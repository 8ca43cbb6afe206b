-------------------------- MODULE MCEventPipeline --------------------------
(***************************************************************************)
(* EventPipeline on demos of two messages, cut at every offset of the       *)
(* second, with every fault at every message.                               *)
(***************************************************************************)
EXTENDS EventPipeline, TLC

CONSTANTS MaxSize, MinSize

SmallScripts ==
    {s \in [size : MinSize..MaxSize, fault : Faults, at : 0..4, tail : BOOLEAN] :
        /\ s.at > 0 <=> s.fault \in {"decode", "disconnect", "panic", "refuse"}
        /\ s.at <= Whole(s) + (IF s.fault = "refuse" /\ s.tail THEN 1 ELSE 0)}

MCInit == script \in SmallScripts /\ PipelineInit
MCSpec == MCInit /\ [][PipelineNext]_all /\ Fairness
=============================================================================
