-------------------------- MODULE MCAnalyzerGraph --------------------------
(***************************************************************************)
(* AnalyzerGraph on the demos whose match starts at the demo's first        *)
(* millisecond (Zero) or on all the others.                                 *)
(***************************************************************************)
EXTENDS AnalyzerGraph

CONSTANT Zero

ASSUME ZeroAssumption == Zero \in BOOLEAN

MCInit == Init /\ demo \in {Finalize(d) : d \in {e \in Demos : "zero" \in e <=> Zero}}
MCSpec == MCInit /\ [][Next]_vars
=============================================================================
