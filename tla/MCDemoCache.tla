---------------------------- MODULE MCDemoCache ----------------------------
(***************************************************************************)
(* DemoCache on small instances: what a request may be, and what is on disk *)
(* when the process starts.                                                *)
(***************************************************************************)
EXTENDS DemoCache, TLC

CONSTANTS s1, s2

JobsOf(ops, shas) ==
    {j \in [op : ops, sha : shas, kind : {"sha256", "gameId"}] :
        /\ j.op = "upload" => j.kind = "sha256"
        /\ j.op \in {"warm", "los", "page", "pack"} => j.kind = "gameId"}

\* Visitors, the warmer and uploads meet in the flight of one demo.
FlightJobs ==
    {j \in JobsOf({"get", "warm", "upload"}, {s1}) : j.op = "get" => j.kind = "gameId"}
\* The per-SHA locks and the semaphore; a second demo competes for the LRU.
LocksJobs == JobsOf({"los", "page", "pack"}, {s1}) \cup JobsOf({"los"}, {s2})

\* Every operation at once; what a get does, every other visitor does first.
LiveJobs == JobsOf(Ops \ {"get"}, {s1})

NoFiles == [t \in Tiers |-> {}]
EmptyDisk == {NoFiles}
\* Both Results on disk, and the pack of s1.
WarmDisks ==
    {[NoFiles EXCEPT !["tier2"] = {s1, s2}, !["index"] = {s1, s2}, !["pack"] = {s1}]}

AnyOrder == Permutations(Requests)
=============================================================================
