--------------------------- MODULE AnalyzerGraph ---------------------------
(***************************************************************************)
(* The scheduler of dag.go and the finalize pass of analyzeSource.  The     *)
(* order is Kahn's sort of the declared edges with any tie-break among the  *)
(* ready nodes (topoSortDAGTieBreak; the default is the registration        *)
(* index), and each node reads and writes its sections when its turn comes. *)
(* The sort does not look at what the nodes do, so the model runs a node as *)
(* the sort emits it.                                                       *)
(***************************************************************************)
EXTENDS AnalyzerNodes

VARIABLES
    demo,      \* the demo, as what each node reads and writes of it
    phase,     \* "wiring", "running", "done", or "panic" (a wiring error)
    done,      \* the nodes scheduled so far
    needs,     \* Kahn's indegrees, as the sets they count: unscheduled providers
    version    \* what each section holds: the nodes that have written it

vars == <<demo, phase, done, needs, version>>

-----------------------------------------------------------------------------
(* The wiring *)

Artifacts == UNION {Provides[n] : n \in Nodes}

\* validateDAG: one provider to an artifact, and one for every requirement.
Valid ==
    /\ \A m, n \in Nodes : m # n => Provides[m] \cap Provides[n] = {}
    /\ \A n \in Nodes : Requires[n] \subseteq Artifacts

\* Who waits for whom.
Pairs == {<<m, n>> : m \in Nodes, n \in Nodes}
Edges == {e \in Pairs : e[1] # e[2] /\ Provides[e[1]] \cap Requires[e[2]] # {}}
Providers(n) == {m \in Nodes : <<m, n>> \in Edges}

\* Which node goes before which: paths of up to 32 edges, among 29 nodes.
Onward(paths) ==
    {e \in Pairs :
        e \in paths \/ \E p \in Nodes : <<e[1], p>> \in paths /\ <<p, e[2]>> \in paths}
Path2 == Onward(Edges)
Path4 == Onward(Path2)
Path8 == Onward(Path4)
Path16 == Onward(Path8)
Before == Onward(Path16)

-----------------------------------------------------------------------------
Init ==
    /\ demo \in {Finalize(d) : d \in Demos}
    /\ phase = "wiring" /\ done = {}
    /\ needs = [n \in Nodes |-> Providers(n)]
    /\ version = [s \in Sections |-> {}]

Validate ==
    /\ phase = "wiring"
    /\ phase' = IF Valid THEN "running" ELSE "panic"
    /\ UNCHANGED <<demo, done, needs, version>>

Ready(n) == n \notin done /\ needs[n] = {}

Run(n) ==
    /\ phase = "running" /\ Ready(n)
    /\ version' = [s \in Sections |->
                     IF s \in demo[n].writes THEN version[s] \cup {n} ELSE version[s]]
    /\ done' = done \cup {n}
    /\ needs' = [m \in Nodes |-> needs[m] \ {n}]
    /\ UNCHANGED <<demo, phase>>

\* Nothing is ready: the pass is over, or the edges go round in a cycle.
Stop ==
    /\ phase = "running" /\ \A n \in Nodes : ~Ready(n)
    /\ phase' = IF done = Nodes THEN "done" ELSE "panic"
    /\ UNCHANGED <<demo, done, needs, version>>

Over == phase \in {"done", "panic"} /\ UNCHANGED vars

Next == Validate \/ (\E n \in Nodes : Run(n)) \/ Stop \/ Over

Spec == Init /\ [][Next]_vars

-----------------------------------------------------------------------------
(* Properties *)

\* What a node waits for is what is left of its requirements.
TypeOK ==
    /\ demo \in [Nodes -> [reads : SUBSET Sections, writes : SUBSET Sections]]
    /\ phase \in {"wiring", "running", "done", "panic"}
    /\ done \subseteq Nodes
    /\ needs = [n \in Nodes |-> Providers(n) \ done]
    /\ version \in [Sections -> SUBSET done]

Touches(n) == demo[n].reads \cup demo[n].writes

\* Two nodes that meet in a section one of them writes.
Conflict(m, n) == demo[m].writes \cap Touches(n) # {} \/ demo[n].writes \cap Touches(m) # {}

Complete ==
    \A m, n \in Nodes :
        m # n /\ Conflict(m, n) => <<m, n>> \in Before \/ <<n, m>> \in Before

\* "The declared edge list is complete" (topoSortDAGTieBreak): whichever two
\* nodes conflict, a declared path says which goes first.
EdgesComplete == phase = "wiring" => Complete

\* "The output is a pure function of the demo under ANY valid topological
\* order" (dag.go): whose writes a node finds in a section it reads or
\* overwrites is settled by the declared edges, whatever the tie-break.
OrderIndependent ==
    [][\A n \in done' \ done : \A m \in Nodes : \A s \in demo[m].writes \cap Touches(n) :
          m \in version[s] <=> <<m, n>> \in Before]_vars
=============================================================================
