------------------------ MODULE AnalyzerGraphProofs ------------------------
(***************************************************************************)
(* What the scheduler guarantees whatever the nodes are: with a complete    *)
(* edge list, any order the sort may produce gives every node the same      *)
(* inputs.  Then what the declarations of the default registry add: they    *)
(* are wired, and they settle every conflict but one, in demos whose match  *)
(* starts at their first millisecond.                                       *)
(***************************************************************************)
EXTENDS AnalyzerGraph, TLAPS

Accesses == [reads : SUBSET Sections, writes : SUBSET Sections]

-----------------------------------------------------------------------------
(* The tables *)

\* Every node reads and writes sections, whatever the demo carries.
LEMMA FinalizeType ==
    ASSUME NEW d PROVE Finalize(d) \in [Nodes -> Accesses]
<1>1. Clock(d) \in Accesses
  BY DEF Clock, Access, Nothing, Identity, Sections, Accesses
<1>2. DemoInfo(d) \in Accesses
  BY DEF DemoInfo, Access, Nothing, Identity, Sections, Accesses
<1>3. Sessions(d) \in Accesses
  BY DEF Sessions, Access, Nothing, Identity, Sections, Accesses
<1>4. Frag(d) \in Accesses
  BY DEF Frag, Access, Nothing, Identity, Sections, Accesses
<1>5. Roster(d) \in Accesses
  BY DEF Roster, Access, Nothing, Identity, Sections, Accesses
<1>6. Metadata(d) \in Accesses
  BY DEF Metadata, Access, Nothing, Identity, Sections, Accesses
<1>7. Match(d) \in Accesses
  BY DEF Match, Access, Nothing, Identity, Sections, Accesses
<1>8. Messages(d) \in Accesses
  BY DEF Messages, Access, Nothing, Identity, Sections, Accesses
<1>9. Timeline(d) \in Accesses
  BY DEF Timeline, Access, Nothing, Identity, Sections, Accesses
<1>10. Items(d) \in Accesses
  BY DEF Items, Access, Nothing, Identity, Sections, Accesses
<1>11. Damage(d) \in Accesses
  BY DEF Damage, Access, Nothing, Identity, Sections, Accesses
<1>12. Shots(d) \in Accesses
  BY DEF Shots, Access, Nothing, Identity, Sections, Accesses
<1>13. MapEntities(d) \in Accesses
  BY DEF MapEntities, Access, Nothing, Identity, Sections, Accesses
<1>14. Backpacks(d) \in Accesses
  BY DEF Backpacks, Access, Nothing, Identity, Sections, Accesses
<1>15. WeaponPickups(d) \in Accesses
  BY DEF WeaponPickups, Access, Nothing, Identity, Sections, Accesses
<1>16. FragsFinal(d) \in Accesses
  BY DEF FragsFinal, Access, Nothing, Identity, Sections, Accesses
<1>17. Aim(d) \in Accesses
  BY DEF Aim, Access, Nothing, Identity, Sections, Accesses
<1>18. Highlights(d) \in Accesses
  BY DEF Highlights, Access, Nothing, Identity, Sections, Accesses
<1>19. MatchFinal(d) \in Accesses
  BY DEF MatchFinal, Access, Nothing, Identity, Sections, Accesses
<1>20. LocGraph(d) \in Accesses
  BY DEF LocGraph, Access, Nothing, Identity, Sections, Accesses
<1>21. NoMatch(d) \in Accesses
  BY DEF NoMatch, Access, Nothing, Identity, Sections, Accesses
<1>22. WallClock(d) \in Accesses
  BY DEF WallClock, Access, Nothing, Identity, Sections, Accesses
<1>23. RegionControl(d) \in Accesses
  BY DEF RegionControl, Access, Nothing, Identity, Sections, Accesses
<1>24. PlayerStats(d) \in Accesses
  BY DEF PlayerStats, Access, Nothing, Identity, Sections, Accesses
<1>25. Opening(d) \in Accesses
  BY DEF Opening, Access, Nothing, Identity, Sections, Accesses
<1>26. BackpackRecon(d) \in Accesses
  BY DEF BackpackRecon, Access, Nothing, Identity, Sections, Accesses
<1>27. BackpackLinkage(d) \in Accesses
  BY DEF BackpackLinkage, Access, Nothing, Identity, Sections, Accesses
<1>28. BackpackPickups(d) \in Accesses
  BY DEF BackpackPickups, Access, Nothing, Identity, Sections, Accesses
<1>29. DamageRecon(d) \in Accesses
  BY DEF DamageRecon, Access, Nothing, Identity, Sections, Accesses
<1> HIDE DEF Accesses
<1> QED
  BY <1>1, <1>2, <1>3, <1>4, <1>5, <1>6, <1>7, <1>8, <1>9, <1>10, <1>11, <1>12, <1>13, <1>14,
     <1>15, <1>16, <1>17, <1>18, <1>19, <1>20, <1>21, <1>22, <1>23, <1>24, <1>25, <1>26, <1>27,
     <1>28, <1>29 DEF Finalize, Nodes, Analyzers, PostProcessors

\* Whatever leads to the outer nodes starts from the inner ones.
From(inner, outer, paths) == \A e \in paths : e[2] \in outer => e[1] \in inner

\* A path never leaves a set of nodes that holds the providers of its members.
LEMMA OnwardFrom ==
    ASSUME NEW inner, NEW outer, inner \subseteq outer, NEW paths, From(inner, outer, paths)
    PROVE  From(inner, outer, Onward(paths))
<1> SUFFICES ASSUME NEW e \in Onward(paths), e[2] \in outer PROVE e[1] \in inner
  BY DEF From
<1>1. CASE e \in paths
  BY <1>1 DEF From
<1>2. CASE \E p \in Nodes : <<e[1], p>> \in paths /\ <<p, e[2]>> \in paths
  <2> PICK p \in Nodes : <<e[1], p>> \in paths /\ <<p, e[2]>> \in paths
    BY <1>2
  <2>1. <<p, e[2]>>[1] \in inner
    BY DEF From
  <2>2. <<e[1], p>>[1] \in inner
    BY <2>1 DEF From
  <2> QED
    BY <2>2
<1> QED
  BY <1>1, <1>2 DEF Onward

LEMMA BeforeFrom ==
    ASSUME NEW inner, NEW outer, inner \subseteq outer, From(inner, outer, Edges)
    PROVE  From(inner, outer, Before)
BY OnwardFrom DEF Path2, Path4, Path8, Path16, Before

-----------------------------------------------------------------------------
(* The schedule *)

\* What is scheduled holds its providers, and a section what they wrote.
Inv ==
    /\ TypeOK
    /\ From(done, done, Edges)
    /\ version = [s \in Sections |-> {m \in done : s \in demo[m].writes}]
    /\ phase = "done" => done = Nodes

LEMMA InvInit == Init => Inv
<1> SUFFICES ASSUME Init PROVE Inv
  OBVIOUS
<1>1. demo \in [Nodes -> Accesses]
  BY FinalizeType DEF Init
<1>2. needs = [n \in Nodes |-> Providers(n) \ done]
  BY DEF Init
<1> QED
  BY <1>1, <1>2 DEF Init, Inv, TypeOK, From, Accesses

\* Pairs of nodes are their two ends.
LEMMA EdgeEnds ==
    ASSUME NEW e \in Edges PROVE e[1] \in Providers(e[2]) /\ e[2] \in Nodes
BY DEF Edges, Pairs, Providers

LEMMA InvRun ==
    ASSUME Inv, NEW n \in Nodes, Run(n) PROVE Inv'
<1> USE DEF Inv, Run
<1>1. TypeOK'
  <2>1. done' \subseteq Nodes /\ demo' = demo /\ phase' = phase
    BY DEF TypeOK
  <2>2. needs' = [m \in Nodes |-> Providers(m) \ done']
    BY DEF TypeOK
  <2>3. version' \in [Sections -> SUBSET done']
    BY DEF TypeOK
  <2> QED
    BY <2>1, <2>2, <2>3 DEF TypeOK, Providers
<1>2. From(done, done, Edges)'
  <2> SUFFICES ASSUME NEW e \in Edges, e[2] \in done' PROVE e[1] \in done'
    BY DEF From
  <2>1. CASE e[2] = n
    BY <2>1, EdgeEnds DEF TypeOK, Ready
  <2>2. CASE e[2] \in done
    BY <2>2 DEF From
  <2> QED
    BY <2>1, <2>2
<1>3. (version = [s \in Sections |-> {m \in done : s \in demo[m].writes}])'
  OBVIOUS
<1>4. (phase = "done" => done = Nodes)'
  OBVIOUS
<1> QED
  BY <1>1, <1>2, <1>3, <1>4

LEMMA InvNext == Inv /\ [Next]_vars => Inv'
<1> SUFFICES ASSUME Inv, [Next]_vars PROVE Inv'
  OBVIOUS
<1>1. CASE Validate
  BY <1>1 DEF Validate, Inv, TypeOK, Providers
<1>2. CASE \E n \in Nodes : Run(n)
  BY <1>2, InvRun
<1>3. CASE Stop
  BY <1>3 DEF Stop, Inv, TypeOK, Providers
<1>4. CASE UNCHANGED vars
  BY <1>4 DEF vars, Inv, TypeOK, Providers
<1> QED
  BY <1>1, <1>2, <1>3, <1>4 DEF Next, Over

\* The invariant of the pass, on which the theorems below rest (analyzeSource).
THEOREM InvHolds == Spec => []Inv
BY InvInit, InvNext, PTL DEF Spec

\* A node waits for exactly the unscheduled part of its declared
\* requirements, in whatever order ties are broken (topoSortDAGTieBreak).
THEOREM TypeCorrect == Spec => []TypeOK
<1>1. Inv => TypeOK
  BY DEF Inv
<1> QED
  BY <1>1, InvHolds, PTL

-----------------------------------------------------------------------------
(* Order independence *)

\* One step of the pass, between two nodes a path orders.
LEMMA StepSettled ==
    ASSUME Inv, [Next]_vars,
           NEW n \in done' \ done, NEW m \in Nodes, NEW s \in demo[m].writes \cap Touches(n),
           m # n => <<m, n>> \in Before \/ <<n, m>> \in Before
    PROVE  m \in version[s] <=> <<m, n>> \in Before
<1>1. Run(n)
  <2>1. CASE Validate
    BY <2>1 DEF Validate
  <2>2. CASE Stop
    BY <2>2 DEF Stop
  <2>3. CASE UNCHANGED vars
    BY <2>3 DEF vars
  <2>4. CASE \E k \in Nodes : Run(k)
    BY <2>4 DEF Run
  <2> QED
    BY <2>1, <2>2, <2>3, <2>4 DEF Next, Over
<1>2. n \in Nodes /\ n \in done' /\ n \notin done
  BY <1>1, InvNext DEF Inv, TypeOK
<1>3. s \in Sections /\ demo[m].writes \subseteq Sections
  BY DEF Inv, TypeOK
<1>4. m \in version[s] <=> m \in done
  BY <1>3 DEF Inv
<1>5. done' = done \cup {n} /\ Providers(n) \subseteq done
  BY <1>1, <1>2 DEF Run, Ready, Inv, TypeOK
<1>6. From(done, done', Before)
  <2>1. From(done, done', Edges)
    BY <1>5, EdgeEnds DEF Inv, From
  <2> QED
    BY <2>1, <1>5, BeforeFrom
<1>7. ASSUME <<m, n>> \in Before PROVE m \in done
  BY <1>2, <1>6, <1>7 DEF From
<1>8. ASSUME <<n, m>> \in Before PROVE m \notin done
  BY <1>2, <1>5, <1>6, <1>8 DEF From
<1> QED
  BY <1>2, <1>4, <1>7, <1>8

\* A demo whose conflicts the declared edges settle is analyzed the same way
\* in every order the sort may produce ("a pure function of the demo under
\* ANY valid topological order", dag.go).
THEOREM OrderSettled == Spec /\ EdgesComplete => OrderIndependent
<1> DEFINE Step == [\A n \in done' \ done : \A m \in Nodes :
                      \A s \in demo[m].writes \cap Touches(n) :
                         m \in version[s] <=> <<m, n>> \in Before]_vars
<1>1. Init /\ EdgesComplete => Complete
  BY DEF Init, EdgesComplete
<1>2. Complete /\ [Next]_vars => Complete'
  <2> SUFFICES ASSUME [Next]_vars PROVE demo' = demo
    BY DEF Complete, Conflict, Touches
  <2> QED
    BY DEF Next, Validate, Run, Stop, Over, vars
<1>3. Inv /\ Complete /\ [Next]_vars => Step
  <2> SUFFICES ASSUME Inv, Complete, [Next]_vars, NEW n \in done' \ done, NEW m \in Nodes,
                      NEW s \in demo[m].writes \cap Touches(n)
               PROVE  m \in version[s] <=> <<m, n>> \in Before
    OBVIOUS
  <2>1. n \in Nodes
    BY InvNext DEF Inv, TypeOK
  <2>2. m # n => <<m, n>> \in Before \/ <<n, m>> \in Before
    BY <2>1 DEF Complete, Conflict
  <2> QED
    BY <2>2, StepSettled
<1> QED
  BY <1>1, <1>2, <1>3, InvHolds, PTL DEF Spec, OrderIndependent

-----------------------------------------------------------------------------
(* The declarations *)

\* Who may write a section, whatever the demo.
Writers ==
    [clock       |-> {"clock"},
     demoinfo    |-> {"demoinfo"},
     teams       |-> {"demoinfo", "roster"},
     names       |-> {"demoinfo"},
     slots       |-> {"demoinfo"},
     sessions    |-> {"identity"},
     serverinfo  |-> {"metadata"},
     roster      |-> {"roster", "match"},
     mode        |-> {"roster", "match"},
     match       |-> {"match"},
     scores      |-> {"match", "match_final"},
     fragLog     |-> {"frag", "frags_final"},
     teamkills   |-> {"frag"},
     frags       |-> {"frag", "frags_final"},
     messages    |-> {"messages"},
     analysis    |-> {"timeline"},
     regions     |-> {"timeline", "region_control"},
     streams     |-> {"timeline"},
     anchor      |-> {"timeline", "wall_clock"},
     items       |-> {"items"},
     damage      |-> {"damage", "damage_recon"},
     shots       |-> {"shots"},
     shotStreams |-> {"shots"},
     mapEntities |-> {"map_entities"},
     packTrack   |-> {"backpacks"},
     backpacks   |-> {"backpacks", "backpack_recon"},
     fates       |-> {"backpacks", "backpack_linkage", "backpack_pickups"},
     pickups     |-> {"weapon_pickups"},
     aim         |-> {"aim"},
     highlights  |-> {"highlights"},
     measured    |-> {"match_final"},
     locGraph    |-> {"loc_graph"},
     noMatch     |-> {"no_match"},
     markers     |-> {"wall_clock"},
     playerStats |-> {"player_stats"},
     opening     |-> {"opening"}]

\* Who goes before a node: the others it meets in some section.
Ahead ==
    [clock            |-> {},
     demoinfo         |-> {},
     identity         |-> {"demoinfo"},
     frag             |-> {"clock", "demoinfo", "identity", "roster", "match"},
     roster           |-> {"demoinfo", "identity", "metadata"},
     metadata         |-> {},
     match            |-> {"demoinfo", "identity", "roster", "metadata"},
     messages         |-> {"clock", "demoinfo", "roster", "match"},
     timeline         |-> {"clock", "demoinfo", "identity", "frag", "roster", "metadata", "match"},
     items            |-> {"clock", "demoinfo", "identity", "roster", "match"},
     damage           |-> {"clock", "demoinfo", "identity", "roster", "metadata", "match"},
     shots            |-> {"clock", "demoinfo", "identity", "roster", "match", "timeline"},
     map_entities     |-> {},
     backpacks        |-> {"clock", "demoinfo", "identity", "roster", "match"},
     weapon_pickups   |-> {"clock", "demoinfo", "identity", "frag", "roster", "match"},
     frags_final      |-> {"clock", "demoinfo", "frag", "timeline"},
     aim              |-> {"timeline", "damage", "shots", "damage_recon"},
     highlights       |-> {"frag", "match", "timeline", "damage", "frags_final", "damage_recon"},
     match_final      |-> {"frag", "match", "frags_final"},
     loc_graph        |-> {"demoinfo", "roster", "timeline"},
     no_match         |-> {"frag", "metadata", "timeline", "frags_final"},
     wall_clock       |-> {"clock", "demoinfo", "metadata", "timeline", "no_match"},
     region_control   |-> {"demoinfo", "roster", "match", "timeline"},
     player_stats     |-> {"identity", "frag", "roster", "match", "timeline", "items", "damage",
                           "shots", "backpacks", "weapon_pickups", "frags_final", "aim",
                           "match_final", "backpack_recon", "damage_recon"},
     opening          |-> {"clock", "timeline", "items"},
     backpack_recon   |-> {"frag", "metadata", "timeline", "backpacks", "frags_final"},
     backpack_linkage |-> {"metadata", "timeline", "items", "backpacks", "backpack_recon"},
     backpack_pickups |-> {"backpacks", "weapon_pickups", "backpack_recon", "backpack_linkage"},
     damage_recon     |-> {"demoinfo", "frag", "roster", "metadata", "match", "timeline",
                           "damage", "shots", "frags_final"}]

\* The two lists of dag.go side by side.
LEMMA AnalyzerEdges ==
    ASSUME NEW n \in Analyzers PROVE n \in Nodes /\ Requires[n] = AnalyzerRequires[n]
BY DEF Requires, Nodes

LEMMA PostEdges ==
    ASSUME NEW n \in PostProcessors PROVE n \in Nodes /\ Requires[n] = PostRequires[n]
BY DEF Requires, Nodes, Analyzers, PostProcessors

\* A node waits for those it names, and for the last writer of an artifact.
LEMMA Suppliers ==
    ASSUME NEW n \in Nodes
    PROVE  /\ \A m \in Requires[n] \cap Nodes : m # n => m \in Providers(n)
           /\ \A m \in DOMAIN Extra : m # n /\ Extra[m] \in Requires[n] => m \in Providers(n)
<1>1. \A m \in Nodes : m \in Provides[m]
  BY DEF Provides
<1>2. \A m \in DOMAIN Extra : m \in Nodes /\ Extra[m] \in Provides[m]
  BY DEF Provides, Extra, Nodes, Analyzers, PostProcessors
<1>3. ASSUME NEW m \in Nodes, m # n, NEW a \in Provides[m], a \in Requires[n]
      PROVE  m \in Providers(n)
  BY <1>3 DEF Providers, Edges, Pairs
<1> QED
  BY <1>1, <1>2, <1>3

\* The five artifacts a last writer provides under a name of their own.
LEMMA Finals ==
    ASSUME NEW n \in Nodes
    PROVE  /\ "roster:final" \in Requires[n] /\ n # "match" => "match" \in Providers(n)
           /\ "frags:final" \in Requires[n] /\ n # "frags_final" => "frags_final" \in Providers(n)
           /\ "match:final" \in Requires[n] /\ n # "match_final" => "match_final" \in Providers(n)
           /\ "backpacks:final" \in Requires[n] /\ n # "backpack_recon" =>
                  "backpack_recon" \in Providers(n)
           /\ "damage:final" \in Requires[n] /\ n # "damage_recon" =>
                  "damage_recon" \in Providers(n)
<1>1. /\ {"match", "frags_final", "match_final", "backpack_recon", "damage_recon"}
            \subseteq DOMAIN Extra
      /\ Extra["match"] = "roster:final" /\ Extra["frags_final"] = "frags:final"
      /\ Extra["match_final"] = "match:final" /\ Extra["backpack_recon"] = "backpacks:final"
      /\ Extra["damage_recon"] = "damage:final"
  BY DEF Extra
<1> QED
  BY <1>1, Suppliers

\* The declared edges into each analyzer that the meetings below need.
LEMMA AnalyzerProviders ==
    /\ {"demoinfo"} \subseteq Providers("identity")
    /\ {"clock", "demoinfo", "identity", "match"} \subseteq Providers("frag")
    /\ {"demoinfo", "identity", "metadata"} \subseteq Providers("roster")
    /\ {"demoinfo", "identity", "roster", "metadata"} \subseteq Providers("match")
    /\ {"clock", "demoinfo", "match"} \subseteq Providers("messages")
    /\ {"clock", "demoinfo", "identity", "frag", "metadata",
        "match"} \subseteq Providers("timeline")
    /\ {"clock", "demoinfo", "identity", "match"} \subseteq Providers("items")
    /\ {"clock", "demoinfo", "identity", "metadata", "match"} \subseteq Providers("damage")
    /\ {"clock", "demoinfo", "identity", "match", "timeline"} \subseteq Providers("shots")
    /\ {"clock", "demoinfo", "identity", "match"} \subseteq Providers("backpacks")
    /\ {"clock", "identity", "frag", "match"} \subseteq Providers("weapon_pickups")
<1>1. {"demoinfo"} \subseteq Providers("identity")
  BY AnalyzerEdges, Suppliers, Finals DEF AnalyzerRequires, Nodes, Analyzers, PostProcessors
<1>2. {"clock", "demoinfo", "identity", "match"} \subseteq Providers("frag")
  BY AnalyzerEdges, Suppliers, Finals DEF AnalyzerRequires, Nodes, Analyzers, PostProcessors
<1>3. {"demoinfo", "identity", "metadata"} \subseteq Providers("roster")
  BY AnalyzerEdges, Suppliers, Finals DEF AnalyzerRequires, Nodes, Analyzers, PostProcessors
<1>4. {"demoinfo", "identity", "roster", "metadata"} \subseteq Providers("match")
  BY AnalyzerEdges, Suppliers, Finals DEF AnalyzerRequires, Nodes, Analyzers, PostProcessors
<1>5. {"clock", "demoinfo", "match"} \subseteq Providers("messages")
  BY AnalyzerEdges, Suppliers, Finals DEF AnalyzerRequires, Nodes, Analyzers, PostProcessors
<1>6. {"clock", "demoinfo", "identity", "frag", "metadata",
       "match"} \subseteq Providers("timeline")
  BY AnalyzerEdges, Suppliers, Finals DEF AnalyzerRequires, Nodes, Analyzers, PostProcessors
<1>7. {"clock", "demoinfo", "identity", "match"} \subseteq Providers("items")
  BY AnalyzerEdges, Suppliers, Finals DEF AnalyzerRequires, Nodes, Analyzers, PostProcessors
<1>8. {"clock", "demoinfo", "identity", "metadata", "match"} \subseteq Providers("damage")
  BY AnalyzerEdges, Suppliers, Finals DEF AnalyzerRequires, Nodes, Analyzers, PostProcessors
<1>9. {"clock", "demoinfo", "identity", "match", "timeline"} \subseteq Providers("shots")
  BY AnalyzerEdges, Suppliers, Finals DEF AnalyzerRequires, Nodes, Analyzers, PostProcessors
<1>10. {"clock", "demoinfo", "identity", "match"} \subseteq Providers("backpacks")
  BY AnalyzerEdges, Suppliers, Finals DEF AnalyzerRequires, Nodes, Analyzers, PostProcessors
<1>11. {"clock", "identity", "frag", "match"} \subseteq Providers("weapon_pickups")
  BY AnalyzerEdges, Suppliers, Finals DEF AnalyzerRequires, Nodes, Analyzers, PostProcessors
<1> QED
  BY <1>1, <1>2, <1>3, <1>4, <1>5, <1>6, <1>7, <1>8, <1>9, <1>10, <1>11

\* And into each post-processor.
LEMMA PostProviders ==
    /\ {"clock", "demoinfo", "frag", "timeline"} \subseteq Providers("frags_final")
    /\ {"timeline", "shots", "damage_recon"} \subseteq Providers("aim")
    /\ {"timeline", "frags_final", "damage_recon"} \subseteq Providers("highlights")
    /\ {"match", "frags_final"} \subseteq Providers("match_final")
    /\ {"demoinfo", "timeline"} \subseteq Providers("loc_graph")
    /\ {"metadata", "timeline", "frags_final"} \subseteq Providers("no_match")
    /\ {"clock", "demoinfo", "metadata", "timeline", "no_match"} \subseteq Providers("wall_clock")
    /\ {"demoinfo", "match", "timeline"} \subseteq Providers("region_control")
    /\ {"identity", "match", "timeline", "items", "shots", "weapon_pickups", "frags_final",
        "aim", "match_final", "backpack_recon", "damage_recon"} \subseteq Providers("player_stats")
    /\ {"timeline", "items"} \subseteq Providers("opening")
    /\ {"metadata", "timeline", "backpacks", "frags_final"} \subseteq Providers("backpack_recon")
    /\ {"timeline", "items", "backpack_recon"} \subseteq Providers("backpack_linkage")
    /\ {"weapon_pickups", "backpack_recon",
        "backpack_linkage"} \subseteq Providers("backpack_pickups")
    /\ {"demoinfo", "metadata", "timeline", "damage", "shots",
        "frags_final"} \subseteq Providers("damage_recon")
<1>1. {"clock", "demoinfo", "frag", "timeline"} \subseteq Providers("frags_final")
  BY PostEdges, Suppliers, Finals DEF PostRequires, Nodes, Analyzers, PostProcessors
<1>2. {"timeline", "shots", "damage_recon"} \subseteq Providers("aim")
  BY PostEdges, Suppliers, Finals DEF PostRequires, Nodes, Analyzers, PostProcessors
<1>3. {"timeline", "frags_final", "damage_recon"} \subseteq Providers("highlights")
  BY PostEdges, Suppliers, Finals DEF PostRequires, Nodes, Analyzers, PostProcessors
<1>4. {"match", "frags_final"} \subseteq Providers("match_final")
  BY PostEdges, Suppliers, Finals DEF PostRequires, Nodes, Analyzers, PostProcessors
<1>5. {"demoinfo", "timeline"} \subseteq Providers("loc_graph")
  BY PostEdges, Suppliers, Finals DEF PostRequires, Nodes, Analyzers, PostProcessors
<1>6. {"metadata", "timeline", "frags_final"} \subseteq Providers("no_match")
  BY PostEdges, Suppliers, Finals DEF PostRequires, Nodes, Analyzers, PostProcessors
<1>7. {"clock", "demoinfo", "metadata", "timeline", "no_match"} \subseteq Providers("wall_clock")
  BY PostEdges, Suppliers, Finals DEF PostRequires, Nodes, Analyzers, PostProcessors
<1>8. {"demoinfo", "match", "timeline"} \subseteq Providers("region_control")
  BY PostEdges, Suppliers, Finals DEF PostRequires, Nodes, Analyzers, PostProcessors
<1>9. {"identity", "match", "timeline", "items", "shots", "weapon_pickups", "frags_final", "aim",
       "match_final", "backpack_recon", "damage_recon"} \subseteq Providers("player_stats")
  BY PostEdges, Suppliers, Finals DEF PostRequires, Nodes, Analyzers, PostProcessors
<1>10. {"timeline", "items"} \subseteq Providers("opening")
  BY PostEdges, Suppliers, Finals DEF PostRequires, Nodes, Analyzers, PostProcessors
<1>11. {"metadata", "timeline", "backpacks", "frags_final"} \subseteq Providers("backpack_recon")
  BY PostEdges, Suppliers, Finals DEF PostRequires, Nodes, Analyzers, PostProcessors
<1>12. {"timeline", "items", "backpack_recon"} \subseteq Providers("backpack_linkage")
  BY PostEdges, Suppliers, Finals DEF PostRequires, Nodes, Analyzers, PostProcessors
<1>13. {"weapon_pickups", "backpack_recon",
        "backpack_linkage"} \subseteq Providers("backpack_pickups")
  BY PostEdges, Suppliers, Finals DEF PostRequires, Nodes, Analyzers, PostProcessors
<1>14. {"demoinfo", "metadata", "timeline", "damage", "shots",
        "frags_final"} \subseteq Providers("damage_recon")
  BY PostEdges, Suppliers, Finals DEF PostRequires, Nodes, Analyzers, PostProcessors
<1> QED
  BY <1>1, <1>2, <1>3, <1>4, <1>5, <1>6, <1>7, <1>8, <1>9, <1>10, <1>11, <1>12, <1>13, <1>14

\* A node's providers go before it, and so do theirs, and theirs.
LEMMA BeforeVia ==
    ASSUME NEW n, NEW p \in Providers(n)
    PROVE  /\ <<p, n>> \in Before
           /\ \A k \in Providers(p) : <<k, n>> \in Before
           /\ \A k \in Providers(p) : \A l \in Providers(k) : <<l, n>> \in Before
<1>1. Edges \subseteq Path2 /\ Path2 \subseteq Path4 /\ Path4 \subseteq Before
  BY DEF Edges, Onward, Path2, Path4, Path8, Path16, Before
<1>2. ASSUME NEW paths, NEW m \in Nodes, NEW o \in Nodes, NEW k \in Nodes,
             <<m, k>> \in paths, <<k, o>> \in paths
      PROVE  <<m, o>> \in Onward(paths)
  <2>1. <<m, o>> \in Pairs
    BY DEF Pairs
  <2>2. \E i \in Nodes : <<m, i>> \in paths /\ <<i, o>> \in paths
    BY <1>2
  <2> QED
    BY <2>1, <2>2 DEF Onward
<1>3. p \in Nodes /\ n \in Nodes /\ <<p, n>> \in Edges
  BY DEF Providers, Edges, Pairs
<1>4. ASSUME NEW k \in Providers(p) PROVE k \in Nodes /\ <<k, p>> \in Edges /\ <<k, n>> \in Path2
  BY <1>2, <1>3 DEF Providers, Path2
<1>5. ASSUME NEW k \in Providers(p), NEW l \in Providers(k) PROVE <<l, n>> \in Path4
  <2>1. l \in Nodes /\ <<l, k>> \in Edges
    BY DEF Providers
  <2> QED
    BY <1>1, <1>2, <1>3, <1>4, <2>1 DEF Path4
<1> QED
  BY <1>1, <1>3, <1>4, <1>5

\* The paths of more than one edge the table needs, by the last node on the way.
LEMMA Detours ==
    ASSUME NEW n
    PROVE  /\ \A p \in Providers(n) : <<p, n>> \in Before
           /\ "match" \in Providers(n) => <<"roster", n>> \in Before /\ <<"demoinfo", n>> \in Before
           /\ "timeline" \in Providers(n) =>
                  /\ <<"clock", n>> \in Before
                  /\ <<"match", n>> \in Before /\ <<"roster", n>> \in Before
           /\ "frags_final" \in Providers(n) => <<"frag", n>> \in Before
           /\ "damage_recon" \in Providers(n) => <<"damage", n>> \in Before
           /\ "backpack_recon" \in Providers(n) =>
                  <<"backpacks", n>> \in Before /\ <<"metadata", n>> \in Before
<1>1. \A p \in Providers(n) : <<p, n>> \in Before
  BY BeforeVia
<1>2. "match" \in Providers(n) => <<"roster", n>> \in Before /\ <<"demoinfo", n>> \in Before
  <2>1. {"roster", "demoinfo"} \subseteq Providers("match")
    BY AnalyzerProviders
  <2> QED
    BY <2>1, BeforeVia
<1>3. "timeline" \in Providers(n) =>
        <<"clock", n>> \in Before /\ <<"match", n>> \in Before /\ <<"roster", n>> \in Before
  <2>1. {"clock", "match"} \subseteq Providers("timeline") /\ "roster" \in Providers("match")
    BY AnalyzerProviders
  <2> QED
    BY <2>1, BeforeVia
<1>4. "frags_final" \in Providers(n) => <<"frag", n>> \in Before
  <2>1. "frag" \in Providers("frags_final")
    BY PostProviders
  <2> QED
    BY <2>1, BeforeVia
<1>5. "damage_recon" \in Providers(n) => <<"damage", n>> \in Before
  <2>1. "damage" \in Providers("damage_recon")
    BY PostProviders
  <2> QED
    BY <2>1, BeforeVia
<1>6. "backpack_recon" \in Providers(n) =>
        <<"backpacks", n>> \in Before /\ <<"metadata", n>> \in Before
  <2>1. {"backpacks", "metadata"} \subseteq Providers("backpack_recon")
    BY PostProviders
  <2> QED
    BY <2>1, BeforeVia
<1> QED
  BY <1>1, <1>2, <1>3, <1>4, <1>5, <1>6

\* Every row of the table is a declared path.
LEMMA AheadBefore ==
    ASSUME NEW n \in Nodes, NEW m \in Ahead[n] PROVE <<m, n>> \in Before
<1> DEFINE Behind(o) == \A a \in Ahead[o] : <<a, o>> \in Before
<1>0. \A o \in {"clock", "demoinfo", "metadata", "map_entities"} : Behind(o)
  BY DEF Ahead
<1>1. Behind("identity")
  BY AnalyzerProviders, Detours DEF Ahead
<1>2. Behind("frag")
  BY AnalyzerProviders, Detours DEF Ahead
<1>3. Behind("roster")
  BY AnalyzerProviders, Detours DEF Ahead
<1>4. Behind("match")
  BY AnalyzerProviders, Detours DEF Ahead
<1>5. Behind("messages")
  BY AnalyzerProviders, Detours DEF Ahead
<1>6. Behind("timeline")
  BY AnalyzerProviders, Detours DEF Ahead
<1>7. Behind("items")
  BY AnalyzerProviders, Detours DEF Ahead
<1>8. Behind("damage")
  BY AnalyzerProviders, Detours DEF Ahead
<1>9. Behind("shots")
  BY AnalyzerProviders, Detours DEF Ahead
<1>10. Behind("backpacks")
  BY AnalyzerProviders, Detours DEF Ahead
<1>11. Behind("weapon_pickups")
  BY AnalyzerProviders, Detours DEF Ahead
<1>12. Behind("frags_final")
  BY PostProviders, Detours DEF Ahead
<1>13. Behind("aim")
  BY PostProviders, Detours DEF Ahead
<1>14. Behind("highlights")
  BY PostProviders, Detours DEF Ahead
<1>15. Behind("match_final")
  BY PostProviders, Detours DEF Ahead
<1>16. Behind("loc_graph")
  BY PostProviders, Detours DEF Ahead
<1>17. Behind("no_match")
  BY PostProviders, Detours DEF Ahead
<1>18. Behind("wall_clock")
  BY PostProviders, Detours DEF Ahead
<1>19. Behind("region_control")
  BY PostProviders, Detours DEF Ahead
<1>20. Behind("player_stats")
  BY PostProviders, Detours DEF Ahead
<1>21. Behind("opening")
  BY PostProviders, Detours DEF Ahead
<1>22. Behind("backpack_recon")
  BY PostProviders, Detours DEF Ahead
<1>23. Behind("backpack_linkage")
  BY PostProviders, Detours DEF Ahead
<1>24. Behind("backpack_pickups")
  BY PostProviders, Detours DEF Ahead
<1>25. Behind("damage_recon")
  BY PostProviders, Detours DEF Ahead
<1> HIDE DEF Behind
<1>26. Behind(n)
  BY <1>0, <1>1, <1>2, <1>3, <1>4, <1>5, <1>6, <1>7, <1>8, <1>9, <1>10, <1>11, <1>12, <1>13,
     <1>14, <1>15, <1>16, <1>17, <1>18, <1>19, <1>20, <1>21, <1>22, <1>23, <1>24, <1>25
  DEF Nodes, Analyzers, PostProcessors
<1> QED
  BY <1>26 DEF Behind

\* The table of writers is complete.
LEMMA WritersKnown ==
    ASSUME NEW d, NEW m \in Nodes, NEW s \in Finalize(d)[m].writes
    PROVE  m \in Writers[s]
<1> DEFINE Known(o, access) == \A t \in access.writes : o \in Writers[t]
<1>1. Known("clock", Clock(d))
  BY DEF Clock, Access, Writers
<1>2. Known("demoinfo", DemoInfo(d))
  BY DEF DemoInfo, Access, Nothing, Writers
<1>3. Known("identity", Sessions(d))
  BY DEF Sessions, Access, Writers
<1>4. Known("frag", Frag(d))
  BY DEF Frag, Access, Writers
<1>5. Known("roster", Roster(d))
  BY DEF Roster, Access, Writers
<1>6. Known("metadata", Metadata(d))
  BY DEF Metadata, Access, Writers
<1>7. Known("match", Match(d))
  BY DEF Match, Access, Writers
<1>8. Known("messages", Messages(d))
  BY DEF Messages, Access, Writers
<1>9. Known("timeline", Timeline(d))
  BY DEF Timeline, Access, Writers
<1>10. Known("items", Items(d))
  BY DEF Items, Access, Writers
<1>11. Known("damage", Damage(d))
  BY DEF Damage, Access, Nothing, Writers
<1>12. Known("shots", Shots(d))
  BY DEF Shots, Access, Writers
<1>13. Known("map_entities", MapEntities(d))
  BY DEF MapEntities, Access, Writers
<1>14. Known("backpacks", Backpacks(d))
  BY DEF Backpacks, Access, Writers
<1>15. Known("weapon_pickups", WeaponPickups(d))
  BY DEF WeaponPickups, Access, Writers
<1>16. Known("frags_final", FragsFinal(d))
  BY DEF FragsFinal, Access, Writers
<1>17. Known("aim", Aim(d))
  BY DEF Aim, Access, Writers
<1>18. Known("highlights", Highlights(d))
  BY DEF Highlights, Access, Writers
<1>19. Known("match_final", MatchFinal(d))
  BY DEF MatchFinal, Access, Writers
<1>20. Known("loc_graph", LocGraph(d))
  BY DEF LocGraph, Access, Writers
<1>21. Known("no_match", NoMatch(d))
  BY DEF NoMatch, Access, Writers
<1>22. Known("wall_clock", WallClock(d))
  BY DEF WallClock, Access, Writers
<1>23. Known("region_control", RegionControl(d))
  BY DEF RegionControl, Access, Writers
<1>24. Known("player_stats", PlayerStats(d))
  BY DEF PlayerStats, Access, Writers
<1>25. Known("opening", Opening(d))
  BY DEF Opening, Access, Writers
<1>26. Known("backpack_recon", BackpackRecon(d))
  BY DEF BackpackRecon, Access, Writers
<1>27. Known("backpack_linkage", BackpackLinkage(d))
  BY DEF BackpackLinkage, Access, Writers
<1>28. Known("backpack_pickups", BackpackPickups(d))
  BY DEF BackpackPickups, Access, Writers
<1>29. Known("damage_recon", DamageRecon(d))
  BY DEF DamageRecon, Access, Writers
<1> HIDE DEF Known
<1>30. Known(m, Finalize(d)[m])
  BY <1>1, <1>2, <1>3, <1>4, <1>5, <1>6, <1>7, <1>8, <1>9, <1>10, <1>11, <1>12, <1>13, <1>14,
     <1>15, <1>16, <1>17, <1>18, <1>19, <1>20, <1>21, <1>22, <1>23, <1>24, <1>25, <1>26, <1>27,
     <1>28, <1>29 DEF Finalize, Nodes, Analyzers, PostProcessors
<1> QED
  BY <1>30 DEF Known

\* What orders a node and a writer of a section it touches.
Settled(m, n) == m = n \/ m \in Ahead[n] \/ n \in Ahead[m]

\* The one meeting nothing orders: with no shift to copy for, frags_final sorts
\* the fragment log weapon_pickups reads.
Gap(m, n, s) == s = "fragLog" /\ {m, n} = {"frags_final", "weapon_pickups"}

\* Whichever writer of a section a node meets, a row of the table orders the two.
LEMMA MeetingsSettled ==
    ASSUME NEW d, NEW n \in Nodes, NEW s \in Finalize(d)[n].reads \cup Finalize(d)[n].writes,
           NEW m \in Writers[s]
    PROVE  Settled(m, n) \/ Gap(m, n, s)
<1> DEFINE Meets(o, access) ==
             \A t \in access.reads \cup access.writes : \A k \in Writers[t] :
                Settled(k, o) \/ Gap(k, o, t)
<1>1. Meets("clock", Clock(d))
  BY DEF Clock, Access, Writers, Ahead, Settled, Gap
<1>2. Meets("demoinfo", DemoInfo(d))
  BY DEF DemoInfo, Access, Nothing, Writers, Ahead, Settled, Gap
<1>3. Meets("identity", Sessions(d))
  BY DEF Sessions, Access, Writers, Ahead, Settled, Gap
<1>4. Meets("frag", Frag(d))
  BY DEF Frag, Access, Identity, Writers, Ahead, Settled, Gap
<1>5. Meets("roster", Roster(d))
  BY DEF Roster, Access, Writers, Ahead, Settled, Gap
<1>6. Meets("metadata", Metadata(d))
  BY DEF Metadata, Access, Writers, Ahead, Settled, Gap
<1>7. Meets("match", Match(d))
  BY DEF Match, Access, Identity, Writers, Ahead, Settled, Gap
<1>8. Meets("messages", Messages(d))
  BY DEF Messages, Access, Writers, Ahead, Settled, Gap
<1>9. Meets("timeline", Timeline(d))
  BY DEF Timeline, Access, Identity, Writers, Ahead, Settled, Gap
<1>10. Meets("items", Items(d))
  BY DEF Items, Access, Identity, Writers, Ahead, Settled, Gap
<1>11. Meets("damage", Damage(d))
  BY DEF Damage, Access, Nothing, Identity, Writers, Ahead, Settled, Gap
<1>12. Meets("shots", Shots(d))
  BY DEF Shots, Access, Identity, Writers, Ahead, Settled, Gap
<1>13. Meets("map_entities", MapEntities(d))
  BY DEF MapEntities, Access, Writers, Ahead, Settled, Gap
<1>14. Meets("backpacks", Backpacks(d))
  BY DEF Backpacks, Access, Identity, Writers, Ahead, Settled, Gap
<1>15. Meets("weapon_pickups", WeaponPickups(d))
  BY DEF WeaponPickups, Access, Identity, Writers, Ahead, Settled, Gap
<1>16. Meets("frags_final", FragsFinal(d))
  BY DEF FragsFinal, Access, Writers, Ahead, Settled, Gap
<1>17. Meets("aim", Aim(d))
  BY DEF Aim, Access, Writers, Ahead, Settled, Gap
<1>18. Meets("highlights", Highlights(d))
  BY DEF Highlights, Access, Writers, Ahead, Settled, Gap
<1>19. Meets("match_final", MatchFinal(d))
  BY DEF MatchFinal, Access, Writers, Ahead, Settled, Gap
<1>20. Meets("loc_graph", LocGraph(d))
  BY DEF LocGraph, Access, Writers, Ahead, Settled, Gap
<1>21. Meets("no_match", NoMatch(d))
  BY DEF NoMatch, Access, Writers, Ahead, Settled, Gap
<1>22. Meets("wall_clock", WallClock(d))
  BY DEF WallClock, Access, Writers, Ahead, Settled, Gap
<1>23. Meets("region_control", RegionControl(d))
  BY DEF RegionControl, Access, Writers, Ahead, Settled, Gap
<1>24. Meets("player_stats", PlayerStats(d))
  BY DEF PlayerStats, Access, Writers, Ahead, Settled, Gap
<1>25. Meets("opening", Opening(d))
  BY DEF Opening, Access, Writers, Ahead, Settled, Gap
<1>26. Meets("backpack_recon", BackpackRecon(d))
  BY DEF BackpackRecon, Access, Writers, Ahead, Settled, Gap
<1>27. Meets("backpack_linkage", BackpackLinkage(d))
  BY DEF BackpackLinkage, Access, Writers, Ahead, Settled, Gap
<1>28. Meets("backpack_pickups", BackpackPickups(d))
  BY DEF BackpackPickups, Access, Writers, Ahead, Settled, Gap
<1>29. Meets("damage_recon", DamageRecon(d))
  BY DEF DamageRecon, Access, Writers, Ahead, Settled, Gap
<1> HIDE DEF Meets
<1>30. Meets(n, Finalize(d)[n])
  BY <1>1, <1>2, <1>3, <1>4, <1>5, <1>6, <1>7, <1>8, <1>9, <1>10, <1>11, <1>12, <1>13, <1>14,
     <1>15, <1>16, <1>17, <1>18, <1>19, <1>20, <1>21, <1>22, <1>23, <1>24, <1>25, <1>26, <1>27,
     <1>28, <1>29 DEF Finalize, Nodes, Analyzers, PostProcessors
<1> QED
  BY <1>30 DEF Meets

\* Two nodes that meet are ordered, whatever the demo, but for the gap.
LEMMA PairSettled ==
    ASSUME NEW d, NEW m \in Nodes, NEW n \in Nodes, m # n,
           NEW s \in Finalize(d)[m].writes, s \in Finalize(d)[n].reads \cup Finalize(d)[n].writes
    PROVE  <<m, n>> \in Before \/ <<n, m>> \in Before \/ Gap(m, n, s)
<1>1. Settled(m, n) \/ Gap(m, n, s)
  BY WritersKnown, MeetingsSettled
<1> QED
  BY <1>1, AheadBefore DEF Settled

\* The demos whose match starts after their first millisecond.
Shifted == {Finalize(d) : d \in {e \in Demos : "zero" \notin e}}

\* With a shift, frags_final leaves the fragment log alone.
LEMMA NoGapShifted ==
    ASSUME demo \in Shifted, NEW m \in Nodes, NEW n \in Nodes, NEW s \in demo[m].writes
    PROVE  ~Gap(m, n, s)
<1> SUFFICES ASSUME Gap(m, n, s) PROVE FALSE
  OBVIOUS
<1> PICK d \in Demos : "zero" \notin d /\ demo = Finalize(d)
  BY DEF Shifted
<1>1. "fragLog" \notin FragsFinal(d).writes /\ "fragLog" \notin WeaponPickups(d).writes
  BY DEF FragsFinal, WeaponPickups, Access
<1>2. /\ Finalize(d)["frags_final"] = FragsFinal(d)
      /\ Finalize(d)["weapon_pickups"] = WeaponPickups(d)
  BY DEF Finalize
<1>3. m = "frags_final" \/ m = "weapon_pickups"
  BY DEF Gap
<1> QED
  BY <1>1, <1>2, <1>3 DEF Gap

LEMMA ShiftedComplete == demo \in Shifted => Complete
<1> SUFFICES ASSUME demo \in Shifted, NEW m \in Nodes, NEW n \in Nodes, m # n,
                    NEW s \in demo[m].writes, s \in Touches(n)
             PROVE  <<m, n>> \in Before \/ <<n, m>> \in Before
  BY DEF Complete, Conflict
<1>1. PICK d \in Demos : demo = Finalize(d)
  BY DEF Shifted
<1> QED
  BY <1>1, PairSettled, NoGapShifted DEF Touches

\* "The declared edge list is complete" (topoSortDAGTieBreak): between two nodes
\* that meet in a section one of them writes there is a declared path, in every
\* demo whose match starts after its first millisecond.
THEOREM EdgesSuffice == Spec /\ demo \in Shifted => []EdgesComplete
<1>1. demo \in Shifted /\ [Next]_vars => (demo \in Shifted)'
  BY DEF Next, Validate, Run, Stop, Over, vars, Shifted
<1>2. demo \in Shifted => EdgesComplete
  BY ShiftedComplete DEF EdgesComplete
<1> QED
  BY <1>1, <1>2, PTL DEF Spec

\* A node's share of a section is settled by the edges, but for the gap.
SettledButGap ==
    [][\A n \in done' \ done : \A m \in Nodes : \A s \in demo[m].writes \cap Touches(n) :
          (m \in version[s] <=> <<m, n>> \in Before) \/ Gap(m, n, s)]_vars

\* "A pure function of the demo under ANY valid topological order" (dag.go) holds
\* of every demo whose match starts after its first millisecond; in the others the
\* tie-break decides one thing only, whether weapon_pickups reads the fragment log
\* before or after frags_final has sorted it.
THEOREM OrderHolds == Spec => SettledButGap /\ (demo \in Shifted => OrderIndependent)
<1> DEFINE Made == demo \in {Finalize(d) : d \in Demos}
           But == [\A n \in done' \ done : \A m \in Nodes :
                    \A s \in demo[m].writes \cap Touches(n) :
                      (m \in version[s] <=> <<m, n>> \in Before) \/ Gap(m, n, s)]_vars
<1>1. Init => Made /\ (demo \in Shifted => EdgesComplete)
  BY ShiftedComplete DEF Init, EdgesComplete
<1>2. Made /\ [Next]_vars => Made'
  BY DEF Next, Validate, Run, Stop, Over, vars
<1>3. Inv /\ Made /\ [Next]_vars => But
  <2> SUFFICES ASSUME Inv, Made, [Next]_vars, NEW n \in done' \ done, NEW m \in Nodes,
                      NEW s \in demo[m].writes \cap Touches(n), ~Gap(m, n, s)
               PROVE  m \in version[s] <=> <<m, n>> \in Before
    OBVIOUS
  <2>1. n \in Nodes
    BY InvNext DEF Inv, TypeOK
  <2>2. PICK d \in Demos : demo = Finalize(d)
    OBVIOUS
  <2>3. m # n => <<m, n>> \in Before \/ <<n, m>> \in Before
    BY <2>1, <2>2, PairSettled DEF Touches
  <2> QED
    BY <2>3, StepSettled
<1> QED
  BY <1>1, <1>2, <1>3, OrderSettled, InvHolds, PTL DEF Spec, SettledButGap

-----------------------------------------------------------------------------
(* The verdict on the declarations *)

\* Nodes of which each waits for another of them: they hold a cycle of edges.
Circle(S) == S # {} /\ \A n \in S : Providers(n) \cap S # {}

\* What buildDAG accepts: requirements that are provided once, edges without a cycle.
Wired == Valid /\ \A S \in SUBSET Nodes : ~Circle(S)

\* The verdict is right both ways: the pass ends with every node run only over
\* declarations that are wired, and the sort gives up only over ones that are not.
VerdictIsExact ==
    /\ phase = "done" => Wired /\ done = Nodes
    /\ phase = "panic" => ~Wired

\* Nothing that waits for itself is ever scheduled.
CircleInv == \A S \in SUBSET Nodes : Circle(S) => S \cap done = {}
VerdictInv ==
    /\ phase \in {"running", "done"} => Valid
    /\ phase = "panic" => ~Wired

LEMMA CircleNext == Inv /\ CircleInv /\ [Next]_vars => CircleInv'
<1> SUFFICES ASSUME Inv, CircleInv, [Next]_vars, NEW S \in SUBSET Nodes, Circle(S)
             PROVE  S \cap done' = {}
  BY DEF CircleInv, Circle, Providers
<1>0. S \cap done = {}
  BY DEF CircleInv
<1>1. ASSUME NEW n \in Nodes, Run(n) PROVE S \cap done' = {}
  <2>1. Providers(n) \subseteq done
    BY <1>1 DEF Run, Ready, Inv, TypeOK
  <2>2. n \notin S
    BY <1>0, <2>1 DEF Circle
  <2> QED
    BY <1>0, <1>1, <2>2 DEF Run
<1>2. CASE Validate \/ Stop \/ UNCHANGED vars
  BY <1>0, <1>2 DEF Validate, Stop, vars
<1> QED
  BY <1>1, <1>2 DEF Next, Over

LEMMA VerdictNext == Inv /\ VerdictInv /\ [Next]_vars => VerdictInv'
<1> SUFFICES ASSUME Inv, VerdictInv, [Next]_vars PROVE VerdictInv'
  OBVIOUS
<1>0. Valid' = Valid /\ Wired' = Wired
  BY DEF Valid, Wired, Circle, Providers
<1>1. CASE Validate
  BY <1>0, <1>1 DEF Validate, VerdictInv, Wired
<1>2. CASE \E n \in Nodes : Run(n)
  BY <1>0, <1>2 DEF Run, VerdictInv
<1>3. CASE Stop
  <2>1. CASE done = Nodes
    BY <1>0, <1>3, <2>1 DEF Stop, VerdictInv
  <2>2. CASE done # Nodes
    <3> DEFINE rest == Nodes \ done
    <3>1. rest # {}
      BY <2>2 DEF Inv, TypeOK
    <3>2. ASSUME NEW n \in rest PROVE Providers(n) \cap rest # {}
      <4>1. needs[n] # {} /\ needs[n] = Providers(n) \ done
        BY <1>3 DEF Stop, Ready, Inv, TypeOK
      <4> QED
        BY <4>1 DEF Providers
    <3>3. ~Wired
      BY <3>1, <3>2 DEF Wired, Circle
    <3> QED
      BY <1>0, <1>3, <2>2, <3>3 DEF Stop, VerdictInv
  <2> QED
    BY <2>1, <2>2
<1>4. CASE UNCHANGED vars
  BY <1>0, <1>4 DEF vars, VerdictInv
<1> QED
  BY <1>1, <1>2, <1>3, <1>4 DEF Next, Over

\* validateDAG and the sort accept exactly the declarations that can be scheduled:
\* whatever the tie-break, every node is run when they are wired, and a cycle panic
\* is raised only over nodes that really wait for each other (topoSortDAGTieBreak,
\* buildGraph).
THEOREM VerdictExact == Spec => []VerdictIsExact
<1>1. Init => CircleInv /\ VerdictInv
  BY DEF Init, CircleInv, VerdictInv
<1>2. Inv /\ CircleInv /\ VerdictInv => VerdictIsExact
  <2> SUFFICES ASSUME Inv, CircleInv, VerdictInv, phase = "done"
               PROVE  Wired /\ done = Nodes
    BY DEF VerdictIsExact, VerdictInv
  <2>1. done = Nodes /\ Valid
    BY DEF Inv, VerdictInv
  <2>2. ASSUME NEW S \in SUBSET Nodes, Circle(S) PROVE FALSE
    BY <2>1, <2>2 DEF CircleInv, Circle
  <2> QED
    BY <2>1, <2>2 DEF Wired
<1> QED
  BY <1>1, <1>2, CircleNext, VerdictNext, InvHolds, PTL DEF Spec

-----------------------------------------------------------------------------
(* The default registry *)

\* The artifacts that stand for a section's last write.
LastWrites == {"roster:final", "frags:final", "match:final", "backpacks:final", "damage:final"}

\* Whom a node waits for: one it names, or the last writer of an artifact it names.
LEMMA WaitsFor ==
    ASSUME NEW n, NEW m \in Providers(n)
    PROVE  \/ m \in Requires[n] \ LastWrites
           \/ m = "match" /\ "roster:final" \in Requires[n]
           \/ m = "frags_final" /\ "frags:final" \in Requires[n]
           \/ m = "match_final" /\ "match:final" \in Requires[n]
           \/ m = "backpack_recon" /\ "backpacks:final" \in Requires[n]
           \/ m = "damage_recon" /\ "damage:final" \in Requires[n]
<1>1. m \in Nodes /\ n \in Nodes /\ Provides[m] \cap Requires[n] # {}
  BY DEF Providers, Edges, Pairs
<1>2. Provides[m] = {m} \cup (IF m \in DOMAIN Extra THEN {Extra[m]} ELSE {})
  BY <1>1 DEF Provides
<1>3. m \in Requires[n] \/ (m \in DOMAIN Extra /\ Extra[m] \in Requires[n])
  BY <1>1, <1>2
<1>4. m \notin LastWrites
  BY <1>1 DEF LastWrites, Nodes, Analyzers, PostProcessors
<1> QED
  BY <1>3, <1>4 DEF Extra

\* One provider to an artifact, and one for every requirement.
LEMMA RegistryValid == Valid
<1>1. ASSUME NEW m \in Nodes, NEW n \in Nodes, m # n PROVE Provides[m] \cap Provides[n] = {}
  <2>1. \A k \in DOMAIN Extra : Extra[k] \notin Nodes
    BY DEF Extra, Nodes, Analyzers, PostProcessors
  <2>2. \A k, l \in DOMAIN Extra : k # l => Extra[k] # Extra[l]
    BY DEF Extra
  <2> QED
    BY <1>1, <2>1, <2>2 DEF Provides
<1>2. \A n \in Nodes : n \in Artifacts
  BY DEF Artifacts, Provides
<1>3. LastWrites \subseteq Artifacts
  <2>1. \A k \in DOMAIN Extra : k \in Nodes /\ Extra[k] \in Provides[k]
    BY DEF Provides, Extra, Nodes, Analyzers, PostProcessors
  <2> QED
    BY <2>1 DEF Artifacts, Extra, LastWrites
<1>4. ASSUME NEW n \in Analyzers PROVE Requires[n] \subseteq Artifacts
  BY <1>2, <1>3, AnalyzerEdges
  DEF AnalyzerRequires, LastWrites, Nodes, Analyzers, PostProcessors
<1>5. ASSUME NEW n \in PostProcessors PROVE Requires[n] \subseteq Artifacts
  BY <1>2, <1>3, PostEdges
  DEF PostRequires, LastWrites, Nodes, Analyzers, PostProcessors
<1> QED
  BY <1>1, <1>4, <1>5 DEF Valid, Nodes

\* No nodes wait for each other in a circle: in this order, each waits for earlier ones only.
LEMMA RegistryAcyclic ==
    ASSUME NEW S \in SUBSET Nodes PROVE ~Circle(S)
<1> SUFFICES ASSUME Circle(S) PROVE FALSE
  OBVIOUS
<1>0. \A n \in S : \E m \in S : m \in Providers(n)
  BY DEF Circle
<1>1. "clock" \notin S
  BY <1>0, WaitsFor, AnalyzerEdges
     DEF Analyzers, AnalyzerRequires, LastWrites
<1>2. "demoinfo" \notin S
  BY <1>0, WaitsFor, AnalyzerEdges
     DEF Analyzers, AnalyzerRequires, LastWrites
<1>3. "identity" \notin S
  BY <1>0, <1>2, WaitsFor, AnalyzerEdges
     DEF Analyzers, AnalyzerRequires, LastWrites
<1>4. "metadata" \notin S
  BY <1>0, WaitsFor, AnalyzerEdges
     DEF Analyzers, AnalyzerRequires, LastWrites
<1>5. "roster" \notin S
  BY <1>0, <1>2, <1>3, <1>4, WaitsFor, AnalyzerEdges
     DEF Analyzers, AnalyzerRequires, LastWrites
<1>6. "match" \notin S
  BY <1>0, <1>2, <1>3, <1>4, <1>5, WaitsFor, AnalyzerEdges
     DEF Analyzers, AnalyzerRequires, LastWrites
<1>7. "frag" \notin S
  BY <1>0, <1>1, <1>2, <1>3, <1>6, WaitsFor, AnalyzerEdges
     DEF Analyzers, AnalyzerRequires, LastWrites
<1>8. "messages" \notin S
  BY <1>0, <1>1, <1>2, <1>6, WaitsFor, AnalyzerEdges
     DEF Analyzers, AnalyzerRequires, LastWrites
<1>9. "timeline" \notin S
  BY <1>0, <1>1, <1>2, <1>3, <1>4, <1>6, <1>7, WaitsFor, AnalyzerEdges
     DEF Analyzers, AnalyzerRequires, LastWrites
<1>10. "items" \notin S
  BY <1>0, <1>1, <1>2, <1>3, <1>6, WaitsFor, AnalyzerEdges
     DEF Analyzers, AnalyzerRequires, LastWrites
<1>11. "damage" \notin S
  BY <1>0, <1>1, <1>2, <1>3, <1>4, <1>6, WaitsFor, AnalyzerEdges
     DEF Analyzers, AnalyzerRequires, LastWrites
<1>12. "shots" \notin S
  BY <1>0, <1>1, <1>2, <1>3, <1>6, <1>9, WaitsFor, AnalyzerEdges
     DEF Analyzers, AnalyzerRequires, LastWrites
<1>13. "map_entities" \notin S
  BY <1>0, WaitsFor, AnalyzerEdges
     DEF Analyzers, AnalyzerRequires, LastWrites
<1>14. "backpacks" \notin S
  BY <1>0, <1>1, <1>2, <1>3, <1>6, WaitsFor, AnalyzerEdges
     DEF Analyzers, AnalyzerRequires, LastWrites
<1>15. "weapon_pickups" \notin S
  BY <1>0, <1>1, <1>3, <1>6, <1>7, WaitsFor, AnalyzerEdges
     DEF Analyzers, AnalyzerRequires, LastWrites
<1>16. "frags_final" \notin S
  BY <1>0, <1>1, <1>2, <1>7, <1>9, WaitsFor, PostEdges
     DEF PostProcessors, PostRequires, LastWrites
<1>17. "match_final" \notin S
  BY <1>0, <1>6, <1>16, WaitsFor, PostEdges
     DEF PostProcessors, PostRequires, LastWrites
<1>18. "loc_graph" \notin S
  BY <1>0, <1>2, <1>9, WaitsFor, PostEdges
     DEF PostProcessors, PostRequires, LastWrites
<1>19. "no_match" \notin S
  BY <1>0, <1>4, <1>9, <1>16, WaitsFor, PostEdges
     DEF PostProcessors, PostRequires, LastWrites
<1>20. "wall_clock" \notin S
  BY <1>0, <1>1, <1>2, <1>4, <1>9, <1>19, WaitsFor, PostEdges
     DEF PostProcessors, PostRequires, LastWrites
<1>21. "region_control" \notin S
  BY <1>0, <1>2, <1>6, <1>9, WaitsFor, PostEdges
     DEF PostProcessors, PostRequires, LastWrites
<1>22. "opening" \notin S
  BY <1>0, <1>9, <1>10, WaitsFor, PostEdges
     DEF PostProcessors, PostRequires, LastWrites
<1>23. "backpack_recon" \notin S
  BY <1>0, <1>4, <1>9, <1>14, <1>16, WaitsFor, PostEdges
     DEF PostProcessors, PostRequires, LastWrites
<1>24. "backpack_linkage" \notin S
  BY <1>0, <1>9, <1>10, <1>23, WaitsFor, PostEdges
     DEF PostProcessors, PostRequires, LastWrites
<1>25. "backpack_pickups" \notin S
  BY <1>0, <1>15, <1>23, <1>24, WaitsFor, PostEdges
     DEF PostProcessors, PostRequires, LastWrites
<1>26. "damage_recon" \notin S
  BY <1>0, <1>2, <1>4, <1>9, <1>11, <1>12, <1>16, WaitsFor, PostEdges
     DEF PostProcessors, PostRequires, LastWrites
<1>27. "aim" \notin S
  BY <1>0, <1>9, <1>12, <1>26, WaitsFor, PostEdges
     DEF PostProcessors, PostRequires, LastWrites
<1>28. "highlights" \notin S
  BY <1>0, <1>2, <1>9, <1>16, <1>26, WaitsFor, PostEdges
     DEF PostProcessors, PostRequires, LastWrites
<1>29. "player_stats" \notin S
  BY <1>0, <1>1, <1>3, <1>4, <1>6, <1>9, <1>10, <1>12, <1>15, <1>16, <1>17, <1>23, <1>26, <1>27,
     WaitsFor, PostEdges
     DEF PostProcessors, PostRequires, LastWrites
<1> QED
  BY <1>1, <1>2, <1>3, <1>4, <1>5, <1>6, <1>7, <1>8, <1>9, <1>10, <1>11, <1>12, <1>13, <1>14,
     <1>15, <1>16, <1>17, <1>18, <1>19, <1>20, <1>21, <1>22, <1>23, <1>24, <1>25, <1>26, <1>27,
     <1>28, <1>29
  DEF Circle, Nodes, Analyzers, PostProcessors

\* What the default registry gives every program that links it: the wiring is never
\* refused, and a pass that ends has run all the nodes.
Dependable == phase # "panic" /\ (phase = "done" => done = Nodes)

\* "The default graph is valid so a panic can never ship" (dag.go): whatever the
\* tie-break and the demo, validation and the sort accept the default declarations,
\* and the pass runs every node before it ends (buildGraph, buildDAG).
THEOREM RegistryWired == Spec => []Dependable
<1>1. Wired
  BY RegistryValid, RegistryAcyclic DEF Wired
<1>2. VerdictIsExact => Dependable
  BY <1>1 DEF VerdictIsExact, Dependable
<1> QED
  BY <1>2, VerdictExact, PTL
=============================================================================
