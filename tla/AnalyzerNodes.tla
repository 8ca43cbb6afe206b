--------------------------- MODULE AnalyzerNodes ---------------------------
(***************************************************************************)
(* The nodes of the default registry: what dag.go declares for each, and    *)
(* which sections of the Result and of CoreOutputs its Finalize and         *)
(* PopulateCore (an analyzer) or its function (a post-processor) read and   *)
(* write.  A section is the unit two nodes can disagree about: a field, or  *)
(* the part of a shared struct one node fills in and another rewrites.      *)
(*                                                                         *)
(* Left out: Result.Errors, which timeline and region-control append to,    *)
(* canonicalizeErrors sorts, and no-match reads only for the prefix the     *)
(* event pass writes before any node runs.                                  *)
(***************************************************************************)

(* What a demo carries, as far as a node's early returns depend on it:      *)
(*   demoinfo   a KTX scoreboard block                                      *)
(*   play       an announced match somebody plays in: there are streams     *)
(*   hits       the damage stream                                           *)
(*   drops      KTX's drop hints                                            *)
(*   zero       the match starts at the demo's first millisecond            *)
Demos == {d \in SUBSET {"demoinfo", "play", "hits", "drops", "zero"} :
            d \cap {"hits", "drops", "zero"} # {} => "play" \in d}

Analyzers ==
    {"clock", "demoinfo", "identity", "frag", "roster", "metadata", "match", "messages", "timeline",
     "items", "damage", "shots", "map_entities", "backpacks", "weapon_pickups"}

PostProcessors ==
    {"frags_final", "aim", "highlights", "match_final", "loc_graph", "no_match", "wall_clock",
     "region_control", "player_stats", "opening", "backpack_recon", "backpack_linkage",
     "backpack_pickups", "damage_recon"}

Nodes == Analyzers \cup PostProcessors

-----------------------------------------------------------------------------
(* The declared edges *)

\* Wrong: frag binds the roster before match has settled it.
AnalyzerRequiresEarly ==
    [clock          |-> {},
     demoinfo       |-> {},
     identity       |-> {"demoinfo"},
     frag           |-> {"clock", "demoinfo", "identity", "roster"},
     roster         |-> {"demoinfo", "identity", "metadata"},
     metadata       |-> {},
     match          |-> {"demoinfo", "identity", "metadata", "roster"},
     messages       |-> {"clock", "demoinfo", "roster:final"},
     timeline       |-> {"clock", "demoinfo", "identity", "frag", "roster:final", "metadata"},
     items          |-> {"clock", "demoinfo", "identity", "roster:final"},
     damage         |-> {"clock", "demoinfo", "identity", "roster:final", "metadata"},
     shots          |-> {"clock", "demoinfo", "identity", "timeline", "roster:final"},
     map_entities   |-> {},
     backpacks      |-> {"clock", "identity", "demoinfo", "roster:final"},
     weapon_pickups |-> {"clock", "identity", "frag", "roster:final"}]

\* Wrong: the roster rewrites team labels without waiting for their reader.
AnalyzerRequiresOverwrite ==
    [AnalyzerRequiresEarly EXCEPT
        !.frag = {"clock", "demoinfo", "identity", "roster:final"},
        !.roster = {"demoinfo", "metadata"},
        !.match = {"demoinfo", "identity", "metadata", "roster"}]

AnalyzerRequires ==
    [clock          |-> {},
     demoinfo       |-> {},
     identity       |-> {"demoinfo"},
     frag           |-> {"clock", "demoinfo", "identity", "roster:final"},
     roster         |-> {"demoinfo", "identity", "metadata"},
     metadata       |-> {},
     match          |-> {"demoinfo", "identity", "metadata", "roster"},
     messages       |-> {"clock", "demoinfo", "roster:final"},
     timeline       |-> {"clock", "demoinfo", "identity", "frag", "roster:final", "metadata"},
     items          |-> {"clock", "demoinfo", "identity", "roster:final"},
     damage         |-> {"clock", "demoinfo", "identity", "roster:final", "metadata"},
     shots          |-> {"clock", "demoinfo", "identity", "timeline", "roster:final"},
     map_entities   |-> {},
     backpacks      |-> {"clock", "identity", "demoinfo", "roster:final"},
     weapon_pickups |-> {"clock", "identity", "frag", "roster:final"}]

PostRequires ==
    [frags_final      |-> {"clock", "demoinfo", "frag", "timeline"},
     aim              |-> {"shots", "timeline", "damage:final"},
     highlights       |-> {"demoinfo", "timeline", "frags:final", "damage:final"},
     match_final      |-> {"match", "frags:final"},
     loc_graph        |-> {"timeline", "demoinfo"},
     no_match         |-> {"timeline", "metadata", "frags:final"},
     wall_clock       |-> {"clock", "demoinfo", "metadata", "timeline", "no_match"},
     region_control   |-> {"timeline", "match", "demoinfo"},
     player_stats     |-> {"clock", "identity", "roster:final", "timeline", "match:final",
                           "frags:final", "damage:final", "shots", "items",
                           "weapon_pickups", "backpacks:final", "metadata", "aim"},
     opening          |-> {"timeline", "items"},
     backpack_recon   |-> {"backpacks", "timeline", "frags:final", "metadata"},
     backpack_linkage |-> {"backpacks:final", "timeline", "items"},
     backpack_pickups |-> {"backpacks:final", "weapon_pickups", "backpack_linkage"},
     damage_recon     |-> {"damage", "timeline", "shots", "frags:final", "metadata", "demoinfo"}]

Requires == [n \in Nodes |-> IF n \in Analyzers THEN AnalyzerRequires[n] ELSE PostRequires[n]]

\* What a node provides beyond its own name.
Extra == [match |-> "roster:final", frags_final |-> "frags:final", match_final |-> "match:final",
          backpack_recon |-> "backpacks:final", damage_recon |-> "damage:final"]
Provides == [n \in Nodes |-> {n} \cup (IF n \in DOMAIN Extra THEN {Extra[n]} ELSE {})]

-----------------------------------------------------------------------------
(* What each node reads and writes *)

Sections ==
    {"clock", "demoinfo", "teams", "names", "slots", "sessions", "serverinfo", "roster", "mode",
     "match", "scores", "fragLog", "teamkills", "frags", "messages", "analysis", "regions",
     "streams", "anchor", "items", "damage", "shots", "shotStreams", "mapEntities", "packTrack",
     "backpacks", "fates", "pickups", "aim", "highlights", "measured", "locGraph", "noMatch",
     "markers", "playerStats", "opening"}

Access(reads, writes) == [reads |-> reads, writes |-> writes]
Nothing == Access({}, {})

\* ResolveSlotAt: the session table, the demoinfo slots, the names' teams.
Identity == {"sessions", "slots", "names"}

Clock(demo) == Access({}, {"clock"})

\* co.DemoInfo, ctx.DemoInfo and result.DemoInfo are one struct; its team
\* labels are what somebody else rewrites.
DemoInfo(demo) ==
    IF "demoinfo" \in demo
    THEN Access({}, {"demoinfo", "teams", "names", "slots"}) ELSE Nothing

Sessions(demo) == Access({"demoinfo", "teams"}, {"sessions"})
Metadata(demo) == Access({}, {"serverinfo"})

\* In an individual mode every DemoInfo team becomes its player's name.
Roster(demo) ==
    Access({"demoinfo", "teams", "serverinfo"},
           {"roster", "mode"} \cup (IF "demoinfo" \in demo THEN {"teams"} ELSE {}))

\* A duel's mode descriptor is refined where it is, and so is the roster if no
\* scoreboard block has settled it.
Match(demo) ==
    Access({"demoinfo", "teams", "serverinfo", "mode", "roster"} \cup Identity,
           {"match", "scores", "mode"} \cup (IF "demoinfo" \in demo THEN {} ELSE {"roster"}))

Frag(demo) ==
    Access({"roster", "mode", "demoinfo", "clock"} \cup Identity,
           {"fragLog", "teamkills", "frags"})

Messages(demo) == Access({"demoinfo", "names", "roster", "clock"}, {"messages"})

Timeline(demo) ==
    Access({"clock", "demoinfo", "teams", "serverinfo", "roster", "mode", "fragLog", "frags"} \cup Identity,
           {"analysis", "regions"} \cup (IF "play" \in demo THEN {"streams", "anchor"} ELSE {}))

Items(demo) == Access({"roster", "clock"} \cup Identity, {"items"})

Damage(demo) ==
    IF "hits" \in demo
    THEN Access({"roster", "mode", "serverinfo", "demoinfo", "clock"} \cup Identity, {"damage"})
    ELSE Nothing

\* The fire log, and the spatial streams inside the timeline's streams.
Shots(demo) ==
    Access({"roster", "mode", "clock", "demoinfo", "streams"} \cup Identity,
           {"shots"} \cup (IF "play" \in demo THEN {"shotStreams"} ELSE {}))

MapEntities(demo) == Access({}, {"mapEntities"})

\* The pack track is published whether or not there were drops.
Backpacks(demo) ==
    IF "drops" \in demo
    THEN Access({"roster", "clock"} \cup Identity, {"packTrack", "backpacks", "fates"})
    ELSE Access({"clock"}, {"packTrack"})

WeaponPickups(demo) == Access({"fragLog", "roster", "clock"} \cup Identity, {"pickups"})

\* frag shifts the log onto a copy only when there is a shift: at zero the
\* Result's log and co.FragEntries are one array, which this node sorts.
FragsFinal(demo) ==
    Access({"teamkills", "frags", "streams", "analysis", "names", "clock"},
           {"frags"} \cup (IF "zero" \in demo THEN {"fragLog"} ELSE {}))

Aim(demo) == Access({"shots", "streams", "shotStreams", "damage"}, {"aim"})
Highlights(demo) == Access({"streams", "frags", "analysis", "damage", "match"}, {"highlights"})
MatchFinal(demo) == Access({"match", "frags"}, {"scores", "measured"})
LocGraph(demo) == Access({"streams", "analysis", "demoinfo", "teams"}, {"locGraph"})

NoMatch(demo) ==
    IF "play" \in demo THEN Access({"streams"}, {})
    ELSE Access({"streams", "serverinfo", "frags"}, {"noMatch"})

\* The anchor goes where the streams are, its raw markers to the no-match
\* marker otherwise.
WallClock(demo) ==
    Access({"clock", "serverinfo", "demoinfo", "streams", "noMatch"},
           IF "play" \in demo THEN {"anchor"} ELSE {"markers"})

RegionControl(demo) ==
    Access({"analysis", "regions", "streams", "match", "demoinfo", "teams"}, {"regions"})

PlayerStats(demo) ==
    IF "play" \notin demo THEN Access({"streams"}, {})
    ELSE Access({"roster", "mode", "sessions", "streams", "shotStreams", "match", "scores",
                 "frags", "measured", "damage", "shots", "items", "backpacks", "pickups", "aim"},
                {"playerStats"})

Opening(demo) ==
    IF "play" \notin demo THEN Access({"streams", "clock"}, {})
    ELSE Access({"streams", "clock", "items", "analysis"}, {"opening"})

\* The hint and the reconstruction are never mixed.
BackpackRecon(demo) ==
    IF "drops" \in demo THEN Access({"backpacks"}, {})
    ELSE Access({"backpacks", "streams", "frags", "serverinfo"}, {"backpacks"})

BackpackLinkage(demo) ==
    IF "drops" \in demo \/ "play" \notin demo THEN Access({"streams", "backpacks"}, {})
    ELSE Access({"streams", "backpacks", "packTrack", "items", "serverinfo"}, {"fates"})

BackpackPickups(demo) == Access({"backpacks", "pickups", "fates"}, {"fates"})

DamageRecon(demo) ==
    IF "hits" \in demo THEN Access({"damage"}, {})
    ELSE Access({"damage", "streams", "shotStreams", "serverinfo", "mode", "match", "frags",
                 "shots", "demoinfo"}, {"damage"})

Finalize(demo) ==
    [clock |-> Clock(demo), demoinfo |-> DemoInfo(demo), identity |-> Sessions(demo),
     frag |-> Frag(demo), roster |-> Roster(demo), metadata |-> Metadata(demo),
     match |-> Match(demo), messages |-> Messages(demo), timeline |-> Timeline(demo),
     items |-> Items(demo), damage |-> Damage(demo), shots |-> Shots(demo),
     map_entities |-> MapEntities(demo), backpacks |-> Backpacks(demo),
     weapon_pickups |-> WeaponPickups(demo), frags_final |-> FragsFinal(demo),
     aim |-> Aim(demo), highlights |-> Highlights(demo), match_final |-> MatchFinal(demo),
     loc_graph |-> LocGraph(demo), no_match |-> NoMatch(demo), wall_clock |-> WallClock(demo),
     region_control |-> RegionControl(demo), player_stats |-> PlayerStats(demo),
     opening |-> Opening(demo), backpack_recon |-> BackpackRecon(demo),
     backpack_linkage |-> BackpackLinkage(demo), backpack_pickups |-> BackpackPickups(demo),
     damage_recon |-> DamageRecon(demo)]
=============================================================================
