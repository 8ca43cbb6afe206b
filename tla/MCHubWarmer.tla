---------------------------- MODULE MCHubWarmer ----------------------------
(***************************************************************************)
(* HubWarmer on small instances.                                            *)
(***************************************************************************)
EXTENDS HubWarmer, TLC

CONSTANTS g1, g2, g3

\* Two games of the backfill, and one played while the warmer runs.
ThreeGames == {g1, g2, g3}
ThreeTimes == (g1 :> -2) @@ (g2 :> -1) @@ (g3 :> 1)
OneGame == {g1}
OneTime == [g \in {g1} |-> 0]
=============================================================================
