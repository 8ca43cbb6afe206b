---------------------------- MODULE MCDemoParser ----------------------------
(***************************************************************************)
(* DemoParser on a small demo: broadcast and chat lines, whole and in      *)
(* pieces, about one player.                                               *)
(***************************************************************************)
EXTENDS DemoParser

CONSTANTS bob

Broadcast == [level |-> 2, target |-> -1]
Say == [level |-> 3, target |-> -1]
TwoKeys == {Broadcast, Say}
Pieces == {<<"has">>, <<"begun", "nl">>, <<"nl", "over", "nl">>, <<bob, "nl", "matchdate">>}
=============================================================================
