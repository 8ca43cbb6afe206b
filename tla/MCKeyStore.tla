----------------------------- MODULE MCKeyStore -----------------------------
(***************************************************************************)
(* KeyStore with one server that answers two requests at a time and one    *)
(* keys command, and two keys of one user.                                 *)
(***************************************************************************)
EXTENDS KeyStore, TLC

CONSTANTS k1, k2, u, server, cli, s1, s2, c

OneUser == [k \in Keys |-> u]
AnyOrder == Permutations({s1, s2}) \cup Permutations({k1, k2})
Homes == [a \in Actors |-> IF a = c THEN cli ELSE server]
=============================================================================
