---------------------------- MODULE KeyRegister ----------------------------
(***************************************************************************)
(* What the key store promises whoever issues and revokes keys: one table, *)
(* changed by one command at a time.  A key is issued once, a key that is  *)
(* not active never becomes active again, and issuing a key for a Discord  *)
(* user revokes the keys that user had.                                    *)
(***************************************************************************)
CONSTANTS Keys,   \* the keys the store may mint
          Users,  \* the Discord users
          Owner,  \* whom a key is minted for: a user, or None for a service key
          None

VARIABLES table, \* what the store says of each key
          minted \* the keys issued so far

vars == <<table, minted>>

Status == {"absent", "active", "revoked"}
Tables == [Keys -> Status]
Empty == [k \in Keys |-> "absent"]

\* The keys that issuing k revokes: those of its user, and none for a service key.
KeysOf(u) == {k \in Keys : Owner[k] = u}
Prior(k) == IF Owner[k] = None THEN {} ELSE KeysOf(Owner[k])

\* t after a command that adds the keys new and revokes those of old that are active.
Applied(t, new, old) ==
    [k \in Keys |-> IF k \in new THEN "active"
                    ELSE IF k \in old /\ t[k] = "active" THEN "revoked" ELSE t[k]]

Init == table = Empty /\ minted = {}

Issue(k) ==
    /\ k \notin minted
    /\ minted' = minted \cup {k}
    /\ table' = Applied(table, {k}, Prior(k))

Revoke(old) == table' = Applied(table, {}, old) /\ UNCHANGED minted

\* An operator deletes the file: no key is left.
Wipe == table' = Empty /\ UNCHANGED minted

Next ==
    \/ \E k \in Keys : Issue(k) \/ Revoke({k})
    \/ \E u \in Users : Revoke(KeysOf(u))
    \/ Wipe

Spec == Init /\ [][Next]_vars
=============================================================================
