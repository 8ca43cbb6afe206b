------------------------------ MODULE KeyedLock ------------------------------
(***************************************************************************)
(* What democache.KeyedMutex promises its callers (keyedmutex.go:5-13): one *)
(* mutex per key.  A goroutine that asks for a key waits until nobody holds *)
(* that key, whatever happens on other keys, and then holds it until it     *)
(* calls the unlock function it was given.                                  *)
(*                                                                         *)
(* KeyedMutex implements this module; DemoCache takes its three keyed locks *)
(* (losLocks, packLocks, pageLocks) in this abstract form.                  *)
(***************************************************************************)
CONSTANTS Goroutines, Keys

VARIABLES phase,   \* what each goroutine is doing about its key
          key      \* the key it asked for last

vars == <<phase, key>>

Phases == {"out", "waiting", "in"}

Init ==
    /\ phase = [g \in Goroutines |-> "out"]
    /\ key \in [Goroutines -> Keys]

\* g calls Lock(k).
Ask(g, k) ==
    /\ phase[g] = "out"
    /\ phase' = [phase EXCEPT ![g] = "waiting"]
    /\ key' = [key EXCEPT ![g] = k]

\* Lock returns: nobody else is in on g's key.
Grant(g) ==
    /\ phase[g] = "waiting"
    /\ \A h \in Goroutines : phase[h] = "in" => key[h] # key[g]
    /\ phase' = [phase EXCEPT ![g] = "in"]
    /\ UNCHANGED key

\* g calls the unlock function.
Leave(g) ==
    /\ phase[g] = "in"
    /\ phase' = [phase EXCEPT ![g] = "out"]
    /\ UNCHANGED key

Next ==
    \E g \in Goroutines :
        \/ \E k \in Keys : Ask(g, k)
        \/ Grant(g)
        \/ Leave(g)

Spec == Init /\ [][Next]_vars
=============================================================================
