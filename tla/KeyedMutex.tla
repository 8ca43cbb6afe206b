----------------------------- MODULE KeyedMutex -----------------------------
(***************************************************************************)
(* democache.KeyedMutex (keyedmutex.go): a map of reference-counted mutexes *)
(* under a table mutex.  Every statement that touches shared memory is a    *)
(* step of its own, so a goroutine can be overtaken between finding its     *)
(* entry, counting itself on it, locking it, and giving it back.            *)
(*                                                                         *)
(* Entries are heap objects: an allocation takes one that neither the map   *)
(* nor a goroutine still refers to, with its fields zero.                   *)
(***************************************************************************)
EXTENDS Naturals, FiniteSets

CONSTANTS
    Goroutines,   \* callers of Lock
    Keys,         \* the strings they lock (demo SHAs)
    Entries,      \* heap addresses of keyedLock values
    None          \* the nil pointer, and the free mutex

ASSUME CallersAssumption == IsFiniteSet(Goroutines)
ASSUME NoneAssumption == None \notin Goroutines \cup Entries

VARIABLES
    pc,        \* where each goroutine is in Lock or in its unlock function
    key,       \* the key it called Lock with
    ref,       \* its local e
    tableMu,   \* who holds k.mu
    locks,     \* the map k.locks (None: no entry)
    waiters,   \* e.waiters
    holder     \* who holds e.mu

vars == <<pc, key, ref, tableMu, locks, waiters, holder>>

Pcs == {"idle", "find", "count", "lockEntry", "held", "relock", "uncount"}

TypeOK ==
    /\ pc \in [Goroutines -> Pcs]
    /\ key \in [Goroutines -> Keys]
    /\ ref \in [Goroutines -> Entries \cup {None}]
    /\ tableMu \in Goroutines \cup {None}
    /\ locks \in [Keys -> Entries \cup {None}]
    /\ waiters \in [Entries -> Nat]
    /\ holder \in [Entries -> Goroutines \cup {None}]

Init ==
    /\ pc = [g \in Goroutines |-> "idle"]
    /\ key \in [Goroutines -> Keys]
    /\ ref = [g \in Goroutines |-> None]
    /\ tableMu = None
    /\ locks = [k \in Keys |-> None]
    /\ waiters = [e \in Entries |-> 0]
    /\ holder = [e \in Entries |-> None]

-----------------------------------------------------------------------------
(* Lock(key) *)

Goto(g, l) == pc' = [pc EXCEPT ![g] = l]

\* k.mu.Lock()
LockTable(g, k) ==
    /\ pc[g] = "idle"
    /\ tableMu = None
    /\ tableMu' = g
    /\ key' = [key EXCEPT ![g] = k]
    /\ Goto(g, "find")
    /\ UNCHANGED <<ref, locks, waiters, holder>>

Unreferenced(e) ==
    /\ \A k \in Keys : locks[k] # e
    /\ \A g \in Goroutines : ref[g] # e

\* Wrong: a new key shares whatever entry there is, as striped locks would.
FindEntryStriped(g) ==
    /\ pc[g] = "find"
    /\ Goto(g, "count")
    /\ \E e \in Entries :
          /\ locks[key[g]] \in {e, None}
          /\ ref' = [ref EXCEPT ![g] = e]
          /\ locks' = [locks EXCEPT ![key[g]] = e]
    /\ UNCHANGED <<key, tableMu, waiters, holder>>

\* e := k.locks[key], made and stored when the map has none.
FindEntry(g) ==
    /\ pc[g] = "find"
    /\ Goto(g, "count")
    /\ \/ /\ locks[key[g]] # None
          /\ ref' = [ref EXCEPT ![g] = locks[key[g]]]
          /\ UNCHANGED <<locks, waiters, holder>>
       \/ /\ locks[key[g]] = None
          /\ \E e \in Entries :
                /\ Unreferenced(e)
                /\ ref' = [ref EXCEPT ![g] = e]
                /\ locks' = [locks EXCEPT ![key[g]] = e]
                /\ waiters' = [waiters EXCEPT ![e] = 0]
                /\ holder' = [holder EXCEPT ![e] = None]
    /\ UNCHANGED <<key, tableMu>>

\* e.waiters++; k.mu.Unlock()
CountIn(g) ==
    /\ pc[g] = "count"
    /\ waiters' = [waiters EXCEPT ![ref[g]] = @ + 1]
    /\ tableMu' = None
    /\ Goto(g, "lockEntry")
    /\ UNCHANGED <<key, ref, locks, holder>>

\* Wrong: the entry is counted but its mutex is not waited for.
LockEntryBarges(g) ==
    /\ pc[g] = "lockEntry"
    /\ holder' = [holder EXCEPT ![ref[g]] = g]
    /\ Goto(g, "held")
    /\ UNCHANGED <<key, ref, tableMu, locks, waiters>>

\* e.mu.Lock()
LockEntry(g) ==
    /\ pc[g] = "lockEntry"
    /\ holder[ref[g]] = None
    /\ holder' = [holder EXCEPT ![ref[g]] = g]
    /\ Goto(g, "held")
    /\ UNCHANGED <<key, ref, tableMu, locks, waiters>>

-----------------------------------------------------------------------------
(* the unlock function Lock returned *)

\* Wrong: unlock gives the count back but not the mutex.
UnlockEntryForgets(g) ==
    /\ pc[g] = "held"
    /\ Goto(g, "relock")
    /\ UNCHANGED <<key, ref, tableMu, locks, waiters, holder>>

\* e.mu.Unlock()
UnlockEntry(g) ==
    /\ pc[g] = "held"
    /\ holder' = [holder EXCEPT ![ref[g]] = None]
    /\ Goto(g, "relock")
    /\ UNCHANGED <<key, ref, tableMu, locks, waiters>>

\* k.mu.Lock()
RelockTable(g) ==
    /\ pc[g] = "relock"
    /\ tableMu = None
    /\ tableMu' = g
    /\ Goto(g, "uncount")
    /\ UNCHANGED <<key, ref, locks, waiters, holder>>

\* Wrong: the entry leaves the map with every user ...
CountOutDrops(g) ==
    /\ pc[g] = "uncount"
    /\ waiters' = [waiters EXCEPT ![ref[g]] = @ - 1]
    /\ locks' = [locks EXCEPT ![key[g]] = None]
    /\ ref' = [ref EXCEPT ![g] = None]
    /\ tableMu' = None
    /\ Goto(g, "idle")
    /\ UNCHANGED <<key, holder>>

\* ... or is tested before the count goes down, and never leaves.
CountOutLeaks(g) ==
    /\ pc[g] = "uncount"
    /\ waiters' = [waiters EXCEPT ![ref[g]] = @ - 1]
    /\ locks' = IF waiters[ref[g]] = 0 THEN [locks EXCEPT ![key[g]] = None] ELSE locks
    /\ ref' = [ref EXCEPT ![g] = None]
    /\ tableMu' = None
    /\ Goto(g, "idle")
    /\ UNCHANGED <<key, holder>>

\* e.waiters--, the entry leaves the map with its last user; k.mu.Unlock()
CountOut(g) ==
    /\ pc[g] = "uncount"
    /\ waiters' = [waiters EXCEPT ![ref[g]] = @ - 1]
    /\ locks' = IF waiters[ref[g]] = 1 THEN [locks EXCEPT ![key[g]] = None] ELSE locks
    /\ ref' = [ref EXCEPT ![g] = None]
    /\ tableMu' = None
    /\ Goto(g, "idle")
    /\ UNCHANGED <<key, holder>>

Step(g) ==
    \/ FindEntry(g) \/ CountIn(g) \/ LockEntry(g)
    \/ UnlockEntry(g) \/ RelockTable(g) \/ CountOut(g)

Next == \E g \in Goroutines : Step(g) \/ \E k \in Keys : LockTable(g, k)

Spec == Init /\ [][Next]_vars

\* A goroutine inside Lock or unlock keeps running, a holder leaves in the end
\* (every caller defers the unlock), and sync.Mutex hands itself to a blocked
\* goroutine sooner or later (its starvation mode), on both mutexes.
Fairness ==
    \A g \in Goroutines :
        /\ WF_vars(Step(g))
        /\ SF_vars(LockEntry(g))
        /\ SF_vars(RelockTable(g))

FairSpec == Spec /\ Fairness

-----------------------------------------------------------------------------
(* Properties *)

\* Two on the same key serialize (keyedmutex.go:27-28): at most one goroutine
\* is between Lock's return and its unlock, even though the entry behind a key
\* is made, dropped and made again.
MutualExclusion ==
    \A g, h \in Goroutines :
        pc[g] = "held" /\ pc[h] = "held" /\ key[g] = key[h] => g = h

\* Work on independent keys never blocks (keyedmutex.go:5-8): a goroutine that
\* waits for an entry's mutex waits for somebody on its own key.
BlockedByOwnKeyOnly ==
    \A g, h \in Goroutines :
        pc[g] = "lockEntry" /\ holder[ref[g]] = h => key[h] = key[g]

\* Entries are reclaimed when the last holder unlocks (keyedmutex.go:10-12):
\* whenever the table is free, it has an entry for exactly the keys somebody is
\* still on.  A count lost to a race would leak an entry or drop a live one.
NoEntryLeaked ==
    tableMu = None =>
        \A k \in Keys :
            locks[k] # None <=> \E g \in Goroutines : pc[g] # "idle" /\ key[g] = k

\* The map of a goroutine's control point to what its caller sees.
PhaseOf(l) ==
    CASE l \in {"find", "count", "lockEntry"} -> "waiting"
      [] l = "held" -> "in"
      [] OTHER -> "out"

Abstract == INSTANCE KeyedLock WITH phase <- [g \in Goroutines |-> PhaseOf(pc[g])]

\* The table of counted mutexes implements one mutex per key.
ImplementsKeyedLock == Abstract!Spec

\* A goroutine that has called Lock gets the key.
EveryLockReturns ==
    \A g \in Goroutines : pc[g] = "find" ~> pc[g] = "held"
=============================================================================
