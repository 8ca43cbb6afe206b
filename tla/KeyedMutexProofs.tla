-------------------------- MODULE KeyedMutexProofs --------------------------
(***************************************************************************)
(* KeyedMutex, proved for any finite set of goroutines and any set of keys. *)
(***************************************************************************)
EXTENDS KeyedMutex, FiniteSetTheorems, TLAPS

\* g is counted in the waiters of its entry.
Counted(g) == pc[g] \in {"lockEntry", "held", "relock", "uncount"}

Users(e) == {g \in Goroutines : Counted(g) /\ ref[g] = e}

\* k.mu is held by the goroutine inside one of the two table sections.
TableInv == \A g \in Goroutines : pc[g] \in {"find", "count", "uncount"} <=> tableMu = g

\* A goroutine past the lookup refers to the entry its key has in the map: the
\* entry cannot be dropped under it.
RefInv ==
    \A g \in Goroutines :
        IF pc[g] \in {"idle", "find"} THEN ref[g] = None
        ELSE ref[g] \in Entries /\ locks[key[g]] = ref[g]

\* No two keys share an entry.
KeysApart == \A j, k \in Keys : locks[j] = locks[k] /\ locks[j] # None => j = k

\* waiters counts exactly the users of an entry.
CountInv == \A e \in Entries : waiters[e] = Cardinality(Users(e))

HolderInv ==
    \A g \in Goroutines, e \in Entries :
        holder[e] = g <=> pc[g] = "held" /\ ref[g] = e

\* An entry in the map has somebody on it.
EntryUsed ==
    \A k \in Keys : locks[k] # None =>
        \E g \in Goroutines : pc[g] \notin {"idle", "find"} /\ key[g] = k

IInv ==
    /\ TypeOK
    /\ TableInv
    /\ RefInv
    /\ KeysApart
    /\ CountInv
    /\ HolderInv
    /\ EntryUsed

-----------------------------------------------------------------------------

LEMMA UsersFinite ==
    ASSUME NEW e \in Entries
    PROVE  IsFiniteSet(Users(e)) /\ Cardinality(Users(e)) \in Nat
<1>1. Users(e) \subseteq Goroutines
  BY DEF Users
<1>2. QED
  BY <1>1, CallersAssumption, FS_Subset, FS_CardinalityType

LEMMA InitIInv == Init => IInv
<1> SUFFICES ASSUME Init PROVE IInv
  OBVIOUS
<1>1. TypeOK
  BY DEF Init, TypeOK, Pcs
<1>2. TableInv /\ RefInv /\ KeysApart /\ HolderInv /\ EntryUsed
  BY NoneAssumption DEF Init, TableInv, RefInv, KeysApart, HolderInv, EntryUsed
<1>3. CountInv
  <2> SUFFICES ASSUME NEW e \in Entries PROVE waiters[e] = Cardinality(Users(e))
    BY DEF CountInv
  <2>1. Users(e) = {}
    BY DEF Users, Counted, Init
  <2>2. QED
    BY <2>1, FS_EmptySet DEF Init
<1>4. QED
  BY <1>1, <1>2, <1>3 DEF IInv

LEMMA LockTableStep ==
    ASSUME IInv, NEW g \in Goroutines, NEW k \in Keys, LockTable(g, k)
    PROVE  IInv'
<1> USE DEF IInv, LockTable, Goto
<1>1. TypeOK'
  BY DEF TypeOK, Pcs
<1>2. TableInv' /\ RefInv' /\ KeysApart'
  BY NoneAssumption DEF TypeOK, TableInv, RefInv, KeysApart, Pcs
<1>3. HolderInv' /\ EntryUsed'
  BY NoneAssumption DEF TypeOK, HolderInv, EntryUsed, Pcs
<1>4. CountInv'
  <2>1. \A e \in Entries : Users(e)' = Users(e)
    BY DEF Users, Counted, TypeOK
  <2>2. QED
    BY <2>1 DEF CountInv
<1>5. QED
  BY <1>1, <1>2, <1>3, <1>4

LEMMA FindEntryStep ==
    ASSUME IInv, NEW g \in Goroutines, FindEntry(g)
    PROVE  IInv'
<1> USE DEF IInv
<1>1. CASE locks[key[g]] # None
  <2>1. /\ pc[g] = "find" /\ pc' = [pc EXCEPT ![g] = "count"]
        /\ ref' = [ref EXCEPT ![g] = locks[key[g]]]
        /\ UNCHANGED <<key, tableMu, locks, waiters, holder>>
    BY <1>1 DEF FindEntry, Goto
  <2>2. TypeOK'
    BY <2>1 DEF TypeOK, Pcs
  <2>3. TableInv' /\ RefInv' /\ KeysApart'
    BY <1>1, <2>1, NoneAssumption DEF TypeOK, TableInv, RefInv, KeysApart, Pcs
  <2>4. HolderInv' /\ EntryUsed'
    BY <2>1, NoneAssumption DEF TypeOK, HolderInv, EntryUsed, Pcs
  <2>5. \A e \in Entries : Users(e)' = Users(e)
    BY <2>1 DEF Users, Counted, TypeOK
  <2>6. QED
    BY <2>1, <2>2, <2>3, <2>4, <2>5 DEF CountInv
<1>2. CASE locks[key[g]] = None
  <2>1. PICK e \in Entries :
          /\ Unreferenced(e)
          /\ ref' = [ref EXCEPT ![g] = e]
          /\ locks' = [locks EXCEPT ![key[g]] = e]
          /\ waiters' = [waiters EXCEPT ![e] = 0]
          /\ holder' = [holder EXCEPT ![e] = None]
    BY <1>2 DEF FindEntry
  <2>2. pc[g] = "find" /\ pc' = [pc EXCEPT ![g] = "count"] /\ UNCHANGED <<key, tableMu>>
    BY DEF FindEntry, Goto
  <2>3. TypeOK'
    BY <2>1, <2>2 DEF TypeOK, Pcs
  <2>4. TableInv'
    BY <2>2 DEF TypeOK, TableInv, Pcs
  <2>5. RefInv'
    <3>1. key[g] \in Keys
      BY DEF TypeOK
    <3>2. \A h \in Goroutines : pc[h] \notin {"idle", "find"} => key[h] # key[g]
      BY <1>2, NoneAssumption DEF RefInv
    <3>3. QED
      BY <2>1, <2>2, <3>1, <3>2 DEF TypeOK, RefInv, Pcs
  <2>6. KeysApart'
    BY <2>1 DEF TypeOK, KeysApart, Unreferenced
  <2>7. HolderInv'
    BY <2>1, <2>2, NoneAssumption DEF TypeOK, HolderInv, Unreferenced, Pcs
  <2>8. EntryUsed'
    BY <2>1, <2>2 DEF TypeOK, EntryUsed, Pcs
  <2>9. CountInv'
    <3>1. Users(e)' = {}
      BY <2>1, <2>2 DEF Users, Counted, Unreferenced, TypeOK
    <3>2. \A f \in Entries \ {e} : Users(f)' = Users(f)
      BY <2>1, <2>2 DEF Users, Counted, TypeOK
    <3>3. QED
      BY <2>1, <3>1, <3>2, FS_EmptySet DEF CountInv, TypeOK
  <2>10. QED
    BY <2>3, <2>4, <2>5, <2>6, <2>7, <2>8, <2>9
<1>3. QED
  BY <1>1, <1>2

LEMMA CountInStep ==
    ASSUME IInv, NEW g \in Goroutines, CountIn(g)
    PROVE  IInv'
<1> USE DEF IInv, CountIn, Goto
<1>1. ref[g] \in Entries
  BY DEF RefInv
<1>2. TypeOK'
  BY <1>1 DEF TypeOK, Pcs
<1>3. TableInv' /\ RefInv' /\ KeysApart'
  BY NoneAssumption DEF TypeOK, TableInv, RefInv, KeysApart, Pcs
<1>4. HolderInv' /\ EntryUsed'
  BY DEF TypeOK, HolderInv, EntryUsed, Pcs
<1>5. CountInv'
  <2>1. g \notin Users(ref[g]) /\ Users(ref[g])' = Users(ref[g]) \cup {g}
    BY DEF Users, Counted, TypeOK
  <2>2. \A f \in Entries \ {ref[g]} : Users(f)' = Users(f)
    BY DEF Users, Counted, TypeOK
  <2>3. Cardinality(Users(ref[g]) \cup {g}) = Cardinality(Users(ref[g])) + 1
    BY <1>1, <2>1, UsersFinite, FS_AddElement
  <2>4. QED
    BY <1>1, <2>1, <2>2, <2>3 DEF CountInv, TypeOK
<1>6. QED
  BY <1>2, <1>3, <1>4, <1>5

LEMMA LockEntryStep ==
    ASSUME IInv, NEW g \in Goroutines, LockEntry(g)
    PROVE  IInv'
<1> USE DEF IInv, LockEntry, Goto
<1>1. ref[g] \in Entries
  BY DEF RefInv
<1>2. TypeOK'
  BY <1>1 DEF TypeOK, Pcs
<1>3. TableInv' /\ RefInv' /\ KeysApart' /\ EntryUsed'
  BY DEF TypeOK, TableInv, RefInv, KeysApart, EntryUsed, Pcs
<1>4. HolderInv'
  BY <1>1, NoneAssumption DEF TypeOK, HolderInv, Pcs
<1>5. CountInv'
  <2>1. \A e \in Entries : Users(e)' = Users(e)
    BY DEF Users, Counted, TypeOK
  <2>2. QED
    BY <2>1 DEF CountInv
<1>6. QED
  BY <1>2, <1>3, <1>4, <1>5

LEMMA UnlockEntryStep ==
    ASSUME IInv, NEW g \in Goroutines, UnlockEntry(g)
    PROVE  IInv'
<1> USE DEF IInv, UnlockEntry, Goto
<1>1. ref[g] \in Entries
  BY DEF RefInv
<1>2. TypeOK'
  BY <1>1 DEF TypeOK, Pcs
<1>3. TableInv' /\ RefInv' /\ KeysApart' /\ EntryUsed'
  BY DEF TypeOK, TableInv, RefInv, KeysApart, EntryUsed, Pcs
<1>4. HolderInv'
  BY <1>1, NoneAssumption DEF TypeOK, HolderInv, Pcs
<1>5. CountInv'
  <2>1. \A e \in Entries : Users(e)' = Users(e)
    BY DEF Users, Counted, TypeOK
  <2>2. QED
    BY <2>1 DEF CountInv
<1>6. QED
  BY <1>2, <1>3, <1>4, <1>5

LEMMA RelockTableStep ==
    ASSUME IInv, NEW g \in Goroutines, RelockTable(g)
    PROVE  IInv'
<1> USE DEF IInv, RelockTable, Goto
<1>1. TypeOK'
  BY DEF TypeOK, Pcs
<1>2. TableInv' /\ RefInv' /\ KeysApart' /\ EntryUsed'
  BY NoneAssumption DEF TypeOK, TableInv, RefInv, KeysApart, EntryUsed, Pcs
<1>3. HolderInv'
  BY DEF TypeOK, HolderInv, Pcs
<1>4. CountInv'
  <2>1. \A e \in Entries : Users(e)' = Users(e)
    BY DEF Users, Counted, TypeOK
  <2>2. QED
    BY <2>1 DEF CountInv
<1>5. QED
  BY <1>1, <1>2, <1>3, <1>4

\* The last user's entry leaves the map, and only then: another user of it
\* would be counted, and would be on the same key.
LEMMA CountOutStep ==
    ASSUME IInv, NEW g \in Goroutines, CountOut(g)
    PROVE  IInv'
<1> USE DEF IInv, CountOut, Goto
<1>0. PICK e \in Entries : e = ref[g]
  BY DEF RefInv
<1>1. e \in Entries /\ locks[key[g]] = e /\ key[g] \in Keys /\ g \in Users(e)
  BY <1>0 DEF RefInv, TypeOK, Users, Counted
<1>2. waiters[e] = Cardinality(Users(e)) /\ waiters[e] \in Nat
  BY <1>1 DEF CountInv, TypeOK
<1>3. /\ Cardinality(Users(e) \ {g}) = waiters[e] - 1
      /\ Cardinality(Users(e) \ {g}) \in Nat
      /\ IsFiniteSet(Users(e) \ {g})
  BY <1>1, <1>2, UsersFinite, FS_RemoveElement, FS_CardinalityType
<1>4. TypeOK'
  BY <1>0, <1>1, <1>2, <1>3 DEF TypeOK, Pcs
<1>5. Users(e)' = Users(e) \ {g} /\ \A f \in Entries \ {e} : Users(f)' = Users(f)
  BY <1>0, <1>1, NoneAssumption DEF Users, Counted, TypeOK
<1>6. CountInv'
  BY <1>0, <1>1, <1>2, <1>3, <1>5 DEF CountInv, TypeOK
<1>7. TableInv'
  BY NoneAssumption DEF TypeOK, TableInv, Pcs
<1>8. HolderInv'
  BY <1>0, NoneAssumption DEF TypeOK, HolderInv, Pcs
<1>9. CASE waiters[e] = 1
  <2>1. Users(e) \ {g} = {}
    BY <1>3, <1>9, FS_EmptySet
  <2>2. locks' = [locks EXCEPT ![key[g]] = None]
    BY <1>0, <1>9
  <2>3. \A h \in Goroutines \ {g} : pc[h] \notin {"idle", "find"} => key[h] # key[g]
    <3> SUFFICES ASSUME NEW h \in Goroutines \ {g},
                        pc[h] \notin {"idle", "find"}, key[h] = key[g]
                 PROVE  FALSE
      OBVIOUS
    <3>1. ref[h] = e
      BY <1>0, <1>1 DEF RefInv
    <3>2. pc[h] # "count"
      BY DEF TableInv, TypeOK
    <3>3. Counted(h)
      BY <3>2 DEF TypeOK, Pcs, Counted
    <3>4. QED
      BY <1>0, <2>1, <3>1, <3>3 DEF Users
  <2>4. RefInv'
    BY <1>0, <1>1, <2>2, <2>3 DEF TypeOK, RefInv, Pcs
  <2>5. KeysApart'
    BY <2>2 DEF TypeOK, KeysApart
  <2>6. EntryUsed'
    BY <1>0, <1>1, <2>2 DEF TypeOK, EntryUsed
  <2>7. QED
    BY <1>4, <1>6, <1>7, <1>8, <2>4, <2>5, <2>6
<1>10. CASE waiters[e] # 1
  <2>1. locks' = locks
    BY <1>0, <1>10
  <2>2. PICK h \in Users(e) \ {g} : TRUE
    BY <1>2, <1>3, <1>10, FS_EmptySet
  <2>3. h \in Goroutines /\ h # g /\ pc[h] \notin {"idle", "find"} /\ ref[h] = e
    BY <2>2 DEF Users, Counted
  <2>4. key[h] = key[g]
    BY <1>0, <1>1, <2>3, NoneAssumption DEF RefInv, KeysApart, TypeOK
  <2>5. RefInv' /\ KeysApart'
    BY <2>1 DEF TypeOK, RefInv, KeysApart, Pcs
  <2>6. EntryUsed'
    BY <1>0, <2>1, <2>3, <2>4 DEF TypeOK, EntryUsed
  <2>7. QED
    BY <1>4, <1>6, <1>7, <1>8, <2>5, <2>6
<1>11. QED
  BY <1>9, <1>10

LEMMA StutterStep ==
    ASSUME IInv, UNCHANGED vars
    PROVE  IInv'
<1>1. \A e \in Entries : Users(e)' = Users(e)
  BY DEF Users, Counted, vars
<1>2. QED
  BY <1>1 DEF IInv, vars, TypeOK, TableInv, RefInv, KeysApart, CountInv, HolderInv, EntryUsed

LEMMA NextIInv == IInv /\ [Next]_vars => IInv'
  BY LockTableStep, FindEntryStep, CountInStep, LockEntryStep, UnlockEntryStep,
     RelockTableStep, CountOutStep, StutterStep DEF Next, Step

LEMMA Inductive == Spec => []IInv
  BY InitIInv, NextIInv, PTL DEF Spec

-----------------------------------------------------------------------------

\* The variables of KeyedMutex keep their types: in particular a waiters count
\* never goes below zero.
THEOREM TypeCorrect == Spec => []TypeOK
<1>1. IInv => TypeOK
  BY DEF IInv
<1>2. QED
  BY <1>1, Inductive, PTL

\* KeyedMutex.Lock serialises two goroutines on one key.
THEOREM Exclusion == Spec => []MutualExclusion
<1>1. IInv => MutualExclusion
  BY DEF IInv, MutualExclusion, RefInv, HolderInv
<1>2. QED
  BY <1>1, Inductive, PTL

\* KeyedMutex.Lock never makes a key wait for another one.
THEOREM Independence == Spec => []BlockedByOwnKeyOnly
<1>1. IInv => BlockedByOwnKeyOnly
  BY NoneAssumption DEF IInv, BlockedByOwnKeyOnly, RefInv, HolderInv, KeysApart, TypeOK
<1>2. QED
  BY <1>1, Inductive, PTL

\* The map of a KeyedMutex holds the keys in use and no other.
THEOREM Reclaimed == Spec => []NoEntryLeaked
<1>1. IInv => NoEntryLeaked
  BY NoneAssumption DEF IInv, NoEntryLeaked, RefInv, EntryUsed, TableInv
<1>2. QED
  BY <1>1, Inductive, PTL

\* KeyedMutex implements one mutex per key (KeyedLock).
THEOREM Implements == Spec => ImplementsKeyedLock
<1> DEFINE ph == [g \in Goroutines |-> PhaseOf(pc[g])]
<1>1. Init => Abstract!Init
  BY DEF Init, Abstract!Init, PhaseOf
<1>2. IInv /\ IInv' /\ [Next]_vars => [Abstract!Next]_(Abstract!vars)
  <2> SUFFICES ASSUME IInv, IInv', [Next]_vars
               PROVE  [Abstract!Next]_(Abstract!vars)
    OBVIOUS
  <2>1. ASSUME NEW g \in Goroutines, NEW k \in Keys, LockTable(g, k)
        PROVE  Abstract!Ask(g, k)
    BY <2>1 DEF LockTable, Goto, Abstract!Ask, PhaseOf, IInv, TypeOK
  <2>2. ASSUME NEW g \in Goroutines, FindEntry(g) \/ CountIn(g) \/ RelockTable(g) \/ CountOut(g)
        PROVE  UNCHANGED Abstract!vars
    <3>1. ph' = ph
      BY <2>2 DEF FindEntry, CountIn, RelockTable, CountOut, Goto, PhaseOf, IInv, TypeOK
    <3>2. key' = key
      BY <2>2 DEF FindEntry, CountIn, RelockTable, CountOut
    <3>3. QED
      BY <3>1, <3>2 DEF Abstract!vars
  <2>3. ASSUME NEW g \in Goroutines, LockEntry(g)
        PROVE  Abstract!Grant(g)
    <3>1. \A h \in Goroutines : pc[h] = "held" => key[h] # key[g]
      BY <2>3, NoneAssumption DEF LockEntry, IInv, RefInv, HolderInv
    <3>2. QED
      BY <2>3, <3>1 DEF LockEntry, Goto, Abstract!Grant, PhaseOf, IInv, TypeOK, Pcs
  <2>4. ASSUME NEW g \in Goroutines, UnlockEntry(g)
        PROVE  Abstract!Leave(g)
    BY <2>4 DEF UnlockEntry, Goto, Abstract!Leave, PhaseOf, IInv, TypeOK
  <2>5. CASE UNCHANGED vars
    BY <2>5 DEF vars, Abstract!vars
  <2>6. QED
    BY <2>1, <2>2, <2>3, <2>4, <2>5 DEF Next, Step, Abstract!Next
<1>3. QED
  BY <1>1, <1>2, Inductive, PTL DEF Spec, ImplementsKeyedLock, Abstract!Spec

-----------------------------------------------------------------------------
(* The table stays as small as its use *)

\* The keys that have an entry, and the goroutines between finding one and giving
\* it back.
Stored == {k \in Keys : locks[k] # None}
Inside == {g \in Goroutines : pc[g] \notin {"idle", "find"}}

\* There are never more entries in the map than goroutines that use one.
TableBounded == IsFiniteSet(Stored) /\ Cardinality(Stored) <= Cardinality(Inside)

\* A long-lived KeyedMutex does not accumulate entries (keyedmutex.go:10-12): its
\* map has at most one for each goroutine that holds or waits for a key, however
\* many keys it has seen.
THEOREM Bounded == Spec => []TableBounded
<1>1. IInv => TableBounded
  <2> SUFFICES ASSUME IInv PROVE TableBounded
    OBVIOUS
  <2> DEFINE user == [k \in Stored |-> CHOOSE g \in Inside : key[g] = k]
  <2>1. \A k \in Stored : \E g \in Inside : key[g] = k
    BY DEF IInv, EntryUsed, Stored, Inside
  <2>2. \A k \in Stored : user[k] \in Inside /\ key[user[k]] = k
    BY <2>1
  <2>3. user \in Injection(Stored, Inside)
    BY <2>2 DEF Injection, IsInjective
  <2>4. IsFiniteSet(Inside)
    BY CallersAssumption, FS_Subset DEF Inside
  <2> QED
    BY <2>3, <2>4, FS_Injection DEF TableBounded
<1> QED
  BY <1>1, Inductive, PTL

-----------------------------------------------------------------------------
(* Nobody waits in a circle *)

\* When a goroutine can go on, into Lock or inside Lock and unlock.
Moves(g) ==
    /\ pc[g] \in {"idle", "relock"} => tableMu = None
    /\ pc[g] = "find" => locks[key[g]] # None \/ \E e \in Entries : Unreferenced(e)
    /\ pc[g] = "lockEntry" => holder[ref[g]] = None

\* h has the mutex g is kept waiting for.
WaitsFor(g, h) ==
    \/ pc[g] \in {"idle", "relock"} /\ tableMu = h
    \/ pc[g] = "lockEntry" /\ holder[ref[g]] = h

\* A goroutine can go on, or waits for one that can.
WaitsAreShort == \A g \in Goroutines : Moves(g) \/ \E h \in Goroutines : WaitsFor(g, h) /\ Moves(h)

\* The heap is as large as it must be for every caller to have an entry.
EnoughEntries == IsFiniteSet(Entries) /\ Cardinality(Entries) >= Cardinality(Goroutines)

\* Then the allocation in Lock finds one that nobody refers to.
LEMMA FreeEntry ==
    ASSUME IInv, EnoughEntries, NEW g \in Goroutines, pc[g] = "find"
    PROVE  \E e \in Entries : Unreferenced(e)
<1> SUFFICES ASSUME \A e \in Entries : ~Unreferenced(e) PROVE FALSE
  OBVIOUS
<1> DEFINE others == Goroutines \ {g}
           user == [e \in Entries |-> CHOOSE h \in others : ref[h] = e]
<1>1. ref[g] = None
  BY DEF IInv, RefInv
<1>2. ASSUME NEW e \in Entries PROVE \E h \in others : ref[h] = e
  <2>0. e # None
    BY NoneAssumption
  <2>1. CASE \E h \in Goroutines : ref[h] = e
    BY <1>1, <2>0, <2>1
  <2>2. ASSUME NEW k \in Keys, locks[k] = e PROVE \E h \in Goroutines : ref[h] = e
    <3>1. PICK h \in Goroutines : pc[h] \notin {"idle", "find"} /\ key[h] = k
      BY <2>0, <2>2 DEF IInv, EntryUsed
    <3> QED
      BY <2>2, <3>1 DEF IInv, RefInv
  <2> QED
    BY <2>1, <2>2 DEF Unreferenced
<1>3. user \in [Entries -> others] /\ \A e \in Entries : ref[user[e]] = e
  BY <1>2
<1>4. IsFiniteSet(others) /\ Cardinality(others) = Cardinality(Goroutines) - 1
  BY CallersAssumption, FS_RemoveElement
<1>5. Cardinality(Goroutines) \in Nat /\ Cardinality(Entries) \in Nat
  BY CallersAssumption, FS_CardinalityType DEF EnoughEntries
<1>6. Cardinality(others) < Cardinality(Entries)
  BY <1>4, <1>5 DEF EnoughEntries
<1> HIDE DEF others, user
<1>7. PICK x \in Entries, y \in Entries : x # y /\ user[x] = user[y]
  BY <1>3, <1>4, <1>6, FS_PigeonHole DEF EnoughEntries
<1> QED
  BY <1>3, <1>7

\* No deadlock over the table mutex and the entries' mutexes, for any number of
\* callers and keys: whoever Lock or unlock keeps waiting waits for a goroutine that
\* can take its next step now, so no wait leads into another.
THEOREM NeverStuck ==
    ASSUME EnoughEntries
    PROVE  Spec => []WaitsAreShort
<1>1. IInv => WaitsAreShort
  <2> SUFFICES ASSUME IInv, NEW g \in Goroutines, ~Moves(g)
               PROVE  \E h \in Goroutines : WaitsFor(g, h) /\ Moves(h)
    BY DEF WaitsAreShort
  <2>1. CASE pc[g] \in {"idle", "relock"}
    <3>1. tableMu \in Goroutines
      BY <2>1 DEF Moves, IInv, TypeOK
    <3>2. pc[tableMu] \in {"find", "count", "uncount"}
      BY <3>1 DEF IInv, TableInv
    <3>3. Moves(tableMu)
      BY <3>1, <3>2, FreeEntry DEF Moves
    <3> QED
      BY <2>1, <3>1, <3>3 DEF WaitsFor
  <2>2. CASE pc[g] = "lockEntry"
    <3>1. ref[g] \in Entries
      BY <2>2 DEF IInv, RefInv
    <3>2. holder[ref[g]] \in Goroutines
      BY <2>2, <3>1 DEF Moves, IInv, TypeOK
    <3>3. pc[holder[ref[g]]] = "held"
      BY <3>1, <3>2 DEF IInv, HolderInv
    <3> QED
      BY <2>2, <3>2, <3>3 DEF Moves, WaitsFor
  <2> QED
    BY <2>1, <2>2, FreeEntry DEF Moves
<1> QED
  BY <1>1, Inductive, PTL
=============================================================================
