--------------------------- MODULE KeyStoreProofs ---------------------------
(***************************************************************************)
(* What the key store guarantees for any number of servers, commands and    *)
(* requests, any keys, and any reload interval, whatever fails and whoever  *)
(* dies.                                                                   *)
(***************************************************************************)
EXTENDS KeyStore, TLAPS

Pcs == {"idle", "fresh", "stat", "recheck", "reload", "answer", "mu", "flock", "save", "stamp"}
Calls == [new : SUBSET Keys, old : SUBSET Keys, now : 0..MaxTime, stat : 0..writes]

-----------------------------------------------------------------------------
(* Tables *)

LEMMA EmptyTable == Empty \in Tables
BY DEF Empty, Tables, Status

LEMMA AppliedTable ==
    ASSUME NEW t \in Tables, NEW new \in SUBSET Keys, NEW old \in SUBSET Keys
    PROVE  Applied(t, new, old) \in Tables
BY DEF Applied, Tables, Status

\* The keys a call is about.
LEMMA CallKeys ==
    /\ \A k \in Keys : Prior(k) \in SUBSET Keys
    /\ \A u \in Users : KeysOf(u) \in SUBSET Keys
BY DEF Prior, KeysOf

LEMMA CallOpens ==
    ASSUME NEW a \in Actors, IssueCall(a) \/ RevokeCall(a)
    PROVE  \E new, old \in SUBSET Keys : MutateCall(a, new, old)
<1>1. CASE IssueCall(a)
  BY <1>1, CallKeys DEF IssueCall
<1>2. CASE RevokeCall(a)
  BY <1>2, CallKeys DEF RevokeCall
<1> QED
  BY <1>1, <1>2

-----------------------------------------------------------------------------
(* Types *)

FileTypes ==
    /\ disk \in Tables /\ present \in BOOLEAN /\ writes \in Nat
    /\ clock \in 0..MaxTime
    /\ born \in [Keys -> 0..Never] /\ died \in [Keys -> 0..Never]
ProcessTypes ==
    /\ mem \in [Processes -> Tables]
    /\ up \in [Servers -> {"down", "opening", "up"}]
    /\ lastCheck \in [Servers -> 0..MaxTime] /\ lastMod \in [Servers -> 0..writes]
    /\ blind \in [Servers -> BOOLEAN]
ActorTypes ==
    /\ mu \in [Processes -> Actors \cup {None}] /\ flock \in Actors \cup {None}
    /\ pc \in [Actors -> Pcs] /\ call \in [Actors -> Calls]

LEMMA TypeParts == TypeOK <=> FileTypes /\ ProcessTypes /\ ActorTypes
BY DEF TypeOK, FileTypes, ProcessTypes, ActorTypes, Pcs, Calls

LEMMA TypeInit == Init => TypeOK
<1> SUFFICES ASSUME Init PROVE TypeOK
  OBVIOUS
<1>1. FileTypes
  <2>1. 0 \in 0..MaxTime /\ Never \in 0..Never /\ 0 \in Nat
    BY TimeAssumption DEF Never
  <2>2. present \in BOOLEAN
    BY DEF Init
  <2> QED
    BY <2>1, <2>2, EmptyTable DEF Init, FileTypes
<1>2. ProcessTypes
  BY EmptyTable, TimeAssumption DEF Init, ProcessTypes
<1>3. ActorTypes
  <2>1. NoCall \in Calls
    BY TimeAssumption DEF Init, NoCall, Calls
  <2> QED
    BY <2>1 DEF Init, ActorTypes, Pcs
<1> QED
  BY <1>1, <1>2, <1>3, TypeParts

LEMMA StatType == TypeOK => Stat \in 0..writes
BY DEF TypeOK, Stat

LEMMA FileTypesNext == TypeOK /\ [Next]_vars => FileTypes'
<1> SUFFICES ASSUME TypeOK, [Next]_vars PROVE FileTypes'
  OBVIOUS
<1> USE TimeAssumption DEF FileTypes, Never
<1>0. FileTypes
  BY TypeParts
<1>1. ASSUME NEW a \in Actors, MutateSave(a) PROVE FileTypes'
  <2>1. Applied(Table(a), call[a].new, call[a].old) \in Tables
    BY AppliedTable, ProcessAssumption DEF TypeOK, Table
  <2> QED
    BY <1>0, <1>1, <2>1 DEF MutateSave
<1>2. CASE Delete
  <2>1. clock \in 0..Never
    BY <1>0
  <2>2. died' \in [Keys -> 0..Never]
    BY <1>0, <1>2, <2>1 DEF Delete
  <2> QED
    BY <1>0, <1>2, <2>2, EmptyTable DEF Delete
<1>3. CASE Tick
  BY <1>0, <1>3 DEF Tick, files, history
<1>4. CASE UNCHANGED <<files, clock, history>>
  BY <1>0, <1>4 DEF files, history
<1>5. ASSUME NEW a \in Actors, Lookup(a) PROVE UNCHANGED <<files, clock, history>>
  BY <1>5 DEF Lookup, LookupCall, LookupFresh, LookupStat, LookupStatFails, LookupRecheck,
     LookupReload, LookupReloadFails, LookupAnswer
<1>6. ASSUME NEW a \in Actors, Mutate(a), ~MutateSave(a) PROVE UNCHANGED <<files, clock, history>>
  BY <1>6 DEF Mutate, IssueCall, RevokeCall, MutateCall, MutateLock, MutateReload,
     MutateReloadFails, MutateSaveFails, RevokeNothing, MutateStamp
<1>7. ASSUME NEW p \in Processes, Crash(p) PROVE UNCHANGED <<files, clock, history>>
  BY <1>7 DEF Crash
<1>8. ASSUME NEW p \in Servers, OpenRead(p) \/ OpenStat(p) PROVE UNCHANGED <<files, clock, history>>
  BY <1>8 DEF OpenRead, OpenStat
<1>9. CASE UNCHANGED vars
  BY <1>4, <1>9 DEF vars
<1> QED
  BY <1>1, <1>2, <1>3, <1>4, <1>5, <1>6, <1>7, <1>8, <1>9 DEF Next

\* A home is a process; a table of one.
LEMMA Homes ==
    ASSUME NEW a \in Actors, TypeOK
    PROVE  Home[a] \in Processes /\ Table(a) \in Tables
BY ProcessAssumption DEF TypeOK, Table

LEMMA ProcessTypesNext == TypeOK /\ [Next]_vars => ProcessTypes'
<1> SUFFICES ASSUME TypeOK, [Next]_vars PROVE ProcessTypes'
  OBVIOUS
<1> USE ProcessAssumption DEF ProcessTypes
<1>0. ProcessTypes /\ FileTypes /\ ActorTypes /\ Stat \in 0..writes
  BY TypeParts, StatType
<1>a. 0 \in 0..MaxTime /\ 0 \in 0..writes /\ clock \in 0..MaxTime /\ writes \in Nat
  BY <1>0, TimeAssumption DEF FileTypes
<1>b. ASSUME NEW a \in Actors
      PROVE /\ call[a].now \in 0..MaxTime /\ call[a].stat \in 0..writes
            /\ Applied(Table(a), call[a].new, call[a].old) \in Tables
  BY <1>0, Homes, AppliedTable DEF ActorTypes, Calls
<1>c. disk \in Tables /\ Empty \in Tables
  BY <1>0, EmptyTable DEF FileTypes
<1>1. ASSUME NEW a \in Actors, Lookup(a) PROVE ProcessTypes'
  <2>1. CASE LookupCall(a) \/ LookupFresh(a) \/ LookupStat(a) \/ LookupAnswer(a)
    BY <1>0, <2>1 DEF LookupCall, LookupFresh, LookupStat, LookupAnswer, processes, files
  <2>2. CASE LookupStatFails(a)
    BY <1>0, <1>a, <1>b, <2>2 DEF LookupStatFails, files
  <2>3. CASE LookupRecheck(a)
    BY <1>0, <1>a, <1>b, <1>c, <2>3 DEF LookupRecheck, files
  <2>4. CASE LookupReload(a)
    <3>1. PICK m \in 0..writes : lastMod' = [lastMod EXCEPT ![Home[a]] = m]
      BY <1>0, <1>b, <2>4 DEF LookupReload
    <3>2. mem' \in [Processes -> Tables]
      BY <1>0, <1>c, <2>4 DEF LookupReload
    <3>3. blind' \in [Servers -> BOOLEAN]
      BY <1>0, <2>4 DEF LookupReload
    <3> QED
      BY <1>0, <2>4, <3>1, <3>2, <3>3 DEF LookupReload, files
  <2>5. CASE LookupReloadFails(a)
    BY <1>0, <1>a, <2>5 DEF LookupReloadFails, files
  <2> QED
    BY <1>1, <2>1, <2>2, <2>3, <2>4, <2>5 DEF Lookup
<1>2. ASSUME NEW a \in Actors, Mutate(a) PROVE ProcessTypes'
  <2>1. CASE IssueCall(a) \/ RevokeCall(a) \/ MutateLock(a)
    BY <1>0, <2>1 DEF IssueCall, RevokeCall, MutateCall, MutateLock, processes, files
  <2>2. CASE MutateReload(a)
    BY <1>0, <1>a, <1>c, <2>2 DEF MutateReload, files
  <2>3. CASE MutateReloadFails(a) \/ MutateSaveFails(a) \/ RevokeNothing(a)
    BY <1>0, <1>c, <2>3 DEF MutateReloadFails, MutateSaveFails, RevokeNothing, Release, files
  <2>4. CASE MutateSave(a)
    <3>1. lastMod' \in [Servers -> 0..writes']
      BY <1>0, <1>a, <2>4 DEF MutateSave
    <3> QED
      BY <1>0, <1>b, <2>4, <3>1 DEF MutateSave
  <2>5. CASE MutateStamp(a)
    BY <1>0, <1>a, <1>c, <2>5 DEF MutateStamp, Release, files
  <2> QED
    BY <1>2, <2>1, <2>2, <2>3, <2>4, <2>5 DEF Mutate
<1>3. ASSUME NEW p \in Processes, Crash(p) PROVE ProcessTypes'
  BY <1>0, <1>a, <1>c, <1>3 DEF Crash, files
<1>4. ASSUME NEW p \in Servers, OpenRead(p) \/ OpenStat(p) PROVE ProcessTypes'
  <2>1. CASE OpenRead(p)
    BY <1>0, <1>c, <2>1 DEF OpenRead, files
  <2>2. CASE OpenStat(p)
    <3>1. (mem[p] # disk) \in BOOLEAN
      OBVIOUS
    <3>2. blind' \in [Servers -> BOOLEAN]
      BY <1>0, <2>2, <3>1, Zenon DEF OpenStat
    <3> QED
      BY <1>0, <1>a, <2>2, <3>2 DEF OpenStat, files
  <2> QED
    BY <1>4, <2>1, <2>2
<1>5. CASE Delete \/ Tick \/ UNCHANGED vars
  BY <1>0, <1>5 DEF Delete, Tick, vars, files, processes
<1> QED
  BY <1>1, <1>2, <1>3, <1>4, <1>5 DEF Next

LEMMA ActorTypesNext == TypeOK /\ [Next]_vars => ActorTypes'
<1> SUFFICES ASSUME TypeOK, [Next]_vars PROVE ActorTypes'
  OBVIOUS
<1> USE ProcessAssumption DEF ActorTypes, Pcs
<1>0. ActorTypes /\ Stat \in 0..writes
  BY TypeParts, StatType
<1>a. 0 \in 0..MaxTime /\ 0 \in 0..writes /\ clock \in 0..MaxTime /\ writes \in Nat
  BY TimeAssumption DEF TypeOK
<1>b. NoCall \in Calls
  BY <1>a DEF NoCall, Calls
<1>1. ASSUME NEW a \in Actors, Lookup(a) PROVE ActorTypes'
  <2>0. Calls' = Calls
    BY <1>1 DEF Lookup, LookupCall, LookupFresh, LookupStat, LookupStatFails, LookupRecheck,
       LookupReload, LookupReloadFails, LookupAnswer, files, Calls
  <2>a. \A s \in 0..writes : [call[a] EXCEPT !.stat = s] \in Calls
    BY <1>0 DEF Calls
  <2>1. CASE LookupCall(a)
    <3>1. \A k \in Keys : [NoCall EXCEPT !.old = {k}, !.now = clock] \in Calls
      BY <1>a, <1>b DEF NoCall, Calls
    <3> QED
      BY <1>0, <2>0, <2>1, <3>1 DEF LookupCall, Goto
  <2>2. CASE LookupFresh(a)
    BY <1>0, <2>0, <2>2 DEF LookupFresh, Goto
  <2>3. CASE LookupStat(a)
    BY <1>0, <2>0, <2>a, <2>3 DEF LookupStat, Goto
  <2>4. CASE LookupStatFails(a)
    BY <1>0, <1>a, <2>0, <2>a, <2>4 DEF LookupStatFails, Settled, Goto
  <2>5. CASE LookupRecheck(a)
    BY <1>0, <1>a, <2>0, <2>a, <2>5 DEF LookupRecheck, Settled, Goto
  <2>6. CASE LookupReload(a)
    BY <1>0, <1>a, <2>0, <2>a, <2>6 DEF LookupReload, Settled, Goto
  <2>7. CASE LookupReloadFails(a)
    BY <1>0, <1>a, <2>0, <2>a, <2>7 DEF LookupReloadFails, Settled, Goto
  <2>8. CASE LookupAnswer(a)
    BY <1>0, <1>b, <2>0, <2>8 DEF LookupAnswer, Return, Goto
  <2> QED
    BY <1>1, <2>1, <2>2, <2>3, <2>4, <2>5, <2>6, <2>7, <2>8 DEF Lookup
<1>2. ASSUME NEW a \in Actors, Mutate(a) PROVE ActorTypes'
  <2>1. CASE IssueCall(a) \/ RevokeCall(a)
    <3>1. PICK new \in SUBSET Keys, old \in SUBSET Keys : MutateCall(a, new, old)
      BY <2>1, CallOpens
    <3>2. [NoCall EXCEPT !.new = new, !.old = old] \in Calls
      BY <1>b DEF NoCall, Calls
    <3> QED
      BY <1>0, <3>1, <3>2 DEF MutateCall, Goto, files, Calls
  <2>2. CASE MutateLock(a) \/ MutateReload(a)
    BY <1>0, <2>2 DEF MutateLock, MutateReload, Goto, files, Calls
  <2>3. CASE MutateReloadFails(a) \/ MutateSaveFails(a) \/ RevokeNothing(a) \/ MutateStamp(a)
    <3>1. Release(a) /\ Calls' = Calls
      BY <2>3 DEF MutateReloadFails, MutateSaveFails, RevokeNothing, MutateStamp, files, Calls
    <3> QED
      BY <1>0, <1>b, <3>1 DEF Release, Return, Goto
  <2>4. CASE MutateSave(a)
    <3>1. Calls \subseteq Calls'
      BY <1>a, <2>4 DEF MutateSave, Calls
    <3> QED
      BY <1>0, <2>4, <3>1 DEF MutateSave, Goto
  <2> QED
    BY <1>2, <2>1, <2>2, <2>3, <2>4 DEF Mutate
<1>3. ASSUME NEW p \in Processes, Crash(p) PROVE ActorTypes'
  BY <1>0, <1>b, <1>3 DEF Crash, files, Calls
<1>4. CASE UNCHANGED <<writes, actors>>
  BY <1>0, <1>4 DEF actors, Calls
<1>5. ASSUME NEW p \in Servers, OpenRead(p) \/ OpenStat(p) PROVE UNCHANGED <<writes, actors>>
  BY <1>5 DEF OpenRead, OpenStat, files
<1>6. CASE Delete \/ Tick \/ UNCHANGED vars
  BY <1>4, <1>6 DEF Delete, Tick, vars, files
<1> QED
  BY <1>1, <1>2, <1>3, <1>4, <1>5, <1>6 DEF Next

LEMMA TypeNext == TypeOK /\ [Next]_vars => TypeOK'
<1> SUFFICES ASSUME TypeOK, [Next]_vars PROVE TypeOK'
  OBVIOUS
<1>1. FileTypes' /\ ProcessTypes' /\ ActorTypes'
  BY FileTypesNext, ProcessTypesNext, ActorTypesNext
<1> QED
  BY <1>1 DEF TypeOK, FileTypes, ProcessTypes, ActorTypes, Pcs, Calls

\* The key store's state is well typed, whatever fails and whoever dies.
THEOREM TypeCorrect == Spec => []TypeOK
BY TypeInit, TypeNext, PTL DEF Spec

-----------------------------------------------------------------------------
(* Locks and calls *)

Looking(a) == pc[a] \in {"fresh", "stat", "recheck", "reload", "answer"}
Mutating(a) == pc[a] \in {"mu", "flock", "save"}

\* Who is past a lock holds it; nobody is at work in a server that is not up.
LockInv ==
    \A a \in Actors :
        /\ pc[a] \in {"reload", "flock", "save", "stamp"} => mu[Home[a]] = a
        /\ pc[a] \in {"save", "stamp"} => flock = a
        /\ pc[a] # "idle" => Up(a)
        /\ Looking(a) => Home[a] \in Servers

\* What a call is about.
Command(c) ==
    \/ \E k \in Keys : c.new = {k} /\ c.old = Prior(k)
    \/ c.new = {} /\ \E k \in Keys : c.old = {k}
    \/ c.new = {} /\ \E u \in Users : c.old = KeysOf(u)
CallInv ==
    \A a \in Actors :
        /\ Mutating(a) => Command(call[a])
        /\ Looking(a) => \E k \in Keys : call[a].old = {k}

\* A step of one actor leaves the others' alone, and changes a table only if nobody
\* else holds its mutex.
LEMMA OthersStay ==
    ASSUME TypeOK, LockInv, NEW a \in Actors, Lookup(a) \/ Mutate(a)
    PROVE  /\ \A b \in Actors : b # a => pc'[b] = pc[b] /\ call'[b] = call[b]
           /\ \A p \in Processes : mu'[p] # mu[p] => p = Home[a] /\ mu[p] \in {None, a}
           /\ \A p \in Processes : mem'[p] # mem[p] => p = Home[a] /\ mu[p] \in {None, a}
           /\ flock' # flock => flock \in {None, a}
           /\ up' = up
<1> USE ProcessAssumption DEF LockInv, TypeOK
<1>1. CASE LookupCall(a) \/ LookupFresh(a) \/ LookupStat(a) \/ LookupAnswer(a)
  BY <1>1 DEF LookupCall, LookupFresh, LookupStat, LookupAnswer, Goto, Return, processes
<1>2. CASE LookupStatFails(a)
  BY <1>2 DEF LookupStatFails, Settled, Goto
<1>3. CASE LookupRecheck(a)
  BY <1>3 DEF LookupRecheck, Settled, Goto, Alone
<1>4. CASE LookupReload(a)
  BY <1>4 DEF LookupReload, Settled, Goto
<1>5. CASE LookupReloadFails(a)
  BY <1>5 DEF LookupReloadFails, Settled, Goto
<1>6. CASE IssueCall(a) \/ RevokeCall(a)
  <2>1. PICK new \in SUBSET Keys, old \in SUBSET Keys : MutateCall(a, new, old)
    BY <1>6, CallOpens
  <2> QED
    BY <2>1 DEF MutateCall, Goto, processes
<1>7. CASE MutateLock(a)
  BY <1>7 DEF MutateLock, Goto, Alone, processes
<1>8. CASE MutateReload(a)
  BY <1>8 DEF MutateReload, Goto
<1>9. CASE MutateSave(a)
  BY <1>9 DEF MutateSave, Goto
<1>10. CASE MutateReloadFails(a) \/ MutateSaveFails(a) \/ RevokeNothing(a) \/ MutateStamp(a)
  <2>1. Release(a) /\ up' = up /\ mu[Home[a]] = a
    BY <1>10 DEF MutateReloadFails, MutateSaveFails, RevokeNothing, MutateStamp
  <2> QED
    BY <2>1 DEF Release, Return, Goto
<1> QED
  BY <1>1, <1>2, <1>3, <1>4, <1>5, <1>6, <1>7, <1>8, <1>9, <1>10 DEF Lookup, Mutate

\* What a crash leaves of the other processes.
LEMMA CrashStays ==
    ASSUME TypeOK, NEW p \in Processes, Crash(p), NEW b \in Actors
    PROVE  /\ Home[b] = p => pc'[b] = "idle" /\ call'[b] = NoCall
           /\ Home[b] # p => /\ pc'[b] = pc[b] /\ call'[b] = call[b] /\ mu'[Home[b]] = mu[Home[b]]
                             /\ mem'[Home[b]] = mem[Home[b]] /\ Up(b)' = Up(b)
                             /\ flock = b => flock' = b
BY ProcessAssumption DEF Crash, TypeOK, Up

\* The steps in which no actor moves and no lock changes hands.
LEMMA Elsewhere ==
    ASSUME \/ \E p \in Servers : OpenRead(p) \/ OpenStat(p)
           \/ Delete \/ Tick \/ UNCHANGED vars
    PROVE  UNCHANGED <<mu, flock, pc, call>>
BY DEF OpenRead, OpenStat, Delete, Tick, vars, actors

LEMMA LockNext == TypeOK /\ LockInv /\ [Next]_vars => LockInv'
<1> SUFFICES ASSUME TypeOK, LockInv, [Next]_vars, NEW b \in Actors
             PROVE  LockInv!(b)'
  BY DEF LockInv
<1> USE ProcessAssumption, NoneAssumption
<1>0. LockInv!(b) /\ Home[b] \in Processes
  BY DEF LockInv
<1>1. ASSUME NEW a \in Actors, Lookup(a) \/ Mutate(a) PROVE LockInv!(b)'
  <2>1. CASE a # b
    BY <1>0, <1>1, <2>1, OthersStay DEF Up, Looking
  <2>2. CASE a = b
    <3> USE <1>0, <2>2 DEF TypeOK, Goto, Return, Settled, Looking
    <3>0. Up(b)' = Up(b)
      BY <1>1, OthersStay DEF Up
    <3>1. CASE LookupCall(a) \/ LookupFresh(a) \/ LookupStat(a) \/ LookupAnswer(a)
      BY <3>0, <3>1 DEF LookupCall, LookupFresh, LookupStat, LookupAnswer
    <3>2. CASE LookupStatFails(a)
      BY <3>0, <3>2 DEF LookupStatFails
    <3>3. CASE LookupRecheck(a)
      BY <3>0, <3>3 DEF LookupRecheck
    <3>4. CASE LookupReload(a) \/ LookupReloadFails(a)
      BY <3>0, <3>4 DEF LookupReload, LookupReloadFails
    <3>5. CASE IssueCall(a) \/ RevokeCall(a)
      BY <3>0, <3>5 DEF IssueCall, RevokeCall, MutateCall
    <3>6. CASE MutateLock(a) \/ MutateReload(a) \/ MutateSave(a)
      BY <3>0, <3>6 DEF MutateLock, MutateReload, MutateSave
    <3>7. CASE MutateReloadFails(a) \/ MutateSaveFails(a) \/ RevokeNothing(a) \/ MutateStamp(a)
      BY <3>0, <3>7 DEF MutateReloadFails, MutateSaveFails, RevokeNothing, MutateStamp, Release
    <3> QED
      BY <1>1, <3>1, <3>2, <3>3, <3>4, <3>5, <3>6, <3>7 DEF Lookup, Mutate
  <2> QED
    BY <2>1, <2>2
<1>2. ASSUME NEW p \in Processes, Crash(p) PROVE LockInv!(b)'
  BY <1>0, <1>2, CrashStays DEF Looking
<1>3. CASE (\E p \in Servers : OpenRead(p) \/ OpenStat(p)) \/ Delete \/ Tick \/ UNCHANGED vars
  <2>1. Up(b) => Up(b)'
    BY <1>3 DEF Up, TypeOK, OpenRead, OpenStat, Delete, Tick, processes, vars
  <2> QED
    BY <1>0, <1>3, <2>1, Elsewhere DEF Looking
<1> QED
  BY <1>1, <1>2, <1>3 DEF Next

LEMMA CallNext == TypeOK /\ LockInv /\ CallInv /\ [Next]_vars => CallInv'
<1> SUFFICES ASSUME TypeOK, LockInv, CallInv, [Next]_vars, NEW b \in Actors
             PROVE  CallInv!(b)'
  BY DEF CallInv
<1>0. CallInv!(b)
  BY DEF CallInv
<1>1. ASSUME NEW a \in Actors, Lookup(a) \/ Mutate(a) PROVE CallInv!(b)'
  <2>1. CASE a # b
    BY <1>0, <1>1, <2>1, OthersStay DEF Mutating, Looking
  <2>2. CASE a = b
    <3> USE <1>0, <2>2 DEF TypeOK, Goto, Return, Settled, Looking, Mutating
    <3>1. CASE LookupCall(a)
      BY <3>1 DEF LookupCall, NoCall
    <3>2. CASE LookupFresh(a) \/ LookupStat(a) \/ LookupStatFails(a) \/ LookupRecheck(a)
                \/ LookupReload(a) \/ LookupReloadFails(a)
      <4>1. Looking(b) /\ ~Mutating(b)' /\ call'[b].old = call[b].old
        BY <3>2 DEF LookupFresh, LookupStat, LookupStatFails, LookupRecheck, LookupReload,
           LookupReloadFails
      <4> QED
        BY <4>1
    <3>3. CASE LookupAnswer(a)
      BY <3>3 DEF LookupAnswer
    <3>4. CASE IssueCall(a)
      <4>1. PICK k \in Keys : MutateCall(a, {k}, Prior(k))
        BY <3>4 DEF IssueCall
      <4>2. pc'[b] = "mu" /\ call'[b].new = {k} /\ call'[b].old = Prior(k)
        BY <4>1 DEF MutateCall, NoCall
      <4>3. Command(call'[b])
        BY <4>2 DEF Command
      <4> QED
        BY <4>2, <4>3
    <3>5. CASE RevokeCall(a)
      <4>1. PICK old \in SUBSET Keys :
              /\ MutateCall(a, {}, old)
              /\ (\E k \in Keys : old = {k}) \/ (\E u \in Users : old = KeysOf(u))
        BY <3>5, CallKeys DEF RevokeCall
      <4>2. pc'[b] = "mu" /\ call'[b].new = {} /\ call'[b].old = old
        BY <4>1 DEF MutateCall, NoCall
      <4>3. Command(call'[b])
        BY <4>1, <4>2 DEF Command
      <4> QED
        BY <4>2, <4>3
    <3>6. CASE MutateLock(a) \/ MutateReload(a) \/ MutateSave(a)
      BY <3>6 DEF MutateLock, MutateReload, MutateSave
    <3>7. CASE MutateReloadFails(a) \/ MutateSaveFails(a) \/ RevokeNothing(a) \/ MutateStamp(a)
      BY <3>7 DEF MutateReloadFails, MutateSaveFails, RevokeNothing, MutateStamp, Release
    <3> QED
      BY <1>1, <3>1, <3>2, <3>3, <3>4, <3>5, <3>6, <3>7 DEF Lookup, Mutate
  <2> QED
    BY <2>1, <2>2
<1>2. ASSUME NEW p \in Processes, Crash(p) PROVE CallInv!(b)'
  BY <1>0, <1>2, CrashStays DEF Looking, Mutating
<1>3. CASE (\E p \in Servers : OpenRead(p) \/ OpenStat(p)) \/ Delete \/ Tick \/ UNCHANGED vars
  BY <1>0, <1>3, Elsewhere DEF Looking, Mutating
<1> QED
  BY <1>1, <1>2, <1>3 DEF Next

LEMMA LockInit == Init => LockInv /\ CallInv
BY DEF Init, LockInv, CallInv, Mutating, Looking

-----------------------------------------------------------------------------
(* The file has one writer at a time, which starts from what it says *)

SyncInv == \A a \in Actors : pc[a] \in {"save", "stamp"} => Table(a) = disk

\* A key under way was never issued, nobody else issues it, and what was never
\* issued is not in the file.
FreshInv ==
    /\ \A a \in Actors : Mutating(a) => \A k \in call[a].new : born[k] = Never
    /\ \A a, b \in Actors : a # b => call[a].new \cap call[b].new = {}
    /\ \A k \in Keys : disk[k] = "active" => born[k] # Never

LEMMA Reader == TypeOK => \A a \in Actors : Home[a] \in Processes /\ Table(a) = mem[Home[a]]
BY ProcessAssumption DEF Table

LEMMA SyncNext == TypeOK /\ LockInv /\ SyncInv /\ [Next]_vars => SyncInv'
<1> SUFFICES ASSUME TypeOK, LockInv, SyncInv, [Next]_vars,
                    NEW b \in Actors, pc'[b] \in {"save", "stamp"}
             PROVE  mem'[Home[b]] = disk'
  BY DEF SyncInv, Table
<1> USE ProcessAssumption, NoneAssumption
<1>0. Home[b] \in Processes
  OBVIOUS
<1>a. pc[b] \in {"save", "stamp"} => mem[Home[b]] = disk /\ flock = b /\ mu[Home[b]] = b /\ Up(b)
  BY DEF SyncInv, Table, LockInv
<1>b. ASSUME NEW a \in Actors, Lookup(a) \/ Mutate(a), ~MutateSave(a) PROVE disk' = disk
  BY <1>b DEF Lookup, LookupCall, LookupFresh, LookupStat, LookupStatFails, LookupRecheck,
     LookupReload, LookupReloadFails, LookupAnswer, Mutate, IssueCall, RevokeCall, MutateCall,
     MutateLock, MutateReload, MutateReloadFails, MutateSaveFails, RevokeNothing, MutateStamp, files
<1>1. ASSUME NEW a \in Actors, Lookup(a) \/ Mutate(a), a # b PROVE mem'[Home[b]] = disk'
  <2>1. pc[b] \in {"save", "stamp"}
    BY <1>1, OthersStay
  <2>2. mem'[Home[b]] = mem[Home[b]]
    BY <1>0, <1>1, <1>a, <2>1, OthersStay
  <2>3. ~MutateSave(a)
    BY <1>1, <1>a, <2>1 DEF MutateSave, LockInv
  <2> QED
    BY <1>1, <1>a, <1>b, <2>1, <2>2, <2>3
<1>2. CASE MutateReload(b)
  BY <1>0, <1>2 DEF MutateReload, files, TypeOK
<1>3. CASE MutateSave(b)
  BY <1>0, <1>3 DEF MutateSave, TypeOK
<1>4. ASSUME Lookup(b) \/ Mutate(b), ~MutateReload(b), ~MutateSave(b) PROVE FALSE
  BY <1>4 DEF Lookup, LookupCall, LookupFresh, LookupStat, LookupStatFails, LookupRecheck,
     LookupReload, LookupReloadFails, LookupAnswer, Mutate, IssueCall, RevokeCall, MutateCall,
     MutateLock, MutateReloadFails, MutateSaveFails, RevokeNothing, MutateStamp, Release, Return,
     Settled, Goto, TypeOK
<1>5. ASSUME NEW p \in Processes, Crash(p) PROVE mem'[Home[b]] = disk'
  BY <1>5, <1>a, CrashStays DEF Crash, files
<1>6. ASSUME NEW p \in Servers, OpenRead(p) \/ OpenStat(p) PROVE mem'[Home[b]] = disk'
  <2>1. pc[b] \in {"save", "stamp"}
    BY <1>6, Elsewhere
  <2> QED
    BY <1>6, <1>a, <2>1 DEF OpenRead, OpenStat, Up, files, TypeOK
<1>7. CASE Delete \/ Tick \/ UNCHANGED vars
  <2>1. pc[b] \in {"save", "stamp"}
    BY <1>7, Elsewhere
  <2> QED
    BY <1>7, <1>a, <2>1 DEF Delete, Tick, vars, files, processes
<1> QED
  BY <1>1, <1>2, <1>3, <1>4, <1>5, <1>6, <1>7 DEF Next

\* What a save makes active is its own key, and what it makes inactive was active.
LEMMA SaveEffect ==
    ASSUME TypeOK, SyncInv, NEW a \in Actors, MutateSave(a)
    PROVE  /\ disk' = Applied(disk, call[a].new, call[a].old) /\ disk' \in Tables
           /\ \A k \in Keys : disk'[k] = "active" => disk[k] = "active" \/ k \in call[a].new
           /\ \A k \in Keys : born'[k] = born[k] \/ (born'[k] = clock /\ k \in call[a].new)
           /\ \A k \in Keys : disk'[k] = "active" /\ disk[k] # "active" => born'[k] = clock
           /\ \A k \in Keys : died'[k] = IF disk'[k] # "active" /\ disk[k] = "active" THEN clock ELSE died[k]
<1>1. Table(a) = disk /\ disk \in Tables /\ call[a].new \in SUBSET Keys /\ call[a].old \in SUBSET Keys
  BY DEF SyncInv, MutateSave, TypeOK
<1>2. disk' = Applied(disk, call[a].new, call[a].old) /\ disk' \in Tables
  BY <1>1, AppliedTable DEF MutateSave
<1>3. \A k \in Keys : disk'[k] = "active" => disk[k] = "active" \/ k \in call[a].new
  BY <1>2 DEF Applied
<1>4. born' = [k \in Keys |-> IF disk'[k] = "active" /\ disk[k] # "active" THEN clock ELSE born[k]]
  BY <1>1, <1>2 DEF MutateSave
<1>5. died' = [k \in Keys |-> IF disk'[k] # "active" /\ disk[k] = "active" THEN clock ELSE died[k]]
  BY <1>1, <1>2 DEF MutateSave
<1> QED
  BY <1>2, <1>3, <1>4, <1>5

\* What a step does to the file and its history.
LEMMA FileSteps ==
    ASSUME TypeOK, [Next]_vars
    PROVE  \/ UNCHANGED <<disk, present, writes, born, died>>
           \/ \E a \in Actors : MutateSave(a)
           \/ Delete
<1>1. ASSUME NEW a \in Actors, Lookup(a) PROVE UNCHANGED <<disk, present, writes, born, died>>
  BY <1>1 DEF Lookup, LookupCall, LookupFresh, LookupStat, LookupStatFails, LookupRecheck,
     LookupReload, LookupReloadFails, LookupAnswer, files, history
<1>2. ASSUME NEW a \in Actors, Mutate(a), ~MutateSave(a) PROVE UNCHANGED <<disk, present, writes, born, died>>
  BY <1>2 DEF Mutate, IssueCall, RevokeCall, MutateCall, MutateLock, MutateReload,
     MutateReloadFails, MutateSaveFails, RevokeNothing, MutateStamp, files, history
<1>3. ASSUME NEW p \in Processes, Crash(p) PROVE UNCHANGED <<disk, present, writes, born, died>>
  BY <1>3 DEF Crash, files, history
<1>4. ASSUME NEW p \in Servers, OpenRead(p) \/ OpenStat(p) PROVE UNCHANGED <<disk, present, writes, born, died>>
  BY <1>4 DEF OpenRead, OpenStat, files, history
<1>5. CASE Tick \/ UNCHANGED vars
  BY <1>5 DEF Tick, vars, files, history
<1> QED
  BY <1>1, <1>2, <1>3, <1>4, <1>5 DEF Next

\* The keys of the calls: what a step may add.
LEMMA NewKeys ==
    ASSUME TypeOK, LockInv, [Next]_vars, NEW b \in Actors
    PROVE  \/ call'[b].new = call[b].new /\ (Mutating(b)' => Mutating(b))
           \/ call'[b].new = {}
           \/ IssueCall(b)
<1>1. ASSUME NEW a \in Actors, Lookup(a) \/ Mutate(a), a # b
      PROVE  call'[b].new = call[b].new /\ (Mutating(b)' => Mutating(b))
  BY <1>1, OthersStay DEF Mutating
<1>2. CASE LookupCall(b) \/ LookupAnswer(b)
  <2>1. CASE LookupCall(b)
    <3>1. PICK k \in Keys : call' = [call EXCEPT ![b] = [NoCall EXCEPT !.old = {k}, !.now = clock]]
      BY <2>1 DEF LookupCall
    <3> QED
      BY <3>1 DEF NoCall, TypeOK
  <2>2. CASE LookupAnswer(b)
    BY <2>2 DEF LookupAnswer, Return, NoCall, TypeOK
  <2> QED
    BY <1>2, <2>1, <2>2
<1>3. CASE \/ LookupFresh(b) \/ LookupStat(b) \/ LookupStatFails(b)
           \/ LookupRecheck(b) \/ LookupReload(b) \/ LookupReloadFails(b)
  <2>1. call'[b].new = call[b].new
    BY <1>3 DEF LookupFresh, LookupStat, LookupStatFails, LookupRecheck, LookupReload,
       LookupReloadFails, Settled, Goto, TypeOK
  <2>2. ~Mutating(b)'
    BY <1>3 DEF LookupFresh, LookupStat, LookupStatFails, LookupRecheck, LookupReload,
       LookupReloadFails, Settled, Goto, Mutating, TypeOK
  <2> QED
    BY <2>1, <2>2
<1>4. CASE RevokeCall(b)
  <2>1. PICK old \in SUBSET Keys : MutateCall(b, {}, old)
    BY <1>4, CallKeys DEF RevokeCall
  <2> QED
    BY <2>1 DEF MutateCall, NoCall, TypeOK
<1>5. CASE MutateLock(b) \/ MutateReload(b) \/ MutateSave(b)
  BY <1>5 DEF MutateLock, MutateReload, MutateSave, Goto, Mutating, TypeOK
<1>6. CASE MutateReloadFails(b) \/ MutateSaveFails(b) \/ RevokeNothing(b) \/ MutateStamp(b)
  BY <1>6 DEF MutateReloadFails, MutateSaveFails, RevokeNothing, MutateStamp, Release, Return,
     NoCall, TypeOK
<1>7. ASSUME NEW p \in Processes, Crash(p) PROVE call'[b].new = {} \/ (call'[b] = call[b] /\ pc'[b] = pc[b])
  BY <1>7, CrashStays DEF NoCall
<1>8. CASE (\E p \in Servers : OpenRead(p) \/ OpenStat(p)) \/ Delete \/ Tick \/ UNCHANGED vars
  BY <1>8, Elsewhere DEF Mutating
<1> QED
  BY <1>1, <1>2, <1>3, <1>4, <1>5, <1>6, <1>7, <1>8 DEF Next, Lookup, Mutate, Mutating

LEMMA IssueNew ==
    ASSUME TypeOK, NEW a \in Actors, IssueCall(a)
    PROVE  \E k \in Keys : /\ born[k] = Never /\ \A b \in Actors : k \notin call[b].new
                          /\ call'[a].new = {k} /\ born' = born
                          /\ \A b \in Actors : b # a => call'[b] = call[b]
BY DEF IssueCall, MutateCall, NoCall, TypeOK, history

LEMMA FreshNext == TypeOK /\ LockInv /\ SyncInv /\ FreshInv /\ [Next]_vars => FreshInv'
<1> SUFFICES ASSUME TypeOK, LockInv, SyncInv, FreshInv, [Next]_vars PROVE FreshInv'
  OBVIOUS
<1>1. ASSUME NEW a \in Actors, Mutating(a)', NEW k \in call'[a].new PROVE born'[k] = Never
  <2>1. CASE IssueCall(a)
    BY <1>1, <2>1, IssueNew
  <2>2. CASE Mutating(a) /\ call'[a].new = call[a].new
    <3>1. born[k] = Never /\ k \in Keys
      BY <1>1, <2>2 DEF FreshInv, TypeOK
    <3>2. CASE UNCHANGED born
      BY <3>1, <3>2
    <3>3. ASSUME NEW b \in Actors, MutateSave(b) PROVE born'[k] = Never
      <4>1. b # a
        BY <1>1, <3>3 DEF MutateSave, Goto, Mutating, TypeOK
      <4>2. k \notin call[b].new
        BY <1>1, <2>2, <4>1 DEF FreshInv
      <4> QED
        BY <3>1, <3>3, <4>2, SaveEffect
    <3> QED
      BY <3>2, <3>3, FileSteps DEF Delete
  <2> QED
    BY <1>1, <2>1, <2>2, NewKeys
<1>2. ASSUME NEW a \in Actors, NEW b \in Actors, a # b PROVE call'[a].new \cap call'[b].new = {}
  <2>1. CASE IssueCall(a)
    BY <1>2, <2>1, IssueNew
  <2>2. CASE IssueCall(b)
    BY <1>2, <2>2, IssueNew
  <2>3. CASE ~IssueCall(a) /\ ~IssueCall(b)
    BY <1>2, <2>3, NewKeys DEF FreshInv
  <2> QED
    BY <2>1, <2>2, <2>3
<1>3. ASSUME NEW k \in Keys, disk'[k] = "active" PROVE born'[k] # Never
  <2>1. CASE UNCHANGED <<disk, born>>
    BY <1>3, <2>1 DEF FreshInv
  <2>2. ASSUME NEW a \in Actors, MutateSave(a) PROVE born'[k] # Never
    <3>1. clock # Never
      BY TimeAssumption DEF TypeOK, Never
    <3> QED
      BY <1>3, <2>2, <3>1, SaveEffect DEF FreshInv
  <2>3. CASE Delete
    BY <1>3, <2>3 DEF Delete, Empty
  <2> QED
    BY <2>1, <2>2, <2>3, FileSteps
<1> QED
  BY <1>1, <1>2, <1>3 DEF FreshInv

-----------------------------------------------------------------------------
(* One active key for each user *)

LEMMA AppliedOne ==
    ASSUME NEW t \in Tables, OneActiveKey(t), NEW c \in Calls, Command(c)
    PROVE  OneActiveKey(Applied(t, c.new, c.old))
<1> DEFINE u == Applied(t, c.new, c.old)
<1> SUFFICES ASSUME NEW j \in Keys, NEW k \in Keys, u[j] = "active", u[k] = "active",
                    j # k, Owner[j] = Owner[k]
             PROVE  Owner[j] = None
  BY DEF OneActiveKey
<1>1. CASE c.new = {}
  BY <1>1 DEF Applied, OneActiveKey
<1>2. ASSUME NEW i \in Keys, c.new = {i}, c.old = Prior(i) PROVE Owner[j] = None
  <2>1. CASE j # i /\ k # i
    BY <1>2, <2>1 DEF Applied, OneActiveKey
  <2>2. CASE j = i \/ k = i
    BY <1>2, <2>2 DEF Applied, Prior, KeysOf
  <2> QED
    BY <2>1, <2>2
<1> QED
  BY <1>1, <1>2 DEF Command

LEMMA EmptyOne == OneActiveKey(Empty)
BY DEF OneActiveKey, Empty

\* Where the tables of a step come from.
LEMMA TableSteps ==
    ASSUME TypeOK, [Next]_vars
    PROVE  \/ disk' \in {disk, Empty} /\ \A p \in Processes : mem'[p] \in {mem[p], disk, Empty}
           \/ \E a \in Actors :
                 /\ MutateSave(a)
                 /\ disk' = Applied(Table(a), call[a].new, call[a].old)
                 /\ \A p \in Processes : mem'[p] \in {mem[p], disk'}
<1> USE ProcessAssumption DEF TypeOK
<1>1. ASSUME NEW a \in Actors, Lookup(a)
      PROVE  disk' = disk /\ \A p \in Processes : mem'[p] \in {mem[p], disk, Empty}
  BY <1>1 DEF Lookup, LookupCall, LookupFresh, LookupStat, LookupStatFails, LookupRecheck,
     LookupReload, LookupReloadFails, LookupAnswer, files, processes
<1>2. ASSUME NEW a \in Actors, Mutate(a), ~MutateSave(a)
      PROVE  disk' = disk /\ \A p \in Processes : mem'[p] \in {mem[p], disk, Empty}
  <2>1. CASE IssueCall(a) \/ RevokeCall(a) \/ MutateLock(a)
    BY <2>1 DEF IssueCall, RevokeCall, MutateCall, MutateLock, files, processes
  <2>2. CASE MutateReload(a)
    BY <2>2 DEF MutateReload, files
  <2>3. CASE MutateReloadFails(a) \/ MutateSaveFails(a) \/ RevokeNothing(a) \/ MutateStamp(a)
    BY <2>3 DEF MutateReloadFails, MutateSaveFails, RevokeNothing, MutateStamp, Release, files
  <2> QED
    BY <1>2, <2>1, <2>2, <2>3 DEF Mutate
<1>3. ASSUME NEW p \in Processes, Crash(p)
      PROVE  disk' = disk /\ \A q \in Processes : mem'[q] \in {mem[q], disk, Empty}
  BY <1>3 DEF Crash, files
<1>4. ASSUME NEW p \in Servers, OpenRead(p) \/ OpenStat(p)
      PROVE  disk' = disk /\ \A q \in Processes : mem'[q] \in {mem[q], disk, Empty}
  BY <1>4 DEF OpenRead, OpenStat, files
<1>5. CASE Delete \/ Tick \/ UNCHANGED vars
  BY <1>5 DEF Delete, Tick, vars, files, processes
<1>6. ASSUME NEW a \in Actors, MutateSave(a)
      PROVE  /\ disk' = Applied(Table(a), call[a].new, call[a].old)
             /\ \A p \in Processes : mem'[p] \in {mem[p], disk'}
  BY <1>6 DEF MutateSave
<1> QED
  BY <1>1, <1>2, <1>3, <1>4, <1>5, <1>6 DEF Next

LEMMA OneActiveNext == TypeOK /\ CallInv /\ OneActivePerUser /\ [Next]_vars => OneActivePerUser'
<1> SUFFICES ASSUME TypeOK, CallInv, OneActivePerUser, [Next]_vars PROVE OneActivePerUser'
  OBVIOUS
<1>1. ASSUME NEW a \in Actors, MutateSave(a)
      PROVE  OneActiveKey(Applied(Table(a), call[a].new, call[a].old))
  <2>1. Command(call[a]) /\ call[a] \in Calls
    BY <1>1 DEF CallInv, MutateSave, Mutating, TypeOK, Calls
  <2>2. Table(a) \in Tables /\ OneActiveKey(Table(a))
    BY ProcessAssumption DEF OneActivePerUser, Table, TypeOK
  <2> QED
    BY <2>1, <2>2, AppliedOne
<1>2. OneActiveKey(disk')
  BY <1>1, TableSteps, EmptyOne DEF OneActivePerUser
<1>3. ASSUME NEW p \in Processes PROVE OneActiveKey(mem'[p])
  <2>1. mem'[p] \in {mem[p], disk, Empty, disk'}
    BY TableSteps
  <2> QED
    BY <1>2, <2>1, EmptyOne DEF OneActivePerUser
<1> QED
  BY <1>2, <1>3 DEF OneActivePerUser, OneActiveKey

-----------------------------------------------------------------------------
(* The invariant *)

IInv == TypeOK /\ LockInv /\ CallInv /\ SyncInv /\ FreshInv /\ OneActivePerUser

LEMMA InvInit == Init => IInv
<1> SUFFICES ASSUME Init PROVE IInv
  OBVIOUS
<1>1. SyncInv
  BY DEF Init, SyncInv
<1>2. FreshInv
  BY DEF Init, FreshInv, Mutating, Empty, NoCall
<1>3. OneActivePerUser
  BY EmptyOne DEF Init, OneActivePerUser
<1> QED
  BY <1>1, <1>2, <1>3, TypeInit, LockInit DEF IInv

LEMMA InvNext == IInv /\ [Next]_vars => IInv'
<1> SUFFICES ASSUME IInv, [Next]_vars PROVE IInv'
  OBVIOUS
<1>1. TypeOK' /\ LockInv' /\ CallInv'
  BY TypeNext, LockNext, CallNext DEF IInv
<1>2. SyncInv' /\ FreshInv' /\ OneActivePerUser'
  BY SyncNext, FreshNext, OneActiveNext DEF IInv
<1> QED
  BY <1>1, <1>2 DEF IInv

LEMMA Invariant == Spec => []IInv
BY InvInit, InvNext, PTL DEF Spec

\* No user ever has two active keys, neither in keys.json nor in the table a process
\* answers from (issue's D4 invariant), whatever fails.
THEOREM OneActive == Spec => []OneActivePerUser
<1>1. IInv => OneActivePerUser
  BY DEF IInv
<1> QED
  BY <1>1, Invariant, PTL

-----------------------------------------------------------------------------
(* The file changes as if by one command at a time *)

Minted == {k \in Keys : born[k] # Never}

LEMMA MintedOne ==
    ASSUME IInv, NEW a \in Actors, MutateSave(a), NEW k \in Keys, call[a].new = {k}
    PROVE  k \notin Minted /\ Minted' = Minted \cup {k}
<1>1. born[k] = Never /\ disk[k] # "active"
  BY DEF IInv, FreshInv, MutateSave, Mutating
<1>2. disk'[k] = "active" /\ clock # Never
  BY SaveEffect, TimeAssumption DEF IInv, Applied, TypeOK, Never
<1>3. born'[k] # Never /\ \A j \in Keys : j # k => born'[j] = born[j]
  BY <1>1, <1>2, SaveEffect DEF IInv
<1> QED
  BY <1>1, <1>3 DEF Minted, Never

LEMMA MintedNone ==
    ASSUME IInv, NEW a \in Actors, MutateSave(a), call[a].new = {}
    PROVE  Minted' = Minted
BY SaveEffect DEF IInv, Minted, Never

LEMMA RegisterStep == IInv /\ [Next]_vars => [Register!Next]_Register!vars
<1> SUFFICES ASSUME IInv, [Next]_vars PROVE [Register!Next]_Register!vars
  OBVIOUS
<1> USE DEF Minted
<1>1. ASSUME NEW a \in Actors, MutateSave(a) PROVE Register!Next
  <2>1. disk' = Register!Applied(disk, call[a].new, call[a].old)
    BY <1>1, SaveEffect DEF IInv, Applied, Register!Applied
  <2>2. Command(call[a])
    BY <1>1 DEF IInv, CallInv, MutateSave, Mutating
  <2>3. ASSUME NEW k \in Keys, call[a].new = {k}, call[a].old = Prior(k) PROVE Register!Issue(k)
    <3>1. Prior(k) = Register!Prior(k)
      BY DEF Prior, Register!Prior, KeysOf, Register!KeysOf
    <3> QED
      BY <1>1, <2>1, <2>3, <3>1, MintedOne DEF Register!Issue
  <2>4. ASSUME call[a].new = {} PROVE Register!Revoke(call[a].old)
    BY <1>1, <2>1, <2>4, MintedNone DEF Register!Revoke
  <2>5. \A u \in Users : KeysOf(u) = Register!KeysOf(u)
    BY DEF KeysOf, Register!KeysOf
  <2> QED
    BY <2>2, <2>3, <2>4, <2>5 DEF Command, Register!Next
<1>2. CASE Delete
  BY <1>2 DEF Delete, Empty, Register!Empty, Register!Wipe, Register!Next, Never
<1>3. CASE UNCHANGED <<disk, born>>
  BY <1>3 DEF Register!vars, Never
<1> QED
  BY <1>1, <1>2, <1>3, FileSteps DEF IInv

\* However many processes issue and revoke keys, and wherever they fail or die,
\* keys.json changes as if by one command at a time, each applied to what the last
\* one left: no write is lost, none is half done, no key comes back.
THEOREM Implements == Spec => ImplementsRegister
<1>1. Init => Register!Init
  BY DEF Init, Register!Init, Empty, Register!Empty
<1> QED
  BY <1>1, Invariant, RegisterStep, PTL DEF Spec, ImplementsRegister, Register!Spec

-----------------------------------------------------------------------------
(* A stale table is noticed *)

\* A file that is there was written, one that is not says nothing.
FileInv == IF present THEN writes > 0 ELSE disk = Empty

\* StaleIsNoticed, whoever holds the table.
Noticed(p) ==
    up[p] = "up" /\ ~blind[p] /\ mem[p] # disk => ~present \/ lastMod[p] # Stat
NoticedInv == \A p \in Servers : Noticed(p)

LEMMA FileNext == TypeOK /\ FileInv /\ [Next]_vars => FileInv'
<1> SUFFICES ASSUME TypeOK, FileInv, [Next]_vars PROVE FileInv'
  OBVIOUS
<1>1. ASSUME NEW a \in Actors, MutateSave(a) PROVE FileInv'
  BY <1>1 DEF MutateSave, FileInv, TypeOK
<1>2. CASE Delete
  BY <1>2 DEF Delete, FileInv
<1>3. CASE UNCHANGED <<disk, present, writes>>
  BY <1>3 DEF FileInv, Empty
<1> QED
  BY <1>1, <1>2, <1>3, FileSteps

LEMMA NoticedNext == TypeOK /\ SyncInv /\ FileInv /\ NoticedInv /\ [Next]_vars => NoticedInv'
<1> SUFFICES ASSUME TypeOK, SyncInv, FileInv, NoticedInv, [Next]_vars, NEW p \in Servers
             PROVE  Noticed(p)'
  BY DEF NoticedInv
<1> USE ProcessAssumption DEF Noticed
<1>0. Noticed(p) /\ lastMod[p] \in 0..writes /\ writes \in Nat /\ p \in Processes /\ (present => writes > 0)
  BY DEF NoticedInv, TypeOK, FileInv
<1>1. ASSUME NEW a \in Actors, Lookup(a) PROVE Noticed(p)'
  <2>1. CASE LookupCall(a) \/ LookupFresh(a) \/ LookupStat(a) \/ LookupAnswer(a)
    BY <1>0, <2>1 DEF LookupCall, LookupFresh, LookupStat, LookupAnswer, processes, files, Stat
  <2>2. CASE LookupStatFails(a)
    BY <1>0, <2>2 DEF LookupStatFails, files, Stat, Table, TypeOK
  <2>3. CASE LookupRecheck(a)
    BY <1>0, <2>3 DEF LookupRecheck, files, Stat, TypeOK
  <2>4. CASE LookupReload(a)
    <3>1. CASE p = Home[a]
      BY <2>4, <3>1 DEF LookupReload, files, TypeOK
    <3>2. CASE p # Home[a]
      BY <1>0, <2>4, <3>2 DEF LookupReload, files, Stat, TypeOK
    <3> QED
      BY <3>1, <3>2
  <2>5. CASE LookupReloadFails(a)
    BY <1>0, <2>5 DEF LookupReloadFails, files, Stat, Table, TypeOK
  <2> QED
    BY <1>1, <2>1, <2>2, <2>3, <2>4, <2>5 DEF Lookup
<1>2. ASSUME NEW a \in Actors, Mutate(a) PROVE Noticed(p)'
  <2>1. CASE IssueCall(a) \/ RevokeCall(a) \/ MutateLock(a)
    BY <1>0, <2>1 DEF IssueCall, RevokeCall, MutateCall, MutateLock, processes, files, Stat
  <2>2. CASE MutateReload(a)
    BY <1>0, <2>2 DEF MutateReload, files, Stat, TypeOK
  <2>3. CASE MutateReloadFails(a) \/ MutateSaveFails(a) \/ RevokeNothing(a)
    BY <1>0, <2>3 DEF MutateReloadFails, MutateSaveFails, RevokeNothing, Release, files, Stat, TypeOK
  <2>4. CASE MutateSave(a)
    BY <1>0, <2>4 DEF MutateSave, Stat, TypeOK
  <2>5. CASE MutateStamp(a)
    <3>1. CASE p = Home[a]
      <4>1. mem'[p] = disk'
        BY <2>5, <3>1 DEF MutateStamp, Release, SyncInv, Table, files
      <4> QED
        BY <4>1
    <3>2. CASE p # Home[a]
      BY <1>0, <2>5, <3>2 DEF MutateStamp, Release, files, Stat, TypeOK
    <3> QED
      BY <3>1, <3>2
  <2> QED
    BY <1>2, <2>1, <2>2, <2>3, <2>4, <2>5 DEF Mutate
<1>3. ASSUME NEW q \in Processes, Crash(q) PROVE Noticed(p)'
  BY <1>0, <1>3 DEF Crash, files, Stat, TypeOK
<1>4. ASSUME NEW q \in Servers, OpenRead(q) PROVE Noticed(p)'
  BY <1>0, <1>4 DEF OpenRead, files, Stat, TypeOK
<1>5. ASSUME NEW q \in Servers, OpenStat(q) PROVE Noticed(p)'
  <2>1. CASE q = p
    BY <1>5, <2>1 DEF OpenStat, files, TypeOK
  <2>2. CASE q # p
    BY <1>0, <1>5, <2>2 DEF OpenStat, files, Stat, TypeOK
  <2> QED
    BY <2>1, <2>2
<1>6. CASE Delete
  BY <1>6 DEF Delete
<1>7. CASE Tick \/ UNCHANGED vars
  BY <1>0, <1>7 DEF Tick, vars, files, processes, Stat
<1> QED
  BY <1>1, <1>2, <1>3, <1>4, <1>5, <1>6, <1>7 DEF Next

\* A table that differs from keys.json, on a server no fault has blinded, is one the
\* next check of the mtime will read again (maybeReloadForLookup): a failed or stale
\* save never leaves a table that looks current.
THEOREM Stale == Spec => []StaleIsNoticed
<1>1. Init => FileInv /\ NoticedInv
  BY DEF Init, FileInv, NoticedInv, Noticed
<1>2. IInv /\ FileInv /\ NoticedInv /\ [Next]_vars => FileInv' /\ NoticedInv'
  BY FileNext, NoticedNext DEF IInv
<1>3. NoticedInv => StaleIsNoticed
  BY DEF NoticedInv, Noticed, StaleIsNoticed
<1> QED
  BY <1>1, <1>2, <1>3, Invariant, PTL DEF Spec

-----------------------------------------------------------------------------
(* A lookup answers in time *)

\* No check and no captured time is in the future.
TimeInv ==
    /\ \A p \in Servers : lastCheck[p] <= clock
    /\ \A a \in Actors : call[a].now <= clock

\* A key that is active did not cease to be, nor did one that never was.
HistInv ==
    \A k \in Keys : disk[k] = "active" \/ born[k] = Never => died[k] = Never

\* Where the table of p differs from the file, it does so since t or later.
Lag(p, t) ==
    \A k \in Keys :
        /\ mem[p][k] = "active" /\ disk[k] # "active" => died[k] >= t
        /\ mem[p][k] # "active" /\ disk[k] = "active" => born[k] >= t

Quiet(p) == \A a \in Actors : Home[a] = p => pc[a] # "reload"
Sighted(p) == up[p] = "up" /\ ~blind[p]

LagInv == \A p \in Servers : Sighted(p) /\ Quiet(p) => Lag(p, lastCheck[p])

\* What the mtime a lookup saw tells it.
RecheckInv ==
    \A a \in Actors : pc[a] = "recheck" =>
        /\ Sighted(Home[a]) /\ call[a].stat # 0 /\ call[a].stat = lastMod[Home[a]]
                => Lag(Home[a], call[a].now)
        /\ call[a].stat = 0 => \A k \in Keys : disk[k] = "active" => born[k] >= call[a].now

\* Who answers or reads the file was checked for recently.
AnswerInv ==
    \A a \in Actors : pc[a] \in {"answer", "reload"} => call[a].now < lastCheck[Home[a]] + TTL

LEMMA ClockSteps == TypeOK /\ [Next]_vars => clock <= clock' /\ clock \in Nat /\ clock' \in Nat
<1> SUFFICES ASSUME TypeOK, [Next]_vars PROVE clock' \in {clock, clock + 1}
  BY TimeAssumption DEF TypeOK
<1>1. ASSUME NEW a \in Actors, Lookup(a) PROVE clock' = clock
  BY <1>1 DEF Lookup, LookupCall, LookupFresh, LookupStat, LookupStatFails, LookupRecheck,
     LookupReload, LookupReloadFails, LookupAnswer
<1>2. ASSUME NEW a \in Actors, Mutate(a) PROVE clock' = clock
  BY <1>2 DEF Mutate, IssueCall, RevokeCall, MutateCall, MutateLock, MutateReload,
     MutateReloadFails, MutateSave, MutateSaveFails, RevokeNothing, MutateStamp
<1> QED
  BY <1>1, <1>2 DEF Next, Crash, OpenRead, OpenStat, Delete, Tick, vars

\* What a step may do to the last check of a server and to the time of a call.
LEMMA CheckSteps ==
    ASSUME TypeOK, TimeInv, LockInv, [Next]_vars, NEW p \in Servers
    PROVE  \/ lastCheck'[p] \in {lastCheck[p], clock}
           \/ lastCheck'[p] = 0 /\ up'[p] = "down"
           \/ \E a \in Actors : lastCheck'[p] = call[a].now /\ call[a].now > lastCheck[p]
<1> USE ProcessAssumption
<1>0. ASSUME NEW a \in Actors, Home[a] = p, ~Recent(a) PROVE call[a].now > lastCheck[p]
  <2>1. call[a].now \in Int /\ lastCheck[p] \in Int /\ TTL \in Int /\ TTL > 0
    BY TimeAssumption DEF TypeOK
  <2>2. ~(call[a].now - lastCheck[p] < TTL)
    BY <1>0 DEF Recent
  <2> QED
    BY <2>1, <2>2
<1> USE DEF TypeOK
<1>1. ASSUME NEW a \in Actors, Lookup(a), lastCheck'[p] # lastCheck[p]
      PROVE  lastCheck'[p] = call[a].now /\ call[a].now > lastCheck[p]
  <2>1. CASE LookupStatFails(a)
    <3>1. ~Recent(a) /\ p = Home[a] /\ lastCheck'[p] = call[a].now
      BY <1>1, <2>1 DEF LookupStatFails
    <3> QED
      BY <1>0, <3>1
  <2>2. CASE LookupRecheck(a)
    <3>1. ~Recent(a) /\ p = Home[a] /\ lastCheck'[p] = call[a].now
      BY <1>1, <2>2 DEF LookupRecheck
    <3> QED
      BY <1>0, <3>1
  <2> QED
    BY <1>1, <2>1, <2>2 DEF Lookup, LookupCall, LookupFresh, LookupStat, LookupReload,
       LookupReloadFails, LookupAnswer, processes
<1>2. ASSUME NEW a \in Actors, Mutate(a) PROVE lastCheck'[p] \in {lastCheck[p], clock}
  BY <1>2 DEF Mutate, IssueCall, RevokeCall, MutateCall, MutateLock, MutateReload,
     MutateReloadFails, MutateSave, MutateSaveFails, RevokeNothing, MutateStamp, processes
<1>3. ASSUME NEW q \in Processes, Crash(q) PROVE lastCheck'[p] = lastCheck[p] \/ (lastCheck'[p] = 0 /\ up'[p] = "down")
  BY <1>3 DEF Crash
<1>4. ASSUME NEW q \in Servers, OpenRead(q) \/ OpenStat(q) PROVE lastCheck'[p] \in {lastCheck[p], clock}
  BY <1>4 DEF OpenRead, OpenStat
<1>5. CASE Delete \/ Tick \/ UNCHANGED vars
  BY <1>5 DEF Delete, Tick, vars, processes
<1> QED
  BY <1>1, <1>2, <1>3, <1>4, <1>5 DEF Next

LEMMA CallTimes ==
    ASSUME TypeOK, LockInv, [Next]_vars, NEW b \in Actors
    PROVE  \/ call'[b].now = call[b].now
           \/ call'[b].now = 0 /\ pc'[b] \in {"idle", "mu"}
           \/ call'[b].now = clock /\ pc'[b] = "fresh"
<1> USE DEF TypeOK
<1>1. ASSUME NEW a \in Actors, Lookup(a) \/ Mutate(a), a # b PROVE call'[b] = call[b]
  BY <1>1, OthersStay
<1>2. CASE LookupCall(b)
  <2>1. PICK k \in Keys : call' = [call EXCEPT ![b] = [NoCall EXCEPT !.old = {k}, !.now = clock]]
    BY <1>2 DEF LookupCall
  <2>2. call'[b].now = clock
    BY <2>1 DEF NoCall
  <2> QED
    BY <1>2, <2>2 DEF LookupCall, Goto
<1>3. CASE \/ LookupFresh(b) \/ LookupStat(b) \/ LookupStatFails(b)
           \/ LookupRecheck(b) \/ LookupReload(b) \/ LookupReloadFails(b)
  BY <1>3 DEF LookupFresh, LookupStat, LookupStatFails, LookupRecheck, LookupReload,
     LookupReloadFails, Settled
<1>4. CASE LookupAnswer(b)
  BY <1>4 DEF LookupAnswer, Return, Goto, NoCall
<1>5. CASE IssueCall(b) \/ RevokeCall(b)
  <2>1. PICK new \in SUBSET Keys, old \in SUBSET Keys : MutateCall(b, new, old)
    BY <1>5, CallOpens
  <2> QED
    BY <2>1 DEF MutateCall, Goto, NoCall
<1>6. CASE MutateLock(b) \/ MutateReload(b) \/ MutateSave(b)
  BY <1>6 DEF MutateLock, MutateReload, MutateSave
<1>7. CASE MutateReloadFails(b) \/ MutateSaveFails(b) \/ RevokeNothing(b) \/ MutateStamp(b)
  BY <1>7 DEF MutateReloadFails, MutateSaveFails, RevokeNothing, MutateStamp, Release, Return,
     Goto, NoCall
<1>8. ASSUME NEW p \in Processes, Crash(p) PROVE call'[b] = call[b] \/ (call'[b] = NoCall /\ pc'[b] = "idle")
  BY <1>8, CrashStays
<1>9. CASE (\E p \in Servers : OpenRead(p) \/ OpenStat(p)) \/ Delete \/ Tick \/ UNCHANGED vars
  BY <1>9, Elsewhere
<1> QED
  BY <1>1, <1>2, <1>3, <1>4, <1>5, <1>6, <1>7, <1>8, <1>9 DEF Next, Lookup, Mutate, NoCall

LEMMA TimeNext == TypeOK /\ LockInv /\ TimeInv /\ [Next]_vars => TimeInv'
<1> SUFFICES ASSUME TypeOK, LockInv, TimeInv, [Next]_vars PROVE TimeInv'
  OBVIOUS
<1>0. clock <= clock' /\ clock \in Nat /\ clock' \in Nat
  BY ClockSteps
<1>1. ASSUME NEW p \in Servers PROVE lastCheck'[p] <= clock'
  <2>1. lastCheck[p] \in Nat /\ \A a \in Actors : call[a].now \in Nat
    BY TimeAssumption DEF TypeOK
  <2> QED
    BY <1>0, <2>1, CheckSteps DEF TimeInv
<1>2. ASSUME NEW a \in Actors PROVE call'[a].now <= clock'
  <2>1. call[a].now \in Nat
    BY TimeAssumption DEF TypeOK
  <2> QED
    BY <1>0, <2>1, CallTimes DEF TimeInv
<1> QED
  BY <1>1, <1>2 DEF TimeInv

LEMMA HistNext == IInv /\ HistInv /\ [Next]_vars => HistInv'
<1> SUFFICES ASSUME IInv, HistInv, [Next]_vars PROVE HistInv'
  OBVIOUS
<1>0. clock # Never
  BY TimeAssumption DEF IInv, TypeOK, Never
<1>1. ASSUME NEW a \in Actors, MutateSave(a) PROVE HistInv'
  <2> SUFFICES ASSUME NEW k \in Keys, disk'[k] = "active" \/ born'[k] = Never
               PROVE  died'[k] = Never
    BY DEF HistInv, Never
  <2>1. \A j \in call[a].new : born[j] = Never
    BY <1>1 DEF IInv, FreshInv, MutateSave, Mutating
  <2>2. born'[k] = Never => born[k] = Never /\ disk[k] # "active"
    BY <1>0, <1>1, SaveEffect DEF IInv, FreshInv
  <2> QED
    BY <1>0, <1>1, <2>1, <2>2, SaveEffect DEF IInv, HistInv
<1>2. CASE Delete
  BY <1>2 DEF Delete, HistInv, IInv, FreshInv, Empty, Never, TypeOK
<1>3. CASE UNCHANGED <<disk, born, died>>
  BY <1>3 DEF HistInv, Never
<1> QED
  BY <1>1, <1>2, <1>3, FileSteps DEF IInv

\* A key that becomes active on disk does so now, and one that ceases to be.
LEMMA DiskSteps ==
    ASSUME IInv, [Next]_vars, NEW k \in Keys
    PROVE  /\ disk[k] = "active" /\ disk'[k] # "active" => died'[k] = clock
           /\ disk[k] # "active" /\ disk'[k] = "active" => born'[k] = clock
           /\ disk[k] # "active" => died'[k] = died[k]
           /\ disk[k] = "active" => born'[k] \in {born[k], clock}
<1>1. ASSUME NEW a \in Actors, MutateSave(a)
      PROVE  /\ disk[k] = "active" /\ disk'[k] # "active" => died'[k] = clock
             /\ disk[k] # "active" /\ disk'[k] = "active" => born'[k] = clock
             /\ disk[k] # "active" => died'[k] = died[k]
             /\ disk[k] = "active" => born'[k] \in {born[k], clock}
  BY <1>1, SaveEffect DEF IInv
<1>2. CASE Delete
  BY <1>2 DEF Delete, Empty, IInv, TypeOK
<1>3. CASE UNCHANGED <<disk, born, died>>
  BY <1>3
<1> QED
  BY <1>1, <1>2, <1>3, FileSteps DEF IInv

LEMMA LagKept ==
    ASSUME IInv, [Next]_vars, NEW p \in Processes, NEW t \in Nat, t <= clock, Lag(p, t), mem'[p] = mem[p]
    PROVE  Lag(p, t)'
<1> SUFFICES ASSUME NEW k \in Keys PROVE Lag(p, t)!(k)'
  BY DEF Lag
<1>1. /\ mem[p][k] = "active" /\ disk[k] # "active" => died[k] >= t
      /\ mem[p][k] # "active" /\ disk[k] = "active" => born[k] >= t
  BY DEF Lag
<1>2. died[k] \in Nat /\ born[k] \in Nat /\ clock \in Nat
  BY TimeAssumption DEF IInv, TypeOK, Never
<1> QED
  BY <1>1, <1>2, DiskSteps

LEMMA LagNone ==
    ASSUME NEW p \in Processes, NEW t, mem'[p] = disk'
    PROVE  Lag(p, t)'
BY DEF Lag

\* How a server that may be trusted came to its table.
LEMMA ServerSteps ==
    ASSUME TypeOK, SyncInv, [Next]_vars, NEW p \in Servers, Sighted(p)'
    PROVE  \/ /\ Sighted(p) /\ mem'[p] = mem[p] /\ lastMod'[p] = lastMod[p]
              /\ lastCheck'[p] = lastCheck[p]
              /\ Quiet(p)' => Quiet(p)
           \/ mem'[p] = disk'
           \/ \E a \in Actors : LookupRecheck(a) /\ Home[a] = p /\ Sighted(p)
<1> USE ProcessAssumption DEF Sighted
<1> DEFINE Same == /\ Sighted(p) /\ mem'[p] = mem[p] /\ lastMod'[p] = lastMod[p]
                   /\ lastCheck'[p] = lastCheck[p]
                   /\ Quiet(p)' => Quiet(p)
             Goal == \/ Same
                     \/ mem'[p] = disk'
                     \/ \E a \in Actors : LookupRecheck(a) /\ Home[a] = p /\ Sighted(p)
<1>1. ASSUME NEW a \in Actors, Lookup(a) PROVE Goal
  <2>1. CASE LookupCall(a) \/ LookupFresh(a) \/ LookupStat(a) \/ LookupAnswer(a)
    <3>1. Quiet(p)' => Quiet(p)
      BY <2>1 DEF LookupCall, LookupFresh, LookupStat, LookupAnswer, Return, Goto, Quiet, TypeOK
    <3> QED
      BY <2>1, <3>1 DEF LookupCall, LookupFresh, LookupStat, LookupAnswer, processes
  <2>2. CASE LookupStatFails(a)
    <3>1. Quiet(p)' => Quiet(p)
      BY <2>2 DEF LookupStatFails, Settled, Goto, Quiet, TypeOK
    <3>2. mem' = mem /\ lastMod' = lastMod /\ disk' = disk /\ up' = up
      BY <2>2 DEF LookupStatFails, files
    <3>3. CASE p # Home[a]
      BY <2>2, <3>1, <3>2, <3>3 DEF LookupStatFails, TypeOK
    <3>4. CASE p = Home[a]
      <4>1. ~blind[p] /\ (Recent(a) \/ mem[p] = disk)
        BY <2>2, <3>4 DEF LookupStatFails, Table, TypeOK
      <4>2. Recent(a) => lastCheck'[p] = lastCheck[p]
        BY <2>2, <3>4 DEF LookupStatFails, TypeOK
      <4> QED
        BY <3>1, <3>2, <4>1, <4>2
    <3> QED
      BY <3>3, <3>4
  <2>3. CASE LookupRecheck(a)
    <3>1. CASE p = Home[a]
      BY <2>3, <3>1 DEF LookupRecheck
    <3>2. CASE p # Home[a]
      <4>1. Quiet(p)' => Quiet(p)
        BY <2>3, <3>2 DEF LookupRecheck, Settled, Goto, Quiet, TypeOK
      <4> QED
        BY <2>3, <3>2, <4>1 DEF LookupRecheck, TypeOK
    <3> QED
      BY <3>1, <3>2
  <2>4. CASE LookupReload(a)
    <3>1. CASE p = Home[a]
      BY <2>4, <3>1 DEF LookupReload, files, TypeOK
    <3>2. CASE p # Home[a]
      <4>1. Quiet(p)' => Quiet(p)
        BY <2>4, <3>2 DEF LookupReload, Settled, Goto, Quiet, TypeOK
      <4> QED
        BY <2>4, <3>2, <4>1 DEF LookupReload, TypeOK
    <3> QED
      BY <3>1, <3>2
  <2>5. CASE LookupReloadFails(a)
    <3>1. CASE p = Home[a]
      BY <2>5, <3>1 DEF LookupReloadFails, files, Table, TypeOK
    <3>2. CASE p # Home[a]
      <4>1. Quiet(p)' => Quiet(p)
        BY <2>5, <3>2 DEF LookupReloadFails, Settled, Goto, Quiet, TypeOK
      <4> QED
        BY <2>5, <3>2, <4>1 DEF LookupReloadFails, TypeOK
    <3> QED
      BY <3>1, <3>2
  <2> QED
    BY <1>1, <2>1, <2>2, <2>3, <2>4, <2>5 DEF Lookup
<1>2. ASSUME NEW a \in Actors, Mutate(a) PROVE Goal
  <2>1. CASE IssueCall(a) \/ RevokeCall(a)
    <3>1. PICK new \in SUBSET Keys, old \in SUBSET Keys : MutateCall(a, new, old)
      BY <2>1, CallOpens
    <3>2. Quiet(p)' => Quiet(p)
      BY <3>1 DEF MutateCall, Goto, Quiet, TypeOK
    <3> QED
      BY <3>1, <3>2 DEF MutateCall, processes
  <2>2. CASE MutateLock(a)
    <3>1. Quiet(p)' => Quiet(p)
      BY <2>2 DEF MutateLock, Goto, Quiet, TypeOK
    <3> QED
      BY <2>2, <3>1 DEF MutateLock, processes
  <2>3. CASE MutateReload(a)
    <3>1. Quiet(p)' => Quiet(p)
      BY <2>3 DEF MutateReload, Goto, Quiet, TypeOK
    <3> QED
      BY <2>3, <3>1 DEF MutateReload, files, TypeOK
  <2>4. CASE MutateReloadFails(a) \/ MutateSaveFails(a) \/ RevokeNothing(a)
    <3>1. Release(a) /\ pc[a] # "reload" /\ up' = up /\ blind' = blind /\ lastMod' = lastMod /\ lastCheck' = lastCheck
      BY <2>4 DEF MutateReloadFails, MutateSaveFails, RevokeNothing
    <3>2. Quiet(p)' => Quiet(p)
      BY <3>1 DEF Release, Return, Goto, Quiet, TypeOK
    <3>3. mem'[p] = mem[p]
      BY <3>1 DEF Release, TypeOK
    <3> QED
      BY <3>1, <3>2, <3>3
  <2>5. CASE MutateSave(a)
    <3>1. Quiet(p)' => Quiet(p)
      BY <2>5 DEF MutateSave, Goto, Quiet, TypeOK
    <3> QED
      BY <2>5, <3>1 DEF MutateSave, TypeOK
  <2>6. CASE MutateStamp(a)
    <3>1. CASE p = Home[a]
      BY <2>6, <3>1 DEF MutateStamp, Release, SyncInv, Table, files
    <3>2. CASE p # Home[a]
      <4>1. Quiet(p)' => Quiet(p)
        BY <2>6, <3>2 DEF MutateStamp, Release, Return, Goto, Quiet, TypeOK
      <4> QED
        BY <2>6, <3>2, <4>1 DEF MutateStamp, Release, TypeOK
    <3> QED
      BY <3>1, <3>2
  <2> QED
    BY <1>2, <2>1, <2>2, <2>3, <2>4, <2>5, <2>6 DEF Mutate
<1>3. ASSUME NEW q \in Processes, Crash(q) PROVE Goal
  <2>1. p # q
    BY <1>3 DEF Crash
  <2>2. Quiet(p)' => Quiet(p)
    BY <1>3, <2>1 DEF Crash, Quiet
  <2> QED
    BY <1>3, <2>1, <2>2 DEF Crash, TypeOK
<1>4. ASSUME NEW q \in Servers, OpenRead(q) \/ OpenStat(q) PROVE Goal
  <2>1. Quiet(p)' => Quiet(p)
    BY <1>4 DEF OpenRead, OpenStat, actors, Quiet
  <2> QED
    BY <1>4, <2>1 DEF OpenRead, OpenStat, files, TypeOK
<1>5. CASE Delete \/ Tick \/ UNCHANGED vars
  BY <1>5 DEF Delete, Tick, vars, processes, actors, Quiet
<1> QED
  BY <1>1, <1>2, <1>3, <1>4, <1>5 DEF Next

LEMMA RecheckSteps ==
    ASSUME TypeOK, LockInv, [Next]_vars, NEW b \in Actors, pc'[b] = "recheck"
    PROVE  (pc[b] = "recheck" /\ call'[b] = call[b] /\ ~LookupRecheck(b)) \/ LookupStat(b)
<1> USE DEF TypeOK, Goto
<1>0. ~LookupRecheck(b)
  BY DEF LookupRecheck, Settled
<1>1. ASSUME NEW a \in Actors, Lookup(a) \/ Mutate(a), a # b PROVE pc[b] = "recheck" /\ call'[b] = call[b]
  BY <1>1, OthersStay
<1>2. ASSUME Lookup(b) \/ Mutate(b), ~LookupStat(b) PROVE FALSE
  BY <1>0, <1>2 DEF Lookup, LookupCall, LookupFresh, LookupStatFails, LookupReload,
     LookupReloadFails, LookupAnswer, Mutate, IssueCall, RevokeCall, MutateCall, MutateLock,
     MutateReload, MutateSave, MutateReloadFails, MutateSaveFails, RevokeNothing, MutateStamp,
     Release, Return, Settled
<1>3. ASSUME NEW p \in Processes, Crash(p) PROVE pc[b] = "recheck" /\ call'[b] = call[b]
  BY <1>3, CrashStays
<1>4. CASE (\E p \in Servers : OpenRead(p) \/ OpenStat(p)) \/ Delete \/ Tick \/ UNCHANGED vars
  BY <1>0, <1>4, Elsewhere
<1> QED
  BY <1>0, <1>1, <1>2, <1>3, <1>4 DEF Next

LEMMA AnswerSteps ==
    ASSUME TypeOK, LockInv, [Next]_vars, NEW b \in Actors, pc'[b] \in {"answer", "reload"}
    PROVE  /\ Home[b] \in Servers /\ call'[b].now = call[b].now
           /\ \/ pc[b] \in {"answer", "reload"}
              \/ Recent(b) /\ lastCheck'[Home[b]] = lastCheck[Home[b]]
              \/ lastCheck'[Home[b]] = call[b].now
<1> USE DEF TypeOK, Goto
<1> DEFINE Stays == pc[b] \in {"answer", "reload"} /\ call'[b].now = call[b].now
           Known == \/ Recent(b) /\ lastCheck'[Home[b]] = lastCheck[Home[b]]
                    \/ lastCheck'[Home[b]] = call[b].now
<1>1. ASSUME NEW a \in Actors, Lookup(a) \/ Mutate(a), a # b PROVE Stays
  BY <1>1, OthersStay
<1>2. CASE LookupFresh(b)
  <2>1. Recent(b) /\ pc[b] = "fresh" /\ UNCHANGED <<call, lastCheck>>
    BY <1>2 DEF LookupFresh, processes
  <2> QED
    BY <2>1 DEF LockInv, Looking
<1>3. CASE LookupStatFails(b)
  <2>1. call'[b].now = call[b].now /\ pc[b] = "stat"
    BY <1>3 DEF LookupStatFails, Settled
  <2>2. Home[b] \in Servers
    BY <2>1 DEF LockInv, Looking
  <2>3. lastCheck'[Home[b]] = IF Recent(b) THEN lastCheck[Home[b]] ELSE call[b].now
    BY <1>3, <2>2 DEF LookupStatFails
  <2> QED
    BY <2>1, <2>2, <2>3
<1>4. CASE LookupRecheck(b)
  <2>1. call'[b].now = call[b].now /\ pc[b] = "recheck"
    BY <1>4 DEF LookupRecheck, Settled
  <2>2. Home[b] \in Servers
    BY <2>1 DEF LockInv, Looking
  <2>3. Known
    BY <1>4, <2>2 DEF LookupRecheck
  <2> QED
    BY <2>1, <2>2, <2>3
<1>5. CASE LookupReload(b) \/ LookupReloadFails(b)
  BY <1>5 DEF LookupReload, LookupReloadFails, Settled, LockInv, Looking
<1>6. ASSUME LookupCall(b) \/ LookupStat(b) \/ LookupAnswer(b) \/ Mutate(b) PROVE FALSE
  BY <1>6 DEF LookupCall, LookupStat, LookupAnswer, Mutate, IssueCall, RevokeCall, MutateCall,
     MutateLock, MutateReload, MutateSave, MutateReloadFails, MutateSaveFails, RevokeNothing,
     MutateStamp, Release, Return
<1>7. ASSUME NEW p \in Processes, Crash(p) PROVE Stays
  BY <1>7, CrashStays
<1>8. CASE (\E p \in Servers : OpenRead(p) \/ OpenStat(p)) \/ Delete \/ Tick \/ UNCHANGED vars
  BY <1>8, Elsewhere DEF LockInv, Looking
<1>9. pc[b] # "idle" => (Looking(b) => Home[b] \in Servers)
  BY DEF LockInv
<1> QED
  BY <1>1, <1>2, <1>3, <1>4, <1>5, <1>6, <1>7, <1>8, <1>9 DEF Next, Lookup, Looking, LookupFresh

LEMMA AnswerNext == TypeOK /\ LockInv /\ TimeInv /\ AnswerInv /\ [Next]_vars => AnswerInv'
<1> SUFFICES ASSUME TypeOK, LockInv, TimeInv, AnswerInv, [Next]_vars,
                    NEW b \in Actors, pc'[b] \in {"answer", "reload"}
             PROVE  call'[b].now < lastCheck'[Home[b]] + TTL
  BY DEF AnswerInv
<1> DEFINE p == Home[b]
<1>1. p \in Servers /\ call'[b].now = call[b].now
  BY AnswerSteps
<1>2. /\ call[b].now \in Int /\ lastCheck[p] \in Int /\ clock \in Int /\ TTL \in Int /\ TTL > 0
      /\ \A a \in Actors : call[a].now \in Int
  BY <1>1, TimeAssumption DEF TypeOK
<1>3. CASE pc[b] \in {"answer", "reload"}
  <2>1. up'[p] # "down"
    BY <1>1, LockNext DEF LockInv, Up
  <2>2. lastCheck'[p] = lastCheck[p] \/ lastCheck'[p] = clock
           \/ (\E a \in Actors : lastCheck'[p] = call[a].now /\ call[a].now > lastCheck[p])
    BY <1>1, <2>1, CheckSteps
  <2>3. lastCheck[p] <= clock /\ call[b].now < lastCheck[p] + TTL
    BY <1>1, <1>3 DEF AnswerInv, TimeInv
  <2> QED
    BY <1>1, <1>2, <2>2, <2>3
<1>4. CASE Recent(b) /\ lastCheck'[p] = lastCheck[p]
  BY <1>1, <1>2, <1>4 DEF Recent
<1>5. CASE lastCheck'[p] = call[b].now
  BY <1>1, <1>2, <1>5
<1> QED
  BY <1>3, <1>4, <1>5, AnswerSteps

\* A table that nobody holds is not being reloaded.
LEMMA AloneQuiet == LockInv => \A a \in Actors : Alone(a) => Quiet(Home[a])
BY NoneAssumption DEF LockInv, Alone, Quiet

LEMMA LagNext == IInv /\ TimeInv /\ RecheckInv /\ LagInv /\ [Next]_vars => LagInv'
<1> SUFFICES ASSUME IInv, TimeInv, RecheckInv, LagInv, [Next]_vars,
                    NEW p \in Servers, Sighted(p)', Quiet(p)'
             PROVE  Lag(p, lastCheck[p])'
  BY DEF LagInv
<1> USE ProcessAssumption
<1>0. p \in Processes /\ lastCheck[p] \in Nat /\ lastCheck[p] <= clock /\ (\A a \in Actors : call[a].now \in Nat /\ call[a].now <= clock)
  BY TimeAssumption DEF IInv, TypeOK, TimeInv
<1>1. CASE Sighted(p) /\ Quiet(p) /\ mem'[p] = mem[p] /\ lastCheck'[p] = lastCheck[p]
  <2>1. Lag(p, lastCheck[p])
    BY <1>1 DEF LagInv
  <2>2. \A t \in Nat : t <= clock /\ Lag(p, t) => Lag(p, t)'
    BY <1>0, <1>1, LagKept DEF Lag
  <2> QED
    BY <1>0, <1>1, <2>1, <2>2 DEF Lag
<1>2. CASE mem'[p] = disk'
  BY <1>2 DEF Lag
<1>3. ASSUME NEW a \in Actors, LookupRecheck(a), Home[a] = p, Sighted(p) PROVE Lag(p, lastCheck[p])'
  <2>0. Quiet(p) /\ pc[a] = "recheck" /\ UNCHANGED <<disk, born, died>>
    BY <1>3, AloneQuiet DEF IInv, LookupRecheck, files, history
  <2>1. CASE Recent(a)
    BY <1>1, <1>3, <2>0, <2>1 DEF LookupRecheck
  <2>2. CASE ~Recent(a) /\ call[a].stat = 0
    <3>1. mem'[p] = Empty /\ lastCheck'[p] = call[a].now
      BY <1>0, <1>3, <2>2 DEF LookupRecheck, IInv, TypeOK
    <3>2. \A k \in Keys : disk[k] = "active" => born[k] >= call[a].now
      BY <2>0, <2>2 DEF RecheckInv
    <3> QED
      BY <2>0, <3>1, <3>2 DEF Lag, Empty
  <2>3. CASE ~Recent(a) /\ call[a].stat # 0 /\ call[a].stat = lastMod[p]
    <3>1. mem'[p] = mem[p] /\ lastCheck'[p] = call[a].now
      BY <1>0, <1>3, <2>3 DEF LookupRecheck, IInv, TypeOK
    <3>2. Lag(p, call[a].now)
      BY <1>3, <2>0, <2>3 DEF RecheckInv
    <3> QED
      BY <2>0, <3>1, <3>2 DEF Lag
  <2>4. CASE ~Recent(a) /\ call[a].stat # 0 /\ call[a].stat # lastMod[p]
    <3>1. pc'[a] = "reload"
      BY <1>3, <2>4 DEF LookupRecheck, Goto, IInv, TypeOK
    <3> QED
      BY <1>3, <3>1 DEF Quiet
  <2> QED
    BY <2>1, <2>2, <2>3, <2>4
<1>4. IInv => TypeOK /\ SyncInv
  BY DEF IInv
<1> QED
  BY <1>1, <1>2, <1>3, <1>4, ServerSteps

LEMMA RecheckNext == IInv /\ TimeInv /\ FileInv /\ NoticedInv /\ RecheckInv /\ [Next]_vars => RecheckInv'
<1> SUFFICES ASSUME IInv, TimeInv, FileInv, NoticedInv, RecheckInv, [Next]_vars,
                    NEW b \in Actors, pc'[b] = "recheck"
             PROVE  RecheckInv!(b)!2'
  BY DEF RecheckInv
<1> USE ProcessAssumption
<1> DEFINE p == Home[b]
           Seen == Sighted(p) /\ call[b].stat # 0 /\ call[b].stat = lastMod[p] => Lag(p, call[b].now)
           Unseen == call[b].stat = 0 => \A k \in Keys : disk[k] = "active" => born[k] >= call[b].now
<1>0. TypeOK /\ LockInv /\ SyncInv
  BY DEF IInv
<1>a. call[b].now \in Nat /\ call[b].now <= clock /\ clock \in Nat /\ p \in Processes
  BY TimeAssumption DEF IInv, TypeOK, TimeInv
<1>1. CASE LookupStat(b)
  <2>1. p \in Servers
    BY <1>0, <1>1 DEF LookupStat, LockInv, Looking
  <2>2. call'[b].stat = Stat /\ call'[b].now = call[b].now /\ UNCHANGED <<disk, present, writes, mem, up, blind, lastMod, born, died>>
    BY <1>0, <1>1 DEF LookupStat, TypeOK, files, processes, history
  <2>3. Seen'
    <3>1. SUFFICES ASSUME Sighted(p), Stat # 0, Stat = lastMod[p] PROVE mem[p] = disk
      BY <2>2 DEF Lag, Sighted
    <3>2. present
      BY <3>1 DEF Stat
    <3> QED
      BY <2>1, <3>1, <3>2 DEF NoticedInv, Noticed, Sighted
  <2>4. Unseen'
    BY <2>2 DEF FileInv, Stat, Empty, IInv, TypeOK
  <2> QED
    BY <2>3, <2>4
<1>2. CASE pc[b] = "recheck" /\ call'[b] = call[b] /\ ~LookupRecheck(b)
  <2>0. p \in Servers /\ Seen /\ Unseen
    BY <1>0, <1>2 DEF LockInv, Looking, RecheckInv
  <2>1. Seen'
    <3> SUFFICES ASSUME Sighted(p)', call[b].stat # 0, call[b].stat = lastMod'[p]
                 PROVE  Lag(p, call[b].now)'
      BY <1>2
    <3>1. CASE Sighted(p) /\ mem'[p] = mem[p] /\ lastMod'[p] = lastMod[p]
      <4>1. Lag(p, call[b].now)
        BY <2>0, <3>1
      <4>2. \A t \in Nat : t <= clock /\ Lag(p, t) => Lag(p, t)'
        BY <1>a, <3>1, LagKept DEF Lag
      <4> QED
        BY <1>2, <1>a, <4>1, <4>2 DEF Lag
    <3>2. CASE mem'[p] = disk'
      BY <3>2 DEF Lag
    <3>3. ASSUME NEW a \in Actors, LookupRecheck(a), Home[a] = p, Sighted(p) PROVE Lag(p, call[b].now)'
      <4>1. lastMod'[p] = 0 \/ (mem'[p] = mem[p] /\ lastMod'[p] = lastMod[p])
        BY <1>0, <2>0, <3>3 DEF LookupRecheck, TypeOK
      <4> QED
        BY <3>1, <3>3, <4>1
    <3> QED
      BY <1>0, <2>0, <3>1, <3>2, <3>3, ServerSteps
  <2>2. Unseen'
    <3>1. \A k \in Keys : born[k] \in Nat
      BY TimeAssumption DEF IInv, TypeOK, Never
    <3> QED
      BY <1>2, <1>a, <2>0, <3>1, DiskSteps
  <2> QED
    BY <2>1, <2>2
<1> QED
  BY <1>0, <1>1, <1>2, RecheckSteps

Timely ==
    /\ FileInv /\ NoticedInv /\ TimeInv /\ HistInv
    /\ LagInv /\ RecheckInv /\ AnswerInv

LEMMA AnswersInTime ==
    ASSUME IInv, Timely, NEW a \in Actors, LookupAnswer(a), ~blind[Home[a]], NEW k \in call[a].old
    PROVE  /\ Accepts(a) => died[k] + TTL > call[a].now
           /\ ~Accepts(a) => ~(born[k] + TTL <= call[a].now /\ disk[k] = "active")
<1> DEFINE p == Home[a]
<1>1. pc[a] = "answer" /\ Alone(a)
  BY DEF LookupAnswer
<1>2. p \in Servers /\ Sighted(p) /\ Quiet(p) /\ k \in Keys
  BY <1>1, AloneQuiet DEF IInv, LockInv, Looking, Up, Sighted, TypeOK
<1>3. Lag(p, lastCheck[p]) /\ call[a].now < lastCheck[p] + TTL
  BY <1>1, <1>2 DEF Timely, LagInv, AnswerInv
<1>4. Accepts(a) <=> mem[p][k] = "active"
  BY <1>1 DEF IInv, CallInv, Looking, Accepts, Table
<1>5. /\ call[a].now \in 0..MaxTime /\ lastCheck[p] \in Nat /\ TTL \in Nat /\ TTL > 0 /\ MaxTime \in Nat
      /\ died[k] \in Nat /\ born[k] \in Nat
  BY <1>2, TimeAssumption DEF IInv, TypeOK, Never
<1>6. disk[k] = "active" => died[k] = MaxTime + 1
  BY <1>2 DEF Timely, HistInv, Never
<1>7. /\ mem[p][k] = "active" /\ disk[k] # "active" => died[k] >= lastCheck[p]
      /\ mem[p][k] # "active" /\ disk[k] = "active" => born[k] >= lastCheck[p]
  BY <1>2, <1>3 DEF Lag
<1>8. Accepts(a) => died[k] + TTL > call[a].now
  BY <1>3, <1>4, <1>5, <1>6, <1>7
<1>9. ~Accepts(a) => ~(born[k] + TTL <= call[a].now /\ disk[k] = "active")
  BY <1>3, <1>4, <1>5, <1>7
<1> QED
  BY <1>8, <1>9

\* A server no fault has blinded answers a lookup by what keys.json said at most one
\* reload interval before: it accepts no key that ceased to be active, and rejects
\* none that is active, an interval or more before the lookup began (Lookup,
\* maybeReloadForLookup).
THEOREM InTime == Spec => LookupTimely
<1>1. Init => Timely
  <2> SUFFICES ASSUME Init PROVE Timely
    OBVIOUS
  <2>1. FileInv /\ NoticedInv
    BY DEF Init, FileInv, NoticedInv, Noticed
  <2>2. TimeInv /\ HistInv
    BY DEF Init, TimeInv, HistInv, NoCall
  <2>3. LagInv /\ RecheckInv /\ AnswerInv
    BY DEF Init, LagInv, Sighted, RecheckInv, AnswerInv
  <2> QED
    BY <2>1, <2>2, <2>3 DEF Timely
<1>2. IInv /\ Timely /\ [Next]_vars => Timely'
  <2> SUFFICES ASSUME IInv, Timely, [Next]_vars PROVE Timely'
    OBVIOUS
  <2>1. FileInv' /\ NoticedInv' /\ TimeInv' /\ HistInv'
    BY FileNext, NoticedNext, TimeNext, HistNext DEF IInv, Timely
  <2>2. LagInv' /\ RecheckInv' /\ AnswerInv'
    BY LagNext, RecheckNext, AnswerNext DEF IInv, Timely
  <2> QED
    BY <2>1, <2>2 DEF Timely
<1>3. IInv /\ Timely =>
        \A a \in Actors :
            (LookupAnswer(a) /\ ~blind[Home[a]])
                => \A k \in call[a].old :
                    /\ Accepts(a) => died[k] + TTL > call[a].now
                    /\ ~Accepts(a) => ~(born[k] + TTL <= call[a].now /\ disk[k] = "active")
  BY AnswersInTime
<1> QED
  BY <1>1, <1>2, <1>3, Invariant, PTL DEF Spec, LookupTimely

-----------------------------------------------------------------------------
(* No key comes back, and none comes from nowhere *)

\* A key that was issued once and is no longer active in keys.json never becomes
\* active there again: no process writes back a table it read before the revocation.
NoKeyReturns ==
    [][\A k \in Keys : born[k] # Never /\ disk[k] # "active" => disk'[k] # "active"]_vars

\* A table holds no active key that no save has put in keys.json, so a failed issue
\* leaves nothing behind that would authenticate.
IssuedOnly == \A p \in Processes, k \in Keys : mem[p][k] = "active" => born[k] # Never

LEMMA DeadStays ==
    ASSUME IInv, [Next]_vars, NEW k \in Keys, born[k] # Never, disk[k] # "active"
    PROVE  disk'[k] # "active"
<1>1. ASSUME NEW a \in Actors, MutateSave(a) PROVE disk'[k] # "active"
  <2>1. k \notin call[a].new
    BY <1>1 DEF IInv, FreshInv, MutateSave, Mutating
  <2> QED
    BY <1>1, <2>1, SaveEffect DEF IInv
<1>2. CASE Delete
  BY <1>2 DEF Delete, Empty
<1> QED
  BY <1>1, <1>2, FileSteps DEF IInv

\* No process, whatever it read and whenever it dies or fails, brings a revoked or
\* superseded key back into keys.json (issue, Revoke, saveLocked).
THEOREM KeysStayDead == Spec => NoKeyReturns
<1>1. IInv /\ [Next]_vars =>
        \A k \in Keys : born[k] # Never /\ disk[k] # "active" => disk'[k] # "active"
  BY DeadStays
<1> QED
  BY <1>1, Invariant, PTL DEF Spec, NoKeyReturns

\* What was issued stays issued.
LEMMA BornStays ==
    ASSUME IInv, [Next]_vars, NEW k \in Keys, born[k] # Never
    PROVE  born'[k] # Never
<1>1. clock # Never
  BY TimeAssumption DEF IInv, TypeOK, Never
<1>2. Never' = Never
  BY DEF Never
<1>3. ASSUME NEW a \in Actors, MutateSave(a) PROVE born'[k] # Never
  BY <1>1, <1>2, <1>3, SaveEffect DEF IInv
<1> QED
  BY <1>2, <1>3, FileSteps DEF IInv, Delete

LEMMA IssuedNext == IInv /\ IssuedOnly /\ [Next]_vars => IssuedOnly'
<1> SUFFICES ASSUME IInv, IssuedOnly, [Next]_vars,
                    NEW p \in Processes, NEW k \in Keys, mem'[p][k] = "active"
             PROVE  born'[k] # Never
  BY DEF IssuedOnly, Never
<1>1. TypeOK /\ FreshInv /\ FreshInv'
  BY InvNext DEF IInv
<1>2. mem'[p] \in {mem[p], disk, Empty, disk'}
  BY <1>1, TableSteps
<1>3. CASE mem'[p] = mem[p]
  BY <1>3, BornStays DEF IssuedOnly
<1>4. CASE mem'[p] = disk
  BY <1>1, <1>4, BornStays DEF FreshInv
<1>5. CASE mem'[p] = disk'
  BY <1>1, <1>5 DEF FreshInv, Never
<1> QED
  BY <1>2, <1>3, <1>4, <1>5 DEF Empty

\* A key authenticates with a process only after a save put it in keys.json: what a
\* failed issue or a crash leaves in a table is never a key of its own.
THEOREM Issued == Spec => []IssuedOnly
<1>1. Init => IssuedOnly
  BY DEF Init, IssuedOnly, Empty
<1> QED
  BY <1>1, IssuedNext, Invariant, PTL DEF Spec

-----------------------------------------------------------------------------
(* Nobody waits in a circle *)

MuWait == {"fresh", "recheck", "answer", "mu"}
FlockWait == {"reload", "flock"}
Holding == {"reload", "flock", "save", "stamp"}
Saving == {"save", "stamp"}

\* A lock is held by an actor past it, a process's s.mu by one of its own.
HoldInv ==
    \A a \in Actors :
        /\ \A p \in Processes : mu[p] = a => Home[a] = p /\ pc[a] \in Holding
        /\ flock = a => pc[a] \in Saving

\* When an actor can take the next step of its call, with every fault left out.
Moves(a) ==
    /\ pc[a] # "idle"
    /\ pc[a] \in MuWait => Alone(a)
    /\ pc[a] \in FlockWait => flock = None

\* b has the lock a is kept waiting for.
WaitsFor(a, b) ==
    \/ pc[a] \in MuWait /\ mu[Home[a]] = b
    \/ pc[a] \in FlockWait /\ flock = b

\* How far up the one order of the locks an actor is: s.mu, then the flock.
Rank(a) == IF pc[a] \in MuWait THEN 1 ELSE IF pc[a] \in FlockWait THEN 2 ELSE 3

\* An actor in a call can go on, or waits for one further up the order, still in a
\* call of its own.
WaitsInOrder ==
    \A a \in Actors :
        /\ \A b \in Actors : WaitsFor(a, b) => Rank(a) < Rank(b) /\ pc[b] # "idle"
        /\ pc[a] # "idle" => Moves(a) \/ \E b \in Actors : WaitsFor(a, b)

\* As long as a call is under way, in whatever process, some call can go on.
SomeoneMoves == (\E a \in Actors : pc[a] # "idle") => \E a \in Actors : Moves(a)

\* How a step of a call takes and leaves the locks.
LEMMA HolderSteps ==
    ASSUME TypeOK, LockInv, NEW a \in Actors, Lookup(a) \/ Mutate(a)
    PROVE  /\ \/ mu' = mu /\ (pc[a] \in Holding => pc'[a] \in Holding)
              \/ mu' = [mu EXCEPT ![Home[a]] = None]
              \/ mu' = [mu EXCEPT ![Home[a]] = a] /\ pc'[a] \in Holding
           /\ \/ flock' = flock /\ (pc[a] \in Saving => pc'[a] \in Saving)
              \/ flock' = None
              \/ flock' = a /\ pc'[a] \in Saving
<1> USE DEF TypeOK, Holding, Saving, Goto
<1>1. CASE LookupCall(a) \/ LookupFresh(a) \/ LookupStat(a) \/ LookupAnswer(a)
  BY <1>1 DEF LookupCall, LookupFresh, LookupStat, LookupAnswer
<1>2. CASE LookupStatFails(a)
  BY <1>2 DEF LookupStatFails
<1>3. CASE LookupRecheck(a)
  BY <1>3 DEF LookupRecheck
<1>4. CASE LookupReload(a) \/ LookupReloadFails(a)
  BY <1>4 DEF LookupReload, LookupReloadFails
<1>5. CASE IssueCall(a) \/ RevokeCall(a)
  BY <1>5 DEF IssueCall, RevokeCall, MutateCall
<1>6. CASE MutateLock(a) \/ MutateReload(a) \/ MutateSave(a)
  BY <1>6 DEF MutateLock, MutateReload, MutateSave
<1>7. CASE MutateReloadFails(a) \/ MutateSaveFails(a) \/ RevokeNothing(a) \/ MutateStamp(a)
  BY <1>7 DEF MutateReloadFails, MutateSaveFails, RevokeNothing, MutateStamp, Release, LockInv
<1> QED
  BY <1>1, <1>2, <1>3, <1>4, <1>5, <1>6, <1>7 DEF Lookup, Mutate

LEMMA HoldNext == TypeOK /\ LockInv /\ HoldInv /\ [Next]_vars => HoldInv'
<1> SUFFICES ASSUME TypeOK, LockInv, HoldInv, [Next]_vars, NEW b \in Actors
             PROVE  HoldInv!(b)'
  BY DEF HoldInv
<1> USE ProcessAssumption, NoneAssumption
<1>0. HoldInv!(b) /\ Home[b] \in Processes /\ b # None
  BY DEF HoldInv
<1>1. ASSUME NEW a \in Actors, Lookup(a) \/ Mutate(a) PROVE HoldInv!(b)'
  <2>1. b # a => pc'[b] = pc[b]
    BY <1>1, OthersStay
  <2>2. ASSUME NEW p \in Processes, mu'[p] = b PROVE Home[b] = p /\ pc'[b] \in Holding
    <3>1. CASE mu' = mu /\ (pc[a] \in Holding => pc'[a] \in Holding)
      BY <1>0, <2>1, <2>2, <3>1
    <3>2. CASE mu' = [mu EXCEPT ![Home[a]] = None]
      BY <1>0, <2>1, <2>2, <3>2 DEF TypeOK
    <3>3. CASE mu' = [mu EXCEPT ![Home[a]] = a] /\ pc'[a] \in Holding
      BY <1>0, <2>1, <2>2, <3>3 DEF TypeOK
    <3> QED
      BY <1>1, <3>1, <3>2, <3>3, HolderSteps
  <2>3. ASSUME flock' = b PROVE pc'[b] \in Saving
    BY <1>0, <1>1, <2>1, <2>3, HolderSteps
  <2> QED
    BY <2>2, <2>3
<1>2. ASSUME NEW q \in Processes, Crash(q) PROVE HoldInv!(b)'
  <2>1. ASSUME NEW p \in Processes, mu'[p] = b PROVE p # q /\ mu[p] = b
    BY <1>0, <1>2, <2>1 DEF Crash, TypeOK
  <2>2. ASSUME flock' = b PROVE Home[b] # q /\ flock = b
    BY <1>0, <1>2, <2>2 DEF Crash
  <2> QED
    BY <1>0, <1>2, <2>1, <2>2, CrashStays
<1>3. CASE (\E p \in Servers : OpenRead(p) \/ OpenStat(p)) \/ Delete \/ Tick \/ UNCHANGED vars
  BY <1>0, <1>3, Elsewhere
<1> QED
  BY <1>1, <1>2, <1>3 DEF Next

LEMMA HoldAlways == Spec => []HoldInv
<1>1. Init => HoldInv
  BY NoneAssumption, ProcessAssumption DEF Init, HoldInv
<1>2. IInv => TypeOK /\ LockInv
  BY DEF IInv
<1> QED
  BY <1>1, <1>2, HoldNext, Invariant, PTL DEF Spec

LEMMA WaitsUp ==
    ASSUME TypeOK, HoldInv, NEW a \in Actors, NEW b \in Actors, WaitsFor(a, b)
    PROVE  Rank(a) < Rank(b) /\ pc[b] # "idle"
<1> USE DEF Rank, MuWait, FlockWait
<1>1. CASE pc[a] \in MuWait /\ mu[Home[a]] = b
  <2>1. pc[b] \in Holding
    BY <1>1, ProcessAssumption DEF HoldInv
  <2> QED
    BY <1>1, <2>1 DEF Holding
<1>2. CASE pc[a] \in FlockWait /\ flock = b
  <2>1. pc[b] \in Saving
    BY <1>2 DEF HoldInv
  <2> QED
    BY <1>2, <2>1 DEF Saving
<1> QED
  BY <1>1, <1>2 DEF WaitsFor

LEMMA WaitsForSomeone ==
    ASSUME TypeOK, NEW a \in Actors, pc[a] # "idle", ~Moves(a)
    PROVE  \E b \in Actors : WaitsFor(a, b)
BY ProcessAssumption DEF TypeOK, Moves, WaitsFor, Alone

\* No deadlock over the two locks, for any number of processes and requests: whoever
\* waits for s.mu or for the flock waits for a call that is further along in their one
\* order and has not ended, and a lock never outlives its holder (issue, Revoke,
\* maybeReloadForLookup, withFileLock).
THEOREM NoWaitCycle == Spec => []WaitsInOrder
<1>1. IInv /\ HoldInv => WaitsInOrder
  BY WaitsUp, WaitsForSomeone DEF IInv, WaitsInOrder
<1> QED
  BY <1>1, Invariant, HoldAlways, PTL

\* While any call is under way, some call can take its next step, with no fault to
\* free it: the processes are never all kept waiting by each other.
THEOREM NeverStuck == Spec => []SomeoneMoves
<1>1. IInv /\ HoldInv => SomeoneMoves
  <2> SUFFICES ASSUME TypeOK, HoldInv, NEW a \in Actors, pc[a] # "idle"
               PROVE  \E b \in Actors : Moves(b)
    BY DEF IInv, SomeoneMoves
  <2>1. \A b \in Actors : pc[b] \in Saving => Moves(b)
    BY DEF Saving, Moves, MuWait, FlockWait
  <2>2. ASSUME NEW b \in Actors, pc[b] \in Holding PROVE \E c \in Actors : Moves(c)
    <3>1. CASE flock = None
      BY <2>2, <3>1 DEF Holding, Moves, MuWait, FlockWait
    <3>2. CASE flock \in Actors
      BY <2>1, <3>2 DEF HoldInv
    <3> QED
      BY <3>1, <3>2 DEF TypeOK
  <2>3. CASE Moves(a)
    BY <2>3
  <2>4. ASSUME NEW b \in Actors, WaitsFor(a, b) PROVE \E c \in Actors : Moves(c)
    <3>1. pc[b] \in Holding \/ pc[b] \in Saving
      BY <2>4, ProcessAssumption DEF WaitsFor, HoldInv
    <3> QED
      BY <2>1, <2>2, <3>1
  <2> QED
    BY <2>3, <2>4, WaitsForSomeone
<1> QED
  BY <1>1, Invariant, HoldAlways, PTL

=============================================================================
