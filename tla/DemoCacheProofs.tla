--------------------------- MODULE DemoCacheProofs ---------------------------
(***************************************************************************)
(* DemoCache, proved for any finite set of requests, any demos, any limits  *)
(* and any mix of failures.                                                *)
(***************************************************************************)
EXTENDS DemoCache, LruProofs, FiniteSetTheorems

\* Where each lock is held from the step after it is taken to the unlock.
LosSection == {"losCheck", "losSplice", "losAcquire", "losBuild", "losStore", "losRelease",
               "losUnlock", "pageCopy"}
PageSection == {"pageAgain", "pageLosLock", "pageCopy", "pageAcquire", "pagePut",
                "pageRelease", "pageUnlock"}
PackSection == {"packRead", "packAcquire", "packWrite", "packRelease", "packUnlock"}

\* The steps of GetResult.
Getting == Leading \cup {"resolve", "stash", "enter", "wait", "close", "memPut"}

\* The operations' own steps are reached by their own requests only.
PathInv ==
    \A r \in Requests :
        /\ pc[r] \in {"losLock", "losCheck", "losSplice", "losAcquire", "losBuild",
                      "losStore", "losRelease", "losUnlock"} => Op(r) = "los"
        /\ pc[r] \in PageSection \cup {"pageGet", "pageLock"} => Op(r) = "page"
        /\ pc[r] \in PackSection \cup {"packLock"} => Op(r) \in {"pack", "warm"}
        /\ pc[r] \in {"putWrite", "rmTier1", "rmTier2", "rmMem", "rmPages"} => Op(r) = "upload"
        /\ pc[r] = "memPut" => Op(r) # "warm"

\* inflight names, for each demo, the one request inside its flight.
LeadInv ==
    /\ \A r \in Requests : pc[r] \in Leading <=> inflight[Sha(r)] = r
    /\ \A s \in Shas : inflight[s] # None => Sha(inflight[s]) = s

\* The semaphore's holders are exactly the requests at heavy work.
SlotInv ==
    /\ slots = {r \in Requests : pc[r] \in Heavy}
    /\ Cardinality(slots) <= MaxParses

LosLockInv ==
    \A r \in Requests, s \in Shas :
        lock["los"][s] = r <=> pc[r] \in LosSection /\ s = Sha(r)

PageLockInv ==
    \A r \in Requests, s \in Shas :
        lock["page"][s] = r <=> pc[r] \in PageSection /\ s = Sha(r)

\* PositionPack keeps its lock through GetResult.
PackLockInv ==
    \A r \in Requests, s \in Shas :
        lock["pack"][s] = r =>
            s = Sha(r) /\ (pc[r] \in PackSection \/ (Op(r) = "pack" /\ pc[r] \in Getting))

\* Who works on a Result has one, of its own demo; only the request that hung
\* up is told so.
HasResult == {"memPut", "viewRead", "losLock", "losCheck", "losSplice", "losAcquire",
              "losBuild", "losStore", "pageGet", "pageLock", "pageAgain", "pageLosLock", "pageCopy",
              "pageAcquire", "pagePut"}
ResInv ==
    \A r \in Requests :
        /\ pc[r] \in HasResult => res[r] \in Requests
        /\ res[r] \in Requests => Sha(res[r]) = Sha(r)
        /\ Op(r) = "get" /\ pc[r] = "done" => res[r] # None
        /\ res[r] = "canceled" => r \in gone

\* A flight settles before it closes, and never with its leader's hang-up.
EntryInv ==
    \A r \in Requests :
        /\ pc[r] \in {"tier2Write", "release", "retire", "close"} \/ r \in closed =>
              entry[r] # None
        /\ entry[r] \in Requests => Sha(entry[r]) = Sha(r)
        /\ entry[r] # "canceled"

\* Who waits, waits on a flight of its own demo that is closed or still moving.
WaitInv ==
    \A r \in Requests :
        /\ waitsOn[r] \in Requests => Sha(waitsOn[r]) = Sha(r)
        /\ pc[r] = "wait" =>
              /\ waitsOn[r] \in Requests
              /\ waitsOn[r] \in closed \/ pc[waitsOn[r]] \in Leading \cup {"close"}

\* A Result about to get its intervals has none yet.
FreshInv ==
    \A r \in Requests :
        pc[r] \in {"losSplice", "losAcquire", "losBuild"} => res[r] \notin computed

\* Each LRU holds Results of the demo they are filed under.
OwnInv ==
    /\ \A i \in 1..Len(mem) : Sha(mem[i].val) = mem[i].key
    /\ \A i \in 1..Len(pages) : Sha(pages[i].val) = pages[i].key

\* A flight past the tier-2 read found none, and only it can write one.
MissInv ==
    "decode" \notin Faults =>
        \A r \in Requests :
            pc[r] \in {"acquire", "tier1", "hubResolve", "download", "parse"} =>
                ~OnDisk("tier2", Sha(r))

IInv ==
    /\ TypeOK
    /\ PathInv
    /\ LeadInv
    /\ SlotInv
    /\ LosLockInv
    /\ PageLockInv
    /\ PackLockInv
    /\ ResInv
    /\ EntryInv
    /\ WaitInv
    /\ FreshInv
    /\ OwnInv
    /\ MissInv
    /\ MemHoldsVisitedOnly
    /\ LrusWellFormed
    /\ VerifiedPackIsSound

\* The steps of a request, expanded in every proof about one.
USE DEF Step, Keep, Settle, Locked, Unlocked, AcquireLive, ReleaseSlot, PageLookup, RemoveFile,
        flight, memory, local,
        Arrive, PutWrite, ResolveLocally, ResolveByHub, Stash, AfterResolve, AfterError,
        Lead, Follow, Await, Retire, Close, MemPut, ViewRead, AfterFlight,
        AfterGetResult,
        Load, Drain, MemGet, ReadTier2, AcquireParse, ReadTier1, ResolveDownload, Download,
        Parse, WriteTier2, ReleaseParse,
        EnsureLOS, LosLock, LosCheck, LosSplice, LosAcquire, LosBuild, LosStore, LosRelease,
        LosUnlock,
        PageResult, PageGet, PageLock, PageAgain, PageLosLock, PageCopied, PageAcquire, PagePut,
        PageRelease, PageUnlock, HubErrors,
        PositionPack, PackLock, PackRead, PackAcquire, PackWrite, PackRelease, PackUnlock,
        RemoveDemo, RemoveTier1, RemoveTier2, RemoveMem, RemovePages

-----------------------------------------------------------------------------
(* What every step of a proof needs: types without the sequences, and that  *)
(* a request's operation and demo never change.                            *)

\* The types of what the control depends on.
LEMMA Types ==
    ASSUME IInv
    PROVE  /\ pc \in [Requests -> Pcs]
           /\ res \in [Requests -> Requests \cup Errors \cup {None}]
           /\ waitsOn \in [Requests -> Requests \cup {None}]
           /\ inflight \in [Shas -> Requests \cup {None}]
           /\ entry \in [Requests -> Requests \cup Errors \cup {None}]
           /\ lock \in [Locks -> [Shas -> Requests \cup {None}]]
           /\ disk \in [Tiers -> SUBSET Shas]
           /\ \A r \in Requests : Sha(r) \in Shas
BY JobsAssumption DEF IInv, TypeOK, Sha

\* What a request is, it stays.
LEMMA JobsKept ==
    ASSUME NEW r \in Requests, Serve(r)
    PROVE  job' = job
BY DEF Serve, GetResult

\* A Result the LRU has for a demo is that demo's.
LEMMA MemValue ==
    ASSUME IInv, NEW s, Holds(mem, s)
    PROVE  Value(mem, s) \in Requests /\ Sha(Value(mem, s)) = s
<1> DEFINE p == Position(mem, s)
<1>1. p \in 1..Len(mem) /\ mem[p].key = s
  BY PositionHolds
<1>2. mem[p].val \in Requests
  <2>1. mem \in Seq(Item(Shas, Requests))
    BY DEF IInv, TypeOK, Item
  <2>2. mem[p] \in Item(Shas, Requests)
    BY <1>1, <2>1
  <2>3. QED
    BY <2>2 DEF Item
<1>3. Sha(mem[p].val) = mem[p].key
  BY <1>1 DEF IInv, OwnInv
<1>4. QED
  BY <1>1, <1>2, <1>3 DEF Value

-----------------------------------------------------------------------------
(* One lemma per part of IInv: a request's step keeps it. *)

\* An operation's own steps stay with its requests.
LEMMA PathKept ==
    ASSUME IInv, NEW r \in Requests, Serve(r)
    PROVE  PathInv'
<1>1. PathInv /\ PackLockInv
  BY DEF IInv
<1>2. /\ pc \in [Requests -> Pcs]
      /\ \A q \in Requests : Sha(q) \in Shas
  BY Types
<1>3. job' = job
  BY JobsKept
<1>4. QED
  BY <1>1, <1>2, <1>3 DEF Serve, GetResult, PathInv, PackLockInv, PageSection, PackSection,
    HoldsPackLock, Op

\* inflight follows the leaders in and out of their flights.
LEMMA LeadKept ==
    ASSUME IInv, NEW r \in Requests, Serve(r)
    PROVE  LeadInv'
<1>1. LeadInv
  BY DEF IInv
<1>2. /\ pc \in [Requests -> Pcs]
      /\ inflight \in [Shas -> Requests \cup {None}]
      /\ \A q \in Requests : Sha(q) \in Shas
  BY Types
<1>3. job' = job
  BY JobsKept
<1>4. CASE Lead(r) \/ Follow(r) \/ Await(r) \/ Retire(r) \/ Close(r) \/ MemPut(r) \/
       ViewRead(r)
  BY <1>1, <1>2, <1>3, <1>4, RequestsAssumption DEF LeadInv, Leading, Sha
<1>5. CASE Load(r)
  BY <1>1, <1>2, <1>3, <1>5, RequestsAssumption DEF LeadInv, Leading, Sha
<1>6. CASE Arrive(r) \/ PutWrite(r) \/ ResolveLocally(r) \/ ResolveByHub(r) \/ Stash(r) \/
       EnsureLOS(r) \/ PageResult(r) \/ PositionPack(r) \/ RemoveDemo(r)
  BY <1>1, <1>2, <1>3, <1>6, RequestsAssumption DEF LeadInv, Leading, Sha
<1>7. QED
  BY <1>4, <1>5, <1>6 DEF Serve, GetResult

\* The LOS lock is taken and given back where its section begins and ends.
LEMMA LosLockKept ==
    ASSUME IInv, NEW r \in Requests, Serve(r)
    PROVE  LosLockInv'
<1>1. LosLockInv
  BY DEF IInv
<1>2. /\ pc \in [Requests -> Pcs]
      /\ lock \in [Locks -> [Shas -> Requests \cup {None}]]
      /\ \A q \in Requests : Sha(q) \in Shas
  BY Types
<1>3. job' = job
  BY JobsKept
<1>4. CASE EnsureLOS(r)
  BY <1>1, <1>2, <1>3, <1>4, RequestsAssumption DEF LosLockInv, LosSection, Locks, Sha,
    TakeLock, FreeLock
<1>5. CASE PageResult(r)
  BY <1>1, <1>2, <1>3, <1>5, RequestsAssumption DEF LosLockInv, LosSection, Locks, Sha,
    TakeLock, FreeLock
<1>6. CASE Arrive(r) \/ PutWrite(r) \/ ResolveLocally(r) \/ ResolveByHub(r) \/ Stash(r) \/
       Lead(r) \/ Follow(r) \/ Await(r) \/ Retire(r) \/ Close(r) \/ MemPut(r) \/ ViewRead(r) \/
       Load(r) \/ PositionPack(r) \/ RemoveDemo(r)
  BY <1>1, <1>2, <1>3, <1>6, RequestsAssumption DEF LosLockInv, LosSection, Locks, Sha,
    TakeLock, FreeLock
<1>7. QED
  BY <1>4, <1>5, <1>6 DEF Serve, GetResult

\* So is the page lock.
LEMMA PageLockKept ==
    ASSUME IInv, NEW r \in Requests, Serve(r)
    PROVE  PageLockInv'
<1>1. PageLockInv
  BY DEF IInv
<1>2. /\ pc \in [Requests -> Pcs]
      /\ lock \in [Locks -> [Shas -> Requests \cup {None}]]
      /\ \A q \in Requests : Sha(q) \in Shas
  BY Types
<1>3. job' = job
  BY JobsKept
<1>4. CASE PageResult(r)
  BY <1>1, <1>2, <1>3, <1>4, RequestsAssumption DEF PageLockInv, PageSection, Locks, Sha,
    TakeLock, FreeLock
<1>5. CASE Arrive(r) \/ PutWrite(r) \/ ResolveLocally(r) \/ ResolveByHub(r) \/ Stash(r) \/
       Lead(r) \/ Follow(r) \/ Await(r) \/ Retire(r) \/ Close(r) \/ MemPut(r) \/ ViewRead(r) \/
       Load(r) \/ EnsureLOS(r) \/ PositionPack(r) \/ RemoveDemo(r)
  BY <1>1, <1>2, <1>3, <1>5, RequestsAssumption DEF PageLockInv, PageSection, Locks, Sha,
    TakeLock, FreeLock
<1>6. QED
  BY <1>4, <1>5 DEF Serve, GetResult

\* PositionPack's lock outlives every way through GetResult but its own unlock.
LEMMA PackLockKept ==
    ASSUME IInv, NEW r \in Requests, Serve(r)
    PROVE  PackLockInv'
<1>1. PackLockInv
  BY DEF IInv
<1>2. PathInv
  BY DEF IInv
<1>3. /\ pc \in [Requests -> Pcs]
      /\ lock \in [Locks -> [Shas -> Requests \cup {None}]]
      /\ \A q \in Requests : Sha(q) \in Shas
  BY Types
<1>4. job' = job
  BY JobsKept
<1>5. CASE Arrive(r) \/ PutWrite(r) \/ ResolveLocally(r) \/ ResolveByHub(r) \/ Stash(r)
  BY <1>1, <1>2, <1>3, <1>4, <1>5, RequestsAssumption DEF PackLockInv, PackSection,
    Getting, Leading, HoldsPackLock, Locks, Sha, Op, TakeLock, FreeLock, PathInv,
    PageSection
<1>6. CASE Lead(r) \/ Follow(r) \/ Await(r) \/ Retire(r) \/ Close(r) \/ MemPut(r) \/
       ViewRead(r)
  BY <1>1, <1>2, <1>3, <1>4, <1>6, RequestsAssumption DEF PackLockInv, PackSection,
    Getting, Leading, HoldsPackLock, Locks, Sha, Op, TakeLock, FreeLock, PathInv,
    PageSection
<1>7. CASE PositionPack(r)
  BY <1>1, <1>2, <1>3, <1>4, <1>7, RequestsAssumption DEF PackLockInv, PackSection,
    Getting, Leading, HoldsPackLock, Locks, Sha, Op, TakeLock, FreeLock, PathInv,
    PageSection
<1>8. CASE Load(r) \/ EnsureLOS(r) \/ PageResult(r) \/ RemoveDemo(r)
  BY <1>1, <1>2, <1>3, <1>4, <1>8, RequestsAssumption DEF PackLockInv, PackSection,
    Getting, Leading, HoldsPackLock, Locks, Sha, Op, TakeLock, FreeLock, PathInv,
    PageSection
<1>9. QED
  BY <1>5, <1>6, <1>7, <1>8 DEF Serve, GetResult

\* A follower's leader is on its way to close.
LEMMA WaitKept ==
    ASSUME IInv, NEW r \in Requests, Serve(r)
    PROVE  WaitInv'
<1>1. WaitInv /\ LeadInv
  BY DEF IInv
<1>2. /\ pc \in [Requests -> Pcs]
      /\ waitsOn \in [Requests -> Requests \cup {None}]
      /\ inflight \in [Shas -> Requests \cup {None}]
      /\ \A q \in Requests : Sha(q) \in Shas
  BY Types
<1>3. job' = job
  BY JobsKept
<1>4. CASE Lead(r) \/ Follow(r) \/ Await(r) \/ Retire(r) \/ Close(r) \/ MemPut(r) \/
       ViewRead(r)
  BY <1>1, <1>2, <1>3, <1>4, RequestsAssumption DEF WaitInv, LeadInv, Leading, Sha
<1>5. CASE Load(r)
  BY <1>1, <1>2, <1>3, <1>5, RequestsAssumption DEF WaitInv, LeadInv, Leading, Sha
<1>6. CASE Arrive(r) \/ PutWrite(r) \/ ResolveLocally(r) \/ ResolveByHub(r) \/ Stash(r) \/
       EnsureLOS(r) \/ PageResult(r) \/ PositionPack(r) \/ RemoveDemo(r)
  BY <1>1, <1>2, <1>3, <1>6, RequestsAssumption DEF WaitInv, LeadInv, Leading, Sha
<1>7. QED
  BY <1>4, <1>5, <1>6 DEF Serve, GetResult

\* A flight settles with its leader's own outcome, never with nothing.
LEMMA EntryKept ==
    ASSUME IInv, NEW r \in Requests, Serve(r)
    PROVE  EntryInv'
<1>1. EntryInv /\ OwnInv
  BY DEF IInv
<1>2. /\ pc \in [Requests -> Pcs]
      /\ entry \in [Requests -> Requests \cup Errors \cup {None}]
      /\ \A q \in Requests : Sha(q) \in Shas
  BY Types
<1>3. job' = job
  BY JobsKept
<1>4. CASE Lead(r) \/ Follow(r) \/ Await(r) \/ Retire(r) \/ Close(r) \/ MemPut(r) \/
       ViewRead(r)
  BY <1>1, <1>2, <1>3, <1>4, RequestsAssumption DEF EntryInv, Sha, Errors
<1>5. CASE Load(r)
  <2>1. Holds(mem, Sha(r)) => Value(mem, Sha(r)) \in Requests /\ Sha(Value(mem, Sha(r))) = Sha(r)
    BY MemValue
  <2>2. QED
    BY <1>1, <1>2, <1>3, <1>5, <2>1, RequestsAssumption DEF EntryInv, Sha, Errors
<1>6. CASE Arrive(r) \/ PutWrite(r) \/ ResolveLocally(r) \/ ResolveByHub(r) \/ Stash(r) \/
       EnsureLOS(r) \/ PageResult(r) \/ PositionPack(r) \/ RemoveDemo(r)
  BY <1>1, <1>2, <1>3, <1>6, RequestsAssumption DEF EntryInv, Sha, Errors
<1>7. QED
  BY <1>4, <1>5, <1>6 DEF Serve, GetResult

\* What a request has is its flight's outcome, or an error of its own.
LEMMA ResKept ==
    ASSUME IInv, NEW r \in Requests, Serve(r)
    PROVE  ResInv'
<1>1. ResInv /\ EntryInv /\ PathInv /\ WaitInv
  BY DEF IInv
<1>2. /\ pc \in [Requests -> Pcs]
      /\ res \in [Requests -> Requests \cup Errors \cup {None}]
      /\ entry \in [Requests -> Requests \cup Errors \cup {None}]
      /\ \A q \in Requests : Sha(q) \in Shas
  BY Types
<1>3. job' = job
  BY JobsKept
<1>4. CASE Arrive(r) \/ PutWrite(r) \/ ResolveLocally(r) \/ ResolveByHub(r) \/ Stash(r)
  BY <1>1, <1>2, <1>3, <1>4, RequestsAssumption DEF ResInv, EntryInv, WaitInv, PathInv,
    PageSection, PackSection, HasResult, Sha, Op, Failed, Errors
<1>5. CASE Lead(r) \/ Follow(r) \/ Await(r) \/ Retire(r) \/ Close(r) \/ MemPut(r) \/
       ViewRead(r)
  BY <1>1, <1>2, <1>3, <1>5, RequestsAssumption DEF ResInv, EntryInv, WaitInv, PathInv,
    PageSection, PackSection, HasResult, Sha, Op, Failed, Errors
<1>6. CASE EnsureLOS(r)
  BY <1>1, <1>2, <1>3, <1>6, RequestsAssumption DEF ResInv, EntryInv, WaitInv, PathInv,
    PageSection, PackSection, HasResult, Sha, Op, Failed, Errors
<1>7. CASE PageResult(r)
  BY <1>1, <1>2, <1>3, <1>7, RequestsAssumption DEF ResInv, EntryInv, WaitInv, PathInv,
    PageSection, PackSection, HasResult, Sha, Op, Failed, Errors
<1>8. CASE PositionPack(r)
  BY <1>1, <1>2, <1>3, <1>8, RequestsAssumption DEF ResInv, EntryInv, WaitInv, PathInv,
    PageSection, PackSection, HasResult, Sha, Op, Failed, Errors
<1>9. CASE Load(r) \/ RemoveDemo(r)
  BY <1>1, <1>2, <1>3, <1>9, RequestsAssumption DEF ResInv, EntryInv, WaitInv, PathInv,
    PageSection, PackSection, HasResult, Sha, Op, Failed, Errors
<1>10. QED
  BY <1>4, <1>5, <1>6, <1>7, <1>8, <1>9 DEF Serve, GetResult

\* Nobody else marks a Result that somebody is about to mark.
LEMMA FreshKept ==
    ASSUME IInv, NEW r \in Requests, Serve(r)
    PROVE  FreshInv'
<1>1. FreshInv /\ LosLockInv /\ ResInv
  BY DEF IInv
<1>2. /\ pc \in [Requests -> Pcs]
      /\ res \in [Requests -> Requests \cup Errors \cup {None}]
      /\ lock \in [Locks -> [Shas -> Requests \cup {None}]]
      /\ \A q \in Requests : Sha(q) \in Shas
  BY Types
<1>3. job' = job
  BY JobsKept
<1>4. CASE Lead(r) \/ Follow(r) \/ Await(r) \/ Retire(r) \/ Close(r) \/ MemPut(r) \/
       ViewRead(r)
  BY <1>1, <1>2, <1>3, <1>4, RequestsAssumption DEF FreshInv, LosLockInv, LosSection,
    ResInv, HasResult, Sha
<1>5. CASE EnsureLOS(r)
  BY <1>1, <1>2, <1>3, <1>5, RequestsAssumption DEF FreshInv, LosLockInv, LosSection,
    ResInv, HasResult, Sha
<1>6. CASE Arrive(r) \/ PutWrite(r) \/ ResolveLocally(r) \/ ResolveByHub(r) \/ Stash(r) \/
       Load(r) \/ PageResult(r) \/ PositionPack(r) \/ RemoveDemo(r)
  BY <1>1, <1>2, <1>3, <1>6, RequestsAssumption DEF FreshInv, LosLockInv, LosSection,
    ResInv, HasResult, Sha
<1>7. QED
  BY <1>4, <1>5, <1>6 DEF Serve, GetResult

\* Only the flight that missed in tier 2 writes there.
LEMMA MissKept ==
    ASSUME IInv, NEW r \in Requests, Serve(r)
    PROVE  MissInv'
<1>1. MissInv /\ LeadInv
  BY DEF IInv
<1>2. /\ pc \in [Requests -> Pcs]
      /\ inflight \in [Shas -> Requests \cup {None}]
      /\ disk \in [Tiers -> SUBSET Shas]
      /\ \A q \in Requests : Sha(q) \in Shas
  BY Types
<1>3. job' = job
  BY JobsKept
<1>4. CASE Load(r)
  BY <1>1, <1>2, <1>3, <1>4, RequestsAssumption DEF MissInv, LeadInv, Leading, Tiers,
    OnDisk, Written, Removed, BestEffortWrite, Fault, Sha
<1>5. CASE Arrive(r) \/ PutWrite(r) \/ ResolveLocally(r) \/ ResolveByHub(r) \/ Stash(r) \/
       Lead(r) \/ Follow(r) \/ Await(r) \/ Retire(r) \/ Close(r) \/ MemPut(r) \/ ViewRead(r) \/
       EnsureLOS(r) \/ PageResult(r) \/ PositionPack(r) \/ RemoveDemo(r)
  BY <1>1, <1>2, <1>3, <1>5, RequestsAssumption DEF MissInv, LeadInv, Leading, Tiers,
    OnDisk, Written, Removed, BestEffortWrite, Fault, Sha
<1>6. QED
  BY <1>4, <1>5 DEF Serve, GetResult

\* A slot is taken where heavy work begins and freed where it ends.
LEMMA SlotsKept ==
    ASSUME IInv, NEW r \in Requests, Serve(r)
    PROVE  slots' = {q \in Requests : pc[q] \in Heavy}'
<1>1. SlotInv
  BY DEF IInv
<1>2. pc \in [Requests -> Pcs]
  BY Types
<1>3. CASE Load(r)
  BY <1>1, <1>2, <1>3 DEF SlotInv, Heavy, TakeSlot, FreeSlot
<1>4. CASE EnsureLOS(r)
  BY <1>1, <1>2, <1>4 DEF SlotInv, Heavy, TakeSlot, FreeSlot
<1>5. CASE PageResult(r)
  BY <1>1, <1>2, <1>5 DEF SlotInv, Heavy, TakeSlot, FreeSlot
<1>6. CASE PositionPack(r)
  BY <1>1, <1>2, <1>6 DEF SlotInv, Heavy, TakeSlot, FreeSlot
<1>7. CASE Arrive(r) \/ PutWrite(r) \/ ResolveLocally(r) \/ ResolveByHub(r) \/ Stash(r) \/
       Lead(r) \/ Follow(r) \/ Await(r) \/ Retire(r) \/ Close(r) \/ MemPut(r) \/ ViewRead(r) \/
       RemoveDemo(r)
  BY <1>1, <1>2, <1>7 DEF SlotInv, Heavy, TakeSlot, FreeSlot
<1>8. QED
  BY <1>3, <1>4, <1>5, <1>6, <1>7 DEF Serve, GetResult

\* Only a free slot is taken.
LEMMA SlotSteps ==
    ASSUME IInv, NEW r \in Requests, Serve(r)
    PROVE  \/ slots' = slots
           \/ Cardinality(slots) < MaxParses /\ slots' = slots \cup {r}
           \/ slots' = slots \ {r}
BY DEF Serve, GetResult, TakeSlot, FreeSlot

\* No request loses its answer.
LEMMA AnswerStays ==
    ASSUME IInv, NEW r \in Requests, Serve(r)
    PROVE  \A q \in Requests : res[q] # None => res[q]' # None
<1>1. EntryInv /\ WaitInv
  BY DEF IInv
<1>2. /\ pc \in [Requests -> Pcs]
      /\ res \in [Requests -> Requests \cup Errors \cup {None}]
      /\ entry \in [Requests -> Requests \cup Errors \cup {None}]
  BY Types
<1>3. QED
  BY <1>1, <1>2, RequestsAssumption DEF Serve, GetResult, EntryInv, WaitInv, Errors

\* What a step may do to the LRU of Results.
LEMMA MemSteps ==
    ASSUME IInv, NEW r \in Requests, Serve(r)
    PROVE  \/ mem' = mem \/ mem' = Touched(mem, Sha(r)) \/ mem' = Delete(mem, Sha(r))
           \/ pc[r] = "memPut" /\ mem' = Put(mem, Sha(r), res[r], MemoryLRU)
BY DEF Serve, GetResult, Sha

\* What a step may do to the LRU of pages.
LEMMA PagesSteps ==
    ASSUME IInv, NEW r \in Requests, Serve(r)
    PROVE  \/ pages' = pages \/ pages' = Touched(pages, Sha(r)) \/ pages' = Delete(pages, Sha(r))
           \/ pc[r] = "pagePut" /\ pages' = Put(pages, Sha(r), res[r], PageLRU)
BY DEF Serve, GetResult, Sha

\* A pack is taken as checked when it is sound.
LEMMA PackKept ==
    ASSUME IInv, NEW r \in Requests, Serve(r)
    PROVE  VerifiedPackIsSound'
<1>1. VerifiedPackIsSound
  BY DEF IInv
<1>2. QED
  BY <1>1 DEF Serve, GetResult, VerifiedPackIsSound

\* A step of an LRU that puts nothing in keeps what it holds and its shape.
LEMMA LruLoses ==
    ASSUME NEW K, NEW V, NEW q \in Seq(Item(K, V)), NEW k \in K, NEW c \in Nat \ {0},
           WellFormed(q, c), NEW n, n = q \/ n = Touched(q, k) \/ n = Delete(q, k)
    PROVE  /\ n \in Seq(Item(K, V))
           /\ WellFormed(n, c)
           /\ \A i \in 1..Len(n) : \E j \in 1..Len(q) : n[i] = q[j]
<1>1. CASE n = q
  BY <1>1
<1>2. CASE n = Touched(q, k)
  <2>1. n \in Seq(Item(K, V)) /\ WellFormed(n, c) /\ \A e : FromOr(n, q, e)
    BY <1>2, TouchedProperties
  <2>2. \A i \in 1..Len(n) : \E j \in 1..Len(q) : n[i] = q[j]
    <3> SUFFICES ASSUME NEW i \in 1..Len(n) PROVE \E j \in 1..Len(q) : n[i] = q[j]
      OBVIOUS
    <3>1. PICK e : e # n[i]
      <4>1. {n[i]} # {} /\ \E e : e \notin {n[i]}
        BY NoSetContainsEverything
      <4>2. QED
        BY <4>1
    <3>2. QED
      BY <2>1, <3>1 DEF FromOr
  <2>3. QED
    BY <2>1, <2>2
<1>3. CASE n = Delete(q, k)
  <2>1. n \in Seq(Item(K, V)) /\ WellFormed(n, c)
    BY <1>3, DeleteProperties, DeleteForgets
  <2>2. ASSUME NEW i \in 1..Len(n) PROVE \E j \in 1..Len(q) : n[i] = q[j]
    BY <1>3, DeleteFrom
  <2>3. QED
    BY <2>1, <2>2
<1>4. QED
  BY <1>1, <1>2, <1>3

\* The LRUs keep their types, their shape and what they may hold.
LEMMA LrusKept ==
    ASSUME IInv, NEW r \in Requests, Serve(r)
    PROVE  /\ mem' \in Seq(Item(Shas, Requests))
           /\ pages' \in Seq(Item(Shas, Requests))
           /\ OwnInv'
           /\ MemHoldsVisitedOnly'
           /\ LrusWellFormed'
<1> DEFINE K == Shas
           V == Requests
<1>1. /\ mem \in Seq(Item(K, V)) /\ WellFormed(mem, MemoryLRU)
      /\ pages \in Seq(Item(K, V)) /\ WellFormed(pages, PageLRU)
  BY DEF IInv, TypeOK, Item, LrusWellFormed
<1>2. job' = job /\ Sha(r) \in Shas /\ \A q : Sha(q)' = Sha(q)
  BY JobsKept, Types DEF Sha
<1>3. MemoryLRU \in Nat \ {0} /\ PageLRU \in Nat \ {0}
  BY LimitsAssumption
<1>4. OwnInv /\ MemHoldsVisitedOnly /\ ResInv /\ PathInv
  BY DEF IInv
<1>5. /\ mem' \in Seq(Item(K, V)) /\ WellFormed(mem', MemoryLRU)
      /\ \A i \in 1..Len(mem') :
            \/ \E j \in 1..Len(mem) : mem'[i] = mem[j]
            \/ pc[r] = "memPut" /\ mem'[i] = Entry(Sha(r), res[r])
  <2>1. CASE pc[r] = "memPut" /\ mem' = Put(mem, Sha(r), res[r], MemoryLRU)
    <3>1. res[r] \in Requests
      BY <1>4, <2>1 DEF ResInv, HasResult
    <3>2. /\ mem' \in Seq(Item(K, V))
          /\ FromOr(mem', mem, Entry(Sha(r), res[r]))
          /\ WellFormed(mem', MemoryLRU)
      BY <1>1, <1>2, <1>3, <2>1, <3>1, PutProperties, PutKeepsWellFormed
    <3>3. QED
      BY <2>1, <3>2 DEF FromOr
  <2>2. CASE mem' = mem \/ mem' = Touched(mem, Sha(r)) \/ mem' = Delete(mem, Sha(r))
    BY <1>1, <1>2, <1>3, <2>2, LruLoses
  <2>3. QED
    BY <2>1, <2>2, MemSteps
<1>6. /\ pages' \in Seq(Item(K, V)) /\ WellFormed(pages', PageLRU)
      /\ \A i \in 1..Len(pages') :
            \/ \E j \in 1..Len(pages) : pages'[i] = pages[j]
            \/ pc[r] = "pagePut" /\ pages'[i] = Entry(Sha(r), res[r])
  <2>1. CASE pc[r] = "pagePut" /\ pages' = Put(pages, Sha(r), res[r], PageLRU)
    <3>1. res[r] \in Requests
      BY <1>4, <2>1 DEF ResInv, HasResult
    <3>2. /\ pages' \in Seq(Item(K, V))
          /\ FromOr(pages', pages, Entry(Sha(r), res[r]))
          /\ WellFormed(pages', PageLRU)
      BY <1>1, <1>2, <1>3, <2>1, <3>1, PutProperties, PutKeepsWellFormed
    <3>3. QED
      BY <2>1, <3>2 DEF FromOr
  <2>2. CASE pages' = pages \/ pages' = Touched(pages, Sha(r)) \/ pages' = Delete(pages, Sha(r))
    BY <1>1, <1>2, <1>3, <2>2, LruLoses
  <2>3. QED
    BY <2>1, <2>2, PagesSteps
<1>7. pc[r] = "memPut" \/ pc[r] = "pagePut" =>
          Sha(res[r]) = Sha(r) /\ res[r] \in Requests
  BY <1>4 DEF ResInv, HasResult
<1>8. OwnInv'
  <2>1. ASSUME NEW i \in 1..Len(mem') PROVE Sha(mem'[i].val) = mem'[i].key
    BY <1>4, <1>5, <1>7 DEF OwnInv, Entry
  <2>2. ASSUME NEW i \in 1..Len(pages') PROVE Sha(pages'[i].val) = pages'[i].key
    BY <1>4, <1>6, <1>7 DEF OwnInv, Entry
  <2>3. QED
    BY <1>2, <2>1, <2>2 DEF OwnInv
<1>9. MemHoldsVisitedOnly'
  <2> SUFFICES ASSUME NEW i \in 1..Len(mem')
               PROVE  \E q \in Requests :
                        Op(q) # "warm" /\ Sha(q) = mem'[i].key /\ res'[q] # None
    BY <1>2 DEF MemHoldsVisitedOnly, Op
  <2>1. CASE \E j \in 1..Len(mem) : mem'[i] = mem[j]
    BY <1>4, <2>1, AnswerStays DEF MemHoldsVisitedOnly
  <2>2. CASE pc[r] = "memPut" /\ mem'[i] = Entry(Sha(r), res[r])
    <3>1. Op(r) # "warm" /\ res[r] # None
      BY <1>4, <1>7, <2>2, RequestsAssumption DEF PathInv
    <3>2. QED
      BY <2>2, <3>1, AnswerStays DEF Entry
  <2>3. QED
    BY <1>5, <2>1, <2>2
<1>10. QED
  BY <1>5, <1>6, <1>8, <1>9 DEF LrusWellFormed

LEMMA PcTypes ==
    ASSUME IInv, NEW r \in Requests, Serve(r)
    PROVE  /\ pc' \in [Requests -> Pcs]
<1>1. /\ pc \in [Requests -> Pcs]
  BY DEF IInv, TypeOK
<1>2. QED
  BY <1>1, RequestsAssumption DEF Serve, GetResult, Pcs

LEMMA ResTypes ==
    ASSUME IInv, NEW r \in Requests, Serve(r)
    PROVE  /\ res' \in [Requests -> Requests \cup Errors \cup {None}]
<1>1. /\ res \in [Requests -> Requests \cup Errors \cup {None}]
  BY DEF IInv, TypeOK
<1>2. WaitInv /\ entry \in [Requests -> Requests \cup Errors \cup {None}]
  BY Types DEF IInv
<1>3. QED
  BY <1>1, <1>2, RequestsAssumption DEF Serve, GetResult, Errors, WaitInv

LEMMA FlightTypes ==
    ASSUME IInv, NEW r \in Requests, Serve(r)
    PROVE  /\ info' \in [Requests -> BOOLEAN]
           /\ waitsOn' \in [Requests -> Requests \cup {None}]
           /\ inflight' \in [Shas -> Requests \cup {None}]
           /\ closed' \subseteq Requests
<1>1. /\ info \in [Requests -> BOOLEAN]
      /\ waitsOn \in [Requests -> Requests \cup {None}]
      /\ inflight \in [Shas -> Requests \cup {None}]
      /\ closed \subseteq Requests
  BY DEF IInv, TypeOK
<1>2. Sha(r) \in Shas
  BY Types
<1>3. (Sha(r) \in lastResolved) \in BOOLEAN
  OBVIOUS
<1>4. QED
  BY <1>1, <1>2, <1>3, RequestsAssumption DEF Serve, GetResult, Leading

LEMMA EntryTypes ==
    ASSUME IInv, NEW r \in Requests, Serve(r)
    PROVE  /\ entry' \in [Requests -> Requests \cup Errors \cup {None}]
<1>1. /\ entry \in [Requests -> Requests \cup Errors \cup {None}]
  BY DEF IInv, TypeOK
<1>2. Holds(mem, Sha(r)) => Value(mem, Sha(r)) \in Requests
  BY MemValue
<1>3. QED
  BY <1>1, <1>2, RequestsAssumption DEF Serve, GetResult, Errors

LEMMA StoreTypes ==
    ASSUME IInv, NEW r \in Requests, Serve(r)
    PROVE  /\ disk' \in [Tiers -> SUBSET Shas]
           /\ badPack' \subseteq Shas
           /\ packVerified' \subseteq Shas
           /\ lastResolved' \subseteq Shas
<1>1. /\ disk \in [Tiers -> SUBSET Shas]
      /\ badPack \subseteq Shas
      /\ packVerified \subseteq Shas
      /\ lastResolved \subseteq Shas
  BY DEF IInv, TypeOK
<1>2. Sha(r) \in Shas
  BY Types
<1>3. QED
  BY <1>1, <1>2, RequestsAssumption DEF Serve, GetResult, Tiers, Written, Removed,
    BestEffortWrite

LEMMA HolderTypes ==
    ASSUME IInv, NEW r \in Requests, Serve(r)
    PROVE  /\ gone' \subseteq Requests
           /\ computed' \subseteq Requests
           /\ slots' \subseteq Requests
           /\ lock' \in [Locks -> [Shas -> Requests \cup {None}]]
<1>1. /\ gone \subseteq Requests
      /\ computed \subseteq Requests
      /\ slots \subseteq Requests
      /\ lock \in [Locks -> [Shas -> Requests \cup {None}]]
  BY DEF IInv, TypeOK
<1>2. ResInv /\ Sha(r) \in Shas
  BY Types DEF IInv
<1>3. QED
  BY <1>1, <1>2, RequestsAssumption DEF Serve, GetResult, Locks, ResInv, HasResult,
    TakeSlot, FreeSlot, TakeLock, FreeLock

\* Together, the types.
LEMMA TypesKept ==
    ASSUME IInv, NEW r \in Requests, Serve(r)
    PROVE  TypeOK'
<1>1. job' \in [Requests -> Jobs]
  BY JobsKept DEF IInv, TypeOK
<1>2. /\ mem' \in Seq([key : Shas, val : Requests])
      /\ pages' \in Seq([key : Shas, val : Requests])
  BY LrusKept DEF Item
<1>3. QED
  BY <1>1, <1>2, PcTypes, ResTypes, FlightTypes, EntryTypes, StoreTypes, HolderTypes DEF TypeOK

\* Never more holders than slots.
LEMMA SlotKept ==
    ASSUME IInv, NEW r \in Requests, Serve(r)
    PROVE  SlotInv'
<1>1. Cardinality(slots) <= MaxParses /\ IsFiniteSet(slots) /\ MaxParses \in Nat
  <2>1. slots \subseteq Requests
    BY DEF IInv, TypeOK
  <2>2. QED
    BY <2>1, RequestsAssumption, LimitsAssumption, FS_Subset DEF IInv, SlotInv
<1>2. \/ slots' = slots
      \/ Cardinality(slots) < MaxParses /\ slots' = slots \cup {r}
      \/ slots' = slots \ {r}
  BY SlotSteps
<1>3. Cardinality(slots') <= MaxParses
  <2>1. Cardinality(slots) \in Nat
    BY <1>1, FS_CardinalityType
  <2>2. Cardinality(slots \cup {r}) <= Cardinality(slots) + 1
    BY <1>1, <2>1, FS_AddElement
  <2>3. Cardinality(slots \ {r}) <= Cardinality(slots)
    BY <1>1, FS_Subset
  <2>4. Cardinality(slots \cup {r}) \in Nat /\ Cardinality(slots \ {r}) \in Nat
    BY <1>1, FS_AddElement, FS_RemoveElement, FS_CardinalityType
  <2>5. QED
    BY <1>1, <1>2, <2>1, <2>2, <2>3, <2>4
<1>4. QED
  BY <1>3, SlotsKept DEF SlotInv

\* A step of a request keeps the whole invariant.
LEMMA ServeStep ==
    ASSUME IInv, NEW r \in Requests, Serve(r)
    PROVE  IInv'
BY TypesKept, PathKept, LeadKept, SlotKept, LosLockKept, PageLockKept, PackLockKept, ResKept,
   EntryKept, WaitKept, FreshKept, LrusKept, MissKept, PackKept
DEF IInv

\* So does a hang-up,
LEMMA HangUpStep ==
    ASSUME IInv, NEW r \in Requests, HangUp(r)
    PROVE  IInv'
<1>1. TypeOK' /\ ResInv'
  BY DEF IInv, TypeOK, ResInv, HangUp, Sha, Op
<1>2. UNCHANGED <<job, local, disk, badPack, memory, flight, slots, lock>>
  BY DEF HangUp
<1>3. QED
  BY <1>1, <1>2 DEF IInv, PathInv, LeadInv, SlotInv, LosLockInv, PageLockInv, PackLockInv,
    EntryInv, WaitInv, FreshInv, OwnInv, MissInv, MemHoldsVisitedOnly, LrusWellFormed,
    VerifiedPackIsSound, OnDisk, Sha, Op

\* a file that disappears,
LEMMA EvictStep ==
    ASSUME IInv, NEW t \in Tiers, NEW s \in Shas, Evict(t, s)
    PROVE  IInv'
<1>1. TypeOK' /\ MissInv' /\ VerifiedPackIsSound'
  BY DEF IInv, TypeOK, MissInv, VerifiedPackIsSound, Evict, OnDisk, Removed, Sha
<1>2. UNCHANGED <<job, local, gone, memory, flight, slots, lock>>
  BY DEF Evict
<1>3. QED
  BY <1>1, <1>2 DEF IInv, PathInv, LeadInv, SlotInv, LosLockInv, PageLockInv, PackLockInv,
    ResInv, EntryInv, WaitInv, FreshInv, OwnInv, MemHoldsVisitedOnly, LrusWellFormed, Sha, Op

\* and nothing at all.
LEMMA IdleStep ==
    ASSUME IInv, UNCHANGED vars
    PROVE  IInv'
BY DEF IInv, TypeOK, PathInv, LeadInv, SlotInv, LosLockInv, PageLockInv, PackLockInv, ResInv,
   EntryInv, WaitInv, FreshInv, OwnInv, MissInv, MemHoldsVisitedOnly, LrusWellFormed,
   VerifiedPackIsSound, OnDisk, Sha, Op, vars

\* Any disk an earlier process may have left is a start.
LEMMA InitIInv == Init => IInv
<1> SUFFICES ASSUME Init PROVE IInv
  OBVIOUS
<1>1. TypeOK
  BY DisksAssumption DEF Init, TypeOK, Pcs, Tiers
<1>2. mem = <<>> /\ pages = <<>> /\ \A r \in Requests : pc[r] = "start"
  BY DEF Init
<1>3. /\ OwnInv /\ MemHoldsVisitedOnly /\ LrusWellFormed
  BY <1>2, LimitsAssumption DEF OwnInv, MemHoldsVisitedOnly, LrusWellFormed, WellFormed
<1>4. SlotInv
  <2>1. slots = {} /\ Cardinality(slots) = 0
    BY FS_EmptySet DEF Init
  <2>2. {r \in Requests : pc[r] \in Heavy} = {}
    BY <1>2 DEF Heavy
  <2>3. QED
    BY <2>1, <2>2, LimitsAssumption DEF SlotInv
<1>5. PathInv /\ LeadInv /\ LosLockInv /\ PageLockInv /\ PackLockInv
  <2>1. \A r \in Requests : Sha(r) \in Shas
    BY <1>1, JobsAssumption DEF TypeOK, Sha
  <2>2. QED
    BY <1>2, <2>1, RequestsAssumption DEF Init, PathInv, LeadInv, LosLockInv, PageLockInv,
      PackLockInv, Leading, LosSection, PageSection, PackSection, Locks
<1>6. ResInv /\ EntryInv /\ WaitInv /\ FreshInv
  BY <1>2, RequestsAssumption DEF Init, ResInv, HasResult, EntryInv, WaitInv, FreshInv, Errors
<1>7. MissInv /\ VerifiedPackIsSound
  BY <1>2 DEF Init, MissInv, VerifiedPackIsSound
<1>8. QED
  BY <1>1, <1>3, <1>4, <1>5, <1>6, <1>7 DEF IInv

\* Every step.
LEMMA StepIInv == IInv /\ [Next]_vars => IInv'
<1> SUFFICES ASSUME IInv, [Next]_vars PROVE IInv'
  OBVIOUS
<1>1. ASSUME NEW r \in Requests, Serve(r) PROVE IInv'
  BY <1>1, ServeStep
<1>2. ASSUME NEW r \in Requests, HangUp(r) PROVE IInv'
  BY <1>2, HangUpStep
<1>3. ASSUME NEW t \in Tiers, NEW s \in Shas, Evict(t, s) PROVE IInv'
  BY <1>3, EvictStep
<1>4. CASE Idle \/ UNCHANGED vars
  BY <1>4, IdleStep DEF Idle
<1>5. QED
  BY <1>1, <1>2, <1>3, <1>4 DEF Next

\* IInv is an invariant of the cache.
LEMMA InductiveInvariant == Spec => []IInv
BY InitIInv, StepIInv, PTL DEF Spec

-----------------------------------------------------------------------------
(* The theorems *)

\* Every variable keeps its type, whatever fails, hangs up or is evicted.
THEOREM TypeCorrect == Spec => []TypeOK
<1>1. IInv => TypeOK
  BY DEF IInv
<1>2. QED
  BY <1>1, InductiveInvariant, PTL

\* acquireParse (cache.go:248-273): never more than MaxParses requests at heavy
\* cold work, for any number of requests and demos.
THEOREM WorkBounded == Spec => []HeavyWorkBounded
<1>1. IInv => HeavyWorkBounded
  BY DEF IInv, SlotInv, HeavyWorkBounded
<1>2. QED
  BY <1>1, InductiveInvariant, PTL

\* getOrCompute (singleflight.go:33-54): one request at a time loads a demo.
THEOREM SingleFlight == Spec => []OneLoadPerDemo
<1>1. IInv => OneLoadPerDemo
  <2> SUFFICES ASSUME IInv, NEW r \in Requests, NEW q \in Requests,
                      pc[r] \in Leading, pc[q] \in Leading, Sha(r) = Sha(q)
               PROVE  r = q
    BY DEF OneLoadPerDemo
  <2>1. inflight[Sha(r)] = r /\ inflight[Sha(q)] = q
    BY DEF IInv, LeadInv
  <2>2. QED
    BY <2>1
<1>2. QED
  BY <1>1, InductiveInvariant, PTL

\* loadResult (cache.go:390-500) parses only what the disk does not have, when
\* what it has can be decoded.
THEOREM NoNeedlessParse ==
    ASSUME "decode" \notin Faults
    PROVE  Spec => []ParsesOnlyMissing
<1>1. IInv => ParsesOnlyMissing
  BY DEF IInv, MissInv, ParsesOnlyMissing
<1>2. QED
  BY <1>1, InductiveInvariant, PTL

\* Followers of a flight get the leader's Result of their own demo or its
\* error, never neither; the LRUs file every Result under its own demo.
THEOREM RightAnswer == Spec => []AnsweredWithOwnDemo
<1>1. IInv => AnsweredWithOwnDemo
  <2> SUFFICES ASSUME IInv PROVE AnsweredWithOwnDemo
    OBVIOUS
  <2>1. OwnInv /\ ResInv /\ res \in [Requests -> Requests \cup Errors \cup {None}]
    BY Types DEF IInv
  <2>2. QED
    BY <2>1 DEF OwnInv, ResInv, HasResult, AnsweredWithOwnDemo, Failed
<1>2. QED
  BY <1>1, InductiveInvariant, PTL

\* No path through the handlers ends with a slot, a lock or a flight still
\* held, or with a follower of a flight nobody will close.
THEOREM NothingHeld == Spec => []HoldsNothingWhenDone
<1>1. IInv => HoldsNothingWhenDone
  <2> SUFFICES ASSUME IInv, NEW r \in Requests, pc[r] = "done"
               PROVE  /\ r \notin slots
                      /\ \A k \in Locks, s \in Shas : lock[k][s] # r
                      /\ \A s \in Shas : inflight[s] # r
                      /\ \A q \in Requests : pc[q] = "wait" /\ waitsOn[q] = r => r \in closed
    BY DEF HoldsNothingWhenDone
  <2>1. r \notin slots
    BY DEF IInv, SlotInv, Heavy
  <2>2. \A k \in Locks, s \in Shas : lock[k][s] # r
    BY DEF IInv, Locks, LosLockInv, PageLockInv, PackLockInv, LosSection, PageSection,
      PackSection, Getting, Leading
  <2>3. \A s \in Shas : inflight[s] # r
    BY RequestsAssumption DEF IInv, LeadInv, Leading
  <2>4. \A q \in Requests : pc[q] = "wait" /\ waitsOn[q] = r => r \in closed
    BY DEF IInv, WaitInv, Leading
  <2>5. QED
    BY <2>1, <2>2, <2>3, <2>4
<1>2. QED
  BY <1>1, InductiveInvariant, PTL

\* A request answered "canceled" is one whose own client hung up.
THEOREM PrivateCancel == Spec => []CancelStaysPrivate
<1>1. IInv => CancelStaysPrivate
  BY DEF IInv, ResInv, CancelStaysPrivate
<1>2. QED
  BY <1>1, InductiveInvariant, PTL

\* The requests that write intervals into a Result or copy it hold that demo's
\* lock, and a Result belongs to one demo.
LEMMA SharedResult ==
    ASSUME IInv, NEW r \in Requests, NEW q \in Requests, res[r] = res[q],
           pc[r] \in LosSection \cap HasResult, pc[q] \in LosSection \cap HasResult
    PROVE  r = q
<1>1. res[r] \in Requests /\ res[q] \in Requests
  BY DEF IInv, ResInv
<1>2. Sha(r) = Sha(q) /\ Sha(r) \in Shas
  BY <1>1, Types DEF IInv, ResInv
<1>3. lock["los"][Sha(r)] = r /\ lock["los"][Sha(q)] = q
  BY <1>2 DEF IInv, LosLockInv
<1>4. QED
  BY <1>2, <1>3

\* EnsureLOS (cache.go:582-652): the intervals of a Result have one writer.
THEOREM OneWriter == Spec => []LosWrittenOnce
<1>1. IInv => LosWrittenOnce
  <2> SUFFICES ASSUME IInv, NEW r \in Requests, NEW q \in Requests, pc[r] \in Splicing,
                      pc[q] \in Splicing \cup {"losStore"}, res[r] = res[q]
               PROVE  r = q /\ res[r] \notin computed
    BY DEF LosWrittenOnce
  <2>1. r = q
    BY SharedResult DEF Splicing, LosSection, HasResult
  <2>2. QED
    BY <2>1 DEF IInv, FreshInv, Splicing
<1>2. QED
  BY <1>1, InductiveInvariant, PTL

\* PageResult (page.go:30-70) never copies a Result whose intervals are being
\* written.
THEOREM WholeCopy == Spec => []NoTornCopy
<1>1. IInv => NoTornCopy
  <2> SUFFICES ASSUME IInv, NEW r \in Requests, NEW q \in Requests, pc[r] = "pageCopy",
                      pc[q] \in Splicing, res[r] = res[q]
               PROVE  FALSE
    BY DEF NoTornCopy
  <2>1. r = q
    BY SharedResult DEF Splicing, LosSection, HasResult
  <2>2. QED
    BY <2>1 DEF Splicing
<1>2. QED
  BY <1>1, InductiveInvariant, PTL

\* A pack taken as checked is not corrupt (positions.go:101-121).
THEOREM SoundPack == Spec => []VerifiedPackIsSound
<1>1. IInv => VerifiedPackIsSound
  BY DEF IInv
<1>2. QED
  BY <1>1, InductiveInvariant, PTL

\* The warmer never fills the LRU (warm.go:19-22).
THEOREM VisitorsOnly == Spec => []MemHoldsVisitedOnly
<1>1. IInv => MemHoldsVisitedOnly
  BY DEF IInv
<1>2. QED
  BY <1>1, InductiveInvariant, PTL

\* Both LRUs keep their capacity and one entry per demo (lru.go), for any
\* capacity.
THEOREM BoundedLrus == Spec => []LrusWellFormed
<1>1. IInv => LrusWellFormed
  BY DEF IInv
<1>2. QED
  BY <1>1, InductiveInvariant, PTL

-----------------------------------------------------------------------------
(* Nobody waits in a circle *)

\* The steps at which a request may be kept waiting: for a lock, for a slot,
\* with or without an ear for its client, and for a flight.
LosWait == {"losLock", "pageLosLock"}
LiveSlotWait == {"losAcquire", "pageAcquire", "packAcquire"}
SlotWait == LiveSlotWait \cup {"acquire"}

\* When a request can take its next step.
Moves(r) ==
    /\ pc[r] # "done"
    /\ pc[r] = "wait" => waitsOn[r] \in closed
    /\ pc[r] \in LosWait => lock["los"][Sha(r)] = None
    /\ pc[r] = "pageLock" => lock["page"][Sha(r)] = None
    /\ pc[r] = "packLock" => lock["pack"][Sha(r)] = None
    /\ pc[r] \in SlotWait =>
          Cardinality(slots) < MaxParses \/ (pc[r] \in LiveSlotWait /\ r \in gone)

\* q has what r is kept waiting for.
WaitsFor(r, q) ==
    \/ pc[r] = "wait" /\ waitsOn[r] \notin closed /\ waitsOn[r] = q
    \/ pc[r] \in LosWait /\ lock["los"][Sha(r)] = q
    \/ pc[r] = "pageLock" /\ lock["page"][Sha(r)] = q
    \/ pc[r] = "packLock" /\ lock["pack"][Sha(r)] = q
    \/ pc[r] \in SlotWait /\ Cardinality(slots) = MaxParses /\ q \in slots

\* The order in which the waits are nested.
Rank(r) ==
    IF pc[r] \in {"packLock", "pageLock"} THEN 1
    ELSE IF pc[r] \in LosWait \cup {"wait"} THEN 2
    ELSE IF pc[r] \in SlotWait THEN 3
    ELSE 4

WaitsInOrder ==
    \A r \in Requests :
        /\ \A q \in Requests : WaitsFor(r, q) => Rank(r) < Rank(q) /\ pc[q] # "done"
        /\ pc[r] # "done" => Moves(r) \/ \E q \in Requests : WaitsFor(r, q)

\* While a request is not answered, some request can go on.
SomeoneMoves == AllDone \/ \E r \in Requests : Moves(r)

\* The holder of a lock, a slot or a flight is inside what it protects.
LEMMA WaitsUp ==
    ASSUME IInv, NEW r \in Requests, NEW q \in Requests, WaitsFor(r, q)
    PROVE  Rank(r) < Rank(q) /\ pc[q] # "done"
<1>1. Sha(r) \in Shas
  BY Types
<1>2. CASE pc[r] = "wait" /\ waitsOn[r] \notin closed /\ waitsOn[r] = q
  <2>1. pc[q] \in Leading \cup {"close"}
    BY <1>2 DEF IInv, WaitInv
  <2> QED
    BY <1>2, <2>1 DEF Rank, LosWait, SlotWait, LiveSlotWait, Leading
<1>3. CASE pc[r] \in LosWait /\ lock["los"][Sha(r)] = q
  <2>1. pc[q] \in LosSection
    BY <1>1, <1>3 DEF IInv, LosLockInv
  <2> QED
    BY <1>3, <2>1 DEF Rank, LosWait, SlotWait, LiveSlotWait, LosSection
<1>4. CASE pc[r] = "pageLock" /\ lock["page"][Sha(r)] = q
  <2>1. pc[q] \in PageSection
    BY <1>1, <1>4 DEF IInv, PageLockInv
  <2> QED
    BY <1>4, <2>1 DEF Rank, LosWait, SlotWait, LiveSlotWait, PageSection
<1>5. CASE pc[r] = "packLock" /\ lock["pack"][Sha(r)] = q
  <2>1. pc[q] \in PackSection \cup Getting
    BY <1>1, <1>5 DEF IInv, PackLockInv
  <2> QED
    BY <1>5, <2>1 DEF Rank, LosWait, SlotWait, LiveSlotWait, PackSection, Getting, Leading
<1>6. CASE pc[r] \in SlotWait /\ q \in slots
  <2>1. pc[q] \in Heavy
    BY <1>6 DEF IInv, SlotInv
  <2> QED
    BY <1>6, <2>1 DEF Rank, LosWait, SlotWait, LiveSlotWait, Heavy
<1> QED
  BY <1>2, <1>3, <1>4, <1>5, <1>6 DEF WaitsFor

\* Who cannot go on waits for somebody.
LEMMA WaitsForSomeone ==
    ASSUME IInv, NEW r \in Requests, pc[r] # "done", ~Moves(r)
    PROVE  \E q \in Requests : WaitsFor(r, q)
<1>1. Sha(r) \in Shas /\ lock \in [Locks -> [Shas -> Requests \cup {None}]]
  BY Types
<1>2. ASSUME NEW k \in Locks, lock[k][Sha(r)] # None PROVE lock[k][Sha(r)] \in Requests
  BY <1>1, <1>2
<1>3. CASE pc[r] = "wait" /\ waitsOn[r] \notin closed
  BY <1>3 DEF IInv, WaitInv, WaitsFor
<1>4. CASE pc[r] \in LosWait /\ lock["los"][Sha(r)] # None
  BY <1>2, <1>4 DEF WaitsFor, Locks
<1>5. CASE pc[r] = "pageLock" /\ lock["page"][Sha(r)] # None
  BY <1>2, <1>5 DEF WaitsFor, Locks
<1>6. CASE pc[r] = "packLock" /\ lock["pack"][Sha(r)] # None
  BY <1>2, <1>6 DEF WaitsFor, Locks
<1>7. CASE pc[r] \in SlotWait /\ ~(Cardinality(slots) < MaxParses)
  <2>1. slots \subseteq Requests /\ Cardinality(slots) <= MaxParses
    BY DEF IInv, SlotInv
  <2>2. IsFiniteSet(slots)
    BY <2>1, RequestsAssumption, FS_Subset
  <2>3. Cardinality(slots) \in Nat
    BY <2>2, FS_CardinalityType
  <2>4. Cardinality(slots) = MaxParses /\ slots # {}
    BY <1>7, <2>1, <2>3, FS_EmptySet, LimitsAssumption
  <2> QED
    BY <1>7, <2>1, <2>4 DEF WaitsFor
<1> QED
  BY <1>3, <1>4, <1>5, <1>6, <1>7 DEF Moves

\* No order of arrivals makes two requests wait for one another, or more of
\* them in a circle: whoever is kept waiting for a lock, a slot or a flight
\* waits for a request further up one fixed order of the steps, and that
\* request has not ended.
THEOREM NoWaitCycle == Spec => []WaitsInOrder
<1>1. IInv => WaitsInOrder
  BY WaitsUp, WaitsForSomeone DEF WaitsInOrder
<1> QED
  BY <1>1, InductiveInvariant, PTL

\* So, as long as a request is not answered, one can take its next step: the
\* last of those it waits for.
THEOREM NeverStuck == Spec => []SomeoneMoves
<1>1. WaitsInOrder => SomeoneMoves
  <2> SUFFICES ASSUME WaitsInOrder, NEW r \in Requests, pc[r] # "done"
               PROVE  \E q \in Requests : Moves(q)
    BY DEF SomeoneMoves, AllDone
  <2>1. \A q \in Requests : Rank(q) \in 1..4
    BY DEF Rank
  <2>2. ASSUME NEW p \in Requests, pc[p] # "done", ~Moves(p)
        PROVE  \E q \in Requests : Rank(p) < Rank(q) /\ pc[q] # "done"
    BY <2>2 DEF WaitsInOrder
  <2> HIDE DEF Moves, Rank
  <2> QED
    BY <2>1, <2>2
<1> QED
  BY <1>1, NoWaitCycle, PTL
-----------------------------------------------------------------------------
(* Every step takes a request further *)

\* PositionPack and Warm hold the pack lock from the step after they take it.
PackHeldInv ==
    \A r \in Requests :
        \/ pc[r] \in PackSection
        \/ Op(r) = "pack" /\ pc[r] \in Getting \ {"resolve", "stash"}
        => HoldsPackLock(r)

\* How far a request is: PositionPack resolves once before its lock and once under
\* it, and Warm takes that lock after its flight.
Depth ==
    [start |-> 0, putWrite |-> 1, resolve |-> 2, stash |-> 3, packLock |-> 4, packRead |-> 5,
     enter |-> 8, wait |-> 9, drain |-> 9, memGet |-> 10, tier2 |-> 11, acquire |-> 12,
     tier1 |-> 13, hubResolve |-> 14, download |-> 15, parse |-> 16, tier2Write |-> 17,
     release |-> 18, retire |-> 19, close |-> 20, memPut |-> 21,
     viewRead |-> 25,
     losLock |-> 25, losCheck |-> 26, losSplice |-> 27, losAcquire |-> 27, losBuild |-> 28,
     losStore |-> 29, losRelease |-> 30, losUnlock |-> 31,
     pageGet |-> 25, pageLock |-> 26, pageAgain |-> 27, pageLosLock |-> 28, pageCopy |-> 29,
     pageAcquire |-> 30, pagePut |-> 31, pageRelease |-> 32, pageUnlock |-> 33,
     packAcquire |-> 25, packWrite |-> 26, packRelease |-> 27, packUnlock |-> 28,
     rmTier1 |-> 25, rmTier2 |-> 26, rmMem |-> 27, rmPages |-> 28, done |-> 34]

Stage(r) ==
    IF pc[r] \in {"resolve", "stash"} /\ HoldsPackLock(r) THEN Depth[pc[r]] + 4
    ELSE IF pc[r] \in {"packLock", "packRead"} /\ Op(r) = "warm" THEN Depth[pc[r]] + 18
    ELSE Depth[pc[r]]

\* No request goes back, each of its own steps takes it further, and there is an
\* end to it.
Further ==
    \A r \in Requests :
        /\ Serve(r) => Stage(r) < Stage(r)'
        /\ Stage(r) <= Stage(r)'
        /\ Stage(r)' <= Depth.done
Forward == [][Further]_vars

\* Nobody unlocks another's pack lock, and no way through GetResult loses it.
LEMMA PackHeldKept ==
    ASSUME IInv, PackHeldInv, NEW r \in Requests, Serve(r)
    PROVE  PackHeldInv'
<1>1. PathInv /\ PackLockInv
  BY DEF IInv
<1>2. /\ pc \in [Requests -> Pcs]
      /\ lock \in [Locks -> [Shas -> Requests \cup {None}]]
      /\ \A q \in Requests : Sha(q) \in Shas
  BY Types
<1>3. job' = job
  BY JobsKept
<1>4. CASE Arrive(r) \/ PutWrite(r) \/ ResolveLocally(r) \/ ResolveByHub(r) \/ Stash(r)
  BY <1>1, <1>2, <1>3, <1>4, RequestsAssumption DEF PackHeldInv, PackSection, Getting,
    Leading, HoldsPackLock, Sha, Op, PathInv
<1>5. CASE Lead(r) \/ Follow(r) \/ Await(r) \/ Retire(r) \/ Close(r) \/ MemPut(r) \/
       ViewRead(r)
  BY <1>1, <1>2, <1>3, <1>5, RequestsAssumption DEF PackHeldInv, PackSection, Getting,
    Leading, HoldsPackLock, Sha, Op, PathInv
<1>6. CASE PositionPack(r)
  BY <1>1, <1>2, <1>3, <1>6, RequestsAssumption DEF PackHeldInv, PackSection, Getting,
    Leading, HoldsPackLock, Sha, Op, PathInv, Locks, TakeLock, FreeLock
<1>7. CASE Load(r) \/ RemoveDemo(r)
  BY <1>1, <1>2, <1>3, <1>7, RequestsAssumption DEF PackHeldInv, PackSection, Getting,
    Leading, HoldsPackLock, Sha, Op, PathInv
<1>8. CASE EnsureLOS(r) \/ PageResult(r)
  BY <1>1, <1>2, <1>3, <1>8, RequestsAssumption DEF PackHeldInv, PackSection, Getting,
    Leading, HoldsPackLock, Sha, Op, PathInv, PageSection, Locks, TakeLock, FreeLock
<1>9. QED
  BY <1>4, <1>5, <1>6, <1>7, <1>8 DEF Serve, GetResult

\* Both invariants together.
LEMMA PackHeld == Spec => [](IInv /\ PackHeldInv)
<1>1. Init => PackHeldInv
  BY DEF Init, PackHeldInv, PackSection, Getting, Leading
<1>2. ASSUME IInv, PackHeldInv, [Next]_vars PROVE PackHeldInv'
  <2>1. ASSUME NEW r \in Requests, Serve(r) PROVE PackHeldInv'
    BY <1>2, <2>1, PackHeldKept
  <2>2. CASE UNCHANGED <<job, pc, lock>>
    BY <1>2, <2>2 DEF PackHeldInv, HoldsPackLock, Sha, Op
  <2>3. QED
    BY <1>2, <2>1, <2>2 DEF Next, HangUp, Evict, Idle, vars
<1>3. QED
  BY <1>1, <1>2, InductiveInvariant, PTL DEF Spec

\* A step of r leaves the others where they are.
LEMMA OthersStay ==
    ASSUME IInv, PackHeldInv, NEW r \in Requests, Serve(r),
           NEW q \in Requests, q # r
    PROVE  Stage(q)' = Stage(q)
<1>1. /\ pc \in [Requests -> Pcs]
      /\ lock \in [Locks -> [Shas -> Requests \cup {None}]]
      /\ \A p \in Requests : Sha(p) \in Shas
  BY Types
<1>2. job' = job
  BY JobsKept
<1>3. pc'[q] = pc[q]
  BY <1>1 DEF Serve, GetResult
<1>4. HoldsPackLock(q)' <=> HoldsPackLock(q)
  <2>1. CASE PackLock(r) \/ PackUnlock(r)
    BY <1>1, <1>2, <2>1, RequestsAssumption DEF PackHeldInv, PackSection, HoldsPackLock, Sha,
      Locks, TakeLock, FreeLock
  <2>2. CASE ~(PackLock(r) \/ PackUnlock(r))
    <3>1. lock'["pack"] = lock["pack"]
      BY <1>1, <2>2 DEF Serve, GetResult, Locks, TakeLock, FreeLock
    <3>2. QED
      BY <1>2, <3>1 DEF HoldsPackLock, Sha
  <2>3. QED
    BY <2>1, <2>2
<1>5. QED
  BY <1>2, <1>3, <1>4 DEF Stage, Op

\* Whatever its next step, a request is somewhere on the way.
LEMMA StageTypes ==
    ASSUME IInv, NEW r \in Requests
    PROVE  Stage(r) \in 0..Depth.done
<1>1. pc[r] \in Pcs
  BY Types
<1>2. QED
  BY <1>1 DEF Stage, Depth, Pcs

\* A step of r takes it further.
LEMMA StepRises ==
    ASSUME IInv, PackHeldInv, NEW r \in Requests, Serve(r)
    PROVE  Stage(r) < Stage(r)'
<1>1. PathInv /\ PackLockInv
  BY DEF IInv
<1>2. /\ pc \in [Requests -> Pcs]
      /\ lock \in [Locks -> [Shas -> Requests \cup {None}]]
      /\ \A q \in Requests : Sha(q) \in Shas
  BY Types
<1>3. job' = job
  BY JobsKept
<1>4. CASE Arrive(r) \/ PutWrite(r) \/ ResolveLocally(r) \/ ResolveByHub(r) \/ Stash(r)
  BY <1>1, <1>2, <1>3, <1>4 DEF Stage, Depth, HoldsPackLock, PackLockInv, PackSection, Getting,
    Leading, Sha, Op
<1>5. CASE Lead(r) \/ Follow(r) \/ Await(r) \/ Retire(r) \/ Close(r) \/ MemPut(r) \/
       ViewRead(r)
  BY <1>1, <1>2, <1>3, <1>5 DEF Stage, Depth, Op
<1>6. CASE PositionPack(r)
  BY <1>1, <1>2, <1>3, <1>6 DEF Stage, Depth, PathInv, PackHeldInv, PackSection, HoldsPackLock,
    Sha, Op
<1>7. CASE Load(r) \/ RemoveDemo(r)
  BY <1>1, <1>2, <1>3, <1>7 DEF Stage, Depth, Op
<1>8. CASE EnsureLOS(r) \/ PageResult(r)
  BY <1>1, <1>2, <1>3, <1>8 DEF Stage, Depth, Op
<1>9. QED
  BY <1>4, <1>5, <1>6, <1>7, <1>8 DEF Serve, GetResult

\* A request takes at most Depth.done steps, whoever else runs, fails or hangs
\* up: no retry, no second look at a cache and no second pass through GetResult
\* takes it back.  As NeverStuck has it, somebody can go on until all are
\* answered; here, the requests' own steps do not go on forever.
THEOREM OnlyForward == Spec => Forward
<1>1. ASSUME IInv, PackHeldInv, Next
      PROVE  Further
  <2> SUFFICES ASSUME NEW r \in Requests
               PROVE  /\ Serve(r) => Stage(r) < Stage(r)'
                      /\ Stage(r) <= Stage(r)'
                      /\ Stage(r)' <= Depth.done
    BY DEF Further
  <2>1. Stage(r) \in 0..Depth.done
    BY <1>1, StageTypes
  <2>2. Stage(r)' \in 0..Depth.done
    <3>1. pc'[r] \in Pcs
      BY <1>1, StepIInv DEF IInv, TypeOK
    <3>2. QED
      BY <3>1 DEF Stage, Depth, Pcs
  <2>3. ASSUME Serve(r) PROVE Stage(r) < Stage(r)'
    BY <1>1, <2>3, StepRises
  <2>4. ASSUME ~Serve(r) PROVE Stage(r)' = Stage(r)
    <3>1. ASSUME NEW q \in Requests, Serve(q) PROVE Stage(r)' = Stage(r)
      <4>1. q # r
        BY <2>4, <3>1
      <4>2. QED
        BY <1>1, <3>1, <4>1, OthersStay
    <3>2. ASSUME UNCHANGED <<job, pc, lock>> PROVE Stage(r)' = Stage(r)
      BY <3>2 DEF Stage, HoldsPackLock, Sha, Op
    <3>3. QED
      BY <1>1, <3>1, <3>2 DEF Next, HangUp, Evict, Idle, vars
  <2>5. Depth.done \in Nat
    BY DEF Depth
  <2> HIDE DEF Stage, Depth
  <2>6. QED
    BY <2>1, <2>2, <2>3, <2>4, <2>5
<1>2. QED
  BY <1>1, PackHeld, PTL DEF Spec, Forward
=============================================================================
