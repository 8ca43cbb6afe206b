----------------------------- MODULE DemoCache -----------------------------
(***************************************************************************)
(* mvd-api's demo cache (internal/democache) under concurrent requests.     *)
(*                                                                         *)
(* A request is one goroutine: an HTTP handler that calls GetResult,        *)
(* EnsureLOS, PageResult, PositionPack or the upload path once, or the hub  *)
(* warmer's call of Warm.  They share the disk tiers, the two in-memory     *)
(* LRUs, the per-SHA singleflight, the parse semaphore and the per-SHA      *)
(* locks.  A step is one access to that shared state, in program order;     *)
(* pc[r] names the next one.                                               *)
(*                                                                         *)
(* A *result.Result in memory is named by the request that made it (a       *)
(* request parses or decodes at most one).  The keyed locks are taken in    *)
(* the form KeyedLock gives them.  A process that starts finds the disk     *)
(* some earlier process left; what it held in memory is gone.               *)
(***************************************************************************)
EXTENDS Naturals, FiniteSets, Lru

CONSTANTS
    Requests,     \* the goroutines
    Shas,         \* the demos
    Jobs,         \* what a request may be: [op, sha, kind]
    Disks,        \* what an earlier process may have left: [tier1, ..., index]
    MaxParses,    \* Cache.MaxParses, resolved
    MemoryLRU,    \* Cache.MemoryLRU
    PageLRU,      \* pageLRUSize
    Degenerate,   \* demos that parse to no analyzable game
    NoStreams,    \* demos whose Result has no Streams
    Faults,       \* which failures may happen
    Evicting,     \* the tiers something else removes files from
    None

Ops == {"get", "los", "page", "pack", "warm", "upload"}
Tiers == {"tier1", "tier2", "los", "pack", "index"}
FaultNames == {"hub", "write", "parse", "panic", "decode", "noBSP", "encode", "cancel"}
Errors == {"notFound", "hubUpstream", "writeError", "parseError", "panicked",
           "canceled", "losUnavailable", "encodeError", "rejected"}
\* classifyHubError: the hub knows no such game, or anything else went wrong.
HubErrors == {"notFound", "hubUpstream"}

ASSUME RequestsAssumption ==
    IsFiniteSet(Requests) /\ None \notin Requests \cup Errors /\ Requests \cap Errors = {}
ASSUME JobsAssumption ==
    /\ Jobs \subseteq [op : Ops, sha : Shas, kind : {"sha256", "gameId"}]
    /\ \A j \in Jobs : /\ j.op = "upload" => j.kind = "sha256"
                       /\ j.op = "warm" => j.kind = "gameId"
ASSUME DisksAssumption ==
    Disks \subseteq [Tiers -> SUBSET Shas]
ASSUME LimitsAssumption ==
    MaxParses \in Nat \ {0} /\ MemoryLRU \in Nat \ {0} /\ PageLRU \in Nat \ {0}
ASSUME FaultsAssumption ==
    /\ Faults \subseteq FaultNames
    /\ Evicting \subseteq Tiers \ {"index"}
    /\ Degenerate \subseteq Shas
    /\ NoStreams \subseteq Shas

VARIABLES
    job,           \* what each request is
    pc,            \* its next step
    res,           \* the Result it has, or the error it ends with
    info,          \* it drained a GameInfo for its download
    waitsOn,       \* the leader whose inflightEntry it waits on
    gone,          \* requests whose client hung up (the live ctx is done)
    disk,          \* the files of each tier, by demo
    badPack,       \* demos whose pack file is corrupt
    mem, pages,    \* the LRUs of Results and of encoded /result bodies
    computed,      \* Results whose LOS latch is set
    packVerified,  \* demos whose pack this process has checked or written
    lastResolved,  \* demos with a stashed GameInfo
    inflight,      \* the leader of each demo's flight
    entry,         \* what each leader's inflightEntry holds
    closed,        \* leaders whose entry's done channel is closed
    slots,         \* holders of a parseSem slot
    lock           \* holder of each per-SHA lock

local == <<pc, res, info, waitsOn>>
memory == <<mem, pages, computed, packVerified, lastResolved>>
flight == <<inflight, entry, closed>>
vars == <<job, local, gone, disk, badPack, memory, flight, slots, lock>>

Locks == {"los", "pack", "page"}

Pcs == {"start", "resolve", "stash", "enter", "wait",
        "drain", "memGet", "tier2", "acquire", "tier1", "hubResolve", "download", "parse",
        "tier2Write", "release", "retire", "close", "memPut",
        "losLock", "losCheck", "losSplice", "losAcquire", "losBuild", "losStore", "losRelease", "losUnlock",
        "pageGet", "pageLock", "pageAgain", "pageLosLock", "pageCopy", "pageAcquire",
        "pagePut", "pageRelease", "pageUnlock",
        "packLock", "packRead", "packAcquire", "packWrite", "packRelease", "packUnlock",
        "viewRead", "putWrite", "rmTier1", "rmTier2", "rmMem", "rmPages", "done"}

TypeOK ==
    /\ job \in [Requests -> Jobs]
    /\ pc \in [Requests -> Pcs]
    /\ res \in [Requests -> Requests \cup Errors \cup {None}]
    /\ info \in [Requests -> BOOLEAN]
    /\ waitsOn \in [Requests -> Requests \cup {None}]
    /\ gone \subseteq Requests
    /\ disk \in [Tiers -> SUBSET Shas]
    /\ badPack \subseteq Shas
    /\ mem \in Seq([key : Shas, val : Requests])
    /\ pages \in Seq([key : Shas, val : Requests])
    /\ computed \subseteq Requests
    /\ packVerified \subseteq Shas
    /\ lastResolved \subseteq Shas
    /\ inflight \in [Shas -> Requests \cup {None}]
    /\ entry \in [Requests -> Requests \cup Errors \cup {None}]
    /\ closed \subseteq Requests
    /\ slots \subseteq Requests
    /\ lock \in [Locks -> [Shas -> Requests \cup {None}]]

Init ==
    /\ job \in [Requests -> Jobs]
    /\ pc = [r \in Requests |-> "start"]
    /\ res = [r \in Requests |-> None]
    /\ info = [r \in Requests |-> FALSE]
    /\ waitsOn = [r \in Requests |-> None]
    /\ gone = {}
    /\ disk \in Disks
    /\ badPack \in IF "decode" \in Faults THEN SUBSET disk["pack"] ELSE {{}}
    /\ mem = <<>>
    /\ pages = <<>>
    /\ computed = {}
    /\ packVerified = {}
    /\ lastResolved = {}
    /\ inflight = [s \in Shas |-> None]
    /\ entry = [r \in Requests |-> None]
    /\ closed = {}
    /\ slots = {}
    /\ lock = [k \in Locks |-> [s \in Shas |-> None]]

-----------------------------------------------------------------------------
(* Helpers *)

Op(r) == job[r].op
Sha(r) == job[r].sha
Failed(o) == o \in Errors

OnDisk(t, s) == s \in disk[t]
Written(t, s) == [disk EXCEPT ![t] = @ \cup {s}]
Removed(t, s) == [disk EXCEPT ![t] = @ \ {s}]

\* r moves from one step to the next and does nothing else to its own state.
Step(r, from, to) == pc[r] = from /\ pc' = [pc EXCEPT ![r] = to]
Keep == UNCHANGED <<res, info, waitsOn>>

\* Wrong: one slot too many.
TakeSlotOneMore(r) == Cardinality(slots) <= MaxParses /\ slots' = slots \cup {r}

\* acquireParse: a slot of the counting semaphore.
TakeSlot(r) == Cardinality(slots) < MaxParses /\ slots' = slots \cup {r}
FreeSlot(r) == slots' = slots \ {r}

\* KeyedMutex.Lock(sha) and the unlock it returns, on one of the three locks.
TakeLock(r, k) ==
    /\ lock[k][Sha(r)] = None
    /\ lock' = [lock EXCEPT ![k] = [@ EXCEPT ![Sha(r)] = r]]
FreeLock(r, k) ==
    lock' = [lock EXCEPT ![k] = [@ EXCEPT ![Sha(r)] = None]]

HoldsPackLock(r) == lock["pack"][Sha(r)] = r

Fault(f) == f \in Faults

\* Where a resolved request goes on: PositionPack resolves a second time, in
\* GetResult, with its lock held.
AfterResolve(r) ==
    IF Op(r) = "pack" /\ ~HoldsPackLock(r) THEN "packLock" ELSE "enter"

\* Wrong: PositionPack returns GetResult's error with its lock held.
AfterErrorLocked(r, o) ==
    IF Op(r) = "upload" /\ o = "parseError" THEN "rmTier1" ELSE "done"

\* Where the caller of resolveSHA, GetResult or Warm's flight goes on with the
\* error o: PositionPack unlocks, the upload path removes what does not parse.
AfterError(r, o) ==
    IF HoldsPackLock(r) THEN "packUnlock"
    ELSE IF Op(r) = "upload" /\ o = "parseError" THEN "rmTier1"
    ELSE "done"

\* Wrong: the warmer goes through GetResult.
AfterFlightCached(r, o) == IF Failed(o) THEN AfterError(r, o) ELSE "memPut"

AfterFlight(r, o) ==
    IF Failed(o) THEN AfterError(r, o)
    ELSE IF Op(r) = "warm" THEN "packLock"
    ELSE "memPut"

\* Where GetResult's caller goes on with the Result.
AfterGetResult(r) ==
    IF Op(r) = "get" THEN "viewRead"
    ELSE IF Op(r) = "los" /\ Sha(r) \notin NoStreams THEN "losLock"
    ELSE IF Op(r) = "page" THEN "pageGet"
    ELSE IF Op(r) = "pack" THEN "packAcquire"
    ELSE IF Op(r) = "upload" /\ Sha(r) \in Degenerate THEN "rmTier1"
    ELSE "done"

\* A file write that may fail where the code goes on regardless.
BestEffortWrite(t, s) ==
    \/ disk' = Written(t, s)
    \/ Fault("write") /\ UNCHANGED disk

-----------------------------------------------------------------------------
(* The first step of a request: PutDemo's Stat, Warm's two, or nothing yet. *)

Arrive(r) ==
    /\ \/ /\ Op(r) = "upload"
          /\ Step(r, "start", IF OnDisk("tier1", Sha(r)) THEN "enter" ELSE "putWrite")
       \/ /\ Op(r) = "warm" /\ OnDisk("tier2", Sha(r)) /\ OnDisk("pack", Sha(r))
          /\ Step(r, "start", "done")
       \/ /\ Op(r) = "warm" => ~(OnDisk("tier2", Sha(r)) /\ OnDisk("pack", Sha(r)))
          /\ Op(r) # "upload"
          /\ Step(r, "start", "resolve")
    /\ Keep /\ UNCHANGED <<job, gone, disk, badPack, memory, flight, slots, lock>>

\* PutDemo stores a body it did not find.
PutWrite(r) ==
    /\ \/ /\ Step(r, "putWrite", "enter")
          /\ disk' = Written("tier1", Sha(r))
          /\ UNCHANGED res
       \/ /\ Fault("write")
          /\ Step(r, "putWrite", "done")
          /\ res' = [res EXCEPT ![r] = "writeError"]
          /\ UNCHANGED disk
    /\ UNCHANGED <<job, info, waitsOn, gone, badPack, memory, flight, slots, lock>>

\* resolveSHA for an address the disk can answer: a sha, or an indexed gameId.
ResolveLocally(r) ==
    /\ Op(r) # "warm"
    /\ job[r].kind = "gameId" => OnDisk("index", Sha(r))
    /\ Step(r, "resolve", AfterResolve(r))
    /\ Keep /\ UNCHANGED <<job, gone, disk, badPack, memory, flight, slots, lock>>

\* resolveSHA asks the hub and keeps the answer in the index if it can be
\* written; Warm has the answer from its listing and does the same.
ResolveByHub(r) ==
    /\ Op(r) = "warm" \/ (job[r].kind = "gameId" /\ ~OnDisk("index", Sha(r)))
    /\ \/ /\ Step(r, "resolve", "stash")
          /\ BestEffortWrite("index", Sha(r))
          /\ UNCHANGED res
       \/ /\ Fault("hub") /\ Op(r) # "warm"
          /\ \E e \in HubErrors : /\ Step(r, "resolve", AfterError(r, e))
                                 /\ res' = [res EXCEPT ![r] = e]
          /\ UNCHANGED disk
    /\ UNCHANGED <<job, info, waitsOn, gone, badPack, memory, flight, slots, lock>>

\* lastResolved.Store, for the flight that is to download.
Stash(r) ==
    /\ Step(r, "stash", IF Op(r) = "warm" THEN "enter" ELSE AfterResolve(r))
    /\ lastResolved' = lastResolved \cup {Sha(r)}
    /\ Keep
    /\ UNCHANGED <<job, gone, disk, badPack, mem, pages, computed, packVerified, flight, slots, lock>>

-----------------------------------------------------------------------------
(* getOrCompute: the first request for a demo leads, the others wait. *)

\* Wrong: nobody looks for a flight under way.
LeadAlways(r) ==
    /\ Step(r, "enter", "drain")
    /\ inflight' = [inflight EXCEPT ![Sha(r)] = r]
    /\ Keep /\ UNCHANGED <<job, gone, disk, badPack, memory, entry, closed, slots, lock>>

Lead(r) ==
    /\ Step(r, "enter", "drain")
    /\ inflight[Sha(r)] = None
    /\ inflight' = [inflight EXCEPT ![Sha(r)] = r]
    /\ Keep /\ UNCHANGED <<job, gone, disk, badPack, memory, entry, closed, slots, lock>>

Follow(r) ==
    /\ Step(r, "enter", "wait")
    /\ inflight[Sha(r)] # None
    /\ waitsOn' = [waitsOn EXCEPT ![r] = inflight[Sha(r)]]
    /\ UNCHANGED <<job, res, info, gone, disk, badPack, memory, flight, slots, lock>>

\* <-existing.done, and the triplet the leader left.
Await(r) ==
    /\ waitsOn[r] \in closed
    /\ Step(r, "wait", AfterFlight(r, entry[waitsOn[r]]))
    /\ res' = [res EXCEPT ![r] = entry[waitsOn[r]]]
    /\ UNCHANGED <<job, info, waitsOn, gone, disk, badPack, memory, flight, slots, lock>>

\* The leader's deferred inflight.Delete ...
Retire(r) ==
    /\ Step(r, "retire", "close")
    /\ inflight' = [inflight EXCEPT ![Sha(r)] = None]
    /\ Keep /\ UNCHANGED <<job, gone, disk, badPack, memory, entry, closed, slots, lock>>

\* Wrong: the flight is deleted and its channel never closed.
CloseForgets(r) ==
    /\ Step(r, "close", AfterFlight(r, entry[r]))
    /\ res' = [res EXCEPT ![r] = entry[r]]
    /\ UNCHANGED <<job, info, waitsOn, gone, disk, badPack, memory, flight, slots, lock>>

\* ... and close(done), after which it returns the same triplet.
Close(r) ==
    /\ Step(r, "close", AfterFlight(r, entry[r]))
    /\ closed' = closed \cup {r}
    /\ res' = [res EXCEPT ![r] = entry[r]]
    /\ UNCHANGED <<job, info, waitsOn, gone, disk, badPack, memory, inflight, entry, slots, lock>>

-----------------------------------------------------------------------------
(* loadResult, run by the leader *)

\* The leader's compute ends with outcome o and goes on at `to'.
Settle(r, from, to, o) ==
    /\ Step(r, from, to)
    /\ entry' = [entry EXCEPT ![r] = o]

Drain(r) ==
    /\ Step(r, "drain", "memGet")
    /\ info' = [info EXCEPT ![r] = Sha(r) \in lastResolved]
    /\ lastResolved' = lastResolved \ {Sha(r)}
    /\ UNCHANGED <<job, res, waitsOn, gone, disk, badPack, mem, pages, computed, packVerified,
                   flight, slots, lock>>

\* Wrong: a miss in memory goes straight to the parse.
MemGetOnly(r) ==
    /\ \/ /\ Holds(mem, Sha(r))
          /\ Settle(r, "memGet", "retire", Value(mem, Sha(r)))
          /\ mem' = Touched(mem, Sha(r))
       \/ /\ ~Holds(mem, Sha(r))
          /\ Step(r, "memGet", "acquire")
          /\ UNCHANGED <<mem, entry>>
    /\ Keep
    /\ UNCHANGED <<job, gone, disk, badPack, pages, computed, packVerified, lastResolved,
                   inflight, closed, slots, lock>>

MemGet(r) ==
    /\ \/ /\ Holds(mem, Sha(r))
          /\ Settle(r, "memGet", "retire", Value(mem, Sha(r)))
          /\ mem' = Touched(mem, Sha(r))
       \/ /\ ~Holds(mem, Sha(r))
          /\ Step(r, "memGet", "tier2")
          /\ UNCHANGED <<mem, entry>>
    /\ Keep
    /\ UNCHANGED <<job, gone, disk, badPack, pages, computed, packVerified, lastResolved,
                   inflight, closed, slots, lock>>

\* Reads and decodes the parsed Result; an unreadable one is parsed again.
ReadTier2(r) ==
    /\ \/ /\ OnDisk("tier2", Sha(r))
          /\ Settle(r, "tier2", "retire", r)
       \/ /\ ~OnDisk("tier2", Sha(r)) \/ Fault("decode")
          /\ Step(r, "tier2", "acquire")
          /\ UNCHANGED entry
    /\ Keep /\ UNCHANGED <<job, gone, disk, badPack, memory, inflight, closed, slots, lock>>

\* Wrong: the flight waits under its leader's own context.
AcquireParseLive(r) ==
    /\ \/ Step(r, "acquire", "tier1") /\ TakeSlot(r) /\ UNCHANGED entry
       \/ r \in gone /\ Settle(r, "acquire", "retire", "canceled") /\ UNCHANGED slots
    /\ Keep /\ UNCHANGED <<job, gone, disk, badPack, memory, inflight, closed, lock>>

\* acquireParse with the caller's cancellation stripped.
AcquireParse(r) ==
    /\ Step(r, "acquire", "tier1")
    /\ TakeSlot(r)
    /\ Keep /\ UNCHANGED <<job, gone, disk, badPack, memory, flight, lock>>

\* Reads the demo, or finds out where to download it.
ReadTier1(r) ==
    /\ \/ /\ OnDisk("tier1", Sha(r))
          /\ Step(r, "tier1", "parse")
          /\ UNCHANGED entry
       \/ /\ ~OnDisk("tier1", Sha(r))
          /\ info[r] \/ job[r].kind = "gameId"
          /\ Step(r, "tier1", IF info[r] THEN "download" ELSE "hubResolve")
          /\ UNCHANGED entry
       \/ /\ ~OnDisk("tier1", Sha(r))
          /\ ~info[r] /\ job[r].kind = "sha256"
          /\ Settle(r, "tier1", "release", "notFound")
    /\ Keep /\ UNCHANGED <<job, gone, disk, badPack, memory, inflight, closed, slots, lock>>

ResolveDownload(r) ==
    /\ \/ Step(r, "hubResolve", "download") /\ UNCHANGED entry
       \/ Fault("hub") /\ \E e \in HubErrors : Settle(r, "hubResolve", "release", e)
    /\ Keep /\ UNCHANGED <<job, gone, disk, badPack, memory, inflight, closed, slots, lock>>

\* Downloads, authenticates and keeps the demo.
Download(r) ==
    /\ \/ /\ Step(r, "download", "parse")
          /\ disk' = Written("tier1", Sha(r))
          /\ UNCHANGED entry
       \/ /\ Fault("hub") /\ Settle(r, "download", "release", "hubUpstream")
          /\ UNCHANGED disk
       \/ /\ Fault("write") /\ Settle(r, "download", "release", "writeError")
          /\ UNCHANGED disk
    /\ Keep /\ UNCHANGED <<job, gone, badPack, memory, inflight, closed, slots, lock>>

\* Wrong (F13): nothing recovers the panic, and the flight settles on a nil
\* Result with a nil error.
ParseUnrecovered(r) ==
    /\ \/ Settle(r, "parse", "tier2Write", r)
       \/ Fault("parse") /\ Settle(r, "parse", "release", "parseError")
       \/ Fault("panic") /\ Settle(r, "parse", "release", None)
    /\ Keep /\ UNCHANGED <<job, gone, disk, badPack, memory, inflight, closed, slots, lock>>

\* Parse; a panic unwinds through the deferred release into getOrCompute's
\* recover, which makes it the flight's error.
Parse(r) ==
    /\ \/ Settle(r, "parse", "tier2Write", r)
       \/ Fault("parse") /\ Settle(r, "parse", "release", "parseError")
       \/ Fault("panic") /\ Settle(r, "parse", "release", "panicked")
    /\ Keep /\ UNCHANGED <<job, gone, disk, badPack, memory, inflight, closed, slots, lock>>

WriteTier2(r) ==
    /\ Step(r, "tier2Write", "release")
    /\ BestEffortWrite("tier2", Sha(r))
    /\ Keep /\ UNCHANGED <<job, gone, badPack, memory, flight, slots, lock>>

ReleaseParse(r) ==
    /\ Step(r, "release", "retire")
    /\ FreeSlot(r)
    /\ Keep /\ UNCHANGED <<job, gone, disk, badPack, memory, flight, lock>>

\* GetResult puts the Result it was given into the LRU, led or followed.
MemPut(r) ==
    /\ Step(r, "memPut", AfterGetResult(r))
    /\ mem' = Put(mem, Sha(r), res[r], MemoryLRU)
    /\ Keep
    /\ UNCHANGED <<job, gone, disk, badPack, pages, computed, packVerified, lastResolved,
                   flight, slots, lock>>

Load(r) ==
    \/ Drain(r) \/ MemGet(r) \/ ReadTier2(r) \/ AcquireParse(r) \/ ReadTier1(r)
    \/ ResolveDownload(r) \/ Download(r) \/ Parse(r) \/ WriteTier2(r) \/ ReleaseParse(r)

GetResult(r) ==
    \/ ResolveLocally(r) \/ ResolveByHub(r) \/ Stash(r)
    \/ Lead(r) \/ Follow(r) \/ Await(r) \/ Load(r) \/ Retire(r) \/ Close(r) \/ MemPut(r)

\* A view endpoint reads the Result it was given, with no lock held;
\* handleOverview's losPredicted reads its latch and its intervals.
ViewRead(r) ==
    /\ Step(r, "viewRead", "done")
    /\ Keep /\ UNCHANGED <<job, gone, disk, badPack, memory, flight, slots, lock>>

-----------------------------------------------------------------------------
(* EnsureLOS *)

\* Taking and giving back one of the per-SHA locks.
Locked(r, k, from, to) ==
    /\ Step(r, from, to) /\ TakeLock(r, k)
    /\ Keep /\ UNCHANGED <<job, gone, disk, badPack, memory, flight, slots>>

Unlocked(r, k, from, to) ==
    /\ Step(r, from, to) /\ FreeLock(r, k)
    /\ Keep /\ UNCHANGED <<job, gone, disk, badPack, memory, flight, slots>>

\* acquireParse with the live ctx: the wait ends with a slot, or with the
\* client's cancellation.
AcquireLive(r, from, to, giveUp) ==
    /\ \/ Step(r, from, to) /\ TakeSlot(r) /\ UNCHANGED res
       \/ /\ r \in gone
          /\ Step(r, from, giveUp)
          /\ res' = [res EXCEPT ![r] = "canceled"]
          /\ UNCHANGED slots
    /\ UNCHANGED <<job, info, waitsOn, gone, disk, badPack, memory, flight, lock>>

ReleaseSlot(r, from, to) ==
    /\ Step(r, from, to) /\ FreeSlot(r)
    /\ Keep /\ UNCHANGED <<job, gone, disk, badPack, memory, flight, lock>>

\* Wrong: the latch is read and set without the demo's lock.
LosLockMissing(r) ==
    /\ Step(r, "losLock", "losCheck")
    /\ Keep /\ UNCHANGED <<job, gone, disk, badPack, memory, flight, slots, lock>>

LosLock(r) == Locked(r, "los", "losLock", "losCheck")

\* The need-check inside the lock: the latch, then the tier-3 file.
LosCheck(r) ==
    /\ \/ res[r] \in computed /\ Step(r, "losCheck", "losUnlock")
       \/ /\ res[r] \notin computed
          /\ \/ OnDisk("los", Sha(r)) /\ Step(r, "losCheck", "losSplice")
             \/ /\ ~OnDisk("los", Sha(r)) \/ Fault("decode")
                /\ Step(r, "losCheck", "losAcquire")
    /\ Keep /\ UNCHANGED <<job, gone, disk, badPack, memory, flight, slots, lock>>

\* DecodeTier3 writes the intervals into the shared Result.
LosSplice(r) ==
    /\ Step(r, "losSplice", "losUnlock")
    /\ computed' = computed \cup {res[r]}
    /\ Keep
    /\ UNCHANGED <<job, gone, disk, badPack, mem, pages, packVerified, lastResolved,
                   flight, slots, lock>>

\* Wrong: who gives up waiting for the slot keeps the demo's lock.
LosAcquireLeaks(r) == AcquireLive(r, "losAcquire", "losBuild", "done")

LosAcquire(r) == AcquireLive(r, "losAcquire", "losBuild", "losUnlock")

\* Wrong: the early return without a BSP keeps the slot.
LosBuildLeaks(r) ==
    /\ \/ /\ Step(r, "losBuild", "losStore")
          /\ computed' = computed \cup {res[r]}
          /\ UNCHANGED res
       \/ /\ Fault("noBSP")
          /\ Step(r, "losBuild", "losUnlock")
          /\ res' = [res EXCEPT ![r] = "losUnavailable"]
          /\ UNCHANGED computed
    /\ UNCHANGED <<job, info, waitsOn, gone, disk, badPack, mem, pages, packVerified,
                   lastResolved, flight, slots, lock>>

\* The raycast writes the intervals into the shared Result, or finds no BSP.
LosBuild(r) ==
    /\ \/ /\ Step(r, "losBuild", "losStore")
          /\ computed' = computed \cup {res[r]}
          /\ UNCHANGED res
       \/ /\ Fault("noBSP")
          /\ Step(r, "losBuild", "losRelease")
          /\ res' = [res EXCEPT ![r] = "losUnavailable"]
          /\ UNCHANGED computed
    /\ UNCHANGED <<job, info, waitsOn, gone, disk, badPack, mem, pages, packVerified,
                   lastResolved, flight, slots, lock>>

LosStore(r) ==
    /\ Step(r, "losStore", "losRelease")
    /\ BestEffortWrite("los", Sha(r))
    /\ Keep /\ UNCHANGED <<job, gone, badPack, memory, flight, slots, lock>>

LosRelease(r) == ReleaseSlot(r, "losRelease", "losUnlock")
LosUnlock(r) == Unlocked(r, "los", "losUnlock", "done")

EnsureLOS(r) ==
    \/ LosLock(r) \/ LosCheck(r) \/ LosSplice(r) \/ LosAcquire(r) \/ LosBuild(r)
    \/ LosStore(r) \/ LosRelease(r) \/ LosUnlock(r)

-----------------------------------------------------------------------------
(* PageResult *)

\* pages.get, before the page lock and again under it.
PageLookup(r, from, hit, miss) ==
    /\ Step(r, from, IF Holds(pages, Sha(r)) THEN hit ELSE miss)
    /\ pages' = Touched(pages, Sha(r))
    /\ Keep
    /\ UNCHANGED <<job, gone, disk, badPack, mem, computed, packVerified, lastResolved,
                   flight, slots, lock>>

PageGet(r) == PageLookup(r, "pageGet", "done", "pageLock")
PageLock(r) == Locked(r, "page", "pageLock", "pageAgain")
PageAgain(r) == PageLookup(r, "pageAgain", "pageUnlock", "pageLosLock")

\* Wrong: the Result is copied without the LOS lock.
PageLosLockMissing(r) ==
    /\ Step(r, "pageLosLock", "pageCopy")
    /\ Keep /\ UNCHANGED <<job, gone, disk, badPack, memory, flight, slots, lock>>

\* view.PageResult copies the Result, players' streams included, under the
\* demo's LOS lock.
PageLosLock(r) == Locked(r, "los", "pageLosLock", "pageCopy")
PageCopied(r) == Unlocked(r, "los", "pageCopy", "pageAcquire")

PageAcquire(r) == AcquireLive(r, "pageAcquire", "pagePut", "pageUnlock")

\* The copy is marshalled and compressed, and the body kept.
PagePut(r) ==
    /\ Step(r, "pagePut", "pageRelease")
    /\ \/ pages' = Put(pages, Sha(r), res[r], PageLRU) /\ UNCHANGED res
       \/ Fault("encode") /\ res' = [res EXCEPT ![r] = "encodeError"] /\ UNCHANGED pages
    /\ UNCHANGED <<job, info, waitsOn, gone, disk, badPack, mem, computed, packVerified, lastResolved,
                   flight, slots, lock>>

PageRelease(r) == ReleaseSlot(r, "pageRelease", "pageUnlock")
PageUnlock(r) == Unlocked(r, "page", "pageUnlock", "done")

PageResult(r) ==
    \/ PageGet(r) \/ PageLock(r) \/ PageAgain(r) \/ PageLosLock(r) \/ PageCopied(r)
    \/ PageAcquire(r) \/ PagePut(r) \/ PageRelease(r) \/ PageUnlock(r)

-----------------------------------------------------------------------------
(* PositionPack, and Warm past its flight *)

PackLock(r) == Locked(r, "pack", "packLock", "packRead")

\* Wrong: a file that is there is taken as checked.
PackReadUnchecked(r) ==
    /\ \/ /\ OnDisk("pack", Sha(r))
          /\ Step(r, "packRead", "packUnlock")
          /\ packVerified' = packVerified \cup {Sha(r)}
       \/ /\ ~OnDisk("pack", Sha(r))
          /\ Step(r, "packRead", IF Op(r) = "warm" THEN "packAcquire" ELSE "resolve")
          /\ UNCHANGED packVerified
    /\ Keep
    /\ UNCHANGED <<job, gone, disk, badPack, mem, pages, computed, lastResolved, flight,
                   slots, lock>>

\* readPositionPack: a file this process has not checked yet is checked, and
\* removed if it is corrupt.  A miss takes PositionPack to GetResult; Warm has
\* its Result already.
PackRead(r) ==
    LET s == Sha(r)
        fits == s \in packVerified \/ s \notin badPack
        miss == IF Op(r) = "warm" THEN "packAcquire" ELSE "resolve"
    IN  /\ \/ /\ OnDisk("pack", s) /\ fits
              /\ Step(r, "packRead", "packUnlock")
              /\ packVerified' = packVerified \cup {s}
              /\ UNCHANGED <<disk, badPack>>
           \/ /\ OnDisk("pack", s) /\ ~fits
              /\ Step(r, "packRead", miss)
              /\ disk' = Removed("pack", s)
              /\ badPack' = badPack \ {s}
              /\ UNCHANGED packVerified
           \/ /\ ~OnDisk("pack", s)
              /\ Step(r, "packRead", miss)
              /\ UNCHANGED <<disk, badPack, packVerified>>
        /\ Keep
        /\ UNCHANGED <<job, gone, mem, pages, computed, lastResolved, flight, slots, lock>>

\* Wrong: packs are encoded outside the semaphore.
PackAcquireNothing(r) ==
    /\ Step(r, "packAcquire", "packWrite")
    /\ Keep /\ UNCHANGED <<job, gone, disk, badPack, memory, flight, slots, lock>>

PackAcquire(r) == AcquireLive(r, "packAcquire", "packWrite", "packUnlock")

\* buildPositionPack's file; without it the next request builds it again.
PackWrite(r) ==
    /\ Step(r, "packWrite", "packRelease")
    /\ \/ /\ disk' = Written("pack", Sha(r))
          /\ badPack' = badPack \ {Sha(r)}
          /\ packVerified' = packVerified \cup {Sha(r)}
       \/ Fault("write") /\ UNCHANGED <<disk, badPack, packVerified>>
    /\ Keep
    /\ UNCHANGED <<job, gone, mem, pages, computed, lastResolved, flight, slots, lock>>

PackRelease(r) == ReleaseSlot(r, "packRelease", "packUnlock")
PackUnlock(r) == Unlocked(r, "pack", "packUnlock", "done")

PositionPack(r) ==
    \/ PackLock(r) \/ PackRead(r) \/ PackAcquire(r) \/ PackWrite(r) \/ PackRelease(r)
    \/ PackUnlock(r)

-----------------------------------------------------------------------------
(* RemoveDemo, when the upload path rejects a body *)

RemoveFile(r, t, from, to) ==
    /\ Step(r, from, to)
    /\ disk' = Removed(t, Sha(r))
    /\ Keep /\ UNCHANGED <<job, gone, badPack, memory, flight, slots, lock>>

RemoveTier1(r) == RemoveFile(r, "tier1", "rmTier1", "rmTier2")
RemoveTier2(r) == RemoveFile(r, "tier2", "rmTier2", "rmMem")

RemoveMem(r) ==
    /\ Step(r, "rmMem", "rmPages")
    /\ mem' = Delete(mem, Sha(r))
    /\ Keep
    /\ UNCHANGED <<job, gone, disk, badPack, pages, computed, packVerified, lastResolved,
                   flight, slots, lock>>

RemovePages(r) ==
    /\ Step(r, "rmPages", "done")
    /\ pages' = Delete(pages, Sha(r))
    /\ res' = [res EXCEPT ![r] = "rejected"]
    /\ UNCHANGED <<job, info, waitsOn, gone, disk, badPack, mem, computed, packVerified,
                   lastResolved, flight, slots, lock>>

RemoveDemo(r) == RemoveTier1(r) \/ RemoveTier2(r) \/ RemoveMem(r) \/ RemovePages(r)

-----------------------------------------------------------------------------
(* Around the requests *)

\* The client hangs up: the request's ctx is done from here on.
HangUp(r) ==
    /\ Fault("cancel")
    /\ pc[r] # "done" /\ r \notin gone
    /\ gone' = gone \cup {r}
    /\ UNCHANGED <<job, local, disk, badPack, memory, flight, slots, lock>>

\* The budget sweep or the prune command removes one file.  Which one, and
\* when, is CacheGC's business; here it may be any, at any time.
Evict(t, s) ==
    /\ t \in Evicting /\ OnDisk(t, s)
    /\ disk' = Removed(t, s)
    /\ badPack' = IF t = "pack" THEN badPack \ {s} ELSE badPack
    /\ UNCHANGED <<job, local, gone, memory, flight, slots, lock>>

AllDone == \A r \in Requests : pc[r] = "done"

\* Nothing left to do: the process idles.
Idle == AllDone /\ UNCHANGED vars

Serve(r) ==
    \/ Arrive(r) \/ PutWrite(r) \/ GetResult(r) \/ ViewRead(r) \/ EnsureLOS(r)
    \/ PageResult(r) \/ PositionPack(r) \/ RemoveDemo(r)

Next ==
    \/ \E r \in Requests : Serve(r) \/ HangUp(r)
    \/ \E t \in Tiers, s \in Shas : Evict(t, s)
    \/ Idle

Spec == Init /\ [][Next]_vars

\* A goroutine that can run does.  Channel sends and mutexes hand themselves to
\* a waiter once they stay free; nothing is assumed of clients or the sweep.
FairSpec == Spec /\ \A r \in Requests : WF_vars(Serve(r))

-----------------------------------------------------------------------------
(* Properties *)

\* The steps of a flight's leader, of heavy cold work, and of writing LOS into
\* a Result.
Leading == {"drain", "memGet", "tier2", "acquire", "tier1", "hubResolve", "download",
            "parse", "tier2Write", "release", "retire"}
Heavy == {"tier1", "hubResolve", "download", "parse", "tier2Write", "release",
          "losBuild", "losStore", "losRelease", "pagePut", "pageRelease",
          "packWrite", "packRelease"}
Splicing == {"losSplice", "losBuild"}

\* The semaphore bounds heavy cold operations of every kind, over all demos
\* (cache.go:168-173): never more than MaxParses downloads, parses, raycasts
\* and encodings at once, however they interleave, fail or are canceled.
HeavyWorkBounded ==
    Cardinality({r \in Requests : pc[r] \in Heavy}) <= MaxParses

\* The singleflight (cache.go:137-139): no two requests are inside loadResult
\* for one demo at the same time.
OneLoadPerDemo ==
    \A r, q \in Requests :
        pc[r] \in Leading /\ pc[q] \in Leading /\ Sha(r) = Sha(q) => r = q

\* A load parses only what the cache does not have: nobody gets to Parse while
\* the demo's tier-2 Result is on disk (a decode failure aside).
ParsesOnlyMissing ==
    \A r \in Requests : pc[r] = "parse" => ~OnDisk("tier2", Sha(r))

\* F13 (singleflight.go:78-84): whoever leaves the flight on the success path
\* has a Result, of its own demo, led or followed, whatever the parse did; and
\* the LRUs hold every Result under its own demo.
AnsweredWithOwnDemo ==
    /\ \A r \in Requests :
          pc[r] = "memPut" \/ (pc[r] = "done" /\ Op(r) = "get" /\ ~Failed(res[r])) =>
              res[r] \in Requests /\ Sha(res[r]) = Sha(r)
    /\ \A i \in 1..Len(mem) : Sha(mem[i].val) = mem[i].key
    /\ \A i \in 1..Len(pages) : Sha(pages[i].val) = pages[i].key

\* Past its end a request holds no slot, no lock and no flight, and nobody is
\* left waiting on a flight it led (the defers on every path).
HoldsNothingWhenDone ==
    \A r \in Requests : pc[r] = "done" =>
        /\ r \notin slots
        /\ \A k \in Locks, s \in Shas : lock[k][s] # r
        /\ \A s \in Shas : inflight[s] # r
        /\ \A q \in Requests : pc[q] = "wait" /\ waitsOn[q] = r => r \in closed

\* One client's hang-up is never another's error (cache.go:258-262, 304-315).
CancelStaysPrivate ==
    \A r \in Requests : res[r] = "canceled" => r \in gone

\* EnsureLOS (cache.go:180-184): the intervals of one Result are written by one
\* request at a time, and never again once they are there.
LosWrittenOnce ==
    \A r, q \in Requests :
        pc[r] \in Splicing /\ pc[q] \in Splicing \cup {"losStore"} /\ res[r] = res[q] =>
            r = q /\ res[r] \notin computed

\* page.go:25-29: the copy of a Result for /result is not taken while its
\* intervals are being written.
NoTornCopy ==
    \A r, q \in Requests :
        pc[r] = "pageCopy" /\ pc[q] \in Splicing => res[r] # res[q]

\* positions.go:101-105: a pack this process takes as checked is not corrupt,
\* so a corrupt one is rebuilt and never served.
VerifiedPackIsSound == \A s \in packVerified : s \notin badPack

\* warm.go:19-22, cache.go:342-346: the LRU holds only what a visitor loaded.
MemHoldsVisitedOnly ==
    \A i \in 1..Len(mem) : \E r \in Requests :
        Op(r) # "warm" /\ Sha(r) = mem[i].key /\ res[r] # None

\* The LRUs keep their bounds and never hold a key twice.
LrusWellFormed == WellFormed(mem, MemoryLRU) /\ WellFormed(pages, PageLRU)

\* Every request is answered: no lock order, queue for slots, dead leader or
\* hang-up leaves it waiting (cache.go:630-635).
EveryRequestAnswered == \A r \in Requests : <>(pc[r] = "done")
=============================================================================
