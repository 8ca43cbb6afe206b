# A verification of mvd_analyzer

TLA+ modules of the parts of this repository whose correctness depends on the
order in which things happen, TLC runs over small instances of them, and TLAPS
proofs for every size. File names below are relative to `src/`; a module's
definitions carry the names of the code they stand for, and `PROJECT.json` maps
each to its lines.

## 1. The system

mvd_analyzer turns recorded QuakeWorld games (MVD demos) into statistics. The Go
module `mvd-reader` decodes a demo into events, `mvd-analytics` runs some forty
analyzers over them and produces one `Result`, `mvd-api` serves Results and
projections of them over HTTP from a cache, `mvd-mcp` offers the API to language
models, and the web page shows demos, either from the API or by running the
analyzers as WASM in a worker.

| component | state it keeps | operations | what is hard | what makes it correct |
|---|---|---|---|---|
| demo cache, `mvd-api/internal/democache` | four kinds of files keyed by demo hash (demo, Result, tier-3 artifacts, gameId index); two LRUs; flights in a `sync.Map`; stashed hub rows; a semaphore; three tables of keyed locks; a set of verified packs | `GetResult`, `EnsureLOS`, `PageResult`, `PositionPack`, `Warm`, `PutDemo`, `RemoveDemo`, sweep | every request is a goroutine; flights are shared; Results are shared and written to (line of sight); clients hang up; the hub, the disk and the parser fail; files vanish | one load per demo; bounded work; nobody gets another's failure or another's demo; nothing left held; every request answered |
| its keyed mutex, `keyedmutex.go` | a map of counted mutexes under a mutex | `Lock`, unlock | entries are shared, counted and dropped while others look them up | one mutex per key; no leak |
| its LRU, `lru.go` | list and index | `get`, `put`, `delete` | capacity and duplicates | bounded, unique keys |
| its disk budget, `gc.go` | the files' sizes and times | scan, sweep, prune | sweeps race with reads, writes and another process's sweep | stays within the budget, never removes what is in use wrongly |
| hub warmer, `mvd-api/warm.go` | what is done, failures and retry times per game | a tick over the hub's listing | outages, overruns, backoff, pruning | every game prepared once; failing ones retried at a bounded rate |
| upload path, `upload.go`, `uploadledger.go` | a daily byte and game count per key | upload, charge | the parse gate removes a rejected demo while others read it | a rejected demo is gone |
| rate limits, `ratelimit.go` | token buckets per key and client, swept | `allow` | eviction of buckets | no client gets more than its rate |
| key store, `internal/authkeys` | `keys.json`, a table of it in every process, its mtime, an advisory lock | issue, revoke, look up, open | a server and a command change one file; a lookup looks at the file once per interval; writes fail, processes die | one table changed by one command at a time; one active key per user; a revoked key stops working within the interval |
| portal, MCP server, deployment | OAuth cookies; none; none | redirects, proxying | | |
| demo reader, `mvd-reader` | unfinished console lines, the match flag, each slot's name, health and life | one handler per message | a server sends messages in any order; one fact is told by several | each line once and in order; one match start; each death told |
| match clock, `analyzer/matchtiming.go` | start and end of the match | an event | it sees only the parser's events | agrees with the parser |
| event pipeline, `analyzer/registry.go`, `prefetch.go` | two bounded channels between three goroutines, buffers that cycle | `Next`, `Read`, `halt` | stop, errors and panics cross goroutines | the same events in the same order as on one goroutine; everybody ends |
| analyzer graph, `analyzer/dag.go` | the declared edges, the sections of the Result | validate, sort, finalize | the sort has ties; nodes rewrite what others wrote | the edges order whoever meets in a section |
| analyzers, views, damage reconstruction, geometry | per-demo accumulators | one pass of domain logic | numbers | golden files; what they share is the graph's concern |
| web page data sources, `mvd-web/src/data` | the current demo, load counters, a worker | `load`, queries | overlapping loads, late answers | the last load asked for is shown |

The components meet as follows. A handler calls the cache, once or twice, on its
own goroutine. The warmer calls `Cache.Warm` from one background goroutine, and
that enters the same flights as the handlers. The cache calls the hub for a
game's row and the CDN for its demo, and starts sweeps of its own directory. The
event pipeline runs inside the cache's parse: bytes are inflated, decoded
into messages, parsed into events and shown to the analyzers, which are then
finalized in the graph's order. The key store is shared between
the server and a command line tool through the file system. The web page calls
the API and its own worker.

## 2. The modules

| module | stands for | extends, or is used by |
|---|---|---|
| `KeyedLock` | what `KeyedMutex` promises: one mutex per key | |
| `KeyedMutex` | `keyedmutex.go`, every access to shared memory a step | refines `KeyedLock` |
| `Lru` | `lru.go` as operators on sequences, front first | used by `DemoCache` |
| `DemoCache`, `MCDemoCache` | the cache under concurrent requests, and instances | extends `Lru`, takes its locks as `KeyedLock` gives them |
| `HubWarmer`, `MCHubWarmer` | `warm.go`'s loop, and instances | calls what `DemoCache` models as `warm` requests |
| `EventStream` | the event pass on one goroutine: what `-parallel` must not change | |
| `EventPipeline`, `MCEventPipeline` | the event pass on three goroutines, and instances | refines `EventStream`; `DemoCache` has it as the parse step |
| `AnalyzerNodes` | what each of the 29 nodes declares, reads and writes | |
| `AnalyzerGraph`, `MCAnalyzerGraph` | the sort and the finalize pass | extends `AnalyzerNodes`; comes after `EventStream`'s last event |
| `KeyRegister` | what the key store promises: one table, one command at a time | |
| `KeyStore`, `MCKeyStore` | `authkeys.go` and `flock_unix.go` in several processes | refines `KeyRegister` |
| `DemoParser`, `MCDemoParser` | the parser where messages depend on earlier ones, and the match clock behind it | its events are those `EventStream` numbers |
| `KeyedMutexProofs`, `LruProofs`, `DemoCacheProofs`, `HubWarmerProofs`, `EventPipelineProofs`, `AnalyzerGraphProofs`, `KeyStoreProofs`, `DemoParserProofs` | the theorems | |

Operators introduced by a comment that begins `Wrong:` are plausible bugs in the definition
that follows them. Nothing uses them; `PROJECT.json` lists which property
notices which.

### KeyedMutex

`pc` walks `Lock` and the unlock closure statement by statement: the table mutex,
the look-up, the count, the entry's own mutex, and back. Entries are heap
addresses, and an allocation may return any address nothing refers to, so an
entry reclaimed too early can come back as somebody else's. The refinement maps a
goroutine to `waiting` from the moment it asks and to `in` once it holds its entry.

### DemoCache

A request is one goroutine, of one of six operations:

| op | the code it runs |
|---|---|
| `get` | `GetResult`, and a view's read of the Result with no lock held (`handleOverview` and its like) |
| `los` | `GetResult`, then `EnsureLOS` |
| `page` | `GetResult`, then `PageResult` |
| `pack` | `PositionPack`, which locks, looks for a file and may call `GetResult` with its lock held |
| `warm` | `Warm`: the same flight, without the LRU and with its hub row at hand |
| `upload` | `PutDemo`, `GetResult`, and `RemoveDemo` if the body does not parse or has no game |

A step is one access to shared state: a look at the disk, an LRU operation, a
flight entered, retired or closed, a slot or a lock taken or given back, a write.
The order of steps is the code's, defers included (`Retire` before `Close`, the
slot given back after a panic). `pc` names the next step.

* `disk[t]` is the set of demos with a file of tier `t`. Writes are atomic
  renames in the code and one step here. `Evict` removes any file of the tiers
  in `Evicting` at any time: that is the sweep, seen from the requests.
* A `*result.Result` is named by the request that parsed or decoded it, so two
  requests share a Result exactly if `res` is equal. `computed` is the set of
  Results whose line-of-sight latch is set. Reading and writing a Result's
  intervals take a step of their own, so that a race would be seen.
* `inflight`, `entry`, `closed` are the flight map, the triplets and the channels.
* `slots` is the semaphore; `lock` has the three keyed locks.
* `gone` has the requests whose client hung up. A flight runs under a context
  whose cancellation was stripped; `EnsureLOS`, `PageResult` and the pack's
  encoding wait for a slot under the client's.
* `Faults` says which failures an instance has: hub, write, parse, panic in the
  parser, undecodable file, missing map, hang-up.

An initial state has any of the instance's disks (what an earlier process left,
corrupt packs included) and nothing in memory, so a restart is covered: nothing in memory
survives one.

### HubWarmer

One turn of the loop over a listing is one step, with the loop's tests in the
code's order: done or waiting, outage, overrun, then the call. Time passes while
the warmer sleeps and while `Cache.Warm` runs; an outage comes and goes at any
time. `Wait` computes the backoff in `Width`-bit two's complement, as Go does.
`settled`, `failures` and `failedAt` are history the code does not keep.

### EventStream and EventPipeline

A demo is a script: a length in bytes, and at most one thing that goes wrong (a
reader that fails or panics at its end, a message the decoder refuses, a disconnect, a
parser panic, an analyzer's refusal). The refused message gives no event, but an
unterminated console line from before it still comes out; a message only the
parser cannot read gives a warning, and is no fault here. A message has four bytes, the last two a
payload that may not arrive: that is enough for each of `decoder.go`'s reads to
meet the end of the demo at its own place. Message *k* decodes to event *k*.
`EventStream` shows the analyzers the events one by one and says how the pass
ends.

In `EventPipeline` a step is one channel operation, one `r.Read`, one byte
handed to the decoder, one event moved or shown, or one statement of the two
halts. `readAhead`'s goroutine is `inflater`, `prefetchSource`'s is `parser`, the
caller's is `caller`. `memory` says what each buffer holds, so that a buffer
filled while somebody reads it would be read wrongly; `free` is the channel the
buffers come back on. Which of two ready cases a `select` takes is not determined.
The reader may deliver its end with the last bytes or in a `Read` of its own.
Buffers are addresses; a new one is allocated when `free` is empty.

The refinement maps what the analyzers have seen and the outcome to
themselves, so `SameAsSerial` says that the three goroutines show the analyzers
the sequence of events one goroutine would, and end as it would, whatever the timing.

### AnalyzerNodes and AnalyzerGraph

`AnalyzerNodes` is a table. `AnalyzerRequires` and `PostRequires` are the
`Requires` methods and the post-processor registrations. A section is a field of the
Result or of `CoreOutputs`, or the part of a shared struct that one node fills in
and another rewrites: `teams` (the team labels inside the demoinfo block), `mode`,
`scores`, `anchor`. For each node, an operator gives the sections its `Finalize`,
`PopulateCore` or function reads and writes, depending on what the demo carries where an
early return depends on it. `AnalyzerGraph` sorts: any ready node may
come next, which covers every tie-break. `version` records for each section
which nodes have written it.

### KeyRegister and KeyStore

A process is a server, which stays, or one call of the `keys` command. The
requests of a server share its table. The steps are the lock acquisitions, the file
operations and the critical sections between them. `disk`, `present` and `writes`
are the file; its mtime is the number of its last write, which assumes that
two writes never share an mtime ("mtime change is a sound change signal", the
code's own premise). `flock` is the advisory lock, which the kernel drops when its
process dies. A crash may come anywhere, and so may a failed write, stat, read or
lock. `blind` is history: it marks a server whose table missed a change because of a
failed read, or because the change came between `Open`'s read and its stat.
`born` and `died` say when a key became and ceased to be active in the file.
`List` and `ActiveByDiscordID` change nothing and are left out.

### DemoParser

One action for each kind of message that carries state over to later messages; they come
in any order. A `svc_print` takes several steps, since one fragment may release older
lines first. `pending` is `printLines`, and `keys` is what `flushPrintLinesOutsideFrame` or
`flushPendingPrintLines` has chosen and not yet handed on, which `Release` does in the
code's order. The demo ends in two ways: the decoder has no further message
(`EndOfStream`, for a clean end as for an error), or a message says so (`Disconnect`). Either
flushes what is unfinished; then `ParseOne` returns the end (`Return`). `stream` says how far that
is. A handler that refuses an event makes `ParseOne` return at once, with no flush; the
parser's own handlers never do, and that exit is left out. `matchStarted` and `statusRunning` are
the two flags of `matchstart.go`; `cursor`, `seen` and `healthy` are a slot's
`playerDead`, `playerSeenInfo` and last health. `timing` is the analyzers' clock, to
which every event is shown as it is emitted, and `view` what a consumer of the death and
spawn events believes of a slot. `missed` marks the one case in which it is
wrong (section 6). A text is a sequence of words, a player's name among them, and
an obituary is a line with a name in it. No fragment is empty.

## 3. The runs

`tlc -workers 2 -config X.cfg M` in this directory. Each takes about two minutes or less
on its own.

| run | instance | what it shows |
|---|---|---|
| `keyed_mutex` | 3 goroutines, 2 keys, 3 addresses, fair | mutual exclusion per key; who waits, waits for a holder of its own key; no entry without a user; refinement of `KeyedLock`; every `Lock` returns |
| `cache_flight` | 3 requests among get, warm and upload for one new demo; write failures, panics, evicted Results | one load per demo; nobody parses what is there; answers belong to the demo asked for, panic or not; only visitors' Results reach the LRU |
| `cache_locks` | 3 requests among los, page and pack for a demo and a second one without streams; no map, corrupt and evicted packs, undecodable Results | heavy work is bounded; Results are written once and never copied half written; a corrupt pack is never taken for good; nothing is held at the end, also if a page cannot be encoded; LRUs of one entry keep their bounds |
| `cache_live` | 2 requests of any operations on one demo (`get` is what every other visitor does first); hub, parse failures and hang-ups, fair | every request is answered and holds nothing at the end; one client's hang-up reaches nobody else |
| `hub_warmer` | 3 games, each good, broken or unparseable; one outage | a settled game is not asked for again; backoff holds; everything good is warm a backoff after the outage |
| `event_pipeline` | every demo of five to eight bytes with every fault at every message, fair | the three goroutines do what one would; a buffer is filled by one goroutine alone and there are four at most; the demo is closed, and the warnings are read, with nobody inside; everyone returns |
| `analyzer_graph` | the default registry on every kind of demo whose match does not start at time zero | the declared edges order every two nodes that meet in a section, and no tie-break changes what a node reads |
| `key_store` | a server with two requests and a command, two keys of one user; failed saves and reads, crashes, a deleted file | refinement of `KeyRegister`; one active key per user; a stale table is noticed; lookups are at most an interval behind |
| `demo_parser` | one slot, two kinds of line, four fragments, three frames | lines come out whole, once and frame by frame, and nothing is left at the end; parser and clock agree on the start; each death and spawn is told |
| `warmer_overflow`, `truncated_as_clean`, `order_at_zero` | the smallest instances that show it | a comment or doc that the code contradicts, section 6 |

A type invariant that is proved for every value of the constants (section 4) is not an
invariant of a run.

Bounds. Three requests are what the flight needs: a leader, a follower, and one
who comes between the flight's end and what the leader still has to do. For the locks
they give a holder, a waiter and a competitor for the semaphore, whose size is
one so that every heavy step is contended. Two demos are needed where slots meet locks
(a slot is shared between demos, a lock is not). LRUs of capacity one evict on
every second key. The warmer's instance has an interval of 2, a cap of 3 (so the
second failure meets it), an outage limit of 2 with three games, a window of 10
that two games leave before the horizon of 13. The keyed mutex gets as many
addresses as goroutines; with fewer, an allocation would wait for one, which a heap
does not. The requests are interchangeable, and the runs without liveness use that
as symmetry. The overflow run keeps the order of magnitudes of the deployment: more
failures fit into the window than doublings into the word.

The pipeline's chunks of two bytes cut messages in the middle, its batches of two events
have a demo end with, before and after a batch, its channels hold one element where
the code's hold more (fuller channels only let the goroutines run further apart), and its demos end
at every offset of the second message. Four addresses are one more than the cycle
needs. The key store's clock takes one tick, as long as
the interval: a check is recent or it is not. Two keys of one user are what issuing
over an old key takes; a third request would add only waiting for `s.mu`. The
parser's line of three words holds a whole announcement and a newline; two keys
and three frames let lines of two frames pend at once, had the code not
prevented it. Which of several slots a name belongs to is not exercised with one slot.

The analyzer graph is no bounded instance: its 29 nodes are the code's own. What is
abstract is the demo, by what the nodes' early returns look at; the run leaves
out the demos for which `order_at_zero` shows the property false. Likewise `hub_warmer`'s
word is wide enough for its bounds, and `warmer_overflow`'s is not.

Fairness. `KeyedMutex` assumes that each goroutine's steps happen (weak), and that a
goroutine which finds a mutex free again and again gets it (strong on the two `Lock`
steps): Go's `sync.Mutex` hands over to a waiter that has starved for a
millisecond. `DemoCache` assumes weak fairness of each request's next step. A
channel send that stays possible is taken, and so is a mutex that stays free; nothing is
assumed of clients, the hub or the sweep. Two requests on one demo with one slot suffice
to form every wait the code has (flight, lock, slot), and a cycle of two. `EventPipeline`
assumes weak fairness of each of its three goroutines: each is scheduled, a `Read` of
an in-memory demo returns, and a channel operation that stays possible happens. The
warmer has no liveness property: its time is bounded, and what it must do in time is
stated as safety. The key store and the parser have none: a lookup's only waits are for
mutexes, and a parser is driven by its input. Only the warmer may stop, at its
horizon; the parser's one state without a further step is `Returned`, so deadlock
is checked there as in the other runs that pass.

## 4. The proofs

`tlapm M.tla`. Each is for any number of requests, demos, goroutines and keys,
and for any mix of failures; the assumptions are the named `ASSUME`s of the modules
(finite sets of requests, the sentinel apart from real values, limits of at least one).

* `KeyedMutexProofs`: `TypeCorrect`, `Exclusion`, `Independence`, `Reclaimed`,
  `Implements`. The invariant adds to the types who holds the table mutex, who
  refers to which entry, that two keys never share one, that `waiters` equals the number
  of goroutines counted in, and who holds which entry's mutex. Exclusion on its
  own is not inductive: it depends on an entry not being dropped from the map
  while somebody refers to it, that is on the count. `Bounded`: the map has at most one
  entry for each goroutine on a key. `NeverStuck`: whoever Lock or unlock keeps waiting
  waits for a goroutine that can go on now. It assumes as many entries as callers
  (`EnoughEntries`), for the heap never refuses one: with `EntryUsed`, the pigeonhole
  principle finds one nobody refers to.
* `LruProofs`: `PutKeepsWellFormed`, `DeleteForgets`, and the lemmas on sequences
  that `DemoCacheProofs` cites. `PutEvictsOldest` says what stays: all but the last entry of a
  full list, which goes only when a new key needs its place. `GetKeepsAll`: a get forgets
  nothing.
* `DemoCacheProofs`: `TypeCorrect`, `WorkBounded`, `SingleFlight`,
  `NoNeedlessParse` (if tier-2 files decode), `RightAnswer`, `NothingHeld`,
  `PrivateCancel`, `OneWriter`, `WholeCopy`, `SoundPack`, `VisitorsOnly`,
  `BoundedLrus`. One inductive invariant serves all: it says, for each control
  point, which resources a request there holds (`SlotInv`, `LosLockInv`, `PageLockInv`,
  `PackLockInv`, `LeadInv`), what it has in hand (`ResInv`, `EntryInv`,
  `FreshInv`, `MissInv`) and whom it may wait on (`WaitInv`). The resource parts
  are equivalences where they can be, so that a leak and a missing acquire both
  break them. `IInv` was checked with TLC on the instances of the runs first. Each operation
  has a lemma; the requests that do not move are settled once, in lemmas
  of their own. `NoWaitCycle` and `NeverStuck` rest on the same invariant: `Rank` puts the
  steps of a request in one order, and whoever waits for a lock, a slot or a flight waits
  for a request of a higher rank that is not done, so the last of a chain of waits can
  go on. TLC checked on the three configurations that `Moves` is what enables a step.
  `OnlyForward` bounds the way: every step of a request raises its `Stage`, which
  never falls and ends at `Depth.done`, though PositionPack resolves twice
  and PageResult looks its page up twice. It needs the converse of `PackLockInv` (`PackHeldInv`): who is past the pack lock
  still has it, so no second pass starts over, and nobody unlocks it for another. Both were checked with TLC first.
* `HubWarmerProofs`: `TypeCorrect`, `SettledForGood`, `OutageForgiven`, `WaitsItsShift`,
  `BacksOffWhileFitting`, `BacksOffAtFirst`. A settled game is in `done` or out of the
  window of the last tick; what a tick has still to come to is in it (`TickInv`,
  `SettledInv`). `FailingInv`: a failing game in the window is remembered with all its
  failures, whatever was pruned. `OutageInv`: a good game's wait is over warmMaxBackoff
  after the outage. `RecoveryInv`: what the loop has passed of a tick that recovers.
  The provers know nothing of powers, so the lemmas get those of two as the number of
  subsets of `1..n`. The backoff has three theorems. A game is left alone for the wait the code computes; while the shift
  fits the word that is the promised doubling. `BacksOffAtFirst` says for how long the promise
  (`BackoffKept`) holds: nobody fails more than `k` times before `k` backoffs have
  passed, so until then no more are counted, and if the wait after `k` failures
  still fits the word every wait is right. With the deployed five minutes, one hour and 64 bits, `k` is 25
  and the time 22 h 15 min. The promise holds for good only if nobody looks longer than
  that (`Horizon <= waited[k]`): the instance of `hub_warmer` ends at 13, before its
  fifth backoff does, and five still fit its word. The deployed week is far
  longer, and what happens past that time is the violation `warmer_overflow` shows.
* `EventPipelineProofs`: `TypeCorrect`, `FillsAlone`, `FewBuffersHold`, `ClosesIdle`,
  `CensusComplete`, for any sizes and capacities. `OnePlace` says that a buffer is
  at one place: being filled, in a chunk under way, being read, or free. What is in use
  is then bounded by a count of places. `EndsInv` says what each goroutine's
  end implies for the channels it fed, and where the caller is relative to both halts.
  `ImplementsSerial` is the refinement: every step of the pipeline is a step of `EventStream`,
  the serial pass, or a stutter. Its invariant follows a demo from end to end. `ByteInv`
  says which stretch of the demo each buffer, chunk and reader has; `EventInv` which stretch of the events each batch has, how far the
  analyzers are, and what the parser will have counted. Each is a chain of places that
  meet, with nothing between them and nothing twice. From it come `BytesInOrder` (a
  recycled buffer never shows the decoder another place's bytes) and `NoEventLost` (the analyzers
  have seen a front of the events, all of it when they finalize, nothing behind
  one they refused). `NeverStuck`: the three goroutines never all wait before
  AnalyzeReader has returned, whatever the capacities. It assumes one buffer more than
  `FewBuffers` allows in use, as the code may always allocate one.
* `AnalyzerGraphProofs`: first the scheduler, whatever the tables. `TypeCorrect` (Kahn's
  indegrees count what is left of the providers), and `OrderSettled`: if the declared edges
  order every conflicting pair, no tie-break changes what a node reads. `VerdictExact`: the
  pass ends with every node run only over a valid table without a circle of nodes that wait
  for each other (`Wired`), and a panic means that the table is not wired.
  Then the tables of the default registry. `Writers` lists who may write a section and
  `Ahead` which of them a node comes after; every row of `Ahead` is shown to be a declared
  path of at most three edges, and every node to meet only writers that `Ahead` orders with it, with
  one exception (`Gap`): frags_final sorting the fragment log weapon_pickups reads.
  frags_final sorts that log in place only when there is no shift to copy for. So
  `EdgesSuffice` gives `EdgesComplete` for all demos whose match starts later
  (`Shifted`), and `OrderHolds` takes the premise out of `OrderSettled`: those demos are
  analyzed the same way in every order, and in the others nothing but the gap depends on it, which
  is the violation `order_at_zero` shows. `RegistryWired`: the default table is wired, so
  `buildGraph` never panics and a pass that ends has run every node.
* `KeyStoreProofs`: `TypeCorrect`, `OneActive`, `Implements`, `Stale`, `InTime`, for any
  processes, actors, keys and interval, with every fault. Whoever is past a lock holds
  it (`LockInv`), so whoever is about to write holds a table equal to the file
  (`SyncInv`): the write is one command applied to the file, and a key in a call was
  never issued (`FreshInv`). A table that differs from the file has another mtime
  (`NoticedInv`). `LagInv` then bounds how long ago it began to differ by the last
  check, and `RecheckInv` carries that bound across the unlocked stat of a lookup.
  From the same invariant, `KeysStayDead` (no key that was active once becomes active
  again in the file) and `Issued` (no table has a key the file never had). `HoldInv`
  is the converse of `LockInv`: a lock is only held by an actor past it. With both,
  `NoWaitCycle` orders the waits for `s.mu` and the flock across processes, and `NeverStuck`
  says that a call can always go on while one is under way, even if nothing fails or dies.
* `DemoParserProofs`: `TypeCorrect`, `OneStart`, `LivesAgree`, `OneFrame`, `InOrder`,
  `NoTextLost`, for any slots, names, keys and fragments. `KeysInv` says what may be
  chosen for release: all of an older frame while a fragment waits, everything unfinished
  once the stream is over, and nothing that is not pending. With it `OrderInv` (nothing
  pending was begun in a frame before that of the last line handed on) gives `InOrder`: no line of an earlier
  frame after one of a later. Within a frame lines of different keys change places, as
  `print_assembly_test.go` expects. For `NoTextLost`, `FrontTaken`, a fact about
  concatenation, gives that each step hands on a front of what a key holds, and
  `NothingLeft` that none is held when the end is returned.

Only model-checked: `EveryLockReturns`, `EveryRequestAnswered` and `EveryoneReturns`
(liveness is out of the prover's reach; the theorems `NeverStuck` give the part of it that
is a safety property, and `OnlyForward` bounds the steps of a request), and the fairness that `SameAsSerial` asks of the serial pass, whose
steps `ImplementsSerial` proves. Every invariant of a passing run is a theorem.

## 5. What is not modelled

What `PROJECT.json` marks `not_modelled` or `partly`, and why:

* **Sequential functions of their input**: analyzers beyond what they share,
  damage reconstruction, aim, views, map geometry, container formats and message
  decoding, and drawing. They compute numbers from arrays, golden files cover
  them, and a model would repeat the formula.
* **The cache's sweep** (`gc.go`, temp files in `util.go`): `DemoCache` has its
  effect, a file that disappears at any time. Its own budget and order are
  arithmetic over a directory listing; the hazards are listed.
* **Rate limits and the upload ledger**: one mutex around floating-point time and
  counters; nothing interleaves within it.
* **The web page**: JavaScript in one event loop, whose overlapping loads would be the
  next component worth a model (`page-source.js`, `wasm-source.js`).
* **Portal, MCP server, deployment**: redirects and proxying without state of
  their own that outlives a request.

Within the cache: the contents of Results, HTTP encoding and ETags, the parse timeout (a
parse error here), the second and third artifact kinds of
tier 3 that behave as the line-of-sight file does. A file read that fails for
another reason than absence or corruption is taken as absent, as in the code.
Within the warmer: paging, and games whose timestamp does not parse. Within the key
store: a stat that fails in `noteReloaded` (the next look-up reads the file again), rate of lookups, key formats, an mtime that two writes share, a file deleted
while a command runs. Within the parser: message formats, positions and stats other than
health, KTX's countdown and demoinfo blocks, which carry no state from one message to the
next, and the contents of hidden messages. Within the
event pass: panics inside an analyzer, and a reader that blocks for ever.

## 6. Findings

Shown by a run of their own:

* **The backoff overflows** (`warmer_overflow`, `mvd-api/warm.go:148`). The cap is applied to
  the shifted duration. After 26 failures, about a day at the
  deployed five minutes, the product is negative; after 54 it is zero. A broken
  demo is then fetched at every tick for the rest of its week.
* **A truncated demo can pass for a whole one** (`truncated_as_clean`,
  `mvd-reader/mvd/decoder.go`). A message is read in four reads. `io.ReadFull` reports `io.EOF` if a field has no
  byte at all, and only at the first field is that the clean end it is taken for: a demo
  that ends behind a message's time byte, or before its payload, passes as complete.
* **The tie-break decides for a match at time zero** (`order_at_zero`). `frag` copies its
  log only when there is an offset to subtract. If the match starts at the demo's
  first millisecond, the Result's log and the analyzers' are one array, and `frags-final`,
  which sorts it, has no edge to `weapon_pickups`, which reads it.

Met while modelling, without a run:

* *A rejected upload is served from memory* (`cache.go:345`, against `lru.go:48-50`). `mem.put` runs
  after the flight, under no lock; a visitor who followed the upload's flight can run
  it after `RemoveDemo`.
* *A view reads a Result while `/los` writes it* (`overview.go:412`).
  Both have the Result of the LRU. `losPredicted` reads its latch and its players' intervals
  with no lock; `EnsureLOS` writes both under `losLocks`. Views that copy whole player
  streams read the same words. `page.go` takes the lock for its copy.
* *A warmed game is given up for another request's failure* (`mvd-api/warm.go:95`). A
  visitor asks for a demo by hash, finds no file and
  leads a flight without a hub row; the warmer stashes its row too late, joins, gets
  the visitor's not-found, and never tries the game again.
* *A panic in a page view would keep a lock* (`page.go:46-48`). `unlockLOS` is called after
  `view.PageResult`, not deferred: a panic there unwinds past it, and the demo's `losLocks`
  entry stays locked for every later `/los` and page. The model has no panic in a view.
* *A stashed hub row stays* (`cache.go:382`, against `:166` and `:398-402`), and *a demo can be
  parsed twice* (`cache.go:345` and `:496`, against `:137-139`) if its tier-2 write failed: both
  contradict comments and cost little.
* *An event overtakes an older line* (`mvd-reader/parser/print.go:175`). Only a `svc_print`
  releases the lines of older frames; other events of a later frame are emitted before
  an unterminated line of an earlier one, contrary to the order
  `print_assembly_test.go:199-203` asks for. A line that is held over and ends the match
  can even reach the clock after the start with a time before it.
* *An obituary is always a death* (`print.go`). The comment at `deliverPrintLine` relies on
  `maybeEmitDeath` to drop a repeated one, but the obituary goes through
  `forceEmitDeath`: a death told by health and by obituary gives two events.
* *A death at first sight is not told* (`stats.go`). A player reported alive by health whose first
  playerinfo is dead gets no DeathEvent. `missed` marks these slots.
* *A name in two slots* is taken for the lowest, although a player who left keeps his name there.

## 7. What is left

In this order:

1. `PageSource`: `page-source.js`, `wasm-source.js` and the worker. Abstract: the last load asked for wins.
2. `CacheGC`: scan, eviction order, budget, dropped triggers and temp files of
   `gc.go` and `util.go`, with writers and a second process.
3. `RateLimit` and `UploadLedger`: buckets with their sweep, against one bucket per client.
4. `DemoCache` and `HubWarmer` composed, for the failure the warmer takes over from a visitor.
5. Proofs: the parts of the composed modules above, each with its own invariant.
