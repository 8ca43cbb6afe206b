--------------------------- MODULE EventPipeline ---------------------------
(***************************************************************************)
(* Registry.AnalyzeReader with Parallel (registry.go): the demo is inflated *)
(* on one goroutine (readAhead), decoded on another (prefetchSource), and   *)
(* the caller's runs the analyzers (prefetch.go).  The goroutines share     *)
(* only channels, the buffers that cycle through them, and the stop and     *)
(* done channels of the two halts.                                          *)
(*                                                                         *)
(* A receive from a channel closed and empty gives Go's zero value, on      *)
(* which both loops spin; here such a receiver is stuck for good.           *)
(***************************************************************************)
EXTENDS EventStream, FiniteSets

CONSTANTS
    ChunkSize,    \* readAheadChunk
    BatchSize,    \* prefetchBatchSize
    ChunkCap,     \* capacity of readAhead.ch
    FreeCap,      \* capacity of readAhead.free
    BatchCap,     \* capacity of prefetchSource.ch
    Buffers,      \* addresses of the chunk buffers
    None

ASSUME SizesAssumption ==
    /\ ChunkSize \in Nat \ {0} /\ BatchSize \in Nat \ {0}
    /\ ChunkCap \in Nat \ {0} /\ FreeCap \in Nat /\ BatchCap \in Nat \ {0}
ASSUME BuffersAssumption == IsFiniteSet(Buffers) /\ None \notin Buffers

VARIABLES
    inflater,     \* readAhead's goroutine: "take", "fill", "send", "raise" or "done"
    filling,      \* its buf
    inflated,     \* bytes it has read
    memory,       \* the bytes in each buffer
    chunks,       \* readAhead.ch
    free,         \* readAhead.free
    aheadBuf,     \* readAhead.buf, None once recycled
    aheadAt,      \* how much of it Read has handed out
    aheadErr,     \* readAhead.err
    parser,       \* prefetchSource's goroutine: "next", "raise" or "done"
    consumed,     \* bytes the decoder has read
    queue,        \* Source.queue from its head
    sourceErr,    \* Source.done ("eof") or pendErr
    batch,        \* the batch being filled
    batches,      \* prefetchSource.ch
    caller,       \* where AnalyzeReader is
    cur,          \* prefetchSource.cur from its head
    curErr,       \* prefetchSource.err
    stopAhead, stopPrefetch,
    closed        \* rc.Close() has run

inflating == <<inflater, filling, inflated>>
ahead == <<aheadBuf, aheadAt, aheadErr>>
decoding == <<consumed, queue, sourceErr, batch>>
calling == <<caller, cur, curErr, seen, outcome>>
stops == <<stopAhead, stopPrefetch, closed>>
all == <<script, inflating, memory, chunks, free, ahead, parser, decoding, batches, calling, stops>>

Errors == {"none", "eof", "cut", "panic"}
Waiting == {"haltPrefetch", "waitPrefetch", "haltAhead", "waitAhead", "close"}

Chunk == [buf : Buffers \cup {None}, err : Errors]   \* readAheadChunk
Batch == [events : Seq(Nat), err : Errors]            \* prefetchBatch

InflaterTypes ==
    /\ script \in Script
    /\ inflater \in {"take", "fill", "send", "raise", "done"}
    /\ filling \in Buffers \cup {None} /\ (inflater \in {"fill", "send"} => filling # None)
    /\ inflated \in 0..script.size
    /\ memory \in [Buffers -> Seq(Nat)]

ChunkTypes ==
    /\ chunks \in Seq(Chunk) /\ Len(chunks) <= ChunkCap
    /\ free \subseteq Buffers /\ Cardinality(free) <= FreeCap
    /\ aheadBuf \in Buffers \cup {None} /\ aheadAt \in Nat /\ aheadErr \in Errors

ParserTypes ==
    /\ parser \in {"next", "raise", "done"} /\ consumed \in Nat
    /\ queue \in Seq(Nat) /\ sourceErr \in Errors
    /\ batch \in Seq(Nat) /\ Len(batch) <= BatchSize
    /\ batches \in Seq(Batch) /\ Len(batches) <= BatchCap

CallerTypes ==
    /\ caller \in {"events", "finalize", "returned"} \cup Waiting
    /\ cur \in Seq(Nat) /\ curErr \in Errors /\ seen \in Seq(Nat)
    /\ outcome \in {"running", "refused", "eof", "cut", "panic"}
    /\ stopAhead \in BOOLEAN /\ stopPrefetch \in BOOLEAN /\ closed \in BOOLEAN

TypeOK == InflaterTypes /\ ChunkTypes /\ ParserTypes /\ CallerTypes

PipelineInit ==
    /\ script \in Script
    /\ inflater = "take" /\ filling = None /\ inflated = 0
    /\ memory = [b \in Buffers |-> <<>>]
    /\ chunks = <<>> /\ free = {}
    /\ aheadBuf = None /\ aheadAt = 0 /\ aheadErr = "none"
    /\ parser = "next" /\ consumed = 0
    /\ queue = <<>> /\ sourceErr = "none" /\ batch = <<>> /\ batches = <<>>
    /\ caller = "events" /\ cur = <<>> /\ curErr = "none" /\ seen = <<>> /\ outcome = "running"
    /\ stopAhead = FALSE /\ stopPrefetch = FALSE /\ closed = FALSE

-----------------------------------------------------------------------------
(* readAhead's goroutine *)

BuffersIn(ch) == {ch[i].buf : i \in 1..Len(ch)} \ {None}
InUse == ({filling, aheadBuf} \ {None}) \cup BuffersIn(chunks) \cup free

\* Wrong: no buffer is ever reused.
TakeBufferAllocates ==
    /\ inflater = "take"
    /\ \E b \in Buffers \ InUse :
        /\ filling' = b /\ memory' = [memory EXCEPT ![b] = <<>>]
    /\ inflater' = "fill"
    /\ UNCHANGED <<script, inflated, chunks, free, ahead, parser, decoding, batches, calling, stops>>

\* A buffer of free if there is one, a new one otherwise.
TakeBuffer ==
    /\ inflater = "take"
    /\ \E b \in IF free # {} THEN free ELSE Buffers \ InUse :
        /\ filling' = b /\ free' = free \ {b}
        /\ memory' = [memory EXCEPT ![b] = <<>>]
    /\ inflater' = "fill"
    /\ UNCHANGED <<script, inflated, chunks, ahead, parser, decoding, batches, calling, stops>>

\* r.Read fills the buffer, or ends first.  Until it has, what a goroutine
\* still holding the buffer would read is changing.
Fill ==
    /\ inflater = "fill"
    /\ LET n == IF script.size - inflated < ChunkSize THEN script.size - inflated ELSE ChunkSize IN
        /\ memory' = [memory EXCEPT ![filling] = [i \in 1..n |-> inflated + i - 1]]
        /\ inflated' = inflated + n
        /\ inflater' = IF n < ChunkSize /\ RawEnd(script) = "panic" THEN "raise" ELSE "send"
    /\ UNCHANGED <<script, filling, chunks, free, ahead, parser, decoding, batches, calling, stops>>

\* Wrong: a plain send, with no select on stop.
SendChunkBlocks ==
    /\ inflater = "send" /\ Len(chunks) < ChunkCap
    /\ \E err \in IF Len(memory[filling]) < ChunkSize THEN {RawEnd(script)}
                  ELSE IF inflated = script.size /\ RawEnd(script) # "panic"
                       THEN {"none", RawEnd(script)} ELSE {"none"} :
        /\ chunks' = Append(chunks, [buf |-> filling, err |-> err])
        /\ inflater' = IF err = "none" THEN "take" ELSE "done"
    /\ filling' = None
    /\ UNCHANGED <<script, inflated, memory, free, ahead, parser, decoding, batches, calling, stops>>

\* select { case a.ch <- chunk: case <-a.stop: return }.  The reader may end
\* with the bytes that just fill the buffer, or in a Read of its own.
SendChunk ==
    /\ inflater = "send"
    /\ \/ /\ Len(chunks) < ChunkCap
          /\ \E err \in IF Len(memory[filling]) < ChunkSize THEN {RawEnd(script)}
                        ELSE IF inflated = script.size /\ RawEnd(script) # "panic"
                             THEN {"none", RawEnd(script)} ELSE {"none"} :
              /\ chunks' = Append(chunks, [buf |-> filling, err |-> err])
              /\ inflater' = IF err = "none" THEN "take" ELSE "done"
       \/ stopAhead /\ inflater' = "done" /\ UNCHANGED chunks
    /\ filling' = None
    /\ UNCHANGED <<script, inflated, memory, free, ahead, parser, decoding, batches, calling, stops>>

\* The recover of the goroutine hands a panic on, unless it was stopped.
RaiseChunk ==
    /\ inflater = "raise"
    /\ \/ /\ Len(chunks) < ChunkCap
          /\ chunks' = Append(chunks, [buf |-> None, err |-> "panic"])
       \/ stopAhead /\ UNCHANGED chunks
    /\ inflater' = "done" /\ filling' = None
    /\ UNCHANGED <<script, inflated, memory, free, ahead, parser, decoding, batches, calling, stops>>

-----------------------------------------------------------------------------
(* prefetchSource's goroutine, in the Source's Next *)

Drained == queue = <<>> /\ sourceErr = "none"
CurChunk == IF aheadBuf = None THEN <<>> ELSE memory[aheadBuf]
Unread == aheadAt < Len(CurChunk)

\* The parser wants a byte: Source.Next is in ParseOne.
Decoding == parser = "next" /\ Len(batch) < BatchSize /\ Drained

\* readAhead.Read, its chunk used up: the buffer goes back if free has room...
Recycle ==
    /\ Decoding /\ ~Unread /\ aheadErr = "none" /\ aheadBuf # None
    /\ free' = IF Cardinality(free) < FreeCap THEN free \cup {aheadBuf} ELSE free
    /\ aheadBuf' = None /\ aheadAt' = 0
    /\ UNCHANGED <<script, inflating, memory, chunks, aheadErr, parser, decoding, batches, calling, stops>>

\* Wrong: the buffer goes back as soon as its chunk is received.
ReceiveChunkRecycles ==
    /\ Decoding /\ aheadErr = "none" /\ aheadBuf = None /\ chunks # <<>>
    /\ LET c == Head(chunks) IN
        /\ aheadBuf' = c.buf /\ aheadAt' = 0
        /\ aheadErr' = IF c.err = "panic" THEN "none" ELSE c.err
        /\ parser' = IF c.err = "panic" THEN "raise" ELSE parser
        /\ free' = IF c.buf = None THEN free ELSE free \cup {c.buf}
    /\ chunks' = Tail(chunks)
    /\ UNCHANGED <<script, inflating, memory, decoding, batches, calling, stops>>

\* ...and the next chunk is received.
ReceiveChunk ==
    /\ Decoding /\ aheadErr = "none" /\ aheadBuf = None /\ chunks # <<>>
    /\ LET c == Head(chunks) IN
        /\ aheadBuf' = c.buf /\ aheadAt' = 0
        /\ aheadErr' = IF c.err = "panic" THEN "none" ELSE c.err
        /\ parser' = IF c.err = "panic" THEN "raise" ELSE parser
    /\ chunks' = Tail(chunks)
    /\ UNCHANGED <<script, inflating, memory, free, decoding, batches, calling, stops>>

\* A byte for io.ReadFull.  With its last byte a message is parsed and its events are
\* queued, or the decoder refuses it; the end of the stream, in the message or not,
\* brings the unfinished print line.
DecodeByte ==
    /\ Decoding /\ Unread
    /\ aheadAt' = aheadAt + 1 /\ consumed' = consumed + 1
    /\ IF consumed' % MessageSize # 0 THEN UNCHANGED <<queue, sourceErr, parser>>
       ELSE LET event == (CurChunk[aheadAt'] + 1) \div MessageSize
                here == script.at = consumed' \div MessageSize
                ends == IF here THEN script.fault ELSE "none"
            IN /\ queue' = CASE ends = "panic" -> <<>>
                             [] ends = "decode" -> IF script.tail THEN <<Unfinished>> ELSE <<>>
                             [] ends = "disconnect" /\ script.tail -> <<event, Unfinished>>
                             [] OTHER -> <<event>>
               /\ sourceErr' = CASE ends = "decode" -> "cut"
                                 [] ends = "disconnect" -> "eof"
                                 [] OTHER -> "none"
               /\ parser' = IF ends = "panic" THEN "raise" ELSE parser
    /\ UNCHANGED <<script, inflating, memory, chunks, free, aheadBuf, aheadErr, batch, batches, calling, stops>>

\* The reader has ended: ParseOne releases the unfinished print line first.
EndOfBytes ==
    /\ Decoding /\ ~Unread /\ aheadErr # "none"
    /\ queue' = IF script.tail THEN <<Unfinished>> ELSE <<>>
    /\ sourceErr' = ReadError(consumed, aheadErr)
    /\ UNCHANGED <<script, inflating, memory, chunks, free, ahead, parser, consumed, batch, batches, calling, stops>>

\* Source.Next drains its queue before it reports how the stream ended.
TakeEvent ==
    /\ parser = "next" /\ Len(batch) < BatchSize /\ queue # <<>>
    /\ batch' = Append(batch, Head(queue)) /\ queue' = Tail(queue)
    /\ UNCHANGED <<script, inflating, memory, chunks, free, ahead, parser, consumed, sourceErr, batches, calling, stops>>

\* The batch is full, or the stream has ended.
BatchReady == Len(batch) = BatchSize \/ (queue = <<>> /\ sourceErr # "none")

\* Wrong: the goroutine goes on after the batch that carries the error.
SendBatchGoesOn ==
    /\ parser = "next" /\ BatchReady
    /\ \/ LET err == IF Len(batch) < BatchSize THEN sourceErr ELSE "none" IN
          /\ Len(batches) < BatchCap
          /\ batches' = Append(batches, [events |-> batch, err |-> err])
          /\ UNCHANGED parser
       \/ stopPrefetch /\ parser' = "done" /\ UNCHANGED batches
    /\ batch' = <<>>
    /\ UNCHANGED <<script, inflating, memory, chunks, free, ahead, consumed, queue, sourceErr, calling, stops>>

SendBatch ==
    /\ parser = "next" /\ BatchReady
    /\ \/ LET err == IF Len(batch) < BatchSize THEN sourceErr ELSE "none" IN
          /\ Len(batches) < BatchCap
          /\ batches' = Append(batches, [events |-> batch, err |-> err])
          /\ parser' = IF err = "none" THEN "next" ELSE "done"
       \/ stopPrefetch /\ parser' = "done" /\ UNCHANGED batches
    /\ batch' = <<>>
    /\ UNCHANGED <<script, inflating, memory, chunks, free, ahead, consumed, queue, sourceErr, calling, stops>>

\* The batch a panic interrupts is lost.
RaiseBatch ==
    /\ parser = "raise"
    /\ \/ /\ Len(batches) < BatchCap
          /\ batches' = Append(batches, [events |-> <<>>, err |-> "panic"])
       \/ stopPrefetch /\ UNCHANGED batches
    /\ parser' = "done" /\ batch' = <<>>
    /\ UNCHANGED <<script, inflating, memory, chunks, free, ahead, consumed, queue, sourceErr, calling, stops>>

-----------------------------------------------------------------------------
(* AnalyzeReader and analyzeSource, with prefetchSource.Next *)

\* Every analyzer's OnEvent, in the order of the nodes.
ShowEvent ==
    /\ caller = "events" /\ cur # <<>>
    /\ seen' = Append(seen, Head(cur)) /\ cur' = Tail(cur)
    /\ IF Refused(script, Len(seen'))
       THEN outcome' = "refused" /\ caller' = "haltPrefetch"
       ELSE UNCHANGED <<outcome, caller>>
    /\ UNCHANGED <<script, inflating, memory, chunks, free, ahead, parser, decoding, batches, curErr, stops>>

\* A panic is raised again on this goroutine, and runs its defers.
ReceiveBatch ==
    /\ caller = "events" /\ cur = <<>> /\ curErr = "none" /\ batches # <<>>
    /\ LET b == Head(batches) IN
        IF b.err = "panic"
        THEN outcome' = "panic" /\ caller' = "haltPrefetch" /\ UNCHANGED <<cur, curErr>>
        ELSE cur' = b.events /\ curErr' = b.err /\ UNCHANGED <<outcome, caller>>
    /\ batches' = Tail(batches)
    /\ UNCHANGED <<script, inflating, memory, chunks, free, ahead, parser, decoding, seen, stops>>

\* Wrong: the error is looked at before the events that came with it.
StreamOverAtOnce ==
    /\ caller = "events" /\ curErr # "none"
    /\ outcome' = curErr /\ caller' = "finalize"
    /\ UNCHANGED <<script, inflating, memory, chunks, free, ahead, parser, decoding, batches, cur, curErr, seen, stops>>

StreamOver ==
    /\ caller = "events" /\ cur = <<>> /\ curErr # "none"
    /\ outcome' = curErr /\ caller' = "finalize"
    /\ UNCHANGED <<script, inflating, memory, chunks, free, ahead, parser, decoding, batches, cur, curErr, seen, stops>>

\* The parse warnings are read off the Source, and the analyzers finalized.
Finalize ==
    /\ caller = "finalize" /\ caller' = "haltPrefetch"
    /\ UNCHANGED <<script, inflating, memory, chunks, free, ahead, parser, decoding, batches, cur, curErr, seen, outcome, stops>>

(* The defers, on every way out: each halt closes stop and waits for done. *)

HaltPrefetch ==
    /\ caller = "haltPrefetch" /\ caller' = "waitPrefetch" /\ stopPrefetch' = TRUE
    /\ UNCHANGED <<script, inflating, memory, chunks, free, ahead, parser, decoding, batches, cur, curErr, seen, outcome, stopAhead, closed>>

PrefetchDone ==
    /\ caller = "waitPrefetch" /\ parser = "done" /\ caller' = "haltAhead"
    /\ UNCHANGED <<script, inflating, memory, chunks, free, ahead, parser, decoding, batches, cur, curErr, seen, outcome, stops>>

HaltAhead ==
    /\ caller = "haltAhead" /\ caller' = "waitAhead" /\ stopAhead' = TRUE
    /\ UNCHANGED <<script, inflating, memory, chunks, free, ahead, parser, decoding, batches, cur, curErr, seen, outcome, stopPrefetch, closed>>

\* Wrong: halt closes stop and does not wait.
AheadDoneAtOnce ==
    /\ caller = "waitAhead" /\ caller' = "close"
    /\ UNCHANGED <<script, inflating, memory, chunks, free, ahead, parser, decoding, batches, cur, curErr, seen, outcome, stops>>

AheadDone ==
    /\ caller = "waitAhead" /\ inflater = "done" /\ caller' = "close"
    /\ UNCHANGED <<script, inflating, memory, chunks, free, ahead, parser, decoding, batches, cur, curErr, seen, outcome, stops>>

Close ==
    /\ caller = "close" /\ caller' = "returned" /\ closed' = TRUE
    /\ UNCHANGED <<script, inflating, memory, chunks, free, ahead, parser, decoding, batches, cur, curErr, seen, outcome, stopAhead, stopPrefetch>>

\* AnalyzeReader has returned.
Returned == caller = "returned" /\ UNCHANGED all

-----------------------------------------------------------------------------
Inflate == TakeBuffer \/ Fill \/ SendChunk \/ RaiseChunk
Parse ==
    \/ Recycle \/ ReceiveChunk \/ DecodeByte \/ EndOfBytes
    \/ TakeEvent \/ SendBatch \/ RaiseBatch
Analyze ==
    \/ ShowEvent \/ ReceiveBatch \/ StreamOver \/ Finalize
    \/ HaltPrefetch \/ PrefetchDone \/ HaltAhead \/ AheadDone \/ Close

PipelineNext == Inflate \/ Parse \/ Analyze \/ Returned

\* Go schedules every goroutine, and r.Read returns.
Fairness == WF_all(Inflate) /\ WF_all(Parse) /\ WF_all(Analyze)

PipelineSpec == PipelineInit /\ [][PipelineNext]_all /\ Fairness

-----------------------------------------------------------------------------
(* Properties *)

\* The three goroutines show the analyzers what one goroutine would: the same
\* events in the same order, and the same end behind all of them.
Serial == INSTANCE EventStream
SameAsSerial == Serial!Spec

\* A buffer is the inflater's to fill only while nothing refers to it: not the
\* chunk the parser reads, not one queued, not one waiting to be reused.
FilledAlone ==
    /\ filling # None => filling # aheadBuf /\ filling \notin BuffersIn(chunks) \cup free
    /\ aheadBuf # None => aheadBuf \notin BuffersIn(chunks) \cup free
    /\ \A i, j \in 1..Len(chunks) :
        i # j /\ chunks[i].buf # None => chunks[i].buf # chunks[j].buf

\* "The whole demo is never resident twice": the buffers in existence are the
\* queue's and one at each end of it, however the goroutines are scheduled.
FewBuffers == Cardinality(InUse) <= ChunkCap + 2

\* rc is closed with no goroutine left inside it or able to enter it.
ClosedWhenIdle == closed => inflater = "done" /\ parser = "done"

\* The Source's parse warnings are read when its goroutine is out of it.
CensusIsComplete == caller = "finalize" => parser = "done"

\* Every way the demo can end lets AnalyzeReader return, with both its
\* goroutines gone.
EveryoneReturns == <>(caller = "returned" /\ inflater = "done" /\ parser = "done")

\* registry.go's event pass: any error but io.EOF "means the event stream was
\* truncated mid-demo", so that a consumer can tell a truncated parse from a
\* clean one.  A demo cut inside a message must not end as a clean one.
TruncationReported ==
    outcome = "eof" => script.fault = "disconnect" \/ script.size % MessageSize = 0
=============================================================================
