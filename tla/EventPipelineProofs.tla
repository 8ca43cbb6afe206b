------------------------ MODULE EventPipelineProofs ------------------------
(***************************************************************************)
(* What AnalyzeReader's goroutines guarantee for every demo, every size of  *)
(* chunk and batch, and every channel capacity.                             *)
(***************************************************************************)
EXTENDS EventPipeline, FiniteSetTheorems, SequenceTheorems, TLAPS

-----------------------------------------------------------------------------
(* Types *)

\* What a channel holds after a send, and after a receive.
LEMMA Sent ==
    ASSUME NEW S, NEW ch \in Seq(S), NEW cap \in Nat, Len(ch) < cap, NEW e \in S
    PROVE  Append(ch, e) \in Seq(S) /\ Len(Append(ch, e)) <= cap
BY AppendProperties, LenProperties

LEMMA Received ==
    ASSUME NEW S, NEW ch \in Seq(S), ch # <<>>
    PROVE  Head(ch) \in S /\ Tail(ch) \in Seq(S) /\ Len(Tail(ch)) < Len(ch)
BY HeadTailProperties

LEMMA TypeInit == PipelineInit => TypeOK
<1> SUFFICES ASSUME PipelineInit PROVE TypeOK
  OBVIOUS
<1>1. InflaterTypes
  BY DEF PipelineInit, InflaterTypes, Script
<1>2. ChunkTypes
  BY SizesAssumption, FS_EmptySet DEF PipelineInit, ChunkTypes, Errors
<1>3. ParserTypes
  BY SizesAssumption DEF PipelineInit, ParserTypes, Errors
<1>4. CallerTypes
  <2>1. stopAhead \in BOOLEAN /\ stopPrefetch \in BOOLEAN /\ closed \in BOOLEAN
    BY Zenon DEF PipelineInit
  <2>2. cur \in Seq(Nat) /\ seen \in Seq(Nat)
    BY DEF PipelineInit
  <2> QED
    BY <2>1, <2>2 DEF PipelineInit, CallerTypes, Errors
<1> QED
  BY <1>1, <1>2, <1>3, <1>4 DEF TypeOK

LEMMA InflaterTypesNext == TypeOK /\ [PipelineNext]_all => InflaterTypes'
<1> SUFFICES ASSUME TypeOK, [PipelineNext]_all PROVE InflaterTypes'
  OBVIOUS
<1> USE DEF TypeOK
<1>1. CASE TakeBuffer
  <2> PICK b \in Buffers : filling' = b /\ memory' = [memory EXCEPT ![b] = <<>>]
    BY <1>1 DEF TakeBuffer, ChunkTypes
  <2>1. memory' \in [Buffers -> Seq(Nat)]
    BY DEF InflaterTypes
  <2> QED
    BY <1>1, <2>1, BuffersAssumption DEF TakeBuffer, InflaterTypes
<1>2. CASE Fill
  <2>1. \A n \in Nat : [i \in 1..n |-> inflated + i - 1] \in Seq(Nat)
    BY DEF InflaterTypes, Script
  <2> QED
    BY <1>2, <2>1, SizesAssumption DEF Fill, InflaterTypes, Script, inflating
<1>3. CASE SendChunk
  BY <1>3 DEF SendChunk, InflaterTypes, inflating
<1>4. CASE RaiseChunk
  BY <1>4 DEF RaiseChunk, InflaterTypes, inflating
<1>5. CASE UNCHANGED <<script, inflating, memory>>
  BY <1>5 DEF InflaterTypes, inflating
<1> QED
  BY <1>1, <1>2, <1>3, <1>4, <1>5
  DEF PipelineNext, Inflate, Parse, Analyze, Returned, all, Recycle, ReceiveChunk, DecodeByte,
     EndOfBytes, TakeEvent, SendBatch, RaiseBatch, ShowEvent, ReceiveBatch, StreamOver, Finalize,
     HaltPrefetch, PrefetchDone, HaltAhead, AheadDone, Close

LEMMA ChunkTypesNext == TypeOK /\ [PipelineNext]_all => ChunkTypes'
<1> SUFFICES ASSUME TypeOK, [PipelineNext]_all PROVE ChunkTypes'
  OBVIOUS
<1> USE DEF TypeOK
<1> USE SizesAssumption DEF Errors
<1>0. IsFiniteSet(free)
  BY BuffersAssumption, FS_Subset DEF ChunkTypes
<1>1. CASE TakeBuffer
  <2>1. PICK b \in Buffers : free' = free \ {b}
    BY <1>1 DEF TakeBuffer, ChunkTypes
  <2>2. Cardinality(free') <= Cardinality(free) /\ Cardinality(free) \in Nat
    BY <1>0, <2>1, FS_Subset, FS_CardinalityType
  <2>3. Cardinality(free') \in Nat
    BY <1>0, <2>1, FS_Subset, FS_CardinalityType
  <2> QED
    BY <1>1, <2>1, <2>2, <2>3 DEF TakeBuffer, ChunkTypes, ahead
<1>2. CASE SendChunk
  <2>1. CASE UNCHANGED chunks
    BY <1>2, <2>1 DEF SendChunk, ChunkTypes, ahead
  <2>2. CASE Len(chunks) < ChunkCap /\ ~UNCHANGED chunks
    <3>1. PICK err \in Errors : chunks' = Append(chunks, [buf |-> filling, err |-> err])
      BY <1>2, <2>2 DEF SendChunk, RawEnd
    <3>2. [buf |-> filling, err |-> err] \in Chunk
      BY DEF InflaterTypes, Chunk
    <3>3. chunks' \in Seq(Chunk) /\ Len(chunks') <= ChunkCap
      BY <2>2, <3>1, <3>2, Sent DEF ChunkTypes
    <3> QED
      BY <1>2, <3>3 DEF SendChunk, ChunkTypes, ahead
  <2> QED
    BY <1>2, <2>1, <2>2 DEF SendChunk
<1>3. CASE RaiseChunk
  <2>1. [buf |-> None, err |-> "panic"] \in Chunk
    BY DEF Chunk
  <2>2. chunks' \in Seq(Chunk) /\ Len(chunks') <= ChunkCap
    BY <1>3, <2>1, Sent DEF RaiseChunk, ChunkTypes
  <2> QED
    BY <1>3, <2>2 DEF RaiseChunk, ChunkTypes, ahead
<1>4. CASE Recycle
  <2>1. Cardinality(free \cup {aheadBuf}) <= Cardinality(free) + 1 /\ Cardinality(free) \in Nat
    BY <1>0, FS_AddElement, FS_CardinalityType
  <2>2. Cardinality(free \cup {aheadBuf}) \in Nat
    BY <1>0, FS_AddElement, FS_CardinalityType
  <2> QED
    BY <1>4, <2>1, <2>2 DEF Recycle, ChunkTypes, ahead
<1>5. CASE ReceiveChunk
  <2>1. /\ Head(chunks) \in Chunk
        /\ Tail(chunks) \in Seq(Chunk)
        /\ Len(Tail(chunks)) < Len(chunks)
    BY <1>5, Received DEF ReceiveChunk, ChunkTypes
  <2> QED
    BY <1>5, <2>1 DEF ReceiveChunk, ChunkTypes, Chunk
<1>6. CASE DecodeByte
  BY <1>6 DEF DecodeByte, ChunkTypes, ahead
<1>7. CASE UNCHANGED <<chunks, free, ahead>>
  BY <1>7 DEF ChunkTypes, ahead
<1> QED
  BY <1>1, <1>2, <1>3, <1>4, <1>5, <1>6, <1>7
  DEF PipelineNext, Inflate, Parse, Analyze, Returned, all, Fill, EndOfBytes, TakeEvent,
     SendBatch, RaiseBatch, ShowEvent, ReceiveBatch, StreamOver, Finalize, HaltPrefetch,
     PrefetchDone, HaltAhead, AheadDone, Close

LEMMA ParserTypesNext == TypeOK /\ [PipelineNext]_all => ParserTypes'
<1> SUFFICES ASSUME TypeOK, [PipelineNext]_all PROVE ParserTypes'
  OBVIOUS
<1> USE DEF TypeOK
<1> USE SizesAssumption DEF Errors
<1>1. CASE ReceiveChunk
  BY <1>1 DEF ReceiveChunk, ParserTypes, decoding
<1>2. CASE DecodeByte
  <2>1. CurChunk \in Seq(Nat) /\ aheadAt + 1 \in 1..Len(CurChunk)
    BY <1>2 DEF DecodeByte, Unread, CurChunk, InflaterTypes, ChunkTypes
  <2>2. (CurChunk[aheadAt'] + 1) \div MessageSize \in Nat
    BY <1>2, <2>1 DEF DecodeByte, MessageSize
  <2>3. queue' \in Seq(Nat)
    <3> DEFINE event == (CurChunk[aheadAt'] + 1) \div MessageSize
    <3>1. /\ <<>> \in Seq(Nat) /\ <<event, Unfinished>> \in Seq(Nat) /\ <<event>> \in Seq(Nat)
          /\ <<Unfinished>> \in Seq(Nat)
      BY <2>2 DEF Unfinished
    <3> HIDE DEF event
    <3>2. queue' \in {queue, <<>>, <<Unfinished>>, <<event, Unfinished>>, <<event>>}
      BY <1>2 DEF DecodeByte, event
    <3> QED
      BY <3>1, <3>2 DEF ParserTypes
  <2>4. sourceErr' \in Errors /\ parser' \in {"next", "raise", "done"} /\ consumed' \in Nat
    BY <1>2 DEF DecodeByte, ParserTypes
  <2> QED
    BY <1>2, <2>3, <2>4 DEF DecodeByte, ParserTypes
<1>3. CASE EndOfBytes
  BY <1>3 DEF EndOfBytes, ParserTypes, ChunkTypes, ReadError, Unfinished, ahead
<1>4. CASE TakeEvent
  BY <1>4 DEF TakeEvent, ParserTypes
<1>5. CASE SendBatch
  <2>1. batches' \in Seq(Batch) /\ Len(batches') <= BatchCap
    <3>1. CASE UNCHANGED batches
      BY <3>1 DEF ParserTypes
    <3>2. CASE Len(batches) < BatchCap /\ ~UNCHANGED batches
      <4>1. PICK err \in Errors : batches' = Append(batches, [events |-> batch, err |-> err])
        BY <1>5, <3>2 DEF SendBatch, ParserTypes
      <4>2. [events |-> batch, err |-> err] \in Batch
        BY DEF ParserTypes, Batch
      <4> QED
        BY <3>2, <4>1, <4>2, Sent DEF ParserTypes
    <3> QED
      BY <1>5, <3>1, <3>2 DEF SendBatch
  <2>2. parser' \in {"next", "raise", "done"}
    BY <1>5 DEF SendBatch
  <2> QED
    BY <1>5, <2>1, <2>2 DEF SendBatch, ParserTypes
<1>6. CASE RaiseBatch
  <2>1. batches' \in Seq(Batch) /\ Len(batches') <= BatchCap
    <3>1. [events |-> <<>>, err |-> "panic"] \in Batch
      BY DEF Batch
    <3>2. CASE UNCHANGED batches
      BY <3>2 DEF ParserTypes
    <3>3. CASE Len(batches) < BatchCap /\ ~UNCHANGED batches
      BY <1>6, <3>1, <3>3, Sent DEF RaiseBatch, ParserTypes
    <3> QED
      BY <1>6, <3>2, <3>3 DEF RaiseBatch
  <2> QED
    BY <1>6, <2>1 DEF RaiseBatch, ParserTypes
<1>7. CASE ReceiveBatch
  <2>1. batches' \in Seq(Batch) /\ Len(batches') <= BatchCap
    BY <1>7, Received DEF ReceiveBatch, ParserTypes
  <2> QED
    BY <1>7, <2>1 DEF ReceiveBatch, ParserTypes, decoding
<1>8. CASE UNCHANGED <<parser, decoding, batches>>
  BY <1>8 DEF ParserTypes, decoding
<1> QED
  BY <1>1, <1>2, <1>3, <1>4, <1>5, <1>6, <1>7, <1>8
  DEF PipelineNext, Inflate, Parse, Analyze, Returned, all, TakeBuffer, Fill, SendChunk,
     RaiseChunk, Recycle, ShowEvent, StreamOver, Finalize, HaltPrefetch, PrefetchDone, HaltAhead,
     AheadDone, Close

LEMMA CallerTypesNext == TypeOK /\ [PipelineNext]_all => CallerTypes'
<1> SUFFICES ASSUME TypeOK, [PipelineNext]_all PROVE CallerTypes'
  OBVIOUS
<1> USE DEF TypeOK
<1> USE DEF Errors, Waiting
<1>1. CASE ShowEvent
  BY <1>1 DEF ShowEvent, CallerTypes, calling, stops
<1>2. CASE ReceiveBatch
  <2>1. Head(batches) \in Batch
    BY <1>2, Received DEF ReceiveBatch, ParserTypes
  <2> QED
    BY <1>2, <2>1 DEF ReceiveBatch, CallerTypes, Batch, stops
<1>3. CASE StreamOver
  BY <1>3 DEF StreamOver, CallerTypes, calling, stops
<1>4. CASE Finalize
  BY <1>4 DEF Finalize, CallerTypes, calling, stops
<1>5. CASE HaltPrefetch
  BY <1>5 DEF HaltPrefetch, CallerTypes, calling, stops
<1>6. CASE PrefetchDone
  BY <1>6 DEF PrefetchDone, CallerTypes, calling, stops
<1>7. CASE HaltAhead
  BY <1>7 DEF HaltAhead, CallerTypes, calling, stops
<1>8. CASE AheadDone
  BY <1>8 DEF AheadDone, CallerTypes, calling, stops
<1>9. CASE Close
  BY <1>9 DEF Close, CallerTypes, calling, stops
<1>10. CASE UNCHANGED <<calling, stops>>
  BY <1>10 DEF CallerTypes, calling, stops
<1> QED
  BY <1>1, <1>2, <1>3, <1>4, <1>5, <1>6, <1>7, <1>8, <1>9, <1>10
  DEF PipelineNext, Inflate, Parse, Analyze, Returned, all, TakeBuffer, Fill, SendChunk,
     RaiseChunk, Recycle, ReceiveChunk, DecodeByte, EndOfBytes, TakeEvent, SendBatch, RaiseBatch

LEMMA TypeNext == TypeOK /\ [PipelineNext]_all => TypeOK'
BY InflaterTypesNext, ChunkTypesNext, ParserTypesNext, CallerTypesNext DEF TypeOK

\* Every variable of the three goroutines keeps its type, and every channel
\* and batch its capacity, for every demo.
THEOREM TypeCorrect == PipelineSpec => []TypeOK
BY TypeInit, TypeNext, PTL DEF PipelineSpec

-----------------------------------------------------------------------------
(* The ends of the goroutines *)

\* Whoever has shown the end of its stream is gone, and so is whoever a halt
\* has waited for.
EndsInv ==
    /\ \A i \in 1..Len(batches) : batches[i].err # "none" => parser = "done"
    /\ curErr # "none" => parser = "done"
    /\ caller \in {"finalize", "haltAhead", "waitAhead", "close", "returned"} => parser = "done"
    /\ caller \in {"close", "returned"} => inflater = "done"
    /\ closed => caller = "returned"

LEMMA EndsInit == PipelineInit => EndsInv
BY DEF PipelineInit, EndsInv

LEMMA EndsNext == TypeOK /\ EndsInv /\ [PipelineNext]_all => EndsInv'
<1> SUFFICES ASSUME TypeOK, EndsInv, [PipelineNext]_all PROVE EndsInv'
  OBVIOUS
<1> USE DEF EndsInv
<1>0. batches \in Seq(Batch)
  BY DEF TypeOK, ParserTypes
<1>1. CASE Inflate
  BY <1>1 DEF Inflate, TakeBuffer, Fill, SendChunk, RaiseChunk, decoding, calling, stops
<1>2. CASE Recycle \/ ReceiveChunk \/ DecodeByte \/ EndOfBytes \/ TakeEvent
  BY <1>2 DEF Recycle, ReceiveChunk, DecodeByte, EndOfBytes, TakeEvent, Decoding,
              inflating, ahead, decoding, calling, stops
<1>3. CASE SendBatch
  <2> DEFINE err == IF Len(batch) < BatchSize THEN sourceErr ELSE "none"
  <2>1. CASE batches' = Append(batches, [events |-> batch, err |-> err]) /\ parser' = (IF err = "none" THEN "next" ELSE "done")
    <3>1. \A i \in 1..Len(batches) : batches[i].err = "none"
      BY <1>3 DEF SendBatch
    <3>2. \A i \in 1..Len(batches') : batches'[i].err = "none" \/ (i = Len(batches) + 1 /\ batches'[i].err = err)
      BY <1>0, <2>1, <3>1
    <3> QED
      BY <1>3, <2>1, <3>2 DEF SendBatch, inflating, calling, stops
  <2>2. CASE parser' = "done" /\ UNCHANGED batches
    BY <1>3, <2>2 DEF SendBatch, inflating, calling, stops
  <2> QED
    BY <1>3, <2>1, <2>2 DEF SendBatch
<1>4. CASE RaiseBatch
  BY <1>4 DEF RaiseBatch, inflating, calling, stops
<1>5. CASE ReceiveBatch
  <2>1. \A i \in 1..Len(batches') : i + 1 \in 1..Len(batches) /\ batches'[i] = batches[i + 1]
    BY <1>0, <1>5 DEF ReceiveBatch
  <2>2. Head(batches) = batches[1] /\ 1 \in 1..Len(batches)
    BY <1>0, <1>5 DEF ReceiveBatch
  <2> QED
    BY <1>5, <2>1, <2>2 DEF ReceiveBatch, inflating, decoding, stops
<1>6. CASE ShowEvent \/ StreamOver \/ Finalize \/ HaltPrefetch \/ PrefetchDone \/ HaltAhead \/ AheadDone \/ Close
  BY <1>6 DEF ShowEvent, StreamOver, Finalize, HaltPrefetch, PrefetchDone, HaltAhead, AheadDone, Close,
              inflating, decoding, stops
<1>7. CASE UNCHANGED all
  BY <1>7 DEF all, inflating, decoding, calling, stops
<1> QED
  BY <1>1, <1>2, <1>3, <1>4, <1>5, <1>6, <1>7 DEF PipelineNext, Parse, Analyze, Returned

LEMMA EndsHold == PipelineSpec => []EndsInv
<1>1. TypeOK /\ EndsInv /\ [PipelineNext]_all => (TypeOK /\ EndsInv)'
  BY TypeNext, EndsNext
<1> QED
  BY TypeInit, EndsInit, <1>1, PTL DEF PipelineSpec

\* rc.Close runs with both goroutines gone, on every way out of AnalyzeReader.
THEOREM ClosesIdle == PipelineSpec => []ClosedWhenIdle
<1>1. EndsInv => ClosedWhenIdle
  BY DEF EndsInv, ClosedWhenIdle
<1> QED
  BY <1>1, EndsHold, PTL

\* The parse warnings are read with the Source's goroutine gone, so that none
\* is missed and none is read while it is appended.
THEOREM CensusComplete == PipelineSpec => []CensusIsComplete
<1>1. EndsInv => CensusIsComplete
  BY DEF EndsInv, CensusIsComplete
<1> QED
  BY <1>1, EndsHold, PTL

-----------------------------------------------------------------------------
(* The buffers *)

\* A buffer is in one place: in the inflater's hands, in the parser's, in one
\* chunk of the queue, or free.
OnePlace ==
    /\ filling # None => inflater \in {"fill", "send", "raise"}
    /\ filling # None => filling \notin free /\ filling # aheadBuf
    /\ aheadBuf # None => aheadBuf \notin free
    /\ \A i \in 1..Len(chunks) :
          LET b == chunks[i].buf IN
          b # None => /\ b \notin free /\ b # filling /\ b # aheadBuf
                      /\ \A j \in 1..Len(chunks) : chunks[j].buf = b => i = j

LEMMA OnePlaceInit == PipelineInit => OnePlace
BY DEF PipelineInit, OnePlace

LEMMA OnePlaceNext == TypeOK /\ OnePlace /\ [PipelineNext]_all => OnePlace'
<1> SUFFICES ASSUME TypeOK, OnePlace, [PipelineNext]_all PROVE OnePlace'
  OBVIOUS
<1>0. chunks \in Seq(Chunk) /\ None \notin free /\ None \notin Buffers
  BY BuffersAssumption DEF TypeOK, ChunkTypes
<1>1. CASE TakeBuffer
  <2> PICK b \in IF free # {} THEN free ELSE Buffers \ InUse : filling' = b /\ free' = free \ {b}
    BY <1>1 DEF TakeBuffer
  <2>1. b # None /\ b # aheadBuf /\ \A i \in 1..Len(chunks) : chunks[i].buf # b
    BY <1>0 DEF OnePlace, InUse, BuffersIn
  <2> QED
    BY <1>1, <2>1 DEF TakeBuffer, OnePlace, ahead
<1>2. CASE Fill
  BY <1>2 DEF Fill, OnePlace, ahead
<1>3. CASE SendChunk
  <2>1. CASE UNCHANGED chunks
    BY <1>3, <2>1 DEF SendChunk, OnePlace, ahead
  <2>2. CASE ~UNCHANGED chunks
    <3>1. PICK err : chunks' = Append(chunks, [buf |-> filling, err |-> err])
      BY <1>3, <2>2 DEF SendChunk
    <3>2. /\ \A i \in 1..Len(chunks) : chunks'[i] = chunks[i]
          /\ Len(chunks') = Len(chunks) + 1 /\ chunks'[Len(chunks) + 1].buf = filling
          /\ Len(chunks) \in Nat
      BY <1>0, <3>1
    <3>3. ASSUME NEW i \in 1..Len(chunks') PROVE
            \/ i \in 1..Len(chunks) /\ chunks'[i].buf = chunks[i].buf
            \/ i = Len(chunks) + 1 /\ chunks'[i].buf = filling
      BY <3>2
    <3> QED
      BY <1>3, <3>2, <3>3 DEF SendChunk, OnePlace, ahead
  <2> QED
    BY <2>1, <2>2
<1>4. CASE RaiseChunk
  <2>1. CASE UNCHANGED chunks
    BY <1>4, <2>1 DEF RaiseChunk, OnePlace, ahead
  <2>2. CASE chunks' = Append(chunks, [buf |-> None, err |-> "panic"])
    <3>1. ASSUME NEW i \in 1..Len(chunks') PROVE
            \/ i \in 1..Len(chunks) /\ chunks'[i].buf = chunks[i].buf
            \/ chunks'[i].buf = None
      BY <1>0, <2>2
    <3> QED
      BY <1>4, <3>1 DEF RaiseChunk, OnePlace, ahead
  <2> QED
    BY <1>4, <2>1, <2>2 DEF RaiseChunk
<1>5. CASE Recycle
  BY <1>5 DEF Recycle, OnePlace, inflating
<1>6. CASE ReceiveChunk
  <2>1. /\ \A i \in 1..Len(chunks') : i + 1 \in 1..Len(chunks) /\ chunks'[i] = chunks[i + 1]
        /\ Head(chunks) = chunks[1] /\ 1 \in 1..Len(chunks) /\ aheadBuf' = chunks[1].buf
    BY <1>0, <1>6 DEF ReceiveChunk
  <2>2. \A i \in 1..Len(chunks') : i + 1 # 1
    BY <1>0, <2>1
  <2> QED
    BY <1>6, <2>1, <2>2 DEF ReceiveChunk, OnePlace, inflating
<1>7. CASE UNCHANGED <<inflating, chunks, free, aheadBuf>>
  BY <1>7 DEF OnePlace, inflating
<1> QED
  BY <1>1, <1>2, <1>3, <1>4, <1>5, <1>6, <1>7
  DEF PipelineNext, Inflate, Parse, Analyze, Returned, all, ahead, DecodeByte, EndOfBytes, TakeEvent,
      SendBatch, RaiseBatch, ShowEvent, ReceiveBatch, StreamOver, Finalize, HaltPrefetch, PrefetchDone,
      HaltAhead, AheadDone, Close

LEMMA OnePlaceHolds == PipelineSpec => []OnePlace
<1>1. TypeOK /\ OnePlace /\ [PipelineNext]_all => (TypeOK /\ OnePlace)'
  BY TypeNext, OnePlaceNext
<1> QED
  BY TypeInit, OnePlaceInit, <1>1, PTL DEF PipelineSpec

\* The inflater never writes a buffer the parser still reads, or will, and no
\* buffer is queued or freed twice.
THEOREM FillsAlone == PipelineSpec => []FilledAlone
<1>1. OnePlace => FilledAlone
  BY DEF OnePlace, FilledAlone, BuffersIn
<1> QED
  BY <1>1, OnePlaceHolds, PTL

-----------------------------------------------------------------------------
(* How many buffers *)

LEMMA OneMore ==
    ASSUME NEW S, IsFiniteSet(S), NEW x
    PROVE  /\ IsFiniteSet(S \cup {x})
           /\ Cardinality(S) \in Nat /\ Cardinality(S \cup {x}) \in Nat
           /\ Cardinality(S \cup {x}) <= Cardinality(S) + 1
<1>1. Cardinality(S) \in Nat
  BY FS_CardinalityType
<1>2. IsFiniteSet(S \cup {x})
  BY FS_AddElement
<1>3. Cardinality(S \cup {x}) = IF x \in S THEN Cardinality(S) ELSE Cardinality(S) + 1
  BY FS_AddElement
<1> QED
  BY <1>1, <1>2, <1>3

LEMMA QueuedBuffers ==
    ASSUME TypeOK
    PROVE  IsFiniteSet(BuffersIn(chunks)) /\ Cardinality(BuffersIn(chunks)) <= ChunkCap
<1> DEFINE I == 1..Len(chunks)
           f == [i \in I |-> chunks[i].buf]
           B == {chunks[i].buf : i \in I}
<1>0. Len(chunks) \in Nat /\ Len(chunks) <= ChunkCap
  BY DEF TypeOK, ChunkTypes
<1>1. IsFiniteSet(I) /\ Cardinality(I) = Len(chunks)
  <2>1. 1 \in Int /\ Len(chunks) \in Int
    BY <1>0
  <2>2. IsFiniteSet(I) /\ Cardinality(I) = IF 1 > Len(chunks) THEN 0 ELSE Len(chunks) - 1 + 1
    BY <2>1, FS_Interval
  <2> QED
    BY <1>0, <2>2
<1>2. f \in Surjection(I, B)
  BY DEF Surjection
<1>3. IsFiniteSet(B) /\ Cardinality(B) <= Len(chunks)
  <2>1. Cardinality(B) <= Cardinality(I) /\ IsFiniteSet(B)
    BY <1>1, <1>2, FS_Surjection
  <2> QED
    BY <1>1, <2>1
<1>4. BuffersIn(chunks) \subseteq B
  BY DEF BuffersIn
<1>5. IsFiniteSet(BuffersIn(chunks)) /\ Cardinality(BuffersIn(chunks)) <= Cardinality(B)
  <2> HIDE DEF B
  <2> QED
    BY <1>3, <1>4, FS_Subset
<1>6. Cardinality(B) \in Nat /\ Cardinality(BuffersIn(chunks)) \in Nat
  BY <1>3, <1>5, FS_CardinalityType
<1> QED
  BY <1>0, <1>3, <1>5, <1>6, SizesAssumption

LEMMA FewNext == TypeOK /\ OnePlace /\ FewBuffers /\ [PipelineNext]_all => FewBuffers'
<1> SUFFICES ASSUME TypeOK, OnePlace, FewBuffers, [PipelineNext]_all PROVE FewBuffers'
  OBVIOUS
<1>0. chunks \in Seq(Chunk) /\ ChunkCap \in Nat
  BY SizesAssumption DEF TypeOK, ChunkTypes
<1>1. IsFiniteSet(InUse) /\ Cardinality(InUse) \in Nat
  <2>1. InUse \subseteq Buffers \cup {None} \cup BuffersIn(chunks)
    BY DEF InUse, TypeOK, InflaterTypes, ChunkTypes
  <2>2. IsFiniteSet(Buffers \cup {None} \cup BuffersIn(chunks))
    BY QueuedBuffers, BuffersAssumption, FS_AddElement, FS_Union
  <2> QED
    BY <2>1, <2>2, FS_Subset, FS_CardinalityType
<1>2. ASSUME InUse' \subseteq InUse PROVE FewBuffers'
  <2>1. IsFiniteSet(InUse') /\ Cardinality(InUse') <= Cardinality(InUse)
    BY <1>1, <1>2, FS_Subset
  <2>2. Cardinality(InUse') \in Nat
    BY <2>1, FS_CardinalityType
  <2> QED
    BY <1>0, <1>1, <2>1, <2>2 DEF FewBuffers
<1>3. CASE TakeBuffer
  <2>1. CASE free # {}
    <3>1. InUse' \subseteq InUse
      BY <1>3, <2>1 DEF TakeBuffer, InUse, ahead
    <3> QED
      BY <1>2, <3>1
  <2>2. CASE free = {}
    <3>1. InUse \subseteq BuffersIn(chunks) \cup {aheadBuf}
      BY <1>3, <2>2 DEF TakeBuffer, OnePlace, InUse
    <3>2. /\ IsFiniteSet(BuffersIn(chunks) \cup {aheadBuf})
          /\ Cardinality(BuffersIn(chunks) \cup {aheadBuf}) <= ChunkCap + 1
      <4> DEFINE Q == BuffersIn(chunks)
      <4>1. IsFiniteSet(Q) /\ Cardinality(Q) <= ChunkCap
        BY QueuedBuffers
      <4> HIDE DEF Q
      <4>2. /\ IsFiniteSet(Q \cup {aheadBuf}) /\ Cardinality(Q \cup {aheadBuf}) \in Nat
            /\ Cardinality(Q \cup {aheadBuf}) <= Cardinality(Q) + 1 /\ Cardinality(Q) \in Nat
        BY <4>1, OneMore
      <4> QED
        BY <1>0, <4>1, <4>2 DEF Q
    <3>3. Cardinality(InUse) <= ChunkCap + 1
      <4> DEFINE held == BuffersIn(chunks) \cup {aheadBuf}
      <4> HIDE DEF held
      <4>1. Cardinality(InUse) <= Cardinality(held) /\ Cardinality(held) \in Nat
        BY <3>1, <3>2, FS_Subset, FS_CardinalityType DEF held
      <4> QED
        BY <1>0, <1>1, <3>2, <4>1 DEF held
    <3>4. PICK b \in Buffers : InUse' \subseteq InUse \cup {b}
      BY <1>3, <2>2 DEF TakeBuffer, InUse, ahead
    <3>5. IsFiniteSet(InUse \cup {b}) /\ Cardinality(InUse \cup {b}) <= ChunkCap + 2
      <4> DEFINE P == InUse
      <4>1. IsFiniteSet(P) /\ Cardinality(P) <= ChunkCap + 1
        BY <1>1, <3>3
      <4> HIDE DEF P
      <4>2. /\ IsFiniteSet(P \cup {b}) /\ Cardinality(P \cup {b}) \in Nat
            /\ Cardinality(P \cup {b}) <= Cardinality(P) + 1 /\ Cardinality(P) \in Nat
        BY <4>1, OneMore
      <4> QED
        BY <1>0, <4>1, <4>2 DEF P
    <3> QED
      <4> DEFINE held == InUse \cup {b}
      <4>1. IsFiniteSet(held) /\ Cardinality(held) <= ChunkCap + 2 /\ InUse' \subseteq held
        BY <3>4, <3>5
      <4> HIDE DEF held
      <4>2. Cardinality(InUse') <= Cardinality(held) /\ Cardinality(held) \in Nat /\ IsFiniteSet(InUse')
        BY <4>1, FS_Subset, FS_CardinalityType
      <4>3. Cardinality(InUse') \in Nat
        BY <4>2, FS_CardinalityType
      <4> QED
        BY <1>0, <4>1, <4>2, <4>3 DEF FewBuffers
  <2> QED
    BY <2>1, <2>2
<1>4. CASE SendChunk
  <2>1. BuffersIn(chunks') \subseteq BuffersIn(chunks) \cup {filling}
    <3>1. CASE UNCHANGED chunks
      BY <3>1 DEF BuffersIn
    <3>2. CASE \E err : chunks' = Append(chunks, [buf |-> filling, err |-> err])
      <4> PICK err : chunks' = Append(chunks, [buf |-> filling, err |-> err])
        BY <3>2
      <4>1. /\ \A i \in 1..Len(chunks) : chunks'[i] = chunks[i]
            /\ Len(chunks') = Len(chunks) + 1 /\ chunks'[Len(chunks) + 1].buf = filling
            /\ Len(chunks) \in Nat
        BY <1>0
      <4>2. ASSUME NEW i \in 1..Len(chunks')
            PROVE  chunks'[i].buf = filling \/ (i \in 1..Len(chunks) /\ chunks'[i] = chunks[i])
        BY <4>1
      <4> QED
        BY <4>2 DEF BuffersIn
    <3> QED
      BY <1>4, <3>1, <3>2 DEF SendChunk
  <2>2. None \notin BuffersIn(chunks')
    BY DEF BuffersIn
  <2> QED
    BY <1>2, <1>4, <2>1, <2>2 DEF SendChunk, InUse, ahead
<1>5. CASE RaiseChunk
  <2>1. BuffersIn(chunks') \subseteq BuffersIn(chunks)
    BY <1>0, <1>5 DEF RaiseChunk, BuffersIn
  <2> QED
    BY <1>2, <1>5, <2>1 DEF RaiseChunk, InUse, ahead
<1>6. CASE Recycle
  BY <1>2, <1>6 DEF Recycle, InUse, inflating
<1>7. CASE ReceiveChunk
  <2>1. BuffersIn(chunks') \cup ({aheadBuf'} \ {None}) \subseteq BuffersIn(chunks)
    BY <1>0, <1>7 DEF ReceiveChunk, BuffersIn
  <2> QED
    BY <1>2, <1>7, <2>1 DEF ReceiveChunk, InUse, inflating
<1>8. CASE UNCHANGED <<inflating, chunks, free, aheadBuf>>
  <2>1. InUse' = InUse
    BY <1>8 DEF InUse, BuffersIn, inflating
  <2> QED
    BY <1>2, <2>1
<1>9. CASE Fill
  BY <1>2, <1>9 DEF Fill, InUse, BuffersIn, ahead
<1> QED
  BY <1>3, <1>4, <1>5, <1>6, <1>7, <1>8, <1>9
  DEF PipelineNext, Inflate, Parse, Analyze, Returned, all, ahead, DecodeByte, EndOfBytes, TakeEvent,
      SendBatch, RaiseBatch, ShowEvent, ReceiveBatch, StreamOver, Finalize, HaltPrefetch, PrefetchDone,
      HaltAhead, AheadDone, Close

\* The inflated demo is never resident whole: the buffers are the queue's
\* and one at each end of it, whatever free holds (readAhead).
THEOREM FewBuffersHold == PipelineSpec => []FewBuffers
<1>1. PipelineInit => FewBuffers
  <2> SUFFICES ASSUME PipelineInit PROVE FewBuffers
    OBVIOUS
  <2>1. InUse = {}
    BY DEF PipelineInit, InUse, BuffersIn
  <2> QED
    BY <2>1, FS_EmptySet, SizesAssumption DEF FewBuffers
<1>2. TypeOK /\ OnePlace /\ FewBuffers /\ [PipelineNext]_all => (TypeOK /\ OnePlace /\ FewBuffers)'
  BY TypeNext, OnePlaceNext, FewNext
<1> QED
  BY TypeInit, OnePlaceInit, <1>1, <1>2, PTL DEF PipelineSpec

-----------------------------------------------------------------------------
(* The bytes on their way to the decoder *)

Bytes(c) == IF c.buf = None THEN <<>> ELSE memory[c.buf]

\* The bytes of a buffer are those of the demo from a place on.
Holds(bytes, from) ==
    /\ Len(bytes) <= ChunkSize /\ from + Len(bytes) <= script.size
    /\ \A j \in 1..Len(bytes) : bytes[j] = from + j - 1

\* Where the i-th queued chunk starts: behind the one the parser reads.
ChunkStart(i) == consumed - aheadAt + Len(CurChunk) + (i - 1) * ChunkSize

ReadInv ==
    /\ aheadAt <= Len(CurChunk) /\ (aheadBuf = None => aheadAt = 0) /\ aheadAt <= consumed
    /\ Holds(CurChunk, consumed - aheadAt)
    /\ aheadErr # "none" =>
          /\ chunks = <<>> /\ inflater = "done"
          /\ aheadErr = RawEnd(script) /\ aheadErr # "panic"
          /\ ChunkStart(1) = script.size

\* A chunk is full unless it carries the end of the demo.
ChunkFits(c, from) ==
    /\ Holds(Bytes(c), from)
    /\ c.err = "none" => Len(Bytes(c)) = ChunkSize
    /\ c.err # "none" => c.err = RawEnd(script)
    /\ c.err \notin {"none", "panic"} => from + Len(Bytes(c)) = script.size
    /\ c.buf = None => c.err = "panic"
    /\ c.err = "panic" => c.buf = None

ChunksInv ==
    \A i \in 1..Len(chunks) :
        /\ ChunkFits(chunks[i], ChunkStart(i))
        /\ chunks[i].err # "none" => i = Len(chunks) /\ inflater = "done"

InflateInv ==
    LET next == ChunkStart(Len(chunks) + 1) IN
    /\ inflater \in {"take", "fill"} => inflated = next
    /\ inflater = "send" =>
          /\ Holds(memory[filling], next) /\ inflated = next + Len(memory[filling])
          /\ Len(memory[filling]) < ChunkSize => inflated = script.size /\ RawEnd(script) # "panic"
    /\ inflater = "raise" => RawEnd(script) = "panic" /\ next <= script.size

ByteInv == ReadInv /\ ChunksInv /\ InflateInv

LEMMA Multiples ==
    ASSUME NEW i \in Int, NEW c \in Int
    PROVE  /\ (i - 1) * c \in Int
           /\ ((i + 1) - 1) * c = (i - 1) * c + c
           /\ (1 - 1) * c = 0
OBVIOUS

LEMMA ByteTypes ==
    ASSUME TypeOK
    PROVE  /\ CurChunk \in Seq(Nat) /\ Len(CurChunk) \in Nat
           /\ chunks \in Seq(Chunk) /\ Len(chunks) \in Nat
           /\ consumed \in Nat /\ aheadAt \in Nat /\ inflated \in Nat /\ script.size \in Nat
           /\ ChunkSize \in Nat \ {0}
<1>1. CurChunk \in Seq(Nat)
  BY DEF TypeOK, InflaterTypes, ChunkTypes, CurChunk
<1>2. consumed \in Nat /\ aheadAt \in Nat /\ inflated \in Nat /\ script.size \in Nat
  BY DEF TypeOK, InflaterTypes, ChunkTypes, ParserTypes, Script
<1>3. Len(CurChunk) \in Nat
  BY <1>1
<1>4. chunks \in Seq(Chunk) /\ Len(chunks) \in Nat
  BY DEF TypeOK, ChunkTypes
<1> QED
  BY <1>1, <1>2, <1>3, <1>4, SizesAssumption

LEMMA BytesType ==
    ASSUME TypeOK, NEW c \in Chunk
    PROVE  Bytes(c) \in Seq(Nat) /\ Len(Bytes(c)) \in Nat
<1>1. Bytes(c) \in Seq(Nat)
  BY DEF TypeOK, InflaterTypes, Chunk, Bytes
<1> QED
  BY <1>1

LEMMA StartFirst ==
    ASSUME TypeOK
    PROVE  ChunkStart(1) = consumed - aheadAt + Len(CurChunk)
<1> DEFINE z == (1 - 1) * ChunkSize
           base == consumed - aheadAt + Len(CurChunk)
<1>1. z = 0
  BY Multiples, SizesAssumption
<1>2. base \in Int
  BY ByteTypes
<1>3. ChunkStart(1) = base + z
  BY DEF ChunkStart
<1> HIDE DEF z, base
<1>4. ChunkStart(1) = base
  BY <1>1, <1>2, <1>3
<1> QED
  BY <1>4 DEF base

LEMMA StartNext ==
    ASSUME TypeOK, NEW i \in Int
    PROVE  ChunkStart(i) \in Int /\ ChunkStart(i + 1) = ChunkStart(i) + ChunkSize
<1> DEFINE p == (i - 1) * ChunkSize
           q == ((i + 1) - 1) * ChunkSize
           base == consumed - aheadAt + Len(CurChunk)
<1>1. p \in Int /\ q = p + ChunkSize /\ ChunkSize \in Int
  BY Multiples, SizesAssumption
<1>2. base \in Int
  BY ByteTypes
<1>3. ChunkStart(i) = base + p /\ ChunkStart(i + 1) = base + q
  BY DEF ChunkStart
<1> HIDE DEF p, q, base
<1> QED
  BY <1>1, <1>2, <1>3

LEMMA ByteInit == PipelineInit => ByteInv
<1> SUFFICES ASSUME PipelineInit PROVE ByteInv
  OBVIOUS
<1>0. TypeOK
  BY TypeInit
<1>1. /\ chunks = <<>> /\ Len(chunks) = 0 /\ CurChunk = <<>> /\ Len(CurChunk) = 0
      /\ consumed = 0 /\ aheadAt = 0 /\ ChunkStart(1) = 0 /\ script.size \in Nat
  BY <1>0, StartFirst, ByteTypes DEF PipelineInit, CurChunk
<1>2. ReadInv
  BY <1>1, SizesAssumption DEF PipelineInit, ReadInv, Holds
<1>3. ChunksInv /\ InflateInv
  BY <1>1 DEF PipelineInit, ChunksInv, InflateInv
<1> QED
  BY <1>2, <1>3 DEF ByteInv

\* A write into a buffer nobody reads moves no bytes.
LEMMA WriteAside ==
    ASSUME TypeOK, NEW b \in Buffers, NEW bytes,
           b # aheadBuf, \A i \in 1..Len(chunks) : chunks[i].buf # b,
           memory' = [memory EXCEPT ![b] = bytes],
           UNCHANGED <<script, chunks, aheadBuf, aheadAt, consumed>>
    PROVE  /\ CurChunk' = CurChunk
           /\ \A i : ChunkStart(i)' = ChunkStart(i)
           /\ \A i \in 1..Len(chunks) : Bytes(chunks[i])' = Bytes(chunks[i])
           /\ \A i \in 1..Len(chunks) : \A k : ChunkFits(chunks[i], k)' <=> ChunkFits(chunks[i], k)
<1>1. CurChunk' = CurChunk
  BY DEF CurChunk, TypeOK, InflaterTypes, ChunkTypes
<1>2. \A i : ChunkStart(i)' = ChunkStart(i)
  BY <1>1 DEF ChunkStart
<1>3. ASSUME NEW i \in 1..Len(chunks) PROVE Bytes(chunks[i])' = Bytes(chunks[i])
  <2>1. chunks[i] \in Chunk
    BY DEF TypeOK, ChunkTypes
  <2> QED
    BY <2>1 DEF Bytes, Chunk, TypeOK, InflaterTypes
<1>4. ASSUME NEW i \in 1..Len(chunks), NEW k PROVE ChunkFits(chunks[i], k)' <=> ChunkFits(chunks[i], k)
  BY <1>3 DEF ChunkFits, Holds
<1> QED
  BY <1>1, <1>2, <1>3, <1>4

\* What a step that writes no buffer leaves as it is.
LEMMA BytesKept ==
    ASSUME UNCHANGED <<script, memory>>
    PROVE  /\ \A c, k : ChunkFits(c, k)' <=> ChunkFits(c, k)
           /\ \A c : Bytes(c)' = Bytes(c)
           /\ \A bytes, k : Holds(bytes, k)' <=> Holds(bytes, k)
<1>1. ASSUME NEW c PROVE Bytes(c)' = Bytes(c)
  BY DEF Bytes
<1>2. ASSUME NEW bytes, NEW k PROVE Holds(bytes, k)' <=> Holds(bytes, k)
  BY DEF Holds
<1>3. ASSUME NEW c, NEW k PROVE ChunkFits(c, k)' <=> ChunkFits(c, k)
  BY <1>1 DEF ChunkFits, Holds
<1> QED
  BY <1>1, <1>2, <1>3

LEMMA ByteTake == TypeOK /\ OnePlace /\ ByteInv /\ TakeBuffer => ByteInv'
<1> SUFFICES ASSUME TypeOK, OnePlace, ByteInv, TakeBuffer PROVE ByteInv'
  OBVIOUS
<1> PICK b \in IF free # {} THEN free ELSE Buffers \ InUse :
        filling' = b /\ memory' = [memory EXCEPT ![b] = <<>>]
  BY DEF TakeBuffer
<1>1. b \in Buffers /\ b # aheadBuf /\ \A i \in 1..Len(chunks) : chunks[i].buf # b
  BY BuffersAssumption DEF OnePlace, InUse, BuffersIn, TypeOK, ChunkTypes
<1>2. /\ CurChunk' = CurChunk
      /\ \A i : ChunkStart(i)' = ChunkStart(i)
      /\ \A i \in 1..Len(chunks) : \A k : ChunkFits(chunks[i], k)' <=> ChunkFits(chunks[i], k)
  BY <1>1, WriteAside DEF TakeBuffer, ahead, decoding
<1>3. ReadInv'
  BY <1>2 DEF TakeBuffer, ByteInv, ReadInv, Holds, ahead, decoding
<1>4. ChunksInv'
  BY <1>2 DEF TakeBuffer, ByteInv, ChunksInv
<1>5. InflateInv'
  BY <1>2 DEF TakeBuffer, ByteInv, InflateInv
<1> QED
  BY <1>3, <1>4, <1>5 DEF ByteInv

LEMMA ByteFill == TypeOK /\ OnePlace /\ ByteInv /\ Fill => ByteInv'
<1> SUFFICES ASSUME TypeOK, OnePlace, ByteInv, Fill PROVE ByteInv'
  OBVIOUS
<1> DEFINE n == IF script.size - inflated < ChunkSize THEN script.size - inflated ELSE ChunkSize
           bytes == [i \in 1..n |-> inflated + i - 1]
<1>0. filling \in Buffers /\ memory' = [memory EXCEPT ![filling] = bytes] /\ inflated' = inflated + n
  BY DEF Fill, TypeOK, InflaterTypes
<1>1. filling # aheadBuf /\ \A i \in 1..Len(chunks) : chunks[i].buf # filling
  BY <1>0, BuffersAssumption DEF OnePlace
<1>2. /\ CurChunk' = CurChunk
      /\ \A i : ChunkStart(i)' = ChunkStart(i)
      /\ \A i \in 1..Len(chunks) : \A k : ChunkFits(chunks[i], k)' <=> ChunkFits(chunks[i], k)
  <2> HIDE DEF bytes
  <2> QED
    BY <1>0, <1>1, WriteAside DEF Fill, ahead, decoding
<1>3. n \in Nat /\ n <= ChunkSize /\ inflated + n <= script.size /\ (n < ChunkSize => inflated + n = script.size)
  BY SizesAssumption DEF TypeOK, InflaterTypes, Script
<1>4. memory'[filling'] = bytes /\ Len(bytes) = n /\ \A j \in 1..n : bytes[j] = inflated + j - 1
  <2>1. memory'[filling'] = bytes
    BY <1>0 DEF Fill, TypeOK, InflaterTypes
  <2> QED
    BY <1>3, <2>1
<1> HIDE DEF n, bytes
<1>5. ReadInv'
  BY <1>2 DEF Fill, ByteInv, ReadInv, Holds, ahead, decoding
<1>6. ChunksInv'
  BY <1>2 DEF Fill, ByteInv, ChunksInv
<1>7. inflater' = IF n < ChunkSize /\ RawEnd(script) = "panic" THEN "raise" ELSE "send"
  BY DEF Fill, n
<1>8. inflated = ChunkStart(Len(chunks) + 1) /\ UNCHANGED <<script, chunks>>
  BY DEF Fill, ByteInv, InflateInv
<1>9. ChunkStart(Len(chunks) + 1)' = inflated
  BY <1>2, <1>8
<1>10. Holds(memory[filling], ChunkStart(Len(chunks) + 1))' /\ Len(memory'[filling']) = n
  <2>1. Len(memory'[filling']) = n /\ script' = script
    BY <1>4, <1>8
  <2>2. \A j \in 1..n : memory'[filling'][j] = inflated + j - 1
    BY <1>4
  <2> QED
    BY <1>3, <1>9, <2>1, <2>2 DEF Holds
<1>11. InflateInv'
  BY <1>0, <1>3, <1>7, <1>8, <1>9, <1>10, ByteTypes DEF InflateInv
<1> QED
  BY <1>5, <1>6, <1>11 DEF ByteInv

\* A queue that grows by a chunk that fits.
LEMMA ByteAppend ==
    ASSUME TypeOK, ByteInv, NEW c \in Chunk, chunks' = Append(chunks, c),
           UNCHANGED <<script, memory, ahead, consumed>>,
           inflater \in {"send", "raise"}, inflater' \in {"take", "done"},
           ChunkFits(c, ChunkStart(Len(chunks) + 1)),
           c.err # "none" => inflater' = "done",
           c.err = "none" => inflated' = ChunkStart(Len(chunks) + 1) + ChunkSize
    PROVE  ByteInv'
<1>0. chunks \in Seq(Chunk) /\ Len(chunks) \in Nat
  BY DEF TypeOK, ChunkTypes
<1>1. /\ Len(chunks') = Len(chunks) + 1 /\ chunks'[Len(chunks) + 1] = c
      /\ \A i \in 1..Len(chunks) : chunks'[i] = chunks[i]
  BY <1>0
<1>2. CurChunk' = CurChunk
  BY DEF CurChunk, ahead
<1>3. \A i : ChunkStart(i)' = ChunkStart(i)
  BY <1>2 DEF ChunkStart, ahead
<1>4. ReadInv'
  BY <1>2 DEF ByteInv, ReadInv, Holds, ahead
<1>5. ChunksInv'
  <2> SUFFICES ASSUME NEW i \in 1..Len(chunks')
               PROVE  /\ ChunkFits(chunks'[i], ChunkStart(i))
                      /\ chunks'[i].err # "none" => i = Len(chunks') /\ inflater' = "done"
    BY <1>3, BytesKept DEF ChunksInv
  <2>1. CASE i = Len(chunks) + 1
    BY <1>1, <2>1
  <2>2. CASE i \in 1..Len(chunks)
    BY <1>1, <2>2 DEF ByteInv, ChunksInv
  <2> QED
    BY <1>0, <1>1, <2>1, <2>2
<1>6. InflateInv'
  <2>1. ChunkStart((Len(chunks) + 1) + 1) = ChunkStart(Len(chunks) + 1) + ChunkSize
    <3>1. Len(chunks) + 1 \in Int
      BY <1>0
    <3> QED
      BY <3>1, StartNext
  <2>2. inflater' = "take" => inflated' = ChunkStart(Len(chunks') + 1)
    BY <1>1, <2>1
  <2> QED
    BY <1>3, <2>2 DEF InflateInv
<1> QED
  BY <1>4, <1>5, <1>6 DEF ByteInv

LEMMA ByteSend == TypeOK /\ ByteInv /\ SendChunk => ByteInv'
<1> SUFFICES ASSUME TypeOK, ByteInv, SendChunk PROVE ByteInv'
  OBVIOUS
<1>0. filling \in Buffers /\ filling # None /\ UNCHANGED <<script, memory, ahead, consumed, inflated>>
  BY BuffersAssumption DEF SendChunk, TypeOK, InflaterTypes, decoding
<1>1. CASE inflater' = "done" /\ UNCHANGED chunks
  <2>1. CurChunk' = CurChunk
    BY <1>0 DEF CurChunk, ahead
  <2>2. \A i : ChunkStart(i)' = ChunkStart(i)
    BY <1>0, <2>1 DEF ChunkStart, ahead
  <2>3. ReadInv'
    BY <1>0, <1>1, <2>1, <2>2 DEF SendChunk, ByteInv, ReadInv, Holds, ahead
  <2>4. ChunksInv'
    BY <1>0, <1>1, <2>2, BytesKept DEF ByteInv, ChunksInv
  <2>5. InflateInv'
    BY <1>1 DEF InflateInv
  <2> QED
    BY <2>3, <2>4, <2>5 DEF ByteInv
<1>2. CASE inflater' # "done" \/ ~UNCHANGED chunks
  <2>1. PICK err \in IF Len(memory[filling]) < ChunkSize THEN {RawEnd(script)}
                     ELSE IF inflated = script.size /\ RawEnd(script) # "panic"
                          THEN {"none", RawEnd(script)} ELSE {"none"} :
            /\ chunks' = Append(chunks, [buf |-> filling, err |-> err])
            /\ inflater' = IF err = "none" THEN "take" ELSE "done"
    BY <1>2 DEF SendChunk
  <2> DEFINE c == [buf |-> filling, err |-> err]
             next == ChunkStart(Len(chunks) + 1)
  <2>2. /\ Holds(memory[filling], next) /\ inflated = next + Len(memory[filling])
        /\ Len(memory[filling]) < ChunkSize => inflated = script.size /\ RawEnd(script) # "panic"
    BY DEF SendChunk, ByteInv, InflateInv
  <2>3. RawEnd(script) \in {"eof", "cut", "panic"}
    BY DEF RawEnd
  <2>4. Len(memory[filling]) \in Nat /\ next \in Int
    <3>1. memory[filling] \in Seq(Nat) /\ Len(chunks) + 1 \in Int
      BY <1>0, ByteTypes DEF TypeOK, InflaterTypes
    <3>2. Len(memory[filling]) \in Nat
      BY <3>1
    <3>3. next \in Int
      BY <3>1, StartNext
    <3> QED
      BY <3>2, <3>3
  <2>5. c \in Chunk /\ Bytes(c) = memory[filling] /\ c.err = err /\ c.buf = filling
    BY <1>0, <2>1, <2>3 DEF Chunk, Errors, Bytes
  <2> HIDE DEF c, next
  <2>6. /\ err = "none" => Len(memory[filling]) = ChunkSize
        /\ err # "none" => err = RawEnd(script) /\ err # "panic" /\ inflated = script.size
    BY <2>1, <2>2, <2>3, <2>4, SizesAssumption DEF Holds
  <2>7. ChunkFits(c, next)
    BY <1>0, <2>2, <2>5, <2>6 DEF ChunkFits
  <2>8. c.err = "none" => inflated' = next + ChunkSize
    BY <1>0, <2>2, <2>5, <2>6
  <2> QED
    BY <1>0, <2>1, <2>5, <2>7, <2>8, ByteAppend DEF SendChunk, c, next
<1> QED
  BY <1>1, <1>2 DEF SendChunk

LEMMA ByteRaise == TypeOK /\ ByteInv /\ RaiseChunk => ByteInv'
<1> SUFFICES ASSUME TypeOK, ByteInv, RaiseChunk PROVE ByteInv'
  OBVIOUS
<1>0. /\ UNCHANGED <<script, memory, ahead, consumed, inflated>>
      /\ RawEnd(script) = "panic" /\ ChunkStart(Len(chunks) + 1) <= script.size
  BY DEF RaiseChunk, decoding, ByteInv, InflateInv
<1>1. CASE UNCHANGED chunks
  <2>1. CurChunk' = CurChunk
    BY <1>0 DEF CurChunk, ahead
  <2>2. \A i : ChunkStart(i)' = ChunkStart(i)
    BY <1>0, <2>1 DEF ChunkStart, ahead
  <2>3. ReadInv'
    BY <1>0, <1>1, <2>1 DEF RaiseChunk, ByteInv, ReadInv, Holds, ahead
  <2>4. ChunksInv'
    BY <1>0, <1>1, <2>2, BytesKept DEF RaiseChunk, ByteInv, ChunksInv
  <2>5. InflateInv'
    BY DEF RaiseChunk, InflateInv
  <2> QED
    BY <2>3, <2>4, <2>5 DEF ByteInv
<1>2. CASE chunks' = Append(chunks, [buf |-> None, err |-> "panic"])
  <2> DEFINE c == [buf |-> None, err |-> "panic"]
             next == ChunkStart(Len(chunks) + 1)
  <2>1. c \in Chunk /\ Bytes(c) = <<>> /\ c.err = "panic" /\ c.buf = None
    BY DEF Chunk, Errors, Bytes
  <2>2. next \in Int /\ next <= script.size
    BY <1>0, ByteTypes, StartNext
  <2> HIDE DEF c, next
  <2>3. ChunkFits(c, next)
    <3>1. Len(<<>>) = 0
      OBVIOUS
    <3> QED
      BY <1>0, <2>1, <2>2, <3>1, SizesAssumption DEF ChunkFits, Holds
  <2> QED
    BY <1>0, <1>2, <2>1, <2>3, ByteAppend DEF RaiseChunk, c, next
<1> QED
  BY <1>1, <1>2 DEF RaiseChunk

LEMMA ByteRecycle == TypeOK /\ ByteInv /\ Recycle => ByteInv'
<1> SUFFICES ASSUME TypeOK, ByteInv, Recycle PROVE ByteInv'
  OBVIOUS
<1>0. UNCHANGED <<script, memory, chunks, consumed, inflater, filling, inflated, aheadErr>>
  BY DEF Recycle, inflating, decoding
<1>1. CurChunk' = <<>> /\ Len(CurChunk') = 0 /\ aheadAt' = 0 /\ aheadAt = Len(CurChunk)
  <2>1. CurChunk' = <<>> /\ aheadAt' = 0
    BY DEF Recycle, CurChunk
  <2>2. aheadAt >= Len(CurChunk) /\ aheadAt <= Len(CurChunk)
    BY ByteTypes DEF Recycle, Unread, ByteInv, ReadInv
  <2>3. Len(<<>>) = 0
    OBVIOUS
  <2> QED
    BY <2>1, <2>2, <2>3, ByteTypes
<1>2. consumed' - aheadAt' + Len(CurChunk') = consumed - aheadAt + Len(CurChunk)
  BY <1>0, <1>1, ByteTypes
<1>3. \A i : ChunkStart(i)' = ChunkStart(i)
  BY <1>0, <1>2 DEF ChunkStart
<1>4. ReadInv'
  <2>1. consumed <= script.size
    BY <1>1, ByteTypes DEF ByteInv, ReadInv, Holds
  <2> QED
    BY <1>0, <1>1, <2>1, ByteTypes DEF Recycle, ReadInv, Holds
<1>5. ChunksInv'
  BY <1>0, <1>3, BytesKept DEF ByteInv, ChunksInv
<1>6. InflateInv'
  BY <1>0, <1>3 DEF ByteInv, InflateInv, Holds
<1> QED
  BY <1>4, <1>5, <1>6 DEF ByteInv

LEMMA ByteReceive == TypeOK /\ ByteInv /\ ReceiveChunk => ByteInv'
<1> SUFFICES ASSUME TypeOK, ByteInv, ReceiveChunk PROVE ByteInv'
  OBVIOUS
<1> DEFINE c == chunks[1]
<1>0. UNCHANGED <<script, memory, consumed, inflater, filling, inflated>>
  BY DEF ReceiveChunk, inflating, decoding
<1>1. /\ chunks \in Seq(Chunk) /\ 1 \in 1..Len(chunks) /\ c \in Chunk /\ Head(chunks) = c
      /\ Len(chunks') = Len(chunks) - 1
      /\ \A i \in 1..Len(chunks') : i + 1 \in 2..Len(chunks) /\ chunks'[i] = chunks[i + 1]
  BY DEF ReceiveChunk, TypeOK, ChunkTypes
<1>2. /\ aheadBuf' = c.buf /\ aheadAt' = 0
      /\ aheadErr' = (IF c.err = "panic" THEN "none" ELSE c.err) /\ chunks' = Tail(chunks)
  BY <1>1 DEF ReceiveChunk
<1>3. CurChunk = <<>> /\ aheadAt = 0 /\ CurChunk' = Bytes(c)
  BY <1>0, <1>2 DEF ReceiveChunk, CurChunk, Bytes, ByteInv, ReadInv
<1>4. Len(CurChunk) = 0 /\ Bytes(c) \in Seq(Nat) /\ Len(Bytes(c)) \in Nat /\ Len(chunks) \in Nat
  BY <1>1, <1>3, ByteTypes, BytesType
<1>5. ChunkFits(c, consumed) /\ (c.err # "none" => Len(chunks) = 1 /\ inflater = "done")
  <2>1. ChunkStart(1) = consumed
    BY <1>3, <1>4, ByteTypes, StartFirst
  <2> QED
    BY <1>1, <2>1 DEF ByteInv, ChunksInv
<1>6. c.err = "none" => \A i \in Int : ChunkStart(i)' = ChunkStart(i + 1)
  <2> SUFFICES ASSUME c.err = "none", NEW i \in Int PROVE ChunkStart(i)' = ChunkStart(i + 1)
    OBVIOUS
  <2> DEFINE p == (i - 1) * ChunkSize
             q == ((i + 1) - 1) * ChunkSize
  <2>1. p \in Int /\ q = p + ChunkSize /\ ChunkSize \in Int
    BY Multiples, SizesAssumption
  <2>2. Len(Bytes(c)) = ChunkSize /\ consumed \in Int
    BY <1>5, ByteTypes DEF ChunkFits
  <2>3. ChunkStart(i)' = consumed - 0 + Len(Bytes(c)) + p
    BY <1>0, <1>2, <1>3 DEF ChunkStart
  <2>4. ChunkStart(i + 1) = consumed - 0 + 0 + q
    BY <1>3, <1>4 DEF ChunkStart
  <2> HIDE DEF p, q, c
  <2> QED
    BY <2>1, <2>2, <2>3, <2>4
<1> HIDE DEF c
<1>7. Len(chunks) = 1 => chunks' = <<>> /\ Len(chunks') = 0
  BY <1>1, <1>2 DEF TypeOK, ChunkTypes
<1>8. ReadInv'
  <2>1. /\ 0 <= Len(CurChunk') /\ 0 <= consumed /\ consumed - 0 = consumed
        /\ aheadBuf' = None => aheadAt' = 0
    BY <1>2, <1>3, <1>4, ByteTypes
  <2>2. Holds(CurChunk, consumed)'
    BY <1>0, <1>3, <1>5, BytesKept DEF ChunkFits
  <2>3. aheadErr' # "none" =>
          /\ chunks' = <<>> /\ inflater' = "done" /\ aheadErr' = RawEnd(script) /\ aheadErr' # "panic"
          /\ consumed + Len(Bytes(c)) = script.size
    BY <1>0, <1>2, <1>5, <1>7 DEF ChunkFits
  <2>4. ChunkStart(1)' = consumed + Len(Bytes(c))
    <3>1. ChunkStart(1)' = consumed - 0 + Len(Bytes(c)) + (1 - 1) * ChunkSize
      BY <1>0, <1>2, <1>3 DEF ChunkStart
    <3>2. (1 - 1) * ChunkSize = 0
      BY Multiples, SizesAssumption
    <3> QED
      BY <1>4, <3>1, <3>2, ByteTypes
  <2> QED
    BY <1>0, <1>2, <2>1, <2>2, <2>3, <2>4 DEF ReadInv
<1>9. ChunksInv'
  <2>1. CASE c.err # "none"
    BY <1>5, <1>7, <2>1 DEF ChunksInv
  <2>2. CASE c.err = "none"
    <3> SUFFICES ASSUME NEW i \in 1..Len(chunks')
                 PROVE  /\ ChunkFits(chunks'[i], ChunkStart(i)')
                        /\ chunks'[i].err # "none" => i = Len(chunks') /\ inflater' = "done"
      BY <1>0, BytesKept DEF ChunksInv
    <3>1. i \in Int /\ i + 1 \in 1..Len(chunks) /\ chunks'[i] = chunks[i + 1]
      BY <1>1
    <3>2. ChunkStart(i)' = ChunkStart(i + 1)
      BY <1>6, <2>2, <3>1
    <3> QED
      BY <1>0, <1>1, <1>4, <3>1, <3>2 DEF ByteInv, ChunksInv
  <2> QED
    BY <2>1, <2>2
<1>10. InflateInv'
  <2>1. CASE c.err # "none"
    BY <1>0, <1>5, <2>1 DEF InflateInv
  <2>2. CASE c.err = "none"
    <3>1. Len(chunks') + 1 \in Int /\ (Len(chunks') + 1) + 1 = Len(chunks) + 1
      BY <1>1, <1>4
    <3>2. \A i : i = Len(chunks') + 1 => ChunkStart(i)' = ChunkStart(Len(chunks) + 1)
      BY <1>6, <2>2, <3>1
    <3>3. ChunkStart(Len(chunks) + 1)' = ChunkStart(Len(chunks) + 1)
      BY <3>2
    <3> QED
      BY <1>0, <3>3 DEF ByteInv, InflateInv, Holds
  <2> QED
    BY <2>1, <2>2
<1> QED
  BY <1>8, <1>9, <1>10 DEF ByteInv

LEMMA ByteDecode == TypeOK /\ ByteInv /\ DecodeByte => ByteInv'
<1> SUFFICES ASSUME TypeOK, ByteInv, DecodeByte PROVE ByteInv'
  OBVIOUS
<1>0. /\ UNCHANGED <<script, memory, chunks, inflater, filling, inflated, aheadBuf, aheadErr>>
      /\ aheadAt' = aheadAt + 1 /\ consumed' = consumed + 1 /\ aheadAt < Len(CurChunk)
  BY DEF DecodeByte, inflating, Unread
<1>1. CurChunk' = CurChunk /\ consumed' - aheadAt' = consumed - aheadAt
  BY <1>0, ByteTypes DEF CurChunk
<1>2. \A i : ChunkStart(i)' = ChunkStart(i)
  BY <1>0, <1>1 DEF ChunkStart
<1>3. ReadInv'
  <2>1. aheadBuf # None
    BY <1>0, ByteTypes DEF CurChunk
  <2> QED
    <3>1. aheadAt' <= Len(CurChunk') /\ aheadAt' <= consumed' /\ aheadBuf' # None
      BY <1>0, <1>1, <2>1, ByteTypes DEF ByteInv, ReadInv
    <3>2. Holds(CurChunk, consumed - aheadAt)'
      BY <1>0, <1>1 DEF ByteInv, ReadInv, Holds
    <3> QED
      BY <1>0, <1>2, <3>1, <3>2 DEF ByteInv, ReadInv
<1>4. ChunksInv'
  BY <1>0, <1>2, BytesKept DEF ByteInv, ChunksInv
<1>5. InflateInv'
  BY <1>0, <1>2 DEF ByteInv, InflateInv, Holds
<1> QED
  BY <1>3, <1>4, <1>5 DEF ByteInv

LEMMA ByteFrame ==
    ASSUME ByteInv, UNCHANGED <<script, inflating, memory, chunks, ahead, consumed>>
    PROVE  ByteInv'
<1>1. CurChunk' = CurChunk
  BY DEF CurChunk, ahead
<1>2. \A i : ChunkStart(i)' = ChunkStart(i)
  BY <1>1 DEF ChunkStart, ahead
<1>3. ReadInv'
  BY <1>1, <1>2 DEF ByteInv, ReadInv, Holds, ahead, inflating
<1>4. ChunksInv'
  BY <1>2, BytesKept DEF ByteInv, ChunksInv, inflating
<1>5. InflateInv'
  BY <1>2 DEF ByteInv, InflateInv, Holds, inflating
<1> QED
  BY <1>3, <1>4, <1>5 DEF ByteInv

LEMMA ByteNext == TypeOK /\ OnePlace /\ ByteInv /\ [PipelineNext]_all => ByteInv'
<1> SUFFICES ASSUME TypeOK, OnePlace, ByteInv, [PipelineNext]_all PROVE ByteInv'
  OBVIOUS
<1>1. CASE UNCHANGED <<script, inflating, memory, chunks, ahead, consumed>>
  BY <1>1, ByteFrame
<1> QED
  BY <1>1, ByteTake, ByteFill, ByteSend, ByteRaise, ByteRecycle, ByteReceive, ByteDecode
  DEF PipelineNext, Inflate, Parse, Analyze, Returned, all, decoding, EndOfBytes, TakeEvent,
      SendBatch, RaiseBatch, ShowEvent, ReceiveBatch, StreamOver, Finalize, HaltPrefetch,
      PrefetchDone, HaltAhead, AheadDone, Close

-----------------------------------------------------------------------------
(* What a demo's stream is *)

LEMMA StreamTypes ==
    ASSUME NEW s \in Script
    PROVE  /\ s.size \in Nat /\ s.at \in Nat /\ Whole(s) \in Nat
           /\ Messages(s) \in Nat /\ Length(s) \in Nat /\ Messages(s) <= Length(s)
           /\ StreamEnd(s) \in {"eof", "cut", "panic"}
<1>1. s.size \in Nat /\ s.at \in Nat /\ s.fault \in Faults /\ s.tail \in BOOLEAN
  BY DEF Script
<1>2. Whole(s) \in Nat
  BY <1>1 DEF Whole, MessageSize
<1>3. Messages(s) \in Nat
  BY <1>1, <1>2 DEF Messages, Stops
<1>4. Length(s) \in Nat /\ Messages(s) <= Length(s)
  BY <1>3 DEF Length
<1>5. StreamEnd(s) \in {"eof", "cut", "panic"}
  BY DEF StreamEnd, ReadError, RawEnd
<1> QED
  BY <1>1, <1>2, <1>3, <1>4, <1>5

\* A message before the one the parser does not get past.
LEMMA SoundMessage ==
    ASSUME NEW s \in Script, NEW k \in 1..Whole(s), Stops(s) => k < s.at
    PROVE  k <= Messages(s) /\ k <= Length(s) /\ Event(s, k) = k
<1>1. k <= Messages(s)
  BY StreamTypes DEF Messages
<1> QED
  BY <1>1, StreamTypes DEF Event

\* The message the parser does not get past.
LEMMA LastMessage ==
    ASSUME NEW s \in Script, Stops(s)
    PROVE  /\ s.fault = "panic" => StreamEnd(s) = "panic"
           /\ s.fault = "decode" =>
                /\ StreamEnd(s) = "cut" /\ Length(s) = s.at - 1 + (IF s.tail THEN 1 ELSE 0)
                /\ Event(s, s.at) = Unfinished
           /\ s.fault = "disconnect" =>
                /\ StreamEnd(s) = "eof" /\ Length(s) = s.at + (IF s.tail THEN 1 ELSE 0)
                /\ Event(s, s.at) = s.at /\ Event(s, s.at + 1) = Unfinished
<1>1. s.at \in Nat /\ s.tail \in BOOLEAN
  BY DEF Script
<1>2. CASE s.fault = "panic"
  BY <1>2 DEF StreamEnd
<1>3. CASE s.fault = "decode"
  <2>1. StreamEnd(s) = "cut"
    BY <1>3 DEF StreamEnd
  <2>2. Messages(s) = s.at - 1
    BY <1>1, <1>3 DEF Messages
  <2>3. Length(s) = s.at - 1 + (IF s.tail THEN 1 ELSE 0)
    BY <1>3, <2>1, <2>2 DEF Length, Flushed
  <2>4. Event(s, s.at) = Unfinished
    BY <1>1, <2>2 DEF Event
  <2> QED
    BY <1>3, <2>1, <2>3, <2>4
<1>4. CASE s.fault = "disconnect"
  <2>1. StreamEnd(s) = "eof"
    BY <1>4 DEF StreamEnd
  <2>2. Messages(s) = s.at
    BY <1>1, <1>4 DEF Messages
  <2>3. Length(s) = s.at + (IF s.tail THEN 1 ELSE 0)
    BY <1>4, <2>1, <2>2 DEF Length, Flushed
  <2>4. Event(s, s.at) = s.at /\ Event(s, s.at + 1) = Unfinished
    BY <1>1, <2>2 DEF Event
  <2> QED
    BY <1>4, <2>1, <2>3, <2>4
<1>5. s.fault \in {"panic", "decode", "disconnect"}
  BY DEF Stops
<1> QED
  BY <1>2, <1>3, <1>4, <1>5

\* The end of the bytes, when every message was sound.
LEMMA LastByte ==
    ASSUME NEW s \in Script, ~Stops(s), RawEnd(s) # "panic"
    PROVE  /\ StreamEnd(s) = ReadError(s.size, RawEnd(s)) /\ StreamEnd(s) # "panic"
           /\ Length(s) = Whole(s) + (IF s.tail THEN 1 ELSE 0)
           /\ Event(s, Whole(s) + 1) = Unfinished
<1>1. StreamEnd(s) = ReadError(s.size, RawEnd(s)) /\ StreamEnd(s) # "panic"
  BY DEF StreamEnd, ReadError
<1>2. Messages(s) = Whole(s)
  BY DEF Messages
<1>3. Length(s) = Whole(s) + (IF s.tail THEN 1 ELSE 0)
  BY <1>1, <1>2 DEF Length, Flushed
<1>4. Event(s, Whole(s) + 1) = Unfinished
  BY <1>2, StreamTypes DEF Event
<1> QED
  BY <1>1, <1>3, <1>4

\* A reader that panics does so behind every sound message.
LEMMA ReaderPanics ==
    ASSUME NEW s \in Script, RawEnd(s) = "panic"
    PROVE  StreamEnd(s) = "panic"
<1>1. s.fault = "blowUp"
  BY DEF RawEnd
<1> QED
  BY <1>1 DEF StreamEnd, Stops, ReadError

\* A byte completes a message when their count is a multiple of its size.
LEMMA OneByteMore ==
    ASSUME NEW n \in Nat
    PROVE  /\ n \div MessageSize \in Nat /\ (n + 1) \div MessageSize \in Nat
           /\ (n + 1) % MessageSize # 0 => (n + 1) \div MessageSize = n \div MessageSize
           /\ (n + 1) % MessageSize = 0 => (n + 1) \div MessageSize = n \div MessageSize + 1
BY DEF MessageSize

LEMMA FewerMessages ==
    ASSUME NEW m \in Nat, NEW n \in Nat, m <= n
    PROVE  m \div MessageSize <= n \div MessageSize
BY DEF MessageSize

-----------------------------------------------------------------------------
(* The events on their way to the analyzers *)

\* The events are those of the stream from behind the at-th on.
Follows(events, at) ==
    /\ at + Len(events) <= Length(script)
    /\ \A j \in 1..Len(events) : events[j] = Event(script, at + j)

\* How many events lie before the i-th queued batch, and before the queue.
BatchStart(i) == Len(seen) + Len(cur) + (i - 1) * BatchSize
QueueStart == BatchStart(Len(batches) + 1) + Len(batch)

ParseInv ==
    /\ parser = "next" =>
          /\ Follows(batch, BatchStart(Len(batches) + 1))
          /\ Follows(queue, QueueStart)
          /\ sourceErr = "none" =>
                /\ QueueStart + Len(queue) = consumed \div MessageSize
                /\ Stops(script) => consumed \div MessageSize < script.at
          /\ sourceErr # "none" =>
                /\ QueueStart + Len(queue) = Length(script)
                /\ sourceErr = StreamEnd(script) /\ sourceErr # "panic"
    /\ parser = "raise" => StreamEnd(script) = "panic"

\* A batch is full unless it carries the end of the stream.
BatchFits(b, at) ==
    /\ b.err # "panic" => Follows(b.events, at)
    /\ b.err = "none" => Len(b.events) = BatchSize
    /\ b.err # "none" => b.err = StreamEnd(script)
    /\ b.err \notin {"none", "panic"} => at + Len(b.events) = Length(script)

BatchesInv ==
    \A i \in 1..Len(batches) :
        /\ BatchFits(batches[i], BatchStart(i))
        /\ batches[i].err # "none" => i = Len(batches) /\ parser = "done"

ShowInv ==
    /\ Follows(cur, Len(seen))
    /\ curErr # "none" =>
          /\ batches = <<>> /\ parser = "done"
          /\ curErr = StreamEnd(script) /\ Len(seen) + Len(cur) = Length(script)

EventInv == ParseInv /\ BatchesInv /\ ShowInv

LEMMA EventTypes ==
    ASSUME TypeOK
    PROVE  /\ script \in Script /\ Length(script) \in Nat
           /\ seen \in Seq(Nat) /\ cur \in Seq(Nat) /\ batch \in Seq(Nat) /\ queue \in Seq(Nat)
           /\ Len(seen) \in Nat /\ Len(cur) \in Nat /\ Len(batch) \in Nat /\ Len(queue) \in Nat
           /\ batches \in Seq(Batch) /\ Len(batches) \in Nat
           /\ consumed \in Nat /\ BatchSize \in Nat \ {0}
<1>1. script \in Script
  BY DEF TypeOK, InflaterTypes
<1>2. /\ seen \in Seq(Nat) /\ cur \in Seq(Nat) /\ batch \in Seq(Nat) /\ queue \in Seq(Nat)
      /\ batches \in Seq(Batch) /\ consumed \in Nat
  BY DEF TypeOK, ParserTypes, CallerTypes
<1>3. Len(seen) \in Nat /\ Len(cur) \in Nat /\ Len(batch) \in Nat /\ Len(queue) \in Nat
      /\ Len(batches) \in Nat
  BY <1>2
<1> QED
  BY <1>1, <1>2, <1>3, StreamTypes, SizesAssumption

LEMMA BatchFirst ==
    ASSUME TypeOK
    PROVE  BatchStart(1) = Len(seen) + Len(cur)
<1> DEFINE z == (1 - 1) * BatchSize
           base == Len(seen) + Len(cur)
<1>1. z = 0
  BY Multiples, SizesAssumption
<1>2. base \in Int
  BY EventTypes
<1>3. BatchStart(1) = base + z
  BY DEF BatchStart
<1> HIDE DEF z, base
<1>4. BatchStart(1) = base
  BY <1>1, <1>2, <1>3
<1> QED
  BY <1>4 DEF base

LEMMA BatchNext ==
    ASSUME TypeOK, NEW i \in Int
    PROVE  BatchStart(i) \in Int /\ BatchStart(i + 1) = BatchStart(i) + BatchSize
<1> DEFINE p == (i - 1) * BatchSize
           q == ((i + 1) - 1) * BatchSize
           base == Len(seen) + Len(cur)
<1>1. p \in Int /\ q = p + BatchSize /\ BatchSize \in Int
  BY Multiples, SizesAssumption
<1>2. base \in Int
  BY EventTypes
<1>3. BatchStart(i) = base + p /\ BatchStart(i + 1) = base + q
  BY DEF BatchStart
<1> HIDE DEF p, q, base
<1> QED
  BY <1>1, <1>2, <1>3

LEMMA QueueStartType ==
    ASSUME TypeOK
    PROVE  QueueStart \in Int /\ BatchStart(Len(batches) + 1) \in Int
<1>1. Len(batches) + 1 \in Int
  BY EventTypes
<1>2. BatchStart(Len(batches) + 1) \in Int
  BY <1>1, BatchNext
<1> QED
  BY <1>2, EventTypes DEF QueueStart

\* Runs of the stream: empty, of one and two events, longer by one, shorter by one.
LEMMA RunsOfEvents ==
    ASSUME NEW at \in Int
    PROVE  /\ at <= Length(script) => Follows(<<>>, at)
           /\ \A e : at + 1 <= Length(script) /\ e = Event(script, at + 1) => Follows(<<e>>, at)
           /\ \A e, f : at + 2 <= Length(script) /\ e = Event(script, at + 1) /\ f = Event(script, at + 2)
                => Follows(<<e, f>>, at)
<1>1. at <= Length(script) => Follows(<<>>, at)
  BY DEF Follows
<1>2. ASSUME NEW e, at + 1 <= Length(script), e = Event(script, at + 1) PROVE Follows(<<e>>, at)
  BY <1>2 DEF Follows
<1>3. ASSUME NEW e, NEW f, at + 2 <= Length(script), e = Event(script, at + 1), f = Event(script, at + 2)
      PROVE  Follows(<<e, f>>, at)
  <2>1. Len(<<e, f>>) = 2 /\ <<e, f>>[1] = e /\ <<e, f>>[2] = f
    OBVIOUS
  <2> QED
    BY <1>3, <2>1 DEF Follows
<1> QED
  BY <1>1, <1>2, <1>3

LEMMA RunGrows ==
    ASSUME script \in Script, NEW events \in Seq(Nat), NEW at \in Int, NEW e \in Nat,
           Follows(events, at), at + Len(events) + 1 <= Length(script),
           e = Event(script, at + Len(events) + 1)
    PROVE  Follows(Append(events, e), at)
<1>1. /\ Len(Append(events, e)) = Len(events) + 1 /\ Len(events) \in Nat
      /\ Append(events, e)[Len(events) + 1] = e
      /\ \A j \in 1..Len(events) : Append(events, e)[j] = events[j]
  OBVIOUS
<1>2. at + (Len(events) + 1) <= Length(script) /\ e = Event(script, at + (Len(events) + 1))
  BY <1>1
<1>3. ASSUME NEW j \in 1..(Len(events) + 1) PROVE Append(events, e)[j] = Event(script, at + j)
  <2>1. CASE j = Len(events) + 1
    BY <1>1, <1>2, <2>1
  <2>2. CASE j \in 1..Len(events)
    BY <1>1, <2>2 DEF Follows
  <2> QED
    BY <1>1, <2>1, <2>2
<1> QED
  BY <1>1, <1>2, <1>3 DEF Follows

LEMMA RunShrinks ==
    ASSUME script \in Script, NEW events \in Seq(Nat), NEW at \in Int, events # <<>>, Follows(events, at)
    PROVE  /\ Head(events) = Event(script, at + 1) /\ at + 1 <= Length(script)
           /\ Len(Tail(events)) = Len(events) - 1
           /\ Follows(Tail(events), at + 1)
<1>1. /\ Len(events) \in Nat \ {0} /\ Head(events) = events[1] /\ Len(Tail(events)) = Len(events) - 1
      /\ \A j \in 1..(Len(events) - 1) : Tail(events)[j] = events[j + 1]
  OBVIOUS
<1>2. Length(script) \in Nat
  BY StreamTypes
<1>3. ASSUME NEW j \in 1..(Len(events) - 1) PROVE Tail(events)[j] = Event(script, at + 1 + j)
  <2>1. j + 1 \in 1..Len(events) /\ at + (j + 1) = at + 1 + j
    BY <1>1
  <2> QED
    BY <1>1, <2>1 DEF Follows
<1> QED
  BY <1>1, <1>2, <1>3 DEF Follows

LEMMA EventInit == PipelineInit => EventInv
<1> SUFFICES ASSUME PipelineInit PROVE EventInv
  OBVIOUS
<1>0. TypeOK
  BY TypeInit
<1>1. /\ Len(seen) = 0 /\ Len(cur) = 0 /\ Len(batch) = 0 /\ Len(queue) = 0 /\ Len(batches) = 0
      /\ consumed = 0 /\ parser = "next" /\ sourceErr = "none" /\ curErr = "none"
      /\ cur = <<>> /\ batch = <<>> /\ queue = <<>>
  BY DEF PipelineInit
<1>2. BatchStart(Len(batches) + 1) = 0 /\ QueueStart = 0
  BY <1>0, <1>1, BatchFirst DEF QueueStart
<1>3. Follows(<<>>, 0)
  BY <1>0, EventTypes, RunsOfEvents
<1>4. 0 \div MessageSize = 0 /\ (Stops(script) => 0 < script.at)
  BY <1>0, EventTypes, StreamTypes DEF MessageSize, Stops
<1>5. ParseInv
  BY <1>1, <1>2, <1>3, <1>4 DEF ParseInv
<1> QED
  BY <1>1, <1>3, <1>5 DEF EventInv, BatchesInv, ShowInv

-----------------------------------------------------------------------------
(* The events through every step *)

\* What a step keeps that leaves the demo, or what the analyzers have, alone.
LEMMA RunsKept ==
    ASSUME UNCHANGED script
    PROVE  /\ \A events, at : Follows(events, at)' <=> Follows(events, at)
           /\ \A b, at : BatchFits(b, at)' <=> BatchFits(b, at)
<1>1. ASSUME NEW events, NEW at PROVE Follows(events, at)' <=> Follows(events, at)
  BY DEF Follows
<1>2. ASSUME NEW b, NEW at PROVE BatchFits(b, at)' <=> BatchFits(b, at)
  BY <1>1 DEF BatchFits
<1> QED
  BY <1>1, <1>2

LEMMA StartsKept ==
    ASSUME UNCHANGED <<seen, cur>>
    PROVE  \A i : BatchStart(i)' = BatchStart(i)
BY DEF BatchStart

LEMMA BatchesKept ==
    ASSUME BatchesInv, UNCHANGED <<script, batches, seen, cur>>, parser = "done" => parser' = "done"
    PROVE  BatchesInv'
BY RunsKept, StartsKept DEF BatchesInv

LEMMA ShowKept ==
    ASSUME ShowInv, UNCHANGED <<script, seen, cur, curErr>>,
           parser # "done" \/ UNCHANGED <<parser, batches>>
    PROVE  ShowInv'
BY RunsKept DEF ShowInv

LEMMA ParseKept ==
    ASSUME ParseInv, UNCHANGED <<script, parser, consumed, queue, sourceErr, batch>>,
           BatchStart(Len(batches) + 1)' = BatchStart(Len(batches) + 1)
    PROVE  ParseInv'
<1>1. QueueStart' = QueueStart
  BY DEF QueueStart
<1> QED
  BY <1>1, RunsKept DEF ParseInv

LEMMA EventFrame ==
    ASSUME EventInv, UNCHANGED <<script, parser, decoding, batches, seen, cur, curErr>>
    PROVE  EventInv'
<1>1. BatchStart(Len(batches) + 1)' = BatchStart(Len(batches) + 1)
  BY StartsKept
<1>2. ParseInv'
  BY <1>1, ParseKept DEF EventInv, decoding
<1> QED
  BY <1>2, BatchesKept, ShowKept DEF EventInv

LEMMA EventReceiveChunk == TypeOK /\ ByteInv /\ EventInv /\ ReceiveChunk => EventInv'
<1> SUFFICES ASSUME TypeOK, ByteInv, EventInv, ReceiveChunk PROVE EventInv'
  OBVIOUS
<1>0. UNCHANGED <<script, decoding, batches, seen, cur, curErr>> /\ parser = "next"
  BY DEF ReceiveChunk, calling, Decoding
<1>1. CASE Head(chunks).err = "panic"
  <2>1. 1 \in 1..Len(chunks) /\ Head(chunks) = chunks[1]
    BY DEF ReceiveChunk
  <2>2. RawEnd(script) = "panic"
    BY <1>1, <2>1 DEF ByteInv, ChunksInv, ChunkFits
  <2>3. parser' = "raise" /\ StreamEnd(script) = "panic"
    BY <1>1, <2>2, EventTypes, ReaderPanics DEF ReceiveChunk
  <2> QED
    BY <1>0, <2>3, BatchesKept, ShowKept DEF EventInv, ParseInv
<1>2. CASE Head(chunks).err # "panic"
  <2>1. UNCHANGED parser
    BY <1>2 DEF ReceiveChunk
  <2> QED
    BY <1>0, <2>1, EventFrame
<1> QED
  BY <1>1, <1>2

\* What the decoder reads is the next byte of the demo.
LEMMA NextByte ==
    ASSUME TypeOK, ByteInv, Unread
    PROVE  CurChunk[aheadAt + 1] = consumed /\ consumed + 1 <= script.size
<1> DEFINE len == Len(CurChunk)
           byte == CurChunk[aheadAt + 1]
<1>1. len \in Nat /\ consumed \in Nat /\ aheadAt \in Nat /\ script.size \in Nat /\ aheadAt < len
  BY ByteTypes DEF Unread
<1>2. Holds(CurChunk, consumed - aheadAt)
  BY DEF ByteInv, ReadInv
<1>3. aheadAt + 1 \in 1..len
  BY <1>1
<1>4. byte = consumed - aheadAt + (aheadAt + 1) - 1
  BY <1>2, <1>3 DEF Holds
<1>5. consumed - aheadAt + len <= script.size
  BY <1>2 DEF Holds
<1> HIDE DEF len, byte
<1>6. byte = consumed /\ consumed + 1 <= script.size
  BY <1>1, <1>4, <1>5
<1> QED
  BY <1>6 DEF byte

LEMMA EventDecode == TypeOK /\ ByteInv /\ EventInv /\ DecodeByte => EventInv'
<1> SUFFICES ASSUME TypeOK, ByteInv, EventInv, DecodeByte PROVE EventInv'
  OBVIOUS
<1> DEFINE k == consumed \div MessageSize
           m == (consumed + 1) \div MessageSize
<1>0. /\ UNCHANGED <<script, batch, batches, seen, cur, curErr>> /\ consumed' = consumed + 1
      /\ parser = "next" /\ queue = <<>> /\ sourceErr = "none" /\ aheadAt' = aheadAt + 1
  BY DEF DecodeByte, calling, Decoding, Drained
<1>1. (\A i : BatchStart(i)' = BatchStart(i)) /\ QueueStart' = QueueStart
  BY <1>0, StartsKept DEF QueueStart
<1>2. BatchesInv' /\ ShowInv'
  BY <1>0, BatchesKept, ShowKept DEF EventInv
<1>3. Follows(batch, BatchStart(Len(batches) + 1))'
  BY <1>0, <1>1, RunsKept DEF EventInv, ParseInv
<1>4. /\ k \in Nat /\ m \in Nat /\ m <= Whole(script)
      /\ (consumed + 1) % MessageSize # 0 => m = k
      /\ (consumed + 1) % MessageSize = 0 => m = k + 1
  <2>1. consumed \in Nat /\ script.size \in Nat /\ consumed + 1 \in Nat /\ consumed + 1 <= script.size
    BY <1>0, ByteTypes, NextByte DEF DecodeByte
  <2>2. m <= Whole(script)
    BY <2>1, FewerMessages DEF Whole
  <2> QED
    BY <2>1, <2>2, OneByteMore
<1>5. QueueStart = k /\ (Stops(script) => k < script.at) /\ k <= Length(script)
  <2>1. QueueStart + Len(queue) = k /\ (Stops(script) => k < script.at) /\ QueueStart + Len(queue) <= Length(script)
    BY <1>0 DEF EventInv, ParseInv, Follows
  <2>2. Len(queue) = 0 /\ QueueStart \in Int
    BY <1>0, QueueStartType
  <2> QED
    BY <2>1, <2>2
<1>6. consumed' \div MessageSize = m /\ (CurChunk[aheadAt'] + 1) \div MessageSize = m
  BY <1>0, NextByte DEF DecodeByte
<1>7. script \in Script /\ script.at \in Nat /\ Length(script) \in Nat
  BY EventTypes, StreamTypes
<1> HIDE DEF k, m
<1>8. CASE (consumed + 1) % MessageSize # 0
  <2>1. UNCHANGED <<queue, sourceErr, parser>>
    BY <1>0, <1>8 DEF DecodeByte
  <2>2. ParseInv'
    BY <1>0, <1>1, <1>3, <1>4, <1>5, <1>6, <1>8, <2>1, RunsKept DEF EventInv, ParseInv
  <2> QED
    BY <1>2, <2>2 DEF EventInv
<1>9. CASE (consumed + 1) % MessageSize = 0
  <2> DEFINE ends == IF script.at = m THEN script.fault ELSE "none"
  <2>1. /\ queue' = CASE ends = "panic" -> <<>>
                      [] ends = "decode" -> IF script.tail THEN <<Unfinished>> ELSE <<>>
                      [] ends = "disconnect" /\ script.tail -> <<m, Unfinished>>
                      [] OTHER -> <<m>>
        /\ sourceErr' = CASE ends = "decode" -> "cut"
                          [] ends = "disconnect" -> "eof"
                          [] OTHER -> "none"
        /\ parser' = IF ends = "panic" THEN "raise" ELSE parser
    BY <1>0, <1>6, <1>9, Zenon DEF DecodeByte
  <2>2. m = k + 1 /\ m \in 1..Whole(script)
    BY <1>4, <1>9, <1>7, StreamTypes
  <2>3. CASE ends = "panic"
    <3>1. Stops(script) /\ script.fault = "panic"
      BY <2>2, <2>3 DEF Stops
    <3>2. StreamEnd(script) = "panic" /\ parser' = "raise"
      BY <1>7, <2>1, <2>3, <3>1, LastMessage
    <3>3. ParseInv'
      BY <1>0, <3>2 DEF ParseInv
    <3> QED
      BY <1>2, <3>3 DEF EventInv
  <2>4. CASE ends = "decode"
    <3>1. Stops(script) /\ script.fault = "decode" /\ script.at = m
      BY <2>2, <2>4 DEF Stops
    <3>2. /\ StreamEnd(script) = "cut" /\ Length(script) = k + (IF script.tail THEN 1 ELSE 0)
          /\ Event(script, k + 1) = Unfinished
      BY <1>4, <1>7, <2>2, <3>1, LastMessage
    <3>3. queue' = (IF script.tail THEN <<Unfinished>> ELSE <<>>) /\ sourceErr' = "cut" /\ parser' = "next"
      BY <1>0, <2>1, <2>4
    <3>4. Follows(queue', k) /\ k + Len(queue') = Length(script)
      <4>1. Len(<<>>) = 0 /\ Len(<<Unfinished>>) = 1
        OBVIOUS
      <4>2. CASE script.tail
        <5>1. Follows(<<Unfinished>>, k)
          BY <1>4, <3>2, <4>2, RunsOfEvents
        <5> QED
          BY <3>2, <3>3, <4>1, <4>2, <5>1
      <4>3. CASE ~script.tail
        <5>1. Follows(<<>>, k)
          BY <1>4, <3>2, <4>3, RunsOfEvents
        <5> QED
          BY <1>4, <3>2, <3>3, <4>1, <4>3, <5>1
      <4> QED
        BY <4>2, <4>3
    <3>5. ParseInv'
      BY <1>0, <1>1, <1>3, <1>5, <3>2, <3>3, <3>4, RunsKept DEF ParseInv
    <3> QED
      BY <1>2, <3>5 DEF EventInv
  <2>5. CASE ends = "disconnect"
    <3>1. Stops(script) /\ script.fault = "disconnect" /\ script.at = m
      BY <2>2, <2>5 DEF Stops
    <3>2. /\ StreamEnd(script) = "eof" /\ Length(script) = m + (IF script.tail THEN 1 ELSE 0)
          /\ Event(script, m) = m /\ Event(script, m + 1) = Unfinished
      BY <1>7, <3>1, LastMessage
    <3>3. /\ queue' = IF script.tail THEN <<m, Unfinished>> ELSE <<m>>
          /\ sourceErr' = "eof" /\ parser' = "next"
      BY <1>0, <2>1, <2>5
    <3>4. Follows(queue', k) /\ k + Len(queue') = Length(script)
      <4>1. Len(<<m>>) = 1 /\ Len(<<m, Unfinished>>) = 2
        OBVIOUS
      <4>2. CASE script.tail
        <5>1. k + 2 <= Length(script) /\ m = Event(script, k + 1) /\ Unfinished = Event(script, k + 2)
          BY <1>4, <2>2, <3>2, <4>2
        <5>2. Follows(<<m, Unfinished>>, k)
          BY <1>4, <5>1, RunsOfEvents
        <5> QED
          BY <1>4, <2>2, <3>2, <3>3, <4>1, <4>2, <5>2
      <4>3. CASE ~script.tail
        <5>1. Follows(<<m>>, k)
          BY <1>4, <2>2, <3>2, <4>3, RunsOfEvents
        <5> QED
          BY <1>4, <2>2, <3>2, <3>3, <4>1, <4>3, <5>1
      <4> QED
        BY <4>2, <4>3
    <3>5. ParseInv'
      BY <1>0, <1>1, <1>3, <1>5, <3>2, <3>3, <3>4, RunsKept DEF ParseInv
    <3> QED
      BY <1>2, <3>5 DEF EventInv
  <2>6. CASE ends \notin {"panic", "decode", "disconnect"}
    <3>1. Stops(script) => m < script.at
      BY <1>4, <1>5, <1>7, <2>2, <2>6 DEF Stops
    <3>2. m <= Length(script) /\ Event(script, m) = m
      BY <1>7, <2>2, <3>1, SoundMessage
    <3>3. queue' = <<m>> /\ sourceErr' = "none" /\ parser' = "next"
      BY <1>0, <2>1, <2>6
    <3>4. Follows(<<m>>, k) /\ Len(<<m>>) = 1
      BY <1>4, <2>2, <3>2, RunsOfEvents
    <3>5. ParseInv'
      BY <1>0, <1>1, <1>3, <1>4, <1>5, <1>6, <2>2, <3>1, <3>3, <3>4, RunsKept DEF ParseInv
    <3> QED
      BY <1>2, <3>5 DEF EventInv
  <2> QED
    BY <2>3, <2>4, <2>5, <2>6
<1> QED
  BY <1>8, <1>9

LEMMA EventEnd == TypeOK /\ ByteInv /\ EventInv /\ EndOfBytes => EventInv'
<1> SUFFICES ASSUME TypeOK, ByteInv, EventInv, EndOfBytes PROVE EventInv'
  OBVIOUS
<1> DEFINE k == consumed \div MessageSize
<1>0. /\ UNCHANGED <<script, consumed, batch, batches, seen, cur, curErr, parser>>
      /\ parser = "next" /\ queue = <<>> /\ sourceErr = "none"
      /\ queue' = (IF script.tail THEN <<Unfinished>> ELSE <<>>)
      /\ sourceErr' = ReadError(consumed, aheadErr)
  BY DEF EndOfBytes, calling, Decoding, Drained
<1>1. (\A i : BatchStart(i)' = BatchStart(i)) /\ QueueStart' = QueueStart
  BY <1>0, StartsKept DEF QueueStart
<1>2. BatchesInv' /\ ShowInv'
  BY <1>0, BatchesKept, ShowKept DEF EventInv
<1>3. Follows(batch, BatchStart(Len(batches) + 1))'
  BY <1>0, <1>1, RunsKept DEF EventInv, ParseInv
<1>4. consumed = script.size /\ aheadErr = RawEnd(script) /\ RawEnd(script) # "panic"
  <2>1. aheadErr = RawEnd(script) /\ aheadErr # "panic" /\ ChunkStart(1) = script.size
    BY DEF EndOfBytes, ByteInv, ReadInv
  <2>2. aheadAt = Len(CurChunk)
    BY ByteTypes DEF EndOfBytes, Unread, ByteInv, ReadInv
  <2> QED
    BY <2>1, <2>2, StartFirst, ByteTypes
<1>5. QueueStart = k /\ (Stops(script) => k < script.at) /\ k = Whole(script)
  <2>1. QueueStart + Len(queue) = k /\ (Stops(script) => k < script.at)
    BY <1>0 DEF EventInv, ParseInv
  <2>2. Len(queue) = 0 /\ QueueStart \in Int
    BY <1>0, QueueStartType
  <2> QED
    BY <1>4, <2>1, <2>2 DEF Whole
<1>6. script \in Script /\ script.at \in Nat /\ Whole(script) \in Nat /\ script.tail \in BOOLEAN
  BY EventTypes, StreamTypes DEF Script
<1> HIDE DEF k
<1>7. ~Stops(script)
  BY <1>5, <1>6 DEF Stops
<1>8. /\ sourceErr' = StreamEnd(script) /\ StreamEnd(script) # "panic" /\ StreamEnd(script) # "none"
      /\ Length(script) = k + (IF script.tail THEN 1 ELSE 0)
      /\ Event(script, k + 1) = Unfinished
  BY <1>0, <1>4, <1>5, <1>6, <1>7, LastByte, StreamTypes
<1>9. Follows(queue', k) /\ k + Len(queue') = Length(script)
  <2>1. k \in Int /\ Len(<<>>) = 0 /\ Len(<<Unfinished>>) = 1
    BY <1>5, <1>6
  <2>2. CASE script.tail
    <3>1. queue' = <<Unfinished>> /\ k + 1 <= Length(script)
      BY <1>0, <1>8, <2>1, <2>2
    <3>2. Follows(<<Unfinished>>, k)
      BY <1>8, <2>1, <3>1, RunsOfEvents
    <3> QED
      BY <1>8, <2>1, <2>2, <3>1, <3>2
  <2>3. CASE ~script.tail
    <3>1. queue' = <<>> /\ k <= Length(script)
      BY <1>0, <1>8, <2>1, <2>3
    <3>2. Follows(<<>>, k)
      BY <2>1, <3>1, RunsOfEvents
    <3> QED
      BY <1>8, <2>1, <2>3, <3>1, <3>2
  <2> QED
    BY <2>2, <2>3
<1>10. ParseInv'
  BY <1>0, <1>1, <1>3, <1>5, <1>8, <1>9, RunsKept DEF ParseInv
<1> QED
  BY <1>2, <1>10 DEF EventInv

LEMMA EventTake == TypeOK /\ EventInv /\ TakeEvent => EventInv'
<1> SUFFICES ASSUME TypeOK, EventInv, TakeEvent PROVE EventInv'
  OBVIOUS
<1> DEFINE start == BatchStart(Len(batches) + 1)
<1>0. /\ UNCHANGED <<script, consumed, batches, seen, cur, curErr, sourceErr, parser>>
      /\ parser = "next" /\ queue # <<>>
      /\ batch' = Append(batch, Head(queue)) /\ queue' = Tail(queue)
  BY DEF TakeEvent, calling
<1>1. /\ batch \in Seq(Nat) /\ queue \in Seq(Nat) /\ Head(queue) \in Nat /\ script \in Script
      /\ Len(batch) \in Nat /\ Len(queue) \in Nat
  BY <1>0, EventTypes
<1>2. start \in Int /\ QueueStart = start + Len(batch)
  BY QueueStartType DEF QueueStart
<1>3. start' = start
  BY <1>0, StartsKept
<1>4. Follows(batch, start) /\ Follows(queue, start + Len(batch))
  BY <1>0, <1>2 DEF EventInv, ParseInv
<1>5. BatchesInv' /\ ShowInv'
  BY <1>0, BatchesKept, ShowKept DEF EventInv
<1>6. QueueStart' = start' + Len(batch')
  BY DEF QueueStart
<1> HIDE DEF start
<1>7. start + Len(batch) \in Int
  BY <1>1, <1>2
<1>8. /\ Head(queue) = Event(script, start + Len(batch) + 1) /\ start + Len(batch) + 1 <= Length(script)
      /\ Len(Tail(queue)) = Len(queue) - 1
      /\ Follows(Tail(queue), start + Len(batch) + 1)
  BY <1>0, <1>1, <1>4, <1>7, RunShrinks
<1>9. Follows(Append(batch, Head(queue)), start)
  BY <1>1, <1>2, <1>4, <1>8, RunGrows
<1>10. Len(batch') = Len(batch) + 1
  BY <1>0, <1>1
<1>11. /\ QueueStart' = start + Len(batch) + 1
       /\ QueueStart' + Len(queue') = QueueStart + Len(queue)
  BY <1>0, <1>1, <1>2, <1>3, <1>6, <1>8, <1>10
<1>12. Follows(batch, start)' /\ Follows(queue, QueueStart)'
  BY <1>0, <1>3, <1>8, <1>9, <1>11, RunsKept
<1>13. ParseInv'
  BY <1>0, <1>11, <1>12 DEF EventInv, ParseInv, start
<1> QED
  BY <1>5, <1>13 DEF EventInv

\* A queue that grows by a batch that fits.
LEMMA BatchAppend ==
    ASSUME TypeOK, BatchesInv, NEW b \in Batch, batches' = Append(batches, b),
           parser # "done", parser' \in {"next", "done"},
           UNCHANGED <<script, seen, cur>>,
           BatchFits(b, BatchStart(Len(batches) + 1)),
           b.err # "none" => parser' = "done"
    PROVE  BatchesInv' /\ Len(batches') = Len(batches) + 1
<1>0. batches \in Seq(Batch) /\ Len(batches) \in Nat
  BY EventTypes
<1>1. /\ Len(batches') = Len(batches) + 1 /\ batches'[Len(batches) + 1] = b
      /\ \A i \in 1..Len(batches) : batches'[i] = batches[i]
  BY <1>0
<1> SUFFICES ASSUME NEW i \in 1..Len(batches')
             PROVE  /\ BatchFits(batches'[i], BatchStart(i))
                    /\ batches'[i].err # "none" => i = Len(batches') /\ parser' = "done"
  BY <1>1, StartsKept, RunsKept DEF BatchesInv
<1>2. CASE i = Len(batches) + 1
  BY <1>1, <1>2
<1>3. CASE i \in 1..Len(batches)
  BY <1>1, <1>3 DEF BatchesInv
<1> QED
  BY <1>0, <1>1, <1>2, <1>3

LEMMA EventSend == TypeOK /\ EventInv /\ SendBatch => EventInv'
<1> SUFFICES ASSUME TypeOK, EventInv, SendBatch PROVE EventInv'
  OBVIOUS
<1> DEFINE start == BatchStart(Len(batches) + 1)
<1>0. /\ UNCHANGED <<script, consumed, queue, sourceErr, seen, cur, curErr>>
      /\ parser = "next" /\ BatchReady /\ batch' = <<>>
  BY DEF SendBatch, calling
<1>1. CASE parser' = "done" /\ UNCHANGED batches
  <2>1. BatchesInv'
    BY <1>0, <1>1, BatchesKept DEF EventInv
  <2>2. ShowInv'
    BY <1>0, ShowKept DEF EventInv
  <2>3. ParseInv'
    BY <1>1 DEF ParseInv
  <2> QED
    BY <2>1, <2>2, <2>3 DEF EventInv
<1>2. CASE ~(parser' = "done" /\ UNCHANGED batches)
  <2> DEFINE err == IF Len(batch) < BatchSize THEN sourceErr ELSE "none"
             b == [events |-> batch, err |-> err]
  <2>1. /\ batches' = Append(batches, b)
        /\ parser' = IF err = "none" THEN "next" ELSE "done"
    BY <1>2 DEF SendBatch
  <2>2. b \in Batch /\ b.events = batch /\ b.err = err /\ Len(batch) <= BatchSize
    BY DEF Batch, TypeOK, ParserTypes, Errors
  <2>3. Len(batch) \in Nat /\ BatchSize \in Nat /\ start \in Int
    BY EventTypes, QueueStartType
  <2>4. /\ Follows(batch, start) /\ Follows(queue, QueueStart)
        /\ sourceErr = "none" =>
              /\ QueueStart + Len(queue) = consumed \div MessageSize
              /\ Stops(script) => consumed \div MessageSize < script.at
        /\ sourceErr # "none" =>
              /\ QueueStart + Len(queue) = Length(script)
              /\ sourceErr = StreamEnd(script) /\ sourceErr # "panic"
        /\ QueueStart = start + Len(batch)
    BY <1>0 DEF EventInv, ParseInv, QueueStart
  <2>5. err = "none" => Len(batch) = BatchSize
    BY <1>0, <2>2, <2>3 DEF BatchReady
  <2>6. err # "none" => queue = <<>> /\ Len(queue) = 0 /\ err = sourceErr
    BY <1>0, <2>2, <2>3 DEF BatchReady
  <2>7. BatchFits(b, start)
    BY <2>2, <2>3, <2>4, <2>5, <2>6 DEF BatchFits
  <2>8. BatchesInv' /\ Len(batches') = Len(batches) + 1
    <3> HIDE DEF b, err
    <3> QED
      BY <1>0, <2>1, <2>2, <2>7, BatchAppend DEF EventInv
  <2>9. ShowInv'
    BY <1>0, ShowKept DEF EventInv
  <2>10. ParseInv'
    <3>1. CASE err # "none"
      BY <2>1, <3>1 DEF ParseInv
    <3>2. CASE err = "none"
      <4>1. BatchStart((Len(batches) + 1) + 1) = start + BatchSize
        <5>1. Len(batches) + 1 \in Int
          BY EventTypes
        <5> QED
          BY <5>1, BatchNext
      <4>2. start' = start + BatchSize
        BY <1>0, <2>8, <4>1, StartsKept
      <4>3. Len(batch') = 0 /\ QueueStart' = start' + Len(batch')
        BY <1>0 DEF QueueStart
      <4> HIDE DEF start, err
      <4>4. QueueStart' = QueueStart /\ start' = QueueStart
        BY <2>3, <2>4, <2>5, <3>2, <4>2, <4>3
      <4>5. QueueStart \in Int /\ QueueStart <= Length(script)
        <5>1. QueueStart + Len(queue) <= Length(script) /\ Len(queue) \in Nat /\ Length(script) \in Nat
          BY <2>4, EventTypes DEF Follows
        <5>2. QueueStart \in Int
          BY QueueStartType
        <5> QED
          BY <5>1, <5>2
      <4>6. Follows(batch, start)'
        BY <1>0, <4>4, <4>5, RunsOfEvents, RunsKept
      <4>7. Follows(queue, QueueStart)'
        BY <1>0, <2>4, <4>4, RunsKept
      <4> QED
        BY <1>0, <2>1, <2>4, <3>2, <4>4, <4>6, <4>7 DEF ParseInv, start
    <3> QED
      BY <3>1, <3>2
  <2> QED
    BY <2>8, <2>9, <2>10 DEF EventInv
<1> QED
  BY <1>1, <1>2

LEMMA EventRaise == TypeOK /\ EventInv /\ RaiseBatch => EventInv'
<1> SUFFICES ASSUME TypeOK, EventInv, RaiseBatch PROVE EventInv'
  OBVIOUS
<1>0. /\ UNCHANGED <<script, seen, cur, curErr>> /\ parser = "raise" /\ parser' = "done"
      /\ StreamEnd(script) = "panic"
  BY DEF RaiseBatch, calling, EventInv, ParseInv
<1>1. ParseInv' /\ ShowInv'
  BY <1>0, ShowKept DEF EventInv, ParseInv
<1>2. BatchesInv'
  <2>1. CASE UNCHANGED batches
    BY <1>0, <2>1, BatchesKept DEF EventInv
  <2>2. CASE batches' = Append(batches, [events |-> <<>>, err |-> "panic"])
    <3> DEFINE b == [events |-> <<>>, err |-> "panic"]
    <3>1. b \in Batch /\ b.err = "panic"
      BY DEF Batch, Errors
    <3>2. batches' = Append(batches, b)
      BY <2>2
    <3> HIDE DEF b
    <3>3. BatchFits(b, BatchStart(Len(batches) + 1))
      BY <1>0, <3>1 DEF BatchFits
    <3> QED
      BY <1>0, <3>1, <3>2, <3>3, BatchAppend DEF EventInv
  <2> QED
    BY <2>1, <2>2 DEF RaiseBatch
<1> QED
  BY <1>1, <1>2 DEF EventInv

LEMMA EventShow == TypeOK /\ EventInv /\ ShowEvent => EventInv'
<1> SUFFICES ASSUME TypeOK, EventInv, ShowEvent PROVE EventInv'
  OBVIOUS
<1>0. /\ UNCHANGED <<script, parser, consumed, queue, sourceErr, batch, batches, curErr>>
      /\ cur # <<>> /\ seen' = Append(seen, Head(cur)) /\ cur' = Tail(cur)
  BY DEF ShowEvent, decoding
<1>1. /\ seen \in Seq(Nat) /\ cur \in Seq(Nat) /\ Head(cur) \in Nat /\ script \in Script
      /\ Len(seen) \in Int /\ Len(cur) \in Nat
  BY <1>0, EventTypes
<1>2. Follows(cur, Len(seen))
  BY DEF EventInv, ShowInv
<1>3. Len(Tail(cur)) = Len(cur) - 1 /\ Follows(Tail(cur), Len(seen) + 1)
  BY <1>0, <1>1, <1>2, RunShrinks
<1>4. Len(seen') = Len(seen) + 1
  BY <1>0, <1>1
<1>5. Len(seen') + Len(cur') = Len(seen) + Len(cur)
  BY <1>0, <1>1, <1>3, <1>4
<1>6. \A i : BatchStart(i)' = BatchStart(i)
  BY <1>5 DEF BatchStart
<1>7. BatchesInv'
  BY <1>0, <1>6, RunsKept DEF EventInv, BatchesInv
<1>8. ParseInv'
  BY <1>0, <1>6, ParseKept DEF EventInv
<1>9. ShowInv'
  BY <1>0, <1>3, <1>4, <1>5, RunsKept DEF EventInv, ShowInv
<1> QED
  BY <1>7, <1>8, <1>9 DEF EventInv

LEMMA EventReceive == TypeOK /\ EventInv /\ ReceiveBatch => EventInv'
<1> SUFFICES ASSUME TypeOK, EventInv, ReceiveBatch PROVE EventInv'
  OBVIOUS
<1> DEFINE b == batches[1]
<1>0. /\ UNCHANGED <<script, parser, consumed, queue, sourceErr, batch, seen>>
      /\ cur = <<>> /\ curErr = "none" /\ batches # <<>> /\ batches' = Tail(batches)
  BY DEF ReceiveBatch, decoding
<1>1. /\ batches \in Seq(Batch) /\ 1 \in 1..Len(batches) /\ b \in Batch /\ Head(batches) = b
      /\ Len(batches') = Len(batches) - 1
      /\ \A i \in 1..Len(batches') : i + 1 \in 2..Len(batches) /\ batches'[i] = batches[i + 1]
      /\ Len(batches) \in Nat
  <2>1. batches \in Seq(Batch)
    BY EventTypes
  <2> QED
    BY <1>0, <2>1
<1>2. /\ b.err = "panic" => UNCHANGED <<cur, curErr>>
      /\ b.err # "panic" => cur' = b.events /\ curErr' = b.err
  BY <1>1 DEF ReceiveBatch
<1>3. Len(seen) \in Nat /\ Len(cur) = 0 /\ b.events \in Seq(Nat) /\ Len(b.events) \in Nat
  <2>1. b.events \in Seq(Nat) /\ Len(seen) \in Nat
    BY <1>1, EventTypes DEF Batch
  <2> QED
    BY <1>0, <2>1
<1>4. BatchFits(b, Len(seen)) /\ (b.err # "none" => Len(batches) = 1 /\ parser = "done")
  <2>1. BatchStart(1) = Len(seen)
    BY <1>3, BatchFirst
  <2> QED
    BY <1>1, <2>1 DEF EventInv, BatchesInv
<1>5. Len(batches) = 1 => batches' = <<>> /\ Len(batches') = 0
  BY <1>0, <1>1
<1>6. b.err = "none" => \A i \in Int : BatchStart(i)' = BatchStart(i + 1)
  <2> SUFFICES ASSUME b.err = "none", NEW i \in Int PROVE BatchStart(i)' = BatchStart(i + 1)
    OBVIOUS
  <2> DEFINE p == (i - 1) * BatchSize
             q == ((i + 1) - 1) * BatchSize
             n == Len(seen)
  <2>1. p \in Int /\ q = p + BatchSize /\ BatchSize \in Int /\ n \in Int
    BY <1>3, Multiples, SizesAssumption
  <2>2. Len(cur') = BatchSize
    BY <1>2, <1>4, Zenon DEF BatchFits
  <2>3. BatchStart(i)' = n + Len(cur') + p
    BY <1>0 DEF BatchStart
  <2>4. BatchStart(i + 1) = n + 0 + q
    BY <1>3 DEF BatchStart
  <2> HIDE DEF p, q, n, b
  <2> QED
    BY <2>1, <2>2, <2>3, <2>4
<1> HIDE DEF b
<1>7. CASE b.err = "panic"
  <2>1. parser = "done" /\ batches' = <<>> /\ Len(batches') = 0 /\ UNCHANGED <<cur, curErr>>
    BY <1>2, <1>4, <1>5, <1>7
  <2>2. ParseInv'
    BY <1>0, <2>1 DEF ParseInv
  <2>3. BatchesInv'
    BY <2>1 DEF BatchesInv
  <2>4. ShowInv'
    BY <1>0, <2>1, RunsKept DEF EventInv, ShowInv
  <2> QED
    BY <2>2, <2>3, <2>4 DEF EventInv
<1>8. CASE b.err \notin {"none", "panic"}
  <2>1. /\ parser = "done" /\ batches' = <<>> /\ Len(batches') = 0
        /\ cur' = b.events /\ curErr' = b.err
    BY <1>2, <1>4, <1>5, <1>8
  <2>2. ParseInv'
    BY <1>0, <2>1 DEF ParseInv
  <2>3. BatchesInv'
    BY <2>1 DEF BatchesInv
  <2>4. ShowInv'
    BY <1>0, <1>4, <1>8, <2>1, RunsKept DEF BatchFits, ShowInv
  <2> QED
    BY <2>2, <2>3, <2>4 DEF EventInv
<1>9. CASE b.err = "none"
  <2>1. cur' = b.events /\ curErr' = "none" /\ Follows(b.events, Len(seen))
    BY <1>2, <1>4, <1>9 DEF BatchFits
  <2>2. ShowInv'
    BY <1>0, <2>1, RunsKept DEF ShowInv
  <2>3. BatchesInv'
    <3> SUFFICES ASSUME NEW i \in 1..Len(batches')
                 PROVE  /\ BatchFits(batches'[i], BatchStart(i)')
                        /\ batches'[i].err # "none" => i = Len(batches') /\ parser' = "done"
      BY <1>0, RunsKept DEF BatchesInv
    <3>1. i \in Int /\ i + 1 \in 1..Len(batches) /\ batches'[i] = batches[i + 1]
      BY <1>1
    <3>2. BatchStart(i)' = BatchStart(i + 1)
      BY <1>6, <1>9, <3>1
    <3>3. /\ BatchFits(batches[i + 1], BatchStart(i + 1))
          /\ batches[i + 1].err # "none" => i + 1 = Len(batches) /\ parser = "done"
      BY <3>1 DEF EventInv, BatchesInv
    <3>4. i + 1 = Len(batches) => i = Len(batches')
      BY <1>1, <3>1
    <3> QED
      BY <1>0, <3>1, <3>2, <3>3, <3>4
  <2>4. ParseInv'
    <3>1. Len(batches') + 1 \in Int /\ (Len(batches') + 1) + 1 = Len(batches) + 1
      BY <1>1
    <3>2. \A i : i = Len(batches') + 1 => BatchStart(i)' = BatchStart(Len(batches) + 1)
      BY <1>6, <1>9, <3>1
    <3>3. BatchStart(Len(batches) + 1)' = BatchStart(Len(batches) + 1)
      BY <3>2
    <3> QED
      BY <1>0, <3>3, ParseKept DEF EventInv
  <2> QED
    BY <2>2, <2>3, <2>4 DEF EventInv
<1> QED
  BY <1>7, <1>8, <1>9

LEMMA EventNext == TypeOK /\ ByteInv /\ EventInv /\ [PipelineNext]_all => EventInv'
<1> SUFFICES ASSUME TypeOK, ByteInv, EventInv, [PipelineNext]_all PROVE EventInv'
  OBVIOUS
<1>1. CASE UNCHANGED <<script, parser, decoding, batches, seen, cur, curErr>>
  BY <1>1, EventFrame
<1> QED
  BY <1>1, EventReceiveChunk, EventDecode, EventEnd, EventTake, EventSend, EventRaise, EventShow,
     EventReceive
  DEF PipelineNext, Inflate, Parse, Analyze, Returned, all, calling, TakeBuffer, Fill, SendChunk,
      RaiseChunk, Recycle, StreamOver, Finalize, HaltPrefetch, PrefetchDone, HaltAhead, AheadDone,
      Close

-----------------------------------------------------------------------------
(* The pipeline does what one goroutine does *)

\* The analyzers are shown events until there is an outcome.
RunInv == caller = "events" <=> outcome = "running"

LEMMA RunNext == TypeOK /\ EventInv /\ RunInv /\ [PipelineNext]_all => RunInv'
<1> SUFFICES ASSUME TypeOK, EventInv, RunInv, [PipelineNext]_all PROVE RunInv'
  OBVIOUS
<1>1. CASE ShowEvent
  BY <1>1 DEF ShowEvent, RunInv
<1>2. CASE ReceiveBatch
  BY <1>2 DEF ReceiveBatch, RunInv
<1>3. CASE StreamOver
  BY <1>3 DEF StreamOver, RunInv, TypeOK, CallerTypes, Errors
<1>4. CASE caller # "events" /\ caller' # "events" /\ UNCHANGED outcome
  BY <1>4 DEF RunInv
<1>5. CASE UNCHANGED <<caller, outcome>>
  BY <1>5 DEF RunInv
<1> QED
  BY <1>1, <1>2, <1>3, <1>4, <1>5
  DEF PipelineNext, Inflate, Parse, Analyze, Returned, all, calling, TakeBuffer, Fill, SendChunk,
      RaiseChunk, Recycle, ReceiveChunk, DecodeByte, EndOfBytes, TakeEvent, SendBatch, RaiseBatch,
      Finalize, HaltPrefetch, PrefetchDone, HaltAhead, AheadDone, Close

StreamInv == TypeOK /\ OnePlace /\ ByteInv /\ EventInv /\ RunInv

LEMMA StreamHolds == PipelineSpec => []StreamInv
<1>1. PipelineInit => StreamInv
  <2>1. PipelineInit => RunInv
    BY DEF PipelineInit, RunInv
  <2> QED
    BY <2>1, TypeInit, OnePlaceInit, ByteInit, EventInit DEF StreamInv
<1>2. StreamInv /\ [PipelineNext]_all => StreamInv'
  BY TypeNext, OnePlaceNext, ByteNext, EventNext, RunNext DEF StreamInv
<1> QED
  BY <1>1, <1>2, PTL DEF PipelineSpec

\* Serial's demo is this module's.
LEMMA SameStream ==
    /\ Serial!Script = Script
    /\ \A s : /\ Serial!StreamEnd(s) = StreamEnd(s) /\ Serial!Length(s) = Length(s)
             /\ \A i : Serial!Event(s, i) = Event(s, i) /\ Serial!Refused(s, i) = Refused(s, i)
<1>1. Serial!MessageSize = MessageSize /\ Serial!Unfinished = Unfinished /\ Serial!Faults = Faults
  BY DEF Serial!MessageSize, MessageSize, Serial!Unfinished, Unfinished, Serial!Faults, Faults
<1>2. Serial!Script = Script
  BY <1>1 DEF Serial!Script, Script
<1> SUFFICES ASSUME NEW s
             PROVE  /\ Serial!StreamEnd(s) = StreamEnd(s) /\ Serial!Length(s) = Length(s)
                    /\ \A i : Serial!Event(s, i) = Event(s, i) /\ Serial!Refused(s, i) = Refused(s, i)
  BY <1>2
<1>3. Serial!Whole(s) = Whole(s) /\ Serial!RawEnd(s) = RawEnd(s)
  BY <1>1, Zenon DEF Serial!Whole, Whole, Serial!RawEnd, RawEnd
<1>4. Serial!Stops(s) = Stops(s)
  BY <1>3 DEF Serial!Stops, Stops
<1>5. \A p, e : Serial!ReadError(p, e) = ReadError(p, e)
  BY <1>1, Zenon DEF Serial!ReadError, ReadError
<1>6. Serial!StreamEnd(s) = StreamEnd(s)
  BY <1>3, <1>4, <1>5, Zenon DEF Serial!StreamEnd, StreamEnd
<1>7. Serial!Messages(s) = Messages(s)
  BY <1>3, <1>4, Zenon DEF Serial!Messages, Messages
<1>8. Serial!Flushed(s) = Flushed(s)
  BY <1>4, <1>6, Zenon DEF Serial!Flushed, Flushed
<1>9. Serial!Length(s) = Length(s)
  BY <1>7, <1>8, Zenon DEF Serial!Length, Length
<1>10. \A i : Serial!Event(s, i) = Event(s, i) /\ Serial!Refused(s, i) = Refused(s, i)
  BY <1>1, <1>7, Zenon DEF Serial!Event, Event, Serial!Refused, Refused
<1> QED
  BY <1>6, <1>9, <1>10

\* A step of the pipeline is a turn of analyzeSource's loop, or one that shows
\* the analyzers nothing.
LEMMA StepsAsSerial == StreamInv /\ [PipelineNext]_all => [Serial!Next]_(Serial!vars)
<1> SUFFICES ASSUME StreamInv, [PipelineNext]_all PROVE [Serial!Next]_(Serial!vars)
  OBVIOUS
<1> USE DEF StreamInv
<1>0. script \in Script /\ seen \in Seq(Nat) /\ cur \in Seq(Nat) /\ Len(seen) \in Nat
      /\ Length(script) \in Nat
  BY EventTypes
<1>1. CASE ShowEvent
  <2>1. cur # <<>> /\ outcome = "running" /\ seen' = Append(seen, Head(cur)) /\ UNCHANGED script
    BY <1>1 DEF ShowEvent, RunInv
  <2>2. Follows(cur, Len(seen))
    BY DEF EventInv, ShowInv
  <2>3. Head(cur) = Event(script, Len(seen) + 1) /\ Len(seen) + 1 <= Length(script)
    BY <1>0, <2>1, <2>2, RunShrinks
  <2>4. Len(seen') = Len(seen) + 1
    BY <1>0, <2>1, <2>3
  <2>5. outcome' = IF Refused(script, Len(seen) + 1) THEN "refused" ELSE "running"
    BY <1>1, <2>1, <2>4 DEF ShowEvent
  <2>6. Serial!Deliver
    BY <1>0, <2>1, <2>3, <2>5, SameStream DEF Serial!Deliver
  <2> QED
    BY <2>6 DEF Serial!Next
<1>2. CASE StreamOver
  <2>1. /\ outcome = "running" /\ UNCHANGED <<script, seen>>
        /\ outcome' = StreamEnd(script) /\ Len(seen) + Len(cur) = Length(script) /\ cur = <<>>
    BY <1>2 DEF StreamOver, RunInv, EventInv, ShowInv
  <2>2. Len(seen) = Length(script)
    BY <1>0, <2>1
  <2>3. Serial!End
    BY <2>1, <2>2, SameStream DEF Serial!End
  <2> QED
    BY <2>3 DEF Serial!Next
<1>3. CASE ReceiveBatch
  <2>1. CASE Head(batches).err = "panic"
    <3>1. 1 \in 1..Len(batches) /\ Head(batches) = batches[1]
      BY <1>3, EventTypes DEF ReceiveBatch
    <3>2. StreamEnd(script) = "panic"
      BY <2>1, <3>1 DEF EventInv, BatchesInv, BatchFits
    <3>3. Serial!End
      BY <1>3, <2>1, <3>2, SameStream DEF ReceiveBatch, RunInv, Serial!End
    <3> QED
      BY <3>3 DEF Serial!Next
  <2>2. CASE Head(batches).err # "panic"
    BY <1>3, <2>2 DEF ReceiveBatch, Serial!vars
  <2> QED
    BY <2>1, <2>2
<1>4. CASE UNCHANGED <<script, seen, outcome>>
  BY <1>4 DEF Serial!vars
<1> QED
  BY <1>1, <1>2, <1>3, <1>4
  DEF PipelineNext, Inflate, Parse, Analyze, Returned, all, calling, TakeBuffer, Fill, SendChunk,
      RaiseChunk, Recycle, ReceiveChunk, DecodeByte, EndOfBytes, TakeEvent, SendBatch, RaiseBatch,
      Finalize, HaltPrefetch, PrefetchDone, HaltAhead, AheadDone, Close

\* AnalyzeReader with Parallel shows the analyzers the events a single
\* goroutine would, in its order, and ends as it does.  It is SameAsSerial
\* without its fairness.
THEOREM ImplementsSerial == PipelineSpec => Serial!Init /\ [][Serial!Next]_(Serial!vars)
<1>1. PipelineInit => Serial!Init
  BY SameStream DEF PipelineInit, Serial!Init
<1> QED
  BY <1>1, StreamHolds, StepsAsSerial, PTL DEF PipelineSpec

\* What the analyzers have seen is a front of the stream, all of it when the
\* pass ended with the stream, and what came up to the refused event otherwise.
SeenInv ==
    /\ Follows(seen, 0)
    /\ \A i \in 1..Len(seen) : Refused(script, i) => i = Len(seen) /\ outcome = "refused"
    /\ outcome = "refused" => Refused(script, Len(seen))
    /\ outcome \in {"eof", "cut"} => outcome = StreamEnd(script) /\ Len(seen) = Length(script)
    /\ outcome = "panic" => StreamEnd(script) = "panic"

LEMMA SeenNext == script \in Script /\ seen \in Seq(Nat) /\ SeenInv /\ [Serial!Next]_(Serial!vars) => SeenInv'
<1> SUFFICES ASSUME script \in Script, seen \in Seq(Nat), SeenInv, [Serial!Next]_(Serial!vars) PROVE SeenInv'
  OBVIOUS
<1>0. Len(seen) \in Nat /\ Length(script) \in Nat /\ Messages(script) \in Nat
  BY StreamTypes
<1>1. CASE Serial!Deliver
  <2> DEFINE e == Event(script, Len(seen) + 1)
  <2>1. /\ outcome = "running" /\ Len(seen) < Length(script) /\ UNCHANGED script
        /\ seen' = Append(seen, e)
        /\ outcome' = IF Refused(script, Len(seen) + 1) THEN "refused" ELSE "running"
    BY <1>1, SameStream DEF Serial!Deliver
  <2>2. e \in Nat
    BY <1>0 DEF Event, Unfinished
  <2>3. 0 \in Int /\ 0 + Len(seen) + 1 = Len(seen) + 1 /\ Len(seen) + 1 <= Length(script)
    BY <1>0, <2>1
  <2> HIDE DEF e
  <2>4. Follows(Append(seen, e), 0)
    BY <2>2, <2>3, RunGrows DEF SeenInv, e
  <2>5. Len(seen') = Len(seen) + 1
    BY <2>1, <2>2
  <2>6. ASSUME NEW i \in 1..(Len(seen) + 1), Refused(script, i)
        PROVE  i = Len(seen) + 1 /\ outcome' = "refused"
    BY <1>0, <2>1, <2>6 DEF SeenInv
  <2>7. Follows(seen, 0)'
    BY <2>1, <2>4, RunsKept
  <2>8. \A i : Refused(script, i)' <=> Refused(script, i)
    BY <2>1 DEF Refused
  <2> QED
    BY <2>1, <2>5, <2>6, <2>7, <2>8 DEF SeenInv
<1>2. CASE Serial!End
  <2>1. /\ outcome = "running" /\ outcome' = StreamEnd(script) /\ UNCHANGED <<script, seen>>
        /\ Len(seen) = Length(script) \/ StreamEnd(script) = "panic"
    BY <1>2, SameStream DEF Serial!End
  <2>2. Follows(seen, 0)' /\ StreamEnd(script)' = StreamEnd(script) /\ Length(script)' = Length(script)
    BY <2>1, RunsKept DEF SeenInv
  <2>3. \A i : Refused(script, i)' <=> Refused(script, i)
    BY <2>1 DEF Refused
  <2>4. \A i \in 1..Len(seen) : ~Refused(script, i)
    BY <2>1 DEF SeenInv
  <2> QED
    BY <2>1, <2>2, <2>3, <2>4, StreamTypes DEF SeenInv
<1>3. CASE UNCHANGED Serial!vars
  <2>1. UNCHANGED <<script, seen, outcome>>
    BY <1>3 DEF Serial!vars
  <2>2. Follows(seen, 0)' /\ StreamEnd(script)' = StreamEnd(script) /\ Length(script)' = Length(script)
    BY <2>1, RunsKept DEF SeenInv
  <2>3. \A i : Refused(script, i)' <=> Refused(script, i)
    BY <2>1 DEF Refused
  <2> QED
    BY <2>1, <2>2, <2>3 DEF SeenInv
<1> QED
  BY <1>1, <1>2, <1>3 DEF Serial!Next

\* However the goroutines interleave, no event is lost, repeated or out of
\* order: the analyzers have seen a front of the demo's events, the whole of
\* them when the pass ended at the stream's end or at its truncation, and none
\* behind the one an analyzer refused.
THEOREM NoEventLost == PipelineSpec => []SeenInv
<1>1. PipelineInit => SeenInv
  <2> SUFFICES ASSUME PipelineInit PROVE SeenInv
    OBVIOUS
  <2>1. Follows(<<>>, 0)
    BY TypeInit, EventTypes, RunsOfEvents
  <2> QED
    BY <2>1 DEF PipelineInit, SeenInv
<1>2. StreamInv => script \in Script /\ seen \in Seq(Nat)
  BY EventTypes DEF StreamInv
<1> QED
  BY <1>1, <1>2, StreamHolds, StepsAsSerial, SeenNext, PTL DEF PipelineSpec

\* The byte the decoder reads next is the demo's at that place, whichever
\* buffer it lies in and however often that was reused.
ReadsOwnPlace == Unread => CurChunk[aheadAt + 1] = consumed /\ consumed < script.size

\* Whatever buffer the decoder reads from, and however often it was used before, the
\* byte it takes next is the demo's at that place (chunkPipe, Read).
THEOREM BytesInOrder == PipelineSpec => []ReadsOwnPlace
<1>1. StreamInv => ReadsOwnPlace
  <2> SUFFICES ASSUME StreamInv, Unread PROVE CurChunk[aheadAt + 1] = consumed /\ consumed < script.size
    BY DEF ReadsOwnPlace
  <2>1. CurChunk[aheadAt + 1] = consumed /\ consumed + 1 <= script.size
    BY NextByte DEF StreamInv
  <2>2. consumed \in Nat /\ script.size \in Nat
    BY ByteTypes DEF StreamInv
  <2>3. consumed < script.size
    BY <2>1, <2>2
  <2> QED
    BY <2>1, <2>3
<1> QED
  BY <1>1, StreamHolds, PTL

-----------------------------------------------------------------------------
(* Nobody waits for ever on somebody who waits *)

\* When some action of a goroutine may be taken.
InflaterMoves ==
    \/ inflater = "take" /\ (free # {} \/ Buffers \ InUse # {})
    \/ inflater = "fill"
    \/ inflater \in {"send", "raise"} /\ (Len(chunks) < ChunkCap \/ stopAhead)

ParserMoves ==
    \/ Decoding /\ (Unread \/ aheadErr # "none" \/ aheadBuf # None \/ chunks # <<>>)
    \/ parser = "next" /\ Len(batch) < BatchSize /\ queue # <<>>
    \/ /\ parser = "raise" \/ (parser = "next" /\ BatchReady)
       /\ Len(batches) < BatchCap \/ stopPrefetch

CallerMoves ==
    \/ caller = "events" /\ (cur # <<>> \/ curErr # "none" \/ batches # <<>>)
    \/ caller \in {"finalize", "haltPrefetch", "haltAhead", "close"}
    \/ caller = "waitPrefetch" /\ parser = "done"
    \/ caller = "waitAhead" /\ inflater = "done"

\* Some goroutine can go on until AnalyzeReader has returned.
SomeoneMoves == caller = "returned" \/ InflaterMoves \/ ParserMoves \/ CallerMoves

\* A goroutine that is gone was stopped, or its last message is under way or
\* has been taken.
StopsInv ==
    /\ stopPrefetch <=> caller \in {"waitPrefetch", "haltAhead", "waitAhead", "close", "returned"}
    /\ stopAhead <=> caller \in {"waitAhead", "close", "returned"}

LastInv ==
    /\ (parser = "done" /\ caller = "events" /\ curErr = "none") =>
          \E i \in 1..Len(batches) : batches[i].err # "none"
    /\ (inflater = "done" /\ parser = "next" /\ ~stopAhead /\ aheadErr = "none") =>
          \E i \in 1..Len(chunks) : chunks[i].err # "none"

LEMMA StopsNext == StopsInv /\ [PipelineNext]_all => StopsInv'
<1> SUFFICES ASSUME StopsInv, [PipelineNext]_all PROVE StopsInv'
  OBVIOUS
<1>1. CASE ShowEvent \/ ReceiveBatch \/ StreamOver
  <2>1. caller = "events" /\ caller' \in {"events", "haltPrefetch", "finalize"}
    BY <1>1 DEF ShowEvent, ReceiveBatch, StreamOver
  <2>2. UNCHANGED <<stopAhead, stopPrefetch>>
    BY <1>1 DEF ShowEvent, ReceiveBatch, StreamOver, stops
  <2> QED
    BY <2>1, <2>2 DEF StopsInv
<1>2. CASE Finalize \/ HaltPrefetch \/ PrefetchDone \/ HaltAhead \/ AheadDone \/ Close
  BY <1>2 DEF StopsInv, Finalize, HaltPrefetch, PrefetchDone, HaltAhead, AheadDone, Close, stops
<1>3. CASE UNCHANGED <<caller, stops>>
  BY <1>3 DEF StopsInv, stops
<1> QED
  BY <1>1, <1>2, <1>3
  DEF PipelineNext, Inflate, Parse, Analyze, Returned, all, calling, TakeBuffer, Fill, SendChunk,
      RaiseChunk, Recycle, ReceiveChunk, DecodeByte, EndOfBytes, TakeEvent, SendBatch, RaiseBatch

LEMMA LastNext == TypeOK /\ StopsInv /\ LastInv /\ [PipelineNext]_all => LastInv'
<1> SUFFICES ASSUME TypeOK, StopsInv, LastInv, [PipelineNext]_all PROVE LastInv'
  OBVIOUS
<1>0. batches \in Seq(Batch) /\ chunks \in Seq(Chunk)
  BY EventTypes, ByteTypes
<1> DEFINE ParserPart == (parser = "done" /\ caller = "events" /\ curErr = "none") =>
                              \E i \in 1..Len(batches) : batches[i].err # "none"
           InflaterPart == (inflater = "done" /\ parser = "next" /\ ~stopAhead /\ aheadErr = "none") =>
                              \E i \in 1..Len(chunks) : chunks[i].err # "none"
<1>1. ParserPart'
  <2>1. CASE SendBatch
    <3> DEFINE err == IF Len(batch) < BatchSize THEN sourceErr ELSE "none"
    <3>1. CASE stopPrefetch
      BY <2>1, <3>1 DEF SendBatch, StopsInv, calling
    <3>2. CASE ~stopPrefetch
      <4>1. /\ batches' = Append(batches, [events |-> batch, err |-> err])
            /\ parser' = "done" => err # "none"
        BY <2>1, <3>2 DEF SendBatch
      <4>2. Len(batches) + 1 \in 1..Len(batches') /\ batches'[Len(batches) + 1].err = err
        <5> HIDE DEF err
        <5> QED
          BY <1>0, <4>1
      <4> QED
        BY <4>1, <4>2
    <3> QED
      BY <3>1, <3>2
  <2>2. CASE RaiseBatch
    <3>1. CASE stopPrefetch
      BY <2>2, <3>1 DEF RaiseBatch, StopsInv, calling
    <3>2. CASE ~stopPrefetch
      <4>1. batches' = Append(batches, [events |-> <<>>, err |-> "panic"])
        BY <2>2, <3>2 DEF RaiseBatch
      <4>2. Len(batches) + 1 \in 1..Len(batches') /\ batches'[Len(batches) + 1].err = "panic"
        BY <1>0, <4>1
      <4> QED
        BY <4>2
    <3> QED
      BY <3>1, <3>2
  <2>3. CASE ReceiveBatch
    <3>1. /\ caller = "events" /\ curErr = "none" /\ UNCHANGED parser
          /\ Head(batches) = batches[1] /\ batches' = Tail(batches)
          /\ Len(batches') = Len(batches) - 1 /\ Len(batches) \in Nat
          /\ \A i \in 1..Len(batches') : batches'[i] = batches[i + 1]
      BY <1>0, <2>3 DEF ReceiveBatch
    <3>2. caller' = "events" /\ curErr' = "none" => batches[1].err = "none"
      BY <2>3, <3>1 DEF ReceiveBatch
    <3> SUFFICES ASSUME parser = "done", batches[1].err = "none"
                 PROVE  \E i \in 1..Len(batches') : batches'[i].err # "none"
      BY <3>1, <3>2
    <3>3. PICK i \in 1..Len(batches) : batches[i].err # "none"
      BY <3>1 DEF LastInv
    <3>4. i # 1 /\ i - 1 \in 1..Len(batches') /\ (i - 1) + 1 = i
      BY <3>1, <3>3
    <3> QED
      BY <3>1, <3>3, <3>4
  <2>4. CASE caller' # "events" \/ curErr' # "none"
    BY <2>4
  <2>5. CASE UNCHANGED <<parser, caller, curErr, batches>>
    BY <2>5 DEF LastInv
  <2>6. CASE parser = "next" /\ parser' # "done"
    BY <2>6
  <2> QED
    BY <2>1, <2>2, <2>3, <2>4, <2>5, <2>6
    DEF PipelineNext, Inflate, Parse, Analyze, Returned, all, calling, decoding, TakeBuffer, Fill,
        SendChunk, RaiseChunk, Recycle, ReceiveChunk, DecodeByte, EndOfBytes, TakeEvent, ShowEvent,
        StreamOver, Finalize, HaltPrefetch, PrefetchDone, HaltAhead, AheadDone, Close, Decoding
<1>2. InflaterPart'
  <2>1. CASE SendChunk \/ RaiseChunk
    <3>1. CASE stopAhead
      BY <2>1, <3>1 DEF SendChunk, RaiseChunk, stops
    <3>2. CASE ~stopAhead /\ inflater' = "done"
      <4>1. PICK c : chunks' = Append(chunks, c) /\ c.err # "none"
        <5>1. CASE RaiseChunk
          BY <3>2, <5>1 DEF RaiseChunk
        <5>2. CASE SendChunk
          <6>1. PICK err : /\ chunks' = Append(chunks, [buf |-> filling, err |-> err])
                           /\ inflater' = IF err = "none" THEN "take" ELSE "done"
            BY <3>2, <5>2 DEF SendChunk
          <6>2. [buf |-> filling, err |-> err].err # "none"
            BY <3>2, <6>1
          <6> QED
            BY <6>1, <6>2
        <5> QED
          BY <2>1, <5>1, <5>2
      <4>2. Len(chunks) + 1 \in 1..Len(chunks') /\ chunks'[Len(chunks) + 1] = c
        BY <1>0, <4>1
      <4> QED
        BY <4>1, <4>2
    <3> QED
      BY <3>1, <3>2
  <2>2. CASE ReceiveChunk
    <3>1. /\ UNCHANGED <<inflater, stopAhead>> /\ parser = "next" /\ aheadErr = "none"
          /\ Head(chunks) = chunks[1] /\ chunks' = Tail(chunks)
          /\ Len(chunks') = Len(chunks) - 1 /\ Len(chunks) \in Nat
          /\ \A i \in 1..Len(chunks') : chunks'[i] = chunks[i + 1]
      BY <1>0, <2>2 DEF ReceiveChunk, Decoding, inflating, stops
    <3>2. aheadErr' = "none" /\ parser' = "next" => chunks[1].err = "none"
      BY <2>2, <3>1 DEF ReceiveChunk
    <3> SUFFICES ASSUME inflater = "done", ~stopAhead, chunks[1].err = "none"
                 PROVE  \E i \in 1..Len(chunks') : chunks'[i].err # "none"
      BY <3>1, <3>2
    <3>3. PICK i \in 1..Len(chunks) : chunks[i].err # "none"
      BY <3>1 DEF LastInv
    <3>4. i # 1 /\ i - 1 \in 1..Len(chunks') /\ (i - 1) + 1 = i
      BY <3>1, <3>3
    <3> QED
      BY <3>1, <3>3, <3>4
  <2>3. CASE inflater' # "done" \/ stopAhead' \/ parser' # "next"
    BY <2>3
  <2>4. CASE UNCHANGED <<inflater, chunks, aheadErr>> /\ (parser' = "next" => parser = "next")
             /\ (stopAhead => stopAhead')
    BY <2>4 DEF LastInv
  <2> QED
    BY <2>1, <2>2, <2>3, <2>4
    DEF PipelineNext, Inflate, Parse, Analyze, Returned, all, inflating, calling, ahead, stops,
        TakeBuffer, Fill, Recycle, DecodeByte, EndOfBytes, TakeEvent, SendBatch, RaiseBatch, ShowEvent,
        ReceiveBatch, StreamOver, Finalize, HaltPrefetch, PrefetchDone, HaltAhead, AheadDone, Close
<1> QED
  BY <1>1, <1>2 DEF LastInv

\* A goroutine that waits for a free place in memory finds one.
LEMMA RoomForOne ==
    ASSUME TypeOK, OnePlace, FewBuffers, Cardinality(Buffers) > ChunkCap + 2
    PROVE  Buffers \ InUse # {}
<1> SUFFICES ASSUME Buffers \subseteq InUse PROVE FALSE
  OBVIOUS
<1>1. InUse \subseteq Buffers
  <2>1. chunks \in Seq(Chunk) /\ free \subseteq Buffers
    BY DEF TypeOK, ChunkTypes
  <2>2. BuffersIn(chunks) \subseteq Buffers
    <3>1. \A i \in 1..Len(chunks) : chunks[i].buf \in Buffers \cup {None}
      <4>1. \A c \in Chunk : c.buf \in Buffers \cup {None}
        BY DEF Chunk
      <4>2. \A i \in 1..Len(chunks) : chunks[i] \in Chunk
        BY <2>1
      <4> QED
        BY <4>1, <4>2
    <3> QED
      BY <3>1 DEF BuffersIn
  <2> QED
    BY <2>1, <2>2 DEF InUse, TypeOK, InflaterTypes, ChunkTypes
<1>2. InUse = Buffers
  BY <1>1
<1>3. Cardinality(Buffers) \in Nat
  BY BuffersAssumption, FS_CardinalityType
<1> QED
  BY <1>2, <1>3, SizesAssumption DEF FewBuffers

\* The parser, unless it is gone or waits for room in its channel, or the
\* inflater it waits for.
LEMMA ParserOrInflater ==
    ASSUME TypeOK, OnePlace, FewBuffers, LastInv, Cardinality(Buffers) > ChunkCap + 2,
           parser # "done", Len(batches) < BatchCap \/ stopPrefetch, ~stopAhead
    PROVE  InflaterMoves \/ ParserMoves
<1>0. /\ Len(batch) \in Nat /\ Len(batch) <= BatchSize /\ BatchSize \in Nat
      /\ parser \in {"next", "raise"} /\ ChunkCap \in Nat \ {0}
  BY EventTypes, SizesAssumption DEF TypeOK, ParserTypes
<1>1. CASE parser = "raise" \/ BatchReady
  BY <1>0, <1>1 DEF ParserMoves
<1>2. CASE parser = "next" /\ ~BatchReady
  <2>1. Len(batch) < BatchSize
    BY <1>0, <1>2 DEF BatchReady
  <2>2. CASE queue # <<>>
    BY <1>2, <2>1, <2>2 DEF ParserMoves
  <2>3. CASE queue = <<>>
    <3>1. Decoding
      BY <1>2, <2>1, <2>3 DEF Decoding, Drained, BatchReady
    <3>2. CASE aheadErr # "none" \/ chunks # <<>>
      BY <3>1, <3>2 DEF ParserMoves
    <3>3. CASE aheadErr = "none" /\ chunks = <<>>
      <4>1. inflater # "done"
        BY <1>2, <3>3 DEF LastInv
      <4>2. inflater \in {"take", "fill", "send", "raise"}
        BY <4>1 DEF TypeOK, InflaterTypes
      <4>3. Len(chunks) < ChunkCap
        BY <1>0, <3>3
      <4> QED
        BY <4>2, <4>3, RoomForOne DEF InflaterMoves
    <3> QED
      BY <3>2, <3>3
  <2> QED
    BY <2>2, <2>3
<1> QED
  BY <1>0, <1>1, <1>2

LEMMA MovesNow ==
    ASSUME TypeOK, OnePlace, FewBuffers, StopsInv, LastInv, Cardinality(Buffers) > ChunkCap + 2
    PROVE  SomeoneMoves
<1>1. CASE caller = "events"
  <2>1. ~stopAhead
    BY <1>1 DEF StopsInv
  <2>2. CASE cur # <<>> \/ curErr # "none" \/ batches # <<>>
    BY <1>1, <2>2 DEF SomeoneMoves, CallerMoves
  <2>3. CASE curErr = "none" /\ batches = <<>>
    <3>1. parser # "done"
      BY <1>1, <2>3 DEF LastInv
    <3>2. Len(batches) < BatchCap
      BY <2>3, SizesAssumption
    <3> QED
      BY <2>1, <3>1, <3>2, ParserOrInflater DEF SomeoneMoves
  <2> QED
    BY <2>2, <2>3
<1>2. CASE caller = "waitPrefetch"
  <2>1. ~stopAhead /\ stopPrefetch
    BY <1>2 DEF StopsInv
  <2>2. CASE parser = "done"
    BY <1>2, <2>2 DEF SomeoneMoves, CallerMoves
  <2>3. CASE parser # "done"
    BY <2>1, <2>3, ParserOrInflater DEF SomeoneMoves
  <2> QED
    BY <2>2, <2>3
<1>3. CASE caller = "waitAhead"
  <2>1. stopAhead
    BY <1>3 DEF StopsInv
  <2>2. CASE inflater = "done"
    BY <1>3, <2>2 DEF SomeoneMoves, CallerMoves
  <2>3. CASE inflater # "done"
    <3>1. inflater \in {"take", "fill", "send", "raise"}
      BY <2>3 DEF TypeOK, InflaterTypes
    <3> QED
      BY <2>1, <3>1, RoomForOne DEF SomeoneMoves, InflaterMoves
  <2> QED
    BY <2>2, <2>3
<1>4. CASE caller \in {"finalize", "haltPrefetch", "haltAhead", "close", "returned"}
  BY <1>4 DEF SomeoneMoves, CallerMoves
<1> QED
  BY <1>1, <1>2, <1>3, <1>4 DEF TypeOK, CallerTypes, Waiting

\* With memory for one buffer more than the pipeline ever holds, the three
\* goroutines never all wait: on every way the demo can end, and whatever the
\* capacities, one of them can go on until AnalyzeReader has returned.
THEOREM NeverStuck ==
    ASSUME Cardinality(Buffers) > ChunkCap + 2
    PROVE  PipelineSpec => []SomeoneMoves
<1>1. PipelineInit => StopsInv /\ LastInv
  <2>1. PipelineInit => ~stopAhead /\ ~stopPrefetch
    BY Zenon DEF PipelineInit
  <2> QED
    BY <2>1 DEF PipelineInit, StopsInv, LastInv
<1>2. /\ TypeOK /\ StopsInv /\ LastInv /\ [PipelineNext]_all
      => (StopsInv /\ LastInv)'
  BY StopsNext, LastNext
<1>3. TypeOK /\ OnePlace /\ FewBuffers /\ StopsInv /\ LastInv => SomeoneMoves
  BY MovesNow
<1> QED
  BY <1>1, <1>2, <1>3, TypeCorrect, OnePlaceHolds, FewBuffersHold, PTL DEF PipelineSpec
=============================================================================
