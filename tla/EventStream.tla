---------------------------- MODULE EventStream ----------------------------
(***************************************************************************)
(* The event pass as one goroutine runs it: the reader inflates the demo,   *)
(* the Source decodes it message by message, and analyzeSource shows every  *)
(* event to the analyzers until the stream ends or one of them refuses.     *)
(* EventPipeline, the three goroutines of -parallel, implements it.         *)
(*                                                                         *)
(* A demo is a script: so many inflated bytes, and at most one thing that   *)
(* goes wrong.  A message is four bytes: its time, its type, and two of     *)
(* payload, each read by an io.ReadFull of its own.  Message k decodes to   *)
(* event k; the print line still unfinished at the end is event Unfinished.  *)
(***************************************************************************)
EXTENDS Integers, Sequences

VARIABLES
    script,    \* the demo
    seen,      \* the events the analyzers saw, in order
    outcome    \* how analyzeSource's event pass ended

MessageSize == 4
Unfinished == 0

(* What can be wrong with a demo:                                           *)
(*   cut         the reader fails after the last byte (a truncated gzip)    *)
(*   blowUp      the reader panics there                                    *)
(*   decode      the decoder refuses message at (its size, its type); a     *)
(*               message the parser cannot read only leaves a warning       *)
(*   disconnect  message at is EndOfDemo, with more bytes behind it         *)
(*   panic       the parser panics in message at                            *)
(*   refuse      an analyzer returns an error on the at-th event            *)
Faults == {"none", "cut", "blowUp", "decode", "disconnect", "panic", "refuse"}

Script == [size : Nat, fault : Faults, at : Nat, tail : BOOLEAN]

Whole(s) == s.size \div MessageSize

\* The message the parser does not get past.
Stops(s) == s.fault \in {"decode", "disconnect", "panic"} /\ s.at \in 1..Whole(s)

\* Decoder.NextMessage on a reader that ends with err before the byte at
\* pos: io.ReadFull returns io.EOF itself when the field has no byte yet, and
\* io.ErrUnexpectedEOF after the first of several.
ReadError(pos, err) ==
    IF err = "eof" /\ pos % MessageSize = MessageSize - 1 THEN "cut" ELSE err

RawEnd(s) == CASE s.fault = "cut" -> "cut" [] s.fault = "blowUp" -> "panic" [] OTHER -> "eof"

\* How the Source's Next ends.
StreamEnd(s) ==
    IF Stops(s)
    THEN CASE s.fault = "decode" -> "cut" [] s.fault = "disconnect" -> "eof" [] OTHER -> "panic"
    ELSE ReadError(s.size, RawEnd(s))

Messages(s) ==
    IF Stops(s) THEN s.at - (IF s.fault = "disconnect" THEN 0 ELSE 1) ELSE Whole(s)

\* The unfinished print line is delivered at the end of the stream, clean or
\* not, but not when the parser panics.
Flushed(s) == s.tail /\ StreamEnd(s) # "panic"

Length(s) == Messages(s) + (IF Flushed(s) THEN 1 ELSE 0)
Event(s, i) == IF i <= Messages(s) THEN i ELSE Unfinished

Refused(s, i) == s.fault = "refuse" /\ s.at = i

-----------------------------------------------------------------------------
vars == <<script, seen, outcome>>

Init == script \in Script /\ seen = <<>> /\ outcome = "running"

\* One turn of analyzeSource's loop.
Deliver ==
    /\ outcome = "running" /\ Len(seen) < Length(script)
    /\ seen' = Append(seen, Event(script, Len(seen) + 1))
    /\ outcome' = IF Refused(script, Len(seen) + 1) THEN "refused" ELSE "running"
    /\ UNCHANGED script

\* A panic may overtake events decoded before it (the batch it interrupts is
\* lost); any other end comes behind every event.
End ==
    /\ outcome = "running"
    /\ \/ Len(seen) = Length(script)
       \/ StreamEnd(script) = "panic"
    /\ outcome' = StreamEnd(script)
    /\ UNCHANGED <<script, seen>>

Next == Deliver \/ End

Spec == Init /\ [][Next]_vars /\ WF_vars(Next)
=============================================================================
