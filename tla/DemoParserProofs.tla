-------------------------- MODULE DemoParserProofs --------------------------
(***************************************************************************)
(* What the parser keeps for any slots, names, print keys and fragments,   *)
(* however the server orders its messages.                                 *)
(***************************************************************************)
EXTENDS DemoParser, SequenceTheorems, TLAPS

Lives == {"unknown", "alive", "dead"}
Timing == [started : BOOLEAN, start : 0..MaxTime, ended : BOOLEAN, end : 0..MaxTime,
           lastPos : 0..MaxTime]

-----------------------------------------------------------------------------
(* The clock *)

LEMMA TimingOps ==
    ASSUME NEW t \in Timing, NEW time \in 0..MaxTime
    PROVE  /\ OnMatchStart(t, time) \in Timing /\ OnMatchStart(t, time).started = TRUE
           /\ Ending(t, time) \in Timing /\ Ending(t, time).started = t.started
           /\ OnPosition(t, time) \in Timing /\ OnPosition(t, time).started = t.started
<1>1. OnMatchStart(t, time) \in Timing /\ OnMatchStart(t, time).started = TRUE
  BY DEF OnMatchStart, Timing
<1>2. Ending(t, time) \in Timing /\ Ending(t, time).started = t.started
  BY DEF Ending, Timing
<1>3. OnPosition(t, time) \in Timing /\ OnPosition(t, time).started = t.started
  BY DEF OnPosition, Timing
<1> QED
  BY <1>1, <1>2, <1>3

LEMMA OnPrintTiming ==
    ASSUME NEW t \in Timing, NEW k, NEW line, line.time \in 0..MaxTime
    PROVE  OnPrint(t, k, line) \in Timing /\ OnPrint(t, k, line).started = t.started
BY TimingOps DEF OnPrint

-----------------------------------------------------------------------------
(* Types, and what else every step keeps *)

StateTypes ==
    /\ now \in 0..MaxTime /\ stream \in {"open", "over", "returned"}
    /\ matchStarted \in BOOLEAN /\ statusRunning \in BOOLEAN
    /\ names \in [Slots -> Names \cup {None}]
    /\ cursor \in [Slots -> Lives] /\ view \in [Slots -> Lives] /\ missed \subseteq Slots
    /\ seen \in [Slots -> BOOLEAN] /\ healthy \in [Slots -> BOOLEAN]
    /\ timing \in Timing
    /\ lastPrint \in 0..MaxTime
LineTypes ==
    /\ fragment \in [key : PrintKeys, text : Fragments] \cup {None}
    /\ pending \in [PrintKeys -> Lines] /\ keys \subseteq PrintKeys

LEMMA TypeParts == TypeOK <=> StateTypes /\ LineTypes
BY DEF TypeOK, StateTypes, LineTypes, Lives, Timing

LEMMA TypeInit == Init => TypeOK
<1> SUFFICES ASSUME Init PROVE TypeOK
  OBVIOUS
<1>1. 0 \in 0..MaxTime
  BY BoundAssumption
<1>2. NoText \in Lines
  BY <1>1 DEF NoText, Lines
<1>3. StateTypes
  BY <1>1 DEF Init, StateTypes, Lives, Timing
<1>4. LineTypes
  BY <1>2 DEF Init, LineTypes
<1> QED
  BY <1>3, <1>4, TypeParts

\* What handing on a line changes, and how.
LEMMA Delivery ==
    ASSUME StateTypes, NEW k, NEW line, line.time \in 0..MaxTime, Deliver(k, line)
    PROVE  /\ matchStarted' \in BOOLEAN /\ timing' \in Timing /\ lastPrint' = line.time
           /\ GateAgrees => GateAgrees'
           /\ \E fallen \in SUBSET Slots :
                /\ cursor' = Told(cursor, fallen, "dead") /\ view' = Told(view, fallen, "dead")
                /\ missed' = missed \ fallen
<1> DEFINE started == matchStarted \/ Starts(k, line)
           fallen == IF started THEN Victims(line) ELSE {}
           printed == OnPrint(timing, k, line)
<1>1. started \in BOOLEAN /\ matchStarted \in BOOLEAN /\ timing \in Timing
  BY DEF StateTypes
<1>2. printed \in Timing /\ printed.started = timing.started
  BY <1>1, OnPrintTiming
<1>3. matchStarted' = started
  BY DEF Deliver
<1>4. timing' = IF ~matchStarted /\ started THEN OnMatchStart(printed, line.time) ELSE printed
  BY DEF Deliver
<1>5. timing' \in Timing /\ timing'.started = IF ~matchStarted /\ started THEN TRUE ELSE timing.started
  BY <1>2, <1>4, TimingOps
<1>6. GateAgrees => GateAgrees'
  BY <1>1, <1>3, <1>5 DEF GateAgrees
<1>7. fallen \in SUBSET Slots
  BY DEF Victims
<1>8. cursor' = Told(cursor, fallen, "dead") /\ view' = Told(view, fallen, "dead") /\ missed' = missed \ fallen
  BY DEF Deliver
<1>9. lastPrint' = line.time
  BY DEF Deliver
<1> QED
  BY <1>1, <1>3, <1>5, <1>6, <1>7, <1>8, <1>9

LEMMA ToldTypes ==
    ASSUME NEW f \in [Slots -> Lives], NEW S \in SUBSET Slots, NEW life \in Lives
    PROVE  Told(f, S, life) \in [Slots -> Lives]
BY DEF Told

\* Where a line that is handed on comes from.
LEMMA Delivered ==
    ASSUME TypeOK, Release \/ Assemble,
           ~UNCHANGED <<startVars, lifeVars, lastPrint>>
    PROVE  \E k, line : line.time \in 0..MaxTime /\ Deliver(k, line)
<1>1. ASSUME NEW k \in PrintKeys PROVE pending[k].time \in 0..MaxTime
  BY DEF TypeOK, Lines
<1>2. CASE Release
  BY <1>1, <1>2 DEF Release, TypeOK
<1>4. CASE Assemble
  <2> DEFINE k == fragment.key
             text == pending[k].text \o fragment.text
             start == IF k \in Unfinished THEN pending[k].time ELSE now
  <2>1. start \in 0..MaxTime
    BY <1>1 DEF TypeOK, Unfinished
  <2>2. PICK n \in 1..Len(text) : Deliver(k, [text |-> SubSeq(text, 1, n), time |-> start])
    BY <1>4 DEF Assemble
  <2> QED
    BY <2>1, <2>2
<1> QED
  BY <1>2, <1>4

LEMMA StateTypesNext == TypeOK /\ [Next]_vars => StateTypes'
<1> SUFFICES ASSUME TypeOK, [Next]_vars PROVE StateTypes'
  OBVIOUS
<1>0. StateTypes
  BY TypeParts
<1>1. CASE StuffMatchStart
  <2>1. timing' \in Timing
    BY <1>0, <1>1, TimingOps DEF StuffMatchStart, NoteMatchStart, StateTypes
  <2> QED
    BY <1>0, <1>1, <2>1 DEF StuffMatchStart, NoteMatchStart, StateTypes, lineVars, lifeVars
<1>2. CASE FullServerInfo
  BY <1>0, <1>2 DEF FullServerInfo, StateTypes, lineVars, lifeVars, startVars
<1>3. CASE ServerInfoStatus
  <2>1. timing' \in Timing /\ matchStarted' \in BOOLEAN
    BY <1>0, <1>3, TimingOps DEF ServerInfoStatus, NoteMatchStart, StateTypes, startVars
  <2> QED
    BY <1>0, <1>3, <2>1 DEF ServerInfoStatus, StateTypes, lineVars, lifeVars
<1>4. CASE Intermission
  BY <1>0, <1>4, TimingOps DEF Intermission, StateTypes, lineVars, lifeVars
<1>5. CASE ReadPrint
  BY <1>0, <1>5 DEF ReadPrint, StateTypes, startVars, lifeVars
<1>6. CASE Release \/ Assemble
  <2>1. UNCHANGED <<now, statusRunning, names, seen, healthy, stream>>
    BY <1>6 DEF Release, Assemble
  <2>2. CASE UNCHANGED <<startVars, lifeVars, lastPrint>>
    BY <1>0, <2>1, <2>2 DEF StateTypes, startVars, lifeVars
  <2>3. ASSUME NEW k, NEW line, line.time \in 0..MaxTime, Deliver(k, line) PROVE StateTypes'
    <3>1. PICK fallen \in SUBSET Slots :
                /\ cursor' = Told(cursor, fallen, "dead") /\ view' = Told(view, fallen, "dead")
                /\ missed' = missed \ fallen
      BY <1>0, <2>3, Delivery
    <3>2. cursor' \in [Slots -> Lives] /\ view' \in [Slots -> Lives] /\ missed' \subseteq Slots
      BY <1>0, <3>1, ToldTypes DEF StateTypes, Lives
    <3>3. matchStarted' \in BOOLEAN /\ timing' \in Timing /\ lastPrint' \in 0..MaxTime
      BY <1>0, <2>3, Delivery
    <3> QED
      BY <1>0, <2>1, <3>2, <3>3 DEF StateTypes
  <2> QED
    BY <1>6, <2>2, <2>3, Delivered
<1>7. CASE UserInfo
  BY <1>0, <1>7 DEF UserInfo, StateTypes, lineVars, lifeVars, startVars
<1>8. ASSUME NEW s \in Slots, NEW life \in Lives, Emit(s, life) \/ UNCHANGED lifeVars \/ FirstSightDead(s)
      PROVE  cursor' \in [Slots -> Lives] /\ view' \in [Slots -> Lives] /\ missed' \subseteq Slots
  <2>1. CASE Emit(s, life)
    BY <1>0, <1>8, <2>1 DEF Emit, StateTypes
  <2>2. CASE UNCHANGED lifeVars
    BY <1>0, <2>2 DEF lifeVars, StateTypes
  <2>3. CASE FirstSightDead(s)
    BY <1>0, <2>3 DEF FirstSightDead, StateTypes, Lives
  <2> QED
    BY <1>8, <2>1, <2>2, <2>3
<1>9. CASE StatHealth
  <2>1. cursor' \in [Slots -> Lives] /\ view' \in [Slots -> Lives] /\ missed' \subseteq Slots
    BY <1>8, <1>9 DEF StatHealth, Lives
  <2>2. healthy' \in [Slots -> BOOLEAN]
    BY <1>0, <1>9 DEF StatHealth, StateTypes
  <2> QED
    BY <1>0, <1>9, <2>1, <2>2 DEF StatHealth, StateTypes, lineVars, startVars
<1>10. ASSUME NEW s \in Slots, NEW dead \in BOOLEAN, PlayerInfo(s, dead) PROVE StateTypes'
  <2>1. cursor' \in [Slots -> Lives] /\ view' \in [Slots -> Lives] /\ missed' \subseteq Slots
    BY <1>8, <1>10 DEF PlayerInfo, Lives
  <2>2. timing' \in Timing
    BY <1>0, <1>10, TimingOps DEF PlayerInfo, StateTypes
  <2>3. seen' \in [Slots -> BOOLEAN]
    BY <1>0, <1>10 DEF PlayerInfo, StateTypes
  <2> QED
    BY <1>0, <1>10, <2>1, <2>2, <2>3 DEF PlayerInfo, StateTypes, lineVars
<1>11. CASE NextFrame
  BY <1>0, <1>11, BoundAssumption DEF NextFrame, StateTypes, lineVars, startVars, lifeVars
<1>12. CASE EndOfStream \/ Disconnect \/ Return
  BY <1>0, <1>12 DEF EndOfStream, Disconnect, FlushPending, Return, StateTypes, lineVars, startVars, lifeVars
<1>13. CASE Returned \/ UNCHANGED vars
  BY <1>0, <1>13 DEF Returned, vars, StateTypes, lineVars, startVars, lifeVars
<1> QED
  BY <1>1, <1>2, <1>3, <1>4, <1>5, <1>6, <1>7, <1>9, <1>10, <1>11, <1>12, <1>13 DEF Next

\* What is left of a text behind its last newline.
LEMMA Rest ==
    ASSUME NEW text \in Seq(Words), NEW n \in 0..Len(text),
           \A i \in n + 1..Len(text) : text[i] # "nl"
    PROVE  SubSeq(text, n + 1, Len(text)) \in Seq(Words \ {"nl"})
<1> DEFINE rest == SubSeq(text, n + 1, Len(text))
<1>1. rest \in Seq(Words) /\ Len(rest) = Len(text) - n
  OBVIOUS
<1>2. \A i \in 1..Len(rest) : rest[i] = text[n + i] /\ n + i \in n + 1..Len(text)
  BY <1>1
<1>3. \A i \in 1..Len(rest) : rest[i] \in Words \ {"nl"}
  BY <1>1, <1>2
<1> QED
  BY <1>1, <1>3

LEMMA NoNewlines ==
    ASSUME NEW text \in Seq(Words), \A i \in 1..Len(text) : text[i] # "nl"
    PROVE  text \in Seq(Words \ {"nl"})
<1>1. \A i \in 1..Len(text) : text[i] \in Words \ {"nl"}
  OBVIOUS
<1> QED
  BY <1>1

LEMMA LineTypesNext == TypeOK /\ [Next]_vars => LineTypes'
<1> SUFFICES ASSUME TypeOK, [Next]_vars PROVE LineTypes'
  OBVIOUS
<1>0. LineTypes /\ now \in 0..MaxTime
  BY DEF TypeOK, LineTypes
<1>a. NoText \in Lines
  BY BoundAssumption DEF NoText, Lines
<1>1. CASE ReadPrint
  BY <1>0, <1>1 DEF ReadPrint, LineTypes, Stale, Unfinished
<1>2. CASE Release
  BY <1>0, <1>2, <1>a DEF Release, LineTypes
<1>b. CASE EndOfStream \/ Disconnect
  BY <1>0, <1>b DEF EndOfStream, Disconnect, FlushPending, LineTypes, Unfinished
<1>3. CASE Assemble
  <2> DEFINE k == fragment.key
             text == pending[k].text \o fragment.text
             start == IF k \in Unfinished THEN pending[k].time ELSE now
             NoNewline(from) == \A i \in from..Len(text) : text[i] # "nl"
  <2>1. k \in PrintKeys /\ fragment.text \in Seq(Words) /\ pending[k] \in Lines
    BY <1>0, <1>3, FragmentAssumption DEF Assemble, LineTypes, Texts
  <2>2. text \in Seq(Words) /\ start \in 0..MaxTime
    <3>1. pending[k].text \in Seq(Words \ {"nl"}) /\ pending[k].time \in 0..MaxTime
      BY <2>1 DEF Lines
    <3>2. pending[k].text \in Seq(Words)
      BY <3>1
    <3> QED
      BY <1>0, <2>1, <3>1, <3>2
  <2>3. CASE NoNewline(1) /\ pending' = [pending EXCEPT ![k] = [text |-> text, time |-> start]]
    <3>1. text \in Seq(Words \ {"nl"})
      <4>1. text \in Seq(Words) /\ \A i \in 1..Len(text) : text[i] # "nl"
        BY <2>2, <2>3
      <4> HIDE DEF text
      <4> QED
        BY <4>1, NoNewlines
    <3>2. [text |-> text, time |-> start] \in Lines
      BY <2>2, <3>1 DEF Lines
    <3> QED
      BY <1>0, <1>3, <2>3, <3>2 DEF Assemble, LineTypes
  <2>4. ASSUME NEW n \in 1..Len(text), NoNewline(n + 1),
               pending' = [pending EXCEPT ![k] =
                    IF n = Len(text) THEN NoText
                    ELSE [text |-> SubSeq(text, n + 1, Len(text)), time |-> now]]
        PROVE  LineTypes'
    <3>1. SubSeq(text, n + 1, Len(text)) \in Seq(Words \ {"nl"})
      <4> HIDE DEF text
      <4>1. n \in 0..Len(text)
        BY <2>2, <2>4
      <4> QED
        BY <2>2, <2>4, <4>1, Rest
    <3>2. [text |-> SubSeq(text, n + 1, Len(text)), time |-> now] \in Lines
      BY <1>0, <3>1 DEF Lines
    <3> QED
      BY <1>0, <1>3, <1>a, <2>4, <3>2 DEF Assemble, LineTypes
  <2> QED
    BY <1>3, <2>3, <2>4 DEF Assemble
<1>4. CASE UNCHANGED <<fragment, pending, keys>>
  BY <1>0, <1>4 DEF LineTypes
<1>5. CASE \/ StuffMatchStart \/ FullServerInfo \/ ServerInfoStatus \/ Intermission \/ UserInfo \/ StatHealth
           \/ NextFrame \/ Return \/ Returned \/ UNCHANGED vars
  BY <1>4, <1>5 DEF StuffMatchStart, FullServerInfo, ServerInfoStatus, Intermission, UserInfo,
     StatHealth, NextFrame, Return, Returned, vars, lineVars
<1>6. ASSUME NEW s \in Slots, NEW dead \in BOOLEAN, PlayerInfo(s, dead) PROVE LineTypes'
  BY <1>4, <1>6 DEF PlayerInfo, lineVars
<1> QED
  BY <1>1, <1>2, <1>b, <1>3, <1>5, <1>6 DEF Next

LEMMA TypeNext == TypeOK /\ [Next]_vars => TypeOK'
<1> SUFFICES ASSUME TypeOK, [Next]_vars PROVE TypeOK'
  OBVIOUS
<1>1. StateTypes' /\ LineTypes'
  BY StateTypesNext, LineTypesNext
<1> QED
  BY <1>1 DEF TypeOK, StateTypes, LineTypes, Lives, Timing

\* The parser's state is well typed, and no pending line holds a newline, however the
\* server orders its messages.
THEOREM TypeCorrect == Spec => []TypeOK
BY TypeInit, TypeNext, PTL DEF Spec

-----------------------------------------------------------------------------
(* The match start *)

LEMMA GateNext == TypeOK /\ GateAgrees /\ [Next]_vars => GateAgrees'
<1> SUFFICES ASSUME TypeOK, GateAgrees, [Next]_vars PROVE GateAgrees'
  OBVIOUS
<1>0. StateTypes /\ now \in 0..MaxTime /\ timing \in Timing /\ matchStarted \in BOOLEAN
  BY TypeParts DEF StateTypes
<1>1. ASSUME NoteMatchStart(now) PROVE GateAgrees'
  BY <1>0, <1>1, TimingOps DEF NoteMatchStart, GateAgrees
<1>2. CASE UNCHANGED startVars
  BY <1>2 DEF startVars, GateAgrees
<1>3. CASE StuffMatchStart \/ ServerInfoStatus
  BY <1>1, <1>2, <1>3 DEF StuffMatchStart, ServerInfoStatus
<1>4. CASE Intermission
  BY <1>0, <1>4, TimingOps DEF Intermission, GateAgrees
<1>5. ASSUME NEW s \in Slots, NEW dead \in BOOLEAN, PlayerInfo(s, dead) PROVE GateAgrees'
  <2>1. matchStarted' = matchStarted /\ timing' \in {timing, OnPosition(timing, now)}
    BY <1>5 DEF PlayerInfo
  <2>2. timing'.started = timing.started
    BY <1>0, <2>1, TimingOps
  <2> QED
    BY <2>1, <2>2 DEF GateAgrees
<1>6. CASE Release \/ Assemble
  <2>1. CASE UNCHANGED <<startVars, lifeVars, lastPrint>>
    BY <1>2, <2>1
  <2>2. ASSUME NEW k, NEW line, line.time \in 0..MaxTime, Deliver(k, line) PROVE GateAgrees'
    BY <1>0, <2>2, Delivery
  <2> QED
    BY <1>6, <2>1, <2>2, Delivered
<1>7. CASE \/ FullServerInfo \/ ReadPrint \/ UserInfo \/ StatHealth \/ NextFrame
           \/ EndOfStream \/ Disconnect \/ Return \/ Returned \/ UNCHANGED vars
  BY <1>2, <1>7 DEF FullServerInfo, ReadPrint, UserInfo, StatHealth, NextFrame, EndOfStream,
     Disconnect, FlushPending, Return, Returned, vars
<1> QED
  BY <1>3, <1>4, <1>5, <1>6, <1>7 DEF Next

\* Whichever of the four kinds of message starts the match, at whatever time and in
\* whatever order they come, the parser's gate and the analyzers' clock agree.
THEOREM OneStart == Spec => []GateAgrees
<1>1. Init => GateAgrees
  <2>1. ASSUME Init PROVE matchStarted = FALSE /\ timing.started = FALSE
    BY <2>1 DEF Init
  <2> QED
    BY <2>1 DEF GateAgrees
<1> QED
  BY <1>1, TypeCorrect, GateNext, PTL DEF Spec

-----------------------------------------------------------------------------
(* Players' lives *)

LEMMA LivesNext == TypeOK /\ LivesTold /\ [Next]_vars => LivesTold'
<1> SUFFICES ASSUME TypeOK, LivesTold, [Next]_vars PROVE LivesTold'
  OBVIOUS
<1>0. StateTypes
  BY TypeParts
<1>1. CASE UNCHANGED lifeVars
  BY <1>1 DEF lifeVars, LivesTold
<1>2. ASSUME NEW s \in Slots, NEW life \in {"alive", "dead"}, Emit(s, life) PROVE LivesTold'
  BY <1>0, <1>2 DEF Emit, LivesTold, StateTypes
<1>3. ASSUME NEW s \in Slots, FirstSightDead(s) PROVE LivesTold'
  BY <1>0, <1>3 DEF FirstSightDead, LivesTold, StateTypes
<1>4. CASE StatHealth
  BY <1>1, <1>2, <1>4 DEF StatHealth
<1>5. ASSUME NEW s \in Slots, NEW dead \in BOOLEAN, PlayerInfo(s, dead) PROVE LivesTold'
  BY <1>1, <1>2, <1>3, <1>5 DEF PlayerInfo
<1>6. CASE Release \/ Assemble
  <2>1. CASE UNCHANGED <<startVars, lifeVars, lastPrint>>
    BY <1>1, <2>1
  <2>2. ASSUME NEW k, NEW line, line.time \in 0..MaxTime, Deliver(k, line) PROVE LivesTold'
    <3>1. PICK fallen \in SUBSET Slots :
                /\ cursor' = Told(cursor, fallen, "dead") /\ view' = Told(view, fallen, "dead")
                /\ missed' = missed \ fallen
      BY <1>0, <2>2, Delivery
    <3> QED
      BY <3>1 DEF Told, LivesTold
  <2> QED
    BY <1>6, <2>1, <2>2, Delivered
<1>7. CASE \/ StuffMatchStart \/ FullServerInfo \/ ServerInfoStatus \/ Intermission \/ ReadPrint \/ UserInfo
           \/ NextFrame \/ EndOfStream \/ Disconnect \/ Return \/ Returned \/ UNCHANGED vars
  BY <1>1, <1>7 DEF StuffMatchStart, FullServerInfo, ServerInfoStatus, Intermission, ReadPrint,
     UserInfo, NextFrame, EndOfStream, Disconnect, FlushPending, Return, Returned, vars
<1> QED
  BY <1>4, <1>5, <1>6, <1>7 DEF Next

\* Health updates, playerinfo and obituaries, in any order, tell every consumer what
\* the parser last saw of a player, but for a first sight of a dead player.
THEOREM LivesAgree == Spec => []LivesTold
<1>1. Init => LivesTold
  BY DEF Init, LivesTold
<1> QED
  BY <1>1, TypeCorrect, LivesNext, PTL DEF Spec

-----------------------------------------------------------------------------
(* Console lines *)

\* No line is begun before the last one handed on, nor in the future.
OrderInv == lastPrint <= now /\ \A k \in Unfinished : lastPrint <= pending[k].time /\ pending[k].time <= now

\* What is chosen and not yet delivered: before a fragment every stale line, after the
\* end every line; and no line is left once the end is returned.
KeysInv ==
    /\ fragment # None => stream = "open" /\ keys = Stale
    /\ fragment = None /\ stream = "open" => keys = {}
    /\ stream = "over" => keys = Unfinished
    /\ stream = "returned" => keys = {} /\ Unfinished = {}

\* The steps that leave the lines alone.
LEMMA LinesStay ==
    ASSUME [Next]_vars, ~ReadPrint, ~Release, ~Assemble, ~EndOfStream, ~Disconnect, ~Return
    PROVE  /\ UNCHANGED lineVars /\ stream' = stream
           /\ now' = now \/ (fragment = None /\ stream = "open")
<1>1. ASSUME NEW s \in Slots, NEW dead \in BOOLEAN, PlayerInfo(s, dead)
      PROVE  UNCHANGED lineVars /\ stream' = stream /\ now' = now
  BY <1>1 DEF PlayerInfo
<1>2. CASE \/ StuffMatchStart \/ FullServerInfo \/ ServerInfoStatus \/ Intermission \/ UserInfo
           \/ StatHealth \/ Returned \/ UNCHANGED vars
  BY <1>2 DEF StuffMatchStart, FullServerInfo, ServerInfoStatus, Intermission,
     UserInfo, StatHealth, Returned, vars
<1>3. CASE NextFrame
  BY <1>3 DEF NextFrame, Ready
<1> QED
  BY <1>1, <1>2, <1>3 DEF Next

\* The steps that hand on no line and assemble none.
LEMMA PendingStays ==
    ASSUME [Next]_vars, ~Release, ~Assemble
    PROVE  UNCHANGED <<pending, lastPrint>>
<1>1. CASE ReadPrint \/ EndOfStream \/ Disconnect \/ Return
  BY <1>1 DEF ReadPrint, EndOfStream, Disconnect, FlushPending, Return, lineVars
<1> QED
  BY <1>1, LinesStay DEF lineVars

LEMMA KeysNext == TypeOK /\ KeysInv /\ [Next]_vars => KeysInv'
<1> SUFFICES ASSUME TypeOK, KeysInv, [Next]_vars PROVE KeysInv'
  OBVIOUS
<1>1. CASE ReadPrint
  <2>1. Stale' = Stale /\ fragment' # None /\ stream' = stream /\ stream = "open" /\ keys' = Stale
    BY <1>1, NoneAssumption DEF ReadPrint, Ready, Stale, Unfinished
  <2> QED
    BY <2>1 DEF KeysInv
<1>2. CASE Release
  <2>1. PICK k \in keys : pending' = [pending EXCEPT ![k] = NoText] /\ keys' = keys \ {k}
    BY <1>2 DEF Release
  <2>2. UNCHANGED <<now, stream, fragment>>
    BY <1>2 DEF Release
  <2>3. Unfinished' = Unfinished \ {k} /\ Stale' = Stale \ {k}
    BY <2>1, <2>2 DEF Unfinished, Stale, NoText, TypeOK
  <2> QED
    BY <2>1, <2>2, <2>3 DEF KeysInv
<1>3. CASE Assemble
  BY <1>3 DEF Assemble, KeysInv
<1>4. CASE EndOfStream \/ Disconnect
  <2>1. Unfinished' = Unfinished /\ fragment' = None /\ stream' = "over" /\ keys' = Unfinished
    BY <1>4 DEF EndOfStream, Disconnect, FlushPending, Ready, Unfinished
  <2> QED
    BY <2>1 DEF KeysInv
<1>5. CASE Return
  <2>1. Unfinished' = Unfinished /\ fragment' = fragment /\ stream' = "returned" /\ keys' = {} /\ keys = {}
        /\ stream = "over"
    BY <1>5 DEF Return, Unfinished, lineVars
  <2> QED
    BY <2>1 DEF KeysInv
<1>6. CASE UNCHANGED lineVars /\ stream' = stream /\ (now' = now \/ (fragment = None /\ stream = "open"))
  <2>1. Unfinished' = Unfinished
    BY <1>6 DEF Unfinished, lineVars
  <2>2. now' = now => Stale' = Stale
    BY <1>6, <2>1 DEF Stale, lineVars
  <2> QED
    BY <1>6, <2>1, <2>2 DEF KeysInv, lineVars
<1> QED
  BY <1>1, <1>2, <1>3, <1>4, <1>5, <1>6, LinesStay

LEMMA KeysKept == Spec => []KeysInv
<1>1. Init => KeysInv
  BY DEF Init, KeysInv, Unfinished, NoText
<1> QED
  BY <1>1, TypeCorrect, KeysNext, PTL DEF Spec

LEMMA TimeSteps == TypeOK /\ [Next]_vars => now <= now' /\ now \in Int /\ now' \in Int
<1> SUFFICES ASSUME TypeOK, [Next]_vars PROVE now' \in {now, now + 1}
  BY DEF TypeOK
<1>1. ASSUME NEW s \in Slots, NEW dead \in BOOLEAN, PlayerInfo(s, dead) PROVE now' = now
  BY <1>1 DEF PlayerInfo
<1> QED
  BY <1>1 DEF Next, StuffMatchStart, FullServerInfo, ServerInfoStatus, Intermission, ReadPrint,
     UserInfo, StatHealth, NextFrame, EndOfStream, Disconnect, FlushPending, Return, Returned, vars,
     Release, Assemble

\* A release hands on one line, the earliest of those chosen.
LEMMA Released ==
    ASSUME TypeOK, keys \subseteq Unfinished, Release
    PROVE  \E k \in keys : /\ lastPrint' = pending[k].time
                           /\ \A j \in keys : pending[k].time <= pending[j].time
                           /\ Unfinished' = Unfinished \ {k}
                           /\ \A j \in Unfinished' : pending'[j] = pending[j]
<1>1. PICK k \in keys : /\ \A j \in keys : ~Before(j, k)
                        /\ Deliver(k, pending[k])
                        /\ pending' = [pending EXCEPT ![k] = NoText]
  BY DEF Release
<1>2. lastPrint' = pending[k].time
  BY <1>1 DEF Deliver
<1>3. ASSUME NEW j \in keys PROVE pending[k].time <= pending[j].time
  <2>1. pending[k].time \in Int /\ pending[j].time \in Int
    BY DEF TypeOK, Lines
  <2>2. ~Before(j, k)
    BY <1>1
  <2> QED
    BY <2>1, <2>2 DEF Before
<1>4. Unfinished' = Unfinished \ {k} /\ \A j \in Unfinished' : pending'[j] = pending[j]
  BY <1>1 DEF Unfinished, NoText, TypeOK
<1> QED
  BY <1>1, <1>2, <1>3, <1>4

LEMMA ChosenWait == TypeOK /\ KeysInv => keys \subseteq Unfinished
BY DEF KeysInv, Stale, TypeOK

\* Once nothing is stale, a fragment's line is of this frame, and so is what waits.
LEMMA Assembled ==
    ASSUME TypeOK, KeysInv, Assemble
    PROVE  /\ \A j \in Unfinished : pending[j].time = now
           /\ lastPrint' \in {lastPrint, now}
           /\ \A j \in Unfinished' : pending'[j].time = now
<1> DEFINE k == fragment.key
           text == pending[k].text \o fragment.text
           start == IF k \in Unfinished THEN pending[k].time ELSE now
<1>1. \A j \in Unfinished : pending[j].time = now
  BY DEF Assemble, Stale, KeysInv
<1>2. start = now
  BY <1>1
<1>3. PICK line \in {pending'[k]} : \A j \in PrintKeys : j # k => pending'[j] = pending[j]
  BY DEF Assemble, TypeOK
<1>4. k \in PrintKeys
  BY DEF Assemble, TypeOK
<1>5. CASE pending' = [pending EXCEPT ![k] = [text |-> text, time |-> start]] /\ UNCHANGED lastPrint
  <2>1. pending'[k].time = now
    BY <1>2, <1>4, <1>5 DEF TypeOK
  <2> QED
    BY <1>1, <1>3, <1>5, <2>1 DEF Unfinished
<1>6. ASSUME NEW n \in 1..Len(text), Deliver(k, [text |-> SubSeq(text, 1, n), time |-> start]),
             pending' = [pending EXCEPT ![k] =
                    IF n = Len(text) THEN NoText
                    ELSE [text |-> SubSeq(text, n + 1, Len(text)), time |-> now]]
      PROVE  lastPrint' = now /\ \A j \in Unfinished' : pending'[j].time = now
  <2>1. lastPrint' = now
    BY <1>2, <1>6 DEF Deliver
  <2>2. pending'[k].text = <<>> \/ pending'[k].time = now
    BY <1>4, <1>6 DEF TypeOK, NoText
  <2> QED
    BY <1>1, <1>3, <2>1, <2>2 DEF Unfinished
<1> QED
  BY <1>1, <1>5, <1>6 DEF Assemble

LEMMA FrameNext == TypeOK /\ KeysInv /\ PendingOneFrame /\ [Next]_vars => PendingOneFrame'
<1> SUFFICES ASSUME TypeOK, KeysInv, PendingOneFrame, [Next]_vars PROVE PendingOneFrame'
  OBVIOUS
<1>1. CASE Release
  <2>1. Unfinished' \subseteq Unfinished /\ \A j \in Unfinished' : pending'[j] = pending[j]
    BY <1>1, Released, ChosenWait
  <2> QED
    BY <2>1 DEF PendingOneFrame
<1>2. CASE Assemble
  BY <1>2, Assembled DEF PendingOneFrame
<1>3. CASE UNCHANGED pending
  BY <1>3 DEF PendingOneFrame, Unfinished
<1> QED
  BY <1>1, <1>2, <1>3, PendingStays

\* No unfinished line ever waits together with one of another frame, whatever keys
\* their pieces are of.
THEOREM OneFrame == Spec => []PendingOneFrame
<1>1. Init => PendingOneFrame
  BY DEF Init, PendingOneFrame, Unfinished, NoText
<1> QED
  BY <1>1, TypeCorrect, KeysKept, FrameNext, PTL DEF Spec

LEMMA OrderNext == TypeOK /\ KeysInv /\ OrderInv /\ [Next]_vars => OrderInv' /\ lastPrint' >= lastPrint
<1> SUFFICES ASSUME TypeOK, KeysInv, OrderInv, [Next]_vars PROVE OrderInv' /\ lastPrint' >= lastPrint
  OBVIOUS
<1>0. now <= now' /\ now \in Int /\ now' \in Int /\ lastPrint \in Int /\ \A k \in PrintKeys : pending[k].time \in Int
  BY TimeSteps DEF TypeOK, Lines
<1>1. CASE Release
  <2>1. PICK k \in keys : /\ lastPrint' = pending[k].time
                          /\ \A j \in keys : pending[k].time <= pending[j].time
                          /\ Unfinished' = Unfinished \ {k}
                          /\ \A j \in Unfinished' : pending'[j] = pending[j]
    BY <1>1, Released, ChosenWait
  <2>2. lastPrint <= pending[k].time /\ pending[k].time <= now
    BY <2>1, ChosenWait DEF OrderInv
  \* What is not chosen is of this frame.
  <2>3. \A j \in Unfinished : j \in keys \/ pending[j].time = now
    BY <2>1 DEF KeysInv, Stale, TypeOK
  <2>4. \A j \in Unfinished : pending[k].time <= pending[j].time
    <3>1. ASSUME NEW j \in Unfinished PROVE pending[k].time <= pending[j].time
      BY <2>1, <2>2, <2>3
    <3> QED
      BY <3>1
  <2>5. now' = now
    BY <1>1 DEF Release
  <2> QED
    BY <1>0, <2>1, <2>2, <2>4, <2>5 DEF OrderInv
<1>2. CASE Assemble
  <2>1. now' = now
    BY <1>2 DEF Assemble
  <2> QED
    BY <1>0, <1>2, <2>1, Assembled DEF OrderInv
<1>3. CASE UNCHANGED <<pending, lastPrint>>
  <2>1. Unfinished' = Unfinished /\ Unfinished \subseteq PrintKeys
    BY <1>3 DEF Unfinished
  <2> QED
    BY <1>0, <1>3, <2>1 DEF OrderInv
<1> QED
  BY <1>1, <1>2, <1>3, PendingStays

\* No line of an earlier frame is handed on after one of a later frame, nor still waits
\* when one is, whatever keys they are of and however they were cut to pieces.
THEOREM InOrder == Spec => PrintsInOrder
<1>1. Init => OrderInv
  BY BoundAssumption DEF Init, OrderInv, Unfinished, NoText
<1>2. TypeOK /\ TypeOK' /\ KeysInv /\ OrderInv /\ [Next]_vars =>
        OrderInv' /\ lastPrint' >= lastPrint /\ \A k \in Unfinished' : pending'[k].time >= lastPrint'
  <2> SUFFICES ASSUME TypeOK, TypeOK', KeysInv, OrderInv, [Next]_vars
               PROVE  /\ OrderInv' /\ lastPrint' >= lastPrint
                      /\ \A k \in Unfinished' : pending'[k].time >= lastPrint'
    OBVIOUS
  <2>1. OrderInv' /\ lastPrint' >= lastPrint
    BY OrderNext
  <2>2. ASSUME NEW k \in Unfinished' PROVE pending'[k].time >= lastPrint'
    <3>1. lastPrint' <= pending'[k].time
      BY <2>1 DEF OrderInv
    <3>2. lastPrint' \in Int /\ pending'[k].time \in Int
      BY DEF TypeOK, Lines, Unfinished
    <3> QED
      BY <3>1, <3>2
  <2> QED
    BY <2>1, <2>2
<1> QED
  BY <1>1, <1>2, TypeCorrect, KeysKept, PTL DEF Spec, PrintsInOrder

-----------------------------------------------------------------------------
(* No text is lost *)

\* What is left of s \o t when s is taken from its front.
LEMMA FrontTaken ==
    ASSUME NEW s \in Seq(Words), NEW t \in Seq(Words)
    PROVE  SubSeq(s \o t, Len(s) + 1, Len(s \o t)) = t
<1>1. Len(s) \in Nat /\ Len(t) \in Nat /\ Len(s \o t) = Len(s) + Len(t)
  BY ConcatProperties, LenProperties
<1>2. CASE t = <<>>
  BY <1>1, <1>2, SubSeqEmpty
<1>3. CASE t # <<>>
  <2>1. Len(t) \in Nat \ {0}
    BY <1>3, EmptySeq
  <2>2. SubSeq(s \o t, Len(s) + 1, Len(s) + Len(t)) = SubSeq(t, 1, Len(t))
    <3>1. Len(s) + 1 \in Len(s) + 1..Len(s) + Len(t) /\ Len(s) + Len(t) \in Len(s) + 1..Len(s) + Len(t)
      BY <1>1, <2>1
    <3>2. (Len(s) + 1) - Len(s) = 1 /\ (Len(s) + Len(t)) - Len(s) = Len(t)
      BY <1>1
    <3> QED
      BY <3>1, <3>2, SubSeqOfConcat2
  <2> QED
    BY <1>1, <2>2, SubSeqFull
<1> QED
  BY <1>2, <1>3

\* What the key of a fragment, and any other, holds.
LEMMA HeldParts ==
    ASSUME TypeOK, NEW k \in PrintKeys
    PROVE  /\ pending[k].text \in Seq(Words)
           /\ ~(fragment # None /\ fragment.key = k) => Held(k) = pending[k].text
           /\ fragment # None /\ fragment.key = k =>
                /\ fragment.text \in Seq(Words)
                /\ Held(k) = pending[k].text \o fragment.text
<1>1. pending[k].text \in Seq(Words)
  <2>1. pending[k].text \in Seq(Words \ {"nl"})
    BY DEF TypeOK, Lines
  <2> QED
    BY <2>1, SeqMonotonic
<1>2. ASSUME ~(fragment # None /\ fragment.key = k) PROVE Held(k) = pending[k].text
  BY <1>1, <1>2, ConcatEmptySeq DEF Held
<1>3. ASSUME fragment # None, fragment.key = k
      PROVE  fragment.text \in Seq(Words) /\ Held(k) = pending[k].text \o fragment.text
  BY <1>3, FragmentAssumption DEF Held, TypeOK, Texts
<1> QED
  BY <1>1, <1>2, <1>3

\* The clauses of TextKept for one key.
Kept(k) == Held(k)' = Held(k)
TakenIn(k) == ReadPrint /\ Held(k)' = Held(k) \o fragment'.text
HandedOn(k) ==
    \E n \in 1..Len(Held(k)) : /\ Held(k)' = SubSeq(Held(k), n + 1, Len(Held(k)))
                               /\ Held(k)[n] = "nl" \/ pending[k].time # now \/ stream # "open"

LEMMA ReadKeeps == ASSUME TypeOK, TypeOK', ReadPrint, NEW k \in PrintKeys PROVE Kept(k) \/ TakenIn(k)
<1>1. pending' = pending /\ fragment = None
  BY DEF ReadPrint, Ready
<1>2. Held(k) = pending[k].text
  BY <1>1, HeldParts
<1>3. CASE fragment' # None /\ fragment'.key = k
  <2>1. Held(k)' = pending[k].text \o fragment'.text
    BY <1>1, <1>3 DEF Held
  <2> QED
    BY <1>2, <2>1 DEF TakenIn
<1>4. CASE ~(fragment' # None /\ fragment'.key = k)
  <2>1. Held(k)' = pending[k].text
    <3>1. Held(k)' = pending[k].text \o <<>>
      BY <1>1, <1>4 DEF Held
    <3> QED
      BY <3>1, HeldParts, ConcatEmptySeq
  <2> QED
    BY <1>2, <2>1 DEF Kept
<1> QED
  BY <1>3, <1>4

LEMMA ReleaseKeeps ==
    ASSUME TypeOK, KeysInv, Release, NEW k \in PrintKeys
    PROVE  Kept(k) \/ HandedOn(k)
<1>0. /\ fragment' = fragment /\ keys \subseteq Unfinished
      /\ \A j \in keys : pending[j].time # now \/ stream # "open"
  BY ChosenWait DEF Release, KeysInv, Stale
<1>1. PICK r \in keys : pending' = [pending EXCEPT ![r] = NoText]
  BY DEF Release
<1>2. CASE k # r
  <2>1. pending'[k] = pending[k]
    BY <1>1, <1>2 DEF TypeOK
  <2> QED
    BY <1>0, <2>1 DEF Held, Kept
<1>3. CASE k = r
  <2> DEFINE s == pending[k].text
             t == IF fragment # None /\ fragment.key = k THEN fragment.text ELSE <<>>
  <2>1. s \in Seq(Words) /\ t \in Seq(Words)
    BY HeldParts, EmptySeq
  <2>2. s # <<>>
    BY <1>0, <1>3 DEF Unfinished
  <2>3. Held(k) = s \o t
    BY DEF Held
  <2>4. Held(k)' = <<>> \o t
    <3>1. pending'[k] = NoText
      BY <1>1, <1>3 DEF TypeOK
    <3> QED
      BY <1>0, <3>1 DEF Held, NoText
  <2>5. Held(k)' = t
    BY <2>1, <2>4, ConcatEmptySeq
  <2>6. Len(s) \in 1..Len(Held(k))
    <3>1. Len(s) \in Nat \ {0} /\ Len(t) \in Nat
      BY <2>1, <2>2, EmptySeq, LenProperties
    <3>2. Len(Held(k)) = Len(s) + Len(t)
      BY <2>1, <2>3, ConcatProperties
    <3> HIDE DEF s, t
    <3> QED
      BY <3>1, <3>2
  <2>7. Held(k)' = SubSeq(Held(k), Len(s) + 1, Len(Held(k)))
    BY <2>1, <2>3, <2>5, FrontTaken
  <2>8. pending[k].time # now \/ stream # "open"
    BY <1>0, <1>3
  <2> QED
    BY <2>6, <2>7, <2>8 DEF HandedOn
<1> QED
  BY <1>2, <1>3

LEMMA AssembleKeeps == ASSUME TypeOK, Assemble, NEW k \in PrintKeys PROVE Kept(k) \/ HandedOn(k)
<1> DEFINE f == fragment.key
           text == pending[f].text \o fragment.text
           start == IF f \in Unfinished THEN pending[f].time ELSE now
<1>1. fragment # None /\ fragment' = None /\ f \in PrintKeys
  BY DEF Assemble, TypeOK
<1>2. PICK left : pending' = [pending EXCEPT ![f] = left]
  BY DEF Assemble
<1>3. CASE k # f
  <2>1. pending'[k] = pending[k]
    BY <1>2, <1>3 DEF TypeOK
  <2>2. Held(k)' = pending[k].text \o <<>>
    BY <1>1, <2>1 DEF Held
  <2>3. Held(k) = pending[k].text \o <<>>
    BY <1>3 DEF Held
  <2> QED
    BY <2>2, <2>3 DEF Kept
<1>4. CASE k = f
  <2>1. text \in Seq(Words) /\ Held(k) = text
    BY <1>1, <1>4, HeldParts, ConcatProperties
  <2>2. Held(k)' = pending'[k].text \o <<>>
    BY <1>1 DEF Held
  <2>3. CASE pending' = [pending EXCEPT ![f] = [text |-> text, time |-> start]]
    <3>1. pending'[k].text = text
      BY <1>1, <1>4, <2>3 DEF TypeOK
    <3> QED
      BY <2>1, <2>2, <3>1, ConcatEmptySeq DEF Kept
  <2>4. ASSUME NEW n \in 1..Len(text), text[n] = "nl",
               pending' = [pending EXCEPT ![f] =
                    IF n = Len(text) THEN NoText
                    ELSE [text |-> SubSeq(text, n + 1, Len(text)), time |-> now]]
        PROVE  HandedOn(k)
    <3>0. Len(text) \in Nat /\ n \in Nat /\ n <= Len(text)
      <4> HIDE DEF text
      <4> QED
        BY <2>1, <2>4, LenProperties
    <3>1. pending'[k].text = SubSeq(text, n + 1, Len(text))
      <4>1. CASE n = Len(text)
        <5>1. SubSeq(text, n + 1, Len(text)) = <<>>
          BY <3>0, <4>1, SubSeqEmpty
        <5>2. pending'[k] = NoText
          BY <1>1, <1>4, <2>4, <4>1 DEF TypeOK
        <5>3. pending'[k].text = <<>>
          BY <5>2 DEF NoText
        <5> HIDE DEF text
        <5> QED
          BY <5>1, <5>3
      <4>2. CASE n # Len(text)
        BY <1>1, <1>4, <2>4, <4>2 DEF TypeOK
      <4> QED
        BY <4>1, <4>2
    <3>2. SubSeq(text, n + 1, Len(text)) \in Seq(Words)
      <4> HIDE DEF text
      <4>1. \A i \in n + 1..Len(text) : text[i] \in Words
        BY <2>1, <3>0, ElementOfSeq
      <4> QED
        BY <3>0, <4>1, SubSeqProperties
    <3>3. Held(k)' = SubSeq(text, n + 1, Len(text))
      BY <2>2, <3>1, <3>2, ConcatEmptySeq
    <3> QED
      BY <2>1, <2>4, <3>3 DEF HandedOn
  <2> QED
    BY <2>3, <2>4 DEF Assemble
<1> QED
  BY <1>3, <1>4

LEMMA TextNext ==
    ASSUME TypeOK, KeysInv, [Next]_vars, NEW k \in PrintKeys
    PROVE  Kept(k) \/ TakenIn(k) \/ HandedOn(k)
<1>1. CASE ReadPrint
  BY <1>1, TypeNext, ReadKeeps
<1>2. CASE Release
  BY <1>2, ReleaseKeeps
<1>3. CASE Assemble
  BY <1>3, AssembleKeeps
<1>4. CASE UNCHANGED <<fragment, pending>>
  BY <1>4 DEF Kept, Held
<1>5. CASE EndOfStream \/ Disconnect \/ Return
  BY <1>4, <1>5 DEF EndOfStream, Disconnect, FlushPending, Return, lineVars
<1> QED
  BY <1>1, <1>2, <1>3, <1>4, <1>5, LinesStay DEF lineVars

\* Once the end is returned no key holds anything.
LEMMA NothingLeft ==
    ASSUME TypeOK', KeysInv', stream' = "returned", NEW k \in PrintKeys
    PROVE  Held(k)' = <<>>
<1>1. fragment' = None /\ k \notin Unfinished'
  BY DEF KeysInv
<1>2. pending'[k].text = <<>>
  BY <1>1 DEF Unfinished
<1>3. Held(k)' = pending'[k].text \o <<>>
  BY <1>1 DEF Held
<1> QED
  BY <1>2, <1>3, EmptySeq, ConcatEmptySeq

\* No text of a svc_print is lost, repeated or moved to another key, a line is handed on
\* only up to a newline or once its frame or the demo is over, and nothing is left when
\* the end of the demo is returned.
THEOREM NoTextLost == Spec => TextKept
<1> DEFINE Step(k) == Kept(k) \/ TakenIn(k) \/ HandedOn(k)
           Clean == stream' = "returned" => \A k \in PrintKeys : Held(k)' = <<>>
<1>1. TypeOK /\ TypeOK' /\ KeysInv /\ KeysInv' /\ [Next]_vars => (\A k \in PrintKeys : Step(k)) /\ Clean
  BY TextNext, NothingLeft
<1>2. (\A k \in PrintKeys : Step(k)) /\ Clean <=>
        /\ \A k \in PrintKeys :
             \/ Held(k)' = Held(k)
             \/ ReadPrint /\ Held(k)' = Held(k) \o fragment'.text
             \/ \E n \in 1..Len(Held(k)) :
                  /\ Held(k)' = SubSeq(Held(k), n + 1, Len(Held(k)))
                  /\ Held(k)[n] = "nl" \/ pending[k].time # now \/ stream # "open"
        /\ stream' = "returned" => \A k \in PrintKeys : Held(k)' = <<>>
  BY DEF Kept, TakenIn, HandedOn
<1> HIDE DEF Step, Clean
<1> QED
  BY <1>1, <1>2, TypeCorrect, KeysKept, PTL DEF Spec, TextKept

=============================================================================
