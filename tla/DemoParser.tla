----------------------------- MODULE DemoParser -----------------------------
(***************************************************************************)
(* The demo parser (mvd-reader/parser) where one message depends on the    *)
(* ones before it: console lines put together from svc_print fragments,    *)
(* the one match start drawn from four kinds of message, and players'      *)
(* deaths and spawns drawn from three; and the analyzers' clock            *)
(* (analyzer/clock.go, matchtiming.go), which the parser's events reach in *)
(* the order they are emitted.                                             *)
(*                                                                         *)
(* The messages come in any order: the server decides.  A frame is the     *)
(* time between two steps of the demo's clock.  A text is a sequence of    *)
(* words, of which the parser knows a few and "nl" ends a line; a          *)
(* player's name as a word stands for an obituary that names a victim.     *)
(***************************************************************************)
EXTENDS Integers, Sequences

CONSTANTS Slots,     \* client slots, numbered as in the code
          Names,     \* players' names
          PrintKeys, \* the (level, target) pairs that occur
          Fragments, \* the texts that occur as one svc_print
          MaxTime,   \* bounds the demo's clock
          MaxLine,   \* bounds the words of a line
          None

Chat == 3
Words == {"has", "begun", "matchdate", "over", "nl", "word"} \cup Names
Texts == Seq(Words)

ASSUME SlotAssumption == Slots \subseteq Nat
ASSUME NoneAssumption == None \notin Names \cup [key : PrintKeys, text : Fragments]
ASSUME KeyAssumption == PrintKeys \subseteq [level : Nat, target : Int]
ASSUME FragmentAssumption == Fragments \subseteq Texts \ {<<>>}
ASSUME BoundAssumption == MaxTime \in Nat /\ MaxLine \in Nat

VARIABLES
    now,          \* the decoder's running time
    stream,       \* "open", "over" once no message is left, "returned" once ParseOne has said so
    fragment,     \* the svc_print being handled, or None
    pending,      \* p.printLines: the unfinished line of a key, empty without one
    keys,         \* the keys flushPrintLinesWhere has chosen and not yet delivered
    matchStarted, statusRunning,
    names,        \* p.players: the last name of a slot
    cursor,       \* p.playerDead of a slot, "unknown" unless p.playerDeadKnown
    seen,         \* p.playerSeenInfo
    healthy,      \* whether the last health of a slot was above 0
    timing,       \* the clock's MatchTimingDetector, and its maxInMatchPosMs
    view,         \* what the death and spawn events have told a consumer of a slot
    lastPrint,    \* history: the time of the last PrintEvent
    missed        \* history: the slots found dead at first sight though reported alive

lineVars == <<fragment, pending, keys, lastPrint>>
startVars == <<matchStarted, timing>>
lifeVars == <<cursor, view, missed>>
vars == <<now, stream, lineVars, startVars, statusRunning, names, lifeVars, seen, healthy>>

NoText == [text |-> <<>>, time |-> 0]
Lines == [text : Seq(Words \ {"nl"}), time : 0..MaxTime]

Init ==
    /\ now = 0 /\ stream = "open" /\ fragment = None /\ keys = {}
    /\ pending = [k \in PrintKeys |-> NoText]
    /\ matchStarted = FALSE /\ statusRunning = FALSE
    /\ names = [s \in Slots |-> None]
    /\ cursor = [s \in Slots |-> "unknown"]
    /\ seen = [s \in Slots |-> FALSE]
    /\ healthy = [s \in Slots |-> FALSE]
    /\ timing = [started |-> FALSE, start |-> 0, ended |-> FALSE, end |-> 0, lastPos |-> 0]
    /\ view = [s \in Slots |-> "unknown"]
    /\ lastPrint = 0 /\ missed = {}

\* The next message may be read.
Ready == fragment = None /\ stream = "open"

-----------------------------------------------------------------------------
(* The clock: what an event does to it. *)

\* Wrong: a start at time 0 is no start.
OnMatchStartNever0(t, time) ==
    IF t.started \/ time = 0 THEN t ELSE [t EXCEPT !.started = TRUE, !.start = time]

OnMatchStart(t, time) == IF t.started THEN t ELSE [t EXCEPT !.started = TRUE, !.start = time]

\* The match can end only once it has started, and ends once.
Ending(t, time) == IF t.started /\ ~t.ended THEN [t EXCEPT !.ended = TRUE, !.end = time] ELSE t

\* No player's chat ends the match.
OnPrint(t, k, line) ==
    IF k.level # Chat /\ \E i \in 1..Len(line.text) : line.text[i] = "over"
    THEN Ending(t, line.time) ELSE t

OnPosition(t, time) ==
    IF t.started /\ ~t.ended /\ time > t.lastPos THEN [t EXCEPT !.lastPos = time] ELSE t

-----------------------------------------------------------------------------
(* The match start: the flag and the event, in one step, once. *)

NoteMatchStart(time) ==
    /\ matchStarted' = TRUE
    /\ timing' = IF matchStarted THEN timing ELSE OnMatchStart(timing, time)

\* //ktx matchstart.
StuffMatchStart ==
    /\ Ready
    /\ NoteMatchStart(now)
    /\ UNCHANGED <<now, stream, lineVars, statusRunning, names, lifeVars, seen, healthy>>

\* The status in the opening dump is no transition.
FullServerInfo ==
    /\ Ready
    /\ \E running \in BOOLEAN : statusRunning' = running
    /\ UNCHANGED <<now, stream, lineVars, startVars, names, lifeVars, seen, healthy>>

\* A status update; only the change to a running clock starts the match.
ServerInfoStatus ==
    /\ Ready
    /\ \E running \in BOOLEAN :
        /\ statusRunning' = running
        /\ IF running /\ ~statusRunning THEN NoteMatchStart(now) ELSE UNCHANGED startVars
    /\ UNCHANGED <<now, stream, lineVars, names, lifeVars, seen, healthy>>

Intermission ==
    /\ Ready
    /\ timing' = Ending(timing, now)
    /\ UNCHANGED <<now, stream, lineVars, matchStarted, statusRunning, names, lifeVars, seen, healthy>>

-----------------------------------------------------------------------------
(* Console lines. *)

\* The lines that start the match; no player's chat does.
Starts(k, line) ==
    /\ k.level # Chat
    /\ \/ \E i \in 1..Len(line.text) - 1 : line.text[i] = "has" /\ line.text[i + 1] = "begun"
       \/ line.text[1] = "matchdate"

\* The slots whose player an obituary names: the first with that name, if any.
Victims(line) ==
    {s \in Slots : /\ \E i \in 1..Len(line.text) : line.text[i] = names[s]
                   /\ \A r \in Slots : r < s => names[r] # names[s]}

Told(f, S, life) == [s \in Slots |-> IF s \in S THEN life ELSE f[s]]

\* A finished line is handed on: the PrintEvent, then what is read out of it.  An
\* obituary counts once the match has started, and always as a death.
Deliver(k, line) ==
    LET started == matchStarted \/ Starts(k, line)
        fallen == IF started THEN Victims(line) ELSE {}
        printed == OnPrint(timing, k, line)
    IN  /\ matchStarted' = started
        /\ timing' = IF ~matchStarted /\ started THEN OnMatchStart(printed, line.time) ELSE printed
        /\ cursor' = Told(cursor, fallen, "dead")
        /\ view' = Told(view, fallen, "dead")
        /\ missed' = missed \ fallen
        /\ lastPrint' = line.time

Unfinished == {k \in PrintKeys : pending[k].text # <<>>}

\* Wrong: a line waits for its newline however long it takes.
StaleNone == {}

Stale == {k \in Unfinished : pending[k].time # now}

\* Wrong: a fragment releases the line of its own key only.
ReadPrintOwnKey ==
    /\ Ready
    /\ \E k \in PrintKeys, f \in Fragments :
        /\ Len(pending[k].text) + Len(f) <= MaxLine
        /\ fragment' = [key |-> k, text |-> f]
        /\ keys' = Stale \cap {k}
    /\ UNCHANGED <<now, stream, pending, lastPrint, startVars, statusRunning, names, lifeVars, seen, healthy>>

\* svc_print: before the fragment is appended to what its key holds, every line another
\* frame left unfinished goes out.
ReadPrint ==
    /\ Ready
    /\ \E k \in PrintKeys, f \in Fragments :
        /\ Len(pending[k].text) + Len(f) <= MaxLine
        /\ fragment' = [key |-> k, text |-> f]
    /\ keys' = Stale
    /\ UNCHANGED <<now, stream, pending, lastPrint, startVars, statusRunning, names, lifeVars, seen, healthy>>

\* The order in which pending lines are released.
Before(j, k) ==
    \/ pending[j].time < pending[k].time
    \/ pending[j].time = pending[k].time /\ j.level < k.level
    \/ pending[j].time = pending[k].time /\ j.level = k.level /\ j.target < k.target

\* The next of the chosen lines goes out.
Release ==
    /\ \E k \in keys :
        /\ \A j \in keys : ~Before(j, k)
        /\ Deliver(k, pending[k])
        /\ pending' = [pending EXCEPT ![k] = NoText]
        /\ keys' = keys \ {k}
    /\ UNCHANGED <<now, stream, fragment, statusRunning, names, seen, healthy>>

\* Wrong: everything up to the first newline is a line.
AssembleFirst ==
    /\ fragment # None /\ keys = {}
    /\ LET k == fragment.key
           text == pending[k].text \o fragment.text
           start == IF k \in Unfinished THEN pending[k].time ELSE now
           NoNewline(from) == \A i \in from..Len(text) : text[i] # "nl"
       IN  \/ /\ NoNewline(1)
              /\ pending' = [pending EXCEPT ![k] = [text |-> text, time |-> start]]
              /\ UNCHANGED <<startVars, lifeVars, lastPrint>>
           \/ \E n \in 1..Len(text) :
              /\ text[n] = "nl" /\ \A i \in 1..n - 1 : text[i] # "nl"
              /\ Deliver(k, [text |-> SubSeq(text, 1, n), time |-> start])
              /\ pending' = [pending EXCEPT ![k] =
                    IF n = Len(text) THEN NoText
                    ELSE [text |-> SubSeq(text, n + 1, Len(text)), time |-> now]]
    /\ fragment' = None
    /\ UNCHANGED <<now, stream, keys, statusRunning, names, seen, healthy>>

\* Everything up to the last newline is a line, of the time its first piece came; the
\* rest waits.
Assemble ==
    /\ fragment # None /\ keys = {}
    /\ LET k == fragment.key
           text == pending[k].text \o fragment.text
           start == IF k \in Unfinished THEN pending[k].time ELSE now
           NoNewline(from) == \A i \in from..Len(text) : text[i] # "nl"
       IN  \/ /\ NoNewline(1)
              /\ pending' = [pending EXCEPT ![k] = [text |-> text, time |-> start]]
              /\ UNCHANGED <<startVars, lifeVars, lastPrint>>
           \/ \E n \in 1..Len(text) :
              /\ text[n] = "nl" /\ NoNewline(n + 1)
              /\ Deliver(k, [text |-> SubSeq(text, 1, n), time |-> start])
              /\ pending' = [pending EXCEPT ![k] =
                    IF n = Len(text) THEN NoText
                    ELSE [text |-> SubSeq(text, n + 1, Len(text)), time |-> now]]
    /\ fragment' = None
    /\ UNCHANGED <<now, stream, keys, statusRunning, names, seen, healthy>>

-----------------------------------------------------------------------------
(* Names, and players' lives. *)

\* svc_updateuserinfo or svc_setinfo; a drop leaves the name.
UserInfo ==
    /\ Ready
    /\ \E s \in Slots, n \in Names : names' = [names EXCEPT ![s] = n]
    /\ UNCHANGED <<now, stream, lineVars, startVars, statusRunning, lifeVars, seen, healthy>>

\* Wrong: what is told of a player follows the first source only.
EmitOnce(s, life) ==
    /\ cursor' = [cursor EXCEPT ![s] = life]
    /\ view' = [view EXCEPT ![s] = IF cursor[s] = "unknown" THEN life ELSE @]
    /\ missed' = IF cursor[s] = life THEN missed ELSE missed \ {s}

\* maybeEmitDeath and maybeEmitSpawn: an event only if it is news.
Emit(s, life) ==
    /\ cursor' = [cursor EXCEPT ![s] = life]
    /\ view' = [view EXCEPT ![s] = IF cursor[s] = life THEN @ ELSE life]
    /\ missed' = IF cursor[s] = life THEN missed ELSE missed \ {s}

\* A health update: an event on an edge.
StatHealth ==
    /\ Ready
    /\ \E s \in Slots, h \in BOOLEAN :
        /\ healthy' = [healthy EXCEPT ![s] = h]
        /\ IF h # healthy[s] THEN Emit(s, IF h THEN "alive" ELSE "dead") ELSE UNCHANGED lifeVars
    /\ UNCHANGED <<now, stream, lineVars, startVars, statusRunning, names, seen>>

\* The first sight of a slot tells no death.
FirstSightDead(s) ==
    /\ cursor' = [cursor EXCEPT ![s] = "dead"]
    /\ missed' = IF view[s] = "alive" THEN missed \cup {s} ELSE missed
    /\ UNCHANGED view

\* svc_playerinfo, with a position unless the slot has none yet.
PlayerInfo(s, dead) ==
    /\ Ready
    /\ \E placed \in BOOLEAN : timing' = IF placed THEN OnPosition(timing, now) ELSE timing
    /\ seen' = [seen EXCEPT ![s] = TRUE]
    /\ IF ~seen[s] /\ dead THEN FirstSightDead(s)
       ELSE IF ~seen[s] \/ dead # (cursor[s] = "dead") THEN Emit(s, IF dead THEN "dead" ELSE "alive")
       ELSE UNCHANGED lifeVars
    /\ UNCHANGED <<now, stream, lineVars, matchStarted, statusRunning, names, healthy>>

-----------------------------------------------------------------------------

\* A message with a later time: a new frame.
NextFrame ==
    /\ Ready /\ now < MaxTime
    /\ now' = now + 1
    /\ UNCHANGED <<stream, lineVars, startVars, statusRunning, names, lifeVars, seen, healthy>>

\* Once the stream is over, every unfinished line goes out.
FlushPending ==
    /\ stream' = "over" /\ keys' = Unfinished
    /\ UNCHANGED <<now, fragment, pending, lastPrint, startVars, statusRunning, names, lifeVars, seen, healthy>>

\* The decoder has no further message: a clean end, or a truncated or broken demo.
EndOfStream == Ready /\ FlushPending

\* Wrong: this end gives up what is unfinished.
DisconnectUnflushed ==
    /\ Ready
    /\ stream' = "over"
    /\ UNCHANGED <<now, lineVars, startVars, statusRunning, names, lifeVars, seen, healthy>>

\* svc_disconnect "EndOfDemo", inside a message.
Disconnect == Ready /\ FlushPending

\* ParseOne returns the end of the stream.
Return ==
    /\ stream = "over" /\ keys = {}
    /\ stream' = "returned"
    /\ UNCHANGED <<now, lineVars, startVars, statusRunning, names, lifeVars, seen, healthy>>

\* Nothing more comes, and only then may the parser stop.
Returned == stream = "returned" /\ UNCHANGED vars

Next ==
    \/ StuffMatchStart \/ FullServerInfo \/ ServerInfoStatus \/ Intermission
    \/ ReadPrint \/ Release \/ Assemble
    \/ UserInfo \/ StatHealth
    \/ \E s \in Slots, dead \in BOOLEAN : PlayerInfo(s, dead)
    \/ NextFrame \/ EndOfStream \/ Disconnect \/ Return \/ Returned

Spec == Init /\ [][Next]_vars

-----------------------------------------------------------------------------

TypeOK ==
    /\ now \in 0..MaxTime /\ stream \in {"open", "over", "returned"}
    /\ fragment \in [key : PrintKeys, text : Fragments] \cup {None}
    /\ pending \in [PrintKeys -> Lines] /\ keys \subseteq PrintKeys
    /\ matchStarted \in BOOLEAN /\ statusRunning \in BOOLEAN
    /\ names \in [Slots -> Names \cup {None}]
    /\ cursor \in [Slots -> {"unknown", "alive", "dead"}]
    /\ seen \in [Slots -> BOOLEAN] /\ healthy \in [Slots -> BOOLEAN]
    /\ timing \in [started : BOOLEAN, start : 0..MaxTime, ended : BOOLEAN, end : 0..MaxTime,
                   lastPos : 0..MaxTime]
    /\ view \in [Slots -> {"unknown", "alive", "dead"}]
    /\ lastPrint \in 0..MaxTime /\ missed \subseteq Slots

\* Text waits only for its own frame: what is pending is all of one frame, and no line
\* is put together from two (assemblePrintLine's sweep over every key).
PendingOneFrame == \A j, k \in Unfinished : pending[j].time = pending[k].time

\* What has been printed and not been handed on, by key.
Held(k) == pending[k].text \o (IF fragment # None /\ fragment.key = k THEN fragment.text ELSE <<>>)

\* No text is lost, repeated, or moved to another key: a step either takes in a
\* fragment or hands on the front of what a key holds, and when ParseOne returns the
\* end of the demo nothing is left (assemblePrintLine, flushPendingPrintLines).
TextKept ==
    [][/\ \A k \in PrintKeys :
           \/ Held(k)' = Held(k)
           \/ ReadPrint /\ Held(k)' = Held(k) \o fragment'.text
           \/ \E n \in 1..Len(Held(k)) :
                /\ Held(k)' = SubSeq(Held(k), n + 1, Len(Held(k)))
                /\ Held(k)[n] = "nl" \/ pending[k].time # now \/ stream # "open"
       /\ stream' = "returned" => \A k \in PrintKeys : Held(k)' = <<>>]_vars

\* No line begun in an earlier frame is handed on after one of a later frame, nor
\* still waits when one is, whatever their keys (flushPrintLinesOutsideFrame); within
\* a frame lines may change places.
PrintsInOrder ==
    [][/\ lastPrint' >= lastPrint
       /\ \A k \in Unfinished' : pending'[k].time >= lastPrint']_vars

\* The parser's own gate and every analyzer's clock agree on whether the match has
\* started, whatever the kind and order of the messages that said so (matchStarted).
GateAgrees == matchStarted = timing.started

\* What the events have told of a player is what the parser has seen last, from
\* whichever source (maybeEmitDeath, maybeEmitSpawn, forceEmitDeath); only a slot whose
\* first playerinfo is a dead player reported alive before is misjudged.
LivesTold ==
    \A s \in Slots \ missed :
        /\ cursor[s] = "alive" => view[s] = "alive"
        /\ cursor[s] = "dead" => view[s] # "alive"
=============================================================================
