----------------------------- MODULE HubWarmer -----------------------------
(***************************************************************************)
(* mvd-api's hub warmer (warm.go): the loop that lists the hub's games and  *)
(* has the cache prepare each one, newest first.                            *)
(*                                                                         *)
(* Time is a count of units.  It passes while the warmer sleeps and while   *)
(* it waits for the cache (Cache.Warm, which DemoCache models, is here a    *)
(* call that takes a while and succeeds, fails for good or fails for now).  *)
(* A step in a tick is one turn of the loop over the listing.  All of the   *)
(* warmer's state is in memory, so a restart is an initial state.           *)
(***************************************************************************)
EXTENDS Integers, FiniteSets

CONSTANTS
    Games,
    PlayedAt,      \* when each game was played, and is in the catalog
    Interval,      \* -warm-interval
    Window,        \* -warm-window
    MaxBackoff,    \* warmMaxBackoff
    OutageLimit,   \* warmOutage
    Width,         \* bits of a time.Duration
    Slowest,       \* bound: units one Cache.Warm takes
    Horizon        \* bound: units of time explored

ASSUME GamesAssumption ==
    /\ IsFiniteSet(Games) /\ PlayedAt \in [Games -> Int]
    /\ \A g, h \in Games : PlayedAt[g] = PlayedAt[h] => g = h
ASSUME TimesAssumption ==
    /\ Interval \in Nat \ {0} /\ MaxBackoff \in Nat /\ Interval <= MaxBackoff
    /\ Window \in Nat /\ OutageLimit \in Nat \ {0} /\ Width \in Nat \ {0}
    /\ Slowest \in Nat /\ Horizon \in Nat

Never == -(Window + Horizon)

VARIABLES
    now,
    health,       \* of each game: what preparing it meets
    outage,       \* the hub or its CDN: "none" so far, "down", "over"
    backAt,       \* when the outage ended
    phase,        \* run: "asleep" in the select, or inside a "tick"
    wakeAt,       \* when the select's timer fires
    start,        \* tick's start
    listed,       \* tick's listing
    todo,         \* the part of it the loop has not come to
    inARow,       \* failures in a row
    outOfTime,
    done,         \* warmer.done
    fails,        \* warmer.fails, 0 if absent
    retryAt,      \* warmer.retryAt, Never if absent
    settled,      \* history: games the cache prepared or failed for good
    failures,     \* history: failed attempts at each game
    failedAt      \* history: when the last of them failed

world == <<health, outage, backAt>>
tick == <<start, listed, todo, inARow, outOfTime>>
memory == <<done, fails, retryAt>>
history == <<settled, failures, failedAt>>
vars == <<now, world, phase, wakeAt, tick, memory, history>>

Times == Never..(2 * (Horizon + Slowest + MaxBackoff))

TypeOK ==
    /\ now \in 0..(Horizon + Slowest)
    /\ health \in [Games -> {"good", "unparseable", "broken"}]
    /\ outage \in {"none", "down", "over"}
    /\ phase \in {"asleep", "tick"}
    /\ {backAt, wakeAt, start} \subseteq Times
    /\ todo \subseteq listed /\ listed \subseteq Games
    /\ inARow \in 0..OutageLimit
    /\ outOfTime \in BOOLEAN
    /\ done \subseteq Games /\ settled \subseteq Games
    /\ fails \in [Games -> Nat] /\ failures \in [Games -> Nat]
    /\ retryAt \in [Games -> Int] /\ failedAt \in [Games -> Times]

Init ==
    /\ now = 0
    /\ health \in [Games -> {"good", "unparseable", "broken"}]
    /\ outage = "none" /\ backAt = Never
    /\ phase = "asleep" /\ wakeAt = 0
    /\ start = Never /\ listed = {} /\ todo = {} /\ inARow = 0 /\ outOfTime = FALSE
    /\ done = {}
    /\ fails = [g \in Games |-> 0]
    /\ retryAt = [g \in Games |-> Never]
    /\ settled = {}
    /\ failures = [g \in Games |-> 0]
    /\ failedAt = [g \in Games |-> Never]

-----------------------------------------------------------------------------
(* The tick *)

Since(t) == t - Window

\* Wrong: the catalog's window, which is coarser, is taken as it is.
ListingCoarse == {g \in Games : Since(now) - 2 * Interval <= PlayedAt[g] /\ PlayedAt[g] <= now}

\* list: the catalog's games of the window.
Listing == {g \in Games : Since(now) <= PlayedAt[g] /\ PlayedAt[g] <= now}

BeginTick ==
    /\ phase = "asleep" /\ wakeAt <= now
    /\ \/ /\ phase' = "tick"
          /\ start' = now
          /\ listed' = Listing /\ todo' = Listing
          /\ inARow' = 0 /\ outOfTime' = FALSE
          /\ UNCHANGED wakeAt
       \/ /\ outage = "down"
          /\ wakeAt' = now + Interval
          /\ UNCHANGED <<phase, tick>>
    /\ UNCHANGED <<now, world, memory, history>>

\* The loop's next game is the newest it has not come to.
Turn(g) ==
    /\ phase = "tick" /\ g \in todo
    /\ \A h \in todo : PlayedAt[h] <= PlayedAt[g]

Skipped(g) == g \in done \/ now < retryAt[g]

\* Wrong: one failure too many.
GivenUpLate == inARow > OutageLimit

GivenUpOn == inARow >= OutageLimit
Overrun == now - start >= Interval

\* A turn that asks the cache for nothing.
Pass(g) ==
    /\ Turn(g)
    /\ todo' = todo \ {g}
    /\ \/ Skipped(g) /\ UNCHANGED outOfTime
       \/ ~Skipped(g) /\ GivenUpOn /\ UNCHANGED outOfTime
       \/ ~Skipped(g) /\ ~GivenUpOn /\ Overrun /\ outOfTime' = TRUE
    /\ UNCHANGED <<now, world, phase, wakeAt, start, listed, inARow, memory, history>>

\* A product of durations as the machine has it: Width bits, two's complement.
Wrapped(x) ==
    LET m == x % 2^Width IN IF m >= 2^(Width - 1) THEN m - 2^Width ELSE m

\* Wrong: the wait has no cap.
WaitUncapped(n) == Wrapped(Interval * 2^(n - 1))

\* min(w.interval<<(n-1), warmMaxBackoff)
Wait(n) ==
    LET shifted == Wrapped(Interval * 2^(n - 1))
    IN  IF shifted < MaxBackoff THEN shifted ELSE MaxBackoff

\* store.Warm on a game whose turn it is, and what the loop makes of it.  In an
\* outage it fails for now, unless what it needs is on disk.
Try(g) ==
    /\ Turn(g)
    /\ ~Skipped(g) /\ ~GivenUpOn /\ ~Overrun
    /\ todo' = todo \ {g}
    /\ now' \in now..(now + Slowest)
    /\ \/ /\ health[g] = "good"
          /\ inARow' = 0
          /\ done' = done \cup {g} /\ settled' = settled \cup {g}
          /\ UNCHANGED <<fails, retryAt, failures, failedAt>>
       \/ /\ health[g] = "unparseable"
          /\ done' = done \cup {g} /\ settled' = settled \cup {g}
          /\ UNCHANGED <<inARow, fails, retryAt, failures, failedAt>>
       \/ /\ outage = "down" \/ health[g] = "broken"
          /\ inARow' = inARow + 1
          /\ fails' = [fails EXCEPT ![g] = @ + 1]
          /\ retryAt' = [retryAt EXCEPT ![g] = now' + Wait(fails'[g])]
          /\ failures' = [failures EXCEPT ![g] = @ + 1]
          /\ failedAt' = [failedAt EXCEPT ![g] = now']
          /\ UNCHANGED <<done, settled>>
    /\ UNCHANGED <<world, phase, wakeAt, start, listed, outOfTime>>

\* What the end of a tick keeps of done ...
Kept == {g \in done : PlayedAt[g] >= Since(start)}

\* Wrong: a game that was due and left for later loses its count of failures.
FailingTried == {g \in listed \ Kept : retryAt[g] >= start}

\* ... and of fails and retryAt.
Failing == listed \ Kept

EndTick ==
    /\ phase = "tick" /\ todo = {}
    /\ done' = Kept
    /\ fails' = [g \in Games |-> IF g \in Failing THEN fails[g] ELSE 0]
    /\ retryAt' = [g \in Games |-> IF g \in Failing THEN retryAt[g] ELSE Never]
    /\ phase' = "asleep"
    /\ wakeAt' = IF outOfTime THEN now ELSE now + Interval
    /\ UNCHANGED <<now, world, tick, history>>

Step == BeginTick \/ (\E g \in Games : Pass(g) \/ Try(g)) \/ EndTick

-----------------------------------------------------------------------------
(* Around the warmer *)

Elapse ==
    /\ phase = "asleep" /\ now < wakeAt
    /\ now' = now + 1
    /\ UNCHANGED <<world, phase, wakeAt, tick, memory, history>>

\* The hub or its CDN goes down, once, and comes back.
Outage ==
    /\ \/ outage = "none" /\ outage' = "down" /\ UNCHANGED backAt
       \/ outage = "down" /\ outage' = "over" /\ backAt' = now
    /\ UNCHANGED <<now, health, phase, wakeAt, tick, memory, history>>

\* Horizon bounds the time explored.
Next == now < Horizon /\ (Step \/ Elapse \/ Outage)

Spec == Init /\ [][Next]_vars

-----------------------------------------------------------------------------
(* Properties *)

\* warm.go:45-47, 90-93: a game that is prepared, or does not parse, is not
\* asked for again, through every pruning of done and however long its window.
SettledOnce == [][\A g \in settled : ~Try(g)]_vars

\* What the n-th failure is to cost: the interval doubled, up to the cap.
Backoff(n) ==
    IF \E k \in 0..(n - 1) : Interval * 2^k >= MaxBackoff THEN MaxBackoff
    ELSE Interval * 2^(n - 1)

\* warm.go:47-49, 56-58: a game that failed waits, its wait doubling with each
\* of its failures up to warmMaxBackoff; "a demo whose CDN copy is broken is
\* fetched about this often while it is in the window".
BackoffKept ==
    [][\A g \in Games :
          Try(g) /\ failures[g] > 0 => now - failedAt[g] >= Backoff(failures[g])]_vars

\* warm.go:57-58: "one that failed in an outage is warmed at most this long
\* after it".  A tick that starts warmMaxBackoff after the outage, and comes to
\* its end, leaves no good game behind (warm_test.go:151-153).
RecoversFromOutage ==
    phase = "asleep" /\ outage = "over" /\ start >= backAt + MaxBackoff
        /\ ~outOfTime /\ inARow < OutageLimit =>
            \A g \in listed : health[g] = "good" => g \in settled
=============================================================================
