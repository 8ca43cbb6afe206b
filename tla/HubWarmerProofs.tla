-------------------------- MODULE HubWarmerProofs --------------------------
(***************************************************************************)
(* What holds of HubWarmer for any games, intervals, windows, word widths   *)
(* and histories of outages.                                                *)
(***************************************************************************)
EXTENDS HubWarmer, FiniteSetTheorems, TLAPS

-----------------------------------------------------------------------------
(* Powers of two and the wait *)

\* 2^n counts the subsets of 1..n, which is all the provers know of it.
LEMMA PowerCounts ==
    ASSUME NEW n \in Nat
    PROVE  IsFiniteSet(SUBSET (1..n)) /\ Cardinality(SUBSET (1..n)) = 2^n
<1>1. IsFiniteSet(1..n) /\ Cardinality(1..n) = n
  <2>1. IsFiniteSet(1..n) /\ Cardinality(1..n) = IF 1 > n THEN 0 ELSE n - 1 + 1
    BY FS_Interval
  <2> QED
    BY <2>1
<1> QED
  BY <1>1, FS_SUBSET

LEMMA PowerPositive ==
    ASSUME NEW n \in Nat
    PROVE  2^n \in Nat \ {0}
<1>1. Cardinality(SUBSET (1..n)) \in Nat
  BY PowerCounts, FS_CardinalityType
<1>2. Cardinality(SUBSET (1..n)) # 0
  <2> DEFINE S == SUBSET (1..n)
  <2>1. {} \in S /\ IsFiniteSet(S)
    BY PowerCounts
  <2> HIDE DEF S
  <2>2. Cardinality(S) = 0 <=> S = {}
    BY <2>1, FS_EmptySet
  <2> QED
    BY <2>1, <2>2 DEF S
<1> QED
  BY <1>1, <1>2, PowerCounts

LEMMA PowerGrows ==
    ASSUME NEW m \in Nat, NEW n \in Nat, m <= n
    PROVE  2^m <= 2^n
<1>1. SUBSET (1..m) \subseteq SUBSET (1..n)
  OBVIOUS
<1>2. Cardinality(SUBSET (1..m)) <= Cardinality(SUBSET (1..n))
  BY <1>1, PowerCounts, FS_Subset
<1> QED
  BY <1>2, PowerCounts

LEMMA PowerDoubles ==
    ASSUME NEW n \in Nat
    PROVE  2^(n + 1) = 2^n + 2^n
<1> DEFINE Low == SUBSET (1..n)
           Add == [A \in Low |-> A \cup {n + 1}]
           High == {A \cup {n + 1} : A \in Low}
<1>1. Add \in Bijection(Low, High)
  <2>1. Add \in Surjection(Low, High)
    BY DEF Surjection
  <2>2. ASSUME NEW A \in Low, NEW B \in Low, Add[A] = Add[B] PROVE A = B
    <3>1. n + 1 \notin A /\ n + 1 \notin B
      OBVIOUS
    <3>2. Add[A] = A \cup {n + 1} /\ Add[B] = B \cup {n + 1}
      OBVIOUS
    <3>3. A = Add[A] \ {n + 1} /\ B = Add[B] \ {n + 1}
      BY <3>1, <3>2
    <3> QED
      BY <2>2, <3>3
  <2>3. Add \in Injection(Low, High)
    <3>1. Add \in [Low -> High]
      OBVIOUS
    <3> HIDE DEF Add, Low, High
    <3> QED
      BY <2>2, <3>1 DEF Injection, IsInjective
  <2> HIDE DEF Add, Low, High
  <2> QED
    BY <2>1, <2>3 DEF Bijection
<1>2. IsFiniteSet(High) /\ Cardinality(High) = Cardinality(Low)
  BY <1>1, PowerCounts, FS_Bijection DEF ExistsBijection
<1>3. Low \cap High = {} /\ Low \cup High = SUBSET (1..(n + 1))
  <2>1. 1..(n + 1) = (1..n) \cup {n + 1} /\ n + 1 \notin 1..n
    OBVIOUS
  <2>2. ASSUME NEW A \in SUBSET (1..(n + 1)), n + 1 \in A PROVE A \in High
    <3>1. A \ {n + 1} \subseteq 1..n
      BY <2>1
    <3>2. A = (A \ {n + 1}) \cup {n + 1}
      BY <2>2
    <3> QED
      BY <3>1, <3>2
  <2> QED
    BY <2>1, <2>2
<1>4. Cardinality(Low \cup High) = Cardinality(Low) + Cardinality(High) - Cardinality(Low \cap High)
  BY <1>2, PowerCounts, FS_Union
<1>5. Cardinality(Low) \in Nat /\ Cardinality(Low \cap High) = 0
  BY <1>3, PowerCounts, FS_EmptySet, FS_CardinalityType
<1>6. Cardinality(Low) = 2^n /\ Cardinality(Low \cup High) = 2^(n + 1)
  <2>1. n + 1 \in Nat
    OBVIOUS
  <2>2. Cardinality(SUBSET (1..(n + 1))) = 2^(n + 1)
    BY <2>1, PowerCounts
  <2> QED
    BY <1>3, <2>2, PowerCounts
<1> HIDE DEF Low, High
<1> QED
  BY <1>2, <1>4, <1>5, <1>6

LEMMA Scaled ==
    ASSUME NEW a \in Nat, NEW b \in Nat, NEW c \in Nat, a <= b
    PROVE  c * a <= c * b /\ c * a \in Nat
OBVIOUS

\* Whatever the machine's word makes of the shift, the wait is a time, and no
\* longer than the cap.
LEMMA WaitCapped ==
    ASSUME NEW n \in Nat \ {0}
    PROVE  Wait(n) \in Int /\ Wait(n) <= MaxBackoff
<1> DEFINE x == Interval * 2^(n - 1)
<1>1. x \in Int
  BY TimesAssumption, PowerPositive
<1>2. 2^Width \in Nat \ {0} /\ 2^(Width - 1) \in Nat
  BY TimesAssumption, PowerPositive
<1> HIDE DEF x
<1>3. x % 2^Width \in Int
  BY <1>1, <1>2
<1>4. Wrapped(x) \in Int
  BY <1>2, <1>3 DEF Wrapped
<1> QED
  BY <1>4, TimesAssumption DEF Wait, x

\* The shift of the n-th failure does not reach the sign bit.
Fits(n) == Interval * 2^(n - 1) < 2^(Width - 1)

\* While the shift fits, the wait is what the comment of warmMaxBackoff asks.
LEMMA WaitBacksOff ==
    ASSUME NEW n \in Nat \ {0}, Fits(n)
    PROVE  Wait(n) = Backoff(n) /\ Wait(n) > 0
<1> DEFINE x == Interval * 2^(n - 1)
           half == 2^(Width - 1)
<1>1. x \in Nat \ {0} /\ x < half /\ half \in Nat
  BY TimesAssumption, PowerPositive, Scaled DEF Fits
<1>2. 2^Width = half + half
  <2>1. Width - 1 \in Nat /\ (Width - 1) + 1 = Width
    BY TimesAssumption
  <2> QED
    BY <2>1, PowerDoubles
<1>3. ASSUME NEW k \in 0..(n - 1), Interval * 2^k >= MaxBackoff PROVE x >= MaxBackoff
  <2>1. 2^k \in Nat /\ 2^(n - 1) \in Nat /\ 2^k <= 2^(n - 1)
    BY PowerPositive, PowerGrows
  <2>2. Interval * 2^k <= x /\ Interval * 2^k \in Nat
    BY <2>1, Scaled, TimesAssumption
  <2> QED
    BY <1>1, <1>3, <2>2, TimesAssumption
<1>4. n - 1 \in 0..(n - 1)
  OBVIOUS
<1>5. Backoff(n) = IF x < MaxBackoff THEN x ELSE MaxBackoff
  BY <1>1, <1>3, <1>4, TimesAssumption DEF Backoff
<1>6. Wrapped(x) = x
  <2> HIDE DEF x, half
  <2>1. x % (half + half) = x
    BY <1>1
  <2> QED
    BY <1>1, <1>2, <2>1 DEF Wrapped, half
<1> HIDE DEF x, half
<1> QED
  BY <1>1, <1>5, <1>6, TimesAssumption DEF Wait, x

-----------------------------------------------------------------------------
(* The invariant *)

\* The games of the window of the tick that began at start.
InWindow(g) == PlayedAt[g] >= Since(start)

TickInv ==
    /\ start <= now
    /\ phase = "tick" => listed = {g \in Games : InWindow(g) /\ PlayedAt[g] <= start}
    /\ phase = "asleep" => todo = {}
    /\ \A g \in todo : InWindow(g) /\ PlayedAt[g] <= start

\* A settled game is remembered until it is out of the window: pruning and
\* listing draw the same line.
SettledInv ==
    /\ done \subseteq settled
    /\ \A g \in settled : g \in done \/ ~InWindow(g)

\* A failing game is known with all of its failures while it is in the window.
FailingInv ==
    \A g \in Games :
        /\ failures[g] > 0 => PlayedAt[g] <= start
        /\ InWindow(g) /\ g \notin done =>
              /\ fails[g] = failures[g]
              /\ failures[g] > 0 => retryAt[g] = failedAt[g] + Wait(failures[g])

\* A good game fails in an outage only, and its wait is over warmMaxBackoff
\* after the outage at the latest.
OutageInv ==
    /\ outage = "over" => 0 <= backAt /\ backAt <= now
    /\ \A g \in Games : health[g] = "good" =>
          /\ outage = "none" => retryAt[g] <= 0
          /\ outage = "down" => retryAt[g] <= now + MaxBackoff
          /\ outage = "over" => retryAt[g] <= backAt + MaxBackoff

\* What the loop has passed of a tick that recovers.
RecoveryInv ==
    outage = "over" /\ start >= backAt + MaxBackoff /\ ~outOfTime /\ inARow < OutageLimit =>
        \A g \in listed \ todo : health[g] = "good" => g \in settled

IInv == TypeOK /\ TickInv /\ SettledInv /\ FailingInv /\ OutageInv /\ RecoveryInv

LEMMA InitInv == Init => IInv
<1> SUFFICES ASSUME Init PROVE IInv
  OBVIOUS
<1> USE GamesAssumption, TimesAssumption
<1>1. TypeOK
  <2>1. /\ 0 \in Times /\ Never \in Times /\ Never \in Int
        /\ 0 \in 0..(Horizon + Slowest) /\ 0 \in 0..OutageLimit
    BY DEF Times, Never
  <2>2. {backAt, wakeAt, start} \subseteq Times
    BY <2>1 DEF Init
  <2> QED
    BY <2>1, <2>2 DEF Init, TypeOK
<1>2. TickInv
  BY DEF Init, TickInv, Never
<1>3. SettledInv
  BY DEF Init, SettledInv
<1>4. FailingInv
  BY DEF Init, FailingInv
<1>5. OutageInv
  BY DEF Init, OutageInv, Never
<1>6. RecoveryInv
  BY DEF Init, RecoveryInv
<1> QED
  BY <1>1, <1>2, <1>3, <1>4, <1>5, <1>6 DEF IInv

\* Each action, at a glance: what the proofs of the parts below need of it.
LEMMA BeginInv == IInv /\ now < Horizon /\ BeginTick => IInv'
<1> SUFFICES ASSUME IInv, now < Horizon, BeginTick PROVE IInv'
  OBVIOUS
<1> USE GamesAssumption, TimesAssumption
<1> USE DEF IInv, world, tick, memory, history
<1>1. CASE UNCHANGED <<phase, tick>> /\ wakeAt' = now + Interval
  <2>1. TypeOK'
    BY <1>1 DEF BeginTick, TypeOK, Times, Never
  <2>2. TickInv' /\ SettledInv' /\ FailingInv'
    BY <1>1 DEF BeginTick, TickInv, SettledInv, FailingInv, InWindow
  <2>3. OutageInv' /\ RecoveryInv'
    BY <1>1 DEF BeginTick, OutageInv, RecoveryInv
  <2> QED
    BY <2>1, <2>2, <2>3
<1>2. CASE phase' = "tick" /\ start' = now /\ listed' = Listing /\ todo' = Listing
             /\ inARow' = 0 /\ outOfTime' = FALSE /\ UNCHANGED wakeAt
  <2>0. start \in Int /\ now \in Int /\ start <= now
    BY DEF TypeOK, TickInv, Times
  <2>1. TypeOK'
    <3>1. Listing \subseteq Games /\ 0 \in 0..OutageLimit /\ now \in Times
      BY DEF Listing, TypeOK, Times, Never
    <3>2. {backAt, wakeAt, start}' \subseteq Times
      BY <1>2, <3>1 DEF BeginTick, TypeOK
    <3> QED
      BY <1>2, <3>1, <3>2 DEF BeginTick, TypeOK
  <2>2. TickInv'
    BY <1>2, <2>0 DEF BeginTick, TickInv, Listing, InWindow, Since
  <2>3. \A g \in Games : InWindow(g)' => InWindow(g)
    BY <1>2, <2>0 DEF InWindow, Since
  <2>4. SettledInv'
    BY <1>2, <2>3 DEF BeginTick, SettledInv, TypeOK
  <2>5. FailingInv'
    <3>1. \A g \in Games : PlayedAt[g] <= start => PlayedAt[g] <= start'
      BY <1>2, <2>0
    <3> QED
      BY <1>2, <2>3, <3>1 DEF BeginTick, FailingInv
  <2>6. OutageInv' /\ RecoveryInv'
    BY <1>2 DEF BeginTick, OutageInv, RecoveryInv
  <2> QED
    BY <2>1, <2>2, <2>4, <2>5, <2>6
<1> QED
  BY <1>1, <1>2 DEF BeginTick

LEMMA PassInv ==
    ASSUME IInv, now < Horizon, NEW g \in Games, Pass(g)
    PROVE  IInv'
<1> USE GamesAssumption, TimesAssumption
<1> USE DEF IInv, memory, history, world
<1>1. TypeOK'
  BY DEF Pass, TypeOK, Times
<1>2. TickInv'
  BY DEF Pass, Turn, TickInv, InWindow
<1>3. SettledInv' /\ FailingInv' /\ OutageInv'
  BY DEF Pass, SettledInv, FailingInv, OutageInv, InWindow
<1>4. RecoveryInv'
  <2>1. CASE Skipped(g) /\ outage = "over" /\ start >= backAt + MaxBackoff /\ health[g] = "good"
    <3>1. now >= retryAt[g]
      BY <2>1 DEF OutageInv, TickInv, TypeOK, Times
    <3>2. g \in settled
      BY <2>1, <3>1 DEF Skipped, SettledInv, TypeOK
    <3> QED
      BY <3>2 DEF Pass, RecoveryInv
  <2>2. CASE ~Skipped(g)
    BY <2>2 DEF Pass, GivenUpOn, RecoveryInv, TypeOK
  <2>3. CASE ~(outage = "over" /\ start >= backAt + MaxBackoff)
    BY <2>3 DEF Pass, RecoveryInv
  <2>4. CASE Skipped(g) /\ health[g] # "good"
    BY <2>4 DEF Pass, RecoveryInv
  <2> QED
    BY <2>1, <2>2, <2>3, <2>4
<1> QED
  BY <1>1, <1>2, <1>3, <1>4

LEMMA TryInv ==
    ASSUME IInv, now < Horizon, NEW g \in Games, Try(g)
    PROVE  IInv'
<1> USE GamesAssumption, TimesAssumption
<1> USE DEF IInv, world
<1>0. now' \in Int /\ now <= now' /\ now' <= now + Slowest /\ now \in 0..(Horizon + Slowest)
  BY DEF Try, TypeOK
<1>1. fails[g] \in Nat /\ Wait(fails[g] + 1) \in Int /\ Wait(fails[g] + 1) <= MaxBackoff
  BY WaitCapped DEF TypeOK
<1>2. g \in todo /\ g \notin done /\ InWindow(g) /\ PlayedAt[g] <= start
  BY DEF Try, Turn, Skipped, TickInv
<1>3. CASE /\ outage = "down" \/ health[g] = "broken"
           /\ inARow' = inARow + 1
           /\ fails' = [fails EXCEPT ![g] = @ + 1]
           /\ retryAt' = [retryAt EXCEPT ![g] = now' + Wait(fails'[g])]
           /\ failures' = [failures EXCEPT ![g] = @ + 1]
           /\ failedAt' = [failedAt EXCEPT ![g] = now']
           /\ UNCHANGED <<done, settled>>
  <2>0. fails'[g] = fails[g] + 1 /\ retryAt'[g] = now' + Wait(fails[g] + 1)
    BY <1>3 DEF TypeOK
  <2>1. TypeOK'
    <3>1. now' \in 0..(Horizon + Slowest) /\ now' \in Times
      BY <1>0 DEF Times, Never
    <3>2. retryAt' \in [Games -> Int] /\ fails' \in [Games -> Nat]
      BY <1>0, <1>1, <1>3, <2>0 DEF TypeOK
    <3>3. failures' \in [Games -> Nat] /\ failedAt' \in [Games -> Times]
      BY <1>3, <3>1 DEF TypeOK
    <3>4. inARow' \in 0..OutageLimit
      BY <1>3 DEF Try, GivenUpOn, TypeOK
    <3> QED
      BY <1>3, <3>1, <3>2, <3>3, <3>4 DEF Try, TypeOK
  <2>2. TickInv' /\ SettledInv'
    BY <1>0, <1>3 DEF Try, Turn, TickInv, SettledInv, InWindow, TypeOK, Times
  <2>3. FailingInv'
    <3> SUFFICES ASSUME NEW h \in Games
                 PROVE /\ failures'[h] > 0 => PlayedAt[h] <= start'
                       /\ InWindow(h)' /\ h \notin done' =>
                            /\ fails'[h] = failures'[h]
                            /\ failures'[h] > 0 => retryAt'[h] = failedAt'[h] + Wait(failures'[h])
      BY DEF FailingInv
    <3>1. CASE h = g
      <4>1. fails[g] = failures[g] /\ failures'[g] = failures[g] + 1 /\ failedAt'[g] = now'
        BY <1>2, <1>3 DEF FailingInv, TypeOK
      <4> QED
        BY <1>2, <2>0, <3>1, <4>1 DEF Try
    <3>2. CASE h # g
      <4>1. /\ fails'[h] = fails[h] /\ failures'[h] = failures[h]
            /\ retryAt'[h] = retryAt[h] /\ failedAt'[h] = failedAt[h]
        BY <1>3, <3>2 DEF TypeOK
      <4>2. start' = start /\ done' = done
        BY <1>3 DEF Try
      <4> QED
        BY <4>1, <4>2 DEF FailingInv, InWindow
    <3> QED
      BY <3>1, <3>2
  <2>4. OutageInv'
    <3>1. outage' = outage /\ backAt' = backAt /\ health' = health
      BY DEF Try
    <3>2. ASSUME NEW h \in Games, health[h] = "good"
          PROVE  /\ outage = "none" => retryAt'[h] <= 0
                 /\ outage = "down" => retryAt'[h] <= now' + MaxBackoff
                 /\ outage = "over" => retryAt'[h] <= backAt + MaxBackoff
      <4>1. CASE h = g
        BY <1>0, <1>1, <1>3, <2>0, <3>2, <4>1
      <4>2. CASE h # g
        <5>1. retryAt'[h] = retryAt[h] /\ retryAt[h] \in Int
          BY <1>3, <4>2 DEF TypeOK
        <5> QED
          BY <1>0, <3>2, <5>1 DEF OutageInv, TypeOK
      <4> QED
        BY <4>1, <4>2
    <3>3. outage = "over" => 0 <= backAt /\ backAt <= now'
      BY <1>0 DEF OutageInv, TypeOK, Times
    <3> QED
      BY <3>1, <3>2, <3>3 DEF OutageInv
  <2>5. RecoveryInv'
    BY <1>0, <1>3 DEF Try, GivenUpOn, RecoveryInv, TypeOK
  <2> QED
    BY <2>1, <2>2, <2>3, <2>4, <2>5
<1>4. CASE /\ health[g] = "good" \/ health[g] = "unparseable"
           /\ done' = done \cup {g} /\ settled' = settled \cup {g}
           /\ inARow' \in {inARow, 0}
           /\ UNCHANGED <<fails, retryAt, failures, failedAt>>
  <2>1. TypeOK'
    BY <1>0, <1>4 DEF Try, TypeOK, Times
  <2>2. TickInv' /\ SettledInv'
    BY <1>0, <1>4 DEF Try, Turn, TickInv, SettledInv, InWindow, TypeOK, Times
  <2>3. FailingInv'
    BY <1>4 DEF Try, FailingInv, InWindow
  <2>4. OutageInv'
    BY <1>0, <1>4 DEF Try, OutageInv, TypeOK, Times
  <2>5. RecoveryInv'
    BY <1>4 DEF Try, GivenUpOn, RecoveryInv, TypeOK
  <2> QED
    BY <2>1, <2>2, <2>3, <2>4, <2>5
<1> QED
  BY <1>3, <1>4 DEF Try

LEMMA EndInv == IInv /\ now < Horizon /\ EndTick => IInv'
<1> SUFFICES ASSUME IInv, now < Horizon, EndTick PROVE IInv'
  OBVIOUS
<1> USE GamesAssumption, TimesAssumption
<1> USE DEF IInv, world, tick, history
<1>1. TypeOK'
  <2>1. fails' \in [Games -> Nat] /\ retryAt' \in [Games -> Int]
    BY DEF EndTick, TypeOK, Never
  <2>2. wakeAt' \in Times
    BY DEF EndTick, TypeOK, Times, Never
  <2> QED
    BY <2>1, <2>2 DEF EndTick, TypeOK, Kept
<1>2. TickInv' /\ SettledInv'
  BY DEF EndTick, TickInv, SettledInv, InWindow, Kept, TypeOK
<1>3. FailingInv'
  <2> SUFFICES ASSUME NEW g \in Games
               PROVE /\ failures[g] > 0 => PlayedAt[g] <= start
                     /\ InWindow(g) /\ g \notin done' =>
                          /\ fails'[g] = failures[g]
                          /\ failures[g] > 0 => retryAt'[g] = failedAt[g] + Wait(failures[g])
    BY DEF EndTick, FailingInv, InWindow
  <2>1. failures[g] > 0 => PlayedAt[g] <= start
    BY DEF FailingInv
  <2>2. ASSUME InWindow(g), g \notin done'
        PROVE  g \notin done /\ (failures[g] > 0 => g \in Failing)
    <3>1. g \notin done
      BY <2>2 DEF EndTick, Kept, InWindow
    <3>2. failures[g] > 0 => g \in listed
      BY <2>1, <2>2 DEF EndTick, TickInv
    <3> QED
      BY <3>1, <3>2 DEF Failing, Kept
  <2>3. ASSUME InWindow(g), g \notin done', failures[g] > 0
        PROVE  fails'[g] = failures[g] /\ retryAt'[g] = failedAt[g] + Wait(failures[g])
    BY <2>2, <2>3 DEF EndTick, FailingInv
  <2>4. ASSUME InWindow(g), g \notin done', failures[g] = 0
        PROVE  fails'[g] = failures[g]
    BY <2>2, <2>4 DEF EndTick, FailingInv
  <2> QED
    BY <2>1, <2>3, <2>4 DEF TypeOK
<1>4. OutageInv'
  <2>1. ASSUME NEW g \in Games PROVE retryAt'[g] = retryAt[g] \/ retryAt'[g] = Never
    BY DEF EndTick
  <2>2. Never \in Int /\ Never <= 0
    BY DEF Never
  <2> QED
    BY <2>1, <2>2 DEF EndTick, OutageInv, TypeOK, Times
<1>5. RecoveryInv'
  BY DEF EndTick, RecoveryInv
<1> QED
  BY <1>1, <1>2, <1>3, <1>4, <1>5

LEMMA AroundInv == IInv /\ now < Horizon /\ (Elapse \/ Outage) => IInv'
<1> SUFFICES ASSUME IInv, now < Horizon, Elapse \/ Outage PROVE IInv'
  OBVIOUS
<1> USE GamesAssumption, TimesAssumption
<1> USE DEF IInv, world, tick, memory, history
<1>0. now \in Nat /\ start <= now /\ start \in Int
  BY DEF TypeOK, TickInv, Times
<1>1. CASE Elapse
  <2>1. TypeOK'
    BY <1>1 DEF Elapse, TypeOK
  <2>2. TickInv' /\ SettledInv' /\ FailingInv'
    BY <1>0, <1>1 DEF Elapse, TickInv, SettledInv, FailingInv, InWindow
  <2>3. OutageInv'
    BY <1>0, <1>1 DEF Elapse, OutageInv, TypeOK, Times
  <2>4. RecoveryInv'
    BY <1>1 DEF Elapse, RecoveryInv
  <2> QED
    BY <2>1, <2>2, <2>3, <2>4
<1>2. CASE Outage
  <2>1. TypeOK'
    BY <1>2 DEF Outage, TypeOK, Times, Never
  <2>2. TickInv' /\ SettledInv' /\ FailingInv'
    BY <1>2 DEF Outage, TickInv, SettledInv, FailingInv, InWindow
  <2>3. OutageInv'
    BY <1>0, <1>2 DEF Outage, OutageInv, TypeOK
  <2>4. RecoveryInv'
    BY <1>0, <1>2 DEF Outage, RecoveryInv
  <2> QED
    BY <2>1, <2>2, <2>3, <2>4
<1> QED
  BY <1>1, <1>2

LEMMA StepInv == IInv /\ [Next]_vars => IInv'
<1> SUFFICES ASSUME IInv, [Next]_vars PROVE IInv'
  OBVIOUS
<1>1. CASE UNCHANGED vars
  BY <1>1 DEF vars, world, tick, memory, history, IInv, TypeOK, TickInv, SettledInv,
              FailingInv, OutageInv, RecoveryInv, InWindow
<1> QED
  BY <1>1, BeginInv, PassInv, TryInv, EndInv, AroundInv DEF Next, Step

LEMMA InvHolds == Spec => []IInv
BY InitInv, StepInv, PTL DEF Spec

-----------------------------------------------------------------------------
(* What follows *)

\* Every time of the warmer stays within its bounds and every wait is a time,
\* whatever the shift of a wait does to the machine's word.
THEOREM TypeCorrect == Spec => []TypeOK
<1>1. IInv => TypeOK
  BY DEF IInv
<1> QED
  BY <1>1, InvHolds, PTL

\* The loop's turn never comes to a settled game that it has forgotten.
LEMMA NotAgain == IInv => \A g \in settled : ~Try(g)
BY DEF IInv, SettledInv, TickInv, Try, Turn, Skipped

\* warm.go:45-47: a game that is prepared, or does not parse, is never asked
\* for again.
THEOREM SettledForGood == Spec => SettledOnce
<1>1. IInv /\ [Next]_vars => [\A g \in settled : ~Try(g)]_vars
  BY NotAgain
<1> QED
  BY <1>1, InvHolds, PTL DEF Spec, SettledOnce

\* warm.go:57-58: a good game the outage delayed is prepared by the first tick
\* that starts warmMaxBackoff after it and comes to its end.
THEOREM OutageForgiven == Spec => []RecoversFromOutage
<1>1. IInv => RecoversFromOutage
  BY DEF IInv, TickInv, RecoveryInv, RecoversFromOutage
<1> QED
  BY <1>1, InvHolds, PTL

\* The attempt after the n-th failure of a game is Wait(n) behind it.
LEMMA WaitedFor ==
    ASSUME IInv, NEW g \in Games, Try(g), failures[g] > 0
    PROVE  now - failedAt[g] >= Wait(failures[g])
<1>1. retryAt[g] = failedAt[g] + Wait(failures[g]) /\ now >= retryAt[g]
  BY DEF IInv, TickInv, FailingInv, TypeOK, Try, Turn, Skipped
<1>2. failures[g] \in Nat \ {0} /\ failedAt[g] \in Int /\ now \in Int
  BY DEF IInv, TypeOK, Times
<1> QED
  BY <1>1, <1>2, WaitCapped

\* warm.go:47-49: the wait of a failing game is remembered through every tick
\* and pruning, and no attempt comes before it is over.
WaitKept ==
    [][\A g \in Games :
          Try(g) /\ failures[g] > 0 => now - failedAt[g] >= Wait(failures[g])]_vars

\* A failing game is left alone for as long as the shift of warm.go says, whatever
\* happens to the other games and to the hub in between.
THEOREM WaitsItsShift == Spec => WaitKept
<1>1. IInv /\ [Next]_vars =>
        [\A g \in Games :
            Try(g) /\ failures[g] > 0 => now - failedAt[g] >= Wait(failures[g])]_vars
  BY WaitedFor
<1> QED
  BY <1>1, InvHolds, PTL DEF Spec, WaitKept

\* As long as its shift fits the word, the wait is the doubled one of the
\* comment (warm.go:56-58): only the overflow of the shift can break it.
BackoffWhileFitting ==
    [][\A g \in Games :
          Try(g) /\ failures[g] > 0 /\ Fits(failures[g]) =>
              now - failedAt[g] >= Backoff(failures[g])]_vars

\* While the shift fits the word, the wait is the one the comment promises: twice as
\* long after each failure, up to warmMaxBackoff.
THEOREM BacksOffWhileFitting == Spec => BackoffWhileFitting
<1>1. ASSUME IInv, NEW g \in Games, Try(g), failures[g] > 0, Fits(failures[g])
      PROVE  now - failedAt[g] >= Backoff(failures[g])
  <2>1. failures[g] \in Nat \ {0}
    BY <1>1 DEF IInv, TypeOK
  <2> QED
    BY <1>1, <2>1, WaitedFor, WaitBacksOff
<1>2. IInv /\ [Next]_vars =>
        [\A g \in Games :
            Try(g) /\ failures[g] > 0 /\ Fits(failures[g]) =>
                now - failedAt[g] >= Backoff(failures[g])]_vars
  BY <1>1
<1> QED
  BY <1>2, InvHolds, PTL DEF Spec, BackoffWhileFitting

\* A shift that fits does so for fewer failures.
LEMMA FitsBelow ==
    ASSUME NEW n \in Nat \ {0}, NEW k \in Nat \ {0}, n <= k, Fits(k)
    PROVE  Fits(n)
<1>1. 2^(n - 1) \in Nat /\ 2^(k - 1) \in Nat /\ 2^(n - 1) <= 2^(k - 1) /\ 2^(Width - 1) \in Nat
  BY PowerPositive, PowerGrows, TimesAssumption
<1>2. /\ Interval * 2^(n - 1) <= Interval * 2^(k - 1)
      /\ Interval * 2^(n - 1) \in Nat /\ Interval * 2^(k - 1) \in Nat
  BY <1>1, Scaled, TimesAssumption
<1> QED
  BY <1>1, <1>2 DEF Fits

\* What n failures in a row cost a game, as the comment has it.
Adds(waited) ==
    /\ waited \in [Nat -> Nat] /\ waited[0] = 0
    /\ \A n \in Nat : waited[n + 1] = waited[n] + Backoff(n + 1)

\* A game that has failed has waited for all its failures but the last, as far as
\* their shifts fit: up to the k-th.
PaidInv(waited, k) ==
    \A g \in Games : failures[g] > 0 =>
        /\ 0 <= failedAt[g] /\ failedAt[g] <= now
        /\ waited[IF failures[g] > k THEN k ELSE failures[g] - 1] <= failedAt[g]

\* The comment's wait for every attempt before t.
BackoffUntil(t) ==
    [][\A g \in Games :
          Try(g) /\ failures[g] > 0 /\ now < t =>
              now - failedAt[g] >= Backoff(failures[g])]_vars

\* An attempt before the time k failures cost comes after fewer, and is due.
LEMMA PaidInTime ==
    ASSUME NEW waited, Adds(waited), NEW k \in Nat \ {0}, Fits(k),
           IInv, PaidInv(waited, k), NEW g \in Games, Try(g), failures[g] > 0,
           failures[g] <= k \/ now < waited[k]
    PROVE  /\ failures[g] <= k
           /\ now - failedAt[g] >= Backoff(failures[g])
<1>1. failures[g] \in Nat \ {0} /\ failedAt[g] \in Int /\ now \in Int
  BY DEF IInv, TypeOK, Times
<1>2. waited[k] \in Nat
  BY DEF Adds
<1>3. failures[g] <= k
  BY <1>1, <1>2 DEF PaidInv
<1> QED
  BY <1>1, <1>3, FitsBelow, WaitedFor, WaitBacksOff

LEMMA PaidStep ==
    ASSUME NEW waited, Adds(waited), NEW k \in Nat \ {0}, Fits(k),
           IInv, PaidInv(waited, k), [Next]_vars
    PROVE  PaidInv(waited, k)'
<1>0. now \in Nat /\ \A h \in Games : failures[h] \in Nat /\ failedAt[h] \in Int
  BY DEF IInv, TypeOK, Times
<1>1. ASSUME NEW g \in Games, Try(g) PROVE PaidInv(waited, k)'
  <2>1. now' \in Int /\ now <= now'
    BY <1>0, <1>1, TimesAssumption DEF Try
  <2>2. CASE UNCHANGED <<failures, failedAt>>
    BY <1>0, <2>1, <2>2 DEF PaidInv
  <2>3. CASE failures' = [failures EXCEPT ![g] = @ + 1] /\ failedAt' = [failedAt EXCEPT ![g] = now']
    <3> SUFFICES ASSUME NEW h \in Games, failures'[h] > 0
                 PROVE  /\ 0 <= failedAt'[h] /\ failedAt'[h] <= now'
                        /\ waited[IF failures'[h] > k THEN k ELSE failures'[h] - 1] <= failedAt'[h]
      BY DEF PaidInv
    <3>1. CASE h # g
      <4>1. failures'[h] = failures[h] /\ failedAt'[h] = failedAt[h]
        BY <2>3, <3>1 DEF IInv, TypeOK
      <4> QED
        BY <1>0, <2>1, <4>1 DEF PaidInv
    <3>2. CASE h = g
      <4>1. failures'[g] = failures[g] + 1 /\ failedAt'[g] = now'
        BY <2>3 DEF IInv, TypeOK
      <4>2. CASE failures[g] = 0
        <5>1. failures'[g] = 1 /\ ~(1 > k) /\ waited[0] = 0
          BY <4>1, <4>2 DEF Adds
        <5> QED
          BY <1>0, <2>1, <3>2, <4>1, <5>1
      <4>3. CASE failures[g] > k
        <5>1. failures'[g] > k /\ waited[k] <= failedAt[g] /\ failedAt[g] <= now /\ waited[k] \in Nat
          BY <1>0, <4>1, <4>3 DEF PaidInv, Adds
        <5> QED
          BY <1>0, <2>1, <3>2, <4>1, <5>1
      <4>4. CASE failures[g] \in 1..k
        <5> DEFINE n == failures[g]
        <5>1. n \in 1..k /\ n - 1 \in Nat
          BY <4>4
        <5>2. waited[n - 1] <= failedAt[g] /\ failedAt[g] \in Int
          BY <1>0, <5>1 DEF PaidInv
        <5>3. now - failedAt[g] >= Backoff(n)
          BY <1>1, <5>1, PaidInTime
        <5>4. Backoff(n) \in Int
          BY <5>1, FitsBelow, WaitBacksOff, WaitCapped
        <5>5. waited[n] = waited[n - 1] + Backoff(n) /\ waited[n - 1] \in Nat /\ waited[n] \in Nat
          <6>1. (n - 1) + 1 = n
            BY <5>1
          <6> QED
            BY <5>1, <6>1 DEF Adds
        <5>6. waited[n] <= now
          <6> HIDE DEF n
          <6> QED
            BY <1>0, <5>2, <5>3, <5>4, <5>5
        <5>7. (IF failures'[g] > k THEN k ELSE failures'[g] - 1) = n
          BY <4>1, <5>1
        <5> HIDE DEF n
        <5> QED
          BY <1>0, <2>1, <3>2, <4>1, <5>5, <5>6, <5>7
      <4> QED
        BY <1>0, <4>2, <4>3, <4>4
    <3> QED
      BY <3>1, <3>2
  <2> QED
    BY <1>1, <2>2, <2>3 DEF Try
<1>2. CASE UNCHANGED history /\ now <= now' /\ now' \in Int
  BY <1>0, <1>2 DEF PaidInv, history
<1>3. CASE \E g \in Games : Pass(g)
  BY <1>0, <1>2, <1>3 DEF Pass
<1> QED
  BY <1>0, <1>1, <1>2, <1>3
  DEF Next, Step, BeginTick, EndTick, Elapse, Outage, vars

\* warm.go:56-58 holds as long as k failures cost, where k is what the shift
\* still fits: nobody can fail oftener in that time.  Past it, WaitsItsShift is all
\* that is left, and HubWarmerOverflow.cfg shows what it comes to.  An exploration no
\* longer than that never sees the difference.
THEOREM BacksOffAtFirst ==
    ASSUME NEW waited, Adds(waited), NEW k \in Nat \ {0}, Fits(k)
    PROVE  Spec => BackoffUntil(waited[k]) /\ (Horizon <= waited[k] => BackoffKept)
<1>1. Init => PaidInv(waited, k)
  BY DEF Init, PaidInv
<1>2. IInv /\ PaidInv(waited, k) /\ [Next]_vars =>
        [\A g \in Games :
            Try(g) /\ failures[g] > 0 /\ now < waited[k] =>
                now - failedAt[g] >= Backoff(failures[g])]_vars
  BY PaidInTime
<1>3. IInv /\ PaidInv(waited, k) /\ [Next]_vars => PaidInv(waited, k)'
  BY PaidStep
<1>4. Spec => BackoffUntil(waited[k])
  BY <1>1, <1>2, <1>3, InvHolds, PTL DEF Spec, BackoffUntil
<1>5. ASSUME Horizon <= waited[k] PROVE Spec => BackoffKept
  <2>1. IInv /\ PaidInv(waited, k) /\ [Next]_vars =>
          [\A g \in Games :
              Try(g) /\ failures[g] > 0 => now - failedAt[g] >= Backoff(failures[g])]_vars
    <3> SUFFICES ASSUME IInv, PaidInv(waited, k), Next, NEW g \in Games, Try(g), failures[g] > 0
                 PROVE  now - failedAt[g] >= Backoff(failures[g])
      OBVIOUS
    <3>1. now < Horizon /\ now \in Int /\ Horizon \in Int /\ waited[k] \in Int
      BY TimesAssumption DEF Next, IInv, TypeOK, Adds
    <3>2. now < waited[k]
      BY <1>5, <3>1
    <3> QED
      BY <3>2, PaidInTime
  <2> QED
    BY <1>1, <1>3, <2>1, InvHolds, PTL DEF Spec, BackoffKept
<1> QED
  BY <1>4, <1>5
=============================================================================
