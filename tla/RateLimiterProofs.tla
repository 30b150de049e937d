-------------------------- MODULE RateLimiterProofs --------------------------
(***************************************************************************)
(* The rate limiter never lets more through than its burst and its rate     *)
(* allow, for any limit, any number of callers and any interleaving of their *)
(* clock readings, reservations, timers and cancellations.                   *)
(***************************************************************************)
EXTENDS RateLimiter, TLAPS

\* The cursor is ahead of every reservation by the intervals reserved since.
Ahead ==
  \A i \in 1..Len(grant) : grant[i] + (Len(grant) - i + 1) * interval <= tat

\* A caller that holds a reading of the clock read it in the past, and a timer
\* does not fire before the time of its reservation.
CallersOnTime ==
  /\ \A p \in Callers : stage[p] = "clocked" => read[p] <= clock
  /\ \A p \in Callers : stage[p] = "waiting" =>
       slot[p] \in 1..Len(grant) /\ grant[slot[p]] <= fire[p]

LimiterInv == LimiterTypeOK /\ Ahead /\ CallersOnTime /\ RateBounded

\* newRateLimiter gives a positive interval and a tolerance.
LEMMA IntervalPositive == interval \in Nat \ {0} /\ tau \in Int
<1>1. Second \div PerSec \in Int
  BY LimiterAssumption, SMT
<1>2. interval \in Nat \ {0}
  BY <1>1, SMT DEF interval, Later
<1> QED BY <1>2, LimiterAssumption, SMT DEF tau

\* A multiple of the interval, one more and less the burst.
LEMMA Multiples ==
  ASSUME NEW n \in Int, NEW i \in Int, NEW t \in Int, NEW g \in Int,
         g + (n - i + 1) * interval <= t
  PROVE  /\ g + ((n + 1) - i + 1) * interval <= t + interval
         /\ ((n + 1) - i + 1 - PerSec) * interval <= (t - tau) - g
<1> DEFINE d == n - i + 1
           s == PerSec - 1
<1>0. interval \in Int /\ d \in Int /\ s \in Int
  BY IntervalPositive, LimiterAssumption, SMT
<1>1. (d + 1) * interval = d * interval + interval
  BY <1>0, SMT
<1>2. (d - s) * interval = d * interval - s * interval
  BY <1>0, SMT
<1>3. (n + 1) - i + 1 = d + 1 /\ (n + 1) - i + 1 - PerSec = d - s
  BY LimiterAssumption, SMT
<1>4. tau = s * interval /\ d * interval \in Int /\ s * interval \in Int
  BY <1>0, SMT DEF tau
<1>5. g + d * interval <= t
  OBVIOUS
<1> HIDE DEF d, s
<1>6. g + (d * interval + interval) <= t + interval
  BY <1>0, <1>4, <1>5, SMT
<1>7. d * interval - s * interval <= (t - tau) - g
  BY <1>0, <1>4, <1>5, SMT
<1> QED BY <1>1, <1>2, <1>3, <1>6, <1>7

\* reserve keeps the invariant, wherever at or after the old cursor it starts.
LEMMA ReserveKeeps ==
  ASSUME NEW p \in Callers, LimiterInv, reserve(p)
  PROVE  LimiterInv'
<1> DEFINE n == Len(grant)
           at == Later(tat, read[p])
           g == Later(at - tau, read[p])
<1>0. interval' = interval
  BY DEF interval, Later
<1>1. /\ n \in Nat /\ at \in Nat /\ tat <= at /\ read[p] <= at
      /\ g \in Nat /\ at - tau <= g /\ read[p] <= g
      /\ tau \in Int /\ interval \in Nat \ {0}
  BY IntervalPositive, SMT DEF LimiterInv, LimiterTypeOK, Later
<1>2. /\ stage[p] = "clocked" /\ tat' = at + interval /\ clock' = clock
      /\ grant' = Append(grant, g) /\ read' = [read EXCEPT ![p] = 0]
      /\ \/ /\ read[p] < at - tau
            /\ stage' = [stage EXCEPT ![p] = "waiting"]
            /\ fire' = [fire EXCEPT ![p] = clock + (at - tau - read[p])]
            /\ slot' = [slot EXCEPT ![p] = n + 1]
            /\ passed' = passed
         \/ /\ read[p] >= at - tau
            /\ stage' = [stage EXCEPT ![p] = "go"]
            /\ passed' = passed \cup {n + 1}
            /\ fire' = fire /\ slot' = slot
  BY DEF reserve, reserveAt
<1> HIDE DEF at
<1>3. read[p] \in Nat /\ clock \in Nat /\ read[p] <= clock
  BY <1>2 DEF LimiterInv, LimiterTypeOK, CallersOnTime
<1>4. (read[p] < at - tau => g = at - tau) /\ (read[p] >= at - tau => g = read[p])
  BY <1>1, <1>3, SMT DEF Later
<1> HIDE DEF g
<1>5. /\ grant \in Seq(Nat) /\ grant' \in Seq(Nat) /\ Len(grant') = n + 1
      /\ \A i \in 1..n : grant'[i] = grant[i] /\ grant[i] \in Nat
      /\ grant'[n + 1] = g
  <2>1. grant \in Seq(Nat)
    BY DEF LimiterInv, LimiterTypeOK
  <2> QED BY <1>1, <1>2, <2>1, SMT
<1> HIDE DEF n
<1>6. LimiterTypeOK'
  <2>1. fire' \in [Callers -> Nat]
    <3>1. read[p] < at - tau => clock + (at - tau - read[p]) \in Nat
      BY <1>1, <1>3, SMT
    <3> QED BY <1>2, <3>1 DEF LimiterInv, LimiterTypeOK
  <2>2. slot' \in [Callers -> Nat]
    <3>1. n + 1 \in Nat
      BY <1>1, SMT
    <3> QED BY <1>2, <3>1 DEF LimiterInv, LimiterTypeOK
  <2>3. passed' \subseteq 1..Len(grant')
    <3>1. passed \subseteq 1..n
      BY DEF LimiterInv, LimiterTypeOK, n
    <3>2. 1..n \subseteq 1..(n + 1) /\ n + 1 \in 1..(n + 1)
      BY <1>1, SMT
    <3>3. passed' \subseteq passed \cup {n + 1}
      BY <1>2
    <3> QED BY <1>5, <3>1, <3>2, <3>3
  <2>4. tat' \in Nat /\ clock' \in Nat
    BY <1>1, <1>2, <1>3, SMT
  <2>5. stage' \in [Callers -> {"idle", "clocked", "waiting", "go"}] /\ read' \in [Callers -> Nat]
    BY <1>2 DEF LimiterInv, LimiterTypeOK
  <2> QED BY <1>5, <2>1, <2>2, <2>3, <2>4, <2>5 DEF LimiterTypeOK
<1>7. \A i \in 1..n : grant[i] + (n - i + 1) * interval <= at
  <2> TAKE i \in 1..n
  <2>1. grant[i] + (n - i + 1) * interval <= tat
    BY DEF LimiterInv, Ahead, n
  <2>2. (n - i + 1) * interval \in Int
    BY <1>1, SMT
  <2> QED BY <1>1, <1>5, <2>1, <2>2, SMT DEF LimiterInv, LimiterTypeOK
<1>8. Ahead'
  <2>1. ASSUME NEW i \in 1..(n + 1)
        PROVE  grant'[i] + ((n + 1) - i + 1) * interval <= at + interval
    <3>1. CASE i = n + 1
      <4>1. ((n + 1) - i + 1) * interval = interval
        BY <1>1, <3>1, SMT
      <4>2. g <= at
        BY <1>1, <1>4, LimiterAssumption, SMT DEF LimiterInv, LimiterTypeOK, tau
      <4> QED BY <1>1, <1>5, <3>1, <4>1, <4>2, SMT
    <3>2. CASE i \in 1..n
      BY <1>1, <1>5, <1>7, <3>2, Multiples
    <3> QED BY <1>1, <3>1, <3>2, SMT
  <2>2. \A i \in 1..Len(grant') : grant'[i] + (Len(grant') - i + 1) * interval <= tat'
    <3>1. Len(grant') = n + 1 /\ tat' = at + interval
      BY <1>2, <1>5
    <3> TAKE i \in 1..Len(grant')
    <3>2. i \in 1..(n + 1)
      BY <3>1
    <3>3. grant'[i] + ((n + 1) - i + 1) * interval <= at + interval
      BY <2>1, <3>2
    <3> QED BY <3>1, <3>3
  <2> QED BY <1>0, <2>2 DEF Ahead
<1>9. CallersOnTime'
  <2>1. ASSUME NEW q \in Callers, stage'[q] = "clocked"
        PROVE  read'[q] <= clock'
    BY <1>2, <2>1, SMT DEF LimiterInv, LimiterTypeOK, CallersOnTime
  <2>2. ASSUME NEW q \in Callers, stage'[q] = "waiting"
        PROVE  slot'[q] \in 1..Len(grant') /\ grant'[slot'[q]] <= fire'[q]
    <3>1. CASE q = p
      BY <1>1, <1>2, <1>5, <1>3, <1>4, <2>2, <3>1, SMT DEF LimiterInv, LimiterTypeOK
    <3>2. CASE q # p
      <4>1. stage[q] = "waiting" /\ slot'[q] = slot[q] /\ fire'[q] = fire[q]
        BY <1>2, <2>2, <3>2, SMT DEF LimiterInv, LimiterTypeOK
      <4>2. slot[q] \in 1..n /\ grant[slot[q]] <= fire[q]
        BY <4>1 DEF LimiterInv, CallersOnTime, n
      <4> QED BY <1>1, <1>5, <4>1, <4>2, SMT
    <3> QED BY <3>1, <3>2
  <2> QED BY <2>1, <2>2 DEF CallersOnTime
<1>10. RateBounded'
  <2>1. ASSUME NEW i \in 1..(n + 1), NEW j \in 1..(n + 1), i <= j
        PROVE  (j - i + 1 - PerSec) * interval <= grant'[j] - grant'[i]
    <3>1. CASE j \in 1..n
      <4>1. (j - i + 1 - PerSec) * interval <= grant[j] - grant[i] /\ i \in 1..n
        BY <1>1, <2>1, <3>1 DEF LimiterInv, RateBounded, n
      <4> QED BY <1>5, <3>1, <4>1
    <3>2. CASE j = n + 1 /\ i \in 1..n
      <4>1. ((n + 1) - i + 1 - PerSec) * interval <= (at - tau) - grant[i]
        <5>1. grant[i] + (n - i + 1) * interval <= at
          BY <1>7, <3>2
        <5>2. n \in Int /\ i \in Int /\ at \in Int /\ grant[i] \in Int
          BY <1>1, <1>5, <3>2, SMT
        <5> QED BY <5>1, <5>2, Multiples
      <4>2. ((n + 1) - i + 1 - PerSec) * interval \in Int
        BY <1>1, LimiterAssumption, SMT
      <4> QED BY <1>1, <1>5, <3>2, <4>1, <4>2, SMT
    <3>3. CASE j = n + 1 /\ i = n + 1
      <4>1. (j - i + 1 - PerSec) * interval <= 0
        BY <1>1, <3>3, LimiterAssumption, SMT
      <4> QED BY <1>1, <1>5, <3>3, <4>1, SMT
    <3> QED BY <1>1, <2>1, <3>1, <3>2, <3>3, SMT
  <2>2. ASSUME NEW k \in passed'
        PROVE  grant'[k] <= clock'
    <3>1. CASE k \in passed
      BY <1>2, <1>5, <3>1, SMT DEF LimiterInv, LimiterTypeOK, RateBounded, n
    <3>2. CASE k = n + 1 /\ read[p] >= at - tau
      BY <1>2, <1>5, <1>3, <1>4, <3>2, SMT
    <3>3. k \in passed \/ (k = n + 1 /\ read[p] >= at - tau)
      BY <1>2, <2>2
    <3> QED BY <3>1, <3>2, <3>3
  <2> QED BY <1>0, <1>5, <2>1, <2>2 DEF RateBounded
<1> QED BY <1>6, <1>8, <1>9, <1>10 DEF LimiterInv

\* The other steps move no cursor: they read the clock or end a wait.
LEMMA OthersKeep ==
  ASSUME LimiterInv, NEW p \in Callers,
         ReadClock(p) \/ TimerFires(p) \/ Abandon(p) \/ Proceed(p)
  PROVE  LimiterInv'
<1>0. grant' = grant /\ tat' = tat
  BY DEF ReadClock, TimerFires, Abandon, Proceed
<1>1. Ahead'
  BY <1>0 DEF LimiterInv, Ahead, interval
<1>2. \A i \in 1..Len(grant) : grant[i] \in Nat
  BY SMT DEF LimiterInv, LimiterTypeOK
<1>3. LimiterTypeOK' /\ CallersOnTime' /\ \A k \in passed' : grant'[k] <= clock'
  <2>1. CASE ReadClock(p)
    BY <1>2, <2>1, SMT DEF ReadClock, LimiterInv, LimiterTypeOK, CallersOnTime, RateBounded
  <2>2. CASE TimerFires(p)
    <3>1. slot[p] \in 1..Len(grant) /\ grant[slot[p]] <= fire[p] /\ fire[p] <= clock
      BY <2>2 DEF TimerFires, LimiterInv, CallersOnTime
    <3>2. grant[slot[p]] <= clock
      BY <1>2, <3>1, SMT DEF LimiterInv, LimiterTypeOK
    <3>3. LimiterTypeOK'
      BY <2>2, <3>1 DEF TimerFires, LimiterInv, LimiterTypeOK
    <3>4. CallersOnTime'
      BY <2>2, SMT DEF TimerFires, LimiterInv, LimiterTypeOK, CallersOnTime
    <3>5. \A k \in passed' : grant'[k] <= clock'
      BY <2>2, <3>2 DEF TimerFires, LimiterInv, RateBounded
    <3> QED BY <3>3, <3>4, <3>5
  <2>3. CASE Abandon(p)
    BY <2>3, SMT DEF Abandon, LimiterInv, LimiterTypeOK, CallersOnTime, RateBounded
  <2>4. CASE Proceed(p)
    BY <2>4, SMT DEF Proceed, LimiterInv, LimiterTypeOK, CallersOnTime, RateBounded
  <2> QED BY <2>1, <2>2, <2>3, <2>4
<1>4. RateBounded'
  BY <1>0, <1>3 DEF LimiterInv, RateBounded, interval
<1> QED BY <1>1, <1>3, <1>4 DEF LimiterInv

\* Time passing keeps it: what was on time stays on time.
LEMMA TickKeeps == LimiterInv /\ Tick => LimiterInv'
<1> SUFFICES ASSUME LimiterInv, Tick PROVE LimiterInv'
  OBVIOUS
<1>1. /\ clock' = clock + 1 /\ clock \in Nat /\ clock' \in Nat
      /\ UNCHANGED <<tat, stage, read, fire, slot, grant, passed>>
  BY SMT DEF Tick, LimiterInv, LimiterTypeOK
<1>2. \A i \in 1..Len(grant) : grant[i] \in Nat
  BY SMT DEF LimiterInv, LimiterTypeOK
<1>3. \A k \in passed : grant[k] <= clock + 1
  BY <1>1, <1>2, SMT DEF LimiterInv, LimiterTypeOK, RateBounded
<1>4. \A q \in Callers : stage[q] = "clocked" => read[q] <= clock + 1
  BY <1>1, SMT DEF LimiterInv, LimiterTypeOK, CallersOnTime
<1>5. LimiterTypeOK' /\ Ahead'
  BY <1>1 DEF LimiterInv, LimiterTypeOK, Ahead, interval
<1>6. CallersOnTime'
  BY <1>1, <1>4 DEF LimiterInv, CallersOnTime
<1>7. RateBounded'
  BY <1>1, <1>3 DEF LimiterInv, RateBounded, interval
<1> QED BY <1>5, <1>6, <1>7 DEF LimiterInv

\* Whatever callers read, reserve, wait for and give up, reservations are spread
\* as the limit asks and nobody goes on early (reserve, wait): the comment of
\* reserve, that an abandoned slot only makes the limiter more conservative.
THEOREM LimiterBoundsRate == LimiterSpec => []RateBounded
<1>1. LimiterInit => LimiterInv
  BY SMT DEF LimiterInit, LimiterInv, LimiterTypeOK, Ahead, CallersOnTime, RateBounded
<1>2. LimiterInv /\ [LimiterNext]_limiterVars => LimiterInv'
  <2> SUFFICES ASSUME LimiterInv, [LimiterNext]_limiterVars PROVE LimiterInv'
    OBVIOUS
  <2>1. CASE \E p \in Callers : reserve(p)
    BY <2>1, ReserveKeeps
  <2>2. CASE \E p \in Callers : ReadClock(p) \/ TimerFires(p) \/ Abandon(p) \/ Proceed(p)
    BY <2>2, OthersKeep
  <2>3. CASE Tick
    BY <2>3, TickKeeps
  <2>4. CASE UNCHANGED limiterVars
    BY <2>4 DEF limiterVars, LimiterInv, LimiterTypeOK, Ahead, CallersOnTime, RateBounded, interval
  <2> QED BY <2>1, <2>2, <2>3, <2>4 DEF LimiterNext
<1>3. LimiterInv => RateBounded
  BY DEF LimiterInv
<1> QED BY <1>1, <1>2, <1>3, PTL DEF LimiterSpec
=============================================================================
