----------------------------- MODULE RateLimiter -----------------------------
(***************************************************************************)
(* publisher_rate_limiter.go: the token bucket behind WithPublishRateLimit, *)
(* a generic cell rate algorithm.  The bucket is one cursor, the theoretical *)
(* arrival time of the next grant; an attempt to publish reserves a place on *)
(* it under the mutex, then waits for a timer or for its context.  Time is   *)
(* counted in clock ticks.                                                   *)
(***************************************************************************)
EXTENDS Integers, Sequences

CONSTANTS
  Callers,    \* goroutines in publishOnce
  PerSec,     \* the limit; newRateLimiter returns nil for zero or less
  Second,     \* clock ticks in one second
  MaxTime,    \* bound: the clock stops here
  MaxGrants   \* bound: reservations made

ASSUME LimiterAssumption ==
  /\ PerSec \in Nat \ {0}
  /\ Second \in Nat \ {0}
  /\ MaxTime \in Nat /\ MaxGrants \in Nat

VARIABLES
  clock,      \* the wall clock
  tat,        \* the cursor
  stage,      \* caller -> "idle", "clocked" (time.Now read), "waiting", "go"
  read,       \* caller -> the time it read, until it reserves
  fire,       \* caller -> when its timer fires, while it waits
  slot,       \* caller -> the number of its reservation, while it waits
  grant,      \* per reservation, the time from which it conforms to the limit
  passed      \* the reservations whose caller went on to publish

limiterVars == <<clock, tat, stage, read, fire, slot, grant, passed>>

Later(a, b) == IF a < b THEN b ELSE a

\* newRateLimiter: the time between two grants, in whole ticks and at least one,
\* and the burst tolerance, one second's worth of grants but one.
interval == Later(Second \div PerSec, 1)
tau == (PerSec - 1) * interval

LimiterTypeOK ==
  /\ clock \in Nat /\ tat \in Nat
  /\ stage \in [Callers -> {"idle", "clocked", "waiting", "go"}]
  /\ read \in [Callers -> Nat] /\ fire \in [Callers -> Nat]
  /\ slot \in [Callers -> Nat]
  /\ grant \in Seq(Nat) /\ passed \subseteq 1..Len(grant)

LimiterInit ==
  /\ clock = 0 /\ tat = 0
  /\ grant = <<>> /\ passed = {}
  /\ stage = [p \in Callers |-> "idle"]
  /\ read = [p \in Callers |-> 0]
  /\ fire = [p \in Callers |-> 0]
  /\ slot = [p \in Callers |-> 0]

\* wait: the argument of reserve is evaluated before its mutex is taken, so
\* callers may reserve in another order than they read the clock.
ReadClock(p) ==
  /\ stage[p] = "idle" /\ Len(grant) < MaxGrants
  /\ stage' = [stage EXCEPT ![p] = "clocked"]
  /\ read' = [read EXCEPT ![p] = clock]
  /\ UNCHANGED <<clock, tat, fire, slot, grant, passed>>

\* reserve with the cursor at at, and wait up to its select: the cursor moves on
\* whatever becomes of the caller; a grant within the burst is taken at once, for
\* any other a timer is set for the time that was missing when the clock was read.
reserveAt(p, at) ==
  LET allowAt == at - tau
      k == Len(grant) + 1
  IN
  /\ stage[p] = "clocked"
  /\ tat' = at + interval
  /\ grant' = Append(grant, Later(allowAt, read[p]))
  /\ read' = [read EXCEPT ![p] = 0]
  /\ \/ /\ read[p] < allowAt
        /\ stage' = [stage EXCEPT ![p] = "waiting"]
        /\ fire' = [fire EXCEPT ![p] = clock + (allowAt - read[p])]
        /\ slot' = [slot EXCEPT ![p] = k]
        /\ UNCHANGED passed
     \/ /\ read[p] >= allowAt
        /\ stage' = [stage EXCEPT ![p] = "go"]
        /\ passed' = passed \cup {k}
        /\ UNCHANGED <<fire, slot>>
  /\ UNCHANGED clock

\* mutant: a cursor that fell behind the clock is not brought forward, and the
\* bucket saves the grants of an idle time up for a later burst
reserveSaving(p) == reserveAt(p, tat)

reserve(p) == reserveAt(p, Later(tat, read[p]))

\* wait: the timer fires.
TimerFires(p) ==
  /\ stage[p] = "waiting" /\ fire[p] <= clock
  /\ stage' = [stage EXCEPT ![p] = "go"]
  /\ passed' = passed \cup {slot[p]}
  /\ fire' = [fire EXCEPT ![p] = 0] /\ slot' = [slot EXCEPT ![p] = 0]
  /\ UNCHANGED <<clock, tat, read, grant>>

\* wait: the context is done first, ErrRateLimited.  The cursor stays advanced.
Abandon(p) ==
  /\ stage[p] = "waiting"
  /\ stage' = [stage EXCEPT ![p] = "idle"]
  /\ fire' = [fire EXCEPT ![p] = 0] /\ slot' = [slot EXCEPT ![p] = 0]
  /\ UNCHANGED <<clock, tat, read, grant, passed>>

\* The attempt that was let through goes on.
Proceed(p) ==
  /\ stage[p] = "go"
  /\ stage' = [stage EXCEPT ![p] = "idle"]
  /\ UNCHANGED <<clock, tat, read, fire, slot, grant, passed>>

Tick ==
  /\ clock < MaxTime
  /\ clock' = clock + 1
  /\ UNCHANGED <<tat, stage, read, fire, slot, grant, passed>>

LimiterNext ==
  \/ \E p \in Callers : ReadClock(p) \/ reserve(p) \/ TimerFires(p) \/ Abandon(p) \/ Proceed(p)
  \/ Tick

LimiterSpec == LimiterInit /\ [][LimiterNext]_limiterVars

\* Whatever the callers' order, delays and cancellations, reservations i to j
\* conform at times that spread over at least as many intervals as they exceed
\* one burst by (the bucket saves nothing up beyond the burst), and no caller
\* went on before the time of its reservation (reserve, wait).
RateBounded ==
  /\ \A j \in 1..Len(grant), i \in 1..Len(grant) :
       i <= j => (j - i + 1 - PerSec) * interval <= grant[j] - grant[i]
  /\ \A k \in passed : grant[k] <= clock
=============================================================================
