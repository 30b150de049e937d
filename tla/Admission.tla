------------------------------ MODULE Admission ------------------------------
(***************************************************************************)
(* publisher.go, Publish from the call to its return: encodeMsg, then for   *)
(* every attempt the rate limiter, selectPool, the reconnect barrier of the  *)
(* selected connection, a channel of its pool, the in-flight count that      *)
(* selectPool balances by and the outcome of the confirm, and last the       *)
(* retry decision.  What happens inside the pool and between a frame and its *)
(* confirm is left to PublisherPool and Publisher; here it has an outcome.   *)
(***************************************************************************)
EXTENDS RateLimiter, Message, RetryPolicy, FiniteSets

CONSTANTS
  Messages,     \* caller -> the messages it may publish
  Blank,        \* not a message
  Unsteady,     \* connections that are lost, blocked and redeclared
  CtxEnds,      \* caller -> how its context may end
  Policies,     \* retry policies, one of which the publisher has
  MaxAttempts   \* bound: retries of a call whose policy sets no limit

Conns == 1..2

VARIABLES
  limited,      \* WithPublishRateLimit is set
  policy,       \* the retry policy of the publisher; retries < 0 is none
  barrier,      \* connection -> "up" or "reconnecting"
  degraded,     \* connection -> the error of its last topology redeclare
  at,           \* caller -> how far its call is
  msg,          \* caller -> its message
  ctx,          \* caller -> "live", "Canceled" or "DeadlineExceeded"
  on,           \* caller -> the connection it selected, 0 for none
  err,          \* caller -> the error of the attempt
  attempt,      \* caller -> retries made
  delay,        \* caller -> the backoff it drew, 0 for none
  inflight      \* connection -> the in-flight count of its pool

setup == <<limited, policy>>
connVars == <<barrier, degraded>>
callVars == <<msg, on, err, attempt, delay>>
admissionVars == <<setup, connVars, at, ctx, callVars, inflight>>
frontVars == <<limiterVars, admissionVars>>

\* What runBarrier may leave in degradedErr.
RedeclareErrors ==
  {[wrapAMQPError(BrokerError(c)) EXCEPT !.is = {"ErrTopologyRedeclareFailed"}] : c \in {406, 504}}

Places == {"out", "limit", "select", "barrier", "acquire", "acquired", "counted",
           "leaving", "decide", "backoff"}

AdmissionTypeOK ==
  /\ LimiterTypeOK
  /\ limited \in BOOLEAN /\ policy \in Policies
  /\ barrier \in [Conns -> {"up", "reconnecting"}]
  /\ degraded \in [Conns -> {NoError} \cup RedeclareErrors]
  /\ at \in [Callers -> Places]
  /\ ctx \in [Callers -> {"live"} \cup UNION {CtxEnds[p] : p \in Callers}]
  /\ on \in [Callers -> {0} \cup Conns]
  /\ attempt \in [Callers -> Nat] /\ delay \in [Callers -> Nat]
  /\ inflight \in [Conns -> Int]

AdmissionInit ==
  /\ LimiterInit
  /\ limited \in BOOLEAN /\ policy \in Policies
  /\ barrier = [c \in Conns |-> "up"]
  /\ degraded = [c \in Conns |-> NoError]
  /\ at = [p \in Callers |-> "out"]
  /\ msg = [p \in Callers |-> Blank]
  /\ ctx = [p \in Callers |-> "live"]
  /\ on = [p \in Callers |-> 0]
  /\ err = [p \in Callers |-> NoError]
  /\ attempt = [p \in Callers |-> 0] /\ delay = [p \in Callers |-> 0]
  /\ inflight = [c \in Conns |-> 0]

To(p, l) == at' = [at EXCEPT ![p] = l]
Fail(p, e, l) == err' = [err EXCEPT ![p] = e] /\ To(p, l)
CtxErr(p) == IF ctx[p] = "live" THEN {} ELSE {ctx[p]}

\* Publish up to its loop: encodeMsg refuses the message, or the first attempt
\* begins.  A generated MessageID is fresh, or NewV7 fails.
Publish(p) == \E m0 \in Messages[p], id \in {"v7", ""} :
  LET m == withDefaults(m0, id)
      e == encodeErr(m)
  IN
  /\ at[p] = "out"
  /\ \/ e # {} /\ UNCHANGED <<at, msg>>
     \/ e = {} /\ To(p, "limit") /\ msg' = [msg EXCEPT ![p] = m]
  /\ UNCHANGED <<limiterVars, setup, connVars, ctx, on, err, attempt, delay, inflight>>

\* rateLimiter.wait; a nil limiter lets everything through.
Limit(p) ==
  /\ at[p] = "limit"
  /\ \/ /\ limited
        /\ ReadClock(p) \/ reserve(p) \/ TimerFires(p)
        /\ UNCHANGED at
     \/ limited /\ Proceed(p) /\ To(p, "select")
     \/ ~limited /\ To(p, "select") /\ UNCHANGED limiterVars
  /\ UNCHANGED <<setup, connVars, ctx, callVars, inflight>>

RateLimited(p) ==
  /\ at[p] = "limit" /\ ctx[p] # "live"
  /\ Abandon(p)
  /\ Fail(p, Sentinels({"ErrRateLimited"} \cup CtxErr(p)), "decide")
  /\ UNCHANGED <<setup, connVars, ctx, msg, on, attempt, delay, inflight>>

\* selectPool: the lowest count, and of those the first.
selectPool == CHOOSE c \in Conns : \A d \in Conns :
                inflight[c] < inflight[d] \/ (inflight[c] = inflight[d] /\ c <= d)

Select(p) ==
  /\ at[p] = "select"
  /\ on' = [on EXCEPT ![p] = selectPool]
  /\ To(p, "barrier")
  /\ UNCHANGED <<limiterVars, setup, connVars, ctx, msg, err, attempt, delay, inflight>>

\* waitBarrier of the connection selected: it waits out a reconnect for as long
\* as the context lives and the cap allows, and fails on a degraded topology.
\* (Flow control, which also holds it up, is in ManagedConn.)
Barrier(p) ==
  LET c == on[p] IN
  /\ at[p] = "barrier"
  /\ \/ /\ barrier[c] = "up" /\ degraded[c] = NoError
        /\ To(p, "acquire") /\ UNCHANGED err
     \/ /\ barrier[c] = "up" /\ degraded[c] # NoError
        /\ Fail(p, degraded[c], "decide")
     \/ /\ barrier[c] = "reconnecting"
        /\ Fail(p, Sentinels({"ErrReconnecting"} \cup CtxErr(p)), "decide")
  /\ UNCHANGED <<limiterVars, setup, connVars, ctx, msg, on, attempt, delay, inflight>>

\* mutant: the call is counted before it has a channel, and not uncounted when
\* it gets none
AcquireCounted(p) ==
  /\ at[p] = "acquire"
  /\ inflight' = [inflight EXCEPT ![on[p]] = @ + 1]
  /\ \/ To(p, "counted") /\ UNCHANGED err
     \/ Fail(p, wrapAMQPError(BrokerError(504)), "decide")
  /\ UNCHANGED <<limiterVars, setup, connVars, ctx, msg, on, attempt, delay>>

\* acquire gives a channel, or fails: the context ends in the queue, or no
\* channel can be opened.
Acquire(p) ==
  /\ at[p] = "acquire"
  /\ \/ To(p, "acquired") /\ UNCHANGED err
     \/ /\ ctx[p] # "live"
        /\ Fail(p, Sentinels({"ErrChannelPoolExhausted"} \cup CtxErr(p)), "decide")
     \/ Fail(p, wrapAMQPError(BrokerError(504)), "decide")
  /\ UNCHANGED <<limiterVars, setup, connVars, ctx, msg, on, attempt, delay, inflight>>

Count(p) ==
  /\ at[p] = "acquired"
  /\ inflight' = [inflight EXCEPT ![on[p]] = @ + 1]
  /\ To(p, "counted")
  /\ UNCHANGED <<limiterVars, setup, connVars, ctx, callVars>>

\* The frame is sent and its confirm awaited, as Publisher models: success, a
\* verdict of the broker (a nack here also stands for a dead channel and for a
\* confirm timeout, which are classified alike), or the end of the context.
Outcomes(p) ==
  {NoError, wrapAMQPError(BrokerError(406)), Sentinels({"ErrPublishNacked"}),
   Sentinels({"ErrUnroutable"}), Sentinels(CtxErr(p))}

Confirm(p) ==
  /\ at[p] = "counted"
  /\ \E e \in Outcomes(p) : Fail(p, e, "leaving")
  /\ UNCHANGED <<limiterVars, setup, connVars, ctx, msg, on, attempt, delay, inflight>>

\* The deferred function of publishOnce.
Leaving(p) ==
  /\ at[p] = "leaving"
  /\ inflight' = [inflight EXCEPT ![on[p]] = @ - 1]
  /\ To(p, "decide")
  /\ UNCHANGED <<limiterVars, setup, connVars, ctx, callVars>>

\* The end of the loop's body: return, or draw a backoff.
MayRetry(p) ==
  /\ policy.retries >= 0 /\ IsTransient(err[p])
  /\ policy.retries > 0 => attempt[p] < policy.retries
  /\ ctx[p] = "live"

ReturnErr(p) ==
  /\ To(p, "out")
  /\ msg' = [msg EXCEPT ![p] = Blank] /\ ctx' = [ctx EXCEPT ![p] = "live"]
  /\ attempt' = [attempt EXCEPT ![p] = 0] /\ delay' = [delay EXCEPT ![p] = 0]

Decide(p) ==
  /\ at[p] = "decide"
  /\ \/ ~MayRetry(p) /\ ReturnErr(p)
     \/ /\ MayRetry(p) /\ attempt[p] < MaxAttempts
        /\ attempt' = [attempt EXCEPT ![p] = @ + 1]
        /\ \E d \in NextBackoff(policy, attempt[p] + 1) : delay' = [delay EXCEPT ![p] = d]
        /\ To(p, "backoff") /\ UNCHANGED <<msg, ctx>>
  /\ on' = [on EXCEPT ![p] = 0] /\ err' = [err EXCEPT ![p] = NoError]
  /\ UNCHANGED <<limiterVars, setup, connVars, inflight>>

Backoff(p) ==
  /\ at[p] = "backoff"
  /\ \/ /\ To(p, "limit") /\ delay' = [delay EXCEPT ![p] = 0]
        /\ UNCHANGED <<msg, ctx, attempt>>
     \/ ctx[p] # "live" /\ ReturnErr(p)
  /\ UNCHANGED <<limiterVars, setup, connVars, on, err, inflight>>

\* The caller's context ends, or the publish timeout passes.
CtxDone(p) ==
  /\ at[p] # "out" /\ ctx[p] = "live"
  /\ \E e \in CtxEnds[p] : ctx' = [ctx EXCEPT ![p] = e]
  /\ UNCHANGED <<limiterVars, setup, connVars, at, callVars, inflight>>

\* The supervisor of a connection: the socket is lost, and a reconnect ends with
\* the topology redeclared or not.
ConnStep(c) ==
  /\ \/ /\ barrier[c] = "up"
        /\ barrier' = [barrier EXCEPT ![c] = "reconnecting"]
        /\ UNCHANGED degraded
     \/ /\ barrier[c] = "reconnecting"
        /\ barrier' = [barrier EXCEPT ![c] = "up"]
        /\ \E e \in {NoError} \cup RedeclareErrors : degraded' = [degraded EXCEPT ![c] = e]
  /\ UNCHANGED <<limiterVars, setup, at, ctx, callVars, inflight>>

Continue(p) ==
  \/ Limit(p) \/ RateLimited(p) \/ Select(p) \/ Barrier(p) \/ Acquire(p) \/ Count(p)
  \/ Confirm(p) \/ Leaving(p) \/ Decide(p) \/ Backoff(p)

\* A bound: connections are lost only where no rate limit is set.
AdmissionNext ==
  \/ \E p \in Callers : Publish(p) \/ Continue(p) \/ CtxDone(p)
  \/ ~limited /\ \E c \in Unsteady : ConnStep(c)
  \/ limited /\ Tick /\ UNCHANGED admissionVars

\* Goroutines run, timers fire, and contexts end (PublishTimeout).
AdmissionFairness(p) ==
  WF_frontVars(Continue(p)) /\ WF_frontVars(CtxDone(p))

-----------------------------------------------------------------------------
(* Properties.                                                              *)

\* The count that selectPool balances by is the number of attempts that hold a
\* channel of that connection, whichever way acquire and the confirm end.
LoadCounted ==
  \A c \in Conns :
    inflight[c] = Cardinality({p \in Callers : on[p] = c /\ at[p] \in {"counted", "leaving"}})

\* Typed state and a true load count (publishOnce).
AdmissionSound == AdmissionTypeOK /\ LoadCounted

\* What Publish sends says what its caller asked for (encodeMsg, buildPublishing).
WireFaithful ==
  \A p \in Callers : at[p] = "counted" => SaysWhatWasAsked(buildPublishing(encodeMsg(msg[p])), msg[p])


\* Every Publish returns once its context has ended, wherever it waits: at the
\* limiter, at a barrier, for a channel, for a confirm or in a backoff.
PublishReturns(p) ==
  at[p] = "limit" ~> at[p] = "out" \/ Len(grant) >= MaxGrants
=============================================================================
