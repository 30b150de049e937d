---------------------------- MODULE ConsumerLife -----------------------------
(***************************************************************************)
(* consumer.go: a Consumer from the start of Consume to its return.  Around *)
(* the subscription loop of Subscription run the queue-depth sampler, a     *)
(* goroutine of its own that every return path joins before it drops the    *)
(* sampler's gauges; Close, which makes Pause and Resume refuse; and the    *)
(* state Health reports.                                                    *)
(***************************************************************************)
EXTENDS Subscription

CONSTANTS
  depthSampleInterval,      \* 0: no sampler
  minDepthSampleInterval, maxDepthSampleBackoff,
  hasDLQ,                   \* "<queue>.dlq" exists
  MaxSamples                \* bound: samples the sampler takes

ASSUME LifeAssumption ==
  /\ {depthSampleInterval, minDepthSampleInterval, maxDepthSampleBackoff, MaxSamples} \subseteq Nat
  /\ minDepthSampleInterval > 0 /\ hasDLQ \in BOOLEAN

VARIABLES
  sampling,  \* this consumer has a sampler (and, to keep the two apart, no traffic)
  sampler,   \* "off", "start", "queue", "dlq", "waiting", "ended"
  emitted,   \* the sample under way has set a gauge
  failures,  \* consecutive samples that reached nothing
  samples,   \* how much of MaxSamples is used
  gauges,    \* the series the metrics sink holds
  class,     \* the reason recorded on consumer_cancelled_total
  closed,    \* closedCh is closed
  stopped    \* c.stopped: Consume has returned

samplerVars == <<sampler, emitted, failures, samples>>
lifeVars == <<vars, sampling, samplerVars, gauges, class, closed, stopped>>

LifeTypeOK ==
  /\ {sampling, emitted, closed, stopped} \subseteq BOOLEAN
  /\ sampler \in {"off", "start", "queue", "dlq", "waiting", "ended"}
  /\ failures \in 0..MaxSamples /\ samples \in 0..MaxSamples
  /\ gauges \subseteq {"queue", "dlq"}
  /\ class \in {"none", "queue_deleted", "exclusive_revoked", "unknown"}

LifeInit ==
  /\ Init
  /\ sampling \in {FALSE, depthSampleInterval > 0}
  /\ sampler = (IF sampling THEN "start" ELSE "off")
  /\ emitted = FALSE /\ failures = 0 /\ samples = 0 /\ gauges = {}
  /\ class = "none" /\ closed = FALSE /\ stopped = FALSE

-----------------------------------------------------------------------------
(* runDepthSampler.                                                         *)

\* The context of the sampler: Consume's, cancelled on every return path.
samplerCtxDone == ctxDone \/ main = "stopped"

LifeUnchanged == UNCHANGED <<vars, sampling, class, closed, stopped>>

\* A context that is already done skips even the priming sample.
SamplerStart ==
  /\ sampler = "start"
  /\ sampler' = IF samplerCtxDone THEN "ended" ELSE "queue"
  /\ UNCHANGED <<emitted, failures, samples, gauges>>
  /\ LifeUnchanged

\* sampleQueueDepth: a channel of its own and a passive declare, which the broker
\* may refuse and which needs the socket and the queue.
sampleQueueDepth(exists, gauge) ==
  \E ok \in BOOLEAN :
    /\ ok => sock = "up" /\ exists
    /\ gauges' = IF ok THEN gauges \cup {gauge} ELSE gauges
    /\ emitted' = (emitted \/ ok)

SampleQueue ==
  /\ sampler = "queue"
  /\ sampleQueueDepth(~gone, "queue")
  /\ sampler' = "dlq"
  /\ UNCHANGED <<failures, samples>>
  /\ LifeUnchanged

\* The second probe ends the sample: a sample that set a gauge ends the backoff.
SampleDLQ ==
  /\ sampler = "dlq"
  /\ \E ok \in BOOLEAN :
       /\ ok => sock = "up" /\ hasDLQ
       /\ gauges' = IF ok THEN gauges \cup {"dlq"} ELSE gauges
       /\ failures' = IF emitted \/ ok THEN 0 ELSE failures + 1
  /\ emitted' = FALSE
  /\ samples' = samples + 1
  /\ sampler' = "waiting"
  /\ LifeUnchanged

\* The timer, or the context.
SamplerTick ==
  /\ sampler = "waiting" /\ samples < MaxSamples
  /\ sampler' = "queue"
  /\ UNCHANGED <<emitted, failures, samples, gauges>>
  /\ LifeUnchanged

SamplerStop ==
  /\ sampler = "waiting" /\ samplerCtxDone
  /\ sampler' = "ended"
  /\ UNCHANGED <<emitted, failures, samples, gauges>>
  /\ LifeUnchanged

Least(a, b) == IF a < b THEN a ELSE b
Most(a, b) == IF a < b THEN b ELSE a

base == Most(depthSampleInterval, minDepthSampleInterval)

\* Twice as long after every sample that reached nothing, up to the ceiling.
depthSampleDelay(n) ==
  LET ceiling == Most(base, maxDepthSampleBackoff)
      doubled[i \in 0..n] ==
        IF i = 0 THEN base
        ELSE IF doubled[i - 1] < ceiling THEN 2 * doubled[i - 1] ELSE doubled[i - 1]
  IN IF n = 0 THEN base ELSE Least(doubled[n], ceiling)

-----------------------------------------------------------------------------
(* The returns of Consume, and the calls around it.                         *)

\* classifyCancel: a passive declare on a fresh channel, unless nobody would look
\* at the answer; a probe that fails with anything but 404 tells nothing.
Classify ==
  /\ main = "cancelled"
  /\ main' = "stopped"
  /\ \/ class' = "unknown"
     \/ sock = "up" /\ class' = IF gone THEN "queue_deleted" ELSE "exclusive_revoked"
  /\ UNCHANGED <<connVars, hookVars, wireVars, held, cur, resub, cancelMsg, pauseVars,
                 ctxDone, events, sampling, samplerVars, gauges, closed, stopped>>

\* mutant: the gauges are dropped without waiting for the sampler
ConsumeReturnsUnjoined ==
  /\ main = "stopped" /\ ~stopped
  /\ gauges' = {} /\ stopped' = TRUE
  /\ UNCHANGED <<vars, sampling, samplerVars, class, closed>>

\* The deferred calls of runConsume: the sampler is cancelled and joined, its
\* series are deleted, and the consumer is marked stopped.
ConsumeReturns ==
  /\ main = "stopped" /\ ~stopped
  /\ sampler \in {"off", "ended"}
  /\ gauges' = {} /\ stopped' = TRUE
  /\ UNCHANGED <<vars, sampling, samplerVars, class, closed>>

\* Close only closes closedCh, which Pause and Resume look at.
Close ==
  /\ ~closed /\ Event
  /\ closed' = TRUE
  /\ UNCHANGED <<connVars, hookVars, wireVars, loopVars, resub, cancelMsg, pauseVars, ctxDone,
                 sampling, samplerVars, gauges, class, stopped>>

\* snapshot: what Health reports of a consumer whose connection is healthy.
Active == ~stopped /\ ~closed /\ ~paused

-----------------------------------------------------------------------------
SamplerStep == SamplerStart \/ SampleQueue \/ SampleDLQ \/ SamplerStop

SubscriptionStep ==
  /\ \/ Faults \/ Barrier \/ LoopStep \/ CallsEnd
     \/ \E s \in Streams : PumpStep(s)
     \/ ~sampling /\ Traffic
     \/ ~sampling /\ ~closed /\ (Pause \/ Resume)
  /\ UNCHANGED <<sampling, samplerVars, gauges, class, closed, stopped>>

LifeNext ==
  \/ SubscriptionStep
  \/ SamplerStep \/ SamplerTick
  \/ Classify \/ ConsumeReturns
  \/ ~sampling /\ Close

\* In addition to the subscription's own fairness, the sampler's probes return
\* and it sees its context end; its timer need not fire.
LifeSpec ==
  /\ LifeInit /\ [][LifeNext]_lifeVars
  /\ Fairness
  /\ WF_lifeVars(SamplerStep) /\ WF_lifeVars(Classify) /\ WF_lifeVars(ConsumeReturns)

-----------------------------------------------------------------------------
(* Properties.                                                              *)

\* Every way out of Consume (context, basic.cancel, a failed first subscribe)
\* ends the sampler before its gauges are dropped, so that none comes back; a
\* consumer that has returned never reports Active.
ReturnLeavesNothing ==
  /\ LifeTypeOK
  /\ stopped => sampler \in {"off", "ended"} /\ gauges = {} /\ ~Active
  /\ class = "queue_deleted" => gone

\* depthSampleDelay: the pause between samples is never shorter than the
\* configured interval, nor longer than the larger of that and the cap, and does
\* not shrink as failures go on.
SamplerPaced ==
  /\ depthSampleDelay(failures) \in base..Most(base, maxDepthSampleBackoff)
  /\ failures > 0 => depthSampleDelay(failures) >= depthSampleDelay(failures - 1)

\* What outlives a consumer, and how often it may probe (runConsume,
\* runDepthSampler).
SamplerSound == ReturnLeavesNothing /\ SamplerPaced

\* runConsume: cancelling the context ends Consume, sampler included.
StopReturns == ctxDone ~> stopped


-----------------------------------------------------------------------------
(* A statement of the repository that the code does not keep.               *)

\* ConsumerHealth: "a probe wired to Active will not keep a silently-dead consumer
\* in rotation".
ActiveMeansConsuming == []<>(~Active \/ Consuming)
=============================================================================
