----------------------------- MODULE Subscription -----------------------------
(***************************************************************************)
(* consumer.go: the life of one consumer's broker subscription.  The        *)
(* Consume loop reads the current delivery stream and heals it when it      *)
(* closes; every basic.consume has a pump goroutine that feeds the loop;    *)
(* the reconnect hook re-subscribes behind the connection's barrier; Pause  *)
(* and Resume come from other goroutines and share pauseMu with the two     *)
(* places that open a subscription; the broker and the network act at any   *)
(* moment.  What a handler does with a delivery is in Dispatch.             *)
(***************************************************************************)
EXTENDS Integers, FiniteSets

CONSTANTS
  MaxEvents,    \* bound: things the broker, the network and the callers do
  MaxLosses,    \* bound: barriers after which the socket may be lost again
  MaxStreams    \* bound: basic.consume calls (never reached, see TypeOK)

ASSUME SubscriptionAssumption == {MaxEvents, MaxLosses} \subseteq Nat /\ MaxStreams \in Nat \ {0}

Streams == 1..MaxStreams
Barriers == 1..MaxEvents
None == 0

VARIABLES
  sock,          \* the TCP socket: "up" or "down"
  reconnecting,  \* mc.reconnecting
  degraded,      \* the last barrier's hooks failed
  barrier,       \* how many barriers have been started
  inBarrier,     \* the supervisor is waiting for the hooks
  hook,          \* barrier -> what its hook goroutine is doing
  hookSub,       \* barrier -> the stream its hook has opened
  hookCut,       \* barrier -> hookCtx is cancelled
  opened,        \* how many streams exist
  stream,        \* stream -> [chan, src, pump, buf]; a channel has the number
                 \* of the first stream on it
  chan,          \* channel -> [state, active, done, note, cut]
  gone,          \* the queue was deleted
  main,          \* the Consume loop's program counter
  held,          \* the stream openDeliveryCh is about to publish for the loop
  cur,           \* the stream the loop reads
  resub,         \* resubCh, a buffer of one stream
  cancelMsg,     \* cancelReasonCh holds a tag
  paused, live,  \* c.paused and the channel of c.live
  mu,            \* pauseMu: "free", or who holds it over a network call
  resumeSub,     \* the stream Resume has opened and not yet handed over
  ctxDone,       \* the Consume context is cancelled
  events         \* how much of MaxEvents is used

connVars == <<sock, reconnecting, degraded, barrier, inBarrier>>
hookVars == <<hook, hookSub, hookCut>>
wireVars == <<opened, stream, chan, gone>>
loopVars == <<main, held, cur>>
pauseVars == <<paused, live, mu, resumeSub>>
vars == <<connVars, hookVars, wireVars, loopVars, resub, cancelMsg, pauseVars,
          ctxDone, events>>

HookRunning == {"topology", "opening", "holding", "sending"}

\* opened never passes MaxStreams although no guard mentions the bound.
TypeOK ==
  /\ sock \in {"up", "down"} /\ mu \in {"free", "pause", "resume"}
  /\ {reconnecting, degraded, inBarrier, gone, cancelMsg, paused, ctxDone}
       \subseteq BOOLEAN
  /\ barrier \in 0..MaxEvents
  /\ hook \in [Barriers -> HookRunning \cup {"none", "done", "failed"}]
  /\ hookSub \in [Barriers -> Streams \cup {None}]
  /\ hookCut \in [Barriers -> BOOLEAN]
  /\ opened \in 0..MaxStreams
  /\ stream \in [Streams -> [chan : Streams \cup {None}, src : {"none", "open", "closed"},
                             pump : {"none", "running", "ended"},
                             buf : {"none", "lib", "out"}]]
  /\ chan \in [Streams -> [state : {"none", "open", "dead"}, active : BOOLEAN,
                           done : BOOLEAN, note : BOOLEAN, cut : BOOLEAN]]
  /\ main \in {"open", "hold", "loop", "parked", "heal", "reopen",
               "wait", "requeue", "cancelled", "stopped"}
  /\ {held, cur, resub, live, resumeSub} \subseteq Streams \cup {None}
  /\ events \in 0..MaxEvents

\* runConsume up to the first openDeliveryCh: the channels are made and the
\* reconnect hook is registered.
Init ==
  /\ sock = "up" /\ reconnecting = FALSE /\ degraded = FALSE /\ barrier = 0 /\ inBarrier = FALSE
  /\ hook = [b \in Barriers |-> "none"] /\ hookSub = [b \in Barriers |-> None]
  /\ hookCut = [b \in Barriers |-> FALSE]
  /\ opened = 0 /\ gone = FALSE
  /\ stream = [s \in Streams |-> [chan |-> None, src |-> "none", pump |-> "none", buf |-> "none"]]
  /\ chan = [c \in Streams |-> [state |-> "none", active |-> FALSE, done |-> FALSE,
                             note |-> FALSE, cut |-> FALSE]]
  /\ main = "open" /\ held = None /\ cur = None
  /\ resub = None /\ cancelMsg = FALSE
  /\ paused = FALSE /\ live = None /\ mu = "free" /\ resumeSub = None
  /\ ctxDone = FALSE /\ events = 0

\* Something from outside happens.
Event == events < MaxEvents /\ events' = events + 1

-----------------------------------------------------------------------------
(* The client library: channels and delivery streams.                       *)

\* The streams of the channels in C end; deliveries still queued inside the
\* library are dropped when the channel dies, flushed when it was cancelled.
EndStreams(C, drop) ==
  stream' = [s \in Streams |->
    IF stream[s].chan \in C
      THEN [stream[s] EXCEPT !.src = "closed",
                             !.buf = IF drop /\ @ = "lib" THEN "none" ELSE @]
      ELSE stream[s]]

\* The channels in C die, with their subscriptions.
Kill(C) ==
  /\ chan' = [c \in Streams |-> IF c \in C THEN [chan[c] EXCEPT !.state = "dead", !.active = FALSE]
                                           ELSE chan[c]]
  /\ EndStreams(C, TRUE)

OpenChannels == {c \in Streams : chan[c].state = "open"}

\* basic.cancel from this side on channel c, if it is still there.
LocalCancel(c) ==
  IF c \in OpenChannels
    THEN /\ chan' = [chan EXCEPT ![c].active = FALSE]
         /\ EndStreams({c}, FALSE)
    ELSE UNCHANGED <<chan, stream>>

\* basic.consume on channel c yields the next stream; the pump starts later.
Consumed(c, pump) ==
  /\ opened' = opened + 1
  /\ stream' = [stream EXCEPT ![opened + 1] =
                  [chan |-> c, src |-> "open", pump |-> pump, buf |-> "none"]]
  /\ chan' = [chan EXCEPT ![c].state = "open", ![c].active = TRUE]

\* The broker sends a message: to the open stream of an active subscription.
Deliver(s) ==
  /\ stream[s].src = "open" /\ stream[s].buf = "none"
  /\ chan[stream[s].chan].active
  /\ Event
  /\ stream' = [stream EXCEPT ![s].buf = "lib"]
  /\ UNCHANGED <<connVars, hookVars, opened, chan, gone, loopVars, resub, cancelMsg,
                 pauseVars, ctxDone>>

\* The queue is deleted, or an exclusive subscription revoked: the subscription
\* gets a basic.cancel, which is lost on a channel that openDeliveryCh has not
\* registered NotifyCancel on yet.
BrokerCancel ==
  /\ Event /\ ~gone
  /\ gone' \in BOOLEAN
  /\ LET C == {c \in Streams : chan[c].active}
     IN /\ C # {}
        /\ \E unheard \in SUBSET {c \in C : stream[c].pump = "none"} :
             chan' = [c \in Streams |->
               IF c \in C THEN [chan[c] EXCEPT !.active = FALSE, !.note = c \notin unheard,
                                                !.cut = TRUE]
                          ELSE chan[c]]
        /\ EndStreams(C, FALSE)
  /\ UNCHANGED <<connVars, hookVars, opened, loopVars, resub, cancelMsg, pauseVars,
                 ctxDone>>

\* The broker closes a channel (a bad ack, a 404) and leaves the socket alone.
ChannelDies(c) ==
  /\ Event /\ c \in OpenChannels
  /\ Kill({c})
  /\ UNCHANGED <<connVars, hookVars, opened, gone, loopVars, resub, cancelMsg,
                 pauseVars, ctxDone>>

-----------------------------------------------------------------------------
(* The connection (ManagedConn), as far as the consumer sees it.            *)

\* The socket is lost: all its channels die.
SocketLost ==
  /\ Event /\ sock = "up" /\ barrier < MaxLosses
  /\ sock' = "down"
  /\ Kill(OpenChannels)
  /\ UNCHANGED <<reconnecting, degraded, barrier, inBarrier, hookVars, opened, gone,
                 loopVars, resub, cancelMsg, pauseVars, ctxDone>>

\* The supervisor notices and raises the barrier.
RaiseBarrier ==
  /\ sock = "down" /\ ~reconnecting /\ ~inBarrier
  /\ reconnecting' = TRUE
  /\ UNCHANGED <<sock, degraded, barrier, inBarrier, hookVars, wireVars, loopVars, resub,
                 cancelMsg, pauseVars, ctxDone, events>>

\* The redial succeeds and the hooks are started.
Redial ==
  /\ sock = "down" /\ reconnecting /\ ~inBarrier
  /\ sock' = "up" /\ inBarrier' = TRUE
  /\ barrier' = barrier + 1
  /\ hook' = [hook EXCEPT ![barrier + 1] = "topology"]
  /\ UNCHANGED <<reconnecting, degraded, hookSub, hookCut, wireVars, loopVars, resub,
                 cancelMsg, pauseVars, ctxDone, events>>

\* The hooks have returned: the barrier falls, the outcome is recorded.
BarrierDone ==
  /\ inBarrier /\ hook[barrier] \in {"done", "failed"}
  /\ inBarrier' = FALSE /\ reconnecting' = FALSE
  /\ degraded' = (hook[barrier] = "failed")
  /\ UNCHANGED <<sock, barrier, hookVars, wireVars, loopVars, resub, cancelMsg, pauseVars,
                 ctxDone, events>>

\* The barrier's cap: the hooks are cancelled and the socket is closed, to be
\* redialled with the barrier still up.
BarrierCap ==
  /\ Event /\ inBarrier /\ hook[barrier] \in HookRunning
  /\ inBarrier' = FALSE /\ sock' = "down"
  /\ hookCut' = [hookCut EXCEPT ![barrier] = TRUE]
  /\ Kill(OpenChannels)
  /\ UNCHANGED <<reconnecting, degraded, barrier, hook, hookSub, opened, gone, loopVars,
                 resub, cancelMsg, pauseVars, ctxDone>>

-----------------------------------------------------------------------------
(* openDeliveryCh: channel.open, basic.qos and basic.consume, and then, in  *)
(* one critical section, the new channel becomes c.live and the pause is    *)
(* cleared.                                                                 *)

CanOpen == sock = "up" /\ ~gone

openDeliveryCh == CanOpen /\ Consumed(opened + 1, "none") /\ UNCHANGED gone

PublishLive(s) ==
  /\ mu = "free"
  /\ live' = s /\ paused' = FALSE
  /\ stream' = [stream EXCEPT ![s].pump = "running"]
  /\ UNCHANGED <<mu, resumeSub, opened, chan, gone>>

-----------------------------------------------------------------------------
(* The reconnect hook of barrier b.                                         *)

SetHook(b, pc) == hook' = [hook EXCEPT ![b] = pc]

HookUnchanged == UNCHANGED <<connVars, hookCut, loopVars, cancelMsg, ctxDone, events>>

\* The hooks registered earlier redeclare the topology, the first error ending
\* the list; then the jitter passes, unless hookCtx ends it.
HookStart(b) ==
  /\ hook[b] = "topology"
  /\ \/ SetHook(b, "opening")
     \/ SetHook(b, "failed")
  /\ UNCHANGED <<hookSub, wireVars, resub, pauseVars>>
  /\ HookUnchanged

\* openDeliveryCh under the consumer's context; its error fails the hook.
HookOpen(b) ==
  /\ hook[b] = "opening"
  /\ \/ /\ openDeliveryCh
        /\ SetHook(b, "holding")
        /\ hookSub' = [hookSub EXCEPT ![b] = opened + 1]
     \/ ~CanOpen /\ SetHook(b, "failed") /\ UNCHANGED <<wireVars, hookSub>>
  /\ UNCHANGED <<resub, pauseVars>>
  /\ HookUnchanged

HookPublish(b) ==
  /\ hook[b] = "holding"
  /\ PublishLive(hookSub[b])
  /\ SetHook(b, "sending")
  /\ UNCHANGED <<hookSub, resub>>
  /\ HookUnchanged

\* The stream goes to the loop, unless the buffer is full when hookCtx ends.
HookSend(b) ==
  /\ hook[b] = "sending"
  /\ \/ resub = None /\ resub' = hookSub[b] /\ SetHook(b, "done")
     \/ hookCut[b] /\ SetHook(b, "failed") /\ UNCHANGED resub
  /\ UNCHANGED <<hookSub, wireVars, pauseVars>>
  /\ HookUnchanged

-----------------------------------------------------------------------------
(* startPump: the goroutine behind stream s.                                *)

PumpUnchanged ==
  UNCHANGED <<connVars, hookVars, opened, gone, loopVars, resub, pauseVars, ctxDone,
              events>>

EndPump(s) == stream' = [stream EXCEPT ![s].pump = "ended"]

\* A delivery moves to the loop's buffer.
PumpForward(s) ==
  /\ stream[s].pump = "running" /\ stream[s].buf = "lib"
  /\ stream' = [stream EXCEPT ![s].buf = "out"]
  /\ UNCHANGED <<chan, cancelMsg>>
  /\ PumpUnchanged

\* The delivery stream is found closed.  A death signal, or the absence of a
\* pause, closes channelDone; a pending basic.cancel is forwarded.
PumpStreamEnd(s) ==
  /\ stream[s].pump = "running" /\ stream[s].src = "closed" /\ stream[s].buf # "lib"
  /\ LET c == stream[s].chan
         death == chan[c].state = "dead" \/ chan[c].note
     IN /\ chan' = [chan EXCEPT ![c].done = @ \/ death \/ ~paused, ![c].note = FALSE]
        /\ cancelMsg' = (cancelMsg \/ chan[c].note)
  /\ EndPump(s)
  /\ PumpUnchanged

\* The cancel notification is received first.
PumpCancel(s) ==
  /\ stream[s].pump = "running" /\ chan[stream[s].chan].note
  /\ chan' = [chan EXCEPT ![stream[s].chan].done = TRUE, ![stream[s].chan].note = FALSE]
  /\ cancelMsg' = TRUE
  /\ EndPump(s)
  /\ PumpUnchanged

\* The close notification is received first; nothing else is looked at.
PumpClose(s) ==
  /\ stream[s].pump = "running" /\ chan[stream[s].chan].state = "dead"
  /\ chan' = [chan EXCEPT ![stream[s].chan].done = TRUE]
  /\ EndPump(s)
  /\ UNCHANGED cancelMsg
  /\ PumpUnchanged

\* The consumer's context ends: channelDone stays open.
PumpStop(s) ==
  /\ stream[s].pump = "running" /\ ctxDone
  /\ EndPump(s)
  /\ UNCHANGED <<chan, cancelMsg>>
  /\ PumpUnchanged

-----------------------------------------------------------------------------
(* runConsume and recoverDeliveryChannel.                                   *)

LoopUnchanged == UNCHANGED <<connVars, hookVars, ctxDone, events>>

\* The first openDeliveryCh; its error is returned to the caller.
MainOpen ==
  /\ main = "open"
  /\ \/ openDeliveryCh /\ main' = "hold" /\ held' = opened + 1
     \/ ~CanOpen /\ main' = "stopped" /\ UNCHANGED <<wireVars, held>>
  /\ UNCHANGED <<cur, resub, cancelMsg, pauseVars>>
  /\ LoopUnchanged

\* openDeliveryCh returns: the loop reads the new stream.
MainPublish ==
  /\ main = "hold"
  /\ PublishLive(held)
  /\ cur' = held /\ held' = None /\ main' = "loop"
  /\ UNCHANGED <<resub, cancelMsg>>
  /\ LoopUnchanged

\* The places where the loop waits on its channels.
Selecting == {"loop", "parked", "heal", "wait"}

\* A replacement from the hook or from Resume.
TakeResub ==
  /\ main \in Selecting /\ resub # None
  /\ cur' = resub /\ resub' = None /\ main' = "loop"
  /\ UNCHANGED <<held, wireVars, cancelMsg, pauseVars>>
  /\ LoopUnchanged

\* handleBrokerCancel: the class of the cancel is looked up on a channel of its
\* own, and Consume returns ErrConsumerCancelled.
TakeCancel ==
  /\ main \in Selecting /\ cancelMsg
  /\ cancelMsg' = FALSE /\ main' = "cancelled"
  /\ UNCHANGED <<held, cur, wireVars, resub, pauseVars>>
  /\ LoopUnchanged

\* ctx.Done.  In the loop the live subscription is cancelled before what is
\* buffered is requeued; inside recoverDeliveryChannel the loop just returns.
TakeStop ==
  /\ main \in Selecting /\ ctxDone
  /\ IF main = "loop"
       THEN mu = "free" /\ main' = "requeue" /\ LocalCancel(live)
       ELSE main' = "stopped" /\ UNCHANGED <<chan, stream>>
  /\ UNCHANGED <<held, cur, opened, gone, resub, cancelMsg, pauseVars>>
  /\ LoopUnchanged

\* requeueUndispatched: what the current stream has buffered is nacked, with no
\* waiting for the pump.
Requeue ==
  /\ main = "requeue"
  /\ IF stream[cur].buf = "out"
       THEN stream' = [stream EXCEPT ![cur].buf = "none"] /\ UNCHANGED main
       ELSE main' = "stopped" /\ UNCHANGED stream
  /\ UNCHANGED <<held, cur, opened, chan, gone, resub, cancelMsg, pauseVars>>
  /\ LoopUnchanged

\* A delivery is handed to a handler.
TakeDelivery ==
  /\ main = "loop" /\ stream[cur].buf = "out"
  /\ stream' = [stream EXCEPT ![cur].buf = "none"]
  /\ UNCHANGED <<loopVars, opened, chan, gone, resub, cancelMsg, pauseVars>>
  /\ LoopUnchanged

Goto(from, to) ==
  /\ main = from /\ main' = to
  /\ UNCHANGED <<held, cur, wireVars, resub, cancelMsg, pauseVars>>
  /\ LoopUnchanged


\* The stream is closed and empty: recoverDeliveryChannel parks under a pause
\* and heals otherwise.  (The wait after a recent reopen is time spent in "heal".)
StreamClosed ==
  /\ main = "loop" /\ stream[cur].pump = "ended" /\ stream[cur].buf # "out"
  /\ Goto("loop", IF paused THEN "parked" ELSE "heal")


\* The default arm of the first select: reopen only on a stable socket and
\* with no pause.
HealCheck ==
  /\ main = "heal" /\ ~ctxDone /\ ~cancelMsg /\ resub = None
  /\ Goto("heal", IF ~reconnecting /\ ~paused THEN "reopen" ELSE "wait")

\* A direct reopen, or its error.
HealOpen ==
  /\ main = "reopen"
  /\ \/ openDeliveryCh /\ main' = "hold" /\ held' = opened + 1
     \/ ~CanOpen /\ main' = "wait" /\ UNCHANGED <<wireVars, held>>
  /\ UNCHANGED <<cur, resub, cancelMsg, pauseVars>>
  /\ LoopUnchanged

\* The backoff timer.
WaitAgain == Goto("wait", "heal")

\* The caller cancels the context of Consume.
Stop ==
  /\ Event /\ ~ctxDone
  /\ ctxDone' = TRUE
  /\ UNCHANGED <<connVars, hookVars, wireVars, loopVars, resub, cancelMsg, pauseVars>>

-----------------------------------------------------------------------------
(* Pause and Resume, which keep pauseMu over their network calls.           *)

PauseUnchanged ==
  UNCHANGED <<connVars, hookVars, gone, loopVars, cancelMsg, live, ctxDone>>

Pause ==
  /\ mu = "free" /\ ~paused /\ live # None
  /\ Event
  /\ paused' = TRUE /\ mu' = "pause"
  /\ UNCHANGED <<opened, stream, chan, resub, resumeSub>>
  /\ PauseUnchanged

\* basic.cancel returns, or fails because the channel is closed.
PauseCancel ==
  /\ mu = "pause" /\ mu' = "free"
  /\ LocalCancel(live)
  /\ paused' = (live \in OpenChannels)
  /\ UNCHANGED <<opened, resub, resumeSub, events>>
  /\ PauseUnchanged

\* resubscribeLocked: basic.consume on the live channel and a new pump on its
\* notifications.  On a closed channel nothing changes; a missing queue closes
\* the channel.
Resume ==
  /\ mu = "free" /\ paused /\ live \in OpenChannels
  /\ Event
  /\ IF gone
       THEN Kill({live}) /\ UNCHANGED <<opened, mu, resumeSub>>
       ELSE Consumed(live, "running") /\ mu' = "resume" /\ resumeSub' = opened + 1
  /\ UNCHANGED <<paused, resub>>
  /\ PauseUnchanged

\* The loop's buffer takes the stream.
ResumeHandoff ==
  /\ mu = "resume" /\ resub = None
  /\ resub' = resumeSub /\ resumeSub' = None
  /\ paused' = FALSE /\ mu' = "free"
  /\ UNCHANGED <<opened, stream, chan, events>>
  /\ PauseUnchanged

\* mutant: a cancelled Resume leaves its subscription behind
ResumeRollbackNone ==
  /\ mu = "resume"
  /\ mu' = "free" /\ resumeSub' = None
  /\ UNCHANGED <<paused, opened, stream, chan, resub, events>>
  /\ PauseUnchanged

\* The context given to Resume ends first: the subscription is cancelled again.
ResumeRollback ==
  /\ mu = "resume"
  /\ mu' = "free" /\ resumeSub' = None
  /\ LocalCancel(live)
  /\ UNCHANGED <<paused, opened, resub, events>>
  /\ PauseUnchanged

-----------------------------------------------------------------------------
PumpStep(s) == PumpForward(s) \/ PumpStreamEnd(s) \/ PumpCancel(s) \/ PumpClose(s) \/ PumpStop(s)

HookStep(b) == HookStart(b) \/ HookOpen(b) \/ HookPublish(b) \/ HookSend(b)

LoopStep ==
  \/ MainOpen \/ MainPublish
  \/ TakeResub \/ TakeCancel \/ TakeStop \/ Requeue \/ TakeDelivery
  \/ StreamClosed \/ HealCheck \/ HealOpen \/ WaitAgain

Faults == SocketLost \/ BrokerCancel \/ Stop

Barrier == RaiseBarrier \/ Redial \/ BarrierDone \/ \E b \in Barriers : HookStep(b)

Traffic == BarrierCap \/ \E s \in Streams : Deliver(s) \/ ChannelDies(s)

CallsEnd == PauseCancel \/ ResumeHandoff \/ ResumeRollback

\* Every goroutine of the library keeps running, network calls return, the
\* supervisor redials; a select that is ready again and again takes each of its
\* ready arms in the end.  Nothing obliges the broker, the network or the
\* callers of Pause, Resume and the contexts.
Fairness ==
  /\ WF_vars(RaiseBarrier) /\ WF_vars(Redial) /\ WF_vars(BarrierDone)
  /\ \A b \in Barriers : WF_vars(HookStep(b))
  /\ \A s \in Streams : WF_vars(PumpStep(s)) /\ WF_vars(PumpStop(s))
  /\ WF_vars(LoopStep)
  /\ SF_vars(TakeResub) /\ SF_vars(TakeCancel) /\ SF_vars(TakeStop)
  /\ WF_vars(PauseCancel) /\ WF_vars(ResumeHandoff)

-----------------------------------------------------------------------------
(* Properties.                                                              *)

\* Pause and Resume against openDeliveryCh: once the calls are over, a paused
\* consumer has no subscription on the channel Resume would use, so Resume never
\* issues a second basic.consume for a tag in use.
PausedMeansCancelled ==
  mu = "free" /\ paused => ~chan[live].active

\* The loop reads a stream whose subscription is in place.
Consuming == main = "loop" /\ cur # None /\ chan[stream[cur].chan].active


\* startPump: before a reconnect, and on a channel that has not been resumed,
\* channelDone, which cancels the contexts of the handlers in flight, is closed
\* only by the death of the channel or a basic.cancel; a Pause leaves it open.
PauseKeepsContexts ==
  barrier = 0 /\ ~ctxDone =>
    \A c \in Streams :
      chan[c].done /\ Cardinality({s \in Streams : stream[s].chan = c}) = 1
        => chan[c].state = "dead" \/ chan[c].cut

\* recoverDeliveryChannel and the reconnect hook: a consumer that did not park
\* for a pause, is not stopped and still has its queue gets its subscription
\* back, whichever of channel and socket died and in whatever order that was
\* noticed.
HealsUnlessParked ==
  []<>(Consuming \/ paused \/ gone \/ main \in {"parked", "cancelled", "stopped"})

\* Pause takes the subscription away and nothing else (Pause, Resume, startPump).
PauseSound == TypeOK /\ PausedMeansCancelled /\ PauseKeepsContexts

-----------------------------------------------------------------------------
(* What comments and documents say and the code does not always do.         *)

\* runConsume, at the closed delivery channel: without recovery "the consumer
\* would park here forever - a silent death (SRE-01).  We self-heal".  A consumer
\* whose Pause is over gets its subscription back.
SelfHeals ==
  []<>(Consuming \/ paused \/ gone \/ main = "stopped")

\* runConsume, at ctx.Done: basic.cancel is issued before Consume returns, so
\* the broker does not deliver to a "dying consumer's channel".  (No reconnect
\* and no Resume after the return.)
StoppedMeansCancelled ==
  main = "stopped" /\ barrier = 0 => \A c \in Streams : ~chan[c].active

\* The streams somebody will still read or has in hand.
Reachable ==
  {cur, held, resub, resumeSub} \cup {hookSub[b] : b \in {x \in Barriers : hook[x] \in HookRunning}}

\* Pause and Resume: a delivery on a channel that is alive is never left in a
\* stream the loop no longer reads, unacknowledged for as long as the channel
\* lives ("in-flight handlers and their acks on that channel are unaffected").
NoStrandedDelivery ==
  main # "stopped" /\ barrier = 0 =>
    \A s \in Streams :
      stream[s].buf # "none" /\ chan[stream[s].chan].state = "open" => s \in Reachable

\* startPump and handleBrokerCancel: "never silently die (SPEC 6.3)".
CancelSurfaces == gone ~> main = "stopped"

=============================================================================
