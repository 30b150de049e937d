---------------------------- MODULE BatchConsumer ----------------------------
(***************************************************************************)
(* BatchConsumer (batch_consumer.go): one loop collects deliveries and, at *)
(* Size messages or when the flush timer fires, hands them to the handler  *)
(* and waits for it.  A batch is settled by one frame with multiple=true   *)
(* on its highest tag, unless the handler has settled something itself.    *)
(* After a reconnect a hook subscribes again under the context of the      *)
(* reconnect barrier and passes the new stream to the loop.                *)
(*                                                                         *)
(* Deliveries are numbered; messages that are dropped do not come back, so *)
(* counter A never fires.                                                  *)
(***************************************************************************)
EXTENDS Integers, Sequences, FiniteSets, FiniteSetsExt

CONSTANTS Msgs,             \* messages of the queue, each with an id of its own
          defaultSize, defaultPrefetch, MaxUint16,  \* 100, 64 and 65535
          MaxRedeliveries,  \* the limit of counter B
          Setups,           \* consumer configurations and handler styles
          MaxDeliveries,    \* bound: deliveries in a behaviour
          MaxChannels,      \* bound: channels opened
          MaxEvents         \* bound: lost sockets, dead channels, cancels, Close and Stop

ASSUME BatchAssumption ==
  /\ {defaultSize, defaultPrefetch, MaxUint16} \subseteq Nat \ {0} /\ MaxRedeliveries \in Nat \ {0}
  /\ MaxDeliveries \in Nat /\ MaxEvents \in Nat /\ MaxChannels \in Nat \ {0}
  /\ Setups \subseteq [timeout: {"none", "drop", "requeue"},
                       manual: {"none", "batch", "each"}, timer: BOOLEAN,
                       size: Nat, prefetch: 0 .. MaxUint16]

VARIABLES
  opt,        \* HandlerTimeout verdict, how the handler settles, FlushAfter set,
              \* Size and Prefetch
  del,        \* deliveries so far: <<[msg, chan], ...>>
  unacked,    \* broker: deliveries of the live channel it waits a verdict for
  acked,      \* broker: messages acknowledged
  dead,       \* broker: messages dropped
  refused,    \* broker: a frame named a delivery already settled (406)
  gone,       \* broker: the queue is deleted
  requeued,   \* history: requeue verdicts for each message
  succeeded,  \* history: messages whose handler returned nil or acked them
  link,       \* the socket: "up", "lost", "barrier"
  hook,       \* the reconnect hook: "idle", "opening", "sending", "done"
  chan,       \* newest channel, which is that of counterState
  up,         \* it is open
  pumps,      \* channels whose pump still runs
  cut,        \* channels whose pump has had its context cancelled
  stream,     \* deliveries queued for the loop
  resub,      \* the channel in resubCh, or 0
  cancelMsg,  \* a reason in cancelReasonCh
  loop,       \* Consume: "select", "wait", "flush", "stopped"
  cur,        \* the channel whose stream the loop reads
  pending,    \* collected deliveries
  timer,      \* the flush timer is armed
  batch,      \* deliveries of the batch at the handler
  settled,    \* Batch.acked
  resolved,   \* deliveries of the batch whose resolved flag is set
  handler,    \* handler goroutine: "none", "run", "notify", "done"
  err,        \* what it returned
  at,         \* flush: "wait", the timeout verdict it is about to send, "drain"
  last,       \* this flush is the one of a cancelled context
  counter,    \* counter B of the newest channel
  events, closed, ctxDone

brokerVars == <<del, unacked, acked, dead, refused, gone, requeued>>
linkVars == <<link, hook, chan, up, pumps, cut>>
relayVars == <<stream, resub, cancelMsg>>
loopVars == <<loop, cur, pending, timer>>
batchVars == <<batch, settled, resolved, handler, err, at, last>>
lifeVars == <<events, closed, ctxDone>>
vars == <<opt, brokerVars, succeeded, linkVars, relayVars, loopVars, batchVars, counter, lifeVars>>

-----------------------------------------------------------------------------
(* Build                                                                   *)

uint16(n) == n % (MaxUint16 + 1)

applyDefaults(b) ==
  LET size == IF b.size = 0 THEN defaultSize ELSE b.size
  IN  [b EXCEPT !.size = size,
                !.prefetch = IF @ # 0 THEN @
                             ELSE IF size > defaultPrefetch THEN uint16(size) ELSE defaultPrefetch]

\* mutant: the prefetch is not compared with the size
BuildsUnchecked(b) == b.size <= MaxUint16

(* The configurations Build accepts, defaults applied.                     *)
Builds(b) == b.size <= MaxUint16 /\ b.prefetch >= b.size

Built == {b \in {applyDefaults(o) : o \in Setups} : Builds(b)}

Init ==
  /\ opt \in Built
  /\ del = << >> /\ unacked = {} /\ acked = {} /\ dead = {} /\ refused = FALSE /\ gone = FALSE
  /\ requeued = [m \in Msgs |-> 0] /\ succeeded = {}
  /\ link = "up" /\ hook = "idle" /\ chan = 1 /\ up = TRUE
  /\ pumps = {1} /\ cut = {}
  /\ stream = {} /\ resub = 0 /\ cancelMsg = FALSE
  /\ loop = "select" /\ cur = 1 /\ pending = {} /\ timer = FALSE
  /\ batch = {} /\ settled = FALSE /\ resolved = {} /\ handler = "none" /\ err = "nil"
  /\ at = "wait" /\ last = FALSE
  /\ counter = [m \in Msgs |-> 0]
  /\ events = 0 /\ closed = FALSE /\ ctxDone = FALSE

MsgsOf(ds) == {del[d].msg : d \in ds}
Alive(d) == up /\ del[d].chan = chan

-----------------------------------------------------------------------------
(* The broker                                                              *)

(* A delivery, within the prefetch of the channel; a pump that runs        *)
(* forwards it to the loop's stream.                                       *)
Deliver(m) ==
  /\ up /\ ~gone /\ Len(del) < MaxDeliveries /\ Cardinality(unacked) < opt.prefetch
  /\ m \notin acked \cup dead \cup MsgsOf(unacked)
  /\ del' = Append(del, [msg |-> m, chan |-> chan])
  /\ unacked' = unacked \cup {Len(del')}
  /\ stream' = IF chan \in pumps THEN stream \cup {Len(del')} ELSE stream
  /\ UNCHANGED <<opt, acked, dead, refused, gone, requeued, succeeded, linkVars, resub,
                 cancelMsg, loopVars, batchVars, counter, lifeVars>>

(* The verdict on the deliveries ds of the live channel; first is the tag  *)
(* the frame names.                                                        *)
Frame(first, ds, verdict) ==
  LET hit == IF first \in unacked THEN ds \cap unacked ELSE {} IN
  /\ unacked' = unacked \ hit
  /\ refused' = (refused \/ (Alive(first) /\ first \notin unacked))
  /\ acked' = IF verdict = "ack" THEN acked \cup MsgsOf(hit) ELSE acked
  /\ dead' = IF verdict = "drop" THEN dead \cup MsgsOf(hit) ELSE dead
  /\ requeued' = [m \in Msgs |-> requeued[m] +
                    (IF verdict = "requeue" /\ m \in MsgsOf(hit) THEN 1 ELSE 0)]
  /\ UNCHANGED <<del, gone>>

Event == events < MaxEvents /\ events' = events + 1

(* The queue is deleted: a running pump relays the basic.cancel.  The      *)
(* channel still accepts verdicts for what it has delivered.               *)
BrokerCancel ==
  /\ up /\ ~gone /\ Event
  /\ gone' = TRUE
  /\ IF chan \in pumps THEN cancelMsg' = TRUE /\ pumps' = pumps \ {chan}
     ELSE UNCHANGED <<cancelMsg, pumps>>
  /\ UNCHANGED <<opt, del, unacked, acked, dead, refused, requeued, succeeded, link,
                 hook, chan, up, cut, stream, resub, loopVars, batchVars, counter, closed, ctxDone>>

(* The channel dies alone, or with its socket; its pump ends.              *)
ChannelDies ==
  /\ up /\ Event
  /\ up' = FALSE /\ unacked' = {} /\ pumps' = pumps \ {chan}
  /\ UNCHANGED <<opt, del, acked, dead, refused, gone, requeued, succeeded, link,
                 hook, chan, cut, relayVars, loopVars, batchVars, counter, closed, ctxDone>>

SocketLost ==
  /\ link = "up" /\ chan < MaxChannels /\ Event
  /\ link' = "lost"
  /\ up' = FALSE /\ unacked' = {} /\ pumps' = pumps \ {chan}
  /\ UNCHANGED <<opt, del, acked, dead, refused, gone, requeued, succeeded, hook, chan, cut,
                 relayVars, loopVars, batchVars, counter, closed, ctxDone>>

-----------------------------------------------------------------------------
(* Reconnect barrier and hook                                              *)

hookUnchanged == <<opt, brokerVars, succeeded, loopVars, batchVars, lifeVars>>

Redial ==
  /\ link = "lost"
  /\ link' = "barrier" /\ hook' = "opening"
  /\ UNCHANGED <<hookUnchanged, chan, up, pumps, cut, relayVars, counter>>

(* openBatchDeliveryCh(hookCtx): fresh counter, channel, subscription, and *)
(* a pump bound to the hook's context.  It fails if the queue is gone.     *)
HookOpen ==
  /\ hook = "opening"
  /\ counter' = [m \in Msgs |-> 0]
  /\ IF gone THEN hook' = "done" /\ UNCHANGED <<chan, up, pumps>>
     ELSE hook' = "sending" /\ chan' = chan + 1 /\ up' = TRUE /\ pumps' = pumps \cup {chan + 1}
  /\ UNCHANGED <<hookUnchanged, link, cut, relayVars>>

HookSend ==
  /\ hook = "sending" /\ resub = 0
  /\ resub' = chan /\ hook' = "done"
  /\ UNCHANGED <<hookUnchanged, link, chan, up, pumps, cut, stream, cancelMsg, counter>>

(* runBarrier returns and cancels the context it gave to the hooks.        *)
BarrierDone ==
  /\ link = "barrier" /\ hook = "done"
  /\ link' = "up" /\ hook' = "idle"
  /\ cut' = cut \cup {chan}
  /\ UNCHANGED <<hookUnchanged, chan, up, pumps, relayVars, counter>>

(* The barrier exceeds its cap while the hook runs: the hook is given up   *)
(* and the socket closed, to be dialled again.                             *)
BarrierCap ==
  /\ link = "barrier" /\ hook # "done" /\ chan < MaxChannels
  /\ link' = "lost" /\ hook' = "idle"
  /\ up' = FALSE /\ unacked' = {} /\ cut' = cut \cup {chan} /\ pumps' = pumps \ {chan}
  /\ UNCHANGED <<opt, del, acked, dead, refused, gone, requeued, succeeded, chan, relayVars,
                 loopVars, batchVars, counter, lifeVars>>

(* A pump whose context is done closes the stream; the first one runs      *)
(* under the context of Consume.                                           *)
PumpStop(c) ==
  /\ c \in pumps
  /\ (c > 1 /\ c \in cut) \/ (c = 1 /\ ctxDone)
  /\ pumps' = pumps \ {c}
  /\ UNCHANGED <<hookUnchanged, link, hook, chan, up, cut, relayVars, counter>>

-----------------------------------------------------------------------------
(* The loop                                                                *)

loopUnchanged == <<opt, succeeded, linkVars, counter, lifeVars>>

Queued == {d \in stream : del[d].chan = cur}

Flush(ds, final) ==
  /\ loop' = "flush" /\ batch' = ds /\ pending' = {} /\ timer' = FALSE /\ last' = final
  /\ settled' = FALSE /\ resolved' = {} /\ handler' = "run" /\ err' = "nil" /\ at' = "wait"

\* mutant: the flush timer is armed only by the first message ever
TakeNoTimer ==
  LET d == Min(Queued) IN
  /\ loop = "select" /\ Queued # {}
  /\ stream' = stream \ {d}
  /\ IF Cardinality(pending) + 1 >= opt.size THEN Flush(pending \cup {d}, FALSE)
     ELSE /\ pending' = pending \cup {d} /\ timer' = (timer \/ (opt.timer /\ d = 1))
          /\ UNCHANGED <<loop, batchVars>>
  /\ UNCHANGED <<loopUnchanged, brokerVars, resub, cancelMsg, cur>>

(* Collect a delivery; a full batch is flushed at once.                    *)
Take ==
  LET d == Min(Queued) IN
  /\ loop = "select" /\ Queued # {}
  /\ stream' = stream \ {d}
  /\ IF Cardinality(pending) + 1 >= opt.size THEN Flush(pending \cup {d}, FALSE)
     ELSE /\ pending' = pending \cup {d} /\ timer' = opt.timer
          /\ UNCHANGED <<loop, batchVars>>
  /\ UNCHANGED <<loopUnchanged, brokerVars, resub, cancelMsg, cur>>

(* A body that does not decode is dropped on its own, and so is a message  *)
(* that counter A finds dead-lettered too often.                           *)
TakeInvalid ==
  LET d == Min(Queued) IN
  /\ loop = "select" /\ Queued # {}
  /\ stream' = stream \ {d}
  /\ Frame(d, {d}, "drop")
  /\ UNCHANGED <<loopUnchanged, resub, cancelMsg, loopVars, batchVars>>

FlushTimer ==
  /\ loop = "select" /\ timer
  /\ Flush(pending, FALSE)
  /\ UNCHANGED <<loopUnchanged, brokerVars, relayVars, cur>>

Discard == pending' = {} /\ timer' = FALSE

\* mutant: what was collected on the old channel is kept
TakeResubKeep ==
  /\ loop \in {"select", "wait"} /\ resub # 0
  /\ cur' = resub /\ resub' = 0 /\ loop' = "select"
  /\ UNCHANGED <<loopUnchanged, brokerVars, stream, cancelMsg, batchVars, pending, timer>>

(* Adopt the new stream and forget what was collected from the old one.    *)
TakeResub ==
  /\ loop \in {"select", "wait"} /\ resub # 0
  /\ cur' = resub /\ resub' = 0 /\ loop' = "select"
  /\ Discard
  /\ UNCHANGED <<loopUnchanged, brokerVars, stream, cancelMsg, batchVars>>

(* surfaceBrokerCancel: Consume returns ErrConsumerCancelled.              *)
TakeCancel ==
  /\ loop \in {"select", "wait"} /\ cancelMsg
  /\ cancelMsg' = FALSE /\ loop' = "stopped"
  /\ Discard
  /\ UNCHANGED <<loopUnchanged, brokerVars, stream, resub, cur, batchVars>>

(* The stream is closed: wait for a replacement, a cancel or the context.  *)
StreamClosed ==
  /\ loop = "select" /\ cur \notin pumps /\ Queued = {}
  /\ loop' = "wait"
  /\ Discard
  /\ UNCHANGED <<loopUnchanged, brokerVars, relayVars, cur, batchVars>>

(* requeueUndispatched and return.                                         *)
ReturnStopped ==
  /\ loop' = "stopped"
  /\ stream' = stream \ Queued
  /\ unacked' = unacked \ Queued
  /\ requeued' = [m \in Msgs |-> requeued[m] + (IF m \in MsgsOf(Queued \cap unacked) THEN 1 ELSE 0)]
  /\ UNCHANGED <<del, acked, dead, refused, gone>>

(* The context is done: flush what is pending, requeue the rest.           *)
TakeStop ==
  /\ ctxDone
  /\ \/ /\ loop = "select" /\ pending # {}
        /\ Flush(pending, TRUE)
        /\ UNCHANGED <<brokerVars, stream>>
     \/ /\ loop = "select" /\ pending = {}
        /\ ReturnStopped
        /\ UNCHANGED <<pending, timer, batchVars>>
     \/ /\ loop = "wait" /\ loop' = "stopped"
        /\ UNCHANGED <<brokerVars, stream, pending, timer, batchVars>>
  /\ UNCHANGED <<loopUnchanged, resub, cancelMsg, cur>>

-----------------------------------------------------------------------------
(* The handler                                                             *)

handlerUnchanged == <<opt, linkVars, relayVars, loopVars, batch, at, last, counter, lifeVars>>

(* ackAll and nackAll: one frame on the highest tag, covering every lower  *)
(* one that is outstanding on the channel.                                 *)
BatchFrame(verdict) == Frame(Max(batch), {d \in unacked : d <= Max(batch)}, verdict)

(* Batch.Ack and Batch.Nack.                                               *)
BatchVerdict(verdict) ==
  /\ opt.manual = "batch" /\ handler = "run" /\ ~settled
  /\ settled' = TRUE
  /\ BatchFrame(verdict)
  /\ succeeded' = IF verdict = "ack" THEN succeeded \cup MsgsOf(batch) ELSE succeeded
  /\ UNCHANGED <<handlerUnchanged, resolved, handler, err>>

(* Delivery.Ack and Delivery.Nack send their frame and only then notify    *)
(* the batch, unless the channel is dead.                                  *)
DeliveryVerdict(d, verdict) ==
  /\ opt.manual = "each" /\ handler = "run" /\ d \in batch \ resolved /\ ~closed
  /\ resolved' = resolved \cup {d}
  /\ Frame(d, {d}, verdict)
  /\ handler' = IF Alive(d) THEN "notify" ELSE "run"
  /\ succeeded' = IF verdict = "ack" THEN succeeded \cup {del[d].msg} ELSE succeeded
  /\ UNCHANGED <<handlerUnchanged, settled, err>>

ackNotify ==
  /\ handler = "notify"
  /\ settled' = TRUE /\ handler' = "run"
  /\ UNCHANGED <<handlerUnchanged, brokerVars, succeeded, resolved, err>>

HandlerReturns(e) ==
  /\ handler = "run"
  /\ handler' = "done" /\ err' = e
  /\ succeeded' = IF e = "nil" THEN succeeded \cup MsgsOf(batch) ELSE succeeded
  /\ UNCHANGED <<handlerUnchanged, brokerVars, settled, resolved>>

-----------------------------------------------------------------------------
(* flush                                                                   *)

flushUnchanged == <<opt, linkVars, succeeded, cur, pending, timer, resub, cancelMsg, lifeVars>>

FlushEnds ==
  /\ batch' = {} /\ settled' = FALSE /\ resolved' = {} /\ handler' = "none" /\ err' = "nil"
  /\ at' = "wait" /\ last' = FALSE

Exceeded(e) == e = "requeue" /\ \E m \in MsgsOf(batch) : counter[m] + 1 > MaxRedeliveries

\* mutant: only the first message of a batch is counted
applyBatchCounterBFirst(e) ==
  counter' = [m \in Msgs |-> IF m # del[Min(batch)].msg THEN counter[m]
                             ELSE IF e = "requeue" /\ ~Exceeded(e) THEN counter[m] + 1 ELSE 0]

(* Counter B for a batch: every message is counted, or, when one would     *)
(* exceed the limit or the verdict is another, every entry is deleted.     *)
applyBatchCounterB(e) ==
  counter' = [m \in Msgs |-> IF m \notin MsgsOf(batch) THEN counter[m]
                             ELSE IF e = "requeue" /\ ~Exceeded(e) THEN counter[m] + 1 ELSE 0]

(* The verdict after counter B.                                            *)
AutoVerdict(e) == CASE e = "nil" -> "ack"
                    [] e = "requeue" /\ ~Exceeded(e) -> "requeue"
                    [] OTHER -> "drop"

(* After the flush of a cancelled context Consume requeues and returns.    *)
Continue ==
  IF last THEN ReturnStopped ELSE loop' = "select" /\ UNCHANGED <<brokerVars, stream>>

(* The handler has returned: the auto-verdict, unless something is settled *)
(* already.                                                                *)
applyBatchVerdict ==
  /\ loop = "flush" /\ at = "wait" /\ handler = "done"
  /\ IF settled THEN UNCHANGED <<brokerVars, counter>>
     ELSE BatchFrame(AutoVerdict(err)) /\ applyBatchCounterB(err)
  /\ at' = "drain"
  /\ UNCHANGED <<flushUnchanged, loop, stream, batch, settled, resolved, handler, err, last>>

(* HandlerTimeout: give up if the handler has settled; count a requeue,    *)
(* then look again under the lock and send the timeout verdict.            *)
Timeout ==
  /\ loop = "flush" /\ at = "wait" /\ opt.timeout # "none"
  /\ IF settled THEN at' = "drain" ELSE at' = AutoVerdict(opt.timeout)
  /\ IF ~settled /\ opt.timeout = "requeue" THEN applyBatchCounterB("requeue")
     ELSE UNCHANGED counter
  /\ UNCHANGED <<flushUnchanged, loop, stream, brokerVars, batch, settled, resolved, handler,
                 err, last>>

\* mutant: the verdict is sent without the second look
TimeoutNackBlind ==
  /\ at \in {"requeue", "drop"}
  /\ BatchFrame(at)
  /\ settled' = TRUE /\ at' = "drain"
  /\ UNCHANGED <<flushUnchanged, loop, stream, counter, batch, resolved, handler, err, last>>

\* mutant: the timeout leaves the batch without a verdict
TimeoutNackNone ==
  /\ at \in {"requeue", "drop"}
  /\ settled' = TRUE /\ at' = "drain"
  /\ UNCHANGED <<flushUnchanged, loop, stream, brokerVars, counter, batch, resolved, handler,
                 err, last>>

TimeoutNack ==
  /\ at \in {"requeue", "drop"}
  /\ IF settled THEN UNCHANGED brokerVars ELSE BatchFrame(at)
  /\ settled' = TRUE /\ at' = "drain"
  /\ UNCHANGED <<flushUnchanged, loop, stream, counter, batch, resolved, handler, err, last>>

(* The consumer's context ends under a handler with a timeout: no verdict. *)
Abandon ==
  /\ loop = "flush" /\ at = "wait" /\ opt.timeout # "none" /\ ctxDone
  /\ at' = "drain"
  /\ UNCHANGED <<flushUnchanged, loop, stream, brokerVars, counter, batch, settled, resolved,
                 handler, err, last>>

(* Wait for the handler goroutine; flush returns to the loop.              *)
Drain ==
  /\ at = "drain" /\ handler = "done"
  /\ Continue /\ FlushEnds
  /\ UNCHANGED <<flushUnchanged, counter>>

(* The application                                                         *)
Close ==
  /\ ~closed /\ Event /\ closed' = TRUE
  /\ UNCHANGED <<opt, brokerVars, succeeded, linkVars, relayVars, loopVars, batchVars, counter, ctxDone>>

Stop ==
  /\ ~ctxDone /\ Event /\ ctxDone' = TRUE
  /\ UNCHANGED <<opt, brokerVars, succeeded, linkVars, relayVars, loopVars, batchVars, counter, closed>>

-----------------------------------------------------------------------------
Loop == Take \/ TakeInvalid \/ FlushTimer \/ TakeResub \/ TakeCancel \/ StreamClosed \/ TakeStop
Handle == \/ \E v \in {"ack", "drop", "requeue"} :
               BatchVerdict(v) \/ \E d \in batch : DeliveryVerdict(d, v)
          \/ ackNotify
          \/ \E e \in {"nil", "drop", "requeue"} : HandlerReturns(e)
FlushStep == applyBatchVerdict \/ Timeout \/ TimeoutNack \/ Abandon \/ Drain
Reconnect == Redial \/ HookOpen \/ HookSend \/ BarrierDone \/ \E c \in pumps : PumpStop(c)
Environment == \/ \E m \in Msgs : Deliver(m)
               \/ BrokerCancel \/ ChannelDies \/ SocketLost \/ BarrierCap \/ Close \/ Stop

Next == Loop \/ Handle \/ FlushStep \/ Reconnect \/ Environment

Spec == Init /\ [][Next]_vars

(* Handlers return, ready goroutines run, a ready case of the select is    *)
(* taken in the end, and the connection redials.                           *)
Fairness ==
  /\ WF_vars(FlushStep) /\ WF_vars(Reconnect) /\ WF_vars(Loop)
  /\ WF_vars(ackNotify) /\ WF_vars(\E e \in {"nil", "drop", "requeue"} : HandlerReturns(e))
  /\ SF_vars(TakeStop) /\ SF_vars(FlushTimer)

LiveSpec == Spec /\ Fairness
-----------------------------------------------------------------------------

Channels == 1..MaxChannels

(* The state of the batch consumer and its broker is well formed; only     *)
(* deliveries of the live channel await a verdict.                         *)
TypeOK ==
  /\ opt \in Built
  /\ Len(del) <= MaxDeliveries /\ \A d \in DOMAIN del : del[d] \in [msg: Msgs, chan: Channels]
  /\ unacked \subseteq {d \in DOMAIN del : Alive(d)}
  /\ acked \subseteq Msgs /\ dead \subseteq Msgs /\ succeeded \subseteq Msgs
  /\ stream \cup pending \cup batch \subseteq DOMAIN del /\ resolved \subseteq batch
  /\ refused \in BOOLEAN /\ gone \in BOOLEAN /\ requeued \in [Msgs -> Nat]
  /\ link \in {"up", "lost", "barrier"} /\ hook \in {"idle", "opening", "sending", "done"}
  /\ chan \in Channels /\ up \in BOOLEAN /\ pumps \subseteq Channels /\ cut \subseteq Channels
  /\ resub \in Channels \cup {0} /\ cancelMsg \in BOOLEAN /\ cur \in Channels
  /\ loop \in {"select", "wait", "flush", "stopped"} /\ timer \in BOOLEAN
  /\ settled \in BOOLEAN /\ handler \in {"none", "run", "notify", "done"}
  /\ err \in {"nil", "requeue", "drop"} /\ at \in {"wait", "requeue", "drop", "drain"}
  /\ last \in BOOLEAN /\ counter \in [Msgs -> 0..MaxRedeliveries]
  /\ events \in 0..MaxEvents
  /\ closed \in BOOLEAN /\ ctxDone \in BOOLEAN

(* Every batch is collected from one channel: its frame names a tag of the *)
(* channel all its deliveries came from, so tags of different channels are *)
(* never compared by highest().                                            *)
OneChannelPerBatch ==
  \A ds \in {pending, batch} : \A d, e \in ds : del[d].chan = del[e].chan

(* The broker never gets a second verdict for a delivery: auto-verdict,    *)
(* timeout verdict and Batch.Ack race on Batch.acked and one wins.  With   *)
(* individual verdicts this holds only without a HandlerTimeout.           *)
NoSecondFrame == (opt.manual = "each" => opt.timeout = "none") => ~refused

(* A message is acknowledged only if the handler accepted it, although     *)
(* multiple=true frames cover everything outstanding below their tag.      *)
(* Handlers that settle one by one may leave deliveries to later frames,   *)
(* and so may a context that ends under a HandlerTimeout.                  *)
AckMeansHandled ==
  (opt.manual # "each" /\ ~(ctxDone /\ opt.timeout # "none")) => acked \subseteq succeeded

(* One frame for a delivery, and an ack only for what was handled.         *)
FramesSound == NoSecondFrame /\ AckMeansHandled

(* MaxRedeliveries bounds the requeues of a message, those of timeouts     *)
(* included, on one channel, while verdicts are left to the framework.     *)
RequeueBounded ==
  (opt.manual = "none" /\ chan = 1 /\ ~ctxDone) =>
     \A m \in Msgs : requeued[m] <= MaxRedeliveries

(* With FlushAfter a collected delivery does not wait for a full batch: it *)
(* is flushed, or discarded with its channel.                              *)
PendingFlushed == opt.timer => (pending # {} ~> pending = {})

(* Consume returns after its context ends, whatever it was waiting for.    *)
StopReturns == ctxDone ~> loop = "stopped"

(* "prefetch count must be greater than or equal to size to avoid          *)
(* deadlocks" (batch_consumer_builder.go:209): no consumer that Build lets *)
(* through waits for the rest of a batch the prefetch keeps at the broker. *)
NeverStarved ==
  ~(/\ up /\ loop = "select" /\ ~timer /\ unacked # {} /\ unacked \subseteq pending
    /\ Cardinality(unacked) >= opt.prefetch)

(* Typed state, batches that do not mix channels (collect, highest), and   *)
(* batches that can fill (Build).                                          *)
BatchSound == TypeOK /\ OneChannelPerBatch /\ NeverStarved

(* Deliveries do not linger in a partial batch, and shutdown ends.         *)
BatchProgress == PendingFlushed /\ StopReturns

(* A batch frame acknowledges the messages of its batch and no others,     *)
(* also while the consumer shuts down.                                     *)
AckCoversItsBatch == opt.manual # "each" => acked \subseteq succeeded

(* After a reconnect the consumer goes on: it does not wait for a stream   *)
(* while the connection is up, its subscription open and nothing queued.   *)
ReconnectResumes ==
  ~(loop = "wait" /\ link = "up" /\ up /\ resub = 0 /\ ~cancelMsg /\ ~ctxDone)
=============================================================================
