------------------------------ MODULE Dispatch ------------------------------
(***************************************************************************)
(* What a Consumer does with a delivery (consumer.go, delivery.go).  The   *)
(* consume loop takes deliveries from its stream, waits for a concurrency  *)
(* slot and for room in the in-flight byte budget, and starts a dispatch   *)
(* goroutine; with a HandlerTimeout the handler runs in a goroutine of its *)
(* own next to it.  A verdict reaches the broker at most once, through the *)
(* resolved-once flag of the Delivery.  Counter A (x-death) and counter B  *)
(* (per channel, in process) bound redelivery; the dedupe middleware skips *)
(* messages it has seen.                                                   *)
(*                                                                         *)
(* A delivery is a number; del maps it to its message, its channel and the *)
(* delivery tag it has there.  How subscriptions are kept alive is module  *)
(* Subscription: here a channel dies and a later one replaces it.          *)
(***************************************************************************)
EXTENDS XDeath, FiniteSets, FiniteSetsExt

CONSTANTS Msgs,             \* messages of the queue
          Concurrency,      \* handlers that may run at once
          Queue,            \* the queue it reads
          RuneStarts,       \* bytes that begin a character; a MessageId is a
                            \* sequence of bytes, <<>> when absent
          maxMsgIDKeyLen,   \* bytes of a MessageId that go into a key
          Size,             \* body length of each message
          MaxInFlightBytes, \* the byte budget
          MaxRedeliveries,  \* the limit of both counters
          Setups,           \* consumer configurations, with the messages' ids
                            \* and the x-death headers they arrive with
          MaxDeliveries,    \* bound: deliveries in a behaviour
          MaxEvents         \* bound: dead channels, Close and Stop in a behaviour

ASSUME DispatchAssumption ==
  /\ Size \in [Msgs -> Nat] /\ Concurrency \in Nat \ {0}
  /\ MaxInFlightBytes \in Nat \ {0} /\ MaxRedeliveries \in Nat \ {0}
  /\ MaxDeliveries \in Nat /\ MaxEvents \in Nat
  /\ \A o \in Setups : /\ DOMAIN o = {"raw", "noAck", "dedupe", "timeout", "id", "death"}
                        /\ o.timeout \in {"none", "drop", "requeue"}
                        /\ DOMAIN o.id = Msgs /\ DOMAIN o.death = Msgs

VARIABLES
  opt,        \* this consumer's configuration
  del,        \* deliveries so far: <<[msg, chan, tag, death], ...>>
  unacked,    \* broker: deliveries of the live channel it waits a verdict for
  acked,      \* broker: messages removed by an ack
  dead,       \* broker: messages dead-lettered for good
  deaths,     \* broker: x-death header of each message
  refused,    \* broker: a verdict came for a delivery already settled (406)
  chan,       \* number of the newest channel, which is that of counterState
  up,         \* that channel is open
  cur,        \* the channel whose stream the loop reads
  stream,     \* deliveries the pumps have queued for the loop
  loop,       \* delivery the loop holds while it waits for bytes, or 0
  inflight,   \* byteLimiter.inflight
  slot,       \* per slot: dispatch goroutine, handler goroutine, their data
  counter,    \* redeliveryCounter of each channel
  marked,     \* the DedupeStore
  succeeded,  \* history: messages whose handler has returned nil
  requeued,   \* history: requeue verdicts sent since the last dead-lettering
  closed,     \* Consumer.Close has been called
  ctxDone,    \* the context of Consume is cancelled
  stopped     \* Consume has returned

brokerVars == <<del, unacked, acked, dead, deaths, refused, requeued>>
chanVars == <<chan, up>>
flowVars == <<cur, stream, loop, inflight>>
lifeVars == <<closed, ctxDone, stopped>>
vars == <<opt, brokerVars, chanVars, flowVars, slot, counter,
          marked, succeeded, lifeVars>>

Slots == 1 .. Concurrency   \* tokens of the semaphore
MaxChannels == 1 + MaxEvents
Deliveries == 1 .. MaxDeliveries
NoID == <<>>
IDs == {o.id[m] : o \in Setups, m \in Msgs} \ {NoID}

(* At most n bytes of s, stepped back to the start of a character.         *)
truncateAtRuneBoundary(s, n) ==
  IF n >= Len(s) THEN s
  ELSE SubSeq(s, 1, Max({k \in 0 .. n : k = 0 \/ s[k + 1] \in RuneStarts}))

counterBKeyForMsgID(msgID) ==
  IF Len(msgID) > maxMsgIDKeyLen THEN truncateAtRuneBoundary(msgID, maxMsgIDKeyLen) ELSE msgID

Keys == ({"mid"} \X {counterBKeyForMsgID(i) : i \in IDs}) \cup ({"dlv"} \X Deliveries)

(* The MessageId of a message.                                             *)
id == opt.id

Idle == [at |-> "idle", d |-> 0, h |-> "none", mark |-> FALSE, err |-> "nil", cs |-> 0,
         resolved |-> FALSE]

Init ==
  /\ opt \in Setups
  /\ del = << >> /\ unacked = {} /\ acked = {} /\ dead = {}
  /\ deaths = opt.death /\ refused = FALSE
  /\ chan = 1 /\ up = TRUE
  /\ cur = 1 /\ stream = {} /\ loop = 0 /\ inflight = 0
  /\ slot = [s \in Slots |-> Idle]
  /\ counter = [c \in 1 .. MaxChannels |-> [k \in Keys |-> 0]]
  /\ marked = {} /\ succeeded = {}
  /\ requeued = [m \in Msgs |-> 0]
  /\ closed = FALSE /\ ctxDone = FALSE /\ stopped = FALSE

(* Disturbances so far.                                                    *)
Events == (chan - 1) + Cardinality({e \in {1, 2, 3} : <<~up, closed, ctxDone>>[e]})

-----------------------------------------------------------------------------
(* The broker                                                              *)

Unsettled(m) == m \notin acked \cup dead /\ \A d \in unacked : del[d].msg # m

Alive(d) == up /\ del[d].chan = chan

(* A message goes to a consumer; under no-ack it is gone at once.          *)
Deliver(m) ==
  /\ up /\ ~stopped /\ Unsettled(m) /\ Len(del) < MaxDeliveries
  /\ LET tag == 1 + Cardinality({d \in DOMAIN del : del[d].chan = chan})
     IN del' = Append(del, [msg |-> m, chan |-> chan, tag |-> tag, death |-> deaths[m]])
  /\ stream' = stream \cup {Len(del')}
  /\ IF opt.noAck
     THEN acked' = acked \cup {m} /\ UNCHANGED unacked
     ELSE unacked' = unacked \cup {Len(del')} /\ UNCHANGED acked
  /\ UNCHANGED <<opt, dead, deaths, refused, requeued, chanVars, cur, loop, inflight,
                 slot, counter, marked, succeeded, lifeVars>>

(* A dead-lettered message is gone, or a retry loop brings it back with a  *)
(* higher x-death count.                                                   *)
DeadLetter(m) ==
  /\ \/ dead' = dead \cup {m} /\ UNCHANGED deaths
     \/ /\ ParseXDeath(deaths[m], Queue).Count < MaxRedeliveries
        /\ deaths' = [deaths EXCEPT ![m] = Died(Died(@, Queue, "rejected"), "retry", "expired")]
        /\ UNCHANGED dead
  /\ requeued' = [requeued EXCEPT ![m] = 0]

(* A verdict frame: an error on a dead channel, PRECONDITION_FAILED for a  *)
(* delivery that is already settled, else applied.                         *)
Frame(d, verdict) ==
  LET m == del[d].msg IN
  /\ unacked' = unacked \ {d}
  /\ refused' = (refused \/ (Alive(d) /\ d \notin unacked))
  /\ IF d \notin unacked THEN UNCHANGED <<acked, dead, deaths, requeued>>
     ELSE CASE verdict = "ack" -> acked' = acked \cup {m} /\ UNCHANGED <<dead, deaths, requeued>>
            [] verdict = "requeue" -> /\ requeued' = [requeued EXCEPT ![m] = @ + 1]
                                      /\ UNCHANGED <<acked, dead, deaths>>
            [] verdict = "drop" -> DeadLetter(m) /\ UNCHANGED acked
  /\ UNCHANGED del

(* The channel dies: the broker requeues what is unacked on it.  What the  *)
(* pump had queued stays in the stream.                                    *)
ChannelDies ==
  /\ up /\ Events < MaxEvents
  /\ up' = FALSE
  /\ unacked' = {}
  /\ UNCHANGED <<opt, del, acked, dead, deaths, refused, requeued, chan, flowVars,
                 slot, counter, marked, succeeded, lifeVars>>

(* openDeliveryCh installs a fresh counter before it subscribes.           *)
Reopen ==
  /\ ~up /\ ~stopped
  /\ up' = TRUE /\ chan' = chan + 1
  /\ UNCHANGED <<opt, brokerVars, flowVars, slot, counter, marked,
                 succeeded, lifeVars>>

-----------------------------------------------------------------------------
(* Delivery                                                                *)

\* mutant: the timeout verdict does not go through the resolved flag
ResolveAlways(s, verdict, respectClosed) ==
  IF respectClosed /\ (closed \/ slot[s].resolved)
  THEN UNCHANGED brokerVars
  ELSE Frame(slot[s].d, verdict)

(* Ack, Nack (they refuse on a closed consumer) and nackOnTimeout (which   *)
(* does not look): only the winner of the flag sends a frame.              *)
Resolve(s, verdict, respectClosed) ==
  IF (respectClosed /\ closed) \/ slot[s].resolved
  THEN UNCHANGED brokerVars
  ELSE Frame(slot[s].d, verdict)

Resolved(s, respectClosed) == slot[s].resolved \/ ~(respectClosed /\ closed)

Verdict(err) == CASE err = "nil" -> "ack" [] err = "requeue" -> "requeue" [] OTHER -> "drop"

-----------------------------------------------------------------------------
(* The consume loop                                                        *)

Busy == {s \in Slots : slot[s].at # "idle"}

Queued == {d \in stream : del[d].chan = cur}

(* Take the oldest queued delivery and a token of the semaphore.           *)
Receive(s) ==
  /\ ~stopped /\ loop = 0 /\ Queued # {} /\ Busy # Slots
  /\ s = Min(Slots \ Busy)
  /\ loop' = Min(Queued)
  /\ stream' = stream \ {Min(Queued)}
  /\ slot' = [slot EXCEPT ![s] = [Idle EXCEPT !.at = "held", !.d = Min(Queued)]]
  /\ UNCHANGED <<opt, brokerVars, chanVars, cur, inflight, counter, marked,
                 succeeded, lifeVars>>

(* The loop adopts the replacement; what is left in the old stream is lost *)
(* to it (the broker has requeued it).                                     *)
Adopt ==
  /\ ~stopped /\ loop = 0 /\ cur < chan
  /\ cur' = chan
  /\ stream' = {d \in stream : del[d].chan = chan}
  /\ UNCHANGED <<opt, brokerVars, chanVars, loop, inflight, slot, counter,
                 marked, succeeded, lifeVars>>

BytesOf(s) == Size[del[slot[s].d].msg]

\* mutant: a message larger than the budget waits for room as any other does
acquireStrict(s) == inflight + BytesOf(s) <= MaxInFlightBytes

(* byteLimiter.acquire proceeds when nothing else is in flight or there is *)
(* room.                                                                   *)
acquire(s) == inflight = 0 \/ inflight + BytesOf(s) <= MaxInFlightBytes

(* Reserve the bytes and start the dispatch goroutine.                     *)
Spawn(s) ==
  /\ slot[s].at = "held" /\ acquire(s)
  /\ inflight' = inflight + BytesOf(s)
  /\ loop' = 0
  /\ slot' = [slot EXCEPT ![s].at = "start"]
  /\ UNCHANGED <<opt, brokerVars, chanVars, cur, stream, counter, marked,
                 succeeded, lifeVars>>

(* On a cancelled context wait for the handlers, cancel the subscription   *)
(* and requeue what was never dispatched.                                  *)
LoopStop ==
  /\ ctxDone /\ ~stopped /\ loop = 0 /\ Busy = {}
  /\ stopped' = TRUE
  /\ stream' = stream \ Queued
  /\ unacked' = unacked \ Queued
  /\ requeued' = [m \in Msgs |-> requeued[m]
                    + Cardinality({d \in Queued \cap unacked : del[d].msg = m})]
  /\ UNCHANGED <<opt, del, acked, dead, deaths, refused, chanVars, cur, loop, inflight,
                 slot, counter, marked, succeeded, closed, ctxDone>>

-----------------------------------------------------------------------------
(* dispatch                                                                *)

dispatchUnchanged == <<opt, chanVars, cur, stream, loop, lifeVars>>

(* The goroutine's deferred calls: bytes, token, wait group.               *)
Release(s) == inflight' = inflight - BytesOf(s) /\ slot' = [slot EXCEPT ![s] = Idle]

(* A body that does not decode, or one dead-lettered too often, is dropped *)
(* before the handler is called.                                           *)
Reject(s) ==
  /\ slot[s].at = "start"
  /\ IF opt.noAck THEN UNCHANGED brokerVars ELSE Frame(slot[s].d, "drop")
  /\ Release(s)
  /\ UNCHANGED <<dispatchUnchanged, counter, marked, succeeded>>

(* Counter A.                                                              *)
DeathCount(d) == ParseXDeath(del[d].death, Queue).Count
Poison(s) == ~opt.noAck /\ DeathCount(slot[s].d) >= MaxRedeliveries

(* Call the handler, through wrapDedupe when there is an id, remembering   *)
(* the counter B of the newest channel.                                    *)
Call(s) ==
  /\ slot[s].at = "start" /\ ~Poison(s)
  /\ slot' = [slot EXCEPT ![s].at = "wait",
       ![s].h = IF opt.dedupe /\ id[del[slot[s].d].msg] # NoID THEN "seen" ELSE "run",
       ![s].cs = IF opt.raw \/ opt.noAck THEN 0 ELSE chan]
  /\ UNCHANGED <<dispatchUnchanged, brokerVars, inflight, counter, marked, succeeded>>

(* wrapDedupe: an id that was seen is acked unhandled; a failing store     *)
(* lets the handler run and marks nothing.                                 *)
Seen(s) ==
  LET known == id[del[slot[s].d].msg] \in marked IN
  /\ slot[s].h = "seen"
  /\ \/ slot' = [slot EXCEPT ![s].h = "run"]
     \/ known /\ slot' = [slot EXCEPT ![s].h = "done"]
     \/ ~known /\ slot' = [slot EXCEPT ![s].h = "run", ![s].mark = TRUE]
  /\ UNCHANGED <<dispatchUnchanged, brokerVars, inflight, counter, marked, succeeded>>

(* A ConsumeRaw handler settles its delivery itself.                       *)
RawVerdict(s, verdict) ==
  /\ opt.raw /\ slot[s].h = "run"
  /\ Resolve(s, verdict, TRUE)
  /\ slot' = [slot EXCEPT ![s].resolved = Resolved(s, TRUE)]
  /\ UNCHANGED <<dispatchUnchanged, inflight, counter, marked, succeeded>>

\* mutant: the id is marked whatever the handler returned
HandlerReturnsMark(s, err) ==
  /\ slot[s].h = "run"
  /\ slot' = [slot EXCEPT ![s].h = IF slot[s].mark THEN "mark" ELSE "done",
                          ![s].err = err]
  /\ succeeded' = IF err = "nil" THEN succeeded \cup {del[slot[s].d].msg} ELSE succeeded
  /\ UNCHANGED <<dispatchUnchanged, brokerVars, inflight, counter, marked>>

(* The handler returns nil, ErrRequeue or another error (or panics).       *)
HandlerReturns(s, err) ==
  /\ slot[s].h = "run"
  /\ slot' = [slot EXCEPT ![s].h = IF err = "nil" /\ slot[s].mark THEN "mark" ELSE "done",
                          ![s].err = err]
  /\ succeeded' = IF err = "nil" THEN succeeded \cup {del[slot[s].d].msg} ELSE succeeded
  /\ UNCHANGED <<dispatchUnchanged, brokerVars, inflight, counter, marked>>

(* Mark may fail; the delivery is acked all the same.                      *)
Mark(s) ==
  /\ slot[s].h = "mark"
  /\ slot' = [slot EXCEPT ![s].h = "done"]
  /\ \/ marked' = marked \cup {id[del[slot[s].d].msg]}
     \/ UNCHANGED marked
  /\ UNCHANGED <<dispatchUnchanged, brokerVars, inflight, counter, succeeded>>

(* The handler is done: an error on a channel that has died is left to the *)
(* broker, as is everything under no-ack or ConsumeRaw.                    *)
Finish(s) ==
  /\ slot[s].at = "wait" /\ slot[s].h = "done"
  /\ IF (~Alive(slot[s].d) /\ slot[s].err # "nil") \/ opt.noAck \/ opt.raw
     THEN Release(s)
     ELSE slot' = [slot EXCEPT ![s].at = "settle"] /\ UNCHANGED inflight
  /\ UNCHANGED <<dispatchUnchanged, brokerVars, counter, marked, succeeded>>

(* An id that truncates to nothing counts as absent.                       *)
counterBKey(d) ==
  LET key == counterBKeyForMsgID(id[del[d].msg])
  IN IF key # NoID THEN <<"mid", key>> ELSE <<"dlv", del[d].tag>>

\* mutant: the entry is deleted when the limit is not exceeded
applyCounterBReset(s) ==
  LET key == counterBKey(slot[s].d)
      exceeded == slot[s].err = "requeue" /\ counter[slot[s].cs][key] + 1 > MaxRedeliveries
  IN /\ counter' = [counter EXCEPT ![slot[s].cs][key] = 0]
     /\ slot' = [slot EXCEPT ![s].at = "frame",
                             ![s].err = IF exceeded THEN "other" ELSE @]

(* Counter B under its mutex: count a requeue, or rewrite it to a drop     *)
(* when the limit would be exceeded; any other verdict clears the entry.   *)
applyCounterB(s) ==
  LET key == counterBKey(slot[s].d)
      count == counter[slot[s].cs][key]
      exceeded == slot[s].err = "requeue" /\ count + 1 > MaxRedeliveries
  IN /\ counter' = [counter EXCEPT ![slot[s].cs][key] =
                      IF slot[s].err = "requeue" /\ ~exceeded THEN count + 1 ELSE 0]
     /\ slot' = [slot EXCEPT ![s].at = "frame",
                             ![s].err = IF exceeded THEN "other" ELSE @]

Settle(s) ==
  /\ slot[s].at = "settle" /\ applyCounterB(s)
  /\ UNCHANGED <<dispatchUnchanged, brokerVars, inflight, marked, succeeded>>

AckIf(s) ==
  /\ slot[s].at = "frame"
  /\ Resolve(s, Verdict(slot[s].err), TRUE)
  /\ Release(s)
  /\ UNCHANGED <<dispatchUnchanged, counter, marked, succeeded>>

\* mutant: a handler that is timed out is given up without a verdict
TimeoutSilent(s) ==
  /\ slot[s].at = "wait" /\ opt.timeout # "none"
  /\ UNCHANGED brokerVars
  /\ slot' = [slot EXCEPT ![s].at = "drain"]
  /\ UNCHANGED <<dispatchUnchanged, inflight, counter, marked, succeeded>>

(* HandlerTimeout fires: the timeout verdict, without counter B.           *)
Timeout(s) ==
  /\ slot[s].at = "wait" /\ opt.timeout # "none"
  /\ IF opt.noAck THEN UNCHANGED brokerVars ELSE Resolve(s, opt.timeout, FALSE)
  /\ slot' = [slot EXCEPT ![s].at = "drain", ![s].resolved = Resolved(s, FALSE)]
  /\ UNCHANGED <<dispatchUnchanged, inflight, counter, marked, succeeded>>

(* The channel died or the consumer's context ended under the handler: no  *)
(* verdict.                                                                *)
Abandon(s) ==
  /\ slot[s].at = "wait" /\ opt.timeout # "none"
  /\ ~Alive(slot[s].d) \/ ctxDone
  /\ slot' = [slot EXCEPT ![s].at = "drain"]
  /\ UNCHANGED <<dispatchUnchanged, brokerVars, inflight, counter, marked, succeeded>>

(* Wait for the handler goroutine that was told to stop.                   *)
Drain(s) ==
  /\ slot[s].at = "drain" /\ slot[s].h = "done"
  /\ Release(s)
  /\ UNCHANGED <<dispatchUnchanged, brokerVars, counter, marked, succeeded>>

(* The application                                                         *)
Close ==
  /\ ~closed /\ Events < MaxEvents
  /\ closed' = TRUE
  /\ UNCHANGED <<opt, brokerVars, chanVars, flowVars, slot, counter, marked,
                 succeeded, ctxDone, stopped>>

Stop ==
  /\ ~ctxDone /\ Events < MaxEvents
  /\ ctxDone' = TRUE
  /\ UNCHANGED <<opt, brokerVars, chanVars, flowVars, slot, counter, marked,
                 succeeded, closed, stopped>>

-----------------------------------------------------------------------------
Handling(s) ==
  \/ Seen(s) \/ Mark(s)
  \/ \E err \in {"nil", "requeue", "other"} : HandlerReturns(s, err)

Dispatching(s) ==
  \/ Reject(s) \/ Call(s) \/ Finish(s) \/ Settle(s) \/ AckIf(s) \/ Drain(s)

Next ==
  \/ \E m \in Msgs : Deliver(m)
  \/ ChannelDies \/ Reopen \/ Adopt \/ LoopStop \/ Close \/ Stop
  \/ \E s \in Slots :
       \/ Receive(s) \/ Spawn(s)
       \/ Dispatching(s) \/ Handling(s)
       \/ Timeout(s) \/ Abandon(s)
       \/ \E v \in {"ack", "requeue", "drop"} : RawVerdict(s, v)

Spec == Init /\ [][Next]_vars

(* Goroutines are scheduled and handlers return.                           *)
Fairness ==
  /\ WF_vars(LoopStop)
  /\ \A s \in Slots : /\ WF_vars(Spawn(s))
                      /\ WF_vars(Dispatching(s))
                      /\ WF_vars(Handling(s))

LiveSpec == Spec /\ Fairness

-----------------------------------------------------------------------------
(* Properties                                                              *)

(* Type invariant: queues, tags, slots and counters of consumer.go.        *)
TypeOK ==
  /\ opt \in Setups
  /\ \A d \in DOMAIN del : /\ del[d].msg \in Msgs /\ del[d].chan \in 1 .. MaxChannels
                            /\ del[d].tag \in Deliveries
  /\ unacked \cup stream \subseteq DOMAIN del
  /\ acked \cup dead \cup succeeded \subseteq Msgs
  /\ DOMAIN deaths = Msgs /\ requeued \in [Msgs -> 0 .. MaxDeliveries]
  /\ chan \in 1 .. MaxChannels /\ cur \in 1 .. chan /\ loop \in {0} \cup DOMAIN del
  /\ inflight \in Nat
  /\ slot \in [Slots -> [at: {"idle", "held", "start", "wait", "settle", "frame", "drain"},
                         d: {0} \cup DOMAIN del, h: {"none", "seen", "run", "mark", "done"},
                         mark: BOOLEAN, err: {"nil", "requeue", "other"}, cs: 0 .. chan, resolved: BOOLEAN]]
  /\ counter \in [1 .. MaxChannels -> [Keys -> 0 .. MaxRedeliveries]]
  /\ marked \subseteq IDs
  /\ refused \in BOOLEAN /\ up \in BOOLEAN
  /\ closed \in BOOLEAN /\ ctxDone \in BOOLEAN /\ stopped \in BOOLEAN

(* The broker never sees a second verdict for a delivery, which it would   *)
(* answer by closing the channel, however handler, timeout and shutdown    *)
(* interleave (delivery.go:98-155).                                        *)
NoSecondFrame == ~refused

(* Under Consume a message is removed by an ack only if a handler returned *)
(* nil for it or, with WithDedupe, for a message of the same MessageId.    *)
AckMeansHandled ==
  ~opt.raw /\ ~opt.noAck =>
    \A m \in acked : \E x \in succeeded :
      x = m \/ (opt.dedupe /\ id[m] # NoID /\ id[x] = id[m])

(* Frames are sent once, and an ack says the message was handled.          *)
FramesSound == NoSecondFrame /\ AckMeansHandled

(* How often a message has died here, counted without any bound.           *)
Deaths(entries) ==
  MapThenSumSet(LAMBDA i : entries[i].count,
    {i \in DOMAIN entries : entries[i].queue = Queue /\ entries[i].count > 0
                             /\ normalizeReason(entries[i].reason) \in Counted})

(* Counter A: a message that had died here MaxRedeliveries times when it   *)
(* was delivered does not reach the handler, whatever else its x-death     *)
(* header holds and however large the counts are (consumer.go:1561).       *)
PoisonNeverHandled ==
  ~opt.noAck => \A s \in Slots :
    slot[s].h # "none" => Deaths(del[slot[s].d].death) < MaxRedeliveries

(* The bodies under dispatch fit the budget, unless one oversized message  *)
(* runs alone (consumer.go:780-818).                                       *)
BudgetKept ==
  LET running == {s \in Slots : slot[s].at \notin {"idle", "held"}}
  IN /\ inflight = MapThenSumSet(BytesOf, running)
     /\ inflight <= MaxInFlightBytes \/ Cardinality(running) = 1

(* Under Consume every delivery the broker waits for is still queued, held *)
(* or being dispatched: none is forgotten, whatever the handler does, as   *)
(* long as the consumer is neither closed nor stopped.                     *)
NoneForgotten ==
  ~opt.raw /\ ~closed /\ ~ctxDone =>
    unacked \subseteq stream \cup {slot[s].d : s \in Busy}

(* On its first channel a message whose counter key no other message has.  *)
Countable(m) ==
  /\ ~opt.raw /\ chan = 1 /\ ~ctxDone
  /\ counterBKeyForMsgID(id[m]) # NoID
  /\ \A x \in Msgs \ {m} : counterBKeyForMsgID(id[x]) # counterBKeyForMsgID(id[m])

(* Counter B: on one channel a handler gets a message of its own MessageId *)
(* requeued at most MaxRedeliveries times before it is dead-lettered       *)
(* (consumer_builder.go:318-323).                                          *)
RequeueBounded ==
  opt.timeout # "requeue" => \A m \in Msgs : Countable(m) => requeued[m] <= MaxRedeliveries

(* The same with the timeout verdict, of which types.go:155 says that it   *)
(* is subject to MaxRedeliveries.                                          *)
TimeoutRequeueBounded == \A m \in Msgs : Countable(m) => requeued[m] <= MaxRedeliveries

(* A delivery the loop holds gets its slot and its bytes, oversized or     *)
(* not (consumer.go:1152-1164).                                            *)
DeliveryServed == (loop # 0) ~> (loop = 0)

(* A cancelled consumer returns once its handlers have                     *)
(* (consumer.go:1092-1103).                                                *)
ShutdownDrains == ctxDone ~> stopped

(* Typed state, a byte budget that is kept, and no delivery forgotten      *)
(* (acquireBytes, releaseBytes, dispatch).                                 *)
DispatchSound == TypeOK /\ BudgetKept /\ NoneForgotten

(* The loop never sticks on a delivery, and shutdown drains.               *)
DispatchProgress == DeliveryServed /\ ShutdownDrains

(* Neither counter lets a message go round more often than it should.      *)
RedeliveryBounded == PoisonNeverHandled /\ RequeueBounded
=============================================================================
