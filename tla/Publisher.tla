------------------------------ MODULE Publisher ------------------------------
(***************************************************************************)
(* publisher.go: Publish (with its retry loop) and PublishBatch of a        *)
(* mandatory publisher, the demultiplexer goroutine of the confirm channel  *)
(* (startConfirmDemux), and the broker with the library's frame reader.     *)
(* The pool holds one channel, so the calls take turns on it; a channel     *)
(* that died is replaced by a fresh one with a tracker and a map of its     *)
(* own.  The tracker is its contract, which ConfirmTracker implements.      *)
(***************************************************************************)
EXTENDS Integers, SequencesExt

CONSTANTS
  Jobs,       \* caller -> the MessageIDs it publishes, in order
  Batches,    \* callers that use PublishBatch; the others use Publish
  Retries,    \* RetryPolicy.Retries of Publish; 0 here: no retry policy
  Impatient,  \* callers whose Wait may end on the confirm timeout or a context
  MaxTag,     \* bound: delivery tags of one channel
  NoCaller    \* not a caller

Callers == DOMAIN Jobs
IDs == UNION {Range(Jobs[c]) : c \in Callers}
Tags == 1..MaxTag

ASSUME JobsAssumption ==
  /\ Batches \subseteq Callers /\ Impatient \subseteq Callers
  /\ \A c \in Callers : Jobs[c] # <<>> /\ (c \notin Batches => Len(Jobs[c]) = 1)
  /\ Retries \in Nat /\ MaxTag \in Nat \ {0}
  /\ NoCaller \notin Callers

VARIABLES
  pc,        \* caller -> step
  cur,       \* caller -> position in its job
  attempt,   \* caller -> retries made
  tag,       \* caller -> position -> delivery tag of the last attempt
  result,    \* caller -> position -> [err, was]: the error, and (history)
             \* what the broker had decided about that delivery tag
  holder,    \* the caller that holds the pool's channel
  up,        \* the channel: "none", "up", "dead"
  next,      \* GetNextPublishSeqNo
  slot,      \* the tracker's slots (ConfirmContract)
  shut,      \* the tracker is closed
  tagMap,    \* returnTagMap: MessageID -> delivery tag, 0 when absent
  demux,     \* the demultiplexer: where it is and what it carries
  sent,      \* <<tag, id>> the broker has not looked at
  verdict,   \* tag -> the broker's decision
  confirmed, \* tags confirmed so far, in order (the library resequences)
  wire       \* frames from the broker, read in order by one goroutine

callerVars == <<pc, cur, attempt, tag, result>>
chanVars == <<up, next, slot, shut, tagMap, demux>>
brokerVars == <<sent, verdict, confirmed, wire>>
vars == <<callerVars, holder, chanVars, brokerVars>>

Tracker == INSTANCE ConfirmContract

Pending == [err |-> "none", was |-> "none"]
Idle == <<"idle">>
Errors == Tracker!Outcomes \cup {"none", "timeout", "unavailable"}
Verdicts == {"none", "routed", "unroutable", "nacked"}

TypeOK ==
  /\ pc \in [Callers -> {"out", "begin", "acquired", "stored", "registered",
                          "waiting", "leaving", "decide", "done"}]
  /\ \A c \in Callers :
       /\ cur[c] \in 1..Len(Jobs[c])
       /\ attempt[c] \in 0..Retries
       /\ tag[c] \in [DOMAIN Jobs[c] -> {0} \cup Tags]
       /\ result[c] \in [DOMAIN Jobs[c] -> [err : Errors, was : Verdicts]]
  /\ holder \in Callers \cup {NoCaller}
  /\ up \in {"none", "up", "dead"}
  /\ next \in 1..(MaxTag + 1)
  /\ Tracker!ContractTypeOK
  /\ tagMap \in [IDs -> {0} \cup Tags]
  /\ confirmed \in 0..(next - 1)

Init ==
  /\ pc = [c \in Callers |-> "out"]
  /\ cur = [c \in Callers |-> 1]
  /\ attempt = [c \in Callers |-> 0]
  /\ tag = [c \in Callers |-> [i \in DOMAIN Jobs[c] |-> 0]]
  /\ result = [c \in Callers |-> [i \in DOMAIN Jobs[c] |-> Pending]]
  /\ holder = NoCaller
  /\ up = "none" /\ next = 1
  /\ Tracker!ContractInit
  /\ tagMap = [m \in IDs |-> 0]
  /\ demux = Idle
  /\ sent = <<>> /\ verdict = [t \in Tags |-> "none"] /\ confirmed = 0 /\ wire = <<>>

-----------------------------------------------------------------------------
(* A caller: Publish or PublishBatch.                                       *)

MyID(c) == Jobs[c][cur[c]]
MyTag(c) == tag[c][cur[c]]
Goto(c, l) == pc' = [pc EXCEPT ![c] = l]
SetErr(c, e) ==
  result' = [result EXCEPT ![c][cur[c]] =
               [err |-> e, was |-> IF MyTag(c) = 0 THEN "none" ELSE verdict[MyTag(c)]]]

\* Positions whose message was published and still needs its Wait.
Unwaited(c) == {i \in DOMAIN Jobs[c] : result'[c][i].err = "none"}

\* After position cur[c]: register the next message, or start waiting for the
\* published ones in order, or leave when there are none.
NextPosition(c) ==
  IF cur[c] < Len(Jobs[c])
    THEN cur' = [cur EXCEPT ![c] = @ + 1] /\ Goto(c, "acquired")
  ELSE IF Unwaited(c) # {}
    THEN cur' = [cur EXCEPT ![c] = Min(Unwaited(c))] /\ Goto(c, "waiting")
  ELSE UNCHANGED cur /\ Goto(c, "leaving")

NextWait(c) ==
  IF Unwaited(c) # {}
    THEN cur' = [cur EXCEPT ![c] = Min(Unwaited(c))] /\ UNCHANGED pc
    ELSE UNCHANGED cur /\ Goto(c, "leaving")

\* The call is admitted, and its messages pass encodeMsg.
Publish(c) ==
  /\ pc[c] = "out"
  /\ Goto(c, "begin")
  /\ UNCHANGED <<cur, attempt, tag, result, holder, chanVars, brokerVars>>

\* The rate limiter, waitBarrier or acquire fails: nothing was sent.  A batch
\* returns; Publish may retry.
Unavailable(c) ==
  /\ pc[c] = "begin"
  /\ result' = [result EXCEPT ![c] =
                  [i \in DOMAIN Jobs[c] |-> [err |-> "unavailable", was |-> "none"]]]
  /\ Goto(c, IF c \in Batches THEN "done" ELSE "decide")
  /\ UNCHANGED <<cur, attempt, tag, holder, chanVars, brokerVars>>

\* acquire: the idle entry if it is live, else a fresh one (openPublisherEntry)
\* with its own tracker, map and demultiplexer.
Acquire(c) ==
  /\ pc[c] = "begin"
  /\ holder = NoCaller
  /\ holder' = c
  /\ Goto(c, "acquired")
  /\ \/ up = "up" /\ UNCHANGED <<chanVars, brokerVars>>
     \/ /\ up # "up"
        /\ up' = "up" /\ next' = 1 /\ demux' = Idle
        /\ slot' = [t \in Tags |-> "free"] /\ shut' = FALSE
        /\ tagMap' = [m \in IDs |-> 0]
        /\ sent' = <<>> /\ wire' = <<>> /\ confirmed' = 0
        /\ verdict' = [t \in Tags |-> "none"]
  /\ UNCHANGED <<cur, attempt, tag, result>>

\* GetNextPublishSeqNo, then the entry in returnTagMap.
Store(c) ==
  /\ pc[c] = "acquired"
  /\ next \in Tags
  /\ tag' = [tag EXCEPT ![c][cur[c]] = next]
  /\ tagMap' = [tagMap EXCEPT ![MyID(c)] = next]
  /\ Goto(c, "stored")
  /\ UNCHANGED <<cur, attempt, result, holder, up, next, slot, shut, demux, brokerVars>>

\* tracker.Register; on a closed tracker the message fails with
\* ErrChannelClosed, and a batch drops its map entry at once.
Register(c) ==
  /\ pc[c] = "stored"
  /\ \/ /\ Tracker!Open(MyTag(c))
        /\ Goto(c, "registered")
        /\ UNCHANGED <<cur, result, tagMap>>
     \/ /\ shut
        /\ SetErr(c, "closed")
        /\ tagMap' = IF c \in Batches THEN [tagMap EXCEPT ![MyID(c)] = 0] ELSE tagMap
        /\ NextPosition(c)
        /\ UNCHANGED <<slot, shut>>
  /\ UNCHANGED <<attempt, tag, holder, up, next, demux, brokerVars>>

\* PublishWithContext: on a dead channel it fails and the slot is cancelled;
\* the sequence number is not used up.
Send(c) ==
  /\ pc[c] = "registered"
  /\ \/ /\ up = "up"
        /\ sent' = Append(sent, <<MyTag(c), MyID(c)>>)
        /\ next' = next + 1
        /\ UNCHANGED <<result, slot, shut>>
     \/ /\ up = "dead"
        /\ Tracker!Release(MyTag(c))
        /\ SetErr(c, "closed")
        /\ UNCHANGED <<sent, next>>
  /\ NextPosition(c)
  /\ UNCHANGED <<attempt, tag, holder, up, tagMap, demux, verdict, confirmed, wire>>

\* tracker.Wait returns the outcome that is in the slot.
WaitReceive(c) ==
  /\ pc[c] = "waiting"
  /\ slot[MyTag(c)] \in Tracker!Outcomes
  /\ SetErr(c, slot[MyTag(c)])
  /\ Tracker!Release(MyTag(c))
  /\ NextWait(c)
  /\ UNCHANGED <<attempt, tag, holder, up, next, tagMap, demux, brokerVars>>

\* tracker.Wait gives up on the confirm timeout or the context, which may win
\* over an outcome that is there.
WaitGiveUp(c) ==
  /\ pc[c] = "waiting" /\ c \in Impatient
  /\ SetErr(c, "timeout")
  /\ Tracker!Release(MyTag(c))
  /\ NextWait(c)
  /\ UNCHANGED <<attempt, tag, holder, up, next, tagMap, demux, brokerVars>>

\* mutant: the map entries outlive the call
LeaveWithoutDelete(c) ==
  /\ pc[c] = "leaving"
  /\ holder' = NoCaller
  /\ Goto(c, IF c \in Batches THEN "done" ELSE "decide")
  /\ UNCHANGED <<cur, attempt, tag, result, chanVars, brokerVars>>

\* The map entries are deleted, then the channel is released.
Leave(c) ==
  /\ pc[c] = "leaving"
  /\ tagMap' = [m \in IDs |-> IF m \in Range(Jobs[c]) THEN 0 ELSE tagMap[m]]
  /\ holder' = NoCaller
  /\ Goto(c, IF c \in Batches THEN "done" ELSE "decide")
  /\ UNCHANGED <<cur, attempt, tag, result, up, next, slot, shut, demux, brokerVars>>

IsTransient(e) == e \in {"nacked", "timeout", "closed", "unavailable"}

\* The retry loop of Publish: a transient error is retried while retries are
\* left; a context that is done ends the call first.
Decide(c) ==
  /\ pc[c] = "decide"
  /\ \/ /\ IsTransient(result[c][1].err) /\ attempt[c] < Retries
        /\ attempt' = [attempt EXCEPT ![c] = @ + 1]
        /\ result' = [result EXCEPT ![c][1] = Pending]
        /\ Goto(c, "begin")
     \/ Goto(c, "done") /\ UNCHANGED <<attempt, result>>
  /\ UNCHANGED <<cur, tag, holder, chanVars, brokerVars>>

-----------------------------------------------------------------------------
(* The demultiplexer.  The reader blocks on the unbuffered return channel,   *)
(* so a confirm behind a return is not seen before that return is taken; a   *)
(* return may be taken before the buffered confirms in front of it.          *)

FirstReturn == SelectInSeq(wire, LAMBDA f : f[1] = "ret")

TakeReturn ==
  /\ demux = Idle
  /\ FirstReturn # 0
  /\ demux' = <<"lookup", wire[FirstReturn][2]>>
  /\ wire' = RemoveAt(wire, FirstReturn)
  /\ UNCHANGED <<callerVars, holder, up, next, slot, shut, tagMap, sent, verdict, confirmed>>

\* returnTagMap.LoadAndDelete by the MessageID of the return.
Lookup ==
  /\ demux[1] = "lookup"
  /\ LET m == demux[2]
     IN  /\ demux' = IF tagMap[m] = 0 THEN Idle ELSE <<"mark", tagMap[m]>>
         /\ tagMap' = [tagMap EXCEPT ![m] = 0]
  /\ UNCHANGED <<callerVars, holder, up, next, slot, shut, brokerVars>>

\* tracker.MarkReturned, after the OnReturn callback.
Mark ==
  /\ demux[1] = "mark"
  /\ \/ Tracker!Return(demux[2])
     \/ slot[demux[2]] # "open" /\ UNCHANGED <<slot, shut>>
  /\ demux' = Idle
  /\ UNCHANGED <<callerVars, holder, up, next, tagMap, brokerVars>>

FirstConfirm == SelectInSeq(wire, LAMBDA f : f[1] = "conf")

\* mutant: the return channel is buffered, so a confirm may overtake a return
TakeConfirmBuffered ==
  /\ demux = Idle
  /\ FirstConfirm # 0
  /\ LET t == wire[FirstConfirm][2]
     IN  Tracker!Settle(t, FALSE, IF verdict[t] = "nacked" THEN "nacked" ELSE "ack")
  /\ wire' = RemoveAt(wire, FirstConfirm)
  /\ UNCHANGED <<callerVars, holder, up, next, tagMap, demux, sent, verdict, confirmed>>

\* mutant: the Ack flag of the confirmation is not looked at
TakeConfirmAsNack ==
  /\ demux = Idle
  /\ FirstConfirm = 1
  /\ Tracker!Settle(wire[1][2], FALSE, "nacked")
  /\ wire' = Tail(wire)
  /\ UNCHANGED <<callerVars, holder, up, next, tagMap, demux, sent, verdict, confirmed>>

\* tracker.Ack or tracker.Nack.
TakeConfirm ==
  /\ demux = Idle
  /\ FirstConfirm = 1
  /\ LET t == wire[1][2]
     IN  Tracker!Settle(t, FALSE, IF verdict[t] = "nacked" THEN "nacked" ELSE "ack")
  /\ wire' = Tail(wire)
  /\ UNCHANGED <<callerVars, holder, up, next, tagMap, demux, sent, verdict, confirmed>>

\* mutant: the goroutine ends without closing the tracker
ConfirmsClosedQuietly ==
  /\ demux = Idle
  /\ up = "dead" /\ wire = <<>>
  /\ demux' = <<"ended">>
  /\ UNCHANGED <<callerVars, holder, up, next, slot, shut, tagMap, brokerVars>>

\* confirmCh is closed and drained: CloseAll, and the goroutine ends.
ConfirmsClosed ==
  /\ demux = Idle
  /\ up = "dead" /\ wire = <<>>
  /\ Tracker!Shut
  /\ demux' = <<"ended">>
  /\ UNCHANGED <<callerVars, holder, up, next, tagMap, brokerVars>>

-----------------------------------------------------------------------------
(* The broker and the connection (external).                                *)

\* The broker looks at a message: an unroutable one is returned at once.
BrokerRoute ==
  /\ up = "up" /\ sent # <<>>
  /\ \E v \in Verdicts \ {"none"} :
       /\ verdict' = [verdict EXCEPT ![Head(sent)[1]] = v]
       /\ wire' = IF v = "unroutable" THEN Append(wire, <<"ret", Head(sent)[2]>>) ELSE wire
  /\ sent' = Tail(sent)
  /\ UNCHANGED <<callerVars, holder, chanVars, confirmed>>

\* The confirm of the next delivery tag.
BrokerConfirm ==
  /\ up = "up"
  /\ confirmed + 1 \in Tags /\ verdict[confirmed + 1] # "none"
  /\ confirmed' = confirmed + 1
  /\ wire' = Append(wire, <<"conf", confirmed + 1>>)
  /\ UNCHANGED <<callerVars, holder, chanVars, sent, verdict>>

\* The channel or its socket is lost.  Confirms that were already buffered are
\* still read; anything later is gone.
ChannelDies ==
  /\ up = "up"
  /\ up' = "dead"
  /\ \E n \in 0..(IF FirstReturn = 0 THEN Len(wire) ELSE FirstReturn - 1) :
       wire' = SubSeq(wire, 1, n)
  /\ UNCHANGED <<callerVars, holder, next, slot, shut, tagMap, demux, sent, verdict, confirmed>>

CallerStep(c) ==
  \/ Publish(c) \/ Acquire(c) \/ Store(c) \/ Register(c) \/ Send(c)
  \/ WaitReceive(c) \/ Leave(c) \/ Decide(c)

DemuxStep == TakeReturn \/ Lookup \/ Mark \/ TakeConfirm \/ ConfirmsClosed
BrokerStep == BrokerRoute \/ BrokerConfirm

Next ==
  \/ \E c \in Callers : CallerStep(c) \/ Unavailable(c) \/ WaitGiveUp(c)
  \/ DemuxStep
  \/ BrokerStep
  \/ ChannelDies

Spec == Init /\ [][Next]_vars

\* Goroutines run, and a broker that is up answers.  No timeout and no
\* context is ever assumed to fire.  A caller blocked on the pool's token is
\* served in turn.
LiveSpec ==
  /\ Spec
  /\ \A c \in Callers : WF_vars(CallerStep(c)) /\ SF_vars(Acquire(c))
  /\ WF_vars(DemuxStep)
  /\ WF_vars(BrokerStep)

-----------------------------------------------------------------------------
(* Properties.                                                              *)

Results == {<<c, i>> \in Callers \X (1..MaxTag) : i \in DOMAIN Jobs[c]}

\* Publish reports nil only for a message the broker routed: a returned message
\* is never a success, however its return, its confirm, the caller's steps and
\* a channel death interleave.
NoSilentLoss ==
  \A r \in Results : result[r[1]][r[2]].err = "ack" => result[r[1]][r[2]].was = "routed"

\* ErrUnroutable is reported only for a message this attempt of which was
\* returned, and ErrPublishNacked only for one that was nacked.
NoFalseVerdict ==
  \A r \in Results : result[r[1]][r[2]].err \in {"unroutable", "nacked"}
                       => result[r[1]][r[2]].was = result[r[1]][r[2]].err

\* A map entry belongs to the call that holds the channel, so a return can
\* never be attributed to a message of an earlier call.
MapIsHolders ==
  \A m \in IDs : tagMap[m] # 0 => /\ holder # NoCaller
                                  /\ \E i \in DOMAIN Jobs[holder] :
                                       Jobs[holder][i] = m /\ tag[holder][i] = tagMap[m]

\* With no confirm timeout and no deadline, a call still ends: the broker's
\* answer or the death of the channel always reaches the waiter.
PublishEnds == \A c \in Callers : pc[c] = "begin" ~> pc[c] = "done"

\* Typed state, and a correlation map that belongs to the holder of the channel
\* (startConfirmDemux, publishAndWait).
CorrelationSound == TypeOK /\ MapIsHolders

(* What Publish reports is what the broker did: nil for nothing lost, and  *)
(* no verdict that is not the message's own.                               *)
VerdictSound == NoSilentLoss /\ NoFalseVerdict
=============================================================================
