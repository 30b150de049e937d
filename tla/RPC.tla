--------------------------------- MODULE RPC ---------------------------------
(***************************************************************************)
(* A Caller and a Replier over one broker: the request/reply round trip of *)
(* rpc.go and rpc_replier.go, at least once.                               *)
(***************************************************************************)
EXTENDS Caller, Replier

vars == <<netVars, callerVars, replierVars>>

Init == NetInit /\ CallerInit /\ ReplierInit

(* A session listens while its subscription is open.                       *)
Listening(s) == s = session /\ stream = "open"

ReplierNext ==
  \/ \E w \in Workers : WorkStep(w) \/ \E c \in Calls : Receive(w, c)
  \/ \E p \in wire : BrokerTakes(p, Listening(p.to)) \/ BrokerRefuses(p) \/ ConfirmFrame(p)
  \/ EntryDies \/ EntryNoticed \/ CloseAll \/ RequestsRedelivered \/ StopServing \/ CloseReplies

Next == \/ CallerNext /\ UNCHANGED replierVars
        \/ ReplierNext /\ UNCHANGED callerVars

Spec == Init /\ [][Next]_vars

(* Calls, workers, the dispatcher and the demultiplexer run, handlers      *)
(* return, deadlines and confirm timeouts fire.  Nothing is assumed of the *)
(* broker or of the connection: a barrier may be held for ever.            *)
Fairness ==
  /\ \A c \in Calls : /\ WF_vars(CallStep(c) /\ UNCHANGED replierVars)
                      /\ WF_vars(Expire(c) /\ UNCHANGED replierVars)
                      /\ SF_vars(ensureSession(c) /\ UNCHANGED replierVars)
  /\ \A w \in Workers : WF_vars(WorkStep(w) /\ UNCHANGED callerVars)
  /\ WF_vars(((\E r \in inbox : dispatch(r)) \/ signalDone) /\ UNCHANGED replierVars)
  /\ WF_vars(CloseAll /\ UNCHANGED callerVars)

LiveSpec == Spec /\ Fairness
-----------------------------------------------------------------------------
(* The state of caller, broker and replier is well formed; the mutexes     *)
(* have at most one holder.                                                *)
TypeOK ==
  /\ queue \in [Calls -> {"none", "ready", "unacked", "acked", "dropped"}]
  /\ pc \in [Calls -> {"idle", "lock", "barrier", "register", "publish", "wait", "ended"}]
  /\ mine \in [Calls -> 0..session] /\ address \in [Calls -> 0..session]
  /\ expired \subseteq Deadlines /\ DOMAIN pending \subseteq Calls
  /\ \A c \in DOMAIN pending : pending[c] \subseteq Calls /\ Cardinality(pending[c]) <= 1
  /\ Cardinality(mu) <= 1 /\ Cardinality(lock) <= 1
  /\ stream \in {"none", "open", "closed", "done"} /\ open \cup leaked \subseteq 1..session
  /\ at \in [Workers -> {"idle", "handle", "lock", "ensure", "register", "send", "wait"}]
  /\ ch \in {"none", "live", "dead", "noticed", "drained"}
  /\ \A w \in Workers : at[w] = "wait" => tag[w] \in DOMAIN slots
  /\ \A t \in DOMAIN slots : slots[t] \in {"pending", "ack", "nack", "closed"}
  /\ events \in 0..MaxEvents /\ answered \subseteq Calls

(* A call returns the reply to its own request and to no other, although   *)
(* all calls share one channel and replies come late and twice.            *)
ReplyToOwnCall == \A c \in Calls : result[c] \in Calls => result[c] = c

(* The Replier acks a request only after the broker has confirmed a reply  *)
(* to it, whatever happens to either channel in between.                   *)
AckedMeansConfirmed == \A c \in Calls : queue[c] = "acked" => c \in answered

(* Reply slots exist exactly while a call can use them: none leaks from a  *)
(* failed call, and none is missing when a reply may come.                 *)
SlotsMatchCalls == DOMAIN pending = {c \in Calls : pc[c] \in {"publish", "wait"}}

(* Callers that race to reopen the session, and Close, leave no channel    *)
(* behind: only c.session has one, and none after Close.  A session whose  *)
(* reply queue was deleted keeps its channel.                              *)
ChannelsOwned ==
  /\ open \subseteq {session} \cup leaked
  /\ closed => open \subseteq leaked

(* A call whose reply has come, or whose session has ended, returns: the   *)
(* dispatcher never waits for a reader.                                    *)
AnsweredReturns ==
  \A c \in Calls :
     (/\ pc[c] = "wait" /\ mine[c] = session
      /\ stream = "closed" \/ [to |-> session, cid |-> c, body |-> c] \in inbox)
     ~> pc[c] = "ended"

(* Every request the Replier takes gets a verdict: no failure of handler,  *)
(* reply channel or confirm leaves it unacknowledged.                      *)
RequestsSettled == \A c \in Calls : queue[c] = "unacked" ~> queue[c] # "unacked"

(* A call with a deadline ends, except behind another call that holds the  *)
(* mutex and waits out a barrier.                                          *)
DeadlineEndsUnlessLocked ==
  \A c \in Deadlines : pc[c] # "idle" ~> (pc[c] = "ended" \/ (barrier /\ mu \notin {{}, {c}}))

(* Typed state in which neither reply slots nor channels leak (Call,       *)
(* ensureSession, Close).                                                  *)
NothingLeaks == TypeOK /\ SlotsMatchCalls /\ ChannelsOwned


(* A call blocks at most until its deadline.                               *)
DeadlineEnds == \A c \in Deadlines : pc[c] # "idle" ~> pc[c] = "ended"
=============================================================================
