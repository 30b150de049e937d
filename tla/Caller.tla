-------------------------------- MODULE Caller --------------------------------
(***************************************************************************)
(* Caller (rpc.go): concurrent calls share one dedicated channel, opened   *)
(* under the caller's mutex, and a dispatcher goroutine routes replies to  *)
(* them by correlation id.                                                 *)
(***************************************************************************)
EXTENDS RPCBroker

CONSTANTS Deadlines   \* the calls whose context has a deadline

VARIABLES
  pc,        \* a call: "idle", "lock", "barrier", "register", "publish", "wait", "ended"
  result,    \* what it returned: a reply's body, "timeout", "closed", "failed", "none"
  mine,      \* the session it uses
  expired,   \* calls whose context is done
  pending,   \* reply slots: call -> set of at most one reply body
  mu,        \* holder of Caller.mu: a set of at most one call
  session,   \* number of sessions opened; the last is c.session
  stream,    \* its reply stream: "none", "open", "closed", "done"
  open,      \* channels of the caller that are open
  leaked,    \* sessions whose reply queue was deleted under an open channel
  barrier,   \* the connection holds the reconnect barrier
  closed     \* Caller.closed

callerVars == <<pc, result, mine, expired, pending, mu, session, stream, open, leaked, barrier, closed>>

CallerInit ==
  /\ pc = [c \in Calls |-> "idle"] /\ result = [c \in Calls |-> "none"]
  /\ mine = [c \in Calls |-> 0] /\ expired = {}
  /\ pending = [c \in {} |-> {}] /\ mu = {}
  /\ session = 0 /\ stream = "none" /\ open = {} /\ leaked = {}
  /\ barrier = FALSE /\ closed = FALSE

Done(s) == s < session \/ stream = "done"

(* The deferred pending.Delete runs on every return after the Store.       *)
Unregister(c) == pending' = [d \in DOMAIN pending \ {c} |-> pending[d]]

Return(c, r) == pc' = [pc EXCEPT ![c] = "ended"] /\ result' = [result EXCEPT ![c] = r]

Begin(c) ==
  /\ pc[c] = "idle"
  /\ pc' = [pc EXCEPT ![c] = "lock"]
  /\ UNCHANGED <<netVars, result, mine, expired, pending, mu, session, stream, open, leaked,
                 barrier, closed>>

\* mutant: the mutex is not held while the session is opened
ensureSessionUnlocked(c) ==
  /\ pc[c] = "lock" /\ mu = {}
  /\ IF closed THEN Return(c, "failed") /\ UNCHANGED mine
     ELSE IF stream = "none" \/ stream = "done"
     THEN pc' = [pc EXCEPT ![c] = "barrier"] /\ UNCHANGED <<result, mine>>
     ELSE /\ pc' = [pc EXCEPT ![c] = "register"] /\ mine' = [mine EXCEPT ![c] = session]
          /\ UNCHANGED result
  /\ UNCHANGED <<netVars, expired, pending, mu, session, stream, open, leaked, barrier, closed>>

(* ensureSession: a live session is used; otherwise the mutex stays held   *)
(* while the call waits out the barrier and opens a new one.               *)
ensureSession(c) ==
  /\ pc[c] = "lock" /\ mu = {}
  /\ IF closed THEN Return(c, "failed") /\ UNCHANGED <<mine, mu>>
     ELSE IF stream = "none" \/ stream = "done"
     THEN pc' = [pc EXCEPT ![c] = "barrier"] /\ mu' = {c} /\ UNCHANGED <<result, mine>>
     ELSE /\ pc' = [pc EXCEPT ![c] = "register"] /\ mine' = [mine EXCEPT ![c] = session]
          /\ UNCHANGED <<result, mu>>
  /\ UNCHANGED <<netVars, expired, pending, session, stream, open, leaked, barrier, closed>>

(* waitBarrier fails with the context, or at the cap, which a blocked      *)
(* connection does not have.                                               *)
BarrierExpires(c) ==
  /\ pc[c] = "barrier" /\ barrier /\ c \in expired
  /\ mu' = mu \ {c}
  /\ Return(c, "timeout")
  /\ UNCHANGED <<netVars, mine, expired, pending, session, stream, open, leaked, barrier, closed>>

BarrierCap(c) ==
  /\ pc[c] = "barrier" /\ barrier
  /\ mu' = mu \ {c}
  /\ Return(c, "failed")
  /\ UNCHANGED <<netVars, mine, expired, pending, session, stream, open, leaked, barrier, closed>>

(* openSession: channel, reply queue and subscription, or a failure that   *)
(* closes the channel again.                                               *)
openSession(c) ==
  /\ pc[c] = "barrier" /\ ~barrier
  /\ mu' = mu \ {c}
  /\ session' = session + 1 /\ stream' = "open" /\ open' = open \cup {session + 1}
  /\ mine' = [mine EXCEPT ![c] = session + 1] /\ pc' = [pc EXCEPT ![c] = "register"]
  /\ UNCHANGED <<netVars, result, expired, pending, leaked, barrier, closed>>

openSessionFails(c) ==
  /\ pc[c] = "barrier" /\ ~barrier /\ Event
  /\ mu' = mu \ {c}
  /\ Return(c, "failed")
  /\ UNCHANGED <<queue, address, inbox, answered, mine, expired, pending, session, stream, open,
                 leaked, barrier, closed>>

(* Store the reply slot, before the request can be answered.               *)
Register(c) ==
  /\ pc[c] = "register"
  /\ pc' = [pc EXCEPT ![c] = "publish"]
  /\ pending' = [d \in DOMAIN pending \cup {c} |-> IF d = c THEN {} ELSE pending[d]]
  /\ UNCHANGED <<netVars, result, mine, expired, mu, session, stream, open, leaked, barrier, closed>>

(* A request that cannot be encoded ends the call before its slot exists.  *)
EncodeFails(c) ==
  /\ pc[c] = "register" /\ Event
  /\ Return(c, "failed")
  /\ UNCHANGED <<queue, address, inbox, answered, mine, expired, pending, mu, session, stream,
                 open, leaked, barrier, closed>>

(* Publish the request on the session's channel.                           *)
Publish(c) ==
  /\ pc[c] = "publish"
  /\ IF mine[c] \in open
     THEN /\ queue' = [queue EXCEPT ![c] = "ready"] /\ address' = [address EXCEPT ![c] = mine[c]]
          /\ pc' = [pc EXCEPT ![c] = "wait"]
          /\ UNCHANGED <<result, pending>>
     ELSE Return(c, "failed") /\ Unregister(c) /\ UNCHANGED <<queue, address>>
  /\ UNCHANGED <<inbox, answered, events, mine, expired, mu, session, stream, open, leaked,
                 barrier, closed>>

(* The select of Call: context, end of the session, or the reply.          *)
CallReturns(c) ==
  /\ pc[c] = "wait"
  /\ \/ c \in expired /\ Return(c, "timeout")
     \/ Done(mine[c]) /\ Return(c, "closed")
     \/ c \in DOMAIN pending /\ \E body \in pending[c] : Return(c, body)
  /\ Unregister(c)
  /\ UNCHANGED <<netVars, mine, expired, mu, session, stream, open, leaked, barrier, closed>>

\* mutant: a reply goes to whichever call waits
dispatchAny(r) ==
  /\ r \in inbox /\ r.to = session /\ stream \in {"open", "closed"}
  /\ inbox' = inbox \ {r}
  /\ \/ \E c \in DOMAIN pending : pending' = [pending EXCEPT ![c] = IF @ = {} THEN {r.body} ELSE @]
     \/ DOMAIN pending = {} /\ UNCHANGED pending
  /\ UNCHANGED <<queue, address, answered, events, pc, result, mine, expired, mu, session, stream,
                 open, leaked, barrier, closed>>

(* The dispatcher hands a reply to the slot of its correlation id; without *)
(* a slot, or with a full one, the reply is dropped.                       *)
dispatch(r) ==
  /\ r \in inbox /\ r.to = session /\ stream \in {"open", "closed"}
  /\ inbox' = inbox \ {r}
  /\ pending' = [c \in DOMAIN pending |->
                   IF c = r.cid /\ pending[c] = {} THEN {r.body} ELSE pending[c]]
  /\ UNCHANGED <<queue, address, answered, events, pc, result, mine, expired, mu, session, stream,
                 open, leaked, barrier, closed>>

(* The stream is closed and drained: every call of the session is woken.   *)
signalDone ==
  /\ stream = "closed" /\ \A r \in inbox : r.to # session
  /\ stream' = "done"
  /\ UNCHANGED <<netVars, pc, result, mine, expired, pending, mu, session, open, leaked, barrier, closed>>

(* The channel dies: replies the library has not received are lost.        *)
SessionDies ==
  /\ session \in open /\ Event
  /\ open' = open \ {session}
  /\ stream' = IF stream = "open" THEN "closed" ELSE stream
  /\ \E lost \in SUBSET inbox : inbox' = inbox \ lost
  /\ UNCHANGED <<queue, address, answered, pc, result, mine, expired, pending, mu, session, leaked,
                 barrier, closed>>

(* The exclusive reply queue is deleted: the stream ends, the channel does *)
(* not.                                                                    *)
ReplyQueueDeleted ==
  /\ stream = "open" /\ Event
  /\ stream' = "closed" /\ leaked' = leaked \cup {session}
  /\ UNCHANGED <<queue, address, inbox, answered, pc, result, mine, expired, pending, mu, session,
                 open, barrier, closed>>

BarrierHeld ==
  /\ ~barrier /\ Event /\ barrier' = TRUE
  /\ UNCHANGED <<queue, address, inbox, answered, pc, result, mine, expired, pending, mu, session,
                 stream, open, leaked, closed>>

BarrierLifted ==
  /\ barrier /\ barrier' = FALSE
  /\ UNCHANGED <<netVars, pc, result, mine, expired, pending, mu, session, stream, open, leaked, closed>>

Expire(c) ==
  /\ c \in Deadlines \ expired /\ pc[c] \notin {"idle", "ended"}
  /\ expired' = expired \cup {c}
  /\ UNCHANGED <<netVars, pc, result, mine, pending, mu, session, stream, open, leaked, barrier, closed>>

(* Close takes the mutex and closes the channel of the session.            *)
Close ==
  /\ mu = {} /\ ~closed /\ Event
  /\ closed' = TRUE
  /\ open' = open \ {session} /\ stream' = IF stream = "open" THEN "closed" ELSE stream
  /\ UNCHANGED <<queue, address, inbox, answered, pc, result, mine, expired, pending, mu, session,
                 leaked, barrier>>

CallStep(c) == \/ ensureSession(c) \/ BarrierExpires(c) \/ openSession(c) \/ openSessionFails(c)
               \/ Register(c) \/ EncodeFails(c) \/ Publish(c) \/ CallReturns(c)

CallerNext ==
  \/ \E c \in Calls : Begin(c) \/ CallStep(c) \/ BarrierCap(c) \/ Expire(c)
  \/ \E r \in inbox : dispatch(r)
  \/ signalDone \/ SessionDies \/ ReplyQueueDeleted \/ BarrierHeld \/ BarrierLifted \/ Close
=============================================================================
