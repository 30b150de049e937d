------------------------------ MODULE RPCBroker ------------------------------
(***************************************************************************)
(* The broker between a Caller and a Replier, as rpc.go and rpc_replier.go *)
(* use it: the request queue, and replies routed by direct reply-to or an  *)
(* exclusive queue to the one channel that subscribed.  External.          *)
(***************************************************************************)
EXTENDS Integers, FiniteSets, Sequences

CONSTANTS Calls,      \* calls, each with a correlation id and a request of its own
          MaxEvents   \* bound: dead channels, deleted queues, barriers, Close

ASSUME RPCAssumption == MaxEvents \in Nat

VARIABLES
  queue,     \* the request of a call: "none", "ready", "unacked", "acked", "dropped"
  address,   \* the session a request names in ReplyTo
  inbox,     \* replies on the way to a session: [to: session, cid: Calls, body: Calls]
  answered,  \* history: calls with a reply the broker has accepted
  events

netVars == <<queue, address, inbox, answered, events>>

NetInit ==
  /\ queue = [c \in Calls |-> "none"] /\ address = [c \in Calls |-> 0]
  /\ inbox = {} /\ answered = {} /\ events = 0

Event == events < MaxEvents /\ events' = events + 1
=============================================================================
