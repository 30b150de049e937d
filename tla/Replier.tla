------------------------------- MODULE Replier -------------------------------
(***************************************************************************)
(* Replier (rpc_replier.go): worker goroutines of an internal consumer run *)
(* the handler, publish the reply on a shared confirm channel, wait for    *)
(* its confirm, and settle the request afterwards.                         *)
(***************************************************************************)
EXTENDS RPCBroker

CONSTANTS Workers   \* handler goroutines; Build leaves the consumer at one

VARIABLES
  at,        \* a worker: "idle", "handle", "lock", "ensure", "register", "send", "wait"
  req,       \* its request: [call: Calls, chan: Nat], or NoReq
  reqChan,   \* number of the request channel in use
  lock,      \* holder of replyPublisher.mu: a set of at most one worker
  entry,     \* number of the confirm channel opened last
  ch,        \* it: "none", "live", "dead", "noticed" (closeCh closed), "drained" (CloseAll done)
  nextTag,   \* GetNextPublishSeqNo of it
  tag,       \* the tag a worker has taken: [entry, tag]
  slots,     \* the trackers: <<entry, tag>> -> "pending", "ack", "nack", "closed"
  wire,      \* replies published and not yet confirmed: [tag, call, to, st]
  serving    \* Serve has not been told to stop

NoReq == [call |-> "none", chan |-> 0]

replierVars == <<at, req, reqChan, lock, entry, ch, nextTag, tag, slots, wire, serving>>

ReplierInit ==
  /\ at = [w \in Workers |-> "idle"] /\ req = [w \in Workers |-> NoReq] /\ reqChan = 1
  /\ lock = {} /\ entry = 0 /\ ch = "none" /\ nextTag = 1
  /\ tag = [w \in Workers |-> <<0, 0>>] /\ slots = [t \in {} |-> "pending"] /\ wire = {}
  /\ serving = TRUE

Receive(w, c) ==
  /\ serving /\ at[w] = "idle" /\ queue[c] = "ready"
  /\ queue' = [queue EXCEPT ![c] = "unacked"]
  /\ req' = [req EXCEPT ![w] = [call |-> c, chan |-> reqChan]]
  /\ at' = [at EXCEPT ![w] = "handle"]
  /\ UNCHANGED <<address, inbox, answered, events, reqChan, lock, entry, ch, nextTag, tag, slots,
                 wire, serving>>

(* The verdict on the request; it is lost with the request's channel.      *)
Settle(w, verdict) ==
  /\ queue' = IF req[w].chan = reqChan THEN [queue EXCEPT ![req[w].call] = verdict] ELSE queue
  /\ req' = [req EXCEPT ![w] = NoReq]
  /\ at' = [at EXCEPT ![w] = "idle"]
  /\ tag' = [tag EXCEPT ![w] = <<0, 0>>]

(* The handler fails, or its response cannot be encoded: nackDrop.         *)
HandlerFails(w) ==
  /\ at[w] = "handle"
  /\ Settle(w, "dropped")
  /\ UNCHANGED <<address, inbox, answered, events, reqChan, lock, entry, ch, nextTag, slots, wire,
                 serving>>

HandlerReturns(w) ==
  /\ at[w] = "handle"
  /\ at' = [at EXCEPT ![w] = "lock"]
  /\ UNCHANGED <<netVars, req, reqChan, lock, entry, ch, nextTag, tag, slots, wire, serving>>

Lock(w) ==
  /\ at[w] = "lock" /\ lock = {}
  /\ lock' = {w} /\ at' = [at EXCEPT ![w] = "ensure"]
  /\ UNCHANGED <<netVars, req, reqChan, entry, ch, nextTag, tag, slots, wire, serving>>

(* ensureEntryLocked keeps a channel that is not known to be closed;       *)
(* otherwise it opens another with a tracker of its own.                   *)
ensureEntryLocked(w) ==
  /\ at[w] = "ensure"
  /\ IF ch \in {"none", "noticed", "drained"}
     THEN entry' = entry + 1 /\ ch' = "live" /\ nextTag' = 1
     ELSE UNCHANGED <<entry, ch, nextTag>>
  /\ at' = [at EXCEPT ![w] = "register"]
  /\ UNCHANGED <<netVars, req, reqChan, lock, tag, slots, wire, serving>>

ensureFails(w) ==
  /\ at[w] = "ensure" /\ ch \in {"none", "noticed", "drained"} /\ Event
  /\ lock' = {} /\ ch' = "none"
  /\ Settle(w, "dropped")
  /\ UNCHANGED <<address, inbox, answered, reqChan, entry, nextTag, slots, wire, serving>>

(* Take the next tag and register it, unless the tracker is closed.        *)
RegisterReply(w) ==
  /\ at[w] = "register"
  /\ IF ch = "drained"
     THEN lock' = {} /\ Settle(w, "dropped") /\ UNCHANGED slots
     ELSE /\ tag' = [tag EXCEPT ![w] = <<entry, nextTag>>]
          /\ slots' = [t \in DOMAIN slots \cup {<<entry, nextTag>>} |->
                         IF t = <<entry, nextTag>> THEN "pending" ELSE slots[t]]
          /\ at' = [at EXCEPT ![w] = "send"]
          /\ UNCHANGED <<lock, queue, req>>
  /\ UNCHANGED <<address, inbox, answered, events, reqChan, entry, ch, nextTag, wire, serving>>

Forget(w) == slots' = [t \in DOMAIN slots \ {tag[w]} |-> slots[t]]

(* Publish and unlock; a publish that fails cancels its tag.               *)
SendReply(w) ==
  /\ at[w] = "send"
  /\ lock' = {}
  /\ IF ch = "live"
     THEN /\ wire' = wire \cup {[tag |-> tag[w], call |-> req[w].call,
                                 to |-> address[req[w].call], st |-> "sent"]}
          /\ nextTag' = nextTag + 1 /\ at' = [at EXCEPT ![w] = "wait"]
          /\ UNCHANGED <<slots, queue, req, tag>>
     ELSE Forget(w) /\ Settle(w, "dropped") /\ UNCHANGED <<wire, nextTag>>
  /\ UNCHANGED <<address, inbox, answered, events, reqChan, entry, ch, serving>>

(* The confirm arrives: ack the request, or drop it.                       *)
Confirmed(w) ==
  /\ at[w] = "wait" /\ slots[tag[w]] # "pending"
  /\ Settle(w, IF slots[tag[w]] = "ack" THEN "acked" ELSE "dropped")
  /\ Forget(w)
  /\ UNCHANGED <<address, inbox, answered, events, reqChan, lock, entry, ch, nextTag, wire, serving>>

\* mutant: a confirm that does not come in time counts as sent
ConfirmTimeoutAcks(w) ==
  /\ at[w] = "wait"
  /\ Settle(w, "acked")
  /\ Forget(w)
  /\ UNCHANGED <<address, inbox, answered, events, reqChan, lock, entry, ch, nextTag, wire, serving>>


(* Wait ends with ErrTimeout or the context: the request is dropped.       *)
ConfirmTimeout(w) ==
  /\ at[w] = "wait"
  /\ Settle(w, "dropped")
  /\ Forget(w)
  /\ UNCHANGED <<address, inbox, answered, events, reqChan, lock, entry, ch, nextTag, wire, serving>>

(* The broker accepts a reply, also one of a channel that has died since,  *)
(* and routes it if its session listens; or it refuses the reply.          *)
BrokerTakes(p, listening) ==
  /\ p \in wire /\ p.st = "sent"
  /\ wire' = (wire \ {p}) \cup (IF p.tag[1] = entry /\ ch = "live" THEN {[p EXCEPT !.st = "ack"]} ELSE {})
  /\ answered' = answered \cup {p.call}
  /\ inbox' = IF listening THEN inbox \cup {[to |-> p.to, cid |-> p.call, body |-> p.call]} ELSE inbox
  /\ UNCHANGED <<queue, address, events, at, req, reqChan, lock, entry, ch, nextTag, tag, slots, serving>>

BrokerRefuses(p) ==
  /\ p \in wire /\ p.st = "sent" /\ p.tag[1] = entry /\ ch = "live" /\ Event
  /\ wire' = (wire \ {p}) \cup {[p EXCEPT !.st = "nack"]}
  /\ UNCHANGED <<queue, address, inbox, answered, at, req, reqChan, lock, entry, ch, nextTag, tag,
                 slots, serving>>

(* The demultiplexer resolves the tag of a confirm frame.                  *)
ConfirmFrame(p) ==
  /\ ch = "live" /\ p \in wire /\ p.st # "sent"
  /\ wire' = wire \ {p}
  /\ slots' = [t \in DOMAIN slots |-> IF t = p.tag THEN p.st ELSE slots[t]]
  /\ UNCHANGED <<netVars, at, req, reqChan, lock, entry, ch, nextTag, tag, serving>>

EntryDies ==
  /\ ch = "live" /\ Event /\ ch' = "dead"
  /\ wire' = {p \in wire : p.st = "sent"}
  /\ UNCHANGED <<queue, address, inbox, answered, at, req, reqChan, lock, entry, nextTag, tag, slots, serving>>

EntryNoticed ==
  /\ ch = "dead" /\ ch' = "noticed"
  /\ UNCHANGED <<netVars, at, req, reqChan, lock, entry, nextTag, tag, slots, wire, serving>>

(* The demultiplexer of a dead channel ends with CloseAll.                 *)
CloseAll ==
  /\ ch = "noticed" \/ \E t \in DOMAIN slots : slots[t] = "pending" /\ t[1] < entry
  /\ slots' = [t \in DOMAIN slots |-> IF slots[t] = "pending" /\ (t[1] < entry \/ ch = "noticed")
                                      THEN "closed" ELSE slots[t]]
  /\ ch' = IF ch = "noticed" THEN "drained" ELSE ch
  /\ UNCHANGED <<netVars, at, req, reqChan, lock, entry, nextTag, tag, wire, serving>>

(* The request channel dies: its requests are delivered again.             *)
RequestsRedelivered ==
  /\ Event
  /\ reqChan' = reqChan + 1
  /\ queue' = [c \in Calls |-> IF queue[c] = "unacked" THEN "ready" ELSE queue[c]]
  /\ UNCHANGED <<address, inbox, answered, at, req, lock, entry, ch, nextTag, tag, slots, wire, serving>>

StopServing ==
  /\ serving /\ Event /\ serving' = FALSE
  /\ UNCHANGED <<queue, address, inbox, answered, at, req, reqChan, lock, entry, ch, nextTag, tag, slots, wire>>

(* ConsumeRaw has returned: close the reply channel.                       *)
CloseReplies ==
  /\ ~serving /\ ch # "none" /\ \A w \in Workers : at[w] = "idle"
  /\ ch' = "none" /\ wire' = {p \in wire : p.st = "sent"}
  /\ UNCHANGED <<netVars, at, req, reqChan, lock, entry, nextTag, tag, slots, serving>>

WorkStep(w) == \/ HandlerFails(w) \/ HandlerReturns(w) \/ Lock(w) \/ ensureEntryLocked(w)
               \/ ensureFails(w) \/ RegisterReply(w) \/ SendReply(w) \/ Confirmed(w)
               \/ ConfirmTimeout(w)
=============================================================================
