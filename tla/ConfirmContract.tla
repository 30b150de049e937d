--------------------------- MODULE ConfirmContract ---------------------------
(***************************************************************************)
(* What the confirm tracker of internal/confirms promises to a publisher,   *)
(* without the ordered index, the low-water mark or the locks: each         *)
(* delivery tag has one slot, a slot receives at most one outcome, a frame  *)
(* with multiple=true settles every open slot up to its tag, and closing    *)
(* leaves no slot open.                                                     *)
(***************************************************************************)
EXTENDS Naturals

CONSTANT Tags           \* the delivery tags of one AMQP channel

VARIABLES
  slot,                 \* tag -> "free", "open", "returned" or its outcome
  shut                  \* CloseAll has run

contractVars == <<slot, shut>>

Outcomes == {"ack", "unroutable", "nacked", "closed"}
Live == {"open", "returned"}

ContractTypeOK ==
  /\ slot \in [Tags -> {"free"} \cup Live \cup Outcomes]
  /\ shut \in BOOLEAN

ContractInit ==
  /\ slot = [t \in Tags |-> "free"]
  /\ shut = FALSE

\* The outcome a confirmation gives a live slot: an ack of a returned
\* publish is "unroutable", a nack is "nacked" either way.
Verdict(s, base) ==
  IF base = "ack" /\ s = "returned" THEN "unroutable" ELSE base

Open(t) ==
  /\ ~shut
  /\ slot[t] = "free"
  /\ slot' = [slot EXCEPT ![t] = "open"]
  /\ UNCHANGED shut

Return(t) ==
  /\ slot[t] = "open"
  /\ slot' = [slot EXCEPT ![t] = "returned"]
  /\ UNCHANGED shut

Settle(t, multiple, base) ==
  /\ slot' = [u \in Tags |->
                IF (u = t \/ (multiple /\ u <= t)) /\ slot[u] \in Live
                  THEN Verdict(slot[u], base) ELSE slot[u]]
  /\ UNCHANGED shut

Shut ==
  /\ shut' = TRUE
  /\ slot' = [t \in Tags |-> IF slot[t] \in Live THEN "closed" ELSE slot[t]]

\* A slot is given up when its publish never left, when the publisher takes
\* the outcome, and when it stops waiting on its timeout or its context.
Release(t) ==
  /\ slot[t] # "free"
  /\ slot' = [slot EXCEPT ![t] = "free"]
  /\ UNCHANGED shut

ContractNext ==
  \/ \E t \in Tags :
       \/ Open(t) \/ Return(t) \/ Release(t)
       \/ \E multiple \in BOOLEAN, base \in {"ack", "nacked"} :
            Settle(t, multiple, base)
  \/ Shut

ContractSpec == ContractInit /\ [][ContractNext]_contractVars
=============================================================================
