----------------------------- MODULE MCDispatch -----------------------------
(* Two messages, two handlers and six ways to configure a consumer.        *)
EXTENDS Dispatch

CONSTANTS m1, m2

MCMsgs == {m1, m2}

(* The bytes of a message id: two characters of one byte, and one of two.  *)
MCRuneStarts == {"a", "b", "u"}

(* Two copies of one message; two ids that agree in the bytes of the key,  *)
(* which ends before a split character; one message with and one without   *)
(* an id.                                                                  *)
Copies == [m \in MCMsgs |-> <<"a">>]
Alike == [m \in MCMsgs |-> IF m = m1 THEN <<"a", "u", "+">> ELSE <<"a", "u", "+", "b">>]
Mixed == [m \in MCMsgs |-> IF m = m1 THEN <<"a", "b", "b">> ELSE <<>>]

(* The first message died three times for each of two reasons, more than   *)
(* an int holds; the second only elsewhere, or for reasons not counted.    *)
Died0 == [m \in MCMsgs |-> <<>>]
Entry(q, reason, n) == [queue |-> q, reason |-> reason, count |-> n]
Bounced == [m \in MCMsgs |->
  IF m = m1
  THEN <<Entry("q", "rejected", 3), Entry("q", "expired", 1), Entry("q", "delivery_limit", 3)>>
  ELSE <<Entry("retry", "rejected", 3), Entry("q", "expired", 2), Entry("q", "rejected", -1)>>]

(* The second body is larger than the whole budget.                        *)
MCSize == [m \in MCMsgs |-> IF m = m1 THEN 1 ELSE 3]

Plain == [raw |-> FALSE, noAck |-> FALSE, dedupe |-> FALSE, timeout |-> "none", id |-> Mixed,
          death |-> Died0]

MCSetups ==
  { Plain,
    [Plain EXCEPT !.id = Alike, !.death = Bounced],
    [Plain EXCEPT !.dedupe = TRUE, !.timeout = "drop", !.id = Copies],
    [Plain EXCEPT !.timeout = "requeue"],
    [Plain EXCEPT !.raw = TRUE, !.timeout = "requeue"],
    [Plain EXCEPT !.noAck = TRUE, !.timeout = "drop"] }
=============================================================================
