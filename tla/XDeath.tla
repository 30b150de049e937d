------------------------------- MODULE XDeath --------------------------------
(***************************************************************************)
(* internal/headers/xdeath.go: what the x-death header of a delivery says    *)
(* about the queue it was consumed from.  The broker keeps one entry for    *)
(* every queue and reason; a header that is absent or not a list is <<>>,    *)
(* and a field that is absent or of another type is "" or 0.                *)
(***************************************************************************)
EXTENDS Integers, Sequences, SequencesExt

CONSTANT MaxInt   \* the largest int of the platform

ASSUME XDeathAssumption == MaxInt \in Nat

normalizeReason(reason) == IF reason = "delivery_limit" THEN "delivery-limit" ELSE reason

\* The reasons that count towards MaxRedeliveries.
Counted == {"rejected", "delivery-limit"}

Capped(n) == IF n < 0 THEN 0 ELSE IF n > MaxInt THEN MaxInt ELSE n

\* mutant: the sum of two counts wraps around
addWrapping(a, b) == IF a + b > MaxInt THEN (a + b) - 2 * (MaxInt + 1) ELSE a + b

\* Compare before adding: the sum saturates.
add(a, b) == IF b > MaxInt - a THEN MaxInt ELSE a + b

NoDeath == [Count |-> 0, Reasons |-> <<>>, byReason |-> <<>>]

CountByReason(r, reason) ==
  LET n == normalizeReason(reason) IN IF n \in DOMAIN r.byReason THEN r.byReason[n] ELSE 0

ParseXDeath(entries, queue) ==
  LET entry(r, e) ==
        LET reason == normalizeReason(e.reason)
            sum == add(CountByReason(r, reason), Capped(e.count))
        IN IF e.queue # queue THEN r
           ELSE [Count |-> IF reason \in Counted THEN add(r.Count, Capped(e.count)) ELSE r.Count,
                 Reasons |-> IF Contains(r.Reasons, reason) THEN r.Reasons
                             ELSE Append(r.Reasons, reason),
                 byReason |-> [x \in DOMAIN r.byReason \cup {reason} |->
                                 IF x = reason THEN sum ELSE r.byReason[x]]]
  IN FoldLeft(entry, NoDeath, entries)

\* The broker's bookkeeping when a message dies in a queue: its entry moves to
\* the front, one higher.
Died(entries, queue, reason) ==
  LET mine(e) == e.queue = queue /\ e.reason = reason
      others(e) == ~mine(e)
      before == SelectSeq(entries, mine)
      n == IF before = <<>> THEN 0 ELSE before[1].count
  IN <<[queue |-> queue, reason |-> reason, count |-> n + 1]>> \o SelectSeq(entries, others)
=============================================================================
