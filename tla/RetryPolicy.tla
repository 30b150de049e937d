----------------------------- MODULE RetryPolicy -----------------------------
(***************************************************************************)
(* errors.go and retry.go: how errors are classified, and how long a retry  *)
(* waits.  An error is [is, reply, codes]: the sentinels in its chain, the   *)
(* reply code of an amqp091.Error in it (0 when there is none) and the reply *)
(* codes whose sentinels wrap it.                                            *)
(***************************************************************************)
EXTENDS Integers

CONSTANTS
  defaultMin,   \* one second, the backoff floor of a policy that names none
  defaultMax    \* thirty seconds

ASSUME RetryAssumption ==
  /\ defaultMin \in Nat \ {0} /\ defaultMax \in Nat \ {0}

NoError == [is |-> {}, reply |-> 0, codes |-> {}]
Sentinels(S) == [NoError EXCEPT !.is = S]
BrokerError(code) == [NoError EXCEPT !.reply = code]

\* amqpCodeSentinels, and the codes the two classifiers list.
amqpCodes == {311, 320, 402, 403, 404, 405, 406} \cup (501..506) \cup {530, 540, 541}
transientCodes == {320, 504, 541}

\* wrapAMQPError: a reply code of the table adds its sentinel to the chain, any
\* other error is returned as it is.
wrapAMQPError(e) == IF e.reply \in amqpCodes THEN [e EXCEPT !.codes = @ \cup {e.reply}] ELSE e

transientSentinels ==
  {"ErrTransient", "ErrChannelPoolExhausted", "ErrPublishNacked", "ErrConnectionBlocked",
   "ErrConfirmTimeout", "ErrChannelClosed", "ErrReconnecting", "ErrRateLimited"}

IsTransient(e) ==
  /\ "Canceled" \notin e.is
  /\ e.is \cap transientSentinels # {} \/ e.codes \cap transientCodes # {}

IsPermanent(e) ==
  \/ e.is \cap {"ErrPermanent", "ErrTopologyRedeclareFailed", "ErrMessageTooLarge"} # {}
  \/ e.codes \cap (amqpCodes \ transientCodes) # {}

Smaller(a, b) == IF a < b THEN a ELSE b
Larger(a, b) == IF a < b THEN b ELSE a

\* The effective window of a policy.
lo(policy) == IF policy.min <= 0 THEN defaultMin ELSE policy.min
hi(policy) == Larger(lo(policy), IF policy.max <= 0 THEN defaultMax ELSE policy.max)

\* The exponential delay of retry n.  The factor is given in halves, and one that
\* is not positive is two.
exponential(policy, n) ==
  LET factor == IF policy.factor <= 0 THEN 4 ELSE policy.factor
  IN  Smaller((lo(policy) * factor ^ (n - 1)) \div (2 ^ (n - 1)), hi(policy))

drawn(policy, n) ==
  CASE policy.jitter = "none" -> {exponential(policy, n)}
    [] policy.jitter = "equal" -> (exponential(policy, n) \div 2)..exponential(policy, n)
    [] policy.jitter = "full" -> 0..exponential(policy, n)


\* NextBackoff: the delays it may return for retry n.
NextBackoff(policy, n) == {Larger(lo(policy), Smaller(d, hi(policy))) : d \in drawn(policy, n)}
=============================================================================
