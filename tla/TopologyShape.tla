---------------------------- MODULE TopologyShape ----------------------------
(***************************************************************************)
(* What a Topology declares (topology.go): validate, the expansion of dead *)
(* letters, and what the builders of consumers and repliers conclude from  *)
(* it (topologyHasDLX).  A name is a sequence, << >> when empty, so that   *)
(* the names expand makes up, <source>.dlx and <source>.dlq, are distinct  *)
(* from each other.  An argument that is absent is "" or << >>.  Limits,   *)
(* times and lengths are left out.                                         *)
(***************************************************************************)
EXTENDS Integers, Sequences, FiniteSets, SequencesExt

Kinds == {"direct", "fanout", "topic", "headers", "x-delayed-message"}
QueueTypes == {"", "classic", "quorum", "stream"}
Overflows == {"", "drop-head", "reject-publish", "reject-publish-dlx"}
Strategies == {"", "at-least-once", "at-most-once"}

(* flags: "durable", "exclusive", "autoDelete", "singleActive";  raw: Args *)
(* holds a key that has a field of its own.                                *)
Queue(name) ==
  [name |-> name, type |-> "", flags |-> {"durable"}, deliveryLimit |-> 0, maxPriority |-> 0,
   raw |-> FALSE, dlx |-> << >>, dlKey |-> "", strategy |-> "", overflow |-> ""]

Exchange(name) ==
  [name |-> name, kind |-> "topic", alternate |-> << >>, raw |-> FALSE, delayedType |-> ""]

DeadLetter(source) ==
  [source |-> source, exchange |-> << >>, routingKey |-> "", overflow |-> "",
   dlqUnbounded |-> FALSE, dlqOverflow |-> ""]

NoTopology == [exchanges |-> << >>, queues |-> << >>, bindings |-> << >>,
               exchangeBindings |-> << >>, deadLetters |-> << >>]

-----------------------------------------------------------------------------
(* The last DeadLetter of q that sets x-overflow wins over the argument.   *)
EffectiveOverflow(t, q) ==
  LET set == SelectSeq(t.deadLetters, LAMBDA d : d.source = q.name /\ d.overflow # "")
  IN  IF set # << >> THEN Last(set).overflow ELSE q.overflow

DeadLettersOf(t, name) == SelectSeq(t.deadLetters, LAMBDA d : d.source = name)

AtLeastOnce(t, q) ==
  /\ q.type = "quorum" /\ (q.dlx # << >> \/ DeadLettersOf(t, q.name) # << >>)
  /\ q.strategy \in {"", "at-least-once"}

\* mutant: the raw argument is looked at, the DeadLetter is not
quorumAtLeastOnceRaw(t, q) == [atLeastOnce |-> AtLeastOnce(t, q), overflow |-> q.overflow]

quorumAtLeastOnce(t, q) ==
  [atLeastOnce |-> AtLeastOnce(t, q), overflow |-> EffectiveOverflow(t, q)]

-----------------------------------------------------------------------------
(* validate                                                                *)

Distinct(s) == \A m, n \in DOMAIN s : s[m].name = s[n].name => m = n

validExchange(e) ==
  /\ e.name # << >> /\ e.kind \in Kinds /\ ~e.raw
  /\ e.kind = "x-delayed-message" => e.delayedType \in Kinds \ {"x-delayed-message"}

validQueue(t, q) ==
  LET coupled == quorumAtLeastOnce(t, q) IN
  /\ q.name # << >> /\ ~q.raw /\ q.type \in QueueTypes
  /\ q.deliveryLimit > 0 => q.type = "quorum"
  /\ q.maxPriority \in 0 .. 255
  /\ q.maxPriority > 0 => q.type \in {"", "classic"}
  /\ q.type \in {"quorum", "stream"} =>
       "durable" \in q.flags /\ q.flags \cap {"exclusive", "autoDelete"} = {}
  /\ q.type = "stream" => "singleActive" \notin q.flags
  /\ coupled.atLeastOnce => coupled.overflow \in {"", "reject-publish"}

(* A fanout exchange that is not of this topology is not known as one.     *)
validBinding(t, b) ==
  /\ b.exchange # << >> /\ b.queue # << >>
  /\ b.routingKey # "" =>
       \A e \in Range(t.exchanges) : e.name = b.exchange => e.kind # "fanout"

validDeadLetter(t, d) ==
  /\ d.source # << >> /\ d.overflow \in Overflows /\ d.dlqOverflow \in Overflows
  /\ \A q \in Range(t.queues) : q.name = d.source => q.type # "stream"

validate(t) ==
  /\ Distinct(t.exchanges) /\ \A e \in Range(t.exchanges) : validExchange(e)
  /\ Distinct(t.queues) /\ \A q \in Range(t.queues) : validQueue(t, q)
  /\ \A b \in Range(t.bindings) : validBinding(t, b)
  /\ \A b \in Range(t.exchangeBindings) : b.source # << >> /\ b.destination # << >>
  /\ \A d \in Range(t.deadLetters) : validDeadLetter(t, d)

-----------------------------------------------------------------------------
(* expand                                                                  *)

dlxName(d) == IF d.exchange = << >> THEN d.source \o <<"dlx">> ELSE d.exchange
dlqName(d) == d.source \o <<"dlq">>

(* The queue index holds what the caller declared: a DeadLetter whose      *)
(* source is not among it, an automatic DLQ included, is skipped.          *)
Expanded(t) ==
  SelectSeq(t.deadLetters, LAMBDA d : \E q \in Range(t.queues) : q.name = d.source)

(* A declared queue as expand leaves it: the last DeadLetter names its     *)
(* DLX, the last one with a routing key the key of its dead letters;       *)
(* strategy and overflow are filled in if unset.                           *)
Filled(t, q) ==
  LET mine == DeadLettersOf(t, q.name)
      keyed == SelectSeq(mine, LAMBDA d : d.routingKey # "")
      overflow == EffectiveOverflow(t, q)
  IN  [q EXCEPT !.dlx = IF mine # << >> THEN dlxName(Last(mine)) ELSE @,
                !.dlKey = IF keyed # << >> THEN Last(keyed).routingKey ELSE @,
                !.strategy = IF AtLeastOnce(t, q) THEN "at-least-once" ELSE @,
                !.overflow = IF AtLeastOnce(t, q) /\ overflow = "" THEN "reject-publish"
                             ELSE overflow]

autoDLQ(d) ==
  [Queue(dlqName(d)) EXCEPT !.overflow =
     IF d.dlqUnbounded THEN "" ELSE IF d.dlqOverflow = "" THEN "drop-head" ELSE d.dlqOverflow]

(* One after the other, each name once: what the caller declared, or the   *)
(* first DeadLetter that needs it, decides.                                *)
AppendNew(s, e) == IF \E x \in Range(s) : x.name = e.name THEN s ELSE Append(s, e)

Exchanges(t) == FoldLeft(LAMBDA s, d : AppendNew(s, Exchange(dlxName(d))), t.exchanges, Expanded(t))

Queues(t) ==
  FoldLeft(LAMBDA s, d : AppendNew(s, autoDLQ(d)),
           [n \in DOMAIN t.queues |-> Filled(t, t.queues[n])], Expanded(t))

DLQBinding(d) ==
  [exchange |-> dlxName(d), queue |-> dlqName(d),
   routingKey |-> IF d.routingKey = "" THEN "#" ELSE d.routingKey]

\* mutant: an exchange that has a binding with the key is not bound again
BindingsByKey(t) ==
  LET known(s, b) == \E x \in Range(s) : x.exchange = b.exchange /\ x.routingKey = b.routingKey
  IN  FoldLeft(LAMBDA s, d : IF known(s, DLQBinding(d)) THEN s ELSE Append(s, DLQBinding(d)),
               t.bindings, Expanded(t))

Bindings(t) ==
  FoldLeft(LAMBDA s, d : IF Contains(s, DLQBinding(d)) THEN s ELSE Append(s, DLQBinding(d)),
           t.bindings, Expanded(t))

expand(t) == [exchanges |-> Exchanges(t), queues |-> Queues(t), bindings |-> Bindings(t),
              exchangeBindings |-> t.exchangeBindings, deadLetters |-> t.deadLetters]

-----------------------------------------------------------------------------
(* What the builders conclude                                              *)

topologyHasDLX(t, queue) ==
  \/ \E d \in Range(t.deadLetters) : d.source = queue
  \/ \E q \in Range(t.queues) : q.name = queue /\ q.dlx # << >>

(* ReplierBuilder.Build refuses a request queue without a DLX unless the   *)
(* caller allows it; ConsumerBuilder.Build only warns.                     *)
ReplierBuilds(t, queue, allowMissingDLX) == topologyHasDLX(t, queue) \/ allowMissingDLX
=============================================================================
