------------------------------ MODULE MCTopology ------------------------------
(* Two connections; the first topology is a quorum queue with up to two    *)
(* dead letters, the second one of several shapes, most of them refused.   *)
EXTENDS Topology

With(queues, dls) == [NoTopology EXCEPT !.queues = queues, !.deadLetters = dls]

Source == [Queue(<<"q">>) EXCEPT !.type = "quorum"]
Sources == {[Source EXCEPT !.dlx = x, !.strategy = s, !.overflow = o] :
              x \in {<< >>, <<"manual">>}, s \in Strategies, o \in {"", "drop-head"}}

Dead(x, o) == [DeadLetter(<<"q">>) EXCEPT !.exchange = x, !.overflow = o]
Keyed(d) == [d EXCEPT !.routingKey = "dead"]
DeadLetterLists ==
  {<< >>} \cup {<<Dead(<< >>, o)>> : o \in Overflows}
          \cup {<<Keyed(Dead(<< >>, o)), Dead(<<"named">>, "reject-publish")>> : o \in {"", "drop-head"}}
          \cup {<<Dead(<< >>, "reject-publish"), Keyed(Dead(<<"named">>, ""))>>}
          \cup {<<Dead(<< >>, "reject-publish"), Dead(<<"named">>, "drop-head")>>}

(* Two sources of one exchange, which the caller declares, with a DLQ that *)
(* the caller declares and a second exchange bound to the first; and a     *)
(* DeadLetter of a queue that is not declared, an automatic DLQ.           *)
Shared ==
  [exchanges |-> <<Exchange(<<"dead">>), Exchange(<<"in">>)>>,
   queues |-> <<Queue(<<"a">>), Queue(<<"b">>), Queue(<<"a", "dlq">>)>>,
   bindings |-> <<[exchange |-> <<"in">>, queue |-> <<"a">>, routingKey |-> "k"]>>,
   exchangeBindings |-> <<[source |-> <<"in">>, destination |-> <<"dead">>]>>,
   deadLetters |-> <<[DeadLetter(<<"a">>) EXCEPT !.exchange = <<"dead">>],
                     [DeadLetter(<<"b">>) EXCEPT !.exchange = <<"dead">>]>>]
Chain == With(<<Queue(<<"a">>)>>, <<DeadLetter(<<"a">>), DeadLetter(<<"a", "dlq">>)>>)

(* A binding to an exchange nobody declares, and topologies validate       *)
(* refuses.                                                                *)
Loose == [NoTopology EXCEPT !.queues = <<Queue(<<"a">>)>>,
            !.bindings = <<[exchange |-> <<"x">>, queue |-> <<"a">>, routingKey |-> ""]>>]
Invalid ==
  { With(<<[Source EXCEPT !.flags = {}]>>, << >>),
    With(<<Source, Source>>, << >>),
    With(<<[Source EXCEPT !.maxPriority = 1]>>, << >>),
    With(<<[Queue(<<"a">>) EXCEPT !.deliveryLimit = 1]>>, << >>),
    With(<<[Queue(<<"a">>) EXCEPT !.type = "stream"]>>, <<DeadLetter(<<"a">>)>>),
    [NoTopology EXCEPT !.exchanges = <<[Exchange(<<"x">>) EXCEPT !.kind = "x-delayed-message"]>>] }

MCInputs ==
  {[key |-> "k1", topo |-> With(<<s>>, d)] : s \in Sources, d \in DeadLetterLists}
    \cup {[key |-> "k2", topo |-> t] : t \in {Shared, Chain, Loose} \cup Invalid}
===============================================================================
