---------------------------- MODULE MCPublishPath ----------------------------
(***************************************************************************)
(* A small instance of PublishPath.  At the pool: more callers than slots,   *)
(* one channel identity more than the pool may have open.  Before it: two    *)
(* callers, of which one publishes every kind of message encodeMsg refuses   *)
(* and two that it rewrites; two connections, of which the first is lost and *)
(* redeclared.                                                               *)
(***************************************************************************)
EXTENDS PublishPath, TLC

CONSTANTS p1, p2, p3, c1, c2

MCProcs == {p1, p2, p3}
MCChans == {c1, c2}
MCCallers == {p1, p2}

Leaf(k, t, n) == [key |-> k, type |-> t, nest |-> n]
Plain == [id |-> "", user |-> "", hasBody |-> TRUE, size |-> 1, delay |-> 0, expiration |-> 0,
          headers |-> {}, codec |-> [fails |-> FALSE, headers |-> {}]]

Refused ==
  {[Plain EXCEPT !.expiration = d] : d \in {-2, -1, 1}} \cup
  {[Plain EXCEPT !.delay = d] : d \in {-2, Ms * (MaxInt + 1)}} \cup
  {[Plain EXCEPT !.user = "other"], [Plain EXCEPT !.hasBody = FALSE],
   [Plain EXCEPT !.size = maxMessageSize + 1], [Plain EXCEPT !.codec.fails = TRUE],
   [Plain EXCEPT !.headers = {Leaf("k", "struct", 0)}],
   [Plain EXCEPT !.headers = {Leaf("k", "string", maxHeaderDepth + 1)}],
   [Plain EXCEPT !.codec.headers = {Leaf("ce", "struct", 0)}]}

Rewritten ==
  [Plain EXCEPT !.id = "own", !.delay = Ms * MaxInt + 1, !.expiration = 3,
                !.headers = {Leaf("x-delay", "string", 0)}]

Merged ==
  [Plain EXCEPT !.delay = -1, !.headers = {Leaf("k", "int", 1), Leaf("ce", "uint", 0)},
                !.codec.headers = {Leaf("ce", "string", 0), Leaf("n", "int", 0)}]

MCMessages == (p1 :> (Refused \cup {Rewritten})) @@ (p2 :> {Merged})

MCPolicies == {[min |-> 2, max |-> 4, factor |-> 4, jitter |-> "full", retries |-> 1]}
MCWatched == {p1}
MCUnsteady == {1}
MCCtxEnds == (p1 :> {"Canceled"}) @@ (p2 :> {})
=============================================================================
