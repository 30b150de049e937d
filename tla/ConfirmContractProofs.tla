----------------------- MODULE ConfirmContractProofs -------------------------
(***************************************************************************)
(* The tracker implements ConfirmContract: each of its steps, seen through  *)
(* SlotOf, is a step of the contract or changes nothing.                    *)
(***************************************************************************)
EXTENDS ConfirmTrackerProofs

AbsSlot == [t \in Tags |-> SlotOf(t)]

LEMMA SlotRange ==
  ASSUME IInv, NEW t \in Tags
  PROVE  /\ SlotOf(t) = "free" <=> call[t] \in {"idle", "leaving"}
         /\ SlotOf(t) \in {"open", "returned"} <=> Unresolved(t)
         /\ Unresolved(t) => SlotOf(t) = IF returned[t] THEN "returned" ELSE "open"
         /\ SlotOf(t) \notin {"free", "open", "returned"} => SlotOf(t) = done[t]
<1>1. /\ call[t] \in CallStates /\ done[t] \in {"none"} \cup Outcomes
      /\ call[t] \in {"registered", "waiting"} /\ t \notin pending => done[t] = "closed"
  BY DEF IInv, TypeOK, ClosedResolvesAll
<1> QED BY <1>1 DEF SlotOf, Unresolved, CallStates, Outcomes

LEMMA RegisterRefines ==
  ASSUME IInv, NEW tag \in Tags, Register(tag)
  PROVE  Contract!Open(tag)
<1>0. TypeOK
  BY DEF IInv
<1>1. ~closed /\ UNCHANGED closed /\ SlotOf(tag) = "free"
  BY DEF Register, SlotOf
<1>2. SlotOf(tag)' = "open"
  BY <1>0 DEF Register, SlotOf, TypeOK
<1>3. \A t \in Tags \ {tag} : SlotOf(t)' = SlotOf(t)
  BY <1>0 DEF Register, SlotOf, TypeOK
<1> QED BY <1>1, <1>2, <1>3 DEF Contract!Open

LEMMA MarkReturnedRefines ==
  ASSUME IInv, NEW tag \in Tags, MarkReturned(tag)
  PROVE  Contract!Return(tag) \/ (UNCHANGED AbsSlot /\ UNCHANGED closed)
<1>0. TypeOK /\ UNCHANGED closed
  BY DEF IInv, MarkReturned
<1>1. \A t \in Tags \ {tag} : SlotOf(t)' = SlotOf(t)
  BY <1>0 DEF MarkReturned, SlotOf, TypeOK
<1>2. CASE SlotOf(tag) = "open"
  <2>1. SlotOf(tag)' = "returned"
    BY <1>0, <1>2 DEF MarkReturned, SlotOf, TypeOK, Outcomes
  <2> QED BY <1>0, <1>1, <1>2, <2>1 DEF Contract!Return
<1>3. CASE SlotOf(tag) # "open"
  <2>1. SlotOf(tag)' = SlotOf(tag)
    BY <1>0, <1>3 DEF MarkReturned, SlotOf, TypeOK
  <2> QED BY <1>0, <1>1, <2>1 DEF AbsSlot
<1> QED BY <1>2, <1>3

\* A frame reaches exactly the unresolved tags it names: the low-water mark
\* hides none and the walk goes no further than the frame's tag.
LEMMA ConfirmCovers ==
  ASSUME IInv, NEW tag \in Tags, NEW multiple \in BOOLEAN, NEW base \in {"ack", "nacked"},
         Confirm(tag, multiple, base)
  PROVE  \E S \in SUBSET Tags :
           /\ resolveAll(S, base)
           /\ \A u \in Tags : Unresolved(u) => (u \in S <=> u = tag \/ (multiple /\ u <= tag))
<1>1. CASE ~multiple
  BY <1>1 DEF Confirm
<1>2. CASE multiple
  <2> DEFINE i == Walk(order, head, {u \in Tags : u <= tag})
             visited == {order[k] : k \in (head + 1)..i}
  <2>1. resolveAll(visited, base)
    BY <1>2 DEF Confirm, resolveUpTo
  <2>2. /\ i \in head..Len(order)
        /\ \A k \in (head + 1)..i : order[k] \in Tags /\ order[k] <= tag
        /\ \A t \in Tags : Unresolved(t) /\ t <= tag => t \in visited
    BY WalkVisits
  <2>3. tag <= tag
    BY TrackerAssumption
  <2> HIDE DEF i
  <2>4. visited \in SUBSET Tags /\ \A u \in visited : u <= tag
    BY <2>2
  <2>5. \A u \in Tags : Unresolved(u) => (u \in visited <=> u = tag \/ (multiple /\ u <= tag))
    BY <1>2, <2>2, <2>3, <2>4
  <2> HIDE DEF visited
  <2> QED BY <2>1, <2>4, <2>5
<1> QED BY <1>1, <1>2

LEMMA ConfirmRefines ==
  ASSUME IInv, NEW tag \in Tags, NEW multiple \in BOOLEAN, NEW base \in {"ack", "nacked"},
         Confirm(tag, multiple, base)
  PROVE  Contract!Settle(tag, multiple, base)
<1>1. PICK S \in SUBSET Tags :
        /\ resolveAll(S, base)
        /\ \A u \in Tags : Unresolved(u) => (u \in S <=> u = tag \/ (multiple /\ u <= tag))
  BY ConfirmCovers
<1>2. TypeOK /\ UNCHANGED <<pending, returned, closed, call>>
  BY DEF IInv, Confirm
<1>3. ASSUME NEW u \in Tags
      PROVE  SlotOf(u)' = IF (u = tag \/ (multiple /\ u <= tag)) /\ SlotOf(u) \in {"open", "returned"}
                            THEN IF base = "ack" /\ SlotOf(u) = "returned" THEN "unroutable" ELSE base
                            ELSE SlotOf(u)
  <2>1. CASE Unresolved(u)
    <3>1. done'[u] = IF u \in S THEN IF returned[u] /\ base = "ack" THEN "unroutable" ELSE base
                                ELSE "none"
      BY <1>1, <2>1 DEF resolveAll, Unresolved
    <3>2. SlotOf(u) = IF returned[u] THEN "returned" ELSE "open"
      BY <2>1, SlotRange
    <3>3. SlotOf(u)' = IF done'[u] # "none" THEN done'[u]
                       ELSE IF returned[u] THEN "returned" ELSE "open"
      BY <1>2, <2>1 DEF SlotOf, Unresolved
    <3> QED BY <1>1, <2>1, <3>1, <3>2, <3>3
  <2>2. CASE ~Unresolved(u)
    <3>1. SlotOf(u) \notin {"open", "returned"}
      BY <2>2, SlotRange
    <3>2. done[u] # "none" => done'[u] = done[u]
      BY <1>1 DEF resolveAll
    <3>3. SlotOf(u)' = SlotOf(u)
      BY <1>2, <3>1, <3>2 DEF SlotOf
    <3> QED BY <3>1, <3>3
  <2> QED BY <2>1, <2>2
<1> QED BY <1>2, <1>3 DEF Contract!Settle, Contract!Verdict, Contract!Live

LEMMA CloseAllRefines ==
  ASSUME IInv, CloseAll
  PROVE  Contract!Shut
<1>1. TypeOK /\ closed' = TRUE /\ UNCHANGED <<returned, call>>
  BY DEF IInv, CloseAll
<1>2. ASSUME NEW u \in Tags
      PROVE  SlotOf(u)' = IF SlotOf(u) \in {"open", "returned"} THEN "closed" ELSE SlotOf(u)
  <2>1. CASE Unresolved(u)
    <3>1. done'[u] = "closed"
      BY <2>1 DEF CloseAll, Unresolved
    <3>2. SlotOf(u)' = "closed"
      BY <1>1, <2>1, <3>1 DEF SlotOf, Unresolved
    <3> QED BY <2>1, <3>2, SlotRange
  <2>2. CASE ~Unresolved(u)
    <3>1. SlotOf(u) \notin {"open", "returned"}
      BY <2>2, SlotRange
    <3>2. done[u] # "none" => done'[u] = done[u]
      BY DEF CloseAll
    <3> QED BY <1>1, <3>1, <3>2 DEF SlotOf
  <2> QED BY <2>1, <2>2
<1> QED BY <1>1, <1>2 DEF Contract!Shut, Contract!Live

\* A caller that drops its tag, takes its outcome or stops waiting.
LEMMA LeaveRefines ==
  ASSUME IInv, NEW tag \in Tags, SlotOf(tag) # "free", UNCHANGED closed,
         call' = [call EXCEPT ![tag] = "idle"] \/ call' = [call EXCEPT ![tag] = "leaving"],
         \A t \in Tags \ {tag} : done'[t] = done[t] /\ returned'[t] = returned[t]
  PROVE  Contract!Release(tag)
<1>0. TypeOK
  BY DEF IInv
<1>1. SlotOf(tag)' = "free"
  BY <1>0 DEF SlotOf, TypeOK
<1>2. \A t \in Tags \ {tag} : SlotOf(t)' = SlotOf(t)
  BY <1>0 DEF SlotOf, TypeOK
<1> QED BY <1>1, <1>2 DEF Contract!Release

LEMMA CallerRefines ==
  ASSUME IInv, NEW tag \in Tags,
         \/ Cancel(tag) \/ WaitLookup(tag) \/ WaitReceive(tag)
         \/ WaitGiveUp(tag) \/ WaitDelete(tag)
  PROVE  Contract!Release(tag) \/ (UNCHANGED AbsSlot /\ UNCHANGED closed)
<1>0. TypeOK
  BY DEF IInv
<1>1. CASE call[tag] = "leaving"
  <2>1. WaitDelete(tag)
    BY <1>1 DEF Cancel, WaitLookup, WaitReceive, WaitGiveUp
  <2>2. \A t \in Tags : SlotOf(t)' = SlotOf(t)
    BY <1>0, <1>1, <2>1 DEF WaitDelete, Forget, SlotOf, TypeOK
  <2> QED BY <2>1, <2>2 DEF AbsSlot, WaitDelete, Forget
<1>2. CASE WaitLookup(tag) /\ tag \in pending
  <2>1. \A t \in Tags : SlotOf(t)' = SlotOf(t)
    BY <1>0, <1>2 DEF WaitLookup, SlotOf, TypeOK
  <2> QED BY <1>2, <2>1 DEF AbsSlot, WaitLookup
<1>3. CASE call[tag] # "leaving" /\ ~(WaitLookup(tag) /\ tag \in pending)
  <2>1. SlotOf(tag) # "free"
    <3>1. call[tag] \notin {"idle", "leaving"}
      BY <1>3 DEF Cancel, WaitLookup, WaitReceive, WaitGiveUp, WaitDelete
    <3> QED BY <3>1, SlotRange
  <2>2. call' = [call EXCEPT ![tag] = "idle"] \/ call' = [call EXCEPT ![tag] = "leaving"]
    BY <1>3 DEF Cancel, Forget, WaitLookup, WaitReceive, WaitGiveUp, WaitDelete
  <2>3. \A t \in Tags \ {tag} : done'[t] = done[t] /\ returned'[t] = returned[t]
    BY <1>0, <1>3 DEF Cancel, Forget, WaitLookup, WaitReceive, WaitGiveUp, WaitDelete, TypeOK
  <2>4. UNCHANGED closed
    BY DEF Cancel, Forget, WaitLookup, WaitReceive, WaitGiveUp, WaitDelete
  <2> QED BY <2>1, <2>2, <2>3, <2>4, LeaveRefines
<1> QED BY <1>1, <1>2, <1>3

LEMMA NextRefines ==
  ASSUME IInv, [Next]_vars
  PROVE  [Contract!ContractNext]_(Contract!contractVars)
<1> USE DEF Contract!ContractNext, Contract!contractVars
<1>1. ASSUME NEW tag \in Tags, Register(tag)
      PROVE  [Contract!ContractNext]_(Contract!contractVars)
  BY <1>1, RegisterRefines
<1>2. ASSUME NEW tag \in Tags,
             \/ Cancel(tag) \/ WaitLookup(tag) \/ WaitReceive(tag)
             \/ WaitGiveUp(tag) \/ WaitDelete(tag)
      PROVE  [Contract!ContractNext]_(Contract!contractVars)
  BY <1>2, CallerRefines DEF AbsSlot
<1>3. ASSUME NEW tag \in Tags, MarkReturned(tag)
      PROVE  [Contract!ContractNext]_(Contract!contractVars)
  BY <1>3, MarkReturnedRefines DEF AbsSlot
<1>4. ASSUME NEW tag \in Tags, NEW multiple \in BOOLEAN, NEW base \in {"ack", "nacked"},
             Confirm(tag, multiple, base)
      PROVE  [Contract!ContractNext]_(Contract!contractVars)
  BY <1>4, ConfirmRefines
<1>5. CASE CloseAll
  BY <1>5, CloseAllRefines
<1>6. CASE UNCHANGED vars
  BY <1>6 DEF vars, SlotOf
<1> QED BY <1>1, <1>2, <1>3, <1>4, <1>5, <1>6 DEF Next

\* For every set of tags and every threshold the tracker of internal/confirms,
\* with its index, low-water mark and three-step Wait, is a correct
\* implementation of the contract the publisher relies on.
THEOREM TrackerRefinesContract == Spec => ImplementsContract
<1>1. Init => Contract!ContractInit
  BY DEF Init, Contract!ContractInit, SlotOf
<1>2. IInv /\ [Next]_vars => [Contract!ContractNext]_(Contract!contractVars)
  BY NextRefines
<1> QED BY <1>1, <1>2, TrackerInvariant, PTL
        DEF Spec, ImplementsContract, Contract!ContractSpec
=============================================================================
