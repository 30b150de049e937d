--------------------------- MODULE ConfirmTracker ----------------------------
(***************************************************************************)
(* internal/confirms/tracker.go: the per-channel publisher-confirm tracker. *)
(* Each operation runs under t.mu and is one action, except Wait, whose     *)
(* lookup, select and delete are three separate critical sections.  One     *)
(* caller per delivery tag registers it, publishes, and waits; the confirm  *)
(* demultiplexer calls MarkReturned, Ack, Nack and CloseAll at any moment.  *)
(***************************************************************************)
EXTENDS Integers, SequencesExt

CONSTANTS
  Tags,                   \* delivery tags the callers may use
  orderCompactMinPrefix,  \* the constant of the same name (64 in the code)
  MaxIndex                \* bound: Register needs Len(order) < MaxIndex

ASSUME TrackerAssumption ==
  /\ Tags \subseteq Nat \ {0}
  /\ orderCompactMinPrefix \in Nat
  /\ MaxIndex \in Nat

VARIABLES
  pending,   \* keys of the pending map
  done,      \* tag -> buffered value of its waiter's done channel, or "none"
  returned,  \* tag -> its waiter's returned flag
  order,     \* ascending index of registered tags
  head,      \* low-water mark: order[head+1 ..] is the live window
  closed,    \* set by CloseAll
  call       \* tag -> where the caller that owns the tag is

vars == <<pending, done, returned, order, head, closed, call>>

Outcomes == {"ack", "unroutable", "nacked", "closed"}
CallStates == {"idle", "registered", "waiting", "leaving"}

TypeOK ==
  /\ pending \in SUBSET Tags
  /\ done \in [Tags -> {"none"} \cup Outcomes]
  /\ returned \in [Tags -> BOOLEAN]
  /\ order \in Seq(Tags)
  /\ head \in 0..Len(order)
  /\ closed \in BOOLEAN
  /\ call \in [Tags -> CallStates]

Init ==
  /\ pending = {}
  /\ done = [t \in Tags |-> "none"]
  /\ returned = [t \in Tags |-> FALSE]
  /\ order = <<>>
  /\ head = 0
  /\ closed = FALSE
  /\ call = [t \in Tags |-> "idle"]

-----------------------------------------------------------------------------
(* The ordered index.  Positions are 0-based, as in the code.               *)

\* The first position at or after "from" whose tag is not in S.
Walk(ord, from, S) ==
  Min({i \in from..Len(ord) : i = Len(ord) \/ ord[i + 1] \notin S})

\* mutant: the dead prefix is never reclaimed
compactOrderNever(ix) ==
  IF ix.head >= Len(ix.order) THEN [order |-> <<>>, head |-> 0] ELSE ix

\* mutant: head is not reset with the prefix it counts
compactOrderKeepHead(ix) ==
  IF ix.head > orderCompactMinPrefix /\ ix.head * 2 >= Len(ix.order)
    THEN [ix EXCEPT !.order = SubSeq(ix.order, ix.head + 1, Len(ix.order))]
    ELSE ix

compactOrder(ix) ==
  IF ix.head = 0 THEN ix
  ELSE IF ix.head >= Len(ix.order) THEN [order |-> <<>>, head |-> 0]
  ELSE IF ix.head > orderCompactMinPrefix /\ ix.head * 2 >= Len(ix.order)
    THEN [order |-> SubSeq(ix.order, ix.head + 1, Len(ix.order)), head |-> 0]
  ELSE ix

advanceLowWater(ix, pend) ==
  compactOrder([ix EXCEPT !.head = Walk(ix.order, ix.head, Tags \ pend)])

\* mutant: head is not pulled back to a tag inserted below it
orderInsertNoPull(tag) ==
  IF order = <<>> \/ tag > order[Len(order)]
    THEN [order |-> Append(order, tag), head |-> head]
    ELSE [order |-> InsertAt(order, Walk(order, 0, {u \in Tags : u < tag}) + 1, tag),
          head |-> head]

\* The append, or the binary-search insert that pulls head back.
orderInsert(tag) ==
  IF order = <<>> \/ tag > order[Len(order)]
    THEN [order |-> Append(order, tag), head |-> head]
    ELSE LET idx == Walk(order, 0, {u \in Tags : u < tag})
         IN  [order |-> InsertAt(order, idx + 1, tag),
              head  |-> IF idx < head THEN idx ELSE head]

SetIndex(ix) == order' = ix.order /\ head' = ix.head

-----------------------------------------------------------------------------
(* Resolution.                                                              *)

\* mutant: a later frame overwrites the buffered outcome
resolveOverwrite(S, base) ==
  done' = [t \in Tags |->
             IF t \in S \cap pending
               THEN IF returned[t] /\ base = "ack" THEN "unroutable" ELSE base
               ELSE done[t]]

\* mutant: the returned flag is not looked at
resolveIgnoresReturn(S, base) ==
  done' = [t \in Tags |->
             IF t \in S \cap pending /\ done[t] = "none" THEN base ELSE done[t]]

\* resolveOne for every tag of S: a non-blocking send into a buffer of one.
resolveAll(S, base) ==
  done' = [t \in Tags |->
             IF t \in S \cap pending /\ done[t] = "none"
               THEN IF returned[t] /\ base = "ack" THEN "unroutable" ELSE base
               ELSE done[t]]

resolveUpTo(tag, base) ==
  LET i == Walk(order, head, {u \in Tags : u <= tag})
  IN  /\ resolveAll({order[k] : k \in (head + 1)..i}, base)
      /\ SetIndex(advanceLowWater([order |-> order, head |-> i], pending))

-----------------------------------------------------------------------------
(* Operations of the demultiplexer.                                         *)

MarkReturned(tag) ==
  /\ tag \in pending
  /\ returned' = [returned EXCEPT ![tag] = TRUE]
  /\ UNCHANGED <<pending, done, order, head, closed, call>>

\* Ack (base = "ack") and Nack (base = "nacked").
Confirm(tag, multiple, base) ==
  /\ \/ multiple /\ resolveUpTo(tag, base)
     \/ ~multiple /\ resolveAll({tag}, base) /\ UNCHANGED <<order, head>>
  /\ UNCHANGED <<pending, returned, closed, call>>

\* mutant: only the flag is set
CloseAllFlagOnly ==
  /\ closed' = TRUE
  /\ UNCHANGED <<pending, done, returned, order, head, call>>

CloseAll ==
  /\ closed' = TRUE
  /\ LET open == {t \in pending : done[t] = "none"}
     IN  /\ done' = [t \in Tags |-> IF t \in open THEN "closed" ELSE done[t]]
         /\ pending' = pending \ open
  /\ UNCHANGED <<returned, order, head, call>>

-----------------------------------------------------------------------------
(* Operations of the caller that owns a tag.                                *)

\* On a closed tracker Register returns ErrClosed and changes nothing.
Register(tag) ==
  /\ call[tag] = "idle"
  /\ ~closed
  /\ Len(order) < MaxIndex
  /\ pending' = pending \cup {tag}
  /\ done' = [done EXCEPT ![tag] = "none"]
  /\ returned' = [returned EXCEPT ![tag] = FALSE]
  /\ SetIndex(advanceLowWater(orderInsert(tag), pending'))
  /\ call' = [call EXCEPT ![tag] = "registered"]
  /\ UNCHANGED closed

\* The caller lets go of the waiter, which nobody refers to any more.
Forget(tag) ==
  /\ pending' = pending \ {tag}
  /\ done' = [done EXCEPT ![tag] = "none"]
  /\ returned' = [returned EXCEPT ![tag] = FALSE]
  /\ call' = [call EXCEPT ![tag] = "idle"]
  /\ UNCHANGED <<order, head, closed>>

\* The publish failed after Register: the tag may be used again.
Cancel(tag) == call[tag] = "registered" /\ Forget(tag)

\* Wait, first critical section: the lookup.  A missing slot is ErrClosed.
WaitLookup(tag) ==
  /\ call[tag] = "registered"
  /\ call' = [call EXCEPT ![tag] = IF tag \in pending THEN "waiting" ELSE "leaving"]
  /\ UNCHANGED <<pending, done, returned, order, head, closed>>

\* Wait, the done arm of the select: the outcome is returned.
WaitReceive(tag) ==
  /\ call[tag] = "waiting"
  /\ done[tag] # "none"
  /\ done' = [done EXCEPT ![tag] = "none"]
  /\ call' = [call EXCEPT ![tag] = "leaving"]
  /\ UNCHANGED <<pending, returned, order, head, closed>>

\* Wait, the timer and ctx arms; either may be chosen with done ready too.
WaitGiveUp(tag) ==
  /\ call[tag] = "waiting"
  /\ call' = [call EXCEPT ![tag] = "leaving"]
  /\ UNCHANGED <<pending, done, returned, order, head, closed>>

\* Wait, last critical section: every arm deletes the slot.
WaitDelete(tag) == call[tag] = "leaving" /\ Forget(tag)

Next ==
  \/ \E tag \in Tags :
       \/ Register(tag) \/ Cancel(tag) \/ WaitLookup(tag)
       \/ WaitReceive(tag) \/ WaitGiveUp(tag) \/ WaitDelete(tag)
       \/ MarkReturned(tag)
       \/ \E multiple \in BOOLEAN, base \in {"ack", "nacked"} :
            Confirm(tag, multiple, base)
  \/ CloseAll

Spec == Init /\ [][Next]_vars

-----------------------------------------------------------------------------
(* Properties.                                                              *)

Unresolved(t) ==
  t \in pending /\ done[t] = "none" /\ call[t] \in {"registered", "waiting"}

\* Every tag a caller still needs a confirm for is inside the live window
\* order[head:], so the next multiple=true frame cannot miss it; the window is
\* what resolveUpTo walks, and out-of-order inserts, re-registration after
\* Cancel, ghosts and compaction all move it.
LiveWindow ==
  \A t \in Tags : Unresolved(t) => \E k \in (head + 1)..Len(order) : order[k] = t

\* The index stays sorted: both the binary search of orderInsert and the early
\* stop of resolveUpTo depend on it.
Sorted ==
  \A i, j \in 1..Len(order) : i < j => order[i] <= order[j]

\* compactOrder keeps the index of a long-lived channel from growing with the
\* tags it has already confirmed: once the dead prefix exceeds the threshold it
\* is less than half of the index.
DeadPrefixBounded ==
  head > orderCompactMinPrefix => 2 * head < Len(order)

\* A tag whose slot CloseAll deleted always carries the ErrClosed outcome for
\* the waiter that still holds it, and nobody is left unresolved after CloseAll.
ClosedResolvesAll ==
  /\ closed => \A t \in Tags : ~Unresolved(t)
  /\ \A t \in Tags : call[t] \in {"registered", "waiting"} /\ t \notin pending
                       => done[t] = "closed"

\* An outcome that reached a waiter's buffer is never replaced by a later
\* frame (duplicate confirm, multiple=true sweep, CloseAll): it can only be
\* received, or dropped when the tag is registered anew.
FirstOutcomeWins ==
  [][\A t \in Tags : done[t] # "none" => done'[t] \in {done[t], "none"}]_vars

\* The slot of the contract that stands for a tag.
SlotOf(t) ==
  IF call[t] \in {"idle", "leaving"} THEN "free"
  ELSE IF done[t] # "none" THEN done[t]
  ELSE IF returned[t] THEN "returned" ELSE "open"

Contract == INSTANCE ConfirmContract
              WITH slot <- [t \in Tags |-> SlotOf(t)], shut <- closed

\* The tracker, with its index, low-water mark and split Wait, implements the
\* contract a publisher relies on: one outcome per slot, frames settle a single
\* slot or every open slot up to some tag, and Wait returns the outcome.
ImplementsContract == Contract!ContractSpec
=============================================================================
