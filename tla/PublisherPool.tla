---------------------------- MODULE PublisherPool ----------------------------
(***************************************************************************)
(* publisher.go: publisherConnPool, the pool of confirm channels on one     *)
(* publisher connection, with the goroutines that use it: Publish calls     *)
(* (which may retry), the drain hook that runs after a reconnect, and       *)
(* Publisher.Close.  The pool has no lock: tokens and free are Go channels  *)
(* and every send or receive is a step of its own.                          *)
(***************************************************************************)
EXTENDS Integers, Sequences, FiniteSets

CONSTANTS
  Procs,    \* goroutines that call Publish
  Chans,    \* identities for AMQP channels; one that was closed is used again
  Size,     \* channelPoolSize
  NoChan    \* not a channel

ASSUME PoolAssumption ==
  /\ IsFiniteSet(Procs)
  /\ IsFiniteSet(Chans)
  /\ Size \in Nat \ {0}
  /\ NoChan \notin Chans

VARIABLES
  tokens,   \* number of values buffered in the semaphore
  free,     \* the buffered idle entries, oldest first
  chan,     \* channel -> "none" (not open), "open", "dead" (closeCh is ready)
  pc,       \* process -> where in Publish it is
  held,     \* process -> the channel it holds, or NoChan
  drainer,  \* the reconnect hook: "idle" or "draining"
  dropped,  \* the idle entry the hook has taken and not closed yet, or NoChan
  closed,   \* Publisher.closed
  closer    \* Publisher.Close: "idle", "waiting" (wg.Wait), "draining", "done"

vars == <<tokens, free, chan, pc, held, drainer, dropped, closed, closer>>

PCs == {"out", "want", "queued", "token", "opening", "holding", "giveback", "exit"}

\* The WaitGroup: the Publish calls that have entered and not returned.
wg == {p \in Procs : pc[p] # "out"}

TypeOK ==
  /\ tokens \in 0..Size
  /\ free \in Seq(Chans)
  /\ chan \in [Chans -> {"none", "open", "dead"}]
  /\ pc \in [Procs -> PCs]
  /\ held \in [Procs -> Chans \cup {NoChan}]
  /\ drainer \in {"idle", "draining"}
  /\ dropped \in Chans \cup {NoChan}
  /\ closed \in BOOLEAN
  /\ closer \in {"idle", "waiting", "draining", "done"}

Init ==
  /\ tokens = Size
  /\ free = <<>>
  /\ chan = [c \in Chans |-> "none"]
  /\ pc = [p \in Procs |-> "out"]
  /\ held = [p \in Procs |-> NoChan]
  /\ drainer = "idle" /\ dropped = NoChan
  /\ closed = FALSE
  /\ closer = "idle"

Goto(p, l) == pc' = [pc EXCEPT ![p] = l]

-----------------------------------------------------------------------------
(* Publish, from wg.Add to wg.Done.                                         *)

\* A call on a closed publisher returns ErrAlreadyClosed and changes nothing.
Enter(p) ==
  /\ pc[p] = "out"
  /\ ~closed
  /\ Goto(p, "want")
  /\ UNCHANGED <<tokens, free, chan, held, drainer, dropped, closed, closer>>


\* acquire: a token is there, at once or after queueing.
AcquireToken(p) ==
  /\ pc[p] \in {"want", "queued"}
  /\ tokens > 0
  /\ tokens' = tokens - 1
  /\ Goto(p, "token")
  /\ UNCHANGED <<free, chan, held, drainer, dropped, closed, closer>>

\* acquire, slow path: the pool is saturated and the caller queues.
AcquireQueue(p) ==
  /\ pc[p] = "want"
  /\ tokens = 0
  /\ Goto(p, "queued")
  /\ UNCHANGED <<tokens, free, chan, held, drainer, dropped, closed, closer>>

\* The context is done while queueing: ErrChannelPoolExhausted.
AcquireCancel(p) ==
  /\ pc[p] = "queued"
  /\ Goto(p, "exit")
  /\ UNCHANGED <<tokens, free, chan, held, drainer, dropped, closed, closer>>


\* getOrOpen with an idle entry: a stale one is closed and the loop goes on.
getOrOpen(p) ==
  /\ pc[p] = "token"
  /\ free # <<>>
  /\ free' = Tail(free)
  /\ \/ /\ chan[Head(free)] = "dead"
        /\ chan' = [chan EXCEPT ![Head(free)] = "none"]
        /\ UNCHANGED <<pc, held>>
     \/ /\ chan[Head(free)] # "dead"
        /\ held' = [held EXCEPT ![p] = Head(free)]
        /\ Goto(p, "holding")
        /\ UNCHANGED chan
  /\ UNCHANGED <<tokens, drainer, dropped, closed, closer>>

\* getOrOpen with an empty free list: openFn is called.
getOrOpenEmpty(p) ==
  /\ pc[p] = "token"
  /\ free = <<>>
  /\ Goto(p, "opening")
  /\ UNCHANGED <<tokens, free, chan, held, drainer, dropped, closed, closer>>

\* openFn returns a fresh entry (openPublisherEntry).
OpenOK(p) ==
  /\ pc[p] = "opening"
  /\ \E c \in Chans :
       /\ chan[c] = "none"
       /\ chan' = [chan EXCEPT ![c] = "open"]
       /\ held' = [held EXCEPT ![p] = c]
  /\ Goto(p, "holding")
  /\ UNCHANGED <<tokens, free, drainer, dropped, closed, closer>>

\* mutant: the error path forgets the token
OpenFailLeak(p) ==
  /\ pc[p] = "opening"
  /\ Goto(p, "exit")
  /\ UNCHANGED <<tokens, free, chan, held, drainer, dropped, closed, closer>>

\* openFn fails or panics: the deferred function gives the token back.
OpenFail(p) ==
  /\ pc[p] = "opening"
  /\ Goto(p, "giveback")
  /\ UNCHANGED <<tokens, free, chan, held, drainer, dropped, closed, closer>>

\* mutant: a channel that died in use is dropped without being closed
releaseDropped(p) ==
  /\ pc[p] = "holding"
  /\ free' = IF chan[held[p]] # "dead" /\ Len(free) < Size THEN Append(free, held[p]) ELSE free
  /\ held' = [held EXCEPT ![p] = NoChan]
  /\ Goto(p, "giveback")
  /\ UNCHANGED <<tokens, chan, drainer, dropped, closed, closer>>

\* release, up to its deferred token: a dead channel, or one that does not fit
\* the idle list, is closed.
release(p) ==
  /\ pc[p] = "holding"
  /\ \/ /\ chan[held[p]] # "dead" /\ Len(free) < Size
        /\ free' = Append(free, held[p])
        /\ UNCHANGED chan
     \/ /\ chan[held[p]] = "dead" \/ Len(free) >= Size
        /\ chan' = [chan EXCEPT ![held[p]] = "none"]
        /\ UNCHANGED free
  /\ held' = [held EXCEPT ![p] = NoChan]
  /\ Goto(p, "giveback")
  /\ UNCHANGED <<tokens, drainer, dropped, closed, closer>>

\* The deferred send of the token; it would block on a full semaphore.
ReturnToken(p) ==
  /\ pc[p] = "giveback"
  /\ tokens < Size
  /\ tokens' = tokens + 1
  /\ Goto(p, "exit")
  /\ UNCHANGED <<free, chan, held, drainer, dropped, closed, closer>>

\* The retry loop of Publish goes round, or Publish returns.
Retry(p) ==
  /\ pc[p] = "exit"
  /\ Goto(p, "want")
  /\ UNCHANGED <<tokens, free, chan, held, drainer, dropped, closed, closer>>

Return(p) ==
  /\ pc[p] = "exit"
  /\ Goto(p, "out")
  /\ UNCHANGED <<tokens, free, chan, held, drainer, dropped, closed, closer>>

-----------------------------------------------------------------------------
(* The other goroutines, and the broker.                                    *)

\* The broker closes one channel, or the socket is lost with all of them.
ChannelsDie ==
  /\ \E S \in {{c} : c \in Chans} \cup {Chans} :
       /\ \E c \in S : chan[c] = "open"
       /\ chan' = [c \in Chans |-> IF c \in S /\ chan[c] = "open" THEN "dead" ELSE chan[c]]
  /\ UNCHANGED <<tokens, free, pc, held, drainer, dropped, closed, closer>>

\* drain, the hook of the reconnect supervisor: drainFree receives an idle
\* entry, then closes it, until the list is empty.
DrainStart ==
  /\ drainer = "idle"
  /\ drainer' = "draining"
  /\ UNCHANGED <<tokens, free, chan, pc, held, dropped, closed, closer>>

DrainStep ==
  /\ drainer = "draining"
  /\ \/ /\ dropped # NoChan
        /\ chan' = [chan EXCEPT ![dropped] = "none"]
        /\ dropped' = NoChan
        /\ UNCHANGED <<free, drainer>>
     \/ /\ dropped = NoChan /\ free # <<>>
        /\ dropped' = Head(free)
        /\ free' = Tail(free)
        /\ UNCHANGED <<chan, drainer>>
     \/ /\ dropped = NoChan /\ free = <<>>
        /\ drainer' = "idle"
        /\ UNCHANGED <<free, chan, dropped>>
  /\ UNCHANGED <<tokens, pc, held, closed, closer>>

\* A second Close returns ErrAlreadyClosed and changes nothing.
Close ==
  /\ ~closed
  /\ closed' = TRUE
  /\ closer' = "waiting"
  /\ UNCHANGED <<tokens, free, chan, pc, held, drainer, dropped>>


CloseWait ==
  /\ closer = "waiting"
  /\ wg = {}
  /\ closer' = "draining"
  /\ UNCHANGED <<tokens, free, chan, pc, held, drainer, dropped, closed>>

\* closeAll.
CloseDrain ==
  /\ closer = "draining"
  /\ \/ /\ free # <<>>
        /\ free' = Tail(free)
        /\ chan' = [chan EXCEPT ![Head(free)] = "none"]
        /\ UNCHANGED closer
     \/ free = <<>> /\ closer' = "done" /\ UNCHANGED <<free, chan>>
  /\ UNCHANGED <<tokens, pc, held, drainer, dropped, closed>>

PublishStep(p) ==
  \/ AcquireToken(p) \/ AcquireQueue(p) \/ getOrOpen(p) \/ getOrOpenEmpty(p)
  \/ OpenOK(p) \/ OpenFail(p) \/ release(p) \/ ReturnToken(p) \/ Return(p)

Next ==
  \/ \E p \in Procs : Enter(p) \/ PublishStep(p) \/ AcquireCancel(p) \/ Retry(p)
  \/ ChannelsDie
  \/ DrainStart \/ DrainStep
  \/ Close \/ CloseWait \/ CloseDrain

Spec == Init /\ [][Next]_vars

\* A goroutine that can run does.  A token goes to the callers blocked on the
\* Go channel in turn, hence strong fairness of AcquireToken; that a holder
\* releases, and that Publish stops retrying, is the confirm timeout and the
\* retry limit.  Nothing forces a context to be cancelled.
PoolFairness ==
  /\ \A p \in Procs :
       /\ SF_vars(AcquireToken(p))
       /\ WF_vars(PublishStep(p))
       /\ SF_vars(Return(p))
  /\ WF_vars(DrainStep)
  /\ WF_vars(CloseWait)
  /\ WF_vars(CloseDrain)

LiveSpec == Spec /\ PoolFairness

-----------------------------------------------------------------------------
(* Properties.                                                              *)

TokenHolders == {p \in Procs : pc[p] \in {"token", "opening", "holding", "giveback"}}
InUse == {p \in Procs : pc[p] \in {"opening", "holding"}}

\* No path through acquire and release (open failure, panic, stale entries,
\* cancellation, a dead channel) loses or forges a semaphore token, so the
\* pool neither shrinks until every Publish blocks nor admits too many callers.
TokensConserved == tokens + Cardinality(TokenHolders) = Size

\* Idle entries plus entries in use or being opened never exceed the pool size,
\* although a caller may find the free list empty just before another refills
\* it: the overflow branch of release is dead code.
CapacityBound == Len(free) + Cardinality(InUse) <= Size

\* Every channel of the connection that is not closed has exactly one owner:
\* one Publish call, one place in the idle list, or the drain hook about to close
\* it.  So no two callers share a confirm sequence, and no stale or surplus
\* channel is forgotten unclosed.
OneOwner ==
  /\ \A p, q \in Procs : held[p] # NoChan /\ held[p] = held[q] => p = q
  /\ \A i, j \in 1..Len(free) : free[i] = free[j] => i = j
  /\ \A p \in Procs, i \in 1..Len(free) : held[p] # free[i]
  /\ \A c \in Chans : chan[c] # "none" <=>
       \/ \E p \in Procs : held[p] = c
       \/ \E i \in 1..Len(free) : free[i] = c
       \/ dropped = c
  /\ dropped # NoChan => /\ \A p \in Procs : held[p] # dropped
                         /\ \A i \in 1..Len(free) : free[i] # dropped

\* When Publisher.Close has returned, no Publish is in flight and no channel of
\* the pool is left open, but for one that a reconnect hook draining the pool
\* meanwhile is about to close.
CloseReleasesChannels ==
  closer = "done" => wg = {} /\ \A c \in Chans \ {dropped} : chan[c] = "none"


\* Under contention every caller queueing for a slot gets one or gives up.
QueueServed(p) == pc[p] = "queued" ~> pc[p] # "queued"

\* Publisher.Close returns once the calls in flight have ended.
CloseReturns == closed ~> closer = "done"

\* The pool's books are in order in every state: typed state, tokens neither
\* lost nor forged, capacity kept (acquire, release).
PoolAccounting == TypeOK /\ TokensConserved /\ CapacityBound

\* Every channel has its one owner, and after Publisher.Close none is left.
ChannelsOwned == OneOwner /\ CloseReleasesChannels

\* Nobody waits for ever at the pool: callers are served and Close returns.
CallersServed == CloseReturns /\ \A p \in Procs : QueueServed(p)

=============================================================================
