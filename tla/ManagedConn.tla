----------------------------- MODULE ManagedConn -----------------------------
(***************************************************************************)
(* connection.go: one supervised TCP connection (managedConn).  The         *)
(* supervisor goroutine watches the socket, redials it and runs the         *)
(* reconnect hooks behind the barrier; publishers block in waitBarrier on a *)
(* condition variable while the barrier is up or the broker has blocked the *)
(* connection; Connection.Close and ForceReconnect come from other          *)
(* goroutines; the broker may drop the socket at any moment.                *)
(***************************************************************************)
EXTENDS Integers, FiniteSets

CONSTANTS
  Waiters,      \* goroutines that call waitBarrier
  Cancellable,  \* those of them whose context may be cancelled
  MaxRetries,   \* reconnectBackoff.Retries; 0 is unlimited
  MaxOrphans    \* bound: hook goroutines left behind by the barrier cap

ASSUME ConnAssumption ==
  /\ IsFiniteSet(Waiters) /\ Cancellable \subseteq Waiters
  /\ MaxRetries \in Nat /\ MaxOrphans \in Nat

VARIABLES
  sup,           \* the supervisor's program counter
  raw,           \* mc.raw: "nil", "live", or "dead" (closed, still referenced)
  attempt,       \* failed dials of the current reconnect loop
  bootDegraded,  \* the socket's first connect failed at Dial
  reconnecting, blocked,   \* the barrier, under barrierMu
  degraded,      \* the last completed barrier had a failing hook
  hook,          \* the hooks on this socket: "none" (not needed), "running",
                 \* "ok", "err", or "lost" (nobody waits for them any more)
  orphans,       \* hook goroutines whose barrier no longer waits for them
  forced,        \* forceReconnectCh holds a request
  ctxDone,       \* the supervisor's context is cancelled (Connection.Close)
  closer,        \* Connection.Close: "idle", "waiting", "draining", "done", "late"
  wait,          \* waiter -> where in waitBarrier it is
  helper,        \* waiter -> its helper goroutine: "none" or "armed"
  timer,         \* waiter -> capDeadline: "none", "set", "elapsed"
  wctx           \* waiter -> its context is done

supVars == <<sup, raw, attempt, bootDegraded, degraded, hook, orphans>>
barrierVars == <<reconnecting, blocked>>
waitVars == <<wait, helper, timer, wctx>>
vars == <<supVars, barrierVars, forced, ctxDone, closer, waitVars>>

TypeOK ==
  /\ sup \in {"unborn", "top", "watch", "preclosed", "reconnect", "dialing", "backoff",
              "dialfail", "barrier", "finish", "exited", "gaveUp"}
  /\ raw \in {"nil", "live", "dead"}
  /\ attempt \in 0..MaxRetries /\ (attempt = 0 \/ attempt < MaxRetries)
  /\ {bootDegraded, reconnecting, blocked, degraded, forced, ctxDone} \subseteq BOOLEAN
  /\ hook \in {"none", "running", "ok", "err", "lost"}
  /\ orphans \in 0..(MaxOrphans + 1)
  /\ closer \in {"idle", "waiting", "draining", "done", "late"}
  /\ wait \in [Waiters -> {"out", "armed", "asleep", "woken", "passed"}]
  /\ helper \in [Waiters -> {"none", "armed"}]
  /\ timer \in [Waiters -> {"none", "set", "elapsed"}]
  /\ wctx \in [Waiters -> BOOLEAN]

\* openPool before the first dial: no socket and no supervisor yet.
Init ==
  /\ sup = "unborn" /\ attempt = 0 /\ hook = "none" /\ orphans = 0
  /\ bootDegraded = FALSE /\ raw = "nil" /\ reconnecting = FALSE
  /\ blocked = FALSE /\ degraded = FALSE /\ forced = FALSE
  /\ ctxDone = FALSE /\ closer = "idle"
  /\ wait = [w \in Waiters |-> "out"] /\ helper = [w \in Waiters |-> "none"]
  /\ timer = [w \in Waiters |-> "none"] /\ wctx = [w \in Waiters |-> FALSE]

\* openPool: connectOnce brings the socket up, or the socket is marked
\* boot-degraded, with its barrier raised before anyone can see it.
BootConnect(up) ==
  /\ raw' = IF up THEN "live" ELSE raw
  /\ bootDegraded' = ~up /\ reconnecting' = ~up
  /\ UNCHANGED <<sup, attempt, degraded, hook, orphans, blocked, forced, ctxDone, closer,
                 waitVars>>

\* openPool: the pool boots and the supervisor starts.
BootSupervisor ==
  /\ sup' = "top"
  /\ UNCHANGED <<raw, attempt, bootDegraded, degraded, hook, orphans, barrierVars, forced,
                 ctxDone, closer, waitVars>>

\* closeRawConns: no supervisor was started, only the socket is released.
CloseRaw ==
  /\ raw' = IF raw = "live" THEN "dead" ELSE raw
  /\ UNCHANGED <<sup, attempt, bootDegraded, degraded, hook, orphans, barrierVars, forced,
                 ctxDone, closer, waitVars>>

\* barrierMu is held by a waiter that has started its helper and not yet joined
\* the condition variable; every other critical section is one step.
LockFree == \A w \in Waiters : wait[w] # "armed"

Broadcast == wait' = [w \in Waiters |-> IF wait[w] = "asleep" THEN "woken" ELSE wait[w]]

-----------------------------------------------------------------------------
(* The supervisor.                                                          *)

\* Loop head.  A nil socket is redialled unless the context is done; a socket
\* that is already closed gives notification channels that are closed too.
SupTop ==
  /\ sup = "top"
  /\ LockFree
  /\ sup' = IF raw = "nil"
              THEN IF (bootDegraded \/ reconnecting) /\ ~ctxDone THEN "reconnect" ELSE "exited"
              ELSE IF raw = "live" THEN "watch" ELSE "preclosed"
  /\ UNCHANGED <<raw, attempt, bootDegraded, degraded, hook, orphans,
                 barrierVars, forced, ctxDone, closer, waitVars>>

\* mutant: the select has no context arm
SupShutdownMissed ==
  /\ sup = "preclosed"
  /\ ctxDone
  /\ raw' = "dead"
  /\ sup' = "exited"
  /\ UNCHANGED <<attempt, bootDegraded, degraded, hook, orphans,
                 barrierVars, forced, ctxDone, closer, waitVars>>

\* ctx.Done: the socket is closed and the supervisor ends.
SupShutdown ==
  /\ sup \in {"watch", "preclosed"}
  /\ ctxDone
  /\ raw' = "dead"
  /\ sup' = "exited"
  /\ UNCHANGED <<attempt, bootDegraded, degraded, hook, orphans,
                 barrierVars, forced, ctxDone, closer, waitVars>>

\* connection.blocked: the flag goes up, nobody needs waking.  Such an event may
\* have been buffered before the socket died.
SupBlocked ==
  /\ sup = "watch" /\ ~blocked
  /\ LockFree
  /\ blocked' = TRUE
  /\ UNCHANGED <<supVars, reconnecting, forced, ctxDone, closer, waitVars>>


\* connection.unblocked.
SupUnblocked ==
  /\ sup = "watch" /\ blocked
  /\ LockFree
  /\ blocked' = FALSE
  /\ Broadcast
  /\ UNCHANGED <<supVars, reconnecting, forced, ctxDone, closer, helper, timer, wctx>>

\* The watched socket dies: closeCh delivers the error, or blockedCh is found
\* closed first.  The closeCh arm also looks at the context.
SupLost ==
  /\ sup = "watch" /\ raw = "dead"
  /\ \/ sup' = "reconnect"
     \/ ctxDone /\ sup' = "exited"
  /\ UNCHANGED <<raw, attempt, bootDegraded, degraded, hook, orphans,
                 barrierVars, forced, ctxDone, closer, waitVars>>

\* Both notification channels were closed when they were made: the blockedCh
\* arm reconnects, the closeCh arm takes it for a graceful close and returns.
SupPreclosed ==
  /\ sup = "preclosed"
  /\ sup' \in {"reconnect", "exited"}
  /\ UNCHANGED <<raw, attempt, bootDegraded, degraded, hook, orphans,
                 barrierVars, forced, ctxDone, closer, waitVars>>

\* forceReconnectCh: the socket is closed and redialled.
SupForced ==
  /\ sup \in {"watch", "preclosed"} /\ forced
  /\ forced' = FALSE
  /\ raw' = "dead"
  /\ sup' = "reconnect"
  /\ UNCHANGED <<attempt, bootDegraded, degraded, hook, orphans,
                 barrierVars, ctxDone, closer, waitVars>>

\* Label reconnect: the blocked flag is cleared and the barrier raised at once.
SupReconnect ==
  /\ sup = "reconnect"
  /\ \/ ctxDone /\ sup' = "exited" /\ UNCHANGED <<attempt, barrierVars>>
     \/ /\ ~ctxDone /\ LockFree
        /\ blocked' = FALSE /\ reconnecting' = TRUE
        /\ attempt' = 0
        /\ sup' = "dialing"
  /\ UNCHANGED <<raw, bootDegraded, degraded, hook, orphans,
                 forced, ctxDone, closer, waitVars>>

\* reconnectRaw: a dial that succeeds stores the socket, whatever the context
\* says; runBarrier then starts the hook goroutine.
DialOK ==
  /\ sup = "dialing"
  /\ raw' = "live"
  /\ hook' = "running"
  /\ sup' = "barrier"
  /\ UNCHANGED <<attempt, bootDegraded, degraded, orphans,
                 barrierVars, forced, ctxDone, closer, waitVars>>

\* A dial fails: the loop of internal/reconnect ends on the context or on its
\* retry limit, else it backs off.
DialFail ==
  /\ sup = "dialing"
  /\ IF ctxDone \/ (MaxRetries > 0 /\ attempt + 1 >= MaxRetries)
       THEN sup' = "dialfail" /\ UNCHANGED attempt
       ELSE sup' = "backoff" /\ attempt' = IF MaxRetries > 0 THEN attempt + 1 ELSE 0
  /\ UNCHANGED <<raw, bootDegraded, degraded, hook, orphans,
                 barrierVars, forced, ctxDone, closer, waitVars>>

\* The backoff timer, or the context, whichever the select takes.
Backoff ==
  /\ sup = "backoff"
  /\ sup' \in IF ctxDone THEN {"dialing", "dialfail"} ELSE {"dialing"}
  /\ UNCHANGED <<raw, attempt, bootDegraded, degraded, hook, orphans,
                 barrierVars, forced, ctxDone, closer, waitVars>>

\* The reconnect loop gave up: the barrier is lifted and the supervisor ends.
SupGiveUp ==
  /\ sup = "dialfail"
  /\ LockFree
  /\ reconnecting' = FALSE
  /\ Broadcast
  /\ sup' = IF ctxDone THEN "exited" ELSE "gaveUp"
  /\ UNCHANGED <<raw, attempt, bootDegraded, degraded, hook, orphans,
                 blocked, forced, ctxDone, closer, helper, timer, wctx>>

\* The hook goroutine ends: every hook succeeded, or one failed.
HookEnds ==
  /\ hook = "running"
  /\ hook' \in {"ok", "err"}
  /\ UNCHANGED <<sup, raw, attempt, bootDegraded, degraded, orphans,
                 barrierVars, forced, ctxDone, closer, waitVars>>

\* runBarrier receives the hooks' result: degraded, or recovered (and the
\* user's OnReconnect runs inside the barrier).
BarrierHooks ==
  /\ sup = "barrier" /\ hook \in {"ok", "err"}
  /\ degraded' = (hook = "err")
  /\ sup' = "finish"
  /\ UNCHANGED <<raw, attempt, bootDegraded, hook, orphans,
                 barrierVars, forced, ctxDone, closer, waitVars>>

\* mutant: the shutdown arm of the barrier ends the supervisor
BarrierShutdownExits ==
  /\ sup = "barrier" /\ ctxDone
  /\ LockFree
  /\ reconnecting' = FALSE
  /\ Broadcast
  /\ hook' = "lost"
  /\ orphans' = IF hook = "running" THEN orphans + 1 ELSE orphans
  /\ sup' = "exited"
  /\ UNCHANGED <<raw, attempt, bootDegraded, degraded,
                 blocked, forced, ctxDone, closer, helper, timer, wctx>>

\* runBarrier on shutdown: the hook goroutine is left to itself.
BarrierShutdown ==
  /\ sup = "barrier" /\ ctxDone
  /\ LockFree
  /\ reconnecting' = FALSE
  /\ Broadcast
  /\ hook' = "lost"
  /\ orphans' = IF hook = "running" THEN orphans + 1 ELSE orphans
  /\ sup' = "top"
  /\ UNCHANGED <<raw, attempt, bootDegraded, degraded,
                 blocked, forced, ctxDone, closer, helper, timer, wctx>>

\* mutant: the cap lifts the barrier although the hooks have not run
BarrierCapLifts ==
  /\ sup = "barrier"
  /\ LockFree
  /\ reconnecting' = FALSE
  /\ Broadcast
  /\ hook' = "lost"
  /\ orphans' = IF hook = "running" THEN orphans + 1 ELSE orphans
  /\ orphans' <= MaxOrphans
  /\ sup' = "top"
  /\ UNCHANGED <<raw, attempt, bootDegraded, degraded,
                 blocked, forced, ctxDone, closer, helper, timer, wctx>>

\* runBarrier hits its cap: the socket is closed and forgotten, the barrier
\* stays up and the waiters are woken to look at their own deadline.
BarrierCap ==
  /\ sup = "barrier"
  /\ LockFree
  /\ raw' = "nil"
  /\ Broadcast
  /\ hook' = "lost"
  /\ orphans' = IF hook = "running" THEN orphans + 1 ELSE orphans
  /\ orphans' <= MaxOrphans
  /\ sup' = "top"
  /\ UNCHANGED <<attempt, bootDegraded, degraded, barrierVars,
                 forced, ctxDone, closer, helper, timer, wctx>>

\* The end of runBarrier: the barrier is lifted, degraded or not.
BarrierFinish ==
  /\ sup = "finish"
  /\ LockFree
  /\ reconnecting' = FALSE
  /\ Broadcast
  /\ sup' = "top"
  /\ UNCHANGED <<raw, attempt, bootDegraded, degraded, hook, orphans,
                 blocked, forced, ctxDone, closer, helper, timer, wctx>>

-----------------------------------------------------------------------------
(* waitBarrier.                                                             *)

\* The loop: with the barrier up or the connection blocked, fix the deadline
\* (only while reconnecting), start the helper and go to sleep; else go on to
\* the degraded check.
WaitLoop(w) ==
  IF reconnecting \/ blocked
    THEN /\ wait' = [wait EXCEPT ![w] = "armed"]
         /\ helper' = [helper EXCEPT ![w] = "armed"]
         /\ timer' = [timer EXCEPT ![w] =
                        IF ~reconnecting THEN "none" ELSE IF @ = "none" THEN "set" ELSE @]
    ELSE /\ wait' = [wait EXCEPT ![w] = "passed"]
         /\ helper' = [helper EXCEPT ![w] = "none"]
         /\ UNCHANGED timer

WaitEnter(w) ==
  /\ wait[w] = "out"
  /\ LockFree
  /\ WaitLoop(w)
  /\ UNCHANGED <<supVars, barrierVars, forced, ctxDone, closer, wctx>>

\* barrierCond.Wait joins the notification list and releases the mutex.
WaitSleep(w) ==
  /\ wait[w] = "armed"
  /\ wait' = [wait EXCEPT ![w] = "asleep"]
  /\ UNCHANGED <<supVars, barrierVars, forced, ctxDone, closer, helper, timer, wctx>>

\* The helper goroutine: one Broadcast, without barrierMu, when the context is
\* done or the timer it was given has fired.
HelperFires(w) ==
  /\ helper[w] = "armed"
  /\ wctx[w] \/ timer[w] = "elapsed"
  /\ Broadcast
  /\ helper' = [helper EXCEPT ![w] = "none"]
  /\ UNCHANGED <<supVars, barrierVars, forced, ctxDone, closer, timer, wctx>>

\* The return of waitBarrier, with an error or without.
WaitReturn(w) ==
  /\ wait' = [wait EXCEPT ![w] = "out"]
  /\ helper' = [helper EXCEPT ![w] = "none"]
  /\ timer' = [timer EXCEPT ![w] = "none"]
  /\ wctx' = [wctx EXCEPT ![w] = FALSE]

\* Awake with the mutex: the context, then the cap, then the loop condition.  A
\* deadline that was never set is the zero time, which has always passed.
WaitWoken(w) ==
  /\ wait[w] = "woken"
  /\ LockFree
  /\ IF wctx[w] \/ (reconnecting /\ timer[w] # "set")
       THEN WaitReturn(w)
       ELSE WaitLoop(w) /\ UNCHANGED wctx
  /\ UNCHANGED <<supVars, barrierVars, forced, ctxDone, closer>>

\* Past the barrier: degradedErr is read under the other mutex.
WaitPassed(w) ==
  /\ wait[w] = "passed"
  /\ WaitReturn(w)
  /\ UNCHANGED <<supVars, barrierVars, forced, ctxDone, closer>>

\* The deadline passes.  It is seconds away when it is set, so it does not
\* pass between starting the helper and joining the condition variable.
CapElapses(w) ==
  /\ wait[w] = "asleep" /\ timer[w] = "set"
  /\ timer' = [timer EXCEPT ![w] = "elapsed"]
  /\ UNCHANGED <<supVars, barrierVars, forced, ctxDone, closer, wait, helper, wctx>>

CancelContext(w) ==
  /\ w \in Cancellable /\ ~wctx[w]
  /\ wctx' = [wctx EXCEPT ![w] = TRUE]
  /\ UNCHANGED <<supVars, barrierVars, forced, ctxDone, closer, wait, helper, timer>>

-----------------------------------------------------------------------------
(* Connection.Close, ForceReconnect, leftover hooks and the broker.         *)

\* forceClose: one request at most is pending.  A closed connection refuses.
ForceReconnect ==
  /\ closer = "idle" /\ ~forced
  /\ forced' = TRUE
  /\ UNCHANGED <<supVars, barrierVars, ctxDone, closer, waitVars>>

Close ==
  /\ closer = "idle"
  /\ closer' = "waiting"
  /\ ctxDone' = TRUE
  /\ UNCHANGED <<supVars, barrierVars, forced, waitVars>>

CloseSupervisorDone ==
  /\ closer = "waiting" /\ sup \in {"exited", "gaveUp"}
  /\ closer' = "draining"
  /\ UNCHANGED <<supVars, barrierVars, forced, ctxDone, waitVars>>

\* mc.wg.Wait: the hook goroutines have ended.
CloseDrained ==
  /\ closer = "draining" /\ hook # "running" /\ orphans = 0
  /\ closer' = "done"
  /\ UNCHANGED <<supVars, barrierVars, forced, ctxDone, waitVars>>

\* Close's own context ends first: it returns an error, and what it has told to
\* stop goes on stopping.
CloseTimesOut ==
  /\ closer \in {"waiting", "draining"}
  /\ closer' = "late"
  /\ UNCHANGED <<supVars, barrierVars, forced, ctxDone, waitVars>>

OrphanEnds ==
  /\ orphans > 0
  /\ orphans' = orphans - 1
  /\ UNCHANGED <<sup, raw, attempt, bootDegraded, degraded, hook,
                 barrierVars, forced, ctxDone, closer, waitVars>>

SocketDies ==
  /\ raw = "live"
  /\ raw' = "dead"
  /\ UNCHANGED <<sup, attempt, bootDegraded, degraded, hook, orphans,
                 barrierVars, forced, ctxDone, closer, waitVars>>

SupervisorStep ==
  \/ SupTop \/ SupShutdown \/ SupLost \/ SupPreclosed \/ SupForced \/ SupReconnect
  \/ DialOK \/ DialFail \/ Backoff \/ SupGiveUp
  \/ BarrierHooks \/ BarrierShutdown \/ BarrierCap \/ BarrierFinish

WaiterStep(w) == WaitSleep(w) \/ WaitWoken(w) \/ WaitPassed(w)

\* What happens to a socket once it has a supervisor.
Supervised ==
  \/ SupervisorStep \/ SupBlocked \/ SupUnblocked
  \/ HookEnds \/ OrphanEnds
  \/ CloseSupervisorDone \/ CloseDrained
  \/ SocketDies

\* Goroutines run, timers fire, dials and closes return, and a hook goroutine
\* ends once its context is cancelled and its socket closed.  A broker need not
\* ever unblock, a hook that is waited for need not ever end, a dial need not
\* ever succeed.  A goroutine waiting for barrierMu gets it (strong fairness).
ConnFairness ==
  /\ SF_vars(SupervisorStep) /\ WF_vars(OrphanEnds)
  /\ WF_vars(CloseSupervisorDone) /\ WF_vars(CloseDrained)
  /\ \A w \in Waiters :
       /\ WF_vars(WaitSleep(w)) /\ SF_vars(WaitWoken(w)) /\ WF_vars(WaitPassed(w))
       /\ WF_vars(HelperFires(w)) /\ WF_vars(CapElapses(w))

-----------------------------------------------------------------------------
(* Properties.                                                              *)

\* The barrier is up exactly while it has to be: traffic never reaches a fresh
\* socket whose topology and subscriptions have not been restored, and no
\* barrier is left up over a socket the supervisor merely watches.
BarrierMatchesSocket ==
  /\ raw = "live" /\ hook \in {"running", "lost"} /\ ~ctxDone => reconnecting
  /\ sup \in {"watch", "preclosed"} => ~reconnecting

\* A publisher that finds the barrier down is told of the hooks' failure on this
\* socket, and of no failure that a later barrier has repaired.
DegradedMatchesHooks ==
  ~reconnecting /\ hook \in {"ok", "err"} => degraded = (hook = "err")

\* Whichever way the supervisor ends (shutdown while watching, while dialling,
\* inside the barrier or at its cap), no socket is left open behind it.
NoSocketLeak == sup \in {"exited", "gaveUp"} => raw # "live"

\* Connection.Close returns only when the supervisor and every hook goroutine,
\* those abandoned by the barrier cap included, have ended.
CloseDrainsHooks ==
  closer = "done" => sup \in {"exited", "gaveUp"} /\ hook # "running" /\ orphans = 0

\* No wakeup of the barrier is lost: a waiter does not sleep for ever unless
\* the barrier or the broker's block keeps coming back, or never goes away.
BarrierReleases ==
  \A w \in Waiters : []<>(wait[w] # "asleep") \/ []<>(reconnecting \/ blocked)

\* Connection.Close returns, even when it comes in the middle of a redial or of
\* a barrier whose hooks hang; and when its own context ended first, what it
\* told to stop stops all the same.
CloseReturns ==
  /\ closer = "waiting" ~> closer \in {"done", "late"}
  /\ ctxDone ~> sup \in {"exited", "gaveUp"} /\ hook # "running" /\ orphans = 0

\* What a publisher relies on when it reads the barrier: it is up while it has
\* to be, and once it is down degraded tells how the hooks ended (runBarrier).
BarrierSound == TypeOK /\ BarrierMatchesSocket /\ DegradedMatchesHooks

\* No socket outlives the supervisor and no hook goroutine outlives Close.
NothingLeftBehind == NoSocketLeak /\ CloseDrainsHooks

-----------------------------------------------------------------------------
(* Statements of the repository that the code does not keep.                *)

\* "On ctx cancellation" waitBarrier returns: a waiter whose context is done
\* does not sleep on.
ContextEndsWait == \A w \in Waiters : (wctx[w] /\ wait[w] = "asleep") ~> (wait[w] # "asleep")

\* "Bound the reconnect-barrier wait": with no deadline of its own, a waiter
\* sleeping behind a reconnect returns or sees the reconnect end.
CapBoundsWait ==
  \A w \in Waiters : (reconnecting /\ wait[w] = "asleep") ~> (~reconnecting \/ wait[w] # "asleep")

\* "Clear the barrier so no publisher hangs": shutdown releases the waiters.
ShutdownReleasesWaiters ==
  \A w \in Waiters : (ctxDone /\ wait[w] = "asleep") ~> (wait[w] # "asleep")

\* The supervisor "re-enters the connect-with-backoff path when the socket
\* drops": it ends only on Close or when the retries are used up.
SupervisorSurvives == sup = "exited" => ctxDone
=============================================================================
