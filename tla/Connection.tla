----------------------------- MODULE Connection ------------------------------
(***************************************************************************)
(* connection.go: Dial, Health, ForceReconnect and Close of a Connection.   *)
(* Dial opens the publisher sockets one after the other, starts their       *)
(* supervisors, checks the channel pool against what the broker negotiated  *)
(* and opens the consumer sockets while those supervisors already run; when *)
(* a later part fails it takes down the earlier ones.  The first publisher  *)
(* socket is ManagedConn's; the other sockets are the siblings.             *)
(***************************************************************************)
EXTENDS ManagedConn, Sequences

CONSTANTS
  Options,           \* the connOptions Dial may be given
  ServerChannelMax   \* the broker's own channel-max

VARIABLES
  opts,      \* the options of this Dial
  dial,      \* where Dial is; "ok" and "failed" once it has returned
  sock,      \* sockets connected so far, in order, each with its role and state
  dialCtx,   \* Dial's context is done
  probe,     \* Health: "idle", "asked", "read", "open", or its answer
  steady,    \* nothing Health looks at changed since it was called
  probing    \* this behaviour follows a Health call, not waiters

dialVars == <<opts, dial, sock, dialCtx>>
probeVars == <<probe, steady, probing>>
connVars == <<vars, dialVars, probeVars>>

Ended == {"exited", "gaveUp"}
Answers == {"nil", "ErrAlreadyClosed", "ErrReconnecting", "ErrTopologyRedeclareFailed",
            "ErrNotConnected", "probe failed", "ctx"}

ConnectionTypeOK ==
  /\ opts \in Options
  /\ dial \in {"new", "delay", "publisher", "check", "consumer", "unwind", "ok", "failed"}
  /\ \A i \in DOMAIN sock :
       /\ sock[i].role \in {"publisher", "consumer"}
       /\ sock[i].is \in {"self", "live", "absent", "closed", "watched", "redialled", "stopping"}
  /\ dialCtx \in BOOLEAN
  /\ probe \in {"idle", "asked", "read", "open"} \cup Answers
  /\ {steady, probing} \subseteq BOOLEAN

-----------------------------------------------------------------------------
(* validateConnOptions.                                                     *)

frameMaxHardCeiling == 104857600
channelPoolSizeMax == 4096

\* Entries without a scheme are left to the dialer.
validateAddrsScheme(addrs) ==
  \A i, j \in DOMAIN addrs : "" \in {addrs[i], addrs[j]} \/ addrs[i] = addrs[j]

\* An empty list of addresses is the default amqp:// one (applyConnDefaults).
dialAddrs(o) == IF o.addrs = <<>> THEN <<"amqp">> ELSE o.addrs

validateConnOptions(o) ==
  /\ o.frameMax = 0 \/ o.frameMax \in 4096..frameMaxHardCeiling
  /\ o.pubConns >= 1 /\ o.conConns >= 1
  /\ o.channelPoolSize \in 1..channelPoolSizeMax
  /\ o.channelMax = 0 \/ o.channelPoolSize <= o.channelMax
  /\ validateAddrsScheme(o.addrs)
  /\ o.external => /\ o.tls = "certificate"
                   /\ \A i \in DOMAIN dialAddrs(o) : dialAddrs(o)[i] = "amqps"

\* What the broker and the client agree on in the handshake; 0 asks for the
\* broker's.
Negotiated(o) ==
  IF o.channelMax = 0 \/ ServerChannelMax < o.channelMax THEN ServerChannelMax ELSE o.channelMax

TooLarge(o) == o.channelPoolSize > Negotiated(o)

-----------------------------------------------------------------------------
(* Dial.                                                                    *)

ConnectionInit ==
  /\ Init
  /\ opts \in Options
  /\ dial = "new" /\ sock = <<>> /\ dialCtx = FALSE
  /\ probe = "idle" /\ steady = TRUE /\ probing \in BOOLEAN

\* Invalid options are refused before any socket is opened.
Dial ==
  /\ dial = "new"
  /\ dial' = IF ~validateConnOptions(opts) THEN "failed"
             ELSE IF opts.connectDelay THEN "delay" ELSE "publisher"
  /\ UNCHANGED <<vars, opts, sock, dialCtx, probeVars>>

\* connectDelay: the timer, or the context.
DialDelay ==
  /\ dial = "delay"
  /\ \/ dial' = "publisher"
     \/ dialCtx /\ dial' = "failed"
  /\ UNCHANGED <<vars, opts, sock, dialCtx, probeVars>>

DialCancel ==
  /\ dial \notin {"new", "ok", "failed"} /\ ~dialCtx
  /\ dialCtx' = TRUE
  /\ UNCHANGED <<vars, opts, dial, sock, probeVars>>

Count(role) == IF role = "publisher" THEN opts.pubConns ELSE opts.conConns
Of(role) == {i \in DOMAIN sock : sock[i].role = role}

\* connectOnce of the next socket of the pool.  A dial that succeeds counts, even
\* when the context ended meanwhile.
ConnectOnce ==
  /\ dial \in {"publisher", "consumer"} /\ Cardinality(Of(dial)) < Count(dial)
  /\ \E up \in BOOLEAN :
       IF sock = <<>>
         THEN BootConnect(up) /\ sock' = <<[role |-> "publisher", is |-> "self"]>>
         ELSE /\ sock' = Append(sock, [role |-> dial, is |-> IF up THEN "live" ELSE "absent"])
              /\ UNCHANGED vars
  /\ UNCHANGED <<opts, dial, dialCtx, probeVars>>

Connected(role) ==
  {i \in Of(role) : sock[i].is = "live" \/ (sock[i].is = "self" /\ ~bootDegraded)}

Complete == dial \in {"publisher", "consumer"} /\ Cardinality(Of(dial)) = Count(dial)

\* What becomes of the siblings of a role: to maps the states it changes.
Siblings(role, to) ==
  [i \in DOMAIN sock |-> IF sock[i].role = role /\ sock[i].is \in DOMAIN to
                           THEN [sock[i] EXCEPT !.is = to[@]] ELSE sock[i]]

\* mutant: a cancelled Dial returns with the sockets it has opened
PoolFailsLeaky ==
  /\ Complete /\ (dialCtx \/ Connected(dial) = {})
  /\ IF dial = "publisher"
       THEN dial' = "failed" /\ UNCHANGED <<vars, sock>>
       ELSE /\ sock' = Siblings("consumer", [live |-> "closed"])
            /\ dial' = "unwind"
            /\ UNCHANGED vars
  /\ UNCHANGED <<opts, dialCtx, probeVars>>

\* openPool fails, before any supervisor of the role exists: the context is done,
\* or no socket of the role could connect.  Dial then takes the publishers down.
PoolFails ==
  /\ Complete /\ (dialCtx \/ Connected(dial) = {})
  /\ sock' = Siblings(dial, [live |-> "closed"])
  /\ IF dial = "publisher"
       THEN dial' = "failed" /\ CloseRaw
       ELSE dial' = "unwind" /\ UNCHANGED vars
  /\ UNCHANGED <<opts, dialCtx, probeVars>>

\* mutant: the pool boots on the sockets it has, even none
PoolBootsEmpty ==
  /\ Complete /\ ~dialCtx
  /\ sock' = Siblings(dial, [live |-> "watched", absent |-> "redialled"])
  /\ IF dial = "publisher"
       THEN dial' = "check" /\ BootSupervisor
       ELSE dial' = "ok" /\ UNCHANGED vars
  /\ UNCHANGED <<opts, dialCtx, probeVars>>

\* openPool succeeds: every socket gets its supervisor, the absent ones to be
\* brought up under it.
PoolBoots ==
  /\ Complete /\ ~dialCtx /\ Connected(dial) # {}
  /\ sock' = Siblings(dial, [live |-> "watched", absent |-> "redialled"])
  /\ IF dial = "publisher"
       THEN dial' = "check" /\ BootSupervisor
       ELSE dial' = "ok" /\ UNCHANGED vars
  /\ UNCHANGED <<opts, dialCtx, probeVars>>

\* The channel pool against negotiatedChannelMax of the first publisher socket,
\* which answers 0 while that socket is down.
CheckChannelMax ==
  /\ dial = "check"
  /\ dial' = IF raw # "nil" /\ TooLarge(opts) THEN "unwind" ELSE "consumer"
  /\ UNCHANGED <<vars, opts, sock, dialCtx, probeVars>>

\* closeManagedConns: every supervisor of the publisher pool is told to stop ...
UnwindCancel ==
  /\ dial = "unwind" /\ closer = "idle"
  /\ Close
  /\ sock' = Siblings("publisher", [watched |-> "stopping", redialled |-> "stopping"])
  /\ UNCHANGED <<opts, dial, dialCtx, probeVars>>

\* ... (a sibling's supervisor closes its socket and ends) ...
SiblingStops ==
  /\ \E i \in DOMAIN sock :
       sock[i].is = "stopping" /\ sock' = [sock EXCEPT ![i].is = "closed"]
  /\ UNCHANGED <<vars, opts, dial, dialCtx, probeVars>>

\* ... and Dial returns when all of them, and their goroutines, have ended.
UnwindDone ==
  /\ dial = "unwind" /\ closer = "done"
  /\ \A i \in DOMAIN sock : sock[i].is # "stopping"
  /\ dial' = "failed"
  /\ UNCHANGED <<vars, opts, sock, dialCtx, probeVars>>

-----------------------------------------------------------------------------
(* Health, in the three reads it makes, and the answers it may give.        *)

HealthAnswers(a) == probe' = a /\ UNCHANGED <<vars, dialVars, steady, probing>>

Health ==
  /\ dial = "ok" /\ probing /\ probe = "idle"
  /\ probe' \in IF closer # "idle" THEN {"ErrAlreadyClosed"} ELSE {"ctx", "asked"}
  /\ UNCHANGED <<vars, dialVars, steady, probing>>

healthBarrier ==
  /\ probe = "asked" /\ LockFree
  /\ HealthAnswers(IF reconnecting THEN "ErrReconnecting" ELSE "read")

\* mutant: a socket that is up is enough
healthStateMasked ==
  /\ probe = "read"
  /\ HealthAnswers(IF raw = "nil" THEN "ErrNotConnected" ELSE "open")

healthState ==
  /\ probe = "read"
  /\ HealthAnswers(IF degraded THEN "ErrTopologyRedeclareFailed"
                   ELSE IF raw = "nil" THEN "ErrNotConnected" ELSE "open")

\* openChannel reads the socket again; the broker may refuse a channel.
healthProbe ==
  /\ probe = "open"
  /\ \E a \in {"nil", "probe failed"} : (a = "nil" => raw = "live") /\ HealthAnswers(a)

HealthReturns ==
  /\ probe \in Answers
  /\ probe' = "idle" /\ steady' = TRUE
  /\ UNCHANGED <<vars, dialVars, probing>>

-----------------------------------------------------------------------------
\* The methods of the Connection Dial returned.
ConnectionUsed ==
  /\ dial = "ok"
  /\ \/ ForceReconnect \/ Close \/ CloseTimesOut
     \/ \E w \in Waiters :
          ~probing /\ (\/ WaitEnter(w) \/ WaiterStep(w) \/ HelperFires(w)
                       \/ CapElapses(w) \/ CancelContext(w))

\* registerReconnectHook needs the Connection: until Dial has returned it there
\* is no hook that could fail, or outlast the barrier.
NoHooksYet == dial # "ok" => hook' # "err" /\ (hook' = "lost" => ctxDone)

DialStep ==
  \/ Dial \/ DialDelay \/ ConnectOnce \/ PoolFails \/ PoolBoots \/ CheckChannelMax
  \/ UnwindCancel \/ SiblingStops \/ UnwindDone

HealthStep == Health \/ healthBarrier \/ healthState \/ healthProbe \/ HealthReturns

ConnectionNext ==
  \/ DialStep \/ DialCancel \/ HealthStep
  \/ /\ Supervised \/ ConnectionUsed
     /\ NoHooksYet
     /\ steady' = (probe = "idle" \/ (steady /\ UNCHANGED <<raw, reconnecting, degraded, closer>>))
     /\ UNCHANGED <<dialVars, probe, probing>>

ConnectionSpec == ConnectionInit /\ [][ConnectionNext]_connVars

\* Dial's own steps happen: connectOnce returns because the retries of the
\* policy are limited.
LiveSpec == ConnectionSpec /\ ConnFairness /\ WF_connVars(DialStep)

-----------------------------------------------------------------------------
(* Properties.                                                              *)

\* Dial either returns an error and leaves no socket open and no supervisor or
\* hook running, whichever of its steps failed, or returns a Connection whose
\* options were accepted and each of whose roles connected.
DialSound ==
  /\ ConnectionTypeOK
  /\ dial = "failed" =>
       /\ raw # "live" /\ sup \in Ended \cup {"unborn"}
       /\ hook # "running" /\ orphans = 0
       /\ \A i \in DOMAIN sock : sock[i].is \in {"self", "absent", "closed"}
  /\ dial = "ok" =>
       /\ validateConnOptions(opts) /\ sup # "unborn" /\ (TooLarge(opts) => bootDegraded)
       /\ \A role \in {"publisher", "consumer"} :
            \E i \in Of(role) : sock[i].is = "watched" \/ (sock[i].is = "self" /\ ~bootDegraded)

\* What Connection.Health promises, read at one instant.
Precedence ==
  IF closer # "idle" THEN {"ErrAlreadyClosed"}
  ELSE IF reconnecting THEN {"ErrReconnecting"}
  ELSE IF degraded THEN {"ErrTopologyRedeclareFailed"}
  ELSE IF raw = "nil" THEN {"ErrNotConnected"}
  ELSE IF raw = "live" THEN {"nil", "probe failed"} ELSE {"probe failed"}

\* Health reads the barrier, the degraded state and the socket one after the
\* other; unless one of them changed under it, its answer is the one the
\* documented precedence gives, in every state the supervisor can be in.
HealthSound == probe \in Answers /\ steady => probe \in Precedence \cup {"ctx"}

\* Dial returns: also when it has to take down publisher sockets whose
\* supervisors are already redialling or running hooks.
DialReturns == <>(dial \in {"ok", "failed"})

\* What a publisher and a health check rely on (runBarrier, Health).
StateReadable == BarrierSound /\ HealthSound

\* Neither Dial nor Close hangs.
DialAndCloseReturn == DialReturns /\ CloseReturns

=============================================================================
