------------------------------- MODULE Topology -------------------------------
(***************************************************************************)
(* Topology (topology.go): the expansion of dead letters, Declare,         *)
(* AttachTo, and the redeclaration of the attached snapshots by the        *)
(* reconnect barriers of all pooled connections, of which one declares     *)
(* and the others wait or skip.                                            *)
(* What a topology declares is in TopologyShape.                           *)
(***************************************************************************)
EXTENDS TopologyShape

CONSTANTS Conns,      \* pooled connections
          DeclareConn,\* pubConns[0], which Declare uses
          Inputs,     \* what the application attaches: [key, topo] records
          MaxEvents   \* bound: attachments, lost sockets, broker restarts, failures

ASSUME TopologyAssumption ==
  /\ MaxEvents \in Nat /\ DeclareConn \in Conns
  /\ \A i \in Inputs : DOMAIN i = {"key", "topo"} /\ DOMAIN i.topo = DOMAIN NoTopology

VARIABLES
  snaps,    \* topoKeys with topoSnaps: <<[key, topo], ...>> in registration order
  broker,   \* entities the broker holds
  conn,     \* a connection: "up", "lost", "degraded", or where its hook is
  dead,     \* connections whose socket died while their hook runs
  orphan,   \* the redeclare in flight belongs to a hook the cap abandoned
  run,      \* the redeclare in flight: entities still to declare
  window,   \* topoLastDeclare lies within topoRedeclareCoalesceWindow
  flapped,  \* history: the broker restarted after a redeclare that still counts
  events

vars == <<snaps, broker, conn, dead, orphan, run, window, flapped, events>>

-----------------------------------------------------------------------------
(* The declares of a topology                                              *)

Declares(kind, s) == [n \in DOMAIN s |-> [kind |-> kind, is |-> s[n]]]

\* mutant: queues go out before the exchanges they dead-letter to
declareQueuesFirst(t) ==
  Declares("queue", t.queues) \o Declares("exchange", t.exchanges) \o Declares("binding", t.bindings)
    \o Declares("exchangeBinding", t.exchangeBindings)

(* In this order; the first that fails ends the declaration.               *)
declareOnChannel(t) ==
  Declares("exchange", t.exchanges) \o Declares("queue", t.queues) \o Declares("binding", t.bindings)
    \o Declares("exchangeBinding", t.exchangeBindings)

(* What validate lets through, and what Declare and AttachTo make of it.   *)
Accepted == {i \in Inputs : validate(i.topo)}
snapshot == [i \in Accepted |-> declareOnChannel(expand(i.topo))]

Names(kind, held) == {e.is.name : e \in {d \in held : d.kind = kind}}

(* The broker refuses a different entity of the same name (406), and a     *)
(* binding whose ends it does not have (404).                              *)
Refused(e, held) ==
  CASE e.kind \in {"exchange", "queue"} ->
         \E d \in held : d.kind = e.kind /\ d.is.name = e.is.name /\ d # e
    [] e.kind = "binding" -> ~(e.is.exchange \in Names("exchange", held) /\ e.is.queue \in Names("queue", held))
    [] OTHER -> ~({e.is.source, e.is.destination} \subseteq Names("exchange", held))

-----------------------------------------------------------------------------
Init ==
  /\ snaps = << >> /\ broker = {}
  /\ conn = [c \in Conns |-> "up"] /\ dead = {} /\ orphan = FALSE
  /\ run = << >> /\ window = FALSE /\ flapped = FALSE /\ events = 0

Event == events < MaxEvents /\ events' = events + 1

Entities(s) == FlattenSeq([n \in DOMAIN s |-> snapshot[s[n]]])

CanDeclare == conn[DeclareConn] # "lost" /\ DeclareConn \notin dead

(* The broker takes declares one by one, up to one it refuses.             *)
Applied(declares) ==
  LET apply(r, e) == IF r.failed \/ Refused(e, r.broker) THEN [r EXCEPT !.failed = TRUE]
                     ELSE [r EXCEPT !.broker = @ \cup {e}]
  IN  FoldLeft(apply, [broker |-> broker, failed |-> FALSE], declares)

(* Declare, which succeeds, then AttachTo: a known key is replaced in its  *)
(* place, a new one is appended.                                           *)
Attach(i) ==
  LET declared == Applied(snapshot[i]) IN
  /\ Event /\ CanDeclare
  /\ ~declared.failed /\ broker' = declared.broker
  /\ snaps' = IF \E n \in DOMAIN snaps : snaps[n].key = i.key
              THEN [n \in DOMAIN snaps |-> IF snaps[n].key = i.key THEN i ELSE snaps[n]]
              ELSE Append(snaps, i)
  /\ UNCHANGED <<conn, dead, orphan, run, window, flapped>>

(* Declare fails after n declares, because the next is refused or the      *)
(* channel is gone; what the broker took, it keeps.                        *)
DeclareFails(i) ==
  /\ Event /\ CanDeclare
  /\ \E n \in 0 .. Len(snapshot[i]) - 1 :
       LET declared == Applied(SubSeq(snapshot[i], 1, n))
       IN  ~declared.failed /\ broker' = declared.broker
  /\ UNCHANGED <<snaps, conn, dead, orphan, run, window, flapped>>

-----------------------------------------------------------------------------
(* Connections                                                             *)

InHook(c) == conn[c] \in {"hook", "waiting", "owner"}
InFlight == orphan \/ \E c \in Conns : conn[c] = "owner"

(* The broker restarts without its entities.                               *)
BrokerRestarts ==
  /\ snaps # << >> /\ Event
  /\ broker' = {}
  /\ flapped' = (flapped \/ window \/ (InFlight /\ run = << >>))
  /\ conn' = [c \in Conns |-> IF InHook(c) THEN conn[c] ELSE "lost"]
  /\ dead' = {c \in Conns : InHook(c)}
  /\ UNCHANGED <<snaps, orphan, run, window>>

SocketLost(c) ==
  /\ snaps # << >> /\ conn[c] # "lost" /\ c \notin dead /\ Event
  /\ IF InHook(c) THEN dead' = dead \cup {c} /\ UNCHANGED conn
     ELSE conn' = [conn EXCEPT ![c] = "lost"] /\ UNCHANGED dead
  /\ UNCHANGED <<snaps, broker, orphan, run, window, flapped>>

(* The barrier cap cancels the hook's context, drops the socket and leaves *)
(* the hook behind: if it owns the redeclare, or takes it just before it   *)
(* looks at its context, it still has to give it up.                       *)
BarrierCap(c) ==
  /\ InHook(c) /\ Event
  /\ conn' = [conn EXCEPT ![c] = "lost"] /\ dead' = dead \ {c}
  /\ \/ conn[c] = "owner" /\ orphan' = TRUE /\ UNCHANGED run
     \/ conn[c] # "owner" /\ UNCHANGED <<orphan, run>>
     \/ conn[c] = "hook" /\ ~window /\ ~InFlight /\ orphan' = TRUE /\ run' = Entities(snaps)
  /\ UNCHANGED <<snaps, broker, window, flapped>>

(* The supervisor dials again; the barrier runs the hook if there is one.  *)
Redial(c) ==
  /\ conn[c] = "lost"
  /\ conn' = [conn EXCEPT ![c] = "hook"]
  /\ UNCHANGED <<snaps, broker, dead, orphan, run, window, flapped, events>>

-----------------------------------------------------------------------------
(* ensureTopologyRedeclare                                                 *)

(* The barrier ends, and a socket that died meanwhile is dialled again.    *)
HookReturns(c, state) ==
  /\ conn' = [conn EXCEPT ![c] = IF c \in dead THEN "lost" ELSE state]
  /\ dead' = dead \ {c}

Skip(c) ==
  /\ conn[c] = "hook" /\ window
  /\ HookReturns(c, "up")
  /\ UNCHANGED <<snaps, broker, orphan, run, window, flapped, events>>

(* runTopologyRedeclare copies the snapshots of this moment.               *)
Own(c) ==
  /\ conn[c] = "hook" /\ ~window /\ ~InFlight
  /\ conn' = [conn EXCEPT ![c] = "owner"]
  /\ run' = Entities(snaps)
  /\ UNCHANGED <<snaps, broker, dead, orphan, window, flapped, events>>

Wait(c) ==
  /\ conn[c] = "hook" /\ ~window /\ InFlight
  /\ conn' = [conn EXCEPT ![c] = "waiting"]
  /\ UNCHANGED <<snaps, broker, dead, orphan, run, window, flapped, events>>

\* mutant: the end of the owner's run is taken for its success
WakeTrusts(c) ==
  /\ conn[c] = "waiting" /\ ~InFlight
  /\ HookReturns(c, "up")
  /\ UNCHANGED <<snaps, broker, orphan, run, window, flapped, events>>

(* The owner is done: look at the window again.                            *)
Wake(c) ==
  /\ conn[c] = "waiting" /\ ~InFlight
  /\ conn' = [conn EXCEPT ![c] = "hook"]
  /\ UNCHANGED <<snaps, broker, dead, orphan, run, window, flapped, events>>

DeclareNext(c) ==
  /\ conn[c] = "owner" /\ c \notin dead /\ run # << >> /\ ~Refused(Head(run), broker)
  /\ broker' = broker \cup {Head(run)} /\ run' = Tail(run)
  /\ UNCHANGED <<snaps, conn, dead, orphan, window, flapped, events>>

(* The broker refuses a declare, the socket is gone, or a channel cannot   *)
(* be opened: waiters are released and the window is not anchored.         *)
RedeclareFails(c) ==
  /\ conn[c] = "owner" /\ run # << >>
  /\ \/ (c \in dead \/ Refused(Head(run), broker)) /\ UNCHANGED events
     \/ c \notin dead /\ ~Refused(Head(run), broker) /\ Event
  /\ run' = << >>
  /\ HookReturns(c, "degraded")
  /\ UNCHANGED <<snaps, broker, orphan, window, flapped>>

RedeclareDone(c) ==
  /\ conn[c] = "owner" /\ run = << >>
  /\ window' = TRUE
  /\ HookReturns(c, "up")
  /\ UNCHANGED <<snaps, broker, orphan, run, flapped, events>>


(* An abandoned owner ends: its socket is closed, so only a run without    *)
(* anything left to declare is a success.                                  *)
OrphanEnds ==
  /\ orphan /\ orphan' = FALSE
  /\ run' = << >> /\ window' = (window \/ run = << >>)
  /\ UNCHANGED <<snaps, broker, conn, dead, flapped, events>>

WindowPasses ==
  /\ window /\ window' = FALSE
  /\ UNCHANGED <<snaps, broker, conn, dead, orphan, run, flapped, events>>

HookStep(c) ==
  \/ Skip(c) \/ Own(c) \/ Wait(c) \/ Wake(c)
  \/ DeclareNext(c) \/ RedeclareFails(c) \/ RedeclareDone(c)

Next ==
  \/ \E i \in Accepted : Attach(i) \/ DeclareFails(i)
  \/ \E c \in Conns : SocketLost(c) \/ BarrierCap(c) \/ Redial(c) \/ HookStep(c)
  \/ BrokerRestarts \/ OrphanEnds \/ WindowPasses

Spec == Init /\ [][Next]_vars

(* The supervisor dials, hooks run, and a call on a closed socket returns; *)
(* a broker that never answers is the cap's business.                      *)
Fairness == WF_vars(OrphanEnds) /\ \A c \in Conns : WF_vars(Redial(c)) /\ WF_vars(HookStep(c))

LiveSpec == Spec /\ Fairness

-----------------------------------------------------------------------------
(* Well-typed state; topoKeys holds a pointer once, so that the snapshots  *)
(* and their order agree (AttachTo).                                       *)
TypeOK ==
  /\ snaps \in Seq(Inputs) /\ \A m, n \in DOMAIN snaps : snaps[m].key = snaps[n].key => m = n
  /\ \A e \in broker : e.kind \in {"exchange", "queue", "binding", "exchangeBinding"}
  /\ conn \in [Conns -> {"up", "lost", "degraded", "hook", "waiting", "owner"}]
  /\ dead \subseteq Conns /\ orphan \in BOOLEAN /\ window \in BOOLEAN /\ flapped \in BOOLEAN
  /\ events \in 0..MaxEvents

(* A quorum queue that dead-letters at least once always overflows with    *)
(* reject-publish at the broker: validate refuses what expand would not    *)
(* fill in, whichever of Args and DeadLetters set it (quorumAtLeastOnce).  *)
AtLeastOnceCoupled ==
  \A e \in broker :
    e.kind = "queue" /\ e.is.type = "quorum" /\ e.is.dlx # << >> /\ e.is.strategy = "at-least-once" =>
      e.is.overflow = "reject-publish"

MadeDLX == {dlxName(d) : d \in UNION {Range(i.topo.deadLetters) : i \in Inputs}}

(* In every intermediate state of a declare, and after one that failed, a  *)
(* queue that a DeadLetter gave its dead-letter exchange finds that        *)
(* exchange: no message dies into nothing (declareOnChannel's order).      *)
NothingDangles ==
  \A e \in broker :
    e.kind = "queue" /\ e.is.dlx \in MadeDLX => e.is.dlx \in Names("exchange", broker)

(* The frames of a recovery wave go out once: one hook declares at a time, *)
(* hooks that the cap abandoned included (topoRedeclareWait).              *)
OneDeclarer ==
  /\ Cardinality({c \in Conns : conn[c] = "owner"}) + (IF orphan THEN 1 ELSE 0) =< 1
  /\ ~InFlight => run = << >>

(* A barrier that lets consumers and publishers go on, because its hook    *)
(* declared, waited or skipped, does so with every attached entity at the  *)
(* broker, as long as the broker did not restart again in the window of    *)
(* an earlier redeclare (ensureTopologyRedeclare).                         *)
EnsuredAfterBarrier ==
  ~flapped /\ (\E c \in Conns : conn[c] = "up") => Range(Entities(snaps)) \subseteq broker

(* After a barrier, what the builders concluded from a topology is true of *)
(* the queues that it declares: a queue with a DLX has one at the broker   *)
(* and, if a DeadLetter made it, the exchange exists and is bound to the   *)
(* queue's DLQ under a key that its dead letters match, so that what a     *)
(* replier or a consumer rejects is kept (ReplierBuilder.Build, expand,    *)
(* ensureTopologyRedeclare).                                               *)
RejectedIsKept ==
  ~flapped /\ (\E c \in Conns : conn[c] = "up") =>
    \A n \in DOMAIN snaps : LET t == snaps[n].topo IN
      \A q \in Range(t.queues) : ReplierBuilds(t, q.name, FALSE) =>
        \E e \in broker :
          /\ e.kind = "queue" /\ e.is.name = q.name /\ e.is.dlx # << >>
          /\ DeadLettersOf(t, q.name) # << >> =>
               \E b \in broker : b.kind = "binding" /\ b.is.exchange = e.is.dlx
                                  /\ b.is.queue = q.name \o <<"dlq">>
                                  /\ b.is.routingKey \in {"#", e.is.dlKey}

(* "a true result proves a DLX is configured" (rpc_replier_builder.go:182):*)
(* also for a queue that only a DeadLetter names, which expand skips.      *)
HintIsProof ==
  (\E c \in Conns : conn[c] = "up") =>
    \A n \in DOMAIN snaps : \A d \in Range(snaps[n].topo.deadLetters) :
      topologyHasDLX(snaps[n].topo, d.source) =>
        \E e \in broker : e.kind = "queue" /\ e.is.name = d.source /\ e.is.dlx # << >>

(* Typed state, one declarer at a time, and a barrier that ensures what    *)
(* was attached (AttachTo, ensureTopologyRedeclare).                       *)
RedeclareSound == TypeOK /\ OneDeclarer /\ EnsuredAfterBarrier


(* "Either way the caller's barrier does not return until topology is      *)
(* ensured for this wave" (topology.go:241): also if the broker restarts   *)
(* twice within the window, when the second wave skips.                    *)
EnsuredEveryWave == (\E c \in Conns : conn[c] = "up") => Range(Entities(snaps)) \subseteq broker

(* A message that dies finds its exchange and, after a barrier, its DLQ.   *)
DeadLettersSound == NothingDangles /\ RejectedIsKept
===============================================================================
