----------------------------- MODULE SseManager -----------------------------
(***************************************************************************)
(* SseManager of sse.go: the open streams, one goroutine (Serve) each, and *)
(* the broadcasts, which run on the goroutines of their callers or on      *)
(* those of the distributor.  The registry is guarded by a lock, but a     *)
(* broadcast works on a snapshot of it, and a connection's last event id   *)
(* and its queue are two separate steps of enqueue.                        *)
(*                                                                         *)
(* Left out: the text of frames, heartbeats that succeed, timestamps.      *)
(***************************************************************************)
EXTENDS Naturals, Sequences, FiniteSets

CONSTANTS Conns,       \* connection ids
          Publishers,  \* goroutines that call Broadcast
          Callbacks,   \* goroutines of the distributor
          Topics,
          Tenants, NoTenant,
          SendBuffer,  \* WithSseSendBuffer, at least one
          Deduplicate, \* WithSseDeduplicate
          MaxWire      \* bound on the events inside the distributor

ASSUME SseAssumption ==
  /\ SendBuffer \in Nat \ {0}
  /\ Deduplicate \in BOOLEAN
  /\ MaxWire \in Nat
  /\ NoTenant \notin Tenants
  /\ Publishers \cap Callbacks = {}

Goroutines == Publishers \cup Callbacks

VARIABLES
  connections,  \* SseManager.connections: the registered ids
  conn,         \* conn[c]: the sseConnection and where its Serve call is
  task,         \* task[p]: the broadcast goroutine p is in
  distributor,  \* whether the manager was built with a distributor
  wire,         \* events handed to the distributor and not dropped yet
  delivered,    \* history: frames written to the client of c
  owed          \* history: ids of the events whose snapshot held c

sseHistory == <<delivered, owed>>
sseVars    == <<connections, conn, task, distributor, wire, sseHistory>>

\* An event as a broadcast carries it: id, tenant, whether its payload can be
\* encoded, and (ghost) the goroutine that published it and how many
\* broadcasts that goroutine had made before.
StreamEvent == [ID : Nat \ {0}, TenantID : Tenants \cup {NoTenant}, encodes : BOOLEAN,
                by : Publishers, k : Nat]
NoEvent     == [ID |-> 0]

\* Serve: "hello" between the connected frame and the registration, "open" in
\* the loop, "returning" when it has left it, "closing" between the two
\* halves of the deferred Disconnect.
ServeSteps == {"none", "hello", "open", "returning", "closing", "ended"}
sseConnection ==
  [serve : ServeSteps, topics : SUBSET Topics, tenantID : Tenants \cup {NoTenant},
   out : Seq(StreamEvent), done : BOOLEAN, lastEventID : Nat]
NewConnection(step, topics, t) ==
  [serve |-> step, topics |-> topics, tenantID |-> t, out |-> <<>>, done |-> FALSE,
   lastEventID |-> 0]

NoTask == [step |-> "idle", ev |-> NoEvent, targets |-> {}]
Task ==
  {NoTask}
  \cup [step : {"publish", "select"}, topic : Topics, ev : StreamEvent, targets : {{}}]
  \cup [step : {"mark", "drop"}, topic : Topics, ev : StreamEvent, targets : SUBSET Conns]
  \cup [step : {"send", "delete", "close"}, topic : Topics, ev : StreamEvent,
        targets : SUBSET Conns, at : Conns]
WireEvent == [topic : Topics, ev : StreamEvent, again : BOOLEAN]

SseTypeOK ==
  /\ connections \subseteq Conns
  /\ conn \in [Conns -> sseConnection]
  /\ task \in [Goroutines -> Task]
  /\ distributor \in BOOLEAN
  /\ wire \subseteq WireEvent
  /\ delivered \in [Conns -> Seq(StreamEvent)]
  /\ owed \in [Conns -> SUBSET Nat]

SseInit ==
  /\ connections = {}
  /\ conn = [c \in Conns |-> NewConnection("none", {}, NoTenant)]
  /\ task = [p \in Goroutines |-> NoTask]
  /\ distributor \in BOOLEAN
  /\ wire = {}
  /\ delivered = [c \in Conns |-> <<>>]
  /\ owed = [c \in Conns |-> {}]

(***************************************************************************)
(* Serve, the stream of one connection.                                    *)
(***************************************************************************)
ServeHello(c, topics, t) ==
  /\ conn[c].serve = "none"
  /\ conn' = [conn EXCEPT ![c] = NewConnection("hello", topics, t)]
  /\ UNCHANGED <<connections, task, distributor, wire, sseHistory>>

ServeRegister(c) ==
  /\ conn[c].serve = "hello"
  /\ connections' = connections \cup {c}
  /\ conn' = [conn EXCEPT ![c].serve = "open"]
  /\ UNCHANGED <<task, distributor, wire, sseHistory>>

\* case frame := <-conn.out, and the write succeeds.
ServeFrame(c) ==
  /\ conn[c].serve = "open"
  /\ conn[c].out # <<>>
  /\ delivered' = [delivered EXCEPT ![c] = Append(@, Head(conn[c].out))]
  /\ conn' = [conn EXCEPT ![c].out = Tail(@)]
  /\ UNCHANGED <<connections, task, distributor, wire, owed>>

\* The loop ends: done is closed, the request's context is cancelled, or the
\* write of a frame or of a heartbeat fails.
ServeDone(c) ==
  /\ conn[c].serve = "open" /\ conn[c].done
  /\ conn' = [conn EXCEPT ![c].serve = "returning"]
  /\ UNCHANGED <<connections, task, distributor, wire, sseHistory>>

ServeGone(c) ==
  /\ conn[c].serve = "open"
  /\ conn' = [conn EXCEPT ![c].serve = "returning"]
  /\ UNCHANGED <<connections, task, distributor, wire, sseHistory>>

\* Broken variant: the loop's exit leaves the registry alone.
ServeDisconnectLeak(c) ==
  /\ conn[c].serve = "returning"
  /\ conn' = [conn EXCEPT ![c].serve = "ended"]
  /\ UNCHANGED <<connections, task, distributor, wire, sseHistory>>

\* defer m.Disconnect(id): forget it under the lock, then close it outside.
ServeDisconnect(c) ==
  /\ conn[c].serve = "returning"
  /\ connections' = connections \ {c}
  /\ conn' = [conn EXCEPT ![c].serve = IF c \in connections THEN "closing" ELSE "ended"]
  /\ UNCHANGED <<task, distributor, wire, sseHistory>>

ServeClose(c) ==
  /\ conn[c].serve = "closing"
  /\ conn' = [conn EXCEPT ![c].serve = "ended", ![c].done = TRUE]
  /\ UNCHANGED <<connections, task, distributor, wire, sseHistory>>

(***************************************************************************)
(* Broadcast and broadcastLocal on goroutine p.                            *)
(***************************************************************************)
Busy(p)       == task[p].step # "idle"
Step(p, next) == task' = [task EXCEPT ![p] = next]

\* Broadcast: with a distributor the event goes there, and only there.
StartBroadcast(p, topic, ev) ==
  /\ ~Busy(p)
  /\ Step(p, [step |-> IF distributor THEN "publish" ELSE "select",
              topic |-> topic, ev |-> ev, targets |-> {}])
  /\ UNCHANGED <<connections, conn, distributor, wire, sseHistory>>

DistributorPublish(p) ==
  /\ task[p].step = "publish"
  /\ Cardinality(wire) < MaxWire
  /\ wire' = wire \cup {[topic |-> task[p].topic, ev |-> task[p].ev, again |-> TRUE]}
  /\ Step(p, NoTask)
  /\ UNCHANGED <<connections, conn, distributor, sseHistory>>

\* Publish returned an error: deliver to this process's connections.
DistributorPublishFail(p) ==
  /\ task[p].step = "publish"
  /\ Step(p, [task[p] EXCEPT !.step = "select"])
  /\ UNCHANGED <<connections, conn, distributor, wire, sseHistory>>

\* Tenant isolation bites only when both sides name a tenant.
TenantAllows(c, ev) ==
  \/ ev.TenantID = NoTenant
  \/ conn[c].tenantID = NoTenant
  \/ conn[c].tenantID = ev.TenantID

Targets(topic, ev) ==
  {c \in connections : topic \in conn[c].topics /\ TenantAllows(c, ev)}

\* What is left of broadcast t when ts are the connections still to serve.  An
\* event that cannot be encoded drops every one of them.
Remaining(t, ts) ==
  IF ts = {} THEN NoTask
  ELSE [step |-> IF t.ev.encodes THEN "mark" ELSE "drop",
        topic |-> t.topic, ev |-> t.ev, targets |-> ts]
Rest(p, c) == Remaining(task[p], task[p].targets \ {c})

SelectTargets(p) ==
  /\ task[p].step = "select"
  /\ LET ts == Targets(task[p].topic, task[p].ev)
     IN /\ owed' = [c \in Conns |-> IF c \in ts THEN owed[c] \cup {task[p].ev.ID} ELSE owed[c]]
        /\ Step(p, Remaining(task[p], ts))
  /\ UNCHANGED <<connections, conn, distributor, wire, delivered>>

\* enqueue, first half: compare with the last event id and replace it.
EnqueueMark(p) == \E c \in task[p].targets :
  /\ task[p].step = "mark"
  /\ conn' = [conn EXCEPT ![c].lastEventID = task[p].ev.ID]
  /\ IF Deduplicate /\ conn[c].lastEventID = task[p].ev.ID
     THEN Step(p, Rest(p, c))
     ELSE Step(p, [step |-> "send", topic |-> task[p].topic, ev |-> task[p].ev,
                   targets |-> task[p].targets, at |-> c])
  /\ UNCHANGED <<connections, distributor, wire, sseHistory>>

\* enqueue, second half: the select with a default.  When the queue has room
\* and done is closed as well, either case may be taken.
EnqueueSend(p) ==
  /\ task[p].step = "send"
  /\ LET c == task[p].at
     IN \/ /\ Len(conn[c].out) < SendBuffer
           /\ conn' = [conn EXCEPT ![c].out = Append(@, task[p].ev)]
           /\ Step(p, Rest(p, c))
        \/ /\ conn[c].done
           /\ Step(p, Rest(p, c))
           /\ UNCHANGED conn
  /\ UNCHANGED <<connections, distributor, wire, sseHistory>>

\* Broken variant: a full queue drops the frame and keeps the connection.
EnqueueFullDrops(p) ==
  /\ task[p].step = "send"
  /\ Len(conn[task[p].at].out) >= SendBuffer /\ ~conn[task[p].at].done
  /\ Step(p, Rest(p, task[p].at))
  /\ UNCHANGED <<connections, conn, distributor, wire, sseHistory>>

\* default: the queue is full and the caller must disconnect.
EnqueueFull(p) ==
  /\ task[p].step = "send"
  /\ Len(conn[task[p].at].out) >= SendBuffer /\ ~conn[task[p].at].done
  /\ Step(p, [task[p] EXCEPT !.step = "delete"])
  /\ UNCHANGED <<connections, conn, distributor, wire, sseHistory>>

\* An event that cannot be encoded: disconnect the target.
DropTarget(p) == \E c \in task[p].targets :
  /\ task[p].step = "drop"
  /\ Step(p, [step |-> "delete", topic |-> task[p].topic, ev |-> task[p].ev,
              targets |-> task[p].targets, at |-> c])
  /\ UNCHANGED <<connections, conn, distributor, wire, sseHistory>>

\* Disconnect: forget the connection under the lock, then close() it outside.
BroadcastDisconnect(p) ==
  /\ task[p].step = "delete"
  /\ connections' = connections \ {task[p].at}
  /\ Step(p, IF task[p].at \in connections THEN [task[p] EXCEPT !.step = "close"]
             ELSE Rest(p, task[p].at))
  /\ UNCHANGED <<conn, distributor, wire, sseHistory>>

\* Broken variant: the connection is forgotten and never closed.
BroadcastCloseSkips(p) ==
  /\ task[p].step = "close"
  /\ Step(p, Rest(p, task[p].at))
  /\ UNCHANGED <<connections, conn, distributor, wire, sseHistory>>

BroadcastClose(p) ==
  /\ task[p].step = "close"
  /\ conn' = [conn EXCEPT ![task[p].at].done = TRUE]
  /\ Step(p, Rest(p, task[p].at))
  /\ UNCHANGED <<connections, distributor, wire, sseHistory>>

\* The distributor (external) calls broadcastLocal back in any order, perhaps
\* twice (the bound on redelivery), or loses the event.
DistributorDeliver(d) == \E m \in wire :
  /\ d \in Callbacks /\ ~Busy(d)
  /\ Step(d, [step |-> "select", topic |-> m.topic, ev |-> m.ev, targets |-> {}])
  /\ \/ wire' = wire \ {m}
     \/ m.again /\ wire' = (wire \ {m}) \cup {[m EXCEPT !.again = FALSE]}
  /\ UNCHANGED <<connections, conn, distributor, sseHistory>>

DistributorDrop == \E m \in wire :
  /\ wire' = wire \ {m}
  /\ UNCHANGED <<connections, conn, task, distributor, sseHistory>>

BroadcastStep(p) ==
  \/ DistributorPublish(p) \/ DistributorPublishFail(p)
  \/ SelectTargets(p) \/ EnqueueMark(p) \/ EnqueueSend(p) \/ EnqueueFull(p)
  \/ DropTarget(p) \/ BroadcastDisconnect(p) \/ BroadcastClose(p)

ServeStep(c) ==
  \/ ServeRegister(c) \/ ServeDone(c) \/ ServeDisconnect(c) \/ ServeClose(c)

(***************************************************************************)
(* Properties.                                                             *)
(***************************************************************************)

\* Every frame the client of c has been or will be sent.
Frames(c) == delivered[c] \o conn[c].out

\* No client of one tenant is ever sent an event of another (broadcastLocal,
\* SseConnectionMeta), whichever topic it was published under.
TenantIsolation == \A c \in Conns : \A i \in DOMAIN Frames(c) :
  \/ Frames(c)[i].TenantID = NoTenant
  \/ conn[c].tenantID = NoTenant
  \/ Frames(c)[i].TenantID = conn[c].tenantID

\* An event whose snapshot held a connection is sent to it, or the connection
\* is dropped: the early assignment of lastEventID never makes a frame vanish
\* from a stream that goes on.
PendingAt(c, id) == \E p \in Goroutines :
  /\ Busy(p) /\ c \in task[p].targets /\ task[p].ev.ID = id
NoSilentLoss == \A c \in connections : \A id \in owed[c] :
  \/ \E i \in DOMAIN Frames(c) : Frames(c)[i].ID = id
  \/ PendingAt(c, id)

\* The frames one goroutine published reach a client in publication order
\* (the comment in broadcastLocal), unless a distributor carried them.
PublicationOrder == ~distributor => \A c \in Conns :
  \A i, j \in DOMAIN Frames(c) :
    (i < j /\ Frames(c)[i].by = Frames(c)[j].by) => Frames(c)[i].k < Frames(c)[j].k

\* The registry holds no stream that has ended, and a stream that goes on
\* without being registered is about to be closed: nothing leaks.
RegistryMatchesStreams ==
  /\ \A c \in connections : conn[c].serve \in {"open", "returning"} /\ ~conn[c].done
  /\ \A c \in Conns \ connections : conn[c].serve = "open" =>
       \/ conn[c].done
       \/ \E p \in Goroutines : task[p].step = "close" /\ task[p].at = c

\* A stream that was dropped from the registry ends.
DroppedStreamEnds == \A c \in Conns :
  (conn[c].serve = "open" /\ c \notin connections) ~> conn[c].serve = "ended"
=============================================================================
