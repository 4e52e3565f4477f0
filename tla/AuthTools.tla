------------------------------ MODULE AuthTools ------------------------------
(***************************************************************************)
(* The facade of auth_tools.go and the tools routes that call it: one call *)
(* feeds the telemetry store, the bus, the stream and the webhooks, in     *)
(* that order.  A call is synchronous: publishing on the bus runs every    *)
(* handler of the snapshot inside the publisher, Bridge's among them,      *)
(* which runs the fan-out again.  todo[p] is therefore goroutine p's       *)
(* stack: the steps its call has still to make.                            *)
(*                                                                         *)
(* Left out: payloads and request provenance, the mail and SMS channels of *)
(* Notify (goroutines of their own, after the broadcast), the delivery of  *)
(* webhooks once they are emitted (WebhookDelivery).                       *)
(***************************************************************************)
EXTENDS EventBus, SseManager

CONSTANTS Users, NoUser,
          Events,      \* the events calls are made with
          Principals,  \* <<user, tenant>> of the clients, one or both absent
          Requested,   \* what clients ask for in ?topics=
          Notices,     \* <<target, event>> of the notifications
          Trackers,    \* the goroutines that track or publish events ...
          Notifiers,   \* ... and those that send notifications
          MaxEvents,      \* bound: no call begins once this many ids are used
          MaxDistributed  \* the same, with a distributor and its goroutines

ASSUME ToolsAssumption ==
  /\ MaxEvents \in Nat /\ MaxDistributed \in Nat
  /\ "bridge" \in Handlers
  /\ NoUser \notin Users
  /\ Trackers \cup Notifiers = Publishers
  /\ \A ev \in Events \cup {n[2] : n \in Notices} :
       /\ ev.Name \in Names /\ ev.encodes \in BOOLEAN
       /\ ev.TenantID \in Tenants \cup {NoTenant} /\ ev.UserID \in Users \cup {NoUser}
  /\ \A who \in Principals : who[1] \in Users \cup {NoUser} /\ who[2] \in Tenants \cup {NoTenant}

VARIABLES
  todo,      \* todo[p]: what p's call has still to do, first step first
  lastID,    \* event ids given out by newUUIDv4
  recorded,  \* ids the telemetry store was offered
  emitted,   \* ids of the events WebhookEmitter.Emit was called for
  casts,     \* ghost: casts[p], the broadcasts p has made
  overlap    \* history: two calls have run at the same time

toolVars == <<todo, lastID, recorded, emitted, casts, overlap>>
vars     == <<busVars, sseVars, toolVars>>

(***************************************************************************)
(* Topics: EventTopics is what a publisher sends to, StreamTopics what a   *)
(* connection may hold.                                                    *)
(***************************************************************************)
Global      == <<"global">>
TenantOf(t) == <<"tenant", t>>
UserOf(u)   == <<"user", u>>
AllTopics   == {Global} \cup {TenantOf(t) : t \in Tenants} \cup {UserOf(u) : u \in Users}

\* Topics are the ones the library names, and what a host chose to notify.
ASSUME TopicsAssumption == AllTopics \cup {n[1] : n \in Notices} \subseteq Topics

EventTopics(ev) ==
  <<Global>> \o (IF ev.TenantID = NoTenant THEN <<>> ELSE <<TenantOf(ev.TenantID)>>)
             \o (IF ev.UserID = NoUser THEN <<>> ELSE <<UserOf(ev.UserID)>>)

StreamTopics(u, t, requested) ==
  LET authorised == {Global} \cup (IF t = NoTenant THEN {} ELSE {TenantOf(t)})
                             \cup (IF u = NoUser THEN {} ELSE {UserOf(u)})
  IN IF requested = {} THEN authorised ELSE requested \cap authorised

(***************************************************************************)
(* The steps of a call.                                                    *)
(***************************************************************************)
RecordOp(id, ev)       == [op |-> "record", id |-> id, ev |-> ev]
PublishOp(id, ev)      == [op |-> "publish", id |-> id, ev |-> ev]
CallOp(sub, id, ev)    == [op |-> "call", sub |-> sub, id |-> id, ev |-> ev]
CastOp(topic, id, ev)  == [op |-> "cast", topic |-> topic, id |-> id, ev |-> ev]
EmitOp(id, ev)         == [op |-> "emit", id |-> id, ev |-> ev]

FanOut(id, ev, publishOnBus) ==
  <<RecordOp(id, ev)>>
  \o (IF publishOnBus THEN <<PublishOp(id, ev)>> ELSE <<>>)
  \o [i \in DOMAIN EventTopics(ev) |-> CastOp(EventTopics(ev)[i], id, ev)]
  \o <<EmitOp(id, ev)>>

Idle(p)     == todo[p] = <<>> /\ ~Busy(p)
\* A call of p begins; the history notices the calls that are under way.
Enter(p) ==
  /\ Idle(p)
  /\ lastID < IF distributor THEN MaxDistributed ELSE MaxEvents
  /\ overlap' = (overlap \/ \E q \in Publishers : ~Idle(q))
Begin(p, s) == todo' = [todo EXCEPT ![p] = s]
Pop(p, s)   == todo' = [todo EXCEPT ![p] = s \o Tail(@)]
Ready(p, o) == todo[p] # <<>> /\ ~Busy(p) /\ Head(todo[p]).op = o
NewID       == lastID' = lastID + 1

\* The steps a stack may hold when n ids were given out: only a publication
\* of the service, and the handlers it calls, go without one.
CallEvent == Events \cup {n[2] : n \in Notices}
CallSteps(n) ==
  [op : {"record", "emit"}, id : 1..n, ev : CallEvent]
  \cup [op : {"cast"}, topic : Topics, id : 1..n, ev : CallEvent]
  \cup [op : {"publish"}, id : 0..n, ev : CallEvent]
  \cup [op : {"call"}, sub : busSubscription, id : 0..n, ev : CallEvent]

TypeOK ==
  /\ BusTypeOK
  /\ SseTypeOK
  /\ lastID \in Nat
  /\ todo \in [Publishers -> Seq(CallSteps(lastID))]
  /\ recorded \subseteq 1..lastID /\ emitted \subseteq 1..lastID
  /\ casts \in [Publishers -> Nat]
  /\ overlap \in BOOLEAN

Init ==
  /\ BusInit
  /\ SseInit
  /\ todo = [p \in Publishers |-> <<>>]
  /\ lastID = 0
  /\ recorded = {} /\ emitted = {}
  /\ casts = [p \in Publishers |-> 0]
  /\ overlap = FALSE

(***************************************************************************)
(* Entry points.                                                           *)
(***************************************************************************)

\* POST <tools>/track, or the host: one id for the record and every topic.
Track(p) == \E ev \in Events :
  /\ Enter(p)
  /\ NewID
  /\ Begin(p, FanOut(lastID + 1, ev, TRUE))
  /\ UNCHANGED <<busVars, sseVars, recorded, emitted, casts>>

\* Service.publish: the library's own events go to the bus and nowhere else.
ServicePublish(p) == \E ev \in Events :
  /\ Enter(p)
  /\ Begin(p, <<PublishOp(0, ev)>>)
  /\ UNCHANGED <<busVars, sseVars, lastID, recorded, emitted, casts>>

\* POST <tools>/notify: one topic, the caller's; Broadcast fills in the id.
Notify(p) == \E n \in Notices :
  /\ Enter(p)
  /\ NewID
  /\ Begin(p, <<CastOp(n[1], lastID + 1, n[2])>>)
  /\ UNCHANGED <<busVars, sseVars, recorded, emitted, casts>>

\* GET <tools>/stream: the server decides the topics.
Stream(c) == \E who \in Principals, requested \in Requested :
  /\ ServeHello(c, StreamTopics(who[1], who[2], requested), who[2])
  /\ UNCHANGED <<busVars, toolVars>>

\* Bridge registers a wildcard handler, a host any handler; either is cancelled
\* through the function Subscribe returned.
BusSubscribe == \E n \in Names \cup {Wildcard}, h \in Handlers :
  /\ h = "bridge" => n = Wildcard
  /\ Subscribe(n, h)
  /\ UNCHANGED <<sseVars, toolVars>>

BusCancel == \E n \in Names \cup {Wildcard} : \E i \in DOMAIN subscribers[n] :
  /\ Unsubscribe(n, subscribers[n][i].id)
  /\ UNCHANGED <<sseVars, toolVars>>

(***************************************************************************)
(* The four sinks.                                                         *)
(***************************************************************************)

\* Broken variant: a failed write ends the call.
DoRecordAborts(p) ==
  /\ Ready(p, "record")
  /\ recorded' = recorded \cup {Head(todo[p]).id}
  /\ (Pop(p, <<>>) \/ Begin(p, <<>>))
  /\ UNCHANGED <<busVars, sseVars, lastID, emitted, casts, overlap>>

\* telemetry.Record: an error is reported and changes nothing that follows.
DoRecord(p) ==
  /\ Ready(p, "record")
  /\ recorded' = recorded \cup {Head(todo[p]).id}
  /\ Pop(p, <<>>)
  /\ UNCHANGED <<busVars, sseVars, lastID, emitted, casts, overlap>>

\* EventBus.Publish: copy the handlers, then call them one by one.
DoPublish(p) ==
  /\ Ready(p, "publish")
  /\ LET o == Head(todo[p]) subs == Snapshot(o.ev.Name)
     IN Pop(p, [i \in DOMAIN subs |-> CallOp(subs[i], o.id, o.ev)])
  /\ UNCHANGED <<busVars, sseVars, lastID, recorded, emitted, casts, overlap>>

\* safeCall of a host's handler: whether it panics or not, the next one runs.
DoCall(p) ==
  /\ Ready(p, "call") /\ Head(todo[p]).sub.handler # "bridge"
  /\ Pop(p, <<>>)
  /\ UNCHANGED <<busVars, sseVars, lastID, recorded, emitted, casts, overlap>>

\* Bridge's handler: the fan-out under an id of its own, without the bus.
DoBridge(p) ==
  /\ Ready(p, "call") /\ Head(todo[p]).sub.handler = "bridge"
  /\ NewID
  /\ Pop(p, FanOut(lastID + 1, Head(todo[p]).ev, FALSE))
  /\ UNCHANGED <<busVars, sseVars, recorded, emitted, casts, overlap>>

DoCast(p) ==
  /\ Ready(p, "cast")
  /\ LET o == Head(todo[p])
     IN StartBroadcast(p, o.topic, [ID |-> o.id, TenantID |-> o.ev.TenantID,
                                    encodes |-> o.ev.encodes, by |-> p, k |-> casts[p]])
  /\ casts' = [casts EXCEPT ![p] = @ + 1]
  /\ Pop(p, <<>>)
  /\ UNCHANGED <<busVars, lastID, recorded, emitted, overlap>>

\* WebhookEmitter.Emit: the deliveries run on goroutines of their own.
DoEmit(p) ==
  /\ Ready(p, "emit")
  /\ emitted' = emitted \cup {Head(todo[p]).id}
  /\ Pop(p, <<>>)
  /\ UNCHANGED <<busVars, sseVars, lastID, recorded, casts, overlap>>

CallStep(p) ==
  DoRecord(p) \/ DoPublish(p) \/ DoCall(p) \/ DoBridge(p) \/ DoCast(p) \/ DoEmit(p)

Sse(A) == A /\ UNCHANGED <<busVars, toolVars>>

Next ==
  \/ \E p \in Trackers : Track(p) \/ ServicePublish(p)
  \/ \E p \in Notifiers : Notify(p)
  \/ \E p \in Publishers : CallStep(p)
  \/ \E p \in Goroutines : Sse(BroadcastStep(p))
  \/ \E d \in Callbacks : Sse(DistributorDeliver(d))
  \/ Sse(DistributorDrop)
  \/ BusSubscribe \/ BusCancel
  \/ \E c \in Conns : \/ Stream(c) \/ Sse(ServeStep(c))
                      \/ Sse(ServeFrame(c)) \/ Sse(ServeGone(c))

Spec == Init /\ [][Next]_vars

\* Every goroutine that can run is run.  Nothing is assumed of clients, of
\* callers or of the distributor.
Fairness ==
  /\ \A p \in Publishers : WF_vars(CallStep(p)) /\ WF_vars(Sse(BroadcastStep(p)))
  /\ \A d \in Callbacks : WF_vars(Sse(BroadcastStep(d)))
  /\ \A c \in Conns : WF_vars(Sse(ServeStep(c)))
FairSpec == Spec /\ Fairness

(***************************************************************************)
(* Properties.                                                             *)
(***************************************************************************)

\* A handler that reads the telemetry store finds the record of the event it
\* is handling (Track's comment on the order of the sinks).
RecordPrecedesHandlers == \A p \in Publishers : \A i \in DOMAIN todo[p] :
  (todo[p][i].op = "call" /\ todo[p][i].id # 0) => todo[p][i].id \in recorded

\* No call feeds itself: nothing is published on the bus from inside a
\* handler of the bus, so Bridge cannot hear its own output.
NoEventLoop == \A p \in Publishers :
  (\E i \in DOMAIN todo[p] : todo[p][i].op = "publish") =>
    Cardinality({i \in DOMAIN todo[p] : todo[p][i].op = "emit"}) <= 1

\* A client's topics are its own: a stream holds no user's topic but that of
\* the user it was opened for, and so one at most.
OwnTopicsOnly == \A c \in Conns :
  /\ Cardinality({u \in Users : UserOf(u) \in conn[c].topics}) <= 1
  /\ \A t \in Tenants : TenantOf(t) \in conn[c].topics => conn[c].tenantID = t

\* At rest every recorded event has been emitted and conversely: no sink is
\* skipped when another one fails.
SinksEven == (\A p \in Publishers : todo[p] = <<>>) => recorded = emitted

\* The four sinks of a call keep to their order, tell the same story in the end,
\* and never start the call again.
SinksAgree == RecordPrecedesHandlers /\ NoEventLoop /\ SinksEven

\* As long as calls do not overlap, the deduplication delivers an event fanned
\* out to several topics once per connection.
DeliveredOnce == (~overlap /\ Deduplicate /\ ~distributor) => \A c \in Conns :
  \A i, j \in DOMAIN Frames(c) : Frames(c)[i].ID = Frames(c)[j].ID => i = j

\* What a client is sent: only what its tenant and its topics entitle it to, in
\* the order it was published, once, and nothing left out of a stream that goes
\* on, however broadcasts, disconnects and the distributor interleave.
FramesAreRight ==
  TenantIsolation /\ OwnTopicsOnly /\ NoSilentLoss /\ PublicationOrder /\ DeliveredOnce

\* The state has its type and the registry holds the streams that are open:
\* no stream leaks, none is forgotten while it goes on (Serve, Disconnect).
StreamsConsistent == TypeOK /\ RegistryMatchesStreams

\* A call returns whatever the clients do, since a full queue never blocks it,
\* and a stream that was dropped from the registry ends.
CallReturns == \A p \in Publishers : todo[p] # <<>> ~> Idle(p)
NobodyHangs == CallReturns /\ DroppedStreamEnds
=============================================================================
