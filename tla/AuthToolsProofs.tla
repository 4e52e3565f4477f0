-------------------------- MODULE AuthToolsProofs --------------------------
(***************************************************************************)
(* Proofs about AuthTools: the streams, the broadcasts and the calls that  *)
(* feed them, for any number of streams, publishers, subscriptions, topics *)
(* and tenants, any size of the queues and any distributor.                *)
(*                                                                         *)
(* A broadcast works on a snapshot of the registry, so what it finds when  *)
(* it comes to a connection is not what it selected.  Three facts carry    *)
(* the proofs: a stream that was once registered keeps its topics and its  *)
(* tenant, it is never registered again, and a last event id is either     *)
(* backed by a frame or by a broadcast that still stands before its send.  *)
(* A call is a stack of steps, and what the sinks hold follows from the    *)
(* shapes such a stack can have.  What a client is sent, in which order    *)
(* and how often, follows from what the frames have to do with the         *)
(* broadcasts under way and with those the stacks have still to make.      *)
(***************************************************************************)
EXTENDS AuthTools, SequenceTheorems, FiniteSetTheorems, TLAPS

AtStep(p, steps) == task[p].step \in steps

\* A broadcast stands at one of the connections it has still to serve.
AtIsTarget == \A p \in Goroutines :
  AtStep(p, {"send", "delete", "close"}) => task[p].at \in task[p].targets

\* A connection that was not registered yet is untouched ...
Fresh(c) == conn[c].serve \in {"none", "hello"}
FreshIsUntouched == \A c \in Conns : Fresh(c) =>
  /\ ~conn[c].done /\ conn[c].out = <<>> /\ conn[c].lastEventID = 0
  /\ delivered[c] = <<>> /\ owed[c] = {}

\* ... and no snapshot holds it.
TargetsWereOpen == \A p \in Goroutines : \A c \in task[p].targets : ~Fresh(c)

\* What a broadcast is about to close has left the registry.
ClosedIsForgotten == \A p \in Goroutines :
  AtStep(p, {"close"}) => task[p].at \notin connections

Registry ==
  /\ SseTypeOK
  /\ AtIsTarget
  /\ FreshIsUntouched
  /\ TargetsWereOpen
  /\ ClosedIsForgotten
  /\ RegistryMatchesStreams

\* A broadcast holds the connections its event may go to, and no others.
TargetsAllowed == \A p \in Goroutines : \A c \in task[p].targets : TenantAllows(c, task[p].ev)
FramesAllowed == \A c \in Conns :
  /\ \A i \in 1..Len(delivered[c]) : TenantAllows(c, delivered[c][i])
  /\ \A i \in 1..Len(conn[c].out) : TenantAllows(c, conn[c].out[i])

Tenancy == TargetsAllowed /\ FramesAllowed

\* An event has been written to c or waits in its queue.
Written(c, id) == \E i \in 1..Len(delivered[c]) : delivered[c][i].ID = id
Queued(c, id)  == \E i \in 1..Len(conn[c].out) : conn[c].out[i].ID = id
Sent(c, id)    == Written(c, id) \/ Queued(c, id)

\* enqueue's early assignment: the last event id of a stream that goes on is
\* that of a frame, or of a broadcast that has still to send it.
AboutToSend(c, id) == \E p \in Goroutines :
  AtStep(p, {"send", "delete"}) /\ task[p].at = c /\ task[p].ev.ID = id
MarkIsBacked == \A c \in connections : conn[c].lastEventID # 0 =>
  Sent(c, conn[c].lastEventID) \/ AboutToSend(c, conn[c].lastEventID)
OwedIsBacked == \A c \in connections : \A id \in owed[c] : Sent(c, id) \/ PendingAt(c, id)

Losses == MarkIsBacked /\ OwedIsBacked

SseInv == Registry /\ Tenancy /\ Losses
IInv   == TypeOK /\ SseInv

-----------------------------------------------------------------------------
(***************************************************************************)
(* Types.                                                                  *)
(***************************************************************************)

\* The fields of a connection (sseConnection).
LEMMA ConnType ==
  ASSUME SseTypeOK, NEW c \in Conns
  PROVE  /\ conn[c] \in sseConnection
         /\ conn[c].serve \in ServeSteps /\ conn[c].topics \subseteq Topics
         /\ conn[c].tenantID \in Tenants \cup {NoTenant}
         /\ conn[c].out \in Seq(StreamEvent) /\ conn[c].done \in BOOLEAN
         /\ conn[c].lastEventID \in Nat
         /\ delivered[c] \in Seq(StreamEvent) /\ owed[c] \subseteq Nat
BY DEF SseTypeOK, sseConnection

\* What a broadcast under way carries (broadcastLocal's arguments).
LEMMA TaskType ==
  ASSUME SseTypeOK, NEW p \in Goroutines
  PROVE  /\ task[p] \in Task
         /\ task[p].targets \subseteq Conns
         /\ Busy(p) => task[p].topic \in Topics /\ task[p].ev \in StreamEvent
         /\ ~Busy(p) => task[p] = NoTask /\ task[p].targets = {}
         /\ task[p].step \in {"send", "delete", "close"} => task[p].at \in Conns
<1>1. task[p] \in Task
  BY DEF SseTypeOK
<1> QED
  BY <1>1 DEF Task, NoTask, Busy

\* A broadcast moves on with what it has.
LEMMA TaskMoves ==
  ASSUME SseTypeOK, NEW p \in Goroutines, Busy(p), NEW ts \in SUBSET Conns
  PROVE  /\ Remaining(task[p], ts) \in Task
         /\ Remaining(task[p], ts).targets = ts
         /\ ts # {} => /\ Remaining(task[p], ts).ev = task[p].ev
                       /\ Remaining(task[p], ts).step \in {"mark", "drop"}
         /\ ts = {} => Remaining(task[p], ts) = NoTask
<1>1. task[p].topic \in Topics /\ task[p].ev \in StreamEvent
  BY TaskType
<1> QED
  BY <1>1 DEF Remaining, Task, NoTask

\* A task with another step.
LEMMA TaskTurns ==
  ASSUME SseTypeOK, NEW p \in Goroutines
  PROVE  /\ task[p].step = "publish" => [task[p] EXCEPT !.step = "select"] \in Task
         /\ task[p].step \in {"send", "delete"} => \A s \in {"delete", "close"} :
              /\ [task[p] EXCEPT !.step = s] \in Task
              /\ [task[p] EXCEPT !.step = s].at = task[p].at
              /\ [task[p] EXCEPT !.step = s].ev = task[p].ev
              /\ [task[p] EXCEPT !.step = s].targets = task[p].targets
              /\ [task[p] EXCEPT !.step = s].step = s
<1>1. task[p] \in Task
  BY DEF SseTypeOK
<1> QED
  BY <1>1 DEF Task, NoTask

-----------------------------------------------------------------------------
(***************************************************************************)
(* The streams.                                                            *)
(***************************************************************************)

\* A step of a stream that leaves the queues, the frames and the broadcasts
\* alone, and registers what is fresh, if anything.
LEMMA QueuesStand ==
  ASSUME SseInv, UNCHANGED <<task, sseHistory>>,
         \A d \in Conns : /\ conn'[d].out = conn[d].out
                          /\ conn'[d].lastEventID = conn[d].lastEventID
                          /\ conn'[d].tenantID = conn[d].tenantID \/ Fresh(d),
         \A d \in connections' : d \in Conns /\ (d \in connections \/ Fresh(d))
  PROVE  Tenancy' /\ Losses'
<1> USE DEF SseInv, sseHistory
<1>1. TargetsAllowed'
  <2>1. \A p \in Goroutines : \A c \in task[p].targets : c \in Conns /\ ~Fresh(c)
    BY TaskType DEF Registry, TargetsWereOpen
  <2> QED
    BY <2>1 DEF Tenancy, TargetsAllowed, TenantAllows
<1>2. FramesAllowed'
  <2>1. \A d \in Conns : Fresh(d) => conn[d].out = <<>> /\ delivered[d] = <<>>
    BY DEF Registry, FreshIsUntouched
  <2> QED
    BY <2>1 DEF Tenancy, FramesAllowed, TenantAllows
<1>3. \A d \in Conns, id \in Nat : Sent(d, id)' = Sent(d, id)
  BY DEF Sent, Written, Queued
<1>4. \A d \in connections' : d \in connections \/ (conn[d].lastEventID = 0 /\ owed[d] = {})
  BY DEF Registry, FreshIsUntouched
<1>5. MarkIsBacked'
  <2> SUFFICES ASSUME NEW d \in connections', conn'[d].lastEventID # 0
               PROVE  Sent(d, conn[d].lastEventID) \/ AboutToSend(d, conn[d].lastEventID)
    BY DEF MarkIsBacked, Sent, Written, Queued, AboutToSend, AtStep
  <2> QED
    BY <1>4 DEF Losses, MarkIsBacked
<1>6. OwedIsBacked'
  <2> SUFFICES ASSUME NEW d \in connections', NEW id \in owed[d]
               PROVE  Sent(d, id) \/ PendingAt(d, id)
    BY DEF OwedIsBacked, Sent, Written, Queued, PendingAt, Busy
  <2> QED
    BY <1>4 DEF Losses, OwedIsBacked
<1> QED
  BY <1>1, <1>2, <1>5, <1>6 DEF Tenancy, Losses

\* Serve writes its connected frame before it registers.
LEMMA ServeHelloKeeps ==
  ASSUME SseInv, NEW c \in Conns, NEW topics \in SUBSET Topics,
         NEW t \in Tenants \cup {NoTenant}, ServeHello(c, topics, t)
  PROVE  SseInv'
<1> USE DEF SseInv, Registry
<1>1. /\ Fresh(c) /\ c \notin connections
      /\ conn[c].out = <<>> /\ conn[c].lastEventID = 0
  BY DEF ServeHello, Fresh, FreshIsUntouched, RegistryMatchesStreams
<1>2. conn' = [conn EXCEPT ![c] = NewConnection("hello", topics, t)]
  BY DEF ServeHello
<1>3. NewConnection("hello", topics, t) \in sseConnection
  BY DEF NewConnection, sseConnection, ServeSteps
<1>4. SseTypeOK'
  BY <1>2, <1>3 DEF ServeHello, SseTypeOK, sseHistory
<1>5. /\ conn'[c] = NewConnection("hello", topics, t)
      /\ \A d \in Conns \ {c} : conn'[d] = conn[d]
  BY <1>2 DEF SseTypeOK
<1>6. AtIsTarget' /\ ClosedIsForgotten'
  BY DEF ServeHello, AtIsTarget, ClosedIsForgotten, AtStep
<1>7. FreshIsUntouched'
  BY <1>1, <1>5 DEF ServeHello, FreshIsUntouched, Fresh, NewConnection, sseHistory
<1>8. TargetsWereOpen'
  BY <1>1, <1>5, TaskType DEF ServeHello, TargetsWereOpen, Fresh
<1>9. RegistryMatchesStreams'
  BY <1>1, <1>5 DEF ServeHello, RegistryMatchesStreams, NewConnection, SseTypeOK
<1>10. Tenancy' /\ Losses'
  <2>1. \A d \in Conns : /\ conn'[d].out = conn[d].out
                         /\ conn'[d].lastEventID = conn[d].lastEventID
                         /\ conn'[d].tenantID = conn[d].tenantID \/ Fresh(d)
    BY <1>1, <1>5 DEF NewConnection
  <2> QED
    BY <2>1, QueuesStand DEF ServeHello, SseTypeOK
<1> QED
  BY <1>4, <1>6, <1>7, <1>8, <1>9, <1>10

\* A stream that moves on inside Serve.
LEMMA StreamMoves ==
  ASSUME SseInv, NEW c \in Conns,
         NEW s \in {"open", "returning", "closing", "ended"}, NEW b \in BOOLEAN,
         conn' = [conn EXCEPT ![c].serve = s, ![c].done = b],
         UNCHANGED <<task, distributor, wire, sseHistory>>,
         connections' \in {connections, connections \cup {c}, connections \ {c}},
         c \in connections' => /\ c \in connections \/ Fresh(c)
                               /\ s \in {"open", "returning"} /\ ~b,
         c \notin connections' => s # "open"
  PROVE  SseInv'
<1> USE DEF SseInv, Registry
<1>1. /\ conn' \in [Conns -> sseConnection]
      /\ conn'[c] = [conn[c] EXCEPT !.serve = s, !.done = b]
      /\ \A d \in Conns \ {c} : conn'[d] = conn[d]
  <2>1. conn' = [conn EXCEPT ![c] = [conn[c] EXCEPT !.serve = s, !.done = b]]
    BY DEF SseTypeOK
  <2>2. [conn[c] EXCEPT !.serve = s, !.done = b] \in sseConnection
    BY ConnType DEF sseConnection, ServeSteps
  <2> QED
    BY <2>1, <2>2 DEF SseTypeOK
<1>2. /\ conn'[c].serve = s /\ conn'[c].done = b
      /\ conn'[c].out = conn[c].out /\ conn'[c].lastEventID = conn[c].lastEventID
      /\ conn'[c].tenantID = conn[c].tenantID
  BY <1>1, ConnType DEF sseConnection
<1>3. SseTypeOK'
  BY <1>1 DEF SseTypeOK, sseHistory
<1>4. AtIsTarget'
  BY DEF AtIsTarget, AtStep
<1>5. ClosedIsForgotten'
  BY TaskType DEF ClosedIsForgotten, AtIsTarget, TargetsWereOpen, AtStep
<1>6. FreshIsUntouched'
  BY <1>1, <1>2 DEF FreshIsUntouched, Fresh, sseHistory
<1>7. TargetsWereOpen'
  BY <1>1, <1>2, TaskType DEF TargetsWereOpen, Fresh
<1>8. RegistryMatchesStreams'
  BY <1>1, <1>2 DEF RegistryMatchesStreams, SseTypeOK
<1>9. Tenancy' /\ Losses'
  <2>1. \A d \in Conns : /\ conn'[d].out = conn[d].out
                         /\ conn'[d].lastEventID = conn[d].lastEventID
                         /\ conn'[d].tenantID = conn[d].tenantID \/ Fresh(d)
    BY <1>1, <1>2
  <2>2. \A d \in connections' : d \in Conns /\ (d \in connections \/ Fresh(d))
    BY DEF SseTypeOK
  <2> QED
    BY <2>1, <2>2, QueuesStand
<1> QED
  BY <1>3, <1>4, <1>5, <1>6, <1>7, <1>8, <1>9

\* Serve's registration, under the lock.
LEMMA ServeRegisterKeeps == ASSUME SseInv, NEW c \in Conns, ServeRegister(c) PROVE SseInv'
<1>1. Fresh(c) /\ conn[c].done = FALSE
  BY ConnType DEF ServeRegister, Fresh, FreshIsUntouched, SseInv, Registry
<1>2. conn' = [conn EXCEPT ![c].serve = "open", ![c].done = FALSE]
  BY <1>1, ConnType DEF ServeRegister, SseInv, Registry, SseTypeOK, sseConnection
<1> QED
  BY <1>1, <1>2, StreamMoves DEF ServeRegister

\* Serve's loop ends, told by done or by the client's going.
LEMMA ServeLoopEnds ==
  ASSUME SseInv, NEW c \in Conns, ServeDone(c) \/ ServeGone(c)
  PROVE  SseInv'
<1>1. conn[c].done \in BOOLEAN /\ (c \in connections => ~conn[c].done)
  BY ConnType DEF SseInv, Registry, RegistryMatchesStreams
<1>2. conn' = [conn EXCEPT ![c].serve = "returning", ![c].done = conn[c].done]
  BY ConnType DEF ServeDone, ServeGone, SseInv, Registry, SseTypeOK, sseConnection
<1> QED
  BY <1>1, <1>2, StreamMoves DEF ServeDone, ServeGone

\* Serve's deferred Disconnect, in its two halves.
LEMMA ServeDisconnectKeeps ==
  ASSUME SseInv, NEW c \in Conns, ServeDisconnect(c) \/ ServeClose(c)
  PROVE  SseInv'
<1>1. CASE ServeDisconnect(c)
  <2>1. PICK s \in {"closing", "ended"} : conn' = [conn EXCEPT ![c].serve = s]
    BY <1>1 DEF ServeDisconnect
  <2>2. conn' = [conn EXCEPT ![c].serve = s, ![c].done = conn[c].done]
    BY <2>1, ConnType DEF SseInv, Registry, SseTypeOK, sseConnection
  <2>3. conn[c].done \in BOOLEAN
    BY ConnType DEF SseInv, Registry
  <2> QED
    BY <1>1, <2>2, <2>3, StreamMoves DEF ServeDisconnect
<1>2. CASE ServeClose(c)
  <2>1. c \notin connections
    BY <1>2 DEF ServeClose, SseInv, Registry, RegistryMatchesStreams
  <2> QED
    BY <1>2, <2>1, StreamMoves DEF ServeClose
<1> QED
  BY <1>1, <1>2

\* A frame moves from the queue to the client: what was sent stays sent.
LEMMA ServeFrameKeeps == ASSUME SseInv, NEW c \in Conns, ServeFrame(c) PROVE SseInv'
<1> USE DEF SseInv, Registry
<1> DEFINE old == conn[c].out
           wr  == delivered[c]
<1>1. /\ old \in Seq(StreamEvent) /\ old # <<>> /\ wr \in Seq(StreamEvent)
      /\ conn[c].serve = "open"
  BY ConnType DEF ServeFrame
<1>2. /\ Head(old) \in StreamEvent /\ Tail(old) \in Seq(StreamEvent)
      /\ Len(Tail(old)) = Len(old) - 1 /\ Head(old) = old[1] /\ Len(old) \in Nat \ {0}
      /\ \A i \in 1..Len(Tail(old)) : Tail(old)[i] = old[i + 1]
  BY <1>1, HeadTailProperties, EmptySeq
<1>3. /\ Append(wr, Head(old)) \in Seq(StreamEvent) /\ Len(wr) \in Nat
      /\ Len(Append(wr, Head(old))) = Len(wr) + 1
      /\ \A i \in 1..Len(wr) : Append(wr, Head(old))[i] = wr[i]
      /\ Append(wr, Head(old))[Len(wr) + 1] = old[1]
  BY <1>1, <1>2, AppendProperties, LenProperties
<1>4. /\ conn' \in [Conns -> sseConnection]
      /\ conn'[c] = [conn[c] EXCEPT !.out = Tail(old)]
      /\ \A d \in Conns \ {c} : conn'[d] = conn[d]
  BY <1>2, ConnType DEF ServeFrame, SseTypeOK, sseConnection
<1>5. /\ conn'[c].serve = conn[c].serve /\ conn'[c].done = conn[c].done
      /\ conn'[c].out = Tail(old) /\ conn'[c].lastEventID = conn[c].lastEventID
      /\ conn'[c].tenantID = conn[c].tenantID
  BY <1>4, ConnType DEF sseConnection
<1>6. /\ delivered' \in [Conns -> Seq(StreamEvent)]
      /\ delivered'[c] = Append(wr, Head(old))
      /\ \A d \in Conns \ {c} : delivered'[d] = delivered[d]
  BY <1>3 DEF ServeFrame, SseTypeOK
<1> HIDE DEF old, wr
<1>7. Registry'
  <2>1. SseTypeOK'
    BY <1>4, <1>6 DEF ServeFrame, SseTypeOK
  <2>2. AtIsTarget' /\ ClosedIsForgotten'
    BY DEF ServeFrame, AtIsTarget, ClosedIsForgotten, AtStep
  <2>3. FreshIsUntouched'
    BY <1>1, <1>4, <1>5, <1>6 DEF ServeFrame, FreshIsUntouched, Fresh
  <2>4. TargetsWereOpen'
    BY <1>1, <1>4, <1>5, TaskType DEF ServeFrame, TargetsWereOpen, Fresh
  <2>5. RegistryMatchesStreams'
    BY <1>4, <1>5 DEF ServeFrame, RegistryMatchesStreams, SseTypeOK
  <2> QED
    BY <2>1, <2>2, <2>3, <2>4, <2>5
<1>8. \A d \in Conns : \A ev : TenantAllows(d, ev)' = TenantAllows(d, ev)
  BY <1>4, <1>5 DEF TenantAllows
<1>9. TargetsAllowed'
  BY <1>8, TaskType DEF ServeFrame, Tenancy, TargetsAllowed
<1>10. FramesAllowed'
  <2> SUFFICES ASSUME NEW d \in Conns
               PROVE  /\ \A i \in 1..Len(delivered'[d]) : TenantAllows(d, delivered'[d][i])
                      /\ \A i \in 1..Len(conn'[d].out) : TenantAllows(d, conn'[d].out[i])
    BY <1>8 DEF FramesAllowed, TenantAllows
  <2>1. CASE d # c
    BY <2>1, <1>4, <1>6 DEF Tenancy, FramesAllowed
  <2>2. CASE d = c
    <3>1. /\ \A i \in 1..Len(wr) : TenantAllows(c, wr[i])
          /\ \A i \in 1..Len(old) : TenantAllows(c, old[i])
      BY DEF Tenancy, FramesAllowed, wr, old
    <3>2. ASSUME NEW i \in 1..(Len(wr) + 1) PROVE TenantAllows(c, Append(wr, Head(old))[i])
      <4>1. CASE i = Len(wr) + 1
        BY <4>1, <3>1, <1>2, <1>3
      <4>2. CASE i # Len(wr) + 1
        BY <4>2, <3>1, <1>3
      <4> QED
        BY <4>1, <4>2
    <3>3. ASSUME NEW i \in 1..(Len(old) - 1) PROVE TenantAllows(c, Tail(old)[i])
      BY <3>1, <1>2
    <3> QED
      BY <2>2, <3>2, <3>3, <1>2, <1>3, <1>5, <1>6
  <2> QED
    BY <2>1, <2>2
<1>11. \A d \in Conns, id \in Nat : Sent(d, id) => Sent(d, id)'
  <2> SUFFICES ASSUME NEW d \in Conns, NEW id \in Nat, Sent(d, id)
               PROVE  Sent(d, id)'
    OBVIOUS
  <2>1. CASE d # c
    BY <2>1, <1>4, <1>6 DEF Sent, Written, Queued
  <2>2. CASE d = c /\ Written(c, id)
    <3>1. PICK i \in 1..Len(wr) : wr[i].ID = id
      BY <2>2 DEF Written, wr
    <3>2. i \in 1..(Len(wr) + 1) /\ Append(wr, Head(old))[i].ID = id
      BY <3>1, <1>3
    <3> QED
      BY <2>2, <3>2, <1>3, <1>6 DEF Sent, Written
  <2>3. CASE d = c /\ Queued(c, id)
    <3>1. PICK i \in 1..Len(old) : old[i].ID = id
      BY <2>3 DEF Queued, old
    <3>2. CASE i = 1
      BY <2>3, <3>1, <3>2, <1>3, <1>6 DEF Sent, Written
    <3>3. CASE i # 1
      <4>1. i - 1 \in 1..Len(Tail(old)) /\ Tail(old)[i - 1].ID = id
        BY <3>1, <3>3, <1>2
      <4> QED
        BY <2>3, <4>1, <1>5 DEF Sent, Queued
    <3> QED
      BY <3>2, <3>3
  <2> QED
    BY <2>1, <2>2, <2>3 DEF Sent
<1>12. MarkIsBacked'
  <2> SUFFICES ASSUME NEW d \in connections, conn'[d].lastEventID # 0
               PROVE  \/ Sent(d, conn[d].lastEventID)'
                      \/ AboutToSend(d, conn'[d].lastEventID)
    BY DEF ServeFrame, MarkIsBacked, AboutToSend, AtStep
  <2>1. PICK id \in Nat : d \in Conns /\ id = conn[d].lastEventID /\ id = conn'[d].lastEventID
    BY <1>4, <1>5, ConnType DEF SseTypeOK
  <2>2. Sent(d, id) \/ AboutToSend(d, id)
    BY <2>1 DEF Losses, MarkIsBacked
  <2>3. Sent(d, id)' \/ AboutToSend(d, id)
    BY <2>1, <2>2, <1>11
  <2> QED
    BY <2>1, <2>3 DEF Sent, Written, Queued
<1>13. OwedIsBacked'
  <2> SUFFICES ASSUME NEW d \in connections, NEW id \in owed[d]
               PROVE  Sent(d, id)' \/ PendingAt(d, id)
    BY DEF ServeFrame, OwedIsBacked, PendingAt, Busy
  <2>1. d \in Conns /\ id \in Nat
    BY DEF SseTypeOK
  <2> QED
    BY <2>1, <1>11 DEF Losses, OwedIsBacked
<1> QED
  BY <1>7, <1>9, <1>10, <1>12, <1>13 DEF Tenancy, Losses

-----------------------------------------------------------------------------
(***************************************************************************)
(* The broadcasts.                                                         *)
(***************************************************************************)

\* A broadcast that goes on with the targets it has.
LEMMA BroadcastTurns ==
  ASSUME SseInv, NEW p \in Goroutines, NEW t \in Task, Step(p, t),
         UNCHANGED <<connections, conn, sseHistory>>,
         distributor' \in BOOLEAN, wire' \subseteq WireEvent,
         t.targets = task[p].targets,
         t.targets # {} => t.ev = task[p].ev,
         t.step \in {"send", "delete"} => t.at \in t.targets,
         t.step # "close", task[p].step # "close",
         AtStep(p, {"send", "delete"}) => t.step \in {"send", "delete"} /\ t.at = task[p].at
  PROVE  SseInv'
<1> USE DEF SseInv, Registry
<1>1. /\ task' \in [Goroutines -> Task] /\ task'[p] = t
      /\ \A q \in Goroutines \ {p} : task'[q] = task[q]
  BY DEF Step, SseTypeOK
<1>2. SseTypeOK'
  BY <1>1 DEF SseTypeOK, sseHistory
<1>3. AtIsTarget' /\ TargetsWereOpen' /\ ClosedIsForgotten'
  BY <1>1 DEF AtIsTarget, TargetsWereOpen, ClosedIsForgotten, AtStep, Fresh
<1>4. FreshIsUntouched'
  BY DEF FreshIsUntouched, Fresh, sseHistory
<1>5. RegistryMatchesStreams'
  BY <1>1 DEF RegistryMatchesStreams
<1>6. Tenancy'
  BY <1>1 DEF Tenancy, TargetsAllowed, FramesAllowed, TenantAllows, sseHistory
<1>7. MarkIsBacked'
  <2>1. \A c \in Conns : \A id : AboutToSend(c, id) => AboutToSend(c, id)'
    BY <1>1 DEF AboutToSend, AtStep, AtIsTarget
  <2>2. \A c \in Conns : \A id : Sent(c, id)' = Sent(c, id)
    BY DEF Sent, Written, Queued, sseHistory
  <2> SUFFICES ASSUME NEW c \in connections, conn[c].lastEventID # 0
               PROVE  Sent(c, conn[c].lastEventID)' \/ AboutToSend(c, conn[c].lastEventID)'
    BY DEF MarkIsBacked
  <2>3. PICK id : id = conn[c].lastEventID
    OBVIOUS
  <2>4. Sent(c, id) \/ AboutToSend(c, id)
    BY <2>3 DEF Losses, MarkIsBacked
  <2>5. Sent(c, id)' \/ AboutToSend(c, id)'
    BY <2>1, <2>2, <2>4 DEF SseTypeOK
  <2> QED
    BY <2>3, <2>5 DEF Sent, Written, Queued, AboutToSend, AtStep
<1>8. OwedIsBacked'
  <2>1. \A c \in Conns : \A id : PendingAt(c, id) => PendingAt(c, id)'
    <3>1. t.targets # {} => t.step # "idle"
      BY DEF Task, NoTask
    <3> QED
      BY <1>1, <3>1 DEF PendingAt, Busy
  <2>2. \A c \in Conns : \A id : Sent(c, id)' = Sent(c, id)
    BY DEF Sent, Written, Queued, sseHistory
  <2> SUFFICES ASSUME NEW c \in connections, NEW id \in owed[c]
               PROVE  Sent(c, id)' \/ PendingAt(c, id)'
    BY DEF OwedIsBacked, sseHistory
  <2> QED
    BY <2>1, <2>2 DEF Losses, OwedIsBacked, SseTypeOK
<1> QED
  BY <1>2, <1>3, <1>4, <1>5, <1>6, <1>7, <1>8 DEF Losses

\* No broadcast that is only beginning has targets.
LEMMA NoTargetsYet ==
  ASSUME SseInv, NEW p \in Goroutines, NEW topic \in Topics, NEW ev \in StreamEvent,
         NEW s \in {"publish", "select"}, ~Busy(p),
         Step(p, [step |-> s, topic |-> topic, ev |-> ev, targets |-> {}]),
         UNCHANGED <<connections, conn, sseHistory>>,
         distributor' \in BOOLEAN, wire' \subseteq WireEvent
  PROVE  SseInv'
<1> DEFINE t == [step |-> s, topic |-> topic, ev |-> ev, targets |-> {}]
<1>1. t \in Task /\ t.targets = {} /\ t.step = s
  BY DEF Task
<1>2. task[p].targets = {} /\ task[p].step = "idle"
  BY TaskType DEF SseInv, Registry, Busy
<1> HIDE DEF t
<1>3. Step(p, t)
  BY DEF t
<1> QED
  BY <1>1, <1>2, <1>3, BroadcastTurns DEF AtStep

\* Broadcast begins, towards the distributor or the snapshot.
LEMMA StartBroadcastKeeps ==
  ASSUME SseInv, NEW p \in Goroutines, NEW topic \in Topics, NEW ev \in StreamEvent,
         StartBroadcast(p, topic, ev)
  PROVE  SseInv'
<1>1. distributor' \in BOOLEAN /\ wire' \subseteq WireEvent
  BY DEF StartBroadcast, SseInv, Registry, SseTypeOK
<1>2. CASE distributor
  BY <1>1, <1>2, NoTargetsYet DEF StartBroadcast
<1>3. CASE ~distributor
  BY <1>1, <1>3, NoTargetsYet DEF StartBroadcast
<1> QED
  BY <1>2, <1>3

\* The distributor calls broadcastLocal back.
LEMMA DistributorDeliverKeeps ==
  ASSUME SseInv, NEW d \in Callbacks, DistributorDeliver(d)
  PROVE  SseInv'
<1>1. PICK m \in wire :
        /\ ~Busy(d)
        /\ Step(d, [step |-> "select", topic |-> m.topic, ev |-> m.ev, targets |-> {}])
        /\ wire' = wire \ {m} \/ wire' = (wire \ {m}) \cup {[m EXCEPT !.again = FALSE]}
        /\ UNCHANGED <<connections, conn, distributor, sseHistory>>
  BY DEF DistributorDeliver
<1>2. m \in WireEvent /\ wire \subseteq WireEvent /\ distributor \in BOOLEAN
  BY DEF SseInv, Registry, SseTypeOK
<1>3. /\ m.topic \in Topics /\ m.ev \in StreamEvent
      /\ [m EXCEPT !.again = FALSE] \in WireEvent
  BY <1>2 DEF WireEvent
<1>4. wire' \subseteq WireEvent
  BY <1>1, <1>2, <1>3
<1> QED
  BY <1>1, <1>2, <1>3, <1>4, NoTargetsYet DEF Goroutines

\* The distributor loses an event.
LEMMA DistributorDropKeeps == ASSUME SseInv, DistributorDrop PROVE SseInv'
<1>1. UNCHANGED <<connections, conn, task, distributor, sseHistory>> /\ wire' \subseteq wire
  BY DEF DistributorDrop
<1>2. Registry'
  BY <1>1 DEF SseInv, Registry, SseTypeOK, AtIsTarget, FreshIsUntouched, TargetsWereOpen,
              ClosedIsForgotten, RegistryMatchesStreams, AtStep, Fresh, sseHistory
<1>3. Tenancy' /\ Losses'
  BY <1>1, QueuesStand DEF SseInv, Registry, SseTypeOK
<1> QED
  BY <1>2, <1>3 DEF SseInv

\* The steps of a broadcast that leave its targets alone: the distributor, the
\* turn to the disconnection.
LEMMA BroadcastTurnsKeep ==
  ASSUME SseInv, NEW p \in Goroutines,
         \/ DistributorPublish(p) \/ DistributorPublishFail(p)
         \/ EnqueueFull(p) \/ DropTarget(p)
  PROVE  SseInv'
<1> USE DEF SseInv, Registry
<1>1. /\ task[p] \in Task
      /\ Busy(p) => task[p].topic \in Topics /\ task[p].ev \in StreamEvent
      /\ task[p].targets \subseteq Conns
      /\ distributor \in BOOLEAN /\ wire \subseteq WireEvent
  BY TaskType DEF SseTypeOK
<1>2. CASE DistributorPublish(p)
  <2>1. [topic |-> task[p].topic, ev |-> task[p].ev, again |-> TRUE] \in WireEvent
    BY <1>1, <1>2 DEF DistributorPublish, WireEvent, Busy
  <2>2. wire' \subseteq WireEvent
    BY <1>1, <1>2, <2>1 DEF DistributorPublish
  <2>3. task[p].targets = {}
    BY <1>1, <1>2 DEF DistributorPublish, Task, NoTask
  <2> QED
    BY <1>1, <1>2, <2>2, <2>3, BroadcastTurns DEF DistributorPublish, NoTask, Task, AtStep
<1>3. CASE DistributorPublishFail(p)
  <2> DEFINE t == [task[p] EXCEPT !.step = "select"]
  <2>1. t \in Task /\ t.targets = task[p].targets /\ t.ev = task[p].ev /\ t.step = "select"
    BY <1>1, <1>3, TaskTurns DEF DistributorPublishFail, Task, NoTask
  <2>2. Step(p, t) /\ task[p].step = "publish"
    BY <1>3 DEF DistributorPublishFail
  <2>3. UNCHANGED <<connections, conn, distributor, wire, sseHistory>>
    BY <1>3 DEF DistributorPublishFail
  <2> HIDE DEF t
  <2> QED
    BY <1>1, <2>1, <2>2, <2>3, BroadcastTurns DEF AtStep
<1>4. CASE EnqueueFull(p)
  <2> DEFINE t == [task[p] EXCEPT !.step = "delete"]
  <2>1. task[p].step = "send" /\ Step(p, t) /\ task[p].at \in task[p].targets
    BY <1>4 DEF EnqueueFull, AtIsTarget, AtStep
  <2>2. /\ t \in Task /\ t.targets = task[p].targets /\ t.ev = task[p].ev
        /\ t.at = task[p].at /\ t.step = "delete"
    BY <2>1, TaskTurns
  <2>3. UNCHANGED <<connections, conn, distributor, wire, sseHistory>>
    BY <1>4 DEF EnqueueFull
  <2> HIDE DEF t
  <2> QED
    BY <1>1, <2>1, <2>2, <2>3, BroadcastTurns DEF AtStep
<1>5. CASE DropTarget(p)
  <2>1. PICK c \in task[p].targets :
          Step(p, [step |-> "delete", topic |-> task[p].topic, ev |-> task[p].ev,
                   targets |-> task[p].targets, at |-> c])
    BY <1>5 DEF DropTarget
  <2> DEFINE t == [step |-> "delete", topic |-> task[p].topic, ev |-> task[p].ev,
                   targets |-> task[p].targets, at |-> c]
  <2>2. task[p].step = "drop"
    BY <1>5 DEF DropTarget
  <2>3. /\ t \in Task /\ t.targets = task[p].targets /\ t.ev = task[p].ev
        /\ t.at = c /\ t.step = "delete"
    BY <1>1, <2>2 DEF Task, Busy
  <2>4. UNCHANGED <<connections, conn, distributor, wire, sseHistory>> /\ Step(p, t)
    BY <1>5, <2>1 DEF DropTarget
  <2> HIDE DEF t
  <2> QED
    BY <1>1, <2>2, <2>3, <2>4, BroadcastTurns DEF AtStep
<1> QED
  BY <1>2, <1>3, <1>4, <1>5

\* What is left of a broadcast that is done with c.
LEMMA RestType ==
  ASSUME SseTypeOK, NEW p \in Goroutines, Busy(p), NEW c
  PROVE  /\ Rest(p, c) \in Task /\ Rest(p, c).step \in {"idle", "mark", "drop"}
         /\ Rest(p, c).targets = task[p].targets \ {c}
         /\ Rest(p, c).targets # {} => Rest(p, c).ev = task[p].ev
<1>1. task[p].targets \ {c} \in SUBSET Conns
  BY TaskType
<1> QED
  BY <1>1, TaskMoves DEF Rest, NoTask

\* A broadcast serves its target c: the registry and the tenants.
LEMMA TargetServed ==
  ASSUME SseInv, NEW p \in Goroutines, NEW c \in task[p].targets,
         AtStep(p, {"send", "delete", "close"}) => task[p].at = c,
         NEW t \in Task, Step(p, t),
         t.targets \subseteq task[p].targets, t.targets # {} => t.ev = task[p].ev,
         t.step \in {"send", "delete", "close"} => t.at \in t.targets,
         t.step = "close" => t.at \notin connections',
         UNCHANGED <<distributor, wire, sseHistory>>,
         connections' \in {connections, connections \ {c}},
         conn' \in [Conns -> sseConnection],
         \A d \in Conns \ {c} : conn'[d] = conn[d],
         conn'[c].serve = conn[c].serve, conn'[c].tenantID = conn[c].tenantID,
         c \in connections' => conn'[c].done = conn[c].done,
         c \notin connections' =>
           \/ conn'[c].done
           \/ t.step = "close" /\ t.at = c
           \/ c \notin connections /\ task[p].step # "close" /\ conn'[c].done = conn[c].done,
         \A i \in 1..Len(conn'[c].out) : TenantAllows(c, conn'[c].out[i])
  PROVE  Registry' /\ Tenancy'
<1> USE DEF SseInv, Registry
<1>1. /\ task' \in [Goroutines -> Task] /\ task'[p] = t
      /\ \A q \in Goroutines \ {p} : task'[q] = task[q]
  BY DEF Step, SseTypeOK
<1>2. c \in Conns /\ ~Fresh(c)
  BY TaskType DEF TargetsWereOpen
<1>3. \A d \in Conns : Fresh(d)' = Fresh(d)
  BY DEF Fresh
<1>4. SseTypeOK'
  BY <1>1 DEF SseTypeOK, sseHistory
<1>5. AtIsTarget'
  BY <1>1 DEF AtIsTarget, AtStep
<1>6. FreshIsUntouched'
  BY <1>2, <1>3 DEF FreshIsUntouched, sseHistory
<1>7. TargetsWereOpen'
  <2> SUFFICES ASSUME NEW q \in Goroutines, NEW d \in task'[q].targets PROVE ~Fresh(d)'
    BY DEF TargetsWereOpen
  <2>1. d \in Conns /\ ~Fresh(d)
    BY <1>1, TaskType DEF TargetsWereOpen
  <2> QED
    BY <2>1, <1>3
<1>8. ClosedIsForgotten'
  BY <1>1 DEF ClosedIsForgotten, AtStep
<1>9. RegistryMatchesStreams'
  <2>1. ASSUME NEW d \in connections'
        PROVE  conn'[d].serve \in {"open", "returning"} /\ ~conn'[d].done
    BY <2>1 DEF RegistryMatchesStreams, SseTypeOK
  <2>2. ASSUME NEW d \in Conns \ connections', conn'[d].serve = "open"
        PROVE  conn'[d].done \/ \E q \in Goroutines : task'[q].step = "close" /\ task'[q].at = d
    <3>1. CASE d = c
      BY <2>2, <3>1, <1>1 DEF RegistryMatchesStreams
    <3>2. CASE d # c
      <4>1. conn[d].done \/ \E q \in Goroutines : task[q].step = "close" /\ task[q].at = d
        BY <2>2, <3>2 DEF RegistryMatchesStreams
      <4> QED
        BY <4>1, <3>2, <1>1 DEF AtStep
    <3> QED
      BY <3>1, <3>2
  <2> QED
    BY <2>1, <2>2 DEF RegistryMatchesStreams
<1>10. \A d \in Conns : \A ev : TenantAllows(d, ev)' = TenantAllows(d, ev)
  BY DEF TenantAllows
<1>11. TargetsAllowed'
  <2> SUFFICES ASSUME NEW q \in Goroutines, NEW d \in task'[q].targets
               PROVE  TenantAllows(d, task[q].ev)'
    BY DEF TargetsAllowed
  <2>1. d \in task[q].targets /\ task'[q].ev = task[q].ev
    BY <1>1
  <2>2. d \in Conns /\ TenantAllows(d, task[q].ev)
    BY <2>1, TaskType DEF Tenancy, TargetsAllowed
  <2>3. conn'[d].tenantID = conn[d].tenantID
    BY <2>2
  <2> QED
    BY <2>1, <2>2, <2>3 DEF TenantAllows
<1>12. FramesAllowed'
  <2> SUFFICES ASSUME NEW d \in Conns
               PROVE  /\ \A i \in 1..Len(delivered[d]) : TenantAllows(d, delivered[d][i])
                      /\ \A i \in 1..Len(conn'[d].out) : TenantAllows(d, conn'[d].out[i])
    BY <1>10 DEF FramesAllowed, TenantAllows, sseHistory
  <2> QED
    BY DEF Tenancy, FramesAllowed
<1> QED
  BY <1>4, <1>5, <1>6, <1>7, <1>8, <1>9, <1>11, <1>12 DEF Tenancy

\* The same step: what every other stream is owed is still coming.
LEMMA OthersLoseNothing ==
  ASSUME SseInv, NEW p \in Goroutines, NEW c \in Conns,
         AtStep(p, {"send", "delete"}) => task[p].at = c,
         NEW t \in Task, Step(p, t),
         task[p].targets \ {c} \subseteq t.targets, t.targets # {} => t.ev = task[p].ev,
         UNCHANGED sseHistory, NEW d \in connections, d # c, conn'[d] = conn[d]
  PROVE  /\ conn[d].lastEventID # 0 => \/ Sent(d, conn[d].lastEventID)'
                                       \/ AboutToSend(d, conn[d].lastEventID)'
         /\ \A id \in owed[d] : Sent(d, id)' \/ PendingAt(d, id)'
<1> USE DEF SseInv, Registry
<1>1. /\ task'[p] = t
      /\ \A q \in Goroutines \ {p} : task'[q] = task[q]
  BY DEF Step, SseTypeOK
<1>2. \A id : Sent(d, id)' = Sent(d, id)
  BY DEF Sent, Written, Queued, sseHistory
<1>3. \A id : AboutToSend(d, id) => AboutToSend(d, id)'
  BY <1>1 DEF AboutToSend, AtStep
<1>4. \A id : PendingAt(d, id) => PendingAt(d, id)'
  <2>1. t.targets # {} => t.step # "idle"
    BY DEF Task, NoTask
  <2> QED
    BY <1>1, <2>1 DEF PendingAt, Busy
<1>5. ASSUME conn[d].lastEventID # 0
      PROVE  Sent(d, conn[d].lastEventID)' \/ AboutToSend(d, conn[d].lastEventID)'
  <2>1. PICK id : id = conn[d].lastEventID
    OBVIOUS
  <2>2. Sent(d, id)' \/ AboutToSend(d, id)'
    BY <2>1, <1>2, <1>3, <1>5 DEF Losses, MarkIsBacked
  <2> QED
    BY <2>1, <2>2 DEF Sent, Written, Queued, AboutToSend, AtStep
<1> QED
  BY <1>2, <1>4, <1>5 DEF Losses, OwedIsBacked

\* The snapshot: what is owed is pending.
LEMMA SelectTargetsKeeps ==
  ASSUME SseInv, NEW p \in Goroutines, SelectTargets(p)
  PROVE  SseInv'
<1> USE DEF SseInv, Registry
<1> DEFINE ts == Targets(task[p].topic, task[p].ev)
           t  == Remaining(task[p], ts)
<1>1. /\ task[p].step = "select" /\ Busy(p) /\ task[p].ev \in StreamEvent
      /\ task[p].targets = {}
  BY TaskType DEF SelectTargets, Busy, Task, NoTask
<1>2. ts \subseteq connections /\ connections \subseteq Conns
  BY DEF Targets, SseTypeOK
<1>3. \A c \in ts : ~Fresh(c) /\ TenantAllows(c, task[p].ev)
  BY DEF Targets, Fresh, RegistryMatchesStreams
<1>4. /\ t \in Task /\ t.targets = ts /\ t.step \in {"idle", "mark", "drop"}
      /\ ts # {} => t.ev = task[p].ev /\ t.step # "idle"
  BY <1>1, <1>2, TaskMoves DEF NoTask
<1>5. /\ Step(p, t) /\ UNCHANGED <<connections, conn, distributor, wire, delivered>>
      /\ owed' = [c \in Conns |-> IF c \in ts THEN owed[c] \cup {task[p].ev.ID} ELSE owed[c]]
  BY DEF SelectTargets
<1> HIDE DEF t, ts
<1>6. /\ task' \in [Goroutines -> Task] /\ task'[p] = t
      /\ \A q \in Goroutines \ {p} : task'[q] = task[q]
  BY <1>4, <1>5 DEF Step, SseTypeOK
<1>7. SseTypeOK'
  BY <1>1, <1>5, <1>6 DEF SseTypeOK, StreamEvent
<1>8. AtIsTarget' /\ ClosedIsForgotten'
  BY <1>4, <1>5, <1>6 DEF AtIsTarget, ClosedIsForgotten, AtStep
<1>9. TargetsWereOpen'
  BY <1>3, <1>4, <1>5, <1>6 DEF TargetsWereOpen, Fresh
<1>10. FreshIsUntouched'
  BY <1>3, <1>5 DEF FreshIsUntouched, Fresh
<1>11. RegistryMatchesStreams'
  BY <1>1, <1>5, <1>6 DEF RegistryMatchesStreams
<1>12. Tenancy'
  BY <1>3, <1>4, <1>5, <1>6 DEF Tenancy, TargetsAllowed, FramesAllowed, TenantAllows
<1>13. \A c \in Conns : \A id : Sent(c, id)' = Sent(c, id)
  BY <1>5 DEF Sent, Written, Queued
<1>14. MarkIsBacked'
  <2>1. \A c, id : AboutToSend(c, id) => AboutToSend(c, id)'
    BY <1>1, <1>6 DEF AboutToSend, AtStep
  <2> SUFFICES ASSUME NEW c \in connections, conn[c].lastEventID # 0
               PROVE  Sent(c, conn[c].lastEventID)' \/ AboutToSend(c, conn[c].lastEventID)'
    BY <1>5 DEF MarkIsBacked
  <2>2. PICK id : id = conn[c].lastEventID
    OBVIOUS
  <2>3. Sent(c, id)' \/ AboutToSend(c, id)'
    BY <1>2, <1>13, <2>1, <2>2 DEF Losses, MarkIsBacked
  <2> QED
    BY <1>5, <2>2, <2>3 DEF Sent, Written, Queued, AboutToSend, AtStep
<1>15. OwedIsBacked'
  <2>1. \A c, id : PendingAt(c, id) => PendingAt(c, id)'
    BY <1>1, <1>6 DEF PendingAt, Busy
  <2> SUFFICES ASSUME NEW c \in connections, NEW id \in owed'[c]
               PROVE  Sent(c, id)' \/ PendingAt(c, id)'
    BY <1>5 DEF OwedIsBacked
  <2>2. CASE id \in owed[c]
    BY <2>1, <2>2, <1>2, <1>13 DEF Losses, OwedIsBacked
  <2>3. CASE id \notin owed[c]
    <3>1. c \in ts /\ id = task[p].ev.ID
      BY <1>2, <1>5, <2>3
    <3> QED
      BY <3>1, <1>4, <1>6 DEF PendingAt, Busy
  <2> QED
    BY <2>2, <2>3
<1> QED
  BY <1>7, <1>8, <1>9, <1>10, <1>11, <1>12, <1>14, <1>15 DEF Losses

\* The last event id is set before the frame is queued: a broadcast that finds
\* its id there has a frame, or another broadcast about to send it, before it.
LEMMA EnqueueMarkKeeps ==
  ASSUME SseInv, NEW p \in Goroutines, EnqueueMark(p)
  PROVE  SseInv'
<1> USE DEF SseInv, Registry
<1>1. PICK c \in task[p].targets :
        /\ task[p].step = "mark"
        /\ conn' = [conn EXCEPT ![c].lastEventID = task[p].ev.ID]
        /\ IF Deduplicate /\ conn[c].lastEventID = task[p].ev.ID
           THEN Step(p, Rest(p, c))
           ELSE Step(p, [step |-> "send", topic |-> task[p].topic, ev |-> task[p].ev,
                         targets |-> task[p].targets, at |-> c])
        /\ UNCHANGED <<connections, distributor, wire, sseHistory>>
  BY DEF EnqueueMark
<1>0. PICK id : id = task[p].ev.ID
  OBVIOUS
<1> DEFINE s == [step |-> "send", topic |-> task[p].topic, ev |-> task[p].ev,
                 targets |-> task[p].targets, at |-> c]
<1>2. /\ Busy(p) /\ c \in Conns /\ task[p].targets \subseteq Conns
      /\ task[p].ev \in StreamEvent /\ task[p].topic \in Topics
      /\ id \in Nat /\ id # 0 /\ SseTypeOK
  BY <1>0, <1>1, TaskType DEF Busy, StreamEvent
<1>3. /\ s \in Task /\ s.targets = task[p].targets /\ s.ev = task[p].ev
      /\ s.step = "send" /\ s.at = c
  BY <1>2 DEF Task
<1>4. /\ Rest(p, c) \in Task /\ Rest(p, c).step \in {"idle", "mark", "drop"}
      /\ Rest(p, c).targets = task[p].targets \ {c}
      /\ Rest(p, c).targets # {} => Rest(p, c).ev = task[p].ev
  BY <1>2, RestType
<1>5. /\ conn' \in [Conns -> sseConnection]
      /\ conn'[c] = [conn[c] EXCEPT !.lastEventID = id]
      /\ \A d \in Conns \ {c} : conn'[d] = conn[d]
  <2>1. [conn[c] EXCEPT !.lastEventID = id] \in sseConnection
    BY <1>2, ConnType DEF sseConnection
  <2> QED
    BY <1>0, <1>1, <1>2, <2>1 DEF SseTypeOK
<1>6. /\ conn'[c].serve = conn[c].serve /\ conn'[c].done = conn[c].done
      /\ conn'[c].out = conn[c].out /\ conn'[c].lastEventID = id
      /\ conn'[c].tenantID = conn[c].tenantID
  BY <1>2, <1>5, ConnType DEF sseConnection
<1>7. \A i \in 1..Len(conn'[c].out) : TenantAllows(c, conn'[c].out[i])
  BY <1>2, <1>6 DEF Tenancy, FramesAllowed
<1>8. PICK t \in Task :
        /\ Step(p, t) /\ t.step # "close" /\ t.targets \subseteq task[p].targets
        /\ task[p].targets \ {c} \subseteq t.targets
        /\ t.targets # {} => t.ev = task[p].ev
        /\ t.step \in {"send", "delete", "close"} => t.at \in t.targets
        /\ \/ t = s
           \/ conn[c].lastEventID = id /\ c \notin t.targets
  <2>1. CASE Deduplicate /\ conn[c].lastEventID = task[p].ev.ID
    <3> HIDE DEF s
    <3> QED
      BY <1>0, <1>1, <1>4, <2>1
  <2>2. CASE ~(Deduplicate /\ conn[c].lastEventID = task[p].ev.ID)
    <3>1. Step(p, s)
      BY <1>1, <2>2
    <3> HIDE DEF s
    <3> QED
      BY <1>3, <3>1
  <2> QED
    BY <2>1, <2>2
<1> HIDE DEF s
<1>9. /\ task'[p] = t
      /\ \A q \in Goroutines \ {p} : task'[q] = task[q]
  BY <1>8 DEF Step, SseTypeOK
<1>10. Registry' /\ Tenancy'
  <2>1. c \notin connections => conn'[c].done = conn[c].done /\ task[p].step # "close"
    BY <1>1, <1>6
  <2>2. ~AtStep(p, {"send", "delete", "close"})
    BY <1>1 DEF AtStep
  <2> QED
    BY <1>1, <1>5, <1>6, <1>7, <1>8, <2>1, <2>2, TargetServed
<1>11. \A d \in connections : d # c =>
         /\ conn[d].lastEventID # 0 => \/ Sent(d, conn[d].lastEventID)'
                                       \/ AboutToSend(d, conn[d].lastEventID)'
         /\ \A i \in owed[d] : Sent(d, i)' \/ PendingAt(d, i)'
  <2>1. ~AtStep(p, {"send", "delete"})
    BY <1>1 DEF AtStep
  <2>2. connections \subseteq Conns
    BY DEF SseTypeOK
  <2> QED
    BY <1>1, <1>2, <1>5, <1>8, <2>1, <2>2, OthersLoseNothing
<1>12. \A i : Sent(c, i)' = Sent(c, i)
  BY <1>1, <1>6 DEF Sent, Written, Queued, sseHistory
<1>13. ASSUME c \in connections PROVE Sent(c, id)' \/ AboutToSend(c, id)'
  <2>1. CASE t = s
    BY <1>0, <1>3, <1>9, <2>1 DEF AboutToSend, AtStep
  <2>2. CASE conn[c].lastEventID = id
    <3>1. Sent(c, id) \/ AboutToSend(c, id)
      BY <1>2, <1>13, <2>2 DEF Losses, MarkIsBacked
    <3>2. AboutToSend(c, id) => AboutToSend(c, id)'
      BY <1>1, <1>9 DEF AboutToSend, AtStep
    <3> QED
      BY <3>1, <3>2, <1>12
  <2> QED
    BY <1>8, <2>1, <2>2
<1>14. ASSUME c \in connections, NEW i \in owed[c] PROVE Sent(c, i)' \/ PendingAt(c, i)'
  <2>1. Sent(c, i) \/ PendingAt(c, i)
    BY <1>14 DEF Losses, OwedIsBacked
  <2>2. CASE i = id
    <3>1. AboutToSend(c, id)' => PendingAt(c, id)'
      BY <1>10 DEF AboutToSend, PendingAt, AtIsTarget, AtStep, Busy
    <3> QED
      BY <1>13, <1>14, <2>2, <3>1
  <2>3. CASE i # id
    <3>1. PendingAt(c, i) => PendingAt(c, i)'
      BY <1>0, <1>9, <2>3 DEF PendingAt, Busy
    <3> QED
      BY <2>1, <3>1, <1>12
  <2> QED
    BY <2>2, <2>3
<1>15. MarkIsBacked'
  <2> SUFFICES ASSUME NEW d \in connections, conn'[d].lastEventID # 0
               PROVE  \/ Sent(d, conn[d].lastEventID)'
                      \/ AboutToSend(d, conn[d].lastEventID)'
    BY <1>1 DEF MarkIsBacked
  <2>1. CASE d = c
    BY <2>1, <1>6, <1>13 DEF Sent, Written, Queued, AboutToSend, AtStep
  <2>2. CASE d # c
    <3>1. conn'[d] = conn[d]
      BY <2>2, <1>5 DEF SseTypeOK
    <3> QED
      BY <2>2, <3>1, <1>11
  <2> QED
    BY <2>1, <2>2
<1>16. OwedIsBacked'
  BY <1>1, <1>11, <1>14 DEF OwedIsBacked, sseHistory
<1> QED
  BY <1>10, <1>15, <1>16 DEF Losses

\* The send: the frame is queued, or the stream has been forgotten already.
LEMMA EnqueueSendKeeps ==
  ASSUME SseInv, NEW p \in Goroutines, EnqueueSend(p)
  PROVE  SseInv'
<1> USE DEF SseInv, Registry
<1>0. PICK c : c = task[p].at
  OBVIOUS
<1>1. /\ task[p].step = "send" /\ Busy(p) /\ SseTypeOK
      /\ c \in task[p].targets /\ c \in Conns /\ task[p].ev \in StreamEvent
  BY <1>0, TaskType DEF EnqueueSend, Busy, AtIsTarget, AtStep
<1>2. PICK t : t = Rest(p, c)
  OBVIOUS
<1>3. /\ t \in Task /\ t.step \in {"idle", "mark", "drop"}
      /\ t.targets = task[p].targets \ {c}
      /\ t.targets # {} => t.ev = task[p].ev
  BY <1>1, <1>2, RestType
<1>4. /\ Step(p, t) /\ UNCHANGED <<connections, distributor, wire, sseHistory>>
      /\ \/ conn' = [conn EXCEPT ![c].out = Append(@, task[p].ev)]
         \/ conn[c].done /\ UNCHANGED conn
  BY <1>0, <1>2 DEF EnqueueSend
<1>5. /\ task'[p] = t
      /\ \A q \in Goroutines \ {p} : task'[q] = task[q]
  BY <1>4 DEF Step, SseTypeOK
<1>6. AtStep(p, {"send", "delete", "close"}) => task[p].at = c
  BY <1>0
<1>7. \A d \in Conns \ {c} : conn'[d] = conn[d]
  BY <1>4 DEF SseTypeOK
<1>8. \A d \in connections : d # c =>
        /\ conn[d].lastEventID # 0 => \/ Sent(d, conn[d].lastEventID)'
                                      \/ AboutToSend(d, conn[d].lastEventID)'
        /\ \A i \in owed[d] : Sent(d, i)' \/ PendingAt(d, i)'
  <2>1. connections \subseteq Conns
    BY DEF SseTypeOK
  <2> QED
    BY <1>0, <1>1, <1>3, <1>4, <1>7, <2>1, OthersLoseNothing
<1>9. CASE conn[c].done /\ UNCHANGED conn
  <2>1. c \notin connections
    BY <1>9 DEF RegistryMatchesStreams
  <2>2. Registry' /\ Tenancy'
    <3>1. /\ conn' \in [Conns -> sseConnection] /\ conn'[c] = conn[c]
          /\ \A i \in 1..Len(conn'[c].out) : TenantAllows(c, conn'[c].out[i])
      BY <1>1, <1>9 DEF SseTypeOK, Tenancy, FramesAllowed
    <3> QED
      BY <1>1, <1>3, <1>4, <1>6, <1>7, <1>9, <2>1, <3>1, TargetServed
  <2>3. MarkIsBacked'
    BY <1>4, <1>8, <1>9, <2>1 DEF MarkIsBacked
  <2>4. OwedIsBacked'
    BY <1>4, <1>8, <2>1 DEF OwedIsBacked, sseHistory
  <2> QED
    BY <2>2, <2>3, <2>4 DEF Losses
<1>10. CASE conn' = [conn EXCEPT ![c].out = Append(@, task[p].ev)]
  <2>1. PICK old, new, ev : /\ old = conn[c].out /\ ev = task[p].ev /\ new = Append(old, ev)
    OBVIOUS
  <2>2. /\ old \in Seq(StreamEvent) /\ ev \in StreamEvent /\ new \in Seq(StreamEvent)
        /\ Len(old) \in Nat /\ Len(new) = Len(old) + 1
        /\ \A i \in 1..Len(old) : new[i] = old[i]
        /\ new[Len(old) + 1] = ev
    BY <1>1, <2>1, ConnType, AppendProperties, LenProperties
  <2>3. /\ conn' \in [Conns -> sseConnection]
        /\ conn'[c] = [conn[c] EXCEPT !.out = new]
    <3>1. [conn[c] EXCEPT !.out = new] \in sseConnection
      BY <1>1, <2>2, ConnType DEF sseConnection
    <3> QED
      BY <1>1, <1>10, <2>1, <3>1 DEF SseTypeOK
  <2>4. /\ conn'[c].serve = conn[c].serve /\ conn'[c].done = conn[c].done
        /\ conn'[c].out = new /\ conn'[c].lastEventID = conn[c].lastEventID
        /\ conn'[c].tenantID = conn[c].tenantID
    BY <1>1, <2>3, ConnType DEF sseConnection
  <2>5. Registry' /\ Tenancy'
    <3>1. /\ TenantAllows(c, ev)
          /\ \A i \in 1..Len(old) : TenantAllows(c, old[i])
      BY <1>1, <2>1 DEF Tenancy, TargetsAllowed, FramesAllowed
    <3>2. \A i \in 1..Len(conn'[c].out) : TenantAllows(c, conn'[c].out[i])
      <4> SUFFICES ASSUME NEW i \in 1..(Len(old) + 1) PROVE TenantAllows(c, new[i])
        BY <2>2, <2>4
      <4>1. CASE i = Len(old) + 1
        BY <2>2, <3>1, <4>1
      <4>2. CASE i # Len(old) + 1
        BY <2>2, <3>1, <4>2
      <4> QED
        BY <4>1, <4>2
    <3>3. c \notin connections => task[p].step # "close" /\ conn'[c].done = conn[c].done
      BY <1>1, <2>4
    <3> QED
      BY <1>1, <1>3, <1>4, <1>6, <1>7, <2>3, <2>4, <3>2, <3>3, TargetServed
  <2>6. \A i : (Sent(c, i) \/ i = ev.ID) => Sent(c, i)'
    <3> SUFFICES ASSUME NEW i, Written(c, i) \/ Queued(c, i) \/ i = ev.ID PROVE Sent(c, i)'
      BY DEF Sent
    <3>1. CASE Written(c, i)
      BY <1>4, <3>1 DEF Sent, Written, sseHistory
    <3>2. CASE Queued(c, i)
      <4>1. PICK j \in 1..Len(old) : old[j].ID = i
        BY <2>1, <3>2 DEF Queued
      <4>2. j \in 1..Len(new) /\ new[j].ID = i
        BY <2>2, <4>1
      <4> QED
        BY <2>4, <4>2 DEF Sent, Queued
    <3>3. CASE i = ev.ID
      <4>1. Len(old) + 1 \in 1..Len(new) /\ new[Len(old) + 1].ID = i
        BY <2>2, <3>3
      <4> QED
        BY <2>4, <4>1 DEF Sent, Queued
    <3> QED
      BY <3>1, <3>2, <3>3
  <2>7. \A i : AboutToSend(c, i) => AboutToSend(c, i)' \/ i = ev.ID
    BY <1>5, <2>1 DEF AboutToSend, AtStep
  <2>8. \A i : PendingAt(c, i) => PendingAt(c, i)' \/ i = ev.ID
    BY <1>5, <2>1 DEF PendingAt, Busy
  <2>9. MarkIsBacked'
    <3> SUFFICES ASSUME NEW d \in connections, conn'[d].lastEventID # 0
                 PROVE  \/ Sent(d, conn[d].lastEventID)'
                        \/ AboutToSend(d, conn[d].lastEventID)'
      BY <1>4 DEF MarkIsBacked
    <3>1. CASE d = c
      <4>1. PICK i : i = conn[c].lastEventID /\ i = conn'[c].lastEventID
        BY <2>4
      <4>2. Sent(c, i)' \/ AboutToSend(c, i)'
        BY <3>1, <4>1, <2>6, <2>7 DEF Losses, MarkIsBacked
      <4> QED
        BY <3>1, <4>1, <4>2 DEF Sent, Written, Queued, AboutToSend, AtStep
    <3>2. CASE d # c
      <4>1. conn'[d] = conn[d]
        BY <3>2, <1>7 DEF SseTypeOK
      <4> QED
        BY <3>2, <4>1, <1>8
    <3> QED
      BY <3>1, <3>2
  <2>10. OwedIsBacked'
    <3> SUFFICES ASSUME NEW d \in connections, NEW i \in owed[d]
                 PROVE  Sent(d, i)' \/ PendingAt(d, i)'
      BY <1>4 DEF OwedIsBacked, sseHistory
    <3>1. CASE d = c
      BY <3>1, <2>6, <2>8 DEF Losses, OwedIsBacked
    <3>2. CASE d # c
      BY <3>2, <1>8
    <3> QED
      BY <3>1, <3>2
  <2> QED
    BY <2>5, <2>9, <2>10 DEF Losses
<1> QED
  BY <1>4, <1>9, <1>10

\* The two halves of Disconnect: the stream is forgotten, then closed; what it
\* was owed goes with it.
LEMMA BroadcastDisconnectKeeps ==
  ASSUME SseInv, NEW p \in Goroutines, BroadcastDisconnect(p) \/ BroadcastClose(p)
  PROVE  SseInv'
<1> USE DEF SseInv, Registry
<1>0. PICK c : c = task[p].at
  OBVIOUS
<1>1. /\ task[p].step \in {"delete", "close"} /\ Busy(p) /\ SseTypeOK
      /\ c \in task[p].targets /\ c \in Conns /\ task[p].ev \in StreamEvent
  BY <1>0, TaskType DEF BroadcastDisconnect, BroadcastClose, Busy, AtIsTarget, AtStep
<1>2. /\ Rest(p, c) \in Task /\ Rest(p, c).step \in {"idle", "mark", "drop"}
      /\ Rest(p, c).targets = task[p].targets \ {c}
      /\ Rest(p, c).targets # {} => Rest(p, c).ev = task[p].ev
  BY <1>1, RestType
<1>3. UNCHANGED <<distributor, wire, sseHistory>>
  BY DEF BroadcastDisconnect, BroadcastClose
<1>4. AtStep(p, {"send", "delete", "close"}) => task[p].at = c
  BY <1>0
<1>5. \A i \in 1..Len(conn[c].out) : TenantAllows(c, conn[c].out[i])
  BY <1>1 DEF Tenancy, FramesAllowed
\* Whatever c becomes, the others lose nothing once it has left the registry.
<1>6. ASSUME NEW t \in Task, Step(p, t), task[p].targets \ {c} \subseteq t.targets,
             t.targets # {} => t.ev = task[p].ev, connections' = connections \ {c},
             \A d \in Conns \ {c} : conn'[d] = conn[d]
      PROVE  Losses'
  <2>1. \A d \in connections : d # c =>
          /\ conn[d].lastEventID # 0 => \/ Sent(d, conn[d].lastEventID)'
                                        \/ AboutToSend(d, conn[d].lastEventID)'
          /\ \A i \in owed[d] : Sent(d, i)' \/ PendingAt(d, i)'
    <3>1. connections \subseteq Conns
      BY DEF SseTypeOK
    <3> QED
      BY <1>0, <1>1, <1>3, <1>6, <3>1, OthersLoseNothing
  <2>2. MarkIsBacked'
    <3> SUFFICES ASSUME NEW d \in connections, d # c, conn'[d].lastEventID # 0
                 PROVE  \/ Sent(d, conn[d].lastEventID)'
                        \/ AboutToSend(d, conn[d].lastEventID)'
      BY <1>6 DEF MarkIsBacked
    <3>1. conn'[d] = conn[d]
      BY <1>6 DEF SseTypeOK
    <3> QED
      BY <3>1, <2>1
  <2>3. OwedIsBacked'
    BY <1>3, <1>6, <2>1 DEF OwedIsBacked, sseHistory
  <2> QED
    BY <2>2, <2>3 DEF Losses
<1>7. CASE BroadcastDisconnect(p)
  <2> DEFINE k == [task[p] EXCEPT !.step = "close"]
  <2>1. /\ task[p].step = "delete" /\ connections' = connections \ {c} /\ UNCHANGED conn
        /\ Step(p, IF c \in connections THEN k ELSE Rest(p, c))
    BY <1>0, <1>7 DEF BroadcastDisconnect
  <2>2. /\ k \in Task /\ k.step = "close" /\ k.at = c
        /\ k.targets = task[p].targets /\ k.ev = task[p].ev
    BY <1>0, <2>1, TaskTurns
  <2> HIDE DEF k
  <2>3. PICK t \in Task :
          /\ Step(p, t) /\ t.targets \subseteq task[p].targets
          /\ task[p].targets \ {c} \subseteq t.targets
          /\ t.targets # {} => t.ev = task[p].ev
          /\ t.step \in {"send", "delete", "close"} => t.at = c /\ c \in t.targets
          /\ c \in connections => t.step = "close" /\ t.at = c
    <3>1. CASE c \in connections
      BY <1>1, <2>1, <2>2, <3>1
    <3>2. CASE c \notin connections
      BY <1>2, <2>1, <3>2
    <3> QED
      BY <3>1, <3>2
  <2>4. Registry' /\ Tenancy'
    <3>1. conn' \in [Conns -> sseConnection]
      BY <2>1 DEF SseTypeOK
    <3>2. c \notin connections'
      BY <2>1
    <3> QED
      BY <1>1, <1>3, <1>4, <1>5, <2>1, <2>3, <3>1, <3>2, TargetServed
  <2> QED
    BY <1>6, <2>1, <2>3, <2>4
<1>8. CASE BroadcastClose(p)
  <2>1. /\ task[p].step = "close" /\ c \notin connections /\ UNCHANGED connections
        /\ conn' = [conn EXCEPT ![c].done = TRUE] /\ Step(p, Rest(p, c))
    BY <1>0, <1>8 DEF BroadcastClose, ClosedIsForgotten, AtStep
  <2>2. /\ conn' \in [Conns -> sseConnection]
        /\ conn'[c] = [conn[c] EXCEPT !.done = TRUE]
        /\ \A d \in Conns \ {c} : conn'[d] = conn[d]
    <3>1. [conn[c] EXCEPT !.done = TRUE] \in sseConnection
      BY <1>1, ConnType DEF sseConnection
    <3> QED
      BY <1>1, <2>1, <3>1 DEF SseTypeOK
  <2>3. /\ conn'[c].serve = conn[c].serve /\ conn'[c].done
        /\ conn'[c].out = conn[c].out /\ conn'[c].tenantID = conn[c].tenantID
    BY <1>1, <2>2, ConnType DEF sseConnection
  <2>4. connections' = connections \ {c}
    BY <2>1
  <2>5. PICK t \in Task :
          /\ Step(p, t) /\ t.targets = task[p].targets \ {c}
          /\ t.step \in {"idle", "mark", "drop"}
          /\ t.targets # {} => t.ev = task[p].ev
    BY <1>2, <2>1
  <2>6. \A i \in 1..Len(conn'[c].out) : TenantAllows(c, conn'[c].out[i])
    BY <1>5, <2>3
  <2>7. Registry' /\ Tenancy'
    BY <1>1, <1>3, <1>4, <2>1, <2>2, <2>3, <2>5, <2>6, TargetServed
  <2> QED
    BY <1>6, <2>2, <2>4, <2>5, <2>7
<1> QED
  BY <1>7, <1>8

-----------------------------------------------------------------------------
(***************************************************************************)
(* The bus and the calls.                                                  *)
(***************************************************************************)

\* An event of a call, and the topics EventTopics sends it to.
LEMMA EventType ==
  ASSUME NEW ev \in CallEvent
  PROVE  /\ ev.Name \in Names /\ ev.encodes \in BOOLEAN
         /\ ev.TenantID \in Tenants \cup {NoTenant}
         /\ ev.UserID \in Users \cup {NoUser}
         /\ EventTopics(ev) \in Seq(Topics)
<1>1. /\ ev.Name \in Names /\ ev.encodes \in BOOLEAN
      /\ ev.TenantID \in Tenants \cup {NoTenant}
      /\ ev.UserID \in Users \cup {NoUser}
  BY ToolsAssumption DEF CallEvent
<1>2. /\ Global \in Topics
      /\ \A t \in Tenants : TenantOf(t) \in Topics
      /\ \A u \in Users : UserOf(u) \in Topics
  BY TopicsAssumption DEF AllTopics
<1> HIDE DEF Global, TenantOf, UserOf
<1> DEFINE a == <<Global>>
           b == IF ev.TenantID = NoTenant THEN <<>> ELSE <<TenantOf(ev.TenantID)>>
           c == IF ev.UserID = NoUser THEN <<>> ELSE <<UserOf(ev.UserID)>>
<1>3. a \in Seq(Topics)
  BY <1>2
<1>4. b \in Seq(Topics)
  <2>1. CASE ev.TenantID = NoTenant
    BY <2>1
  <2>2. CASE ev.TenantID # NoTenant
    BY <1>1, <1>2, <2>2
  <2> QED
    BY <2>1, <2>2
<1>5. c \in Seq(Topics)
  <2>1. CASE ev.UserID = NoUser
    BY <2>1
  <2>2. CASE ev.UserID # NoUser
    BY <1>1, <1>2, <2>2
  <2> QED
    BY <2>1, <2>2
<1>6. EventTopics(ev) = a \o b \o c
  BY DEF EventTopics
<1> HIDE DEF a, b, c
<1>7. a \o b \in Seq(Topics)
  BY <1>3, <1>4, ConcatProperties
<1>8. (a \o b) \o c \in Seq(Topics)
  BY <1>5, <1>7, ConcatProperties
<1> QED
  BY <1>1, <1>6, <1>8

\* What a client may hold is a topic the library names.
LEMMA StreamTopicsType ==
  ASSUME NEW who \in Principals, NEW requested
  PROVE  /\ StreamTopics(who[1], who[2], requested) \subseteq Topics
         /\ who[2] \in Tenants \cup {NoTenant}
BY ToolsAssumption, TopicsAssumption DEF StreamTopics, AllTopics

\* Ids that were given out stay given out.
LEMMA StepsGrow ==
  ASSUME NEW n \in Nat, NEW m \in Nat, n <= m
  PROVE  CallSteps(n) \subseteq CallSteps(m)
<1>1. 1..n \subseteq 1..m /\ 0..n \subseteq 0..m
  OBVIOUS
<1> QED
  BY <1>1 DEF CallSteps

\* The steps of a fan-out (AuthTools.fanOut).
LEMMA FanOutType ==
  ASSUME NEW n \in Nat, NEW id \in 1..n, NEW ev \in CallEvent, NEW b \in BOOLEAN
  PROVE  FanOut(id, ev, b) \in Seq(CallSteps(n))
<1> DEFINE record == <<RecordOp(id, ev)>>
           publish == IF b THEN <<PublishOp(id, ev)>> ELSE <<>>
           casting == [i \in DOMAIN EventTopics(ev) |-> CastOp(EventTopics(ev)[i], id, ev)]
           emit == <<EmitOp(id, ev)>>
<1>1. /\ RecordOp(id, ev) \in CallSteps(n) /\ EmitOp(id, ev) \in CallSteps(n)
      /\ PublishOp(id, ev) \in CallSteps(n)
      /\ \A topic \in Topics : CastOp(topic, id, ev) \in CallSteps(n)
  BY DEF RecordOp, EmitOp, PublishOp, CastOp, CallSteps
<1>2. casting \in Seq(CallSteps(n))
  <2>1. EventTopics(ev) \in Seq(Topics)
    BY EventType
  <2>2. \A i \in DOMAIN EventTopics(ev) : EventTopics(ev)[i] \in Topics
    BY <2>1, ElementOfSeq, LenProperties
  <2>3. Len(EventTopics(ev)) \in Nat /\ DOMAIN EventTopics(ev) = 1..Len(EventTopics(ev))
    BY <2>1, LenProperties
  <2>4. casting \in [1..Len(EventTopics(ev)) -> CallSteps(n)]
    BY <2>2, <2>3, <1>1
  <2> HIDE DEF casting
  <2> QED
    BY <2>3, <2>4, SeqDef
<1>3. record \in Seq(CallSteps(n)) /\ emit \in Seq(CallSteps(n)) /\ publish \in Seq(CallSteps(n))
  BY <1>1
<1>4. FanOut(id, ev, b) = record \o publish \o casting \o emit
  BY DEF FanOut
<1> HIDE DEF record, publish, casting, emit
<1>5. record \o publish \in Seq(CallSteps(n))
  BY <1>3, ConcatProperties
<1>6. record \o publish \o casting \in Seq(CallSteps(n))
  BY <1>2, <1>5, ConcatProperties
<1>7. record \o publish \o casting \o emit \in Seq(CallSteps(n))
  BY <1>3, <1>6, ConcatProperties
<1> QED
  BY <1>4, <1>7

\* The first step of a stack.
LEMMA HeadType ==
  ASSUME TypeOK, NEW p \in Publishers, todo[p] # <<>>
  PROVE  /\ Head(todo[p]) \in CallSteps(lastID)
         /\ Head(todo[p]).ev \in CallEvent
         /\ Head(todo[p]).op \in {"record", "emit", "cast"} => Head(todo[p]).id \in 1..lastID
         /\ Head(todo[p]).id \in 0..lastID
         /\ Head(todo[p]).op = "cast" => Head(todo[p]).topic \in Topics
<1>1. Head(todo[p]) \in CallSteps(lastID)
  BY HeadTailProperties DEF TypeOK
<1>2. lastID \in Nat
  BY DEF TypeOK
<1> QED
  BY <1>1, <1>2 DEF CallSteps

\* Replacing the first step of a stack, with ids that may have grown.
LEMMA PopType ==
  ASSUME TypeOK, NEW p \in Publishers, todo[p] # <<>>,
         NEW n \in Nat, lastID <= n, NEW s \in Seq(CallSteps(n)), Pop(p, s)
  PROVE  todo' \in [Publishers -> Seq(CallSteps(n))]
<1>1. lastID \in Nat /\ todo \in [Publishers -> Seq(CallSteps(lastID))]
  BY DEF TypeOK
<1>2. \A q \in Publishers : todo[q] \in Seq(CallSteps(n))
  BY <1>1, StepsGrow, SeqMonotonic
<1>3. Tail(todo[p]) \in Seq(CallSteps(n))
  BY <1>2, HeadTailProperties
<1>4. s \o Tail(todo[p]) \in Seq(CallSteps(n))
  BY <1>3, ConcatProperties
<1> QED
  BY <1>1, <1>2, <1>4 DEF Pop

\* A call begins with the steps s.
LEMMA BeginType ==
  ASSUME TypeOK, NEW p \in Publishers,
         NEW n \in Nat, lastID <= n, NEW s \in Seq(CallSteps(n)), Begin(p, s)
  PROVE  todo' \in [Publishers -> Seq(CallSteps(n))]
<1>1. lastID \in Nat /\ todo \in [Publishers -> Seq(CallSteps(lastID))]
  BY DEF TypeOK
<1>2. \A q \in Publishers : todo[q] \in Seq(CallSteps(n))
  BY <1>1, StepsGrow, SeqMonotonic
<1> QED
  BY <1>1, <1>2 DEF Begin

\* EventBus.Subscribe keeps the registrations' type.
LEMMA SubscribeType ==
  ASSUME BusTypeOK, NEW name \in Names \cup {Wildcard}, NEW h \in Handlers, Subscribe(name, h)
  PROVE  BusTypeOK'
<1>1. nextID + 1 \in 1..MaxSubs
  BY BusAssumption DEF BusTypeOK, Subscribe
<1>2. [id |-> nextID + 1, handler |-> h] \in busSubscription
  BY <1>1 DEF busSubscription
<1>3. Append(subscribers[name], [id |-> nextID + 1, handler |-> h]) \in Seq(busSubscription)
  BY <1>2, AppendProperties DEF BusTypeOK
<1> QED
  BY <1>1, <1>3 DEF BusTypeOK, Subscribe

\* So does cancelling one.
LEMMA UnsubscribeType ==
  ASSUME BusTypeOK, NEW name \in Names \cup {Wildcard}, NEW id, Unsubscribe(name, id)
  PROVE  BusTypeOK'
<1>1. PICK i \in DOMAIN subscribers[name] :
        /\ subscribers' = [subscribers EXCEPT ![name] = RemoveAt(@, i)]
        /\ UNCHANGED nextID
  BY DEF Unsubscribe
<1>2. PICK s : s = subscribers[name]
  OBVIOUS
<1>3. s \in Seq(busSubscription) /\ i \in 1..Len(s) /\ Len(s) \in Nat
  BY <1>2, LenProperties DEF BusTypeOK
<1>4. SubSeq(s, 1, i - 1) \in Seq(busSubscription)
  BY <1>3, SubSeqProperties, ElementOfSeq
<1>5. SubSeq(s, i + 1, Len(s)) \in Seq(busSubscription)
  BY <1>3, SubSeqProperties, ElementOfSeq
<1>6. RemoveAt(s, i) \in Seq(busSubscription)
  BY <1>4, <1>5, ConcatProperties DEF RemoveAt
<1> QED
  BY <1>1, <1>2, <1>6 DEF BusTypeOK

\* The handlers of the snapshot, one call each.
LEMMA CallsType ==
  ASSUME TypeOK, NEW name \in Names, NEW id \in 0..lastID, NEW ev \in CallEvent
  PROVE  [i \in DOMAIN Snapshot(name) |-> CallOp(Snapshot(name)[i], id, ev)] \in Seq(CallSteps(lastID))
<1> DEFINE s == Snapshot(name)
           t == [i \in DOMAIN s |-> CallOp(s[i], id, ev)]
<1>1. s \in Seq(busSubscription)
  BY ConcatProperties DEF TypeOK, BusTypeOK, Snapshot
<1> HIDE DEF s
<1>2. Len(s) \in Nat /\ DOMAIN s = 1..Len(s) /\ \A i \in 1..Len(s) : s[i] \in busSubscription
  BY <1>1, LenProperties, ElementOfSeq
<1>3. t \in [1..Len(s) -> CallSteps(lastID)]
  BY <1>2 DEF CallOp, CallSteps
<1> HIDE DEF t
<1>4. t \in Seq(CallSteps(lastID))
  BY <1>2, <1>3, SeqDef
<1> QED
  BY <1>4 DEF t, s

\* The bus and the calls leave the streams to their own.
LEMMA StreamsStand == ASSUME SseInv, UNCHANGED sseVars PROVE SseInv'
BY DEF SseInv, Registry, SseTypeOK, AtIsTarget, FreshIsUntouched, TargetsWereOpen,
       ClosedIsForgotten, RegistryMatchesStreams, Tenancy, TargetsAllowed, FramesAllowed,
       TenantAllows, Losses, MarkIsBacked, OwedIsBacked, Sent, Written, Queued, AboutToSend,
       PendingAt, Busy, AtStep, Fresh, sseVars, sseHistory

\* A step of the streams leaves the types of the bus and the calls.
LEMMA ToolsStand ==
  ASSUME TypeOK, UNCHANGED <<busVars, toolVars>>, SseTypeOK'
  PROVE  TypeOK'
BY DEF TypeOK, BusTypeOK, busVars, toolVars

\* A call begins, with a new id or without.
LEMMA EntersKeep ==
  ASSUME IInv, NEW p \in Publishers, Track(p) \/ ServicePublish(p) \/ Notify(p)
  PROVE  IInv'
<1> USE DEF IInv
<1>1. /\ lastID \in Nat /\ TypeOK
      /\ \A q \in Publishers : overlap' \in BOOLEAN
  BY DEF TypeOK, Track, ServicePublish, Notify, Enter
<1>2. SseInv'
  <2>1. UNCHANGED sseVars
    BY DEF Track, ServicePublish, Notify
  <2> QED
    BY <2>1, StreamsStand
<1>3. UNCHANGED <<busVars, recorded, emitted, casts>>
  BY DEF Track, ServicePublish, Notify
<1>4. lastID' \in {lastID, lastID + 1} /\ todo' \in [Publishers -> Seq(CallSteps(lastID'))]
  <2>1. ASSUME NEW ev \in Events, NewID, Begin(p, FanOut(lastID + 1, ev, TRUE))
        PROVE  todo' \in [Publishers -> Seq(CallSteps(lastID'))]
    <3>1. /\ lastID' = lastID + 1 /\ ev \in CallEvent /\ lastID + 1 \in Nat
          /\ lastID <= lastID + 1 /\ lastID + 1 \in 1..(lastID + 1)
      BY <1>1, <2>1 DEF NewID, CallEvent
    <3>2. FanOut(lastID + 1, ev, TRUE) \in Seq(CallSteps(lastID + 1))
      BY <3>1, FanOutType
    <3> QED
      BY <1>1, <2>1, <3>1, <3>2, BeginType
  <2>2. ASSUME NEW ev \in Events, UNCHANGED lastID, Begin(p, <<PublishOp(0, ev)>>)
        PROVE  todo' \in [Publishers -> Seq(CallSteps(lastID'))]
    <3>1. PublishOp(0, ev) \in CallSteps(lastID)
      BY <1>1 DEF PublishOp, CallSteps, CallEvent
    <3>2. <<PublishOp(0, ev)>> \in Seq(CallSteps(lastID))
      BY <3>1
    <3>3. lastID <= lastID
      BY <1>1
    <3>4. todo' \in [Publishers -> Seq(CallSteps(lastID))]
      BY <1>1, <2>2, <3>2, <3>3, BeginType
    <3> QED
      BY <2>2, <3>4
  <2>3. ASSUME NEW n \in Notices, NewID, Begin(p, <<CastOp(n[1], lastID + 1, n[2])>>)
        PROVE  todo' \in [Publishers -> Seq(CallSteps(lastID'))]
    <3>1. /\ lastID' = lastID + 1 /\ lastID + 1 \in Nat /\ lastID <= lastID + 1
          /\ n[2] \in CallEvent /\ n[1] \in Topics
      BY <1>1, <2>3, TopicsAssumption DEF NewID, CallEvent
    <3>2. CastOp(n[1], lastID + 1, n[2]) \in CallSteps(lastID + 1)
      BY <1>1, <3>1 DEF CastOp, CallSteps
    <3>3. <<CastOp(n[1], lastID + 1, n[2])>> \in Seq(CallSteps(lastID + 1))
      BY <3>2
    <3> QED
      BY <1>1, <2>3, <3>1, <3>3, BeginType
  <2> QED
    BY <2>1, <2>2, <2>3 DEF Track, ServicePublish, Notify, NewID
<1>5. TypeOK'
  BY <1>1, <1>2, <1>3, <1>4 DEF TypeOK, BusTypeOK, busVars, SseInv, Registry
<1> QED
  BY <1>2, <1>5

\* One step of a call.
LEMMA CallStepsKeep == ASSUME IInv, NEW p \in Publishers, CallStep(p) PROVE IInv'
<1> USE DEF IInv
<1>1. /\ lastID \in Nat /\ TypeOK /\ todo[p] # <<>> /\ ~Busy(p) /\ overlap' = overlap
      /\ Head(todo[p]) \in CallSteps(lastID) /\ Head(todo[p]).ev \in CallEvent
      /\ UNCHANGED busVars
      /\ <<>> \in Seq(CallSteps(lastID)) /\ lastID <= lastID
  <2>1. /\ todo[p] # <<>> /\ ~Busy(p) /\ overlap' = overlap /\ UNCHANGED busVars
    BY DEF CallStep, DoRecord, DoPublish, DoCall, DoBridge, DoCast, DoEmit, Ready
  <2>2. lastID \in Nat /\ lastID <= lastID
    BY DEF TypeOK
  <2>3. <<>> \in Seq(CallSteps(lastID))
    BY EmptySeq
  <2> QED
    BY <2>1, <2>2, <2>3, HeadType
<1>2. CASE DoRecord(p) \/ DoCall(p) \/ DoEmit(p)
  <2>1. SseInv'
    <3>1. UNCHANGED sseVars
      BY <1>2 DEF DoRecord, DoCall, DoEmit
    <3> QED
      BY <3>1, StreamsStand
  <2>2. lastID' = lastID /\ casts' = casts /\ Pop(p, <<>>)
    BY <1>2 DEF DoRecord, DoCall, DoEmit
  <2>3. todo' \in [Publishers -> Seq(CallSteps(lastID))]
    BY <1>1, <2>2, PopType
  <2>4. recorded' \subseteq 1..lastID /\ emitted' \subseteq 1..lastID
    BY <1>1, <1>2, HeadType DEF DoRecord, DoCall, DoEmit, Ready, TypeOK
  <2>5. TypeOK'
    BY <1>1, <2>1, <2>2, <2>3, <2>4 DEF TypeOK, BusTypeOK, busVars, SseInv, Registry
  <2> QED
    BY <2>1, <2>5
<1>3. CASE DoPublish(p)
  <2>1. SseInv'
    <3>1. UNCHANGED sseVars
      BY <1>3 DEF DoPublish
    <3> QED
      BY <3>1, StreamsStand
  <2>2. PICK o : o = Head(todo[p])
    OBVIOUS
  <2>3. o.ev.Name \in Names /\ o.id \in 0..lastID /\ o.ev \in CallEvent
    BY <1>1, <2>2, HeadType, EventType
  <2>4. Pop(p, [i \in DOMAIN Snapshot(o.ev.Name) |-> CallOp(Snapshot(o.ev.Name)[i], o.id, o.ev)])
    BY <1>3, <2>2 DEF DoPublish
  <2>5. todo' \in [Publishers -> Seq(CallSteps(lastID))]
    BY <1>1, <2>3, <2>4, CallsType, PopType
  <2>6. UNCHANGED <<lastID, recorded, emitted, casts>>
    BY <1>3 DEF DoPublish
  <2>7. TypeOK'
    BY <1>1, <2>1, <2>5, <2>6 DEF TypeOK, BusTypeOK, busVars, SseInv, Registry
  <2> QED
    BY <2>1, <2>7
<1>4. CASE DoBridge(p)
  <2>1. SseInv'
    <3>1. UNCHANGED sseVars
      BY <1>4 DEF DoBridge
    <3> QED
      BY <3>1, StreamsStand
  <2>2. /\ lastID' = lastID + 1 /\ lastID + 1 \in Nat /\ UNCHANGED <<recorded, emitted, casts>>
        /\ lastID <= lastID + 1 /\ lastID + 1 \in 1..(lastID + 1)
    BY <1>1, <1>4 DEF DoBridge, NewID
  <2>3. FanOut(lastID + 1, Head(todo[p]).ev, FALSE) \in Seq(CallSteps(lastID + 1))
    BY <1>1, <2>2, FanOutType
  <2>4. todo' \in [Publishers -> Seq(CallSteps(lastID + 1))]
    BY <1>1, <1>4, <2>2, <2>3, PopType DEF DoBridge
  <2>5. TypeOK'
    BY <1>1, <2>1, <2>2, <2>4 DEF TypeOK, BusTypeOK, busVars, SseInv, Registry
  <2> QED
    BY <2>1, <2>5
<1>5. CASE DoCast(p)
  <2>1. PICK o, ev : /\ o = Head(todo[p])
                     /\ ev = [ID |-> o.id, TenantID |-> o.ev.TenantID,
                              encodes |-> o.ev.encodes, by |-> p, k |-> casts[p]]
    OBVIOUS
  <2>2. /\ o.op = "cast" /\ StartBroadcast(p, o.topic, ev) /\ Pop(p, <<>>)
        /\ casts' = [casts EXCEPT ![p] = @ + 1] /\ UNCHANGED <<lastID, recorded, emitted>>
    BY <1>5, <2>1 DEF DoCast, Ready
  <2>3. o.topic \in Topics /\ o.id \in 1..lastID
    BY <1>1, <2>1, <2>2, HeadType
  <2>4. casts[p] \in Nat /\ casts' \in [Publishers -> Nat]
    BY <2>2 DEF TypeOK
  <2>5. ev \in StreamEvent
    BY <1>1, <2>1, <2>3, <2>4, EventType DEF StreamEvent
  <2>6. SseInv'
    BY <2>2, <2>3, <2>5, StartBroadcastKeeps DEF Goroutines
  <2>7. todo' \in [Publishers -> Seq(CallSteps(lastID))]
    BY <1>1, <2>2, PopType
  <2>8. TypeOK'
    BY <1>1, <2>2, <2>4, <2>6, <2>7 DEF TypeOK, BusTypeOK, busVars, SseInv, Registry
  <2> QED
    BY <2>6, <2>8
<1> QED
  BY <1>2, <1>3, <1>4, <1>5 DEF CallStep

\* The streams and the broadcasts leave the bus and the calls alone.
LEMMA StreamStepsKeep ==
  ASSUME IInv, UNCHANGED <<busVars, toolVars>>,
         \/ \E p \in Goroutines : BroadcastStep(p)
         \/ \E d \in Callbacks : DistributorDeliver(d)
         \/ DistributorDrop
         \/ \E c \in Conns : ServeStep(c) \/ ServeFrame(c) \/ ServeGone(c)
  PROVE  IInv'
<1> USE DEF IInv
<1>1. ASSUME NEW p \in Goroutines, BroadcastStep(p) PROVE SseInv'
  BY <1>1, BroadcastTurnsKeep, SelectTargetsKeeps, EnqueueMarkKeeps, EnqueueSendKeeps,
     BroadcastDisconnectKeeps DEF BroadcastStep
<1>2. ASSUME NEW c \in Conns, ServeStep(c) \/ ServeFrame(c) \/ ServeGone(c) PROVE SseInv'
  BY <1>2, ServeRegisterKeeps, ServeLoopEnds, ServeDisconnectKeeps, ServeFrameKeeps DEF ServeStep
<1>3. SseInv'
  BY <1>1, <1>2, DistributorDeliverKeeps, DistributorDropKeeps
<1>4. TypeOK'
  BY <1>3, ToolsStand DEF SseInv, Registry
<1> QED
  BY <1>3, <1>4

\* A stream is opened, a handler registered or cancelled.
LEMMA OpeningsKeep ==
  ASSUME IInv, BusSubscribe \/ BusCancel \/ \E c \in Conns : Stream(c)
  PROVE  IInv'
<1> USE DEF IInv
<1>1. CASE BusSubscribe \/ BusCancel
  <2>1. BusTypeOK'
    BY <1>1, SubscribeType, UnsubscribeType DEF BusSubscribe, BusCancel, TypeOK
  <2>2. UNCHANGED <<sseVars, toolVars>>
    BY <1>1 DEF BusSubscribe, BusCancel
  <2>3. SseInv'
    BY <2>2, StreamsStand
  <2>4. TypeOK'
    BY <2>1, <2>2, <2>3 DEF TypeOK, toolVars, SseInv, Registry
  <2> QED
    BY <2>3, <2>4
<1>2. CASE \E c \in Conns : Stream(c)
  <2>1. PICK c \in Conns, who \in Principals, requested \in Requested :
          ServeHello(c, StreamTopics(who[1], who[2], requested), who[2])
    BY <1>2 DEF Stream
  <2>2. SseInv'
    BY <2>1, StreamTopicsType, ServeHelloKeeps
  <2>3. TypeOK'
    BY <1>2, <2>2, ToolsStand DEF Stream, SseInv, Registry
  <2> QED
    BY <2>2, <2>3
<1> QED
  BY <1>1, <1>2

-----------------------------------------------------------------------------
(***************************************************************************)
(* The invariant.                                                          *)
(***************************************************************************)

\* A new bus, manager and facade.
LEMMA InitEstablishes == Init => IInv
<1> SUFFICES ASSUME Init PROVE IInv
  OBVIOUS
<1> USE DEF Init, SseInit, BusInit
<1>1. SseTypeOK
  BY DEF SseTypeOK, NewConnection, sseConnection, ServeSteps, Task
<1>2. TypeOK
  <2>1. /\ <<>> \in Seq(busSubscription) /\ <<>> \in Seq(CallSteps(lastID))
        /\ MaxSubs \in Nat
    BY EmptySeq, BusAssumption
  <2>2. BusTypeOK
    BY <2>1 DEF BusTypeOK
  <2>3. todo \in [Publishers -> Seq(CallSteps(lastID))]
    <3>1. todo = [p \in Publishers |-> <<>>]
      OBVIOUS
    <3> QED
      BY ONLY <2>1, <3>1
  <2> QED
    BY <1>1, <2>2, <2>3 DEF TypeOK
<1>3. Registry
  BY <1>1 DEF Registry, AtIsTarget, FreshIsUntouched, TargetsWereOpen, ClosedIsForgotten,
              RegistryMatchesStreams, AtStep, Fresh, NoTask, NewConnection
<1>4. Tenancy /\ Losses
  BY DEF Tenancy, TargetsAllowed, FramesAllowed, Losses, MarkIsBacked, OwedIsBacked,
         NoTask, NewConnection
<1> QED
  BY <1>2, <1>3, <1>4 DEF IInv, SseInv

\* Every step keeps the invariant.
LEMMA NextPreserves == IInv /\ [Next]_vars => IInv'
<1> SUFFICES ASSUME IInv, [Next]_vars PROVE IInv'
  OBVIOUS
<1>1. Trackers \subseteq Publishers /\ Notifiers \subseteq Publishers
  BY ToolsAssumption
<1>2. CASE \/ \E p \in Trackers : Track(p) \/ ServicePublish(p)
           \/ \E p \in Notifiers : Notify(p)
  BY <1>1, <1>2, EntersKeep
<1>3. CASE \E p \in Publishers : CallStep(p)
  BY <1>3, CallStepsKeep
<1>4. CASE \/ \E p \in Goroutines : Sse(BroadcastStep(p))
           \/ \E d \in Callbacks : Sse(DistributorDeliver(d))
           \/ Sse(DistributorDrop)
           \/ \E c \in Conns : Sse(ServeStep(c)) \/ Sse(ServeFrame(c)) \/ Sse(ServeGone(c))
  BY <1>4, StreamStepsKeep DEF Sse
<1>5. CASE BusSubscribe \/ BusCancel \/ \E c \in Conns : Stream(c)
  BY <1>5, OpeningsKeep
<1>6. CASE UNCHANGED vars
  <2>1. SseInv'
    BY <1>6, StreamsStand DEF vars, IInv
  <2> QED
    BY <1>6, <2>1, ToolsStand DEF vars, IInv, SseInv, Registry
<1> QED
  BY <1>2, <1>3, <1>4, <1>5, <1>6 DEF Next

\* The invariant holds in every behaviour.
LEMMA InvariantHolds == Spec => []IInv
BY InitEstablishes, NextPreserves, PTL DEF Spec

-----------------------------------------------------------------------------

\* The bus, the streams and the calls (events.go, sse.go, auth_tools.go) keep
\* their types, and the registry holds the streams that are open: however the
\* two halves of each Disconnect interleave, none that goes on is forgotten
\* without being closed and none that has ended stays.
THEOREM StreamsAreConsistent == Spec => []StreamsConsistent
<1>1. IInv => StreamsConsistent
  BY DEF IInv, SseInv, Registry, StreamsConsistent
<1> QED
  BY <1>1, InvariantHolds, PTL

\* No client of one tenant is ever sent an event of another: the snapshot of
\* broadcastLocal is filtered once, and stays right while the registry moves.
THEOREM TenantsAreIsolated == Spec => []TenantIsolation
<1>1. IInv => TenantIsolation
  <2> SUFFICES ASSUME IInv, NEW c \in Conns, NEW i \in DOMAIN Frames(c)
               PROVE  TenantAllows(c, Frames(c)[i])
    BY DEF TenantIsolation, TenantAllows
  <2>1. PICK w, q : w = delivered[c] /\ q = conn[c].out
    OBVIOUS
  <2>2. w \in Seq(StreamEvent) /\ q \in Seq(StreamEvent)
    BY <2>1, ConnType DEF IInv, SseInv, Registry
  <2>3. /\ Len(w) \in Nat /\ Len(q) \in Nat /\ DOMAIN (w \o q) = 1..(Len(w) + Len(q))
        /\ \A j \in 1..(Len(w) + Len(q)) :
             (w \o q)[j] = IF j <= Len(w) THEN w[j] ELSE q[j - Len(w)]
    BY <2>2, ConcatProperties, LenProperties
  <2>4. /\ \A j \in 1..Len(w) : TenantAllows(c, w[j])
        /\ \A j \in 1..Len(q) : TenantAllows(c, q[j])
    BY <2>1 DEF IInv, SseInv, Tenancy, FramesAllowed
  <2>5. i \in 1..(Len(w) + Len(q)) /\ Frames(c)[i] = (w \o q)[i]
    BY <2>1, <2>3 DEF Frames
  <2>6. CASE i <= Len(w)
    BY <2>3, <2>4, <2>5, <2>6
  <2>7. CASE i > Len(w)
    <3>1. i - Len(w) \in 1..Len(q)
      BY <2>3, <2>5, <2>7
    <3> QED
      BY <2>3, <2>4, <2>5, <2>7, <3>1
  <2> QED
    BY <2>3, <2>5, <2>6, <2>7
<1> QED
  BY <1>1, InvariantHolds, PTL

\* An event whose snapshot held a stream that goes on reaches it or is about
\* to: enqueue's early assignment of the last event id loses no frame, even
\* when several broadcasts carry the same event.
THEOREM NothingIsLostSilently == Spec => []NoSilentLoss
<1>1. IInv => NoSilentLoss
  <2> SUFFICES ASSUME IInv, NEW c \in connections, NEW id \in owed[c], Sent(c, id)
               PROVE  \E i \in DOMAIN Frames(c) : Frames(c)[i].ID = id
    BY DEF NoSilentLoss, IInv, SseInv, Losses, OwedIsBacked
  <2>1. PICK w, q : w = delivered[c] /\ q = conn[c].out
    OBVIOUS
  <2>2. c \in Conns /\ w \in Seq(StreamEvent) /\ q \in Seq(StreamEvent)
    BY <2>1, ConnType DEF IInv, SseInv, Registry, SseTypeOK
  <2>3. /\ Len(w) \in Nat /\ Len(q) \in Nat /\ DOMAIN (w \o q) = 1..(Len(w) + Len(q))
        /\ \A i \in 1..(Len(w) + Len(q)) :
             (w \o q)[i] = IF i <= Len(w) THEN w[i] ELSE q[i - Len(w)]
    BY <2>2, ConcatProperties, LenProperties
  <2>4. CASE Written(c, id)
    <3>1. PICK i \in 1..Len(w) : w[i].ID = id
      BY <2>1, <2>4 DEF Written
    <3>2. i \in DOMAIN (w \o q) /\ (w \o q)[i].ID = id
      BY <2>3, <3>1
    <3> QED
      BY <2>1, <3>2 DEF Frames
  <2>5. CASE Queued(c, id)
    <3>1. PICK i \in 1..Len(q) : q[i].ID = id
      BY <2>1, <2>5 DEF Queued
    <3>2. Len(w) + i \in DOMAIN (w \o q) /\ (w \o q)[Len(w) + i].ID = id
      BY <2>3, <3>1
    <3> QED
      BY <2>1, <3>2 DEF Frames
  <2> QED
    BY <2>4, <2>5 DEF Sent
<1> QED
  BY <1>1, InvariantHolds, PTL

-----------------------------------------------------------------------------
(***************************************************************************)
(* The four sinks.  A stack is a fan-out, or a rest of one, inside others: *)
(* each record step stands before an emission with its id, nothing is      *)
(* published but by the fan-out at the bottom, right after its record.     *)
(***************************************************************************)

Positions(s, o) == {i \in 1..Len(s) : s[i].op = o}
HasStep(s, o, id) == \E i \in Positions(s, o) : s[i].id = id

GoodStack(s, rec) ==
  /\ \A i \in Positions(s, "call") : s[i].id = 0 \/ s[i].id \in rec
  /\ \A i \in Positions(s, "publish") :
       /\ \/ i = 1 /\ (s[i].id = 0 \/ s[i].id \in rec)
          \/ i = 2 /\ s[1].op = "record" /\ s[1].id = s[i].id
       /\ Positions(s, "emit") \subseteq {Len(s)}
  /\ \A i \in Positions(s, "emit") :
       s[i].id \in rec \/ \E j \in Positions(s, "record") : j < i /\ s[j].id = s[i].id
  /\ \A j \in Positions(s, "record") : \E i \in Positions(s, "emit") : j < i /\ s[i].id = s[j].id

SinksInv ==
  /\ \A p \in Publishers : GoodStack(todo[p], recorded)
  /\ emitted \subseteq recorded
  /\ \A id \in recorded \ emitted : \E p \in Publishers : HasStep(todo[p], "emit", id)

\* A stack stays good when more is recorded.
LEMMA GoodStackGrows ==
  ASSUME NEW s, NEW rec, NEW rec2, rec \subseteq rec2, GoodStack(s, rec)
  PROVE  GoodStack(s, rec2)
BY DEF GoodStack

\* What is left of a stack when its first step is done.
LEMMA TailIsGood ==
  ASSUME NEW S, NEW s \in Seq(S), s # <<>>, NEW rec, GoodStack(s, rec)
  PROVE  /\ Head(s).op = "record" => GoodStack(Tail(s), rec \cup {Head(s).id})
         /\ Head(s).op # "record" => /\ GoodStack(Tail(s), rec)
                                     /\ Positions(Tail(s), "publish") = {}
         /\ \A o, id : HasStep(s, o, id) =>
              HasStep(Tail(s), o, id) \/ (Head(s).op = o /\ Head(s).id = id)
         /\ Head(s).op = "record" => HasStep(Tail(s), "emit", Head(s).id)
         /\ Head(s).op = "emit" => Head(s).id \in rec
         /\ Head(s).op = "publish" => Head(s).id = 0 \/ Head(s).id \in rec
<1> DEFINE t == Tail(s)
<1>1. /\ Len(s) \in Nat \ {0} /\ Len(t) = Len(s) - 1 /\ Head(s) = s[1]
      /\ \A i \in 1..Len(t) : t[i] = s[i + 1]
  BY HeadTailProperties, EmptySeq
<1> HIDE DEF t
<1>2. \A o : \A i \in Positions(t, o) : i + 1 \in Positions(s, o) /\ t[i].id = s[i + 1].id /\ i \in 1..Len(t)
  BY <1>1 DEF Positions
<1>3. \A o : \A i \in Positions(s, o) : i # 1 =>
        i - 1 \in Positions(t, o) /\ t[i - 1].id = s[i].id /\ i \in 1..Len(s)
  BY <1>1 DEF Positions
<1>4. \A o : Head(s).op = o <=> 1 \in Positions(s, o)
  BY <1>1 DEF Positions
<1>5. \A o : \A i \in Positions(s, o) : i \in 1..Len(s) /\ s[i].op = o
  BY DEF Positions
<1>6. \A o, id : HasStep(s, o, id) => HasStep(t, o, id) \/ (Head(s).op = o /\ Head(s).id = id)
  BY <1>1, <1>3, <1>4 DEF HasStep
<1>7. Head(s).op = "record" => HasStep(t, "emit", Head(s).id)
  <2> SUFFICES ASSUME Head(s).op = "record" PROVE HasStep(t, "emit", Head(s).id)
    OBVIOUS
  <2>1. PICK i \in Positions(s, "emit") : 1 < i /\ s[i].id = s[1].id
    BY <1>4 DEF GoodStack
  <2> QED
    BY <2>1, <1>1, <1>3 DEF HasStep
<1>8. Head(s).op = "emit" => Head(s).id \in rec
  BY <1>1, <1>4, <1>5 DEF GoodStack
<1>9. Head(s).op = "publish" => Head(s).id = 0 \/ Head(s).id \in rec
  BY <1>1, <1>4 DEF GoodStack
<1>10. Head(s).op # "record" => Positions(t, "publish") = {}
  <2> SUFFICES ASSUME Head(s).op # "record", NEW i \in Positions(t, "publish") PROVE FALSE
    OBVIOUS
  <2>1. i + 1 \in Positions(s, "publish") /\ i \in 1..Len(t)
    BY <1>2
  <2> QED
    BY <2>1, <1>1 DEF GoodStack
<1>11. ASSUME NEW r, rec \subseteq r, Head(s).op = "record" => Head(s).id \in r
       PROVE  GoodStack(t, r)
  <2>1. \A i \in Positions(t, "call") : t[i].id = 0 \/ t[i].id \in r
    BY <1>2, <1>11 DEF GoodStack
  <2>2. ASSUME NEW i \in Positions(t, "publish")
        PROVE  /\ i = 1 /\ (t[i].id = 0 \/ t[i].id \in r)
               /\ Positions(t, "emit") \subseteq {Len(t)}
    <3>1. i + 1 \in Positions(s, "publish") /\ i \in 1..Len(t) /\ t[i].id = s[i + 1].id
      BY <1>2
    <3>2. /\ i + 1 = 2 /\ s[1].op = "record" /\ s[1].id = s[i + 1].id
          /\ Positions(s, "emit") \subseteq {Len(s)}
      BY <3>1 DEF GoodStack
    <3>3. ASSUME NEW k \in Positions(t, "emit") PROVE k = Len(t)
      BY <1>1, <1>2, <3>2
    <3>4. i = 1 /\ Head(s).op = "record" /\ t[i].id = Head(s).id
      BY <1>1, <3>1, <3>2
    <3>5. t[i].id \in r
      BY <1>11, <3>4
    <3> QED
      BY <3>3, <3>4, <3>5
  <2>3. ASSUME NEW i \in Positions(t, "emit")
        PROVE  t[i].id \in r \/ \E j \in Positions(t, "record") : j < i /\ t[j].id = t[i].id
    <3>1. i + 1 \in Positions(s, "emit") /\ i \in 1..Len(t) /\ t[i].id = s[i + 1].id
      BY <1>2
    <3>2. CASE s[i + 1].id \in rec
      BY <1>11, <3>1, <3>2
    <3>3. CASE \E j \in Positions(s, "record") : j < i + 1 /\ s[j].id = s[i + 1].id
      <4>1. PICK j \in Positions(s, "record") : j < i + 1 /\ s[j].id = s[i + 1].id
        BY <3>3
      <4>2. CASE j = 1
        BY <1>1, <1>4, <1>11, <3>1, <4>1, <4>2
      <4>3. CASE j # 1
        BY <1>3, <1>5, <3>1, <4>1, <4>3
      <4> QED
        BY <4>2, <4>3
    <3> QED
      BY <3>1, <3>2, <3>3 DEF GoodStack
  <2>4. ASSUME NEW j \in Positions(t, "record")
        PROVE  \E i \in Positions(t, "emit") : j < i /\ t[i].id = t[j].id
    <3>1. j + 1 \in Positions(s, "record") /\ j \in 1..Len(t) /\ t[j].id = s[j + 1].id
      BY <1>2
    <3>2. PICK i \in Positions(s, "emit") : j + 1 < i /\ s[i].id = s[j + 1].id
      BY <3>1 DEF GoodStack
    <3> QED
      BY <1>3, <1>5, <3>1, <3>2
  <2> QED
    BY <2>1, <2>2, <2>3, <2>4 DEF GoodStack
<1>12. /\ Head(s).op = "record" => GoodStack(t, rec \cup {Head(s).id})
       /\ Head(s).op # "record" => GoodStack(t, rec)
  BY <1>11
<1> QED
  BY <1>6, <1>7, <1>8, <1>9, <1>10, <1>12 DEF t

\* One stack on top of another, when neither publishes.
LEMMA StacksJoin ==
  ASSUME NEW S, NEW s \in Seq(S), NEW t \in Seq(S), NEW rec,
         GoodStack(s, rec), GoodStack(t, rec),
         Positions(s, "publish") = {}, Positions(t, "publish") = {}
  PROVE  /\ GoodStack(s \o t, rec)
         /\ \A o, id : HasStep(t, o, id) => HasStep(s \o t, o, id)
<1> DEFINE u == s \o t
           n == Len(s)
<1>1. /\ n \in Nat /\ Len(t) \in Nat /\ Len(u) = n + Len(t)
      /\ \A i \in 1..Len(u) : u[i] = IF i <= n THEN s[i] ELSE t[i - n]
  BY ConcatProperties, LenProperties
<1> HIDE DEF u, n
<1>2. \A o : \A i \in Positions(s, o) : i \in Positions(u, o) /\ u[i].id = s[i].id /\ i \in 1..n
  BY <1>1 DEF Positions, n
<1>3. \A o : \A i \in Positions(t, o) :
        n + i \in Positions(u, o) /\ u[n + i].id = t[i].id /\ i \in 1..Len(t)
  BY <1>1 DEF Positions
<1>4. \A o : \A i \in Positions(u, o) :
        /\ i \in 1..Len(u)
        /\ \/ i \in Positions(s, o) /\ u[i].id = s[i].id
           \/ i - n \in Positions(t, o) /\ u[i].id = t[i - n].id
  <2> SUFFICES ASSUME NEW o, NEW i \in Positions(u, o)
               PROVE  /\ i \in 1..Len(u)
                      /\ \/ i \in Positions(s, o) /\ u[i].id = s[i].id
                         \/ i - n \in Positions(t, o) /\ u[i].id = t[i - n].id
    OBVIOUS
  <2>1. i \in 1..Len(u) /\ u[i].op = o
    BY DEF Positions
  <2>2. CASE i <= n
    BY <1>1, <2>1, <2>2 DEF Positions, n
  <2>3. CASE i > n
    <3>1. i - n \in 1..Len(t) /\ u[i] = t[i - n]
      BY <1>1, <2>1, <2>3
    <3> QED
      BY <2>1, <3>1 DEF Positions
  <2> QED
    BY <1>1, <2>1, <2>2, <2>3
<1>5. \A o, id : HasStep(t, o, id) => HasStep(u, o, id)
  BY <1>3 DEF HasStep
<1>6. \A i \in Positions(u, "call") : u[i].id = 0 \/ u[i].id \in rec
  BY <1>4 DEF GoodStack
<1>7. Positions(u, "publish") = {}
  BY <1>4
<1>8. ASSUME NEW i \in Positions(u, "emit")
      PROVE  u[i].id \in rec \/ \E j \in Positions(u, "record") : j < i /\ u[j].id = u[i].id
  <2>1. CASE i \in Positions(s, "emit") /\ u[i].id = s[i].id
    BY <1>2, <2>1 DEF GoodStack
  <2>2. CASE i - n \in Positions(t, "emit") /\ u[i].id = t[i - n].id
    <3>1. CASE t[i - n].id \in rec
      BY <2>2, <3>1
    <3>2. CASE t[i - n].id \notin rec
      <4>1. PICK j \in Positions(t, "record") : j < i - n /\ t[j].id = t[i - n].id
        BY <2>2, <3>2 DEF GoodStack
      <4>2. n + j \in Positions(u, "record") /\ u[n + j].id = u[i].id /\ n + j < i
        BY <1>1, <1>3, <1>4, <2>2, <4>1
      <4> QED
        BY <4>2
    <3> QED
      BY <3>1, <3>2
  <2> QED
    BY <1>4, <2>1, <2>2
<1>9. ASSUME NEW j \in Positions(u, "record")
      PROVE  \E i \in Positions(u, "emit") : j < i /\ u[i].id = u[j].id
  <2>1. CASE j \in Positions(s, "record") /\ u[j].id = s[j].id
    BY <1>2, <2>1 DEF GoodStack
  <2>2. CASE j - n \in Positions(t, "record") /\ u[j].id = t[j - n].id
    <3>1. PICK i \in Positions(t, "emit") : j - n < i /\ t[i].id = t[j - n].id
      BY <2>2 DEF GoodStack
    <3>2. n + i \in Positions(u, "emit") /\ u[n + i].id = u[j].id /\ j < n + i
      BY <1>1, <1>3, <1>4, <2>2, <3>1
    <3> QED
      BY <3>2
  <2> QED
    BY <1>4, <2>1, <2>2
<1>10. GoodStack(u, rec)
  BY <1>6, <1>7, <1>8, <1>9 DEF GoodStack
<1> QED
  BY <1>5, <1>10 DEF u

\* A fan-out records first, publishes next if it does, and emits last.
LEMMA FanOutIsGood ==
  ASSUME NEW id \in Nat, NEW ev \in CallEvent, NEW b \in BOOLEAN, NEW rec
  PROVE  /\ GoodStack(FanOut(id, ev, b), rec)
         /\ ~b => Positions(FanOut(id, ev, b), "publish") = {}
<1> DEFINE casts0 == [i \in DOMAIN EventTopics(ev) |-> CastOp(EventTopics(ev)[i], id, ev)]
           F == FanOut(id, ev, b)
           S == CallSteps(id + 1) \cup {RecordOp(id, ev), PublishOp(id, ev), EmitOp(id, ev)}
                                 \cup {CastOp(topic, id, ev) : topic \in Topics}
           r == <<RecordOp(id, ev)>>
           q == IF b THEN <<PublishOp(id, ev)>> ELSE <<>>
           e == <<EmitOp(id, ev)>>
<1>1. /\ casts0 \in Seq(S) /\ \A i \in 1..Len(casts0) : casts0[i].op = "cast"
  <2>1. EventTopics(ev) \in Seq(Topics)
    BY EventType
  <2>2. /\ Len(EventTopics(ev)) \in Nat /\ DOMAIN EventTopics(ev) = 1..Len(EventTopics(ev))
        /\ \A i \in 1..Len(EventTopics(ev)) : EventTopics(ev)[i] \in Topics
    BY <2>1, LenProperties, ElementOfSeq
  <2>3. casts0 \in [1..Len(EventTopics(ev)) -> S]
    BY <2>2
  <2>4. \A i \in 1..Len(EventTopics(ev)) : casts0[i].op = "cast"
    BY <2>2 DEF CastOp
  <2> HIDE DEF casts0, S
  <2>5. casts0 \in Seq(S)
    BY <2>2, <2>3, SeqDef
  <2>6. Len(casts0) = Len(EventTopics(ev))
    BY <2>2, <2>3, <2>5, LenProperties
  <2> QED
    BY <2>4, <2>5, <2>6
<1>2. /\ r \in Seq(S) /\ Len(r) = 1 /\ r[1].op = "record" /\ r[1].id = id
      /\ e \in Seq(S) /\ Len(e) = 1 /\ e[1].op = "emit" /\ e[1].id = id
  BY DEF RecordOp, EmitOp
<1>3. /\ q \in Seq(S) /\ Len(q) = IF b THEN 1 ELSE 0
      /\ b => q[1].op = "publish" /\ q[1].id = id
  BY DEF PublishOp
<1>4. F = r \o q \o casts0 \o e
  BY DEF FanOut
<1> HIDE DEF casts0, S, r, q, e, F
<1>5. PICK m \in Nat : m = Len(casts0)
  BY <1>1, LenProperties
<1>6. PICK k \in {0, 1} : k = Len(q) /\ (k = 1 <=> b)
  BY <1>3
<1>7. PICK v \in Seq(S) :
        /\ v = r \o q /\ Len(v) = 1 + k
        /\ \A i \in 1..(1 + k) : v[i] = IF i <= 1 THEN r[i] ELSE q[i - 1]
  <2>1. Len(r) + Len(q) = 1 + k
    BY <1>2, <1>6
  <2>2. /\ r \o q \in Seq(S) /\ Len(r \o q) = Len(r) + Len(q)
        /\ \A i \in 1..(Len(r) + Len(q)) :
             (r \o q)[i] = IF i <= Len(r) THEN r[i] ELSE q[i - Len(r)]
    BY <1>2, <1>3, ConcatProperties
  <2> QED
    BY <1>2, <2>1, <2>2
<1>8. PICK w \in Seq(S) :
        /\ w = v \o casts0 /\ Len(w) = 1 + k + m
        /\ \A i \in 1..(1 + k + m) :
             w[i] = IF i <= 1 + k THEN v[i] ELSE casts0[i - (1 + k)]
  <2>1. Len(v) + Len(casts0) = 1 + k + m
    BY <1>5, <1>6, <1>7
  <2>2. /\ v \o casts0 \in Seq(S) /\ Len(v \o casts0) = Len(v) + Len(casts0)
        /\ \A i \in 1..(Len(v) + Len(casts0)) :
             (v \o casts0)[i] = IF i <= Len(v) THEN v[i] ELSE casts0[i - Len(v)]
    BY <1>1, ConcatProperties
  <2> QED
    BY <1>7, <2>1, <2>2
<1>9. /\ F \in Seq(S) /\ Len(F) = 2 + k + m
      /\ \A i \in 1..(2 + k + m) : F[i] = IF i <= 1 + k + m THEN w[i] ELSE e[i - (1 + k + m)]
  <2>1. F = w \o e
    BY <1>4, <1>7, <1>8
  <2>2. Len(w) + Len(e) = 2 + k + m
    BY <1>2, <1>6, <1>8
  <2>3. /\ w \o e \in Seq(S) /\ Len(w \o e) = Len(w) + Len(e)
        /\ \A i \in 1..(Len(w) + Len(e)) :
             (w \o e)[i] = IF i <= Len(w) THEN w[i] ELSE e[i - Len(w)]
    BY <1>2, ConcatProperties
  <2> QED
    BY <1>8, <2>1, <2>2, <2>3
<1>10. F[1].op = "record" /\ F[1].id = id
  <2>1. 1 \in 1..(1 + k) /\ 1 \in 1..(1 + k + m) /\ 1 \in 1..(2 + k + m) /\ 1 <= 1 + k /\ 1 <= 1 + k + m
    BY <1>6
  <2>2. F[1] = w[1] /\ w[1] = v[1] /\ v[1] = r[1]
    BY <1>7, <1>8, <1>9, <2>1
  <2> QED
    BY <1>2, <2>2
<1>11. F[2 + k + m].op = "emit" /\ F[2 + k + m].id = id
  BY <1>2, <1>9
<1>12. ASSUME NEW i \in 2..(1 + k + m)
       PROVE  \/ F[i].op = "cast"
              \/ F[i].op = "publish" /\ i = 2 /\ b /\ F[i].id = id
  <2>1. CASE i = 2 /\ k = 1
    BY <1>3, <1>6, <1>7, <1>8, <1>9, <2>1
  <2>2. CASE i > 1 + k
    <3>1. i - (1 + k) \in 1..Len(casts0) /\ i \in 1..(1 + k + m) /\ i \in 1..(2 + k + m)
      BY <1>5, <1>6, <2>2
    <3>2. i <= 1 + k + m /\ ~(i <= 1 + k)
      BY <1>5, <1>6, <2>2, <3>1
    <3>3. F[i] = w[i]
      BY <1>9, <3>1, <3>2
    <3>4. w[i] = casts0[i - (1 + k)]
      BY <1>8, <3>1, <3>2
    <3> QED
      BY <1>1, <3>1, <3>3, <3>4
  <2>3. i \in Int /\ i >= 2 /\ (k = 0 \/ k = 1)
    BY <1>6
  <2>4. (i = 2 /\ k = 1) \/ i > 1 + k
    BY <2>3
  <2> QED
    BY <2>1, <2>2, <2>4
<1>13. /\ Positions(F, "record") = {1} /\ Positions(F, "emit") = {2 + k + m}
       /\ Positions(F, "call") = {}
       /\ \A i \in Positions(F, "publish") : i = 2 /\ b /\ F[i].id = id
  <2>1. ASSUME NEW i \in 1..Len(F)
        PROVE  i = 1 \/ i = 2 + k + m \/ i \in 2..(1 + k + m)
    BY <1>9
  <2>2. 1 \in 1..Len(F) /\ 2 + k + m \in 1..Len(F)
    BY <1>6, <1>9
  <2>3. ASSUME NEW i \in 1..Len(F)
        PROVE  /\ F[i].op # "call"
               /\ F[i].op = "record" => i = 1
               /\ F[i].op = "emit" => i = 2 + k + m
               /\ F[i].op = "publish" => i = 2 /\ b /\ F[i].id = id
    BY <2>1, <1>10, <1>11, <1>12
  <2> QED
    BY <2>2, <2>3, <1>10, <1>11 DEF Positions
<1>14. GoodStack(F, rec)
  <2>1. 1 < 2 + k + m
    OBVIOUS
  <2> QED
    BY <2>1, <1>9, <1>10, <1>11, <1>13 DEF GoodStack
<1> QED
  BY <1>13, <1>14 DEF F

\* The calls of a snapshot go before whatever follows the publication.
LEMMA CallsAreGood ==
  ASSUME NEW id, NEW ev, NEW name, NEW rec, id = 0 \/ id \in rec, TypeOK, name \in Names
  PROVE  LET calls == [i \in DOMAIN Snapshot(name) |-> CallOp(Snapshot(name)[i], id, ev)]
         IN GoodStack(calls, rec) /\ Positions(calls, "publish") = {}
<1> DEFINE s == Snapshot(name)
           calls == [i \in DOMAIN s |-> CallOp(s[i], id, ev)]
<1>1. s \in Seq(busSubscription)
  BY ConcatProperties DEF TypeOK, BusTypeOK, Snapshot
<1> HIDE DEF s
<1>2. Len(s) \in Nat /\ DOMAIN s = 1..Len(s)
  BY <1>1, LenProperties
<1>3. Len(calls) = Len(s)
  <2>1. DOMAIN calls = 1..Len(s)
    BY <1>2
  <2> HIDE DEF calls
  <2> QED
    BY <1>2, <2>1
<1>4. \A i \in 1..Len(calls) : calls[i].op = "call" /\ calls[i].id = id
  BY <1>2, <1>3 DEF CallOp
<1> HIDE DEF calls
<1>5. \A o : o # "call" => Positions(calls, o) = {}
  BY <1>4 DEF Positions
<1>6. GoodStack(calls, rec) /\ Positions(calls, "publish") = {}
  BY <1>4, <1>5 DEF GoodStack, Positions
<1> QED
  BY <1>6 DEF calls, s

\* So is the stack of a call that has returned.
LEMMA EmptyIsGood == \A rec : GoodStack(<<>>, rec) /\ \A o : Positions(<<>>, o) = {}
<1>1. \A o : Positions(<<>>, o) = {}
  BY DEF Positions
<1> QED
  BY <1>1 DEF GoodStack

\* One stack changes: the others and the sinks follow.
LEMMA SinksFollow ==
  ASSUME TypeOK, SinksInv, NEW p \in Publishers, NEW s, todo' = [todo EXCEPT ![p] = s],
         GoodStack(s, recorded'), recorded \subseteq recorded', emitted \subseteq emitted',
         emitted' \subseteq recorded',
         \A id \in recorded' \ recorded : HasStep(s, "emit", id),
         \A id \in recorded \ emitted' : HasStep(todo[p], "emit", id) => HasStep(s, "emit", id)
  PROVE  SinksInv'
<1>1. /\ todo'[p] = s /\ DOMAIN todo = Publishers
      /\ \A q \in Publishers \ {p} : todo'[q] = todo[q]
  BY DEF TypeOK
<1>2. \A q \in Publishers : GoodStack(todo'[q], recorded')
  <2> SUFFICES ASSUME NEW q \in Publishers, q # p PROVE GoodStack(todo[q], recorded')
    BY <1>1
  <2> QED
    BY GoodStackGrows DEF SinksInv
<1>3. ASSUME NEW id \in recorded' \ emitted'
      PROVE  \E q \in Publishers : HasStep(todo'[q], "emit", id)
  <2>1. CASE id \notin recorded
    BY <1>1, <2>1
  <2>2. CASE id \in recorded
    <3>1. PICK q \in Publishers : HasStep(todo[q], "emit", id)
      BY <2>2 DEF SinksInv
    <3> QED
      BY <1>1, <2>2, <3>1
  <2> QED
    BY <2>1, <2>2
<1>4. \A id \in recorded' \ emitted' : (\E q \in Publishers : HasStep(todo[q], "emit", id))'
  BY <1>3 DEF HasStep, Positions
<1> QED
  BY <1>2, <1>4 DEF SinksInv, GoodStack, HasStep, Positions

\* Nothing was recorded, nothing is to be.
LEMMA SinksInit == Init => SinksInv
BY EmptyIsGood DEF Init, SinksInv

\* Track, Service.publish and Notify begin with good stacks.
LEMMA EntersKeepSinks ==
  ASSUME TypeOK, SinksInv, NEW p \in Publishers, Track(p) \/ ServicePublish(p) \/ Notify(p)
  PROVE  SinksInv'
<1>1. /\ todo[p] = <<>> /\ lastID \in Nat /\ UNCHANGED <<recorded, emitted>>
      /\ emitted \subseteq recorded
  BY DEF Track, ServicePublish, Notify, Enter, Idle, TypeOK, SinksInv
<1>2. PICK s : todo' = [todo EXCEPT ![p] = s] /\ GoodStack(s, recorded)
  <2>1. ASSUME NEW ev \in Events, Begin(p, FanOut(lastID + 1, ev, TRUE))
        PROVE  \E s : todo' = [todo EXCEPT ![p] = s] /\ GoodStack(s, recorded)
    <3>1. ev \in CallEvent /\ lastID + 1 \in Nat
      BY <1>1 DEF CallEvent
    <3> QED
      BY <2>1, <3>1, FanOutIsGood DEF Begin
  <2>2. ASSUME NEW ev \in Events, Begin(p, <<PublishOp(0, ev)>>)
        PROVE  \E s : todo' = [todo EXCEPT ![p] = s] /\ GoodStack(s, recorded)
    <3>1. GoodStack(<<PublishOp(0, ev)>>, recorded)
      BY DEF GoodStack, Positions, PublishOp
    <3> QED
      BY <2>2, <3>1 DEF Begin
  <2>3. ASSUME NEW n \in Notices, Begin(p, <<CastOp(n[1], lastID + 1, n[2])>>)
        PROVE  \E s : todo' = [todo EXCEPT ![p] = s] /\ GoodStack(s, recorded)
    <3>1. GoodStack(<<CastOp(n[1], lastID + 1, n[2])>>, recorded)
      BY DEF GoodStack, Positions, CastOp
    <3> QED
      BY <2>3, <3>1 DEF Begin
  <2> QED
    BY <2>1, <2>2, <2>3 DEF Track, ServicePublish, Notify
<1>3. \A id : ~HasStep(todo[p], "emit", id)
  BY <1>1, EmptyIsGood DEF HasStep
<1> QED
  BY <1>1, <1>2, <1>3, SinksFollow

\* Each step of a call leaves a good stack (fanOut, Publish, Bridge).
LEMMA CallStepsKeepSinks ==
  ASSUME TypeOK, SinksInv, NEW p \in Publishers, CallStep(p)
  PROVE  SinksInv'
<1>1. /\ todo[p] # <<>> /\ lastID \in Nat /\ todo[p] \in Seq(CallSteps(lastID))
      /\ GoodStack(todo[p], recorded) /\ emitted \subseteq recorded
      /\ Head(todo[p]).ev \in CallEvent
  BY HeadType DEF CallStep, DoRecord, DoPublish, DoCall, DoBridge, DoCast, DoEmit, Ready, TypeOK, SinksInv
<1>2. PICK t, h : t = Tail(todo[p]) /\ h = Head(todo[p])
  OBVIOUS
<1>3. /\ t \in Seq(CallSteps(lastID)) /\ <<>> \o t = t
      /\ h.op = "record" => GoodStack(t, recorded \cup {h.id})
      /\ h.op # "record" => GoodStack(t, recorded) /\ Positions(t, "publish") = {}
      /\ \A o, id : HasStep(todo[p], o, id) => HasStep(t, o, id) \/ (h.op = o /\ h.id = id)
      /\ h.op = "record" => HasStep(t, "emit", h.id)
      /\ h.op = "emit" => h.id \in recorded
      /\ h.op = "publish" => h.id = 0 \/ h.id \in recorded
  <2>1. t \in Seq(CallSteps(lastID)) /\ <<>> \o t = t
    BY <1>1, <1>2, HeadTailProperties, ConcatEmptySeq
  <2> HIDE DEF GoodStack
  <2> QED
    BY <1>1, <1>2, <2>1, TailIsGood
<1>4. CASE DoRecord(p)
  <2>1. /\ h.op = "record" /\ recorded' = recorded \cup {h.id} /\ emitted' = emitted
        /\ todo' = [todo EXCEPT ![p] = t]
    BY <1>2, <1>3, <1>4 DEF DoRecord, Ready, Pop
  <2> QED
    BY <1>1, <1>3, <2>1, SinksFollow
<1>5. CASE DoCall(p) \/ DoCast(p)
  <2>1. /\ h.op \in {"call", "cast"} /\ UNCHANGED <<recorded, emitted>>
        /\ todo' = [todo EXCEPT ![p] = t]
    BY <1>2, <1>3, <1>5 DEF DoCall, DoCast, Ready, Pop
  <2> QED
    BY <1>1, <1>3, <2>1, SinksFollow
<1>6. CASE DoEmit(p)
  <2>1. /\ h.op = "emit" /\ recorded' = recorded /\ emitted' = emitted \cup {h.id}
        /\ todo' = [todo EXCEPT ![p] = t]
    BY <1>2, <1>3, <1>6 DEF DoEmit, Ready, Pop
  <2> QED
    BY <1>1, <1>3, <2>1, SinksFollow
<1>7. ASSUME NEW n \in Nat, NEW s \in Seq(CallSteps(n)), lastID <= n,
             GoodStack(s, recorded), Positions(s, "publish") = {},
             h.op \in {"publish", "call"}, UNCHANGED <<recorded, emitted>>,
             todo' = [todo EXCEPT ![p] = s \o t]
      PROVE  SinksInv'
  <2>1. t \in Seq(CallSteps(n))
    BY <1>1, <1>3, <1>7, StepsGrow, SeqMonotonic
  <2>2. GoodStack(s \o t, recorded) /\ \A o, id : HasStep(t, o, id) => HasStep(s \o t, o, id)
    BY <1>3, <1>7, <2>1, StacksJoin
  <2> QED
    BY <1>1, <1>3, <1>7, <2>2, SinksFollow
<1>8. CASE DoPublish(p)
  <2> DEFINE calls == [i \in DOMAIN Snapshot(h.ev.Name) |->
                         CallOp(Snapshot(h.ev.Name)[i], h.id, h.ev)]
  <2>1. /\ h.op = "publish" /\ UNCHANGED <<recorded, emitted>>
        /\ todo' = [todo EXCEPT ![p] = calls \o t]
    BY <1>2, <1>8 DEF DoPublish, Ready, Pop
  <2>2. h.ev.Name \in Names /\ h.ev \in CallEvent /\ h.id \in 0..lastID
    BY <1>1, <1>2, HeadType, EventType
  <2>3. calls \in Seq(CallSteps(lastID)) /\ lastID <= lastID
    BY <1>1, <2>2, CallsType
  <2>4. GoodStack(calls, recorded) /\ Positions(calls, "publish") = {}
    BY <1>3, <2>1, <2>2, CallsAreGood
  <2> HIDE DEF calls
  <2> QED
    BY <1>1, <1>7, <2>1, <2>3, <2>4
<1>9. CASE DoBridge(p)
  <2>1. /\ h.op = "call" /\ UNCHANGED <<recorded, emitted>> /\ h.ev \in CallEvent
        /\ todo' = [todo EXCEPT ![p] = FanOut(lastID + 1, h.ev, FALSE) \o t]
    BY <1>1, <1>2, <1>9 DEF DoBridge, Ready, Pop
  <2>2. lastID + 1 \in Nat /\ lastID <= lastID + 1 /\ lastID + 1 \in 1..(lastID + 1)
    BY <1>1
  <2>3. FanOut(lastID + 1, h.ev, FALSE) \in Seq(CallSteps(lastID + 1))
    BY <2>1, <2>2, FanOutType
  <2>4. /\ GoodStack(FanOut(lastID + 1, h.ev, FALSE), recorded)
        /\ Positions(FanOut(lastID + 1, h.ev, FALSE), "publish") = {}
    BY <2>1, <2>2, FanOutIsGood
  <2> QED
    BY <1>7, <2>1, <2>2, <2>3, <2>4
<1> QED
  BY <1>4, <1>5, <1>6, <1>8, <1>9 DEF CallStep

\* The other steps leave the stacks and the sinks alone.
LEMMA SinksStand ==
  ASSUME SinksInv, UNCHANGED <<todo, recorded, emitted>>
  PROVE  SinksInv'
BY DEF SinksInv, GoodStack, HasStep, Positions

\* The stacks are good in every behaviour.
LEMMA SinksHold == Spec => []SinksInv
<1>1. IInv /\ SinksInv /\ [Next]_vars => SinksInv'
  <2> SUFFICES ASSUME TypeOK, SinksInv, [Next]_vars PROVE SinksInv'
    BY DEF IInv
  <2>1. Trackers \subseteq Publishers /\ Notifiers \subseteq Publishers
    BY ToolsAssumption
  <2>2. CASE \/ \E p \in Trackers : Track(p) \/ ServicePublish(p)
             \/ \E p \in Notifiers : Notify(p)
    BY <2>1, <2>2, EntersKeepSinks
  <2>3. CASE \E p \in Publishers : CallStep(p)
    BY <2>3, CallStepsKeepSinks
  <2>4. CASE UNCHANGED <<todo, recorded, emitted>>
    BY <2>4, SinksStand
  <2>5. CASE BusSubscribe \/ BusCancel \/ \E c \in Conns : Stream(c)
    BY <2>4, <2>5 DEF BusSubscribe, BusCancel, Stream, toolVars
  <2> QED
    BY <2>2, <2>3, <2>4, <2>5 DEF Next, Sse, vars, toolVars
<1> QED
  BY <1>1, SinksInit, InvariantHolds, PTL DEF Spec

\* The sinks of a call (auth_tools.go) keep to their order: a handler finds its
\* event recorded, no handler's fan-out is published again, and when the calls
\* have returned, what was recorded was emitted.
THEOREM TheSinksAgree == Spec => []SinksAgree
<1>1. TypeOK /\ SinksInv => RecordPrecedesHandlers
  BY LenProperties DEF SinksInv, GoodStack, Positions, RecordPrecedesHandlers, TypeOK
<1>2. TypeOK /\ SinksInv => NoEventLoop
  <2> SUFFICES ASSUME TypeOK, SinksInv, NEW p \in Publishers,
                      NEW i \in DOMAIN todo[p], todo[p][i].op = "publish"
               PROVE  Cardinality({j \in DOMAIN todo[p] : todo[p][j].op = "emit"}) <= 1
    BY DEF NoEventLoop
  <2>1. DOMAIN todo[p] = 1..Len(todo[p])
    BY LenProperties DEF TypeOK
  <2>2. Positions(todo[p], "emit") \subseteq {Len(todo[p])}
    BY <2>1 DEF SinksInv, GoodStack, Positions
  <2>3. Cardinality({Len(todo[p])}) = 1 /\ IsFiniteSet({Len(todo[p])})
    BY FS_Singleton
  <2>4. Cardinality(Positions(todo[p], "emit")) <= 1
    BY <2>2, <2>3, FS_Subset
  <2> QED
    BY <2>1, <2>4 DEF Positions
<1>3. SinksInv => SinksEven
  <2> SUFFICES ASSUME SinksInv, \A p \in Publishers : todo[p] = <<>>
               PROVE  recorded = emitted
    BY DEF SinksEven
  <2>1. \A p \in Publishers : \A id : ~HasStep(todo[p], "emit", id)
    BY EmptyIsGood DEF HasStep
  <2> QED
    BY <2>1 DEF SinksInv
<1>4. IInv /\ SinksInv => SinksAgree
  BY <1>1, <1>2, <1>3 DEF SinksAgree, IInv
<1> QED
  BY <1>4, InvariantHolds, SinksHold, PTL

-----------------------------------------------------------------------------
(***************************************************************************)
(* The frames.  What a client is sent is a queue in two parts, and what    *)
(* matters is the whole of it: a frame moves from one part to the other,   *)
(* and one is appended by the send of a broadcast, which is the only step  *)
(* that changes the whole.  Its order rests on the counter of the          *)
(* goroutine that publishes; that nothing comes twice rests on the last    *)
(* event id, and on the broadcasts of one event following one another.     *)
(***************************************************************************)

\* The client's topics are what StreamTopics authorised.
TopicsAreOwn == \A c \in Conns :
  /\ \E u : \A v \in Users : UserOf(v) \in conn[c].topics => v = u
  /\ \A t \in Tenants : TenantOf(t) \in conn[c].topics => conn[c].tenantID = t

\* Without a distributor broadcasts only run on the goroutines that publish,
\* each the one its goroutine has counted last.
OnPublishers ==
  /\ wire = {}
  /\ \A d \in Callbacks : ~Busy(d)
  /\ \A p \in Publishers : Busy(p) =>
       /\ task[p].step # "publish"
       /\ task[p].ev.by = p /\ casts[p] = task[p].ev.k + 1
       /\ task[p].ev.ID <= lastID

\* The broadcast of p may still send its event to c.
ToServe(p, c) == Busy(p) /\ (task[p].step = "select" \/ c \in task[p].targets)

\* A frame is of a broadcast already counted, and not of one that has still to
\* send it.
FramesArePast == \A c \in Conns : \A i \in 1..Len(Frames(c)) :
  /\ Frames(c)[i].k < casts[Frames(c)[i].by] /\ Frames(c)[i].ID <= lastID
  /\ ToServe(Frames(c)[i].by, c) => Frames(c)[i].k < task[Frames(c)[i].by].ev.k

InOrder(s) == \A i, j \in 1..Len(s) : (i < j /\ s[i].by = s[j].by) => s[i].k < s[j].k
FramesInOrder == \A c \in Conns : InOrder(Frames(c))

OrderInv == ~distributor => OnPublishers /\ FramesArePast /\ FramesInOrder

\* The ids a stack has still to broadcast, and the one at its top.
CastsIn(s, id) == \E i \in 1..Len(s) : s[i].op = "cast" /\ s[i].id = id
CastsNext(s, id) == s # <<>> /\ Head(s).op = "cast" /\ Head(s).id = id

\* The broadcasts of one event follow one another with nothing between.
Grouped(s) == \A i, j \in 1..Len(s) :
  (s[i].op = "cast" /\ s[j].op = "cast" /\ s[i].id = s[j].id) =>
    \A m \in i..j : s[m].op = "cast" /\ s[m].id = s[i].id

\* p's call has come to the broadcasts of this id.
UnderWay(p, id) == IF Busy(p) THEN task[p].ev.ID = id ELSE CastsNext(todo[p], id)
HasFrame(c, id) == \E i \in 1..Len(Frames(c)) : Frames(c)[i].ID = id

Alone == \A p, q \in Publishers : ~Idle(p) /\ ~Idle(q) => p = q
StacksGrouped == \A p \in Publishers :
  /\ Grouped(todo[p])
  /\ \A id : (Busy(p) /\ task[p].ev.ID = id /\ CastsIn(todo[p], id)) => CastsNext(todo[p], id)

\* An id that has a frame and is still to be broadcast is the one whose
\* broadcasts are under way, and then it is the stream's last event id.
StartedIsUnderWay == \A p \in Publishers, c \in Conns : \A id :
  (CastsIn(todo[p], id) /\ HasFrame(c, id)) => UnderWay(p, id)
StartedIsMarked == \A p \in Publishers, c \in Conns : \A id :
  (HasFrame(c, id) /\ UnderWay(p, id)) => conn[c].lastEventID = id
NotYetSent == \A p \in Publishers, c \in Conns : \A id :
  (task[p].step = "send" /\ task[p].at = c /\ task[p].ev.ID = id) =>
    conn[c].lastEventID = id /\ ~HasFrame(c, id)

DistinctIDs(s) == \A i, j \in 1..Len(s) : s[i].ID = s[j].ID => i = j
FramesDistinct == \A c \in Conns : DistinctIDs(Frames(c))

Taken   == Alone /\ StacksGrouped /\ StartedIsUnderWay /\ StartedIsMarked /\ NotYetSent
OnceInv == (~overlap /\ Deduplicate /\ ~distributor) => Taken /\ FramesDistinct

FramesInv == TopicsAreOwn /\ OrderInv /\ OnceInv

\* Every frame a client was sent, or will be, as one sequence.
LEMMA FramesType ==
  ASSUME SseTypeOK, NEW c \in Conns
  PROVE  /\ Frames(c) \in Seq(StreamEvent) /\ Len(Frames(c)) \in Nat
         /\ DOMAIN Frames(c) = 1..Len(Frames(c))
         /\ \A i \in 1..Len(Frames(c)) : Frames(c)[i] \in StreamEvent
<1>1. delivered[c] \in Seq(StreamEvent) /\ conn[c].out \in Seq(StreamEvent)
  BY ConnType
<1>2. Frames(c) \in Seq(StreamEvent)
  BY <1>1, ConcatProperties DEF Frames
<1> QED
  BY <1>2, LenProperties, ElementOfSeq

\* What remains when the head of a queue is moved to the end of another.
LEMMA HeadMoves ==
  ASSUME NEW S, NEW s \in Seq(S), NEW t \in Seq(S), t # <<>>
  PROVE  Append(s, Head(t)) \o Tail(t) = s \o t
<1>1. /\ Head(t) \in S /\ Tail(t) \in Seq(S) /\ Len(t) \in Nat \ {0} /\ Len(s) \in Nat
      /\ Len(Tail(t)) = Len(t) - 1 /\ Head(t) = t[1]
      /\ \A i \in 1..Len(Tail(t)) : Tail(t)[i] = t[i + 1]
  BY HeadTailProperties, EmptySeq, LenProperties
<1>2. PICK a, b : a = Append(s, Head(t)) /\ b = Tail(t)
  OBVIOUS
<1>3. /\ a \in Seq(S) /\ Len(a) = Len(s) + 1 /\ a[Len(s) + 1] = t[1]
      /\ \A i \in 1..Len(s) : a[i] = s[i]
  BY <1>1, <1>2, AppendProperties
<1>4. /\ a \o b \in Seq(S) /\ Len(a \o b) = Len(a) + Len(b)
      /\ \A i \in 1..(Len(a) + Len(b)) : (a \o b)[i] = IF i <= Len(a) THEN a[i] ELSE b[i - Len(a)]
  BY <1>1, <1>2, <1>3, ConcatProperties
<1>5. /\ s \o t \in Seq(S) /\ Len(s \o t) = Len(s) + Len(t)
      /\ \A i \in 1..(Len(s) + Len(t)) : (s \o t)[i] = IF i <= Len(s) THEN s[i] ELSE t[i - Len(s)]
  BY ConcatProperties
<1>6. Len(a \o b) = Len(s \o t)
  BY <1>1, <1>2, <1>3, <1>4, <1>5
<1>7. ASSUME NEW i \in 1..Len(a \o b) PROVE (a \o b)[i] = (s \o t)[i]
  <2>1. CASE i <= Len(s)
    BY <1>1, <1>2, <1>3, <1>4, <1>5, <1>6, <2>1
  <2>2. CASE i = Len(s) + 1
    BY <1>1, <1>2, <1>3, <1>4, <1>5, <1>6, <2>2
  <2>3. CASE i > Len(s) + 1
    <3>1. i - Len(a) \in 1..Len(b) /\ (i - Len(a)) + 1 = i - Len(s)
      BY <1>1, <1>2, <1>3, <1>4, <2>3
    <3>2. (a \o b)[i] = b[i - Len(a)]
      BY <1>1, <1>3, <1>4, <2>3
    <3>3. b[i - Len(a)] = t[i - Len(s)]
      BY <1>1, <1>2, <3>1
    <3>4. (s \o t)[i] = t[i - Len(s)]
      BY <1>1, <1>5, <1>6, <2>3
    <3> QED
      BY <3>2, <3>3, <3>4
  <2>4. i <= Len(s) \/ i = Len(s) + 1 \/ i > Len(s) + 1
    <3>1. i \in Int /\ Len(s) \in Int
      BY <1>1, <1>3, <1>4
    <3> QED
      BY <3>1
  <2> QED
    BY <2>1, <2>2, <2>3, <2>4
<1>8. a \o b = s \o t
  BY <1>4, <1>5, <1>6, <1>7, SeqEqual
<1> QED
  BY <1>2, <1>8

\* Serve's write moves a frame from the queue to the client.
LEMMA ServeFrameMoves ==
  ASSUME SseTypeOK, NEW c \in Conns, ServeFrame(c)
  PROVE  \A d \in Conns : Frames(d)' = Frames(d) /\ conn'[d].lastEventID = conn[d].lastEventID
<1>1. PICK w, q : w = delivered[c] /\ q = conn[c].out
  OBVIOUS
<1>2. w \in Seq(StreamEvent) /\ q \in Seq(StreamEvent) /\ q # <<>> /\ conn[c] \in sseConnection
  BY <1>1, ConnType DEF ServeFrame
<1>3. PICK a, b : a = Append(w, Head(q)) /\ b = Tail(q)
  OBVIOUS
<1>4. a \o b = w \o q
  BY <1>2, <1>3, HeadMoves
<1>5. /\ delivered' = [delivered EXCEPT ![c] = a]
      /\ conn' = [conn EXCEPT ![c].out = b]
  BY <1>1, <1>3 DEF ServeFrame
<1>6. /\ delivered'[c] = a /\ conn'[c] = [conn[c] EXCEPT !.out = b]
      /\ \A d \in Conns \ {c} : delivered'[d] = delivered[d] /\ conn'[d] = conn[d]
  BY <1>5 DEF SseTypeOK
<1>7. conn'[c].out = b /\ conn'[c].lastEventID = conn[c].lastEventID
  BY <1>2, <1>6 DEF sseConnection
<1> QED
  BY <1>1, <1>4, <1>6, <1>7 DEF Frames

\* So do not the other steps of Serve: the frames stand.
LEMMA ServeStepStands ==
  ASSUME SseTypeOK, NEW c \in Conns, ServeStep(c) \/ ServeGone(c)
  PROVE  \A d \in Conns : Frames(d)' = Frames(d) /\ conn'[d].lastEventID = conn[d].lastEventID
<1>1. delivered' = delivered
  BY DEF ServeStep, ServeGone, ServeRegister, ServeDone, ServeDisconnect, ServeClose, sseHistory
<1>2. \E s, b : conn' = [conn EXCEPT ![c].serve = s, ![c].done = b]
  <2>1. conn[c] = [conn[c] EXCEPT !.done = conn[c].done]
    BY ConnType DEF sseConnection
  <2>2. \A s : [conn EXCEPT ![c].serve = s] = [conn EXCEPT ![c].serve = s, ![c].done = conn[c].done]
    BY ConnType DEF sseConnection, SseTypeOK
  <2> QED
    BY <2>2 DEF ServeStep, ServeGone, ServeRegister, ServeDone, ServeDisconnect, ServeClose
<1>3. PICK s, b : conn' = [conn EXCEPT ![c].serve = s, ![c].done = b]
  BY <1>2
<1>4. /\ conn'[c] = [conn[c] EXCEPT !.serve = s, !.done = b]
      /\ \A d \in Conns \ {c} : conn'[d] = conn[d]
  BY <1>3 DEF SseTypeOK
<1>5. conn'[c].out = conn[c].out /\ conn'[c].lastEventID = conn[c].lastEventID
  BY <1>4, ConnType DEF sseConnection
<1> QED
  BY <1>1, <1>4, <1>5 DEF Frames

\* A stream that begins has no frames, before or after.
LEMMA StreamBegins ==
  ASSUME IInv, NEW c \in Conns, Stream(c)
  PROVE  /\ \A d \in Conns : Frames(d)' = Frames(d)
         /\ \A d \in Conns : conn'[d].lastEventID = conn[d].lastEventID
         /\ \A d \in Conns \ {c} : conn'[d] = conn[d]
         /\ Frames(c) = <<>>
<1>1. PICK topics, t : ServeHello(c, topics, t)
  BY DEF Stream
<1>2. /\ conn'[c].out = <<>> /\ conn'[c].lastEventID = 0 /\ delivered' = delivered
      /\ \A d \in Conns \ {c} : conn'[d] = conn[d]
  BY <1>1 DEF ServeHello, NewConnection, IInv, SseInv, Registry, SseTypeOK, sseHistory
<1>3. conn[c].out = <<>> /\ conn[c].lastEventID = 0 /\ delivered[c] = <<>>
  BY <1>1 DEF ServeHello, IInv, SseInv, Registry, FreshIsUntouched, Fresh
<1>4. Frames(c) = <<>>
  BY <1>3 DEF Frames
<1> QED
  BY <1>2, <1>3, <1>4 DEF Frames

\* The send appends the event to the frames of its target, or finds it closed.
LEMMA SendAppends ==
  ASSUME IInv, NEW p \in Goroutines, EnqueueSend(p), NEW c, c = task[p].at
  PROVE  /\ task[p].step = "send" /\ c \in Conns /\ c \in task[p].targets
         /\ task[p].ev \in StreamEvent
         /\ \A d \in Conns : conn'[d].lastEventID = conn[d].lastEventID
         /\ \A d \in Conns \ {c} : Frames(d)' = Frames(d)
         /\ Frames(c)' = Frames(c) \/ Frames(c)' = Append(Frames(c), task[p].ev)
         /\ Step(p, Rest(p, c)) /\ UNCHANGED <<distributor, wire>>
<1> USE DEF IInv, SseInv, Registry
<1>1. task[p].step = "send" /\ c \in Conns /\ c \in task[p].targets /\ task[p].ev \in StreamEvent
  BY TaskType DEF EnqueueSend, AtIsTarget, AtStep, Busy
<1>2. /\ Step(p, Rest(p, c)) /\ UNCHANGED <<distributor, wire, delivered>>
      /\ \/ conn' = [conn EXCEPT ![c].out = Append(@, task[p].ev)]
         \/ UNCHANGED conn
  BY DEF EnqueueSend, sseHistory
<1>3. CASE UNCHANGED conn
  BY <1>1, <1>2, <1>3 DEF Frames
<1>4. CASE conn' = [conn EXCEPT ![c].out = Append(@, task[p].ev)]
  <2>1. PICK w, q, ev : w = delivered[c] /\ q = conn[c].out /\ ev = task[p].ev
    OBVIOUS
  <2>2. w \in Seq(StreamEvent) /\ q \in Seq(StreamEvent) /\ ev \in StreamEvent
    BY <1>1, <2>1, ConnType
  <2>3. w \o Append(q, ev) = Append(w \o q, ev)
    BY <2>2, AppendIsConcat, ConcatAssociative, ConcatProperties
  <2>4. PICK r : r = Append(q, ev)
    OBVIOUS
  <2>5. /\ conn'[c] = [conn[c] EXCEPT !.out = r]
        /\ \A d \in Conns \ {c} : conn'[d] = conn[d]
    BY <1>1, <1>4, <2>1, <2>4 DEF SseTypeOK
  <2>6. conn'[c].out = r /\ conn'[c].lastEventID = conn[c].lastEventID
    BY <1>1, <2>5, ConnType DEF sseConnection
  <2> QED
    BY <1>1, <1>2, <2>1, <2>3, <2>4, <2>5, <2>6 DEF Frames
<1> QED
  BY <1>2, <1>3, <1>4

-----------------------------------------------------------------------------

\* The top of a stack is in it.
LEMMA NextIsIn ==
  ASSUME NEW S, NEW s \in Seq(S), NEW id, CastsNext(s, id)
  PROVE  CastsIn(s, id)
<1>1. Len(s) \in Nat \ {0} /\ Head(s) = s[1]
  BY HeadTailProperties, EmptySeq, LenProperties DEF CastsNext
<1> QED
  BY <1>1 DEF CastsNext, CastsIn

\* No frame was added: what is said of the frames stands, and so does what is
\* said of each stream that holds one.
LEMMA FramesStand ==
  ASSUME SseTypeOK, \A d \in Conns : Frames(d)' = Frames(d)
  PROVE  /\ FramesInOrder => FramesInOrder'
         /\ FramesDistinct => FramesDistinct'
         /\ \A d \in Conns : \A id : HasFrame(d, id)' = HasFrame(d, id)
<1>1. FramesInOrder => FramesInOrder'
  BY DEF FramesInOrder, InOrder
<1>2. FramesDistinct => FramesDistinct'
  BY DEF FramesDistinct, DistinctIDs
<1>3. \A d \in Conns : \A id : HasFrame(d, id)' = HasFrame(d, id)
  BY DEF HasFrame
<1> QED
  BY <1>1, <1>2, <1>3

\* A step of the streams leaves the broadcasts and the calls alone.
LEMMA StreamsKeepFrames ==
  ASSUME IInv, OrderInv, OnceInv, UNCHANGED <<task, distributor, wire, toolVars>>,
         \A d \in Conns : Frames(d)' = Frames(d) /\ conn'[d].lastEventID = conn[d].lastEventID
  PROVE  OrderInv' /\ OnceInv'
<1> USE DEF toolVars
<1>1. /\ SseTypeOK
      /\ FramesInOrder => FramesInOrder'
      /\ FramesDistinct => FramesDistinct'
      /\ \A d \in Conns : \A id : HasFrame(d, id)' = HasFrame(d, id)
  BY FramesStand DEF IInv, SseInv, Registry
<1>2. OnPublishers => OnPublishers'
  BY DEF OnPublishers, Busy
<1>3. FramesArePast => FramesArePast'
  BY DEF FramesArePast, ToServe, Busy
<1>4. OrderInv'
  BY <1>1, <1>2, <1>3 DEF OrderInv
<1>5. Alone => Alone'
  BY DEF Alone, Idle, Busy
<1>6. StacksGrouped => StacksGrouped'
  BY DEF StacksGrouped, Grouped, CastsIn, CastsNext, Busy
<1>7. \A p, id : UnderWay(p, id)' = UnderWay(p, id)
  BY DEF UnderWay, CastsNext, Busy
<1>8. StartedIsUnderWay => StartedIsUnderWay'
  BY <1>1, <1>7 DEF StartedIsUnderWay, CastsIn
<1>9. StartedIsMarked => StartedIsMarked'
  BY <1>1, <1>7 DEF StartedIsMarked
<1>10. NotYetSent => NotYetSent'
  BY <1>1 DEF NotYetSent
<1>11. OnceInv'
  BY <1>1, <1>5, <1>6, <1>8, <1>9, <1>10 DEF OnceInv, Taken
<1> QED
  BY <1>4, <1>11

\* A broadcast moves on, and perhaps appends its event to the frames of the
\* stream it stands at: what p appends, when it goes on with t.
Appends(p, t, d) ==
  /\ task[p].step = "send" /\ task[p].at = d /\ d \in task[p].targets
  /\ t.step # "idle" => t.step # "select" /\ d \notin t.targets
  /\ Frames(d)' = Append(Frames(d), task[p].ev)

\* An event is appended behind all that was there.
LEMMA FramesGrow ==
  ASSUME SseTypeOK, NEW p \in Goroutines, Busy(p), NEW t, NEW d \in Conns,
         Frames(d)' = Frames(d) \/ Appends(p, t, d), NEW i \in 1..Len(Frames(d)')
  PROVE  /\ i \in 1..Len(Frames(d)) /\ Frames(d)'[i] = Frames(d)[i]
         \/ /\ Appends(p, t, d) /\ i = Len(Frames(d)) + 1 /\ Frames(d)'[i] = task[p].ev
            /\ \A j \in 1..Len(Frames(d)')  : j # i => j \in 1..Len(Frames(d))
<1>1. PICK s, e : s = Frames(d) /\ e = task[p].ev
  OBVIOUS
<1>2. s \in Seq(StreamEvent) /\ Len(s) \in Nat /\ e \in StreamEvent
  BY <1>1, FramesType, TaskType
<1>3. CASE Frames(d)' = Frames(d)
  BY <1>3
<1>4. CASE Appends(p, t, d)
  <2>1. Frames(d)' = Append(s, e)
    BY <1>1, <1>4 DEF Appends
  <2>2. PICK r : r = Append(s, e)
    OBVIOUS
  <2>3. /\ Len(r) = Len(s) + 1 /\ r[Len(s) + 1] = e
        /\ \A j \in 1..Len(s) : r[j] = s[j]
    BY <1>2, <2>2, AppendProperties
  <2>4. i \in 1..(Len(s) + 1)
    BY <2>1, <2>2, <2>3
  <2>5. CASE i = Len(s) + 1
    BY <1>1, <1>2, <1>4, <2>1, <2>2, <2>3, <2>5
  <2>6. CASE i # Len(s) + 1
    <3>1. i \in 1..Len(s)
      BY <1>2, <2>4, <2>6
    <3> QED
      BY <1>1, <2>1, <2>2, <2>3, <3>1
  <2> QED
    BY <2>5, <2>6
<1> QED
  BY <1>3, <1>4

\* The order in which the events of one goroutine are appended.
LEMMA TasksKeepOrder ==
  ASSUME IInv, OrderInv, NEW p \in Goroutines, Busy(p), NEW t, Step(p, t),
         UNCHANGED <<distributor, toolVars>>,
         task[p].step # "publish" => wire' = wire,
         t.step # "idle" => t.ev = task[p].ev,
         t.step # "idle" => t.targets \subseteq task[p].targets \/ task[p].step = "select",
         t.step # "publish", t.step = "select" => task[p].step = "publish",
         \A d \in Conns : Frames(d)' = Frames(d) \/ Appends(p, t, d)
  PROVE  OrderInv'
<1> USE DEF toolVars
<1>1. SseTypeOK /\ Publishers \subseteq Goroutines /\ Callbacks \subseteq Goroutines
  BY DEF IInv, SseInv, Registry, Goroutines
<1>2. /\ task'[p] = t
      /\ \A q \in Goroutines \ {p} : task'[q] = task[q]
  BY <1>1 DEF Step, SseTypeOK
<1>3. \A q \in Goroutines : Busy(q)' => Busy(q) /\ task'[q].ev = task[q].ev
  BY <1>2 DEF Busy
<1> SUFFICES ASSUME ~distributor PROVE OnPublishers' /\ FramesArePast' /\ FramesInOrder'
  BY DEF OrderInv
<1>4. OnPublishers /\ FramesArePast /\ FramesInOrder
  BY DEF OrderInv
<1>5. p \in Publishers /\ task[p].step # "publish"
  BY <1>4 DEF OnPublishers, Goroutines
<1>6. OnPublishers'
  <2>1. wire' = {} /\ \A d \in Callbacks : ~Busy(d)'
    BY <1>1, <1>3, <1>4, <1>5 DEF OnPublishers
  <2>2. ASSUME NEW q \in Publishers, Busy(q)'
        PROVE  /\ task'[q].step # "publish"
               /\ task'[q].ev.by = q /\ casts'[q] = task'[q].ev.k + 1
               /\ task'[q].ev.ID <= lastID'
    <3>1. Busy(q) /\ task'[q].ev = task[q].ev
      BY <2>2, <1>1, <1>3
    <3>2. task'[q].step # "publish"
      BY <3>1, <1>1, <1>2, <1>4 DEF OnPublishers
    <3> QED
      BY <3>1, <3>2, <1>4 DEF OnPublishers
  <2> QED
    BY <2>1, <2>2 DEF OnPublishers
<1>7. ASSUME NEW q \in Publishers, NEW d \in Conns, ToServe(q, d)'
      PROVE  ToServe(q, d) /\ task'[q].ev = task[q].ev
  BY <1>1, <1>2, <1>3, <1>5, <1>7 DEF ToServe, Busy
<1>8. \A d \in Conns : Appends(p, t, d) => ToServe(p, d) /\ ~ToServe(p, d)'
  BY <1>2 DEF Appends, ToServe, Busy
<1>9. FramesArePast'
  <2> SUFFICES ASSUME NEW d \in Conns, NEW i \in 1..Len(Frames(d)'), NEW f, f = Frames(d)'[i]
               PROVE  /\ f.k < casts[f.by] /\ f.ID <= lastID
                      /\ ToServe(f.by, d)' => f.k < task'[f.by].ev.k
    BY DEF FramesArePast, ToServe, Busy
  <2>2. CASE i \in 1..Len(Frames(d)) /\ Frames(d)'[i] = Frames(d)[i]
    <3>1. f.by \in Publishers
      BY <1>1, <2>2, FramesType DEF StreamEvent
    <3>2. f.k < casts[f.by] /\ f.ID <= lastID /\ (ToServe(f.by, d) => f.k < task[f.by].ev.k)
      BY <1>4, <2>2 DEF FramesArePast
    <3>3. ToServe(f.by, d)' => f.k < task'[f.by].ev.k
      BY <1>7, <3>1, <3>2
    <3> QED
      BY <3>2, <3>3 DEF ToServe, Busy
  <2>3. CASE Appends(p, t, d) /\ Frames(d)'[i] = task[p].ev
    <3>1. f.by = p /\ casts[p] = f.k + 1 /\ f.ID <= lastID /\ f.k \in Nat
      BY <1>1, <1>4, <1>5, <2>3, TaskType DEF OnPublishers, StreamEvent
    <3>2. ~ToServe(f.by, d)'
      BY <1>8, <2>3, <3>1
    <3> QED
      BY <3>1, <3>2 DEF ToServe, Busy
  <2> QED
    BY <1>1, <2>2, <2>3, FramesGrow
<1>10. FramesInOrder'
  <2> SUFFICES ASSUME NEW d \in Conns, NEW i \in 1..Len(Frames(d)'), NEW j \in 1..Len(Frames(d)'),
                      i < j, Frames(d)'[i].by = Frames(d)'[j].by
               PROVE  Frames(d)'[i].k < Frames(d)'[j].k
    BY DEF FramesInOrder, InOrder
  <2>1. PICK f, g : f = Frames(d)'[i] /\ g = Frames(d)'[j]
    OBVIOUS
  <2>2. i \in 1..Len(Frames(d)) /\ f = Frames(d)[i]
    BY <1>1, <2>1, FramesGrow, FramesType
  <2>3. CASE j \in 1..Len(Frames(d)) /\ g = Frames(d)[j]
    BY <1>4, <2>1, <2>2, <2>3 DEF FramesInOrder, InOrder
  <2>4. CASE Appends(p, t, d) /\ g = task[p].ev
    <3>1. g.by = p /\ f.by = p
      BY <1>4, <1>5, <2>1, <2>4 DEF OnPublishers
    <3>2. f.k < task[p].ev.k
      BY <1>4, <1>8, <2>2, <2>4, <3>1 DEF FramesArePast
    <3> QED
      BY <2>1, <2>4, <3>2
  <2> QED
    BY <1>1, <2>1, <2>3, <2>4, FramesGrow
<1> QED
  BY <1>6, <1>9, <1>10

\* What p has taken on when a broadcast moves on without a mark, and its last
\* send may have added a frame with the stream's last event id.
LEMMA TasksKeepTaken ==
  ASSUME IInv, Taken, NEW p \in Publishers, Busy(p), NEW t, Step(p, t),
         UNCHANGED <<todo, overlap>>,
         t.step # "idle" => t.ev = task[p].ev, t.step # "send",
         \A d \in Conns : conn'[d].lastEventID = conn[d].lastEventID,
         \A d \in Conns : \A id : HasFrame(d, id)' =>
           HasFrame(d, id) \/ (id = task[p].ev.ID /\ conn[d].lastEventID = id)
  PROVE  Taken'
<1> USE DEF Taken
<1>1. SseTypeOK /\ Publishers \subseteq Goroutines
  BY DEF IInv, SseInv, Registry, Goroutines
<1>2. /\ task'[p] = t
      /\ \A q \in Publishers \ {p} : task'[q] = task[q]
  BY <1>1 DEF Step, SseTypeOK
<1>3. \A q \in Publishers : Busy(q)' => Busy(q) /\ task'[q].ev = task[q].ev
  BY <1>2 DEF Busy
<1>4. Alone'
  BY <1>3 DEF Alone, Idle
<1>5. StacksGrouped'
  BY <1>3 DEF StacksGrouped, Grouped, CastsIn, CastsNext
<1>6. \A q \in Publishers : \A id : CastsIn(todo[q], id) \/ CastsNext(todo[q], id) => q = p
  <2>1. ASSUME NEW q \in Publishers, todo[q] # <<>> PROVE q = p
    BY <2>1 DEF Alone, Idle
  <2>2. \A q \in Publishers : \A id : CastsIn(todo[q], id) => todo[q] # <<>>
    BY DEF CastsIn
  <2> QED
    BY <2>1, <2>2 DEF CastsNext
<1>7. \A id : UnderWay(p, id)' => UnderWay(p, id) \/ CastsNext(todo[p], id)
  BY <1>3 DEF UnderWay, CastsNext
<1>8. \A id : CastsNext(todo[p], id) => CastsIn(todo[p], id)
  BY NextIsIn DEF IInv, TypeOK
<1>9. ASSUME NEW id, UnderWay(p, id), CastsIn(todo[p], id) PROVE UnderWay(p, id)'
  <2>1. CastsNext(todo[p], id)
    BY <1>9 DEF UnderWay, StacksGrouped
  <2> QED
    BY <1>2, <1>9, <2>1 DEF UnderWay, CastsNext, Busy
<1>10. UnderWay(p, task[p].ev.ID)
  BY DEF UnderWay
<1>11. ASSUME NEW q \in Publishers, NEW d \in Conns, NEW id, HasFrame(d, id)', CastsIn(todo[q], id)
       PROVE  UnderWay(q, id)'
  BY <1>6, <1>9, <1>10, <1>11 DEF StartedIsUnderWay
<1>12. StartedIsUnderWay'
  BY <1>11 DEF StartedIsUnderWay, CastsIn
<1>13. ASSUME NEW q \in Publishers, NEW d \in Conns, NEW id, HasFrame(d, id)', UnderWay(q, id)'
       PROVE  conn[d].lastEventID = id
  <2>1. q = p
    <3>1. Busy(q) \/ CastsNext(todo[q], id)
      BY <1>3, <1>13 DEF UnderWay, CastsNext
    <3> QED
      BY <1>6, <3>1 DEF Alone, Idle
  <2>2. CASE HasFrame(d, id)
    BY <1>7, <1>8, <1>13, <2>1, <2>2 DEF StartedIsUnderWay, StartedIsMarked
  <2> QED
    BY <1>13, <2>2
<1>14. StartedIsMarked'
  BY <1>13 DEF StartedIsMarked
<1>15. NotYetSent'
  <2>1. ASSUME NEW q \in Publishers PROVE task'[q].step # "send"
    <3>1. CASE q # p
      BY <3>1 DEF Alone, Idle, Busy, Step, Taken
    <3> QED
      BY <1>2, <3>1
  <2> QED
    BY <2>1 DEF NotYetSent
<1> QED
  BY <1>4, <1>5, <1>12, <1>14, <1>15

\* The steps of a broadcast that neither mark nor send.
LEMMA QuietStepsKeepFrames ==
  ASSUME IInv, OrderInv, OnceInv, NEW p \in Goroutines, Busy(p), NEW t, Step(p, t),
         UNCHANGED <<distributor, toolVars>>,
         task[p].step # "publish" => wire' = wire,
         t.step # "idle" => t.ev = task[p].ev,
         t.step # "idle" => t.targets \subseteq task[p].targets \/ task[p].step = "select",
         t.step \notin {"publish", "send"}, t.step = "select" => task[p].step = "publish",
         \A d \in Conns : Frames(d)' = Frames(d) /\ conn'[d].lastEventID = conn[d].lastEventID
  PROVE  OrderInv' /\ OnceInv'
<1>1. /\ SseTypeOK
      /\ FramesDistinct => FramesDistinct'
      /\ \A d \in Conns : \A id : HasFrame(d, id)' = HasFrame(d, id)
  BY FramesStand DEF IInv, SseInv, Registry
<1>2. OrderInv'
  BY TasksKeepOrder
<1>3. ASSUME ~distributor, Taken PROVE Taken'
  <2>1. p \in Publishers
    BY <1>3 DEF OrderInv, OnPublishers, Goroutines
  <2> QED
    BY <1>1, <1>3, <2>1, TasksKeepTaken DEF toolVars
<1> QED
  BY <1>1, <1>2, <1>3 DEF OnceInv, toolVars

\* The distributor, the snapshot, the disconnections.
LEMMA BroadcastsKeepFrames ==
  ASSUME IInv, OrderInv, OnceInv, UNCHANGED toolVars, NEW p \in Goroutines,
         \/ DistributorPublish(p) \/ DistributorPublishFail(p) \/ SelectTargets(p)
         \/ EnqueueFull(p) \/ DropTarget(p) \/ BroadcastDisconnect(p) \/ BroadcastClose(p)
  PROVE  OrderInv' /\ OnceInv'
<1> USE DEF IInv, SseInv, Registry
<1>1. /\ SseTypeOK /\ Busy(p) /\ task[p] \in Task /\ delivered' = delivered
      /\ UNCHANGED distributor
  BY TaskType DEF DistributorPublish, DistributorPublishFail, SelectTargets, EnqueueFull, DropTarget,
                  BroadcastDisconnect, BroadcastClose, Busy, sseHistory
<1>2. \A d \in Conns : conn'[d].out = conn[d].out /\ conn'[d].lastEventID = conn[d].lastEventID
  <2>1. CASE UNCHANGED conn
    BY <2>1
  <2>2. CASE BroadcastClose(p)
    <3>1. PICK c : conn' = [conn EXCEPT ![c].done = TRUE]
      BY <2>2 DEF BroadcastClose
    <3> QED
      BY <3>1, ConnType DEF SseTypeOK, sseConnection
  <2> QED
    BY <2>1, <2>2 DEF DistributorPublish, DistributorPublishFail, SelectTargets, EnqueueFull,
                      DropTarget, BroadcastDisconnect
<1>3. \A d \in Conns : Frames(d)' = Frames(d)
  BY <1>1, <1>2 DEF Frames
<1>4. PICK t : /\ Step(p, t) /\ t.step \notin {"publish", "send"}
               /\ t.step # "idle" => t.ev = task[p].ev
               /\ t.step # "idle" => t.targets \subseteq task[p].targets \/ task[p].step = "select"
               /\ t.step = "select" => task[p].step = "publish"
  <2>1. CASE DistributorPublish(p)
    BY <2>1 DEF DistributorPublish, NoTask
  <2>2. CASE DistributorPublishFail(p)
    <3>1. PICK t : t = [task[p] EXCEPT !.step = "select"]
      OBVIOUS
    <3>2. Step(p, t) /\ task[p].step = "publish"
      BY <2>2, <3>1 DEF DistributorPublishFail
    <3>3. t.step = "select" /\ t.ev = task[p].ev /\ t.targets = task[p].targets
      BY <1>1, <3>1, <3>2 DEF Task, NoTask
    <3> QED
      BY <3>2, <3>3
  <2>3. CASE SelectTargets(p)
    <3>1. PICK ts : Step(p, Remaining(task[p], ts)) /\ task[p].step = "select"
      BY <2>3 DEF SelectTargets
    <3> QED
      BY <3>1 DEF Remaining, NoTask
  <2>4. CASE Step(p, Rest(p, task[p].at))
    BY <2>4 DEF Rest, Remaining, NoTask
  <2>5. ASSUME NEW s \in {"delete", "close"}, Step(p, [task[p] EXCEPT !.step = s]),
               task[p].step \in {"send", "delete"}
        PROVE  \E t : /\ Step(p, t) /\ t.step \notin {"publish", "send"}
                      /\ t.step # "idle" => t.ev = task[p].ev
                      /\ t.step # "idle" => t.targets \subseteq task[p].targets
                      /\ t.step # "select"
    <3>1. PICK t : t = [task[p] EXCEPT !.step = s]
      OBVIOUS
    <3>2. t.step = s /\ t.ev = task[p].ev /\ t.targets = task[p].targets
      BY <2>5, <3>1, TaskTurns
    <3> QED
      BY <2>5, <3>1, <3>2
  <2>6. CASE EnqueueFull(p)
    BY <2>5, <2>6 DEF EnqueueFull
  <2>7. CASE DropTarget(p)
    BY <2>7 DEF DropTarget
  <2>8. CASE BroadcastDisconnect(p)
    <3>1. CASE task[p].at \in connections
      BY <2>5, <2>8, <3>1 DEF BroadcastDisconnect
    <3>2. CASE task[p].at \notin connections
      BY <2>4, <2>8, <3>2 DEF BroadcastDisconnect
    <3> QED
      BY <3>1, <3>2
  <2>9. CASE BroadcastClose(p)
    BY <2>4, <2>9 DEF BroadcastClose
  <2> QED
    BY <2>1, <2>2, <2>3, <2>6, <2>7, <2>8, <2>9
<1>5. task[p].step # "publish" => wire' = wire
  BY DEF DistributorPublish, DistributorPublishFail, SelectTargets, EnqueueFull, DropTarget,
         BroadcastDisconnect, BroadcastClose
<1> QED
  BY <1>1, <1>2, <1>3, <1>4, <1>5, QuietStepsKeepFrames

\* The mark: an event that has a frame is found by its id, as long as calls
\* take turns; another is about to be sent for the first time.
LEMMA MarkKeepsFrames ==
  ASSUME IInv, OrderInv, OnceInv, UNCHANGED toolVars, NEW p \in Goroutines, EnqueueMark(p)
  PROVE  OrderInv' /\ OnceInv'
<1> USE DEF IInv, SseInv, Registry
<1>1. PICK c \in task[p].targets :
        /\ task[p].step = "mark"
        /\ conn' = [conn EXCEPT ![c].lastEventID = task[p].ev.ID]
        /\ IF Deduplicate /\ conn[c].lastEventID = task[p].ev.ID
           THEN Step(p, Rest(p, c))
           ELSE Step(p, [step |-> "send", topic |-> task[p].topic, ev |-> task[p].ev,
                         targets |-> task[p].targets, at |-> c])
        /\ UNCHANGED <<connections, distributor, wire, sseHistory>>
  BY DEF EnqueueMark
<1>2. Busy(p) /\ c \in Conns /\ SseTypeOK /\ delivered' = delivered
  BY <1>1, TaskType DEF Busy, sseHistory
<1>3. PICK id : id = task[p].ev.ID
  OBVIOUS
<1>4. /\ conn'[c] = [conn[c] EXCEPT !.lastEventID = id]
      /\ \A d \in Conns \ {c} : conn'[d] = conn[d]
  BY <1>1, <1>2, <1>3 DEF SseTypeOK
<1>5. conn'[c].out = conn[c].out /\ conn'[c].lastEventID = id
  BY <1>2, <1>4, ConnType DEF sseConnection
<1>6. \A d \in Conns : Frames(d)' = Frames(d)
  BY <1>2, <1>4, <1>5 DEF Frames
<1>7. CASE Deduplicate /\ conn[c].lastEventID = id
  <2>1. Step(p, Rest(p, c)) /\ UNCHANGED <<distributor, wire>>
    BY <1>1, <1>3, <1>7
  <2>2. /\ Rest(p, c).step \in {"idle", "mark", "drop"}
        /\ Rest(p, c).step # "idle" => Rest(p, c).ev = task[p].ev
        /\ Rest(p, c).step # "idle" => Rest(p, c).targets \subseteq task[p].targets
    BY DEF Rest, Remaining, NoTask
  <2>3. \A d \in Conns : conn'[d].lastEventID = conn[d].lastEventID
    BY <1>4, <1>5, <1>7
  <2> QED
    BY <1>2, <1>6, <2>1, <2>2, <2>3, QuietStepsKeepFrames
<1>8. CASE ~(Deduplicate /\ conn[c].lastEventID = id)
  <2>1. PICK t : t = [step |-> "send", topic |-> task[p].topic, ev |-> task[p].ev,
                      targets |-> task[p].targets, at |-> c]
    OBVIOUS
  <2>2. /\ Step(p, t) /\ UNCHANGED <<distributor, wire>>
        /\ t.step = "send" /\ t.ev = task[p].ev /\ t.targets = task[p].targets /\ t.at = c
    BY <1>1, <1>3, <1>8, <2>1
  <2>3. OrderInv'
    BY <1>2, <1>6, <2>2, TasksKeepOrder
  <2>4. /\ FramesDistinct => FramesDistinct'
        /\ \A d \in Conns : \A i : HasFrame(d, i)' = HasFrame(d, i)
    BY <1>2, <1>6, FramesStand
  <2>5. ASSUME ~distributor, Deduplicate, Taken PROVE Taken'
    <3> USE <2>5 DEF Taken, toolVars
    <3>1. p \in Publishers /\ Publishers \subseteq Goroutines
      BY <1>2, <2>5 DEF OrderInv, OnPublishers, Goroutines
    <3>2. task'[p] = t /\ \A q \in Publishers \ {p} : task'[q] = task[q]
      BY <1>2, <2>2, <3>1 DEF Step, SseTypeOK
    <3>3. \A q \in Publishers : Busy(q)' = Busy(q) /\ (Busy(q) => task'[q].ev = task[q].ev)
      BY <1>2, <2>2, <3>2 DEF Busy
    <3>4. Alone' /\ StacksGrouped'
      BY <3>3 DEF Alone, Idle, StacksGrouped, Grouped, CastsIn, CastsNext
    <3>5. \A q \in Publishers : \A i : UnderWay(q, i)' = UnderWay(q, i)
      BY <3>3 DEF UnderWay, CastsNext
    <3>6. StartedIsUnderWay'
      BY <2>4, <3>5 DEF StartedIsUnderWay, CastsIn
    <3>7. \A q \in Publishers : ~Idle(q) => q = p
      BY <1>2, <3>1 DEF Alone, Idle
    <3>8. \A q \in Publishers : \A i : UnderWay(q, i) => q = p /\ i = id
      BY <1>2, <1>3, <3>7 DEF UnderWay, CastsNext, Idle
    <3>9. StartedIsMarked'
      BY <1>4, <1>5, <2>4, <3>5, <3>8 DEF StartedIsMarked
    <3>10. ~HasFrame(c, id)
      BY <1>2, <1>3, <1>8, <3>1 DEF StartedIsMarked, UnderWay
    <3>11. \A q \in Publishers : task'[q].step = "send" => q = p
      BY <3>2, <3>7 DEF Idle, Busy
    <3>12. NotYetSent'
      BY <1>3, <1>5, <2>2, <2>4, <3>2, <3>10, <3>11 DEF NotYetSent
    <3> QED
      BY <3>4, <3>6, <3>9, <3>12
  <2> QED
    BY <2>2, <2>3, <2>4, <2>5 DEF OnceInv, toolVars
<1> QED
  BY <1>7, <1>8

\* The send: the first frame with this id, behind those published before it.
LEMMA SendKeepsFrames ==
  ASSUME IInv, OrderInv, OnceInv, UNCHANGED toolVars, NEW p \in Goroutines, EnqueueSend(p)
  PROVE  OrderInv' /\ OnceInv'
<1> USE DEF IInv, SseInv, Registry
<1>0. PICK c, id, t : c = task[p].at /\ id = task[p].ev.ID /\ t = Rest(p, c)
  OBVIOUS
<1>1. /\ task[p].step = "send" /\ c \in Conns /\ c \in task[p].targets
      /\ task[p].ev \in StreamEvent
      /\ \A d \in Conns : conn'[d].lastEventID = conn[d].lastEventID
      /\ \A d \in Conns \ {c} : Frames(d)' = Frames(d)
      /\ Frames(c)' = Frames(c) \/ Frames(c)' = Append(Frames(c), task[p].ev)
      /\ Step(p, t) /\ UNCHANGED <<distributor, wire>>
  BY <1>0, SendAppends
<1>2. /\ t.step \in {"idle", "mark", "drop"}
      /\ t.step # "idle" => t.ev = task[p].ev /\ t.targets = task[p].targets \ {c}
  BY <1>0 DEF Rest, Remaining, NoTask
<1>3. Busy(p) /\ SseTypeOK
  BY <1>1 DEF Busy
<1>4. \A d \in Conns : Frames(d)' = Frames(d) \/ (d = c /\ Appends(p, t, d))
  BY <1>0, <1>1, <1>2 DEF Appends
<1>5. OrderInv'
  BY <1>1, <1>2, <1>3, <1>4, TasksKeepOrder
<1>6. ASSUME ~distributor, Taken PROVE Taken' /\ (FramesDistinct => FramesDistinct')
  <2>1. p \in Publishers
    BY <1>3, <1>6 DEF OrderInv, OnPublishers, Goroutines
  <2>2. conn[c].lastEventID = id /\ ~HasFrame(c, id)
    BY <1>0, <1>1, <1>6, <2>1 DEF Taken, NotYetSent
  <2>3. ASSUME NEW d \in Conns, NEW i, HasFrame(d, i)'
        PROVE  HasFrame(d, i) \/ (i = id /\ conn[d].lastEventID = i)
    <3>1. PICK j \in 1..Len(Frames(d)') : Frames(d)'[j].ID = i
      BY <2>3 DEF HasFrame
    <3>2. CASE j \in 1..Len(Frames(d)) /\ Frames(d)'[j] = Frames(d)[j]
      BY <3>1, <3>2 DEF HasFrame
    <3>3. CASE Appends(p, t, d) /\ Frames(d)'[j] = task[p].ev
      BY <1>0, <2>2, <3>1, <3>3 DEF Appends
    <3> QED
      BY <1>3, <1>4, <3>2, <3>3, FramesGrow
  <2>4. Taken'
    BY <1>0, <1>1, <1>2, <1>3, <1>6, <2>1, <2>3, TasksKeepTaken DEF toolVars
  <2>5. ASSUME FramesDistinct PROVE FramesDistinct'
    <3> SUFFICES ASSUME NEW d \in Conns, NEW i \in 1..Len(Frames(d)'), NEW j \in 1..Len(Frames(d)'),
                        Frames(d)'[i].ID = Frames(d)'[j].ID
                 PROVE  i = j
      BY DEF FramesDistinct, DistinctIDs
    <3>1. ASSUME NEW a \in 1..Len(Frames(d)'), NEW b \in 1..Len(Frames(d)'),
                 a # b, Frames(d)'[a].ID = Frames(d)'[b].ID,
                 Appends(p, t, d), a = Len(Frames(d)) + 1, Frames(d)'[a] = task[p].ev
          PROVE  FALSE
      <4>1. b \in 1..Len(Frames(d)) /\ Frames(d)'[b] = Frames(d)[b]
        BY <1>3, <1>4, <3>1, FramesGrow
      <4>2. d = c /\ HasFrame(d, id)
        BY <1>0, <3>1, <4>1 DEF Appends, HasFrame
      <4> QED
        BY <2>2, <4>2
    <3>2. CASE /\ i \in 1..Len(Frames(d)) /\ Frames(d)'[i] = Frames(d)[i]
               /\ j \in 1..Len(Frames(d)) /\ Frames(d)'[j] = Frames(d)[j]
      BY <2>5, <3>2 DEF FramesDistinct, DistinctIDs
    <3> QED
      BY <1>3, <1>4, <3>1, <3>2, FramesGrow
  <2> QED
    BY <2>4, <2>5
<1> QED
  BY <1>1, <1>5, <1>6 DEF OnceInv, toolVars

-----------------------------------------------------------------------------

\* What the first step of a stack leaves: its broadcasts still follow one
\* another, and those of its own event come next.
LEMMA TailIsGrouped ==
  ASSUME NEW S, NEW s \in Seq(S), s # <<>>
  PROVE  /\ Grouped(s) => Grouped(Tail(s))
         /\ \A id : CastsIn(Tail(s), id) => CastsIn(s, id)
         /\ Grouped(s) => \A id : (CastsNext(s, id) /\ CastsIn(Tail(s), id)) => CastsNext(Tail(s), id)
<1>0. PICK t : t = Tail(s)
  OBVIOUS
<1>1. /\ Len(s) \in Nat \ {0} /\ Len(t) = Len(s) - 1 /\ Head(s) = s[1] /\ t \in Seq(S)
      /\ \A i \in 1..Len(t) : i + 1 \in 1..Len(s) /\ t[i] = s[i + 1]
  BY <1>0, HeadTailProperties, EmptySeq, LenProperties
<1>2. ASSUME Grouped(s) PROVE Grouped(t)
  <2> SUFFICES ASSUME NEW i \in 1..Len(t), NEW j \in 1..Len(t), NEW m \in i..j,
                      t[i].op = "cast", t[j].op = "cast", t[i].id = t[j].id
               PROVE  t[m].op = "cast" /\ t[m].id = t[i].id
    BY DEF Grouped
  <2>1. m \in 1..Len(t) /\ m + 1 \in (i + 1)..(j + 1)
    BY <1>1
  <2>2. /\ s[i + 1].op = "cast" /\ s[j + 1].op = "cast" /\ s[i + 1].id = s[j + 1].id
        /\ i + 1 \in 1..Len(s) /\ j + 1 \in 1..Len(s)
    BY <1>1
  <2>3. s[m + 1].op = "cast" /\ s[m + 1].id = s[i + 1].id
    BY <1>2, <2>1, <2>2 DEF Grouped
  <2> QED
    BY <1>1, <2>1, <2>3
<1>3. \A id : CastsIn(t, id) => CastsIn(s, id)
  BY <1>1 DEF CastsIn
<1>4. ASSUME Grouped(s), NEW id, CastsNext(s, id), CastsIn(t, id) PROVE CastsNext(t, id)
  <2>1. PICK j \in 1..Len(t) : t[j].op = "cast" /\ t[j].id = id
    BY <1>4 DEF CastsIn
  <2>2. /\ 1 \in 1..Len(s) /\ j + 1 \in 1..Len(s) /\ 2 \in 1..(j + 1)
        /\ s[1].op = "cast" /\ s[1].id = id /\ s[j + 1].op = "cast" /\ s[j + 1].id = id
    BY <1>1, <1>4, <2>1 DEF CastsNext
  <2>3. s[2].op = "cast" /\ s[2].id = id
    BY <1>4, <2>2 DEF Grouped
  <2>4. 1 \in 1..Len(t) /\ t[1] = s[2]
    BY <1>1, <2>1
  <2>5. t # <<>>
    BY <1>1, <2>4, EmptySeq
  <2>6. Head(t) = t[1]
    BY <1>1, <2>5, HeadTailProperties
  <2> QED
    BY <2>3, <2>4, <2>5, <2>6 DEF CastsNext
<1> QED
  BY <1>0, <1>2, <1>3, <1>4

\* Steps pushed on a stack that broadcast other events than it does.
LEMMA JoinIsGrouped ==
  ASSUME NEW S, NEW s \in Seq(S), NEW t \in Seq(S)
  PROVE  /\ \A id : CastsIn(s \o t, id) => CastsIn(s, id) \/ CastsIn(t, id)
         /\ (Grouped(s) /\ Grouped(t) /\ \A id : ~(CastsIn(s, id) /\ CastsIn(t, id))) =>
              Grouped(s \o t)
<1>1. PICK u, a, b : u = s \o t /\ a = Len(s) /\ b = Len(t)
  OBVIOUS
<1>2. /\ a \in Nat /\ b \in Nat /\ Len(u) = a + b
      /\ \A i \in 1..(a + b) : u[i] = IF i <= a THEN s[i] ELSE t[i - a]
  BY <1>1, ConcatProperties, LenProperties
<1>3. \A i \in 1..Len(u) : \/ i \in 1..a /\ u[i] = s[i]
                           \/ i - a \in 1..b /\ u[i] = t[i - a] /\ i > a
  BY <1>2
<1>4. \A id : CastsIn(u, id) => CastsIn(s, id) \/ CastsIn(t, id)
  BY <1>1, <1>3 DEF CastsIn
<1>5. ASSUME Grouped(s), Grouped(t), \A id : ~(CastsIn(s, id) /\ CastsIn(t, id))
      PROVE  Grouped(u)
  <2> SUFFICES ASSUME NEW i \in 1..Len(u), NEW j \in 1..Len(u), NEW m \in i..j,
                      u[i].op = "cast", u[j].op = "cast", u[i].id = u[j].id
               PROVE  u[m].op = "cast" /\ u[m].id = u[i].id
    BY DEF Grouped
  <2>1. m \in 1..Len(u) /\ i \in Int /\ j \in Int /\ m \in Int /\ i <= m /\ m <= j
    BY <1>2
  <2>2. CASE j <= a
    <3>1. i \in 1..a /\ j \in 1..a /\ m \in 1..a
      BY <1>2, <2>1, <2>2
    <3>2. u[i] = s[i] /\ u[j] = s[j] /\ u[m] = s[m]
      BY <1>2, <2>1, <2>2, <3>1
    <3> QED
      BY <1>1, <1>5, <3>1, <3>2 DEF Grouped
  <2>3. CASE i > a
    <3>1. i - a \in 1..b /\ j - a \in 1..b /\ m - a \in (i - a)..(j - a)
      BY <1>2, <2>1, <2>3
    <3>2. u[i] = t[i - a] /\ u[j] = t[j - a] /\ u[m] = t[m - a]
      BY <1>2, <1>3, <2>1, <2>3
    <3> QED
      BY <1>1, <1>5, <3>1, <3>2 DEF Grouped
  <2>4. CASE i <= a /\ j > a
    <3>1. i \in 1..a /\ u[i] = s[i] /\ j - a \in 1..b /\ u[j] = t[j - a]
      BY <1>2, <1>3, <2>1, <2>4
    <3>2. CastsIn(s, u[i].id) /\ CastsIn(t, u[i].id)
      BY <1>1, <3>1 DEF CastsIn
    <3> QED
      BY <1>5, <3>2
  <2> QED
    BY <1>2, <2>1, <2>2, <2>3, <2>4
<1> QED
  BY <1>1, <1>4, <1>5

\* The broadcasts of a fan-out follow one another, and are of one event.
LEMMA FanOutIsGrouped ==
  ASSUME NEW n \in Nat, NEW id \in 1..n, NEW ev \in CallEvent, NEW b \in BOOLEAN
  PROVE  /\ Grouped(FanOut(id, ev, b))
         /\ \A i : CastsIn(FanOut(id, ev, b), i) => i = id
<1> DEFINE r == <<RecordOp(id, ev)>>
           q == IF b THEN <<PublishOp(id, ev)>> ELSE <<>>
           c == [i \in DOMAIN EventTopics(ev) |-> CastOp(EventTopics(ev)[i], id, ev)]
           e == <<EmitOp(id, ev)>>
           S == CallSteps(n)
<1>1. /\ RecordOp(id, ev) \in S /\ EmitOp(id, ev) \in S /\ PublishOp(id, ev) \in S
      /\ \A topic \in Topics : CastOp(topic, id, ev) \in S
  BY DEF RecordOp, EmitOp, PublishOp, CastOp, CallSteps
<1>2. c \in Seq(S) /\ \A i \in 1..Len(c) : c[i].op = "cast" /\ c[i].id = id
  <2>1. EventTopics(ev) \in Seq(Topics)
    BY EventType
  <2>2. /\ Len(EventTopics(ev)) \in Nat /\ DOMAIN EventTopics(ev) = 1..Len(EventTopics(ev))
        /\ \A i \in 1..Len(EventTopics(ev)) : EventTopics(ev)[i] \in Topics
    BY <2>1, LenProperties, ElementOfSeq
  <2>3. c \in [1..Len(EventTopics(ev)) -> S]
    BY <1>1, <2>2
  <2>4. \A i \in 1..Len(EventTopics(ev)) : c[i].op = "cast" /\ c[i].id = id
    BY <2>2 DEF CastOp
  <2> HIDE DEF c, S
  <2>5. c \in Seq(S)
    BY <2>2, <2>3, SeqDef
  <2>6. Len(c) = Len(EventTopics(ev))
    BY <2>2, <2>3, <2>5, LenProperties
  <2> QED
    BY <2>4, <2>5, <2>6
<1>3. /\ r \in Seq(S) /\ e \in Seq(S) /\ q \in Seq(S)
  BY <1>1
<1>4. /\ \A i \in 1..Len(r) : r[i].op # "cast"
      /\ \A i \in 1..Len(e) : e[i].op # "cast"
      /\ \A i \in 1..Len(q) : q[i].op # "cast"
  BY DEF RecordOp, EmitOp, PublishOp
<1>5. FanOut(id, ev, b) = ((r \o q) \o c) \o e
  BY DEF FanOut
<1> HIDE DEF r, q, c, e, S
<1>6. /\ Grouped(r) /\ Grouped(q) /\ Grouped(c) /\ Grouped(e)
      /\ \A i : ~CastsIn(r, i) /\ ~CastsIn(q, i) /\ ~CastsIn(e, i) /\ (CastsIn(c, i) => i = id)
  <2>1. Grouped(r) /\ Grouped(q) /\ Grouped(e)
    BY <1>4 DEF Grouped
  <2>2. Grouped(c)
    <3>1. Len(c) \in Nat
      BY <1>2, LenProperties
    <3>2. \A i, j \in 1..Len(c) : \A m \in i..j : m \in 1..Len(c)
      BY <3>1
    <3> QED
      BY <1>2, <3>2 DEF Grouped
  <2> QED
    BY <1>2, <1>4, <2>1, <2>2 DEF CastsIn
<1>7. PICK v : v = r \o q
  OBVIOUS
<1>8. v \in Seq(S) /\ Grouped(v) /\ \A i : ~CastsIn(v, i)
  BY <1>3, <1>6, <1>7, ConcatProperties, JoinIsGrouped
<1>9. PICK w : w = v \o c
  OBVIOUS
<1>10. w \in Seq(S) /\ Grouped(w) /\ \A i : CastsIn(w, i) => i = id
  BY <1>2, <1>6, <1>8, <1>9, ConcatProperties, JoinIsGrouped
<1>11. Grouped(w \o e) /\ \A i : CastsIn(w \o e, i) => i = id
  BY <1>3, <1>6, <1>10, JoinIsGrouped
<1> QED
  BY <1>5, <1>7, <1>9, <1>11

\* Publishing on the bus broadcasts nothing by itself.
LEMMA CallsCastNothing ==
  ASSUME TypeOK, NEW name \in Names, NEW id, NEW ev, NEW s,
         s = [i \in DOMAIN Snapshot(name) |-> CallOp(Snapshot(name)[i], id, ev)]
  PROVE  Grouped(s) /\ \A i : ~CastsIn(s, i)
<1>1. PICK subs : subs = Snapshot(name)
  OBVIOUS
<1>2. subs \in Seq(busSubscription)
  BY <1>1, ConcatProperties DEF TypeOK, BusTypeOK, Snapshot
<1>3. Len(subs) \in Nat /\ DOMAIN subs = 1..Len(subs)
  BY <1>2, LenProperties
<1>4. s = [i \in 1..Len(subs) |-> CallOp(subs[i], id, ev)]
  BY <1>1, <1>3
<1>5. DOMAIN s = 1..Len(subs)
  BY <1>4
<1>6. Len(s) = Len(subs)
  BY <1>3, <1>5
<1>7. \A i \in 1..Len(s) : s[i].op = "call"
  BY <1>4, <1>6 DEF CallOp
<1> QED
  BY <1>7 DEF Grouped, CastsIn

-----------------------------------------------------------------------------

\* A call changes what it has still to do: nothing of it was started, and what
\* it broadcasts anew is an event nobody was sent.
LEMMA StacksChange ==
  ASSUME IInv, OrderInv, OnceInv, UNCHANGED <<sseVars, casts>>, NEW p \in Publishers, ~Busy(p),
         NEW S, NEW s \in Seq(S), todo' = [todo EXCEPT ![p] = s],
         lastID' \in Nat, lastID <= lastID',
         \/ overlap' = overlap /\ ~Idle(p)
         \/ overlap' = (overlap \/ \E q \in Publishers : ~Idle(q)),
         Grouped(todo[p]) => Grouped(s),
         \A id : ~CastsNext(todo[p], id),
         \A id : CastsIn(s, id) => CastsIn(todo[p], id) \/ (id \in Nat /\ id > lastID)
  PROVE  OrderInv' /\ OnceInv'
<1> USE DEF sseVars, sseHistory
<1>1. /\ SseTypeOK /\ lastID \in Nat /\ \A d \in Conns : Frames(d)' = Frames(d)
      /\ todo \in [Publishers -> Seq(CallSteps(lastID))]
  BY DEF IInv, TypeOK, SseInv, Registry, Frames
<1>2. /\ todo'[p] = s
      /\ \A q \in Publishers \ {p} : todo'[q] = todo[q]
  BY <1>1
<1>3. /\ FramesInOrder => FramesInOrder'
      /\ FramesDistinct => FramesDistinct'
      /\ \A d \in Conns : \A id : HasFrame(d, id)' = HasFrame(d, id)
  BY <1>1, FramesStand
<1>4. ASSUME OnPublishers PROVE OnPublishers'
  <2>1. ASSUME NEW q \in Publishers, Busy(q) PROVE task[q].ev.ID <= lastID'
    <3>1. task[q].ev.ID \in Nat /\ task[q].ev.ID <= lastID
      BY <1>1, <1>4, <2>1, TaskType DEF OnPublishers, StreamEvent, Goroutines
    <3> QED
      BY <1>1, <3>1
  <2> QED
    BY <1>4, <2>1 DEF OnPublishers, Busy
<1>5. ASSUME FramesArePast PROVE FramesArePast'
  <2> SUFFICES ASSUME NEW d \in Conns, NEW i \in 1..Len(Frames(d)), NEW f, f = Frames(d)[i]
               PROVE  /\ f.k < casts[f.by] /\ f.ID <= lastID'
                      /\ ToServe(f.by, d) => f.k < task[f.by].ev.k
    BY <1>1 DEF FramesArePast, ToServe, Busy
  <2>1. f.ID \in Nat /\ f.ID <= lastID
    BY <1>1, <1>5, FramesType DEF FramesArePast, StreamEvent
  <2> QED
    BY <1>1, <1>5, <2>1 DEF FramesArePast
<1>6. OrderInv'
  BY <1>3, <1>4, <1>5 DEF OrderInv
<1>7. ASSUME ~overlap', Deduplicate, ~distributor PROVE Taken'
  <2>1. ~overlap /\ FramesArePast /\ Taken /\ \A q \in Publishers : ~Idle(q) => q = p
    <3>1. CASE overlap' = overlap /\ ~Idle(p)
      <4>1. ~overlap
        BY <1>7, <3>1
      <4>2. Taken /\ FramesArePast
        BY <1>7, <4>1 DEF OnceInv, OrderInv
      <4> QED
        BY <3>1, <4>1, <4>2 DEF Taken, Alone
    <3>2. CASE overlap' = (overlap \/ \E q \in Publishers : ~Idle(q))
      <4>1. ~(overlap \/ \E q \in Publishers : ~Idle(q))
        BY <1>7, <3>2
      <4>2. Taken /\ FramesArePast
        BY <1>7, <4>1 DEF OnceInv, OrderInv
      <4> QED
        BY <4>1, <4>2
    <3> QED
      BY <3>1, <3>2
  <2> USE <2>1 DEF Taken
  <2>2. Alone'
    BY <1>2 DEF Alone, Idle, Busy
  <2>3. StacksGrouped'
    <3>1. ASSUME NEW q \in Publishers
          PROVE  /\ Grouped(todo'[q])
                 /\ \A id : (Busy(q)' /\ task'[q].ev.ID = id /\ CastsIn(todo'[q], id)) =>
                      CastsNext(todo'[q], id)
      BY <1>2 DEF StacksGrouped, Busy
    <3> QED
      BY <3>1 DEF StacksGrouped, Busy, Grouped, CastsIn, CastsNext
  <2>4. ASSUME NEW d \in Conns, NEW id, HasFrame(d, id) PROVE ~CastsIn(s, id)
    <3>1. PICK i \in 1..Len(Frames(d)) : Frames(d)[i].ID = id
      BY <2>4 DEF HasFrame
    <3>2. id <= lastID /\ id \in Nat
      BY <1>1, <3>1, FramesType DEF FramesArePast, StreamEvent
    <3>3. ~CastsIn(todo[p], id)
      BY <2>4 DEF StartedIsUnderWay, UnderWay
    <3> QED
      BY <1>1, <3>2, <3>3
  <2>5. \A id : CastsNext(s, id) => CastsIn(s, id)
    BY NextIsIn
  <2>6. StartedIsUnderWay'
    <3>1. ASSUME NEW q \in Publishers, NEW d \in Conns, NEW id,
                 CastsIn(todo'[q], id), HasFrame(d, id)
          PROVE  q # p /\ UnderWay(q, id)
      BY <1>2, <2>4, <3>1 DEF StartedIsUnderWay
    <3>2. \A q \in Publishers : \A id : q # p => UnderWay(q, id)' = UnderWay(q, id)
      BY <1>2 DEF UnderWay, CastsNext, Busy
    <3> QED
      BY <1>3, <3>1, <3>2 DEF StartedIsUnderWay, CastsIn
  <2>7. StartedIsMarked'
    <3>1. \A q \in Publishers : \A id : q # p => UnderWay(q, id)' = UnderWay(q, id)
      BY <1>2 DEF UnderWay, CastsNext, Busy
    <3>2. \A id : UnderWay(p, id)' => CastsIn(s, id)
      BY <1>2, <2>5 DEF UnderWay, CastsNext, Busy
    <3>3. ASSUME NEW q \in Publishers, NEW d \in Conns, NEW id, HasFrame(d, id), UnderWay(q, id)'
          PROVE  q # p /\ UnderWay(q, id)
      BY <2>4, <3>1, <3>2, <3>3
    <3> QED
      BY <1>3, <3>3 DEF StartedIsMarked
  <2>8. NotYetSent'
    BY <1>3 DEF NotYetSent
  <2> QED
    BY <2>2, <2>3, <2>6, <2>7, <2>8
<1>8. ~overlap' => ~overlap
  OBVIOUS
<1> QED
  BY <1>3, <1>6, <1>7, <1>8 DEF OnceInv

\* Track, Service.publish and Notify begin a call.
LEMMA EntersKeepFrames ==
  ASSUME IInv, OrderInv, OnceInv, NEW p \in Publishers, Track(p) \/ ServicePublish(p) \/ Notify(p)
  PROVE  OrderInv' /\ OnceInv'
<1>1. /\ ~Busy(p) /\ todo[p] = <<>> /\ lastID \in Nat /\ lastID + 1 \in Nat
      /\ UNCHANGED <<sseVars, casts>>
      /\ overlap' = (overlap \/ \E q \in Publishers : ~Idle(q))
      /\ lastID' \in {lastID, lastID + 1}
  <2>1. ~Busy(p) /\ todo[p] = <<>> /\ overlap' = (overlap \/ \E q \in Publishers : ~Idle(q))
    BY Zenon DEF Track, ServicePublish, Notify, Enter, Idle
  <2>2. lastID \in Nat /\ lastID + 1 \in Nat
    BY DEF IInv, TypeOK
  <2>3. UNCHANGED <<sseVars, casts>> /\ lastID' \in {lastID, lastID + 1}
    BY DEF Track, ServicePublish, Notify, NewID
  <2> QED
    BY <2>1, <2>2, <2>3
<1>2. PICK n \in Nat : n = lastID + 1
  BY <1>1
<1>3. PICK s \in Seq(CallSteps(n)) :
        /\ todo' = [todo EXCEPT ![p] = s] /\ Grouped(s) /\ \A id : CastsIn(s, id) => id = n
  <2>1. ASSUME NEW ev \in Events, Begin(p, FanOut(n, ev, TRUE))
        PROVE  \E s \in Seq(CallSteps(n)) :
                 /\ todo' = [todo EXCEPT ![p] = s] /\ Grouped(s) /\ \A id : CastsIn(s, id) => id = n
    <3>1. ev \in CallEvent /\ n \in 1..n
      BY <1>1, <1>2 DEF CallEvent
    <3>2. PICK s : s = FanOut(n, ev, TRUE)
      OBVIOUS
    <3>3. s \in Seq(CallSteps(n)) /\ Grouped(s) /\ \A id : CastsIn(s, id) => id = n
      BY <3>1, <3>2, FanOutType, FanOutIsGrouped
    <3> QED
      BY <2>1, <3>2, <3>3 DEF Begin
  <2>2. ASSUME NEW ev \in Events, Begin(p, <<PublishOp(0, ev)>>)
        PROVE  \E s \in Seq(CallSteps(n)) :
                 /\ todo' = [todo EXCEPT ![p] = s] /\ Grouped(s) /\ \A id : CastsIn(s, id) => id = n
    <3>1. PICK s : s = <<PublishOp(0, ev)>>
      OBVIOUS
    <3>2. s \in Seq(CallSteps(n)) /\ Grouped(s) /\ \A id : ~CastsIn(s, id)
      <4>1. PublishOp(0, ev) \in CallSteps(n)
        BY <1>1, <1>2 DEF PublishOp, CallSteps, CallEvent
      <4>2. \A i \in 1..Len(s) : s[i].op # "cast"
        BY <3>1 DEF PublishOp
      <4> QED
        BY <3>1, <4>1, <4>2 DEF Grouped, CastsIn
    <3> QED
      BY <2>2, <3>1, <3>2 DEF Begin
  <2>3. ASSUME NEW e \in Notices, Begin(p, <<CastOp(e[1], n, e[2])>>)
        PROVE  \E s \in Seq(CallSteps(n)) :
                 /\ todo' = [todo EXCEPT ![p] = s] /\ Grouped(s) /\ \A id : CastsIn(s, id) => id = n
    <3>1. PICK s : s = <<CastOp(e[1], n, e[2])>>
      OBVIOUS
    <3>2. s \in Seq(CallSteps(n)) /\ Grouped(s) /\ \A id : CastsIn(s, id) => id = n
      <4>1. e[1] \in Topics /\ e[2] \in CallEvent /\ n \in 1..n
        BY <1>1, <1>2, TopicsAssumption DEF CallEvent
      <4>2. CastOp(e[1], n, e[2]) \in CallSteps(n)
        BY <4>1 DEF CastOp, CallSteps
      <4>3. Len(s) = 1 /\ s[1].op = "cast" /\ s[1].id = n
        BY <3>1 DEF CastOp
      <4>4. Grouped(s) /\ \A id : CastsIn(s, id) => id = n
        BY <4>3 DEF Grouped, CastsIn
      <4> QED
        BY <3>1, <4>2, <4>4
    <3> QED
      BY <2>3, <3>1, <3>2 DEF Begin
  <2> QED
    BY <1>2, <2>1, <2>2, <2>3 DEF Track, ServicePublish, Notify
<1>4. \A id : ~CastsNext(todo[p], id)
  BY <1>1 DEF CastsNext
<1>5. n > lastID /\ lastID' \in Nat /\ lastID <= lastID'
  BY <1>1, <1>2
<1> QED
  BY <1>1, <1>2, <1>3, <1>4, <1>5, StacksChange

\* The sinks other than the stream, and the handlers of the bus.
LEMMA CallStepsKeepFrames ==
  ASSUME IInv, OrderInv, OnceInv, NEW p \in Publishers,
         DoRecord(p) \/ DoPublish(p) \/ DoCall(p) \/ DoBridge(p) \/ DoEmit(p)
  PROVE  OrderInv' /\ OnceInv'
<1>1. /\ ~Busy(p) /\ todo[p] # <<>> /\ lastID \in Nat /\ lastID + 1 \in Nat
      /\ UNCHANGED <<sseVars, casts>> /\ overlap' = overlap /\ ~Idle(p)
      /\ Head(todo[p]).op # "cast"
      /\ todo[p] \in Seq(CallSteps(lastID)) /\ TypeOK
  <2>1. /\ ~Busy(p) /\ todo[p] # <<>> /\ Head(todo[p]).op # "cast"
        /\ UNCHANGED <<sseVars, casts>> /\ overlap' = overlap
    BY DEF DoRecord, DoPublish, DoCall, DoBridge, DoEmit, Ready
  <2>2. lastID \in Nat /\ lastID + 1 \in Nat /\ todo[p] \in Seq(CallSteps(lastID)) /\ TypeOK
    BY DEF IInv, TypeOK
  <2> QED
    BY <2>1, <2>2 DEF Idle
<1>2. PICK h, t : h = Head(todo[p]) /\ t = Tail(todo[p])
  OBVIOUS
<1>3. /\ t \in Seq(CallSteps(lastID)) /\ <<>> \o t = t
      /\ Grouped(todo[p]) => Grouped(t)
      /\ \A id : CastsIn(t, id) => CastsIn(todo[p], id)
      /\ \A id : ~CastsNext(todo[p], id)
      /\ h.ev \in CallEvent
  <2>1. t \in Seq(CallSteps(lastID)) /\ <<>> \o t = t
    BY <1>1, <1>2, HeadTailProperties, ConcatEmptySeq
  <2>2. /\ Grouped(todo[p]) => Grouped(t)
        /\ \A id : CastsIn(t, id) => CastsIn(todo[p], id)
    BY <1>1, <1>2, TailIsGrouped
  <2> QED
    BY <1>1, <1>2, <2>1, <2>2, HeadType DEF CastsNext
<1>4. CASE DoRecord(p) \/ DoCall(p) \/ DoEmit(p)
  <2>1. todo' = [todo EXCEPT ![p] = t] /\ lastID' = lastID /\ lastID <= lastID
    BY <1>1, <1>2, <1>3, <1>4 DEF DoRecord, DoCall, DoEmit, Pop
  <2> QED
    BY <1>1, <1>3, <2>1, StacksChange
<1>5. ASSUME NEW n \in Nat, NEW s \in Seq(CallSteps(n)), lastID <= n, lastID' = n, Grouped(s),
             \A id : CastsIn(s, id) => id = n /\ n > lastID,
             todo' = [todo EXCEPT ![p] = s \o t]
      PROVE  OrderInv' /\ OnceInv'
  <2>1. PICK u : u = s \o t
    OBVIOUS
  <2>2. t \in Seq(CallSteps(n)) /\ u \in Seq(CallSteps(n))
    BY <1>1, <1>3, <1>5, <2>1, StepsGrow, SeqMonotonic, ConcatProperties
  <2>3. \A id : CastsIn(t, id) => id \in 1..lastID
    <3>1. \A i \in 1..Len(t) : t[i] \in CallSteps(lastID)
      BY <1>3, ElementOfSeq
    <3>2. \A i \in 1..Len(t) : t[i].op = "cast" => t[i].id \in 1..lastID
      BY <3>1 DEF CallSteps
    <3> QED
      BY <3>2 DEF CastsIn
  <2>4. \A id : ~(CastsIn(s, id) /\ CastsIn(t, id))
    BY <1>1, <1>5, <2>3
  <2>5. /\ \A id : CastsIn(u, id) => CastsIn(s, id) \/ CastsIn(t, id)
        /\ Grouped(t) => Grouped(u)
    BY <1>5, <2>1, <2>2, <2>4, JoinIsGrouped
  <2>6. todo' = [todo EXCEPT ![p] = u]
    BY <1>5, <2>1
  <2>7. \A id : CastsIn(u, id) => CastsIn(todo[p], id) \/ (id \in Nat /\ id > lastID)
    BY <1>3, <1>5, <2>5
  <2> QED
    BY <1>1, <1>3, <1>5, <2>2, <2>5, <2>6, <2>7, StacksChange
<1>6. CASE DoPublish(p)
  <2>1. h.ev.Name \in Names /\ h.ev \in CallEvent /\ h.id \in 0..lastID
    BY <1>1, <1>2, HeadType, EventType
  <2>2. PICK s : s = [i \in DOMAIN Snapshot(h.ev.Name) |->
                        CallOp(Snapshot(h.ev.Name)[i], h.id, h.ev)]
    OBVIOUS
  <2>3. todo' = [todo EXCEPT ![p] = s \o t] /\ lastID' = lastID /\ lastID <= lastID
    BY <1>1, <1>2, <1>6, <2>2 DEF DoPublish, Pop
  <2>4. s \in Seq(CallSteps(lastID))
    BY <1>1, <2>1, <2>2, CallsType
  <2>5. Grouped(s) /\ \A id : ~CastsIn(s, id)
    BY <1>1, <2>1, <2>2, CallsCastNothing
  <2> QED
    BY <1>1, <1>5, <2>3, <2>4, <2>5
<1>7. CASE DoBridge(p)
  <2>1. PICK n \in Nat : n = lastID + 1
    BY <1>1
  <2>2. PICK s : s = FanOut(n, h.ev, FALSE)
    OBVIOUS
  <2>3. todo' = [todo EXCEPT ![p] = s \o t] /\ lastID' = n
    BY <1>1, <1>2, <1>7, <2>1, <2>2 DEF DoBridge, Pop, NewID
  <2>4. lastID <= n /\ n > lastID /\ n \in 1..n
    BY <1>1, <2>1
  <2>5. s \in Seq(CallSteps(n)) /\ Grouped(s) /\ \A id : CastsIn(s, id) => id = n
    BY <1>3, <2>2, <2>4, FanOutType, FanOutIsGrouped
  <2> QED
    BY <1>5, <2>3, <2>4, <2>5
<1> QED
  BY <1>4, <1>6, <1>7

\* A broadcast begins: the event at the top of the stack is counted, and its
\* other broadcasts come next.
LEMMA CastKeepsFrames ==
  ASSUME IInv, OrderInv, OnceInv, NEW p \in Publishers, DoCast(p)
  PROVE  OrderInv' /\ OnceInv'
<1>1. PICK h, t, ev, b :
        /\ h = Head(todo[p]) /\ t = Tail(todo[p])
        /\ ev = [ID |-> h.id, TenantID |-> h.ev.TenantID,
                 encodes |-> h.ev.encodes, by |-> p, k |-> casts[p]]
        /\ b = [step |-> IF distributor THEN "publish" ELSE "select",
                topic |-> h.topic, ev |-> ev, targets |-> {}]
  OBVIOUS
<1>2. /\ h.op = "cast" /\ todo[p] # <<>> /\ ~Busy(p) /\ Step(p, b) /\ Pop(p, <<>>)
      /\ casts' = [casts EXCEPT ![p] = @ + 1]
      /\ UNCHANGED <<connections, conn, distributor, wire, sseHistory, lastID, overlap>>
  BY <1>1 DEF DoCast, Ready, StartBroadcast
<1>3. /\ SseTypeOK /\ lastID \in Nat /\ casts[p] \in Nat /\ Publishers \subseteq Goroutines
      /\ casts \in [Publishers -> Nat]
      /\ todo \in [Publishers -> Seq(CallSteps(lastID))] /\ h.id \in 1..lastID
  BY <1>1, <1>2, HeadType DEF IInv, TypeOK, SseInv, Registry, Goroutines
<1>4. /\ t \in Seq(CallSteps(lastID)) /\ <<>> \o t = t
      /\ Grouped(todo[p]) => Grouped(t)
      /\ \A id : CastsIn(t, id) => CastsIn(todo[p], id)
      /\ Grouped(todo[p]) => \A id : (CastsNext(todo[p], id) /\ CastsIn(t, id)) => CastsNext(t, id)
  <2>1. t \in Seq(CallSteps(lastID)) /\ <<>> \o t = t
    BY <1>1, <1>2, <1>3, HeadTailProperties, ConcatEmptySeq
  <2>2. todo[p] \in Seq(CallSteps(lastID))
    BY <1>3
  <2> QED
    BY <1>1, <1>2, <2>1, <2>2, TailIsGrouped
<1>5. /\ todo'[p] = t /\ \A q \in Publishers \ {p} : todo'[q] = todo[q]
      /\ task'[p] = b /\ \A q \in Goroutines \ {p} : task'[q] = task[q]
      /\ casts'[p] = casts[p] + 1 /\ \A q \in Publishers \ {p} : casts'[q] = casts[q]
  <2>1. todo' = [todo EXCEPT ![p] = t]
    BY <1>1, <1>2, <1>4 DEF Pop
  <2> QED
    BY <1>2, <1>3, <2>1 DEF Step, SseTypeOK
<1>6. /\ b.ev.ID = h.id /\ b.ev.by = p /\ b.ev.k = casts[p]
      /\ b.targets = {} /\ b.step \in {"publish", "select"}
      /\ ~distributor => b.step = "select"
  BY <1>1
<1>7. \A d \in Conns : Frames(d)' = Frames(d)
  BY <1>2 DEF Frames, sseHistory
<1>8. /\ FramesInOrder => FramesInOrder'
      /\ FramesDistinct => FramesDistinct'
      /\ \A d \in Conns : \A id : HasFrame(d, id)' = HasFrame(d, id)
  BY <1>3, <1>7, FramesStand
<1>9. ASSUME ~distributor, OnPublishers PROVE OnPublishers'
  <2>1. wire' = {} /\ \A d \in Callbacks : ~Busy(d)'
    <3>1. \A d \in Callbacks : d \in Goroutines /\ d # p
      BY SseAssumption DEF Goroutines
    <3> QED
      BY <1>2, <1>5, <1>9, <3>1 DEF OnPublishers, Busy
  <2>2. ASSUME NEW q \in Publishers, Busy(q)'
        PROVE  /\ task'[q].step # "publish"
               /\ task'[q].ev.by = q /\ casts'[q] = task'[q].ev.k + 1
               /\ task'[q].ev.ID <= lastID
    <3>1. CASE q = p
      BY <1>3, <1>5, <1>6, <1>9, <3>1
    <3>2. CASE q # p
      BY <1>3, <1>5, <1>9, <2>2, <3>2 DEF OnPublishers, Busy
    <3> QED
      BY <3>1, <3>2
  <2> QED
    BY <1>2, <2>1, <2>2 DEF OnPublishers
<1>10. ASSUME FramesArePast PROVE FramesArePast'
  <2> SUFFICES ASSUME NEW d \in Conns, NEW i \in 1..Len(Frames(d)), NEW f, f = Frames(d)[i]
               PROVE  /\ f.k < casts'[f.by] /\ f.ID <= lastID
                      /\ ToServe(f.by, d)' => f.k < task'[f.by].ev.k
    BY <1>2, <1>7 DEF FramesArePast, ToServe, Busy
  <2>1. /\ f.by \in Publishers /\ f.k \in Nat
        /\ f.k < casts[f.by] /\ f.ID <= lastID
        /\ ToServe(f.by, d) => f.k < task[f.by].ev.k
    BY <1>3, <1>10, FramesType DEF FramesArePast, StreamEvent
  <2>2. CASE f.by = p
    BY <1>3, <1>5, <1>6, <2>1, <2>2
  <2>3. CASE f.by # p
    BY <1>3, <1>5, <2>1, <2>3 DEF ToServe, Busy
  <2> QED
    BY <2>2, <2>3
<1>11. OrderInv'
  BY <1>2, <1>8, <1>9, <1>10 DEF OrderInv
<1>12. ASSUME Taken PROVE Taken'
  <2> USE <1>12 DEF Taken
  <2>1. \A q \in Publishers : ~Idle(q) => q = p
    BY <1>2 DEF Alone, Idle
  <2>2. \A q \in Publishers : ~Idle(q)' => q = p
    BY <1>3, <1>5, <2>1 DEF Idle, Busy
  <2>3. Alone'
    BY <2>2 DEF Alone
  <2>4. \A id : CastsNext(todo[p], id) <=> id = h.id
    BY <1>1, <1>2 DEF CastsNext
  <2>5. StacksGrouped'
    <3>1. ASSUME NEW q \in Publishers
          PROVE  /\ Grouped(todo'[q])
                 /\ \A id : (Busy(q)' /\ task'[q].ev.ID = id /\ CastsIn(todo'[q], id)) =>
                      CastsNext(todo'[q], id)
      <4>1. CASE q = p
        BY <1>4, <1>5, <1>6, <2>4, <4>1 DEF StacksGrouped
      <4>2. CASE q # p
        BY <1>3, <1>5, <4>2 DEF StacksGrouped, Busy
      <4> QED
        BY <4>1, <4>2
    <3> QED
      BY <3>1 DEF StacksGrouped, Busy, Grouped, CastsIn, CastsNext
  <2>6. \A q \in Publishers : \A id : UnderWay(q, id)' = UnderWay(q, id)
    <3>1. ASSUME NEW q \in Publishers, NEW id PROVE UnderWay(q, id)' <=> UnderWay(q, id)
      <4>1. CASE q = p
        BY <1>2, <1>5, <1>6, <2>4, <4>1 DEF UnderWay, Busy
      <4>2. CASE q # p
        BY <1>3, <1>5, <4>2 DEF UnderWay, Busy, CastsNext
      <4> QED
        BY <4>1, <4>2
    <3>2. \A q \in Publishers : \A id : UnderWay(q, id) \in BOOLEAN /\ UnderWay(q, id)' \in BOOLEAN
      BY DEF UnderWay, CastsNext
    <3> QED
      BY <3>1, <3>2
  <2>7. \A q \in Publishers : \A id : CastsIn(todo'[q], id) => CastsIn(todo[q], id)
    BY <1>4, <1>5
  <2>8. StartedIsUnderWay'
    <3>1. ASSUME NEW q \in Publishers, NEW d \in Conns, NEW id,
                 CastsIn(todo'[q], id), HasFrame(d, id)'
          PROVE  UnderWay(q, id)'
      BY <1>8, <2>6, <2>7, <3>1 DEF StartedIsUnderWay
    <3> QED
      BY <3>1 DEF StartedIsUnderWay, CastsIn
  <2>9. StartedIsMarked'
    BY <1>2, <1>8, <2>6 DEF StartedIsMarked
  <2>10. NotYetSent'
    <3>1. \A q \in Publishers : task'[q].step = "send" => q # p /\ task'[q] = task[q]
      BY <1>3, <1>5, <1>6
    <3> QED
      BY <1>2, <1>8, <3>1 DEF NotYetSent
  <2> QED
    BY <2>3, <2>5, <2>8, <2>9, <2>10
<1> QED
  BY <1>2, <1>8, <1>11, <1>12 DEF OnceInv

-----------------------------------------------------------------------------

\* The topics a stream is opened with are its user's and its tenant's.
LEMMA StreamTopicsAreOwn ==
  ASSUME NEW u, NEW t, NEW requested
  PROVE  /\ \A v \in Users : UserOf(v) \in StreamTopics(u, t, requested) => v = u
         /\ \A s \in Tenants : TenantOf(s) \in StreamTopics(u, t, requested) => s = t
<1>1. /\ \A v, w : UserOf(v) = UserOf(w) => v = w
      /\ \A v, w : TenantOf(v) = TenantOf(w) => v = w
      /\ \A v, w : UserOf(v) # TenantOf(w)
      /\ \A v : UserOf(v) # Global /\ TenantOf(v) # Global
  <2>1. \A v, w : UserOf(v) = UserOf(w) => v = w
    BY DEF UserOf
  <2>2. \A v, w : TenantOf(v) = TenantOf(w) => v = w
    BY DEF TenantOf
  <2>3. \A v, w : UserOf(v) # TenantOf(w)
    BY DEF UserOf, TenantOf
  <2>4. \A v : UserOf(v) # Global /\ TenantOf(v) # Global
    BY DEF UserOf, TenantOf, Global
  <2> QED
    BY <2>1, <2>2, <2>3, <2>4
<1>2. StreamTopics(u, t, requested) \subseteq {Global, TenantOf(t), UserOf(u)}
  BY DEF StreamTopics
<1> HIDE DEF UserOf, TenantOf, Global, StreamTopics
<1> QED
  BY <1>1, <1>2

\* Whatever else a step changes, a stream that keeps its topics and its tenant
\* keeps what is said of them.
LEMMA TopicsStand ==
  ASSUME TopicsAreOwn,
         \A c \in Conns : conn'[c].topics = conn[c].topics /\ conn'[c].tenantID = conn[c].tenantID
  PROVE  TopicsAreOwn'
BY DEF TopicsAreOwn

\* Only the opening of a stream gives it topics.
LEMMA StreamKeepsTopics ==
  ASSUME IInv, TopicsAreOwn, NEW c \in Conns, Stream(c)
  PROVE  TopicsAreOwn'
<1>1. PICK who \in Principals, requested \in Requested :
        ServeHello(c, StreamTopics(who[1], who[2], requested), who[2])
  BY DEF Stream
<1>2. PICK topics, t : topics = StreamTopics(who[1], who[2], requested) /\ t = who[2]
  OBVIOUS
<1>3. /\ conn'[c].topics = topics /\ conn'[c].tenantID = t
      /\ \A d \in Conns \ {c} : conn'[d] = conn[d]
  BY <1>1, <1>2 DEF ServeHello, NewConnection, IInv, SseInv, Registry, SseTypeOK
<1>4. /\ \E u : \A v \in Users : UserOf(v) \in topics => v = u
      /\ \A s \in Tenants : TenantOf(s) \in topics => t = s
  BY <1>2, StreamTopicsAreOwn
<1> HIDE DEF UserOf, TenantOf
<1>5. \A d \in Conns :
        /\ \E u : \A v \in Users : UserOf(v) \in conn'[d].topics => v = u
        /\ \A s \in Tenants : TenantOf(s) \in conn'[d].topics => conn'[d].tenantID = s
  <2> SUFFICES ASSUME NEW d \in Conns
               PROVE  /\ \E u : \A v \in Users : UserOf(v) \in conn'[d].topics => v = u
                      /\ \A s \in Tenants : TenantOf(s) \in conn'[d].topics => conn'[d].tenantID = s
    OBVIOUS
  <2>1. CASE d = c
    BY <1>3, <1>4, <2>1
  <2>2. CASE d # c
    BY <1>3, <2>2 DEF TopicsAreOwn
  <2> QED
    BY <2>1, <2>2
<1> QED
  BY <1>5 DEF TopicsAreOwn, UserOf, TenantOf

\* The fields of one connection change, and its topics are not among them.
LEMMA OthersKeepTopics ==
  ASSUME IInv, TopicsAreOwn,
         \/ UNCHANGED conn
         \/ \E p \in Goroutines : BroadcastStep(p)
         \/ \E c \in Conns : ServeStep(c) \/ ServeFrame(c) \/ ServeGone(c)
  PROVE  TopicsAreOwn'
<1>1. SseTypeOK /\ \A c \in Conns : conn[c] \in sseConnection
  BY ConnType DEF IInv, SseInv, Registry
<1>2. \A c \in Conns : conn'[c].topics = conn[c].topics /\ conn'[c].tenantID = conn[c].tenantID
  <2>1. ASSUME NEW c, NEW e, conn' = [conn EXCEPT ![c] = e],
               c \in Conns => e.topics = conn[c].topics /\ e.tenantID = conn[c].tenantID
        PROVE  \A d \in Conns : conn'[d].topics = conn[d].topics /\ conn'[d].tenantID = conn[d].tenantID
    <3>1. \A d \in Conns : conn'[d] = IF d = c THEN e ELSE conn[d]
      BY <1>1, <2>1 DEF SseTypeOK
    <3> QED
      BY <2>1, <3>1
  <2>2. ASSUME NEW c, NEW x, \/ conn' = [conn EXCEPT ![c].out = x]
                             \/ conn' = [conn EXCEPT ![c].done = x]
                             \/ conn' = [conn EXCEPT ![c].serve = x]
                             \/ conn' = [conn EXCEPT ![c].lastEventID = x]
        PROVE  \A d \in Conns : conn'[d].topics = conn[d].topics /\ conn'[d].tenantID = conn[d].tenantID
    <3>1. c \in Conns => conn[c] \in sseConnection
      BY <1>1
    <3>2. CASE conn' = [conn EXCEPT ![c].out = x]
      <4>1. PICK e : e = [conn[c] EXCEPT !.out = x]
        OBVIOUS
      <4>2. c \in Conns => e.topics = conn[c].topics /\ e.tenantID = conn[c].tenantID
        BY <3>1, <4>1 DEF sseConnection
      <4>3. conn' = [conn EXCEPT ![c] = e]
        BY <3>2, <4>1
      <4> QED
        BY <2>1, <4>2, <4>3
    <3>3. CASE conn' = [conn EXCEPT ![c].done = x]
      <4>1. PICK e : e = [conn[c] EXCEPT !.done = x]
        OBVIOUS
      <4>2. c \in Conns => e.topics = conn[c].topics /\ e.tenantID = conn[c].tenantID
        BY <3>1, <4>1 DEF sseConnection
      <4>3. conn' = [conn EXCEPT ![c] = e]
        BY <3>3, <4>1
      <4> QED
        BY <2>1, <4>2, <4>3
    <3>4. CASE conn' = [conn EXCEPT ![c].serve = x]
      <4>1. PICK e : e = [conn[c] EXCEPT !.serve = x]
        OBVIOUS
      <4>2. c \in Conns => e.topics = conn[c].topics /\ e.tenantID = conn[c].tenantID
        BY <3>1, <4>1 DEF sseConnection
      <4>3. conn' = [conn EXCEPT ![c] = e]
        BY <3>4, <4>1
      <4> QED
        BY <2>1, <4>2, <4>3
    <3>5. CASE conn' = [conn EXCEPT ![c].lastEventID = x]
      <4>1. PICK e : e = [conn[c] EXCEPT !.lastEventID = x]
        OBVIOUS
      <4>2. c \in Conns => e.topics = conn[c].topics /\ e.tenantID = conn[c].tenantID
        BY <3>1, <4>1 DEF sseConnection
      <4>3. conn' = [conn EXCEPT ![c] = e]
        BY <3>5, <4>1
      <4> QED
        BY <2>1, <4>2, <4>3
    <3> QED
      BY <2>2, <3>2, <3>3, <3>4, <3>5
  <2>3. ASSUME NEW c, ServeClose(c)
        PROVE  \A d \in Conns : conn'[d].topics = conn[d].topics /\ conn'[d].tenantID = conn[d].tenantID
    <3>1. PICK e : e = [conn[c] EXCEPT !.serve = "ended", !.done = TRUE]
      OBVIOUS
    <3>2. c \in Conns => e.topics = conn[c].topics /\ e.tenantID = conn[c].tenantID
      BY <1>1, <3>1 DEF sseConnection
    <3>3. conn' = [conn EXCEPT ![c] = e]
      BY <1>1, <2>3, <3>1 DEF ServeClose, SseTypeOK
    <3> QED
      BY <2>1, <3>2, <3>3
  <2>4. ASSUME NEW p \in Goroutines, BroadcastStep(p)
        PROVE  \A d \in Conns : conn'[d].topics = conn[d].topics /\ conn'[d].tenantID = conn[d].tenantID
    <3>1. CASE UNCHANGED conn
      BY <3>1
    <3>2. CASE EnqueueMark(p)
      BY <2>2, <3>2 DEF EnqueueMark
    <3>3. CASE EnqueueSend(p)
      BY <2>2, <3>1, <3>3 DEF EnqueueSend
    <3>4. CASE BroadcastClose(p)
      BY <2>2, <3>4 DEF BroadcastClose
    <3> QED
      BY <2>4, <3>1, <3>2, <3>3, <3>4
         DEF BroadcastStep, DistributorPublish, DistributorPublishFail, SelectTargets,
             EnqueueFull, DropTarget, BroadcastDisconnect
  <2>5. ASSUME NEW c \in Conns, ServeStep(c) \/ ServeFrame(c) \/ ServeGone(c)
        PROVE  \A d \in Conns : conn'[d].topics = conn[d].topics /\ conn'[d].tenantID = conn[d].tenantID
    BY <2>2, <2>3, <2>5
       DEF ServeStep, ServeFrame, ServeGone, ServeRegister, ServeDone, ServeDisconnect
  <2> QED
    BY <2>4, <2>5
<1> QED
  BY <1>2, TopicsStand

\* Nothing was sent, nothing is under way.
LEMMA FramesInit == Init => FramesInv
<1> SUFFICES ASSUME Init PROVE FramesInv
  OBVIOUS
<1> USE DEF Init, SseInit
<1>1. \A c \in Conns : /\ conn[c].topics = {} /\ delivered[c] = <<>> /\ conn[c].out = <<>>
  BY DEF NewConnection
<1>2. \A c \in Conns : Frames(c) = <<>>
  BY <1>1 DEF Frames
<1>3. \A p \in Goroutines : ~Busy(p) /\ task[p].step = "idle"
  BY DEF Busy, NoTask
<1>4. TopicsAreOwn
  BY <1>1 DEF TopicsAreOwn
<1>5. OrderInv
  BY <1>2, <1>3 DEF OrderInv, OnPublishers, FramesArePast, FramesInOrder, InOrder, Goroutines
<1>6. Alone /\ StacksGrouped
  BY <1>3 DEF Alone, Idle, StacksGrouped, Grouped, Goroutines
<1>7. StartedIsUnderWay /\ StartedIsMarked /\ FramesDistinct
  BY <1>2 DEF StartedIsUnderWay, StartedIsMarked, FramesDistinct, HasFrame, DistinctIDs
<1>8. NotYetSent
  BY <1>3 DEF NotYetSent, Goroutines
<1> QED
  BY <1>4, <1>5, <1>6, <1>7, <1>8 DEF FramesInv, OnceInv, Taken

\* The distributor's goroutines have nothing to do without one; with one, what
\* is said of the order and of the deduplication does not concern them.
LEMMA DistributorKeepsFrames ==
  ASSUME OrderInv, OnceInv, DistributorDrop \/ \E d \in Callbacks : DistributorDeliver(d)
  PROVE  OrderInv' /\ OnceInv'
<1>1. UNCHANGED distributor /\ wire # {}
  BY DEF DistributorDrop, DistributorDeliver
<1> QED
  BY <1>1 DEF OrderInv, OnceInv, OnPublishers

\* Every step keeps what is said of the frames.
LEMMA NextKeepsFrames == IInv /\ FramesInv /\ [Next]_vars => FramesInv'
<1> SUFFICES ASSUME IInv, TopicsAreOwn, OrderInv, OnceInv, [Next]_vars
             PROVE  TopicsAreOwn' /\ OrderInv' /\ OnceInv'
  BY DEF FramesInv
<1>1. Trackers \subseteq Publishers /\ Notifiers \subseteq Publishers /\ SseTypeOK
  BY ToolsAssumption DEF IInv, SseInv, Registry
<1>2. ASSUME NEW p \in Publishers, Track(p) \/ ServicePublish(p) \/ Notify(p)
      PROVE  TopicsAreOwn' /\ OrderInv' /\ OnceInv'
  <2>1. UNCHANGED conn
    BY <1>2 DEF Track, ServicePublish, Notify, sseVars
  <2> QED
    BY <1>2, <2>1, EntersKeepFrames, OthersKeepTopics
<1>3. ASSUME NEW p \in Publishers, CallStep(p)
      PROVE  TopicsAreOwn' /\ OrderInv' /\ OnceInv'
  <2>1. UNCHANGED conn
    BY <1>3 DEF CallStep, DoRecord, DoPublish, DoCall, DoBridge, DoCast, DoEmit, StartBroadcast, sseVars
  <2> QED
    BY <1>3, <2>1, CallStepsKeepFrames, CastKeepsFrames, OthersKeepTopics DEF CallStep
<1>4. ASSUME NEW p \in Goroutines, BroadcastStep(p), UNCHANGED toolVars
      PROVE  TopicsAreOwn' /\ OrderInv' /\ OnceInv'
  <2>1. TopicsAreOwn'
    BY <1>4, OthersKeepTopics
  <2> QED
    BY <1>4, <2>1, BroadcastsKeepFrames, MarkKeepsFrames, SendKeepsFrames DEF BroadcastStep
<1>5. ASSUME DistributorDrop \/ \E d \in Callbacks : DistributorDeliver(d)
      PROVE  TopicsAreOwn' /\ OrderInv' /\ OnceInv'
  <2>1. UNCHANGED conn
    BY <1>5 DEF DistributorDrop, DistributorDeliver
  <2> QED
    BY <1>5, <2>1, DistributorKeepsFrames, OthersKeepTopics
<1>6. ASSUME NEW c \in Conns, ServeStep(c) \/ ServeFrame(c) \/ ServeGone(c), UNCHANGED toolVars
      PROVE  TopicsAreOwn' /\ OrderInv' /\ OnceInv'
  <2>1. TopicsAreOwn'
    BY <1>6, OthersKeepTopics
  <2>2. \A d \in Conns : Frames(d)' = Frames(d) /\ conn'[d].lastEventID = conn[d].lastEventID
    BY <1>1, <1>6, ServeFrameMoves, ServeStepStands
  <2>3. UNCHANGED <<task, distributor, wire>>
    BY <1>6 DEF ServeStep, ServeFrame, ServeGone, ServeRegister, ServeDone, ServeDisconnect, ServeClose
  <2> QED
    BY <1>6, <2>1, <2>2, <2>3, StreamsKeepFrames
<1>7. ASSUME NEW c \in Conns, Stream(c)
      PROVE  TopicsAreOwn' /\ OrderInv' /\ OnceInv'
  <2>1. UNCHANGED <<task, distributor, wire, toolVars>>
    BY <1>7 DEF Stream, ServeHello
  <2> QED
    BY <1>7, <2>1, StreamBegins, StreamKeepsTopics, StreamsKeepFrames
<1>8. ASSUME UNCHANGED <<sseVars, toolVars>>
      PROVE  TopicsAreOwn' /\ OrderInv' /\ OnceInv'
  <2>1. /\ UNCHANGED <<conn, task, distributor, wire, toolVars>>
        /\ \A d \in Conns : Frames(d)' = Frames(d)
    BY <1>8 DEF sseVars, sseHistory, Frames
  <2> QED
    BY <2>1, OthersKeepTopics, StreamsKeepFrames
<1>9. CASE \/ \E p \in Trackers : Track(p) \/ ServicePublish(p)
           \/ \E p \in Notifiers : Notify(p)
           \/ \E p \in Publishers : CallStep(p)
  BY <1>1, <1>2, <1>3, <1>9
<1>10. CASE \/ \E p \in Goroutines : Sse(BroadcastStep(p))
            \/ \E d \in Callbacks : Sse(DistributorDeliver(d))
            \/ Sse(DistributorDrop)
            \/ \E c \in Conns : Stream(c) \/ Sse(ServeStep(c)) \/ Sse(ServeFrame(c)) \/ Sse(ServeGone(c))
  BY <1>4, <1>5, <1>6, <1>7, <1>10 DEF Sse
<1>11. CASE BusSubscribe \/ BusCancel \/ UNCHANGED vars
  BY <1>8, <1>11 DEF BusSubscribe, BusCancel, vars
<1> QED
  BY <1>9, <1>10, <1>11 DEF Next

\* What is said of the frames holds in every behaviour.
LEMMA FramesHold == Spec => []FramesInv
BY FramesInit, NextKeepsFrames, InvariantHolds, PTL DEF Spec

\* A client is sent what its tenant and its topics entitle it to, in the order
\* each goroutine published it, once as long as calls take turns, and nothing
\* is left out of a stream that goes on (broadcastLocal and enqueue of sse.go).
THEOREM EveryFrameIsRight == Spec => []FramesAreRight
<1>1. TopicsAreOwn => OwnTopicsOnly
  <2> SUFFICES ASSUME TopicsAreOwn, NEW c \in Conns
               PROVE  /\ Cardinality({u \in Users : UserOf(u) \in conn[c].topics}) <= 1
                      /\ \A t \in Tenants : TenantOf(t) \in conn[c].topics => conn[c].tenantID = t
    BY DEF OwnTopicsOnly
  <2>1. PICK u : \A v \in Users : UserOf(v) \in conn[c].topics => v = u
    BY DEF TopicsAreOwn
  <2>2. PICK own : own = {v \in Users : UserOf(v) \in conn[c].topics}
    OBVIOUS
  <2>3. own \subseteq {u}
    BY <2>1, <2>2
  <2>4. IsFiniteSet({u}) /\ Cardinality({u}) = 1
    BY FS_Singleton
  <2>5. Cardinality(own) <= 1
    BY <2>3, <2>4, FS_Subset
  <2> QED
    BY <2>2, <2>5 DEF TopicsAreOwn
<1>2. SseTypeOK /\ OrderInv => PublicationOrder
  BY FramesType DEF OrderInv, PublicationOrder, FramesInOrder, InOrder
<1>3. SseTypeOK /\ OnceInv => DeliveredOnce
  BY FramesType DEF OnceInv, DeliveredOnce, FramesDistinct, DistinctIDs
<1>4. IInv /\ FramesInv => OwnTopicsOnly /\ PublicationOrder /\ DeliveredOnce
  BY <1>1, <1>2, <1>3 DEF FramesInv, IInv, SseInv, Registry
<1>5. TenantIsolation /\ NoSilentLoss /\ OwnTopicsOnly /\ PublicationOrder /\ DeliveredOnce
        => FramesAreRight
  BY DEF FramesAreRight
<1> QED
  BY <1>4, <1>5, InvariantHolds, FramesHold, TenantsAreIsolated, NothingIsLostSilently, PTL
=============================================================================
