------------------------------ MODULE EventBus ------------------------------
(***************************************************************************)
(* The in-process bus of events.go: per event name the registrations in    *)
(* the order they were made.  Subscribe and unsubscribe run under the      *)
(* write lock and Publish takes its snapshot under the read lock, so each  *)
(* is one atomic step; the handlers run outside the lock (AuthTools).      *)
(***************************************************************************)
EXTENDS Naturals, Sequences, SequencesExt

CONSTANTS Names,      \* event names
          Wildcard,   \* EventBusWildcard
          Handlers,   \* what a registration may call
          MaxSubs     \* bound on the registrations ever made

ASSUME BusAssumption == Wildcard \notin Names /\ MaxSubs \in Nat

VARIABLES subscribers,  \* subscribers[name]: the registrations, oldest first
          nextID        \* the id given out last

busVars == <<subscribers, nextID>>

busSubscription == [id : 1..MaxSubs, handler : Handlers]

BusTypeOK ==
  /\ subscribers \in [Names \cup {Wildcard} -> Seq(busSubscription)]
  /\ nextID \in 0..MaxSubs

BusInit ==
  /\ subscribers = [n \in Names \cup {Wildcard} |-> <<>>]
  /\ nextID = 0

Subscribe(name, h) ==
  /\ nextID < MaxSubs
  /\ nextID' = nextID + 1
  /\ subscribers' = [subscribers EXCEPT ![name] = Append(@, [id |-> nextID + 1, handler |-> h])]

\* The cancel function Subscribe returned: the slice without this registration.
Unsubscribe(name, id) == \E i \in DOMAIN subscribers[name] :
  /\ subscribers[name][i].id = id
  /\ subscribers' = [subscribers EXCEPT ![name] = RemoveAt(@, i)]
  /\ UNCHANGED nextID

\* Publish's snapshot: the named handlers, then the wildcard ones.
Snapshot(name) == subscribers[name] \o subscribers[Wildcard]
=============================================================================
