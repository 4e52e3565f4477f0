---------------------------- MODULE OAuthStores ----------------------------
(***************************************************************************)
(* The two stores of the OAuth routes, each under a mutex of its own:      *)
(* MemoryLinkedAccounts (oauth.go), with its three indexes, and            *)
(* MemoryPendingLinks (oauth_wire.go), which keeps states, link tokens and *)
(* conflicts under keys of disjoint shapes until they expire.              *)
(***************************************************************************)
EXTENDS Integers, Sequences, FiniteSets

CONSTANTS UserIDs, Unset

VARIABLES
  byID,     \* link id -> link
  byPrv,    \* <<provider, provider account>> -> link
  byUsr,    \* user -> the links listed for them; their order tells nothing apart here
  linked,   \* history: <<provider's identity, user>> of every link that was saved
  entries,  \* key -> [meta, expiresAt]
  now

linkVars    == <<byID, byPrv, byUsr, linked>>
pendingVars == <<entries>>
storeVars   == <<linkVars, pendingVars>>

Set(f, k, v) == [x \in DOMAIN f \cup {k} |-> IF x = k THEN v ELSE f[x]]
Without(f, k) == [x \in DOMAIN f \ {k} |-> f[x]]

StoresInit ==
  /\ byID = <<>> /\ byPrv = <<>> /\ byUsr = [u \in UserIDs |-> {}] /\ linked = {}
  /\ entries = <<>>

(***************************************************************************)
(* MemoryLinkedAccounts.  A second link for the same provider account      *)
(* takes over byPrv and leaves the first one in byID and byUsr.            *)
(***************************************************************************)
Ident(l) == <<l.Provider, l.ProviderID>>

Unlisted(links, id) == {k \in links : k.ID # id}

LinkSave(l) ==
  /\ byID'  = Set(byID, l.ID, l)
  /\ byPrv' = Set(byPrv, Ident(l), l)
  /\ byUsr' = [byUsr EXCEPT ![l.UserID] = Unlisted(@, l.ID) \cup {l}]
  /\ linked' = linked \cup {<<Ident(l), l.UserID>>}

LinkFindByProvider(ident) == IF ident \in DOMAIN byPrv THEN byPrv[ident] ELSE Unset

\* Broken variant: the index by provider keeps the link.
LinkDeleteLeaves(id) ==
  IF id \notin DOMAIN byID THEN UNCHANGED linkVars
  ELSE LET l == byID[id] IN
       /\ byID'  = Without(byID, id)
       /\ byUsr' = [byUsr EXCEPT ![l.UserID] = Unlisted(@, id)]
       /\ UNCHANGED <<byPrv, linked>>

LinkDelete(id) ==
  IF id \notin DOMAIN byID THEN UNCHANGED linkVars
  ELSE LET l == byID[id] IN
       /\ byID'  = Without(byID, id)
       /\ byPrv' = Without(byPrv, Ident(l))
       /\ byUsr' = [byUsr EXCEPT ![l.UserID] = Unlisted(@, id)]
       /\ UNCHANGED linked

(***************************************************************************)
(* MemoryPendingLinks.                                                     *)
(***************************************************************************)
PendingSave(key, meta, ttl) ==
  entries' = Set(entries, key, [meta |-> meta, expiresAt |-> now + ttl])

PendingLive(key) == key \in DOMAIN entries /\ now <= entries[key].expiresAt

\* What Get does to the store: an entry found expired is dropped.
PendingGet(key) ==
  entries' = IF key \in DOMAIN entries /\ ~PendingLive(key) THEN Without(entries, key) ELSE entries

PendingMeta(key)   == entries[key].meta
PendingDelete(key) == entries' = Without(entries, key)
=============================================================================
