------------------------- MODULE MemorySessionStore -------------------------
(***************************************************************************)
(* The session store of the library (memory_store.go): the table of        *)
(* sessions by id and the index from a refresh token's hash to the session *)
(* that holds it.  Every method runs under the store's mutex, so each is   *)
(* one step.  A Go map is a function that is NoSession or NoID where the   *)
(* map has no entry.                                                       *)
(*                                                                         *)
(* A refresh token, its SHA-256 hash and the pair of tokens it is issued   *)
(* with are one value, a grant: grants are random and hashToken is taken   *)
(* to be collision free.  RevokedAt is only ever compared with nil, so it  *)
(* is a Boolean.  TenantID is a function of UserID and is left out.        *)
(***************************************************************************)
EXTENDS Integers, FiniteSets

CONSTANTS SessionIDs,  \* the ids newID("ses") can mint
          Grants,      \* the token pairs issueToken can mint
          Users,       \* the ids of the accounts
          NoID         \* "no entry" in the token index

ASSUME NoIDAssumption == NoID \notin SessionIDs

VARIABLES byID,          \* [SessionIDs -> Session or NoSession]
          byTokenHashed  \* [Grants -> SessionIDs or NoID]

storeVars == <<byID, byTokenHashed>>

\* The Session record (its ID is carried along, as in the Go struct).
Session == [ID : SessionIDs, UserID : Users, RefreshTokenHash : Grants,
            ExpiresAt : Int, Revoked : BOOLEAN]

NoSession == [ID |-> NoID]

Stored(s) == byID[s] # NoSession

StoreTypeOK ==
  /\ byID \in [SessionIDs -> Session \cup {NoSession}]
  /\ byTokenHashed \in [Grants -> SessionIDs \cup {NoID}]

StoreInit ==
  /\ byID = [s \in SessionIDs |-> NoSession]
  /\ byTokenHashed = [g \in Grants |-> NoID]

(***************************************************************************)
(* Reads.                                                                  *)
(***************************************************************************)
GetSessionByRefreshTokenHash(g) ==
  IF byTokenHashed[g] = NoID THEN NoSession ELSE byID[byTokenHashed[g]]

GetSessionByID(s) == byID[s]

ListSessionsForUser(u) == {s \in SessionIDs : Stored(s) /\ byID[s].UserID = u}

(***************************************************************************)
(* Writes.                                                                 *)
(***************************************************************************)
CreateSession(session) ==
  /\ byID' = [byID EXCEPT ![session.ID] = session]
  /\ byTokenHashed' = [byTokenHashed EXCEPT ![session.RefreshTokenHash] = session.ID]

\* Broken variants, to test the properties: an upsert, and a rotation that
\* leaves the replaced hash in the index.
UpdateSessionUpserts(session) ==
  /\ byID' = [byID EXCEPT ![session.ID] = session]
  /\ byTokenHashed' = [byTokenHashed EXCEPT ![session.RefreshTokenHash] = session.ID]
UpdateSessionKeepsOldHash(session) ==
  /\ Stored(session.ID)
  /\ byID' = [byID EXCEPT ![session.ID] = session]
  /\ byTokenHashed' = [byTokenHashed EXCEPT ![session.RefreshTokenHash] = session.ID]

\* UpdateSession replaces the whole record; the index follows a changed hash.
UpdateSession(session) ==
  /\ Stored(session.ID)
  /\ byID' = [byID EXCEPT ![session.ID] = session]
  /\ byTokenHashed' =
       LET old == byID[session.ID].RefreshTokenHash
           new == session.RefreshTokenHash
       IN  IF old = new THEN byTokenHashed
           ELSE [byTokenHashed EXCEPT ![old] = NoID, ![new] = session.ID]

RevokeSessionByID(s) ==
  /\ Stored(s)
  /\ byID' = [byID EXCEPT ![s].Revoked = TRUE]
  /\ UNCHANGED byTokenHashed

Expired(now) == {s \in SessionIDs : Stored(s) /\ now > byID[s].ExpiresAt}

DeleteExpiredSessions(now) ==
  /\ byID' = [s \in SessionIDs |-> IF s \in Expired(now) THEN NoSession ELSE byID[s]]
  /\ byTokenHashed' =
       [g \in Grants |->
          IF \E s \in Expired(now) : byID[s].RefreshTokenHash = g
          THEN NoID ELSE byTokenHashed[g]]

=============================================================================
