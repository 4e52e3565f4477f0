--------------------------- MODULE SessionService ---------------------------
(***************************************************************************)
(* The session half of Service (service.go, token.go, account.go, wire.go) *)
(* over MemorySessionStore.  Requests are goroutines: a handler is cut at  *)
(* its store calls, each of which is atomic, and what the handler read     *)
(* earlier stays in its own locals (call[r]) and may be stale by the time  *)
(* it is used.                                                             *)
(*                                                                         *)
(* Left out: signatures and claim encoding (a grant names its claims),     *)
(* event publication, and the password and second-factor checks that       *)
(* decide whether a login may open a session.                              *)
(***************************************************************************)
EXTENDS MemorySessionStore

CONSTANTS Requests,         \* concurrent calls into the service
          NoGrant,          \* "no token"
          RefreshTokenTTL,  \* Config.RefreshTokenTTL
          AccessTokenTTL,   \* Config.AccessTokenTTL
          ClockSkew,        \* Config.ClockSkew
          AllCalls,         \* Config.SessionCheckOn = "allcalls"
          MaxTime           \* bound: the clock stops here

ASSUME ConfigAssumption ==
  /\ RefreshTokenTTL \in Nat /\ AccessTokenTTL \in Nat /\ ClockSkew \in Nat
  /\ MaxTime \in Nat
  /\ AllCalls \in BOOLEAN
  /\ NoGrant \notin Grants
  /\ NoID \notin Users

VARIABLES
  now,      \* the clock behind Service.now
  users,    \* the ids the user store holds
  claims,   \* claims[g]: what the tokens of grant g say; NoClaims if not minted
  call,     \* call[r]: where request r is and what it has read
  parent,   \* history: parent[g] is the grant that was exchanged for g
  revoked,  \* history: sessions some call has reported as revoked
  raced     \* history: ... while a Refresh held a copy read before

history == <<parent, revoked, raced>>
vars    == <<byID, byTokenHashed, now, users, claims, call, parent, revoked, raced>>

Claims    == [Sid : SessionIDs, Sub : Users, Iat : Int]
NoClaims  == [Sid |-> NoID]
Minted(g) == claims[g] # NoClaims

\* A request: the store call it makes next, the token it was given, the
\* session record it read, the user it acts for, the sessions it will revoke.
Steps == {"idle", "createSession", "refreshUser", "refreshWrite", "logoutWrite",
          "authUser", "admitted", "revokeWrite", "deleteSessions"}
Call  == [step : Steps, tok : Grants \cup {NoGrant},
          session : Session \cup {NoSession}, user : Users \cup {NoID},
          ids : SUBSET SessionIDs]
Holding(step, g, session) ==
  [step |-> step, tok |-> g, session |-> session, user |-> NoID, ids |-> {}]
ActingFor(step, u, session, ids) ==
  [step |-> step, tok |-> NoGrant, session |-> session, user |-> u, ids |-> ids]
Idle == Holding("idle", NoGrant, NoSession)

TypeOK ==
  /\ StoreTypeOK
  /\ now \in Nat
  /\ users \subseteq Users
  /\ claims \in [Grants -> Claims \cup {NoClaims}]
  /\ call \in [Requests -> Call]
  /\ parent \in [Grants -> Grants \cup {NoGrant}]
  /\ revoked \subseteq SessionIDs
  /\ raced \subseteq revoked

Init ==
  /\ StoreInit
  /\ now = 0
  /\ users = Users
  /\ claims = [g \in Grants |-> NoClaims]
  /\ call = [r \in Requests |-> Idle]
  /\ parent = [g \in Grants |-> NoGrant]
  /\ revoked = {}
  /\ raced = {}

(***************************************************************************)
(* Tokens (token.go).  issueToken's expiry, and parseToken: a token of the *)
(* right type, signed here, not past exp + skew.                           *)
(***************************************************************************)
RefreshExp(g) == claims[g].Iat + RefreshTokenTTL
AccessExp(g)  == claims[g].Iat + AccessTokenTTL

ParseRefresh(g) == Minted(g) /\ now <= RefreshExp(g) + ClockSkew
ParseAccess(g)  == Minted(g) /\ now <= AccessExp(g) + ClockSkew

IssueTokens(g, s, u) ==
  /\ ~Minted(g)
  /\ claims' = [claims EXCEPT ![g] = [Sid |-> s, Sub |-> u, Iat |-> now]]

\* newID("ses"): no token names the id yet.
FreshID(s) == \A g \in Grants : claims[g].Sid # s

(***************************************************************************)
(* Control.  A Local step changes nothing but the request's own locals; a  *)
(* handler ends in Finish, and Fail is a return with an error.  A handler  *)
(* whose first store call already fails does not leave "idle" at all.      *)
(***************************************************************************)
At(r, step)   == call[r].step = step
Goto(r, next) == call' = [call EXCEPT ![r] = next]
Finish(r)     == Goto(r, Idle)
Local         == UNCHANGED <<storeVars, now, users, claims, history>>
Fail(r)       == Finish(r) /\ Local

\* A call reports session s as revoked.  A Refresh that has read s and not
\* yet written it back will overwrite the mark.
HoldsCopy(r, s) == call[r].step \in {"refreshUser", "refreshWrite"} /\ call[r].session.ID = s
ReportRevoked(s) ==
  /\ revoked' = revoked \cup {s}
  /\ raced' = IF \E r \in Requests : HoldsCopy(r, s) THEN raced \cup {s} ELSE raced
  /\ UNCHANGED parent

(***************************************************************************)
(* issueSession, the tail of Register, Login, LoginWithChallenge,          *)
(* VerifyMagicLink, VerifySMSCode, VerifyTOTP and IssueTokensForUser.  The *)
(* user it is given was read from the store in an earlier step.            *)
(***************************************************************************)
LoginLookup(r) == \E u \in users :
  /\ At(r, "idle")
  /\ Goto(r, ActingFor("createSession", u, NoSession, {}))
  /\ Local

IssueSession(r) == \E s \in SessionIDs, g \in Grants :
  /\ At(r, "createSession")
  /\ FreshID(s)
  /\ IssueTokens(g, s, call[r].user)
  /\ CreateSession([ID |-> s, UserID |-> call[r].user, RefreshTokenHash |-> g,
                    ExpiresAt |-> now + RefreshTokenTTL, Revoked |-> FALSE])
  /\ Finish(r)
  /\ UNCHANGED <<now, users, history>>

\* Config.BuildTokenClaims, which issueToken calls, may return an error.
IssueSessionFail(r) == At(r, "createSession") /\ Fail(r)

(***************************************************************************)
(* Refresh: read the session the token's hash leads to and check it, read  *)
(* the user, then mint a new pair and write the copy back with the new     *)
(* hash and expiry.                                                        *)
(***************************************************************************)
RefreshUsable(session, g) ==
  /\ session # NoSession
  /\ ~session.Revoked
  /\ now <= session.ExpiresAt + ClockSkew
  /\ session.ID = claims[g].Sid /\ session.UserID = claims[g].Sub

RefreshLookup(r) == \E g \in Grants :
  /\ At(r, "idle")
  /\ ParseRefresh(g)
  /\ RefreshUsable(GetSessionByRefreshTokenHash(g), g)
  /\ Goto(r, Holding("refreshUser", g, GetSessionByRefreshTokenHash(g)))
  /\ Local

RefreshGetUser(r) ==
  /\ At(r, "refreshUser")
  /\ claims[call[r].tok].Sub \in users
  /\ Goto(r, [call[r] EXCEPT !.step = "refreshWrite"])
  /\ Local

\* Broken variant: the session keeps the expiry of the token it replaces.
RotatedKeepsExpiry(session, g) == [session EXCEPT !.RefreshTokenHash = g]

\* The copy with the new hash and expiry; the other fields as they were read.
Rotated(session, g) ==
  [ID |-> session.ID, UserID |-> session.UserID, RefreshTokenHash |-> g,
   ExpiresAt |-> now + RefreshTokenTTL, Revoked |-> session.Revoked]

RefreshWrite(r) == \E g \in Grants :
  /\ At(r, "refreshWrite")
  /\ IssueTokens(g, call[r].session.ID, claims[call[r].tok].Sub)
  /\ UpdateSession(Rotated(call[r].session, g))
  /\ parent' = [parent EXCEPT ![g] = call[r].tok]
  /\ Finish(r)
  /\ UNCHANGED <<now, users, revoked, raced>>

\* GetUserByID finds no user; or BuildTokenClaims fails or UpdateSession finds
\* no session.  Nothing has been written.
RefreshFail(r) ==
  /\ \/ At(r, "refreshUser") /\ claims[call[r].tok].Sub \notin users
     \/ At(r, "refreshWrite")
  /\ Fail(r)

(***************************************************************************)
(* Logout: read by hash, then write the copy back with RevokedAt set.      *)
(***************************************************************************)
LogoutLookup(r) == \E g \in Grants :
  /\ At(r, "idle")
  /\ ParseRefresh(g)
  /\ GetSessionByRefreshTokenHash(g) # NoSession
  /\ GetSessionByRefreshTokenHash(g).ID = claims[g].Sid
  /\ Goto(r, Holding("logoutWrite", g, GetSessionByRefreshTokenHash(g)))
  /\ Local

\* Broken variant: the copy is written back without the mark.
LogoutWriteUnmarked(r) ==
  /\ At(r, "logoutWrite")
  /\ UpdateSession(call[r].session)
  /\ ReportRevoked(call[r].session.ID)
  /\ Finish(r)
  /\ UNCHANGED <<now, users, claims>>

LogoutWrite(r) ==
  /\ At(r, "logoutWrite")
  /\ UpdateSession([call[r].session EXCEPT !.Revoked = TRUE])
  /\ ReportRevoked(call[r].session.ID)
  /\ Finish(r)
  /\ UNCHANGED <<now, users, claims>>

LogoutFail(r) ==
  /\ At(r, "logoutWrite") /\ ~Stored(call[r].session.ID)
  /\ Fail(r)

\* The session an access token names is revoked by its id in one store call.
LogoutAccessToken(r) == \E g \in Grants :
  /\ At(r, "idle")
  /\ ParseAccess(g)
  /\ RevokeSessionByID(claims[g].Sid)
  /\ ReportRevoked(claims[g].Sid)
  /\ UNCHANGED <<now, users, claims, call>>

\* Service.RevokeSessionByID, for an operator who has the id.
RevokeByID(r) == \E s \in SessionIDs :
  /\ At(r, "idle")
  /\ RevokeSessionByID(s)
  /\ ReportRevoked(s)
  /\ UNCHANGED <<now, users, claims, call>>

(***************************************************************************)
(* RevokeUserSession: the owner's list is searched for the handle, which   *)
(* is revoked by id in a second store call.                                *)
(***************************************************************************)
RevokeUserLookup(r) == \E u \in Users : \E s \in ListSessionsForUser(u) :
  /\ At(r, "idle")
  /\ ~byID[s].Revoked /\ now <= byID[s].ExpiresAt
  /\ Goto(r, ActingFor("revokeWrite", u, byID[s], {}))
  /\ Local

RevokeUserWrite(r) ==
  /\ At(r, "revokeWrite")
  /\ RevokeSessionByID(call[r].session.ID)
  /\ ReportRevoked(call[r].session.ID)
  /\ Finish(r)
  /\ UNCHANGED <<now, users, claims>>

RevokeUserFail(r) ==
  /\ At(r, "revokeWrite") /\ ~Stored(call[r].session.ID)
  /\ Fail(r)

(***************************************************************************)
(* Authenticate: the session is looked up only when SessionCheckOn is      *)
(* "allcalls", then the user.                                              *)
(***************************************************************************)
ValidateSessionForAccess(g) ==
  AllCalls => LET session == GetSessionByID(claims[g].Sid) IN
                /\ session # NoSession
                /\ session.UserID = claims[g].Sub
                /\ ~session.Revoked
                /\ now <= session.ExpiresAt + ClockSkew

Authenticate(r) == \E g \in Grants :
  /\ At(r, "idle")
  /\ ParseAccess(g)
  /\ ValidateSessionForAccess(g)
  /\ Goto(r, Holding("authUser", g, NoSession))
  /\ Local

\* GetUserByID; an admitted request runs the host's handler and ends.
AuthenticateUser(r) ==
  /\ At(r, "authUser")
  /\ claims[call[r].tok].Sub \in users
  /\ Goto(r, [call[r] EXCEPT !.step = "admitted"])
  /\ Local

AuthenticateFail(r) ==
  /\ At(r, "authUser")
  /\ claims[call[r].tok].Sub \notin users
  /\ Fail(r)

Handled(r) == At(r, "admitted") /\ Finish(r) /\ Local

(***************************************************************************)
(* DeleteAccount: list the sessions, revoke them one by one (errors are    *)
(* ignored), then delete the user.                                         *)
(***************************************************************************)
DeleteAccount(r) == \E u \in users :
  /\ At(r, "idle")
  /\ Goto(r, ActingFor("deleteSessions", u, NoSession, ListSessionsForUser(u)))
  /\ Local

DeleteRevoke(r) == \E s \in call[r].ids :
  /\ At(r, "deleteSessions")
  /\ IF Stored(s) THEN RevokeSessionByID(s) /\ ReportRevoked(s)
                  ELSE UNCHANGED <<storeVars, history>>
  /\ Goto(r, [call[r] EXCEPT !.ids = @ \ {s}])
  /\ UNCHANGED <<now, users, claims>>

\* Broken variant: the identity is deleted before its sessions are revoked.
DeleteUserFirst(r) ==
  /\ At(r, "deleteSessions")
  /\ users' = users \ {call[r].user}
  /\ UNCHANGED <<storeVars, now, claims, call, history>>

DeleteUser(r) ==
  /\ At(r, "deleteSessions") /\ call[r].ids = {}
  /\ users' = users \ {call[r].user}
  /\ Finish(r)
  /\ UNCHANGED <<storeVars, now, claims, history>>

CleanupExpiredSessions ==
  /\ Expired(now) # {}
  /\ DeleteExpiredSessions(now)
  /\ UNCHANGED <<now, users, claims, call, history>>

Tick ==
  /\ now < MaxTime
  /\ now' = now + 1
  /\ UNCHANGED <<storeVars, users, claims, call, history>>

Next ==
  \/ Tick \/ CleanupExpiredSessions
  \/ \E r \in Requests :
       \/ LoginLookup(r) \/ IssueSession(r) \/ IssueSessionFail(r)
       \/ RefreshLookup(r) \/ RefreshGetUser(r) \/ RefreshWrite(r) \/ RefreshFail(r)
       \/ LogoutLookup(r) \/ LogoutWrite(r) \/ LogoutFail(r)
       \/ LogoutAccessToken(r) \/ RevokeByID(r)
       \/ RevokeUserLookup(r) \/ RevokeUserWrite(r) \/ RevokeUserFail(r)
       \/ Authenticate(r) \/ AuthenticateUser(r) \/ AuthenticateFail(r) \/ Handled(r)
       \/ DeleteAccount(r) \/ DeleteRevoke(r) \/ DeleteUser(r)

Spec == Init /\ [][Next]_vars

(***************************************************************************)
(* Properties.                                                             *)
(***************************************************************************)
Live(s) == Stored(s) /\ ~byID[s].Revoked

\* The token index and the session table agree in both directions: a hash
\* leads to a session exactly if that session's current token is it.  Refresh
\* rotates the hash and Logout may write an older one back, each from a stale
\* copy (memory_store.go UpdateSession).
IndexConsistent ==
  \A g \in Grants, s \in SessionIDs :
    byTokenHashed[g] = s <=> Stored(s) /\ byID[s].RefreshTokenHash = g

\* A token can only lead to the session and the user it was minted for, and
\* the session expires when that token does, whichever request wrote last.
TokenMatchesSession ==
  \A s \in SessionIDs : Stored(s) =>
    LET g == byID[s].RefreshTokenHash IN
      /\ byID[s].ID = s
      /\ Minted(g) /\ claims[g].Sid = s /\ claims[g].Sub = byID[s].UserID
      /\ byID[s].ExpiresAt = RefreshExp(g)

\* What every call relies on when it reads a session: the state has its type,
\* the index leads to the right record, and the record is the token's own.
StoreConsistent == TypeOK /\ IndexConsistent /\ TokenMatchesSession

\* A refresh token that has been exchanged never opens a live session again,
\* although a Logout that overlaps the exchange may put its hash back.
SpentTokenIsDead ==
  \A g \in Grants : \A s \in SessionIDs :
    (\E h \in Grants : parent[h] = g) /\ byTokenHashed[g] = s => ~Live(s)

\* The presented refresh token is single-use: one exchange, one successor.
RefreshTokenSingleUse ==
  \A g, h \in Grants : parent[g] = parent[h] /\ parent[g] # NoGrant => g = h

\* Once a call has reported a session as revoked, it is not live again.
RevocationIsFinal == \A s \in revoked : ~Live(s)

\* The only way a revocation is lost is a Refresh that read the session
\* before it and writes its copy back after it.
RevocationFinalUnlessRaced == \A s \in revoked \ raced : ~Live(s)

\* What has been given up stays given up, whatever stale copy is written back:
\* a token by its exchange, a session by its revocation.
SpentOrRevokedIsDead == SpentTokenIsDead /\ RevocationFinalUnlessRaced

\* A session that Cleanup has deleted is not brought back by a Refresh or a
\* Logout that still holds a copy of it.
NoResurrection ==
  [][\A s \in SessionIDs : ~FreshID(s) /\ ~Stored(s) => ~Stored(s)']_vars

\* Cleanup never deletes a session whose current refresh token has not
\* expired: rotation moves the session's expiry along with the hash.
CleanupSparesUsable ==
  [][\A s \in SessionIDs :
       Live(s) /\ now <= RefreshExp(byID[s].RefreshTokenHash) => Stored(s)']_vars

\* A session leaves the table once, and only when no token of it is good any
\* more: Cleanup (service.go:1064) against a Refresh or Logout with a copy.
DeletionIsSound == NoResurrection /\ CleanupSparesUsable

\* Neither Refresh nor, with SessionCheckOn "allcalls", Authenticate gets past
\* its session check with a token of a session whose revocation is final.
RevokedIsRefused ==
  [][\A r \in Requests :
       /\ At(r, "idle")
       /\ call'[r].step = "refreshUser" \/ (AllCalls /\ call'[r].step = "authUser")
       => claims[call'[r].tok].Sid \notin revoked \ raced]_vars

\* DeleteAccount removes the identity last: no user is gone while one of the
\* sessions opened for it is live.
DeletedUserHasNoLiveSession ==
  \A s \in SessionIDs : Live(s) => byID[s].UserID \in users

\* The session store promises what TokenRotation says, the hashes of revoked
\* sessions counting as dead.
Rotation == INSTANCE TokenRotation WITH
  live <- [s \in SessionIDs |-> IF Live(s) THEN byID[s].RefreshTokenHash ELSE NoGrant],
  used <- {g \in Grants : Minted(g)}

\* Every step of the service is a step of TokenRotation or changes nothing in it.
RefinesTokenRotation == Rotation!Spec

=============================================================================
