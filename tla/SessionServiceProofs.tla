------------------------ MODULE SessionServiceProofs ------------------------
(***************************************************************************)
(* Proofs about SessionService, for any number of requests, sessions,      *)
(* grants and users and any configuration of the lifetimes.                *)
(*                                                                         *)
(* The properties are not inductive by themselves: what a request will     *)
(* write depends on the copy it holds.  CallOK says what is true of that   *)
(* copy however stale it is (it is a record the session once had, paired   *)
(* with the token it had then), and NoCopyOfRevoked that a Refresh can     *)
(* only undo a revocation which counted it as a race.                      *)
(* The promises that hold only for callers that take turns come last.      *)
(***************************************************************************)
EXTENDS SessionTurns, TLAPS

\* What a request's locals satisfy at each of its steps.
CallOK(c) ==
  /\ c \in Call
  /\ c.step \in {"refreshUser", "refreshWrite", "logoutWrite"} =>
       /\ c.tok \in Grants /\ Minted(c.tok)
       /\ c.session \in Session
       /\ c.session.RefreshTokenHash = c.tok
       /\ c.session.ID = claims[c.tok].Sid
       /\ c.session.UserID = claims[c.tok].Sub
       /\ c.session.ExpiresAt = RefreshExp(c.tok)
  /\ c.step \in {"refreshUser", "refreshWrite"} => ~c.session.Revoked
  /\ c.step = "revokeWrite" => c.session \in Session
  /\ c.step \in {"createSession", "deleteSessions"} => c.user \in Users
  /\ c.step = "authUser" => c.tok \in Grants

CallsOK == \A r \in Requests : CallOK(call[r])

\* Only minted tokens are exchanged, and only for minted ones.
ParentsMinted ==
  \A g \in Grants : parent[g] # NoGrant => Minted(g) /\ Minted(parent[g])

\* A session reported as revoked has existed, and unless it was raced no
\* Refresh holds a copy of it.
NoCopyOfRevoked ==
  /\ \A s \in revoked : ~FreshID(s)
  /\ \A s \in revoked \ raced : \A r \in Requests : ~HoldsCopy(r, s)

IInv ==
  /\ TypeOK
  /\ CallsOK
  /\ IndexConsistent
  /\ TokenMatchesSession
  /\ ParentsMinted
  /\ SpentTokenIsDead
  /\ RevocationFinalUnlessRaced
  /\ NoCopyOfRevoked

-----------------------------------------------------------------------------
(***************************************************************************)
(* Facts used throughout.                                                  *)
(***************************************************************************)

\* The entry-less values are not sessions or claims.
LEMMA NoneIsNoValue ==
  /\ NoSession \notin Session
  /\ NoClaims \notin Claims
  /\ \A x \in Session : x.ID # NoID
BY NoIDAssumption DEF Session, NoSession, Claims, NoClaims

\* A stored session is a Session, its id is its key, its token its own.
LEMMA StoredSession ==
  ASSUME IInv, NEW s \in SessionIDs, Stored(s)
  PROVE  /\ byID[s] \in Session
         /\ byID[s].ID = s
         /\ byID[s].RefreshTokenHash \in Grants
         /\ Minted(byID[s].RefreshTokenHash)
         /\ claims[byID[s].RefreshTokenHash].Sid = s
         /\ claims[byID[s].RefreshTokenHash].Sub = byID[s].UserID
         /\ byID[s].ExpiresAt = RefreshExp(byID[s].RefreshTokenHash)
         /\ byTokenHashed[byID[s].RefreshTokenHash] = s
         /\ ~FreshID(s)
<1>1. byID[s] \in Session
  BY DEF IInv, TypeOK, StoreTypeOK, Stored
<1>2. byID[s].RefreshTokenHash \in Grants
  BY <1>1 DEF Session
<1> QED
  BY <1>1, <1>2 DEF IInv, TokenMatchesSession, IndexConsistent, FreshID

\* What a lookup by hash returns is the stored session that holds the token.
LEMMA LookupByHash ==
  ASSUME IInv, NEW g \in Grants, GetSessionByRefreshTokenHash(g) # NoSession
  PROVE  \E s \in SessionIDs : /\ Stored(s)
                               /\ byTokenHashed[g] = s
                               /\ GetSessionByRefreshTokenHash(g) = byID[s]
                               /\ byID[s].RefreshTokenHash = g
<1>1. byTokenHashed[g] \in SessionIDs
  BY DEF IInv, TypeOK, StoreTypeOK, GetSessionByRefreshTokenHash
<1>2. GetSessionByRefreshTokenHash(g) = byID[byTokenHashed[g]]
  BY <1>1, NoIDAssumption DEF GetSessionByRefreshTokenHash
<1> QED
  BY <1>1, <1>2 DEF IInv, IndexConsistent, Stored

\* A step that only moves request r to a consistent next call.
LEMMA LocalStep ==
  ASSUME IInv, NEW r \in Requests, NEW next, Goto(r, next), Local,
         CallOK(next),
         \A s \in revoked \ raced :
           next.step \in {"refreshUser", "refreshWrite"} => next.session.ID # s
  PROVE  IInv'
<1> USE DEF Goto, Local, storeVars, history
<1>1. call' \in [Requests -> Call] /\ CallsOK'
  BY DEF IInv, TypeOK, CallsOK, CallOK, Minted, RefreshExp
<1>2. TypeOK'
  BY <1>1 DEF IInv, TypeOK, StoreTypeOK
<1>3. IndexConsistent' /\ TokenMatchesSession' /\ ParentsMinted'
  BY DEF IInv, IndexConsistent, TokenMatchesSession, ParentsMinted, Stored, Minted,
         RefreshExp
<1>4. SpentTokenIsDead' /\ RevocationFinalUnlessRaced'
  BY DEF IInv, SpentTokenIsDead, RevocationFinalUnlessRaced, Live, Stored
<1>5. NoCopyOfRevoked'
  BY DEF IInv, TypeOK, NoCopyOfRevoked, FreshID, HoldsCopy
<1> QED
  BY <1>1, <1>2, <1>3, <1>4, <1>5 DEF IInv

\* Ending a request, with an error or not, is such a step.
LEMMA FailStep ==
  ASSUME IInv, NEW r \in Requests, Fail(r)
  PROVE  IInv'
<1>1. CallOK(Idle) /\ Idle.step = "idle"
  BY DEF CallOK, Idle, Holding, Call, Steps
<1> QED
  BY <1>1, LocalStep DEF Fail, Finish

-----------------------------------------------------------------------------
(***************************************************************************)
(* The steps that write.                                                   *)
(***************************************************************************)

\* Minting grant g leaves the claims of every other grant alone.
LEMMA MintStep ==
  ASSUME IInv, NEW g \in Grants, NEW s \in SessionIDs, NEW u \in Users,
         IssueTokens(g, s, u)
  PROVE  /\ claims' \in [Grants -> Claims \cup {NoClaims}]
         /\ Minted(g)' /\ claims'[g].Sid = s /\ claims'[g].Sub = u /\ claims'[g].Iat = now
         /\ \A h \in Grants : Minted(h) => h # g /\ claims'[h] = claims[h] /\ Minted(h)'
         /\ \A h \in Grants : h # g => claims'[h] = claims[h]
<1>1. now \in Int /\ claims \in [Grants -> Claims \cup {NoClaims}]
  BY DEF IInv, TypeOK
<1>2. [Sid |-> s, Sub |-> u, Iat |-> now] \in Claims
  BY <1>1 DEF Claims
<1> QED
  BY <1>1, <1>2, NoneIsNoValue DEF IssueTokens, Minted

\* A grant g is minted and becomes the token of session s, whose record is
\* now rec; t is the grant that was exchanged for it, if any.  This is the
\* effect both of opening and of rotating a session.
LEMMA InstallStep ==
  ASSUME IInv, NEW r \in Requests, NEW s \in SessionIDs, NEW g \in Grants,
         NEW u \in Users, NEW rec \in Session, NEW t \in Grants \cup {NoGrant},
         IssueTokens(g, s, u),
         rec.ID = s, rec.UserID = u, rec.RefreshTokenHash = g,
         rec.ExpiresAt = now + RefreshTokenTTL,
         byID' = [byID EXCEPT ![s] = rec],
         byTokenHashed' = [h \in Grants |-> IF h = g THEN s
                                            ELSE IF byTokenHashed[h] = s THEN NoID
                                            ELSE byTokenHashed[h]],
         parent' = [parent EXCEPT ![g] = t],
         t # NoGrant => Minted(t) /\ claims[t].Sid = s,
         s \notin revoked \ raced,
         Finish(r), UNCHANGED <<now, users, revoked, raced>>
  PROVE  IInv'
<1>1. /\ claims' \in [Grants -> Claims \cup {NoClaims}]
      /\ Minted(g)' /\ claims'[g].Sid = s /\ claims'[g].Sub = u /\ claims'[g].Iat = now
      /\ \A h \in Grants : Minted(h) => h # g /\ claims'[h] = claims[h] /\ Minted(h)'
      /\ \A h \in Grants : h # g => claims'[h] = claims[h]
  BY MintStep
<1>2. rec # NoSession
  BY NoneIsNoValue
<1>3. TypeOK'
  BY <1>1 DEF IInv, TypeOK, StoreTypeOK, Finish, Goto, Idle, Holding, Call, Steps
<1>4. CallsOK'
  <2> SUFFICES ASSUME NEW q \in Requests PROVE CallOK(call[q])'
    BY DEF CallsOK
  <2>1. CASE q = r
    BY <2>1 DEF IInv, TypeOK, Finish, Goto, CallOK, Idle, Holding, Call, Steps
  <2>2. CASE q # r
    <3>1. call'[q] = call[q] /\ CallOK(call[q])
      BY <2>2 DEF IInv, TypeOK, CallsOK, Finish, Goto
    <3> QED
      BY <1>1, <3>1 DEF CallOK, RefreshExp
  <2> QED
    BY <2>1, <2>2
<1>5. \A x \in SessionIDs : Stored(x)' <=> (x = s \/ Stored(x))
  BY <1>2 DEF Stored, IInv, TypeOK, StoreTypeOK
<1>6. \A x \in SessionIDs : x # s => byID'[x] = byID[x]
  BY DEF IInv, TypeOK, StoreTypeOK
<1>7. byID'[s] = rec
  BY DEF IInv, TypeOK, StoreTypeOK
<1>8. \A x \in SessionIDs : Stored(x) => byID[x].RefreshTokenHash # g
  BY <1>1, StoredSession
<1>9. TokenMatchesSession'
  <2> SUFFICES ASSUME NEW x \in SessionIDs, Stored(x)'
               PROVE  /\ byID'[x].ID = x
                      /\ claims'[byID'[x].RefreshTokenHash] # NoClaims
                      /\ claims'[byID'[x].RefreshTokenHash].Sid = x
                      /\ claims'[byID'[x].RefreshTokenHash].Sub = byID'[x].UserID
                      /\ byID'[x].ExpiresAt
                           = claims'[byID'[x].RefreshTokenHash].Iat + RefreshTokenTTL
    BY DEF TokenMatchesSession, Minted, RefreshExp
  <2>1. CASE x = s
    BY <2>1, <1>1, <1>7 DEF Minted
  <2>2. CASE x # s
    BY <2>2, <1>1, <1>5, <1>6, StoredSession DEF RefreshExp, Minted
  <2> QED
    BY <2>1, <2>2
<1>10. IndexConsistent'
  <2> SUFFICES ASSUME NEW h \in Grants, NEW x \in SessionIDs
               PROVE  byTokenHashed'[h] = x <=> Stored(x)' /\ byID'[x].RefreshTokenHash = h
    BY DEF IndexConsistent
  <2>1. CASE x = s
    BY <2>1, <1>5, <1>7, NoIDAssumption
  <2>2. CASE x # s
    BY <2>2, <1>5, <1>6, <1>8, NoIDAssumption DEF IInv, IndexConsistent
  <2> QED
    BY <2>1, <2>2
<1>11. ParentsMinted'
  BY <1>1 DEF IInv, TypeOK, ParentsMinted
<1>12. SpentTokenIsDead'
  <2> SUFFICES ASSUME NEW h \in Grants, NEW x \in SessionIDs, NEW k \in Grants,
                      parent'[k] = h, byTokenHashed'[h] = x
               PROVE  ~Live(x)'
    BY DEF SpentTokenIsDead
  <2>1. byID'[x].RefreshTokenHash = h /\ Stored(x)'
    BY <1>10 DEF IndexConsistent
  <2>2. h # NoGrant /\ Minted(h) /\ h # g
    BY <1>1, ConfigAssumption DEF IInv, TypeOK, ParentsMinted
  <2>3. x # s
    BY <2>1, <2>2, <1>7
  <2>4. byID[x].RefreshTokenHash = h /\ Stored(x) /\ byTokenHashed[h] = x
    BY <2>1, <2>3, <1>5, <1>6 DEF IInv, IndexConsistent
  <2>5. k # g
    BY <2>2, <2>3, <2>4, StoredSession DEF IInv, TypeOK
  <2>6. parent[k] = h
    BY <2>5 DEF IInv, TypeOK
  <2> QED
    BY <2>3, <2>4, <2>6, <1>5, <1>6 DEF IInv, SpentTokenIsDead, Live
<1>13. RevocationFinalUnlessRaced'
  BY <1>5, <1>6 DEF IInv, TypeOK, RevocationFinalUnlessRaced, Live
<1>14. NoCopyOfRevoked'
  <2>1. \A x \in SessionIDs : ~FreshID(x) => ~FreshID(x)'
    BY <1>1, NoIDAssumption DEF FreshID, Minted, NoClaims
  <2>2. \A q \in Requests, x \in SessionIDs : HoldsCopy(q, x)' => HoldsCopy(q, x)
    BY DEF IInv, TypeOK, HoldsCopy, Finish, Goto, Idle, Holding
  <2> QED
    BY <2>1, <2>2 DEF IInv, TypeOK, NoCopyOfRevoked
<1> QED
  BY <1>3, <1>4, <1>9, <1>10, <1>11, <1>12, <1>13, <1>14 DEF IInv

\* Session s is written back as rec, marked revoked and holding token g, which
\* is one of its own; r moves on to next, which holds no copy.  This is the
\* effect of Logout and of every revocation by id.
LEMMA RevokeStep ==
  ASSUME IInv, NEW r \in Requests, NEW s \in SessionIDs, NEW rec \in Session, NEW next,
         Stored(s),
         rec.ID = s, rec.Revoked,
         Minted(rec.RefreshTokenHash),
         claims[rec.RefreshTokenHash].Sid = s,
         claims[rec.RefreshTokenHash].Sub = rec.UserID,
         rec.ExpiresAt = RefreshExp(rec.RefreshTokenHash),
         byID' = [byID EXCEPT ![s] = rec],
         byTokenHashed' = [h \in Grants |-> IF h = rec.RefreshTokenHash THEN s
                                            ELSE IF byTokenHashed[h] = s THEN NoID
                                            ELSE byTokenHashed[h]],
         ReportRevoked(s), CallOK(next), Goto(r, next),
         next.step \notin {"refreshUser", "refreshWrite"},
         UNCHANGED <<now, users, claims>>
  PROVE  IInv'
<1> DEFINE g == rec.RefreshTokenHash
<1>0. g \in Grants /\ rec # NoSession
  BY NoneIsNoValue DEF Session
<1>1. /\ revoked' = revoked \cup {s}
      /\ raced' \in {raced, raced \cup {s}}
      /\ (\E q \in Requests : HoldsCopy(q, s)) => s \in raced'
      /\ parent' = parent
  BY DEF ReportRevoked
<1>2. TypeOK'
  BY <1>1 DEF IInv, TypeOK, StoreTypeOK, Goto, CallOK
<1>3. CallsOK'
  BY DEF IInv, TypeOK, CallsOK, Goto, CallOK, Minted, RefreshExp
<1>4. \A x \in SessionIDs : Stored(x)' <=> Stored(x)
  BY <1>0 DEF Stored, IInv, TypeOK, StoreTypeOK
<1>5. /\ byID'[s] = rec
      /\ \A x \in SessionIDs : x # s => byID'[x] = byID[x]
  BY DEF IInv, TypeOK, StoreTypeOK
<1>6. TokenMatchesSession'
  BY <1>0, <1>4, <1>5 DEF IInv, TokenMatchesSession, Minted, RefreshExp
<1>7. \A x \in SessionIDs : x # s /\ Stored(x) => byID[x].RefreshTokenHash # g
  BY StoredSession
<1>8. IndexConsistent'
  <2> SUFFICES ASSUME NEW h \in Grants, NEW x \in SessionIDs
               PROVE  byTokenHashed'[h] = x <=> Stored(x)' /\ byID'[x].RefreshTokenHash = h
    BY DEF IndexConsistent
  <2>1. CASE x = s
    BY <2>1, <1>0, <1>4, <1>5, NoIDAssumption
  <2>2. CASE x # s
    BY <2>2, <1>0, <1>4, <1>5, <1>7, NoIDAssumption DEF IInv, IndexConsistent
  <2> QED
    BY <2>1, <2>2
<1>9. ParentsMinted'
  BY <1>1 DEF IInv, ParentsMinted, Minted
<1>10. SpentTokenIsDead'
  <2> SUFFICES ASSUME NEW h \in Grants, NEW x \in SessionIDs, NEW k \in Grants,
                      parent'[k] = h, byTokenHashed'[h] = x
               PROVE  ~Live(x)'
    BY DEF SpentTokenIsDead
  <2>1. CASE x = s
    BY <2>1, <1>5 DEF Live
  <2>2. CASE x # s
    <3>1. byTokenHashed[h] = x /\ byID'[x] = byID[x]
      BY <2>2, <1>0, <1>5, NoIDAssumption
    <3> QED
      BY <3>1, <1>1, <1>4 DEF IInv, SpentTokenIsDead, Live
  <2> QED
    BY <2>1, <2>2
<1>11. RevocationFinalUnlessRaced'
  <2> SUFFICES ASSUME NEW x \in revoked' \ raced' PROVE ~Live(x)'
    BY DEF RevocationFinalUnlessRaced
  <2>1. CASE x = s
    BY <2>1, <1>5 DEF Live
  <2>2. CASE x # s
    BY <2>2, <1>1, <1>4, <1>5 DEF IInv, TypeOK, RevocationFinalUnlessRaced, Live
  <2> QED
    BY <2>1, <2>2
<1>12. NoCopyOfRevoked'
  <2>1. \A x \in revoked' : ~FreshID(x)'
    BY <1>1, StoredSession DEF IInv, NoCopyOfRevoked, FreshID
  <2>2. \A q \in Requests, x \in SessionIDs : HoldsCopy(q, x)' => HoldsCopy(q, x)
    BY DEF IInv, TypeOK, HoldsCopy, Goto
  <2> QED
    BY <2>1, <2>2, <1>1 DEF IInv, TypeOK, NoCopyOfRevoked
<1> QED
  BY <1>2, <1>3, <1>6, <1>8, <1>9, <1>10, <1>11, <1>12 DEF IInv

\* The index after UpdateSession, whether or not the hash changed.
LEMMA UpdateIndex ==
  ASSUME IInv, NEW rec \in Session, UpdateSession(rec),
         Minted(rec.RefreshTokenHash) => claims[rec.RefreshTokenHash].Sid = rec.ID
  PROVE  /\ byID' = [byID EXCEPT ![rec.ID] = rec]
         /\ byTokenHashed' =
              [h \in Grants |-> IF h = rec.RefreshTokenHash THEN rec.ID
                                ELSE IF byTokenHashed[h] = rec.ID THEN NoID
                                ELSE byTokenHashed[h]]
<1> DEFINE s == rec.ID
           old == byID[s].RefreshTokenHash
           new == rec.RefreshTokenHash
<1>1. s \in SessionIDs /\ new \in Grants
  BY DEF Session
<1>2. Stored(s) /\ old \in Grants /\ byTokenHashed[old] = s
  BY <1>1, StoredSession DEF UpdateSession
<1>3. \A h \in Grants : byTokenHashed[h] = s <=> h = old
  BY <1>1, <1>2 DEF IInv, IndexConsistent
<1>4. byTokenHashed \in [Grants -> SessionIDs \cup {NoID}]
  BY DEF IInv, TypeOK, StoreTypeOK
<1>5. byTokenHashed' = IF old = new THEN byTokenHashed
                       ELSE [byTokenHashed EXCEPT ![old] = NoID, ![new] = s]
  BY DEF UpdateSession
<1>6. CASE old = new
  BY <1>6, <1>2, <1>3, <1>4, <1>5 DEF UpdateSession
<1>7. CASE old # new
  BY <1>7, <1>1, <1>2, <1>3, <1>4, <1>5 DEF UpdateSession
<1> QED
  BY <1>6, <1>7

\* RevokeSessionByID as a RevokeStep.
LEMMA RevokeByIDStep ==
  ASSUME IInv, NEW r \in Requests, NEW s \in SessionIDs, NEW next,
         RevokeSessionByID(s), ReportRevoked(s), CallOK(next), Goto(r, next),
         next.step \notin {"refreshUser", "refreshWrite"},
         UNCHANGED <<now, users, claims>>
  PROVE  IInv'
<1> DEFINE rec == [byID[s] EXCEPT !.Revoked = TRUE]
<1>1. Stored(s) /\ byID[s] \in Session
  BY StoredSession DEF RevokeSessionByID
<1>2. /\ rec \in Session /\ rec.ID = byID[s].ID /\ rec.Revoked
      /\ rec.UserID = byID[s].UserID
      /\ rec.RefreshTokenHash = byID[s].RefreshTokenHash
      /\ rec.ExpiresAt = byID[s].ExpiresAt
  BY <1>1 DEF Session
<1>3. byID' = [byID EXCEPT ![s] = rec] /\ byTokenHashed' = byTokenHashed
  BY DEF RevokeSessionByID
<1>4. byTokenHashed' = [h \in Grants |-> IF h = rec.RefreshTokenHash THEN s
                                         ELSE IF byTokenHashed[h] = s THEN NoID
                                         ELSE byTokenHashed[h]]
  BY <1>1, <1>2, <1>3 DEF IInv, TypeOK, StoreTypeOK, IndexConsistent
<1>5. /\ rec.ID = s /\ Minted(rec.RefreshTokenHash)
      /\ claims[rec.RefreshTokenHash].Sid = s
      /\ claims[rec.RefreshTokenHash].Sub = rec.UserID
      /\ rec.ExpiresAt = RefreshExp(rec.RefreshTokenHash)
  BY <1>1, <1>2, StoredSession
<1> HIDE DEF rec
<1> QED
  BY <1>1, <1>2, <1>3, <1>4, <1>5, RevokeStep

-----------------------------------------------------------------------------
(***************************************************************************)
(* One lemma per writing action.                                           *)
(***************************************************************************)
\* Opening a session (issueSession) installs its first token.
LEMMA IssueSessionStep ==
  ASSUME IInv, NEW r \in Requests, IssueSession(r)
  PROVE  IInv'
<1> DEFINE u == call[r].user
           t == NoGrant
           rec(s, g) == [ID |-> s, UserID |-> u, RefreshTokenHash |-> g,
                         ExpiresAt |-> now + RefreshTokenTTL, Revoked |-> FALSE]
<1>1. PICK s \in SessionIDs, g \in Grants :
        /\ At(r, "createSession")
        /\ FreshID(s)
        /\ IssueTokens(g, s, u)
        /\ CreateSession(rec(s, g))
        /\ Finish(r)
        /\ UNCHANGED <<now, users, history>>
  BY DEF IssueSession
<1>2. u \in Users
  BY <1>1 DEF IInv, CallsOK, CallOK, At
<1>3. /\ rec(s, g) \in Session /\ rec(s, g).ID = s /\ rec(s, g).UserID = u
      /\ rec(s, g).RefreshTokenHash = g /\ rec(s, g).ExpiresAt = now + RefreshTokenTTL
  BY <1>2, ConfigAssumption DEF IInv, TypeOK, Session
<1>4. ~Stored(s)
  BY <1>1, StoredSession
<1>5. /\ byID' = [byID EXCEPT ![s] = rec(s, g)]
      /\ byTokenHashed' = [byTokenHashed EXCEPT ![g] = s]
  BY <1>1 DEF CreateSession
<1>6. \A h \in Grants : byTokenHashed[h] # s
  BY <1>4 DEF IInv, IndexConsistent
<1>7. byTokenHashed' = [h \in Grants |-> IF h = g THEN s
                                         ELSE IF byTokenHashed[h] = s THEN NoID
                                         ELSE byTokenHashed[h]]
  BY <1>5, <1>6 DEF IInv, TypeOK, StoreTypeOK
<1>8. parent' = [parent EXCEPT ![g] = t]
  BY <1>1 DEF IInv, TypeOK, ParentsMinted, IssueTokens, history
<1>9. s \notin revoked \ raced
  BY <1>1 DEF IInv, NoCopyOfRevoked
<1>10. /\ t \in Grants \cup {NoGrant}
       /\ t # NoGrant => Minted(t) /\ claims[t].Sid = s
  OBVIOUS
<1>11. /\ IssueTokens(g, s, u) /\ Finish(r)
       /\ UNCHANGED <<now, users, revoked, raced>>
  BY <1>1 DEF history
<1>12. byID' = [byID EXCEPT ![s] = rec(s, g)]
  BY <1>5
<1> HIDE DEF rec, u, t
<1> QED
  BY <1>2, <1>3, <1>7, <1>8, <1>9, <1>10, <1>11, <1>12, InstallStep

\* The write of Refresh installs the new token over the session's current one.
LEMMA RefreshWriteStep ==
  ASSUME IInv, NEW r \in Requests, RefreshWrite(r)
  PROVE  IInv'
<1> DEFINE c == call[r]
           s == c.session.ID
<1> PICK g \in Grants :
      /\ At(r, "refreshWrite")
      /\ IssueTokens(g, c.session.ID, claims[c.tok].Sub)
      /\ UpdateSession(Rotated(c.session, g))
      /\ parent' = [parent EXCEPT ![g] = c.tok]
      /\ Finish(r)
      /\ UNCHANGED <<now, users, revoked, raced>>
  BY DEF RefreshWrite
<1> DEFINE rec == Rotated(c.session, g)
<1>1. /\ c.tok \in Grants /\ Minted(c.tok) /\ c.session \in Session
      /\ s = claims[c.tok].Sid /\ c.session.UserID = claims[c.tok].Sub
  BY DEF IInv, CallsOK, CallOK, At
<1>2. s \in SessionIDs /\ claims[c.tok].Sub \in Users
  BY <1>1 DEF Session
<1>3. /\ rec \in Session /\ rec.ID = s /\ rec.UserID = claims[c.tok].Sub
      /\ rec.RefreshTokenHash = g /\ rec.ExpiresAt = now + RefreshTokenTTL
  BY <1>1, ConfigAssumption DEF IInv, TypeOK, Session, Rotated
<1>4. ~Minted(g) /\ UpdateSession(rec)
  BY DEF IssueTokens
<1>5. HoldsCopy(r, s)
  BY DEF HoldsCopy, At
<1>6. s \notin revoked \ raced
  BY <1>5 DEF IInv, NoCopyOfRevoked
<1> HIDE DEF rec
<1>7. /\ byID' = [byID EXCEPT ![s] = rec]
      /\ byTokenHashed' = [h \in Grants |-> IF h = g THEN s
                                            ELSE IF byTokenHashed[h] = s THEN NoID
                                            ELSE byTokenHashed[h]]
  BY <1>3, <1>4, UpdateIndex
<1> HIDE DEF c, s
<1> QED
  BY <1>1, <1>2, <1>3, <1>6, <1>7, InstallStep DEF s

\* The write of Logout kills the session, even when its copy is stale.
LEMMA LogoutWriteStep ==
  ASSUME IInv, NEW r \in Requests, LogoutWrite(r)
  PROVE  IInv'
<1> DEFINE c == call[r]
           s == c.session.ID
           rec == [c.session EXCEPT !.Revoked = TRUE]
<1>1. /\ c.tok \in Grants /\ Minted(c.tok) /\ c.session \in Session
      /\ c.session.RefreshTokenHash = c.tok
      /\ s = claims[c.tok].Sid /\ c.session.UserID = claims[c.tok].Sub
      /\ c.session.ExpiresAt = RefreshExp(c.tok)
  BY DEF IInv, CallsOK, CallOK, At, LogoutWrite
<1>2. s \in SessionIDs
  BY <1>1 DEF Session
<1>3. /\ rec \in Session /\ rec.ID = s /\ rec.UserID = c.session.UserID /\ rec.Revoked
      /\ rec.RefreshTokenHash = c.tok /\ rec.ExpiresAt = c.session.ExpiresAt
  BY <1>1 DEF Session
<1>4. /\ UpdateSession(rec) /\ ReportRevoked(s) /\ Goto(r, Idle)
      /\ UNCHANGED <<now, users, claims>>
  BY DEF LogoutWrite, Finish
<1>5. CallOK(Idle) /\ Idle.step = "idle"
  BY DEF CallOK, Idle, Holding, Call, Steps
<1> HIDE DEF rec
<1>6. /\ byID' = [byID EXCEPT ![s] = rec]
      /\ byTokenHashed' = [h \in Grants |-> IF h = rec.RefreshTokenHash THEN s
                                            ELSE IF byTokenHashed[h] = s THEN NoID
                                            ELSE byTokenHashed[h]]
  BY <1>1, <1>3, <1>4, UpdateIndex
<1>7. Stored(s)
  BY <1>3, <1>4 DEF UpdateSession
<1> QED
  BY <1>1, <1>2, <1>3, <1>4, <1>5, <1>6, <1>7, RevokeStep

\* Cleanup removes whole sessions, each with its index entry.
LEMMA CleanupStep ==
  ASSUME IInv, CleanupExpiredSessions
  PROVE  IInv'
<1> DEFINE gone == Expired(now)
<1>1. /\ byID' = [s \in SessionIDs |-> IF s \in gone THEN NoSession ELSE byID[s]]
      /\ byTokenHashed' = [g \in Grants |->
           IF \E s \in gone : byID[s].RefreshTokenHash = g THEN NoID ELSE byTokenHashed[g]]
      /\ UNCHANGED <<now, users, claims, call, parent, revoked, raced>>
  BY DEF CleanupExpiredSessions, DeleteExpiredSessions, history
<1>2. gone \subseteq SessionIDs /\ \A s \in gone : Stored(s)
  BY DEF Expired
<1>3. TypeOK'
  BY <1>1 DEF IInv, TypeOK, StoreTypeOK
<1>4. CallsOK' /\ ParentsMinted' /\ NoCopyOfRevoked'
  BY <1>1 DEF IInv, CallsOK, CallOK, ParentsMinted, NoCopyOfRevoked, Minted, RefreshExp,
              FreshID, HoldsCopy
<1>5. \A s \in SessionIDs : Stored(s)' => s \notin gone /\ Stored(s) /\ byID'[s] = byID[s]
  BY <1>1 DEF Stored
<1>6. TokenMatchesSession'
  BY <1>1, <1>5 DEF IInv, TokenMatchesSession, Minted, RefreshExp
<1>7. RevocationFinalUnlessRaced'
  BY <1>1, <1>5 DEF IInv, TypeOK, RevocationFinalUnlessRaced, Live
<1>8. IndexConsistent'
  <2> SUFFICES ASSUME NEW g \in Grants, NEW s \in SessionIDs
               PROVE  byTokenHashed'[g] = s <=> Stored(s)' /\ byID'[s].RefreshTokenHash = g
    BY DEF IndexConsistent
  <2>1. byTokenHashed[g] = s <=> Stored(s) /\ byID[s].RefreshTokenHash = g
    BY DEF IInv, IndexConsistent
  <2>2. CASE s \in gone
    BY <2>1, <2>2, <1>1, <1>2, <1>5, NoIDAssumption
  <2>3. CASE s \notin gone
    <3>1. byID'[s] = byID[s] /\ (Stored(s)' <=> Stored(s))
      BY <2>3, <1>1 DEF Stored
    <3>2. ASSUME byTokenHashed[g] = s, NEW x \in gone, byID[x].RefreshTokenHash = g
          PROVE  FALSE
      BY <3>2, <2>3, <1>2 DEF IInv, IndexConsistent
    <3> HIDE DEF gone
    <3> QED
      BY <2>1, <3>1, <3>2, <1>1, NoIDAssumption
  <2> QED
    BY <2>2, <2>3
<1>9. SpentTokenIsDead'
  <2> SUFFICES ASSUME NEW g \in Grants, NEW s \in SessionIDs, NEW h \in Grants,
                      parent'[h] = g, byTokenHashed'[g] = s
               PROVE  ~Live(s)'
    BY DEF SpentTokenIsDead
  <2>1. byTokenHashed[g] = s
    BY <1>1, NoIDAssumption
  <2>2. ~Live(s)
    BY <2>1, <1>1 DEF IInv, SpentTokenIsDead
  <2> QED
    BY <2>2, <1>5 DEF Live
<1> QED
  BY <1>3, <1>4, <1>6, <1>7, <1>8, <1>9 DEF IInv

-----------------------------------------------------------------------------
(***************************************************************************)
(* The invariant.                                                          *)
(***************************************************************************)
\* The empty store and idle requests satisfy the invariant.
LEMMA InitIInv == Init => IInv
<1> SUFFICES ASSUME Init PROVE IInv
  OBVIOUS
<1>1. TypeOK
  BY DEF Init, StoreInit, TypeOK, StoreTypeOK, Idle, Holding, Call, Steps
<1>2. CallsOK
  BY <1>1 DEF Init, CallsOK, CallOK, Idle, Holding, TypeOK
<1>3. \A s \in SessionIDs : ~Stored(s)
  BY DEF Init, StoreInit, Stored
<1> QED
  BY <1>1, <1>2, <1>3, NoIDAssumption
  DEF Init, StoreInit, IInv, IndexConsistent, TokenMatchesSession, ParentsMinted,
      SpentTokenIsDead, RevocationFinalUnlessRaced, NoCopyOfRevoked

\* Lookup steps: the copy a request starts with is the session as stored.
LEMMA LookupStep ==
  ASSUME IInv, NEW r \in Requests,
         RefreshLookup(r) \/ LogoutLookup(r) \/ RevokeUserLookup(r)
  PROVE  IInv'
<1>1. CASE RefreshLookup(r)
  <2> PICK g \in Grants :
        /\ RefreshUsable(GetSessionByRefreshTokenHash(g), g)
        /\ Goto(r, Holding("refreshUser", g, GetSessionByRefreshTokenHash(g)))
        /\ Local
    BY <1>1 DEF RefreshLookup
  <2> PICK s \in SessionIDs : /\ Stored(s) /\ GetSessionByRefreshTokenHash(g) = byID[s]
                              /\ byID[s].RefreshTokenHash = g
    BY LookupByHash DEF RefreshUsable
  <2> DEFINE next == Holding("refreshUser", g, byID[s])
  <2>1. Goto(r, next)
    OBVIOUS
  <2>2. /\ byID[s] \in Session /\ byID[s].ID = s /\ Minted(g) /\ claims[g].Sid = s
        /\ claims[g].Sub = byID[s].UserID /\ byID[s].ExpiresAt = RefreshExp(g)
    BY StoredSession
  <2>3. ~byID[s].Revoked
    BY DEF RefreshUsable
  <2>4. CallOK(next)
    BY <2>2, <2>3 DEF CallOK, Call, Steps, Holding, ActingFor
  <2>5. s \notin revoked \ raced
    BY <2>3 DEF IInv, RevocationFinalUnlessRaced, Live
  <2>6. next.session.ID = s
    BY <2>2 DEF Holding
  <2> HIDE DEF next
  <2> QED
    BY <2>1, <2>4, <2>5, <2>6, LocalStep
<1>2. CASE LogoutLookup(r)
  <2> PICK g \in Grants :
        /\ GetSessionByRefreshTokenHash(g) # NoSession
        /\ Goto(r, Holding("logoutWrite", g, GetSessionByRefreshTokenHash(g)))
        /\ Local
    BY <1>2 DEF LogoutLookup
  <2> PICK s \in SessionIDs : /\ Stored(s) /\ GetSessionByRefreshTokenHash(g) = byID[s]
                              /\ byID[s].RefreshTokenHash = g
    BY LookupByHash
  <2> DEFINE next == Holding("logoutWrite", g, byID[s])
  <2>1. Goto(r, next)
    OBVIOUS
  <2>2. /\ byID[s] \in Session /\ byID[s].ID = s /\ Minted(g) /\ claims[g].Sid = s
        /\ claims[g].Sub = byID[s].UserID /\ byID[s].ExpiresAt = RefreshExp(g)
    BY StoredSession
  <2>3. CallOK(next) /\ next.step = "logoutWrite"
    BY <2>2 DEF CallOK, Call, Steps, Holding, ActingFor
  <2> HIDE DEF next
  <2> QED
    BY <2>1, <2>3, LocalStep
<1>3. CASE RevokeUserLookup(r)
  <2> PICK u \in Users : \E s \in ListSessionsForUser(u) :
        /\ Goto(r, ActingFor("revokeWrite", u, byID[s], {}))
        /\ Local
    BY <1>3 DEF RevokeUserLookup
  <2> PICK s \in ListSessionsForUser(u) :
        /\ Goto(r, ActingFor("revokeWrite", u, byID[s], {}))
        /\ Local
    OBVIOUS
  <2> DEFINE next == ActingFor("revokeWrite", u, byID[s], {})
  <2>1. Goto(r, next)
    OBVIOUS
  <2>2. byID[s] \in Session
    BY StoredSession DEF ListSessionsForUser
  <2>3. CallOK(next) /\ next.step = "revokeWrite"
    BY <2>2 DEF CallOK, Call, Steps, Holding, ActingFor
  <2> HIDE DEF next
  <2> QED
    BY <2>1, <2>3, LocalStep
<1> QED
  BY <1>1, <1>2, <1>3

\* The other steps that only move a request on.
LEMMA MoveStep ==
  ASSUME IInv, NEW r \in Requests,
         \/ LoginLookup(r) \/ RefreshGetUser(r) \/ Authenticate(r)
         \/ AuthenticateUser(r) \/ DeleteAccount(r)
  PROVE  IInv'
<1>1. CASE LoginLookup(r)
  <2> PICK u \in users : Goto(r, ActingFor("createSession", u, NoSession, {})) /\ Local
    BY <1>1 DEF LoginLookup
  <2> DEFINE next == ActingFor("createSession", u, NoSession, {})
  <2>1. Goto(r, next)
    OBVIOUS
  <2>2. CallOK(next) /\ next.step = "createSession"
    BY DEF CallOK, Call, Steps, Holding, ActingFor, IInv, TypeOK
  <2> HIDE DEF next
  <2> QED
    BY <2>1, <2>2, LocalStep
<1>2. CASE RefreshGetUser(r)
  <2> DEFINE next == [call[r] EXCEPT !.step = "refreshWrite"]
  <2>1. Goto(r, next) /\ Local /\ call[r].step = "refreshUser"
    BY <1>2 DEF RefreshGetUser, At
  <2>2. CallOK(call[r]) /\ call[r] \in Call
    BY DEF IInv, TypeOK, CallsOK
  <2>3. /\ next \in Call /\ next.step = "refreshWrite" /\ next.tok = call[r].tok
        /\ next.session = call[r].session
    BY <2>2 DEF Call, Steps
  <2>4. \A s \in revoked \ raced : next.session.ID # s
    BY <2>1, <2>3 DEF IInv, NoCopyOfRevoked, HoldsCopy
  <2> HIDE DEF next
  <2>5. CallOK(next)
    BY <2>1, <2>2, <2>3 DEF CallOK
  <2> QED
    BY <2>1, <2>4, <2>5, LocalStep
<1>3. CASE Authenticate(r)
  <2> PICK g \in Grants : Goto(r, Holding("authUser", g, NoSession)) /\ Local
    BY <1>3 DEF Authenticate
  <2> DEFINE next == Holding("authUser", g, NoSession)
  <2>1. Goto(r, next)
    OBVIOUS
  <2>2. CallOK(next) /\ next.step = "authUser"
    BY DEF CallOK, Call, Steps, Holding, ActingFor
  <2> HIDE DEF next
  <2> QED
    BY <2>1, <2>2, LocalStep
<1>4. CASE AuthenticateUser(r)
  <2> DEFINE next == [call[r] EXCEPT !.step = "admitted"]
  <2>1. Goto(r, next) /\ Local
    BY <1>4 DEF AuthenticateUser
  <2>2. next \in Call /\ next.step = "admitted"
    BY DEF IInv, TypeOK, Call, Steps
  <2> HIDE DEF next
  <2>3. CallOK(next)
    BY <2>2 DEF CallOK
  <2> QED
    BY <2>1, <2>2, <2>3, LocalStep
<1>5. CASE DeleteAccount(r)
  <2> PICK u \in users : /\ Goto(r, ActingFor("deleteSessions", u, NoSession, ListSessionsForUser(u)))
                         /\ Local
    BY <1>5 DEF DeleteAccount
  <2> DEFINE next == ActingFor("deleteSessions", u, NoSession, ListSessionsForUser(u))
  <2>1. Goto(r, next)
    OBVIOUS
  <2>2. CallOK(next) /\ next.step = "deleteSessions"
    BY DEF CallOK, Call, Steps, Holding, ActingFor, IInv, TypeOK, ListSessionsForUser
  <2> HIDE DEF next
  <2> QED
    BY <2>1, <2>2, LocalStep
<1> QED
  BY <1>1, <1>2, <1>3, <1>4, <1>5

\* Every step preserves the invariant.
LEMMA NextIInv == IInv /\ [Next]_vars => IInv'
<1> SUFFICES ASSUME IInv, [Next]_vars PROVE IInv'
  OBVIOUS
<1>0. CallOK(Idle) /\ Idle.step = "idle"
  BY DEF CallOK, Idle, Holding, Call, Steps
<1>1. CASE UNCHANGED vars
  <2> USE <1>1 DEF vars
  <2>1. TypeOK' /\ CallsOK'
    BY DEF IInv, TypeOK, StoreTypeOK, CallsOK, CallOK, Minted, RefreshExp
  <2>2. IndexConsistent' /\ TokenMatchesSession' /\ ParentsMinted'
    BY DEF IInv, IndexConsistent, TokenMatchesSession, ParentsMinted, Minted, RefreshExp,
           Stored
  <2>3. SpentTokenIsDead' /\ RevocationFinalUnlessRaced' /\ NoCopyOfRevoked'
    BY DEF IInv, SpentTokenIsDead, RevocationFinalUnlessRaced, NoCopyOfRevoked, Live,
           Stored, FreshID, HoldsCopy
  <2> QED
    BY <2>1, <2>2, <2>3 DEF IInv
<1>2. CASE Tick
  <2> USE <1>2 DEF Tick, storeVars, history
  <2>1. TypeOK' /\ CallsOK'
    BY DEF IInv, TypeOK, StoreTypeOK, CallsOK, CallOK, Minted, RefreshExp
  <2>2. IndexConsistent' /\ TokenMatchesSession' /\ ParentsMinted'
    BY DEF IInv, IndexConsistent, TokenMatchesSession, ParentsMinted, Minted, RefreshExp,
           Stored
  <2>3. SpentTokenIsDead' /\ RevocationFinalUnlessRaced' /\ NoCopyOfRevoked'
    BY DEF IInv, SpentTokenIsDead, RevocationFinalUnlessRaced, NoCopyOfRevoked, Live,
           Stored, FreshID, HoldsCopy
  <2> QED
    BY <2>1, <2>2, <2>3 DEF IInv
<1>3. CASE CleanupExpiredSessions
  BY <1>3, CleanupStep
<1>4. ASSUME NEW r \in Requests, LoginLookup(r) \/ RefreshGetUser(r) \/ Authenticate(r)
                                   \/ AuthenticateUser(r) \/ DeleteAccount(r)
      PROVE  IInv'
  BY <1>4, MoveStep
<1>5. ASSUME NEW r \in Requests, RefreshLookup(r) \/ LogoutLookup(r) \/ RevokeUserLookup(r)
      PROVE  IInv'
  BY <1>5, LookupStep
<1>6. ASSUME NEW r \in Requests, IssueSession(r) PROVE IInv'
  BY <1>6, IssueSessionStep
<1>7. ASSUME NEW r \in Requests, RefreshWrite(r) PROVE IInv'
  BY <1>7, RefreshWriteStep
<1>8. ASSUME NEW r \in Requests, LogoutWrite(r) PROVE IInv'
  BY <1>8, LogoutWriteStep
<1>9. ASSUME NEW r \in Requests,
             \/ IssueSessionFail(r) \/ RefreshFail(r) \/ LogoutFail(r)
             \/ RevokeUserFail(r) \/ AuthenticateFail(r) \/ Handled(r)
      PROVE  IInv'
  BY <1>9, FailStep DEF IssueSessionFail, RefreshFail, LogoutFail, RevokeUserFail,
                        AuthenticateFail, Handled, Fail
<1>10. ASSUME NEW r \in Requests, LogoutAccessToken(r) \/ RevokeByID(r) PROVE IInv'
  <2>1. PICK s \in SessionIDs : /\ RevokeSessionByID(s) /\ ReportRevoked(s)
                                /\ UNCHANGED <<now, users, claims, call>>
                                /\ At(r, "idle")
    <3>1. CASE RevokeByID(r)
      BY <3>1 DEF RevokeByID
    <3>2. CASE LogoutAccessToken(r)
      <4>1. PICK g \in Grants : /\ Minted(g) /\ RevokeSessionByID(claims[g].Sid)
                                /\ ReportRevoked(claims[g].Sid)
                                /\ UNCHANGED <<now, users, claims, call>>
                                /\ At(r, "idle")
        BY <3>2 DEF LogoutAccessToken, ParseAccess
      <4>2. claims[g].Sid \in SessionIDs
        BY <4>1 DEF IInv, TypeOK, Claims, Minted
      <4> QED
        BY <4>1, <4>2
    <3> QED
      BY <1>10, <3>1, <3>2
  <2> DEFINE next == call[r]
  <2>2. Goto(r, next) /\ CallOK(next) /\ next.step = "idle"
    BY <2>1 DEF IInv, TypeOK, CallsOK, Goto, At
  <2>3. UNCHANGED <<now, users, claims>>
    BY <2>1
  <2> HIDE DEF next
  <2> QED
    BY <2>1, <2>2, <2>3, RevokeByIDStep
<1>11. ASSUME NEW r \in Requests, RevokeUserWrite(r) PROVE IInv'
  <2> DEFINE s == call[r].session.ID
  <2>1. s \in SessionIDs
    BY <1>11 DEF RevokeUserWrite, IInv, CallsOK, CallOK, At, Session
  <2>2. /\ RevokeSessionByID(s) /\ ReportRevoked(s) /\ Goto(r, Idle)
        /\ UNCHANGED <<now, users, claims>>
    BY <1>11 DEF RevokeUserWrite, Finish
  <2> HIDE DEF s
  <2> QED
    BY <2>1, <2>2, <1>0, RevokeByIDStep
<1>12. ASSUME NEW r \in Requests, DeleteRevoke(r) PROVE IInv'
  <2>1. PICK s \in call[r].ids :
          /\ At(r, "deleteSessions")
          /\ IF Stored(s) THEN RevokeSessionByID(s) /\ ReportRevoked(s)
                          ELSE UNCHANGED <<storeVars, history>>
          /\ Goto(r, [call[r] EXCEPT !.ids = @ \ {s}])
          /\ UNCHANGED <<now, users, claims>>
    BY <1>12 DEF DeleteRevoke
  <2> DEFINE next == [call[r] EXCEPT !.ids = @ \ {s}]
  <2>2. CallOK(call[r]) /\ call[r] \in Call /\ call[r].step = "deleteSessions"
    BY <2>1 DEF IInv, TypeOK, CallsOK, At
  <2>3. /\ next \in Call /\ next.step = "deleteSessions" /\ next.user = call[r].user
        /\ s \in SessionIDs
    BY <2>2 DEF Call
  <2>4. Goto(r, next)
    BY <2>1
  <2> HIDE DEF next
  <2>5. CallOK(next)
    BY <2>2, <2>3 DEF CallOK
  <2>6. CASE Stored(s)
    BY <2>1, <2>3, <2>4, <2>5, <2>6, RevokeByIDStep
  <2>7. CASE ~Stored(s)
    <3>1. Local
      BY <2>1, <2>7 DEF Local
    <3> QED
      BY <3>1, <2>3, <2>4, <2>5, LocalStep
  <2> QED
    BY <2>6, <2>7
<1>13. ASSUME NEW r \in Requests, DeleteUser(r) PROVE IInv'
  <2> USE <1>13 DEF DeleteUser, Finish, Goto, storeVars, history
  <2>1. TypeOK' /\ CallsOK'
    BY <1>0 DEF IInv, TypeOK, StoreTypeOK, CallsOK, CallOK, Minted, RefreshExp
  <2>2. IndexConsistent' /\ TokenMatchesSession' /\ ParentsMinted'
    BY DEF IInv, IndexConsistent, TokenMatchesSession, ParentsMinted, Minted, RefreshExp,
           Stored
  <2>3. SpentTokenIsDead' /\ RevocationFinalUnlessRaced'
    BY DEF IInv, SpentTokenIsDead, RevocationFinalUnlessRaced, Live, Stored
  <2>4. NoCopyOfRevoked'
    BY <1>0 DEF IInv, TypeOK, NoCopyOfRevoked, FreshID, HoldsCopy
  <2> QED
    BY <2>1, <2>2, <2>3, <2>4 DEF IInv
<1> QED
  BY <1>1, <1>2, <1>3, <1>4, <1>5, <1>6, <1>7, <1>8, <1>9, <1>10, <1>11, <1>12, <1>13
  DEF Next

\* Type correctness of the session service and its store; the hash index and
\* the session table agree, and every session carries the identity and expiry
\* of its current token, whatever stale copies are written back
\* (UpdateSession).
THEOREM StoreIsConsistent == Spec => []StoreConsistent
<1>1. IInv => StoreConsistent
  BY DEF IInv, StoreConsistent
<1> QED
  BY <1>1, InitIInv, NextIInv, PTL DEF Spec

\* An exchanged refresh token never opens a live session again, and a revocation
\* that no Refresh overlapped is never lost.
THEOREM SpentAndRevokedAreDead == Spec => []SpentOrRevokedIsDead
<1>1. IInv => SpentOrRevokedIsDead
  BY DEF IInv, SpentOrRevokedIsDead
<1> QED
  BY <1>1, InitIInv, NextIInv, PTL DEF Spec

-----------------------------------------------------------------------------
(***************************************************************************)
(* What a step does to the session table, for the action properties and    *)
(* the refinement.                                                         *)
(***************************************************************************)

\* Every step opens or rotates one session with a fresh grant, or ends some
\* sessions (revoking or deleting them), or leaves table and claims alone.
Installs(s, g) ==
  /\ ~Minted(g)
  /\ byID'[s] # NoSession /\ ~byID'[s].Revoked /\ byID'[s].RefreshTokenHash = g
  /\ Stored(s) \/ FreshID(s)
  /\ \A x \in SessionIDs : x # s => byID'[x] = byID[x]
  /\ \A h \in Grants : Minted(h)' <=> Minted(h) \/ h = g

Ends(S) ==
  /\ \A x \in SessionIDs \ S : byID'[x] = byID[x]
  /\ \A x \in S : Stored(x) /\ ~Live(x)'
  /\ claims' = claims

\* Ending by revocation keeps the tombstone; only expired ones are deleted.
Spares(S) == \A x \in S : Stored(x)' \/ now > byID[x].ExpiresAt

\* A revocation by id ends one session and removes none.
LEMMA RevocationEnds ==
  ASSUME IInv, NEW s \in SessionIDs, RevokeSessionByID(s), claims' = claims
  PROVE  Ends({s}) /\ Spares({s})
<1>1. Stored(s) /\ byID[s] \in Session
  BY StoredSession DEF RevokeSessionByID
<1>2. byID' = [byID EXCEPT ![s] = [byID[s] EXCEPT !.Revoked = TRUE]]
  BY DEF RevokeSessionByID
<1>3. byID'[s] = [byID[s] EXCEPT !.Revoked = TRUE]
  BY <1>2 DEF IInv, TypeOK, StoreTypeOK
<1>4. [byID[s] EXCEPT !.Revoked = TRUE].Revoked /\ [byID[s] EXCEPT !.Revoked = TRUE] \in Session
  BY <1>1 DEF Session
<1>5. \A x \in SessionIDs \ {s} : byID'[x] = byID[x]
  BY <1>2 DEF IInv, TypeOK, StoreTypeOK
<1> QED
  BY <1>1, <1>3, <1>4, <1>5, NoneIsNoValue DEF Ends, Spares, Live, Stored

\* Every step installs a fresh token, or ends sessions, or changes no session.
LEMMA StepEffect ==
  ASSUME IInv, Next
  PROVE  \/ \E s \in SessionIDs, g \in Grants : Installs(s, g)
         \/ \E S \in SUBSET SessionIDs : Ends(S) /\ Spares(S)
<1>1. ASSUME NEW r \in Requests, IssueSession(r)
      PROVE  \E s \in SessionIDs, g \in Grants : Installs(s, g)
  <2>1. PICK s \in SessionIDs, g \in Grants :
          /\ At(r, "createSession")
          /\ FreshID(s)
          /\ IssueTokens(g, s, call[r].user)
          /\ byID' = [byID EXCEPT ![s] =
                        [ID |-> s, UserID |-> call[r].user, RefreshTokenHash |-> g,
                         ExpiresAt |-> now + RefreshTokenTTL, Revoked |-> FALSE]]
    BY <1>1 DEF IssueSession, CreateSession
  <2>2. /\ byID'[s] = [ID |-> s, UserID |-> call[r].user, RefreshTokenHash |-> g,
                       ExpiresAt |-> now + RefreshTokenTTL, Revoked |-> FALSE]
        /\ \A x \in SessionIDs : x # s => byID'[x] = byID[x]
    BY <2>1 DEF IInv, TypeOK, StoreTypeOK
  <2>3. byID'[s].ID = s
    BY <2>2
  <2>4. byID'[s] # NoSession
    BY <2>3, NoIDAssumption DEF NoSession
  <2>5. call[r].user \in Users
    BY <2>1 DEF IInv, CallsOK, CallOK, At
  <2>6. ~Minted(g) /\ \A h \in Grants : Minted(h)' <=> Minted(h) \/ h = g
    BY <2>1, <2>5, MintStep DEF IssueTokens, Minted
  <2> QED
    BY <2>1, <2>2, <2>4, <2>6 DEF Installs
<1>2. ASSUME NEW r \in Requests, RefreshWrite(r)
      PROVE  \E s \in SessionIDs, g \in Grants : Installs(s, g)
  <2> DEFINE c == call[r]
             s == c.session.ID
             u == claims[c.tok].Sub
  <2>1. PICK g \in Grants :
          /\ At(r, "refreshWrite")
          /\ IssueTokens(g, s, u)
          /\ UpdateSession(Rotated(c.session, g))
    BY <1>2 DEF RefreshWrite
  <2>2. /\ c.tok \in Grants /\ Minted(c.tok) /\ c.session \in Session /\ ~c.session.Revoked
        /\ u = c.session.UserID
    BY <2>1 DEF IInv, CallsOK, CallOK, At
  <2>3. s \in SessionIDs /\ u \in Users
    BY <2>2 DEF Session
  <2>4. Stored(s) /\ byID' = [byID EXCEPT ![s] = Rotated(c.session, g)]
    BY <2>1 DEF UpdateSession, Rotated
  <2>5. /\ byID'[s] = Rotated(c.session, g)
        /\ \A x \in SessionIDs : x # s => byID'[x] = byID[x]
    BY <2>3, <2>4 DEF IInv, TypeOK, StoreTypeOK
  <2>6. /\ byID'[s].ID = s /\ ~byID'[s].Revoked /\ byID'[s].RefreshTokenHash = g
    BY <2>2, <2>5 DEF Rotated
  <2>7. byID'[s] # NoSession
    BY <2>3, <2>6, NoIDAssumption DEF NoSession
  <2>8. ~Minted(g) /\ \A h \in Grants : Minted(h)' <=> Minted(h) \/ h = g
    <3> HIDE DEF s, u
    <3> QED
      BY <2>1, <2>3, MintStep DEF IssueTokens, Minted
  <2> QED
    BY <2>3, <2>4, <2>5, <2>6, <2>7, <2>8 DEF Installs
<1>3. ASSUME NEW r \in Requests, LogoutWrite(r)
      PROVE  \E S \in SUBSET SessionIDs : Ends(S) /\ Spares(S)
  <2> DEFINE c == call[r]
             s == c.session.ID
             rec == [c.session EXCEPT !.Revoked = TRUE]
  <2>1. c.session \in Session /\ s \in SessionIDs
    BY <1>3 DEF LogoutWrite, IInv, CallsOK, CallOK, At, Session
  <2>2. rec \in Session /\ rec.ID = s /\ rec.Revoked
    BY <2>1 DEF Session
  <2>3. Stored(s) /\ byID' = [byID EXCEPT ![s] = rec] /\ claims' = claims
    BY <1>3, <2>2 DEF LogoutWrite, UpdateSession
  <2> HIDE DEF rec
  <2>4. /\ byID'[s] = rec
        /\ \A x \in SessionIDs \ {s} : byID'[x] = byID[x]
    BY <2>1, <2>3 DEF IInv, TypeOK, StoreTypeOK
  <2>5. Ends({s}) /\ Spares({s})
    BY <2>1, <2>2, <2>3, <2>4, NoneIsNoValue DEF Ends, Spares, Live, Stored
  <2> QED
    BY <2>1, <2>5
<1>4. ASSUME NEW r \in Requests, LogoutAccessToken(r)
      PROVE  \E S \in SUBSET SessionIDs : Ends(S) /\ Spares(S)
  <2>1. PICK g \in Grants : Minted(g) /\ RevokeSessionByID(claims[g].Sid) /\ claims' = claims
    BY <1>4 DEF LogoutAccessToken, ParseAccess
  <2> DEFINE s == claims[g].Sid
  <2>2. s \in SessionIDs
    BY <2>1 DEF IInv, TypeOK, Claims, Minted
  <2> HIDE DEF s
  <2> QED
    BY <2>1, <2>2, RevocationEnds DEF s
<1>5. ASSUME NEW r \in Requests, RevokeByID(r)
      PROVE  \E S \in SUBSET SessionIDs : Ends(S) /\ Spares(S)
  <2>1. PICK s \in SessionIDs : RevokeSessionByID(s) /\ claims' = claims
    BY <1>5 DEF RevokeByID
  <2>2. Ends({s}) /\ Spares({s})
    BY <2>1, RevocationEnds
  <2> QED
    BY <2>2
<1>6. ASSUME NEW r \in Requests, RevokeUserWrite(r)
      PROVE  \E S \in SUBSET SessionIDs : Ends(S) /\ Spares(S)
  <2> DEFINE s == call[r].session.ID
  <2>1. s \in SessionIDs
    BY <1>6 DEF RevokeUserWrite, IInv, CallsOK, CallOK, At, Session
  <2>2. RevokeSessionByID(s) /\ claims' = claims
    BY <1>6 DEF RevokeUserWrite
  <2> HIDE DEF s
  <2>3. Ends({s}) /\ Spares({s})
    BY <2>1, <2>2, RevocationEnds
  <2> QED
    BY <2>1, <2>3
<1>7. ASSUME UNCHANGED <<byID, claims>>
      PROVE  \E S \in SUBSET SessionIDs : Ends(S) /\ Spares(S)
  <2>1. Ends({}) /\ Spares({})
    BY <1>7 DEF Ends, Spares
  <2> QED
    BY <2>1
<1>8. ASSUME NEW r \in Requests, DeleteRevoke(r)
      PROVE  \E S \in SUBSET SessionIDs : Ends(S) /\ Spares(S)
  <2>1. PICK s \in call[r].ids : /\ IF Stored(s) THEN RevokeSessionByID(s)
                                                 ELSE UNCHANGED storeVars
                                 /\ claims' = claims
    BY <1>8 DEF DeleteRevoke
  <2>2. s \in SessionIDs
    BY DEF IInv, TypeOK, Call
  <2>3. CASE Stored(s)
    BY <2>1, <2>2, <2>3, RevocationEnds
  <2>4. CASE ~Stored(s)
    BY <2>1, <2>4, <1>7 DEF storeVars
  <2> QED
    BY <2>3, <2>4
<1>9. ASSUME CleanupExpiredSessions
      PROVE  \E S \in SUBSET SessionIDs : Ends(S) /\ Spares(S)
  <2>1. /\ byID' = [s \in SessionIDs |-> IF s \in Expired(now) THEN NoSession ELSE byID[s]]
        /\ claims' = claims
    BY <1>9 DEF CleanupExpiredSessions, DeleteExpiredSessions
  <2>2. Ends(Expired(now)) /\ Spares(Expired(now))
    BY <2>1 DEF Ends, Spares, Expired, Live, Stored
  <2> QED
    BY <2>2 DEF Expired
<1> QED
  BY <1>1, <1>2, <1>3, <1>4, <1>5, <1>6, <1>7, <1>8, <1>9
  DEF Next, Tick, LoginLookup, IssueSessionFail, RefreshLookup, RefreshGetUser,
      RefreshFail, LogoutLookup, LogoutFail, RevokeUserLookup, RevokeUserFail,
      Authenticate, AuthenticateUser, AuthenticateFail, Handled, DeleteAccount,
      DeleteUser, Local, Fail, storeVars

\* A deleted session stays deleted: UpdateSession refuses to write it back.
THEOREM DeletedStaysDeleted == Spec => NoResurrection
<1> DEFINE Kept == \A s \in SessionIDs : ~FreshID(s) /\ ~Stored(s) => ~Stored(s)'
<1>1. ASSUME IInv, Next PROVE Kept
  BY <1>1, StepEffect DEF Installs, Ends, Stored
<1>2. ASSUME UNCHANGED vars PROVE Kept
  BY <1>2 DEF vars, Stored
<1>3. IInv /\ [Next]_vars => [Kept]_vars
  BY <1>1, <1>2
<1> QED
  BY <1>3, InitIInv, NextIInv, PTL DEF Spec, NoResurrection

\* Cleanup never takes a session whose refresh token is still good.
THEOREM CleanupIsSafe == Spec => CleanupSparesUsable
<1> DEFINE Spared == \A s \in SessionIDs :
             Live(s) /\ now <= RefreshExp(byID[s].RefreshTokenHash) => Stored(s)'
<1>1. ASSUME IInv, Next PROVE Spared
  <2> SUFFICES ASSUME NEW s \in SessionIDs, Live(s),
                      now <= RefreshExp(byID[s].RefreshTokenHash)
               PROVE  Stored(s)'
    OBVIOUS
  <2>1. Stored(s) /\ byID[s] # NoSession
    BY DEF Live, Stored
  <2>2. now <= byID[s].ExpiresAt /\ byID[s].ExpiresAt \in Int /\ now \in Int
    BY <1>1, <2>1, StoredSession DEF Session, IInv, TypeOK
  <2>3. ~(now > byID[s].ExpiresAt)
    BY <2>2
  <2>4. CASE \E x \in SessionIDs, g \in Grants : Installs(x, g)
    BY <2>1, <2>4 DEF Installs, Stored
  <2>5. CASE \E S \in SUBSET SessionIDs : Ends(S) /\ Spares(S)
    BY <2>1, <2>3, <2>5 DEF Ends, Spares, Stored
  <2> QED
    BY <1>1, <2>4, <2>5, StepEffect
<1>2. ASSUME UNCHANGED vars PROVE Spared
  BY <1>2 DEF vars, Stored, Live
<1>3. IInv /\ [Next]_vars => [Spared]_vars
  BY <1>1, <1>2
<1> QED
  BY <1>3, InitIInv, NextIInv, PTL DEF Spec, CleanupSparesUsable

\* Both at once: a deletion is never undone, and Cleanup makes none too early.
THEOREM DeletionsAreSound == Spec => DeletionIsSound
BY DeletedStaysDeleted, CleanupIsSafe DEF DeletionIsSound

\* A token of a session whose revocation is final passes neither the session
\* check of Refresh nor, in "allcalls" mode, that of Authenticate.
THEOREM RevokedSessionsAreRefused == Spec => RevokedIsRefused
<1> DEFINE Refused == \A r \in Requests :
             /\ At(r, "idle")
             /\ call'[r].step = "refreshUser" \/ (AllCalls /\ call'[r].step = "authUser")
             => claims[call'[r].tok].Sid \notin revoked \ raced
<1>1. ASSUME IInv, [Next]_vars PROVE Refused
  <2> SUFFICES ASSUME NEW r \in Requests, At(r, "idle"),
                      \/ call'[r].step = "refreshUser"
                      \/ AllCalls /\ call'[r].step = "authUser"
               PROVE  claims[call'[r].tok].Sid \notin revoked \ raced
    OBVIOUS
  <2>1. RefreshLookup(r) \/ (AllCalls /\ Authenticate(r))
    <3>1. \A q \in Requests : \A next : Goto(q, next) => call'[r] = IF q = r THEN next ELSE call[r]
      BY <1>1 DEF IInv, TypeOK, Goto
    <3>2. call'[r] # call[r] /\ call'[r].step # "idle"
      BY DEF At
    <3>3. PICK q \in Requests :
            \/ LoginLookup(q) \/ IssueSession(q) \/ IssueSessionFail(q)
            \/ RefreshLookup(q) \/ RefreshGetUser(q) \/ RefreshWrite(q) \/ RefreshFail(q)
            \/ LogoutLookup(q) \/ LogoutWrite(q) \/ LogoutFail(q)
            \/ LogoutAccessToken(q) \/ RevokeByID(q)
            \/ RevokeUserLookup(q) \/ RevokeUserWrite(q) \/ RevokeUserFail(q)
            \/ Authenticate(q) \/ AuthenticateUser(q) \/ AuthenticateFail(q) \/ Handled(q)
            \/ DeleteAccount(q) \/ DeleteRevoke(q) \/ DeleteUser(q)
      BY <1>1, <3>2 DEF Next, vars, Tick, CleanupExpiredSessions
    <3>4. q = r
      BY <3>1, <3>2, <3>3 DEF LoginLookup, IssueSession, IssueSessionFail, RefreshLookup,
        RefreshGetUser, RefreshWrite, RefreshFail, LogoutLookup, LogoutWrite, LogoutFail,
        LogoutAccessToken, RevokeByID, RevokeUserLookup, RevokeUserWrite, RevokeUserFail,
        Authenticate, AuthenticateUser, AuthenticateFail, Handled, DeleteAccount,
        DeleteRevoke, DeleteUser, Finish, Fail
    <3>5. /\ ~IssueSession(r) /\ ~IssueSessionFail(r) /\ ~RefreshGetUser(r)
          /\ ~RefreshWrite(r) /\ ~RefreshFail(r) /\ ~LogoutWrite(r) /\ ~LogoutFail(r)
          /\ ~RevokeUserWrite(r) /\ ~RevokeUserFail(r) /\ ~AuthenticateUser(r)
          /\ ~AuthenticateFail(r) /\ ~Handled(r) /\ ~DeleteRevoke(r) /\ ~DeleteUser(r)
      BY DEF At, IssueSession, IssueSessionFail, RefreshGetUser, RefreshWrite, RefreshFail,
        LogoutWrite, LogoutFail, RevokeUserWrite, RevokeUserFail, AuthenticateUser,
        AuthenticateFail, Handled, DeleteRevoke, DeleteUser
    <3>6. ~LogoutAccessToken(r) /\ ~RevokeByID(r)
      BY <3>2 DEF LogoutAccessToken, RevokeByID
    <3>7. ~LoginLookup(r) /\ ~LogoutLookup(r) /\ ~RevokeUserLookup(r) /\ ~DeleteAccount(r)
      <4>1. \A g, x : ~Goto(r, Holding("logoutWrite", g, x))
        BY <3>1 DEF Holding
      <4>2. \A t \in {"createSession", "revokeWrite", "deleteSessions"} : \A u, x, ids :
              ~Goto(r, ActingFor(t, u, x, ids))
        BY <3>1 DEF ActingFor
      <4>3. ~LoginLookup(r)
        BY <4>2 DEF LoginLookup
      <4>4. ~LogoutLookup(r)
        BY <4>1 DEF LogoutLookup
      <4>5. ~RevokeUserLookup(r)
        BY <4>2 DEF RevokeUserLookup
      <4>6. ~DeleteAccount(r)
        BY <4>2 DEF DeleteAccount
      <4> QED
        BY <4>3, <4>4, <4>5, <4>6
    <3>8. Authenticate(r) => AllCalls
      BY <3>1 DEF Authenticate, Holding
    <3> QED
      BY <3>3, <3>4, <3>5, <3>6, <3>7, <3>8
  <2>2. CASE RefreshLookup(r)
    <3>1. PICK g \in Grants :
            /\ RefreshUsable(GetSessionByRefreshTokenHash(g), g)
            /\ Goto(r, Holding("refreshUser", g, GetSessionByRefreshTokenHash(g)))
      BY <2>2 DEF RefreshLookup
    <3>2. PICK s \in SessionIDs : /\ Stored(s) /\ GetSessionByRefreshTokenHash(g) = byID[s]
      BY <1>1, <3>1, LookupByHash DEF RefreshUsable
    <3>3. byID[s].ID = s
      BY <1>1, <3>2, StoredSession
    <3>4. ~byID[s].Revoked /\ claims[g].Sid = s
      BY <3>1, <3>2, <3>3 DEF RefreshUsable
    <3>5. call'[r].tok = g
      BY <1>1, <3>1 DEF Goto, Holding, IInv, TypeOK
    <3> QED
      BY <1>1, <3>2, <3>4, <3>5 DEF IInv, RevocationFinalUnlessRaced, Live
  <2>3. CASE AllCalls /\ Authenticate(r)
    <3>1. PICK g \in Grants : /\ ParseAccess(g) /\ ValidateSessionForAccess(g)
                              /\ Goto(r, Holding("authUser", g, NoSession))
      BY <2>3 DEF Authenticate
    <3>2. call'[r].tok = g
      BY <1>1, <3>1 DEF Goto, Holding, IInv, TypeOK
    <3>3. byID[claims[g].Sid] # NoSession /\ ~byID[claims[g].Sid].Revoked
      BY <2>3, <3>1 DEF ValidateSessionForAccess, GetSessionByID
    <3> QED
      BY <1>1, <3>2, <3>3 DEF IInv, RevocationFinalUnlessRaced, Live, Stored
  <2> QED
    BY <2>1, <2>2, <2>3
<1>2. IInv /\ [Next]_vars => [Refused]_vars
  BY <1>1
<1> QED
  BY <1>2, InitIInv, NextIInv, PTL DEF Spec, RevokedIsRefused

-----------------------------------------------------------------------------
(***************************************************************************)
(* Refinement: a step that installs a grant is Issue, one that ends        *)
(* sessions is Kill.                                                       *)
(***************************************************************************)
LiveMap == [s \in SessionIDs |-> IF Live(s) THEN byID[s].RefreshTokenHash ELSE NoGrant]
UsedSet == {g \in Grants : Minted(g)}

\* The session service implements TokenRotation: a refresh token is live at
\* most once, for one session, which has no other live token.
THEOREM ImplementsTokenRotation == Spec => RefinesTokenRotation
<1>1. Init => Rotation!Init
  BY DEF Init, StoreInit, Rotation!Init, Live, Stored, Minted
<1>2. ASSUME IInv, Next PROVE [Rotation!Next]_<<LiveMap, UsedSet>>
  <2>1. ASSUME NEW s \in SessionIDs, NEW g \in Grants, Installs(s, g)
        PROVE  Rotation!Issue(s, g)
    <3>1. g \in Grants \ UsedSet /\ UsedSet' = UsedSet \cup {g}
      BY <2>1 DEF Installs, UsedSet
    <3>2. Live(s)' /\ byID'[s].RefreshTokenHash = g
      BY <2>1 DEF Installs, Live, Stored
    <3>3. \A x \in SessionIDs : x # s => LiveMap'[x] = LiveMap[x]
      BY <2>1 DEF Installs, LiveMap, Live, Stored
    <3>4. LiveMap'[s] = g
      BY <3>2 DEF LiveMap
    <3>5. LiveMap' = [LiveMap EXCEPT ![s] = g]
      BY <3>3, <3>4 DEF LiveMap
    <3> QED
      BY <3>1, <3>5 DEF Rotation!Issue, LiveMap, UsedSet
  <2>2. ASSUME NEW S \in SUBSET SessionIDs, Ends(S)
        PROVE  Rotation!Kill(S)
    <3>1. UsedSet' = UsedSet
      BY <2>2 DEF Ends, UsedSet, Minted
    <3>2. \A x \in SessionIDs : LiveMap'[x] = IF x \in S THEN NoGrant ELSE LiveMap[x]
      BY <2>2 DEF Ends, LiveMap, Live, Stored
    <3>3. LiveMap' = [x \in SessionIDs |-> IF x \in S THEN NoGrant ELSE LiveMap[x]]
      BY <3>2 DEF LiveMap
    <3> QED
      BY <3>1, <3>3 DEF Rotation!Kill, LiveMap, UsedSet
  <2> QED
    BY <1>2, <2>1, <2>2, StepEffect DEF Rotation!Next
<1>3. ASSUME UNCHANGED vars PROVE UNCHANGED <<LiveMap, UsedSet>>
  BY <1>3 DEF vars, LiveMap, UsedSet, Live, Stored, Minted
<1>4. IInv /\ [Next]_vars => [Rotation!Next]_<<LiveMap, UsedSet>>
  BY <1>2, <1>3
<1> QED
  BY <1>1, <1>4, InitIInv, NextIInv, PTL
  DEF Spec, RefinesTokenRotation, Rotation!Spec, LiveMap, UsedSet

-----------------------------------------------------------------------------
(***************************************************************************)
(* Callers that take turns (SessionTurns).  At most one request is under   *)
(* way, so what it has read is still so: the copy it will write back is    *)
(* the stored session, the user it opens a session for is in the store,    *)
(* and every live session of the user it deletes is still on its list.     *)
(***************************************************************************)
CopyIsCurrent(r) ==
  call[r].step \in {"refreshUser", "refreshWrite", "logoutWrite"} =>
    Stored(call[r].session.ID) /\ byID[call[r].session.ID] = call[r].session

OpensForUser(r) == At(r, "createSession") => call[r].user \in users

RevokesAll(r) ==
  At(r, "deleteSessions") =>
    \A s \in SessionIDs : Live(s) /\ byID[s].UserID = call[r].user => s \in call[r].ids

OneAtATime  == \A q, r \in Requests : ~At(q, "idle") /\ ~At(r, "idle") => q = r
CallCurrent == \A r \in Requests : CopyIsCurrent(r) /\ OpensForUser(r) /\ RevokesAll(r)
KeptInTurns == RefreshTokenSingleUse /\ RevocationIsFinal /\ DeletedUserHasNoLiveSession

InTurns  == OneAtATime /\ CallCurrent /\ KeptInTurns
TurnsInv == IInv /\ (~overlapped => InTurns)

\* A step that moves the only request under way to an idle one leaves nobody
\* with a copy.
LEMMA AllIdle ==
  ASSUME IInv, OneAtATime, NEW r \in Requests, ~At(r, "idle"), Finish(r)
  PROVE  \A q \in Requests : call'[q].step = "idle"
<1> SUFFICES ASSUME NEW q \in Requests PROVE call'[q].step = "idle"
  OBVIOUS
<1>1. Idle.step = "idle"
  BY DEF Idle, Holding
<1>2. call' = [call EXCEPT ![r] = Idle]
  BY DEF Finish, Goto
<1>3. CASE q = r
  BY <1>1, <1>2, <1>3 DEF IInv, TypeOK
<1>4. CASE q # r
  BY <1>2, <1>4 DEF OneAtATime, At, IInv, TypeOK
<1> QED
  BY <1>3, <1>4

\* Nobody under way, nothing to be current.
LEMMA IdleIsCurrent ==
  ASSUME \A q \in Requests : call'[q].step = "idle"
  PROVE  CallCurrent'
BY DEF CallCurrent, CopyIsCurrent, OpensForUser, RevokesAll, At

\* A step that only moves request r keeps the promises, and keeps what the
\* others know; r must know it at its next step.
LEMMA LocalTurn ==
  ASSUME IInv, InTurns, NEW r \in Requests, NEW next, Goto(r, next), Local,
         next.step \in {"refreshUser", "refreshWrite", "logoutWrite"} =>
           Stored(next.session.ID) /\ byID[next.session.ID] = next.session,
         next.step = "createSession" => next.user \in users,
         next.step = "deleteSessions" =>
           \A s \in SessionIDs : Live(s) /\ byID[s].UserID = next.user => s \in next.ids
  PROVE  CallCurrent' /\ KeptInTurns'
<1>1. KeptInTurns'
  BY DEF InTurns, KeptInTurns, Local, storeVars, history, RefreshTokenSingleUse,
         RevocationIsFinal, DeletedUserHasNoLiveSession, Live, Stored
<1>2. CallCurrent'
  <2> SUFFICES ASSUME NEW q \in Requests
               PROVE  CopyIsCurrent(q)' /\ OpensForUser(q)' /\ RevokesAll(q)'
    BY DEF CallCurrent
  <2>1. byID' = byID /\ users' = users /\ call' = [call EXCEPT ![r] = next]
    BY DEF Goto, Local, storeVars
  <2>2. CASE q = r
    <3>1. call'[q] = next
      BY <2>1, <2>2 DEF IInv, TypeOK
    <3> QED
      BY <3>1, <2>1 DEF CopyIsCurrent, OpensForUser, RevokesAll, At, Live, Stored
  <2>3. CASE q # r
    <3>1. call'[q] = call[q]
      BY <2>1, <2>3 DEF IInv, TypeOK
    <3>2. CopyIsCurrent(q) /\ OpensForUser(q) /\ RevokesAll(q)
      BY DEF InTurns, CallCurrent
    <3> QED
      BY <3>1, <3>2, <2>1 DEF CopyIsCurrent, OpensForUser, RevokesAll, At, Live, Stored
  <2> QED
    BY <2>2, <2>3
<1> QED
  BY <1>1, <1>2

\* What a step that opens or rotates one session must satisfy.
LEMMA InstallKeeps ==
  ASSUME IInv, InTurns, NEW s \in SessionIDs, NEW g \in Grants, ~Minted(g),
         byID'[s] # NoSession, byID'[s].UserID \in users, s \notin revoked,
         \A x \in SessionIDs : x # s => byID'[x] = byID[x],
         parent' = parent
           \/ \E t \in Grants : /\ parent' = [parent EXCEPT ![g] = t]
                                /\ \A h \in Grants : parent[h] # t,
         users' = users, revoked' = revoked
  PROVE  KeptInTurns'
<1>1. RefreshTokenSingleUse'
  <2>1. CASE parent' = parent
    BY <2>1 DEF InTurns, KeptInTurns, RefreshTokenSingleUse
  <2>2. ASSUME NEW t \in Grants, parent' = [parent EXCEPT ![g] = t],
               \A h \in Grants : parent[h] # t
        PROVE  RefreshTokenSingleUse'
    <3> SUFFICES ASSUME NEW h \in Grants, NEW k \in Grants, parent'[h] = parent'[k],
                        parent'[h] # NoGrant
                 PROVE  h = k
      BY DEF RefreshTokenSingleUse
    <3>1. \A x \in Grants : parent'[x] = IF x = g THEN t ELSE parent[x]
      BY <2>2 DEF IInv, TypeOK
    <3> QED
      BY <3>1, <2>2 DEF InTurns, KeptInTurns, RefreshTokenSingleUse
  <2> QED
    BY <2>1, <2>2
<1>2. RevocationIsFinal'
  BY DEF InTurns, KeptInTurns, RevocationIsFinal, Live, Stored, IInv, TypeOK
<1>3. DeletedUserHasNoLiveSession'
  BY DEF InTurns, KeptInTurns, DeletedUserHasNoLiveSession, Live, Stored
<1> QED
  BY <1>1, <1>2, <1>3 DEF KeptInTurns

\* Marking session s revoked keeps the promises.
LEMMA RevokeKeeps ==
  ASSUME IInv, InTurns, NEW s \in SessionIDs, byID'[s].Revoked,
         \A x \in SessionIDs : x # s => byID'[x] = byID[x],
         revoked' = revoked \cup {s}, parent' = parent, users' = users
  PROVE  KeptInTurns'
<1>1. RefreshTokenSingleUse'
  BY DEF InTurns, KeptInTurns, RefreshTokenSingleUse
<1>2. RevocationIsFinal'
  BY DEF InTurns, KeptInTurns, RevocationIsFinal, Live, Stored, IInv, TypeOK
<1>3. DeletedUserHasNoLiveSession'
  BY DEF InTurns, KeptInTurns, DeletedUserHasNoLiveSession, Live, Stored
<1> QED
  BY <1>1, <1>2, <1>3 DEF KeptInTurns

\* The store call by id, seen as such a step.
LEMMA ByIDMarks ==
  ASSUME IInv, NEW s \in SessionIDs, RevokeSessionByID(s), ReportRevoked(s)
  PROVE  /\ Stored(s) /\ byID'[s].Revoked
         /\ \A x \in SessionIDs : x # s => byID'[x] = byID[x]
         /\ revoked' = revoked \cup {s} /\ parent' = parent
<1>1. Stored(s) /\ byID[s] \in Session
  BY StoredSession DEF RevokeSessionByID
<1>2. byID' = [byID EXCEPT ![s] = [byID[s] EXCEPT !.Revoked = TRUE]]
  BY DEF RevokeSessionByID
<1>3. byID'[s] = [byID[s] EXCEPT !.Revoked = TRUE]
  BY <1>2 DEF IInv, TypeOK, StoreTypeOK
<1>4. [byID[s] EXCEPT !.Revoked = TRUE].Revoked
  BY <1>1 DEF Session
<1>5. \A x \in SessionIDs : x # s => byID'[x] = byID[x]
  BY <1>2 DEF IInv, TypeOK, StoreTypeOK
<1> QED
  BY <1>1, <1>3, <1>4, <1>5 DEF ReportRevoked

\* Opening a session: its id is new, so nobody has revoked it, and its user is
\* still in the store.
LEMMA IssueTurn ==
  ASSUME IInv, InTurns, NEW r \in Requests, IssueSession(r)
  PROVE  CallCurrent' /\ KeptInTurns'
<1> PICK s \in SessionIDs, g \in Grants :
      /\ At(r, "createSession")
      /\ FreshID(s)
      /\ IssueTokens(g, s, call[r].user)
      /\ CreateSession([ID |-> s, UserID |-> call[r].user, RefreshTokenHash |-> g,
                        ExpiresAt |-> now + RefreshTokenTTL, Revoked |-> FALSE])
      /\ Finish(r)
      /\ UNCHANGED <<now, users, history>>
  BY DEF IssueSession
<1>1. ~At(r, "idle") /\ call[r].user \in users
  BY DEF InTurns, CallCurrent, OpensForUser, At
<1>2. CallCurrent'
  BY <1>1, AllIdle, IdleIsCurrent DEF InTurns
<1>3. PICK rec : rec = [ID |-> s, UserID |-> call[r].user, RefreshTokenHash |-> g,
                        ExpiresAt |-> now + RefreshTokenTTL, Revoked |-> FALSE]
  OBVIOUS
<1>4. rec.ID = s /\ rec.UserID = call[r].user
  BY <1>3
<1>5. byID' = [byID EXCEPT ![s] = rec]
  BY <1>3 DEF CreateSession
<1>6. byID'[s] = rec /\ \A x \in SessionIDs : x # s => byID'[x] = byID[x]
  BY <1>5 DEF IInv, TypeOK, StoreTypeOK
<1>7. rec # NoSession
  BY <1>4, NoIDAssumption DEF NoSession
<1>8. s \notin revoked
  BY DEF IInv, NoCopyOfRevoked
<1>9. ~Minted(g) /\ parent' = parent /\ users' = users /\ revoked' = revoked
  BY DEF IssueTokens, history
<1>10. KeptInTurns'
  BY <1>1, <1>4, <1>6, <1>7, <1>8, <1>9, InstallKeeps
<1> QED
  BY <1>2, <1>10

\* Rotating one: the copy is the session as stored, live and with the presented
\* token its current one, which has therefore not been exchanged before.
LEMMA RefreshTurn ==
  ASSUME IInv, InTurns, NEW r \in Requests, RefreshWrite(r)
  PROVE  CallCurrent' /\ KeptInTurns'
<1> PICK g \in Grants :
      /\ At(r, "refreshWrite")
      /\ IssueTokens(g, call[r].session.ID, claims[call[r].tok].Sub)
      /\ UpdateSession(Rotated(call[r].session, g))
      /\ parent' = [parent EXCEPT ![g] = call[r].tok]
      /\ Finish(r)
      /\ UNCHANGED <<now, users, revoked, raced>>
  BY DEF RefreshWrite
<1>1. PICK c : c = call[r]
  OBVIOUS
<1>2. /\ c.tok \in Grants /\ c.session \in Session /\ c.session.RefreshTokenHash = c.tok
      /\ ~c.session.Revoked
  BY <1>1 DEF IInv, CallsOK, CallOK, At
<1>3. PICK s : s = c.session.ID
  OBVIOUS
<1>4. s \in SessionIDs
  BY <1>2, <1>3 DEF Session
<1>5. Stored(s) /\ byID[s] = c.session
  BY <1>1, <1>3 DEF InTurns, CallCurrent, CopyIsCurrent, At
<1>6. Live(s)
  BY <1>2, <1>5 DEF Live
<1>7. s \notin revoked
  BY <1>6 DEF InTurns, KeptInTurns, RevocationIsFinal
<1>8. c.session.UserID \in users
  BY <1>4, <1>5, <1>6 DEF InTurns, KeptInTurns, DeletedUserHasNoLiveSession
<1>9. byTokenHashed[c.tok] = s
  BY <1>2, <1>4, <1>5 DEF IInv, IndexConsistent
<1>10. \A h \in Grants : parent[h] # c.tok
  BY <1>2, <1>4, <1>6, <1>9 DEF IInv, SpentTokenIsDead
<1>11. PICK rec : rec = Rotated(c.session, g)
  OBVIOUS
<1>12. rec.ID = s /\ rec.UserID = c.session.UserID
  BY <1>3, <1>11 DEF Rotated
<1>13. UpdateSession(rec)
  BY <1>1, <1>11
<1>14. byID' = [byID EXCEPT ![s] = rec]
  BY <1>12, <1>13 DEF UpdateSession
<1>15. byID'[s] = rec /\ \A x \in SessionIDs : x # s => byID'[x] = byID[x]
  BY <1>4, <1>14 DEF IInv, TypeOK, StoreTypeOK
<1>16. rec # NoSession
  BY <1>4, <1>12, NoIDAssumption DEF NoSession
<1>17. ~Minted(g) /\ parent' = [parent EXCEPT ![g] = c.tok] /\ users' = users /\ revoked' = revoked
  BY <1>1 DEF IssueTokens
<1>18. KeptInTurns'
  BY <1>2, <1>4, <1>7, <1>8, <1>10, <1>12, <1>15, <1>16, <1>17, InstallKeeps
<1>19. ~At(r, "idle")
  BY DEF At
<1>20. CallCurrent'
  BY <1>19, AllIdle, IdleIsCurrent DEF InTurns
<1> QED
  BY <1>18, <1>20

\* The writes that revoke and end their request.
LEMMA RevokeTurn ==
  ASSUME IInv, InTurns, NEW r \in Requests, LogoutWrite(r) \/ RevokeUserWrite(r)
  PROVE  CallCurrent' /\ KeptInTurns'
<1>1. ~At(r, "idle") /\ Finish(r)
  BY DEF LogoutWrite, RevokeUserWrite, At
<1>2. CallCurrent'
  BY <1>1, AllIdle, IdleIsCurrent DEF InTurns
<1>3. PICK c : c = call[r]
  OBVIOUS
<1>4. c.session \in Session
  BY <1>3 DEF IInv, CallsOK, CallOK, At, LogoutWrite, RevokeUserWrite
<1>5. PICK s : s = c.session.ID
  OBVIOUS
<1>6. s \in SessionIDs
  BY <1>4, <1>5 DEF Session
<1>7. CASE LogoutWrite(r)
  <2>1. PICK rec : rec = [c.session EXCEPT !.Revoked = TRUE]
    OBVIOUS
  <2>2. rec.ID = s /\ rec.Revoked
    BY <2>1, <1>4, <1>5 DEF Session
  <2>3. UpdateSession(rec) /\ ReportRevoked(s) /\ users' = users
    BY <2>1, <1>3, <1>5, <1>7 DEF LogoutWrite
  <2>4. byID' = [byID EXCEPT ![s] = rec]
    BY <2>2, <2>3 DEF UpdateSession
  <2>5. byID'[s] = rec /\ \A x \in SessionIDs : x # s => byID'[x] = byID[x]
    BY <1>6, <2>4 DEF IInv, TypeOK, StoreTypeOK
  <2>6. revoked' = revoked \cup {s} /\ parent' = parent
    BY <2>3 DEF ReportRevoked
  <2>7. KeptInTurns'
    BY <1>6, <2>2, <2>3, <2>5, <2>6, RevokeKeeps
  <2> QED
    BY <1>2, <2>7
<1>8. CASE RevokeUserWrite(r)
  <2>1. RevokeSessionByID(s) /\ ReportRevoked(s) /\ users' = users
    BY <1>3, <1>5, <1>8 DEF RevokeUserWrite
  <2>2. KeptInTurns'
    BY <1>6, <2>1, ByIDMarks, RevokeKeeps
  <2> QED
    BY <1>2, <2>2
<1> QED
  BY <1>7, <1>8

\* The calls of a single step revoke beside nobody, or change no session.
LEMMA OneStepTurn ==
  ASSUME IInv, InTurns, NEW r \in Requests, LogoutAccessToken(r) \/ RevokeByID(r),
         ~Overlap
  PROVE  CallCurrent' /\ KeptInTurns'
<1>1. PICK s \in SessionIDs : RevokeSessionByID(s) /\ ReportRevoked(s)
  <2>1. CASE RevokeByID(r)
    BY <2>1 DEF RevokeByID
  <2>2. CASE LogoutAccessToken(r)
    <3> PICK g \in Grants : /\ ParseAccess(g)
                            /\ RevokeSessionByID(claims[g].Sid) /\ ReportRevoked(claims[g].Sid)
      BY <2>2 DEF LogoutAccessToken
    <3>1. claims[g].Sid \in SessionIDs
      BY DEF ParseAccess, Minted, IInv, TypeOK, Claims
    <3> QED
      BY <3>1
  <2> QED
    BY <2>1, <2>2
<1>2. users' = users /\ call' = call
  BY DEF LogoutAccessToken, RevokeByID
<1>3. KeptInTurns'
  BY <1>1, <1>2, ByIDMarks, RevokeKeeps
<1>4. CASE byID' = byID
  <2> SUFFICES ASSUME NEW q \in Requests
               PROVE  CopyIsCurrent(q)' /\ OpensForUser(q)' /\ RevokesAll(q)'
    BY <1>3 DEF CallCurrent
  <2>1. CopyIsCurrent(q) /\ OpensForUser(q) /\ RevokesAll(q)
    BY DEF InTurns, CallCurrent
  <2> QED
    BY <1>2, <1>4, <2>1 DEF CopyIsCurrent, OpensForUser, RevokesAll, At, Live, Stored
<1>5. CASE byID' # byID
  <2>1. Busy = {}
    BY <1>2, <1>5 DEF Overlap
  <2>2. \A q \in Requests : call'[q].step = "idle"
    BY <1>2, <2>1 DEF Busy, At
  <2>3. CallCurrent'
    BY <2>2, IdleIsCurrent
  <2> QED
    BY <1>3, <2>3
<1> QED
  BY <1>3, <1>4, <1>5

\* Cleanup runs while nobody is under way, and makes no session live.
LEMMA CleanupTurn ==
  ASSUME IInv, InTurns, CleanupExpiredSessions, ~Overlap
  PROVE  CallCurrent' /\ KeptInTurns'
<1>1. /\ byID' = [s \in SessionIDs |-> IF s \in Expired(now) THEN NoSession ELSE byID[s]]
      /\ UNCHANGED <<now, users, claims, call, parent, revoked, raced>>
  BY DEF CleanupExpiredSessions, DeleteExpiredSessions, history
<1>2. PICK x \in SessionIDs : x \in Expired(now)
  BY DEF CleanupExpiredSessions, Expired
<1>3. byID[x] # NoSession /\ byID'[x] = NoSession
  BY <1>1, <1>2 DEF Expired, Stored
<1>4. Busy = {}
  BY <1>1, <1>3 DEF Overlap
<1>5. CallCurrent'
  BY <1>1, <1>4, IdleIsCurrent DEF Busy, At
<1>6. \A s \in SessionIDs : Live(s)' => Live(s) /\ byID'[s] = byID[s]
  BY <1>1 DEF Live, Stored
<1>7. RefreshTokenSingleUse'
  BY <1>1 DEF InTurns, KeptInTurns, RefreshTokenSingleUse
<1>8. RevocationIsFinal'
  BY <1>1, <1>6 DEF InTurns, KeptInTurns, RevocationIsFinal, IInv, TypeOK
<1>9. DeletedUserHasNoLiveSession'
  BY <1>1, <1>6 DEF InTurns, KeptInTurns, DeletedUserHasNoLiveSession
<1> QED
  BY <1>5, <1>7, <1>8, <1>9 DEF KeptInTurns

\* DeleteAccount revokes one of its sessions, or finds it gone.
LEMMA DeleteRevokeTurn ==
  ASSUME IInv, InTurns, NEW r \in Requests, DeleteRevoke(r)
  PROVE  CallCurrent' /\ KeptInTurns'
<1> PICK s \in call[r].ids :
      /\ At(r, "deleteSessions")
      /\ IF Stored(s) THEN RevokeSessionByID(s) /\ ReportRevoked(s)
                      ELSE UNCHANGED <<storeVars, history>>
      /\ Goto(r, [call[r] EXCEPT !.ids = @ \ {s}])
      /\ UNCHANGED <<now, users, claims>>
  BY DEF DeleteRevoke
<1>1. call[r] \in Call
  BY DEF IInv, TypeOK
<1>2. s \in SessionIDs
  BY <1>1 DEF Call
<1>3. PICK next : next = [call[r] EXCEPT !.ids = @ \ {s}]
  OBVIOUS
<1>4. /\ next.step = "deleteSessions" /\ next.user = call[r].user
      /\ next.ids = call[r].ids \ {s}
  BY <1>1, <1>3 DEF Call, At
<1>5. call' = [call EXCEPT ![r] = next]
  BY <1>3 DEF Goto
<1>6. call'[r] = next /\ \A q \in Requests : q # r => call'[q] = call[q]
  BY <1>5 DEF IInv, TypeOK
<1>7. \A q \in Requests : q # r => call'[q].step = "idle"
  BY <1>6 DEF InTurns, OneAtATime, At
<1>8. \A x \in SessionIDs : Live(x)' => Live(x) /\ x # s /\ byID'[x] = byID[x]
  <2>1. CASE Stored(s)
    <3>1. byID'[s].Revoked /\ \A x \in SessionIDs : x # s => byID'[x] = byID[x]
      BY <1>2, <2>1, ByIDMarks
    <3> QED
      BY <3>1 DEF Live, Stored
  <2>2. CASE ~Stored(s)
    <3>1. byID' = byID
      BY <2>2 DEF storeVars
    <3> QED
      BY <2>2, <3>1 DEF Live, Stored
  <2> QED
    BY <2>1, <2>2
<1>9. CallCurrent'
  <2> SUFFICES ASSUME NEW q \in Requests
               PROVE  CopyIsCurrent(q)' /\ OpensForUser(q)' /\ RevokesAll(q)'
    BY DEF CallCurrent
  <2>1. CASE q # r
    BY <1>7, <2>1 DEF CopyIsCurrent, OpensForUser, RevokesAll, At
  <2>2. CASE q = r
    <3>1. CopyIsCurrent(q)' /\ OpensForUser(q)'
      BY <1>4, <1>6, <2>2 DEF CopyIsCurrent, OpensForUser, At
    <3>2. RevokesAll(r)
      BY DEF InTurns, CallCurrent
    <3>3. RevokesAll(q)'
      BY <1>4, <1>6, <1>8, <2>2, <3>2 DEF RevokesAll, At
    <3> QED
      BY <3>1, <3>3
  <2> QED
    BY <2>1, <2>2
<1>10. KeptInTurns'
  <2>1. CASE Stored(s)
    <3>1. RevokeSessionByID(s) /\ ReportRevoked(s) /\ users' = users
      BY <2>1
    <3> QED
      BY <1>2, <3>1, ByIDMarks, RevokeKeeps
  <2>2. CASE ~Stored(s)
    BY <2>2 DEF storeVars, history, InTurns, KeptInTurns, RefreshTokenSingleUse,
                RevocationIsFinal, DeletedUserHasNoLiveSession, Live, Stored
  <2> QED
    BY <2>1, <2>2
<1> QED
  BY <1>9, <1>10

\* The identity goes last: its list is empty, so no session of it is live.
LEMMA DeleteUserTurn ==
  ASSUME IInv, InTurns, NEW r \in Requests, DeleteUser(r)
  PROVE  CallCurrent' /\ KeptInTurns'
<1>1. ~At(r, "idle") /\ Finish(r)
  BY DEF DeleteUser, At
<1>2. CallCurrent'
  BY <1>1, AllIdle, IdleIsCurrent DEF InTurns
<1>3. \A s \in SessionIDs : Live(s) => byID[s].UserID # call[r].user
  BY DEF DeleteUser, InTurns, CallCurrent, RevokesAll
<1>4. byID' = byID /\ parent' = parent /\ revoked' = revoked /\ users' = users \ {call[r].user}
  BY DEF DeleteUser, storeVars, history
<1>5. RefreshTokenSingleUse' /\ RevocationIsFinal'
  BY <1>4 DEF InTurns, KeptInTurns, RefreshTokenSingleUse, RevocationIsFinal, Live, Stored
<1>6. DeletedUserHasNoLiveSession'
  BY <1>3, <1>4 DEF InTurns, KeptInTurns, DeletedUserHasNoLiveSession, Live, Stored
<1> QED
  BY <1>2, <1>5, <1>6 DEF KeptInTurns

\* Looking up, moving on and giving up: what the request now knows, it has just
\* read, or knew before.
LEMMA LocalTurns ==
  ASSUME IInv, InTurns, NEW r \in Requests,
         \/ LoginLookup(r) \/ IssueSessionFail(r)
         \/ RefreshLookup(r) \/ RefreshGetUser(r) \/ RefreshFail(r)
         \/ LogoutLookup(r) \/ LogoutFail(r)
         \/ RevokeUserLookup(r) \/ RevokeUserFail(r)
         \/ Authenticate(r) \/ AuthenticateUser(r) \/ AuthenticateFail(r) \/ Handled(r)
         \/ DeleteAccount(r)
  PROVE  CallCurrent' /\ KeptInTurns'
<1> DEFINE Knows(next) ==
      /\ next.step \in {"refreshUser", "refreshWrite", "logoutWrite"} =>
           Stored(next.session.ID) /\ byID[next.session.ID] = next.session
      /\ next.step = "createSession" => next.user \in users
      /\ next.step = "deleteSessions" =>
           \A s \in SessionIDs : Live(s) /\ byID[s].UserID = next.user => s \in next.ids
<1>0. SUFFICES \E next : Goto(r, next) /\ Local /\ Knows(next)
  BY LocalTurn
<1>1. ASSUME NEW g \in Grants, GetSessionByRefreshTokenHash(g) # NoSession
      PROVE  /\ Stored(GetSessionByRefreshTokenHash(g).ID)
             /\ byID[GetSessionByRefreshTokenHash(g).ID] = GetSessionByRefreshTokenHash(g)
  BY <1>1, LookupByHash, StoredSession
<1>2. Knows(Idle)
  BY DEF Idle, Holding
<1>3. CASE LoginLookup(r)
  <2> PICK u \in users : Goto(r, ActingFor("createSession", u, NoSession, {})) /\ Local
    BY <1>3 DEF LoginLookup
  <2>1. Knows(ActingFor("createSession", u, NoSession, {}))
    BY DEF ActingFor
  <2> QED
    BY <2>1
<1>4. CASE RefreshLookup(r)
  <2> PICK g \in Grants : /\ GetSessionByRefreshTokenHash(g) # NoSession
                          /\ Goto(r, Holding("refreshUser", g, GetSessionByRefreshTokenHash(g)))
                          /\ Local
    BY <1>4 DEF RefreshLookup, RefreshUsable
  <2>1. Knows(Holding("refreshUser", g, GetSessionByRefreshTokenHash(g)))
    BY <1>1 DEF Holding
  <2> QED
    BY <2>1
<1>5. CASE LogoutLookup(r)
  <2> PICK g \in Grants : /\ GetSessionByRefreshTokenHash(g) # NoSession
                          /\ Goto(r, Holding("logoutWrite", g, GetSessionByRefreshTokenHash(g)))
                          /\ Local
    BY <1>5 DEF LogoutLookup
  <2>1. Knows(Holding("logoutWrite", g, GetSessionByRefreshTokenHash(g)))
    BY <1>1 DEF Holding
  <2> QED
    BY <2>1
<1>6. CASE RevokeUserLookup(r)
  <2> PICK u \in Users, s \in SessionIDs : Goto(r, ActingFor("revokeWrite", u, byID[s], {})) /\ Local
    BY <1>6 DEF RevokeUserLookup, ListSessionsForUser
  <2>1. Knows(ActingFor("revokeWrite", u, byID[s], {}))
    BY DEF ActingFor
  <2> QED
    BY <2>1
<1>7. CASE RefreshGetUser(r) \/ AuthenticateUser(r)
  <2>1. PICK next : /\ Goto(r, next) /\ Local
                    /\ \/ At(r, "refreshUser") /\ next = [call[r] EXCEPT !.step = "refreshWrite"]
                       \/ next = [call[r] EXCEPT !.step = "admitted"]
    BY <1>7 DEF RefreshGetUser, AuthenticateUser
  <2>2. call[r] \in Call
    BY DEF IInv, TypeOK
  <2>3. \/ At(r, "refreshUser") /\ next.step = "refreshWrite" /\ next.session = call[r].session
        \/ next.step = "admitted"
    BY <2>1, <2>2 DEF Call
  <2>4. CopyIsCurrent(r)
    BY DEF InTurns, CallCurrent
  <2>5. Knows(next)
    BY <2>3, <2>4 DEF CopyIsCurrent, At
  <2> QED
    BY <2>1, <2>5
<1>8. CASE Authenticate(r)
  <2> PICK g \in Grants : Goto(r, Holding("authUser", g, NoSession)) /\ Local
    BY <1>8 DEF Authenticate
  <2>1. Knows(Holding("authUser", g, NoSession))
    BY DEF Holding
  <2> QED
    BY <2>1
<1>9. CASE DeleteAccount(r)
  <2> PICK u \in users : /\ Goto(r, ActingFor("deleteSessions", u, NoSession, ListSessionsForUser(u)))
                         /\ Local
    BY <1>9 DEF DeleteAccount
  <2>1. Knows(ActingFor("deleteSessions", u, NoSession, ListSessionsForUser(u)))
    BY DEF ActingFor, ListSessionsForUser, Live
  <2> QED
    BY <2>1
<1>10. CASE \/ IssueSessionFail(r) \/ RefreshFail(r) \/ LogoutFail(r) \/ RevokeUserFail(r)
            \/ AuthenticateFail(r) \/ Handled(r)
  <2>1. Goto(r, Idle) /\ Local
    BY <1>10 DEF IssueSessionFail, RefreshFail, LogoutFail, RevokeUserFail, AuthenticateFail,
                 Handled, Fail, Finish
  <2> QED
    BY <1>2, <2>1
<1> QED
  BY <1>3, <1>4, <1>5, <1>6, <1>7, <1>8, <1>9, <1>10

\* Every step of callers that still take turns.
LEMMA TurnStep ==
  ASSUME IInv, InTurns, Next, ~Overlap
  PROVE  InTurns'
<1>1. OneAtATime'
  BY DEF Overlap, Busy, OneAtATime, At
<1>2. ASSUME Tick PROVE CallCurrent' /\ KeptInTurns'
  <2>1. byID' = byID /\ users' = users /\ call' = call /\ parent' = parent /\ revoked' = revoked
    BY <1>2 DEF Tick, storeVars, history
  <2>2. CallCurrent'
    BY <2>1 DEF InTurns, CallCurrent, CopyIsCurrent, OpensForUser, RevokesAll, At, Live, Stored
  <2>3. KeptInTurns'
    BY <2>1 DEF InTurns, KeptInTurns, RefreshTokenSingleUse, RevocationIsFinal,
                DeletedUserHasNoLiveSession, Live, Stored
  <2> QED
    BY <2>2, <2>3
<1>3. ASSUME CleanupExpiredSessions PROVE CallCurrent' /\ KeptInTurns'
  BY <1>3, CleanupTurn
<1>4. ASSUME NEW r \in Requests,
             \/ LoginLookup(r) \/ IssueSession(r) \/ IssueSessionFail(r)
             \/ RefreshLookup(r) \/ RefreshGetUser(r) \/ RefreshWrite(r) \/ RefreshFail(r)
             \/ LogoutLookup(r) \/ LogoutWrite(r) \/ LogoutFail(r)
             \/ LogoutAccessToken(r) \/ RevokeByID(r)
             \/ RevokeUserLookup(r) \/ RevokeUserWrite(r) \/ RevokeUserFail(r)
             \/ Authenticate(r) \/ AuthenticateUser(r) \/ AuthenticateFail(r) \/ Handled(r)
             \/ DeleteAccount(r) \/ DeleteRevoke(r) \/ DeleteUser(r)
      PROVE  CallCurrent' /\ KeptInTurns'
  BY <1>4, LocalTurns, IssueTurn, RefreshTurn, RevokeTurn, OneStepTurn, DeleteRevokeTurn,
     DeleteUserTurn
<1>5. CallCurrent' /\ KeptInTurns'
  BY <1>2, <1>3, <1>4 DEF Next
<1> QED
  BY <1>1, <1>5 DEF InTurns

\* As long as requests come one after the other, a refresh token buys one
\* successor, a revocation is final, and a deleted account leaves no live
\* session behind (Refresh, Logout and DeleteAccount of service.go).
THEOREM TurnsAreSafe == TurnsSpec => []SafeInTurns
<1>1. TurnsInit => TurnsInv
  <2> SUFFICES ASSUME TurnsInit PROVE TurnsInv
    OBVIOUS
  <2>1. Init /\ IInv
    BY InitIInv DEF TurnsInit
  <2>2. \A q \in Requests : call[q].step = "idle"
    BY <2>1 DEF Init, Idle, Holding
  <2>3. OneAtATime /\ CallCurrent
    BY <2>2 DEF OneAtATime, CallCurrent, CopyIsCurrent, OpensForUser, RevokesAll, At
  <2>4. KeptInTurns
    BY <2>1 DEF Init, StoreInit, KeptInTurns, RefreshTokenSingleUse, RevocationIsFinal,
                DeletedUserHasNoLiveSession, Live, Stored
  <2> QED
    BY <2>1, <2>3, <2>4 DEF TurnsInv, InTurns
<1>2. TurnsInv /\ [TurnsNext]_<<vars, overlapped>> => TurnsInv'
  <2> SUFFICES ASSUME TurnsInv, [TurnsNext]_<<vars, overlapped>> PROVE TurnsInv'
    OBVIOUS
  <2>1. IInv /\ [Next]_vars
    BY DEF TurnsInv, TurnsNext
  <2>2. IInv'
    BY <2>1, NextIInv
  <2>3. CASE TurnsNext
    <3>1. ~overlapped' => ~overlapped /\ ~Overlap
      BY <2>3 DEF TurnsNext
    <3>2. ~overlapped' => InTurns'
      BY <2>1, <2>3, <3>1, TurnStep DEF TurnsInv, TurnsNext
    <3> QED
      BY <2>2, <3>2 DEF TurnsInv
  <2>4. CASE UNCHANGED <<vars, overlapped>>
    <3>1. overlapped' = overlapped /\ byID' = byID /\ users' = users /\ call' = call
          /\ parent' = parent /\ revoked' = revoked
      BY <2>4 DEF vars
    <3>2. InTurns => InTurns'
      BY <3>1 DEF InTurns, OneAtATime, CallCurrent, CopyIsCurrent, OpensForUser, RevokesAll, At,
                  KeptInTurns, RefreshTokenSingleUse, RevocationIsFinal,
                  DeletedUserHasNoLiveSession, Live, Stored
    <3> QED
      BY <2>2, <3>1, <3>2 DEF TurnsInv
  <2> QED
    BY <2>3, <2>4
<1>3. TurnsInv => SafeInTurns
  BY DEF TurnsInv, InTurns, KeptInTurns, SafeInTurns
<1> QED
  BY <1>1, <1>2, <1>3, PTL DEF TurnsSpec

=============================================================================
