------------------------ MODULE AccountServiceProofs ------------------------
(***************************************************************************)
(* Proofs about AccountService, for any number of requests, users,         *)
(* addresses, tokens and passwords, any features and any lifetimes.        *)
(*                                                                         *)
(* A request keeps no copy of a record, only the id and token it read, so  *)
(* what makes the properties inductive is little: CallOK ties the token a  *)
(* request redeems to the account and purpose it was sent for, Emptied     *)
(* says that no field outlives its account, and PendingSentTo that a       *)
(* pending address is one a change token was sent to.                      *)
(* The promises to callers that take turns follow.                         *)
(*                                                                         *)
(* The second part is about MailDelivery, which works on the same users    *)
(* and tokens: for any number of calls and deployments.                    *)
(***************************************************************************)
EXTENDS AccountTurns, MailDelivery, SequenceTheorems, TLAPS

\* What a request's locals satisfy at each of its steps.
CallOK(c) ==
  /\ c \in Call
  /\ c.step = "idle" => c.tok = NoToken
  /\ c.step = "create" => c.addr \in Emails
  /\ c.step \in {"send", "redeem", "clear", "mark"} \cup SettingSteps => c.user \in UserIDs
  /\ c.step \in {"redeem", "clear"} =>
       /\ c.tok \in Tokens /\ Known(c.tok)
       /\ issued[c.tok].kind = c.kind /\ issued[c.tok].user = c.user

CallsOK == \A r \in Requests : CallOK(call[r])

\* An id outside the table has been forgotten, one inside has been minted.
Emptied ==
  /\ \A u \in users : ~Fresh(u)
  /\ \A u \in UserIDs \ users : pending[u] = Blank
  /\ \A k \in Kinds, u \in UserIDs \ users : hash[k][u] = NoToken

SpentKnown == \A t \in spent : Known(t)

SentTo(u, e) ==
  \E t \in Tokens : Known(t) /\ issued[t].kind = "change"
                    /\ issued[t].user = u /\ issued[t].to = e

PendingSentTo == \A u \in users : pending[u] = Blank \/ SentTo(u, pending[u])

IInv ==
  /\ TypeOK
  /\ CallsOK
  /\ Emptied
  /\ EmailIndexConsistent
  /\ TokenIndexConsistent
  /\ TokenMatchesIssue
  /\ SpentKnown
  /\ SpentTokenRefused
  /\ PendingSentTo
  /\ AddressWasSentTo

-----------------------------------------------------------------------------
(***************************************************************************)
(* Facts used throughout.                                                  *)
(***************************************************************************)

\* "Not issued" is not an issue.
LEMMA NoIssueIsNone == NoIssue \notin Issue
  BY DEF NoIssue, Issue, Kinds

\* A known token carries the kind, user, address and expiry it was sent with.
LEMMA KnownIssue ==
  ASSUME TypeOK, NEW t \in Tokens, Known(t)
  PROVE  issued[t] \in Issue
  BY DEF TypeOK, Known

\* An outstanding token is held by exactly one user for one purpose.
LEMMA OutstandingOwner ==
  ASSUME IInv, NEW k \in Kinds, NEW u \in users, hash[k][u] # NoToken
  PROVE  /\ hash[k][u] \in Tokens /\ Known(hash[k][u])
         /\ issued[hash[k][u]].kind = k /\ issued[hash[k][u]].user = u
         /\ issued[hash[k][u]].exp = expiry[k][u]
<1>1. hash[k][u] \in Tokens
  BY DEF IInv, TypeOK, StoreTypeOK
<1> QED
  BY <1>1 DEF IInv, TokenMatchesIssue, Known

\* What a lookup by token returns holds that token.
LEMMA LookupByToken ==
  ASSUME IInv, NEW k \in Kinds, NEW t \in Tokens, NEW u \in GetUserByToken(k, t)
  PROVE  /\ u \in users /\ u \in UserIDs /\ hash[k][u] = t
         /\ Known(t) /\ issued[t].kind = k /\ issued[t].user = u
         /\ issued[t].exp = expiry[k][u]
<1>1. u \in users /\ u \in UserIDs
  BY DEF GetUserByToken, IInv, TypeOK, StoreTypeOK
<1>2. hash[k][u] = t
  <2>1. CASE k = "sms"
    BY <2>1 DEF GetUserByToken
  <2>2. CASE k # "sms"
    <3>1. k \in Indexed /\ byToken[k][t] = u
      BY <2>2 DEF GetUserByToken, Indexed
    <3> QED
      BY <3>1, <1>1 DEF IInv, TokenIndexConsistent
  <2> QED
    BY <2>1, <2>2
<1>3. t # NoToken
  BY NoneAssumption
<1> QED
  BY <1>1, <1>2, <1>3, OutstandingOwner

\* SentTo survives a step that only adds to what has been issued.
LEMMA SentToGrows ==
  ASSUME NEW u, NEW e, SentTo(u, e),
         \A t \in Tokens : Known(t) => Known(t)' /\ issued'[t] = issued[t]
  PROVE  SentTo(u, e)'
  BY DEF SentTo

-----------------------------------------------------------------------------
(***************************************************************************)
(* Steps that leave tokens, addresses and indexes alone.                   *)
(***************************************************************************)

\* What such a step leaves as it is.
QuietVars == <<users, email, pending, hash, expiry, byEmail, byToken,
               now, origin, issued, spent, reused>>

\* A step that moves request r on and changes at most passwords or the
\* verified flag.
LEMMA QuietStep ==
  ASSUME IInv, UNCHANGED QuietVars,
         password' \in [UserIDs -> Credentials], verified' \in [UserIDs -> BOOLEAN],
         NEW r \in Requests, NEW next, call' = [call EXCEPT ![r] = next], CallOK(next)
  PROVE  IInv'
<1> USE DEF QuietVars
<1>1. CallsOK'
  <2>1. \A q \in Requests : call'[q] = IF q = r THEN next ELSE call[q]
    BY DEF IInv, TypeOK
  <2>2. \A q \in Requests : CallOK(call'[q])
    BY <2>1 DEF IInv, CallsOK
  <2> QED
    BY <2>2 DEF CallsOK, CallOK, Known
<1>2. TypeOK'
  <2>1. next \in Call
    BY DEF CallOK
  <2> QED
    BY <2>1 DEF IInv, TypeOK, StoreTypeOK
<1>3. /\ Emptied' /\ EmailIndexConsistent' /\ TokenIndexConsistent' /\ TokenMatchesIssue'
      /\ SpentKnown' /\ PendingSentTo' /\ AddressWasSentTo'
  BY DEF IInv, Emptied, EmailIndexConsistent, TokenIndexConsistent, TokenMatchesIssue,
         SpentKnown, PendingSentTo, AddressWasSentTo, SentTo, Known, Fresh
<1>4. SpentTokenRefused'
  BY DEF IInv, SpentTokenRefused, Outstanding
<1> QED
  BY <1>1, <1>2, <1>3, <1>4 DEF IInv

\* The idle call, and a call moved to a later step of the same handler, are OK.
LEMMA IdleOK == CallOK(Idle)
  BY DEF CallOK, Idle, Call, Steps, Kinds, Addresses, SettingSteps

\* Ending a request changes nothing else.
LEMMA FailStep ==
  ASSUME IInv, NEW r \in Requests, Fail(r)
  PROVE  IInv'
  BY QuietStep, IdleOK DEF Fail, Finish, Goto, Local, storeVars, fields, history, QuietVars,
     IInv, TypeOK, StoreTypeOK

\* The steps that look something up, and those that end in an error.
LEMMA LookupStep ==
  ASSUME IInv, NEW r \in Requests,
         \/ RegisterLookup(r) \/ SendLookup(r) \/ RequestEmailChange(r) \/ RedeemLookup(r)
         \/ ChangePassword(r) \/ InitialPassword(r) \/ LoginVerify(r)
         \/ RegisterFail(r) \/ SendFail(r) \/ RedeemFail(r) \/ ClearFail(r)
         \/ SetPasswordFail(r)
  PROVE  IInv'
<1> USE DEF Local, storeVars, fields, history, QuietVars
<1>0. /\ password \in [UserIDs -> Credentials] /\ verified \in [UserIDs -> BOOLEAN]
      /\ users \subseteq UserIDs /\ email \in [UserIDs -> Addresses]
      /\ Features \subseteq Kinds
  BY AccountAssumption DEF IInv, TypeOK, StoreTypeOK
<1>1. CASE RegisterLookup(r)
  <2>1. PICK e \in Emails : Goto(r, Setting("create", NoID, e)) /\ Local
    BY <1>1 DEF RegisterLookup
  <2>2. CallOK(Setting("create", NoID, e))
    BY DEF CallOK, Setting, Call, Steps, Kinds, Addresses, SettingSteps
  <2> QED
    BY <1>0, <2>1, <2>2, QuietStep DEF Goto
<1>2. CASE SendLookup(r)
  <2>1. PICK k \in Features, u \in users : Goto(r, Sending(k, u, email[u])) /\ Local
    BY <1>2 DEF SendLookup
  <2>2. CallOK(Sending(k, u, email[u]))
    BY <1>0 DEF CallOK, Sending, Call, Steps, SettingSteps
  <2> QED
    BY <1>0, <2>1, <2>2, QuietStep DEF Goto
<1>3. CASE RequestEmailChange(r)
  <2>1. PICK u \in users, e \in Addresses : Goto(r, Sending("change", u, e)) /\ Local
    BY <1>3 DEF RequestEmailChange
  <2>2. CallOK(Sending("change", u, e))
    BY <1>0 DEF CallOK, Sending, Call, Steps, Kinds, SettingSteps
  <2> QED
    BY <1>0, <2>1, <2>2, QuietStep DEF Goto
<1>4. CASE RedeemLookup(r)
  <2>1. PICK k \in Features, t \in Tokens : \E u \in GetUserByToken(k, t), mark \in BOOLEAN :
          Goto(r, Redeeming(FirstStep(k), k, u, t, mark)) /\ Local
    BY <1>4 DEF RedeemLookup
  <2>2. PICK u \in GetUserByToken(k, t), mark \in BOOLEAN :
          Goto(r, Redeeming(FirstStep(k), k, u, t, mark)) /\ Local
    BY <2>1
  <2>3. k \in Kinds
    BY <1>0
  <2>4. u \in UserIDs /\ Known(t) /\ issued[t].kind = k /\ issued[t].user = u
    BY <2>3, LookupByToken
  <2>5. CallOK(Redeeming(FirstStep(k), k, u, t, mark))
    BY <2>3, <2>4 DEF CallOK, Redeeming, FirstStep, Call, Steps, Addresses, SettingSteps
  <2> QED
    BY <1>0, <2>2, <2>5, QuietStep DEF Goto
<1>5. CASE ChangePassword(r) \/ InitialPassword(r) \/ LoginVerify(r)
  <2>1. PICK step \in SettingSteps, u \in users : Goto(r, Setting(step, u, Blank)) /\ Local
    BY <1>5 DEF ChangePassword, InitialPassword, LoginVerify, SettingSteps
  <2>2. CallOK(Setting(step, u, Blank))
    BY <1>0 DEF CallOK, Setting, Call, Steps, Kinds, Addresses, SettingSteps
  <2> QED
    BY <1>0, <2>1, <2>2, QuietStep DEF Goto
<1>6. CASE \/ RegisterFail(r) \/ SendFail(r) \/ RedeemFail(r) \/ ClearFail(r)
           \/ SetPasswordFail(r)
  BY <1>6, FailStep DEF RegisterFail, SendFail, RedeemFail, ClearFail, SetPasswordFail
<1> QED
  BY <1>1, <1>2, <1>3, <1>4, <1>5, <1>6

\* A handler that has done what the token is for goes on to clear it.
LEMMA ToClearOK ==
  ASSUME IInv, NEW r \in Requests, At(r, "redeem")
  PROVE  CallOK([call[r] EXCEPT !.step = "clear"])
<1>1. CallOK(call[r])
  BY DEF IInv, CallsOK
<1> QED
  BY <1>1 DEF CallOK, At, Call, Steps, SettingSteps

\* The steps that set a password or the verified flag.
LEMMA CredentialStep ==
  ASSUME IInv, NEW r \in Requests,
         ResetPassword(r) \/ VerifyEmail(r) \/ MagicLinkMark(r) \/ SetPassword(r)
  PROVE  IInv'
<1> USE DEF storeVars, fields, history, QuietVars
<1>0. /\ password \in [UserIDs -> Credentials] /\ verified \in [UserIDs -> BOOLEAN]
  BY DEF IInv, TypeOK, StoreTypeOK
<1>1. CASE ResetPassword(r)
  <2>1. PICK p \in Passwords : UpdatePassword(call[r].user, p)
    BY <1>1 DEF ResetPassword
  <2>2. password' \in [UserIDs -> Credentials] /\ verified' = verified
    BY <1>0, <2>1 DEF UpdatePassword, Credentials
  <2> QED
    BY <1>0, <1>1, <2>1, <2>2, ToClearOK, QuietStep DEF ResetPassword, UpdatePassword, Goto
<1>2. CASE VerifyEmail(r)
  <2>1. verified' \in [UserIDs -> BOOLEAN] /\ password' = password
    BY <1>0, <1>2 DEF VerifyEmail, MarkEmailVerified
  <2> QED
    BY <1>0, <1>2, <2>1, ToClearOK, QuietStep DEF VerifyEmail, MarkEmailVerified, Goto
<1>3. CASE MagicLinkMark(r)
  <2>1. verified' \in [UserIDs -> BOOLEAN] /\ password' = password
    BY <1>0, <1>3 DEF MagicLinkMark, MarkEmailVerified
  <2> QED
    BY <1>0, <1>3, <2>1, IdleOK, QuietStep DEF MagicLinkMark, MarkEmailVerified, Finish, Goto
<1>4. CASE SetPassword(r)
  <2>1. PICK p \in Passwords : UpdatePassword(call[r].user, p)
    BY <1>4 DEF SetPassword
  <2>2. password' \in [UserIDs -> Credentials] /\ verified' = verified
    BY <1>0, <2>1 DEF UpdatePassword, Credentials
  <2> QED
    BY <1>0, <1>4, <2>1, <2>2, IdleOK, QuietStep DEF SetPassword, UpdatePassword, Finish, Goto
<1> QED
  BY <1>1, <1>2, <1>3, <1>4

-----------------------------------------------------------------------------
(***************************************************************************)
(* Steps that create, delete or move an account or its tokens.             *)
(***************************************************************************)

\* The requests stay OK when r ends or none moves, and no issue is forgotten.
LEMMA CallsStep ==
  ASSUME IInv, \A t \in Tokens : Known(t) => issued'[t] = issued[t],
         \/ call' = call
         \/ \E r \in Requests : call' = [call EXCEPT ![r] = Idle]
  PROVE  CallsOK' /\ call' \in [Requests -> Call]
<1>1. \A q \in Requests : call'[q] = call[q] \/ call'[q] = Idle
  BY DEF IInv, TypeOK
<1>2. \A q \in Requests : CallOK(call'[q])
  BY <1>1, IdleOK DEF IInv, CallsOK
<1>3. \A q \in Requests : CallOK(call[q])'
  <2> SUFFICES ASSUME NEW q \in Requests PROVE CallOK(call[q])'
    OBVIOUS
  <2>1. CallOK(call'[q])
    BY <1>2
  <2> QED
    BY <2>1 DEF CallOK, Known
<1>4. call' \in [Requests -> Call]
  BY IdleOK DEF IInv, TypeOK, CallOK
<1> QED
  BY <1>3, <1>4 DEF CallsOK

\* A new account: its address was free, its id is new and holds no token.
LEMMA CreateStep ==
  ASSUME IInv, NEW u \in UserIDs, NEW e \in Emails, NEW p \in Credentials,
         NEW v \in BOOLEAN, Fresh(u), CreateUser(u, e, p, v),
         origin' = [origin EXCEPT ![u] = e], UNCHANGED <<now, issued, spent, reused>>,
         \/ call' = call
         \/ \E r \in Requests : call' = [call EXCEPT ![r] = Idle]
  PROVE  IInv'
<1> USE DEF CreateUser
<1>1. CallsOK' /\ call' \in [Requests -> Call]
  BY CallsStep
<1>2. e \in Addresses /\ e # Blank
  BY AccountAssumption DEF Addresses
<1>3. TypeOK'
  BY <1>1, <1>2 DEF IInv, TypeOK, StoreTypeOK
<1>4. u \notin users /\ \A k \in Kinds : hash[k][u] = NoToken
  BY DEF IInv, Emptied
<1>5. /\ \A x \in UserIDs : email'[x] = IF x = u THEN e ELSE email[x]
      /\ \A x \in UserIDs : origin'[x] = IF x = u THEN e ELSE origin[x]
      /\ \A a \in Addresses : byEmail'[a] = IF a = e THEN u ELSE byEmail[a]
  BY <1>2 DEF IInv, TypeOK, StoreTypeOK
<1>6. users \subseteq UserIDs
  BY DEF IInv, TypeOK, StoreTypeOK
<1>7. Emptied'
  BY <1>2, <1>4, <1>5, <1>6 DEF IInv, Emptied, Fresh
<1>8. EmailIndexConsistent'
  <2>1. \A x \in UserIDs : x \in users => email[x] # e
    BY <1>2, NoneAssumption DEF IInv, EmailIndexConsistent
  <2> QED
    BY <1>2, <1>4, <1>5, <2>1 DEF IInv, EmailIndexConsistent
<1>9. TokenIndexConsistent'
  <2>1. \A k \in Indexed : k \in Kinds
    BY DEF Indexed
  <2> QED
    BY <1>4, <2>1, NoneAssumption DEF IInv, TokenIndexConsistent
<1>10. TokenMatchesIssue'
  BY <1>4 DEF IInv, TokenMatchesIssue
<1>11. SpentKnown' /\ SpentTokenRefused'
  BY <1>4, NoneAssumption DEF IInv, SpentKnown, SpentTokenRefused, Outstanding, Known, TypeOK
<1>12. PendingSentTo'
  <2>1. pending[u] = Blank
    BY DEF IInv, Emptied
  <2> QED
    BY <2>1 DEF IInv, PendingSentTo, SentTo, Known
<1>13. AddressWasSentTo'
  BY <1>5, <1>6 DEF IInv, AddressWasSentTo, Known
<1> QED
  BY <1>1, <1>3, <1>7, <1>8, <1>9, <1>10, <1>11, <1>12, <1>13 DEF IInv

\* The index of a kind without u's token.
LEMMA UnindexedEntry ==
  ASSUME IInv, NEW k \in Indexed, NEW u \in users
  PROVE  /\ Unindexed(k, u) \in [Tokens -> UserIDs \cup {NoID}]
         /\ \A t \in Tokens : Unindexed(k, u)[t] = IF hash[k][u] = t THEN NoID ELSE byToken[k][t]
<1>1. byToken[k] \in [Tokens -> UserIDs \cup {NoID}]
  BY DEF IInv, TypeOK, StoreTypeOK
<1>2. hash[k][u] \in Tokens \cup {NoToken}
  BY DEF IInv, TypeOK, StoreTypeOK, Indexed
<1> QED
  BY <1>1, <1>2, NoneAssumption DEF Unindexed

\* A deleted account leaves nothing behind in any index.
LEMMA DeleteStep ==
  ASSUME IInv, NEW u \in users, DeleteUser(u), UNCHANGED <<now, call, history>>
  PROVE  IInv'
<1> USE DEF DeleteUser, history
<1>1. CallsOK' /\ call' \in [Requests -> Call]
  BY CallsStep
<1>2. users \subseteq UserIDs /\ u \in UserIDs /\ email[u] \in Addresses
  BY DEF IInv, TypeOK, StoreTypeOK
<1>3. /\ byToken' \in [Indexed -> [Tokens -> UserIDs \cup {NoID}]]
      /\ \A k \in Indexed, t \in Tokens :
           byToken'[k][t] = IF hash[k][u] = t THEN NoID ELSE byToken[k][t]
  BY UnindexedEntry
<1>4. /\ hash' \in [Kinds -> [UserIDs -> Tokens \cup {NoToken}]]
      /\ expiry' \in [Kinds -> [UserIDs -> Int]]
      /\ \A k \in Kinds, x \in UserIDs :
           /\ hash'[k][x] = IF x = u THEN NoToken ELSE hash[k][x]
           /\ x # u => expiry'[k][x] = expiry[k][x]
  BY <1>2 DEF IInv, TypeOK, StoreTypeOK, NoExpiry
<1>5. TypeOK'
  BY <1>1, <1>2, <1>3, <1>4 DEF IInv, TypeOK, StoreTypeOK, Addresses, Credentials
<1>6. /\ \A x \in UserIDs : x # u => email'[x] = email[x] /\ pending'[x] = pending[x]
      /\ pending'[u] = Blank
      /\ \A a \in Addresses : byEmail'[a] = IF a = email[u] THEN NoID ELSE byEmail[a]
  BY <1>2 DEF IInv, TypeOK, StoreTypeOK
<1>7. Emptied'
  BY <1>2, <1>4, <1>6 DEF IInv, Emptied, Fresh
<1>8. EmailIndexConsistent'
  BY <1>2, <1>6, NoneAssumption DEF IInv, EmailIndexConsistent
<1>9. TokenIndexConsistent'
  <2> SUFFICES ASSUME NEW k \in Indexed, NEW t \in Tokens, NEW x \in UserIDs
               PROVE  byToken'[k][t] = x <=> x \in users' /\ hash'[k][x] = t
    BY DEF TokenIndexConsistent
  <2>1. k \in Kinds
    BY DEF Indexed
  <2>2. byToken[k][t] = x <=> x \in users /\ hash[k][x] = t
    BY DEF IInv, TokenIndexConsistent
  <2>3. byToken[k][t] = u <=> hash[k][u] = t
    BY <1>2 DEF IInv, TokenIndexConsistent
  <2> QED
    BY <1>3, <1>4, <2>1, <2>2, <2>3, NoneAssumption
<1>10. TokenMatchesIssue'
  BY <1>2, <1>4 DEF IInv, TokenMatchesIssue
<1>11. SpentKnown' /\ SpentTokenRefused'
  BY <1>2, <1>4 DEF IInv, SpentKnown, SpentTokenRefused, Outstanding, Known
<1>12. PendingSentTo' /\ AddressWasSentTo'
  BY <1>2, <1>6 DEF IInv, PendingSentTo, SentTo, AddressWasSentTo, Known
<1> QED
  BY <1>1, <1>5, <1>7, <1>8, <1>9, <1>10, <1>11, <1>12 DEF IInv

\* A new token replaces the outstanding one of its kind.
LEMMA SendStep ==
  ASSUME IInv, NEW r \in Requests, SendStore(r)
  PROVE  IInv'
<1> DEFINE k == call[r].kind
           u == call[r].user
           a == call[r].addr
           exp == now + TTL[k]
<1>1. PICK t \in Tokens :
        /\ At(r, "send") /\ ~Known(t)
        /\ UpdateToken(k, u, t, exp, a)
        /\ issued' = [issued EXCEPT ![t] = [kind |-> k, user |-> u, to |-> a, exp |-> exp]]
        /\ call' = [call EXCEPT ![r] = Idle]
        /\ UNCHANGED <<now, origin, spent, reused>>
  BY DEF SendStore, Finish, Goto
<1>2. k \in Kinds /\ u \in users /\ u \in UserIDs /\ a \in Addresses /\ exp \in Int
  <2>1. CallOK(call[r])
    BY DEF IInv, CallsOK
  <2>2. k \in Kinds /\ a \in Addresses
    BY <2>1 DEF CallOK, Call
  <2>3. TTL[k] \in Nat /\ now \in Nat
    BY <2>2, AccountAssumption DEF IInv, TypeOK
  <2> QED
    BY <1>1, <2>2, <2>3 DEF UpdateToken, IInv, TypeOK, StoreTypeOK
<1>3. [kind |-> k, user |-> u, to |-> a, exp |-> exp] \in Issue
  BY <1>2 DEF Issue
<1> HIDE DEF k, u, a, exp
<1>4. /\ issued' \in [Tokens -> Issue \cup {NoIssue}]
      /\ issued'[t] = [kind |-> k, user |-> u, to |-> a, exp |-> exp]
      /\ Known(t)'
      /\ \A x \in Tokens : x # t => issued'[x] = issued[x] /\ (Known(x)' <=> Known(x))
  BY <1>1, <1>3, NoIssueIsNone DEF IInv, TypeOK, Known
<1>5. \A x \in Tokens : Known(x) => Known(x)' /\ issued'[x] = issued[x]
  BY <1>1, <1>4
<1>6. CallsOK' /\ call' \in [Requests -> Call]
  BY <1>1, <1>5, CallsStep
<1>7. /\ hash' \in [Kinds -> [UserIDs -> Tokens \cup {NoToken}]]
      /\ expiry' \in [Kinds -> [UserIDs -> Int]]
      /\ hash'[k][u] = t /\ expiry'[k][u] = exp
      /\ \A l \in Kinds, x \in UserIDs : l # k \/ x # u =>
           hash'[l][x] = hash[l][x] /\ expiry'[l][x] = expiry[l][x]
  BY <1>1, <1>2 DEF UpdateToken, IInv, TypeOK, StoreTypeOK
<1>8. /\ byToken' \in [Indexed -> [Tokens -> UserIDs \cup {NoID}]]
      /\ k \in Indexed => \A x \in Tokens :
           byToken'[k][x] = IF x = t THEN u ELSE IF hash[k][u] = x THEN NoID ELSE byToken[k][x]
      /\ \A l \in Indexed : l # k => byToken'[l] = byToken[l]
  <2>1. CASE k \in Indexed
    <3>1. /\ Unindexed(k, u) \in [Tokens -> UserIDs \cup {NoID}]
          /\ \A x \in Tokens :
               Unindexed(k, u)[x] = IF hash[k][u] = x THEN NoID ELSE byToken[k][x]
      BY <1>2, <2>1, UnindexedEntry
    <3>2. byToken' = [byToken EXCEPT ![k] = [Unindexed(k, u) EXCEPT ![t] = u]]
      BY <1>1, <2>1 DEF UpdateToken
    <3> QED
      BY <1>2, <2>1, <3>1, <3>2 DEF IInv, TypeOK, StoreTypeOK
  <2>2. CASE k \notin Indexed
    BY <1>1, <2>2 DEF UpdateToken, IInv, TypeOK, StoreTypeOK
  <2> QED
    BY <2>1, <2>2
<1>9. /\ pending' \in [UserIDs -> Addresses]
      /\ \A x \in UserIDs : pending'[x] = pending[x] \/ (x = u /\ k = "change" /\ pending'[x] = a)
      /\ UNCHANGED <<users, email, password, verified, byEmail>>
  BY <1>1, <1>2 DEF UpdateToken, IInv, TypeOK, StoreTypeOK
<1>10. TypeOK'
  BY <1>1, <1>4, <1>6, <1>7, <1>8, <1>9 DEF IInv, TypeOK, StoreTypeOK
<1>11. Emptied'
  <2>1. \A x \in UserIDs \ users : pending'[x] = Blank
    BY <1>2, <1>9 DEF IInv, Emptied
  <2>2. \A l \in Kinds, x \in UserIDs \ users : hash'[l][x] = NoToken
    BY <1>2, <1>7 DEF IInv, Emptied
  <2> QED
    BY <1>1, <1>9, <2>1, <2>2 DEF IInv, Emptied, Fresh
<1>12. EmailIndexConsistent'
  BY <1>9 DEF IInv, EmailIndexConsistent
<1>13. \A l \in Kinds, x \in users : hash[l][x] # t
  BY <1>1, NoneAssumption, OutstandingOwner
<1>14. TokenIndexConsistent'
  <2> SUFFICES ASSUME NEW l \in Indexed, NEW x \in Tokens, NEW y \in UserIDs
               PROVE  byToken'[l][x] = y <=> y \in users' /\ hash'[l][y] = x
    BY DEF TokenIndexConsistent
  <2>1. l \in Kinds
    BY DEF Indexed
  <2>2. byToken[l][x] = y <=> y \in users /\ hash[l][y] = x
    BY DEF IInv, TokenIndexConsistent
  <2>3. byToken[l][x] = u <=> hash[l][u] = x
    BY <1>2 DEF IInv, TokenIndexConsistent
  <2> QED
    BY <1>2, <1>7, <1>8, <1>9, <1>13, <2>1, <2>2, <2>3, NoneAssumption
<1>15. TokenMatchesIssue'
  <2> SUFFICES ASSUME NEW l \in Kinds, NEW x \in users, hash'[l][x] # NoToken
               PROVE  /\ issued'[hash'[l][x]] # NoIssue
                      /\ issued'[hash'[l][x]].kind = l /\ issued'[hash'[l][x]].user = x
                      /\ issued'[hash'[l][x]].exp = expiry'[l][x]
    BY <1>9 DEF TokenMatchesIssue
  <2>1. x \in UserIDs
    BY DEF IInv, TypeOK, StoreTypeOK
  <2>2. CASE l = k /\ x = u
    BY <1>3, <1>4, <1>7, <2>2, NoIssueIsNone
  <2>3. CASE l # k \/ x # u
    <3>1. hash'[l][x] = hash[l][x] /\ expiry'[l][x] = expiry[l][x]
      BY <1>7, <2>1, <2>3
    <3>2. /\ hash[l][x] \in Tokens /\ Known(hash[l][x])
          /\ issued[hash[l][x]].kind = l /\ issued[hash[l][x]].user = x
          /\ issued[hash[l][x]].exp = expiry[l][x]
      BY <3>1, OutstandingOwner
    <3> QED
      BY <1>5, <3>1, <3>2 DEF Known
  <2> QED
    BY <2>2, <2>3
<1>16. SpentKnown'
  BY <1>1, <1>5 DEF IInv, SpentKnown, TypeOK
<1>17. SpentTokenRefused'
  <2>1. t \notin spent
    BY <1>1 DEF IInv, SpentKnown
  <2> SUFFICES ASSUME NEW s \in spent, NEW l \in Kinds, NEW x \in users
               PROVE  hash'[l][x] # s
    BY <1>1, <1>9 DEF SpentTokenRefused, Outstanding
  <2>2. x \in UserIDs /\ hash[l][x] # s
    BY DEF IInv, SpentTokenRefused, Outstanding, TypeOK, StoreTypeOK
  <2> QED
    BY <1>2, <1>7, <2>1, <2>2
<1>18. PendingSentTo'
  <2> SUFFICES ASSUME NEW x \in users PROVE pending'[x] = Blank \/ SentTo(x, pending[x])'
    BY <1>9 DEF PendingSentTo
  <2>1. x \in UserIDs
    BY DEF IInv, TypeOK, StoreTypeOK
  <2>2. CASE pending'[x] = pending[x]
    BY <1>5, <2>2 DEF IInv, PendingSentTo, SentTo
  <2>3. CASE x = u /\ k = "change" /\ pending'[x] = a
    BY <1>4, <2>3 DEF SentTo
  <2> QED
    BY <1>9, <2>1, <2>2, <2>3
<1>19. AddressWasSentTo'
  BY <1>1, <1>5, <1>9 DEF IInv, AddressWasSentTo
<1> QED
  BY <1>6, <1>10, <1>11, <1>12, <1>14, <1>15, <1>16, <1>17, <1>18, <1>19 DEF IInv

\* Clearing removes whatever token of the kind the user has outstanding; in
\* particular the one that was redeemed, if it is still there.
LEMMA ClearStep ==
  ASSUME IInv, NEW r \in Requests, RedeemClear(r)
  PROVE  IInv'
<1> DEFINE k == call[r].kind
           u == call[r].user
           t == call[r].tok
<1>1. /\ At(r, "clear") /\ ClearToken(k, u)
      /\ spent' = spent \cup {t}
      /\ reused' = IF t \in spent THEN reused \cup {t} ELSE reused
      /\ UNCHANGED <<now, origin, issued>>
  BY DEF RedeemClear
<1>2. /\ k \in Kinds /\ u \in users /\ u \in UserIDs
      /\ t \in Tokens /\ Known(t) /\ issued[t].kind = k /\ issued[t].user = u
  <2>1. CallOK(call[r])
    BY DEF IInv, CallsOK
  <2> QED
    BY <1>1, <2>1 DEF CallOK, Call, ClearToken, At
<1>3. CallsOK' /\ call' \in [Requests -> Call]
  <2>1. CASE call' = [call EXCEPT ![r] = Idle]
    BY <1>1, <2>1, CallsStep
  <2>2. CASE call' = [call EXCEPT ![r] = [call[r] EXCEPT !.step = "mark"]]
    <3> DEFINE next == [call[r] EXCEPT !.step = "mark"]
    <3>1. CallOK(call[r])
      BY DEF IInv, CallsOK
    <3>2. CallOK(next)
      BY <3>1, <1>1 DEF CallOK, Call, Steps, SettingSteps, At
    <3> HIDE DEF next
    <3>3. \A q \in Requests : call'[q] = call[q] \/ call'[q] = next
      BY <2>2 DEF IInv, TypeOK, next
    <3>4. \A q \in Requests : CallOK(call'[q])
      BY <3>2, <3>3 DEF IInv, CallsOK
    <3>5. call' \in [Requests -> Call]
      BY <2>2, <3>2 DEF IInv, TypeOK, CallOK, next
    <3> QED
      BY <1>1, <3>4, <3>5 DEF CallsOK, CallOK, Known
  <2> QED
    BY <2>1, <2>2 DEF RedeemClear, Goto, Finish
<1> HIDE DEF k, u, t
<1>4. /\ hash' \in [Kinds -> [UserIDs -> Tokens \cup {NoToken}]]
      /\ expiry' \in [Kinds -> [UserIDs -> Int]]
      /\ hash'[k][u] = NoToken
      /\ \A l \in Kinds, x \in UserIDs : l # k \/ x # u =>
           hash'[l][x] = hash[l][x] /\ expiry'[l][x] = expiry[l][x]
  BY <1>1, <1>2 DEF ClearToken, IInv, TypeOK, StoreTypeOK, NoExpiry
<1>5. /\ byToken' \in [Indexed -> [Tokens -> UserIDs \cup {NoID}]]
      /\ k \in Indexed => \A x \in Tokens :
           byToken'[k][x] = IF hash[k][u] = x THEN NoID ELSE byToken[k][x]
      /\ \A l \in Indexed : l # k => byToken'[l] = byToken[l]
  <2>1. CASE k \in Indexed
    <3>1. /\ Unindexed(k, u) \in [Tokens -> UserIDs \cup {NoID}]
          /\ \A x \in Tokens :
               Unindexed(k, u)[x] = IF hash[k][u] = x THEN NoID ELSE byToken[k][x]
      BY <1>2, <2>1, UnindexedEntry
    <3>2. byToken' = [byToken EXCEPT ![k] = Unindexed(k, u)]
      BY <1>1, <2>1 DEF ClearToken
    <3> QED
      BY <1>2, <2>1, <3>1, <3>2 DEF IInv, TypeOK, StoreTypeOK
  <2>2. CASE k \notin Indexed
    BY <1>1, <2>2 DEF ClearToken, IInv, TypeOK, StoreTypeOK
  <2> QED
    BY <2>1, <2>2
<1>6. /\ pending' \in [UserIDs -> Addresses]
      /\ \A x \in UserIDs : pending'[x] = pending[x] \/ pending'[x] = Blank
      /\ UNCHANGED <<users, email, password, verified, byEmail>>
  BY <1>1, <1>2 DEF ClearToken, IInv, TypeOK, StoreTypeOK, Addresses
<1>7. TypeOK'
  BY <1>1, <1>2, <1>3, <1>4, <1>5, <1>6 DEF IInv, TypeOK, StoreTypeOK
<1>8. Emptied'
  <2>1. \A x \in UserIDs \ users : pending'[x] = Blank
    BY <1>2, <1>6 DEF IInv, Emptied
  <2>2. \A l \in Kinds, x \in UserIDs \ users : hash'[l][x] = NoToken
    BY <1>2, <1>4 DEF IInv, Emptied
  <2> QED
    BY <1>1, <1>6, <2>1, <2>2 DEF IInv, Emptied, Fresh
<1>9. EmailIndexConsistent'
  BY <1>6 DEF IInv, EmailIndexConsistent
<1>10. TokenIndexConsistent'
  <2> SUFFICES ASSUME NEW l \in Indexed, NEW x \in Tokens, NEW y \in UserIDs
               PROVE  byToken'[l][x] = y <=> y \in users' /\ hash'[l][y] = x
    BY DEF TokenIndexConsistent
  <2>1. l \in Kinds
    BY DEF Indexed
  <2>2. byToken[l][x] = y <=> y \in users /\ hash[l][y] = x
    BY DEF IInv, TokenIndexConsistent
  <2>3. byToken[l][x] = u <=> hash[l][u] = x
    BY <1>2 DEF IInv, TokenIndexConsistent
  <2> QED
    BY <1>2, <1>4, <1>5, <1>6, <2>1, <2>2, <2>3, NoneAssumption
<1>11. TokenMatchesIssue'
  <2> SUFFICES ASSUME NEW l \in Kinds, NEW x \in users, hash'[l][x] # NoToken
               PROVE  /\ issued[hash'[l][x]] # NoIssue
                      /\ issued[hash'[l][x]].kind = l /\ issued[hash'[l][x]].user = x
                      /\ issued[hash'[l][x]].exp = expiry'[l][x]
    BY <1>1, <1>6 DEF TokenMatchesIssue
  <2>1. x \in UserIDs
    BY DEF IInv, TypeOK, StoreTypeOK
  <2>2. hash'[l][x] = hash[l][x] /\ expiry'[l][x] = expiry[l][x]
    BY <1>4, <2>1
  <2> QED
    BY <2>2, OutstandingOwner DEF Known
<1>12. SpentKnown'
  BY <1>1, <1>2 DEF IInv, SpentKnown, Known
<1>13. SpentTokenRefused'
  <2> SUFFICES ASSUME NEW s \in spent', NEW l \in Kinds, NEW x \in users
               PROVE  hash'[l][x] # s
    BY <1>6 DEF SpentTokenRefused, Outstanding
  <2>1. x \in UserIDs /\ s \in Tokens
    BY <1>1, <1>2 DEF IInv, TypeOK, StoreTypeOK
  <2>2. CASE l = k /\ x = u
    BY <1>4, <2>1, <2>2, NoneAssumption
  <2>3. CASE (l # k \/ x # u) /\ s \in spent
    BY <1>4, <2>1, <2>3 DEF IInv, SpentTokenRefused, Outstanding
  <2>4. CASE (l # k \/ x # u) /\ s = t
    <3>1. hash'[l][x] = hash[l][x]
      BY <1>4, <2>1, <2>4
    <3>2. hash[l][x] = t => l = k /\ x = u
      BY <1>2, NoneAssumption, OutstandingOwner
    <3> QED
      BY <2>4, <3>1, <3>2
  <2> QED
    BY <1>1, <2>2, <2>3, <2>4
<1>14. PendingSentTo' /\ AddressWasSentTo'
  BY <1>1, <1>6 DEF IInv, PendingSentTo, AddressWasSentTo, SentTo, Known, TypeOK, StoreTypeOK
<1> QED
  BY <1>3, <1>7, <1>8, <1>9, <1>10, <1>11, <1>12, <1>13, <1>14 DEF IInv

\* A confirmed change of address: the pending address was free.
LEMMA ConfirmStep ==
  ASSUME IInv, NEW r \in Requests, ConfirmEmailChange(r)
  PROVE  IInv'
<1> DEFINE u == call[r].user
<1>1. /\ At(r, "redeem") /\ ApplyEmailChange(u)
      /\ call' = [call EXCEPT ![r] = [call[r] EXCEPT !.step = "clear"]]
      /\ UNCHANGED <<now, origin, issued, spent, reused>>
  BY DEF ConfirmEmailChange, Goto, history
<1>2. u \in users /\ u \in UserIDs /\ email[u] \in Addresses /\ pending[u] \in Addresses
      /\ byEmail[pending[u]] = NoID /\ byEmail[email[u]] = u
  BY <1>1 DEF ApplyEmailChange, IInv, TypeOK, StoreTypeOK, EmailIndexConsistent
<1>3. CallsOK' /\ call' \in [Requests -> Call]
  <2> DEFINE next == [call[r] EXCEPT !.step = "clear"]
  <2>1. CallOK(next)
    BY <1>1, ToClearOK
  <2> HIDE DEF next
  <2>2. \A q \in Requests : call'[q] = call[q] \/ call'[q] = next
    BY <1>1 DEF IInv, TypeOK, next
  <2>3. \A q \in Requests : CallOK(call'[q])
    BY <2>1, <2>2 DEF IInv, CallsOK
  <2>4. call' \in [Requests -> Call]
    BY <1>1, <2>1 DEF IInv, TypeOK, CallOK, next
  <2> QED
    BY <1>1, <2>3, <2>4 DEF CallsOK, CallOK, Known
<1> HIDE DEF u
<1>4. pending[u] # email[u]
  BY <1>2, NoneAssumption
<1>5. /\ email' \in [UserIDs -> Addresses] /\ pending' \in [UserIDs -> Addresses]
      /\ byEmail' \in [Addresses -> UserIDs \cup {NoID}]
      /\ \A x \in UserIDs : email'[x] = IF x = u THEN pending[u] ELSE email[x]
      /\ \A x \in UserIDs : pending'[x] = IF x = u THEN Blank ELSE pending[x]
      /\ \A e \in Addresses : byEmail'[e] = IF e = pending[u] THEN u
                                             ELSE IF e = email[u] THEN NoID ELSE byEmail[e]
      /\ UNCHANGED <<users, password, verified, hash, expiry, byToken>>
  BY <1>1, <1>2, <1>4 DEF ApplyEmailChange, IInv, TypeOK, StoreTypeOK, Addresses
<1>6. TypeOK'
  BY <1>1, <1>3, <1>5 DEF IInv, TypeOK, StoreTypeOK
<1>7. Emptied'
  BY <1>1, <1>2, <1>5 DEF IInv, Emptied, Fresh
<1>8. EmailIndexConsistent'
  <2> SUFFICES ASSUME NEW e \in Addresses, NEW x \in UserIDs
               PROVE  byEmail'[e] = x <=> x \in users /\ email'[x] = e
    BY <1>5 DEF EmailIndexConsistent
  <2>1. byEmail[e] = x <=> x \in users /\ email[x] = e
    BY DEF IInv, EmailIndexConsistent
  <2>2. byEmail[pending[u]] = x <=> x \in users /\ email[x] = pending[u]
    BY <1>2 DEF IInv, EmailIndexConsistent
  <2>3. byEmail[email[u]] = x <=> x \in users /\ email[x] = email[u]
    BY <1>2 DEF IInv, EmailIndexConsistent
  <2> QED
    BY <1>2, <1>4, <1>5, <2>1, <2>2, <2>3, NoneAssumption
<1>9. TokenIndexConsistent' /\ TokenMatchesIssue'
  BY <1>1, <1>5 DEF IInv, TokenIndexConsistent, TokenMatchesIssue
<1>10. SpentKnown' /\ SpentTokenRefused'
  BY <1>1, <1>5 DEF IInv, SpentKnown, SpentTokenRefused, Outstanding, Known
<1>11. PendingSentTo'
  BY <1>1, <1>5 DEF IInv, PendingSentTo, SentTo, Known, TypeOK, StoreTypeOK
<1>12. AddressWasSentTo'
  <2> SUFFICES ASSUME NEW x \in users
               PROVE  email'[x] \in {origin[x], Blank} \/ SentTo(x, email'[x])
    BY <1>1, <1>5 DEF AddressWasSentTo, SentTo, Known
  <2>1. x \in UserIDs
    BY DEF IInv, TypeOK, StoreTypeOK
  <2>2. CASE x = u
    BY <1>5, <2>1, <2>2 DEF IInv, PendingSentTo
  <2>3. CASE x # u
    BY <1>5, <2>1, <2>3 DEF IInv, AddressWasSentTo, SentTo
  <2> QED
    BY <2>2, <2>3
<1> QED
  BY <1>3, <1>6, <1>7, <1>8, <1>9, <1>10, <1>11, <1>12 DEF IInv

-----------------------------------------------------------------------------
(***************************************************************************)
(* The invariant.                                                          *)
(***************************************************************************)

\* The empty store and idle requests satisfy the invariant.
LEMMA InitIInv == Init => IInv
<1> SUFFICES ASSUME Init PROVE IInv
  OBVIOUS
<1> USE DEF Init, StoreInit
<1>1. Idle \in Call
  BY IdleOK DEF CallOK
<1>2. TypeOK
  BY <1>1 DEF TypeOK, StoreTypeOK, Addresses, Credentials, NoExpiry
<1>3. CallsOK
  BY IdleOK DEF CallsOK
<1>4. Emptied /\ EmailIndexConsistent /\ TokenIndexConsistent
  BY NoneAssumption DEF Emptied, EmailIndexConsistent, TokenIndexConsistent
<1>5. TokenMatchesIssue /\ SpentKnown /\ SpentTokenRefused /\ PendingSentTo /\ AddressWasSentTo
  BY DEF TokenMatchesIssue, SpentKnown, SpentTokenRefused, PendingSentTo, AddressWasSentTo
<1> QED
  BY <1>2, <1>3, <1>4, <1>5 DEF IInv

\* The clock touches nothing else.
LEMMA TickStep ==
  ASSUME IInv, Tick
  PROVE  IInv'
<1> USE DEF Tick, storeVars, fields, history
<1>1. CallsOK' /\ call' \in [Requests -> Call]
  BY CallsStep
<1>2. TypeOK'
  BY <1>1 DEF IInv, TypeOK, StoreTypeOK
<1>3. Emptied' /\ EmailIndexConsistent' /\ TokenIndexConsistent' /\ TokenMatchesIssue'
  BY DEF IInv, Emptied, EmailIndexConsistent, TokenIndexConsistent, TokenMatchesIssue, Fresh
<1>4. SpentKnown' /\ SpentTokenRefused' /\ PendingSentTo' /\ AddressWasSentTo'
  BY DEF IInv, SpentKnown, SpentTokenRefused, Outstanding, PendingSentTo, SentTo,
         AddressWasSentTo, Known
<1> QED
  BY <1>1, <1>2, <1>3, <1>4 DEF IInv

\* Every step preserves the invariant.
LEMMA NextIInv == IInv /\ [Next]_vars => IInv'
<1> SUFFICES ASSUME IInv, [Next]_vars PROVE IInv'
  OBVIOUS
<1>1. CASE Tick
  BY <1>1, TickStep
<1>2. CASE ImportUser
  <2>1. PICK u \in UserIDs, e \in Emails, p \in {"none", "marker"} :
          /\ Fresh(u) /\ CreateUser(u, e, p, AutoVerify)
          /\ origin' = [origin EXCEPT ![u] = e]
          /\ UNCHANGED <<now, call, issued, spent, reused>>
    BY <1>2 DEF ImportUser
  <2>2. p \in Credentials
    BY DEF Credentials
  <2> QED
    BY <2>1, <2>2, AccountAssumption, CreateStep
<1>3. CASE DeleteAccount
  BY <1>3, DeleteStep DEF DeleteAccount
<1>4. ASSUME NEW r \in Requests, RegisterCreate(r) PROVE IInv'
  <2>1. PICK u \in UserIDs, p \in Passwords :
          /\ At(r, "create") /\ Fresh(u) /\ CreateUser(u, call[r].addr, p, AutoVerify)
          /\ origin' = [origin EXCEPT ![u] = call[r].addr]
          /\ call' = [call EXCEPT ![r] = Idle]
          /\ UNCHANGED <<now, issued, spent, reused>>
    BY <1>4 DEF RegisterCreate, Finish, Goto
  <2>2. call[r].addr \in Emails /\ p \in Credentials
    BY <2>1 DEF IInv, CallsOK, CallOK, At, Credentials
  <2> QED
    BY <2>1, <2>2, AccountAssumption, CreateStep
<1>5. ASSUME NEW r \in Requests,
             \/ RegisterLookup(r) \/ SendLookup(r) \/ RequestEmailChange(r) \/ RedeemLookup(r)
             \/ ChangePassword(r) \/ InitialPassword(r) \/ LoginVerify(r)
             \/ RegisterFail(r) \/ SendFail(r) \/ RedeemFail(r) \/ ClearFail(r)
             \/ SetPasswordFail(r)
      PROVE  IInv'
  BY <1>5, LookupStep
<1>6. ASSUME NEW r \in Requests,
             ResetPassword(r) \/ VerifyEmail(r) \/ MagicLinkMark(r) \/ SetPassword(r)
      PROVE  IInv'
  BY <1>6, CredentialStep
<1>7. ASSUME NEW r \in Requests, SendStore(r) PROVE IInv'
  BY <1>7, SendStep
<1>8. ASSUME NEW r \in Requests, RedeemClear(r) PROVE IInv'
  BY <1>8, ClearStep
<1>9. ASSUME NEW r \in Requests, ConfirmEmailChange(r) PROVE IInv'
  BY <1>9, ConfirmStep
<1>10. CASE UNCHANGED vars
  <2> USE DEF vars, storeVars, fields, history
  <2>1. CallsOK' /\ call' \in [Requests -> Call]
    BY <1>10, CallsStep
  <2>2. TypeOK'
    BY <1>10, <2>1 DEF IInv, TypeOK, StoreTypeOK
  <2>3. Emptied' /\ EmailIndexConsistent' /\ TokenIndexConsistent' /\ TokenMatchesIssue'
    BY <1>10
       DEF IInv, Emptied, EmailIndexConsistent, TokenIndexConsistent, TokenMatchesIssue, Fresh
  <2>4. SpentKnown' /\ SpentTokenRefused' /\ PendingSentTo' /\ AddressWasSentTo'
    BY <1>10 DEF IInv, SpentKnown, SpentTokenRefused, Outstanding, PendingSentTo, SentTo,
                 AddressWasSentTo, Known
  <2> QED
    BY <2>1, <2>2, <2>3, <2>4 DEF IInv
<1> QED
  BY <1>1, <1>2, <1>3, <1>4, <1>5, <1>6, <1>7, <1>8, <1>9, <1>10 DEF Next

\* Type correctness of the account service and its store; the address index and
\* the four token indexes never disagree with the table, so an address belongs
\* to at most one account and a token leads to the account it was sent for,
\* under its own expiry, whatever overlaps (CreateUser, ApplyEmailChange).
THEOREM StoreIsConsistent == Spec => []StoreConsistent
<1>1. IInv => StoreConsistent
  BY DEF IInv, StoreConsistent
<1> QED
  BY <1>1, InitIInv, NextIInv, PTL DEF Spec

\* Once a redemption has finished, the token is refused, and no account ever
\* gets an address that was requested for another account.
THEOREM TokensServeOnceAsSent == Spec => []TokenServesOnceAsSent
<1>1. IInv => TokenServesOnceAsSent
  BY DEF IInv, TokenServesOnceAsSent
<1> QED
  BY <1>1, InitIInv, NextIInv, PTL DEF Spec

-----------------------------------------------------------------------------
(***************************************************************************)
(* Action properties.                                                      *)
(***************************************************************************)

\* What a user holds after a step it held before, or nothing, or a token that
\* was not known before.
HeldBefore(k, u) ==
  \/ u \in users /\ hash'[k][u] = hash[k][u]
  \/ hash'[k][u] = NoToken
  \/ ~Known(hash'[k][u])

\* Only sending stores a token, and it is a new one.
LEMMA OnlyNewTokens ==
  ASSUME IInv, Next, NEW k \in Kinds, NEW u \in users'
  PROVE  HeldBefore(k, u)
<1>1. users \subseteq UserIDs /\ u \in UserIDs
  <2>1. IInv'
    BY NextIInv
  <2> QED
    BY <2>1 DEF IInv, TypeOK, StoreTypeOK
<1>2. CASE hash' = hash /\ users' = users
  BY <1>2 DEF HeldBefore
<1>3. CASE ImportUser \/ \E r \in Requests : RegisterCreate(r)
  <2>1. PICK x \in UserIDs : x \notin users /\ users' = users \cup {x} /\ hash' = hash
    BY <1>3 DEF ImportUser, RegisterCreate, CreateUser
  <2> QED
    BY <2>1 DEF HeldBefore, IInv, Emptied
<1>4. CASE DeleteAccount
  <2>1. PICK x \in users : users' = users \ {x}
                           /\ hash' = [l \in Kinds |-> [hash[l] EXCEPT ![x] = NoToken]]
    BY <1>4 DEF DeleteAccount, DeleteUser
  <2>2. u \in users /\ hash'[k][u] = hash[k][u]
    BY <1>1, <2>1 DEF IInv, TypeOK, StoreTypeOK
  <2> QED
    BY <2>2 DEF HeldBefore
<1>5. ASSUME NEW r \in Requests, SendStore(r) PROVE HeldBefore(k, u)
  <2>1. PICK t \in Tokens : ~Known(t) /\ users' = users
          /\ hash' = [hash EXCEPT ![call[r].kind] = [@ EXCEPT ![call[r].user] = t]]
    BY <1>5 DEF SendStore, UpdateToken
  <2>2. hash'[k][u] = t \/ hash'[k][u] = hash[k][u]
    BY <1>1, <2>1 DEF IInv, TypeOK, StoreTypeOK
  <2> QED
    BY <2>1, <2>2 DEF HeldBefore
<1>6. ASSUME NEW r \in Requests, RedeemClear(r) PROVE HeldBefore(k, u)
  <2>1. /\ users' = users
        /\ hash' = [hash EXCEPT ![call[r].kind] = [@ EXCEPT ![call[r].user] = NoToken]]
    BY <1>6 DEF RedeemClear, ClearToken
  <2>2. hash'[k][u] = NoToken \/ hash'[k][u] = hash[k][u]
    BY <1>1, <2>1 DEF IInv, TypeOK, StoreTypeOK
  <2> QED
    BY <2>1, <2>2 DEF HeldBefore
<1>7. ASSUME NEW r \in Requests,
             \/ RegisterLookup(r) \/ RegisterFail(r) \/ SendLookup(r) \/ RequestEmailChange(r)
             \/ SendFail(r) \/ RedeemLookup(r) \/ RedeemFail(r) \/ ClearFail(r)
             \/ ChangePassword(r) \/ InitialPassword(r) \/ LoginVerify(r)
             \/ SetPasswordFail(r)
      PROVE  HeldBefore(k, u)
  <2>1. hash' = hash /\ users' = users
    BY <1>7 DEF RegisterLookup, RegisterFail, SendLookup, RequestEmailChange, SendFail,
                RedeemLookup, RedeemFail, ClearFail, ChangePassword, InitialPassword,
                LoginVerify, SetPasswordFail, Fail, Local, storeVars
  <2> QED
    BY <1>2, <2>1
<1>8. ASSUME NEW r \in Requests,
             \/ ResetPassword(r) \/ VerifyEmail(r) \/ ConfirmEmailChange(r)
             \/ MagicLinkMark(r) \/ SetPassword(r)
      PROVE  HeldBefore(k, u)
  <2>1. hash' = hash /\ users' = users
    BY <1>8 DEF ResetPassword, VerifyEmail, ConfirmEmailChange, MagicLinkMark, SetPassword,
                UpdatePassword, MarkEmailVerified, ApplyEmailChange, storeVars
  <2> QED
    BY <1>2, <2>1
<1>9. CASE Tick
  BY <1>2, <1>9 DEF Tick, storeVars
<1> QED
  BY <1>3, <1>4, <1>5, <1>6, <1>7, <1>8, <1>9 DEF Next

\* A token that was replaced, redeemed or deleted with its user never comes back.
THEOREM DeadTokensStayDead == Spec => DeadTokenStaysDead
<1>1. ASSUME IInv, [Next]_vars
      PROVE  [\A t \in Tokens : Known(t) /\ ~Outstanding(t) => ~Outstanding(t)']_vars
  <2> SUFFICES ASSUME Next, NEW t \in Tokens, Known(t), ~Outstanding(t)
               PROVE  ~Outstanding(t)'
    BY <1>1
  <2>1. \A k \in Kinds, u \in users' : HeldBefore(k, u)
    BY <1>1, OnlyNewTokens
  <2> QED
    BY <2>1, NoneAssumption DEF HeldBefore, Outstanding
<1> QED
  BY <1>1, InitIInv, NextIInv, PTL DEF Spec, DeadTokenStaysDead

\* The only step by which an idle request gets hold of a token is a lookup.
LEMMA OnlyLookupTakesToken ==
  ASSUME IInv, Next, NEW r \in Requests, At(r, "idle"), call'[r].tok # NoToken
  PROVE  RedeemLookup(r)
<1>1. call[r].tok = NoToken /\ call \in [Requests -> Call]
  BY DEF IInv, TypeOK, CallsOK, CallOK, At
<1>2. ASSUME NEW q \in Requests, q # r, NEW next, call' = [call EXCEPT ![q] = next]
      PROVE  FALSE
  BY <1>1, <1>2
<1>3. ASSUME NEW next, call' = [call EXCEPT ![r] = next], next.tok = NoToken
      PROVE  FALSE
  BY <1>1, <1>3
<1>4. call' # call
  BY <1>1
<1>5. ~(Tick \/ ImportUser \/ DeleteAccount)
  BY <1>4 DEF Tick, ImportUser, DeleteAccount
<1>6. PICK q \in Requests :
       \/ RegisterLookup(q) \/ RegisterCreate(q) \/ RegisterFail(q)
       \/ SendLookup(q) \/ RequestEmailChange(q) \/ SendStore(q) \/ SendFail(q)
       \/ RedeemLookup(q) \/ ResetPassword(q) \/ VerifyEmail(q) \/ ConfirmEmailChange(q)
       \/ RedeemFail(q) \/ RedeemClear(q) \/ ClearFail(q) \/ MagicLinkMark(q)
       \/ ChangePassword(q) \/ InitialPassword(q) \/ LoginVerify(q)
       \/ SetPassword(q) \/ SetPasswordFail(q)
  BY <1>5 DEF Next
<1>7. q = r
  <2>1. \E next : call' = [call EXCEPT ![q] = next]
    <3>1. CASE \/ RegisterLookup(q) \/ SendLookup(q) \/ RequestEmailChange(q) \/ RedeemLookup(q)
               \/ ChangePassword(q) \/ InitialPassword(q) \/ LoginVerify(q)
      BY <3>1 DEF RegisterLookup, SendLookup, RequestEmailChange, RedeemLookup,
                  ChangePassword, InitialPassword, LoginVerify, Goto
    <3>2. CASE \/ ResetPassword(q) \/ VerifyEmail(q) \/ ConfirmEmailChange(q) \/ RedeemClear(q)
      BY <3>2 DEF ResetPassword, VerifyEmail, ConfirmEmailChange, RedeemClear, Goto, Finish
    <3>3. CASE \/ RegisterCreate(q) \/ RegisterFail(q) \/ SendStore(q) \/ SendFail(q)
               \/ RedeemFail(q) \/ ClearFail(q) \/ MagicLinkMark(q)
               \/ SetPassword(q) \/ SetPasswordFail(q)
      BY <3>3 DEF RegisterCreate, RegisterFail, SendStore, SendFail, RedeemFail, ClearFail,
                  MagicLinkMark, SetPassword, SetPasswordFail, Fail, Finish, Goto
    <3> QED
      BY <1>6, <3>1, <3>2, <3>3
  <2> QED
    BY <1>2, <2>1
<1>8. \/ RegisterLookup(r) \/ SendLookup(r) \/ RequestEmailChange(r) \/ RedeemLookup(r)
      \/ ChangePassword(r) \/ InitialPassword(r) \/ LoginVerify(r)
  BY <1>6, <1>7 DEF At, RegisterCreate, RegisterFail, SendStore, SendFail, ResetPassword,
     VerifyEmail, ConfirmEmailChange, RedeemFail, RedeemClear, ClearFail, MagicLinkMark,
     SetPassword, SetPasswordFail, SettingSteps
<1>9. ~(\/ RegisterLookup(r) \/ SendLookup(r) \/ RequestEmailChange(r)
        \/ ChangePassword(r) \/ InitialPassword(r) \/ LoginVerify(r))
  <2>1. ASSUME SendLookup(r) \/ RequestEmailChange(r) PROVE FALSE
    <3>1. PICK k, u, a : call' = [call EXCEPT ![r] = Sending(k, u, a)]
      BY <2>1 DEF SendLookup, RequestEmailChange, Goto
    <3>2. Sending(k, u, a).tok = NoToken
      BY DEF Sending
    <3> QED
      BY <1>3, <3>1, <3>2
  <2>2. ASSUME \/ RegisterLookup(r) \/ ChangePassword(r) \/ InitialPassword(r)
               \/ LoginVerify(r)
        PROVE  FALSE
    <3>1. PICK s, u, a : call' = [call EXCEPT ![r] = Setting(s, u, a)]
      BY <2>2 DEF RegisterLookup, ChangePassword, InitialPassword, LoginVerify, Goto
    <3>2. Setting(s, u, a).tok = NoToken
      BY DEF Setting
    <3> QED
      BY <1>3, <3>1, <3>2
  <2> QED
    BY <2>1, <2>2
<1> QED
  BY <1>8, <1>9

\* No token is accepted after the expiry it was sent with, although the check
\* reads the expiry of the user's record.
THEOREM ExpiryIsHonoured == Spec => ExpiryHonoured
<1>1. ASSUME IInv, [Next]_vars
      PROVE  [\A r \in Requests :
                At(r, "idle") /\ call'[r].tok # NoToken =>
                  now <= issued[call'[r].tok].exp + ClockSkew]_vars
  <2> SUFFICES ASSUME Next, NEW r \in Requests, At(r, "idle"), call'[r].tok # NoToken
               PROVE  now <= issued[call'[r].tok].exp + ClockSkew
    BY <1>1
  <2>1. RedeemLookup(r)
    BY <1>1, OnlyLookupTakesToken
  <2>2. PICK k \in Features, t \in Tokens : \E u \in GetUserByToken(k, t), mark \in BOOLEAN :
          NotExpired(k, u) /\ Goto(r, Redeeming(FirstStep(k), k, u, t, mark))
    BY <2>1 DEF RedeemLookup
  <2>3. PICK u \in GetUserByToken(k, t), mark \in BOOLEAN :
          NotExpired(k, u) /\ Goto(r, Redeeming(FirstStep(k), k, u, t, mark))
    BY <2>2
  <2>4. call'[r].tok = t
    BY <1>1, <2>3 DEF Goto, Redeeming, IInv, TypeOK
  <2>5. k \in Kinds
    BY AccountAssumption
  <2>6. issued[t].exp = expiry[k][u]
    BY <1>1, <2>5, LookupByToken
  <2> QED
    BY <2>3, <2>4, <2>6 DEF NotExpired
<1> QED
  BY <1>1, InitIInv, NextIInv, PTL DEF Spec, ExpiryHonoured

\* Both at once: neither a dead token nor an expired one is ever redeemed.
THEOREM OldTokensStayRefused == Spec => OldTokensAreRefused
BY DeadTokensStayDead, ExpiryIsHonoured DEF OldTokensAreRefused

-----------------------------------------------------------------------------
(***************************************************************************)
(* Callers that take turns (AccountTurns).  The one request under way      *)
(* redeems a token that is still its account's outstanding one, sends to   *)
(* the address the account still has, and sets a password where there is   *)
(* still none of the user's own.  An account either has moved to an        *)
(* address whose change token was redeemed, or is where it was created,    *)
(* and then every verification token and magic link went there.            *)
(***************************************************************************)
OneAtATime == \A q, r \in Requests : ~At(q, "idle") /\ ~At(r, "idle") => q = r

Working == {"send", "redeem", "clear", "mark"} \cup SettingSteps

\* What the request under way still knows to be so.
CallCurrent(c) ==
  /\ c.step \in Working => ~Fresh(c.user)
  /\ c.step \in {"redeem", "clear"} /\ c.user \in users => hash[c.kind][c.user] = c.tok
  /\ c.step \in {"redeem", "clear"} /\ c.mark => c.kind = "magic"
  /\ c.step = "mark" => /\ c.tok \in spent /\ issued[c.tok].kind = "magic"
                        /\ issued[c.tok].user = c.user
  /\ c.step = "send" /\ c.kind \in {"verify", "magic"} /\ c.user \in users =>
       c.addr = email[c.user]
  /\ c.step = "initialPassword" /\ c.user \in users => password[c.user] = "none"
  /\ c.step = "migrate" /\ c.user \in users => password[c.user] = "marker"

CallsCurrent == \A r \in Requests : CallCurrent(call[r])

\* Redeemed, or as good as: what is left to do cannot fail but for want of the
\* account.
Used(t) == t \in spent \/ \E r \in Requests : At(r, "clear") /\ call[r].tok = t

UsedAt(u, e, kinds) ==
  \E t \in Tokens : /\ Known(t) /\ Used(t)
                    /\ issued[t].kind \in kinds
                    /\ issued[t].user = u /\ issued[t].to = e

Confirming(u) ==
  \E r \in Requests : At(r, "clear") /\ call[r].kind = "change" /\ call[r].user = u

PendingIsSent ==
  \A u \in users : hash["change"][u] # NoToken =>
    pending[u] = issued[hash["change"][u]].to \/ Confirming(u)

IssuedToCreated == \A t \in Tokens : Known(t) => ~Fresh(issued[t].user)

StaysOrMoved ==
  \A u \in users :
    \/ UsedAt(u, email[u], {"change"})
    \/ /\ email[u] = origin[u]
       /\ \A t \in Tokens : /\ Known(t) /\ issued[t].user = u
                            /\ issued[t].kind \in {"verify", "magic"}
                            => issued[t].to = email[u]

VerifiedIsUsed ==
  ~AutoVerify => \A u \in users :
    verified[u] => UsedAt(u, email[u], {"verify", "magic", "change"})

InTurns ==
  /\ OneAtATime
  /\ CallsCurrent
  /\ PendingIsSent
  /\ IssuedToCreated
  /\ StaysOrMoved
  /\ VerifiedIsUsed
  /\ TokenSingleUse

TurnsInv == IInv /\ (callers = "in turns" => InTurns)

\* When request r moves while calls take turns, the others are idle.
LEMMA OthersIdle ==
  ASSUME IInv, OneAtATime, OneAtATime', NEW r \in Requests, NEW next,
         call' = [call EXCEPT ![r] = next], ~At(r, "idle") \/ next.step # "idle"
  PROVE  /\ call'[r] = next
         /\ \A q \in Requests : q # r => call'[q] = call[q] /\ call[q].step = "idle"
<1>1. /\ call'[r] = next
      /\ \A q \in Requests : q # r => call'[q] = call[q]
  BY DEF IInv, TypeOK
<1>2. CASE ~At(r, "idle")
  BY <1>1, <1>2 DEF OneAtATime, At
<1>3. CASE next.step # "idle"
  BY <1>1, <1>3 DEF OneAtATime, At
<1> QED
  BY <1>1, <1>2, <1>3

\* Then what the requests know, and which tokens are used, is r's affair.
LEMMA OnlyOneBusy ==
  ASSUME NEW r \in Requests, \A q \in Requests : q # r => call[q].step = "idle"
  PROVE  /\ CallCurrent(call[r]) => CallsCurrent
         /\ \A t \in Tokens : Used(t) <=> t \in spent \/ (call[r].step = "clear" /\ call[r].tok = t)
         /\ \A u \in UserIDs : Confirming(u) <=> /\ call[r].step = "clear" /\ call[r].kind = "change"
                                                /\ call[r].user = u
<1>1. CallCurrent(call[r]) => CallsCurrent
  BY DEF CallsCurrent, CallCurrent, Working, SettingSteps
<1>2. \A t \in Tokens : Used(t) <=> t \in spent \/ (call[r].step = "clear" /\ call[r].tok = t)
  BY DEF Used, At
<1>3. \A u \in UserIDs : Confirming(u) <=> /\ call[r].step = "clear" /\ call[r].kind = "change"
                                          /\ call[r].user = u
  BY DEF Confirming, At
<1> QED
  BY <1>1, <1>2, <1>3

\* The same of the state after a step.
LEMMA OnlyOneBusyNext ==
  ASSUME NEW r \in Requests, \A q \in Requests : q # r => call'[q].step = "idle"
  PROVE  /\ CallCurrent(call[r])' => CallsCurrent'
         /\ \A t \in Tokens :
              Used(t)' <=> t \in spent' \/ (call'[r].step = "clear" /\ call'[r].tok = t)
         /\ \A u \in UserIDs : Confirming(u)' <=> /\ call'[r].step = "clear"
                                                 /\ call'[r].kind = "change" /\ call'[r].user = u
<1>1. CallCurrent(call[r])' => CallsCurrent'
  BY DEF CallsCurrent, CallCurrent, Working, SettingSteps
<1>2. \A t \in Tokens :
        Used(t)' <=> t \in spent' \/ (call'[r].step = "clear" /\ call'[r].tok = t)
  BY DEF Used, At
<1>3. \A u \in UserIDs : Confirming(u)' <=> /\ call'[r].step = "clear"
                                           /\ call'[r].kind = "change" /\ call'[r].user = u
  BY DEF Confirming, At
<1> QED
  BY <1>1, <1>2, <1>3

\* A proof of an address stays one while its token stays used.
LEMMA UsedAtKept ==
  ASSUME NEW u, NEW e, NEW kinds, UsedAt(u, e, kinds),
         \A t \in Tokens : Known(t) => Known(t)' /\ issued'[t] = issued[t],
         \A t \in Tokens : Known(t) /\ issued[t].user = u /\ Used(t) => Used(t)'
  PROVE  UsedAt(u, e, kinds)'
BY DEF UsedAt

\* A step that leaves accounts and tokens alone and gives up no used token.
LEMMA AccountsKept ==
  ASSUME IInv, InTurns,
         UNCHANGED <<users, email, pending, hash, origin, issued, reused>>,
         \A t \in Tokens : Known(t) /\ issued[t].user \in users /\ Used(t) => Used(t)',
         \A u \in users : Confirming(u) => Confirming(u)'
  PROVE  PendingIsSent' /\ IssuedToCreated' /\ StaysOrMoved' /\ TokenSingleUse'
<1>1. PendingIsSent'
  BY DEF InTurns, PendingIsSent
<1>2. IssuedToCreated'
  BY DEF InTurns, IssuedToCreated, Known, Fresh
<1>3. StaysOrMoved'
  <2> SUFFICES ASSUME NEW u \in users
               PROVE  \/ UsedAt(u, email[u], {"change"})'
                      \/ /\ email[u] = origin[u]
                         /\ \A t \in Tokens : /\ Known(t) /\ issued[t].user = u
                                              /\ issued[t].kind \in {"verify", "magic"}
                                              => issued[t].to = email[u]
    BY DEF StaysOrMoved, Known
  <2>1. CASE UsedAt(u, email[u], {"change"})
    <3>1. PICK e : e = email[u]
      OBVIOUS
    <3>2. UsedAt(u, e, {"change"})
      BY <2>1, <3>1
    <3>3. UsedAt(u, e, {"change"})'
      BY <3>2, UsedAtKept DEF Known
    <3> QED
      BY <3>1, <3>3 DEF UsedAt
  <2>2. CASE ~UsedAt(u, email[u], {"change"})
    BY <2>2 DEF InTurns, StaysOrMoved
  <2> QED
    BY <2>1, <2>2
<1>4. TokenSingleUse'
  BY DEF InTurns, TokenSingleUse
<1> QED
  BY <1>1, <1>2, <1>3, <1>4

\* If nobody is newly verified either, verification stays proven.
LEMMA VerifiedKept ==
  ASSUME IInv, InTurns,
         UNCHANGED <<users, email, issued>>,
         \A t \in Tokens : Known(t) /\ issued[t].user \in users /\ Used(t) => Used(t)',
         \A u \in users : verified'[u] =>
           verified[u] \/ UsedAt(u, email[u], {"verify", "magic", "change"})'
  PROVE  VerifiedIsUsed'
<1> SUFFICES ASSUME ~AutoVerify, NEW u \in users, verified[u]
             PROVE  UsedAt(u, email[u], {"verify", "magic", "change"})'
  BY DEF VerifiedIsUsed
<1>1. UsedAt(u, email[u], {"verify", "magic", "change"})
  BY DEF InTurns, VerifiedIsUsed
<1>2. PICK e, kinds : e = email[u] /\ kinds = {"verify", "magic", "change"}
  OBVIOUS
<1>3. UsedAt(u, e, kinds)
  BY <1>1, <1>2
<1>4. UsedAt(u, e, kinds)'
  BY <1>3, UsedAtKept DEF Known
<1> QED
  BY <1>2, <1>4 DEF UsedAt

\* A step of request r that leaves accounts and tokens alone, but for passwords.
LEMMA QuietTurn ==
  ASSUME IInv, InTurns, OneAtATime', NEW r \in Requests, NEW next,
         call' = [call EXCEPT ![r] = next], ~At(r, "idle") \/ next.step # "idle",
         UNCHANGED <<users, email, verified, pending, hash, origin, issued, spent, reused>>,
         CallCurrent(next)',
         At(r, "clear") => call[r].user \notin users
  PROVE  InTurns'
<1>1. /\ call'[r] = next
      /\ \A q \in Requests : q # r => call'[q] = call[q] /\ call[q].step = "idle"
  BY OthersIdle DEF InTurns
<1>2. /\ CallsCurrent'
      /\ \A t \in Tokens :
           Used(t)' <=> t \in spent' \/ (call'[r].step = "clear" /\ call'[r].tok = t)
  <2>1. \A q \in Requests : q # r => call'[q].step = "idle"
    BY <1>1
  <2>2. CallCurrent(call[r])'
    BY <1>1 DEF CallCurrent
  <2> QED
    BY <2>1, <2>2, OnlyOneBusyNext
<1>3. /\ \A t \in Tokens : Used(t) <=> t \in spent \/ (call[r].step = "clear" /\ call[r].tok = t)
      /\ \A u \in UserIDs : Confirming(u) => At(r, "clear") /\ call[r].user = u
  BY <1>1, OnlyOneBusy DEF At
<1>4. At(r, "clear") => issued[call[r].tok].user = call[r].user
  BY DEF IInv, CallsOK, CallOK, At
<1>5. \A t \in Tokens : Known(t) /\ issued[t].user \in users /\ Used(t) => Used(t)'
  BY <1>2, <1>3, <1>4 DEF At
<1>6. users \subseteq UserIDs
  BY DEF IInv, TypeOK, StoreTypeOK
<1>7. \A u \in users : Confirming(u) => Confirming(u)'
  BY <1>3, <1>6
<1>8. PendingIsSent' /\ IssuedToCreated' /\ StaysOrMoved' /\ TokenSingleUse'
  BY <1>5, <1>7, AccountsKept
<1>9. VerifiedIsUsed'
  BY <1>5, VerifiedKept
<1> QED
  BY <1>2, <1>8, <1>9 DEF InTurns

\* Looking something up starts a request that knows what it has just read.
LEMMA LookupTurn ==
  ASSUME IInv, InTurns, OneAtATime', NEW r \in Requests,
         \/ RegisterLookup(r) \/ SendLookup(r) \/ RequestEmailChange(r) \/ RedeemLookup(r)
         \/ ChangePassword(r) \/ InitialPassword(r) \/ LoginVerify(r)
  PROVE  InTurns'
<1> DEFINE Same == UNCHANGED <<users, email, password, verified, pending, hash, origin, issued,
                               spent, reused>>
<1>0. SUFFICES \E next : /\ call' = [call EXCEPT ![r] = next] /\ next.step # "idle"
                         /\ Same /\ CallCurrent(next)
  <2>1. ~At(r, "clear")
    BY DEF At, RegisterLookup, SendLookup, RequestEmailChange, RedeemLookup, ChangePassword,
           InitialPassword, LoginVerify
  <2>2. PICK next : /\ call' = [call EXCEPT ![r] = next] /\ next.step # "idle"
                    /\ Same /\ CallCurrent(next)
    BY <1>0
  <2>3. CallCurrent(next)'
    BY <2>2 DEF CallCurrent, Fresh
  <2> QED
    BY <2>1, <2>2, <2>3, QuietTurn
<1>1. Same
  BY DEF RegisterLookup, SendLookup, RequestEmailChange, RedeemLookup, ChangePassword,
         InitialPassword, LoginVerify, Local, storeVars, fields, history
<1>2. \A u \in users : ~Fresh(u)
  BY DEF IInv, Emptied
<1> HIDE DEF Same
<1>3. CASE RegisterLookup(r)
  <2>1. PICK e \in Emails : call' = [call EXCEPT ![r] = Setting("create", NoID, e)]
    BY <1>3 DEF RegisterLookup, Goto
  <2>2. PICK next : next = Setting("create", NoID, e)
    OBVIOUS
  <2>3. next.step = "create"
    BY <2>2 DEF Setting
  <2>4. CallCurrent(next)
    BY <2>3 DEF CallCurrent, Working, SettingSteps
  <2> QED
    BY <1>1, <2>1, <2>2, <2>3, <2>4
<1>4. CASE SendLookup(r) \/ RequestEmailChange(r)
  <2>0. \A u \in users : email[u] \in Addresses
    BY DEF IInv, TypeOK, StoreTypeOK
  <2>1. PICK k \in Features, u \in users, a \in Addresses :
          /\ call' = [call EXCEPT ![r] = Sending(k, u, a)]
          /\ k # "change" => a = email[u]
    BY <1>4, <2>0 DEF SendLookup, RequestEmailChange, Goto
  <2>2. PICK next : next = Sending(k, u, a)
    OBVIOUS
  <2>3. next.step = "send" /\ next.user = u /\ next.kind = k /\ next.addr = a
    BY <2>2 DEF Sending
  <2>4. CallCurrent(next)
    BY <1>2, <2>1, <2>3 DEF CallCurrent
  <2> QED
    BY <1>1, <2>1, <2>2, <2>3, <2>4
<1>5. CASE RedeemLookup(r)
  <2>1. PICK k \in Features, t \in Tokens : \E u \in GetUserByToken(k, t), mark \in BOOLEAN :
          /\ mark => k = "magic"
          /\ call' = [call EXCEPT ![r] = Redeeming(FirstStep(k), k, u, t, mark)]
    BY <1>5 DEF RedeemLookup, Goto
  <2>2. PICK u \in GetUserByToken(k, t), mark \in BOOLEAN :
          /\ mark => k = "magic"
          /\ call' = [call EXCEPT ![r] = Redeeming(FirstStep(k), k, u, t, mark)]
    BY <2>1
  <2>3. k \in Kinds
    BY AccountAssumption
  <2>4. u \in users /\ hash[k][u] = t
    BY <2>3, LookupByToken
  <2>5. PICK next : next = Redeeming(FirstStep(k), k, u, t, mark)
    OBVIOUS
  <2>6. /\ next.step \in {"redeem", "clear"} /\ next.user = u /\ next.kind = k /\ next.tok = t
        /\ next.mark = mark
    BY <2>5 DEF Redeeming, FirstStep
  <2>7. CallCurrent(next)
    BY <1>2, <2>2, <2>4, <2>6 DEF CallCurrent
  <2> QED
    BY <1>1, <2>2, <2>5, <2>6, <2>7
<1>6. CASE ChangePassword(r) \/ InitialPassword(r) \/ LoginVerify(r)
  <2>1. PICK step \in SettingSteps, u \in users :
          /\ call' = [call EXCEPT ![r] = Setting(step, u, Blank)]
          /\ step = "initialPassword" => password[u] = "none"
          /\ step = "migrate" => password[u] = "marker"
    BY <1>6 DEF ChangePassword, InitialPassword, LoginVerify, SettingSteps, Goto
  <2>2. PICK next : next = Setting(step, u, Blank)
    OBVIOUS
  <2>3. next.step = step /\ next.user = u
    BY <2>2 DEF Setting
  <2>4. CallCurrent(next)
    BY <1>2, <2>1, <2>3 DEF CallCurrent, SettingSteps
  <2> QED
    BY <1>1, <2>1, <2>2, <2>3, <2>4 DEF SettingSteps
<1> QED
  BY <1>3, <1>4, <1>5, <1>6

\* A request that ends knows nothing.
LEMMA IdleCurrent ==
  /\ Idle.step = "idle"
  /\ CallCurrent(Idle)
BY DEF Idle, CallCurrent, Working, SettingSteps

\* Failing gives up no used token: a redemption fails before it has used its
\* token, or because the account is gone.
LEMMA FailTurn ==
  ASSUME IInv, InTurns, OneAtATime', NEW r \in Requests,
         \/ RegisterFail(r) \/ SendFail(r) \/ RedeemFail(r) \/ ClearFail(r)
         \/ SetPasswordFail(r)
  PROVE  InTurns'
<1>1. ~At(r, "idle") /\ (At(r, "clear") => call[r].user \notin users)
  BY DEF RegisterFail, SendFail, RedeemFail, ClearFail, SetPasswordFail, SettingSteps, At
<1>2. /\ call' = [call EXCEPT ![r] = Idle]
      /\ UNCHANGED <<users, email, verified, pending, hash, origin, issued, spent, reused>>
  BY DEF RegisterFail, SendFail, RedeemFail, ClearFail, SetPasswordFail, Fail, Finish, Goto,
         Local, storeVars, fields, history
<1>3. CallCurrent(Idle)'
  BY IdleCurrent DEF CallCurrent, Working, SettingSteps, Idle
<1>4. PICK next : next = Idle
  OBVIOUS
<1>5. CallCurrent(next)'
  BY <1>3, <1>4 DEF CallCurrent
<1> QED
  BY <1>1, <1>2, <1>4, <1>5, QuietTurn

\* Setting a password, with a token or without.
LEMMA PasswordTurn ==
  ASSUME IInv, InTurns, OneAtATime', NEW r \in Requests,
         ResetPassword(r) \/ SetPassword(r)
  PROVE  InTurns'
<1>1. ~At(r, "idle") /\ ~At(r, "clear")
  BY DEF ResetPassword, SetPassword, SettingSteps, At
<1>2. UNCHANGED <<users, email, verified, pending, hash, origin, issued, spent, reused>>
  BY DEF ResetPassword, SetPassword, UpdatePassword, history
<1>3. CASE ResetPassword(r)
  <2>1. call[r] \in Call /\ CallCurrent(call[r])
    BY DEF InTurns, CallsCurrent, IInv, TypeOK
  <2>2. PICK next : next = [call[r] EXCEPT !.step = "clear"]
    OBVIOUS
  <2>3. /\ next.step = "clear" /\ next.user = call[r].user /\ next.kind = call[r].kind
        /\ next.tok = call[r].tok /\ next.mark = call[r].mark
    BY <2>1, <2>2 DEF Call
  <2>4. CallCurrent(next)'
    BY <1>2, <1>3, <2>1, <2>3 DEF CallCurrent, ResetPassword, At, Fresh, Working
  <2>5. call' = [call EXCEPT ![r] = next]
    BY <1>3, <2>2 DEF ResetPassword, Goto
  <2> QED
    BY <1>1, <1>2, <2>4, <2>5, QuietTurn
<1>4. CASE SetPassword(r)
  <2>1. PICK next : next = Idle
    OBVIOUS
  <2>2. CallCurrent(next)'
    BY <2>1, IdleCurrent DEF CallCurrent, Working, SettingSteps
  <2>3. call' = [call EXCEPT ![r] = next]
    BY <1>4, <2>1 DEF SetPassword, Finish, Goto
  <2> QED
    BY <1>1, <1>2, <2>2, <2>3, QuietTurn
<1> QED
  BY <1>3, <1>4

\* Verifying marks the present address.  If the account has moved there, its
\* change token proves it; if not, every token to verify by went there.
LEMMA ProvenByUse ==
  ASSUME IInv, InTurns, NEW t \in Tokens, NEW u \in users, Known(t), issued[t].user = u,
         issued[t].kind \in {"verify", "magic"}, UNCHANGED issued, Used(t)',
         \A x \in Tokens : Known(x) /\ issued[x].user = u /\ Used(x) => Used(x)'
  PROVE  \A e : e = email[u] => UsedAt(u, e, {"verify", "magic", "change"})'
<1> SUFFICES ASSUME NEW e, e = email[u] PROVE UsedAt(u, e, {"verify", "magic", "change"})'
  OBVIOUS
<1>1. CASE UsedAt(u, email[u], {"change"})
  <2>1. UsedAt(u, e, {"change"})
    BY <1>1
  <2>2. UsedAt(u, e, {"change"})'
    BY <2>1, UsedAtKept DEF Known
  <2> QED
    BY <2>2 DEF UsedAt
<1>2. CASE ~UsedAt(u, email[u], {"change"})
  <2>1. issued[t].to = e
    BY <1>2 DEF InTurns, StaysOrMoved
  <2> QED
    BY <2>1 DEF UsedAt, Known
<1> QED
  BY <1>1, <1>2

\* VerifyEmail, and the mark a magic link leaves.
LEMMA VerifyTurn ==
  ASSUME IInv, InTurns, OneAtATime', NEW r \in Requests,
         VerifyEmail(r) \/ MagicLinkMark(r)
  PROVE  InTurns'
<1>1. PICK c : c = call[r]
  OBVIOUS
<1>2. c \in Call /\ CallOK(c) /\ CallCurrent(c)
  BY <1>1 DEF InTurns, CallsCurrent, IInv, TypeOK, CallsOK
<1>3. c.step \in {"redeem", "mark"} /\ ~At(r, "idle")
  BY <1>1 DEF VerifyEmail, MagicLinkMark, At
<1>4. /\ UNCHANGED <<users, email, pending, hash, origin, issued, spent, reused, password>>
      /\ \A x \in users : verified'[x] => verified[x] \/ x = c.user
  <2>1. CASE VerifyEmail(r)
    BY <1>1, <2>1 DEF VerifyEmail, MarkEmailVerified, history, IInv, TypeOK, StoreTypeOK
  <2>2. CASE MagicLinkMark(r)
    BY <1>1, <2>2 DEF MagicLinkMark, MarkEmailVerified, history, storeVars, fields, IInv, TypeOK,
                      StoreTypeOK
  <2> QED
    BY <2>1, <2>2
<1>5. PICK next : /\ call' = [call EXCEPT ![r] = next]
                  /\ CallCurrent(next)'
                  /\ c.step = "redeem" => next.step = "clear" /\ next.tok = c.tok
                  /\ c.step = "redeem" => c.kind = "verify"
  <2>1. CASE VerifyEmail(r)
    <3>1. PICK next : next = [c EXCEPT !.step = "clear"]
      OBVIOUS
    <3>2. /\ next.step = "clear" /\ next.user = c.user /\ next.kind = c.kind
          /\ next.tok = c.tok /\ next.mark = c.mark
      BY <1>2, <3>1 DEF Call
    <3>3. c.step = "redeem" /\ c.kind = "verify" /\ call' = [call EXCEPT ![r] = next]
      BY <1>1, <2>1, <3>1 DEF VerifyEmail, At, Goto
    <3>4. CallCurrent(next)'
      BY <1>2, <1>4, <3>2, <3>3 DEF CallCurrent, Fresh, Working
    <3> QED
      BY <3>2, <3>3, <3>4
  <2>2. CASE MagicLinkMark(r)
    <3>1. PICK next : next = Idle
      OBVIOUS
    <3>2. CallCurrent(next)'
      BY <3>1, IdleCurrent DEF CallCurrent, Working, SettingSteps
    <3>3. c.step # "redeem" /\ call' = [call EXCEPT ![r] = next]
      BY <1>1, <2>2, <3>1 DEF MagicLinkMark, Finish, Goto, At
    <3> QED
      BY <3>2, <3>3
  <2> QED
    BY <2>1, <2>2
<1>6. /\ call'[r] = next
      /\ \A q \in Requests : q # r => call'[q] = call[q] /\ call[q].step = "idle"
  BY <1>3, <1>5, OthersIdle DEF InTurns
<1>7. /\ CallsCurrent'
      /\ \A t \in Tokens :
           Used(t)' <=> t \in spent' \/ (call'[r].step = "clear" /\ call'[r].tok = t)
  <2>1. \A q \in Requests : q # r => call'[q].step = "idle"
    BY <1>6
  <2>2. CallCurrent(call[r])'
    BY <1>5, <1>6 DEF CallCurrent
  <2> QED
    BY <2>1, <2>2, OnlyOneBusyNext
<1>8. /\ \A t \in Tokens : Used(t) <=> t \in spent
      /\ \A u \in UserIDs : ~Confirming(u)
  BY <1>1, <1>3, <1>6, OnlyOneBusy
<1>9. \A t \in Tokens : Used(t) => Used(t)'
  BY <1>4, <1>7, <1>8
<1>10. users \subseteq UserIDs
  BY DEF IInv, TypeOK, StoreTypeOK
<1>11. PendingIsSent' /\ IssuedToCreated' /\ StaysOrMoved' /\ TokenSingleUse'
  BY <1>4, <1>8, <1>9, <1>10, AccountsKept
<1>12. /\ c.tok \in Tokens /\ Known(c.tok) /\ issued[c.tok].user = c.user
       /\ issued[c.tok].kind \in {"verify", "magic"} /\ Used(c.tok)'
  <2>1. CASE c.step = "redeem"
    BY <1>2, <1>5, <1>6, <1>7, <2>1 DEF CallOK
  <2>2. CASE c.step = "mark"
    <3>1. c.tok \in spent
      BY <1>2, <2>2 DEF CallCurrent
    <3>2. c.tok \in Tokens /\ Known(c.tok)
      BY <3>1 DEF IInv, TypeOK, SpentKnown
    <3> QED
      BY <1>2, <1>4, <1>7, <2>2, <3>1, <3>2 DEF CallCurrent
  <2> QED
    BY <1>3, <2>1, <2>2
<1>13. \A u \in users : u = c.user => UsedAt(u, email[u], {"verify", "magic", "change"})'
  <2> SUFFICES ASSUME NEW u \in users, u = c.user
               PROVE  UsedAt(u, email[u], {"verify", "magic", "change"})'
    OBVIOUS
  <2>1. PICK e : e = email[u]
    OBVIOUS
  <2>2. PICK t \in Tokens : t = c.tok
    BY <1>12
  <2>3. /\ Known(t) /\ issued[t].user = u /\ issued[t].kind \in {"verify", "magic"}
    BY <1>12, <2>2
  <2>4. Used(t)'
    BY <1>12, <2>2 DEF Used
  <2>5. UsedAt(u, e, {"verify", "magic", "change"})'
    BY <1>4, <1>9, <2>1, <2>3, <2>4, ProvenByUse
  <2> QED
    BY <1>4, <2>1, <2>5 DEF UsedAt
<1>14. VerifiedIsUsed'
  BY <1>4, <1>9, <1>13, VerifiedKept
<1> QED
  BY <1>7, <1>11, <1>14 DEF InTurns

\* A new account: its id is new, so no request works on it and no token was
\* sent for it, and it has the address it was created with.
LEMMA CreateTurn ==
  ASSUME IInv, InTurns, OneAtATime', NEW u \in UserIDs, NEW e \in Emails, NEW p,
         Fresh(u), CreateUser(u, e, p, AutoVerify),
         origin' = [origin EXCEPT ![u] = e], UNCHANGED <<issued, spent, reused>>,
         \/ call' = call
         \/ \E r \in Requests : At(r, "create") /\ call' = [call EXCEPT ![r] = Idle]
  PROVE  InTurns'
<1> USE DEF CreateUser
<1>1. u \notin users /\ users \subseteq UserIDs
  BY DEF IInv, Emptied, TypeOK, StoreTypeOK
<1>2. /\ \A x \in UserIDs : x # u =>
           /\ email'[x] = email[x] /\ password'[x] = password[x] /\ verified'[x] = verified[x]
           /\ origin'[x] = origin[x]
      /\ email'[u] = e /\ verified'[u] = AutoVerify /\ origin'[u] = e
      /\ users' = users \cup {u} /\ pending' = pending /\ hash' = hash
  BY DEF IInv, TypeOK, StoreTypeOK
<1>3. e # Blank
  BY AccountAssumption
<1>4. \A x \in UserIDs : ~Fresh(x) => ~Fresh(x)' /\ x # u
  BY <1>2 DEF Fresh
<1>5. \A q \in Requests : call'[q] = call[q] \/ (At(q, "create") /\ call'[q] = Idle)
  BY DEF IInv, TypeOK
<1>6. CallsCurrent'
  <2> SUFFICES ASSUME NEW q \in Requests PROVE CallCurrent(call[q])'
    BY DEF CallsCurrent
  <2>1. PICK c : c = call'[q]
    OBVIOUS
  <2>2. CallCurrent(c) /\ (c.step \in Working => c.user \in UserIDs)
    <3>1. CASE c = call[q]
      <4>1. CallCurrent(call[q]) /\ CallOK(call[q])
        BY DEF InTurns, CallsCurrent, IInv, CallsOK
      <4> QED
        BY <3>1, <4>1 DEF CallOK, Working
    <3>2. CASE c = Idle
      BY <3>2, IdleCurrent DEF Working, SettingSteps
    <3> QED
      BY <1>5, <2>1, <3>1, <3>2
  <2>3. CallCurrent(c)'
    <3>1. CASE c.step \notin Working
      BY <3>1 DEF CallCurrent, Working, SettingSteps
    <3>2. CASE c.step \in Working
      <4>1. c.user # u /\ ~Fresh(c.user)' /\ c.user \in UserIDs
        BY <1>4, <2>2, <3>2 DEF CallCurrent
      <4>2. c.user \in users' => c.user \in users
        BY <1>2, <4>1
      <4>3. /\ email'[c.user] = email[c.user] /\ password'[c.user] = password[c.user]
            /\ hash' = hash /\ spent' = spent /\ issued' = issued
        BY <1>2, <4>1
      <4> QED
        BY <2>2, <4>1, <4>2, <4>3 DEF CallCurrent
    <3> QED
      BY <3>1, <3>2
  <2> QED
    BY <2>1, <2>3 DEF CallCurrent
<1>7. \A q \in Requests : call'[q].step = "clear" <=> call[q].step = "clear"
  BY <1>5, IdleCurrent DEF At
<1>8. \A q \in Requests : call[q].step = "clear" => call'[q] = call[q]
  BY <1>5 DEF At
<1>9. \A t \in Tokens : Used(t) => Used(t)'
  BY <1>7, <1>8 DEF Used, At
<1>10. \A x \in UserIDs : Confirming(x) => Confirming(x)'
  BY <1>7, <1>8 DEF Confirming, At
<1>11. PendingIsSent'
  <2>1. hash["change"][u] = NoToken
    BY <1>1 DEF IInv, Emptied, Kinds
  <2> QED
    BY <1>1, <1>2, <1>10, <2>1 DEF InTurns, PendingIsSent
<1>12. IssuedToCreated'
  BY <1>4, KnownIssue DEF InTurns, IssuedToCreated, Known, IInv, Issue
<1>13. \A t \in Tokens : Known(t) => issued[t].user # u
  BY DEF InTurns, IssuedToCreated
<1>14. ASSUME NEW x, NEW a, NEW kinds, UsedAt(x, a, kinds) PROVE UsedAt(x, a, kinds)'
  BY <1>9, <1>14, UsedAtKept DEF Known
<1>15. StaysOrMoved'
  <2> SUFFICES ASSUME NEW x \in users'
               PROVE  \/ UsedAt(x, email[x], {"change"})'
                      \/ /\ email'[x] = origin'[x]
                         /\ \A t \in Tokens : /\ Known(t) /\ issued[t].user = x
                                              /\ issued[t].kind \in {"verify", "magic"}
                                              => issued[t].to = email'[x]
    BY DEF StaysOrMoved, Known
  <2>1. CASE x = u
    BY <1>2, <1>13, <2>1
  <2>2. CASE x # u
    <3>1. x \in users /\ email'[x] = email[x] /\ origin'[x] = origin[x]
      BY <1>1, <1>2, <2>2
    <3>2. CASE UsedAt(x, email[x], {"change"})
      <4>1. PICK a : a = email[x]
        OBVIOUS
      <4>2. UsedAt(x, a, {"change"})'
        BY <1>14, <3>2, <4>1
      <4> QED
        BY <3>1, <4>1, <4>2 DEF UsedAt
    <3>3. CASE ~UsedAt(x, email[x], {"change"})
      BY <3>1, <3>3 DEF InTurns, StaysOrMoved
    <3> QED
      BY <3>2, <3>3
  <2> QED
    BY <2>1, <2>2
<1>16. VerifiedIsUsed'
  <2> SUFFICES ASSUME ~AutoVerify, NEW x \in users', verified'[x]
               PROVE  UsedAt(x, email[x], {"verify", "magic", "change"})'
    BY DEF VerifiedIsUsed
  <2>1. x # u /\ x \in users
    BY <1>2
  <2>2. email'[x] = email[x] /\ verified[x]
    BY <1>1, <1>2, <2>1
  <2>3. PICK a, kinds : a = email[x] /\ kinds = {"verify", "magic", "change"}
    OBVIOUS
  <2>4. UsedAt(x, a, kinds)
    BY <2>1, <2>2, <2>3 DEF InTurns, VerifiedIsUsed
  <2>5. UsedAt(x, a, kinds)'
    BY <1>14, <2>4
  <2> QED
    BY <2>2, <2>3, <2>5 DEF UsedAt
<1>17. TokenSingleUse'
  BY DEF InTurns, TokenSingleUse
<1> QED
  BY <1>6, <1>11, <1>12, <1>15, <1>16, <1>17 DEF InTurns

\* A deleted account asks nothing more of anybody, and the others keep theirs.
LEMMA DeleteTurn ==
  ASSUME IInv, InTurns, OneAtATime', DeleteAccount
  PROVE  InTurns'
<1> PICK u \in users : DeleteUser(u) /\ UNCHANGED <<now, call, history>>
  BY DEF DeleteAccount
<1>1. users \subseteq UserIDs /\ users' = users \ {u}
  BY DEF DeleteUser, IInv, TypeOK, StoreTypeOK
<1>2. UNCHANGED <<call, origin, issued, spent, reused>>
  BY DEF history
<1>3. \A x \in UserIDs : x # u =>
        /\ email'[x] = email[x] /\ password'[x] = password[x] /\ verified'[x] = verified[x]
        /\ pending'[x] = pending[x]
        /\ \A k \in Kinds : hash'[k][x] = hash[k][x]
  BY DEF DeleteUser, IInv, TypeOK, StoreTypeOK
<1>4. \A q \in Requests : call[q] \in Call
  BY DEF IInv, TypeOK
<1>5. CallsCurrent'
  <2> SUFFICES ASSUME NEW q \in Requests PROVE CallCurrent(call[q])'
    BY DEF CallsCurrent
  <2>1. PICK c : c = call[q]
    OBVIOUS
  <2>2. CallCurrent(c) /\ c.kind \in Kinds
    BY <1>4, <2>1 DEF InTurns, CallsCurrent, Call
  <2>3. c.user \in users' => c.user \in users /\ c.user \in UserIDs /\ c.user # u
    BY <1>1
  <2>4. CallCurrent(c)'
    BY <1>2, <1>3, <2>2, <2>3 DEF CallCurrent, Fresh
  <2> QED
    BY <1>2, <2>1, <2>4 DEF CallCurrent
<1>6. \A t \in Tokens : Used(t) => Used(t)'
  BY <1>2 DEF Used, At
<1>7. \A x : Confirming(x) => Confirming(x)'
  BY <1>2 DEF Confirming, At
<1>8. PendingIsSent'
  <2>1. "change" \in Kinds
    BY DEF Kinds
  <2> SUFFICES ASSUME NEW x \in users', hash'["change"][x] # NoToken
               PROVE  pending'[x] = issued'[hash'["change"][x]].to \/ Confirming(x)'
    BY DEF PendingIsSent
  <2>2. x \in users /\ x \in UserIDs /\ x # u
    BY <1>1
  <2>3. hash'["change"][x] = hash["change"][x] /\ pending'[x] = pending[x]
    BY <1>3, <2>1, <2>2
  <2> QED
    BY <1>2, <1>7, <2>2, <2>3 DEF InTurns, PendingIsSent
<1>9. IssuedToCreated'
  BY <1>2 DEF InTurns, IssuedToCreated, Known, Fresh
<1>10. ASSUME NEW x, NEW a, NEW kinds, UsedAt(x, a, kinds) PROVE UsedAt(x, a, kinds)'
  BY <1>2, <1>6, <1>10, UsedAtKept DEF Known
<1>11. StaysOrMoved'
  <2> SUFFICES ASSUME NEW x \in users'
               PROVE  \/ UsedAt(x, email[x], {"change"})'
                      \/ /\ email'[x] = origin[x]
                         /\ \A t \in Tokens : /\ Known(t) /\ issued[t].user = x
                                              /\ issued[t].kind \in {"verify", "magic"}
                                              => issued[t].to = email'[x]
    BY <1>2 DEF StaysOrMoved, Known
  <2>1. x \in users /\ email'[x] = email[x]
    BY <1>1, <1>3
  <2>2. CASE UsedAt(x, email[x], {"change"})
    <3>1. PICK a : a = email[x]
      OBVIOUS
    <3>2. UsedAt(x, a, {"change"})'
      BY <1>10, <2>2, <3>1
    <3> QED
      BY <2>1, <3>1, <3>2 DEF UsedAt
  <2>3. CASE ~UsedAt(x, email[x], {"change"})
    BY <2>1, <2>3 DEF InTurns, StaysOrMoved
  <2> QED
    BY <2>2, <2>3
<1>12. VerifiedIsUsed'
  <2> SUFFICES ASSUME ~AutoVerify, NEW x \in users', verified'[x]
               PROVE  UsedAt(x, email[x], {"verify", "magic", "change"})'
    BY DEF VerifiedIsUsed
  <2>1. x \in users /\ email'[x] = email[x] /\ verified[x]
    BY <1>1, <1>3
  <2>2. PICK a, kinds : a = email[x] /\ kinds = {"verify", "magic", "change"}
    OBVIOUS
  <2>3. UsedAt(x, a, kinds)
    BY <2>1, <2>2 DEF InTurns, VerifiedIsUsed
  <2>4. UsedAt(x, a, kinds)'
    BY <1>10, <2>3
  <2> QED
    BY <2>1, <2>2, <2>4 DEF UsedAt
<1>13. TokenSingleUse'
  BY <1>2 DEF InTurns, TokenSingleUse
<1> QED
  BY <1>5, <1>8, <1>9, <1>11, <1>12, <1>13 DEF InTurns

\* A new token: one to verify by goes to the address the account still has, and
\* one to move by leaves its address pending.
LEMMA SendTurn ==
  ASSUME IInv, InTurns, OneAtATime', NEW r \in Requests, SendStore(r)
  PROVE  InTurns'
<1>1. PICK k, u, a, exp : /\ k = call[r].kind /\ u = call[r].user /\ a = call[r].addr
                          /\ exp = now + TTL[call[r].kind]
  OBVIOUS
<1>2. PICK t \in Tokens :
        /\ At(r, "send") /\ ~Known(t)
        /\ UpdateToken(k, u, t, exp, a)
        /\ issued' = [issued EXCEPT ![t] = [kind |-> k, user |-> u, to |-> a, exp |-> exp]]
        /\ call' = [call EXCEPT ![r] = Idle]
        /\ UNCHANGED <<now, origin, spent, reused>>
  BY <1>1 DEF SendStore, Finish, Goto
<1>3. k \in Kinds /\ u \in users /\ u \in UserIDs
  <2>1. call[r] \in Call
    BY DEF IInv, TypeOK
  <2> QED
    BY <1>1, <1>2, <2>1 DEF Call, UpdateToken, IInv, TypeOK, StoreTypeOK
<1>4. /\ ~Fresh(u)
      /\ k \in {"verify", "magic"} => a = email[u]
  <2>1. CallCurrent(call[r])
    BY DEF InTurns, CallsCurrent
  <2> QED
    BY <1>1, <1>2, <1>3, <2>1 DEF CallCurrent, Working, At
<1>5. PICK i : i = [kind |-> k, user |-> u, to |-> a, exp |-> exp]
  OBVIOUS
<1>6. i.kind = k /\ i.user = u /\ i.to = a /\ i # NoIssue
  BY <1>3, <1>5 DEF NoIssue, Kinds
<1>7. /\ issued'[t] = i /\ Known(t)'
      /\ \A x \in Tokens : x # t => issued'[x] = issued[x] /\ (Known(x)' <=> Known(x))
  BY <1>2, <1>5, <1>6 DEF IInv, TypeOK, Known
<1>8. \A x \in Tokens : Known(x) => Known(x)' /\ issued'[x] = issued[x]
  BY <1>2, <1>7
<1>9. /\ hash'[k][u] = t
      /\ \A l \in Kinds, x \in UserIDs : l # k \/ x # u => hash'[l][x] = hash[l][x]
  BY <1>2, <1>3 DEF UpdateToken, IInv, TypeOK, StoreTypeOK
<1>10. /\ \A x \in UserIDs : x # u \/ k # "change" => pending'[x] = pending[x]
       /\ k = "change" => pending'[u] = a
       /\ UNCHANGED <<users, email, password, verified>>
  BY <1>2, <1>3 DEF UpdateToken, IInv, TypeOK, StoreTypeOK
<1>11. ~At(r, "idle")
  BY <1>2 DEF At
<1>12. PICK next : next = Idle
  OBVIOUS
<1>13. /\ call'[r] = next
       /\ \A q \in Requests : q # r => call'[q] = call[q] /\ call[q].step = "idle"
  BY <1>2, <1>11, <1>12, OthersIdle DEF InTurns
<1>14. /\ CallsCurrent'
       /\ \A x \in Tokens : Used(x)' <=> x \in spent'
  <2>1. \A q \in Requests : q # r => call'[q].step = "idle"
    BY <1>13
  <2>2. call'[r].step = "idle"
    BY <1>12, <1>13, IdleCurrent
  <2>3. CallCurrent(call[r])'
    BY <2>2 DEF CallCurrent, Working, SettingSteps
  <2> QED
    BY <2>1, <2>2, <2>3, OnlyOneBusyNext
<1>15. /\ \A x \in Tokens : Used(x) <=> x \in spent
       /\ \A x \in UserIDs : ~Confirming(x)
  BY <1>2, <1>13, OnlyOneBusy DEF At
<1>16. \A x \in Tokens : Used(x) => Used(x)'
  BY <1>2, <1>14, <1>15
<1>17. users \subseteq UserIDs /\ "change" \in Kinds
  BY DEF IInv, TypeOK, StoreTypeOK, Kinds
<1>18. PendingIsSent'
  <2> SUFFICES ASSUME NEW x \in users, hash'["change"][x] # NoToken
               PROVE  pending'[x] = issued'[hash'["change"][x]].to
    BY <1>10 DEF PendingIsSent
  <2>1. CASE x = u /\ k = "change"
    BY <1>6, <1>7, <1>9, <1>10, <2>1
  <2>2. CASE x # u \/ k # "change"
    <3>1. hash'["change"][x] = hash["change"][x] /\ pending'[x] = pending[x] /\ x \in UserIDs
      BY <1>9, <1>10, <1>17, <2>2
    <3>2. pending[x] = issued[hash["change"][x]].to
      BY <1>15, <3>1 DEF InTurns, PendingIsSent
    <3>3. hash["change"][x] \in Tokens /\ Known(hash["change"][x])
      BY <1>17, <3>1, OutstandingOwner
    <3> QED
      BY <1>8, <3>1, <3>2, <3>3
  <2> QED
    BY <2>1, <2>2
<1>19. IssuedToCreated'
  <2> SUFFICES ASSUME NEW x \in Tokens, Known(x)' PROVE ~Fresh(issued'[x].user)
    BY <1>2 DEF IssuedToCreated, Fresh
  <2>1. CASE x = t
    BY <1>4, <1>6, <1>7, <2>1
  <2>2. CASE x # t
    BY <1>7, <2>2 DEF InTurns, IssuedToCreated
  <2> QED
    BY <2>1, <2>2
<1>20. ASSUME NEW x, NEW e, NEW kinds, UsedAt(x, e, kinds) PROVE UsedAt(x, e, kinds)'
  BY <1>8, <1>16, <1>20, UsedAtKept
<1>21. StaysOrMoved'
  <2> SUFFICES ASSUME NEW x \in users
               PROVE  \/ UsedAt(x, email[x], {"change"})'
                      \/ /\ email[x] = origin[x]
                         /\ \A y \in Tokens : /\ Known(y)' /\ issued'[y].user = x
                                              /\ issued'[y].kind \in {"verify", "magic"}
                                              => issued'[y].to = email[x]
    BY <1>2, <1>10 DEF StaysOrMoved
  <2>1. CASE UsedAt(x, email[x], {"change"})
    <3>1. PICK e : e = email[x]
      OBVIOUS
    <3>2. UsedAt(x, e, {"change"})'
      BY <1>20, <2>1, <3>1
    <3> QED
      BY <1>10, <3>1, <3>2 DEF UsedAt
  <2>2. CASE ~UsedAt(x, email[x], {"change"})
    <3>1. email[x] = origin[x]
      BY <2>2 DEF InTurns, StaysOrMoved
    <3>2. ASSUME NEW y \in Tokens, Known(y)', issued'[y].user = x,
                 issued'[y].kind \in {"verify", "magic"}
          PROVE  issued'[y].to = email[x]
      <4>1. CASE y = t
        BY <1>4, <1>6, <1>7, <3>2, <4>1
      <4>2. CASE y # t
        BY <1>7, <2>2, <3>2, <4>2 DEF InTurns, StaysOrMoved
      <4> QED
        BY <4>1, <4>2
    <3> QED
      BY <3>1, <3>2
  <2> QED
    BY <2>1, <2>2
<1>22. VerifiedIsUsed'
  <2> SUFFICES ASSUME ~AutoVerify, NEW x \in users, verified[x]
               PROVE  UsedAt(x, email[x], {"verify", "magic", "change"})'
    BY <1>10 DEF VerifiedIsUsed
  <2>1. PICK e, kinds : e = email[x] /\ kinds = {"verify", "magic", "change"}
    OBVIOUS
  <2>2. UsedAt(x, e, kinds)
    BY <2>1 DEF InTurns, VerifiedIsUsed
  <2>3. UsedAt(x, e, kinds)'
    BY <1>20, <2>2
  <2> QED
    BY <1>10, <2>1, <2>3 DEF UsedAt
<1>23. TokenSingleUse'
  BY <1>2 DEF InTurns, TokenSingleUse
<1> QED
  BY <1>14, <1>18, <1>19, <1>21, <1>22, <1>23 DEF InTurns

\* The address applied is the one the presented token went to.
LEMMA ConfirmTurn ==
  ASSUME IInv, InTurns, OneAtATime', NEW r \in Requests, ConfirmEmailChange(r)
  PROVE  InTurns'
<1>1. PICK c : c = call[r]
  OBVIOUS
<1>2. c \in Call /\ CallOK(c) /\ CallCurrent(c)
  BY <1>1 DEF InTurns, CallsCurrent, IInv, TypeOK, CallsOK
<1>3. c.step = "redeem" /\ c.kind = "change" /\ ~At(r, "idle")
  BY <1>1 DEF ConfirmEmailChange, At
<1>4. PICK u, t : u = c.user /\ t = c.tok /\ t \in Tokens
  BY <1>2, <1>3 DEF CallOK
<1>5. u \in users /\ users \subseteq UserIDs
  BY <1>1, <1>4 DEF ConfirmEmailChange, ApplyEmailChange, IInv, TypeOK, StoreTypeOK
<1>6. /\ UNCHANGED <<users, password, verified, hash, origin, issued, spent, reused>>
      /\ email' = [email EXCEPT ![u] = pending[u]]
      /\ pending' = [pending EXCEPT ![u] = Blank]
  BY <1>1, <1>4 DEF ConfirmEmailChange, ApplyEmailChange, history
<1>7. /\ email'[u] = pending[u]
      /\ \A x \in UserIDs : x # u => email'[x] = email[x] /\ pending'[x] = pending[x]
  BY <1>5, <1>6 DEF IInv, TypeOK, StoreTypeOK
<1>8. Known(t) /\ issued[t].kind = "change" /\ issued[t].user = u /\ hash["change"][u] = t
  BY <1>2, <1>3, <1>4, <1>5 DEF CallOK, CallCurrent
<1>9. PICK next : next = [c EXCEPT !.step = "clear"]
  OBVIOUS
<1>10. /\ next.step = "clear" /\ next.user = u /\ next.kind = "change" /\ next.tok = t
       /\ next.mark = c.mark
  BY <1>2, <1>3, <1>4, <1>9 DEF Call
<1>11. call' = [call EXCEPT ![r] = next]
  BY <1>1, <1>9 DEF ConfirmEmailChange, Goto
<1>12. /\ call'[r] = next
       /\ \A q \in Requests : q # r => call'[q] = call[q] /\ call[q].step = "idle"
  BY <1>3, <1>11, OthersIdle DEF InTurns
<1>13. /\ CallsCurrent'
       /\ \A x \in Tokens : Used(x)' <=> x \in spent' \/ x = t
       /\ Confirming(u)'
  <2>1. \A q \in Requests : q # r => call'[q].step = "idle"
    BY <1>12
  <2>2. CallCurrent(call[r])'
    BY <1>2, <1>3, <1>4, <1>5, <1>6, <1>8, <1>10, <1>12 DEF CallCurrent, Working, Fresh,
       SettingSteps
  <2> QED
    BY <1>5, <1>10, <1>12, <2>1, <2>2, OnlyOneBusyNext
<1>14. /\ \A x \in Tokens : Used(x) <=> x \in spent
       /\ \A x \in UserIDs : ~Confirming(x)
  BY <1>1, <1>3, <1>12, OnlyOneBusy
<1>15. \A x \in Tokens : Used(x) => Used(x)'
  BY <1>6, <1>13, <1>14
<1>16. PendingIsSent'
  <2> SUFFICES ASSUME NEW x \in users, hash["change"][x] # NoToken
               PROVE  pending'[x] = issued[hash["change"][x]].to \/ Confirming(x)'
    BY <1>6 DEF PendingIsSent
  <2>1. CASE x = u
    BY <1>13, <2>1
  <2>2. CASE x # u
    BY <1>5, <1>7, <1>14, <2>2 DEF InTurns, PendingIsSent
  <2> QED
    BY <2>1, <2>2
<1>17. IssuedToCreated'
  BY <1>6 DEF InTurns, IssuedToCreated, Known, Fresh
<1>18. ASSUME NEW x, NEW a, NEW kinds, UsedAt(x, a, kinds) PROVE UsedAt(x, a, kinds)'
  BY <1>6, <1>15, <1>18, UsedAtKept DEF Known
<1>19. pending[u] = issued[t].to
  <2>1. t # NoToken
    BY <1>4, NoneAssumption
  <2> QED
    BY <1>5, <1>8, <1>14, <2>1 DEF InTurns, PendingIsSent
<1>20. UsedAt(u, email[u], {"change"})'
  BY <1>4, <1>6, <1>7, <1>8, <1>13, <1>19 DEF UsedAt, Known
<1>21. StaysOrMoved'
  <2> SUFFICES ASSUME NEW x \in users, x # u
               PROVE  \/ UsedAt(x, email[x], {"change"})'
                      \/ /\ email'[x] = origin[x]
                         /\ \A y \in Tokens : /\ Known(y) /\ issued[y].user = x
                                              /\ issued[y].kind \in {"verify", "magic"}
                                              => issued[y].to = email'[x]
    BY <1>6, <1>20 DEF StaysOrMoved, Known
  <2>1. email'[x] = email[x]
    BY <1>5, <1>7
  <2>2. CASE UsedAt(x, email[x], {"change"})
    <3>1. PICK a : a = email[x]
      OBVIOUS
    <3>2. UsedAt(x, a, {"change"})'
      BY <1>18, <2>2, <3>1
    <3> QED
      BY <2>1, <3>1, <3>2 DEF UsedAt
  <2>3. CASE ~UsedAt(x, email[x], {"change"})
    BY <2>1, <2>3 DEF InTurns, StaysOrMoved
  <2> QED
    BY <2>2, <2>3
<1>22. VerifiedIsUsed'
  <2> SUFFICES ASSUME ~AutoVerify, NEW x \in users, verified[x]
               PROVE  UsedAt(x, email[x], {"verify", "magic", "change"})'
    BY <1>6 DEF VerifiedIsUsed
  <2>1. CASE x = u
    BY <1>20, <2>1 DEF UsedAt
  <2>2. CASE x # u
    <3>1. email'[x] = email[x]
      BY <1>5, <1>7, <2>2
    <3>2. PICK e, kinds : e = email[x] /\ kinds = {"verify", "magic", "change"}
      OBVIOUS
    <3>3. UsedAt(x, e, kinds)
      BY <3>2 DEF InTurns, VerifiedIsUsed
    <3>4. UsedAt(x, e, kinds)'
      BY <1>18, <3>3
    <3> QED
      BY <3>1, <3>2, <3>4 DEF UsedAt
  <2> QED
    BY <2>1, <2>2
<1>23. TokenSingleUse'
  BY <1>6 DEF InTurns, TokenSingleUse
<1> QED
  BY <1>13, <1>16, <1>17, <1>21, <1>22, <1>23 DEF InTurns

\* The token that is spent is the account's outstanding one, so nobody has spent
\* it before.
LEMMA ClearTurn ==
  ASSUME IInv, InTurns, OneAtATime', NEW r \in Requests, RedeemClear(r)
  PROVE  InTurns'
<1>1. PICK c : c = call[r]
  OBVIOUS
<1>2. c \in Call /\ CallOK(c) /\ CallCurrent(c)
  BY <1>1 DEF InTurns, CallsCurrent, IInv, TypeOK, CallsOK
<1>3. c.step = "clear" /\ ~At(r, "idle")
  BY <1>1 DEF RedeemClear, At
<1>4. PICK k, u, t : k = c.kind /\ u = c.user /\ t = c.tok /\ t \in Tokens
  BY <1>2, <1>3 DEF CallOK
<1>5. /\ ClearToken(k, u) /\ spent' = spent \cup {t}
      /\ reused' = IF t \in spent THEN reused \cup {t} ELSE reused
      /\ UNCHANGED <<now, origin, issued>>
  BY <1>1, <1>4 DEF RedeemClear
<1>6. u \in users /\ users \subseteq UserIDs /\ k \in Kinds
  BY <1>2, <1>4, <1>5 DEF Call, ClearToken, IInv, TypeOK, StoreTypeOK
<1>7. Known(t) /\ issued[t].kind = k /\ issued[t].user = u /\ hash[k][u] = t
  BY <1>2, <1>3, <1>4, <1>6 DEF CallOK, CallCurrent
<1>8. reused' = {}
  BY <1>5, <1>6, <1>7 DEF IInv, SpentTokenRefused, Outstanding, InTurns, TokenSingleUse
<1>9. UNCHANGED <<users, email, password, verified>>
  BY <1>5 DEF ClearToken
<1>10. /\ hash'[k][u] = NoToken
       /\ \A l \in Kinds, x \in UserIDs : l # k \/ x # u => hash'[l][x] = hash[l][x]
       /\ \A x \in UserIDs : x # u \/ k # "change" => pending'[x] = pending[x]
  BY <1>5, <1>6 DEF ClearToken, IInv, TypeOK, StoreTypeOK
<1>11. PICK next : /\ call' = [call EXCEPT ![r] = next] /\ next.step # "clear"
                   /\ CallCurrent(next)'
  <2>1. CASE c.mark
    <3>1. PICK next : next = [c EXCEPT !.step = "mark"]
      OBVIOUS
    <3>2. next.step = "mark" /\ next.user = u /\ next.tok = t
      BY <1>2, <1>4, <3>1 DEF Call
    <3>3. k = "magic" /\ ~Fresh(u)
      BY <1>2, <1>3, <1>4, <2>1 DEF CallCurrent, Working
    <3>4. CallCurrent(next)'
      BY <1>5, <1>7, <3>2, <3>3 DEF CallCurrent, Fresh, Working
    <3>5. call' = [call EXCEPT ![r] = next]
      BY <1>1, <2>1, <3>1 DEF RedeemClear, Goto
    <3> QED
      BY <3>2, <3>4, <3>5
  <2>2. CASE ~c.mark
    <3>1. PICK next : next = Idle
      OBVIOUS
    <3>2. CallCurrent(next)' /\ next.step # "clear"
      BY <3>1, IdleCurrent DEF CallCurrent, Working, SettingSteps
    <3>3. call' = [call EXCEPT ![r] = next]
      BY <1>1, <2>2, <3>1 DEF RedeemClear, Finish, Goto
    <3> QED
      BY <3>2, <3>3
  <2> QED
    BY <2>1, <2>2
<1>12. /\ call'[r] = next
       /\ \A q \in Requests : q # r => call'[q] = call[q] /\ call[q].step = "idle"
  BY <1>3, <1>11, OthersIdle DEF InTurns
<1>13. /\ CallsCurrent'
       /\ \A x \in Tokens : Used(x)' <=> x \in spent'
  <2>1. \A q \in Requests : q # r => call'[q].step = "idle"
    BY <1>12
  <2>2. CallCurrent(call[r])'
    BY <1>11, <1>12 DEF CallCurrent
  <2> QED
    BY <1>11, <1>12, <2>1, <2>2, OnlyOneBusyNext
<1>14. /\ \A x \in Tokens : Used(x) <=> x \in spent \/ x = t
       /\ \A x \in UserIDs : Confirming(x) <=> k = "change" /\ x = u
  BY <1>1, <1>3, <1>4, <1>12, OnlyOneBusy
<1>15. \A x \in Tokens : Used(x) => Used(x)'
  BY <1>5, <1>13, <1>14
<1>16. PendingIsSent'
  <2> SUFFICES ASSUME NEW x \in users, hash'["change"][x] # NoToken
               PROVE  pending'[x] = issued[hash'["change"][x]].to
    BY <1>5, <1>9 DEF PendingIsSent
  <2>1. "change" \in Kinds /\ x \in UserIDs
    BY <1>6 DEF Kinds
  <2>2. x # u \/ k # "change"
    BY <1>10
  <2>3. hash'["change"][x] = hash["change"][x] /\ pending'[x] = pending[x] /\ ~Confirming(x)
    BY <1>10, <1>14, <2>1, <2>2
  <2> QED
    BY <2>3 DEF InTurns, PendingIsSent
<1>17. IssuedToCreated'
  BY <1>5 DEF InTurns, IssuedToCreated, Known, Fresh
<1>18. ASSUME NEW x, NEW a, NEW kinds, UsedAt(x, a, kinds) PROVE UsedAt(x, a, kinds)'
  BY <1>5, <1>15, <1>18, UsedAtKept DEF Known
<1>19. StaysOrMoved'
  <2> SUFFICES ASSUME NEW x \in users
               PROVE  \/ UsedAt(x, email[x], {"change"})'
                      \/ /\ email[x] = origin[x]
                         /\ \A y \in Tokens : /\ Known(y) /\ issued[y].user = x
                                              /\ issued[y].kind \in {"verify", "magic"}
                                              => issued[y].to = email[x]
    BY <1>5, <1>9 DEF StaysOrMoved, Known
  <2>1. CASE UsedAt(x, email[x], {"change"})
    <3>1. PICK a : a = email[x]
      OBVIOUS
    <3>2. UsedAt(x, a, {"change"})'
      BY <1>18, <2>1, <3>1
    <3> QED
      BY <1>9, <3>1, <3>2 DEF UsedAt
  <2>2. CASE ~UsedAt(x, email[x], {"change"})
    BY <2>2 DEF InTurns, StaysOrMoved
  <2> QED
    BY <2>1, <2>2
<1>20. VerifiedIsUsed'
  <2> SUFFICES ASSUME ~AutoVerify, NEW x \in users, verified[x]
               PROVE  UsedAt(x, email[x], {"verify", "magic", "change"})'
    BY <1>9 DEF VerifiedIsUsed
  <2>1. PICK e, kinds : e = email[x] /\ kinds = {"verify", "magic", "change"}
    OBVIOUS
  <2>2. UsedAt(x, e, kinds)
    BY <2>1 DEF InTurns, VerifiedIsUsed
  <2>3. UsedAt(x, e, kinds)'
    BY <1>18, <2>2
  <2> QED
    BY <1>9, <2>1, <2>3 DEF UsedAt
<1>21. TokenSingleUse'
  BY <1>8 DEF TokenSingleUse
<1> QED
  BY <1>13, <1>16, <1>17, <1>19, <1>20, <1>21 DEF InTurns

\* Every step of callers that take turns.
LEMMA TurnStep ==
  ASSUME IInv, InTurns, OneAtATime', Next
  PROVE  InTurns'
<1>1. ASSUME Tick PROVE InTurns'
  <2>1. /\ UNCHANGED <<users, email, password, verified, pending, hash, call, origin, issued,
                       spent, reused>>
    BY <1>1 DEF Tick, storeVars, fields, history
  <2>2. CallsCurrent'
    <3> SUFFICES ASSUME NEW q \in Requests PROVE CallCurrent(call[q])'
      BY DEF CallsCurrent
    <3>1. CallCurrent(call[q])
      BY DEF InTurns, CallsCurrent
    <3> QED
      BY <2>1, <3>1 DEF CallCurrent, Fresh
  <2>3. \A t \in Tokens : Used(t) => Used(t)'
    BY <2>1 DEF Used, At
  <2>4. \A u \in users : Confirming(u) => Confirming(u)'
    BY <2>1 DEF Confirming, At
  <2>5. PendingIsSent' /\ IssuedToCreated' /\ StaysOrMoved' /\ TokenSingleUse'
    BY <2>1, <2>3, <2>4, AccountsKept
  <2>6. VerifiedIsUsed'
    BY <2>1, <2>3, VerifiedKept
  <2> QED
    BY <2>2, <2>5, <2>6 DEF InTurns
<1>2. ASSUME ImportUser PROVE InTurns'
  <2>1. PICK u \in UserIDs, e \in Emails, p \in {"none", "marker"} :
          /\ Fresh(u) /\ CreateUser(u, e, p, AutoVerify)
          /\ origin' = [origin EXCEPT ![u] = e] /\ UNCHANGED <<now, call, issued, spent, reused>>
    BY <1>2 DEF ImportUser
  <2>2. call' = call /\ UNCHANGED <<issued, spent, reused>>
    BY <2>1
  <2> QED
    BY <2>1, <2>2, CreateTurn
<1>3. ASSUME DeleteAccount PROVE InTurns'
  BY <1>3, DeleteTurn
<1>4. ASSUME NEW r \in Requests, RegisterCreate(r) PROVE InTurns'
  <2>1. PICK e : e = call[r].addr
    OBVIOUS
  <2>2. e \in Emails
    BY <1>4, <2>1 DEF RegisterCreate, IInv, CallsOK, CallOK, At
  <2>3. PICK u \in UserIDs, p \in Passwords :
          /\ Fresh(u) /\ CreateUser(u, e, p, AutoVerify)
          /\ origin' = [origin EXCEPT ![u] = e] /\ UNCHANGED <<now, issued, spent, reused>>
    BY <1>4, <2>1 DEF RegisterCreate
  <2>4. At(r, "create") /\ call' = [call EXCEPT ![r] = Idle]
    BY <1>4 DEF RegisterCreate, Finish, Goto
  <2> QED
    BY <2>2, <2>3, <2>4, CreateTurn
<1>5. ASSUME NEW r \in Requests,
             \/ RegisterLookup(r) \/ RegisterFail(r)
             \/ SendLookup(r) \/ RequestEmailChange(r) \/ SendStore(r) \/ SendFail(r)
             \/ RedeemLookup(r) \/ ResetPassword(r) \/ VerifyEmail(r) \/ ConfirmEmailChange(r)
             \/ RedeemFail(r) \/ RedeemClear(r) \/ ClearFail(r) \/ MagicLinkMark(r)
             \/ ChangePassword(r) \/ InitialPassword(r) \/ LoginVerify(r)
             \/ SetPassword(r) \/ SetPasswordFail(r)
      PROVE  InTurns'
  <2>1. CASE SendStore(r) \/ ConfirmEmailChange(r) \/ RedeemClear(r)
    BY <2>1, SendTurn, ConfirmTurn, ClearTurn
  <2>2. CASE ResetPassword(r) \/ SetPassword(r) \/ VerifyEmail(r) \/ MagicLinkMark(r)
    BY <2>2, PasswordTurn, VerifyTurn
  <2>3. CASE \/ RegisterFail(r) \/ SendFail(r) \/ RedeemFail(r) \/ ClearFail(r)
             \/ SetPasswordFail(r)
    BY <2>3, FailTurn
  <2>4. CASE \/ RegisterLookup(r) \/ SendLookup(r) \/ RequestEmailChange(r) \/ RedeemLookup(r)
             \/ ChangePassword(r) \/ InitialPassword(r) \/ LoginVerify(r)
    BY <2>4, LookupTurn
  <2> QED
    BY <1>5, <2>1, <2>2, <2>3, <2>4
<1> QED
  BY <1>1, <1>2, <1>3, <1>4, <1>5 DEF Next

\* The invariant of callers that take turns.
LEMMA TurnsInvariant == TurnsSpec => []TurnsInv
<1>1. TurnsInit => TurnsInv
  <2> SUFFICES ASSUME TurnsInit PROVE TurnsInv
    OBVIOUS
  <2>1. Init /\ IInv
    BY InitIInv DEF TurnsInit
  <2>2. \A q \in Requests : call[q] = Idle
    BY <2>1 DEF Init
  <2>3. OneAtATime /\ CallsCurrent
    BY <2>2, IdleCurrent DEF OneAtATime, CallsCurrent, At
  <2>4. users = {} /\ reused = {} /\ \A t \in Tokens : ~Known(t)
    BY <2>1 DEF Init, StoreInit, Known
  <2>5. PendingIsSent /\ IssuedToCreated /\ StaysOrMoved /\ VerifiedIsUsed /\ TokenSingleUse
    BY <2>4 DEF PendingIsSent, IssuedToCreated, StaysOrMoved, VerifiedIsUsed, TokenSingleUse
  <2> QED
    BY <2>1, <2>3, <2>5 DEF TurnsInv, InTurns
<1>2. TurnsInv /\ [TurnsNext]_<<vars, callers>> => TurnsInv'
  <2> SUFFICES ASSUME TurnsInv, [TurnsNext]_<<vars, callers>> PROVE TurnsInv'
    OBVIOUS
  <2>1. IInv /\ [Next]_vars
    BY DEF TurnsInv, TurnsNext
  <2>2. IInv'
    BY <2>1, NextIInv
  <2>3. CASE TurnsNext
    <3>1. callers' = callers /\ Next
      BY <2>3 DEF TurnsNext
    <3>2. ASSUME callers = "in turns" PROVE InTurns'
      <4>1. OneAtATime'
        BY <2>3, <3>2 DEF TurnsNext, TakingTurns, Busy, OneAtATime, At
      <4> QED
        BY <2>1, <3>1, <3>2, <4>1, TurnStep DEF TurnsInv
    <3> QED
      BY <2>2, <3>1, <3>2 DEF TurnsInv
  <2>4. CASE UNCHANGED <<vars, callers>>
    <3>1. /\ UNCHANGED <<users, email, password, verified, pending, hash, call, origin, issued,
                         spent, reused>>
          /\ callers' = callers
      BY <2>4 DEF vars, storeVars, fields, history
    <3>2. InTurns => InTurns'
      <4> SUFFICES ASSUME InTurns PROVE InTurns'
        OBVIOUS
      <4>1. OneAtATime'
        BY <3>1 DEF InTurns, OneAtATime, At
      <4>2. CallsCurrent'
        <5> SUFFICES ASSUME NEW q \in Requests PROVE CallCurrent(call[q])'
          BY DEF CallsCurrent
        <5>1. CallCurrent(call[q])
          BY DEF InTurns, CallsCurrent
        <5> QED
          BY <3>1, <5>1 DEF CallCurrent, Fresh
      <4>3. \A t \in Tokens : Used(t) => Used(t)'
        BY <3>1 DEF Used, At
      <4>4. \A u \in users : Confirming(u) => Confirming(u)'
        BY <3>1 DEF Confirming, At
      <4>5. PendingIsSent' /\ IssuedToCreated' /\ StaysOrMoved' /\ TokenSingleUse'
        BY <2>1, <3>1, <4>3, <4>4, AccountsKept
      <4>6. VerifiedIsUsed'
        BY <2>1, <3>1, <4>3, VerifiedKept
      <4> QED
        BY <4>1, <4>2, <4>5, <4>6 DEF InTurns
    <3> QED
      BY <2>2, <3>1, <3>2 DEF TurnsInv
  <2> QED
    BY <2>3, <2>4
<1> QED
  BY <1>1, <1>2, PTL DEF TurnsSpec

\* As long as requests come one after the other, an account only moves to an
\* address, and is only verified at one, whose own token was presented, and no
\* token is redeemed twice (ConfirmEmailChange, VerifyEmail, VerifyMagicLink).
THEOREM TurnsAreProven == TurnsSpec => []ProvenInTurns
<1>1. TurnsInv => ProvenInTurns
  <2> SUFFICES ASSUME IInv, InTurns
               PROVE  ChangedAddressIsProven /\ VerifiedIsProven /\ TokenSingleUse
    BY DEF TurnsInv, ProvenInTurns
  <2>1. \A t \in Tokens : Used(t) => Presented(t)
    BY DEF Used, Presented
  <2>2. \A u, kinds : UsedAt(u, email[u], kinds) => Proven(u, kinds)
    BY <2>1 DEF UsedAt, Proven
  <2>3. ChangedAddressIsProven
    BY <2>2 DEF InTurns, StaysOrMoved, ChangedAddressIsProven
  <2>4. VerifiedIsProven
    BY <2>2 DEF InTurns, VerifiedIsUsed, VerifiedIsProven
  <2> QED
    BY <2>3, <2>4 DEF InTurns
<1> QED
  BY <1>1, TurnsInvariant, PTL

\* As long as requests come one after the other, a password the user has chosen
\* is not replaced by a first password or an adopted one (ChangePassword without
\* the current password, and the migration at login).
THEOREM ChosenPasswordsSurvive == TurnsSpec => ChosenPasswordSurvives
<1>1. ASSUME TurnsInv, [TurnsNext]_<<vars, callers>>
      PROVE  [callers = "in turns" => KeepsChosenPassword]_<<vars, callers>>
  <2> SUFFICES ASSUME TurnsNext, IInv, InTurns, NEW r \in Requests, NEW u \in users,
                      call[r].step \in {"initialPassword", "migrate"}, call'[r] = Idle,
                      password[u] \in Passwords
               PROVE  password'[u] = password[u]
    BY <1>1 DEF TurnsInv, KeepsChosenPassword
  <2>1. Next
    BY DEF TurnsNext
  <2>2. call \in [Requests -> Call] /\ users \subseteq UserIDs
    BY DEF IInv, TypeOK, StoreTypeOK
  <2>3. call'[r] # call[r]
    BY IdleCurrent
  <2>4. ~(Tick \/ ImportUser \/ DeleteAccount)
    BY <2>3 DEF Tick, ImportUser, DeleteAccount
  <2>5. PICK q \in Requests :
       \/ RegisterLookup(q) \/ RegisterCreate(q) \/ RegisterFail(q)
       \/ SendLookup(q) \/ RequestEmailChange(q) \/ SendStore(q) \/ SendFail(q)
       \/ RedeemLookup(q) \/ ResetPassword(q) \/ VerifyEmail(q) \/ ConfirmEmailChange(q)
       \/ RedeemFail(q) \/ RedeemClear(q) \/ ClearFail(q) \/ MagicLinkMark(q)
       \/ ChangePassword(q) \/ InitialPassword(q) \/ LoginVerify(q)
       \/ SetPassword(q) \/ SetPasswordFail(q)
    BY <2>1, <2>4 DEF Next
  <2>6. q = r
    <3>1. \E next : call' = [call EXCEPT ![q] = next]
      <4>1. CASE \/ RegisterLookup(q) \/ SendLookup(q) \/ RequestEmailChange(q) \/ RedeemLookup(q)
                 \/ ChangePassword(q) \/ InitialPassword(q) \/ LoginVerify(q)
        BY <4>1 DEF RegisterLookup, SendLookup, RequestEmailChange, RedeemLookup,
                    ChangePassword, InitialPassword, LoginVerify, Goto
      <4>2. CASE \/ ResetPassword(q) \/ VerifyEmail(q) \/ ConfirmEmailChange(q) \/ RedeemClear(q)
        BY <4>2 DEF ResetPassword, VerifyEmail, ConfirmEmailChange, RedeemClear, Goto, Finish
      <4>3. CASE \/ RegisterCreate(q) \/ RegisterFail(q) \/ SendStore(q) \/ SendFail(q)
                 \/ RedeemFail(q) \/ ClearFail(q) \/ MagicLinkMark(q)
                 \/ SetPassword(q) \/ SetPasswordFail(q)
        BY <4>3 DEF RegisterCreate, RegisterFail, SendStore, SendFail, RedeemFail, ClearFail,
                    MagicLinkMark, SetPassword, SetPasswordFail, Fail, Finish, Goto
      <4> QED
        BY <2>5, <4>1, <4>2, <4>3
    <3> QED
      BY <2>2, <2>3, <3>1
  <2>7. SetPassword(r) \/ SetPasswordFail(r)
    BY <2>5, <2>6 DEF At, RegisterLookup, RegisterCreate, RegisterFail, SendLookup,
       RequestEmailChange, SendStore, SendFail, RedeemLookup, ResetPassword, VerifyEmail,
       ConfirmEmailChange, RedeemFail, RedeemClear, ClearFail, MagicLinkMark, ChangePassword,
       InitialPassword, LoginVerify
  <2>8. CASE SetPasswordFail(r)
    BY <2>8 DEF SetPasswordFail, Fail, Local, storeVars, fields
  <2>9. CASE SetPassword(r)
    <3>1. PICK p \in Passwords : UpdatePassword(call[r].user, p)
      BY <2>9 DEF SetPassword
    <3>2. call[r].user \in users /\ password' = [password EXCEPT ![call[r].user] = p]
      BY <3>1 DEF UpdatePassword
    <3>3. password[call[r].user] \in {"none", "marker"}
      BY <3>2 DEF InTurns, CallsCurrent, CallCurrent
    <3>4. u # call[r].user
      BY <3>3, AccountAssumption
    <3> QED
      BY <2>2, <3>2, <3>4 DEF IInv, TypeOK, StoreTypeOK
  <2> QED
    BY <2>7, <2>8, <2>9
<1> QED
  BY <1>1, TurnsInvariant, PTL DEF TurnsSpec, ChosenPasswordSurvives

-----------------------------------------------------------------------------
(***************************************************************************)
(* Mail and delivery.                                                      *)
(*                                                                         *)
(* A message is written from what its call has read, and delivered after   *)
(* others have moved the account and replaced the token.  What a message   *)
(* must satisfy is therefore stated of the message alone (MessageFine) and *)
(* already asked of the one a call holds.  It lasts because nothing a      *)
(* message rests on is taken back: an address once had stays one, a token  *)
(* is minted once, and a newer change token outdates the older for good.   *)
(* The announcement of a new address rests on one fact about overlapping:  *)
(* two calls that change the address of one user are both marked, so what  *)
(* an unmarked confirmation has read is what it applies (see Marked).   *)
(***************************************************************************)

(***************************************************************************)
(* The inductive invariant.                                                *)
(***************************************************************************)
Sends == {"reset", "verify", "change", "magic", "stepup", "sms"}
Underway  == {"store", "apply", "clear", "render", "transport"}
Places == Underway \cup {"waiting", "lookup", "done"}

\* An index entry leads to the account that has the address.
IndexFine == \A e \in Addresses : byEmail[e] # NoID => email[byEmail[e]] = e

\* A token is minted once.
IssuedFine ==
  /\ minted \subseteq [tok : Tokens, kind : Kinds, user : UserIDs]
  /\ \A i, j \in minted : i.tok = j.tok => i = j

MintedFor(t, k, u) == [tok |-> t, kind |-> k, user |-> u] \in minted

\* Whoever holds a token of the kind at this address may redeem it.
Reaches(k, u, to) ==
  /\ k \in {"reset", "magic", "verify"} => to \in Had(u)
  /\ k = "sms" => to = u

\* While a change token is the one outstanding, the address pending is the one
\* it was sent to.
Latest(u, t, to) == hash["change"][u] = t /\ pending[u] # Blank => to = pending[u]

MessageFine(m) ==
  /\ m.kind \in Senders
  /\ m.base \in dep.allowed \cup {dep.site, dep.base, NoSite}
  /\ (m.body.html = 0 <=> m.body.text = 0) /\ (m.body.html = 0 => m.body.subject = 0)
  /\ \/ m.tok = NoToken
     \/ /\ m.tok \in Tokens /\ m.path = LinkPath(m.kind)
        /\ \E u \in UserIDs : /\ MintedFor(m.tok, m.kind, u) /\ Reaches(m.kind, u, m.to)
                              /\ m.kind = "change" => Latest(u, m.tok, m.to)

\* Where a call can be, and what it has in hand there.
ShapeFine(v) ==
  /\ v.step \in Places
  /\ v.step = "lookup" => v.route = "stepup" /\ v.to \in Addresses
  /\ v.step = "store" => v.route \in Sends
  /\ v.step \in {"apply", "clear"} => v.route = "confirm"
  /\ v.step \in {"render", "transport"} => v.route \in Sends \cup {"confirm"}
  /\ v.step \in Underway => v.user \in UserIDs
  /\ v.step \in Underway \ {"transport"} => {"step", "route", "user", "to", "tok", "base"} \subseteq DOMAIN v
  /\ v.step \in Underway /\ v.route = "confirm" =>
       /\ v.tok = NoToken /\ v.to \in Addresses /\ v.new \in Addresses
       /\ "new" \in DOMAIN v

\* A token is on its way to the person it is for.
SendFine(v) ==
  /\ v.step \in Underway \ {"transport"} => v.base \in dep.allowed \cup {dep.site, NoSite}
  /\ v.step \in {"store", "render", "transport"} /\ v.route # "confirm" =>
       /\ Reaches(KindOf(v.route), v.user, v.to)
       /\ v.route = "change" => v.to \in Emails
       /\ v.route \in {"magic", "stepup"} => dep.sender["magic"] # "none"
  /\ v.step \in {"render", "transport"} /\ v.route # "confirm" =>
       /\ v.tok \in Tokens /\ MintedFor(v.tok, KindOf(v.route), v.user)
       /\ v.route = "change" => Latest(v.user, v.tok, v.to)
  /\ v.step \in {"render", "transport"} /\ v.route = "confirm" => dep.sender["changed"] # "none"
  /\ v.step = "transport" =>
       /\ MessageFine(v.msg) /\ v.msg.tok = v.tok
       /\ v.route = "confirm" => v.msg.kind = "changed" /\ v.msg.to = v.to /\ v.msg.new = v.new

\* The answer of a call that has ended (AnswersAreTrue).
AnswerFine(v) ==
  v.step = "done" =>
    LET r == v.route a == v.answer IN
    /\ a = "success" /\ r # "reset" /\ v.tok # NoToken /\ dep.sender[KindOf(r)] # "none" => Sent(v.tok)
    /\ r = "reset" /\ a = "success" /\ ~v.hurt /\ v.tok # NoToken /\ dep.sender["reset"] # "none"
         => Sent(v.tok)
    /\ a = "INTERNAL" => v.hurt \/ r = "confirm"
    /\ r \in {"reset", "magic"} /\ ~v.hurt
         => a = IF r = "magic" /\ dep.sender["magic"] = "none" THEN "NOT_CONFIGURED" ELSE "success"

CallsFine == \A c \in Calls : ShapeFine(at[c]) /\ SendFine(at[c]) /\ AnswerFine(at[c])
InboxFine == \A m \in inbox : MessageFine(m)

\* Two calls that change one user's address are both marked.
Marked ==
  \A c, d \in Calls :
    c # d /\ ChangesAddress(c) /\ ChangesAddress(d) /\ at[c].user = at[d].user
      => c \in overlapped

\* What an unmarked confirmation has read is what it applies, and what it has
\* applied is what it will announce.
Announces(c, v) ==
  /\ v.step = "apply" => email[v.user] = v.to /\ pending[v.user] = v.new
  /\ v.step \in {"clear", "render", "transport"} /\ v.route = "confirm" =>
       [by |-> c, user |-> v.user, from |-> v.to, to |-> v.new] \in moves

ConfirmsFine == \A c \in Calls : c \notin overlapped => Announces(c, at[c])

EventsFine ==
  \A e \in events :
    /\ dep.sender["changed"] # "none"
         => \E m \in inbox : [kind |-> m.kind, to |-> m.to, new |-> m.new] = Notice(e)
    /\ e.by \in overlapped \/ e \in moves

Confirmed ==
  \A c \in Calls : Ended(c) /\ at[c].route = "confirm" /\ at[c].answer = "success"
    => \E e \in events : e.by = c

DepFine ==
  DOMAIN dep = {"sender", "locale", "templates", "allowed", "site", "base", "routes", "langs",
                "headers", "calls", "patches", "failures"}

\* The keys the template lists hold.
MailIDs == {"verify-email", "verify_email"}
Pages   == {"login", "config"}

TemplatesFine ==
  /\ DOMAIN tmpl = {"mail", "mailOrder", "ui", "uiOrder"}
  /\ tmpl.mailOrder \in Seq(MailIDs) /\ tmpl.uiOrder \in Seq(Pages)
  /\ TemplatesListed

Typed ==
  /\ StoreTypeOK
  /\ events \cup moves \subseteq [by : Calls, user : UserIDs, from : Addresses, to : Addresses]
  /\ overlapped \subseteq Calls
  /\ DOMAIN at = Calls

MailInv ==
  /\ Typed /\ DepFine /\ TemplatesFine /\ IndexFine /\ IssuedFine
  /\ CallsFine /\ InboxFine
  /\ Marked /\ ConfirmsFine /\ EventsFine /\ Confirmed

-----------------------------------------------------------------------------
(***************************************************************************)
(* What lasts.                                                             *)
(***************************************************************************)
\* A configuration changes in its bounds alone.
DepKept ==
  /\ dep'.sender = dep.sender /\ dep'.templates = dep.templates
  /\ dep'.allowed = dep.allowed /\ dep'.site = dep.site /\ dep'.base = dep.base
  /\ DepFine'

\* A store or a transport that works, or fails, leaves the configuration.
LEMMA DepIsKept ==
  ASSUME DepFine, Works \/ Fails
  PROVE  DepKept
BY DEF DepFine, Works, Fails, DepKept

\* Messages, tokens and moves are added only, and an outdated token stays so.
Grows ==
  /\ DepKept
  /\ minted \subseteq minted' /\ inbox \subseteq inbox'
  /\ \A u \in UserIDs : Had(u) \subseteq Had(u)'
  /\ \A u \in UserIDs, t \in Tokens :
       MintedFor(t, "change", u) /\ hash'["change"][u] = t /\ pending'[u] # Blank
         => hash["change"][u] = t /\ pending'[u] = pending[u]

\* What was fine of a message stays so.
LEMMA MessageStays ==
  ASSUME Grows, NEW m, MessageFine(m)
  PROVE  MessageFine(m)'
<1>1. CASE m.tok = NoToken
  BY <1>1 DEF Grows, DepKept, MessageFine
<1>2. CASE m.tok # NoToken
  <2>1. PICK u \in UserIDs : /\ MintedFor(m.tok, m.kind, u) /\ Reaches(m.kind, u, m.to)
                             /\ m.kind = "change" => Latest(u, m.tok, m.to)
    BY <1>2 DEF MessageFine
  <2>2. MintedFor(m.tok, m.kind, u)' /\ Reaches(m.kind, u, m.to)'
    BY <2>1 DEF Grows, MintedFor, Reaches
  <2>3. m.kind = "change" => Latest(u, m.tok, m.to)'
    BY <1>2, <2>1 DEF Grows, Latest, MessageFine
  <2> QED
    BY <1>2, <2>2, <2>3 DEF Grows, DepKept, MessageFine
<1> QED
  BY <1>1, <1>2

\* What was fine of a call stays so.
LEMMA CallStays ==
  ASSUME Grows, NEW v, ShapeFine(v), SendFine(v), AnswerFine(v)
  PROVE  SendFine(v)' /\ AnswerFine(v)'
<1>1. v.step = "transport" => MessageFine(v.msg)'
  BY MessageStays DEF SendFine, Underway
<1>2. \A k : Reaches(k, v.user, v.to) /\ v.user \in UserIDs => Reaches(k, v.user, v.to)'
  BY DEF Grows, Reaches
<1>3. \A k : MintedFor(v.tok, k, v.user) => MintedFor(v.tok, k, v.user)'
  BY DEF Grows, MintedFor
<1>4. /\ v.step \in {"render", "transport"} /\ v.route = "change" /\ v.user \in UserIDs
         /\ v.tok \in Tokens /\ MintedFor(v.tok, "change", v.user) /\ Latest(v.user, v.tok, v.to)
         => Latest(v.user, v.tok, v.to)'
  BY DEF Grows, Latest
<1>5. v.step \in {"store", "render", "transport"} => v.user \in UserIDs
  BY DEF ShapeFine, Underway
<1>6. SendFine(v)'
  BY <1>1, <1>2, <1>3, <1>4, <1>5 DEF SendFine, Underway, Grows, DepKept, KindOf
<1>7. \A t : Sent(t) => Sent(t)'
  BY DEF Sent, Grows
<1>8. AnswerFine(v)'
  BY <1>7 DEF AnswerFine, Grows, DepKept
<1> QED
  BY <1>6, <1>8

-----------------------------------------------------------------------------
(***************************************************************************)
(* A step of one call.                                                     *)
(***************************************************************************)
\* The calls are fine if the one that moved is.
LEMMA CallsStay ==
  ASSUME MailInv, Grows, NEW c \in Calls, NEW v, at' = [at EXCEPT ![c] = v],
         ShapeFine(v), SendFine(v)', AnswerFine(v)'
  PROVE  CallsFine' /\ DOMAIN at' = Calls
<1>1. DOMAIN at' = Calls /\ \A d \in Calls : at'[d] = IF d = c THEN v ELSE at[d]
  BY DEF MailInv, Typed
<1> SUFFICES ASSUME NEW d \in Calls PROVE (ShapeFine(at[d]) /\ SendFine(at[d]) /\ AnswerFine(at[d]))'
  BY <1>1 DEF CallsFine
<1>2. CASE d = c
  <2>1. at'[d] = v
    BY <1>1, <1>2
  <2> QED
    BY <2>1 DEF ShapeFine, SendFine, Underway, AnswerFine
<1>3. CASE d # c
  <2>1. PICK w : w = at[d]
    OBVIOUS
  <2>2. ShapeFine(w) /\ SendFine(w) /\ AnswerFine(w)
    BY <2>1 DEF MailInv, CallsFine
  <2>3. SendFine(w)' /\ AnswerFine(w)'
    BY <2>2, CallStays
  <2>4. at'[d] = w
    BY <1>1, <1>3, <2>1
  <2> QED
    BY <2>2, <2>3, <2>4 DEF ShapeFine, SendFine, Underway, AnswerFine
<1> QED
  BY <1>2, <1>3

\* Whether a call is in the middle of changing its user's address.
Changes(v) == v.step \notin {"waiting", "done"} /\ v.route \in {"change", "confirm"}

\* The marks are complete if those of the call that moved are.
LEMMA MarkedStays ==
  ASSUME MailInv, NEW c \in Calls, NEW v, at' = [at EXCEPT ![c] = v], overlapped \subseteq overlapped',
         \/ ~Changes(v)
         \/ Changes(at[c]) /\ v.user = at[c].user
         \/ \A d \in Calls \ {c} :
              ChangesAddress(d) /\ at[d].user = v.user => {c, d} \subseteq overlapped'
  PROVE  Marked'
<1>1. \A d \in Calls : at'[d] = IF d = c THEN v ELSE at[d]
  BY DEF MailInv, Typed
<1>2. \A d \in Calls : ChangesAddress(d)' <=> IF d = c THEN Changes(v) ELSE ChangesAddress(d)
  BY <1>1 DEF ChangesAddress, Changes, Is
<1> SUFFICES ASSUME NEW a \in Calls, NEW b \in Calls, a # b, ChangesAddress(a)', ChangesAddress(b)',
                    at'[a].user = at'[b].user
             PROVE  a \in overlapped'
  BY DEF Marked
<1>3. CASE a # c /\ b # c
  BY <1>1, <1>2, <1>3 DEF MailInv, Marked
<1>4. CASE a = c \/ b = c
  <2>1. Changes(v)
    BY <1>2, <1>4
  <2>2. CASE Changes(at[c]) /\ v.user = at[c].user
    <3>1. ChangesAddress(a) /\ ChangesAddress(b) /\ at[a].user = at[b].user
      BY <1>1, <1>2, <1>4, <2>2 DEF ChangesAddress, Changes, Is
    <3> QED
      BY <3>1 DEF MailInv, Marked
  <2>3. CASE \A d \in Calls \ {c} : ChangesAddress(d) /\ at[d].user = v.user => {c, d} \subseteq overlapped'
    <3>1. CASE a = c
      BY <1>1, <1>2, <2>3, <3>1
    <3>2. CASE b = c
      BY <1>1, <1>2, <2>3, <3>2
    <3> QED
      BY <1>4, <3>1, <3>2
  <2> QED
    BY <2>1, <2>2, <2>3
<1> QED
  BY <1>3, <1>4

\* A step of call c that leaves the stores, the templates and the mailboxes.
LEMMA LocalStep ==
  ASSUME MailInv, NEW c \in Calls, NEW v, at' = [at EXCEPT ![c] = v], Quiet, Works \/ Fails,
         overlapped \subseteq overlapped', overlapped' \subseteq Calls,
         ShapeFine(v), SendFine(v), AnswerFine(v),
         \/ ~Changes(v)
         \/ Changes(at[c]) /\ v.user = at[c].user
         \/ \A d \in Calls \ {c} :
              ChangesAddress(d) /\ at[d].user = v.user => {c, d} \subseteq overlapped',
         c \notin overlapped' => Announces(c, v),
         v.step = "done" /\ v.route = "confirm" => v.answer # "success"
  PROVE  MailInv'
<1>0. DepKept
  BY DepIsKept DEF MailInv
<1> USE DEF Quiet, storeVars, fields
<1>1. Grows
  BY <1>0 DEF Grows, Had, MintedFor
<1>2. SendFine(v)' /\ AnswerFine(v)'
  BY <1>1, CallStays
<1>3. CallsFine' /\ DOMAIN at' = Calls
  BY <1>1, <1>2, CallsStay
<1>4. Marked'
  BY MarkedStays
<1>5. Typed' /\ DepFine' /\ TemplatesFine' /\ IndexFine' /\ IssuedFine'
  BY <1>0, <1>3 DEF MailInv, Typed, StoreTypeOK, DepKept, TemplatesFine, TemplatesListed, IndexFine, IssuedFine
<1>6. InboxFine'
  <2> SUFFICES ASSUME NEW m \in inbox PROVE MessageFine(m)'
    BY DEF InboxFine
  <2> QED
    BY <1>1, MessageStays DEF MailInv, InboxFine
<1>7. \A d \in Calls : at'[d] = IF d = c THEN v ELSE at[d]
  BY DEF MailInv, Typed
<1>8. ConfirmsFine'
  BY <1>7 DEF MailInv, ConfirmsFine, Announces
<1>9. EventsFine'
  BY <1>0 DEF MailInv, EventsFine, DepKept, Notice
<1>10. Confirmed'
  BY <1>7 DEF MailInv, Confirmed, Ended, Is
<1> QED
  BY <1>3, <1>4, <1>5, <1>6, <1>8, <1>9, <1>10 DEF MailInv

\* A call that ends, with an answer that is true.
LEMMA EndStep ==
  ASSUME MailInv, NEW c \in Calls, NEW route, NEW answer, NEW user, NEW tok, NEW hurt,
         Done(c, route, answer, user, tok, hurt),
         Quiet, UNCHANGED overlapped, Works \/ Fails,
         AnswerFine([step |-> "done", route |-> route, answer |-> answer,
                     user |-> user, tok |-> tok, hurt |-> hurt]),
         route = "confirm" => answer # "success"
  PROVE  MailInv'
<1>1. PICK v : v = [step |-> "done", route |-> route, answer |-> answer,
                    user |-> user, tok |-> tok, hurt |-> hurt]
  OBVIOUS
<1>2. at' = [at EXCEPT ![c] = v] /\ AnswerFine(v)
  BY <1>1 DEF Done
<1>3. v.step = "done" /\ v.route = route /\ v.answer = answer
  BY <1>1
<1>4. ShapeFine(v) /\ SendFine(v) /\ ~Changes(v) /\ Announces(c, v)
  BY <1>3 DEF ShapeFine, SendFine, Changes, Announces, Places, Underway
<1>5. overlapped \subseteq overlapped' /\ overlapped' \subseteq Calls
  BY DEF MailInv, Typed
<1> QED
  BY <1>2, <1>3, <1>4, <1>5, LocalStep

-----------------------------------------------------------------------------
(***************************************************************************)
(* The routes up to the store.                                             *)
(***************************************************************************)
\* Who is found by an address has it.
LEMMA FoundHasIt ==
  ASSUME MailInv, NEW e \in Addresses, GetUserByEmail(e) # NoID
  PROVE  GetUserByEmail(e) \in UserIDs /\ e \in Had(GetUserByEmail(e))
BY DEF GetUserByEmail, MailInv, Typed, StoreTypeOK, IndexFine, Had

\* The link leads to a page of the deployment, whatever the headers say.
LEMMA SiteIsKnown ==
  ASSUME NEW h
  PROVE  ResolveSiteURL(h) \in dep.allowed \cup {dep.site, NoSite}
BY DEF ResolveSiteURL

\* Two calls on one user's address are marked as soon as the second begins.
LEMMA OverlapsMarks ==
  ASSUME MailInv, NEW c \in Calls, NEW u, Overlaps(c, u)
  PROVE  /\ overlapped \subseteq overlapped' /\ overlapped' \subseteq Calls
         /\ \A d \in Calls \ {c} : ChangesAddress(d) /\ at[d].user = u => {c, d} \subseteq overlapped'
BY DEF Overlaps, MailInv, Typed

\* A user has been found, whom a token of the kind may reach at this address.
LEMMA FoundStep ==
  ASSUME MailInv, NEW c \in Calls, NEW route \in Sends, NEW u \in UserIDs, NEW to, NEW h, NEW lang,
         Found(c, route, u, to, h, lang), Quiet, Works \/ Fails,
         Reaches(KindOf(route), u, to),
         route = "change" => to \in Emails /\ Overlaps(c, u),
         route \in {"magic", "stepup"} => dep.sender["magic"] # "none",
         route # "change" => UNCHANGED overlapped
  PROVE  MailInv'
<1>1. PICK base : base = ResolveSiteURL(h)
  OBVIOUS
<1>2. PICK rec : rec = [route |-> route, user |-> u, to |-> to, tok |-> NoToken, base |-> base, lang |-> lang]
  OBVIOUS
<1>3. PICK v : v = [f \in DOMAIN rec \cup {"step"} |-> IF f = "step" THEN "store" ELSE rec[f]]
  OBVIOUS
<1>4. at' = [at EXCEPT ![c] = v]
  BY <1>1, <1>2, <1>3 DEF Found, Going
<1>5. /\ v.step = "store" /\ v.route = route /\ v.user = u /\ v.to = to /\ v.tok = NoToken /\ v.base = base
      /\ DOMAIN v = {"route", "user", "to", "tok", "base", "lang", "step"}
  BY <1>2, <1>3
<1>6. base \in dep.allowed \cup {dep.site, NoSite}
  BY <1>1, SiteIsKnown
<1>7. ShapeFine(v)
  BY <1>5 DEF ShapeFine, Places, Underway, Sends
<1>8. SendFine(v)
  BY <1>5, <1>6 DEF SendFine, Underway, Sends
<1>9. AnswerFine(v) /\ Announces(c, v)
  BY <1>5 DEF AnswerFine, Announces
<1>10. overlapped \subseteq overlapped' /\ overlapped' \subseteq Calls
  BY OverlapsMarks DEF MailInv, Typed
<1>11. \/ ~Changes(v)
       \/ \A d \in Calls \ {c} : ChangesAddress(d) /\ at[d].user = v.user => {c, d} \subseteq overlapped'
  <2>1. CASE route = "change"
    BY <1>5, <2>1, OverlapsMarks
  <2>2. CASE route # "change"
    BY <1>5, <2>2 DEF Changes, Sends
  <2> QED
    BY <2>1, <2>2
<1> QED
  BY <1>4, <1>5, <1>7, <1>8, <1>9, <1>10, <1>11, LocalStep

\* A refusal says nothing it should not.
LEMMA RejectStep ==
  ASSUME MailInv, NEW c \in Calls, NEW route, NEW answer, NEW hurt, Reject(c, route, answer, hurt),
         Quiet, UNCHANGED overlapped, Works \/ Fails,
         answer # "INTERNAL", route = "confirm" => answer # "success",
         route \in {"reset", "magic"} /\ ~hurt =>
           answer = IF route = "magic" /\ dep.sender["magic"] = "none" THEN "NOT_CONFIGURED" ELSE "success"
  PROVE  MailInv'
<1>1. AnswerFine([step |-> "done", route |-> route, answer |-> answer,
                  user |-> NoID, tok |-> NoToken, hurt |-> hurt])
  BY DEF AnswerFine
<1> QED
  BY <1>1, EndStep DEF Reject

\* POST /forgot-password keeps the invariant.
LEMMA ForgotPasswordStep ==
  ASSUME MailInv, NEW c \in Calls, ForgotPassword(c)
  PROVE  MailInv'
<1>1. PICK e \in Emails, h \in dep.headers, lang \in dep.langs :
        \/ Works /\ GetUserByEmail(e) # NoID /\ Found(c, "reset", GetUserByEmail(e), e, h, lang)
        \/ Works /\ Reject(c, "reset", "success", FALSE)
        \/ Fails /\ Reject(c, "reset", "success", TRUE)
  BY DEF ForgotPassword
<1>2. Quiet /\ UNCHANGED overlapped
  BY DEF ForgotPassword, Ask
<1>3. CASE Works /\ GetUserByEmail(e) # NoID /\ Found(c, "reset", GetUserByEmail(e), e, h, lang)
  <2>1. GetUserByEmail(e) \in UserIDs /\ e \in Had(GetUserByEmail(e))
    BY <1>3, FoundHasIt DEF Addresses
  <2>2. Reaches(KindOf("reset"), GetUserByEmail(e), e)
    BY <2>1 DEF Reaches, KindOf
  <2> QED
    BY <1>2, <1>3, <2>1, <2>2, FoundStep DEF Sends
<1>4. CASE (Works \/ Fails) /\ \E hurt \in BOOLEAN : Reject(c, "reset", "success", hurt)
  BY <1>2, <1>4, RejectStep
<1> QED
  BY <1>1, <1>3, <1>4

\* POST /send-verification-email keeps the invariant.
LEMMA SendVerificationEmailStep ==
  ASSUME MailInv, NEW c \in Calls, SendVerificationEmail(c)
  PROVE  MailInv'
<1>1. PICK u, h, lang :
        /\ u \in users
        /\ \/ Works /\ Reject(c, "verify", "ALREADY_VERIFIED", FALSE)
           \/ Works /\ Found(c, "verify", u, email[u], h, lang)
           \/ Fails /\ Reject(c, "verify", "USER_NOT_FOUND", TRUE)
  BY DEF SendVerificationEmail
<1>2. Quiet /\ UNCHANGED overlapped
  BY DEF SendVerificationEmail, Ask
<1>3. CASE Works /\ Found(c, "verify", u, email[u], h, lang)
  <2>1. u \in UserIDs
    BY <1>1 DEF MailInv, Typed, StoreTypeOK
  <2>2. Reaches(KindOf("verify"), u, email[u])
    BY DEF Reaches, KindOf, Had
  <2> QED
    BY <1>2, <1>3, <2>1, <2>2, FoundStep DEF Sends
<1>4. CASE (Works \/ Fails) /\ \E a \in {"ALREADY_VERIFIED", "USER_NOT_FOUND"}, hurt \in BOOLEAN :
             Reject(c, "verify", a, hurt)
  BY <1>2, <1>4, RejectStep
<1> QED
  BY <1>1, <1>3, <1>4

\* POST /change-email/request keeps the invariant.
LEMMA RequestChangeLookupStep ==
  ASSUME MailInv, NEW c \in Calls, RequestChangeLookup(c)
  PROVE  MailInv'
<1>1. PICK u, e, h, lang :
        /\ u \in users /\ e \in Emails
        /\ \/ /\ Works \/ Fails
              /\ UNCHANGED overlapped
              /\ \E a \in {"PASSWORD_REQUIRED", "EMAIL_IN_USE", "USER_NOT_FOUND"}, hurt \in BOOLEAN :
                   Reject(c, "change", a, hurt)
           \/ /\ Works \/ Fails
              /\ Found(c, "change", u, e, h, lang) /\ Overlaps(c, u)
  BY DEF RequestChangeLookup
<1>2. Quiet
  BY DEF RequestChangeLookup
<1>3. CASE /\ Works \/ Fails
           /\ Found(c, "change", u, e, h, lang) /\ Overlaps(c, u)
  <2>1. u \in UserIDs
    BY <1>1 DEF MailInv, Typed, StoreTypeOK
  <2>2. Reaches(KindOf("change"), u, e)
    BY DEF Reaches, KindOf
  <2> QED
    BY <1>1, <1>2, <1>3, <2>1, <2>2, FoundStep DEF Sends
<1>4. CASE /\ Works \/ Fails
           /\ UNCHANGED overlapped
           /\ \E a \in {"PASSWORD_REQUIRED", "EMAIL_IN_USE", "USER_NOT_FOUND"}, hurt \in BOOLEAN :
                Reject(c, "change", a, hurt)
  BY <1>2, <1>4, RejectStep
<1> QED
  BY <1>1, <1>3, <1>4

\* The lookup for a magic link keeps the invariant.
LEMMA MagicLinkLookupStep ==
  ASSUME MailInv, NEW c \in Calls, NEW route \in {"magic", "stepup"}, NEW e \in Addresses, NEW h, NEW lang,
         MagicLinkLookup(c, route, e, h, lang), Ask
  PROVE  MailInv'
<1>1. Quiet /\ UNCHANGED overlapped
  BY DEF Ask
<1>2. CASE dep.sender["magic"] = "none"
  <2>1. Works /\ Reject(c, route, "NOT_CONFIGURED", FALSE)
    BY <1>2 DEF MagicLinkLookup
  <2> QED
    BY <1>1, <1>2, <2>1, RejectStep
<1>3. CASE dep.sender["magic"] # "none" /\ (Works \/ Fails)
           /\ \E hurt \in BOOLEAN : Reject(c, route, "success", hurt)
  BY <1>1, <1>3, RejectStep
<1>4. CASE /\ dep.sender["magic"] # "none" /\ Works
           /\ GetUserByEmail(e) # NoID /\ Found(c, route, GetUserByEmail(e), e, h, lang)
  <2>1. GetUserByEmail(e) \in UserIDs /\ e \in Had(GetUserByEmail(e))
    BY <1>4, FoundHasIt
  <2>2. Reaches(KindOf(route), GetUserByEmail(e), e)
    BY <2>1 DEF Reaches, KindOf
  <2> QED
    BY <1>1, <1>4, <2>1, <2>2, FoundStep DEF Sends
<1> QED
  BY <1>2, <1>3, <1>4 DEF MagicLinkLookup

\* POST /magic-link/send keeps the invariant.
LEMMA SendMagicLinkStep ==
  ASSUME MailInv, NEW c \in Calls, SendMagicLink(c)
  PROVE  MailInv'
BY MagicLinkLookupStep DEF SendMagicLink, Addresses

\* Its form for a step-up token reads the address first,
LEMMA StepUpSubjectStep ==
  ASSUME MailInv, NEW c \in Calls, StepUpSubject(c)
  PROVE  MailInv'
<1>1. PICK u, h, lang :
        /\ u \in users
        /\ \/ /\ Works
              /\ Going(c, "lookup", [route |-> "stepup", user |-> u, to |-> email[u], head |-> h, lang |-> lang])
           \/ Fails /\ Reject(c, "stepup", "USER_NOT_FOUND", TRUE)
  BY DEF StepUpSubject
<1>2. Quiet /\ UNCHANGED overlapped
  BY DEF StepUpSubject, Ask
<1>3. CASE Works /\ Going(c, "lookup", [route |-> "stepup", user |-> u, to |-> email[u], head |-> h, lang |-> lang])
  <2>1. PICK to : to = email[u]
    OBVIOUS
  <2>2. to \in Addresses
    BY <1>1, <2>1 DEF MailInv, Typed, StoreTypeOK
  <2>3. PICK rec : rec = [route |-> "stepup", user |-> u, to |-> to, head |-> h, lang |-> lang]
    OBVIOUS
  <2>4. PICK v : v = [f \in DOMAIN rec \cup {"step"} |-> IF f = "step" THEN "lookup" ELSE rec[f]]
    OBVIOUS
  <2>5. at' = [at EXCEPT ![c] = v]
    BY <1>3, <2>1, <2>3, <2>4 DEF Going
  <2>6. v.step = "lookup" /\ v.route = "stepup" /\ v.to = to
    BY <2>3, <2>4
  <2>7. ShapeFine(v) /\ SendFine(v) /\ AnswerFine(v) /\ Announces(c, v) /\ ~Changes(v)
    BY <2>2, <2>6 DEF ShapeFine, SendFine, AnswerFine, Announces, Changes, Places, Underway
  <2>8. overlapped \subseteq overlapped' /\ overlapped' \subseteq Calls
    BY <1>2 DEF MailInv, Typed
  <2> QED
    BY <1>2, <1>3, <2>5, <2>6, <2>7, <2>8, LocalStep
<1>4. CASE Fails /\ Reject(c, "stepup", "USER_NOT_FOUND", TRUE)
  BY <1>2, <1>4, RejectStep
<1> QED
  BY <1>1, <1>3, <1>4

\* and looks it up again.
LEMMA StepUpLookupStep ==
  ASSUME MailInv, NEW c \in Calls, StepUpLookup(c)
  PROVE  MailInv'
<1>1. PICK v : v = at[c]
  OBVIOUS
<1>2. v.to \in Addresses
  BY <1>1 DEF StepUpLookup, Is, MailInv, CallsFine, ShapeFine
<1>3. MagicLinkLookup(c, "stepup", v.to, v.head, v.lang) /\ Ask
  BY <1>1 DEF StepUpLookup
<1> QED
  BY <1>2, <1>3, MagicLinkLookupStep

\* POST /sms/send keeps the invariant.
LEMMA SendSMSCodeStep ==
  ASSUME MailInv, NEW c \in Calls, SendSMSCode(c)
  PROVE  MailInv'
<1>1. Quiet /\ UNCHANGED overlapped
  BY DEF SendSMSCode, Ask
<1>2. CASE (Works \/ Fails) /\ \E a \in {"NOT_CONFIGURED", "success", "PHONE_NOT_SET", "USER_NOT_FOUND"},
                                  hurt \in BOOLEAN : Reject(c, "sms", a, hurt)
  BY <1>1, <1>2, RejectStep
<1>3. ASSUME NEW u \in users, Works, Found(c, "sms", u, u, NoHeaders, "none")
      PROVE  MailInv'
  <2>1. u \in UserIDs
    BY DEF MailInv, Typed, StoreTypeOK
  <2>2. Reaches(KindOf("sms"), u, u)
    BY DEF Reaches, KindOf
  <2> QED
    BY <1>1, <1>3, <2>1, <2>2, FoundStep DEF Sends
<1> QED
  BY <1>2, <1>3 DEF SendSMSCode

\* The lookup of POST /change-email/confirm keeps the invariant.
LEMMA ConfirmLookupStep ==
  ASSUME MailInv, NEW c \in Calls, ConfirmLookup(c)
  PROVE  MailInv'
<1>1. Quiet
  BY DEF ConfirmLookup
<1>2. ASSUME NEW u \in users, Works, Overlaps(c, u),
             Going(c, "apply", [route |-> "confirm", user |-> u, tok |-> NoToken, to |-> email[u],
                                new |-> pending[u], base |-> NoSite, lang |-> "none"])
      PROVE  MailInv'
  <2>1. PICK to, new : to = email[u] /\ new = pending[u]
    OBVIOUS
  <2>2. u \in UserIDs /\ to \in Addresses /\ new \in Addresses
    BY <2>1 DEF MailInv, Typed, StoreTypeOK
  <2>3. PICK rec : rec = [route |-> "confirm", user |-> u, tok |-> NoToken, to |-> to, new |-> new,
                          base |-> NoSite, lang |-> "none"]
    OBVIOUS
  <2>4. PICK v : v = [f \in DOMAIN rec \cup {"step"} |-> IF f = "step" THEN "apply" ELSE rec[f]]
    OBVIOUS
  <2>5. at' = [at EXCEPT ![c] = v]
    BY <1>2, <2>1, <2>3, <2>4 DEF Going
  <2>6. /\ v.step = "apply" /\ v.route = "confirm" /\ v.user = u /\ v.tok = NoToken /\ v.to = to /\ v.new = new
        /\ v.base = NoSite /\ DOMAIN v = {"route", "user", "tok", "to", "new", "base", "lang", "step"}
    BY <2>3, <2>4
  <2>7. ShapeFine(v)
    BY <2>2, <2>6 DEF ShapeFine, Places, Underway
  <2>8. SendFine(v) /\ AnswerFine(v)
    BY <2>6 DEF SendFine, Underway, AnswerFine
  <2>9. Announces(c, v)
    BY <2>1, <2>6 DEF Announces
  <2> QED
    BY <1>1, <1>2, <2>5, <2>6, <2>7, <2>8, <2>9, OverlapsMarks, LocalStep
<1>3. CASE /\ Works \/ Fails
           /\ \E hurt \in BOOLEAN : Reject(c, "confirm", "INVALID_TOKEN", hurt)
           /\ UNCHANGED overlapped
  BY <1>1, <1>3, RejectStep
<1>4. \A t \in Tokens, u \in UserIDs : u \in GetUserByToken("change", t) => u \in users
  BY DEF GetUserByToken
<1> QED
  BY <1>2, <1>3, <1>4 DEF ConfirmLookup

-----------------------------------------------------------------------------
(***************************************************************************)
(* The senders.                                                            *)
(***************************************************************************)
\* A call that fails after the store says so.
LEMMA FailedStep ==
  ASSUME MailInv, NEW c \in Calls, NEW answer, Answer(c, answer, TRUE), Works \/ Fails,
         at[c].step \in Underway,
         answer = IF at[c].route = "reset" THEN "success" ELSE "INTERNAL",
         Quiet, UNCHANGED overlapped
  PROVE  MailInv'
<1>1. PICK v : v = at[c]
  OBVIOUS
<1>2. Done(c, v.route, answer, v.user, v.tok, TRUE)
  BY <1>1 DEF Answer
<1>3. AnswerFine([step |-> "done", route |-> v.route, answer |-> answer,
                  user |-> v.user, tok |-> v.tok, hurt |-> TRUE])
  BY <1>1 DEF AnswerFine
<1> QED
  BY <1>1, <1>2, <1>3, EndStep

\* What a sender hands to its transport is fine if its body is.
LEMMA HandsStep ==
  ASSUME MailInv, NEW c \in Calls, NEW body, NEW base, Is(c, "render"), Hands(c, Message(c, body, base)),
         base \in dep.allowed \cup {dep.site, dep.base, NoSite},
         (body.html = 0 <=> body.text = 0) /\ (body.html = 0 => body.subject = 0),
         Works, UNCHANGED <<storeVars, tmpl, world>>
  PROVE  MailInv'
<1>1. PICK w : w = at[c]
  OBVIOUS
<1>2. ShapeFine(w) /\ SendFine(w) /\ w.step = "render"
  BY <1>1 DEF MailInv, CallsFine, Is
<1>3. PICK k : k = IF w.route = "confirm" THEN "changed" ELSE KindOf(w.route)
  OBVIOUS
<1>4. PICK m : m = [body |-> body, kind |-> k, to |-> w.to, tok |-> w.tok,
                    base |-> IF LinkPath(k) = "none" THEN NoSite ELSE base, path |-> LinkPath(k),
                    new |-> IF k = "changed" THEN w.new ELSE Blank]
  OBVIOUS
<1>5. m = Message(c, body, base)
  BY <1>1, <1>3, <1>4 DEF Message, MessageKind
<1>6. PICK new : new = IF w.route = "confirm" THEN w.new ELSE Blank
  OBVIOUS
<1>7. PICK rec : rec = [route |-> w.route, user |-> w.user, tok |-> w.tok, to |-> w.to, new |-> new, msg |-> m]
  OBVIOUS
<1>8. PICK v : v = [f \in DOMAIN rec \cup {"step"} |-> IF f = "step" THEN "transport" ELSE rec[f]]
  OBVIOUS
<1>9. at' = [at EXCEPT ![c] = v]
  BY <1>1, <1>5, <1>6, <1>7, <1>8 DEF Hands, Going
<1>10. /\ v.step = "transport" /\ v.route = w.route /\ v.user = w.user /\ v.tok = w.tok /\ v.to = w.to
       /\ v.new = new /\ v.msg = m /\ "new" \in DOMAIN v
  BY <1>7, <1>8
<1>11. m.kind = k /\ m.tok = w.tok /\ m.to = w.to /\ m.path = LinkPath(k) /\ m.body = body
       /\ m.base \in dep.allowed \cup {dep.site, dep.base, NoSite}
       /\ (w.route = "confirm" => m.new = w.new)
  BY <1>3, <1>4
<1>12. k \in Senders /\ (w.route # "confirm" => k = KindOf(w.route))
       /\ (w.route = "confirm" => k = "changed") /\ (k = "change" => w.route = "change")
  BY <1>2, <1>3 DEF ShapeFine, Sends, KindOf, Senders, Kinds
<1>13. MessageFine(m)
  <2>1. CASE w.route = "confirm"
    <3>1. w.tok = NoToken
      BY <1>2, <2>1 DEF ShapeFine, Underway
    <3> QED
      BY <1>11, <1>12, <3>1 DEF MessageFine
  <2>2. CASE w.route # "confirm"
    <3>1. w.user \in UserIDs /\ w.tok \in Tokens /\ MintedFor(w.tok, k, w.user) /\ Reaches(k, w.user, w.to)
          /\ (k = "change" => Latest(w.user, w.tok, w.to))
      BY <1>2, <1>12, <2>2 DEF ShapeFine, SendFine, Underway
    <3> QED
      BY <1>11, <1>12, <3>1 DEF MessageFine
  <2> QED
    BY <2>1, <2>2
<1>14. ShapeFine(v)
  BY <1>2, <1>6, <1>10 DEF ShapeFine, Underway, Places
<1>15. SendFine(v)
  <2>1. v.step = "transport" => MessageFine(v.msg) /\ v.msg.tok = v.tok
       /\ (v.route = "confirm" => v.msg.kind = "changed" /\ v.msg.to = v.to /\ v.msg.new = v.new)
    BY <1>6, <1>10, <1>11, <1>12, <1>13
  <2> QED
    BY <1>2, <1>10, <2>1 DEF SendFine, Underway
<1>16. AnswerFine(v)
  BY <1>10 DEF AnswerFine
<1>17. c \notin overlapped => Announces(c, v)
  <2> SUFFICES ASSUME c \notin overlapped PROVE Announces(c, v)
    OBVIOUS
  <2>1. Announces(c, w)
    BY <1>1 DEF MailInv, ConfirmsFine
  <2> QED
    BY <1>2, <1>6, <1>10, <2>1 DEF Announces
<1>18. \/ ~Changes(v)
       \/ Changes(at[c]) /\ v.user = at[c].user
  BY <1>1, <1>2, <1>10 DEF Changes
<1>19. Quiet /\ overlapped' = overlapped /\ overlapped' \subseteq Calls
  BY DEF Quiet, world, MailInv, Typed
<1> QED
  BY <1>9, <1>10, <1>14, <1>15, <1>16, <1>17, <1>18, <1>19, LocalStep

\* The base of a link is the page the request came from, or the mailer's own.
LEMMA BaseIsKnown ==
  ASSUME MailInv, NEW c \in Calls, Is(c, "render")
  PROVE  {at[c].base, LinkBaseOr(at[c].base)} \subseteq dep.allowed \cup {dep.site, dep.base, NoSite}
<1>1. PICK w : w = at[c]
  OBVIOUS
<1>2. w.base \in dep.allowed \cup {dep.site, NoSite}
  BY <1>1 DEF MailInv, CallsFine, SendFine, Underway, Is
<1> QED
  BY <1>1, <1>2 DEF LinkBaseOr

\* Both bodies of a mail are stored ones or both are registered ones.
LEMMA BodiesMatch ==
  ASSUME NEW store, NEW id, NEW lang, NEW body, body = RenderMail(store, id, lang)
  PROVE  (body.html = 0 <=> body.text = 0) /\ (body.html = 0 => body.subject = 0)
BY DEF RenderMail, Rendered

\* A ready-made mailer keeps the invariant.
LEMMA RenderByMailerStep ==
  ASSUME MailInv, NEW c \in Calls, RenderByMailer(c)
  PROVE  MailInv'
<1> DEFINE store  == IF dep.templates THEN tmpl ELSE NoTemplates
           locale == ResolveLang(at[c].lang, dep.locale)
<1>1. Is(c, "render") /\ UNCHANGED <<storeVars, tmpl, world>>
  BY DEF RenderByMailer
<1>2. CASE /\ Works
           /\ Hands(c, Message(c, RenderMail(store, TemplateID(MessageKind(c)), locale), LinkBaseOr(at[c].base)))
  <2>1. PICK body, base : /\ body = RenderMail(store, TemplateID(MessageKind(c)), locale)
                           /\ base = LinkBaseOr(at[c].base)
    OBVIOUS
  <2>2. (body.html = 0 <=> body.text = 0) /\ (body.html = 0 => body.subject = 0)
    BY <2>1, BodiesMatch
  <2>3. base \in dep.allowed \cup {dep.site, dep.base, NoSite}
    BY <1>1, <2>1, BaseIsKnown
  <2>4. Works /\ Hands(c, Message(c, body, base))
    BY <1>2, <2>1
  <2> QED
    BY <1>1, <2>2, <2>3, <2>4, HandsStep
<1>3. CASE Fails /\ NotDelivered(c)
  <2>1. at[c].step \in Underway /\ Quiet /\ UNCHANGED overlapped
    BY <1>1 DEF Is, Underway, Quiet, world
  <2> QED
    BY <1>3, <2>1, FailedStep DEF NotDelivered
<1> QED
  BY <1>2, <1>3 DEF RenderByMailer

\* A delivery webhook or an SMS gateway keeps the invariant.
LEMMA HandOverStep ==
  ASSUME MailInv, NEW c \in Calls, HandOver(c)
  PROVE  MailInv'
<1>1. Is(c, "render") /\ Works /\ UNCHANGED <<storeVars, tmpl, world>>
  BY DEF HandOver
<1>2. PICK body, base : body = Rendered(0, 0, 0, at[c].lang) /\ base = at[c].base
  OBVIOUS
<1>3. (body.html = 0 <=> body.text = 0) /\ (body.html = 0 => body.subject = 0)
  BY <1>2 DEF Rendered
<1>4. base \in dep.allowed \cup {dep.site, dep.base, NoSite}
  BY <1>1, <1>2, BaseIsKnown
<1>5. Hands(c, Message(c, body, base))
  BY <1>2 DEF HandOver
<1> QED
  BY <1>1, <1>3, <1>4, <1>5, HandsStep

-----------------------------------------------------------------------------
(***************************************************************************)
(* The writes.                                                             *)
(***************************************************************************)
\* An index without a token is an index.
LEMMA UnindexedType ==
  ASSUME StoreTypeOK, NEW k \in Indexed, NEW u \in UserIDs
  PROVE  Unindexed(k, u) \in [Tokens -> UserIDs \cup {NoID}]
BY DEF Unindexed, StoreTypeOK

\* Storing a token keeps the types of the store.
LEMMA UpdateTokenType ==
  ASSUME StoreTypeOK, NEW k \in Kinds, NEW u \in UserIDs, NEW t \in Tokens, NEW to,
         k = "change" => to \in Addresses, UpdateToken(k, u, t, 0, to)
  PROVE  StoreTypeOK'
<1>1. hash' \in [Kinds -> [UserIDs -> Tokens \cup {NoToken}]]
  BY DEF UpdateToken, StoreTypeOK
<1>2. expiry' \in [Kinds -> [UserIDs -> Int]]
  BY DEF UpdateToken, StoreTypeOK
<1>3. byToken' \in [Indexed -> [Tokens -> UserIDs \cup {NoID}]]
  <2>1. CASE k \in Indexed
    <3>1. PICK f : f = Unindexed(k, u)
      OBVIOUS
    <3>2. f \in [Tokens -> UserIDs \cup {NoID}]
      BY <2>1, <3>1, UnindexedType
    <3>3. byToken' = [byToken EXCEPT ![k] = [f EXCEPT ![t] = u]]
      BY <2>1, <3>1 DEF UpdateToken
    <3> QED
      BY <3>2, <3>3 DEF StoreTypeOK
  <2>2. CASE k \notin Indexed
    BY <2>2 DEF UpdateToken, StoreTypeOK
  <2> QED
    BY <2>1, <2>2
<1>4. pending' \in [UserIDs -> Addresses]
  BY DEF UpdateToken, StoreTypeOK
<1> QED
  BY <1>1, <1>2, <1>3, <1>4 DEF UpdateToken, StoreTypeOK

\* Clearing one too.
LEMMA ClearTokenType ==
  ASSUME StoreTypeOK, NEW u \in UserIDs, ClearToken("change", u)
  PROVE  StoreTypeOK'
<1>1. "change" \in Kinds /\ "change" \in Indexed /\ Blank \in Addresses
  BY DEF Kinds, Indexed, Addresses
<1>2. hash' \in [Kinds -> [UserIDs -> Tokens \cup {NoToken}]]
  BY <1>1 DEF ClearToken, StoreTypeOK
<1>3. expiry' \in [Kinds -> [UserIDs -> Int]]
  BY <1>1 DEF ClearToken, StoreTypeOK, NoExpiry
<1>4. byToken' \in [Indexed -> [Tokens -> UserIDs \cup {NoID}]]
  BY <1>1, UnindexedType DEF ClearToken, StoreTypeOK
<1>5. pending' \in [UserIDs -> Addresses]
  BY <1>1 DEF ClearToken, StoreTypeOK
<1> QED
  BY <1>2, <1>3, <1>4, <1>5 DEF ClearToken, StoreTypeOK

\* What a growing step leaves alone: the inbox and, if they have not changed,
\* the templates.
LEMMA InboxStays ==
  ASSUME MailInv, Grows, inbox' \subseteq inbox \cup {m \in inbox' : MessageFine(m)}
  PROVE  InboxFine'
<1> SUFFICES ASSUME NEW m \in inbox' PROVE MessageFine(m)'
  BY DEF InboxFine
<1>1. MessageFine(m)
  BY DEF MailInv, InboxFine
<1> QED
  BY <1>1, MessageStays

\* Storing a token keeps the invariant.
LEMMA StoreTokenStep ==
  ASSUME MailInv, NEW c \in Calls, StoreToken(c)
  PROVE  MailInv'
<1>1. PICK w : w = at[c]
  OBVIOUS
<1>2. PICK k : k = KindOf(w.route)
  OBVIOUS
<1>3. w.step = "store" /\ ShapeFine(w) /\ SendFine(w)
  BY <1>1 DEF StoreToken, Is, MailInv, CallsFine
<1>4. /\ w.route \in Sends /\ w.route # "confirm" /\ w.user \in UserIDs /\ k \in Kinds
      /\ (k = "change" <=> w.route = "change")
  BY <1>2, <1>3 DEF ShapeFine, Sends, Underway, KindOf, Kinds
<1>5. CASE Fails /\ Answer(c, "INTERNAL", TRUE) /\ UNCHANGED <<storeVars, minted>>
  <2>1. Done(c, w.route, "INTERNAL", w.user, w.tok, TRUE)
    BY <1>1, <1>5 DEF Answer
  <2>2. AnswerFine([step |-> "done", route |-> w.route, answer |-> "INTERNAL",
                    user |-> w.user, tok |-> w.tok, hurt |-> TRUE])
    BY DEF AnswerFine
  <2>3. Quiet /\ UNCHANGED overlapped
    BY <1>5 DEF StoreToken, Quiet
  <2> QED
    BY <1>5, <2>1, <2>2, <2>3, EndStep
<1>6. ASSUME NEW t \in Unminted, Works, UpdateToken(k, w.user, t, 0, w.to),
             minted' = minted \cup {[tok |-> t, kind |-> k, user |-> w.user]},
             IF dep.sender[k] = "none" THEN Done(c, w.route, "success", w.user, t, FALSE)
             ELSE Going(c, "render", [w EXCEPT !.tok = t]),
             UNCHANGED <<tmpl, inbox, events, moves, overlapped>>
      PROVE  MailInv'
  <2>1. t \in Tokens /\ \A i \in minted : i.tok # t
    BY <1>6 DEF Unminted
  <2>2. DepKept
    BY <1>6, DepIsKept DEF MailInv
  <2>3. /\ UNCHANGED <<users, email, password, verified, byEmail>>
        /\ hash' = [hash EXCEPT ![k] = [@ EXCEPT ![w.user] = t]]
        /\ pending' = IF k = "change" THEN [pending EXCEPT ![w.user] = w.to] ELSE pending
    BY <1>6 DEF UpdateToken
  <2>4. hash \in [Kinds -> [UserIDs -> Tokens \cup {NoToken}]] /\ pending \in [UserIDs -> Addresses]
    BY DEF MailInv, Typed, StoreTypeOK
  <2>5. Grows
    <3>1. \A u \in UserIDs : Had(u)' = Had(u)
      BY <1>6, <2>3 DEF Had
    <3>2. ASSUME NEW u \in UserIDs, NEW x \in Tokens, MintedFor(x, "change", u),
                 hash'["change"][u] = x, pending'[u] # Blank
          PROVE  hash["change"][u] = x /\ pending'[u] = pending[u]
      <4>1. x # t
        BY <2>1, <3>2 DEF MintedFor
      <4>2. ~(k = "change" /\ u = w.user)
        BY <2>3, <2>4, <3>2, <4>1 DEF Kinds
      <4> QED
        BY <2>3, <2>4, <3>2, <4>2, <1>4 DEF Kinds
    <3> QED
      BY <1>6, <2>2, <3>1, <3>2 DEF Grows
  <2>6. Typed' \/ DOMAIN at' # Calls
    <3>1. StoreTypeOK'
      <4>1. k = "change" => w.to \in Addresses
        BY <1>3, <1>4 DEF SendFine, Underway, Addresses
      <4> QED
        BY <1>4, <1>6, <2>1, <4>1, UpdateTokenType DEF MailInv, Typed
    <3> QED
      BY <1>6, <3>1 DEF MailInv, Typed
  <2>7. IndexFine' /\ DepFine' /\ TemplatesFine'
    BY <1>6, <2>2, <2>3 DEF MailInv, IndexFine, DepKept, TemplatesFine, TemplatesListed
  <2>8. IssuedFine'
    <3>1. minted \subseteq [tok : Tokens, kind : Kinds, user : UserIDs] /\ \A i, j \in minted : i.tok = j.tok => i = j
      BY DEF MailInv, IssuedFine
    <3>2. PICK n : n = [tok |-> t, kind |-> k, user |-> w.user]
      OBVIOUS
    <3>3. n \in [tok : Tokens, kind : Kinds, user : UserIDs] /\ n.tok = t
      BY <1>4, <2>1, <3>2
    <3>4. minted' = minted \cup {n}
      BY <1>6, <3>2
    <3> QED
      BY <2>1, <3>1, <3>3, <3>4 DEF IssuedFine
  <2>9. InboxFine'
    BY <1>6, <2>5, InboxStays
  <2>10. EventsFine'
    BY <1>6, <2>2 DEF MailInv, EventsFine, DepKept, Notice
  <2>11. ASSUME NEW v, at' = [at EXCEPT ![c] = v], ShapeFine(v), SendFine(v)', AnswerFine(v)',
                v.route # "confirm", ~Changes(v) \/ (v.route = w.route /\ v.user = w.user)
         PROVE  MailInv'
    <3>1. CallsFine' /\ DOMAIN at' = Calls
      BY <2>5, <2>11, CallsStay
    <3>2. \/ ~Changes(v)
          \/ Changes(at[c]) /\ v.user = at[c].user
      BY <1>1, <1>3, <2>11 DEF Changes
    <3>3. Marked'
      BY <1>6, <2>11, <3>2, MarkedStays
    <3>4. \A d \in Calls : at'[d] = IF d = c THEN v ELSE at[d]
      BY <2>11 DEF MailInv, Typed
    <3>5. ConfirmsFine'
      <4> SUFFICES ASSUME NEW d \in Calls, d \notin overlapped' PROVE Announces(d, at[d])'
        BY DEF ConfirmsFine
      <4>1. CASE d = c
        BY <2>11, <3>4, <4>1 DEF Announces, ShapeFine
      <4>2. CASE d # c
        <5>1. PICK x : x = at[d]
          OBVIOUS
        <5>2. at'[d] = x /\ Announces(d, x) /\ ShapeFine(x)
          BY <1>6, <3>4, <4>2, <5>1 DEF MailInv, ConfirmsFine, CallsFine
        <5>3. k = "change" /\ x.step = "apply" => x.user # w.user
          <6> SUFFICES ASSUME k = "change", x.step = "apply", x.user = w.user PROVE FALSE
            OBVIOUS
          <6>1. ChangesAddress(c) /\ ChangesAddress(d)
            BY <1>1, <1>3, <1>4, <5>1, <5>2 DEF ChangesAddress, Is, ShapeFine
          <6> QED
            BY <1>1, <1>6, <4>2, <5>1, <6>1 DEF MailInv, Marked
        <5>4. x.step = "apply" => x.user \in UserIDs /\ pending'[x.user] = pending[x.user]
          BY <2>3, <2>4, <5>2, <5>3 DEF ShapeFine, Underway
        <5> QED
          BY <1>6, <2>3, <5>2, <5>4 DEF Announces
      <4> QED
        BY <4>1, <4>2
    <3>6. Confirmed'
      BY <1>6, <2>11, <3>4 DEF MailInv, Confirmed, Ended, Is
    <3> QED
      BY <2>6, <2>7, <2>8, <2>9, <2>10, <3>1, <3>3, <3>5, <3>6 DEF MailInv
  <2>12. CASE dep.sender[k] = "none"
    <3>1. PICK v : v = [step |-> "done", route |-> w.route, answer |-> "success",
                        user |-> w.user, tok |-> t, hurt |-> FALSE]
      OBVIOUS
    <3>2. at' = [at EXCEPT ![c] = v]
      BY <1>6, <2>12, <3>1 DEF Done
    <3>3. v.step = "done" /\ v.route = w.route /\ v.answer = "success" /\ v.tok = t /\ v.hurt = FALSE
      BY <3>1
    <3>4. ShapeFine(v) /\ SendFine(v)' /\ ~Changes(v)
      BY <3>3 DEF ShapeFine, SendFine, Changes, Places, Underway
    <3>5. w.route = "reset" => dep.sender["reset"] = "none"
      BY <1>2, <2>12 DEF KindOf
    <3>6. w.route # "magic"
      BY <1>2, <1>3, <2>12 DEF SendFine, Underway, KindOf
    <3>7. AnswerFine(v)'
      BY <1>2, <2>2, <2>12, <3>3, <3>5, <3>6 DEF AnswerFine, DepKept
    <3> QED
      BY <1>4, <2>11, <3>2, <3>3, <3>4, <3>7
  <2>13. CASE dep.sender[k] # "none"
    <3>1. PICK rec : rec = [w EXCEPT !.tok = t]
      OBVIOUS
    <3>2. PICK v : v = [f \in DOMAIN rec \cup {"step"} |-> IF f = "step" THEN "render" ELSE rec[f]]
      OBVIOUS
    <3>3. at' = [at EXCEPT ![c] = v]
      BY <1>6, <2>13, <3>1, <3>2 DEF Going
    <3>4. {"step", "route", "user", "to", "tok", "base"} \subseteq DOMAIN w
      BY <1>3 DEF ShapeFine, Underway
    <3>5. /\ DOMAIN rec = DOMAIN w /\ rec.route = w.route /\ rec.user = w.user
          /\ rec.to = w.to /\ rec.tok = t /\ rec.base = w.base
      BY <3>1, <3>4
    <3>6. /\ v.step = "render" /\ v.route = w.route /\ v.user = w.user /\ v.to = w.to /\ v.tok = t /\ v.base = w.base
          /\ {"step", "route", "user", "to", "tok", "base"} \subseteq DOMAIN v
      BY <3>2, <3>4, <3>5
    <3>7. ShapeFine(v)
      BY <1>4, <3>6 DEF ShapeFine, Underway, Places
    <3>8. Reaches(k, w.user, w.to)'
      BY <1>2, <1>3, <1>4, <2>5 DEF SendFine, Underway, Reaches, Grows
    <3>9. MintedFor(t, k, w.user)'
      BY <1>6 DEF MintedFor
    <3>10. w.route = "change" => Latest(w.user, t, w.to)'
      BY <1>4, <2>3, <2>4 DEF Latest
    <3>11. SendFine(v)'
      BY <1>2, <1>3, <1>4, <2>1, <2>2, <3>6, <3>8, <3>9, <3>10 DEF SendFine, Underway, DepKept
    <3>12. AnswerFine(v)'
      BY <3>6 DEF AnswerFine
    <3> QED
      BY <1>4, <2>11, <3>3, <3>6, <3>7, <3>11, <3>12
  <2> QED
    BY <2>12, <2>13
<1>7. \/ Fails /\ Answer(c, "INTERNAL", TRUE) /\ UNCHANGED <<storeVars, minted>>
      \/ /\ Works
         /\ \E t \in Unminted :
              /\ UpdateToken(k, w.user, t, 0, w.to)
              /\ minted' = minted \cup {[tok |-> t, kind |-> k, user |-> w.user]}
              /\ IF dep.sender[k] = "none" THEN Done(c, w.route, "success", w.user, t, FALSE)
                 ELSE Going(c, "render", [w EXCEPT !.tok = t])
  BY <1>1, <1>2 DEF StoreToken
<1>8. UNCHANGED <<tmpl, inbox, events, moves, overlapped>>
  BY DEF StoreToken
<1> QED
  BY <1>5, <1>6, <1>7, <1>8

\* A step of call c that mints no token: the accounts it touches are those of
\* its own user.
LEMMA WriteStep ==
  ASSUME MailInv, NEW c \in Calls, NEW v, at' = [at EXCEPT ![c] = v], Grows,
         StoreTypeOK', IndexFine', UNCHANGED <<tmpl, overlapped, minted>>, moves \subseteq moves',
         events' \cup moves' \subseteq [by : Calls, user : UserIDs, from : Addresses, to : Addresses],
         \A u \in UserIDs : \/ email'[u] = email[u] /\ pending'[u] = pending[u]
                            \/ Changes(at[c]) /\ u = at[c].user,
         ShapeFine(v), SendFine(v)', AnswerFine(v)', inbox' \subseteq inbox \cup {m \in inbox' : MessageFine(m)},
         ~Changes(v) \/ (Changes(at[c]) /\ v.user = at[c].user),
         c \notin overlapped => Announces(c, v)',
         EventsFine', events \subseteq events',
         v.step = "done" /\ v.route = "confirm" /\ v.answer = "success" => \E e \in events' : e.by = c
  PROVE  MailInv'
<1>1. CallsFine' /\ DOMAIN at' = Calls
  BY CallsStay
<1>2. Typed' /\ DepFine' /\ TemplatesFine' /\ IssuedFine'
  BY <1>1 DEF MailInv, Typed, Grows, DepKept, TemplatesFine, TemplatesListed, IssuedFine
<1>3. InboxFine' /\ Marked'
  BY InboxStays, MarkedStays
<1>4. \A d \in Calls : at'[d] = IF d = c THEN v ELSE at[d]
  BY DEF MailInv, Typed
<1>5. ConfirmsFine'
  <2> SUFFICES ASSUME NEW d \in Calls, d \notin overlapped PROVE Announces(d, at[d])'
    BY DEF ConfirmsFine
  <2>1. CASE d = c
    <3>1. at'[d] = v
      BY <1>4, <2>1
    <3> QED
      BY <2>1, <3>1 DEF Announces
  <2>2. CASE d # c
    <3>1. PICK x : x = at[d]
      OBVIOUS
    <3>2. at'[d] = x /\ Announces(d, x) /\ ShapeFine(x)
      BY <1>4, <2>2, <3>1 DEF MailInv, ConfirmsFine, CallsFine
    <3>3. x.step = "apply" => x.user \in UserIDs /\ ~(Changes(at[c]) /\ x.user = at[c].user)
      <4> SUFFICES ASSUME x.step = "apply" PROVE x.user \in UserIDs /\ ~(Changes(at[c]) /\ x.user = at[c].user)
        OBVIOUS
      <4>1. ChangesAddress(d) /\ x.user \in UserIDs
        BY <3>1, <3>2 DEF ChangesAddress, Is, ShapeFine, Underway
      <4>2. Changes(at[c]) => ChangesAddress(c)
        BY DEF Changes, ChangesAddress, Is
      <4> QED
        BY <2>2, <3>1, <4>1, <4>2 DEF MailInv, Marked
    <3>4. x.step = "apply" => email'[x.user] = x.to /\ pending'[x.user] = x.new
      BY <3>2, <3>3 DEF Announces
    <3> QED
      BY <3>2, <3>4 DEF Announces
  <2> QED
    BY <2>1, <2>2
<1>6. Confirmed'
  BY <1>4 DEF MailInv, Confirmed, Ended, Is
<1> QED
  BY <1>1, <1>2, <1>3, <1>5, <1>6 DEF MailInv

\* A copy of a call at its next step.
LEMMA GoingOn ==
  ASSUME NEW c, NEW w, NEW step, Going(c, step, w), "step" \in DOMAIN w
  PROVE  \E v : /\ at' = [at EXCEPT ![c] = v]
                /\ DOMAIN v = DOMAIN w /\ v.step = step
                /\ \A f \in DOMAIN w : f # "step" => v[f] = w[f]
<1>1. PICK v : v = [f \in DOMAIN w \cup {"step"} |-> IF f = "step" THEN step ELSE w[f]]
  OBVIOUS
<1>2. at' = [at EXCEPT ![c] = v]
  BY <1>1 DEF Going
<1>3. DOMAIN v = DOMAIN w
  BY <1>1
<1>4. v.step = step /\ \A f \in DOMAIN w : f # "step" => v[f] = w[f]
  BY <1>1
<1> QED
  BY <1>2, <1>3, <1>4

\* What a confirmation holds.
LEMMA ConfirmingCall ==
  ASSUME MailInv, NEW c \in Calls, NEW w, w = at[c], w.step \in {"apply", "clear"}
  PROVE  /\ w.route = "confirm" /\ w.user \in UserIDs /\ w.tok = NoToken
         /\ w.to \in Addresses /\ w.new \in Addresses
         /\ {"step", "route", "user", "to", "tok", "base", "new"} \subseteq DOMAIN w
         /\ Changes(at[c])
<1>1. ShapeFine(w)
  BY DEF MailInv, CallsFine
<1> QED
  BY <1>1 DEF ShapeFine, Underway, Changes

\* Applying the pending address keeps the invariant.
LEMMA ApplyChangeStep ==
  ASSUME MailInv, NEW c \in Calls, ApplyChange(c)
  PROVE  MailInv'
<1>1. PICK w : w = at[c]
  OBVIOUS
<1>2. PICK u : u = w.user
  OBVIOUS
<1>3. w.step = "apply"
  BY <1>1 DEF ApplyChange, Is
<1>4. /\ w.route = "confirm" /\ u \in UserIDs /\ w.tok = NoToken /\ w.to \in Addresses /\ w.new \in Addresses
      /\ {"step", "route", "user", "to", "tok", "base", "new"} \subseteq DOMAIN w
      /\ Changes(at[c])
  BY <1>1, <1>2, <1>3, ConfirmingCall
<1>5. UNCHANGED <<tmpl, inbox, events, minted, overlapped>>
  BY DEF ApplyChange
<1>6. CASE /\ Works \/ Fails
           /\ \E hurt \in BOOLEAN : Answer(c, "INTERNAL", hurt)
           /\ UNCHANGED <<storeVars, moves>>
  <2>1. PICK hurt \in BOOLEAN : Done(c, w.route, "INTERNAL", w.user, w.tok, hurt)
    BY <1>1, <1>6 DEF Answer
  <2>2. AnswerFine([step |-> "done", route |-> w.route, answer |-> "INTERNAL",
                    user |-> w.user, tok |-> w.tok, hurt |-> hurt])
    BY <1>4 DEF AnswerFine
  <2>3. Quiet /\ UNCHANGED overlapped
    BY <1>5, <1>6 DEF Quiet
  <2> QED
    BY <1>6, <2>1, <2>2, <2>3, EndStep
<1>7. CASE /\ Works /\ ApplyEmailChange(u) /\ Going(c, "clear", w)
           /\ moves' = moves \cup {[by |-> c, user |-> u, from |-> email[u], to |-> pending[u]]}
  <2>1. PICK v : /\ at' = [at EXCEPT ![c] = v]
                 /\ DOMAIN v = DOMAIN w /\ v.step = "clear"
                 /\ \A f \in DOMAIN w : f # "step" => v[f] = w[f]
    BY <1>4, <1>7, GoingOn
  <2>2. v.route = "confirm" /\ v.user = u /\ v.tok = NoToken /\ v.to = w.to /\ v.new = w.new
    BY <1>2, <1>4, <2>1
  <2>3. /\ byEmail[pending[u]] = NoID
        /\ byEmail' = [byEmail EXCEPT ![email[u]] = NoID, ![pending[u]] = u]
        /\ email' = [email EXCEPT ![u] = pending[u]]
        /\ pending' = [pending EXCEPT ![u] = Blank]
        /\ UNCHANGED <<users, password, verified, hash, expiry, byToken>>
    BY <1>7 DEF ApplyEmailChange
  <2>4. StoreTypeOK /\ email[u] \in Addresses /\ pending[u] \in Addresses /\ Blank \in Addresses
    BY <1>4 DEF MailInv, Typed, StoreTypeOK, Addresses
  <2>5. StoreTypeOK'
    BY <1>4, <2>3, <2>4 DEF StoreTypeOK
  <2>6. IndexFine'
    <3> SUFFICES ASSUME NEW e \in Addresses, byEmail'[e] # NoID PROVE email'[byEmail'[e]] = e
      BY DEF IndexFine
    <3>1. CASE e = pending[u]
      BY <1>4, <2>3, <2>4, <3>1 DEF StoreTypeOK
    <3>2. CASE e # pending[u]
      <4>1. e # email[u] /\ byEmail'[e] = byEmail[e]
        BY <2>3, <2>4, <3>2 DEF StoreTypeOK
      <4>2. byEmail[e] \in UserIDs /\ email[byEmail[e]] = e
        BY <2>4, <4>1 DEF MailInv, IndexFine, StoreTypeOK
      <4>3. byEmail[e] # u
        BY <4>1, <4>2
      <4> QED
        BY <2>3, <2>4, <4>1, <4>2, <4>3 DEF StoreTypeOK
    <3> QED
      BY <3>1, <3>2
  <2>7. DepKept
    BY <1>7, DepIsKept DEF MailInv
  <2>8. PICK n : n = [by |-> c, user |-> u, from |-> email[u], to |-> pending[u]]
    OBVIOUS
  <2>9. moves' = moves \cup {n} /\ n.user = u /\ n.from = email[u]
        /\ n \in [by : Calls, user : UserIDs, from : Addresses, to : Addresses]
    BY <1>4, <1>7, <2>4, <2>8
  <2>10. \A x \in UserIDs : \/ email'[x] = email[x] /\ pending'[x] = pending[x]
                            \/ x = u /\ pending'[x] = Blank
    BY <1>4, <2>3, <2>4 DEF StoreTypeOK
  <2>11. Grows
    <3>1. \A x \in UserIDs : Had(x) \subseteq Had(x)'
      <4> SUFFICES ASSUME NEW x \in UserIDs, NEW a \in Had(x) PROVE a \in Had(x)'
        OBVIOUS
      <4>1. CASE a = email[x]
        BY <2>9, <2>10, <4>1 DEF Had
      <4>2. CASE a # email[x]
        BY <2>9, <4>2 DEF Had
      <4> QED
        BY <4>1, <4>2
    <3>2. UNCHANGED <<minted, inbox, hash>>
      BY <1>5, <2>3
    <3> QED
      BY <2>7, <2>10, <3>1, <3>2 DEF Grows
  <2>12. ShapeFine(v)
    BY <1>4, <2>1, <2>2 DEF ShapeFine, Places, Underway
  <2>13. SendFine(v)' /\ AnswerFine(v)'
    <3>1. w.base \in dep.allowed \cup {dep.site, NoSite}
      BY <1>1, <1>3 DEF MailInv, CallsFine, SendFine, Underway
    <3>2. v.base \in dep'.allowed \cup {dep'.site, NoSite}
      BY <2>1, <2>2, <2>7, <3>1, <1>4 DEF DepKept
    <3> QED
      BY <2>1, <2>2, <3>2 DEF SendFine, Underway, AnswerFine
  <2>14. c \notin overlapped => Announces(c, v)'
    <3> SUFFICES ASSUME c \notin overlapped PROVE Announces(c, v)'
      OBVIOUS
    <3>1. email[u] = w.to /\ pending[u] = w.new
      BY <1>1, <1>2, <1>3 DEF MailInv, ConfirmsFine, Announces
    <3>2. [by |-> c, user |-> v.user, from |-> v.to, to |-> v.new] = n
      BY <2>2, <2>8, <3>1
    <3> QED
      BY <2>1, <2>9, <3>2 DEF Announces
  <2>15. EventsFine'
    BY <1>5, <2>7, <2>9 DEF MailInv, EventsFine, DepKept, Notice
  <2>16. events' \cup moves' \subseteq [by : Calls, user : UserIDs, from : Addresses, to : Addresses]
    BY <1>5, <2>9 DEF MailInv, Typed
  <2>17. \A x \in UserIDs : \/ email'[x] = email[x] /\ pending'[x] = pending[x]
                            \/ Changes(at[c]) /\ x = at[c].user
    BY <1>1, <1>2, <1>4, <2>10
  <2> QED
    BY <1>1, <1>2, <1>4, <1>5, <2>1, <2>2, <2>5, <2>6, <2>9, <2>11, <2>12, <2>13, <2>14, <2>15,
       <2>16, <2>17, WriteStep
<1>8. \/ /\ Works /\ ApplyEmailChange(u) /\ Going(c, "clear", w)
         /\ moves' = moves \cup {[by |-> c, user |-> u, from |-> email[u], to |-> pending[u]]}
      \/ /\ Works \/ Fails
         /\ Answer(c, "INTERNAL", dep' # dep) /\ UNCHANGED <<storeVars, moves>>
  BY <1>1, <1>2 DEF ApplyChange
<1>9. (dep' # dep) \in BOOLEAN
  OBVIOUS
<1> QED
  BY <1>6, <1>7, <1>8, <1>9

\* Clearing a change token, and the answer if there is no notice to send, keeps
\* the invariant.
LEMMA ClearChangeStep ==
  ASSUME MailInv, NEW c \in Calls, ClearChange(c)
  PROVE  MailInv'
<1>1. PICK w : w = at[c]
  OBVIOUS
<1>2. PICK u : u = w.user
  OBVIOUS
<1>3. w.step = "clear"
  BY <1>1 DEF ClearChange, Is
<1>4. /\ w.route = "confirm" /\ u \in UserIDs /\ w.tok = NoToken /\ w.to \in Addresses /\ w.new \in Addresses
      /\ {"step", "route", "user", "to", "tok", "base", "new"} \subseteq DOMAIN w
      /\ Changes(at[c])
  BY <1>1, <1>2, <1>3, ConfirmingCall
<1>5. UNCHANGED <<tmpl, inbox, minted, moves, overlapped>>
  BY DEF ClearChange
<1>6. CASE Fails /\ Answer(c, "INTERNAL", TRUE) /\ UNCHANGED <<storeVars, events>>
  <2>1. at[c].step \in Underway /\ Quiet /\ UNCHANGED overlapped
    BY <1>1, <1>3, <1>5, <1>6 DEF Underway, Quiet
  <2> QED
    BY <1>1, <1>4, <1>6, <2>1, FailedStep
<1>7. ASSUME Works, ClearToken("change", u), NEW v, at' = [at EXCEPT ![c] = v],
             ShapeFine(v), SendFine(v)', AnswerFine(v)', v.user = u,
             c \notin overlapped => Announces(c, v)',
             EventsFine', events \subseteq events',
             events' \subseteq [by : Calls, user : UserIDs, from : Addresses, to : Addresses],
             v.step = "done" => \E e \in events' : e.by = c
      PROVE  MailInv'
  <2>1. StoreTypeOK'
    BY <1>4, <1>7, ClearTokenType DEF MailInv, Typed
  <2>2. /\ UNCHANGED <<users, email, password, verified, byEmail>>
        /\ hash' = [hash EXCEPT !["change"] = [@ EXCEPT ![u] = NoToken]]
        /\ pending' = [pending EXCEPT ![u] = Blank]
    BY <1>7 DEF ClearToken
  <2>3. \A x \in UserIDs : \/ pending'[x] = pending[x] /\ hash'["change"][x] = hash["change"][x]
                           \/ x = u /\ pending'[x] = Blank
    BY <1>4, <2>2 DEF MailInv, Typed, StoreTypeOK, Kinds
  <2>4. DepKept
    BY <1>7, DepIsKept DEF MailInv
  <2>5. Grows
    BY <1>5, <2>2, <2>3, <2>4 DEF Grows, Had
  <2>6. IndexFine'
    BY <2>2 DEF MailInv, IndexFine
  <2>7. events' \cup moves' \subseteq [by : Calls, user : UserIDs, from : Addresses, to : Addresses]
    BY <1>5, <1>7 DEF MailInv, Typed
  <2>8. \A x \in UserIDs : \/ email'[x] = email[x] /\ pending'[x] = pending[x]
                           \/ Changes(at[c]) /\ x = at[c].user
    BY <1>1, <1>2, <1>4, <2>2, <2>3
  <2> QED
    BY <1>1, <1>2, <1>4, <1>5, <1>7, <2>1, <2>5, <2>6, <2>7, <2>8, WriteStep
<1>8. Works \/ Fails => DepKept
  BY DepIsKept DEF MailInv
<1>9. c \notin overlapped => [by |-> c, user |-> u, from |-> w.to, to |-> w.new] \in moves
  BY <1>1, <1>2, <1>3, <1>4 DEF MailInv, ConfirmsFine, Announces
<1>10. CASE /\ Works /\ ClearToken("change", u)
            /\ dep.sender["changed"] # "none" /\ Going(c, "render", w) /\ UNCHANGED events
  <2>1. PICK v : /\ at' = [at EXCEPT ![c] = v]
                 /\ DOMAIN v = DOMAIN w /\ v.step = "render"
                 /\ \A f \in DOMAIN w : f # "step" => v[f] = w[f]
    BY <1>4, <1>10, GoingOn
  <2>2. /\ v.route = "confirm" /\ v.user = u /\ v.tok = NoToken /\ v.to = w.to /\ v.new = w.new
        /\ v.base = w.base
    BY <1>2, <1>4, <2>1
  <2>3. ShapeFine(v)
    BY <1>4, <2>1, <2>2 DEF ShapeFine, Places, Underway
  <2>4. w.base \in dep.allowed \cup {dep.site, NoSite}
    BY <1>1, <1>3 DEF MailInv, CallsFine, SendFine, Underway
  <2>5. SendFine(v)' /\ AnswerFine(v)'
    <3>1. dep'.sender["changed"] # "none" /\ v.base \in dep'.allowed \cup {dep'.site, NoSite}
      BY <1>8, <1>10, <2>2, <2>4 DEF DepKept
    <3>2. v.step = "render" /\ v.route = "confirm"
      BY <2>1, <2>2
    <3> QED
      BY <3>1, <3>2 DEF SendFine, Underway, AnswerFine
  <2>6. c \notin overlapped => Announces(c, v)'
    BY <1>5, <1>9, <2>1, <2>2 DEF Announces
  <2>7. EventsFine'
    BY <1>5, <1>8, <1>10 DEF MailInv, EventsFine, DepKept, Notice
  <2>8. events' \subseteq [by : Calls, user : UserIDs, from : Addresses, to : Addresses]
    BY <1>10 DEF MailInv, Typed
  <2> QED
    BY <1>7, <1>10, <2>1, <2>2, <2>3, <2>5, <2>6, <2>7, <2>8
<1>11. CASE /\ Works /\ ClearToken("change", u) /\ dep.sender["changed"] = "none"
            /\ Done(c, "confirm", "success", u, NoToken, FALSE)
            /\ events' = events \cup {[by |-> c, user |-> u, from |-> w.to, to |-> w.new]}
  <2>1. PICK v : v = [step |-> "done", route |-> "confirm", answer |-> "success",
                      user |-> u, tok |-> NoToken, hurt |-> FALSE]
    OBVIOUS
  <2>2. at' = [at EXCEPT ![c] = v]
    BY <1>11, <2>1 DEF Done
  <2>3. /\ v.step = "done" /\ v.route = "confirm" /\ v.answer = "success" /\ v.user = u
        /\ v.tok = NoToken
    BY <2>1
  <2>4. PICK n : n = [by |-> c, user |-> u, from |-> w.to, to |-> w.new]
    OBVIOUS
  <2>5. n.by = c /\ n \in [by : Calls, user : UserIDs, from : Addresses, to : Addresses]
        /\ events' = events \cup {n} /\ (c \in overlapped \/ n \in moves)
    BY <1>4, <1>9, <1>11, <2>4
  <2>6. ShapeFine(v) /\ SendFine(v)' /\ AnswerFine(v)' /\ Announces(c, v)'
    BY <2>3 DEF ShapeFine, SendFine, AnswerFine, Announces, Places, Underway
  <2>7. EventsFine'
    BY <1>5, <1>8, <1>11, <2>5 DEF MailInv, EventsFine, DepKept, Notice
  <2>8. events' \subseteq [by : Calls, user : UserIDs, from : Addresses, to : Addresses]
    BY <2>5 DEF MailInv, Typed
  <2> QED
    BY <1>7, <1>11, <2>2, <2>3, <2>5, <2>6, <2>7, <2>8
<1> QED
  BY <1>1, <1>2, <1>4, <1>6, <1>10, <1>11 DEF ClearChange, Announcement, Answer

\* A delivery, or a failure to deliver, keeps the invariant.
LEMMA TransportStep ==
  ASSUME MailInv, NEW c \in Calls, Transport(c)
  PROVE  MailInv'
<1>1. PICK w : w = at[c]
  OBVIOUS
<1>2. w.step = "transport" /\ ShapeFine(w) /\ SendFine(w)
  BY <1>1 DEF Transport, Is, MailInv, CallsFine
<1>3. UNCHANGED <<storeVars, tmpl, minted, moves, overlapped>>
  BY DEF Transport
<1>4. MessageFine(w.msg) /\ w.msg.tok = w.tok
      /\ (w.route = "confirm" => w.msg.kind = "changed" /\ w.msg.to = w.to /\ w.msg.new = w.new)
  BY <1>2 DEF SendFine, Underway
<1>5. Works \/ Fails
  BY DEF Transport
<1>6. DepKept
  BY <1>5, DepIsKept DEF MailInv
<1>7. PICK answer, hurt :
        /\ Done(c, w.route, answer, w.user, w.tok, hurt)
        /\ \/ answer = "success" /\ w.msg \in inbox' /\ hurt = FALSE
           \/ hurt = TRUE /\ answer = IF w.route = "reset" THEN "success" ELSE "INTERNAL"
        /\ inbox \subseteq inbox' /\ inbox' \subseteq inbox \cup {w.msg}
        /\ IF answer = "success" /\ w.route = "confirm"
           THEN events' = events \cup {[by |-> c, user |-> w.user, from |-> w.to, to |-> w.new]}
           ELSE events' = events
  <2>1. CASE /\ inbox' = inbox \cup {w.msg} /\ Done(c, w.route, "success", w.user, w.tok, FALSE)
             /\ events' = IF w.route = "confirm"
                          THEN events \cup {[by |-> c, user |-> w.user, from |-> w.to, to |-> w.new]}
                          ELSE events
    <3>1. w.msg \in inbox' /\ inbox \subseteq inbox' /\ inbox' \subseteq inbox \cup {w.msg}
      BY <2>1
    <3> QED
      BY <2>1, <3>1
  <2>2. CASE /\ inbox' \in {inbox, inbox \cup {w.msg}} /\ events' = events
             /\ Done(c, w.route, IF w.route = "reset" THEN "success" ELSE "INTERNAL", w.user, w.tok, TRUE)
    <3>1. inbox \subseteq inbox' /\ inbox' \subseteq inbox \cup {w.msg}
      BY <2>2
    <3>2. PICK a : a = IF w.route = "reset" THEN "success" ELSE "INTERNAL"
      OBVIOUS
    <3>3. ~(a = "success" /\ w.route = "confirm") /\ Done(c, w.route, a, w.user, w.tok, TRUE)
      BY <2>2, <3>2
    <3> QED
      BY <2>2, <3>1, <3>2, <3>3
  <2>3. \/ /\ inbox' = inbox \cup {w.msg} /\ Done(c, w.route, "success", w.user, w.tok, FALSE)
           /\ events' = IF w.route = "confirm"
                        THEN events \cup {[by |-> c, user |-> w.user, from |-> w.to, to |-> w.new]}
                        ELSE events
        \/ /\ inbox' \in {inbox, inbox \cup {w.msg}} /\ events' = events
           /\ Done(c, w.route, IF w.route = "reset" THEN "success" ELSE "INTERNAL", w.user, w.tok, TRUE)
    BY <1>1 DEF Transport, Answer, NotDelivered, Announcement
  <2> QED
    BY <2>1, <2>2, <2>3
<1>8. Grows
  BY <1>3, <1>6, <1>7 DEF Grows, Had, storeVars, fields
<1>9. PICK v : v = [step |-> "done", route |-> w.route, answer |-> answer,
                    user |-> w.user, tok |-> w.tok, hurt |-> hurt]
  OBVIOUS
<1>10. at' = [at EXCEPT ![c] = v]
  BY <1>7, <1>9 DEF Done
<1>11. /\ v.step = "done" /\ v.route = w.route /\ v.answer = answer /\ v.user = w.user
       /\ v.tok = w.tok /\ v.hurt = hurt
  BY <1>9
<1>12. ShapeFine(v) /\ SendFine(v)' /\ Announces(c, v)' /\ ~Changes(v)
  BY <1>11 DEF ShapeFine, SendFine, Announces, Changes, Places, Underway
<1>13. AnswerFine(v)'
  <2>1. w.route = "magic" => dep.sender["magic"] # "none"
    BY <1>2 DEF SendFine, Underway
  <2>2. w.msg \in inbox' => Sent(w.tok)'
    BY <1>4 DEF Sent
  <2> QED
    BY <1>6, <1>7, <1>11, <2>1, <2>2 DEF AnswerFine, DepKept
<1>14. PICK n : n = [by |-> c, user |-> w.user, from |-> w.to, to |-> w.new]
  OBVIOUS
<1>15. w.route = "confirm" =>
         /\ n \in [by : Calls, user : UserIDs, from : Addresses, to : Addresses]
         /\ n.by = c /\ n.from = w.to /\ n.to = w.new
         /\ c \in overlapped \/ n \in moves
  <2>1. w.route = "confirm" => w.user \in UserIDs /\ w.to \in Addresses /\ w.new \in Addresses
    BY <1>2 DEF ShapeFine, Underway
  <2>2. w.route = "confirm" /\ c \notin overlapped => n \in moves
    BY <1>1, <1>2, <1>14 DEF MailInv, ConfirmsFine, Announces
  <2> QED
    BY <1>14, <2>1, <2>2
<1>16. events' = events \/ (w.route = "confirm" /\ w.msg \in inbox' /\ events' = events \cup {n})
  BY <1>7, <1>14
<1>17. EventsFine'
  <2> SUFFICES ASSUME NEW e \in events'
               PROVE  /\ dep'.sender["changed"] # "none"
                           => \E m \in inbox' : [kind |-> m.kind, to |-> m.to, new |-> m.new] = Notice(e)
                      /\ e.by \in overlapped \/ e \in moves
    BY <1>3 DEF EventsFine, Notice
  <2>1. CASE e \in events
    BY <1>6, <1>7, <2>1 DEF MailInv, EventsFine, DepKept
  <2>2. CASE e \notin events
    <3>1. w.route = "confirm" /\ w.msg \in inbox' /\ e = n
      BY <1>16, <2>2
    <3>2. [kind |-> w.msg.kind, to |-> w.msg.to, new |-> w.msg.new] = Notice(e)
      BY <1>4, <1>15, <3>1 DEF Notice
    <3> QED
      BY <1>15, <3>1, <3>2
  <2> QED
    BY <2>1, <2>2
<1>18. events' \cup moves' \subseteq [by : Calls, user : UserIDs, from : Addresses, to : Addresses]
  BY <1>3, <1>15, <1>16 DEF MailInv, Typed
<1>19. v.step = "done" /\ v.route = "confirm" /\ v.answer = "success" => \E e \in events' : e.by = c
  BY <1>7, <1>11, <1>14, <1>15
<1>20. inbox' \subseteq inbox \cup {m \in inbox' : MessageFine(m)}
  BY <1>4, <1>7
<1>21. StoreTypeOK' /\ IndexFine' /\ \A x \in UserIDs : email'[x] = email[x] /\ pending'[x] = pending[x]
  BY <1>3 DEF storeVars, fields, MailInv, Typed, StoreTypeOK, IndexFine
<1>22. events \subseteq events' /\ moves \subseteq moves' /\ UNCHANGED <<tmpl, overlapped, minted>>
  BY <1>3, <1>16
<1> QED
  BY <1>8, <1>10, <1>12, <1>13, <1>17, <1>18, <1>19, <1>20, <1>21, <1>22, WriteStep

-----------------------------------------------------------------------------
(***************************************************************************)
(* The templates.                                                          *)
(***************************************************************************)
\* A step that leaves the stores, the calls and the mailboxes keeps the
\* invariant if it keeps the templates in order.
LEMMA AsideStep ==
  ASSUME MailInv, DepKept, UNCHANGED <<storeVars, at, world>>, TemplatesFine'
  PROVE  MailInv'
<1> USE DEF storeVars, fields, world
<1>1. Grows
  BY DEF Grows, Had, MintedFor
<1>2. CallsFine'
  <2> SUFFICES ASSUME NEW c \in Calls PROVE (ShapeFine(at[c]) /\ SendFine(at[c]) /\ AnswerFine(at[c]))'
    BY DEF CallsFine
  <2>1. PICK v : v = at[c]
    OBVIOUS
  <2>2. ShapeFine(v) /\ SendFine(v) /\ AnswerFine(v)
    BY <2>1 DEF MailInv, CallsFine
  <2>3. SendFine(v)' /\ AnswerFine(v)'
    BY <1>1, <2>2, CallStays
  <2>4. at'[c] = v
    BY <2>1
  <2> QED
    BY <2>2, <2>3, <2>4 DEF ShapeFine, SendFine, AnswerFine
<1>3. InboxFine'
  BY <1>1, InboxStays
<1>4. Typed' /\ DepFine' /\ IndexFine' /\ IssuedFine'
  BY DEF MailInv, Typed, StoreTypeOK, DepKept, IndexFine, IssuedFine
<1>5. Marked'
  BY DEF MailInv, Marked, ChangesAddress, Is
<1>6. ConfirmsFine' /\ Confirmed'
  BY DEF MailInv, ConfirmsFine, Announces, Confirmed, Ended, Is
<1>7. EventsFine'
  BY DEF MailInv, EventsFine, DepKept, Notice
<1> QED
  BY <1>2, <1>3, <1>4, <1>5, <1>6, <1>7 DEF MailInv

\* A list that knows each key of its table once still does when a key is written.
LEMMA NotedListed ==
  ASSUME NEW S, NEW order \in Seq(S), NEW table, NEW k \in S, NEW v, Listed(order, table)
  PROVE  Noted(order, k) \in Seq(S) /\ Listed(Noted(order, k), With(table, k, v))
<1>1. CASE k \in ToSet(order)
  BY <1>1 DEF Listed, Noted, With
<1>2. CASE k \notin ToSet(order)
  <2>1. Noted(order, k) = Append(order, k)
    BY <1>2 DEF Noted
  <2>2. /\ Len(Append(order, k)) = Len(order) + 1 /\ Append(order, k) \in Seq(S)
        /\ \A i \in 1..Len(order) + 1 : Append(order, k)[i] = IF i = Len(order) + 1 THEN k ELSE order[i]
    OBVIOUS
  <2>3. \A i \in 1..Len(order) : order[i] # k
    BY <1>2 DEF ToSet
  <2>4. IsInjective(Append(order, k))
    BY <2>2, <2>3 DEF Listed, IsInjective
  <2>5. ToSet(Append(order, k)) = ToSet(order) \cup {k}
    BY <2>2 DEF ToSet
  <2> QED
    BY <2>1, <2>2, <2>4, <2>5 DEF Listed, With
<1> QED
  BY <1>1, <1>2

\* Writing a mail template keeps the invariant, whatever its bodies are.
LEMMA MailEditStep ==
  ASSUME MailInv, NEW id \in MailIDs, NEW patch, Edit(UpdateMailTemplate(tmpl, id, patch))
  PROVE  MailInv'
<1>1. DepKept
  BY DEF Edit, MailInv, DepFine, DepKept
<1>2. PICK current : current = IF id \in DOMAIN tmpl.mail THEN tmpl.mail[id] ELSE Empty
  OBVIOUS
<1>3. PICK body : body = [f \in DOMAIN Empty |-> IF f \in DOMAIN patch THEN patch[f] ELSE current[f]]
  OBVIOUS
<1>4. tmpl' = [tmpl EXCEPT !.mail = With(tmpl.mail, id, body), !.mailOrder = Noted(tmpl.mailOrder, id)]
  BY <1>2, <1>3 DEF Edit, UpdateMailTemplate
<1>5. /\ DOMAIN tmpl' = DOMAIN tmpl /\ tmpl'.ui = tmpl.ui /\ tmpl'.uiOrder = tmpl.uiOrder
      /\ tmpl'.mail = With(tmpl.mail, id, body) /\ tmpl'.mailOrder = Noted(tmpl.mailOrder, id)
  BY <1>4 DEF MailInv, TemplatesFine
<1>6. Noted(tmpl.mailOrder, id) \in Seq(MailIDs) /\ Listed(Noted(tmpl.mailOrder, id), With(tmpl.mail, id, body))
  BY NotedListed DEF MailInv, TemplatesFine, TemplatesListed
<1>7. TemplatesFine'
  BY <1>5, <1>6 DEF MailInv, TemplatesFine, TemplatesListed
<1> QED
  BY <1>1, <1>7, AsideStep DEF Edit

\* Writing a page's translations keeps the invariant.
LEMMA PageEditStep ==
  ASSUME MailInv, NEW page \in Pages, NEW translations, Edit(UpdateUITranslations(tmpl, page, translations))
  PROVE  MailInv'
<1>1. DepKept
  BY DEF Edit, MailInv, DepFine, DepKept
<1>2. tmpl' = [tmpl EXCEPT !.ui = With(tmpl.ui, page, translations), !.uiOrder = Noted(tmpl.uiOrder, page)]
  BY DEF Edit, UpdateUITranslations
<1>3. /\ DOMAIN tmpl' = DOMAIN tmpl /\ tmpl'.mail = tmpl.mail /\ tmpl'.mailOrder = tmpl.mailOrder
      /\ tmpl'.ui = With(tmpl.ui, page, translations) /\ tmpl'.uiOrder = Noted(tmpl.uiOrder, page)
  BY <1>2 DEF MailInv, TemplatesFine
<1>4. /\ Noted(tmpl.uiOrder, page) \in Seq(Pages)
      /\ Listed(Noted(tmpl.uiOrder, page), With(tmpl.ui, page, translations))
  BY NotedListed DEF MailInv, TemplatesFine, TemplatesListed
<1>5. TemplatesFine'
  BY <1>3, <1>4 DEF MailInv, TemplatesFine, TemplatesListed
<1> QED
  BY <1>1, <1>5, AsideStep DEF Edit

-----------------------------------------------------------------------------
(***************************************************************************)
(* The invariant and what follows.                                         *)
(***************************************************************************)
\* The stores start typed, and the index with the accounts' addresses.
LEMMA InitStores ==
  ASSUME MailInit
  PROVE  StoreTypeOK /\ IndexFine
<1> USE MailAssumption, NoneAssumption
<1>1. PICK p \in Passwords : p = CHOOSE q \in Passwords : TRUE
  OBVIOUS
<1>2. /\ users \subseteq UserIDs /\ email \in [UserIDs -> Addresses] /\ password \in [UserIDs -> Credentials]
      /\ verified \in [UserIDs -> BOOLEAN] /\ pending \in [UserIDs -> Addresses]
  BY <1>1 DEF MailInit, Addresses, Credentials
<1>3. /\ hash \in [Kinds -> [UserIDs -> Tokens \cup {NoToken}]] /\ expiry \in [Kinds -> [UserIDs -> Int]]
      /\ byToken \in [Indexed -> [Tokens -> UserIDs \cup {NoID}]]
  BY DEF MailInit, NoExpiry
<1>4. /\ byEmail \in [Addresses -> UserIDs \cup {NoID}]
      /\ \A e \in Addresses : byEmail[e] # NoID => email[byEmail[e]] = e
  <2>1. byEmail = [e \in Addresses |-> IF \E u \in UserIDs : FirstEmail[u] = e
                                       THEN CHOOSE u \in UserIDs : FirstEmail[u] = e ELSE NoID]
    BY DEF MailInit
  <2> SUFFICES ASSUME NEW e \in Addresses
               PROVE  byEmail[e] \in UserIDs \cup {NoID} /\ (byEmail[e] # NoID => email[byEmail[e]] = e)
    BY <2>1
  <2>2. CASE \E u \in UserIDs : FirstEmail[u] = e
    <3>1. PICK u \in UserIDs : u = (CHOOSE w \in UserIDs : FirstEmail[w] = e) /\ FirstEmail[u] = e
      BY <2>2
    <3>2. byEmail[e] = u
      BY <2>1, <2>2, <3>1
    <3> QED
      BY <3>1, <3>2 DEF MailInit
  <2>3. CASE ~\E u \in UserIDs : FirstEmail[u] = e
    BY <2>1, <2>3
  <2> QED
    BY <2>2, <2>3
<1> QED
  BY <1>2, <1>3, <1>4 DEF StoreTypeOK, IndexFine

\* The invariant holds at first.
LEMMA MailInitInv ==
  ASSUME MailInit
  PROVE  MailInv
<1>1. StoreTypeOK /\ IndexFine
  BY InitStores
<1>2. Typed
  BY <1>1 DEF MailInit, Typed
<1>3. DepFine
  BY MailAssumption DEF MailInit, DepFine
<1>4. TemplatesFine
  <2>1. <<>> \in Seq(MailIDs) /\ <<>> \in Seq(Pages) /\ DOMAIN <<>> = {} /\ ToSet(<<>>) = {} /\ IsInjective(<<>>)
    BY DEF ToSet, IsInjective
  <2> QED
    BY <2>1 DEF MailInit, TemplatesFine, TemplatesListed, Listed, NoTemplates
<1>5. \A c \in Calls : at[c].step = "waiting"
  BY DEF MailInit, Waiting
<1>6. CallsFine
  BY <1>5 DEF CallsFine, ShapeFine, SendFine, AnswerFine, Places, Underway
<1>7. Marked /\ ConfirmsFine /\ Confirmed
  BY <1>5 DEF Marked, ChangesAddress, Is, ConfirmsFine, Announces, Confirmed, Ended
<1>8. IssuedFine /\ InboxFine /\ EventsFine
  BY DEF MailInit, IssuedFine, InboxFine, EventsFine
<1> QED
  BY <1>1, <1>2, <1>3, <1>4, <1>6, <1>7, <1>8 DEF MailInv

\* Every step keeps the invariant.
LEMMA MailNextInv ==
  ASSUME MailInv, [MailNext]_mailVars
  PROVE  MailInv'
<1>1. CASE UNCHANGED mailVars
  BY <1>1, AsideStep DEF mailVars, MailInv, DepKept, DepFine, TemplatesFine, TemplatesListed
<1>2. ASSUME NEW c \in Calls,
             \/ ForgotPassword(c) \/ SendVerificationEmail(c) \/ RequestChangeLookup(c)
             \/ SendMagicLink(c) \/ StepUpSubject(c) \/ StepUpLookup(c) \/ SendSMSCode(c)
      PROVE  MailInv'
  BY <1>2, ForgotPasswordStep, SendVerificationEmailStep, RequestChangeLookupStep, SendMagicLinkStep,
     StepUpSubjectStep, StepUpLookupStep, SendSMSCodeStep
<1>3. ASSUME NEW c \in Calls,
             \/ StoreToken(c) \/ ConfirmLookup(c) \/ ApplyChange(c) \/ ClearChange(c)
             \/ RenderByMailer(c) \/ HandOver(c) \/ Transport(c)
      PROVE  MailInv'
  BY <1>3, StoreTokenStep, ConfirmLookupStep, ApplyChangeStep, ClearChangeStep, RenderByMailerStep,
     HandOverStep, TransportStep
<1>4. CASE AdminUpdateMailTemplate
  <2>1. PICK id \in {"verify-email", "verify_email"} :
          \E html \in Bodies, text \in Bodies, tr \in Subjects :
            Edit(UpdateMailTemplate(tmpl, id, [html |-> html, text |-> text, tr |-> tr]))
    BY <1>4 DEF AdminUpdateMailTemplate
  <2>2. PICK html, text, tr : Edit(UpdateMailTemplate(tmpl, id, [html |-> html, text |-> text, tr |-> tr]))
    BY <2>1
  <2>3. PICK patch : patch = [html |-> html, text |-> text, tr |-> tr]
    OBVIOUS
  <2>4. id \in MailIDs
    BY <2>1 DEF MailIDs
  <2>5. Edit(UpdateMailTemplate(tmpl, id, patch))
    BY <2>2, <2>3, Zenon DEF Edit
  <2> QED
    BY <2>4, <2>5, MailEditStep
<1>5. CASE HostUpdateMailTemplate
  <2>1. PICK f, v : Edit(UpdateMailTemplate(tmpl, "verify-email", f :> v))
    BY <1>5 DEF HostUpdateMailTemplate
  <2>2. PICK patch : patch = (f :> v)
    OBVIOUS
  <2>3. Edit(UpdateMailTemplate(tmpl, "verify-email", patch))
    BY <2>1, <2>2, Zenon DEF Edit
  <2>4. "verify-email" \in MailIDs
    BY DEF MailIDs
  <2> QED
    BY <2>3, <2>4, MailEditStep
<1>6. CASE AdminUpdateUITranslations
  <2>1. PICK page \in {"login", "config"} : Edit(UpdateUITranslations(tmpl, page, dep.patches))
    BY <1>6 DEF AdminUpdateUITranslations
  <2>2. PICK n : n = dep.patches
    OBVIOUS
  <2>3. Edit(UpdateUITranslations(tmpl, page, n))
    BY <2>1, <2>2, Zenon DEF Edit
  <2>4. page \in Pages
    BY <2>1 DEF Pages
  <2> QED
    BY <2>3, <2>4, PageEditStep
<1> QED
  BY <1>1, <1>2, <1>3, <1>4, <1>5, <1>6 DEF MailNext

\* The inductive invariant holds throughout.
THEOREM DeliveryInvariant == MailSpec => []MailInv
<1>1. MailInit => MailInv
  BY MailInitInv
<1>2. MailInv /\ [MailNext]_mailVars => MailInv'
  BY MailNextInv
<1> QED
  BY <1>1, <1>2, PTL DEF MailSpec

\* A message a token is in is fine for the user it was minted for.
LEMMA MessageOfToken ==
  ASSUME MailInv, NEW m \in inbox, NEW i \in minted, m.tok = i.tok
  PROVE  /\ m.kind = i.kind /\ m.path = LinkPath(m.kind) /\ Reaches(m.kind, i.user, m.to)
         /\ m.kind = "change" => Latest(i.user, m.tok, m.to)
<1>1. MessageFine(m) /\ i \in [tok : Tokens, kind : Kinds, user : UserIDs]
  BY DEF MailInv, InboxFine, IssuedFine
<1>2. m.tok # NoToken
  BY <1>1, NoneAssumption
<1>3. PICK u \in UserIDs : /\ MintedFor(m.tok, m.kind, u) /\ Reaches(m.kind, u, m.to)
                           /\ m.kind = "change" => Latest(u, m.tok, m.to)
  BY <1>1, <1>2 DEF MessageFine
<1>4. PICK j : j = [tok |-> m.tok, kind |-> m.kind, user |-> u]
  OBVIOUS
<1>5. j \in minted /\ j.tok = i.tok /\ j.kind = m.kind /\ j.user = u
  BY <1>3, <1>4 DEF MintedFor
<1>6. i = j
  BY <1>5 DEF MailInv, IssuedFine
<1> QED
  BY <1>1, <1>2, <1>3, <1>5, <1>6 DEF MessageFine

\* What lies in the mailboxes is right: every token went to the person it opens
\* an account of, by a link of the deployment to the route that redeems it, in a
\* mail of one template; and the template lists are complete (delivery.go,
\* delivery_password_email.go, mailer.go, template_store.go).
THEOREM MailIsRight == MailSpec => []MailIsTrue
<1>1. MailInv => MailIsTrue
  <2> SUFFICES ASSUME MailInv PROVE MailIsTrue
    OBVIOUS
  <2>1. MailTypeOK
    <3>1. \A i \in minted : i.tok \in Tokens /\ i.kind \in Kinds /\ i.user \in UserIDs
      BY DEF MailInv, IssuedFine
    <3>2. \A m \in inbox : m.kind \in Senders /\ m.tok \in Tokens \cup {NoToken}
      BY DEF MailInv, InboxFine, MessageFine
    <3> QED
      BY <3>1, <3>2 DEF MailInv, Typed, MailTypeOK
  <2>2. TokensGoHome
    BY MessageOfToken DEF TokensGoHome, Reaches, Latest
  <2>3. LinksLeadHome
    <3>1. \A m \in inbox : m.base \in dep.allowed \cup {dep.site, dep.base, NoSite}
      BY DEF MailInv, InboxFine, MessageFine
    <3>2. \A m \in inbox, i \in minted : m.tok = i.tok => m.path = LinkPath(i.kind)
      BY MessageOfToken
    <3> QED
      BY <3>1, <3>2 DEF LinksLeadHome
  <2>4. OneTemplate
    BY DEF MailInv, InboxFine, MessageFine, OneTemplate
  <2> QED
    BY <2>1, <2>2, <2>3, <2>4 DEF MailInv, TemplatesFine, MailIsTrue
<1> QED
  BY <1>1, DeliveryInvariant, PTL

\* The answers of the sending routes tell what happened, and the two that take
\* any address never tell whether there is an account (ForgotPassword,
\* SendMagicLink in service.go and wire_password_email.go).
THEOREM AnswersTellTheTruth == MailSpec => []AnswersAreTrue
<1>1. MailInv => AnswersAreTrue
  <2> SUFFICES ASSUME MailInv, NEW c \in Calls, Ended(c)
               PROVE  AnswerFine(at[c])
    BY DEF AnswersAreTrue, AnswerFine, Ended, Is
  <2> QED
    BY DEF MailInv, CallsFine
<1> QED
  BY <1>1, DeliveryInvariant, PTL

\* A change of address is announced as it happened, to the address the account
\* had, unless two changes for one user overlapped (ConfirmEmailChange,
\* service.go:861-908).
THEOREM ChangesAreAnnounced == MailSpec => []ChangeIsAnnounced
<1>1. MailInv => ChangeIsAnnounced
  BY DEF MailInv, EventsFine, Confirmed, ChangeIsAnnounced
<1> QED
  BY <1>1, DeliveryInvariant, PTL
=============================================================================
