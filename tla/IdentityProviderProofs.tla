----------------------- MODULE IdentityProviderProofs -----------------------
(***************************************************************************)
(* Proofs about IdentityProvider and the second factor it extends, for any *)
(* number of users, requests, clients, codes and secrets, any lifetimes    *)
(* and any policy.                                                         *)
(*                                                                         *)
(* A request carries what it has checked from one store call to the next,  *)
(* while administrators change the users and the policy under it.  What it *)
(* carries is therefore stated of the call alone (CallFine), with the set  *)
(* of users as a parameter: it only shrinks, so what held of a call holds  *)
(* still after anybody else's step.  An authorization code is in one place *)
(* at a time: in the store, with the request that took it, or behind the   *)
(* ID token it bought.                                                     *)
(***************************************************************************)
EXTENDS IdentityProvider, FiniteSetTheorems, SequenceTheorems, TLAPS

(***************************************************************************)
(* The inductive invariant.                                                *)
(***************************************************************************)
\* What the earlier steps of a call established, us being the users that exist.
CallFine(c, us) ==
  /\ c.step # "idle" => c.user \in Users
  /\ c.step \in {"issue", "clear"} /\ c.how \in StepUp => c.tok \in Token
  /\ c.step = "issue" /\ c.how \in StepUp => c.tok.sub = c.user
  /\ c.step = "clear" /\ c.how = "sms" => c.tok.sub = c.user
  /\ c.step = "clear" => c.how \in {"sms", "magic", "link", "text"}
  /\ c.step = "mark" => c.how = "link"
  /\ c.step = "issue" => c.how \notin {"challenge", "idp"}
  /\ c.step = "issue" /\ c.how = "password" => ~c.strict
  /\ c.step = "saveCode" => c.how = "idp" /\ ~c.strict
  /\ c.step \in {"codeUser", "codeSession"} => c.how = "idp"
  /\ c.step \in {"issue", "mark", "codeSession"} => c.alive
  /\ c.step \in {"enrol"} \cup Disabling => c.tok \in Token /\ c.tok.how # "challenge"
  /\ c.step = "enrol" => c.secret \in Secrets
  /\ c.step \in {"disablePolicy", "disableWrite"} => c.okUser \/ c.user \notin us
  /\ c.step = "disableWrite" => c.okPolicy

CallsFine == \A r \in Requests : CallFine(call[r], users)

\* An access token comes from a login that needed no challenge, or passed it.
TokensFine == \A t \in tokens :
  /\ t.typ = "access" => t.how # "challenge"
  /\ t.how \in StepUp => t.from = t.sub

\* A link or code is sent once for a request to send it.
Sending == {r \in Requests : call[r].step = "send"}
SendsFine == IsFiniteSet(Sending) /\ sends + Cardinality(Sending) <= calls

FactorInv == TypeOK /\ CallsFine /\ TokensFine /\ SendsFine

\* The requests that have taken a code out of the store.
Redeeming(r) == call[r].step \in {"codeUser", "codeSession"}

Grants  == [client : Clients, nonce : Nonces, user : Users, strict : BOOLEAN, exp : Int]
IDToken == [code : CodeIDs, sub : Users, aud : Clients, nonce : Nonces]

FlowTypeOK ==
  /\ codes \subseteq Code
  /\ exchange \in [Requests -> [client : Clients \cup {"none"}, nonce : Nonces \cup {"none"},
                                code : Code \cup {NoAuthCode}]]
  /\ granted \in [CodeIDs -> Grants \cup {NoGrant}]
  /\ idTokens \in Seq(IDToken)

\* A code says what it was issued for ...
CodesFine == \A c \in codes :
  /\ granted[c.id] \in Grants
  /\ c.user = granted[c.id].user /\ c.client = granted[c.id].client
  /\ c.nonce = granted[c.id].nonce

\* ... and so does the request that has it in hand.
ExchangesFine == \A r \in Requests :
  LET x == exchange[r] g == granted[x.code.id] IN
  /\ call[r].step = "saveCode" => x.client \in Clients /\ x.nonce \in Nonces
  /\ Redeeming(r) =>
       /\ x.code \in Code /\ g \in Grants
       /\ call[r].user = g.user /\ x.client = g.client /\ x.nonce = g.nonce

IDTokensFine == \A n \in 1..Len(idTokens) :
  LET t == idTokens[n] g == granted[t.code] IN
  /\ g \in Grants
  /\ t.sub = g.user /\ t.aud = g.client /\ t.nonce = g.nonce

GrantsFine == \A i \in CodeIDs : granted[i] \in Grants => ~granted[i].strict

\* A code is in one place.
CodeInOnePlace ==
  /\ \A c, d \in codes : c.id = d.id => c = d
  /\ \A r \in Requests : \A c \in codes : Redeeming(r) => exchange[r].code.id # c.id
  /\ \A q, r \in Requests : Redeeming(q) /\ Redeeming(r) /\ q # r
                            => exchange[q].code.id # exchange[r].code.id
  /\ \A n \in 1..Len(idTokens) :
       /\ \A c \in codes : c.id # idTokens[n].code
       /\ \A r \in Requests : Redeeming(r) => exchange[r].code.id # idTokens[n].code
       /\ \A m \in 1..Len(idTokens) : idTokens[m].code = idTokens[n].code => m = n

FlowInv == FlowTypeOK /\ CodesFine /\ ExchangesFine /\ IDTokensFine /\ GrantsFine /\ CodeInOnePlace

IInv == FactorInv /\ FlowInv

(***************************************************************************)
(* Calls: what Noted and Goto leave alone.                                 *)
(***************************************************************************)
\* Only the history of a call is rewritten behind its back, and only from one
\* truth to a further one.
Kept(c, d) ==
  /\ d.step = c.step /\ d.user = c.user /\ d.tok = c.tok /\ d.how = c.how
  /\ d.secret = c.secret /\ d.counter = c.counter
  /\ c.alive => d.alive
  /\ ~c.strict => ~d.strict
  /\ c.okUser => d.okUser
  /\ c.okPolicy => d.okPolicy

\* Whether a user needs no second factor in the state a step leads to.
FreeNext(u) == ~(Require2FA \/ rec'[u].Require \/ rec'[u].Secret # NoSecret)

\* Noted records, for a call under way, what holds in the state a step leads to.
LEMMA NotedKeeps ==
  ASSUME NEW c \in Call
  PROVE  /\ Noted(c) \in Call
         /\ Kept(c, Noted(c))
         /\ c.step = "idle" => Noted(c) = c
  <1>1. CASE c.step = "idle"
    BY <1>1 DEF Noted, Kept
  <1>2. CASE c.step # "idle"
    <2>1. Noted(c) = [c EXCEPT !.alive = Noted(c).alive, !.strict = Noted(c).strict,
                               !.okUser = Noted(c).okUser, !.okPolicy = Noted(c).okPolicy]
      BY <1>2 DEF Noted, Call
    <2>2. /\ Noted(c).alive \in BOOLEAN /\ Noted(c).strict \in BOOLEAN
          /\ Noted(c).okUser \in BOOLEAN /\ Noted(c).okPolicy \in BOOLEAN
      BY <1>2 DEF Noted, Call
    <2>3. Noted(c) \in Call
      BY <2>1, <2>2 DEF Call
    <2>4. (c.alive => Noted(c).alive) /\ (~c.strict => ~Noted(c).strict)
      BY <1>2 DEF Noted, Call
    <2>5. (c.okUser => Noted(c).okUser) /\ (c.okPolicy => Noted(c).okPolicy)
      BY <1>2 DEF Noted, Call
    <2>6. /\ Noted(c).step = c.step /\ Noted(c).user = c.user /\ Noted(c).tok = c.tok
          /\ Noted(c).how = c.how /\ Noted(c).secret = c.secret
          /\ Noted(c).counter = c.counter
      BY <2>1, Zenon DEF Call
    <2> QED BY <1>2, <2>3, <2>4, <2>5, <2>6 DEF Kept
  <1> QED BY <1>1, <1>2

\* What Noted sees: the user, the requirement and the policy of the next state.
LEMMA NotedSees ==
  ASSUME NEW c \in Call, c.step # "idle"
  PROVE  /\ c.step \in Opening /\ c.user \in users' => Noted(c).alive
         /\ c.how \in {"password", "idp"} /\ FreeNext(c.user) => ~Noted(c).strict
         /\ c.step \in Disabling /\ ~rec'[c.user].Require => Noted(c).okUser
         /\ c.step \in Disabling /\ ~Require2FA /\ settings' = "off" => Noted(c).okPolicy
  <1>1. c.step \in Opening /\ c.user \in users' => Noted(c).alive
    BY DEF Noted, Call
  <1>2. c.how \in {"password", "idp"} /\ FreeNext(c.user) => ~Noted(c).strict
    BY DEF Noted, Call, FreeNext
  <1>3. c.step \in Disabling /\ ~rec'[c.user].Require => Noted(c).okUser
    BY DEF Noted, Call
  <1>4. c.step \in Disabling /\ ~Require2FA /\ settings' = "off" => Noted(c).okPolicy
    BY DEF Noted, Call
  <1> QED BY <1>1, <1>2, <1>3, <1>4

\* A call as good as it was stays as good while users can only be deleted.
LEMMA KeptStaysFine ==
  ASSUME NEW c \in Call, NEW d \in Call, NEW us, NEW vs \in SUBSET us,
         CallFine(c, us), Kept(c, d)
  PROVE  CallFine(d, vs)
  BY DEF CallFine, Kept, Call, Disabling, StepUp

\* A request at rest.
LEMMA IdleType == Idle \in Call /\ Idle.step = "idle" /\ \A us : CallFine(Idle, us)
  BY DEF Idle, Call, CallFine, Hows, StepUp, Steps, Disabling

\* What a call begins with.
LEMMA BeginType ==
  ASSUME NEW step \in Steps, NEW u \in Users, NEW tok \in Token \cup {NoToken}, NEW how \in Hows
  PROVE  /\ Begin(step, u, tok, how) \in Call
         /\ Begin(step, u, tok, how).step = step /\ Begin(step, u, tok, how).user = u
         /\ Begin(step, u, tok, how).tok = tok /\ Begin(step, u, tok, how).how = how
  <1>1. Idle \in Call
    BY IdleType
  <1>2. Begin(step, u, tok, how) \in Call
    BY <1>1 DEF Begin, Call
  <1>3. /\ Begin(step, u, tok, how).step = step /\ Begin(step, u, tok, how).user = u
        /\ Begin(step, u, tok, how).tok = tok /\ Begin(step, u, tok, how).how = how
    BY <1>1 DEF Begin, Call
  <1> QED BY <1>2, <1>3

\* The state after a step of request r that leads it to next.
LEMMA GotoMoves ==
  ASSUME TypeOK, CallsFine, NEW r \in Requests, NEW next \in Call,
         users' \subseteq users, Goto(r, next), CallFine(Noted(next), users')
  PROVE  /\ call' \in [Requests -> Call]
         /\ CallsFine'
         /\ call'[r] = Noted(next)
         /\ call'[r].step = next.step
         /\ \A q \in Requests \ {r} : Kept(call[q], call'[q])
  <1>1. \A q \in Requests : call[q] \in Call
    BY DEF TypeOK
  <1>2. call' = [q \in Requests |-> Noted(IF q = r THEN next ELSE call[q])]
    BY DEF Goto
  <1>3. call'[r] = Noted(next)
    BY <1>2
  <1>4. \A q \in Requests \ {r} : call'[q] = Noted(call[q])
    BY <1>2
  <1>5. \A q \in Requests \ {r} : Kept(call[q], call'[q]) /\ call'[q] \in Call
    BY <1>1, <1>4, NotedKeeps
  <1>6. call'[r] \in Call /\ call'[r].step = next.step
    BY <1>3, NotedKeeps DEF Kept
  <1>7. call' \in [Requests -> Call]
    BY <1>2, <1>5, <1>6
  <1>8. \A q \in Requests : CallFine(call'[q], users')
    BY <1>1, <1>3, <1>5, KeptStaysFine DEF CallsFine
  <1> QED BY <1>3, <1>5, <1>6, <1>7, <1>8 DEF CallsFine

\* A request that is done.
LEMMA FinishMoves ==
  ASSUME TypeOK, CallsFine, NEW r \in Requests, users' \subseteq users, Finish(r)
  PROVE  /\ call' \in [Requests -> Call]
         /\ CallsFine'
         /\ call'[r] = Idle
         /\ call'[r].step = "idle"
         /\ \A q \in Requests \ {r} : Kept(call[q], call'[q])
  <1>1. Noted(Idle) = Idle
    BY IdleType, NotedKeeps
  <1> QED BY <1>1, IdleType, GotoMoves DEF Finish

\* Nobody's step: an administrator's, or the clock's.
LEMMA EnvironmentMoves ==
  ASSUME TypeOK, CallsFine, users' \subseteq users, Environment
  PROVE  /\ call' \in [Requests -> Call]
         /\ CallsFine'
         /\ \A q \in Requests : Kept(call[q], call'[q])
  <1>1. \A q \in Requests : call[q] \in Call
    BY DEF TypeOK
  <1>2. call' = [q \in Requests |-> Noted(call[q])]
    BY DEF Environment
  <1>3. \A q \in Requests : Kept(call[q], call'[q]) /\ call'[q] \in Call
    BY <1>1, <1>2, NotedKeeps
  <1>4. \A q \in Requests : CallFine(call'[q], users')
    BY <1>1, <1>3, KeptStaysFine DEF CallsFine
  <1> QED BY <1>2, <1>3, <1>4 DEF CallsFine

\* Going on to another step changes nothing else of a call.
LEMMA ContinueType ==
  ASSUME NEW c \in Call, NEW step \in Steps
  PROVE  LET d == [c EXCEPT !.step = step] IN
         /\ d \in Call /\ d.step = step
         /\ d.user = c.user /\ d.tok = c.tok /\ d.how = c.how /\ d.secret = c.secret
         /\ d.counter = c.counter /\ d.alive = c.alive /\ d.strict = c.strict
         /\ d.okUser = c.okUser /\ d.okPolicy = c.okPolicy
  BY DEF Call

(***************************************************************************)
(* What a step must do to keep the invariant of the second factor.         *)
(***************************************************************************)
StoreTypeOK ==
  /\ users \subseteq Users
  /\ rec \in [Users -> Record]
  /\ settings \in {"on", "off", "down"}
  /\ now \in 0..MaxTime
  /\ tokens \subseteq Token
  /\ calls \in 0..MaxCalls
  /\ admin \in 0..MaxAdmin

\* The count of the sends owed, for a step of request r.
SendsAccounted(r) ==
  \/ /\ call[r].step # "send" /\ call'[r].step # "send"
     /\ sends' = sends /\ calls' >= calls
  \/ /\ call[r].step # "send" /\ call'[r].step = "send"
     /\ sends' = sends /\ calls' = calls + 1
  \/ /\ call[r].step = "send" /\ call'[r].step # "send"
     /\ sends' \in {sends, sends + 1} /\ calls' = calls

\* The sends made and owed stay within the calls made.
LEMMA SendsKeep ==
  ASSUME TypeOK, SendsFine, NEW r \in Requests, SendsAccounted(r), calls' \in 0..MaxCalls,
         \A q \in Requests \ {r} : Kept(call[q], call'[q])
  PROVE  SendsFine' /\ sends' \in 0..MaxCalls
  <1>1. \A q \in Requests \ {r} : call'[q].step = call[q].step
    BY DEF Kept
  <1>2. /\ sends \in Nat /\ calls \in Nat /\ calls' \in Nat /\ calls' <= MaxCalls /\ MaxCalls \in Nat
        /\ IsFiniteSet(Sending) /\ Cardinality(Sending) \in Nat
        /\ sends + Cardinality(Sending) <= calls
    BY SecondFactorAssumption, FS_CardinalityType DEF TypeOK, SendsFine
  <1>3. CASE call[r].step # "send" /\ call'[r].step # "send"
    <2>1. Sending' = Sending
      BY <1>1, <1>3 DEF Sending
    <2>2. sends' = sends /\ calls' >= calls
      BY <1>3 DEF SendsAccounted
    <2> QED BY <1>2, <2>1, <2>2 DEF SendsFine
  <1>4. CASE call[r].step # "send" /\ call'[r].step = "send"
    <2>1. Sending' = Sending \cup {r} /\ r \notin Sending
      BY <1>1, <1>4 DEF Sending
    <2>2. IsFiniteSet(Sending') /\ Cardinality(Sending') = Cardinality(Sending) + 1
      BY <1>2, <2>1, FS_AddElement
    <2>3. sends' = sends /\ calls' = calls + 1
      BY <1>4 DEF SendsAccounted
    <2> QED BY <1>2, <2>2, <2>3 DEF SendsFine
  <1>5. CASE call[r].step = "send" /\ call'[r].step # "send"
    <2>1. Sending' = Sending \ {r} /\ r \in Sending
      BY <1>1, <1>5 DEF Sending
    <2>2. IsFiniteSet(Sending') /\ Cardinality(Sending') = Cardinality(Sending) - 1
          /\ Cardinality(Sending') \in Nat
      BY <1>2, <2>1, FS_RemoveElement, FS_CardinalityType
    <2>3. sends' \in {sends, sends + 1} /\ calls' = calls
      BY <1>5 DEF SendsAccounted
    <2> QED BY <1>2, <2>2, <2>3 DEF SendsFine
  <1> QED BY <1>3, <1>4, <1>5 DEF SendsAccounted

\* A step of one request, from one store call to the next.
LEMMA StepKeeps ==
  ASSUME FactorInv, NEW r \in Requests, NEW next \in Call, users' \subseteq users,
         Goto(r, next), CallFine(Noted(next), users'),
         StoreTypeOK', TokensFine', SendsAccounted(r)
  PROVE  FactorInv'
  <1>1. /\ call' \in [Requests -> Call] /\ CallsFine'
        /\ \A q \in Requests \ {r} : Kept(call[q], call'[q])
    BY GotoMoves DEF FactorInv
  <1>2. SendsFine' /\ sends' \in 0..MaxCalls
    BY <1>1, SendsKeep DEF FactorInv, StoreTypeOK
  <1> QED BY <1>1, <1>2 DEF FactorInv, TypeOK, StoreTypeOK

\* The last step of a request.
LEMMA EndKeeps ==
  ASSUME FactorInv, NEW r \in Requests, users' \subseteq users, Finish(r),
         StoreTypeOK', TokensFine', calls' = calls, call[r].step # "idle",
         sends' = sends \/ (call[r].step = "send" /\ sends' = sends + 1)
  PROVE  FactorInv'
  <1>1. CallFine(Noted(Idle), users') /\ Noted(Idle) = Idle
    BY IdleType, NotedKeeps
  <1>2. call'[r].step = "idle"
    BY FinishMoves DEF FactorInv
  <1>3. calls \in Nat
    BY SecondFactorAssumption DEF FactorInv, TypeOK
  <1>4. SendsAccounted(r)
    BY <1>2, <1>3 DEF SendsAccounted
  <1> QED BY <1>1, <1>4, IdleType, StepKeeps DEF Finish

\* A request that only read, and begins or goes on.
LEMMA ReadKeeps ==
  ASSUME FactorInv, NEW r \in Requests, NEW next \in Call, Goto(r, next), Local,
         CallFine(Noted(next), users), call[r].step # "send",
         Start(r) \/ (UNCHANGED calls /\ next.step # "send")
  PROVE  FactorInv'
  <1>1. StoreTypeOK' /\ TokensFine'
    BY SecondFactorAssumption
       DEF FactorInv, TypeOK, StoreTypeOK, TokensFine, Local, UnchangedStore, Start
  <1>2. call'[r].step = next.step
    BY GotoMoves DEF FactorInv, Local, UnchangedStore
  <1>3. SendsAccounted(r)
    BY <1>2, SecondFactorAssumption
       DEF SendsAccounted, Start, Local, UnchangedStore, FactorInv, TypeOK
  <1> QED BY <1>1, <1>3, StepKeeps DEF Local, UnchangedStore

\* A state's calls and tokens.
LEMMA FactorTypes ==
  ASSUME FactorInv, NEW r \in Requests
  PROVE  /\ call[r] \in Call /\ CallFine(call[r], users)
         /\ call[r].step \in Steps /\ call[r].how \in Hows
         /\ call[r].secret \in Secrets \cup {NoSecret}
         /\ call[r].tok \in Token \cup {NoToken}
         /\ call[r].step # "idle" => call[r].user \in Users
         /\ call[r].user \in Users => rec[call[r].user] \in Record
         /\ \A t \in tokens : t \in Token /\ t.sub \in Users
  BY DEF FactorInv, TypeOK, CallsFine, CallFine, Call, Token

\* The call a Continue leads to.
LEMMA ContinueNext ==
  ASSUME NEW r \in Requests, call[r] \in Call, NEW step \in Steps, Continue(r, step)
  PROVE  \E next \in Call :
           /\ Goto(r, next)
           /\ next.step = step
           /\ next.user = call[r].user /\ next.tok = call[r].tok /\ next.how = call[r].how
           /\ next.secret = call[r].secret
           /\ next.alive = call[r].alive /\ next.strict = call[r].strict
           /\ next.okUser = call[r].okUser /\ next.okPolicy = call[r].okPolicy
  <1>1. Goto(r, [call[r] EXCEPT !.step = step])
    BY DEF Continue
  <1> QED BY <1>1, ContinueType, Zenon

(***************************************************************************)
(* The steps of a request.                                                 *)
(***************************************************************************)
\* The password is right: a challenge, or a session to come (LoginWithChallenge).
LEMMA LoginKeeps ==
  ASSUME FactorInv, NEW r \in Requests, NEW u \in Users, LoginWithChallenge(r, u)
  PROVE  FactorInv'
  <1>1. call[r].step = "idle" /\ u \in users /\ UnchangedStore /\ sends' = sends
    BY DEF LoginWithChallenge, Start, At, MayLogin
  <1>2. CASE /\ tokens' = tokens \cup {IssueToken("temp", u, TempTokenTTL, "challenge", u)}
             /\ Finish(r)
    <2>1. IssueToken("temp", u, TempTokenTTL, "challenge", u) \in Token
      BY SecondFactorAssumption DEF IssueToken, Token, Hows, FactorInv, TypeOK
    <2>2. TokensFine'
      BY <1>2, <2>1 DEF FactorInv, TokensFine, IssueToken, StepUp
    <2>3. StoreTypeOK'
      BY <1>1, <1>2, <2>1, SecondFactorAssumption
         DEF StoreTypeOK, FactorInv, TypeOK, UnchangedStore, LoginWithChallenge, Start
    <2>4. call'[r].step = "idle"
      BY <1>1, <1>2, FinishMoves DEF FactorInv, UnchangedStore
    <2>5. SendsAccounted(r)
      BY <1>1, <2>4, SecondFactorAssumption
         DEF SendsAccounted, LoginWithChallenge, Start, FactorInv, TypeOK
    <2>6. CallFine(Noted(Idle), users')
      BY IdleType, NotedKeeps
    <2> QED BY <1>1, <1>2, <2>2, <2>3, <2>5, <2>6, IdleType, StepKeeps
            DEF Finish, UnchangedStore
  <1>3. CASE /\ ~RequiresTwoFactor(u)
             /\ UNCHANGED tokens
             /\ Goto(r, Begin("issue", u, NoToken, "password"))
    <2> PICK next \in Call : /\ next = Begin("issue", u, NoToken, "password")
                             /\ next.step = "issue" /\ next.user = u /\ next.how = "password"
      BY BeginType DEF Steps, Hows
    <2>1. FreeNext(u) /\ u \in users'
      BY <1>1, <1>3 DEF FreeNext, RequiresTwoFactor, Enrolled, UnchangedStore
    <2>2. Noted(next) \in Call /\ Kept(next, Noted(next))
          /\ Noted(next).alive /\ ~Noted(next).strict
      BY <2>1, NotedKeeps, NotedSees DEF Opening
    <2>3. CallFine(Noted(next), users)
      BY <2>2 DEF CallFine, Kept, StepUp, Disabling
    <2> QED BY <1>1, <1>3, <2>3, ReadKeeps DEF Local, LoginWithChallenge
  <1> QED BY <1>2, <1>3 DEF LoginWithChallenge

\* The session a login or a step-up opens (issueSession).
LEMMA IssueSessionKeeps ==
  ASSUME FactorInv, NEW r \in Requests, IssueSession(r)
  PROVE  FactorInv'
  <1>1. PICK c \in Call : c = call[r] /\ CallFine(c, users) /\ c.step = "issue"
    BY FactorTypes DEF IssueSession, Within, At
  <1>2. PICK from : from = IF c.how \in StepUp THEN c.tok.sub ELSE c.user
    OBVIOUS
  <1>3. from \in Users /\ c.user \in Users /\ c.how \in Hows /\ c.how # "challenge"
        /\ (c.how \in StepUp => from = c.user)
    BY <1>1, <1>2 DEF CallFine, Call
  <1>4. PICK t : t = SessionToken(c.user, c.how, from)
    OBVIOUS
  <1>5. t \in Token /\ t.how # "challenge" /\ (t.how \in StepUp => t.from = t.sub)
    BY <1>3, <1>4, SecondFactorAssumption
       DEF SessionToken, IssueToken, Token, FactorInv, TypeOK
  <1>6. tokens' = tokens \cup {t}
    BY <1>1, <1>2, <1>4 DEF IssueSession
  <1>7. TokensFine'
    BY <1>5, <1>6 DEF FactorInv, TokensFine
  <1>8. StoreTypeOK'
    BY <1>5, <1>6 DEF StoreTypeOK, FactorInv, TypeOK, UnchangedStore, IssueSession, Within
  <1>9. /\ Finish(r) /\ users' \subseteq users /\ calls' = calls /\ sends' = sends
        /\ call[r].step # "idle"
    BY <1>1 DEF IssueSession, UnchangedStore, Within
  <1> QED BY <1>7, <1>8, <1>9, EndKeeps

\* A link or code is asked for (SendFor's two callers).
LEMMA SendStartKeeps ==
  ASSUME FactorInv, NEW r \in Requests, NEW u \in Users, NEW k \in {"sms", "magic"},
         Start(r), Local, SendFor(r, k, u)
  PROVE  FactorInv'
  <1>1. PICK t \in Token \cup {NoToken} : Goto(r, Begin("send", u, t, k))
    BY FactorTypes DEF SendFor
  <1>2. PICK next \in Call : Goto(r, next) /\ next.step = "send" /\ next.user = u
    BY <1>1, BeginType DEF Steps, Hows, StepUp
  <1>3. Noted(next) \in Call /\ Kept(next, Noted(next))
    BY NotedKeeps
  <1>4. CallFine(Noted(next), users)
    BY <1>2, <1>3 DEF CallFine, Kept, Disabling
  <1>5. call[r].step # "send"
    BY DEF Start, At
  <1> QED BY <1>2, <1>4, <1>5, ReadKeeps

\* The link or code is stored and sent, or its user is gone by then.
LEMMA SendKeeps ==
  ASSUME FactorInv, NEW r \in Requests,
         SendMagicLink(r) \/ SendSMSCode(r) \/ SendFails(r)
  PROVE  FactorInv'
  <1>1. /\ call[r].step = "send" /\ calls' = calls
        /\ sends \in Nat /\ calls <= MaxCalls /\ calls \in Nat /\ MaxCalls \in Nat
        /\ now \in Nat /\ CodeTTL \in Nat
    BY SecondFactorAssumption
       DEF SendMagicLink, SendSMSCode, SendFails, Within, At, FactorInv, TypeOK
  <1>2. sends + 1 <= MaxCalls
    <2>1. r \in Sending /\ IsFiniteSet(Sending) /\ sends + Cardinality(Sending) <= calls
      BY <1>1 DEF Sending, FactorInv, SendsFine
    <2>2. Cardinality(Sending) \in Nat /\ Cardinality(Sending) # 0
      BY <2>1, FS_CardinalityType, FS_EmptySet
    <2> QED BY <1>1, <2>1, <2>2
  <1>3. PICK u : u = call[r].user
    OBVIOUS
  <1>4. u \in Users /\ rec[u] \in Record
    BY <1>1, <1>3, FactorTypes
  <1>5. CASE SendMagicLink(r)
    <2>1. [code |-> sends + 1, exp |-> now + CodeTTL] \in Pending
      BY <1>1, <1>2 DEF Pending, Codes
    <2>2. rec' = [rec EXCEPT ![u].magic = [code |-> sends + 1, exp |-> now + CodeTTL]]
      BY <1>3, <1>5 DEF SendMagicLink
    <2>3. rec' \in [Users -> Record]
      BY <1>4, <2>1, <2>2 DEF FactorInv, TypeOK, Record
    <2>4. StoreTypeOK' /\ TokensFine'
      BY <1>1, <1>5, <2>3 DEF StoreTypeOK, TokensFine, FactorInv, TypeOK, SendMagicLink
    <2>5. Finish(r) /\ users' \subseteq users /\ sends' = sends + 1
      BY <1>5 DEF SendMagicLink
    <2> QED BY <1>1, <2>4, <2>5, EndKeeps
  <1>6. CASE SendSMSCode(r)
    <2>1. PICK p \in Pending : rec' = [rec EXCEPT ![u].sms = p]
      <3>1. PICK c \in SMSCodes :
              rec' = [rec EXCEPT ![u].sms = [code |-> c, exp |-> now + CodeTTL]]
        BY <1>3, <1>6 DEF SendSMSCode
      <3>2. [code |-> c, exp |-> now + CodeTTL] \in Pending
        BY <1>1 DEF Pending, Codes
      <3> QED BY <3>1, <3>2
    <2>2. rec' \in [Users -> Record]
      BY <1>4, <2>1 DEF FactorInv, TypeOK, Record
    <2>3. StoreTypeOK' /\ TokensFine'
      BY <1>1, <1>6, <2>2 DEF StoreTypeOK, TokensFine, FactorInv, TypeOK, SendSMSCode
    <2>4. Finish(r) /\ users' \subseteq users /\ sends' = sends
      BY <1>6 DEF SendSMSCode
    <2> QED BY <1>1, <2>3, <2>4, EndKeeps
  <1>7. CASE SendFails(r)
    <2>1. StoreTypeOK' /\ TokensFine'
      BY <1>1, <1>7 DEF StoreTypeOK, TokensFine, FactorInv, TypeOK, SendFails, Local,
                        UnchangedStore
    <2>2. Finish(r) /\ users' \subseteq users /\ sends' = sends
      BY <1>7 DEF SendFails, Local, UnchangedStore
    <2> QED BY <1>1, <2>1, <2>2, EndKeeps
  <1> QED BY <1>5, <1>6, <1>7

\* A request that begins by redeeming a code or link, or by a factor route.
LEMMA VerifyCodeKeeps ==
  ASSUME FactorInv, NEW r \in Requests, NEW u \in Users, NEW c,
         VerifySMSCode(r, u, c) \/ VerifyMagicLink(r, u, c)
  PROVE  FactorInv'
  <1>1. /\ Start(r) /\ Local /\ call[r].step = "idle"
    BY DEF VerifySMSCode, VerifyMagicLink, Start, At
  <1>2. PICK t \in Token \cup {NoToken}, how \in {"text", "sms", "link", "magic"} :
          /\ Goto(r, Begin("clear", u, t, how))
          /\ how \in {"sms", "magic"} => t \in Token
          /\ how = "sms" => t.sub = u
    <2>1. CASE VerifySMSCode(r, u, c)
      <3>1. CASE Goto(r, Begin("clear", u, NoToken, "text"))
        BY <3>1
      <3>2. CASE \E t \in tokens : StepUpSubject(t, u) /\ Goto(r, Begin("clear", u, t, "sms"))
        BY <3>2, FactorTypes DEF StepUpSubject
      <3> QED BY <2>1, <3>1, <3>2 DEF VerifySMSCode
    <2>2. CASE VerifyMagicLink(r, u, c)
      <3>1. CASE Goto(r, Begin("clear", u, NoToken, "link"))
        BY <3>1
      <3>2. CASE \E t \in tokens, v \in Users :
                   StepUpSubject(t, v) /\ Goto(r, Begin("clear", u, t, "magic"))
        BY <3>2, FactorTypes
      <3> QED BY <2>2, <3>1, <3>2 DEF VerifyMagicLink
    <2> QED BY <2>1, <2>2
  <1>3. PICK next \in Call : /\ Goto(r, next) /\ next.step = "clear" /\ next.user = u
                             /\ next.tok = t /\ next.how = how
    BY <1>2, BeginType DEF Steps, Hows, StepUp
  <1>4. Noted(next) \in Call /\ Kept(next, Noted(next))
    BY NotedKeeps
  <1>5. CallFine(Noted(next), users)
    BY <1>2, <1>3, <1>4 DEF CallFine, Kept, StepUp, Disabling
  <1>6. call[r].step # "send"
    BY <1>1
  <1> QED BY <1>1, <1>3, <1>5, <1>6, ReadKeeps

\* A redeemed link or code is burnt, and its owner compared (Clear).
LEMMA ClearKeeps ==
  ASSUME FactorInv, NEW r \in Requests, Clear(r)
  PROVE  FactorInv'
  <1>1. PICK c \in Call : c = call[r] /\ CallFine(c, users) /\ c.step = "clear" /\ c.user \in Users
    BY FactorTypes DEF Clear, Within, At
  <1>2. PICK u \in Users : u = call[r].user /\ rec[u] \in Record
    BY <1>1, FactorTypes
  <1>3. /\ users' = users /\ settings' = settings /\ now' = now /\ tokens' = tokens
        /\ sends' = sends /\ admin' = admin /\ calls' = calls
    BY DEF Clear, Within
  <1>4. TokensFine'
    BY <1>3 DEF FactorInv, TokensFine
  <1>5. CASE UNCHANGED rec /\ Finish(r)
    <2>1. StoreTypeOK'
      BY <1>3, <1>5 DEF StoreTypeOK, FactorInv, TypeOK
    <2> QED BY <1>1, <1>3, <1>4, <1>5, <2>1, EndKeeps
  <1>6. CASE u \in users
    <2>1. rec' \in [Users -> Record]
      <3>1. NoCode \in Pending
        BY DEF Pending
      <3>2. rec' = [rec EXCEPT ![u].sms = NoCode] \/ rec' = [rec EXCEPT ![u].magic = NoCode]
        BY <1>2, <1>6 DEF Clear
      <3>3. [rec EXCEPT ![u].sms = NoCode] \in [Users -> Record]
        BY <1>2, <3>1 DEF Record, FactorInv, TypeOK
      <3>4. [rec EXCEPT ![u].magic = NoCode] \in [Users -> Record]
        BY <1>2, <3>1 DEF Record, FactorInv, TypeOK
      <3> QED BY <3>2, <3>3, <3>4
    <2>2. StoreTypeOK'
      BY <1>3, <2>1 DEF StoreTypeOK, FactorInv, TypeOK
    <2>3. CASE Finish(r)
      BY <1>1, <1>3, <1>4, <2>2, <2>3, EndKeeps
    <2>4. CASE \E step \in {"mark", "issue"} :
                 /\ Continue(r, step)
                 /\ step = "mark" => c.how = "link"
                 /\ step = "issue" => c.how # "link" /\ (c.how = "magic" => c.tok.sub = u)
      <3>1. PICK step \in {"mark", "issue"} :
              /\ Continue(r, step)
              /\ step = "mark" => c.how = "link"
              /\ step = "issue" => c.how # "link" /\ (c.how = "magic" => c.tok.sub = u)
        BY <2>4
      <3>2. PICK next \in Call :
              /\ Goto(r, next)
              /\ next.step = step /\ next.user = u /\ next.tok = c.tok /\ next.how = c.how
        BY <1>1, <1>2, <3>1, ContinueNext DEF Steps
      <3>3. /\ Noted(next) \in Call /\ Kept(next, Noted(next)) /\ Noted(next).alive
        BY <1>3, <1>6, <3>1, <3>2, NotedKeeps, NotedSees DEF Opening
      <3>4. CallFine(Noted(next), users')
        BY <1>1, <1>2, <3>1, <3>2, <3>3 DEF CallFine, Kept, StepUp, Disabling
      <3>5. call'[r].step = step
        BY <1>3, <3>1, <3>2, <3>4, GotoMoves DEF FactorInv
      <3>6. SendsAccounted(r)
        BY <1>1, <1>3, <3>1, <3>5, SecondFactorAssumption DEF SendsAccounted, FactorInv, TypeOK
      <3> QED BY <1>3, <1>4, <2>2, <3>2, <3>4, <3>6, StepKeeps
    <2> QED BY <1>1, <1>2, <1>6, <2>3, <2>4 DEF Clear
  <1> QED BY <1>2, <1>5, <1>6 DEF Clear


\* Signing in with a link marks the address verified.
LEMMA MarkVerifiedKeeps ==
  ASSUME FactorInv, NEW r \in Requests, MarkVerified(r)
  PROVE  FactorInv'
  <1>1. PICK c \in Call : c = call[r] /\ CallFine(c, users) /\ c.step = "mark" /\ c.user \in Users
    BY FactorTypes DEF MarkVerified, Within, At
  <1>2. PICK u \in Users : u = call[r].user /\ rec[u] \in Record
    BY <1>1, FactorTypes
  <1>3. /\ users' = users /\ settings' = settings /\ now' = now /\ tokens' = tokens
        /\ sends' = sends /\ admin' = admin /\ calls' = calls /\ Continue(r, "issue")
    BY DEF MarkVerified, Within
  <1>4. PICK v \in BOOLEAN : rec' = [rec EXCEPT ![u].Verified = v] \/ rec' = rec
    BY <1>2 DEF MarkVerified
  <1>5. rec' \in [Users -> Record]
    BY <1>2, <1>4 DEF FactorInv, TypeOK, Record
  <1>6. StoreTypeOK' /\ TokensFine'
    BY <1>3, <1>5 DEF StoreTypeOK, TokensFine, FactorInv, TypeOK
  <1>7. PICK next \in Call :
          /\ Goto(r, next)
          /\ next.step = "issue" /\ next.user = u /\ next.how = c.how /\ next.alive = c.alive
    BY <1>1, <1>2, <1>3, ContinueNext DEF Steps
  <1>8. Noted(next) \in Call /\ Kept(next, Noted(next))
    BY NotedKeeps
  <1>9. CallFine(Noted(next), users')
    BY <1>1, <1>2, <1>7, <1>8 DEF CallFine, Kept, StepUp, Disabling
  <1>10. call'[r].step = "issue"
    BY <1>3, <1>7, <1>9, GotoMoves DEF FactorInv
  <1>11. SendsAccounted(r)
    BY <1>1, <1>3, <1>10, SecondFactorAssumption DEF SendsAccounted, FactorInv, TypeOK
  <1> QED BY <1>3, <1>6, <1>7, <1>9, <1>11, StepKeeps

\* An authenticator code is right for the subject of a step-up token.
LEMMA VerifyTOTPKeeps ==
  ASSUME FactorInv, NEW r \in Requests, NEW s \in Secrets, NEW c \in Counters,
         VerifyTOTP(r, s, c)
  PROVE  FactorInv'
  <1>1. PICK t \in Token :
          /\ t.sub \in users
          /\ Goto(r, [Begin("issue", t.sub, t, "totp") EXCEPT !.counter = c])
    BY FactorTypes DEF VerifyTOTP
  <1>2. /\ Start(r) /\ Local /\ call[r].step # "send" /\ users' = users
    BY DEF VerifyTOTP, Start, At, Local, UnchangedStore
  <1>3. c \in Int
    BY SecondFactorAssumption DEF Counters
  <1>4. PICK b \in Call : /\ b = Begin("issue", t.sub, t, "totp")
                          /\ b.step = "issue" /\ b.user = t.sub /\ b.tok = t /\ b.how = "totp"
    BY <1>1, BeginType DEF Steps, Hows, StepUp, Token
  <1>5. /\ [b EXCEPT !.counter = c] \in Call
        /\ [b EXCEPT !.counter = c].step = b.step /\ [b EXCEPT !.counter = c].user = b.user
        /\ [b EXCEPT !.counter = c].tok = b.tok /\ [b EXCEPT !.counter = c].how = b.how
    BY <1>3 DEF Call
  <1>6. Goto(r, [b EXCEPT !.counter = c])
    BY <1>1, <1>4
  <1>7. PICK next \in Call : /\ Goto(r, next) /\ next.step = "issue" /\ next.user = t.sub
                             /\ next.tok = t /\ next.how = "totp"
    BY <1>4, <1>5, <1>6
  <1>8. Noted(next) \in Call /\ Kept(next, Noted(next)) /\ Noted(next).alive
    BY <1>1, <1>2, <1>7, NotedKeeps, NotedSees DEF Opening
  <1>9. CallFine(Noted(next), users)
    BY <1>1, <1>7, <1>8 DEF CallFine, Kept, StepUp, Disabling, Token
  <1> QED BY <1>2, <1>7, <1>9, ReadKeeps

\* An enrolment's first code is right; only an access token comes this far.
LEMMA VerifyTOTPSetupKeeps ==
  ASSUME FactorInv, NEW r \in Requests, NEW s \in Secrets, NEW c \in Counters,
         VerifyTOTPSetup(r, s, c)
  PROVE  FactorInv'
  <1>1. PICK t \in Token :
          /\ t.how # "challenge"
          /\ Goto(r, [Begin("enrol", t.sub, t, "totp") EXCEPT !.secret = s])
    BY FactorTypes DEF VerifyTOTPSetup, Authenticated, ParseToken, FactorInv, TokensFine
  <1>2. /\ Start(r) /\ Local /\ call[r].step # "send" /\ users' = users
    BY DEF VerifyTOTPSetup, Start, At, Local, UnchangedStore
  <1>4. PICK b \in Call : /\ b = Begin("enrol", t.sub, t, "totp")
                          /\ b.step = "enrol" /\ b.user = t.sub /\ b.tok = t /\ b.how = "totp"
    BY <1>1, BeginType DEF Steps, Hows, StepUp, Token
  <1>5. /\ [b EXCEPT !.secret = s] \in Call /\ [b EXCEPT !.secret = s].secret = s
        /\ [b EXCEPT !.secret = s].step = b.step /\ [b EXCEPT !.secret = s].user = b.user
        /\ [b EXCEPT !.secret = s].tok = b.tok /\ [b EXCEPT !.secret = s].how = b.how
    BY DEF Call
  <1>6. Goto(r, [b EXCEPT !.secret = s])
    BY <1>1, <1>4
  <1>7. PICK next \in Call : /\ Goto(r, next) /\ next.step = "enrol" /\ next.user = t.sub
                             /\ next.tok = t /\ next.how = "totp" /\ next.secret = s
    BY <1>4, <1>5, <1>6
  <1>8. Noted(next) \in Call /\ Kept(next, Noted(next))
    BY NotedKeeps
  <1>9. CallFine(Noted(next), users)
    BY <1>1, <1>7, <1>8 DEF CallFine, Kept, StepUp, Disabling, Token
  <1> QED BY <1>2, <1>7, <1>9, ReadKeeps

\* Enrolment, and the removal of an authenticator, write the secret and end.
LEMMA WriteSecretKeeps ==
  ASSUME FactorInv, NEW r \in Requests, Enrol(r) \/ DisableTOTP(r)
  PROVE  FactorInv'
  <1>1. PICK s \in Secrets \cup {NoSecret}, step \in {"enrol", "disableWrite"} :
          UpdateTOTPSecret(r, step, s)
    BY FactorTypes DEF Enrol, DisableTOTP
  <1>2. /\ call[r].step = step /\ calls' = calls /\ Finish(r)
        /\ users' = users /\ settings' = settings /\ now' = now /\ tokens' = tokens
        /\ sends' = sends /\ admin' = admin
    BY <1>1 DEF UpdateTOTPSecret, Within, At
  <1>3. PICK u \in Users : u = call[r].user /\ rec[u] \in Record
    BY <1>2, FactorTypes
  <1>4. rec' = [rec EXCEPT ![u].Secret = s] \/ rec' = rec
    BY <1>1, <1>3 DEF UpdateTOTPSecret
  <1>5. rec' \in [Users -> Record]
    BY <1>3, <1>4 DEF FactorInv, TypeOK, Record
  <1>6. StoreTypeOK' /\ TokensFine'
    BY <1>2, <1>5 DEF StoreTypeOK, TokensFine, FactorInv, TypeOK
  <1> QED BY <1>2, <1>6, EndKeeps

\* A removal begins; only an access token comes this far.
LEMMA DisableStartKeeps ==
  ASSUME FactorInv, NEW r \in Requests, DisableStart(r)
  PROVE  FactorInv'
  <1>1. PICK t \in Token :
          t.how # "challenge" /\ Goto(r, Begin("disableUser", t.sub, t, "totp"))
    BY FactorTypes DEF DisableStart, Authenticated, ParseToken, FactorInv, TokensFine
  <1>2. /\ Start(r) /\ Local /\ call[r].step # "send"
    BY DEF DisableStart, Start, At
  <1>3. PICK next \in Call : /\ Goto(r, next) /\ next.step = "disableUser"
                             /\ next.user = t.sub /\ next.tok = t
    BY <1>1, BeginType DEF Steps, Hows, StepUp, Token
  <1>4. Noted(next) \in Call /\ Kept(next, Noted(next))
    BY NotedKeeps
  <1>5. CallFine(Noted(next), users)
    BY <1>1, <1>3, <1>4 DEF CallFine, Kept, StepUp, Disabling, Token
  <1> QED BY <1>2, <1>3, <1>5, ReadKeeps

\* The two reads of a disable request.
LEMMA DisableReadsKeep ==
  ASSUME FactorInv, NEW r \in Requests, DisableReadsUser(r) \/ DisableReadsPolicy(r)
  PROVE  FactorInv'
  <1>1. PICK c \in Call : /\ c = call[r] /\ CallFine(c, users) /\ c.user \in Users
                          /\ c.step \in {"disableUser", "disablePolicy"}
    BY FactorTypes DEF DisableReadsUser, DisableReadsPolicy, Within, At
  <1>2. /\ Local /\ calls' = calls /\ users' = users /\ rec' = rec /\ settings' = settings
        /\ sends' = sends
    BY DEF DisableReadsUser, DisableReadsPolicy, Within, Local, UnchangedStore
  <1>3. CASE Finish(r)
    <2>1. StoreTypeOK' /\ TokensFine'
      BY <1>2 DEF StoreTypeOK, TokensFine, FactorInv, TypeOK, Local, UnchangedStore
    <2> QED BY <1>1, <1>2, <1>3, <2>1, EndKeeps
  <1>4. CASE DisableReadsUser(r) /\ ~Finish(r)
    <2>1. /\ c.step = "disableUser" /\ Continue(r, "disablePolicy")
          /\ c.user \in users => ~rec[c.user].Require
      BY <1>1, <1>4 DEF DisableReadsUser, Within, At
    <2>2. PICK next \in Call : /\ Goto(r, next) /\ next.step = "disablePolicy"
                               /\ next.user = c.user /\ next.tok = c.tok
      BY <1>1, <2>1, ContinueNext DEF Steps
    <2>3. Noted(next) \in Call /\ Kept(next, Noted(next))
          /\ (~rec[c.user].Require => Noted(next).okUser)
      BY <1>2, <2>2, NotedKeeps, NotedSees DEF Disabling
    <2>4. CallFine(Noted(next), users)
      BY <1>1, <2>1, <2>2, <2>3 DEF CallFine, Kept, StepUp, Disabling
    <2> QED BY <1>1, <1>2, <2>2, <2>4, ReadKeeps
  <1>5. CASE DisableReadsPolicy(r) /\ ~Finish(r)
    <2>1. /\ c.step = "disablePolicy" /\ Continue(r, "disableWrite")
          /\ ~Require2FA /\ settings = "off"
      BY <1>1, <1>5 DEF DisableReadsPolicy, Within, At, TwoFactorPolicyStops, FactorInv, TypeOK
    <2>2. PICK next \in Call : /\ Goto(r, next) /\ next.step = "disableWrite"
                               /\ next.user = c.user /\ next.tok = c.tok
                               /\ next.okUser = c.okUser
      BY <1>1, <2>1, ContinueNext DEF Steps
    <2>3. Noted(next) \in Call /\ Kept(next, Noted(next)) /\ Noted(next).okPolicy
      BY <1>2, <2>1, <2>2, NotedKeeps, NotedSees DEF Disabling
    <2>4. CallFine(Noted(next), users)
      BY <1>1, <2>1, <2>2, <2>3 DEF CallFine, Kept, StepUp, Disabling
    <2> QED BY <1>1, <1>2, <2>2, <2>4, ReadKeeps
  <1> QED BY <1>3, <1>4, <1>5

(***************************************************************************)
(* The steps nobody requests, and the second factor as a whole.            *)
(***************************************************************************)
\* An administrator's step, or the clock's.
LEMMA EnvironmentKeeps ==
  ASSUME FactorInv, AdminStep \/ Tick
  PROVE  FactorInv'
  <1>1. /\ Environment /\ calls' = calls /\ sends' = sends /\ tokens' = tokens
        /\ users' \subseteq users
    BY DEF AdminStep, Tick, Environment, SetRequire2FA, UpdateSettings, DeleteUser, Administer
  <1>2. rec' \in [Users -> Record]
    <2>1. CASE rec' = rec
      BY <2>1 DEF FactorInv, TypeOK
    <2>2. CASE \E u \in Users : SetRequire2FA(u)
      <3>1. PICK u \in Users, v \in BOOLEAN : rec' = [rec EXCEPT ![u].Require = v]
        BY <2>2 DEF SetRequire2FA
      <3> QED BY <3>1 DEF FactorInv, TypeOK, Record
    <2> QED BY <2>1, <2>2 DEF AdminStep, Tick, UpdateSettings, DeleteUser
  <1>3. /\ settings' \in {"on", "off", "down"} /\ now' \in 0..MaxTime /\ admin' \in 0..MaxAdmin
    BY SecondFactorAssumption
       DEF FactorInv, TypeOK, AdminStep, Tick, SetRequire2FA, UpdateSettings, DeleteUser, Administer
  <1>4. /\ call' \in [Requests -> Call] /\ CallsFine'
        /\ \A q \in Requests : Kept(call[q], call'[q])
    BY <1>1, EnvironmentMoves DEF FactorInv
  <1>5. Sending' = Sending
    BY <1>4 DEF Sending, Kept
  <1>6. TypeOK'
    BY <1>1, <1>2, <1>3, <1>4 DEF FactorInv, TypeOK
  <1>7. TokensFine' /\ SendsFine'
    BY <1>1, <1>5 DEF FactorInv, TokensFine, SendsFine
  <1> QED BY <1>4, <1>6, <1>7 DEF FactorInv

\* Every step of every route.
LEMMA RequestKeeps ==
  ASSUME FactorInv, NEW r \in Requests, RequestStep(r)
  PROVE  FactorInv'
  <1>1. CASE \E u \in Users : MagicLinkSend(r, u) \/ SMSSend(r, u)
    BY <1>1, SendStartKeeps DEF MagicLinkSend, SMSSend
  <1>2. CASE \E u \in Users : LoginWithChallenge(r, u)
    BY <1>2, LoginKeeps
  <1>3. CASE \E u \in Users, c \in SMSCodes : VerifySMSCode(r, u, c)
    BY <1>3, VerifyCodeKeeps
  <1>4. CASE \E u \in Users, c \in 1..MaxCalls : VerifyMagicLink(r, u, c)
    BY <1>4, VerifyCodeKeeps
  <1>5. CASE \E s \in Secrets, c \in Counters : VerifyTOTP(r, s, c) \/ VerifyTOTPSetup(r, s, c)
    BY <1>5, VerifyTOTPKeeps, VerifyTOTPSetupKeeps
  <1> QED BY <1>1, <1>2, <1>3, <1>4, <1>5, IssueSessionKeeps, SendKeeps, ClearKeeps,
             MarkVerifiedKeeps, WriteSecretKeeps, DisableStartKeeps, DisableReadsKeep
          DEF RequestStep

\* Whatever happens outside the authorization-code flow.
LEMMA FactorKeeps ==
  ASSUME FactorInv, FactorNext
  PROVE  FactorInv'
  BY EnvironmentKeeps, RequestKeeps DEF FactorNext

\* Nobody has called and nothing was issued.
LEMMA FactorInit == Init => FactorInv
  <1> SUFFICES ASSUME Init PROVE FactorInv
    OBVIOUS
  <1>1. TypeOK
    <2>1. NoCode \in Pending
      BY DEF Pending
    <2>2. rec \in [Users -> Record]
      BY <2>1 DEF Init, Record
    <2>3. call \in [Requests -> Call]
      BY IdleType DEF Init
    <2> QED BY <2>2, <2>3, SecondFactorAssumption DEF Init, TypeOK
  <1>2. CallsFine /\ TokensFine
    BY IdleType DEF Init, CallsFine, TokensFine
  <1>3. SendsFine
    <2>1. Sending = {}
      BY IdleType DEF Init, Sending
    <2> QED BY <2>1, FS_EmptySet DEF Init, SendsFine
  <1> QED BY <1>1, <1>2, <1>3 DEF FactorInv

\* A step that changes nothing of it.
LEMMA FactorStands ==
  ASSUME FactorInv, UNCHANGED factorVars
  PROVE  FactorInv'
  <1>1. Sending' = Sending
    BY DEF factorVars, Sending
  <1> QED BY <1>1 DEF factorVars, FactorInv, TypeOK, CallsFine, TokensFine, SendsFine

(***************************************************************************)
(* The steps of the authorization-code flow keep the second factor's       *)
(* invariant.                                                              *)
(***************************************************************************)
\* /authorize refuses whoever needs a second factor, so its call has seen one free.
LEMMA AuthorizeKeeps ==
  ASSUME FactorInv, NEW r \in Requests, NEW u \in Users, NEW client, NEW nonce,
         Authorize(r, u, client, nonce)
  PROVE  FactorInv'
  <1>1. /\ Start(r) /\ Local /\ call[r].step # "send" /\ Goto(r, Begin("saveCode", u, NoToken, "idp"))
        /\ ~RequiresTwoFactor(u) /\ rec' = rec
    BY DEF Authorize, Start, At, Local, UnchangedStore
  <1>2. PICK next \in Call : /\ Goto(r, next) /\ next.step = "saveCode" /\ next.user = u
                             /\ next.how = "idp"
    BY <1>1, BeginType DEF Steps, Hows
  <1>3. FreeNext(u)
    BY <1>1 DEF FreeNext, RequiresTwoFactor, Enrolled
  <1>4. Noted(next) \in Call /\ Kept(next, Noted(next)) /\ ~Noted(next).strict
    BY <1>2, <1>3, NotedKeeps, NotedSees
  <1>5. CallFine(Noted(next), users)
    BY <1>2, <1>4 DEF CallFine, Kept, StepUp, Disabling
  <1> QED BY <1>1, <1>2, <1>5, ReadKeeps

\* The code is saved.
LEMMA AuthorizeSaveKeeps ==
  ASSUME FactorInv, NEW r \in Requests, AuthorizeSave(r)
  PROVE  FactorInv'
  <1>1. /\ call[r].step = "saveCode" /\ calls' = calls /\ Local /\ Finish(r)
    BY DEF AuthorizeSave, Within, At
  <1>2. StoreTypeOK' /\ TokensFine' /\ users' = users /\ sends' = sends
    BY <1>1 DEF StoreTypeOK, TokensFine, FactorInv, TypeOK, Local, UnchangedStore
  <1> QED BY <1>1, <1>2, EndKeeps

\* A request that is over as soon as it began.
LEMMA AtOnceKeeps ==
  ASSUME FactorInv, NEW r \in Requests, Start(r), Local, Finish(r)
  PROVE  FactorInv'
  <1>1. CallFine(Noted(Idle), users)
    BY IdleType, NotedKeeps
  <1>2. call[r].step # "send"
    BY DEF Start, At
  <1> QED BY <1>1, <1>2, IdleType, ReadKeeps DEF Finish

\* /token takes a code, and refuses or goes on.
LEMMA TokenConsumeKeeps ==
  ASSUME FactorInv, FlowTypeOK, NEW r \in Requests, NEW client, TokenConsume(r, client)
  PROVE  FactorInv'
  <1>1. PICK u \in Users : Finish(r) \/ Goto(r, Begin("codeUser", u, NoToken, "idp"))
    <2>1. PICK c \in codes : Finish(r) \/ Goto(r, Begin("codeUser", c.user, NoToken, "idp"))
      BY DEF TokenConsume, Redeem, Found
    <2>2. c.user \in Users
      BY DEF FlowTypeOK, Code
    <2> QED BY <2>1, <2>2
  <1>2. /\ Start(r) /\ Local /\ call[r].step # "send"
    BY DEF TokenConsume, Start, At
  <1>3. CASE Finish(r)
    BY <1>2, <1>3, AtOnceKeeps
  <1>4. CASE Goto(r, Begin("codeUser", u, NoToken, "idp"))
    <2>2. PICK next \in Call : /\ Goto(r, next) /\ next.step = "codeUser"
                               /\ next.user = u /\ next.how = "idp"
      BY <1>4, BeginType DEF Steps, Hows
    <2>3. Noted(next) \in Call /\ Kept(next, Noted(next))
      BY NotedKeeps
    <2>4. CallFine(Noted(next), users)
      BY <2>2, <2>3 DEF CallFine, Kept, StepUp, Disabling
    <2> QED BY <1>2, <2>2, <2>4, ReadKeeps
  <1> QED BY <1>1, <1>3, <1>4

\* /token looks the code's user up.
LEMMA TokenUserKeeps ==
  ASSUME FactorInv, NEW r \in Requests, TokenUser(r)
  PROVE  FactorInv'
  <1>1. PICK c \in Call : /\ c = call[r] /\ CallFine(c, users) /\ c.user \in Users
                          /\ c.step = "codeUser"
    BY FactorTypes DEF TokenUser, Within, At
  <1>2. Local /\ calls' = calls /\ users' = users /\ sends' = sends
    BY DEF TokenUser, Within, Local, UnchangedStore
  <1>3. CASE Finish(r)
    <2>1. StoreTypeOK' /\ TokensFine'
      BY <1>2 DEF StoreTypeOK, TokensFine, FactorInv, TypeOK, Local, UnchangedStore
    <2> QED BY <1>1, <1>2, <1>3, <2>1, EndKeeps
  <1>4. CASE c.user \in users /\ Continue(r, "codeSession")
    <2>1. PICK next \in Call : /\ Goto(r, next) /\ next.step = "codeSession"
                               /\ next.user = c.user /\ next.how = c.how
      BY <1>1, <1>4, ContinueNext DEF Steps
    <2>2. Noted(next) \in Call /\ Kept(next, Noted(next)) /\ Noted(next).alive
      BY <1>2, <1>4, <2>1, NotedKeeps, NotedSees DEF Opening
    <2>3. CallFine(Noted(next), users)
      BY <1>1, <2>1, <2>2 DEF CallFine, Kept, StepUp, Disabling
    <2> QED BY <1>1, <1>2, <2>1, <2>3, ReadKeeps
  <1> QED BY <1>1, <1>3, <1>4 DEF TokenUser

\* /token opens the session.
LEMMA TokenSessionKeeps ==
  ASSUME FactorInv, NEW r \in Requests, TokenSession(r)
  PROVE  FactorInv'
  <1>1. PICK u \in Users : u = call[r].user /\ call[r].step = "codeSession"
    BY FactorTypes DEF TokenSession, Within, At
  <1>2. PICK t : t = SessionToken(u, "idp", u)
    OBVIOUS
  <1>3. t \in Token /\ t.how = "idp"
    BY <1>1, <1>2, SecondFactorAssumption
       DEF SessionToken, IssueToken, Token, Hows, FactorInv, TypeOK
  <1>4. /\ tokens' = tokens \cup {t} /\ UnchangedStore /\ sends' = sends /\ calls' = calls
        /\ users' = users /\ Finish(r)
    BY <1>1, <1>2 DEF TokenSession, UnchangedStore, Within
  <1>5. TokensFine'
    BY <1>3, <1>4 DEF FactorInv, TokensFine, StepUp
  <1>6. StoreTypeOK'
    BY <1>3, <1>4 DEF StoreTypeOK, FactorInv, TypeOK, UnchangedStore
  <1> QED BY <1>1, <1>4, <1>5, <1>6, EndKeeps

\* Every step of the two routes.
LEMMA FlowKeepsFactor ==
  ASSUME FactorInv, FlowTypeOK, NEW r \in Requests, IdPStep(r)
  PROVE  FactorInv'
  BY AuthorizeKeeps, AuthorizeSaveKeeps, TokenConsumeKeeps, TokenUserKeeps, TokenSessionKeeps
     DEF IdPStep

(***************************************************************************)
(* Where a request can be led, and who is led there.                       *)
(***************************************************************************)
FlowSteps == {"saveCode", "codeUser", "codeSession"}

\* The second factor's routes never enter the authorization-code flow.
LEMMA RequestLeads ==
  ASSUME FactorInv, NEW r \in Requests, RequestStep(r)
  PROVE  \E next \in Call : Goto(r, next) /\ next.step \notin FlowSteps
  <1>1. CASE Finish(r)
    BY <1>1, IdleType DEF Finish, FlowSteps
  <1>2. CASE \E s \in Steps \ FlowSteps : Continue(r, s)
    BY <1>2, FactorTypes, ContinueNext
  <1>3. CASE \E s \in Steps \ FlowSteps, u \in Users, t \in Token \cup {NoToken}, how \in Hows :
               Goto(r, Begin(s, u, t, how))
    BY <1>3, BeginType
  <1> USE DEF Steps, FlowSteps, Hows, StepUp
  <1>4. CASE \E u \in Users : LoginWithChallenge(r, u)
    BY <1>1, <1>3, <1>4 DEF LoginWithChallenge
  <1>5. CASE \E u \in Users : MagicLinkSend(r, u) \/ SMSSend(r, u)
    <2>1. PICK u \in Users, k \in {"sms", "magic"}, t \in Token \cup {NoToken} :
            Goto(r, Begin("send", u, t, k))
      BY <1>5, FactorTypes DEF MagicLinkSend, SMSSend, SendFor
    <2> QED BY <1>3, <2>1
  <1>6. CASE \E u \in Users, c \in SMSCodes : VerifySMSCode(r, u, c)
    BY <1>3, <1>6, FactorTypes DEF VerifySMSCode
  <1>7. CASE \E u \in Users, c \in 1..MaxCalls : VerifyMagicLink(r, u, c)
    BY <1>3, <1>7, FactorTypes DEF VerifyMagicLink
  <1>8. CASE \E s \in Secrets, c \in Counters : VerifyTOTP(r, s, c)
    <2>1. PICK t \in Token, c \in Int :
            Goto(r, [Begin("issue", t.sub, t, "totp") EXCEPT !.counter = c])
      <3>1. \A c \in Counters : c \in Int
        BY SecondFactorAssumption DEF Counters
      <3> QED BY <1>8, <3>1, FactorTypes DEF VerifyTOTP
    <2>2. PICK b \in Call : b = Begin("issue", t.sub, t, "totp") /\ b.step = "issue"
      BY BeginType DEF Token
    <2>3. [b EXCEPT !.counter = c] \in Call /\ [b EXCEPT !.counter = c].step = "issue"
      BY <2>2 DEF Call
    <2> QED BY <2>1, <2>2, <2>3
  <1>9. CASE \E s \in Secrets, c \in Counters : VerifyTOTPSetup(r, s, c)
    <2>1. PICK t \in Token, s \in Secrets :
            Goto(r, [Begin("enrol", t.sub, t, "totp") EXCEPT !.secret = s])
      BY <1>9, FactorTypes DEF VerifyTOTPSetup
    <2>2. PICK b \in Call : b = Begin("enrol", t.sub, t, "totp") /\ b.step = "enrol"
      BY BeginType DEF Token
    <2>3. [b EXCEPT !.secret = s] \in Call /\ [b EXCEPT !.secret = s].step = "enrol"
      BY <2>2 DEF Call
    <2> QED BY <2>1, <2>2, <2>3
  <1>10. CASE IssueSession(r) \/ SendMagicLink(r) \/ SendSMSCode(r) \/ SendFails(r)
              \/ Enrol(r) \/ DisableTOTP(r)
    BY <1>1, <1>10 DEF IssueSession, SendMagicLink, SendSMSCode, SendFails, Enrol, DisableTOTP,
                       UpdateTOTPSecret
  <1>11. CASE Clear(r) \/ MarkVerified(r) \/ DisableReadsUser(r) \/ DisableReadsPolicy(r)
    BY <1>1, <1>2, <1>11 DEF Clear, MarkVerified, DisableReadsUser, DisableReadsPolicy
  <1>12. CASE DisableStart(r)
    <2>1. PICK t \in Token : Goto(r, Begin("disableUser", t.sub, t, "totp"))
      BY <1>12, FactorTypes DEF DisableStart
    <2> QED BY <1>3, <2>1 DEF Token
  <1> QED BY <1>4, <1>5, <1>6, <1>7, <1>8, <1>9, <1>10, <1>11, <1>12 DEF RequestStep

\* A step of r leaves everybody else's call where it is.
LEMMA GotoOthers ==
  ASSUME TypeOK, NEW r \in Requests, NEW next \in Call, Goto(r, next)
  PROVE  /\ \A q \in Requests \ {r} : Kept(call[q], call'[q])
         /\ Kept(next, call'[r]) /\ call'[r] = Noted(next)
  <1>1. /\ call'[r] = Noted(next)
        /\ \A q \in Requests \ {r} : call'[q] = Noted(call[q])
    BY DEF Goto
  <1>2. \A q \in Requests : call[q] \in Call
    BY DEF TypeOK
  <1> QED BY <1>1, <1>2, NotedKeeps

\* Who is in the authorization-code flow after a step outside it, was there.
LEMMA FactorLeads ==
  ASSUME FactorInv, FactorNext
  PROVE  \A q \in Requests : call'[q].step \in FlowSteps =>
           call'[q].step = call[q].step /\ call'[q].user = call[q].user
  <1>1. CASE AdminStep \/ Tick
    <2>1. Environment /\ users' \subseteq users
      BY <1>1 DEF AdminStep, Tick, Environment, SetRequire2FA, UpdateSettings, DeleteUser, Administer
    <2> QED BY <2>1, EnvironmentMoves DEF FactorInv, Kept
  <1>2. ASSUME NEW r \in Requests, RequestStep(r)
        PROVE  \A q \in Requests : call'[q].step \in FlowSteps =>
                 call'[q].step = call[q].step /\ call'[q].user = call[q].user
    <2>1. PICK next \in Call : Goto(r, next) /\ next.step \notin FlowSteps
      BY <1>2, RequestLeads
    <2> QED BY <2>1, GotoOthers DEF FactorInv, Kept
  <1> QED BY <1>1, <1>2 DEF FactorNext

(***************************************************************************)
(* The authorization-code flow.                                            *)
(***************************************************************************)
\* A step outside the flow that lets nobody into it.
LEMMA FlowStands ==
  ASSUME FlowInv, UNCHANGED idpVars,
         \A q \in Requests : call'[q].step \in FlowSteps =>
           call'[q].step = call[q].step /\ call'[q].user = call[q].user
  PROVE  FlowInv'
  <1> USE DEF FlowInv, idpVars
  <1>1. \A q \in Requests : Redeeming(q)' => Redeeming(q) /\ call'[q].user = call[q].user
    BY DEF Redeeming, FlowSteps
  <1>2. FlowTypeOK'
    BY DEF FlowTypeOK
  <1>3. CodesFine' /\ IDTokensFine' /\ GrantsFine'
    BY DEF CodesFine, IDTokensFine, GrantsFine
  <1>4. ExchangesFine'
    BY <1>1 DEF ExchangesFine, FlowSteps
  <1>5. CodeInOnePlace'
    BY <1>1 DEF CodeInOnePlace
  <1> QED BY <1>2, <1>3, <1>4, <1>5

\* A grant is never taken for a code that was not issued.
LEMMA GrantsAreGrants == \A g \in Grants : g # NoGrant
  BY DEF Grants, NoGrant

\* /authorize notes what the code is to be for.
LEMMA AuthorizeFlow ==
  ASSUME FactorInv, FlowInv, NEW r \in Requests, NEW u \in Users, NEW client \in Clients,
         NEW nonce \in Nonces, Authorize(r, u, client, nonce)
  PROVE  FlowInv'
  <1> USE DEF FlowInv
  <1>1. PICK next \in Call : Goto(r, next) /\ next.step = "saveCode"
    BY BeginType DEF Authorize, Steps, Hows
  <1>2. /\ \A q \in Requests \ {r} : call'[q].step = call[q].step /\ call'[q].user = call[q].user
        /\ call'[r].step = "saveCode" /\ call[r].step = "idle"
    BY <1>1, GotoOthers DEF FactorInv, Kept, Authorize, Start, At
  <1>3. \A q \in Requests : Redeeming(q)' => q # r /\ Redeeming(q) /\ call'[q].user = call[q].user
    BY <1>2 DEF Redeeming
  <1>4. PICK x : x = [client |-> client, nonce |-> nonce, code |-> NoAuthCode]
    OBVIOUS
  <1>5. /\ exchange' = [exchange EXCEPT ![r] = x]
        /\ codes' = codes /\ granted' = granted /\ idTokens' = idTokens
    BY <1>4 DEF Authorize
  <1>6. FlowTypeOK'
    BY <1>4, <1>5 DEF FlowTypeOK
  <1>7. exchange'[r] = x /\ \A q \in Requests \ {r} : exchange'[q] = exchange[q]
    BY <1>5 DEF FlowTypeOK
  <1>8. CodesFine' /\ IDTokensFine' /\ GrantsFine'
    BY <1>5 DEF CodesFine, IDTokensFine, GrantsFine
  <1>9. ExchangesFine'
    BY <1>2, <1>3, <1>4, <1>5, <1>7 DEF ExchangesFine
  <1>10. CodeInOnePlace'
    BY <1>3, <1>5, <1>7 DEF CodeInOnePlace
  <1> QED BY <1>6, <1>8, <1>9, <1>10

\* A fresh code enters the store with its grant, and expired ones leave it.
LEMMA AuthorizeSaveFlow ==
  ASSUME FactorInv, FlowInv, NEW r \in Requests, AuthorizeSave(r)
  PROVE  FlowInv'
  <1> USE DEF FlowInv
  <1>1. PICK i \in CodeIDs :
          /\ ~Granted(i)
          /\ SaveCode([id |-> i, user |-> call[r].user, client |-> exchange[r].client,
                       nonce |-> exchange[r].nonce, exp |-> now + AuthCodeTTL])
          /\ granted' = [granted EXCEPT ![i] =
               [client |-> exchange[r].client, nonce |-> exchange[r].nonce,
                user |-> call[r].user, strict |-> call[r].strict, exp |-> now + AuthCodeTTL]]
    BY DEF AuthorizeSave
  <1>2. /\ call[r].step = "saveCode" /\ Finish(r) /\ idTokens' = idTokens
        /\ exchange' = [exchange EXCEPT ![r] = NoExchange]
    BY DEF AuthorizeSave, Within, At
  <1>3. /\ \A q \in Requests \ {r} : call'[q].step = call[q].step /\ call'[q].user = call[q].user
        /\ call'[r].step = "idle"
    BY <1>2, IdleType, GotoOthers DEF FactorInv, Kept, Finish
  <1>4. \A q \in Requests : Redeeming(q)' => q # r /\ Redeeming(q) /\ call'[q].user = call[q].user
    BY <1>3 DEF Redeeming
  <1>5. /\ call[r].user \in Users /\ call[r].strict \in BOOLEAN /\ ~call[r].strict
        /\ exchange[r].client \in Clients /\ exchange[r].nonce \in Nonces
        /\ now + AuthCodeTTL \in Int
    BY <1>2, FactorTypes, SecondFactorAssumption, IdentityProviderAssumption
       DEF ExchangesFine, CallFine, FactorInv, TypeOK, Call
  <1>6. PICK c \in Code, g \in Grants :
          /\ codes' = {d \in codes : now <= d.exp} \cup {c}
          /\ granted' = [granted EXCEPT ![i] = g]
          /\ c.id = i /\ c.user = g.user /\ c.client = g.client /\ c.nonce = g.nonce
          /\ ~g.strict
    <2>1. PICK g : g = [client |-> exchange[r].client, nonce |-> exchange[r].nonce,
                user |-> call[r].user, strict |-> call[r].strict, exp |-> now + AuthCodeTTL]
      OBVIOUS
    <2>2. PICK c : c = [id |-> i, user |-> call[r].user, client |-> exchange[r].client,
                       nonce |-> exchange[r].nonce, exp |-> now + AuthCodeTTL]
      OBVIOUS
    <2>3. c \in Code /\ g \in Grants
      BY <1>5, <2>1, <2>2 DEF Code, Grants
    <2>4. codes' = {d \in codes : now <= d.exp} \cup {c}
      BY <1>1, <2>2 DEF SaveCode
    <2>5. granted' = [granted EXCEPT ![i] = g]
      BY <1>1, <2>1
    <2> QED BY <1>5, <2>1, <2>2, <2>3, <2>4, <2>5
  <1>7. granted[i] \notin Grants
    BY <1>1, GrantsAreGrants DEF Granted
  <1>8. /\ granted'[i] = g /\ \A j \in CodeIDs \ {i} : granted'[j] = granted[j]
        /\ exchange'[r] = NoExchange /\ \A q \in Requests \ {r} : exchange'[q] = exchange[q]
    BY <1>2, <1>6 DEF FlowTypeOK
  <1>9. \A d \in codes : d.id # i /\ d.id \in CodeIDs
    BY <1>7 DEF CodesFine, FlowTypeOK, Code
  <1>10. \A q \in Requests : Redeeming(q) =>
           exchange[q].code.id # i /\ exchange[q].code.id \in CodeIDs
    BY <1>7 DEF ExchangesFine, Code
  <1>11. \A n \in 1..Len(idTokens) : idTokens[n] \in IDToken /\ idTokens[n].code # i
                                     /\ idTokens[n].code \in CodeIDs
    <2>1. \A n \in 1..Len(idTokens) : idTokens[n] \in IDToken
      BY ElementOfSeq DEF FlowTypeOK
    <2>2. \A n \in 1..Len(idTokens) : granted[idTokens[n].code] \in Grants
      BY DEF IDTokensFine
    <2> QED BY <1>7, <2>1, <2>2 DEF IDToken
  <1>12. NoExchange \in [client : Clients \cup {"none"}, nonce : Nonces \cup {"none"},
                         code : Code \cup {NoAuthCode}]
    BY DEF NoExchange
  <1>13. FlowTypeOK'
    BY <1>2, <1>6, <1>12 DEF FlowTypeOK
  <1>14. CodesFine'
    BY <1>6, <1>8, <1>9 DEF CodesFine
  <1>15. ExchangesFine'
    BY <1>3, <1>4, <1>8, <1>10 DEF ExchangesFine
  <1>16. IDTokensFine'
    BY <1>2, <1>8, <1>11 DEF IDTokensFine
  <1>17. GrantsFine'
    BY <1>6, <1>8 DEF GrantsFine
  <1>18. CodeInOnePlace'
    BY <1>2, <1>4, <1>6, <1>8, <1>9, <1>10, <1>11 DEF CodeInOnePlace
  <1> QED BY <1>13, <1>14, <1>15, <1>16, <1>17, <1>18

\* A code moves from the store to the request that found it, or is gone.
LEMMA TokenConsumeFlow ==
  ASSUME FactorInv, FlowInv, NEW r \in Requests, NEW client \in Clients, TokenConsume(r, client)
  PROVE  FlowInv'
  <1> USE DEF FlowInv
  <1>a. PICK i \in CodeIDs : \E c \in Found(i) :
          /\ ConsumeCode(i)
          /\ \/ Finish(r) /\ UNCHANGED exchange
             \/ c.client = client /\ Redeem(r, c, client)
    BY DEF TokenConsume
  <1>1. PICK c \in Found(i) :
          /\ ConsumeCode(i)
          /\ \/ Finish(r) /\ UNCHANGED exchange
             \/ c.client = client /\ Redeem(r, c, client)
    BY <1>a
  <1>2. c \in codes /\ c \in Code /\ c.id = i /\ Found(i) \subseteq codes
    BY <1>1 DEF Found, FlowTypeOK
  <1>3. /\ codes' = codes \ Found(i) /\ granted' = granted /\ idTokens' = idTokens
        /\ call[r].step = "idle"
    BY <1>1 DEF ConsumeCode, TokenConsume, Start, At
  <1>4. \A d \in codes' : d \in codes /\ d.id # i
    BY <1>3 DEF Found
  <1>5. CodesFine' /\ IDTokensFine' /\ GrantsFine'
    BY <1>3, <1>4 DEF CodesFine, IDTokensFine, GrantsFine
  <1>6. CASE Finish(r) /\ UNCHANGED exchange
    <2>1. /\ \A q \in Requests \ {r} : call'[q].step = call[q].step /\ call'[q].user = call[q].user
          /\ call'[r].step = "idle"
      BY <1>6, IdleType, GotoOthers DEF FactorInv, Kept, Finish
    <2>2. \A q \in Requests : Redeeming(q)' => Redeeming(q) /\ call'[q].user = call[q].user
      BY <2>1 DEF Redeeming
    <2>3. FlowTypeOK'
      BY <1>3, <1>4, <1>6 DEF FlowTypeOK
    <2>4. ExchangesFine'
      BY <1>3, <1>6, <2>1, <2>2 DEF ExchangesFine
    <2>5. CodeInOnePlace'
      BY <1>3, <1>4, <1>6, <2>2 DEF CodeInOnePlace
    <2> QED BY <1>5, <2>3, <2>4, <2>5
  <1>7. CASE c.client = client /\ Redeem(r, c, client)
    <2>1. PICK next \in Call : Goto(r, next) /\ next.step = "codeUser" /\ next.user = c.user
      <3>1. PICK u \in Users : u = c.user
        BY <1>2 DEF Code
      <3>2. Goto(r, Begin("codeUser", u, NoToken, "idp"))
        BY <1>7, <3>1 DEF Redeem
      <3>3. /\ Begin("codeUser", u, NoToken, "idp") \in Call
            /\ Begin("codeUser", u, NoToken, "idp").step = "codeUser"
            /\ Begin("codeUser", u, NoToken, "idp").user = u
        BY BeginType DEF Steps, Hows
      <3>4. PICK next \in Call : Goto(r, next) /\ next.step = "codeUser" /\ next.user = u
        BY <3>2, <3>3, Zenon
      <3> QED BY <3>1, <3>4
    <2>2. /\ \A q \in Requests \ {r} : call'[q].step = call[q].step /\ call'[q].user = call[q].user
          /\ call'[r].step = "codeUser" /\ call'[r].user = c.user
      BY <2>1, GotoOthers DEF FactorInv, Kept
    <2>3. \A q \in Requests \ {r} : Redeeming(q)' => Redeeming(q) /\ call'[q].user = call[q].user
      BY <2>2 DEF Redeeming
    <2>4. PICK x : x = [client |-> client, nonce |-> c.nonce, code |-> c]
      OBVIOUS
    <2>5. exchange' = [exchange EXCEPT ![r] = x]
      BY <1>7, <2>4 DEF Redeem
    <2>6. exchange'[r] = x /\ \A q \in Requests \ {r} : exchange'[q] = exchange[q]
      BY <2>5 DEF FlowTypeOK
    <2>7. FlowTypeOK'
      BY <1>2, <1>3, <1>4, <2>4, <2>5 DEF FlowTypeOK, Code
    <2>8. x.code = c /\ x.client = client /\ x.nonce = c.nonce
      BY <2>4
    <2>9. ExchangesFine'
      BY <1>2, <1>3, <1>7, <2>2, <2>3, <2>6, <2>8 DEF ExchangesFine, CodesFine
    <2>10. CodeInOnePlace'
      BY <1>2, <1>3, <1>4, <2>3, <2>6, <2>8 DEF CodeInOnePlace
    <2> QED BY <1>5, <2>7, <2>9, <2>10
  <1> QED BY <1>1, <1>6, <1>7

\* The request keeps the code in hand, or drops it with a deleted user.
LEMMA TokenUserFlow ==
  ASSUME FactorInv, FlowInv, NEW r \in Requests, TokenUser(r)
  PROVE  FlowInv'
  <1> USE DEF FlowInv
  <1>1. /\ call[r].step = "codeUser" /\ codes' = codes /\ granted' = granted /\ idTokens' = idTokens
    BY DEF TokenUser, Within, At
  <1>2. CodesFine' /\ IDTokensFine' /\ GrantsFine'
    BY <1>1 DEF CodesFine, IDTokensFine, GrantsFine
  <1>3. CASE Continue(r, "codeSession") /\ UNCHANGED exchange
    <2>1. PICK next \in Call : /\ Goto(r, next) /\ next.step = "codeSession"
                               /\ next.user = call[r].user
      BY <1>3, FactorTypes, ContinueNext DEF Steps
    <2>2. \A q \in Requests : call'[q].user = call[q].user /\ (Redeeming(q)' => Redeeming(q))
                              /\ (call'[q].step = "saveCode" => call[q].step = "saveCode")
      BY <1>1, <2>1, GotoOthers DEF FactorInv, Kept, Redeeming
    <2>3. FlowTypeOK'
      BY <1>1, <1>3 DEF FlowTypeOK
    <2>4. ExchangesFine'
      BY <1>1, <1>3, <2>2 DEF ExchangesFine
    <2>5. CodeInOnePlace'
      BY <1>1, <1>3, <2>2 DEF CodeInOnePlace
    <2> QED BY <1>2, <2>3, <2>4, <2>5
  <1>4. CASE Finish(r) /\ exchange' = [exchange EXCEPT ![r] = NoExchange]
    <2>1. \A q \in Requests \ {r} : exchange'[q] = exchange[q]
      BY <1>4 DEF FlowTypeOK
    <2>2. /\ \A q \in Requests \ {r} : call'[q].step = call[q].step /\ call'[q].user = call[q].user
          /\ call'[r].step = "idle"
      BY <1>4, IdleType, GotoOthers DEF FactorInv, Kept, Finish
    <2>3. \A q \in Requests : Redeeming(q)' => q # r /\ Redeeming(q) /\ call'[q].user = call[q].user
      BY <2>2 DEF Redeeming
    <2>4. FlowTypeOK'
      BY <1>1, <1>4 DEF FlowTypeOK, NoExchange
    <2>5. ExchangesFine'
      BY <1>1, <2>1, <2>2, <2>3 DEF ExchangesFine
    <2>6. CodeInOnePlace'
      BY <1>1, <2>1, <2>3 DEF CodeInOnePlace
    <2> QED BY <1>2, <2>4, <2>5, <2>6
  <1> QED BY <1>3, <1>4 DEF TokenUser

\* The code in hand becomes the ID token it bought.
LEMMA TokenSessionFlow ==
  ASSUME FactorInv, FlowInv, NEW r \in Requests, TokenSession(r)
  PROVE  FlowInv'
  <1> USE DEF FlowInv
  <1>1. /\ call[r].step = "codeSession" /\ codes' = codes /\ granted' = granted /\ Finish(r)
        /\ exchange' = [exchange EXCEPT ![r] = NoExchange]
    BY DEF TokenSession, Within, At
  <1>2. PICK x : x = exchange[r]
    OBVIOUS
  <1>3. /\ x.code \in Code /\ granted[x.code.id] \in Grants
        /\ call[r].user = granted[x.code.id].user /\ x.client = granted[x.code.id].client
        /\ x.nonce = granted[x.code.id].nonce
    BY <1>1, <1>2 DEF ExchangesFine, Redeeming
  <1>4. PICK t : t = [code |-> x.code.id, sub |-> call[r].user, aud |-> x.client, nonce |-> x.nonce]
    OBVIOUS
  <1>5. /\ t \in IDToken /\ t.code = x.code.id /\ t.sub = call[r].user /\ t.aud = x.client
        /\ t.nonce = x.nonce
    BY <1>3, <1>4 DEF IDToken, Code, Grants
  <1>6. idTokens' = Append(idTokens, t)
    BY <1>2, <1>4 DEF TokenSession
  <1>7. /\ idTokens' \in Seq(IDToken) /\ Len(idTokens') = Len(idTokens) + 1
        /\ Len(idTokens) \in Nat
        /\ idTokens'[Len(idTokens) + 1] = t
        /\ \A n \in 1..Len(idTokens) : idTokens'[n] = idTokens[n]
    BY <1>5, <1>6, AppendProperties, LenProperties DEF FlowTypeOK
  <1>8. \A n \in 1..Len(idTokens') :
          \/ n = Len(idTokens) + 1 /\ idTokens'[n] = t
          \/ n \in 1..Len(idTokens) /\ idTokens'[n] = idTokens[n]
    BY <1>7
  <1>9. /\ \A q \in Requests \ {r} : call'[q].step = call[q].step /\ call'[q].user = call[q].user
        /\ call'[r].step = "idle"
    BY <1>1, IdleType, GotoOthers DEF FactorInv, Kept, Finish
  <1>10. \A q \in Requests : Redeeming(q)' => q # r /\ Redeeming(q) /\ call'[q].user = call[q].user
    BY <1>9 DEF Redeeming
  <1>11. \A q \in Requests \ {r} : exchange'[q] = exchange[q]
    BY <1>1 DEF FlowTypeOK
  <1>12. FlowTypeOK'
    BY <1>1, <1>7 DEF FlowTypeOK, NoExchange
  <1>13. CodesFine' /\ GrantsFine'
    BY <1>1 DEF CodesFine, GrantsFine
  <1>14. ExchangesFine'
    BY <1>1, <1>9, <1>10, <1>11 DEF ExchangesFine
  <1>15. IDTokensFine'
    BY <1>1, <1>3, <1>5, <1>8 DEF IDTokensFine
  <1>16. /\ \A c \in codes : c.id # t.code
         /\ \A q \in Requests : q # r /\ Redeeming(q) => exchange[q].code.id # t.code
         /\ \A n \in 1..Len(idTokens) : idTokens[n].code # t.code
    BY <1>1, <1>2, <1>5 DEF CodeInOnePlace, Redeeming
  <1>17. CodeInOnePlace'
    <2>1. /\ \A c, d \in codes' : c.id = d.id => c = d
          /\ \A q \in Requests : \A c \in codes' : Redeeming(q)' => exchange'[q].code.id # c.id
          /\ \A p, q \in Requests : Redeeming(p)' /\ Redeeming(q)' /\ p # q
                                    => exchange'[p].code.id # exchange'[q].code.id
      BY <1>1, <1>10, <1>11 DEF CodeInOnePlace
    <2>2. \A n \in 1..Len(idTokens') :
            /\ \A c \in codes' : c.id # idTokens'[n].code
            /\ \A q \in Requests : Redeeming(q)' => exchange'[q].code.id # idTokens'[n].code
      BY <1>1, <1>8, <1>10, <1>11, <1>16 DEF CodeInOnePlace
    <2>3. \A m, n \in 1..Len(idTokens') : idTokens'[m].code = idTokens'[n].code => m = n
      BY <1>8, <1>16 DEF CodeInOnePlace
    <2> QED BY <2>1, <2>2, <2>3 DEF CodeInOnePlace
  <1> QED BY <1>12, <1>13, <1>14, <1>15, <1>17

\* No code was issued.
LEMMA FlowInit == IdPInit => FlowInv
  <1> SUFFICES ASSUME IdPInit PROVE FlowInv
    OBVIOUS
  <1>1. \A r \in Requests : call[r].step = "idle"
    BY IdleType DEF IdPInit, Init
  <1>2. idTokens = <<>> /\ idTokens \in Seq(IDToken) /\ Len(idTokens) = 0
    BY EmptySeq DEF IdPInit
  <1>3. FlowTypeOK
    BY <1>2 DEF IdPInit, FlowTypeOK, NoExchange
  <1>4. CodesFine /\ IDTokensFine /\ GrantsFine
    BY <1>2, GrantsAreGrants DEF IdPInit, CodesFine, IDTokensFine, GrantsFine
  <1>5. ExchangesFine /\ CodeInOnePlace
    BY <1>1, <1>2 DEF IdPInit, ExchangesFine, CodeInOnePlace, Redeeming
  <1> QED BY <1>3, <1>4, <1>5 DEF FlowInv

(***************************************************************************)
(* The invariant, and what it says.                                        *)
(***************************************************************************)
\* Every step keeps the invariant.
LEMMA NextKeeps ==
  ASSUME IInv, [Next]_vars
  PROVE  IInv'
  <1>1. CASE FactorNext /\ UNCHANGED idpVars
    BY <1>1, FactorKeeps, FactorLeads, FlowStands DEF IInv
  <1>2. ASSUME NEW r \in Requests, IdPStep(r)
        PROVE  IInv'
    <2>1. FactorInv'
      BY <1>2, FlowKeepsFactor DEF IInv, FlowInv
    <2>2. FlowInv'
      BY <1>2, AuthorizeFlow, AuthorizeSaveFlow, TokenConsumeFlow, TokenUserFlow, TokenSessionFlow
         DEF IInv, IdPStep
    <2> QED BY <2>1, <2>2 DEF IInv
  <1>3. CASE UNCHANGED vars
    <2>1. UNCHANGED factorVars /\ UNCHANGED idpVars
      BY <1>3 DEF vars
    <2>2. call' = call
      BY <2>1 DEF factorVars
    <2> QED BY <2>1, <2>2, FactorStands, FlowStands DEF IInv
  <1> QED BY <1>1, <1>2, <1>3 DEF Next

\* The invariant holds in every behaviour.
LEMMA InvHolds == Spec => []IInv
  <1>1. IdPInit => IInv
    BY FactorInit, FlowInit DEF IdPInit, IInv
  <1>2. IInv /\ [Next]_vars => IInv'
    BY NextKeeps
  <1> QED BY <1>1, <1>2, PTL DEF Spec

\* The types of both parts hold, and a session stepped up to belongs to the user
\* whose password began the login, even if the code or link redeemed there was
\* sent to somebody else (StepUpSubject, VerifyMagicLinkForUser).
THEOREM SessionsAreConsistent == Spec => []SessionsConsistent
  <1>1. IInv => SessionsConsistent
    BY DEF IInv, FactorInv, FlowInv, FlowTypeOK, CodeInOnePlace, SessionsConsistent, IdPTypeOK,
           TokensFine, StepUpStaysWithItsUser
  <1> QED BY <1>1, InvHolds, PTL

\* A code buys at most one ID token, which says what the user consented to, and
\* no code skips a second factor that was required all through the sign-in
\* (MemoryAuthCodeStore.ConsumeCode, handleToken, handleAuthorize).
THEOREM CodesAreAlwaysHonoured == Spec => []CodesAreHonoured
  <1>1. ASSUME IInv PROVE CodesAreHonoured
    <2> USE <1>1 DEF IInv, FlowInv
    <2>1. idTokens \in Seq(IDToken) /\ DOMAIN idTokens = 1..Len(idTokens)
      BY SeqDef, LenProperties DEF FlowTypeOK
    <2>2. CodeSingleUse
      <3>1. SUFFICES ASSUME NEW i \in CodeIDs PROVE Cardinality(Used(i)) <= 1
        BY DEF CodeSingleUse
      <3>2. \A m, n \in Used(i) : m = n
        BY <2>1 DEF Used, CodeInOnePlace
      <3>3. CASE Used(i) = {}
        BY <3>3, FS_EmptySet
      <3>4. CASE \E n : Used(i) = {n}
        <4>1. PICK n : Used(i) = {n}
          BY <3>4
        <4>2. Cardinality({n}) = 1
          BY FS_Singleton
        <4> QED BY <4>1, <4>2
      <3> QED BY <3>2, <3>3, <3>4
    <2>3. IDTokenMatchesGrant
      BY <2>1 DEF IDTokenMatchesGrant, IDTokensFine
    <2>4. CodeNeverSkipsSecondFactor
      BY DEF CodeNeverSkipsSecondFactor, Granted, GrantsFine, FlowTypeOK
    <2> QED BY <2>2, <2>3, <2>4 DEF CodesAreHonoured
  <1> QED BY <1>1, InvHolds, PTL

(***************************************************************************)
(* What a step may never do.                                               *)
(***************************************************************************)
\* A request moves by its own steps only.
LEMMA OnlyOwnSteps ==
  ASSUME IInv, Next, NEW r \in Requests, call'[r].step # call[r].step
  PROVE  RequestStep(r) \/ IdPStep(r)
  <1>1. CASE AdminStep \/ Tick
    <2>1. Environment /\ users' \subseteq users
      BY <1>1 DEF AdminStep, Tick, Environment, SetRequire2FA, UpdateSettings, DeleteUser, Administer
    <2> QED BY <2>1, EnvironmentMoves DEF IInv, FactorInv, Kept
  <1>2. ASSUME NEW q \in Requests, RequestStep(q), q # r
        PROVE  FALSE
    <2>1. PICK next \in Call : Goto(q, next)
      BY <1>2, RequestLeads DEF IInv
    <2> QED BY <1>2, <2>1, GotoOthers DEF IInv, FactorInv, Kept
  <1>3. ASSUME NEW q \in Requests, IdPStep(q), q # r
        PROVE  FALSE
    <2>1. PICK next \in Call : Goto(q, next)
      <3>1. CASE Finish(q)
        BY <3>1, IdleType DEF Finish
      <3>2. CASE \E u \in Users, client \in Clients, n \in Nonces : Authorize(q, u, client, n)
        BY <3>2, BeginType DEF Authorize, Steps, Hows
      <3>3. CASE TokenUser(q)
        BY <3>1, <3>3, FactorTypes, ContinueNext DEF TokenUser, IInv, Steps
      <3>4. CASE \E client \in Clients : TokenConsume(q, client)
        <4>1. CASE \E u \in Users : Goto(q, Begin("codeUser", u, NoToken, "idp"))
          BY <4>1, BeginType DEF Steps, Hows
        <4>2. \A c \in codes : c.user \in Users
          BY DEF IInv, FlowInv, FlowTypeOK, Code
        <4> QED BY <3>1, <3>4, <4>1, <4>2 DEF TokenConsume, Redeem, Found
      <3> QED BY <1>3, <3>1, <3>2, <3>3, <3>4 DEF IdPStep, AuthorizeSave, TokenSession
    <2> QED BY <1>3, <2>1, GotoOthers DEF IInv, FactorInv, Kept
  <1> QED BY <1>1, <1>2, <1>3 DEF Next, FactorNext

\* From the invariant: a call about to open a session by password alone was free.
LEMMA PasswordAlone == Spec => PasswordAloneOnlyIfAllowed
  <1>1. IInv /\ [Next]_vars =>
          [\A r \in Requests, t \in tokens' : Opens(r, t) /\ call[r].how = "password"
             => ~call[r].strict]_factorVars
    BY FactorTypes DEF IInv, Opens, CallFine
  <1> QED BY <1>1, InvHolds, PTL DEF Spec, PasswordAloneOnlyIfAllowed

\* From the invariant: a call about to open a session saw its user alive.
LEMMA NoneForDeleted == Spec => NoSessionForDeletedUser
  <1>1. IInv /\ [Next]_vars =>
          [\A r \in Requests, t \in tokens' : Opens(r, t) => call[r].alive]_factorVars
    BY FactorTypes DEF IInv, Opens, CallFine
  <1> QED BY <1>1, InvHolds, PTL DEF Spec, NoSessionForDeletedUser

\* The only writers of an authenticator's secret.
LEMMA SecretWriters ==
  ASSUME IInv, Next, NEW u \in Users, rec'[u].Secret # rec[u].Secret
  PROVE  \E r \in Requests : (Enrol(r) \/ DisableTOTP(r)) /\ call[r].user = u
  <1>1. rec \in [Users -> Record] /\ rec[u] \in Record
    BY DEF IInv, FactorInv, TypeOK
  <1>2. rec' # rec
    OBVIOUS
  <1>3. ASSUME NEW v \in Users, NEW x, rec' = [rec EXCEPT ![v].Require = x]
                              \/ rec' = [rec EXCEPT ![v].Verified = x]
                              \/ rec' = [rec EXCEPT ![v].sms = x]
                              \/ rec' = [rec EXCEPT ![v].magic = x]
        PROVE  FALSE
    BY <1>1, <1>3 DEF Record
  <1>4. CASE AdminStep \/ Tick
    <2>1. CASE \E v \in Users : SetRequire2FA(v)
      BY <1>3, <2>1 DEF SetRequire2FA
    <2> QED BY <1>2, <1>4, <2>1 DEF AdminStep, Tick, UpdateSettings, DeleteUser
  <1>5. ASSUME NEW r \in Requests, RequestStep(r), ~(Enrol(r) \/ DisableTOTP(r))
        PROVE  FALSE
    <2>1. call[r].step # "idle" => call[r].user \in Users
      BY FactorTypes DEF IInv
    <2>2. CASE SendMagicLink(r) \/ SendSMSCode(r)
      <3>1. call[r].user \in Users
        BY <2>1, <2>2 DEF SendMagicLink, SendSMSCode, Within, At
      <3>2. \E x : rec' = [rec EXCEPT ![call[r].user].sms = x]
                   \/ rec' = [rec EXCEPT ![call[r].user].magic = x]
        BY <2>2 DEF SendMagicLink, SendSMSCode
      <3> QED BY <1>3, <3>1, <3>2
    <2>3. CASE Clear(r) \/ MarkVerified(r)
      <3>1. call[r].user \in Users
        BY <2>1, <2>3 DEF Clear, MarkVerified, Within, At
      <3>2. \E x : rec' = [rec EXCEPT ![call[r].user].sms = x]
                   \/ rec' = [rec EXCEPT ![call[r].user].magic = x]
                   \/ rec' = [rec EXCEPT ![call[r].user].Verified = x]
        BY <1>2, <2>3 DEF Clear, MarkVerified
      <3> QED BY <1>3, <3>1, <3>2
    <2>4. CASE IssueSession(r) \/ SendFails(r) \/ DisableStart(r) \/ DisableReadsUser(r)
               \/ DisableReadsPolicy(r)
      BY <1>2, <2>4 DEF IssueSession, SendFails, DisableStart, DisableReadsUser,
                        DisableReadsPolicy, Local, UnchangedStore
    <2>5. CASE \E v \in Users : LoginWithChallenge(r, v) \/ MagicLinkSend(r, v) \/ SMSSend(r, v)
      BY <1>2, <2>5 DEF LoginWithChallenge, MagicLinkSend, SMSSend, Local, UnchangedStore
    <2>6. CASE \/ \E v \in Users, c \in SMSCodes : VerifySMSCode(r, v, c)
               \/ \E v \in Users, c \in 1..MaxCalls : VerifyMagicLink(r, v, c)
      BY <1>2, <2>6 DEF VerifySMSCode, VerifyMagicLink, Local, UnchangedStore
    <2>7. CASE \E s \in Secrets, c \in Counters : VerifyTOTP(r, s, c) \/ VerifyTOTPSetup(r, s, c)
      BY <1>2, <2>7 DEF VerifyTOTP, VerifyTOTPSetup, Local, UnchangedStore
    <2> QED BY <1>5, <2>2, <2>3, <2>4, <2>5, <2>6, <2>7 DEF RequestStep
  <1>6. ASSUME NEW r \in Requests, IdPStep(r)
        PROVE  FALSE
    BY <1>2, <1>6 DEF IdPStep, Authorize, AuthorizeSave, TokenConsume, TokenUser, TokenSession,
                      Local, UnchangedStore
  <1>7. PICK r \in Requests : Enrol(r) \/ DisableTOTP(r)
    BY <1>4, <1>5, <1>6 DEF Next, FactorNext
  <1>8. /\ call[r].user \in Users
        /\ \E s : rec' = [rec EXCEPT ![call[r].user].Secret = s]
    BY <1>2, <1>7, FactorTypes DEF IInv, Enrol, DisableTOTP, UpdateTOTPSecret, Within, At
  <1>9. call[r].user = u
    BY <1>1, <1>8
  <1> QED BY <1>7, <1>9

\* A writer of the secret carries an access token, which no challenge obtained.
LEMMA ChallengeChangesNone == Spec => ChallengeChangesNoFactor
  <1>1. IInv /\ [Next]_vars =>
          [\A u \in Users : rec'[u].Secret # rec[u].Secret =>
             \E r \in Requests :
                call[r].step \in {"enrol", "disableWrite"} /\ call[r].user = u
                /\ call[r].tok.how # "challenge"]_factorVars
    <2> SUFFICES ASSUME IInv, Next, NEW u \in Users, rec'[u].Secret # rec[u].Secret
                 PROVE  \E r \in Requests : /\ call[r].step \in {"enrol", "disableWrite"}
                                            /\ call[r].user = u
                                            /\ call[r].tok.how # "challenge"
      BY DEF vars
    <2>1. PICK r \in Requests : (Enrol(r) \/ DisableTOTP(r)) /\ call[r].user = u
      BY SecretWriters
    <2>2. call[r].step \in {"enrol", "disableWrite"}
      BY <2>1 DEF Enrol, DisableTOTP, UpdateTOTPSecret, Within, At
    <2> QED BY <2>1, <2>2, FactorTypes DEF IInv, CallFine, Disabling
  <1> QED BY <1>1, InvHolds, PTL DEF Spec, ChallengeChangesNoFactor

\* A removal that writes saw the record and the policy allow it.
LEMMA RemovedIfAllowed == Spec => FactorRemovedOnlyIfAllowed
  <1>1. IInv /\ [Next]_vars =>
          [\A r \in Requests : At(r, "disableWrite") /\ rec' # rec /\ call'[r].step = "idle"
             => call[r].okUser /\ call[r].okPolicy]_factorVars
    <2> SUFFICES ASSUME IInv, Next, NEW r \in Requests, At(r, "disableWrite"), rec' # rec,
                        call'[r].step = "idle"
                 PROVE  call[r].okUser /\ call[r].okPolicy
      BY DEF vars, factorVars
    <2>1. RequestStep(r) \/ IdPStep(r)
      BY OnlyOwnSteps DEF At
    <2>2. call[r].step = "disableWrite"
      BY DEF At
    <2>3. DisableTOTP(r)
      <3>1. ~IdPStep(r)
        BY <2>2 DEF IdPStep, Authorize, AuthorizeSave, TokenConsume, TokenUser, TokenSession,
                    Start, Within, At
      <3> QED BY <2>1, <2>2, <3>1
              DEF RequestStep, IssueSession, SendMagicLink, SendSMSCode, SendFails, Clear,
                  MarkVerified, Enrol, UpdateTOTPSecret, DisableStart, DisableReadsUser,
                  DisableReadsPolicy, LoginWithChallenge, MagicLinkSend, SMSSend, VerifySMSCode,
                  VerifyMagicLink, VerifyTOTP, VerifyTOTPSetup, Start, Within, At
    <2>4. call[r].user \in users
      BY <2>3 DEF DisableTOTP, UpdateTOTPSecret
    <2> QED BY <2>2, <2>4, FactorTypes DEF IInv, CallFine
  <1> QED BY <1>1, InvHolds, PTL DEF Spec, FactorRemovedOnlyIfAllowed

\* A required second factor is not got around: not by the password alone, nor by
\* enrolling or removing the authenticator with it, whatever administrators do
\* between the steps of a call (LoginWithChallenge, TwoFactorDisable, parseToken).
THEOREM SecondFactorAlwaysHolds == Spec => SecondFactorHolds
  BY PasswordAlone, ChallengeChangesNone, RemovedIfAllowed
     DEF SecondFactorHolds, FactorChangeIsAllowed

\* A code that is good at a counter within the skew of the clock's is presented
\* within its window.
LEMMA WindowOfCounter ==
  ASSUME NEW t \in Nat, NEW c \in Int, NEW offset \in -TOTPSkew..TOTPSkew,
         c = (t \div TOTPPeriod) + offset
  PROVE  /\ t >= (c - TOTPSkew) * TOTPPeriod
         /\ t < (c + TOTPSkew + 1) * TOTPPeriod
  <1>1. TOTPPeriod \in Nat /\ TOTPPeriod >= 1 /\ TOTPSkew \in Nat
    BY SecondFactorAssumption
  <1>2. PICK k \in Int : k = t \div TOTPPeriod
    BY <1>1
  <1>3. k * TOTPPeriod <= t /\ t < (k + 1) * TOTPPeriod
    BY <1>1, <1>2
  <1>4. PICK a \in Int, b \in Int : a = c - TOTPSkew /\ b = c + TOTPSkew + 1
    <2>1. c - TOTPSkew \in Int /\ c + TOTPSkew + 1 \in Int
      BY <1>1
    <2> QED BY <2>1
  <1>5. a <= k /\ k + 1 <= b
    BY <1>1, <1>2, <1>4
  <1>6. a * TOTPPeriod <= k * TOTPPeriod /\ (k + 1) * TOTPPeriod <= b * TOTPPeriod
    BY <1>1, <1>5
  <1>7. /\ a * TOTPPeriod \in Int /\ k * TOTPPeriod \in Int
        /\ (k + 1) * TOTPPeriod \in Int /\ b * TOTPPeriod \in Int
    BY <1>1
  <1>8. t >= a * TOTPPeriod /\ t < b * TOTPPeriod
    BY <1>3, <1>6, <1>7
  <1> QED BY <1>4, <1>8

\* The counter of an accepted code was checked against the clock in that very step.
LEMMA WindowHolds == Spec => CodeWindow
  <1>1. IInv /\ [Next]_vars =>
          [\A r \in Requests :
             At(r, "idle") /\ call'[r].step = "issue" /\ call'[r].how = "totp" =>
               LET c == call'[r].counter IN
               /\ now >= (c - TOTPSkew) * TOTPPeriod
               /\ now < (c + TOTPSkew + 1) * TOTPPeriod]_factorVars
    <2> SUFFICES ASSUME IInv, Next, NEW r \in Requests, At(r, "idle"),
                        call'[r].step = "issue", call'[r].how = "totp"
                 PROVE  /\ now >= (call'[r].counter - TOTPSkew) * TOTPPeriod
                        /\ now < (call'[r].counter + TOTPSkew + 1) * TOTPPeriod
      BY DEF vars, factorVars, At
    <2>1. call[r].step = "idle" /\ (RequestStep(r) \/ IdPStep(r)) /\ TypeOK
      BY OnlyOwnSteps DEF At, IInv, FactorInv
    <2>2. ASSUME NEW next \in Call, Goto(r, next), next.step # "issue" \/ next.how # "totp"
          PROVE  FALSE
      BY <2>1, <2>2, GotoOthers DEF Kept
    <2>3. ASSUME NEW s \in Steps, NEW u \in Users, NEW t \in Token \cup {NoToken}, NEW how \in Hows,
                 Goto(r, Begin(s, u, t, how)), s # "issue" \/ how # "totp"
          PROVE  FALSE
      <3>1. PICK next \in Call : Goto(r, next) /\ next.step = s /\ next.how = how
        <4>1. /\ Begin(s, u, t, how) \in Call /\ Begin(s, u, t, how).step = s
              /\ Begin(s, u, t, how).how = how
          BY BeginType
        <4> QED BY <2>3, <4>1, Zenon
      <3> QED BY <2>2, <2>3, <3>1
    <2>4. ~Finish(r)
      BY <2>2, IdleType DEF Finish
    <2>5. PICK s \in Secrets, n \in Counters : VerifyTOTP(r, s, n)
      <3> USE DEF Steps, Hows, StepUp
      <3>1. CASE \E u \in Users, client \in Clients, n \in Nonces : Authorize(r, u, client, n)
        BY <2>3, <3>1 DEF Authorize
      <3>2. CASE \E client \in Clients : TokenConsume(r, client)
        <4>1. \A c \in codes : c.user \in Users
          BY DEF IInv, FlowInv, FlowTypeOK, Code
        <4> QED BY <2>3, <2>4, <3>2, <4>1 DEF TokenConsume, Redeem, Found
      <3>3. CASE \E u \in Users : LoginWithChallenge(r, u)
        BY <2>3, <2>4, <3>3 DEF LoginWithChallenge
      <3>4. CASE \E u \in Users : MagicLinkSend(r, u) \/ SMSSend(r, u)
        BY <2>3, <3>4, FactorTypes DEF MagicLinkSend, SMSSend, SendFor, IInv
      <3>5. CASE \E u \in Users, c \in SMSCodes : VerifySMSCode(r, u, c)
        BY <2>3, <3>5, FactorTypes DEF VerifySMSCode, IInv
      <3>6. CASE \E u \in Users, c \in 1..MaxCalls : VerifyMagicLink(r, u, c)
        BY <2>3, <3>6, FactorTypes DEF VerifyMagicLink, IInv
      <3>7. CASE \E s \in Secrets, c \in Counters : VerifyTOTPSetup(r, s, c)
        <4>1. PICK t \in Token, s \in Secrets :
                Goto(r, [Begin("enrol", t.sub, t, "totp") EXCEPT !.secret = s])
          BY <3>7, FactorTypes DEF VerifyTOTPSetup, IInv
        <4>2. PICK b \in Call : b = Begin("enrol", t.sub, t, "totp") /\ b.step = "enrol"
          BY BeginType DEF Token
        <4>3. [b EXCEPT !.secret = s] \in Call /\ [b EXCEPT !.secret = s].step = "enrol"
          BY <4>2 DEF Call
        <4> QED BY <2>2, <4>1, <4>2, <4>3
      <3>8. CASE DisableStart(r)
        <4>1. PICK t \in Token : Goto(r, Begin("disableUser", t.sub, t, "totp"))
          BY <3>8, FactorTypes DEF DisableStart, IInv
        <4> QED BY <2>3, <4>1 DEF Token
      <3>9. RequestStep(r) => \/ \E s \in Secrets, n \in Counters : VerifyTOTP(r, s, n)
                              \/ \E u \in Users : LoginWithChallenge(r, u)
                              \/ \E u \in Users : MagicLinkSend(r, u) \/ SMSSend(r, u)
                              \/ \E u \in Users, c \in SMSCodes : VerifySMSCode(r, u, c)
                              \/ \E u \in Users, c \in 1..MaxCalls : VerifyMagicLink(r, u, c)
                              \/ \E s \in Secrets, c \in Counters : VerifyTOTPSetup(r, s, c)
                              \/ DisableStart(r)
        BY <2>1 DEF RequestStep, IssueSession, SendMagicLink, SendSMSCode, SendFails, Clear,
                    MarkVerified, Enrol, DisableTOTP, UpdateTOTPSecret, DisableReadsUser,
                    DisableReadsPolicy, Within, At
      <3>10. IdPStep(r) => \/ \E u \in Users, client \in Clients, n \in Nonces :
                                Authorize(r, u, client, n)
                           \/ \E client \in Clients : TokenConsume(r, client)
        BY <2>1 DEF IdPStep, AuthorizeSave, TokenUser, TokenSession, Within, At
      <3> QED BY <2>1, <3>1, <3>2, <3>3, <3>4, <3>5, <3>6, <3>7, <3>8, <3>9, <3>10
    <2>6. PICK t \in Token : Goto(r, [Begin("issue", t.sub, t, "totp") EXCEPT !.counter = n])
      BY <2>5, FactorTypes DEF VerifyTOTP, IInv
    <2>7. n \in Int
      BY SecondFactorAssumption DEF Counters
    <2>8. PICK b \in Call : b = Begin("issue", t.sub, t, "totp")
      BY BeginType DEF Token, Steps, Hows, StepUp
    <2>9. PICK next \in Call : Goto(r, next) /\ next.counter = n
      <3>1. [b EXCEPT !.counter = n] \in Call /\ [b EXCEPT !.counter = n].counter = n
        BY <2>7 DEF Call
      <3> QED BY <2>6, <2>8, <3>1
    <2>10. call'[r].counter = n
      BY <2>1, <2>9, GotoOthers DEF Kept
    <2>11. PICK offset \in -TOTPSkew..TOTPSkew : n = (now \div TOTPPeriod) + offset
      BY <2>5 DEF VerifyTOTP, ValidateTOTPCode, Counter
    <2>12. now \in Nat
      BY <2>1, SecondFactorAssumption DEF TypeOK
    <2> QED BY <2>7, <2>10, <2>11, <2>12, WindowOfCounter
  <1> QED BY <1>1, InvHolds, PTL DEF Spec, CodeWindow

\* A second factor that comes too late opens nothing: neither a code outside its
\* window, nor anything presented for a user who is gone (validateTOTPCode,
\* VerifyTOTP, VerifySMSCode, verifyMagicLink, handleToken).
THEOREM LateFactorAlwaysRefused == Spec => LateFactorRefused
  BY WindowHolds, NoneForDeleted DEF LateFactorRefused
=============================================================================
