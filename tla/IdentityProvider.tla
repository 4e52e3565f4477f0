-------------------------- MODULE IdentityProvider --------------------------
(***************************************************************************)
(* The authorization-code flow of IDP (idp.go) over MemoryAuthCodeStore    *)
(* (feature_stores.go), next to the login routes it shares its users with: *)
(* /authorize runs Service.Login, which refuses whoever needs a second     *)
(* factor, and /token opens a session for the user of the code.            *)
(*                                                                         *)
(* The redirect URI is one the client registered (another is refused       *)
(* before anything happens), client secrets are right, and the tokens of   *)
(* the session that Login opens at /authorize are discarded by the code,   *)
(* so nobody holds them and they are left out here.                        *)
(***************************************************************************)
EXTENDS SecondFactor, Sequences

CONSTANTS Clients, Nonces,
          AuthCodeTTL,   \* IDPConfig.CodeTTL
          MaxCodes       \* bound: authorization codes issued

ASSUME IdentityProviderAssumption == AuthCodeTTL \in Nat /\ MaxCodes \in Nat

VARIABLES
  codes,     \* MemoryAuthCodeStore.codes
  exchange,  \* exchange[r]: the code request r is saving or has consumed
  granted,   \* history: granted[i]: what code i was issued for
  idTokens   \* history: ID tokens in the order they were signed

idpVars == <<codes, exchange, granted, idTokens>>
vars    == <<factorVars, idpVars>>

CodeIDs == 1..MaxCodes
Code    == [id : CodeIDs, user : Users, client : Clients, nonce : Nonces, exp : Int]
NoAuthCode == [id |-> 0]
NoGrant    == [client |-> "none"]
Granted(i) == granted[i] # NoGrant
Used(i)    == {n \in DOMAIN idTokens : idTokens[n].code = i}

IdPTypeOK ==
  /\ TypeOK
  /\ codes \subseteq Code
  /\ exchange \in [Requests -> [client : Clients \cup {"none"}, nonce : Nonces \cup {"none"},
                                code : Code \cup {NoAuthCode}]]
  /\ \A c, d \in codes : c.id = d.id => c = d

NoExchange == [client |-> "none", nonce |-> "none", code |-> NoAuthCode]

IdPInit ==
  /\ Init
  /\ codes = {}
  /\ exchange = [r \in Requests |-> NoExchange]
  /\ granted = [i \in CodeIDs |-> NoGrant]
  /\ idTokens = <<>>

(***************************************************************************)
(* The store: one mutex around each of the two operations.                 *)
(***************************************************************************)
SaveCode(c) == codes' = {d \in codes : now <= d.exp} \cup {c}

Found(i) == {c \in codes : c.id = i}

\* Broken variant: the record is read, and deleted by nobody.
ConsumeCodeKeeps(i) == UNCHANGED codes

ConsumeCode(i) == codes' = codes \ Found(i)

(***************************************************************************)
(* POST /authorize: the password is checked, then the code saved.          *)
(***************************************************************************)
Authorize(r, u, client, nonce) ==
  /\ Start(r)
  /\ MayLogin(u) /\ ~RequiresTwoFactor(u)
  /\ Local
  /\ Goto(r, Begin("saveCode", u, NoToken, "idp"))
  /\ exchange' = [exchange EXCEPT ![r] = [client |-> client, nonce |-> nonce, code |-> NoAuthCode]]
  /\ UNCHANGED <<codes, granted, idTokens>>

AuthorizeSave(r) == \E i \in CodeIDs :
  LET x == exchange[r] u == call[r].user IN
  /\ Within(r, "saveCode")
  /\ ~Granted(i) /\ \A j \in 1..(i - 1) : Granted(j)
  /\ SaveCode([id |-> i, user |-> u, client |-> x.client, nonce |-> x.nonce,
               exp |-> now + AuthCodeTTL])
  /\ granted' = [granted EXCEPT ![i] =
       [client |-> x.client, nonce |-> x.nonce, user |-> u, strict |-> call[r].strict,
        exp |-> now + AuthCodeTTL]]
  /\ exchange' = [exchange EXCEPT ![r] = NoExchange]
  /\ Local /\ Finish(r)
  /\ UNCHANGED idTokens

(***************************************************************************)
(* POST /token.                                                            *)
(***************************************************************************)
Redeem(r, c, client) ==
  /\ Goto(r, Begin("codeUser", c.user, NoToken, "idp"))
  /\ exchange' = [exchange EXCEPT ![r] = [client |-> client, nonce |-> c.nonce, code |-> c]]

\* The code is gone whatever happens next: expired, or another client's.
TokenConsume(r, client) == \E i \in CodeIDs : \E c \in Found(i) :
  /\ Start(r)
  /\ Local
  /\ ConsumeCode(i)
  /\ IF now <= c.exp /\ c.client = client
     THEN Redeem(r, c, client)
     ELSE Finish(r) /\ UNCHANGED exchange
  /\ UNCHANGED <<granted, idTokens>>

TokenUser(r) ==
  /\ Within(r, "codeUser")
  /\ Local
  /\ IF call[r].user \in users
     THEN Continue(r, "codeSession") /\ UNCHANGED exchange
     ELSE Finish(r) /\ exchange' = [exchange EXCEPT ![r] = NoExchange]
  /\ UNCHANGED <<codes, granted, idTokens>>

\* newSessionTokens and buildIDToken.
TokenSession(r) ==
  /\ Within(r, "codeSession")
  /\ UnchangedStore /\ UNCHANGED sends
  /\ tokens' = tokens \cup {SessionToken(call[r].user, "idp", call[r].user)}
  /\ idTokens' = Append(idTokens,
       [code |-> exchange[r].code.id, sub |-> call[r].user,
        aud |-> exchange[r].client, nonce |-> exchange[r].nonce])
  /\ exchange' = [exchange EXCEPT ![r] = NoExchange]
  /\ Finish(r)
  /\ UNCHANGED <<codes, granted>>

IdPStep(r) ==
  \/ AuthorizeSave(r) \/ TokenUser(r) \/ TokenSession(r)
  \/ \E u \in Users, client \in Clients, n \in Nonces : Authorize(r, u, client, n)
  \/ \E client \in Clients : TokenConsume(r, client)

Next == (FactorNext /\ UNCHANGED idpVars) \/ \E r \in Requests : IdPStep(r)

Spec == IdPInit /\ [][Next]_vars

(***************************************************************************)
(* Properties.                                                             *)
(***************************************************************************)
\* A code buys at most one set of tokens, however many requests present it at
\* once (ConsumeCode takes and deletes under one lock).
CodeSingleUse == \A i \in CodeIDs : Cardinality(Used(i)) <= 1

\* An ID token says what the user consented to at /authorize: their own
\* subject, the client that asked as audience, and its nonce, also when
\* another client gets hold of the code (handleToken, buildIDToken).
IDTokenMatchesGrant == \A n \in DOMAIN idTokens :
  LET t == idTokens[n] g == granted[t.code] IN
  t.sub = g.user /\ t.aud = g.client /\ t.nonce = g.nonce

\* No code is issued to a user who needed a second factor all through the
\* sign-in: /authorize has no challenge to offer and must refuse them.
CodeNeverSkipsSecondFactor ==
  \A i \in CodeIDs : Granted(i) => ~granted[i].strict

\* An authorization code is worth what the user was granted, once, and never
\* replaces a second factor.
CodesAreHonoured == CodeSingleUse /\ IDTokenMatchesGrant /\ CodeNeverSkipsSecondFactor

\* The state has its type and every stepped-up session is of the user whose
\* password began it.
SessionsConsistent == IdPTypeOK /\ StepUpStaysWithItsUser

=============================================================================
