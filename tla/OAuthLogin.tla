----------------------------- MODULE OAuthLogin -----------------------------
(***************************************************************************)
(* OAuth login and account linking (oauth_wire.go, oauth.go,               *)
(* oauth_provisioning.go).  A browser is sent to a provider with a signed  *)
(* state and comes back with it; the callback resolves the provider's      *)
(* identity to an account under the provisioning policy.  A conflict is    *)
(* parked, and confirmed through a token mailed to the account's address.  *)
(*                                                                         *)
(* Every store call is a step: a handler reads, decides and writes with    *)
(* other handlers in between.  Several Auth instances, one per tenant, may *)
(* share the stores.                                                       *)
(*                                                                         *)
(* A state is its nonce, provider-less as in the code, and the time it was *)
(* signed at; one that was not signed here is refused on sight and is not  *)
(* modelled, nor are redirect targets.  The provider is external: it       *)
(* answers an exchange with a profile or an error.                         *)
(***************************************************************************)
EXTENDS OAuthStores

CONSTANTS Providers, Emails, NoEmail, Tenants,
          Profiles,   \* what a provider may report of an identity
          Setups,     \* <<provisioning policy, PendingLinkStore or not>> a host may configure
          Accounts,   \* the accounts at the start, one per address and tenant: [id, email, tenant]
          Requests,   \* the goroutines that serve requests
          StateTTL, LinkTokenTTL,
          MaxNonces, MaxTokens, MaxLinks, MaxTime   \* bounds

ASSUME OAuthAssumption ==
  /\ {StateTTL, LinkTokenTTL, MaxNonces, MaxTokens, MaxLinks, MaxTime} \subseteq Nat
  /\ NoEmail \notin Emails
  /\ \A a \in Accounts : a.id \in UserIDs /\ a.email \in Emails /\ a.tenant \in Tenants
  /\ \A a, b \in Accounts : a.email = b.email /\ a.tenant = b.tenant => a = b
  /\ \A p \in Profiles : p.Provider \in Providers /\ p.Email \in Emails \cup {NoEmail}
  /\ \A s \in Setups : s[1].OnEmailMatch \in {"link", "conflict", "reject"}

VARIABLES
  policy, stash,   \* the configuration: provisioning, and whether there is a PendingLinkStore
  users,           \* user id -> [email, tenant, verified]
  states,          \* signed states: nonce -> time of issue
  tokens,          \* link tokens given out
  lastLink,
  proc,            \* proc[r]: what request r is doing
  sessions,        \* sessions started here: [user, tenant, info]; no profile after a link-verify
  used,            \* ghost: used[n], the callbacks that found the nonce in the store
  overlap          \* history: two requests have been under way at once

reqVars  == <<policy, stash, users, states, tokens, lastLink, sessions, used, overlap>>
vars     == <<storeVars, now, proc, reqVars>>

StateKey(n)        == <<"state", n>>
TokenKey(k)        == <<"token", k>>
PendingKey(e, prv) == <<"pending", e, prv>>

(***************************************************************************)
(* The user store, as far as these routes use it: one account per address  *)
(* and tenant, the empty address included.                                 *)
(***************************************************************************)
GetUserByEmail(e, t) == {u \in DOMAIN users : users[u].email = e /\ users[u].tenant = t}
GetUserByID(u, t)    == {v \in DOMAIN users : v = u /\ users[v].tenant = t}
NewID                == CHOOSE u \in UserIDs : u \notin DOMAIN users
IDsLeft              == UserIDs # DOMAIN users   \* bound: accounts there can be

(***************************************************************************)
(* The policy.                                                             *)
(***************************************************************************)

\* A verified address, where it is demanded, is one the provider vouched for.
Admit(info) ==
  /\ policy.RequireVerifiedEmail => info.EmailVerified = TRUE
  /\ policy.AllowedEmailDomains => info.domainOK

EmailVerifiedOnCreate(info) == info.EmailVerified # FALSE

(***************************************************************************)
(* Requests.                                                               *)
(***************************************************************************)
Nobody == [pc |-> "idle", key |-> Unset, provider |-> Unset, tenant |-> Unset, info |-> Unset,
           user |-> Unset, meta |-> Unset, link |-> Unset, created |-> FALSE]

At(r, pc)   == proc[r].pc = pc
Put(r, req) == proc' = [proc EXCEPT ![r] = req]
Goto(r, pc) == Put(r, [proc[r] EXCEPT !.pc = pc])
End(r)      == Put(r, Nobody)
Enter(r)    ==
  /\ At(r, "idle")
  /\ overlap' = (overlap \/ \E q \in Requests \ {r} : ~At(q, "idle"))

Init ==
  /\ StoresInit
  /\ \E s \in Setups : policy = s[1] /\ stash = s[2]
  /\ users = [u \in {a.id : a \in Accounts} |->
                LET a == CHOOSE b \in Accounts : b.id = u
                IN [email |-> a.email, tenant |-> a.tenant, verified |-> TRUE]]
  /\ states = <<>> /\ tokens = 0 /\ lastLink = 0
  /\ proc = [r \in Requests |-> Nobody]
  /\ sessions = {} /\ used = <<>>
  /\ overlap = FALSE /\ now = 0

\* GET <prefix>/oauth/{provider}: sign a state, and record its nonce.
OAuthBegin(r) == \E prv \in Providers, t \in Tenants :
  /\ Enter(r)
  /\ Len(states) < MaxNonces
  /\ states' = Append(states, now)
  /\ used' = Append(used, 0)
  /\ IF stash THEN PendingSave(StateKey(Len(states) + 1), [Provider |-> prv, TenantID |-> t], StateTTL)
     ELSE UNCHANGED pendingVars
  /\ UNCHANGED <<linkVars, now, proc, policy, stash, users, tokens, lastLink, sessions>>

\* GET <prefix>/oauth/{provider}/callback with a state signed here: an old one
\* is refused; the rest of the handler follows step by step.
OAuthComplete(r) == \E n \in DOMAIN states, prv \in Providers, t \in Tenants :
  /\ Enter(r)
  /\ now - states[n] <= StateTTL
  /\ Put(r, [Nobody EXCEPT !.pc = IF stash THEN "get" ELSE "exchange",
               !.key = n, !.provider = prv, !.tenant = IF stash THEN Unset ELSE t])
  /\ UNCHANGED <<storeVars, now, policy, stash, users, states, tokens, lastLink, sessions, used>>

\* The nonce is looked up ...
CompleteGet(r) ==
  /\ At(r, "get")
  /\ LET n == proc[r].key key == StateKey(n) IN
     /\ PendingGet(key)
     /\ IF PendingLive(key) /\ PendingMeta(key).Provider = proc[r].provider
        THEN /\ Put(r, [proc[r] EXCEPT !.pc = "delete", !.tenant = PendingMeta(key).TenantID,
                                       !.meta = PendingMeta(key)])
             /\ used' = [used EXCEPT ![n] = @ + 1]
        ELSE End(r) /\ UNCHANGED used
  /\ UNCHANGED <<linkVars, now, policy, stash, users, states, tokens, lastLink, sessions, overlap>>

\* Broken variant: the nonce is left in the store.
CompleteDeleteSkips(r) ==
  /\ At(r, "delete")
  /\ Goto(r, "exchange")
  /\ UNCHANGED <<storeVars, now, reqVars>>

\* ... and deleted by a second call.
CompleteDelete(r) ==
  /\ At(r, "delete")
  /\ PendingDelete(StateKey(proc[r].key))
  /\ Goto(r, "exchange")
  /\ UNCHANGED <<linkVars, now, reqVars>>

\* ExchangeCodePKCE: two requests to the provider, either of which may fail;
\* then the policy's gate.
CompleteExchange(r) ==
  /\ At(r, "exchange")
  /\ \/ End(r)
     \/ \E info \in Profiles :
          /\ info.Provider = proc[r].provider
          /\ IF Admit(info) THEN Put(r, [proc[r] EXCEPT !.pc = "find", !.info = info]) ELSE End(r)
  /\ UNCHANGED <<storeVars, now, reqVars>>

InfoIdent(info) == <<info.Provider, info.ProviderID>>

\* Broken variant: the account of an identity that is linked is the one that
\* holds its address.
CallbackFindByAddress(r) ==
  /\ At(r, "find")
  /\ LET info == proc[r].info us == GetUserByEmail(info.Email, proc[r].tenant) IN
     IF LinkFindByProvider(InfoIdent(info)) = Unset THEN Goto(r, "email")
     ELSE IF us = {} THEN End(r)
     ELSE \E u \in us : Put(r, [proc[r] EXCEPT !.pc = "session", !.user = u])
  /\ UNCHANGED <<storeVars, now, reqVars>>

\* An identity that is linked is its account, and nobody else.
CallbackFind(r) ==
  /\ At(r, "find")
  /\ LET l == LinkFindByProvider(InfoIdent(proc[r].info)) IN
     IF l = Unset THEN Goto(r, "email")
     ELSE IF GetUserByID(l.UserID, proc[r].tenant) = {} THEN End(r)
     ELSE Put(r, [proc[r] EXCEPT !.pc = "session", !.user = l.UserID])
  /\ UNCHANGED <<storeVars, now, reqVars>>

\* An account that holds the address: linked, parked as a conflict or refused.
CallbackEmail(r) ==
  /\ At(r, "email")
  /\ LET info == proc[r].info us == GetUserByEmail(info.Email, proc[r].tenant) IN
     IF info.Email # NoEmail /\ us # {}
     THEN CASE policy.OnEmailMatch = "link" ->
                 \E u \in us : Put(r, [proc[r] EXCEPT !.pc = "link", !.user = u])
            [] policy.OnEmailMatch = "conflict" -> Goto(r, "stash")
            [] policy.OnEmailMatch = "reject" -> End(r)
     ELSE Goto(r, "create")
  /\ UNCHANGED <<storeVars, now, reqVars>>

\* AutoCreate: CreateUser refuses an address that is taken by now.
CallbackCreate(r) ==
  /\ At(r, "create") /\ IDsLeft
  /\ LET info == proc[r].info u == NewID IN
     IF ~policy.AutoCreate \/ GetUserByEmail(info.Email, proc[r].tenant) # {}
     THEN End(r) /\ UNCHANGED users
     ELSE /\ users' = Set(users, u, [email |-> info.Email, tenant |-> proc[r].tenant,
                                     verified |-> EmailVerifiedOnCreate(info)])
          /\ Put(r, [proc[r] EXCEPT !.pc = "link", !.user = u, !.created = TRUE])
  /\ UNCHANGED <<storeVars, now, policy, stash, states, tokens, lastLink, sessions, used, overlap>>

NewLink(u, prv, pid, e, via) ==
  [ID |-> lastLink + 1, UserID |-> u, Provider |-> prv, ProviderID |-> pid, Email |-> e, via |-> via]

CallbackLink(r) ==
  /\ At(r, "link")
  /\ lastLink < MaxLinks
  /\ lastLink' = lastLink + 1
  /\ LET i == proc[r].info IN
     LinkSave(NewLink(proc[r].user, i.Provider, i.ProviderID, i.Email,
                      IF proc[r].created THEN "create" ELSE "address"))
  /\ Goto(r, "session")
  /\ UNCHANGED <<pendingVars, now, policy, stash, users, states, tokens, sessions, used, overlap>>

CallbackSession(r) ==
  /\ At(r, "session")
  /\ sessions' = sessions \cup {[user |-> proc[r].user, tenant |-> proc[r].tenant,
                                 info |-> proc[r].info]}
  /\ End(r)
  /\ UNCHANGED <<storeVars, now, policy, stash, users, states, tokens, lastLink, used, overlap>>

\* stashAccountConflict: one slot per address and provider, whatever the tenant.
StashConflict(r) ==
  /\ At(r, "stash")
  /\ IF stash
     THEN PendingSave(PendingKey(proc[r].info.Email, proc[r].provider),
            [TenantID |-> proc[r].tenant, ProviderID |-> proc[r].info.ProviderID], LinkTokenTTL)
     ELSE UNCHANGED pendingVars
  /\ End(r)
  /\ UNCHANGED <<linkVars, now, reqVars>>

(***************************************************************************)
(* Linking.                                                                *)
(***************************************************************************)
TokenMeta(u, t, prv, pid, e, how) ==
  [UserID |-> u, TenantID |-> t, Provider |-> prv, ProviderID |-> pid, Email |-> e, how |-> how,
   ExpiresAt |-> now + LinkTokenTTL]

\* POST <prefix>/link-request of a user who is signed in: any address, and the
\* address stands in for the provider's account.
LinkRequestSelf(r) == \E u \in DOMAIN users, e \in Emails, prv \in Providers :
  /\ stash /\ Enter(r)
  /\ Put(r, [Nobody EXCEPT !.pc = "save_token",
               !.meta = TokenMeta(u, users[u].tenant, prv, Unset, e, "self")])
  /\ UNCHANGED <<storeVars, now, policy, stash, users, states, tokens, lastLink, sessions, used>>

\* ... and of somebody who is not: the conflict that is parked for the address.
LinkRequestAnon(r) == \E e \in Emails, prv \in Providers :
  /\ stash /\ Enter(r)
  /\ LET key == PendingKey(e, prv) IN
     /\ PendingGet(key)
     /\ IF PendingLive(key)
        THEN Put(r, [Nobody EXCEPT !.pc = "find_user", !.provider = prv, !.key = e,
                                   !.meta = PendingMeta(key)])
        ELSE End(r)
  /\ UNCHANGED <<linkVars, now, policy, stash, users, states, tokens, lastLink, sessions, used>>

LinkRequestUser(r) ==
  /\ At(r, "find_user")
  /\ LET m == proc[r].meta e == proc[r].key us == GetUserByEmail(e, m.TenantID) IN
     IF us = {} THEN End(r)
     ELSE \E u \in us : Put(r, [proc[r] EXCEPT !.pc = "save_token",
            !.meta = TokenMeta(u, m.TenantID, proc[r].provider, m.ProviderID, e, "mailed")])
  /\ UNCHANGED <<storeVars, now, reqVars>>

\* The token is stored under its hash and mailed; a failed delivery is logged.
LinkRequestSave(r) ==
  /\ At(r, "save_token")
  /\ tokens < MaxTokens
  /\ tokens' = tokens + 1
  /\ PendingSave(TokenKey(tokens + 1), proc[r].meta, LinkTokenTTL)
  /\ End(r)
  /\ UNCHANGED <<linkVars, now, policy, stash, users, states, lastLink, sessions, used, overlap>>

\* POST <prefix>/link-verify.
LinkVerify(r) == \E k \in 1..tokens :
  /\ stash /\ Enter(r)
  /\ PendingGet(TokenKey(k))
  /\ IF PendingLive(TokenKey(k))
     THEN Put(r, [Nobody EXCEPT !.pc = "save_link", !.key = k, !.meta = PendingMeta(TokenKey(k))])
     ELSE End(r)
  /\ UNCHANGED <<linkVars, now, policy, stash, users, states, tokens, lastLink, sessions, used>>

\* The entry's own expiry is looked at again: a store that keeps it longer must
\* not make it last.
VerifyExpired(r) ==
  /\ At(r, "save_link") /\ now > proc[r].meta.ExpiresAt
  /\ PendingDelete(TokenKey(proc[r].key))
  /\ End(r)
  /\ UNCHANGED <<linkVars, now, reqVars>>

VerifySave(r) ==
  /\ At(r, "save_link") /\ now <= proc[r].meta.ExpiresAt
  /\ lastLink < MaxLinks
  /\ lastLink' = lastLink + 1
  /\ LET m == proc[r].meta IN
     LinkSave(NewLink(m.UserID, m.Provider, IF m.ProviderID = Unset THEN m.Email ELSE m.ProviderID,
                      m.Email, m.how))
  /\ Goto(r, "del_token")
  /\ UNCHANGED <<pendingVars, now, policy, stash, users, states, tokens, sessions, used, overlap>>

\* The token dies after the link is made, then the conflict it came from.
VerifyDelete(r) ==
  /\ At(r, "del_token")
  /\ PendingDelete(TokenKey(proc[r].key))
  /\ Goto(r, "del_pending")
  /\ UNCHANGED <<linkVars, now, reqVars>>

\* The session, when it was asked for.
VerifyEnd(r) ==
  /\ At(r, "del_pending")
  /\ LET m == proc[r].meta IN
     /\ PendingDelete(PendingKey(m.Email, m.Provider))
     /\ \/ UNCHANGED sessions
        \/ /\ GetUserByID(m.UserID, m.TenantID) # {}
           /\ sessions' = sessions \cup {[user |-> m.UserID, tenant |-> m.TenantID, info |-> Unset]}
  /\ End(r)
  /\ UNCHANGED <<linkVars, now, policy, stash, users, states, tokens, lastLink, used, overlap>>

\* DELETE <prefix>/linked-accounts/{provider}/{id}: an unknown link, or another
\* user's, is left alone and the answer is the same.
Unlink(r) == \E u \in DOMAIN users, ident \in DOMAIN byPrv :
  /\ Enter(r)
  /\ LinkFindByProvider(ident).UserID = u
  /\ Put(r, [Nobody EXCEPT !.pc = "unlink", !.user = u, !.link = LinkFindByProvider(ident).ID, !.key = ident])
  /\ UNCHANGED <<storeVars, now, policy, stash, users, states, tokens, lastLink, sessions, used>>

UnlinkDelete(r) ==
  /\ At(r, "unlink")
  /\ LinkDelete(proc[r].link)
  /\ End(r)
  /\ UNCHANGED <<pendingVars, now, reqVars>>

Tick ==
  /\ now < MaxTime /\ now' = now + 1
  /\ UNCHANGED <<storeVars, proc, reqVars>>

CallbackStep(r) ==
  \/ CompleteGet(r) \/ CompleteDelete(r) \/ CompleteExchange(r) \/ CallbackFind(r)
  \/ CallbackEmail(r) \/ CallbackCreate(r) \/ CallbackLink(r) \/ CallbackSession(r) \/ StashConflict(r)
LinkStep(r) ==
  \/ LinkRequestUser(r) \/ LinkRequestSave(r) \/ VerifyExpired(r) \/ VerifySave(r)
  \/ VerifyDelete(r) \/ VerifyEnd(r) \/ UnlinkDelete(r)

Next ==
  \/ \E r \in Requests :
       \/ OAuthBegin(r) \/ OAuthComplete(r) \/ LinkRequestSelf(r) \/ LinkRequestAnon(r)
       \/ LinkVerify(r) \/ Unlink(r)
       \/ CallbackStep(r) \/ LinkStep(r)
  \/ Tick

Spec == Init /\ [][Next]_vars

(***************************************************************************)
(* Properties.                                                             *)
(***************************************************************************)
TypeOK ==
  /\ DOMAIN users \subseteq UserIDs
  /\ \A u \in DOMAIN users : users[u].email \in Emails \cup {NoEmail} /\ users[u].tenant \in Tenants
  /\ \A id \in DOMAIN byID : id \in 1..lastLink /\ byID[id].ID = id /\ byID[id].UserID \in DOMAIN users
  /\ \A k \in DOMAIN entries : k[1] \in {"state", "token", "pending"} /\ entries[k].expiresAt \in Nat
  /\ Len(used) = Len(states)
  /\ \A s \in sessions : s.user \in DOMAIN users

\* Whatever signs a user in is on the list the user can see: an identity that
\* resolves to a link resolves to one the store still holds, for that user.
SignInLinksAreListed == \A i \in DOMAIN byPrv :
  LET l == byPrv[i] IN Ident(l) = i /\ l.ID \in DOMAIN byID /\ l \in byUsr[l.UserID]

\* An account that was there before is linked to a provider's identity only as
\* the policy says: by its address under "link", otherwise through a token
\* mailed to that address or asked for by the user.
LinkIsProven == \A id \in DOMAIN byID : LET l == byID[id] IN
  /\ l.via = "address" => policy.OnEmailMatch = "link"
  /\ l.via # "self" => l.Email = users[l.UserID].email

\* Sessions stay in the tenant they were started for, though instances of
\* several tenants share one store and one slot per conflict.
SessionInTenant ==
  /\ \A s \in sessions : users[s.user].tenant = s.tenant
  /\ \A k \in DOMAIN entries : k[1] = "token" =>
       users[entries[k].meta.UserID].tenant = entries[k].meta.TenantID

\* No identity gets two accounts, however its first callbacks race: the user
\* store's check on the address is the one that decides.
OneAccountPerAddress == \A u, v \in DOMAIN users :
  (users[u].email = users[v].email /\ users[u].tenant = users[v].tenant) => u = v

\* A callback past the state check carries a state of its own provider: one
\* minted for another cannot complete it.
StateIsForProvider == \A r \in Requests :
  (stash /\ proc[r].pc \in {"delete", "exchange", "find", "email", "create", "link", "session", "stash"})
    => proc[r].meta.Provider = proc[r].provider

\* As long as requests do not overlap, a nonce admits one callback and a link
\* token makes one link.
SingleUse == (stash /\ ~overlap) =>
  /\ \A n \in DOMAIN used : used[n] <= 1
  /\ Cardinality({id \in 1..lastLink : id \in DOMAIN byID /\ byID[id].via \in {"self", "mailed"}}) <= tokens

\* A session that a callback started is for an account that the identity which
\* came back from the provider was linked to, and that identity is one the policy
\* admits: with an address the provider vouched for, and of an allowed domain,
\* where they are demanded.
SessionAdmitted == \A s \in sessions : s.info # Unset =>
  /\ <<InfoIdent(s.info), s.user>> \in linked
  /\ policy.RequireVerifiedEmail => s.info.EmailVerified = TRUE
  /\ policy.AllowedEmailDomains => s.info.domainOK

\* The state has its type, each address one account in its tenant, and the three
\* indexes of the link store agree on what signs a user in.
LinksConsistent == TypeOK /\ SignInLinksAreListed /\ OneAccountPerAddress

\* Whoever a provider signs in is who the policy says: the account is one their
\* identity was linked to, by a link that is proven, in the tenant of the request,
\* and the identity is one the policy admits (the callback, admit, link-verify).
SignInsAreProven == LinkIsProven /\ SessionInTenant /\ SessionAdmitted

\* A state nonce and a link token serve once, and for what they were made for.
NoncesAreHonoured == StateIsForProvider /\ SingleUse
=============================================================================
