-------------------------- MODULE OAuthLoginProofs --------------------------
(***************************************************************************)
(* Proofs about OAuthLogin, for any number of users, tenants, providers,   *)
(* profiles and requests, any policy and any lifetimes.                    *)
(*                                                                         *)
(* Handlers decide on what they read some steps ago.  What makes this safe *)
(* is what never changes: an account keeps its address and its tenant, so  *)
(* what a request, a stored token or a link says of its account stays true *)
(* (UsersGrow).  Single use is different: it needs the requests to take    *)
(* turns, and then counts what is made against what is still outstanding.  *)
(***************************************************************************)
EXTENDS OAuthLogin, FiniteSetTheorems, SequenceTheorems, TLAPS

(***************************************************************************)
(* The inductive invariant.                                                *)
(***************************************************************************)
UsersFine ==
  /\ DOMAIN users \subseteq UserIDs
  /\ \A u \in DOMAIN users : users[u].email \in Emails \cup {NoEmail} /\ users[u].tenant \in Tenants
  /\ OneAccountPerAddress

ClocksFine ==
  /\ now \in Nat /\ lastLink \in Nat /\ tokens \in Nat
  /\ states \in Seq(Nat) /\ used \in Seq(Nat) /\ Len(used) = Len(states)

PolicyFine == policy.OnEmailMatch \in {"link", "conflict", "reject"}

\* The three indexes, and what each link rests on.
LinkFine(l) ==
  /\ l.UserID \in DOMAIN users
  /\ l.via = "address" => policy.OnEmailMatch = "link"
  /\ l.via # "self" => l.Email = users[l.UserID].email

LinksFine ==
  /\ \A id \in DOMAIN byID : id \in 1..lastLink /\ byID[id].ID = id /\ LinkFine(byID[id])
  /\ \A i \in DOMAIN byPrv :
       /\ Ident(byPrv[i]) = i
       /\ byPrv[i].ID \in DOMAIN byID /\ byID[byPrv[i].ID] = byPrv[i]
       /\ byPrv[i] \in byUsr[byPrv[i].UserID] /\ <<i, byPrv[i].UserID>> \in linked
  /\ byUsr = [u \in UserIDs |-> byUsr[u]]

\* A link token: asked for by its user, or mailed to their address.
MetaFine(m) ==
  /\ m.UserID \in DOMAIN users /\ users[m.UserID].tenant = m.TenantID
  /\ m.how \in {"self", "mailed"}
  /\ m.how = "mailed" => m.Email = users[m.UserID].email

EntriesFine == \A k \in DOMAIN entries :
  /\ k[1] \in {"state", "token", "pending"} /\ entries[k].expiresAt \in Nat
  /\ k[1] = "state" => k[2] \in 1..Len(states) /\ entries[k].meta.TenantID \in Tenants
  /\ k[1] = "token" => k[2] \in 1..tokens /\ MetaFine(entries[k].meta)
  /\ k[1] = "pending" => entries[k].meta.TenantID \in Tenants

SessionsFine == \A s \in sessions :
  /\ s.user \in DOMAIN users /\ users[s.user].tenant = s.tenant
  /\ s.info # Unset => Admit(s.info) /\ <<InfoIdent(s.info), s.user>> \in linked

\* What a request has established by the step it stands at.
Known    == {"find", "email", "create", "link", "session", "stash"}
Callback == Known \cup {"delete", "exchange"}

RequestFine(q) ==
  /\ q = [pc |-> q.pc, key |-> q.key, provider |-> q.provider, tenant |-> q.tenant, info |-> q.info,
          user |-> q.user, meta |-> q.meta, link |-> q.link, created |-> q.created]
  /\ q.pc \in {"get", "delete"} => stash /\ q.key \in 1..Len(states)
  /\ q.pc \in Callback => q.tenant \in Tenants /\ (stash => q.meta.Provider = q.provider)
  /\ q.pc \in Known => q.info \in Profiles /\ Admit(q.info)
  /\ q.pc \in {"link", "session"} => q.user \in DOMAIN users /\ users[q.user].tenant = q.tenant
  /\ q.pc = "session" => <<InfoIdent(q.info), q.user>> \in linked
  /\ q.pc = "link" => /\ users[q.user].email = q.info.Email
                      /\ q.created = TRUE \/ policy.OnEmailMatch = "link"
  /\ q.pc = "find_user" => q.meta.TenantID \in Tenants /\ q.key \in Emails
  /\ q.pc \in {"save_token", "save_link", "del_token", "del_pending"} => MetaFine(q.meta)
  /\ q.pc \in {"save_link", "del_token"} => q.key \in 1..tokens

RequestsFine ==
  /\ proc = [r \in Requests |-> proc[r]]
  /\ \A r \in Requests : RequestFine(proc[r])

IInv == PolicyFine /\ UsersFine /\ ClocksFine /\ LinksFine /\ EntriesFine /\ SessionsFine /\ RequestsFine

(***************************************************************************)
(* Single use, while requests take turns.                                  *)
(***************************************************************************)
Redeemed == {id \in 1..lastLink : id \in DOMAIN byID /\ byID[id].via \in {"self", "mailed"}}
Spending(k) == \E r \in Requests : At(r, "del_token") /\ proc[r].key = k
Unspent  == {k \in 1..tokens : TokenKey(k) \in DOMAIN entries /\ ~Spending(k)}
Deleting(n) == \E r \in Requests : At(r, "delete") /\ proc[r].key = n

OneAtATime == \A q, r \in Requests : q # r => At(q, "idle") \/ At(r, "idle")

NoncesOnce == \A n \in 1..Len(used) :
  used[n] = 0 \/ (used[n] = 1 /\ (StateKey(n) \notin DOMAIN entries \/ Deleting(n)))

TokensHeld == \A r \in Requests :
  proc[r].pc \in {"save_link", "del_token"} => TokenKey(proc[r].key) \in DOMAIN entries

\* Every token has made one link, or can still make one, or neither.
TokensPay == Cardinality(Redeemed) + Cardinality(Unspent) <= tokens

Turns == OneAtATime /\ NoncesOnce /\ TokensHeld /\ TokensPay

InTurns == stash /\ ~overlap => Turns

(***************************************************************************)
(* What stays true while accounts, states and tokens are only added.       *)
(***************************************************************************)
Grows ==
  /\ DOMAIN users \subseteq DOMAIN users' /\ \A u \in DOMAIN users : users'[u] = users[u]
  /\ policy' = policy /\ stash' = stash /\ linked \subseteq linked'
  /\ Len(states) \in Nat /\ Len(states') \in Nat /\ Len(states) <= Len(states')
  /\ tokens \in Nat /\ tokens' \in Nat /\ tokens <= tokens'

\* What a link, a token, the gate or a request says of an account outlives every step: accounts keep address and tenant.
LEMMA UsersGrow ==
  ASSUME Grows
  PROVE  /\ \A l : LinkFine(l) => LinkFine(l)'
         /\ \A m : MetaFine(m) => MetaFine(m)'
         /\ \A info : Admit(info) => Admit(info)'
         /\ \A q : RequestFine(q) => RequestFine(q)'
  <1>1. \A l : LinkFine(l) => LinkFine(l)'
    BY DEF Grows, LinkFine
  <1>2. \A m : MetaFine(m) => MetaFine(m)'
    BY DEF Grows, MetaFine
  <1>3. \A info : Admit(info) => Admit(info)'
    BY DEF Grows, Admit
  <1>4. ASSUME NEW q, RequestFine(q)
        PROVE  RequestFine(q)'
    BY <1>2, <1>3, <1>4 DEF Grows, RequestFine
  <1> QED BY <1>1, <1>2, <1>3, <1>4

\* The link store is consistent after a step that leaves it alone.
LEMMA LinksStand ==
  ASSUME LinksFine, Grows, UNCHANGED linkVars, lastLink' = lastLink
  PROVE  LinksFine'
  BY UsersGrow DEF LinksFine, linkVars

\* Sessions started before stay with their account and tenant.
LEMMA SessionsStand ==
  ASSUME SessionsFine, Grows, sessions' = sessions
  PROVE  SessionsFine'
  <1>1. ASSUME NEW s \in sessions, s.info # Unset
        PROVE  \A info : info = s.info => Admit(info)' /\ <<InfoIdent(info), s.user>> \in linked'
    BY <1>1, UsersGrow DEF SessionsFine, Grows
  <1> QED BY <1>1 DEF SessionsFine, Grows, Admit

\* Entries may go, and one may come.
LEMMA EntriesMove ==
  ASSUME EntriesFine, Grows, NEW key,
         \A k \in DOMAIN entries' : k = key \/ (k \in DOMAIN entries /\ entries'[k] = entries[k]),
         key \in DOMAIN entries' =>
           \/ key \in DOMAIN entries /\ entries'[key] = entries[key]
           \/ /\ key[1] \in {"state", "token", "pending"} /\ entries'[key].expiresAt \in Nat
              /\ key[1] = "state" => key[2] \in 1..Len(states') /\ entries'[key].meta.TenantID \in Tenants
              /\ key[1] = "token" => key[2] \in 1..tokens' /\ \A m : m = entries'[key].meta => MetaFine(m)'
              /\ key[1] = "pending" => entries'[key].meta.TenantID \in Tenants
  PROVE  EntriesFine'
  <1>1. ASSUME NEW k \in DOMAIN entries', k \in DOMAIN entries, entries'[k] = entries[k]
        PROVE  /\ k[1] \in {"state", "token", "pending"} /\ entries'[k].expiresAt \in Nat
               /\ k[1] = "state" => k[2] \in 1..Len(states') /\ entries'[k].meta.TenantID \in Tenants
               /\ k[1] = "token" => k[2] \in 1..tokens' /\ \A m : m = entries'[k].meta => MetaFine(m)'
               /\ k[1] = "pending" => entries'[k].meta.TenantID \in Tenants
    BY <1>1, UsersGrow DEF EntriesFine, Grows
  <1>2. ASSUME NEW k \in DOMAIN entries'
        PROVE  /\ k[1] \in {"state", "token", "pending"} /\ entries'[k].expiresAt \in Nat
               /\ k[1] = "state" => k[2] \in 1..Len(states') /\ entries'[k].meta.TenantID \in Tenants
               /\ k[1] = "token" => k[2] \in 1..tokens' /\ \A m : m = entries'[k].meta => MetaFine(m)'
               /\ k[1] = "pending" => entries'[k].meta.TenantID \in Tenants
    BY <1>1, <1>2
  <1> QED BY <1>2 DEF EntriesFine, MetaFine

\* A request that goes on, or is done.
LEMMA RequestMoves ==
  ASSUME RequestsFine, Grows, NEW r \in Requests, NEW q, Put(r, q), RequestFine(q)'
  PROVE  /\ RequestsFine'
         /\ proc'[r] = q /\ \A p \in Requests \ {r} : proc'[p] = proc[p]
  <1>1. /\ proc' = [p \in Requests |-> proc'[p]]
        /\ proc'[r] = q /\ \A p \in Requests \ {r} : proc'[p] = proc[p]
    BY DEF RequestsFine, Put
  <1>2. \A p \in Requests \ {r} : RequestFine(proc[p])'
    <2>1. ASSUME NEW p \in Requests \ {r}, NEW x, x = proc[p]
          PROVE  RequestFine(x)'
      BY <2>1, UsersGrow DEF RequestsFine
    <2> QED BY <1>1, <2>1 DEF RequestFine
  <1> QED BY <1>1, <1>2 DEF RequestsFine, RequestFine

\* An idle request claims nothing.
LEMMA NobodyFine == RequestFine(Nobody) /\ RequestFine(Nobody)'
  BY DEF RequestFine, Nobody, Callback, Known

(***************************************************************************)
(* Each step preserves IInv.  First what a step does that writes none of   *)
(* the accounts, states, tokens and sessions.                              *)
(***************************************************************************)
\* A step that leaves accounts, states and tokens alone.
LEMMA NothingIssued ==
  ASSUME IInv, UNCHANGED <<policy, stash, users, states, tokens, used>>, now' \in Nat, lastLink' \in Nat,
         linked \subseteq linked'
  PROVE  Grows /\ PolicyFine' /\ UsersFine' /\ ClocksFine'
  <1>1. Grows
    <2>1. Len(states) \in Nat
      BY LenProperties DEF IInv, ClocksFine
    <2> QED BY <2>1 DEF IInv, ClocksFine, Grows
  <1>2. PolicyFine' /\ UsersFine' /\ ClocksFine'
    BY DEF IInv, PolicyFine, UsersFine, OneAccountPerAddress, ClocksFine
  <1> QED BY <1>1, <1>2

\* A step of a request that only goes on.
LEMMA OnlyProc ==
  ASSUME IInv, UNCHANGED <<linkVars, now, policy, stash, users, states, tokens, used, lastLink, sessions>>
  PROVE  /\ Grows /\ PolicyFine' /\ UsersFine' /\ ClocksFine' /\ LinksFine' /\ SessionsFine'
         /\ entries' = entries => EntriesFine'
  <1>1. Grows /\ PolicyFine' /\ UsersFine' /\ ClocksFine'
    BY NothingIssued DEF IInv, ClocksFine, linkVars
  <1>2. LinksFine' /\ SessionsFine'
    BY <1>1, LinksStand, SessionsStand DEF IInv
  <1>3. entries' = entries => EntriesFine'
    BY <1>1, EntriesMove DEF IInv
  <1> QED BY <1>1, <1>2, <1>3

\* What a lookup leaves in the pending store, and a deletion.
LEMMA EntriesGo ==
  ASSUME EntriesFine, Grows, NEW key, PendingGet(key) \/ PendingDelete(key) \/ UNCHANGED entries
  PROVE  EntriesFine'
  <1>1. \A k \in DOMAIN entries' : k \in DOMAIN entries /\ entries'[k] = entries[k]
    BY DEF PendingGet, PendingDelete, Without
  <1> QED BY <1>1, EntriesMove

\* A callback enters with a state that was signed here.
LEMMA OAuthCompleteKeeps ==
  ASSUME OAuthAssumption, IInv, NEW r \in Requests, OAuthComplete(r)
  PROVE  IInv'
  <1>1. PICK n \in DOMAIN states, prv \in Providers, t \in Tenants :
          /\ Put(r, [Nobody EXCEPT !.pc = IF stash THEN "get" ELSE "exchange",
                       !.key = n, !.provider = prv, !.tenant = IF stash THEN Unset ELSE t])
          /\ UNCHANGED <<storeVars, now, policy, stash, users, states, tokens, lastLink, sessions, used>>
    BY DEF OAuthComplete
  <1>2. /\ Grows /\ PolicyFine' /\ UsersFine' /\ ClocksFine' /\ LinksFine' /\ SessionsFine' /\ EntriesFine'
    BY <1>1, OnlyProc DEF storeVars, pendingVars
  <1>3. RequestsFine'
    <2>1. PICK q : q = [Nobody EXCEPT !.pc = IF stash THEN "get" ELSE "exchange",
                       !.key = n, !.provider = prv, !.tenant = IF stash THEN Unset ELSE t] /\ Put(r, q)
      BY <1>1
    <2>2. n \in 1..Len(states) /\ stash' = stash /\ states' = states
      BY <1>1, LenProperties DEF IInv, ClocksFine
    <2>3. RequestFine(q)'
      <3>1. CASE stash
        <4>1. q.pc = "get" /\ q.key = n
          BY <2>1, <3>1 DEF Nobody
        <4> QED BY <2>1, <2>2, <3>1, <4>1 DEF RequestFine, Nobody, Callback, Known
      <3>2. CASE ~stash
        <4>1. q.pc = "exchange" /\ q.tenant = t
          BY <2>1, <3>2 DEF Nobody
        <4> QED BY <2>1, <2>2, <3>2, <4>1 DEF RequestFine, Nobody, Callback, Known
      <3> QED BY <3>1, <3>2
    <2> QED BY <1>2, <2>1, <2>3, RequestMoves DEF IInv
  <1> QED BY <1>2, <1>3 DEF IInv

\* The nonce, when found, was minted for this provider, and gives the tenant.
LEMMA CompleteGetKeeps ==
  ASSUME OAuthAssumption, IInv, NEW r \in Requests, CompleteGet(r)
  PROVE  IInv'
  <1> PICK x : x = proc[r]
    OBVIOUS
  <1>1. /\ x.pc = "get" /\ stash /\ x.key \in 1..Len(states) /\ RequestFine(x)
        /\ UNCHANGED <<linkVars, now, policy, stash, users, states, tokens, lastLink, sessions>>
    BY DEF CompleteGet, At, IInv, RequestsFine, RequestFine
  <1>2. Grows /\ PolicyFine' /\ UsersFine'
    <2>1. Len(states) \in Nat
      BY LenProperties DEF IInv, ClocksFine
    <2> QED BY <1>1, <2>1 DEF IInv, Grows, PolicyFine, UsersFine, OneAccountPerAddress, ClocksFine, linkVars
  <1>3. LinksFine' /\ SessionsFine'
    BY <1>1, <1>2, LinksStand, SessionsStand DEF IInv
  <1>4. EntriesFine'
    <2>1. PendingGet(StateKey(x.key))
      BY DEF CompleteGet
    <2> QED BY <1>2, <2>1, EntriesGo DEF IInv
  <1>5. ClocksFine'
    <2>1. used' \in Seq(Nat) /\ Len(used') = Len(used)
      <3>0. used \in Seq(Nat) /\ x.key \in 1..Len(used)
        BY <1>1 DEF IInv, ClocksFine
      <3>1. used[x.key] + 1 \in Nat
        BY <3>0, ElementOfSeq
      <3>2. used' = used \/ used' = [used EXCEPT ![x.key] = used[x.key] + 1]
        BY DEF CompleteGet
      <3>3. PICK c \in Nat, e \in 1..Len(used) : c = used[e] + 1 /\ e = x.key
        BY <3>0, <3>1
      <3>4. [used EXCEPT ![e] = c] \in Seq(Nat) /\ Len([used EXCEPT ![e] = c]) = Len(used)
        BY <3>0, ExceptSeq
      <3> QED BY <3>0, <3>2, <3>3, <3>4
    <2> QED BY <1>1, <2>1 DEF IInv, ClocksFine
  <1>6. RequestsFine'
    <2>1. CASE End(r)
      BY <1>2, <2>1, NobodyFine, RequestMoves DEF IInv, End
    <2>2. CASE ~End(r)
      <3> DEFINE key == StateKey(x.key)
      <3>1. /\ PendingLive(key) /\ PendingMeta(key).Provider = x.provider
            /\ Put(r, [x EXCEPT !.pc = "delete", !.tenant = PendingMeta(key).TenantID, !.meta = PendingMeta(key)])
        BY <2>2 DEF CompleteGet
      <3>2. PendingMeta(key).TenantID \in Tenants
        BY <3>1 DEF PendingLive, PendingMeta, IInv, EntriesFine, StateKey
      <3>3. PICK m : m = PendingMeta(key)
        OBVIOUS
      <3>4. PICK q : q = [x EXCEPT !.pc = "delete", !.tenant = m.TenantID, !.meta = m] /\ Put(r, q)
        BY <3>1, <3>3
      <3>5. RequestFine(q)'
        BY <1>1, <3>1, <3>2, <3>3, <3>4 DEF RequestFine, Callback, Known
      <3> QED BY <1>2, <3>4, <3>5, RequestMoves DEF IInv
    <2> QED BY <2>1, <2>2
  <1> QED BY <1>2, <1>3, <1>4, <1>5, <1>6 DEF IInv

\* The nonce goes; what was read from it stays true.
LEMMA CompleteDeleteKeeps ==
  ASSUME OAuthAssumption, IInv, NEW r \in Requests, CompleteDelete(r)
  PROVE  IInv'
  <1> PICK x : x = proc[r]
    OBVIOUS
  <1>1. x.pc = "delete" /\ RequestFine(x) /\ UNCHANGED <<linkVars, now, reqVars>>
    BY DEF CompleteDelete, At, IInv, RequestsFine
  <1>2. Grows /\ PolicyFine' /\ UsersFine' /\ ClocksFine' /\ LinksFine' /\ SessionsFine'
    BY <1>1, OnlyProc DEF reqVars
  <1>3. EntriesFine'
    <2>1. PendingDelete(StateKey(x.key))
      BY DEF CompleteDelete
    <2> QED BY <1>2, <2>1, EntriesGo DEF IInv
  <1>4. RequestsFine'
    <2>1. PICK q : q = [x EXCEPT !.pc = "exchange"] /\ Put(r, q)
      BY DEF CompleteDelete, Goto
    <2>2. RequestFine(q)'
      BY <1>1, <2>1 DEF RequestFine, Callback, Known, reqVars
    <2> QED BY <1>2, <2>1, <2>2, RequestMoves DEF IInv
  <1> QED BY <1>2, <1>3, <1>4 DEF IInv

\* Only a profile that the policy admits goes on.
LEMMA CompleteExchangeKeeps ==
  ASSUME OAuthAssumption, IInv, NEW r \in Requests, CompleteExchange(r)
  PROVE  IInv'
  <1> PICK x : x = proc[r]
    OBVIOUS
  <1>1. x.pc = "exchange" /\ RequestFine(x) /\ UNCHANGED <<storeVars, now, reqVars>>
    BY DEF CompleteExchange, At, IInv, RequestsFine
  <1>2. Grows /\ PolicyFine' /\ UsersFine' /\ ClocksFine' /\ LinksFine' /\ SessionsFine' /\ EntriesFine'
    BY <1>1, OnlyProc DEF reqVars, storeVars, pendingVars
  <1>3. RequestsFine'
    <2>1. CASE End(r)
      BY <1>2, <2>1, NobodyFine, RequestMoves DEF IInv, End
    <2>2. CASE ~End(r)
      <3>1. PICK info \in Profiles : Admit(info) /\ Put(r, [x EXCEPT !.pc = "find", !.info = info])
        BY <2>2 DEF CompleteExchange
      <3>2. PICK q : q = [x EXCEPT !.pc = "find", !.info = info] /\ Put(r, q)
        BY <3>1
      <3>3. Admit(info)'
        BY <1>2, <3>1, UsersGrow
      <3>4. RequestFine(q)'
        BY <1>1, <3>1, <3>2, <3>3 DEF RequestFine, Callback, Known, reqVars
      <3> QED BY <1>2, <3>2, <3>4, RequestMoves DEF IInv
    <2> QED BY <2>1, <2>2
  <1> QED BY <1>2, <1>3 DEF IInv

\* A linked identity is taken to its account only in the tenant of the request.
LEMMA CallbackFindKeeps ==
  ASSUME OAuthAssumption, IInv, NEW r \in Requests, CallbackFind(r)
  PROVE  IInv'
  <1> PICK x : x = proc[r]
    OBVIOUS
  <1>1. x.pc = "find" /\ RequestFine(x) /\ UNCHANGED <<storeVars, now, reqVars>>
    BY DEF CallbackFind, At, IInv, RequestsFine
  <1>2. Grows /\ PolicyFine' /\ UsersFine' /\ ClocksFine' /\ LinksFine' /\ SessionsFine' /\ EntriesFine'
    BY <1>1, OnlyProc DEF reqVars, storeVars, pendingVars
  <1>3. RequestsFine'
    <2>1. CASE End(r)
      BY <1>2, <2>1, NobodyFine, RequestMoves DEF IInv, End
    <2>2. CASE ~End(r)
      <3>1. PICK l : l = LinkFindByProvider(InfoIdent(x.info))
        OBVIOUS
      <3>2. \/ Put(r, [x EXCEPT !.pc = "email"])
            \/ /\ l # Unset /\ GetUserByID(l.UserID, x.tenant) # {}
               /\ Put(r, [x EXCEPT !.pc = "session", !.user = l.UserID])
        BY <2>2, <3>1 DEF CallbackFind, Goto
      <3>3. CASE Put(r, [x EXCEPT !.pc = "email"])
        <4>1. PICK q : q = [x EXCEPT !.pc = "email"] /\ Put(r, q)
          BY <3>3
        <4>2. RequestFine(q)
          BY <1>1, <4>1 DEF RequestFine, Callback, Known
        <4> QED BY <1>2, <4>1, <4>2, UsersGrow, RequestMoves DEF IInv
      <3>4. CASE /\ l # Unset /\ GetUserByID(l.UserID, x.tenant) # {}
                 /\ Put(r, [x EXCEPT !.pc = "session", !.user = l.UserID])
        <4>1. PICK q : q = [x EXCEPT !.pc = "session", !.user = l.UserID] /\ Put(r, q)
          BY <3>4
        <4>2. l.UserID \in DOMAIN users /\ users[l.UserID].tenant = x.tenant
          BY <3>4 DEF GetUserByID
        <4>4. <<InfoIdent(x.info), l.UserID>> \in linked
          BY <2>2, <3>1, <3>4 DEF LinkFindByProvider, IInv, LinksFine
        <4>3. RequestFine(q)
          BY <1>1, <4>1, <4>2, <4>4 DEF RequestFine, Callback, Known
        <4> QED BY <1>2, <4>1, <4>3, UsersGrow, RequestMoves DEF IInv
      <3> QED BY <3>2, <3>3, <3>4
    <2> QED BY <2>1, <2>2
  <1> QED BY <1>2, <1>3 DEF IInv

\* An account is linked by its address only under "link", and holds that address.
LEMMA CallbackEmailKeeps ==
  ASSUME OAuthAssumption, IInv, NEW r \in Requests, CallbackEmail(r)
  PROVE  IInv'
  <1> PICK x : x = proc[r]
    OBVIOUS
  <1>1. x.pc = "email" /\ RequestFine(x) /\ UNCHANGED <<storeVars, now, reqVars>>
    BY DEF CallbackEmail, At, IInv, RequestsFine
  <1>2. Grows /\ PolicyFine' /\ UsersFine' /\ ClocksFine' /\ LinksFine' /\ SessionsFine' /\ EntriesFine'
    BY <1>1, OnlyProc DEF reqVars, storeVars, pendingVars
  <1>3. RequestsFine'
    <2>1. \/ \E u \in GetUserByEmail(x.info.Email, x.tenant) :
               policy.OnEmailMatch = "link" /\ Put(r, [x EXCEPT !.pc = "link", !.user = u])
          \/ Put(r, [x EXCEPT !.pc = "stash"])
          \/ End(r)
          \/ Put(r, [x EXCEPT !.pc = "create"])
      BY DEF CallbackEmail, Goto, IInv, PolicyFine
    <2>2. ASSUME NEW u \in GetUserByEmail(x.info.Email, x.tenant), policy.OnEmailMatch = "link",
                 Put(r, [x EXCEPT !.pc = "link", !.user = u])
          PROVE  RequestsFine'
      <3>1. PICK q : q = [x EXCEPT !.pc = "link", !.user = u] /\ Put(r, q)
        BY <2>2
      <3>2. u \in DOMAIN users /\ users[u].email = x.info.Email /\ users[u].tenant = x.tenant
        BY <2>2 DEF GetUserByEmail
      <3>3. RequestFine(q)
        BY <1>1, <2>2, <3>1, <3>2 DEF RequestFine, Callback, Known
      <3> QED BY <1>2, <3>1, <3>3, UsersGrow, RequestMoves DEF IInv
    <2>3. ASSUME NEW pc \in {"stash", "create"}, Put(r, [x EXCEPT !.pc = pc])
          PROVE  RequestsFine'
      <3>1. PICK q : q = [x EXCEPT !.pc = pc] /\ Put(r, q)
        BY <2>3
      <3>2. RequestFine(q)
        BY <1>1, <2>3, <3>1 DEF RequestFine, Callback, Known
      <3> QED BY <1>2, <3>1, <3>2, UsersGrow, RequestMoves DEF IInv
    <2>4. CASE End(r)
      BY <1>2, <2>4, NobodyFine, RequestMoves DEF IInv, End
    <2> QED BY <2>1, <2>2, <2>3, <2>4
  <1> QED BY <1>2, <1>3 DEF IInv

\* A new account takes an address that is free in its tenant.
LEMMA CallbackCreateKeeps ==
  ASSUME OAuthAssumption, IInv, NEW r \in Requests, CallbackCreate(r)
  PROVE  IInv'
  <1> PICK x, u : x = proc[r] /\ u = NewID
    OBVIOUS
  <1>1. /\ x.pc = "create" /\ RequestFine(x) /\ x.info \in Profiles /\ x.tenant \in Tenants
        /\ UNCHANGED <<storeVars, now, policy, stash, states, tokens, lastLink, sessions, used>>
    BY DEF CallbackCreate, At, IInv, RequestsFine, RequestFine, Known, Callback
  <1>2. u \in UserIDs /\ u \notin DOMAIN users
    BY DEF CallbackCreate, IDsLeft, NewID, IInv, UsersFine
  <1>3. CASE UNCHANGED users /\ End(r)
    <2>1. Grows /\ PolicyFine' /\ UsersFine' /\ ClocksFine' /\ LinksFine' /\ SessionsFine' /\ EntriesFine'
      BY <1>1, <1>3, OnlyProc DEF storeVars, pendingVars
    <2> QED BY <1>3, <2>1, NobodyFine, RequestMoves DEF IInv, End
  <1>4. CASE ~(UNCHANGED users /\ End(r))
    <2>1. PICK b : b = EmailVerifiedOnCreate(x.info)
      OBVIOUS
    <2>2. PICK a : a = [email |-> x.info.Email, tenant |-> x.tenant, verified |-> b]
      OBVIOUS
    <2>3. /\ users' = Set(users, u, a)
          /\ Put(r, [x EXCEPT !.pc = "link", !.user = u, !.created = TRUE])
          /\ GetUserByEmail(x.info.Email, x.tenant) = {}
      BY <1>4, <2>1, <2>2 DEF CallbackCreate
    <2>4. /\ DOMAIN users' = DOMAIN users \cup {u} /\ users'[u] = a
          /\ \A v \in DOMAIN users : users'[v] = users[v]
      BY <1>2, <2>3 DEF Set
    <2>5. Grows
      <3>1. Len(states) \in Nat
        BY LenProperties DEF IInv, ClocksFine
      <3> QED BY <1>1, <2>4, <3>1 DEF IInv, ClocksFine, Grows, storeVars, linkVars
    <2>6. UsersFine'
      <3>1. a.email \in Emails \cup {NoEmail} /\ a.tenant \in Tenants
        BY <1>1, <2>2 DEF OAuthAssumption
      <3>2. \A v \in DOMAIN users : ~(users[v].email = a.email /\ users[v].tenant = a.tenant)
        BY <2>2, <2>3 DEF GetUserByEmail
      <3> QED BY <1>2, <2>4, <3>1, <3>2 DEF IInv, UsersFine, OneAccountPerAddress
    <2>7. PolicyFine' /\ ClocksFine' /\ LinksFine' /\ SessionsFine' /\ EntriesFine'
      <3>1. PolicyFine' /\ ClocksFine' /\ LinksFine' /\ SessionsFine'
        BY <1>1, <2>5, LinksStand, SessionsStand DEF IInv, storeVars, PolicyFine, ClocksFine
      <3>2. EntriesFine'
        BY <1>1, <2>5, EntriesGo DEF IInv, storeVars, pendingVars
      <3> QED BY <3>1, <3>2
    <2>8. RequestsFine'
      <3>1. PICK q : q = [x EXCEPT !.pc = "link", !.user = u, !.created = TRUE] /\ Put(r, q)
        BY <2>3
      <3>2. /\ q = [pc |-> q.pc, key |-> q.key, provider |-> q.provider, tenant |-> q.tenant, info |-> q.info,
                     user |-> q.user, meta |-> q.meta, link |-> q.link, created |-> q.created]
            /\ q.pc = "link" /\ q.user = u /\ q.created = TRUE
            /\ q.tenant = x.tenant /\ q.info = x.info /\ q.meta = x.meta /\ q.provider = x.provider
        BY <1>1, <3>1 DEF RequestFine
      <3>3. RequestFine(q)'
        <4>1. RequestFine(x)'
          BY <1>1, <2>5, UsersGrow
        <4>2. q.tenant \in Tenants /\ (stash' => q.meta.Provider = q.provider) /\ Admit(q.info)'
          BY <1>1, <3>2, <4>1 DEF RequestFine, Callback, Known
        <4>3. q.user \in DOMAIN users' /\ users'[q.user].tenant = q.tenant /\ users'[q.user].email = q.info.Email
          BY <2>2, <2>4, <3>2
        <4> QED BY <1>1, <3>2, <4>2, <4>3 DEF RequestFine
      <3> QED BY <2>5, <3>1, <3>3, RequestMoves DEF IInv
    <2> QED BY <2>6, <2>7, <2>8 DEF IInv
  <1> QED BY <1>3, <1>4

\* A link that is saved is remembered, and so are those before it.
LEMMA SavedIsLinked ==
  ASSUME NEW l, LinkSave(l)
  PROVE  linked \subseteq linked' /\ <<Ident(l), l.UserID>> \in linked'
BY DEF LinkSave

\* A link that is deleted has been one.
LEMMA DeletedWasLinked ==
  ASSUME NEW n, LinkDelete(n)
  PROVE  linked' = linked
BY DEF LinkDelete, linkVars

\* A link under a new identifier, resting on an account that exists.
LEMMA SaveKeepsLinks ==
  ASSUME LinksFine, UsersFine, lastLink \in Nat, lastLink' = lastLink + 1, users' = users, policy' = policy,
         NEW l, l.ID = lastLink + 1, LinkFine(l), LinkSave(l)
  PROVE  LinksFine'
  <1>1. /\ DOMAIN byID' = DOMAIN byID \cup {l.ID} /\ byID'[l.ID] = l
        /\ \A id \in DOMAIN byID : id # l.ID /\ byID'[id] = byID[id]
    BY DEF LinkSave, Set, LinksFine
  <1>2. /\ DOMAIN byPrv' = DOMAIN byPrv \cup {Ident(l)} /\ byPrv'[Ident(l)] = l
        /\ \A i \in DOMAIN byPrv \ {Ident(l)} : byPrv'[i] = byPrv[i]
    BY DEF LinkSave, Set
  <1>3. l.UserID \in UserIDs
    BY DEF LinkFine, UsersFine
  <1>4. /\ byUsr' = [u \in UserIDs |-> byUsr'[u]]
        /\ l \in byUsr'[l.UserID]
        /\ \A u \in UserIDs : \A k \in byUsr[u] : k.ID # l.ID => k \in byUsr'[u]
    <2>1. DOMAIN byUsr = UserIDs
      BY DEF LinksFine
    <2> QED BY <1>3, <2>1 DEF LinkSave, Unlisted, LinksFine
  <1>5. \A k : LinkFine(k) => LinkFine(k)'
    BY DEF LinkFine
  <1>6. \A id \in DOMAIN byID' : id \in 1..lastLink' /\ byID'[id].ID = id
    BY <1>1 DEF LinksFine
  <1>7. ASSUME NEW id \in DOMAIN byID'
        PROVE  LinkFine(byID[id])'
    <2>1. PICK k : k = byID'[id]
      OBVIOUS
    <2>2. LinkFine(k)
      BY <1>1, <2>1 DEF LinksFine
    <2> QED BY <1>5, <2>1, <2>2 DEF LinkFine
  <1>8. ASSUME NEW i \in DOMAIN byPrv'
        PROVE  /\ Ident(byPrv'[i]) = i
               /\ byPrv'[i].ID \in DOMAIN byID' /\ byID'[byPrv'[i].ID] = byPrv'[i]
               /\ byPrv'[i] \in byUsr'[byPrv'[i].UserID]
               /\ <<i, byPrv'[i].UserID>> \in linked'
    <2>1. CASE i = Ident(l)
      BY <1>1, <1>2, <1>4, <2>1, SavedIsLinked
    <2>2. CASE i # Ident(l)
      <3>1. i \in DOMAIN byPrv /\ byPrv'[i] = byPrv[i]
        BY <1>2, <2>2
      <3>2. byPrv[i].UserID \in UserIDs
        BY <3>1 DEF LinksFine, LinkFine, UsersFine
      <3>3. <<i, byPrv[i].UserID>> \in linked /\ linked \subseteq linked'
        BY <3>1, SavedIsLinked DEF LinksFine
      <3> QED BY <1>1, <1>4, <3>1, <3>2, <3>3 DEF LinksFine
    <2> QED BY <2>1, <2>2
  <1> QED BY <1>4, <1>6, <1>7, <1>8 DEF LinksFine, Ident

\* Deleting a link takes it out of every index it is in.
LEMMA DeleteKeepsLinks ==
  ASSUME LinksFine, UsersFine, UNCHANGED <<lastLink, users, policy>>, NEW n, LinkDelete(n)
  PROVE  LinksFine'
  <1>1. CASE n \notin DOMAIN byID
    BY <1>1 DEF LinkDelete, linkVars, LinksFine, LinkFine
  <1>2. CASE n \in DOMAIN byID
    <2>1. PICK l : l = byID[n] /\ l.ID = n /\ LinkFine(l)
      BY <1>2 DEF LinksFine
    <2>2. /\ DOMAIN byID' = DOMAIN byID \ {n} /\ \A id \in DOMAIN byID \ {n} : byID'[id] = byID[id]
          /\ DOMAIN byPrv' = DOMAIN byPrv \ {Ident(l)}
          /\ \A i \in DOMAIN byPrv \ {Ident(l)} : byPrv'[i] = byPrv[i]
      BY <1>2, <2>1 DEF LinkDelete, Without
    <2>3. /\ byUsr' = [u \in UserIDs |-> byUsr'[u]]
          /\ \A u \in UserIDs : \A k \in byUsr[u] : k.ID # n => k \in byUsr'[u]
      BY <1>2, <2>1 DEF LinkDelete, Unlisted, LinksFine
    <2>4. \A k : LinkFine(k) => LinkFine(k)'
      BY DEF LinkFine
    <2>5. \A id \in DOMAIN byID' : id \in 1..lastLink' /\ byID'[id].ID = id
      BY <2>2 DEF LinksFine
    <2>6. ASSUME NEW id \in DOMAIN byID'
          PROVE  LinkFine(byID[id])'
      <3>1. PICK k : k = byID'[id]
        OBVIOUS
      <3>2. LinkFine(k)
        BY <2>2, <3>1 DEF LinksFine
      <3> QED BY <2>4, <3>1, <3>2 DEF LinkFine
    <2>7. ASSUME NEW i \in DOMAIN byPrv'
          PROVE  /\ Ident(byPrv'[i]) = i
                 /\ byPrv'[i].ID \in DOMAIN byID' /\ byID'[byPrv'[i].ID] = byPrv'[i]
                 /\ byPrv'[i] \in byUsr'[byPrv'[i].UserID]
                 /\ <<i, byPrv'[i].UserID>> \in linked'
      <3>1. i \in DOMAIN byPrv /\ i # Ident(l) /\ byPrv'[i] = byPrv[i]
        BY <2>2
      <3>2. byPrv[i].UserID \in UserIDs /\ Ident(byPrv[i]) = i
        BY <3>1 DEF LinksFine, LinkFine, UsersFine
      <3>3. byPrv[i].ID # n
        BY <2>1, <3>1, <3>2 DEF LinksFine
      <3> QED BY <2>2, <2>3, <3>1, <3>2, <3>3, DeletedWasLinked DEF LinksFine
    <2> QED BY <2>3, <2>5, <2>6, <2>7 DEF LinksFine, Ident
  <1> QED BY <1>1, <1>2

\* The link a callback makes rests on the address of its account.
LEMMA CallbackLinkKeeps ==
  ASSUME OAuthAssumption, IInv, NEW r \in Requests, CallbackLink(r)
  PROVE  IInv'
  <1> PICK x : x = proc[r]
    OBVIOUS
  <1>1. /\ x.pc = "link" /\ RequestFine(x) /\ lastLink' = lastLink + 1
        /\ UNCHANGED <<pendingVars, now, policy, stash, users, states, tokens, sessions, used>>
    BY DEF CallbackLink, At, IInv, RequestsFine
  <1>2. Grows /\ PolicyFine' /\ UsersFine' /\ ClocksFine' /\ SessionsFine' /\ EntriesFine'
    <2>0. linked \subseteq linked'
      BY SavedIsLinked DEF CallbackLink
    <2>1. Grows /\ PolicyFine' /\ UsersFine' /\ ClocksFine'
      BY <1>1, <2>0, NothingIssued DEF IInv, ClocksFine
    <2> QED BY <1>1, <2>1, SessionsStand, EntriesGo DEF IInv, pendingVars
  <1>3. LinksFine'
    <2>1. PICK via : via = IF x.created THEN "create" ELSE "address"
      OBVIOUS
    <2>2. PICK l : l = NewLink(x.user, x.info.Provider, x.info.ProviderID, x.info.Email, via) /\ LinkSave(l)
      BY <2>1 DEF CallbackLink
    <2>3. LinkFine(l) /\ l.ID = lastLink + 1
      BY <1>1, <2>1, <2>2 DEF RequestFine, LinkFine, NewLink
    <2> QED BY <1>1, <2>2, <2>3, SaveKeepsLinks DEF IInv, ClocksFine
  <1>4. RequestsFine'
    <2>1. PICK q : q = [x EXCEPT !.pc = "session"] /\ Put(r, q)
      BY DEF CallbackLink, Goto
    <2>2. q.info = x.info /\ q.user = x.user /\ <<InfoIdent(q.info), q.user>> \in linked'
      <3>1. PICK via : via = IF x.created THEN "create" ELSE "address"
        OBVIOUS
      <3>2. PICK l : l = NewLink(x.user, x.info.Provider, x.info.ProviderID, x.info.Email, via) /\ LinkSave(l)
        BY <3>1 DEF CallbackLink
      <3>3. <<Ident(l), l.UserID>> \in linked'
        BY <3>2, SavedIsLinked
      <3>4. q.info = x.info /\ q.user = x.user
        BY <1>1, <2>1 DEF RequestFine
      <3> QED BY <3>2, <3>3, <3>4 DEF NewLink, Ident, InfoIdent
    <2>3. RequestFine(x)'
      BY <1>1, <1>2, UsersGrow
    <2>4. RequestFine(q)'
      BY <1>1, <2>1, <2>2, <2>3 DEF RequestFine, Callback, Known
    <2> QED BY <1>2, <2>1, <2>4, RequestMoves DEF IInv
  <1> QED BY <1>2, <1>3, <1>4 DEF IInv

\* The session is in the tenant of its account, for an identity that is admitted.
LEMMA CallbackSessionKeeps ==
  ASSUME OAuthAssumption, IInv, NEW r \in Requests, CallbackSession(r)
  PROVE  IInv'
  <1> PICK x : x = proc[r]
    OBVIOUS
  <1>1. /\ x.pc = "session" /\ RequestFine(x) /\ End(r)
        /\ UNCHANGED <<storeVars, now, policy, stash, users, states, tokens, lastLink, used>>
    BY DEF CallbackSession, At, IInv, RequestsFine
  <1>2. Grows /\ PolicyFine' /\ UsersFine' /\ ClocksFine' /\ LinksFine' /\ EntriesFine'
    <2>1. Grows /\ PolicyFine' /\ UsersFine' /\ ClocksFine'
      BY <1>1, NothingIssued DEF IInv, ClocksFine, storeVars, linkVars
    <2> QED BY <1>1, <2>1, LinksStand, EntriesGo DEF IInv, storeVars, pendingVars
  <1>3. SessionsFine'
    <2>1. PICK new : /\ new = [user |-> x.user, tenant |-> x.tenant, info |-> x.info]
                     /\ sessions' = sessions \cup {new}
      BY DEF CallbackSession
    <2>2. x.user \in DOMAIN users /\ users[x.user].tenant = x.tenant /\ Admit(x.info)' /\ <<InfoIdent(x.info), x.user>> \in linked'
      BY <1>1, <1>2, UsersGrow DEF RequestFine, Known
    <2>3. ASSUME NEW s \in sessions
          PROVE  /\ s.user \in DOMAIN users /\ users[s.user].tenant = s.tenant
                 /\ s.info # Unset => \A info : info = s.info => Admit(info)' /\ <<InfoIdent(info), s.user>> \in linked'
      BY <1>2, UsersGrow DEF IInv, SessionsFine, Grows
    <2> QED BY <1>1, <2>1, <2>2, <2>3 DEF SessionsFine
  <1>4. RequestsFine'
    BY <1>1, <1>2, NobodyFine, RequestMoves DEF IInv, End
  <1> QED BY <1>2, <1>3, <1>4 DEF IInv

\* A conflict is parked with the tenant of its request.
LEMMA StashConflictKeeps ==
  ASSUME OAuthAssumption, IInv, NEW r \in Requests, StashConflict(r)
  PROVE  IInv'
  <1> PICK x : x = proc[r]
    OBVIOUS
  <1>1. x.pc = "stash" /\ RequestFine(x) /\ End(r) /\ UNCHANGED <<linkVars, now, reqVars>>
    BY DEF StashConflict, At, IInv, RequestsFine
  <1>2. Grows /\ PolicyFine' /\ UsersFine' /\ ClocksFine' /\ LinksFine' /\ SessionsFine'
    BY <1>1, OnlyProc DEF reqVars
  <1>3. EntriesFine'
    <2>1. PICK key, m : /\ key = PendingKey(x.info.Email, x.provider)
                        /\ m = [TenantID |-> x.tenant, ProviderID |-> x.info.ProviderID]
      OBVIOUS
    <2>2. entries' = entries \/ entries' = Set(entries, key, [meta |-> m, expiresAt |-> now + LinkTokenTTL])
      BY <2>1 DEF StashConflict, PendingSave, pendingVars
    <2>3. now + LinkTokenTTL \in Nat /\ m.TenantID \in Tenants /\ key[1] = "pending"
      BY <1>1, <2>1 DEF IInv, ClocksFine, OAuthAssumption, RequestFine, Callback, Known, PendingKey
    <2>4. /\ \A k \in DOMAIN entries' : k = key \/ (k \in DOMAIN entries /\ entries'[k] = entries[k])
          /\ key \in DOMAIN entries' =>
               \/ key \in DOMAIN entries /\ entries'[key] = entries[key]
               \/ entries'[key] = [meta |-> m, expiresAt |-> now + LinkTokenTTL]
      BY <2>2 DEF Set
    <2>5. key \in DOMAIN entries' =>
            \/ key \in DOMAIN entries /\ entries'[key] = entries[key]
            \/ entries'[key].expiresAt \in Nat /\ entries'[key].meta.TenantID \in Tenants
      BY <2>3, <2>4
    <2> QED BY <1>2, <2>3, <2>4, <2>5, EntriesMove DEF IInv
  <1>4. RequestsFine'
    BY <1>1, <1>2, NobodyFine, RequestMoves DEF IInv, End
  <1> QED BY <1>2, <1>3, <1>4 DEF IInv

\* A user asks for a token in their own tenant.
LEMMA LinkRequestSelfKeeps ==
  ASSUME OAuthAssumption, IInv, NEW r \in Requests, LinkRequestSelf(r)
  PROVE  IInv'
  <1>1. PICK u \in DOMAIN users, e \in Emails, prv \in Providers :
          /\ Put(r, [Nobody EXCEPT !.pc = "save_token",
                       !.meta = TokenMeta(u, users[u].tenant, prv, Unset, e, "self")])
          /\ UNCHANGED <<storeVars, now, policy, stash, users, states, tokens, lastLink, sessions, used>>
    BY DEF LinkRequestSelf
  <1>2. Grows /\ PolicyFine' /\ UsersFine' /\ ClocksFine' /\ LinksFine' /\ SessionsFine' /\ EntriesFine'
    BY <1>1, OnlyProc DEF storeVars, pendingVars
  <1>3. PICK m : m = TokenMeta(u, users[u].tenant, prv, Unset, e, "self")
    OBVIOUS
  <1>4. PICK q : q = [Nobody EXCEPT !.pc = "save_token", !.meta = m] /\ Put(r, q)
    BY <1>1, <1>3
  <1>5. RequestFine(q)
    <2>1. MetaFine(m)
      BY <1>3 DEF MetaFine, TokenMeta
    <2> QED BY <1>4, <2>1 DEF RequestFine, Nobody, Callback, Known
  <1>6. RequestsFine'
    BY <1>2, <1>4, <1>5, UsersGrow, RequestMoves DEF IInv
  <1> QED BY <1>2, <1>6 DEF IInv

\* A parked conflict gives the tenant to look the address up in.
LEMMA LinkRequestAnonKeeps ==
  ASSUME OAuthAssumption, IInv, NEW r \in Requests, LinkRequestAnon(r)
  PROVE  IInv'
  <1>1. PICK e \in Emails, prv \in Providers :
          /\ PendingGet(PendingKey(e, prv))
          /\ IF PendingLive(PendingKey(e, prv))
             THEN Put(r, [Nobody EXCEPT !.pc = "find_user", !.provider = prv, !.key = e,
                                        !.meta = PendingMeta(PendingKey(e, prv))])
             ELSE End(r)
          /\ UNCHANGED <<linkVars, now, policy, stash, users, states, tokens, lastLink, sessions, used>>
    BY DEF LinkRequestAnon
  <1>2. Grows /\ PolicyFine' /\ UsersFine' /\ ClocksFine' /\ LinksFine' /\ SessionsFine'
    BY <1>1, OnlyProc
  <1>3. EntriesFine'
    BY <1>1, <1>2, EntriesGo DEF IInv
  <1>4. RequestsFine'
    <2>1. CASE PendingLive(PendingKey(e, prv))
      <3>1. PICK m : m = PendingMeta(PendingKey(e, prv))
        OBVIOUS
      <3>2. PICK q : q = [Nobody EXCEPT !.pc = "find_user", !.provider = prv, !.key = e, !.meta = m] /\ Put(r, q)
        BY <1>1, <2>1, <3>1
      <3>3. m.TenantID \in Tenants
        BY <2>1, <3>1 DEF PendingLive, PendingMeta, PendingKey, IInv, EntriesFine
      <3>4. RequestFine(q)
        BY <3>2, <3>3 DEF RequestFine, Nobody, Callback, Known
      <3> QED BY <1>2, <3>2, <3>4, UsersGrow, RequestMoves DEF IInv
    <2>2. CASE End(r)
      BY <1>2, <2>2, NobodyFine, RequestMoves DEF IInv, End
    <2> QED BY <1>1, <2>1, <2>2
  <1> QED BY <1>2, <1>3, <1>4 DEF IInv

\* The token is for the account that holds the address in the conflict's tenant.
LEMMA LinkRequestUserKeeps ==
  ASSUME OAuthAssumption, IInv, NEW r \in Requests, LinkRequestUser(r)
  PROVE  IInv'
  <1> PICK x : x = proc[r]
    OBVIOUS
  <1>1. x.pc = "find_user" /\ RequestFine(x) /\ UNCHANGED <<storeVars, now, reqVars>>
    BY DEF LinkRequestUser, At, IInv, RequestsFine
  <1>2. Grows /\ PolicyFine' /\ UsersFine' /\ ClocksFine' /\ LinksFine' /\ SessionsFine' /\ EntriesFine'
    BY <1>1, OnlyProc DEF reqVars, storeVars, pendingVars
  <1>3. RequestsFine'
    <2>1. CASE End(r)
      BY <1>2, <2>1, NobodyFine, RequestMoves DEF IInv, End
    <2>2. CASE ~End(r)
      <3>1. PICK u \in GetUserByEmail(x.key, x.meta.TenantID) :
              Put(r, [x EXCEPT !.pc = "save_token",
                 !.meta = TokenMeta(u, x.meta.TenantID, x.provider, x.meta.ProviderID, x.key, "mailed")])
        BY <2>2 DEF LinkRequestUser
      <3>2. PICK m : m = TokenMeta(u, x.meta.TenantID, x.provider, x.meta.ProviderID, x.key, "mailed")
        OBVIOUS
      <3>3. PICK q : q = [x EXCEPT !.pc = "save_token", !.meta = m] /\ Put(r, q)
        BY <3>1, <3>2
      <3>4. MetaFine(m)
        BY <3>1, <3>2 DEF MetaFine, TokenMeta, GetUserByEmail
      <3>5. RequestFine(q)
        BY <1>1, <3>3, <3>4 DEF RequestFine, Callback, Known
      <3> QED BY <1>2, <3>3, <3>5, UsersGrow, RequestMoves DEF IInv
    <2> QED BY <2>1, <2>2
  <1> QED BY <1>2, <1>3 DEF IInv

\* The token that is stored is the one that was prepared.
LEMMA LinkRequestSaveKeeps ==
  ASSUME OAuthAssumption, IInv, NEW r \in Requests, LinkRequestSave(r)
  PROVE  IInv'
  <1> PICK x : x = proc[r]
    OBVIOUS
  <1>1. /\ x.pc = "save_token" /\ RequestFine(x) /\ End(r) /\ tokens' = tokens + 1
        /\ UNCHANGED <<linkVars, now, policy, stash, users, states, lastLink, sessions, used>>
    BY DEF LinkRequestSave, At, IInv, RequestsFine
  <1>2. Grows /\ PolicyFine' /\ UsersFine' /\ ClocksFine'
    <2>1. Len(states) \in Nat
      BY LenProperties DEF IInv, ClocksFine
    <2> QED BY <1>1, <2>1 DEF IInv, ClocksFine, Grows, PolicyFine, UsersFine, OneAccountPerAddress, linkVars
  <1>3. LinksFine' /\ SessionsFine'
    BY <1>1, <1>2, LinksStand, SessionsStand DEF IInv
  <1>4. EntriesFine'
    <2>1. PICK key, m : key = TokenKey(tokens + 1) /\ m = x.meta
      OBVIOUS
    <2>2. entries' = Set(entries, key, [meta |-> m, expiresAt |-> now + LinkTokenTTL])
      BY <2>1 DEF LinkRequestSave, PendingSave
    <2>3. /\ now + LinkTokenTTL \in Nat /\ key[1] = "token" /\ key[2] \in 1..tokens'
          /\ \A y : y = m => MetaFine(y)'
      <3>1. now + LinkTokenTTL \in Nat
        BY DEF IInv, ClocksFine, OAuthAssumption
      <3>2. key[1] = "token" /\ key[2] \in 1..tokens'
        BY <1>1, <2>1 DEF IInv, ClocksFine, TokenKey
      <3>3. MetaFine(m)
        BY <1>1, <2>1 DEF RequestFine
      <3> QED BY <1>2, <3>1, <3>2, <3>3, UsersGrow
    <2>4. /\ \A k \in DOMAIN entries' : k = key \/ (k \in DOMAIN entries /\ entries'[k] = entries[k])
          /\ entries'[key].meta = m /\ entries'[key].expiresAt = now + LinkTokenTTL
      BY <2>2 DEF Set
    <2> QED BY <1>2, <2>3, <2>4, EntriesMove DEF IInv
  <1>5. RequestsFine'
    BY <1>1, <1>2, NobodyFine, RequestMoves DEF IInv, End
  <1> QED BY <1>2, <1>3, <1>4, <1>5 DEF IInv

\* What is read of a stored token is fine.
LEMMA LinkVerifyKeeps ==
  ASSUME OAuthAssumption, IInv, NEW r \in Requests, LinkVerify(r)
  PROVE  IInv'
  <1>1. PICK k \in 1..tokens :
          /\ PendingGet(TokenKey(k))
          /\ IF PendingLive(TokenKey(k))
             THEN Put(r, [Nobody EXCEPT !.pc = "save_link", !.key = k, !.meta = PendingMeta(TokenKey(k))])
             ELSE End(r)
          /\ UNCHANGED <<linkVars, now, policy, stash, users, states, tokens, lastLink, sessions, used>>
    BY DEF LinkVerify
  <1>2. Grows /\ PolicyFine' /\ UsersFine' /\ ClocksFine' /\ LinksFine' /\ SessionsFine'
    BY <1>1, OnlyProc
  <1>3. EntriesFine'
    BY <1>1, <1>2, EntriesGo DEF IInv
  <1>4. RequestsFine'
    <2>1. CASE PendingLive(TokenKey(k))
      <3>1. PICK m : m = PendingMeta(TokenKey(k))
        OBVIOUS
      <3>2. PICK q : q = [Nobody EXCEPT !.pc = "save_link", !.key = k, !.meta = m] /\ Put(r, q)
        BY <1>1, <2>1, <3>1
      <3>3. MetaFine(m)
        BY <2>1, <3>1 DEF PendingLive, PendingMeta, TokenKey, IInv, EntriesFine
      <3>4. RequestFine(q)
        BY <3>2, <3>3 DEF RequestFine, Nobody, Callback, Known
      <3> QED BY <1>2, <3>2, <3>4, UsersGrow, RequestMoves DEF IInv
    <2>2. CASE End(r)
      BY <1>2, <2>2, NobodyFine, RequestMoves DEF IInv, End
    <2> QED BY <1>1, <2>1, <2>2
  <1> QED BY <1>2, <1>3, <1>4 DEF IInv

\* An expired token is dropped and nothing else.
LEMMA VerifyExpiredKeeps ==
  ASSUME OAuthAssumption, IInv, NEW r \in Requests, VerifyExpired(r)
  PROVE  IInv'
  <1>1. PendingDelete(TokenKey(proc[r].key)) /\ End(r) /\ UNCHANGED <<linkVars, now, reqVars>>
    BY DEF VerifyExpired
  <1>2. Grows /\ PolicyFine' /\ UsersFine' /\ ClocksFine' /\ LinksFine' /\ SessionsFine'
    BY <1>1, OnlyProc DEF reqVars
  <1>3. EntriesFine'
    BY <1>1, <1>2, EntriesGo DEF IInv
  <1>4. RequestsFine'
    BY <1>1, <1>2, NobodyFine, RequestMoves DEF IInv, End
  <1> QED BY <1>2, <1>3, <1>4 DEF IInv

\* The link a token makes rests on the account the token is for.
LEMMA VerifySaveKeeps ==
  ASSUME OAuthAssumption, IInv, NEW r \in Requests, VerifySave(r)
  PROVE  IInv'
  <1> PICK x, m : x = proc[r] /\ m = x.meta
    OBVIOUS
  <1>1. /\ x.pc = "save_link" /\ RequestFine(x) /\ lastLink' = lastLink + 1
        /\ UNCHANGED <<pendingVars, now, policy, stash, users, states, tokens, sessions, used>>
    BY DEF VerifySave, At, IInv, RequestsFine
  <1>2. Grows /\ PolicyFine' /\ UsersFine' /\ ClocksFine' /\ SessionsFine' /\ EntriesFine'
    <2>0. linked \subseteq linked'
      BY SavedIsLinked DEF VerifySave
    <2>1. Grows /\ PolicyFine' /\ UsersFine' /\ ClocksFine'
      BY <1>1, <2>0, NothingIssued DEF IInv, ClocksFine
    <2> QED BY <1>1, <2>1, SessionsStand, EntriesGo DEF IInv, pendingVars
  <1>3. LinksFine'
    <2>1. PICK pid : pid = IF m.ProviderID = Unset THEN m.Email ELSE m.ProviderID
      OBVIOUS
    <2>2. PICK l : l = NewLink(m.UserID, m.Provider, pid, m.Email, m.how) /\ LinkSave(l)
      BY <2>1 DEF VerifySave
    <2>3. LinkFine(l) /\ l.ID = lastLink + 1
      BY <1>1, <2>1, <2>2 DEF RequestFine, LinkFine, NewLink, MetaFine
    <2> QED BY <1>1, <2>2, <2>3, SaveKeepsLinks DEF IInv, ClocksFine
  <1>4. RequestsFine'
    <2>1. PICK q : q = [x EXCEPT !.pc = "del_token"] /\ Put(r, q)
      BY DEF VerifySave, Goto
    <2>2. RequestFine(q)
      BY <1>1, <2>1 DEF RequestFine, Callback, Known
    <2> QED BY <1>2, <2>1, <2>2, UsersGrow, RequestMoves DEF IInv
  <1> QED BY <1>2, <1>3, <1>4 DEF IInv

\* The token goes after its link is made.
LEMMA VerifyDeleteKeeps ==
  ASSUME OAuthAssumption, IInv, NEW r \in Requests, VerifyDelete(r)
  PROVE  IInv'
  <1> PICK x : x = proc[r]
    OBVIOUS
  <1>1. /\ x.pc = "del_token" /\ RequestFine(x) /\ PendingDelete(TokenKey(x.key))
        /\ UNCHANGED <<linkVars, now, reqVars>>
    BY DEF VerifyDelete, At, IInv, RequestsFine
  <1>2. Grows /\ PolicyFine' /\ UsersFine' /\ ClocksFine' /\ LinksFine' /\ SessionsFine'
    BY <1>1, OnlyProc DEF reqVars
  <1>3. EntriesFine'
    BY <1>1, <1>2, EntriesGo DEF IInv
  <1>4. RequestsFine'
    <2>1. PICK q : q = [x EXCEPT !.pc = "del_pending"] /\ Put(r, q)
      BY DEF VerifyDelete, Goto
    <2>2. RequestFine(q)
      BY <1>1, <2>1 DEF RequestFine, Callback, Known
    <2> QED BY <1>2, <2>1, <2>2, UsersGrow, RequestMoves DEF IInv
  <1> QED BY <1>2, <1>3, <1>4 DEF IInv

\* The session of a verified link is in the tenant of its account.
LEMMA VerifyEndKeeps ==
  ASSUME OAuthAssumption, IInv, NEW r \in Requests, VerifyEnd(r)
  PROVE  IInv'
  <1> PICK m : m = proc[r].meta
    OBVIOUS
  <1>1. /\ PendingDelete(PendingKey(m.Email, m.Provider)) /\ End(r)
        /\ UNCHANGED <<linkVars, now, policy, stash, users, states, tokens, lastLink, used>>
    BY DEF VerifyEnd
  <1>2. Grows /\ PolicyFine' /\ UsersFine' /\ ClocksFine' /\ LinksFine'
    <2>1. Grows /\ PolicyFine' /\ UsersFine' /\ ClocksFine'
      BY <1>1, NothingIssued DEF IInv, ClocksFine, linkVars
    <2> QED BY <1>1, <2>1, LinksStand DEF IInv
  <1>3. EntriesFine'
    BY <1>1, <1>2, EntriesGo DEF IInv
  <1>4. SessionsFine'
    <2>1. CASE UNCHANGED sessions
      BY <1>2, <2>1, SessionsStand DEF IInv
    <2>2. CASE ~UNCHANGED sessions
      <3>1. PICK new : /\ new = [user |-> m.UserID, tenant |-> m.TenantID, info |-> Unset]
                       /\ sessions' = sessions \cup {new} /\ GetUserByID(m.UserID, m.TenantID) # {}
        BY <2>2 DEF VerifyEnd
      <3>2. m.UserID \in DOMAIN users /\ users[m.UserID].tenant = m.TenantID
        BY <3>1 DEF GetUserByID
      <3>3. ASSUME NEW s \in sessions
            PROVE  /\ s.user \in DOMAIN users /\ users[s.user].tenant = s.tenant
                   /\ s.info # Unset => \A info : info = s.info => Admit(info)' /\ <<InfoIdent(info), s.user>> \in linked'
        BY <1>2, UsersGrow DEF IInv, SessionsFine, Grows
      <3> QED BY <1>1, <3>1, <3>2, <3>3 DEF SessionsFine
    <2> QED BY <2>1, <2>2
  <1>5. RequestsFine'
    BY <1>1, <1>2, NobodyFine, RequestMoves DEF IInv, End
  <1> QED BY <1>2, <1>3, <1>4, <1>5 DEF IInv

\* What an unlink has looked up binds nothing.
LEMMA UnlinkKeeps ==
  ASSUME OAuthAssumption, IInv, NEW r \in Requests, Unlink(r)
  PROVE  IInv'
  <1>1. PICK u, id, i : Put(r, [Nobody EXCEPT !.pc = "unlink", !.user = u, !.link = id, !.key = i])
    BY DEF Unlink
  <1>2. Grows /\ PolicyFine' /\ UsersFine' /\ ClocksFine' /\ LinksFine' /\ SessionsFine' /\ EntriesFine'
    BY OnlyProc DEF Unlink, storeVars, pendingVars
  <1>3. PICK q : q = [Nobody EXCEPT !.pc = "unlink", !.user = u, !.link = id, !.key = i] /\ Put(r, q)
    BY <1>1
  <1>4. RequestFine(q)
    BY <1>3 DEF RequestFine, Nobody, Callback, Known
  <1>5. RequestsFine'
    BY <1>2, <1>3, <1>4, UsersGrow, RequestMoves DEF IInv
  <1> QED BY <1>2, <1>5 DEF IInv

\* An unlink leaves the indexes in agreement.
LEMMA UnlinkDeleteKeeps ==
  ASSUME OAuthAssumption, IInv, NEW r \in Requests, UnlinkDelete(r)
  PROVE  IInv'
  <1>1. LinkDelete(proc[r].link) /\ End(r) /\ UNCHANGED <<pendingVars, now, reqVars>>
    BY DEF UnlinkDelete
  <1>2. Grows /\ PolicyFine' /\ UsersFine' /\ ClocksFine' /\ SessionsFine' /\ EntriesFine'
    <2>1. Grows /\ PolicyFine' /\ UsersFine' /\ ClocksFine'
      BY <1>1, DeletedWasLinked, NothingIssued DEF IInv, ClocksFine, reqVars
    <2> QED BY <1>1, <2>1, SessionsStand, EntriesGo DEF IInv, pendingVars, reqVars
  <1>3. LinksFine'
    BY <1>1, DeleteKeepsLinks DEF IInv, reqVars
  <1>4. RequestsFine'
    BY <1>1, <1>2, NobodyFine, RequestMoves DEF IInv, End
  <1> QED BY <1>2, <1>3, <1>4 DEF IInv

\* A state that is signed is recorded under its own nonce.
LEMMA OAuthBeginKeeps ==
  ASSUME OAuthAssumption, IInv, NEW r \in Requests, OAuthBegin(r)
  PROVE  IInv'
  <1>1. PICK prv \in Providers, t \in Tenants :
          /\ states' = Append(states, now) /\ used' = Append(used, 0)
          /\ IF stash THEN PendingSave(StateKey(Len(states) + 1), [Provider |-> prv, TenantID |-> t], StateTTL)
             ELSE UNCHANGED pendingVars
          /\ UNCHANGED <<linkVars, now, proc, policy, stash, users, tokens, lastLink, sessions>>
    BY DEF OAuthBegin
  <1>2. /\ Len(states) \in Nat /\ states' \in Seq(Nat) /\ Len(states') = Len(states) + 1
        /\ used' \in Seq(Nat) /\ Len(used') = Len(used) + 1
    <2>1. PICK z \in Nat : z = 0
      OBVIOUS
    <2> QED BY <1>1, <2>1, AppendProperties, LenProperties DEF IInv, ClocksFine
  <1>3. Grows /\ PolicyFine' /\ UsersFine' /\ ClocksFine'
    BY <1>1, <1>2 DEF IInv, ClocksFine, Grows, PolicyFine, UsersFine, OneAccountPerAddress, linkVars
  <1>4. LinksFine' /\ SessionsFine'
    BY <1>1, <1>3, LinksStand, SessionsStand DEF IInv
  <1>5. EntriesFine'
    <2>1. CASE entries' = entries
      BY <1>3, <2>1, EntriesGo DEF IInv
    <2>2. CASE entries' # entries
      <3>1. PICK key, m : key = StateKey(Len(states) + 1) /\ m = [Provider |-> prv, TenantID |-> t]
        OBVIOUS
      <3>2. entries' = Set(entries, key, [meta |-> m, expiresAt |-> now + StateTTL])
        BY <1>1, <2>2, <3>1 DEF PendingSave, pendingVars
      <3>3. now + StateTTL \in Nat
        BY DEF IInv, ClocksFine, OAuthAssumption
      <3>4. key[1] = "state" /\ key[2] \in 1..Len(states') /\ m.TenantID \in Tenants
        BY <1>2, <3>1 DEF StateKey
      <3>5. /\ \A k \in DOMAIN entries' : k = key \/ (k \in DOMAIN entries /\ entries'[k] = entries[k])
            /\ entries'[key].meta = m /\ entries'[key].expiresAt = now + StateTTL
        BY <3>2 DEF Set
      <3> QED BY <1>3, <3>3, <3>4, <3>5, EntriesMove DEF IInv
    <2> QED BY <2>1, <2>2
  <1>6. RequestsFine'
    <2>1. ASSUME NEW p \in Requests, NEW x, x = proc[p]
          PROVE  RequestFine(x)'
      BY <1>3, <2>1, UsersGrow DEF IInv, RequestsFine
    <2> QED BY <1>1, <2>1 DEF IInv, RequestsFine, RequestFine
  <1> QED BY <1>3, <1>4, <1>5, <1>6 DEF IInv

\* Time passing changes no account, link or request.
LEMMA TickKeeps ==
  ASSUME OAuthAssumption, IInv, Tick
  PROVE  IInv'
  <1>1. now' \in Nat /\ UNCHANGED <<storeVars, proc, reqVars>>
    BY DEF Tick, IInv, ClocksFine
  <1>2. Grows /\ PolicyFine' /\ UsersFine' /\ ClocksFine'
    BY <1>1, NothingIssued DEF IInv, ClocksFine, reqVars, storeVars, linkVars
  <1>3. LinksFine' /\ SessionsFine' /\ EntriesFine'
    BY <1>1, <1>2, LinksStand, SessionsStand, EntriesGo DEF IInv, storeVars, pendingVars, reqVars
  <1>4. RequestsFine'
    <2>1. ASSUME NEW p \in Requests, NEW x, x = proc[p]
          PROVE  RequestFine(x)'
      BY <1>2, <2>1, UsersGrow DEF IInv, RequestsFine
    <2>2. proc' = proc
      BY <1>1
    <2>3. ASSUME NEW p \in Requests
          PROVE  RequestFine(proc[p])'
      BY <2>1, <2>2 DEF RequestFine
    <2> QED BY <2>2, <2>3 DEF IInv, RequestsFine
  <1> QED BY <1>2, <1>3, <1>4 DEF IInv

\* A stuttering step preserves the invariant.
LEMMA StutterKeeps ==
  ASSUME IInv, UNCHANGED vars
  PROVE  IInv'
  <1> USE DEF vars, reqVars, storeVars, linkVars, pendingVars
  <1>1. Grows /\ PolicyFine' /\ UsersFine' /\ ClocksFine'
    BY NothingIssued DEF IInv, ClocksFine
  <1>2. LinksFine' /\ SessionsFine' /\ EntriesFine'
    BY <1>1, LinksStand, SessionsStand, EntriesGo DEF IInv
  <1>3. RequestsFine'
    <2>1. ASSUME NEW p \in Requests, NEW x, x = proc[p]
          PROVE  RequestFine(x)'
      BY <1>1, <2>1, UsersGrow DEF IInv, RequestsFine
    <2> QED BY <2>1 DEF IInv, RequestsFine, RequestFine
  <1> QED BY <1>1, <1>2, <1>3 DEF IInv

\* The invariant holds at the start.
LEMMA InitFine ==
  ASSUME OAuthAssumption, Init
  PROVE  IInv
  <1>1. PolicyFine
    BY DEF Init, OAuthAssumption, PolicyFine
  <1>2. UsersFine
    <2>1. PICK ids : ids = {a.id : a \in Accounts}
      OBVIOUS
    <2>2. DOMAIN users = ids
      BY <2>1 DEF Init
    <2>3. ASSUME NEW u \in DOMAIN users
          PROVE  \E a \in Accounts : a.id = u /\ users[u].email = a.email /\ users[u].tenant = a.tenant
      <3>1. PICK a : a = CHOOSE b \in Accounts : b.id = u
        OBVIOUS
      <3>2. a \in Accounts /\ a.id = u
        BY <2>1, <2>2, <3>1
      <3>3. users[u] = [email |-> a.email, tenant |-> a.tenant, verified |-> TRUE]
        BY <2>1, <2>2, <3>1 DEF Init
      <3> QED BY <3>2, <3>3
    <2> QED BY <2>1, <2>2, <2>3 DEF UsersFine, OneAccountPerAddress, OAuthAssumption
  <1>3. ClocksFine
    BY EmptySeq DEF Init, ClocksFine
  <1>4. DOMAIN byID = {} /\ DOMAIN byPrv = {} /\ DOMAIN entries = {}
    <2>1. \A s : s = <<>> => DOMAIN s = {}
      OBVIOUS
    <2> QED BY <2>1 DEF Init, StoresInit
  <1>5. LinksFine
    BY <1>4 DEF Init, StoresInit, LinksFine
  <1>6. EntriesFine /\ SessionsFine
    BY <1>4 DEF Init, EntriesFine, SessionsFine
  <1>7. RequestsFine
    BY NobodyFine DEF Init, RequestsFine
  <1> QED BY <1>1, <1>2, <1>3, <1>5, <1>6, <1>7 DEF IInv

\* Every step preserves the invariant.
LEMMA NextKeeps ==
  ASSUME OAuthAssumption, IInv, [Next]_vars
  PROVE  IInv'
  <1>1. ASSUME NEW r \in Requests, CallbackStep(r)
        PROVE  IInv'
    BY <1>1, CompleteGetKeeps, CompleteDeleteKeeps, CompleteExchangeKeeps, CallbackFindKeeps, CallbackEmailKeeps,
       CallbackCreateKeeps, CallbackLinkKeeps, CallbackSessionKeeps, StashConflictKeeps DEF CallbackStep
  <1>2. ASSUME NEW r \in Requests, LinkStep(r)
        PROVE  IInv'
    BY <1>2, LinkRequestUserKeeps, LinkRequestSaveKeeps, VerifyExpiredKeeps, VerifySaveKeeps, VerifyDeleteKeeps,
       VerifyEndKeeps, UnlinkDeleteKeeps DEF LinkStep
  <1> QED BY <1>1, <1>2, OAuthBeginKeeps, OAuthCompleteKeeps, LinkRequestSelfKeeps, LinkRequestAnonKeeps,
             LinkVerifyKeeps, UnlinkKeeps, TickKeeps, StutterKeeps DEF Next

\* The inductive invariant holds throughout (oauth_wire.go: every handler of the OAuth routes).
THEOREM Consistent == Spec => []IInv
  <1>1. Init => IInv
    BY OAuthAssumption, InitFine
  <1>2. IInv /\ [Next]_vars => IInv'
    BY OAuthAssumption, NextKeeps
  <1> QED BY <1>1, <1>2, PTL DEF Spec

\* The indexes of MemoryLinkedAccounts agree on what signs a user in, and no tenant has two accounts of one address.
THEOREM LinksAreConsistent == Spec => []LinksConsistent
  <1>1. IInv => LinksConsistent
    BY DEF IInv, UsersFine, ClocksFine, LinksFine, LinkFine, EntriesFine, SessionsFine, LinksConsistent, TypeOK,
           SignInLinksAreListed, OneAccountPerAddress
  <1> QED BY <1>1, Consistent, PTL

\* Whoever OAuthComplete or link-verify signs in is proven to be that account, in its tenant, and admitted by the policy.
THEOREM SignInsAlwaysProven == Spec => []SignInsAreProven
  <1>1. IInv => LinkIsProven
    BY DEF IInv, LinksFine, LinkFine, LinkIsProven
  <1>2. IInv => SessionInTenant
    BY DEF IInv, SessionsFine, EntriesFine, MetaFine, SessionInTenant
  <1>3. IInv => SessionAdmitted
    BY DEF IInv, SessionsFine, Admit, SessionAdmitted
  <1> QED BY <1>1, <1>2, <1>3, Consistent, PTL DEF SignInsAreProven

(***************************************************************************)
(* Single use.  A request that takes its turn finds the others idle.       *)
(***************************************************************************)
OthersIdle(r) == \A q \in Requests \ {r} : proc[q].pc = "idle" /\ proc'[q] = proc[q]

\* What is counted is finite.
LEMMA Counted == IInv => IsFiniteSet(Redeemed) /\ IsFiniteSet(Unspent)
  <1> SUFFICES ASSUME IInv PROVE IsFiniteSet(Redeemed) /\ IsFiniteSet(Unspent)
    OBVIOUS
  <1>1. IsFiniteSet(1..lastLink) /\ IsFiniteSet(1..tokens)
    BY FS_Interval DEF IInv, ClocksFine
  <1>2. Redeemed \subseteq 1..lastLink /\ Unspent \subseteq 1..tokens
    BY DEF Redeemed, Unspent
  <1> QED BY <1>1, <1>2, FS_Subset

\* Links made with tokens stay paid for while neither side gains.
LEMMA TokensStillPay ==
  ASSUME IInv, IInv', TokensPay, tokens' = tokens, Redeemed' \subseteq Redeemed, Unspent' \subseteq Unspent
  PROVE  TokensPay'
  <1>1. PICK A, B, C, D : A = Redeemed /\ B = Unspent /\ C = Redeemed' /\ D = Unspent'
    OBVIOUS
  <1>2. IsFiniteSet(A) /\ IsFiniteSet(B) /\ C \subseteq A /\ D \subseteq B
    BY <1>1, Counted
  <1>3. /\ Cardinality(A) \in Nat /\ Cardinality(B) \in Nat /\ Cardinality(C) \in Nat /\ Cardinality(D) \in Nat
        /\ Cardinality(C) <= Cardinality(A) /\ Cardinality(D) <= Cardinality(B)
    BY <1>2, FS_Subset, FS_CardinalityType
  <1> QED BY <1>1, <1>3 DEF TokensPay, IInv, ClocksFine

\* A step that finds no nonce, and neither gives out a token nor spends one.
LEMMA TurnsGoOn ==
  ASSUME IInv, IInv', Turns, NEW r \in Requests, OthersIdle(r), proc[r].pc \notin {"delete", "del_token"},
         used' = used, tokens' = tokens, Redeemed' \subseteq Redeemed,
         \A k \in DOMAIN entries' : k[1] \in {"state", "token"} => k \in DOMAIN entries,
         proc'[r].pc \in {"save_link", "del_token"} => TokenKey(proc'[r].key) \in DOMAIN entries'
  PROVE  Turns'
  <1>1. OneAtATime'
    BY DEF OthersIdle, OneAtATime, At
  <1>2. NoncesOnce'
    <2>1. \A n : ~Deleting(n)
      BY DEF Deleting, OthersIdle, At
    <2>2. \A n : StateKey(n) \in DOMAIN entries' => StateKey(n) \in DOMAIN entries
      BY DEF StateKey
    <2> QED BY <2>1, <2>2 DEF NoncesOnce, Turns
  <1>3. TokensHeld'
    BY DEF TokensHeld, OthersIdle, Turns
  <1>4. Unspent' \subseteq Unspent
    <2>1. \A k : ~Spending(k)
      BY DEF Spending, OthersIdle, At
    <2>2. \A k : TokenKey(k) \in DOMAIN entries' => TokenKey(k) \in DOMAIN entries
      BY DEF TokenKey
    <2> QED BY <2>1, <2>2 DEF Unspent
  <1>5. TokensPay'
    BY <1>4, TokensStillPay DEF Turns
  <1> QED BY <1>1, <1>2, <1>3, <1>5 DEF Turns

\* A step that leaves the links alone redeems nothing.
LEMMA RedeemedStands ==
  ASSUME UNCHANGED <<byID, lastLink>>
  PROVE  Redeemed' \subseteq Redeemed
  BY DEF Redeemed

\* A step of one request is the others' stutter.
LEMMA PutIs ==
  ASSUME IInv, NEW r \in Requests, NEW q, Put(r, q)
  PROVE  proc'[r] = q /\ \A p \in Requests \ {r} : proc'[p] = proc[p]
  BY DEF IInv, RequestsFine, Put

\* What a lookup and a deletion leave was there.
LEMMA KeysGo ==
  ASSUME NEW key, PendingGet(key) \/ PendingDelete(key) \/ UNCHANGED entries
  PROVE  DOMAIN entries' \subseteq DOMAIN entries
  BY DEF PendingGet, PendingDelete, Without

\* The callback after its nonce is spent touches neither nonces nor tokens.
LEMMA CallbackTurns ==
  ASSUME OAuthAssumption, IInv, IInv', Turns, NEW r \in Requests, OthersIdle(r), 
         \/ CompleteExchange(r) \/ CallbackFind(r) \/ CallbackEmail(r) \/ CallbackCreate(r)
         \/ CallbackSession(r) \/ StashConflict(r)
  PROVE  Turns'
  <1> PICK x : x = proc[r]
    OBVIOUS
  <1>0. x = [pc |-> x.pc, key |-> x.key, provider |-> x.provider, tenant |-> x.tenant, info |-> x.info,
             user |-> x.user, meta |-> x.meta, link |-> x.link, created |-> x.created]
    BY DEF IInv, RequestsFine, RequestFine
  <1> DEFINE Calm == proc'[r].pc \in {"idle", "find", "email", "create", "link", "session", "stash"}
  <1>1. CASE CompleteExchange(r)
    <2>1. Calm
      <3>1. CASE End(r)
        BY <3>1, PutIs DEF End, Nobody
      <3>2. CASE ~End(r)
        <4>1. PICK info : Put(r, [x EXCEPT !.pc = "find", !.info = info])
          BY <1>1, <3>2 DEF CompleteExchange
        <4>2. PICK q : q = [x EXCEPT !.pc = "find", !.info = info] /\ Put(r, q)
          BY <4>1
        <4>3. proc'[r] = q
          BY <4>2, PutIs
        <4>4. q.pc = "find"
          BY <1>0, <4>2
        <4> QED BY <4>3, <4>4
      <3> QED BY <3>1, <3>2
    <2> QED BY <1>1, <2>1, TurnsGoOn, RedeemedStands DEF CompleteExchange, At, storeVars, linkVars, pendingVars, reqVars
  <1>2. CASE CallbackFind(r)
    <2>1. Calm
      <3>1. CASE End(r)
        BY <3>1, PutIs DEF End, Nobody
      <3>2. CASE ~End(r)
        <4>1. CASE \E pc \in {"email"} : Put(r, [x EXCEPT !.pc = pc])
          <5>1. PICK pc \in {"email"} : Put(r, [x EXCEPT !.pc = pc])
            BY <4>1
          <5>2. PICK q : q = [x EXCEPT !.pc = pc] /\ Put(r, q)
            BY <5>1
          <5>3. proc'[r] = q
            BY <5>2, PutIs
          <5>4. q.pc = pc
            BY <1>0, <5>2
          <5> QED BY <5>3, <5>4
        <4>2. CASE ~\E pc \in {"email"} : Put(r, [x EXCEPT !.pc = pc])
          <5>1. PICK u : Put(r, [x EXCEPT !.pc = "session", !.user = u])
            BY <1>2, <3>2, <4>2 DEF CallbackFind, Goto
          <5>2. PICK q : q = [x EXCEPT !.pc = "session", !.user = u] /\ Put(r, q)
            BY <5>1
          <5>3. proc'[r] = q
            BY <5>2, PutIs
          <5>4. q.pc = "session"
            BY <1>0, <5>2
          <5> QED BY <5>3, <5>4
        <4> QED BY <4>1, <4>2
      <3> QED BY <3>1, <3>2
    <2> QED BY <1>2, <2>1, TurnsGoOn, RedeemedStands DEF CallbackFind, At, storeVars, linkVars, pendingVars, reqVars
  <1>3. CASE CallbackEmail(r)
    <2>1. Calm
      <3>1. CASE End(r)
        BY <3>1, PutIs DEF End, Nobody
      <3>2. CASE ~End(r)
        <4>1. CASE \E pc \in {"stash", "create"} : Put(r, [x EXCEPT !.pc = pc])
          <5>1. PICK pc \in {"stash", "create"} : Put(r, [x EXCEPT !.pc = pc])
            BY <4>1
          <5>2. PICK q : q = [x EXCEPT !.pc = pc] /\ Put(r, q)
            BY <5>1
          <5>3. proc'[r] = q
            BY <5>2, PutIs
          <5>4. q.pc = pc
            BY <1>0, <5>2
          <5> QED BY <5>3, <5>4
        <4>2. CASE ~\E pc \in {"stash", "create"} : Put(r, [x EXCEPT !.pc = pc])
          <5>1. PICK u : Put(r, [x EXCEPT !.pc = "link", !.user = u])
            BY <1>3, <3>2, <4>2 DEF CallbackEmail, Goto, IInv, PolicyFine
          <5>2. PICK q : q = [x EXCEPT !.pc = "link", !.user = u] /\ Put(r, q)
            BY <5>1
          <5>3. proc'[r] = q
            BY <5>2, PutIs
          <5>4. q.pc = "link"
            BY <1>0, <5>2
          <5> QED BY <5>3, <5>4
        <4> QED BY <4>1, <4>2
      <3> QED BY <3>1, <3>2
    <2> QED BY <1>3, <2>1, TurnsGoOn, RedeemedStands DEF CallbackEmail, At, storeVars, linkVars, pendingVars, reqVars
  <1>4. CASE CallbackCreate(r)
    <2>1. Calm
      <3>1. CASE End(r)
        BY <3>1, PutIs DEF End, Nobody
      <3>2. CASE ~End(r)
        <4>1. PICK u : Put(r, [x EXCEPT !.pc = "link", !.user = u, !.created = TRUE])
          BY <1>4, <3>2 DEF CallbackCreate
        <4>2. PICK q : q = [x EXCEPT !.pc = "link", !.user = u, !.created = TRUE] /\ Put(r, q)
          BY <4>1
        <4>3. proc'[r] = q
          BY <4>2, PutIs
        <4>4. q.pc = "link"
          BY <1>0, <4>2
        <4> QED BY <4>3, <4>4
      <3> QED BY <3>1, <3>2
    <2> QED BY <1>4, <2>1, TurnsGoOn, RedeemedStands DEF CallbackCreate, At, storeVars, linkVars, pendingVars
  <1>5. CASE CallbackSession(r)
    <2>1. Calm
      BY <1>5, PutIs DEF CallbackSession, End, Nobody
    <2> QED BY <1>5, <2>1, TurnsGoOn, RedeemedStands DEF CallbackSession, At, storeVars, linkVars, pendingVars
  <1>6. CASE StashConflict(r)
    <2>1. Calm
      BY <1>6, PutIs DEF StashConflict, End, Nobody
    <2>2. \A k \in DOMAIN entries' : k[1] \in {"state", "token"} => k \in DOMAIN entries
      <3>1. PICK e, prv : e = proc[r].info.Email /\ prv = proc[r].provider
        OBVIOUS
      <3>2. DOMAIN entries' \subseteq DOMAIN entries \cup {PendingKey(e, prv)}
        BY <1>6, <3>1 DEF StashConflict, PendingSave, Set, pendingVars
      <3>3. PendingKey(e, prv)[1] = "pending"
        BY DEF PendingKey
      <3> QED BY <3>2, <3>3
    <2> QED BY <1>6, <2>1, <2>2, TurnsGoOn, RedeemedStands DEF StashConflict, At, linkVars, reqVars
  <1> QED BY <1>1, <1>2, <1>3, <1>4, <1>5, <1>6

\* A request that enters holds neither a nonce nor a token yet.
LEMMA EnteringTurns ==
  ASSUME OAuthAssumption, IInv, IInv', Turns, NEW r \in Requests, OthersIdle(r),
         OAuthComplete(r) \/ LinkRequestSelf(r) \/ LinkRequestAnon(r) \/ Unlink(r)
  PROVE  Turns'
  <1> DEFINE Calm == proc'[r].pc \notin {"save_link", "del_token"}
  <1>1. CASE OAuthComplete(r)
    <2>1. PICK n, prv, t :
            Put(r, [Nobody EXCEPT !.pc = IF stash THEN "get" ELSE "exchange",
                      !.key = n, !.provider = prv, !.tenant = IF stash THEN Unset ELSE t])
      BY <1>1 DEF OAuthComplete
    <2>2. PICK q : /\ q = [Nobody EXCEPT !.pc = IF stash THEN "get" ELSE "exchange",
                             !.key = n, !.provider = prv, !.tenant = IF stash THEN Unset ELSE t]
                   /\ Put(r, q)
      BY <2>1
    <2>3. q.pc \in {"get", "exchange"}
      BY <2>2 DEF Nobody
    <2>4. proc'[r] = q
      BY <2>2, PutIs
    <2> QED BY <1>1, <2>3, <2>4, TurnsGoOn, RedeemedStands
            DEF OAuthComplete, Enter, At, storeVars, linkVars, pendingVars
  <1>2. CASE LinkRequestSelf(r)
    <2>1. PICK m : Put(r, [Nobody EXCEPT !.pc = "save_token", !.meta = m])
      BY <1>2 DEF LinkRequestSelf
    <2>2. PICK q : q = [Nobody EXCEPT !.pc = "save_token", !.meta = m] /\ Put(r, q)
      BY <2>1
    <2>3. proc'[r] = q /\ q.pc = "save_token"
      BY <2>2, PutIs DEF Nobody
    <2> QED BY <1>2, <2>3, TurnsGoOn, RedeemedStands
            DEF LinkRequestSelf, Enter, At, storeVars, linkVars, pendingVars
  <1>3. CASE LinkRequestAnon(r)
    <2>1. PICK e, prv : /\ PendingGet(PendingKey(e, prv))
                        /\ \/ \E m : Put(r, [Nobody EXCEPT !.pc = "find_user", !.provider = prv, !.key = e, !.meta = m])
                           \/ End(r)
      BY <1>3 DEF LinkRequestAnon
    <2>2. Calm
      <3>1. CASE End(r)
        BY <3>1, PutIs DEF End, Nobody
      <3>2. CASE ~End(r)
        <4>1. PICK m : Put(r, [Nobody EXCEPT !.pc = "find_user", !.provider = prv, !.key = e, !.meta = m])
          BY <2>1, <3>2
        <4>2. PICK q : /\ q = [Nobody EXCEPT !.pc = "find_user", !.provider = prv, !.key = e, !.meta = m]
                       /\ Put(r, q)
          BY <4>1
        <4>3. proc'[r] = q
          BY <4>2, PutIs
        <4>4. q.pc = "find_user"
          BY <4>2 DEF Nobody
        <4> QED BY <4>3, <4>4
      <3> QED BY <3>1, <3>2
    <2>3. DOMAIN entries' \subseteq DOMAIN entries
      BY <2>1, KeysGo
    <2> QED BY <1>3, <2>2, <2>3, TurnsGoOn, RedeemedStands DEF LinkRequestAnon, Enter, At, linkVars
  <1>4. CASE Unlink(r)
    <2>1. PICK u, id, i : Put(r, [Nobody EXCEPT !.pc = "unlink", !.user = u, !.link = id, !.key = i])
      BY <1>4 DEF Unlink
    <2>2. PICK q : q = [Nobody EXCEPT !.pc = "unlink", !.user = u, !.link = id, !.key = i] /\ Put(r, q)
      BY <2>1
    <2>3. proc'[r] = q /\ q.pc = "unlink"
      BY <2>2, PutIs DEF Nobody
    <2> QED BY <1>4, <2>3, TurnsGoOn, RedeemedStands DEF Unlink, Enter, At, storeVars, linkVars, pendingVars
  <1> QED BY <1>1, <1>2, <1>3, <1>4

\* A token that is found is in the store, and this request has it.
LEMMA VerifyTurns ==
  ASSUME OAuthAssumption, IInv, IInv', Turns, NEW r \in Requests, OthersIdle(r), LinkVerify(r)
  PROVE  Turns'
  <1>1. PICK k \in 1..tokens :
          /\ PendingGet(TokenKey(k))
          /\ \/ PendingLive(TokenKey(k)) /\ \E m : Put(r, [Nobody EXCEPT !.pc = "save_link", !.key = k, !.meta = m])
             \/ End(r)
    BY DEF LinkVerify
  <1>2. DOMAIN entries' \subseteq DOMAIN entries
    BY <1>1, KeysGo
  <1>3. proc'[r].pc \in {"save_link", "del_token"} => TokenKey(proc'[r].key) \in DOMAIN entries'
    <2>1. CASE End(r)
      BY <2>1, PutIs DEF End, Nobody
    <2>2. CASE ~End(r)
      <3>1. PICK m : Put(r, [Nobody EXCEPT !.pc = "save_link", !.key = k, !.meta = m])
        BY <1>1, <2>2
      <3>2. PICK q : q = [Nobody EXCEPT !.pc = "save_link", !.key = k, !.meta = m] /\ Put(r, q)
        BY <3>1
      <3>3. proc'[r] = q /\ q.key = k
        BY <3>2, PutIs DEF Nobody
      <3>4. TokenKey(k) \in DOMAIN entries'
        BY <1>1, <2>2 DEF PendingGet, PendingLive
      <3> QED BY <3>3, <3>4
    <2> QED BY <2>1, <2>2
  <1> QED BY <1>2, <1>3, TurnsGoOn, RedeemedStands DEF LinkVerify, Enter, At, linkVars

\* The steps around a token that neither give one out nor spend it.
LEMMA LinkTurns ==
  ASSUME OAuthAssumption, IInv, IInv', Turns, NEW r \in Requests, OthersIdle(r),
         \/ LinkRequestUser(r) \/ VerifyExpired(r) \/ VerifyEnd(r) \/ UnlinkDelete(r)
  PROVE  Turns'
  <1> PICK x : x = proc[r]
    OBVIOUS
  <1>0. x = [pc |-> x.pc, key |-> x.key, provider |-> x.provider, tenant |-> x.tenant, info |-> x.info,
             user |-> x.user, meta |-> x.meta, link |-> x.link, created |-> x.created]
    BY DEF IInv, RequestsFine, RequestFine
  <1>1. CASE LinkRequestUser(r)
    <2>1. proc'[r].pc \in {"idle", "save_token"}
      <3>1. CASE End(r)
        BY <3>1, PutIs DEF End, Nobody
      <3>2. CASE ~End(r)
        <4>1. PICK m : Put(r, [x EXCEPT !.pc = "save_token", !.meta = m])
          BY <1>1, <3>2 DEF LinkRequestUser
        <4>2. PICK q : q = [x EXCEPT !.pc = "save_token", !.meta = m] /\ Put(r, q)
          BY <4>1
        <4>3. proc'[r] = q
          BY <4>2, PutIs
        <4>4. q.pc = "save_token"
          BY <1>0, <4>2
        <4> QED BY <4>3, <4>4
      <3> QED BY <3>1, <3>2
    <2> QED BY <1>1, <2>1, TurnsGoOn, RedeemedStands DEF LinkRequestUser, At, storeVars, linkVars, pendingVars, reqVars
  <1>2. CASE VerifyExpired(r)
    <2>1. proc'[r].pc = "idle"
      BY <1>2, PutIs DEF VerifyExpired, End, Nobody
    <2>2. DOMAIN entries' \subseteq DOMAIN entries
      BY <1>2, KeysGo DEF VerifyExpired
    <2> QED BY <1>2, <2>1, <2>2, TurnsGoOn, RedeemedStands DEF VerifyExpired, At, linkVars, reqVars
  <1>3. CASE VerifyEnd(r)
    <2>1. proc'[r].pc = "idle"
      BY <1>3, PutIs DEF VerifyEnd, End, Nobody
    <2>2. DOMAIN entries' \subseteq DOMAIN entries
      BY <1>3, KeysGo DEF VerifyEnd
    <2> QED BY <1>3, <2>1, <2>2, TurnsGoOn, RedeemedStands DEF VerifyEnd, At, linkVars
  <1>4. CASE UnlinkDelete(r)
    <2>1. proc'[r].pc = "idle"
      BY <1>4, PutIs DEF UnlinkDelete, End, Nobody
    <2>2. Redeemed' \subseteq Redeemed
      <3>1. \A id \in DOMAIN byID' : id \in DOMAIN byID /\ byID'[id] = byID[id]
        BY <1>4 DEF UnlinkDelete, LinkDelete, Without, linkVars
      <3> QED BY <1>4, <3>1 DEF UnlinkDelete, reqVars, Redeemed
    <2> QED BY <1>4, <2>1, <2>2, TurnsGoOn DEF UnlinkDelete, At, pendingVars, reqVars
  <1> QED BY <1>1, <1>2, <1>3, <1>4

\* A link made in a callback is not one a token made.
LEMMA CallbackLinkTurns ==
  ASSUME OAuthAssumption, IInv, IInv', Turns, NEW r \in Requests, OthersIdle(r), CallbackLink(r)
  PROVE  Turns'
  <1> PICK x : x = proc[r]
    OBVIOUS
  <1>1. proc'[r].pc = "session"
    <2>1. x = [pc |-> x.pc, key |-> x.key, provider |-> x.provider, tenant |-> x.tenant, info |-> x.info,
               user |-> x.user, meta |-> x.meta, link |-> x.link, created |-> x.created]
      BY DEF IInv, RequestsFine, RequestFine
    <2>2. PICK q : q = [x EXCEPT !.pc = "session"] /\ Put(r, q)
      BY DEF CallbackLink, Goto
    <2>3. proc'[r] = q
      BY <2>2, PutIs
    <2> QED BY <2>1, <2>2, <2>3
  <1>2. Redeemed' \subseteq Redeemed
    <2>1. PICK via : via = IF x.created THEN "create" ELSE "address"
      OBVIOUS
    <2>2. PICK l : l = NewLink(x.user, x.info.Provider, x.info.ProviderID, x.info.Email, via) /\ LinkSave(l)
      BY <2>1 DEF CallbackLink
    <2>3. /\ DOMAIN byID' = DOMAIN byID \cup {l.ID} /\ byID'[l.ID] = l
          /\ \A id \in DOMAIN byID \ {l.ID} : byID'[id] = byID[id]
      BY <2>2 DEF LinkSave, Set
    <2>4. l.via \notin {"self", "mailed"} /\ l.ID = lastLink + 1 /\ lastLink' = lastLink + 1 /\ lastLink \in Nat
      BY <2>1, <2>2 DEF NewLink, CallbackLink, IInv, ClocksFine
    <2> QED BY <2>3, <2>4 DEF Redeemed
  <1> QED BY <1>1, <1>2, TurnsGoOn DEF CallbackLink, At, pendingVars

\* A new nonce has been found by nobody.
LEMMA BeginTurns ==
  ASSUME OAuthAssumption, IInv, IInv', Turns, NEW r \in Requests, OthersIdle(r), proc[r].pc = "idle", OAuthBegin(r)
  PROVE  Turns'
  <1>1. /\ proc' = proc /\ tokens' = tokens /\ UNCHANGED <<byID, lastLink>>
        /\ used' = Append(used, 0) /\ Len(used) = Len(states) /\ used \in Seq(Nat) /\ Len(used) \in Nat
    BY LenProperties DEF OAuthBegin, linkVars, IInv, ClocksFine
  <1>2. \A k \in DOMAIN entries' : k = StateKey(Len(used) + 1) \/ k \in DOMAIN entries
    BY <1>1 DEF OAuthBegin, PendingSave, Set, pendingVars
  <1>3. DOMAIN entries \subseteq DOMAIN entries'
    BY DEF OAuthBegin, PendingSave, Set, pendingVars
  <1>4. OneAtATime' /\ TokensHeld'
    BY <1>1, <1>3 DEF Turns, OneAtATime, TokensHeld, At
  <1>5. NoncesOnce'
    <2>1. \A n : ~Deleting(n)
      BY DEF Deleting, OthersIdle, At
    <2>2. Len(used') = Len(used) + 1 /\ used'[Len(used) + 1] = 0 /\ \A n \in 1..Len(used) : used'[n] = used[n]
      BY <1>1, AppendProperties
    <2>3. ASSUME NEW n \in 1..Len(used)
          PROVE  StateKey(n) \in DOMAIN entries' => StateKey(n) \in DOMAIN entries
      <3>1. StateKey(n) # StateKey(Len(used) + 1)
        BY <1>1 DEF StateKey
      <3> QED BY <1>2, <3>1
    <2> QED BY <1>1, <2>1, <2>2, <2>3 DEF Turns, NoncesOnce
  <1>6. Unspent' \subseteq Unspent
    <2>1. \A k : TokenKey(k) \in DOMAIN entries' => TokenKey(k) \in DOMAIN entries
      <3>1. ASSUME NEW k
            PROVE  TokenKey(k) # StateKey(Len(used) + 1)
        BY DEF TokenKey, StateKey
      <3> QED BY <1>2, <3>1
    <2> QED BY <1>1, <2>1 DEF Unspent, Spending, At
  <1>7. TokensPay'
    BY <1>1, <1>6, TokensStillPay, RedeemedStands DEF Turns
  <1> QED BY <1>4, <1>5, <1>7 DEF Turns

\* A nonce that is found was not found before, and is about to be deleted.
LEMMA GetTurns ==
  ASSUME OAuthAssumption, IInv, IInv', Turns, NEW r \in Requests, OthersIdle(r), CompleteGet(r)
  PROVE  Turns'
  <1> PICK x, n : x = proc[r] /\ n = x.key
    OBVIOUS
  <1>1. /\ x.pc = "get" /\ PendingGet(StateKey(n)) /\ UNCHANGED <<linkVars, tokens, lastLink>>
        /\ \/ End(r) /\ used' = used
           \/ /\ PendingLive(StateKey(n)) /\ used' = [used EXCEPT ![n] = @ + 1]
              /\ \E t, m : Put(r, [x EXCEPT !.pc = "delete", !.tenant = t, !.meta = m])
    BY DEF CompleteGet, At
  <1>2. DOMAIN entries' \subseteq DOMAIN entries
    BY <1>1, KeysGo
  <1>3. CASE End(r) /\ used' = used
    <2>1. proc'[r].pc = "idle"
      BY <1>3, PutIs DEF End, Nobody
    <2> QED BY <1>1, <1>2, <1>3, <2>1, TurnsGoOn, RedeemedStands DEF linkVars
  <1>4. CASE ~(End(r) /\ used' = used)
    <2>1. PICK t, m : Put(r, [x EXCEPT !.pc = "delete", !.tenant = t, !.meta = m])
      BY <1>1, <1>4
    <2>2. PICK q : q = [x EXCEPT !.pc = "delete", !.tenant = t, !.meta = m] /\ Put(r, q)
      BY <2>1
    <2>3. proc'[r] = q
      BY <2>2, PutIs
    <2>4. q.pc = "delete" /\ q.key = n
      <3>1. x = [pc |-> x.pc, key |-> x.key, provider |-> x.provider, tenant |-> x.tenant, info |-> x.info,
                 user |-> x.user, meta |-> x.meta, link |-> x.link, created |-> x.created]
        BY DEF IInv, RequestsFine, RequestFine
      <3> QED BY <2>2, <3>1
    <2>5. \A i : ~Deleting(i)
      BY <1>1 DEF Deleting, OthersIdle, At
    <2>6. NoncesOnce'
      <3>1. n \in 1..Len(used) /\ used \in Seq(Nat)
        BY <1>1 DEF IInv, RequestsFine, RequestFine, ClocksFine
      <3>2. Len(used') = Len(used) /\ used'[n] = used[n] + 1 /\ \A i \in 1..Len(used) \ {n} : used'[i] = used[i]
        <4>0. used[n] \in Nat
          BY <3>1, ElementOfSeq
        <4>1. used[n] + 1 \in Nat /\ used' = [used EXCEPT ![n] = used[n] + 1]
          <5>1. used[n] + 1 \in Nat
            BY <4>0
          <5>2. used' = [used EXCEPT ![n] = used[n] + 1]
            BY <1>1, <1>4
          <5> QED BY <5>1, <5>2
        <4>2. PICK c \in Nat, i \in 1..Len(used) : c = used[n] + 1 /\ i = n
          BY <3>1, <4>1
        <4>3. /\ Len([used EXCEPT ![i] = c]) = Len(used)
              /\ \A j \in 1..Len(used) : [used EXCEPT ![i] = c][j] = IF j = i THEN c ELSE used[j]
          BY <3>1, ExceptSeq
        <4> QED BY <3>1, <4>1, <4>2, <4>3
      <3>3. used[n] = 0
        BY <1>1, <1>4, <2>5, <3>1 DEF PendingLive, Turns, NoncesOnce
      <3>4. Deleting(n)'
        BY <2>3, <2>4 DEF Deleting, At
      <3>5. ASSUME NEW i \in 1..Len(used), i # n
            PROVE  used[i] = 0 \/ (used[i] = 1 /\ StateKey(i) \notin DOMAIN entries')
        BY <1>2, <2>5, <3>5 DEF Turns, NoncesOnce
      <3> QED BY <3>2, <3>3, <3>4, <3>5 DEF NoncesOnce
    <2>7. OneAtATime' /\ TokensHeld'
      BY <2>3, <2>4 DEF OneAtATime, TokensHeld, OthersIdle, At
    <2>8. Unspent' \subseteq Unspent
      <3>1. \A k : ~Spending(k)
        BY <1>1 DEF Spending, OthersIdle, At
      <3> QED BY <1>1, <1>2, <3>1 DEF Unspent
    <2>9. TokensPay'
      BY <1>1, <2>8, TokensStillPay, RedeemedStands DEF Turns, linkVars
    <2> QED BY <2>6, <2>7, <2>9 DEF Turns
  <1> QED BY <1>3, <1>4

\* The nonce is gone before the callback goes on.
LEMMA DeleteTurns ==
  ASSUME OAuthAssumption, IInv, IInv', Turns, NEW r \in Requests, OthersIdle(r), CompleteDelete(r)
  PROVE  Turns'
  <1> PICK x, n : x = proc[r] /\ n = x.key
    OBVIOUS
  <1>1. /\ x.pc = "delete" /\ entries' = Without(entries, StateKey(n)) /\ used' = used
        /\ UNCHANGED <<linkVars, tokens, lastLink>>
    BY DEF CompleteDelete, At, PendingDelete, reqVars
  <1>2. DOMAIN entries' = DOMAIN entries \ {StateKey(n)}
    BY <1>1 DEF Without
  <1>3. proc'[r].pc = "exchange"
    <2>1. x = [pc |-> x.pc, key |-> x.key, provider |-> x.provider, tenant |-> x.tenant, info |-> x.info,
               user |-> x.user, meta |-> x.meta, link |-> x.link, created |-> x.created]
      BY DEF IInv, RequestsFine, RequestFine
    <2>2. PICK q : q = [x EXCEPT !.pc = "exchange"] /\ Put(r, q)
      BY DEF CompleteDelete, Goto
    <2>3. proc'[r] = q
      BY <2>2, PutIs
    <2> QED BY <2>1, <2>2, <2>3
  <1>4. NoncesOnce'
    <2>1. \A i : Deleting(i) => i = n
      BY DEF Deleting, OthersIdle, At
    <2> QED BY <1>1, <1>2, <2>1 DEF NoncesOnce, Turns
  <1>5. OneAtATime' /\ TokensHeld'
    BY <1>3 DEF OneAtATime, TokensHeld, OthersIdle, At
  <1>6. Unspent' \subseteq Unspent
    <2>1. \A k : ~Spending(k)
      BY <1>1 DEF Spending, OthersIdle, At
    <2> QED BY <1>1, <1>2, <2>1 DEF Unspent
  <1>7. TokensPay'
    BY <1>1, <1>6, TokensStillPay, RedeemedStands DEF Turns, linkVars
  <1> QED BY <1>4, <1>5, <1>7 DEF Turns

\* One more token given out, one more that can be spent.
LEMMA IssueTurns ==
  ASSUME OAuthAssumption, IInv, IInv', Turns, NEW r \in Requests, OthersIdle(r), LinkRequestSave(r)
  PROVE  Turns'
  <1>1. /\ proc[r].pc = "save_token" /\ tokens' = tokens + 1 /\ used' = used /\ UNCHANGED <<byID, lastLink>>
        /\ proc'[r].pc = "idle"
    BY PutIs DEF LinkRequestSave, At, End, Nobody, linkVars
  <1>2. DOMAIN entries' = DOMAIN entries \cup {TokenKey(tokens + 1)}
    BY DEF LinkRequestSave, PendingSave, Set
  <1>3. OneAtATime' /\ TokensHeld'
    BY <1>1 DEF OneAtATime, TokensHeld, OthersIdle, At
  <1>4. NoncesOnce'
    <2>1. \A n : ~Deleting(n)
      BY <1>1 DEF Deleting, OthersIdle, At
    <2>2. ASSUME NEW n
          PROVE  StateKey(n) # TokenKey(tokens + 1)
      BY DEF TokenKey, StateKey
    <2> QED BY <1>1, <1>2, <2>1, <2>2 DEF Turns, NoncesOnce
  <1>5. TokensPay'
    <2>1. Unspent' \subseteq Unspent \cup {tokens + 1}
      <3>1. \A k : ~Spending(k)
        BY <1>1 DEF Spending, OthersIdle, At
      <3>2. ASSUME NEW k \in Unspent', k # tokens + 1
            PROVE  k \in Unspent
        <4>1. k \in 1..tokens /\ TokenKey(k) \in DOMAIN entries'
          BY <1>1, <3>2 DEF Unspent, IInv, ClocksFine
        <4>2. TokenKey(k) # TokenKey(tokens + 1)
          BY <3>2 DEF TokenKey
        <4> QED BY <1>2, <3>1, <4>1, <4>2 DEF Unspent
      <3> QED BY <3>2
    <2>2. PICK A, B, C, D, n : A = Redeemed /\ B = Unspent /\ C = Redeemed' /\ D = Unspent' /\ n = tokens + 1
      OBVIOUS
    <2>3. IsFiniteSet(A) /\ IsFiniteSet(B) /\ C \subseteq A /\ D \subseteq B \cup {n}
      BY <1>1, <2>1, <2>2, Counted, RedeemedStands
    <2>4. IsFiniteSet(B \cup {n}) /\ Cardinality(B \cup {n}) <= Cardinality(B) + 1 /\ Cardinality(B) \in Nat
      <3>1. /\ IsFiniteSet(B \cup {n})
            /\ Cardinality(B \cup {n}) = IF n \in B THEN Cardinality(B) ELSE Cardinality(B) + 1
        BY <2>3, FS_AddElement
      <3>2. Cardinality(B) \in Nat
        BY <2>3, FS_CardinalityType
      <3> QED BY <3>1, <3>2
    <2>5. IsFiniteSet(C) /\ Cardinality(C) <= Cardinality(A) /\ IsFiniteSet(D) /\ Cardinality(D) <= Cardinality(B \cup {n})
      BY <2>3, <2>4, FS_Subset
    <2>6. /\ Cardinality(A) \in Nat /\ Cardinality(B \cup {n}) \in Nat
          /\ Cardinality(C) \in Nat /\ Cardinality(D) \in Nat
      BY <2>3, <2>4, <2>5, FS_CardinalityType
    <2>7. Cardinality(A) + Cardinality(B) <= tokens /\ tokens \in Nat
      BY <2>2 DEF TokensPay, Turns, IInv, ClocksFine
    <2>8. Cardinality(C) + Cardinality(D) <= tokens'
      BY <1>1, <2>4, <2>5, <2>6, <2>7
    <2> QED BY <2>2, <2>8 DEF TokensPay
  <1> QED BY <1>3, <1>4, <1>5 DEF Turns

\* One more link made with a token, one less that can be spent.
LEMMA SaveTurns ==
  ASSUME OAuthAssumption, IInv, IInv', Turns, NEW r \in Requests, OthersIdle(r), VerifySave(r)
  PROVE  Turns'
  <1> PICK x : x = proc[r]
    OBVIOUS
  <1>1. /\ x.pc = "save_link" /\ tokens' = tokens /\ used' = used /\ lastLink' = lastLink + 1
        /\ entries' = entries /\ x.key \in 1..tokens /\ TokenKey(x.key) \in DOMAIN entries
    BY DEF VerifySave, At, pendingVars, Turns, TokensHeld, IInv, RequestsFine, RequestFine
  <1>2. proc'[r].pc = "del_token" /\ proc'[r].key = x.key
    <2>1. x = [pc |-> x.pc, key |-> x.key, provider |-> x.provider, tenant |-> x.tenant, info |-> x.info,
               user |-> x.user, meta |-> x.meta, link |-> x.link, created |-> x.created]
      BY DEF IInv, RequestsFine, RequestFine
    <2>2. PICK q : q = [x EXCEPT !.pc = "del_token"] /\ Put(r, q)
      BY DEF VerifySave, Goto
    <2>3. proc'[r] = q
      BY <2>2, PutIs
    <2> QED BY <2>1, <2>2, <2>3
  <1>3. OneAtATime' /\ TokensHeld'
    BY <1>1, <1>2 DEF OneAtATime, TokensHeld, OthersIdle, At
  <1>4. NoncesOnce'
    <2>1. \A n : ~Deleting(n)
      BY <1>1 DEF Deleting, OthersIdle, At
    <2> QED BY <1>1, <2>1 DEF Turns, NoncesOnce
  <1>5. TokensPay'
    <2>1. Redeemed' \subseteq Redeemed \cup {lastLink + 1}
      <3>1. \A id \in DOMAIN byID' : id = lastLink + 1 \/ (id \in DOMAIN byID /\ byID'[id] = byID[id])
        BY DEF VerifySave, LinkSave, NewLink, Set
      <3> QED BY <1>1, <3>1 DEF Redeemed, IInv, ClocksFine
    <2>2. Unspent' \subseteq Unspent \ {x.key} /\ x.key \in Unspent
      <3>1. \A k : ~Spending(k)
        BY <1>1 DEF Spending, OthersIdle, At
      <3>2. Spending(x.key)'
        BY <1>2 DEF Spending, At
      <3> QED BY <1>1, <3>1, <3>2 DEF Unspent
    <2>3. PICK A, B, C, D, n, k : /\ A = Redeemed /\ B = Unspent /\ C = Redeemed' /\ D = Unspent'
                                  /\ n = lastLink + 1 /\ k = x.key
      OBVIOUS
    <2>4. IsFiniteSet(A) /\ IsFiniteSet(B) /\ C \subseteq A \cup {n} /\ D \subseteq B \ {k} /\ k \in B
      BY <2>1, <2>2, <2>3, Counted
    <2>5. /\ IsFiniteSet(A \cup {n}) /\ Cardinality(A \cup {n}) <= Cardinality(A) + 1 /\ Cardinality(A) \in Nat
          /\ IsFiniteSet(B \ {k}) /\ Cardinality(B \ {k}) = Cardinality(B) - 1 /\ Cardinality(B) \in Nat
      <3>1. /\ IsFiniteSet(A \cup {n})
            /\ Cardinality(A \cup {n}) = IF n \in A THEN Cardinality(A) ELSE Cardinality(A) + 1
        BY <2>4, FS_AddElement
      <3>2. IsFiniteSet(B \ {k}) /\ Cardinality(B \ {k}) = Cardinality(B) - 1
        BY <2>4, FS_RemoveElement
      <3>3. Cardinality(A) \in Nat /\ Cardinality(B) \in Nat
        BY <2>4, FS_CardinalityType
      <3> QED BY <3>1, <3>2, <3>3
    <2>6. /\ IsFiniteSet(C) /\ Cardinality(C) <= Cardinality(A \cup {n})
          /\ IsFiniteSet(D) /\ Cardinality(D) <= Cardinality(B \ {k})
      BY <2>4, <2>5, FS_Subset
    <2>7. /\ Cardinality(A \cup {n}) \in Nat /\ Cardinality(B \ {k}) \in Nat
          /\ Cardinality(C) \in Nat /\ Cardinality(D) \in Nat
      BY <2>5, <2>6, FS_CardinalityType
    <2>8. Cardinality(A) + Cardinality(B) <= tokens /\ tokens \in Nat
      BY <2>3 DEF TokensPay, Turns, IInv, ClocksFine
    <2>9. Cardinality(C) + Cardinality(D) <= tokens'
      BY <1>1, <2>5, <2>6, <2>7, <2>8
    <2> QED BY <2>3, <2>9 DEF TokensPay
  <1> QED BY <1>3, <1>4, <1>5 DEF Turns

\* The token that made a link goes; it could not be spent any more.
LEMMA SpendTurns ==
  ASSUME OAuthAssumption, IInv, IInv', Turns, NEW r \in Requests, OthersIdle(r), VerifyDelete(r)
  PROVE  Turns'
  <1> PICK x : x = proc[r]
    OBVIOUS
  <1>1. /\ x.pc = "del_token" /\ tokens' = tokens /\ used' = used /\ UNCHANGED <<byID, lastLink>>
        /\ entries' = Without(entries, TokenKey(x.key))
    BY DEF VerifyDelete, At, PendingDelete, linkVars, reqVars
  <1>2. proc'[r].pc = "del_pending"
    <2>1. x = [pc |-> x.pc, key |-> x.key, provider |-> x.provider, tenant |-> x.tenant, info |-> x.info,
               user |-> x.user, meta |-> x.meta, link |-> x.link, created |-> x.created]
      BY DEF IInv, RequestsFine, RequestFine
    <2>2. PICK q : q = [x EXCEPT !.pc = "del_pending"] /\ Put(r, q)
      BY DEF VerifyDelete, Goto
    <2>3. proc'[r] = q
      BY <2>2, PutIs
    <2> QED BY <2>1, <2>2, <2>3
  <1>3. DOMAIN entries' = DOMAIN entries \ {TokenKey(x.key)}
    BY <1>1 DEF Without
  <1>4. OneAtATime' /\ TokensHeld'
    BY <1>2 DEF OneAtATime, TokensHeld, OthersIdle, At
  <1>5. NoncesOnce'
    <2>1. \A n : ~Deleting(n)
      BY <1>1 DEF Deleting, OthersIdle, At
    <2> QED BY <1>1, <1>3, <2>1 DEF Turns, NoncesOnce
  <1>6. Unspent' \subseteq Unspent
    <2>1. \A k : Spending(k) => k = x.key
      BY DEF Spending, OthersIdle, At
    <2> QED BY <1>1, <1>3, <2>1 DEF Unspent
  <1>7. TokensPay'
    BY <1>1, <1>6, TokensStillPay, RedeemedStands DEF Turns
  <1> QED BY <1>4, <1>5, <1>7 DEF Turns

\* Everything request r may do.
Turn(r) ==
  \/ OAuthBegin(r) \/ OAuthComplete(r) \/ LinkRequestSelf(r) \/ LinkRequestAnon(r)
  \/ LinkVerify(r) \/ Unlink(r) \/ CallbackStep(r) \/ LinkStep(r)

\* A step of a request enters when it is idle, or goes on, and moves no other request.
LEMMA TurnShape ==
  ASSUME IInv, NEW r \in Requests, Turn(r)
  PROVE  /\ Enter(r) \/ (proc[r].pc # "idle" /\ overlap' = overlap)
         /\ proc' = proc \/ \E q : Put(r, q)
         /\ stash' = stash
  <1> USE DEF Enter, At, End, Goto, reqVars
  <1>1. ASSUME CallbackStep(r)
        PROVE  /\ proc[r].pc # "idle" /\ overlap' = overlap /\ stash' = stash
               /\ \E q : Put(r, q)
    <2>1. CASE CompleteGet(r) \/ CompleteDelete(r)
      BY <2>1 DEF CompleteGet, CompleteDelete
    <2>2. CASE CompleteExchange(r) \/ CallbackFind(r)
      BY <2>2 DEF CompleteExchange, CallbackFind
    <2>3. CASE CallbackEmail(r)
      BY <2>3 DEF CallbackEmail, IInv, PolicyFine
    <2>4. CASE CallbackCreate(r)
      BY <2>4 DEF CallbackCreate
    <2>5. CASE CallbackLink(r) \/ CallbackSession(r) \/ StashConflict(r)
      BY <2>5 DEF CallbackLink, CallbackSession, StashConflict
    <2> QED BY <1>1, <2>1, <2>2, <2>3, <2>4, <2>5 DEF CallbackStep
  <1>2. ASSUME LinkStep(r)
        PROVE  /\ proc[r].pc # "idle" /\ overlap' = overlap /\ stash' = stash
               /\ \E q : Put(r, q)
    BY <1>2 DEF LinkStep, LinkRequestUser, LinkRequestSave, VerifyExpired, VerifySave, VerifyDelete, VerifyEnd, UnlinkDelete
  <1>3. CASE OAuthBegin(r)
    BY <1>3 DEF OAuthBegin
  <1>4. CASE OAuthComplete(r)
    BY <1>4 DEF OAuthComplete
  <1>5. CASE LinkRequestSelf(r) \/ LinkRequestAnon(r)
    BY <1>5 DEF LinkRequestSelf, LinkRequestAnon
  <1>6. CASE LinkVerify(r) \/ Unlink(r)
    BY <1>6 DEF LinkVerify, Unlink
  <1> QED BY <1>1, <1>2, <1>3, <1>4, <1>5, <1>6 DEF Turn

\* While requests take turns, each step keeps what single use rests on.
LEMMA OneTurn ==
  ASSUME OAuthAssumption, IInv, IInv', InTurns, NEW r \in Requests, Turn(r)
  PROVE  InTurns'
  <1> SUFFICES ASSUME stash', ~overlap' PROVE Turns'
    BY DEF InTurns
  <1>1. Turns
    BY TurnShape DEF Enter, InTurns
  <1>2. OthersIdle(r)
    <2>1. \A q \in Requests \ {r} : proc[q].pc = "idle"
      BY <1>1, TurnShape DEF Enter, At, Turns, OneAtATime
    <2>2. \A q \in Requests \ {r} : proc'[q] = proc[q]
      BY TurnShape, PutIs
    <2> QED BY <2>1, <2>2 DEF OthersIdle
  <1>3. CASE OAuthBegin(r)
    BY <1>1, <1>2, <1>3, BeginTurns DEF OAuthBegin, Enter, At
  <1>4. CASE CallbackStep(r)
    BY <1>1, <1>2, <1>4, CallbackTurns, CallbackLinkTurns, GetTurns, DeleteTurns DEF CallbackStep
  <1>5. CASE LinkStep(r)
    BY <1>1, <1>2, <1>5, LinkTurns, IssueTurns, SaveTurns, SpendTurns DEF LinkStep
  <1> QED BY <1>1, <1>2, <1>3, <1>4, <1>5, EnteringTurns, VerifyTurns DEF Turn

\* Time passing spends nothing.
LEMMA NothingTurns ==
  ASSUME IInv, IInv', InTurns, Tick \/ UNCHANGED vars
  PROVE  InTurns'
  <1> SUFFICES ASSUME stash', ~overlap' PROVE Turns'
    BY DEF InTurns
  <1>1. Turns /\ UNCHANGED <<byID, lastLink, entries, used, proc, tokens>>
    BY DEF Tick, InTurns, vars, storeVars, linkVars, pendingVars, reqVars
  <1>2. OneAtATime' /\ NoncesOnce' /\ TokensHeld'
    BY <1>1 DEF Turns, OneAtATime, NoncesOnce, TokensHeld, Deleting, At
  <1>3. Unspent' \subseteq Unspent
    BY <1>1 DEF Unspent, Spending, At
  <1>4. TokensPay'
    BY <1>1, <1>3, TokensStillPay, RedeemedStands DEF Turns
  <1> QED BY <1>2, <1>4 DEF Turns

\* At the start nothing has been given out.
LEMMA InitTurns ==
  ASSUME OAuthAssumption, Init
  PROVE  InTurns
  <1>1. Len(used) = 0 /\ tokens = 0 /\ lastLink = 0
    BY EmptySeq DEF Init
  <1>2. OneAtATime /\ NoncesOnce /\ TokensHeld
    BY <1>1 DEF Init, Nobody, OneAtATime, NoncesOnce, TokensHeld, At
  <1>3. Redeemed = {} /\ Unspent = {}
    BY <1>1 DEF Redeemed, Unspent
  <1>4. TokensPay
    BY <1>1, <1>3, FS_EmptySet DEF TokensPay
  <1> QED BY <1>2, <1>4 DEF InTurns, Turns

\* Together with the invariant, the accounting of nonces and tokens holds throughout.
THEOREM TurnsAreTaken == Spec => [](IInv /\ InTurns)
  <1>1. Init => IInv /\ InTurns
    BY OAuthAssumption, InitFine, InitTurns
  <1>2. IInv /\ InTurns /\ [Next]_vars => (IInv /\ InTurns)'
    <2> SUFFICES ASSUME IInv, InTurns, [Next]_vars PROVE IInv' /\ InTurns'
      OBVIOUS
    <2>1. IInv'
      BY OAuthAssumption, NextKeeps
    <2>2. (\E r \in Requests : Turn(r)) \/ Tick \/ UNCHANGED vars
      BY DEF Next, Turn
    <2> QED BY <2>1, <2>2, OAuthAssumption, OneTurn, NothingTurns
  <1> QED BY <1>1, <1>2, PTL DEF Spec

\* A state nonce serves the provider it was minted for; nonces and link tokens serve once while requests do not overlap.
THEOREM NoncesAlwaysHonoured == Spec => []NoncesAreHonoured
  <1>1. IInv => StateIsForProvider
    BY DEF IInv, RequestsFine, RequestFine, Callback, Known, StateIsForProvider
  <1>2. IInv /\ InTurns => SingleUse
    <2> SUFFICES ASSUME IInv, InTurns, stash, ~overlap
                 PROVE  (\A n \in DOMAIN used : used[n] <= 1) /\ Cardinality(Redeemed) <= tokens
      BY DEF SingleUse, Redeemed
    <2>1. Turns
      BY DEF InTurns
    <2>2. \A n \in DOMAIN used : used[n] <= 1
      <3>1. DOMAIN used = 1..Len(used)
        BY DEF IInv, ClocksFine
      <3> QED BY <2>1, <3>1 DEF Turns, NoncesOnce
    <2>3. Cardinality(Redeemed) <= tokens
      <3>1. PICK A, B : A = Redeemed /\ B = Unspent
        OBVIOUS
      <3>2. Cardinality(A) \in Nat /\ Cardinality(B) \in Nat
        BY <3>1, Counted, FS_CardinalityType
      <3> QED BY <2>1, <3>1, <3>2 DEF Turns, TokensPay, IInv, ClocksFine
    <2> QED BY <2>2, <2>3
  <1> QED BY <1>1, <1>2, TurnsAreTaken, PTL DEF NoncesAreHonoured
=============================================================================
