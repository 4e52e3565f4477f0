--------------------------- MODULE AccountService ---------------------------
(***************************************************************************)
(* The account half of Service (service.go, wire_password_email.go,        *)
(* password_verifier.go) over MemoryUserStore: registration, the five      *)
(* flows that mail or text a token and later redeem it, password changes   *)
(* and the migration of a password at login.  Requests are goroutines, cut *)
(* at their store calls as in SessionService.                              *)
(*                                                                         *)
(* A sent token reaches the address it is addressed to or nobody: whether  *)
(* the sender succeeds changes only the answer, never the store, so        *)
(* delivery is part of the step that stores the token.  Sessions opened at *)
(* the end of a flow are SessionService's; strength of a password and the  *)
(* hash function are left out.                                             *)
(***************************************************************************)
EXTENDS MemoryUserStore

CONSTANTS Requests,        \* concurrent calls into the service
          Features,        \* the kinds the host has configured a store and sender for
          TTL,             \* TTL[k]: ResetTokenTTL, MagicLinkTTL, ...
          ClockSkew,       \* Config.ClockSkew
          AutoVerify,      \* Config.EmailVerificationMode = "none"
          LegacyPassword,  \* what the host's PasswordVerifier answers ok to
          MaxTime          \* bound: the clock stops here

ASSUME AccountAssumption ==
  /\ Features \subseteq Kinds
  /\ TTL \in [Kinds -> Nat]
  /\ ClockSkew \in Nat /\ MaxTime \in Nat
  /\ AutoVerify \in BOOLEAN
  /\ LegacyPassword \in Passwords
  /\ Passwords \cap {"none", "marker"} = {}
  /\ Blank \notin Emails

VARIABLES
  now,     \* the clock behind Service.now
  call,    \* call[r]: where request r is and what it has read
  origin,  \* history: origin[u]: the address u was created with; Blank if never
  issued,  \* history: issued[t]: what token t was sent for
  spent,   \* history: tokens some request has redeemed to the end
  reused   \* history: ... more than once

history == <<origin, issued, spent, reused>>
vars    == <<storeVars, now, call, history>>

Issue    == [kind : Kinds, user : UserIDs, to : Addresses, exp : Int]
NoIssue  == [kind |-> "none"]
Known(t) == issued[t] # NoIssue
Fresh(u) == origin[u] = Blank

\* A request: the store call it makes next, the kind of token it sends or
\* redeems, the user it read, the token and address it was given, and, for a
\* magic link, whether the address is still to be marked verified.  A password
\* it was given is chosen in the step that stores it.
Steps == {"idle", "create", "send", "redeem", "clear", "mark", "setPassword",
          "initialPassword", "migrate"}
Call  == [step : Steps, kind : Kinds, user : UserIDs \cup {NoID},
          tok : Tokens \cup {NoToken}, addr : Addresses, mark : BOOLEAN]
Idle  == [step |-> "idle", kind |-> "reset", user |-> NoID, tok |-> NoToken,
          addr |-> Blank, mark |-> FALSE]
Sending(k, u, addr) ==
  [step |-> "send", kind |-> k, user |-> u, tok |-> NoToken,
   addr |-> addr, mark |-> FALSE]
Redeeming(step, k, u, t, mark) ==
  [step |-> step, kind |-> k, user |-> u, tok |-> t, addr |-> Blank, mark |-> mark]
Setting(step, u, addr) ==
  [step |-> step, kind |-> "reset", user |-> u, tok |-> NoToken,
   addr |-> addr, mark |-> FALSE]

TypeOK ==
  /\ StoreTypeOK
  /\ now \in Nat
  /\ call \in [Requests -> Call]
  /\ origin \in [UserIDs -> Addresses]
  /\ issued \in [Tokens -> Issue \cup {NoIssue}]
  /\ spent \subseteq Tokens
  /\ reused \subseteq spent

Init ==
  /\ StoreInit
  /\ now = 0
  /\ call = [r \in Requests |-> Idle]
  /\ origin = [u \in UserIDs |-> Blank]
  /\ issued = [t \in Tokens |-> NoIssue]
  /\ spent = {}
  /\ reused = {}

At(r, step)   == call[r].step = step
Goto(r, next) == call' = [call EXCEPT ![r] = next]
Finish(r)     == Goto(r, Idle)
Local         == UNCHANGED <<storeVars, now, history>>
Fail(r)       == Finish(r) /\ Local

(***************************************************************************)
(* Register: the address is looked up, and checked again by CreateUser.    *)
(***************************************************************************)
RegisterLookup(r) == \E e \in Emails :
  /\ At(r, "idle")
  /\ GetUserByEmail(e) = NoID
  /\ Goto(r, Setting("create", NoID, e))
  /\ Local

\* Broken variant: registration vouches for the address whatever the mode.
RegisterCreateVerified(r) == \E u \in UserIDs, p \in Passwords :
  /\ At(r, "create")
  /\ Fresh(u)
  /\ CreateUser(u, call[r].addr, p, TRUE)
  /\ origin' = [origin EXCEPT ![u] = call[r].addr]
  /\ Finish(r)
  /\ UNCHANGED <<now, issued, spent, reused>>

RegisterCreate(r) == \E u \in UserIDs, p \in Passwords :
  /\ At(r, "create")
  /\ Fresh(u)
  /\ CreateUser(u, call[r].addr, p, AutoVerify)
  /\ origin' = [origin EXCEPT ![u] = call[r].addr]
  /\ Finish(r)
  /\ UNCHANGED <<now, issued, spent, reused>>

RegisterFail(r) ==
  /\ At(r, "create") /\ GetUserByEmail(call[r].addr) # NoID
  /\ Fail(r)

\* The host creates an account itself: one without a password, for an
\* identity provider's user, or one with a marker, to be migrated.
ImportUser == \E u \in UserIDs, e \in Emails, p \in {"none", "marker"} :
  /\ Fresh(u)
  /\ CreateUser(u, e, p, AutoVerify)
  /\ origin' = [origin EXCEPT ![u] = e]
  /\ UNCHANGED <<now, call, issued, spent, reused>>

\* The last step of DeleteAccount.
DeleteAccount == \E u \in users :
  /\ DeleteUser(u)
  /\ UNCHANGED <<now, call, history>>

(***************************************************************************)
(* ForgotPassword, SendMagicLink, SendSMSCode, SendVerificationEmailToken  *)
(* and RequestEmailChange: read the user, mint a token, store it over the  *)
(* outstanding one and send it.  The first four send to the address read;  *)
(* an email change sends to the new one, which nobody may hold when the    *)
(* request starts.                                                         *)
(***************************************************************************)
SendLookup(r) == \E k \in Features \ {"change"}, u \in users :
  /\ At(r, "idle")
  /\ k = "verify" => ~verified[u]
  /\ Goto(r, Sending(k, u, email[u]))
  /\ Local

RequestEmailChange(r) == \E u \in users, e \in Addresses :
  /\ At(r, "idle")
  /\ "change" \in Features
  /\ GetUserByEmail(e) = NoID
  /\ Goto(r, Sending("change", u, e))
  /\ Local

\* Broken variants: the token goes to the account's current address, and a
\* token is minted twice.
SendStoreToCurrent(r) == \E t \in Tokens :
  /\ At(r, "send")
  /\ ~Known(t)
  /\ UpdateToken(call[r].kind, call[r].user, t, now + TTL[call[r].kind], call[r].addr)
  /\ issued' = [issued EXCEPT ![t] = [kind |-> call[r].kind, user |-> call[r].user,
                                      to |-> email[call[r].user],
                                      exp |-> now + TTL[call[r].kind]]]
  /\ Finish(r)
  /\ UNCHANGED <<now, origin, spent, reused>>
SendStoreRepeats(r) == \E t \in Tokens :
  /\ At(r, "send")
  /\ UpdateToken(call[r].kind, call[r].user, t, now + TTL[call[r].kind], call[r].addr)
  /\ issued' = [issued EXCEPT ![t] = [kind |-> call[r].kind, user |-> call[r].user,
                                      to |-> call[r].addr, exp |-> now + TTL[call[r].kind]]]
  /\ Finish(r)
  /\ UNCHANGED <<now, origin, spent, reused>>

SendStore(r) == \E t \in Tokens :
  /\ At(r, "send")
  /\ ~Known(t)
  /\ UpdateToken(call[r].kind, call[r].user, t, now + TTL[call[r].kind], call[r].addr)
  /\ issued' = [issued EXCEPT ![t] = [kind |-> call[r].kind, user |-> call[r].user,
                                      to |-> call[r].addr, exp |-> now + TTL[call[r].kind]]]
  /\ Finish(r)
  /\ UNCHANGED <<now, origin, spent, reused>>

\* The user is gone.
SendFail(r) ==
  /\ At(r, "send") /\ call[r].user \notin users
  /\ Fail(r)

(***************************************************************************)
(* Redeeming a token: read the user it leads to and check the expiry the   *)
(* user's record has.  ResetPassword, VerifyEmail and ConfirmEmailChange   *)
(* then do what the token is for and clear it; VerifyMagicLink and         *)
(* VerifySMSCode clear it first.                                           *)
(***************************************************************************)
NotExpired(k, u) == expiry[k][u] # NoExpiry /\ now <= expiry[k][u] + ClockSkew

FirstStep(k) == IF k \in {"magic", "sms"} THEN "clear" ELSE "redeem"

\* A magic link redeemed as a second factor does not mark the address.
RedeemLookup(r) ==
  \E k \in Features, t \in Tokens : \E u \in GetUserByToken(k, t), mark \in BOOLEAN :
    /\ At(r, "idle")
    /\ NotExpired(k, u)
    /\ mark => k = "magic" /\ ~verified[u]
    /\ Goto(r, Redeeming(FirstStep(k), k, u, t, mark))
    /\ Local

ResetPassword(r) == \E p \in Passwords :
  /\ At(r, "redeem") /\ call[r].kind = "reset"
  /\ UpdatePassword(call[r].user, p)
  /\ Goto(r, [call[r] EXCEPT !.step = "clear"])
  /\ UNCHANGED <<now, history>>

VerifyEmail(r) ==
  /\ At(r, "redeem") /\ call[r].kind = "verify"
  /\ MarkEmailVerified(call[r].user)
  /\ Goto(r, [call[r] EXCEPT !.step = "clear"])
  /\ UNCHANGED <<now, history>>

ConfirmEmailChange(r) ==
  /\ At(r, "redeem") /\ call[r].kind = "change"
  /\ ApplyEmailChange(call[r].user)
  /\ Goto(r, [call[r] EXCEPT !.step = "clear"])
  /\ UNCHANGED <<now, history>>

\* The user is gone, or somebody took the pending address.
RedeemFail(r) ==
  /\ At(r, "redeem")
  /\ \/ call[r].user \notin users
     \/ call[r].kind = "change" /\ byEmail[pending[call[r].user]] # NoID
  /\ Fail(r)

RedeemClear(r) ==
  /\ At(r, "clear")
  /\ ClearToken(call[r].kind, call[r].user)
  /\ spent' = spent \cup {call[r].tok}
  /\ reused' = IF call[r].tok \in spent THEN reused \cup {call[r].tok} ELSE reused
  /\ IF call[r].mark THEN Goto(r, [call[r] EXCEPT !.step = "mark"]) ELSE Finish(r)
  /\ UNCHANGED <<now, origin, issued>>

ClearFail(r) ==
  /\ At(r, "clear") /\ call[r].user \notin users
  /\ Fail(r)

\* A magic link proves the address; an error is ignored.
MagicLinkMark(r) ==
  /\ At(r, "mark")
  /\ IF call[r].user \in users THEN MarkEmailVerified(call[r].user)
                               ELSE UNCHANGED storeVars
  /\ Finish(r)
  /\ UNCHANGED <<now, history>>

(***************************************************************************)
(* ChangePassword: with the current password or, where the account has     *)
(* none, without.  Login hands a password that does not verify to the      *)
(* host's PasswordVerifier, which answers for accounts carrying the marker *)
(* it is required to key on, and stores the hash of a password it accepts. *)
(***************************************************************************)
ChangePassword(r) == \E u \in users :
  /\ At(r, "idle")
  /\ password[u] \in Passwords
  /\ Goto(r, Setting("setPassword", u, Blank))
  /\ Local

\* Broken variant: any account may set a password without the current one.
InitialPasswordAny(r) == \E u \in users :
  /\ At(r, "idle")
  /\ Goto(r, Setting("initialPassword", u, Blank))
  /\ Local

InitialPassword(r) == \E u \in users :
  /\ At(r, "idle")
  /\ password[u] = "none"
  /\ Goto(r, Setting("initialPassword", u, Blank))
  /\ Local

LoginVerify(r) == \E u \in users :
  /\ At(r, "idle")
  /\ password[u] = "marker"
  /\ Goto(r, Setting("migrate", u, Blank))
  /\ Local

SettingSteps == {"setPassword", "initialPassword", "migrate"}

SetPassword(r) == \E p \in Passwords :
  /\ call[r].step \in SettingSteps
  /\ At(r, "migrate") => p = LegacyPassword
  /\ UpdatePassword(call[r].user, p)
  /\ Finish(r)
  /\ UNCHANGED <<now, history>>

SetPasswordFail(r) ==
  /\ call[r].step \in SettingSteps /\ call[r].user \notin users
  /\ Fail(r)

Tick ==
  /\ now < MaxTime
  /\ now' = now + 1
  /\ UNCHANGED <<storeVars, call, history>>

Next ==
  \/ Tick \/ ImportUser \/ DeleteAccount
  \/ \E r \in Requests :
       \/ RegisterLookup(r) \/ RegisterCreate(r) \/ RegisterFail(r)
       \/ SendLookup(r) \/ RequestEmailChange(r) \/ SendStore(r) \/ SendFail(r)
       \/ RedeemLookup(r) \/ ResetPassword(r) \/ VerifyEmail(r) \/ ConfirmEmailChange(r)
       \/ RedeemFail(r) \/ RedeemClear(r) \/ ClearFail(r) \/ MagicLinkMark(r)
       \/ ChangePassword(r) \/ InitialPassword(r) \/ LoginVerify(r)
       \/ SetPassword(r) \/ SetPasswordFail(r)

Spec == Init /\ [][Next]_vars

(***************************************************************************)
(* Properties.                                                             *)
(***************************************************************************)

\* The address index and the table agree in both directions, so no two
\* accounts share an address, however registrations, changes of address and
\* deletions overlap (memory_store.go CreateUser, ApplyEmailChange, DeleteUser).
EmailIndexConsistent ==
  \A e \in Addresses, u \in UserIDs : byEmail[e] = u <=> u \in users /\ email[u] = e

\* Each token index and the table agree in both directions.  A token leads to
\* a user through the index alone, and nothing compares it with the record.
TokenIndexConsistent ==
  \A k \in Indexed, t \in Tokens, u \in UserIDs :
    byToken[k][t] = u <=> u \in users /\ hash[k][u] = t

\* The token a user has outstanding was sent for that user and that purpose,
\* and the expiry in the record is its own, not that of a token it replaced.
TokenMatchesIssue ==
  \A k \in Kinds, u \in users : hash[k][u] # NoToken =>
    LET i == issued[hash[k][u]] IN
      i # NoIssue /\ i.kind = k /\ i.user = u /\ i.exp = expiry[k][u]

\* What every redemption relies on when it follows a token: the state has its
\* type, both indexes agree with the table, and a record is its token's own.
StoreConsistent ==
  TypeOK /\ EmailIndexConsistent /\ TokenIndexConsistent /\ TokenMatchesIssue

Outstanding(t) == \E k \in Kinds, u \in users : hash[k][u] = t

\* Whoever finishes redeeming a token, it is out of the store from then on.
SpentTokenRefused == \A t \in spent : ~Outstanding(t)

\* A token that was replaced, redeemed or deleted with its user never comes
\* back, whatever a request that read the user earlier writes.
DeadTokenStaysDead ==
  [][\A t \in Tokens : Known(t) /\ ~Outstanding(t) => ~Outstanding(t)']_vars

\* A request only gets to redeem a token before the expiry it was sent with.
ExpiryHonoured ==
  [][\A r \in Requests :
       At(r, "idle") /\ call'[r].tok # NoToken =>
         now <= issued[call'[r].tok].exp + ClockSkew]_vars

\* An old token is worth nothing: neither one that was replaced or redeemed,
\* nor one past its expiry (memory_store.go:134, service.go:528).
OldTokensAreRefused == DeadTokenStaysDead /\ ExpiryHonoured

\* An account's address is the one it was created with, or one an email-change
\* token for this very account was sent to, or blank.
AddressWasSentTo ==
  \A u \in users :
    \/ email[u] \in {origin[u], Blank}
    \/ \E t \in Tokens : Known(t) /\ issued[t].kind = "change"
                          /\ issued[t].user = u /\ issued[t].to = email[u]

\* A token serves once, and only its own account: the address it moves there is
\* the one it was sent to (memory_store.go:394, service.go:885).
TokenServesOnceAsSent == SpentTokenRefused /\ AddressWasSentTo

Presented(t) == t \in spent \/ \E r \in Requests : call[r].tok = t
Proven(u, kinds) ==
  \E t \in Tokens : /\ Known(t) /\ Presented(t)
                    /\ issued[t].kind \in kinds
                    /\ issued[t].user = u /\ issued[t].to = email[u]

\* An account only moves to an address whose own change token was presented:
\* the message verifies that the new mailbox exists.
ChangedAddressIsProven ==
  \A u \in users : email[u] = origin[u] \/ Proven(u, {"change"})

\* Unless registration verifies by itself, a verified account's present
\* address is one a token sent there was presented for.
VerifiedIsProven ==
  ~AutoVerify => \A u \in users : verified[u] => Proven(u, {"verify", "magic", "change"})

\* A reset, magic-link, verification, change or SMS token is single-use.
TokenSingleUse == reused = {}

\* A step that sets a password without the current one or a token (the first
\* one of an account, or the adoption of a migrated one) does not replace a
\* password the user has chosen here.
KeepsChosenPassword ==
  \A r \in Requests, u \in users :
    /\ call[r].step \in {"initialPassword", "migrate"} /\ call'[r] = Idle
    /\ password[u] \in Passwords
    => password'[u] = password[u]

=============================================================================
