---------------------------- MODULE SecondFactor ----------------------------
(***************************************************************************)
(* Password login with its second-factor branch (login_2fa.go), the        *)
(* step-up routes behind it (passwordless.go and the adapter's             *)
(* passwordless.go), TOTP codes (totp.go) and the typed tokens that hold   *)
(* the parts together (token.go).  Requests are goroutines cut at their    *)
(* store calls.                                                            *)
(*                                                                         *)
(* The right password is always given (a wrong one changes nothing), and a *)
(* user's phone never changes.  An authenticator code is the pair of the   *)
(* secret and the counter it was generated from; magic links are random    *)
(* and so numbered, SMS codes have six digits and so may repeat.           *)
(***************************************************************************)
EXTENDS Integers, FiniteSets

CONSTANTS Users, Requests,
          Secrets,         \* TOTP secrets
          SMSCodes,        \* the codes randomNumericCode may draw
          Phones,          \* the users with a stored phone number
          Unverified,      \* the users whose address is not verified at first
          Senders,         \* subset of {"sms", "magic"}: what the host can send
          Require2FA,      \* Config.Require2FA
          Lazy,            \* Config.EmailVerificationMode = "lazy"
          TOTPPeriod, TOTPSkew,
          TempTokenTTL, AccessTokenTTL,
          CodeTTL,         \* MagicLinkTTL and SMSCodeTTL
          ClockSkew,
          MaxTime, MaxCalls, MaxAdmin  \* bounds

ASSUME SecondFactorAssumption ==
  /\ Senders \subseteq {"sms", "magic"} /\ Phones \subseteq Users /\ Unverified \subseteq Users
  /\ Require2FA \in BOOLEAN /\ Lazy \in BOOLEAN
  /\ TOTPPeriod \in Nat \ {0} /\ TOTPSkew \in Nat
  /\ {TempTokenTTL, AccessTokenTTL, CodeTTL, ClockSkew} \subseteq Nat
  /\ {MaxTime, MaxCalls, MaxAdmin} \subseteq Nat

VARIABLES
  users,     \* the users that exist
  rec,       \* rec[u]: the fields of the user record that login reads
  settings,  \* AuthSettings.Require2FA: "on", "off", or "down" when it cannot be read
  now,       \* the clock behind Service.now
  tokens,    \* every token handed to a client; how and from are history
  sends,     \* magic links and codes sent so far
  calls,     \* requests made so far
  admin,     \* changes made by administrators so far
  call       \* call[r]: where request r is, what it has read, and what it saw meanwhile

factorVars == <<users, rec, settings, now, tokens, sends, calls, admin, call>>

NoUser   == "nobody"
NoSecret == "noSecret"
NoCode   == [code |-> 0, exp |-> -1]

Codes   == SMSCodes \cup (1..MaxCalls)
Pending == [code : Codes, exp : Int] \cup {NoCode}
Record  == [Require : BOOLEAN, Secret : Secrets \cup {NoSecret},
            Verified : BOOLEAN, sms : Pending, magic : Pending]

\* How a session was opened: by the password alone, by a second factor after
\* the password, by a magic link or SMS code alone, or through the identity
\* provider.  A step-up token comes from a challenge.
StepUp == {"totp", "sms", "magic"}
Hows   == {"password", "idp", "challenge", "link", "text"} \cup StepUp
Token  == [typ : {"access", "temp"}, sub : Users, exp : Int,
           how : Hows, from : Users]
NoToken == [typ |-> "none"]

\* A request: its next store call, the user it acts for, the token it was given
\* and the factor it redeems.  The last four fields are history: what held at
\* some (alive, okUser, okPolicy) or every (strict) moment of the call.
Steps == {"idle", "issue", "send", "clear", "mark", "enrol", "disableUser",
          "disablePolicy", "disableWrite", "saveCode", "codeUser", "codeSession"}
Call == [step : Steps, user : Users \cup {NoUser}, tok : Token \cup {NoToken},
         how : Hows, secret : Secrets \cup {NoSecret}, counter : Int, alive : BOOLEAN,
         strict : BOOLEAN, okUser : BOOLEAN, okPolicy : BOOLEAN]
Idle == [step |-> "idle", user |-> NoUser, tok |-> NoToken, how |-> "password",
         secret |-> NoSecret, counter |-> 0, alive |-> FALSE, strict |-> TRUE,
         okUser |-> FALSE, okPolicy |-> FALSE]
Begin(step, u, tok, how) ==
  [Idle EXCEPT !.step = step, !.user = u, !.tok = tok, !.how = how]

TypeOK ==
  /\ users \subseteq Users
  /\ rec \in [Users -> Record]
  /\ settings \in {"on", "off", "down"}
  /\ now \in 0..MaxTime
  /\ tokens \subseteq Token
  /\ sends \in 0..MaxCalls
  /\ calls \in 0..MaxCalls
  /\ admin \in 0..MaxAdmin
  /\ call \in [Requests -> Call]

Enrolled(u) == rec[u].Secret # NoSecret

\* Broken variant: the flag on the user record is forgotten.
RequiresTwoFactorTOTPOnly(u) == Require2FA \/ Enrolled(u)

RequiresTwoFactor(u) == Require2FA \/ rec[u].Require \/ Enrolled(u)

\* What the history fields record of the state a step leads to, each for the
\* calls it is about.
Disabling == {"disableUser", "disablePolicy", "disableWrite"}
Opening == {"issue", "clear", "mark", "saveCode", "codeUser", "codeSession"}
Noted(c) ==
  IF c.step = "idle" THEN c ELSE
  [c EXCEPT
     !.alive    = @ \/ (c.step \in Opening /\ c.user \in users'),
     !.strict   = @ /\ (c.how \in {"password", "idp"} =>
                        Require2FA \/ rec'[c.user].Require \/ rec'[c.user].Secret # NoSecret),
     !.okUser   = @ \/ (c.step \in Disabling /\ ~rec'[c.user].Require),
     !.okPolicy = @ \/ (c.step \in Disabling /\ ~Require2FA /\ settings' = "off")]

\* Goto ends an action, after the variables Noted looks at.
At(r, step)   == call[r].step = step
Start(r)      == At(r, "idle") /\ calls < MaxCalls /\ calls' = calls + 1
Within(r, step) == At(r, step) /\ UNCHANGED calls
Goto(r, next) == call' = [q \in Requests |-> Noted(IF q = r THEN next ELSE call[q])]
Finish(r)     == Goto(r, Idle)
Environment   == call' = [q \in Requests |-> Noted(call[q])] /\ UNCHANGED calls
Continue(r, step) == Goto(r, [call[r] EXCEPT !.step = step])

UnchangedStore == UNCHANGED <<users, rec, settings, now, admin>>
Local          == UnchangedStore /\ UNCHANGED <<tokens, sends>>

Init ==
  /\ users = Users
  /\ rec = [u \in Users |-> [Require |-> FALSE, Secret |-> NoSecret,
                             Verified |-> u \notin Unverified,
                             sms |-> NoCode, magic |-> NoCode]]
  /\ settings = "off"
  /\ now = 0
  /\ tokens = {}
  /\ sends = 0
  /\ calls = 0
  /\ admin = 0
  /\ call = [r \in Requests |-> Idle]

(***************************************************************************)
(* Tokens.  issueToken writes typ after the host's claims; parseToken      *)
(* checks it and the expiry.                                               *)
(***************************************************************************)
IssueToken(typ, u, ttl, how, from) ==
  [typ |-> typ, sub |-> u, exp |-> now + ttl, how |-> how, from |-> from]

ParseToken(t, typ) == t \in tokens /\ t.typ = typ /\ now <= t.exp + ClockSkew

\* issueSession: the access token of a new session.  Its refresh token and the
\* session record are SessionService's.
SessionToken(u, how, from) == IssueToken("access", u, AccessTokenTTL, how, from)

(***************************************************************************)
(* Login.                                                                  *)
(***************************************************************************)
MayLogin(u) == u \in users /\ (rec[u].Verified \/ Lazy)

LoginWithChallenge(r, u) ==
  /\ Start(r)
  /\ MayLogin(u)
  /\ UnchangedStore /\ UNCHANGED sends
  /\ \/ /\ RequiresTwoFactor(u)
        /\ tokens' = tokens \cup {IssueToken("temp", u, TempTokenTTL, "challenge", u)}
        /\ Finish(r)
     \/ /\ ~RequiresTwoFactor(u)
        /\ UNCHANGED tokens
        /\ Goto(r, Begin("issue", u, NoToken, "password"))

\* The session itself cannot fail for a user who has just been deleted.
IssueSession(r) ==
  /\ Within(r, "issue")
  /\ UnchangedStore /\ UNCHANGED sends
  /\ LET c == call[r]
         from == IF c.how \in StepUp THEN c.tok.sub ELSE c.user
     IN tokens' = tokens \cup {SessionToken(c.user, c.how, from)}
  /\ Finish(r)

(***************************************************************************)
(* Magic links and SMS codes, to sign in with or to step up with.          *)
(***************************************************************************)
\* Which of the two a challenge may offer, and its route will serve.
CanSend(k, u) == k \in Senders /\ (k = "sms" => u \in Phones)

\* StepUpSubject: the user a step-up token names.
StepUpSubject(t, u) == ParseToken(t, "temp") /\ t.sub = u

\* A send request is for the subject of a step-up token, or for whoever's
\* address or id was given.
SendFor(r, k, u) ==
  \/ Goto(r, Begin("send", u, NoToken, k))
  \/ \E t \in tokens : StepUpSubject(t, u) /\ Goto(r, Begin("send", u, t, k))

MagicLinkSend(r, u) == Start(r) /\ u \in users /\ CanSend("magic", u) /\ Local /\ SendFor(r, "magic", u)

SMSSend(r, u) == Start(r) /\ u \in users /\ CanSend("sms", u) /\ Local /\ SendFor(r, "sms", u)

SendMagicLink(r) == LET u == call[r].user IN
  /\ Within(r, "send") /\ call[r].how = "magic"
  /\ u \in users
  /\ sends' = sends + 1
  /\ UNCHANGED <<users, settings, now, tokens, admin>>
  /\ rec' = [rec EXCEPT ![u].magic = [code |-> sends + 1, exp |-> now + CodeTTL]]
  /\ Finish(r)

SendSMSCode(r) == LET u == call[r].user IN
  /\ Within(r, "send") /\ call[r].how = "sms"
  /\ u \in users
  /\ \E c \in SMSCodes : rec' = [rec EXCEPT ![u].sms = [code |-> c, exp |-> now + CodeTTL]]
  /\ UNCHANGED <<users, settings, now, tokens, sends, admin>>
  /\ Finish(r)

Usable(p, c) == p.code = c /\ now <= p.exp + ClockSkew

\* The user is named by the request, or by the step-up token.
VerifySMSCode(r, u, c) ==
  /\ Start(r)
  /\ u \in users /\ Usable(rec[u].sms, c)
  /\ Local
  /\ \/ Goto(r, Begin("clear", u, NoToken, "text"))
     \/ \E t \in tokens : StepUpSubject(t, u) /\ Goto(r, Begin("clear", u, t, "sms"))

\* The link names the user, the step-up token only restricts who that may be.
VerifyMagicLink(r, u, c) ==
  /\ Start(r)
  /\ u \in users /\ Usable(rec[u].magic, c)
  /\ Local
  /\ \/ Goto(r, Begin("clear", u, NoToken, "link"))
     \/ \E t \in tokens, v \in Users :
          StepUpSubject(t, v) /\ Goto(r, Begin("clear", u, t, "magic"))

IsSMS(how) == how \in {"sms", "text"}

\* Broken variant: a link that belongs to somebody else is as good as one's own.
ClearUnowned(r) == LET u == call[r].user IN
  /\ Within(r, "clear")
  /\ UNCHANGED <<users, settings, now, tokens, sends, admin>>
  /\ \/ u \notin users /\ UNCHANGED rec /\ Finish(r)
     \/ /\ u \in users
        /\ rec' = IF IsSMS(call[r].how) THEN [rec EXCEPT ![u].sms = NoCode]
                  ELSE [rec EXCEPT ![u].magic = NoCode]
        /\ Continue(r, IF call[r].how = "link" THEN "mark" ELSE "issue")

\* The code is burnt whoever it belongs to; then the owner of a link is compared.
Clear(r) == LET u == call[r].user IN
  /\ Within(r, "clear")
  /\ UNCHANGED <<users, settings, now, tokens, sends, admin>>
  /\ \/ u \notin users /\ UNCHANGED rec /\ Finish(r)
     \/ /\ u \in users
        /\ rec' = IF IsSMS(call[r].how) THEN [rec EXCEPT ![u].sms = NoCode]
                  ELSE [rec EXCEPT ![u].magic = NoCode]
        /\ \/ call[r].how = "link" /\ Continue(r, "mark")
           \/ call[r].how = "magic" /\ call[r].tok.sub # u /\ Finish(r)
           \/ call[r].how # "link" /\ (call[r].how = "magic" => call[r].tok.sub = u)
              /\ Continue(r, "issue")

\* Signing in with a link vouches for the address; a failure to say so is ignored.
MarkVerified(r) == LET u == call[r].user IN
  /\ Within(r, "mark")
  /\ UNCHANGED <<users, settings, now, tokens, sends, admin>>
  /\ rec' = IF u \in users THEN [rec EXCEPT ![u].Verified = TRUE] ELSE rec
  /\ Continue(r, "issue")

(***************************************************************************)
(* TOTP.                                                                   *)
(***************************************************************************)
Counter == now \div TOTPPeriod

\* Broken variant: the loop over the offsets runs one step too far.
ValidateTOTPCodeWide(secret, s, c) ==
  secret = s /\ \E offset \in -TOTPSkew..(TOTPSkew + 1) : c = Counter + offset

ValidateTOTPCode(secret, s, c) ==
  secret = s /\ \E offset \in -TOTPSkew..TOTPSkew : c = Counter + offset

Counters == -TOTPSkew..((MaxTime \div TOTPPeriod) + TOTPSkew + 1)

VerifyTOTP(r, s, c) == \E t \in tokens :
  /\ Start(r)
  /\ ParseToken(t, "temp")
  /\ t.sub \in users /\ Enrolled(t.sub)
  /\ ValidateTOTPCode(rec[t.sub].Secret, s, c)
  /\ Local
  /\ Goto(r, [Begin("issue", t.sub, t, "totp") EXCEPT !.counter = c])

\* The middleware of the three enrolment routes.
Authenticated(t) == ParseToken(t, "access") /\ t.sub \in users

\* The secret is the one the client sends back, whichever it was handed.
VerifyTOTPSetup(r, s, c) == \E t \in tokens :
  /\ Start(r)
  /\ Authenticated(t)
  /\ ValidateTOTPCode(s, s, c)
  /\ Local
  /\ Goto(r, [Begin("enrol", t.sub, t, "totp") EXCEPT !.secret = s])

UpdateTOTPSecret(r, step, s) == LET u == call[r].user IN
  /\ Within(r, step)
  /\ UNCHANGED <<users, settings, now, tokens, sends, admin>>
  /\ rec' = IF u \in users THEN [rec EXCEPT ![u].Secret = s] ELSE rec
  /\ Finish(r)

Enrol(r) == UpdateTOTPSecret(r, "enrol", call[r].secret)

DisableStart(r) == \E t \in tokens :
  /\ Start(r)
  /\ Authenticated(t)
  /\ Local
  /\ Goto(r, Begin("disableUser", t.sub, t, "totp"))

\* A user that cannot be read again is not one that forbids it.
DisableReadsUser(r) == LET u == call[r].user IN
  /\ Within(r, "disableUser")
  /\ Local
  /\ IF u \in users /\ rec[u].Require THEN Finish(r) ELSE Continue(r, "disablePolicy")

\* Whether the route stops here: the policy holds, or cannot be resolved.
TwoFactorPolicyStops == Require2FA \/ settings \in {"on", "down"}

DisableReadsPolicy(r) ==
  /\ Within(r, "disablePolicy")
  /\ Local
  /\ IF TwoFactorPolicyStops THEN Finish(r) ELSE Continue(r, "disableWrite")

DisableTOTP(r) == UpdateTOTPSecret(r, "disableWrite", NoSecret)

(***************************************************************************)
(* What happens around the requests.                                       *)
(***************************************************************************)
\* The user was deleted between the lookup and the write.
SendFails(r) == Within(r, "send") /\ call[r].user \notin users /\ Local /\ Finish(r)

Administer ==
  /\ admin < MaxAdmin /\ admin' = admin + 1
  /\ UNCHANGED <<now, tokens, sends>>

SetRequire2FA(u) ==
  /\ u \in users
  /\ rec' = [rec EXCEPT ![u].Require = ~@]
  /\ UNCHANGED <<users, settings>>
  /\ Administer /\ Environment

UpdateSettings(v) ==
  /\ settings # v
  /\ settings' = v
  /\ UNCHANGED <<users, rec>>
  /\ Administer /\ Environment

DeleteUser(u) ==
  /\ u \in users
  /\ users' = users \ {u}
  /\ UNCHANGED <<rec, settings>>
  /\ Administer /\ Environment

Tick ==
  /\ now < MaxTime
  /\ now' = now + 1
  /\ UNCHANGED <<users, rec, settings, tokens, sends, admin>>
  /\ Environment

RequestStep(r) ==
  \/ IssueSession(r) \/ SendMagicLink(r) \/ SendSMSCode(r) \/ SendFails(r) \/ Clear(r) \/ MarkVerified(r)
  \/ Enrol(r) \/ DisableStart(r) \/ DisableReadsUser(r) \/ DisableReadsPolicy(r)
  \/ DisableTOTP(r)
  \/ \E u \in Users : LoginWithChallenge(r, u) \/ MagicLinkSend(r, u) \/ SMSSend(r, u)
  \/ \E u \in Users, c \in SMSCodes : VerifySMSCode(r, u, c)
  \/ \E u \in Users, c \in 1..MaxCalls : VerifyMagicLink(r, u, c)
  \/ \E s \in Secrets, c \in Counters : VerifyTOTP(r, s, c) \/ VerifyTOTPSetup(r, s, c)

AdminStep ==
  \/ \E u \in Users : SetRequire2FA(u) \/ DeleteUser(u)
  \/ \E v \in {"on", "off", "down"} : UpdateSettings(v)

FactorNext == AdminStep \/ Tick \/ \E r \in Requests : RequestStep(r)

(***************************************************************************)
(* Properties.                                                             *)
(***************************************************************************)
\* The calls that open a session in a step, with the session they open.
Opens(r, t) ==
  /\ t \in tokens' \ tokens /\ t.typ = "access"
  /\ call[r].step \in {"issue", "codeSession"} /\ call'[r].step = "idle"

\* A password opens a session by itself only for a user who, at some moment of
\* that very call, was required no second factor: by the deployment, by the
\* flag on the record, or by an enrolled authenticator (Service.Login,
\* LoginWithChallenge, requiresTwoFactor), whatever administrators and other
\* sessions of the user change meanwhile.
PasswordAloneOnlyIfAllowed ==
  [][\A r \in Requests, t \in tokens' : Opens(r, t) /\ call[r].how = "password"
        => ~call[r].strict]_factorVars

\* A session opened through a step-up route belongs to the user whose password
\* obtained the step-up token, even when the code or link redeemed there was
\* sent to somebody else (StepUpSubject, VerifyMagicLinkForUser).
StepUpStaysWithItsUser == \A t \in tokens : t.how \in StepUp => t.from = t.sub

\* Whoever knows only the password of a challenged user neither enrols nor
\* removes an authenticator: those routes refuse the step-up token, and every
\* session they accept passed a second factor, stood without one being
\* required, or came by mail or text (tokenTypeTemp, parseToken).
ChallengeChangesNoFactor ==
  [][\A u \in Users : rec'[u].Secret # rec[u].Secret =>
       \E r \in Requests :
          call[r].step \in {"enrol", "disableWrite"} /\ call[r].user = u
          /\ call[r].tok.how # "challenge"]_factorVars

\* An authenticator is removed only when, at some moment of the call, the record
\* did not require one, and at some moment the settings could be read and did
\* not either: an outage of the settings store is never taken for consent
\* (TwoFactorDisable, twoFactorPolicy).
FactorRemovedOnlyIfAllowed ==
  [][\A r \in Requests : At(r, "disableWrite") /\ rec' # rec /\ call'[r].step = "idle"
        => call[r].okUser /\ call[r].okPolicy]_factorVars

\* An authenticator code passes only from TOTPSkew periods before the one it was
\* generated for, to the last moment of the TOTPSkew-th after it, on whichever
\* side of a period boundary the clock stands (validateTOTPCode).
CodeWindow ==
  [][\A r \in Requests :
       At(r, "idle") /\ call'[r].step = "issue" /\ call'[r].how = "totp" =>
         LET c == call'[r].counter IN
         /\ now >= (c - TOTPSkew) * TOTPPeriod
         /\ now < (c + TOTPSkew + 1) * TOTPPeriod]_factorVars

\* A session is opened only for a user who existed at some moment of the call: a
\* step-up token, a code or a link outlives the user it names, and is worthless
\* from then on (VerifyTOTP, VerifySMSCode, verifyMagicLink, handleToken).
NoSessionForDeletedUser ==
  [][\A r \in Requests, t \in tokens' : Opens(r, t) => call[r].alive]_factorVars

\* A second factor that comes too late opens nothing: neither a code outside its
\* window nor anything presented for a user who is gone.
LateFactorRefused == CodeWindow /\ NoSessionForDeletedUser

\* Who may enrol or remove an authenticator, and when.
FactorChangeIsAllowed == ChallengeChangesNoFactor /\ FactorRemovedOnlyIfAllowed

\* A required second factor cannot be got around: not by the password alone,
\* and not by enrolling or removing the authenticator with it.
SecondFactorHolds == PasswordAloneOnlyIfAllowed /\ FactorChangeIsAllowed

=============================================================================
