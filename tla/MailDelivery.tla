---------------------------- MODULE MailDelivery ----------------------------
(***************************************************************************)
(* How a token reaches the person it was minted for (delivery.go,          *)
(* delivery_password_email.go, delivery_webhook.go, mailer.go and the send *)
(* halves of the routes in service.go and wire_password_email.go), over    *)
(* MemoryUserStore and MemoryTemplateStore.                                *)
(*                                                                         *)
(* A call looks the user up, stores the token, has the message rendered,   *)
(* hands it to the transport and answers; confirming a change of address   *)
(* applies it, clears the token and sends a notice to the old address.     *)
(* Calls overlap, administrators edit the templates meanwhile, stores fail *)
(* and a transport may fail although it has delivered.  Lifetimes are      *)
(* AccountService's: no token expires here.                                *)
(***************************************************************************)
EXTENDS MemoryUserStore, MemoryTemplateStore

CONSTANTS Calls,         \* the calls of a behaviour, each made once
          Deployments,   \* configurations, with their bounds
          NoSite,        \* no site at all
          FirstEmail,    \* FirstEmail[u]: the address u starts with
          Passwordless, VerifiedUsers, Phones  \* sets of users

ASSUME MailAssumption ==
  /\ FirstEmail \in [UserIDs -> Emails] /\ IsInjective(FirstEmail)
  /\ Passwords # {}
  /\ Passwordless \cup VerifiedUsers \cup Phones \subseteq UserIDs
  /\ Blank \notin Emails
  /\ \A d \in Deployments :
       /\ DOMAIN d = {"sender", "locale", "templates", "allowed", "site", "base", "routes", "langs",
                      "headers", "calls", "patches", "failures"}
       /\ {d.calls, d.patches, d.failures} \subseteq Nat

VARIABLES
  dep,       \* [sender, locale, templates, allowed, site, base]; what requests name:
             \* routes, langs, headers; the bounds calls, patches, failures
  tmpl,      \* the template store
  at,        \* at[c]: where call c is
  inbox,     \* the messages a transport has delivered
  events,    \* the EventUserEmailChanged published
  minted,    \* history: [tok, kind, user], the tokens minted
  moves,     \* history: [by, user, from, to], the address changes applied
  overlapped \* history: the calls that shared a user's address change with another

world    == <<inbox, events, minted, moves, overlapped>>
mailVars == <<storeVars, dep, tmpl, at, world>>

Senders == Kinds \cup {"changed"}
KindOf(route) == IF route = "stepup" THEN "magic" ELSE route

(***************************************************************************)
(* The links.                                                              *)
(***************************************************************************)
\* The broken variant of the next definition: a referer is taken as it is.
ResolveSiteURLAnyReferer(h) ==
  IF h.origin \in dep.allowed THEN h.origin
  ELSE IF dep.allowed # {} /\ h.referer # NoSite THEN h.referer
  ELSE dep.site

\* The page the request came from, if the deployment knows it.
ResolveSiteURL(h) ==
  IF h.origin \in dep.allowed THEN h.origin
  ELSE IF h.referer \in dep.allowed THEN h.referer
  ELSE dep.site

\* The base a ready-made mailer uses: the request's, or its own.
LinkBaseOr(perRequest) == IF perRequest # NoSite THEN perRequest ELSE dep.base

LinkPath(kind) ==
  CASE kind = "reset"  -> "/reset-password"
    [] kind = "magic"  -> "/magic-link/verify"
    [] kind = "verify" -> "/verify-email"
    [] kind = "change" -> "/change-email/confirm"
    [] OTHER           -> "none"

\* A change of address is confirmed by the template that verifies one.
TemplateID(kind) ==
  CASE kind = "reset"   -> "password-reset"
    [] kind = "magic"   -> "magic-link"
    [] kind = "changed" -> "email-changed"
    [] OTHER            -> "verify-email"

(***************************************************************************)
(* Calls.                                                                  *)
(***************************************************************************)
Waiting == [step |-> "waiting"]
Is(c, step) == at[c].step = step
Going(c, step, rec) ==
  at' = [at EXCEPT ![c] = [f \in DOMAIN rec \cup {"step"} |-> IF f = "step" THEN step ELSE rec[f]]]

\* The answer; hurt: a store or a transport failed on the way.
Done(c, route, answer, user, tok, hurt) ==
  at' = [at EXCEPT ![c] = [step |-> "done", route |-> route, answer |-> answer,
                               user |-> user, tok |-> tok, hurt |-> hurt]]
Answer(c, answer, hurt) == Done(c, at[c].route, answer, at[c].user, at[c].tok, hurt)
Reject(c, route, answer, hurt) == Done(c, route, answer, NoID, NoToken, hurt)

\* A user has been found: its token is to be stored.
Found(c, route, u, to, h, lang) ==
  Going(c, "store", [route |-> route, user |-> u, to |-> to, tok |-> NoToken,
                     base |-> ResolveSiteURL(h), lang |-> lang])

\* A store may fail where it is called.
Fails == dep.failures > 0 /\ dep' = [dep EXCEPT !.failures = @ - 1]
Works == dep' = dep

ChangesAddress(c) == ~Is(c, "waiting") /\ ~Is(c, "done") /\ at[c].route \in {"change", "confirm"}
Overlaps(c, u) ==
  LET others == {d \in Calls \ {c} : ChangesAddress(d) /\ at[d].user = u} IN
  overlapped' = IF others = {} THEN overlapped ELSE overlapped \cup others \cup {c}

May(c, route) ==
  /\ Is(c, "waiting") /\ route \in dep.routes
  /\ Cardinality({d \in Calls : ~Is(d, "waiting")}) < dep.calls
Quiet == UNCHANGED <<storeVars, tmpl, inbox, events, minted, moves>>
Ask   == Quiet /\ UNCHANGED overlapped

\* POST /forgot-password: who is not known, or cannot be looked up, is not told.
ForgotPassword(c) ==
  /\ May(c, "reset")
  /\ \E e \in Emails, h \in dep.headers, lang \in dep.langs :
       \/ Works /\ GetUserByEmail(e) # NoID /\ Found(c, "reset", GetUserByEmail(e), e, h, lang)
       \/ Works /\ GetUserByEmail(e) = NoID /\ Reject(c, "reset", "success", FALSE)
       \/ Fails /\ Reject(c, "reset", "success", TRUE)
  /\ Ask

\* POST /send-verification-email, for the user of the access token.
SendVerificationEmail(c) ==
  /\ May(c, "verify")
  /\ \E u \in users, h \in dep.headers, lang \in dep.langs :
       \/ /\ Works
          /\ IF verified[u] THEN Reject(c, "verify", "ALREADY_VERIFIED", FALSE)
             ELSE Found(c, "verify", u, email[u], h, lang)
       \/ Fails /\ Reject(c, "verify", "USER_NOT_FOUND", TRUE)
  /\ Ask

\* POST /change-email/request.  A lookup of the address that fails finds it free.
RequestChangeLookup(c) ==
  /\ May(c, "change")
  /\ \E u \in users, e \in Emails, h \in dep.headers, lang \in dep.langs :
       IF password[u] = "none" THEN Works /\ UNCHANGED overlapped /\ Reject(c, "change", "PASSWORD_REQUIRED", FALSE)
       ELSE \/ /\ Works /\ GetUserByEmail(e) # NoID
               /\ UNCHANGED overlapped /\ Reject(c, "change", "EMAIL_IN_USE", FALSE)
            \/ /\ Fails \/ (Works /\ GetUserByEmail(e) = NoID)
               /\ Found(c, "change", u, e, h, lang) /\ Overlaps(c, u)
            \/ Fails /\ UNCHANGED overlapped /\ Reject(c, "change", "USER_NOT_FOUND", TRUE)
  /\ Quiet

\* The broken variant of the next definition: whether mail is configured is
\* asked for a user that exists.
MagicLinkLookupFirst(c, route, e, h, lang) ==
  \/ /\ Works
     /\ IF GetUserByEmail(e) = NoID THEN Reject(c, route, "success", FALSE)
        ELSE IF dep.sender["magic"] = "none" THEN Reject(c, route, "NOT_CONFIGURED", FALSE)
        ELSE Found(c, route, GetUserByEmail(e), e, h, lang)
  \/ Fails /\ Reject(c, route, "success", TRUE)

\* Service.SendMagicLink up to the store.
MagicLinkLookup(c, route, e, h, lang) ==
  IF dep.sender["magic"] = "none" THEN Works /\ Reject(c, route, "NOT_CONFIGURED", FALSE)
  ELSE \/ /\ Works
          /\ IF GetUserByEmail(e) = NoID THEN Reject(c, route, "success", FALSE)
             ELSE Found(c, route, GetUserByEmail(e), e, h, lang)
       \/ Fails /\ Reject(c, route, "success", TRUE)

\* POST /magic-link/send, for an address,
SendMagicLink(c) ==
  /\ May(c, "magic")
  /\ \E e \in Emails, h \in dep.headers, lang \in dep.langs : MagicLinkLookup(c, "magic", e, h, lang)
  /\ Ask

\* or for the user of a step-up token, whose address is read first,
StepUpSubject(c) ==
  /\ May(c, "stepup")
  /\ \E u \in users, h \in dep.headers, lang \in dep.langs :
       \/ Works /\ Going(c, "lookup", [route |-> "stepup", user |-> u, to |-> email[u], head |-> h, lang |-> lang])
       \/ Fails /\ Reject(c, "stepup", "USER_NOT_FOUND", TRUE)
  /\ Ask

\* and looked up again.
StepUpLookup(c) ==
  /\ Is(c, "lookup")
  /\ MagicLinkLookup(c, "stepup", at[c].to, at[c].head, at[c].lang)
  /\ Ask

NoHeaders == [origin |-> NoSite, referer |-> NoSite]

\* POST /sms/send: an unknown address is not told, an unknown id is; the
\* service looks the user up once more and says nothing if that fails.
SendSMSCode(c) ==
  /\ May(c, "sms")
  /\ IF dep.sender["sms"] = "none" THEN Works /\ Reject(c, "sms", "NOT_CONFIGURED", FALSE)
     ELSE \/ Works /\ (\E e \in Emails : GetUserByEmail(e) = NoID) /\ Reject(c, "sms", "success", FALSE)
          \/ Works /\ \E u \in users \cap Phones : Found(c, "sms", u, u, NoHeaders, "none")
          \/ Works /\ ~(users \subseteq Phones) /\ Reject(c, "sms", "PHONE_NOT_SET", FALSE)
          \/ Fails /\ \E a \in {"success", "USER_NOT_FOUND"} : Reject(c, "sms", a, TRUE)
  /\ Ask

Unminted == {t \in Tokens : \A i \in minted : i.tok # t}

\* The token is stored before it is sent; without a sender nothing is sent,
\* and nothing is said about it.
StoreToken(c) == LET k == KindOf(at[c].route) IN
  /\ Is(c, "store")
  /\ \/ /\ Works
        /\ \E t \in Unminted :
             /\ UpdateToken(k, at[c].user, t, 0, at[c].to)
             /\ minted' = minted \cup {[tok |-> t, kind |-> k, user |-> at[c].user]}
             /\ IF dep.sender[k] = "none" THEN Done(c, at[c].route, "success", at[c].user, t, FALSE)
                ELSE Going(c, "render", [at[c] EXCEPT !.tok = t])
     \/ Fails /\ Answer(c, "INTERNAL", TRUE) /\ UNCHANGED <<storeVars, minted>>
  /\ UNCHANGED <<tmpl, inbox, events, moves, overlapped>>

\* POST /change-email/confirm: the addresses are those of this lookup.
ConfirmLookup(c) ==
  /\ May(c, "confirm")
  /\ \/ /\ Works
        /\ \E t \in Tokens, u \in UserIDs :
             /\ u \in GetUserByToken("change", t)
             /\ Going(c, "apply", [route |-> "confirm", user |-> u, tok |-> NoToken, to |-> email[u],
                                   new |-> pending[u], base |-> NoSite, lang |-> "none"])
             /\ Overlaps(c, u)
     \/ /\ Works \/ Fails
        /\ Reject(c, "confirm", "INVALID_TOKEN", dep' # dep)
        /\ UNCHANGED overlapped
  /\ Quiet

\* The broken variant of the next definition: the user is read again, and the
\* notice goes to the address it has by then.
ApplyChangeRereads(c) == LET u == at[c].user IN
  /\ Is(c, "apply")
  /\ \/ /\ Works /\ ApplyEmailChange(u)
        /\ Going(c, "clear", [at[c] EXCEPT !.to = pending[u]])
        /\ moves' = moves \cup {[by |-> c, user |-> u, from |-> email[u], to |-> pending[u]]}
     \/ /\ \/ Works /\ byEmail[pending[u]] # NoID
           \/ Fails
        /\ Answer(c, "INTERNAL", dep' # dep) /\ UNCHANGED <<storeVars, moves>>
  /\ UNCHANGED <<tmpl, inbox, events, minted, overlapped>>

\* The address pending by now is applied, unless it has been taken.
ApplyChange(c) == LET u == at[c].user IN
  /\ Is(c, "apply")
  /\ \/ /\ Works /\ ApplyEmailChange(u)
        /\ Going(c, "clear", at[c])
        /\ moves' = moves \cup {[by |-> c, user |-> u, from |-> email[u], to |-> pending[u]]}
     \/ /\ \/ Works /\ byEmail[pending[u]] # NoID
           \/ Fails
        /\ Answer(c, "INTERNAL", dep' # dep) /\ UNCHANGED <<storeVars, moves>>
  /\ UNCHANGED <<tmpl, inbox, events, minted, overlapped>>

Announcement(c) == [by |-> c, user |-> at[c].user, from |-> at[c].to, to |-> at[c].new]

ClearChange(c) ==
  /\ Is(c, "clear")
  /\ \/ /\ Works /\ ClearToken("change", at[c].user)
        /\ IF dep.sender["changed"] # "none" THEN Going(c, "render", at[c]) /\ UNCHANGED events
           ELSE Answer(c, "success", FALSE) /\ events' = events \cup {Announcement(c)}
     \/ Fails /\ Answer(c, "INTERNAL", TRUE) /\ UNCHANGED <<storeVars, events>>
  /\ UNCHANGED <<tmpl, inbox, minted, moves, overlapped>>

(***************************************************************************)
(* The senders.                                                            *)
(***************************************************************************)
MessageKind(c) == IF at[c].route = "confirm" THEN "changed" ELSE KindOf(at[c].route)

\* What every message says, whoever sends it.
Message(c, body, base) ==
  LET k == MessageKind(c) IN
  [body |-> body, kind |-> k, to |-> at[c].to, tok |-> at[c].tok,
   base |-> IF LinkPath(k) = "none" THEN NoSite ELSE base, path |-> LinkPath(k),
   new |-> IF k = "changed" THEN at[c].new ELSE Blank]
Hands(c, msg) ==
  Going(c, "transport", [route |-> at[c].route, user |-> at[c].user, tok |-> at[c].tok, to |-> at[c].to,
                         new |-> IF at[c].route = "confirm" THEN at[c].new ELSE Blank, msg |-> msg])

\* A failed delivery is told to the caller, except on /forgot-password.
NotDelivered(c) == Answer(c, IF at[c].route = "reset" THEN "success" ELSE "INTERNAL", TRUE)

\* A ready-made mailer renders with the template of this moment.
RenderByMailer(c) ==
  /\ Is(c, "render") /\ dep.sender[MessageKind(c)] = "mailer"
  /\ LET locale == ResolveLang(at[c].lang, dep.locale)
         store  == IF dep.templates THEN tmpl ELSE NoTemplates
     IN \/ /\ Works
           /\ Hands(c, Message(c, RenderMail(store, TemplateID(MessageKind(c)), locale), LinkBaseOr(at[c].base)))
        \/ dep.templates /\ Fails /\ NotDelivered(c)
  /\ UNCHANGED <<storeVars, tmpl, world>>

\* A delivery webhook and an SMS gateway are handed the data as they are.
HandOver(c) ==
  /\ Is(c, "render") /\ dep.sender[MessageKind(c)] \in {"webhook", "gateway"}
  /\ Works
  /\ Hands(c, Message(c, Rendered(0, 0, 0, at[c].lang), at[c].base))
  /\ UNCHANGED <<storeVars, tmpl, world>>

\* The transport delivers, or fails; a timeout may hide that it has delivered.
Transport(c) ==
  /\ Is(c, "transport")
  /\ \/ /\ Works /\ inbox' = inbox \cup {at[c].msg} /\ Answer(c, "success", FALSE)
        /\ events' = IF at[c].route = "confirm" THEN events \cup {Announcement(c)} ELSE events
     \/ /\ Fails /\ inbox' \in {inbox, inbox \cup {at[c].msg}} /\ NotDelivered(c)
        /\ UNCHANGED events
  /\ UNCHANGED <<storeVars, tmpl, minted, moves, overlapped>>

(***************************************************************************)
(* The templates.                                                          *)
(***************************************************************************)
Edit(new) ==
  /\ dep.patches > 0
  /\ dep' = [dep EXCEPT !.patches = @ - 1]
  /\ tmpl' = new
  /\ UNCHANGED <<storeVars, at, world>>

Bodies   == {0, dep.patches}
Subjects == {<<>>} \cup {l :> s : l \in Languages, s \in Bodies}

\* POST <admin>/api/templates/mail submits every field, empty or not, under the
\* id of its body, an alias included, which no mail reads.
AdminUpdateMailTemplate ==
  \E id \in {"verify-email", "verify_email"}, html \in Bodies, text \in Bodies, tr \in Subjects :
    Edit(UpdateMailTemplate(tmpl, id, [html |-> html, text |-> text, tr |-> tr]))

\* A host may patch one field and leave the others.
HostUpdateMailTemplate ==
  \E f \in {"html", "text"}, v \in Bodies : Edit(UpdateMailTemplate(tmpl, "verify-email", f :> v))

\* POST <admin>/api/templates/ui.
AdminUpdateUITranslations ==
  \E page \in {"login", "config"} : Edit(UpdateUITranslations(tmpl, page, dep.patches))

MailInit ==
  /\ dep \in Deployments
  /\ users = UserIDs
  /\ email = FirstEmail
  /\ password = [u \in UserIDs |-> IF u \in Passwordless THEN "none" ELSE CHOOSE p \in Passwords : TRUE]
  /\ verified = [u \in UserIDs |-> u \in VerifiedUsers]
  /\ pending = [u \in UserIDs |-> Blank]
  /\ hash = [k \in Kinds |-> [u \in UserIDs |-> NoToken]]
  /\ expiry = [k \in Kinds |-> [u \in UserIDs |-> NoExpiry]]
  /\ byEmail = [e \in Addresses |-> IF \E u \in UserIDs : FirstEmail[u] = e
                                    THEN CHOOSE u \in UserIDs : FirstEmail[u] = e ELSE NoID]
  /\ byToken = [k \in Indexed |-> [t \in Tokens |-> NoID]]
  /\ tmpl = NoTemplates
  /\ at = [c \in Calls |-> Waiting]
  /\ inbox = {} /\ events = {} /\ minted = {} /\ moves = {} /\ overlapped = {}

MailNext ==
  \/ \E c \in Calls :
       \/ ForgotPassword(c) \/ SendVerificationEmail(c) \/ RequestChangeLookup(c)
       \/ SendMagicLink(c) \/ StepUpSubject(c) \/ StepUpLookup(c) \/ SendSMSCode(c)
       \/ StoreToken(c) \/ ConfirmLookup(c) \/ ApplyChange(c) \/ ClearChange(c)
       \/ RenderByMailer(c) \/ HandOver(c) \/ Transport(c)
  \/ AdminUpdateMailTemplate \/ HostUpdateMailTemplate \/ AdminUpdateUITranslations

MailSpec == MailInit /\ [][MailNext]_mailVars

(***************************************************************************)
(* Properties.                                                             *)
(***************************************************************************)
MailTypeOK ==
  /\ StoreTypeOK
  /\ \A i \in minted : i.tok \in Tokens /\ i.kind \in Kinds /\ i.user \in UserIDs
  /\ \A m \in inbox : m.kind \in Senders /\ m.tok \in Tokens \cup {NoToken}
  /\ events \cup moves \subseteq [by : Calls, user : UserIDs, from : Addresses, to : Addresses]
  /\ overlapped \subseteq Calls

\* The lists the admin console pages through know each template and page once.
TemplatesListed == Listed(tmpl.mailOrder, tmpl.mail) /\ Listed(tmpl.uiOrder, tmpl.ui)

\* Every address u has had so far.
Had(u) == {email[u]} \cup {m.from : m \in {x \in moves : x.user = u}}

\* A token is mailed to an address of the account it opens, or texted to its
\* phone; one that confirms a new address, to that address, and to none that a
\* later request has put in its place (delivery_password_email.go:105).
TokensGoHome ==
  \A m \in inbox, i \in minted : m.tok = i.tok =>
    /\ m.kind = i.kind
    /\ m.kind \in {"reset", "magic", "verify"} => m.to \in Had(i.user)
    /\ m.kind = "sms" => m.to = i.user
    /\ m.kind = "change" /\ hash["change"][i.user] = m.tok /\ pending[i.user] # Blank
         => m.to = pending[i.user]

\* Nobody but the deployment decides where a link leads, and it leads to the
\* route that redeems its token (ResolveSiteURL, linkBaseOr, tokenLink).
LinksLeadHome ==
  \A m \in inbox :
    /\ m.base \in dep.allowed \cup {dep.site, dep.base, NoSite}
    /\ m.kind \notin {"sms", "changed"} => \A i \in minted : m.tok = i.tok => m.path = LinkPath(i.kind)

\* The two bodies of a mail are of one template: both stored, or both those
\* registered with the mailer, whatever an administrator writes meanwhile.
OneTemplate ==
  \A m \in inbox : (m.body.html = 0 <=> m.body.text = 0) /\ (m.body.html = 0 => m.body.subject = 0)

\* What lies in the mailboxes is right, and the template lists are complete.
MailIsTrue == MailTypeOK /\ TemplatesListed /\ TokensGoHome /\ LinksLeadHome /\ OneTemplate

Ended(c) == Is(c, "done")
Sent(t)  == \E m \in inbox : m.tok = t

\* The answers tell what happened and no more.  Success on a route that admits
\* failures means that the token has been delivered; an error that a store or a
\* transport failed, or the address was taken; and on the two routes that take
\* any address the answer depends on the deployment and on failures alone, never
\* on whether there is an account (ForgotPassword, SendMagicLink).
AnswersAreTrue ==
  \A c \in Calls : Ended(c) =>
    LET r == at[c].route a == at[c].answer IN
    /\ a = "success" /\ r # "reset" /\ at[c].tok # NoToken /\ dep.sender[KindOf(r)] # "none"
         => Sent(at[c].tok)
    /\ r = "reset" /\ a = "success" /\ ~at[c].hurt /\ at[c].tok # NoToken /\ dep.sender["reset"] # "none"
         => Sent(at[c].tok)
    /\ a = "INTERNAL" => at[c].hurt \/ r = "confirm"
    /\ r \in {"reset", "magic"} /\ ~at[c].hurt
         => a = IF r = "magic" /\ dep.sender["magic"] = "none" THEN "NOT_CONFIGURED" ELSE "success"

Notice(n) == [kind |-> "changed", to |-> n.from, new |-> n.to]

\* A change of address is announced as it happened: the event follows the notice
\* to the old address, and a confirmation that answers success has moved the
\* account as announced, unless it overlapped another change for the same user
\* (ConfirmEmailChange, service.go:861-908).
ChangeIsAnnounced ==
  /\ \A e \in events :
       /\ dep.sender["changed"] # "none"
            => \E m \in inbox : [kind |-> m.kind, to |-> m.to, new |-> m.new] = Notice(e)
       /\ e.by \in overlapped \/ e \in moves
  /\ \A c \in Calls : Ended(c) /\ at[c].route = "confirm" /\ at[c].answer = "success"
       => \E e \in events : e.by = c
=============================================================================
