------------------------------ MODULE HttpWire ------------------------------
(***************************************************************************)
(* The HTTP surface (wire.go, csrf.go, adapter/nethttp): a browser whose   *)
(* tabs share one cookie jar, a bearer client, and the middleware chain in *)
(* front of the routes: rate limiter, CSRF double submit, access gate.     *)
(*                                                                         *)
(* A request takes three steps: it is sent with the cookies of that        *)
(* moment, it is served, and its answer is applied to the jar, so tabs     *)
(* overlap and answers arrive in any order, or not at all.  A token pair   *)
(* is the number of its grant; sessions rotate as in SessionService, here  *)
(* in one step.  The double-submit token is abstracted to its presence: a  *)
(* page of the site mirrors what it reads, another site cannot read it.    *)
(***************************************************************************)
EXTENDS Naturals, Sequences, FiniteSets

CONSTANTS Deployments,   \* configurations and clients to start from
          Scopes,        \* the Domain and Path a host may give its cookies; "root" is Path "/" and no Domain
          Tabs,          \* requests that may be under way
          NoHandle,      \* a path parameter that names no session
          MaxSessions, MaxGrants   \* bounds

Bases    == {"access", "refresh", "csrf"}
Variants == {"host", "secure", "plain"}
Names    == Bases \X Variants

\* What a cookie of a base is stored under: the variant of its name, and its scope.
Marks    == Variants \X Scopes
Cookies  == Bases \X Marks

\* The variant CookieName resolves to: bare when not Secure, __Host- when Secure
\* and host-scoped to "/", else __Secure-.
Options == {o \in [variant : Variants, scope : Scopes] :
  (o.variant = "host" => o.scope = "root") /\ (o.variant = "secure" => o.scope # "root")}

\* What the host configures, the pages that use it and, as bounds, the requests at
\* once and in all and the changes of the options.
Settings ==
  [variant : Variants, scope : Scopes, csrf : BOOLEAN, nested : BOOLEAN, resourceServer : BOOLEAN,
   allCalls : BOOLEAN, pages : SUBSET {"own", "other", "app"}, slots : Nat, requests : Nat, changes : Nat]

ASSUME WireAssumption ==
  /\ MaxSessions \in Nat /\ MaxGrants \in Nat \ {0} /\ "root" \in Scopes
  /\ Deployments \subseteq Settings
  /\ \A d \in Deployments : [variant |-> d.variant, scope |-> d.scope] \in Options

VARIABLES
  dep,        \* the deployment: its Settings, with what is left of the bounds
  jar,        \* the browser's cookies: <<base, mark>> -> grant, 1 for a CSRF token, 0 for none
  app,        \* the grant the bearer client holds, 0 for none
  sessions,   \* session -> [state, cur]: live, revoked or deleted, and its current grant
  grants,     \* grant -> [sid, age]; age 1: access token expired, 2: what it made of the
              \* session expired, 3: refresh token refused, the clock skew being over
  account,    \* the user account exists
  net,        \* net[t]: the request under way in slot t
  foreign,    \* ghost: what requests of another site's page wrote
  overlap, lost, shadowed   \* history: see Send, Lose and Redeploy

vars == <<dep, jar, app, sessions, grants, account, net, foreign, overlap, lost, shadowed>>

(***************************************************************************)
(* The routes, one of each kind the mount has; a segment "handle" is a     *)
(* path parameter that names a session.                                    *)
(***************************************************************************)
Route(m, p, gate, effect) == [method |-> m, path |-> p, gate |-> gate, effect |-> effect]
Routes ==
  {Route("POST",   <<"login">>, FALSE, "login"),
   Route("POST",   <<"refresh">>, FALSE, "refresh"),
   Route("POST",   <<"logout">>, FALSE, "logout"),
   Route("POST",   <<"sessions", "cleanup">>, FALSE, "cleanup"),
   Route("POST",   <<"link-request">>, FALSE, "link"),
   Route("PATCH",  <<"profile">>, TRUE, "write"),
   Route("DELETE", <<"linked-accounts", "auth", "login">>, TRUE, "write"),
   Route("DELETE", <<"sessions", "handle">>, TRUE, "revoke"),
   Route("DELETE", <<"sessions", "cleanup">>, TRUE, "revoke"),
   Route("DELETE", <<"account">>, TRUE, "delete"),
   Route("GET",    <<"me">>, TRUE, "read")}

\* The credential routes a resource server does not mount.
ResourceServerGated == {"login", "refresh", "logout"}
Mounted(rt) == ~(dep.resourceServer /\ rt.effect \in ResourceServerGated)

\* The host may mount the adapter below a group whose base is the prefix again.
ServedPath(rt) == (IF dep.nested THEN <<"auth">> ELSE <<>>) \o <<"auth">> \o rt.path

(***************************************************************************)
(* Cookies.  One of the same name and another Domain or Path is another    *)
(* cookie; a __Host- cookie has Path "/" and no Domain, whatever else the  *)
(* options say.                                                            *)
(***************************************************************************)
Mark(o, v) == <<v, IF v = "host" THEN "root" ELSE o.scope>>
CookieName(base) == <<base, Mark(dep, dep.variant)>>

\* The broken variant of the next definition: the bare name is read first.
CookieValueBareFirst(sent, base) ==
  IF sent[<<base, "plain">>] # 0 THEN sent[<<base, "plain">>]
  ELSE IF sent[<<base, "secure">>] # 0 THEN sent[<<base, "secure">>]
  ELSE sent[<<base, "host">>]

CookieValue(sent, base) ==
  IF sent[<<base, "host">>] # 0 THEN sent[<<base, "host">>]
  ELSE IF sent[<<base, "secure">>] # 0 THEN sent[<<base, "secure">>]
  ELSE sent[<<base, "plain">>]

\* A site served over http sees no __Host- and no __Secure- cookie, and cannot
\* write one; a refresh cookie that is not __Host- is scoped to <prefix>/refresh,
\* a path a nested mount does not serve.
Reachable(v) == dep.variant # "plain" \/ v = "plain"
InScope(c, rt) ==
  c[1] # "refresh" \/ c[2] = "host" \/ (rt.effect = "refresh" /\ ~dep.nested)

\* The cookie of a name that comes first in the request: of those of several
\* scopes it is one the browser chooses, say that of scope s.
Listed(c, s) ==
  LET there == {z \in Scopes : jar[<<c[1], <<c[2], z>>>>] # 0} IN
  IF there = {} THEN 0
  ELSE jar[<<c[1], <<c[2], IF s \in there THEN s ELSE CHOOSE z \in there : TRUE>>>>]

\* What the browser attaches, the access cookie of scope s and the refresh cookie of
\* scope z in front.
Attached(rt, s, z) ==
  [c \in Names |-> IF Reachable(c[2]) /\ InScope(c, rt)
                   THEN Listed(c, IF c[1] = "access" THEN s ELSE z) ELSE 0]

\* The cookies an answer sets: a function from cookies to values, 0 to expire.
\* One is expired under every variant of its name, but in the scope of the day.
NoCookies == [c \in {} |-> 0]
Expiring(b, variants) == [c \in {<<base, Mark(dep, v)>> : base \in b, v \in variants} |-> 0]

\* The broken variant of the next definition: only the name in use is expired.
ClearingTheName(b) == Expiring(b, {dep.variant})

Clearing(b) == Expiring(b, {v \in Variants : Reachable(v)})
ClearAuthCookies ==
  Clearing({"access", "refresh"} \cup (IF dep.csrf THEN {"csrf"} ELSE {}))

\* SetAccessTokenCookie and SetRefreshTokenCookie.
TokenCookies(g) == [c \in {CookieName("access"), CookieName("refresh")} |-> g]
Over(f, g)      == [c \in DOMAIN f \cup DOMAIN g |-> IF c \in DOMAIN f THEN f[c] ELSE g[c]]

(***************************************************************************)
(* What a request carries.                                                 *)
(***************************************************************************)
UsingBearerCredential(rq) == rq.bearer # 0
IsBearerClient(rq)        == rq.page = "app"   \* sends X-Auth-Strategy: bearer
AccessTokenFromRequest(rq) ==
  IF rq.bearer # 0 THEN rq.bearer ELSE CookieValue(rq.sent, "access")
RefreshTokenFromRequest(rq) ==
  IF rq.body # 0 THEN rq.body ELSE CookieValue(rq.sent, "refresh")

(***************************************************************************)
(* The double submit.                                                      *)
(***************************************************************************)
ExemptRoutes ==
  {<<"POST", <<"login">>>>, <<"POST", <<"refresh">>>>, <<"POST", <<"logout">>>>,
   <<"POST", <<"sessions", "cleanup">>>>}
ManualCheckRoutes == {<<"POST", <<"link-request">>>>}
IsMutatingMethod(m) == m # "GET"

\* The route below every occurrence of the prefix, leftmost first.
RelativePaths(path) ==
  LET at == {i \in DOMAIN path : path[i] = "auth"}
      nth(k) == CHOOSE i \in at : Cardinality({j \in at : j <= i}) = k
  IN [k \in 1..Cardinality(at) |-> SubSeq(path, nth(k) + 1, Len(path))]

\* The broken variant of the next definition: only a request that carries the
\* access cookie is checked, the manual routes included.
CSRFEnforcedWithCookieOnly(rq) ==
  LET rels == RelativePaths(ServedPath(rq.route)) m == rq.route.method IN
  /\ IsMutatingMethod(m)
  /\ <<m, rels[1]>> \notin ExemptRoutes
  /\ CookieValue(rq.sent, "access") # 0

CSRFEnforced(rq) ==
  LET rels == RelativePaths(ServedPath(rq.route)) m == rq.route.method IN
  /\ IsMutatingMethod(m)
  /\ \/ \E k \in DOMAIN rels : <<m, rels[k]>> \in ManualCheckRoutes
     \/ <<m, rels[1]>> \notin ExemptRoutes /\ CookieValue(rq.sent, "access") # 0

\* A page of the site mirrors the token it reads; a fresh token is not yet known to it.
HeaderMatches(rq) == rq.page = "own" /\ CookieValue(rq.sent, "csrf") # 0
CSRFRefuses(rq) ==
  dep.csrf /\ ~UsingBearerCredential(rq) /\ CSRFEnforced(rq) /\ ~HeaderMatches(rq)

\* A request without a readable token is answered with a fresh one.
Distributed(rq) ==
  IF dep.csrf /\ CookieValue(rq.sent, "csrf") = 0 /\ ~IsBearerClient(rq)
  THEN [c \in {CookieName("csrf")} |-> 1] ELSE NoCookies

(***************************************************************************)
(* Tokens and sessions.                                                    *)
(***************************************************************************)
Sid(g)        == grants[g].sid
AccessOK(g)   == grants[g].age < 1
RefreshOK(g)  == grants[g].age < 3
Deleted(s)    == sessions[s].state = "deleted"
Revoked(s)    == sessions[s].state = "revoked"
Current(g)    == ~Deleted(Sid(g)) /\ sessions[Sid(g)].cur = g
Revoke(S)     == [s \in DOMAIN sessions |->
                    IF s \in S /\ ~Deleted(s) THEN [sessions[s] EXCEPT !.state = "revoked"] ELSE sessions[s]]

\* ExpiresAt, which a rotation moves on, has passed.
Expired(s)    == grants[sessions[s].cur].age >= 2

\* Authenticate, through AccessHTTPError: why an access token is refused, or "".
AccessRefusal(g) ==
  IF g = 0 THEN "NO_ACCESS_TOKEN"
  ELSE IF ~AccessOK(g) THEN "INVALID_ACCESS_TOKEN"
  ELSE IF dep.allCalls /\ Revoked(Sid(g)) THEN "SESSION_REVOKED"
  ELSE IF ~account \/ (dep.allCalls /\ Deleted(Sid(g))) THEN "INVALID_ACCESS_TOKEN" ELSE ""

\* Refresh, through RefreshHTTPError.
RefreshRefusal(g) ==
  IF g = 0 THEN "NO_REFRESH_TOKEN"
  ELSE IF ~RefreshOK(g) THEN "EXPIRED_REFRESH_TOKEN"
  ELSE IF ~Current(g) THEN "INVALID_REFRESH_TOKEN"
  ELSE IF Revoked(Sid(g)) THEN "SESSION_REVOKED"
  ELSE IF ~account THEN "EXPIRED_REFRESH_TOKEN" ELSE ""

\* LogoutRequest: the sessions a logout revokes.
LogoutRequest(rq) ==
  LET r == RefreshTokenFromRequest(rq) a == AccessTokenFromRequest(rq) IN
  IF r # 0 /\ RefreshOK(r) /\ Current(r) THEN {Sid(r)}
  ELSE IF a # 0 /\ AccessOK(a) THEN {Sid(a)} ELSE {}

(***************************************************************************)
(* Requests.                                                               *)
(***************************************************************************)
Idle == [phase |-> "idle"]

Init ==
  /\ dep \in Deployments
  /\ jar = [c \in Cookies |-> 0] /\ app = 0
  /\ sessions = <<>> /\ grants = <<>> /\ account = TRUE
  /\ net = [t \in Tabs |-> Idle]
  /\ foreign = {} /\ overlap = FALSE /\ lost = FALSE /\ shadowed = FALSE

\* The routes that write or expire token cookies.
TokenRoutes == {"login", "refresh", "logout", "delete"}

Effects(t) == CASE net[t].phase = "idle" -> {}
                [] net[t].phase = "sent" -> {net[t].route.effect}
                [] net[t].phase = "answered" -> {net[t].effect}

\* A page of the site, a page of another site, or the bearer client sends a
\* request.  The browser may withhold its cookies from another site's page.
Send(t) == \E page \in dep.pages, rt \in Routes, h \in DOMAIN sessions \cup {NoHandle}, attach \in BOOLEAN,
             s, z \in Scopes :
  /\ net[t].phase = "idle"
  /\ Cardinality({u \in Tabs : net[u].phase # "idle"}) < dep.slots
  /\ dep.requests > 0
  /\ dep' = [dep EXCEPT !.requests = @ - 1]
  /\ Mounted(rt)
  /\ (rt.path = <<"sessions", "handle">>) = (h # NoHandle)
  /\ attach \/ page = "other"
  /\ net' = [net EXCEPT ![t] =
       [phase |-> "sent", page |-> page, route |-> rt, handle |-> h,
        sent   |-> IF page = "app" \/ ~attach THEN [c \in Names |-> 0] ELSE Attached(rt, s, z),
        bearer |-> IF page = "app" THEN app ELSE 0,
        body   |-> IF page = "app" /\ rt.effect \in {"refresh", "logout"} THEN app ELSE 0]]
  /\ overlap' = (\/ overlap
                \/ /\ rt.effect \in TokenRoutes
                   /\ \E u \in Tabs \ {t} : Effects(u) \cap TokenRoutes # {})
  /\ UNCHANGED <<jar, app, sessions, grants, account, foreign, lost, shadowed>>

At(t, effects) == net[t].phase = "sent" /\ net[t].route.effect \in effects

\* The answer: a code, the cookies it sets, the grant its body delivers.  One
\* that changes nothing at the client needs no arrival.
Answer(t, code, cookies, g) ==
  LET idle == net[t].route.effect \notin TokenRoutes /\ (cookies = NoCookies \/ net[t].page = "app") IN
  net' = [net EXCEPT ![t] =
            IF idle THEN Idle
            ELSE [phase |-> "answered", page |-> net[t].page, effect |-> net[t].route.effect,
                  code |-> code, cookies |-> cookies, body |-> g]]
Refuse(t, code, cookies) ==
  /\ Answer(t, code, cookies, 0)
  /\ UNCHANGED <<dep, jar, app, sessions, grants, account, foreign, overlap, lost, shadowed>>
Writes == {"write", "link", "revoke", "delete"}
Effect(t) ==
  foreign' = foreign \cup {e \in Writes : net[t].page = "other" /\ e = net[t].route.effect}

\* The host's limiter is outermost: it answers before anything is looked at.
RateLimited(t) ==
  /\ net[t].phase = "sent"
  /\ Refuse(t, "TOO_MANY_REQUESTS", NoCookies)

\* The double submit, behind the limiter and in front of the routes.
CSRFRefused(t) ==
  /\ net[t].phase = "sent"
  /\ CSRFRefuses(net[t])
  /\ Refuse(t, "CSRF_INVALID", Distributed(net[t]))

\* The access gate of the routes behind Middleware, and of GET /me itself.
GateRefused(t) ==
  LET rq == net[t] why == AccessRefusal(AccessTokenFromRequest(rq)) IN
  /\ rq.phase = "sent" /\ rq.route.gate
  /\ ~CSRFRefuses(rq)
  /\ why # ""
  /\ Refuse(t, why, Distributed(rq))

Admitted(t) ==
  /\ ~CSRFRefuses(net[t])
  /\ net[t].route.gate => AccessRefusal(AccessTokenFromRequest(net[t])) = ""

\* The broken variant of the next definition: a refresh cookie the browser
\* already holds is not written again.
WriteTokensAccessOnly(t, g) ==
  IF IsBearerClient(net[t]) THEN Answer(t, "OK", Distributed(net[t]), g)
  ELSE IF CookieValue(net[t].sent, "refresh") # 0
  THEN Answer(t, "OK", [c \in {CookieName("access")} |-> g], 0)
  ELSE Answer(t, "OK", Over(TokenCookies(g), Distributed(net[t])), 0)

\* WriteTokens: a bearer client gets the pair in the body, anyone else as cookies.
WriteTokens(t, g) ==
  IF IsBearerClient(net[t]) THEN Answer(t, "OK", Distributed(net[t]), g)
  ELSE Answer(t, "OK", Over(TokenCookies(g), Distributed(net[t])), 0)

Minted == Len(grants) + 1

\* POST /login: a new session, or a refusal of the credentials.
Login(t) ==
  /\ At(t, {"login"}) /\ Admitted(t)
  /\ \/ Refuse(t, "INVALID_CREDENTIALS", Distributed(net[t]))
     \/ /\ account
        /\ Len(sessions) < MaxSessions /\ Len(grants) < MaxGrants
        /\ sessions' = Append(sessions, [state |-> "live", cur |-> Minted])
        /\ grants' = Append(grants, [sid |-> Len(sessions) + 1, age |-> 0])
        /\ WriteTokens(t, Minted)
        /\ Effect(t)
        /\ UNCHANGED <<dep, jar, app, account, overlap, lost, shadowed>>

\* POST /refresh: the pair is rotated, or the refusal says why it is not.
Refresh(t) ==
  LET g == RefreshTokenFromRequest(net[t]) why == RefreshRefusal(g) IN
  /\ At(t, {"refresh"}) /\ Admitted(t)
  /\ IF why # "" THEN Refuse(t, why, Distributed(net[t]))
     ELSE /\ Len(grants) < MaxGrants
          /\ sessions' = [sessions EXCEPT ![Sid(g)].cur = Minted]
          /\ grants' = Append(grants, [sid |-> Sid(g), age |-> 0])
          /\ WriteTokens(t, Minted)
          /\ Effect(t)
          /\ UNCHANGED <<dep, jar, app, account, overlap, lost, shadowed>>

\* POST /logout: best effort, and the cookies expire under every variant of their
\* names.
Logout(t) ==
  /\ At(t, {"logout"}) /\ Admitted(t)
  /\ sessions' = Revoke(LogoutRequest(net[t]))
  /\ Answer(t, "OK", Over(ClearAuthCookies, Distributed(net[t])), 0)
  /\ Effect(t)
  /\ UNCHANGED <<dep, jar, app, grants, account, overlap, lost, shadowed>>

\* DELETE /sessions/{handle}: one that is not found, not yours, revoked before or
\* expired is one answer.
RevokeSession(t) ==
  LET h == net[t].handle IN
  /\ At(t, {"revoke"}) /\ Admitted(t)
  /\ IF h = NoHandle \/ (h # NoHandle /\ (sessions[h].state # "live" \/ Expired(h)))
     THEN Refuse(t, "NOT_FOUND", Distributed(net[t]))
     ELSE /\ sessions' = Revoke({h})
          /\ Answer(t, "OK", Distributed(net[t]), 0)
          /\ Effect(t)
          /\ UNCHANGED <<dep, jar, app, grants, account, overlap, lost, shadowed>>

\* DELETE /account: every session is revoked, the account goes, the cookies expire.
DeleteAccount(t) ==
  /\ At(t, {"delete"}) /\ Admitted(t)
  /\ sessions' = Revoke(DOMAIN sessions)
  /\ account' = FALSE
  /\ Answer(t, "OK", Over(ClearAuthCookies, Distributed(net[t])), 0)
  /\ Effect(t)
  /\ UNCHANGED <<dep, jar, app, grants, overlap, lost, shadowed>>

\* POST /sessions/cleanup: expired sessions go, though the skew may still accept
\* their tokens.
CleanupSessions(t) ==
  /\ At(t, {"cleanup"}) /\ Admitted(t)
  /\ sessions' = [s \in DOMAIN sessions |->
                    IF Expired(s) THEN [sessions[s] EXCEPT !.state = "deleted"] ELSE sessions[s]]
  /\ Answer(t, "OK", Distributed(net[t]), 0)
  /\ Effect(t)
  /\ UNCHANGED <<dep, jar, app, grants, account, overlap, lost, shadowed>>

\* The other routes: PATCH /profile, DELETE /linked-accounts/..., POST
\* /link-request and GET /me change no session.
OtherRoute(t) ==
  /\ At(t, {"write", "link", "read"}) /\ Admitted(t)
  /\ Answer(t, "OK", Distributed(net[t]), 0)
  /\ Effect(t)
  /\ UNCHANGED <<dep, jar, app, sessions, grants, account, overlap, lost, shadowed>>

(***************************************************************************)
(* The clients and the deployment.                                         *)
(***************************************************************************)

\* The answer arrives: the browser applies its cookies, the bearer client
\* keeps the pair of its body and drops what a logout or a refusal ended.
Receive(t) ==
  /\ net[t].phase = "answered"
  /\ jar' = IF net[t].page = "app" THEN jar
            ELSE [c \in Cookies |-> IF c \in DOMAIN net[t].cookies THEN net[t].cookies[c] ELSE jar[c]]
  /\ app' = IF net[t].page # "app" THEN app
            ELSE IF net[t].body # 0 THEN net[t].body
            ELSE IF net[t].effect \in {"logout", "delete"} /\ net[t].code = "OK" THEN 0 ELSE app
  /\ net' = [net EXCEPT ![t] = Idle]
  /\ UNCHANGED <<dep, sessions, grants, account, foreign, overlap, lost, shadowed>>

\* A request or its answer is lost on the way; the loss of one that would not
\* have touched the token cookies changes nothing.
Lose(t) ==
  /\ Effects(t) \cap TokenRoutes # {}
  /\ net' = [net EXCEPT ![t] = Idle]
  /\ lost' = TRUE
  /\ UNCHANGED <<dep, jar, app, sessions, grants, account, foreign, overlap, shadowed>>

\* Time: a grant's access token expires, then the session as of the grant, and the
\* cookie with it; the refresh token is accepted for the clock skew more.  All
\* grants live equally long, so they expire in the order of issue, and no answer
\* travels for as long as the tokens it carries live.
Expire(g) ==
  /\ \A t \in Tabs : net[t].phase = "answered" => \A c \in DOMAIN net[t].cookies : c[1] = "csrf" \/ net[t].cookies[c] # g
  /\ grants[g].age < 3
  /\ \A h \in 1..(g - 1) : grants[h].age > grants[g].age
  /\ grants' = [grants EXCEPT ![g].age = @ + 1]
  /\ jar' = [c \in Cookies |->
               IF (c[1] = "access" /\ jar[c] = g) \/ (c[1] = "refresh" /\ jar[c] = g /\ grants[g].age = 1)
               THEN 0 ELSE jar[c]]
  /\ UNCHANGED <<dep, app, sessions, account, net, foreign, overlap, lost, shadowed>>

\* The CSRF cookie has a lifetime of its own.
ExpireCSRF ==
  /\ \E c \in Cookies : c[1] = "csrf" /\ jar[c] # 0
  /\ jar' = [c \in Cookies |-> IF c[1] = "csrf" THEN 0 ELSE jar[c]]
  /\ UNCHANGED <<dep, app, sessions, grants, account, net, foreign, overlap, lost, shadowed>>

\* A refresh cookie of one of the marks is in the jar or on its way.
Held(marks) == \E m \in marks :
  \/ jar[<<"refresh", m>>] # 0
  \/ \E t \in Tabs : /\ net[t].phase = "answered" /\ <<"refresh", m>> \in DOMAIN net[t].cookies
                     /\ net[t].cookies[<<"refresh", m>>] # 0
HeldAs(variants) == Held({m \in Marks : m[1] \in variants})

\* Under the options o cookies of other names are read in front of those written
\* last: __Host- in front of __Secure-, prefixed ones that plain http hid, or
\* plain ones that had been replaced.
Shadows(o) ==
  \/ o.variant = "secure" /\ HeldAs({"host"})
  \/ dep.variant = "plain" /\ HeldAs({"host", "secure"})
  \/ o.variant = "plain" /\ HeldAs({"plain"}) /\ HeldAs({"host", "secure"})

\* Cookies of another Domain or Path are neither written over nor expired any more.
LeavesBehind(o) == Held({m \in Marks : m # Mark(o, m[1])})

\* The host changes Secure, Domain or Path.  The old process serves what it
\* accepted before it stops.
Redeploy == \E o \in Options :
  /\ o # [variant |-> dep.variant, scope |-> dep.scope]
  /\ dep.changes > 0
  /\ \A t \in Tabs : net[t].phase # "sent"
  /\ shadowed' = (shadowed \/ Shadows(o) \/ LeavesBehind(o))
  /\ dep' = [dep EXCEPT !.variant = o.variant, !.scope = o.scope, !.changes = @ - 1]
  /\ UNCHANGED <<jar, app, sessions, grants, account, net, foreign, overlap, lost>>

Next ==
  \/ \E t \in Tabs :
       \/ Send(t) \/ RateLimited(t) \/ CSRFRefused(t) \/ GateRefused(t)
       \/ Login(t) \/ Refresh(t) \/ Logout(t) \/ RevokeSession(t) \/ DeleteAccount(t)
       \/ CleanupSessions(t) \/ OtherRoute(t)
       \/ Receive(t) \/ Lose(t)
  \/ \E g \in DOMAIN grants : Expire(g)
  \/ ExpireCSRF
  \/ Redeploy

Spec == Init /\ [][Next]_vars

(***************************************************************************)
(* Properties.                                                             *)
(***************************************************************************)
TypeOK ==
  /\ jar \in [Cookies -> 0..MaxGrants] /\ app \in 0..Len(grants)
  /\ sessions \in Seq([state : {"live", "revoked", "deleted"}, cur : DOMAIN grants])
  /\ grants \in Seq([sid : DOMAIN sessions, age : 0..3])
  /\ \A t \in Tabs : net[t].phase \in {"idle", "sent", "answered"}

\* A session's current grant is the last one minted for it.
NewestIsCurrent ==
  \A g \in DOMAIN grants : sessions[Sid(g)].cur >= g

\* The cookies a page would present, whatever path they are scoped to, those of
\* scope s in front.
Presented(base, s) ==
  CookieValue([c \in Names |-> IF Reachable(c[2]) THEN Listed(c, s) ELSE 0], base)
InTurn == ~overlap /\ ~lost /\ ~shadowed

\* The access and the refresh cookie the server would read belong to one
\* session, across logins, refreshes and changes of the cookie names.
PairsMatch == \A s, z \in Scopes :
  LET a == Presented("access", s) r == Presented("refresh", z) IN
  InTurn /\ a # 0 /\ r # 0 => Sid(a) = Sid(r)

\* The jar is well-formed, rotation is linear, and the cookies CookieValue
\* resolves are of one session as long as no two token requests overlapped, no
\* answer was lost and no change of the options shadowed the cookies written last
\* or left some behind under another Domain or Path.
WireConsistent == TypeOK /\ NewestIsCurrent /\ PairsMatch

\* With the double submit enabled a page of another site causes no write on
\* behalf of the browser's user: what it reaches are the exempt routes and
\* reads, whatever the mount, the cookies attached and the path parameters
\* (CSRFMiddleware, csrfEnforced, the access gate).
ForeignPagesWriteNothing ==
  dep.csrf => foreign = {}

Served(t, effect) == At(t, {effect}) /\ net'[t].phase = "answered"

\* A logout that is answered has ended the session of the refresh token it
\* carried, or failing that of its access token.  Once its answer arrives the
\* browser holds no token cookie that the site could read, under whatever name it
\* was written and whatever requests overlapped, unless the options changed while
\* the answer travelled, or an earlier change left cookies of another Domain or
\* Path behind, which no logout can expire, or shadowed those written last
\* (LogoutRequest, ClearAuthCookies).
LogoutEnds == [][\A t \in Tabs :
  /\ Served(t, "logout") /\ net'[t].code = "OK" =>
       LET r == RefreshTokenFromRequest(net[t]) a == AccessTokenFromRequest(net[t]) IN
       /\ r # 0 /\ RefreshOK(r) /\ Current(r) => sessions'[Sid(r)].state = "revoked"
       /\ a # 0 /\ AccessOK(a) /\ (r # 0 => Sid(r) = Sid(a)) => sessions'[Sid(a)].state = "revoked"
  /\ net[t].phase = "answered" /\ net[t].effect = "logout" /\ net[t].page # "app"
     /\ net[t].code = "OK" /\ net'[t].phase = "idle" /\ ~lost'
     /\ ~shadowed /\ DOMAIN ClearAuthCookies \subseteq DOMAIN net[t].cookies =>
       \A c \in Cookies : c[1] # "csrf" /\ Reachable(c[2][1]) => jar'[c] = 0]_vars

\* A client that refreshes in turn is not told that its refresh token is unknown
\* before its session has expired: the token it presents is its session's current
\* one, across changes of the cookie names, and a cleanup takes none that is still
\* in use.  And a revoked session's refresh is answered SESSION_REVOKED, the one
\* code clients log out on (RefreshHTTPError, CookieValue, WriteTokens,
\* DeleteExpiredSessions).
RefreshAnswersAreTrue == [][\A t \in Tabs :
  Served(t, "refresh") =>
    LET g == RefreshTokenFromRequest(net[t]) IN
    g # 0 /\ InTurn =>
      /\ grants[g].age < 2 => net'[t].code # "INVALID_REFRESH_TOKEN"
      /\ RefreshOK(g) /\ Revoked(Sid(g))
           => net'[t].code \in {"SESSION_REVOKED", "CSRF_INVALID", "TOO_MANY_REQUESTS"}]_vars
=============================================================================
