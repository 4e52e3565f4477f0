---------------------------- MODULE HttpWireProofs ----------------------------
(***************************************************************************)
(* Proofs about HttpWire, for any deployments, any number of tabs, and any *)
(* number of changes of the cookies' names and scopes.                     *)
(*                                                                         *)
(* The jar is fine by itself: under each mark, of variant and scope, the   *)
(* access cookie is that of the refresh cookie as long as it lives         *)
(* (JarFine).  As long as no change of the options shadowed cookies or     *)
(* left some behind, those of any scope but that of the day are gone       *)
(* (NoneLeft).  While requests are in turn (Turns) at most one token       *)
(* request is under way, the cookies read first are the newest (Ordered),  *)
(* and what a client would present next, once the answer under way has     *)
(* arrived, is its session's current grant (Shown).  The browser and the   *)
(* bearer client never hold grants of one session (Apart).                 *)
(***************************************************************************)
EXTENDS HttpWire, FiniteSetTheorems, TLAPS

(***************************************************************************)
(* What is always so.                                                      *)
(***************************************************************************)
GrantsFine ==
  /\ Len(grants) \in Nat /\ Len(grants) <= MaxGrants /\ Len(sessions) \in Nat
  /\ grants = [g \in 1..Len(grants) |-> grants[g]] /\ sessions = [s \in 1..Len(sessions) |-> sessions[s]]
  /\ \A g \in 1..Len(grants) :
       /\ grants[g] = [sid |-> grants[g].sid, age |-> grants[g].age]
       /\ grants[g].sid \in 1..Len(sessions) /\ grants[g].age \in 0..3
       /\ sessions[grants[g].sid].cur >= g
  /\ \A g, h \in 1..Len(grants) : g < h => grants[g].age >= grants[h].age
  /\ \A s \in 1..Len(sessions) :
       /\ sessions[s] = [state |-> sessions[s].state, cur |-> sessions[s].cur]
       /\ sessions[s].state \in {"live", "revoked", "deleted"} /\ sessions[s].cur \in 1..Len(grants)
       /\ sessions[s].state = "deleted" => grants[sessions[s].cur].age >= 2

\* No grant, or one of these.
Known(g, gs) == g = 0 \/ g \in 1..Len(gs)

JarFine ==
  /\ jar = [c \in Cookies |-> jar[c]]
  /\ \A n \in Marks :
       /\ jar[<<"csrf", n>>] \in {0, 1}
       /\ Known(jar[<<"refresh", n>>], grants)
       /\ jar[<<"refresh", n>>] # 0 => grants[jar[<<"refresh", n>>]].age < 2
       /\ jar[<<"access", n>>] =
            IF jar[<<"refresh", n>>] # 0 /\ grants[jar[<<"refresh", n>>]].age = 0 THEN jar[<<"refresh", n>>] ELSE 0

SentFine(q, gs, ss) ==
  /\ q = [phase |-> "sent", page |-> q.page, route |-> q.route, handle |-> q.handle,
          sent |-> q.sent, bearer |-> q.bearer, body |-> q.body]
  /\ q.route \in Routes
  /\ q.handle = NoHandle \/ q.handle \in 1..Len(ss)
  /\ Known(q.bearer, gs) /\ Known(q.body, gs)
  /\ \A n \in Variants : Known(q.sent[<<"access", n>>], gs) /\ Known(q.sent[<<"refresh", n>>], gs)
  /\ q.page # "app" => q.bearer = 0 /\ q.body = 0
  /\ q.page = "app" => \A c \in Names : q.sent[c] = 0

\* The cookies of an answer: token cookies come in pairs that are fresh, and
\* only from the token routes.
CookiesFine(k, effect, gs) ==
  /\ DOMAIN k \subseteq Cookies
  /\ \A n \in Marks :
       /\ <<"csrf", n>> \in DOMAIN k => k[<<"csrf", n>>] \in {0, 1}
       /\ <<"access", n>> \in DOMAIN k <=> <<"refresh", n>> \in DOMAIN k
       /\ <<"refresh", n>> \in DOMAIN k =>
            /\ effect \in TokenRoutes
            /\ Known(k[<<"refresh", n>>], gs) /\ k[<<"access", n>>] = k[<<"refresh", n>>]
            /\ k[<<"refresh", n>>] # 0 => gs[k[<<"refresh", n>>]].age = 0

\* An answered logout sets no token.
Cleared(k) == \A n \in Marks : <<"refresh", n>> \in DOMAIN k => k[<<"refresh", n>>] = 0

AnswerFine(q, gs) ==
  /\ q = [phase |-> "answered", page |-> q.page, effect |-> q.effect, code |-> q.code, cookies |-> q.cookies, body |-> q.body]
  /\ CookiesFine(q.cookies, q.effect, gs)
  /\ Known(q.body, gs)
  /\ q.page # "app" => q.body = 0
  /\ q.page = "app" => \A n \in Marks : <<"refresh", n>> \in DOMAIN q.cookies => q.cookies[<<"refresh", n>>] = 0
  /\ q.body # 0 => q.effect \in {"login", "refresh"}
  /\ q.effect = "logout" /\ q.code = "OK" => Cleared(q.cookies)

RequestFine(q, gs, ss) ==
  \/ q.phase = "idle" /\ q = Idle
  \/ q.phase = "sent" /\ SentFine(q, gs, ss)
  \/ q.phase = "answered" /\ AnswerFine(q, gs)

NetFine ==
  /\ net = [t \in Tabs |-> net[t]]
  /\ \A t \in Tabs : RequestFine(net[t], grants, sessions)

\* The grants that the browser holds, or that are on the way to or from it, and
\* those of the bearer client.
TokenCookie == {"access", "refresh"} \X Variants
SentBy(q, g)   == q.phase = "sent" /\ \E c \in TokenCookie : q.sent[c] = g
PutBy(q, g)    == q.phase = "answered" /\ \E n \in Marks : <<"refresh", n>> \in DOMAIN q.cookies /\ q.cookies[<<"refresh", n>>] = g
CarriedBy(q, g) == \/ q.phase = "sent" /\ g \in {q.bearer, q.body}
                   \/ q.phase = "answered" /\ q.body = g
BrowserHas(j, w, g) == \/ \E n \in Marks : j[<<"refresh", n>>] = g
                       \/ \E t \in Tabs : SentBy(w[t], g) \/ PutBy(w[t], g)
AppHas(a, w, g)     == a = g \/ \E t \in Tabs : CarriedBy(w[t], g)

Apart == \A g, h \in 1..Len(grants) : BrowserHas(jar, net, g) /\ AppHas(app, net, h) => Sid(g) # Sid(h)

(***************************************************************************)
(* What is so while no change of the options left cookies behind.          *)
(***************************************************************************)
\* What a cookie of the variant n is stored under in the scope z.
MarkAt(z, n) == <<n, IF n = "host" THEN "root" ELSE z>>

\* A mark that no cookie is written or expired under, and an answer without such tokens.
Stray(z, n) == n # MarkAt(z, n[1])
Tidy(z, k)  == \A n \in Marks : Stray(z, n) /\ <<"refresh", n>> \in DOMAIN k => k[<<"refresh", n>>] = 0

NoneLeft ==
  /\ \A n \in Marks : Stray(dep.scope, n) => jar[<<"refresh", n>>] = 0
  /\ \A t \in Tabs : net[t].phase = "answered" => Tidy(dep.scope, net[t].cookies)

(***************************************************************************)
(* What is so while the requests are in turn.                              *)
(***************************************************************************)
Waiting(q)  == q.phase = "sent" /\ q.route.effect \in TokenRoutes
Arriving(q) == q.phase = "answered" /\ q.effect \in TokenRoutes

\* The refresh cookies of the jar j in the scope z, and what it and the bearer client,
\* who holds the grant g, have once the answer q has arrived.
Refreshes(j, z) == [n \in Variants |-> j[<<"refresh", MarkAt(z, n)>>]]
After(j, q, z)  ==
  [n \in Variants |-> IF q.page # "app" /\ <<"refresh", MarkAt(z, n)>> \in DOMAIN q.cookies
                      THEN q.cookies[<<"refresh", MarkAt(z, n)>>] ELSE j[<<"refresh", MarkAt(z, n)>>]]
AppAfter(g, q) == IF q.page = "app" /\ q.body # 0 THEN q.body ELSE g

\* What is read first is newer.
Newer(f, n, m) == f[n] # 0 /\ f[m] # 0 => f[n] > f[m]
Ordered(f, v) ==
  /\ Newer(f, "host", "secure")
  /\ v # "plain" => Newer(f, "host", "plain") /\ Newer(f, "secure", "plain")
  /\ v = "secure" => f["host"] = 0

\* The refresh token a request would carry.
Shown(f, v) == IF v = "plain" THEN f["plain"]
               ELSE IF f["host"] # 0 THEN f["host"] ELSE IF f["secure"] # 0 THEN f["secure"] ELSE f["plain"]

Usable(g, gs, ss)  == g = 0 \/ ss[gs[g].sid].cur = g
Good(f, v, gs, ss) == Ordered(f, v) /\ Usable(Shown(f, v), gs, ss)

Turns ==
  /\ \A t, u \in Tabs : (Waiting(net[t]) \/ Arriving(net[t])) /\ (Waiting(net[u]) \/ Arriving(net[u])) => t = u
  /\ Ordered(Refreshes(jar, dep.scope), dep.variant)
  /\ (\A t \in Tabs : ~Arriving(net[t])) => Good(Refreshes(jar, dep.scope), dep.variant, grants, sessions) /\ Usable(app, grants, sessions)
  /\ \A t \in Tabs : Arriving(net[t]) =>
       Good(After(jar, net[t], dep.scope), dep.variant, grants, sessions) /\ Usable(AppAfter(app, net[t]), grants, sessions)
  /\ \A t \in Tabs : Waiting(net[t]) /\ net[t].route.effect = "refresh" =>
       Usable(RefreshTokenFromRequest(net[t]), grants, sessions)

ForeignFine == dep.csrf => foreign = {}

Always == /\ dep \in Settings /\ dep.variant \in Variants /\ dep.scope \in Scopes /\ Known(app, grants)
          /\ GrantsFine /\ JarFine /\ NetFine /\ Apart /\ ForeignFine
IInv == Always /\ (~shadowed => NoneLeft) /\ (InTurn => Turns)

(***************************************************************************)
(* Cookies, and functions of their names.                                  *)
(***************************************************************************)
\* A cookie is known by its base and its mark, a name by its base and its variant.
LEMMA CookieNames ==
  /\ \A b \in Bases, n \in Marks : <<b, n>> \in Cookies /\ <<b, n>>[1] = b /\ <<b, n>>[2] = n
  /\ \A c \in Cookies : c[1] \in Bases /\ c[2] \in Marks /\ c = <<c[1], c[2]>>
  /\ \A b \in Bases, n \in Variants : <<b, n>> \in Names /\ <<b, n>>[1] = b /\ <<b, n>>[2] = n
  /\ \A c \in Names : c[1] \in Bases /\ c[2] \in Variants /\ c = <<c[1], c[2]>>
BY DEF Cookies, Names

\* Every variant has its mark in every scope, and marks of different variants differ.
LEMMA MarksOf ==
  ASSUME WireAssumption
  PROVE  /\ \A z \in Scopes, n \in Variants : MarkAt(z, n) \in Marks /\ MarkAt(z, n)[1] = n /\ ~Stray(z, MarkAt(z, n))
         /\ \A n \in Marks : n[1] \in Variants /\ n[2] \in Scopes /\ n = <<n[1], n[2]>>
         /\ \A o, n : Mark(o, n) = MarkAt(o.scope, n)
BY DEF WireAssumption, Marks, MarkAt, Mark, Stray

\* There are three variants.
LEMMA Three == \A n \in Variants : n = "host" \/ n = "secure" \/ n = "plain"
BY DEF Variants

\* CookieValue: __Host- first, then __Secure-, then the bare name.
LEMMA ReadsFirst ==
  ASSUME NEW f, NEW b
  PROVE  CookieValue(f, b) = IF f[<<b, "host">>] # 0 THEN f[<<b, "host">>]
                             ELSE IF f[<<b, "secure">>] # 0 THEN f[<<b, "secure">>] ELSE f[<<b, "plain">>]
BY DEF CookieValue

\* A fresh grant under the name in use is the one that is read, and newer than all behind it.
LEMMA FreshInFront ==
  ASSUME NEW f, NEW h, NEW v \in Variants, NEW g \in Nat \ {0},
         \A n \in Variants : f[n] \in Nat /\ f[n] < g,
         \A n \in Variants : h[n] = IF n = v THEN g ELSE f[n],
         Ordered(f, v)
  PROVE  Ordered(h, v) /\ Shown(h, v) = g
<1>1. v = "host" \/ v = "secure" \/ v = "plain"
  BY Three
<1>2. {"host", "secure", "plain"} \subseteq Variants
  BY DEF Variants
<1> QED BY <1>1, <1>2 DEF Ordered, Newer, Shown

\* The order survives cookies that disappear.
LEMMA GapsAreFine ==
  ASSUME NEW f, NEW h, NEW v \in Variants,
         \A n \in Variants : f[n] \in Nat /\ h[n] \in {0, f[n]},
         Ordered(f, v)
  PROVE  Ordered(h, v)
<1>1. {"host", "secure", "plain"} \subseteq Variants
  BY DEF Variants
<1> QED BY <1>1 DEF Ordered, Newer

\* Only the newest of the cookies can be about to expire, so none of an older
\* grant is left behind it.
LEMMA OnlyTheNewestExpires ==
  ASSUME NEW f, NEW h, NEW v \in Variants, NEW g \in Nat \ {0},
         \A n \in Variants : f[n] \in Nat /\ h[n] = (IF f[n] = g THEN 0 ELSE f[n]),
         \A n \in Variants : f[n] # 0 => ~(f[n] < g),
         Ordered(f, v)
  PROVE  Ordered(h, v) /\ Shown(h, v) \in {0, Shown(f, v)}
<1>1. {"host", "secure", "plain"} \subseteq Variants
  BY DEF Variants
<1>2. v = "host" \/ v = "secure" \/ v = "plain"
  BY Three
<1>3. Ordered(h, v)
  BY <1>1, GapsAreFine
<1>4. Shown(h, v) \in {0, Shown(f, v)}
  BY <1>1, <1>2 DEF Ordered, Newer, Shown
<1> QED BY <1>3, <1>4

\* What Shadows excludes, of the cookies f.
Clear(f, v, w) ==
  /\ w = "secure" => f["host"] = 0
  /\ v = "plain" => f["host"] = 0 /\ f["secure"] = 0
  /\ w = "plain" => f["plain"] = 0 \/ (f["host"] = 0 /\ f["secure"] = 0)

\* A change of names that shadows nothing leaves what is read in front, or hides it.
LEMMA RenamedInOrder ==
  ASSUME NEW f, NEW v \in Variants, NEW w \in Variants, w # v,
         \A n \in Variants : f[n] \in Nat, Clear(f, v, w), Ordered(f, v)
  PROVE  Ordered(f, w) /\ Shown(f, w) \in {0, Shown(f, v)}
<1>1. {"host", "secure", "plain"} \subseteq Variants
  BY DEF Variants
<1>2. v = "host" \/ v = "secure" \/ v = "plain"
  BY Three
<1>3. w = "host" \/ w = "secure" \/ w = "plain"
  BY Three
<1> QED BY <1>1, <1>2, <1>3 DEF Ordered, Newer, Shown, Clear

\* Once every name that is seen has expired nothing is read any more.
LEMMA AllExpired ==
  ASSUME NEW f, NEW h, NEW v \in Variants,
         \A n \in Variants : f[n] \in Nat,
         \A n \in Variants : h[n] = IF v # "plain" \/ n = "plain" THEN 0 ELSE f[n],
         Ordered(f, v)
  PROVE  Ordered(h, v) /\ Shown(h, v) = 0
<1>1. {"host", "secure", "plain"} \subseteq Variants
  BY DEF Variants
<1> QED BY <1>1 DEF Ordered, Newer, Shown

(***************************************************************************)
(* Sessions and grants.                                                    *)
(***************************************************************************)
\* The grants there were are as they were; ages apart.
SameGrants ==
  /\ Len(grants) \in Nat /\ Len(grants') \in Nat /\ Len(grants) <= Len(grants')
  /\ Len(sessions) \in Nat /\ Len(sessions') \in Nat /\ Len(sessions) <= Len(sessions')
  /\ \A g \in 1..Len(grants) : grants'[g].sid = grants[g].sid
SameAges == \A g \in 1..Len(grants) : grants'[g].age = grants[g].age

\* Revoking a set of sessions ends those that are left and changes no current grant.
LEMMA Revoking ==
  ASSUME GrantsFine, NEW S, sessions' = Revoke(S), grants' = grants
  PROVE  /\ GrantsFine' /\ SameGrants /\ SameAges /\ Len(sessions') = Len(sessions) /\ Len(grants') = Len(grants)
         /\ \A s \in 1..Len(sessions) : /\ sessions'[s].cur = sessions[s].cur
                                        /\ s \in S /\ ~Deleted(s) => sessions'[s].state = "revoked"
<1>1. PICK n : n = Len(sessions)
  OBVIOUS
<1>2. n \in Nat /\ DOMAIN sessions = 1..n
  BY <1>1 DEF GrantsFine
<1>3. sessions' = [s \in 1..n |-> IF s \in S /\ ~Deleted(s) THEN [sessions[s] EXCEPT !.state = "revoked"] ELSE sessions[s]]
  BY <1>2 DEF Revoke
<1>4. Len(sessions') = n
  BY <1>2, <1>3
<1>5. ASSUME NEW s \in 1..n
      PROVE  /\ sessions'[s].cur = sessions[s].cur
             /\ s \in S /\ ~Deleted(s) => sessions'[s].state = "revoked"
             /\ sessions'[s].state \in {"live", "revoked", "deleted"}
             /\ sessions'[s].state = "deleted" => sessions[s].state = "deleted"
             /\ sessions'[s] = [state |-> sessions'[s].state, cur |-> sessions'[s].cur]
  <2>1. sessions'[s] = IF s \in S /\ ~Deleted(s) THEN [sessions[s] EXCEPT !.state = "revoked"] ELSE sessions[s]
    BY <1>3
  <2>2. /\ sessions[s] = [state |-> sessions[s].state, cur |-> sessions[s].cur]
        /\ sessions[s].state \in {"live", "revoked", "deleted"}
    BY <1>1 DEF GrantsFine
  <2> QED BY <2>1, <2>2
<1>6. sessions' = [s \in 1..n |-> sessions'[s]]
  BY <1>3
<1>7. GrantsFine'
  BY <1>1, <1>2, <1>4, <1>5, <1>6 DEF GrantsFine
<1> QED BY <1>1, <1>2, <1>4, <1>5, <1>7 DEF GrantsFine, SameGrants, SameAges

\* What leaves sessions and grants alone keeps them fine.
LEMMA Unrevoked ==
  ASSUME GrantsFine, sessions' = sessions, grants' = grants
  PROVE  /\ GrantsFine' /\ SameGrants /\ SameAges /\ Len(sessions') = Len(sessions) /\ Len(grants') = Len(grants)
         /\ \A s \in 1..Len(sessions) : sessions'[s].cur = sessions[s].cur
BY DEF GrantsFine, SameGrants, SameAges

\* What a login or a refresh does to the grants: session s gets a newer one.
Mints(s) ==
  /\ GrantsFine' /\ SameGrants /\ SameAges
  /\ Len(grants') = Minted /\ grants'[Minted].sid = s /\ grants'[Minted].age = 0
  /\ sessions'[s].cur = Minted
  /\ \A q \in 1..Len(sessions) : q # s => sessions'[q].cur = sessions[q].cur

NewSession ==
  /\ Len(grants) < MaxGrants
  /\ sessions' = Append(sessions, [state |-> "live", cur |-> Minted])
  /\ grants' = Append(grants, [sid |-> Len(sessions) + 1, age |-> 0])
NewGrant(g) ==
  /\ Len(grants) < MaxGrants
  /\ sessions' = [sessions EXCEPT ![Sid(g)].cur = Minted]
  /\ grants' = Append(grants, [sid |-> Sid(g), age |-> 0])

\* A login mints for a session of its own.
LEMMA MintedForANewSession ==
  ASSUME GrantsFine, WireAssumption, NewSession
  PROVE  Mints(Len(sessions) + 1)
<1>1. PICK n, m : n = Len(sessions) /\ m = Len(grants)
  OBVIOUS
<1>2. n \in Nat /\ m \in Nat /\ m + 1 <= MaxGrants
  BY <1>1 DEF GrantsFine, WireAssumption, NewSession
<1>3. /\ sessions = [s \in 1..n |-> sessions[s]]
      /\ grants = [s \in 1..m |-> grants[s]]
  BY <1>1 DEF GrantsFine
<1>4. /\ Len(sessions') = n + 1 /\ sessions' = [s \in 1..(n + 1) |-> sessions'[s]]
      /\ sessions'[n + 1] = [state |-> "live", cur |-> m + 1]
      /\ \A s \in 1..n : sessions'[s] = sessions[s]
  BY <1>1, <1>2, <1>3 DEF Minted, NewSession
<1>5. /\ Len(grants') = m + 1 /\ grants' = [s \in 1..(m + 1) |-> grants'[s]]
      /\ grants'[m + 1] = [sid |-> n + 1, age |-> 0]
      /\ \A s \in 1..m : grants'[s] = grants[s]
  BY <1>1, <1>2, <1>3 DEF NewSession
<1>6. ASSUME NEW g \in 1..(m + 1)
      PROVE  /\ grants'[g] = [sid |-> grants'[g].sid, age |-> grants'[g].age]
             /\ grants'[g].sid \in 1..(n + 1) /\ grants'[g].age \in 0..3
             /\ sessions'[grants'[g].sid].cur >= g
  <2>0. g = m + 1 \/ g \in 1..m
    BY <1>2
  <2>1. CASE g = m + 1
    BY <2>1, <1>2, <1>4, <1>5
  <2>2. CASE g \in 1..m
    BY <2>2, <1>1, <1>2, <1>4, <1>5 DEF GrantsFine
  <2> QED BY <2>0, <2>1, <2>2
<1>7. ASSUME NEW g \in 1..(m + 1), NEW h \in 1..(m + 1), g < h
      PROVE  grants'[g].age >= grants'[h].age
  <2>1. g \in 1..m
    BY <1>2, <1>7
  <2>2. CASE h = m + 1
    <3>1. grants'[h].age = 0
      BY <2>2, <1>5
    <3>2. grants'[g].age \in 0..3
      BY <1>6
    <3> QED BY <3>1, <3>2
  <2>3. CASE h \in 1..m
    BY <2>1, <2>3, <1>1, <1>2, <1>5, <1>7 DEF GrantsFine
  <2>4. h = m + 1 \/ h \in 1..m
    BY <1>2
  <2> QED BY <2>2, <2>3, <2>4
<1>8. ASSUME NEW s \in 1..(n + 1)
      PROVE  /\ sessions'[s] = [state |-> sessions'[s].state, cur |-> sessions'[s].cur]
             /\ sessions'[s].state \in {"live", "revoked", "deleted"} /\ sessions'[s].cur \in 1..(m + 1)
             /\ sessions'[s].state = "deleted" => grants'[sessions'[s].cur].age >= 2
  <2>0. s = n + 1 \/ s \in 1..n
    BY <1>2
  <2>1. CASE s = n + 1
    BY <2>1, <1>2, <1>4
  <2>2. CASE s \in 1..n
    BY <2>2, <1>1, <1>2, <1>4, <1>5 DEF GrantsFine
  <2> QED BY <2>0, <2>1, <2>2
<1>9. GrantsFine'
  BY <1>2, <1>4, <1>5, <1>6, <1>7, <1>8 DEF GrantsFine
<1>10. SameGrants /\ SameAges
  BY <1>1, <1>2, <1>4, <1>5 DEF SameGrants, SameAges
<1> QED BY <1>1, <1>2, <1>4, <1>5, <1>9, <1>10 DEF Mints, Minted

\* A refresh mints for the session of the grant it rotates.
LEMMA MintedForTheSession ==
  ASSUME GrantsFine, WireAssumption, NEW g0 \in 1..Len(grants), ~Deleted(Sid(g0)), NewGrant(g0)
  PROVE  Mints(Sid(g0))
<1>1. PICK n, m, x : n = Len(sessions) /\ m = Len(grants) /\ x = Sid(g0)
  OBVIOUS
<1>2. n \in Nat /\ m \in Nat /\ m + 1 <= MaxGrants /\ x \in 1..n
  BY <1>1 DEF GrantsFine, WireAssumption, Sid, NewGrant
<1>3. /\ sessions = [s \in 1..n |-> sessions[s]]
      /\ grants = [s \in 1..m |-> grants[s]]
  BY <1>1 DEF GrantsFine
<1>4. sessions' = [sessions EXCEPT ![x] = [sessions[x] EXCEPT !.cur = m + 1]]
  BY <1>1 DEF Minted, NewGrant
<1>5. /\ Len(sessions') = n /\ sessions' = [s \in 1..n |-> sessions'[s]]
      /\ \A s \in 1..n : s # x => sessions'[s] = sessions[s]
      /\ sessions'[x] = [sessions[x] EXCEPT !.cur = m + 1]
  <2>1. sessions' = [s \in 1..n |-> IF s = x THEN [sessions[x] EXCEPT !.cur = m + 1] ELSE sessions[s]]
    BY <1>2, <1>3, <1>4
  <2>2. Len(sessions') = n
    BY <2>1, <1>2
  <2> QED BY <2>1, <2>2, <1>2
<1>6. /\ Len(grants') = m + 1 /\ grants' = [s \in 1..(m + 1) |-> grants'[s]]
      /\ grants'[m + 1] = [sid |-> x, age |-> 0]
      /\ \A s \in 1..m : grants'[s] = grants[s]
  BY <1>1, <1>2, <1>3 DEF NewGrant
<1>7. sessions[x] = [state |-> sessions[x].state, cur |-> sessions[x].cur] /\ sessions[x].state \in {"live", "revoked"}
  BY <1>1, <1>2 DEF GrantsFine, Deleted
<1>8. sessions'[x] = [state |-> sessions[x].state, cur |-> m + 1]
  BY <1>5, <1>7
<1>9. ASSUME NEW g \in 1..(m + 1)
      PROVE  /\ grants'[g] = [sid |-> grants'[g].sid, age |-> grants'[g].age]
             /\ grants'[g].sid \in 1..n /\ grants'[g].age \in 0..3
             /\ sessions'[grants'[g].sid].cur >= g
  <2>0. g = m + 1 \/ g \in 1..m
    BY <1>2
  <2>1. CASE g = m + 1
    BY <2>1, <1>2, <1>6, <1>8
  <2>2. CASE g \in 1..m
    <3>1. /\ grants'[g] = grants[g]
          /\ grants[g] = [sid |-> grants[g].sid, age |-> grants[g].age]
          /\ grants[g].sid \in 1..n /\ grants[g].age \in 0..3
          /\ sessions[grants[g].sid].cur >= g
      BY <2>2, <1>1, <1>6 DEF GrantsFine
    <3>2. CASE grants[g].sid = x
      <4>1. sessions'[x].cur = m + 1
        BY <1>8
      <4> QED BY <3>1, <3>2, <4>1, <2>2, <1>2
    <3>3. CASE grants[g].sid # x
      BY <3>1, <3>3, <1>5
    <3> QED BY <3>2, <3>3
  <2> QED BY <2>0, <2>1, <2>2
<1>10. ASSUME NEW g \in 1..(m + 1), NEW h \in 1..(m + 1), g < h
       PROVE  grants'[g].age >= grants'[h].age
  <2>1. g \in 1..m
    BY <1>2, <1>10
  <2>2. CASE h = m + 1
    <3>1. grants'[h].age = 0
      BY <2>2, <1>6
    <3>2. grants'[g].age \in 0..3
      BY <1>9
    <3> QED BY <3>1, <3>2
  <2>3. CASE h \in 1..m
    BY <2>1, <2>3, <1>1, <1>2, <1>6, <1>10 DEF GrantsFine
  <2>4. h = m + 1 \/ h \in 1..m
    BY <1>2
  <2> QED BY <2>2, <2>3, <2>4
<1>11. ASSUME NEW s \in 1..n
       PROVE  /\ sessions'[s] = [state |-> sessions'[s].state, cur |-> sessions'[s].cur]
              /\ sessions'[s].state \in {"live", "revoked", "deleted"} /\ sessions'[s].cur \in 1..(m + 1)
              /\ sessions'[s].state = "deleted" => grants'[sessions'[s].cur].age >= 2
  <2>1. CASE s = x
    BY <2>1, <1>2, <1>7, <1>8
  <2>2. CASE s # x
    <3>1. /\ sessions[s] = [state |-> sessions[s].state, cur |-> sessions[s].cur]
          /\ sessions[s].state \in {"live", "revoked", "deleted"} /\ sessions[s].cur \in 1..m
          /\ sessions[s].state = "deleted" => grants[sessions[s].cur].age >= 2
      BY <1>1 DEF GrantsFine
    <3> QED BY <3>1, <2>2, <1>2, <1>5, <1>6
  <2> QED BY <2>1, <2>2
<1>12. GrantsFine'
  <2>1. /\ Len(grants') \in Nat /\ Len(grants') <= MaxGrants /\ Len(sessions') \in Nat
        /\ grants' = [g \in 1..Len(grants') |-> grants'[g]] /\ sessions' = [s \in 1..Len(sessions') |-> sessions'[s]]
    BY <1>2, <1>5, <1>6
  <2>2. \A g \in 1..Len(grants') :
          /\ grants'[g] = [sid |-> grants'[g].sid, age |-> grants'[g].age]
          /\ grants'[g].sid \in 1..Len(sessions') /\ grants'[g].age \in 0..3
          /\ sessions'[grants'[g].sid].cur >= g
    BY <1>5, <1>6, <1>9
  <2>3. \A g, h \in 1..Len(grants') : g < h => grants'[g].age >= grants'[h].age
    BY <1>6, <1>10
  <2>4. \A s \in 1..Len(sessions') :
          /\ sessions'[s] = [state |-> sessions'[s].state, cur |-> sessions'[s].cur]
          /\ sessions'[s].state \in {"live", "revoked", "deleted"} /\ sessions'[s].cur \in 1..Len(grants')
          /\ sessions'[s].state = "deleted" => grants'[sessions'[s].cur].age >= 2
    BY <1>5, <1>6, <1>11
  <2> QED BY <2>1, <2>2, <2>3, <2>4 DEF GrantsFine
<1>13. SameGrants /\ SameAges
  BY <1>1, <1>2, <1>5, <1>6 DEF SameGrants, SameAges
<1>14. \A q \in 1..n : q # x => sessions'[q].cur = sessions[q].cur
  BY <1>5
<1> QED BY <1>1, <1>2, <1>6, <1>8, <1>12, <1>13, <1>14 DEF Mints, Minted

\* One grant ages, the oldest of its age: grants stay sorted by age.
LEMMA Ageing ==
  ASSUME GrantsFine, NEW g \in 1..Len(grants), Expire(g)
  PROVE  /\ GrantsFine' /\ SameGrants /\ Len(grants') = Len(grants) /\ sessions' = sessions
         /\ \A h \in 1..Len(grants) : grants'[h].age = IF h = g THEN grants[g].age + 1 ELSE grants[h].age
         /\ grants[g].age \in 0..2
         /\ \A h \in 1..Len(grants) : h < g => grants[h].age > grants[g].age
<1>1. PICK m : m = Len(grants)
  OBVIOUS
<1>2. m \in Nat /\ g \in 1..m /\ grants = [h \in 1..m |-> grants[h]] /\ Len(sessions) \in Nat
  BY <1>1 DEF GrantsFine
<1>3. \A h \in 1..m : /\ grants[h] = [sid |-> grants[h].sid, age |-> grants[h].age]
                      /\ grants[h].age \in 0..3
  BY <1>1 DEF GrantsFine
<1>4. grants' = [grants EXCEPT ![g] = [grants[g] EXCEPT !.age = grants[g].age + 1]] /\ grants[g].age < 3 /\ sessions' = sessions
  BY DEF Expire
<1>5. /\ Len(grants') = m /\ grants' = [h \in 1..m |-> grants'[h]]
      /\ \A h \in 1..m : h # g => grants'[h] = grants[h]
      /\ grants'[g] = [grants[g] EXCEPT !.age = grants[g].age + 1]
  <2>1. grants' = [h \in 1..m |-> IF h = g THEN [grants[g] EXCEPT !.age = grants[g].age + 1] ELSE grants[h]]
    BY <1>2, <1>4
  <2>2. Len(grants') = m
    BY <2>1, <1>2
  <2> QED BY <2>1, <2>2, <1>2
<1>6. grants'[g] = [sid |-> grants[g].sid, age |-> grants[g].age + 1]
  BY <1>3, <1>2, <1>5
<1>7. \A h \in 1..m : h < g => grants[h].age > grants[g].age
  <2>1. \A h \in 1..(g - 1) : grants[h].age > grants[g].age
    BY DEF Expire
  <2>2. \A h \in 1..m : h < g => h \in 1..(g - 1)
    BY <1>2
  <2> QED BY <2>1, <2>2
<1>8. \A h \in 1..m : /\ grants'[h].age = (IF h = g THEN grants[g].age + 1 ELSE grants[h].age)
                      /\ grants'[h].sid = grants[h].sid
                      /\ grants'[h] = [sid |-> grants'[h].sid, age |-> grants'[h].age]
  BY <1>3, <1>5, <1>6
<1>9. grants[g].age \in 0..2 /\ \A h \in 1..m : grants'[h].age \in 0..3 /\ grants'[h].age >= grants[h].age
  BY <1>2, <1>3, <1>4, <1>8
<1>10. ASSUME NEW h \in 1..m, NEW k \in 1..m, h < k
       PROVE  grants'[h].age >= grants'[k].age
  <2>1. grants[h].age >= grants[k].age
    BY <1>1, <1>10 DEF GrantsFine
  <2>0. /\ grants[h].age \in 0..3 /\ grants[k].age \in 0..3
        /\ grants'[h].age = (IF h = g THEN grants[g].age + 1 ELSE grants[h].age)
        /\ grants'[k].age = (IF k = g THEN grants[g].age + 1 ELSE grants[k].age)
    BY <1>3, <1>8
  <2>2. CASE k = g
    <3>1. h # g /\ grants[h].age > grants[g].age
      BY <2>2, <1>2, <1>7, <1>10
    <3> QED BY <2>0, <2>2, <3>1
  <2>3. CASE k # g
    BY <2>0, <2>1, <2>3
  <2> QED BY <2>2, <2>3
<1>11. GrantsFine'
  <2>1. /\ Len(grants') \in Nat /\ Len(grants') <= MaxGrants
        /\ grants' = [h \in 1..Len(grants') |-> grants'[h]]
    BY <1>1, <1>2, <1>5 DEF GrantsFine
  <2>2. /\ Len(sessions) \in Nat /\ sessions = [s \in 1..Len(sessions) |-> sessions[s]]
        /\ \A s \in 1..Len(sessions) :
             /\ sessions[s] = [state |-> sessions[s].state, cur |-> sessions[s].cur]
             /\ sessions[s].state \in {"live", "revoked", "deleted"} /\ sessions[s].cur \in 1..m
             /\ sessions[s].state = "deleted" => grants[sessions[s].cur].age >= 2
        /\ \A h \in 1..m : grants[h].sid \in 1..Len(sessions) /\ sessions[grants[h].sid].cur >= h
    BY <1>1 DEF GrantsFine
  <2>3. \A h \in 1..Len(grants') :
          /\ grants'[h] = [sid |-> grants'[h].sid, age |-> grants'[h].age]
          /\ grants'[h].sid \in 1..Len(sessions) /\ grants'[h].age \in 0..3
          /\ sessions[grants'[h].sid].cur >= h
    BY <1>5, <1>8, <1>9, <2>2
  <2>4. \A g_1, h \in 1..Len(grants') : g_1 < h => grants'[g_1].age >= grants'[h].age
    BY <1>5, <1>10
  <2>5. sessions' = sessions /\ Len(grants') = m
    BY <1>4, <1>5
  <2>6. /\ Len(sessions') \in Nat /\ sessions' = [s \in 1..Len(sessions') |-> sessions'[s]]
        /\ \A s \in 1..Len(sessions') :
             /\ sessions'[s] = [state |-> sessions'[s].state, cur |-> sessions'[s].cur]
             /\ sessions'[s].state \in {"live", "revoked", "deleted"} /\ sessions'[s].cur \in 1..Len(grants')
             /\ sessions'[s].state = "deleted" => grants'[sessions'[s].cur].age >= 2
    <3>1. ASSUME NEW s \in 1..Len(sessions), sessions[s].state = "deleted"
          PROVE  grants'[sessions[s].cur].age >= 2
      <4>1. PICK h \in 1..m : h = sessions[s].cur /\ grants[h].age >= 2
        BY <3>1, <2>2
      <4>2. grants[h].age \in 0..3 /\ grants'[h].age \in 0..3 /\ grants'[h].age >= grants[h].age
        BY <1>3, <1>9
      <4> QED BY <4>1, <4>2
    <3> QED BY <3>1, <2>2, <2>5
  <2>7. \A h \in 1..Len(grants') :
          /\ grants'[h] = [sid |-> grants'[h].sid, age |-> grants'[h].age]
          /\ grants'[h].sid \in 1..Len(sessions') /\ grants'[h].age \in 0..3
          /\ sessions'[grants'[h].sid].cur >= h
    BY <2>3, <2>5
  <2> QED BY <2>1, <2>4, <2>6, <2>7 DEF GrantsFine
<1>12. sessions' = sessions
  BY <1>4
<1>13. Len(sessions') = Len(sessions) /\ Len(sessions) \in Nat
  BY <1>2, <1>12
<1>14. SameGrants
  <2>1. Len(grants) \in Nat /\ Len(grants') = Len(grants)
    BY <1>1, <1>2, <1>5
  <2>2. \A h \in 1..Len(grants) : grants'[h].sid = grants[h].sid
    BY <1>1, <1>8
  <2> QED BY <2>1, <2>2, <1>13 DEF SameGrants
<1> QED BY <1>1, <1>5, <1>7, <1>8, <1>9, <1>11, <1>12, <1>14

(***************************************************************************)
(* Requests under way while grants are minted and age.                     *)
(***************************************************************************)
\* A grant that is known stays known as grants are minted.
LEMMA KnownLasts ==
  ASSUME NEW gs, NEW hs, Len(gs) \in Nat, Len(hs) \in Nat, Len(gs) <= Len(hs)
  PROVE  /\ \A g : Known(g, gs) => Known(g, hs) /\ g \in Nat
         /\ \A g \in Nat : g # 0 /\ Known(g, gs) => g \in 1..Len(gs) /\ g \in 1..Len(hs)
BY DEF Known

\* A request under way stays fine while the grants its answer carries do not age.
LEMMA RequestLasts ==
  ASSUME SameGrants, NEW q, RequestFine(q, grants, sessions),
         \A g \in 1..Len(grants) : PutBy(q, g) => grants'[g].age = grants[g].age
  PROVE  RequestFine(q, grants', sessions')
<1>1. PICK gs, hs, ss, rs : gs = grants /\ hs = grants' /\ ss = sessions /\ rs = sessions'
  OBVIOUS
<1>2. /\ Len(gs) \in Nat /\ Len(hs) \in Nat /\ Len(gs) <= Len(hs)
      /\ Len(ss) \in Nat /\ Len(rs) \in Nat /\ Len(ss) <= Len(rs)
  BY <1>1 DEF SameGrants
<1>3. \A g : Known(g, gs) => Known(g, hs)
  BY <1>2, KnownLasts
<1>4. CASE q.phase = "idle"
  BY <1>4 DEF RequestFine
<1>5. CASE q.phase = "sent"
  <2>1. SentFine(q, gs, ss)
    BY <1>5, <1>1 DEF RequestFine
  <2>2. SentFine(q, hs, rs)
    BY <2>1, <1>2, <1>3 DEF SentFine
  <2> QED BY <2>2, <1>1, <1>5 DEF RequestFine
<1>6. CASE q.phase = "answered"
  <2>1. AnswerFine(q, gs)
    BY <1>6, <1>1 DEF RequestFine
  <2>2. ASSUME NEW n \in Marks, <<"refresh", n>> \in DOMAIN q.cookies, q.cookies[<<"refresh", n>>] # 0
        PROVE  hs[q.cookies[<<"refresh", n>>]].age = 0
    <3>1. PICK g : g = q.cookies[<<"refresh", n>>]
      OBVIOUS
    <3>2. g \in 1..Len(gs) /\ gs[g].age = 0
      BY <3>1, <2>1, <2>2 DEF AnswerFine, CookiesFine, Known
    <3>3. PutBy(q, g)
      BY <3>1, <2>2, <1>6 DEF PutBy
    <3>4. hs[g].age = gs[g].age
      BY <3>2, <3>3, <1>1
    <3> QED BY <3>1, <3>2, <3>4
  <2>3. CookiesFine(q.cookies, q.effect, gs)
    BY <2>1 DEF AnswerFine
  <2>4. CookiesFine(q.cookies, q.effect, hs)
    BY <2>2, <2>3, <1>3 DEF CookiesFine
  <2>5. AnswerFine(q, hs)
    BY <2>1, <2>4, <1>3 DEF AnswerFine
  <2> QED BY <2>5, <1>1, <1>6 DEF RequestFine
<1> QED BY <1>4, <1>5, <1>6 DEF RequestFine

\* Requests stay fine when one of them moves and is fine.
LEMMA NetLasts ==
  ASSUME NetFine, SameGrants, NEW t \in Tabs,
         net' = [u \in Tabs |-> net'[u]], \A u \in Tabs : u # t => net'[u] = net[u],
         \A u \in Tabs : \A g \in 1..Len(grants) : PutBy(net[u], g) => grants'[g].age = grants[g].age,
         RequestFine(net'[t], grants', sessions')
  PROVE  NetFine'
<1>1. ASSUME NEW u \in Tabs, u # t
      PROVE  RequestFine(net'[u], grants', sessions')
  <2>1. PICK q : q = net[u]
    OBVIOUS
  <2>2. RequestFine(q, grants, sessions)
    BY <2>1 DEF NetFine
  <2>3. \A g \in 1..Len(grants) : PutBy(q, g) => grants'[g].age = grants[g].age
    BY <2>1
  <2>4. RequestFine(q, grants', sessions')
    BY <2>2, <2>3, RequestLasts
  <2> QED BY <2>1, <2>4, <1>1
<1> QED BY <1>1 DEF NetFine

\* Requests stay fine when none of them moves.
LEMMA NetWaits ==
  ASSUME NetFine, SameGrants, net' = net,
         \A u \in Tabs : \A g \in 1..Len(grants) : PutBy(net[u], g) => grants'[g].age = grants[g].age
  PROVE  NetFine'
<1>1. ASSUME NEW u \in Tabs
      PROVE  RequestFine(net'[u], grants', sessions')
  <2>1. PICK q : q = net[u]
    OBVIOUS
  <2>2. RequestFine(q, grants, sessions)
    BY <2>1 DEF NetFine
  <2>3. \A g \in 1..Len(grants) : PutBy(q, g) => grants'[g].age = grants[g].age
    BY <2>1
  <2>4. RequestFine(q, grants', sessions')
    BY <2>2, <2>3, RequestLasts
  <2> QED BY <2>1, <2>4
<1> QED BY <1>1 DEF NetFine

(***************************************************************************)
(* The jar, and who holds what, while grants are minted.                   *)
(***************************************************************************)
\* The jar stays fine while nothing in it changes or ages.
LEMMA JarWaits ==
  ASSUME JarFine, jar' = jar, SameGrants, SameAges
  PROVE  JarFine'
<1>1. PICK gs, hs, j : gs = grants /\ hs = grants' /\ j = jar
  OBVIOUS
<1>2. Len(gs) \in Nat /\ Len(hs) \in Nat /\ Len(gs) <= Len(hs)
  BY <1>1 DEF SameGrants
<1>3. \A g : Known(g, gs) => Known(g, hs)
  BY <1>2, KnownLasts
<1>4. \A g : g # 0 /\ Known(g, gs) => hs[g].age = gs[g].age
  BY <1>1 DEF Known, SameAges
<1>5. /\ j = [c \in Cookies |-> j[c]]
      /\ \A n \in Marks :
           /\ j[<<"csrf", n>>] \in {0, 1}
           /\ Known(j[<<"refresh", n>>], gs)
           /\ j[<<"refresh", n>>] # 0 => gs[j[<<"refresh", n>>]].age < 2
           /\ j[<<"access", n>>] =
                IF j[<<"refresh", n>>] # 0 /\ gs[j[<<"refresh", n>>]].age = 0 THEN j[<<"refresh", n>>] ELSE 0
  BY <1>1 DEF JarFine
<1>6. /\ j = [c \in Cookies |-> j[c]]
      /\ \A n \in Marks :
           /\ j[<<"csrf", n>>] \in {0, 1}
           /\ Known(j[<<"refresh", n>>], hs)
           /\ j[<<"refresh", n>>] # 0 => hs[j[<<"refresh", n>>]].age < 2
           /\ j[<<"access", n>>] =
                IF j[<<"refresh", n>>] # 0 /\ hs[j[<<"refresh", n>>]].age = 0 THEN j[<<"refresh", n>>] ELSE 0
  BY <1>3, <1>4, <1>5
<1>7. j = jar' /\ hs = grants'
  BY <1>1
<1> QED BY <1>6, <1>7 DEF JarFine

\* The browser and the bearer client stay apart when neither gains a grant.
LEMMA ApartLasts ==
  ASSUME Apart, SameGrants, Len(grants') = Len(grants),
         \A g \in 1..Len(grants) : (BrowserHas(jar', net', g) => BrowserHas(jar, net, g)) /\ (AppHas(app', net', g) => AppHas(app, net, g))
  PROVE  Apart'
<1>1. ASSUME NEW g \in 1..Len(grants'), NEW h \in 1..Len(grants'), BrowserHas(jar', net', g), AppHas(app', net', h)
      PROVE  Sid(g)' # Sid(h)'
  <2>1. g \in 1..Len(grants) /\ h \in 1..Len(grants)
    OBVIOUS
  <2>2. Sid(g) # Sid(h)
    BY <1>1, <2>1 DEF Apart
  <2>3. grants'[g].sid = grants[g].sid /\ grants'[h].sid = grants[h].sid
    BY <2>1 DEF SameGrants
  <2> QED BY <2>2, <2>3 DEF Sid
<1> QED BY <1>1 DEF Apart

\* The side that mints takes a session the other side has no grant of.
LEMMA ApartMints ==
  ASSUME Apart, NEW s, Mints(s), NEW m, m = Len(grants),
         \A g \in 1..m : (BrowserHas(jar', net', g) => BrowserHas(jar, net, g)) /\ (AppHas(app', net', g) => AppHas(app, net, g)),
         \/ ~AppHas(app', net', m + 1) /\ \A g \in 1..m : AppHas(app, net, g) => grants[g].sid # s
         \/ ~BrowserHas(jar', net', m + 1) /\ \A g \in 1..m : BrowserHas(jar, net, g) => grants[g].sid # s
  PROVE  Apart'
<1>2. /\ m \in Nat /\ Len(grants') = m + 1 /\ grants'[m + 1].sid = s
      /\ \A g \in 1..m : grants'[g].sid = grants[g].sid
  BY DEF Mints, SameGrants, Minted
<1>4. ASSUME NEW g \in 1..(m + 1), NEW h \in 1..(m + 1), BrowserHas(jar', net', g), AppHas(app', net', h)
      PROVE  grants'[g].sid # grants'[h].sid
  <2>0. (g \in 1..m \/ g = m + 1) /\ (h \in 1..m \/ h = m + 1)
    BY <1>2
  <2>1. CASE g \in 1..m /\ h \in 1..m
    <3>1. BrowserHas(jar, net, g) /\ AppHas(app, net, h)
      BY <2>1, <1>4
    <3>2. Sid(g) # Sid(h)
      BY <3>1, <2>1 DEF Apart
    <3> QED BY <3>2, <2>1, <1>2 DEF Sid
  <2>2. CASE g = m + 1 /\ h \in 1..m
    <3>1. AppHas(app, net, h)
      BY <2>2, <1>4
    <3>2. BrowserHas(jar', net', m + 1)
      BY <2>2, <1>4
    <3>3. grants[h].sid # s
      BY <3>1, <3>2, <2>2
    <3> QED BY <3>3, <2>2, <1>2
  <2>3. CASE g \in 1..m /\ h = m + 1
    <3>1. BrowserHas(jar, net, g)
      BY <2>3, <1>4
    <3>2. AppHas(app', net', m + 1)
      BY <2>3, <1>4
    <3>3. grants[g].sid # s
      BY <3>1, <3>2, <2>3
    <3> QED BY <3>3, <2>3, <1>2
  <2>4. CASE g = m + 1 /\ h = m + 1
    <3>1. BrowserHas(jar', net', m + 1) /\ AppHas(app', net', m + 1)
      BY <2>4, <1>4
    <3> QED BY <3>1
  <2> QED BY <2>0, <2>1, <2>2, <2>3, <2>4
<1> QED BY <1>2, <1>4 DEF Apart, Sid

\* A step that mints nothing and leaves what is current alone.
Steady ==
  /\ GrantsFine' /\ SameGrants /\ SameAges /\ Len(grants') = Len(grants)
  /\ \A s \in 1..Len(sessions) : sessions'[s].cur = sessions[s].cur

\* A step that leaves what is current alone leaves what is usable alone.
LEMMA SteadyUse ==
  ASSUME GrantsFine, Steady
  PROVE  \A g : Known(g, grants) => (Usable(g, grants', sessions') <=> Usable(g, grants, sessions))
<1> SUFFICES ASSUME NEW g, Known(g, grants)
             PROVE  Usable(g, grants', sessions') <=> Usable(g, grants, sessions)
  OBVIOUS
<1>1. CASE g = 0
  BY <1>1 DEF Usable
<1>2. CASE g \in 1..Len(grants)
  <2>1. grants'[g].sid = grants[g].sid /\ grants[g].sid \in 1..Len(sessions)
    BY <1>2 DEF Steady, SameGrants, GrantsFine
  <2>2. sessions'[grants[g].sid].cur = sessions[grants[g].sid].cur
    BY <2>1 DEF Steady
  <2> QED BY <2>1, <2>2 DEF Usable
<1> QED BY <1>1, <1>2 DEF Known

(***************************************************************************)
(* Answering a request.                                                    *)
(***************************************************************************)
AnswerOf(q, code, k, b) ==
  [phase |-> "answered", page |-> q.page, effect |-> q.route.effect, code |-> code, cookies |-> k, body |-> b]

\* t, and only t, is answered, or its answer needs no arrival.
Answers(t, code, k, b) ==
  /\ net' = [u \in Tabs |-> net'[u]]
  /\ \A u \in Tabs : u # t => net'[u] = net[u]
  /\ \/ net'[t] = Idle /\ net[t].route.effect \notin TokenRoutes
     \/ net'[t] = AnswerOf(net[t], code, k, b)

\* Answer answers the one request, or forgets it when nobody waits for it.
LEMMA Answered ==
  ASSUME NetFine, NEW t \in Tabs, NEW code, NEW k, NEW b, Answer(t, code, k, b)
  PROVE  Answers(t, code, k, b)
<1>1. PICK old : old = net
  OBVIOUS
<1>2. old = [u \in Tabs |-> old[u]]
  BY <1>1 DEF NetFine
<1>3. PICK a : /\ net' = [old EXCEPT ![t] = a]
               /\ \/ a = Idle /\ old[t].route.effect \notin TokenRoutes
                  \/ a = AnswerOf(old[t], code, k, b)
  BY <1>1 DEF Answer, AnswerOf
<1>4. net' = [u \in Tabs |-> IF u = t THEN a ELSE old[u]]
  BY <1>2, <1>3
<1>5. net' = [u \in Tabs |-> net'[u]] /\ net'[t] = a /\ \A u \in Tabs : u # t => net'[u] = old[u]
  BY <1>4
<1> QED BY <1>1, <1>3, <1>5 DEF Answers

\* What makes an answer fine.
LEMMA AnswerIsFine ==
  ASSUME NEW q, NEW code, NEW k, NEW b, NEW gs, NEW ss,
         CookiesFine(k, q.route.effect, gs), Known(b, gs), q.page # "app" => b = 0,
         q.page = "app" => \A n \in Marks : <<"refresh", n>> \in DOMAIN k => k[<<"refresh", n>>] = 0,
         b # 0 => q.route.effect \in {"login", "refresh"},
         q.route.effect = "logout" /\ code = "OK" => Cleared(k)
  PROVE  RequestFine(AnswerOf(q, code, k, b), gs, ss)
<1>1. PICK a : a = AnswerOf(q, code, k, b)
  OBVIOUS
<1>2. /\ a.phase = "answered" /\ a.page = q.page /\ a.effect = q.route.effect /\ a.code = code
      /\ a.cookies = k /\ a.body = b
      /\ a = [phase |-> "answered", page |-> a.page, effect |-> a.effect, code |-> a.code, cookies |-> a.cookies, body |-> a.body]
  BY <1>1 DEF AnswerOf
<1>3. AnswerFine(a, gs)
  BY <1>2 DEF AnswerFine
<1> QED BY <1>1, <1>2, <1>3 DEF RequestFine

\* An answered request is idle or answered, with what it was answered.
LEMMA AnswerPhase ==
  ASSUME NEW t, NEW code, NEW k, NEW b, Answers(t, code, k, b)
  PROVE  \/ net'[t].phase = "idle"
         \/ /\ net'[t].phase = "answered" /\ net'[t].cookies = k /\ net'[t].body = b /\ net'[t].code = code
            /\ net'[t].page = net[t].page /\ net'[t].effect = net[t].route.effect
BY DEF Answers, AnswerOf, Idle

\* What is held after an answer was held before, or is in it.
LEMMA AnswerHolds ==
  ASSUME NEW t \in Tabs, NEW code, NEW k, NEW b, Answers(t, code, k, b), jar' = jar, app' = app, NEW g
  PROVE  /\ BrowserHas(jar', net', g) => \/ BrowserHas(jar, net, g)
                                         \/ \E n \in Marks : <<"refresh", n>> \in DOMAIN k /\ k[<<"refresh", n>>] = g
         /\ AppHas(app', net', g) => AppHas(app, net, g) \/ b = g
<1>1. \A u \in Tabs : u # t => net'[u] = net[u]
  BY DEF Answers
<1>2. \/ net'[t].phase = "idle"
      \/ net'[t].phase = "answered" /\ net'[t].cookies = k /\ net'[t].body = b
  BY AnswerPhase
<1>3. ASSUME BrowserHas(jar', net', g), ~BrowserHas(jar, net, g)
      PROVE  \E n \in Marks : <<"refresh", n>> \in DOMAIN k /\ k[<<"refresh", n>>] = g
  <2>1. PICK u \in Tabs : SentBy(net'[u], g) \/ PutBy(net'[u], g)
    BY <1>3 DEF BrowserHas
  <2>2. u = t
    BY <1>1, <1>3, <2>1 DEF BrowserHas
  <2>3. PutBy(net'[t], g) /\ net'[t].cookies = k
    BY <1>2, <2>1, <2>2 DEF SentBy, PutBy
  <2> QED BY <2>3 DEF PutBy
<1>4. ASSUME AppHas(app', net', g), ~AppHas(app, net, g)
      PROVE  b = g
  <2>1. PICK u \in Tabs : CarriedBy(net'[u], g)
    BY <1>4 DEF AppHas
  <2>2. u = t
    BY <1>1, <1>4, <2>1 DEF AppHas
  <2> QED BY <1>2, <2>1, <2>2 DEF CarriedBy
<1> QED BY <1>3, <1>4

\* The answer of a token request is the one under way.
LEMMA AnsweredInTurn ==
  ASSUME Turns, NEW t \in Tabs, Waiting(net[t]), NEW code, NEW k, NEW b, Answers(t, code, k, b),
         jar' = jar, dep'.variant = dep.variant, dep'.scope = dep.scope,
         net'[t] = AnswerOf(net[t], code, k, b) =>
           /\ Good(After(jar, net'[t], dep.scope), dep.variant, grants', sessions')
           /\ Usable(AppAfter(app', net'[t]), grants', sessions')
  PROVE  Turns'
<1>1. \A u \in Tabs : u # t => net'[u] = net[u]
  BY DEF Answers
<1>2. net'[t] = AnswerOf(net[t], code, k, b)
  BY DEF Answers, Waiting
<1>3. Arriving(net'[t]) /\ ~Waiting(net'[t])
  BY <1>2 DEF Arriving, Waiting, AnswerOf
<1>4. \A u \in Tabs : u # t => ~Waiting(net[u]) /\ ~Arriving(net[u])
  BY DEF Turns
<1>5. \A u \in Tabs : u # t => ~Waiting(net'[u]) /\ ~Arriving(net'[u])
  BY <1>1, <1>4
<1>6. Ordered(Refreshes(jar', dep'.scope), dep'.variant)
  BY DEF Turns
<1>7. \A u \in Tabs : Arriving(net'[u]) =>
        /\ Good(After(jar', net'[u], dep'.scope), dep'.variant, grants', sessions')
        /\ Usable(AppAfter(app', net'[u]), grants', sessions')
  BY <1>2, <1>5
<1>8. /\ \A u, w \in Tabs : (Waiting(net'[u]) \/ Arriving(net'[u])) /\ (Waiting(net'[w]) \/ Arriving(net'[w])) => u = w
      /\ ~\A u \in Tabs : ~Arriving(net'[u])
      /\ \A u \in Tabs : ~Waiting(net'[u])
  BY <1>3, <1>5
<1> QED BY <1>6, <1>7, <1>8 DEF Turns

\* What is read is a grant there is, if all cookies are.
LEMMA ShownIsKnown ==
  ASSUME NEW f, NEW v, NEW gs, \A n \in Variants : Known(f[n], gs)
  PROVE  Known(Shown(f, v), gs)
<1>1. {"host", "secure", "plain"} \subseteq Variants
  BY DEF Variants
<1> QED BY <1>1 DEF Shown

\* Grants are numbers.
LEMMA KnownIsNat == \A gs, g : Known(g, gs) => g \in Nat
BY DEF Known

\* The refresh cookies of the jar are grants there are.
LEMMA RefreshesAreKnown ==
  ASSUME WireAssumption, JarFine, NEW z \in Scopes
  PROVE  \A n \in Variants : /\ Known(Refreshes(jar, z)[n], grants)
                             /\ Refreshes(jar, z)[n] = jar[<<"refresh", MarkAt(z, n)>>]
                             /\ Refreshes(jar, z)[n] \in Nat
<1>1. \A n \in Variants : Known(Refreshes(jar, z)[n], grants) /\ Refreshes(jar, z)[n] = jar[<<"refresh", MarkAt(z, n)>>]
  BY MarksOf DEF JarFine, Refreshes
<1> QED BY <1>1, KnownIsNat

\* What the clients will have once an answer has arrived are grants there are.
LEMMA AfterIsKnown ==
  ASSUME WireAssumption, JarFine, Known(app, grants), NEW z \in Scopes,
         NEW q, RequestFine(q, grants, sessions), q.phase = "answered"
  PROVE  /\ \A n \in Variants :
              /\ Known(After(jar, q, z)[n], grants)
              /\ After(jar, q, z)[n] = IF q.page # "app" /\ <<"refresh", MarkAt(z, n)>> \in DOMAIN q.cookies
                                       THEN q.cookies[<<"refresh", MarkAt(z, n)>>] ELSE jar[<<"refresh", MarkAt(z, n)>>]
         /\ Known(AppAfter(app, q), grants)
<1>1. AnswerFine(q, grants)
  BY DEF RequestFine
<1>2. \A n \in Marks : <<"refresh", n>> \in DOMAIN q.cookies => Known(q.cookies[<<"refresh", n>>], grants)
  BY <1>1 DEF AnswerFine, CookiesFine
<1>3. \A n \in Marks : Known(jar[<<"refresh", n>>], grants)
  BY DEF JarFine
<1>4. Known(q.body, grants)
  BY <1>1 DEF AnswerFine
<1>5. \A n \in Variants : MarkAt(z, n) \in Marks
  BY MarksOf
<1> QED BY <1>2, <1>3, <1>4, <1>5 DEF After, AppAfter

\* The tokens a request carries: the bearer client's from header and body, anyone else's from the cookies.
LEMMA CarriedIsKnown ==
  ASSUME NEW q, NEW gs, NEW ss, SentFine(q, gs, ss)
  PROVE  /\ Known(RefreshTokenFromRequest(q), gs) /\ Known(AccessTokenFromRequest(q), gs)
         /\ q.page = "app" => RefreshTokenFromRequest(q) = q.body /\ AccessTokenFromRequest(q) = q.bearer
         /\ q.page # "app" => /\ RefreshTokenFromRequest(q) = CookieValue(q.sent, "refresh")
                              /\ AccessTokenFromRequest(q) = CookieValue(q.sent, "access")
         /\ \A b \in {"access", "refresh"} :
              CookieValue(q.sent, b) # 0 => q.page # "app" /\ \E n \in Variants : q.sent[<<b, n>>] = CookieValue(q.sent, b)
<1>1. {"host", "secure", "plain"} \subseteq Variants /\ 0 \notin 1..Len(gs)
  BY DEF Variants
<1>2. \A b \in {"access", "refresh"} :
        /\ Known(q.sent[<<b, "host">>], gs) /\ Known(q.sent[<<b, "secure">>], gs) /\ Known(q.sent[<<b, "plain">>], gs)
  BY <1>1 DEF SentFine
<1>3. \A b \in {"access", "refresh"} : Known(CookieValue(q.sent, b), gs)
  BY <1>2, ReadsFirst DEF Known
<1>4. q.page = "app" => \A b \in {"access", "refresh"} :
        q.sent[<<b, "host">>] = 0 /\ q.sent[<<b, "secure">>] = 0 /\ q.sent[<<b, "plain">>] = 0
  BY <1>1, CookieNames DEF SentFine, Bases
<1>5. q.page = "app" => \A b \in {"access", "refresh"} : CookieValue(q.sent, b) = 0
  BY <1>4, ReadsFirst
<1>6. \A b \in {"access", "refresh"} : \E n \in Variants : q.sent[<<b, n>>] = CookieValue(q.sent, b)
  BY <1>1, ReadsFirst
<1>7. /\ Known(q.bearer, gs) /\ Known(q.body, gs)
      /\ q.page # "app" => q.bearer = 0 /\ q.body = 0
  BY DEF SentFine
<1> QED BY <1>3, <1>5, <1>6, <1>7 DEF RefreshTokenFromRequest, AccessTokenFromRequest

\* What is so while grants and sessions are kept stays so.
LEMMA GoodLasts ==
  ASSUME GrantsFine, Steady, NEW f, NEW v, \A n \in Variants : Known(f[n], grants), Good(f, v, grants, sessions)
  PROVE  Good(f, v, grants', sessions')
<1>1. PICK x : x = Shown(f, v)
  OBVIOUS
<1>2. Known(x, grants)
  BY <1>1, ShownIsKnown
<1>3. Usable(x, grants', sessions')
  BY <1>1, <1>2, SteadyUse DEF Good
<1> QED BY <1>1, <1>3 DEF Good

\* Requests in turn stay so when nothing they depend on moves.
LEMMA TurnsLast ==
  ASSUME WireAssumption, Turns, GrantsFine, NetFine, JarFine, Known(app, grants), Steady, dep.scope \in Scopes,
         jar' = jar, app' = app, dep'.variant = dep.variant, dep'.scope = dep.scope,
         \A u \in Tabs : Waiting(net'[u]) \/ Arriving(net'[u]) => net'[u] = net[u],
         \A u \in Tabs : Arriving(net[u]) => Arriving(net'[u])
  PROVE  Turns'
<1>1. \A u, w \in Tabs : (Waiting(net'[u]) \/ Arriving(net'[u])) /\ (Waiting(net'[w]) \/ Arriving(net'[w])) => u = w
  BY DEF Turns
<1>2. Ordered(Refreshes(jar', dep'.scope), dep'.variant)
  BY DEF Turns
<1>3. (\A u \in Tabs : ~Arriving(net'[u])) =>
         Good(Refreshes(jar', dep'.scope), dep'.variant, grants', sessions') /\ Usable(app', grants', sessions')
  <2> SUFFICES ASSUME \A u \in Tabs : ~Arriving(net'[u])
               PROVE  Good(Refreshes(jar', dep'.scope), dep'.variant, grants', sessions') /\ Usable(app', grants', sessions')
    OBVIOUS
  <2>1. Good(Refreshes(jar, dep.scope), dep.variant, grants, sessions) /\ Usable(app, grants, sessions)
    BY DEF Turns
  <2>2. PICK f, v, z : f = Refreshes(jar, z) /\ v = dep.variant /\ z = dep.scope
    OBVIOUS
  <2>3. \A n \in Variants : Known(f[n], grants)
    BY <2>2, RefreshesAreKnown
  <2>4. Good(f, v, grants', sessions')
    BY <2>1, <2>2, <2>3, GoodLasts
  <2>5. Usable(app, grants', sessions')
    BY <2>1, SteadyUse
  <2> QED BY <2>2, <2>4, <2>5
<1>4. ASSUME NEW u \in Tabs, Arriving(net'[u])
      PROVE  /\ Good(After(jar', net'[u], dep'.scope), dep'.variant, grants', sessions')
             /\ Usable(AppAfter(app', net'[u]), grants', sessions')
  <2>1. PICK q, f, v, x, z :
          q = net[u] /\ f = After(jar, q, z) /\ v = dep.variant /\ x = AppAfter(app, q) /\ z = dep.scope
    OBVIOUS
  <2>2. net'[u] = q /\ Arriving(q)
    BY <1>4, <2>1
  <2>3. Good(f, v, grants, sessions) /\ Usable(x, grants, sessions)
    BY <2>1, <2>2 DEF Turns
  <2>4. RequestFine(q, grants, sessions) /\ q.phase = "answered"
    BY <2>1, <2>2 DEF NetFine, Arriving
  <2>5. (\A n \in Variants : Known(f[n], grants)) /\ Known(x, grants)
    BY <2>1, <2>4, AfterIsKnown
  <2>6. Good(f, v, grants', sessions')
    BY <2>3, <2>5, GoodLasts
  <2>7. Usable(x, grants', sessions')
    BY <2>3, <2>5, SteadyUse
  <2> QED BY <2>1, <2>2, <2>6, <2>7
<1>5. ASSUME NEW u \in Tabs, Waiting(net'[u]), net'[u].route.effect = "refresh"
      PROVE  Usable(RefreshTokenFromRequest(net'[u]), grants', sessions')
  <2>1. PICK q, x : q = net[u] /\ x = RefreshTokenFromRequest(q)
    OBVIOUS
  <2>2. net'[u] = q /\ Waiting(q)
    BY <1>5, <2>1
  <2>3. Usable(x, grants, sessions)
    BY <1>5, <2>1, <2>2 DEF Turns
  <2>4. SentFine(q, grants, sessions)
    BY <2>1, <2>2 DEF NetFine, RequestFine, Waiting
  <2>5. Known(x, grants)
    BY <2>1, <2>4, CarriedIsKnown
  <2>6. Usable(x, grants', sessions')
    BY <2>3, <2>5, SteadyUse
  <2> QED BY <2>1, <2>2, <2>6
<1> QED BY <1>1, <1>2, <1>3, <1>4, <1>5 DEF Turns

\* The answer of another request leaves the turn where it is.
LEMMA OthersInTurn ==
  ASSUME WireAssumption, Turns, GrantsFine, NetFine, JarFine, Known(app, grants), Steady, dep.scope \in Scopes,
         NEW t \in Tabs, net[t].phase = "sent", ~Waiting(net[t]),
         NEW code, NEW k, NEW b, Answers(t, code, k, b), jar' = jar, app' = app,
         dep'.variant = dep.variant, dep'.scope = dep.scope
  PROVE  Turns'
<1>1. \A u \in Tabs : u # t => net'[u] = net[u]
  BY DEF Answers
<1>2. net[t].route.effect \notin TokenRoutes
  BY DEF Waiting
<1>3. ~Waiting(net'[t]) /\ ~Arriving(net'[t])
  BY <1>2, AnswerPhase DEF Waiting, Arriving
<1>4. ~Arriving(net[t])
  BY DEF Arriving
<1> QED BY <1>1, <1>3, <1>4, TurnsLast

(***************************************************************************)
(* Answers that set no token cookies.                                      *)
(***************************************************************************)
Unmoved == /\ dep' = dep /\ jar' = jar /\ app' = app
           /\ overlap' = overlap /\ lost' = lost /\ shadowed' = shadowed

\* At most the CSRF cookie.
Quiet(k) ==
  /\ DOMAIN k \subseteq Cookies
  /\ \A n \in Marks : /\ <<"csrf", n>> \in DOMAIN k => k[<<"csrf", n>>] \in {0, 1}
                      /\ <<"access", n>> \notin DOMAIN k /\ <<"refresh", n>> \notin DOMAIN k

\* The CSRF middleware sets at most the CSRF cookie.
LEMMA DistributedIsQuiet ==
  ASSUME WireAssumption, dep.variant \in Variants, dep.scope \in Scopes, NEW q
  PROVE  /\ Quiet(Distributed(q)) /\ Quiet(NoCookies)
         /\ DOMAIN Distributed(q) \subseteq {<<"csrf", MarkAt(dep.scope, dep.variant)>>} /\ DOMAIN NoCookies = {}
<1>1. DOMAIN NoCookies = {}
  BY DEF NoCookies
<1>2. PICK v : v = MarkAt(dep.scope, dep.variant)
  OBVIOUS
<1>3. PICK d : d = Distributed(q)
  OBVIOUS
<1>4. d = [c \in {<<"csrf", v>>} |-> 1] \/ d = NoCookies
  BY <1>2, <1>3, MarksOf DEF Distributed, CookieName
<1>5. DOMAIN d \subseteq {<<"csrf", v>>} /\ \A c \in DOMAIN d : d[c] = 1
  BY <1>1, <1>4
<1>6. <<"csrf", v>> \in Cookies
  BY <1>2, MarksOf, CookieNames DEF Bases
<1>7. \A n \in Marks : <<"access", n>> # <<"csrf", v>> /\ <<"refresh", n>> # <<"csrf", v>>
  OBVIOUS
<1>8. Quiet(d)
  BY <1>5, <1>6, <1>7 DEF Quiet
<1>9. Quiet(NoCookies)
  BY <1>1 DEF Quiet
<1> QED BY <1>1, <1>2, <1>3, <1>5, <1>8, <1>9

\* An answer without token cookies is fine.
LEMMA QuietIsFine ==
  ASSUME NEW k, Quiet(k), NEW effect, NEW gs
  PROVE  CookiesFine(k, effect, gs)
BY DEF Quiet, CookiesFine

\* An answer without token cookies leaves the refresh cookies alone.
LEMMA QuietAfter ==
  ASSUME WireAssumption, NEW z \in Scopes, NEW j, NEW a, Quiet(a.cookies)
  PROVE  After(j, a, z) = Refreshes(j, z)
<1>1. \A n \in Variants : <<"refresh", MarkAt(z, n)>> \notin DOMAIN a.cookies
  BY MarksOf DEF Quiet
<1> QED BY <1>1 DEF After, Refreshes

\* Nothing is left behind as long as no answer carries anything to leave.
LEMMA NoneLeftLasts ==
  ASSUME NoneLeft, NEW t \in Tabs, dep'.scope = dep.scope,
         \A n \in Marks : jar[<<"refresh", n>>] = 0 => jar'[<<"refresh", n>>] = 0,
         \A u \in Tabs : u # t => net'[u] = net[u],
         net'[t].phase = "answered" => Tidy(dep.scope, net'[t].cookies)
  PROVE  NoneLeft'
<1>1. ASSUME NEW u \in Tabs, net'[u].phase = "answered"
      PROVE  Tidy(dep.scope, net'[u].cookies)
  BY <1>1 DEF NoneLeft
<1>2. \A n \in Marks : Stray(dep.scope, n) => jar'[<<"refresh", n>>] = 0
  BY DEF NoneLeft
<1>3. PICK z : z = dep.scope
  OBVIOUS
<1>4. z = dep'.scope
  BY <1>3
<1>5. \A u \in Tabs : net'[u].phase = "answered" => Tidy(z, net'[u].cookies)
  BY <1>1, <1>3
<1>6. \A n \in Marks : Stray(z, n) => jar'[<<"refresh", n>>] = 0
  BY <1>2, <1>3
<1> QED BY <1>4, <1>5, <1>6 DEF NoneLeft, Tidy, Stray, MarkAt

\* A request that is answered without token cookies, and mints nothing.
LEMMA QuietKeeps ==
  ASSUME WireAssumption, IInv, Steady, Unmoved, ForeignFine', NEW t \in Tabs, net[t].phase = "sent",
         NEW code, NEW k, Quiet(k), Answer(t, code, k, 0), net[t].route.effect = "logout" => code # "OK"
  PROVE  IInv'
<1>1. /\ GrantsFine /\ JarFine /\ NetFine /\ Apart /\ Known(app, grants) /\ dep \in Settings
      /\ dep.variant \in Variants /\ dep.scope \in Scopes
      /\ ~shadowed => NoneLeft
      /\ InTurn => Turns
  BY DEF IInv, Always
<1>2. /\ dep' = dep /\ jar' = jar /\ app' = app /\ shadowed' = shadowed
      /\ InTurn' => InTurn
  BY DEF Unmoved, InTurn
<1>3. Answers(t, code, k, 0)
  BY <1>1, Answered
<1>4. \A n \in Marks : <<"refresh", n>> \notin DOMAIN k
  BY DEF Quiet
<1>5. JarFine'
  BY <1>1, <1>2, JarWaits DEF Steady
<1>6. RequestFine(net'[t], grants', sessions')
  <2>1. PICK q, gs, ss : q = net[t] /\ gs = grants' /\ ss = sessions'
    OBVIOUS
  <2>2. RequestFine(AnswerOf(q, code, k, 0), gs, ss)
    <3>1. CookiesFine(k, q.route.effect, gs)
      BY QuietIsFine
    <3>2. Known(0, gs)
      BY DEF Known
    <3> QED BY <3>1, <3>2, <1>4, <2>1, AnswerIsFine
  <2>3. RequestFine(Idle, gs, ss)
    BY DEF RequestFine, Idle
  <2> QED BY <1>3, <2>1, <2>2, <2>3 DEF Answers
<1>7. NetFine'
  <2>1. \A u \in Tabs : \A g \in 1..Len(grants) : PutBy(net[u], g) => grants'[g].age = grants[g].age
    BY DEF Steady, SameAges
  <2> QED BY <2>1, <1>1, <1>3, <1>6, NetLasts DEF Answers, Steady
<1>8. Apart'
  <2>1. \A g \in 1..Len(grants) : (BrowserHas(jar', net', g) => BrowserHas(jar, net, g)) /\ (AppHas(app', net', g) => AppHas(app, net, g))
    <3> SUFFICES ASSUME NEW g \in 1..Len(grants)
                 PROVE  (BrowserHas(jar', net', g) => BrowserHas(jar, net, g)) /\ (AppHas(app', net', g) => AppHas(app, net, g))
      OBVIOUS
    <3>1. /\ BrowserHas(jar', net', g) => \/ BrowserHas(jar, net, g)
                                          \/ \E n \in Marks : <<"refresh", n>> \in DOMAIN k /\ k[<<"refresh", n>>] = g
          /\ AppHas(app', net', g) => AppHas(app, net, g) \/ 0 = g
      <4>1. PICK b : b = 0
        OBVIOUS
      <4>2. Answers(t, code, k, b)
        BY <4>1, <1>3
      <4>3. jar' = jar /\ app' = app
        BY <1>2
      <4> QED BY <4>1, <4>2, <4>3, AnswerHolds
    <3>2. g # 0
      BY <1>1 DEF GrantsFine
    <3> QED BY <3>1, <3>2, <1>4
  <2> QED BY <2>1, <1>1, ApartLasts DEF Steady
<1>9. Known(app, grants)'
  BY <1>1, <1>2 DEF Known, Steady
<1>10. ASSUME Turns
       PROVE  Turns'
  <2>1. CASE Waiting(net[t])
    <3>1. ASSUME net'[t] = AnswerOf(net[t], code, k, 0)
          PROVE  /\ Good(After(jar, net'[t], dep.scope), dep.variant, grants', sessions')
                 /\ Usable(AppAfter(app', net'[t]), grants', sessions')
      <4>1. PICK a : a = net'[t]
        OBVIOUS
      <4>2. a.cookies = k /\ a.body = 0
        BY <3>1, <4>1 DEF AnswerOf
      <4>3. After(jar, a, dep.scope) = Refreshes(jar, dep.scope)
        BY <4>2, <1>1, QuietAfter
      <4>4. AppAfter(app', a) = app
        BY <4>2, <1>2 DEF AppAfter
      <4>5. \A u \in Tabs : ~Arriving(net[u])
        BY <1>10, <2>1 DEF Turns, Waiting, Arriving
      <4>6. Good(Refreshes(jar, dep.scope), dep.variant, grants, sessions) /\ Usable(app, grants, sessions)
        BY <1>10, <4>5 DEF Turns
      <4>7. PICK f, v, z : f = Refreshes(jar, z) /\ v = dep.variant /\ z = dep.scope
        OBVIOUS
      <4>8. \A n \in Variants : Known(f[n], grants)
        BY <4>7, <1>1, RefreshesAreKnown
      <4>9. Good(f, v, grants', sessions')
        BY <4>6, <4>7, <4>8, <1>1, GoodLasts
      <4>10. Usable(app, grants', sessions')
        BY <4>6, <1>1, SteadyUse
      <4> QED BY <4>1, <4>3, <4>4, <4>7, <4>9, <4>10
    <3> QED BY <3>1, <2>1, <1>10, <1>2, <1>3, AnsweredInTurn
  <2>2. CASE ~Waiting(net[t])
    BY <2>2, <1>10, <1>1, <1>2, <1>3, OthersInTurn
  <2> QED BY <2>1, <2>2
<1>11. InTurn' => Turns'
  BY <1>1, <1>2, <1>10
<1>12. Always'
  BY <1>1, <1>2, <1>5, <1>7, <1>8, <1>9 DEF Always, Steady
<1>13. ASSUME NoneLeft
       PROVE  NoneLeft'
  <2>1. net'[t].phase = "answered" => net'[t].cookies = k
    <3>1. PICK b : b = 0
      OBVIOUS
    <3>2. Answers(t, code, k, b)
      BY <3>1, <1>3
    <3> QED BY <3>2, AnswerPhase
  <2>2. net'[t].phase = "answered" => Tidy(dep.scope, net'[t].cookies)
    BY <2>1, <1>4 DEF Tidy
  <2>3. \A u \in Tabs : u # t => net'[u] = net[u]
    BY <1>3 DEF Answers
  <2> QED BY <2>2, <2>3, <1>2, <1>13, NoneLeftLasts
<1> QED BY <1>1, <1>2, <1>11, <1>12, <1>13 DEF IInv

(***************************************************************************)
(* Another site's page.                                                    *)
(***************************************************************************)
\* What follows the last segment that is the prefix is one of the paths looked at.
LEMMA LastOfThePath ==
  ASSUME NEW path, NEW n \in Nat \ {0}, Len(path) = n, path \in Seq({"auth", "link-request"})
  PROVE  SubSeq(path, n, n) = <<path[n]>>
<1>1. PICK s : s = SubSeq(path, n, n)
  OBVIOUS
<1>2. s \in Seq({"auth", "link-request"}) /\ Len(s) = 1 /\ s[1] = path[n]
  BY <1>1
<1>3. s = [i \in 1..1 |-> s[i]] /\ <<path[n]>> = [i \in 1..1 |-> path[n]]
  BY <1>2
<1> QED BY <1>1, <1>2, <1>3

\* Below one prefix or two, link-request is among the paths the double submit looks at.
LEMMA PathsOfTheManualRoute ==
  ASSUME NEW path, path = <<"auth", "link-request">> \/ path = <<"auth", "auth", "link-request">>
  PROVE  \E k \in DOMAIN RelativePaths(path) : RelativePaths(path)[k] = <<"link-request">>
<1> DEFINE at     == {i \in DOMAIN path : path[i] = "auth"}
           nth(k) == CHOOSE i \in at : Cardinality({j \in at : j <= i}) = k
           rels   == [k \in 1..Cardinality(at) |-> SubSeq(path, nth(k) + 1, Len(path))]
<1>0. RelativePaths(path) = rels
  BY DEF RelativePaths
<1>1. Cardinality({1}) = 1
  BY FS_Singleton
<1>2. Cardinality({1, 2}) = 2
  <2>1. IsFiniteSet({1})
    BY FS_Singleton
  <2>2. {1} \cup {2} = {1, 2} /\ 2 \notin {1}
    OBVIOUS
  <2>3. Cardinality({1} \cup {2}) = Cardinality({1}) + 1
    BY <2>1, <2>2, FS_AddElement
  <2> QED BY <1>1, <2>2, <2>3
<1>3. CASE path = <<"auth", "link-request">>
  <2>1. path \in Seq({"auth", "link-request"}) /\ Len(path) = 2 /\ DOMAIN path = 1..2 /\ path[1] = "auth" /\ path[2] = "link-request"
    BY <1>3
  <2>2. at = {1}
    BY <2>1
  <2>3. {j \in at : j <= 1} = {1}
    BY <2>2
  <2>4. nth(1) = 1
    <3>1. Cardinality({j \in at : j <= 1}) = 1
      BY <2>3, <1>1
    <3> HIDE DEF at
    <3> QED BY <2>2, <3>1
  <2>5. 1 \in DOMAIN rels /\ rels[1] = SubSeq(path, 2, 2)
    <3>1. Cardinality(at) = 1
      BY <2>2, <1>1
    <3> HIDE DEF at, nth
    <3> QED BY <3>1, <2>1, <2>4
  <2>6. SubSeq(path, 2, 2) = <<"link-request">>
    <3>1. PICK n : n = 2
      OBVIOUS
    <3>2. n \in Nat \ {0} /\ Len(path) = n /\ path \in Seq({"auth", "link-request"}) /\ path[n] = "link-request"
      BY <2>1, <3>1
    <3>3. SubSeq(path, n, n) = <<path[n]>>
      BY <3>2, LastOfThePath
    <3> QED BY <3>1, <3>2, <3>3
  <2> QED BY <1>0, <2>5, <2>6
<1>4. CASE path = <<"auth", "auth", "link-request">>
  <2>1. /\ path \in Seq({"auth", "link-request"}) /\ Len(path) = 3 /\ DOMAIN path = 1..3
        /\ path[1] = "auth" /\ path[2] = "auth" /\ path[3] = "link-request"
    BY <1>4
  <2>2. at = {1, 2}
    BY <2>1
  <2>3. {j \in at : j <= 1} = {1} /\ {j \in at : j <= 2} = {1, 2}
    BY <2>2
  <2>4. nth(2) = 2
    <3>1. Cardinality({j \in at : j <= 2}) = 2 /\ Cardinality({j \in at : j <= 1}) = 1
      BY <2>3, <1>1, <1>2
    <3> HIDE DEF at
    <3> QED BY <2>2, <3>1
  <2>5. 2 \in DOMAIN rels /\ rels[2] = SubSeq(path, 3, 3)
    <3>1. Cardinality(at) = 2
      BY <2>2, <1>2
    <3> HIDE DEF at, nth
    <3> QED BY <3>1, <2>1, <2>4
  <2>6. SubSeq(path, 3, 3) = <<"link-request">>
    <3>1. PICK n : n = 3
      OBVIOUS
    <3>2. n \in Nat \ {0} /\ Len(path) = n /\ path \in Seq({"auth", "link-request"}) /\ path[n] = "link-request"
      BY <2>1, <3>1
    <3>3. SubSeq(path, n, n) = <<path[n]>>
      BY <3>2, LastOfThePath
    <3> QED BY <3>1, <3>2, <3>3
  <2> QED BY <1>0, <2>5, <2>6
<1> QED BY <1>3, <1>4

\* A route that writes is link-request, or is gated and reached by PATCH or DELETE.
LEMMA WritingRoutes ==
  ASSUME NEW rt \in Routes, rt.effect \in Writes
  PROVE  \/ rt = Route("POST", <<"link-request">>, FALSE, "link")
         \/ rt.gate /\ rt.method \in {"PATCH", "DELETE"}
<1>1. PICK Y, N : Y = TRUE /\ N = FALSE
  OBVIOUS
<1>2. \/ rt \in {Route("POST", <<"login">>, N, "login"), Route("POST", <<"refresh">>, N, "refresh"),
                Route("POST", <<"logout">>, N, "logout"), Route("POST", <<"sessions", "cleanup">>, N, "cleanup"),
                Route("GET", <<"me">>, Y, "read")}
      \/ rt = Route("POST", <<"link-request">>, N, "link")
      \/ rt \in {Route("PATCH", <<"profile">>, Y, "write"),
                Route("DELETE", <<"linked-accounts", "auth", "login">>, Y, "write"),
                Route("DELETE", <<"sessions", "handle">>, Y, "revoke"),
                Route("DELETE", <<"sessions", "cleanup">>, Y, "revoke"),
                Route("DELETE", <<"account">>, Y, "delete")}
  BY <1>1 DEF Routes
<1>3. \A m, p, w, e : /\ Route(m, p, w, e).gate = w /\ Route(m, p, w, e).method = m
                     /\ Route(m, p, w, e).effect = e
  BY DEF Route
<1>4. rt.effect \notin {"login", "refresh", "logout", "cleanup", "read"}
  BY DEF Writes
<1>5. CASE rt \in {Route("POST", <<"login">>, N, "login"), Route("POST", <<"refresh">>, N, "refresh"),
                Route("POST", <<"logout">>, N, "logout"), Route("POST", <<"sessions", "cleanup">>, N, "cleanup"),
                Route("GET", <<"me">>, Y, "read")}
  BY <1>3, <1>4, <1>5
<1>6. CASE rt \in {Route("PATCH", <<"profile">>, Y, "write"),
                Route("DELETE", <<"linked-accounts", "auth", "login">>, Y, "write"),
                Route("DELETE", <<"sessions", "handle">>, Y, "revoke"),
                Route("DELETE", <<"sessions", "cleanup">>, Y, "revoke"),
                Route("DELETE", <<"account">>, Y, "delete")}
  <2>1. rt.gate = Y
    BY <1>3, <1>6
  <2>2. rt.method = "PATCH" \/ rt.method = "DELETE"
    BY <1>3, <1>6
  <2>3. rt.gate
    BY <2>1, <1>1
  <2> QED BY <2>2, <2>3
<1> QED BY <1>1, <1>2, <1>5, <1>6

\* Two sequences, joined.
LEMMA Joined ==
  ASSUME NEW T, NEW s \in Seq(T), NEW t \in Seq(T)
  PROVE  /\ s \o t \in Seq(T) /\ Len(s \o t) = Len(s) + Len(t)
         /\ \A i \in 1..(Len(s) + Len(t)) : (s \o t)[i] = IF i <= Len(s) THEN s[i] ELSE t[i - Len(s)]
OBVIOUS

\* The paths link-request is served under.
LEMMA JoinedPaths ==
  /\ <<>> \o <<"auth">> \o <<"link-request">> = <<"auth", "link-request">>
  /\ <<"auth">> \o <<"auth">> \o <<"link-request">> = <<"auth", "auth", "link-request">>
<1>1. PICK T : T = {"auth", "link-request"}
  OBVIOUS
<1>2. PICK o, a, b : o = <<>> /\ a = <<"auth">> /\ b = <<"link-request">>
  OBVIOUS
<1>3. /\ o \in Seq(T) /\ a \in Seq(T) /\ b \in Seq(T)
      /\ Len(o) = 0 /\ Len(a) = 1 /\ Len(b) = 1 /\ a[1] = "auth" /\ b[1] = "link-request"
  BY <1>1, <1>2
<1>4. PICK e : e = o \o a
  OBVIOUS
<1>5. e \in Seq(T) /\ Len(e) = 1 /\ e[1] = "auth"
  BY <1>3, <1>4, Joined
<1>6. PICK c : c = e \o b
  OBVIOUS
<1>7. c \in Seq(T) /\ Len(c) = 2 /\ c[1] = "auth" /\ c[2] = "link-request"
  BY <1>3, <1>5, <1>6, Joined
<1>8. c = <<"auth", "link-request">>
  BY <1>7
<1>9. PICK f : f = a \o a
  OBVIOUS
<1>10. f \in Seq(T) /\ Len(f) = 2 /\ f[1] = "auth" /\ f[2] = "auth"
  BY <1>3, <1>9, Joined
<1>11. PICK d : d = f \o b
  OBVIOUS
<1>12. d \in Seq(T) /\ Len(d) = 3 /\ d[1] = "auth" /\ d[2] = "auth" /\ d[3] = "link-request"
  <2>1. d \in Seq(T) /\ Len(d) = 3
    BY <1>3, <1>10, <1>11, Joined
  <2>2. \A i \in 1..(Len(f) + Len(b)) : d[i] = IF i <= Len(f) THEN f[i] ELSE b[i - Len(f)]
    BY <1>3, <1>10, <1>11, Joined
  <2>3. d[1] = f[1] /\ d[2] = f[2] /\ d[3] = b[1]
    BY <2>2, <1>3, <1>10
  <2> QED BY <2>1, <2>3, <1>3, <1>10
<1>13. d = <<"auth", "auth", "link-request">>
  BY <1>12
<1> QED BY <1>2, <1>4, <1>6, <1>8, <1>9, <1>11, <1>13

\* No request of another site's page that writes passes the double submit and the gate: without the access
\* cookie the gate refuses it, with it the double submit, and link-request is checked either way.
LEMMA ForeignIsRefused ==
  ASSUME NEW rq, rq.route \in Routes, rq.page = "other", rq.bearer = 0, dep.csrf, rq.route.effect \in Writes,
         ~CSRFRefuses(rq), rq.route.gate => AccessRefusal(AccessTokenFromRequest(rq)) = ""
  PROVE  FALSE
<1>1. ~CSRFEnforced(rq)
  BY DEF CSRFRefuses, UsingBearerCredential, HeaderMatches
<1>2. \/ rq.route = Route("POST", <<"link-request">>, FALSE, "link")
      \/ rq.route.gate /\ rq.route.method \in {"PATCH", "DELETE"}
  BY WritingRoutes
<1>3. CASE rq.route = Route("POST", <<"link-request">>, FALSE, "link")
  <2>1. rq.route.method = "POST" /\ rq.route.path = <<"link-request">>
    BY <1>3 DEF Route
  <2>2. PICK path : path = ServedPath(rq.route)
    OBVIOUS
  <2>3. path = <<"auth", "link-request">> \/ path = <<"auth", "auth", "link-request">>
    <3>1. path = (IF dep.nested THEN <<"auth">> ELSE <<>>) \o <<"auth">> \o <<"link-request">>
      BY <2>1, <2>2 DEF ServedPath
    <3> QED BY <3>1, JoinedPaths
  <2>4. \E k \in DOMAIN RelativePaths(path) : RelativePaths(path)[k] = <<"link-request">>
    BY <2>3, PathsOfTheManualRoute
  <2>5. \E k \in DOMAIN RelativePaths(path) : <<"POST", RelativePaths(path)[k]>> \in ManualCheckRoutes
    BY <2>4 DEF ManualCheckRoutes
  <2> QED BY <1>1, <2>1, <2>2, <2>5 DEF CSRFEnforced, IsMutatingMethod
<1>4. CASE rq.route.gate /\ rq.route.method \in {"PATCH", "DELETE"}
  <2>1. CookieValue(rq.sent, "access") # 0
    BY <1>4 DEF AccessRefusal, AccessTokenFromRequest
  <2>2. IsMutatingMethod(rq.route.method)
    BY <1>4 DEF IsMutatingMethod
  <2>3. \A p : <<rq.route.method, p>> \notin ExemptRoutes
    BY <1>4 DEF ExemptRoutes
  <2> QED BY <1>1, <2>1, <2>2, <2>3 DEF CSRFEnforced
<1> QED BY <1>2, <1>3, <1>4

\* So no handler that runs writes for another site.
LEMMA EffectIsFine ==
  ASSUME IInv, NEW t \in Tabs, net[t].phase = "sent", Admitted(t), Effect(t), dep' = dep
  PROVE  ForeignFine'
<1> SUFFICES ASSUME dep.csrf PROVE foreign' = {}
  BY DEF ForeignFine
<1>1. foreign = {}
  BY DEF IInv, Always, ForeignFine
<1>2. PICK q : q = net[t]
  OBVIOUS
<1>3. SentFine(q, grants, sessions)
  BY <1>2 DEF IInv, Always, NetFine, RequestFine
<1>4. ~(q.page = "other" /\ q.route.effect \in Writes)
  <2> SUFFICES ASSUME q.page = "other", q.route.effect \in Writes PROVE FALSE
    OBVIOUS
  <2>1. q.route \in Routes /\ q.bearer = 0
    BY <1>3 DEF SentFine
  <2>2. ~CSRFRefuses(q) /\ (q.route.gate => AccessRefusal(AccessTokenFromRequest(q)) = "")
    BY <1>2 DEF Admitted
  <2> QED BY <2>1, <2>2, ForeignIsRefused
<1> QED BY <1>1, <1>2, <1>4 DEF Effect

(***************************************************************************)
(* The requests that are refused, and the routes that touch no cookie.     *)
(***************************************************************************)
\* A step that leaves sessions and grants alone is steady.
LEMMA UnrevokedIsSteady ==
  ASSUME IInv, sessions' = sessions, grants' = grants
  PROVE  Steady
BY Unrevoked DEF IInv, Always, Steady

\* Revoking is steady: it changes no current grant.
LEMMA RevokedIsSteady ==
  ASSUME IInv, NEW S, sessions' = Revoke(S), grants' = grants
  PROVE  Steady
<1>1. GrantsFine
  BY DEF IInv, Always
<1> QED BY <1>1, Revoking DEF Steady

\* A refusal that sets at most the CSRF cookie.
LEMMA RefuseKeeps ==
  ASSUME WireAssumption, IInv, NEW t \in Tabs, net[t].phase = "sent", NEW code, NEW k, Quiet(k), Refuse(t, code, k),
         net[t].route.effect = "logout" => code # "OK"
  PROVE  IInv'
<1>1. /\ Answer(t, code, k, 0)
      /\ Unmoved /\ sessions' = sessions /\ grants' = grants /\ foreign' = foreign
  BY DEF Refuse, Unmoved
<1>2. Steady
  BY <1>1, UnrevokedIsSteady
<1>3. ForeignFine'
  BY <1>1 DEF IInv, Always, ForeignFine, Unmoved
<1> QED BY <1>1, <1>2, <1>3, QuietKeeps

\* A refusal behind the CSRF middleware.
LEMMA RefuseDistributed ==
  ASSUME WireAssumption, IInv, NEW t \in Tabs, net[t].phase = "sent", NEW code, Refuse(t, code, Distributed(net[t])),
         net[t].route.effect = "logout" => code # "OK"
  PROVE  IInv'
<1>1. PICK k : k = Distributed(net[t])
  OBVIOUS
<1>2. dep.variant \in Variants /\ dep.scope \in Scopes
  BY DEF IInv, Always
<1>3. Quiet(k)
  BY <1>1, <1>2, DistributedIsQuiet
<1>4. Refuse(t, code, k)
  BY <1>1
<1> QED BY <1>3, <1>4, RefuseKeeps

\* A success that sets at most the CSRF cookie.
LEMMA OKKeeps ==
  ASSUME WireAssumption, IInv, Steady, NEW t \in Tabs, net[t].phase = "sent", Admitted(t), Effect(t), Unmoved,
         Answer(t, "OK", Distributed(net[t]), 0), net[t].route.effect # "logout"
  PROVE  IInv'
<1>1. PICK k, code : k = Distributed(net[t]) /\ code = "OK"
  OBVIOUS
<1>2. dep.variant \in Variants /\ dep.scope \in Scopes
  BY DEF IInv, Always
<1>3. Quiet(k)
  BY <1>1, <1>2, DistributedIsQuiet
<1>4. Answer(t, code, k, 0)
  BY <1>1
<1>5. ForeignFine'
  BY EffectIsFine DEF Unmoved
<1> QED BY <1>3, <1>4, <1>5, QuietKeeps

\* The limiter, the double submit and the gate refuse (RateLimitMiddleware, CSRFMiddleware, Middleware).
LEMMA RefusalsKeep ==
  ASSUME WireAssumption, IInv, NEW t \in Tabs, RateLimited(t) \/ CSRFRefused(t) \/ GateRefused(t)
  PROVE  IInv'
<1>1. CASE RateLimited(t)
  <2>1. PICK k, code : k = NoCookies /\ code = "TOO_MANY_REQUESTS"
    OBVIOUS
  <2>2. Quiet(k)
    BY <2>1, DistributedIsQuiet DEF IInv, Always
  <2>3. net[t].phase = "sent" /\ Refuse(t, code, k) /\ code # "OK"
    BY <1>1, <2>1 DEF RateLimited
  <2> QED BY <2>2, <2>3, RefuseKeeps
<1>2. CASE CSRFRefused(t)
  <2>1. PICK code : code = "CSRF_INVALID"
    OBVIOUS
  <2>2. net[t].phase = "sent" /\ Refuse(t, code, Distributed(net[t])) /\ code # "OK"
    BY <1>2, <2>1 DEF CSRFRefused
  <2> QED BY <2>2, RefuseDistributed
<1>3. CASE GateRefused(t)
  <2>1. PICK code : code = AccessRefusal(AccessTokenFromRequest(net[t]))
    OBVIOUS
  <2>2. code # "OK"
    BY <2>1 DEF AccessRefusal
  <2>3. net[t].phase = "sent" /\ Refuse(t, code, Distributed(net[t]))
    BY <1>3, <2>1 DEF GateRefused
  <2> QED BY <2>2, <2>3, RefuseDistributed
<1> QED BY <1>1, <1>2, <1>3

\* The routes that change no session.
LEMMA OtherRouteKeeps ==
  ASSUME WireAssumption, IInv, NEW t \in Tabs, OtherRoute(t)
  PROVE  IInv'
<1>1. /\ net[t].phase = "sent" /\ net[t].route.effect # "logout" /\ Admitted(t) /\ Effect(t)
      /\ Answer(t, "OK", Distributed(net[t]), 0)
      /\ Unmoved /\ sessions' = sessions /\ grants' = grants
  BY DEF OtherRoute, At, Unmoved
<1>2. Steady
  BY <1>1, UnrevokedIsSteady
<1> QED BY <1>1, <1>2, OKKeeps

\* A cleanup takes only sessions whose current grant says they have expired.
LEMMA CleanupIsSteady ==
  ASSUME IInv, grants' = grants,
         sessions' = [s \in DOMAIN sessions |->
                        IF Expired(s) THEN [sessions[s] EXCEPT !.state = "deleted"] ELSE sessions[s]]
  PROVE  Steady
<1>0. GrantsFine
  BY DEF IInv, Always
<1>1. PICK n : n = Len(sessions)
  OBVIOUS
<1>2. n \in Nat /\ DOMAIN sessions = 1..n
  BY <1>0, <1>1 DEF GrantsFine
<1>3. sessions' = [s \in 1..n |-> IF Expired(s) THEN [sessions[s] EXCEPT !.state = "deleted"] ELSE sessions[s]]
  BY <1>2
<1>4. Len(sessions') = n
  BY <1>2, <1>3
<1>5. ASSUME NEW s \in 1..n
      PROVE  /\ sessions'[s].cur = sessions[s].cur
             /\ sessions'[s].state \in {"live", "revoked", "deleted"}
             /\ sessions'[s].state = "deleted" => grants[sessions[s].cur].age >= 2
             /\ sessions'[s] = [state |-> sessions'[s].state, cur |-> sessions'[s].cur]
  <2>1. sessions'[s] = IF Expired(s) THEN [sessions[s] EXCEPT !.state = "deleted"] ELSE sessions[s]
    BY <1>3
  <2>2. /\ sessions[s] = [state |-> sessions[s].state, cur |-> sessions[s].cur]
        /\ sessions[s].state \in {"live", "revoked", "deleted"}
        /\ sessions[s].state = "deleted" => grants[sessions[s].cur].age >= 2
    BY <1>0, <1>1 DEF GrantsFine
  <2>3. CASE Expired(s)
    <3>1. grants[sessions[s].cur].age >= 2
      BY <2>3 DEF Expired
    <3> QED BY <2>1, <2>2, <2>3, <3>1
  <2>4. CASE ~Expired(s)
    BY <2>1, <2>2, <2>4
  <2> QED BY <2>3, <2>4
<1>6. sessions' = [s \in 1..n |-> sessions'[s]]
  BY <1>3
<1>7. GrantsFine'
  BY <1>0, <1>1, <1>2, <1>4, <1>5, <1>6 DEF GrantsFine
<1> QED BY <1>0, <1>1, <1>2, <1>4, <1>5, <1>7 DEF GrantsFine, SameGrants, SameAges, Steady

\* POST /sessions/cleanup.
LEMMA CleanupKeeps ==
  ASSUME WireAssumption, IInv, NEW t \in Tabs, CleanupSessions(t)
  PROVE  IInv'
<1>1. /\ net[t].phase = "sent" /\ net[t].route.effect # "logout" /\ Admitted(t) /\ Effect(t)
      /\ Answer(t, "OK", Distributed(net[t]), 0)
      /\ Unmoved /\ grants' = grants
      /\ sessions' = [s \in DOMAIN sessions |->
                        IF Expired(s) THEN [sessions[s] EXCEPT !.state = "deleted"] ELSE sessions[s]]
  BY DEF CleanupSessions, At, Unmoved
<1>2. Steady
  BY <1>1, CleanupIsSteady
<1> QED BY <1>1, <1>2, OKKeeps

\* DELETE /sessions/{handle}.
LEMMA RevokeSessionKeeps ==
  ASSUME WireAssumption, IInv, NEW t \in Tabs, RevokeSession(t)
  PROVE  IInv'
<1>1. net[t].phase = "sent" /\ net[t].route.effect # "logout" /\ Admitted(t)
  BY DEF RevokeSession, At
<1>2. CASE Refuse(t, "NOT_FOUND", Distributed(net[t]))
  <2>1. PICK code : code = "NOT_FOUND"
    OBVIOUS
  <2> QED BY <1>1, <1>2, <2>1, RefuseDistributed
<1>3. CASE ~Refuse(t, "NOT_FOUND", Distributed(net[t]))
  <2>1. /\ sessions' = Revoke({net[t].handle})
        /\ Answer(t, "OK", Distributed(net[t]), 0)
        /\ Effect(t) /\ Unmoved /\ grants' = grants
    BY <1>3 DEF RevokeSession, Unmoved
  <2>2. PICK S : S = {net[t].handle}
    OBVIOUS
  <2>3. Steady
    BY <2>1, <2>2, RevokedIsSteady
  <2> QED BY <1>1, <2>1, <2>3, OKKeeps
<1> QED BY <1>2, <1>3

(***************************************************************************)
(* The routes that clear the cookies.                                      *)
(***************************************************************************)
\* Every token cookie of the scope z that is seen expires; v is the deployment's variant.
Clears(k, v, z) ==
  /\ DOMAIN k \subseteq Cookies
  /\ \A n \in Marks :
       /\ <<"csrf", n>> \in DOMAIN k => k[<<"csrf", n>>] \in {0, 1}
       /\ <<"access", n>> \in DOMAIN k <=> <<"refresh", n>> \in DOMAIN k
       /\ <<"access", n>> \in DOMAIN k => k[<<"access", n>>] = 0
       /\ <<"refresh", n>> \in DOMAIN k => k[<<"refresh", n>>] = 0
  /\ \A n \in Variants : <<"refresh", MarkAt(z, n)>> \in DOMAIN k <=> (v # "plain" \/ n = "plain")

\* ClearAuthCookies expires, in the scope of the day, every name the site sees.
LEMMA LogoutClears ==
  ASSUME WireAssumption, dep.variant \in Variants, dep.scope \in Scopes, NEW q
  PROVE  Clears(Over(ClearAuthCookies, Distributed(q)), dep.variant, dep.scope)
<1>1. PICK v, z, d, a, k : /\ v = dep.variant /\ z = dep.scope
                           /\ d = Distributed(q) /\ a = ClearAuthCookies /\ k = Over(a, d)
  OBVIOUS
<1>2. PICK B : B = {"access", "refresh"} \cup (IF dep.csrf THEN {"csrf"} ELSE {})
  OBVIOUS
<1>3. {"access", "refresh"} \subseteq B /\ B \subseteq Bases
  BY <1>2 DEF Bases
<1>4. PICK R : R = {n \in Variants : v # "plain" \/ n = "plain"}
  OBVIOUS
<1>5. a = [c \in {<<b, MarkAt(z, n)>> : b \in B, n \in R} |-> 0]
  <2>1. R = {n \in Variants : Reachable(n)}
    BY <1>1, <1>4 DEF Reachable
  <2>2. a = Expiring(B, R)
    BY <1>1, <1>2, <2>1 DEF ClearAuthCookies, Clearing
  <2> QED BY <1>1, <2>2 DEF Expiring, Mark, MarkAt
<1>6. Quiet(d) /\ DOMAIN d \subseteq {<<"csrf", MarkAt(z, v)>>}
  BY <1>1, DistributedIsQuiet
<1>7. k = [c \in DOMAIN a \cup DOMAIN d |-> IF c \in DOMAIN a THEN a[c] ELSE d[c]]
  BY <1>1 DEF Over
<1>8. DOMAIN a = {<<b, MarkAt(z, n)>> : b \in B, n \in R} /\ \A c \in DOMAIN a : a[c] = 0
  BY <1>5
<1>9. DOMAIN k = DOMAIN a \cup DOMAIN d /\ \A c \in DOMAIN k : k[c] = IF c \in DOMAIN a THEN 0 ELSE d[c]
  BY <1>7, <1>8
<1>10. DOMAIN k \subseteq Cookies
  <2>1. DOMAIN a \subseteq Cookies
    <3>1. ASSUME NEW b \in B, NEW n \in R
          PROVE  <<b, MarkAt(z, n)>> \in Cookies
      BY <1>1, <1>3, <1>4, MarksOf, CookieNames
    <3> QED BY <3>1, <1>8
  <2> QED BY <2>1, <1>6, <1>9 DEF Quiet
<1>11. ASSUME NEW b \in {"access", "refresh"}, NEW n
       PROVE  /\ <<b, n>> \in DOMAIN k <=> \E w \in R : n = MarkAt(z, w)
              /\ <<b, n>> \in DOMAIN k => k[<<b, n>>] = 0
  <2>1. <<b, n>> \notin DOMAIN d
    BY <1>6
  <2>2. <<b, n>> \in DOMAIN a <=> \E w \in R : n = MarkAt(z, w)
    <3>1. ASSUME <<b, n>> \in DOMAIN a
          PROVE  \E w \in R : n = MarkAt(z, w)
      BY <3>1, <1>8
    <3>2. ASSUME NEW w \in R, n = MarkAt(z, w)
          PROVE  <<b, n>> \in DOMAIN a
      BY <3>2, <1>3, <1>8
    <3> QED BY <3>1, <3>2
  <2> QED BY <2>1, <2>2, <1>9
<1>12. ASSUME NEW n \in Marks, <<"csrf", n>> \in DOMAIN k
       PROVE  k[<<"csrf", n>>] \in {0, 1}
  BY <1>6, <1>9, <1>12 DEF Quiet
<1>13. ASSUME NEW n \in Variants
       PROVE  <<"refresh", MarkAt(z, n)>> \in DOMAIN k <=> (v # "plain" \/ n = "plain")
  <2>1. \A w \in R : MarkAt(z, n) = MarkAt(z, w) => n = w
    BY DEF MarkAt
  <2>2. n \in R <=> (v # "plain" \/ n = "plain")
    BY <1>4
  <2>3. <<"refresh", MarkAt(z, n)>> \in DOMAIN k <=> \E w \in R : MarkAt(z, n) = MarkAt(z, w)
    BY <1>11
  <2> QED BY <2>1, <2>2, <2>3
<1>14. \A n \in Marks : /\ <<"access", n>> \in DOMAIN k <=> <<"refresh", n>> \in DOMAIN k
                        /\ <<"access", n>> \in DOMAIN k => k[<<"access", n>>] = 0
                        /\ <<"refresh", n>> \in DOMAIN k => k[<<"refresh", n>>] = 0
  BY <1>11
<1>15. Clears(k, v, z)
  BY <1>10, <1>12, <1>13, <1>14 DEF Clears
<1> QED BY <1>1, <1>15

\* A request that is answered with every cookie expired.
LEMMA ClearKeeps ==
  ASSUME WireAssumption, IInv, Steady, Unmoved, ForeignFine', NEW t \in Tabs, net[t].phase = "sent",
         net[t].route.effect \in {"logout", "delete"},
         NEW code, NEW k, Clears(k, dep.variant, dep.scope), Answer(t, code, k, 0)
  PROVE  IInv'
<1>1. /\ GrantsFine /\ JarFine /\ NetFine /\ Apart /\ Known(app, grants) /\ dep \in Settings
      /\ dep.variant \in Variants /\ dep.scope \in Scopes
      /\ ~shadowed => NoneLeft
      /\ InTurn => Turns
  BY DEF IInv, Always
<1>2. /\ dep' = dep /\ jar' = jar /\ app' = app /\ shadowed' = shadowed
      /\ InTurn' => InTurn
  BY DEF Unmoved, InTurn
<1>3. PICK b : b = 0
  OBVIOUS
<1>4. Answers(t, code, k, b)
  BY <1>1, <1>3, Answered
<1>5. JarFine'
  BY <1>1, <1>2, JarWaits DEF Steady
<1>6. RequestFine(net'[t], grants', sessions')
  <2>1. PICK q, gs, ss : q = net[t] /\ gs = grants' /\ ss = sessions'
    OBVIOUS
  <2>2. CookiesFine(k, q.route.effect, gs)
    <3>1. q.route.effect \in TokenRoutes
      BY <2>1 DEF TokenRoutes
    <3>2. Known(0, gs)
      BY DEF Known
    <3> QED BY <3>1, <3>2 DEF Clears, CookiesFine
  <2>3. \A n \in Marks : <<"refresh", n>> \in DOMAIN k => k[<<"refresh", n>>] = 0
    BY DEF Clears
  <2>4. Cleared(k)
    BY <2>3 DEF Cleared
  <2>5. Known(b, gs)
    BY <1>3 DEF Known
  <2>6. RequestFine(AnswerOf(q, code, k, b), gs, ss)
    BY <2>2, <2>3, <2>4, <2>5, <1>3, AnswerIsFine
  <2>7. RequestFine(Idle, gs, ss)
    BY DEF RequestFine, Idle
  <2> QED BY <1>4, <2>1, <2>6, <2>7 DEF Answers
<1>7. NetFine'
  <2>1. \A u \in Tabs : \A g \in 1..Len(grants) : PutBy(net[u], g) => grants'[g].age = grants[g].age
    BY DEF Steady, SameAges
  <2> QED BY <2>1, <1>1, <1>4, <1>6, NetLasts DEF Answers, Steady
<1>8. Apart'
  <2>1. \A g \in 1..Len(grants) : (BrowserHas(jar', net', g) => BrowserHas(jar, net, g)) /\ (AppHas(app', net', g) => AppHas(app, net, g))
    <3> SUFFICES ASSUME NEW g \in 1..Len(grants)
                 PROVE  (BrowserHas(jar', net', g) => BrowserHas(jar, net, g)) /\ (AppHas(app', net', g) => AppHas(app, net, g))
      OBVIOUS
    <3>1. /\ BrowserHas(jar', net', g) => \/ BrowserHas(jar, net, g)
                                          \/ \E n \in Marks : <<"refresh", n>> \in DOMAIN k /\ k[<<"refresh", n>>] = g
          /\ AppHas(app', net', g) => AppHas(app, net, g) \/ b = g
      <4>1. jar' = jar /\ app' = app
        BY <1>2
      <4> QED BY <4>1, <1>4, AnswerHolds
    <3>2. g # 0
      BY <1>1 DEF GrantsFine
    <3>3. \A n \in Marks : <<"refresh", n>> \in DOMAIN k => k[<<"refresh", n>>] = 0
      BY DEF Clears
    <3> QED BY <3>1, <3>2, <3>3, <1>3
  <2> QED BY <2>1, <1>1, ApartLasts DEF Steady
<1>9. Known(app, grants)'
  BY <1>1, <1>2 DEF Known, Steady
<1>10. ASSUME Turns
       PROVE  Turns'
  <2>1. Waiting(net[t])
    BY DEF Waiting, TokenRoutes
  <2>2. ASSUME net'[t] = AnswerOf(net[t], code, k, b)
        PROVE  /\ Good(After(jar, net'[t], dep.scope), dep.variant, grants', sessions')
               /\ Usable(AppAfter(app', net'[t]), grants', sessions')
    <3>1. PICK a, f, h, v, z :
            /\ z = dep.scope /\ v = dep.variant
            /\ a = net'[t] /\ f = Refreshes(jar, z) /\ h = After(jar, a, z)
      OBVIOUS
    <3>2. a.cookies = k /\ a.body = 0
      BY <2>2, <3>1, <1>3 DEF AnswerOf
    <3>3. AppAfter(app', a) = app
      BY <3>2, <1>2 DEF AppAfter
    <3>4. \A u \in Tabs : ~Arriving(net[u])
      BY <1>10, <2>1 DEF Turns, Waiting, Arriving
    <3>5. Good(f, v, grants, sessions) /\ Usable(app, grants, sessions)
      BY <1>10, <3>1, <3>4 DEF Turns
    <3>6. Usable(app, grants', sessions')
      BY <3>5, <1>1, SteadyUse
    <3>7. \A n \in Variants : Known(f[n], grants) /\ f[n] = jar[<<"refresh", MarkAt(z, n)>>] /\ f[n] \in Nat
      BY <3>1, <1>1, RefreshesAreKnown
    <3>8. CASE a.page = "app"
      <4>1. h = f
        BY <3>1, <3>8 DEF After, Refreshes
      <4>2. Good(f, v, grants', sessions')
        BY <3>5, <3>7, <1>1, GoodLasts
      <4> QED BY <3>1, <3>3, <3>6, <4>1, <4>2
    <3>9. CASE a.page # "app"
      <4>1. \A n \in Variants : h[n] = IF v # "plain" \/ n = "plain" THEN 0 ELSE f[n]
        <5>1. \A n \in Variants : /\ <<"refresh", MarkAt(z, n)>> \in DOMAIN k <=> v # "plain" \/ n = "plain"
                                  /\ <<"refresh", MarkAt(z, n)>> \in DOMAIN k => k[<<"refresh", MarkAt(z, n)>>] = 0
          BY <3>1, <1>1, MarksOf DEF Clears
        <5> QED BY <5>1, <3>1, <3>2, <3>7, <3>9 DEF After
      <4>2. Ordered(h, v) /\ Shown(h, v) = 0
        <5>1. v \in Variants /\ Ordered(f, v)
          BY <3>1, <3>5, <1>1 DEF Good
        <5>2. \A n \in Variants : f[n] \in Nat
          BY <3>7
        <5> QED BY <5>1, <5>2, <4>1, AllExpired
      <4>3. Good(h, v, grants', sessions')
        BY <4>2 DEF Good, Usable
      <4> QED BY <3>1, <3>3, <3>6, <4>3
    <3> QED BY <3>8, <3>9
  <2> QED BY <2>1, <2>2, <1>10, <1>2, <1>4, AnsweredInTurn
<1>11. InTurn' => Turns'
  BY <1>1, <1>2, <1>10
<1>12. Always'
  BY <1>1, <1>2, <1>5, <1>7, <1>8, <1>9 DEF Always, Steady
<1>13. ASSUME NoneLeft
       PROVE  NoneLeft'
  <2>1. net'[t].phase = "answered" => net'[t].cookies = k
    BY <1>4, AnswerPhase
  <2>2. net'[t].phase = "answered" => Tidy(dep.scope, net'[t].cookies)
    BY <2>1 DEF Tidy, Clears
  <2>3. \A u \in Tabs : u # t => net'[u] = net[u]
    BY <1>4 DEF Answers
  <2> QED BY <2>2, <2>3, <1>2, <1>13, NoneLeftLasts
<1> QED BY <1>1, <1>2, <1>11, <1>12, <1>13 DEF IInv

\* POST /logout and DELETE /account.
LEMMA LogoutKeeps ==
  ASSUME WireAssumption, IInv, NEW t \in Tabs, Logout(t) \/ DeleteAccount(t)
  PROVE  IInv'
<1>1. PICK k, code : k = Over(ClearAuthCookies, Distributed(net[t])) /\ code = "OK"
  OBVIOUS
<1>2. /\ net[t].phase = "sent" /\ net[t].route.effect \in {"logout", "delete"} /\ Admitted(t) /\ Effect(t)
      /\ Answer(t, code, k, 0) /\ Unmoved /\ grants' = grants
      /\ \E S : sessions' = Revoke(S)
  BY <1>1 DEF Logout, DeleteAccount, At, Unmoved
<1>3. Steady
  BY <1>2, RevokedIsSteady
<1>4. ForeignFine'
  BY <1>2, EffectIsFine DEF Unmoved
<1>5. dep.variant \in Variants /\ dep.scope \in Scopes
  BY DEF IInv, Always
<1>6. Clears(k, dep.variant, dep.scope)
  BY <1>1, <1>5, LogoutClears
<1> QED BY <1>2, <1>3, <1>4, <1>6, ClearKeeps

(***************************************************************************)
(* The routes that mint.                                                   *)
(***************************************************************************)
\* The pair g, stored under the mark v.
Carries(k, v, g) ==
  /\ DOMAIN k \subseteq Cookies
  /\ \A n \in Marks :
       /\ <<"csrf", n>> \in DOMAIN k => k[<<"csrf", n>>] \in {0, 1}
       /\ <<"access", n>> \in DOMAIN k <=> n = v
       /\ <<"refresh", n>> \in DOMAIN k <=> n = v
       /\ n = v => k[<<"access", n>>] = g /\ k[<<"refresh", n>>] = g

\* WriteTokens sets the pair under the names in use, and no other token cookie.
LEMMA TokensAreCarried ==
  ASSUME WireAssumption, dep.variant \in Variants, dep.scope \in Scopes, NEW q, NEW g
  PROVE  Carries(Over(TokenCookies(g), Distributed(q)), MarkAt(dep.scope, dep.variant), g)
<1>1. PICK v, d, a, k : /\ v = MarkAt(dep.scope, dep.variant) /\ d = Distributed(q) /\ a = TokenCookies(g) /\ k = Over(a, d)
  OBVIOUS
<1>2. a = [c \in {<<"access", v>>, <<"refresh", v>>} |-> g]
  BY <1>1, MarksOf DEF TokenCookies, CookieName
<1>3. Quiet(d) /\ DOMAIN d \subseteq {<<"csrf", v>>}
  BY <1>1, DistributedIsQuiet
<1>4. k = [c \in DOMAIN a \cup DOMAIN d |-> IF c \in DOMAIN a THEN a[c] ELSE d[c]]
  BY <1>1 DEF Over
<1>5. DOMAIN a = {<<"access", v>>, <<"refresh", v>>} /\ \A c \in DOMAIN a : a[c] = g
  BY <1>2
<1>6. DOMAIN k = DOMAIN a \cup DOMAIN d /\ \A c \in DOMAIN k : k[c] = IF c \in DOMAIN a THEN g ELSE d[c]
  BY <1>4, <1>5
<1>7. DOMAIN k \subseteq Cookies
  <2>1. <<"access", v>> \in Cookies /\ <<"refresh", v>> \in Cookies
    BY <1>1, MarksOf, CookieNames DEF Bases
  <2> QED BY <2>1, <1>3, <1>5, <1>6 DEF Quiet
<1>8. ASSUME NEW n \in Marks
      PROVE  /\ <<"csrf", n>> \in DOMAIN k => k[<<"csrf", n>>] \in {0, 1}
             /\ <<"access", n>> \in DOMAIN k <=> n = v
             /\ <<"refresh", n>> \in DOMAIN k <=> n = v
             /\ n = v => k[<<"access", n>>] = g /\ k[<<"refresh", n>>] = g
  <2>1. /\ <<"access", n>> \in DOMAIN a <=> n = v
        /\ <<"refresh", n>> \in DOMAIN a <=> n = v
        /\ <<"csrf", n>> \notin DOMAIN a
    BY <1>5
  <2>2. /\ <<"access", n>> \notin DOMAIN d /\ <<"refresh", n>> \notin DOMAIN d
        /\ <<"csrf", n>> \in DOMAIN d => d[<<"csrf", n>>] \in {0, 1}
    BY <1>3 DEF Quiet
  <2> QED BY <2>1, <2>2, <1>6
<1>9. Carries(k, v, g)
  BY <1>7, <1>8 DEF Carries
<1> QED BY <1>1, <1>9

\* Whatever a client holds has been minted.
LEMMA HeldIsMinted ==
  ASSUME JarFine, NetFine, Known(app, grants), NEW g \in Nat \ {0}
  PROVE  /\ BrowserHas(jar, net, g) => g \in 1..Len(grants)
         /\ AppHas(app, net, g) => g \in 1..Len(grants)
<1>1. ASSUME NEW n \in Marks, jar[<<"refresh", n>>] = g
      PROVE  g \in 1..Len(grants)
  BY <1>1 DEF JarFine, Known
<1>2. ASSUME NEW u \in Tabs, SentBy(net[u], g) \/ PutBy(net[u], g) \/ CarriedBy(net[u], g)
      PROVE  g \in 1..Len(grants)
  <2>1. PICK q : q = net[u]
    OBVIOUS
  <2>2. RequestFine(q, grants, sessions)
    BY <2>1 DEF NetFine
  <2>3. CASE q.phase = "sent"
    <3>1. SentFine(q, grants, sessions)
      BY <2>2, <2>3 DEF RequestFine
    <3>2. SentBy(q, g) \/ CarriedBy(q, g)
      BY <1>2, <2>1, <2>3 DEF PutBy
    <3>3. CASE SentBy(q, g)
      <4>1. PICK c \in TokenCookie : q.sent[c] = g
        BY <3>3 DEF SentBy
      <4>2. PICK n \in Variants : c = <<"access", n>> \/ c = <<"refresh", n>>
        BY <4>1 DEF TokenCookie
      <4>3. Known(q.sent[c], grants)
        BY <3>1, <4>2 DEF SentFine
      <4> QED BY <4>1, <4>3 DEF Known
    <3>4. CASE CarriedBy(q, g)
      BY <3>1, <3>4, <2>3 DEF CarriedBy, SentFine, Known
    <3> QED BY <3>2, <3>3, <3>4
  <2>4. CASE q.phase = "answered"
    <3>1. AnswerFine(q, grants)
      BY <2>2, <2>4 DEF RequestFine
    <3>2. PutBy(q, g) \/ CarriedBy(q, g)
      BY <1>2, <2>1, <2>4 DEF SentBy
    <3>3. CASE PutBy(q, g)
      BY <3>1, <3>3 DEF PutBy, AnswerFine, CookiesFine, Known
    <3>4. CASE CarriedBy(q, g)
      BY <3>1, <3>4, <2>4 DEF CarriedBy, AnswerFine, Known
    <3> QED BY <3>2, <3>3, <3>4
  <2>5. q.phase = "sent" \/ q.phase = "answered"
    BY <1>2, <2>1 DEF SentBy, PutBy, CarriedBy
  <2> QED BY <2>3, <2>4, <2>5
<1>3. BrowserHas(jar, net, g) => g \in 1..Len(grants)
  BY <1>1, <1>2 DEF BrowserHas
<1>4. AppHas(app, net, g) => g \in 1..Len(grants)
  BY <1>2 DEF AppHas, Known
<1> QED BY <1>3, <1>4

\* Minting for one session leaves the grants of the others as usable.
LEMMA MintedElsewhere ==
  ASSUME GrantsFine, NEW s, Mints(s), NEW x, Known(x, grants), x # 0 => grants[x].sid # s,
         Usable(x, grants, sessions)
  PROVE  Usable(x, grants', sessions')
<1>1. CASE x = 0
  BY <1>1 DEF Usable
<1>2. CASE x # 0
  <2>1. x \in 1..Len(grants) /\ grants[x].sid # s
    BY <1>2 DEF Known
  <2>2. grants'[x].sid = grants[x].sid /\ grants[x].sid \in 1..Len(sessions)
    BY <2>1 DEF Mints, SameGrants, GrantsFine
  <2>3. sessions'[grants[x].sid].cur = sessions[grants[x].sid].cur
    BY <2>1, <2>2 DEF Mints
  <2> QED BY <1>2, <2>2, <2>3 DEF Usable
<1> QED BY <1>1, <1>2

\* What is read is one of the cookies.
LEMMA ShownIsThere ==
  ASSUME NEW f, NEW v
  PROVE  \E n \in Variants : Shown(f, v) = f[n]
<1>1. {"host", "secure", "plain"} \subseteq Variants
  BY DEF Variants
<1> QED BY <1>1 DEF Shown

\* A request that mints a grant for one side, for a session the other has no grant of.
LEMMA MintKeeps ==
  ASSUME WireAssumption, IInv, NEW s, Mints(s), Unmoved, ForeignFine', NEW t \in Tabs, net[t].phase = "sent",
         net[t].route.effect \in {"login", "refresh"}, NEW m, m = Len(grants),
         NEW code, NEW k, NEW b, Answer(t, code, k, b),
         net[t].page = "app" => /\ Quiet(k) /\ b = m + 1
                                /\ \A g \in 1..m : BrowserHas(jar, net, g) => grants[g].sid # s,
         net[t].page # "app" => /\ Carries(k, MarkAt(dep.scope, dep.variant), m + 1) /\ b = 0
                                /\ \A g \in 1..m : AppHas(app, net, g) => grants[g].sid # s
  PROVE  IInv'
<1>1. /\ GrantsFine /\ JarFine /\ NetFine /\ Apart /\ Known(app, grants) /\ dep \in Settings
      /\ dep.variant \in Variants /\ dep.scope \in Scopes
      /\ ~shadowed => NoneLeft
      /\ InTurn => Turns
  BY DEF IInv, Always
<1>2. /\ dep' = dep /\ jar' = jar /\ app' = app /\ shadowed' = shadowed
      /\ InTurn' => InTurn
  BY DEF Unmoved, InTurn
<1>3. /\ m \in Nat /\ Len(grants') = m + 1 /\ grants'[m + 1].sid = s /\ grants'[m + 1].age = 0
      /\ sessions'[s].cur = m + 1 /\ GrantsFine' /\ SameGrants /\ SameAges
  BY <1>1 DEF Mints, Minted, GrantsFine
<1>4. Answers(t, code, k, b)
  BY <1>1, Answered
<1>5. JarFine'
  BY <1>1, <1>2, <1>3, JarWaits
<1>6. RequestFine(net'[t], grants', sessions')
  <2>1. PICK q, gs, ss : q = net[t] /\ gs = grants' /\ ss = sessions'
    OBVIOUS
  <2>2. q.route.effect \in TokenRoutes /\ q.route.effect # "logout"
    BY <2>1 DEF TokenRoutes
  <2>3. Known(0, gs) /\ Known(m + 1, gs) /\ gs[m + 1].age = 0
    BY <2>1, <1>3 DEF Known
  <2>4. RequestFine(AnswerOf(q, code, k, b), gs, ss)
    <3>1. CASE q.page = "app"
      <4>1. Quiet(k) /\ b = m + 1
        BY <2>1, <3>1
      <4>2. CookiesFine(k, q.route.effect, gs)
        BY <4>1, QuietIsFine
      <4>3. \A n \in Marks : <<"refresh", n>> \notin DOMAIN k
        BY <4>1 DEF Quiet
      <4>4. Known(b, gs)
        BY <4>1, <2>3
      <4> QED BY <4>2, <4>3, <4>4, <3>1, <2>1, <2>2, AnswerIsFine
    <3>2. CASE q.page # "app"
      <4>1. Carries(k, MarkAt(dep.scope, dep.variant), m + 1) /\ b = 0
        BY <2>1, <3>2
      <4>2. CookiesFine(k, q.route.effect, gs)
        BY <4>1, <2>2, <2>3 DEF CookiesFine, Carries
      <4>3. Known(b, gs)
        BY <4>1, <2>3
      <4> QED BY <4>1, <4>2, <4>3, <3>2, <2>2, AnswerIsFine
    <3> QED BY <3>1, <3>2
  <2>5. RequestFine(Idle, gs, ss)
    BY DEF RequestFine, Idle
  <2> QED BY <1>4, <2>1, <2>4, <2>5 DEF Answers
<1>7. NetFine'
  <2>1. \A u \in Tabs : \A g \in 1..Len(grants) : PutBy(net[u], g) => grants'[g].age = grants[g].age
    BY <1>3 DEF SameAges
  <2> QED BY <2>1, <1>1, <1>3, <1>4, <1>6, NetLasts DEF Answers
<1>8. \A g : /\ BrowserHas(jar', net', g) => \/ BrowserHas(jar, net, g)
                                             \/ \E n \in Marks : <<"refresh", n>> \in DOMAIN k /\ k[<<"refresh", n>>] = g
             /\ AppHas(app', net', g) => AppHas(app, net, g) \/ b = g
  <2> SUFFICES ASSUME NEW g
               PROVE  /\ BrowserHas(jar', net', g) => \/ BrowserHas(jar, net, g)
                                                      \/ \E n \in Marks : <<"refresh", n>> \in DOMAIN k /\ k[<<"refresh", n>>] = g
                      /\ AppHas(app', net', g) => AppHas(app, net, g) \/ b = g
    OBVIOUS
  <2>1. jar' = jar /\ app' = app
    BY <1>2
  <2>2. PICK l, c : l = k /\ c = code /\ Answers(t, c, l, b)
    BY <1>4
  <2>3. /\ BrowserHas(jar', net', g) => \/ BrowserHas(jar, net, g)
                                        \/ \E n \in Marks : <<"refresh", n>> \in DOMAIN l /\ l[<<"refresh", n>>] = g
        /\ AppHas(app', net', g) => AppHas(app, net, g) \/ b = g
    BY <2>1, <2>2, AnswerHolds, Z3
  <2> QED BY <2>2, <2>3
<1>9. ~BrowserHas(jar, net, m + 1) /\ ~AppHas(app, net, m + 1)
  <2>1. PICK g : g = m + 1
    OBVIOUS
  <2>2. g \in Nat \ {0} /\ g \notin 1..Len(grants)
    BY <2>1, <1>3
  <2>3. ~BrowserHas(jar, net, g) /\ ~AppHas(app, net, g)
    BY <2>2, <1>1, HeldIsMinted
  <2> QED BY <2>1, <2>3
<1>10. Apart'
  <2>1. CASE net[t].page = "app"
    <3>1. \A n \in Marks : <<"refresh", n>> \notin DOMAIN k
      BY <2>1 DEF Quiet
    <3>2. ~BrowserHas(jar', net', m + 1) /\ \A g \in 1..m : BrowserHas(jar, net, g) => grants[g].sid # s
      BY <2>1, <3>1, <1>8, <1>9
    <3>3. \A g \in 1..m : (BrowserHas(jar', net', g) => BrowserHas(jar, net, g)) /\ (AppHas(app', net', g) => AppHas(app, net, g))
      <4>1. \A g \in 1..m : g # b
        BY <2>1, <1>3
      <4> QED BY <3>1, <4>1, <1>8
    <3> QED BY <3>2, <3>3, <1>1, ApartMints
  <2>2. CASE net[t].page # "app"
    <3>1. b = 0 /\ \A n \in Marks : <<"refresh", n>> \in DOMAIN k => k[<<"refresh", n>>] = m + 1
      BY <2>2 DEF Carries
    <3>2. ~AppHas(app', net', m + 1) /\ \A g \in 1..m : AppHas(app, net, g) => grants[g].sid # s
      <4>1. b # m + 1
        BY <3>1, <1>3
      <4> QED BY <2>2, <4>1, <1>8, <1>9
    <3>3. \A g \in 1..m : (BrowserHas(jar', net', g) => BrowserHas(jar, net, g)) /\ (AppHas(app', net', g) => AppHas(app, net, g))
      <4>1. \A g \in 1..m : g # 0 /\ g # m + 1
        BY <1>3
      <4> QED BY <3>1, <4>1, <1>8
    <3> QED BY <3>2, <3>3, <1>1, ApartMints
  <2> QED BY <2>1, <2>2
<1>11. Known(app, grants)'
  BY <1>1, <1>2, <1>3 DEF Known
<1>12. ASSUME Turns
       PROVE  Turns'
  <2>1. Waiting(net[t])
    BY DEF Waiting, TokenRoutes
  <2>2. ASSUME net'[t] = AnswerOf(net[t], code, k, b)
        PROVE  /\ Good(After(jar, net'[t], dep.scope), dep.variant, grants', sessions')
               /\ Usable(AppAfter(app', net'[t]), grants', sessions')
    <3>1. PICK a, f, h, v, z :
            /\ z = dep.scope /\ v = dep.variant
            /\ a = net'[t] /\ f = Refreshes(jar, z) /\ h = After(jar, a, z)
      OBVIOUS
    <3>2. a.cookies = k /\ a.body = b /\ a.page = net[t].page
      BY <2>2, <3>1 DEF AnswerOf
    <3>3. \A u \in Tabs : ~Arriving(net[u])
      BY <1>12, <2>1 DEF Turns, Waiting, Arriving
    <3>4. Good(f, v, grants, sessions) /\ Usable(app, grants, sessions)
      BY <1>12, <3>1, <3>3 DEF Turns
    <3>5. \A n \in Variants : Known(f[n], grants) /\ f[n] = jar[<<"refresh", MarkAt(z, n)>>] /\ f[n] \in Nat
      BY <3>1, <1>1, RefreshesAreKnown
    <3>6. Usable(m + 1, grants', sessions')
      BY <1>3 DEF Usable
    <3>7. CASE a.page = "app"
      <4>1. Quiet(a.cookies) /\ b = m + 1
        BY <3>2, <3>7
      <4>2. h = f
        BY <3>1, <4>1, <1>1, QuietAfter
      <4>3. PICK x : x = Shown(f, v)
        OBVIOUS
      <4>4. Known(x, grants) /\ Usable(x, grants, sessions)
        BY <4>3, <3>4, <3>5, ShownIsKnown DEF Good
      <4>5. x # 0 => grants[x].sid # s
        <5>1. PICK n \in Marks : x = jar[<<"refresh", n>>]
          BY <4>3, <3>1, <3>5, <1>1, MarksOf, ShownIsThere
        <5>2. BrowserHas(jar, net, x)
          BY <5>1 DEF BrowserHas
        <5> QED BY <5>2, <4>4, <3>2, <3>7 DEF Known
      <4>6. Usable(x, grants', sessions')
        BY <4>4, <4>5, <1>1, MintedElsewhere
      <4>7. Good(h, v, grants', sessions')
        BY <4>2, <4>3, <4>6, <3>4 DEF Good
      <4>8. AppAfter(app', a) = m + 1
        BY <3>2, <3>7, <4>1, <1>3 DEF AppAfter
      <4> QED BY <3>1, <3>6, <4>7, <4>8
    <3>8. CASE a.page # "app"
      <4>1. Carries(k, MarkAt(z, v), m + 1) /\ b = 0
        BY <3>1, <3>2, <3>8
      <4>2. \A n \in Variants : h[n] = IF n = v THEN m + 1 ELSE f[n]
        <5>1. \A n \in Variants : MarkAt(z, n) \in Marks /\ (MarkAt(z, n) = MarkAt(z, v) <=> n = v)
          BY <3>1, <1>1, MarksOf
        <5>2. \A n \in Variants :
                /\ <<"refresh", MarkAt(z, n)>> \in DOMAIN k <=> n = v
                /\ n = v => k[<<"refresh", MarkAt(z, n)>>] = m + 1
          BY <4>1, <5>1 DEF Carries
        <5> QED BY <3>1, <3>2, <3>5, <3>8, <5>2 DEF After
      <4>3. \A n \in Variants : f[n] \in Nat /\ f[n] < m + 1
        <5>1. \A n \in Variants : f[n] = 0 \/ f[n] \in 1..m
          BY <3>5 DEF Known
        <5> QED BY <5>1, <1>3
      <4>4. v \in Variants /\ Ordered(f, v) /\ m + 1 \in Nat \ {0}
        BY <3>1, <3>4, <1>1, <1>3 DEF Good
      <4>5. PICK g : g = m + 1
        OBVIOUS
      <4>6. Ordered(h, v) /\ Shown(h, v) = g
        BY <4>2, <4>3, <4>4, <4>5, FreshInFront
      <4>7. Good(h, v, grants', sessions')
        BY <4>5, <4>6, <3>6 DEF Good
      <4>8. AppAfter(app', a) = app
        BY <3>8, <1>2 DEF AppAfter
      <4>9. app # 0 => grants[app].sid # s
        <5>1. AppHas(app, net, app)
          BY DEF AppHas
        <5>2. app # 0 => app \in 1..m
          BY <1>1 DEF Known
        <5> QED BY <5>1, <5>2, <3>2, <3>8
      <4>10. Usable(app, grants', sessions')
        BY <4>9, <3>4, <1>1, MintedElsewhere
      <4> QED BY <3>1, <4>7, <4>8, <4>10
    <3> QED BY <3>7, <3>8
  <2> QED BY <2>1, <2>2, <1>12, <1>2, <1>4, AnsweredInTurn
<1>13. InTurn' => Turns'
  BY <1>1, <1>2, <1>12
<1>14. Always'
  BY <1>1, <1>2, <1>3, <1>5, <1>7, <1>10, <1>11 DEF Always
<1>15. ASSUME NoneLeft
       PROVE  NoneLeft'
  <2>1. net'[t].phase = "answered" => net'[t].cookies = k
    BY <1>4, AnswerPhase
  <2>2. PICK z : z = dep.scope
    OBVIOUS
  <2>3. ASSUME net[t].page = "app"
        PROVE  Tidy(dep.scope, k)
    <3>1. \A n \in Marks : <<"refresh", n>> \notin DOMAIN k
      BY <2>3 DEF Quiet
    <3> QED BY <3>1 DEF Tidy
  <2>4. ASSUME net[t].page # "app"
        PROVE  Tidy(dep.scope, k)
    <3>1. \A n \in Marks : <<"refresh", n>> \in DOMAIN k => n = MarkAt(z, dep.variant)
      BY <2>2, <2>4 DEF Carries
    <3>2. ~Stray(z, MarkAt(z, dep.variant))
      BY <2>2, <1>1, MarksOf
    <3> QED BY <2>2, <3>1, <3>2 DEF Tidy
  <2>5. net'[t].phase = "answered" => Tidy(dep.scope, net'[t].cookies)
    <3>1. Tidy(dep.scope, k)
      BY <2>3, <2>4
    <3> QED BY <3>1, <2>1
  <2>6. \A u \in Tabs : u # t => net'[u] = net[u]
    BY <1>4 DEF Answers
  <2> QED BY <2>5, <2>6, <1>2, <1>15, NoneLeftLasts
<1> QED BY <1>1, <1>2, <1>13, <1>14, <1>15 DEF IInv

\* WriteTokens delivers the pair in the body to a bearer client and in cookies to anyone else.
LEMMA TokensAreWritten ==
  ASSUME WireAssumption, IInv, NEW t, NEW g, WriteTokens(t, g)
  PROVE  \E k, b, code :
           /\ Answer(t, code, k, b)
           /\ net[t].page = "app" => Quiet(k) /\ b = g
           /\ net[t].page # "app" => Carries(k, MarkAt(dep.scope, dep.variant), g) /\ b = 0
<1>1. PICK code, d, k, z : /\ code = "OK" /\ d = Distributed(net[t]) /\ z = 0
                           /\ k = Over(TokenCookies(g), Distributed(net[t]))
  OBVIOUS
<1>2. dep.variant \in Variants /\ dep.scope \in Scopes
  BY DEF IInv, Always
<1>3. Quiet(d) /\ Carries(k, MarkAt(dep.scope, dep.variant), g)
  BY <1>1, <1>2, DistributedIsQuiet, TokensAreCarried
<1>4. CASE net[t].page = "app"
  <2>1. Answer(t, code, d, g)
    BY <1>1, <1>4 DEF WriteTokens, IsBearerClient
  <2> QED BY <2>1, <1>3, <1>4
<1>5. CASE net[t].page # "app"
  <2>1. Answer(t, code, k, z)
    BY <1>1, <1>5 DEF WriteTokens, IsBearerClient
  <2> QED BY <2>1, <1>1, <1>3, <1>5
<1> QED BY <1>4, <1>5

\* POST /login.
LEMMA LoginKeeps ==
  ASSUME IInv, WireAssumption, NEW t \in Tabs, Login(t)
  PROVE  IInv'
<1>1. net[t].phase = "sent" /\ net[t].route.effect = "login" /\ Admitted(t)
  BY DEF Login, At
<1>2. CASE Refuse(t, "INVALID_CREDENTIALS", Distributed(net[t]))
  <2>1. PICK code : code = "INVALID_CREDENTIALS"
    OBVIOUS
  <2> QED BY <1>1, <1>2, <2>1, RefuseDistributed
<1>3. CASE ~Refuse(t, "INVALID_CREDENTIALS", Distributed(net[t]))
  <2>1. NewSession /\ WriteTokens(t, Minted) /\ Effect(t) /\ Unmoved
    BY <1>3 DEF Login, NewSession, Unmoved
  <2>2. PICK m, s : m = Len(grants) /\ s = Len(sessions) + 1
    OBVIOUS
  <2>3. GrantsFine
    BY DEF IInv, Always
  <2>4. Mints(s)
    BY <2>1, <2>2, <2>3, MintedForANewSession
  <2>5. WriteTokens(t, m + 1)
    BY <2>1, <2>2 DEF Minted
  <2>6. PICK k, b, code :
          /\ Answer(t, code, k, b)
          /\ net[t].page = "app" => Quiet(k) /\ b = m + 1
          /\ net[t].page # "app" => Carries(k, MarkAt(dep.scope, dep.variant), m + 1) /\ b = 0
    BY <2>5, TokensAreWritten
  <2>7. ForeignFine'
    BY <1>1, <2>1, EffectIsFine DEF Unmoved
  <2>8. \A g \in 1..m : grants[g].sid # s
    <3>1. Len(sessions) \in Nat /\ \A g \in 1..m : grants[g].sid \in 1..Len(sessions)
      BY <2>2, <2>3 DEF GrantsFine
    <3> QED BY <3>1, <2>2
  <2>9. net[t].route.effect \in {"login", "refresh"} /\ m = Len(grants)
    BY <1>1, <2>2
  <2> QED BY <1>1, <2>1, <2>4, <2>6, <2>7, <2>8, <2>9, MintKeeps
<1> QED BY <1>2, <1>3

\* The refresh token of a request is a grant of its sender.
LEMMA PresentedIsHeld ==
  ASSUME NetFine, NEW t \in Tabs, net[t].phase = "sent", NEW g, g = RefreshTokenFromRequest(net[t]), g # 0
  PROVE  /\ g \in 1..Len(grants)
         /\ net[t].page = "app" => AppHas(app, net, g)
         /\ net[t].page # "app" => BrowserHas(jar, net, g)
<1>1. PICK q : q = net[t]
  OBVIOUS
<1>2. SentFine(q, grants, sessions) /\ q.phase = "sent" /\ g = RefreshTokenFromRequest(q)
  BY <1>1 DEF NetFine, RequestFine
<1>3. Known(g, grants)
  BY <1>2, CarriedIsKnown
<1>4. CASE q.page = "app"
  <2>1. g = q.body
    BY <1>2, <1>4, CarriedIsKnown
  <2>2. CarriedBy(q, g)
    BY <2>1, <1>2 DEF CarriedBy
  <2> QED BY <1>1, <1>3, <1>4, <2>2 DEF AppHas, Known
<1>5. CASE q.page # "app"
  <2>1. PICK x, b : x = CookieValue(q.sent, b) /\ b = "refresh"
    OBVIOUS
  <2>2. g = x
    BY <2>1, <1>2, <1>5, CarriedIsKnown
  <2>3. PICK n \in Variants : q.sent[<<"refresh", n>>] = x
    BY <2>1, <2>2, <1>2, CarriedIsKnown
  <2>4. <<"refresh", n>> \in TokenCookie
    BY DEF TokenCookie
  <2>5. SentBy(q, g)
    BY <2>2, <2>3, <2>4, <1>2 DEF SentBy
  <2> QED BY <1>1, <1>3, <1>5, <2>5 DEF BrowserHas, Known
<1> QED BY <1>1, <1>4, <1>5

\* POST /refresh: the session is of the side that refreshes.
LEMMA RefreshKeeps ==
  ASSUME IInv, WireAssumption, NEW t \in Tabs, Refresh(t)
  PROVE  IInv'
<1>1. net[t].phase = "sent" /\ net[t].route.effect = "refresh" /\ Admitted(t)
  BY DEF Refresh, At
<1>2. PICK g, why : g = RefreshTokenFromRequest(net[t]) /\ why = RefreshRefusal(g)
  OBVIOUS
<1>3. CASE why # ""
  <2>1. Refuse(t, why, Distributed(net[t]))
    BY <1>2, <1>3 DEF Refresh
  <2> QED BY <1>1, <2>1, RefuseDistributed
<1>4. CASE why = ""
  <2>1. NewGrant(g) /\ WriteTokens(t, Minted) /\ Effect(t) /\ Unmoved
    BY <1>2, <1>4 DEF Refresh, NewGrant, Unmoved
  <2>2. g # 0 /\ ~Deleted(Sid(g))
    BY <1>2, <1>4 DEF RefreshRefusal, Current
  <2>3. /\ GrantsFine /\ NetFine /\ Apart
    BY DEF IInv, Always
  <2>4. /\ g \in 1..Len(grants)
        /\ net[t].page = "app" => AppHas(app, net, g)
        /\ net[t].page # "app" => BrowserHas(jar, net, g)
    BY <1>1, <1>2, <2>2, <2>3, PresentedIsHeld
  <2>5. PICK m, s : m = Len(grants) /\ s = grants[g].sid
    OBVIOUS
  <2>6. Sid(g) = s
    BY <2>5 DEF Sid
  <2>7. Mints(s)
    BY <2>1, <2>2, <2>3, <2>4, <2>6, MintedForTheSession
  <2>8. WriteTokens(t, m + 1)
    BY <2>1, <2>5 DEF Minted
  <2>9. PICK k, b, code :
          /\ Answer(t, code, k, b)
          /\ net[t].page = "app" => Quiet(k) /\ b = m + 1
          /\ net[t].page # "app" => Carries(k, MarkAt(dep.scope, dep.variant), m + 1) /\ b = 0
    BY <2>8, TokensAreWritten
  <2>10. ForeignFine'
    BY <1>1, <2>1, EffectIsFine DEF Unmoved
  <2>11. /\ net[t].page = "app" => \A h \in 1..m : BrowserHas(jar, net, h) => grants[h].sid # s
         /\ net[t].page # "app" => \A h \in 1..m : AppHas(app, net, h) => grants[h].sid # s
    <3>1. \A h, i \in 1..m : BrowserHas(jar, net, h) /\ AppHas(app, net, i) => grants[h].sid # grants[i].sid
      BY <2>3, <2>5 DEF Apart, Sid
    <3> QED BY <3>1, <2>4, <2>5
  <2> QED BY <1>1, <2>1, <2>5, <2>7, <2>9, <2>10, <2>11, MintKeeps
<1> QED BY <1>3, <1>4

(***************************************************************************)
(* Sending a request.                                                      *)
(***************************************************************************)
\* Of the cookies of a name the browser lists one it holds, or none.
LEMMA ListedIsThere ==
  ASSUME NEW c, NEW s \in Scopes
  PROVE  \E z \in Scopes : Listed(c, s) \in {0, jar[<<c[1], <<c[2], z>>>>]}
<1>1. PICK there : there = {z \in Scopes : jar[<<c[1], <<c[2], z>>>>] # 0}
  OBVIOUS
<1>2. CASE there = {}
  BY <1>1, <1>2 DEF Listed
<1>3. CASE there # {}
  <2>1. PICK z : z = IF s \in there THEN s ELSE CHOOSE y \in there : TRUE
    OBVIOUS
  <2>2. z \in there
    BY <2>1, <1>3
  <2>3. Listed(c, s) = jar[<<c[1], <<c[2], z>>>>]
    BY <2>1, <1>1, <1>3 DEF Listed
  <2> QED BY <2>2, <2>3, <1>1
<1> QED BY <1>2, <1>3

\* With nothing left behind that one is the cookie of the scope of the day.
LEMMA ListedInScope ==
  ASSUME WireAssumption, JarFine, NoneLeft, dep.scope \in Scopes,
         NEW s \in Scopes, NEW b \in {"access", "refresh"}, NEW n \in Variants
  PROVE  Listed(<<b, n>>, s) = jar[<<b, MarkAt(dep.scope, n)>>]
<1>1. PICK c, there, m : c = <<b, n>> /\ m = MarkAt(dep.scope, n)
                         /\ there = {z \in Scopes : jar[<<c[1], <<c[2], z>>>>] # 0}
  OBVIOUS
<1>2. c[1] = b /\ c[2] = n
  BY <1>1
<1>3. m \in Marks /\ m = <<n, m[2]>> /\ m[2] \in Scopes
  BY <1>1, MarksOf DEF MarkAt
<1>4. ASSUME NEW z \in Scopes, <<n, z>> # m
      PROVE  jar[<<b, <<n, z>>>>] = 0
  <2>1. <<n, z>> \in Marks /\ <<n, z>>[1] = n
    BY DEF Marks
  <2>2. Stray(dep.scope, <<n, z>>)
    BY <2>1, <1>1, <1>4 DEF Stray
  <2>3. jar[<<"refresh", <<n, z>>>>] = 0
    BY <2>1, <2>2 DEF NoneLeft
  <2>4. jar[<<"access", <<n, z>>>>] = 0
    BY <2>1, <2>3 DEF JarFine
  <2> QED BY <2>3, <2>4
<1>5. \A z \in there : jar[<<c[1], <<c[2], z>>>>] = jar[<<b, m>>]
  BY <1>1, <1>2, <1>4
<1>6. CASE there = {}
  <2>1. Listed(c, s) = 0
    BY <1>1, <1>6 DEF Listed
  <2>2. jar[<<c[1], <<c[2], m[2]>>>>] = 0
    BY <1>1, <1>3, <1>6
  <2> QED BY <2>1, <2>2, <1>1, <1>2, <1>3
<1>7. CASE there # {}
  <2>1. PICK z : z = IF s \in there THEN s ELSE CHOOSE y \in there : TRUE
    OBVIOUS
  <2>2. z \in there
    BY <2>1, <1>7
  <2>3. Listed(c, s) = jar[<<c[1], <<c[2], z>>>>]
    BY <2>1, <1>1, <1>7 DEF Listed
  <2> QED BY <2>2, <2>3, <1>1, <1>5
<1> QED BY <1>6, <1>7

\* What the browser attaches to a refresh is what would be read from the jar, or nothing.
LEMMA AttachedIsShown ==
  ASSUME WireAssumption, JarFine, NoneLeft, NEW rt, rt.effect = "refresh",
         dep.variant \in Variants, dep.scope \in Scopes, NEW s \in Scopes, NEW z \in Scopes
  PROVE  CookieValue(Attached(rt, s, z), "refresh") \in {0, Shown(Refreshes(jar, dep.scope), dep.variant)}
<1>1. PICK f, v, x, y : f = Refreshes(jar, y) /\ v = dep.variant /\ x = Attached(rt, s, z) /\ y = dep.scope
  OBVIOUS
<1>2. {"host", "secure", "plain"} \subseteq Variants
  BY DEF Variants
<1>3. \A n \in Variants : f[n] = jar[<<"refresh", MarkAt(y, n)>>]
  BY <1>1, RefreshesAreKnown
<1>4. ASSUME NEW n \in Variants
      PROVE  x[<<"refresh", n>>] = IF (v # "plain" \/ n = "plain") /\ (n = "host" \/ ~dep.nested) THEN f[n] ELSE 0
  <2>1. PICK c : c = <<"refresh", n>>
    OBVIOUS
  <2>2. c \in Names /\ c[1] = "refresh" /\ c[2] = n
    BY <2>1, CookieNames DEF Bases
  <2>3. x[c] = IF Reachable(n) /\ InScope(c, rt) THEN f[n] ELSE 0
    <3>1. x[c] = IF Reachable(c[2]) /\ InScope(c, rt) THEN Listed(c, IF c[1] = "access" THEN s ELSE z) ELSE 0
      BY <1>1, <2>2 DEF Attached
    <3>2. Listed(c, z) = f[n]
      BY <2>1, <1>1, <1>3, ListedInScope
    <3> QED BY <3>1, <3>2, <2>2
  <2>4. Reachable(n) <=> (v # "plain" \/ n = "plain")
    BY <1>1 DEF Reachable
  <2>5. InScope(c, rt) <=> (n = "host" \/ ~dep.nested)
    BY <2>2 DEF InScope
  <2> QED BY <2>1, <2>3, <2>4, <2>5
<1>5. CookieValue(x, "refresh") = IF x[<<"refresh", "host">>] # 0 THEN x[<<"refresh", "host">>]
                                  ELSE IF x[<<"refresh", "secure">>] # 0 THEN x[<<"refresh", "secure">>]
                                  ELSE x[<<"refresh", "plain">>]
  BY ReadsFirst
<1>6. CASE dep.nested
  <2>1. /\ x[<<"refresh", "host">>] = IF v # "plain" THEN f["host"] ELSE 0
        /\ x[<<"refresh", "secure">>] = 0 /\ x[<<"refresh", "plain">>] = 0
    BY <1>2, <1>4, <1>6
  <2>2. CookieValue(x, "refresh") \in {0, Shown(f, v)}
    BY <2>1, <1>5 DEF Shown
  <2> QED BY <2>2, <1>1
<1>7. CASE ~dep.nested
  <2>1. /\ x[<<"refresh", "host">>] = IF v # "plain" THEN f["host"] ELSE 0
        /\ x[<<"refresh", "secure">>] = IF v # "plain" THEN f["secure"] ELSE 0
        /\ x[<<"refresh", "plain">>] = f["plain"]
    BY <1>2, <1>4, <1>7
  <2>2. CookieValue(x, "refresh") = Shown(f, v)
    BY <2>1, <1>5 DEF Shown
  <2> QED BY <2>2, <1>1
<1> QED BY <1>6, <1>7

\* What a request looks like that is sent.
Sends(q, page, rt, h, attach, s, z) ==
  /\ q = [phase |-> "sent", page |-> page, route |-> rt, handle |-> h, sent |-> q.sent, bearer |-> q.bearer, body |-> q.body]
  /\ q.phase = "sent" /\ q.page = page /\ q.route = rt /\ q.handle = h
  /\ q.sent = IF page = "app" \/ ~attach THEN [c \in Names |-> 0] ELSE Attached(rt, s, z)
  /\ q.bearer = IF page = "app" THEN app ELSE 0
  /\ q.body = IF page = "app" /\ rt.effect \in {"refresh", "logout"} THEN app ELSE 0

\* What a request that is sent looks like.
LEMMA SendIs ==
  ASSUME NetFine, dep \in Settings, NEW t \in Tabs, Send(t)
  PROVE  /\ net[t].phase = "idle" /\ dep' \in Settings /\ dep'.variant = dep.variant /\ dep'.scope = dep.scope /\ dep'.csrf = dep.csrf
         /\ net' = [u \in Tabs |-> net'[u]] /\ \A u \in Tabs : u # t => net'[u] = net[u]
         /\ \E page \in dep.pages, rt \in Routes, h \in DOMAIN sessions \cup {NoHandle}, attach \in BOOLEAN, s, z \in Scopes :
              /\ Sends(net'[t], page, rt, h, attach, s, z)
              /\ overlap' = (overlap \/ (/\ rt.effect \in TokenRoutes
                                         /\ \E u \in Tabs \ {t} : Effects(u) \cap TokenRoutes # {}))
<1>1. PICK page \in dep.pages, rt \in Routes, h \in DOMAIN sessions \cup {NoHandle}, attach \in BOOLEAN, s, z \in Scopes :
        /\ net[t].phase = "idle"
        /\ Cardinality({u \in Tabs : net[u].phase # "idle"}) < dep.slots
        /\ dep.requests > 0
        /\ dep' = [dep EXCEPT !.requests = @ - 1]
        /\ Mounted(rt)
        /\ (rt.path = <<"sessions", "handle">>) = (h # NoHandle)
        /\ attach \/ page = "other"
        /\ net' = [net EXCEPT ![t] =
             [phase |-> "sent", page |-> page, route |-> rt, handle |-> h,
              sent   |-> IF page = "app" \/ ~attach THEN [c \in Names |-> 0] ELSE Attached(rt, s, z),
              bearer |-> IF page = "app" THEN app ELSE 0,
              body   |-> IF page = "app" /\ rt.effect \in {"refresh", "logout"} THEN app ELSE 0]]
        /\ overlap' = (\/ overlap
                      \/ /\ rt.effect \in TokenRoutes
                         /\ \E u \in Tabs \ {t} : Effects(u) \cap TokenRoutes # {})
        /\ UNCHANGED <<jar, app, sessions, grants, account, foreign, lost, shadowed>>
  BY Zenon DEF Send
<1>2. PICK a, b, x : /\ a = IF page = "app" \/ ~attach THEN [c \in Names |-> 0] ELSE Attached(rt, s, z)
                     /\ b = IF page = "app" THEN app ELSE 0
                     /\ x = IF page = "app" /\ rt.effect \in {"refresh", "logout"} THEN app ELSE 0
  OBVIOUS
<1>3. PICK q : q = [phase |-> "sent", page |-> page, route |-> rt, handle |-> h, sent |-> a, bearer |-> b, body |-> x]
  OBVIOUS
<1>4. net = [u \in Tabs |-> net[u]]
  BY DEF NetFine
<1>5. net' = [net EXCEPT ![t] = q]
  BY <1>1, <1>2, <1>3
<1>6. net' = [u \in Tabs |-> IF u = t THEN q ELSE net[u]]
  BY <1>4, <1>5
<1>7. net' = [u \in Tabs |-> net'[u]] /\ net'[t] = q /\ \A u \in Tabs : u # t => net'[u] = net[u]
  BY <1>6
<1>8. Sends(q, page, rt, h, attach, s, z)
  BY <1>2, <1>3 DEF Sends
<1>9. dep' \in Settings /\ dep'.variant = dep.variant /\ dep'.scope = dep.scope /\ dep'.csrf = dep.csrf
  <2>1. PICK n : n = dep.requests - 1
    OBVIOUS
  <2>2. n \in Nat
    BY <1>1, <2>1 DEF Settings
  <2>3. dep' = [dep EXCEPT !.requests = n]
    BY <1>1, <2>1
  <2> QED BY <2>2, <2>3 DEF Settings
<1>10. net[t].phase = "idle"
  BY <1>1
<1>11. overlap' = (overlap \/ (/\ rt.effect \in TokenRoutes
                               /\ \E u \in Tabs \ {t} : Effects(u) \cap TokenRoutes # {}))
  BY <1>1
<1>12. Sends(net'[t], page, rt, h, attach, s, z)
  BY <1>7, <1>8
<1>13. \E pg \in dep.pages, r \in Routes, j \in DOMAIN sessions \cup {NoHandle}, at \in BOOLEAN, y, w \in Scopes :
         /\ Sends(net'[t], pg, r, j, at, y, w)
         /\ overlap' = (overlap \/ (/\ r.effect \in TokenRoutes
                                    /\ \E u \in Tabs \ {t} : Effects(u) \cap TokenRoutes # {}))
  BY <1>11, <1>12, Zenon
<1> QED BY <1>7, <1>9, <1>10, <1>13

\* What the browser attaches is in its jar.
LEMMA AttachedIsHeld ==
  ASSUME JarFine, NEW rt, NEW s \in Scopes, NEW z \in Scopes, NEW b \in {"access", "refresh"}, NEW n \in Variants,
         NEW g, g # 0, NEW k, k = Attached(rt, s, z), k[<<b, n>>] = g
  PROVE  \E m \in Marks : jar[<<"refresh", m>>] = g
<1>1. PICK c, y : c = <<b, n>> /\ (y = IF b = "access" THEN s ELSE z)
  OBVIOUS
<1>2. c \in Names /\ c[1] = b /\ c[2] = n /\ y \in Scopes
  BY <1>1, CookieNames DEF Bases
<1>3. g = Listed(c, y)
  BY <1>1, <1>2 DEF Attached
<1>4. PICK w \in Scopes : Listed(c, y) \in {0, jar[<<b, <<n, w>>>>]}
  BY <1>2, ListedIsThere
<1>5. PICK m \in Marks : m = <<n, w>>
  BY DEF Marks
<1>6. jar[<<"access", m>>] \in {0, jar[<<"refresh", m>>]}
  BY DEF JarFine
<1>7. g = jar[<<"refresh", m>>]
  BY <1>3, <1>4, <1>5, <1>6
<1> QED BY <1>7

\* What the browser attaches has been minted.
LEMMA AttachedIsKnown ==
  ASSUME JarFine, NEW rt, NEW s \in Scopes, NEW z \in Scopes, NEW b \in {"access", "refresh"}, NEW n \in Variants
  PROVE  Known(Attached(rt, s, z)[<<b, n>>], grants)
<1>1. PICK g, k : g = k[<<b, n>>] /\ k = Attached(rt, s, z)
  OBVIOUS
<1>2. CASE g = 0
  BY <1>1, <1>2 DEF Known
<1>3. CASE g # 0
  <2>0. k = Attached(rt, s, z) /\ k[<<b, n>>] = g
    BY <1>1
  <2>1. \E m \in Marks : jar[<<"refresh", m>>] = g
    BY <2>0, <1>3, AttachedIsHeld
  <2>2. Known(g, grants)
    BY <2>1 DEF JarFine
  <2> QED BY <1>1, <2>2
<1> QED BY <1>2, <1>3

\* A request is sent, in turn or not.
LEMMA SendKeeps ==
  ASSUME WireAssumption, IInv, NEW t \in Tabs, Send(t)
  PROVE  IInv'
<1>1. /\ GrantsFine /\ JarFine /\ NetFine /\ Apart /\ Known(app, grants) /\ dep \in Settings
      /\ dep.variant \in Variants /\ dep.scope \in Scopes
      /\ ~shadowed => NoneLeft
      /\ InTurn => Turns
  BY DEF IInv, Always
<1>2. /\ jar' = jar /\ app' = app /\ sessions' = sessions /\ grants' = grants /\ foreign' = foreign
      /\ lost' = lost /\ shadowed' = shadowed
  BY DEF Send
<1>3. /\ net[t].phase = "idle" /\ dep' \in Settings /\ dep'.variant = dep.variant /\ dep'.scope = dep.scope /\ dep'.csrf = dep.csrf
      /\ net' = [u \in Tabs |-> net'[u]] /\ \A u \in Tabs : u # t => net'[u] = net[u]
  BY <1>1, SendIs
<1>4. PICK page \in dep.pages, rt \in Routes, h \in DOMAIN sessions \cup {NoHandle}, attach \in BOOLEAN, s, z \in Scopes :
        /\ Sends(net'[t], page, rt, h, attach, s, z)
        /\ overlap' = (overlap \/ (/\ rt.effect \in TokenRoutes
                                   /\ \E u \in Tabs \ {t} : Effects(u) \cap TokenRoutes # {}))
  BY <1>1, SendIs
<1>5. PICK q : q = net'[t]
  OBVIOUS
<1>6. Sends(q, page, rt, h, attach, s, z)
  BY <1>4, <1>5
<1>7. Steady
  BY <1>2, UnrevokedIsSteady
<1>8. SentFine(q, grants, sessions)
  <2>1. /\ q = [phase |-> "sent", page |-> q.page, route |-> q.route, handle |-> q.handle,
                sent |-> q.sent, bearer |-> q.bearer, body |-> q.body]
        /\ q.route \in Routes
    BY <1>6 DEF Sends
  <2>2. q.handle = NoHandle \/ q.handle \in 1..Len(sessions)
    <3>1. DOMAIN sessions = 1..Len(sessions)
      BY <1>1 DEF GrantsFine
    <3> QED BY <3>1, <1>6 DEF Sends
  <2>3. /\ Known(q.bearer, grants) /\ Known(q.body, grants)
        /\ q.page # "app" => q.bearer = 0 /\ q.body = 0
    <3>1. Known(0, grants)
      BY DEF Known
    <3> QED BY <3>1, <1>1, <1>6 DEF Sends
  <2>4. q.page = "app" => \A c \in Names : q.sent[c] = 0
    BY <1>6 DEF Sends
  <2>5. ASSUME NEW b \in {"access", "refresh"}, NEW n \in Variants
        PROVE  Known(q.sent[<<b, n>>], grants)
    <3>1. CASE q.sent = Attached(rt, s, z)
      <4>1. Known(Attached(rt, s, z)[<<b, n>>], grants)
        BY <1>1, AttachedIsKnown
      <4> QED BY <4>1, <3>1
    <3>2. CASE q.sent = [c \in Names |-> 0]
      <4>1. <<b, n>> \in Names
        BY CookieNames DEF Bases
      <4>2. q.sent[<<b, n>>] = 0
        BY <3>2, <4>1
      <4> QED BY <4>2 DEF Known
    <3> QED BY <3>1, <3>2, <1>6 DEF Sends
  <2> QED BY <2>1, <2>2, <2>3, <2>4, <2>5 DEF SentFine
<1>9. q.phase = "sent" /\ q.route = rt
  BY <1>6 DEF Sends
<1>10. NetFine'
  <2>1. RequestFine(q, grants', sessions')
    BY <1>2, <1>8, <1>9 DEF RequestFine
  <2>2. \A u \in Tabs : \A g \in 1..Len(grants) : PutBy(net[u], g) => grants'[g].age = grants[g].age
    BY <1>7 DEF Steady, SameAges
  <2>3. RequestFine(net'[t], grants', sessions')
    BY <2>1, <1>5
  <2> QED BY <2>2, <2>3, <1>1, <1>3, <1>7, NetLasts DEF Steady
<1>11. Apart'
  <2>1. ASSUME NEW g \in 1..Len(grants)
        PROVE  (BrowserHas(jar', net', g) => BrowserHas(jar, net, g)) /\ (AppHas(app', net', g) => AppHas(app, net, g))
    <3>1. g # 0
      BY <1>1 DEF GrantsFine
    <3>2. ASSUME SentBy(q, g)
          PROVE  BrowserHas(jar, net, g)
      <4>1. PICK b \in {"access", "refresh"}, n \in Variants : q.sent[<<b, n>>] = g
        BY <3>2 DEF SentBy, TokenCookie
      <4>2. q.sent # [c \in Names |-> 0]
        <5>1. <<b, n>> \in Names
          BY CookieNames DEF Bases
        <5> QED BY <5>1, <4>1, <3>1
      <4>3. q.sent = Attached(rt, s, z)
        BY <4>2, <1>6 DEF Sends
      <4>4. \E m \in Marks : g = jar[<<"refresh", m>>]
        <5>1. PICK k : k = Attached(rt, s, z) /\ k[<<b, n>>] = g
          BY <4>1, <4>3
        <5>2. \E m \in Marks : jar[<<"refresh", m>>] = g
          BY <5>1, <3>1, <1>1, AttachedIsHeld
        <5> QED BY <5>2
      <4> QED BY <4>4 DEF BrowserHas
    <3>3. ~PutBy(q, g)
      BY <1>9 DEF PutBy
    <3>4. CarriedBy(q, g) => app = g
      BY <1>6, <1>9, <3>1 DEF CarriedBy, Sends
    <3>5. BrowserHas(jar', net', g) => BrowserHas(jar, net, g)
      BY <3>2, <3>3, <1>2, <1>3, <1>5 DEF BrowserHas
    <3>6. AppHas(app', net', g) => AppHas(app, net, g)
      BY <3>4, <1>2, <1>3, <1>5 DEF AppHas
    <3> QED BY <3>5, <3>6
  <2> QED BY <2>1, <1>1, <1>7, ApartLasts DEF Steady
<1>12. ASSUME InTurn'
       PROVE  Turns'
  <2>0. NoneLeft
    BY <1>1, <1>2, <1>12 DEF InTurn
  <2>1. Turns
    BY <1>1, <1>2, <1>4, <1>12 DEF InTurn
  <2>2. ~Arriving(net[t]) /\ ~Waiting(net[t]) /\ ~Arriving(q)
    BY <1>3, <1>9 DEF Arriving, Waiting
  <2>3. CASE rt.effect \notin TokenRoutes
    <3>1. ~Waiting(q)
      BY <2>3, <1>9 DEF Waiting
    <3>2. /\ \A u \in Tabs : Waiting(net'[u]) \/ Arriving(net'[u]) => net'[u] = net[u]
          /\ \A u \in Tabs : Arriving(net[u]) => Arriving(net'[u])
      BY <3>1, <2>2, <1>3, <1>5
    <3> QED BY <3>2, <2>1, <1>1, <1>2, <1>3, <1>7, TurnsLast
  <2>4. CASE rt.effect \in TokenRoutes
    <3>1. \A u \in Tabs : u # t => Effects(u) \cap TokenRoutes = {}
      BY <1>4, <1>12, <2>4 DEF InTurn
    <3>2. ASSUME NEW u \in Tabs, u # t
          PROVE  ~Waiting(net[u]) /\ ~Arriving(net[u])
      <4>1. Waiting(net[u]) => net[u].route.effect \in Effects(u) \cap TokenRoutes
        BY DEF Waiting, Effects
      <4>2. Arriving(net[u]) => net[u].effect \in Effects(u) \cap TokenRoutes
        BY DEF Arriving, Effects
      <4> QED BY <4>1, <4>2, <3>1, <3>2
    <3>3. \A u \in Tabs : ~Waiting(net[u]) /\ ~Arriving(net[u])
      BY <3>2, <2>2
    <3>4. PICK f, v : f = Refreshes(jar, dep.scope) /\ v = dep.variant
      OBVIOUS
    <3>5. Good(f, v, grants, sessions) /\ Usable(app, grants, sessions) /\ Ordered(f, v)
      BY <3>3, <3>4, <2>1 DEF Turns
    <3>6. \A u \in Tabs : u # t => ~Waiting(net'[u]) /\ ~Arriving(net'[u])
      BY <3>3, <1>3
    <3>7. ASSUME rt.effect = "refresh"
          PROVE  Usable(RefreshTokenFromRequest(q), grants, sessions)
      <4>1. Usable(0, grants, sessions)
        BY DEF Usable
      <4>2. CASE page = "app"
        <5>1. RefreshTokenFromRequest(q) = q.body /\ q.body = app
          BY <4>2, <3>7, <1>6, <1>8, CarriedIsKnown DEF Sends
        <5> QED BY <5>1, <3>5
      <4>3. CASE page # "app"
        <5>1. q.page # "app"
          BY <4>3, <1>6 DEF Sends
        <5>2. RefreshTokenFromRequest(q) = CookieValue(q.sent, "refresh")
          BY <5>1, <1>8, CarriedIsKnown
        <5>3. CASE q.sent = Attached(rt, s, z)
          <6>1. CookieValue(Attached(rt, s, z), "refresh") \in {0, Shown(f, v)}
            BY <3>4, <3>7, <2>0, <1>1, AttachedIsShown
          <6> QED BY <6>1, <5>2, <5>3, <4>1, <3>5 DEF Good
        <5>4. CASE q.sent = [c \in Names |-> 0]
          <6>1. \A n \in Variants : <<"refresh", n>> \in Names
            BY CookieNames DEF Bases
          <6>2. {"host", "secure", "plain"} \subseteq Variants
            BY DEF Variants
          <6>3. CookieValue(q.sent, "refresh") = 0
            BY <6>1, <6>2, <5>4 DEF CookieValue
          <6> QED BY <6>3, <5>2, <4>1
        <5> QED BY <5>3, <5>4, <1>6 DEF Sends
      <4> QED BY <4>2, <4>3
    <3>8. \A u, w \in Tabs : (Waiting(net'[u]) \/ Arriving(net'[u])) /\ (Waiting(net'[w]) \/ Arriving(net'[w])) => u = w
      BY <3>6
    <3>9. /\ Good(Refreshes(jar', dep'.scope), dep'.variant, grants', sessions') /\ Usable(app', grants', sessions')
          /\ Ordered(Refreshes(jar', dep'.scope), dep'.variant)
      BY <3>4, <3>5, <1>2, <1>3
    <3>10. \A u \in Tabs : ~Arriving(net'[u])
      BY <3>6, <2>2, <1>5
    <3>11. \A u \in Tabs : Waiting(net'[u]) /\ net'[u].route.effect = "refresh" =>
             Usable(RefreshTokenFromRequest(net'[u]), grants', sessions')
      BY <3>6, <3>7, <1>2, <1>5, <1>9
    <3> QED BY <3>8, <3>9, <3>10, <3>11 DEF Turns
  <2> QED BY <2>3, <2>4
<1>13. ForeignFine'
  BY <1>2, <1>3 DEF ForeignFine, IInv, Always
<1>14. Always'
  <2>1. GrantsFine' /\ Known(app, grants)'
    BY <1>1, <1>2, <1>7 DEF Steady, Known
  <2>2. JarFine'
    BY <1>1, <1>2, <1>7, JarWaits DEF Steady
  <2> QED BY <2>1, <2>2, <1>1, <1>3, <1>10, <1>11, <1>13 DEF Always
<1>15. ASSUME NoneLeft
       PROVE  NoneLeft'
  <2>1. ~(net'[t].phase = "answered")
    BY <1>5, <1>9
  <2> QED BY <2>1, <1>2, <1>3, <1>15, NoneLeftLasts
<1> QED BY <1>1, <1>2, <1>12, <1>14, <1>15 DEF IInv

(***************************************************************************)
(* Answers that arrive, or do not.                                         *)
(***************************************************************************)
Ends(t) == /\ net' = [u \in Tabs |-> net'[u]] /\ net'[t] = Idle
           /\ \A u \in Tabs : u # t => net'[u] = net[u]

\* A request is over.
LEMMA EndsIs ==
  ASSUME NetFine, NEW t \in Tabs, net' = [net EXCEPT ![t] = Idle]
  PROVE  Ends(t)
<1>1. net = [u \in Tabs |-> net[u]]
  BY DEF NetFine
<1>2. net' = [u \in Tabs |-> IF u = t THEN Idle ELSE net[u]]
  BY <1>1
<1> QED BY <1>2 DEF Ends

\* The others stay fine when a request is over.
LEMMA EndsIsFine ==
  ASSUME IInv, Steady, NEW t \in Tabs, Ends(t)
  PROVE  NetFine'
<1>1. PICK q, gs, ss : q = net'[t] /\ gs = grants' /\ ss = sessions'
  OBVIOUS
<1>2. RequestFine(q, gs, ss)
  BY <1>1 DEF Ends, RequestFine, Idle
<1>3. \A u \in Tabs : \A g \in 1..Len(grants) : PutBy(net[u], g) => grants'[g].age = grants[g].age
  BY DEF Steady, SameAges
<1> QED BY <1>1, <1>2, <1>3, NetLasts DEF Ends, IInv, Always, Steady

\* A request or an answer is lost: nothing is in turn any more.
LEMMA LoseKeeps ==
  ASSUME IInv, NEW t \in Tabs, Lose(t)
  PROVE  IInv'
<1>1. /\ GrantsFine /\ JarFine /\ NetFine /\ Apart /\ Known(app, grants) /\ dep \in Settings
      /\ dep.variant \in Variants /\ dep.scope \in Scopes
      /\ ~shadowed => NoneLeft
  BY DEF IInv, Always
<1>2. /\ dep' = dep /\ jar' = jar /\ app' = app /\ sessions' = sessions /\ grants' = grants /\ foreign' = foreign
      /\ lost' /\ shadowed' = shadowed
  BY DEF Lose
<1>3. net' = [net EXCEPT ![t] = Idle]
  BY DEF Lose
<1>4. Ends(t)
  BY <1>1, <1>3, EndsIs
<1>5. Steady
  BY <1>2, UnrevokedIsSteady
<1>6. NetFine'
  BY <1>4, <1>5, EndsIsFine
<1>7. Apart'
  <2>1. ASSUME NEW g
        PROVE  ~SentBy(Idle, g) /\ ~PutBy(Idle, g) /\ ~CarriedBy(Idle, g)
    BY DEF Idle, SentBy, PutBy, CarriedBy
  <2>2. \A g \in 1..Len(grants) : (BrowserHas(jar', net', g) => BrowserHas(jar, net, g)) /\ (AppHas(app', net', g) => AppHas(app, net, g))
    BY <2>1, <1>2, <1>4 DEF BrowserHas, AppHas, Ends
  <2> QED BY <2>2, <1>1, <1>5, ApartLasts DEF Steady
<1>8. JarFine'
  BY <1>1, <1>2, <1>5, JarWaits DEF Steady
<1>9. ForeignFine'
  BY <1>2 DEF ForeignFine, IInv, Always
<1>10. ~InTurn'
  BY <1>2 DEF InTurn
<1>11. ASSUME NoneLeft
       PROVE  NoneLeft'
  <2>1. net'[t].phase # "answered" /\ \A u \in Tabs : u # t => net'[u] = net[u]
    BY <1>4 DEF Ends, Idle
  <2> QED BY <2>1, <1>2, <1>11, NoneLeftLasts
<1>12. Known(app, grants)'
  BY <1>1, <1>2
<1>13. Always'
  BY <1>1, <1>2, <1>5, <1>6, <1>7, <1>8, <1>9, <1>12 DEF Always, Steady
<1> QED BY <1>1, <1>2, <1>10, <1>11, <1>13 DEF IInv

\* The browser applies the cookies of the answer.
LEMMA ReceiveIs ==
  ASSUME JarFine, NEW t, Receive(t)
  PROVE  /\ jar' = [c \in Cookies |-> jar'[c]]
         /\ \A c \in Cookies : jar'[c] = IF net[t].page # "app" /\ c \in DOMAIN net[t].cookies THEN net[t].cookies[c] ELSE jar[c]
<1>1. jar = [c \in Cookies |-> jar[c]]
  BY DEF JarFine
<1>2. jar' = IF net[t].page = "app" THEN jar
             ELSE [c \in Cookies |-> IF c \in DOMAIN net[t].cookies THEN net[t].cookies[c] ELSE jar[c]]
  BY DEF Receive
<1>3. CASE net[t].page = "app"
  BY <1>1, <1>2, <1>3
<1>4. CASE net[t].page # "app"
  BY <1>2, <1>4
<1> QED BY <1>3, <1>4

\* An answer arrives: the clients have what they were to have.
LEMMA ReceiveKeeps ==
  ASSUME WireAssumption, IInv, NEW t \in Tabs, Receive(t)
  PROVE  IInv'
<1>1. /\ GrantsFine /\ JarFine /\ NetFine /\ Apart /\ Known(app, grants) /\ dep \in Settings
      /\ dep.variant \in Variants /\ dep.scope \in Scopes
      /\ ~shadowed => NoneLeft
      /\ InTurn => Turns
  BY DEF IInv, Always
<1>2. /\ dep' = dep /\ sessions' = sessions /\ grants' = grants /\ foreign' = foreign /\ shadowed' = shadowed
      /\ InTurn' => InTurn
  BY DEF Receive, InTurn
<1>3. PICK q : q = net[t]
  OBVIOUS
<1>4. q.phase = "answered" /\ AnswerFine(q, grants)
  BY <1>1, <1>3 DEF Receive, NetFine, RequestFine
<1>5. net' = [net EXCEPT ![t] = Idle]
  BY DEF Receive
<1>6. Ends(t)
  BY <1>1, <1>5, EndsIs
<1>7. Steady
  BY <1>2, UnrevokedIsSteady
<1>8. NetFine'
  BY <1>6, <1>7, EndsIsFine
<1>9. /\ jar' = [c \in Cookies |-> jar'[c]]
      /\ \A c \in Cookies : jar'[c] = IF q.page # "app" /\ c \in DOMAIN q.cookies THEN q.cookies[c] ELSE jar[c]
  BY <1>1, <1>3, ReceiveIs
<1>10. app' = IF q.page # "app" THEN app
              ELSE IF q.body # 0 THEN q.body
              ELSE IF q.effect \in {"logout", "delete"} /\ q.code = "OK" THEN 0 ELSE app
  BY <1>3 DEF Receive
<1>11. app' \in {0, AppAfter(app, q)}
  BY <1>10 DEF AppAfter
<1>12. \A b \in Bases, n \in Marks :
         jar'[<<b, n>>] = IF q.page # "app" /\ <<b, n>> \in DOMAIN q.cookies THEN q.cookies[<<b, n>>] ELSE jar[<<b, n>>]
  BY <1>9, CookieNames
<1>13. Refreshes(jar', dep'.scope) = After(jar, q, dep.scope)
  <2>1. PICK z : z = dep.scope /\ z = dep'.scope
    BY <1>2
  <2>2. \A n \in Variants : MarkAt(z, n) \in Marks
    BY <2>1, <1>1, MarksOf
  <2>3. \A n \in Variants :
          jar'[<<"refresh", MarkAt(z, n)>>] = IF q.page # "app" /\ <<"refresh", MarkAt(z, n)>> \in DOMAIN q.cookies
                                              THEN q.cookies[<<"refresh", MarkAt(z, n)>>]
                                              ELSE jar[<<"refresh", MarkAt(z, n)>>]
    BY <2>2, <1>12 DEF Bases
  <2>4. Refreshes(jar', z) = After(jar, q, z)
    BY <2>3 DEF Refreshes, After
  <2> QED BY <2>1, <2>4
<1>14. CookiesFine(q.cookies, q.effect, grants) /\ Known(q.body, grants)
  BY <1>4 DEF AnswerFine
<1>15. JarFine'
  <2>1. PICK gs, j : gs = grants /\ j = jar'
    OBVIOUS
  <2>2. ASSUME NEW n \in Marks
        PROVE  /\ j[<<"csrf", n>>] \in {0, 1}
               /\ Known(j[<<"refresh", n>>], gs)
               /\ j[<<"refresh", n>>] # 0 => gs[j[<<"refresh", n>>]].age < 2
               /\ j[<<"access", n>>] =
                    IF j[<<"refresh", n>>] # 0 /\ gs[j[<<"refresh", n>>]].age = 0 THEN j[<<"refresh", n>>] ELSE 0
    <3>1. /\ jar[<<"csrf", n>>] \in {0, 1}
          /\ Known(jar[<<"refresh", n>>], gs)
          /\ jar[<<"refresh", n>>] # 0 => gs[jar[<<"refresh", n>>]].age < 2
          /\ jar[<<"access", n>>] =
               IF jar[<<"refresh", n>>] # 0 /\ gs[jar[<<"refresh", n>>]].age = 0 THEN jar[<<"refresh", n>>] ELSE 0
      BY <1>1, <2>1 DEF JarFine
    <3>2. \A b \in Bases :
            j[<<b, n>>] = IF q.page # "app" /\ <<b, n>> \in DOMAIN q.cookies THEN q.cookies[<<b, n>>] ELSE jar[<<b, n>>]
      BY <1>12, <2>1
    <3>3. /\ <<"csrf", n>> \in DOMAIN q.cookies => q.cookies[<<"csrf", n>>] \in {0, 1}
          /\ <<"access", n>> \in DOMAIN q.cookies <=> <<"refresh", n>> \in DOMAIN q.cookies
          /\ <<"refresh", n>> \in DOMAIN q.cookies =>
               /\ Known(q.cookies[<<"refresh", n>>], gs) /\ q.cookies[<<"access", n>>] = q.cookies[<<"refresh", n>>]
               /\ q.cookies[<<"refresh", n>>] # 0 => gs[q.cookies[<<"refresh", n>>]].age = 0
      BY <1>14, <2>1 DEF CookiesFine
    <3>4. {"access", "refresh", "csrf"} \subseteq Bases
      BY DEF Bases
    <3>5. j[<<"csrf", n>>] \in {0, 1}
      BY <3>1, <3>2, <3>3, <3>4
    <3>6. CASE q.page # "app" /\ <<"refresh", n>> \in DOMAIN q.cookies
      <4>1. j[<<"refresh", n>>] = q.cookies[<<"refresh", n>>] /\ j[<<"access", n>>] = q.cookies[<<"refresh", n>>]
        BY <3>2, <3>3, <3>4, <3>6
      <4> QED BY <4>1, <3>3, <3>5, <3>6
    <3>7. CASE ~(q.page # "app" /\ <<"refresh", n>> \in DOMAIN q.cookies)
      <4>1. j[<<"refresh", n>>] = jar[<<"refresh", n>>] /\ j[<<"access", n>>] = jar[<<"access", n>>]
        BY <3>2, <3>3, <3>4, <3>7
      <4> QED BY <4>1, <3>1, <3>5
    <3> QED BY <3>6, <3>7
  <2>3. j = jar' /\ gs = grants' /\ j = [c \in Cookies |-> j[c]]
    BY <1>2, <1>9, <2>1
  <2> QED BY <2>2, <2>3 DEF JarFine
<1>16. Known(app, grants)'
  <2>1. Known(0, grants) /\ Known(AppAfter(app, q), grants)
    BY <1>1, <1>14 DEF Known, AppAfter
  <2> QED BY <2>1, <1>2, <1>11
<1>17. Apart'
  <2>1. ASSUME NEW g
        PROVE  ~SentBy(Idle, g) /\ ~PutBy(Idle, g) /\ ~CarriedBy(Idle, g)
    BY DEF Idle, SentBy, PutBy, CarriedBy
  <2>2. ASSUME NEW g \in 1..Len(grants)
        PROVE  (BrowserHas(jar', net', g) => BrowserHas(jar, net, g)) /\ (AppHas(app', net', g) => AppHas(app, net, g))
    <3>1. g # 0
      BY <1>1 DEF GrantsFine
    <3>2. ASSUME NEW n \in Marks, jar'[<<"refresh", n>>] = g
          PROVE  BrowserHas(jar, net, g)
      <4>1. "refresh" \in Bases
        BY DEF Bases
      <4>2. jar[<<"refresh", n>>] = g \/ PutBy(q, g)
        BY <3>2, <4>1, <1>4, <1>12 DEF PutBy
      <4> QED BY <4>2, <1>3 DEF BrowserHas
    <3>3. app' = g => AppHas(app, net, g)
      <4>1. app' = g => app = g \/ CarriedBy(q, g)
        BY <3>1, <1>4, <1>11 DEF AppAfter, CarriedBy
      <4> QED BY <4>1, <1>3 DEF AppHas
    <3>4. BrowserHas(jar', net', g) => BrowserHas(jar, net, g)
      <4> SUFFICES ASSUME BrowserHas(jar', net', g), ~\E n \in Marks : jar'[<<"refresh", n>>] = g
                   PROVE  BrowserHas(jar, net, g)
        BY <3>2
      <4>1. PICK u \in Tabs : SentBy(net'[u], g) \/ PutBy(net'[u], g)
        BY DEF BrowserHas
      <4>2. net'[u] = net[u]
        BY <4>1, <2>1, <1>6 DEF Ends
      <4> QED BY <4>1, <4>2 DEF BrowserHas
    <3>5. AppHas(app', net', g) => AppHas(app, net, g)
      <4> SUFFICES ASSUME AppHas(app', net', g), app' # g
                   PROVE  AppHas(app, net, g)
        BY <3>3
      <4>1. PICK u \in Tabs : CarriedBy(net'[u], g)
        BY DEF AppHas
      <4>2. net'[u] = net[u]
        BY <4>1, <2>1, <1>6 DEF Ends
      <4> QED BY <4>1, <4>2 DEF AppHas
    <3> QED BY <3>4, <3>5
  <2> QED BY <2>2, <1>1, <1>7, ApartLasts DEF Steady
<1>18. ASSUME Turns
       PROVE  Turns'
  <2>1. ~Waiting(net'[t]) /\ ~Arriving(net'[t])
    BY <1>6 DEF Ends, Idle, Waiting, Arriving
  <2>2. \A u \in Tabs : u # t => net'[u] = net[u]
    BY <1>6 DEF Ends
  <2>3. \A u, w \in Tabs : (Waiting(net'[u]) \/ Arriving(net'[u])) /\ (Waiting(net'[w]) \/ Arriving(net'[w])) => u = w
    BY <2>1, <2>2, <1>18 DEF Turns
  <2>4. CASE Arriving(q)
    <3>1. \A u \in Tabs : u # t => ~Waiting(net[u]) /\ ~Arriving(net[u])
      BY <2>4, <1>3, <1>18 DEF Turns
    <3>2. \A u \in Tabs : ~Waiting(net'[u]) /\ ~Arriving(net'[u])
      BY <3>1, <2>1, <2>2
    <3>3. Good(After(jar, q, dep.scope), dep.variant, grants, sessions) /\ Usable(AppAfter(app, q), grants, sessions)
      BY <2>4, <1>3, <1>18 DEF Turns
    <3>4. Usable(0, grants, sessions)
      BY DEF Usable
    <3>5. Good(Refreshes(jar', dep'.scope), dep'.variant, grants', sessions') /\ Usable(app', grants', sessions')
      BY <3>3, <3>4, <1>2, <1>11, <1>13
    <3>6. Ordered(Refreshes(jar', dep'.scope), dep'.variant)
      BY <3>5 DEF Good
    <3> QED BY <3>2, <3>5, <3>6, <2>3 DEF Turns
  <2>5. CASE ~Arriving(q)
    <3>1. q.effect \notin TokenRoutes
      BY <2>5, <1>4 DEF Arriving
    <3>2. \A n \in Marks : <<"refresh", n>> \notin DOMAIN q.cookies
      BY <3>1, <1>14 DEF CookiesFine
    <3>3. PICK z : /\ z = dep.scope /\ z = dep'.scope
                   /\ \A n \in Variants : jar'[<<"refresh", MarkAt(z, n)>>] = jar[<<"refresh", MarkAt(z, n)>>]
      <4>1. \A n \in Marks : jar'[<<"refresh", n>>] = jar[<<"refresh", n>>]
        BY <3>2, <1>12 DEF Bases
      <4>2. \A n \in Variants : MarkAt(dep.scope, n) \in Marks
        BY <1>1, MarksOf
      <4> QED BY <4>1, <4>2, <1>2
    <3>4. Refreshes(jar', dep'.scope) = Refreshes(jar, dep.scope)
      <4>1. Refreshes(jar', z) = Refreshes(jar, z)
        BY <3>3 DEF Refreshes
      <4> QED BY <4>1, <3>3
    <3>5. app' = app
      <4>1. q.effect \notin {"login", "refresh", "logout", "delete"}
        BY <3>1 DEF TokenRoutes
      <4>2. q.body = 0
        BY <4>1, <1>4 DEF AnswerFine
      <4> QED BY <4>1, <4>2, <1>10
    <3>6. ASSUME NEW u \in Tabs, Arriving(net'[u])
          PROVE  /\ Good(After(jar', net'[u], dep'.scope), dep'.variant, grants', sessions')
                 /\ Usable(AppAfter(app', net'[u]), grants', sessions')
      <4>1. PICK a : a = net[u]
        OBVIOUS
      <4>2. net'[u] = a /\ Arriving(a)
        BY <4>1, <3>6, <2>1, <2>2
      <4>3. After(jar', a, dep'.scope) = After(jar, a, dep.scope)
        <5>1. After(jar', a, z) = After(jar, a, z)
          BY <3>3 DEF After
        <5> QED BY <5>1, <3>3
      <4>4. Good(After(jar, a, dep.scope), dep.variant, grants, sessions) /\ Usable(AppAfter(app, a), grants, sessions)
        BY <4>1, <4>2, <1>18 DEF Turns
      <4> QED BY <4>2, <4>3, <4>4, <3>5, <1>2
    <3>7. Ordered(Refreshes(jar', dep'.scope), dep'.variant)
      BY <3>4, <1>2, <1>18 DEF Turns
    <3>8. (\A u \in Tabs : ~Arriving(net'[u])) =>
             Good(Refreshes(jar', dep'.scope), dep'.variant, grants', sessions') /\ Usable(app', grants', sessions')
      <4>1. (\A u \in Tabs : ~Arriving(net'[u])) => \A u \in Tabs : ~Arriving(net[u])
        BY <2>2, <2>5, <1>3
      <4> QED BY <4>1, <3>4, <3>5, <1>2, <1>18 DEF Turns
    <3>9. \A u \in Tabs : Waiting(net'[u]) /\ net'[u].route.effect = "refresh" =>
            Usable(RefreshTokenFromRequest(net'[u]), grants', sessions')
      BY <2>1, <2>2, <1>2, <1>18 DEF Turns
    <3> QED BY <3>6, <3>7, <3>8, <3>9, <2>3 DEF Turns
  <2> QED BY <2>4, <2>5
<1>19. ForeignFine'
  BY <1>2 DEF ForeignFine, IInv, Always
<1>20. Always'
  BY <1>1, <1>2, <1>7, <1>8, <1>15, <1>16, <1>17, <1>19 DEF Always, Steady
<1>21. ASSUME NoneLeft
       PROVE  NoneLeft'
  <2>1. Tidy(dep.scope, q.cookies)
    BY <1>3, <1>4, <1>21 DEF NoneLeft
  <2>2. ASSUME NEW n \in Marks, Stray(dep.scope, n)
        PROVE  jar'[<<"refresh", n>>] = 0
    <3>1. jar[<<"refresh", n>>] = 0 /\ (<<"refresh", n>> \in DOMAIN q.cookies => q.cookies[<<"refresh", n>>] = 0)
      BY <2>1, <2>2, <1>21 DEF Tidy, NoneLeft
    <3> QED BY <3>1, <1>12 DEF Bases
  <2>3. \A u \in Tabs : net'[u].phase = "answered" => Tidy(dep.scope, net'[u].cookies)
    <3>1. net'[t].phase # "answered" /\ \A u \in Tabs : u # t => net'[u] = net[u]
      BY <1>6 DEF Ends, Idle
    <3> QED BY <3>1, <1>21 DEF NoneLeft
  <2> QED BY <2>2, <2>3, <1>2 DEF NoneLeft
<1> QED BY <1>1, <1>2, <1>18, <1>20, <1>21 DEF IInv

(***************************************************************************)
(* Time.                                                                   *)
(***************************************************************************)
\* Nobody's session, and nothing that is current, changes.
Kept == /\ sessions' = sessions /\ SameGrants /\ Len(grants') = Len(grants)
        /\ dep' = dep /\ app' = app /\ net' = net

\* What leaves sessions alone, ages apart, leaves what is usable alone.
LEMMA KeptUse ==
  ASSUME GrantsFine, Kept
  PROVE  \A g : Known(g, grants) => (Usable(g, grants', sessions') <=> Usable(g, grants, sessions))
<1> SUFFICES ASSUME NEW g, Known(g, grants)
             PROVE  Usable(g, grants', sessions') <=> Usable(g, grants, sessions)
  OBVIOUS
<1>1. CASE g = 0
  BY <1>1 DEF Usable
<1>2. CASE g \in 1..Len(grants)
  <2>1. grants'[g].sid = grants[g].sid /\ sessions' = sessions
    BY <1>2 DEF Kept, SameGrants
  <2> QED BY <2>1 DEF Usable
<1> QED BY <1>1, <1>2 DEF Known

\* Of the cookies f those that are left are h.
Thinned(f, h, v) == Ordered(h, v) /\ Shown(h, v) \in {0, Shown(f, v)}

\* What is read of the cookies that are left is usable if what was read before was.
LEMMA ThinnedIsGood ==
  ASSUME GrantsFine, Kept, NEW f, NEW h, NEW v, NEW w, \A n \in Variants : Known(f[n], grants),
         Good(f, v, grants, sessions), Ordered(h, w), Shown(h, w) \in {0, Shown(f, v)}
  PROVE  Good(h, w, grants', sessions')
<1>1. PICK x, y : x = Shown(h, w) /\ y = Shown(f, v)
  OBVIOUS
<1>2. Known(y, grants) /\ Usable(y, grants, sessions)
  BY <1>1, ShownIsKnown DEF Good
<1>3. Usable(y, grants', sessions')
  BY <1>2, KeptUse
<1>4. Usable(0, grants', sessions')
  BY DEF Usable
<1>5. Usable(x, grants', sessions')
  BY <1>1, <1>3, <1>4
<1> QED BY <1>1, <1>5 DEF Good

\* Requests in turn stay so when cookies are thinned, in the jar and in what it
\* will be.
LEMMA TurnsThinned ==
  ASSUME WireAssumption, Turns, GrantsFine, NetFine, JarFine, Known(app, grants), sessions' = sessions, SameGrants,
         dep.scope \in Scopes, Len(grants') = Len(grants), dep' = dep, app' = app, net' = net,
         Thinned(Refreshes(jar, dep.scope), Refreshes(jar', dep'.scope), dep.variant),
         \A u \in Tabs : Arriving(net[u]) => Thinned(After(jar, net[u], dep.scope), After(jar', net[u], dep'.scope), dep.variant)
  PROVE  Turns'
<1>0. Kept
  BY DEF Kept
<1>1. \A u, w \in Tabs : (Waiting(net'[u]) \/ Arriving(net'[u])) /\ (Waiting(net'[w]) \/ Arriving(net'[w])) => u = w
  BY DEF Turns
<1>2. Ordered(Refreshes(jar', dep'.scope), dep'.variant)
  BY DEF Thinned
<1>3. ASSUME \A u \in Tabs : ~Arriving(net'[u])
      PROVE  Good(Refreshes(jar', dep'.scope), dep'.variant, grants', sessions') /\ Usable(app', grants', sessions')
  <2>1. Good(Refreshes(jar, dep.scope), dep.variant, grants, sessions) /\ Usable(app, grants, sessions)
    BY <1>3 DEF Turns
  <2>2. PICK f, h, v, z : z = dep.scope /\ f = Refreshes(jar, z) /\ h = Refreshes(jar', dep'.scope) /\ v = dep.variant
    OBVIOUS
  <2>3. \A n \in Variants : Known(f[n], grants)
    BY <2>2, RefreshesAreKnown
  <2>4. Ordered(h, v) /\ Shown(h, v) \in {0, Shown(f, v)}
    BY <2>2 DEF Thinned
  <2>5. Good(h, v, grants', sessions')
    BY <1>0, <2>1, <2>2, <2>3, <2>4, ThinnedIsGood
  <2>6. Usable(app, grants', sessions')
    BY <1>0, <2>1, KeptUse
  <2> QED BY <2>2, <2>5, <2>6
<1>4. ASSUME NEW u \in Tabs, Arriving(net'[u])
      PROVE  /\ Good(After(jar', net'[u], dep'.scope), dep'.variant, grants', sessions')
             /\ Usable(AppAfter(app', net'[u]), grants', sessions')
  <2>1. PICK q, f, h, v, x, z : /\ q = net[u] /\ v = dep.variant /\ z = dep.scope /\ x = AppAfter(app, q)
                                /\ f = After(jar, q, z) /\ h = After(jar', q, dep'.scope)
    OBVIOUS
  <2>2. net'[u] = q /\ Arriving(q)
    BY <1>4, <2>1
  <2>3. Good(f, v, grants, sessions) /\ Usable(x, grants, sessions)
    BY <2>1, <2>2 DEF Turns
  <2>4. RequestFine(q, grants, sessions) /\ q.phase = "answered"
    BY <2>1, <2>2 DEF NetFine, Arriving
  <2>5. (\A n \in Variants : Known(f[n], grants)) /\ Known(x, grants)
    BY <2>1, <2>4, AfterIsKnown
  <2>6. Ordered(h, v) /\ Shown(h, v) \in {0, Shown(f, v)}
    BY <2>1, <2>2 DEF Thinned
  <2>7. Good(h, v, grants', sessions')
    BY <1>0, <2>3, <2>5, <2>6, ThinnedIsGood
  <2>8. Usable(x, grants', sessions')
    BY <1>0, <2>3, <2>5, KeptUse
  <2> QED BY <2>1, <2>2, <2>7, <2>8
<1>5. ASSUME NEW u \in Tabs, Waiting(net'[u]), net'[u].route.effect = "refresh"
      PROVE  Usable(RefreshTokenFromRequest(net'[u]), grants', sessions')
  <2>1. PICK q, x : q = net[u] /\ x = RefreshTokenFromRequest(q)
    OBVIOUS
  <2>2. net'[u] = q /\ Waiting(q)
    BY <1>5, <2>1
  <2>3. Usable(x, grants, sessions)
    BY <1>5, <2>1, <2>2 DEF Turns
  <2>4. SentFine(q, grants, sessions)
    BY <2>1, <2>2 DEF NetFine, RequestFine, Waiting
  <2>5. Known(x, grants)
    BY <2>1, <2>4, CarriedIsKnown
  <2>6. Usable(x, grants', sessions')
    BY <1>0, <2>3, <2>5, KeptUse
  <2> QED BY <2>1, <2>2, <2>6
<1> QED BY <1>1, <1>2, <1>3, <1>4, <1>5 DEF Turns

\* A jar that only loses cookies stays apart from the bearer client.
LEMMA ThinnedApart ==
  ASSUME Apart, GrantsFine, SameGrants, Len(grants') = Len(grants), net' = net, app' = app,
         \A n \in Marks : jar'[<<"refresh", n>>] \in {0, jar[<<"refresh", n>>]}
  PROVE  Apart'
<1>1. ASSUME NEW g \in 1..Len(grants)
      PROVE  (BrowserHas(jar', net', g) => BrowserHas(jar, net, g)) /\ (AppHas(app', net', g) => AppHas(app, net, g))
  <2>1. g # 0
    BY DEF GrantsFine
  <2> QED BY <2>1 DEF BrowserHas, AppHas
<1> QED BY <1>1, ApartLasts

\* A jar that only loses cookies has none left behind that it had not before.
LEMMA ThinnedLeavesNone ==
  ASSUME NoneLeft, dep'.scope = dep.scope, net' = net,
         \A n \in Marks : jar'[<<"refresh", n>>] \in {0, jar[<<"refresh", n>>]}
  PROVE  NoneLeft'
<1>1. PICK z : z = dep.scope
  OBVIOUS
<1>2. z = dep'.scope
  BY <1>1
<1>3. \A u \in Tabs : net'[u].phase = "answered" => Tidy(z, net'[u].cookies)
  BY <1>1 DEF NoneLeft
<1>4. \A n \in Marks : Stray(z, n) => jar'[<<"refresh", n>>] = 0
  BY <1>1 DEF NoneLeft
<1> QED BY <1>2, <1>3, <1>4 DEF NoneLeft, Tidy, Stray, MarkAt

\* Nothing is lost of cookies in order.
LEMMA UnchangedIsThinned ==
  ASSUME NEW f, NEW v, Ordered(f, v)
  PROVE  Thinned(f, f, v)
BY DEF Thinned

\* The CSRF cookie expires.
LEMMA ExpireCSRFKeeps ==
  ASSUME WireAssumption, IInv, ExpireCSRF
  PROVE  IInv'
<1>1. /\ GrantsFine /\ JarFine /\ NetFine /\ Apart /\ Known(app, grants) /\ dep \in Settings
      /\ dep.variant \in Variants /\ dep.scope \in Scopes
      /\ ~shadowed => NoneLeft
      /\ InTurn => Turns
  BY DEF IInv, Always
<1>2. /\ dep' = dep /\ sessions' = sessions /\ grants' = grants /\ foreign' = foreign /\ net' = net /\ app' = app
      /\ shadowed' = shadowed /\ (InTurn' => InTurn)
  BY DEF ExpireCSRF, InTurn
<1>3. Steady
  BY <1>2, UnrevokedIsSteady
<1>4. jar' = [c \in Cookies |-> IF c[1] = "csrf" THEN 0 ELSE jar[c]]
  BY DEF ExpireCSRF
<1>5. \A b \in Bases, n \in Marks : jar'[<<b, n>>] = IF b = "csrf" THEN 0 ELSE jar[<<b, n>>]
  BY <1>4, CookieNames
<1>6. \A n \in Marks : /\ jar'[<<"csrf", n>>] = 0
                       /\ jar'[<<"access", n>>] = jar[<<"access", n>>]
                       /\ jar'[<<"refresh", n>>] = jar[<<"refresh", n>>]
  BY <1>5 DEF Bases
<1>7. jar' = [c \in Cookies |-> jar'[c]]
  BY <1>4
<1>8. JarFine'
  <2>1. PICK gs, j, i : gs = grants /\ j = jar' /\ i = jar
    OBVIOUS
  <2>2. /\ j = [c \in Cookies |-> j[c]]
        /\ \A n \in Marks :
             /\ j[<<"csrf", n>>] \in {0, 1}
             /\ Known(j[<<"refresh", n>>], gs)
             /\ j[<<"refresh", n>>] # 0 => gs[j[<<"refresh", n>>]].age < 2
             /\ j[<<"access", n>>] =
                  IF j[<<"refresh", n>>] # 0 /\ gs[j[<<"refresh", n>>]].age = 0 THEN j[<<"refresh", n>>] ELSE 0
    BY <1>1, <1>6, <1>7, <2>1 DEF JarFine
  <2>3. j = jar' /\ gs = grants'
    BY <1>2, <2>1
  <2> QED BY <2>2, <2>3 DEF JarFine
<1>9. NetFine'
  <2>1. \A u \in Tabs : \A g \in 1..Len(grants) : PutBy(net[u], g) => grants'[g].age = grants[g].age
    BY <1>2
  <2> QED BY <2>1, <1>1, <1>2, <1>3, NetWaits DEF Steady
<1>10. Apart'
  BY <1>1, <1>2, <1>3, <1>6, ThinnedApart DEF Steady
<1>11. ASSUME Turns
       PROVE  Turns'
  <2>1. Refreshes(jar', dep'.scope) = Refreshes(jar, dep.scope) /\ \A q : After(jar', q, dep'.scope) = After(jar, q, dep.scope)
    <3>1. PICK z, i, j : z = dep.scope /\ i = jar /\ j = jar'
      OBVIOUS
    <3>2. \A n \in Variants : j[<<"refresh", MarkAt(z, n)>>] = i[<<"refresh", MarkAt(z, n)>>]
      BY <3>1, <1>1, <1>6, MarksOf
    <3>3. Refreshes(j, z) = Refreshes(i, z) /\ \A q : After(j, q, z) = After(i, q, z)
      BY <3>2 DEF Refreshes, After
    <3>4. dep'.scope = z
      BY <3>1, <1>2
    <3> QED BY <3>1, <3>3, <3>4
  <2>2. Thinned(Refreshes(jar, dep.scope), Refreshes(jar', dep'.scope), dep.variant)
    BY <2>1, <1>11, UnchangedIsThinned DEF Turns
  <2>3. ASSUME NEW u \in Tabs, Arriving(net[u])
        PROVE  Thinned(After(jar, net[u], dep.scope), After(jar', net[u], dep'.scope), dep.variant)
    BY <2>1, <2>3, <1>11, UnchangedIsThinned DEF Turns, Good
  <2>4. SameGrants /\ Len(grants') = Len(grants)
    BY <1>3 DEF Steady
  <2> QED BY <2>2, <2>3, <2>4, <1>1, <1>2, <1>11, TurnsThinned
<1>12. Known(app, grants)' /\ ForeignFine'
  BY <1>1, <1>2 DEF Known, ForeignFine, IInv, Always
<1>13. Always'
  BY <1>1, <1>2, <1>3, <1>8, <1>9, <1>10, <1>12 DEF Always, Steady
<1>14. NoneLeft => NoneLeft'
  BY <1>2, <1>6, ThinnedLeavesNone
<1> QED BY <1>1, <1>2, <1>11, <1>13, <1>14 DEF IInv

\* A grant ages, and the cookies that hold its tokens go.
LEMMA ExpireKeeps ==
  ASSUME WireAssumption, IInv, NEW g \in 1..Len(grants), Expire(g)
  PROVE  IInv'
<1>1. /\ GrantsFine /\ JarFine /\ NetFine /\ Apart /\ Known(app, grants) /\ dep \in Settings
      /\ dep.variant \in Variants /\ dep.scope \in Scopes
      /\ ~shadowed => NoneLeft
      /\ InTurn => Turns
  BY DEF IInv, Always
<1>2. /\ dep' = dep /\ foreign' = foreign /\ net' = net /\ app' = app
      /\ shadowed' = shadowed /\ (InTurn' => InTurn)
  BY DEF Expire, InTurn
<1>3. /\ GrantsFine' /\ SameGrants /\ Len(grants') = Len(grants) /\ sessions' = sessions
      /\ \A h \in 1..Len(grants) : grants'[h].age = IF h = g THEN grants[g].age + 1 ELSE grants[h].age
      /\ grants[g].age \in 0..2
      /\ \A h \in 1..Len(grants) : h < g => grants[h].age > grants[g].age
  BY <1>1, Ageing
<1>4. PICK gs, hs, i, j : gs = grants /\ hs = grants' /\ i = jar /\ j = jar'
  OBVIOUS
<1>5. Len(gs) \in Nat /\ Len(hs) = Len(gs) /\ g \in 1..Len(gs) /\ g # 0
  BY <1>1, <1>3, <1>4 DEF GrantsFine
<1>6. j = [c \in Cookies |->
             IF (c[1] = "access" /\ i[c] = g) \/ (c[1] = "refresh" /\ i[c] = g /\ gs[g].age = 1) THEN 0 ELSE i[c]]
  BY <1>4 DEF Expire
<1>7. /\ j = [c \in Cookies |-> j[c]]
      /\ \A b \in Bases, n \in Marks :
           j[<<b, n>>] = IF (b = "access" /\ i[<<b, n>>] = g) \/ (b = "refresh" /\ i[<<b, n>>] = g /\ gs[g].age = 1)
                         THEN 0 ELSE i[<<b, n>>]
  BY <1>6, CookieNames
<1>8. \A n \in Marks :
        /\ j[<<"csrf", n>>] = i[<<"csrf", n>>]
        /\ j[<<"access", n>>] = IF i[<<"access", n>>] = g THEN 0 ELSE i[<<"access", n>>]
        /\ j[<<"refresh", n>>] = IF i[<<"refresh", n>>] = g /\ gs[g].age = 1 THEN 0 ELSE i[<<"refresh", n>>]
  BY <1>7 DEF Bases
<1>9. \A n \in Marks :
        /\ i[<<"csrf", n>>] \in {0, 1}
        /\ Known(i[<<"refresh", n>>], gs)
        /\ i[<<"refresh", n>>] # 0 => gs[i[<<"refresh", n>>]].age < 2
        /\ i[<<"access", n>>] =
             IF i[<<"refresh", n>>] # 0 /\ gs[i[<<"refresh", n>>]].age = 0 THEN i[<<"refresh", n>>] ELSE 0
  BY <1>1, <1>4 DEF JarFine
<1>10. ASSUME NEW n \in Marks
       PROVE  /\ j[<<"csrf", n>>] \in {0, 1}
              /\ Known(j[<<"refresh", n>>], hs)
              /\ j[<<"refresh", n>>] # 0 => hs[j[<<"refresh", n>>]].age < 2
              /\ j[<<"access", n>>] =
                   IF j[<<"refresh", n>>] # 0 /\ hs[j[<<"refresh", n>>]].age = 0 THEN j[<<"refresh", n>>] ELSE 0
  <2>1. PICK r, a : r = i[<<"refresh", n>>] /\ a = i[<<"access", n>>]
    OBVIOUS
  <2>2. r = 0 \/ r \in 1..Len(gs)
    BY <2>1, <1>9 DEF Known
  <2>3. j[<<"csrf", n>>] \in {0, 1}
    BY <1>8, <1>9
  <2>4. CASE r = g
    <3>1. a = IF gs[g].age = 0 THEN g ELSE 0
      BY <2>1, <2>4, <1>5, <1>9
    <3>2. hs[g].age = gs[g].age + 1 /\ gs[g].age \in 0..2 /\ gs[g].age < 2
      BY <1>3, <1>4, <1>5, <1>9, <2>1, <2>4
    <3>3. /\ j[<<"access", n>>] = 0
          /\ j[<<"refresh", n>>] = IF gs[g].age = 1 THEN 0 ELSE g
      BY <2>1, <2>4, <3>1, <1>8
    <3>4. Known(j[<<"refresh", n>>], hs)
      BY <3>3, <1>5 DEF Known
    <3>5. gs[g].age = 1 \/ gs[g].age = 0
      BY <3>2
    <3> QED BY <3>2, <3>3, <3>4, <3>5, <2>3
  <2>5. CASE r # g
    <3>1. a # g
      BY <2>1, <2>5, <1>5, <1>9
    <3>2. j[<<"refresh", n>>] = r /\ j[<<"access", n>>] = a
      BY <2>1, <2>5, <3>1, <1>8
    <3>3. r # 0 => hs[r].age = gs[r].age
      BY <2>2, <2>5, <1>3, <1>4
    <3>4. Known(r, hs)
      BY <2>2, <1>5 DEF Known
    <3> QED BY <3>2, <3>3, <3>4, <2>1, <2>3, <1>9
  <2> QED BY <2>4, <2>5
<1>11. JarFine'
  <2>1. j = jar' /\ hs = grants'
    BY <1>4
  <2> QED BY <2>1, <1>7, <1>10 DEF JarFine
\* No answer carries the grant that ages.
<1>12. \A u \in Tabs : ~PutBy(net[u], g)
  <2>1. ASSUME NEW u \in Tabs, PutBy(net[u], g)
        PROVE  FALSE
    <3>1. PICK n \in Marks : <<"refresh", n>> \in DOMAIN net[u].cookies /\ net[u].cookies[<<"refresh", n>>] = g
      BY <2>1 DEF PutBy
    <3>2. net[u].phase = "answered"
      BY <2>1 DEF PutBy
    <3>3. \A c \in DOMAIN net[u].cookies : c[1] = "csrf" \/ net[u].cookies[c] # g
      BY <3>2 DEF Expire
    <3> QED BY <3>1, <3>3
  <2> QED BY <2>1
<1>13. NetFine'
  <2>1. \A u \in Tabs : \A h \in 1..Len(grants) : PutBy(net[u], h) => grants'[h].age = grants[h].age
    BY <1>3, <1>12
  <2> QED BY <2>1, <1>1, <1>2, <1>3, NetWaits
<1>14. Apart'
  <2>1. \A n \in Marks : jar'[<<"refresh", n>>] \in {0, jar[<<"refresh", n>>]}
    BY <1>4, <1>8
  <2> QED BY <2>1, <1>1, <1>2, <1>3, ThinnedApart
\* Of what the browser will have, none is older than a grant that expires.
<1>15. ASSUME NEW f, NEW h, NEW v \in Variants, Ordered(f, v),
              \A n \in Variants : /\ Known(f[n], gs)
                                  /\ f[n] # 0 => gs[f[n]].age < 2
                                  /\ h[n] = IF f[n] = g /\ gs[g].age = 1 THEN 0 ELSE f[n]
       PROVE  Thinned(f, h, v)
  <2>1. gs[g].age # 1 \/ gs[g].age = 1
    OBVIOUS
  <2>2. \A n \in Variants : f[n] \in Nat
    BY <1>15, KnownIsNat
  <2>3. CASE gs[g].age # 1
    <3>1. \A n \in Variants : h[n] = f[n]
      BY <2>3, <1>15
    <3>2. \A n \in Variants : h[n] \in {0, f[n]}
      BY <3>1
    <3>3. Ordered(h, v)
      BY <3>2, <2>2, <1>15, GapsAreFine
    <3>4. {"host", "secure", "plain"} \subseteq Variants
      BY DEF Variants
    <3>5. Shown(h, v) = Shown(f, v)
      BY <3>1, <3>4 DEF Shown
    <3> QED BY <3>3, <3>5 DEF Thinned
  <2>4. CASE gs[g].age = 1
    <3>1. ASSUME NEW n \in Variants, f[n] # 0
          PROVE  ~(f[n] < g)
      <4>1. f[n] \in 1..Len(gs) /\ gs[f[n]].age < 2
        BY <3>1, <1>15 DEF Known
      <4>2. f[n] < g => gs[f[n]].age > 1
        BY <4>1, <2>4, <1>3, <1>4
      <4>3. gs[f[n]].age \in 0..3
        BY <4>1, <1>1, <1>4 DEF GrantsFine
      <4> QED BY <4>1, <4>2, <4>3
    <3>2. \A n \in Variants : f[n] \in Nat /\ h[n] = IF f[n] = g THEN 0 ELSE f[n]
      BY <2>2, <2>4, <1>15
    <3>3. g \in Nat \ {0}
      BY <1>5
    <3>4. Ordered(h, v) /\ Shown(h, v) \in {0, Shown(f, v)}
      BY <3>1, <3>2, <3>3, <1>15, OnlyTheNewestExpires
    <3> QED BY <3>4 DEF Thinned
  <2> QED BY <2>1, <2>3, <2>4
<1>16. ASSUME Turns
       PROVE  Turns'
  <2>1. Thinned(Refreshes(jar, dep.scope), Refreshes(jar', dep'.scope), dep.variant)
    <3>1. PICK f, h, v, z : z = dep.scope /\ f = Refreshes(i, z) /\ h = Refreshes(j, z) /\ v = dep.variant
      OBVIOUS
    <3>2. \A n \in Variants : /\ MarkAt(z, n) \in Marks
                              /\ f[n] = i[<<"refresh", MarkAt(z, n)>>] /\ h[n] = j[<<"refresh", MarkAt(z, n)>>]
      BY <3>1, <1>1, MarksOf DEF Refreshes
    <3>3. \A n \in Variants : /\ Known(f[n], gs)
                              /\ f[n] # 0 => gs[f[n]].age < 2
                              /\ h[n] = IF f[n] = g /\ gs[g].age = 1 THEN 0 ELSE f[n]
      BY <3>2, <1>8, <1>9
    <3>4. Ordered(f, v) /\ v \in Variants
      BY <3>1, <1>1, <1>4, <1>16 DEF Turns
    <3>5. Thinned(f, h, v)
      BY <3>3, <3>4, <1>15
    <3>6. dep'.scope = z
      BY <3>1, <1>2
    <3> QED BY <3>1, <3>5, <3>6, <1>4
  <2>2. ASSUME NEW u \in Tabs, Arriving(net[u])
        PROVE  Thinned(After(jar, net[u], dep.scope), After(jar', net[u], dep'.scope), dep.variant)
    <3>1. PICK q, f, h, v, z : /\ q = net[u] /\ v = dep.variant /\ z = dep.scope
                               /\ f = After(i, q, z) /\ h = After(j, q, z)
      OBVIOUS
    <3>2. Ordered(f, v) /\ v \in Variants
      BY <3>1, <2>2, <1>1, <1>4, <1>16 DEF Turns, Good
    <3>3. q.phase = "answered" /\ RequestFine(q, gs, sessions)
      BY <3>1, <2>2, <1>1, <1>4 DEF NetFine, Arriving
    <3>4. CookiesFine(q.cookies, q.effect, gs)
      BY <3>3 DEF RequestFine, AnswerFine
    <3>5. ASSUME NEW n \in Variants
          PROVE  /\ Known(f[n], gs)
                 /\ f[n] # 0 => gs[f[n]].age < 2
                 /\ h[n] = IF f[n] = g /\ gs[g].age = 1 THEN 0 ELSE f[n]
      <4>0. PICK m \in Marks : m = MarkAt(z, n)
        BY <3>1, <1>1, MarksOf
      <4>1. CASE q.page # "app" /\ <<"refresh", m>> \in DOMAIN q.cookies
        <5>1. f[n] = q.cookies[<<"refresh", m>>] /\ h[n] = f[n]
          BY <4>0, <4>1, <3>1 DEF After
        <5>2. f[n] # g
          BY <5>1, <4>1, <3>1, <3>3, <1>12 DEF PutBy
        <5>3. Known(f[n], gs) /\ (f[n] # 0 => gs[f[n]].age = 0)
          BY <5>1, <4>1, <3>4 DEF CookiesFine
        <5> QED BY <5>1, <5>2, <5>3
      <4>2. CASE ~(q.page # "app" /\ <<"refresh", m>> \in DOMAIN q.cookies)
        <5>1. f[n] = i[<<"refresh", m>>] /\ h[n] = j[<<"refresh", m>>]
          BY <4>0, <4>2, <3>1 DEF After
        <5> QED BY <5>1, <1>8, <1>9
      <4> QED BY <4>1, <4>2
    <3>6. Thinned(f, h, v)
      BY <3>2, <3>5, <1>15
    <3>7. dep'.scope = z
      BY <3>1, <1>2
    <3> QED BY <3>1, <3>6, <3>7, <1>4
  <2> QED BY <2>1, <2>2, <1>1, <1>2, <1>3, <1>16, TurnsThinned
<1>17. Known(app, grants)' /\ ForeignFine'
  BY <1>1, <1>2, <1>3 DEF Known, ForeignFine, IInv, Always
<1>18. Always'
  BY <1>1, <1>2, <1>3, <1>11, <1>13, <1>14, <1>17 DEF Always
<1>19. NoneLeft => NoneLeft'
  <2>1. \A n \in Marks : jar'[<<"refresh", n>>] \in {0, jar[<<"refresh", n>>]}
    BY <1>4, <1>8
  <2> QED BY <2>1, <1>2, ThinnedLeavesNone
<1> QED BY <1>1, <1>2, <1>16, <1>18, <1>19 DEF IInv

(***************************************************************************)
(* A change of the cookies' names.                                         *)
(***************************************************************************)
\* A change that shadows nothing finds none of the cookies that would be read in front.
LEMMA NotShadowedIsClear ==
  ASSUME NEW f, NEW o, ~Shadows(o),
         \A n \in Variants : \A S : f[n] # 0 /\ n \in S => HeldAs(S)
  PROVE  Clear(f, dep.variant, o.variant)
<1>1. "host" \in Variants /\ "secure" \in Variants /\ "plain" \in Variants
  BY DEF Variants
<1>2. \A n \in Variants : f[n] # 0 => /\ n = "host" => HeldAs({"host"}) /\ HeldAs({"host", "secure"})
                                      /\ n = "secure" => HeldAs({"host", "secure"})
                                      /\ n = "plain" => HeldAs({"plain"})
  OBVIOUS
<1> QED BY <1>1, <1>2 DEF Shadows, Clear

\* What is in the jar is held.
LEMMA JarIsHeld ==
  ASSUME NEW m \in Marks, jar[<<"refresh", m>>] # 0
  PROVE  /\ \A S : m \in S => Held(S)
         /\ \A S : m[1] \in S => HeldAs(S)
BY DEF Held, HeldAs

\* What an answer carries is held.
LEMMA AnswerIsHeld ==
  ASSUME NEW m \in Marks, NEW t \in Tabs, net[t].phase = "answered",
         <<"refresh", m>> \in DOMAIN net[t].cookies, net[t].cookies[<<"refresh", m>>] # 0
  PROVE  /\ \A S : m \in S => Held(S)
         /\ \A S : m[1] \in S => HeldAs(S)
BY DEF Held, HeldAs

\* A change of scope that leaves nothing behind finds no cookie it would not write over.
LEMMA NothingStrays ==
  ASSUME WireAssumption, NEW o, ~LeavesBehind(o)
  PROVE  /\ \A m \in Marks : Stray(o.scope, m) => jar[<<"refresh", m>>] = 0
         /\ \A t \in Tabs : net[t].phase = "answered" => Tidy(o.scope, net[t].cookies)
<1>1. PICK s : s = {m \in Marks : m # Mark(o, m[1])}
  OBVIOUS
<1>2. ~Held(s)
  BY <1>1 DEF LeavesBehind
<1>3. \A m \in Marks : Stray(o.scope, m) => m \in s
  BY <1>1, MarksOf DEF Stray
<1>4. \A m \in Marks : Stray(o.scope, m) => jar[<<"refresh", m>>] = 0
  BY <1>2, <1>3, JarIsHeld
<1>5. ASSUME NEW t \in Tabs, net[t].phase = "answered", NEW m \in Marks, Stray(o.scope, m),
             <<"refresh", m>> \in DOMAIN net[t].cookies
      PROVE  net[t].cookies[<<"refresh", m>>] = 0
  BY <1>2, <1>3, <1>5, AnswerIsHeld
<1> QED BY <1>4, <1>5 DEF Tidy

\* The mark of a variant is the same in two scopes, or it strays in each of them
\* from that of the other.
LEMMA SameOrStray ==
  ASSUME WireAssumption, NEW y \in Scopes, NEW z \in Scopes, NEW n \in Variants
  PROVE  MarkAt(z, n) = MarkAt(y, n) \/ (Stray(y, MarkAt(z, n)) /\ Stray(z, MarkAt(y, n)))
BY MarksOf DEF Stray

\* The host changes the names of its cookies.
LEMMA RedeployKeeps ==
  ASSUME WireAssumption, IInv, Redeploy
  PROVE  IInv'
<1>1. /\ GrantsFine /\ JarFine /\ NetFine /\ Apart /\ Known(app, grants) /\ dep \in Settings
      /\ dep.variant \in Variants /\ dep.scope \in Scopes
      /\ ~shadowed => NoneLeft
      /\ InTurn => Turns
  BY DEF IInv, Always
<1>2. PICK o \in Options :
        /\ o # [variant |-> dep.variant, scope |-> dep.scope]
        /\ dep.changes > 0
        /\ shadowed' = (shadowed \/ Shadows(o) \/ LeavesBehind(o))
        /\ dep' = [dep EXCEPT !.variant = o.variant, !.scope = o.scope, !.changes = @ - 1]
  BY DEF Redeploy
<1>0. PICK v, w, z, y : v = dep.variant /\ w = o.variant /\ z = dep.scope /\ y = o.scope
  OBVIOUS
<1>3. /\ sessions' = sessions /\ grants' = grants /\ foreign' = foreign /\ net' = net /\ app' = app /\ jar' = jar
      /\ \A t \in Tabs : net[t].phase # "sent"
      /\ overlap' = overlap /\ lost' = lost
  BY DEF Redeploy
<1>4. dep' \in Settings /\ dep'.variant = w /\ dep'.scope = y /\ dep'.csrf = dep.csrf /\ w \in Variants /\ y \in Scopes
  <2>1. dep.changes \in Nat
    BY <1>1 DEF Settings
  <2>2. dep.changes - 1 \in Nat
    BY <2>1, <1>2
  <2>3. o.variant \in {"host", "secure", "plain"} /\ o.scope \in Scopes
    BY DEF Options, Variants
  <2>4. o.variant \in Variants
    BY <2>3 DEF Variants
  <2> QED BY <2>2, <2>3, <2>4, <1>0, <1>1, <1>2 DEF Settings
<1>5. Steady
  BY <1>3, UnrevokedIsSteady
<1>6. JarFine'
  BY <1>1, <1>3, <1>5, JarWaits DEF Steady
<1>7. NetFine'
  <2>1. \A u \in Tabs : \A g \in 1..Len(grants) : PutBy(net[u], g) => grants'[g].age = grants[g].age
    BY <1>3
  <2> QED BY <2>1, <1>1, <1>3, <1>5, NetWaits DEF Steady
<1>8. Apart'
  <2>1. \A n \in Marks : jar'[<<"refresh", n>>] \in {0, jar[<<"refresh", n>>]}
    BY <1>3
  <2> QED BY <2>1, <1>1, <1>3, <1>5, ThinnedApart DEF Steady
<1>9. Known(app, grants)' /\ ForeignFine'
  BY <1>1, <1>3, <1>4 DEF Known, ForeignFine, IInv, Always
\* What strays in the new scope is nowhere.
<1>10. ASSUME ~shadowed'
       PROVE  /\ \A m \in Marks : Stray(y, m) => jar[<<"refresh", m>>] = 0
              /\ \A t \in Tabs : net[t].phase = "answered" => Tidy(y, net[t].cookies)
  <2>1. ~LeavesBehind(o)
    BY <1>2, <1>10
  <2> QED BY <2>1, <1>0, NothingStrays
<1>11. ASSUME ~shadowed'
       PROVE  NoneLeft'
  <2>1. /\ \A m \in Marks : Stray(y, m) => jar'[<<"refresh", m>>] = 0
        /\ \A t \in Tabs : net'[t].phase = "answered" => Tidy(y, net'[t].cookies)
    BY <1>3, <1>10, <1>11
  <2> QED BY <2>1, <1>4 DEF NoneLeft, Tidy, Stray, MarkAt
<1>12. ASSUME InTurn'
       PROVE  Turns'
  <2>1. Turns /\ NoneLeft /\ ~Shadows(o) /\ ~shadowed'
    BY <1>1, <1>2, <1>3, <1>12 DEF InTurn
  <2>2. ASSUME NEW f, \A n \in Variants : Known(f[n], grants),
               \A n \in Variants : \A S : f[n] # 0 /\ n \in S => HeldAs(S), Ordered(f, v)
        PROVE  Ordered(f, w) /\ Shown(f, w) \in {0, Shown(f, v)}
    <3>1. Clear(f, v, w)
      BY <2>1, <2>2, <1>0, NotShadowedIsClear
    <3>2. \A n \in Variants : f[n] \in Nat
      BY <2>2, KnownIsNat
    <3>3. CASE w = v
      BY <3>3, <2>2
    <3>4. CASE w # v
      <4>1. v \in Variants
        BY <1>0, <1>1
      <4> QED BY <4>1, <3>1, <3>2, <3>4, <1>4, <2>2, RenamedInOrder
    <3> QED BY <3>3, <3>4
  <2>3. ASSUME NEW f, \A n \in Variants : Known(f[n], grants),
               \A n \in Variants : \A S : f[n] # 0 /\ n \in S => HeldAs(S), Good(f, v, grants, sessions)
        PROVE  Good(f, w, grants', sessions')
    <3>1. Ordered(f, w) /\ Shown(f, w) \in {0, Shown(f, v)}
      BY <2>2, <2>3 DEF Good
    <3>2. Usable(Shown(f, v), grants, sessions) /\ Usable(0, grants, sessions)
      BY <2>3 DEF Good, Usable
    <3>3. Usable(Shown(f, w), grants, sessions)
      BY <3>1, <3>2
    <3> QED BY <3>1, <3>3, <1>3 DEF Good
  <2>4. z \in Scopes /\ \A m \in Marks : /\ Stray(z, m) \/ Stray(y, m) => jar[<<"refresh", m>>] = 0
    BY <2>1, <1>0, <1>1, <1>10 DEF NoneLeft
  <2>5. ASSUME NEW t \in Tabs, net[t].phase = "answered"
        PROVE  \A m \in Marks : (Stray(z, m) \/ Stray(y, m)) /\ <<"refresh", m>> \in DOMAIN net[t].cookies
                                  => net[t].cookies[<<"refresh", m>>] = 0
    BY <2>1, <2>5, <1>0, <1>10 DEF NoneLeft, Tidy
  <2>6. PICK f : f = Refreshes(jar, z)
    OBVIOUS
  \* The cookies are the same in both scopes.
  <2>7. f = Refreshes(jar, y)
    <3>1. ASSUME NEW n \in Variants
          PROVE  jar[<<"refresh", MarkAt(z, n)>>] = jar[<<"refresh", MarkAt(y, n)>>]
      <4>1. MarkAt(z, n) \in Marks /\ MarkAt(y, n) \in Marks
        BY <2>4, <1>4, MarksOf
      <4> QED BY <4>1, <2>4, <1>4, SameOrStray
    <3> QED BY <3>1, <2>6 DEF Refreshes
  <2>8. \A n \in Variants : Known(f[n], grants) /\ f[n] = jar[<<"refresh", MarkAt(z, n)>>]
    BY <2>4, <2>6, <1>1, RefreshesAreKnown
  <2>9. ASSUME NEW n \in Variants, NEW S, f[n] # 0, n \in S
        PROVE  HeldAs(S)
    <3>1. PICK m \in Marks : m = MarkAt(z, n) /\ m[1] = n
      BY <2>4, MarksOf
    <3>2. jar[<<"refresh", m>>] # 0
      BY <3>1, <2>8, <2>9
    <3> QED BY <3>1, <3>2, <2>9, JarIsHeld
  <2>10. Ordered(Refreshes(jar', dep'.scope), dep'.variant)
    <3>1. Ordered(f, v)
      BY <2>1, <2>6, <1>0 DEF Turns
    <3>2. Ordered(f, w)
      BY <3>1, <2>2, <2>8, <2>9
    <3> QED BY <3>2, <2>7, <1>3, <1>4
  <2>11. ASSUME \A u \in Tabs : ~Arriving(net'[u])
         PROVE  Good(Refreshes(jar', dep'.scope), dep'.variant, grants', sessions') /\ Usable(app', grants', sessions')
    <3>1. Good(f, v, grants, sessions) /\ Usable(app, grants, sessions)
      BY <2>1, <2>6, <2>11, <1>0, <1>3 DEF Turns
    <3>2. Good(f, w, grants', sessions')
      BY <3>1, <2>3, <2>8, <2>9
    <3> QED BY <3>1, <3>2, <2>7, <1>3, <1>4
  <2>12. ASSUME NEW u \in Tabs, Arriving(net'[u])
         PROVE  /\ Good(After(jar', net'[u], dep'.scope), dep'.variant, grants', sessions')
                /\ Usable(AppAfter(app', net'[u]), grants', sessions')
    <3>1. PICK q, h : q = net[u] /\ h = After(jar, q, z)
      OBVIOUS
    <3>2. net'[u] = q /\ Arriving(q)
      BY <3>1, <2>12, <1>3
    <3>3. Good(h, v, grants, sessions) /\ Usable(AppAfter(app, q), grants, sessions)
      BY <3>1, <3>2, <2>1, <1>0 DEF Turns
    <3>4. RequestFine(q, grants, sessions) /\ q.phase = "answered"
      BY <3>1, <3>2, <1>1 DEF NetFine, Arriving
    <3>5. \A n \in Variants :
            /\ Known(h[n], grants)
            /\ h[n] = IF q.page # "app" /\ <<"refresh", MarkAt(z, n)>> \in DOMAIN q.cookies
                      THEN q.cookies[<<"refresh", MarkAt(z, n)>>] ELSE jar[<<"refresh", MarkAt(z, n)>>]
      BY <3>1, <3>4, <2>4, <1>1, AfterIsKnown
    <3>6. ASSUME NEW n \in Variants, NEW S, h[n] # 0, n \in S
          PROVE  HeldAs(S)
      <4>0. PICK m \in Marks : m = MarkAt(z, n) /\ m[1] = n
        BY <2>4, MarksOf
      <4>1. CASE q.page # "app" /\ <<"refresh", m>> \in DOMAIN q.cookies
        <5>1. q.cookies[<<"refresh", m>>] # 0
          BY <4>0, <4>1, <3>5, <3>6
        <5> QED BY <5>1, <4>0, <4>1, <3>1, <3>4, <3>6, AnswerIsHeld
      <4>2. CASE ~(q.page # "app" /\ <<"refresh", m>> \in DOMAIN q.cookies)
        <5>1. jar[<<"refresh", m>>] # 0
          BY <4>0, <4>2, <3>5, <3>6
        <5> QED BY <5>1, <4>0, <3>6, JarIsHeld
      <4> QED BY <4>1, <4>2
    <3>7. Good(h, w, grants', sessions')
      BY <3>3, <3>5, <3>6, <2>3
    <3>8. h = After(jar, q, y)
      <4>1. ASSUME NEW n \in Variants, NEW x \in {y, z}, MarkAt(z, n) # MarkAt(y, n)
            PROVE  (IF q.page # "app" /\ <<"refresh", MarkAt(x, n)>> \in DOMAIN q.cookies
                    THEN q.cookies[<<"refresh", MarkAt(x, n)>>] ELSE jar[<<"refresh", MarkAt(x, n)>>]) = 0
        <5>1. PICK m \in Marks : m = MarkAt(x, n)
          BY <2>4, <1>4, MarksOf
        <5>2. Stray(z, m) \/ Stray(y, m)
          BY <5>1, <4>1, <2>4, <1>4, SameOrStray
        <5>3. jar[<<"refresh", m>>] = 0
          BY <5>2, <2>4
        <5>4. <<"refresh", m>> \in DOMAIN q.cookies => q.cookies[<<"refresh", m>>] = 0
          BY <5>2, <2>5, <3>1, <3>4
        <5> QED BY <5>1, <5>3, <5>4
      <4>2. ASSUME NEW n \in Variants
            PROVE  (IF q.page # "app" /\ <<"refresh", MarkAt(z, n)>> \in DOMAIN q.cookies
                    THEN q.cookies[<<"refresh", MarkAt(z, n)>>] ELSE jar[<<"refresh", MarkAt(z, n)>>])
                 = (IF q.page # "app" /\ <<"refresh", MarkAt(y, n)>> \in DOMAIN q.cookies
                    THEN q.cookies[<<"refresh", MarkAt(y, n)>>] ELSE jar[<<"refresh", MarkAt(y, n)>>])
        <5>1. CASE MarkAt(z, n) = MarkAt(y, n)
          BY <5>1
        <5>2. CASE MarkAt(z, n) # MarkAt(y, n)
          BY <5>2, <4>1
        <5> QED BY <5>1, <5>2
      <4> QED BY <4>2, <3>1 DEF After
    <3> QED BY <3>1, <3>2, <3>3, <3>7, <3>8, <1>3, <1>4
  <2>13. \A u \in Tabs : ~Waiting(net'[u])
    BY <1>3 DEF Waiting
  <2>14. \A t, u \in Tabs : (Waiting(net'[t]) \/ Arriving(net'[t])) /\ (Waiting(net'[u]) \/ Arriving(net'[u])) => t = u
    BY <2>1, <1>3 DEF Turns
  <2> QED BY <2>10, <2>11, <2>12, <2>13, <2>14 DEF Turns
<1>13. Always'
  BY <1>4, <1>5, <1>6, <1>7, <1>8, <1>9 DEF Always, Steady
<1> QED BY <1>11, <1>12, <1>13 DEF IInv

(***************************************************************************)
(* The invariant.                                                          *)
(***************************************************************************)
RequestKinds(t) ==
  RateLimited(t) \/ CSRFRefused(t) \/ GateRefused(t) \/ Login(t) \/ Refresh(t) \/ Logout(t)
  \/ RevokeSession(t) \/ DeleteAccount(t) \/ CleanupSessions(t) \/ OtherRoute(t)

\* Every step keeps the invariant.
LEMMA StepKeeps ==
  ASSUME IInv, WireAssumption, [Next]_vars
  PROVE  IInv'
<1>1. ASSUME NEW t \in Tabs, RequestKinds(t) PROVE IInv'
  BY <1>1, RefusalsKeep, LoginKeeps, RefreshKeeps, LogoutKeeps, RevokeSessionKeeps,
     CleanupKeeps, OtherRouteKeeps DEF RequestKinds
<1>2. ASSUME NEW t \in Tabs, Send(t) \/ Receive(t) \/ Lose(t) PROVE IInv'
  BY <1>2, SendKeeps, ReceiveKeeps, LoseKeeps
<1>3. ASSUME NEW g \in DOMAIN grants, Expire(g) PROVE IInv'
  <2>1. g \in 1..Len(grants)
    BY DEF IInv, Always, GrantsFine
  <2> QED BY <2>1, <1>3, ExpireKeeps
<1>4. CASE ExpireCSRF
  BY <1>4, ExpireCSRFKeeps
<1>5. CASE Redeploy
  BY <1>5, RedeployKeeps
<1>6. CASE UNCHANGED vars
  <2>1. /\ dep' = dep /\ jar' = jar /\ app' = app /\ sessions' = sessions /\ grants' = grants /\ net' = net
        /\ foreign' = foreign /\ shadowed' = shadowed
        /\ InTurn' => InTurn
    BY <1>6 DEF vars, InTurn
  <2>2. /\ GrantsFine /\ JarFine /\ NetFine /\ Apart /\ Known(app, grants) /\ dep \in Settings
        /\ dep.variant \in Variants /\ dep.scope \in Scopes /\ ForeignFine
        /\ ~shadowed => NoneLeft
        /\ InTurn => Turns
    BY DEF IInv, Always
  <2>3. Steady
    BY <2>1, UnrevokedIsSteady
  <2>4. JarFine'
    BY <2>1, <2>2, <2>3, JarWaits DEF Steady
  <2>5. NetFine'
    <3>1. \A u \in Tabs : \A g \in 1..Len(grants) : PutBy(net[u], g) => grants'[g].age = grants[g].age
      BY <2>1
    <3> QED BY <3>1, <2>1, <2>2, <2>3, NetWaits DEF Steady
  <2>6. Apart'
    <3>1. \A n \in Marks : jar'[<<"refresh", n>>] \in {0, jar[<<"refresh", n>>]}
      BY <2>1
    <3> QED BY <3>1, <2>1, <2>2, <2>3, ThinnedApart DEF Steady
  <2>7. Turns => Turns'
    BY <2>1, <2>2, <2>3, TurnsLast
  <2>8. Known(app, grants)' /\ ForeignFine'
    BY <2>1, <2>2 DEF Known, ForeignFine
  <2>9. Always'
    BY <2>1, <2>2, <2>3, <2>4, <2>5, <2>6, <2>8 DEF Always, Steady
  <2>10. NoneLeft => NoneLeft'
    <3>1. \A n \in Marks : jar'[<<"refresh", n>>] \in {0, jar[<<"refresh", n>>]}
      BY <2>1
    <3> QED BY <3>1, <2>1, ThinnedLeavesNone
  <2> QED BY <2>1, <2>2, <2>7, <2>9, <2>10 DEF IInv
<1> QED BY <1>1, <1>2, <1>3, <1>4, <1>5, <1>6 DEF Next, RequestKinds

\* Nothing is held in the beginning.
LEMMA InitHolds ==
  ASSUME WireAssumption, Init
  PROVE  IInv
<1>1. /\ dep \in Settings /\ app = 0 /\ sessions = <<>> /\ grants = <<>> /\ foreign = {}
      /\ jar = [c \in Cookies |-> 0] /\ net = [t \in Tabs |-> Idle]
      /\ MaxGrants \in Nat
  BY DEF Init, WireAssumption
<1>2. dep.variant \in Variants /\ dep.scope \in Scopes
  BY <1>1 DEF Settings, Variants
<1>3. Len(grants) = 0 /\ Len(sessions) = 0 /\ 1..0 = {}
  BY <1>1
<1>4. GrantsFine
  BY <1>1, <1>3 DEF GrantsFine
<1>5. \A n \in Marks, b \in Bases : jar[<<b, n>>] = 0
  BY <1>1, CookieNames
<1>6. {"access", "refresh", "csrf"} \subseteq Bases
  BY DEF Bases
<1>7. JarFine
  BY <1>1, <1>5, <1>6 DEF JarFine, Known
<1>8. \A t \in Tabs : net[t] = Idle /\ net[t].phase = "idle"
  BY <1>1 DEF Idle
<1>9. NetFine
  BY <1>1, <1>8 DEF NetFine, RequestFine
<1>10. Apart
  BY <1>3 DEF Apart
<1>11. Turns
  <2>1. \A t \in Tabs : ~Waiting(net[t]) /\ ~Arriving(net[t])
    BY <1>8 DEF Waiting, Arriving
  <2>2. \A n \in Variants : Refreshes(jar, dep.scope)[n] = 0
    BY <1>2, <1>5, <1>6, MarksOf DEF Refreshes
  <2>3. {"host", "secure", "plain"} \subseteq Variants
    BY DEF Variants
  <2>4. Ordered(Refreshes(jar, dep.scope), dep.variant) /\ Shown(Refreshes(jar, dep.scope), dep.variant) = 0
    BY <2>2, <2>3 DEF Ordered, Newer, Shown
  <2>5. Good(Refreshes(jar, dep.scope), dep.variant, grants, sessions) /\ Usable(app, grants, sessions)
    BY <2>4, <1>1 DEF Good, Usable
  <2> QED BY <2>1, <2>4, <2>5 DEF Turns
<1>12. Known(app, grants) /\ ForeignFine
  BY <1>1 DEF Known, ForeignFine
<1>13. NoneLeft
  BY <1>5, <1>6, <1>8 DEF NoneLeft
<1> QED BY <1>1, <1>2, <1>4, <1>7, <1>9, <1>10, <1>11, <1>12, <1>13 DEF IInv, Always

\* The invariant holds of every deployment, whatever the requests and the changes of names.
THEOREM Invariant == Spec => []IInv
<1>1. Init => IInv
  BY InitHolds, WireAssumption
<1>2. IInv /\ [Next]_vars => IInv'
  BY StepKeeps, WireAssumption
<1> QED BY <1>1, <1>2, PTL DEF Spec

(***************************************************************************)
(* The pairs of the jar.                                                   *)
(***************************************************************************)
Accesses(j, z) == [n \in Variants |-> j[<<"access", MarkAt(z, n)>>]]

\* With nothing left behind a page would present what is read first of the cookies
\* the site sees, whatever the order the browser lists them in.
LEMMA PresentedIsShown ==
  ASSUME WireAssumption, JarFine, NoneLeft, dep.variant \in Variants, dep.scope \in Scopes, NEW s \in Scopes
  PROVE  /\ Presented("refresh", s) = Shown(Refreshes(jar, dep.scope), dep.variant)
         /\ Presented("access", s) = Shown(Accesses(jar, dep.scope), dep.variant)
<1>1. PICK v, z : v = dep.variant /\ z = dep.scope
  OBVIOUS
<1>2. PICK x : x = [c \in Names |-> IF Reachable(c[2]) THEN Listed(c, s) ELSE 0]
  OBVIOUS
<1>3. \A b \in {"access", "refresh"}, n \in Variants :
        x[<<b, n>>] = IF v # "plain" \/ n = "plain" THEN jar[<<b, MarkAt(z, n)>>] ELSE 0
  <2> SUFFICES ASSUME NEW b \in {"access", "refresh"}, NEW n \in Variants
               PROVE  x[<<b, n>>] = IF v # "plain" \/ n = "plain" THEN jar[<<b, MarkAt(z, n)>>] ELSE 0
    OBVIOUS
  <2>1. PICK c : c = <<b, n>>
    OBVIOUS
  <2>2. c \in Names /\ c[2] = n
    BY <2>1, CookieNames DEF Bases
  <2>3. Listed(c, s) = jar[<<b, MarkAt(z, n)>>]
    BY <2>1, <1>1, ListedInScope
  <2>4. x[c] = IF v # "plain" \/ n = "plain" THEN Listed(c, s) ELSE 0
    BY <2>2, <1>1, <1>2 DEF Reachable
  <2> QED BY <2>1, <2>3, <2>4
<1>4. {"host", "secure", "plain"} \subseteq Variants
  BY DEF Variants
<1>5. PICK r, a : r = Refreshes(jar, z) /\ a = Accesses(jar, z)
  OBVIOUS
<1>6. \A n \in Variants : r[n] = jar[<<"refresh", MarkAt(z, n)>>] /\ a[n] = jar[<<"access", MarkAt(z, n)>>]
  BY <1>5 DEF Refreshes, Accesses
<1>7. CookieValue(x, "refresh") = Shown(r, v)
  BY <1>3, <1>4, <1>6, ReadsFirst DEF Shown
<1>8. CookieValue(x, "access") = Shown(a, v)
  BY <1>3, <1>4, <1>6, ReadsFirst DEF Shown
<1> QED BY <1>1, <1>2, <1>5, <1>7, <1>8 DEF Presented

\* Requests in turn: the access cookie read first is that of the refresh cookie read first, for an older
\* grant's access cookie outlives none of a newer one.
LEMMA PairsAlwaysMatch ==
  ASSUME WireAssumption, IInv
  PROVE  PairsMatch
<1>1. /\ GrantsFine /\ JarFine /\ dep.variant \in Variants /\ dep.scope \in Scopes
      /\ InTurn => Turns /\ NoneLeft
  BY DEF IInv, Always, InTurn
<1> SUFFICES ASSUME NEW s \in Scopes, NEW y \in Scopes, InTurn, Presented("access", s) # 0, Presented("refresh", y) # 0
             PROVE  Sid(Presented("access", s)) = Sid(Presented("refresh", y))
  BY DEF PairsMatch
<1>2. PICK f, a, v, z : z = dep.scope /\ f = Refreshes(jar, z) /\ a = Accesses(jar, z) /\ v = dep.variant
  OBVIOUS
<1>3. Ordered(f, v) /\ v \in Variants
  BY <1>1, <1>2 DEF Turns
<1>4. \A n \in Variants : /\ Known(f[n], grants) /\ f[n] \in Nat /\ MarkAt(z, n) \in Marks
                          /\ f[n] = jar[<<"refresh", MarkAt(z, n)>>] /\ a[n] = jar[<<"access", MarkAt(z, n)>>]
  BY <1>1, <1>2, RefreshesAreKnown, MarksOf DEF Accesses
<1>5. \A n \in Variants : a[n] = IF f[n] # 0 /\ grants[f[n]].age = 0 THEN f[n] ELSE 0
  BY <1>1, <1>4 DEF JarFine
<1>6. \A n, m \in Variants : f[n] # 0 /\ f[m] # 0 /\ f[n] > f[m] /\ grants[f[m]].age = 0 => grants[f[n]].age = 0
  <2> SUFFICES ASSUME NEW n \in Variants, NEW m \in Variants, f[n] # 0, f[m] # 0, f[n] > f[m], grants[f[m]].age = 0
               PROVE  grants[f[n]].age = 0
    OBVIOUS
  <2>1. PICK g, h : g = f[m] /\ h = f[n]
    OBVIOUS
  <2>2. g \in 1..Len(grants) /\ h \in 1..Len(grants) /\ g < h
    BY <2>1, <1>4 DEF Known
  <2>3. grants[g].age >= grants[h].age /\ grants[h].age \in 0..3
    BY <2>2, <1>1 DEF GrantsFine
  <2> QED BY <2>1, <2>3
<1>7. /\ Presented("refresh", y) = Shown(f, v) /\ Presented("access", s) = Shown(a, v)
  BY <1>1, <1>2, PresentedIsShown
<1>8. Shown(a, v) # 0
  BY <1>7
<1>9. {"host", "secure", "plain"} \subseteq Variants
  BY DEF Variants
<1>10. Shown(a, v) = Shown(f, v)
  BY <1>3, <1>4, <1>5, <1>6, <1>8, <1>9 DEF Ordered, Newer, Shown
<1> QED BY <1>7, <1>10

\* The invariant gives the types.
LEMMA Typed ==
  ASSUME IInv, WireAssumption
  PROVE  TypeOK
<1>1. /\ GrantsFine /\ JarFine /\ NetFine /\ Known(app, grants)
  BY DEF IInv, Always
<1>2. PICK n, m : n = Len(sessions) /\ m = Len(grants)
  OBVIOUS
<1>3. n \in Nat /\ m \in Nat /\ m <= MaxGrants /\ MaxGrants \in Nat \ {0}
  BY <1>1, <1>2 DEF GrantsFine, WireAssumption
<1>4. app \in 0..m
  BY <1>1, <1>2, <1>3 DEF Known
<1>5. /\ sessions = [s \in 1..n |-> sessions[s]] /\ grants = [g \in 1..m |-> grants[g]]
      /\ DOMAIN sessions = 1..n /\ DOMAIN grants = 1..m
  BY <1>1, <1>2 DEF GrantsFine
<1>6. ASSUME NEW s \in 1..n PROVE sessions[s] \in [state : {"live", "revoked", "deleted"}, cur : DOMAIN grants]
  <2>1. /\ sessions[s] = [state |-> sessions[s].state, cur |-> sessions[s].cur]
        /\ sessions[s].state \in {"live", "revoked", "deleted"} /\ sessions[s].cur \in DOMAIN grants
    BY <1>1, <1>2, <1>5 DEF GrantsFine
  <2> QED BY <2>1
<1>7. ASSUME NEW g \in 1..m PROVE grants[g] \in [sid : DOMAIN sessions, age : 0..3]
  <2>1. /\ grants[g] = [sid |-> grants[g].sid, age |-> grants[g].age]
        /\ grants[g].sid \in DOMAIN sessions /\ grants[g].age \in 0..3
    BY <1>1, <1>2, <1>5 DEF GrantsFine
  <2> QED BY <2>1
<1>8. sessions \in Seq([state : {"live", "revoked", "deleted"}, cur : DOMAIN grants])
  <2>1. PICK S : S = [state : {"live", "revoked", "deleted"}, cur : DOMAIN grants]
    OBVIOUS
  <2>2. \A s \in 1..n : sessions[s] \in S
    BY <1>6, <2>1
  <2>3. sessions \in [1..n -> S]
    BY <2>2, <1>5
  <2>4. sessions \in Seq(S)
    BY <2>3, <1>3
  <2> QED BY <2>1, <2>4
<1>9. grants \in Seq([sid : DOMAIN sessions, age : 0..3])
  <2>1. PICK S : S = [sid : DOMAIN sessions, age : 0..3]
    OBVIOUS
  <2>2. \A g \in 1..m : grants[g] \in S
    BY <1>7, <2>1
  <2>3. grants \in [1..m -> S]
    BY <2>2, <1>5
  <2>4. grants \in Seq(S)
    BY <2>3, <1>3
  <2> QED BY <2>1, <2>4
<1>10. jar \in [Cookies -> 0..MaxGrants]
  <2>1. ASSUME NEW c \in Cookies PROVE jar[c] \in 0..MaxGrants
    <3>1. PICK b \in Bases, k \in Marks : c = <<b, k>>
      BY CookieNames
    <3>2. /\ jar[<<"csrf", k>>] \in {0, 1} /\ Known(jar[<<"refresh", k>>], grants)
          /\ jar[<<"access", k>>] \in {0, jar[<<"refresh", k>>]}
      BY <1>1 DEF JarFine
    <3>3. jar[<<"refresh", k>>] \in 0..MaxGrants
      BY <3>2, <1>2, <1>3 DEF Known
    <3>4. b = "csrf" \/ b = "refresh" \/ b = "access"
      BY DEF Bases
    <3> QED BY <3>1, <3>2, <3>3, <3>4, <1>3
  <2>2. jar = [c \in Cookies |-> jar[c]]
    BY <1>1 DEF JarFine
  <2> QED BY <2>1, <2>2
<1>11. \A t \in Tabs : net[t].phase \in {"idle", "sent", "answered"}
  BY <1>1 DEF NetFine, RequestFine
<1> QED BY <1>2, <1>4, <1>8, <1>9, <1>10, <1>11 DEF TypeOK

\* WireConsistent (CookieValue, CookieName, WriteTokens, rotation): rotation is linear and the cookies that
\* are read are of one session, unless requests overlapped, one was lost or a change of names shadowed the
\* cookies written last.
THEOREM TheWireIsConsistent == Spec => []WireConsistent
<1>1. ASSUME IInv PROVE NewestIsCurrent
  <2>1. GrantsFine
    BY <1>1 DEF IInv, Always
  <2>2. DOMAIN grants = 1..Len(grants)
    BY <2>1 DEF GrantsFine
  <2> QED BY <2>1, <2>2 DEF NewestIsCurrent, GrantsFine, Sid
<1>2. IInv => WireConsistent
  BY <1>1, Typed, PairsAlwaysMatch, WireAssumption DEF WireConsistent
<1> QED BY <1>2, Invariant, PTL

\* ForeignPagesWriteNothing (CSRFMiddleware, csrfEnforced, csrfRelativePaths, Middleware): with the double
\* submit enabled a page of another site writes nothing, below one prefix or two.
THEOREM ForeignPagesNeverWrite == Spec => []ForeignPagesWriteNothing
<1>1. IInv => ForeignPagesWriteNothing
  BY DEF IInv, Always, ForeignFine, ForeignPagesWriteNothing
<1> QED BY <1>1, Invariant, PTL

(***************************************************************************)
(* What an answer promises.                                                *)
(***************************************************************************)
\* An action of one tab leaves the other tabs alone.
LEMMA OneTab ==
  ASSUME IInv, NEW t \in Tabs, RequestKinds(t) \/ Send(t) \/ Receive(t) \/ Lose(t), NEW u \in Tabs, u # t
  PROVE  net'[u] = net[u]
<1>1. PICK old : old = net
  OBVIOUS
<1>2. old = [w \in Tabs |-> old[w]]
  BY <1>1 DEF IInv, Always, NetFine
<1>3. ASSUME NEW x, net' = [old EXCEPT ![t] = x]
      PROVE  net'[u] = old[u]
  BY <1>2, <1>3
<1>4. ASSUME NEW code, NEW k, NEW b, Answer(t, code, k, b)
      PROVE  net'[u] = old[u]
  BY <1>1, <1>3, <1>4 DEF Answer
<1>5. CASE RateLimited(t) \/ CSRFRefused(t) \/ GateRefused(t)
  BY <1>1, <1>4, <1>5 DEF RateLimited, CSRFRefused, GateRefused, Refuse
<1>6. CASE Login(t) \/ Refresh(t)
  <2>1. ASSUME NEW g, WriteTokens(t, g)
        PROVE  net'[u] = old[u]
    BY <2>1, <1>4 DEF WriteTokens
  <2>2. ASSUME NEW code, NEW k, Refuse(t, code, k)
        PROVE  net'[u] = old[u]
    BY <2>2, <1>4 DEF Refuse
  <2> QED BY <1>1, <1>6, <2>1, <2>2 DEF Login, Refresh
<1>7. CASE Logout(t) \/ RevokeSession(t) \/ DeleteAccount(t) \/ CleanupSessions(t) \/ OtherRoute(t)
  BY <1>1, <1>4, <1>7 DEF Logout, RevokeSession, DeleteAccount, CleanupSessions, OtherRoute, Refuse
<1>8. CASE Send(t)
  BY <1>8, SendIs DEF IInv, Always
<1>9. CASE Receive(t) \/ Lose(t)
  BY <1>1, <1>3, <1>9 DEF Receive, Lose
<1> QED BY <1>1, <1>5, <1>6, <1>7, <1>8, <1>9 DEF RequestKinds

\* The request that is answered is the one whose handler, limiter, double submit or gate ran.
LEMMA WhoServes ==
  ASSUME IInv, [Next]_vars, NEW t \in Tabs, NEW effect, Served(t, effect)
  PROVE  RequestKinds(t)
<1>1. net[t].phase = "sent" /\ net'[t].phase = "answered"
  BY DEF Served, At
<1>2. net'[t] # net[t]
  BY <1>1
<1>3. ASSUME NEW u \in Tabs, RequestKinds(u) \/ Send(u) \/ Receive(u) \/ Lose(u)
      PROVE  u = t
  BY <1>2, <1>3, OneTab
<1>4. ~Send(t) /\ ~Receive(t) /\ ~Lose(t)
  <2>1. ~Send(t)
    BY <1>1 DEF Send
  <2>2. ~Receive(t)
    BY <1>1 DEF Receive
  <2>3. ~Lose(t)
    <3> SUFFICES ASSUME Lose(t) PROVE FALSE
      OBVIOUS
    <3>1. NetFine /\ net' = [net EXCEPT ![t] = Idle]
      BY DEF Lose, IInv, Always
    <3>2. net'[t] = Idle
      BY <3>1, EndsIs DEF Ends
    <3> QED BY <3>2, <1>1 DEF Idle
  <2> QED BY <2>1, <2>2, <2>3
<1>5. (\E g \in DOMAIN grants : Expire(g)) \/ ExpireCSRF \/ Redeploy \/ UNCHANGED vars => net' = net
  BY DEF Expire, ExpireCSRF, Redeploy, vars
<1>6. \E u \in Tabs : RequestKinds(u) \/ Send(u) \/ Receive(u) \/ Lose(u)
  BY <1>2, <1>5 DEF Next, RequestKinds
<1> QED BY <1>3, <1>4, <1>6

\* The code of an answer that is served.
LEMMA CodeIs ==
  ASSUME IInv, NEW t \in Tabs, NEW effect, Served(t, effect), NEW code, NEW k, NEW b, Answer(t, code, k, b)
  PROVE  net'[t].code = code
<1>1. Answers(t, code, k, b)
  BY Answered DEF IInv, Always
<1> QED BY <1>1, AnswerPhase DEF Served

\* What refuses a request of a route without a gate, in front of its handler.
LEMMA InFront ==
  ASSUME IInv, NEW t \in Tabs, NEW effect, Served(t, effect), effect \in {"refresh", "logout"},
         RateLimited(t) \/ CSRFRefused(t) \/ GateRefused(t)
  PROVE  net'[t].code \in {"TOO_MANY_REQUESTS", "CSRF_INVALID"}
<1>1. net[t].phase = "sent" /\ net[t].route.effect = effect
  BY DEF Served, At
<1>2. RequestFine(net[t], grants, sessions)
  BY DEF IInv, Always, NetFine
<1>3. net[t].route \in Routes
  BY <1>1, <1>2 DEF RequestFine, SentFine
<1>4. ~net[t].route.gate
  BY <1>1, <1>3 DEF Routes, Route
<1>5. CASE RateLimited(t)
  <2>1. PICK code, k, b : code = "TOO_MANY_REQUESTS" /\ k = NoCookies /\ b = 0
    OBVIOUS
  <2>2. Answer(t, code, k, b)
    BY <2>1, <1>5 DEF RateLimited, Refuse
  <2> QED BY <2>1, <2>2, CodeIs
<1>6. CASE CSRFRefused(t)
  <2>1. PICK code, k, b : code = "CSRF_INVALID" /\ k = Distributed(net[t]) /\ b = 0
    OBVIOUS
  <2>2. Answer(t, code, k, b)
    BY <2>1, <1>6 DEF CSRFRefused, Refuse
  <2> QED BY <2>1, <2>2, CodeIs
<1>7. ~GateRefused(t)
  BY <1>4 DEF GateRefused
<1> QED BY <1>5, <1>6, <1>7

\* Only the logout handler answers a logout OK.
LEMMA LogoutIsServed ==
  ASSUME IInv, [Next]_vars, NEW t \in Tabs, Served(t, "logout"), net'[t].code = "OK"
  PROVE  Logout(t)
<1>1. PICK effect : effect = "logout"
  OBVIOUS
<1>2. Served(t, effect)
  BY <1>1
<1>3. RequestKinds(t)
  BY <1>2, WhoServes
<1>4. net[t].route.effect = "logout"
  BY DEF Served, At
<1>5. ~(RateLimited(t) \/ CSRFRefused(t) \/ GateRefused(t))
  BY <1>1, <1>2, InFront
<1>6. /\ ~Login(t) /\ ~Refresh(t) /\ ~RevokeSession(t) /\ ~DeleteAccount(t)
      /\ ~CleanupSessions(t) /\ ~OtherRoute(t)
  BY <1>4 DEF Login, Refresh, RevokeSession, DeleteAccount, CleanupSessions, OtherRoute, At
<1> QED BY <1>3, <1>5, <1>6 DEF RequestKinds

\* A logout revokes the session of the refresh token it carried, or failing that of the access token.
LEMMA LogoutRevokes ==
  ASSUME IInv, NEW t \in Tabs, Logout(t), NEW r, r = RefreshTokenFromRequest(net[t]), NEW a, a = AccessTokenFromRequest(net[t])
  PROVE  /\ r # 0 /\ RefreshOK(r) /\ Current(r) => sessions'[Sid(r)].state = "revoked"
         /\ a # 0 /\ AccessOK(a) /\ (r # 0 => Sid(r) = Sid(a)) => sessions'[Sid(a)].state = "revoked"
<1>1. PICK S : S = LogoutRequest(net[t])
  OBVIOUS
<1>2. sessions' = Revoke(S) /\ grants' = grants /\ GrantsFine /\ net[t].phase = "sent"
  BY <1>1 DEF Logout, At, IInv, Always
<1>3. \A s \in 1..Len(sessions) : s \in S /\ ~Deleted(s) => sessions'[s].state = "revoked"
  BY <1>2, Revoking
<1>4. S = IF r # 0 /\ RefreshOK(r) /\ Current(r) THEN {Sid(r)}
          ELSE IF a # 0 /\ AccessOK(a) THEN {Sid(a)} ELSE {}
  BY <1>1 DEF LogoutRequest
<1>5. SentFine(net[t], grants, sessions)
  BY <1>2 DEF IInv, Always, NetFine, RequestFine
<1>6. Known(r, grants) /\ Known(a, grants)
  BY <1>5, CarriedIsKnown
<1>7. /\ r # 0 => Sid(r) \in 1..Len(sessions)
      /\ a # 0 => Sid(a) \in 1..Len(sessions)
  BY <1>6, <1>2 DEF Known, GrantsFine, Sid
<1>8. ASSUME r # 0, RefreshOK(r), Current(r)
      PROVE  sessions'[Sid(r)].state = "revoked"
  BY <1>3, <1>4, <1>7, <1>8 DEF Current
<1>9. ASSUME a # 0, AccessOK(a), r # 0 => Sid(r) = Sid(a)
      PROVE  sessions'[Sid(a)].state = "revoked"
  <2>1. Sid(a) \in S
    BY <1>4, <1>9
  \* A session whose access token is accepted has not expired, so no cleanup took it.
  <2>2. ~Deleted(Sid(a))
    <3>1. PICK s, h : s = grants[a].sid /\ h = sessions[s].cur
      OBVIOUS
    <3>2. a \in 1..Len(grants) /\ grants[a].age \in 0..3 /\ grants[a].age < 1
      BY <1>2, <1>6, <1>9 DEF Known, GrantsFine, AccessOK
    <3>3. s \in 1..Len(sessions) /\ h \in 1..Len(grants) /\ h >= a
      BY <3>1, <3>2, <1>2 DEF GrantsFine
    <3>4. ASSUME h # a
          PROVE  grants[a].age >= grants[h].age
      <4>1. GrantsFine /\ a < h
        BY <3>2, <3>3, <3>4, <1>2
      <4>2. \A x, y \in 1..Len(grants) : x < y => grants[x].age >= grants[y].age
        BY <4>1 DEF GrantsFine
      <4> QED BY <4>1, <4>2, <3>2, <3>3
    <3>5. grants[h].age \in 0..3
      BY <3>3, <1>2 DEF GrantsFine
    <3>6. grants[h].age < 2
      BY <3>2, <3>4, <3>5
    <3>7. sessions[s].state # "deleted"
      BY <3>1, <3>3, <3>5, <3>6, <1>2 DEF GrantsFine
    <3> QED BY <3>1, <3>7 DEF Deleted, Sid
  <2> QED BY <2>1, <2>2, <1>3, <1>7, <1>9
<1> QED BY <1>8, <1>9

\* Once the answer of a logout is in, no token is left that the site would see.
LEMMA LogoutClearsTheJar ==
  ASSUME WireAssumption, IInv, [Next]_vars, NEW t \in Tabs, net[t].phase = "answered", net[t].effect = "logout",
         net[t].page # "app", net[t].code = "OK", net'[t].phase = "idle", ~lost', ~shadowed,
         DOMAIN ClearAuthCookies \subseteq DOMAIN net[t].cookies,
         NEW c \in Cookies, c[1] # "csrf", Reachable(c[2][1])
  PROVE  jar'[c] = 0
<1>1. net'[t] # net[t]
  OBVIOUS
<1>2. ASSUME NEW u \in Tabs, RequestKinds(u) \/ Send(u) \/ Receive(u) \/ Lose(u)
      PROVE  u = t
  BY <1>1, <1>2, OneTab
<1>3. (\E g \in DOMAIN grants : Expire(g)) \/ ExpireCSRF \/ Redeploy \/ UNCHANGED vars => net' = net
  BY DEF Expire, ExpireCSRF, Redeploy, vars
<1>4. ~RequestKinds(t) /\ ~Send(t) /\ ~Lose(t)
  <2>1. ~RateLimited(t) /\ ~CSRFRefused(t) /\ ~GateRefused(t) /\ ~Send(t)
    BY DEF RateLimited, CSRFRefused, GateRefused, Send
  <2>2. /\ ~Login(t) /\ ~Refresh(t) /\ ~Logout(t) /\ ~RevokeSession(t) /\ ~DeleteAccount(t)
        /\ ~CleanupSessions(t) /\ ~OtherRoute(t)
    BY DEF Login, Refresh, Logout, RevokeSession, DeleteAccount, CleanupSessions, OtherRoute, At
  <2>3. ~Lose(t)
    BY DEF Lose
  <2> QED BY <2>1, <2>2, <2>3 DEF RequestKinds
<1>5. Receive(t)
  <2>1. \E u \in Tabs : RequestKinds(u) \/ Send(u) \/ Receive(u) \/ Lose(u)
    BY <1>1, <1>3 DEF Next, RequestKinds
  <2> QED BY <2>1, <1>2, <1>4
<1>6. PICK k : k = net[t].cookies
  OBVIOUS
<1>7. /\ RequestFine(net[t], grants, sessions) /\ JarFine /\ NoneLeft
      /\ dep.scope \in Scopes
  BY DEF IInv, Always, NetFine
<1>8. CookiesFine(k, "logout", grants) /\ Cleared(k)
  BY <1>6, <1>7 DEF RequestFine, AnswerFine
<1>9. jar'[c] = IF c \in DOMAIN k THEN k[c] ELSE jar[c]
  BY <1>5, <1>6, <1>7, ReceiveIs
<1>10. PICK b \in Bases, n \in Marks : c = <<b, n>>
  BY CookieNames
<1>11. b = "access" \/ b = "refresh"
  BY <1>10 DEF Bases
<1>12. CASE c \in DOMAIN k
  <2>1. <<"refresh", n>> \in DOMAIN k /\ <<"access", n>> \in DOMAIN k /\ k[<<"access", n>>] = k[<<"refresh", n>>]
    BY <1>8, <1>10, <1>11, <1>12 DEF CookiesFine
  <2>2. k[<<"refresh", n>>] = 0
    BY <2>1, <1>8 DEF Cleared
  <2> QED BY <2>1, <2>2, <1>9, <1>10, <1>11, <1>12
<1>13. CASE c \notin DOMAIN k
  <2>1. PICK z : z = dep.scope
    OBVIOUS
  <2>2. c \notin DOMAIN ClearAuthCookies
    BY <1>6, <1>13
  <2>3. n # MarkAt(z, n[1])
    <3> SUFFICES ASSUME n = MarkAt(z, n[1]) PROVE FALSE
      OBVIOUS
    <3>1. n[1] \in Variants /\ Reachable(n[1]) /\ n = Mark(dep, n[1])
      BY <2>1, <1>10, MarksOf
    <3>2. PICK B, R : /\ B = {"access", "refresh"} \cup (IF dep.csrf THEN {"csrf"} ELSE {})
                      /\ R = {v \in Variants : Reachable(v)}
      OBVIOUS
    <3>3. b \in B /\ n[1] \in R
      BY <3>1, <3>2, <1>11
    <3>4. DOMAIN ClearAuthCookies = {<<base, Mark(dep, v)>> : base \in B, v \in R}
      BY <3>2 DEF ClearAuthCookies, Clearing, Expiring
    <3>5. c = <<b, Mark(dep, n[1])>>
      BY <3>1, <1>10
    <3>6. c \in DOMAIN ClearAuthCookies
      BY <3>3, <3>4, <3>5
    <3> QED BY <3>6, <2>2
  <2>4. jar[<<"refresh", n>>] = 0
    BY <2>1, <2>3, <1>7 DEF NoneLeft, Stray
  <2>5. jar[<<"access", n>>] = 0
    BY <2>4, <1>7 DEF JarFine
  <2> QED BY <2>4, <2>5, <1>9, <1>10, <1>11, <1>13
<1> QED BY <1>12, <1>13

\* LogoutEnds (LogoutRequest, ClearAuthCookies): a logout ends its session, and its answer every token
\* cookie the site sees, unless a change of the options left some behind or came in between.
THEOREM LogoutAlwaysEnds == Spec => LogoutEnds
<1>1. IInv /\ [Next]_vars =>
        [\A t \in Tabs :
           /\ Served(t, "logout") /\ net'[t].code = "OK" =>
                LET r == RefreshTokenFromRequest(net[t]) a == AccessTokenFromRequest(net[t]) IN
                /\ r # 0 /\ RefreshOK(r) /\ Current(r) => sessions'[Sid(r)].state = "revoked"
                /\ a # 0 /\ AccessOK(a) /\ (r # 0 => Sid(r) = Sid(a)) => sessions'[Sid(a)].state = "revoked"
           /\ net[t].phase = "answered" /\ net[t].effect = "logout" /\ net[t].page # "app"
              /\ net[t].code = "OK" /\ net'[t].phase = "idle" /\ ~lost'
              /\ ~shadowed /\ DOMAIN ClearAuthCookies \subseteq DOMAIN net[t].cookies =>
                \A c \in Cookies : c[1] # "csrf" /\ Reachable(c[2][1]) => jar'[c] = 0]_vars
  <2> SUFFICES ASSUME IInv, [Next]_vars, NEW t \in Tabs
               PROVE  /\ Served(t, "logout") /\ net'[t].code = "OK" =>
                           LET r == RefreshTokenFromRequest(net[t]) a == AccessTokenFromRequest(net[t]) IN
                           /\ r # 0 /\ RefreshOK(r) /\ Current(r) => sessions'[Sid(r)].state = "revoked"
                           /\ a # 0 /\ AccessOK(a) /\ (r # 0 => Sid(r) = Sid(a)) => sessions'[Sid(a)].state = "revoked"
                      /\ net[t].phase = "answered" /\ net[t].effect = "logout" /\ net[t].page # "app"
                         /\ net[t].code = "OK" /\ net'[t].phase = "idle" /\ ~lost'
                         /\ ~shadowed /\ DOMAIN ClearAuthCookies \subseteq DOMAIN net[t].cookies =>
                           \A c \in Cookies : c[1] # "csrf" /\ Reachable(c[2][1]) => jar'[c] = 0
    OBVIOUS
  <2>1. ASSUME Served(t, "logout"), net'[t].code = "OK"
        PROVE  LET r == RefreshTokenFromRequest(net[t]) a == AccessTokenFromRequest(net[t]) IN
               /\ r # 0 /\ RefreshOK(r) /\ Current(r) => sessions'[Sid(r)].state = "revoked"
               /\ a # 0 /\ AccessOK(a) /\ (r # 0 => Sid(r) = Sid(a)) => sessions'[Sid(a)].state = "revoked"
    BY <2>1, LogoutIsServed, LogoutRevokes
  <2> QED BY <2>1, WireAssumption, LogoutClearsTheJar
<1> QED BY <1>1, Invariant, PTL DEF Spec, LogoutEnds

\* How a refresh that its handler serves is answered.
LEMMA RefreshIsAnswered ==
  ASSUME IInv, NEW t \in Tabs, Refresh(t), Served(t, "refresh"), NEW g, g = RefreshTokenFromRequest(net[t])
  PROVE  net'[t].code = IF RefreshRefusal(g) # "" THEN RefreshRefusal(g) ELSE "OK"
<1>1. PICK effect : effect = "refresh"
  OBVIOUS
<1>2. Served(t, effect)
  BY <1>1
<1>3. CASE RefreshRefusal(g) # ""
  <2>1. PICK code, k, b : code = RefreshRefusal(g) /\ k = Distributed(net[t]) /\ b = 0
    OBVIOUS
  <2>2. Answer(t, code, k, b)
    BY <2>1, <1>3 DEF Refresh, Refuse
  <2> QED BY <1>2, <1>3, <2>1, <2>2, CodeIs
<1>4. CASE RefreshRefusal(g) = ""
  <2>1. PICK m : m = Minted
    OBVIOUS
  <2>2. WriteTokens(t, m)
    BY <2>1, <1>4 DEF Refresh
  <2>3. PICK k, b, code : code = "OK" /\ Answer(t, code, k, b)
    BY <2>2 DEF WriteTokens
  <2> QED BY <1>2, <1>4, <2>3, CodeIs
<1> QED BY <1>3, <1>4

\* A refresh in turn carries its session's current token, so it is not called unknown before a cleanup
\* may have taken the session, and a revoked session's is called revoked.
LEMMA RefreshAnswers ==
  ASSUME IInv, [Next]_vars, NEW t \in Tabs, Served(t, "refresh"), NEW g, g = RefreshTokenFromRequest(net[t])
  PROVE  g # 0 /\ InTurn =>
           /\ grants[g].age < 2 => net'[t].code # "INVALID_REFRESH_TOKEN"
           /\ RefreshOK(g) /\ Revoked(Sid(g))
                => net'[t].code \in {"SESSION_REVOKED", "CSRF_INVALID", "TOO_MANY_REQUESTS"}
<1>1. PICK effect : effect = "refresh"
  OBVIOUS
<1>2. Served(t, effect)
  BY <1>1
<1>3. RequestKinds(t)
  BY <1>2, WhoServes
<1>4. net[t].route.effect = "refresh" /\ net[t].phase = "sent"
  BY DEF Served, At
<1>5. /\ ~Login(t) /\ ~Logout(t) /\ ~RevokeSession(t) /\ ~DeleteAccount(t)
      /\ ~CleanupSessions(t) /\ ~OtherRoute(t)
  BY <1>4 DEF Login, Logout, RevokeSession, DeleteAccount, CleanupSessions, OtherRoute, At
<1>6. CASE RateLimited(t) \/ CSRFRefused(t) \/ GateRefused(t)
  <2>1. net'[t].code \in {"TOO_MANY_REQUESTS", "CSRF_INVALID"}
    BY <1>1, <1>2, <1>6, InFront
  <2> QED BY <2>1
<1>7. CASE Refresh(t)
  <2>1. net'[t].code = IF RefreshRefusal(g) # "" THEN RefreshRefusal(g) ELSE "OK"
    BY <1>7, RefreshIsAnswered
  <2>2. InTurn => g = 0 \/ sessions[Sid(g)].cur = g
    <3>1. Waiting(net[t])
      BY <1>4 DEF Waiting, TokenRoutes
    <3>2. InTurn => Usable(g, grants, sessions)
      BY <3>1, <1>4 DEF IInv, Turns
    <3> QED BY <3>2 DEF Usable, Sid
  <2>3. RefreshRefusal(g) = "INVALID_REFRESH_TOKEN" => g # 0 /\ ~Current(g)
    BY DEF RefreshRefusal
  <2>4. g # 0 /\ RefreshOK(g) /\ Current(g) /\ Revoked(Sid(g)) => RefreshRefusal(g) = "SESSION_REVOKED"
    BY DEF RefreshRefusal
  \* The current grant of a deleted session has lived as long as the session.
  <2>5. ASSUME g # 0, sessions[Sid(g)].cur = g, grants[g].age < 2
        PROVE  ~Deleted(Sid(g))
    <3>1. GrantsFine /\ SentFine(net[t], grants, sessions)
      BY <1>4 DEF IInv, Always, NetFine, RequestFine
    <3>2. g \in 1..Len(grants) /\ Sid(g) \in 1..Len(sessions) /\ grants[g].age \in 0..3
      BY <2>5, <3>1, CarriedIsKnown DEF Known, GrantsFine, Sid
    <3>3. Deleted(Sid(g)) => grants[g].age >= 2
      BY <2>5, <3>1, <3>2 DEF GrantsFine, Deleted
    <3> QED BY <2>5, <3>2, <3>3
  <2>6. Revoked(Sid(g)) => ~Deleted(Sid(g))
    BY DEF Revoked, Deleted
  <2>7. sessions[Sid(g)].cur = g /\ ~Deleted(Sid(g)) => Current(g)
    BY DEF Current
  <2>8. g # 0 /\ InTurn /\ grants[g].age < 2 => net'[t].code # "INVALID_REFRESH_TOKEN"
    BY <2>1, <2>2, <2>3, <2>5, <2>7
  <2>9. g # 0 /\ InTurn /\ RefreshOK(g) /\ Revoked(Sid(g)) => net'[t].code = "SESSION_REVOKED"
    BY <2>1, <2>2, <2>4, <2>6, <2>7
  <2> QED BY <2>8, <2>9
<1> QED BY <1>3, <1>5, <1>6, <1>7 DEF RequestKinds

\* RefreshAnswersAreTrue (RefreshHTTPError, CookieValue, WriteTokens): no client that refreshes in turn is
\* told that its token is unknown before its session has expired, across changes of the cookies' names.
THEOREM RefreshesAreAnsweredTruly == Spec => RefreshAnswersAreTrue
<1>1. IInv /\ [Next]_vars =>
        [\A t \in Tabs :
           Served(t, "refresh") =>
             LET g == RefreshTokenFromRequest(net[t]) IN
             g # 0 /\ InTurn =>
               /\ grants[g].age < 2 => net'[t].code # "INVALID_REFRESH_TOKEN"
               /\ RefreshOK(g) /\ Revoked(Sid(g))
                    => net'[t].code \in {"SESSION_REVOKED", "CSRF_INVALID", "TOO_MANY_REQUESTS"}]_vars
  BY RefreshAnswers
<1> QED BY <1>1, Invariant, PTL DEF Spec, RefreshAnswersAreTrue
=============================================================================
