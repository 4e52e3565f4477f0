------------------------- MODULE AdminConsoleProofs -------------------------
(***************************************************************************)
(* Proofs about AdminConsole, for any deployment, any routes it offers and *)
(* any number of requests, users, roles, tenants and keys.                 *)
(*                                                                         *)
(* The stores are fine by themselves (StoresFine).  What a request found   *)
(* out earlier stays good because of what no step undoes (WorldMoves): a   *)
(* deleted user never comes back, no flag is taken away, and a write is    *)
(* counted.  The walk over the user table rests on positions: without a    *)
(* deletion a user only moves further on (PositionsGrow), and a page       *)
(* shorter than the batch leaves nobody behind it (ShortPageIsLast).       *)
(***************************************************************************)
EXTENDS AdminConsole, FiniteSetTheorems, WellFoundedInduction, TLAPS

(***************************************************************************)
(* The stores.                                                             *)
(***************************************************************************)
UserFine(u) ==
  /\ u = [tenant |-> u.tenant, isAdmin |-> u.isAdmin, require2FA |-> u.require2FA,
          profile |-> u.profile, writes |-> u.writes]
  /\ u.isAdmin \in BOOLEAN /\ u.writes \in Nat /\ u.profile = [f \in Fields |-> u.profile[f]]

UsersFine ==
  /\ DOMAIN users \cap gone = {} /\ DOMAIN users \cup gone \subseteq UserIDs
  /\ IsFiniteSet(DOMAIN users)
  /\ \A u \in DOMAIN users : UserFine(users[u])

RolesFine(s) ==
  /\ s = [rolePermissions |-> s.rolePermissions, userRoles |-> s.userRoles]
  /\ DOMAIN s.rolePermissions \subseteq Roles
  /\ s.rolePermissions \in [DOMAIN s.rolePermissions -> SUBSET Permissions]
  /\ s.userRoles \subseteq UserIDs \X (TenantIDs \cup {NoTenant}) \X Roles
  /\ \A a \in s.userRoles : RoleExists(s, a[3])

TenantsFine(s) ==
  /\ s \in TenantStore
  /\ \A u \in UserIDs, t \in TenantIDs :
       (<<u, t>> \in s.userTenants) <=> (<<t, u>> \in s.tenantUsers)
  /\ \A m \in s.userTenants : m[2] \in s.byID

SettingsFine ==
  /\ settings = [require2FA |-> settings.require2FA, ui |-> settings.ui, writes |-> settings.writes]
  /\ settings.writes \in Nat /\ settings.ui = [f \in Fields |-> settings.ui[f]]

KeysFine(s, e) ==
  /\ s = [byID |-> s.byID, byPrefix |-> s.byPrefix]
  /\ DOMAIN s.byID \subseteq KeyIDs /\ s.byID \in [DOMAIN s.byID -> APIKeyRecord]
  /\ DOMAIN s.byPrefix \subseteq KeyPrefixes /\ s.byPrefix \in [DOMAIN s.byPrefix -> KeyIDs]
  /\ \A p \in DOMAIN s.byPrefix :
       s.byPrefix[p] \in DOMAIN s.byID /\ s.byID[s.byPrefix[p]].prefix = p
  /\ \A id \in e \cap DOMAIN s.byID : ~s.byID[id].active

StoresFine ==
  /\ deploy \in Deployments
  /\ UsersFine /\ RolesFine(rbac) /\ TenantsFine(tenancy) /\ SettingsFine /\ KeysFine(keys, ended)
  /\ metadata \subseteq UserIDs
  /\ rootLogin \in BOOLEAN
  /\ ended \subseteq KeyIDs \cup TenantIDs

(***************************************************************************)
(* The requests, each by what it has established.                          *)
(***************************************************************************)
Admitted == {"serve", "page", "write", "stamp", "assign", "roles", "tenants", "record"}
Busy     == Admitted \cup {"user", "policy"}

CallTyped(c) ==
  /\ c = [pc |-> c.pc, op |-> c.op, cred |-> c.cred, ok |-> c.ok, todo |-> c.todo, offset |-> c.offset,
          saw |-> c.saw, before |-> c.before, goneAt |-> c.goneAt, reached |-> c.reached, touched |-> c.touched]
  /\ c.pc \in Busy \cup {"idle", "done"} /\ c.ok \in {"open", "yes", "no", "refused"}
  /\ c.touched \in BOOLEAN /\ c.offset \in Nat
  /\ c.pc \in Busy => c.op \in deploy.ops /\ c.ok = "open"
  /\ c.pc = "idle" => c.op = NoValue
  /\ c.pc = "done" => c.op = NoValue \/ (c.op \in deploy.ops /\ c.op.route = "twoFAPolicy" /\ c.ok = "yes")
  /\ c.goneAt \subseteq gone
  /\ c.pc = "page" => c.op.route = "twoFAPolicy"
  /\ c.pc \in {"roles", "tenants", "record"} => c.op.route = "deleteAccount"
  /\ c.pc = "write" => c.op.route \in {"patchUI", "updateProfile"}

HasStanding(c) ==
  \/ deploy.policy = "secret" /\ c.cred.typ = "secret"
  \/ c.cred.typ = "admin" /\ c.cred.root = TRUE /\ rootLogin = TRUE
  \/ /\ c.cred.typ \in {"access", "admin"}
     /\ c.cred.sub \in DOMAIN users \cup gone /\ c.cred.sub \notin c.goneAt
     /\ deploy.policy = "is-admin-flag" =>
          (c.cred.sub \in DOMAIN users => users[c.cred.sub].isAdmin = TRUE)

StandingFine(c) ==
  /\ c.pc \in {"user", "policy"} =>
       c.cred.typ \in {"access", "admin"} /\ deploy.policy \in {"first-user", "is-admin-flag"}
  /\ c.pc = "policy" => deploy.policy = "first-user"
  /\ (c.pc \in Admitted /\ c.op.route \notin SelfRoutes \cup OpenRoutes /\ deploy.policy # "open") => HasStanding(c)

\* What it read is what there is, unless a write was counted since.
SawFine(c) == c.pc = "write" =>
  /\ c.op.route = "patchUI" =>
       /\ c.saw.writes \in Nat /\ c.saw.writes <= settings.writes
       /\ c.saw.ui = [f \in Fields |-> c.saw.ui[f]]
       /\ c.saw.writes = settings.writes => c.saw.ui = settings.ui
  /\ c.op.route = "updateProfile" =>
       /\ c.saw.writes \in Nat /\ c.op.id \in DOMAIN users \cup gone
       /\ c.op.id \in DOMAIN users =>
            /\ c.saw.writes <= users[c.op.id].writes
            /\ c.saw.writes = users[c.op.id].writes => c.saw.profile = users[c.op.id].profile

\* What is left of the user is still to be removed.
DepartFine(c) == (c.pc \in Busy /\ c.op.route = "deleteAccount" /\ c.touched = FALSE) =>
  /\ c.pc = "roles" => GetRolesForUser(rbac, c.op.id, c.op.tenant) \subseteq c.todo
  /\ c.pc \in {"tenants", "record"} => GetRolesForUser(rbac, c.op.id, c.op.tenant) = {}
  /\ c.pc = "tenants" => GetTenantsForUser(tenancy, c.op.id) \subseteq c.todo
  /\ c.pc = "record" => GetTenantsForUser(tenancy, c.op.id) = {} /\ c.op.id \notin metadata

Position(u) == Cardinality({v \in DOMAIN users : v < u})

\* As long as nobody was deleted: whoever stands before the offset has been
\* reached, and whoever stands on the page has been reached or is on the list.
WalkFine(c) == (c.op # NoValue /\ c.goneAt = gone) =>
  /\ c.before \subseteq DOMAIN users
  /\ c.pc \in Busy => \A u \in c.before : Position(u) < c.offset => u \in c.reached
  /\ c.pc = "page" =>
       /\ \A u \in c.before : Position(u) < c.offset + BatchSize => u \in c.reached \cup c.todo
       /\ Cardinality(c.saw) < BatchSize => c.before \subseteq c.reached \cup c.todo
  /\ c.pc = "done" => c.before \subseteq c.reached

CallHolds(c) == CallTyped(c) /\ StandingFine(c) /\ SawFine(c) /\ WalkFine(c)
CallFine(c)  == CallHolds(c) /\ DepartFine(c)

CallsFine ==
  /\ call = [r \in Requests |-> call[r]]
  /\ \A r \in Requests : CallFine(call[r])

IInv == StoresFine /\ CallsFine

(***************************************************************************)
(* Positions in the table.                                                 *)
(***************************************************************************)
\* A set of numbers that is not empty has a least one: what the proofs about positions use in place of induction.
LEMMA Least ==
  ASSUME NEW S, S \subseteq Nat, S # {}
  PROVE  \E m \in S : \A n \in S : m <= n
  <1>1. PICK m \in S : \A n \in S : <<n, m>> \notin OpToRel(<, Nat)
    BY WFMin, NatLessThanWellFounded, Zenon
  <1>2. \A n \in S : ~(n < m)
    BY <1>1, Zenon DEF OpToRel
  <1> QED BY <1>2

\* Whoever follows m elements of a finite set and more has, among those that
\* precede it, the first m and then n of them where m + n precede it.
LEMMA FullPage ==
  ASSUME NEW U, U \subseteq Nat, IsFiniteSet(U), NEW o \in Nat, NEW b \in Nat, NEW u \in U,
         Cardinality({w \in U : w < u}) >= o + b
  PROVE  Cardinality({v \in U : o <= Cardinality({w \in U : w < v}) /\ Cardinality({w \in U : w < v}) < o + b}) >= b
  <1> DEFINE P(v) == Cardinality({w \in U : w < v})
  <1>1. \A v \in U : P(v) \in Nat /\ IsFiniteSet({w \in U : w < v})
    BY FS_Subset, FS_CardinalityType
  <1>2. \A v, w \in U : v <= w => P(v) <= P(w)
    <2> SUFFICES ASSUME NEW v \in U, NEW w \in U, v <= w PROVE P(v) <= P(w)
      OBVIOUS
    <2>1. PICK X, Y : X = {x \in U : x < v} /\ Y = {x \in U : x < w}
      OBVIOUS
    <2>2. X \subseteq Y /\ IsFiniteSet(Y)
      <3>1. v \in Nat /\ w \in Nat /\ \A x \in X : x \in U /\ x \in Nat /\ x < v
        BY <2>1
      <3>2. \A x \in X : x < w
        BY <3>1
      <3> QED BY <1>1, <2>1, <3>1, <3>2
    <2>3. Cardinality(X) <= Cardinality(Y)
      BY <2>2, FS_Subset
    <2> QED BY <2>1, <2>3
  <1>3. PICK m \in U : P(m) >= o + b /\ \A v \in U : P(v) >= o + b => m <= v
    <2>1. PICK H : H = {v \in U : P(v) >= o + b}
      OBVIOUS
    <2>2. H \subseteq Nat /\ H # {}
      BY <2>1
    <2>3. PICK m \in H : \A n \in H : m <= n
      BY <2>2, Least
    <2> QED BY <2>1, <2>3
  <1>4. PICK S : S = {w \in U : w < m} /\ IsFiniteSet(S) /\ Cardinality(S) \in Nat /\ Cardinality(S) >= o + b
    BY <1>1, <1>3
  <1>5. \A v \in S : P(v) < o + b
    BY <1>1, <1>3, <1>4
  <1>6. PICK L : L = {v \in U : P(v) < o}
    OBVIOUS
  <1>7. IsFiniteSet(L) /\ Cardinality(L) \in Nat
    <2>1. L \subseteq U
      BY <1>6
    <2> QED BY <2>1, FS_Subset, FS_CardinalityType
  <1>8. Cardinality(L) <= o
    <2>1. CASE L = {}
      BY <2>1, FS_EmptySet
    <2>2. CASE L # {}
      <3>1. PICK W : W = {w \in Nat : \A v \in L : v <= w}
        OBVIOUS
      <3>2. m \in W
        <4>1. \A v \in L : v <= m
          <5> SUFFICES ASSUME NEW v \in L PROVE v <= m
            OBVIOUS
          <5>1. v \in U /\ P(v) < o /\ P(v) \in Nat /\ P(m) \in Nat
            BY <1>1, <1>6
          <5>2. ~(m <= v)
            BY <1>2, <1>3, <5>1
          <5> QED BY <5>1, <5>2
        <4> QED BY <3>1, <4>1
      <3>3. W \subseteq Nat /\ W # {}
        BY <3>1, <3>2
      <3>4. PICK g \in W : \A w \in W : g <= w
        BY <3>3, Least
      <3>5. g \in L
        <4> SUFFICES ASSUME g \notin L PROVE FALSE
          OBVIOUS
        <4>1. \A v \in L : v \in Nat /\ v < g
          BY <1>6, <3>1
        <4>2. g \in Nat /\ g > 0
          BY <2>2, <3>1, <4>1
        <4>3. g - 1 \in W
          BY <3>1, <4>1, <4>2
        <4> QED BY <3>4, <4>2, <4>3
      <3>6. L \subseteq {w \in U : w < g} \cup {g}
        <4>1. g \in Nat /\ \A v \in L : v \in U /\ v \in Nat /\ v <= g
          BY <1>6, <3>1, <3>5
        <4> QED BY <4>1
      <3>7. PICK B : B = {w \in U : w < g} /\ IsFiniteSet(B) /\ Cardinality(B) \in Nat /\ Cardinality(B) < o
        <4>1. g \in U /\ P(g) < o
          BY <1>6, <3>5
        <4> QED BY <1>1, <4>1
      <3>8. IsFiniteSet(B \cup {g}) /\ Cardinality(B \cup {g}) = Cardinality(B) + 1
        <4>1. g \notin B
          BY <1>6, <3>5, <3>7
        <4> QED BY <3>7, <4>1, FS_AddElement
      <3>9. Cardinality(L) <= Cardinality(B \cup {g})
        BY <3>6, <3>7, <3>8, FS_Subset
      <3> QED BY <1>7, <3>7, <3>8, <3>9
    <2> QED BY <2>1, <2>2
  <1>9. PICK page : page = {v \in U : o <= P(v) /\ P(v) < o + b}
    OBVIOUS
  <1>10. IsFiniteSet(page) /\ Cardinality(page) \in Nat
    <2>1. page \subseteq U
      BY <1>9
    <2> QED BY <2>1, FS_Subset, FS_CardinalityType
  <1>11. S \ L \subseteq page
    <2>1. \A v \in S \ L : v \in U /\ P(v) \in Nat /\ ~(P(v) < o) /\ P(v) < o + b
      <3>1. \A v \in S : v \in U
        BY <1>4
      <3>2. \A v \in U \ L : ~(P(v) < o)
        BY <1>6
      <3> QED BY <1>1, <1>5, <3>1, <3>2
    <2>2. \A v \in S \ L : v \in U /\ o <= P(v) /\ P(v) < o + b
      BY <2>1
    <2> QED BY <1>9, <2>2
  <1>12. Cardinality(S \ L) >= b
    <2>1. Cardinality(S \ L) = Cardinality(S) - Cardinality(S \cap L)
      BY <1>4, FS_Difference
    <2>2. Cardinality(S \cap L) <= Cardinality(L) /\ Cardinality(S \cap L) \in Nat
      BY <1>4, <1>7, FS_Intersection, FS_CardinalityType
    <2> QED BY <1>4, <1>7, <1>8, <2>1, <2>2
  <1>13. Cardinality(S \ L) <= Cardinality(page) /\ Cardinality(S \ L) \in Nat
    BY <1>4, <1>10, <1>11, FS_Subset, FS_Difference, FS_CardinalityType
  <1> QED BY <1>9, <1>10, <1>12, <1>13

\* A position is a number, since the table is finite.
LEMMA PositionsCount ==
  ASSUME UsersFine
  PROVE  \A u : Position(u) \in Nat /\ IsFiniteSet({v \in DOMAIN users : v < u})
  <1> TAKE u
  <1>1. {v \in DOMAIN users : v < u} \subseteq DOMAIN users
    OBVIOUS
  <1> QED BY <1>1, FS_Subset, FS_CardinalityType DEF UsersFine, Position

\* A page shorter than the batch leaves nobody behind it.
LEMMA ShortPageIsLast ==
  ASSUME UsersFine, NEW o \in Nat, Cardinality(ListUsers(BatchSize, o)) < BatchSize
  PROVE  \A u \in DOMAIN users : Position(u) < o \/ u \in ListUsers(BatchSize, o)
  <1> SUFFICES ASSUME NEW u \in DOMAIN users, Position(u) >= o + BatchSize PROVE FALSE
    <2> SUFFICES ASSUME NEW u \in DOMAIN users, ~(Position(u) < o), u \notin ListUsers(BatchSize, o)
                 PROVE  Position(u) >= o + BatchSize
      OBVIOUS
    <2>1. ~(o <= Position(u) /\ Position(u) < o + BatchSize)
      BY DEF ListUsers, Position
    <2>2. Position(u) \in Nat /\ BatchSize \in Nat
      BY BatchAssumption, PositionsCount
    <2> QED BY <2>1, <2>2
  <1>1. DOMAIN users \subseteq Nat /\ IsFiniteSet(DOMAIN users)
    BY OrderAssumption DEF UsersFine
  <1>2. Cardinality(ListUsers(BatchSize, o)) >= BatchSize
    BY <1>1, BatchAssumption, FullPage DEF ListUsers, Position
  <1>3. Cardinality(ListUsers(BatchSize, o)) \in Nat
    <2>1. ListUsers(BatchSize, o) \subseteq DOMAIN users
      BY DEF ListUsers
    <2> QED BY <1>1, <2>1, FS_Subset, FS_CardinalityType
  <1> QED BY <1>2, <1>3, BatchAssumption

\* A registration moves nobody nearer to the front.
LEMMA PositionsGrow ==
  ASSUME UsersFine, UsersFine', DOMAIN users \subseteq DOMAIN users'
  PROVE  \A u : Position(u) <= Position(u)'
  <1> TAKE u
  <1>1. PICK A, B : A = {v \in DOMAIN users : v < u} /\ B = {v \in DOMAIN users' : v < u}
    OBVIOUS
  <1>2. A \subseteq B /\ IsFiniteSet(B)
    <2>1. B \subseteq DOMAIN users' /\ IsFiniteSet(DOMAIN users')
      BY <1>1 DEF UsersFine
    <2> QED BY <1>1, <2>1, FS_Subset
  <1> QED BY <1>1, <1>2, FS_Subset DEF Position

(***************************************************************************)
(* What no step undoes, and what a request established before.             *)
(***************************************************************************)
UsersMove ==
  /\ gone \subseteq gone' /\ DOMAIN users \subseteq DOMAIN users' \cup gone'
  /\ \A u \in DOMAIN users' : u \in DOMAIN users \/ u \notin gone
  /\ \A u \in DOMAIN users \cap DOMAIN users' :
       /\ users[u].isAdmin = TRUE => users'[u].isAdmin = TRUE
       /\ users[u].writes <= users'[u].writes
       /\ users[u].writes = users'[u].writes => users[u].profile = users'[u].profile

SettingsMove ==
  /\ settings.writes <= settings'.writes
  /\ settings.writes = settings'.writes => settings.ui = settings'.ui

WorldMoves ==
  /\ deploy' = deploy /\ (rootLogin = TRUE => rootLogin' = TRUE)
  /\ UsersMove /\ SettingsMove

\* Standing is not lost: flags are only set, a root login is never undone, and who was deleted is not loaded again.
LEMMA StandingStands ==
  ASSUME StoresFine, StoresFine', WorldMoves, NEW c, StandingFine(c)
  PROVE  StandingFine(c)'
  <1>1. HasStanding(c) => HasStanding(c)'
    <2>1. CASE deploy.policy = "secret" /\ c.cred.typ = "secret"
      BY <2>1 DEF HasStanding, WorldMoves, UsersMove, SettingsMove
    <2>2. CASE c.cred.typ = "admin" /\ c.cred.root = TRUE /\ rootLogin = TRUE
      BY <2>2 DEF HasStanding, WorldMoves, UsersMove, SettingsMove
    <2>3. CASE /\ c.cred.typ \in {"access", "admin"}
               /\ c.cred.sub \in DOMAIN users \cup gone /\ c.cred.sub \notin c.goneAt
               /\ deploy.policy = "is-admin-flag" =>
                    (c.cred.sub \in DOMAIN users => users[c.cred.sub].isAdmin = TRUE)
      BY <2>3 DEF HasStanding, WorldMoves, UsersMove, SettingsMove
    <2> QED BY <2>1, <2>2, <2>3 DEF HasStanding
  <1> QED BY <1>1 DEF StandingFine, WorldMoves, UsersMove, SettingsMove

\* What a partial update read is what there is, or a write was counted since.
LEMMA SawStands ==
  ASSUME StoresFine, StoresFine', WorldMoves, NEW c, SawFine(c)
  PROVE  SawFine(c)'
  <1> SUFFICES ASSUME c.pc = "write" PROVE SawFine(c)'
    BY DEF SawFine
  <1>1. CASE c.op.route = "patchUI"
    <2>1. settings.writes \in Nat /\ settings'.writes \in Nat
      BY DEF StoresFine, SettingsFine
    <2> QED BY <1>1, <2>1 DEF SawFine, WorldMoves, UsersMove, SettingsMove
  <1>2. CASE c.op.route = "updateProfile"
    <2>1. PICK u : u = c.op.id
      OBVIOUS
    <2>2. c.saw.writes \in Nat /\ u \in DOMAIN users' \cup gone'
      BY <1>2, <2>1 DEF SawFine, WorldMoves, UsersMove, SettingsMove
    <2>3. ASSUME u \in DOMAIN users'
          PROVE  /\ c.saw.writes <= users'[u].writes
                 /\ c.saw.writes = users'[u].writes => c.saw.profile = users'[u].profile
      <3>1. u \in DOMAIN users
        BY <1>2, <2>1, <2>3 DEF SawFine, WorldMoves, UsersMove, SettingsMove
      <3>2. users[u].writes \in Nat /\ users'[u].writes \in Nat
        BY <2>3, <3>1 DEF StoresFine, UsersFine, UserFine
      <3>3. c.saw.writes <= users[u].writes /\ (c.saw.writes = users[u].writes => c.saw.profile = users[u].profile)
        BY <1>2, <2>1, <3>1 DEF SawFine
      <3>4. users[u].writes <= users'[u].writes
            /\ (users[u].writes = users'[u].writes => users[u].profile = users'[u].profile)
        BY <2>3, <3>1 DEF WorldMoves, UsersMove, SettingsMove
      <3> QED BY <2>2, <3>2, <3>3, <3>4
    <2> QED BY <1>2, <2>1, <2>2, <2>3 DEF SawFine
  <1>3. CASE c.op.route \notin {"patchUI", "updateProfile"}
    BY <1>3 DEF SawFine
  <1> QED BY <1>1, <1>2, <1>3

\* Whoever a walk has passed stays behind it, as long as nobody is deleted.
LEMMA WalkStands ==
  ASSUME StoresFine, StoresFine', WorldMoves, NEW c, CallTyped(c), WalkFine(c)
  PROVE  WalkFine(c)'
  <1> SUFFICES ASSUME c.op # NoValue, c.goneAt = gone' PROVE WalkFine(c)'
    BY DEF WalkFine
  <1>1. gone' = gone /\ c.goneAt = gone /\ DOMAIN users \subseteq DOMAIN users'
    BY DEF CallTyped, WorldMoves, UsersMove, StoresFine, UsersFine
  <1>2. \A u : Position(u) \in Nat /\ Position(u)' \in Nat /\ Position(u) <= Position(u)'
    <2>1. \A u : Position(u) \in Nat
      BY PositionsCount DEF StoresFine
    <2>2. \A u : Position(u)' \in Nat
      <3> TAKE u
      <3>1. PICK A, B : A = DOMAIN users' /\ B = {v \in A : v < u}
        OBVIOUS
      <3>2. IsFiniteSet(A) /\ B \subseteq A
        BY <3>1 DEF StoresFine, UsersFine
      <3>3. Cardinality(B) \in Nat
        BY <3>2, FS_Subset, FS_CardinalityType
      <3> QED BY <3>1, <3>3 DEF Position
    <2> QED BY <1>1, <2>1, <2>2, PositionsGrow DEF StoresFine
  <1> QED BY <1>1, <1>2, BatchAssumption DEF WalkFine, CallTyped

\* A request that does not move stays fine when others do.
LEMMA CallStands ==
  ASSUME StoresFine, StoresFine', WorldMoves, NEW c, CallHolds(c)
  PROVE  CallHolds(c)'
  <1>1. CallTyped(c)'
    BY DEF CallHolds, CallTyped, WorldMoves, UsersMove
  <1> QED BY <1>1, StandingStands, SawStands, WalkStands DEF CallHolds

\* A deletion that is marked as touched promises nothing.
LEMMA TouchedFine ==
  ASSUME NEW c, CallHolds(c)', NEW d, d = [c EXCEPT !.touched = TRUE]
  PROVE  CallFine(d)'
  <1>1. /\ d = [pc |-> c.pc, op |-> c.op, cred |-> c.cred, ok |-> c.ok, todo |-> c.todo, offset |-> c.offset,
                saw |-> c.saw, before |-> c.before, goneAt |-> c.goneAt, reached |-> c.reached, touched |-> TRUE]
    BY DEF CallHolds, CallTyped
  <1>2. CallTyped(d)'
    BY <1>1 DEF CallHolds, CallTyped
  <1>3. StandingFine(d)' /\ SawFine(d)' /\ WalkFine(d)' /\ DepartFine(d)'
    BY <1>1 DEF CallHolds, StandingFine, HasStanding, SawFine, WalkFine, DepartFine
  <1> QED BY <1>2, <1>3 DEF CallFine, CallHolds

\* For everybody but user u nothing is added to what a departure removes.
ShrinksBut(u) ==
  /\ \A a \in rbac'.userRoles : a \in rbac.userRoles \/ a[1] = u
  /\ \A v \in UserIDs : v = u \/ GetTenantsForUser(tenancy', v) \subseteq GetTenantsForUser(tenancy, v)
  /\ metadata' \subseteq metadata \cup {u}

Shrinks ==
  /\ rbac'.userRoles \subseteq rbac.userRoles
  /\ \A v \in UserIDs : GetTenantsForUser(tenancy', v) \subseteq GetTenantsForUser(tenancy, v)
  /\ metadata' \subseteq metadata

\* A departure that is not marked has nothing more to remove than before.
LEMMA DepartStands ==
  ASSUME StoresFine, WorldMoves, NEW c, CallTyped(c), DepartFine(c),
         Shrinks \/ (c.op # NoValue => c.op.route # "deleteAccount")
                 \/ \E u : ShrinksBut(u) /\ (c.op # NoValue => c.op.route # "deleteAccount" \/ c.op.id # u)
  PROVE  DepartFine(c)'
  <1> SUFFICES ASSUME c.pc \in Busy, c.op.route = "deleteAccount", c.touched = FALSE PROVE DepartFine(c)'
    BY DEF DepartFine
  <1>1. c.op \in deploy.ops /\ c.op # NoValue /\ c.op.id \in UserIDs
    BY DeploymentAssumption DEF CallTyped, StoresFine
  <1>2. /\ GetRolesForUser(rbac', c.op.id, c.op.tenant) \subseteq GetRolesForUser(rbac, c.op.id, c.op.tenant)
        /\ GetTenantsForUser(tenancy', c.op.id) \subseteq GetTenantsForUser(tenancy, c.op.id)
        /\ c.op.id \in metadata' => c.op.id \in metadata
    <2>1. CASE Shrinks
      BY <1>1, <2>1 DEF Shrinks, GetRolesForUser
    <2>2. CASE \E u : ShrinksBut(u) /\ c.op.id # u
      <3>1. PICK u : ShrinksBut(u) /\ c.op.id # u
        BY <2>2
      <3> QED BY <1>1, <3>1 DEF ShrinksBut, GetRolesForUser
    <2> QED BY <1>1, <2>1, <2>2
  <1> QED BY <1>2 DEF DepartFine

\* A step of one request leaves all requests fine when its own is.
LEMMA OneMoves ==
  ASSUME IInv, StoresFine', WorldMoves, Shrinks, NEW r \in Requests, NEW x, CallFine(x)',
         call' = [call EXCEPT ![r] = x]
  PROVE  CallsFine'
  <1>1. call' = [q \in Requests |-> call'[q]] /\ call'[r] = x /\ \A q \in Requests \ {r} : call'[q] = call[q]
    BY DEF IInv, CallsFine
  <1>2. ASSUME NEW q \in Requests \ {r}, NEW c, c = call[q]
        PROVE  CallFine(c)'
    BY <1>2, CallStands, DepartStands DEF IInv, CallsFine, CallFine, CallHolds
  <1>3. ASSUME NEW q \in Requests, NEW c, c = call'[q]
        PROVE  CallFine(c)'
    BY <1>1, <1>2, <1>3
  <1> QED BY <1>1, <1>3 DEF CallsFine, CallFine, CallHolds, CallTyped, StandingFine, HasStanding, SawFine, DepartFine, WalkFine

\* A change for user u, which marks the deletions of u that are under way.
LEMMA OneTouches ==
  ASSUME IInv, StoresFine', WorldMoves, NEW u, ShrinksBut(u), NEW r \in Requests, NEW x, CallFine(x)', x.op = NoValue,
         call' = Touch([call EXCEPT ![r] = x], u)
  PROVE  CallsFine'
  <1>1. /\ call' = [q \in Requests |-> call'[q]] /\ call'[r] = x
        /\ \A q \in Requests \ {r} :
             call'[q] = IF call[q].op # NoValue /\ call[q].op.route = "deleteAccount" /\ call[q].op.id = u
                        THEN [call[q] EXCEPT !.touched = TRUE] ELSE call[q]
    BY DEF IInv, CallsFine, Touch
  <1>2. ASSUME NEW q \in Requests \ {r}, NEW d, d = call'[q]
        PROVE  CallFine(d)'
    <2>1. PICK c : c = call[q]
      OBVIOUS
    <2>2. CallFine(c) /\ CallHolds(c)'
      BY <2>1, CallStands DEF IInv, CallsFine, CallFine
    <2>3. CASE c.op # NoValue /\ c.op.route = "deleteAccount" /\ c.op.id = u
      <3>1. d = [c EXCEPT !.touched = TRUE]
        BY <1>1, <1>2, <2>1, <2>3
      <3> QED BY <2>2, <3>1, TouchedFine
    <2>4. CASE ~(c.op # NoValue /\ c.op.route = "deleteAccount" /\ c.op.id = u)
      <3>1. d = c
        BY <1>1, <1>2, <2>1, <2>4
      <3>2. DepartFine(c)'
        BY <2>2, <2>4, DepartStands DEF IInv, CallFine, CallHolds
      <3> QED BY <2>2, <3>1, <3>2 DEF CallFine
    <2> QED BY <2>3, <2>4
  <1>3. ASSUME NEW q \in Requests, NEW c, c = call'[q]
        PROVE  CallFine(c)'
    BY <1>1, <1>2, <1>3
  <1> QED BY <1>1, <1>3 DEF CallsFine, CallFine, CallHolds, CallTyped, StandingFine, HasStanding, SawFine, DepartFine, WalkFine

(***************************************************************************)
(* The operations of the stores.                                           *)
(***************************************************************************)
\* A fine role store is one of the type.
LEMMA RolesAreTyped ==
  ASSUME NEW s, RolesFine(s)
  PROVE  s \in RolesStore
  <1>1. s.rolePermissions \in UNION {[R -> SUBSET Permissions] : R \in SUBSET Roles}
    BY DEF RolesFine
  <1> QED BY <1>1 DEF RolesFine, RolesStore

\* AddRoleToUser gives the role to that user only.
LEMMA AddRoleKeeps ==
  ASSUME NEW s, RolesFine(s), NEW u \in UserIDs, NEW t \in TenantIDs \cup {NoTenant}, NEW role, RoleExists(s, role)
  PROVE  /\ RolesFine(AddRoleToUser(s, u, role, t))
         /\ \A a \in AddRoleToUser(s, u, role, t).userRoles : a \in s.userRoles \/ a[1] = u
  <1>1. PICK z : z = AddRoleToUser(s, u, role, t)
    OBVIOUS
  <1>2. z = [rolePermissions |-> s.rolePermissions, userRoles |-> s.userRoles \cup {<<u, t, role>>}]
    BY <1>1 DEF AddRoleToUser, RolesFine
  <1>3. role \in Roles
    BY DEF RoleExists, RolesFine
  <1>4. \A a \in z.userRoles : RoleExists(z, a[3]) /\ (a \in s.userRoles \/ a[1] = u)
    BY <1>2 DEF RoleExists, RolesFine
  <1>5. z.userRoles \subseteq UserIDs \X (TenantIDs \cup {NoTenant}) \X Roles
    BY <1>2, <1>3 DEF RolesFine
  <1> QED BY <1>1, <1>2, <1>4, <1>5 DEF RolesFine

\* RemoveRoleFromUser takes the one assignment away.
LEMMA RemoveRoleKeeps ==
  ASSUME NEW s, RolesFine(s), NEW u, NEW t, NEW role
  PROVE  /\ RolesFine(RemoveRoleFromUser(s, u, role, t))
         /\ RemoveRoleFromUser(s, u, role, t).userRoles = s.userRoles \ {<<u, t, role>>}
  <1>1. PICK z : z = RemoveRoleFromUser(s, u, role, t)
    OBVIOUS
  <1>2. z = [rolePermissions |-> s.rolePermissions, userRoles |-> s.userRoles \ {<<u, t, role>>}]
    BY <1>1 DEF RemoveRoleFromUser, RolesFine
  <1> QED BY <1>1, <1>2 DEF RolesFine, RoleExists

\* Whatever changes only which permissions roles have, forgetting no role.
LEMMA PermissionsKeep ==
  ASSUME NEW s, RolesFine(s), NEW R, R \subseteq Roles, DOMAIN s.rolePermissions \subseteq R,
         NEW f, f \in [R -> SUBSET Permissions]
  PROVE  RolesFine([s EXCEPT !.rolePermissions = f]) /\ [s EXCEPT !.rolePermissions = f].userRoles = s.userRoles
  <1>1. PICK z : z = [s EXCEPT !.rolePermissions = f]
    OBVIOUS
  <1>2. z = [rolePermissions |-> f, userRoles |-> s.userRoles] /\ DOMAIN f = R
    BY <1>1 DEF RolesFine
  <1> QED BY <1>1, <1>2 DEF RolesFine, RoleExists

\* CreateRole assigns nothing.
LEMMA CreateRoleKeeps ==
  ASSUME NEW s, RolesFine(s), NEW role \in Roles, NEW P, P \subseteq Permissions
  PROVE  RolesFine(CreateRole(s, role, P)) /\ CreateRole(s, role, P).userRoles = s.userRoles
  <1>1. PICK f : f = Put(s.rolePermissions, role, P)
    OBVIOUS
  <1>2. PICK R : R = DOMAIN s.rolePermissions \cup {role}
    OBVIOUS
  <1>3. R \subseteq Roles /\ f \in [R -> SUBSET Permissions]
    BY <1>1, <1>2 DEF Put, RolesFine
  <1> QED BY <1>1, <1>2, <1>3, PermissionsKeep DEF CreateRole

\* AddPermissionToRole creates the role it does not find, and assigns nothing.
LEMMA AddPermissionKeeps ==
  ASSUME NEW s, RolesFine(s), NEW role \in Roles, NEW p \in Permissions
  PROVE  RolesFine(AddPermissionToRole(s, role, p)) /\ AddPermissionToRole(s, role, p).userRoles = s.userRoles
  <1>1. PICK P : P = {p} \cup IF RoleExists(s, role) THEN s.rolePermissions[role] ELSE {}
    OBVIOUS
  <1>2. P \subseteq Permissions
    BY <1>1 DEF RoleExists, RolesFine
  <1>3. AddPermissionToRole(s, role, p) = CreateRole(s, role, P)
    BY <1>1 DEF AddPermissionToRole, CreateRole
  <1> QED BY <1>2, <1>3, CreateRoleKeeps

\* RemovePermissionFromRole assigns nothing.
LEMMA RemovePermissionKeeps ==
  ASSUME NEW s, RolesFine(s), NEW role, NEW p
  PROVE  RolesFine(RemovePermissionFromRole(s, role, p)) /\ RemovePermissionFromRole(s, role, p).userRoles = s.userRoles
  <1>1. CASE RoleExists(s, role)
    <2>1. PICK f : f = [s.rolePermissions EXCEPT ![role] = @ \ {p}]
      OBVIOUS
    <2>2. f \in [DOMAIN s.rolePermissions -> SUBSET Permissions] /\ DOMAIN s.rolePermissions \subseteq Roles
      BY <2>1 DEF RolesFine
    <2>3. RemovePermissionFromRole(s, role, p) = [s EXCEPT !.rolePermissions = f]
      BY <1>1, <2>1 DEF RemovePermissionFromRole, RolesFine
    <2> QED BY <2>2, <2>3, PermissionsKeep
  <1> QED BY <1>1 DEF RemovePermissionFromRole

\* DeleteRole takes the role from whoever has it, so that no assignment is left to dangle.
LEMMA DeleteRoleKeeps ==
  ASSUME NEW s, RolesFine(s), NEW role
  PROVE  RolesFine(DeleteRole(s, role)) /\ DeleteRole(s, role).userRoles \subseteq s.userRoles
  <1>1. PICK z : z = DeleteRole(s, role)
    OBVIOUS
  <1>2. z = [rolePermissions |-> Without(s.rolePermissions, role), userRoles |-> {a \in s.userRoles : a[3] # role}]
    BY <1>1 DEF DeleteRole, RolesFine
  <1>3. /\ DOMAIN z.rolePermissions = DOMAIN s.rolePermissions \ {role}
        /\ z.rolePermissions \in [DOMAIN z.rolePermissions -> SUBSET Permissions]
    BY <1>2 DEF Without, RolesFine
  <1> QED BY <1>1, <1>2, <1>3 DEF RolesFine, RoleExists

\* A tenant that is created brings no membership with it: every membership is of a tenant there is.
LEMMA CreateTenantKeeps ==
  ASSUME NEW s, TenantsFine(s), NEW t \in TenantIDs
  PROVE  /\ TenantsFine(CreateTenant(s, t))
         /\ \A v : GetTenantsForUser(CreateTenant(s, t), v) \subseteq GetTenantsForUser(s, v)
  <1>1. PICK z : z = CreateTenant(s, t)
    OBVIOUS
  <1>2. z = [byID |-> s.byID \cup {t}, userTenants |-> s.userTenants, tenantUsers |-> s.tenantUsers]
    BY <1>1 DEF TenantsFine, TenantStore, CreateTenant
  <1> QED BY <1>1, <1>2 DEF TenantsFine, TenantStore, GetTenantsForUser

\* DeleteTenant takes the tenant out of both indexes.
LEMMA DeleteTenantKeeps ==
  ASSUME NEW s, TenantsFine(s), NEW t
  PROVE  /\ TenantsFine(DeleteTenant(s, t))
         /\ \A v : GetTenantsForUser(DeleteTenant(s, t), v) \subseteq GetTenantsForUser(s, v)
  <1>1. PICK z : z = DeleteTenant(s, t)
    OBVIOUS
  <1>2. z = [byID |-> s.byID \ {t}, userTenants |-> {m \in s.userTenants : m[2] # t},
             tenantUsers |-> {m \in s.tenantUsers : m[1] # t}]
    BY <1>1 DEF DeleteTenant
  <1>3. \A u \in UserIDs, x \in TenantIDs : (<<u, x>> \in z.userTenants) <=> (<<x, u>> \in z.tenantUsers)
    BY <1>2 DEF TenantsFine
  <1>4. z \in TenantStore /\ \A m \in z.userTenants : m[2] \in z.byID
    BY <1>2 DEF TenantsFine, TenantStore
  <1> QED BY <1>1, <1>2, <1>3, <1>4 DEF TenantsFine, GetTenantsForUser

\* AssociateUserWithTenant writes both indexes, for that user only.
LEMMA AssociateKeeps ==
  ASSUME NEW s, TenantsFine(s), NEW u \in UserIDs, NEW t \in s.byID
  PROVE  /\ TenantsFine(AssociateUserWithTenant(s, u, t))
         /\ \A v : v = u \/ GetTenantsForUser(AssociateUserWithTenant(s, u, t), v) \subseteq GetTenantsForUser(s, v)
  <1>1. PICK z : z = AssociateUserWithTenant(s, u, t)
    OBVIOUS
  <1>2. z = [byID |-> s.byID, userTenants |-> s.userTenants \cup {<<u, t>>},
             tenantUsers |-> s.tenantUsers \cup {<<t, u>>}]
    BY <1>1 DEF TenantsFine, TenantStore, AssociateUserWithTenant
  <1>3. \A v \in UserIDs, x \in TenantIDs : (<<v, x>> \in z.userTenants) <=> (<<x, v>> \in z.tenantUsers)
    BY <1>2 DEF TenantsFine
  <1>4. z \in TenantStore /\ \A m \in z.userTenants : m[2] \in z.byID
    BY <1>2 DEF TenantsFine, TenantStore
  <1> QED BY <1>1, <1>2, <1>3, <1>4 DEF TenantsFine, GetTenantsForUser

\* DisassociateUserFromTenant clears both indexes.
LEMMA DisassociateKeeps ==
  ASSUME NEW s, TenantsFine(s), NEW u, NEW t
  PROVE  /\ TenantsFine(DisassociateUserFromTenant(s, u, t))
         /\ \A v : GetTenantsForUser(DisassociateUserFromTenant(s, u, t), v) \subseteq GetTenantsForUser(s, v)
         /\ t \notin GetTenantsForUser(DisassociateUserFromTenant(s, u, t), u)
  <1>1. PICK z : z = DisassociateUserFromTenant(s, u, t)
    OBVIOUS
  <1>2. z = [byID |-> s.byID, userTenants |-> s.userTenants \ {<<u, t>>},
             tenantUsers |-> s.tenantUsers \ {<<t, u>>}]
    BY <1>1 DEF TenantsFine, TenantStore, DisassociateUserFromTenant
  <1>3. \A v \in UserIDs, x \in TenantIDs : (<<v, x>> \in z.userTenants) <=> (<<x, v>> \in z.tenantUsers)
    BY <1>2 DEF TenantsFine
  <1>4. z \in TenantStore /\ \A m \in z.userTenants : m[2] \in z.byID
    BY <1>2 DEF TenantsFine, TenantStore
  <1> QED BY <1>1, <1>2, <1>3, <1>4 DEF TenantsFine, GetTenantsForUser

\* A fine key store is one of the type.
LEMMA KeysAreTyped ==
  ASSUME NEW s, NEW e, KeysFine(s, e)
  PROVE  s \in KeyStore
  <1>1. s.byID \in UNION {[K -> APIKeyRecord] : K \in SUBSET KeyIDs}
    BY DEF KeysFine
  <1>2. s.byPrefix \in UNION {[P -> KeyIDs] : P \in SUBSET KeyPrefixes}
    BY DEF KeysFine
  <1> QED BY <1>1, <1>2 DEF KeysFine, KeyStore

\* A prefix loses its key only if the key is gone.
StillFound(s, z) == \A p \in DOMAIN s.byPrefix :
  s.byPrefix[p] \in DOMAIN z.byID => p \in DOMAIN z.byPrefix

\* Saving a fresh key may take a prefix over, never lose one.
LEMMA SaveKeyKeeps ==
  ASSUME NEW s, NEW e, KeysFine(s, e), NEW id \in KeyIDs \ (DOMAIN s.byID \cup e), NEW x \in APIKeyRecord
  PROVE  KeysFine(SaveKey(s, id, x), e) /\ StillFound(s, SaveKey(s, id, x))
  <1>1. PICK z : z = SaveKey(s, id, x)
    OBVIOUS
  <1>2. z = [byID |-> Put(s.byID, id, x), byPrefix |-> Put(s.byPrefix, x.prefix, id)]
    BY <1>1 DEF SaveKey
  <1>3. /\ DOMAIN z.byID = DOMAIN s.byID \cup {id} /\ z.byID[id] = x
        /\ \A k \in DOMAIN s.byID : z.byID[k] = s.byID[k]
        /\ z.byID \in [DOMAIN z.byID -> APIKeyRecord]
    BY <1>2 DEF Put, KeysFine
  <1>4. x.prefix \in KeyPrefixes
    BY DEF APIKeyRecord
  <1>5. /\ DOMAIN z.byPrefix = DOMAIN s.byPrefix \cup {x.prefix} /\ z.byPrefix[x.prefix] = id
        /\ \A p \in DOMAIN s.byPrefix : p # x.prefix => z.byPrefix[p] = s.byPrefix[p]
        /\ z.byPrefix \in [DOMAIN z.byPrefix -> KeyIDs]
    BY <1>2, <1>4 DEF Put, KeysFine
  <1>6. z = [byID |-> z.byID, byPrefix |-> z.byPrefix]
    BY <1>2
  <1>7. /\ DOMAIN z.byID \subseteq KeyIDs /\ DOMAIN z.byPrefix \subseteq KeyPrefixes
        /\ \A p \in DOMAIN z.byPrefix : z.byPrefix[p] \in DOMAIN z.byID /\ z.byID[z.byPrefix[p]].prefix = p
        /\ \A k \in e \cap DOMAIN z.byID : ~z.byID[k].active
    BY <1>3, <1>4, <1>5 DEF KeysFine
  <1>8. KeysFine(z, e)
    BY <1>3, <1>5, <1>6, <1>7 DEF KeysFine
  <1> QED BY <1>1, <1>5, <1>8 DEF StillFound

\* A record that keeps its prefix may change, but never becomes active again.
LEMMA RewriteKeeps ==
  ASSUME NEW s, NEW e, KeysFine(s, e), NEW id \in DOMAIN s.byID, NEW x \in APIKeyRecord,
         x.prefix = s.byID[id].prefix, x.active => s.byID[id].active,
         NEW z, z = [s EXCEPT !.byID = [s.byID EXCEPT ![id] = x]]
  PROVE  KeysFine(z, e) /\ StillFound(s, z)
  <1>1. /\ z = [byID |-> z.byID, byPrefix |-> s.byPrefix]
        /\ DOMAIN z.byID = DOMAIN s.byID /\ z.byID[id] = x
        /\ \A k \in DOMAIN s.byID : k # id => z.byID[k] = s.byID[k]
        /\ z.byID \in [DOMAIN s.byID -> APIKeyRecord]
    BY DEF KeysFine
  <1> QED BY <1>1 DEF KeysFine, StillFound

\* RevokeKey leaves the index alone and ends the key.
LEMMA RevokeKeeps ==
  ASSUME NEW s, NEW e, KeysFine(s, e), NEW id
  PROVE  KeysFine(RevokeKey(s, id), e \cup {id}) /\ StillFound(s, RevokeKey(s, id))
  <1>1. CASE id \in DOMAIN s.byID
    <2>1. PICK y, x : y = s.byID[id] /\ x = [y EXCEPT !.active = FALSE]
      OBVIOUS
    <2>2. x \in APIKeyRecord /\ x.prefix = y.prefix /\ x.active = FALSE
      <3>1. y \in APIKeyRecord
        BY <1>1, <2>1 DEF KeysFine
      <3> QED BY <2>1, <3>1 DEF APIKeyRecord
    <2>3. PICK z : z = [s EXCEPT !.byID = [s.byID EXCEPT ![id] = x]]
      OBVIOUS
    <2>4. RevokeKey(s, id) = z
      BY <1>1, <2>1, <2>3 DEF RevokeKey, KeysFine
    <2>5. KeysFine(z, e) /\ StillFound(s, z)
      BY <1>1, <2>1, <2>2, <2>3, RewriteKeeps
    <2>6. z.byID[id].active = FALSE
      BY <1>1, <2>2, <2>3 DEF KeysFine
    <2> QED BY <2>4, <2>5, <2>6 DEF KeysFine
  <1>2. CASE id \notin DOMAIN s.byID
    BY <1>2 DEF RevokeKey, KeysFine, StillFound
  <1> QED BY <1>1, <1>2

\* UpdateLastUsed writes the stamp on the record there is: a revoked key stays revoked.
LEMMA StampKeeps ==
  ASSUME NEW s, NEW e, KeysFine(s, e), NEW id, NEW saw
  PROVE  KeysFine(UpdateLastUsed(s, id, saw), e) /\ StillFound(s, UpdateLastUsed(s, id, saw))
  <1>1. CASE id \in DOMAIN s.byID
    <2>1. PICK y, x : y = s.byID[id] /\ x = [y EXCEPT !.lastUsed = TRUE]
      OBVIOUS
    <2>2. x \in APIKeyRecord /\ x.prefix = y.prefix /\ x.active = y.active
      <3>1. y \in APIKeyRecord
        BY <1>1, <2>1 DEF KeysFine
      <3> QED BY <2>1, <3>1 DEF APIKeyRecord
    <2>3. UpdateLastUsed(s, id, saw) = [s EXCEPT !.byID = [s.byID EXCEPT ![id] = x]]
      BY <1>1, <2>1 DEF UpdateLastUsed, KeysFine
    <2> QED BY <1>1, <2>1, <2>2, <2>3, RewriteKeeps
  <1>2. CASE id \notin DOMAIN s.byID
    BY <1>2 DEF UpdateLastUsed, KeysFine, StillFound
  <1> QED BY <1>1, <1>2

\* A key's expiry leaves the rest of the store alone.
LEMMA ExpiryKeeps ==
  ASSUME NEW s, NEW e, KeysFine(s, e), NEW id \in DOMAIN s.byID, NEW z, z = [s EXCEPT !.byID[id].expired = TRUE]
  PROVE  KeysFine(z, e) /\ StillFound(s, z)
  <1>1. PICK y, x : y = s.byID[id] /\ x = [y EXCEPT !.expired = TRUE]
    OBVIOUS
  <1>2. x \in APIKeyRecord /\ x.prefix = y.prefix /\ x.active = y.active
    <2>1. y \in APIKeyRecord
      BY <1>1 DEF KeysFine
    <2> QED BY <1>1, <2>1 DEF APIKeyRecord
  <1>3. z = [s EXCEPT !.byID = [s.byID EXCEPT ![id] = x]]
    BY <1>1 DEF KeysFine
  <1> QED BY <1>1, <1>2, <1>3, RewriteKeeps

\* DeleteKey gives the prefix up only where it leads to the deleted key.
LEMMA DeleteKeyKeeps ==
  ASSUME NEW s, NEW e, KeysFine(s, e), NEW id
  PROVE  KeysFine(DeleteKey(s, id), e \cup {id}) /\ StillFound(s, DeleteKey(s, id))
  <1>1. CASE id \notin DOMAIN s.byID
    BY <1>1 DEF DeleteKey, KeysFine, StillFound
  <1>2. CASE id \in DOMAIN s.byID
    <2>1. PICK z, p : z = DeleteKey(s, id) /\ p = s.byID[id].prefix
      OBVIOUS
    <2>2. z = [byID |-> Without(s.byID, id),
               byPrefix |-> IF p \in DOMAIN s.byPrefix /\ s.byPrefix[p] = id
                            THEN Without(s.byPrefix, p) ELSE s.byPrefix]
      BY <1>2, <2>1 DEF DeleteKey
    <2>3. /\ DOMAIN z.byID = DOMAIN s.byID \ {id}
          /\ \A k \in DOMAIN z.byID : z.byID[k] = s.byID[k]
          /\ z.byID \in [DOMAIN z.byID -> APIKeyRecord]
      BY <2>2 DEF Without, KeysFine
    <2>4. /\ DOMAIN z.byPrefix \subseteq DOMAIN s.byPrefix
          /\ \A q \in DOMAIN z.byPrefix : z.byPrefix[q] = s.byPrefix[q]
          /\ z.byPrefix \in [DOMAIN z.byPrefix -> KeyIDs]
          /\ \A q \in DOMAIN s.byPrefix : (q \in DOMAIN z.byPrefix) <=> ~(q = p /\ s.byPrefix[q] = id)
      BY <2>2 DEF Without, KeysFine
    <2>5. \A q \in DOMAIN s.byPrefix : s.byPrefix[q] = id => q = p
      BY <2>1 DEF KeysFine
    <2>6. z = [byID |-> z.byID, byPrefix |-> z.byPrefix]
      BY <2>2
    <2>7. \A q \in DOMAIN z.byPrefix : z.byPrefix[q] \in DOMAIN z.byID /\ z.byID[z.byPrefix[q]].prefix = q
      BY <2>3, <2>4, <2>5 DEF KeysFine
    <2>8. KeysFine(z, e \cup {id})
      BY <2>3, <2>4, <2>6, <2>7 DEF KeysFine
    <2> QED BY <2>1, <2>3, <2>4, <2>8 DEF StillFound
  <1> QED BY <1>1, <1>2

\* A tenant that ends ends no key.
LEMMA TenantEndKeeps ==
  ASSUME NEW s, NEW e, KeysFine(s, e), NEW t \in TenantIDs
  PROVE  KeysFine(s, e \cup {t})
  BY StartAssumption DEF KeysFine

(***************************************************************************)
(* The user table and the settings.                                        *)
(***************************************************************************)
\* A new user's record has the shape of one.
LEMMA NewUserFine == \A t, admin : admin \in BOOLEAN => UserFine(NewUser(t, admin))
  BY DEF UserFine, NewUser

\* A registration adds a user under an id nobody has had.
LEMMA RegisterKeeps ==
  ASSUME UsersFine, NEW u \in UserIDs, NEW t, u \notin DOMAIN users \cup gone,
         users' = Put(users, u, NewUser(t, FALSE)), gone' = gone
  PROVE  UsersFine' /\ UsersMove
  <1>1. /\ DOMAIN users' = DOMAIN users \cup {u} /\ users'[u] = NewUser(t, FALSE)
        /\ \A v \in DOMAIN users : users'[v] = users[v]
    BY DEF Put
  <1>2. IsFiniteSet(DOMAIN users \cup {u})
    BY FS_AddElement DEF UsersFine
  <1>3. UsersFine'
    <2>1. \A v \in DOMAIN users' : UserFine(users'[v])
      BY <1>1, NewUserFine DEF UsersFine
    <2> QED BY <1>1, <1>2, <2>1 DEF UsersFine
  <1>4. \A v \in DOMAIN users : users[v].writes \in Nat
    BY DEF UsersFine, UserFine
  <1>5. UsersMove
    <2>1. \A v \in DOMAIN users \cap DOMAIN users' : users'[v] = users[v] /\ users[v].writes <= users'[v].writes
      <3>1. \A v \in DOMAIN users : users'[v] = users[v]
        BY <1>1
      <3>2. \A v \in DOMAIN users : users[v].writes <= users[v].writes
        BY <1>4
      <3> QED BY <3>1, <3>2
    <2>2. \A v \in DOMAIN users' : v \in DOMAIN users \/ v \notin gone
      BY <1>1
    <2>3. gone \subseteq gone' /\ DOMAIN users \subseteq DOMAIN users' \cup gone'
      BY <1>1
    <2> QED BY <2>1, <2>2, <2>3 DEF UsersMove
  <1> QED BY <1>3, <1>5

\* A removal takes one user away for good.
LEMMA RemovalKeeps ==
  ASSUME UsersFine, NEW u \in DOMAIN users, RemoveUser(u)
  PROVE  UsersFine' /\ UsersMove
  <1>1. /\ DOMAIN users' = DOMAIN users \ {u} /\ gone' = gone \cup {u}
        /\ \A v \in DOMAIN users' : users'[v] = users[v]
    BY DEF RemoveUser, Without
  <1>2. IsFiniteSet(DOMAIN users \ {u})
    BY FS_Subset DEF UsersFine
  <1>3. UsersFine'
    BY <1>1, <1>2 DEF UsersFine, UserFine
  <1>4. \A v \in DOMAIN users : users[v].writes \in Nat
    BY DEF UsersFine, UserFine
  <1> QED BY <1>1, <1>3, <1>4 DEF UsersMove

\* An update of one record that keeps its flag, and counts its write, is a move of the table.
LEMMA UserUpdateKeeps ==
  ASSUME UsersFine, NEW u \in DOMAIN users, NEW x, UserFine(x), users[u].isAdmin => x.isAdmin,
         \/ x.writes = users[u].writes /\ x.profile = users[u].profile
         \/ x.writes = users[u].writes + 1,
         users' = [users EXCEPT ![u] = x], gone' = gone
  PROVE  UsersFine' /\ UsersMove
  <1>1. /\ DOMAIN users' = DOMAIN users /\ users'[u] = x
        /\ \A v \in DOMAIN users : v # u => users'[v] = users[v]
    OBVIOUS
  <1>2. UsersFine'
    BY <1>1 DEF UsersFine, UserFine
  <1>3. \A v \in DOMAIN users : users[v].writes \in Nat
    BY DEF UsersFine, UserFine
  <1> QED BY <1>1, <1>2, <1>3 DEF UsersMove

\* The table after a step that leaves it alone.
LEMMA UsersRest ==
  ASSUME UsersFine, users' = users, gone' = gone
  PROVE  UsersFine' /\ UsersMove
  <1>1. \A v \in DOMAIN users : users[v].writes \in Nat
    BY DEF UsersFine, UserFine
  <1> QED BY <1>1 DEF UsersFine, UsersMove

\* The settings after a step that leaves them alone.
LEMMA SettingsRest == ASSUME SettingsFine, settings' = settings PROVE SettingsFine' /\ SettingsMove
  BY DEF SettingsFine, SettingsMove

\* A patch that brings a whole ui block, or none, and counts it if it does.
LEMMA PatchKeeps ==
  ASSUME SettingsFine, NEW patch, "writes" \notin DOMAIN patch,
         "ui" \in DOMAIN patch => patch.ui = [f \in Fields |-> patch.ui[f]], NEW k,
         k = (IF "ui" \in DOMAIN patch THEN 1 ELSE 0),
         settings' = [UpdateSettings(settings, patch) EXCEPT !.writes = @ + k]
  PROVE  SettingsFine' /\ SettingsMove
  <1>1. PICK s : s = settings /\ s = [require2FA |-> s.require2FA, ui |-> s.ui, writes |-> s.writes]
    BY DEF SettingsFine
  <1>2. UpdateSettings(s, patch)
          = [require2FA |-> IF "require2FA" \in DOMAIN patch THEN patch["require2FA"] ELSE s.require2FA,
             ui |-> IF "ui" \in DOMAIN patch THEN patch["ui"] ELSE s.ui, writes |-> s.writes]
    BY <1>1 DEF UpdateSettings, MergeSettings
  <1>3. /\ settings' = [require2FA |-> settings'.require2FA, ui |-> settings'.ui, writes |-> settings'.writes]
        /\ settings'.ui = (IF "ui" \in DOMAIN patch THEN patch["ui"] ELSE s.ui) /\ settings'.writes = s.writes + k
    BY <1>1, <1>2
  <1> QED BY <1>1, <1>3 DEF SettingsFine, SettingsMove

(***************************************************************************)
(* How a step reaches the invariant.                                       *)
(***************************************************************************)
\* What is fine of the users and the settings, and what moved of them, put together.
LEMMA WorldKeeps ==
  ASSUME StoresFine, deploy' = deploy, rootLogin' = rootLogin,
         UsersFine' /\ UsersMove, SettingsFine' /\ SettingsMove,
         RolesFine(rbac'), TenantsFine(tenancy'), KeysFine(keys', ended'),
         metadata' \subseteq UserIDs, ended' \subseteq KeyIDs \cup TenantIDs
  PROVE  StoresFine' /\ WorldMoves
  BY DEF StoresFine, WorldMoves, RolesFine, TenantsFine, KeysFine, RoleExists

\* The stores after a step that leaves them all alone.
LEMMA StoresRest ==
  ASSUME StoresFine, UNCHANGED <<deploy, users, stores, rootLogin, gone, ended>>
  PROVE  StoresFine' /\ WorldMoves /\ Shrinks
  <1>1. UsersFine' /\ UsersMove /\ SettingsFine' /\ SettingsMove
    BY UsersRest, SettingsRest DEF StoresFine, stores
  <1>2. rbac' = rbac /\ tenancy' = tenancy /\ metadata' = metadata /\ keys' = keys /\ ended' = ended
    BY DEF stores
  <1>3. Shrinks
    BY <1>2 DEF Shrinks
  <1> QED BY <1>1, <1>2, <1>3, WorldKeeps DEF StoresFine

\* What is known of a request whatever it is doing.
LEMMA Holds ==
  ASSUME IInv, NEW r \in Requests
  PROVE  /\ CallFine(call[r]) /\ CallHolds(call[r]) /\ CallTyped(call[r])
         /\ call[r].pc \in Busy => call[r].op # NoValue /\ call[r].op \in deploy.ops
  BY DeploymentAssumption DEF IInv, CallsFine, CallFine, CallHolds, CallTyped, StoresFine

\* The one request that moves needs to be fine in the old world, but for what a
\* departure has left to remove.
LEMMA MoveKeeps ==
  ASSUME IInv, StoresFine', WorldMoves, Shrinks, NEW r \in Requests, NEW x, CallHolds(x), DepartFine(x)',
         call' = [call EXCEPT ![r] = x]
  PROVE  IInv'
  <1>1. CallHolds(x)'
    BY CallStands DEF IInv
  <1> QED BY <1>1, OneMoves DEF IInv, CallFine

\* A step that only moves one request.
LEMMA QuietKeeps ==
  ASSUME IInv, UNCHANGED <<deploy, users, stores, rootLogin, gone, ended>>, NEW r \in Requests, NEW x, CallFine(x),
         call' = [call EXCEPT ![r] = x]
  PROVE  IInv'
  <1>1. StoresFine' /\ WorldMoves /\ Shrinks
    BY StoresRest DEF IInv
  <1>2. DepartFine(x)'
    BY <1>1, DepartStands DEF IInv, CallFine, CallHolds
  <1> QED BY <1>1, <1>2, MoveKeeps DEF CallFine

\* A step that moves no request.
LEMMA NoneMoves ==
  ASSUME IInv, StoresFine', WorldMoves, Shrinks, call' = call
  PROVE  IInv'
  <1>1. ASSUME NEW q \in Requests, NEW c, c = call[q]
        PROVE  CallFine(c)'
    BY <1>1, CallStands, DepartStands DEF IInv, CallsFine, CallFine, CallHolds
  <1>2. ASSUME NEW q \in Requests, NEW c, c = call'[q]
        PROVE  CallFine(c)'
    BY <1>1, <1>2
  <1>3. call' = [r \in Requests |-> call'[r]]
    BY DEF IInv, CallsFine
  <1>4. CallsFine'
    BY <1>2, <1>3 DEF CallsFine, CallFine, CallHolds, CallTyped, StandingFine, HasStanding, SawFine, DepartFine, WalkFine
  <1> QED BY <1>4 DEF IInv

Over(ok) == [Idle EXCEPT !.pc = "done", !.ok = ok]

\* An answered request that is forgotten has the shape of an idle one.
LEMMA OverShape ==
  ASSUME NEW ok, NEW x, x = Over(ok)
  PROVE  x = [pc |-> "done", op |-> NoValue, cred |-> NoValue, ok |-> ok, todo |-> {}, offset |-> 0, saw |-> NoValue,
              before |-> {}, goneAt |-> {}, reached |-> {}, touched |-> FALSE]
  BY DEF Over, Idle

\* An answered request claims nothing.
LEMMA OverIsFine ==
  ASSUME NEW ok \in {"yes", "no", "refused"}, NEW x, x = Over(ok)
  PROVE  CallFine(x) /\ CallFine(x)' /\ x.op = NoValue
  <1>1. PICK z : z = x /\ z = [pc |-> "done", op |-> NoValue, cred |-> NoValue, ok |-> ok, todo |-> {}, offset |-> 0,
                               saw |-> NoValue, before |-> {}, goneAt |-> {}, reached |-> {}, touched |-> FALSE]
    BY OverShape
  <1>2. z.pc = "done" /\ z.op = NoValue /\ z.ok = ok /\ z.offset = 0 /\ z.goneAt = {} /\ z.touched = FALSE
    BY <1>1
  <1>3. z = [pc |-> z.pc, op |-> z.op, cred |-> z.cred, ok |-> z.ok, todo |-> z.todo, offset |-> z.offset,
             saw |-> z.saw, before |-> z.before, goneAt |-> z.goneAt, reached |-> z.reached, touched |-> z.touched]
    BY <1>1
  <1>4. CallTyped(z) /\ CallTyped(z)'
    <2>1. /\ z.pc \in Busy \cup {"idle", "done"} /\ z.ok \in {"open", "yes", "no", "refused"}
          /\ z.pc \notin Busy /\ z.pc \notin {"idle", "page", "write", "roles", "tenants", "record"}
      BY <1>2 DEF Busy, Admitted
    <2>2. z.offset \in Nat /\ z.goneAt \subseteq gone /\ z.goneAt \subseteq gone'
      BY <1>2
    <2>3. z.touched \in BOOLEAN
      BY <1>2
    <2> QED BY <1>2, <1>3, <2>1, <2>2, <2>3 DEF CallTyped
  <1>5. StandingFine(z) /\ StandingFine(z)' /\ SawFine(z) /\ SawFine(z)' /\ DepartFine(z) /\ DepartFine(z)'
    BY <1>2 DEF StandingFine, SawFine, DepartFine, Admitted, Busy
  <1>6. WalkFine(z) /\ WalkFine(z)'
    BY <1>2 DEF WalkFine
  <1> QED BY <1>1, <1>2, <1>4, <1>5, <1>6 DEF CallFine, CallHolds

\* A step that answers its request, of any route but the walk's success.
LEMMA AnswerKeeps ==
  ASSUME IInv, StoresFine', WorldMoves, Shrinks, NEW r \in Requests, NEW ok \in {"yes", "no", "refused"},
         call[r].op.route # "twoFAPolicy" \/ ok # "yes", Answer(r, ok)
  PROVE  IInv'
  <1>1. PICK x : x = Over(ok)
    OBVIOUS
  <1>2. call' = [call EXCEPT ![r] = x]
    BY <1>1 DEF Answer, Answered, Op, Over
  <1> QED BY <1>1, <1>2, OverIsFine, OneMoves DEF IInv

\* A step that answers its request and marks the deletions of the user it wrote for.
LEMMA TouchKeeps ==
  ASSUME IInv, StoresFine', WorldMoves, NEW u, ShrinksBut(u), NEW r \in Requests,
         call[r].op.route # "twoFAPolicy", call' = Touch(Answered(r, "yes"), u)
  PROVE  IInv'
  <1>1. PICK x : x = Over("yes")
    OBVIOUS
  <1>2. Answered(r, "yes") = [call EXCEPT ![r] = x]
    BY <1>1 DEF Answered, Op, Over
  <1> QED BY <1>1, <1>2, OverIsFine, OneTouches DEF IInv

\* What a request remembers of its arrival stays as it is.
Like(c, x) ==
  x = [pc |-> x.pc, op |-> c.op, cred |-> c.cred, ok |-> c.ok, todo |-> x.todo, offset |-> x.offset, saw |-> x.saw,
       before |-> c.before, goneAt |-> c.goneAt, reached |-> x.reached, touched |-> x.touched]

\* A step of a request keeps what it was called with.
LEMMA StayTyped ==
  ASSUME NEW c, CallTyped(c), c.pc \in Busy, NEW x, Like(c, x), x.pc \in Busy, x.offset \in Nat, x.touched \in BOOLEAN,
         x.pc = "page" => c.op.route = "twoFAPolicy",
         x.pc \in {"roles", "tenants", "record"} => c.op.route = "deleteAccount",
         x.pc = "write" => c.op.route \in {"patchUI", "updateProfile"}
  PROVE  CallTyped(x)
  <1>1. x.op = c.op /\ x.ok = c.ok /\ x.goneAt = c.goneAt /\ x.cred = c.cred /\ x.before = c.before
    BY DEF Like
  <1>2. x = [pc |-> x.pc, op |-> x.op, cred |-> x.cred, ok |-> x.ok, todo |-> x.todo, offset |-> x.offset,
             saw |-> x.saw, before |-> x.before, goneAt |-> x.goneAt, reached |-> x.reached, touched |-> x.touched]
    BY <1>1 DEF Like
  <1>3. x.pc # "idle" /\ x.pc # "done"
    BY DEF Busy, Admitted
  <1> QED BY <1>1, <1>2, <1>3 DEF CallTyped

\* From one store call of a handler to the next, but for the walk.
LEMMA Onward ==
  ASSUME NEW c, CallHolds(c), c.pc \in Admitted \ {"page"}, NEW x, Like(c, x), x.pc \in Admitted \ {"page"},
         x.offset = c.offset, x.reached = c.reached, x.touched \in BOOLEAN,
         x.pc \in {"roles", "tenants", "record"} => c.op.route = "deleteAccount",
         x.pc = "write" => c.op.route \in {"patchUI", "updateProfile"} /\ SawFine(x)
  PROVE  CallHolds(x)
  <1>1. x.op = c.op /\ x.cred = c.cred /\ x.before = c.before /\ x.goneAt = c.goneAt
    BY DEF Like
  <1>2. x.pc \in Busy /\ c.pc \in Busy /\ x.pc \notin {"user", "policy", "page", "done"}
    BY DEF Busy, Admitted
  <1>3. CallTyped(x)
    BY <1>2, StayTyped DEF CallHolds, CallTyped
  <1>4. StandingFine(x)
    BY <1>1, <1>2 DEF CallHolds, StandingFine, HasStanding
  <1>5. SawFine(x)
    BY DEF SawFine
  <1>6. WalkFine(x)
    BY <1>1, <1>2 DEF CallHolds, WalkFine
  <1> QED BY <1>3, <1>4, <1>5, <1>6 DEF CallHolds

\* From the guard to the handler.
LEMMA Admits ==
  ASSUME NEW c, CallHolds(c), c.pc \in {"user", "policy"}, NEW x, x = [c EXCEPT !.pc = "serve"],
         deploy.policy # "open" => HasStanding(c)
  PROVE  CallFine(x)
  <1>1. Like(c, x) /\ x.pc = "serve" /\ x.offset = c.offset /\ x.reached = c.reached /\ x.touched = c.touched
    BY DEF CallHolds, CallTyped, Like
  <1>2. x.op = c.op /\ x.cred = c.cred /\ x.before = c.before /\ x.goneAt = c.goneAt
    BY <1>1 DEF Like
  <1>3. x.pc \in Busy /\ c.pc \in Busy
    BY <1>1 DEF Busy, Admitted
  <1>4. CallTyped(x)
    BY <1>1, <1>3, StayTyped DEF CallHolds, CallTyped
  <1>5. StandingFine(x) /\ SawFine(x) /\ DepartFine(x)
    BY <1>1, <1>2 DEF StandingFine, HasStanding, SawFine, DepartFine
  <1>6. WalkFine(x)
    BY <1>1, <1>2, <1>3 DEF CallHolds, WalkFine
  <1> QED BY <1>4, <1>5, <1>6 DEF CallFine, CallHolds

(***************************************************************************)
(* The guard.                                                              *)
(***************************************************************************)
\* The tokens anybody may hold are of four kinds.
LEMMA CredentialKinds ==
  ASSUME NEW cred \in Credentials, StoresFine, deploy.policy # "open"
  PROVE  /\ cred.typ \in {"access", "stepUp", "admin", "secret"}
         /\ cred.typ = "secret" => deploy.policy = "secret"
         /\ cred.typ = "admin" /\ cred.root => cred.root = TRUE /\ rootLogin = TRUE
  <1>1. CASE cred \in [typ : {"access", "stepUp"}, sub : DOMAIN users \cup gone, root : BOOLEAN]
    BY <1>1
  <1>2. CASE cred \in [typ : {"admin"}, sub : DOMAIN users \cup gone, root : {FALSE}]
    BY <1>2
  <1>3. CASE cred \in {[typ |-> "admin", sub |-> Root, root |-> TRUE] : login \in {TRUE} \cap {rootLogin}}
    BY <1>3
  <1>4. CASE cred \in {[typ |-> "secret", sub |-> Root, root |-> FALSE] : policy \in {"secret"} \cap {deploy.policy}}
    BY <1>4
  <1> QED BY <1>1, <1>2, <1>3, <1>4 DEF Credentials

\* A request that is served without a store call has standing by its token.
LEMMA ArriveKeeps ==
  ASSUME IInv, NEW r \in Requests, NEW op \in deploy.ops, NEW cred \in Credentials, Arrive(r, op, cred)
  PROVE  IInv'
  <1> USE DEF Arrive
  <1>1. CASE Authorise(op, cred) = "done"
    <2>1. PICK x : x = Over("refused")
      OBVIOUS
    <2>2. call' = [call EXCEPT ![r] = x]
      BY <1>1, <2>1 DEF Over
    <2> QED BY <2>1, <2>2, OverIsFine, QuietKeeps
  <1>2. CASE Authorise(op, cred) # "done"
    <2>1. PICK p : p = Authorise(op, cred) /\ p \in {"serve", "user"}
      BY <1>2 DEF Authorise
    <2>2. PICK x : x = [Idle EXCEPT !.pc = p, !.op = op, !.cred = cred, !.before = DOMAIN users, !.goneAt = gone]
      OBVIOUS
    <2>3. x = [pc |-> p, op |-> op, cred |-> cred, ok |-> "open", todo |-> {}, offset |-> 0, saw |-> NoValue,
               before |-> DOMAIN users, goneAt |-> gone, reached |-> {}, touched |-> FALSE]
      BY <2>2 DEF Idle
    <2>4. x.pc = p /\ x.op = op /\ x.cred = cred /\ x.ok = "open" /\ x.offset = 0 /\ x.before = DOMAIN users /\ x.goneAt = gone
          /\ x.touched = FALSE
      BY <2>3
    <2>5. p \in Busy
      BY <2>1 DEF Busy, Admitted
    <2>6. CallTyped(x)
      <3>1. x = [pc |-> x.pc, op |-> x.op, cred |-> x.cred, ok |-> x.ok, todo |-> x.todo, offset |-> x.offset,
                 saw |-> x.saw, before |-> x.before, goneAt |-> x.goneAt, reached |-> x.reached, touched |-> x.touched]
        BY <2>3
      <3>2. x.touched \in BOOLEAN
        BY <2>4
      <3>3. x.offset \in Nat /\ x.goneAt \subseteq gone
        BY <2>4
      <3> QED BY <2>1, <2>4, <2>5, <3>1, <3>2, <3>3 DEF CallTyped
    <2>7. StandingFine(x)
      <3>1. deploy.policy \in {"open", "secret", "first-user", "is-admin-flag"}
        BY DeploymentAssumption DEF IInv, StoresFine
      <3>2. CASE op.route \in SelfRoutes \cup OpenRoutes \/ deploy.policy = "open"
        <4>1. p = "serve"
          BY <2>1, <3>2 DEF Authorise
        <4> QED BY <2>4, <3>2, <4>1 DEF StandingFine
      <3>3. CASE ~(op.route \in SelfRoutes \cup OpenRoutes \/ deploy.policy = "open")
        <4>1. /\ cred.typ \in {"access", "stepUp", "admin", "secret"}
              /\ cred.typ = "secret" => deploy.policy = "secret"
              /\ cred.typ = "admin" /\ cred.root => cred.root = TRUE /\ rootLogin = TRUE
          BY <3>3, CredentialKinds DEF IInv
        <4>2. CASE p = "serve"
          <5>1. (deploy.policy = "secret" /\ cred.typ = "secret") \/ (cred.root /\ cred.typ = "admin")
            BY <2>1, <3>3, <4>2 DEF Authorise, VerifiedRoot
          <5>2. HasStanding(x)
            BY <2>4, <4>1, <5>1 DEF HasStanding
          <5> QED BY <2>4, <4>2, <5>2 DEF StandingFine
        <4>3. CASE p = "user"
          <5>1. deploy.policy # "secret" /\ cred.typ # "stepUp"
            BY <2>1, <3>3, <4>3 DEF Authorise
          <5>2. p \notin Admitted
            BY <4>3 DEF Admitted
          <5> QED BY <2>4, <3>1, <3>3, <4>1, <4>3, <5>1, <5>2 DEF StandingFine
        <4> QED BY <2>1, <4>2, <4>3
      <3> QED BY <3>2, <3>3
    <2>8. SawFine(x) /\ DepartFine(x)
      BY <2>1, <2>4 DEF SawFine, DepartFine
    <2>9. WalkFine(x)
      <3>1. \A u : ~(Position(u) < 0)
        <4>1. \A u : Position(u) \in Nat
          BY PositionsCount DEF IInv, StoresFine
        <4>2. \A n \in Nat : ~(n < 0)
          OBVIOUS
        <4> QED BY <4>1, <4>2
      <3> QED BY <2>1, <2>4, <3>1 DEF WalkFine
    <2>10. call' = [call EXCEPT ![r] = x]
      BY <1>2, <2>1, <2>2
    <2> QED BY <2>6, <2>7, <2>8, <2>9, <2>10, QuietKeeps DEF CallFine, CallHolds
  <1> QED BY <1>1, <1>2

\* A user who is found was not deleted before the request began; the flag is that of the record.
LEMMA LoadUserKeeps ==
  ASSUME IInv, NEW r \in Requests, LoadUser(r)
  PROVE  IInv'
  <1>1. PICK c : c = call[r]
    OBVIOUS
  <1>2. CallHolds(c) /\ c.pc = "user" /\ UNCHANGED <<deploy, users, stores, rootLogin, gone, ended>>
    BY <1>1, Holds DEF LoadUser
  <1>3. StoresFine' /\ WorldMoves /\ Shrinks
    BY <1>2, StoresRest DEF IInv
  <1>4. c.cred.typ \in {"access", "admin"} /\ deploy.policy \in {"first-user", "is-admin-flag"} /\ c.goneAt \subseteq gone
    BY <1>2 DEF CallHolds, StandingFine, CallTyped
  <1>5. CASE Answer(r, "refused")
    BY <1>3, <1>5, AnswerKeeps
  <1>6. CASE c.cred.sub \in DOMAIN users /\ deploy.policy = "first-user" /\ Goto(r, "policy")
    <2>1. PICK x : x = [c EXCEPT !.pc = "policy"]
      OBVIOUS
    <2>2. Like(c, x) /\ x.pc = "policy" /\ x.offset = c.offset /\ x.reached = c.reached /\ x.touched = c.touched
      BY <1>2, <2>1 DEF CallHolds, CallTyped, Like
    <2>3. x.op = c.op /\ x.cred = c.cred /\ x.before = c.before /\ x.goneAt = c.goneAt
      BY <2>2 DEF Like
    <2>4. x.pc \in Busy /\ c.pc \in Busy /\ x.pc \notin Admitted
      BY <1>2, <2>2 DEF Busy, Admitted
    <2>5. CallTyped(x)
      BY <1>2, <2>2, <2>4, StayTyped DEF CallHolds, CallTyped
    <2>6. StandingFine(x) /\ SawFine(x) /\ DepartFine(x)
      BY <1>4, <1>6, <2>2, <2>3, <2>4 DEF StandingFine, SawFine, DepartFine
    <2>7. WalkFine(x)
      BY <1>2, <2>2, <2>3, <2>4 DEF CallHolds, WalkFine
    <2>8. call' = [call EXCEPT ![r] = x]
      BY <1>1, <1>6, <2>1 DEF Goto
    <2> QED BY <1>2, <2>5, <2>6, <2>7, <2>8, QuietKeeps DEF CallFine, CallHolds
  <1>7. CASE c.cred.sub \in DOMAIN users /\ users[c.cred.sub].isAdmin /\ Goto(r, "serve")
    <2>1. PICK x : x = [c EXCEPT !.pc = "serve"]
      OBVIOUS
    <2>2. c.cred.sub \notin c.goneAt /\ users[c.cred.sub].isAdmin = TRUE
      BY <1>4, <1>7 DEF IInv, StoresFine, UsersFine, UserFine
    <2>3. CallFine(x)
      BY <1>2, <1>4, <1>7, <2>1, <2>2, Admits DEF HasStanding
    <2>4. call' = [call EXCEPT ![r] = x]
      BY <1>1, <1>7, <2>1 DEF Goto
    <2> QED BY <1>2, <2>3, <2>4, QuietKeeps
  <1> QED BY <1>1, <1>4, <1>5, <1>6, <1>7 DEF LoadUser

\* The first user who is found in the list is in the table.
LEMMA EvaluateFirstUserKeeps ==
  ASSUME IInv, NEW r \in Requests, EvaluateFirstUser(r)
  PROVE  IInv'
  <1>1. PICK c : c = call[r]
    OBVIOUS
  <1>2. CallHolds(c) /\ c.pc = "policy" /\ UNCHANGED <<deploy, users, stores, rootLogin, gone, ended>>
    BY <1>1, Holds DEF EvaluateFirstUser
  <1>3. StoresFine' /\ WorldMoves /\ Shrinks
    BY <1>2, StoresRest DEF IInv
  <1>4. c.cred.typ \in {"access", "admin"} /\ deploy.policy = "first-user" /\ c.goneAt \subseteq gone
    BY <1>2 DEF CallHolds, StandingFine, CallTyped
  <1>5. CASE Answer(r, "refused")
    BY <1>3, <1>5, AnswerKeeps
  <1>6. CASE c.cred.sub \in ListUsers(1, 0) /\ Goto(r, "serve")
    <2>1. PICK x : x = [c EXCEPT !.pc = "serve"]
      OBVIOUS
    <2>2. c.cred.sub \in DOMAIN users /\ c.cred.sub \notin c.goneAt
      BY <1>4, <1>6 DEF ListUsers, IInv, StoresFine, UsersFine
    <2>3. CallFine(x)
      BY <1>2, <1>4, <2>1, <2>2, Admits DEF HasStanding
    <2>4. call' = [call EXCEPT ![r] = x]
      BY <1>1, <1>6, <2>1 DEF Goto
    <2> QED BY <1>2, <2>3, <2>4, QuietKeeps
  <1> QED BY <1>1, <1>5, <1>6 DEF EvaluateFirstUser

(***************************************************************************)
(* The handlers on the user table.                                         *)
(***************************************************************************)
\* A step that leaves everything but the user table alone.
LEMMA UsersOnly ==
  ASSUME StoresFine, UsersFine' /\ UsersMove, UNCHANGED <<deploy, stores, rootLogin, ended>>
  PROVE  StoresFine' /\ WorldMoves /\ Shrinks
  <1>1. SettingsFine' /\ SettingsMove
    BY SettingsRest DEF StoresFine, stores
  <1>2. rbac' = rbac /\ tenancy' = tenancy /\ metadata' = metadata /\ keys' = keys /\ ended' = ended
    BY DEF stores
  <1>3. Shrinks
    BY <1>2 DEF Shrinks
  <1> QED BY <1>1, <1>2, <1>3, WorldKeeps DEF StoresFine

\* A deleted user's id is remembered.
LEMMA AdminDeleteUserKeeps ==
  ASSUME IInv, NEW r \in Requests, AdminDeleteUser(r)
  PROVE  IInv'
  <1>1. call[r].op.route # "twoFAPolicy" /\ UNCHANGED <<deploy, stores, rootLogin, ended>>
    BY DEF AdminDeleteUser, Doing, Op
  <1>2. CASE HasUser(Op(r).id, NoTenant)
    <2>1. UsersFine' /\ UsersMove
      BY <1>2, RemovalKeeps DEF AdminDeleteUser, HasUser, IInv, StoresFine
    <2>2. StoresFine' /\ WorldMoves /\ Shrinks
      BY <1>1, <2>1, UsersOnly DEF IInv
    <2> QED BY <1>1, <1>2, <2>2, AnswerKeeps DEF AdminDeleteUser
  <1>3. CASE ~HasUser(Op(r).id, NoTenant)
    <2>1. StoresFine' /\ WorldMoves /\ Shrinks
      BY <1>3, StoresRest DEF AdminDeleteUser, IInv
    <2> QED BY <1>1, <1>3, <2>1, AnswerKeeps DEF AdminDeleteUser
  <1> QED BY <1>2, <1>3

\* A promotion only ever sets the flag.
LEMMA PromoteFlagKeeps ==
  ASSUME IInv, NEW r \in Requests, PromoteFlag(r)
  PROVE  IInv'
  <1>1. call[r].op.route # "twoFAPolicy" /\ UNCHANGED <<deploy, stores, rootLogin, gone, ended>>
    BY DEF PromoteFlag, Doing, Op
  <1>2. CASE HasUser(Op(r).id, NoTenant)
    <2>1. PICK u : u = Op(r).id
      OBVIOUS
    <2>2. u \in DOMAIN users /\ users' = [users EXCEPT ![u].isAdmin = TRUE] /\ Answer(r, "yes")
      BY <1>2, <2>1 DEF PromoteFlag, HasUser
    <2>3. PICK y, x : y = users[u] /\ UserFine(y) /\ x = [y EXCEPT !.isAdmin = TRUE]
      BY <2>2 DEF IInv, StoresFine, UsersFine
    <2>4. UserFine(x) /\ x.isAdmin = TRUE /\ x.writes = y.writes /\ x.profile = y.profile
      <3>1. x = [tenant |-> y.tenant, isAdmin |-> TRUE, require2FA |-> y.require2FA, profile |-> y.profile, writes |-> y.writes]
        BY <2>3 DEF UserFine
      <3> QED BY <2>3, <3>1 DEF UserFine
    <2>5. users' = [users EXCEPT ![u] = x]
      BY <2>2, <2>3
    <2>6. UsersFine' /\ UsersMove
      BY <1>1, <2>2, <2>3, <2>4, <2>5, UserUpdateKeeps DEF IInv, StoresFine
    <2>7. StoresFine' /\ WorldMoves /\ Shrinks
      BY <1>1, <2>6, UsersOnly DEF IInv
    <2> QED BY <1>1, <2>2, <2>7, AnswerKeeps
  <1>3. CASE ~HasUser(Op(r).id, NoTenant)
    <2>1. StoresFine' /\ WorldMoves /\ Shrinks
      BY <1>3, StoresRest DEF PromoteFlag, IInv
    <2> QED BY <1>1, <1>3, <2>1, AnswerKeeps DEF PromoteFlag
  <1> QED BY <1>2, <1>3

(***************************************************************************)
(* The walk of the two-factor policy.                                      *)
(***************************************************************************)
\* A walk that has come to its end.
LEMMA WalkEnds ==
  ASSUME IInv, NEW r \in Requests, Op(r).route = "twoFAPolicy", call[r].pc \in Busy,
         call[r].goneAt = gone => call[r].before \subseteq call[r].reached,
         UNCHANGED <<deploy, users, stores, rootLogin, gone, ended>>, Answer(r, "yes")
  PROVE  IInv'
  <1>1. PICK c : c = call[r]
    OBVIOUS
  <1>2. CallHolds(c) /\ c.op \in deploy.ops /\ c.op # NoValue /\ c.op.route = "twoFAPolicy"
        /\ (c.goneAt = gone => c.before \subseteq c.reached)
    BY <1>1, Holds DEF Op
  <1>3. PICK x : x = [c EXCEPT !.pc = "done", !.ok = "yes"]
    OBVIOUS
  <1>4. x = [pc |-> "done", op |-> c.op, cred |-> c.cred, ok |-> "yes", todo |-> c.todo, offset |-> c.offset, saw |-> c.saw,
             before |-> c.before, goneAt |-> c.goneAt, reached |-> c.reached, touched |-> c.touched]
    BY <1>2, <1>3 DEF CallHolds, CallTyped
  <1>5. /\ x.pc = "done" /\ x.op = c.op /\ x.ok = "yes" /\ x.offset = c.offset /\ x.before = c.before
        /\ x.goneAt = c.goneAt /\ x.reached = c.reached /\ x.touched = c.touched
    BY <1>4
  <1>6. x.pc \notin Busy /\ x.pc \notin Admitted
    BY <1>5 DEF Busy, Admitted
  <1>7. CallTyped(x)
    <2>1. x = [pc |-> x.pc, op |-> x.op, cred |-> x.cred, ok |-> x.ok, todo |-> x.todo, offset |-> x.offset,
               saw |-> x.saw, before |-> x.before, goneAt |-> x.goneAt, reached |-> x.reached, touched |-> x.touched]
      BY <1>4
    <2> QED BY <1>2, <1>5, <1>6, <2>1 DEF CallHolds, CallTyped
  <1>8. StandingFine(x) /\ SawFine(x) /\ DepartFine(x)
    BY <1>5, <1>6 DEF StandingFine, SawFine, DepartFine
  <1>9. WalkFine(x)
    BY <1>2, <1>5, <1>6 DEF CallHolds, WalkFine
  <1>10. call' = [call EXCEPT ![r] = x]
    BY <1>1, <1>2, <1>3 DEF Answer, Answered, Op
  <1> QED BY <1>7, <1>8, <1>9, <1>10, QuietKeeps DEF CallFine, CallHolds

\* Within the walk a request keeps its standing.
LEMMA WalkOnward ==
  ASSUME NEW c, CallHolds(c), c.op.route = "twoFAPolicy", c.pc \in {"serve", "page"}, NEW x, Like(c, x),
         x.pc \in {"serve", "page"}, x.offset \in Nat, x.touched = c.touched, WalkFine(x)
  PROVE  CallHolds(x) /\ DepartFine(x) /\ DepartFine(x)'
  <1>1. x.op = c.op /\ x.cred = c.cred /\ x.before = c.before /\ x.goneAt = c.goneAt
    BY DEF Like
  <1>2. x.pc \in Busy /\ c.pc \in Busy /\ x.pc \in Admitted /\ c.pc \in Admitted
    BY DEF Busy, Admitted
  <1>3. CallTyped(x)
    BY <1>2, StayTyped DEF CallHolds, CallTyped
  <1>4. StandingFine(x) /\ SawFine(x) /\ DepartFine(x) /\ DepartFine(x)'
    BY <1>1, <1>2 DEF CallHolds, StandingFine, HasStanding, SawFine, DepartFine
  <1> QED BY <1>3, <1>4 DEF CallHolds

\* A page holds whoever stands between the offset and its end; an empty one has nobody behind it.
LEMMA PolicyPageKeeps ==
  ASSUME IInv, NEW r \in Requests, PolicyPage(r)
  PROVE  IInv'
  <1>1. PICK c, page : c = call[r] /\ page = ListUsers(BatchSize, c.offset)
    OBVIOUS
  <1>2. /\ CallHolds(c) /\ c.pc = "serve" /\ c.op.route = "twoFAPolicy" /\ c.op # NoValue /\ c.pc \in Busy /\ c.offset \in Nat
        /\ UNCHANGED <<deploy, users, stores, rootLogin, gone, ended>>
    BY <1>1, Holds DEF PolicyPage, Doing, Op, Busy, Admitted, CallTyped
  <1>3. \A u : Position(u) \in Nat
    BY PositionsCount DEF IInv, StoresFine
  <1>4. c.goneAt = gone => c.before \subseteq DOMAIN users /\ \A u \in c.before : Position(u) < c.offset => u \in c.reached
    BY <1>2 DEF CallHolds, WalkFine
  <1>5. Cardinality(page) < BatchSize => \A u \in DOMAIN users : Position(u) < c.offset \/ u \in page
    BY <1>1, <1>2, ShortPageIsLast DEF IInv, StoresFine
  <1>6. CASE page = {}
    <2>1. Cardinality(page) < BatchSize
      BY <1>6, FS_EmptySet, BatchAssumption
    <2>2. c.goneAt = gone => c.before \subseteq c.reached
      BY <1>4, <1>5, <1>6, <2>1
    <2> QED BY <1>1, <1>2, <1>6, <2>2, WalkEnds DEF PolicyPage, Op
  <1>7. CASE page # {}
    <2>1. PICK x : x = [c EXCEPT !.pc = "page", !.todo = page, !.saw = page]
      OBVIOUS
    <2>2. /\ Like(c, x) /\ x.pc = "page" /\ x.todo = page /\ x.saw = page /\ x.offset = c.offset
          /\ x.reached = c.reached /\ x.touched = c.touched
      BY <1>2, <2>1 DEF CallHolds, CallTyped, Like
    <2>3. x.op = c.op /\ x.before = c.before /\ x.goneAt = c.goneAt
      BY <2>2 DEF Like
    <2>4. WalkFine(x)
      <3>1. ASSUME c.goneAt = gone, NEW u \in c.before, Position(u) < c.offset + BatchSize PROVE u \in c.reached \cup page
        <4>1. CASE Position(u) < c.offset
          BY <1>4, <3>1, <4>1
        <4>2. CASE ~(Position(u) < c.offset)
          <5>1. u \in DOMAIN users /\ c.offset <= Position(u)
            BY <1>2, <1>3, <1>4, <3>1, <4>2
          <5> QED BY <1>1, <3>1, <5>1 DEF ListUsers, Position
        <4> QED BY <4>1, <4>2
      <3>2. ASSUME c.goneAt = gone, Cardinality(page) < BatchSize PROVE c.before \subseteq c.reached \cup page
        BY <1>4, <1>5, <3>2
      <3> QED BY <1>4, <2>2, <2>3, <3>1, <3>2 DEF WalkFine
    <2>5. CallHolds(x) /\ DepartFine(x)
      BY <1>2, <2>2, <2>4, WalkOnward
    <2>6. call' = [call EXCEPT ![r] = x]
      BY <1>1, <1>7, <2>1 DEF PolicyPage
    <2> QED BY <1>2, <2>5, <2>6, QuietKeeps DEF CallFine
  <1> QED BY <1>6, <1>7

\* Whoever leaves the list has been reached.
LEMMA PolicyUpdateKeeps ==
  ASSUME IInv, NEW r \in Requests, PolicyUpdate(r)
  PROVE  IInv'
  <1>1. PICK c : c = call[r]
    OBVIOUS
  <1>2. PICK u \in c.todo :
          IF u \in DOMAIN users
          THEN /\ users' = [users EXCEPT ![u].require2FA = Op(r).arg]
               /\ call' = [call EXCEPT ![r].todo = @ \ {u}, ![r].reached = @ \cup {u}]
          ELSE Answer(r, "no") /\ UNCHANGED users
    BY <1>1 DEF PolicyUpdate
  <1>3. /\ CallHolds(c) /\ c.pc = "page" /\ c.op.route = "twoFAPolicy" /\ c.op # NoValue /\ c.offset \in Nat
        /\ UNCHANGED <<deploy, stores, rootLogin, gone, ended>>
    BY <1>1, Holds DEF PolicyUpdate, Doing, Op, CallTyped
  <1>4. CASE u \notin DOMAIN users
    <2>1. StoresFine' /\ WorldMoves /\ Shrinks
      BY <1>2, <1>3, <1>4, StoresRest DEF IInv
    <2> QED BY <1>2, <1>4, <2>1, AnswerKeeps
  <1>5. CASE u \in DOMAIN users
    <2>1. PICK y, z : y = users[u] /\ UserFine(y) /\ z = [y EXCEPT !.require2FA = Op(r).arg]
      BY <1>5 DEF IInv, StoresFine, UsersFine
    <2>2. UserFine(z) /\ z.isAdmin = y.isAdmin /\ z.writes = y.writes /\ z.profile = y.profile
      <3>1. z = [tenant |-> y.tenant, isAdmin |-> y.isAdmin, require2FA |-> Op(r).arg, profile |-> y.profile, writes |-> y.writes]
        BY <2>1 DEF UserFine
      <3> QED BY <2>1, <3>1 DEF UserFine
    <2>3. users' = [users EXCEPT ![u] = z]
      BY <1>2, <1>5, <2>1
    <2>4. UsersFine' /\ UsersMove
      BY <1>3, <1>5, <2>1, <2>2, <2>3, UserUpdateKeeps DEF IInv, StoresFine
    <2>5. StoresFine' /\ WorldMoves /\ Shrinks
      BY <1>3, <2>4, UsersOnly DEF IInv
    <2>6. PICK x : x = [c EXCEPT !.todo = c.todo \ {u}, !.reached = c.reached \cup {u}]
      OBVIOUS
    <2>7. /\ Like(c, x) /\ x.pc = "page" /\ x.todo = c.todo \ {u} /\ x.saw = c.saw /\ x.offset = c.offset
          /\ x.reached = c.reached \cup {u} /\ x.touched = c.touched
      BY <1>3, <2>6 DEF CallHolds, CallTyped, Like
    <2>8. x.op = c.op /\ x.before = c.before /\ x.goneAt = c.goneAt /\ x.pc \in Busy /\ c.pc \in Busy
      BY <1>3, <2>7 DEF Like, Busy, Admitted
    <2>9. WalkFine(x)
      <3>1. x.reached \cup x.todo = c.reached \cup c.todo /\ c.reached \subseteq x.reached
        BY <1>2, <2>7
      <3> QED BY <1>3, <2>7, <2>8, <3>1 DEF CallHolds, WalkFine
    <2>10. CallHolds(x) /\ DepartFine(x)'
      BY <1>3, <2>7, <2>9, WalkOnward
    <2>11. call' = [call EXCEPT ![r] = x]
      <3>1. call' = [call EXCEPT ![r] = [call[r] EXCEPT !.todo = call[r].todo \ {u}, !.reached = call[r].reached \cup {u}]]
        BY <1>2, <1>5
      <3> QED BY <1>1, <2>6, <3>1
    <2> QED BY <2>5, <2>10, <2>11, MoveKeeps
  <1> QED BY <1>4, <1>5

\* The walk ends on a short page, and then has reached everybody, or goes on behind the page.
LEMMA PolicyNextKeeps ==
  ASSUME IInv, NEW r \in Requests, PolicyNext(r)
  PROVE  IInv'
  <1>1. PICK c : c = call[r]
    OBVIOUS
  <1>2. /\ CallHolds(c) /\ c.pc = "page" /\ c.op.route = "twoFAPolicy" /\ c.op # NoValue /\ c.pc \in Busy /\ c.offset \in Nat
        /\ c.todo = {} /\ UNCHANGED <<deploy, users, stores, rootLogin, gone, ended>>
    BY <1>1, Holds DEF PolicyNext, Doing, Op, Busy, Admitted, CallTyped
  <1>3. c.goneAt = gone =>
          /\ c.before \subseteq DOMAIN users
          /\ \A u \in c.before : Position(u) < c.offset + BatchSize => u \in c.reached
          /\ Cardinality(c.saw) < BatchSize => c.before \subseteq c.reached
    BY <1>2 DEF CallHolds, WalkFine
  <1>4. CASE Cardinality(c.saw) < BatchSize
    BY <1>1, <1>2, <1>3, <1>4, WalkEnds DEF PolicyNext, Op
  <1>5. CASE ~(Cardinality(c.saw) < BatchSize)
    <2>1. PICK x : x = [c EXCEPT !.pc = "serve", !.offset = c.offset + BatchSize]
      OBVIOUS
    <2>2. /\ Like(c, x) /\ x.pc = "serve" /\ x.offset = c.offset + BatchSize
          /\ x.reached = c.reached /\ x.touched = c.touched
      BY <1>2, <2>1 DEF CallHolds, CallTyped, Like
    <2>3. x.op = c.op /\ x.before = c.before /\ x.goneAt = c.goneAt
      BY <2>2 DEF Like
    <2>4. WalkFine(x)
      BY <1>3, <2>2, <2>3 DEF WalkFine
    <2>5. x.offset \in Nat
      BY <1>2, <2>2, BatchAssumption
    <2>6. CallHolds(x) /\ DepartFine(x)
      BY <1>2, <2>2, <2>4, <2>5, WalkOnward
    <2>7. call' = [call EXCEPT ![r] = x]
      BY <1>1, <1>5, <2>1 DEF PolicyNext
    <2> QED BY <1>2, <2>6, <2>7, QuietKeeps DEF CallFine
  <1> QED BY <1>4, <1>5

(***************************************************************************)
(* The handlers on roles, tenants, metadata and settings.                  *)
(***************************************************************************)
\* A step on one of the stores: users and settings stay.
LEMMA OneStore ==
  ASSUME StoresFine, UNCHANGED <<deploy, users, settings, rootLogin, gone>>,
         RolesFine(rbac'), TenantsFine(tenancy'), KeysFine(keys', ended'),
         metadata' \subseteq UserIDs, ended' \subseteq KeyIDs \cup TenantIDs
  PROVE  StoresFine' /\ WorldMoves
  BY UsersRest, SettingsRest, WorldKeeps DEF StoresFine

\* A step on the role store alone.
LEMMA RolesStep ==
  ASSUME StoresFine, UNCHANGED <<deploy, users, tenancy, metadata, settings, keys, rootLogin, gone, ended>>, RolesFine(rbac')
  PROVE  /\ StoresFine' /\ WorldMoves
         /\ rbac'.userRoles \subseteq rbac.userRoles => Shrinks
         /\ \A u : (\A a \in rbac'.userRoles : a \in rbac.userRoles \/ a[1] = u) => ShrinksBut(u)
  <1>1. StoresFine' /\ WorldMoves
    BY OneStore DEF StoresFine
  <1> QED BY <1>1 DEF Shrinks, ShrinksBut

\* A step on the tenant store alone.
LEMMA TenantsStep ==
  ASSUME StoresFine, UNCHANGED <<deploy, users, rbac, metadata, settings, rootLogin, gone>>,
         TenantsFine(tenancy'), KeysFine(keys', ended'), ended' \subseteq KeyIDs \cup TenantIDs
  PROVE  /\ StoresFine' /\ WorldMoves
         /\ (\A v : GetTenantsForUser(tenancy', v) \subseteq GetTenantsForUser(tenancy, v)) => Shrinks
         /\ \A u : (\A v : v = u \/ GetTenantsForUser(tenancy', v) \subseteq GetTenantsForUser(tenancy, v)) => ShrinksBut(u)
  <1>1. StoresFine' /\ WorldMoves
    BY OneStore DEF StoresFine
  <1> QED BY <1>1 DEF Shrinks, ShrinksBut

\* What the route of a request says of what it names.
LEMMA Named ==
  ASSUME IInv, NEW r \in Requests, call[r].pc \in Busy
  PROVE  LET op == Op(r) IN
         /\ op.route \in {"promoteRole", "addUserRole", "updateMetadata", "addTenantUser",
                          "deleteAccount", "updateProfile"} => op.id \in UserIDs
         /\ op.route \in {"revokeKey", "deleteKey", "verifyKey"} => op.id \in KeyIDs
         /\ op.route \in {"addUserRole", "createRole", "deleteRole", "addPermission"} => op.arg \in Roles
         /\ op.route \in {"addUserRole", "deleteAccount"} => op.tenant \in TenantIDs \cup {NoTenant}
         /\ op.route \in {"addTenantUser", "deleteTenant"} => op.tenant \in TenantIDs
         /\ op.route = "createKey" => op.arg \in APIKeyRecord
         /\ op.route = "updateSettings" /\ "ui" \in DOMAIN op.arg => op.arg.ui = [f \in Fields |-> op.arg.ui[f]]
         /\ op.route = "updateSettings" => "writes" \notin DOMAIN op.arg
  <1>1. Op(r) \in deploy.ops /\ deploy \in Deployments
    BY Holds DEF IInv, StoresFine, Op
  <1> QED BY <1>1, DeploymentAssumption

\* Whoever serves, or assigns, is busy with a route of its own.
LEMMA Serving ==
  ASSUME NEW r, NEW route, NEW pc \in Admitted, Doing(r, route, pc)
  PROVE  call[r].pc \in Busy /\ call[r].pc = pc /\ Op(r).route = route /\ call[r].op.route = route
  BY DEF Doing, Op, Busy, Admitted

\* A role is assigned only where it exists, in the same store call.
LEMMA AddUserRoleKeeps ==
  ASSUME IInv, NEW r \in Requests, AdminAddUserRole(r)
  PROVE  IInv'
  <1>1. /\ call[r].pc \in Busy /\ Op(r).route = "addUserRole" /\ call[r].op.route = "addUserRole"
        /\ UNCHANGED <<deploy, users, tenancy, metadata, settings, keys, rootLogin, gone, ended>>
    BY Serving DEF AdminAddUserRole, Admitted
  <1>2. PICK u, t, role : u = Op(r).id /\ t = Op(r).tenant /\ role = Op(r).arg
    OBVIOUS
  <1>3. u \in UserIDs /\ t \in TenantIDs \cup {NoTenant}
    BY <1>1, <1>2, Named
  <1>4. CASE RoleExists(rbac, role)
    <2>1. rbac' = AddRoleToUser(rbac, u, role, t) /\ call' = Touch(Answered(r, "yes"), u)
      BY <1>2, <1>4 DEF AdminAddUserRole
    <2>2. RolesFine(rbac') /\ \A a \in rbac'.userRoles : a \in rbac.userRoles \/ a[1] = u
      BY <1>3, <1>4, <2>1, AddRoleKeeps DEF IInv, StoresFine
    <2>3. StoresFine' /\ WorldMoves /\ ShrinksBut(u)
      BY <1>1, <2>2, RolesStep DEF IInv
    <2> QED BY <1>1, <2>1, <2>3, TouchKeeps
  <1>5. CASE ~RoleExists(rbac, role)
    <2>1. rbac' = rbac /\ Answer(r, "no")
      BY <1>2, <1>5 DEF AdminAddUserRole
    <2>2. StoresFine' /\ WorldMoves /\ Shrinks
      BY <1>1, <2>1, StoresRest DEF IInv, stores
    <2> QED BY <2>1, <2>2, AnswerKeeps
  <1> QED BY <1>4, <1>5

\* A change of roles that gives nobody a role.
LEMMA RolesAnswer ==
  ASSUME IInv, NEW r \in Requests, RolesFine(rbac'), rbac'.userRoles \subseteq rbac.userRoles,
         UNCHANGED <<deploy, users, tenancy, metadata, settings, keys, rootLogin, gone, ended>>,
         call[r].op.route # "twoFAPolicy", Answer(r, "yes")
  PROVE  IInv'
  <1>1. StoresFine' /\ WorldMoves /\ Shrinks
    BY RolesStep DEF IInv
  <1> QED BY <1>1, AnswerKeeps

\* The role that is removed leaves nothing dangling.
LEMMA RemoveUserRoleKeeps ==
  ASSUME IInv, NEW r \in Requests, AdminRemoveUserRole(r)
  PROVE  IInv'
  <1>1. /\ call[r].op.route = "removeUserRole" /\ Answer(r, "yes")
        /\ UNCHANGED <<deploy, users, tenancy, metadata, settings, keys, rootLogin, gone, ended>>
    BY DEF AdminRemoveUserRole, Doing, Op
  <1>2. RolesFine(rbac') /\ rbac'.userRoles \subseteq rbac.userRoles
    BY RemoveRoleKeeps DEF AdminRemoveUserRole, IInv, StoresFine
  <1> QED BY <1>1, <1>2, RolesAnswer

\* The route creates a role and assigns nothing.
LEMMA CreateRoleRouteKeeps ==
  ASSUME IInv, NEW r \in Requests, AdminCreateRole(r)
  PROVE  IInv'
  <1>1. /\ call[r].pc \in Busy /\ Op(r).route = "createRole" /\ call[r].op.route = "createRole" /\ Answer(r, "yes")
        /\ UNCHANGED <<deploy, users, tenancy, metadata, settings, keys, rootLogin, gone, ended>>
    BY Serving DEF AdminCreateRole, Admitted
  <1>2. Op(r).arg \in Roles
    BY <1>1, Named
  <1>3. RolesFine(rbac') /\ rbac'.userRoles \subseteq rbac.userRoles
    BY <1>2, CreateRoleKeeps DEF AdminCreateRole, IInv, StoresFine
  <1> QED BY <1>1, <1>3, RolesAnswer

\* The route deletes a role with its assignments.
LEMMA DeleteRoleRouteKeeps ==
  ASSUME IInv, NEW r \in Requests, AdminDeleteRole(r)
  PROVE  IInv'
  <1>1. /\ call[r].op.route = "deleteRole" /\ Answer(r, "yes")
        /\ UNCHANGED <<deploy, users, tenancy, metadata, settings, keys, rootLogin, gone, ended>>
    BY DEF AdminDeleteRole, Doing, Op
  <1>2. RolesFine(rbac') /\ rbac'.userRoles \subseteq rbac.userRoles
    BY DeleteRoleKeeps DEF AdminDeleteRole, IInv, StoresFine
  <1> QED BY <1>1, <1>2, RolesAnswer

\* The promotion's first call creates the role; the second is still to come.
LEMMA PromoteCreateRoleKeeps ==
  ASSUME IInv, NEW r \in Requests, PromoteCreateRole(r)
  PROVE  IInv'
  <1>1. PICK c, x : c = call[r] /\ x = [c EXCEPT !.pc = "assign"]
    OBVIOUS
  <1>2. /\ CallHolds(c) /\ c.pc = "serve" /\ c.op.route = "promoteRole"
        /\ UNCHANGED <<deploy, users, tenancy, metadata, settings, keys, rootLogin, gone, ended>>
    BY <1>1, Holds DEF PromoteCreateRole, Doing, Op
  <1>3. RolesFine(rbac') /\ rbac'.userRoles \subseteq rbac.userRoles
    BY StartAssumption, CreateRoleKeeps DEF PromoteCreateRole, IInv, StoresFine
  <1>4. StoresFine' /\ WorldMoves /\ Shrinks
    BY <1>2, <1>3, RolesStep DEF IInv
  <1>5. Like(c, x) /\ x.pc = "assign" /\ x.op = c.op /\ x.offset = c.offset /\ x.reached = c.reached /\ x.touched = c.touched
    BY <1>1, <1>2 DEF CallHolds, CallTyped, Like
  <1>6. CallHolds(x)
    BY <1>2, <1>5, Onward DEF Admitted, CallHolds, CallTyped
  <1>7. DepartFine(x)'
    BY <1>2, <1>5 DEF DepartFine
  <1>8. call' = [call EXCEPT ![r] = x]
    BY <1>1 DEF PromoteCreateRole, Goto
  <1> QED BY <1>4, <1>6, <1>7, <1>8, MoveKeeps

\* The promotion's second call asks for the role again.
LEMMA PromoteAssignKeeps ==
  ASSUME IInv, NEW r \in Requests, PromoteAssign(r)
  PROVE  IInv'
  <1>1. /\ call[r].pc \in Busy /\ Op(r).route = "promoteRole" /\ call[r].op.route = "promoteRole"
        /\ UNCHANGED <<deploy, users, tenancy, metadata, settings, keys, rootLogin, gone, ended>>
    BY Serving DEF PromoteAssign, Admitted
  <1>2. PICK u : u = Op(r).id
    OBVIOUS
  <1>3. u \in UserIDs
    BY <1>1, <1>2, Named
  <1>4. CASE RoleExists(rbac, AdminRole)
    <2>1. rbac' = AddRoleToUser(rbac, u, AdminRole, NoTenant) /\ call' = Touch(Answered(r, "yes"), u)
      BY <1>2, <1>4 DEF PromoteAssign
    <2>2. RolesFine(rbac') /\ \A a \in rbac'.userRoles : a \in rbac.userRoles \/ a[1] = u
      BY <1>3, <1>4, <2>1, AddRoleKeeps DEF IInv, StoresFine
    <2>3. StoresFine' /\ WorldMoves /\ ShrinksBut(u)
      BY <1>1, <2>2, RolesStep DEF IInv
    <2> QED BY <1>1, <2>1, <2>3, TouchKeeps
  <1>5. CASE ~RoleExists(rbac, AdminRole)
    <2>1. rbac' = rbac /\ Answer(r, "no")
      BY <1>5 DEF PromoteAssign
    <2>2. StoresFine' /\ WorldMoves /\ Shrinks
      BY <1>1, <2>1, StoresRest DEF IInv, stores
    <2> QED BY <2>1, <2>2, AnswerKeeps
  <1> QED BY <1>4, <1>5

\* The host's own permission changes assign nothing.
LEMMA HostPermissionKeeps ==
  ASSUME IInv, NEW r \in Requests, HostPermission(r)
  PROVE  IInv'
  <1>1. /\ call[r].pc \in Busy /\ Op(r).route = "addPermission" /\ call[r].op.route = "addPermission" /\ Answer(r, "yes")
        /\ UNCHANGED <<deploy, users, tenancy, metadata, settings, keys, rootLogin, gone, ended>>
    BY Serving DEF HostPermission, Admitted
  <1>2. Op(r).arg \in Roles
    BY <1>1, Named
  <1>3. PICK p \in Permissions : \/ rbac' = AddPermissionToRole(rbac, Op(r).arg, p)
                                 \/ rbac' = RemovePermissionFromRole(rbac, Op(r).arg, p)
    BY DEF HostPermission
  <1>4. RolesFine(rbac') /\ rbac'.userRoles \subseteq rbac.userRoles
    BY <1>2, <1>3, AddPermissionKeeps, RemovePermissionKeeps DEF IInv, StoresFine
  <1> QED BY <1>1, <1>4, RolesAnswer

\* The route creates a tenant under a fresh id.
LEMMA CreateTenantRouteKeeps ==
  ASSUME IInv, NEW r \in Requests, AdminCreateTenant(r)
  PROVE  IInv'
  <1>1. /\ call[r].op.route = "createTenant" /\ Answer(r, "yes")
        /\ UNCHANGED <<deploy, users, rbac, metadata, settings, keys, rootLogin, gone, ended>>
    BY DEF AdminCreateTenant, Doing, Op
  <1>2. PICK t \in TenantIDs : tenancy' = CreateTenant(tenancy, t)
    BY DEF AdminCreateTenant
  <1>3. TenantsFine(tenancy') /\ \A v : GetTenantsForUser(tenancy', v) \subseteq GetTenantsForUser(tenancy, v)
    BY <1>2, CreateTenantKeeps DEF IInv, StoresFine
  <1>4. StoresFine' /\ WorldMoves /\ Shrinks
    BY <1>1, <1>3, TenantsStep DEF IInv, StoresFine
  <1> QED BY <1>1, <1>4, AnswerKeeps

\* The route deletes a tenant with its memberships, and its id is remembered.
LEMMA DeleteTenantRouteKeeps ==
  ASSUME IInv, NEW r \in Requests, AdminDeleteTenant(r)
  PROVE  IInv'
  <1>1. /\ call[r].pc \in Busy /\ Op(r).route = "deleteTenant" /\ call[r].op.route = "deleteTenant" /\ Answer(r, "yes")
        /\ UNCHANGED <<deploy, users, rbac, metadata, settings, keys, rootLogin, gone>>
    BY Serving DEF AdminDeleteTenant, Admitted
  <1>2. PICK t : t = Op(r).tenant /\ tenancy' = DeleteTenant(tenancy, t) /\ ended' = ended \cup {t}
    BY DEF AdminDeleteTenant
  <1>3. t \in TenantIDs
    BY <1>1, <1>2, Named
  <1>4. TenantsFine(tenancy') /\ \A v : GetTenantsForUser(tenancy', v) \subseteq GetTenantsForUser(tenancy, v)
    BY <1>2, DeleteTenantKeeps DEF IInv, StoresFine
  <1>5. KeysFine(keys', ended') /\ ended' \subseteq KeyIDs \cup TenantIDs
    BY <1>1, <1>2, <1>3, TenantEndKeeps DEF IInv, StoresFine
  <1>6. StoresFine' /\ WorldMoves /\ Shrinks
    BY <1>1, <1>4, <1>5, TenantsStep DEF IInv
  <1> QED BY <1>1, <1>6, AnswerKeeps

\* A membership is made only in a tenant there is.
LEMMA AddTenantUserKeeps ==
  ASSUME IInv, NEW r \in Requests, AdminAddTenantUser(r)
  PROVE  IInv'
  <1>1. /\ call[r].pc \in Busy /\ Op(r).route = "addTenantUser" /\ call[r].op.route = "addTenantUser"
        /\ UNCHANGED <<deploy, users, rbac, metadata, settings, keys, rootLogin, gone, ended>>
    BY Serving DEF AdminAddTenantUser, Admitted
  <1>2. PICK u, t : u = Op(r).id /\ t = Op(r).tenant
    OBVIOUS
  <1>3. u \in UserIDs
    BY <1>1, <1>2, Named
  <1>4. CASE t \in tenancy.byID
    <2>1. tenancy' = AssociateUserWithTenant(tenancy, u, t) /\ call' = Touch(Answered(r, "yes"), u)
      BY <1>2, <1>4 DEF AdminAddTenantUser
    <2>2. /\ TenantsFine(tenancy')
          /\ \A v : v = u \/ GetTenantsForUser(tenancy', v) \subseteq GetTenantsForUser(tenancy, v)
      BY <1>3, <1>4, <2>1, AssociateKeeps DEF IInv, StoresFine
    <2>3. StoresFine' /\ WorldMoves /\ ShrinksBut(u)
      BY <1>1, <2>2, TenantsStep DEF IInv, StoresFine
    <2> QED BY <1>1, <2>1, <2>3, TouchKeeps
  <1>5. CASE t \notin tenancy.byID
    <2>1. tenancy' = tenancy /\ Answer(r, "no")
      BY <1>2, <1>5 DEF AdminAddTenantUser
    <2>2. StoresFine' /\ WorldMoves /\ Shrinks
      BY <1>1, <2>1, StoresRest DEF IInv, stores
    <2> QED BY <2>1, <2>2, AnswerKeeps
  <1> QED BY <1>4, <1>5

\* A membership goes from both indexes.
LEMMA RemoveTenantUserKeeps ==
  ASSUME IInv, NEW r \in Requests, AdminRemoveTenantUser(r)
  PROVE  IInv'
  <1>1. /\ call[r].op.route = "removeTenantUser" /\ Answer(r, "yes")
        /\ UNCHANGED <<deploy, users, rbac, metadata, settings, keys, rootLogin, gone, ended>>
    BY DEF AdminRemoveTenantUser, Doing, Op
  <1>2. TenantsFine(tenancy') /\ \A v : GetTenantsForUser(tenancy', v) \subseteq GetTenantsForUser(tenancy, v)
    BY DisassociateKeeps DEF AdminRemoveTenantUser, IInv, StoresFine
  <1>3. StoresFine' /\ WorldMoves /\ Shrinks
    BY <1>1, <1>2, TenantsStep DEF IInv, StoresFine
  <1> QED BY <1>1, <1>3, AnswerKeeps

\* Metadata written for a user marks their deletion under way.
LEMMA UpdateMetadataKeeps ==
  ASSUME IInv, NEW r \in Requests, AdminUpdateUserMetadata(r)
  PROVE  IInv'
  <1>1. /\ call[r].pc \in Busy /\ Op(r).route = "updateMetadata" /\ call[r].op.route = "updateMetadata"
        /\ UNCHANGED <<deploy, users, rbac, tenancy, settings, keys, rootLogin, gone, ended>>
    BY Serving DEF AdminUpdateUserMetadata, Admitted
  <1>2. PICK u : u = Op(r).id /\ metadata' = metadata \cup {u} /\ call' = Touch(Answered(r, "yes"), u)
    BY DEF AdminUpdateUserMetadata, UpdateMetadata
  <1>3. u \in UserIDs
    BY <1>1, <1>2, Named
  <1>4. metadata' \subseteq UserIDs /\ rbac' = rbac /\ tenancy' = tenancy
    BY <1>1, <1>2, <1>3 DEF IInv, StoresFine
  <1>5. StoresFine' /\ WorldMoves
    BY <1>1, <1>4, OneStore DEF IInv, StoresFine
  <1>6. ShrinksBut(u)
    BY <1>2, <1>4 DEF ShrinksBut
  <1> QED BY <1>1, <1>2, <1>5, <1>6, TouchKeeps

\* A step on the settings alone.
LEMMA SettingsStep ==
  ASSUME StoresFine, SettingsFine' /\ SettingsMove,
         UNCHANGED <<deploy, users, rbac, tenancy, metadata, keys, rootLogin, gone, ended>>
  PROVE  StoresFine' /\ WorldMoves /\ Shrinks
  <1>1. UsersFine' /\ UsersMove
    BY UsersRest DEF StoresFine
  <1>2. Shrinks
    BY DEF Shrinks
  <1> QED BY <1>1, <1>2, WorldKeeps DEF StoresFine

\* A whole block that is written is counted; a patch without one leaves the block.
LEMMA UpdateSettingsKeeps ==
  ASSUME IInv, NEW r \in Requests, AdminUpdateSettings(r)
  PROVE  IInv'
  <1>1. /\ call[r].pc \in Busy /\ Op(r).route = "updateSettings" /\ call[r].op.route = "updateSettings" /\ Answer(r, "yes")
        /\ UNCHANGED <<deploy, users, rbac, tenancy, metadata, keys, rootLogin, gone, ended>>
    BY Serving DEF AdminUpdateSettings, Admitted
  <1>2. PICK patch, k : patch = Op(r).arg /\ k = IF "ui" \in DOMAIN patch THEN 1 ELSE 0
    OBVIOUS
  <1>3. "writes" \notin DOMAIN patch /\ ("ui" \in DOMAIN patch => patch.ui = [f \in Fields |-> patch.ui[f]])
    BY <1>1, <1>2, Named
  <1>4. settings' = [UpdateSettings(settings, patch) EXCEPT !.writes = @ + k]
    BY <1>2 DEF AdminUpdateSettings
  <1>5. SettingsFine' /\ SettingsMove
    BY <1>2, <1>3, <1>4, PatchKeeps DEF IInv, StoresFine
  <1>6. StoresFine' /\ WorldMoves /\ Shrinks
    BY <1>1, <1>5, SettingsStep DEF IInv
  <1> QED BY <1>1, <1>6, AnswerKeeps

\* The block that is read is the one there is.
LEMMA PatchUIReadKeeps ==
  ASSUME IInv, NEW r \in Requests, PatchUIRead(r)
  PROVE  IInv'
  <1>1. PICK c, x : c = call[r] /\ x = [c EXCEPT !.pc = "write", !.saw = settings]
    OBVIOUS
  <1>2. /\ CallHolds(c) /\ c.pc = "serve" /\ c.op.route = "patchUI"
        /\ UNCHANGED <<deploy, users, stores, rootLogin, gone, ended>>
    BY <1>1, Holds DEF PatchUIRead, Doing, Op
  <1>3. /\ Like(c, x) /\ x.pc = "write" /\ x.op = c.op /\ x.saw = settings /\ x.offset = c.offset
        /\ x.reached = c.reached /\ x.touched = c.touched
    BY <1>1, <1>2 DEF CallHolds, CallTyped, Like
  <1>4. SawFine(x)
    BY <1>2, <1>3 DEF SawFine, IInv, StoresFine, SettingsFine
  <1>5. CallHolds(x)
    BY <1>2, <1>3, <1>4, Onward DEF Admitted, CallHolds, CallTyped
  <1>6. DepartFine(x)
    BY <1>2, <1>3 DEF DepartFine
  <1>7. call' = [call EXCEPT ![r] = x]
    BY <1>1 DEF PatchUIRead
  <1> QED BY <1>2, <1>5, <1>6, <1>7, QuietKeeps DEF CallFine

\* The merged block is written and counted.
LEMMA PatchUIWriteKeeps ==
  ASSUME IInv, NEW r \in Requests, PatchUIWrite(r)
  PROVE  IInv'
  <1>1. /\ call[r].pc = "write" /\ call[r].op.route = "patchUI" /\ Answer(r, "yes")
        /\ UNCHANGED <<deploy, users, rbac, tenancy, metadata, keys, rootLogin, gone, ended>>
    BY DEF PatchUIWrite, Doing, Op
  <1>2. PICK ui, patch : ui = MergeUISettings(call[r].saw.ui, Op(r).arg) /\ patch = [ui |-> ui]
    OBVIOUS
  <1>3. DOMAIN patch = {"ui"} /\ patch.ui = ui
    BY <1>2
  <1>4. ui = [f \in Fields |-> ui[f]]
    <2>1. call[r].saw.ui = [f \in Fields |-> call[r].saw.ui[f]]
      BY <1>1, Holds DEF CallHolds, SawFine
    <2>2. DOMAIN call[r].saw.ui = Fields
      BY <2>1
    <2> QED BY <1>2, <2>2 DEF MergeUISettings
  <1>5. settings' = [UpdateSettings(settings, patch) EXCEPT !.writes = @ + 1]
    BY <1>2 DEF PatchUIWrite
  <1>6. SettingsFine' /\ SettingsMove
    BY <1>3, <1>4, <1>5, PatchKeeps DEF IInv, StoresFine
  <1>7. StoresFine' /\ WorldMoves /\ Shrinks
    BY <1>1, <1>6, SettingsStep DEF IInv
  <1> QED BY <1>1, <1>7, AnswerKeeps

(***************************************************************************)
(* API keys.                                                               *)
(***************************************************************************)
\* A step on the key store alone.
LEMMA KeysStep ==
  ASSUME StoresFine, UNCHANGED <<deploy, users, rbac, tenancy, metadata, settings, rootLogin, gone>>,
         KeysFine(keys', ended'), ended' \subseteq KeyIDs \cup TenantIDs
  PROVE  StoresFine' /\ WorldMoves /\ Shrinks
  <1>1. StoresFine' /\ WorldMoves
    BY OneStore DEF StoresFine
  <1> QED BY <1>1 DEF Shrinks

\* A key is created under a fresh id, with a prefix another may share.
LEMMA CreateAPIKeyKeeps ==
  ASSUME IInv, NEW r \in Requests, AdminCreateAPIKey(r)
  PROVE  IInv' /\ StillFound(keys, keys')
  <1>1. /\ call[r].pc \in Busy /\ Op(r).route = "createKey" /\ call[r].op.route = "createKey" /\ Answer(r, "yes")
        /\ UNCHANGED <<deploy, users, rbac, tenancy, metadata, settings, rootLogin, gone, ended>>
    BY Serving DEF AdminCreateAPIKey, Admitted
  <1>2. PICK id \in KeyIDs \ (DOMAIN keys.byID \cup ended) :
          keys' = SaveKey(keys, id, [Op(r).arg EXCEPT !.prefix = KeyPrefix[id]])
    BY DEF AdminCreateAPIKey
  <1>3. PICK y, x : y = Op(r).arg /\ x = [y EXCEPT !.prefix = KeyPrefix[id]]
    OBVIOUS
  <1>4. y \in APIKeyRecord
    BY <1>1, <1>3, Named
  <1>5. x \in APIKeyRecord
    BY <1>3, <1>4, StartAssumption DEF APIKeyRecord
  <1>6. KeysFine(keys', ended) /\ StillFound(keys, keys')
    BY <1>2, <1>3, <1>5, SaveKeyKeeps DEF IInv, StoresFine
  <1>7. StoresFine' /\ WorldMoves /\ Shrinks
    BY <1>1, <1>6, KeysStep DEF IInv, StoresFine
  <1> QED BY <1>1, <1>6, <1>7, AnswerKeeps

\* A revocation is remembered.
LEMMA RevokeAPIKeyKeeps ==
  ASSUME IInv, NEW r \in Requests, AdminRevokeAPIKey(r)
  PROVE  IInv' /\ StillFound(keys, keys')
  <1>1. /\ call[r].pc \in Busy /\ Op(r).route = "revokeKey" /\ call[r].op.route = "revokeKey" /\ Answer(r, "yes")
        /\ UNCHANGED <<deploy, users, rbac, tenancy, metadata, settings, rootLogin, gone>>
    BY Serving DEF AdminRevokeAPIKey, Admitted
  <1>2. PICK id : id = Op(r).id /\ keys' = RevokeKey(keys, id) /\ ended' = ended \cup {id}
    BY DEF AdminRevokeAPIKey
  <1>3. id \in KeyIDs
    BY <1>1, <1>2, Named
  <1>4. KeysFine(keys', ended') /\ StillFound(keys, keys') /\ ended' \subseteq KeyIDs \cup TenantIDs
    BY <1>2, <1>3, RevokeKeeps DEF IInv, StoresFine
  <1>5. StoresFine' /\ WorldMoves /\ Shrinks
    BY <1>1, <1>4, KeysStep DEF IInv
  <1> QED BY <1>1, <1>4, <1>5, AnswerKeeps

\* A deletion is remembered, and the key that shares the prefix stays found.
LEMMA DeleteAPIKeyKeeps ==
  ASSUME IInv, NEW r \in Requests, AdminDeleteAPIKey(r)
  PROVE  IInv' /\ StillFound(keys, keys')
  <1>1. /\ call[r].pc \in Busy /\ Op(r).route = "deleteKey" /\ call[r].op.route = "deleteKey" /\ Answer(r, "yes")
        /\ UNCHANGED <<deploy, users, rbac, tenancy, metadata, settings, rootLogin, gone>>
    BY Serving DEF AdminDeleteAPIKey, Admitted
  <1>2. PICK id : id = Op(r).id /\ keys' = DeleteKey(keys, id) /\ ended' = ended \cup {id}
    BY DEF AdminDeleteAPIKey
  <1>3. id \in KeyIDs
    BY <1>1, <1>2, Named
  <1>4. KeysFine(keys', ended') /\ StillFound(keys, keys') /\ ended' \subseteq KeyIDs \cup TenantIDs
    BY <1>2, <1>3, DeleteKeyKeeps DEF IInv, StoresFine
  <1>5. StoresFine' /\ WorldMoves /\ Shrinks
    BY <1>1, <1>4, KeysStep DEF IInv
  <1> QED BY <1>1, <1>4, <1>5, AnswerKeeps

\* The checks of a verification change nothing.
LEMMA VerifyKeyKeeps ==
  ASSUME IInv, NEW r \in Requests, VerifyKey(r)
  PROVE  IInv'
  <1>1. PICK c, x : c = call[r] /\ x = [c EXCEPT !.pc = "stamp", !.saw = keys.byID[Op(r).id]]
    OBVIOUS
  <1>2. /\ CallHolds(c) /\ c.pc = "serve" /\ c.op.route = "verifyKey"
        /\ UNCHANGED <<deploy, users, stores, rootLogin, gone, ended>>
    BY <1>1, Holds DEF VerifyKey, Doing, Op
  <1>3. CASE Answer(r, "refused")
    <2>1. StoresFine' /\ WorldMoves /\ Shrinks
      BY <1>2, StoresRest DEF IInv
    <2> QED BY <1>3, <2>1, AnswerKeeps
  <1>4. CASE call' = [call EXCEPT ![r] = x]
    <2>1. Like(c, x) /\ x.pc = "stamp" /\ x.op = c.op /\ x.offset = c.offset /\ x.reached = c.reached /\ x.touched = c.touched
      BY <1>1, <1>2 DEF CallHolds, CallTyped, Like
    <2>2. CallHolds(x)
      BY <1>2, <2>1, Onward DEF Admitted, CallHolds, CallTyped
    <2>3. DepartFine(x)
      BY <1>2, <2>1 DEF DepartFine
    <2> QED BY <1>2, <1>4, <2>2, <2>3, QuietKeeps DEF CallFine
  <1>5. Answer(r, "refused") \/ call' = [call EXCEPT ![r].pc = "stamp", ![r].saw = keys.byID[Op(r).id]]
    BY DEF VerifyKey
  <1> QED BY <1>1, <1>3, <1>4, <1>5

\* The stamp of a verification revives nothing.
LEMMA VerifyStampKeeps ==
  ASSUME IInv, NEW r \in Requests, VerifyStamp(r)
  PROVE  IInv' /\ StillFound(keys, keys')
  <1>1. /\ call[r].op.route = "verifyKey" /\ Answer(r, "yes")
        /\ UNCHANGED <<deploy, users, rbac, tenancy, metadata, settings, rootLogin, gone, ended>>
    BY DEF VerifyStamp, Doing, Op
  <1>2. KeysFine(keys', ended') /\ StillFound(keys, keys')
    BY <1>1, StampKeeps DEF VerifyStamp, IInv, StoresFine
  <1>3. StoresFine' /\ WorldMoves /\ Shrinks
    BY <1>1, <1>2, KeysStep DEF IInv, StoresFine
  <1> QED BY <1>1, <1>2, <1>3, AnswerKeeps

\* Time passing a key's expiry.
LEMMA ExpireKeyKeeps ==
  ASSUME IInv, NEW id, ExpireKey(id)
  PROVE  IInv' /\ StillFound(keys, keys')
  <1>1. KeysFine(keys', ended) /\ StillFound(keys, keys')
    BY ExpiryKeeps DEF ExpireKey, IInv, StoresFine
  <1>2. StoresFine' /\ WorldMoves /\ Shrinks
    BY <1>1, KeysStep DEF ExpireKey, IInv, StoresFine
  <1> QED BY <1>1, <1>2, NoneMoves DEF ExpireKey

(***************************************************************************)
(* The user's own account.                                                 *)
(***************************************************************************)
\* The profile that is read is the one there is.
LEMMA ProfileReadKeeps ==
  ASSUME IInv, NEW r \in Requests, ProfileRead(r)
  PROVE  IInv'
  <1>1. PICK c, u, x : c = call[r] /\ u = Op(r).id /\ x = [c EXCEPT !.pc = "write", !.saw = users[u]]
    OBVIOUS
  <1>2. /\ CallHolds(c) /\ c.pc = "serve" /\ c.op.route = "updateProfile" /\ c.op.id = u
        /\ UNCHANGED <<deploy, users, stores, rootLogin, gone, ended>>
    BY <1>1, Holds DEF ProfileRead, Doing, Op
  <1>3. CASE u \in DOMAIN users
    <2>1. /\ Like(c, x) /\ x.pc = "write" /\ x.op = c.op /\ x.saw = users[u] /\ x.offset = c.offset
          /\ x.reached = c.reached /\ x.touched = c.touched
      BY <1>1, <1>2 DEF CallHolds, CallTyped, Like
    <2>2. users[u].writes \in Nat
      BY <1>3 DEF IInv, StoresFine, UsersFine, UserFine
    <2>3. SawFine(x)
      BY <1>2, <1>3, <2>1, <2>2 DEF SawFine
    <2>4. CallHolds(x)
      BY <1>2, <2>1, <2>3, Onward DEF Admitted, CallHolds, CallTyped
    <2>5. DepartFine(x)
      BY <1>2, <2>1 DEF DepartFine
    <2>6. call' = [call EXCEPT ![r] = x]
      BY <1>1, <1>3 DEF ProfileRead
    <2> QED BY <1>2, <2>4, <2>5, <2>6, QuietKeeps DEF CallFine
  <1>4. CASE u \notin DOMAIN users
    <2>1. StoresFine' /\ WorldMoves /\ Shrinks
      BY <1>2, StoresRest DEF IInv
    <2> QED BY <1>1, <1>4, <2>1, AnswerKeeps DEF ProfileRead
  <1> QED BY <1>3, <1>4

\* The profile that is written is counted.
LEMMA ProfileWriteKeeps ==
  ASSUME IInv, NEW r \in Requests, ProfileWrite(r)
  PROVE  IInv'
  <1>1. call[r].op.route = "updateProfile" /\ UNCHANGED <<deploy, stores, rootLogin, gone, ended>>
    BY DEF ProfileWrite, Doing, Op
  <1>2. PICK u, profile : u = Op(r).id /\ profile = Resolved(r) /\ profile = [f \in Fields |-> profile[f]]
    BY DEF Resolved
  <1>3. CASE u \in DOMAIN users
    <2>1. PICK y, x : y = users[u] /\ UserFine(y) /\ x = [y EXCEPT !.profile = profile, !.writes = y.writes + 1]
      BY <1>3 DEF IInv, StoresFine, UsersFine
    <2>2. UserFine(x) /\ x.isAdmin = y.isAdmin /\ x.writes = y.writes + 1
      <3>1. x = [tenant |-> y.tenant, isAdmin |-> y.isAdmin, require2FA |-> y.require2FA,
                 profile |-> profile, writes |-> y.writes + 1]
        BY <2>1 DEF UserFine
      <3>2. /\ x.tenant = y.tenant /\ x.isAdmin = y.isAdmin /\ x.require2FA = y.require2FA
            /\ x.profile = profile /\ x.writes = y.writes + 1
        BY <3>1
      <3>3. x = [tenant |-> x.tenant, isAdmin |-> x.isAdmin, require2FA |-> x.require2FA,
                 profile |-> x.profile, writes |-> x.writes]
        BY <3>1, <3>2
      <3>4. y.isAdmin \in BOOLEAN /\ y.writes \in Nat
        BY <2>1 DEF UserFine
      <3> QED BY <1>2, <3>2, <3>3, <3>4 DEF UserFine
    <2>3. users' = [users EXCEPT ![u] = x] /\ Answer(r, "yes")
      <3>1. users' = [users EXCEPT ![u].profile = profile, ![u].writes = @ + 1] /\ Answer(r, "yes")
        BY <1>2, <1>3 DEF ProfileWrite
      <3> QED BY <1>3, <2>1, <3>1 DEF UserFine
    <2>4. UsersFine' /\ UsersMove
      BY <1>1, <1>3, <2>1, <2>2, <2>3, UserUpdateKeeps DEF IInv, StoresFine
    <2>5. StoresFine' /\ WorldMoves /\ Shrinks
      BY <1>1, <2>4, UsersOnly DEF IInv
    <2> QED BY <1>1, <2>3, <2>5, AnswerKeeps
  <1>4. CASE u \notin DOMAIN users
    <2>1. Answer(r, "no") /\ users' = users
      BY <1>2, <1>4 DEF ProfileWrite
    <2>2. StoresFine' /\ WorldMoves /\ Shrinks
      BY <1>1, <2>1, StoresRest DEF IInv
    <2> QED BY <2>1, <2>2, AnswerKeeps
  <1> QED BY <1>3, <1>4

\* One step of a departure.
Onto(c, pc, todo, touched) == [c EXCEPT !.pc = pc, !.todo = todo, !.touched = touched]

\* Each step of a departure keeps what the request was called with.
LEMMA DepartStep ==
  ASSUME NEW c, CallHolds(c), c.pc \in {"serve", "roles", "tenants"}, c.op.route = "deleteAccount",
         NEW pc \in {"roles", "tenants", "record"}, NEW todo, NEW touched \in BOOLEAN,
         NEW x, x = Onto(c, pc, todo, touched)
  PROVE  CallHolds(x) /\ x.pc = pc /\ x.op = c.op /\ x.todo = todo /\ x.touched = touched
  <1>1. Like(c, x) /\ x.pc = pc /\ x.op = c.op /\ x.todo = todo /\ x.touched = touched
        /\ x.offset = c.offset /\ x.reached = c.reached
    BY DEF CallHolds, CallTyped, Like, Onto
  <1>2. CallHolds(x)
    BY <1>1, Onward DEF Admitted
  <1> QED BY <1>1, <1>2

\* What is known of a departure under way.
LEMMA Departing ==
  ASSUME IInv, NEW r \in Requests, NEW pc \in Admitted, Doing(r, "deleteAccount", pc)
  PROVE  LET c == call[r] IN
         /\ CallHolds(c) /\ DepartFine(c) /\ c.pc = pc /\ c.pc \in Busy /\ c.op.route = "deleteAccount"
         /\ c.op.id \in UserIDs /\ c.touched \in BOOLEAN
         /\ c = [c EXCEPT !.touched = c.touched] /\ c = [c EXCEPT !.todo = c.todo]
  <1>1. call[r].pc \in Busy /\ call[r].pc = pc /\ Op(r).route = "deleteAccount" /\ Op(r) = call[r].op
    BY Serving DEF Op
  <1>2. call[r].op.id \in UserIDs
    BY <1>1, Named
  <1>3. CallFine(call[r]) /\ CallHolds(call[r]) /\ CallTyped(call[r])
    BY Holds
  <1> QED BY <1>1, <1>2, <1>3 DEF CallFine, CallTyped

\* The roles that are listed are all there is to remove.
LEMMA DepartRolesKeeps ==
  ASSUME IInv, NEW r \in Requests, DepartRoles(r)
  PROVE  IInv'
  <1>1. PICK c, todo, x : c = call[r] /\ todo = GetRolesForUser(rbac, c.op.id, c.op.tenant)
                          /\ x = Onto(c, "roles", todo, c.touched)
    OBVIOUS
  <1>2. CallHolds(c) /\ c.pc = "serve" /\ c.op.route = "deleteAccount" /\ c.touched \in BOOLEAN
    BY <1>1, Departing DEF DepartRoles, Admitted
  <1>3. CallHolds(x) /\ x.pc = "roles" /\ x.op = c.op /\ x.todo = todo
    BY <1>1, <1>2, DepartStep
  <1>4. DepartFine(x)
    BY <1>1, <1>3 DEF DepartFine
  <1>5. call' = [call EXCEPT ![r] = x]
    BY <1>1, <1>2 DEF Onto, DepartRoles, Op, CallHolds, CallTyped
  <1> QED BY <1>3, <1>4, <1>5, QuietKeeps DEF DepartRoles, CallFine

\* The role that is removed leaves the list and the store together.
LEMMA DepartRoleKeeps ==
  ASSUME IInv, NEW r \in Requests, DepartRole(r)
  PROVE  IInv'
  <1>1. PICK c : c = call[r]
    OBVIOUS
  <1>2. /\ CallHolds(c) /\ DepartFine(c) /\ c.pc = "roles" /\ c.op.route = "deleteAccount" /\ c.touched \in BOOLEAN
        /\ c.pc \in Busy /\ UNCHANGED <<deploy, users, tenancy, metadata, settings, keys, rootLogin, gone, ended>>
    BY <1>1, Departing DEF DepartRole, Admitted
  <1>3. PICK role \in c.todo :
          /\ rbac' = RemoveRoleFromUser(rbac, c.op.id, role, c.op.tenant)
          /\ call' = [call EXCEPT ![r].todo = @ \ {role}]
    BY <1>1 DEF DepartRole, Op
  <1>4. PICK todo, x : todo = c.todo \ {role} /\ x = Onto(c, "roles", todo, c.touched)
    OBVIOUS
  <1>5. CallHolds(x) /\ x.pc = "roles" /\ x.op = c.op /\ x.todo = todo /\ x.touched = c.touched
    BY <1>2, <1>4, DepartStep
  <1>6. RolesFine(rbac') /\ rbac'.userRoles = rbac.userRoles \ {<<c.op.id, c.op.tenant, role>>}
    BY <1>3, RemoveRoleKeeps DEF IInv, StoresFine
  <1>7. StoresFine' /\ WorldMoves /\ Shrinks
    BY <1>2, <1>6, RolesStep DEF IInv
  <1>8. DepartFine(x)'
    <2>1. ASSUME c.touched = FALSE PROVE GetRolesForUser(rbac', c.op.id, c.op.tenant) \subseteq todo
      <3>1. GetRolesForUser(rbac, c.op.id, c.op.tenant) \subseteq c.todo
        BY <1>2, <2>1 DEF DepartFine
      <3> QED BY <1>4, <1>6, <3>1 DEF GetRolesForUser
    <2> QED BY <1>5, <2>1 DEF DepartFine
  <1>9. call' = [call EXCEPT ![r] = x]
    BY <1>1, <1>2, <1>3, <1>4 DEF Onto, CallHolds, CallTyped
  <1> QED BY <1>5, <1>7, <1>8, <1>9, MoveKeeps

\* No role is left when the tenants are listed.
LEMMA DepartTenantsKeeps ==
  ASSUME IInv, NEW r \in Requests, DepartTenants(r)
  PROVE  IInv'
  <1>1. PICK c, todo, x : c = call[r] /\ todo = GetTenantsForUser(tenancy, c.op.id)
                          /\ x = Onto(c, "tenants", todo, c.touched)
    OBVIOUS
  <1>2. /\ CallHolds(c) /\ DepartFine(c) /\ c.pc = "roles" /\ c.op.route = "deleteAccount" /\ c.touched \in BOOLEAN
        /\ c.pc \in Busy /\ c.todo = {}
    BY <1>1, Departing DEF DepartTenants, Admitted
  <1>3. CallHolds(x) /\ x.pc = "tenants" /\ x.op = c.op /\ x.todo = todo /\ x.touched = c.touched
    BY <1>1, <1>2, DepartStep
  <1>4. DepartFine(x)
    BY <1>1, <1>2, <1>3 DEF DepartFine
  <1>5. call' = [call EXCEPT ![r] = x]
    BY <1>1, <1>2 DEF Onto, DepartTenants, Op, CallHolds, CallTyped
  <1> QED BY <1>3, <1>4, <1>5, QuietKeeps DEF DepartTenants, CallFine

\* The tenant that is left leaves the list and both indexes together.
LEMMA DepartTenantKeeps ==
  ASSUME IInv, NEW r \in Requests, DepartTenant(r)
  PROVE  IInv'
  <1>1. PICK c : c = call[r]
    OBVIOUS
  <1>2. /\ CallHolds(c) /\ DepartFine(c) /\ c.pc = "tenants" /\ c.op.route = "deleteAccount" /\ c.touched \in BOOLEAN
        /\ c.pc \in Busy /\ UNCHANGED <<deploy, users, rbac, metadata, settings, keys, rootLogin, gone, ended>>
    BY <1>1, Departing DEF DepartTenant, Admitted
  <1>3. PICK t \in c.todo :
          /\ tenancy' = DisassociateUserFromTenant(tenancy, c.op.id, t)
          /\ call' = [call EXCEPT ![r].todo = @ \ {t}]
    BY <1>1 DEF DepartTenant, Op
  <1>4. PICK todo, x : todo = c.todo \ {t} /\ x = Onto(c, "tenants", todo, c.touched)
    OBVIOUS
  <1>5. CallHolds(x) /\ x.pc = "tenants" /\ x.op = c.op /\ x.todo = todo /\ x.touched = c.touched
    BY <1>2, <1>4, DepartStep
  <1>6. /\ TenantsFine(tenancy') /\ t \notin GetTenantsForUser(tenancy', c.op.id)
        /\ \A v : GetTenantsForUser(tenancy', v) \subseteq GetTenantsForUser(tenancy, v)
    BY <1>3, DisassociateKeeps DEF IInv, StoresFine
  <1>7. StoresFine' /\ WorldMoves /\ Shrinks
    BY <1>2, <1>6, TenantsStep DEF IInv, StoresFine
  <1>8. DepartFine(x)'
    <2>1. ASSUME c.touched = FALSE
          PROVE  /\ GetTenantsForUser(tenancy', c.op.id) \subseteq todo
                 /\ GetRolesForUser(rbac', c.op.id, c.op.tenant) = {}
      <3>1. GetTenantsForUser(tenancy, c.op.id) \subseteq c.todo /\ GetRolesForUser(rbac, c.op.id, c.op.tenant) = {}
        BY <1>2, <2>1 DEF DepartFine
      <3> QED BY <1>2, <1>4, <1>6, <3>1
    <2> QED BY <1>5, <2>1 DEF DepartFine
  <1>9. call' = [call EXCEPT ![r] = x]
    BY <1>1, <1>2, <1>3, <1>4 DEF Onto, CallHolds, CallTyped
  <1> QED BY <1>5, <1>7, <1>8, <1>9, MoveKeeps

\* No role and no membership is left when the metadata go.
LEMMA DepartMetadataKeeps ==
  ASSUME IInv, NEW r \in Requests, DepartMetadata(r)
  PROVE  IInv'
  <1>1. PICK c, x : c = call[r] /\ x = Onto(c, "record", c.todo, c.touched)
    OBVIOUS
  <1>2. /\ CallHolds(c) /\ DepartFine(c) /\ c.pc = "tenants" /\ c.op.route = "deleteAccount" /\ c.touched \in BOOLEAN
        /\ c.pc \in Busy /\ c.todo = {} /\ metadata' = metadata \ {c.op.id}
        /\ UNCHANGED <<deploy, users, rbac, tenancy, settings, keys, rootLogin, gone, ended>>
    BY <1>1, Departing DEF DepartMetadata, Admitted, ClearMetadata, Op
  <1>3. CallHolds(x) /\ x.pc = "record" /\ x.op = c.op /\ x.touched = c.touched
    BY <1>1, <1>2, DepartStep
  <1>4. StoresFine' /\ WorldMoves
    BY <1>2, OneStore DEF IInv, StoresFine
  <1>5. Shrinks
    BY <1>2 DEF Shrinks
  <1>6. DepartFine(x)'
    BY <1>2, <1>3 DEF DepartFine
  <1>7. call' = [call EXCEPT ![r] = x]
    BY <1>1, <1>2 DEF Onto, DepartMetadata, Goto, CallHolds, CallTyped
  <1> QED BY <1>3, <1>4, <1>5, <1>6, <1>7, MoveKeeps

\* The record goes last.
LEMMA DepartRecordKeeps ==
  ASSUME IInv, NEW r \in Requests, DepartRecord(r)
  PROVE  IInv'
  <1>1. call[r].op.route # "twoFAPolicy" /\ UNCHANGED <<deploy, stores, rootLogin, ended>>
    BY DEF DepartRecord, Doing, Op
  <1>2. CASE HasUser(Op(r).id, Op(r).tenant)
    <2>1. UsersFine' /\ UsersMove
      BY <1>2, RemovalKeeps DEF DepartRecord, HasUser, IInv, StoresFine
    <2>2. StoresFine' /\ WorldMoves /\ Shrinks
      BY <1>1, <2>1, UsersOnly DEF IInv
    <2> QED BY <1>1, <1>2, <2>2, AnswerKeeps DEF DepartRecord
  <1>3. CASE ~HasUser(Op(r).id, Op(r).tenant)
    <2>1. StoresFine' /\ WorldMoves /\ Shrinks
      BY <1>3, StoresRest DEF DepartRecord, IInv
    <2> QED BY <1>1, <1>3, <2>1, AnswerKeeps DEF DepartRecord
  <1> QED BY <1>2, <1>3

\* A failure is marked, and then nothing is promised.
LEMMA CleanUpFailsKeeps ==
  ASSUME IInv, NEW r \in Requests, NEW pc \in {"serve", "roles", "tenants"}, NEW next \in {"roles", "tenants", "record"},
         CleanUpFails(r, pc, next)
  PROVE  IInv'
  <1>0. PICK w : w = TRUE
    OBVIOUS
  <1>1. PICK c, x : c = call[r] /\ x = Onto(c, next, c.todo, w)
    OBVIOUS
  <1>2. CallHolds(c) /\ c.pc = pc /\ c.op.route = "deleteAccount"
    BY <1>1, Departing DEF CleanUpFails, Admitted
  <1>3. CallHolds(x) /\ x.touched = TRUE
    <2>1. w \in BOOLEAN
      BY <1>0
    <2>2. CallHolds(x) /\ x.touched = w
      BY <1>1, <1>2, <2>1, DepartStep
    <2> QED BY <1>0, <2>2
  <1>4. DepartFine(x)
    BY <1>3 DEF DepartFine
  <1>5. call' = [call EXCEPT ![r] = x]
    BY <1>0, <1>1, <1>2 DEF Onto, CleanUpFails, CallHolds, CallTyped
  <1> QED BY <1>3, <1>4, <1>5, QuietKeeps DEF CleanUpFails, CallFine

\* So is a removal that fails.
LEMMA RemovalFailsKeeps ==
  ASSUME IInv, NEW r \in Requests, RemovalFails(r)
  PROVE  IInv'
  <1>1. PICK one \in call[r].todo : call' = [call EXCEPT ![r].todo = @ \ {one}, ![r].touched = TRUE]
    BY DEF RemovalFails
  <1>0. PICK w : w = TRUE
    OBVIOUS
  <1>2. PICK c, pc, todo, x : /\ c = call[r] /\ pc = c.pc /\ todo = c.todo \ {one}
                              /\ x = Onto(c, pc, todo, w)
    OBVIOUS
  <1>3. pc \in {"roles", "tenants"} /\ Doing(r, "deleteAccount", pc)
    BY <1>2 DEF RemovalFails, Doing
  <1>4. CallHolds(c) /\ c.op.route = "deleteAccount"
    BY <1>2, <1>3, Departing DEF Admitted
  <1>5. CallHolds(x) /\ x.touched = TRUE
    <2>1. w \in BOOLEAN
      BY <1>0
    <2>2. CallHolds(x) /\ x.touched = w
      BY <1>2, <1>3, <1>4, <2>1, DepartStep
    <2> QED BY <1>0, <2>2
  <1>6. DepartFine(x)
    BY <1>5 DEF DepartFine
  <1>7. call' = [call EXCEPT ![r] = x]
    BY <1>0, <1>1, <1>2, <1>4 DEF Onto, CallHolds, CallTyped
  <1> QED BY <1>5, <1>6, <1>7, QuietKeeps DEF RemovalFails, CallFine

(***************************************************************************)
(* The steps together.                                                     *)
(***************************************************************************)
\* A root login is remembered.
LEMMA AdminLoginKeeps ==
  ASSUME IInv, AdminLogin
  PROVE  IInv'
  <1>1. UsersFine' /\ UsersMove /\ SettingsFine' /\ SettingsMove
    BY UsersRest, SettingsRest DEF IInv, StoresFine, AdminLogin, stores
  <1>2. StoresFine' /\ WorldMoves /\ Shrinks
    BY <1>1 DEF IInv, StoresFine, AdminLogin, stores, WorldMoves, Shrinks, RolesFine, TenantsFine, KeysFine, RoleExists
  <1> QED BY <1>2, NoneMoves DEF AdminLogin

\* A registration leaves every request fine.
LEMMA RegisterStep ==
  ASSUME IInv, NEW u \in UserIDs, NEW t, Register(u, t)
  PROVE  IInv'
  <1>1. UsersFine' /\ UsersMove
    BY RegisterKeeps DEF IInv, StoresFine, Register
  <1>2. StoresFine' /\ WorldMoves /\ Shrinks
    BY <1>1, UsersOnly DEF IInv, Register
  <1> QED BY <1>2, NoneMoves DEF Register

\* The steps of a request, route by route.
LEMMA RequestKeeps ==
  ASSUME IInv, NEW r \in Requests,
         Guard(r) \/ UserRoutes(r) \/ StoreRoutes(r) \/ KeyRoutes(r) \/ AccountRoutes(r)
  PROVE  IInv'
  <1>1. CASE Guard(r)
    BY <1>1, LoadUserKeeps, EvaluateFirstUserKeeps DEF Guard
  <1>2. CASE UserRoutes(r)
    BY <1>2, AdminDeleteUserKeeps, PromoteFlagKeeps, PolicyPageKeeps, PolicyUpdateKeeps, PolicyNextKeeps DEF UserRoutes
  <1>3. CASE StoreRoutes(r)
    BY <1>3, AddUserRoleKeeps, RemoveUserRoleKeeps, CreateRoleRouteKeeps, DeleteRoleRouteKeeps, PromoteCreateRoleKeeps,
       PromoteAssignKeeps, HostPermissionKeeps, CreateTenantRouteKeeps, DeleteTenantRouteKeeps, AddTenantUserKeeps,
       RemoveTenantUserKeeps, UpdateMetadataKeeps, UpdateSettingsKeeps, PatchUIReadKeeps, PatchUIWriteKeeps DEF StoreRoutes
  <1>4. CASE KeyRoutes(r)
    BY <1>4, CreateAPIKeyKeeps, RevokeAPIKeyKeeps, DeleteAPIKeyKeeps, VerifyKeyKeeps, VerifyStampKeeps DEF KeyRoutes
  <1>5. CASE AccountRoutes(r)
    BY <1>5, ProfileReadKeeps, ProfileWriteKeeps, DepartRolesKeeps, DepartRoleKeeps, DepartTenantsKeeps, DepartTenantKeeps,
       DepartMetadataKeeps, DepartRecordKeeps, CleanUpFailsKeeps, RemovalFailsKeeps DEF AccountRoutes
  <1> QED BY <1>1, <1>2, <1>3, <1>4, <1>5

\* Every step keeps the invariant.
LEMMA NextKeeps ==
  ASSUME IInv, Next
  PROVE  IInv'
  <1>1. ASSUME NEW r \in Requests,
               \/ \E op \in deploy.ops, cred \in Credentials : Arrive(r, op, cred)
               \/ Guard(r) \/ UserRoutes(r) \/ StoreRoutes(r) \/ KeyRoutes(r) \/ AccountRoutes(r)
        PROVE  IInv'
    BY <1>1, ArriveKeeps, RequestKeeps
  <1>2. CASE \E u \in UserIDs : Register(u, NoTenant)
    BY <1>2, RegisterStep
  <1>3. CASE \E id \in KeyIDs : ExpireKey(id)
    BY <1>3, ExpireKeyKeeps
  <1>4. CASE AdminLogin
    BY <1>4, AdminLoginKeeps
  <1> QED BY <1>1, <1>2, <1>3, <1>4 DEF Next

\* So does a step that changes nothing.
LEMMA StutterKeeps ==
  ASSUME IInv, UNCHANGED vars
  PROVE  IInv'
  <1>1. UNCHANGED <<deploy, users, stores, rootLogin, gone, ended>> /\ call' = call
    BY DEF vars, stores
  <1>2. StoresFine' /\ WorldMoves /\ Shrinks
    BY <1>1, StoresRest DEF IInv
  <1> QED BY <1>1, <1>2, NoneMoves

\* The invariant holds to begin with, whatever the deployment.
LEMMA InitFine == Init => IInv
  <1> SUFFICES ASSUME Init PROVE IInv
    OBVIOUS
  <1>1. UsersFine
    <2>1. DOMAIN users = DOMAIN InitialUsers /\ gone = {}
      BY DEF Init
    <2>2. \A u \in DOMAIN users : UserFine(users[u])
      <3> SUFFICES ASSUME NEW u \in DOMAIN users PROVE UserFine(users[u])
        OBVIOUS
      <3>1. PICK t, admin : t = InitialUsers[u] /\ admin = (\A v \in DOMAIN InitialUsers : u <= v)
        OBVIOUS
      <3>2. users[u] = NewUser(t, admin) /\ admin \in BOOLEAN
        BY <2>1, <3>1 DEF Init
      <3> QED BY <3>2, NewUserFine
    <2> QED BY <2>1, <2>2, StartAssumption DEF UsersFine
  <1>2. RolesFine(rbac)
    BY DEF Init, RolesFine
  <1>3. TenantsFine(tenancy)
    BY StartAssumption DEF Init, TenantsFine, TenantStore, NewTenantStore
  <1>4. SettingsFine
    BY DEF Init, SettingsFine, NewSettings
  <1>5. KeysFine(keys, ended)
    BY DEF Init, KeysFine, NewKeyStore, Empty
  <1>6. StoresFine
    BY <1>1, <1>2, <1>3, <1>4, <1>5 DEF StoresFine, Init
  <1>7. CallFine(Idle)
    <2>1. PICK z : z = Idle /\ z = [pc |-> "idle", op |-> NoValue, cred |-> NoValue, ok |-> "open", todo |-> {}, offset |-> 0,
                                    saw |-> NoValue, before |-> {}, goneAt |-> {}, reached |-> {}, touched |-> FALSE]
      BY DEF Idle
    <2>2. z.pc = "idle" /\ z.op = NoValue /\ z.ok = "open" /\ z.offset = 0 /\ z.goneAt = {} /\ z.touched = FALSE
      BY <2>1
    <2>3. z = [pc |-> z.pc, op |-> z.op, cred |-> z.cred, ok |-> z.ok, todo |-> z.todo, offset |-> z.offset,
               saw |-> z.saw, before |-> z.before, goneAt |-> z.goneAt, reached |-> z.reached, touched |-> z.touched]
      BY <2>1
    <2>4. CallTyped(z)
      <3>1. z.touched \in BOOLEAN
        BY <2>2
      <3>2. z.pc \notin Busy /\ z.offset \in Nat /\ z.goneAt \subseteq gone
        BY <2>2 DEF Busy, Admitted
      <3> QED BY <2>2, <2>3, <3>1, <3>2 DEF CallTyped
    <2>5. StandingFine(z) /\ SawFine(z) /\ DepartFine(z) /\ WalkFine(z)
      BY <2>2 DEF StandingFine, SawFine, DepartFine, WalkFine, Admitted, Busy
    <2> QED BY <2>1, <2>4, <2>5 DEF CallFine, CallHolds
  <1>8. call = [r \in Requests |-> Idle]
    BY DEF Init
  <1> QED BY <1>6, <1>7, <1>8 DEF IInv, CallsFine

\* The inductive invariant holds throughout.
THEOREM Consistent == Spec => []IInv
  <1>1. IInv /\ [Next]_vars => IInv'
    BY NextKeeps, StutterKeeps
  <1> QED BY <1>1, InitFine, PTL DEF Spec

\* NothingDangles (feature_stores.go, memory_api_key_store.go): no assignment without its role, no membership
\* without its tenant, no prefix without its key, whatever the routes interleave.
THEOREM NothingEverDangles == Spec => []NothingDangles
  <1>1. IInv => NothingDangles
    <2> SUFFICES ASSUME IInv PROVE NothingDangles
      OBVIOUS
    <2>1. TypeOK
      BY Holds, RolesAreTyped, KeysAreTyped DEF TypeOK, IInv, StoresFine, UsersFine, TenantsFine, CallTyped
    <2> QED BY <2>1 DEF NothingDangles, IInv, StoresFine, RolesFine, TenantsFine, KeysFine
  <1> QED BY <1>1, Consistent, PTL

\* AdmittedHadStanding (admin.go, authorise): whoever is past the guard had standing when it let them through.
THEOREM TheAdmittedHadStanding == Spec => []AdmittedHadStanding
  <1>1. IInv => AdmittedHadStanding
    <2> SUFFICES ASSUME IInv, NEW r \in Requests, NEW c, c = call[r],
                        c.pc \notin {"idle", "user", "policy", "done"}, c.op.route \notin SelfRoutes \cup OpenRoutes,
                        deploy.policy # "open"
                 PROVE  \/ deploy.policy = "secret" /\ c.cred.typ = "secret"
                        \/ c.cred.typ = "admin" /\ c.cred.root /\ rootLogin
                        \/ /\ c.cred.typ \in {"access", "admin"}
                           /\ c.cred.sub \notin c.goneAt
                           /\ deploy.policy = "is-admin-flag" =>
                                (c.cred.sub \in DOMAIN users => users[c.cred.sub].isAdmin)
      BY DEF AdmittedHadStanding
    <2>1. CallHolds(c) /\ CallTyped(c)
      BY Holds
    <2>2. c.pc \in Admitted
      BY <2>1 DEF CallTyped, Busy
    <2>3. HasStanding(c)
      BY <2>1, <2>2 DEF CallHolds, StandingFine
    <2> QED BY <2>3 DEF HasStanding
  <1> QED BY <1>1, Consistent, PTL

\* PolicyReachesUnlessDeleted (admin_write.go, adminSetTwoFAPolicy): a walk that succeeded with nobody deleted
\* since it began has written everyone who was there, for tables and batches of any size.
THEOREM ThePolicyReaches == Spec => []PolicyReachesUnlessDeleted
  <1>1. IInv => PolicyReachesUnlessDeleted
    BY Holds DEF PolicyReachesUnlessDeleted, Walked, CallHolds, WalkFine
  <1> QED BY <1>1, Consistent, PTL

(***************************************************************************)
(* What a step may never do.                                               *)
(***************************************************************************)
\* What a request may do as long as it has not been answered.
Moves(q) ==
  \/ \E op \in deploy.ops, cred \in Credentials : Arrive(q, op, cred)
  \/ Guard(q) \/ UserRoutes(q) \/ StoreRoutes(q) \/ KeyRoutes(q) \/ AccountRoutes(q)

\* An answer, and a mark, leave the outcome of the other requests as it was.
LEMMA OthersByAnswer ==
  ASSUME IInv, NEW q \in Requests, NEW ok, NEW r \in Requests \ {q}
  PROVE  /\ Answered(q, ok)[r] = call[r]
         /\ \A u : Touch(Answered(q, ok), u)[r].ok = call[r].ok
  <1>1. Answered(q, ok)[r] = call[r]
    BY DEF Answered, IInv, CallsFine
  <1>2. ASSUME NEW u PROVE Touch(Answered(q, ok), u)[r].ok = call[r].ok
    <2>1. PICK c : c = call[r] /\ c = Answered(q, ok)[r]
      BY <1>1
    <2>2. [c EXCEPT !.touched = TRUE].ok = c.ok
      <3>1. CallTyped(c)
        BY <2>1, Holds
      <3> QED BY <3>1 DEF CallTyped
    <2> QED BY <2>1, <2>2 DEF Touch
  <1> QED BY <1>1, <1>2

\* A request is answered by its own step.
LEMMA OthersUnanswered ==
  ASSUME IInv, NEW q \in Requests, Moves(q), NEW r \in Requests \ {q}
  PROVE  call'[r].ok = call[r].ok
  <1>1. CASE \/ \E ok : Answer(q, ok)
             \/ \E ok, u : call' = Touch(Answered(q, ok), u)
             \/ \E x : call' = [call EXCEPT ![q] = x]
    BY <1>1, OthersByAnswer DEF Answer, IInv, CallsFine
  <1>2. CASE \E op \in deploy.ops, cred \in Credentials : Arrive(q, op, cred)
    BY <1>1, <1>2 DEF Arrive
  <1>3. CASE Guard(q)
    <2>1. CASE LoadUser(q)
      <3>1. deploy.policy \in {"first-user", "is-admin-flag"}
        BY <2>1, Holds DEF LoadUser, CallHolds, StandingFine
      <3>2. (\E ok : Answer(q, ok)) \/ Goto(q, "policy") \/ Goto(q, "serve")
        BY <2>1, <3>1 DEF LoadUser
      <3> QED BY <1>1, <3>2 DEF Goto, IInv, CallsFine
    <2>2. CASE EvaluateFirstUser(q)
      BY <1>1, <2>2 DEF EvaluateFirstUser, Goto, IInv, CallsFine
    <2> QED BY <1>3, <2>1, <2>2 DEF Guard
  <1>4. CASE UserRoutes(q)
    BY <1>1, <1>4 DEF UserRoutes, AdminDeleteUser, PromoteFlag, PolicyPage, PolicyUpdate, PolicyNext, IInv, CallsFine
  <1>5. CASE StoreRoutes(q)
    BY <1>1, <1>5 DEF StoreRoutes, AdminAddUserRole, AdminRemoveUserRole, AdminCreateRole, AdminDeleteRole, PromoteCreateRole,
       PromoteAssign, HostPermission, AdminCreateTenant, AdminDeleteTenant, AdminAddTenantUser, AdminRemoveTenantUser,
       AdminUpdateUserMetadata, AdminUpdateSettings, PatchUIRead, PatchUIWrite, Goto, IInv, CallsFine
  <1>6. CASE KeyRoutes(q)
    BY <1>1, <1>6 DEF KeyRoutes, AdminCreateAPIKey, AdminRevokeAPIKey, AdminDeleteAPIKey, VerifyKey, VerifyStamp,
       IInv, CallsFine
  <1>7. CASE AccountRoutes(q)
    BY <1>1, <1>7 DEF AccountRoutes, ProfileRead, ProfileWrite, DepartRoles, DepartRole, DepartTenants, DepartTenant,
       DepartMetadata, DepartRecord, CleanUpFails, RemovalFails, Goto, IInv, CallsFine
  <1> QED BY <1>2, <1>3, <1>4, <1>5, <1>6, <1>7 DEF Moves

\* Nobody but the request itself answers it, and only a step of Next does.
LEMMA AnsweredByMoving ==
  ASSUME IInv, [Next]_vars, NEW r \in Requests, call[r].pc \in Admitted, call'[r].ok = "yes"
  PROVE  Moves(r)
  <1>1. call[r].ok = "open"
    BY Holds DEF CallTyped, Busy
  <1>2. CASE UNCHANGED vars
    BY <1>1, <1>2 DEF vars
  <1>3. CASE AdminLogin \/ (\E u \in UserIDs : Register(u, NoTenant)) \/ \E id \in KeyIDs : ExpireKey(id)
    BY <1>1, <1>3 DEF AdminLogin, Register, ExpireKey
  <1>4. ASSUME NEW q \in Requests, Moves(q) PROVE Moves(r)
    BY <1>1, <1>4, OthersUnanswered
  <1>5. Next => \/ \E q \in Requests : Moves(q)
                \/ AdminLogin \/ (\E u \in UserIDs : Register(u, NoTenant)) \/ \E id \in KeyIDs : ExpireKey(id)
    BY DEF Next, Moves
  <1> QED BY <1>2, <1>3, <1>4, <1>5

\* A request that has read and is about to write can only write.
LEMMA WritingOnlyWrites ==
  ASSUME NEW r, call[r].pc = "write", Moves(r)
  PROVE  PatchUIWrite(r) \/ ProfileWrite(r)
  <1>1. ~ \E op \in deploy.ops, cred \in Credentials : Arrive(r, op, cred)
    BY DEF Arrive
  <1>2. ~ (Guard(r) \/ UserRoutes(r))
    BY DEF Guard, LoadUser, EvaluateFirstUser, UserRoutes, AdminDeleteUser, PromoteFlag, PolicyPage, PolicyUpdate, PolicyNext,
       Doing
  <1>3. StoreRoutes(r) => PatchUIWrite(r)
    BY DEF StoreRoutes, AdminAddUserRole, AdminRemoveUserRole, AdminCreateRole, AdminDeleteRole, PromoteCreateRole,
       PromoteAssign, HostPermission, AdminCreateTenant, AdminDeleteTenant, AdminAddTenantUser, AdminRemoveTenantUser,
       AdminUpdateUserMetadata, AdminUpdateSettings, PatchUIRead, Doing
  <1>4. ~ KeyRoutes(r)
    BY DEF KeyRoutes, AdminCreateAPIKey, AdminRevokeAPIKey, AdminDeleteAPIKey, VerifyKey, VerifyStamp, Doing
  <1>5. AccountRoutes(r) => ProfileWrite(r)
    BY DEF AccountRoutes, ProfileRead, DepartRoles, DepartRole, DepartTenants, DepartTenant,
       DepartMetadata, DepartRecord, CleanUpFails, RemovalFails, Doing
  <1> QED BY <1>1, <1>2, <1>3, <1>4, <1>5 DEF Moves

\* A departure that has cleaned up can only delete the record.
LEMMA RecordOnlyGoes ==
  ASSUME NEW r, call[r].pc = "record", Moves(r)
  PROVE  DepartRecord(r)
  <1>1. ~ \E op \in deploy.ops, cred \in Credentials : Arrive(r, op, cred)
    BY DEF Arrive
  <1>2. ~ (Guard(r) \/ UserRoutes(r))
    BY DEF Guard, LoadUser, EvaluateFirstUser, UserRoutes, AdminDeleteUser, PromoteFlag, PolicyPage, PolicyUpdate, PolicyNext,
       Doing
  <1>3. ~ StoreRoutes(r)
    BY DEF StoreRoutes, AdminAddUserRole, AdminRemoveUserRole, AdminCreateRole, AdminDeleteRole, PromoteCreateRole,
       PromoteAssign, HostPermission, AdminCreateTenant, AdminDeleteTenant, AdminAddTenantUser, AdminRemoveTenantUser,
       AdminUpdateUserMetadata, AdminUpdateSettings, PatchUIRead, PatchUIWrite, Doing
  <1>4. ~ KeyRoutes(r)
    BY DEF KeyRoutes, AdminCreateAPIKey, AdminRevokeAPIKey, AdminDeleteAPIKey, VerifyKey, VerifyStamp, Doing
  <1>5. AccountRoutes(r) => DepartRecord(r)
    BY DEF AccountRoutes, ProfileRead, ProfileWrite, DepartRoles, DepartRole, DepartTenants, DepartTenant,
       DepartMetadata, CleanUpFails, RemovalFails, Doing
  <1> QED BY <1>1, <1>2, <1>3, <1>4, <1>5 DEF Moves

\* The patch of the branding block leaves the other fields, unless a write came between.
LEMMA PatchLeaves ==
  ASSUME IInv, NEW r \in Requests, PatchUIWrite(r), NEW f \in Fields \ DOMAIN call[r].op.arg,
         call[r].saw.writes = settings.writes
  PROVE  settings'.ui[f] = settings.ui[f]
  <1>1. PICK ui, patch : ui = MergeUISettings(call[r].saw.ui, Op(r).arg) /\ patch = [ui |-> ui]
    OBVIOUS
  <1>2. call[r].saw.ui = settings.ui /\ settings.ui = [g \in Fields |-> settings.ui[g]]
    BY Holds DEF PatchUIWrite, Doing, Op, CallHolds, SawFine, IInv, StoresFine, SettingsFine
  <1>3. ui[f] = settings.ui[f]
    <2>1. f \in DOMAIN call[r].saw.ui
      BY <1>2
    <2> QED BY <1>1, <1>2, <2>1 DEF MergeUISettings, Op
  <1>4. settings'.ui = ui
    <2>1. PICK z : z = MergeSettings(settings, patch)
      OBVIOUS
    <2>2. DOMAIN settings = {"require2FA", "ui", "writes"}
      BY DEF IInv, StoresFine, SettingsFine
    <2>3. DOMAIN z = DOMAIN settings /\ z["ui"] = patch["ui"]
      BY <1>1, <2>1, <2>2 DEF MergeSettings
    <2>4. settings' = [z EXCEPT !.writes = @ + 1]
      BY <1>1, <2>1 DEF PatchUIWrite, UpdateSettings
    <2> QED BY <1>1, <2>2, <2>3, <2>4
  <1> QED BY <1>3, <1>4

\* So does the update of a profile.
LEMMA ProfileLeaves ==
  ASSUME IInv, NEW r \in Requests, call[r].pc = "write", ProfileWrite(r), call'[r].ok = "yes",
         NEW f \in Fields \ DOMAIN call[r].op.arg, call[r].saw.writes = users[call[r].op.id].writes
  PROVE  users'[call[r].op.id].profile[f] = users[call[r].op.id].profile[f]
  <1>1. PICK u, profile : u = call[r].op.id /\ profile = Resolved(r)
    OBVIOUS
  <1>2. u \in DOMAIN users
    <2> SUFFICES ASSUME u \notin DOMAIN users PROVE FALSE
      OBVIOUS
    <2>1. call' = Answered(r, "no")
      BY <1>1 DEF ProfileWrite, Op, Answer
    <2>2. call'[r].ok = "no"
      BY <2>1 DEF Answered, Op, IInv, CallsFine, Idle
    <2> QED BY <2>2
  <1>3. call[r].saw.profile = users[u].profile
    BY <1>1, <1>2, Holds DEF ProfileWrite, Doing, Op, CallHolds, SawFine
  <1>4. profile[f] = users[u].profile[f]
    BY <1>1, <1>3 DEF Resolved, Op
  <1>5. UserFine(users[u])
    BY <1>2 DEF IInv, StoresFine, UsersFine
  <1>6. users' = [users EXCEPT ![u].profile = profile, ![u].writes = @ + 1]
    BY <1>1, <1>2 DEF ProfileWrite, Op
  <1>7. users'[u].profile = profile
    BY <1>2, <1>5, <1>6 DEF UserFine
  <1> QED BY <1>1, <1>4, <1>7

\* UnsubmittedFieldKept (service.go, UpdateProfile; admin_write.go, PATCH /api/settings/ui): a field that was not
\* submitted stays, unless another write came between the read and the write.
THEOREM UnsubmittedFieldsAreKept == Spec => UnsubmittedFieldKept
  <1>1. IInv /\ [Next]_vars =>
          [\A r \in Requests :
             LET c == call[r]
             IN  (c.pc = "write" /\ call'[r].ok = "yes") =>
                   \A f \in Fields \ DOMAIN c.op.arg :
                     IF c.op.route = "patchUI"
                     THEN c.saw.writes = settings.writes => settings'.ui[f] = settings.ui[f]
                     ELSE c.saw.writes = users[c.op.id].writes =>
                            users'[c.op.id].profile[f] = users[c.op.id].profile[f]]_vars
    <2> SUFFICES ASSUME IInv, [Next]_vars, NEW r \in Requests, call[r].pc = "write", call'[r].ok = "yes",
                        NEW f \in Fields \ DOMAIN call[r].op.arg
                 PROVE  IF call[r].op.route = "patchUI"
                        THEN call[r].saw.writes = settings.writes => settings'.ui[f] = settings.ui[f]
                        ELSE call[r].saw.writes = users[call[r].op.id].writes =>
                               users'[call[r].op.id].profile[f] = users[call[r].op.id].profile[f]
      OBVIOUS
    <2>1. PatchUIWrite(r) \/ ProfileWrite(r)
      BY AnsweredByMoving, WritingOnlyWrites DEF Admitted
    <2>2. CASE PatchUIWrite(r)
      BY <2>2, PatchLeaves DEF PatchUIWrite, Doing, Op
    <2>3. CASE ProfileWrite(r)
      BY <2>3, ProfileLeaves DEF ProfileWrite, Doing, Op
    <2> QED BY <2>1, <2>2, <2>3
  <1> QED BY <1>1, Consistent, PTL DEF Spec, UnsubmittedFieldKept

\* A departure that succeeds unmarked has removed all there was.
LEMMA DepartureLeavesNothing ==
  ASSUME IInv, [Next]_vars, NEW r \in Requests, call[r].pc = "record", call'[r].ok = "yes", ~call[r].touched
  PROVE  /\ GetRolesForUser(rbac', call[r].op.id, call[r].op.tenant) = {}
         /\ GetTenantsForUser(tenancy', call[r].op.id) = {}
         /\ call[r].op.id \notin metadata'
  <1>1. DepartRecord(r)
    BY AnsweredByMoving, RecordOnlyGoes DEF Admitted
  <1>2. UNCHANGED <<rbac, tenancy, metadata>> /\ call[r].op.route = "deleteAccount"
    BY <1>1 DEF DepartRecord, stores, Doing, Op
  <1>3. call[r].touched = FALSE
    <2>1. call[r].touched \in BOOLEAN
      BY Holds DEF CallTyped
    <2> QED BY <2>1
  <1>4. DepartFine(call[r])
    BY Holds DEF CallFine
  <1> QED BY <1>2, <1>3, <1>4 DEF DepartFine, Busy, Admitted

\* What has ended stays remembered, and every prefix whose key is there stays found.
LEMMA KeysMove ==
  ASSUME IInv, [Next]_vars
  PROVE  ended \subseteq ended' /\ StillFound(keys, keys')
  <1>1. CASE UNCHANGED <<keys, ended>>
    BY <1>1 DEF StillFound, IInv, StoresFine, KeysFine
  <1>2. ASSUME NEW r \in Requests, KeyRoutes(r) PROVE ended \subseteq ended' /\ StillFound(keys, keys')
    <2>1. ended \subseteq ended'
      BY <1>2 DEF KeyRoutes, AdminCreateAPIKey, AdminRevokeAPIKey, AdminDeleteAPIKey, VerifyKey, VerifyStamp, stores
    <2>2. CASE VerifyKey(r)
      BY <1>1, <2>2 DEF VerifyKey, stores
    <2> QED BY <1>2, <2>1, <2>2, CreateAPIKeyKeeps, RevokeAPIKeyKeeps, DeleteAPIKeyKeeps, VerifyStampKeeps DEF KeyRoutes
  <1>3. ASSUME NEW r \in Requests, AdminDeleteTenant(r) PROVE ended \subseteq ended' /\ keys' = keys
    BY <1>3 DEF AdminDeleteTenant
  <1>4. ASSUME NEW r \in Requests, StoreRoutes(r) PROVE ended \subseteq ended' /\ StillFound(keys, keys')
    <2>1. CASE AdminDeleteTenant(r)
      BY <1>3, <2>1 DEF StillFound, IInv, StoresFine, KeysFine
    <2>2. CASE ~AdminDeleteTenant(r)
      BY <1>1, <1>4, <2>2 DEF StoreRoutes, AdminAddUserRole, AdminRemoveUserRole, AdminCreateRole, AdminDeleteRole,
         PromoteCreateRole, PromoteAssign, HostPermission, AdminCreateTenant, AdminAddTenantUser, AdminRemoveTenantUser,
         AdminUpdateUserMetadata, AdminUpdateSettings, PatchUIRead, PatchUIWrite, stores
    <2> QED BY <2>1, <2>2
  <1>5. ASSUME NEW r \in Requests,
               Guard(r) \/ UserRoutes(r) \/ AccountRoutes(r) \/ \E op \in deploy.ops, cred \in Credentials : Arrive(r, op, cred)
        PROVE  UNCHANGED <<keys, ended>>
    <2>1. CASE Guard(r) \/ \E op \in deploy.ops, cred \in Credentials : Arrive(r, op, cred)
      BY <2>1 DEF Guard, LoadUser, EvaluateFirstUser, Arrive, stores
    <2>2. CASE UserRoutes(r)
      BY <2>2 DEF UserRoutes, AdminDeleteUser, PromoteFlag, PolicyPage, PolicyUpdate, PolicyNext, stores
    <2>3. CASE AccountRoutes(r)
      BY <2>3 DEF AccountRoutes, ProfileRead, ProfileWrite, DepartRoles, DepartRole, DepartTenants, DepartTenant,
         DepartMetadata, DepartRecord, CleanUpFails, RemovalFails, stores
    <2> QED BY <1>5, <2>1, <2>2, <2>3
  <1>6. ASSUME NEW id, ExpireKey(id) PROVE ended \subseteq ended' /\ StillFound(keys, keys')
    BY <1>6, ExpireKeyKeeps DEF ExpireKey
  <1>7. CASE AdminLogin \/ (\E u \in UserIDs : Register(u, NoTenant)) \/ UNCHANGED vars
    BY <1>1, <1>7 DEF AdminLogin, Register, stores, vars
  <1> QED BY <1>1, <1>2, <1>4, <1>5, <1>6, <1>7 DEF Next

\* EndingsAreFinal (service.go, DeleteAccount; api_keys.go, memory_api_key_store.go): a departure is complete, and a
\* key that has ended is never usable again nor hides the one that shares its prefix.
THEOREM EndedStaysEnded == Spec => EndingsAreFinal
  <1>1. IInv /\ [Next]_vars =>
          [\A r \in Requests :
             LET c == call[r]
             IN  (c.pc = "record" /\ call'[r].ok = "yes" /\ ~c.touched) =>
                   /\ GetRolesForUser(rbac', c.op.id, c.op.tenant) = {}
                   /\ GetTenantsForUser(tenancy', c.op.id) = {}
                   /\ c.op.id \notin metadata']_vars
    BY DepartureLeavesNothing
  <1>2. IInv /\ IInv' /\ [Next]_vars =>
          [/\ \A id \in ended \cap DOMAIN keys'.byID : ~keys'.byID[id].active
           /\ \A p \in DOMAIN keys.byPrefix :
                keys.byPrefix[p] \in DOMAIN keys'.byID => p \in DOMAIN keys'.byPrefix]_vars
    BY KeysMove DEF StillFound, IInv, StoresFine, KeysFine
  <1>3. Spec => DepartureIsComplete
    BY <1>1, Consistent, PTL DEF Spec, DepartureIsComplete
  <1>4. Spec => KeyEndsOnce
    BY <1>2, Consistent, PTL DEF Spec, KeyEndsOnce
  <1> QED BY <1>3, <1>4 DEF EndingsAreFinal
=============================================================================
