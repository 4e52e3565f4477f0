---------------------------- MODULE AdminConsole ----------------------------
(***************************************************************************)
(* The admin API (admin.go, admin_write.go, admin_promote.go,              *)
(* admin_credentials.go) over the user table and the feature stores, with  *)
(* the calls that race it: the user's own DeleteAccount and UpdateProfile  *)
(* (service.go), registrations, and API-key verification (api_keys.go).    *)
(*                                                                         *)
(* A request is one HTTP call.  The guard reads its token, loads the user  *)
(* and evaluates the policy in store calls of their own, then the handler  *)
(* runs; between any two store calls the others may move.                  *)
(***************************************************************************)
EXTENDS FeatureStores, FiniteSets

CONSTANTS Requests,
          Deployments,   \* [policy, ops, flaky]: what the host configured
          InitialUsers,  \* id -> tenant of the users registered before the console is used
          InitialTenants,
          Root,          \* the subject of a root token, which is no user's id
          KeyPrefix,     \* key id -> the prefix its random body begins with
          BatchSize      \* adminTwoFAPolicyBatchSize

AdminRole == "admin"     \* adminPromoteRole
Fields == {"a", "b"}     \* two fields of a profile, or of the branding block

ASSUME BatchAssumption == BatchSize \in Nat \ {0}
ASSUME OrderAssumption == UserIDs \subseteq Nat
ASSUME StartAssumption ==
  /\ DOMAIN InitialUsers \subseteq UserIDs /\ IsFiniteSet(DOMAIN InitialUsers)
  /\ InitialTenants \subseteq TenantIDs
  /\ AdminRole \in Roles
  /\ KeyIDs \cap TenantIDs = {}
  /\ \A id \in KeyIDs : KeyPrefix[id] \in KeyPrefixes

\* What a request names is of the kind its route takes.
ASSUME DeploymentAssumption ==
  \A d \in Deployments :
    /\ d.policy \in {"open", "secret", "first-user", "is-admin-flag"}
    /\ NoValue \notin d.ops
    /\ \A op \in d.ops :
         /\ op.route \in {"deleteUser", "promoteFlag", "promoteRole", "addUserRole", "removeUserRole", "updateMetadata",
                           "addTenantUser", "removeTenantUser", "deleteAccount", "updateProfile"} => op.id \in UserIDs
         /\ op.route \in {"revokeKey", "deleteKey", "verifyKey"} => op.id \in KeyIDs
         /\ op.route \in {"addUserRole", "createRole", "deleteRole", "addPermission"} => op.arg \in Roles
         /\ op.route \in {"addUserRole", "deleteAccount"} => op.tenant \in TenantIDs \cup {NoTenant}
         /\ op.route \in {"addTenantUser", "deleteTenant"} => op.tenant \in TenantIDs
         /\ op.route = "createKey" => op.arg \in APIKeyRecord
         /\ op.route = "updateSettings" /\ "ui" \in DOMAIN op.arg => op.arg.ui = [f \in Fields |-> op.arg.ui[f]]
         /\ op.route = "updateSettings" => "writes" \notin DOMAIN op.arg

VARIABLES deploy,     \* the deployment this behaviour runs in
          users,      \* the user table: id -> [tenant, isAdmin, require2FA, profile, writes]
          rbac, tenancy, metadata, settings, keys,
          rootLogin,  \* a root token has been minted by adminLogin
          call,       \* request -> what it is doing
          gone,       \* history: ids of deleted users
          ended       \* history: ids of deleted tenants, and of revoked or deleted keys

stores == <<rbac, tenancy, metadata, settings, keys>>
vars == <<deploy, users, rbac, tenancy, metadata, settings, keys, rootLogin, call, gone, ended>>

SelfRoutes == {"deleteAccount", "updateProfile"}   \* behind the user's own session
OpenRoutes == {"verifyKey", "addPermission"}       \* behind an API key, or the host's own code

NewUser(t, admin) ==
  [tenant |-> t, isAdmin |-> admin, require2FA |-> FALSE,
   profile |-> [f \in Fields |-> "old"], writes |-> 0]

NewSettings == [require2FA |-> FALSE, ui |-> [f \in Fields |-> NoValue], writes |-> 0]

\* A request: its step, route and arguments, token, outcome, what the handler
\* has left to do and has read, and as history the users and deletions it found
\* on arrival, the users it reached and whether it was raced or failed.
Idle == [pc |-> "idle", op |-> NoValue, cred |-> NoValue, ok |-> "open",
         todo |-> {}, offset |-> 0, saw |-> NoValue,
         before |-> {}, goneAt |-> {}, reached |-> {}, touched |-> FALSE]

Init ==
  /\ deploy \in Deployments
  /\ users = [u \in DOMAIN InitialUsers |->
                NewUser(InitialUsers[u], \A v \in DOMAIN InitialUsers : u <= v)]
  /\ rbac = [rolePermissions |-> [r \in Roles \ {AdminRole} |-> {}], userRoles |-> {}]
  /\ tenancy = [NewTenantStore EXCEPT !.byID = InitialTenants]
  /\ metadata = {}
  /\ settings = NewSettings
  /\ keys = NewKeyStore
  /\ rootLogin = FALSE
  /\ call = [r \in Requests |-> Idle]
  /\ gone = {}
  /\ ended = {}

-----------------------------------------------------------------------------
(* MemoryUserStore, as far as the console and the account routes use it.   *)

HasUser(u, t) == u \in DOMAIN users /\ users[u].tenant = t

\* pageOf over the table sorted by id: the users at positions offset up to,
\* and not including, offset + limit.
ListUsers(limit, offset) ==
  {u \in DOMAIN users :
     LET position == Cardinality({v \in DOMAIN users : v < u})
     IN  offset <= position /\ position < offset + limit}

\* The id a deleted user had is never handed out again.
RemoveUser(u) == /\ users' = Without(users, u)
                 /\ gone' = gone \cup {u}

Register(u, t) ==
  /\ u \notin DOMAIN users \cup gone
  /\ users' = Put(users, u, NewUser(t, FALSE))
  /\ UNCHANGED <<deploy, stores, rootLogin, call, gone, ended>>

-----------------------------------------------------------------------------
(* The guard.                                                              *)

Op(r) == call[r].op
Doing(r, route, pc) == call[r].pc = pc /\ Op(r).route = route

Goto(r, pc) == call' = [call EXCEPT ![r].pc = pc]
\* An answered request is forgotten, but for the history of a finished walk.
Answered(r, ok) ==
  [call EXCEPT ![r] = IF Op(r).route = "twoFAPolicy" /\ ok = "yes"
                      THEN [@ EXCEPT !.pc = "done", !.ok = ok]
                      ELSE [Idle EXCEPT !.pc = "done", !.ok = ok]]
Answer(r, ok) == call' = Answered(r, ok)

\* A change to what is kept about user u marks the account deletions of u
\* under way (history).
Touch(c, u) ==
  [r \in Requests |-> IF c[r].op # NoValue /\ c[r].op.route = "deleteAccount" /\ c[r].op.id = u
                      THEN [c[r] EXCEPT !.touched = TRUE] ELSE c[r]]

\* The tokens somebody may hold: an access token of any user there has been,
\* whose claims a host's builder may have given isRoot; the step-up token
\* between two factors; the token adminLogin mints for a user's password or
\* for the root credentials; the legacy secret.  An open console reads none.
Credentials ==
  IF deploy.policy = "open" THEN {NoValue}
  ELSE [typ : {"access", "stepUp"}, sub : DOMAIN users \cup gone, root : BOOLEAN]
         \cup [typ : {"admin"}, sub : DOMAIN users \cup gone, root : {FALSE}]
         \cup {[typ |-> "admin", sub |-> Root, root |-> TRUE] : login \in {TRUE} \cap {rootLogin}}
         \cup {[typ |-> "secret", sub |-> Root, root |-> FALSE] :
                 policy \in {"secret"} \cap {deploy.policy}}

\* Broken variant: isRoot is honoured on any signed token.
VerifiedRootAnyToken(cred) == cred.root

\* verifyToken: isRoot counts only on a token adminLogin minted.
VerifiedRoot(cred) == cred.root /\ cred.typ = "admin"

\* authorise before its first store call: the open policy reads no token, the
\* legacy secret is compared and nothing else, a token of another type is
\* refused, a root token asks no store.
Authorise(op, cred) ==
  IF op.route \in SelfRoutes \cup OpenRoutes \/ deploy.policy = "open" THEN "serve"
  ELSE IF deploy.policy = "secret" THEN IF cred.typ = "secret" THEN "serve" ELSE "done"
  ELSE IF cred.typ = "stepUp" THEN "done"
  ELSE IF VerifiedRoot(cred) THEN "serve" ELSE "user"

Arrive(r, op, cred) ==
  /\ call[r].pc = "idle"
  /\ op.route \in SelfRoutes => op.id \in DOMAIN users
  /\ call' = [call EXCEPT ![r] =
       IF Authorise(op, cred) = "done" THEN [Idle EXCEPT !.pc = "done", !.ok = "refused"]
       ELSE [Idle EXCEPT !.pc = Authorise(op, cred), !.op = op, !.cred = cred,
                         !.before = DOMAIN users, !.goneAt = gone]]
  /\ UNCHANGED <<deploy, users, stores, rootLogin, gone, ended>>

\* GetUserByID under the token's tenant, and the flag policy on the record.
LoadUser(r) ==
  /\ call[r].pc = "user"
  /\ LET u == call[r].cred.sub
     IN  CASE u \notin DOMAIN users -> Answer(r, "refused")
           [] u \in DOMAIN users /\ deploy.policy = "first-user" -> Goto(r, "policy")
           [] u \in DOMAIN users /\ deploy.policy = "is-admin-flag" ->
                IF users[u].isAdmin THEN Goto(r, "serve") ELSE Answer(r, "refused")
  /\ UNCHANGED <<deploy, users, stores, rootLogin, gone, ended>>

\* The first-user policy lists the table again, in a second store call.
EvaluateFirstUser(r) ==
  /\ call[r].pc = "policy"
  /\ IF call[r].cred.sub \in ListUsers(1, 0) THEN Goto(r, "serve") ELSE Answer(r, "refused")
  /\ UNCHANGED <<deploy, users, stores, rootLogin, gone, ended>>

\* adminLogin with the root credentials or the bootstrap secret mints a token;
\* the route is mounted where the console has sessions.
AdminLogin ==
  /\ deploy.policy \notin {"open", "secret"}
  /\ ~rootLogin
  /\ rootLogin' = TRUE
  /\ UNCHANGED <<deploy, users, stores, call, gone, ended>>

-----------------------------------------------------------------------------
(* Handlers on the user table.                                             *)

\* The one row, under the empty tenant; its associations stay.
AdminDeleteUser(r) ==
  /\ Doing(r, "deleteUser", "serve")
  /\ IF HasUser(Op(r).id, NoTenant)
     THEN RemoveUser(Op(r).id) /\ Answer(r, "yes")
     ELSE Answer(r, "no") /\ UNCHANGED <<users, gone>>
  /\ UNCHANGED <<deploy, stores, rootLogin, ended>>

PromoteFlag(r) ==
  /\ Doing(r, "promoteFlag", "serve")
  /\ IF HasUser(Op(r).id, NoTenant)
     THEN users' = [users EXCEPT ![Op(r).id].isAdmin = TRUE] /\ Answer(r, "yes")
     ELSE Answer(r, "no") /\ UNCHANGED users
  /\ UNCHANGED <<deploy, stores, rootLogin, gone, ended>>

\* adminSetTwoFAPolicy lists a page; an empty one ends the walk.
PolicyPage(r) ==
  /\ Doing(r, "twoFAPolicy", "serve")
  /\ LET page == ListUsers(BatchSize, call[r].offset)
     IN  IF page = {} THEN Answer(r, "yes")
         ELSE call' = [call EXCEPT ![r].pc = "page", ![r].todo = page, ![r].saw = page]
  /\ UNCHANGED <<deploy, users, stores, rootLogin, gone, ended>>

\* The page's users in id order; one deleted since the listing fails the call.
PolicyUpdate(r) ==
  /\ Doing(r, "twoFAPolicy", "page")
  /\ \E u \in call[r].todo :
       /\ \A v \in call[r].todo : u <= v
       /\ IF u \in DOMAIN users
          THEN /\ users' = [users EXCEPT ![u].require2FA = Op(r).arg]
               /\ call' = [call EXCEPT ![r].todo = @ \ {u}, ![r].reached = @ \cup {u}]
          ELSE Answer(r, "no") /\ UNCHANGED users
  /\ UNCHANGED <<deploy, stores, rootLogin, gone, ended>>

\* Broken variant: a full page is taken for the last one.
PolicyNextStops(r) ==
  /\ Doing(r, "twoFAPolicy", "page")
  /\ call[r].todo = {}
  /\ Answer(r, "yes")
  /\ UNCHANGED <<deploy, users, stores, rootLogin, gone, ended>>

\* A page shorter than the batch is the last one.
PolicyNext(r) ==
  /\ Doing(r, "twoFAPolicy", "page")
  /\ call[r].todo = {}
  /\ IF Cardinality(call[r].saw) < BatchSize THEN Answer(r, "yes")
     ELSE call' = [call EXCEPT ![r].pc = "serve", ![r].offset = @ + BatchSize]
  /\ UNCHANGED <<deploy, users, stores, rootLogin, gone, ended>>

-----------------------------------------------------------------------------
(* Handlers on the roles, tenants and metadata.  None looks the user up.   *)

AdminAddUserRole(r) ==
  /\ Doing(r, "addUserRole", "serve")
  /\ IF RoleExists(rbac, Op(r).arg)
     THEN /\ rbac' = AddRoleToUser(rbac, Op(r).id, Op(r).arg, Op(r).tenant)
          /\ call' = Touch(Answered(r, "yes"), Op(r).id)
     ELSE Answer(r, "no") /\ UNCHANGED rbac
  /\ UNCHANGED <<deploy, users, tenancy, metadata, settings, keys, rootLogin, gone, ended>>

\* Only the untenanted assignment goes.
AdminRemoveUserRole(r) ==
  /\ Doing(r, "removeUserRole", "serve")
  /\ rbac' = RemoveRoleFromUser(rbac, Op(r).id, Op(r).arg, NoTenant)
  /\ Answer(r, "yes")
  /\ UNCHANGED <<deploy, users, tenancy, metadata, settings, keys, rootLogin, gone, ended>>

AdminCreateRole(r) ==
  /\ Doing(r, "createRole", "serve")
  /\ rbac' = CreateRole(rbac, Op(r).arg, Permissions)
  /\ Answer(r, "yes")
  /\ UNCHANGED <<deploy, users, tenancy, metadata, settings, keys, rootLogin, gone, ended>>

AdminDeleteRole(r) ==
  /\ Doing(r, "deleteRole", "serve")
  /\ rbac' = DeleteRole(rbac, Op(r).arg)
  /\ Answer(r, "yes")
  /\ UNCHANGED <<deploy, users, tenancy, metadata, settings, keys, rootLogin, gone, ended>>

\* The role branch of adminPromoteUser: the role first, with no permissions,
PromoteCreateRole(r) ==
  /\ Doing(r, "promoteRole", "serve")
  /\ rbac' = CreateRole(rbac, AdminRole, {})
  /\ Goto(r, "assign")
  /\ UNCHANGED <<deploy, users, tenancy, metadata, settings, keys, rootLogin, gone, ended>>

\* Broken variant: the assignment does not ask whether the role is still there.
PromoteAssignUnchecked(r) ==
  /\ Doing(r, "promoteRole", "assign")
  /\ rbac' = AddRoleToUser(rbac, Op(r).id, AdminRole, NoTenant)
  /\ call' = Touch(Answered(r, "yes"), Op(r).id)
  /\ UNCHANGED <<deploy, users, tenancy, metadata, settings, keys, rootLogin, gone, ended>>

\* then its assignment, which fails if the role is gone again.
PromoteAssign(r) ==
  /\ Doing(r, "promoteRole", "assign")
  /\ IF RoleExists(rbac, AdminRole)
     THEN /\ rbac' = AddRoleToUser(rbac, Op(r).id, AdminRole, NoTenant)
          /\ call' = Touch(Answered(r, "yes"), Op(r).id)
     ELSE Answer(r, "no") /\ UNCHANGED rbac
  /\ UNCHANGED <<deploy, users, tenancy, metadata, settings, keys, rootLogin, gone, ended>>

\* The host granting and withdrawing a permission on the store itself.
HostPermission(r) ==
  /\ Doing(r, "addPermission", "serve")
  /\ \E p \in Permissions :
       \/ rbac' = AddPermissionToRole(rbac, Op(r).arg, p)
       \/ rbac' = RemovePermissionFromRole(rbac, Op(r).arg, p)
  /\ Answer(r, "yes")
  /\ UNCHANGED <<deploy, users, tenancy, metadata, settings, keys, rootLogin, gone, ended>>

\* A new tenant has a fresh id.
AdminCreateTenant(r) ==
  /\ Doing(r, "createTenant", "serve")
  /\ \E t \in TenantIDs \ (tenancy.byID \cup ended) : tenancy' = CreateTenant(tenancy, t)
  /\ Answer(r, "yes")
  /\ UNCHANGED <<deploy, users, rbac, metadata, settings, keys, rootLogin, gone, ended>>

AdminDeleteTenant(r) ==
  /\ Doing(r, "deleteTenant", "serve")
  /\ tenancy' = DeleteTenant(tenancy, Op(r).tenant)
  /\ ended' = ended \cup {Op(r).tenant}
  /\ Answer(r, "yes")
  /\ UNCHANGED <<deploy, users, rbac, metadata, settings, keys, rootLogin, gone>>

AdminAddTenantUser(r) ==
  /\ Doing(r, "addTenantUser", "serve")
  /\ IF Op(r).tenant \in tenancy.byID
     THEN /\ tenancy' = AssociateUserWithTenant(tenancy, Op(r).id, Op(r).tenant)
          /\ call' = Touch(Answered(r, "yes"), Op(r).id)
     ELSE Answer(r, "no") /\ UNCHANGED tenancy
  /\ UNCHANGED <<deploy, users, rbac, metadata, settings, keys, rootLogin, gone, ended>>

AdminRemoveTenantUser(r) ==
  /\ Doing(r, "removeTenantUser", "serve")
  /\ tenancy' = DisassociateUserFromTenant(tenancy, Op(r).id, Op(r).tenant)
  /\ Answer(r, "yes")
  /\ UNCHANGED <<deploy, users, rbac, metadata, settings, keys, rootLogin, gone, ended>>

AdminUpdateUserMetadata(r) ==
  /\ Doing(r, "updateMetadata", "serve")
  /\ metadata' = UpdateMetadata(metadata, Op(r).id)
  /\ call' = Touch(Answered(r, "yes"), Op(r).id)
  /\ UNCHANGED <<deploy, users, rbac, tenancy, settings, keys, rootLogin, gone, ended>>

-----------------------------------------------------------------------------
(* Settings.  A patch is a function on the fields it has.                  *)

AdminUpdateSettings(r) ==
  /\ Doing(r, "updateSettings", "serve")
  /\ settings' = [UpdateSettings(settings, Op(r).arg) EXCEPT
                    !.writes = @ + IF "ui" \in DOMAIN Op(r).arg THEN 1 ELSE 0]
  /\ Answer(r, "yes")
  /\ UNCHANGED <<deploy, users, rbac, tenancy, metadata, keys, rootLogin, gone, ended>>

\* adminPatchSettingsUI reads the block,
PatchUIRead(r) ==
  /\ Doing(r, "patchUI", "serve")
  /\ call' = [call EXCEPT ![r].pc = "write", ![r].saw = settings]
  /\ UNCHANGED <<deploy, users, stores, rootLogin, gone, ended>>

\* Broken variant: the patch is sent down as the block.
PatchUIWriteWhole(r) ==
  /\ Doing(r, "patchUI", "write")
  /\ settings' = [UpdateSettings(settings,
                    [ui |-> [f \in Fields |-> IF f \in DOMAIN Op(r).arg THEN Op(r).arg[f] ELSE NoValue]])
                    EXCEPT !.writes = @ + 1]
  /\ Answer(r, "yes")
  /\ UNCHANGED <<deploy, users, rbac, tenancy, metadata, keys, rootLogin, gone, ended>>

\* merges the patch into what it read and writes the block whole.
PatchUIWrite(r) ==
  /\ Doing(r, "patchUI", "write")
  /\ settings' = [UpdateSettings(settings, [ui |-> MergeUISettings(call[r].saw.ui, Op(r).arg)])
                    EXCEPT !.writes = @ + 1]
  /\ Answer(r, "yes")
  /\ UNCHANGED <<deploy, users, rbac, tenancy, metadata, keys, rootLogin, gone, ended>>

-----------------------------------------------------------------------------
(* API keys.                                                               *)

\* Create: a fresh id and a random body, whose prefix another key may share.
AdminCreateAPIKey(r) ==
  /\ Doing(r, "createKey", "serve")
  /\ \E id \in KeyIDs \ (DOMAIN keys.byID \cup ended) :
       keys' = SaveKey(keys, id, [Op(r).arg EXCEPT !.prefix = KeyPrefix[id]])
  /\ Answer(r, "yes")
  /\ UNCHANGED <<deploy, users, rbac, tenancy, metadata, settings, rootLogin, gone, ended>>

AdminRevokeAPIKey(r) ==
  /\ Doing(r, "revokeKey", "serve")
  /\ keys' = RevokeKey(keys, Op(r).id)
  /\ ended' = ended \cup {Op(r).id}
  /\ Answer(r, "yes")
  /\ UNCHANGED <<deploy, users, rbac, tenancy, metadata, settings, rootLogin, gone>>

AdminDeleteAPIKey(r) ==
  /\ Doing(r, "deleteKey", "serve")
  /\ keys' = DeleteKey(keys, Op(r).id)
  /\ ended' = ended \cup {Op(r).id}
  /\ Answer(r, "yes")
  /\ UNCHANGED <<deploy, users, rbac, tenancy, metadata, settings, rootLogin, gone>>

HasScopes(record, op) == op.scoped => record.scoped
IPAllowed(record, op) == record.pinned => op.inside

\* Verify: the prefix finds a record, whose hash only the key itself matches.
VerifyKey(r) ==
  /\ Doing(r, "verifyKey", "serve")
  /\ LET found == {id \in FindByPrefix(keys, KeyPrefix[Op(r).id]) :
                     LET record == keys.byID[id]
                     IN  /\ id = Op(r).id
                         /\ record.active
                         /\ ~record.expired
                         /\ IPAllowed(record, Op(r))
                         /\ HasScopes(record, Op(r))}
     IN  IF found = {} THEN Answer(r, "refused")
         ELSE call' = [call EXCEPT ![r].pc = "stamp", ![r].saw = keys.byID[Op(r).id]]
  /\ UNCHANGED <<deploy, users, stores, rootLogin, gone, ended>>

\* The stamp comes after the checks, in a store call of its own.
VerifyStamp(r) ==
  /\ Doing(r, "verifyKey", "stamp")
  /\ keys' = UpdateLastUsed(keys, Op(r).id, call[r].saw)
  /\ Answer(r, "yes")
  /\ UNCHANGED <<deploy, users, rbac, tenancy, metadata, settings, rootLogin, gone, ended>>

\* Time passes a key's expiry.
ExpireKey(id) ==
  /\ id \in DOMAIN keys.byID
  /\ ~keys.byID[id].expired
  /\ keys' = [keys EXCEPT !.byID[id].expired = TRUE]
  /\ UNCHANGED <<deploy, users, rbac, tenancy, metadata, settings, rootLogin, call, gone, ended>>

-----------------------------------------------------------------------------
(* The user's own account.                                                 *)

\* UpdateProfile loads the record only for a name that was not submitted,
ProfileRead(r) ==
  /\ Doing(r, "updateProfile", "serve")
  /\ DOMAIN Op(r).arg # Fields
  /\ IF Op(r).id \in DOMAIN users
     THEN call' = [call EXCEPT ![r].pc = "write", ![r].saw = users[Op(r).id]]
     ELSE Answer(r, "no")
  /\ UNCHANGED <<deploy, users, stores, rootLogin, gone, ended>>

Resolved(r) ==
  [f \in Fields |-> IF f \in DOMAIN Op(r).arg THEN Op(r).arg[f] ELSE call[r].saw.profile[f]]

\* and writes both names.
ProfileWrite(r) ==
  /\ \/ Doing(r, "updateProfile", "write")
     \/ Doing(r, "updateProfile", "serve") /\ DOMAIN Op(r).arg = Fields
  /\ IF Op(r).id \in DOMAIN users
     THEN /\ users' = [users EXCEPT ![Op(r).id].profile = Resolved(r),
                                    ![Op(r).id].writes = @ + 1]
          /\ Answer(r, "yes")
     ELSE Answer(r, "no") /\ UNCHANGED users
  /\ UNCHANGED <<deploy, stores, rootLogin, gone, ended>>

\* A listing, or the clearing of the metadata, may fail in DeleteAccount's
\* clean-up: the error is dropped and the next step is taken.
CleanUpFails(r, pc, next) ==
  /\ deploy.flaky
  /\ Doing(r, "deleteAccount", pc)
  /\ call[r].todo = {}
  /\ call' = [call EXCEPT ![r].pc = next, ![r].touched = TRUE]
  /\ UNCHANGED <<deploy, users, stores, rootLogin, gone, ended>>

\* So may the removal of one role or membership; the others are still tried.
RemovalFails(r) ==
  /\ deploy.flaky
  /\ call[r].pc \in {"roles", "tenants"} /\ Op(r).route = "deleteAccount"
  /\ \E one \in call[r].todo :
       call' = [call EXCEPT ![r].todo = @ \ {one}, ![r].touched = TRUE]
  /\ UNCHANGED <<deploy, users, stores, rootLogin, gone, ended>>

\* DeleteAccount lists the roles the user holds in the account's tenant,
DepartRoles(r) ==
  /\ Doing(r, "deleteAccount", "serve")
  /\ call' = [call EXCEPT ![r].pc = "roles",
                          ![r].todo = GetRolesForUser(rbac, Op(r).id, Op(r).tenant)]
  /\ UNCHANGED <<deploy, users, stores, rootLogin, gone, ended>>

\* removes them one by one,
DepartRole(r) ==
  /\ Doing(r, "deleteAccount", "roles")
  /\ \E role \in call[r].todo :
       /\ rbac' = RemoveRoleFromUser(rbac, Op(r).id, role, Op(r).tenant)
       /\ call' = [call EXCEPT ![r].todo = @ \ {role}]
  /\ UNCHANGED <<deploy, users, tenancy, metadata, settings, keys, rootLogin, gone, ended>>

\* lists the tenants the user is in,
DepartTenants(r) ==
  /\ Doing(r, "deleteAccount", "roles")
  /\ call[r].todo = {}
  /\ call' = [call EXCEPT ![r].pc = "tenants", ![r].todo = GetTenantsForUser(tenancy, Op(r).id)]
  /\ UNCHANGED <<deploy, users, stores, rootLogin, gone, ended>>

\* leaves them one by one,
DepartTenant(r) ==
  /\ Doing(r, "deleteAccount", "tenants")
  /\ \E t \in call[r].todo :
       /\ tenancy' = DisassociateUserFromTenant(tenancy, Op(r).id, t)
       /\ call' = [call EXCEPT ![r].todo = @ \ {t}]
  /\ UNCHANGED <<deploy, users, rbac, metadata, settings, keys, rootLogin, gone, ended>>

\* clears the metadata,
DepartMetadata(r) ==
  /\ Doing(r, "deleteAccount", "tenants")
  /\ call[r].todo = {}
  /\ metadata' = ClearMetadata(metadata, Op(r).id)
  /\ Goto(r, "record")
  /\ UNCHANGED <<deploy, users, rbac, tenancy, settings, keys, rootLogin, gone, ended>>

\* and deletes the record last.
DepartRecord(r) ==
  /\ Doing(r, "deleteAccount", "record")
  /\ IF HasUser(Op(r).id, Op(r).tenant)
     THEN RemoveUser(Op(r).id) /\ Answer(r, "yes")
     ELSE Answer(r, "no") /\ UNCHANGED <<users, gone>>
  /\ UNCHANGED <<deploy, stores, rootLogin, ended>>

-----------------------------------------------------------------------------

Guard(r) == LoadUser(r) \/ EvaluateFirstUser(r)

UserRoutes(r) ==
  \/ AdminDeleteUser(r) \/ PromoteFlag(r)
  \/ PolicyPage(r) \/ PolicyUpdate(r) \/ PolicyNext(r)

StoreRoutes(r) ==
  \/ AdminAddUserRole(r) \/ AdminRemoveUserRole(r) \/ AdminCreateRole(r) \/ AdminDeleteRole(r)
  \/ PromoteCreateRole(r) \/ PromoteAssign(r) \/ HostPermission(r)
  \/ AdminCreateTenant(r) \/ AdminDeleteTenant(r)
  \/ AdminAddTenantUser(r) \/ AdminRemoveTenantUser(r)
  \/ AdminUpdateUserMetadata(r)
  \/ AdminUpdateSettings(r) \/ PatchUIRead(r) \/ PatchUIWrite(r)

KeyRoutes(r) ==
  \/ AdminCreateAPIKey(r) \/ AdminRevokeAPIKey(r) \/ AdminDeleteAPIKey(r)
  \/ VerifyKey(r) \/ VerifyStamp(r)

AccountRoutes(r) ==
  \/ ProfileRead(r) \/ ProfileWrite(r)
  \/ DepartRoles(r) \/ DepartRole(r) \/ DepartTenants(r) \/ DepartTenant(r)
  \/ DepartMetadata(r) \/ DepartRecord(r)
  \/ CleanUpFails(r, "serve", "roles") \/ CleanUpFails(r, "roles", "tenants")
  \/ CleanUpFails(r, "tenants", "record") \/ RemovalFails(r)

Next ==
  \/ \E r \in Requests :
       \/ \E op \in deploy.ops, cred \in Credentials : Arrive(r, op, cred)
       \/ Guard(r) \/ UserRoutes(r) \/ StoreRoutes(r) \/ KeyRoutes(r) \/ AccountRoutes(r)
  \/ AdminLogin
  \/ deploy.registers /\ \E u \in UserIDs : Register(u, NoTenant)
  \/ \E id \in KeyIDs : ExpireKey(id)

Spec == Init /\ [][Next]_vars

-----------------------------------------------------------------------------
(* Properties.                                                             *)

TypeOK ==
  /\ deploy \in Deployments
  /\ DOMAIN users \cap gone = {} /\ DOMAIN users \cup gone \subseteq UserIDs
  /\ rbac \in RolesStore
  /\ tenancy \in TenantStore
  /\ metadata \subseteq UserIDs
  /\ keys \in KeyStore
  /\ rootLogin \in BOOLEAN
  /\ \A r \in Requests : call[r].ok \in {"open", "yes", "no", "refused"}
  /\ ended \subseteq KeyIDs \cup TenantIDs

(* Nothing dangles in the stores whatever the routes interleave: a role    *)
(* that is assigned is defined (feature_stores.go, AddRoleToUser and       *)
(* DeleteRole; the promotion creates and assigns in two calls), the two    *)
(* membership indexes agree and name only tenants there are, and a prefix  *)
(* of the key index leads to a key that carries it.                        *)
NothingDangles ==
  /\ TypeOK
  /\ \A a \in rbac.userRoles : RoleExists(rbac, a[3])
  /\ \A u \in UserIDs, t \in TenantIDs :
       (<<u, t>> \in tenancy.userTenants) <=> (<<t, u>> \in tenancy.tenantUsers)
  /\ \A m \in tenancy.userTenants : m[2] \in tenancy.byID
  /\ \A p \in DOMAIN keys.byPrefix :
       keys.byPrefix[p] \in DOMAIN keys.byID /\ keys.byID[keys.byPrefix[p]].prefix = p

(* Whoever is let through the guard had standing: the configured secret,   *)
(* the token of a root login, or that of a user who had not been deleted   *)
(* before the request began                                                *)
(* and, under the flag policy, is an admin.  A token outlives its user by  *)
(* up to a day, and an access token may carry any claim a host's builder   *)
(* gives it (admin.go, authorise and verifyToken).                         *)
AdmittedHadStanding ==
  \A r \in Requests :
    LET c == call[r]
    IN  (/\ c.pc \notin {"idle", "user", "policy", "done"}
         /\ c.op.route \notin SelfRoutes \cup OpenRoutes
         /\ deploy.policy # "open")
        => \/ deploy.policy = "secret" /\ c.cred.typ = "secret"
           \/ c.cred.typ = "admin" /\ c.cred.root /\ rootLogin
           \/ /\ c.cred.typ \in {"access", "admin"}
              /\ c.cred.sub \notin c.goneAt
              /\ deploy.policy = "is-admin-flag" =>
                   (c.cred.sub \in DOMAIN users => users[c.cred.sub].isAdmin)

Walked(r) == /\ call[r].pc = "done" /\ call[r].ok = "yes"
             /\ call[r].op # NoValue

(* adminSetTwoFAPolicy "touches every row in the user table": when it      *)
(* answers success, every user that was there when it began and is there   *)
(* still has been written.                                                 *)
PolicyReachesEveryone ==
  \A r \in Requests :
    Walked(r) => call[r].before \cap DOMAIN users \subseteq call[r].reached

(* The same, as long as no user was deleted since the walk began: a        *)
(* registration in the middle of it only moves rows it has yet to visit    *)
(* further on (admin_write.go, the offset walk).                           *)
PolicyReachesUnlessDeleted ==
  \A r \in Requests :
    Walked(r) /\ call[r].goneAt = gone => call[r].before \subseteq call[r].reached

(* A partial update leaves the fields it did not submit as they are, unless *)
(* another write came between its read and its write: UpdateProfile        *)
(* (service.go:1128) and PATCH /api/settings/ui (admin_write.go:630).      *)
UnsubmittedFieldKept ==
  [][\A r \in Requests :
       LET c == call[r]
       IN  (c.pc = "write" /\ call'[r].ok = "yes") =>
             \A f \in Fields \ DOMAIN c.op.arg :
               IF c.op.route = "patchUI"
               THEN c.saw.writes = settings.writes => settings'.ui[f] = settings.ui[f]
               ELSE c.saw.writes = users[c.op.id].writes =>
                      users'[c.op.id].profile[f] = users[c.op.id].profile[f]]_vars

(* When DeleteAccount answers success nothing is left of the user in its   *)
(* tenant's roles, in any tenant or in the metadata, unless the console    *)
(* wrote something for the user, or a store call failed, meanwhile         *)
(* (service.go:1153: the errors of the clean-up are dropped).              *)
DepartureIsComplete ==
  [][\A r \in Requests :
       LET c == call[r]
       IN  (c.pc = "record" /\ call'[r].ok = "yes" /\ ~c.touched) =>
             /\ GetRolesForUser(rbac', c.op.id, c.op.tenant) = {}
             /\ GetTenantsForUser(tenancy', c.op.id) = {}
             /\ c.op.id \notin metadata']_vars

(* A key that has been revoked or deleted is never usable again, whatever  *)
(* verification was already past its checks (api_keys.go:395), and         *)
(* deleting a key leaves an entry of the prefix index that names another   *)
(* key, the later owner of a prefix the two share                          *)
(* (memory_api_key_store.go:192-205).                                      *)
KeyEndsOnce ==
  [][/\ \A id \in ended \cap DOMAIN keys'.byID : ~keys'.byID[id].active
     /\ \A p \in DOMAIN keys.byPrefix :
          keys.byPrefix[p] \in DOMAIN keys'.byID => p \in DOMAIN keys'.byPrefix]_vars

(* What an administrator or a user has ended stays ended, and completely.  *)
EndingsAreFinal == DepartureIsComplete /\ KeyEndsOnce

=============================================================================
