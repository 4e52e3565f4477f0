--------------------------- MODULE FeatureStores ---------------------------
(***************************************************************************)
(* The optional in-memory stores of feature_stores.go, settings_store.go   *)
(* and memory_api_key_store.go: roles and permissions, tenants, metadata,  *)
(* settings and API keys.  Every method takes its store's mutex for its    *)
(* whole body, so each is an operator from the store's value to its next   *)
(* value; a map is a function on the keys it holds.                        *)
(***************************************************************************)
EXTENDS Naturals

CONSTANTS UserIDs,       \* user ids; a number, so that they have the order ListUsers sorts by
          Roles, Permissions,
          TenantIDs,     \* tenants a store may hold
          NoTenant,      \* the empty tenant of an untenanted user or role assignment
          KeyIDs, KeyPrefixes,
          NoValue        \* a field nobody has set

Empty == <<>>
Put(f, k, v) == [x \in DOMAIN f \cup {k} |-> IF x = k THEN v ELSE f[x]]
Without(f, k) == [x \in DOMAIN f \ {k} |-> f[x]]

-----------------------------------------------------------------------------
(* MemoryRolesPermissionsStore.  An assignment is a triple of user, tenant *)
(* and role.                                                               *)

RolesStore == [rolePermissions : UNION {[R -> SUBSET Permissions] : R \in SUBSET Roles},
               userRoles : SUBSET (UserIDs \X (TenantIDs \cup {NoTenant}) \X Roles)]

RoleExists(s, role) == role \in DOMAIN s.rolePermissions

\* A role nobody created is ErrRoleNotFound: the callers guard with RoleExists.
AddRoleToUser(s, u, role, t) == [s EXCEPT !.userRoles = @ \cup {<<u, t, role>>}]

RemoveRoleFromUser(s, u, role, t) == [s EXCEPT !.userRoles = @ \ {<<u, t, role>>}]

GetRolesForUser(s, u, t) == {role \in Roles : <<u, t, role>> \in s.userRoles}

\* A second CreateRole of a name replaces its permissions.
CreateRole(s, role, permissions) ==
  [s EXCEPT !.rolePermissions = Put(@, role, permissions)]

DeleteRole(s, role) ==
  [s EXCEPT !.rolePermissions = Without(@, role),
            !.userRoles = {a \in @ : a[3] # role}]

\* The role comes into being with its first permission.
AddPermissionToRole(s, role, p) ==
  [s EXCEPT !.rolePermissions =
     Put(@, role, {p} \cup IF RoleExists(s, role) THEN @[role] ELSE {})]

\* Deleting from the nil set of an unknown role does nothing.
RemovePermissionFromRole(s, role, p) ==
  IF RoleExists(s, role) THEN [s EXCEPT !.rolePermissions[role] = @ \ {p}] ELSE s

-----------------------------------------------------------------------------
(* MemoryTenantStore, with its two membership indexes.                     *)

TenantStore == [byID : SUBSET TenantIDs,
                userTenants : SUBSET (UserIDs \X TenantIDs),
                tenantUsers : SUBSET (TenantIDs \X UserIDs)]

NewTenantStore == [byID |-> {}, userTenants |-> {}, tenantUsers |-> {}]

CreateTenant(s, t) == [s EXCEPT !.byID = @ \cup {t}]

DeleteTenant(s, t) ==
  [byID |-> s.byID \ {t},
   userTenants |-> {m \in s.userTenants : m[2] # t},
   tenantUsers |-> {m \in s.tenantUsers : m[1] # t}]

\* A tenant the store does not hold is ErrTenantNotFound: the callers guard.
AssociateUserWithTenant(s, u, t) ==
  [s EXCEPT !.userTenants = @ \cup {<<u, t>>}, !.tenantUsers = @ \cup {<<t, u>>}]

DisassociateUserFromTenant(s, u, t) ==
  [s EXCEPT !.userTenants = @ \ {<<u, t>>}, !.tenantUsers = @ \ {<<t, u>>}]

GetTenantsForUser(s, u) == {t \in s.byID : <<u, t>> \in s.userTenants}

-----------------------------------------------------------------------------
(* MemoryMetadataStore: the user ids that have a row.                      *)

UpdateMetadata(s, u) == s \cup {u}

ClearMetadata(s, u) == s \ {u}

-----------------------------------------------------------------------------
(* MemorySettingsStore.  The merge is shallow: a patch that has a ui block *)
(* replaces the stored block whole.                                        *)

MergeSettings(current, patch) ==
  [f \in DOMAIN current |-> IF f \in DOMAIN patch THEN patch[f] ELSE current[f]]

UpdateSettings(s, patch) == MergeSettings(s, patch)

\* The block-level merge PATCH /api/settings/ui does itself.
MergeUISettings(current, patch) ==
  [f \in DOMAIN current |-> IF f \in DOMAIN patch THEN patch[f] ELSE current[f]]

-----------------------------------------------------------------------------
(* MemoryAPIKeyStore.  lastUsed stands for the stamp's presence.           *)

APIKeyRecord == [prefix : KeyPrefixes, active : BOOLEAN, expired : BOOLEAN,
                 scoped : BOOLEAN, pinned : BOOLEAN, lastUsed : BOOLEAN]

KeyStore == [byID : UNION {[K -> APIKeyRecord] : K \in SUBSET KeyIDs},
             byPrefix : UNION {[P -> KeyIDs] : P \in SUBSET KeyPrefixes}]

NewKeyStore == [byID |-> Empty, byPrefix |-> Empty]

SaveKey(s, id, record) ==
  [byID |-> Put(s.byID, id, record),
   byPrefix |->
     IF id \in DOMAIN s.byID /\ s.byID[id].prefix # record.prefix
     THEN Put(Without(s.byPrefix, s.byID[id].prefix), record.prefix, id)
     ELSE Put(s.byPrefix, record.prefix, id)]

\* The id of the active record a prefix resolves to; the set is empty for
\* ErrAPIKeyNotFound.
FindByPrefix(s, prefix) ==
  {id \in DOMAIN s.byID : prefix \in DOMAIN s.byPrefix
                          /\ s.byPrefix[prefix] = id /\ s.byID[id].active}

RevokeKey(s, id) ==
  IF id \in DOMAIN s.byID THEN [s EXCEPT !.byID[id].active = FALSE] ELSE s

\* Broken variant: the whole record the caller read is written back.
UpdateLastUsedWritesBack(s, id, record) ==
  [s EXCEPT !.byID = Put(@, id, [record EXCEPT !.lastUsed = TRUE])]

\* Only the stamp is written, on the record as it now is.
UpdateLastUsed(s, id, record) ==
  IF id \in DOMAIN s.byID THEN [s EXCEPT !.byID[id].lastUsed = TRUE] ELSE s

DeleteKey(s, id) ==
  IF id \notin DOMAIN s.byID THEN s
  ELSE LET prefix == s.byID[id].prefix
       IN  [byID |-> Without(s.byID, id),
            byPrefix |-> IF prefix \in DOMAIN s.byPrefix /\ s.byPrefix[prefix] = id
                         THEN Without(s.byPrefix, prefix) ELSE s.byPrefix]

=============================================================================
