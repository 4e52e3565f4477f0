--------------------------- MODULE MCAdminConsole ---------------------------
(***************************************************************************)
(* AdminConsole for TLC.  The stores are optional, so one behaviour needs  *)
(* only some of the routes: each deployment offers the ones that share     *)
(* state, and Init chooses among the deployments.                          *)
(***************************************************************************)
EXTENDS AdminConsole, TLC

MCUsers == 1..4
MCInitialUsers == 1 :> NoTenant @@ 2 :> NoTenant @@ 4 :> NoTenant
MCPrefix == "k1" :> "p" @@ "k2" :> "p" @@ "k3" :> "q"

On(routes, ids) == [route : routes, id : ids]
Role(routes, ids, tenants) == [route : routes, id : ids, arg : Roles, tenant : tenants]
Patch == {("a" :> "new"), ("b" :> "new"), ("a" :> "newer" @@ "b" :> "newer")}
Key(scoped, pinned) == [prefix |-> "p", active |-> TRUE, expired |-> FALSE,
                        scoped |-> scoped, pinned |-> pinned, lastUsed |-> FALSE]

Deployment(policy, ops) == [policy |-> policy, ops |-> ops, flaky |-> FALSE, registers |-> FALSE]

Guarded == On({"deleteUser", "promoteFlag"}, {1, 2})
Eldest == On({"deleteUser"}, {1})
Walks == [route : {"twoFAPolicy"}, arg : BOOLEAN] \cup On({"deleteUser"}, {1, 2})
RoleOps == Role({"addUserRole"}, {2}, {NoTenant, "t1"}) \cup Role({"removeUserRole"}, {2}, {NoTenant})
             \cup [route : {"createRole", "deleteRole", "addPermission"}, arg : Roles]
             \cup On({"promoteRole"}, {1, 2})
Departures == [route : {"deleteAccount"}, id : {2}, tenant : {NoTenant}]
                \cup On({"updateMetadata"}, {2})
                \cup [route : {"addUserRole"}, id : {2}, arg : {"editor"}, tenant : {NoTenant}]
                \cup [route : {"addTenantUser", "removeTenantUser"}, id : {2}, tenant : {"t1"}]
                \cup [route : {"createTenant"}]
                \cup [route : {"deleteTenant"}, tenant : {"t1"}]
                \cup On({"deleteUser"}, {2})
Updates == [route : {"updateProfile"}, id : {2}, arg : Patch]
             \cup [route : {"patchUI"}, arg : Patch]
             \cup [route : {"updateSettings"},
                   arg : {[require2FA |-> TRUE], [ui |-> [f \in Fields |-> "put"]]}]
             \cup On({"deleteUser"}, {2})
KeyOps == [route : {"createKey"}, arg : {Key(TRUE, FALSE), Key(FALSE, TRUE)}]
            \cup On({"revokeKey", "deleteKey"}, {"k1", "k2"})
            \cup [route : {"verifyKey"}, id : {"k1", "k2"}, scoped : BOOLEAN, inside : BOOLEAN]

MCDeployments ==
  {Deployment("is-admin-flag", Guarded),
   Deployment("secret", Eldest),
   [Deployment("first-user", Eldest) EXCEPT !.registers = TRUE],
   [Deployment("open", Walks) EXCEPT !.registers = TRUE],
   Deployment("open", RoleOps),
   Deployment("open", Departures),
   [Deployment("open", Departures) EXCEPT !.flaky = TRUE],
   Deployment("open", Updates),
   Deployment("open", KeyOps)}

Symmetric == Permutations(Requests)

=============================================================================
