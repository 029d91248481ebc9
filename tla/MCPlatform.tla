----------------------------- MODULE MCPlatform -----------------------------
(***************************************************************************)
(* The components that share no state, in one instance for TLC: `part`     *)
(* says which of them a behavior is of, and the others stay as they begin. *)
(* No action of one reads or writes a variable of another, so that         *)
(* interleaving them would show nothing that each alone does not.          *)
(***************************************************************************)
EXTENDS Administration, AccessTokens, ServiceEditing, CatalogRows, Migrations, ApiKeys,
        ObjectStorage, PasswordUpgrade, TLC

CONSTANTS Things, Actors, Others

VARIABLE part

platformVars == <<part, adminVars, tokenVars, serviceVars, catalogVars, migrationVars,
                  keyVars, storageVars, upgradeVars>>

Parts ==
  {"administration", "tokens", "services", "catalog", "migrations", "keys", "storage", "passwords"}

\* The types of the components, and their inductive invariants.
PlatformTypeOK ==
  /\ part \in Parts
  /\ part = "administration" => AdministrationTypeOK
  /\ part = "tokens" => AccessTokensTypeOK
  /\ part = "services" => ServiceEditingTypeOK
  /\ part = "catalog" => CatalogRowsTypeOK
  /\ part = "migrations" => MigrationsTypeOK
  /\ part = "keys" => ApiKeysTypeOK
  /\ part = "storage" => ObjectStorageTypeOK
  /\ part = "passwords" => PasswordUpgradeTypeOK

PlatformIInv ==
  /\ part \in Parts
  /\ part = "administration" => AdministrationIInv
  /\ part = "tokens" => AccessTokensIInv
  /\ part = "services" => ServiceEditingIInv
  /\ part = "catalog" => CatalogRowsIInv
  /\ part = "migrations" => MigrationsIInv
  /\ part = "keys" => ApiKeysIInv
  /\ part = "storage" => ObjectStorageIInv
  /\ part = "passwords" => PasswordUpgradeIInv

\* The sets of the components are made of these model values, and TLC may exchange
\* those of each set: no constant is one of them.
Symmetry == Permutations(Things) \cup Permutations(Actors) \cup Permutations(Others)

Pieces == {<<"a", "b">>, <<"c">>}

----------------------------------------------------------------------------
(* Rows for CatalogRows *)

TeamRow == [table |-> "team", id |-> "t1", key_normalized |-> "t1", status |-> "active"]

ServiceRow(s) ==
  [table |-> "mcp_service", id |-> s, team_id |-> "t1", namespace_key |-> "n",
   name_normalized |-> s, uniqueness_scope |-> "LIVE"]

ToolsetRow(t, s) ==
  [table |-> "toolset", id |-> t, service_id |-> s, version_no |-> 1,
   config_revision_id |-> Null]

ToolRow(i, t, s) ==
  [table |-> "mcp_tool", id |-> i, toolset_id |-> t, service_id |-> s, name |-> i]

TaskRow(i, t, s) ==
  [table |-> "mcp_task", id |-> i, tool_id |-> t, service_id |-> s,
   result_artifact_id |-> Null, status |-> "working"]

UserRow(role, status) ==
  [table |-> "user", id |-> "u1", username_normalized |-> "u1", role |-> role,
   status |-> status]

\* principal_key is made of the principal, as its writers are expected to make it.
PermissionRow(i, type, user, team, role) ==
  [table |-> "mcp_service_permission", id |-> i, service_id |-> "s1",
   principal_key |-> <<type, user, team>>, principal_type |-> type,
   user_id |-> user, team_id |-> team, role |-> role]

\* Tools, with one that would be of two services, and a toolset that may move; and
\* what may let u1 edit s1, with rows that the checks refuse.
Tools ==
  {TeamRow, ServiceRow("s1"), ServiceRow("s2"), ToolsetRow("x", "s1"), ToolsetRow("x", "s2"), ToolsetRow("y", "s2"),
   ToolRow("a", "x", "s1"), ToolRow("a", "x", "s2"), ToolRow("a", "y", "s2"),
   ToolRow("b", "x", "s1"), TaskRow("k", "a", "s1"), TaskRow("k", "b", "s1")}

Permissions ==
  {TeamRow, ServiceRow("s1"),
   [table |-> "team_membership", id |-> "m", team_id |-> "t1", user_id |-> "u1",
    team_role |-> "member"]}
  \cup {UserRow(r, s) : r \in {"admin", "user"}, s \in {"active", "disabled"}}
  \cup UNION {{PermissionRow("p1", "user", "u1", Null, r), PermissionRow("p2", "user", "u1", Null, r),
               PermissionRow("p3", "team", Null, "t1", r), PermissionRow("p4", "everyone", Null, Null, r)}
              : r \in {"editor", "viewer"}}

RowGroups == {Tools, Permissions, {}}

----------------------------------------------------------------------------

\* Only the part explored begins in more than one way.
OthersBegin ==
  /\ part = "administration" \/ seeded
  /\ part = "migrations" \/ transactional
  /\ part = "catalog" \/ group = {}
  /\ part = "keys" \/ \A c \in Creators : creations[c].key = FirstKey
  /\ part = "passwords" \/ (locking /\ hash = Argon2id(FirstKey))

PlatformInit ==
  /\ part \in Parts
  /\ AdministrationInit /\ AccessTokensInit /\ ServiceEditingInit /\ CatalogRowsInit
  /\ MigrationsInit /\ ApiKeysInit /\ ObjectStorageInit /\ PasswordUpgradeInit
  /\ OthersBegin

\* The variables of a part change in behaviors of that part only.
Keep(p, vars) == part # p => UNCHANGED vars

PlatformNext ==
  /\ \/ part = "administration" /\ AdministrationNext
     \/ part = "tokens" /\ AccessTokensNext
     \/ part = "services" /\ ServiceEditingNext
     \/ part = "catalog" /\ CatalogRowsNext
     \/ part = "migrations" /\ MigrationsNext
     \/ part = "keys" /\ ApiKeysNext
     \/ part = "storage" /\ ObjectStorageNext
     \/ part = "passwords" /\ PasswordUpgradeNext
  /\ Keep("administration", adminVars) /\ Keep("tokens", tokenVars)
  /\ Keep("services", serviceVars) /\ Keep("catalog", catalogVars)
  /\ Keep("migrations", migrationVars) /\ Keep("keys", keyVars)
  /\ Keep("storage", storageVars) /\ Keep("passwords", upgradeVars)
  /\ UNCHANGED part

PlatformSpec == PlatformInit /\ [][PlatformNext]_platformVars
=============================================================================
