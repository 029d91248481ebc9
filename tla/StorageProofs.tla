--------------------------- MODULE StorageProofs ----------------------------
(***************************************************************************)
(* Proofs about what is stored: the rows of CatalogRows, the keys of       *)
(* ApiKeys, the hashes of PasswordUpgrade and the files of ObjectStorage,  *)
(* for any rows, keys, passwords, payloads and callers.                    *)
(***************************************************************************)
EXTENDS CatalogRows, ApiKeys, PasswordUpgrade, ObjectStorage, TLAPS

----------------------------------------------------------------------------
(* Of the tables: the foreign keys and keys that the proofs are about *)

\* A table of the models has the keys and foreign keys it was declared with.
LEMMA ToolRefs ==
  /\ [columns |-> [toolset_id |-> "id", service_id |-> "service_id"],
      to |-> "toolset", cascade |-> TRUE] \in Models["mcp_tool"].refs
  /\ \A ref \in Models["mcp_tool"].refs : ref.to # "mcp_task"
<1> DEFINE both == [columns |-> [toolset_id |-> "id", service_id |-> "service_id"],
                    to |-> "toolset", cascade |-> TRUE]
           parent == Cascading(Ref("toolset_id", "toolset"))
           refs == {parent, OfService, both}
<1>1. parent.to = "toolset" /\ OfService.to = "mcp_service"
  BY DEF Cascading, OfService, Ref
<1>2. Models["mcp_tool"].refs = refs
  <2>1. Models["mcp_tool"] = McpTool
    BY DEF Models
  <2>2. McpTool = Table({{"toolset_id", "name"}}, refs, [source |-> {"manual", "synced"}], NoChecks)
    BY DEF McpTool
  <2>3. McpTool.refs = refs
    <3> HIDE DEF refs
    <3> QED BY <2>2 DEF Table
  <2> QED BY <2>1, <2>3
<1> HIDE DEF parent
<1> QED BY <1>1, <1>2

LEMMA TaskRefs ==
  /\ [columns |-> [c \in {"tool_id"} |-> "id"], to |-> "mcp_tool", cascade |-> FALSE]
       \in Models["mcp_task"].refs
  /\ \A ref \in Models["mcp_task"].refs : ~ref.cascade
BY DEF Models, McpTask, Table, OfService, Ref

LEMMA ToolsetId == {"id"} \in Models["toolset"].keys
BY DEF Models, Toolset, Table

LEMMA NotNullable ==
  /\ \A c \in {"toolset_id", "service_id"} : <<"mcp_tool", c>> \notin Nullable
  /\ \A t \in {"user", "mcp_service", "toolset"} : <<t, "id">> \notin Nullable
  /\ <<"mcp_task", "tool_id">> \notin Nullable
  /\ <<"mcp_service_permission", "principal_key">> \notin Nullable
BY DEF Nullable, ToolsetNullable, ArtifactNullable, BuildRunNullable, TaskNullable,
       PermissionNullable, ApiKeyNullable, OutboxNullable

LEMMA PermissionKey ==
  /\ {"service_id", "principal_key"} \in Models["mcp_service_permission"].keys
  /\ Models["mcp_service_permission"].checks =
       {"user_id_consistency", "team_id_consistency", "role_scope"}
BY DEF Models, McpServicePermission, Table

----------------------------------------------------------------------------
(* The constraints hold *)

\* The database starts without rows, which is a database like any other.
LEMMA CatalogRowsInitIInv == CatalogRowsInit => CatalogRowsIInv
BY DEF CatalogRowsInit, CatalogRowsIInv, CatalogRowsTypeOK, Accepted

LEMMA CatalogRowsStep ==
  ASSUME CatalogRowsTypeOK, CatalogRowsNext
  PROVE  Accepted(rows') /\ rows' \subseteq group /\ group' = group
<1>1. ASSUME NEW r \in group, InsertRow(r) PROVE Accepted(rows') /\ rows' \subseteq group /\ group' = group
  BY <1>1 DEF InsertRow, Yields, CatalogRowsTypeOK
<1>2. ASSUME NEW r \in group, DeleteRow(r) PROVE Accepted(rows') /\ rows' \subseteq group /\ group' = group
  BY <1>2 DEF DeleteRow, Yields, CatalogRowsTypeOK
<1>3. ASSUME NEW r \in group, NEW q \in group, UpdateRow(r, q)
      PROVE Accepted(rows') /\ rows' \subseteq group /\ group' = group
  BY <1>3 DEF UpdateRow, Yields, CatalogRowsTypeOK
<1> QED BY <1>1, <1>2, <1>3 DEF CatalogRowsNext

LEMMA CatalogRowsNextIInv == CatalogRowsIInv /\ [CatalogRowsNext]_catalogVars => CatalogRowsIInv'
<1> SUFFICES ASSUME CatalogRowsIInv, [CatalogRowsNext]_catalogVars PROVE CatalogRowsIInv'
  OBVIOUS
<1>1. CASE CatalogRowsNext
  <2>1. Accepted(rows') /\ rows' \subseteq group /\ group' = group
    BY <1>1, CatalogRowsStep DEF CatalogRowsIInv
  <2> QED BY <2>1 DEF CatalogRowsIInv, CatalogRowsTypeOK
<1>2. CASE UNCHANGED catalogVars
  BY <1>2 DEF catalogVars, CatalogRowsIInv, CatalogRowsTypeOK, Accepted, Fits, Constrained, KeyClash, RefHolds, RefersBy, Model
<1> QED BY <1>1, <1>2

\* The database refuses what does not satisfy the keys, foreign keys and checks.
LEMMA CatalogRowsIInvHolds == CatalogRowsSpec => []CatalogRowsIInv
<1> QED BY CatalogRowsInitIInv, CatalogRowsNextIInv, PTL DEF CatalogRowsSpec

\* The rows there are stay rows of the group that callers insert, change and delete.
THEOREM CatalogRowsTypes == CatalogRowsSpec => []CatalogRowsTypeOK
<1>1. CatalogRowsIInv => CatalogRowsTypeOK
  BY DEF CatalogRowsIInv
<1> QED BY <1>1, CatalogRowsIInvHolds, PTL

----------------------------------------------------------------------------

LEMMA ToolOfOneService ==
  ASSUME NEW result, Accepted(result), NEW t \in result, t.table = "mcp_tool"
  PROVE  \E s \in result :
           s.table = "toolset" /\ s.id = t.toolset_id /\ s.service_id = t.service_id
<1> DEFINE both == [columns |-> [toolset_id |-> "id", service_id |-> "service_id"],
                    to |-> "toolset", cascade |-> TRUE]
<1>1. Fits(t)
  BY DEF Accepted
<1>2. both \in Model(t).refs
  BY ToolRefs DEF Model
<1>3. {"toolset_id", "service_id"} \subseteq Constrained(t)
  <2>1. DOMAIN both.columns = {"toolset_id", "service_id"}
    OBVIOUS
  <2> QED BY <1>2, <2>1 DEF Constrained
<1>4. t["toolset_id"] # Null /\ t["service_id"] # Null
  BY <1>1, <1>3, NotNullable DEF Fits
<1>5. PICK q \in result : RefersBy(both, t, q)
  <2>1. RefHolds(both, t, result)
    BY <1>2 DEF Accepted
  <2> QED BY <1>4, <2>1 DEF RefHolds
<1>6. q.table = "toolset" /\ t["toolset_id"] = q["id"] /\ t["service_id"] = q["service_id"]
  BY <1>5 DEF RefersBy
<1> QED BY <1>6

\* The id of a toolset is its own.
LEMMA ToolsetIsOne ==
  ASSUME NEW result, Accepted(result), NEW s \in result, NEW q \in result,
         s.table = "toolset", q.table = "toolset", s.id = q.id
  PROVE  s = q
<1>1. {"id"} \in Model(s).keys
  BY ToolsetId DEF Model
<1>2. s.id # Null
  <2>1. "id" \in Constrained(s)
    BY <1>1 DEF Constrained
  <2> QED BY <2>1, NotNullable DEF Accepted, Fits
<1>3. \A c \in {"id"} : s[c] = q[c] /\ s[c] # Null
  BY <1>2
<1>4. KeyClash(s, q)
  BY <1>1, <1>3 DEF KeyClash
<1> QED BY <1>4 DEF Accepted

LEMMA ToolsetMovesEmpty ==
  ASSUME CatalogRowsIInv, [CatalogRowsNext]_catalogVars,
         NEW s \in Of("toolset"), NEW q \in rows', NEW t \in Of("mcp_tool"),
         q.table = "toolset", q.id = s.id, q.service_id # s.service_id, t.toolset_id = s.id
  PROVE  FALSE
<1>1. s \in rows /\ s.table = "toolset" /\ t \in rows /\ t.table = "mcp_tool" /\ Accepted(rows)
  BY DEF Of, CatalogRowsIInv
<1>2. q \notin rows
  BY <1>1, ToolsetIsOne
<1>3. CatalogRowsNext
  BY <1>2 DEF catalogVars
<1>4. Accepted(rows')
  BY <1>3, CatalogRowsStep DEF CatalogRowsIInv
<1>5. s \notin rows'
  BY <1>1, <1>4, ToolsetIsOne
<1>6. t \in rows'
  <2>1. ASSUME NEW r \in group, InsertRow(r) PROVE FALSE
    BY <1>1, <1>5, <2>1 DEF InsertRow, Yields
  <2>2. ASSUME NEW r \in group, DeleteRow(r) PROVE FALSE
    BY <1>2, <2>2 DEF DeleteRow, Yields
  <2>3. ASSUME NEW r \in group, NEW x \in group, UpdateRow(r, x) PROVE t \in rows'
    <3>1. r = s
      BY <1>1, <1>5, <2>3 DEF UpdateRow, Yields
    <3> QED BY <1>1, <2>3, <3>1 DEF UpdateRow, Yields
  <2> QED BY <1>3, <2>1, <2>2, <2>3 DEF CatalogRowsNext
<1>7. t.service_id = s.service_id
  <2>1. PICK x \in rows : x.table = "toolset" /\ x.id = t.toolset_id /\ x.service_id = t.service_id
    BY <1>1, ToolOfOneService
  <2>2. x = s
    BY <1>1, <2>1, ToolsetIsOne
  <2> QED BY <2>1, <2>2
<1>8. t.service_id = q.service_id
  <2>1. PICK x \in rows' : x.table = "toolset" /\ x.id = t.toolset_id /\ x.service_id = t.service_id
    BY <1>1, <1>4, <1>6, ToolOfOneService
  <2>2. x = q
    BY <1>4, <2>1, ToolsetIsOne
  <2> QED BY <2>1, <2>2
<1> QED BY <1>7, <1>8

\* A toolset with tools is never moved to another service, whatever the order of
\* statements: both foreign keys of its tools would have to follow in the same one.
THEOREM ToolsetsMoveWhenEmpty == CatalogRowsSpec => ToolsetsMoveEmpty
<1>1. ASSUME CatalogRowsIInv, [CatalogRowsNext]_catalogVars
      PROVE  [\A s \in Of("toolset"), q \in rows' :
                q.table = "toolset" /\ q.id = s.id /\ q.service_id # s.service_id =>
                  \A t \in Of("mcp_tool") : t.toolset_id # s.id]_catalogVars
  BY <1>1, ToolsetMovesEmpty
<1> QED BY <1>1, CatalogRowsIInvHolds, PTL DEF CatalogRowsSpec, ToolsetsMoveEmpty

----------------------------------------------------------------------------
LEMMA TaskHasTool ==
  ASSUME NEW result, Accepted(result), NEW task \in result, task.table = "mcp_task"
  PROVE  \E t \in result : t.table = "mcp_tool" /\ t.id = task.tool_id
<1> DEFINE ref == [columns |-> [c \in {"tool_id"} |-> "id"], to |-> "mcp_tool", cascade |-> FALSE]
<1>1. Fits(task)
  BY DEF Accepted
<1>2. ref \in Model(task).refs
  BY TaskRefs DEF Model
<1>3. "tool_id" \in Constrained(task)
  <2>1. DOMAIN ref.columns = {"tool_id"}
    OBVIOUS
  <2> QED BY <1>2, <2>1 DEF Constrained
<1>4. task["tool_id"] # Null
  BY <1>1, <1>3, NotNullable DEF Fits
<1>5. PICK q \in result : RefersBy(ref, task, q)
  <2>1. RefHolds(ref, task, result)
    BY <1>2 DEF Accepted
  <2> QED BY <1>4, <2>1 DEF RefHolds
<1>6. q.table = "mcp_tool" /\ task["tool_id"] = q["id"]
  BY <1>5 DEF RefersBy
<1> QED BY <1>6

LEMMA TaskKeepsTool ==
  ASSUME CatalogRowsIInv, [CatalogRowsNext]_catalogVars, NEW task \in Of("mcp_task")
  PROVE  \E t \in rows' : t.table = "mcp_tool" /\ t.id = task.tool_id
<1> DEFINE Its(t) == t.table = "mcp_tool" /\ t.id = task.tool_id
<1>1. task \in rows /\ task.table = "mcp_task"
  BY DEF Of
<1>2. PICK t \in rows : Its(t)
  BY <1>1, TaskHasTool DEF CatalogRowsIInv
<1>3. CASE task \in rows'
  <2>1. Accepted(rows')
    BY CatalogRowsStep DEF CatalogRowsIInv, catalogVars
  <2> QED BY <1>1, <1>3, <2>1, TaskHasTool
<1>4. CASE task \notin rows'
  <2> SUFFICES t \in rows'
    BY <1>2
  <2>1. CatalogRowsNext
    BY <1>1, <1>4 DEF catalogVars
  <2>2. ASSUME NEW r \in group, InsertRow(r) PROVE FALSE
    BY <1>1, <1>4, <2>2 DEF InsertRow, Yields
  <2>3. ASSUME NEW r \in group, NEW q \in group, UpdateRow(r, q) PROVE t \in rows'
    <3>1. r = task
      BY <1>1, <1>4, <2>3 DEF UpdateRow, Yields
    <3> QED BY <1>1, <1>2, <2>3, <3>1 DEF UpdateRow, Yields
  <2>4. ASSUME NEW r \in group, DeleteRow(r) PROVE t \in rows'
    <3>1. task \notin Taken(r)
      BY <1>1, TaskRefs DEF Taken, Model
    <3>2. r = task
      BY <1>1, <1>4, <2>4, <3>1 DEF DeleteRow, Yields
    <3>3. t \notin Taken(task)
      BY <1>1, <1>2, ToolRefs DEF Taken, Model, RefersBy
    <3> QED BY <1>1, <1>2, <2>4, <3>2, <3>3 DEF DeleteRow, Yields
  <2> QED BY <2>1, <2>2, <2>3, <2>4 DEF CatalogRowsNext
<1> QED BY <1>3, <1>4

\* The tool of every task is there after each step: no statement deletes it under the
\* task, not even by the cascade from a toolset, nor the task with it.
THEOREM TasksKeepTheirTools == CatalogRowsSpec => TasksKeepTheirTool
<1>1. ASSUME CatalogRowsIInv, [CatalogRowsNext]_catalogVars
      PROVE  [\A task \in Of("mcp_task") :
                 \E t \in rows' : t.table = "mcp_tool" /\ t.id = task.tool_id]_catalogVars
  BY <1>1, TaskKeepsTool
<1> QED BY <1>1, CatalogRowsIInvHolds, PTL DEF CatalogRowsSpec, TasksKeepTheirTool

----------------------------------------------------------------------------
(* Who may edit a service *)

LEMMA IdIsNotNull ==
  ASSUME NEW result, Accepted(result), NEW r \in result, r.table \in {"user", "mcp_service"}
  PROVE  r.id # Null
<1>1. {"id"} \in Model(r).keys
  BY DEF Model, Models, User, Service, Table
<1>2. "id" \in Constrained(r)
  BY <1>1 DEF Constrained
<1> QED BY <1>2, NotNullable DEF Accepted, Fits

\* There is no second row that grants a user a role on a service.
LEMMA OneRowPerUser ==
  ASSUME CatalogRowsIInv, NEW r \in rows, NEW g \in rows,
         NEW user, user # Null, NEW service, service # Null,
         r.table = "mcp_service_permission", g.table = "mcp_service_permission",
         r.user_id = user, g.user_id = user, r.service_id = service, g.service_id = service
  PROVE  r = g
<1>1. ASSUME NEW q \in {r, g}
      PROVE  q.principal_type = "user" /\ q.team_id = Null /\ q["principal_key"] # Null
  <2>1. Fits(q) /\ q.table = "mcp_service_permission" /\ q.user_id # Null
    BY DEF CatalogRowsIInv, Accepted
  <2>2. Passes("user_id_consistency", q) /\ Passes("team_id_consistency", q)
    BY <2>1, PermissionKey DEF Fits, Model
  <2>3. q.principal_type = "user" /\ q.team_id = Null
    BY <2>1, <2>2 DEF Passes
  <2>4. "principal_key" \in Constrained(q)
    <3>1. {"service_id", "principal_key"} \in Model(q).keys
      BY <2>1, PermissionKey DEF Model
    <3> QED BY <3>1 DEF Constrained
  <2>5. q["principal_key"] # Null
    BY <2>1, <2>4, NotNullable DEF Fits
  <2> QED BY <2>3, <2>5
<1>2. r.principal_key = g.principal_key
  BY <1>1, CatalogRowsAssumption DEF CatalogRowsIInv, CatalogRowsTypeOK
<1>3. KeyClash(r, g)
  <2>1. {"service_id", "principal_key"} \in Model(r).keys
    BY PermissionKey DEF Model
  <2>2. \A c \in {"service_id", "principal_key"} : r[c] = g[c] /\ r[c] # Null
    BY <1>1, <1>2
  <2> QED BY <2>1, <2>2 DEF KeyClash
<1> QED BY <1>3 DEF CatalogRowsIInv, Accepted

\* A right comes of a row that there was before, unless a statement wrote that row.
LEMMA RightHasRow ==
  ASSUME CatalogRowsIInv, CatalogRowsNext, NEW r \in rows, NEW g \in rows',
         r \notin rows', g.id # r.id
  PROVE  g \in rows
<1>1. ASSUME NEW x \in group, InsertRow(x) PROVE FALSE
  BY <1>1 DEF InsertRow, Yields
<1>2. ASSUME NEW x \in group, DeleteRow(x) PROVE g \in rows
  BY <1>2 DEF DeleteRow, Yields
<1>3. ASSUME NEW x \in group, NEW y \in group, UpdateRow(x, y) PROVE g \in rows
  <2>1. x = r /\ y.id = r.id
    BY <1>3 DEF UpdateRow, Yields
  <2> QED BY <1>3, <2>1 DEF UpdateRow, Yields
<1> QED BY <1>1, <1>2, <1>3 DEF CatalogRowsNext

LEMMA RevokedIsFelt ==
  ASSUME CatalogRowsIInv, [CatalogRowsNext]_catalogVars,
         NEW r \in rows, NEW u \in Of("user"), NEW s \in Of("mcp_service"),
         EditorRow(r, u.id, s.id),
         ~ \E q \in rows' : q.id = r.id /\ EditorRow(q, u.id, s.id),
         MayEdit(u.id, s.id)'
  PROVE  \E p \in rows' : p.table = "user" /\ p.id = u.id /\ IsActiveAdmin(p)
<1>1. u.id # Null /\ s.id # Null
  <2>1. u \in rows /\ u.table = "user" /\ s \in rows /\ s.table = "mcp_service"
    BY DEF Of
  <2> QED BY <2>1, IdIsNotNull DEF CatalogRowsIInv
<1>2. r \notin rows' /\ CatalogRowsNext
  BY DEF catalogVars
<1>3. PICK p \in rows' : p.table = "user" /\ p.id = u.id
                         /\ Authorize(p, s.id, "mutate_config_revision")' = "allowed"
  BY DEF MayEdit, Of
<1>4. Writable(p, s.id)'
  BY <1>3 DEF Authorize, ViewerActions, EditorActions
<1>5. CASE IsActiveAdmin(p)
  BY <1>3, <1>5
<1>6. CASE ~IsActiveAdmin(p)
  <2>1. PICK g \in rows' : g.table = "mcp_service_permission" /\ g.service_id = s.id
                           /\ g.user_id = p.id /\ g.role = "editor"
    BY <1>4, <1>6 DEF Writable, Grants, Of, IsActiveAdmin
  <2>2. g.id # r.id
    BY <1>3, <2>1 DEF EditorRow
  <2>3. g \in rows
    BY <1>2, <2>2, RightHasRow
  <2>4. r = g
    BY <1>1, <1>3, <2>1, <2>3, OneRowPerUser DEF EditorRow
  <2> QED BY <2>2, <2>4
<1> QED BY <1>5, <1>6

\* When a row that made its user an editor is changed or deleted, the user may no longer
\* edit, unless as an active administrator: no second row grants it, and neither do the
\* rows of teams and of everyone.
THEOREM RevocationsAreFelt == CatalogRowsSpec => RevocationIsFelt
<1> DEFINE Felt == \A r \in rows : \A u \in Of("user"), s \in Of("mcp_service") :
       EditorRow(r, u.id, s.id) /\ ~(\E q \in rows' : q.id = r.id /\ EditorRow(q, u.id, s.id)) =>
         \/ ~MayEdit(u.id, s.id)'
         \/ \E p \in rows' : p.table = "user" /\ p.id = u.id /\ IsActiveAdmin(p)
<1>1. ASSUME CatalogRowsIInv, [CatalogRowsNext]_catalogVars PROVE [Felt]_catalogVars
  <2> SUFFICES ASSUME NEW r \in rows, NEW u \in Of("user"), NEW s \in Of("mcp_service"),
                      EditorRow(r, u.id, s.id),
                      ~ \E q \in rows' : q.id = r.id /\ EditorRow(q, u.id, s.id),
                      MayEdit(u.id, s.id)'
               PROVE  \E p \in rows' : p.table = "user" /\ p.id = u.id /\ IsActiveAdmin(p)
    OBVIOUS
  <2> QED BY <1>1, RevokedIsFelt
<1>2. RevocationIsFelt <=> [][Felt]_catalogVars
  BY DEF RevocationIsFelt
<1> HIDE DEF Felt
<1> QED BY <1>1, <1>2, CatalogRowsIInvHolds, PTL DEF CatalogRowsSpec

----------------------------------------------------------------------------
(* PasswordUpgrade *)

LEMMA NoLoginCallIsNoCall == NoLoginCall \notin LoginCall /\ NoLoginCall.step = "none"
BY DEF NoLoginCall, LoginCall

\* A login that has begun has read a hash and been given a password.
LEMMA LoginBegun ==
  ASSUME PasswordUpgradeTypeOK, NEW l \in Logins, logins[l].step # "none"
  PROVE  /\ logins[l] \in LoginCall
         /\ logins[l].seen \in Hash /\ logins[l].password \in Passwords
BY NoLoginCallIsNoCall DEF PasswordUpgradeTypeOK, LoginCall

LEMMA Argon2idHash ==
  ASSUME NEW p \in Passwords
  PROVE  Argon2id(p) \in Hash /\ Argon2id(p).password = p
BY DEF Argon2id, Hash

LEMMA PasswordUpgradeInitIInv == PasswordUpgradeInit => PasswordUpgradeIInv
<1> SUFFICES ASSUME PasswordUpgradeInit PROVE PasswordUpgradeIInv
  OBVIOUS
<1>1. PasswordUpgradeTypeOK
  BY DEF PasswordUpgradeInit, PasswordUpgradeTypeOK, Hash
<1>2. \A l \in Logins : logins[l].step = "none"
  BY NoLoginCallIsNoCall DEF PasswordUpgradeInit
<1> QED BY <1>1, <1>2 DEF PasswordUpgradeInit, PasswordUpgradeIInv, UpgradeKeepsPassword

LEMMA PasswordUpgradeTypeStep ==
  ASSUME PasswordUpgradeTypeOK, [PasswordUpgradeNext]_upgradeVars
  PROVE  PasswordUpgradeTypeOK'
<1>1. ASSUME NEW l \in Logins, NEW p \in Passwords, LoadRow(l, p) PROVE PasswordUpgradeTypeOK'
  <2>1. [step |-> "loaded", seen |-> hash, password |-> p] \in LoginCall
    BY DEF PasswordUpgradeTypeOK, LoginCall
  <2> QED BY <1>1, <2>1 DEF LoadRow, PasswordUpgradeTypeOK
<1>2. ASSUME NEW l \in Logins, EndLogin(l) PROVE /\ logins' \in [Logins -> LoginCall \cup {NoLoginCall}]
                                               /\ rowLock' \in Logins \cup {NoLogin}
  BY <1>2 DEF EndLogin, PasswordUpgradeTypeOK
<1>3. ASSUME NEW l \in Logins, Verify(l) PROVE PasswordUpgradeTypeOK'
  <2>1. [logins[l] EXCEPT !.step = "verified"] \in LoginCall
    BY <1>3, LoginBegun DEF LoginCall, Verify
  <2> QED BY <1>2, <1>3, <2>1 DEF Verify, PasswordUpgradeTypeOK
<1>4. ASSUME NEW l \in Logins, CommitLogin(l) PROVE PasswordUpgradeTypeOK'
  <2>1. Argon2id(logins[l].password) \in Hash
    BY <1>4, LoginBegun, Argon2idHash DEF CommitLogin
  <2> QED BY <1>2, <1>4, <2>1 DEF CommitLogin, PasswordUpgradeTypeOK
<1>5. ASSUME NEW l \in Logins, AbortLogin(l) PROVE PasswordUpgradeTypeOK'
  BY <1>2, <1>5 DEF AbortLogin, PasswordUpgradeTypeOK
<1>6. ASSUME NEW p \in Passwords, ChoosePassword(p) PROVE PasswordUpgradeTypeOK'
  BY <1>6, Argon2idHash DEF ChoosePassword, PasswordUpgradeTypeOK
<1>7. CASE UNCHANGED upgradeVars
  BY <1>7 DEF upgradeVars, PasswordUpgradeTypeOK
<1> QED BY <1>1, <1>3, <1>4, <1>5, <1>6, <1>7 DEF PasswordUpgradeNext

LEMMA PasswordUpgradeNextIInv ==
  PasswordUpgradeIInv /\ [PasswordUpgradeNext]_upgradeVars => PasswordUpgradeIInv'
<1> SUFFICES ASSUME PasswordUpgradeIInv, [PasswordUpgradeNext]_upgradeVars
             PROVE  PasswordUpgradeIInv'
  OBVIOUS
<1> DEFINE Has(l) == logins[l].step # "none" =>
                       /\ locking => rowLock = l /\ logins[l].seen = hash
                       /\ logins[l].step = "verified" => Matches(l)
<1>0. PasswordUpgradeTypeOK' /\ PasswordUpgradeTypeOK
  BY PasswordUpgradeTypeStep DEF PasswordUpgradeIInv
<1>a. \A l \in Logins : Has(l)
  BY DEF PasswordUpgradeIInv
<1>b. locking => hash.password = chosen
  BY DEF PasswordUpgradeIInv, UpgradeKeepsPassword
<1>c. SUFFICES (locking' => hash'.password = chosen') /\ \A l \in Logins : Has(l)'
  BY <1>0 DEF PasswordUpgradeIInv, UpgradeKeepsPassword
<1>1. ASSUME NEW l \in Logins, EndLogin(l), UNCHANGED <<chosen, locking>>,
             locking => hash'.password = chosen /\ (hash' = hash \/ rowLock = l)
      PROVE  (locking' => hash'.password = chosen') /\ \A k \in Logins : Has(k)'
  <2>1. logins'[l].step = "none" /\ \A k \in Logins \ {l} : logins'[k] = logins[k]
    BY <1>0, <1>1, NoLoginCallIsNoCall DEF EndLogin, PasswordUpgradeTypeOK
  <2>2. ASSUME NEW k \in Logins \ {l} PROVE Has(k)'
    BY <1>1, <1>a, <2>1, <2>2 DEF EndLogin, Matches
  <2> QED BY <1>1, <2>1, <2>2
<1>2. ASSUME NEW l \in Logins, NEW p \in Passwords, LoadRow(l, p)
      PROVE  (locking' => hash'.password = chosen') /\ \A k \in Logins : Has(k)'
  <2>1. /\ logins'[l] = [step |-> "loaded", seen |-> hash, password |-> p]
        /\ \A k \in Logins \ {l} : logins'[k] = logins[k]
    BY <1>0, <1>2 DEF LoadRow, PasswordUpgradeTypeOK
  <2>2. Has(l)'
    BY <1>2, <2>1 DEF LoadRow
  <2>3. ASSUME NEW k \in Logins \ {l} PROVE Has(k)'
    BY <1>2, <1>a, <2>1, PasswordUpgradeAssumption DEF LoadRow, Matches
  <2> QED BY <1>2, <1>b, <2>2, <2>3 DEF LoadRow
<1>3. ASSUME NEW l \in Logins, Verify(l)
      PROVE  (locking' => hash'.password = chosen') /\ \A k \in Logins : Has(k)'
  <2>1. CASE EndLogin(l)
    BY <1>1, <1>3, <1>b, <2>1 DEF Verify
  <2>2. CASE Matches(l) /\ logins' = [logins EXCEPT ![l].step = "verified"] /\ UNCHANGED rowLock
    <3>1. /\ logins'[l].seen = logins[l].seen /\ logins'[l].password = logins[l].password
          /\ \A k \in Logins \ {l} : logins'[k] = logins[k]
      BY <1>0, <1>3, <2>2, LoginBegun DEF Verify, PasswordUpgradeTypeOK, LoginCall
    <3>2. Has(l)'
      BY <1>3, <1>a, <2>2, <3>1 DEF Verify, Matches
    <3>3. ASSUME NEW k \in Logins \ {l} PROVE Has(k)'
      BY <1>3, <1>a, <2>2, <3>1 DEF Verify, Matches
    <3> QED BY <1>3, <1>b, <3>2, <3>3 DEF Verify
  <2> QED BY <1>3, <2>1, <2>2 DEF Verify
<1>4. ASSUME NEW l \in Logins, CommitLogin(l)
      PROVE  (locking' => hash'.password = chosen') /\ \A k \in Logins : Has(k)'
  <2>1. locking => hash'.password = chosen /\ rowLock = l
    BY <1>4, <1>a, <1>b, LoginBegun, Argon2idHash, <1>0 DEF CommitLogin, Matches
  <2> QED BY <1>1, <1>4, <2>1 DEF CommitLogin
<1>5. ASSUME NEW l \in Logins, AbortLogin(l)
      PROVE  (locking' => hash'.password = chosen') /\ \A k \in Logins : Has(k)'
  BY <1>1, <1>5, <1>b DEF AbortLogin
<1>6. ASSUME NEW p \in Passwords, ChoosePassword(p)
      PROVE  (locking' => hash'.password = chosen') /\ \A k \in Logins : Has(k)'
  <2>1. hash'.password = chosen'
    BY <1>6, Argon2idHash DEF ChoosePassword
  <2>2. ASSUME NEW k \in Logins PROVE Has(k)'
    BY <1>6, <1>a, PasswordUpgradeAssumption DEF ChoosePassword, MayWrite, Matches
  <2> QED BY <2>1, <2>2
<1>7. CASE UNCHANGED upgradeVars
  BY <1>7, <1>a, <1>b DEF upgradeVars, Matches
<1> QED BY <1>2, <1>3, <1>4, <1>5, <1>6, <1>7 DEF PasswordUpgradeNext

\* With the row lock, a login that has loaded the row has it for itself and as it is
\* committed, and what a verified login will write is the password it saw hashed.
THEOREM PasswordUpgradeIInvHolds == PasswordUpgradeSpec => []PasswordUpgradeIInv
BY PasswordUpgradeInitIInv, PasswordUpgradeNextIInv, PTL DEF PasswordUpgradeSpec

\* Where logins lock the row, the upgrade of a hash keeps the password: none puts back
\* one that was changed while it ran.
THEOREM UpgradesKeepPasswords == PasswordUpgradeSpec => []UpgradeKeepsPassword
<1>1. PasswordUpgradeIInv => UpgradeKeepsPassword
  BY DEF PasswordUpgradeIInv
<1> QED BY <1>1, PasswordUpgradeIInvHolds, PTL

\* A login that changes the password of the row has not locked it, and the row is not as
\* it was loaded: with or without the lock, only a stale upgrade brings a password back.
THEOREM OnlyStaleOnesRevert == PasswordUpgradeSpec => OnlyStaleUpgradesRevert
<1>1. ASSUME PasswordUpgradeIInv, NEW l \in Logins, CommitLogin(l), hash'.password # hash.password
      PROVE  ~locking /\ logins[l].seen # hash
  <2>1. logins[l].step = "verified" /\ hash' = Argon2id(logins[l].password)
    BY <1>1 DEF CommitLogin
  <2>2. hash'.password = logins[l].seen.password
    BY <1>1, <2>1, LoginBegun, Argon2idHash DEF PasswordUpgradeIInv, Matches
  <2>3. logins[l].seen # hash
    BY <1>1, <2>2
  <2> QED BY <1>1, <2>1, <2>3 DEF PasswordUpgradeIInv
<1>2. PasswordUpgradeIInv =>
        [\A l \in Logins : CommitLogin(l) /\ hash'.password # hash.password =>
           ~locking /\ logins[l].seen # hash]_upgradeVars
  BY <1>1
<1> QED BY <1>2, PasswordUpgradeIInvHolds, PTL DEF PasswordUpgradeSpec, OnlyStaleUpgradesRevert

----------------------------------------------------------------------------
(* ApiKeys *)

Creation == [step : {"insert", "created", "create_failed", "success_recorded",
                     "failure_recorded", "returned", "raised"}, key : KeyIds]

LEMMA Advanced ==
  ASSUME ApiKeysTypeOK, NEW c \in Creators, NEW from, NEW to, Advances(c, from, to),
         to \in {"created", "create_failed", "success_recorded", "failure_recorded",
                 "returned", "raised"}
  PROVE  /\ creations' \in [Creators -> Creation]
         /\ creations'[c] = [step |-> to, key |-> creations[c].key]
         /\ \A d \in Creators \ {c} : creations'[d] = creations[d]
<1>1. [creations[c] EXCEPT !.step = to] = [step |-> to, key |-> creations[c].key]
  BY DEF ApiKeysTypeOK
<1>2. [step |-> to, key |-> creations[c].key] \in Creation
  BY DEF ApiKeysTypeOK, Creation
<1>3. creations' = [creations EXCEPT ![c] = [step |-> to, key |-> creations[c].key]]
  BY <1>1 DEF Advances
<1> QED BY <1>2, <1>3 DEF ApiKeysTypeOK, Creation

LEMMA ApiKeysInitIInv == ApiKeysInit => ApiKeysIInv
<1> SUFFICES ASSUME ApiKeysInit PROVE ApiKeysIInv
  OBVIOUS
<1>1. \A c \in Creators : creations[c].step = "insert"
  BY DEF ApiKeysInit
<1>2. ApiKeysTypeOK
  BY DEF ApiKeysInit, ApiKeysTypeOK
<1> QED BY <1>1, <1>2 DEF ApiKeysIInv, ApiKeysInit, TrailIsTrue, Inserted

LEMMA ApiKeysNextIInv == ApiKeysIInv /\ [ApiKeysNext]_keyVars => ApiKeysIInv'
<1> SUFFICES ASSUME ApiKeysIInv, [ApiKeysNext]_keyVars PROVE ApiKeysIInv'
  OBVIOUS
<1> DEFINE Rows == \A c \in Creators : Inserted(c) =>
             /\ creations[c].key \in stored
             /\ \A d \in Creators : Inserted(d) /\ creations[d].key = creations[c].key => d = c
           Recorded(c) == creations[c].step \in {"success_recorded", "returned"}
           Trail == \A r \in trail : r.action = "created" =>
             \E c \in Creators : Recorded(c) /\ creations[c].key = r.key
<1>0. ApiKeysTypeOK /\ Rows /\ Trail
  BY DEF ApiKeysIInv, TrailIsTrue
<1>s. SUFFICES ApiKeysTypeOK' /\ Rows' /\ Trail'
  <2>1. ASSUME ApiKeysTypeOK', Rows', Trail' PROVE TrailIsTrue'
    <3>1. ASSUME NEW c \in Creators, creations'[c].step = "returned"
          PROVE  /\ creations'[c].key \in stored'
                 /\ \A d \in Creators : creations'[d] = creations'[c] => d = c
      BY <2>1, <3>1 DEF Inserted
    <3>2. ASSUME NEW r \in trail', r.action = "created"
          PROVE  /\ r.key \in stored'
                 /\ \E c \in Creators : Recorded(c)' /\ creations'[c].key = r.key
      BY <2>1, <3>2 DEF Inserted
    <3> QED BY <3>1, <3>2 DEF TrailIsTrue
  <2> QED BY <2>1 DEF ApiKeysIInv
<1>1. ASSUME NEW c \in Creators, InsertKey(c) PROVE ApiKeysTypeOK' /\ Rows' /\ Trail'
  <2> DEFINE key == creations[c].key
  <2>1. key \in KeyIds
    BY <1>0 DEF ApiKeysTypeOK
  <2>2. PICK to \in {"created", "create_failed"} :
          /\ Advances(c, "insert", to)
          /\ stored' \in {stored, stored \cup {key}}
          /\ to = "created" => key \notin stored /\ stored' = stored \cup {key}
    BY <1>1 DEF InsertKey
  <2>3. /\ creations' \in [Creators -> Creation]
        /\ creations'[c] = [step |-> to, key |-> key]
        /\ \A d \in Creators \ {c} : creations'[d] = creations[d]
    BY <1>0, <2>2, Advanced
  <2>4. ApiKeysTypeOK'
    BY <1>0, <1>1, <2>1, <2>2, <2>3 DEF InsertKey, ApiKeysTypeOK, Creation
  <2>5. \A d \in Creators \ {c} : Inserted(d)' <=> Inserted(d)
    BY <2>3 DEF Inserted
  <2>6. ASSUME NEW d \in Creators, Inserted(d)', NEW e \in Creators, Inserted(e)',
               creations'[e].key = creations'[d].key
        PROVE  e = d
    <3>1. ASSUME NEW x \in Creators \ {c}, Inserted(x), to = "created" PROVE creations[x].key # key
      BY <1>0, <2>2, <3>1
    <3>2. \A x \in {d, e} : x = c => to = "created"
      BY <2>3, <2>6 DEF Inserted
    <3> QED BY <1>0, <2>3, <2>5, <2>6, <3>1, <3>2
  <2>7. ASSUME NEW d \in Creators, Inserted(d)' PROVE creations'[d].key \in stored'
    <3>1. CASE d = c
      BY <2>2, <2>3, <2>7, <3>1 DEF Inserted
    <3>2. CASE d # c
      BY <1>0, <2>2, <2>3, <2>5, <2>7, <3>2
    <3> QED BY <3>1, <3>2
  <2>8. Trail'
    <3> SUFFICES ASSUME NEW r \in trail, r.action = "created"
                 PROVE  \E d \in Creators : Recorded(d)' /\ creations'[d].key = r.key
      BY <1>1 DEF InsertKey
    <3>1. PICK d \in Creators : Recorded(d) /\ creations[d].key = r.key
      BY <1>0
    <3>2. d # c
      BY <2>2, <3>1 DEF Advances
    <3> QED BY <2>3, <3>1, <3>2
  <2> QED BY <2>4, <2>6, <2>7, <2>8
<1>2. ASSUME NEW c \in Creators, EmitRecord(c) \/ Return(c)
      PROVE  ApiKeysTypeOK' /\ Rows' /\ Trail'
  <2> DEFINE key == creations[c].key
  <2>1. key \in KeyIds /\ stored' = stored
    BY <1>0, <1>2 DEF ApiKeysTypeOK, EmitRecord, Return
  <2>2. PICK to \in {"success_recorded", "failure_recorded", "returned", "raised"} :
          \/ Advances(c, "created", "success_recorded") /\ to = "success_recorded"
          \/ Advances(c, "create_failed", "failure_recorded") /\ to = "failure_recorded"
          \/ Advances(c, "success_recorded", "returned") /\ to = "returned"
          \/ Advances(c, "failure_recorded", "raised") /\ to = "raised"
    BY <1>2 DEF EmitRecord, Return
  <2>a. Advances(c, creations[c].step, to)
    BY <2>2 DEF Advances
  <2>3. /\ creations' \in [Creators -> Creation]
        /\ creations'[c] = [step |-> to, key |-> key]
        /\ \A d \in Creators \ {c} : creations'[d] = creations[d]
    BY <1>0, <2>2, <2>a, Advanced
  <2>4. creations[c].step \in {"created", "success_recorded"} <=> to \in {"success_recorded", "returned"}
    BY <2>2 DEF Advances
  <2>5. \A d \in Creators : (Inserted(d)' <=> Inserted(d)) /\ creations'[d].key = creations[d].key
    BY <2>2, <2>3 DEF Inserted, Advances
  <2>6. Rows'
    BY <1>0, <2>1, <2>5
  <2>7. ASSUME EmitRecord(c)
        PROVE  Record(c) \in Records /\ Record(c) = [action |-> creations[c].step, key |-> key]
    BY <2>1, <2>7 DEF Record, Records, EmitRecord, Advances
  <2>8. ApiKeysTypeOK'
    <3>1. trail' \subseteq Records
      BY <1>0, <1>2, <2>7 DEF EmitRecord, Return, ApiKeysTypeOK
    <3> QED BY <1>0, <2>1, <2>3, <3>1 DEF ApiKeysTypeOK, Creation
  <2>9. ASSUME NEW r \in trail', r.action = "created"
        PROVE  \E d \in Creators : Recorded(d)' /\ creations'[d].key = r.key
    <3>1. CASE r \in trail
      <4>1. PICK d \in Creators : Recorded(d) /\ creations[d].key = r.key
        BY <1>0, <2>9, <3>1
      <4>2. CASE d = c
        <5>1. creations[c].step = "success_recorded"
          BY <2>2, <4>1, <4>2 DEF Advances
        <5>2. Recorded(c)' /\ creations'[c].key = key
          BY <2>3, <2>4, <5>1
        <5> QED BY <4>1, <4>2, <5>2
      <4>3. CASE d # c
        BY <2>3, <4>1, <4>3
      <4> QED BY <4>2, <4>3
    <3>2. CASE EmitRecord(c) /\ r = Record(c)
      <4>1. creations[c].step = "created" /\ r.key = key
        BY <2>7, <2>9, <3>2
      <4> QED BY <2>3, <2>4, <4>1
    <3> QED BY <1>2, <3>1, <3>2 DEF EmitRecord, Return
  <2> QED BY <2>6, <2>8, <2>9
<1>3. CASE UNCHANGED keyVars
  BY <1>0, <1>3 DEF keyVars, ApiKeysTypeOK, Inserted
<1> QED BY <1>1, <1>2, <1>3 DEF ApiKeysNext

\* A call whose insert was accepted has its row in the table, and no two such calls have
\* the same key.
THEOREM ApiKeysIInvHolds == ApiKeysSpec => []ApiKeysIInv
BY ApiKeysInitIInv, ApiKeysNextIInv, PTL DEF ApiKeysSpec

\* A call that returns a plaintext has its key in the table, and no other call returned
\* the same; the trail says `created` only of a key that is in the table, made by a call
\* whose insert was accepted and which has recorded it, whether it lived to return or not.
THEOREM TheTrailIsTrue == ApiKeysSpec => []TrailIsTrue
<1>1. ApiKeysIInv => TrailIsTrue
  BY DEF ApiKeysIInv
<1> QED BY <1>1, ApiKeysIInvHolds, PTL

----------------------------------------------------------------------------
(* ObjectStorage *)

\* A payload is as long as it says and is its pieces in order.
LEMMA Payload ==
  ASSUME NEW p \in Payloads \cup {<<>>}
  PROVE  /\ Len(p) \in Nat
         /\ p = [i \in 1..Len(p) |-> p[i]]
         /\ [i \in 1..0 |-> p[i]] = <<>>
<1>1. CASE p \in Payloads
  <2>1. PICK S : p \in Seq(S)
    BY <1>1, ObjectStorageAssumption
  <2>2. Len(p) \in Nat /\ DOMAIN p = 1..Len(p) /\ p = [i \in 1..Len(p) |-> p[i]]
    BY <2>1
  <2>3. [i \in 1..0 |-> p[i]] = <<>>
    OBVIOUS
  <2> QED BY <2>2, <2>3
<1>2. CASE p = <<>>
  BY <1>2
<1> QED BY <1>1, <1>2

\* The next piece of a file that has what its writer has written.
LEMMA PlacedNext ==
  ASSUME NEW p, NEW n \in Nat, file = [i \in 1..n |-> p[i]]
  PROVE  Placed(n + 1, p[n + 1]) = [i \in 1..(n + 1) |-> p[i]]
<1>1. Len(file) = n
  OBVIOUS
<1> QED BY <1>1 DEF Placed

LEMMA IdlingIsNoWork == Idling.linked = FALSE /\ Idling.done = 0 /\ Idling.payload = <<>>
BY DEF Idling

Put == [payload : Payloads \cup {<<>>}, done : Nat, linked : BOOLEAN]

LEMMA PutsKept ==
  ASSUME NEW w \in Putters, ObjectStorageTypeOK, NEW put \in Put, put.done <= Len(put.payload),
         puts' = [puts EXCEPT ![w] = put], latest' \in Payloads \cup {<<>>}, disturbed' \in BOOLEAN,
         recent' \subseteq Payloads \cup {<<>>}
  PROVE  /\ ObjectStorageTypeOK'
         /\ puts'[w] = put /\ \A v \in Putters \ {w} : puts'[v] = puts[v]
         /\ \A v \in Putters \ {w} : AtWork(v)' <=> AtWork(v)
         /\ AtWork(w)' <=> put.linked
<1>1. /\ puts' \in [Putters -> Put]
      /\ puts'[w] = put /\ \A v \in Putters \ {w} : puts'[v] = puts[v]
  BY DEF ObjectStorageTypeOK, Put
<1>2. ObjectStorageTypeOK'
  BY <1>1 DEF ObjectStorageTypeOK, Put
<1> QED BY <1>1, <1>2, IdlingIsNoWork DEF AtWork, Putting

LEMMA IdlingIsPut == Idling \in Put /\ Idling.done <= Len(Idling.payload)
BY DEF Idling, Put

LEMMA ObjectStorageInitIInv == ObjectStorageInit => ObjectStorageIInv
<1> SUFFICES ASSUME ObjectStorageInit PROVE ObjectStorageIInv
  OBVIOUS
<1>1. ObjectStorageTypeOK
  BY IdlingIsPut DEF ObjectStorageInit, ObjectStorageTypeOK, Put
<1>2. \A w \in Putters : ~AtWork(w)
  BY DEF ObjectStorageInit, AtWork, Putting
<1>3. Len(file) \in Nat
  BY DEF ObjectStorageInit, NoFile
<1> QED BY <1>1, <1>2, <1>3
        DEF ObjectStorageIInv, ObjectStorageInit, UndisturbedIsWhole, NothingOlderIsRead

\* The file has pieces of recent payloads only, and so has what is written to it.
LEMMA RecentStep ==
  ASSUME ObjectStorageIInv, [ObjectStorageNext]_storageVars
  PROVE  /\ NothingOlderIsRead'
         /\ Len(file') \in Nat
         /\ \A w \in Putters : AtWork(w)' => file' # NoFile /\ puts'[w].payload \in recent'
<1> DEFINE Older == file # NoFile => \A i \in 1..Len(file) :
             file[i] = Gap \/ \E p \in recent : i <= Len(p) /\ file[i] = p[i]
           Has(w) == AtWork(w) => file # NoFile /\ puts[w].payload \in recent
<1>0. /\ ObjectStorageTypeOK /\ Older /\ Len(file) \in Nat
      /\ \A w \in Putters : Has(w)
  BY DEF ObjectStorageIInv, NothingOlderIsRead
<1>s. SUFFICES Older' /\ Len(file') \in Nat /\ \A w \in Putters : Has(w)'
  BY DEF NothingOlderIsRead
<1>1. ASSUME NEW w \in Putters, NEW payload \in Payloads, OpenFile(w, payload)
      PROVE  Older' /\ Len(file') \in Nat /\ \A v \in Putters : Has(v)'
  <2>1. file' = <<>> /\ <<>> # NoFile
    BY <1>1 DEF OpenFile, Emptied, NoFile
  <2>2. ASSUME NEW v \in Putters, AtWork(v)' PROVE puts'[v].payload \in recent'
    <3>1. CASE v = w
      <4>1. puts'[w].payload = payload
        BY <1>0, <1>1 DEF OpenFile, ObjectStorageTypeOK
      <4> QED BY <1>1, <3>1, <4>1 DEF OpenFile
    <3>2. CASE v # w
      <4>1. puts'[v] = puts[v]
        BY <1>0, <1>1, <3>2 DEF OpenFile, ObjectStorageTypeOK
      <4>2. AtWork(v)
        BY <2>2, <4>1 DEF AtWork, Putting
      <4> QED BY <1>1, <4>1, <4>2 DEF OpenFile
    <3> QED BY <3>1, <3>2
  <2> QED BY <2>1, <2>2
<1>2. ASSUME NEW w \in Putters, WritePiece(w)
      PROVE  Older' /\ Len(file') \in Nat /\ \A v \in Putters : Has(v)'
  <2> DEFINE n == puts[w].done + 1
             p == puts[w].payload
  <2>0. /\ n \in Nat \ {0} /\ Len(p) \in Nat /\ n <= Len(p) /\ p \in Payloads
        /\ p[n] # "none" /\ recent' = recent
    <3>1. puts[w].done \in Nat /\ p \in Payloads \cup {<<>>} /\ puts[w].done < Len(p)
      BY <1>0, <1>2 DEF WritePiece, ObjectStorageTypeOK
    <3>2. Len(p) \in Nat /\ p \in Payloads /\ DOMAIN p = 1..Len(p)
      BY <3>1, Payload
    <3> HIDE DEF p
    <3>3. \A i \in DOMAIN p : p[i] # "none"
      BY <3>2, ObjectStorageAssumption
    <3>4. n \in Nat \ {0} /\ n <= Len(p) /\ n \in DOMAIN p
      BY <3>1, <3>2
    <3>5. recent' = recent
      BY <1>2 DEF WritePiece
    <3> QED BY <3>2, <3>3, <3>4, <3>5
  <2>1. \A v \in Putters : puts'[v].payload = puts[v].payload /\ (AtWork(v)' => AtWork(v))
    <3>1. ASSUME NEW v \in Putters PROVE puts'[v].payload = puts[v].payload /\ puts'[v].linked = puts[v].linked
      BY <1>0, <1>2 DEF WritePiece, ObjectStorageTypeOK
    <3>2. \A v \in Putters \ {w} : puts'[v] = puts[v]
      BY <1>0, <1>2 DEF WritePiece, ObjectStorageTypeOK
    <3> QED BY <1>2, <3>1, <3>2 DEF AtWork, Putting, WritePiece
  <2>2. CASE ~puts[w].linked
    BY <1>0, <1>2, <2>0, <2>1, <2>2 DEF WritePiece
  <2>3. CASE puts[w].linked
    <3> DEFINE m == IF n > Len(file) THEN n ELSE Len(file)
    <3>1. AtWork(w) /\ file # NoFile /\ p \in recent
      BY <1>0, <1>2, <2>3 DEF AtWork, WritePiece
    <3>2. m \in Nat /\ n \in 1..m
      BY <1>0, <2>0
    <3>3. file' = [i \in 1..m |->
                     IF i = n THEN p[n] ELSE IF i <= Len(file) THEN file[i] ELSE Gap]
      BY <1>2, <2>3 DEF WritePiece, Placed
    <3> HIDE DEF m, n, p
    <3>4. Len(file') = m /\ file'[n] = p[n]
      BY <3>2, <3>3
    <3>5. file' # NoFile
      <4>1. SUFFICES ASSUME file' = <<"none">> PROVE FALSE
        BY DEF NoFile
      <4>2. m = 1 /\ n = 1 /\ file'[1] = "none"
        BY <3>2, <3>4, <4>1
      <4> QED BY <2>0, <3>4, <4>2
    <3>6. ASSUME NEW i \in 1..m
          PROVE  file'[i] = Gap \/ \E q \in recent : i <= Len(q) /\ file'[i] = q[i]
      <4>1. CASE i = n
        BY <2>0, <3>1, <3>4, <4>1
      <4>2. CASE i # n /\ i <= Len(file)
        <5>1. file'[i] = file[i] /\ i \in 1..Len(file)
          BY <1>0, <3>2, <3>3, <4>2
        <5> QED BY <1>0, <3>1, <5>1
      <4>3. CASE i # n /\ ~(i <= Len(file))
        BY <3>3, <4>3
      <4> QED BY <4>1, <4>2, <4>3
    <3> QED BY <1>0, <2>0, <2>1, <3>2, <3>4, <3>5, <3>6
  <2> QED BY <2>2, <2>3
<1>3. ASSUME NEW w \in Putters, ClosePut(w) \/ AbandonPut(w)
      PROVE  Older' /\ Len(file') \in Nat /\ \A v \in Putters : Has(v)'
  <2>1. puts' = [puts EXCEPT ![w] = Idling] /\ UNCHANGED <<file, recent>>
    BY <1>3 DEF ClosePut, AbandonPut
  <2>2. puts'[w] = Idling /\ \A v \in Putters \ {w} : puts'[v] = puts[v]
    BY <1>0, <2>1 DEF ObjectStorageTypeOK
  <2>3. \A v \in Putters : AtWork(v)' => v # w /\ AtWork(v)
    BY <2>2 DEF AtWork, Putting
  <2> QED BY <1>0, <2>1, <2>2, <2>3
<1>4. ASSUME DeleteObject
      PROVE  Older' /\ Len(file') \in Nat /\ \A v \in Putters : Has(v)'
  <2>1. \A w \in Putters : ~puts'[w].linked
    BY <1>0, <1>4 DEF DeleteObject, ObjectStorageTypeOK
  <2>2. \A w \in Putters : ~AtWork(w)'
    BY <2>1 DEF AtWork
  <2>3. file' = NoFile /\ Len(file') \in Nat
    BY <1>4 DEF DeleteObject, NoFile
  <2> QED BY <2>2, <2>3
<1>5. CASE UNCHANGED storageVars
  BY <1>0, <1>5 DEF storageVars, AtWork, Putting
<1> QED BY <1>1, <1>2, <1>3, <1>4, <1>5 DEF ObjectStorageNext

LEMMA ObjectStorageNextIInv ==
  ObjectStorageIInv /\ [ObjectStorageNext]_storageVars => ObjectStorageIInv'
<1> SUFFICES ASSUME ObjectStorageIInv, [ObjectStorageNext]_storageVars PROVE ObjectStorageIInv'
  OBVIOUS
<1> DEFINE Works == ~disturbed => \A w \in Putters : AtWork(w) =>
             /\ puts[w].payload = latest
             /\ file = [i \in 1..puts[w].done |-> latest[i]]
             /\ \A v \in Putters : AtWork(v) => v = w
           Whole == (\A w \in Putters : ~AtWork(w)) /\ ~disturbed /\ file # NoFile => file = latest
<1>0. ObjectStorageTypeOK /\ Works /\ Whole
  BY DEF ObjectStorageIInv, UndisturbedIsWhole
<1>s. SUFFICES ObjectStorageTypeOK' /\ Works' /\ Whole'
  BY RecentStep DEF ObjectStorageIInv, UndisturbedIsWhole
<1>1. ASSUME NEW w \in Putters, NEW payload \in Payloads, OpenFile(w, payload)
      PROVE  ObjectStorageTypeOK' /\ Works' /\ Whole'
  <2> DEFINE put == [payload |-> payload, done |-> 0, linked |-> TRUE]
  <2>1. put \in Put /\ put.done <= Len(put.payload) /\ put.linked
    BY Payload DEF Put
  <2>2. /\ ObjectStorageTypeOK'
        /\ puts'[w] = put /\ \A v \in Putters \ {w} : puts'[v] = puts[v]
        /\ \A v \in Putters \ {w} : AtWork(v)' <=> AtWork(v)
        /\ AtWork(w)'
    <3>1. /\ puts' = [puts EXCEPT ![w] = put]
          /\ latest' \in Payloads \cup {<<>>} /\ disturbed' \in BOOLEAN
          /\ recent' \subseteq Payloads \cup {<<>>}
      BY <1>0, <1>1 DEF OpenFile, ObjectStorageTypeOK
    <3> HIDE DEF put
    <3> QED BY <1>0, <2>1, <3>1, PutsKept
  <2>3. Works'
    <3>1. SUFFICES ASSUME ~disturbed' PROVE /\ puts'[w].payload = latest'
                                           /\ file' = [i \in 1..puts'[w].done |-> latest'[i]]
                                           /\ \A v \in Putters : AtWork(v)' => v = w
      OBVIOUS
    <3>2. \A v \in Putters : ~AtWork(v)
      BY <1>1, <3>1 DEF OpenFile
    <3> QED BY <1>1, <2>2, <3>2, Payload DEF OpenFile, Emptied
  <2> QED BY <2>2, <2>3
<1>2. ASSUME NEW w \in Putters, WritePiece(w) PROVE ObjectStorageTypeOK' /\ Works' /\ Whole'
  <2> DEFINE n == puts[w].done
             put == [payload |-> puts[w].payload, done |-> n + 1, linked |-> puts[w].linked]
  <2>0. puts[w] \in Put /\ n \in Nat /\ Len(puts[w].payload) \in Nat
    BY <1>0, Payload DEF Put, ObjectStorageTypeOK
  <2>1. put \in Put /\ put.done = n + 1 /\ n + 1 <= Len(put.payload)
    BY <1>2, <2>0 DEF Put, WritePiece
  <2>2. /\ ObjectStorageTypeOK'
        /\ puts'[w] = put /\ \A v \in Putters \ {w} : puts'[v] = puts[v]
        /\ \A v \in Putters \ {w} : AtWork(v)' <=> AtWork(v)
        /\ AtWork(w)' <=> AtWork(w)
    <3>1. [puts[w] EXCEPT !.done = n + 1] = put
      BY <2>0 DEF Put
    <3>2. puts' = [puts EXCEPT ![w] = put] /\ (AtWork(w) <=> put.linked)
      BY <1>2, <3>1 DEF WritePiece, AtWork
    <3> HIDE DEF put
    <3> QED BY <1>0, <1>2, <2>1, <3>2, PutsKept DEF WritePiece, ObjectStorageTypeOK
  <2>3. CASE ~puts[w].linked
    BY <1>0, <1>2, <2>2, <2>3 DEF WritePiece, AtWork
  <2>4. CASE puts[w].linked
    <3>1. SUFFICES ASSUME ~disturbed PROVE Works'
      BY <1>2, <2>2, <2>4 DEF WritePiece, AtWork
    <3>2. AtWork(w) /\ puts[w].payload = latest /\ file = [i \in 1..n |-> latest[i]]
          /\ \A v \in Putters : AtWork(v) => v = w
      BY <1>0, <1>2, <2>4, <3>1 DEF AtWork, WritePiece
    <3>3. file' = [i \in 1..(n + 1) |-> latest[i]]
      <4>1. file' = Placed(n + 1, latest[n + 1])
        BY <1>2, <2>4, <3>2 DEF WritePiece
      <4> HIDE DEF n
      <4> QED BY <2>0, <3>2, <4>1, PlacedNext
    <3>4. /\ puts'[w].payload = latest /\ puts'[w].done = n + 1
          /\ latest' = latest /\ disturbed' = disturbed
      BY <1>2, <2>2, <3>2 DEF WritePiece
    <3>5. \A v \in Putters : AtWork(v)' => v = w
      BY <2>2, <3>2
    <3> HIDE DEF n, put
    <3> QED BY <3>3, <3>4, <3>5
  <2> QED BY <2>3, <2>4
<1>3. ASSUME NEW w \in Putters, puts' = [puts EXCEPT ![w] = Idling],
             disturbed' \in BOOLEAN, disturbed => disturbed', UNCHANGED <<file, latest, recent>>,
             puts[w].linked => disturbed' \/ puts[w].done = Len(puts[w].payload)
      PROVE  ObjectStorageTypeOK' /\ Works' /\ Whole'
  <2>1. /\ ObjectStorageTypeOK'
        /\ puts'[w] = Idling /\ \A v \in Putters \ {w} : puts'[v] = puts[v]
        /\ \A v \in Putters \ {w} : AtWork(v)' <=> AtWork(v)
        /\ ~AtWork(w)'
    BY <1>0, <1>3, PutsKept, IdlingIsPut, IdlingIsNoWork DEF ObjectStorageTypeOK
  <2>2. Works'
    BY <1>0, <1>3, <2>1
  <2>3. Whole'
    <3>1. SUFFICES ASSUME \A v \in Putters : ~AtWork(v)', ~disturbed', file # NoFile
                   PROVE  file = latest
      BY <1>3
    <3>2. CASE AtWork(w)
      <4>1. puts[w].done = Len(puts[w].payload)
        BY <1>3, <3>1, <3>2 DEF AtWork
      <4>2. puts[w].payload = latest /\ file = [i \in 1..puts[w].done |-> latest[i]]
        BY <1>0, <1>3, <3>1, <3>2
      <4>3. latest = [i \in 1..Len(latest) |-> latest[i]]
        BY <1>0, Payload DEF ObjectStorageTypeOK
      <4> QED BY <4>1, <4>2, <4>3
    <3>3. CASE ~AtWork(w)
      BY <1>0, <1>3, <2>1, <3>1, <3>3
    <3> QED BY <3>2, <3>3
  <2> QED BY <2>1, <2>2, <2>3
<1>4. ASSUME NEW w \in Putters, ClosePut(w) PROVE ObjectStorageTypeOK' /\ Works' /\ Whole'
  BY <1>0, <1>3, <1>4 DEF ClosePut, ObjectStorageTypeOK
<1>5. ASSUME NEW w \in Putters, AbandonPut(w) PROVE ObjectStorageTypeOK' /\ Works' /\ Whole'
  <2>1. disturbed' \in BOOLEAN
    BY <1>0, <1>5 DEF AbandonPut, ObjectStorageTypeOK
  <2> QED BY <1>3, <1>5, <2>1 DEF AbandonPut
<1>6. ASSUME DeleteObject PROVE ObjectStorageTypeOK' /\ Works' /\ Whole'
  <2>1. \A w \in Putters : /\ puts'[w] \in Put /\ ~puts'[w].linked
                          /\ puts'[w].payload = puts[w].payload /\ puts'[w].done = puts[w].done
    BY <1>0, <1>6 DEF DeleteObject, ObjectStorageTypeOK, Put
  <2>2. \A w \in Putters : ~AtWork(w)'
    BY <2>1 DEF AtWork
  <2>3. ObjectStorageTypeOK'
    BY <1>0, <1>6, <2>1 DEF DeleteObject, ObjectStorageTypeOK, Put
  <2> QED BY <1>6, <2>2, <2>3 DEF DeleteObject
<1>7. CASE UNCHANGED storageVars
  BY <1>0, <1>7 DEF storageVars, ObjectStorageTypeOK, AtWork, Putting
<1> QED BY <1>1, <1>2, <1>4, <1>5, <1>6, <1>7 DEF ObjectStorageNext

\* A put at work that nothing disturbed is the only one, and the file has what it has
\* written of the latest payload.
THEOREM ObjectStorageIInvHolds == ObjectStorageSpec => []ObjectStorageIInv
BY ObjectStorageInitIInv, ObjectStorageNextIInv, PTL DEF ObjectStorageSpec

\* Once no put is at work, the file is the whole of the latest payload, unless another
\* put overlapped the latest or a put died.
THEOREM UndisturbedObjectsAreWhole == ObjectStorageSpec => []UndisturbedIsWhole
<1>1. ObjectStorageIInv => UndisturbedIsWhole
  BY DEF ObjectStorageIInv
<1> QED BY <1>1, ObjectStorageIInvHolds, PTL

\* Whatever puts overlap or die, no piece of the file is older than the last emptying of
\* it and the puts at work since.
THEOREM NothingOlderComesBack == ObjectStorageSpec => []NothingOlderIsRead
<1>1. ObjectStorageIInv => NothingOlderIsRead
  BY DEF ObjectStorageIInv
<1> QED BY <1>1, ObjectStorageIInvHolds, PTL
=============================================================================
