----------------------------- MODULE CatalogRows ----------------------------
(***************************************************************************)
(* Rows of the tables of db/models.py under the statements of many         *)
(* callers, as far as the constraints of Schema let them through, and the  *)
(* access to a service that auth/service_rbac.py derives from the rows.    *)
(***************************************************************************)
EXTENDS Schema

CONSTANTS
  Candidates,   \* groups of rows; one group at a time is inserted, changed, deleted
  Null

\* The writers of permissions make principal_key of the principal; no constraint does.
ASSUME CatalogRowsAssumption ==
  \A g \in Candidates : \A r, q \in g :
    /\ r.table \in DOMAIN Models
    /\ /\ r.table = "mcp_service_permission" /\ q.table = "mcp_service_permission"
       /\ r.principal_type = q.principal_type
       /\ r.user_id = q.user_id /\ r.team_id = q.team_id
       => r.principal_key = q.principal_key

VARIABLES group, rows

catalogVars == <<group, rows>>

Of(table) == {r \in rows : r.table = table}

CatalogRowsTypeOK == group \in Candidates /\ rows \subseteq group

CatalogRowsInit == group \in Candidates /\ rows = {}

----------------------------------------------------------------------------
(* The constraints *)

Model(r) == Models[r.table]

\* Rows agree on a key; where a column of it is NULL they do not.
KeyClash(r, q) ==
  /\ r.table = q.table
  /\ \E key \in Model(r).keys : \A c \in key : r[c] = q[c] /\ r[c] # Null

RefersBy(ref, r, q) ==
  q.table = ref.to /\ \A c \in DOMAIN ref.columns : r[c] = q[ref.columns[c]]

RefHolds(ref, r, others) ==
  \/ \E c \in DOMAIN ref.columns : r[c] = Null
  \/ \E q \in others : RefersBy(ref, r, q)

\* The checks named in Schema that are about the columns kept here.
Passes(check, r) ==
  CASE check = "user_id_consistency" -> r.principal_type = "user" <=> r.user_id # Null
    [] check = "team_id_consistency" -> r.principal_type = "team" <=> r.team_id # Null
    [] check = "role_scope" -> r.principal_type = "user" \/ r.role = "viewer"
    [] OTHER -> TRUE

\* The columns that keys and foreign keys are on.
Constrained(r) == UNION (Model(r).keys \cup {DOMAIN ref.columns : ref \in Model(r).refs})

Fits(r) ==
  /\ \A c \in Constrained(r) : r[c] = Null => <<r.table, c>> \in Nullable
  /\ \A c \in DOMAIN Model(r).domains \cap DOMAIN r : r[c] \in Model(r).domains[c]
  /\ \A check \in Model(r).checks : Passes(check, r)

\* What the database accepts as the result of a statement.
Accepted(result) ==
  /\ \A r \in result : Fits(r)
  /\ \A r, q \in result : r # q => ~KeyClash(r, q)
  /\ \A r \in result : \A ref \in Model(r).refs : RefHolds(ref, r, result)

\* The rows that ON DELETE CASCADE takes with a row; none of them takes others.
Taken(gone) ==
  {r \in rows : \E ref \in Model(r).refs : ref.cascade /\ RefersBy(ref, r, gone)}

----------------------------------------------------------------------------
(* Statements; one the database refuses changes nothing *)

Yields(result) == Accepted(result) /\ rows' = result /\ UNCHANGED group

InsertRow(r) == r \in group \ rows /\ Yields(rows \cup {r})

UpdateRow(r, q) ==
  /\ r \in rows /\ q \in group \ rows
  /\ q.table = r.table /\ q.id = r.id
  /\ Yields((rows \ {r}) \cup {q})

DeleteRow(r) == r \in rows /\ Yields(rows \ ({r} \cup Taken(r)))

CatalogRowsNext ==
  \E r \in group : InsertRow(r) \/ DeleteRow(r) \/ \E q \in group : UpdateRow(r, q)

CatalogRowsSpec == CatalogRowsInit /\ [][CatalogRowsNext]_catalogVars

\* What statements keep: a database whose constraints hold.
CatalogRowsIInv == CatalogRowsTypeOK /\ Accepted(rows)

----------------------------------------------------------------------------
(* auth/service_rbac.py *)

ViewerActions == {"view_service", "view_api_key_metadata", "view_service_audit_summary"}
EditorActions ==
  {"view_full_build_logs", "mutate_config_revision", "trigger_build_sync_publish_rollback",
   "manage_api_keys", "mutate_service_permissions", "mutate_service_lifecycle"}

IsActiveAdmin(principal) == principal.status = "active" /\ principal.role = "admin"

Grants(service) == {g \in Of("mcp_service_permission") : g.service_id = service}

\* The memberships of the principal, read with it.
TeamIds(principal) == {m.team_id : m \in {m \in Of("team_membership") : m.user_id = principal.id}}

Visible(principal, service) ==
  \/ IsActiveAdmin(principal)
  \/ \E g \in Grants(service) :
       \/ g.principal_type = "everyone"
       \/ g.principal_type = "user" /\ g.user_id = principal.id
       \/ g.principal_type = "team" /\ g.team_id \in TeamIds(principal)

\* Mutant: the role of the row is forgotten.
Writable_AnyRole(principal, service) ==
  \/ IsActiveAdmin(principal)
  \/ \E g \in Grants(service) : g.principal_type = "user" /\ g.user_id = principal.id

Writable(principal, service) ==
  \/ IsActiveAdmin(principal)
  \/ \E g \in Grants(service) :
       g.principal_type = "user" /\ g.user_id = principal.id /\ g.role = "editor"

\* authorize_service_action
Authorize(principal, service, action) ==
  IF ~Visible(principal, service) THEN "not_found"
  ELSE IF /\ principal.status = "active"
          /\ \/ action \in ViewerActions
             \/ action \in EditorActions /\ Writable(principal, service)
       THEN "allowed" ELSE "forbidden"

MayEdit(user, service) ==
  \E p \in Of("user") : p.id = user /\ Authorize(p, service, "mutate_config_revision") = "allowed"

----------------------------------------------------------------------------
(* Properties *)

\* A toolset moves to another service only when it has no tool: with tools, neither
\* the toolset nor they can be the first to move, and so no statement makes the tools
\* of one service those of another through their toolset (models.py 463-473).
ToolsetsMoveEmpty ==
  [][\A s \in Of("toolset"), q \in rows' :
       q.table = "toolset" /\ q.id = s.id /\ q.service_id # s.service_id =>
         \A t \in Of("mcp_tool") : t.toolset_id # s.id]_catalogVars

\* Deleting a toolset takes its tools along, but not one that a task is for: while
\* there is a task, what it was started with can be looked up, and it is not taken
\* along itself (models.py 479, 846).
TasksKeepTheirTool ==
  [][\A task \in Of("mcp_task") :
       \E t \in rows' : t.table = "mcp_tool" /\ t.id = task.tool_id]_catalogVars

EditorRow(r, user, service) ==
  /\ r.table = "mcp_service_permission" /\ r.user_id = user /\ r.service_id = service
  /\ r.role = "editor"

\* When a row no longer makes its user an editor, the right is lost with it: there is
\* no second row that grants it, and what a team or everyone was granted does not
\* (models.py 884-888, service_rbac.py 87-99).  An administrator needs no row.
RevocationIsFelt ==
  [][\A r \in rows : \A u \in Of("user"), s \in Of("mcp_service") :
       EditorRow(r, u.id, s.id) /\ ~(\E q \in rows' : q.id = r.id /\ EditorRow(q, u.id, s.id)) =>
         \/ ~MayEdit(u.id, s.id)'
         \/ \E p \in rows' : p.table = "user" /\ p.id = u.id /\ IsActiveAdmin(p)]_catalogVars
=============================================================================
