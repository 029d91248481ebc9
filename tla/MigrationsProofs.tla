------------------------- MODULE MigrationsProofs ---------------------------
(***************************************************************************)
(* Proofs about Migrations: the order of the revisions is the order of the *)
(* tables, and a run is at each operation where the scripts expect it.     *)
(***************************************************************************)
EXTENDS Migrations, TLAPS

----------------------------------------------------------------------------
(* Migrations: the tables, in the order of their creation *)

AllTables ==
  {"user", "team", "team_membership", "mcp_service", "service_config_revision", "toolset",
   "mcp_tool", "service_artifact", "build_run", "service_condition", "mcp_task",
   "mcp_service_permission", "api_key", "audit_event", "outbox", "bootstrap_lock"}

LEMMA Places ==
  /\ DOMAIN Place = AllTables
  /\ DOMAIN Models = AllTables \ {"bootstrap_lock"}
  /\ \A t \in AllTables : Place[t] \in 1..16
  /\ \A t, u \in AllTables : Place[t] = Place[u] => t = u
<1>1. DOMAIN Place = AllTables
  BY DEF Place, AllTables
<1>2. DOMAIN Models = AllTables \ {"bootstrap_lock"}
  BY DEF Models, AllTables
<1>3. \A t \in AllTables : Place[t] \in 1..16
  BY DEF Place, AllTables
<1>4. \A t, u \in AllTables : Place[t] = Place[u] => t = u
  BY DEF Place, AllTables
<1> QED BY <1>1, <1>2, <1>3, <1>4

LEMMA Counts ==
  /\ CountAt(0) = 0 /\ CountAt(1) = 0 /\ CountAt(2) = 3 /\ CountAt(3) = 4 /\ CountAt(4) = 5
  /\ CountAt(5) = 7 /\ CountAt(6) = 9 /\ CountAt(7) = 11 /\ CountAt(8) = 13 /\ CountAt(9) = 15
  /\ CountAt(10) = 15 /\ CountAt(11) = 16
BY DEF CountAt

LEMMA LatestIs11 == Latest = 11
BY DEF Latest, Revisions

LEMMA RevisionsAre ==
  /\ Revisions[1] = M1Db003 /\ Revisions[2] = M1Model001 /\ Revisions[3] = M1Model002
  /\ Revisions[4] = M1Model003 /\ Revisions[5] = M1Model004 /\ Revisions[6] = M1Model005
  /\ Revisions[7] = M1Model006 /\ Revisions[8] = M1Model007 /\ Revisions[9] = M1Model008
  /\ Revisions[10] = M1Delete001 /\ Revisions[11] = M2Auth001
BY DEF Revisions

\* A table as its revision creates it.
Made(t) == Def(t, FALSE)

\* The script of a revision.
LEMMA Script2 ==
  M1Model001 =
    [up |-> <<CreateTable("user", Made("user")), CreateTable("team", Made("team")),
              CreateTable("team_membership", Made("team_membership"))>>,
     down |-> <<DropTable("team_membership"), DropTable("team"), DropTable("user")>>]
<1>1. /\ Made("user") = User /\ Made("team") = Team
      /\ Made("team_membership") = TeamMembership
  BY DEF Made, Def, Models
<1> QED BY <1>1 DEF M1Model001, User, Team, TeamMembership

LEMMA Script3 ==
  M1Model002 =
    [up |-> <<CreateTable("mcp_service", Made("mcp_service"))>>,
     down |-> <<DropTable("mcp_service")>>]
<1> DEFINE keys == {{"namespace_key", "name_normalized", "uniqueness_scope"}}
           refs == {Ref("team_id", "team")}
           domains == [type |-> ServiceTypes,
             desired_status |-> {"enabled", "disabled"},
             runtime_status |-> {"pending", "ready", "degraded", "unhealthy", "failed"},
             agent_auth_mode |-> {"api_key", "none", "oauth2"}]
           checks == {"generation_order", "stdio_only_null_for_non_stdio"}
           all == {"generation_order", "stdio_only_null_for_non_stdio",
                   "deleted_scope_consistency"}
<1>1. Models["mcp_service"] = Table(keys, refs, domains, all)
  BY DEF Models, Service
<1>2. all \ {"deleted_scope_consistency"} = checks
  OBVIOUS
<1>3. Made("mcp_service") =
        [Models["mcp_service"] EXCEPT !.checks = @ \ {"deleted_scope_consistency"}]
  BY DEF Made, Def
<1>4. Made("mcp_service") = Table(keys, refs, domains, checks)
  <2> DEFINE def == Models["mcp_service"]
             ids == {{"id"}} \cup keys
             fewer == [def EXCEPT !.checks = @ \ {"deleted_scope_consistency"}]
  <2>1. def = [keys |-> ids, refs |-> refs, domains |-> domains, checks |-> all]
    BY <1>1 DEF Table
  <2>2. Table(keys, refs, domains, checks)
          = [keys |-> ids, refs |-> refs, domains |-> domains, checks |-> checks]
    BY DEF Table
  <2>3. Made("mcp_service") = fewer
    BY <1>3
  <2> HIDE DEF keys, refs, domains, all, checks, def, ids
  <2>4. fewer = [keys |-> ids, refs |-> refs, domains |-> domains, checks |-> checks]
    BY <1>2, <2>1
  <2> QED BY <2>2, <2>3, <2>4
<1> QED BY <1>4 DEF M1Model002

LEMMA Script4 ==
  M1Model003 =
    [up |-> <<CreateTable("service_config_revision", Made("service_config_revision"))>>,
     down |-> <<DropTable("service_config_revision")>>]
<1>1. Made("service_config_revision") = ServiceConfigRevision
  BY DEF Made, Def, Models
<1> QED BY <1>1 DEF M1Model003, ServiceConfigRevision

LEMMA Script5 ==
  M1Model004 =
    [up |-> <<CreateTable("toolset", Made("toolset")),
              CreateTable("mcp_tool", Made("mcp_tool"))>>,
     down |-> <<DropTable("mcp_tool"), DropTable("toolset")>>]
<1>1. Made("toolset") = Toolset /\ Made("mcp_tool") = McpTool
  BY DEF Made, Def, Models
<1> QED BY <1>1 DEF M1Model004, Toolset, McpTool

LEMMA Script6 ==
  M1Model005 =
    [up |-> <<CreateTable("service_artifact", Made("service_artifact")),
              CreateTable("build_run", Made("build_run"))>>,
     down |-> <<DropTable("build_run"), DropTable("service_artifact")>>]
<1>1. Made("service_artifact") = ServiceArtifact /\ Made("build_run") = BuildRun
  BY DEF Made, Def, Models
<1>2. {OfService, Ref("config_revision_id", "service_config_revision")} \cup
        {Ref(c, "service_artifact") :
           c \in {"source_artifact_id", "output_artifact_id", "log_artifact_id"}}
      = {OfService, Ref("config_revision_id", "service_config_revision"),
         Ref("source_artifact_id", "service_artifact"),
         Ref("output_artifact_id", "service_artifact"),
         Ref("log_artifact_id", "service_artifact")}
  OBVIOUS
<1>3. M1Model005.up[2] = CreateTable("build_run", BuildRun)
  BY <1>2 DEF M1Model005, CreateBuildRun, BuildRun
<1> QED BY <1>1, <1>2
         DEF M1Model005, ServiceArtifact, BuildRun, CreateServiceArtifact, CreateBuildRun

LEMMA Script7 ==
  M1Model006 =
    [up |-> <<CreateTable("service_condition", Made("service_condition")),
              CreateTable("mcp_task", Made("mcp_task"))>>,
     down |-> <<DropTable("mcp_task"), DropTable("service_condition")>>]
<1>1. Made("service_condition") = ServiceCondition /\ Made("mcp_task") = McpTask
  BY DEF Made, Def, Models
<1> QED BY <1>1 DEF M1Model006, ServiceCondition, McpTask

LEMMA Script8 ==
  M1Model007 =
    [up |-> <<CreateTable("mcp_service_permission", Made("mcp_service_permission")),
              CreateTable("api_key", Made("api_key"))>>,
     down |-> <<DropTable("api_key"), DropTable("mcp_service_permission")>>]
<1>1. /\ Made("mcp_service_permission") = McpServicePermission
      /\ Made("api_key") = ApiKey
  BY DEF Made, Def, Models
<1> QED BY <1>1 DEF M1Model007, McpServicePermission, ApiKey

LEMMA Script9 ==
  M1Model008 =
    [up |-> <<CreateTable("audit_event", Made("audit_event")),
              CreateTable("outbox", Made("outbox"))>>,
     down |-> <<DropTable("outbox"), DropTable("audit_event")>>]
<1>1. Made("audit_event") = AuditEvent /\ Made("outbox") = Outbox
  BY DEF Made, Def, Models
<1> QED BY <1>1 DEF M1Model008, AuditEvent, Outbox

LEMMA Script11 ==
  M2Auth001 =
    [up |-> <<CreateTable("bootstrap_lock", Made("bootstrap_lock")), Seed>>,
     down |-> <<DropTable("bootstrap_lock")>>]
BY DEF M2Auth001, Made, Def

----------------------------------------------------------------------------
(* What the tables refer to *)

\* The columns a foreign key refers to.
Target(ref) == {ref.columns[c] : c \in DOMAIN ref.columns}

LEMMA TargetOfRef ==
  ASSUME NEW column, NEW table
  PROVE  /\ Ref(column, table).to = table /\ Target(Ref(column, table)) = {"id"}
         /\ Cascading(Ref(column, table)).to = table
         /\ Target(Cascading(Ref(column, table))) = {"id"}
<1> DEFINE ref == Ref(column, table)
<1>1. ref.to = table /\ ref.columns = [c \in {column} |-> "id"]
  BY DEF Ref
<1>2. Cascading(ref).to = ref.to /\ Cascading(ref).columns = ref.columns
  <2>1. DOMAIN ref = {"columns", "to", "cascade"}
    BY DEF Ref
  <2> HIDE DEF ref
  <2> QED BY <2>1 DEF Cascading
<1> HIDE DEF ref
<1>3. Target(ref) = {"id"}
  BY <1>1 DEF Target
<1>4. Target(Cascading(ref)) = {"id"}
  BY <1>1, <1>2 DEF Target
<1> QED BY <1>1, <1>2, <1>3, <1>4 DEF ref

\* The foreign keys of a table other than to its service.
LEMMA RefsOf ==
  /\ \A t \in {"user", "team", "audit_event", "outbox"} : Models[t].refs = {}
  /\ Models["team_membership"].refs = {Ref("team_id", "team"), Ref("user_id", "user")}
  /\ Models["mcp_service"].refs = {Ref("team_id", "team")}
  /\ Models["service_config_revision"].refs = {OfService}
  /\ Models["toolset"].refs = {OfService, Ref("config_revision_id", "service_config_revision")}
  /\ Models["mcp_tool"].refs =
       {Cascading(Ref("toolset_id", "toolset")), OfService,
        [columns |-> [toolset_id |-> "id", service_id |-> "service_id"],
         to |-> "toolset", cascade |-> TRUE]}
  /\ Models["service_artifact"].refs =
       {OfService, Ref("config_revision_id", "service_config_revision")}
  /\ Models["build_run"].refs =
       {OfService, Ref("config_revision_id", "service_config_revision")} \cup
         {Ref(c, "service_artifact") :
            c \in {"source_artifact_id", "output_artifact_id", "log_artifact_id"}}
  /\ Models["service_condition"].refs = {OfService}
  /\ Models["mcp_task"].refs =
       {OfService, Ref("tool_id", "mcp_tool"), Ref("result_artifact_id", "service_artifact")}
  /\ Models["mcp_service_permission"].refs =
       {OfService, Ref("user_id", "user"), Ref("team_id", "team")}
  /\ Models["api_key"].refs = {OfService, Ref("revoked_by", "user")}
<1>1. \A t \in {"user", "team", "audit_event", "outbox"} : Models[t].refs = {}
  BY DEF Models, User, Team, AuditEvent, Outbox, Table
<1>2. /\ Models["team_membership"].refs = {Ref("team_id", "team"), Ref("user_id", "user")}
      /\ Models["mcp_service"].refs = {Ref("team_id", "team")}
      /\ Models["service_config_revision"].refs = {OfService}
      /\ Models["toolset"].refs = {OfService, Ref("config_revision_id", "service_config_revision")}
  BY DEF Models, TeamMembership, Service, ServiceConfigRevision, Toolset, Table
<1>3. Models["mcp_tool"].refs =
       {Cascading(Ref("toolset_id", "toolset")), OfService,
        [columns |-> [toolset_id |-> "id", service_id |-> "service_id"],
         to |-> "toolset", cascade |-> TRUE]}
  BY DEF Models, McpTool, Table
<1>4. /\ Models["service_artifact"].refs =
           {OfService, Ref("config_revision_id", "service_config_revision")}
      /\ Models["build_run"].refs =
           {OfService, Ref("config_revision_id", "service_config_revision")} \cup
             {Ref(c, "service_artifact") :
                c \in {"source_artifact_id", "output_artifact_id", "log_artifact_id"}}
  BY DEF Models, ServiceArtifact, BuildRun, Table
<1>5. /\ Models["service_condition"].refs = {OfService}
      /\ Models["mcp_task"].refs =
           {OfService, Ref("tool_id", "mcp_tool"), Ref("result_artifact_id", "service_artifact")}
      /\ Models["mcp_service_permission"].refs =
           {OfService, Ref("user_id", "user"), Ref("team_id", "team")}
      /\ Models["api_key"].refs = {OfService, Ref("revoked_by", "user")}
  BY DEF Models, ServiceCondition, McpTask, McpServicePermission, ApiKey, Table
<1> QED BY <1>1, <1>2, <1>3, <1>4, <1>5

LEMMA IdIsKey == \A t \in DOMAIN Models : {"id"} \in Models[t].keys
<1>1. ASSUME NEW k, NEW r, NEW d, NEW c PROVE {"id"} \in Table(k, r, d, c).keys
  BY DEF Table
<1>2. /\ {"id"} \in User.keys /\ {"id"} \in Team.keys /\ {"id"} \in TeamMembership.keys
      /\ {"id"} \in Service.keys /\ {"id"} \in ServiceConfigRevision.keys
  BY <1>1 DEF User, Team, TeamMembership, Service, ServiceConfigRevision
<1>3. /\ {"id"} \in Toolset.keys /\ {"id"} \in McpTool.keys /\ {"id"} \in ServiceArtifact.keys
      /\ {"id"} \in BuildRun.keys /\ {"id"} \in ServiceCondition.keys
  BY <1>1 DEF Toolset, McpTool, ServiceArtifact, BuildRun, ServiceCondition
<1>4. /\ {"id"} \in McpTask.keys /\ {"id"} \in McpServicePermission.keys
      /\ {"id"} \in ApiKey.keys /\ {"id"} \in AuditEvent.keys /\ {"id"} \in Outbox.keys
  BY <1>1 DEF McpTask, McpServicePermission, ApiKey, AuditEvent, Outbox
<1> QED BY <1>2, <1>3, <1>4 DEF Models

\* A foreign key refers to a key of a table that was created before.
LEMMA RefsLeadBack ==
  ASSUME NEW t \in DOMAIN Models, NEW ref \in Models[t].refs
  PROVE  /\ ref.to \in DOMAIN Models
         /\ Place[ref.to] < Place[t]
         /\ Target(ref) \in Models[ref.to].keys
<1> DEFINE Back(r) == /\ r.to \in DOMAIN Models /\ Place[r.to] < Place[t]
                      /\ Target(r) \in Models[r.to].keys
           both == [columns |-> [toolset_id |-> "id", service_id |-> "service_id"],
                    to |-> "toolset", cascade |-> TRUE]
<1>1. ASSUME NEW column, NEW u \in DOMAIN Models, Place[u] < Place[t]
      PROVE  Back(Ref(column, u)) /\ Back(Cascading(Ref(column, u)))
  <2>1. {"id"} \in Models[u].keys
    BY IdIsKey
  <2>2. /\ Ref(column, u).to = u /\ Target(Ref(column, u)) = {"id"}
        /\ Cascading(Ref(column, u)).to = u /\ Target(Cascading(Ref(column, u))) = {"id"}
    BY TargetOfRef
  <2>3. Back(Ref(column, u))
    BY <1>1, <2>1, <2>2
  <2>4. Back(Cascading(Ref(column, u)))
    BY <1>1, <2>1, <2>2
  <2> QED BY <2>3, <2>4
<1>2. Place["mcp_service"] < Place[t] => Back(OfService)
  <2>1. "mcp_service" \in DOMAIN Models
    BY Places DEF AllTables
  <2> QED BY <1>1, <2>1 DEF OfService
<1>3. t = "mcp_tool" => Back(both)
  <2>1. Target(both) = {"id", "service_id"}
    BY DEF Target
  <2>2. {"id", "service_id"} \in Models["toolset"].keys
    BY DEF Models, Toolset, Table
  <2>3. "toolset" \in DOMAIN Models /\ Place["toolset"] < Place["mcp_tool"]
    BY Places DEF AllTables, Place
  <2> QED BY <2>1, <2>2, <2>3
<1> HIDE DEF Back, both
<1>4. Back(ref)
  <2>0. t \in AllTables \ {"bootstrap_lock"}
    BY Places
  <2>1. CASE t \in {"user", "team", "audit_event", "outbox"}
    BY <2>1, RefsOf
  <2>2. CASE t = "team_membership"
    BY <1>1, <2>2, RefsOf, Places DEF AllTables, Place
  <2>3. CASE t = "mcp_service"
    BY <1>1, <2>3, RefsOf, Places DEF AllTables, Place
  <2>4. CASE t \in {"service_config_revision", "service_condition"}
    BY <1>2, <2>4, RefsOf DEF Place
  <2>5. CASE t \in {"toolset", "service_artifact"}
    BY <1>1, <1>2, <2>5, RefsOf, Places DEF AllTables, Place
  <2>6. CASE t = "mcp_tool"
    <3>1. ref \in {Cascading(Ref("toolset_id", "toolset")), OfService, both}
      BY <2>6, RefsOf DEF both
    <3>2. "toolset" \in DOMAIN Models /\ Place["toolset"] < Place[t] /\ Place["mcp_service"] < Place[t]
      BY <2>6, Places DEF AllTables, Place
    <3> QED BY <1>1, <1>2, <1>3, <2>6, <3>1, <3>2
  <2>7. CASE t = "build_run"
    BY <1>1, <1>2, <2>7, RefsOf, Places DEF AllTables, Place
  <2>8. CASE t \in {"mcp_task", "mcp_service_permission", "api_key"}
    BY <1>1, <1>2, <2>8, RefsOf, Places DEF AllTables, Place
  <2> QED BY <2>0, <2>1, <2>2, <2>3, <2>4, <2>5, <2>6, <2>7, <2>8 DEF AllTables
<1> QED BY <1>4 DEF Back

LEMMA DefIs ==
  ASSUME NEW t \in AllTables, NEW checked \in BOOLEAN
  PROVE  /\ t # "bootstrap_lock" => /\ Def(t, checked).keys = Models[t].keys
                                    /\ Def(t, checked).refs = Models[t].refs
         /\ t = "bootstrap_lock" => Def(t, checked).refs = {}
<1>1. CASE t = "bootstrap_lock"
  BY <1>1 DEF Def, BootstrapLock, Table
<1>2. CASE t = "mcp_service" /\ ~checked
  <2> DEFINE def == Models["mcp_service"]
  <2>1. DOMAIN def = {"keys", "refs", "domains", "checks"}
    BY DEF Models, Service, Table
  <2>2. Def(t, checked) = [def EXCEPT !.checks = @ \ {"deleted_scope_consistency"}]
    BY <1>2 DEF Def
  <2> HIDE DEF def
  <2>3. Def(t, checked).keys = def.keys /\ Def(t, checked).refs = def.refs
    BY <2>1, <2>2
  <2> QED BY <1>2, <2>3 DEF def
<1>3. CASE t # "bootstrap_lock" /\ ~(t = "mcp_service" /\ ~checked)
  BY <1>3 DEF Def
<1> QED BY <1>1, <1>2, <1>3

----------------------------------------------------------------------------
(* What the operations do to a database *)

IsDatabase(d) ==
  d \in [tables : {d.tables}, version : 0..Latest, seeded : BOOLEAN, fits : BOOLEAN]

LEMMA DatabaseFields ==
  ASSUME NEW d, IsDatabase(d)
  PROVE  /\ DOMAIN d = {"tables", "version", "seeded", "fits"}
         /\ d.version \in 0..Latest /\ d.seeded \in BOOLEAN /\ d.fits \in BOOLEAN
         /\ d = [tables |-> d.tables, version |-> d.version, seeded |-> d.seeded, fits |-> d.fits]
BY DEF IsDatabase

LEMMA OtherTables ==
  ASSUME NEW d, IsDatabase(d), NEW e, NEW tables, e = [d EXCEPT !.tables = tables]
  PROVE  /\ IsDatabase(e) /\ e.version = d.version /\ e.seeded = d.seeded /\ e.fits = d.fits
         /\ e.tables = tables
<1>1. e = [tables |-> tables, version |-> d.version, seeded |-> d.seeded, fits |-> d.fits]
  BY DatabaseFields
<1>2. IsDatabase(e)
  BY <1>1, DatabaseFields DEF IsDatabase
<1> QED BY <1>1, <1>2

LEMMA AfterCreate ==
  ASSUME NEW d, IsDatabase(d), NEW t, NEW def
  PROVE  LET e == After(d, CreateTable(t, def)) IN
         /\ IsDatabase(e) /\ e.version = d.version /\ e.seeded = d.seeded /\ e.fits = d.fits
         /\ e.tables = [u \in DOMAIN d.tables \cup {t} |-> IF u = t THEN def ELSE d.tables[u]]
<1> DEFINE e == After(d, CreateTable(t, def))
           tables == [u \in DOMAIN d.tables \cup {t} |-> IF u = t THEN def ELSE d.tables[u]]
<1>1. e = [d EXCEPT !.tables = tables]
  BY DEF After, CreateTable
<1> HIDE DEF tables, e
<1>2. e = [tables |-> tables, version |-> d.version, seeded |-> d.seeded, fits |-> d.fits]
  BY <1>1, DatabaseFields
<1>3. IsDatabase(e)
  BY <1>2, DatabaseFields DEF IsDatabase
<1> QED BY <1>2, <1>3 DEF tables, e

LEMMA CreateKeeps ==
  ASSUME NEW d, IsDatabase(d), NEW t, NEW def, NEW e, e = After(d, CreateTable(t, def))
  PROVE  /\ IsDatabase(e) /\ e.version = d.version /\ e.seeded = d.seeded /\ e.fits = d.fits
         /\ DOMAIN e.tables = DOMAIN d.tables \cup {t}
<1> DEFINE tables == [u \in DOMAIN d.tables \cup {t} |-> IF u = t THEN def ELSE d.tables[u]]
<1>1. e = [d EXCEPT !.tables = tables]
  BY DEF After, CreateTable
<1>2. DOMAIN tables = DOMAIN d.tables \cup {t}
  OBVIOUS
<1> HIDE DEF tables
<1> QED BY <1>1, <1>2, OtherTables

LEMMA AfterDrop ==
  ASSUME NEW d, IsDatabase(d), NEW t
  PROVE  LET e == After(d, DropTable(t)) IN
         /\ IsDatabase(e) /\ e.version = d.version
         /\ e.seeded = (d.seeded /\ t # "bootstrap_lock")
         /\ e.fits = (d.fits \/ t = "mcp_service")
         /\ e.tables = [u \in DOMAIN d.tables \ {t} |-> d.tables[u]]
<1> DEFINE e == After(d, DropTable(t))
           tables == [u \in DOMAIN d.tables \ {t} |-> d.tables[u]]
           fits == d.fits \/ t = "mcp_service"
           seeded == d.seeded /\ t # "bootstrap_lock"
<1>1. e = [d EXCEPT !.tables = tables, !.fits = fits, !.seeded = seeded]
  BY DEF After, DropTable
<1>2. fits \in BOOLEAN /\ seeded \in BOOLEAN
  OBVIOUS
<1> HIDE DEF tables, e, fits, seeded
<1>3. e = [tables |-> tables, version |-> d.version, seeded |-> seeded, fits |-> fits]
  BY <1>1, <1>2, DatabaseFields
<1>4. IsDatabase(e)
  BY <1>2, <1>3, DatabaseFields DEF IsDatabase
<1> QED BY <1>3, <1>4 DEF tables, e, fits, seeded

LEMMA AfterCheck ==
  ASSUME NEW d, IsDatabase(d), NEW t, NEW name,
         NEW o \in {AddCheck(t, name), DropCheck(t, name)}
  PROVE  LET e == After(d, o) IN
         /\ IsDatabase(e) /\ e.version = d.version /\ e.seeded = d.seeded /\ e.fits = d.fits
         /\ DOMAIN e.tables = DOMAIN d.tables
<1> DEFINE e == After(d, o)
<1>1. PICK tables : e = [d EXCEPT !.tables = tables] /\ DOMAIN tables = DOMAIN d.tables
  <2>1. CASE o = AddCheck(t, name)
    <3> DEFINE tables == [d.tables EXCEPT ![t].checks = @ \cup {name}]
    <3>1. e = [d EXCEPT !.tables = tables]
      BY <2>1 DEF After, AddCheck
    <3>2. DOMAIN tables = DOMAIN d.tables
      OBVIOUS
    <3> QED BY <3>1, <3>2
  <2>2. CASE o = DropCheck(t, name)
    <3> DEFINE tables == [d.tables EXCEPT ![t].checks = @ \ {name}]
    <3>1. e = [d EXCEPT !.tables = tables]
      BY <2>2 DEF After, DropCheck
    <3>2. DOMAIN tables = DOMAIN d.tables
      OBVIOUS
    <3> QED BY <3>1, <3>2
  <2> QED BY <2>1, <2>2
<1> HIDE DEF e
<1>2. /\ IsDatabase(e) /\ e.version = d.version /\ e.seeded = d.seeded /\ e.fits = d.fits
      /\ e.tables = tables
  BY <1>1, OtherTables
<1> QED BY <1>1, <1>2 DEF e

LEMMA AfterSeed ==
  ASSUME NEW d, IsDatabase(d)
  PROVE  LET e == After(d, Seed) IN
         /\ IsDatabase(e) /\ e.version = d.version /\ e.seeded /\ e.fits = d.fits
         /\ e.tables = d.tables
<1> DEFINE e == After(d, Seed)
<1>1. e = [d EXCEPT !.seeded = TRUE]
  BY DEF After, Seed
<1> HIDE DEF e
<1>2. e = [tables |-> d.tables, version |-> d.version, seeded |-> TRUE, fits |-> d.fits]
  BY <1>1, DatabaseFields
<1>3. IsDatabase(e)
  BY <1>2, DatabaseFields DEF IsDatabase
<1> QED BY <1>2, <1>3 DEF e

----------------------------------------------------------------------------
(* Layouts *)

LEMMA LayoutIs ==
  ASSUME NEW n \in Nat, NEW c \in BOOLEAN, NEW tables, tables = Layout(n, c)
  PROVE  /\ DOMAIN tables \subseteq AllTables
         /\ \A t \in AllTables : t \in DOMAIN tables <=> Place[t] <= n
         /\ \A t \in DOMAIN tables : tables[t] = Def(t, c)
         /\ tables = [t \in DOMAIN tables |-> tables[t]]
BY Places DEF Layout

LEMMA LayoutOf ==
  ASSUME NEW d, NEW n \in Nat, NEW c \in BOOLEAN, d.tables = Layout(n, c)
  PROVE  /\ DOMAIN d.tables \subseteq AllTables
         /\ d.tables = [t \in DOMAIN d.tables |-> d.tables[t]]
         /\ \A t \in AllTables : t \in DOMAIN d.tables <=> Place[t] <= n
         /\ \A t \in DOMAIN d.tables : d.tables[t] = Def(t, c)
<1> DEFINE tables == d.tables
<1> SUFFICES /\ DOMAIN tables \subseteq AllTables
             /\ tables = [t \in DOMAIN tables |-> tables[t]]
             /\ \A t \in AllTables : t \in DOMAIN tables <=> Place[t] <= n
             /\ \A t \in DOMAIN tables : tables[t] = Def(t, c)
  OBVIOUS
<1>1. tables = Layout(n, c)
  OBVIOUS
<1> HIDE DEF tables
<1> QED BY <1>1, LayoutIs

LEMMA IsLayout ==
  ASSUME NEW n \in Nat, NEW c \in BOOLEAN, NEW tables,
         tables = [t \in DOMAIN tables |-> tables[t]],
         DOMAIN tables \subseteq AllTables,
         \A t \in AllTables : t \in DOMAIN tables <=> Place[t] <= n,
         \A t \in DOMAIN tables : tables[t] = Def(t, c)
  PROVE  tables = Layout(n, c)
<1>1. DOMAIN tables = {t \in DOMAIN Place : Place[t] <= n}
  BY Places
<1> QED BY <1>1 DEF Layout

\* The next table can be created.
LEMMA CreateFits ==
  ASSUME NEW d, IsDatabase(d), NEW t \in AllTables, NEW c \in BOOLEAN,
         t = "mcp_service" => ~c, d.tables = Layout(Place[t] - 1, c)
  PROVE  /\ Possible(CreateTable(t, Made(t)), d)
         /\ After(d, CreateTable(t, Made(t))).tables = Layout(Place[t], c)
<1> DEFINE def == Made(t)
           o == CreateTable(t, def)
<1>1. def = Def(t, c)
  BY DEF Made, Def
<1>2. o.op = "create" /\ o.table = t /\ o.def = def
  BY DEF CreateTable
<1>0. Place[t] \in 1..16 /\ Place[t] \in Nat /\ Place[t] - 1 \in Nat
  BY Places
<1>3. /\ DOMAIN d.tables \subseteq AllTables /\ t \notin DOMAIN d.tables
      /\ \A u \in AllTables : u \in DOMAIN d.tables <=> Place[u] <= Place[t] - 1
      /\ \A u \in DOMAIN d.tables : d.tables[u] = Def(u, c)
  <2>1. /\ DOMAIN d.tables \subseteq AllTables
        /\ \A u \in AllTables : u \in DOMAIN d.tables <=> Place[u] <= Place[t] - 1
        /\ \A u \in DOMAIN d.tables : d.tables[u] = Def(u, c)
    BY <1>0, LayoutIs
  <2> QED BY <1>0, <2>1
<1>4. ASSUME NEW ref \in def.refs PROVE Referable(ref, o, d.tables)
  <2>1. t # "bootstrap_lock" /\ ref \in Models[t].refs /\ t \in DOMAIN Models
    BY <1>1, <1>4, DefIs, Places
  <2>2. ref.to \in DOMAIN Models /\ Place[ref.to] < Place[t] /\ Target(ref) \in Models[ref.to].keys
    BY <2>1, RefsLeadBack
  <2>3. ref.to \in DOMAIN d.tables /\ ref.to # t
    BY <1>0, <1>3, <2>2, Places
  <2>4. d.tables[ref.to] = Def(ref.to, c)
    BY <1>3, <2>3
  <2>5. Def(ref.to, c).keys = Models[ref.to].keys
    BY <2>2, Places, DefIs
  <2> QED BY <1>2, <2>2, <2>3, <2>4, <2>5 DEF Referable, Target
<1>5. Possible(o, d)
  BY <1>2, <1>3, <1>4 DEF Possible
<1>6. After(d, o).tables = Layout(Place[t], c)
  <2> DEFINE tables == After(d, o).tables
  <2> HIDE DEF def
  <2>1. tables = [u \in DOMAIN d.tables \cup {t} |-> IF u = t THEN def ELSE d.tables[u]]
    BY AfterCreate
  <2> HIDE DEF tables
  <2>2. /\ DOMAIN tables = DOMAIN d.tables \cup {t} /\ tables = [u \in DOMAIN tables |-> tables[u]]
        /\ \A u \in DOMAIN tables : tables[u] = Def(u, c)
    BY <1>1, <1>3, <2>1
  <2>3. DOMAIN tables \subseteq AllTables
        /\ \A u \in AllTables : u \in DOMAIN tables <=> Place[u] <= Place[t]
    BY <1>0, <1>3, <2>2, Places
  <2>4. tables = Layout(Place[t], c)
    BY <1>0, <2>2, <2>3, IsLayout
  <2> QED BY <2>4 DEF tables
<1> QED BY <1>5, <1>6

\* The last table can be dropped.
LEMMA DropFits ==
  ASSUME NEW d, IsDatabase(d), NEW t \in AllTables, NEW c \in BOOLEAN,
         d.tables = Layout(Place[t], c)
  PROVE  /\ Possible(DropTable(t), d)
         /\ After(d, DropTable(t)).tables = Layout(Place[t] - 1, c)
<1> DEFINE o == DropTable(t)
<1>1. o.op = "drop" /\ o.table = t
  BY DEF DropTable
<1>0. Place[t] \in 1..16 /\ Place[t] \in Nat /\ Place[t] - 1 \in Nat
  BY Places
<1>2. /\ DOMAIN d.tables \subseteq AllTables /\ t \in DOMAIN d.tables
      /\ \A u \in AllTables : u \in DOMAIN d.tables <=> Place[u] <= Place[t]
      /\ \A u \in DOMAIN d.tables : d.tables[u] = Def(u, c)
  <2>1. /\ DOMAIN d.tables \subseteq AllTables
        /\ \A u \in AllTables : u \in DOMAIN d.tables <=> Place[u] <= Place[t]
        /\ \A u \in DOMAIN d.tables : d.tables[u] = Def(u, c)
    BY <1>0, LayoutIs
  <2> QED BY <1>0, <2>1
<1>3. ASSUME NEW u \in DOMAIN d.tables \ {t}, NEW ref \in d.tables[u].refs PROVE ref.to # t
  <2>1. u \in DOMAIN Models /\ ref \in Models[u].refs
    BY <1>2, <1>3, DefIs, Places
  <2>2. Place[ref.to] < Place[u] /\ Place[u] <= Place[t] /\ ref.to \in AllTables
    BY <1>2, <2>1, RefsLeadBack, Places
  <2> QED BY <1>2, <2>2, Places
<1>4. Possible(o, d)
  BY <1>1, <1>2, <1>3 DEF Possible
<1>5. After(d, o).tables = Layout(Place[t] - 1, c)
  <2> DEFINE tables == After(d, o).tables
  <2>1. tables = [u \in DOMAIN d.tables \ {t} |-> d.tables[u]]
    BY AfterDrop
  <2> HIDE DEF tables
  <2>2. /\ DOMAIN tables = DOMAIN d.tables \ {t} /\ tables = [u \in DOMAIN tables |-> tables[u]]
        /\ \A u \in DOMAIN tables : tables[u] = Def(u, c)
    BY <1>2, <2>1
  <2>3. DOMAIN tables \subseteq AllTables
        /\ \A u \in AllTables : u \in DOMAIN tables <=> Place[u] <= Place[t] - 1
    BY <1>0, <1>2, <2>2, Places
  <2>4. tables = Layout(Place[t] - 1, c)
    BY <1>0, <2>2, <2>3, IsLayout
  <2> QED BY <2>4 DEF tables
<1> QED BY <1>4, <1>5

CheckAdded == AddCheck("mcp_service", "deleted_scope_consistency")
CheckDropped == DropCheck("mcp_service", "deleted_scope_consistency")

\* The check of mcp_service is added to a table without it, and taken from one with it.
LEMMA ChecksFit ==
  ASSUME NEW d, IsDatabase(d), NEW n \in Nat, n >= 4,
         NEW with \in BOOLEAN, with, NEW without \in BOOLEAN, ~without
  PROVE  /\ d.tables = Layout(n, without) =>
              /\ d.fits => Possible(CheckAdded, d)
              /\ After(d, CheckAdded).tables = Layout(n, with)
         /\ d.tables = Layout(n, with) =>
              /\ Possible(CheckDropped, d)
              /\ After(d, CheckDropped).tables = Layout(n, without)
<1> DEFINE name == "deleted_scope_consistency"
           add == AddCheck("mcp_service", name)
           drop == DropCheck("mcp_service", name)
           full == Models["mcp_service"]
           short == Def("mcp_service", without)
<1>1. Place["mcp_service"] = 4 /\ "mcp_service" \in AllTables
  BY DEF Place, AllTables
<1>2. /\ DOMAIN full = {"keys", "refs", "domains", "checks"}
      /\ full = [keys |-> full.keys, refs |-> full.refs, domains |-> full.domains,
                 checks |-> full.checks]
      /\ name \in full.checks
  BY DEF Models, Service, Table
<1>3. Def("mcp_service", with) = full /\ short = [full EXCEPT !.checks = @ \ {name}]
  BY DEF Def
<1>4. \A t \in AllTables \ {"mcp_service"} : Def(t, with) = Def(t, without)
  BY DEF Def
<1>5. ASSUME d.tables = Layout(n, without)
      PROVE  (d.fits => Possible(add, d)) /\ After(d, add).tables = Layout(n, with)
  <2>1. /\ DOMAIN d.tables \subseteq AllTables /\ d.tables = [t \in DOMAIN d.tables |-> d.tables[t]]
        /\ \A t \in AllTables : t \in DOMAIN d.tables <=> Place[t] <= n
        /\ \A t \in DOMAIN d.tables : d.tables[t] = Def(t, without)
        /\ "mcp_service" \in DOMAIN d.tables
    <3> HIDE DEF short
    <3>1. /\ DOMAIN d.tables \subseteq AllTables /\ d.tables = [t \in DOMAIN d.tables |-> d.tables[t]]
          /\ \A t \in AllTables : t \in DOMAIN d.tables <=> Place[t] <= n
          /\ \A t \in DOMAIN d.tables : d.tables[t] = Def(t, without)
      BY <1>5, LayoutOf
    <3> QED BY <1>1, <3>1
  <2>2. d.fits => Possible(add, d)
    BY <2>1 DEF Possible, AddCheck
  <2>3. After(d, add).tables = [d.tables EXCEPT !["mcp_service"].checks = @ \cup {name}]
    <3> DEFINE tables == [d.tables EXCEPT !["mcp_service"].checks = @ \cup {name}]
    <3>1. After(d, add) = [d EXCEPT !.tables = tables]
      BY DEF After, AddCheck
    <3> HIDE DEF tables
    <3>2. After(d, add).tables = tables
      BY <3>1, OtherTables
    <3> QED BY <3>2 DEF tables
  <2>4. [short EXCEPT !.checks = @ \cup {name}] = full
    <3> HIDE DEF full, short
    <3>1. short = [keys |-> full.keys, refs |-> full.refs, domains |-> full.domains,
                   checks |-> full.checks \ {name}]
      BY <1>2, <1>3
    <3>2. (full.checks \ {name}) \cup {name} = full.checks
      BY <1>2
    <3>3. [short EXCEPT !.checks = @ \cup {name}]
            = [keys |-> full.keys, refs |-> full.refs, domains |-> full.domains,
               checks |-> full.checks]
      BY <3>1, <3>2
    <3> QED BY <1>2, <3>3
  <2> HIDE DEF full, short
  <2>5. [d.tables EXCEPT !["mcp_service"].checks = @ \cup {name}]
          = [d.tables EXCEPT !["mcp_service"] = full]
    BY <2>1, <2>4 DEF short
  <2>6. [d.tables EXCEPT !["mcp_service"] = full] = Layout(n, with)
    <3> DEFINE tables == [d.tables EXCEPT !["mcp_service"] = full]
    <3>1. /\ DOMAIN tables = DOMAIN d.tables /\ tables = [t \in DOMAIN tables |-> tables[t]]
          /\ \A t \in DOMAIN tables : tables[t] = Def(t, with)
      BY <1>3, <1>4, <2>1
    <3> HIDE DEF tables
    <3>2. tables = Layout(n, with)
      BY <2>1, <3>1, IsLayout
    <3> QED BY <3>2 DEF tables
  <2> QED BY <2>2, <2>3, <2>5, <2>6
<1>6. ASSUME d.tables = Layout(n, with)
      PROVE  Possible(drop, d) /\ After(d, drop).tables = Layout(n, without)
  <2>1. /\ DOMAIN d.tables \subseteq AllTables /\ d.tables = [t \in DOMAIN d.tables |-> d.tables[t]]
        /\ \A t \in AllTables : t \in DOMAIN d.tables <=> Place[t] <= n
        /\ \A t \in DOMAIN d.tables : d.tables[t] = Def(t, with)
        /\ "mcp_service" \in DOMAIN d.tables
    <3> HIDE DEF short
    <3>1. /\ DOMAIN d.tables \subseteq AllTables /\ d.tables = [t \in DOMAIN d.tables |-> d.tables[t]]
          /\ \A t \in AllTables : t \in DOMAIN d.tables <=> Place[t] <= n
          /\ \A t \in DOMAIN d.tables : d.tables[t] = Def(t, with)
      BY <1>6, LayoutOf
    <3> QED BY <1>1, <3>1
  <2>2. Possible(drop, d)
    BY <1>2, <1>3, <2>1 DEF Possible, DropCheck
  <2>3. After(d, drop).tables = [d.tables EXCEPT !["mcp_service"].checks = @ \ {name}]
    <3> DEFINE tables == [d.tables EXCEPT !["mcp_service"].checks = @ \ {name}]
    <3>1. After(d, drop) = [d EXCEPT !.tables = tables]
      BY DEF After, DropCheck
    <3> HIDE DEF tables
    <3>2. After(d, drop).tables = tables
      BY <3>1, OtherTables
    <3> QED BY <3>2 DEF tables
  <2> HIDE DEF full, short
  <2>5. [d.tables EXCEPT !["mcp_service"].checks = @ \ {name}]
          = [d.tables EXCEPT !["mcp_service"] = short]
    BY <1>3, <2>1
  <2>6. [d.tables EXCEPT !["mcp_service"] = short] = Layout(n, without)
    <3> DEFINE tables == [d.tables EXCEPT !["mcp_service"] = short]
    <3>1. /\ DOMAIN tables = DOMAIN d.tables /\ tables = [t \in DOMAIN tables |-> tables[t]]
          /\ \A t \in DOMAIN tables : tables[t] = Def(t, without)
      BY <1>4, <2>1 DEF short
    <3> HIDE DEF tables
    <3>2. tables = Layout(n, without)
      BY <2>1, <3>1, IsLayout
    <3> QED BY <3>2 DEF tables
  <2> QED BY <2>2, <2>3, <2>5, <2>6
<1> QED BY <1>5, <1>6 DEF CheckAdded, CheckDropped

----------------------------------------------------------------------------
(* The script of each revision, forward and back *)

Up(v) == Revisions[v + 1].up
Down(v) == Revisions[v].down

LEMMA UpIs ==
  /\ Up(0) = M1Db003.up
  /\ Up(1) = M1Model001.up
  /\ Up(2) = M1Model002.up
  /\ Up(3) = M1Model003.up
  /\ Up(4) = M1Model004.up
  /\ Up(5) = M1Model005.up
  /\ Up(6) = M1Model006.up
  /\ Up(7) = M1Model007.up
  /\ Up(8) = M1Model008.up
  /\ Up(9) = M1Delete001.up
  /\ Up(10) = M2Auth001.up
BY RevisionsAre DEF Up

LEMMA UpLengths ==
  /\ Len(Up(0)) = 0 /\ Len(Up(1)) = 3 /\ Len(Up(2)) = 1 /\ Len(Up(3)) = 1 /\ Len(Up(4)) = 2
  /\ Len(Up(5)) = 2 /\ Len(Up(6)) = 2 /\ Len(Up(7)) = 2 /\ Len(Up(8)) = 2 /\ Len(Up(9)) = 1
  /\ Len(Up(10)) = 2
<1>1. Len(Up(0)) = 0 /\ Len(Up(9)) = 1
  BY UpIs DEF M1Db003, M1Delete001
<1>2. /\ Len(Up(1)) = 3 /\ Len(Up(2)) = 1 /\ Len(Up(3)) = 1 /\ Len(Up(4)) = 2
  BY UpIs, Script2, Script3, Script4, Script5
<1>3. Len(Up(5)) = 2 /\ Len(Up(6)) = 2 /\ Len(Up(7)) = 2 /\ Len(Up(8)) = 2 /\ Len(Up(10)) = 2
  BY UpIs, Script6, Script7, Script8, Script9, Script11
<1> QED BY <1>1, <1>2, <1>3

LEMMA DownIs ==
  /\ Down(1) = M1Db003.down
  /\ Down(2) = M1Model001.down
  /\ Down(3) = M1Model002.down
  /\ Down(4) = M1Model003.down
  /\ Down(5) = M1Model004.down
  /\ Down(6) = M1Model005.down
  /\ Down(7) = M1Model006.down
  /\ Down(8) = M1Model007.down
  /\ Down(9) = M1Model008.down
  /\ Down(10) = M1Delete001.down
  /\ Down(11) = M2Auth001.down
BY RevisionsAre DEF Down

LEMMA DownLengths ==
  /\ Len(Down(1)) = 0 /\ Len(Down(2)) = 3 /\ Len(Down(3)) = 1 /\ Len(Down(4)) = 1
  /\ Len(Down(5)) = 2 /\ Len(Down(6)) = 2 /\ Len(Down(7)) = 2 /\ Len(Down(8)) = 2
  /\ Len(Down(9)) = 2 /\ Len(Down(10)) = 1 /\ Len(Down(11)) = 1
<1>1. Len(Down(1)) = 0 /\ Len(Down(10)) = 1
  BY RevisionsAre DEF Down, M1Db003, M1Delete001
<1>2. /\ Len(Down(2)) = 3 /\ Len(Down(3)) = 1 /\ Len(Down(4)) = 1 /\ Len(Down(5)) = 2
  BY DownIs, Script2, Script3, Script4, Script5
<1>3. /\ Len(Down(6)) = 2 /\ Len(Down(7)) = 2 /\ Len(Down(8)) = 2 /\ Len(Down(9)) = 2
      /\ Len(Down(11)) = 1
  BY DownIs, Script6, Script7, Script8, Script9, Script11
<1> QED BY <1>1, <1>2, <1>3

\* An upgrade creates the tables in their order, and a downgrade drops them in the
\* opposite one.
Creates(o, n) == \E t \in AllTables : Place[t] = n /\ o = CreateTable(t, Made(t))
Drops(o, n) == \E t \in AllTables : Place[t] = n /\ o = DropTable(t)

LEMMA CreatesPlaced ==
  ASSUME NEW t \in AllTables, NEW o
  PROVE  /\ o = CreateTable(t, Made(t)) => Creates(o, Place[t])
         /\ o = DropTable(t) => Drops(o, Place[t])
BY DEF Creates, Drops

LEMMA PlaceIs ==
  /\ Place["user"] = 1 /\ "user" \in AllTables
  /\ Place["team"] = 2 /\ "team" \in AllTables
  /\ Place["team_membership"] = 3 /\ "team_membership" \in AllTables
  /\ Place["mcp_service"] = 4 /\ "mcp_service" \in AllTables
  /\ Place["service_config_revision"] = 5 /\ "service_config_revision" \in AllTables
  /\ Place["toolset"] = 6 /\ "toolset" \in AllTables
  /\ Place["mcp_tool"] = 7 /\ "mcp_tool" \in AllTables
  /\ Place["service_artifact"] = 8 /\ "service_artifact" \in AllTables
  /\ Place["build_run"] = 9 /\ "build_run" \in AllTables
  /\ Place["service_condition"] = 10 /\ "service_condition" \in AllTables
  /\ Place["mcp_task"] = 11 /\ "mcp_task" \in AllTables
  /\ Place["mcp_service_permission"] = 12 /\ "mcp_service_permission" \in AllTables
  /\ Place["api_key"] = 13 /\ "api_key" \in AllTables
  /\ Place["audit_event"] = 14 /\ "audit_event" \in AllTables
  /\ Place["outbox"] = 15 /\ "outbox" \in AllTables
  /\ Place["bootstrap_lock"] = 16 /\ "bootstrap_lock" \in AllTables
BY DEF Place, AllTables

LEMMA UpCreates ==
  /\ Creates(Up(1)[1], 1) /\ Creates(Up(1)[2], 2) /\ Creates(Up(1)[3], 3)
  /\ Creates(Up(2)[1], 4)
  /\ Creates(Up(3)[1], 5)
  /\ Creates(Up(4)[1], 6) /\ Creates(Up(4)[2], 7)
  /\ Creates(Up(5)[1], 8) /\ Creates(Up(5)[2], 9)
  /\ Creates(Up(6)[1], 10) /\ Creates(Up(6)[2], 11)
  /\ Creates(Up(7)[1], 12) /\ Creates(Up(7)[2], 13)
  /\ Creates(Up(8)[1], 14) /\ Creates(Up(8)[2], 15)
  /\ Creates(Up(10)[1], 16)
  /\ Up(9)[1] = CheckAdded /\ Up(10)[2] = Seed
<1>1. /\ Up(1)[1] = CreateTable("user", Made("user"))
      /\ Up(1)[2] = CreateTable("team", Made("team"))
      /\ Up(1)[3] = CreateTable("team_membership", Made("team_membership"))
  BY UpIs, Script2
<1>2. Up(2)[1] = CreateTable("mcp_service", Made("mcp_service"))
  BY UpIs, Script3
<1>3. Up(3)[1] = CreateTable("service_config_revision", Made("service_config_revision"))
  BY UpIs, Script4
<1>4. /\ Up(4)[1] = CreateTable("toolset", Made("toolset"))
      /\ Up(4)[2] = CreateTable("mcp_tool", Made("mcp_tool"))
  BY UpIs, Script5
<1>5. /\ Up(5)[1] = CreateTable("service_artifact", Made("service_artifact"))
      /\ Up(5)[2] = CreateTable("build_run", Made("build_run"))
  BY UpIs, Script6
<1>6. /\ Up(6)[1] = CreateTable("service_condition", Made("service_condition"))
      /\ Up(6)[2] = CreateTable("mcp_task", Made("mcp_task"))
  BY UpIs, Script7
<1>7. /\ Up(7)[1] = CreateTable("mcp_service_permission", Made("mcp_service_permission"))
      /\ Up(7)[2] = CreateTable("api_key", Made("api_key"))
  BY UpIs, Script8
<1>8. /\ Up(8)[1] = CreateTable("audit_event", Made("audit_event"))
      /\ Up(8)[2] = CreateTable("outbox", Made("outbox"))
  BY UpIs, Script9
<1>9. /\ Up(10)[1] = CreateTable("bootstrap_lock", Made("bootstrap_lock"))
      /\ Up(10)[2] = Seed
  BY UpIs, Script11
<1>10. Up(9)[1] = CheckAdded
  BY UpIs DEF M1Delete001, CheckAdded
<1> QED BY PlaceIs, CreatesPlaced, <1>1, <1>2, <1>3, <1>4, <1>5, <1>6, <1>7, <1>8, <1>9, <1>10

LEMMA DownDrops ==
  /\ Drops(Down(2)[1], 3) /\ Drops(Down(2)[2], 2) /\ Drops(Down(2)[3], 1)
  /\ Drops(Down(3)[1], 4)
  /\ Drops(Down(4)[1], 5)
  /\ Drops(Down(5)[1], 7) /\ Drops(Down(5)[2], 6)
  /\ Drops(Down(6)[1], 9) /\ Drops(Down(6)[2], 8)
  /\ Drops(Down(7)[1], 11) /\ Drops(Down(7)[2], 10)
  /\ Drops(Down(8)[1], 13) /\ Drops(Down(8)[2], 12)
  /\ Drops(Down(9)[1], 15) /\ Drops(Down(9)[2], 14)
  /\ Drops(Down(11)[1], 16)
  /\ Down(10)[1] = CheckDropped
<1>1. /\ Down(2)[1] = DropTable("team_membership")
      /\ Down(2)[2] = DropTable("team")
      /\ Down(2)[3] = DropTable("user")
  BY DownIs, Script2
<1>2. Down(3)[1] = DropTable("mcp_service")
  BY DownIs, Script3
<1>3. Down(4)[1] = DropTable("service_config_revision")
  BY DownIs, Script4
<1>4. /\ Down(5)[1] = DropTable("mcp_tool")
      /\ Down(5)[2] = DropTable("toolset")
  BY DownIs, Script5
<1>5. /\ Down(6)[1] = DropTable("build_run")
      /\ Down(6)[2] = DropTable("service_artifact")
  BY DownIs, Script6
<1>6. /\ Down(7)[1] = DropTable("mcp_task")
      /\ Down(7)[2] = DropTable("service_condition")
  BY DownIs, Script7
<1>7. /\ Down(8)[1] = DropTable("api_key")
      /\ Down(8)[2] = DropTable("mcp_service_permission")
  BY DownIs, Script8
<1>8. /\ Down(9)[1] = DropTable("outbox")
      /\ Down(9)[2] = DropTable("audit_event")
  BY DownIs, Script9
<1>9. Down(11)[1] = DropTable("bootstrap_lock")
  BY DownIs, Script11
<1>10. Down(10)[1] = CheckDropped
  BY DownIs DEF M1Delete001, CheckDropped
<1> QED BY PlaceIs, CreatesPlaced, <1>1, <1>2, <1>3, <1>4, <1>5, <1>6, <1>7, <1>8, <1>9, <1>10

LEMMA UpScript ==
  ASSUME NEW v \in 0..10, NEW k \in Nat \ {0}, k <= Len(Up(v))
  PROVE  /\ v \notin {9, 10} => /\ Creates(Up(v)[k], CountAt(v) + k)
                               /\ CountAt(v) + k <= CountAt(v + 1)
         /\ v = 9 => Up(v)[k] = CheckAdded /\ k = 1
         /\ v = 10 /\ k = 1 => Creates(Up(v)[k], 16)
         /\ v = 10 /\ k # 1 => Up(v)[k] = Seed /\ k = 2
<1>1. CASE v = 0
  <2>1. k <= 0
    BY <1>1, UpLengths
  <2> QED BY <1>1, <2>1, UpCreates, Counts
<1>2. CASE v = 1
  <2>1. k <= 3
    BY <1>2, UpLengths
  <2>2. CASE k = 1
    BY <1>2, <2>2, UpCreates, Counts
  <2>3. CASE k = 2
    BY <1>2, <2>3, UpCreates, Counts
  <2>4. CASE k = 3
    BY <1>2, <2>4, UpCreates, Counts
  <2> QED BY <2>1, <2>2, <2>3, <2>4
<1>3. CASE v = 2
  <2>1. k <= 1
    BY <1>3, UpLengths
  <2> QED BY <1>3, <2>1, UpCreates, Counts
<1>4. CASE v = 3
  <2>1. k <= 1
    BY <1>4, UpLengths
  <2> QED BY <1>4, <2>1, UpCreates, Counts
<1>5. CASE v = 4
  <2>1. k <= 2
    BY <1>5, UpLengths
  <2>2. CASE k = 1
    BY <1>5, <2>2, UpCreates, Counts
  <2>3. CASE k = 2
    BY <1>5, <2>3, UpCreates, Counts
  <2> QED BY <2>1, <2>2, <2>3
<1>6. CASE v = 5
  <2>1. k <= 2
    BY <1>6, UpLengths
  <2>2. CASE k = 1
    BY <1>6, <2>2, UpCreates, Counts
  <2>3. CASE k = 2
    BY <1>6, <2>3, UpCreates, Counts
  <2> QED BY <2>1, <2>2, <2>3
<1>7. CASE v = 6
  <2>1. k <= 2
    BY <1>7, UpLengths
  <2>2. CASE k = 1
    BY <1>7, <2>2, UpCreates, Counts
  <2>3. CASE k = 2
    BY <1>7, <2>3, UpCreates, Counts
  <2> QED BY <2>1, <2>2, <2>3
<1>8. CASE v = 7
  <2>1. k <= 2
    BY <1>8, UpLengths
  <2>2. CASE k = 1
    BY <1>8, <2>2, UpCreates, Counts
  <2>3. CASE k = 2
    BY <1>8, <2>3, UpCreates, Counts
  <2> QED BY <2>1, <2>2, <2>3
<1>9. CASE v = 8
  <2>1. k <= 2
    BY <1>9, UpLengths
  <2>2. CASE k = 1
    BY <1>9, <2>2, UpCreates, Counts
  <2>3. CASE k = 2
    BY <1>9, <2>3, UpCreates, Counts
  <2> QED BY <2>1, <2>2, <2>3
<1>10. CASE v = 9
  <2>1. k <= 1
    BY <1>10, UpLengths
  <2> QED BY <1>10, <2>1, UpCreates, Counts
<1>11. CASE v = 10
  <2>1. k <= 2
    BY <1>11, UpLengths
  <2>2. CASE k = 1
    BY <1>11, <2>2, UpCreates, Counts
  <2>3. CASE k = 2
    BY <1>11, <2>3, UpCreates, Counts
  <2> QED BY <2>1, <2>2, <2>3
<1> QED BY <1>1, <1>2, <1>3, <1>4, <1>5, <1>6, <1>7, <1>8, <1>9, <1>10, <1>11

LEMMA DownScript ==
  ASSUME NEW v \in 1..11, NEW k \in Nat \ {0}, k <= Len(Down(v))
  PROVE  /\ v # 10 => /\ Drops(Down(v)[k], CountAt(v) - (k - 1))
                      /\ CountAt(v) - k >= CountAt(v - 1)
         /\ v = 10 => Down(v)[k] = CheckDropped /\ k = 1
<1>1. CASE v = 1
  <2>1. k <= 0
    BY <1>1, DownLengths
  <2> QED BY <1>1, <2>1, DownDrops, Counts
<1>2. CASE v = 2
  <2>1. k <= 3
    BY <1>2, DownLengths
  <2>2. CASE k = 1
    BY <1>2, <2>2, DownDrops, Counts
  <2>3. CASE k = 2
    BY <1>2, <2>3, DownDrops, Counts
  <2>4. CASE k = 3
    BY <1>2, <2>4, DownDrops, Counts
  <2> QED BY <2>1, <2>2, <2>3, <2>4
<1>3. CASE v = 3
  <2>1. k <= 1
    BY <1>3, DownLengths
  <2> QED BY <1>3, <2>1, DownDrops, Counts
<1>4. CASE v = 4
  <2>1. k <= 1
    BY <1>4, DownLengths
  <2> QED BY <1>4, <2>1, DownDrops, Counts
<1>5. CASE v = 5
  <2>1. k <= 2
    BY <1>5, DownLengths
  <2>2. CASE k = 1
    BY <1>5, <2>2, DownDrops, Counts
  <2>3. CASE k = 2
    BY <1>5, <2>3, DownDrops, Counts
  <2> QED BY <2>1, <2>2, <2>3
<1>6. CASE v = 6
  <2>1. k <= 2
    BY <1>6, DownLengths
  <2>2. CASE k = 1
    BY <1>6, <2>2, DownDrops, Counts
  <2>3. CASE k = 2
    BY <1>6, <2>3, DownDrops, Counts
  <2> QED BY <2>1, <2>2, <2>3
<1>7. CASE v = 7
  <2>1. k <= 2
    BY <1>7, DownLengths
  <2>2. CASE k = 1
    BY <1>7, <2>2, DownDrops, Counts
  <2>3. CASE k = 2
    BY <1>7, <2>3, DownDrops, Counts
  <2> QED BY <2>1, <2>2, <2>3
<1>8. CASE v = 8
  <2>1. k <= 2
    BY <1>8, DownLengths
  <2>2. CASE k = 1
    BY <1>8, <2>2, DownDrops, Counts
  <2>3. CASE k = 2
    BY <1>8, <2>3, DownDrops, Counts
  <2> QED BY <2>1, <2>2, <2>3
<1>9. CASE v = 9
  <2>1. k <= 2
    BY <1>9, DownLengths
  <2>2. CASE k = 1
    BY <1>9, <2>2, DownDrops, Counts
  <2>3. CASE k = 2
    BY <1>9, <2>3, DownDrops, Counts
  <2> QED BY <2>1, <2>2, <2>3
<1>10. CASE v = 10
  <2>1. k <= 1
    BY <1>10, DownLengths
  <2> QED BY <1>10, <2>1, DownDrops, Counts
<1>11. CASE v = 11
  <2>1. k <= 1
    BY <1>11, DownLengths
  <2> QED BY <1>11, <2>1, DownDrops, Counts
<1> QED BY <1>1, <1>2, <1>3, <1>4, <1>5, <1>6, <1>7, <1>8, <1>9, <1>10, <1>11

----------------------------------------------------------------------------
(* Each operation of a revision finds the layout it needs *)

LEMMA Fractions ==
  ASSUME NEW version \in 0..11, NEW done \in Nat
  PROVE  /\ CountAt(version) \in Nat
         /\ \A to \in {"up", "down", "done", "failed"} : Count(version, to, 0) = CountAt(version)
         /\ version \notin {9, 10} => Count(version, "up", done) = CountAt(version) + done
         /\ version = 9 => Count(version, "up", done) = 15
         /\ version = 10 => Count(version, "up", done) = IF done = 0 THEN 15 ELSE 16
         /\ version # 10 => Count(version, "down", done) = CountAt(version) - done
         /\ version = 10 => Count(version, "down", done) = 15
<1>1. CountAt(version) \in 0..16
  BY Counts
<1>2. /\ version \notin {9, 10} => Count(version, "up", done) = CountAt(version) + done
      /\ version = 9 => Count(version, "up", done) = 15
      /\ version = 10 => Count(version, "up", done) = IF done = 0 THEN 15 ELSE 16
  BY <1>1, Counts DEF Count
<1>3. /\ version # 10 => Count(version, "down", done) = CountAt(version) - done
      /\ version = 10 => Count(version, "down", done) = 15
  BY <1>1, Counts DEF Count
<1>4. ASSUME NEW to \in {"up", "down", "done", "failed"}
      PROVE  Count(version, to, 0) = CountAt(version)
  BY <1>1, Counts DEF Count
<1> QED BY <1>1, <1>2, <1>3, <1>4

LEMMA ChecksOf ==
  ASSUME NEW version \in 0..11, NEW done \in Nat
  PROVE  /\ \A to \in {"up", "down", "done", "failed"} :
              Checked(version, to, 0) <=> version \in {10, 11}
         /\ version \notin {9, 10} => (Checked(version, "up", done) <=> version = 11)
         /\ version = 9 => (Checked(version, "up", done) <=> done = 1)
         /\ version = 10 => Checked(version, "up", done)
         /\ version # 10 => (Checked(version, "down", done) <=> version = 11)
         /\ version = 10 => (Checked(version, "down", done) <=> done # 1)
BY DEF Checked

LEMMA SameChecks ==
  ASSUME NEW a, NEW b, NEW c, NEW x, NEW y, NEW z
  PROVE  /\ Checked(a, b, c) \in BOOLEAN
         /\ (Checked(a, b, c) <=> Checked(x, y, z)) => Checked(a, b, c) = Checked(x, y, z)
         /\ Checked(a, b, c) => Checked(a, b, c) = TRUE
         /\ ~Checked(a, b, c) => Checked(a, b, c) = FALSE
BY DEF Checked

LEMMA UpFits ==
  ASSUME NEW d, IsDatabase(d), d.version < 11, NEW done \in Nat,
         done < Len(Up(d.version)), HasLayout(d, "up", done)
  PROVE  LET o == Up(d.version)[done + 1] IN
         (d.fits \/ o.op # "check" => Possible(o, d)) /\ HasLayout(After(d, o), "up", done + 1)
<1> DEFINE v == d.version
           o == Up(v)[done + 1]
           e == After(d, o)
           n == Count(v, "up", done)
           c == Checked(v, "up", done)
<1>1. v \in 0..10 /\ v \in 0..11
  BY DatabaseFields, LatestIs11
<1>2. done + 1 \in Nat /\ done + 1 \in Nat \ {0} /\ done + 1 <= Len(Up(v))
  <2>1. Len(Up(v)) \in Nat
    BY <1>1, UpLengths
  <2> QED BY <2>1
<1>3. d.tables = Layout(n, c)
  BY DEF HasLayout
<1>4. c \in BOOLEAN
  BY SameChecks
<1>5. CASE v \notin {9, 10} \/ (v = 10 /\ done = 0)
  <2>1. Creates(o, n + 1) /\ n \in Nat
    <3>1. CASE v \notin {9, 10}
      <4>1. n = CountAt(v) + done /\ CountAt(v) \in Nat
        BY <1>1, <3>1, Fractions
      <4>2. n + 1 = CountAt(v) + (done + 1)
        BY <4>1
      <4>3. Creates(o, CountAt(v) + (done + 1))
        BY <1>1, <1>2, <3>1, UpScript
      <4> QED BY <4>1, <4>2, <4>3
    <3>2. CASE v = 10 /\ done = 0
      <4>1. n = 15
        BY <1>1, <3>2, Fractions
      <4>2. Creates(o, 16)
        BY <1>1, <1>2, <3>2, UpScript
      <4> QED BY <4>1, <4>2
    <3> QED BY <1>5, <3>1, <3>2
  <2>2. PICK t \in AllTables : Place[t] = n + 1 /\ o = CreateTable(t, Made(t))
    BY <2>1 DEF Creates
  <2>3. n = Place[t] - 1
    BY <2>1, <2>2
  <2>4. t = "mcp_service" => ~c
    <3>1. CASE v = 10
      <4>1. n \in {15, 16}
        BY <1>1, <3>1, Fractions
      <4> QED BY <2>2, <4>1, PlaceIs
    <3>2. CASE v # 10 /\ c
      BY <1>1, <1>5, <3>2, ChecksOf
    <3> QED BY <3>1, <3>2
  <2>5. d.tables = Layout(Place[t] - 1, c)
    BY <1>3, <2>3
  <2>6. Possible(o, d) /\ e.tables = Layout(n + 1, c)
    BY <1>4, <2>2, <2>4, <2>5, CreateFits
  <2>7. e.version = v
    <3>1. e = After(d, CreateTable(t, Made(t)))
      BY <2>2
    <3> HIDE DEF e
    <3> QED BY <3>1, CreateKeeps
  <2>8. Count(v, "up", done + 1) = n + 1
    <3>1. CASE v \notin {9, 10}
      <4>1. n = CountAt(v) + done /\ CountAt(v) \in Nat
        BY <1>1, <3>1, Fractions
      <4>2. Count(v, "up", done + 1) = CountAt(v) + (done + 1)
        BY <1>1, <1>2, <3>1, Fractions
      <4> QED BY <4>1, <4>2
    <3>2. CASE v = 10 /\ done = 0
      BY <1>1, <1>2, <3>2, Fractions
    <3> QED BY <1>5, <3>1, <3>2
  <2>9. Checked(v, "up", done + 1) = c
    <3>1. Checked(v, "up", done + 1) <=> c
      BY <1>1, <1>2, <1>5, ChecksOf
    <3> QED BY <3>1 DEF Checked
  <2> QED BY <2>6, <2>7, <2>8, <2>9 DEF HasLayout
<1>6. CASE v = 9
  <2> DEFINE m == Count(v, "up", done + 1)
             cc == Checked(v, "up", done + 1)
  <2>1. o = CheckAdded /\ done = 0
    BY <1>1, <1>2, <1>6, UpScript
  <2>2. n = 15 /\ m = 15
    BY <1>1, <1>2, <1>6, Fractions
  <2>3. ~c /\ cc /\ cc \in BOOLEAN
    BY <1>6, <2>1 DEF Checked
  <2>4. e = After(d, CheckAdded) /\ e.version = v
    BY <2>1, AfterCheck DEF CheckAdded
  <2> HIDE DEF n, m, c, cc, o, e
  <2>5. (d.fits \/ o.op # "check" => Possible(o, d)) /\ e.tables = Layout(m, cc)
    <3>1. n \in Nat /\ n >= 4 /\ m = n
      BY <2>2
    <3>2. (d.fits => Possible(CheckAdded, d)) /\ After(d, CheckAdded).tables = Layout(n, cc)
      BY <1>3, <1>4, <2>3, <3>1, ChecksFit
    <3>3. o.op = "check"
      BY <2>1 DEF CheckAdded, AddCheck
    <3> QED BY <2>1, <2>4, <3>1, <3>2, <3>3
  <2>6. HasLayout(e, "up", done + 1)
    BY <2>4, <2>5 DEF HasLayout, m, cc
  <2> QED BY <2>5, <2>6 DEF o, e
<1>7. CASE v = 10 /\ done # 0
  <2>1. o = Seed /\ done = 1
    BY <1>1, <1>2, <1>7, UpScript
  <2>2. n = 16 /\ c
    BY <1>1, <1>2, <1>7, Fractions, ChecksOf
  <2>3. "bootstrap_lock" \in DOMAIN d.tables
    <3>1. n \in Nat
      BY <2>2
    <3>2. \A t \in AllTables : t \in DOMAIN d.tables <=> Place[t] <= n
      BY <1>3, <1>4, <3>1, LayoutIs
    <3> QED BY <2>2, <3>2, PlaceIs
  <2>4. Possible(o, d)
    BY <2>1, <2>3 DEF Possible, Seed
  <2>5. e.version = v /\ e.tables = d.tables
    BY <2>1, AfterSeed
  <2>6. Count(v, "up", done + 1) = 16 /\ Checked(v, "up", done + 1) = c
    <3>1. Count(v, "up", done + 1) = 16 /\ Checked(v, "up", done + 1)
      BY <1>1, <1>2, <1>7, Fractions, ChecksOf
    <3> QED BY <2>2, <3>1, SameChecks
  <2> QED BY <1>3, <2>2, <2>4, <2>5, <2>6 DEF HasLayout
<1> QED BY <1>5, <1>6, <1>7

LEMMA DownFits ==
  ASSUME NEW d, IsDatabase(d), d.version > 0, NEW done \in Nat,
         done < Len(Down(d.version)), HasLayout(d, "down", done)
  PROVE  LET o == Down(d.version)[done + 1] IN
         Possible(o, d) /\ HasLayout(After(d, o), "down", done + 1)
<1> DEFINE v == d.version
           o == Down(v)[done + 1]
           e == After(d, o)
           n == Count(v, "down", done)
           c == Checked(v, "down", done)
<1>1. v \in 1..11 /\ v \in 0..11
  BY DatabaseFields, LatestIs11
<1>2. done + 1 \in Nat /\ done + 1 \in Nat \ {0} /\ done + 1 <= Len(Down(v))
  <2>1. Len(Down(v)) \in Nat
    BY <1>1, DownLengths
  <2> QED BY <2>1
<1>3. d.tables = Layout(n, c)
  BY DEF HasLayout
<1>4. c \in BOOLEAN
  BY SameChecks
<1>5. CASE v # 10
  <2>1. Drops(o, n)
    <3>1. n = CountAt(v) - done /\ CountAt(v) \in Nat
      BY <1>1, <1>5, Fractions
    <3>2. n = CountAt(v) - ((done + 1) - 1)
      BY <3>1
    <3>3. Drops(o, CountAt(v) - ((done + 1) - 1))
      BY <1>1, <1>2, <1>5, DownScript
    <3> QED BY <3>2, <3>3
  <2>2. PICK t \in AllTables : Place[t] = n /\ o = DropTable(t)
    BY <2>1 DEF Drops
  <2>3. Place[t] \in Nat
    BY Places
  <2>4. Possible(o, d) /\ e.tables = Layout(n - 1, c)
    BY <1>3, <1>4, <2>2, DropFits
  <2>5. e.version = v
    <3>1. e = After(d, DropTable(t))
      BY <2>2
    <3> HIDE DEF e
    <3> QED BY <3>1, AfterDrop
  <2>6. Count(v, "down", done + 1) = n - 1
    <3>1. n = CountAt(v) - done /\ CountAt(v) \in Nat
      BY <1>1, <1>5, Fractions
    <3>2. Count(v, "down", done + 1) = CountAt(v) - (done + 1)
      BY <1>1, <1>2, <1>5, Fractions
    <3> QED BY <3>1, <3>2
  <2>7. Checked(v, "down", done + 1) = c
    <3>1. Checked(v, "down", done + 1) <=> c
      BY <1>1, <1>2, <1>5, ChecksOf
    <3> QED BY <3>1 DEF Checked
  <2> QED BY <2>4, <2>5, <2>6, <2>7 DEF HasLayout
<1>6. CASE v = 10
  <2> DEFINE m == Count(v, "down", done + 1)
             cc == Checked(v, "down", done + 1)
  <2>1. o = CheckDropped /\ done = 0
    BY <1>1, <1>2, <1>6, DownScript
  <2>2. n = 15 /\ m = 15
    BY <1>1, <1>2, <1>6, Fractions
  <2>3. c /\ ~cc /\ cc \in BOOLEAN
    BY <1>6, <2>1 DEF Checked
  <2>4. e = After(d, CheckDropped) /\ e.version = v
    BY <2>1, AfterCheck DEF CheckDropped
  <2> HIDE DEF n, m, c, cc, o, e
  <2>5. Possible(o, d) /\ e.tables = Layout(m, cc)
    <3>1. n \in Nat /\ n >= 4 /\ m = n
      BY <2>2
    <3>2. Possible(CheckDropped, d) /\ After(d, CheckDropped).tables = Layout(n, cc)
      BY <1>3, <1>4, <2>3, <3>1, ChecksFit
    <3> QED BY <2>1, <2>4, <3>1, <3>2
  <2>6. HasLayout(e, "down", done + 1)
    BY <2>4, <2>5 DEF HasLayout, m, cc
  <2> QED BY <2>5, <2>6 DEF o, e
<1> QED BY <1>5, <1>6

LEMMA Grows ==
  ASSUME NEW v
  PROVE  /\ v \in 0..8 => CountAt(v) + Len(Up(v)) = CountAt(v + 1)
         /\ v \in (1..11) \ {10} => CountAt(v) - Len(Down(v)) = CountAt(v - 1)
<1>1. ASSUME v \in 0..8 PROVE CountAt(v) + Len(Up(v)) = CountAt(v + 1)
  <2>1. CASE v = 0
    <3>1. Len(Up(v)) = 0
      BY <2>1, UpLengths
    <3>2. CountAt(v) = 0 /\ CountAt(v + 1) = 0
      BY <2>1, Counts
    <3> QED BY <3>1, <3>2
  <2>2. CASE v = 1
    <3>1. Len(Up(v)) = 3
      BY <2>2, UpLengths
    <3>2. CountAt(v) = 0 /\ CountAt(v + 1) = 3
      BY <2>2, Counts
    <3> QED BY <3>1, <3>2
  <2>3. CASE v = 2
    <3>1. Len(Up(v)) = 1
      BY <2>3, UpLengths
    <3>2. CountAt(v) = 3 /\ CountAt(v + 1) = 4
      BY <2>3, Counts
    <3> QED BY <3>1, <3>2
  <2>4. CASE v = 3
    <3>1. Len(Up(v)) = 1
      BY <2>4, UpLengths
    <3>2. CountAt(v) = 4 /\ CountAt(v + 1) = 5
      BY <2>4, Counts
    <3> QED BY <3>1, <3>2
  <2>5. CASE v = 4
    <3>1. Len(Up(v)) = 2
      BY <2>5, UpLengths
    <3>2. CountAt(v) = 5 /\ CountAt(v + 1) = 7
      BY <2>5, Counts
    <3> QED BY <3>1, <3>2
  <2>6. CASE v = 5
    <3>1. Len(Up(v)) = 2
      BY <2>6, UpLengths
    <3>2. CountAt(v) = 7 /\ CountAt(v + 1) = 9
      BY <2>6, Counts
    <3> QED BY <3>1, <3>2
  <2>7. CASE v = 6
    <3>1. Len(Up(v)) = 2
      BY <2>7, UpLengths
    <3>2. CountAt(v) = 9 /\ CountAt(v + 1) = 11
      BY <2>7, Counts
    <3> QED BY <3>1, <3>2
  <2>8. CASE v = 7
    <3>1. Len(Up(v)) = 2
      BY <2>8, UpLengths
    <3>2. CountAt(v) = 11 /\ CountAt(v + 1) = 13
      BY <2>8, Counts
    <3> QED BY <3>1, <3>2
  <2>9. CASE v = 8
    <3>1. Len(Up(v)) = 2
      BY <2>9, UpLengths
    <3>2. CountAt(v) = 13 /\ CountAt(v + 1) = 15
      BY <2>9, Counts
    <3> QED BY <3>1, <3>2
  <2> QED BY <1>1, <2>1, <2>2, <2>3, <2>4, <2>5, <2>6, <2>7, <2>8, <2>9
<1>2. ASSUME v \in (1..11) \ {10} PROVE CountAt(v) - Len(Down(v)) = CountAt(v - 1)
  <2>1. CASE v = 1
    <3>1. Len(Down(v)) = 0
      BY <2>1, DownLengths
    <3>2. CountAt(v) = 0 /\ CountAt(v - 1) = 0
      BY <2>1, Counts
    <3> QED BY <3>1, <3>2
  <2>2. CASE v = 2
    <3>1. Len(Down(v)) = 3
      BY <2>2, DownLengths
    <3>2. CountAt(v) = 3 /\ CountAt(v - 1) = 0
      BY <2>2, Counts
    <3> QED BY <3>1, <3>2
  <2>3. CASE v = 3
    <3>1. Len(Down(v)) = 1
      BY <2>3, DownLengths
    <3>2. CountAt(v) = 4 /\ CountAt(v - 1) = 3
      BY <2>3, Counts
    <3> QED BY <3>1, <3>2
  <2>4. CASE v = 4
    <3>1. Len(Down(v)) = 1
      BY <2>4, DownLengths
    <3>2. CountAt(v) = 5 /\ CountAt(v - 1) = 4
      BY <2>4, Counts
    <3> QED BY <3>1, <3>2
  <2>5. CASE v = 5
    <3>1. Len(Down(v)) = 2
      BY <2>5, DownLengths
    <3>2. CountAt(v) = 7 /\ CountAt(v - 1) = 5
      BY <2>5, Counts
    <3> QED BY <3>1, <3>2
  <2>6. CASE v = 6
    <3>1. Len(Down(v)) = 2
      BY <2>6, DownLengths
    <3>2. CountAt(v) = 9 /\ CountAt(v - 1) = 7
      BY <2>6, Counts
    <3> QED BY <3>1, <3>2
  <2>7. CASE v = 7
    <3>1. Len(Down(v)) = 2
      BY <2>7, DownLengths
    <3>2. CountAt(v) = 11 /\ CountAt(v - 1) = 9
      BY <2>7, Counts
    <3> QED BY <3>1, <3>2
  <2>8. CASE v = 8
    <3>1. Len(Down(v)) = 2
      BY <2>8, DownLengths
    <3>2. CountAt(v) = 13 /\ CountAt(v - 1) = 11
      BY <2>8, Counts
    <3> QED BY <3>1, <3>2
  <2>9. CASE v = 9
    <3>1. Len(Down(v)) = 2
      BY <2>9, DownLengths
    <3>2. CountAt(v) = 15 /\ CountAt(v - 1) = 13
      BY <2>9, Counts
    <3> QED BY <3>1, <3>2
  <2>10. CASE v = 11
    <3>1. Len(Down(v)) = 1
      BY <2>10, DownLengths
    <3>2. CountAt(v) = 16 /\ CountAt(v - 1) = 15
      BY <2>10, Counts
    <3> QED BY <3>1, <3>2
  <2> QED BY <1>2, <2>1, <2>2, <2>3, <2>4, <2>5, <2>6, <2>7, <2>8, <2>9, <2>10
<1> QED BY <1>1, <1>2

\* A revision done and stamped is the layout of the version it leads to.
LEMMA StampFits ==
  ASSUME NEW d, IsDatabase(d), NEW e, e.tables = d.tables,
         NEW to \in {"up", "down"},
         HasLayout(d, to, Len(IF to = "up" THEN Up(d.version) ELSE Down(d.version))),
         to = "up" => d.version < 11 /\ e.version = d.version + 1,
         to = "down" => d.version > 0 /\ e.version = d.version - 1
  PROVE  HasLayout(e, to, 0)
<1> DEFINE v == d.version
<1>1. v \in 0..11
  BY DatabaseFields, LatestIs11
<1>2. ASSUME v < 11
      PROVE  /\ Count(v, "up", Len(Up(v))) = Count(v + 1, "up", 0)
             /\ Checked(v, "up", Len(Up(v))) = Checked(v + 1, "up", 0)
  <2>1. v \in {0, 1, 2, 3, 4, 5} \/ v \in {6, 7, 8, 9, 10}
    BY <1>1, <1>2
  <2>2. Len(Up(v)) \in Nat
    BY <2>1, UpLengths
  <2>0. v + 1 \in 0..11 /\ 0 \in Nat
    BY <1>1, <1>2
  <2>3. Count(v + 1, "up", 0) = CountAt(v + 1)
    BY <2>0, Fractions
  <2>4. Count(v, "up", Len(Up(v))) = CountAt(v + 1)
    <3> DEFINE len == Len(Up(v))
    <3>1. CASE v = 9
      BY <1>1, <2>2, <3>1, Fractions, Counts
    <3>2. CASE v = 10
      <4>1. len = 2
        BY <3>2, UpLengths
      <4>2. v + 1 = 11 /\ CountAt(11) = 16
        BY <3>2, Counts
      <4>3. Count(v, "up", 2) = 16
        BY <1>1, <3>2, Fractions
      <4> QED BY <4>1, <4>2, <4>3
    <3>3. CASE v \notin {9, 10}
      <4>1. CountAt(v) + len = CountAt(v + 1)
        BY <1>1, <1>2, <3>3, Grows
      <4> HIDE DEF len
      <4> QED BY <1>1, <2>2, <3>3, <4>1, Fractions DEF len
    <3> QED BY <3>1, <3>2, <3>3
  <2>5. Checked(v, "up", Len(Up(v))) = Checked(v + 1, "up", 0)
    <3>1. Checked(v + 1, "up", 0) <=> v + 1 \in {10, 11}
      BY <2>0, ChecksOf
    <3>2. Checked(v, "up", Len(Up(v))) <=> v + 1 \in {10, 11}
      <4>1. CASE v = 9
        <5>1. Len(Up(v)) = 1
          BY <4>1, UpLengths
        <5> QED BY <4>1, <5>1 DEF Checked
      <4>2. CASE v # 9
        BY <1>1, <1>2, <2>2, <4>2, ChecksOf
      <4> QED BY <4>1, <4>2
    <3> QED BY <3>1, <3>2 DEF Checked
  <2> QED BY <2>3, <2>4, <2>5
<1>3. ASSUME v > 0
      PROVE  /\ Count(v, "down", Len(Down(v))) = Count(v - 1, "down", 0)
             /\ Checked(v, "down", Len(Down(v))) = Checked(v - 1, "down", 0)
  <2>1. v \in {1, 2, 3, 4, 5} \/ v \in {6, 7, 8, 9, 10, 11}
    BY <1>1, <1>3
  <2>2. Len(Down(v)) \in Nat
    BY <2>1, DownLengths
  <2>0. v - 1 \in 0..11 /\ 0 \in Nat
    BY <1>1, <1>3
  <2>3. Count(v - 1, "down", 0) = CountAt(v - 1)
    BY <2>0, Fractions
  <2>4. Count(v, "down", Len(Down(v))) = CountAt(v - 1)
    <3> DEFINE len == Len(Down(v))
    <3>1. CASE v = 10
      BY <1>1, <2>2, <3>1, Fractions, Counts
    <3>2. CASE v # 10
      <4>1. CountAt(v) - len = CountAt(v - 1)
        BY <1>1, <1>3, <3>2, Grows
      <4> HIDE DEF len
      <4> QED BY <1>1, <2>2, <3>2, <4>1, Fractions DEF len
    <3> QED BY <3>1, <3>2
  <2>5. Checked(v, "down", Len(Down(v))) = Checked(v - 1, "down", 0)
    <3>1. Checked(v - 1, "down", 0) <=> v - 1 \in {10, 11}
      BY <2>0, ChecksOf
    <3>2. Checked(v, "down", Len(Down(v))) <=> v - 1 \in {10, 11}
      <4>1. CASE v = 10
        <5>1. Len(Down(v)) = 1
          BY <4>1, DownLengths
        <5> QED BY <4>1, <5>1 DEF Checked
      <4>2. CASE v # 10
        BY <1>1, <1>3, <2>2, <4>2, ChecksOf
      <4> QED BY <4>1, <4>2
    <3> QED BY <3>1, <3>2 DEF Checked
  <2> QED BY <2>3, <2>4, <2>5
<1>4. CASE to = "up"
  <2>1. d.tables = Layout(Count(v, "up", Len(Up(v))), Checked(v, "up", Len(Up(v))))
    BY <1>4 DEF HasLayout
  <2>2. d.tables = Layout(Count(v + 1, "up", 0), Checked(v + 1, "up", 0))
    BY <1>2, <1>4, <2>1
  <2> QED BY <1>4, <2>2 DEF HasLayout
<1>5. CASE to = "down"
  <2>1. d.tables = Layout(Count(v, "down", Len(Down(v))), Checked(v, "down", Len(Down(v))))
    BY <1>5 DEF HasLayout
  <2>2. d.tables = Layout(Count(v - 1, "down", 0), Checked(v - 1, "down", 0))
    BY <1>3, <1>5, <2>1
  <2> QED BY <1>5, <2>2 DEF HasLayout
<1> QED BY <1>4, <1>5

LEMMA AnyDirection ==
  ASSUME NEW d, IsDatabase(d), NEW to \in {"up", "down", "done", "failed"},
         NEW other \in {"up", "down", "done", "failed"}, HasLayout(d, to, 0)
  PROVE  HasLayout(d, other, 0)
<1>1. d.version \in 0..11
  BY DatabaseFields, LatestIs11
<1>2. Count(d.version, to, 0) = Count(d.version, other, 0)
  BY <1>1, Fractions
<1>3. Checked(d.version, to, 0) <=> Checked(d.version, other, 0)
  BY <1>1, ChecksOf
<1>4. Checked(d.version, to, 0) = Checked(d.version, other, 0)
  BY <1>3 DEF Checked
<1> QED BY <1>2, <1>4 DEF HasLayout

----------------------------------------------------------------------------
(* The operations in any database, one that a part of a revision was left in included *)

WellFormed(d) == IsDatabase(d) /\ DOMAIN d.tables \subseteq AllTables

IsOperation(o) ==
  \/ \E t \in AllTables : o = CreateTable(t, Made(t)) \/ o = DropTable(t)
  \/ o \in {CheckAdded, CheckDropped, Seed}

\* The operations of a revision in one direction or the other.
Script(to, v) == IF to = "up" THEN Up(v) ELSE Down(v)
HasNext(to, v) == IF to = "up" THEN v < 11 ELSE v > 0

LEMMA ScriptLength ==
  ASSUME NEW to \in {"up", "down"}, NEW v \in 0..11, HasNext(to, v)
  PROVE  Len(Script(to, v)) \in 0..3
<1>1. CASE to = "up"
  <2>1. v \in 0..10
    BY <1>1 DEF HasNext
  <2>2. Len(Up(v)) \in 0..3
    BY <2>1, UpLengths
  <2> QED BY <1>1, <2>2 DEF Script
<1>2. CASE to = "down"
  <2>1. v \in 1..11
    BY <1>2 DEF HasNext
  <2>2. Len(Down(v)) \in 0..3
    BY <2>1, DownLengths
  <2> QED BY <1>2, <2>2 DEF Script
<1> QED BY <1>1, <1>2

LEMMA ScriptIs ==
  ASSUME NEW to \in {"up", "down"}, NEW v \in 0..11, HasNext(to, v),
         NEW k \in Nat \ {0}, k <= Len(Script(to, v))
  PROVE  /\ IsOperation(Script(to, v)[k])
         /\ to = "up" /\ v = 10 /\ k = 2 => Script(to, v)[k] = Seed
         /\ v = 11 => Script(to, v)[k] = DropTable("bootstrap_lock")
<1> DEFINE o == Script(to, v)[k]
<1>1. CASE to = "up"
  <2>1. v \in 0..10 /\ o = Up(v)[k] /\ k <= Len(Up(v))
    BY <1>1 DEF HasNext, Script
  <2> HIDE DEF o
  <2>2. (\E n : Creates(o, n)) \/ o \in {CheckAdded, Seed}
    BY <2>1, UpScript
  <2>3. v = 10 /\ k = 2 => o = Seed
    BY <2>1, UpScript
  <2> QED BY <2>1, <2>2, <2>3 DEF o, Creates, IsOperation
<1>2. CASE to = "down"
  <2>1. v \in 1..11 /\ o = Down(v)[k] /\ k <= Len(Down(v))
    BY <1>2 DEF HasNext, Script
  <2> HIDE DEF o
  <2>2. (\E n : Drops(o, n)) \/ o = CheckDropped
    BY <2>1, DownScript
  <2>3. IsOperation(o)
    BY <2>2 DEF Drops, IsOperation
  <2>4. ASSUME v = 11 PROVE o = DropTable("bootstrap_lock")
    <3>1. k = 1
      <4>1. k <= 1
        BY <2>1, <2>4, DownLengths
      <4> QED BY <4>1
    <3>2. Drops(o, 16)
      BY <2>1, <2>4, <3>1, DownDrops
    <3>3. PICK t \in AllTables : Place[t] = 16 /\ o = DropTable(t)
      BY <3>2 DEF Drops
    <3>4. t = "bootstrap_lock"
      BY <3>3, PlaceIs, Places
    <3> QED BY <3>3, <3>4
  <2> QED BY <1>2, <2>3, <2>4 DEF o
<1> QED BY <1>1, <1>2

LEMMA OpOf ==
  ASSUME NEW o, IsOperation(o)
  PROVE  o.op = "seed" => o = Seed
BY DEF IsOperation, CreateTable, DropTable, CheckAdded, CheckDropped, AddCheck, DropCheck, Seed

LEMMA Executed ==
  ASSUME NEW d, WellFormed(d), NEW o, IsOperation(o), Possible(o, d)
  PROVE  /\ WellFormed(After(d, o)) /\ After(d, o).version = d.version
         /\ o = Seed => After(d, o).seeded /\ After(d, o).tables = d.tables
         /\ o = DropTable("bootstrap_lock") => "bootstrap_lock" \notin DOMAIN After(d, o).tables
<1> DEFINE e == After(d, o)
<1>0. IsDatabase(d)
  BY DEF WellFormed
<1>1. ASSUME NEW t \in AllTables, o = CreateTable(t, Made(t))
      PROVE  WellFormed(e) /\ e.version = d.version /\ o.op = "create"
  <2>1. e = After(d, CreateTable(t, Made(t)))
    BY <1>1
  <2> HIDE DEF e
  <2>2. IsDatabase(e) /\ e.version = d.version /\ DOMAIN e.tables = DOMAIN d.tables \cup {t}
    BY <1>0, <2>1, CreateKeeps
  <2>3. o.op = "create"
    BY <1>1 DEF CreateTable
  <2> QED BY <2>2, <2>3 DEF WellFormed
<1>2. ASSUME NEW t \in AllTables, o = DropTable(t)
      PROVE  /\ WellFormed(e) /\ e.version = d.version /\ o.op = "drop"
             /\ o.table = t /\ t \notin DOMAIN e.tables
  <2>1. e = After(d, DropTable(t))
    BY <1>2
  <2> HIDE DEF e
  <2>2. /\ IsDatabase(e) /\ e.version = d.version
        /\ e.tables = [u \in DOMAIN d.tables \ {t} |-> d.tables[u]]
    BY <1>0, <2>1, AfterDrop
  <2>3. DOMAIN e.tables = DOMAIN d.tables \ {t}
    BY <2>2
  <2>4. o.op = "drop" /\ o.table = t
    BY <1>2 DEF DropTable
  <2> QED BY <2>2, <2>3, <2>4 DEF WellFormed
<1>3. ASSUME o \in {CheckAdded, CheckDropped}
      PROVE  WellFormed(e) /\ e.version = d.version /\ o.op \in {"check", "uncheck"}
  <2>1. IsDatabase(e) /\ e.version = d.version /\ DOMAIN e.tables = DOMAIN d.tables
    BY <1>0, <1>3, AfterCheck DEF CheckAdded, CheckDropped
  <2>2. o.op \in {"check", "uncheck"}
    BY <1>3 DEF CheckAdded, CheckDropped, AddCheck, DropCheck
  <2> QED BY <2>1, <2>2 DEF WellFormed
<1>4. ASSUME o = Seed
      PROVE  /\ WellFormed(e) /\ e.version = d.version /\ e.seeded /\ e.tables = d.tables
             /\ o.op = "seed"
  <2>1. IsDatabase(e) /\ e.version = d.version /\ e.seeded /\ e.tables = d.tables
    BY <1>0, <1>4, AfterSeed
  <2>2. o.op = "seed"
    BY <1>4 DEF Seed
  <2> QED BY <2>1, <2>2 DEF WellFormed
<1>5. DropTable("bootstrap_lock").op = "drop" /\ "bootstrap_lock" \in AllTables
  BY DEF DropTable, AllTables
<1> QED BY <1>1, <1>2, <1>3, <1>4, <1>5 DEF IsOperation

----------------------------------------------------------------------------
(* The inductive invariant *)

LEMMA EmptyLayout ==
  ASSUME NEW tables, tables = [t \in {} |-> tables[t]], NEW c \in BOOLEAN
  PROVE  tables = Layout(0, c)
<1>1. DOMAIN tables = {} /\ tables = [t \in DOMAIN tables |-> tables[t]]
  OBVIOUS
<1>2. \A t \in AllTables : t \in DOMAIN tables <=> Place[t] <= 0
  BY <1>1, Places
<1>3. \A t \in DOMAIN tables : tables[t] = Def(t, c)
  BY <1>1
<1>4. DOMAIN tables \subseteq AllTables
  BY <1>1
<1> QED BY <1>1, <1>2, <1>3, <1>4, IsLayout

LEMMA MigrationsInitIInv == MigrationsInit => MigrationsIInv
<1> SUFFICES ASSUME MigrationsInit PROVE MigrationsIInv
  OBVIOUS
<1>1. /\ db = [tables |-> <<>>, seeded |-> FALSE, fits |-> TRUE, version |-> 0]
      /\ durable = db /\ stamped = db /\ run = [to |-> "done", done |-> 0]
      /\ halfway = FALSE /\ transactional \in BOOLEAN
  BY DEF MigrationsInit, NoRun
<1>2. db.tables = <<>> /\ db.version = 0 /\ DOMAIN db.tables = {}
  BY <1>1
<1>3. IsDatabase(db)
  BY <1>1, LatestIs11 DEF IsDatabase
<1>4. MigrationsTypeOK
  <2>1. run \in [to : {"up", "down", "done", "failed"}, done : 0..3]
    BY <1>1
  <2>2. \A d \in {db, durable, stamped} : d = db
    BY <1>1
  <2>3. \A d \in {db, durable, stamped} :
          IsDatabase(d) /\ DOMAIN d.tables \subseteq DOMAIN Models \cup {"bootstrap_lock"}
    BY <1>2, <1>3, <2>2
  <2> QED BY <1>1, <2>1, <2>3 DEF MigrationsTypeOK, IsDatabase
<1>5. Idle /\ run.to = "done" /\ run.done = 0
  BY <1>1 DEF Idle
<1>6. HasLayout(db, "done", 0)
  <2> DEFINE c == Checked(0, "done", 0)
  <2>1. c \in BOOLEAN
    BY SameChecks
  <2>2. Count(0, "done", 0) = 0
    BY Fractions, Counts
  <2> HIDE DEF c
  <2>3. db.tables = Layout(0, c)
    BY <1>2, <2>1, EmptyLayout
  <2> QED BY <1>2, <2>2, <2>3 DEF HasLayout, c
<1>7. LockRowIn(db)
  BY <1>2 DEF LockRowIn
<1> QED BY <1>1, <1>2, <1>4, <1>5, <1>6, <1>7 DEF MigrationsIInv

LEMMA MigrationsNextIInv == MigrationsIInv /\ [MigrationsNext]_migrationVars => MigrationsIInv'
<1> SUFFICES ASSUME MigrationsIInv, [MigrationsNext]_migrationVars PROVE MigrationsIInv'
  OBVIOUS
<1>1. /\ WellFormed(db) /\ WellFormed(durable) /\ WellFormed(stamped)
      /\ IsDatabase(db) /\ IsDatabase(durable) /\ IsDatabase(stamped)
      /\ db.version \in 0..11 /\ durable.version \in 0..11 /\ stamped.version \in 0..11
  <2>1. MigrationsTypeOK
    BY DEF MigrationsIInv
  <2>2. WellFormed(db) /\ WellFormed(durable) /\ WellFormed(stamped)
    <3>1. DOMAIN Models \cup {"bootstrap_lock"} = AllTables
      <4>1. "bootstrap_lock" \in AllTables
        BY DEF AllTables
      <4> QED BY <4>1, Places
    <3>2. \A d \in {db, durable, stamped} :
            IsDatabase(d) /\ DOMAIN d.tables \subseteq DOMAIN Models \cup {"bootstrap_lock"}
      BY <2>1 DEF MigrationsTypeOK, IsDatabase
    <3> QED BY <3>1, <3>2 DEF WellFormed
  <2> QED BY <2>2, DatabaseFields, LatestIs11 DEF WellFormed
<1>2. /\ run \in [to : {"up", "down", "done", "failed"}, done : 0..3]
      /\ run.to \in {"up", "down", "done", "failed"} /\ run.done \in 0..3
      /\ run = [to |-> run.to, done |-> run.done]
      /\ halfway \in BOOLEAN /\ transactional \in BOOLEAN
  BY DEF MigrationsIInv, MigrationsTypeOK
<1>3. /\ Idle => run.done = 0 /\ db = durable /\ durable = stamped
      /\ ~Idle => run.done <= IF Left THEN Len(Operations) ELSE 0
      /\ transactional => durable = stamped /\ ~halfway
      /\ ~transactional => /\ durable.tables = db.tables
                           /\ durable.version = db.version /\ stamped.version = db.version
      /\ ~halfway => HasLayout(db, run.to, run.done) /\ HasLayout(stamped, "done", 0)
      /\ LockRowIn(db) /\ LockRowIn(durable)
      /\ run.to = "up" /\ db.version = 10 /\ run.done = 2 => db.seeded
  BY DEF MigrationsIInv
<1>4. /\ Operations = Script(run.to, db.version) /\ (Left <=> HasNext(run.to, db.version))
      /\ (Idle <=> run.to \in {"done", "failed"})
  BY LatestIs11 DEF Operations, Script, Up, Down, Left, HasNext, Idle
<1>5. /\ Operations' = Script(run'.to, db'.version) /\ (Left' <=> HasNext(run'.to, db'.version))
      /\ (Idle' <=> run'.to \in {"done", "failed"})
  BY LatestIs11 DEF Operations, Script, Up, Down, Left, HasNext, Idle
\* The parts of the invariant after the step, as they are proved of each action.
<1> DEFINE Typed == /\ WellFormed(db') /\ WellFormed(durable') /\ WellFormed(stamped')
                    /\ run' \in [to : {"up", "down", "done", "failed"}, done : 0..3]
                    /\ halfway' \in BOOLEAN /\ transactional' \in BOOLEAN
           Progress == /\ Idle' => run'.done = 0 /\ db' = durable' /\ durable' = stamped'
                       /\ ~Idle' /\ run'.done # 0 =>
                            Left' /\ run'.done <= Len(Script(run'.to, db'.version))
           Durable == /\ transactional' => durable' = stamped' /\ ~halfway'
                      /\ ~transactional' =>
                           /\ durable'.tables = db'.tables
                           /\ durable'.version = db'.version /\ stamped'.version = db'.version
           Laid == ~halfway' => HasLayout(db', run'.to, run'.done) /\ HasLayout(stamped', "done", 0)
           Locked == /\ LockRowIn(db') /\ LockRowIn(durable')
                     /\ run'.to = "up" /\ db'.version = 10 /\ run'.done = 2 => db'.seeded
<1>6. ASSUME Typed, Progress, Durable, Laid, Locked PROVE MigrationsIInv'
  <2>1. MigrationsTypeOK'
    BY <1>6, Places DEF MigrationsTypeOK, WellFormed, IsDatabase
  <2>2. ~Idle' => run'.done <= IF Left' THEN Len(Operations') ELSE 0
    <3>1. CASE run'.done # 0
      BY <1>5, <1>6, <3>1
    <3>2. CASE run'.done = 0 /\ Left' /\ ~Idle'
      <4>1. run'.to \in {"up", "down"} /\ db'.version \in 0..11 /\ HasNext(run'.to, db'.version)
        BY <1>5, <1>6, <3>2, DatabaseFields, LatestIs11 DEF WellFormed
      <4>2. Len(Script(run'.to, db'.version)) \in 0..3
        BY <4>1, ScriptLength
      <4> QED BY <1>5, <3>2, <4>2
    <3>3. CASE run'.done = 0 /\ ~Left'
      BY <3>3
    <3> QED BY <3>1, <3>2, <3>3
  <2> QED BY <1>6, <2>1, <2>2 DEF MigrationsIInv
\* A run that stops leaves what is durable.
<1>7. ASSUME NEW outcome \in {"done", "failed"}, Stops(outcome), durable' = durable,
             transactional' = transactional
      PROVE  MigrationsIInv'
  <2>1. /\ run' = [to |-> outcome, done |-> 0] /\ db' = durable /\ stamped' = durable
        /\ halfway' = (halfway \/ durable.tables # stamped.tables)
    BY <1>7 DEF Stops, NoRun
  <2>2. Typed
    BY <1>1, <1>2, <1>7, <2>1
  <2>3. Progress
    BY <1>5, <1>7, <2>1
  <2>4. Durable
    BY <1>2, <1>3, <1>7, <2>1
  <2>5. Laid
    <3> SUFFICES ASSUME ~halfway' PROVE Laid
      OBVIOUS
    <3>1. HasLayout(stamped, "done", 0) /\ durable.tables = stamped.tables
      BY <1>2, <1>3, <2>1
    <3>2. durable.version = stamped.version
      BY <1>2, <1>3
    <3>3. HasLayout(durable, "done", 0)
      BY <3>1, <3>2 DEF HasLayout
    <3>4. HasLayout(durable, outcome, 0)
      BY <1>1, <1>7, <3>3, AnyDirection
    <3> QED BY <2>1, <3>3, <3>4
  <2>6. Locked
    BY <1>3, <1>7, <2>1
  <2> QED BY <1>6, <2>2, <2>3, <2>4, <2>5, <2>6
<1>8. ASSUME NEW to \in {"up", "down"}, StartRun(to) PROVE MigrationsIInv'
  <2>1. /\ Idle /\ run' = [to |-> to, done |-> 0] /\ db' = db /\ durable' = durable
        /\ stamped' = stamped /\ halfway' = halfway /\ transactional' = transactional
    BY <1>8 DEF StartRun
  <2>2. Typed
    BY <1>1, <1>2, <2>1
  <2>3. Progress
    BY <1>5, <2>1
  <2>4. Durable
    BY <1>3, <2>1
  <2>5. Laid
    <3>1. ~halfway => HasLayout(db, to, 0)
      BY <1>1, <1>2, <1>3, <2>1, AnyDirection
    <3> QED BY <1>3, <2>1, <3>1
  <2>6. Locked
    BY <1>3, <2>1
  <2> QED BY <1>6, <2>2, <2>3, <2>4, <2>5, <2>6
<1>9. ASSUME Execute PROVE MigrationsIInv'
  <2> DEFINE o == Operations[run.done + 1]
  <2>1. /\ ~Idle /\ Left /\ run.done < Len(Operations) /\ transactional' = transactional
        /\ \/ /\ Possible(o, db) /\ db' = After(db, o)
              /\ durable' = IF transactional \/ o.op = "seed" THEN durable ELSE db'
              /\ run' = [run EXCEPT !.done = @ + 1]
              /\ stamped' = stamped /\ halfway' = halfway
           \/ Stops("failed") /\ durable' = durable
    BY <1>9 DEF Execute
  <2>2. CASE Stops("failed") /\ durable' = durable
    BY <1>7, <2>1, <2>2
  <2>3. CASE /\ Possible(o, db) /\ db' = After(db, o)
             /\ durable' = IF transactional \/ o.op = "seed" THEN durable ELSE db'
             /\ run' = [run EXCEPT !.done = @ + 1]
             /\ stamped' = stamped /\ halfway' = halfway
    <3> DEFINE script == Script(run.to, db.version)
               k == run.done + 1
    <3>1. /\ run.to \in {"up", "down"} /\ HasNext(run.to, db.version) /\ Len(script) \in 0..3
          /\ k \in Nat \ {0} /\ k \in 1..3 /\ k <= Len(script) /\ o = script[k]
      <4>1. run.to \in {"up", "down"} /\ HasNext(run.to, db.version)
        BY <1>2, <1>4, <2>1
      <4>2. Len(script) \in 0..3
        BY <1>1, <4>1, ScriptLength
      <4>3. run.done < Len(script) /\ o = script[k]
        BY <1>4, <2>1
      <4> HIDE DEF script, o
      <4>4. k \in Nat \ {0} /\ k \in 1..3 /\ k <= Len(script)
        BY <1>2, <4>2, <4>3
      <4> QED BY <4>1, <4>2, <4>3, <4>4
    <3>2. /\ IsOperation(o)
          /\ run.to = "up" /\ db.version = 10 /\ k = 2 => o = Seed
          /\ db.version = 11 => o = DropTable("bootstrap_lock")
      BY <1>1, <3>1, ScriptIs
    <3>3. /\ WellFormed(db') /\ db'.version = db.version
          /\ o = Seed => db'.seeded /\ db'.tables = db.tables
          /\ o = DropTable("bootstrap_lock") => "bootstrap_lock" \notin DOMAIN db'.tables
          /\ o.op = "seed" => o = Seed
      <4> HIDE DEF o
      <4>1. /\ WellFormed(After(db, o)) /\ After(db, o).version = db.version
            /\ o = Seed => After(db, o).seeded /\ After(db, o).tables = db.tables
            /\ o = DropTable("bootstrap_lock") =>
                 "bootstrap_lock" \notin DOMAIN After(db, o).tables
        BY <1>1, <2>3, <3>2, Executed
      <4> QED BY <2>3, <3>2, <4>1, OpOf
    <3>4. run' = [to |-> run.to, done |-> k]
      BY <1>2, <2>3
    <3>5. /\ run'.to = run.to /\ run'.done = k /\ ~Idle' /\ Left'
      BY <1>5, <3>1, <3>3, <3>4
    <3>6. Typed
      BY <1>1, <1>2, <2>1, <2>3, <3>1, <3>3, <3>4
    <3>7. Progress
      BY <3>1, <3>3, <3>5
    <3>8. Durable
      BY <1>2, <1>3, <2>1, <2>3, <3>3
    <3>9. Laid
      <4> SUFFICES ASSUME ~halfway' PROVE Laid
        OBVIOUS
      <4>1. HasLayout(db, run.to, run.done) /\ HasLayout(stamped, "done", 0)
        BY <1>2, <1>3, <2>3
      <4>2. HasLayout(After(db, o), run.to, k)
        <5>1. CASE run.to = "up"
          <6>1. db.version < 11 /\ script = Up(db.version)
            BY <3>1, <5>1 DEF HasNext, Script
          <6>2. run.done < Len(Up(db.version)) /\ run.done \in Nat
            BY <1>2, <3>1, <6>1
          <6>3. HasLayout(After(db, Up(db.version)[run.done + 1]), "up", run.done + 1)
            BY <1>1, <4>1, <5>1, <6>1, <6>2, UpFits
          <6> QED BY <3>1, <5>1, <6>1, <6>3
        <5>2. CASE run.to = "down"
          <6>1. db.version > 0 /\ script = Down(db.version)
            BY <3>1, <5>2 DEF HasNext, Script
          <6>2. run.done < Len(Down(db.version)) /\ run.done \in Nat
            BY <1>2, <3>1, <6>1
          <6>3. HasLayout(After(db, Down(db.version)[run.done + 1]), "down", run.done + 1)
            BY <1>1, <4>1, <5>2, <6>1, <6>2, DownFits
          <6> QED BY <3>1, <5>2, <6>1, <6>3
        <5> QED BY <3>1, <5>1, <5>2
      <4> QED BY <2>3, <3>5, <4>1, <4>2
    <3>10. Locked
      <4>1. LockRowIn(db')
        BY <3>2, <3>3, LatestIs11 DEF LockRowIn
      <4>2. LockRowIn(durable')
        BY <1>3, <2>3, <4>1
      <4>3. run'.to = "up" /\ db'.version = 10 /\ run'.done = 2 => db'.seeded
        BY <3>2, <3>3, <3>5
      <4> QED BY <4>1, <4>2, <4>3
    <3> QED BY <1>6, <3>6, <3>7, <3>8, <3>9, <3>10
  <2> QED BY <2>1, <2>2, <2>3
<1>10. ASSUME Stamp PROVE MigrationsIInv'
  <2> DEFINE version == IF run.to = "up" THEN db.version + 1 ELSE db.version - 1
  <2>1. /\ ~Idle /\ Left /\ run.done = Len(Operations)
        /\ db' = [db EXCEPT !.version = version]
        /\ durable' = (IF transactional THEN durable ELSE db') /\ stamped' = durable'
        /\ run' = [run EXCEPT !.done = 0] /\ halfway' = halfway
        /\ transactional' = transactional
    BY <1>10 DEF Stamp
  <2>2. /\ run.to \in {"up", "down"} /\ HasNext(run.to, db.version)
        /\ version \in 0..11 /\ run.done = Len(Script(run.to, db.version))
    <3>1. run.to \in {"up", "down"} /\ HasNext(run.to, db.version)
      BY <1>2, <1>4, <2>1
    <3> QED BY <1>1, <1>4, <2>1, <3>1 DEF HasNext
  <2> HIDE DEF version
  <2>3. /\ db' = [tables |-> db.tables, version |-> version, seeded |-> db.seeded, fits |-> db.fits]
        /\ db'.tables = db.tables /\ db'.version = version /\ db'.seeded = db.seeded
    BY <1>1, <2>1, DatabaseFields
  <2>4. WellFormed(db')
    BY <1>1, <2>2, <2>3, DatabaseFields, LatestIs11 DEF WellFormed, IsDatabase
  <2>5. run' = [to |-> run.to, done |-> 0]
    BY <1>2, <2>1
  <2>6. Typed
    BY <1>1, <1>2, <2>1, <2>4, <2>5
  <2>7. Progress
    BY <1>4, <1>5, <2>1, <2>5
  <2>8. Durable
    BY <1>2, <1>3, <2>1, <2>3
  <2>9. Laid
    <3> SUFFICES ASSUME ~halfway' PROVE Laid
      OBVIOUS
    <3>1. HasLayout(db, run.to, run.done) /\ HasLayout(stamped, "done", 0)
      BY <1>2, <1>3, <2>1
    <3>2. HasLayout(db, run.to,
            Len(IF run.to = "up" THEN Up(db.version) ELSE Down(db.version)))
      BY <2>2, <3>1 DEF Script
    <3>3. /\ run.to = "up" => db.version < 11 /\ db'.version = db.version + 1
          /\ run.to = "down" => db.version > 0 /\ db'.version = db.version - 1
      BY <2>2, <2>3 DEF HasNext, version
    <3>4. HasLayout(db', run.to, 0)
      BY <1>1, <2>2, <2>3, <3>2, <3>3, StampFits
    <3>5. HasLayout(db', "done", 0)
      BY <1>2, <2>4, <3>4, AnyDirection DEF WellFormed
    <3> QED BY <1>3, <2>1, <2>5, <3>1, <3>4, <3>5
  <2>10. Locked
    <3>1. LockRowIn(db')
      <4> SUFFICES ASSUME db'.version = 11 PROVE db'.seeded
        BY LatestIs11 DEF LockRowIn
      <4>1. run.to = "up" /\ db.version = 10
        BY <1>1, <2>2, <2>3 DEF version
      <4>2. run.done = 2
        BY <2>2, <4>1, UpLengths DEF Script
      <4> QED BY <1>3, <2>3, <4>1, <4>2
    <3> QED BY <1>3, <2>1, <2>5, <3>1
  <2> QED BY <1>6, <2>6, <2>7, <2>8, <2>9, <2>10
<1>11. ASSUME Finish PROVE MigrationsIInv'
  <2>1. /\ ~Idle /\ run.done = 0 /\ run' = [to |-> "done", done |-> 0] /\ durable' = db
        /\ stamped' = db /\ db' = db /\ halfway' = halfway /\ transactional' = transactional
    BY <1>11 DEF Finish, NoRun
  <2>2. Typed
    BY <1>1, <1>2, <2>1
  <2>3. Progress
    BY <1>5, <2>1
  <2>4. Durable
    BY <1>3, <2>1
  <2>5. Laid
    <3>1. ~halfway => HasLayout(db, "done", 0)
      BY <1>1, <1>2, <1>3, <2>1, AnyDirection
    <3> QED BY <2>1, <3>1
  <2>6. Locked
    BY <1>3, <2>1
  <2> QED BY <1>6, <2>2, <2>3, <2>4, <2>5, <2>6
<1>12. ASSUME Dies PROVE MigrationsIInv'
  <2>1. Stops("failed") /\ durable' = durable /\ transactional' = transactional
    BY <1>12 DEF Dies
  <2> QED BY <1>7, <2>1
<1>13. ASSUME WriteRows PROVE MigrationsIInv'
  <2> DEFINE fits == ~db.fits
  <2>1. /\ Idle /\ db' = [db EXCEPT !.fits = fits]
        /\ durable' = [durable EXCEPT !.fits = db'.fits]
        /\ stamped' = durable' /\ run' = run /\ halfway' = halfway
        /\ transactional' = transactional
    BY <1>13 DEF WriteRows
  <2>2. fits \in BOOLEAN
    OBVIOUS
  <2> HIDE DEF fits
  <2>3. /\ db' = [tables |-> db.tables, version |-> db.version, seeded |-> db.seeded, fits |-> fits]
        /\ db'.tables = db.tables /\ db'.version = db.version /\ db'.seeded = db.seeded
        /\ db'.fits = fits
    BY <1>1, <2>1, DatabaseFields
  <2>4. durable' = db' /\ stamped' = db'
    <3>1. durable' = [db EXCEPT !.fits = fits]
      BY <1>3, <2>1, <2>3
    <3> QED BY <2>1, <3>1
  <2>5. WellFormed(db')
    BY <1>1, <2>2, <2>3, DatabaseFields DEF WellFormed, IsDatabase
  <2>6. Typed
    BY <1>2, <2>1, <2>4, <2>5
  <2>7. Progress
    BY <1>3, <1>4, <1>5, <2>1, <2>4
  <2>8. Durable
    BY <1>2, <1>3, <2>1, <2>4
  <2>9. Laid
    BY <1>3, <2>1, <2>3, <2>4 DEF HasLayout
  <2>10. Locked
    BY <1>3, <2>1, <2>3, <2>4 DEF LockRowIn
  <2> QED BY <1>6, <2>6, <2>7, <2>8, <2>9, <2>10
<1>14. ASSUME UNCHANGED migrationVars PROVE MigrationsIInv'
  <2>1. /\ db' = db /\ durable' = durable /\ stamped' = stamped /\ run' = run
        /\ halfway' = halfway /\ transactional' = transactional
    BY <1>14 DEF migrationVars
  <2> QED BY <2>1 DEF MigrationsIInv, MigrationsTypeOK, Idle, Left, Operations, Revisions
<1> QED BY <1>8, <1>9, <1>10, <1>11, <1>12, <1>13, <1>14 DEF MigrationsNext

----------------------------------------------------------------------------

\* A database that no part of a revision was left in has the layout of its version and
\* of the operations that the run has done.
THEOREM MigrationsIInvHolds == MigrationsSpec => []MigrationsIInv
BY MigrationsInitIInv, MigrationsNextIInv, PTL DEF MigrationsSpec

\* The databases of a run have tables of the models, and at most the latest version.
THEOREM MigrationsTypes == MigrationsSpec => []MigrationsTypeOK
<1>1. MigrationsIInv => MigrationsTypeOK
  BY DEF MigrationsIInv
<1> QED BY <1>1, MigrationsIInvHolds, PTL

\* With the head stamped a bootstrap_lock table has its row, even after crashes.
THEOREM LockRowStays == MigrationsSpec => []LockRowIsThere
<1>1. MigrationsIInv => LockRowIsThere
  BY DEF MigrationsIInv, LockRowIn, LockRowIsThere
<1> QED BY <1>1, MigrationsIInvHolds, PTL

\* From any version to any other no revision is refused, whatever rows there are, unless
\* a part of one was left behind or it adds a check that rows contradict.
THEOREM RevisionsAreAccepted == MigrationsSpec => []RunsSucceed
<1>1. MigrationsIInv => RunsSucceed
  <2> SUFFICES ASSUME MigrationsIInv, Refused, ~halfway,
                      db.fits \/ Operations[run.done + 1].op # "check"
               PROVE  FALSE
    BY DEF RunsSucceed
  <2> DEFINE o == Operations[run.done + 1]
  <2>1. ~Idle /\ Left /\ run.done < Len(Operations) /\ ~Possible(o, db)
    BY DEF Refused
  <2>2. /\ IsDatabase(db) /\ run.to \in {"up", "down"} /\ run.done \in Nat
        /\ HasLayout(db, run.to, run.done)
    <3>1. \A d \in {db, durable, stamped} : IsDatabase(d)
      BY DEF MigrationsIInv, MigrationsTypeOK, IsDatabase
    <3>2. run.to \in {"up", "down"} /\ run.done \in Nat
      BY <2>1 DEF MigrationsIInv, MigrationsTypeOK, Idle
    <3>3. HasLayout(db, run.to, run.done)
      BY DEF MigrationsIInv
    <3> QED BY <3>1, <3>2, <3>3
  <2>3. CASE run.to = "up"
    <3>1. Operations = Up(db.version) /\ db.version < 11
      BY <2>1, <2>3, LatestIs11 DEF Operations, Up, Left
    <3>2. \/ db.fits \/ Up(db.version)[run.done + 1].op # "check"
            => Possible(Up(db.version)[run.done + 1], db)
      BY <2>1, <2>2, <2>3, <3>1, UpFits
    <3> QED BY <2>1, <3>1, <3>2
  <2>4. CASE run.to = "down"
    <3>1. Operations = Down(db.version) /\ db.version > 0
      BY <2>1, <2>4 DEF Operations, Down, Left
    <3>2. Possible(Down(db.version)[run.done + 1], db)
      BY <2>1, <2>2, <2>4, <3>1, DownFits
    <3> QED BY <2>1, <3>1, <3>2
  <2> QED BY <2>2, <2>3, <2>4
<1> QED BY <1>1, MigrationsIInvHolds, PTL

----------------------------------------------------------------------------
(* What a version tells *)

LEMMA CountsAscend ==
  ASSUME NEW a \in 0..11, NEW b \in 0..11, a <= b
  PROVE  CountAt(a) <= CountAt(b) /\ CountAt(a) \in 0..16
<1>0. CountAt(b) \in 0..16 /\ CountAt(a) \in 0..16
  BY Counts
<1>1. CASE a = 0
  <2>1. b \in {0, 1, 2, 3, 4, 5, 6, 7, 8, 9, 10, 11}
    BY <1>1
  <2>2. CountAt(b) >= 0
    BY <2>1, Counts
  <2> QED BY <1>0, <1>1, <2>2, Counts
<1>2. CASE a = 1
  <2>1. b \in {1, 2, 3, 4, 5, 6, 7, 8, 9, 10, 11}
    BY <1>2
  <2>2. CountAt(b) >= 0
    BY <2>1, Counts
  <2> QED BY <1>0, <1>2, <2>2, Counts
<1>3. CASE a = 2
  <2>1. b \in {2, 3, 4, 5, 6, 7, 8, 9, 10, 11}
    BY <1>3
  <2>2. CountAt(b) >= 3
    BY <2>1, Counts
  <2> QED BY <1>0, <1>3, <2>2, Counts
<1>4. CASE a = 3
  <2>1. b \in {3, 4, 5, 6, 7, 8, 9, 10, 11}
    BY <1>4
  <2>2. CountAt(b) >= 4
    BY <2>1, Counts
  <2> QED BY <1>0, <1>4, <2>2, Counts
<1>5. CASE a = 4
  <2>1. b \in {4, 5, 6, 7, 8, 9, 10, 11}
    BY <1>5
  <2>2. CountAt(b) >= 5
    BY <2>1, Counts
  <2> QED BY <1>0, <1>5, <2>2, Counts
<1>6. CASE a = 5
  <2>1. b \in {5, 6, 7, 8, 9, 10, 11}
    BY <1>6
  <2>2. CountAt(b) >= 7
    BY <2>1, Counts
  <2> QED BY <1>0, <1>6, <2>2, Counts
<1>7. CASE a = 6
  <2>1. b \in {6, 7, 8, 9, 10, 11}
    BY <1>7
  <2>2. CountAt(b) >= 9
    BY <2>1, Counts
  <2> QED BY <1>0, <1>7, <2>2, Counts
<1>8. CASE a = 7
  <2>1. b \in {7, 8, 9, 10, 11}
    BY <1>8
  <2>2. CountAt(b) >= 11
    BY <2>1, Counts
  <2> QED BY <1>0, <1>8, <2>2, Counts
<1>9. CASE a = 8
  <2>1. b \in {8, 9, 10, 11}
    BY <1>9
  <2>2. CountAt(b) >= 13
    BY <2>1, Counts
  <2> QED BY <1>0, <1>9, <2>2, Counts
<1>10. CASE a = 9
  <2>1. b \in {9, 10, 11}
    BY <1>10
  <2>2. CountAt(b) >= 15
    BY <2>1, Counts
  <2> QED BY <1>0, <1>10, <2>2, Counts
<1>11. CASE a = 10
  <2>1. b \in {10, 11}
    BY <1>11
  <2>2. CountAt(b) >= 15
    BY <2>1, Counts
  <2> QED BY <1>0, <1>11, <2>2, Counts
<1>12. CASE a = 11
  <2>1. b \in {11}
    BY <1>12
  <2>2. CountAt(b) >= 16
    BY <2>1, Counts
  <2> QED BY <1>0, <1>12, <2>2, Counts
<1> QED BY <1>0, <1>1, <1>2, <1>3, <1>4, <1>5, <1>6, <1>7, <1>8, <1>9, <1>10, <1>11, <1>12

LEMMA CreatedInTurn ==
  ASSUME NEW p \in 1..16
  PROVE  \E v \in 0..10 : CountAt(v) < p /\ p <= CountAt(v + 1)
<1>1. CASE p \in {1, 2, 3}
  <2>1. CountAt(1) < p /\ p <= CountAt(2) /\ 2 = 1 + 1
    BY <1>1, Counts
  <2> QED BY <2>1
<1>2. CASE p \in {4}
  <2>1. CountAt(2) < p /\ p <= CountAt(3) /\ 3 = 2 + 1
    BY <1>2, Counts
  <2> QED BY <2>1
<1>3. CASE p \in {5}
  <2>1. CountAt(3) < p /\ p <= CountAt(4) /\ 4 = 3 + 1
    BY <1>3, Counts
  <2> QED BY <2>1
<1>4. CASE p \in {6, 7}
  <2>1. CountAt(4) < p /\ p <= CountAt(5) /\ 5 = 4 + 1
    BY <1>4, Counts
  <2> QED BY <2>1
<1>5. CASE p \in {8, 9}
  <2>1. CountAt(5) < p /\ p <= CountAt(6) /\ 6 = 5 + 1
    BY <1>5, Counts
  <2> QED BY <2>1
<1>6. CASE p \in {10, 11}
  <2>1. CountAt(6) < p /\ p <= CountAt(7) /\ 7 = 6 + 1
    BY <1>6, Counts
  <2> QED BY <2>1
<1>7. CASE p \in {12, 13}
  <2>1. CountAt(7) < p /\ p <= CountAt(8) /\ 8 = 7 + 1
    BY <1>7, Counts
  <2> QED BY <2>1
<1>8. CASE p \in {14, 15}
  <2>1. CountAt(8) < p /\ p <= CountAt(9) /\ 9 = 8 + 1
    BY <1>8, Counts
  <2> QED BY <2>1
<1>9. CASE p \in {16}
  <2>1. CountAt(10) < p /\ p <= CountAt(11) /\ 11 = 10 + 1
    BY <1>9, Counts
  <2> QED BY <2>1
<1> QED BY <1>1, <1>2, <1>3, <1>4, <1>5, <1>6, <1>7, <1>8, <1>9

LEMMA CreatedByIs ==
  ASSUME NEW v \in 0..10
  PROVE  CreatedBy(v + 1) = {t \in AllTables : CountAt(v) < Place[t] /\ Place[t] <= CountAt(v + 1)}
<1> DEFINE created == {t \in AllTables : CountAt(v) < Place[t] /\ Place[t] <= CountAt(v + 1)}
           js == {j \in 1..Len(Up(v)) : Up(v)[j].op = "create"}
<1>1. CreatedBy(v + 1) = {Up(v)[i].table : i \in js}
  BY DEF CreatedBy, Up
<1>2. CountAt(v) \in Nat /\ CountAt(v + 1) \in Nat /\ Len(Up(v)) \in 0..3
  BY Counts, UpLengths
<1>3. ASSUME NEW t, NEW def PROVE CreateTable(t, def).op = "create" /\ CreateTable(t, def).table = t
  BY DEF CreateTable
<1>4. CheckAdded.op # "create" /\ Seed.op # "create"
  BY DEF CheckAdded, AddCheck, Seed
<1>5. ASSUME NEW j \in js PROVE Up(v)[j].table \in created
  <2>1. j \in Nat \ {0} /\ j <= Len(Up(v)) /\ Up(v)[j].op = "create"
    BY <1>2
  <2>2. PICK n \in Nat : Creates(Up(v)[j], n) /\ CountAt(v) < n /\ n <= CountAt(v + 1)
    <3>1. CASE v \notin {9, 10}
      <4>1. Creates(Up(v)[j], CountAt(v) + j) /\ CountAt(v) + j <= CountAt(v + 1)
        BY <2>1, <3>1, UpScript
      <4> QED BY <1>2, <2>1, <4>1
    <3>2. CASE v = 9
      BY <1>4, <2>1, <3>2, UpScript
    <3>3. CASE v = 10
      <4>1. Creates(Up(v)[j], 16)
        BY <1>4, <2>1, <3>3, UpScript
      <4>2. v + 1 = 11 /\ CountAt(v) = 15 /\ CountAt(v + 1) = 16
        BY <3>3, Counts
      <4> QED BY <4>1, <4>2
    <3> QED BY <3>1, <3>2, <3>3
  <2>3. PICK t \in AllTables : Place[t] = n /\ Up(v)[j] = CreateTable(t, Made(t))
    BY <2>2 DEF Creates
  <2>4. Up(v)[j].table = t
    BY <1>3, <2>3
  <2> QED BY <2>2, <2>3, <2>4
<1>6. ASSUME NEW t \in created PROVE \E j \in js : Up(v)[j].table = t
  <2>0. t \in AllTables /\ CountAt(v) < Place[t] /\ Place[t] <= CountAt(v + 1) /\ Place[t] \in 1..16
    BY Places
  <2>1. v # 9
    BY <2>0, Counts
  <2>2. PICK j \in 1..Len(Up(v)) : Creates(Up(v)[j], Place[t])
    <3>1. CASE v = 10
      <4>1. Place[t] = 16 /\ 1 \in 1..Len(Up(v))
        <5>1. v + 1 = 11 /\ CountAt(v) = 15 /\ CountAt(v + 1) = 16
          BY <3>1, Counts
        <5>2. Len(Up(v)) = 2
          BY <3>1, UpLengths
        <5> QED BY <2>0, <5>1, <5>2
      <4>2. Creates(Up(v)[1], 16)
        BY <3>1, UpCreates
      <4> QED BY <4>1, <4>2
    <3>2. CASE v # 10
      <4> DEFINE k == Place[t] - CountAt(v)
      <4>1. CountAt(v) + Len(Up(v)) = CountAt(v + 1)
        BY <2>1, <3>2, Grows
      <4>2. k \in Nat \ {0} /\ k <= Len(Up(v)) /\ k \in 1..Len(Up(v)) /\ CountAt(v) + k = Place[t]
        <5> DEFINE a == CountAt(v)
                   b == CountAt(v + 1)
                   m == Len(Up(v))
                   p == Place[t]
        <5>1. m \in Nat
          BY <1>2
        <5>2. p \in Nat /\ a < p /\ p <= b
          BY <2>0
        <5>3. a \in Nat /\ b \in Nat /\ a + m = b
          BY <1>2, <4>1
        <5> HIDE DEF a, b, m, p
        <5>4. p - a \in Nat \ {0} /\ p - a <= m /\ p - a \in 1..m /\ a + (p - a) = p
          BY <5>1, <5>2, <5>3
        <5> QED BY <5>4 DEF a, m, p
      <4> HIDE DEF k
      <4>3. Creates(Up(v)[k], CountAt(v) + k)
        BY <2>1, <3>2, <4>2, UpScript
      <4> QED BY <4>2, <4>3
    <3> QED BY <3>1, <3>2
  <2>3. PICK u \in AllTables : Place[u] = Place[t] /\ Up(v)[j] = CreateTable(u, Made(u))
    BY <2>2 DEF Creates
  <2>4. u = t
    BY <2>0, <2>3, Places
  <2>5. Up(v)[j].op = "create" /\ Up(v)[j].table = t
    BY <1>3, <2>3, <2>4
  <2> QED BY <2>2, <2>5
<1> HIDE DEF js, created
<1>7. CreatedBy(v + 1) \subseteq created
  BY <1>1, <1>5
<1>8. created \subseteq CreatedBy(v + 1)
  BY <1>1, <1>6
<1> QED BY <1>7, <1>8 DEF created

\* The version tells which tables there are, and at the head they are those of the
\* models, constraint by constraint.
THEOREM VersionsTellSchemas == MigrationsSpec => []StampTellsSchema
<1>1. MigrationsIInv => StampTellsSchema
  <2> SUFFICES ASSUME MigrationsIInv, Idle, ~halfway
               PROVE  /\ DOMAIN durable.tables = UNION {CreatedBy(n) : n \in 1..durable.version}
                      /\ durable.version = Latest =>
                           \A t \in DOMAIN Models : durable.tables[t] = Models[t]
    BY DEF StampTellsSchema
  <2> DEFINE version == durable.version
             c == Checked(version, "done", 0)
  <2>1. version \in 0..11 /\ HasLayout(durable, "done", 0)
    <3>1. \A d \in {db, durable, stamped} : IsDatabase(d)
      BY DEF MigrationsIInv, MigrationsTypeOK, IsDatabase
    <3>2. durable = stamped /\ HasLayout(stamped, "done", 0)
      BY DEF MigrationsIInv
    <3>3. IsDatabase(durable)
      BY <3>1
    <3> QED BY <3>2, <3>3, DatabaseFields, LatestIs11
  <2>2. c \in BOOLEAN /\ CountAt(version) \in Nat /\ Count(version, "done", 0) = CountAt(version)
    BY <2>1, SameChecks, Fractions
  <2>3. durable.tables = Layout(CountAt(version), c)
    BY <2>1, <2>2 DEF HasLayout
  <2> HIDE DEF c
  <2>4. /\ DOMAIN durable.tables \subseteq AllTables
        /\ \A t \in AllTables : t \in DOMAIN durable.tables <=> Place[t] <= CountAt(version)
        /\ \A t \in DOMAIN durable.tables : durable.tables[t] = Def(t, c)
    BY <2>2, <2>3, LayoutIs
  <2>5. ASSUME NEW t \in DOMAIN durable.tables PROVE \E n \in 1..version : t \in CreatedBy(n)
    <3>1. t \in AllTables /\ Place[t] \in 1..16 /\ Place[t] <= CountAt(version)
      BY <2>4, Places
    <3>2. PICK v \in 0..10 : CountAt(v) < Place[t] /\ Place[t] <= CountAt(v + 1)
      BY <3>1, CreatedInTurn
    <3>3. t \in CreatedBy(v + 1)
      BY <3>1, <3>2, CreatedByIs
    <3>4. v + 1 \in 1..version
      <4>1. ASSUME version <= v PROVE FALSE
        <5>1. CountAt(version) <= CountAt(v) /\ CountAt(v) \in Nat
          <6>1. v \in 0..11
            OBVIOUS
          <6>2. CountAt(version) <= CountAt(v)
            BY <2>1, <4>1, <6>1, CountsAscend
          <6> QED BY <6>1, <6>2, Fractions
        <5> QED BY <2>2, <3>1, <3>2, <5>1
      <4> QED BY <2>1, <4>1
    <3> QED BY <3>3, <3>4
  <2>6. ASSUME NEW n \in 1..version, NEW t \in CreatedBy(n) PROVE t \in DOMAIN durable.tables
    <3>1. n - 1 \in 0..10 /\ (n - 1) + 1 = n /\ n \in 0..11 /\ n <= version
      BY <2>1
    <3>2. t \in AllTables /\ Place[t] <= CountAt(n) /\ Place[t] \in 1..16
      <4> DEFINE v == n - 1
      <4>1. v \in 0..10 /\ n = v + 1
        BY <3>1
      <4> HIDE DEF v
      <4>2. t \in CreatedBy(v + 1)
        BY <4>1
      <4>3. t \in AllTables /\ Place[t] <= CountAt(v + 1)
        BY <4>1, <4>2, CreatedByIs
      <4> QED BY <4>1, <4>3, Places
    <3>3. CountAt(n) <= CountAt(version) /\ CountAt(n) \in 0..16
      BY <2>1, <3>1, CountsAscend
    <3>4. Place[t] <= CountAt(version)
      BY <2>2, <3>2, <3>3
    <3> QED BY <2>4, <3>2, <3>4
  <2>7. ASSUME version = Latest, NEW t \in DOMAIN Models PROVE durable.tables[t] = Models[t]
    <3>1. c
      BY <2>7, LatestIs11 DEF c, Checked
    <3>2. t \in AllTables /\ t # "bootstrap_lock" /\ Place[t] <= 16
      BY Places
    <3>3. CountAt(version) = 16
      BY <2>7, LatestIs11, Counts
    <3>4. durable.tables[t] = Def(t, c)
      BY <2>4, <3>2, <3>3
    <3> QED BY <3>1, <3>2, <3>4 DEF Def
  <2> QED BY <2>5, <2>6, <2>7
<1> QED BY <1>1, MigrationsIInvHolds, PTL
=============================================================================
