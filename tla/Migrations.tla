----------------------------- MODULE Migrations -----------------------------
(***************************************************************************)
(* The alembic revisions of migrations/versions, in their order, and the   *)
(* runs of `upgrade` and `downgrade` that env.py starts.                   *)
(*                                                                         *)
(* On PostgreSQL a run is one transaction.  MySQL commits at every DDL     *)
(* statement, so that a run that dies leaves a part of a revision behind;  *)
(* there what is left to the transaction of each revision are the rows it  *)
(* inserts and the version it stamps.                                      *)
(***************************************************************************)
EXTENDS Naturals, Sequences, Schema

VARIABLES
  db,             \* the database as the run sees it
  durable,        \* what the database has if the run dies now
  stamped,        \* the database as the run found it, or when it last stamped a version
  run,            \* the direction of the run and the operations done of a revision
  halfway,        \* history: part of a revision was left behind
  transactional   \* whether DDL can be rolled back (PostgreSQL)

migrationVars == <<db, durable, stamped, run, halfway, transactional>>

----------------------------------------------------------------------------
(* Operations of alembic.op *)

CreateTable(table, def) == [op |-> "create", table |-> table, def |-> def]
DropTable(table) == [op |-> "drop", table |-> table]
AddCheck(table, name) == [op |-> "check", table |-> table, name |-> name]
DropCheck(table, name) == [op |-> "uncheck", table |-> table, name |-> name]
Seed == [op |-> "seed"]

\* What a foreign key refers to must exist, with just these columns as a key.
Referable(ref, o, tables) ==
  LET keys == IF ref.to = o.table THEN o.def.keys
              ELSE IF ref.to \in DOMAIN tables THEN tables[ref.to].keys ELSE {}
  IN {ref.columns[c] : c \in DOMAIN ref.columns} \in keys

\* Whether a database d executes an operation, and what it is afterwards.
Possible(o, d) ==
  LET tables == d.tables IN
  CASE o.op = "create"  -> /\ o.table \notin DOMAIN tables
                           /\ \A ref \in o.def.refs : Referable(ref, o, tables)
    [] o.op = "drop"    -> /\ o.table \in DOMAIN tables
                           /\ \A t \in DOMAIN tables \ {o.table} :
                                \A ref \in tables[t].refs : ref.to # o.table
    [] o.op = "check"   -> o.table \in DOMAIN tables /\ d.fits
    [] o.op = "uncheck" -> o.table \in DOMAIN tables /\ o.name \in tables[o.table].checks
    [] o.op = "seed"    -> "bootstrap_lock" \in DOMAIN tables

After(d, o) ==
  LET tables == d.tables IN
  CASE o.op = "create"  -> [d EXCEPT !.tables =
                             [t \in DOMAIN tables \cup {o.table} |->
                                IF t = o.table THEN o.def ELSE tables[t]]]
    [] o.op = "drop"    -> [d EXCEPT !.tables =
                              [t \in DOMAIN tables \ {o.table} |-> tables[t]],
                             !.fits = @ \/ o.table = "mcp_service",
                             !.seeded = @ /\ o.table # "bootstrap_lock"]
    [] o.op = "check"   -> [d EXCEPT !.tables[o.table].checks = @ \cup {o.name}]
    [] o.op = "uncheck" -> [d EXCEPT !.tables[o.table].checks = @ \ {o.name}]
    [] o.op = "seed"    -> [d EXCEPT !.seeded = TRUE]

----------------------------------------------------------------------------
(* The revisions *)

M1Db003 == [up |-> <<>>, down |-> <<>>]

M1Model001 ==
  [up |-> <<
     CreateTable("user", Table({{"username_normalized"}}, {},
       [role |-> {"admin", "user"}, status |-> {"active", "disabled", "locked"}], NoChecks)),
     CreateTable("team", Table({{"key_normalized"}}, {},
       [status |-> {"active", "archived"}], NoChecks)),
     CreateTable("team_membership", Table({{"team_id", "user_id"}},
       {Ref("team_id", "team"), Ref("user_id", "user")},
       [team_role |-> {"admin", "member"}], NoChecks)) >>,
   down |-> <<DropTable("team_membership"), DropTable("team"), DropTable("user")>>]

M1Model002 ==
  [up |-> <<
     CreateTable("mcp_service",
       Table({{"namespace_key", "name_normalized", "uniqueness_scope"}},
       {Ref("team_id", "team")},
       [type |-> ServiceTypes,
        desired_status |-> {"enabled", "disabled"},
        runtime_status |-> {"pending", "ready", "degraded", "unhealthy", "failed"},
        agent_auth_mode |-> {"api_key", "none", "oauth2"}],
       {"generation_order", "stdio_only_null_for_non_stdio"})) >>,
   down |-> <<DropTable("mcp_service")>>]

M1Model003 ==
  [up |-> <<
     CreateTable("service_config_revision",
       Table({{"service_id", "generation"}, {"id", "service_id"}}, {OfService},
         [config_kind |-> ServiceTypes,
          source_mode |-> {"fastmcp_introspection", "descriptor", "manual", "remote_sync"},
          state |-> {"draft", "validating", "validated", "active", "rejected", "superseded"}],
         NoChecks)) >>,
   down |-> <<DropTable("service_config_revision")>>]

M1Model004 ==
  [up |-> <<
     CreateTable("toolset", Table({{"service_id", "version_no"}, {"id", "service_id"}},
       {OfService, Ref("config_revision_id", "service_config_revision")},
       [source_kind |-> {"manual", "fastmcp", "descriptor", "remote_mcp"},
        state |-> {"staging", "validating", "validated", "active", "rejected", "retired"}],
       {"tool_count"})),
     CreateTable("mcp_tool", Table({{"toolset_id", "name"}},
       {Cascading(Ref("toolset_id", "toolset")), OfService,
        [columns |-> [toolset_id |-> "id", service_id |-> "service_id"],
         to |-> "toolset", cascade |-> TRUE]},
       [source |-> {"manual", "synced"}], NoChecks)) >>,
   down |-> <<DropTable("mcp_tool"), DropTable("toolset")>>]

CreateServiceArtifact ==
  CreateTable("service_artifact", Table({{"storage_backend", "object_key"}},
    {OfService, Ref("config_revision_id", "service_config_revision")},
    [kind |-> {"source_package", "descriptor", "build_bundle", "container_image", "build_log"},
     storage_backend |-> {"filesystem", "s3", "minio", "registry"},
     state |-> {"staging", "available", "quarantined", "gc_pending", "deleted"}],
    {"size_bytes_non_negative"}))

CreateBuildRun ==
  CreateTable("build_run", Table({},
    {OfService, Ref("config_revision_id", "service_config_revision"),
     Ref("source_artifact_id", "service_artifact"),
     Ref("output_artifact_id", "service_artifact"), Ref("log_artifact_id", "service_artifact")},
    [strategy |-> {"fastmcp", "descriptor", "custom_adapter"},
     status |-> {"queued", "building", "validating", "succeeded", "failed", "cancelled",
                 "superseded"}],
    NoChecks))

\* Mutants: the tables are created in the wrong order, and one is not dropped.
M1Model005_Unordered ==
  [up |-> <<CreateBuildRun, CreateServiceArtifact>>,
   down |-> <<DropTable("build_run"), DropTable("service_artifact")>>]
M1Model005_KeepsTable ==
  [up |-> <<CreateServiceArtifact, CreateBuildRun>>, down |-> <<DropTable("build_run")>>]

M1Model005 ==
  [up |-> <<CreateServiceArtifact, CreateBuildRun>>,
   down |-> <<DropTable("build_run"), DropTable("service_artifact")>>]

M1Model006 ==
  [up |-> <<
     CreateTable("service_condition", Table({{"service_id", "type"}}, {OfService},
       [type |-> {"ConfigReady", "BuildReady", "ToolsReady", "RuntimeHealthy",
                  "UpstreamReachable"},
        status |-> {"true", "false", "unknown"}], NoChecks)),
     CreateTable("mcp_task", Table({},
       {OfService, Ref("tool_id", "mcp_tool"), Ref("result_artifact_id", "service_artifact")},
       [status |-> {"working", "input_required", "completed", "failed", "cancelled"}],
       {"poll_interval_positive"})) >>,
   down |-> <<DropTable("mcp_task"), DropTable("service_condition")>>]

M1Model007 ==
  [up |-> <<
     CreateTable("mcp_service_permission", Table({{"service_id", "principal_key"}},
       {OfService, Ref("user_id", "user"), Ref("team_id", "team")},
       [principal_type |-> {"user", "team", "everyone"}, role |-> {"editor", "viewer"}],
       {"user_id_consistency", "team_id_consistency", "role_scope"})),
     CreateTable("api_key", Table({{"public_id"}, {"secret_hash"}},
       {OfService, Ref("revoked_by", "user")}, [status |-> {"active", "revoked"}],
       {"expires_after_created", "revoked_requires_revoked_at", "rate_limit_qps_positive",
        "rate_limit_burst_min"})) >>,
   down |-> <<DropTable("api_key"), DropTable("mcp_service_permission")>>]

M1Model008 ==
  [up |-> <<
     CreateTable("audit_event", Table({}, {},
       [actor_type |-> {"user", "api_key", "system", "anonymous"},
        result |-> {"success", "denied", "failed"}], NoChecks)),
     CreateTable("outbox", Table({{"service_id", "requested_generation", "operation_kind"}}, {},
       [status |-> {"pending", "in_flight", "done", "failed"}],
       {"attempt_count_non_negative"})) >>,
   down |-> <<DropTable("outbox"), DropTable("audit_event")>>]

M1Delete001 ==
  [up |-> <<AddCheck("mcp_service", "deleted_scope_consistency")>>,
   down |-> <<DropCheck("mcp_service", "deleted_scope_consistency")>>]

BootstrapLock == Table({}, {}, <<>>, NoChecks)

\* Mutant: the table is created and its row forgotten.
M2Auth001_NoRow ==
  [up |-> <<CreateTable("bootstrap_lock", BootstrapLock)>>,
   down |-> <<DropTable("bootstrap_lock")>>]

M2Auth001 ==
  [up |-> <<CreateTable("bootstrap_lock", BootstrapLock), Seed>>,
   down |-> <<DropTable("bootstrap_lock")>>]

\* The chain of down_revision.
Revisions ==
  <<M1Db003, M1Model001, M1Model002, M1Model003, M1Model004, M1Model005, M1Model006,
    M1Model007, M1Model008, M1Delete001, M2Auth001>>

Latest == Len(Revisions)

----------------------------------------------------------------------------
(* env.py and alembic *)

\* fits: the rows of mcp_service satisfy the check that M1Delete001 adds.
MigrationsTypeOK ==
  /\ \A d \in {db, durable, stamped} :
       /\ d \in [tables : {d.tables}, version : 0..Latest, seeded : BOOLEAN, fits : BOOLEAN]
       /\ DOMAIN d.tables \subseteq DOMAIN Models \cup {"bootstrap_lock"}
  /\ run \in [to : {"up", "down", "done", "failed"}, done : 0..3]
  /\ halfway \in BOOLEAN /\ transactional \in BOOLEAN

NoRun == [to |-> "done", done |-> 0]

\* A new database; one of any age is what runs have left.
MigrationsInit ==
  /\ db = [tables |-> <<>>, seeded |-> FALSE, fits |-> TRUE, version |-> 0]
  /\ durable = db
  /\ stamped = db
  /\ run = NoRun
  /\ halfway = FALSE
  /\ transactional \in BOOLEAN

Idle == run.to \in {"done", "failed"}

\* The operations of the next revision, if the run is not at the end.
Left == IF run.to = "up" THEN db.version < Latest ELSE db.version > 0
Operations ==
  IF run.to = "up" THEN Revisions[db.version + 1].up ELSE Revisions[db.version].down

StartRun(to) ==
  /\ Idle
  /\ run' = [to |-> to, done |-> 0]
  /\ UNCHANGED <<db, durable, stamped, halfway, transactional>>

\* The transaction that is open is rolled back.
Stops(outcome) ==
  /\ run' = [NoRun EXCEPT !.to = outcome]
  /\ db' = durable
  /\ stamped' = durable
  /\ halfway' = (halfway \/ durable.tables # stamped.tables)

\* A statement is executed, or the database refuses it and the run ends.
Execute ==
  /\ ~Idle /\ Left
  /\ run.done < Len(Operations)
  /\ LET o == Operations[run.done + 1] IN
       \/ /\ Possible(o, db)
          /\ db' = After(db, o)
          /\ durable' = IF transactional \/ o.op = "seed" THEN durable ELSE db'
          /\ run' = [run EXCEPT !.done = @ + 1]
          /\ UNCHANGED <<stamped, halfway>>
       \/ /\ ~Possible(o, db)
          /\ Stops("failed")
          /\ UNCHANGED durable
  /\ UNCHANGED transactional

\* The version is updated; on MySQL the transaction of the revision ends.
Stamp ==
  /\ ~Idle /\ Left
  /\ run.done = Len(Operations)
  /\ db' = [db EXCEPT !.version = IF run.to = "up" THEN @ + 1 ELSE @ - 1]
  /\ durable' = IF transactional THEN durable ELSE db'
  /\ stamped' = durable'
  /\ run' = [run EXCEPT !.done = 0]
  /\ UNCHANGED <<halfway, transactional>>

\* The revision the operator asked for is reached.
Finish ==
  /\ ~Idle /\ run.done = 0
  /\ run' = NoRun
  /\ durable' = db
  /\ stamped' = db
  /\ UNCHANGED <<db, halfway, transactional>>

Dies ==
  /\ ~Idle
  /\ Stops("failed")
  /\ UNCHANGED <<durable, transactional>>

\* Between runs rows are written, by a statement that leaves uniqueness_scope to
\* the server's default for one: only the check would refuse them.
WriteRows ==
  /\ Idle
  /\ "mcp_service" \in DOMAIN db.tables
  /\ "deleted_scope_consistency" \notin db.tables["mcp_service"].checks
  /\ db' = [db EXCEPT !.fits = ~@]
  /\ durable' = [durable EXCEPT !.fits = db'.fits]
  /\ stamped' = durable'
  /\ UNCHANGED <<run, halfway, transactional>>

MigrationsNext ==
  (\E to \in {"up", "down"} : StartRun(to)) \/ Execute \/ Stamp \/ Finish \/ Dies \/ WriteRows

MigrationsSpec == MigrationsInit /\ [][MigrationsNext]_migrationVars

----------------------------------------------------------------------------
(* Properties *)

Refused ==
  ~Idle /\ Left /\ run.done < Len(Operations) /\ ~Possible(Operations[run.done + 1], db)

\* From any version to any other, up or down, no revision is refused: every table
\* is created after those it refers to, with the keys its foreign keys need, and
\* dropped before them, whatever the rows; unless an earlier run left a part of a
\* revision behind, or the revision adds a check that rows contradict (upgrade and
\* downgrade of versions/).
RunsSucceed ==
  Refused => halfway \/ (Operations[run.done + 1].op = "check" /\ ~db.fits)

CreatedBy(n) == {Revisions[n].up[i].table : i \in
  {j \in 1..Len(Revisions[n].up) : Revisions[n].up[j].op = "create"}}

\* The version tells which tables there are, and at the head they are those of the
\* models, constraint by constraint, whichever way and in however many runs the
\* head was reached.
StampTellsSchema ==
  Idle /\ ~halfway =>
    /\ DOMAIN durable.tables = UNION {CreatedBy(n) : n \in 1..durable.version}
    /\ durable.version = Latest =>
         \A t \in DOMAIN Models : durable.tables[t] = Models[t]

\* With the head stamped a bootstrap_lock table has its row, even after crashes:
\* without the row bootstrap_first_admin would lock nothing (m2_auth_001 37-43).
LockRowIsThere ==
  durable.version = Latest /\ "bootstrap_lock" \in DOMAIN durable.tables => durable.seeded

----------------------------------------------------------------------------
(* The layout of a database that no part of a revision was left in *)

\* The tables in the order in which the revisions create them, and how many there
\* are at a version.
Place ==
  [user |-> 1, team |-> 2, team_membership |-> 3, mcp_service |-> 4,
   service_config_revision |-> 5, toolset |-> 6, mcp_tool |-> 7, service_artifact |-> 8,
   build_run |-> 9, service_condition |-> 10, mcp_task |-> 11, mcp_service_permission |-> 12,
   api_key |-> 13, audit_event |-> 14, outbox |-> 15, bootstrap_lock |-> 16]

CountAt(version) ==
  IF version = 0 THEN 0 ELSE <<0, 3, 4, 5, 7, 9, 11, 13, 15, 15, 16>>[version]

\* A table of the models; mcp_service is one check short before M1Delete001.
Def(t, checked) ==
  IF t = "bootstrap_lock" THEN BootstrapLock
  ELSE IF t = "mcp_service" /\ ~checked
       THEN [Models[t] EXCEPT !.checks = @ \ {"deleted_scope_consistency"}]
       ELSE Models[t]

Layout(n, checked) == [t \in {t \in DOMAIN Place : Place[t] <= n} |-> Def(t, checked)]

\* How far a run has got: each operation makes or drops the next table, but for those
\* of M1Delete001 and the row of M2Auth001.
Count(version, to, done) ==
  CASE to = "up" /\ version = 9    -> CountAt(version)
    [] to = "up" /\ version = 10   -> IF done = 0 THEN 15 ELSE 16
    [] to = "down" /\ version = 10 -> CountAt(version)
    [] to = "down" /\ version # 10 -> CountAt(version) - done
    [] OTHER                       -> CountAt(version) + done

Checked(version, to, done) ==
  \/ version = 9 /\ to = "up" /\ done = 1
  \/ version = 10 /\ ~(to = "down" /\ done = 1)
  \/ version = 11

HasLayout(d, to, done) ==
  d.tables = Layout(Count(d.version, to, done), Checked(d.version, to, done))

LockRowIn(d) == d.version = Latest /\ "bootstrap_lock" \in DOMAIN d.tables => d.seeded

MigrationsIInv ==
  /\ MigrationsTypeOK
  \* how far a run has come
  /\ Idle => run.done = 0 /\ db = durable /\ durable = stamped
  /\ ~Idle => run.done <= IF Left THEN Len(Operations) ELSE 0
  \* what is durable
  /\ transactional => durable = stamped /\ ~halfway
  /\ ~transactional => /\ durable.tables = db.tables
                        /\ durable.version = db.version /\ stamped.version = db.version
  \* what there is
  /\ ~halfway => HasLayout(db, run.to, run.done) /\ HasLayout(stamped, "done", 0)
  /\ LockRowIn(db) /\ LockRowIn(durable)
  /\ run.to = "up" /\ db.version = 10 /\ run.done = 2 => db.seeded
=============================================================================
