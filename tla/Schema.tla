------------------------------- MODULE Schema -------------------------------
(***************************************************************************)
(* The tables of db/models.py: of each one its unique keys, its foreign    *)
(* keys, the columns that hold a code with their codes, and its other      *)
(* checks.  The id is a key of every table.  Columns that no constraint    *)
(* mentions are left out.                                                  *)
(***************************************************************************)

\* domains: a column and the codes it may hold; checks: the names of the others.
Table(keys, refs, domains, checks) ==
  [keys |-> {{"id"}} \cup keys, refs |-> refs, domains |-> domains, checks |-> checks]

\* A foreign key maps columns to columns of another table.
Ref(column, table) == [columns |-> [c \in {column} |-> "id"], to |-> table, cascade |-> FALSE]
Cascading(ref) == [ref EXCEPT !.cascade = TRUE]
OfService == Ref("service_id", "mcp_service")

NoChecks == {}

ServiceTypes == {"http_api", "stdio", "mcp_http"}

User ==
  Table({{"username_normalized"}}, {},
    [role |-> {"admin", "user"}, status |-> {"active", "disabled", "locked"}], NoChecks)

Team ==
  Table({{"key_normalized"}}, {}, [status |-> {"active", "archived"}], NoChecks)

TeamMembership ==
  Table({{"team_id", "user_id"}}, {Ref("team_id", "team"), Ref("user_id", "user")},
    [team_role |-> {"admin", "member"}], NoChecks)

Service ==
  Table({{"namespace_key", "name_normalized", "uniqueness_scope"}}, {Ref("team_id", "team")},
    [type |-> ServiceTypes,
     desired_status |-> {"enabled", "disabled"},
     runtime_status |-> {"pending", "ready", "degraded", "unhealthy", "failed"},
     agent_auth_mode |-> {"api_key", "none", "oauth2"}],
    {"generation_order", "stdio_only_null_for_non_stdio", "deleted_scope_consistency"})

ServiceConfigRevision ==
  Table({{"service_id", "generation"}, {"id", "service_id"}}, {OfService},
    [config_kind |-> ServiceTypes,
     source_mode |-> {"fastmcp_introspection", "descriptor", "manual", "remote_sync"},
     state |-> {"draft", "validating", "validated", "active", "rejected", "superseded"}],
    NoChecks)

Toolset ==
  Table({{"service_id", "version_no"}, {"id", "service_id"}},
    {OfService, Ref("config_revision_id", "service_config_revision")},
    [source_kind |-> {"manual", "fastmcp", "descriptor", "remote_mcp"},
     state |-> {"staging", "validating", "validated", "active", "rejected", "retired"}],
    {"tool_count"})

\* Mutant: both foreign keys are there, but nothing ties one to the other.
McpTool_TwoParents ==
  Table({{"toolset_id", "name"}}, {Cascading(Ref("toolset_id", "toolset")), OfService},
    [source |-> {"manual", "synced"}], NoChecks)

\* A tool names its service, and the second foreign key makes it its toolset's.
McpTool ==
  Table({{"toolset_id", "name"}},
    {Cascading(Ref("toolset_id", "toolset")), OfService,
     [columns |-> [toolset_id |-> "id", service_id |-> "service_id"],
      to |-> "toolset", cascade |-> TRUE]},
    [source |-> {"manual", "synced"}], NoChecks)

ServiceArtifact ==
  Table({{"storage_backend", "object_key"}},
    {OfService, Ref("config_revision_id", "service_config_revision")},
    [kind |-> {"source_package", "descriptor", "build_bundle", "container_image", "build_log"},
     storage_backend |-> {"filesystem", "s3", "minio", "registry"},
     state |-> {"staging", "available", "quarantined", "gc_pending", "deleted"}],
    {"size_bytes_non_negative"})

BuildRun ==
  Table({},
    {OfService, Ref("config_revision_id", "service_config_revision")} \cup
      {Ref(c, "service_artifact") :
         c \in {"source_artifact_id", "output_artifact_id", "log_artifact_id"}},
    [strategy |-> {"fastmcp", "descriptor", "custom_adapter"},
     status |-> {"queued", "building", "validating", "succeeded", "failed", "cancelled",
                 "superseded"}],
    NoChecks)

ServiceCondition ==
  Table({{"service_id", "type"}}, {OfService},
    [type |-> {"ConfigReady", "BuildReady", "ToolsReady", "RuntimeHealthy", "UpstreamReachable"},
     status |-> {"true", "false", "unknown"}],
    NoChecks)

\* Mutant: a task goes with its tool.
McpTask_Cascading ==
  Table({}, {OfService, Cascading(Ref("tool_id", "mcp_tool"))},
    [status |-> {"working", "completed"}], NoChecks)

McpTask ==
  Table({},
    {OfService, Ref("tool_id", "mcp_tool"), Ref("result_artifact_id", "service_artifact")},
    [status |-> {"working", "input_required", "completed", "failed", "cancelled"}],
    {"poll_interval_positive"})

McpServicePermission ==
  Table({{"service_id", "principal_key"}},
    {OfService, Ref("user_id", "user"), Ref("team_id", "team")},
    [principal_type |-> {"user", "team", "everyone"}, role |-> {"editor", "viewer"}],
    {"user_id_consistency", "team_id_consistency", "role_scope"})

ApiKey ==
  Table({{"public_id"}, {"secret_hash"}}, {OfService, Ref("revoked_by", "user")},
    [status |-> {"active", "revoked"}],
    {"expires_after_created", "revoked_requires_revoked_at", "rate_limit_qps_positive",
     "rate_limit_burst_min"})

AuditEvent ==
  Table({}, {},
    [actor_type |-> {"user", "api_key", "system", "anonymous"},
     result |-> {"success", "denied", "failed"}], NoChecks)

Outbox ==
  Table({{"service_id", "requested_generation", "operation_kind"}}, {},
    [status |-> {"pending", "in_flight", "done", "failed"}], {"attempt_count_non_negative"})

\* Base.metadata
Models ==
  [user |-> User, team |-> Team, team_membership |-> TeamMembership,
   mcp_service |-> Service, service_config_revision |-> ServiceConfigRevision,
   toolset |-> Toolset, mcp_tool |-> McpTool, service_artifact |-> ServiceArtifact,
   build_run |-> BuildRun, service_condition |-> ServiceCondition, mcp_task |-> McpTask,
   mcp_service_permission |-> McpServicePermission, api_key |-> ApiKey,
   audit_event |-> AuditEvent, outbox |-> Outbox]

\* The columns of keys and foreign keys that are nullable; the others are not.
ToolsetNullable == {<<"toolset", "config_revision_id">>}
ArtifactNullable == {<<"service_artifact", "config_revision_id">>}
BuildRunNullable == {<<"build_run", c>> : c \in {"output_artifact_id", "log_artifact_id"}}
TaskNullable == {<<"mcp_task", "result_artifact_id">>}
PermissionNullable == {<<"mcp_service_permission", c>> : c \in {"user_id", "team_id"}}
ApiKeyNullable == {<<"api_key", "revoked_by">>}
OutboxNullable ==
  {<<"outbox", c>> : c \in {"service_id", "requested_generation", "operation_kind"}}

Nullable ==
  ToolsetNullable \cup ArtifactNullable \cup BuildRunNullable \cup TaskNullable
    \cup PermissionNullable \cup ApiKeyNullable \cup OutboxNullable
=============================================================================
