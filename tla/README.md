# LiteMCP in TLA+

Specifications of the LiteMCP backend (`backend/src/litemcp`), checked by TLC
and, where it says so below, proved with TLAPS. Paths are relative to the root
of the repository; `auth/…`, `db/…`, `security/…` to `backend/src/litemcp`.

```
tlc -workers 2 -config MCRefreshSessionsTime.cfg MCRefreshSessions
tlc -workers 2 -config MCPlatform.cfg MCPlatform
tlapm RefreshSessionsProofs.tla
tlapm PlatformProofs.tla
```

## 1. Inventory

The backend is a library of admin-authentication functions, a schema, and a few
services beside it. HTTP endpoints for authentication are still stubs that
answer 401 (`main.py`), so the functions are specified as they stand, under any
caller that respects what their docstrings ask for. Nothing in the process holds
state between calls: all of it is in Redis and in the database, and all
concurrency comes from workers that share them.

| Component | State | Operations | What makes it correct |
|---|---|---|---|
| Refresh sessions: `auth/session.py`, `auth/refresh.py`, `auth/logout.py` | Redis hash `admin_session:<id>` with its expiry, Redis set `user_sessions:<user>`, `user.status`, `user.password_changed_at` | login, rotation, reuse detection, logout, logout everywhere | one success per secret; a revoked session never works again; the set finds every session; expiries only as promised; every reuse audited |
| Login lockout: `auth/lockout.py` | `user.status`, failure count, window start, `locked_until` | prepare attempt, record failure, record success | no failure lost; threshold closes; disabled stays disabled; locks last |
| Units of work: `db/session.py` | identity map of one `AsyncSession` | session, commit, rollback | objects are as fresh as their readers think |
| Access tokens: `auth/access_jwt.py` | keyring in settings, `user` row | verify | no token outlives a password change or a disabled account; a worker that had a token's key verifies it until it expires |
| Bootstrap: `auth/bootstrap.py` | `bootstrap_lock` row, `user` table | create the first admin | at most one, however many start at once |
| Capabilities: `auth/rbac.py`, `auth/service_rbac.py` | none of its own: values of a `CurrentUser`, a list of admin ids | authorize | an active admin always remains; decisions on fresh facts |
| Passwords: `auth/password.py`, `auth/password_migration.py` | `user.password_hash` | hash, verify, upgrade from bcrypt | an upgrade never changes which password is right |
| Service catalog: `db/models.py`, migrations | tables of services, revisions, toolsets, tools, artifacts, builds, memberships, conditions, tasks, permissions, keys, audit events, outbox | rows under unique, foreign-key and check constraints | names unique among undeleted rows; tools stay with their service; tasks keep their tool; a lost row is a lost right |
| Service repository: `db/repository.py` | `mcp_service.row_version` | compare-and-swap update | no lost update |
| API keys: `security/api_keys.py` | key rows, audit events | create, verify | a plaintext is returned once, and only of a stored key; `created` is audited only of one |
| Object storage: `storage.py` | files | put, get, delete | a put that nothing disturbs is read whole; nothing older is read with it |
| Readiness: `main.py` | none | probe database and Redis | an answer within a time limit |
| CSRF, encryption, redaction, correlation: `security/…`, `correlation.py` | none | functions on strings | unit-tested |
| Configuration: `core/config.py` | settings | load, refuse unsafe production values | unit-tested; its bounds are the ASSUMEs here |
| Migrations: `migrations/env.py`, `migrations/versions` | schema, stamped version, one seeded row | upgrade, downgrade | no revision is refused; the head is the schema of the models; the seeded row is there |
| Worker, frontend, scripts | – | placeholder, static pages, CI checks | – |

How they interact: login checks a password between two calls of the lockout and
then opens a session; rotation reads Redis several times, then the users table;
a reuse deletes from Redis and then writes an audit row to the database;
administrators change users while all of this runs. Redis commands and database
transactions are each atomic; a sequence of them is not.

Hard behaviours, in order of what depends on them: overlapping rotations and
revocations of one session; a login against a logout everywhere; crashes between
two commands; expiry of keys between two commands; an account changed between
two transactions of one login; stale objects in a session of the ORM;
check-then-act by administrators; keys rotated worker by worker under tokens in
use; compare-and-swap editors against deletes and restores; migrations that die
halfway on a database that commits every DDL statement.
`PROJECT.json` lists them line by line under "hazards", with the properties
that catch them.

## 2. Modules

| Module | Models | Proved in |
|---|---|---|
| `RefreshSessions`, abstractly `SessionLifecycle` | `auth/session.py`, `auth/refresh.py`, `auth/logout.py` | `RefreshSessionsProofs` |
| `LoginLockout` | `auth/lockout.py`, `db/session.py` | `LoginLockoutProofs` |
| `Administration` | `auth/bootstrap.py`, `auth/rbac.py` | `AdministrationProofs` |
| `AccessTokens` | `auth/session.py` 52-90, `auth/access_jwt.py` | `AccessTokensProofs` |
| `ServiceEditing`, abstractly `VersionedRow` | `db/repository.py`, `mcp_service` of `db/models.py` | `ServiceEditingProofs` |
| `Schema` | every table of `db/models.py` | |
| `CatalogRows`, over `Schema` | statements under those constraints, `auth/service_rbac.py` | `StorageProofs` |
| `Migrations`, over `Schema` | `migrations/env.py`, `migrations/versions` | `MigrationsProofs` |
| `ApiKeys` | `security/api_keys.py` | `StorageProofs` |
| `ObjectStorage` | `storage.py` | `StorageProofs` |
| `PasswordUpgrade` | `auth/password_migration.py`, `auth/password.py` | `StorageProofs` |
| `MCPlatform` | all of these but the first two, in one instance | `PlatformProofs` |

`MCRefreshSessions` and `MCLoginLockout` add symmetry to one module each.
`MCPlatform` brings the others into one instance: its variable `part` says which
component a behavior is of, and the rest stay as they begin. They share no
variable, so that interleaving them would multiply states and show nothing new.
Where components do meet on a row, the module of each has the other's writes to it
as actions of its own: a lockout in `Administration`, a change of password or
status in `AccessTokens`, `RefreshSessions` and `PasswordUpgrade`.

The order was that of dependence: sessions and lockout first, then what decides who
is let in (administration, tokens), then the data (services, catalog,
migrations), then the small services. What could follow, and is not begun: writers
of the catalog tables, once the backend has them (section 10).

## 3. Refresh sessions

`RefreshSessions.tla` models login, rotation, reuse detection and both logouts.
A *request* is one call of one of these functions. Its `pc` is the next Redis or
database operation it will make; each action is one such operation with the
local computation before the next one, because that is where an `await` (or a
blocking client call in another worker) lets others run.

| Action | Code |
|---|---|
| `LoginStart`, `LoginPipe` | `create_login_session`: everything up to the pipeline; the MULTI/EXEC of HSET, EXPIRE, SADD |
| `RotateStart`, `RotateExists`, `RotateRead…` | `rotate_refresh_token`: capture `moment`, EXISTS, HGETALL and the tests on it |
| `RotateHset`, `RotateConfirm`, `RotateExpire` | the unconditional HSET of three fields, the second HGETALL, EXPIRE with the whole seconds left |
| `RotateLoadUser`, `RotateMint` | `_load_user` and the tests of status and password change; the tokens returned |
| `ReuseDel`, `ReuseSrem`, `ReuseAudit` | `_revoke_refresh_family_on_reuse` |
| `CurrentStart`, `CurrentGet` | `logout_current_session`, whose GET meets a hash |
| `AllStart`, `AllMembers`, `AllDel`, `AllDelSet`, `AllAudit` | `logout_all_sessions`; SMEMBERS has no order, so neither have the DELs |
| `Tick`, `ChangePassword`, `SetStatus` | the clock with Redis expiry; whatever writes the users table |

A session id and its first secret are named by the login that drew them, later
secrets by the rotation that drew them; hashes are injective. A hash without
login fields is what HSET leaves when it recreates a deleted key. There is one
clock: the application's and Redis's are taken to agree, as the code does.

A crash needs no action: a request that never moves again is a crashed worker,
or one whose Redis or database call raised, since no function here catches that
and none undoes what it did before.

`SessionLifecycle.tla` is the promise to a session's holder: opened once, on
terms that never change; every secret used once; closed for good. The mapping
takes a session as live when a rotation would accept its hash, so a key that
HSET recreated is, as it should be, dead. `ImplementsLifecycle` is checked and
proved.

## 4. Login lockout

`LoginLockout.tla` models the three functions on one users row. `LockRow` is
SELECT … FOR UPDATE, `Deny` and `Admit` are `prepare_login_attempt`,
`RecordFailure` and `RecordSuccess` the other two, `Verify` the password check in
between, `Abort` a rollback, `Disable` an administrator's UPDATE. The code leaves
transactions to its caller, so `mode` is chosen initially among the three ways:

- `joined`: one transaction spans the attempt;
- `separate`: each call has its own session and transaction, as in the tests;
- `reused`: each call has its own transaction in one session of
  `AsyncSessionFactory`. A query does not refresh the attributes of an object the
  session holds, `expire_on_commit=False` keeps them over a commit, and a caller
  holds the object because `prepare_login_attempt` returns it for the password
  check. `Flush` then writes only the columns that differ from that old state.

`strikes` is a history variable: the failures recorded since the counters were
cleared. `CountIsExact` compares the count with it.

## 5. Administration and access tokens

`Administration.tla`. An *installer* is a caller of `bootstrap_first_admin`:
`InstallLock` is SELECT … FOR UPDATE of the seeded row, `InstallCount` the count,
`InstallInsert` the flush, `InstallCommit` and `InstallAbort` the end of the
caller's transaction, which also releases the row. `seeded` is chosen initially,
because without its row the lock is no lock, and then only the unique username
separates installers. The count is taken to see what has been committed: on MySQL,
under REPEATABLE READ, that needs a transaction which has not read before, as
`bootstrap_first_admin` expects of its caller.

The rules of `auth/rbac.py` are operators (`HasCapability`,
`WouldRemoveLastActiveAdmin`, `Allowed`). A *call* reads its actor
(`CallVerify`), reads target and active admins and asks (`CallDecide`), and writes
(`CallWrite`). The functions are handed these values and lock nothing, so other
calls, installers and the lockout come in between. `overtaken` and `raced` record
that they did; `LastAdminRemains` holds as long as no overtaken call writes.

`AccessTokens.tla` has an account's tokens from the reading of the row
(`CheckAccount`) over `Mint` (`_build_access_token`, whose `iat` is cut to whole
seconds) to their verification in any worker: `Decode` up to `jwt.decode`,
`LoadUser` with the status and `password_changed_at`. Time is in ticks, two to a
second in the runs, because the rounding is the point. A rollout restarts workers with
new settings one by one and in any order: `Learn` adds a key to a worker's previous
ones, `Switch` makes a worker sign with a key and keep the one before. Neither
`core/config.py` (119-128) nor `docs/architecture/02-admin-auth.md:215` asks that the
others have a key before it signs, so nothing does here. `Drop` waits, as the docs say,
until the last token signed with the key has expired. `known` is history: the
workers that had the key of a token when it was signed. `AcceptsOnlyCurrent` and
`RefusesOnlyForCause` say from both sides what verification promises; the second
speaks of the workers in `known`, and section 9 of the others.

## 6. Data

`ServiceEditing.tla` has rows of `mcp_service` in transactions that hold row locks
and unique keys until they end. `UpdateWithRowVersion` is
`db/repository.py`'s statement; its caller may pass any public field, so it also
soft-deletes. `Insert` is an ORM insert. `Restore` is external: the statement is
that of `tests/db/test_soft_delete.py`, with the comparison of versions that
`docs/architecture/03-service-crud.md:436` asks for. `VersionedRow` is the promise
of optimistic locking: whoever replaces a cell has seen the value it replaces, and
does it in one step. `EditsAreAtomic`, checked and proved, says that
`ServiceEditing` implements it.

`Schema.tla` writes each table down as its keys, foreign keys, coded columns and
other checks, and lists which columns of keys and foreign keys are nullable.
`CatalogRows.tla` then runs INSERT, UPDATE and DELETE with cascades
on rows of these tables under the constraints, for what only their combination
gives: a toolset with tools cannot be moved to another service, since neither it nor
its tools can go first (`ToolsetsMoveEmpty`); a toolset is not deleted under a task;
and the loss of an editor's row is the loss of the right that `auth/service_rbac.py`
derives from it. For the loss of rights the writers of permissions are assumed to make
`principal_key` of the principal
(`CatalogRowsAssumption`); no constraint does (section 9).

`Migrations.tla` has all eleven revisions as sequences of operations, and runs of
`env.py` up or down from any version to any other, beginning with an empty database
that has version 0: one of any other version is what earlier runs have left. On PostgreSQL a run is one
transaction. On MySQL every DDL statement commits, so `Dies` leaves a part of a
revision behind, which `halfway` remembers; the seeded row of `m2_auth_001` and the
stamp are committed with the revision. `RunsSucceed` and `StampTellsSchema` compare
the revisions with `Schema`, which is translated from the models alone.

`ApiKeys.tla` is `create` over a repository whose insert may be stored and raise
all the same, and an audit sink whose failure is swallowed. Insert, record and return
are steps of their own (`InsertKey`, `EmitRecord`, `Return`), so that a process can die
between any two; `TrailIsTrue` says what a `created` in the trail is then worth.

`ObjectStorage.tla` is one file that `put` empties and writes piece by piece, with
concurrent puts, unlinks and crashes. `UndisturbedIsWhole` is about puts that neither
overlap nor die. Those that do can leave a part or a mixture, which `get` returns:
`NothingOlderIsRead` says what such a file may hold, pieces of the puts in `recent`
and gaps.

`PasswordUpgrade.tla` is the rewrite of a bcrypt hash at a
later commit than the read. `auth/password_migration.py` locks nothing and leaves that
to its caller, so behaviors are with and without the row lock of `auth/lockout.py`.
`UpgradeKeepsPassword` needs the lock; `OnlyStaleUpgradesRevert` says, of both, that
nothing but a row written since it was loaded, and not locked, lets a login bring an
old password back.

## 7. Runs

| Run | Instance | Shows |
|---|---|---|
| `sessions_time` | 3 requests, half-second ticks, idle TTL 2, absolute TTL 4, clock to 4 | types; revocation is final; expiry is kept; refinement of `SessionLifecycle` |
| `sessions_overlap` | 4 requests, clock to 1 | the inductive invariant, idle clipping, what may leave the set, replay |
| `sessions_live` | 3 requests of which 2 are reliable, clock to 1 | every call ends, every reuse is audited |
| `lockout` | 3 attempts, threshold 2, window 2, lock 1, clock to 3, modes `joined` and `separate` | counts, threshold, what a spanning transaction guarantees, no attempt waits for ever |
| `platform` | the parts below, one in each behavior | every property of sections 5 and 6 but one, and the inductive invariants of the eight modules |
| `double_mint`, `mint_after_revocation`, `logout_all_leaves_one`, `logout_revokes_nothing` | 3 requests | four claims of docs, comments or tests that the code breaks |
| `disabled_comes_back`, `count_lost_in_reused_session` | 1 and 2 attempts | two claims of `auth/lockout.py`'s docstring that depend on the caller |
| `login_outlives_password_change` | 1 token, 1 worker, 1 key | a claim of the docs that the code breaks |

| Part of `platform` | Instance | Why it is enough |
|---|---|---|
| `administration` | 2 users, 2 installers, 2 calls, with and without the seeded row | two race for the last place, whether the first or the last admin |
| `tokens` | 1 token of 2 ticks, leeway 1, 2 ticks to the second, 2 workers, 2 keys, clock to 4 | tokens do not interact; the clock outlives lifetime and leeway from either tick of a second; two workers are enough to differ, two keys to rotate there and back |
| `services` | 2 services, 2 names, 2 editors, versions to 4 | create, delete, create under the same name and restore needs two rows; a stale editor needs one other editor |
| `catalog` | twelve rows of tools, eighteen of permissions; one group at a time | each has a row that would break its property were a constraint missing |
| `migrations` | all revisions, from a new database, two kinds of it, any runs up and down to any version, a crash after any operation | the revisions are what they are |
| `keys` | 2 calls of `create`, the same key or two | a second insert of the same `public_id` |
| `storage` | 2 puts of one or two pieces | one overlaps, dies or is overtaken |
| `passwords` | 2 logins, 2 passwords, with and without the lock | an upgrade, a change and another upgrade |

Bounds. A session needs one login, two rotations to race each other, and a third
rotation or a logout to race both: four requests. With TTLs, three are enough for
a login, a rotation and what expires or revokes it, and the clock runs to the
absolute expiry, past the idle one. Ticks of half a second let `EXPIRE` round. One
user suffices: sessions of different users share no key. For the lockout, three
attempts exceed the threshold by one, and the clock outlives a window and a lock
within it. Requests are interchangeable where no fairness is assumed, so the
safety runs of the sessions use symmetry. There CHECK_DEADLOCK stays on: the
environment (status changes, disabling) can always take a step, so a stuck
request shows only in `CallsReturn` and `AttemptsEnd`. In `platform`, whose safety
properties use symmetry too, it is off: installers that have all been answered,
calls of `create` that have all returned and versions at their bound really are the
end of a behavior.

Fairness. `FairSpec` of the sessions has weak fairness only on the steps of
requests in `Reliable`: an event loop resumes a task whose I/O has completed, and
`Reliable` names those whose I/O does. Nobody is promised to make a call, and the
clock, password changes and crashed requests are never forced. For the lockout,
weak fairness on each attempt's own steps says that a request goes on and that
the database hands out a free row lock. An attempt that waits does so while the
lock is taken, so weak fairness alone would allow starvation by an endless queue;
there is none because attempts are finite. Clients do not retry for ever in
these instances. The other modules state no fairness: their calls are a few statements
without a loop or a wait for one another, but for row locks that every transaction
releases, and what they promise is safety.

Each property of a passing run has a mutant in `PROJECT.json`: an operator, kept
before the definition it alters, that a plausible bug would turn that definition
into, and under which TLC finds the property violated.

## 8. Proofs

`RefreshSessionsProofs.tla`, for any requests, users, TTLs and tick length
(assumptions: `RequestsAssumption`, `TtlAssumption`, `NoneAssumption`, which say
that distinct things are distinct and durations positive):
`Spec => []IInv`, from it every safety property of the passing runs, and
`Spec => ImplementsLifecycle`.

The argument. That a revoked session is unusable is not inductive by itself: a
rotation in flight may write after the deletion. `IInv` adds what prevents harm.
`UsableAsOpened`: only a login writes login fields, once per session, because its
request has ended when they exist. `SeenAsOpened`: a rotation's copy of them
therefore never goes stale, so its EXPIRE and its idle clip use the true absolute
expiry however late they run. `ListedAsOpened`: the set and the copies of it that
logouts hold contain only sessions already opened, so a deleted one cannot be
opened later. `RetiredNotStored`: each rotation writes a secret of its own, so a
replaced one is never stored again. `ArgumentsGiven` carries the arguments along.

`LoginLockoutProofs.tla`, for any attempts, threshold, window and lock time
(`LockoutAssumption`): `Spec => []IInv` in all three modes, and from it
`CountIsExact` and `ThresholdCloses` whenever rows are read afresh
(`mode # "reused"`), `ChecksOnlyActive`, `DisabledIsFinalIfJoined` and
`UnlocksOnlyWhenDueIfJoined`. The invariant is that a transaction's object is the
committed row (`DraftsAreCurrent`), so the unit of work writes exactly what the
function computed (`FlushIsWrite`); that a joined attempt holds the lock from its
admission on; and that every recorded failure lies before the end of the window
(`StrikesArePast`), from which `FailureIsCounted` follows by cases on whether
the window has ended.

`AdministrationProofs.tla`, for any users, installers and calls
(`AdministrationAssumption`: nobody is called `Nobody`): `OneFirstAdmin` and
`LastAdminRemains`. `InstallerIsAlone` is what the row lock gives: past it an
installer is the only one, and once it has counted no user there is none, since
calls need an actor; and a username waits for one commit at a time. `FactsHold`
ties what a call has read to the tables: if nothing has overtaken it, its actor is
still what it was, and its removal of an active admin leaves another. Every write
overtakes the other calls, so nothing remains to be shown of them.

`AccessTokensProofs.tla`, for any tokens, workers, keys, seconds, lifetime and
leeway (`AccessTokensAssumption`): `AcceptsOnlyCurrent` and `RefusesOnlyForCause`.
`TokenTimes` keeps a token within the second its `iat` names; `KeysKept` says that
a worker which had a token's key when it was signed has it until the token expires,
in whatever order the workers are restarted. The step that needs it is `Drop`: a key
out of use was retired after its last token was minted, so when it is dropped its
tokens have expired.

`ServiceEditingProofs.tla`, for any services, names and editors
(`ServiceEditingAssumption`): `LiveNamesUnique`, `NoLostUpdate`,
`DeletedAreNotEdited` and `EditsAreAtomic`, the refinement of `VersionedRow`.
`WriterIsAlone` is the row lock with what was found under it; `KeysUnique` is the
unique key over committed and uncommitted rows together; `VersionsTell` is what
makes comparing one number enough: whoever knows the version of a row knows the row.

`StorageProofs.tla`, for any rows, keys, passwords, payloads and callers.

- `CatalogRows` (`CatalogRowsAssumption`: rows are of tables of the models, and
  `principal_key` is a function of the principal). `CatalogRowsIInv` is what a
  database checks, over all rows together. Every statement is checked against its whole
  result, so that its lemma says nothing of the schema; the work is in what the
  constraints give together. `ToolsetsMoveEmpty`: the tool's second foreign key is on
  both of its columns, and neither is nullable, or it would hold of nothing; after a
  statement on the toolset its tools are as before, and the key would be broken.
  `TasksKeepTheirTool`: a tool's only cascade comes from its toolset, a task has none,
  and the foreign key from the task holds after the statement.
  `RevocationIsFelt`: a second editor's row would have the same service and, by the
  check that ties `user_id` to `principal_type`, the same principal, hence the same
  key; and `Writable` looks at no rows of teams or of everyone.
- `ApiKeys`: `TrailIsTrue`, with the calls whose insert was accepted, which have a row
  each, so that no two have one key; a record `created` needs such a call, and that it
  has gone on to write it, whether or not it lives to return.
- `PasswordUpgrade` (`PasswordUpgradeAssumption`): `UpgradeKeepsPassword`. Where logins
  lock, the one that has loaded the row has it for itself and as it is committed, and
  a verified one was given the password it saw: what it writes is a hash of it.
  `OnlyStaleOnesRevert`, for logins that do not lock too: a verified login writes a hash
  of the password of the hash it has seen.
- `ObjectStorage` (`ObjectStorageAssumption`: payloads are sequences, and no piece of
  them looks like a missing file):
  `UndisturbedIsWhole`. While nothing has disturbed the latest put, it is the only one
  at work on the file, and the file is the pieces it has written.
  `NothingOlderIsRead`: whoever is at work on the file is among `recent`, and what it
  writes goes where its payload has it; the rest was there or is a gap.

`MigrationsProofs.tla`, with no constants and so no assumption: `RunsSucceed`,
`StampTellsSchema` and `LockRowIsThere`. TLC can visit every database that runs reach,
so the proofs are there for the argument: why no revision is ever refused.
The revisions create the tables in one order (`Place`), and a
downgrade drops them in the opposite one; so a database that no part of a revision
was left in is the first `Count` tables of the models, with the check of
`mcp_service` from `m1_delete_001` on (`Layout`, `HasLayout`). `RefsLeadBack`: every
foreign key leads to a key of a table placed before, hence the next table can always
be created (`CreateFits`) and the last one dropped (`DropFits`). `UpScript` and
`DownScript` go through the operations of the eleven revisions. `MigrationsIInv`
says that of the database, and of the one that was stamped last, which is what a
rollback or a crash between revisions comes back to; and it says on which databases
the durable state, the visible and the stamped one agree. `LockRowIsThere` needs less
of the layout, since it is also promised after crashes: at the head the row is there
if the table is, because the insert precedes the stamp and only dropping the table
takes the row away.

`PlatformProofs.tla` puts them together: a step of `MCPlatform` is a step of the part
the behavior is of, so each component's inductive invariant, with its type invariant,
holds in the platform (`PlatformIInvHolds`, `PlatformTypes`), for all constants that
satisfy the assumptions of the components.

Two things in the models are there because a proof asked for them. The nullable
columns of `Schema`: if a tool's could be NULL, the foreign keys would not give
`ToolsetsMoveEmpty`. And `CatalogRowsAssumption`, without which `RevocationIsFelt` is
false.

Only model-checked: `CallsReturn`, `ReuseIsAudited` and `AttemptsEnd`, which are
liveness under fairness and need ENABLED, beyond the prover; and the seven violated
claims, which are counterexamples. The proofs of `StorageProofs` and of the modules
before it concern every value of the constants. Those of `MCPlatform` concern its
invariants; the remaining properties of its run are proved of each component.

## 9. What the code does not keep

Seven runs end in a counterexample to something the repository says. The quotes
and lines are under "findings" in `PROJECT.json`.

- Two rotations with one secret can both return tokens (`double_mint`).
- A rotation can return tokens after reuse detection deleted its session
  (`mint_after_revocation`); the new refresh token is dead, the access token is not.
- A login during a logout everywhere survives and is lost from the set
  (`logout_all_leaves_one`).
- Logging out of a current session fails with WRONGTYPE
  (`logout_revokes_nothing`): the logout module and its tests expect a JSON string
  where login and rotation keep a hash.
- A disabled account can be reactivated by a login that was already admitted, if
  the calls do not share a transaction (`disabled_comes_back`).
- A failure can be lost if the calls share a session but not a transaction
  (`count_lost_in_reused_session`).
- A login or a rotation that read the account before its password was changed gets
  a token afterwards that is accepted (`login_outlives_password_change`): its `iat`
  lies after the change.

Some more was seen while modelling that needs no run, being a matter of one call or
one line:

- `docs/architecture/02-admin-auth.md:68` and `auth/rbac.py` 7-8 forbid removing the
  last active admin. The rule (`auth/rbac.py:136`) is a check on values its caller
  read, so two calls that disable each other's actor both pass it and leave nobody.
  The functions cannot prevent that, and nothing in the repository calls them yet; it
  is for their caller to lock what it read. `LastAdminRemains` therefore exempts a
  write by a call that another one has overtaken (`raced`), and shows that nothing
  else removes the last admin.
- The first worker restarted with a new signing key signs tokens that workers not yet
  restarted refuse, unless the key was put among their previous keys in a rollout
  before. Neither `core/config.py` 119-128 nor `docs/architecture/02-admin-auth.md:215`
  asks for that. `RefusesOnlyForCause` exempts such workers (`known`).
- A `created` in the audit trail does not show that anyone received the key: the
  process may die between `security/api_keys.py:72` and 76.
- `verify` of `security/api_keys.py` (line 92) does not look at `expires_at`, which
  `docs/architecture/01-data-model.md:453` asks for.
- A password beyond 72 bytes makes `bcrypt.checkpw` of the required version 5
  (`auth/password_migration.py:61`) raise ValueError where a mismatch gives
  `PasswordVerificationError`.
- `server_default="'LIVE'"` (`db/models.py:230`, and `"'pending'"` in
  `m1_model_008`) is a value that contains its quotes. A row that relies on it
  contradicts `ck_mcp_service_deleted_scope_consistency`, which is how
  `m1_delete_001` can be refused (`WriteRows`, `fits`).
- After a crash in a downgrade on MySQL an upgrade may stamp the head with a table
  missing. Only `LockRowIsThere` is promised then.
- No constraint ties `principal_key` to the principal (`db/models.py:884`), or a
  task's tool and artifact to the task's service (`db/models.py:843`).
- A login that upgrades a hash without locking the row can bring back a password
  that has just been changed (`auth/password_migration.py:64`). `UpgradeKeepsPassword` is
  of logins that lock; `OnlyStaleUpgradesRevert` says when the others do this.

## 10. Not modelled

- `refresh_session` (`auth/refresh.py` 201-231): an earlier read-only check of a
  JSON value that no production code writes any more.
- `verify` of the API keys: one comparison with a row, which changes nothing.
- Contents of audit rows, token encoding, cookies, hash parameters, columns that no
  constraint mentions, malformed tokens and object keys, refused before any state
  is read.
- Clocks that differ, of Redis, the database and the workers; Redis eviction and
  failover.
- Writers of the catalog tables: the backend has none but the repository. Their
  statements are modelled as the constraints allow them.
- For good: CSRF, encryption, redaction, correlation ids and column types, which
  are functions on values without state; parsing of the configuration; the HTTP
  application, whose handlers are stubs, with its readiness probe, which keeps no
  state (a probe thread that outlives its time limit, `main.py:125`, goes on and
  is forgotten); the placeholder worker, the frontend, and the repository's scripts.
