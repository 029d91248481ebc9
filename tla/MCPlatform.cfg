\* One part at a time.  The same values stand for users and services (Things),
\* for processes (Actors), and for a second kind of process or name (Others).
SPECIFICATION PlatformSpec
CONSTANTS
  Things = {x1, x2}
  Actors = {a1, a2}
  Others = {b1, b2}
  \* Administration
  Users = {x1, x2}
  Installers = {a1, a2}
  Admins = {b1, b2}
  Nobody = Nobody
  \* AccessTokens: a token of two ticks with one of leeway, two ticks to the second
  Tokens = {t1}
  Workers = {a1, a2}
  Keys = {k1, k2}
  FirstKey = k1
  Second = 2
  Ttl = 2
  Leeway = 1
  MaxNow = 4
  \* ServiceEditing
  Services = {x1, x2}
  Names = {b1, b2}
  Editors = {a1, a2}
  LIVE = LIVE
  Nothing = Nothing
  MaxVersion = 4
  \* CatalogRows
  Candidates <- RowGroups
  Null = Null
  \* ApiKeys
  KeyIds = {k1, k2}
  Creators = {a1, a2}
  \* ObjectStorage
  Payloads <- Pieces
  Putters = {a1, a2}
  Gap = Gap
  \* PasswordUpgrade
  Passwords = {k1, k2}
  Logins = {a1, a2}
  NoLogin = NoLogin
SYMMETRY Symmetry
CHECK_DEADLOCK FALSE
INVARIANTS
  PlatformTypeOK
  PlatformIInv
  OneFirstAdmin
  LastAdminRemains
  LiveNamesUnique
  RunsSucceed
  StampTellsSchema
  LockRowIsThere
  TrailIsTrue
  UndisturbedIsWhole
  NothingOlderIsRead
  UpgradeKeepsPassword
PROPERTIES
  AcceptsOnlyCurrent
  RefusesOnlyForCause
  NoLostUpdate
  DeletedAreNotEdited
  EditsAreAtomic
  ToolsetsMoveEmpty
  TasksKeepTheirTool
  RevocationIsFelt
  OnlyStaleUpgradesRevert
