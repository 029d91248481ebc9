\* Three requests on a half-second clock: the idle TTL ends before the absolute one.
SPECIFICATION Spec
CONSTANTS
  Requests = {r1, r2, r3}
  Reliable = {}
  Users = {u1}
  Forged = Forged
  None = None
  IdleTtl = 2
  AbsoluteTtl = 4
  TicksPerSecond = 2
  MaxTime = 4
SYMMETRY Symmetry
INVARIANTS
  TypeOK
  RevokedIsUnusable
  UsableLastsUntilAbsolute
PROPERTIES
  ImplementsLifecycle
