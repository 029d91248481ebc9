\* Four requests, so that three can overlap on one session or two on two.
SPECIFICATION Spec
CONSTANTS
  Requests = {r1, r2, r3, r4}
  Reliable = {}
  Users = {u1}
  Forged = Forged
  None = None
  IdleTtl = 2
  AbsoluteTtl = 2
  TicksPerSecond = 1
  MaxTime = 1
SYMMETRY Symmetry
INVARIANTS
  IInv
  IdleWithinAbsolute
  OnlyLogoutRaceUnlists
PROPERTIES
  ReplayRefused
