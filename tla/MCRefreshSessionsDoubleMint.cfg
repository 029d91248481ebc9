\* Two rotations present the same secret.
SPECIFICATION Spec
CONSTANTS
  Requests = {r1, r2, r3}
  Reliable = {}
  Users = {u1}
  Forged = Forged
  None = None
  IdleTtl = 1
  AbsoluteTtl = 1
  TicksPerSecond = 1
  MaxTime = 1
SYMMETRY Symmetry
INVARIANTS
  OneMintPerSecret
