\* A replay revokes the family under a rotation in flight.
SPECIFICATION Spec
CONSTANTS
  Requests = {r1, r2, r3}
  Reliable = {}
  Users = {u1}
  Forged = Forged
  None = None
  IdleTtl = 1
  AbsoluteTtl = 1
  TicksPerSecond = 1
  MaxTime = 1
SYMMETRY Symmetry
PROPERTIES
  NoMintAfterRevocation
