\* Two calls that complete and one that may stop at any step.
SPECIFICATION FairSpec
CONSTANTS
  Requests = {r1, r2, r3}
  Reliable = {r1, r2}
  Users = {u1}
  Forged = Forged
  None = None
  IdleTtl = 1
  AbsoluteTtl = 1
  TicksPerSecond = 1
  MaxTime = 1
PROPERTIES
  CallsReturn
  ReuseIsAudited
