\* Rows read afresh in both ways; a window and a lock end within the clock.
SPECIFICATION FairSpec
CONSTANTS
  Attempts = {a1, a2, a3}
  Modes = {"joined", "separate"}
  None = None
  Threshold = 2
  Window = 2
  LockTime = 1
  MaxTime = 3
INVARIANTS
  TypeOK
  CountIsExact
  ThresholdCloses
  ChecksOnlyActive
  IInv
PROPERTIES
  DisabledIsFinalIfJoined
  UnlocksOnlyWhenDueIfJoined
  AttemptsEnd
