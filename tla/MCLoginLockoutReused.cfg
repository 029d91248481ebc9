\* The calls in transactions of their own, in one session of the factory.
SPECIFICATION Spec
CONSTANTS
  Attempts = {a1, a2}
  Modes = {"reused"}
  None = None
  Threshold = 2
  Window = 2
  LockTime = 1
  MaxTime = 1
SYMMETRY Symmetry
INVARIANT
  CountIsExact
