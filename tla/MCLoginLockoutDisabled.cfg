\* The calls in transactions of their own, as the tests make them.
SPECIFICATION Spec
CONSTANTS
  Attempts = {a1}
  Modes = {"separate"}
  None = None
  Threshold = 2
  Window = 2
  LockTime = 1
  MaxTime = 1
PROPERTY
  DisabledIsFinal
