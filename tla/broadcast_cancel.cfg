SPECIFICATION Spec
CONSTANTS
  g1 = g1  g2 = g2  g3 = g3
  None = None
  NumSends = 1
  Guests = {g1, g2, g3}
  CheckEvery = 2
  MaxRequeues = 0
  MaxCancels = 1
CHECK_DEADLOCK FALSE
INVARIANT CancelIsHonoured
