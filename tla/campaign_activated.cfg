SPECIFICATION Spec
CONSTANTS
  m1 = m1  m2 = m2  m3 = m3  r1 = r1  r2 = r2  k1 = k1  k2 = k2
  None = None
  Members = {m1}
  Control = {}
  Runs = {r1}
  Cancels = {k1}
  RewardTypes = {"gift"}
  Points = 2
  Prior <- MCPrior
  Limit = 1
  CheckEvery = 1
  MaxRequeues = 0
  MaxOthers = 0
CHECK_DEADLOCK FALSE
PROPERTY ActivatedGiftStays
