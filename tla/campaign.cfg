SPECIFICATION FairSpec
CONSTANTS
  m1 = m1  m2 = m2  m3 = m3  r1 = r1  r2 = r2  k1 = k1  k2 = k2
  None = None
  Members = {m1, m2, m3}
  Control = {m3}
  Runs = {r1, r2}
  Cancels = {k1}
  RewardTypes = {"gift", "points"}
  Points = 1
  Prior <- MCPrior
  Limit = 1
  CheckEvery = 1
  MaxRequeues = 1
  MaxOthers = 1
CHECK_DEADLOCK FALSE
INVARIANTS TypeOK RewardsAddUp IssuedCountsGifts CancelIsComplete
PROPERTY EveryMemberDecided
