SPECIFICATION Spec
CONSTANTS
  g1 = g1  g2 = g2  c1 = c1  c2 = c2  w1 = w1  w2 = w2  s1 = s1
  None = None
  Guests = {g1, g2}
  Codes = {c1, c2}
  Shorts = {s1}
  ShortOf <- MCShortOf
  Workers = {w1, w2}
  MaxDay = 2
  Scenarios <- MCRaceAndOrders
INVARIANTS TypeOK RewardFollowsTable LateGamesNeedCode OrderPaysOnce
PROPERTY ActivationIsExclusive
SYMMETRY GuestSymmetry
