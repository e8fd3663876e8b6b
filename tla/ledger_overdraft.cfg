SPECIFICATION Spec
CONSTANTS
  b1 = b1  b2 = b2  o1 = o1  o2 = o2  w1 = w1  w2 = w2  w3 = w3
  ka = ka  kr = kr  kr2 = kr2  kf = kf  kf2 = kf2
  None = None
  Branches = {b1, b2}
  Orders = {o1}
  Keys = {ka, kr, kr2, kf, kf2}
  Calls <- MCCallsTwo
  Prices = {4}
  InitialCoins <- MCCoins
  Workers = {w1, w2}
  MaxPurchases = 1
INVARIANT OverdraftOnlyByRefund
