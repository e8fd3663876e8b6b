SPECIFICATION FairSpec
CONSTANTS
  b1 = b1  b2 = b2  o1 = o1  o2 = o2  w1 = w1  w2 = w2  w3 = w3
  ka = ka  kr = kr  kr2 = kr2  kf = kf  kf2 = kf2
  None = None
  Branches = {b1}
  Orders = {o1}
  Keys = {ka, kr, kr2, kf, kf2}
  Calls <- MCCalls
  Prices = {0, 2}
  InitialCoins <- MCRich
  Workers = {w1, w2, w3}
  MaxPurchases = 2
INVARIANTS TypeOK CallsAreIdempotent OverdraftOnlyByRefund RefundedOrderIsNeutral OrderCarriesMovements
PROPERTIES ImplementsOnceLedger CallsFinish
