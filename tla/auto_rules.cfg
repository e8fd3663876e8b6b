SPECIFICATION FairSpec
CONSTANTS
  g1 = g1  g2 = g2  a1 = a1  a2 = a2  b1 = b1  e1 = e1  e2 = e2  bd = bd  t1 = t1  t2 = t2  l1 = l1
  None = None
  Guests = {g1, g2}
  Cands = {a1, a2, b1}
  GuestOf <- MCGuestOf
  Events = {e1, e2, bd}
  Birthday = {bd}
  Engines = {t1, t2}
  Legacy = {l1}
  Scenarios <- MCAll
INVARIANTS TypeOK RepeatsNeedOverlap ContactLimitsHold GiftsAreAnnounced OneGiftAtATime
PROPERTY EverybodyIsWritten
