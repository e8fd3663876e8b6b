SPECIFICATION Spec
CONSTANTS
  g1 = g1  g2 = g2  c1 = c1  c2 = c2  w1 = w1  w2 = w2  s1 = s1
  None = None
  Guests = {g1}
  Codes = {c1}
  Shorts = {s1}
  ShortOf <- MCShortOf
  Workers = {w1, w2}
  MaxDay = 1
  Scenarios <- MCOverlap
INVARIANT CooldownGamesArePaid
