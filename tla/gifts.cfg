SPECIFICATION Spec
CONSTANTS
  p1 = p1  p2 = p2  v1 = v1  oa = oa  ob = ob  w1 = w1  w2 = w2
  Staff = Staff
  None = None
  NoGift = NoGift
  Profiles = {p1, p2}
  Gifts = {1, 2, 3}
  Vouchers = {v1}
  VoucherOf <- MCVoucherOf
  Orders = {oa, ob}
  Workers = {w1, w2}
  MaxYear = 2
  MaxAdmin = 2
  Scenarios <- MCScenarios
SYMMETRY Alike
CHECK_DEADLOCK FALSE
INVARIANTS TypeOK ChargedOnce HandedOutOnce OncePerCooldown OneGiftPerCause
