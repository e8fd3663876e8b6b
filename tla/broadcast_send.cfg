SPECIFICATION FairSpec
CONSTANTS
  g1 = g1  g2 = g2  g3 = g3
  None = None
  NumSends = 2
  Guests = {g1, g2}
  CheckEvery = 1
  MaxRequeues = 1
  MaxCancels = 1
CHECK_DEADLOCK FALSE
INVARIANTS TypeOK CancelledSendStops RepeatsNeedTimeLimit DoneIsComplete
PROPERTY EverySendEnds
