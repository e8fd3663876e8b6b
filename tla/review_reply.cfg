SPECIFICATION FairSpec
CONSTANTS
  h1 = h1  h2 = h2  w1 = w1  w2 = w2  s1 = s1
  Handlers = {h1, h2}
  Workers = {w1, w2}
  Staff = {s1}
  DraftCap = 2
  Scenarios <- MCAll
INVARIANTS TypeOK OneAutoReply AnsweredMeansAnswered
PROPERTIES RepliesKnowTheNews EveryPlanEnds
CHECK_DEADLOCK FALSE
