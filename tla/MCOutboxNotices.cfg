SPECIFICATION FairSpec
CONSTANTS
  w1 = w1
  w2 = w2
  i1 = i1
  i2 = i2
  Instructions = {i1}
  Callback = TRUE
  Workers = {w1, w2}
  MaxAttempts = 1
  BatchLimit = 2
  MaxClaims = 1
  MaxCrashes = 1
  NoRow = NoRow
PROPERTIES EveryNoticeEnds
CHECK_DEADLOCK FALSE
