SPECIFICATION FlyFairSpec
CONSTANTS
  Sources = {"feedback", "auto_task"}
  Rows = 2
  Awaited = FALSE
  FlushEvery = 2
  MaxFlyFaults = 0
CHECK_DEADLOCK FALSE
PROPERTY FeedbackUsed
