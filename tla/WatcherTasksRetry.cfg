SPECIFICATION FairAgentsSpec
CONSTANTS
  MaxTasks = 2
  Loop = loop
  DebugPollers = {debug}
  SemLimit = 1
  PoolSize = 1
  MaxCrashes = 0
  WatcherEnabled = TRUE
PROPERTY RetriedTaskRuns
