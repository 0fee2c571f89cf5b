SPECIFICATION FairSpec
CONSTANTS
  MaxTasks = 4
  Loop = loop
  DebugPollers = {debug}
  SemLimit = 2
  PoolSize = 1
  MaxCrashes = 1
  WatcherEnabled = TRUE
INVARIANT RunnerOwnsRow
INVARIANT NoDoubleExecution
INVARIANT PermitsConserved
PROPERTY FollowsLifecycle
PROPERTY AbandonedOnlyByExitOrRetry
PROPERTY RunEnds
PROPERTY PendingSurvivesRestart
