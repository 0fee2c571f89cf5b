SPECIFICATION MCSpec
CONSTANTS
  Providers = 4
  MaxRetries = 2
  Readers = {r1}
  Refreshers = {f1}
  Poll = poll
  MaxVersion = 2
  Asks = 3
  Sessions = {"default", "s1", "s2"}
  Default = "default"
  LocksMax = 1
  AskThreads = 1
  Turns = 3
  MaxToolRounds = 2
  MaxRegenerations = 2
  Limit = 12
  Pollers = {loop}
  OtherCallers = TRUE
  MaxChanges = 2
  HighTypes = {high_value_churn}
  NormalTypes = {segment_shift, new_user_spike}
  Merged = merged
  Dormant = dormant
  Idle = idle
  Users = {"u1", "u2", "u3", "u4"}
  MinUsers = 2
  Detects <- MCDetects
  DormantIn <- MCDormantIn
  MaxRecent = 2
  MaxCrashes = 2
INVARIANT CallsBounded
INVARIANT AnsweredIfAnyHealthy
INVARIANT SwitchIsMarked
 
 
INVARIANT TurnsKept
INVARIANT CheckedAgainstOwnData
INVARIANT RelaxedFailuresMarked
 
INVARIANT OncePerCooldown
 
PROPERTY StaleReadsEnd
PROPERTY AskEnds
PROPERTY TurnEnds
PROPERTY EvolutionCompared
PROPERTY DormantUsersReported
CHECK_DEADLOCK FALSE
