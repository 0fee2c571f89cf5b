SPECIFICATION PollSpec
CONSTANTS
  Pollers = {loop}
  OtherCallers = TRUE
  MaxChanges = 2
  HighTypes = {high_value_churn}
  NormalTypes = {segment_shift, new_user_spike}
  Merged = merged
  Dormant = dormant
  Idle = idle
  Users = {"u1", "u2", "u3", "u4"}
  MinUsers = 2
  Detects <- MCDetects
  DormantIn <- MCDormantIn
  MaxRecent = 2
  MaxCrashes = 0
PROPERTY NoEvolutionMissed
