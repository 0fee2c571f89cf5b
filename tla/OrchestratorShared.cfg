SPECIFICATION OrchSpec
CONSTANTS
  Runs = {r1, r2}
  TraceCap = 1
  MemoryTtl = 0
  LastHour = 1
INVARIANT OneGraphPerSession
CHECK_DEADLOCK FALSE
