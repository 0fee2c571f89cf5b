SPECIFICATION MCSpec
CONSTANTS
  Users = {1}
  SeedProducts = {1}
  FirstProduct = 2
  FirstOrder = 10
  MaxProduct = 2
  MaxOrders = 2
  MaxQuantity = 1
  MaxFaults = 2
  Faults = {"crash", "write", "load"}
  Sources = {"feedback", "auto_task"}
  Rows = 2
  Awaited = TRUE
  FlushEvery = 2
  MaxFlyFaults = 2
  Threads = {"a", "b"}
  MaxTurns = 2
  MaxReadFaults = 1
INVARIANT OrderIdsUnique
INVARIANT SampledOnce
INVARIANT NothingSkipped
INVARIANT DislikedNotTaught
 
 
CHECK_DEADLOCK FALSE
