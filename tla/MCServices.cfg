SPECIFICATION MCSpec
CONSTANTS
  Clients = {"a", "b", "c"}
  Questions = {"p", "q", "r"}
  RateLimit = 2
  RateWindow = 3
  CleanupInterval = 2
  MaxWindows = 1
  LastSecond = 5
  Samples = {1, 2, 3}
  Pool = 3
  TopK = 2
  K = 60
  Penalties = {0, 30}
  Grades = {1, 5}
  MaxRows = 3
  PageSize = 2
  Ttl = 1
  Preheat = 2
  Step = 1
  Spans = {0, 4}
  LastDay = 2
  MaxSrcFaults = 2
  Weeks = 3
  Slots = 3
  MaxWeekFaults = 3
  Segments = {0, 1}
  NoSegment = 2
  UserCounts = {1, 3, 7}
  Averages = {150, 300}
  Thresholds = {10, 20, 30}
  Numbers = {1, 2, 4, 5, 10, 12, 13, 20, 25, 30, 50}
  Paths = {1, 2}
  Skills = {1, 2}
  Guides = {2}
  Off = {}
  Floor <- MCFloor
  Standard <- MCStandard
  LastTime = 2
  MaxEdits = 1
  TopN = 1
  Customers <- MCCustomers
  NumUsers = 4
  KMin = 2
  KMax = 3
  MinCluster = 2
  NameTtl = 1
  MaxNames = 2
  LastTick = 1
  Sizes <- MCSizes
  Keep = 2
  Month = 2
  TrendLast = 2
  LastMoment = 2
  Runs = {r1, r2}
  TraceCap = 1
  MemoryTtl = 0
  LastHour = 1
INVARIANT RateKept
INVARIANT FusionAgrees
 
INVARIANT RevealedByCalendar
INVARIANT WeekNotBlank
 
INVARIANT LibraryCatchesUp
INVARIANT DisclosedBound
 
 
INVARIANT TracesEnd
CHECK_DEADLOCK FALSE
