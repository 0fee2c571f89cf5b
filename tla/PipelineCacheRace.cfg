SPECIFICATION CacheSpec
CONSTANTS
  Readers = {r1}
  Refreshers = {f1}
  Poll = poll
  MaxVersion = 2
INVARIANT ResultsWhole
