SPECIFICATION FactSpec
CONSTANTS
  Segments = {0, 1}
  NoSegment = 2
  UserCounts = {1, 3, 7}
  Averages = {150, 300}
  Thresholds = {10, 20, 30}
  Numbers = {1, 2, 4, 5, 10, 12, 13, 20, 25, 30, 50}
INVARIANT TreeThresholdsPass
