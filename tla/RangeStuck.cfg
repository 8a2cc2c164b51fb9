SPECIFICATION MCSpec
CONSTANTS
  w1 = w1
  w2 = w2
  MaxOccurrences = 6
  Dates = {1}
  Untils = {4}
  Cycles = {2}
  Settings <- FreeRange
  People = {}
  Workers = {w1, w2}
  Crews <- Together
  Offers <- Completing
  MaxRequests = 3
  MaxCrashes = 0
PROPERTIES AddsNext
CHECK_DEADLOCK FALSE
