SPECIFICATION EventsSpec
CONSTANTS
  w1 = w1
  w2 = w2
  MaxOccurrences = 7
  Dates = {2, 4}
  Untils = {4}
  Cycles = {2}
  Settings <- AllSettings
  People = {ann}
  Workers = {w1, w2}
  Crews <- OneOrTwo
  Offers <- AllOffers
  MaxRequests = 2
  MaxCrashes = 1
  Keys = {1, 2, 3, 4, 5, 6}
  Organisers = {"ann", "bob"}
  Editors = {w1, w2}
  MaxEdits = 3
INVARIANTS RangeSound ProgramSound
PROPERTIES RangeKept
CHECK_DEADLOCK FALSE
