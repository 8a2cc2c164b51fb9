SPECIFICATION MCSpec
CONSTANTS
  w1 = w1
  w2 = w2
  MaxPosts = 2
  Workers = {w1, w2}
  Crews <- OneOrTwo
  Offers <- SomeOffers
  Texts = {0, 1}
  Inputs <- SomeInputs
  Horizon = 2
  Window = 2
  MaxRequests = 2
  MaxMissed = 1
  MaxCrashes = 1
INVARIANTS HistorySound
PROPERTIES DatesKept
CHECK_DEADLOCK FALSE
