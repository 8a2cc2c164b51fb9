SPECIFICATION FairSpec
CONSTANTS
  ann = ann
  bob = bob
  cat = cat
  a = a
  b = b
  c3 = c3
  w1 = w1
  w2 = w2
  Keys = {"ALLOW_REGISTRATION"}
  Values = {"on", "off"}
  Default <- OffByDefault
  Clients = {c1, c2}
  Stores <- OpenOrNot
  MaxCalls = 3
  Persons = {ann, bob, cat}
  Emails = {a, b, c3}
  Ids = {1, 2, 3}
  Workers = {w1, w2}
  Offers <- SomeOffers
  Reported <- Reports
  MaxCodes = 2
  MaxRequests = 6
INVARIANTS AccountsSound CacheAgrees
PROPERTIES ChoiceKept AccountsKept
CHECK_DEADLOCK FALSE
