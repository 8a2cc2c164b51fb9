SPECIFICATION MCFairSpec
CONSTANTS
  gala = gala
  ev = ev
  sub1 = sub1
  sub2 = sub2
  ann = ann
  bob = bob
  cat = cat
  Events <- OneEvent
  Children <- NoChildren
  SlotMates <- NoChildren
  Emails <- Persons
  Accounts <- Members
  Asked <- Guests
  Capacities = {0, 1, 2}
  Workers = {w1, w2}
  Kinds = {"attend", "confirm", "remove"}
  Inputs = {"accept", "waitinglist", "reject"}
  Tables <- GalaTables
  Scenes = {"everything"}
  StartClock = 3
  MaxRequests = 2
INVARIANTS OverbookingBound
PROPERTIES RequestsServed
CHECK_DEADLOCK FALSE
