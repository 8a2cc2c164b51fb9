SPECIFICATION MCFairSpec
CONSTANTS
  ann = ann
  bob = bob
  cat = cat
  red = red
  blue = blue
  w1 = w1
  w2 = w2
  Users <- Two
  SiteAdmins <- Admins
  Subgroups <- OneColour
  Workers = {w1, w2}
  Kinds = {"leave", "subdel", "remove", "erase", "notify", "add"}
  Roles = {}
  Changes = {}
  StartRoles = {"member"}
  Scenes <- Concurrent
  MaxRequests = 3
INVARIANTS LeaveClearsSubgroups
PROPERTIES RequestsEnd
CHECK_DEADLOCK FALSE
