SPECIFICATION MCSpec
CONSTANTS
  ann = ann
  bob = bob
  cat = cat
  red = red
  blue = blue
  w1 = w1
  w2 = w2
  Users <- Three
  SiteAdmins <- Admins
  Subgroups <- TwoColours
  Workers = {w1}
  Kinds = {"join", "leave", "redeem", "notify", "role", "accept", "reject", "remove", "add", "invite", "uninvite", "resend", "edit",
           "subadd", "subedit", "subdel", "erase"}
  Roles = {"owner", "admin", "member", "removed"}
  Changes = {"open", "closed", "auto", "manual"}
  StartRoles = {"none", "pending", "member", "admin"}
  Scenes <- Sequential
  MaxRequests = 3
INVARIANTS SoleOwner SubgroupWithinGroup
PROPERTIES ImplementsGroupRoles
CHECK_DEADLOCK FALSE
