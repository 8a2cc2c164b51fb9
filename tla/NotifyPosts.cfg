SPECIFICATION PostsSpec
CONSTANTS
  ann = ann
  bob = bob
  Users <- Pair
  Owner = ann
  Muted = {}
  Direct = {}
  Digested <- Bob
  Elsewhere = {}
  Audiences <- BothAudiences
  Mentions <- BobOrNobody
  Shapes <- AllShapes
  Kinds = {"edit", "comment", "follow", "delete"}
  WebWorkers = {web1}
  TaskWorkers = {task1}
  Horizon = 1
  Interval = 1
  DigestSize = 1
  MaxRequests = 1
  MaxCrashes = 1
  f1 = f1
  f2 = f2
  Images = {f1, f2}
  Servers = {s1, s2}
  Taints <- SomeTaints
  MaxEdition = 1
  MaxCopies = 2
  MaxServed = 3
  MaxDeaths = 1
INVARIANTS CreatedOnce MentionedOnce CollectedOnce DownloadsSound
PROPERTIES PostsKept
CHECK_DEADLOCK FALSE
