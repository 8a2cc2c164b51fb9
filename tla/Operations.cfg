SPECIFICATION MCSpec
CONSTANTS
  w1 = w1
  w2 = w2
  Schemas = {"a"}
  Domains = {"d", "e"}
  CeleryWorkers = {w1, w2}
  MaxSites = 3
  MaxTasks = 3
  MaxDeaths = 1
  Items = {1, 2, 3, 4}
  Files = {2, 4}
  Trees <- SomeTrees
  SeenBy <- Seen
  Notes = {11, 12}
  OnOf <- On
  BestOf <- Bests
  Crowd = {"ann", "bob"}
  FileWorkers = {w1, w2}
  MaxChanges = 2
  Things = {"post", "file"}
  GroupFiles = {"file"}
  Indexers = {w1, w2}
  MaxVersions = 2
  MaxTries = 1
  MaxOutages = 1
  ann = ann
  bob = bob
  Receivers = {ann, bob}
  Texts = {1, 2, 3}
  Featured = {3}
  Postmen = {w1, w2}
  Span <- Periods
  MaxEntities = 1
  MaxFeatured = 1
  MaxTime = 5
  MaxForms = 2
  MaxMishaps = 1
  Folk = {"ann", "bob"}
  Boxes = {"a", "b", "c"}
  MaxLetters = 4
  MaxTurns = 3
INVARIANTS PanelSound CopySound IndexSound MailSound NoticesSound
PROPERTIES OperationsKept
CHECK_DEADLOCK FALSE
