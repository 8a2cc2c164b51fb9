SPECIFICATION PagesSpec
CONSTANTS
  gala = gala
  ev = ev
  sub1 = sub1
  sub2 = sub2
  ann = ann
  bob = bob
  cat = cat
  Scenes = {"alone", "slots"}
  Events <- SomeEvents
  Children <- SomeChildren
  SlotMates <- SameSlot
  Emails <- Persons
  Accounts <- Members
  Asked <- Guests
  Capacities = {0, 1, 2}
  Workers = {w1}
  Kinds = {"attend", "confirm", "remove", "add", "ask", "edit", "scan", "code", "capacity", "crash"}
  Inputs = {"accept", "waitinglist", "reject", "invalid"}
  Tables <- AllTables
  StartClock = 3
  MaxRequests = 3
  p1 = p1
  p2 = p2
  p3 = p3
  g = g
  b1 = b1
  b2 = b2
  t1 = t1
  t2 = t2
  t3 = t3
  blog = blog
  quest = quest
  Listables = {p1, p2, p3}
  Kind <- KindOf
  Writer <- WriterOf
  Where <- WhereOf
  ReadTokens <- TokensOf
  Viewers = {ann, bob, cat}
  Admins = {bob}
  AclOf <- AclOfAll
  ClosedGroups = {g}
  Browsers = {b1, b2}
  Queries <- SomeQueries
  Limit = 1
  MaxHour = 3
  MaxAlters = 2
  MaxVisitors = 2
  People = {ann, bob}
  Superadmins = {}
  QuestionManagers = {bob}
  Pages = {blog, quest, ev}
  Sort <- SortOf
  AuthorOf <- AuthorsOf
  GroupPost = {blog}
  Tabs = {t1, t2, t3}
  TabOf <- TabsOf
  Closed = TRUE
  LeaveDisabled = FALSE
  LockAfterActivity = TRUE
  QuestionerChooses = TRUE
  IntroductionPublic = FALSE
  EmailAdders = "owner"
  MaxPresses = 2
  Words = {"foo", "bar", "baz"}
  Things = {"x", "y"}
  MaxTags = 3
  MaxTagRequests = 3
INVARIANTS AttendanceSound 
PROPERTIES PagesKept
CHECK_DEADLOCK FALSE
