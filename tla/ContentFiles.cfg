SPECIFICATION FilesSpec
CONSTANTS
  w1 = w1
  w2 = w2
  f1 = f1
  f2 = f2
  d1 = d1
  d2 = d2
  page = page
  task = task
  Files = {f1, f2}
  Folders = {d1, d2}
  Posts = {page, task}
  Versioned = {page}
  Workers = {w1, w2}
  Crews <- OneOrTwo
  Offers <- SomeOffers
  Layouts <- SomeLayouts
  MaxRequests = 3
  MaxCrashes = 1
  s1 = s1
  s2 = s2
  a = a
  b = b
  Sources = {a, b}
  Records = {1, 2}
  Fetchers = {s1, s2}
  Day = 2
  MaxHours = 3
  MaxTurns = 2
  MaxFaults = 1
  r = r
  x = x
  y = y
  z = z
  o = o
  n = n
  g = g
  h = h
  Leaves = {r, x, y, z, o, n}
  Wikis = {r, x, y, z}
  Circles = {g, h}
  Forests <- SomeForests
  Editors = {s1, s2}
  MaxEdits = 2
INVARIANTS ContentSound GroupOfParent
PROPERTIES FilesKept
CHECK_DEADLOCK FALSE
