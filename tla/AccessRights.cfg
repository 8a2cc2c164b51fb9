SPECIFICATION MCSpec
CONSTANTS
  ann = ann
  bob = bob
  g = g
  h = h
  team = team
  blog = blog
  folder = folder
  doc = doc
  pic = pic
  w1 = w1
  w2 = w2
  Users = {ann, bob}
  Admins = {bob}
  Groups = {g, h}
  Subgroups = {team}
  Home <- InG
  Posts = {blog, folder, doc}
  FileFolders = {folder, doc}
  Within <- InFolder
  Files = {pic}
  FileOwner <- ByAnn
  Workers = {w1, w2}
  Crews <- OneOrTwo
  Offers <- SomeOffers
  Readings <- Asked
  Writings = {"private"}
  StartRoles <- SomeRoles
  MaxRequests = 4
  quiz = quiz
  ask = ask
  Questions = {quiz, ask}
  People = {ann}
  Processes = {w1, w2}
  Texts = {red, blue, green}
  red = red
  blue = blue
  green = green
  MaxComments = 3
  MaxEdits = 4
  MaxAsks = 4
  Servers = {w1, w2}
  Paths = {blog, doc}
  Colours = {red, blue}
  Logos = {pic, doc}
  Themes <- SomeThemes
  MaxForms = 3
  MaxVisits = 1
  MaxCrashes = 1
  Fields = {quiz, ask}
  Members = {ann, bob}
  Fillings = {red}
  Desks = {w1, w2}
  MaxOrders = 3
INVARIANTS OwnerReads AccessSound BestIsAnswer ResponsesSound SettingsSound ProfilesSound
PROPERTIES ClosingHides
CHECK_DEADLOCK FALSE
