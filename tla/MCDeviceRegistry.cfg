SPECIFICATION RSpec
CONSTANTS
  d1 = d1
  p1 = p1
  p2 = p2
  Device = {d1, d2}
  App = {p1, p2}
  Home <- BothOnOne
  DesktopHost = {x1}
  AppHost = {y1, y2}
  Client = {c1, c2}
  Attempts = 2
  MaxTime = 2
  MaxEdits = 2
  Given = {""}
  NoHost = NoHost
  NoOne = NoOne
INVARIANT AddressesHold
INVARIANT RoutesHaveApps
PROPERTY OldLoginStaysOut
PROPERTY RenameStays
SYMMETRY Symmetry
