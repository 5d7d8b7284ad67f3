SPECIFICATION PartsSpec
CONSTANTS
  Base = {"a", "b"}
  MaxFiles = 4
  None = None
  c1 = c1
  c2 = c2
  p0 = p0
  p1 = p1
  Moniker = {c1, c2}
  Place = {p0, p1}
  Initial = p0
  Node = {"folders"}
  NotKept = NotKept
  MaxUndo = 2
  Picture = {"f", "g"}
  Used = {"SetFlagPick"}
  MaxSent = 2
  MaxDone = 2
  Tag = {"sea", "sky"}
  MaxTreeFolder = 2
  MaxTreeRow = 4
  MaxTreeSent = 2
  MaxTask = 4
  MaxElements = 2
  MaxSide = 6
  MaxLength = 5
  Port = {"usb:1", "usb:2"}
  Card <- MCCard
  Directory <- MCDirectory
  Media = {"a.raw"}
  MaxChanges = 3
INVARIANTS
  OrderDoesNotMatter
  HistoryStands
  CountsFollow
  RowsAreDatabase
  NoTaskForgotten
  LastValueIsSet
  ShownRight
  PartsRejoin
  HandsOverSource
PROPERTIES
  KeptForNextStart
CHECK_DEADLOCK FALSE
