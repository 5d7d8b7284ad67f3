SPECIFICATION Spec
CONSTANTS
  Library <- MCNew
  Path = {"roll"}
  MaxRating = 0
  MaxFolder = 2
  MaxFile = 1
  MaxPending = 3
  MaxUndo = 0
INVARIANTS
  CountsSettle
  ListFollowsTree
PROPERTY
  Settles
