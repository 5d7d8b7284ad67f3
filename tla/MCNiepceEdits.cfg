SPECIFICATION Spec
CONSTANTS
  Library <- MCUsed
  Path = {}
  MaxRating = 1
  MaxFolder = 1
  MaxFile = 2
  MaxPending = 3
  MaxUndo = 1
INVARIANTS
  PaneIsCurrent
  PaneFollowsSelection
  UndoIsExact
