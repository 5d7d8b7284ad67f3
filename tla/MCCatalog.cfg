SPECIFICATION CatalogSpec
CONSTANTS
  NLabel = 2
  Name = {n1}
  Default = Default
  None = None
  MaxId = 4
  MaxPending = 2
  MaxUndo = 2
  MaxFail = 1
  MaxStart = 2
INVARIANTS
  LabelsFollow
  CreatedOnce
  UndoIsExact
PROPERTY
  NewGetsLabels
CHECK_DEADLOCK FALSE
