SPECIFICATION Spec
CONSTANTS
  f1 = f1
  f2 = f2
  File = {f1, f2}
  Content <- MCContent
  Located = {f1, f2}
  None = None
  Orientation <- MCOrientation
  MaxPending = 2
INVARIANTS
  ViewsAgree
  MapFollows
  DarkroomShowsGiven
