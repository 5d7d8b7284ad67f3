SPECIFICATION PaneSpec
CONSTANTS
  File = {f1, f2}
  Prop = {"headline", "rating", "keywords", "speed", "aperture"}
  w = w
  Word = {w}
  None = None
  Known <- MCKnown
  MaxWords = 1
  MaxStarRating = 1
  MaxPending = 2
INVARIANTS
  PaneShowsLibrary
  LookingChangesNothing
SYMMETRY FileSymmetry
