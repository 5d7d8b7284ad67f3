SPECIFICATION Spec
CONSTANTS
  NoRow = NoRow
  raw = raw
  bare = bare
  Bundle = {raw, bare}
  WithXmp = {raw}
  Stars <- MCStars
  MaxRating = 1
  MaxFile = 2
  MaxAsked = 1
INVARIANTS
  RatingMatchesBlock
  XmpSavedOrQueued
  QueueServed
