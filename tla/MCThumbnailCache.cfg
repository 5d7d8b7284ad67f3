SPECIFICATION CacheSpec
CONSTANTS
  raw = raw
  movie = movie
  blank = blank
  r1 = r1
  r2 = r2
  r3 = r3
  r4 = r4
  None = None
  File <- MCFile
  Request <- MCRequest
  FileOf <- MCFileOf
  Readable <- MCReadable
  Nameless <- MCNameless
  Torn <- MCTorn
  Loader = {w1, w2}
INVARIANTS
  NoStrandedTask
  ThumbnailDelivered
PROPERTY
  EventuallyExecuted
CHECK_DEADLOCK FALSE
