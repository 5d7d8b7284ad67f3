SPECIFICATION Spec
CONSTANTS
  NoRow = NoRow
  raw = raw
  bare = bare
  k1 = k1
  Path = {"pictures"}
  Bundle <- MCBundle
  Parts <- MCParts
  Tags <- MCTags
  Keyword = {k1}
  MaxFolder = 2
  MaxFile = 2
  MaxFs = 4
  MaxKeyword = 2
INVARIANT
  KeywordingLinks
