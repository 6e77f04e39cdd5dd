SPECIFICATION DocumentSpec
CONSTANTS
  Nodes = {1, 2, 3, 4, 5, 6, 7}
  Doc = 8
  Nil = 0
  Tokens <- MCTokens
  Samples <- MCSamples
  MaxTokens = 3
  MaxDepth = 5
  MaxLost = 2
INVARIANTS
  ParserTypeOK
  OnlyPendingUnlinked
  ParsesWhatIsThere
  SavedTreeReloads
CHECK_DEADLOCK FALSE
PROPERTIES
  FirstErrorStays
  CallsEnd
