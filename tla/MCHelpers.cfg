SPECIFICATION HelpersSpec
CONSTANTS
  Block = 4
  Half = 1
  Wrap = 8
  HiWrap = 2
  Pieces = {0, 1, 2, 3, 4, 5, 9}
  MaxTotal = 40
  Cells = {"a", " ", "cr", "lf", "&", "#", "e", "w"}
  MaxSpan = 4
  Lines <- MCLines
  Delimiters <- MCDelimiters
  QuotedLines <- MCQuotedLines
  MaxLines = 3
  MaxFiles = 2
INVARIANTS
  DigestsPaddedMessage
  TextIsNormalised
  FieldsMakeTheLine
  ConfigIsTheLastFile
CHECK_DEADLOCK FALSE
