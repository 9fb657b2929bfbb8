SPECIFICATION TextSpec
CONSTANTS
  Runes <- MCRunes
  Chars = {"a"}
  Texts <- MCTexts
  TabWidth = 1
  MaxUndo = 2
  Widths <- MCWidths
  Height = 1
  MaxSize = 6
  ViewTexts <- MCViewTexts
  Sizes <- MCSizes
  CharWidth = 2
  Slack = 1
  Sessions <- MCSessions
INVARIANTS
  CursorInText
  RowsMatchPositions
  ShownIsText
PROPERTIES
  EditsAreRecorded
  LastTextLands
CHECK_DEADLOCK FALSE
