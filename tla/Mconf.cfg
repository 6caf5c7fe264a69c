SPECIFICATION MCSpec
CONSTANTS
  Names <- MCNames
  RootFile = "main"
  Heights = {7, 16, 21}
  Data <- MCData
  NoData = 0
  list_height = 2
  Chars = {"1"}
  MAX_LEN = 4
  box_width = 2
  Texts <- MCTexts
  max_hscroll = 1
  Files <- MCFiles
  FileName <- MCFileName
  Manual <- MCManual
  Message <- MCMessage
  Long = {"X"}
  MaxResizes = 1
  MaxSelects = 3
INVARIANTS
  MenuShown
  ListShown
  CursorAtEnd
  TextShown
PROPERTIES
  SidewaysStays
  OnlyTheSeen
  FocusKept
