SPECIFICATION MCSpec
CONSTANTS
  Names <- MCNames
  RootFile = "main"
  Replies = {"2", "5", "7"}
INVARIANTS
  DependenciesAsWritten
  SubmenuBelongs
  OrderKept
  SelectsCollected
  CyclesReported
  BlocksNested
  PrintedAsMeant
  NothingLeftNew
  YesMeansYes
  RestartAnswers
PROPERTIES
  ConfirmingChangesNothing
