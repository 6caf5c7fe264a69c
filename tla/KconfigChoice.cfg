CONSTANTS
  MODULES = MODULES
  MS = MS
  C = C
  V1 = V1
  V2 = V2
  T = T
  A = A
  S = S
  None = None
  Unset = Unset
  NoFile = NoFile
  Modules = MS
  Symbols <- ChoiceSymbols
  Tristates <- ChoiceTristates
  Choices = {C}
  Values <- ChoiceValues
  OptionalChoices = {}
  Prompt <- ChoicePrompt
  Selects <- ChoiceSelects
  Defaults <- ChoiceDefault
  ChoiceDefaults <- ChoiceNoDefaults
  Files <- ChoiceFiles
  MaxOps = 5
SPECIFICATION Spec
INVARIANTS
  TypeOK
  CacheCoherent
  ChoiceExclusive
  AnswerHonoured
  RereadSame
CHECK_DEADLOCK FALSE
