CONSTANTS
  MODULES = MODULES
  MS = MS
  C = C
  V1 = V1
  V2 = V2
  T = T
  A = A
  S = S
  None = None
  Unset = Unset
  NoFile = NoFile
  Modules = MS
  Symbols <- OptSymbols
  Tristates <- OptTristates
  Choices = {C}
  Values <- ChoiceValues
  OptionalChoices = {C}
  Prompt <- OptPrompt
  Selects <- OptSelects
  Defaults <- OptDefault
  ChoiceDefaults <- OptChoiceDefaults
  Files <- OptFiles
  MaxOps = 4
SPECIFICATION Spec
INVARIANTS
  CacheInv
  NoModuleUnlessEnabled
  ChoiceExclusive
  CleanMeansSaved
CHECK_DEADLOCK FALSE
