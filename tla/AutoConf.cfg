CONSTANTS
  Options = {"BOOL", "TEXT"}
  Possible <- OptionValues
  No = "n"
  Unset = "unset"
  Path <- StampPath
  Objects = {"one", "both"}
  Uses <- UsedBy
SPECIFICATION Spec
INVARIANTS
  UpToDateIsRight
  AutoInv
PROPERTIES
  OnlyChangedRebuilt
  BuildSettles
