CONSTANTS
  Script <- build_sh
  Files <- FilesOfAll
  Kept <- clean_sh
  Blocking <- left_behind
  Options = {"OKSH", "SBASE", "SDHCP", "DROPBEAR"}
  Always = "always"
  MaxEvents = 1
SPECIFICATION Spec
INVARIANT
  SuccessMeansBuilt
