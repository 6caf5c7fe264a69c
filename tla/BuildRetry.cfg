CONSTANTS
  Script <- Short
  Files <- FilesOfShort
  Kept <- KeptOfShort
  Blocking <- left_behind
  Options = {"OKSH", "SBASE", "SDHCP"}
  Always = "always"
  MaxEvents = 2
SPECIFICATION RetrySpec
INVARIANTS
  ShippedAll
  BuildInv
PROPERTY
  RetrySucceeds
