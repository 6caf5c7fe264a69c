CONSTANTS
  Procs = {p1}
  Overwrite = {}
  Versions = {v0, v1, v2}
  Default = v0
  Partial = Partial
  Mixed = Mixed
  NoFile = NoFile
  None = None
  DiskFull = TRUE
  IOErrors = FALSE
SPECIFICATION Spec
PROPERTY
  WrittenIsWritten
