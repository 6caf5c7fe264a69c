CONSTANTS
  Procs = {p1, p2}
  Overwrite = {}
  Versions = {v0, v1, v2}
  Default = v0
  Partial = Partial
  Mixed = Mixed
  NoFile = NoFile
  None = None
  DiskFull = FALSE
  IOErrors = TRUE
SYMMETRY Symmetry
SPECIFICATION Spec
INVARIANTS
  SaveInv
  OneWriter
  BackupKept
PROPERTIES
  ImplementsStore
  WrittenIsWritten
