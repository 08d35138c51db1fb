SPECIFICATION ReadWriteSpec
CONSTANTS
  FileIds = {a, b}
  Idle = Idle
  Objects <- JavaObjects
  ConnectionOf <- Connections
  StreamOf <- JavaStreams
  Exc <- Exception
  FnPtrs = {}
  Names = {}
  NULL = NULL
  Unset = Unset
  InitialSize = 4
  MaxSize = 8
SYMMETRY FileSymmetry
INVARIANTS ReservedNeverIssued
CHECK_DEADLOCK FALSE
