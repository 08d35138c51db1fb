SPECIFICATION Spec
CONSTANTS
  Objects = {o1, o2}
  FnPtrs = {f1, f2}
  Names = {atexit, keyPressed}
  NULL = NULL
  Unset = Unset
  InitialSize = 3
  MaxSize = 12
SYMMETRY Symmetry
INVARIANTS TypeOK HandlesResolve NextHandleIsFresh ReservedNeverIssued NoHoleBelow CallbacksBound LeakBounded
CHECK_DEADLOCK FALSE
