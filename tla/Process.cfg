SPECIFICATION Spec
CONSTANTS
  NULL = NULL
  INVALID_RECORD_MAGIC = filler
  Junk = junk
  NoLine = noline
  x = x
  y = y
  one = one
  two = two
  three = three
  Bytes = {x, y}
  NUL = x
  NL = y
  Slack = 1
  Word = 64
  Chunk = 2
  MAGIC = magic
  Zero = zero
  Programs <- AllPrograms
  Fps = {fp, fq}
  Handlers = {h, k}
  Numbered <- Records
  MaxSize = 2
  MaxRecords = 2
  fp = fp
  fq = fq
  Runs = 2
INVARIANTS Routed HandlersRun
PROPERTY ImplementsFileStore
CHECK_DEADLOCK FALSE
