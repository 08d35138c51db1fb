SPECIFICATION Spec
CONSTANTS
  Registers = {"a0"}
  Lines = {0, 1}
  Scope <- ScopeOf
  Values = {0, 1}
  MemorySize = 2
  Packets <- AllPackets
  EntryPoint = 64
  TextSize = 8
  Invocations = {68}
  Marked = {68}
  Invalid = invalid
  None = None
INVARIANTS AnswersCurrent
PROPERTY EveryPacketAnswered
CHECK_DEADLOCK FALSE
