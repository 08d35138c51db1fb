SPECIFICATION Spec
CONSTANTS
  f = f
  g = g
  h = h
  Fns = {f, g, h}
  Leaf = {h}
  Width <- Widths
  Configs <- SoundConfigs
  Sites = {1, 2}
  Low <- Signs
  High = {1}
  None = None
  MaxDepth = 3
  MaxFrames = 3
INVARIANTS TypeOK InStep RegistersKept ResultsArrive
CHECK_DEADLOCK FALSE
