SPECIFICATION Spec
CONSTANTS
  Bytes = {a, nul, nl}
  NUL = nul
  NL = nl
  Junk = junk
  NoLine = noline
  Slack = 1
  Word = 64
  Programs <- Overwriting
  MaxSize = 5
PROPERTY WritesAtPosition
