SPECIFICATION Spec
CONSTANTS
  Bytes = {a, nul, nl}
  NUL = nul
  NL = nl
  Junk = junk
  NoLine = noline
  Slack = 1
  Word = 64
  Programs <- Modest
  MaxSize = 5
INVARIANTS TypeOK EofMeansEnd
PROPERTIES ImplementsByteStream LinesWhole FailureShows
