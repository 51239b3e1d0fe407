\* The comment on merging summaries, without two requests at once.
SPECIFICATION Spec
CONSTANTS
  Turns = {t1, t2, t3}
  Routes = {"chat"}
  Size <- MCUniform
  Budget = 3
  MinNew = 4
  Gaps = {1}
  Overlap = FALSE
  NoMessage = NoMessage
PROPERTY SummaryGrows
CHECK_DEADLOCK FALSE
