\* The comment on pairs, with two messages in one millisecond.
SPECIFICATION Spec
CONSTANTS
  Turns = {t1, t2}
  Routes = {"chat"}
  Size <- MCUniform
  Budget = 9
  MinNew = 4
  Gaps = {0, 1}
  Overlap = FALSE
  NoMessage = NoMessage
INVARIANT PairsKept
CHECK_DEADLOCK FALSE
