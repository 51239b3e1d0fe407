\* Turns that overlap, so that summarisers do too.
SPECIFICATION Spec
CONSTANTS
  Turns = {t1, t2, t3}
  Routes = {"chat", "stream", "python", "python-stream", "post"}
  Size <- MCUniform
  Budget = 1
  MinNew = 2
  Gaps = {1}
  Overlap = TRUE
  NoMessage = NoMessage
SYMMETRY Symmetry
INVARIANTS
  NothingSkipped
  VerdictIsTrue
CHECK_DEADLOCK FALSE
