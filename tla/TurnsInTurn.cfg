\* A client that waits for the answer before it sends again.
SPECIFICATION Spec
CONSTANTS
  Turns = {t1, t2, t3, t4}
  Routes = {"chat", "python-stream", "post"}
  Size <- MCUniform
  Budget = 6
  MinNew = 4
  Gaps = {1}
  Overlap = FALSE
  NoMessage = NoMessage
SYMMETRY Symmetry
INVARIANTS
  PairsKept
  ContextIsWhole
CHECK_DEADLOCK FALSE
