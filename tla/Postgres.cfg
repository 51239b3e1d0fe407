\* Any failure of the database or the process; a statement whose client is gone does not run.
SPECIFICATION FairSpec
CONSTANTS
  Mutations = {m1, m2, m3}
  LateWrites = FALSE
INVARIANTS
  QuietMeansDurable
  CloseKeepsAll
PROPERTIES
  RowNeverGoesBack
  ImplementsStateStore
  WriteBehind
  HookFlushResolves
