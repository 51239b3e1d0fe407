\* Statements may run after their client has given them up.
SPECIFICATION Spec
CONSTANTS
  Mutations = {m1, m2, m3}
  LateWrites = TRUE
SYMMETRY Symmetry
INVARIANT
  TaskInv
