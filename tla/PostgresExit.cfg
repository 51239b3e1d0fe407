\* The README on the shutdown hooks.
SPECIFICATION Spec
CONSTANTS
  Mutations = {m1, m2, m3}
  LateWrites = FALSE
PROPERTY
  ExitDrains
