SPECIFICATION BootSpec
CONSTANTS
  Boots = {b1, b2, b3}
  Facts = {f1, f2}
  None = None
SYMMETRY Symmetry
INVARIANTS
  SnapshotReadable
PROPERTIES
  NothingForgottenByOne
CHECK_DEADLOCK FALSE
