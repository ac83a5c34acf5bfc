CONSTANTS
  Requests = {r1, r2, r3, r4, r5, r6}
  MaxVersions = 2
SYMMETRY RequestSymmetry
SPECIFICATION Spec
CHECK_DEADLOCK FALSE
INVARIANTS
  TypeOK
  AllocatedNumberIsFree
  OnlyReleasedVersionsRun
PROPERTIES
  SweepMissesOnlyLatecomers
