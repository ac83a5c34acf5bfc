CONSTANTS
  Requests = {r1, r2, r3, r4, r5}
  MaxVersions = 1
SPECIFICATION Spec
CHECK_DEADLOCK FALSE
PROPERTY
  DisabledIsNeverActivated
