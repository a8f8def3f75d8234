SPECIFICATION Spec
CONSTANTS
  N = 3
  MaxMembers = 3
  MaxCalls = 2
  MaxDrop = 1
INVARIANTS TypeOK AtMostOneOwner JoinedByConsent
CHECK_DEADLOCK FALSE
