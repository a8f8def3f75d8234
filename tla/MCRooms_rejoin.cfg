SPECIFICATION Spec
CONSTANTS
  N = 2
  MaxMembers = 2
  MaxCalls = 3
  MaxDrop = 0
INVARIANT AskedAgain
CHECK_DEADLOCK FALSE
