SPECIFICATION Spec
CONSTANTS
  NMember = 2
  MaxMsg = 1
  MaxInFlight = 1
  MaxFault = 0
  MaxRemove = 0
  RetryBase = 1
  RetryMax = 2
  Width = 2
INVARIANT DeliveredMeansEveryone
CHECK_DEADLOCK FALSE
