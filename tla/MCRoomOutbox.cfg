SPECIFICATION FairSpec
CONSTANTS
  NMember = 2
  MaxMsg = 1
  MaxInFlight = 1
  MaxFault = 1
  MaxRemove = 1
  RetryBase = 1
  RetryMax = 2
  Width = 2
  Wedges = {0}
INVARIANTS TypeOK NoCopyLost OnlyTheAddressed
PROPERTIES DeliveredMeansPersisted JoinedGetsItsMessages
CHECK_DEADLOCK FALSE
