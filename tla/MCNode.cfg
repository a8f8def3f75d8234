SPECIFICATION FairSpec
CONSTANTS
  NConn = 2
  NSlot = 1
  NSub = 1
  MaxDial = 1
INVARIANTS
  TypeOK
  SlotsAreHandshakes
  OneDial
  NoSendOnClosed
  LiveIsServed
  QuietAfterStop
PROPERTY StopReturns
CHECK_DEADLOCK FALSE
