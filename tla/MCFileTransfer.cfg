SPECIFICATION FairSpec
CONSTANTS
  Size = 2
  NLink = 2
  Caps = {TRUE}
  NFlush = 2
  MaxInFlight = 2
  MaxFail = 1
  MaxDelete = 1
  Wedges = {"snd", "rcv"}
INVARIANTS
  TypeOK
  NeverServedWrong
  UndisturbedNeverFails
PROPERTIES
  SentAndArrived
CHECK_DEADLOCK FALSE
