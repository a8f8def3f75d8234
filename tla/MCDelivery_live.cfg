SPECIFICATION FairSpec
CONSTANTS
  MaxMsg = 1
  MaxConn = 3
  MaxInFlight = 1
  MaxDiscard = 0
  Flushers = {f1}
  Wedges = {"snd"}
PROPERTY EventuallyDelivered
