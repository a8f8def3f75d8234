SPECIFICATION Spec
CONSTANTS
  MaxMsg = 2
  MaxConn = 2
  MaxInFlight = 2
  MaxDiscard = 0
  Flushers = {f1}
PROPERTY InSendOrder
