SPECIFICATION Spec
CONSTANTS
  MaxMsg = 1
  MaxConn = 3
  MaxInFlight = 1
  MaxDiscard = 1
  Flushers = {f1}
INVARIANTS TypeOK AcksMeanPersisted NothingLost ShownOnce OneLiveLink
PROPERTY ImplementsMailbox
