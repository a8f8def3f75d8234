SPECIFICATION Spec
CONSTANTS
  MaxMsg = 2
  MaxConn = 2
  MaxInFlight = 1
  MaxDiscard = 0
  Flushers = {f1, f2}
SYMMETRY FlusherSymmetry
PROPERTY FirstSessionInOrder
