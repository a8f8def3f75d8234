SPECIFICATION Spec
CONSTANTS
  Keys = {k1, k2}
  NoKey = NoKey
  MaxConn = 2
INVARIANT NothingOutlivesThePin
