SPECIFICATION Spec
CONSTANTS
  Keys = {k1, k2}
  NoKey = NoKey
  MaxConn = 3
INVARIANTS TypeOK VerifiedKeyIsPinned SessionsArePinned
PROPERTY PinKept
