SPECIFICATION SigningSpec
CONSTANTS
  SignRequests = {r1, r2}
  Operators = {u1, u2, u3}
  Requesters = {u1, u2, u3}
  SignCalls = {c1}
  KeyIds = {k1}
  NewKeyIds = {}
  NoKey = NoKey
  NoRequest = NoRequest
  HsmBackend = TRUE
  SignAmounts = {2}
  maxAmountPerTx = 3
  maxAmountPerWindow = 3
  windowSeconds = 2
  requiredApprovals = 2
  MaxSignClock = 1
SYMMETRY SigningSymmetry
INVARIANT CeilingRespected
CHECK_DEADLOCK FALSE
