SPECIFICATION Spec
CONSTANTS
  h1 = h1  h2 = h2  k1 = k1  k2 = k2  NoConn = NoConn
  Handlers = {h1, h2}
  Conns = {k1, k2}
  MaxRequests = 5
  MaxFaults = 1
  MaxExpiries = 1
SYMMETRY Symmetric
INVARIANTS TypeOK ThankedIsVerified
PROPERTIES VerifiedIsKept CodeFitsAccount
CHECK_DEADLOCK FALSE
