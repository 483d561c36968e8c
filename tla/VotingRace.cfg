SPECIFICATION Spec
CONSTANTS
  s1 = s1  s2 = s2  g = g  u1 = u1  u2 = u2  home = home  road = road  cafe = cafe
  Guest = Guest  NoConn = NoConn
  Sessions <- Household
  Users <- AllUsers
  Ips <- AllIps
  UserOf <- HouseholdUser
  IpOf <- HouseholdIp
  Conns = {c1, c2, c3, c4}
  HttpCancels = TRUE
  MaxRequests = 4
  FaultPoints <- AnyFault
SYMMETRY ConnSymmetry
INVARIANTS TypeOK OneBallotUnlessRaced ConnectionsOwnedOnce PoolNeverJams
PROPERTIES TouchedByItsVoter CancelledStaysCancelled
CHECK_DEADLOCK FALSE
