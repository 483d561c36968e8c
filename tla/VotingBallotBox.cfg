SPECIFICATION Spec
CONSTANTS
  s1 = s1  s2 = s2  g = g  u1 = u1  u2 = u2  home = home  road = road  cafe = cafe
  Guest = Guest  NoConn = NoConn
  Sessions <- Strangers
  Users <- AllUsers
  Ips <- AllIps
  UserOf <- StrangersUser
  IpOf <- StrangersIp
  Conns = {c1, c2, c3}
  HttpCancels = TRUE
  MaxRequests = 3
  FaultPoints <- InsideFaults
PROPERTIES ImplementsBallotBox EveryRequestEnds
CHECK_DEADLOCK FALSE
