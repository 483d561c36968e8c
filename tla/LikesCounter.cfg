SPECIFICATION Spec
CONSTANTS
  tab1 = tab1  tab2 = tab2  other = other  visitor = visitor  u1 = u1  u2 = u2
  Guest = Guest
  Sessions <- AllSessions
  Users <- Accounts
  UserOf <- Account
  MaxClicks = 3
INVARIANTS TypeOK CounterExact
PROPERTIES LikesTouchedByTheirUser
CHECK_DEADLOCK FALSE
