SPECIFICATION PushSpec
CONSTANTS
  r1 = r1  r2 = r2  a1 = a1  u1 = u1  u2 = u2  e1 = e1  e2 = e2  Guest = Guest
  Handlers = {r1, r2}
  Announcers = {a1}
  Users = {u1, u2}
  Endpoints = {e1, e2}
  MaxRegs = 3
  MaxRounds = 1
  MaxDeaths = 1
  MaxFaults = 1
SYMMETRY Alike
INVARIANTS PushTypeOK OneRowPerEndpoint AcceptedStaysRegistered ToldOnce
CHECK_DEADLOCK FALSE
