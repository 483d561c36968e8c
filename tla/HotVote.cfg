SPECIFICATION HotSpec
CONSTANTS
  v1 = v1  v2 = v2  p1 = p1  r1 = r1  u1 = u1  e1 = e1
  Guest = Guest
  Voters = {v1, v2}
  Cancellers = {v1, v2}
  Announcers = {v1, v2}
  Pages = {p1}
  Hot = 1
  MaxClicks = 2
  Rejections = TRUE
  Handlers = {r1}
  Users = {u1}
  Endpoints = {e1}
  MaxRegs = 1
  MaxRounds = 2
  MaxDeaths = 1
  MaxFaults = 1
SYMMETRY Alike
INVARIANTS RoomTypeOK ScreensRight AnnouncedWhenHot
CHECK_DEADLOCK FALSE
