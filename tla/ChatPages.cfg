SPECIFICATION Spec
CONSTANTS
  a1 = a1  a2 = a2  s1 = s1  s2 = s2  r1 = r1
  Channels <- Two
  SweepOrder <- TwoOrder
  ReadChannel = "trials"
  Authors = {a1}
  Sweepers = {s1}
  Readers = {r1}
  Retain = 2
  Limit = 2
  MaxChats = 5
  MaxExpiries = 0
  MaxCrashes = 0
  MaxFaults = 1
PROPERTIES PagesShowEverything
CHECK_DEADLOCK FALSE
