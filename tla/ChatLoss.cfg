SPECIFICATION FairSpec
CONSTANTS
  a1 = a1  a2 = a2  s1 = s1  s2 = s2  r1 = r1
  Channels <- One
  SweepOrder <- OneOrder
  ReadChannel = "trials"
  Authors = {a1}
  Sweepers = {s1, s2}
  Readers = {}
  Retain = 1
  Limit = 1
  MaxChats = 4
  MaxExpiries = 1
  MaxCrashes = 1
  MaxFaults = 1
INVARIANTS TypeOK LossBounded
PROPERTIES ListsAreCutBack
CHECK_DEADLOCK FALSE
