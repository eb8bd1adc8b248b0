SPECIFICATION FairSpec
CONSTANTS
  Slots = {s1, s2}
  ExtraSlice = 0
  AppSlice = 0
  MailSize = 1
  MaxThreads = 1
  MaxFail = 1
  CounterDebt = 0
  JoinFirst = FALSE
  FollowTorn = FALSE
PROPERTIES
  NoStarvation
  LettersServed
CHECK_DEADLOCK FALSE
