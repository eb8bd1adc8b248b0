SPECIFICATION JoinSpec
CONSTANTS
  Slots = {s1, s2}
  ExtraSlice = 0
  AppSlice = 0
  MailSize = 2
  MaxThreads = 1
  MaxFail = 0
  CounterDebt = 0
  JoinFirst = TRUE
  FollowTorn = FALSE
PROPERTIES
  JoinReturns
CHECK_DEADLOCK FALSE
