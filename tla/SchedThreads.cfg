SPECIFICATION TurnsSpec
CONSTANTS
  Slots = {s1, s2}
  ExtraSlice = 0
  AppSlice = 0
  MailSize = 2
  MaxThreads = 1
  MaxFail = 1
  CounterDebt = 0
  JoinFirst = FALSE
  FollowTorn = FALSE
SYMMETRY SlotSymmetry
INVARIANTS
  TypeOK
  ContextSaved
  RunQueues
  CursorsParked
  LevelsSeparate
  CurrentAtCursor
  ReapUninterrupted
  PreemptBalanced
PROPERTIES
  CyclicOrder
  OneTurnEach
CHECK_DEADLOCK FALSE
