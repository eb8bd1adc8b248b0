SPECIFICATION Spec
CONSTANTS
  Blocks = {0, 1, 2, 3}
  Unit = 2
  Kinds <- LargeOnly
  Reads <- OneRead
  Writes = {}
  Retries = 1
  Attempts = 1
  MaxFaults = 0
  Careless = {"share"}
INVARIANT ReadsRight
CHECK_DEADLOCK FALSE
