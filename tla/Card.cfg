SPECIFICATION Spec
CONSTANTS
  Blocks = {0, 1, 2, 3}
  Unit = 2
  Kinds <- MCKinds
  Reads <- MCReads
  Writes <- MCWrites
  Retries = 1
  Attempts = 2
  MaxFaults = 1
  Careless = {}
INVARIANTS CardTypeOK
PROPERTIES Device Healthy CallsReturn
