SPECIFICATION Spec
CONSTANTS
  Clients = {c1, c2, c3}
  Size = 2
  Boxes = {"pm"}
  MaxSends = 1
  Interruptible = TRUE
SYMMETRY ClientSymmetry
INVARIANTS
  Fifo
CHECK_DEADLOCK FALSE
