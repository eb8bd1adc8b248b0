SPECIFICATION FairSpec
CONSTANTS
  Clients = {c1, c2, c3}
  Size = 2
  Boxes = {"pm", "fs", "compt"}
  MaxSends = 2
  Interruptible = FALSE
INVARIANTS
  TypeOK
PROPERTIES
  BoundedQueue
  FullMeansFull
  PostedServed
  WaitersReturn
  RetrySucceeds
CHECK_DEADLOCK FALSE
