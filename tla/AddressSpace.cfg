SPECIFICATION Spec
CONSTANTS
  Tasks = {t1, t2, t3}
  Pages <- MCPages
  Addresses <- MCAddresses
  Words = 2
  Levels = 2
  Size = 1
  MaxUserPages = 3
SYMMETRY Symmetric
INVARIANTS SpaceTypeOK OnePlace
PROPERTY Memories
CHECK_DEADLOCK FALSE
