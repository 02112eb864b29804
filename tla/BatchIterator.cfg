SPECIFICATION FairSpec
CONSTANTS
  Nil = Nil
  Length = 7
  Blank = {2, 3, 7}
  MaxBatch = 3
INVARIANTS
  SlotIsHandedOver
PROPERTIES
  ImplementsStream
  ReachesEnd
CHECK_DEADLOCK FALSE
