SPECIFICATION Spec
CONSTANTS
  Unknown = Unknown
  Nil = Nil
  Node = {n1, n2}
  MaxSpins = 3
INVARIANTS
  InstanceFollowsExecutor
  CompleteTraceAccepted
CHECK_DEADLOCK FALSE
