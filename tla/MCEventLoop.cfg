SPECIFICATION MCSpec
CONSTANTS
  Length = 4
  Blank = {2}
  top = top
  left = left
  right = right
  Directory = {top, left, right}
  Above <- MCAbove
  PortsOf <- MCPortsOf
  Commands <- MCCommands
  Disks <- MCDisks
INVARIANTS
  CountersAccountForStream
  OutputsAreOfWholeTrace
  RequestedIsComputed
  GraphIsRunnable
PROPERTIES
  SlotIsReleased
ACTION_CONSTRAINT OneStreamAfterSearch
CHECK_DEADLOCK FALSE
