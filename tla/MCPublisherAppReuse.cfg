SPECIFICATION MCSpec
CONSTANTS
  Unknown = Unknown
  Nil = Nil
  r1 = r1
  r2 = r2
  h1 = h1
  h2 = h2
  h3 = h3
  x1 = x1
  x2 = x2
  a1 = a1
  a2 = a2
  NodeHandle = {n1}
  RmwHandle = {r1, r2}
  RclHandle = {h1, h2, h3}
  Rosout = rosout
  Topic = {rosout, chatter}
  Gid = {1, 2, 3}
  Slot = {x1, x2}
  AnyReuse = TRUE
  Pointer = {a1, a2}
  Stamp = {1}
  Publisher = {p1, p2, p3, p4}
  Message = {m1, m2}
INVARIANTS
  TraceAccepted
SYMMETRY Symmetry
CHECK_DEADLOCK FALSE
