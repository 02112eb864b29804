SPECIFICATION MCSpec
CONSTANTS
  Unknown = Unknown
  Nil = Nil
  n1 = n1
  r1 = r1
  r2 = r2
  h1 = h1
  h2 = h2
  c1 = c1
  c2 = c2
  f1 = f1
  f2 = f2
  g1 = g1
  g2 = g2
  a1 = a1
  p1 = p1
  p2 = p2
  p3 = p3
  k1 = k1
  k2 = k2
  chatter = chatter
  NodeHandle = {n1}
  RmwHandle = {r1, r2}
  RclHandle = {h1, h2}
  RclcppHandle = {c1, c2}
  Gid = {g1, g2}
  Topic = {chatter}
  CallbackHandle = {f1}
  Pointer = {}
  NoStamp = 0
  Stamp = {0}
  Subscriber = {p1, p2, p3}
  Message = {}
  Callback = {k1, k2}
  TakenMax = 2
INVARIANTS
  NeverHangs
SYMMETRY Symmetry
CHECK_DEADLOCK FALSE
