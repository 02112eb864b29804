SPECIFICATION LatencySpec
CONSTANTS
  Unknown = Unknown
  Nil = Nil
  r1 = r1
  r2 = r2
  h1 = h1
  h2 = h2
  c1 = c1
  c2 = c2
  f1 = f1
  f2 = f2
  x1 = x1
  x2 = x2
  g1 = g1
  g2 = g2
  g3 = g3
  a1 = a1
  a2 = a2
  t1 = t1
  t2 = t2
  NodeHandle = {n1}
  RmwHandle = {r1, r2}
  RclHandle = {h1, h2}
  RclcppHandle = {c1, c2}
  Gid = {g1, g2, g3}
  Topic = {chatter}
  CallbackHandle = {f1, f2}
  Pointer = {a1, a2}
  NoStamp = 0
  Stamp = {0}
  Slot = {x1}
  Thread = {t1, t2}
  AddressOf <- MCAddressOf
  Subscriber = {p1, p2, p3}
  Message = {m1, m2, m3}
  Callback = {k1, k2, k3}
  TakenMax = 2
  ChannelMax = 2
  AnyReuse = FALSE
INVARIANTS
  LatenciesAreOfMessages
SYMMETRY Symmetry
CHECK_DEADLOCK FALSE
