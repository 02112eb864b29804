SPECIFICATION Spec
CONSTANTS
  Unknown = Unknown
  Nil = Nil
  n1 = n1
  n2 = n2
  p1 = p1
  s1 = s1
  s2 = s2
  w1 = w1
  v1 = v1
  k1 = k1
  k2 = k2
  k3 = k3
  k4 = k4
  chatter = chatter
  t1 = t1
  t2 = t2
  RosNode = {n1}
  Topic = {chatter}
  Thread = {t1, t2}
  Publisher = {p1}
  Subscriber = {s1}
  Timer = {}
  Service = {v1}
  Callback = {k1, k2}
  CallerOf <- MCServiceCallerOf
  NodeOf <- MCServiceNodeOf
  TopicOf <- MCServiceTopicOf
  PeriodOf <- MCServicePeriodOf
  MaxEvents = 6
  LatencyInvalid = 100
  MinMultiplier <- MCMinMultiplier
  Quantiles <- MCQuantiles
INVARIANTS
  ServicesAreDrawn
SYMMETRY Symmetry
ACTION_CONSTRAINTS
  EdgesInOneOrder
  WakesAreRead
CHECK_DEADLOCK FALSE
