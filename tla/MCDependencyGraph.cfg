SPECIFICATION Spec
CONSTANTS
  Unknown = Unknown
  Nil = Nil
  n1 = n1
  n2 = n2
  p1 = p1
  s1 = s1
  s2 = s2
  w1 = w1
  v1 = v1
  k1 = k1
  k2 = k2
  k3 = k3
  k4 = k4
  chatter = chatter
  t1 = t1
  t2 = t2
  RosNode = {n1, n2}
  Topic = {chatter}
  Thread = {t1, t2}
  Publisher = {p1}
  Subscriber = {s1, s2}
  Timer = {w1}
  Service = {}
  Callback = {k1, k2, k3}
  CallerOf <- MCCallerOf
  NodeOf <- MCNodeOf
  TopicOf <- MCTopicOf
  PeriodOf <- MCPeriodOf
  MaxEvents = 6
  LatencyInvalid = 100
  MinMultiplier <- MCMinMultiplier
  Quantiles <- MCQuantiles
INVARIANTS
  TypeOK
  NoAnalysisPanics
  DurationsAgree
  PublicationsAreAttributed
  EdgesRecordEvents
  CausesAreEdges
  QuantilesAreNearestRank
  UtilizationAddsUp
  WeightIsInRange
SYMMETRY Symmetry
ACTION_CONSTRAINTS
  EdgesInOneOrder
  WakesAreRead
CHECK_DEADLOCK FALSE
