SPECIFICATION AppSpec
CONSTANTS
  Unknown = Unknown
  Nil = Nil
  h1 = h1
  h2 = h2
  f1 = f1
  f2 = f2
  NodeHandle = {n1}
  Handle = {h1, h2}
  CallbackHandle = {f1, f2}
  CallbackAt <- MCCallbackAt
  Caller = {s1, s2, s3}
  Callback = {k1, k2, k3}
INVARIANTS
  RegistriesHoldLive
  CallerIsReached
  NeverHangs
  EventsReachCurrent
CHECK_DEADLOCK FALSE
