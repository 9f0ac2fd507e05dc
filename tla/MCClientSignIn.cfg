SPECIFICATION FairSpec
CONSTANTS
  s1 = s1
  s2 = s2
  f1 = f1
  f2 = f2
  l1 = l1
  SignIns = {s1, s2}
  Refreshes = {}
  Logouts = {l1}
  External = {s2}
  maxRetries = 1
  NoToken = NoToken
  NoDraft = NoDraft
  NoAnswer = NoAnswer
INVARIANTS
  SpinnerStops
  RefusalLeavesNothing
PROPERTIES
  CallsEndOrWait
CHECK_DEADLOCK FALSE
