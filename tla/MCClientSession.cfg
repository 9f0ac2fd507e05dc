SPECIFICATION Spec
CONSTANTS
  s1 = s1
  s2 = s2
  f1 = f1
  f2 = f2
  l1 = l1
  SignIns = {s1}
  Refreshes = {f1, f2}
  Logouts = {l1}
  External = {}
  maxRetries = 1
  NoToken = NoToken
  NoDraft = NoDraft
  NoAnswer = NoAnswer
SYMMETRY MC_symmetry
INVARIANTS
  TypeOK
  SessionUsable
CHECK_DEADLOCK FALSE
