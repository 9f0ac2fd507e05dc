SPECIFICATION Spec
CONSTANTS
  d1 = d1
  d2 = d2
  d3 = d3
  d4 = d4
  NoLoad = NoLoad
  Mfes = {"analytics", "login"}
  Wrapped = {"login"}
  HasInit = {"analytics"}
  Loads = {d1, d2, d3, d4}
  StrictMode = TRUE
  Sharing = TRUE
INVARIANTS
  FailuresAreIsolated
CHECK_DEADLOCK FALSE
