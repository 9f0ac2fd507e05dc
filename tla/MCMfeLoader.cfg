SPECIFICATION FairSpec
CONSTANTS
  d1 = d1
  d2 = d2
  d3 = d3
  d4 = d4
  NoLoad = NoLoad
  Mfes = {"analytics", "login"}
  Wrapped = {"login"}
  HasInit = {"analytics"}
  Loads = {d1, d2, d3, d4}
  StrictMode = TRUE
  Sharing = TRUE
INVARIANTS
  TypeOK
  ShownIsCurrent
  GetAfterInit
PROPERTIES
  LoadSettles
CHECK_DEADLOCK FALSE
