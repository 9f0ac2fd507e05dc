SPECIFICATION FairStreamSpec
CONSTANTS
  s1 = s1
  s2 = s2
  Sids = {s1, s2}
  Emails = {"ann", ""}
  Blank = ""
  SessionTtl = 1
  RefreshLife = 2
  Units = {"h", "d", "m", "digits"}
  Second = 2
  MaxTime = 5
  Streams = {r1}
  AccessLife = 1
  NoJwt = NoJwt
  MaxRows = 2
INVARIANTS
  TypeOK
  TokensHaveSignIn
  UnrevokedRefreshable
  StreamInv
PROPERTIES
  ImplementsOneTimeLedger
  IntervalsEnd
CHECK_DEADLOCK FALSE
