SPECIFICATION Spec
CONSTANTS
  i1 = i1
  i2 = i2
  x1 = x1
  x2 = x2
  f1 = f1
  f2 = f2
  l1 = l1
  p1 = p1
  p2 = p2
  ann = ann
  bob = bob
  bad = bad
  NoToken = NoToken
  NoDto = NoDto
  Forged = Forged
  Initiates = {i1}
  Exchanges = {x1}
  Refreshes = {}
  Logouts = {}
  Replicas = {p1}
  home <- MC_oneHome
  Emails = {ann, bad}
  Malformed = {bad}
  AllowLists <- MC_fixedList
  PkceTtl = 1
  RefreshTtl = 1
  RefreshLife = 1
  MemoryCache = FALSE
  MaxTime = 1
INVARIANT FailedExchangesCounted
