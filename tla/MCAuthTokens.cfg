SPECIFICATION Spec
CONSTANTS
  i1 = i1
  i2 = i2
  x1 = x1
  x2 = x2
  f1 = f1
  f2 = f2
  l1 = l1
  p1 = p1
  p2 = p2
  ann = ann
  bob = bob
  bad = bad
  NoToken = NoToken
  NoDto = NoDto
  Forged = Forged
  Initiates = {i1}
  Exchanges = {x1}
  Refreshes = {f1, f2}
  Logouts = {l1}
  Replicas = {p1, p2}
  home <- MC_twoHomes
  Emails = {ann}
  Malformed = {}
  AllowLists <- MC_fixedList
  PkceTtl = 1
  RefreshTtl = 2
  RefreshLife = 2
  MemoryCache = FALSE
  MaxTime = 3
SYMMETRY MC_symmetry
INVARIANTS
  UnrevokedTokenUsable
PROPERTIES
  RevokedTokenStaysDead
