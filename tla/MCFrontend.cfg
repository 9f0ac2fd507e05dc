SPECIFICATION FairFrontSpec
CONSTANTS
  Scopes = {analyticsMfe}
  Modules = {m1, m2}
  Handlers = {h1, h2, h3}
  Calls = {c1}
  maxRetries = 2
  MaxEvents = 2
  MaxEntries = 5
  Gone = Gone
  Blank = ""
  Emails = {"", "ann", "ann@acme.com"}
  ValidEmails = {"ann@acme.com"}
  Passwords = {"", "secret", "secret2"}
  LongPasswords = {"secret", "secret2"}
  Visits = 2
  Callers = {k1, k2, k3}
  failureThreshold = 3
  successThreshold = 2
  timeout = 2
  tab = tab
  other = other
  Windows = {tab, other}
  Settings <- MC_settings
  Trusted = {tab}
  Shells = {tab}
  MaxCaused = 2
  MaxQueue = 2
INVARIANTS
  HostInv
  NoneSkipped
  FormInv
  CountersBelowThreshold
  BridgeInv
PROPERTIES
  EndsOrReads
  ClosesAfterProbes
  RefusesExactlyWhileHurt
  Recovers
  EveryWindowHears
CHECK_DEADLOCK FALSE
