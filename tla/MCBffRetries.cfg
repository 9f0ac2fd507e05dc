SPECIFICATION BffSpec
CONSTANTS
  analytics = analytics
  reports = reports
  Registry = {analytics, reports}
  Unregistered = Unregistered
  services <- MC_services
  Callers = {c1}
  Checks = {k1}
  retryAttempts = 3
  Users = {ann}
  Tabs = {t1}
  Askers = {t1}
  NoToken = NoToken
  OtherScheme = OtherScheme
  expiresIn = 1
  maxAge = 1
  MaxTime = 1
  MaxRequests = 3
  s1 = s1
  s2 = s2
  p1 = p1
  p2 = p2
  Replicas = {p1}
  Sockets = {s1}
  home <- MC_home
  UserIds = {ann}
  Dashboards = {d1}
  MetricTypes = {m1}
  Anonymous = Anonymous
  MaxBroadcasts = 1
INVARIANTS
  PassingFailuresRetried
CHECK_DEADLOCK FALSE
