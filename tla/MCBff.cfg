SPECIFICATION BffSpec
CONSTANTS
  analytics = analytics
  reports = reports
  Registry = {analytics, reports}
  Unregistered = Unregistered
  services <- MC_services
  Callers = {c1}
  Checks = {k1}
  retryAttempts = 1
  Users = {ann, bob}
  Tabs = {t1, t2}
  Askers = {t1}
  NoToken = NoToken
  OtherScheme = OtherScheme
  expiresIn = 1
  maxAge = 2
  MaxTime = 2
  MaxRequests = 3
  s1 = s1
  s2 = s2
  p1 = p1
  p2 = p2
  Replicas = {p1, p2}
  Sockets = {s1, s2}
  home <- MC_home
  UserIds = {ann}
  Dashboards = {d1}
  MetricTypes = {m1}
  Anonymous = Anonymous
  MaxBroadcasts = 1
INVARIANTS
  HealthIsWitnessed
  HttpInv
  GatewayInv
  HeardIsWanted
  OwnReplicaDelivers
PROPERTIES
  ServedWhileLive
CHECK_DEADLOCK FALSE
