SPECIFICATION Spec
CONSTANTS
 CamSlots = 2
 CamFormats = {1159, 12807}
 CamClients = {c1, c2}
 MaxSent = 2
 MaxMishaps = 1
 Kinds = {wfsc}
 Starters = {s1, s2}
 Receivers = {t1, t2, t3}
 Main = Main
 Links = {1, 2, 3}
 MaxTroubles = 4
 Error = Error
 Operator = Operator
 Workers = {w1, w2}
 Status = status
 Nobody = nobody
 NumParameters = 1
 MaxConns = 1
 MaxRequests = 2
 NumConnections = 1
 PoolConns = {k1, k2, k3}
 Fds = {3, 4}
INVARIANTS ThreadsCounted OneErrorLink
PROPERTIES SingleTruthful CameraResponds ErrorPortListens CommandEnds PoolRecovers
CHECK_DEADLOCK FALSE
