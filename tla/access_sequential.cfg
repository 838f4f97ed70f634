\* One request at a time, no faults: what a caller sees who waits for each
\* answer, under the fairness of tokio and rmqtt.
SPECIFICATION FairSpec
CONSTANTS
  u1 = u1  u2 = u2  d1 = d1  d2 = d2  t1 = t1  n1 = n1  n2 = n2
  None = None  Gone = Gone
  p1 = p1  p2 = p2  r1 = r1  r2 = r2
  Users = {u1, u2}
  Names = {u1, u2}
  Devices = {d1, d2}
  Owner <- MCOwner
  Topics = {t1, n1, n2}
  Notify <- MCNotify
  Grants <- MCGrants
  Rels = {r1}
  Procs = {p1}
  Ttl = 1
  Leeway = 0
  MaxNow = 2
  MaxTokens = 2
  MaxClosing = 1
  MaxFaults = 0
INVARIANTS
  ConnectionsKickable
  StaleTopicsWithinSecond
PROPERTIES
  SuspendedUsersLeave
  PeerIsKicked
