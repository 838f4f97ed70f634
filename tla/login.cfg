\* Overlapping and repeated logins, expiry, suspension, a fault, a restart.
SPECIFICATION Spec
\* The server may stop for good: nobody is obliged to restart it.
CHECK_DEADLOCK FALSE
CONSTANTS
  u1 = u1  u2 = u2  d1 = d1  n1 = n1  n2 = n2
  a1 = a1  a2 = a2  key = key  admin = admin  padded = padded
  None = None  Empty = Empty  Bad = Bad
  Values = {key, admin, padded, Empty, Bad}
  Parsed <- MCParsed
  Sources <- MCSources
  Users = {u1, u2}
  Devices = {d1}
  Owner <- MCOwner
  Nonces = {n1, n2}
  Attempts = {a1, a2}
  ChallengeTtl = 1
  MaxNow = 2
  MaxFaults = 1
INVARIANTS
  TypeOK
  FailedLoginsExplained
  AdminNeedsKey
PROPERTIES
  LoginIsOneTime
