\* Two clients, the purge and one fault.
\* The system may stop: ids and keys are used up.
CHECK_DEADLOCK FALSE
SPECIFICATION PairingFairSpec
CONSTANTS
  u1 = u1  u2 = u2  e1 = e1  e2 = e2  p1 = p1  p2 = p2
  None = None  Gone = Gone
  Users = {u1, u2}
  Keys = {1, 2, 3, 4}
  Holder <- MCHolder
  Ids = {e1, e2}
  Procs = {p1, p2}
  Ttl = 0
  Period = 1
  MaxNow = 1
  MaxFaults = 1
INVARIANTS
  PairingTypeOK
  OneSidedExplained
PROPERTIES
  PairsAgree
  ResponderIsNotLeftAlone
