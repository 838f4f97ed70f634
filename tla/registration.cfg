\* Two register() calls in flight, one fault; Half stands for 2^63.
SPECIFICATION Spec
\* The server may stop: the bounded ids are used up and nobody calls any more.
CHECK_DEADLOCK FALSE
CONSTANTS
  None = None
  t1 = t1  t2 = t2  u1 = u1  u2 = u2  u3 = u3  p1 = p1  p2 = p2
  Modes = {"open", "closed", "push", "hook"}
  TokenIds = {t1, t2}
  Lifetimes = {1, 7}
  Limits <- MCLimits
  Half = 4
  UserIds = {u1, u2, u3}
  Procs = {p1, p2}
  MaxNow = 2
  MaxFaults = 1
INVARIANTS
  TypeOK
  UsersPaidFor
  OneDevicePerUser
PROPERTIES
  TokensLastAsAsked
SYMMETRY Symmetry
