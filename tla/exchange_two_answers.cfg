\* Two calls of respond() that overlap.
\* The server may stop: the bounded ids are used up and nobody calls any more.
CHECK_DEADLOCK FALSE
SPECIFICATION Spec
CONSTANTS
  u1 = u1  u2 = u2  a = a  b = b  c = c
  None = None  Gone = Gone
  e1 = e1  p1 = p1  p2 = p2
  Users = {u1, u2}
  Keys = {a, b, c}
  Holder <- MCHolder
  Ids = {e1}
  Procs = {p1, p2}
  Ttl = 1
  Period = 2
  MaxNow = 2
  MaxFaults = 0
PROPERTIES
  AnswerNeverReplaced
