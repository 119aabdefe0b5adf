SPECIFICATION Spec
CONSTANTS
  s1 = s1
  s2 = s2
  r1 = r1
  r2 = r2
  None = None
  Socks = {s1, s2}
  Reqs = {r1, r2}
  MaxAttempts = 2
INVARIANT ClosedStaysClosed
