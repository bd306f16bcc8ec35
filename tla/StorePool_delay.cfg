SPECIFICATION Spec
CONSTANTS
  Changes = {c1, c2}
  Expiries = {x1}
  Scans = {s1}
  Conns = 2
  Messages = 2
CHECK_DEADLOCK FALSE
INVARIANTS
  ScansAreNotDelayed
