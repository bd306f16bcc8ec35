SPECIFICATION Spec
CONSTANTS
  p1 = p1
  p2 = p2
  p3 = p3
  long1 = long1
  Procs = {p1, p2, p3}
  Requests = {r1, r2}
  Keys = {k1, k2}
  Passwords = {long1, long2}
  Short = short
  EnvPassword <- Given
  Rules = {rule}
  Versions = {1, 2}
  MaxStops = 2
  MaxRekeys = 1
  None = None
SYMMETRY Symmetry
INVARIANTS
  AdminIsOwn
  ServedFromOneStore
PROPERTIES
  FirstAdminStays
