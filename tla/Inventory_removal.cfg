SPECIFICATION Spec
CONSTANTS
  Sources = {c1}
  HostKeys = {h1}
  ServiceKeys = {s1}
  Names = {n1}
  Versions = {v1}
  Tuples = {p1}
  MaxRows = 2
  None = None
INVARIANT
  RemovedIsGone
