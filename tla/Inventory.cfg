SPECIFICATION Spec
CONSTANTS
  Sources = {c1, c2}
  HostKeys = {h1}
  ServiceKeys = {s1, s2}
  Names = {n1}
  Versions = {v1}
  Tuples = {p1}
  MaxRows = 2
  None = None
SYMMETRY Symmetry
VIEW View
INVARIANTS
  ShowsLastScan
  TablesAgree
PROPERTIES
  SilentWhenNothingChanged
  IdentitiesAreKept
  PurgeSparesPresent
