SPECIFICATION PartsSpec
CONSTANTS
  Evals = {e1, e2}
  MaxRule = 2
  ExpiryRules = {1}
  Due = 1
  Channels = 1
  MaxRuns = 1
  MaxCreated = 2
  MaxLate = 1
  MaxFaults = 1
  Changes = {c1, c2}
  Expiries = {}
  Scans = {s1}
  Conns = 2
  Messages = 1
INVARIANTS
  ClaimsAreHeld
  Once
PROPERTIES
  ImplementsDelivery
  ExpiryArrives
  EverybodyIsServed
