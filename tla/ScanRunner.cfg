SPECIFICATION Spec
CONSTANTS
  Threads = {t1, t2, t3}
  Kinds = {docker, caddy}
  ProxyKinds = {caddy}
  MaxId = 1
  MaxBorn = 2
  MaxFaults = 1
  None = None
INVARIANTS
  ScansExclude
  StatusIsNewestRun
  InventoryFromOwnSource
  DisabledRests
  ProxyInsertFits
PROPERTIES
  ImplementsLifecycle
  RunningHeals
  ClaimReleased
