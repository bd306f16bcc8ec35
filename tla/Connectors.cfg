SPECIFICATION PartsSpec
CONSTANTS
  Workers = {w1, w2}
  Tags <- ThreeTags
  Registries <- TwoRegistries
  TokenHost <- Auth
  MirrorHost <- Mirror
  downAfter = 2
  Spare = 0
  Days = {1}
  Guests = {vm, ct}
  VMs = {vm}
  Addrs = {a1}
  Unread = Unread
  Slots = 1
  MaxMoves = 1
  Containers = {c1}
  Processes = {p1}
  MaxNumber = 2
  MaxTurns = 2
  Scans = {s1, s2}
  Tests = {t1}
  MaxLogins = 9
  MaxFaults = 1
  Names <- EightNames
  Files <- ThreeFiles
  Directory <- OneDirectory
  symlinkHops = 2
  Contents <- SomeContents
  Rewritten <- SomeRewritten
  Mounts <- SomeMounts
  Limits <- TwoLimits
  MaxRewrites = 1
  None = None
SYMMETRY Symmetry
INVARIANTS
  OutagesAreContained
  LookupsAreServed
  PortsAreTold
  LoadIsFaithful
PROPERTIES
  UnreadIsKept
  SessionsAreShared
