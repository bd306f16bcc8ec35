SPECIFICATION PartsSpec
CONSTANTS
  Dockers = {k1, k2}
  Proxies = {p1}
  Names = {n1}
  Domains = {w1}
  MaxId = 2
  MaxEdits = 1
  None = None
  Registries = {s1, s2}
  ImageRefs = {r1}
  Digests = {d1, d2}
  NoDigest = NoDigest
  MaxPublished = 2
  HostSlots <- MCHostSlots
  HostRef <- MCHostRef
  HostReports <- MCHostReports
  ServiceSlots <- MCServiceSlots
  ServiceRef <- MCServiceRef
  ServiceReports <- MCServiceReports
  PortReports <- MCPortReports
  Upstreams <- MCUpstreams
  MachineSlots <- MCMachineSlots
  MachineRef <- MCMachineRef
  MachineReports <- MCMachineReports
SYMMETRY Symmetry
VIEW View
INVARIANTS
  RoutesAreResolved
  NewsIsToldOnce
  LinksAreSound
  ResolutionIsRight
  MachinesAreRight
PROPERTIES
  RescanIsSilent
  NothingKnownIsLost
