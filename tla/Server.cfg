SPECIFICATION PartsSpec
CONSTANTS
  Browsers = {b1}
  Requests = {q1, q2}
  MaxSession = 2
  MaxShare = 1
  MaxTime = 2
  TTL = 1
  Expiries = {0, 1}
  LoginTime = 4
  maxBuckets = 3
  maxAttempts = 2
  window = 3
  cleanupInterval = 3
  Skew = 1
  Overflow = overflow
  Clients = {a, b, c}
  Hosts = {"t1", "u1", "u2"}
  Trusted = {"t1"}
  MaxChain = 2
  MaxHops = 2
  Publishers = {p1, p2}
  Streams = {s1, s2}
  Capacity = 1
  MaxEvents = 1
SYMMETRY Symmetry
INVARIANTS
  ServedRightly
  LoginsAreCounted
  EventsArrive
CHECK_DEADLOCK FALSE
