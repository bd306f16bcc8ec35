SPECIFICATION Spec
CONSTANTS
  Publishers = {p1, p2}
  Streams = {s1, s2}
  Capacity = 1
  MaxEvents = 1
PROPERTIES
  NobodyWaitsForClients
CHECK_DEADLOCK FALSE
