SPECIFICATION Spec
CONSTANTS
  Sources = {s1, s2}
  Refs = {r1}
  Digests = {d1, d2}
  NoDigest = NoDigest
  None = None
  MaxPublished = 1
INVARIANT
  SameDigestOnce
