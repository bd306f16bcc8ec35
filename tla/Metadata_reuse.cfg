SPECIFICATION Spec
CONSTANTS
  Sources = {c1}
  Pages = {r1}
  MaxId = 1
  MaxBorn = 3
  None = None
INVARIANTS
  MetadataStaysApart
PROPERTIES
  MetadataSurvives
