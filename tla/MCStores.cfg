\* Saves overlap with stores; two processes share the catalogue; a window of two segments.
SPECIFICATION StoresSpec
CONSTANTS
  Images = {i1, i2}
  Results = {r1, r2}
  MaxAssets = 2
  Procs = {p1, p2}
  MaxVersion = 2
  MaxStarts = 2
  MaxPublished = 1
  MaxFetches = 2
  MaxMishaps = 1
  MAX_HISTORY_SEGMENTS = 2
  MaxCompactions = 4
  Kinds <- MCKinds
  DEFAULT_LIMIT = 2
  Limits = {1, 3}
  Facts = {"f", "g"}
  Inputs = {"a", "b", "c"}
  MAX_HINTS = 2
  MaxFacts = 2
  MaxOffered = 3
INVARIANTS SessionKept CatalogSound
PROPERTIES CatalogForward
SYMMETRY Symmetry
CHECK_DEADLOCK FALSE
