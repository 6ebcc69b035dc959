\* Every kind of entry, source views, their blobs and keys, through pruning, compaction, failed saves,
\* crashes and resumes.
SPECIFICATION FairSpec
CONSTANTS
  Texts = {"t1"}
  MaxItems = 2
  MaxViews = 2
  MaxMishaps = 2
  Faults = {"header", "append"}
INVARIANTS ReplayIsExact LogConsistent ResumeFaithful
PROPERTIES SavesAreAtomic GateReleased
\* A process that died before its first record has nothing to resume.
CHECK_DEADLOCK FALSE
