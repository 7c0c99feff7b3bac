\* A commit and a re-split, with every fault and crashes between any two writes.
CONSTANTS
  Length = 2
  MinSegment = 1
  Titles = {}
  Untitled = none
  MaxCuts = 1
  MaxGen = 2
  MaxMishaps = 2
  SegmentFaults = TRUE
  DeleteFaults = TRUE
SPECIFICATION Spec
INVARIANTS SideKept CommitMatchesPlan FilesOutliveRows NothingStranded
PROPERTIES SpillGoesLast OriginalsOutlive
CHECK_DEADLOCK FALSE
