\* Titled segments over two splits: an interrupted rip is committed in the end,
\* and no two of its segments share a file.
CONSTANTS
  Length = 2
  MinSegment = 1
  Titles = {t}
  Untitled = none
  MaxCuts = 1
  MaxGen = 2
  MaxMishaps = 1
  SegmentFaults = FALSE
  DeleteFaults = TRUE
SPECIFICATION FairSpec
INVARIANT SegmentsApart
PROPERTY InterruptedRipCommits
CHECK_DEADLOCK FALSE
