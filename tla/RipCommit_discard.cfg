\* Discarding a session opened for a re-split.
CONSTANTS
  Length = 1
  MinSegment = 1
  Titles = {}
  Untitled = none
  MaxCuts = 0
  MaxGen = 2
  MaxMishaps = 0
  SegmentFaults = FALSE
  DeleteFaults = FALSE
SPECIFICATION Spec
INVARIANT NoDanglingRow
CHECK_DEADLOCK FALSE
