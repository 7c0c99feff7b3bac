\* A new track, and one without a tempo to find, on one deck; every fault.
CONSTANTS
  Tracks = {a, b}
  Decks = {0}
  Silent = {b}
  Imports = {"serato"}
  None = None
  Faults = {"decode", "spawn", "peaks", "analysis", "statement"}
  Known = {b}
  Touched = {a}
  MaxLoads = 2
  MaxGestures = 2
SPECIFICATION Spec
INVARIANTS LockReachesDeck
PROPERTIES AnalysisHonoursLock NeverGridless StraysOnlyDuringLoad GridArrives
CHECK_DEADLOCK FALSE
