\* One analysed track on one deck, nothing fails and nothing is imported.
CONSTANTS
  Tracks = {a}
  Decks = {0}
  Silent = {}
  Imports = {}
  None = None
  Faults = {}
  Known = {a}
  Touched = {a}
  MaxLoads = 1
  MaxGestures = 2
SPECIFICATION Spec
PROPERTY LockIsAbsolute
CHECK_DEADLOCK FALSE
