\* Two threads call the object at any time.
CONSTANTS
  Clients = {a, b}
  Positions = {p}
SPECIFICATION Spec
INVARIANTS MarkersMatchPlan OneCommit ImportsSurvive
PROPERTIES EditsGuarded NamesFit
SYMMETRY ClientSymmetry
