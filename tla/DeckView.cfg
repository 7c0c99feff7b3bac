\* The application's copy of the decks beside the engine, over a restart.
CONSTANTS
  DeckA = a
  DeckB = b
  Slots = {s}
  None = None
  Tracks = {t1, t2, t3, t4}
  FadeBlocks = 1
  RingCap = 2
  Budget = 4
  Calls = {"session", "load", "sampler", "transport", "mode", "scratch", "double", "platter"}
SPECIFICATION Spec
INVARIANTS ViewMatches PeaksBelong
CHECK_DEADLOCK FALSE
