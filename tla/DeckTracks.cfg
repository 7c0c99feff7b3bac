\* A set of two decks, every call, and the trash emptied now and then.
CONSTANTS
  DeckA = a
  DeckB = b
  Slots = {s}
  None = None
  Tracks = {t1, t2, t3, t4}
  FadeBlocks = 2
  RingCap = 1
  TrashCap = 2
  Budget = 3
  Calls = {"load", "sampler", "play", "pause", "seek", "mode", "scratch", "double"}
  Polls = TRUE
SPECIFICATION FairSpec
INVARIANTS TypeOK NothingStaysAfterTheRamp NoMutualHosts
PROPERTIES AudioNeverFrees DisplacedIsFreed
CHECK_DEADLOCK FALSE
