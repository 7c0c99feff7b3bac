\* Hands-off recording against the session and the audio thread.
CONSTANTS
  RingCap = 3
  BlockMax = 2
  PreRollCap = 1
  MaxFrames = 3
  AutoStart = TRUE
  SilenceStop = 1
  Tolerate = 1
  MaxInput = 5
  MaxArms = 1
SPECIFICATION Spec
INVARIANTS SpillUnbroken StopKeepsTail BeginsAtTheDrop FileIsCapped EditsSeeFinalLength
PROPERTIES TerminalIsFinal
CHECK_DEADLOCK FALSE
