\* The worker and the session calls end, whatever the audio thread does.
CONSTANTS
  RingCap = 2
  BlockMax = 2
  PreRollCap = 1
  MaxFrames = 2
  AutoStart = TRUE
  SilenceStop = 1
  Tolerate = 1
  MaxInput = 4
  MaxArms = 1
SPECIFICATION Spec
PROPERTIES StopLands InputLossStops DropReturns
CHECK_DEADLOCK FALSE
