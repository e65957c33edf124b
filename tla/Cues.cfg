SPECIFICATION FairSpec
CONSTANTS
  m1 = m1
  m2 = m2
  gone = gone
  NoMovie = NoMovie
  Frames <- MCFrames
  Cues <- MCCues
  Scripts <- MCScripts
  UserEvents <- MCUserEvents
  MaxClicks = 3
  MaxSeen = 2
INVARIANTS
  FrameInRange
  InStep
PROPERTIES
  PlayedOut
  StopEndsRound
  WaitsEnd
CHECK_DEADLOCK FALSE
