\* One worker; a movie of eight frames plays forward, one frame preloaded.
CONSTANTS
  NumReaderThreads = 1
  MaxCachedImages = 4
  PreloadFrames = 1
  NumFrames = 8
  StartFrame = 0
  EndFrame = 7
  Directions <- Forward
  PreloadFlags = {TRUE}
  SkipOddFrames = FALSE
  Cells = {"all"}
  Regions = {{"all"}}
  Lods = {0}
  WholeFrame = FALSE
  Word <- MCWord
  MaxCalls = 6
  MaxMovies = 2
SPECIFICATION PlaySpec
INVARIANT AnswerIsRight
PROPERTIES EvictsOnlyWhenFull UpcomingSurvives
CHECK_DEADLOCK FALSE
