\* One worker: the first job of a new cache has request number 0.
CONSTANTS
  NumReaderThreads = 1
  MaxCachedImages = 2
  PreloadFrames = 1
  NumFrames = 3
  StartFrame = 0
  EndFrame = 2
  Directions <- Forward
  PreloadFlags = {TRUE}
  SkipOddFrames = FALSE
  Cells <- MCCells
  Regions = {{"left"}}
  Lods = {0}
  WholeFrame = FALSE
  Word <- MCWord
  MaxCalls = 3
  MaxMovies = 1
SPECIFICATION Spec
PROPERTY DiscardedJobIsNotAwaited
CHECK_DEADLOCK FALSE
