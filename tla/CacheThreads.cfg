\* Two workers, each with a slot once a movie is open; three frames, zooming in and out,
\* playing backward; two movies.
CONSTANTS
  NumReaderThreads = 2
  MaxCachedImages = 1
  PreloadFrames = 1
  NumFrames = 3
  StartFrame = 0
  EndFrame = 2
  Directions <- Backward
  PreloadFlags = {TRUE}
  SkipOddFrames = FALSE
  Cells <- MCCells
  Regions <- MCRegions
  Lods = {0}
  WholeFrame = FALSE
  Word <- MCWord
  MaxCalls = 3
  MaxMovies = 2
SPECIFICATION FairSpec
INVARIANTS TypeOK PendingIsInProgress OnlyReuseMisleads
PROPERTIES GetImageReturns DestroyReturns
CHECK_DEADLOCK FALSE
