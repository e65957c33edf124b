SPECIFICATION FairSpec
CONSTANTS
  NumResolutions = 2
  BufferSize = 2
  HeaderSize = 1
  w1 = w1
  w2 = w2
  w3 = w3
  Workers <- MCWorkers
  Movies <- MCMovies
INVARIANTS
  TypeOK
  NothingAborts
  OnlyOversizeFails
  FilesAreContiguous
  MovieReadsBack
PROPERTY
  MovieIsMade
CHECK_DEADLOCK FALSE
