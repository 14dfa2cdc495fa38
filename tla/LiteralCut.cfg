CONSTANTS
  Streams <- SomeStreams
  BufferLimit = 2
  CutLineEnds = TRUE
  MayTimeOut = TRUE
SPECIFICATION StreamSpec
INVARIANTS LiteralsAreWhole
CHECK_DEADLOCK FALSE
