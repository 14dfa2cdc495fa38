CONSTANTS
  Streams <- SomeStreams
  BufferLimit = 2
  CutLineEnds = FALSE
  MayTimeOut = TRUE
SPECIFICATION StreamFair
INVARIANTS ReceivedIsSent NeverWaitsInVain
PROPERTIES AllIsReceived
CHECK_DEADLOCK FALSE
