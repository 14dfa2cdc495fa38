CONSTANTS
  j1 = j1
  j2 = j2
  j3 = j3
  NoJob = NoJob
  Jobs = {j1, j2, j3}
  TagModulus = 2
  Kind <- KindIdle
  Reentrant = {j2}
  DefaultTimeout = 30
  ImplicitTls = FALSE
  Greetings = {"PREAUTH"}
  Replies = {"OK"}
  Unsolicited <- DataLine
  MaxUnsolicited = 0
  SplitLines = FALSE
  Deletable = {j1, j2}
  AppTimeouts = {60}
  MaxSettings <- CloseTimeout
SPECIFICATION Spec
INVARIANTS TypeOK QueueSound NoJobForgotten DisabledTimerIsOff
PROPERTIES LossIsTold QueueSpec
CHECK_DEADLOCK FALSE
