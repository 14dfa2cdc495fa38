CONSTANTS
  j1 = j1
  j2 = j2
  j3 = j3
  NoJob = NoJob
  Jobs = {j1, j2}
  TagModulus = 65536
  Kind <- KindTls
  Reentrant = {}
  DefaultTimeout = 30
  ImplicitTls = TRUE
  Greetings = {"OK", "BYE"}
  Replies = {"OK", "NO"}
  Unsolicited <- DataLine
  MaxUnsolicited = 0
  SplitLines = TRUE
  Deletable = {}
  AppTimeouts = {}
  MaxSettings <- Never
SPECIFICATION Spec
INVARIANTS RunningJobIsTimed
CHECK_DEADLOCK FALSE
