CONSTANTS
  j1 = j1
  j2 = j2
  j3 = j3
  NoJob = NoJob
  Jobs = {j1, j2, j3}
  TagModulus = 65536
  Kind <- KindStartTls
  Reentrant = {}
  DefaultTimeout = 30
  ImplicitTls = FALSE
  Greetings = {"OK", "PREAUTH", "NO", "BYE"}
  Replies = {"OK", "NO"}
  Unsolicited <- DataLine
  MaxUnsolicited = 0
  SplitLines = FALSE
  Deletable = {}
  AppTimeouts = {}
  MaxSettings <- Never
SPECIFICATION FairSpec
INVARIANTS EndsAgree LoginIsEncrypted
PROPERTIES SuccessIsReal JobsEnd
CHECK_DEADLOCK FALSE
