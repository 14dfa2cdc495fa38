CONSTANTS
  j1 = j1
  j2 = j2
  j3 = j3
  NoJob = NoJob
  Jobs = {j1, j2}
  TagModulus = 65536
  Kind <- KindLoginPlain
  Reentrant = {}
  DefaultTimeout = 30
  ImplicitTls = FALSE
  Greetings = {"OK"}
  Replies = {"OK", "NO"}
  Unsolicited <- Garbage
  MaxUnsolicited = 1
  SplitLines = FALSE
  Deletable = {}
  AppTimeouts = {}
  MaxSettings <- ProxyOnce
SPECIFICATION Spec
INVARIANTS EndsAgree GreetingIsTimely
CHECK_DEADLOCK FALSE
