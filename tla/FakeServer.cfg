CONSTANTS
  Scripts <- SomeScripts
  MaxScenarios = 2
  MaxClients = 2
  Encrypted = TRUE
  WaitForStartTls = TRUE
  Contents = {"told", "other"}
SPECIFICATION FakeSpec
INVARIANTS DoneIsTrue
CHECK_DEADLOCK FALSE
