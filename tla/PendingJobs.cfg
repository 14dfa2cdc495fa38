CONSTANTS
  Classes <- ClassesAtLarge
  Codes = {"OK", "NO", "malformed"}
  MaxTold = 3
  Liberties = {"split", "expunge", "unsolicited"}
  Offers <- SomeOffers
  Mechanisms = {"PLAIN", "CRAM-MD5"}
  MailBoxes <- SomeMailBoxes
  FolderNames <- PlainFolderNames
  NonAscii = {}
  Utf8Enabled = FALSE
  Parts = {}
  Structures <- FewStructures
  MailBoxSize = 2
  Counts = {1}
  ChangedMessages = {1, 2}
  MailBoxCounts = {0, 1}
  IntMax = 2
  MaxCalls = 2
  Numbers = {1, 2}
  Terms <- FewTerms
  FlagSets = {{}, {"Seen"}}
  Rights = {}
  KnownRights = {}
  Identifiers = {"a", "b"}
  Resources = {"STORAGE"}
  Amounts = {0}
  Capabilities = {"QRESYNC"}
  FoldedIn = {"IDLE"}
  NamespaceItems <- FewNamespaceItems
  Names = {"a", "b"}
  MetaValues = {"", "v", "lines"}
  EmptyAmongLines = FALSE
  SeveralNames = FALSE
SPECIFICATION Spec
INVARIANTS RefusalIsTold SecretsAreSafe LoginIsReal ListedIsReported SelectedIsReported SelectedIsAsked CountsAreReported
PROPERTIES ResultIsLast
CHECK_DEADLOCK FALSE
