CONSTANTS
  Classes <- DataClasses
  Codes = {"OK", "NO", "malformed"}
  MaxTold = 2
  Liberties = {}
  Offers <- SomeOffers
  Mechanisms = {"PLAIN", "CRAM-MD5"}
  MailBoxes <- SomeMailBoxes
  FolderNames <- SomeFolderNames
  NonAscii = {"non-ascii"}
  Utf8Enabled = FALSE
  Parts = {"1"}
  Structures <- SomeStructures
  MailBoxSize = 2
  Counts = {1}
  ChangedMessages = {1, 2}
  MailBoxCounts = {0, 1}
  IntMax = 2
  MaxCalls = 2
  Numbers = {1, 2}
  Terms <- SomeTerms
  FlagSets = {{}, {"Seen"}}
  Rights = {"c", "x", "?"}
  KnownRights = {"c", "x"}
  Identifiers = {"a", "b"}
  Resources = {"STORAGE", "MESSAGE"}
  Amounts = {0, 1}
  Capabilities = {"IMAP4REV2", "QRESYNC", "CONDSTORE", "LITERAL+", "LITERAL-"}
  FoldedIn = {"IDLE"}
  NamespaceItems <- SomeNamespaceItems
  Names = {"a", "b"}
  MetaValues = {"", "v", "lines"}
  EmptyAmongLines = FALSE
  SeveralNames = FALSE
SPECIFICATION Spec
INVARIANTS FetchedIsReported NumbersAreKnown SearchIsAsked RightsAreKnown QuotasAreKnown ServerIsKnown MailBoxIsAsAsked MailBoxIsNamed MetaDataIsSet MetaDataIsKnown
CHECK_DEADLOCK FALSE
