CONSTANTS
  CommandClasses = {"store", "copy", "move", "fetch", "search", "append", "select", "list", "login", "status", "rename", "enable", "id", "setquota", "listrights", "deleteacl", "getmetadata", "create", "delete", "subscribe", "unsubscribe", "getacl", "myrights", "getquotaroot", "getquota"}
  Names = {"a", "b"}
  MailBoxSize = 2
  Flags = {"Recent", "Seen"}
  Labels = {"work"}
  ModSeqs = {0, 1, 2}
  Words = {"one", "two"}
SPECIFICATION CommandSpec
INVARIANT CommandIsMeant
CHECK_DEADLOCK FALSE
