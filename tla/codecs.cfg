SPECIFICATION Spec
CONSTANT CheckedParts = {"bysant", "stagedb", "stagefault", "yajl", "mime", "digest", "sms", "modbus", "telnet", "teel"}
CHECK_DEADLOCK FALSE
INVARIANTS BysantRebuilds JsonIsReadBack FilteredIsWhole DigestIsOfAll MessageIsWhole AnswerIsRight ConsoleIsFaithful
PROPERTIES TablesAreFaithful
