SPECIFICATION ClientSpec
CONSTANTS
  DefaultEntries = 3
  Statement = {"s", "t"}
  Other = {"exit", "blank", "bad"}
  LF = "LF"
  Bytes <- MCBytes
  MaxLines = 3
  MaxSessions = 2
INVARIANTS
  ClientTypeOK
  RecallIsExact
  FileIsTheLog
PROPERTY StatementsAreFinished
CHECK_DEADLOCK FALSE
