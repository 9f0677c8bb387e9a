SPECIFICATION ReplySpec
CONSTANTS
  BITS = {"a", "b"}
  LINE_BYTES <- MCLineBytes
  HEAD <- MCHead
  REPLY_SIZE = 4
  COMMAND_SIZE = 3
  Others = {"topic"}
  OUT_SIZE = 2
  TIMEOUT = 0
  MAX_BYTES = 8
INVARIANTS AnswerIsRight CommandsNotMixed
CHECK_DEADLOCK FALSE
