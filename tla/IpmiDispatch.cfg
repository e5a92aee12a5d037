\* Three messages.  A queue of two holds messages of both producers; in a queue of
\* one, where a handler that hangs is enough to fill it, a producer finds it full,
\* purges it and finds it full again.
CONSTANTS
  Producer = {"KCS", "IPMB"}
  IPMI_BUF_LEN = 2
  Retries = 2
  Command <- MCCommand
  MaxMsg = 3
SPECIFICATION DispatchSpec
INVARIANTS RepliesInOrder GetReadsAcked
PROPERTY QueueMoves
CHECK_DEADLOCK FALSE
