\* A reader and a bridging thread, three requests and a list of two: an answer may
\* be late, repeated or lost, and the third request evicts the first.
CONSTANTS
  SEQ_NUM = 4
  MAX_SEQ_QUENE = 2
  Cmd = {c1}
  Source <- MCSource
  Id <- MCId
  AllocFails = TRUE
  Readers = {r1}
  Bridges <- MCOneBridge
  IPMB_TX_RETRY_TIME = 1
  IPMB_TXQUEUE_LEN = 1
  IPMB_RXQUEUE_LEN = 1
  SrcSeq = {3}
  MaxReq = 3
  MaxIn = 0
  MaxDup = 1
  Suspends = TRUE
  r1 = r1
  r2 = r2
  c1 = c1
  c2 = c2
SPECIFICATION Spec
INVARIANTS AtMostOneReply ReplyAnswersItsRequest
CHECK_DEADLOCK FALSE
