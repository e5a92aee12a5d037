\* A bridging thread, three sequence numbers and five requests: get_free_seq comes
\* round again and steps over numbers that are registered, to a record that is still
\* on the list or to one that was evicted.
CONSTANTS
  SEQ_NUM = 3
  MAX_SEQ_QUENE = 2
  Cmd = {c1}
  Source <- MCSource
  Id <- MCId
  AllocFails = FALSE
  Readers = {}
  Bridges <- MCOneBridge
  IPMB_TX_RETRY_TIME = 1
  IPMB_TXQUEUE_LEN = 1
  IPMB_RXQUEUE_LEN = 1
  SrcSeq = {2}
  MaxReq = 5
  MaxIn = 0
  MaxDup = 0
  Suspends = FALSE
  r1 = r1
  r2 = r2
  c1 = c1
  c2 = c2
SPECIFICATION TimelySpec
INVARIANT OutstandingSeqsReserved
CHECK_DEADLOCK FALSE
