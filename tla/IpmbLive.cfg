CONSTANTS
  SEQ_NUM = 4
  MAX_SEQ_QUENE = 2
  Cmd = {c1}
  Source <- MCSource
  Id <- MCId
  AllocFails = FALSE
  Readers = {r1, r2}
  Bridges <- MCNoBridges
  IPMB_TX_RETRY_TIME = 1
  IPMB_TXQUEUE_LEN = 1
  IPMB_RXQUEUE_LEN = 1
  SrcSeq = {3}
  MaxReq = 2
  MaxIn = 1
  MaxDup = 0
  Suspends = FALSE
  r1 = r1
  r2 = r2
  c1 = c1
  c2 = c2
SPECIFICATION FairSpec
PROPERTIES ReadReturns ExpiredLeave
