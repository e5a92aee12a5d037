\* The list: two sequence numbers, three records at most: eviction, exhaustion of
\* the sequence numbers and a sweep that skips a record all happen.
\* The echo: ring buffer, handler buffer and FIFOs of different small sizes, and
\* more bytes than fit: throttling, short fills and an empty ring all happen.
\* The TRBs: five cells and the link TRB; the ring is passed four times.
CONSTANTS
  SEQ_NUM = 2
  MAX_SEQ_QUENE = 3
  Cmd = {c1}
  Source = {self}
  Id = {i1}
  AllocFails = TRUE
  RING_BUF_SIZE = 3
  BUFFER = 2
  RX_FIFO = 2
  TX_FIFO = 2
  MaxBytes = 8
  num_trb = 6
  MaxTrb = 21
SPECIFICATION QueuesSpec
INVARIANTS CountMatchesRing SweepSafe NoWedge Ordered
PROPERTIES SweepEnds Drained InOrder RingDrained
CHECK_DEADLOCK FALSE
