------------------------------ MODULE CdcEcho ------------------------------
(***************************************************************************)
(* The CDC ACM echo of samples/power/cdc_acm (and, line for line, the UART *)
(* half of samples/mcp2221): an interrupt handler moves bytes from the USB *)
(* OUT side (the RX FIFO) into a ring buffer and from there to the IN side *)
(* (the TX FIFO).  When the ring buffer is full it throttles: it disables  *)
(* the RX interrupt and relies on a later pass through the TX half to      *)
(* enable it again.                                                        *)
(*                                                                         *)
(* The handler is a loop in one context, so each pass over one of its      *)
(* halves is one action.  The host is external: it sends bytes into the RX *)
(* FIFO and takes them out of the TX FIFO whenever it likes.               *)
(***************************************************************************)
EXTENDS Naturals, Sequences

CONSTANTS RING_BUF_SIZE,   \* 1024 in the code
          BUFFER,          \* size of the handler's local buffer, 64
          RX_FIFO, TX_FIFO,\* capacity of the driver's FIFOs
          MaxBytes         \* bound: bytes the host sends

ASSUME SizeAssumption ==
  /\ RING_BUF_SIZE \in Nat \ {0} /\ BUFFER \in Nat \ {0}
  /\ RX_FIFO \in Nat \ {0} /\ TX_FIFO \in Nat \ {0} /\ MaxBytes \in Nat

VARIABLES rx_fifo, ringbuf, tx_fifo,   \* bytes, oldest first
          rx_irq, tx_irq,              \* interrupt enable bits
          rx_throttled,
          half,                        \* the half of the loop body that is next
          sent,                        \* number of bytes the host has sent
          echoed                       \* the bytes the host has got back

vars == <<rx_fifo, ringbuf, tx_fifo, rx_irq, tx_irq, rx_throttled, half, sent, echoed>>

\* The n-th byte the host sends is n, so that loss and reordering show.
Byte == 1 .. MaxBytes

TypeOK ==
  /\ rx_fifo \in Seq(Byte) /\ Len(rx_fifo) <= RX_FIFO
  /\ ringbuf \in Seq(Byte) /\ Len(ringbuf) <= RING_BUF_SIZE
  /\ tx_fifo \in Seq(Byte) /\ Len(tx_fifo) <= TX_FIFO
  /\ rx_irq \in BOOLEAN /\ tx_irq \in BOOLEAN /\ rx_throttled \in BOOLEAN
  /\ half \in {"rx", "tx"}
  /\ sent \in 0 .. MaxBytes
  /\ echoed \in Seq(Byte)

\* main: the ring buffer is empty and only RX interrupts are enabled.
Init ==
  /\ rx_fifo = << >> /\ ringbuf = << >> /\ tx_fifo = << >>
  /\ rx_irq = TRUE /\ tx_irq = FALSE /\ rx_throttled = FALSE
  /\ half = "rx"
  /\ sent = 0 /\ echoed = << >>

Smaller(a, b) == IF a < b THEN a ELSE b
FirstOf(s, n) == SubSeq(s, 1, n)
AfterFirst(s, n) == SubSeq(s, n + 1, Len(s))

\* uart_irq_rx_ready, uart_irq_tx_ready and uart_irq_is_pending (driver)
RxReady == rx_irq /\ rx_fifo # << >>
TxReady == tx_irq /\ Len(tx_fifo) < TX_FIFO
Pending == RxReady \/ TxReady

----------------------------------------------------------------------------
RxSpace == RING_BUF_SIZE - Len(ringbuf)
RxLen   == Smaller(Smaller(RxSpace, BUFFER), Len(rx_fifo))

\* Nothing to receive, or receiving is throttled: on to the TX half.
RxSkip ==
  /\ half = "rx" /\ Pending
  /\ rx_throttled \/ ~RxReady
  /\ half' = "tx"
  /\ UNCHANGED <<rx_fifo, ringbuf, tx_fifo, rx_irq, tx_irq, rx_throttled, sent, echoed>>

\* The ring buffer is full: throttle and start the loop again.
RxThrottle ==
  /\ half = "rx"
  /\ ~rx_throttled /\ RxReady
  /\ RxSpace = 0
  /\ rx_irq' = FALSE
  /\ rx_throttled' = TRUE
  /\ UNCHANGED <<rx_fifo, ringbuf, tx_fifo, tx_irq, half, sent, echoed>>

\* Faulty variants: TX interrupts are not enabled; the bytes go to the front.
RxMoveSilent ==
  /\ half = "rx"
  /\ ~rx_throttled /\ RxReady
  /\ RxSpace > 0
  /\ ringbuf' = ringbuf \o FirstOf(rx_fifo, RxLen)
  /\ rx_fifo' = AfterFirst(rx_fifo, RxLen)
  /\ half' = "tx"
  /\ UNCHANGED <<tx_fifo, rx_irq, tx_irq, rx_throttled, sent, echoed>>

RxMoveToFront ==
  /\ half = "rx"
  /\ ~rx_throttled /\ RxReady
  /\ RxSpace > 0
  /\ ringbuf' = FirstOf(rx_fifo, RxLen) \o ringbuf
  /\ rx_fifo' = AfterFirst(rx_fifo, RxLen)
  /\ tx_irq' = TRUE
  /\ half' = "tx"
  /\ UNCHANGED <<tx_fifo, rx_irq, rx_throttled, sent, echoed>>

\* uart_fifo_read into the ring buffer; TX interrupts take over from there.
RxMove ==
  /\ half = "rx"
  /\ ~rx_throttled /\ RxReady
  /\ RxSpace > 0
  /\ ringbuf' = ringbuf \o FirstOf(rx_fifo, RxLen)
  /\ rx_fifo' = AfterFirst(rx_fifo, RxLen)
  /\ tx_irq' = TRUE
  /\ half' = "tx"
  /\ UNCHANGED <<tx_fifo, rx_irq, rx_throttled, sent, echoed>>

\* uart_fifo_read fails: nothing is stored and TX interrupts stay as they are.
RxReadError ==
  /\ half = "rx"
  /\ ~rx_throttled /\ RxReady
  /\ RxSpace > 0
  /\ half' = "tx"
  /\ UNCHANGED <<rx_fifo, ringbuf, tx_fifo, rx_irq, tx_irq, rx_throttled, sent, echoed>>

\* The TX half has nothing to do: the loop starts again.
TxSkip ==
  /\ half = "tx"
  /\ ~TxReady
  /\ half' = "rx"
  /\ UNCHANGED <<rx_fifo, ringbuf, tx_fifo, rx_irq, tx_irq, rx_throttled, sent, echoed>>

TxEmpty ==
  /\ half = "tx" /\ TxReady
  /\ ringbuf = << >>
  /\ tx_irq' = FALSE
  /\ half' = "rx"
  /\ UNCHANGED <<rx_fifo, ringbuf, tx_fifo, rx_irq, rx_throttled, sent, echoed>>

TxLen == Smaller(BUFFER, Len(ringbuf))
TxRoom == TX_FIFO - Len(tx_fifo)

\* Faulty variant: the throttle is not lifted.
TxMoveNoLift ==
  /\ half = "tx" /\ TxReady
  /\ ringbuf # << >>
  /\ tx_fifo' = tx_fifo \o FirstOf(ringbuf, Smaller(TxLen, TxRoom))
  /\ ringbuf' = AfterFirst(ringbuf, TxLen)
  /\ half' = "rx"
  /\ UNCHANGED <<rx_fifo, rx_irq, rx_throttled, tx_irq, sent, echoed>>

\* Up to BUFFER bytes leave the ring buffer, receiving is possible again, and
\* what the TX FIFO has no room for is dropped.
TxMove ==
  /\ half = "tx" /\ TxReady
  /\ ringbuf # << >>
  /\ tx_fifo' = tx_fifo \o FirstOf(ringbuf, Smaller(TxLen, TxRoom))
  /\ ringbuf' = AfterFirst(ringbuf, TxLen)
  /\ rx_irq' = (rx_irq \/ rx_throttled)
  /\ rx_throttled' = FALSE
  /\ half' = "rx"
  /\ UNCHANGED <<rx_fifo, tx_irq, sent, echoed>>

Handler == RxSkip \/ RxThrottle \/ RxMove \/ RxReadError \/ TxSkip \/ TxEmpty \/ TxMove

----------------------------------------------------------------------------
HostSend ==
  /\ sent < MaxBytes
  /\ Len(rx_fifo) < RX_FIFO
  /\ sent' = sent + 1
  /\ rx_fifo' = Append(rx_fifo, sent + 1)
  /\ UNCHANGED <<ringbuf, tx_fifo, rx_irq, tx_irq, rx_throttled, half, echoed>>

HostTake ==
  /\ tx_fifo # << >>
  /\ echoed' = Append(echoed, Head(tx_fifo))
  /\ tx_fifo' = Tail(tx_fifo)
  /\ UNCHANGED <<rx_fifo, ringbuf, rx_irq, tx_irq, rx_throttled, half, sent>>

Next == Handler \/ HostSend \/ HostTake

Spec == Init /\ [][Next]_vars

\* The interrupt handler runs while an interrupt is pending, the FIFO cannot be
\* read with an error for ever, and the host reads.
FairSpec == Spec /\ WF_vars(Handler) /\ SF_vars(RxMove) /\ WF_vars(HostTake)

----------------------------------------------------------------------------
\* The throttle flag and the interrupt enable bit are always opposite, and data
\* in the ring buffer always has a TX interrupt coming for it.
FlowControl ==
  /\ rx_throttled <=> ~rx_irq
  /\ ringbuf # << >> => tx_irq

\* Throttled reception is never stuck: there is data in the ring buffer and the
\* TX interrupt that will move it, and so lift the throttle, is enabled.
NoWedge == rx_throttled => ringbuf # << >> /\ tx_irq

\* Bytes keep their order on the way through the three buffers.
Ordered ==
  LET path == echoed \o tx_fifo \o ringbuf \o rx_fifo
  IN \A i, j \in 1 .. Len(path) : i < j => path[i] < path[j]

\* What the host sends is taken from the RX FIFO in the end, however often the
\* handler throttles, as long as the host reads.
Drained == (rx_fifo # << >>) ~> (rx_fifo = << >>)

\* main.c:11 "The received data is echoed back to the serial port": the bytes
\* that came back are the first bytes sent, none missing.
EchoComplete == \A i \in 1 .. Len(echoed) : echoed[i] = i
============================================================================
