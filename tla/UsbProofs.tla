----------------------------- MODULE UsbProofs -----------------------------
(***************************************************************************)
(* Proofs about two small parts of the USB samples: the flow control and   *)
(* the order of the bytes of the CDC ACM echo, for every size of the ring  *)
(* buffer, of the handler's buffer and of the FIFOs; and the TRB rings of  *)
(* the xHCI driver, for every number of TRBs.                              *)
(***************************************************************************)
EXTENDS CdcEcho, XhciRing, SequenceTheorems, TLAPS

FlowInv == TypeOK /\ FlowControl /\ NoWedge

\* Taking the first n bytes of a buffer, and leaving the others.
LEMMA SplitProperties ==
  ASSUME NEW s \in Seq(Byte), NEW n \in 0 .. Len(s)
  PROVE  /\ FirstOf(s, n) \in Seq(Byte) /\ Len(FirstOf(s, n)) = n
         /\ AfterFirst(s, n) \in Seq(Byte) /\ Len(AfterFirst(s, n)) = Len(s) - n
<1>1. Len(s) \in Nat /\ \A i \in 1 .. Len(s) : s[i] \in Byte
  BY LenProperties, ElementOfSeq
<1>2. \A i \in 1 .. n : s[i] \in Byte
  BY <1>1
<1>3. \A i \in n + 1 .. Len(s) : s[i] \in Byte
  BY <1>1
<1>4. 1 \in Int /\ n \in Int /\ n + 1 \in Int /\ Len(s) \in Int
  BY <1>1
<1>5. SubSeq(s, 1, n) \in Seq(Byte) /\ Len(SubSeq(s, 1, n)) = n
  BY <1>1, <1>2, <1>4, SubSeqProperties
<1>6. SubSeq(s, n + 1, Len(s)) \in Seq(Byte) /\ Len(SubSeq(s, n + 1, Len(s))) = Len(s) - n
  BY <1>1, <1>3, <1>4, SubSeqProperties
<1> QED BY <1>5, <1>6 DEF FirstOf, AfterFirst

LEMMA FlowInit == Init => FlowInv
<1> SUFFICES ASSUME Init PROVE FlowInv
  OBVIOUS
<1>1. << >> \in Seq(Byte) /\ Len(<< >>) = 0
  BY EmptySeq
<1>2. TypeOK
  <2>1. rx_irq \in BOOLEAN /\ tx_irq \in BOOLEAN /\ rx_throttled \in BOOLEAN
        /\ half \in {"rx", "tx"}
    BY Zenon DEF Init
  <2>2. /\ Len(rx_fifo) <= RX_FIFO /\ Len(ringbuf) <= RING_BUF_SIZE /\ Len(tx_fifo) <= TX_FIFO
        /\ sent \in 0 .. MaxBytes
    BY <1>1, SizeAssumption DEF Init
  <2>3. rx_fifo \in Seq(Byte) /\ ringbuf \in Seq(Byte) /\ tx_fifo \in Seq(Byte)
        /\ echoed \in Seq(Byte)
    BY <1>1, Zenon DEF Init
  <2> QED BY <2>1, <2>2, <2>3, Zenon DEF TypeOK
<1>3. FlowControl /\ NoWedge
  BY DEF Init, FlowControl, NoWedge
<1> QED BY <1>2, <1>3 DEF FlowInv

LEMMA RxMoveInv == ASSUME FlowInv, RxMove PROVE FlowInv'
<1>1. /\ rx_fifo \in Seq(Byte) /\ Len(rx_fifo) \in Nat /\ Len(rx_fifo) <= RX_FIFO
      /\ ringbuf \in Seq(Byte) /\ Len(ringbuf) \in Nat /\ Len(ringbuf) <= RING_BUF_SIZE
  BY LenProperties DEF FlowInv, TypeOK
<1>2. RxLen \in 1 .. Len(rx_fifo) /\ Len(ringbuf) + RxLen <= RING_BUF_SIZE
  <2>1. rx_fifo # << >> /\ RING_BUF_SIZE - Len(ringbuf) > 0
    BY DEF RxMove, RxReady, RxSpace
  <2>2. Len(rx_fifo) > 0
    BY <1>1, <2>1, EmptySeq
  <2> QED BY <1>1, <2>1, <2>2, SizeAssumption DEF RxLen, RxSpace, Smaller
<1>3. RxLen \in 0 .. Len(rx_fifo)
  BY <1>1, <1>2
<1>4. /\ FirstOf(rx_fifo, RxLen) \in Seq(Byte) /\ Len(FirstOf(rx_fifo, RxLen)) = RxLen
      /\ rx_fifo' \in Seq(Byte) /\ Len(rx_fifo') = Len(rx_fifo) - RxLen
  BY <1>1, <1>3, SplitProperties DEF RxMove
<1>5. /\ ringbuf' \in Seq(Byte)
      /\ Len(ringbuf') = Len(ringbuf) + RxLen
  BY <1>1, <1>4, ConcatProperties DEF RxMove
<1>6. TypeOK'
  <2>1. /\ rx_irq' \in BOOLEAN /\ tx_irq' \in BOOLEAN /\ rx_throttled' \in BOOLEAN
        /\ half' \in {"rx", "tx"} /\ sent' \in 0 .. MaxBytes /\ echoed' \in Seq(Byte)
        /\ tx_fifo' \in Seq(Byte) /\ Len(tx_fifo') <= TX_FIFO
    BY Zenon DEF FlowInv, TypeOK, RxMove
  <2>2. Len(rx_fifo') <= RX_FIFO /\ Len(ringbuf') <= RING_BUF_SIZE
    BY <1>1, <1>2, <1>4, <1>5, SizeAssumption
  <2> QED BY <1>4, <1>5, <2>1, <2>2, Zenon DEF TypeOK
<1>7. FlowControl' /\ NoWedge'
  BY DEF FlowInv, FlowControl, NoWedge, RxMove
<1> QED BY <1>6, <1>7 DEF FlowInv

LEMMA RxThrottleInv == ASSUME FlowInv, RxThrottle PROVE FlowInv'
<1>1. TypeOK'
  BY DEF FlowInv, TypeOK, RxThrottle
<1>2. ringbuf # << >>
  <2>1. RING_BUF_SIZE - Len(ringbuf) = 0
    BY DEF RxThrottle, RxSpace
  <2>2. CASE ringbuf = << >>
    BY <2>1, <2>2, SizeAssumption, EmptySeq
  <2> QED BY <2>2
<1>3. FlowControl' /\ NoWedge'
  BY <1>2 DEF FlowInv, FlowControl, NoWedge, RxThrottle
<1> QED BY <1>1, <1>3 DEF FlowInv

LEMMA TxMoveInv == ASSUME FlowInv, TxMove PROVE FlowInv'
<1> DEFINE n == Smaller(TxLen, TxRoom)
<1>1. /\ ringbuf \in Seq(Byte) /\ Len(ringbuf) \in Nat /\ Len(ringbuf) <= RING_BUF_SIZE
      /\ tx_fifo \in Seq(Byte) /\ Len(tx_fifo) \in Nat /\ Len(tx_fifo) <= TX_FIFO
  BY LenProperties DEF FlowInv, TypeOK
<1>2. TxLen \in 0 .. Len(ringbuf)
  BY <1>1, SizeAssumption DEF TxLen, Smaller
<1>3. n \in 0 .. Len(ringbuf) /\ Len(tx_fifo) + n <= TX_FIFO
  BY <1>1, <1>2, SizeAssumption DEF TxRoom, Smaller
<1> HIDE DEF n
<1>4. /\ ringbuf' \in Seq(Byte) /\ Len(ringbuf') = Len(ringbuf) - TxLen
  BY <1>1, <1>2, SplitProperties DEF TxMove
<1>5. FirstOf(ringbuf, n) \in Seq(Byte) /\ Len(FirstOf(ringbuf, n)) = n
  BY <1>1, <1>3, SplitProperties
<1>6. tx_fifo' = tx_fifo \o FirstOf(ringbuf, n)
  BY DEF TxMove, n
<1>7. tx_fifo' \in Seq(Byte) /\ Len(tx_fifo') = Len(tx_fifo) + n
  BY <1>1, <1>5, <1>6, ConcatProperties
<1>8. TypeOK'
  <2>1. /\ rx_irq' \in BOOLEAN /\ tx_irq' \in BOOLEAN /\ rx_throttled' \in BOOLEAN
        /\ half' \in {"rx", "tx"} /\ sent' \in 0 .. MaxBytes /\ echoed' \in Seq(Byte)
        /\ rx_fifo' \in Seq(Byte) /\ Len(rx_fifo') <= RX_FIFO
    BY Zenon DEF FlowInv, TypeOK, TxMove
  <2>2. Len(ringbuf') <= RING_BUF_SIZE /\ Len(tx_fifo') <= TX_FIFO
    BY <1>1, <1>2, <1>3, <1>4, <1>7, SizeAssumption
  <2> QED BY <1>4, <1>7, <2>1, <2>2, Zenon DEF TypeOK
<1>9. FlowControl' /\ NoWedge'
  BY DEF FlowInv, TypeOK, FlowControl, NoWedge, TxMove, TxReady
<1> QED BY <1>8, <1>9 DEF FlowInv

LEMMA OtherHandlerInv ==
  ASSUME FlowInv, RxSkip \/ RxReadError \/ TxSkip \/ TxEmpty
  PROVE  FlowInv'
<1>1. TypeOK'
  BY DEF FlowInv, TypeOK, RxSkip, RxReadError, TxSkip, TxEmpty
<1>2. FlowControl' /\ NoWedge'
  BY DEF FlowInv, FlowControl, NoWedge, RxSkip, RxReadError, TxSkip, TxEmpty
<1> QED BY <1>1, <1>2 DEF FlowInv

LEMMA HostInv == ASSUME FlowInv, HostSend \/ HostTake PROVE FlowInv'
<1>1. CASE HostSend
  <2>1. /\ rx_fifo \in Seq(Byte) /\ Len(rx_fifo) \in Nat /\ Len(rx_fifo) < RX_FIFO
        /\ sent + 1 \in Byte
    BY <1>1, LenProperties, SizeAssumption DEF FlowInv, TypeOK, HostSend, Byte
  <2>2. rx_fifo' \in Seq(Byte) /\ Len(rx_fifo') = Len(rx_fifo) + 1
    BY <1>1, <2>1, AppendProperties DEF HostSend
  <2>3. TypeOK'
    BY <1>1, <2>1, <2>2, SizeAssumption DEF FlowInv, TypeOK, HostSend
  <2> QED BY <1>1, <2>3 DEF FlowInv, FlowControl, NoWedge, HostSend
<1>2. CASE HostTake
  <2>1. /\ Head(tx_fifo) \in Byte
        /\ tx_fifo' \in Seq(Byte) /\ Len(tx_fifo') = Len(tx_fifo) - 1
    BY <1>2, HeadTailProperties DEF FlowInv, TypeOK, HostTake
  <2>2. echoed' \in Seq(Byte)
    BY <1>2, <2>1, AppendProperties DEF FlowInv, TypeOK, HostTake
  <2>3. TypeOK'
    BY <1>2, <2>1, <2>2, SizeAssumption, LenProperties DEF FlowInv, TypeOK, HostTake
  <2> QED BY <1>2, <2>3 DEF FlowInv, FlowControl, NoWedge, HostTake
<1> QED BY <1>1, <1>2

LEMMA FlowNext == FlowInv /\ [Next]_vars => FlowInv'
<1> SUFFICES ASSUME FlowInv, [Next]_vars PROVE FlowInv'
  OBVIOUS
<1>1. CASE Next
  BY <1>1, RxMoveInv, RxThrottleInv, TxMoveInv, OtherHandlerInv, HostInv DEF Next, Handler
<1>2. CASE UNCHANGED vars
  BY <1>2 DEF vars, FlowInv, TypeOK, FlowControl, NoWedge
<1> QED BY <1>1, <1>2

----------------------------------------------------------------------------
\* The buffers never exceed their sizes and the flags keep their types.
THEOREM CdcTyping == Spec => []TypeOK
<1>1. FlowInv => TypeOK
  BY DEF FlowInv
<1> QED BY <1>1, FlowInit, FlowNext, PTL DEF Spec

\* The enable bits agree with the throttle flag and with the ring buffer.
THEOREM FlowControlled == Spec => []FlowControl
<1>1. FlowInv => FlowControl
  BY DEF FlowInv
<1> QED BY <1>1, FlowInit, FlowNext, PTL DEF Spec

\* For every choice of sizes a throttled receiver has data in the ring buffer
\* and the TX interrupt enabled that will lift the throttle.
THEOREM NeverWedged == Spec => []NoWedge
<1>1. FlowInv => NoWedge
  BY DEF FlowInv
<1> QED BY <1>1, FlowInit, FlowNext, PTL DEF Spec

----------------------------------------------------------------------------
(***************************************************************************)
(* The order of the bytes.  Ordered speaks of the four buffers as one      *)
(* sequence; the proof keeps the parts apart: each buffer is increasing,   *)
(* and each is before the ones behind it.                                  *)
(***************************************************************************)
Increasing(s) == \A i, j \in 1 .. Len(s) : i < j => s[i] < s[j]
Before(s, t) == \A i \in 1 .. Len(s), j \in 1 .. Len(t) : s[i] < t[j]
Within(s, t) == \A i \in 1 .. Len(s) : \E j \in 1 .. Len(t) : s[i] = t[j]

OrderInv ==
  /\ Increasing(echoed) /\ Increasing(tx_fifo) /\ Increasing(ringbuf) /\ Increasing(rx_fifo)
  /\ Before(echoed, tx_fifo) /\ Before(echoed, ringbuf) /\ Before(echoed, rx_fifo)
  /\ Before(tx_fifo, ringbuf) /\ Before(tx_fifo, rx_fifo) /\ Before(ringbuf, rx_fifo)

\* The bytes in the buffers are among those sent.
SentSoFar ==
  /\ \A i \in 1 .. Len(echoed) : echoed[i] <= sent
  /\ \A i \in 1 .. Len(tx_fifo) : tx_fifo[i] <= sent
  /\ \A i \in 1 .. Len(ringbuf) : ringbuf[i] <= sent
  /\ \A i \in 1 .. Len(rx_fifo) : rx_fifo[i] <= sent

PathInv == FlowInv /\ OrderInv /\ SentSoFar

LEMMA ConcatElements ==
  ASSUME NEW s \in Seq(Byte), NEW t \in Seq(Byte)
  PROVE  /\ s \o t \in Seq(Byte)
         /\ Len(s) \in Nat /\ Len(t) \in Nat /\ Len(s \o t) = Len(s) + Len(t)
         /\ \A i \in 1 .. Len(s) : (s \o t)[i] = s[i]
         /\ \A j \in 1 .. Len(t) : (s \o t)[Len(s) + j] = t[j]
         /\ \A k \in 1 .. Len(s \o t) :
              \/ k \in 1 .. Len(s)
              \/ \E j \in 1 .. Len(t) : k = Len(s) + j
<1>1. Len(s) \in Nat /\ Len(t) \in Nat
  BY LenProperties
<1>2. /\ s \o t \in Seq(Byte)
      /\ Len(s \o t) = Len(s) + Len(t)
      /\ \A i \in 1 .. Len(s) + Len(t) :
           (s \o t)[i] = IF i <= Len(s) THEN s[i] ELSE t[i - Len(s)]
  BY ConcatProperties
<1>3. ASSUME NEW j \in 1 .. Len(t) PROVE (s \o t)[Len(s) + j] = t[j]
  <2>1. /\ Len(s) + j \in 1 .. Len(s) + Len(t)
        /\ ~(Len(s) + j <= Len(s)) /\ (Len(s) + j) - Len(s) = j
    BY <1>1
  <2> QED BY <1>2, <2>1
<1>4. \A i \in 1 .. Len(s) : (s \o t)[i] = s[i]
  BY <1>1, <1>2
<1>5. ASSUME NEW k \in 1 .. Len(s \o t), ~(k \in 1 .. Len(s))
      PROVE  \E j \in 1 .. Len(t) : k = Len(s) + j
  <2>1. k - Len(s) \in 1 .. Len(t) /\ k = Len(s) + (k - Len(s))
    BY <1>1, <1>2, <1>5
  <2> QED BY <2>1
<1> QED BY <1>1, <1>2, <1>3, <1>4, <1>5

\* Two buffers as one.
LEMMA ConcatOrder ==
  ASSUME NEW s \in Seq(Byte), NEW t \in Seq(Byte)
  PROVE  /\ Increasing(s) /\ Increasing(t) /\ Before(s, t) => Increasing(s \o t)
         /\ \A u \in Seq(Byte) : Before(u, s) /\ Before(u, t) => Before(u, s \o t)
         /\ \A u \in Seq(Byte) : Before(s, u) /\ Before(t, u) => Before(s \o t, u)
         /\ \A b \in Nat : /\ \A i \in 1 .. Len(s) : s[i] <= b
                           /\ \A i \in 1 .. Len(t) : t[i] <= b
                           => \A i \in 1 .. Len(s \o t) : (s \o t)[i] <= b
<1> DEFINE c == s \o t
<1>1. /\ Len(s) \in Nat /\ Len(t) \in Nat /\ Len(c) = Len(s) + Len(t)
      /\ \A i \in 1 .. Len(s) : c[i] = s[i]
      /\ \A j \in 1 .. Len(t) : c[Len(s) + j] = t[j]
      /\ \A k \in 1 .. Len(c) :
           k \in 1 .. Len(s) \/ \E j \in 1 .. Len(t) : k = Len(s) + j
  BY ConcatElements
<1> HIDE DEF c
<1>2. ASSUME Increasing(s), Increasing(t), Before(s, t),
             NEW i \in 1 .. Len(c), NEW j \in 1 .. Len(c), i < j
      PROVE  c[i] < c[j]
  <2>1. CASE i \in 1 .. Len(s) /\ j \in 1 .. Len(s)
    BY <1>1, <1>2, <2>1 DEF Increasing
  <2>2. CASE i \in 1 .. Len(s) /\ \E n \in 1 .. Len(t) : j = Len(s) + n
    BY <1>1, <1>2, <2>2 DEF Before
  <2>3. CASE (\E m \in 1 .. Len(t) : i = Len(s) + m) /\ \E n \in 1 .. Len(t) : j = Len(s) + n
    <3>1. PICK m \in 1 .. Len(t), n \in 1 .. Len(t) : i = Len(s) + m /\ j = Len(s) + n
      BY <2>3
    <3>2. m < n
      BY <1>1, <1>2, <3>1
    <3> QED BY <1>1, <1>2, <3>1, <3>2 DEF Increasing
  <2>4. CASE (\E m \in 1 .. Len(t) : i = Len(s) + m) /\ j \in 1 .. Len(s)
    BY <1>1, <1>2, <2>4
  <2> QED BY <1>1, <2>1, <2>2, <2>3, <2>4
<1>3. ASSUME NEW u \in Seq(Byte), Before(u, s), Before(u, t) PROVE Before(u, c)
  BY <1>1, <1>3 DEF Before
<1>4. ASSUME NEW u \in Seq(Byte), Before(s, u), Before(t, u) PROVE Before(c, u)
  BY <1>1, <1>4 DEF Before
<1>5. ASSUME NEW b \in Nat, \A i \in 1 .. Len(s) : s[i] <= b, \A i \in 1 .. Len(t) : t[i] <= b
      PROVE  \A i \in 1 .. Len(c) : c[i] <= b
  BY <1>1, <1>5
<1>6. Increasing(s) /\ Increasing(t) /\ Before(s, t) => Increasing(c)
  BY <1>2 DEF Increasing
<1> QED BY <1>3, <1>4, <1>5, <1>6 DEF c

\* The front and the rest of a buffer.
LEMMA SplitOrder ==
  ASSUME NEW s \in Seq(Byte), NEW n \in 0 .. Len(s), NEW m \in n .. Len(s), Increasing(s)
  PROVE  /\ Increasing(FirstOf(s, n)) /\ Increasing(AfterFirst(s, n))
         /\ Before(FirstOf(s, n), AfterFirst(s, m))
         /\ Within(FirstOf(s, n), s) /\ Within(AfterFirst(s, n), s)
<1>1. Len(s) \in Nat /\ \A i \in 1 .. Len(s) : s[i] \in Byte
  BY LenProperties, ElementOfSeq
<1>2. ASSUME NEW k \in 0 .. Len(s)
      PROVE  /\ Len(FirstOf(s, k)) = k
             /\ \A i \in 1 .. k : FirstOf(s, k)[i] = s[i]
             /\ Len(AfterFirst(s, k)) = Len(s) - k
             /\ \A i \in 1 .. Len(s) - k : AfterFirst(s, k)[i] = s[k + i]
  <2>1. \A i \in 1 .. k : s[i] \in Byte
    BY <1>1
  <2>2. \A i \in k + 1 .. Len(s) : s[i] \in Byte
    BY <1>1
  <2>3. 1 \in Int /\ k \in Int /\ k + 1 \in Int /\ Len(s) \in Int
    BY <1>1
  <2>4. \A i \in 1 .. k - 1 + 1 : SubSeq(s, 1, k)[i] = s[1 + i - 1]
    BY <2>1, <2>3, SubSeqProperties
  <2>5. \A i \in 1 .. Len(s) - (k + 1) + 1 : SubSeq(s, k + 1, Len(s))[i] = s[(k + 1) + i - 1]
    BY <2>2, <2>3, SubSeqProperties
  <2> QED BY <1>1, <2>4, <2>5, SplitProperties DEF FirstOf, AfterFirst
<1> DEFINE f == FirstOf(s, n)
           a == AfterFirst(s, n)
           am == AfterFirst(s, m)
<1>3. /\ Len(f) = n /\ \A i \in 1 .. n : f[i] = s[i]
      /\ Len(a) = Len(s) - n /\ \A i \in 1 .. Len(s) - n : a[i] = s[n + i]
      /\ Len(am) = Len(s) - m /\ \A i \in 1 .. Len(s) - m : am[i] = s[m + i]
  <2>1. n \in 0 .. Len(s) /\ m \in 0 .. Len(s)
    BY <1>1
  <2> QED BY <1>2, <2>1
<1> HIDE DEF f, a, am
<1>4. Increasing(f) /\ Within(f, s)
  <2>1. \A i \in 1 .. Len(f) : i \in 1 .. Len(s) /\ f[i] = s[i]
    BY <1>1, <1>3
  <2> QED BY <2>1 DEF Increasing, Within
<1>5. ASSUME NEW i \in 1 .. Len(a) PROVE n + i \in 1 .. Len(s) /\ a[i] = s[n + i]
  BY <1>1, <1>3
<1>6. Increasing(a)
  <2> SUFFICES ASSUME NEW i \in 1 .. Len(a), NEW j \in 1 .. Len(a), i < j PROVE a[i] < a[j]
    BY DEF Increasing
  <2>1. n + i < n + j
    BY <1>1, <1>3
  <2> QED BY <1>5, <2>1 DEF Increasing
<1>7. Within(a, s)
  BY <1>5 DEF Within
<1>8. Before(f, am)
  <2> SUFFICES ASSUME NEW i \in 1 .. n, NEW j \in 1 .. Len(s) - m PROVE s[i] < s[m + j]
    BY <1>3 DEF Before
  <2>1. i \in 1 .. Len(s) /\ m + j \in 1 .. Len(s) /\ i < m + j
    BY <1>1
  <2> QED BY <2>1 DEF Increasing
<1> QED BY <1>4, <1>6, <1>7, <1>8 DEF f, a, am

\* A part of a buffer is before and behind what the buffer is.
LEMMA WithinOrder ==
  ASSUME NEW s, NEW t, NEW u, Within(s, t)
  PROVE  /\ Before(t, u) => Before(s, u)
         /\ Before(u, t) => Before(u, s)
         /\ \A b : (\A i \in 1 .. Len(t) : t[i] <= b) => \A i \in 1 .. Len(s) : s[i] <= b
BY DEF Within, Before

LEMMA PathInit == Init => PathInv
<1> SUFFICES ASSUME Init PROVE PathInv
  OBVIOUS
<1>1. Len(<< >>) = 0
  BY EmptySeq
<1>2. 1 .. Len(<< >>) = {}
  BY <1>1
<1> QED BY <1>2, FlowInit DEF Init, PathInv, OrderInv, SentSoFar, Increasing, Before

LEMMA PathRxMove == ASSUME PathInv, RxMove PROVE PathInv'
<1> DEFINE f == FirstOf(rx_fifo, RxLen)
<1>1. FlowInv' /\ TypeOK
  BY RxMoveInv DEF PathInv, FlowInv
<1>2. Len(rx_fifo) \in Nat /\ Len(ringbuf) \in Nat
  BY <1>1, LenProperties DEF TypeOK
<1>3. RxLen \in 0 .. Len(rx_fifo) /\ RxLen \in RxLen .. Len(rx_fifo)
  BY <1>1, <1>2, SizeAssumption DEF RxLen, RxSpace, Smaller, TypeOK, RxMove
<1>4. /\ Increasing(f) /\ Increasing(rx_fifo') /\ Before(f, rx_fifo')
      /\ Within(f, rx_fifo) /\ Within(rx_fifo', rx_fifo)
      /\ f \in Seq(Byte) /\ rx_fifo' \in Seq(Byte)
  BY <1>1, <1>3, SplitOrder, SplitProperties DEF PathInv, OrderInv, TypeOK, RxMove
<1>5. ringbuf' = ringbuf \o f /\ UNCHANGED <<tx_fifo, echoed, sent>>
  BY DEF RxMove
<1> HIDE DEF f
<1>6. /\ Before(echoed, f) /\ Before(tx_fifo, f) /\ Before(ringbuf, f)
      /\ Before(echoed, rx_fifo') /\ Before(tx_fifo, rx_fifo') /\ Before(ringbuf, rx_fifo')
  BY <1>4, WithinOrder DEF PathInv, OrderInv
<1>7. OrderInv'
  BY <1>1, <1>4, <1>5, <1>6, ConcatOrder DEF PathInv, OrderInv, TypeOK
<1>8. SentSoFar'
  <2>1. /\ \A i \in 1 .. Len(f) : f[i] <= sent
        /\ \A i \in 1 .. Len(rx_fifo') : rx_fifo'[i] <= sent
    BY <1>4, WithinOrder DEF PathInv, SentSoFar
  <2>2. sent \in Nat
    BY <1>1, SizeAssumption DEF TypeOK
  <2>3. \A i \in 1 .. Len(ringbuf \o f) : (ringbuf \o f)[i] <= sent
    BY <1>1, <1>4, <2>1, <2>2, ConcatOrder DEF PathInv, SentSoFar, TypeOK
  <2> QED BY <1>5, <2>1, <2>3 DEF PathInv, SentSoFar
<1> QED BY <1>1, <1>7, <1>8 DEF PathInv

LEMMA PathTxMove == ASSUME PathInv, TxMove PROVE PathInv'
<1> DEFINE n == Smaller(TxLen, TxRoom)
           f == FirstOf(ringbuf, n)
<1>1. FlowInv' /\ TypeOK
  BY TxMoveInv DEF PathInv, FlowInv
<1>2. Len(tx_fifo) \in Nat /\ Len(ringbuf) \in Nat
  BY <1>1, LenProperties DEF TypeOK
<1>3. /\ TxLen \in 0 .. Len(ringbuf) /\ n \in 0 .. Len(ringbuf) /\ TxLen \in n .. Len(ringbuf)
      /\ TxLen \in TxLen .. Len(ringbuf)
  BY <1>1, <1>2, SizeAssumption DEF TxLen, TxRoom, Smaller, TypeOK
<1>4. /\ Increasing(ringbuf') /\ Within(ringbuf', ringbuf) /\ ringbuf' \in Seq(Byte)
  BY <1>1, <1>3, SplitOrder, SplitProperties DEF PathInv, OrderInv, TypeOK, TxMove
<1>5. /\ Increasing(f) /\ Before(f, ringbuf') /\ Within(f, ringbuf) /\ f \in Seq(Byte)
  BY <1>1, <1>3, SplitOrder, SplitProperties DEF PathInv, OrderInv, TypeOK, TxMove
<1>6. tx_fifo' = tx_fifo \o f /\ UNCHANGED <<rx_fifo, echoed, sent>>
  BY DEF TxMove
<1> HIDE DEF f, n
<1>7. /\ Before(echoed, f) /\ Before(tx_fifo, f) /\ Before(f, rx_fifo)
      /\ Before(echoed, ringbuf') /\ Before(tx_fifo, ringbuf') /\ Before(ringbuf', rx_fifo)
  BY <1>4, <1>5, WithinOrder DEF PathInv, OrderInv
<1>8. OrderInv'
  BY <1>1, <1>4, <1>5, <1>6, <1>7, ConcatOrder DEF PathInv, OrderInv, TypeOK
<1>9. SentSoFar'
  <2>1. /\ \A i \in 1 .. Len(f) : f[i] <= sent
        /\ \A i \in 1 .. Len(ringbuf') : ringbuf'[i] <= sent
    BY <1>4, <1>5, WithinOrder DEF PathInv, SentSoFar
  <2>2. sent \in Nat
    BY <1>1, SizeAssumption DEF TypeOK
  <2>3. \A i \in 1 .. Len(tx_fifo \o f) : (tx_fifo \o f)[i] <= sent
    BY <1>1, <1>5, <2>1, <2>2, ConcatOrder DEF PathInv, SentSoFar, TypeOK
  <2> QED BY <1>6, <2>1, <2>3 DEF PathInv, SentSoFar
<1> QED BY <1>1, <1>8, <1>9 DEF PathInv

\* Appending one byte is concatenating with it.
LEMMA AppendByte ==
  ASSUME NEW s \in Seq(Byte), NEW b \in Byte
  PROVE  /\ <<b>> \in Seq(Byte) /\ Len(<<b>>) = 1 /\ <<b>>[1] = b
         /\ Append(s, b) = s \o <<b>>
BY AppendProperties, ConcatProperties

LEMMA PathHost == ASSUME PathInv, HostSend \/ HostTake PROVE PathInv'
<1>1. FlowInv' /\ TypeOK
  BY HostInv DEF PathInv, FlowInv
<1>2. sent \in Nat
  BY <1>1, SizeAssumption DEF TypeOK
<1>3. CASE HostSend
  <2> DEFINE b == <<sent + 1>>
  <2>1. sent + 1 \in Byte
    BY <1>1, <1>3, SizeAssumption DEF TypeOK, HostSend, Byte
  <2>2. /\ b \in Seq(Byte) /\ Len(b) = 1 /\ b[1] = sent + 1
        /\ rx_fifo' = rx_fifo \o b
    BY <1>1, <1>3, <2>1, AppendByte DEF HostSend, TypeOK
  <2>3. UNCHANGED <<ringbuf, tx_fifo, echoed>> /\ sent' = sent + 1
    BY <1>3 DEF HostSend
  <2> HIDE DEF b
  <2>4. ASSUME NEW s \in Seq(Byte), \A i \in 1 .. Len(s) : s[i] <= sent
        PROVE  Before(s, b) /\ \A i \in 1 .. Len(s) : s[i] <= sent + 1
    <3>1. \A i \in 1 .. Len(s) : s[i] \in Nat
      BY ElementOfSeq, SizeAssumption DEF Byte
    <3> QED BY <1>2, <2>2, <2>4, <3>1 DEF Before
  <2>5. /\ Before(echoed, b) /\ Before(tx_fifo, b) /\ Before(ringbuf, b) /\ Before(rx_fifo, b)
        /\ \A i \in 1 .. Len(echoed) : echoed[i] <= sent + 1
        /\ \A i \in 1 .. Len(tx_fifo) : tx_fifo[i] <= sent + 1
        /\ \A i \in 1 .. Len(ringbuf) : ringbuf[i] <= sent + 1
        /\ \A i \in 1 .. Len(rx_fifo) : rx_fifo[i] <= sent + 1
    BY <1>1, <2>4 DEF PathInv, SentSoFar, TypeOK
  <2>6. Increasing(b) /\ \A i \in 1 .. Len(b) : b[i] <= sent + 1
    BY <1>2, <2>2 DEF Increasing
  <2>7. OrderInv'
    BY <1>1, <2>2, <2>3, <2>5, <2>6, ConcatOrder DEF PathInv, OrderInv, TypeOK
  <2>8. \A i \in 1 .. Len(rx_fifo \o b) : (rx_fifo \o b)[i] <= sent + 1
    <3>1. sent + 1 \in Nat
      BY <1>2
    <3> QED BY <1>1, <2>2, <2>5, <2>6, <3>1, ConcatOrder DEF TypeOK
  <2>9. SentSoFar'
    BY <2>2, <2>3, <2>5, <2>8 DEF SentSoFar
  <2> QED BY <1>1, <2>7, <2>9 DEF PathInv
<1>4. CASE HostTake
  <2> DEFINE b == <<Head(tx_fifo)>>
  <2>1. Head(tx_fifo) \in Byte /\ Len(tx_fifo) \in Nat /\ Len(tx_fifo) > 0
    BY <1>1, <1>4, HeadTailProperties, LenProperties, EmptySeq DEF HostTake, TypeOK
  <2>2. /\ b \in Seq(Byte) /\ Len(b) = 1 /\ b[1] = tx_fifo[1]
        /\ echoed' = echoed \o b
    BY <1>1, <1>4, <2>1, AppendByte DEF HostTake, TypeOK
  <2>3. UNCHANGED <<ringbuf, rx_fifo, sent>>
    BY <1>4 DEF HostTake
  <2>4. /\ tx_fifo' \in Seq(Byte) /\ Len(tx_fifo') = Len(tx_fifo) - 1
        /\ \A i \in 1 .. Len(tx_fifo') : tx_fifo'[i] = tx_fifo[i + 1]
    BY <1>1, <1>4, <2>1, HeadTailProperties DEF HostTake, TypeOK
  <2> HIDE DEF b
  <2>5. \A i \in 1 .. Len(tx_fifo') : i + 1 \in 1 .. Len(tx_fifo) /\ 1 < i + 1
    BY <2>1, <2>4
  <2>6. Within(tx_fifo', tx_fifo) /\ Within(b, tx_fifo)
    BY <2>1, <2>2, <2>4, <2>5 DEF Within
  <2>7. Increasing(b) /\ Before(b, tx_fifo')
    <3>1. \A i \in 1 .. Len(tx_fifo') : tx_fifo[1] < tx_fifo'[i]
      BY <2>1, <2>4, <2>5 DEF Increasing, PathInv, OrderInv
    <3> QED BY <2>2, <3>1 DEF Increasing, Before
  <2>8. Increasing(tx_fifo')
    <3>1. \A i, j \in 1 .. Len(tx_fifo') : i < j => i + 1 < j + 1
      BY <2>1, <2>4
    <3> QED BY <2>4, <2>5, <3>1 DEF Increasing, PathInv, OrderInv
  <2>9. /\ Before(echoed, b) /\ Before(b, ringbuf) /\ Before(b, rx_fifo)
        /\ Before(echoed, tx_fifo') /\ Before(tx_fifo', ringbuf) /\ Before(tx_fifo', rx_fifo)
    BY <2>6, WithinOrder DEF PathInv, OrderInv
  <2>10. OrderInv'
    BY <1>1, <2>2, <2>3, <2>4, <2>7, <2>8, <2>9, ConcatOrder DEF PathInv, OrderInv, TypeOK
  <2>11. /\ \A i \in 1 .. Len(b) : b[i] <= sent
         /\ \A i \in 1 .. Len(tx_fifo') : tx_fifo'[i] <= sent
    BY <2>6, WithinOrder DEF PathInv, SentSoFar
  <2>12. \A i \in 1 .. Len(echoed \o b) : (echoed \o b)[i] <= sent
    BY <1>1, <1>2, <2>2, <2>11, ConcatOrder DEF PathInv, SentSoFar, TypeOK
  <2>13. SentSoFar'
    BY <2>2, <2>3, <2>11, <2>12 DEF PathInv, SentSoFar
  <2> QED BY <1>1, <2>10, <2>13 DEF PathInv
<1> QED BY <1>3, <1>4

LEMMA PathNext == PathInv /\ [Next]_vars => PathInv'
<1> SUFFICES ASSUME PathInv, [Next]_vars PROVE PathInv'
  OBVIOUS
<1>1. CASE UNCHANGED <<rx_fifo, ringbuf, tx_fifo, sent, echoed>>
  <2>1. FlowInv'
    BY FlowNext DEF PathInv
  <2> QED BY <1>1, <2>1 DEF PathInv, OrderInv, SentSoFar
<1> QED BY <1>1, PathRxMove, PathTxMove, PathHost DEF Next, Handler, vars, RxSkip, RxThrottle,
           RxReadError, TxSkip, TxEmpty

\* interrupt_handler: for every size of the buffers the bytes keep their order
\* on the way through the RX FIFO, the ring buffer and the TX FIFO to the host,
\* whatever is throttled or dropped on the way.
THEOREM BytesKeepOrder == Spec => []Ordered
<1>1. PathInv => Ordered
  <2> SUFFICES ASSUME PathInv PROVE Ordered
    OBVIOUS
  <2> USE DEF PathInv, FlowInv, TypeOK, OrderInv
  <2>1. /\ echoed \o tx_fifo \in Seq(Byte) /\ Increasing(echoed \o tx_fifo)
        /\ Before(echoed \o tx_fifo, ringbuf) /\ Before(echoed \o tx_fifo, rx_fifo)
    BY ConcatOrder, ConcatElements
  <2>2. /\ echoed \o tx_fifo \o ringbuf \in Seq(Byte)
        /\ Increasing(echoed \o tx_fifo \o ringbuf)
        /\ Before(echoed \o tx_fifo \o ringbuf, rx_fifo)
    BY <2>1, ConcatOrder, ConcatElements
  <2>3. Increasing(echoed \o tx_fifo \o ringbuf \o rx_fifo)
    BY <2>2, ConcatOrder
  <2> QED BY <2>3 DEF Ordered, Increasing
<1> QED BY <1>1, PathInit, PathNext, PTL DEF Spec

----------------------------------------------------------------------------
(***************************************************************************)
(* The rings of the xHCI driver, of any size and in runs of any length.    *)
(***************************************************************************)
\* xhci_ring_init and every step keep the types of the ring.
THEOREM RingTyping == RingSpec => []RingTypeOK
<1>1. RingInit => RingTypeOK
  BY RingAssumption DEF RingInit, RingTypeOK, Cell, Bit, Trb
<1>2. RingTypeOK /\ [RingNext]_ringVars => RingTypeOK'
  <2> SUFFICES ASSUME RingTypeOK, [RingNext]_ringVars PROVE RingTypeOK'
    OBVIOUS
  <2> USE RingAssumption DEF RingTypeOK, Cell, Bit
  <2>1. CASE Enqueue
    <3>1. [no |-> submitted + 1, cycle |-> cycle_bit] \in Trb
      BY DEF Trb
    <3>2. trb' \in [Cell -> Trb] /\ mem' = trb'
      BY <2>1, <3>1 DEF Enqueue
    <3>3. write_index' \in Cell /\ cycle_bit' \in Bit /\ link' \in Bit
      BY <2>1 DEF Enqueue, Wrap, AtLink
    <3> QED BY <2>1, <3>2, <3>3 DEF Enqueue
  <2>2. CASE Evict
    BY <2>2 DEF Evict
  <2>3. CASE Doorbell
    BY <2>3 DEF Doorbell
  <2>4. CASE SetDeq
    BY <2>4 DEF SetDeq
  <2>5. CASE Execute
    <3>1. mem[deq].no \in Int
      BY <2>5 DEF Execute, Trb
    <3> QED BY <2>5, <3>1 DEF Execute
  <2>6. CASE FollowLink
    BY <2>6 DEF FollowLink
  <2>7. CASE GoIdle
    BY <2>7 DEF GoIdle
  <2>8. CASE Stall
    BY <2>8 DEF Stall
  <2>9. CASE UNCHANGED ringVars
    BY <2>9 DEF ringVars
  <2> QED BY <2>1, <2>2, <2>3, <2>4, <2>5, <2>6, <2>7, <2>8, <2>9
          DEF RingNext, Controller
<1> QED BY <1>1, <1>2, PTL DEF RingSpec

\* A new ring satisfies the invariant.
LEMMA RingInvInit == RingInit => RingInv
BY RingAssumption
   DEF RingInit, RingInv, CellsNumbered, PositionKnown, MemoryCurrent, Cell

\* An enqueue into a ring with room keeps it, within a lap and across the link.
LEMMA RingInvEnqueue ==
  ASSUME RingTypeOK, RingInv, Enqueue
  PROVE  RingInv'
<1> USE RingAssumption DEF RingTypeOK, Cell, Bit
<1>1. PositionKnown'
  BY DEF RingInv, PositionKnown, Enqueue, Wrap, AtLink, Room
<1>2. MemoryCurrent'
  BY DEF RingInv, MemoryCurrent, Enqueue, Wrap, AtLink
<1>3. CellsNumbered'
  <2> SUFFICES ASSUME NEW i \in Cell
               PROVE trb'[i] =
                  IF i < write_index'
                    THEN [no |-> submitted' - write_index' + i + 1, cycle |-> cycle_bit']
                    ELSE [no |-> submitted' - write_index' + i + 2 - num_trb,
                          cycle |-> 1 - cycle_bit']
    BY DEF CellsNumbered
  <2>1. trb'[i] = IF i = write_index
                    THEN [no |-> submitted + 1, cycle |-> cycle_bit] ELSE trb[i]
    BY DEF Enqueue
  <2>2. trb[i] = IF i < write_index
               THEN [no |-> submitted - write_index + i + 1, cycle |-> cycle_bit]
               ELSE [no |-> submitted - write_index + i + 2 - num_trb,
                     cycle |-> 1 - cycle_bit]
    BY DEF RingInv, CellsNumbered
  <2>3. CASE AtLink
    <3>1. i = write_index \/ i < write_index
      BY <2>3 DEF AtLink
    <3> QED BY <2>1, <2>2, <2>3, <3>1 DEF Enqueue, Wrap, AtLink
  <2>4. CASE ~AtLink
    BY <2>1, <2>2, <2>4 DEF Enqueue, Wrap
  <2> QED BY <2>3, <2>4
<1> QED BY <1>1, <1>2, <1>3 DEF RingInv

\* The controller executes a TRB of the driver's: the next one.
LEMMA ExecuteNext ==
  ASSUME RingTypeOK, RingInv, Execute
  PROVE  executed' = executed + 1 /\ RingInv'
<1> USE RingAssumption DEF RingTypeOK, Cell, Bit
<1>1. mem[deq] = IF deq < write_index
               THEN [no |-> submitted - write_index + deq + 1, cycle |-> cycle_bit]
               ELSE [no |-> submitted - write_index + deq + 2 - num_trb,
                     cycle |-> 1 - cycle_bit]
  BY DEF RingInv, CellsNumbered, MemoryCurrent, Execute
<1>2. executed' = executed + 1
  BY <1>1 DEF RingInv, PositionKnown, Execute
<1>3. PositionKnown'
  BY <1>1, <1>2 DEF RingInv, PositionKnown, Execute
<1>4. CellsNumbered' /\ MemoryCurrent'
  BY DEF RingInv, CellsNumbered, MemoryCurrent, Execute
<1> QED BY <1>2, <1>3, <1>4 DEF RingInv

\* Every step keeps the invariant.
LEMMA RingInvStep ==
  ASSUME RingTypeOK, RingInv, [RingNext]_ringVars
  PROVE  RingInv'
<1> USE RingAssumption DEF RingTypeOK, Cell, Bit
<1>1. CASE Enqueue
  BY <1>1, RingInvEnqueue
<1>2. CASE Evict
  BY <1>2 DEF Evict, RingInv, CellsNumbered, PositionKnown, MemoryCurrent
<1>3. CASE Doorbell
  BY <1>3 DEF Doorbell, RingInv, CellsNumbered, PositionKnown, MemoryCurrent
<1>4. CASE SetDeq
  BY <1>4 DEF SetDeq, RingInv, CellsNumbered, PositionKnown, MemoryCurrent
<1>5. CASE Execute
  BY <1>5, ExecuteNext
<1>6. CASE FollowLink
  BY <1>6 DEF FollowLink, RingInv, CellsNumbered, PositionKnown, MemoryCurrent
<1>7. CASE GoIdle
  BY <1>7 DEF GoIdle, RingInv, CellsNumbered, PositionKnown, MemoryCurrent
<1>8. CASE Stall
  BY <1>8 DEF Stall, RingInv, CellsNumbered, PositionKnown, MemoryCurrent
<1>9. CASE UNCHANGED ringVars
  BY <1>9 DEF ringVars, RingInv, CellsNumbered, PositionKnown, MemoryCurrent
<1> QED BY <1>1, <1>2, <1>3, <1>4, <1>5, <1>6, <1>7, <1>8, <1>9
        DEF RingNext, Controller

\* The cycle bits tell the laps apart in a ring of any size, whatever the order
\* of enqueues, doorbells, stalls, new dequeue pointers and evictions.
THEOREM RingCorrect == RingSpec => []RingInv
<1>1. RingInit => RingInv
  BY RingInvInit
<1>2. RingTypeOK /\ RingInv /\ [RingNext]_ringVars => RingInv'
  BY RingInvStep
<1> QED BY <1>1, <1>2, RingTyping, PTL DEF RingSpec

\* TRBs are executed once, in the order of the xhci_enqueue_trb calls.
THEOREM ExecutedInOrder == RingSpec => InOrder
<1> DEFINE Step == \/ executed' \in {executed, executed + 1}
                   \/ state # "active" /\ executed' = submitted
<1>1. RingTypeOK /\ RingInv /\ [RingNext]_ringVars => [Step]_ringVars
  <2> SUFFICES ASSUME RingTypeOK, RingInv, RingNext PROVE Step
    OBVIOUS
  <2>1. CASE Execute
    BY <2>1, ExecuteNext
  <2>2. CASE SetDeq
    BY <2>2 DEF SetDeq
  <2>3. CASE Enqueue \/ Evict \/ Doorbell \/ FollowLink \/ GoIdle \/ Stall
    BY <2>3 DEF Enqueue, Evict, Doorbell, FollowLink, GoIdle, Stall
  <2> QED BY <2>1, <2>2, <2>3 DEF RingNext, Controller
<1> QED BY <1>1, RingTyping, RingCorrect, PTL DEF RingSpec, InOrder
============================================================================
