----------------------------- MODULE IpmbProofs -----------------------------
(***************************************************************************)
(* Proofs about the IPMB transport: the request bookkeeping of IpmbSeq,    *)
(* for any number of sequence numbers, any queue length and any set of     *)
(* commands, with or without allocation failures; and what its threads     *)
(* make of it, for any readers, queue lengths and numbers of retries,      *)
(* requests and repeated answers: types, that the transport implements the *)
(* bookkeeping, and that an answer finds its request.                      *)
(***************************************************************************)
EXTENDS Ipmb, FiniteSetTheorems, SequenceTheorems, TLAPS

(***************************************************************************)
(* The bookkeeping                                                         *)
(***************************************************************************)
\* The four invariants are proved together: the counter is decremented only
\* where a record is unlinked, which the sweep does at its cursor, so the
\* counter needs the cursor and the cursor needs the counter's bound.
SeqInv == SeqTypeOK /\ CountMatchesRing /\ CursorOnList /\ AgeOrder

\* What unlinking a node leaves: the records before it and those after it.
LEMMA RemoveAtProperties ==
  ASSUME NEW S, NEW s \in Seq(S), NEW k \in 1 .. Len(s)
  PROVE  /\ RemoveAt(s, k) \in Seq(S)
         /\ Len(RemoveAt(s, k)) = Len(s) - 1
         /\ \A i \in 1 .. Len(s) - 1 :
              RemoveAt(s, k)[i] = IF i < k THEN s[i] ELSE s[i + 1]
<1> DEFINE pre == SubSeq(s, 1, k - 1)
           post == SubSeq(s, k + 1, Len(s))
<1>1. Len(s) \in Nat /\ \A i \in 1 .. Len(s) : s[i] \in S
  BY LenProperties, ElementOfSeq
<1>2. /\ pre \in Seq(S)
      /\ Len(pre) = k - 1
      /\ \A i \in 1 .. k - 1 : pre[i] = s[i]
  <2>1. \A i \in 1 .. k - 1 : s[i] \in S
    BY <1>1
  <2>2. /\ pre \in Seq(S)
        /\ Len(pre) = IF 1 <= k - 1 THEN (k - 1) - 1 + 1 ELSE 0
        /\ \A i \in 1 .. (k - 1) - 1 + 1 : pre[i] = s[1 + i - 1]
    <3>1. 1 \in Int /\ k - 1 \in Int
      BY <1>1
    <3> QED BY <3>1, <2>1, SubSeqProperties
  <2> HIDE DEF pre
  <2> QED BY <1>1, <2>2
<1>3. /\ post \in Seq(S)
      /\ Len(post) = Len(s) - k
      /\ \A i \in 1 .. Len(s) - k : post[i] = s[k + i]
  <2>1. \A i \in k + 1 .. Len(s) : s[i] \in S
    BY <1>1
  <2>2. /\ post \in Seq(S)
        /\ Len(post) = IF k + 1 <= Len(s) THEN Len(s) - (k + 1) + 1 ELSE 0
        /\ \A i \in 1 .. Len(s) - (k + 1) + 1 : post[i] = s[(k + 1) + i - 1]
    <3>1. k + 1 \in Int /\ Len(s) \in Int
      BY <1>1
    <3> QED BY <3>1, <2>1, SubSeqProperties
  <2> HIDE DEF post
  <2> QED BY <1>1, <2>2
<1>4. RemoveAt(s, k) = pre \o post
  BY DEF RemoveAt
<1> HIDE DEF pre, post
<1>5. /\ pre \o post \in Seq(S)
      /\ Len(pre \o post) = Len(pre) + Len(post)
      /\ \A i \in 1 .. Len(pre) + Len(post) :
           (pre \o post)[i] = IF i <= Len(pre) THEN pre[i] ELSE post[i - Len(pre)]
  BY <1>2, <1>3, ConcatProperties
<1>6. ASSUME NEW i \in 1 .. Len(s) - 1
      PROVE  (pre \o post)[i] = IF i < k THEN s[i] ELSE s[i + 1]
  <2>1. CASE i < k
    BY <1>1, <1>2, <1>3, <1>5, <2>1
  <2>2. CASE ~(i < k)
    <3>1. /\ i - Len(pre) \in 1 .. Len(s) - k
          /\ k + (i - Len(pre)) = i + 1
      BY <1>1, <1>2, <2>2
    <3>2. (pre \o post)[i] = post[i - Len(pre)]
      BY <1>1, <1>2, <1>3, <1>5, <2>2
    <3> QED BY <1>3, <2>2, <3>1, <3>2
  <2> QED BY <2>1, <2>2
<1> QED BY <1>1, <1>2, <1>3, <1>4, <1>5, <1>6

\* Unlinking a node keeps the list ordered by age.
LEMMA UnlinkPreserves ==
  ASSUME SeqInv, NEW k \in 1 .. Len(ring), Unlink(k)
  PROVE  /\ ring' \in Seq(ReqRecord)
         /\ Len(ring') = Len(ring) - 1
         /\ Len(ring) \in 1 .. MAX_SEQ_QUENE
         /\ seq_table' \subseteq SeqNo
         /\ seq_current_count' = Len(ring')
         /\ seq_current_count' \in 0 .. MAX_SEQ_QUENE
         /\ AgeOrder'
<1>1. ring \in Seq(ReqRecord) /\ Len(ring) \in Nat
  BY LenProperties DEF SeqInv, SeqTypeOK
<1>2. /\ ring' \in Seq(ReqRecord)
      /\ Len(ring') = Len(ring) - 1
      /\ \A i \in 1 .. Len(ring) - 1 :
           ring'[i] = IF i < k THEN ring[i] ELSE ring[i + 1]
  BY <1>1, RemoveAtProperties DEF Unlink
<1>3. seq_table' \subseteq SeqNo
  BY DEF Unlink, SeqInv, SeqTypeOK
<1>4. /\ Len(ring) \in 1 .. MAX_SEQ_QUENE
      /\ seq_current_count' = Len(ring')
      /\ seq_current_count' \in 0 .. MAX_SEQ_QUENE
  BY <1>1, <1>2, QueueAssumption DEF Unlink, SeqInv, CountMatchesRing
<1>5. AgeOrder'
  <2> SUFFICES ASSUME NEW i \in 1 .. Len(ring'), NEW j \in 1 .. Len(ring'),
                      i < j, ring'[j].timestamp # "fresh"
               PROVE  ring'[i].timestamp # "fresh"
    BY DEF AgeOrder
  <2> DEFINE at(n) == IF n < k THEN n ELSE n + 1
  <2>1. /\ at(i) \in 1 .. Len(ring) /\ at(j) \in 1 .. Len(ring)
        /\ at(i) < at(j)
        /\ ring'[i] = ring[at(i)] /\ ring'[j] = ring[at(j)]
    BY <1>1, <1>2
  <2> QED BY <2>1 DEF SeqInv, AgeOrder
<1> QED BY <1>2, <1>3, <1>4, <1>5

\* The list an insertion starts from, with room for one more record.
LEMMA EvictedProperties ==
  ASSUME SeqInv
  PROVE  /\ Evicted \in Seq(ReqRecord)
         /\ CountAfterEviction = Len(Evicted)
         /\ CountAfterEviction \in 0 .. MAX_SEQ_QUENE - 1
         /\ \A i, j \in 1 .. Len(Evicted) :
              (i < j /\ Evicted[j].timestamp # "fresh") => Evicted[i].timestamp # "fresh"
<1>1. ring \in Seq(ReqRecord) /\ Len(ring) \in Nat /\ seq_current_count = Len(ring)
  BY LenProperties DEF SeqInv, SeqTypeOK, CountMatchesRing
<1>2. CASE RingFull
  <2>1. ring # << >>
    BY <1>1, <1>2, QueueAssumption, EmptySeq DEF RingFull
  <2>2. /\ Tail(ring) \in Seq(ReqRecord)
        /\ Len(Tail(ring)) = Len(ring) - 1
        /\ \A i \in 1 .. Len(Tail(ring)) : Tail(ring)[i] = ring[i + 1]
    BY <1>1, <2>1, HeadTailProperties
  <2>3. Evicted = Tail(ring) /\ CountAfterEviction = Len(ring) - 1
    BY <1>1, <1>2 DEF Evicted, CountAfterEviction
  <2>4. ASSUME NEW i \in 1 .. Len(Tail(ring)), NEW j \in 1 .. Len(Tail(ring)),
               i < j, Tail(ring)[j].timestamp # "fresh"
        PROVE  Tail(ring)[i].timestamp # "fresh"
    <3>1. i + 1 \in 1 .. Len(ring) /\ j + 1 \in 1 .. Len(ring) /\ i + 1 < j + 1
      BY <1>1, <2>2, <2>4
    <3> QED BY <2>2, <2>4, <3>1 DEF SeqInv, AgeOrder
  <2> QED BY <1>1, <1>2, <2>2, <2>3, <2>4, QueueAssumption DEF RingFull
<1>3. CASE ~RingFull
  <2>1. Evicted = ring /\ CountAfterEviction = Len(ring)
    BY <1>1, <1>3 DEF Evicted, CountAfterEviction
  <2>2. Len(ring) \in 0 .. MAX_SEQ_QUENE - 1
    BY <1>1, <1>3, QueueAssumption DEF RingFull, SeqInv, CountMatchesRing
  <2> QED BY <1>1, <2>1, <2>2 DEF SeqInv, AgeOrder
<1> QED BY <1>2, <1>3

----------------------------------------------------------------------------
LEMMA SeqInitInv == SeqInit => SeqInv
<1> SUFFICES ASSUME SeqInit PROVE SeqInv
  OBVIOUS
<1>1. << >> \in Seq(ReqRecord) /\ Len(<< >>) = 0
  BY EmptySeq
<1>2. SeqTypeOK
  <2>1. linked \in BOOLEAN /\ fault \in BOOLEAN /\ seq_table \subseteq SeqNo
    BY Zenon DEF SeqInit
  <2>2. /\ ring \in Seq(ReqRecord)
        /\ current_seq \in SeqNo
        /\ seq_current_count \in 0 .. MAX_SEQ_QUENE
        /\ sweep_pos \in -1 .. MAX_SEQ_QUENE
    BY <1>1, SeqNumAssumption, QueueAssumption DEF SeqInit, SeqNo
  <2> QED BY <2>1, <2>2, Zenon DEF SeqTypeOK
<1>3. CountMatchesRing /\ CursorOnList /\ AgeOrder
  BY <1>1, QueueAssumption DEF SeqInit, CountMatchesRing, CursorOnList, AgeOrder
<1> QED BY <1>2, <1>3 DEF SeqInv

LEMMA GetFreeSeqInv ==
  ASSUME SeqInv, NEW s \in SeqNo, GetFreeSeq(s)
  PROVE  SeqInv'
BY DEF SeqInv, GetFreeSeq, SeqTypeOK, CountMatchesRing, CursorOnList, AgeOrder

LEMMA InsertReqInv ==
  ASSUME SeqInv, NEW r \in ReqRecord, r.timestamp = "fresh", InsertReq(r)
  PROVE  SeqInv'
<1>1. /\ Evicted \in Seq(ReqRecord)
      /\ CountAfterEviction = Len(Evicted)
      /\ CountAfterEviction \in 0 .. MAX_SEQ_QUENE - 1
      /\ \A i, j \in 1 .. Len(Evicted) :
           (i < j /\ Evicted[j].timestamp # "fresh") => Evicted[i].timestamp # "fresh"
  BY EvictedProperties
<1>2. ring' = Append(Evicted, r) /\ seq_current_count' = CountAfterEviction + 1
  BY DEF InsertReq
<1>3. /\ ring' \in Seq(ReqRecord)
      /\ Len(ring') = Len(Evicted) + 1
      /\ \A i \in 1 .. Len(Evicted) : ring'[i] = Evicted[i]
      /\ ring'[Len(Evicted) + 1] = r
  BY <1>1, <1>2, AppendProperties
<1>4. seq_table' \subseteq SeqNo
  BY DEF InsertReq, SeqInv, SeqTypeOK, ReqRecord
<1>5. SeqTypeOK'
  BY <1>1, <1>2, <1>3, <1>4, QueueAssumption DEF SeqInv, SeqTypeOK, InsertReq
<1>6. CountMatchesRing' /\ CursorOnList'
  BY <1>1, <1>2, <1>3, QueueAssumption
     DEF CountMatchesRing, CursorOnList, InsertReq, NotSweeping
<1>7. AgeOrder'
  <2> SUFFICES ASSUME NEW i \in 1 .. Len(ring'), NEW j \in 1 .. Len(ring'),
                      i < j, ring'[j].timestamp # "fresh"
               PROVE  ring'[i].timestamp # "fresh"
    BY DEF AgeOrder
  <2>1. Len(Evicted) \in Nat
    BY <1>1
  <2>2. j # Len(Evicted) + 1
    BY <1>3
  <2>3. i \in 1 .. Len(Evicted) /\ j \in 1 .. Len(Evicted)
    BY <1>3, <2>1, <2>2
  <2> QED BY <1>1, <1>3, <2>3
<1> QED BY <1>5, <1>6, <1>7 DEF SeqInv

LEMMA InsertReqFailsInv ==
  ASSUME SeqInv, InsertReqFails
  PROVE  SeqInv'
<1>1. /\ ring' = Evicted
      /\ seq_current_count' = CountAfterEviction
      /\ linked' = FALSE
      /\ UNCHANGED <<seq_table, current_seq, sweep_pos, fault>>
      /\ sweep_pos = -1
  BY DEF InsertReqFails, NotSweeping
<1>2. /\ Evicted \in Seq(ReqRecord)
      /\ CountAfterEviction = Len(Evicted)
      /\ CountAfterEviction \in 0 .. MAX_SEQ_QUENE - 1
      /\ \A i, j \in 1 .. Len(Evicted) :
           (i < j /\ Evicted[j].timestamp # "fresh") => Evicted[i].timestamp # "fresh"
  BY EvictedProperties
<1>3. SeqTypeOK'
  <2>1. /\ linked' \in BOOLEAN /\ fault' \in BOOLEAN
        /\ seq_table' \subseteq SeqNo /\ current_seq' \in SeqNo
    BY <1>1, Zenon DEF SeqInv, SeqTypeOK
  <2>2. /\ ring' \in Seq(ReqRecord)
        /\ seq_current_count' \in 0 .. MAX_SEQ_QUENE
        /\ sweep_pos' \in -1 .. MAX_SEQ_QUENE
    BY <1>1, <1>2, QueueAssumption
  <2> QED BY <2>1, <2>2, Zenon DEF SeqTypeOK
<1>4. CountMatchesRing' /\ CursorOnList'
  BY <1>1, <1>2, QueueAssumption DEF CountMatchesRing, CursorOnList
<1>5. AgeOrder'
  BY <1>1, <1>2 DEF AgeOrder
<1> QED BY <1>3, <1>4, <1>5 DEF SeqInv

LEMMA TakeReqInv ==
  ASSUME SeqInv, NEW k, NEW cmd, NEW seq, TakeReq(k, cmd, seq)
  PROVE  SeqInv'
<1>1. /\ k \in 1 .. Len(ring)
      /\ Unlink(k)
      /\ UNCHANGED <<linked, current_seq, sweep_pos, fault>>
      /\ sweep_pos = -1
  BY DEF TakeReq, FirstMatch, NotSweeping
<1>2. /\ ring' \in Seq(ReqRecord)
      /\ Len(ring') = Len(ring) - 1
      /\ Len(ring) \in 1 .. MAX_SEQ_QUENE
      /\ seq_table' \subseteq SeqNo
      /\ seq_current_count' = Len(ring')
      /\ seq_current_count' \in 0 .. MAX_SEQ_QUENE
      /\ AgeOrder'
  BY <1>1, UnlinkPreserves
<1>3. SeqTypeOK'
  BY <1>1, <1>2 DEF SeqInv, SeqTypeOK
<1>4. CountMatchesRing' /\ CursorOnList'
  BY <1>1, <1>2, QueueAssumption DEF CountMatchesRing, CursorOnList
<1> QED BY <1>2, <1>3, <1>4 DEF SeqInv

LEMMA MissReqInv ==
  ASSUME SeqInv, NEW cmd, NEW seq, MissReq(cmd, seq)
  PROVE  SeqInv'
BY DEF SeqInv, MissReq, SeqTypeOK, CountMatchesRing, CursorOnList, AgeOrder

LEMMA SweepStartInv ==
  ASSUME SeqInv, SweepStart
  PROVE  SeqInv'
<1>1. PICK n \in 0 .. Len(ring) :
        /\ \A i \in n + 1 .. Len(ring) : ring[i].timestamp = "fresh"
        /\ ring' = [i \in 1 .. Len(ring) |->
                      [ring[i] EXCEPT !.timestamp =
                         IF i <= n THEN "expired" ELSE "aged"]]
  BY DEF SweepStart
<1>2. ring \in Seq(ReqRecord) /\ Len(ring) \in Nat /\ Len(ring) <= MAX_SEQ_QUENE
  BY LenProperties DEF SeqInv, SeqTypeOK, CountMatchesRing
<1>3. \A i \in 1 .. Len(ring) : ring[i] \in ReqRecord
  BY <1>2, ElementOfSeq
<1>4. ASSUME NEW i \in 1 .. Len(ring)
      PROVE  /\ [ring[i] EXCEPT !.timestamp = IF i <= n THEN "expired" ELSE "aged"] \in ReqRecord
             /\ ring'[i].timestamp # "fresh"
  <2>1. ring[i] \in ReqRecord
    BY <1>3
  <2> QED BY <1>1, <2>1 DEF ReqRecord, Age
<1>5. ring' \in Seq(ReqRecord) /\ Len(ring') = Len(ring)
  BY <1>1, <1>2, <1>4
<1>6. SeqTypeOK'
  BY <1>5, QueueAssumption DEF SeqInv, SeqTypeOK, SweepStart
<1>7. CountMatchesRing' /\ CursorOnList'
  BY <1>2, <1>5 DEF SeqInv, CountMatchesRing, CursorOnList, SweepStart
<1>8. AgeOrder'
  BY <1>4, <1>5 DEF AgeOrder
<1> QED BY <1>6, <1>7, <1>8 DEF SeqInv

LEMMA SweepRemoveInv ==
  ASSUME SeqInv, SweepRemove
  PROVE  SeqInv'
<1>1. ring \in Seq(ReqRecord) /\ Len(ring) \in Nat
  BY LenProperties DEF SeqInv, SeqTypeOK
<1>2. sweep_pos \in 0 .. Len(ring) - 1 /\ Unlink(sweep_pos + 1)
  BY DEF SweepRemove
<1>3. sweep_pos + 1 \in 1 .. Len(ring)
  BY <1>1, <1>2
<1>4. /\ ring' \in Seq(ReqRecord)
      /\ Len(ring') = Len(ring) - 1
      /\ Len(ring) \in 1 .. MAX_SEQ_QUENE
      /\ seq_table' \subseteq SeqNo
      /\ seq_current_count' = Len(ring')
      /\ seq_current_count' \in 0 .. MAX_SEQ_QUENE
      /\ AgeOrder'
  BY <1>2, <1>3, UnlinkPreserves
<1>5. sweep_pos' \in 0 .. Len(ring')
  BY <1>1, <1>2, <1>4 DEF SweepRemove
<1>6. SeqTypeOK'
  BY <1>4, <1>5, QueueAssumption DEF SeqInv, SeqTypeOK, SweepRemove
<1>7. CountMatchesRing' /\ CursorOnList'
  BY <1>4, <1>5, QueueAssumption DEF CountMatchesRing, CursorOnList
<1> QED BY <1>4, <1>6, <1>7 DEF SeqInv

LEMMA SweepWalkInv ==
  ASSUME SeqInv, SweepKeep \/ SweepEnd
  PROVE  SeqInv'
<1>1. ring \in Seq(ReqRecord) /\ Len(ring) \in Nat /\ Len(ring) <= MAX_SEQ_QUENE
  BY LenProperties DEF SeqInv, SeqTypeOK, CountMatchesRing
<1>2. sweep_pos' \in -1 .. Len(ring)
  BY <1>1 DEF SweepKeep, SweepEnd
<1>3. /\ UNCHANGED <<ring, linked, seq_table, current_seq, seq_current_count>>
      /\ fault' \in BOOLEAN
  BY DEF SweepKeep, SweepEnd, SeqInv, SeqTypeOK
<1> QED BY <1>1, <1>2, <1>3, QueueAssumption
        DEF SeqInv, SeqTypeOK, CountMatchesRing, CursorOnList, AgeOrder

\* Every step of the bookkeeping preserves the invariant.
LEMMA SeqNextInv == SeqInv /\ [SeqNext]_seqvars => SeqInv'
<1> SUFFICES ASSUME SeqInv, [SeqNext]_seqvars PROVE SeqInv'
  OBVIOUS
<1>1. CASE \E s \in SeqNo : GetFreeSeq(s)
  BY <1>1, GetFreeSeqInv
<1>2. CASE \E r \in ReqRecord : r.timestamp = "fresh" /\ InsertReq(r)
  BY <1>2, InsertReqInv
<1>3. CASE InsertReqFails
  BY <1>3, InsertReqFailsInv
<1>4. CASE \E cmd \in Cmd, seq \in SeqNo :
             \/ \E k \in 1 .. Len(ring) : TakeReq(k, cmd, seq)
             \/ MissReq(cmd, seq)
  BY <1>4, TakeReqInv, MissReqInv
<1>5. CASE Sweep
  BY <1>5, SweepStartInv, SweepRemoveInv, SweepWalkInv DEF Sweep
<1>6. CASE UNCHANGED seqvars
  BY <1>6 DEF seqvars, SeqInv, SeqTypeOK, CountMatchesRing, CursorOnList, AgeOrder
<1> QED BY <1>1, <1>2, <1>3, <1>4, <1>5, <1>6 DEF SeqNext

----------------------------------------------------------------------------
\* Whatever the callers and the sweep do, in any order, the variables of
\* ipmb.c's bookkeeping keep their types and ranges.
THEOREM SeqTyping == SeqSpec => []SeqTypeOK
<1>1. SeqInv => SeqTypeOK
  BY DEF SeqInv
<1> QED BY <1>1, SeqInitInv, SeqNextInv, PTL DEF SeqSpec

\* seq_current_count never drifts from the length of the list, whatever mix of
\* evictions, failed allocations, finds, clears and sweeps happens.
THEOREM CountCorrect == SeqSpec => []CountMatchesRing
<1>1. SeqInv => CountMatchesRing
  BY DEF SeqInv
<1> QED BY <1>1, SeqInitInv, SeqNextInv, PTL DEF SeqSpec

\* The sweep's cursor is on the list for every pattern of removals, and the list
\* stays ordered by age through evictions, removals and sweeps.
THEOREM SweepIsSafe == SeqSpec => []SweepSafe
<1>1. SeqInv => SweepSafe
  BY DEF SeqInv, SweepSafe
<1> QED BY <1>1, SeqInitInv, SeqNextInv, PTL DEF SeqSpec

----------------------------------------------------------------------------
(***************************************************************************)
(* The types of the threads                                                *)
(***************************************************************************)
\* A caller's message is a request that has not been tried.
ThreadsOK ==
  /\ pc \in [Callers -> {"idle", "send", "put", "wait", "clear", "ok", "err"}]
  /\ msg \in [Callers -> Msg]
  /\ mutex_read \in Readers \cup {None}
  /\ mutex_send_req \in Callers \cup {None}
  /\ \A t \in Callers : pc[t] \in {"send", "put"} => msg[t].kind = "req" /\ msg[t].retries = 0

\* A request that is queued again has a try left.
QueuesOK ==
  /\ txqueue \in Seq(Msg) /\ Len(txqueue) <= IPMB_TXQUEUE_LEN
  /\ rxqueue \in Seq(Msg) /\ Len(rxqueue) <= IPMB_RXQUEUE_LEN
  /\ \A i \in 1 .. Len(txqueue) :
       txqueue[i].kind = "req" => txqueue[i].retries <= IPMB_TX_RETRY_TIME

TxOK ==
  /\ tx_pc \in {"get", "insert", "write", "failed", "requeue", "giveup"}
  /\ tx_msg \in Msg
  /\ tx_pc \in {"insert", "write", "failed"} => tx_msg.retries <= IPMB_TX_RETRY_TIME
  /\ tx_pc = "requeue" /\ tx_msg.kind = "req" => tx_msg.retries <= IPMB_TX_RETRY_TIME
  /\ tx_pc \in {"insert", "giveup"} => tx_msg.kind = "req"

RxOK ==
  /\ rx_pc \in {"read", "find", "deliver"}
  /\ rx_msg \in [frame : Frame, record : Frame \cup ReqRecord]
  /\ rx_pc = "deliver" => rx_msg.record \in ReqRecord

HistoryOK ==
  /\ device \subseteq Frame
  /\ reqs \in Seq([InF_source : Source, seq_source : SeqNo])
  /\ Len(reqs) <= MaxReq
  /\ replies \in Seq(Reply)

CountersOK == todo \in 0 .. MaxIn /\ nin \in 0 .. MaxIn /\ dups \in 0 .. MaxDup /\ todo <= nin

\* SeqInv and types; the threads use the bookkeeping within its bounds.
TransportInv ==
  /\ SeqInv /\ tx_disable \in BOOLEAN
  /\ ThreadsOK /\ QueuesOK /\ TxOK /\ RxOK /\ HistoryOK /\ CountersOK

LEMMA TransportTypes == TransportInv => TypeOK
BY DEF TransportInv, SeqInv, ThreadsOK, QueuesOK, TxOK, RxOK, HistoryOK, CountersOK, TypeOK

\* What a step does not touch keeps its type.
LEMMA Untouched ==
  /\ SeqInv /\ UNCHANGED seqvars => SeqInv'
  /\ ThreadsOK /\ UNCHANGED threads => ThreadsOK'
  /\ QueuesOK /\ txqueue' = txqueue /\ rxqueue' = rxqueue => QueuesOK'
  /\ TxOK /\ UNCHANGED txvars => TxOK'
  /\ RxOK /\ UNCHANGED rxvars => RxOK'
  /\ HistoryOK /\ device' = device /\ reqs' = reqs /\ replies' = replies => HistoryOK'
  /\ CountersOK /\ todo' = todo /\ nin' = nin /\ dups' = dups => CountersOK'
<1>1. SeqInv /\ UNCHANGED seqvars => SeqInv'
  BY SeqNextInv
<1>2. ThreadsOK /\ UNCHANGED threads => ThreadsOK'
  BY DEF ThreadsOK, threads
<1>3. QueuesOK /\ txqueue' = txqueue /\ rxqueue' = rxqueue => QueuesOK'
  BY DEF QueuesOK
<1>4. TxOK /\ UNCHANGED txvars => TxOK'
  BY DEF TxOK, txvars
<1>5. RxOK /\ UNCHANGED rxvars => RxOK'
  BY DEF RxOK, rxvars
<1>6. HistoryOK /\ device' = device /\ reqs' = reqs /\ replies' = replies => HistoryOK'
  BY DEF HistoryOK
<1>7. CountersOK /\ todo' = todo /\ nin' = nin /\ dups' = dups => CountersOK'
  BY DEF CountersOK
<1> QED BY <1>1, <1>2, <1>3, <1>4, <1>5, <1>6, <1>7

LEMMA NoMsgType == NoMsg \in Msg /\ NoFrame \in Frame
<1>1. (CHOOSE c \in Cmd : TRUE) \in Cmd
  BY CmdAssumption
<1>2. 0 \in SeqNo /\ 0 \in Id /\ 0 \in 0 .. IPMB_TX_RETRY_TIME + 1 /\ "SELF" \in Source
  BY SeqNumAssumption, IdAssumption, LimitAssumption, SourceAssumption DEF SeqNo
<1> QED BY <1>1, <1>2 DEF NoMsg, NoFrame, Msg, Frame

\* Putting a message into ipmb_txqueue.
LEMMA QueueGrows ==
  ASSUME QueuesOK, TxRoom, NEW m \in Msg, m.kind = "req" => m.retries <= IPMB_TX_RETRY_TIME,
         txqueue' = Append(txqueue, m), rxqueue' = rxqueue
  PROVE  QueuesOK'
<1>1. /\ txqueue' \in Seq(Msg)
      /\ Len(txqueue') = Len(txqueue) + 1
      /\ \A i \in 1 .. Len(txqueue) : txqueue'[i] = txqueue[i]
      /\ txqueue'[Len(txqueue) + 1] = m
  BY AppendProperties DEF QueuesOK
<1>2. Len(txqueue) \in Nat
  BY LenProperties DEF QueuesOK
<1>3. Len(txqueue') <= IPMB_TXQUEUE_LEN
  BY <1>1, <1>2, LimitAssumption DEF TxRoom
<1>4. \A i \in 1 .. Len(txqueue') :
        txqueue'[i].kind = "req" => txqueue'[i].retries <= IPMB_TX_RETRY_TIME
  BY <1>1, <1>2 DEF QueuesOK
<1> QED BY <1>1, <1>3, <1>4 DEF QueuesOK

\* Answers to other buses are of a kind.
LEMMA RepliesGrow ==
  ASSUME HistoryOK, NEW id \in Id, NEW seq \in SeqNo,
         NEW code \in {"OK", "NODE_BUSY", "TIMEOUT", "BRIDGE_ERR"}, NEW data \in Id,
         SendResponseElsewhere(id, seq, code, data), device' = device, reqs' = reqs
  PROVE  HistoryOK'
<1>1. [id |-> id, seq |-> seq, cc |-> code, data |-> data] \in Reply
  BY DEF Reply
<1>2. replies' \in Seq(Reply)
  BY <1>1, AppendProperties DEF HistoryOK, SendResponseElsewhere
<1> QED BY <1>2 DEF HistoryOK

LEMMA TransportInit == Init => TransportInv
<1> SUFFICES ASSUME Init PROVE TransportInv
  OBVIOUS
<1>1. SeqInv
  BY SeqInitInv DEF Init
<1>2. ThreadsOK
  BY NoMsgType DEF Init, ThreadsOK
<1>3. QueuesOK
  BY EmptySeq, LimitAssumption DEF Init, QueuesOK
<1>4. TxOK
  BY NoMsgType DEF Init, TxOK
<1>5. RxOK
  BY NoMsgType DEF Init, RxOK
<1>6. HistoryOK
  BY EmptySeq, LimitAssumption DEF Init, HistoryOK
<1>7. CountersOK
  BY LimitAssumption DEF Init, CountersOK
<1>8. tx_disable \in BOOLEAN
  BY Zenon DEF Init
<1> QED BY <1>1, <1>2, <1>3, <1>4, <1>5, <1>6, <1>7, <1>8, Zenon DEF TransportInv

\* ipmb_read and the bridging threads make a request.
LEMMA StartTypes ==
  ASSUME TransportInv, NEW t \in Callers,
         (ReadStart(t) /\ t \in Readers) \/ (BridgeStart(t) /\ t \in Bridges)
  PROVE  TransportInv'
<1>1. PICK src \in Source, cmd \in Cmd, s \in SeqNo : NewRequest(t, src, cmd, s)
  <2>1. 0 \in SeqNo
    BY SeqNumAssumption DEF SeqNo
  <2> QED BY <2>1, SourceAssumption, SrcSeqAssumption, ThreadAssumption DEF ReadStart, BridgeStart
<1>2. Len(reqs) \in Nat /\ Len(reqs) + 1 \in Id
  BY <1>1, LenProperties, IdAssumption, LimitAssumption DEF NewRequest, TransportInv, HistoryOK
<1>3. ThreadsOK'
  <2>1. [kind |-> "req", cmd |-> cmd, seq |-> 0, seq_source |-> s,
         InF_source |-> src, retries |-> 0, id |-> Len(reqs) + 1] \in Msg
    <3>1. 0 \in SeqNo /\ 0 \in 0 .. IPMB_TX_RETRY_TIME + 1
      BY SeqNumAssumption, LimitAssumption DEF SeqNo
    <3> QED BY <1>2, <3>1 DEF Msg
  <2>2. msg' \in [Callers -> Msg]
    BY <1>1, <2>1 DEF NewRequest, TransportInv, ThreadsOK
  <2>3. pc' \in [Callers -> {"idle", "send", "put", "wait", "clear", "ok", "err"}]
    BY <1>1 DEF NewRequest, TransportInv, ThreadsOK
  <2>4. mutex_read' \in Readers \cup {None} /\ mutex_send_req' \in Callers \cup {None}
    BY ThreadAssumption DEF ReadStart, BridgeStart, TransportInv, ThreadsOK, queues
  <2>5. \A u \in Callers : pc'[u] \in {"send", "put"} => msg'[u].kind = "req" /\ msg'[u].retries = 0
    BY <1>1 DEF NewRequest, TransportInv, ThreadsOK
  <2> QED BY <2>2, <2>3, <2>4, <2>5 DEF ThreadsOK
<1>4. QueuesOK'
  <2>1. txqueue' = txqueue /\ (rxqueue' = rxqueue \/ rxqueue' = << >>)
    BY DEF ReadStart, BridgeStart, queues
  <2>2. rxqueue' \in Seq(Msg) /\ Len(rxqueue') <= IPMB_RXQUEUE_LEN
    <3>1. << >> \in Seq(Msg) /\ Len(<< >>) = 0
      BY EmptySeq
    <3>2. CASE rxqueue' = rxqueue
      BY <3>2 DEF TransportInv, QueuesOK
    <3>3. CASE rxqueue' = << >>
      <4>1. 0 <= IPMB_RXQUEUE_LEN
        BY LimitAssumption
      <4> QED BY <3>1, <3>3, <4>1
    <3> QED BY <2>1, <3>2, <3>3
  <2> QED BY <2>1, <2>2 DEF TransportInv, QueuesOK
<1>5. HistoryOK'
  <2>1. device' = device /\ replies' = replies
    BY DEF ReadStart, BridgeStart
  <2>2. [InF_source |-> src, seq_source |-> s] \in [InF_source : Source, seq_source : SeqNo]
    OBVIOUS
  <2>3. /\ reqs' \in Seq([InF_source : Source, seq_source : SeqNo])
        /\ Len(reqs') = Len(reqs) + 1
    BY <1>1, <2>2, AppendProperties DEF NewRequest, TransportInv, HistoryOK
  <2>4. Len(reqs') <= MaxReq
    BY <1>1, <1>2, <2>3, LimitAssumption DEF NewRequest
  <2> QED BY <2>1, <2>3, <2>4 DEF TransportInv, HistoryOK
<1>6. /\ UNCHANGED seqvars /\ UNCHANGED txvars /\ UNCHANGED rxvars /\ tx_disable' = tx_disable
      /\ todo' = todo /\ nin' = nin /\ dups' = dups
  BY DEF ReadStart, BridgeStart, queues
<1> QED BY <1>3, <1>4, <1>5, <1>6, Untouched, Zenon DEF TransportInv

\* ipmb_send_request gets its mutex and a sequence number, and queues.
LEMMA SendTypes ==
  ASSUME TransportInv, NEW t \in Callers, SendLock(t) \/ SendPut(t)
  PROVE  TransportInv'
<1>1. CASE SendLock(t)
  <2>1. PICK s \in SeqNo : GetFreeSeq(s) /\ msg' = [msg EXCEPT ![t].seq = s]
    BY <1>1 DEF SendLock
  <2>2. SeqInv'
    BY <2>1, GetFreeSeqInv DEF TransportInv
  <2>3. msg' \in [Callers -> Msg]
    <3>1. [msg[t] EXCEPT !.seq = s] \in Msg
      BY DEF TransportInv, ThreadsOK, Msg
    <3> QED BY <2>1, <3>1 DEF TransportInv, ThreadsOK
  <2>4. ThreadsOK'
    <3>1. \A u \in Callers : pc'[u] \in {"send", "put"}
                           => msg'[u].kind = "req" /\ msg'[u].retries = 0
      <4> SUFFICES ASSUME NEW u \in Callers, pc'[u] \in {"send", "put"}
                   PROVE  msg'[u].kind = "req" /\ msg'[u].retries = 0
        OBVIOUS
      <4>1. pc[u] \in {"send", "put"}
        BY <1>1 DEF SendLock, TransportInv, ThreadsOK
      <4>2. msg'[u].kind = msg[u].kind /\ msg'[u].retries = msg[u].retries
        BY <2>1 DEF TransportInv, ThreadsOK, Msg
      <4> QED BY <4>1, <4>2 DEF TransportInv, ThreadsOK
    <3> QED BY <1>1, <2>3, <3>1 DEF SendLock, TransportInv, ThreadsOK
  <2>5. /\ UNCHANGED queues /\ UNCHANGED txvars /\ UNCHANGED rxvars /\ UNCHANGED outside
    BY <1>1 DEF SendLock
  <2> QED BY <2>2, <2>4, <2>5, Untouched, Zenon DEF TransportInv, queues, outside
<1>2. CASE SendPut(t)
  <2>1. msg[t] \in Msg /\ msg[t].retries <= IPMB_TX_RETRY_TIME
    BY <1>2, LimitAssumption DEF SendPut, TransportInv, ThreadsOK
  <2>2. QueuesOK'
    BY <1>2, <2>1, QueueGrows DEF SendPut, TransportInv
  <2>3. ThreadsOK'
    BY <1>2 DEF SendPut, TransportInv, ThreadsOK
  <2>4. /\ UNCHANGED seqvars /\ UNCHANGED txvars /\ UNCHANGED rxvars /\ UNCHANGED outside
        /\ tx_disable' = tx_disable
    BY <1>2 DEF SendPut
  <2> QED BY <2>2, <2>3, <2>4, Untouched, Zenon DEF TransportInv, outside
<1> QED BY <1>1, <1>2

\* ... or fails, and the caller gives up or answers an error.
LEMMA SendFailedTypes ==
  ASSUME TransportInv, NEW t \in Callers, SendLockTimeout(t) \/ SendPutTimeout(t)
  PROVE  TransportInv'
<1>1. SendFailed(t) /\ mutex_send_req' \in {mutex_send_req, None}
  BY DEF SendLockTimeout, SendPutTimeout
<1>2. ThreadsOK'
  BY <1>1 DEF SendFailed, TransportInv, ThreadsOK
<1>3. HistoryOK'
  <2>1. /\ msg[t].id \in Id /\ msg[t].seq \in SeqNo /\ msg[t].seq_source \in SeqNo
        /\ 0 \in Id
    BY IdAssumption, LimitAssumption DEF TransportInv, ThreadsOK, Msg
  <2>2. device' = device /\ reqs' = reqs
    BY <1>1 DEF SendFailed
  <2>3. CASE replies' = replies
    BY <2>2, <2>3, Untouched DEF TransportInv
  <2>4. CASE SendResponseElsewhere(msg[t].id, msg[t].seq_source, "BRIDGE_ERR", 0)
    BY <2>1, <2>2, <2>4, RepliesGrow DEF TransportInv
  <2>5. CASE SendResponseElsewhere(msg[t].id, msg[t].seq, "TIMEOUT", 0)
    BY <2>1, <2>2, <2>5, RepliesGrow DEF TransportInv
  <2> QED BY <1>1, <2>3, <2>4, <2>5 DEF SendFailed
<1>4. /\ UNCHANGED seqvars /\ UNCHANGED queues /\ UNCHANGED txvars /\ UNCHANGED rxvars
      /\ todo' = todo /\ nin' = nin /\ dups' = dups
  BY <1>1 DEF SendFailed
<1> QED BY <1>2, <1>3, <1>4, Untouched, Zenon DEF TransportInv, queues

LEMMA ReadTypes ==
  ASSUME TransportInv, NEW t \in Callers, ReadGet(t) \/ ReadTimeout(t) \/ ReadClear(t)
  PROVE  TransportInv'
<1>1. CASE ReadGet(t)
  <2>1. /\ Head(rxqueue) \in Msg /\ Tail(rxqueue) \in Seq(Msg)
        /\ Len(Tail(rxqueue)) = Len(rxqueue) - 1 /\ Len(rxqueue) \in Nat
    BY <1>1, HeadTailProperties, LenProperties DEF ReadGet, TransportInv, QueuesOK
  <2>2. ThreadsOK'
    BY <1>1, <2>1 DEF ReadGet, TransportInv, ThreadsOK
  <2>3. QueuesOK'
    BY <1>1, <2>1, LimitAssumption DEF ReadGet, TransportInv, QueuesOK
  <2>4. /\ UNCHANGED seqvars /\ UNCHANGED txvars /\ UNCHANGED rxvars /\ UNCHANGED outside
        /\ tx_disable' = tx_disable
    BY <1>1 DEF ReadGet
  <2> QED BY <2>2, <2>3, <2>4, Untouched, Zenon DEF TransportInv, outside
<1>2. CASE ReadTimeout(t)
  <2>1. ThreadsOK'
    BY <1>2 DEF ReadTimeout, TransportInv, ThreadsOK
  <2>2. /\ UNCHANGED seqvars /\ UNCHANGED queues /\ UNCHANGED txvars /\ UNCHANGED rxvars
        /\ UNCHANGED outside
    BY <1>2 DEF ReadTimeout
  <2> QED BY <2>1, <2>2, Untouched, Zenon DEF TransportInv, outside, queues
<1>3. CASE ReadClear(t)
  <2>1. ThreadsOK'
    BY <1>3 DEF ReadClear, TransportInv, ThreadsOK
  <2>2. SeqInv'
    BY <1>3, TakeReqInv, MissReqInv DEF ReadClear, TransportInv
  <2>3. /\ UNCHANGED queues /\ UNCHANGED txvars /\ UNCHANGED rxvars /\ UNCHANGED outside
    BY <1>3 DEF ReadClear
  <2> QED BY <2>1, <2>2, <2>3, Untouched, Zenon DEF TransportInv, outside, queues
<1> QED BY <1>1, <1>2, <1>3

\* IPMB_TXTask takes a message, or drops it.
LEMMA TxGetTypes == ASSUME TransportInv, TxGet PROVE TransportInv'
<1>1. /\ Head(txqueue) \in Msg /\ Tail(txqueue) \in Seq(Msg)
      /\ Len(Tail(txqueue)) = Len(txqueue) - 1
      /\ \A i \in 1 .. Len(Tail(txqueue)) : Tail(txqueue)[i] = txqueue[i + 1]
      /\ Len(txqueue) \in Nat \ {0} /\ Head(txqueue) = txqueue[1]
  BY HeadTailProperties, LenProperties, EmptySeq DEF TxGet, TransportInv, QueuesOK
<1>2. QueuesOK'
  <2>1. txqueue' = Tail(txqueue) /\ rxqueue' = rxqueue
    BY DEF TxGet
  <2>2. \A i \in 1 .. Len(txqueue') : i + 1 \in 1 .. Len(txqueue) /\ txqueue'[i] = txqueue[i + 1]
    BY <1>1, <2>1
  <2>3. Len(txqueue') <= IPMB_TXQUEUE_LEN
    BY <1>1, <2>1, LimitAssumption DEF TransportInv, QueuesOK
  <2> QED BY <1>1, <2>1, <2>2, <2>3 DEF TransportInv, QueuesOK
<1>3. TxOK'
  <2>1. CASE UNCHANGED txvars
    BY <2>1, Untouched DEF TransportInv
  <2>2. CASE /\ ~TxDrops(Head(txqueue))
             /\ tx_msg' = Head(txqueue)
             /\ tx_pc' = IF Head(txqueue).kind = "req" THEN "insert" ELSE "write"
    <3>1. tx_msg'.retries <= IPMB_TX_RETRY_TIME
      <4>1. CASE Head(txqueue).kind = "req"
        BY <1>1, <2>2, <4>1 DEF TransportInv, QueuesOK
      <4>2. CASE Head(txqueue).kind = "resp"
        BY <1>1, <2>2, <4>2, LimitAssumption DEF TxDrops, Msg
      <4> QED BY <1>1, <4>1, <4>2 DEF Msg
    <3> QED BY <1>1, <2>2, <3>1 DEF TxOK
  <2> QED BY <2>1, <2>2 DEF TxGet
<1>4. /\ UNCHANGED seqvars /\ UNCHANGED threads /\ UNCHANGED rxvars /\ UNCHANGED outside
      /\ tx_disable' = tx_disable
  BY DEF TxGet
<1> QED BY <1>2, <1>3, <1>4, Untouched, Zenon DEF TransportInv, outside

\* It records the request and writes the message, or cannot.
LEMMA TxWriteTypes ==
  ASSUME TransportInv, TxNoMemory \/ TxInsert \/ TxWriteOk \/ TxWriteFails
  PROVE  TransportInv'
<1>1. CASE TxNoMemory
  <2>1. TxOK'
    BY <1>1, NoMsgType DEF TxNoMemory, TxCleanup, TxOK
  <2>2. /\ UNCHANGED seqvars /\ UNCHANGED threads /\ UNCHANGED rxvars /\ UNCHANGED outside
        /\ UNCHANGED queues
    BY <1>1 DEF TxNoMemory
  <2> QED BY <2>1, <2>2, Untouched, Zenon DEF TransportInv, outside, queues
<1>2. CASE TxInsert
  <2> DEFINE r == [cmd |-> tx_msg.cmd, seq |-> tx_msg.seq,
                   seq_source |-> tx_msg.seq_source, InF_source |-> tx_msg.InF_source,
                   id |-> tx_msg.id, timestamp |-> "fresh"]
  <2>1. r \in ReqRecord /\ r.timestamp = "fresh"
    BY DEF TransportInv, TxOK, Msg, ReqRecord, Age
  <2>2. InsertReq(r) \/ InsertReqFails
    BY <1>2 DEF TxInsert
  <2>3. SeqInv'
    <3> HIDE DEF r
    <3> QED BY <2>1, <2>2, InsertReqInv, InsertReqFailsInv DEF TransportInv
  <2>4. TxOK'
    BY <1>2 DEF TxInsert, TransportInv, TxOK
  <2>5. /\ UNCHANGED threads /\ UNCHANGED rxvars /\ UNCHANGED outside /\ UNCHANGED queues
    BY <1>2 DEF TxInsert
  <2> QED BY <2>3, <2>4, <2>5, Untouched, Zenon DEF TransportInv, outside, queues
<1>3. CASE TxWriteOk
  <2>1. TxOK'
    BY <1>3, NoMsgType DEF TxWriteOk, TxCleanup, TxOK
  <2>2. [cmd |-> tx_msg.cmd, seq |-> tx_msg.seq, id |-> tx_msg.id] \in Frame
    BY DEF TransportInv, TxOK, Msg, Frame
  <2>3. HistoryOK'
    BY <1>3, <2>2 DEF TxWriteOk, TransportInv, HistoryOK
  <2>4. /\ UNCHANGED seqvars /\ UNCHANGED threads /\ UNCHANGED rxvars /\ UNCHANGED queues
        /\ todo' = todo /\ nin' = nin /\ dups' = dups
    BY <1>3 DEF TxWriteOk
  <2> QED BY <2>1, <2>3, <2>4, Untouched, Zenon DEF TransportInv, queues
<1>4. CASE TxWriteFails
  <2>1. TxOK'
    BY <1>4 DEF TxWriteFails, TransportInv, TxOK
  <2>2. /\ UNCHANGED seqvars /\ UNCHANGED threads /\ UNCHANGED rxvars /\ UNCHANGED outside
        /\ UNCHANGED queues
    BY <1>4 DEF TxWriteFails
  <2> QED BY <2>1, <2>2, Untouched, Zenon DEF TransportInv, outside, queues
<1> QED BY <1>1, <1>2, <1>3, <1>4

\* A failed write: the record goes, the message is queued again or given up.
LEMMA TxRetryTypes ==
  ASSUME TransportInv, TxFailed \/ TxRequeue \/ TxGiveUp
  PROVE  TransportInv'
<1>1. CASE TxFailed
  <2>1. SeqInv'
    <3>1. CASE UNCHANGED seqvars
      BY <3>1, Untouched DEF TransportInv
    <3>2. CASE \E k \in 1 .. Len(ring) : TakeReq(k, tx_msg.cmd, tx_msg.seq)
      BY <3>2, TakeReqInv DEF TransportInv
    <3>3. CASE MissReq(tx_msg.cmd, tx_msg.seq)
      BY <3>3, MissReqInv DEF TransportInv
    <3> QED BY <1>1, <3>1, <3>2, <3>3 DEF TxFailed
  <2>2. /\ tx_msg' \in Msg
        /\ tx_msg'.kind = tx_msg.kind
        /\ tx_msg'.retries = tx_msg.retries + 1
    <3>0. tx_pc = "failed"
      BY <1>1 DEF TxFailed
    <3>1. tx_msg \in Msg /\ tx_msg.retries + 1 \in 0 .. IPMB_TX_RETRY_TIME + 1
      BY <3>0, LimitAssumption DEF TransportInv, TxOK, Msg
    <3>2. CASE tx_msg' = [tx_msg EXCEPT !.retries = @ + 1]
      BY <3>1, <3>2 DEF Msg
    <3>3. ASSUME NEW k \in 1 .. Len(ring),
                 tx_msg' = [tx_msg EXCEPT !.seq_source = ring[k].seq_source,
                                          !.InF_source = ring[k].InF_source,
                                          !.retries = @ + 1]
          PROVE  /\ tx_msg' \in Msg
                 /\ tx_msg'.kind = tx_msg.kind
                 /\ tx_msg'.retries = tx_msg.retries + 1
      <4>1. ring[k] \in ReqRecord
        BY ElementOfSeq DEF TransportInv, SeqInv, SeqTypeOK
      <4> QED BY <3>1, <3>3, <4>1 DEF Msg, ReqRecord
    <3> QED BY <1>1, <3>2, <3>3 DEF TxFailed
  <2>3. TxOK'
    <3>1. tx_pc' = IF tx_msg.kind = "req" /\ tx_msg.retries >= IPMB_TX_RETRY_TIME
                     THEN "giveup" ELSE "requeue"
      BY <1>1 DEF TxFailed
    <3>2. tx_msg.retries \in Nat
      BY LimitAssumption DEF TransportInv, TxOK, Msg
    <3> QED BY <2>2, <3>1, <3>2, LimitAssumption DEF TxOK
  <2>4. /\ UNCHANGED threads /\ UNCHANGED rxvars /\ UNCHANGED outside /\ UNCHANGED queues
    BY <1>1 DEF TxFailed
  <2> QED BY <2>1, <2>3, <2>4, Untouched, Zenon DEF TransportInv, outside, queues
<1>2. CASE TxRequeue
  <2>1. TxOK'
    BY <1>2, NoMsgType DEF TxRequeue, TxCleanup, TxOK
  <2>2. QueuesOK'
    <3>1. CASE TxRoom
      <4>1. txqueue' = Append(txqueue, tx_msg) /\ rxqueue' = rxqueue
        BY <1>2, <3>1 DEF TxRequeue
      <4>2. tx_msg \in Msg /\ (tx_msg.kind = "req" => tx_msg.retries <= IPMB_TX_RETRY_TIME)
        BY <1>2 DEF TxRequeue, TransportInv, TxOK
      <4> QED BY <3>1, <4>1, <4>2, QueueGrows DEF TransportInv
    <3>2. CASE ~TxRoom
      BY <1>2, <3>2, Untouched DEF TxRequeue, TransportInv
    <3> QED BY <3>1, <3>2
  <2>3. /\ UNCHANGED seqvars /\ UNCHANGED threads /\ UNCHANGED rxvars /\ UNCHANGED outside
        /\ tx_disable' = tx_disable
    BY <1>2 DEF TxRequeue
  <2> QED BY <2>1, <2>2, <2>3, Untouched, Zenon DEF TransportInv, outside
<1>3. CASE TxGiveUp
  <2>1. TxOK'
    BY <1>3, NoMsgType DEF TxGiveUp, TxCleanup, TxOK
  <2>2. tx_msg.id \in Id /\ tx_msg.seq \in SeqNo /\ 0 \in Id
    BY IdAssumption, LimitAssumption DEF TransportInv, TxOK, Msg
  <2>3. HistoryOK'
    <3>1. device' = device /\ reqs' = reqs
      BY <1>3 DEF TxGiveUp
    <3>2. CASE replies' = replies
      BY <3>1, <3>2, Untouched DEF TransportInv
    <3>3. CASE SendResponseElsewhere(tx_msg.id, tx_msg.seq, "NODE_BUSY", 0)
      BY <2>2, <3>1, <3>3, RepliesGrow DEF TransportInv
    <3> QED BY <1>3, <3>2, <3>3 DEF TxGiveUp
  <2>4. /\ UNCHANGED seqvars /\ UNCHANGED threads /\ UNCHANGED rxvars /\ UNCHANGED queues
        /\ todo' = todo /\ nin' = nin /\ dups' = dups
    BY <1>3 DEF TxGiveUp
  <2> QED BY <2>1, <2>3, <2>4, Untouched, Zenon DEF TransportInv, queues
<1> QED BY <1>1, <1>2, <1>3

\* IPMB_RXTask
LEMMA RxTypes ==
  ASSUME TransportInv, RxResponse \/ RxBadChecksum \/ RxFind \/ RxDeliver
  PROVE  TransportInv'
<1>1. CASE RxResponse
  <2>1. PICK f \in device : rx_msg' = [frame |-> f, record |-> NoFrame]
    BY <1>1 DEF RxResponse
  <2>2. RxOK'
    BY <1>1, <2>1, NoMsgType DEF RxResponse, TransportInv, HistoryOK, RxOK
  <2>3. HistoryOK' /\ CountersOK'
    <3>1. device' \subseteq Frame /\ reqs' = reqs /\ replies' = replies
      BY <1>1 DEF RxResponse, TransportInv, HistoryOK
    <3>2. todo' = todo /\ nin' = nin /\ dups' \in 0 .. MaxDup
      BY <1>1, LimitAssumption DEF RxResponse, TransportInv, CountersOK
    <3> QED BY <3>1, <3>2 DEF TransportInv, HistoryOK, CountersOK
  <2>4. UNCHANGED seqvars /\ UNCHANGED threads /\ UNCHANGED queues /\ UNCHANGED txvars
    BY <1>1 DEF RxResponse
  <2> QED BY <2>2, <2>3, <2>4, Untouched, Zenon DEF TransportInv, queues
<1>2. CASE RxBadChecksum
  <2>1. HistoryOK'
    BY <1>2 DEF RxBadChecksum, TransportInv, HistoryOK
  <2>2. /\ UNCHANGED seqvars /\ UNCHANGED threads /\ UNCHANGED queues /\ UNCHANGED txvars
        /\ UNCHANGED rxvars /\ todo' = todo /\ nin' = nin /\ dups' = dups
    BY <1>2 DEF RxBadChecksum
  <2> QED BY <2>1, <2>2, Untouched, Zenon DEF TransportInv, queues
<1>3. CASE RxFind
  <2>1. /\ UNCHANGED threads /\ UNCHANGED queues /\ UNCHANGED txvars /\ UNCHANGED outside
    BY <1>3 DEF RxFind
  <2>2. CASE \E k \in 1 .. Len(ring) :
               /\ TakeReq(k, rx_msg.frame.cmd, rx_msg.frame.seq)
               /\ rx_msg' = [rx_msg EXCEPT !.record = ring[k]]
               /\ rx_pc' = "deliver"
    <3>1. PICK k \in 1 .. Len(ring) :
               /\ TakeReq(k, rx_msg.frame.cmd, rx_msg.frame.seq)
               /\ rx_msg' = [rx_msg EXCEPT !.record = ring[k]]
               /\ rx_pc' = "deliver"
      BY <2>2
    <3>2. ring[k] \in ReqRecord
      BY ElementOfSeq DEF TransportInv, SeqInv, SeqTypeOK
    <3>3. RxOK'
      BY <3>1, <3>2 DEF TransportInv, RxOK
    <3>4. SeqInv'
      BY <3>1, TakeReqInv DEF TransportInv
    <3> QED BY <2>1, <3>3, <3>4, Untouched, Zenon DEF TransportInv, queues, outside
  <2>3. CASE MissReq(rx_msg.frame.cmd, rx_msg.frame.seq) /\ RxCleanup
    <3>1. RxOK'
      BY <2>3, NoMsgType DEF RxCleanup, RxOK
    <3>2. SeqInv'
      BY <2>3, MissReqInv DEF TransportInv
    <3> QED BY <2>1, <3>1, <3>2, Untouched, Zenon DEF TransportInv, queues, outside
  <2> QED BY <1>3, <2>2, <2>3 DEF RxFind
<1>4. CASE RxDeliver
  <2>1. RxOK'
    BY <1>4, NoMsgType DEF RxDeliver, RxCleanup, RxOK
  <2>2. rx_msg.record \in ReqRecord /\ rx_msg.frame \in Frame
    BY <1>4 DEF RxDeliver, TransportInv, RxOK
  <2>3. QueuesOK'
    <3>1. Answer \in Msg
      BY <2>2, LimitAssumption DEF Answer, Msg, ReqRecord, Frame
    <3>2. /\ Append(rxqueue, Answer) \in Seq(Msg)
          /\ Len(Append(rxqueue, Answer)) = Len(rxqueue) + 1
          /\ Len(rxqueue) \in Nat
      BY <3>1, AppendProperties, LenProperties DEF TransportInv, QueuesOK
    <3>3. /\ txqueue' = txqueue
          /\ \/ rxqueue' = rxqueue
             \/ Len(rxqueue) < IPMB_RXQUEUE_LEN /\ rxqueue' = Append(rxqueue, Answer)
      BY <1>4 DEF RxDeliver
    <3>4. rxqueue' \in Seq(Msg) /\ Len(rxqueue') <= IPMB_RXQUEUE_LEN
      BY <3>2, <3>3, LimitAssumption DEF TransportInv, QueuesOK
    <3> QED BY <3>3, <3>4 DEF TransportInv, QueuesOK
  <2>4. HistoryOK'
    <3>1. device' = device /\ reqs' = reqs
      BY <1>4 DEF RxDeliver
    <3>2. CASE replies' = replies
      BY <3>1, <3>2, Untouched DEF TransportInv
    <3>3. CASE SendResponseElsewhere(rx_msg.record.id, rx_msg.record.seq_source, "OK",
                                     rx_msg.frame.id)
      BY <2>2, <3>1, <3>3, RepliesGrow DEF TransportInv, ReqRecord, Frame
    <3> QED BY <1>4, <3>2, <3>3 DEF RxDeliver
  <2>5. /\ UNCHANGED seqvars /\ UNCHANGED threads /\ UNCHANGED txvars /\ tx_disable' = tx_disable
        /\ todo' = todo /\ nin' = nin /\ dups' = dups
    BY <1>4 DEF RxDeliver
  <2> QED BY <2>1, <2>3, <2>4, <2>5, Untouched, Zenon DEF TransportInv
<1> QED BY <1>1, <1>2, <1>3, <1>4

\* Requests of the device, and the sweep.
LEMMA OtherTypes ==
  ASSUME TransportInv, RxRequest \/ SendResponse \/ SendResponseTimeout \/ Suspend \/ Sweeper
  PROVE  TransportInv'
<1>1. CASE RxRequest \/ SendResponseTimeout
  <2>1. CountersOK'
    BY <1>1, LimitAssumption DEF RxRequest, SendResponseTimeout, TransportInv, CountersOK
  <2>2. /\ UNCHANGED seqvars /\ UNCHANGED threads /\ UNCHANGED queues /\ UNCHANGED txvars
        /\ UNCHANGED rxvars /\ device' = device /\ reqs' = reqs /\ replies' = replies
    BY <1>1 DEF RxRequest, SendResponseTimeout
  <2> QED BY <2>1, <2>2, Untouched, Zenon DEF TransportInv, queues
<1>2. CASE SendResponse
  <2>1. CountersOK'
    BY <1>2, LimitAssumption DEF SendResponse, TransportInv, CountersOK
  <2>2. QueuesOK'
    <3> DEFINE m == [NoMsg EXCEPT !.kind = "resp"]
    <3>1. m \in Msg /\ m.kind # "req"
      BY NoMsgType DEF Msg
    <3>2. TxRoom /\ txqueue' = Append(txqueue, m) /\ rxqueue' = rxqueue
      BY <1>2 DEF SendResponse
    <3> HIDE DEF m
    <3> QED BY <3>1, <3>2, QueueGrows DEF TransportInv
  <2>3. /\ UNCHANGED seqvars /\ UNCHANGED threads /\ UNCHANGED txvars /\ tx_disable' = tx_disable
        /\ UNCHANGED rxvars /\ device' = device /\ reqs' = reqs /\ replies' = replies
    BY <1>2 DEF SendResponse
  <2> QED BY <2>1, <2>2, <2>3, Untouched, Zenon DEF TransportInv
<1>3. CASE Suspend
  <2>1. tx_disable' \in BOOLEAN
    BY <1>3, Zenon DEF Suspend
  <2>2. /\ UNCHANGED seqvars /\ UNCHANGED threads /\ UNCHANGED txvars /\ UNCHANGED rxvars
        /\ txqueue' = txqueue /\ rxqueue' = rxqueue /\ UNCHANGED outside
    BY <1>3 DEF Suspend
  <2> QED BY <2>1, <2>2, Untouched, Zenon DEF TransportInv, outside
<1>4. CASE Sweeper
  <2>1. SeqInv'
    BY <1>4, SweepStartInv, SweepRemoveInv, SweepWalkInv DEF Sweeper, Sweep, TransportInv
  <2>2. /\ UNCHANGED threads /\ UNCHANGED queues /\ UNCHANGED txvars /\ UNCHANGED rxvars
        /\ UNCHANGED outside
    BY <1>4 DEF Sweeper
  <2> QED BY <2>1, <2>2, Untouched, Zenon DEF TransportInv, outside, queues
<1> QED BY <1>1, <1>2, <1>3, <1>4

LEMMA TransportNext == TransportInv /\ [Next]_vars => TransportInv'
<1> SUFFICES ASSUME TransportInv, [Next]_vars PROVE TransportInv'
  OBVIOUS
<1>1. CASE Next
  <2>1. CASE \E t \in Readers : ReadStart(t)
    <3>1. PICK t \in Readers : ReadStart(t)
      BY <2>1
    <3>2. t \in Callers /\ ((ReadStart(t) /\ t \in Readers) \/ (BridgeStart(t) /\ t \in Bridges))
      BY <3>1, Zenon DEF Callers
    <3> QED BY <3>2, StartTypes, Zenon
  <2>2. CASE \E t \in Bridges : BridgeStart(t)
    <3>1. PICK t \in Bridges : BridgeStart(t)
      BY <2>2
    <3>2. t \in Callers /\ ((ReadStart(t) /\ t \in Readers) \/ (BridgeStart(t) /\ t \in Bridges))
      BY <3>1, Zenon DEF Callers
    <3> QED BY <3>2, StartTypes, Zenon
  <2>3. CASE \E t \in Callers : CallerStep(t)
    BY <2>3, SendTypes, SendFailedTypes, ReadTypes DEF CallerStep
  <2>4. CASE TxStep
    BY <2>4, TxGetTypes, TxWriteTypes, TxRetryTypes DEF TxStep
  <2> QED BY <1>1, <2>1, <2>2, <2>3, <2>4, RxTypes, OtherTypes DEF Next, RxStep
<1>2. CASE UNCHANGED vars
  BY <1>2, Untouched, Zenon DEF vars, TransportInv, queues, outside
<1> QED BY <1>1, <1>2

\* The threads of an index, in any number and in any order of their steps, keep
\* the bookkeeping intact, the queues within their lengths and the counters of
\* retries within IPMB_TX_RETRY_TIME: ipmb.c with all its callers.
THEOREM TransportKeepsTypes == Spec => [](TypeOK /\ CountMatchesRing /\ CursorOnList /\ AgeOrder)
<1>1. TransportInv => TypeOK /\ CountMatchesRing /\ CursorOnList /\ AgeOrder
  BY TransportTypes DEF TransportInv, SeqInv
<1> QED BY <1>1, TransportInit, TransportNext, PTL DEF Spec

\* A step of a thread is one operation of the bookkeeping, or none.
LEMMA StepOfBookkeeping == TransportInv /\ [Next]_vars => [SeqNext]_seqvars
<1> SUFFICES ASSUME TransportInv, [Next]_vars PROVE [SeqNext]_seqvars
  OBVIOUS
<1>1. ASSUME ~fault, NEW cmd \in Cmd, NEW seq \in SeqNo,
             (\E k \in 1 .. Len(ring) : TakeReq(k, cmd, seq)) \/ MissReq(cmd, seq)
      PROVE  SeqNext
  BY <1>1 DEF SeqNext
<1>2. CASE Next
  <2>1. ~fault
    BY <1>2 DEF Next
  <2>2. CASE \E t \in Readers : ReadStart(t)
    BY <2>2 DEF ReadStart
  <2>3. CASE \E t \in Bridges : BridgeStart(t)
    BY <2>3 DEF BridgeStart
  <2>4. CASE \E t \in Callers : CallerStep(t)
    <3>1. PICK t \in Callers : CallerStep(t)
      BY <2>4
    <3>2. CASE SendLock(t)
      BY <2>1, <3>2 DEF SendLock, SeqNext
    <3>3. CASE ReadClear(t)
      <4>1. msg[t].cmd \in Cmd /\ msg[t].seq \in SeqNo
        BY DEF TransportInv, ThreadsOK, Msg
      <4> QED BY <1>1, <2>1, <3>3, <4>1 DEF ReadClear
    <3>4. CASE \/ SendPut(t) \/ SendLockTimeout(t) \/ SendPutTimeout(t)
               \/ ReadGet(t) \/ ReadTimeout(t)
      BY <3>4 DEF SendPut, SendLockTimeout, SendPutTimeout, SendFailed, ReadGet, ReadTimeout
    <3> QED BY <3>1, <3>2, <3>3, <3>4 DEF CallerStep
  <2>5. CASE TxStep
    <3>1. tx_msg \in Msg /\ tx_msg.cmd \in Cmd /\ tx_msg.seq \in SeqNo
      BY DEF TransportInv, TxOK, Msg
    <3>2. CASE TxInsert
      <4> DEFINE r == [cmd |-> tx_msg.cmd, seq |-> tx_msg.seq,
                       seq_source |-> tx_msg.seq_source, InF_source |-> tx_msg.InF_source,
                       id |-> tx_msg.id, timestamp |-> "fresh"]
      <4>1. r \in ReqRecord /\ r.timestamp = "fresh"
        BY <3>1 DEF Msg, ReqRecord, Age
      <4>2. InsertReq(r) \/ InsertReqFails
        BY <3>2 DEF TxInsert
      <4> HIDE DEF r
      <4> QED BY <2>1, <4>1, <4>2 DEF SeqNext
    <3>3. CASE TxFailed
      BY <1>1, <2>1, <3>1, <3>3 DEF TxFailed
    <3>4. CASE TxGet \/ TxNoMemory \/ TxWriteOk \/ TxWriteFails \/ TxRequeue \/ TxGiveUp
      BY <3>4 DEF TxGet, TxNoMemory, TxWriteOk, TxWriteFails, TxRequeue, TxGiveUp
    <3> QED BY <2>5, <3>2, <3>3, <3>4 DEF TxStep
  <2>6. CASE RxFind
    <3>1. rx_msg.frame.cmd \in Cmd /\ rx_msg.frame.seq \in SeqNo
      BY DEF TransportInv, RxOK, Frame
    <3> QED BY <1>1, <2>1, <2>6, <3>1 DEF RxFind
  <2>7. CASE Sweeper
    BY <2>1, <2>7 DEF Sweeper, SeqNext
  <2>8. CASE \/ RxDeliver \/ RxResponse \/ RxBadChecksum \/ RxRequest
             \/ SendResponse \/ SendResponseTimeout \/ Suspend
    BY <2>8 DEF RxDeliver, RxResponse, RxBadChecksum, RxRequest, SendResponse,
                SendResponseTimeout, Suspend
  <2> QED BY <1>2, <2>2, <2>3, <2>4, <2>5, <2>6, <2>7, <2>8 DEF Next, RxStep
<1>3. CASE UNCHANGED vars
  BY <1>3 DEF vars
<1> QED BY <1>2, <1>3

\* The transport implements the bookkeeping: to the list, the table and the
\* counter, the threads are one caller of its operations at a time, so that
\* what is proved of SeqSpec holds under all of them.
THEOREM TransportUsesBookkeeping == Spec => SeqSpec
<1>1. Init => SeqInit
  BY DEF Init
<1> QED BY <1>1, TransportInit, TransportNext, StepOfBookkeeping, PTL DEF Spec, SeqSpec
----------------------------------------------------------------------------
(***************************************************************************)
(* Which request is where.  A request is in the hands of its caller, then  *)
(* in ipmb_txqueue, in the hands of the TX task, on the list, and, once    *)
(* written, at the device; a record that RX has taken off the list is due  *)
(* to be answered.  Core is what travels unchanged.                        *)
(***************************************************************************)
Core(m) == [cmd |-> m.cmd, seq |-> m.seq, seq_source |-> m.seq_source, id |-> m.id]

FrameOf(m) == [cmd |-> m.cmd, seq |-> m.seq, id |-> m.id]

Waiting  == {Core(msg[t]) : t \in {u \in Callers : pc[u] = "send"}}
Puts     == {Core(msg[t]) : t \in {u \in Callers : pc[u] = "put"}}
Queued   == {Core(txqueue[i]) : i \in {j \in 1 .. Len(txqueue) : txqueue[j].kind = "req"}}
InTx     == IF tx_pc # "get" /\ tx_msg.kind = "req" THEN {Core(tx_msg)} ELSE {}
Listed   == {Core(ring[i]) : i \in 1 .. Len(ring)}
Due      == IF rx_pc = "deliver" THEN {Core(rx_msg.record)} ELSE {}
Out      == device \cup (IF rx_pc # "read" THEN {rx_msg.frame} ELSE {})
Answered == {replies[i].id : i \in 1 .. Len(replies)}

Numbered == Puts \cup Queued \cup InTx \cup Listed \cup Due
Frames   == {FrameOf(c) : c \in Numbered} \cup Out

Written == tx_pc \in {"write", "failed"}

\* A request is in one place at a time, except that it is on the list while the
\* TX task writes it, and that its record may be on the list or due while the
\* device has it; one that can still be answered has not been answered.
Stages ==
  /\ \A c \in Waiting \cup Puts :
       /\ \A x \in Queued \cup InTx \cup Listed \cup Out : c.id # x.id
       /\ c.id \notin Answered
  /\ \A c \in Queued :
       /\ \A x \in InTx \cup Listed \cup Out : c.id # x.id
       /\ c.id \notin Answered
  /\ \A c \in InTx :
       /\ \A x \in Out : c.id # x.id
       /\ ~Written => \A x \in Listed : c.id # x.id
       /\ c.id \notin Answered
  /\ \A c \in Listed :
       /\ \A x \in Due : c.id # x.id
       /\ c.id \notin Answered
  /\ \A c \in Due : FrameOf(c) \in Out /\ c.id \notin Answered

\* Frames of the same sequence number, or of the same request, are equal.
Agree == \A f, g \in Frames : (f.seq = g.seq \/ f.id = g.id) => f = g

\* Sequence numbers are handed out in order, and requests are those of reqs.
InRange ==
  /\ \A f \in Frames : f.seq \in 1 .. current_seq
  /\ \A x \in Waiting \cup Numbered \cup Out : x.id \in 1 .. Len(reqs)
  /\ Answered \subseteq 1 .. Len(reqs)
  /\ seq_table \subseteq 1 .. current_seq

\* An answer that is to be passed on is the answer to the request of its record.
Matched == rx_pc = "deliver" => rx_msg.frame.id = rx_msg.record.id

\* The messages and records keep the sequence number of the other bus.
Genuine == \A c \in Waiting \cup Numbered : c.seq_source = reqs[c.id].seq_source

\* At most one sequence number for each request that does not wait for one.
Counted == current_seq <= Cardinality((1 .. Len(reqs)) \ {c.id : c \in Waiting})

Sending(t) == pc[t] \in {"send", "put"}

DistinctCalls ==
  \A t, u \in Callers : (Sending(t) /\ Sending(u) /\ msg[t].id = msg[u].id) => t = u

DistinctQueue ==
  \A i, j \in 1 .. Len(txqueue) :
    (txqueue[i].kind = "req" /\ txqueue[j].kind = "req" /\ txqueue[i].id = txqueue[j].id)
      => i = j

DistinctRing == \A i, j \in 1 .. Len(ring) : ring[i].id = ring[j].id => i = j

Reserved == \A i \in 1 .. Len(ring) : ring[i].seq \in seq_table

Identity ==
  /\ Stages /\ Agree /\ InRange /\ Matched /\ Genuine /\ Counted
  /\ DistinctCalls /\ DistinctQueue /\ DistinctRing /\ Reserved
  /\ AtMostOneReply /\ ReplyAnswersItsRequest

\* Fewer requests so far than there are sequence numbers: no number has been
\* handed out twice.
Unwrapped == Len(reqs) < SEQ_NUM

IdentityInv == TransportInv /\ (Unwrapped => Identity)

\* What a step may do to the list: it loses records, with their numbers.
ListShrinks ==
  Listed' \subseteq Listed /\ DistinctRing' /\ Reserved' /\ seq_table' \subseteq seq_table

LEMMA CoreFields ==
  ASSUME NEW m
  PROVE  /\ Core(m).cmd = m.cmd /\ Core(m).seq = m.seq
         /\ Core(m).seq_source = m.seq_source /\ Core(m).id = m.id
         /\ FrameOf(Core(m)) = FrameOf(m)
         /\ FrameOf(m).cmd = m.cmd /\ FrameOf(m).seq = m.seq /\ FrameOf(m).id = m.id
BY DEF Core, FrameOf

\* What a step does not touch holds the same requests.
LEMMA SamePlaces ==
  ASSUME Identity
  PROVE  /\ UNCHANGED threads => Waiting' = Waiting /\ Puts' = Puts /\ DistinctCalls'
         /\ txqueue' = txqueue => Queued' = Queued /\ DistinctQueue'
         /\ UNCHANGED txvars => InTx' = InTx /\ Written' = Written
         /\ UNCHANGED seqvars => ListShrinks /\ current_seq' = current_seq
         /\ UNCHANGED rxvars => Due' = Due /\ Matched'
         /\ UNCHANGED rxvars /\ device' = device => Out' = Out
         /\ replies' = replies /\ reqs' = reqs
              => Answered' = Answered /\ AtMostOneReply' /\ ReplyAnswersItsRequest'
<1>1. UNCHANGED threads => Waiting' = Waiting /\ Puts' = Puts /\ DistinctCalls'
  BY DEF Identity, threads, Waiting, Puts, DistinctCalls, Sending
<1>2. txqueue' = txqueue => Queued' = Queued /\ DistinctQueue'
  BY DEF Identity, Queued, DistinctQueue
<1>3. UNCHANGED txvars => InTx' = InTx /\ Written' = Written
  BY DEF txvars, InTx, Written
<1>4. UNCHANGED seqvars => ListShrinks /\ current_seq' = current_seq
  BY DEF Identity, seqvars, ListShrinks, Listed, DistinctRing, Reserved
<1>5. UNCHANGED rxvars => Due' = Due /\ Matched'
  BY DEF rxvars, Due, Matched, Identity
<1>6. UNCHANGED rxvars /\ device' = device => Out' = Out
  BY DEF rxvars, Out
<1>7. replies' = replies /\ reqs' = reqs
        => Answered' = Answered /\ AtMostOneReply' /\ ReplyAnswersItsRequest'
  BY DEF Identity, Answered, AtMostOneReply, ReplyAnswersItsRequest
<1> QED BY <1>1, <1>2, <1>3, <1>4, <1>5, <1>6, <1>7

\* A list whose records are some of those of before, none of them twice.
LEMMA SubList ==
  ASSUME Identity, NEW at \in [1 .. Len(ring') -> 1 .. Len(ring)],
         \A i, j \in 1 .. Len(ring') : at[i] = at[j] => i = j,
         \A i \in 1 .. Len(ring') : Core(ring'[i]) = Core(ring[at[i]])
  PROVE  /\ Listed' \subseteq Listed
         /\ DistinctRing'
         /\ \A i \in 1 .. Len(ring') : /\ ring'[i].id = ring[at[i]].id
                                       /\ ring'[i].seq = ring[at[i]].seq
<1>1. \A i \in 1 .. Len(ring') : ring'[i].id = ring[at[i]].id /\ ring'[i].seq = ring[at[i]].seq
  BY DEF Core
<1>2. Listed' \subseteq Listed
  BY DEF Listed
<1>3. DistinctRing'
  BY <1>1 DEF DistinctRing, Identity
<1> QED BY <1>1, <1>2, <1>3

\* Two records of the list have different sequence numbers.
LEMMA RingNumbers ==
  ASSUME Identity, NEW i \in 1 .. Len(ring), NEW j \in 1 .. Len(ring), ring[i].seq = ring[j].seq
  PROVE  i = j
<1>1. Core(ring[i]) \in Numbered /\ Core(ring[j]) \in Numbered
  BY DEF Listed, Numbered
<1>2. FrameOf(Core(ring[i])) \in Frames /\ FrameOf(Core(ring[j])) \in Frames
  BY <1>1 DEF Frames
<1>3. /\ FrameOf(Core(ring[i])).seq = ring[i].seq /\ FrameOf(Core(ring[i])).id = ring[i].id
      /\ FrameOf(Core(ring[j])).seq = ring[j].seq /\ FrameOf(Core(ring[j])).id = ring[j].id
  BY DEF FrameOf, Core
<1>4. FrameOf(Core(ring[i])) = FrameOf(Core(ring[j]))
  BY <1>2, <1>3, Zenon DEF Identity, Agree
<1> QED BY <1>3, <1>4 DEF Identity, DistinctRing

LEMMA UnlinkShrinks ==
  ASSUME TransportInv, Identity, NEW k \in 1 .. Len(ring), Unlink(k)
  PROVE  ListShrinks /\ \A x \in Listed' : x.id # ring[k].id
<1> DEFINE at == [i \in 1 .. Len(ring') |-> IF i < k THEN i ELSE i + 1]
<1>1. /\ Len(ring) \in Nat /\ Len(ring') = Len(ring) - 1
      /\ \A i \in 1 .. Len(ring) - 1 : ring'[i] = IF i < k THEN ring[i] ELSE ring[i + 1]
  BY RemoveAtProperties, LenProperties DEF Unlink, TransportInv, SeqInv, SeqTypeOK
<1>2. /\ at \in [1 .. Len(ring') -> 1 .. Len(ring)]
      /\ \A i, j \in 1 .. Len(ring') : at[i] = at[j] => i = j
      /\ \A i \in 1 .. Len(ring') : ring'[i] = ring[at[i]] /\ at[i] # k
  BY <1>1
<1> HIDE DEF at
<1>3. /\ Listed' \subseteq Listed /\ DistinctRing'
      /\ \A i \in 1 .. Len(ring') : ring'[i].id = ring[at[i]].id /\ ring'[i].seq = ring[at[i]].seq
  BY <1>2, SubList
<1>4. \A i \in 1 .. Len(ring') : ring'[i].id # ring[k].id
  BY <1>2, <1>3 DEF Identity, DistinctRing
<1>5. \A x \in Listed' : x.id # ring[k].id
  BY <1>4 DEF Listed, Core
<1>6. Reserved'
  <2> SUFFICES ASSUME NEW i \in 1 .. Len(ring') PROVE ring'[i].seq \in seq_table'
    BY DEF Reserved
  <2>1. ring[at[i]].seq \in seq_table /\ ring[at[i]].seq # ring[k].seq
    BY <1>2, RingNumbers DEF Identity, Reserved
  <2> QED BY <1>3, <2>1 DEF Unlink
<1> QED BY <1>3, <1>5, <1>6 DEF ListShrinks, Unlink

LEMMA TakeShrinks ==
  ASSUME TransportInv, Identity, NEW cmd, NEW seq, NEW k \in 1 .. Len(ring), TakeReq(k, cmd, seq)
  PROVE  /\ ListShrinks /\ current_seq' = current_seq
         /\ \A x \in Listed' : x.id # ring[k].id
BY UnlinkShrinks DEF TakeReq

LEMMA MissShrinks ==
  ASSUME Identity, NEW cmd, NEW seq, MissReq(cmd, seq)
  PROVE  ListShrinks /\ current_seq' = current_seq
BY DEF MissReq, Identity, ListShrinks, Listed, DistinctRing, Reserved

\* The eviction of insert_req_ipmi_msg.
LEMMA EvictedList ==
  ASSUME TransportInv
  PROVE  /\ Evicted \in Seq(ReqRecord) /\ Len(Evicted) \in Nat
         /\ \E d \in {0, 1} : /\ Len(Evicted) = Len(ring) - d
                              /\ \A i \in 1 .. Len(Evicted) : Evicted[i] = ring[i + d]
<1>1. ring \in Seq(ReqRecord) /\ Len(ring) \in Nat /\ seq_current_count = Len(ring)
  BY LenProperties DEF TransportInv, SeqInv, SeqTypeOK, CountMatchesRing
<1>2. CASE RingFull
  <2>1. ring # << >>
    BY <1>1, <1>2, QueueAssumption, EmptySeq DEF RingFull
  <2>2. /\ Tail(ring) \in Seq(ReqRecord) /\ Len(Tail(ring)) = Len(ring) - 1
        /\ \A i \in 1 .. Len(Tail(ring)) : Tail(ring)[i] = ring[i + 1]
    BY <1>1, <2>1, HeadTailProperties
  <2>3. Len(Tail(ring)) \in Nat
    BY <2>2, LenProperties
  <2> QED BY <1>2, <2>2, <2>3 DEF Evicted
<1>3. CASE ~RingFull
  <2>1. Evicted = ring
    BY <1>3 DEF Evicted
  <2>2. Len(Evicted) = Len(ring) - 0 /\ \A i \in 1 .. Len(Evicted) : Evicted[i] = ring[i + 0]
    BY <1>1, <2>1
  <2> QED BY <1>1, <2>1, <2>2
<1> QED BY <1>2, <1>3

LEMMA InsertFailsShrinks ==
  ASSUME TransportInv, Identity, InsertReqFails
  PROVE  ListShrinks /\ current_seq' = current_seq
<1>1. PICK d \in {0, 1} : /\ Len(Evicted) = Len(ring) - d
                          /\ \A i \in 1 .. Len(Evicted) : Evicted[i] = ring[i + d]
  BY EvictedList
<1>2. ring' = Evicted /\ Len(Evicted) \in Nat /\ Len(ring) \in Nat
  BY EvictedList, LenProperties DEF InsertReqFails, TransportInv, SeqInv, SeqTypeOK
<1> DEFINE at == [i \in 1 .. Len(ring') |-> i + d]
<1>3. /\ at \in [1 .. Len(ring') -> 1 .. Len(ring)]
      /\ \A i, j \in 1 .. Len(ring') : at[i] = at[j] => i = j
      /\ \A i \in 1 .. Len(ring') : ring'[i] = ring[at[i]]
  BY <1>1, <1>2
<1> HIDE DEF at
<1>4. /\ Listed' \subseteq Listed /\ DistinctRing'
      /\ \A i \in 1 .. Len(ring') : ring'[i].id = ring[at[i]].id /\ ring'[i].seq = ring[at[i]].seq
  BY <1>3, SubList
<1>5. seq_table' = seq_table /\ current_seq' = current_seq
  BY DEF InsertReqFails
<1>6. Reserved'
  BY <1>3, <1>4, <1>5 DEF Identity, Reserved
<1> QED BY <1>4, <1>5, <1>6 DEF ListShrinks

LEMMA InsertGrows ==
  ASSUME TransportInv, Identity, NEW r \in ReqRecord, InsertReq(r),
         \A x \in Listed : x.id # r.id
  PROVE  /\ Listed' \subseteq Listed \cup {Core(r)} /\ DistinctRing' /\ Reserved'
         /\ seq_table' = seq_table \cup {r.seq} /\ current_seq' = current_seq
<1>1. PICK d \in {0, 1} : /\ Len(Evicted) = Len(ring) - d
                          /\ \A i \in 1 .. Len(Evicted) : Evicted[i] = ring[i + d]
  BY EvictedList
<1> DEFINE n == Len(Evicted)
<1>2. /\ Len(ring) \in Nat /\ n \in Nat /\ Len(ring') = n + 1
      /\ \A i \in 1 .. n : ring'[i] = Evicted[i]
      /\ ring'[n + 1] = r
  BY EvictedList, AppendProperties, LenProperties DEF InsertReq, TransportInv, SeqInv, SeqTypeOK
<1>3. \A i \in 1 .. n : i + d \in 1 .. Len(ring) /\ ring'[i] = ring[i + d]
  BY <1>1, <1>2
<1> HIDE DEF n
<1>4. \A i \in 1 .. Len(ring') : i \in 1 .. n \/ i = n + 1
  BY <1>2
<1>5. \A i \in 1 .. Len(ring) : ring[i].id # r.id
  <2>1. \A i \in 1 .. Len(ring) : Core(ring[i]) \in Listed
    BY DEF Listed
  <2> QED BY <2>1, CoreFields
<1>6. Listed' \subseteq Listed \cup {Core(r)}
  <2>1. \A i \in 1 .. n : Core(ring'[i]) \in Listed
    BY <1>3 DEF Listed
  <2>2. \A i \in 1 .. Len(ring') : Core(ring'[i]) \in Listed \cup {Core(r)}
    BY <1>2, <1>4, <2>1
  <2>3. Listed' = {Core(ring'[i]) : i \in 1 .. Len(ring')}
    BY DEF Listed, Core
  <2> QED BY <2>2, <2>3
<1>7. DistinctRing'
  <2> SUFFICES ASSUME NEW i \in 1 .. Len(ring'), NEW j \in 1 .. Len(ring'),
                      ring'[i].id = ring'[j].id
               PROVE  i = j
    BY DEF DistinctRing
  <2>1. CASE i \in 1 .. n /\ j \in 1 .. n
    <3>1. i + d = j + d
      BY <1>3, <2>1 DEF Identity, DistinctRing
    <3> QED BY <1>1, <1>2, <2>1, <3>1
  <2>2. CASE i = n + 1 \/ j = n + 1
    BY <1>2, <1>3, <1>4, <1>5, <2>2
  <2> QED BY <1>4, <2>1, <2>2
<1>8. seq_table' = seq_table \cup {r.seq} /\ current_seq' = current_seq
  BY DEF InsertReq
<1>9. Reserved'
  BY <1>2, <1>3, <1>4, <1>8 DEF Identity, Reserved
<1> QED BY <1>6, <1>7, <1>8, <1>9

LEMMA SweepShrinks ==
  ASSUME TransportInv, Identity, Sweep
  PROVE  ListShrinks /\ current_seq' = current_seq
<1>1. CASE SweepStart
  <2>1. PICK n \in 0 .. Len(ring) :
           ring' = [i \in 1 .. Len(ring) |->
                      [ring[i] EXCEPT !.timestamp = IF i <= n THEN "expired" ELSE "aged"]]
    BY <1>1 DEF SweepStart
  <2>2. Len(ring) \in Nat /\ \A i \in 1 .. Len(ring) : ring[i] \in ReqRecord
    BY LenProperties, ElementOfSeq DEF TransportInv, SeqInv, SeqTypeOK
  <2>3. Len(ring') = Len(ring)
    BY <2>1, <2>2
  <2>4. \A i \in 1 .. Len(ring) : Core(ring'[i]) = Core(ring[i])
    BY <2>1, <2>2 DEF Core, ReqRecord
  <2> DEFINE at == [i \in 1 .. Len(ring') |-> i]
  <2>5. /\ at \in [1 .. Len(ring') -> 1 .. Len(ring)]
        /\ \A i, j \in 1 .. Len(ring') : at[i] = at[j] => i = j
        /\ \A i \in 1 .. Len(ring') : at[i] = i
    BY <2>3
  <2> HIDE DEF at
  <2>6. \A i \in 1 .. Len(ring') : Core(ring'[i]) = Core(ring[at[i]])
    BY <2>3, <2>4, <2>5
  <2>7. /\ Listed' \subseteq Listed /\ DistinctRing'
        /\ \A i \in 1 .. Len(ring') : ring'[i].id = ring[at[i]].id /\ ring'[i].seq = ring[at[i]].seq
    BY <2>5, <2>6, SubList
  <2>8. seq_table' = seq_table /\ current_seq' = current_seq
    BY <1>1 DEF SweepStart
  <2>9. Reserved'
    BY <2>5, <2>7, <2>8 DEF Identity, Reserved
  <2> QED BY <2>7, <2>8, <2>9 DEF ListShrinks
<1>2. CASE SweepRemove
  <2>1. sweep_pos + 1 \in 1 .. Len(ring)
    BY <1>2, LenProperties DEF SweepRemove, TransportInv, SeqInv, SeqTypeOK
  <2>2. Unlink(sweep_pos + 1) /\ current_seq' = current_seq
    BY <1>2 DEF SweepRemove
  <2> QED BY <2>1, <2>2, UnlinkShrinks
<1>3. CASE SweepKeep \/ SweepEnd
  BY <1>3 DEF SweepKeep, SweepEnd, Identity, ListShrinks, Listed, DistinctRing, Reserved
<1> QED BY <1>1, <1>2, <1>3 DEF Sweep

\* Requests that move on, or leave, keep the frames apart and their origin.
LEMMA Flows ==
  ASSUME TransportInv, Identity, Waiting' \subseteq Waiting, Numbered' \subseteq Numbered,
         Out' \subseteq Frames, reqs' = reqs, current_seq' = current_seq,
         Answered' \subseteq Answered \cup {c.id : c \in Waiting \cup Numbered},
         seq_table' \subseteq 1 .. current_seq
  PROVE  Agree' /\ InRange' /\ Genuine' /\ Counted'
<1>1. Frames' \subseteq Frames
  <2>1. Frames' = {FrameOf(c) : c \in Numbered'} \cup Out'
    BY DEF Frames, FrameOf
  <2>2. \A c \in Numbered : FrameOf(c) \in Frames
    BY DEF Frames
  <2> QED BY <2>1, <2>2
<1>2. Agree'
  BY <1>1, Zenon DEF Identity, Agree
<1>3. \A f \in Frames : f.seq \in 1 .. current_seq /\ f.id \in 1 .. Len(reqs)
  <2>1. \A c \in Numbered : FrameOf(c).id \in 1 .. Len(reqs)
    BY CoreFields DEF Identity, InRange
  <2> QED BY <2>1 DEF Identity, InRange, Frames
<1>4. InRange'
  <2>1. \A f \in Frames' : f.seq \in 1 .. current_seq'
    BY <1>1, <1>3
  <2>2. \A x \in Waiting' \cup Numbered' \cup Out' : x.id \in 1 .. Len(reqs')
    BY <1>3 DEF Identity, InRange
  <2>3. Answered' \subseteq 1 .. Len(reqs')
    BY DEF Identity, InRange
  <2> QED BY <2>1, <2>2, <2>3 DEF InRange
<1>5. Genuine'
  BY DEF Identity, Genuine
<1>6. Counted'
  <2> DEFINE A == (1 .. Len(reqs)) \ {c.id : c \in Waiting}
             B == (1 .. Len(reqs)) \ {c.id : c \in Waiting'}
  <2>1. A \subseteq B /\ B \subseteq 1 .. Len(reqs)
    OBVIOUS
  <2>2. IsFiniteSet(1 .. Len(reqs))
    BY FS_Interval, LenProperties DEF TransportInv, HistoryOK
  <2> HIDE DEF A, B
  <2>3. IsFiniteSet(A) /\ IsFiniteSet(B) /\ Cardinality(A) <= Cardinality(B)
    BY <2>1, <2>2, FS_Subset
  <2>4. Cardinality(A) \in Nat /\ Cardinality(B) \in Nat /\ current_seq \in Int
    BY <2>3, FS_CardinalityType DEF TransportInv, SeqInv, SeqTypeOK, SeqNo
  <2>5. current_seq <= Cardinality(A)
    BY DEF A, Identity, Counted
  <2>6. current_seq' <= Cardinality(B)
    BY <2>3, <2>4, <2>5
  <2> QED BY <2>6 DEF B, Counted
<1> QED BY <1>2, <1>4, <1>5, <1>6

\* A reply to a request that has had none.
LEMMA ReplySent ==
  ASSUME TransportInv, Identity, reqs' = reqs, NEW id, NEW seq, NEW cc, NEW data,
         SendResponseElsewhere(id, seq, cc, data), id \notin Answered,
         cc = "OK" => data = id /\ seq = reqs[id].seq_source,
         [id |-> id, seq |-> seq, cc |-> cc, data |-> data] \in Reply
  PROVE  AtMostOneReply' /\ ReplyAnswersItsRequest' /\ Answered' \subseteq Answered \cup {id}
<1>1. CASE UNCHANGED replies
  BY <1>1, SamePlaces
<1> DEFINE r == [id |-> id, seq |-> seq, cc |-> cc, data |-> data]
<1>2. CASE replies' = Append(replies, r)
  <2> DEFINE n == Len(replies)
  <2>1. /\ n \in Nat /\ Len(replies') = n + 1
        /\ \A i \in 1 .. n : replies'[i] = replies[i]
        /\ replies'[n + 1] = r
    BY <1>2, AppendProperties, LenProperties DEF TransportInv, HistoryOK
  <2>2. r.id = id /\ r.cc = cc /\ r.seq = seq /\ r.data = data
    OBVIOUS
  <2> HIDE DEF r, n
  <2>3. \A i \in 1 .. Len(replies') : i \in 1 .. n \/ i = n + 1
    BY <2>1
  <2>4. \A i \in 1 .. n : replies[i].id \in Answered
    BY DEF Answered, n
  <2>5. AtMostOneReply'
    <3> SUFFICES ASSUME NEW i \in 1 .. Len(replies'), NEW j \in 1 .. Len(replies'),
                        replies'[i].id = replies'[j].id
                 PROVE  i = j
      BY DEF AtMostOneReply
    <3>1. CASE i \in 1 .. n /\ j \in 1 .. n
      BY <2>1, <3>1 DEF Identity, AtMostOneReply, n
    <3>2. CASE i = n + 1 \/ j = n + 1
      BY <2>1, <2>2, <2>3, <2>4, <3>2
    <3> QED BY <2>3, <3>1, <3>2
  <2>6. ReplyAnswersItsRequest'
    <3> SUFFICES ASSUME NEW i \in 1 .. Len(replies'), replies'[i].cc = "OK"
                 PROVE  /\ replies'[i].data = replies'[i].id
                        /\ replies'[i].seq = reqs'[replies'[i].id].seq_source
      BY DEF ReplyAnswersItsRequest
    <3>1. CASE i \in 1 .. n
      BY <2>1, <3>1 DEF Identity, ReplyAnswersItsRequest, n
    <3>2. CASE i = n + 1
      BY <2>1, <2>2, <3>2
    <3> QED BY <2>3, <3>1, <3>2
  <2>7. Answered' \subseteq Answered \cup {id}
    <3>1. \A i \in 1 .. Len(replies') : replies'[i].id \in Answered \cup {id}
      BY <2>1, <2>2, <2>3, <2>4
    <3> QED BY <3>1 DEF Answered
  <2> QED BY <2>5, <2>6, <2>7
<1> QED BY <1>1, <1>2 DEF SendResponseElsewhere

\* A caller that is not in ipmb_send_request after the step.
LEMMA CallerLeaves ==
  ASSUME Identity, NEW t \in Callers, ~Sending(t)',
         \A u \in Callers \ {t} : pc'[u] = pc[u] /\ msg'[u] = msg[u]
  PROVE  /\ Waiting' \subseteq Waiting /\ Puts' \subseteq Puts /\ DistinctCalls'
         /\ Sending(t) => \A c \in Waiting' \cup Puts' : c.id # msg[t].id
<1>1. \A u \in Callers : Sending(u)' => u # t /\ Sending(u) /\ pc'[u] = pc[u] /\ msg'[u] = msg[u]
  BY DEF Sending
<1>2. Waiting' \subseteq Waiting
  BY <1>1 DEF Waiting, Sending
<1>3. Puts' \subseteq Puts
  BY <1>1 DEF Puts, Sending
<1>4. DistinctCalls'
  <2> SUFFICES ASSUME NEW u \in Callers, NEW v \in Callers, Sending(u)', Sending(v)',
                      msg'[u].id = msg'[v].id
               PROVE  u = v
    BY DEF DistinctCalls
  <2> QED BY <1>1 DEF Identity, DistinctCalls
<1>5. ASSUME Sending(t), NEW c \in Waiting' \cup Puts' PROVE c.id # msg[t].id
  <2>1. PICK u \in Callers : Sending(u)' /\ c = Core(msg'[u])
    BY DEF Waiting, Puts, Sending
  <2>2. u # t /\ Sending(u) /\ c.id = msg[u].id
    BY <1>1, <2>1, CoreFields
  <2> QED BY <1>5, <2>2 DEF Identity, DistinctCalls
<1> QED BY <1>2, <1>3, <1>4, <1>5

\* k_msgq_put on ipmb_txqueue.
LEMMA QueuePut ==
  ASSUME TransportInv, Identity, NEW m \in Msg, txqueue' = Append(txqueue, m),
         m.kind = "req" => \A c \in Queued : c.id # m.id
  PROVE  /\ DistinctQueue'
         /\ Queued' \subseteq Queued \cup {Core(m)}
         /\ m.kind # "req" => Queued' \subseteq Queued
<1> DEFINE n == Len(txqueue)
<1>1. /\ n \in Nat /\ Len(txqueue') = n + 1
      /\ \A i \in 1 .. n : txqueue'[i] = txqueue[i]
      /\ txqueue'[n + 1] = m
  BY AppendProperties, LenProperties DEF TransportInv, QueuesOK
<1>2. \A i \in 1 .. Len(txqueue') : i \in 1 .. n \/ i = n + 1
  BY <1>1
<1>3. \A i \in 1 .. n : txqueue[i].kind = "req"
        => Core(txqueue[i]) \in Queued /\ Core(txqueue[i]).id = txqueue[i].id
  BY CoreFields DEF Queued
<1> HIDE DEF n
<1>4. DistinctQueue'
  <2> SUFFICES ASSUME NEW i \in 1 .. Len(txqueue'), NEW j \in 1 .. Len(txqueue'),
                      txqueue'[i].kind = "req", txqueue'[j].kind = "req",
                      txqueue'[i].id = txqueue'[j].id
               PROVE  i = j
    BY DEF DistinctQueue
  <2>1. CASE i \in 1 .. n /\ j \in 1 .. n
    BY <1>1, <2>1 DEF Identity, DistinctQueue, n
  <2>2. CASE i = n + 1 \/ j = n + 1
    BY <1>1, <1>2, <1>3, <2>2
  <2> QED BY <1>2, <2>1, <2>2
<1>5. \A i \in 1 .. Len(txqueue') : txqueue'[i].kind = "req"
        => Core(txqueue'[i]) \in Queued \/ (Core(txqueue'[i]) = Core(m) /\ m.kind = "req")
  BY <1>1, <1>2, <1>3
<1>6. Queued' = {Core(txqueue'[i]) : i \in {j \in 1 .. Len(txqueue') : txqueue'[j].kind = "req"}}
  BY DEF Queued, Core
<1> QED BY <1>4, <1>5, <1>6

\* k_msgq_get.
LEMMA QueueGet ==
  ASSUME TransportInv, Identity, txqueue # << >>, txqueue' = Tail(txqueue)
  PROVE  /\ DistinctQueue' /\ Queued' \subseteq Queued
         /\ Head(txqueue) \in Msg
         /\ Head(txqueue).kind = "req" => /\ Core(Head(txqueue)) \in Queued
                                          /\ \A c \in Queued' : c.id # Head(txqueue).id
<1>1. /\ Head(txqueue) \in Msg /\ Len(txqueue') = Len(txqueue) - 1
      /\ \A i \in 1 .. Len(txqueue') : txqueue'[i] = txqueue[i + 1]
      /\ Len(txqueue) \in Nat \ {0} /\ Head(txqueue) = txqueue[1]
  BY HeadTailProperties, EmptySeq DEF TransportInv, QueuesOK
<1>2. \A i \in 1 .. Len(txqueue') : i + 1 \in 1 .. Len(txqueue) /\ i + 1 # 1
  BY <1>1
<1>3. DistinctQueue'
  <2> SUFFICES ASSUME NEW i \in 1 .. Len(txqueue'), NEW j \in 1 .. Len(txqueue'),
                      txqueue'[i].kind = "req", txqueue'[j].kind = "req",
                      txqueue'[i].id = txqueue'[j].id
               PROVE  i = j
    BY DEF DistinctQueue
  <2>1. i + 1 = j + 1
    BY <1>1, <1>2 DEF Identity, DistinctQueue
  <2> QED BY <1>1, <2>1
<1>4. Queued' = {Core(txqueue'[i]) : i \in {j \in 1 .. Len(txqueue') : txqueue'[j].kind = "req"}}
  BY DEF Queued, Core
<1>5. \A i \in 1 .. Len(txqueue) : txqueue[i].kind = "req" => Core(txqueue[i]) \in Queued
  BY DEF Queued
<1>6. Queued' \subseteq Queued
  BY <1>1, <1>2, <1>4, <1>5
<1>7. ASSUME Head(txqueue).kind = "req"
      PROVE  Core(Head(txqueue)) \in Queued /\ \A c \in Queued' : c.id # Head(txqueue).id
  <2>1. 1 \in 1 .. Len(txqueue)
    BY <1>1
  <2>2. \A i \in 1 .. Len(txqueue') : txqueue'[i].kind = "req" => txqueue'[i].id # txqueue[1].id
    BY <1>1, <1>2, <1>7, <2>1 DEF Identity, DistinctQueue
  <2>3. \A c \in Queued' : c.id # txqueue[1].id
    BY <1>4, <2>2, CoreFields
  <2> QED BY <1>1, <1>5, <1>7, <2>1, <2>3
<1> QED BY <1>1, <1>3, <1>6, <1>7

\* A step after which no place holds a request that it did not hold before.
LEMMA PlacesShrink ==
  ASSUME TransportInv, Identity,
         Waiting' \subseteq Waiting, Puts' \subseteq Puts, Queued' \subseteq Queued,
         InTx' \subseteq InTx, ListShrinks, Due' \subseteq Due, Out' \subseteq Out,
         \A c \in Due' : FrameOf(c) \in Out', Written => (Written' \/ InTx' = {}),
         Matched', DistinctCalls', DistinctQueue', Answered' = Answered,
         AtMostOneReply', ReplyAnswersItsRequest', reqs' = reqs, current_seq' = current_seq
  PROVE  Identity'
<1>1. Stages'
  BY DEF Identity, Stages, ListShrinks
<1>2. Numbered' \subseteq Numbered /\ Out' \subseteq Frames /\ seq_table' \subseteq 1 .. current_seq
  BY DEF Numbered, Frames, ListShrinks, Identity, InRange
<1>3. Agree' /\ InRange' /\ Genuine' /\ Counted'
  BY <1>2, Flows
<1> QED BY <1>1, <1>3, Zenon DEF Identity, ListShrinks

\* ipmb_read after the request is on its way.
LEMMA ReadIdentity ==
  ASSUME TransportInv, Identity, NEW t \in Callers, ReadGet(t) \/ ReadTimeout(t) \/ ReadClear(t)
  PROVE  Identity'
<1>1. /\ ~Sending(t)' /\ \A u \in Callers \ {t} : pc'[u] = pc[u] /\ msg'[u] = msg[u]
      /\ txqueue' = txqueue /\ UNCHANGED txvars /\ UNCHANGED rxvars
      /\ device' = device /\ reqs' = reqs /\ replies' = replies
  BY DEF ReadGet, ReadTimeout, ReadClear, TransportInv, ThreadsOK, Sending, queues, outside
<1>2. ListShrinks /\ current_seq' = current_seq
  <2>1. CASE ReadClear(t)
    BY <2>1, TakeShrinks, MissShrinks DEF ReadClear
  <2>2. CASE ReadGet(t) \/ ReadTimeout(t)
    BY <2>2, SamePlaces DEF ReadGet, ReadTimeout
  <2> QED BY <2>1, <2>2
<1>3. Waiting' \subseteq Waiting /\ Puts' \subseteq Puts /\ DistinctCalls'
  BY <1>1, CallerLeaves
<1>4. /\ Queued' = Queued /\ DistinctQueue' /\ InTx' = InTx /\ Written' = Written
      /\ Due' = Due /\ Matched' /\ Out' = Out
      /\ Answered' = Answered /\ AtMostOneReply' /\ ReplyAnswersItsRequest'
  BY <1>1, SamePlaces
<1>5. \A c \in Due : FrameOf(c) \in Out
  BY DEF Identity, Stages
<1> QED BY <1>1, <1>2, <1>3, <1>4, <1>5, PlacesShrink

\* Requests of the device, their responses, suspending, and the sweep.
LEMMA OtherIdentity ==
  ASSUME TransportInv, Identity,
         RxRequest \/ SendResponse \/ SendResponseTimeout \/ Suspend \/ Sweeper
  PROVE  Identity'
<1>1. /\ UNCHANGED threads /\ UNCHANGED txvars /\ UNCHANGED rxvars
      /\ device' = device /\ reqs' = reqs /\ replies' = replies
  BY DEF RxRequest, SendResponse, SendResponseTimeout, Suspend, Sweeper, outside
<1>2. ListShrinks /\ current_seq' = current_seq
  <2>1. Sweep \/ UNCHANGED seqvars
    BY DEF RxRequest, SendResponse, SendResponseTimeout, Suspend, Sweeper
  <2> QED BY <2>1, SweepShrinks, SamePlaces
<1>3. Queued' \subseteq Queued /\ DistinctQueue'
  <2>1. CASE SendResponse
    <3> DEFINE m == [NoMsg EXCEPT !.kind = "resp"]
    <3>1. m \in Msg /\ m.kind # "req"
      BY NoMsgType DEF Msg
    <3>2. txqueue' = Append(txqueue, m)
      BY <2>1 DEF SendResponse
    <3> HIDE DEF m
    <3> QED BY <3>1, <3>2, QueuePut
  <2>2. CASE txqueue' = txqueue
    BY <2>2, SamePlaces
  <2> QED BY <2>1, <2>2 DEF RxRequest, SendResponseTimeout, Suspend, Sweeper, queues
<1>4. /\ Waiting' = Waiting /\ Puts' = Puts /\ DistinctCalls' /\ InTx' = InTx
      /\ Written' = Written /\ Due' = Due /\ Matched' /\ Out' = Out
      /\ Answered' = Answered /\ AtMostOneReply' /\ ReplyAnswersItsRequest'
  BY <1>1, SamePlaces
<1>5. \A c \in Due : FrameOf(c) \in Out
  BY DEF Identity, Stages
<1> QED BY <1>1, <1>2, <1>3, <1>4, <1>5, PlacesShrink

\* A frame arrives, or is lost, or has no record.
LEMMA RxDropIdentity ==
  ASSUME TransportInv, Identity,
         \/ RxResponse \/ RxBadChecksum
         \/ RxFind /\ MissReq(rx_msg.frame.cmd, rx_msg.frame.seq) /\ RxCleanup
  PROVE  Identity'
<1>1. /\ UNCHANGED threads /\ UNCHANGED txvars /\ txqueue' = txqueue
      /\ reqs' = reqs /\ replies' = replies
  BY DEF RxResponse, RxBadChecksum, RxFind, outside, queues
<1>2. ListShrinks /\ current_seq' = current_seq
  BY SamePlaces, MissShrinks DEF RxResponse, RxBadChecksum
<1>3. Due' = {} /\ Matched' /\ Out' \subseteq Out
  <2>1. CASE RxResponse
    BY <2>1 DEF RxResponse, Due, Out, Matched
  <2>2. CASE RxBadChecksum
    BY <2>2 DEF RxBadChecksum, rxvars, Due, Out, Matched
  <2>3. CASE RxFind /\ RxCleanup
    BY <2>3 DEF RxFind, RxCleanup, outside, Due, Out, Matched
  <2> QED BY <2>1, <2>2, <2>3
<1>4. /\ Waiting' = Waiting /\ Puts' = Puts /\ DistinctCalls' /\ Queued' = Queued /\ DistinctQueue'
      /\ InTx' = InTx /\ Written' = Written
      /\ Answered' = Answered /\ AtMostOneReply' /\ ReplyAnswersItsRequest'
  BY <1>1, SamePlaces
<1> QED BY <1>1, <1>2, <1>3, <1>4, PlacesShrink

\* A message is dropped or could not be written; nothing is recorded.
LEMMA TxDropIdentity ==
  ASSUME TransportInv, Identity, TxNoMemory \/ TxWriteFails \/ (TxInsert /\ InsertReqFails)
  PROVE  Identity'
<1>1. /\ UNCHANGED threads /\ UNCHANGED rxvars /\ txqueue' = txqueue
      /\ device' = device /\ reqs' = reqs /\ replies' = replies
  BY DEF TxNoMemory, TxWriteFails, TxInsert, outside, queues
<1>2. ListShrinks /\ current_seq' = current_seq
  BY SamePlaces, InsertFailsShrinks DEF TxNoMemory, TxWriteFails
<1>3. InTx' \subseteq InTx /\ (Written => (Written' \/ InTx' = {}))
  <2>1. CASE TxNoMemory
    BY <2>1 DEF TxNoMemory, TxCleanup, InTx
  <2>2. CASE TxWriteFails
    BY <2>2 DEF TxWriteFails, InTx, Written
  <2>3. CASE TxInsert
    BY <2>3 DEF TxInsert, InTx, Written
  <2> QED BY <2>1, <2>2, <2>3
<1>4. /\ Waiting' = Waiting /\ Puts' = Puts /\ DistinctCalls' /\ Queued' = Queued /\ DistinctQueue'
      /\ Due' = Due /\ Matched' /\ Out' = Out
      /\ Answered' = Answered /\ AtMostOneReply' /\ ReplyAnswersItsRequest'
  BY <1>1, SamePlaces
<1>5. \A c \in Due : FrameOf(c) \in Out
  BY DEF Identity, Stages
<1> QED BY <1>1, <1>2, <1>3, <1>4, <1>5, PlacesShrink

\* A step after which a request is in another place.
LEMMA Moves ==
  ASSUME TransportInv, Identity, Stages', Waiting' \subseteq Waiting, Numbered' \subseteq Numbered,
         Out' \subseteq Frames, reqs' = reqs, current_seq' = current_seq,
         Answered' \subseteq Answered \cup {c.id : c \in Waiting \cup Numbered},
         seq_table' \subseteq 1 .. current_seq,
         Matched', DistinctCalls', DistinctQueue', DistinctRing', Reserved',
         AtMostOneReply', ReplyAnswersItsRequest'
  PROVE  Identity'
<1>1. Agree' /\ InRange' /\ Genuine' /\ Counted'
  BY Flows
<1> QED BY <1>1, Zenon DEF Identity

\* A caller puts its request into ipmb_txqueue.
LEMMA SendPutIdentity ==
  ASSUME TransportInv, Identity, NEW t \in Callers, SendPut(t)
  PROVE  Identity'
<1> DEFINE c0 == Core(msg[t])
<1>1. /\ ~Sending(t)' /\ Sending(t) /\ pc[t] = "put"
      /\ \A u \in Callers \ {t} : pc'[u] = pc[u] /\ msg'[u] = msg[u]
      /\ txqueue' = Append(txqueue, msg[t]) /\ msg[t] \in Msg
      /\ UNCHANGED seqvars /\ UNCHANGED txvars /\ UNCHANGED rxvars
      /\ device' = device /\ reqs' = reqs /\ replies' = replies
  BY DEF SendPut, TransportInv, ThreadsOK, Sending, outside
<1>2. c0 \in Puts /\ c0.id = msg[t].id
  BY <1>1, CoreFields DEF Puts
<1> HIDE DEF c0
<1>3. /\ Waiting' \subseteq Waiting /\ Puts' \subseteq Puts /\ DistinctCalls'
      /\ \A c \in Waiting' \cup Puts' : c.id # c0.id
  BY <1>1, <1>2, CallerLeaves
<1>4. \A c \in Queued : c.id # msg[t].id
  BY <1>2 DEF Identity, Stages
<1>5. DistinctQueue' /\ Queued' \subseteq Queued \cup {c0}
  BY <1>1, <1>4, QueuePut DEF c0
<1>6. /\ InTx' = InTx /\ Written' = Written /\ ListShrinks /\ current_seq' = current_seq
      /\ Due' = Due /\ Matched' /\ Out' = Out
      /\ Answered' = Answered /\ AtMostOneReply' /\ ReplyAnswersItsRequest'
  BY <1>1, SamePlaces
<1>7. Stages'
  BY <1>2, <1>3, <1>5, <1>6 DEF Identity, Stages, ListShrinks
<1>8. Numbered' \subseteq Numbered /\ Out' \subseteq Frames /\ seq_table' \subseteq 1 .. current_seq
  BY <1>2, <1>3, <1>5, <1>6 DEF Numbered, Frames, ListShrinks, Identity, InRange
<1> QED BY <1>1, <1>3, <1>5, <1>6, <1>7, <1>8, Moves DEF ListShrinks

\* A caller could not: the bus the request came from may be told so.
LEMMA SendFailedIdentity ==
  ASSUME TransportInv, Identity, NEW t \in Callers, SendLockTimeout(t) \/ SendPutTimeout(t)
  PROVE  Identity'
<1> DEFINE c0 == Core(msg[t])
<1>1. SendFailed(t) /\ pc[t] \in {"send", "put"}
  BY DEF SendLockTimeout, SendPutTimeout
<1>2. /\ ~Sending(t)' /\ Sending(t)
      /\ \A u \in Callers \ {t} : pc'[u] = pc[u] /\ msg'[u] = msg[u]
      /\ txqueue' = txqueue /\ msg[t] \in Msg
      /\ UNCHANGED seqvars /\ UNCHANGED txvars /\ UNCHANGED rxvars
      /\ device' = device /\ reqs' = reqs
  BY <1>1 DEF SendFailed, TransportInv, ThreadsOK, Sending, queues
<1>3. c0 \in Waiting \cup Puts /\ c0.id = msg[t].id
  BY <1>1, CoreFields DEF Waiting, Puts
<1> HIDE DEF c0
<1>4. /\ Waiting' \subseteq Waiting /\ Puts' \subseteq Puts /\ DistinctCalls'
      /\ \A c \in Waiting' \cup Puts' : c.id # c0.id
  BY <1>2, <1>3, CallerLeaves
<1>5. /\ Queued' = Queued /\ DistinctQueue'
      /\ InTx' = InTx /\ Written' = Written /\ ListShrinks /\ current_seq' = current_seq
      /\ Due' = Due /\ Matched' /\ Out' = Out
  BY <1>2, SamePlaces
<1>6. AtMostOneReply' /\ ReplyAnswersItsRequest' /\ Answered' \subseteq Answered \cup {c0.id}
  <2>1. msg[t].id \notin Answered
    BY <1>3 DEF Identity, Stages
  <2>2. msg[t].id \in Id /\ msg[t].seq \in SeqNo /\ msg[t].seq_source \in SeqNo /\ 0 \in Id
    BY <1>2, IdAssumption, LimitAssumption DEF Msg
  <2>3. CASE SendResponseElsewhere(msg[t].id, msg[t].seq_source, "BRIDGE_ERR", 0)
    <3>1. [id |-> msg[t].id, seq |-> msg[t].seq_source, cc |-> "BRIDGE_ERR", data |-> 0] \in Reply
      BY <2>2 DEF Reply
    <3> QED BY <1>2, <1>3, <2>1, <2>3, <3>1, ReplySent
  <2>4. CASE SendResponseElsewhere(msg[t].id, msg[t].seq, "TIMEOUT", 0)
    <3>1. [id |-> msg[t].id, seq |-> msg[t].seq, cc |-> "TIMEOUT", data |-> 0] \in Reply
      BY <2>2 DEF Reply
    <3> QED BY <1>2, <1>3, <2>1, <2>4, <3>1, ReplySent
  <2>5. CASE UNCHANGED replies
    BY <1>2, <2>5, SamePlaces
  <2> QED BY <1>1, <2>3, <2>4, <2>5 DEF SendFailed
<1>7. \A x \in Queued \cup InTx \cup Listed \cup Out : x.id # c0.id
  BY <1>3 DEF Identity, Stages
<1>8. \A c \in Due : c.id # c0.id
  <2>1. \A c \in Due : FrameOf(c) \in Out /\ FrameOf(c).id = c.id
    BY CoreFields DEF Identity, Stages
  <2> QED BY <1>7, <2>1
<1>9. Stages'
  BY <1>4, <1>5, <1>6, <1>7, <1>8 DEF Identity, Stages, ListShrinks
<1>10. /\ Numbered' \subseteq Numbered /\ Out' \subseteq Frames
       /\ seq_table' \subseteq 1 .. current_seq
       /\ Answered' \subseteq Answered \cup {c.id : c \in Waiting \cup Numbered}
  BY <1>3, <1>4, <1>5, <1>6 DEF Numbered, Frames, ListShrinks, Identity, InRange
<1> QED BY <1>2, <1>4, <1>5, <1>6, <1>9, <1>10, Moves DEF ListShrinks

\* The TX task takes a message.
LEMMA TxGetIdentity == ASSUME TransportInv, Identity, TxGet PROVE Identity'
<1> DEFINE m == Head(txqueue)
<1>1. /\ UNCHANGED seqvars /\ UNCHANGED threads /\ UNCHANGED rxvars
      /\ device' = device /\ reqs' = reqs /\ replies' = replies
      /\ txqueue # << >> /\ txqueue' = Tail(txqueue) /\ tx_pc = "get"
  BY DEF TxGet, outside
<1>2. /\ DistinctQueue' /\ Queued' \subseteq Queued /\ m \in Msg
      /\ m.kind = "req" => Core(m) \in Queued /\ \A c \in Queued' : c.id # Core(m).id
  BY <1>1, QueueGet, CoreFields
<1>3. InTx' = {} \/ (InTx' = {Core(m)} /\ m.kind = "req" /\ ~Written')
  BY <1>1 DEF TxGet, txvars, InTx, Written
<1>4. /\ Waiting' = Waiting /\ Puts' = Puts /\ DistinctCalls'
      /\ ListShrinks /\ current_seq' = current_seq /\ Due' = Due /\ Matched' /\ Out' = Out
      /\ Answered' = Answered /\ AtMostOneReply' /\ ReplyAnswersItsRequest'
  BY <1>1, SamePlaces
<1> HIDE DEF m
<1>5. Stages'
  BY <1>2, <1>3, <1>4 DEF Identity, Stages, ListShrinks
<1>6. Numbered' \subseteq Numbered /\ Out' \subseteq Frames /\ seq_table' \subseteq 1 .. current_seq
  BY <1>2, <1>3, <1>4 DEF Numbered, Frames, ListShrinks, Identity, InRange
<1> QED BY <1>1, <1>2, <1>4, <1>5, <1>6, Moves DEF ListShrinks

\* It records the request ...
LEMMA TxInsertIdentity == ASSUME TransportInv, Identity, TxInsert PROVE Identity'
<1> DEFINE r == [cmd |-> tx_msg.cmd, seq |-> tx_msg.seq,
                 seq_source |-> tx_msg.seq_source, InF_source |-> tx_msg.InF_source,
                 id |-> tx_msg.id, timestamp |-> "fresh"]
<1>1. CASE InsertReqFails
  BY <1>1, TxDropIdentity
<1>2. CASE InsertReq(r)
  <2>1. /\ UNCHANGED threads /\ UNCHANGED rxvars /\ txqueue' = txqueue
        /\ device' = device /\ reqs' = reqs /\ replies' = replies
        /\ tx_pc = "insert" /\ tx_pc' = "write" /\ tx_msg' = tx_msg
    BY DEF TxInsert, outside, queues
  <2>2. r \in ReqRecord /\ Core(r) = Core(tx_msg) /\ r.id = tx_msg.id /\ r.seq = tx_msg.seq
    BY DEF TransportInv, TxOK, Msg, ReqRecord, Age, Core
  <2>3. InTx = {Core(tx_msg)} /\ InTx' = InTx /\ Written' /\ ~Written
    BY <2>1 DEF TransportInv, TxOK, InTx, Written
  <2>4. \A x \in Listed : x.id # r.id
    BY <2>2, <2>3, CoreFields DEF Identity, Stages
  <2> HIDE DEF r
  <2>5. /\ Listed' \subseteq Listed \cup InTx /\ DistinctRing' /\ Reserved'
        /\ seq_table' = seq_table \cup {tx_msg.seq} /\ current_seq' = current_seq
    BY <1>2, <2>2, <2>3, <2>4, InsertGrows
  <2>6. /\ Waiting' = Waiting /\ Puts' = Puts /\ DistinctCalls' /\ Queued' = Queued
        /\ DistinctQueue' /\ Due' = Due /\ Matched' /\ Out' = Out
        /\ Answered' = Answered /\ AtMostOneReply' /\ ReplyAnswersItsRequest'
    BY <2>1, SamePlaces
  <2>7. \A c \in Due : FrameOf(c) \in Out /\ FrameOf(c).id = c.id
    BY CoreFields DEF Identity, Stages
  <2>8. Stages'
    BY <2>3, <2>5, <2>6, <2>7 DEF Identity, Stages
  <2>9. Numbered' \subseteq Numbered /\ Out' \subseteq Frames
    BY <2>3, <2>5, <2>6 DEF Numbered, Frames
  <2>10. seq_table' \subseteq 1 .. current_seq
    <3>1. FrameOf(Core(tx_msg)) \in Frames /\ FrameOf(Core(tx_msg)).seq = tx_msg.seq
      BY <2>3, CoreFields DEF Frames, Numbered
    <3> QED BY <2>5, <3>1 DEF Identity, InRange
  <2> QED BY <2>1, <2>5, <2>6, <2>8, <2>9, <2>10, Moves
<1> QED BY <1>1, <1>2 DEF TxInsert

\* ... and writes it.
LEMMA TxWriteIdentity == ASSUME TransportInv, Identity, TxWriteOk PROVE Identity'
<1>1. /\ UNCHANGED seqvars /\ UNCHANGED threads /\ UNCHANGED rxvars /\ txqueue' = txqueue
      /\ reqs' = reqs /\ replies' = replies
  BY DEF TxWriteOk, queues
<1>2. InTx' = {}
  BY DEF TxWriteOk, TxCleanup, InTx
<1>3. Out' \subseteq Out \cup {FrameOf(c) : c \in InTx}
  <2>1. CASE tx_msg.kind = "req"
    <3>1. InTx = {Core(tx_msg)} /\ FrameOf(Core(tx_msg)) = FrameOf(tx_msg)
      BY <2>1, CoreFields DEF TxWriteOk, InTx
    <3>2. device' = device \cup {FrameOf(tx_msg)}
      BY <2>1 DEF TxWriteOk, FrameOf
    <3> QED BY <1>1, <3>1, <3>2 DEF Out, rxvars
  <2>2. CASE tx_msg.kind # "req"
    BY <1>1, <2>2 DEF TxWriteOk, Out, rxvars
  <2> QED BY <2>1, <2>2
<1>4. Out \subseteq Out'
  BY <1>1 DEF TxWriteOk, Out, rxvars
<1>5. /\ Waiting' = Waiting /\ Puts' = Puts /\ DistinctCalls' /\ Queued' = Queued
      /\ DistinctQueue' /\ ListShrinks /\ current_seq' = current_seq /\ Due' = Due /\ Matched'
      /\ Answered' = Answered /\ AtMostOneReply' /\ ReplyAnswersItsRequest'
  BY <1>1, SamePlaces
<1>6. \A f \in Out' : f \in Out \/ \E c \in InTx : f.id = c.id
  BY <1>3, CoreFields
<1>7. Stages'
  BY <1>2, <1>4, <1>5, <1>6 DEF Identity, Stages, ListShrinks
<1>8. Numbered' \subseteq Numbered /\ Out' \subseteq Frames /\ seq_table' \subseteq 1 .. current_seq
  BY <1>2, <1>3, <1>5 DEF Numbered, Frames, ListShrinks, Identity, InRange
<1> QED BY <1>1, <1>5, <1>7, <1>8, Moves DEF ListShrinks

\* A sequence number tells the request, and so the number it has on its bus.
LEMMA SameRequest ==
  ASSUME Identity, NEW c \in Numbered, NEW d \in Numbered \cup Out, c.seq = d.seq
  PROVE  c.id = d.id /\ FrameOf(c) = FrameOf(d) /\ (d \in Numbered => c.seq_source = d.seq_source)
<1>1. FrameOf(c) \in Frames /\ FrameOf(c).seq = c.seq /\ FrameOf(c).id = c.id
  BY CoreFields DEF Frames
<1>2. \E f \in Frames : f.seq = d.seq /\ f.id = d.id /\ FrameOf(d) = FrameOf(f)
  <2>1. CASE d \in Numbered
    <3>1. FrameOf(d) \in Frames
      BY <2>1 DEF Frames
    <3>2. FrameOf(FrameOf(d)) = FrameOf(d)
      BY DEF FrameOf
    <3> QED BY <3>1, <3>2, CoreFields
  <2>2. CASE d \in Out
    BY <2>2 DEF Frames
  <2> QED BY <2>1, <2>2
<1>3. PICK f \in Frames : f.seq = d.seq /\ f.id = d.id /\ FrameOf(d) = FrameOf(f)
  BY <1>2
<1>4. FrameOf(c) = f
  BY <1>1, <1>3 DEF Identity, Agree
<1>5. FrameOf(FrameOf(c)) = FrameOf(c)
  BY DEF FrameOf
<1>6. c.id = d.id
  BY <1>1, <1>3, <1>4
<1>7. d \in Numbered => c.seq_source = d.seq_source
  BY <1>6 DEF Identity, Genuine
<1> QED BY <1>3, <1>4, <1>5, <1>6, <1>7

\* A write that failed: the record is taken off the list again.
LEMMA TxFailedIdentity == ASSUME TransportInv, Identity, TxFailed PROVE Identity'
<1>1. /\ UNCHANGED threads /\ UNCHANGED rxvars /\ txqueue' = txqueue /\ tx_pc = "failed"
      /\ device' = device /\ reqs' = reqs /\ replies' = replies /\ tx_msg \in Msg
      /\ tx_pc' \in {"giveup", "requeue"}
  BY DEF TxFailed, outside, queues, TransportInv, TxOK
<1>2. /\ Waiting' = Waiting /\ Puts' = Puts /\ DistinctCalls' /\ Queued' = Queued
      /\ DistinctQueue' /\ Due' = Due /\ Matched' /\ Out' = Out
      /\ Answered' = Answered /\ AtMostOneReply' /\ ReplyAnswersItsRequest'
  BY <1>1, SamePlaces
<1>3. /\ ListShrinks /\ current_seq' = current_seq /\ InTx' \subseteq InTx
      /\ \A c \in InTx' : \A x \in Listed' : c.id # x.id
  <2>1. CASE tx_msg.kind = "resp"
    <3>1. UNCHANGED seqvars /\ tx_msg'.kind = "resp"
      BY <1>1, <2>1 DEF TxFailed, Msg
    <3>2. InTx' = {}
      BY <3>1 DEF InTx
    <3> QED BY <3>1, <3>2, SamePlaces
  <2>2. CASE tx_msg.kind = "req"
    <3>1. InTx = {Core(tx_msg)} /\ Core(tx_msg) \in Numbered
      BY <1>1, <2>2 DEF InTx, Numbered
    <3>2. CASE MissReq(tx_msg.cmd, tx_msg.seq) /\ tx_msg' = [tx_msg EXCEPT !.retries = @ + 1]
      <4>1. InTx' = InTx
        BY <1>1, <3>2 DEF InTx, Msg, Core
      <4>2. ListShrinks /\ current_seq' = current_seq
        BY <3>2, MissShrinks
      <4>3. ASSUME NEW x \in Listed, x.id = tx_msg.id PROVE FALSE
        <5>1. PICK i \in 1 .. Len(ring) : x = Core(ring[i])
          BY DEF Listed
        <5>2. FrameOf(x) \in Frames /\ FrameOf(Core(tx_msg)) \in Frames
          BY <3>1 DEF Numbered, Frames
        <5>3. FrameOf(x) = FrameOf(Core(tx_msg))
          BY <4>3, <5>2, CoreFields DEF Identity, Agree
        <5>4. ring[i].cmd = tx_msg.cmd /\ ring[i].seq = tx_msg.seq
          BY <5>1, <5>3, CoreFields
        <5> QED BY <3>2, <5>4 DEF MissReq, NoMatch, Matches
      <4> QED BY <3>1, <4>1, <4>2, <4>3, CoreFields DEF ListShrinks
    <3>3. ASSUME NEW k \in 1 .. Len(ring), TakeReq(k, tx_msg.cmd, tx_msg.seq),
                 tx_msg' = [tx_msg EXCEPT !.seq_source = ring[k].seq_source,
                                          !.InF_source = ring[k].InF_source,
                                          !.retries = @ + 1]
          PROVE  /\ ListShrinks /\ current_seq' = current_seq /\ InTx' \subseteq InTx
                 /\ \A c \in InTx' : \A x \in Listed' : c.id # x.id
      <4>1. /\ ListShrinks /\ current_seq' = current_seq
            /\ \A x \in Listed' : x.id # ring[k].id
        BY <3>3, TakeShrinks
      <4>2. Core(ring[k]) \in Numbered
        BY DEF Listed, Numbered
      <4>3. ring[k].seq = tx_msg.seq
        BY <3>3 DEF TakeReq, FirstMatch, Matches
      <4>4. ring[k].id = tx_msg.id /\ ring[k].seq_source = tx_msg.seq_source
        BY <3>1, <4>2, <4>3, SameRequest, CoreFields
      <4>5. InTx' = InTx
        BY <1>1, <3>3, <4>4 DEF InTx, Msg, Core
      <4> QED BY <3>1, <4>1, <4>4, <4>5, CoreFields
    <3> QED BY <2>2, <3>2, <3>3 DEF TxFailed
  <2> QED BY <1>1, <2>1, <2>2 DEF Msg
<1>4. Stages'
  BY <1>2, <1>3 DEF Identity, Stages, ListShrinks
<1>5. Numbered' \subseteq Numbered /\ Out' \subseteq Frames /\ seq_table' \subseteq 1 .. current_seq
  BY <1>2, <1>3 DEF Numbered, Frames, ListShrinks, Identity, InRange
<1> QED BY <1>1, <1>2, <1>3, <1>4, <1>5, Moves DEF ListShrinks

\* It is queued again, or lost because the queue is full.
LEMMA TxRequeueIdentity == ASSUME TransportInv, Identity, TxRequeue PROVE Identity'
<1>1. /\ UNCHANGED seqvars /\ UNCHANGED threads /\ UNCHANGED rxvars
      /\ device' = device /\ reqs' = reqs /\ replies' = replies
      /\ tx_pc = "requeue" /\ tx_msg \in Msg
      /\ txqueue' = txqueue \/ txqueue' = Append(txqueue, tx_msg)
  BY DEF TxRequeue, outside, TransportInv, TxOK
<1>2. InTx' = {} /\ ~Written /\ (tx_msg.kind = "req" => InTx = {Core(tx_msg)})
  BY <1>1 DEF TxRequeue, TxCleanup, InTx, Written
<1>3. tx_msg.kind = "req" => \A c \in Queued : c.id # tx_msg.id
  BY <1>2, CoreFields DEF Identity, Stages
<1>4. DistinctQueue' /\ Queued' \subseteq Queued \cup InTx
  <2>1. CASE txqueue' = txqueue
    BY <2>1, SamePlaces
  <2>2. CASE txqueue' = Append(txqueue, tx_msg)
    BY <1>1, <1>2, <1>3, <2>2, QueuePut
  <2> QED BY <1>1, <2>1, <2>2
<1>5. /\ Waiting' = Waiting /\ Puts' = Puts /\ DistinctCalls'
      /\ ListShrinks /\ current_seq' = current_seq /\ Due' = Due /\ Matched' /\ Out' = Out
      /\ Answered' = Answered /\ AtMostOneReply' /\ ReplyAnswersItsRequest'
  BY <1>1, SamePlaces
<1>6. Stages'
  BY <1>2, <1>4, <1>5 DEF Identity, Stages, ListShrinks
<1>7. Numbered' \subseteq Numbered /\ Out' \subseteq Frames /\ seq_table' \subseteq 1 .. current_seq
  BY <1>2, <1>4, <1>5 DEF Numbered, Frames, ListShrinks, Identity, InRange
<1> QED BY <1>1, <1>4, <1>5, <1>6, <1>7, Moves DEF ListShrinks

\* It has failed too often: the bus it came from may be told so.
LEMMA TxGiveUpIdentity == ASSUME TransportInv, Identity, TxGiveUp PROVE Identity'
<1>1. /\ UNCHANGED seqvars /\ UNCHANGED threads /\ UNCHANGED rxvars /\ txqueue' = txqueue
      /\ device' = device /\ reqs' = reqs
      /\ tx_pc = "giveup" /\ tx_msg \in Msg /\ tx_msg.kind = "req"
  BY DEF TxGiveUp, queues, TransportInv, TxOK
<1>2. InTx' = {} /\ ~Written /\ InTx = {Core(tx_msg)} /\ Core(tx_msg).id = tx_msg.id
  BY <1>1, CoreFields DEF TxGiveUp, TxCleanup, InTx, Written
<1>3. AtMostOneReply' /\ ReplyAnswersItsRequest' /\ Answered' \subseteq Answered \cup {tx_msg.id}
  <2>1. tx_msg.id \notin Answered
    BY <1>2 DEF Identity, Stages
  <2>2. [id |-> tx_msg.id, seq |-> tx_msg.seq, cc |-> "NODE_BUSY", data |-> 0] \in Reply
    BY <1>1, IdAssumption, LimitAssumption DEF Msg, Reply
  <2>3. CASE SendResponseElsewhere(tx_msg.id, tx_msg.seq, "NODE_BUSY", 0)
    BY <1>1, <2>1, <2>2, <2>3, ReplySent
  <2>4. CASE UNCHANGED replies
    BY <1>1, <2>4, SamePlaces
  <2> QED BY <2>3, <2>4 DEF TxGiveUp
<1>4. /\ Waiting' = Waiting /\ Puts' = Puts /\ DistinctCalls' /\ Queued' = Queued
      /\ DistinctQueue' /\ ListShrinks /\ current_seq' = current_seq
      /\ Due' = Due /\ Matched' /\ Out' = Out
  BY <1>1, SamePlaces
<1>5. \A c \in Due : c.id # tx_msg.id
  <2>1. \A c \in Due : FrameOf(c) \in Out /\ FrameOf(c).id = c.id
    BY CoreFields DEF Identity, Stages
  <2> QED BY <1>2, <2>1 DEF Identity, Stages
<1>6. Stages'
  BY <1>2, <1>3, <1>4, <1>5 DEF Identity, Stages, ListShrinks
<1>7. /\ Numbered' \subseteq Numbered /\ Out' \subseteq Frames
      /\ seq_table' \subseteq 1 .. current_seq
      /\ Answered' \subseteq Answered \cup {c.id : c \in Waiting \cup Numbered}
  BY <1>2, <1>3, <1>4 DEF Numbered, Frames, ListShrinks, Identity, InRange
<1> QED BY <1>1, <1>3, <1>4, <1>6, <1>7, Moves DEF ListShrinks

\* The record of an answer is found ...
LEMMA RxFindIdentity == ASSUME TransportInv, Identity, RxFind PROVE Identity'
<1>1. CASE MissReq(rx_msg.frame.cmd, rx_msg.frame.seq) /\ RxCleanup
  BY <1>1, RxDropIdentity
<1>2. ASSUME NEW k \in 1 .. Len(ring), TakeReq(k, rx_msg.frame.cmd, rx_msg.frame.seq),
             rx_msg' = [rx_msg EXCEPT !.record = ring[k]], rx_pc' = "deliver"
      PROVE  Identity'
  <2>1. /\ UNCHANGED threads /\ UNCHANGED txvars /\ txqueue' = txqueue
        /\ device' = device /\ reqs' = reqs /\ replies' = replies /\ rx_pc = "find"
    BY DEF RxFind, outside, queues
  <2>2. /\ ListShrinks /\ current_seq' = current_seq
        /\ \A x \in Listed' : x.id # ring[k].id
    BY <1>2, TakeShrinks
  <2>3. rx_msg'.frame = rx_msg.frame /\ rx_msg'.record = ring[k]
    BY <1>2 DEF TransportInv, RxOK
  <2>4. Due' = {Core(ring[k])} /\ Out' = Out /\ rx_msg.frame \in Out
    BY <1>2, <2>1, <2>3 DEF Due, Out, Core
  <2>5. Core(ring[k]) \in Listed /\ Core(ring[k]) \in Numbered
    BY DEF Listed, Numbered
  <2>6. FrameOf(Core(ring[k])) \in Out /\ Matched'
    <3>1. Core(ring[k]).seq = rx_msg.frame.seq
      BY <1>2, CoreFields DEF TakeReq, FirstMatch, Matches
    <3>2. FrameOf(Core(ring[k])) = FrameOf(rx_msg.frame)
      BY <2>4, <2>5, <3>1, SameRequest
    <3>3. FrameOf(rx_msg.frame) = rx_msg.frame
      BY DEF TransportInv, RxOK, Frame, FrameOf
    <3>4. rx_msg.frame.id = ring[k].id
      BY <3>2, CoreFields
    <3> QED BY <2>3, <2>4, <3>2, <3>3, <3>4 DEF Matched
  <2>7. /\ Waiting' = Waiting /\ Puts' = Puts /\ DistinctCalls' /\ Queued' = Queued
        /\ DistinctQueue' /\ InTx' = InTx /\ Written' = Written
        /\ Answered' = Answered /\ AtMostOneReply' /\ ReplyAnswersItsRequest'
    BY <2>1, SamePlaces
  <2>8. Core(ring[k]).id = ring[k].id
    BY CoreFields
  <2>9. Stages'
    BY <2>2, <2>4, <2>5, <2>6, <2>7, <2>8 DEF Identity, Stages, ListShrinks
  <2>10. /\ Numbered' \subseteq Numbered /\ Out' \subseteq Frames
         /\ seq_table' \subseteq 1 .. current_seq
    BY <2>2, <2>4, <2>5, <2>7 DEF Numbered, Frames, ListShrinks, Identity, InRange
  <2> QED BY <2>1, <2>2, <2>6, <2>7, <2>9, <2>10, Moves DEF ListShrinks
<1> QED BY <1>1, <1>2 DEF RxFind

\* ... and the answer is passed on.
LEMMA RxDeliverIdentity == ASSUME TransportInv, Identity, RxDeliver PROVE Identity'
<1> DEFINE c0 == Core(rx_msg.record)
<1>1. /\ UNCHANGED seqvars /\ UNCHANGED threads /\ UNCHANGED txvars /\ txqueue' = txqueue
      /\ device' = device /\ reqs' = reqs /\ rx_pc = "deliver" /\ RxCleanup
      /\ rx_msg.record \in ReqRecord /\ rx_msg.frame \in Frame
  BY DEF RxDeliver, TransportInv, RxOK
<1>2. Due' = {} /\ Matched' /\ Out' \subseteq Out /\ Due = {c0}
  BY <1>1 DEF RxCleanup, Due, Out, Matched
<1>3. /\ c0.id = rx_msg.record.id /\ c0.seq = rx_msg.record.seq
      /\ c0.seq_source = rx_msg.record.seq_source
  BY CoreFields
<1> HIDE DEF c0
<1>4. c0 \in Numbered /\ FrameOf(c0) \in Out /\ c0.id \notin Answered
  BY <1>2 DEF Numbered, Identity, Stages
<1>5. AtMostOneReply' /\ ReplyAnswersItsRequest' /\ Answered' \subseteq Answered \cup {c0.id}
  <2>1. CASE UNCHANGED replies
    BY <1>1, <2>1, SamePlaces
  <2>2. CASE SendResponseElsewhere(rx_msg.record.id, rx_msg.record.seq_source, "OK",
                                   rx_msg.frame.id)
    <3>1. rx_msg.frame.id = rx_msg.record.id
      BY <1>1 DEF Identity, Matched
    <3>2. rx_msg.record.seq_source = reqs[rx_msg.record.id].seq_source
      BY <1>3, <1>4 DEF Identity, Genuine
    <3>3. [id |-> rx_msg.record.id, seq |-> rx_msg.record.seq_source, cc |-> "OK",
           data |-> rx_msg.frame.id] \in Reply
      BY <1>1 DEF ReqRecord, Frame, Reply
    <3> QED BY <1>1, <1>3, <1>4, <2>2, <3>1, <3>2, <3>3, ReplySent
  <2> QED BY <2>1, <2>2 DEF RxDeliver
<1>6. /\ Waiting' = Waiting /\ Puts' = Puts /\ DistinctCalls' /\ Queued' = Queued
      /\ DistinctQueue' /\ InTx' = InTx /\ Written' = Written
      /\ ListShrinks /\ current_seq' = current_seq
  BY <1>1, SamePlaces
<1>7. Stages'
  <2>1. FrameOf(c0).id = c0.id
    BY CoreFields
  <2>2. \A x \in Waiting \cup Puts \cup Queued \cup InTx : x.id # c0.id
    BY <1>4, <2>1 DEF Identity, Stages
  <2>3. \A x \in Listed : x.id # c0.id
    BY <1>2 DEF Identity, Stages
  <2> QED BY <1>2, <1>5, <1>6, <2>2, <2>3 DEF Identity, Stages, ListShrinks
<1>8. /\ Numbered' \subseteq Numbered /\ Out' \subseteq Frames
      /\ seq_table' \subseteq 1 .. current_seq
      /\ Answered' \subseteq Answered \cup {c.id : c \in Waiting \cup Numbered}
  BY <1>2, <1>4, <1>5, <1>6 DEF Numbered, Frames, ListShrinks, Identity, InRange
<1> QED BY <1>1, <1>2, <1>5, <1>6, <1>7, <1>8, Moves DEF ListShrinks

\* A new request: its id is new, and it waits for a sequence number.
LEMMA StartIdentity ==
  ASSUME TransportInv, Identity, NEW t \in Callers,
         (ReadStart(t) /\ t \in Readers) \/ (BridgeStart(t) /\ t \in Bridges)
  PROVE  Identity'
<1>1. PICK src, cmd, s : NewRequest(t, src, cmd, s)
  BY DEF ReadStart, BridgeStart
<1>2. /\ UNCHANGED seqvars /\ UNCHANGED txvars /\ UNCHANGED rxvars /\ txqueue' = txqueue
      /\ device' = device /\ replies' = replies /\ ~Sending(t)
  BY DEF ReadStart, BridgeStart, queues, Sending
<1> DEFINE n == Len(reqs)
           new == Core(msg'[t])
<1>3. reqs' \in Seq([InF_source : Source, seq_source : SeqNo])
  BY StartTypes DEF TransportInv, HistoryOK
<1>4. /\ n \in Nat /\ Len(reqs') = n + 1
      /\ \A i \in 1 .. n : reqs'[i] = reqs[i]
      /\ reqs'[n + 1].seq_source = s
  <2>1. PICK q : q = [InF_source |-> src, seq_source |-> s]
    OBVIOUS
  <2>2. reqs \in Seq([InF_source : Source, seq_source : SeqNo]) /\ reqs' = Append(reqs, q)
    BY <1>1, <2>1 DEF NewRequest, TransportInv, HistoryOK
  <2>3. /\ n \in Nat /\ Len(reqs') = n + 1
        /\ \A i \in 1 .. n : reqs'[i] = reqs[i]
        /\ reqs'[n + 1] = q
    BY <1>3, <2>2, LenProperties
  <2> QED BY <2>1, <2>3
<1>5. /\ pc'[t] = "send" /\ \A u \in Callers \ {t} : pc'[u] = pc[u] /\ msg'[u] = msg[u]
      /\ msg'[t].id = n + 1 /\ msg'[t].seq_source = s
  BY <1>1 DEF NewRequest, TransportInv, ThreadsOK
<1>6. new.id = n + 1 /\ new.seq_source = s
  BY <1>5, CoreFields
<1>7. /\ Waiting' \subseteq Waiting \cup {new} /\ Puts' \subseteq Puts
  BY <1>5 DEF Waiting, Puts, Core
<1>8. /\ Queued' = Queued /\ DistinctQueue' /\ InTx' = InTx /\ Written' = Written
      /\ ListShrinks /\ current_seq' = current_seq /\ Due' = Due /\ Matched' /\ Out' = Out
  BY <1>2, SamePlaces
<1>9. Answered' = Answered /\ AtMostOneReply'
  BY <1>2 DEF Answered, AtMostOneReply, Identity
<1> HIDE DEF n, new
<1>10. /\ \A x \in Waiting \cup Numbered \cup Out : x.id \in 1 .. n
       /\ Answered \subseteq 1 .. n
       /\ n + 1 \notin 1 .. n
  BY <1>4 DEF n, Identity, InRange
<1>11. Stages'
  <2>1. Queued \cup InTx \cup Listed \subseteq Numbered
    BY DEF Numbered
  <2>2. /\ \A x \in Queued \cup InTx \cup Listed \cup Out : new.id # x.id
        /\ new.id \notin Answered
    BY <1>6, <1>10, <2>1
  <2> QED BY <1>7, <1>8, <1>9, <2>2 DEF Identity, Stages, ListShrinks
<1>12. Frames' \subseteq Frames /\ Numbered' \subseteq Numbered
  <2>1. Numbered' \subseteq Numbered
    BY <1>7, <1>8 DEF Numbered, ListShrinks
  <2>2. Frames' = {FrameOf(c) : c \in Numbered'} \cup Out'
    BY DEF Frames, FrameOf
  <2>3. Frames = {FrameOf(c) : c \in Numbered} \cup Out
    BY DEF Frames
  <2> QED BY <1>8, <2>1, <2>2, <2>3
<1>13. Agree'
  BY <1>12, Zenon DEF Identity, Agree
<1>14. InRange'
  <2>1. \A f \in Frames' : f.seq \in 1 .. current_seq'
    BY <1>8, <1>12 DEF Identity, InRange
  <2>2. 1 .. n \subseteq 1 .. n + 1 /\ n + 1 \in 1 .. n + 1
    BY <1>4
  <2>3. \A x \in Waiting' \cup Numbered' \cup Out' : x.id \in 1 .. Len(reqs')
    BY <1>4, <1>6, <1>7, <1>8, <1>10, <1>12, <2>2
  <2>4. Answered' \subseteq 1 .. Len(reqs')
    BY <1>4, <1>9, <1>10, <2>2
  <2>5. seq_table' \subseteq 1 .. current_seq'
    BY <1>8 DEF ListShrinks, Identity, InRange
  <2> QED BY <2>1, <2>3, <2>4, <2>5 DEF InRange
<1>15. Genuine'
  <2>1. \A c \in Waiting \cup Numbered : c.seq_source = reqs'[c.id].seq_source
    BY <1>4, <1>10 DEF Identity, Genuine
  <2>2. new.seq_source = reqs'[new.id].seq_source
    BY <1>4, <1>6
  <2> QED BY <1>7, <1>12, <2>1, <2>2 DEF Genuine
<1>16. Counted'
  <2> DEFINE A == (1 .. n) \ {c.id : c \in Waiting}
             B == (1 .. n + 1) \ {c.id : c \in Waiting'}
  <2>1. A \subseteq B /\ B \subseteq 1 .. n + 1
    <3>1. \A i \in 1 .. n : i \in 1 .. n + 1 /\ i # n + 1
      BY <1>4
    <3> QED BY <1>6, <1>7, <3>1
  <2>2. IsFiniteSet(1 .. n + 1)
    <3>1. 1 \in Int /\ n + 1 \in Int
      BY <1>4
    <3> QED BY <3>1, FS_Interval
  <2> HIDE DEF A, B
  <2>3. IsFiniteSet(A) /\ IsFiniteSet(B) /\ Cardinality(A) <= Cardinality(B)
    BY <2>1, <2>2, FS_Subset
  <2>4. Cardinality(A) \in Nat /\ Cardinality(B) \in Nat /\ current_seq \in Int
    BY <2>3, FS_CardinalityType DEF TransportInv, SeqInv, SeqTypeOK, SeqNo
  <2>5. current_seq <= Cardinality(A)
    BY DEF A, n, Identity, Counted
  <2>6. current_seq' <= Cardinality(B)
    BY <1>8, <2>3, <2>4, <2>5
  <2> QED BY <1>4, <2>6 DEF B, Counted
<1>17. DistinctCalls'
  <2>1. \A u \in Callers \ {t} : Sending(u)' => Sending(u) /\ msg'[u].id \in 1 .. n
    <3> SUFFICES ASSUME NEW u \in Callers \ {t}, Sending(u)'
                 PROVE  Sending(u) /\ msg'[u].id \in 1 .. n
      OBVIOUS
    <3>1. Sending(u) /\ msg'[u] = msg[u]
      BY <1>5 DEF Sending
    <3>2. Core(msg[u]) \in Waiting \cup Puts
      BY <3>1 DEF Sending, Waiting, Puts
    <3> QED BY <1>10, <3>1, <3>2, CoreFields DEF Numbered
  <2> SUFFICES ASSUME NEW u \in Callers, NEW v \in Callers, Sending(u)', Sending(v)',
                      msg'[u].id = msg'[v].id
               PROVE  u = v
    BY DEF DistinctCalls
  <2>2. CASE u = t \/ v = t
    BY <1>5, <1>10, <2>1, <2>2
  <2>3. CASE u # t /\ v # t
    BY <1>5, <2>1, <2>3 DEF Identity, DistinctCalls
  <2> QED BY <2>2, <2>3
<1>18. ReplyAnswersItsRequest'
  <2>1. \A i \in 1 .. Len(replies) : replies[i].id \in 1 .. n
    BY <1>10 DEF Answered
  <2> QED BY <1>2, <1>4, <2>1 DEF Identity, ReplyAnswersItsRequest
<1> QED BY <1>8, <1>9, <1>11, <1>13, <1>14, <1>15, <1>16, <1>17, <1>18, Zenon
        DEF Identity, ListShrinks

\* get_free_seq gives a request the number after the last one.
LEMMA SendLockIdentity ==
  ASSUME TransportInv, Identity, Unwrapped, NEW t \in Callers, SendLock(t)
  PROVE  Identity'
<1>1. PICK s \in SeqNo : GetFreeSeq(s) /\ msg' = [msg EXCEPT ![t].seq = s]
  BY DEF SendLock
<1>2. /\ UNCHANGED txvars /\ UNCHANGED rxvars /\ txqueue' = txqueue
      /\ device' = device /\ replies' = replies /\ reqs' = reqs
      /\ pc[t] = "send" /\ pc'[t] = "put"
      /\ \A u \in Callers \ {t} : pc'[u] = pc[u] /\ msg'[u] = msg[u]
  BY <1>1 DEF SendLock, queues, outside, TransportInv, ThreadsOK
<1>3. /\ msg'[t].id = msg[t].id /\ msg'[t].seq_source = msg[t].seq_source /\ msg'[t].seq = s
  BY <1>1 DEF TransportInv, ThreadsOK, Msg
<1> DEFINE n == Len(reqs)
           old == Core(msg[t])
           new == Core(msg'[t])
<1>4. /\ old.id = msg[t].id /\ new.id = old.id /\ new.seq = s /\ new.seq_source = old.seq_source
      /\ old \in Waiting
  BY <1>2, <1>3, CoreFields DEF Waiting
<1>5. Waiting' \subseteq Waiting /\ Puts' \subseteq Puts \cup {new}
  BY <1>2 DEF Waiting, Puts, Core
<1>6. \A c \in Waiting' \cup Puts : c.id # old.id
  <2> SUFFICES ASSUME NEW c \in Waiting' \cup Puts PROVE c.id # old.id
    OBVIOUS
  <2>1. PICK u \in Callers : u # t /\ Sending(u) /\ c = Core(msg[u])
    BY <1>2 DEF Waiting, Puts, Sending, Core
  <2> QED BY <1>2, <1>4, <2>1, CoreFields DEF Identity, DistinctCalls, Sending
<1>7. /\ Queued' = Queued /\ DistinctQueue' /\ InTx' = InTx /\ Written' = Written
      /\ Due' = Due /\ Matched' /\ Out' = Out
      /\ Answered' = Answered /\ AtMostOneReply' /\ ReplyAnswersItsRequest'
  BY <1>2, SamePlaces
<1>8. ListShrinks /\ Listed' = Listed /\ seq_table' = seq_table /\ current_seq' = s
  BY <1>1 DEF GetFreeSeq, Identity, ListShrinks, Listed, DistinctRing, Reserved
<1> HIDE DEF n, old, new
<1>9. n \in Nat /\ n < SEQ_NUM /\ old.id \in 1 .. n /\ current_seq \in 0 .. SEQ_NUM - 1
  BY <1>4, LenProperties
  DEF n, Unwrapped, Identity, InRange, TransportInv, HistoryOK, SeqInv, SeqTypeOK, SeqNo
<1> DEFINE A == (1 .. n) \ {c.id : c \in Waiting}
           B == (1 .. n) \ {c.id : c \in Waiting'}
<1>10. /\ IsFiniteSet(A) /\ IsFiniteSet(B) /\ Cardinality(A) \in Nat /\ Cardinality(B) \in Nat
       /\ Cardinality(A) + 1 <= Cardinality(B) /\ Cardinality(B) <= n
  <2>1. A \cup {old.id} \subseteq B /\ B \subseteq 1 .. n /\ old.id \notin A
    BY <1>4, <1>5, <1>6, <1>9
  <2>2. IsFiniteSet(1 .. n) /\ Cardinality(1 .. n) = n
    BY <1>9, FS_Interval
  <2> HIDE DEF A, B
  <2>3. IsFiniteSet(B) /\ Cardinality(B) <= n
    BY <2>1, <2>2, FS_Subset
  <2>4. IsFiniteSet(A \cup {old.id}) /\ Cardinality(A \cup {old.id}) <= Cardinality(B)
    BY <2>1, <2>3, FS_Subset
  <2>5. IsFiniteSet(A)
    <3>1. A \subseteq A \cup {old.id}
      OBVIOUS
    <3> QED BY <2>4, <3>1, FS_Subset
  <2>6. Cardinality(A \cup {old.id}) = Cardinality(A) + 1
    BY <2>1, <2>5, FS_AddElement
  <2> QED BY <2>3, <2>4, <2>5, <2>6, FS_CardinalityType
<1>11. current_seq <= Cardinality(A)
  BY DEF A, n, Identity, Counted
<1> HIDE DEF A, B
<1>12. current_seq + 1 <= Cardinality(B) /\ current_seq + 1 \in 1 .. SEQ_NUM - 1
  BY <1>9, <1>10, <1>11, SeqNumAssumption
<1>13. s = current_seq + 1
  <2>1. PICK tries \in 1 .. SEQ_NUM :
          /\ s = (current_seq + tries) % SEQ_NUM
          /\ \A j \in 1 .. tries - 1 : (current_seq + j) % SEQ_NUM \in seq_table
    BY <1>1 DEF GetFreeSeq
  <2>2. (current_seq + 1) % SEQ_NUM = current_seq + 1
    BY <1>9, <1>12, SeqNumAssumption
  <2>3. current_seq + 1 \notin seq_table
    BY <1>9 DEF Identity, InRange
  <2>4. tries = 1
    <3>1. CASE tries # 1
      <4>1. 1 \in 1 .. tries - 1
        BY <3>1, SeqNumAssumption
      <4> QED BY <2>1, <2>2, <2>3, <4>1
    <3> QED BY <3>1
  <2> QED BY <2>1, <2>2, <2>4
<1>14. Numbered' \subseteq Numbered \cup {new}
  BY <1>5, <1>7, <1>8 DEF Numbered
<1>15. Frames' \subseteq Frames \cup {FrameOf(new)}
  <2>1. Frames' = {FrameOf(c) : c \in Numbered'} \cup Out'
    BY DEF Frames, FrameOf
  <2>2. Frames = {FrameOf(c) : c \in Numbered} \cup Out
    BY DEF Frames
  <2> QED BY <1>7, <1>14, <2>1, <2>2
<1>16. \A f \in Frames : f.seq \in 1 .. current_seq /\ f.id # old.id
  <2>1. \A f \in Frames : f.seq \in 1 .. current_seq
    BY DEF Identity, InRange
  <2>2. \A x \in Queued \cup InTx \cup Listed \cup Out : x.id # old.id
    BY <1>4 DEF Identity, Stages
  <2>3. \A c \in Due : c.id # old.id
    <3>1. \A c \in Due : FrameOf(c) \in Out /\ FrameOf(c).id = c.id
      BY CoreFields DEF Identity, Stages
    <3> QED BY <2>2, <3>1
  <2>4. \A c \in Numbered : FrameOf(c).id # old.id
    BY <1>6, <2>2, <2>3, CoreFields DEF Numbered
  <2> QED BY <2>1, <2>2, <2>4 DEF Frames
<1>17. FrameOf(new).seq = s /\ FrameOf(new).id = old.id
  BY <1>4, CoreFields
<1>18. Agree'
  <2> SUFFICES ASSUME NEW f \in Frames', NEW g \in Frames', f.seq = g.seq \/ f.id = g.id
               PROVE  f = g
    BY DEF Agree
  <2>1. CASE f \in Frames /\ g \in Frames
    BY <2>1 DEF Identity, Agree
  <2>2. CASE ~(f \in Frames /\ g \in Frames)
    <3>1. s \notin 1 .. current_seq
      BY <1>9, <1>13
    <3> QED BY <1>15, <1>16, <1>17, <2>2, <3>1
  <2> QED BY <2>1, <2>2
<1>19. InRange'
  <2>1. 1 .. current_seq \subseteq 1 .. s /\ s \in 1 .. s
    BY <1>9, <1>13
  <2>2. \A f \in Frames' : f.seq \in 1 .. current_seq'
    BY <1>8, <1>15, <1>16, <1>17, <2>1
  <2>3. \A x \in Waiting' \cup Numbered' \cup Out' : x.id \in 1 .. Len(reqs')
    BY <1>2, <1>4, <1>5, <1>7, <1>9, <1>14 DEF Identity, InRange, n
  <2>4. Answered' \subseteq 1 .. Len(reqs') /\ seq_table' \subseteq 1 .. current_seq'
    BY <1>2, <1>7, <1>8, <2>1 DEF Identity, InRange
  <2> QED BY <2>2, <2>3, <2>4 DEF InRange
<1>20. Genuine'
  <2>1. \A c \in Waiting \cup Numbered : c.seq_source = reqs[c.id].seq_source
    BY DEF Identity, Genuine
  <2> QED BY <1>2, <1>4, <1>5, <1>14, <2>1 DEF Genuine
<1>21. Counted'
  BY <1>2, <1>8, <1>12, <1>13 DEF Counted, B, n
<1>22. Stages'
  <2>1. /\ \A x \in Queued \cup InTx \cup Listed \cup Out : new.id # x.id
        /\ new.id \notin Answered
    BY <1>4 DEF Identity, Stages
  <2> QED BY <1>5, <1>7, <1>8, <2>1 DEF Identity, Stages
<1>23. DistinctCalls'
  <2>1. \A u \in Callers : msg'[u].id = msg[u].id /\ (Sending(u)' => Sending(u))
    BY <1>2, <1>3 DEF Sending
  <2> SUFFICES ASSUME NEW u \in Callers, NEW v \in Callers, Sending(u)', Sending(v)',
                      msg'[u].id = msg'[v].id
               PROVE  u = v
    BY DEF DistinctCalls
  <2> QED BY <2>1 DEF Identity, DistinctCalls
<1> QED BY <1>7, <1>8, <1>18, <1>19, <1>20, <1>21, <1>22, <1>23, Zenon DEF Identity, ListShrinks

\* No request is forgotten: a state before an unwrapped one is unwrapped.
LEMMA RequestsGrow == ASSUME TransportInv, Next, Unwrapped' PROVE Unwrapped
<1>1. CASE reqs' = reqs
  BY <1>1 DEF Unwrapped
<1>2. ASSUME NEW t, NEW src, NEW cmd, NEW s, NewRequest(t, src, cmd, s) PROVE Unwrapped
  <2>1. PICK q : reqs' = Append(reqs, q)
    BY <1>2 DEF NewRequest
  <2>2. Len(reqs) \in Nat /\ Len(reqs') = Len(reqs) + 1
    BY <2>1, LenProperties DEF TransportInv, HistoryOK
  <2> QED BY <2>2, SeqNumAssumption DEF Unwrapped
<1>3. CASE \E t \in Readers : ReadStart(t)
  BY <1>2, <1>3 DEF ReadStart
<1>4. CASE \E t \in Bridges : BridgeStart(t)
  BY <1>2, <1>4 DEF BridgeStart
<1>5. CASE \E t \in Callers : CallerStep(t)
  BY <1>1, <1>5
  DEF CallerStep, SendLock, SendPut, SendLockTimeout, SendPutTimeout, SendFailed,
      ReadGet, ReadTimeout, ReadClear, outside
<1>6. CASE TxStep
  BY <1>1, <1>6
  DEF TxStep, TxGet, TxNoMemory, TxInsert, TxWriteOk, TxWriteFails, TxFailed, TxRequeue,
      TxGiveUp, outside
<1>7. CASE RxStep \/ RxResponse \/ RxBadChecksum \/ RxRequest
  BY <1>1, <1>7 DEF RxStep, RxFind, RxDeliver, RxResponse, RxBadChecksum, RxRequest, outside
<1>8. CASE SendResponse \/ SendResponseTimeout \/ Suspend \/ Sweeper
  BY <1>1, <1>8 DEF SendResponse, SendResponseTimeout, Suspend, Sweeper, outside
<1> QED BY <1>3, <1>4, <1>5, <1>6, <1>7, <1>8 DEF Next

LEMMA IdentityInit == Init => IdentityInv
<1> SUFFICES ASSUME Init PROVE Identity
  BY TransportInit DEF IdentityInv
<1>1. /\ \A t \in Callers : pc[t] = "idle"
      /\ tx_pc = "get" /\ rx_pc = "read" /\ device = {} /\ current_seq = 0 /\ seq_table = {}
      /\ Len(ring) = 0 /\ Len(txqueue) = 0 /\ Len(replies) = 0 /\ Len(reqs) = 0
  BY DEF Init, SeqInit
<1>2. /\ Waiting = {} /\ Puts = {} /\ Queued = {} /\ InTx = {} /\ Listed = {} /\ Due = {}
      /\ Out = {} /\ Answered = {}
  BY <1>1 DEF Waiting, Puts, Queued, InTx, Listed, Due, Out, Answered
<1>3. Numbered = {} /\ Frames = {}
  BY <1>2 DEF Numbered, Frames
<1>4. Stages /\ Agree /\ InRange /\ Genuine
  BY <1>1, <1>2, <1>3 DEF Stages, Agree, InRange, Genuine
<1>5. Counted
  <2>1. (1 .. Len(reqs)) \ {c.id : c \in Waiting} = {}
    BY <1>1
  <2> QED BY <1>1, <2>1, FS_EmptySet DEF Counted
<1>6. Matched /\ DistinctCalls /\ DistinctQueue /\ DistinctRing /\ Reserved
  BY <1>1 DEF Matched, DistinctCalls, Sending, DistinctQueue, DistinctRing, Reserved
<1>7. AtMostOneReply /\ ReplyAnswersItsRequest
  BY <1>1 DEF AtMostOneReply, ReplyAnswersItsRequest
<1> QED BY <1>4, <1>5, <1>6, <1>7 DEF Identity

LEMMA IdentityNext == IdentityInv /\ [Next]_vars => IdentityInv'
<1> SUFFICES ASSUME IdentityInv, [Next]_vars, Unwrapped' PROVE Identity'
  BY TransportNext DEF IdentityInv
<1>1. CASE Next
  <2> USE <1>1
  <2>1. TransportInv /\ Unwrapped /\ Identity
    BY RequestsGrow DEF IdentityInv
  <2>2. CASE \E t \in Readers : ReadStart(t)
    <3>1. PICK t \in Readers : ReadStart(t)
      BY <2>2
    <3>2. t \in Callers /\ ((ReadStart(t) /\ t \in Readers) \/ (BridgeStart(t) /\ t \in Bridges))
      BY <3>1 DEF Callers
    <3> QED BY <2>1, <3>2, StartIdentity
  <2>3. CASE \E t \in Bridges : BridgeStart(t)
    <3>1. PICK t \in Bridges : BridgeStart(t)
      BY <2>3
    <3>2. t \in Callers /\ ((ReadStart(t) /\ t \in Readers) \/ (BridgeStart(t) /\ t \in Bridges))
      BY <3>1 DEF Callers
    <3> QED BY <2>1, <3>2, StartIdentity
  <2>4. CASE \E t \in Callers : CallerStep(t)
    BY <2>1, <2>4, SendLockIdentity, SendPutIdentity, SendFailedIdentity, ReadIdentity
    DEF CallerStep
  <2>5. CASE TxStep
    BY <2>1, <2>5, TxGetIdentity, TxDropIdentity, TxInsertIdentity, TxWriteIdentity,
       TxFailedIdentity, TxRequeueIdentity, TxGiveUpIdentity
    DEF TxStep
  <2>6. CASE RxStep \/ RxResponse \/ RxBadChecksum
    BY <2>1, <2>6, RxFindIdentity, RxDeliverIdentity, RxDropIdentity DEF RxStep
  <2>7. CASE RxRequest \/ SendResponse \/ SendResponseTimeout \/ Suspend \/ Sweeper
    BY <2>1, <2>7, OtherIdentity
  <2> QED BY <2>2, <2>3, <2>4, <2>5, <2>6, <2>7 DEF Next
<1>2. CASE UNCHANGED vars
  <2>1. TransportInv /\ Identity
    BY <1>2 DEF IdentityInv, Unwrapped, vars, outside
  <2>2. /\ UNCHANGED threads /\ UNCHANGED txvars /\ UNCHANGED rxvars /\ UNCHANGED seqvars
        /\ txqueue' = txqueue /\ device' = device /\ reqs' = reqs /\ replies' = replies
    BY <1>2 DEF vars, queues, outside
  <2>3. /\ Waiting' = Waiting /\ Puts' = Puts /\ DistinctCalls' /\ Queued' = Queued
        /\ DistinctQueue' /\ InTx' = InTx /\ Written' = Written /\ ListShrinks
        /\ current_seq' = current_seq /\ Due' = Due /\ Matched' /\ Out' = Out
        /\ Answered' = Answered /\ AtMostOneReply' /\ ReplyAnswersItsRequest'
    BY <2>1, <2>2, SamePlaces
  <2>4. \A c \in Due : FrameOf(c) \in Out
    BY <2>1 DEF Identity, Stages
  <2> QED BY <2>1, <2>2, <2>3, <2>4, PlacesShrink
<1> QED BY <1>1, <1>2

\* A bridged request is answered at most once, whatever is retried, repeated,
\* late, expired or evicted, and by whichever of the three threads that answer
\* (the TX task that gives up, the RX task, the caller that could not send), as
\* long as fewer requests have been made than there are sequence numbers.
THEOREM RepliedAtMostOnce == Spec => [](Unwrapped => AtMostOneReply)
<1>1. IdentityInv => (Unwrapped => AtMostOneReply)
  BY DEF IdentityInv, Identity
<1> QED BY <1>1, IdentityInit, IdentityNext, PTL DEF Spec

\* The answer that the RX task sends back over the other bus is the answer to
\* the request it is sent for, under the number that request came with: what
\* find_req_ipmi_msg returns for a frame is the record of the frame's request.
THEOREM AnswersFindTheirRequest == Spec => [](Unwrapped => ReplyAnswersItsRequest)
<1>1. IdentityInv => (Unwrapped => ReplyAnswersItsRequest)
  BY DEF IdentityInv, Identity
<1> QED BY <1>1, IdentityInit, IdentityNext, PTL DEF Spec

----------------------------------------------------------------------------
(***************************************************************************)
(* Numbers that come round again.  No request in flight has the number of  *)
(* another or of a record, but for the one that the TX task has recorded   *)
(* and is writing: its record bears its number and its command, so that    *)
(* find_req_ipmi_msg takes it off before the request is queued again.      *)
(***************************************************************************)
SendersInTurn == \A t \in Callers : pc[t] = "put" => mutex_send_req = t

QueueApart ==
  \A i, j \in 1 .. Len(txqueue) :
    (txqueue[i].kind = "req" /\ txqueue[j].kind = "req" /\ txqueue[i].seq = txqueue[j].seq)
      => i = j

PlacesApart == InPut \cap InQueue = {} /\ InPut \cap InTask = {} /\ InQueue \cap InTask = {}

RecordsApart ==
  \A i \in 1 .. Len(ring) :
    /\ ring[i].seq \notin InPut \cup InQueue
    /\ ring[i].seq \in InTask => Written /\ ring[i].cmd = tx_msg.cmd

Numbers == SendersInTurn /\ QueueApart /\ PlacesApart /\ RecordsApart /\ OutstandingSeqsReserved

\* A step that adds no record keeps the numbers of those that are left.
ListKept ==
  /\ \A i \in 1 .. Len(ring') :
       \E j \in 1 .. Len(ring) : ring'[i].seq = ring[j].seq /\ ring'[i].cmd = ring[j].cmd
  /\ OutstandingSeqsReserved'

\* get_free_seq, when there is a free number, comes to one that is not registered.
LEMMA FreeSeqIsFree ==
  ASSUME current_seq \in SeqNo, seq_table \subseteq SeqNo, seq_table # SeqNo,
         NEW s \in SeqNo, GetFreeSeq(s)
  PROVE  s \notin seq_table
<1> SUFFICES ASSUME s \in seq_table PROVE FALSE
  OBVIOUS
<1>1. PICK tries \in 1 .. SEQ_NUM :
        /\ s = (current_seq + tries) % SEQ_NUM
        /\ \A j \in 1 .. tries - 1 : (current_seq + j) % SEQ_NUM \in seq_table
        /\ s \notin seq_table \/ tries = SEQ_NUM
  BY DEF GetFreeSeq
<1>2. \A j \in 1 .. SEQ_NUM : (current_seq + j) % SEQ_NUM \in seq_table
  BY <1>1, SeqNumAssumption
<1>3. ASSUME NEW x \in SeqNo PROVE x \in seq_table
  <2>1. CASE x > current_seq
    <3>1. x - current_seq \in 1 .. SEQ_NUM /\ current_seq + (x - current_seq) = x
      BY <2>1, SeqNumAssumption DEF SeqNo
    <3>2. x % SEQ_NUM = x
      BY SeqNumAssumption DEF SeqNo
    <3> QED BY <1>2, <3>1, <3>2
  <2>2. CASE x <= current_seq
    <3>1. /\ x - current_seq + SEQ_NUM \in 1 .. SEQ_NUM
          /\ current_seq + (x - current_seq + SEQ_NUM) = x + SEQ_NUM
      BY <2>2, SeqNumAssumption DEF SeqNo
    <3>2. (x + SEQ_NUM) % SEQ_NUM = x
      BY SeqNumAssumption DEF SeqNo
    <3> QED BY <1>2, <3>1, <3>2
  <2> QED BY <2>1, <2>2, SeqNumAssumption DEF SeqNo
<1> QED BY <1>3

LEMMA UnlinkKeeps ==
  ASSUME TransportInv, OutstandingSeqsReserved, NEW k \in 1 .. Len(ring), Unlink(k)
  PROVE  ListKept /\ \A i \in 1 .. Len(ring') : ring'[i].seq # ring[k].seq
<1> DEFINE at(i) == IF i < k THEN i ELSE i + 1
<1>1. /\ Len(ring) \in Nat /\ Len(ring') = Len(ring) - 1
      /\ \A i \in 1 .. Len(ring) - 1 : ring'[i] = IF i < k THEN ring[i] ELSE ring[i + 1]
  BY RemoveAtProperties, LenProperties DEF Unlink, TransportInv, SeqInv, SeqTypeOK
<1>2. \A i \in 1 .. Len(ring') :
        at(i) \in 1 .. Len(ring) /\ at(i) # k /\ ring'[i] = ring[at(i)]
  BY <1>1
<1>3. \A i, j \in 1 .. Len(ring') : at(i) = at(j) => i = j
  BY <1>1
<1> HIDE DEF at
<1>4. \A i \in 1 .. Len(ring') : ring'[i].seq # ring[k].seq
  BY <1>2 DEF OutstandingSeqsReserved
<1>5. \A i \in 1 .. Len(ring') : ring'[i].seq \in seq_table'
  BY <1>2, <1>4 DEF OutstandingSeqsReserved, Unlink
<1>6. \A i, j \in 1 .. Len(ring') : ring'[i].seq = ring'[j].seq => i = j
  BY <1>2, <1>3 DEF OutstandingSeqsReserved
<1> QED BY <1>2, <1>4, <1>5, <1>6 DEF ListKept, OutstandingSeqsReserved

LEMMA SameList ==
  ASSUME OutstandingSeqsReserved, ring' = ring, seq_table' = seq_table
  PROVE  ListKept
BY DEF ListKept, OutstandingSeqsReserved

LEMMA InsertFailsKeeps ==
  ASSUME TransportInv, OutstandingSeqsReserved, InsertReqFails
  PROVE  ListKept
<1>1. PICK d \in {0, 1} : /\ Len(Evicted) = Len(ring) - d
                          /\ \A i \in 1 .. Len(Evicted) : Evicted[i] = ring[i + d]
  BY EvictedList
<1>2. /\ ring' = Evicted /\ Len(Evicted) \in Nat /\ Len(ring) \in Nat
      /\ seq_table' = seq_table
  BY EvictedList, LenProperties DEF InsertReqFails, TransportInv, SeqInv, SeqTypeOK
<1>3. \A i \in 1 .. Len(ring') : i + d \in 1 .. Len(ring) /\ ring'[i] = ring[i + d]
  BY <1>1, <1>2
<1>4. \A i, j \in 1 .. Len(ring') : ring'[i].seq = ring'[j].seq => i = j
  <2> SUFFICES ASSUME NEW i \in 1 .. Len(ring'), NEW j \in 1 .. Len(ring'),
                      ring'[i].seq = ring'[j].seq
               PROVE  i = j
    OBVIOUS
  <2>1. i + d = j + d
    BY <1>3 DEF OutstandingSeqsReserved
  <2> QED BY <1>2, <2>1
<1> QED BY <1>2, <1>3, <1>4 DEF ListKept, OutstandingSeqsReserved

LEMMA SweepKeeps ==
  ASSUME TransportInv, OutstandingSeqsReserved, Sweep
  PROVE  ListKept
<1>1. CASE SweepStart
  <2>1. PICK n \in 0 .. Len(ring) :
           ring' = [i \in 1 .. Len(ring) |->
                      [ring[i] EXCEPT !.timestamp = IF i <= n THEN "expired" ELSE "aged"]]
    BY <1>1 DEF SweepStart
  <2>2. Len(ring) \in Nat /\ \A i \in 1 .. Len(ring) : ring[i] \in ReqRecord
    BY LenProperties, ElementOfSeq DEF TransportInv, SeqInv, SeqTypeOK
  <2>3. Len(ring') = Len(ring) /\ seq_table' = seq_table
    BY <1>1, <2>1, <2>2 DEF SweepStart
  <2>4. \A i \in 1 .. Len(ring) : ring'[i].seq = ring[i].seq /\ ring'[i].cmd = ring[i].cmd
    BY <2>1, <2>2 DEF ReqRecord
  <2> QED BY <2>3, <2>4 DEF ListKept, OutstandingSeqsReserved
<1>2. CASE SweepRemove
  <2>1. sweep_pos + 1 \in 1 .. Len(ring)
    BY <1>2, LenProperties DEF SweepRemove, TransportInv, SeqInv, SeqTypeOK
  <2>2. Unlink(sweep_pos + 1)
    BY <1>2 DEF SweepRemove
  <2> QED BY <2>1, <2>2, UnlinkKeeps
<1>3. CASE SweepKeep \/ SweepEnd
  BY <1>3, SameList DEF SweepKeep, SweepEnd
<1> QED BY <1>1, <1>2, <1>3 DEF Sweep

\* Find and clear, whether a record matches or not.
LEMMA TakeOrMissKeeps ==
  ASSUME TransportInv, OutstandingSeqsReserved, NEW cmd, NEW seq,
         (\E k \in 1 .. Len(ring) : TakeReq(k, cmd, seq)) \/ MissReq(cmd, seq)
  PROVE  ListKept
<1>1. ASSUME NEW k \in 1 .. Len(ring), TakeReq(k, cmd, seq) PROVE ListKept
  BY <1>1, UnlinkKeeps DEF TakeReq
<1>2. CASE MissReq(cmd, seq)
  BY <1>2, SameList DEF MissReq
<1> QED BY <1>1, <1>2

\* What a step does not touch holds the same numbers.
LEMMA SameNumbers ==
  ASSUME Numbers
  PROVE  /\ UNCHANGED <<pc, msg, mutex_send_req>> => InPut' = InPut /\ SendersInTurn'
         /\ txqueue' = txqueue => InQueue' = InQueue /\ QueueApart'
         /\ UNCHANGED txvars => InTask' = InTask /\ Written' = Written /\ tx_msg' = tx_msg
         /\ UNCHANGED seqvars => ListKept
<1>1. UNCHANGED <<pc, msg, mutex_send_req>> => InPut' = InPut /\ SendersInTurn'
  BY DEF Numbers, InPut, SendersInTurn
<1>2. txqueue' = txqueue => InQueue' = InQueue /\ QueueApart'
  BY DEF Numbers, InQueue, QueueApart
<1>3. UNCHANGED txvars => InTask' = InTask /\ Written' = Written /\ tx_msg' = tx_msg
  BY DEF txvars, InTask, Written
<1>4. UNCHANGED seqvars => ListKept
  BY SameList DEF Numbers, seqvars
<1> QED BY <1>1, <1>2, <1>3, <1>4

\* A step after which no place holds a number that it did not hold before.
LEMMA NumbersShrink ==
  ASSUME Numbers, ListKept, InPut' \subseteq InPut, InQueue' \subseteq InQueue,
         InTask' \subseteq InTask, SendersInTurn', QueueApart',
         InTask' # {} => Written' = Written /\ tx_msg'.cmd = tx_msg.cmd
  PROVE  Numbers'
<1>1. PlacesApart'
  BY DEF Numbers, PlacesApart
<1>2. RecordsApart'
  <2> SUFFICES ASSUME NEW i \in 1 .. Len(ring')
               PROVE  /\ ring'[i].seq \notin InPut' \cup InQueue'
                      /\ ring'[i].seq \in InTask' => Written' /\ ring'[i].cmd = tx_msg'.cmd
    BY DEF RecordsApart
  <2>1. PICK j \in 1 .. Len(ring) : ring'[i].seq = ring[j].seq /\ ring'[i].cmd = ring[j].cmd
    BY DEF ListKept
  <2>2. /\ ring[j].seq \notin InPut \cup InQueue
        /\ ring[j].seq \in InTask => Written /\ ring[j].cmd = tx_msg.cmd
    BY DEF Numbers, RecordsApart
  <2> QED BY <2>1, <2>2
<1> QED BY <1>1, <1>2 DEF Numbers, ListKept

\* k_msgq_put on ipmb_txqueue.
LEMMA QueuePutNumbers ==
  ASSUME TransportInv, QueueApart, NEW m \in Msg, txqueue' = Append(txqueue, m),
         m.kind = "req" => m.seq \notin InQueue
  PROVE  /\ QueueApart'
         /\ InQueue' \subseteq InQueue \cup {m.seq}
         /\ m.kind # "req" => InQueue' \subseteq InQueue
<1> DEFINE n == Len(txqueue)
<1>1. /\ n \in Nat /\ Len(txqueue') = n + 1
      /\ \A i \in 1 .. n : txqueue'[i] = txqueue[i]
      /\ txqueue'[n + 1] = m
  BY AppendProperties, LenProperties DEF TransportInv, QueuesOK
<1>2. \A i \in 1 .. Len(txqueue') : i \in 1 .. n \/ i = n + 1
  BY <1>1
<1>3. \A i \in 1 .. n : txqueue[i].kind = "req" => txqueue[i].seq \in InQueue
  BY DEF InQueue
<1>4. QueueApart'
  <2> SUFFICES ASSUME NEW i \in 1 .. Len(txqueue'), NEW j \in 1 .. Len(txqueue'),
                      txqueue'[i].kind = "req", txqueue'[j].kind = "req",
                      txqueue'[i].seq = txqueue'[j].seq
               PROVE  i = j
    BY DEF QueueApart
  <2>1. CASE i \in 1 .. n /\ j \in 1 .. n
    BY <1>1, <2>1 DEF QueueApart
  <2> HIDE DEF n
  <2>2. CASE i = n + 1 \/ j = n + 1
    BY <1>1, <1>2, <1>3, <2>2
  <2> QED BY <1>2, <2>1, <2>2
<1> HIDE DEF n
<1>5. \A i \in 1 .. Len(txqueue') : txqueue'[i].kind = "req"
        => txqueue'[i].seq \in InQueue \/ (txqueue'[i].seq = m.seq /\ m.kind = "req")
  BY <1>1, <1>2, <1>3
<1>6. InQueue' = {txqueue'[i].seq : i \in {j \in 1 .. Len(txqueue') : txqueue'[j].kind = "req"}}
  BY DEF InQueue
<1> QED BY <1>4, <1>5, <1>6

\* ipmb_send_request gets a number that nothing else has.
LEMMA SendLockNumbers ==
  ASSUME TransportInv, Numbers, NumbersInTime, NEW t \in Callers, SendLock(t)
  PROVE  Numbers'
<1>1. PICK s \in SeqNo : GetFreeSeq(s) /\ msg' = [msg EXCEPT ![t].seq = s]
  BY DEF SendLock
<1>2. /\ mutex_send_req = None /\ mutex_send_req' = t /\ t # None /\ current_seq' = s
      /\ UNCHANGED txvars /\ txqueue' = txqueue /\ ring' = ring /\ seq_table' = seq_table
      /\ pc'[t] = "put" /\ msg'[t].seq = s
      /\ \A u \in Callers \ {t} : pc'[u] = pc[u]
  BY <1>1, NoneAssumption DEF SendLock, GetFreeSeq, queues, TransportInv, ThreadsOK, Msg
<1>3. \A u \in Callers : pc[u] # "put"
  BY <1>2, NoneAssumption DEF Numbers, SendersInTurn
<1>4. s \notin seq_table /\ s \notin InFlight
  BY <1>1, <1>2, FreeSeqIsFree DEF NumbersInTime, TransportInv, SeqInv, SeqTypeOK
<1>5. InPut = {} /\ InPut' = {s}
  <2>1. InPut' = {msg'[u].seq : u \in {v \in Callers : pc'[v] = "put"}}
    BY DEF InPut
  <2>2. {v \in Callers : pc'[v] = "put"} = {t}
    BY <1>2, <1>3
  <2> QED BY <1>2, <1>3, <2>1, <2>2 DEF InPut
<1>6. SendersInTurn'
  BY <1>2, <1>3 DEF SendersInTurn
<1>7. InQueue' = InQueue /\ QueueApart' /\ InTask' = InTask /\ Written' = Written /\ tx_msg' = tx_msg
  BY <1>2, SameNumbers
<1>8. PlacesApart'
  BY <1>4, <1>5, <1>7 DEF Numbers, PlacesApart, InFlight
<1>9. RecordsApart' /\ OutstandingSeqsReserved'
  BY <1>2, <1>4, <1>5, <1>7 DEF Numbers, RecordsApart, OutstandingSeqsReserved
<1> QED BY <1>6, <1>7, <1>8, <1>9 DEF Numbers

LEMMA SendPutNumbers ==
  ASSUME TransportInv, Numbers, NEW t \in Callers, SendPut(t)
  PROVE  Numbers'
<1>1. /\ pc[t] = "put" /\ txqueue' = Append(txqueue, msg[t]) /\ msg' = msg
      /\ pc' = [pc EXCEPT ![t] = IF t \in Readers THEN "wait" ELSE "idle"]
      /\ UNCHANGED seqvars /\ UNCHANGED txvars
  BY DEF SendPut
<1>2. mutex_send_req = t /\ \A u \in Callers \ {t} : pc[u] # "put"
  BY <1>1 DEF Numbers, SendersInTurn
<1>3. \A u \in Callers : pc'[u] # "put"
  BY <1>1, <1>2 DEF TransportInv, ThreadsOK
<1>4. SendersInTurn' /\ InPut' = {}
  BY <1>3 DEF SendersInTurn, InPut
<1>5. msg[t].seq \in InPut /\ msg[t] \in Msg
  BY <1>1 DEF InPut, TransportInv, ThreadsOK
<1>6. QueueApart' /\ InQueue' \subseteq InQueue \cup {msg[t].seq}
  BY <1>1, <1>5, QueuePutNumbers DEF Numbers, PlacesApart
<1>7. InTask' = InTask /\ Written' = Written /\ tx_msg' = tx_msg /\ ListKept
  BY <1>1, SameNumbers
<1>8. PlacesApart'
  BY <1>4, <1>5, <1>6, <1>7 DEF Numbers, PlacesApart
<1>9. RecordsApart'
  BY <1>1, <1>4, <1>5, <1>6, <1>7 DEF Numbers, RecordsApart, seqvars
<1> QED BY <1>4, <1>6, <1>7, <1>8, <1>9 DEF Numbers, ListKept

\* The steps of the callers that send nothing.
LEMMA CallerNumbers ==
  ASSUME TransportInv, Numbers, NEW t \in Callers,
         \/ SendLockTimeout(t) \/ SendPutTimeout(t)
         \/ ReadGet(t) \/ ReadTimeout(t) \/ ReadClear(t)
         \/ (ReadStart(t) /\ t \in Readers) \/ (BridgeStart(t) /\ t \in Bridges)
  PROVE  Numbers'
<1>1. UNCHANGED txvars /\ txqueue' = txqueue
  BY DEF SendLockTimeout, SendPutTimeout, SendFailed, ReadGet, ReadTimeout, ReadClear,
         ReadStart, BridgeStart, queues
<1>2. ListKept
  <2>1. CASE ReadClear(t)
    BY <2>1, TakeOrMissKeeps DEF ReadClear, Numbers
  <2>2. CASE ~ReadClear(t)
    <3>1. UNCHANGED seqvars
      BY <2>2 DEF SendLockTimeout, SendPutTimeout, SendFailed, ReadGet, ReadTimeout,
                  ReadStart, BridgeStart
    <3> QED BY <3>1, SameNumbers
  <2> QED BY <2>1, <2>2
<1>3. \A u \in Callers : pc'[u] = "put" => u # t /\ pc[u] = "put" /\ msg'[u] = msg[u]
  BY DEF SendLockTimeout, SendPutTimeout, SendFailed, ReadGet, ReadTimeout, ReadClear,
         ReadStart, BridgeStart, NewRequest, TransportInv, ThreadsOK
<1>4. InPut' \subseteq InPut
  <2>1. InPut' = {msg'[u].seq : u \in {v \in Callers : pc'[v] = "put"}}
    BY DEF InPut
  <2> QED BY <1>3, <2>1 DEF InPut
<1>5. SendersInTurn'
  <2>1. CASE SendPutTimeout(t)
    <3>1. mutex_send_req = t
      BY <2>1 DEF SendPutTimeout, Numbers, SendersInTurn
    <3> QED BY <1>3, <3>1 DEF Numbers, SendersInTurn
  <2>2. CASE ~SendPutTimeout(t)
    <3>1. mutex_send_req' = mutex_send_req
      BY <2>2 DEF SendLockTimeout, ReadGet, ReadTimeout, ReadClear, ReadStart, BridgeStart
    <3> QED BY <1>3, <3>1 DEF Numbers, SendersInTurn
  <2> QED BY <2>1, <2>2
<1>6. InQueue' = InQueue /\ QueueApart' /\ InTask' = InTask /\ Written' = Written /\ tx_msg' = tx_msg
  BY <1>1, SameNumbers
<1> QED BY <1>2, <1>4, <1>5, <1>6, NumbersShrink

LEMMA TxGetNumbers == ASSUME TransportInv, Numbers, TxGet PROVE Numbers'
<1>1. /\ tx_pc = "get" /\ txqueue' = Tail(txqueue) /\ UNCHANGED threads /\ UNCHANGED seqvars
      /\ \/ UNCHANGED txvars
         \/ /\ tx_msg' = Head(txqueue)
            /\ tx_pc' = IF Head(txqueue).kind = "req" THEN "insert" ELSE "write"
  BY DEF TxGet
<1>2. /\ Head(txqueue) \in Msg /\ Len(txqueue') = Len(txqueue) - 1
      /\ \A i \in 1 .. Len(txqueue') : txqueue'[i] = txqueue[i + 1]
      /\ Len(txqueue) \in Nat \ {0} /\ Head(txqueue) = txqueue[1]
  BY HeadTailProperties, EmptySeq DEF TxGet, TransportInv, QueuesOK
<1>3. \A i \in 1 .. Len(txqueue') : i + 1 \in 1 .. Len(txqueue) /\ i + 1 # 1
  BY <1>2
<1>4. QueueApart'
  <2> SUFFICES ASSUME NEW i \in 1 .. Len(txqueue'), NEW j \in 1 .. Len(txqueue'),
                      txqueue'[i].kind = "req", txqueue'[j].kind = "req",
                      txqueue'[i].seq = txqueue'[j].seq
               PROVE  i = j
    BY DEF QueueApart
  <2>1. i + 1 = j + 1
    BY <1>2, <1>3 DEF Numbers, QueueApart
  <2> QED BY <1>2, <2>1
<1>5. InQueue' = {txqueue'[i].seq : i \in {j \in 1 .. Len(txqueue') : txqueue'[j].kind = "req"}}
  BY DEF InQueue
<1>6. \A i \in 1 .. Len(txqueue) : txqueue[i].kind = "req" => txqueue[i].seq \in InQueue
  BY DEF InQueue
<1>7. InQueue' \subseteq InQueue
  BY <1>2, <1>3, <1>5, <1>6
<1>8. Head(txqueue).kind = "req" => Head(txqueue).seq \in InQueue \ InQueue'
  <2> SUFFICES ASSUME Head(txqueue).kind = "req" PROVE Head(txqueue).seq \in InQueue \ InQueue'
    OBVIOUS
  <2>1. 1 \in 1 .. Len(txqueue)
    BY <1>2
  <2>2. \A i \in 1 .. Len(txqueue') : txqueue'[i].kind = "req" => txqueue'[i].seq # txqueue[1].seq
    BY <1>2, <1>3, <2>1 DEF Numbers, QueueApart
  <2> QED BY <1>2, <1>5, <1>6, <2>1, <2>2
<1>9. InPut' = InPut /\ SendersInTurn' /\ ListKept /\ InTask = {}
  BY <1>1, SameNumbers DEF threads, InTask
<1>10. InTask' = {} \/ (Head(txqueue).kind = "req" /\ InTask' = {Head(txqueue).seq})
  BY <1>1 DEF InTask, txvars
<1>11. PlacesApart'
  BY <1>7, <1>8, <1>9, <1>10 DEF Numbers, PlacesApart
<1>12. RecordsApart'
  BY <1>1, <1>7, <1>8, <1>9, <1>10 DEF Numbers, RecordsApart, seqvars
<1> QED BY <1>4, <1>9, <1>11, <1>12 DEF Numbers, ListKept

\* The request is recorded: the new record and the TX task have one number.
LEMMA TxInsertNumbers == ASSUME TransportInv, Numbers, TxInsert PROVE Numbers'
<1>1. /\ tx_pc = "insert" /\ tx_pc' = "write" /\ tx_msg' = tx_msg
      /\ UNCHANGED threads /\ txqueue' = txqueue
  BY DEF TxInsert, queues
<1>2. tx_msg.kind = "req" /\ InTask = {tx_msg.seq} /\ InTask' = {tx_msg.seq} /\ Written' /\ ~Written
  BY <1>1 DEF TransportInv, TxOK, InTask, Written
<1>3. InPut' = InPut /\ SendersInTurn' /\ InQueue' = InQueue /\ QueueApart'
  BY <1>1, SameNumbers DEF threads
<1>4. \A i \in 1 .. Len(ring) : ring[i].seq # tx_msg.seq
  BY <1>2 DEF Numbers, RecordsApart
<1>5. PlacesApart'
  BY <1>2, <1>3 DEF Numbers, PlacesApart
<1>6. CASE InsertReqFails
  <2>1. ListKept
    BY <1>6, InsertFailsKeeps DEF Numbers
  <2>2. RecordsApart'
    BY <1>2, <1>3, <1>4, <2>1 DEF Numbers, RecordsApart, ListKept
  <2> QED BY <1>3, <1>5, <2>1, <2>2 DEF Numbers, ListKept
<1>7. CASE ~InsertReqFails
  <2> DEFINE r == [cmd |-> tx_msg.cmd, seq |-> tx_msg.seq,
                   seq_source |-> tx_msg.seq_source, InF_source |-> tx_msg.InF_source,
                   id |-> tx_msg.id, timestamp |-> "fresh"]
  <2>1. InsertReq(r) /\ r.seq = tx_msg.seq /\ r.cmd = tx_msg.cmd
    BY <1>7 DEF TxInsert
  <2>2. r \in ReqRecord
    BY DEF TransportInv, TxOK, Msg, ReqRecord, Age
  <2> HIDE DEF r
  <2>3. PICK d \in {0, 1} : /\ Len(Evicted) = Len(ring) - d
                            /\ \A i \in 1 .. Len(Evicted) : Evicted[i] = ring[i + d]
    BY EvictedList
  <2> DEFINE n == Len(Evicted)
  <2>4. /\ Len(ring) \in Nat /\ n \in Nat /\ Len(ring') = n + 1
        /\ \A i \in 1 .. n : ring'[i] = Evicted[i]
        /\ ring'[n + 1] = r
    BY <2>1, <2>2, EvictedList, AppendProperties, LenProperties
    DEF InsertReq, TransportInv, SeqInv, SeqTypeOK
  <2>5. \A i \in 1 .. n : i + d \in 1 .. Len(ring) /\ ring'[i] = ring[i + d]
    BY <2>3, <2>4
  <2> HIDE DEF n
  <2>6. \A i \in 1 .. Len(ring') : i \in 1 .. n \/ i = n + 1
    BY <2>4
  <2>7. seq_table' = seq_table \cup {tx_msg.seq}
    BY <2>1 DEF InsertReq
  <2>8. \A i \in 1 .. n : ring'[i].seq \in seq_table /\ ring'[i].seq # tx_msg.seq
    BY <1>4, <2>5 DEF Numbers, OutstandingSeqsReserved
  <2>9. \A i \in 1 .. Len(ring') : ring'[i].seq \in seq_table'
    BY <2>1, <2>4, <2>6, <2>7, <2>8
  <2>10. ASSUME NEW i \in 1 .. Len(ring'), NEW j \in 1 .. Len(ring'), ring'[i].seq = ring'[j].seq
         PROVE  i = j
    <3>1. CASE i \in 1 .. n /\ j \in 1 .. n
      <4>1. i + d = j + d
        BY <2>5, <2>10, <3>1 DEF Numbers, OutstandingSeqsReserved
      <4> QED BY <2>3, <2>4, <3>1, <4>1
    <3>2. CASE i = n + 1 \/ j = n + 1
      BY <2>1, <2>4, <2>6, <2>8, <2>10, <3>2
    <3> QED BY <2>6, <3>1, <3>2
  <2>11. OutstandingSeqsReserved'
    BY <2>9, <2>10 DEF OutstandingSeqsReserved
  <2>12. RecordsApart'
    <3> SUFFICES ASSUME NEW i \in 1 .. Len(ring')
                 PROVE  /\ ring'[i].seq \notin InPut' \cup InQueue'
                        /\ ring'[i].seq \in InTask' => Written' /\ ring'[i].cmd = tx_msg'.cmd
      BY DEF RecordsApart
    <3>1. CASE i \in 1 .. n
      BY <1>2, <1>3, <2>5, <2>8, <3>1 DEF Numbers, RecordsApart
    <3>2. CASE i = n + 1
      BY <1>1, <1>2, <1>3, <2>1, <2>4, <3>2 DEF Numbers, PlacesApart
    <3> QED BY <2>6, <3>1, <3>2
  <2> QED BY <1>3, <1>5, <2>11, <2>12 DEF Numbers
<1> QED BY <1>6, <1>7

\* A failed write: no record has the number of the message any more.
LEMMA TxFailedNumbers == ASSUME TransportInv, Numbers, TxFailed PROVE Numbers'
<1>1. /\ tx_pc = "failed" /\ tx_pc' \in {"giveup", "requeue"} /\ tx_msg \in Msg
      /\ UNCHANGED threads /\ txqueue' = txqueue
  <2>1. /\ tx_pc = "failed" /\ UNCHANGED <<threads, queues>>
        /\ tx_pc' = IF tx_msg.kind = "req" /\ tx_msg.retries >= IPMB_TX_RETRY_TIME
                      THEN "giveup" ELSE "requeue"
    BY Zenon DEF TxFailed
  <2> QED BY <2>1 DEF queues, TransportInv, TxOK
<1>2. tx_msg'.kind = tx_msg.kind /\ tx_msg'.seq = tx_msg.seq /\ tx_msg'.cmd = tx_msg.cmd
  <2> DEFINE Again == [tx_msg EXCEPT !.retries = @ + 1]
             From(k) == [tx_msg EXCEPT !.seq_source = ring[k].seq_source,
                                       !.InF_source = ring[k].InF_source,
                                       !.retries = @ + 1]
  <2>1. Again.kind = tx_msg.kind /\ Again.seq = tx_msg.seq /\ Again.cmd = tx_msg.cmd
    BY <1>1 DEF Msg
  <2>2. \A k : From(k).kind = tx_msg.kind /\ From(k).seq = tx_msg.seq /\ From(k).cmd = tx_msg.cmd
    BY <1>1 DEF Msg
  <2>3. tx_msg' = Again \/ \E k \in 1 .. Len(ring) : tx_msg' = From(k)
    BY Zenon DEF TxFailed
  <2> HIDE DEF Again, From
  <2> QED BY <2>1, <2>2, <2>3
<1>3. InPut' = InPut /\ SendersInTurn' /\ InQueue' = InQueue /\ QueueApart'
  BY <1>1, SameNumbers DEF threads
<1>4. InTask' = InTask /\ (tx_msg.kind # "req" => InTask = {})
      /\ (tx_msg.kind = "req" => InTask = {tx_msg.seq})
  BY <1>1, <1>2 DEF InTask
<1>5. PlacesApart'
  BY <1>3, <1>4 DEF Numbers, PlacesApart
<1>6. CASE tx_msg.kind # "req"
  <2>1. ListKept
    <3>1. UNCHANGED seqvars
      BY <1>6, Zenon DEF TxFailed
    <3> QED BY <3>1, SameNumbers
  <2>2. RecordsApart'
    BY <1>3, <1>4, <1>6, <2>1 DEF Numbers, RecordsApart, ListKept
  <2> QED BY <1>3, <1>5, <2>1, <2>2 DEF Numbers, ListKept
<1>7. CASE tx_msg.kind = "req"
  <2>1. ListKept /\ \A i \in 1 .. Len(ring') : ring'[i].seq # tx_msg.seq
    <3>1. ASSUME NEW k \in 1 .. Len(ring), TakeReq(k, tx_msg.cmd, tx_msg.seq)
          PROVE  ListKept /\ \A i \in 1 .. Len(ring') : ring'[i].seq # tx_msg.seq
      <4>1. Unlink(k) /\ ring[k].seq = tx_msg.seq
        BY <3>1 DEF TakeReq, FirstMatch, Matches
      <4> QED BY <4>1, UnlinkKeeps DEF Numbers
    <3>2. CASE MissReq(tx_msg.cmd, tx_msg.seq)
      <4>1. ring' = ring /\ ListKept
        BY <3>2, SameList DEF MissReq, Numbers
      <4>2. \A i \in 1 .. Len(ring) : ring[i].seq # tx_msg.seq
        BY <1>4, <1>7, <3>2 DEF MissReq, NoMatch, Matches, Numbers, RecordsApart
      <4> QED BY <4>1, <4>2
    <3>3. \/ \E k \in 1 .. Len(ring) : TakeReq(k, tx_msg.cmd, tx_msg.seq)
          \/ MissReq(tx_msg.cmd, tx_msg.seq)
      <4>1. tx_msg.kind # "resp"
        BY <1>7
      <4> QED BY <4>1, Zenon DEF TxFailed
    <3> QED BY <3>1, <3>2, <3>3
  <2>2. RecordsApart'
    BY <1>3, <1>4, <1>7, <2>1 DEF Numbers, RecordsApart, ListKept
  <2> QED BY <1>3, <1>5, <2>1, <2>2 DEF Numbers, ListKept
<1> QED BY <1>6, <1>7

LEMMA TxRequeueNumbers == ASSUME TransportInv, Numbers, TxRequeue PROVE Numbers'
<1>1. /\ tx_pc = "requeue" /\ tx_pc' = "get" /\ UNCHANGED threads /\ UNCHANGED seqvars
      /\ txqueue' = txqueue \/ txqueue' = Append(txqueue, tx_msg)
  BY DEF TxRequeue, TxCleanup
<1>2. InPut' = InPut /\ SendersInTurn' /\ ListKept
  BY <1>1, SameNumbers DEF threads
<1>3. /\ InTask' = {} /\ ~Written /\ tx_msg \in Msg
      /\ tx_msg.kind = "req" => InTask = {tx_msg.seq}
  BY <1>1 DEF InTask, Written, TransportInv, TxOK
<1>4. QueueApart' /\ InQueue' \subseteq InQueue \cup InTask
  <2>1. CASE txqueue' = txqueue
    BY <2>1, SameNumbers
  <2>2. CASE txqueue' = Append(txqueue, tx_msg)
    <3>1. tx_msg.kind = "req" => tx_msg.seq \notin InQueue
      BY <1>3 DEF Numbers, PlacesApart
    <3> QED BY <1>3, <2>2, <3>1, QueuePutNumbers DEF Numbers
  <2> QED BY <1>1, <2>1, <2>2
<1>5. PlacesApart'
  BY <1>2, <1>3, <1>4 DEF Numbers, PlacesApart
<1>6. RecordsApart'
  BY <1>1, <1>2, <1>3, <1>4 DEF Numbers, RecordsApart, seqvars
<1> QED BY <1>2, <1>4, <1>5, <1>6 DEF Numbers, ListKept

\* The steps of the TX task after which it has no message, or the same one.
LEMMA TxOtherNumbers ==
  ASSUME TransportInv, Numbers, TxNoMemory \/ TxWriteOk \/ TxWriteFails \/ TxGiveUp
  PROVE  Numbers'
<1>1. UNCHANGED threads /\ UNCHANGED seqvars /\ txqueue' = txqueue
  BY DEF TxNoMemory, TxWriteOk, TxWriteFails, TxGiveUp, queues
<1>2. /\ InTask' = {} \/ (InTask' = InTask /\ Written' = Written /\ tx_msg' = tx_msg)
  BY DEF TxNoMemory, TxWriteOk, TxWriteFails, TxGiveUp, TxCleanup, InTask, Written
<1>3. InPut' = InPut /\ SendersInTurn' /\ InQueue' = InQueue /\ QueueApart' /\ ListKept
  BY <1>1, SameNumbers DEF threads
<1> QED BY <1>2, <1>3, NumbersShrink

\* The RX task, the IPMI handler's responses, the sweeper.
LEMMA OtherNumbers ==
  ASSUME TransportInv, Numbers,
         \/ RxStep \/ RxResponse \/ RxBadChecksum \/ RxRequest
         \/ SendResponse \/ SendResponseTimeout \/ Suspend \/ Sweeper
  PROVE  Numbers'
<1>1. UNCHANGED threads /\ UNCHANGED txvars
  BY DEF RxStep, RxFind, RxDeliver, RxResponse, RxBadChecksum, RxRequest, SendResponse,
         SendResponseTimeout, Suspend, Sweeper
<1>2. /\ InPut' = InPut /\ SendersInTurn' /\ InTask' = InTask /\ Written' = Written
      /\ tx_msg' = tx_msg
  BY <1>1, SameNumbers DEF threads
<1>3. QueueApart' /\ InQueue' \subseteq InQueue
  <2>1. CASE SendResponse
    <3>1. /\ txqueue' = Append(txqueue, [NoMsg EXCEPT !.kind = "resp"])
          /\ [NoMsg EXCEPT !.kind = "resp"] \in Msg
          /\ [NoMsg EXCEPT !.kind = "resp"].kind = "resp"
      BY <2>1, NoMsgType DEF SendResponse, Msg
    <3> QED BY <3>1, QueuePutNumbers DEF Numbers
  <2>2. CASE ~SendResponse
    <3>1. txqueue' = txqueue
      BY <2>2 DEF RxStep, RxFind, RxDeliver, RxResponse, RxBadChecksum, RxRequest,
                  SendResponseTimeout, Suspend, Sweeper, queues
    <3> QED BY <3>1, SameNumbers
  <2> QED BY <2>1, <2>2
<1>4. ListKept
  <2>1. CASE RxFind
    BY <2>1, TakeOrMissKeeps DEF RxFind, Numbers
  <2>2. CASE Sweeper
    BY <2>2, SweepKeeps DEF Sweeper, Numbers
  <2>3. CASE ~(RxFind \/ Sweeper)
    <3>1. UNCHANGED seqvars
      BY <2>3 DEF RxStep, RxDeliver, RxResponse, RxBadChecksum, RxRequest, SendResponse,
                  SendResponseTimeout, Suspend
    <3> QED BY <3>1, SameNumbers
  <2> QED BY <2>1, <2>2, <2>3
<1> QED BY <1>2, <1>3, <1>4, NumbersShrink

LEMMA NumbersInit == Init => Numbers
<1> SUFFICES ASSUME Init PROVE Numbers
  OBVIOUS
<1>1. /\ \A t \in Callers : pc[t] = "idle"
      /\ tx_pc = "get" /\ Len(ring) = 0 /\ Len(txqueue) = 0
  BY DEF Init, SeqInit
<1>2. InPut = {} /\ InQueue = {} /\ InTask = {}
  BY <1>1 DEF InPut, InQueue, InTask
<1> QED BY <1>1, <1>2
        DEF Numbers, SendersInTurn, QueueApart, PlacesApart, RecordsApart, OutstandingSeqsReserved

LEMMA NumbersNext ==
  TransportInv /\ Numbers /\ [Next /\ NumbersInTime]_vars => Numbers'
<1> SUFFICES ASSUME TransportInv, Numbers, [Next /\ NumbersInTime]_vars PROVE Numbers'
  OBVIOUS
<1>1. CASE Next /\ NumbersInTime
  <2> USE <1>1
  <2>1. ASSUME NEW t \in Readers, ReadStart(t) PROVE Numbers'
    <3>1. t \in Callers /\ ReadStart(t) /\ t \in Readers
      BY <2>1 DEF Callers
    <3> QED BY <3>1, CallerNumbers
  <2>2. ASSUME NEW t \in Bridges, BridgeStart(t) PROVE Numbers'
    <3>1. t \in Callers /\ BridgeStart(t) /\ t \in Bridges
      BY <2>2 DEF Callers
    <3> QED BY <3>1, CallerNumbers
  <2>3. CASE \E t \in Callers : CallerStep(t)
    BY <2>3, SendLockNumbers, SendPutNumbers, CallerNumbers DEF CallerStep
  <2>4. CASE TxStep
    BY <2>4, TxGetNumbers, TxInsertNumbers, TxFailedNumbers, TxRequeueNumbers, TxOtherNumbers
    DEF TxStep
  <2>5. CASE \/ RxStep \/ RxResponse \/ RxBadChecksum \/ RxRequest
             \/ SendResponse \/ SendResponseTimeout \/ Suspend \/ Sweeper
    BY <2>5, OtherNumbers
  <2> QED BY <2>1, <2>2, <2>3, <2>4, <2>5 DEF Next
<1>2. CASE UNCHANGED vars
  <2>1. UNCHANGED threads /\ UNCHANGED txvars /\ UNCHANGED seqvars /\ txqueue' = txqueue
    BY <1>2 DEF vars, queues
  <2>2. /\ InPut' = InPut /\ SendersInTurn' /\ InTask' = InTask /\ Written' = Written
        /\ tx_msg' = tx_msg /\ InQueue' = InQueue /\ QueueApart' /\ ListKept
    BY <2>1, SameNumbers DEF threads
  <2> QED BY <2>2, NumbersShrink
<1> QED BY <1>1, <1>2

\* Every record on the list has its number registered and no other record has
\* it, although numbers come round again and again, insert_req_ipmi_msg,
\* find_req_ipmi_msg, clear_req_ipmi_msg and the sweep register and release them
\* one by one, evictions leave them registered and retries use them anew: as long
\* as get_free_seq finds a free number that no request in flight has.
THEOREM NumbersStayReserved == TimelySpec => []OutstandingSeqsReserved
<1>1. Init => TransportInv /\ Numbers
  BY TransportInit, NumbersInit
<1>2. TransportInv /\ Numbers /\ [Next /\ NumbersInTime]_vars => (TransportInv /\ Numbers)'
  <2>1. [Next /\ NumbersInTime]_vars => [Next]_vars
    OBVIOUS
  <2> QED BY <2>1, TransportNext, NumbersNext
<1>3. TransportInv /\ Numbers => OutstandingSeqsReserved
  BY DEF Numbers
<1> QED BY <1>1, <1>2, <1>3, PTL DEF TimelySpec

=============================================================================
