-------------------------------- MODULE Ipmb --------------------------------
(***************************************************************************)
(* The IPMB transport of one index (ipmb/ipmb.c): the threads that share   *)
(* the bookkeeping of IpmbSeq.                                             *)
(*                                                                         *)
(*   Readers   threads in ipmb_read: they hold mutex_read, send a request  *)
(*             with InF_source SELF and wait for its answer in ipmb_rxqueue*)
(*   Bridges   threads that forward a request of another bus and do not    *)
(*             wait: "BMC" is the IPMI handler in OEM_1S_MSG_OUT, "ME" the *)
(*             RX task of the ME bus                                       *)
(*   TX task   IPMB_TXTask: takes messages from ipmb_txqueue, records      *)
(*             requests, writes them to the bus, retries                   *)
(*   RX task   IPMB_RXTask: reads frames, finds the request an answer      *)
(*             belongs to, passes it to a reader or back to the other bus  *)
(*   sweeper   IPMB_SeqTimeout_handler, in IpmbSeq                         *)
(*                                                                         *)
(* The device on the bus is external: it answers a request it received at  *)
(* any later time, or never, or twice, and sends requests of its own.  The *)
(* bus the bridged requests come from is seen through ipmb_send_response   *)
(* on its index: the reply is accepted (replies grows) or dropped.         *)
(***************************************************************************)
EXTENDS IpmbSeq

CONSTANTS Readers, Bridges,
          IPMB_TX_RETRY_TIME,   \* 5 in ipmb.h
          IPMB_TXQUEUE_LEN,     \* 1
          IPMB_RXQUEUE_LEN,     \* 2
          SrcSeq,               \* sequence numbers the bridged requests have
          MaxReq,               \* bound: requests issued in a run
          MaxIn,                \* bound: requests of the device in a run
          MaxDup,               \* bound: answers the device repeats in a run
          Suspends              \* whether ipmb_tx_suspend may be called

ASSUME ThreadAssumption == Readers \cap Bridges = {} /\ Bridges \subseteq {"BMC", "ME"}
ASSUME SourceAssumption == Source = {"SELF", "BMC", "ME"}
ASSUME LimitAssumption  == /\ IPMB_TX_RETRY_TIME \in Nat
                           /\ IPMB_TXQUEUE_LEN \in Nat \ {0}
                           /\ IPMB_RXQUEUE_LEN \in Nat \ {0}
                           /\ MaxReq \in Nat /\ MaxIn \in Nat /\ MaxDup \in Nat
ASSUME IdAssumption     == Id = 0 .. MaxReq
ASSUME SrcSeqAssumption == SrcSeq \subseteq SeqNo

Callers == Readers \cup Bridges
None == "none"
ASSUME NoneAssumption == None \notin Callers

VARIABLES pc, msg,            \* callers of ipmb_send_request
          mutex_read, mutex_send_req,
          txqueue, rxqueue, tx_disable,
          tx_pc, tx_msg, rx_pc, rx_msg,
          device,             \* request frames the device has received
          reqs,               \* the requests issued so far, by id (history)
          replies,            \* what ipmb_send_response passed to other buses
          todo, nin, dups     \* device requests at the IPMI handler; counters

threads == <<pc, msg, mutex_read, mutex_send_req>>
queues  == <<txqueue, rxqueue, tx_disable>>
txvars  == <<tx_pc, tx_msg>>
rxvars  == <<rx_pc, rx_msg>>
outside == <<device, reqs, replies, todo, nin, dups>>
vars    == <<seqvars, threads, queues, txvars, rxvars, outside>>

(***************************************************************************)
(* A message in a queue or in a thread's hands: ipmi_msg_cfg without its   *)
(* data.  kind is IS_RESPONSE; id names the request this message carries,  *)
(* or, in an answer, the request it answers.                               *)
(***************************************************************************)
Msg == [kind : {"req", "resp"}, cmd : Cmd, seq : SeqNo, seq_source : SeqNo,
        InF_source : Source, retries : 0 .. IPMB_TX_RETRY_TIME + 1, id : Id]

Frame == [cmd : Cmd, seq : SeqNo, id : Id]

Reply == [id : Id, seq : SeqNo, cc : {"OK", "NODE_BUSY", "TIMEOUT", "BRIDGE_ERR"},
          data : Id]

NoMsg == [kind |-> "req", cmd |-> CHOOSE c \in Cmd : TRUE, seq |-> 0,
          seq_source |-> 0, InF_source |-> "SELF", retries |-> 0, id |-> 0]

TypeOK ==
  /\ SeqTypeOK
  /\ pc \in [Callers -> {"idle", "send", "put", "wait", "clear", "ok", "err"}]
  /\ msg \in [Callers -> Msg]
  /\ mutex_read \in Readers \cup {None}
  /\ mutex_send_req \in Callers \cup {None}
  /\ txqueue \in Seq(Msg) /\ Len(txqueue) <= IPMB_TXQUEUE_LEN
  /\ rxqueue \in Seq(Msg) /\ Len(rxqueue) <= IPMB_RXQUEUE_LEN
  /\ tx_disable \in BOOLEAN
  /\ tx_pc \in {"get", "insert", "write", "failed", "requeue", "giveup"}
  /\ tx_msg \in Msg
  /\ rx_pc \in {"read", "find", "deliver"}
  /\ rx_msg \in [frame : Frame, record : Frame \cup ReqRecord]
  /\ device \subseteq Frame
  /\ reqs \in Seq([InF_source : Source, seq_source : SeqNo])
  /\ Len(reqs) <= MaxReq
  /\ replies \in Seq(Reply)
  /\ todo \in 0 .. MaxIn /\ nin \in 0 .. MaxIn /\ dups \in 0 .. MaxDup

NoFrame == [cmd |-> NoMsg.cmd, seq |-> 0, id |-> 0]

\* ipmb_init
Init ==
  /\ SeqInit
  /\ pc = [t \in Callers |-> "idle"]
  /\ msg = [t \in Callers |-> NoMsg]
  /\ mutex_read = None /\ mutex_send_req = None
  /\ txqueue = << >> /\ rxqueue = << >>
  /\ tx_disable = FALSE
  /\ tx_pc = "get" /\ tx_msg = NoMsg
  /\ rx_pc = "read" /\ rx_msg = [frame |-> NoFrame, record |-> NoFrame]
  /\ device = {} /\ reqs = << >> /\ replies = << >>
  /\ todo = 0 /\ nin = 0 /\ dups = 0

TxRoom == Len(txqueue) < IPMB_TXQUEUE_LEN

NewRequest(t, src, cmd, seq_source) ==
  /\ Len(reqs) < MaxReq
  /\ reqs' = Append(reqs, [InF_source |-> src, seq_source |-> seq_source])
  /\ msg' = [msg EXCEPT ![t] =
               [kind |-> "req", cmd |-> cmd, seq |-> 0, seq_source |-> seq_source,
                InF_source |-> src, retries |-> 0, id |-> Len(reqs) + 1]]
  /\ pc' = [pc EXCEPT ![t] = "send"]

\* ipmb_send_response on the index of another bus: accepted there, or lost
\* because a mutex or the queue of that bus was not free within a second.
SendResponseElsewhere(id, seq, cc, data) ==
  \/ replies' = Append(replies, [id |-> id, seq |-> seq, cc |-> cc, data |-> data])
  \/ UNCHANGED replies

----------------------------------------------------------------------------
(***************************************************************************)
(* ipmb_read and ipmb_send_request.  Waiting for mutex_read past its       *)
(* timeout returns an error and changes nothing, so it has no action.      *)
(***************************************************************************)
ReadStart(t) ==
  /\ pc[t] \in {"idle", "ok", "err"}
  /\ mutex_read = None
  /\ mutex_read' = t
  /\ rxqueue' = << >>
  /\ \E cmd \in Cmd : NewRequest(t, "SELF", cmd, 0)
  /\ UNCHANGED <<seqvars, mutex_send_req, txqueue, tx_disable, txvars, rxvars,
                 device, replies, todo, nin, dups>>

\* OEM_1S_MSG_OUT, and the RX task of the ME bus for a request to the BMC.
BridgeStart(t) ==
  /\ pc[t] = "idle"
  /\ \E cmd \in Cmd, s \in SrcSeq : NewRequest(t, t, cmd, s)
  /\ UNCHANGED <<seqvars, mutex_read, mutex_send_req, queues, txvars, rxvars,
                 device, replies, todo, nin, dups>>

SendLock(t) ==
  /\ pc[t] = "send"
  /\ mutex_send_req = None
  /\ mutex_send_req' = t
  /\ pc' = [pc EXCEPT ![t] = "put"]
  /\ \E s \in SeqNo : GetFreeSeq(s) /\ msg' = [msg EXCEPT ![t].seq = s]
  /\ UNCHANGED <<mutex_read, queues, txvars, rxvars, outside>>

SendPut(t) ==
  /\ pc[t] = "put"
  /\ TxRoom
  /\ txqueue' = Append(txqueue, msg[t])
  /\ mutex_send_req' = None
  /\ pc' = [pc EXCEPT ![t] = IF t \in Readers THEN "wait" ELSE "idle"]
  /\ UNCHANGED <<seqvars, msg, mutex_read, rxqueue, tx_disable, txvars, rxvars, outside>>

\* What the callers do when ipmb_send_request fails.  The IPMI handler answers
\* with the sequence number of the request it had received, the RX task of the
\* ME bus with the one in bridge_msg, zero or the number it has just been given.
SendFailed(t) ==
  /\ IF t \in Readers
       THEN /\ mutex_read' = None
            /\ pc' = [pc EXCEPT ![t] = "err"]
            /\ UNCHANGED replies
       ELSE /\ pc' = [pc EXCEPT ![t] = "idle"]
            /\ IF t = "BMC"
                 THEN SendResponseElsewhere(msg[t].id, msg[t].seq_source, "BRIDGE_ERR", 0)
                 ELSE SendResponseElsewhere(msg[t].id, msg[t].seq, "TIMEOUT", 0)
            /\ UNCHANGED mutex_read
  /\ UNCHANGED <<seqvars, msg, queues, txvars, rxvars, device, reqs, todo, nin, dups>>

SendLockTimeout(t) ==
  /\ pc[t] = "send"
  /\ mutex_send_req # None
  /\ UNCHANGED mutex_send_req
  /\ SendFailed(t)

SendPutTimeout(t) ==
  /\ pc[t] = "put"
  /\ ~TxRoom
  /\ mutex_send_req' = None
  /\ SendFailed(t)

\* The answer is taken for what it is: nothing compares it with the request.
ReadGet(t) ==
  /\ pc[t] = "wait"
  /\ rxqueue # << >>
  /\ msg' = [msg EXCEPT ![t] = Head(rxqueue)]
  /\ rxqueue' = Tail(rxqueue)
  /\ mutex_read' = None
  /\ pc' = [pc EXCEPT ![t] = "ok"]
  /\ UNCHANGED <<seqvars, mutex_send_req, txqueue, tx_disable, txvars, rxvars, outside>>

\* Faulty variant: the answer is waited for with K_FOREVER.
ReadForever(t) == FALSE /\ UNCHANGED vars

ReadTimeout(t) ==
  /\ pc[t] = "wait"
  /\ rxqueue = << >>
  /\ pc' = [pc EXCEPT ![t] = "clear"]
  /\ UNCHANGED <<seqvars, msg, mutex_read, mutex_send_req, queues, txvars, rxvars, outside>>

ReadClear(t) ==
  /\ pc[t] = "clear"
  /\ \/ \E k \in 1 .. Len(ring) : TakeReq(k, msg[t].cmd, msg[t].seq)
     \/ MissReq(msg[t].cmd, msg[t].seq)
  /\ mutex_read' = None
  /\ pc' = [pc EXCEPT ![t] = "err"]
  /\ UNCHANGED <<msg, mutex_send_req, queues, txvars, rxvars, outside>>

----------------------------------------------------------------------------
(***************************************************************************)
(* IPMB_TXTask                                                             *)
(***************************************************************************)
\* A message is dropped while the index is suspended, a response also when it
\* has failed too often.
TxDrops(m) == tx_disable \/ (m.kind = "resp" /\ m.retries > IPMB_TX_RETRY_TIME)

TxGet ==
  /\ tx_pc = "get"
  /\ txqueue # << >>
  /\ txqueue' = Tail(txqueue)
  /\ IF TxDrops(Head(txqueue))
       THEN UNCHANGED txvars
       ELSE /\ tx_msg' = Head(txqueue)
            /\ tx_pc' = IF Head(txqueue).kind = "req" THEN "insert" ELSE "write"
  /\ UNCHANGED <<seqvars, threads, rxqueue, tx_disable, rxvars, outside>>

\* The end of an iteration: the message in hand is freed.
TxCleanup == tx_pc' = "get" /\ tx_msg' = NoMsg

\* No memory for the I2C message: the message in hand is dropped.
TxNoMemory ==
  /\ AllocFails
  /\ tx_pc = "insert" \/ (tx_pc = "write" /\ tx_msg.kind = "resp")
  /\ TxCleanup
  /\ UNCHANGED <<seqvars, threads, queues, rxvars, outside>>

\* The request is recorded before it is written.
TxInsert ==
  /\ tx_pc = "insert"
  /\ \/ InsertReq([cmd |-> tx_msg.cmd, seq |-> tx_msg.seq,
                   seq_source |-> tx_msg.seq_source, InF_source |-> tx_msg.InF_source,
                   id |-> tx_msg.id, timestamp |-> "fresh"])
     \/ InsertReqFails
  /\ tx_pc' = "write"
  /\ UNCHANGED <<threads, queues, tx_msg, rxvars, outside>>

TxWriteOk ==
  /\ tx_pc = "write"
  /\ TxCleanup
  /\ device' = IF tx_msg.kind = "req"
                 THEN device \cup {[cmd |-> tx_msg.cmd, seq |-> tx_msg.seq, id |-> tx_msg.id]}
                 ELSE device
  /\ UNCHANGED <<seqvars, threads, queues, rxvars, reqs, replies, todo, nin, dups>>

TxWriteFails ==
  /\ tx_pc = "write"
  /\ tx_pc' = "failed"
  /\ UNCHANGED <<seqvars, threads, queues, tx_msg, rxvars, outside>>

\* A request that could not be written is taken off the list first;
\* find_req_ipmi_msg overwrites the message's source with the record's.
TxFailed ==
  /\ tx_pc = "failed"
  /\ \/ /\ tx_msg.kind = "resp"
        /\ tx_msg' = [tx_msg EXCEPT !.retries = @ + 1]
        /\ UNCHANGED seqvars
     \/ /\ tx_msg.kind = "req"
        /\ \E k \in 1 .. Len(ring) :
             /\ TakeReq(k, tx_msg.cmd, tx_msg.seq)
             /\ tx_msg' = [tx_msg EXCEPT !.seq_source = ring[k].seq_source,
                                         !.InF_source = ring[k].InF_source,
                                         !.retries = @ + 1]
     \/ /\ tx_msg.kind = "req"
        /\ MissReq(tx_msg.cmd, tx_msg.seq)
        /\ tx_msg' = [tx_msg EXCEPT !.retries = @ + 1]
  /\ tx_pc' = IF tx_msg.kind = "req" /\ tx_msg.retries >= IPMB_TX_RETRY_TIME
                THEN "giveup" ELSE "requeue"
  /\ UNCHANGED <<threads, queues, rxvars, outside>>

\* k_msgq_put with K_NO_WAIT, its result ignored.
TxRequeue ==
  /\ tx_pc = "requeue"
  /\ txqueue' = IF TxRoom THEN Append(txqueue, tx_msg) ELSE txqueue
  /\ TxCleanup
  /\ UNCHANGED <<seqvars, threads, rxqueue, tx_disable, rxvars, outside>>

\* The source of a bridged request is told, under the message's own sequence
\* number; nobody else is.
TxGiveUp ==
  /\ tx_pc = "giveup"
  /\ TxCleanup
  /\ IF tx_msg.InF_source = "SELF"
       THEN UNCHANGED replies
       ELSE SendResponseElsewhere(tx_msg.id, tx_msg.seq, "NODE_BUSY", 0)
  /\ UNCHANGED <<seqvars, threads, queues, rxvars, device, reqs, todo, nin, dups>>

Suspend ==
  /\ Suspends
  /\ tx_disable' = ~tx_disable
  /\ UNCHANGED <<seqvars, threads, txqueue, rxqueue, txvars, rxvars, outside>>

----------------------------------------------------------------------------
(***************************************************************************)
(* IPMB_RXTask                                                             *)
(***************************************************************************)
\* An answer of the device; it may come again later.
RxResponse ==
  /\ rx_pc = "read"
  /\ \E f \in device :
       /\ rx_msg' = [frame |-> f, record |-> NoFrame]
       /\ \/ device' = device \ {f} /\ UNCHANGED dups
          \/ dups < MaxDup /\ dups' = dups + 1 /\ UNCHANGED device
  /\ rx_pc' = "find"
  /\ UNCHANGED <<seqvars, threads, queues, txvars, reqs, replies, todo, nin>>

\* A frame whose checksum is wrong is ignored.
RxBadChecksum ==
  /\ rx_pc = "read"
  /\ \E f \in device : device' = device \ {f}
  /\ UNCHANGED <<seqvars, threads, queues, txvars, rxvars, reqs, replies, todo, nin, dups>>

RxCleanup == rx_pc' = "read" /\ rx_msg' = [frame |-> NoFrame, record |-> NoFrame]

RxFind ==
  /\ rx_pc = "find"
  /\ \/ \E k \in 1 .. Len(ring) :
          /\ TakeReq(k, rx_msg.frame.cmd, rx_msg.frame.seq)
          /\ rx_msg' = [rx_msg EXCEPT !.record = ring[k]]
          /\ rx_pc' = "deliver"
     \/ /\ MissReq(rx_msg.frame.cmd, rx_msg.frame.seq)
        /\ RxCleanup
  /\ UNCHANGED <<threads, queues, txvars, outside>>

Answer == [kind |-> "resp", cmd |-> rx_msg.frame.cmd, seq |-> rx_msg.frame.seq,
           seq_source |-> rx_msg.record.seq_source,
           InF_source |-> rx_msg.record.InF_source, retries |-> 0,
           id |-> rx_msg.frame.id]

\* To the reader's queue, unless it is full, or back to the other bus.
RxDeliver ==
  /\ rx_pc = "deliver"
  /\ RxCleanup
  /\ IF rx_msg.record.InF_source = "SELF"
       THEN /\ rxqueue' = IF Len(rxqueue) < IPMB_RXQUEUE_LEN
                            THEN Append(rxqueue, Answer) ELSE rxqueue
            /\ UNCHANGED replies
       ELSE /\ SendResponseElsewhere(rx_msg.record.id, rx_msg.record.seq_source, "OK",
                                     rx_msg.frame.id)
            /\ UNCHANGED rxqueue
  /\ UNCHANGED <<seqvars, threads, txqueue, tx_disable, txvars, device, reqs,
                 todo, nin, dups>>

\* A request of the device goes to the IPMI handler (notify_ipmi_client) ...
RxRequest ==
  /\ rx_pc = "read"
  /\ nin < MaxIn
  /\ nin' = nin + 1
  /\ todo' = todo + 1
  /\ UNCHANGED <<seqvars, threads, queues, txvars, rxvars, device, reqs, replies, dups>>

\* ... which answers through ipmb_send_response on this index.
SendResponse ==
  /\ todo > 0
  /\ TxRoom
  /\ todo' = todo - 1
  /\ txqueue' = Append(txqueue, [NoMsg EXCEPT !.kind = "resp"])
  /\ UNCHANGED <<seqvars, threads, rxqueue, tx_disable, txvars, rxvars, device, reqs,
                 replies, nin, dups>>

\* mutex_send_res or the queue was not free in time: no response.
SendResponseTimeout ==
  /\ todo > 0
  /\ todo' = todo - 1
  /\ UNCHANGED <<seqvars, threads, queues, txvars, rxvars, device, reqs, replies, nin, dups>>

Sweeper == Sweep /\ UNCHANGED <<threads, queues, txvars, rxvars, outside>>

----------------------------------------------------------------------------
CallerStep(t) ==
  \/ SendLock(t) \/ SendPut(t) \/ SendLockTimeout(t) \/ SendPutTimeout(t)
  \/ ReadGet(t) \/ ReadTimeout(t) \/ ReadClear(t)

TxStep == \/ TxGet \/ TxNoMemory \/ TxInsert \/ TxWriteOk \/ TxWriteFails
          \/ TxFailed \/ TxRequeue \/ TxGiveUp

RxStep == RxFind \/ RxDeliver

Next ==
  /\ ~fault
  /\ \/ \E t \in Readers : ReadStart(t)
     \/ \E t \in Bridges : BridgeStart(t)
     \/ \E t \in Callers : CallerStep(t)
     \/ TxStep
     \/ RxStep
     \/ RxResponse \/ RxBadChecksum \/ RxRequest
     \/ SendResponse \/ SendResponseTimeout
     \/ Suspend
     \/ Sweeper

Spec == Init /\ [][Next]_vars

\* Threads are scheduled and timeouts expire; the device owes nothing.  The
\* steps that wait for mutex_id get it although the sweeper takes it again and
\* again: it sleeps in between, and k_mutex_unlock passes a mutex to a waiter.
Fairness ==
  /\ \A t \in Callers : SF_vars(~fault /\ CallerStep(t))
  /\ SF_vars(~fault /\ TxStep)
  /\ SF_vars(~fault /\ RxStep)
  /\ WF_vars(~fault /\ Sweeper)

FairSpec == Spec /\ Fairness

(***************************************************************************)
(* Sequence numbers come round again.  get_free_seq looks only at the      *)
(* table, and a number enters the table when its request is inserted:      *)
(* until then the request is in flight, in the hands of its caller, in the *)
(* queue or in the hands of the TX task, and a retry is in flight anew.    *)
(***************************************************************************)
InPut   == {msg[t].seq : t \in {u \in Callers : pc[u] = "put"}}
InQueue == {txqueue[i].seq : i \in {j \in 1 .. Len(txqueue) : txqueue[j].kind = "req"}}
InTask  == IF tx_pc # "get" /\ tx_msg.kind = "req" THEN {tx_msg.seq} ELSE {}

InFlight == InPut \cup InQueue \cup InTask

\* What 64 numbers and a queue of one are to ensure, as long as evictions have
\* not left too many numbers registered: when get_free_seq is called some number
\* is free, and the one it comes to is not that of a request still in flight.
NumbersInTime ==
  (mutex_send_req = None /\ mutex_send_req' # None)
    => seq_table # SeqNo /\ current_seq' \notin InFlight

TimelySpec == Init /\ [][Next /\ NumbersInTime]_vars
----------------------------------------------------------------------------
(***************************************************************************)
(* Properties                                                              *)
(***************************************************************************)
Ended(t) == pc[t] \in {"idle", "ok", "err"}

\* A bridged request is answered at most once, although the TX task retries,
\* the device repeats answers, records expire and readers clear theirs.
AtMostOneReply ==
  \A i, j \in 1 .. Len(replies) : replies[i].id = replies[j].id => i = j

\* What the RX task sends back to the bus a request came from is the answer to
\* that request, under the sequence number it had there.
ReplyAnswersItsRequest ==
  \A i \in 1 .. Len(replies) :
    replies[i].cc = "OK" => /\ replies[i].data = replies[i].id
                            /\ replies[i].seq = reqs[replies[i].id].seq_source

\* A record's sequence number is registered as long as the record is on the
\* list, and no other record has it: although numbers are used again and again,
\* evicted records leave theirs registered, and retries, clears, answers and
\* sweeps release numbers one by one, get_free_seq never hands out the number
\* of a request that is still to be answered (under TimelySpec: it does when all
\* numbers are registered, or one comes round while its request is in flight).
OutstandingSeqsReserved ==
  /\ \A i \in 1 .. Len(ring) : ring[i].seq \in seq_table
  /\ \A i, j \in 1 .. Len(ring) : ring[i].seq = ring[j].seq => i = j

\* ipmb_read returns, whatever the bus, the device and the other threads do.
ReadReturns == \A t \in Readers : (pc[t] = "send") ~> (Ended(t) \/ fault)

\* A record that the sweep finds too old leaves the list in the end, although a
\* sweep steps over records.
ExpiredLeave ==
  \A i \in Id : (\E k \in 1 .. Len(ring) : ring[k].id = i /\ ring[k].timestamp = "expired")
                   ~> (~\E k \in 1 .. Len(ring) : ring[k].id = i)

\* ipmb.c:173 "Record IPMB request for checking response sequence": what
\* ipmb_read returns as its answer is the answer to the request it sent.
ReadGetsItsAnswer ==
  [][\A t \in Readers : (pc[t] = "wait" /\ pc'[t] = "ok") => msg'[t].id = msg[t].id]_vars

\* "increase retry counter and try again later": a message that could not be
\* written is in the queue again after the TX task has put it back.
RetryKept ==
  [][tx_pc = "requeue" /\ tx_pc' = "get" => \E i \in 1 .. Len(txqueue') : txqueue'[i] = tx_msg]_vars

\* "Return the error code(node busy) to the source channel": the error replies,
\* too, bear the sequence number of the request they answer.
ErrorReplyMatchesRequest ==
  \A i \in 1 .. Len(replies) : replies[i].seq = reqs[replies[i].id].seq_source

\* "The queue stay more than 1000 ms need to be killed": no record that is too
\* old is left when the sweep has ended.
SweepLeavesNoneExpired ==
  NotSweeping => \A i \in 1 .. Len(ring) : ring[i].timestamp # "expired"

\* "pnode list should be circular, list end found" is an error the functions
\* report and survive: the list that lost its tail is never walked into NULL.
BrokenListSurvived == ~fault

\* "Sequence table in BIC for register record": a registered sequence number
\* belongs to a record.
RegisteredHaveRecord ==
  \A s \in seq_table : \E i \in 1 .. Len(ring) : ring[i].seq = s
============================================================================
