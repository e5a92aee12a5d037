---------------------------- MODULE IpmiDispatch ----------------------------
(***************************************************************************)
(* The IPMI message queue of samples/ipmi_openbic/src/ipmi/ipmi.c.         *)
(*                                                                         *)
(*   Producers   threads in notify_ipmi_client: the KCS loop of main.c and *)
(*               the IPMB RX tasks; a full queue is purged under a mutex   *)
(*               and the put retried a few times                           *)
(*   dispatcher  IPMI_handler: starts a thread for each message, joins it  *)
(*               for 10 seconds and then aborts it                         *)
(*   handler     ipmi_cmd_handle, the thread that executes the command and *)
(*               sends the response                                        *)
(*                                                                         *)
(* k_msgq_put, k_msgq_get and k_msgq_purge are atomic.  The callers pass   *)
(* requests only, so the test for a response is left out.                  *)
(***************************************************************************)
EXTENDS Naturals, Sequences

CONSTANTS Producer,
          IPMI_BUF_LEN,   \* 10 in ipmi.h
          Retries,        \* retry in notify_ipmi_client, 3
          Command,        \* the commands each producer receives, see below
          MaxMsg          \* bound: messages in a run

ASSUME DispatchAssumption ==
  /\ IPMI_BUF_LEN \in Nat \ {0} /\ Retries \in Nat \ {0} /\ MaxMsg \in Nat
  /\ Command \in [Producer -> SUBSET {"SET", "GET", "OTHER", "MSG_OUT"}]

NoOne == "none"
ASSUME NoOneAssumption == NoOne \notin Producer

(***************************************************************************)
(* Commands by what they do: SET and GET of the BMC global enables, other  *)
(* commands that only answer, and the bridge commands of                   *)
(* pal_is_not_return_cmd, to which the handler sends no response.  Message *)
(* n sets the byte n if it has one.                                        *)
(***************************************************************************)
Value == 0 .. MaxMsg
Msg == [id : 0 .. MaxMsg, from : Producer \cup {NoOne},
        cmd : {"SET", "GET", "OTHER", "MSG_OUT"}, val : Value]
NoMsg == [id |-> 0, from |-> NoOne, cmd |-> "OTHER", val |-> 0]

VARIABLES ipmi_msgq, mutex_purge_msgq,
          pc, msg, retry,       \* per producer: its call of notify_ipmi_client
          result,               \* per producer: what its last call returned
          lock_failed,          \* per producer: a lock timed out in that call
          queued,               \* ids that k_msgq_put accepted (history)
          nmsg,                 \* messages created so far
          h_pc, h_msg,          \* the dispatcher and its msg_cfg
          t_pc, t_msg,          \* the handler thread and its copy
          enables,              \* BMC_GLOBAL_ENABLES
          replies, unanswered,  \* responses sent; messages that got none
          mutex_send_res,       \* of ipmb_send_response: owner and lock_count
          bridge                \* an IPMB task that sends responses of its own

producers == <<mutex_purge_msgq, pc, msg, retry, result, lock_failed, nmsg>>
sending == <<mutex_send_res, bridge>>
handler == <<h_pc, h_msg, t_pc, t_msg, enables, replies, unanswered, sending>>
vars == <<ipmi_msgq, queued, producers, handler>>

TypeOK ==
  /\ ipmi_msgq \in Seq(Msg) /\ Len(ipmi_msgq) <= IPMI_BUF_LEN
  /\ mutex_purge_msgq \in Producer \cup {NoOne}
  /\ pc \in [Producer -> {"idle", "put", "lock", "check", "purge", "reput"}]
  /\ msg \in [Producer -> Msg]
  /\ retry \in [Producer -> 0 .. Retries]
  /\ result \in [Producer -> {"none", "SUCCESS", "MUTEX_LOCK"}]
  /\ lock_failed \in [Producer -> BOOLEAN]
  /\ queued \subseteq 1 .. MaxMsg
  /\ nmsg \in 0 .. MaxMsg
  /\ h_pc \in {"wait", "join"} /\ h_msg \in Msg
  /\ t_pc \in {"none", "start", "run", "reply", "send", "hung", "done"} /\ t_msg \in Msg
  /\ enables \in Value
  /\ replies \in Seq(Msg)
  /\ unanswered \subseteq Msg
  /\ mutex_send_res \in [owner : {NoOne, "IPMI_handle_thread", "bridge"}, count : Nat]
  /\ bridge \in {"idle", "send"}

Init ==
  /\ ipmi_msgq = << >> /\ mutex_purge_msgq = NoOne
  /\ pc = [p \in Producer |-> "idle"]
  /\ msg = [p \in Producer |-> NoMsg]
  /\ retry = [p \in Producer |-> 0]
  /\ result = [p \in Producer |-> "none"]
  /\ lock_failed = [p \in Producer |-> FALSE]
  /\ queued = {} /\ nmsg = 0
  /\ h_pc = "wait" /\ h_msg = NoMsg
  /\ t_pc = "none" /\ t_msg = NoMsg
  /\ enables = 0
  /\ replies = << >> /\ unanswered = {}
  /\ mutex_send_res = [owner |-> NoOne, count |-> 0] /\ bridge = "idle"

----------------------------------------------------------------------------
(***************************************************************************)
(* notify_ipmi_client                                                      *)
(***************************************************************************)
Room == Len(ipmi_msgq) < IPMI_BUF_LEN

\* main.c keeps current_msg and copies data into it only if the request has any:
\* a SET may come without its byte, and then carries the last one.
Data(p, cmd) == {msg[p].val} \cup IF cmd = "SET" THEN {nmsg + 1} ELSE {}

\* A request has been read from KCS, or from an IPMB.  Host requests that
\* pal_request_msg_to_BIC_from_HOST does not select never get here.
Notify(p) ==
  /\ pc[p] = "idle"
  /\ nmsg < MaxMsg
  /\ nmsg' = nmsg + 1
  /\ \E cmd \in Command[p] : \E val \in Data(p, cmd) :
       msg' = [msg EXCEPT ![p] = [id |-> nmsg + 1, from |-> p, cmd |-> cmd, val |-> val]]
  /\ pc' = [pc EXCEPT ![p] = "put"]
  /\ retry' = [retry EXCEPT ![p] = Retries]
  /\ lock_failed' = [lock_failed EXCEPT ![p] = FALSE]
  /\ result' = [result EXCEPT ![p] = "none"]
  /\ UNCHANGED <<ipmi_msgq, queued, mutex_purge_msgq, handler>>

\* return (retry == 0) ? IPMB_ERROR_MUTEX_LOCK : IPMB_ERROR_SUCCESS
Return(p, left) ==
  /\ pc' = [pc EXCEPT ![p] = "idle"]
  /\ result' = [result EXCEPT ![p] = IF left = 0 THEN "MUTEX_LOCK" ELSE "SUCCESS"]

Put(p) ==
  /\ ipmi_msgq' = Append(ipmi_msgq, msg[p])
  /\ queued' = queued \cup {msg[p].id}

FirstPut(p) ==
  /\ pc[p] = "put"
  /\ IF Room
       THEN Put(p) /\ Return(p, retry[p])
       ELSE pc' = [pc EXCEPT ![p] = "lock"] /\ UNCHANGED <<ipmi_msgq, queued, result>>
  /\ UNCHANGED <<mutex_purge_msgq, msg, retry, lock_failed, nmsg, handler>>

Lock(p) ==
  /\ pc[p] = "lock"
  /\ mutex_purge_msgq = NoOne
  /\ mutex_purge_msgq' = p
  /\ pc' = [pc EXCEPT ![p] = "check"]
  /\ UNCHANGED <<ipmi_msgq, queued, msg, retry, result, lock_failed, nmsg, handler>>

LockTimeout(p) ==
  /\ pc[p] = "lock"
  /\ mutex_purge_msgq # NoOne
  /\ lock_failed' = [lock_failed EXCEPT ![p] = TRUE]
  /\ retry' = [retry EXCEPT ![p] = @ - 1]
  /\ IF retry[p] = 1 THEN Return(p, 0) ELSE UNCHANGED <<pc, result>>
  /\ UNCHANGED <<ipmi_msgq, queued, mutex_purge_msgq, msg, nmsg, handler>>

\* k_msgq_num_free_get, and k_msgq_purge if it was 0 at that time.
PurgeCheck(p) ==
  /\ pc[p] = "check"
  /\ IF Room
       THEN pc' = [pc EXCEPT ![p] = "reput"] /\ mutex_purge_msgq' = NoOne
       ELSE pc' = [pc EXCEPT ![p] = "purge"] /\ UNCHANGED mutex_purge_msgq
  /\ UNCHANGED <<ipmi_msgq, queued, msg, retry, result, lock_failed, nmsg, handler>>

Purge(p) ==
  /\ pc[p] = "purge"
  /\ ipmi_msgq' = << >>
  /\ mutex_purge_msgq' = NoOne
  /\ pc' = [pc EXCEPT ![p] = "reput"]
  /\ UNCHANGED <<queued, msg, retry, result, lock_failed, nmsg, handler>>

PutAgain(p) ==
  /\ pc[p] = "reput"
  /\ retry' = [retry EXCEPT ![p] = @ - 1]
  /\ IF Room
       THEN Put(p) /\ Return(p, retry[p] - 1)
       ELSE /\ UNCHANGED <<ipmi_msgq, queued>>
            /\ IF retry[p] = 1
                 THEN Return(p, 0)
                 ELSE pc' = [pc EXCEPT ![p] = "lock"] /\ UNCHANGED result
  /\ UNCHANGED <<mutex_purge_msgq, msg, lock_failed, nmsg, handler>>

----------------------------------------------------------------------------
\* Faulty variant: the newest message is taken first.
DispatchNewest ==
  /\ h_pc = "wait"
  /\ ipmi_msgq # << >>
  /\ ipmi_msgq' = SubSeq(ipmi_msgq, 1, Len(ipmi_msgq) - 1)
  /\ h_msg' = ipmi_msgq[Len(ipmi_msgq)]
  /\ h_pc' = "join"
  /\ t_pc' = "start"
  /\ UNCHANGED <<queued, producers, t_msg, enables, replies, unanswered, sending>>

(***************************************************************************)
(* IPMI_handler and ipmi_cmd_handle                                        *)
(***************************************************************************)
Dispatch ==
  /\ h_pc = "wait"
  /\ ipmi_msgq # << >>
  /\ h_msg' = Head(ipmi_msgq)
  /\ ipmi_msgq' = Tail(ipmi_msgq)
  /\ h_pc' = "join"
  /\ t_pc' = "start"
  /\ UNCHANGED <<queued, producers, t_msg, enables, replies, unanswered, sending>>

\* The thread copies the message from the dispatcher's stack.
CmdCopy ==
  /\ t_pc = "start"
  /\ t_msg' = h_msg
  /\ t_pc' = "run"
  /\ UNCHANGED <<ipmi_msgq, queued, producers, h_pc, h_msg, enables, replies, unanswered, sending>>

\* Faulty variant: SET is acknowledged and not stored.
CmdRunForgets ==
  /\ t_pc = "run"
  /\ t_msg' = IF t_msg.cmd = "GET" THEN [t_msg EXCEPT !.val = enables] ELSE t_msg
  /\ t_pc' = IF t_msg.cmd = "MSG_OUT" THEN "done" ELSE "reply"
  /\ UNCHANGED <<ipmi_msgq, queued, producers, h_pc, h_msg, enables, replies, unanswered, sending>>

\* IPMI_CHASSIS_handler, IPMI_APP_handler: SET stores its byte, GET answers it.
CmdRun ==
  /\ t_pc = "run"
  /\ enables' = IF t_msg.cmd = "SET" THEN t_msg.val ELSE enables
  /\ t_msg' = IF t_msg.cmd = "GET" THEN [t_msg EXCEPT !.val = enables] ELSE t_msg
  /\ t_pc' = IF t_msg.cmd = "MSG_OUT" THEN "done" ELSE "reply"
  /\ UNCHANGED <<ipmi_msgq, queued, producers, h_pc, h_msg, replies, unanswered, sending>>

\* The command does not come to an end.
CmdHang ==
  /\ t_pc = "run"
  /\ t_pc' = "hung"
  /\ UNCHANGED <<ipmi_msgq, queued, producers, h_pc, h_msg, t_msg, enables, replies, unanswered, sending>>

\* The response goes out, or not; a failure is only logged.
Respond ==
  /\ \/ replies' = Append(replies, t_msg) /\ UNCHANGED unanswered
     \/ unanswered' = unanswered \cup {h_msg} /\ UNCHANGED replies
  /\ t_pc' = "done"
  /\ UNCHANGED <<ipmi_msgq, queued, producers, h_pc, h_msg, t_msg, enables>>

\* ipmi_write to KCS.
CmdReply ==
  /\ t_pc = "reply" /\ t_msg.from = "KCS"
  /\ Respond
  /\ UNCHANGED sending

\* k_mutex_lock and k_mutex_unlock: the owner may lock again.  All handlers are
\* the one thread object IPMI_handle_thread, whichever of them was aborted.
MayLock(who) == mutex_send_res.owner \in {NoOne, who}
LockSendRes(who) ==
  mutex_send_res' = [owner |-> who, count |-> mutex_send_res.count + 1]
UnlockSendRes ==
  mutex_send_res' = IF mutex_send_res.count = 1 THEN [owner |-> NoOne, count |-> 0]
                    ELSE [mutex_send_res EXCEPT !.count = @ - 1]

\* ipmb_send_response: the mutex within a second, room in the TX queue within
\* another.
SendResponse ==
  /\ t_pc = "reply" /\ t_msg.from # "KCS"
  /\ MayLock("IPMI_handle_thread")
  /\ LockSendRes("IPMI_handle_thread")
  /\ t_pc' = "send"
  /\ UNCHANGED <<ipmi_msgq, queued, producers, h_pc, h_msg, t_msg, enables, replies,
                 unanswered, bridge>>

SendResponseTimeout ==
  /\ t_pc = "reply" /\ t_msg.from # "KCS"
  /\ ~MayLock("IPMI_handle_thread")
  /\ unanswered' = unanswered \cup {h_msg}
  /\ t_pc' = "done"
  /\ UNCHANGED <<ipmi_msgq, queued, producers, h_pc, h_msg, t_msg, enables, replies, sending>>

SendResponsePut ==
  /\ t_pc = "send"
  /\ Respond
  /\ UnlockSendRes
  /\ UNCHANGED bridge

\* The IPMB tasks call ipmb_send_response as well, with what they bridge.
BridgeResponse ==
  /\ bridge = "idle" /\ MayLock("bridge")
  /\ LockSendRes("bridge")
  /\ bridge' = "send"
  /\ UNCHANGED <<ipmi_msgq, queued, producers, h_pc, h_msg, t_pc, t_msg, enables, replies,
                 unanswered>>

BridgeResponsePut ==
  /\ bridge = "send"
  /\ UnlockSendRes
  /\ bridge' = "idle"
  /\ UNCHANGED <<ipmi_msgq, queued, producers, h_pc, h_msg, t_pc, t_msg, enables, replies,
                 unanswered>>

\* The thread has ended: the dispatcher clears its message and waits again.
JoinDone ==
  /\ h_pc = "join" /\ t_pc = "done"
  /\ h_pc' = "wait" /\ h_msg' = NoMsg
  /\ t_pc' = "none" /\ t_msg' = NoMsg
  /\ UNCHANGED <<ipmi_msgq, queued, producers, enables, replies, unanswered, sending>>

\* Faulty variant: the thread is joined with K_FOREVER.
JoinForever == FALSE /\ UNCHANGED vars

\* Ten seconds are over: the thread is aborted wherever it is, with what it has
\* locked.
JoinTimeout ==
  /\ h_pc = "join" /\ t_pc # "done"
  /\ unanswered' = unanswered \cup {h_msg}
  /\ h_pc' = "wait" /\ h_msg' = NoMsg
  /\ t_pc' = "none" /\ t_msg' = NoMsg
  /\ UNCHANGED <<ipmi_msgq, queued, producers, enables, replies, sending>>

----------------------------------------------------------------------------
ProducerStep(p) == FirstPut(p) \/ Lock(p) \/ LockTimeout(p) \/ PurgeCheck(p) \/ Purge(p) \/ PutAgain(p)
DispatcherStep == Dispatch \/ JoinDone \/ JoinTimeout
HandlerStep == \/ CmdCopy \/ CmdRun \/ CmdHang \/ CmdReply
               \/ SendResponse \/ SendResponseTimeout \/ SendResponsePut
BridgeStep == BridgeResponse \/ BridgeResponsePut

Next == \/ \E p \in Producer : Notify(p) \/ ProducerStep(p)
        \/ DispatcherStep \/ HandlerStep \/ BridgeStep

Spec == Init /\ [][Next]_vars

\* The producers, the dispatcher and the IPMB task run and their timeouts expire;
\* a command handler owes nothing.
FairSpec ==
  /\ Spec /\ (\A p \in Producer : WF_vars(ProducerStep(p)))
  /\ WF_vars(DispatcherStep) /\ WF_vars(BridgeResponsePut)

----------------------------------------------------------------------------
\* A call that reports success has put its message into the queue, whatever the
\* mixture of full queues, purges and lock timeouts it went through.
SuccessIsQueued ==
  \A p \in Producer : result[p] = "SUCCESS" => msg[p].id \in queued

\* The requests of a producer are answered in the order it made them, and none
\* twice, although the queue is purged and puts are repeated.
RepliesInOrder ==
  \A i, j \in 1 .. Len(replies) :
    i < j /\ replies[i].from = replies[j].from => replies[i].id < replies[j].id

\* A GET is answered with the byte of the last SET that was acknowledged before
\* it, or with that of a SET whose response was lost or whose handler was aborted.
AckedSets(i) == {j \in 1 .. i - 1 : replies[j].cmd = "SET"}
LastAcked(i) ==
  IF AckedSets(i) = {} THEN 0
  ELSE replies[CHOOSE j \in AckedSets(i) : \A k \in AckedSets(i) : k <= j].val

GetReadsAcked ==
  \A i \in 1 .. Len(replies) :
    replies[i].cmd = "GET" =>
      \/ replies[i].val = LastAcked(i)
      \/ \E m \in unanswered : m.cmd = "SET" /\ m.val = replies[i].val

\* A message does not stay in the queue: it is dispatched or purged, although
\* the commands before it may hang.
QueueMoves ==
  \A n \in 1 .. MaxMsg :
    (\E i \in 1 .. Len(ipmi_msgq) : ipmi_msgq[i].id = n)
      ~> ~(\E i \in 1 .. Len(ipmi_msgq) : ipmi_msgq[i].id = n)

\* An IPMB task that finds mutex_send_res locked gets it later.  It does not when
\* a handler was aborted that had locked it: the count never returns to zero.
BridgeGetsMutex == []<>MayLock("bridge")

\* An acknowledged SET has stored a byte of its own request.  A SET without data
\* stores the byte of an earlier one: APP_SET_BMC_GLOBAL_ENABLES tests no length.
SetStoresItsByte ==
  \A i \in 1 .. Len(replies) : replies[i].cmd = "SET" => replies[i].val = replies[i].id

\* ipmb.h:163 IPMB_ERROR_MUTEX_LOCK "Fail to lock mutex in time": the call that
\* returns it has failed to lock the mutex.
MutexErrorMeansLockFailed ==
  \A p \in Producer : result[p] = "MUTEX_LOCK" => lock_failed[p]
=============================================================================
