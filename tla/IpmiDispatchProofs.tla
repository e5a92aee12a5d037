------------------------- MODULE IpmiDispatchProofs -------------------------
(***************************************************************************)
(* Proofs about the IPMI message queue, for any producers, queue length,   *)
(* number of retries and commands.                                         *)
(***************************************************************************)
EXTENDS IpmiDispatch, SequenceTheorems, WellFoundedInduction, TLAPS

\* Of two messages of one producer, m is the earlier one.
Before(m, n) == m.from = n.from => m.id < n.id

\* m has left the call of notify_ipmi_client that made it: it is older than the
\* message of a call that is still going on.
Past(m) ==
  /\ m.from \in Producer
  /\ m.id <= msg[m.from].id
  /\ pc[m.from] # "idle" => m.id < msg[m.from].id

\* A call in progress has a message with a number of its own and a try left.
CallsInv ==
  /\ \A p \in Producer : msg[p].id <= nmsg
  /\ \A p \in Producer : pc[p] # "idle" =>
       retry[p] >= 1 /\ msg[p].id >= 1 /\ msg[p].from = p

\* There is a handler thread exactly while the dispatcher joins, and its message
\* is the dispatcher's.
HandlerInv ==
  /\ h_pc = "join" <=> t_pc # "none"
  /\ t_pc \in {"run", "reply", "send"} =>
       t_msg.id = h_msg.id /\ t_msg.from = h_msg.from /\ t_msg.cmd = h_msg.cmd
  /\ t_pc \in {"run", "reply", "send"} /\ t_msg.cmd # "GET" => t_msg.val = h_msg.val

\* Who is sending has mutex_send_res, and a mutex with an owner is locked.
MutexInv ==
  /\ mutex_send_res.owner = NoOne \/ mutex_send_res.count >= 1
  /\ t_pc = "send" => mutex_send_res.owner = "IPMI_handle_thread"
  /\ bridge = "send" => mutex_send_res.owner = "bridge"

\* The replies, the message being handled and the queue are the messages of a
\* producer in the order it made them.
OrderInv ==
  /\ \A i \in 1 .. Len(replies) : Past(replies[i])
  /\ h_pc = "join" => Past(h_msg)
  /\ \A i \in 1 .. Len(ipmi_msgq) : Past(ipmi_msgq[i])
  /\ \A i, j \in 1 .. Len(ipmi_msgq) : i < j => Before(ipmi_msgq[i], ipmi_msgq[j])
  /\ h_pc = "join" => \A i \in 1 .. Len(ipmi_msgq) : Before(h_msg, ipmi_msgq[i])
  /\ \A i \in 1 .. Len(replies), j \in 1 .. Len(ipmi_msgq) : Before(replies[i], ipmi_msgq[j])
  /\ h_pc = "join" /\ t_pc # "done" => \A i \in 1 .. Len(replies) : Before(replies[i], h_msg)
  /\ RepliesInOrder

QueueInv == TypeOK /\ CallsInv /\ HandlerInv /\ MutexInv /\ OrderInv

LEMMA QueueInit == Init => QueueInv
<1> SUFFICES ASSUME Init PROVE QueueInv
  OBVIOUS
<1>1. << >> \in Seq(Msg) /\ Len(<< >>) = 0 /\ 1 .. Len(<< >>) = {}
  BY EmptySeq
<1>2. NoMsg \in Msg
  BY DispatchAssumption DEF NoMsg, Msg, Value
<1>3. /\ Len(ipmi_msgq) <= IPMI_BUF_LEN
      /\ retry \in [Producer -> 0 .. Retries]
      /\ nmsg \in 0 .. MaxMsg /\ enables \in Value
      /\ mutex_send_res.count \in Nat
  BY <1>1, DispatchAssumption DEF Init, Value
<1>4. lock_failed \in [Producer -> BOOLEAN]
  BY DEF Init
<1>5. TypeOK
  BY <1>1, <1>2, <1>3, <1>4 DEF Init, TypeOK
<1>6. CallsInv
  BY DEF Init, CallsInv, NoMsg
<1>7. HandlerInv
  BY DEF Init, HandlerInv
<1>8. OrderInv
  BY <1>1 DEF Init, OrderInv, RepliesInOrder
<1>9. MutexInv
  BY DEF Init, MutexInv
<1> QED BY <1>5, <1>6, <1>7, <1>8, <1>9 DEF QueueInv

\* What the operations on the queue and on the replies do.
LEMMA AppendElements ==
  ASSUME NEW s \in Seq(Msg), NEW m \in Msg
  PROVE  /\ Append(s, m) \in Seq(Msg) /\ Len(s) \in Nat /\ Len(Append(s, m)) = Len(s) + 1
         /\ \A i \in 1 .. Len(s) : Append(s, m)[i] = s[i]
         /\ Append(s, m)[Len(s) + 1] = m
         /\ 1 .. Len(s) + 1 = (1 .. Len(s)) \cup {Len(s) + 1}
<1>1. Len(s) \in Nat
  BY LenProperties
<1> QED BY <1>1, AppendProperties

LEMMA TailElements ==
  ASSUME NEW s \in Seq(Msg), s # << >>
  PROVE  /\ Tail(s) \in Seq(Msg) /\ Len(s) \in Nat /\ Len(Tail(s)) = Len(s) - 1
         /\ \A i \in 1 .. Len(Tail(s)) :
              i + 1 \in 1 .. Len(s) /\ 1 < i + 1 /\ Tail(s)[i] = s[i + 1]
         /\ Head(s) \in Msg /\ Head(s) = s[1] /\ 1 \in 1 .. Len(s)
<1>1. Len(s) \in Nat /\ Len(s) # 0
  BY LenProperties, EmptySeq
<1>2. /\ Tail(s) \in Seq(Msg) /\ Len(Tail(s)) = Len(s) - 1
      /\ \A i \in 1 .. Len(Tail(s)) : Tail(s)[i] = s[i + 1]
      /\ Head(s) \in Msg /\ Head(s) = s[1]
  BY <1>1, HeadTailProperties
<1> QED BY <1>1, <1>2

----------------------------------------------------------------------------
(***************************************************************************)
(* The producers.                                                          *)
(***************************************************************************)
\* A producer's step makes the messages of the past no younger.
LEMMA NotifyPast ==
  ASSUME TypeOK, CallsInv, NEW p \in Producer, Notify(p), NEW m, Past(m), m.id \in Nat
  PROVE  Past(m)'
<1>1. msg'[p].id = nmsg + 1 /\ \A u \in Producer \ {p} : msg'[u] = msg[u] /\ pc'[u] = pc[u]
  BY DEF Notify, TypeOK
<1>2. nmsg \in Nat /\ \A u \in Producer : msg[u].id \in Nat
  BY DispatchAssumption DEF TypeOK, Msg
<1> QED BY <1>1, <1>2 DEF Past, CallsInv

LEMMA CallPast ==
  ASSUME TypeOK, NEW p \in Producer, ProducerStep(p), NEW m, Past(m)
  PROVE  Past(m)'
<1>1. UNCHANGED msg
  BY DEF ProducerStep, FirstPut, Lock, LockTimeout, PurgeCheck, Purge, PutAgain
<1>2. \A u \in Producer : pc'[u] # "idle" => pc[u] # "idle"
  BY DEF TypeOK, ProducerStep, FirstPut, Lock, LockTimeout, PurgeCheck, Purge, PutAgain, Return
<1> QED BY <1>1, <1>2 DEF Past

LEMMA ProducerType ==
  ASSUME TypeOK, CallsInv, NEW p \in Producer, Notify(p) \/ ProducerStep(p)
  PROVE  TypeOK' /\ CallsInv'
<1> USE DispatchAssumption
<1>1. /\ nmsg \in Nat /\ \A u \in Producer : msg[u] \in Msg /\ msg[u].id \in Nat
      /\ \A u \in Producer : retry[u] \in 0 .. Retries
  BY DEF TypeOK, Msg
<1>2. UNCHANGED handler
  BY DEF Notify, ProducerStep, FirstPut, Lock, LockTimeout, PurgeCheck, Purge, PutAgain
<1>3. CASE Notify(p)
  <2>1. PICK m : m \in Msg /\ msg' = [msg EXCEPT ![p] = m] /\ m.id = nmsg + 1 /\ m.from = p
    <3>0. PICK cmd \in Command[p] : \E val \in Data(p, cmd) :
            msg' = [msg EXCEPT ![p] = [id |-> nmsg + 1, from |-> p, cmd |-> cmd, val |-> val]]
      BY <1>3 DEF Notify
    <3>1. PICK val \in Data(p, cmd) :
            msg' = [msg EXCEPT ![p] = [id |-> nmsg + 1, from |-> p, cmd |-> cmd, val |-> val]]
      BY <3>0
    <3>2. cmd \in {"SET", "GET", "OTHER", "MSG_OUT"}
      OBVIOUS
    <3>3. val \in Value /\ nmsg + 1 \in 0 .. MaxMsg
      BY <1>1, <1>3 DEF Notify, Data, Value, Msg, TypeOK
    <3> DEFINE m == [id |-> nmsg + 1, from |-> p, cmd |-> cmd, val |-> val]
    <3>4. m \in Msg /\ m.id = nmsg + 1 /\ m.from = p
      BY <3>2, <3>3 DEF Msg
    <3>5. msg' = [msg EXCEPT ![p] = m]
      BY <3>1
    <3> HIDE DEF m
    <3> QED BY <3>4, <3>5
  <2>2. /\ nmsg' = nmsg + 1 /\ nmsg' \in 0 .. MaxMsg
        /\ UNCHANGED <<ipmi_msgq, queued, mutex_purge_msgq>>
    BY <1>1, <1>3 DEF Notify, TypeOK
  <2>3. /\ msg' \in [Producer -> Msg]
        /\ pc' \in [Producer -> {"idle", "put", "lock", "check", "purge", "reput"}]
        /\ retry' \in [Producer -> 0 .. Retries]
        /\ result' \in [Producer -> {"none", "SUCCESS", "MUTEX_LOCK"}]
    BY <1>3, <2>1 DEF Notify, TypeOK
  <2>4. lock_failed' \in [Producer -> BOOLEAN]
    BY <1>3 DEF Notify, TypeOK
  <2>5. TypeOK'
    BY <1>2, <2>2, <2>3, <2>4 DEF TypeOK, handler, sending
  <2>6. CallsInv'
    BY <1>1, <1>3, <2>1, <2>2 DEF CallsInv, Notify, TypeOK
  <2> QED BY <2>5, <2>6
<1>4. CASE ProducerStep(p)
  <2>1. UNCHANGED <<msg, nmsg>> /\ pc[p] # "idle" /\ retry[p] \in 1 .. Retries
    BY <1>1, <1>4 DEF CallsInv,
           ProducerStep, FirstPut, Lock, LockTimeout, PurgeCheck, Purge, PutAgain
  <2>2. pc' \in [Producer -> {"idle", "put", "lock", "check", "purge", "reput"}]
    BY <1>4 DEF TypeOK, Return,
           ProducerStep, FirstPut, Lock, LockTimeout, PurgeCheck, Purge, PutAgain
  <2>3. /\ retry' \in [Producer -> 0 .. Retries]
        /\ \A u \in Producer : pc'[u] # "idle" => retry'[u] >= 1 /\ pc[u] # "idle"
    <3>1. \/ retry' = retry
          \/ /\ retry' = [retry EXCEPT ![p] = @ - 1]
             /\ retry[p] = 1 => pc'[p] = "idle"
      BY <1>4 DEF TypeOK, Return,
             ProducerStep, FirstPut, Lock, LockTimeout, PurgeCheck, Purge, PutAgain
    <3>2. \A u \in Producer : pc'[u] # "idle" => pc[u] # "idle"
      BY <1>4 DEF TypeOK, Return,
             ProducerStep, FirstPut, Lock, LockTimeout, PurgeCheck, Purge, PutAgain
    <3>3. CASE retry' = retry
      BY <3>2, <3>3 DEF TypeOK, CallsInv
    <3>4. CASE retry' = [retry EXCEPT ![p] = @ - 1] /\ (retry[p] = 1 => pc'[p] = "idle")
      <4>1. retry[p] - 1 \in 0 .. Retries /\ (retry[p] # 1 => retry[p] - 1 >= 1)
        BY <2>1
      <4>2. retry'[p] = retry[p] - 1 /\ \A u \in Producer \ {p} : retry'[u] = retry[u]
        BY <3>4 DEF TypeOK
      <4>3. retry' \in [Producer -> 0 .. Retries]
        BY <3>4, <4>1 DEF TypeOK
      <4> QED BY <3>2, <3>4, <4>1, <4>2, <4>3 DEF CallsInv
    <3> QED BY <3>1, <3>3, <3>4
  <2>4. result' \in [Producer -> {"none", "SUCCESS", "MUTEX_LOCK"}]
    BY <1>4 DEF TypeOK, Return,
           ProducerStep, FirstPut, Lock, LockTimeout, PurgeCheck, Purge, PutAgain
  <2>5. lock_failed' \in [Producer -> BOOLEAN]
    BY <1>4 DEF TypeOK,
           ProducerStep, FirstPut, Lock, LockTimeout, PurgeCheck, Purge, PutAgain
  <2>6. mutex_purge_msgq' \in Producer \cup {NoOne}
    BY <1>4 DEF TypeOK,
           ProducerStep, FirstPut, Lock, LockTimeout, PurgeCheck, Purge, PutAgain
  <2>7. queued' \subseteq 1 .. MaxMsg
    <3>1. msg[p].id \in 1 .. MaxMsg
      BY <1>1, <2>1 DEF CallsInv, TypeOK
    <3> QED BY <1>4, <3>1 DEF TypeOK, Put,
           ProducerStep, FirstPut, Lock, LockTimeout, PurgeCheck, Purge, PutAgain
  <2>8. ipmi_msgq' \in Seq(Msg) /\ Len(ipmi_msgq') <= IPMI_BUF_LEN
    <3>1. /\ Append(ipmi_msgq, msg[p]) \in Seq(Msg) /\ Len(ipmi_msgq) \in Nat
          /\ Len(Append(ipmi_msgq, msg[p])) = Len(ipmi_msgq) + 1
      BY <1>1, AppendElements DEF TypeOK
    <3>2. << >> \in Seq(Msg) /\ Len(<< >>) = 0
      BY EmptySeq
    <3>3. \/ UNCHANGED ipmi_msgq \/ ipmi_msgq' = << >>
          \/ Len(ipmi_msgq) < IPMI_BUF_LEN /\ ipmi_msgq' = Append(ipmi_msgq, msg[p])
      BY <1>4 DEF Put, Room,
             ProducerStep, FirstPut, Lock, LockTimeout, PurgeCheck, Purge, PutAgain
    <3>4. CASE UNCHANGED ipmi_msgq
      BY <3>4 DEF TypeOK
    <3>5. CASE ipmi_msgq' = << >>
      BY <3>2, <3>5
    <3>6. CASE Len(ipmi_msgq) < IPMI_BUF_LEN /\ ipmi_msgq' = Append(ipmi_msgq, msg[p])
      BY <3>1, <3>6
    <3> QED BY <3>3, <3>4, <3>5, <3>6
  <2>9. TypeOK'
    BY <1>2, <2>1, <2>2, <2>3, <2>4, <2>5, <2>6, <2>7, <2>8 DEF TypeOK, handler, sending
  <2>10. CallsInv'
    BY <2>1, <2>3 DEF CallsInv
  <2> QED BY <2>9, <2>10
<1> QED BY <1>3, <1>4 DEF
       ProducerStep, FirstPut, Lock, LockTimeout, PurgeCheck, Purge, PutAgain

LEMMA ProducerOrder ==
  ASSUME QueueInv, NEW p \in Producer, Notify(p) \/ ProducerStep(p)
  PROVE  OrderInv'
<1>1. TypeOK /\ CallsInv /\ OrderInv
  BY DEF QueueInv
<1>2. UNCHANGED handler
  BY DEF Notify, ProducerStep, FirstPut, Lock, LockTimeout, PurgeCheck, Purge, PutAgain
<1>3. UNCHANGED <<h_pc, h_msg, t_pc, replies>>
  BY <1>2 DEF handler
<1>4. ASSUME NEW m \in Msg, Past(m) PROVE Past(m)'
  <2>1. m.id \in Nat
    BY DispatchAssumption DEF Msg
  <2> QED BY <1>1, <1>4, <2>1, NotifyPast, CallPast
<1>5. /\ Len(replies) \in Nat /\ \A i \in 1 .. Len(replies) : replies[i] \in Msg
      /\ Len(ipmi_msgq) \in Nat /\ \A i \in 1 .. Len(ipmi_msgq) : ipmi_msgq[i] \in Msg
      /\ h_msg \in Msg /\ ipmi_msgq \in Seq(Msg) /\ msg[p] \in Msg
  BY <1>1, LenProperties, ElementOfSeq DEF TypeOK
<1>6. CASE UNCHANGED ipmi_msgq
  BY <1>1, <1>3, <1>4, <1>5, <1>6 DEF OrderInv, RepliesInOrder, Past
<1>7. CASE ipmi_msgq' = << >>
  <2>1. 1 .. Len(ipmi_msgq') = {}
    BY <1>7, EmptySeq
  <2> QED BY <1>1, <1>3, <1>4, <1>5, <2>1 DEF OrderInv, RepliesInOrder, Past
<1>8. CASE Put(p) /\ ProducerStep(p) /\ pc'[p] = "idle"
  <2> DEFINE n == Len(ipmi_msgq) + 1
  <2>1. pc[p] # "idle" /\ UNCHANGED msg
    BY <1>8 DEF ProducerStep, FirstPut, Lock, LockTimeout, PurgeCheck, Purge, PutAgain
  <2>2. msg[p].from = p /\ msg[p].id \in Nat
    BY <1>1, <1>5, <2>1, DispatchAssumption DEF CallsInv, Msg
  <2>3. /\ Len(ipmi_msgq') = n
        /\ 1 .. n = (1 .. Len(ipmi_msgq)) \cup {n}
        /\ \A i \in 1 .. Len(ipmi_msgq) : ipmi_msgq'[i] = ipmi_msgq[i] /\ i < n
        /\ ipmi_msgq'[n] = msg[p]
    BY <1>5, <1>8, AppendElements DEF Put
  <2>4. \A m \in Msg : Past(m) => Before(m, msg[p])
    BY <2>1, <2>2 DEF Past, Before
  <2>5. \A i \in 1 .. Len(ipmi_msgq') : Past(ipmi_msgq[i])'
    <3> SUFFICES ASSUME NEW i \in 1 .. Len(ipmi_msgq') PROVE Past(ipmi_msgq[i])'
      OBVIOUS
    <3>1. CASE i = n
      <4>1. ipmi_msgq'[i] = msg[p]
        BY <2>3, <3>1
      <4> QED BY <1>8, <2>1, <2>2, <4>1 DEF Past
    <3>2. CASE i \in 1 .. Len(ipmi_msgq)
      <4>1. ipmi_msgq'[i] = ipmi_msgq[i] /\ Past(ipmi_msgq[i]) /\ ipmi_msgq[i] \in Msg
        BY <1>1, <1>5, <2>3, <3>2 DEF OrderInv
      <4> QED BY <1>4, <4>1 DEF Past
    <3> QED BY <2>3, <3>1, <3>2
  <2> HIDE DEF n
  <2>6. \A i, j \in 1 .. Len(ipmi_msgq') : i < j => Before(ipmi_msgq'[i], ipmi_msgq'[j])
    <3>1. \A i \in 1 .. Len(ipmi_msgq) : ~(n < i)
      BY <1>5, <2>3 DEF n
    <3>2. ~(n < n)
      BY <1>5 DEF n
    <3> QED BY <1>1, <1>5, <2>3, <2>4, <3>1, <3>2 DEF OrderInv
  <2>7. h_pc = "join" => \A i \in 1 .. Len(ipmi_msgq') : Before(h_msg, ipmi_msgq'[i])
    BY <1>1, <1>5, <2>3, <2>4 DEF OrderInv
  <2>8. \A i \in 1 .. Len(replies), j \in 1 .. Len(ipmi_msgq') : Before(replies[i], ipmi_msgq'[j])
    BY <1>1, <1>5, <2>3, <2>4 DEF OrderInv
  <2>9. /\ \A i \in 1 .. Len(replies) : Past(replies[i])'
        /\ h_pc = "join" => Past(h_msg)'
    BY <1>1, <1>3, <1>4, <1>5 DEF OrderInv, Past
  <2> QED BY <1>1, <1>3, <2>5, <2>6, <2>7, <2>8, <2>9 DEF OrderInv, RepliesInOrder
<1>9. UNCHANGED ipmi_msgq \/ ipmi_msgq' = << >> \/ (Put(p) /\ ProducerStep(p) /\ pc'[p] = "idle")
  BY <1>1 DEF Notify, ProducerStep, FirstPut, Lock, LockTimeout, PurgeCheck, Purge, PutAgain,
              Return, TypeOK
<1> QED BY <1>6, <1>7, <1>8, <1>9

----------------------------------------------------------------------------
(***************************************************************************)
(* The dispatcher, the handler thread and the IPMB task.                   *)
(***************************************************************************)
LEMMA HandlerType ==
  ASSUME TypeOK, MutexInv, DispatcherStep \/ HandlerStep \/ BridgeStep
  PROVE  TypeOK' /\ MutexInv' /\ UNCHANGED <<queued, producers>>
<1> USE DEF DispatcherStep, HandlerStep, BridgeStep, Dispatch, JoinDone, JoinTimeout, CmdCopy,
            CmdRun, CmdHang, CmdReply, SendResponse, SendResponseTimeout, SendResponsePut,
            Respond, BridgeResponse, BridgeResponsePut, sending
<1>1. UNCHANGED <<queued, producers>>
  OBVIOUS
<1>2. ipmi_msgq' \in Seq(Msg) /\ Len(ipmi_msgq') <= IPMI_BUF_LEN
  <2>1. CASE Dispatch
    <3>1. Tail(ipmi_msgq) \in Seq(Msg) /\ Len(Tail(ipmi_msgq)) = Len(ipmi_msgq) - 1
          /\ Len(ipmi_msgq) \in Nat
      BY <2>1, TailElements DEF TypeOK
    <3>2. ipmi_msgq' = Tail(ipmi_msgq) /\ Len(ipmi_msgq) <= IPMI_BUF_LEN
      BY <2>1 DEF TypeOK
    <3> HIDE DEF DispatcherStep, HandlerStep, BridgeStep
    <3> QED BY <3>1, <3>2, DispatchAssumption
  <2>2. CASE ~Dispatch
    <3>1. UNCHANGED ipmi_msgq
      BY <2>2
    <3> HIDE DEF DispatcherStep, HandlerStep, BridgeStep
    <3> QED BY <3>1 DEF TypeOK
  <2> QED BY <2>1, <2>2
<1>3. NoMsg \in Msg
  BY DispatchAssumption DEF NoMsg, Msg, Value
<1>4. h_pc' \in {"wait", "join"} /\ h_msg' \in Msg
  <2>1. ipmi_msgq # << >> => Head(ipmi_msgq) \in Msg
    BY TailElements DEF TypeOK
  <2> QED BY <1>3, <2>1 DEF TypeOK
<1>5. t_pc' \in {"none", "start", "run", "reply", "send", "hung", "done"}
  BY DEF TypeOK
<1>6. t_msg' \in Msg /\ enables' \in Value
  <2>1. [t_msg EXCEPT !.val = enables] \in Msg /\ t_msg.val \in Value
    BY DEF TypeOK, Msg
  <2> QED BY <1>3, <2>1 DEF TypeOK
<1>7. replies' \in Seq(Msg)
  <2>1. Append(replies, t_msg) \in Seq(Msg)
    BY AppendElements DEF TypeOK
  <2> QED BY <2>1 DEF TypeOK
<1>8. unanswered' \subseteq Msg
  BY DEF TypeOK
<1>9. /\ mutex_send_res' \in [owner : {NoOne, "IPMI_handle_thread", "bridge"}, count : Nat]
      /\ bridge' \in {"idle", "send"}
      /\ MutexInv'
  <2>1. CASE SendResponse \/ BridgeResponse
    BY <2>1 DEF TypeOK, LockSendRes, MayLock, MutexInv, NoOne
  <2>2. CASE SendResponsePut \/ BridgeResponsePut
    BY <2>2 DEF TypeOK, UnlockSendRes, MutexInv, NoOne
  <2>3. CASE UNCHANGED <<mutex_send_res, bridge>> /\ (t_pc' = "send" => t_pc = "send")
    <3> HIDE DEF DispatcherStep, HandlerStep, BridgeStep
    <3> QED BY <2>3 DEF TypeOK, MutexInv
  <2>4. \/ SendResponse \/ BridgeResponse \/ SendResponsePut \/ BridgeResponsePut
        \/ UNCHANGED <<mutex_send_res, bridge>> /\ (t_pc' = "send" => t_pc = "send")
    OBVIOUS
  <2> HIDE DEF DispatcherStep, HandlerStep, BridgeStep
  <2> QED BY <2>1, <2>2, <2>3, <2>4
<1> HIDE DEF DispatcherStep, HandlerStep, BridgeStep
<1> QED BY <1>1, <1>2, <1>4, <1>5, <1>6, <1>7, <1>8, <1>9 DEF TypeOK, producers

LEMMA HandlerKeeps ==
  ASSUME TypeOK, HandlerInv, DispatcherStep \/ HandlerStep \/ BridgeStep
  PROVE  HandlerInv'
<1>1. CASE CmdRun
  BY <1>1 DEF TypeOK, Msg, HandlerInv, CmdRun
<1>2. CASE CmdCopy \/ SendResponse
  BY <1>2 DEF HandlerInv, CmdCopy, SendResponse
<1>3. CASE DispatcherStep
  BY <1>3 DEF HandlerInv, DispatcherStep, Dispatch, JoinDone, JoinTimeout
<1>4. CASE CmdHang \/ CmdReply \/ SendResponseTimeout \/ SendResponsePut \/ BridgeStep
  BY <1>4 DEF HandlerInv, CmdHang, CmdReply, SendResponseTimeout, SendResponsePut, Respond,
              BridgeStep, BridgeResponse, BridgeResponsePut
<1> QED BY <1>1, <1>2, <1>3, <1>4 DEF HandlerStep

LEMMA HandlerOrder ==
  ASSUME QueueInv, DispatcherStep \/ HandlerStep \/ BridgeStep
  PROVE  OrderInv'
<1>1. TypeOK /\ HandlerInv /\ OrderInv
  BY DEF QueueInv
<1>2. UNCHANGED <<msg, pc>>
  BY HandlerType DEF QueueInv, producers
<1>3. CASE Dispatch
  <2>1. /\ h_msg' = ipmi_msgq[1] /\ h_pc' = "join" /\ t_pc' # "done"
        /\ 1 \in 1 .. Len(ipmi_msgq) /\ Len(ipmi_msgq) \in Nat
        /\ \A i \in 1 .. Len(ipmi_msgq') :
             i + 1 \in 1 .. Len(ipmi_msgq) /\ 1 < i + 1 /\ ipmi_msgq'[i] = ipmi_msgq[i + 1]
        /\ UNCHANGED replies
    BY <1>1, <1>3, TailElements DEF TypeOK, Dispatch
  <2>2. \A i, j \in 1 .. Len(ipmi_msgq') : i < j => i + 1 < j + 1
    <3>1. Len(ipmi_msgq') = Len(ipmi_msgq) - 1
      BY <1>1, <1>3, TailElements DEF TypeOK, Dispatch
    <3> QED BY <2>1, <3>1
  <2>3. \A i, j \in 1 .. Len(ipmi_msgq') : i < j => Before(ipmi_msgq'[i], ipmi_msgq'[j])
    BY <1>1, <2>1, <2>2 DEF OrderInv
  <2>4. \A i \in 1 .. Len(ipmi_msgq') : Before(h_msg', ipmi_msgq'[i])
    BY <1>1, <2>1 DEF OrderInv
  <2>5. /\ \A i \in 1 .. Len(replies), j \in 1 .. Len(ipmi_msgq') :
             Before(replies[i], ipmi_msgq'[j])
        /\ \A i \in 1 .. Len(replies) : Before(replies[i], h_msg')
    BY <1>1, <2>1 DEF OrderInv
  <2>6. /\ \A i \in 1 .. Len(replies) : Past(replies[i])'
        /\ Past(h_msg)'
        /\ \A i \in 1 .. Len(ipmi_msgq') : Past(ipmi_msgq[i])'
    BY <1>1, <1>2, <2>1 DEF OrderInv, Past
  <2> QED BY <1>1, <2>1, <2>3, <2>4, <2>5, <2>6 DEF OrderInv, RepliesInOrder
<1>4. CASE /\ UNCHANGED <<ipmi_msgq, h_msg, h_pc>> /\ t_pc \in {"reply", "send"}
           /\ replies' = Append(replies, t_msg) /\ t_pc' = "done"
  <2> DEFINE n == Len(replies) + 1
  <2>1. /\ Len(replies') = n
        /\ 1 .. n = (1 .. Len(replies)) \cup {n} /\ Len(replies) \in Nat
        /\ \A i \in 1 .. Len(replies) : replies'[i] = replies[i] /\ ~(n < i)
        /\ replies'[n] = t_msg /\ ~(n < n)
    BY <1>1, <1>4, AppendElements DEF TypeOK
  <2>2. h_pc = "join" /\ t_msg.id = h_msg.id /\ t_msg.from = h_msg.from
    BY <1>1, <1>4 DEF HandlerInv
  <2> HIDE DEF n
  <2>3. /\ \A i \in 1 .. Len(replies) : Before(replies[i], t_msg)
        /\ \A i \in 1 .. Len(ipmi_msgq) : Before(t_msg, ipmi_msgq[i])
    BY <1>1, <1>4, <2>2 DEF OrderInv, Before
  <2>4. RepliesInOrder'
    BY <1>1, <2>1, <2>3 DEF OrderInv, RepliesInOrder, Before
  <2>5. \A i \in 1 .. Len(replies') : Past(replies[i])'
    <3> SUFFICES ASSUME NEW i \in 1 .. Len(replies') PROVE Past(replies[i])'
      OBVIOUS
    <3>1. CASE i = n
      <4>1. replies'[i] = t_msg
        BY <2>1, <3>1
      <4> QED BY <1>1, <1>2, <2>2, <4>1 DEF OrderInv, Past
    <3>2. CASE i \in 1 .. Len(replies)
      BY <1>1, <1>2, <2>1, <3>2 DEF OrderInv, Past
    <3> QED BY <2>1, <3>1, <3>2
  <2>6. \A i \in 1 .. Len(replies'), j \in 1 .. Len(ipmi_msgq) : Before(replies'[i], ipmi_msgq[j])
    BY <1>1, <2>1, <2>3 DEF OrderInv
  <2>7. Past(h_msg)' /\ \A i \in 1 .. Len(ipmi_msgq) : Past(ipmi_msgq[i])'
    BY <1>1, <1>2, <1>4, <2>2 DEF OrderInv, Past
  <2> QED BY <1>1, <1>4, <2>4, <2>5, <2>6, <2>7 DEF OrderInv
<1>5. CASE UNCHANGED <<ipmi_msgq, replies, h_msg, h_pc>> /\ (t_pc = "done" => t_pc' = "done")
  BY <1>1, <1>2, <1>5 DEF OrderInv, RepliesInOrder, Past
<1>6. CASE UNCHANGED <<ipmi_msgq, replies>> /\ h_pc' # "join"
  BY <1>1, <1>2, <1>6 DEF OrderInv, RepliesInOrder, Past
<1>7. DispatcherStep => Dispatch \/ (UNCHANGED <<ipmi_msgq, replies>> /\ h_pc' # "join")
  BY DEF DispatcherStep, JoinDone, JoinTimeout
<1>8. HandlerStep \/ BridgeStep =>
        \/ /\ UNCHANGED <<ipmi_msgq, h_msg, h_pc>> /\ t_pc \in {"reply", "send"}
           /\ replies' = Append(replies, t_msg) /\ t_pc' = "done"
        \/ UNCHANGED <<ipmi_msgq, replies, h_msg, h_pc>> /\ (t_pc = "done" => t_pc' = "done")
  BY DEF HandlerStep, BridgeStep, CmdCopy, CmdRun, CmdHang, CmdReply, SendResponse,
         SendResponseTimeout, SendResponsePut, Respond, BridgeResponse, BridgeResponsePut
<1> QED BY <1>3, <1>4, <1>5, <1>6, <1>7, <1>8

LEMMA QueueNext == QueueInv /\ [Next]_vars => QueueInv'
<1> SUFFICES ASSUME QueueInv, [Next]_vars PROVE QueueInv'
  OBVIOUS
<1>1. ASSUME NEW p \in Producer, Notify(p) \/ ProducerStep(p) PROVE QueueInv'
  <2>1. TypeOK' /\ CallsInv' /\ OrderInv'
    BY <1>1, ProducerType, ProducerOrder DEF QueueInv
  <2>2. UNCHANGED handler
    BY <1>1 DEF Notify, ProducerStep, FirstPut, Lock, LockTimeout, PurgeCheck, Purge, PutAgain
  <2>3. HandlerInv' /\ MutexInv'
    BY <2>2 DEF QueueInv, HandlerInv, MutexInv, handler, sending
  <2> QED BY <2>1, <2>3 DEF QueueInv
<1>2. CASE DispatcherStep \/ HandlerStep \/ BridgeStep
  <2>1. TypeOK' /\ MutexInv' /\ UNCHANGED producers
    BY <1>2, HandlerType DEF QueueInv
  <2>2. CallsInv'
    BY <2>1 DEF QueueInv, CallsInv, producers
  <2> QED BY <1>2, <2>1, <2>2, HandlerKeeps, HandlerOrder DEF QueueInv
<1>3. CASE UNCHANGED vars
  BY <1>3 DEF vars, producers, handler, sending, QueueInv, TypeOK, CallsInv, HandlerInv, MutexInv,
              OrderInv, RepliesInOrder, Past
<1> QED BY <1>1, <1>2, <1>3 DEF Next

\* notify_ipmi_client, IPMI_handler and ipmi_cmd_handle: for any producers, queue
\* length and number of retries, the requests of a producer are answered in the
\* order it made them and none twice, although the queue is purged, puts are
\* repeated and handlers are aborted.
THEOREM AnswersInOrder == Spec => [](TypeOK /\ RepliesInOrder)
<1>1. QueueInv => TypeOK /\ RepliesInOrder
  BY DEF QueueInv, OrderInv
<1> QED BY QueueInit, QueueNext, <1>1, PTL DEF Spec

----------------------------------------------------------------------------
(***************************************************************************)
(* The global enables.                                                     *)
(***************************************************************************)
\* v is the byte of a SET whose response was lost or whose handler was aborted.
Lost(v) == \E m \in unanswered : m.cmd = "SET" /\ m.val = v

Answering == t_pc \in {"reply", "send"}

\* The stored byte is that of the last SET acknowledged, or of one that was lost,
\* or of the one whose response is about to go out; and so is what a GET that has
\* been executed will answer.
EnablesInv ==
  /\ \/ enables = LastAcked(Len(replies) + 1)
     \/ Lost(enables)
     \/ Answering /\ t_msg.cmd = "SET"
  /\ Answering /\ t_msg.cmd = "SET" => t_msg.val = enables
  /\ Answering /\ t_msg.cmd = "GET" =>
       t_msg.val = LastAcked(Len(replies) + 1) \/ Lost(t_msg.val)
  /\ GetReadsAcked

\* Of the acknowledged SETs before a reply there is a last one.
LEMMA MaxExists ==
  ASSUME NEW i \in Nat, NEW S, S \subseteq 1 .. i, S # {}
  PROVE  \E j \in S : \A k \in S : k <= j
<1> DEFINE N == {i - j : j \in S}
<1>1. N \subseteq Nat /\ N # {}
  <2>1. \A j \in S : i - j \in Nat
    OBVIOUS
  <2> QED BY <2>1
<1> HIDE DEF N
<1>2. PICK n \in N : \A m \in N : ~(<<m, n>> \in OpToRel(<, Nat))
  BY <1>1, WFMin, NatLessThanWellFounded
<1>3. ASSUME NEW m \in N PROVE n <= m
  <2>1. m \in Nat /\ n \in Nat
    BY <1>1
  <2>2. ASSUME m < n PROVE <<m, n>> \in OpToRel(<, Nat)
    BY <2>1, <2>2, Zenon DEF OpToRel
  <2>3. ~(m < n)
    BY <1>2, <2>2, Zenon
  <2> QED BY <2>1, <2>3
<1>4. PICK j \in S : n = i - j
  BY DEF N
<1>5. ASSUME NEW k \in S PROVE k <= j
  <2>1. i - j <= i - k
    BY <1>3, <1>4 DEF N
  <2> QED BY <2>1
<1> QED BY <1>5

LastOf(S) == CHOOSE j \in S : \A k \in S : k <= j

LEMMA LastOfProperties ==
  ASSUME NEW i \in Nat, NEW S, S \subseteq 1 .. i, S # {}
  PROVE  LastOf(S) \in S /\ \A k \in S : k <= LastOf(S)
BY MaxExists DEF LastOf

\* What a new reply changes about the last acknowledged SET.
LEMMA LastAckedAppend ==
  ASSUME TypeOK, replies' = Append(replies, t_msg), NEW n, n = Len(replies) + 1
  PROVE  /\ \A i \in 1 .. n : LastAcked(i)' = LastAcked(i)
         /\ t_msg.cmd = "SET" => LastAcked(n + 1)' = t_msg.val
         /\ t_msg.cmd # "SET" => LastAcked(n + 1)' = LastAcked(n)
<1>1. /\ Len(replies) \in Nat /\ n \in Nat /\ n - 1 = Len(replies)
      /\ \A i \in 1 .. Len(replies) : replies'[i] = replies[i]
      /\ replies'[n] = t_msg
  BY AppendElements DEF TypeOK
<1>2. ASSUME NEW S, S \subseteq 1 .. Len(replies), S # {}
      PROVE  replies'[LastOf(S)] = replies[LastOf(S)]
  <2>1. LastOf(S) \in S
    BY <1>1, <1>2, LastOfProperties
  <2> QED BY <1>1, <1>2, <2>1
<1>3. ASSUME NEW i \in 1 .. n PROVE LastAcked(i)' = LastAcked(i)
  <2>1. AckedSets(i) \subseteq 1 .. Len(replies) /\ AckedSets(i)' = AckedSets(i)
    BY <1>1 DEF AckedSets
  <2>2. LastAcked(i) = IF AckedSets(i) = {} THEN 0 ELSE replies[LastOf(AckedSets(i))].val
    BY DEF LastAcked, LastOf
  <2>3. LastAcked(i)' = IF AckedSets(i)' = {} THEN 0 ELSE replies'[LastOf(AckedSets(i)')].val
    BY DEF LastAcked, LastOf
  <2>4. LastAcked(i)' = IF AckedSets(i) = {} THEN 0 ELSE replies'[LastOf(AckedSets(i))].val
    BY <2>1, <2>3, Zenon
  <2>5. AckedSets(i) # {} => replies'[LastOf(AckedSets(i))] = replies[LastOf(AckedSets(i))]
    BY <1>2, <2>1
  <2>6. CASE AckedSets(i) = {}
    BY <2>2, <2>4, <2>6, Zenon
  <2>7. CASE AckedSets(i) # {}
    BY <2>2, <2>4, <2>5, <2>7, Zenon
  <2> QED BY <2>6, <2>7
<1>4. /\ LastAcked(n) = IF AckedSets(n) = {} THEN 0 ELSE replies[LastOf(AckedSets(n))].val
      /\ LastAcked(n + 1)' = IF AckedSets(n + 1)' = {} THEN 0
                             ELSE replies'[LastOf(AckedSets(n + 1)')].val
  BY DEF LastAcked, LastOf
<1>5. AckedSets(n) \subseteq 1 .. Len(replies)
  BY <1>1 DEF AckedSets
<1>6. ASSUME t_msg.cmd = "SET" PROVE LastAcked(n + 1)' = t_msg.val
  <2>1. n \in AckedSets(n + 1)' /\ AckedSets(n + 1)' \subseteq 1 .. n
    BY <1>1, <1>6 DEF AckedSets
  <2>2. LastOf(AckedSets(n + 1)') \in 1 .. n /\ n <= LastOf(AckedSets(n + 1)')
    BY <1>1, <2>1, LastOfProperties
  <2>3. LastOf(AckedSets(n + 1)') = n
    BY <1>1, <2>2
  <2>4. AckedSets(n + 1)' # {}
    BY <2>1
  <2>5. LastAcked(n + 1)' = replies'[LastOf(AckedSets(n + 1)')].val
    BY <1>4, <2>4, Zenon
  <2> QED BY <1>1, <2>3, <2>5, Zenon
<1>7. ASSUME t_msg.cmd # "SET" PROVE LastAcked(n + 1)' = LastAcked(n)
  <2>1. AckedSets(n + 1)' = AckedSets(n)
    BY <1>1, <1>7 DEF AckedSets
  <2> QED BY <1>2, <1>4, <1>5, <2>1
<1> QED BY <1>3, <1>6, <1>7

LEMMA EnablesInit == Init => EnablesInv
<1> SUFFICES ASSUME Init PROVE EnablesInv
  OBVIOUS
<1>1. Len(replies) = 0 /\ 1 .. Len(replies) = {}
  BY EmptySeq DEF Init
<1>2. AckedSets(Len(replies) + 1) = {}
  BY <1>1 DEF AckedSets
<1>3. LastAcked(Len(replies) + 1) = 0
  BY <1>2 DEF LastAcked
<1> QED BY <1>1, <1>3 DEF Init, EnablesInv, GetReadsAcked, Answering

\* A step that sends nothing: the replies stay, and what was lost stays lost.
LEMMA EnablesQuiet ==
  ASSUME EnablesInv, UNCHANGED replies, unanswered \subseteq unanswered',
         \/ enables' = LastAcked(Len(replies) + 1)
         \/ Lost(enables)'
         \/ Answering' /\ t_msg'.cmd = "SET",
         Answering' /\ t_msg'.cmd = "SET" => t_msg'.val = enables',
         Answering' /\ t_msg'.cmd = "GET" =>
           t_msg'.val = LastAcked(Len(replies) + 1) \/ Lost(t_msg.val)'
  PROVE  EnablesInv'
<1>1. \A i : LastAcked(i)' = LastAcked(i)
  BY DEF LastAcked, AckedSets
<1>2. LastAcked(Len(replies) + 1)' = LastAcked(Len(replies) + 1)
  BY DEF LastAcked, AckedSets
<1>3. GetReadsAcked'
  BY <1>1 DEF EnablesInv, GetReadsAcked
<1> QED BY <1>2, <1>3 DEF EnablesInv

LEMMA EnablesStep ==
  ASSUME QueueInv, EnablesInv, [Next]_vars
  PROVE  EnablesInv'
<1>1. TypeOK /\ HandlerInv
  BY DEF QueueInv
<1>2. CASE UNCHANGED <<t_pc, t_msg, enables, replies, unanswered>>
  BY <1>2, EnablesQuiet DEF EnablesInv, Answering, Lost
<1>3. CASE CmdRun
  <2>1. ~Answering /\ UNCHANGED <<replies, unanswered>>
    BY <1>3 DEF Answering, CmdRun
  <2>2. enables = LastAcked(Len(replies) + 1) \/ Lost(enables)
    BY <2>1 DEF EnablesInv
  <2>3. CASE t_msg.cmd = "SET"
    <3>1. Answering' /\ t_msg'.cmd = "SET" /\ t_msg'.val = enables'
      BY <1>3, <2>3 DEF CmdRun, Answering
    <3> QED BY <2>1, <3>1, EnablesQuiet
  <2>4. CASE t_msg.cmd # "SET"
    <3>1. /\ enables' = enables /\ t_msg'.cmd = t_msg.cmd
          /\ t_msg.cmd = "GET" => t_msg'.val = enables
      BY <1>1, <1>3, <2>4 DEF CmdRun, TypeOK, Msg
    <3> QED BY <2>1, <2>2, <2>4, <3>1, EnablesQuiet DEF Lost
  <2> QED BY <2>3, <2>4
<1>4. CASE SendResponse
  <2>1. Answering /\ Answering' /\ UNCHANGED <<t_msg, enables, replies, unanswered>>
    BY <1>4 DEF SendResponse, Answering
  <2> QED BY <2>1, EnablesQuiet DEF EnablesInv, Lost
<1>5. CASE /\ Answering /\ ~Answering' /\ UNCHANGED <<enables, replies>>
           /\ unanswered' = unanswered \cup {h_msg}
  <2>1. t_msg.cmd = "SET" => h_msg.cmd = "SET" /\ h_msg.val = t_msg.val
    BY <1>1, <1>5 DEF HandlerInv, Answering
  <2>2. enables' = LastAcked(Len(replies) + 1) \/ Lost(enables)'
    BY <1>5, <2>1 DEF EnablesInv, Lost
  <2> QED BY <1>5, <2>2, EnablesQuiet
<1>6. CASE /\ ~Answering /\ ~Answering' /\ UNCHANGED <<enables, replies>>
           /\ unanswered \subseteq unanswered'
  <2>1. enables' = LastAcked(Len(replies) + 1) \/ Lost(enables)'
    BY <1>6 DEF EnablesInv, Lost
  <2> QED BY <1>6, <2>1, EnablesQuiet
<1>7. CASE /\ Answering /\ ~Answering' /\ UNCHANGED <<enables, unanswered>>
           /\ replies' = Append(replies, t_msg)
  <2>1. PICK n : n = Len(replies) + 1
    OBVIOUS
  <2>2. /\ Len(replies) \in Nat /\ Len(replies') = n
        /\ \A i \in 1 .. Len(replies) : replies'[i] = replies[i]
        /\ replies'[n] = t_msg
        /\ 1 .. n = (1 .. Len(replies)) \cup {n}
    BY <1>1, <1>7, <2>1, AppendElements DEF TypeOK
  <2>3. /\ \A i \in 1 .. n : LastAcked(i)' = LastAcked(i)
        /\ t_msg.cmd = "SET" => LastAcked(n + 1)' = t_msg.val
        /\ t_msg.cmd # "SET" => LastAcked(n + 1)' = LastAcked(n)
    BY <1>1, <1>7, <2>1, LastAckedAppend
  <2>4. LastAcked(Len(replies) + 1)' = LastAcked(n + 1)'
    BY <2>2
  <2>5. enables' = LastAcked(Len(replies) + 1)' \/ Lost(enables)'
    BY <1>7, <2>1, <2>3, <2>4 DEF EnablesInv, Lost
  <2>6. GetReadsAcked'
    <3> SUFFICES ASSUME NEW i \in 1 .. Len(replies'), replies'[i].cmd = "GET"
                 PROVE  replies'[i].val = LastAcked(i)' \/ Lost(replies[i].val)'
      BY DEF GetReadsAcked, Lost
    <3>1. LastAcked(i)' = LastAcked(i)
      BY <2>2, <2>3
    <3>2. CASE i = n
      BY <1>7, <2>1, <2>2, <3>1, <3>2 DEF EnablesInv, Lost
    <3>3. CASE i \in 1 .. Len(replies)
      BY <1>7, <2>2, <3>1, <3>3 DEF EnablesInv, GetReadsAcked, Lost
    <3> QED BY <2>2, <3>2, <3>3
  <2> QED BY <1>7, <2>5, <2>6 DEF EnablesInv
<1>8. ASSUME Next
      PROVE  \/ UNCHANGED <<t_pc, t_msg, enables, replies, unanswered>>
             \/ CmdRun \/ SendResponse
             \/ /\ Answering /\ ~Answering' /\ UNCHANGED <<enables, replies>>
                /\ unanswered' = unanswered \cup {h_msg}
             \/ /\ ~Answering /\ ~Answering' /\ UNCHANGED <<enables, replies>>
                /\ unanswered \subseteq unanswered'
             \/ /\ Answering /\ ~Answering' /\ UNCHANGED <<enables, unanswered>>
                /\ replies' = Append(replies, t_msg)
  <2>1. ASSUME NEW p \in Producer, Notify(p) \/ ProducerStep(p)
        PROVE  UNCHANGED <<t_pc, t_msg, enables, replies, unanswered>>
    BY <2>1 DEF Notify, ProducerStep, FirstPut, Lock, LockTimeout, PurgeCheck, Purge, PutAgain,
                handler
  <2> QED BY <1>1, <1>8, <2>1 DEF Next, DispatcherStep, HandlerStep, BridgeStep, Dispatch, JoinDone,
        JoinTimeout, CmdCopy, CmdHang, CmdReply, SendResponseTimeout, SendResponsePut,
        Respond, BridgeResponse, BridgeResponsePut, Answering, HandlerInv
<1> QED BY <1>2, <1>3, <1>4, <1>5, <1>6, <1>7, <1>8 DEF vars, handler

\* APP_GET_BMC_GLOBAL_ENABLES behind the queue, the aborts and lost responses: a
\* GET is answered with the byte of the last SET acknowledged before it, or with
\* that of a SET that was executed and whose acknowledgement was lost.
THEOREM GetsReadAcked == Spec => []GetReadsAcked
<1>1. QueueInv /\ EnablesInv /\ [Next]_vars => EnablesInv'
  BY EnablesStep
<1>2. EnablesInv => GetReadsAcked
  BY DEF EnablesInv
<1> QED BY QueueInit, QueueNext, EnablesInit, <1>1, <1>2, PTL DEF Spec

\* notify_ipmi_client: a call that reports success has put its message into the
\* queue, whatever full queues, purges and lock timeouts it went through.
THEOREM SuccessMeansQueued == Spec => []SuccessIsQueued
<1>1. Init => SuccessIsQueued
  BY DEF Init, SuccessIsQueued
<1>2. QueueInv /\ SuccessIsQueued /\ [Next]_vars => SuccessIsQueued'
  <2> SUFFICES ASSUME TypeOK, SuccessIsQueued, [Next]_vars, MutexInv PROVE SuccessIsQueued'
    BY DEF QueueInv
  <2>1. ASSUME NEW p \in Producer, Notify(p) PROVE SuccessIsQueued'
    BY <2>1 DEF Notify, TypeOK, SuccessIsQueued
  <2>2. ASSUME NEW p \in Producer, ProducerStep(p) PROVE SuccessIsQueued'
    <3>1. UNCHANGED msg /\ queued \subseteq queued'
      BY <2>2 DEF ProducerStep, FirstPut, Lock, LockTimeout, PurgeCheck, Purge, PutAgain, Put
    <3>2. /\ \A u \in Producer \ {p} : result'[u] = result[u]
          /\ result'[p] = "SUCCESS" => result[p] = "SUCCESS" \/ msg[p].id \in queued'
      BY <2>2 DEF ProducerStep, FirstPut, Lock, LockTimeout, PurgeCheck, Purge, PutAgain, Put,
                  Return, TypeOK
    <3> QED BY <3>1, <3>2 DEF SuccessIsQueued
  <2>3. CASE DispatcherStep \/ HandlerStep \/ BridgeStep \/ UNCHANGED vars
    <3>1. UNCHANGED <<queued, producers>>
      BY <2>3, HandlerType DEF vars
    <3> QED BY <3>1 DEF SuccessIsQueued, producers
  <2> QED BY <2>1, <2>2, <2>3 DEF Next
<1> QED BY QueueInit, QueueNext, <1>1, <1>2, PTL DEF Spec
=============================================================================
