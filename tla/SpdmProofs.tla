----------------------------- MODULE SpdmProofs -----------------------------
(***************************************************************************)
(* The mailboxes of the two SPDM programs, proved for every number of      *)
(* frames, peers and messages.                                             *)
(***************************************************************************)
EXTENDS MCSpdm, SequenceTheorems, TLAPS

(***************************************************************************)
(* The responder.  Frames are numbered in the order they arrive, and the   *)
(* mailbox holds the newest.  What has been answered is older than what    *)
(* main works on, and that is older than a frame that is still pending.    *)
(***************************************************************************)
Busy == {"copy", "consume", "respond"}

AnsweredBefore(n) == \A i \in 1 .. Len(sent) : sent[i].body[2] < n

NewestInMailbox == pending_rx = [h \in Half |-> Len(frames)]

AnsweredInTurn ==
  /\ \A i \in 1 .. Len(sent) : /\ sent[i].body[1] <= sent[i].body[2]
                               /\ sent[i].body[2] <= Len(frames)
  /\ \A i, j \in 1 .. Len(sent) : i < j => sent[i].body[2] < sent[j].body[1]

InWorkInTurn ==
  /\ pc \in Busy => receiver_buf[1] <= Len(frames) /\ AnsweredBefore(receiver_buf[1])
  /\ pc \in {"consume", "respond"} =>
       receiver_buf[1] <= receiver_buf[2] /\ receiver_buf[2] <= Len(frames)

PendingInTurn ==
  pending_valid =>
    /\ pc \notin {"copy", "consume"} => AnsweredBefore(Len(frames))
    /\ pc = "respond" => receiver_buf[2] < Len(frames)

ResponderInv ==
  MailboxInv /\ NewestInMailbox /\ AnsweredInTurn /\ InWorkInTurn /\ PendingInTurn

LEMMA ResponderInit == Init => ResponderInv
<1> SUFFICES ASSUME Init PROVE ResponderInv
  OBVIOUS
<1>1. << >> \in Seq([eid : Eid, tag : Tag]) /\ << >> \in Seq(Response) /\ Len(<< >>) = 0
  BY EmptySeq
<1>2. TypeOK
  <2>1. pending_rx \in [Half -> FrameNo] /\ receiver_buf \in [Half -> FrameNo]
        /\ spdm_rx_sem \in 0 .. 1 /\ Len(frames) <= MaxFrames
    BY <1>1, FrameAssumption DEF Init, FrameNo
  <2>2. /\ usb_configured \in BOOLEAN /\ pending_valid \in BOOLEAN
        /\ sender_in_use \in BOOLEAN /\ receiver_in_use \in BOOLEAN
    BY Zenon DEF Init
  <2> QED BY <1>1, <2>1, <2>2, Zenon DEF Init, TypeOK
<1>3. PendingHasWakeup /\ BuffersReleased
  BY DEF Init, PendingHasWakeup, BuffersReleased
<1>4. NewestInMailbox /\ AnsweredInTurn /\ InWorkInTurn /\ PendingInTurn
  BY <1>1 DEF Init, NewestInMailbox, AnsweredInTurn, InWorkInTurn, PendingInTurn, Busy
<1> QED BY <1>2, <1>3, <1>4 DEF ResponderInv, MailboxInv

\* What the types say in numbers.
LEMMA ResponderNumbers ==
  ASSUME TypeOK
  PROVE  /\ Len(frames) \in Nat /\ Len(sent) \in Nat
         /\ receiver_buf[1] \in Nat /\ receiver_buf[2] \in Nat
         /\ DOMAIN receiver_buf = Half
         /\ \A i \in 1 .. Len(sent) : sent[i].body[1] \in Nat /\ sent[i].body[2] \in Nat
<1>1. Len(frames) \in Nat /\ Len(sent) \in Nat
  BY LenProperties DEF TypeOK
<1>2. \A f \in [Half -> FrameNo] : f[1] \in Nat /\ f[2] \in Nat
  BY FrameAssumption DEF Half, FrameNo
<1>3. ASSUME NEW i \in 1 .. Len(sent) PROVE sent[i].body \in [Half -> FrameNo]
  <2>1. sent[i] \in Response
    BY ElementOfSeq DEF TypeOK
  <2> QED BY <2>1 DEF Response
<1> QED BY <1>1, <1>2, <1>3 DEF TypeOK

\* rx_message: the new frame is newer than everything that went before.
LEMMA RxMessageInv ==
  ASSUME ResponderInv, NEW eid \in Eid, NEW tag \in Tag, RxMessage(eid, tag)
  PROVE  ResponderInv'
<1>1. TypeOK /\ Len(frames) < MaxFrames
  BY DEF ResponderInv, MailboxInv, RxMessage
<1>2. frames' \in Seq([eid : Eid, tag : Tag]) /\ Len(frames') = Len(frames) + 1
  BY <1>1, AppendProperties DEF RxMessage, TypeOK
<1>3. TypeOK'
  <2>1. pending_rx' \in [Half -> FrameNo] /\ spdm_rx_sem' \in 0 .. 1 /\ Len(frames') <= MaxFrames
    BY <1>1, <1>2, ResponderNumbers, FrameAssumption DEF RxMessage, FrameNo
  <2> QED BY <1>1, <1>2, <2>1, Zenon DEF TypeOK, RxMessage, buffers
<1>4. PendingHasWakeup' /\ BuffersReleased'
  BY DEF ResponderInv, MailboxInv, PendingHasWakeup, BuffersReleased, RxMessage, buffers
<1>5. NewestInMailbox'
  BY <1>2 DEF RxMessage, NewestInMailbox
<1>6. AnsweredInTurn' /\ InWorkInTurn' /\ PendingInTurn'
  BY <1>1, <1>2, ResponderNumbers DEF ResponderInv, RxMessage, buffers, AnsweredInTurn,
     InWorkInTurn, PendingInTurn, AnsweredBefore, Busy
<1> QED BY <1>3, <1>4, <1>5, <1>6 DEF ResponderInv, MailboxInv

\* The steps that touch neither frames nor responses: set-up, semaphore, buffers.
LEMMA WaitingInv ==
  ASSUME ResponderInv,
         \/ SampleMsgCb \/ BootDone \/ SpdmResponderInit \/ SemTake \/ ReceiveFails
         \/ SendFails \/ ReleaseSender \/ UNCHANGED vars
  PROVE  ResponderInv'
<1>1. /\ TypeOK /\ PendingHasWakeup /\ BuffersReleased /\ NewestInMailbox
      /\ AnsweredInTurn /\ InWorkInTurn /\ PendingInTurn
  BY DEF ResponderInv, MailboxInv
<1>2. /\ UNCHANGED <<mailbox, receiver_buf, frames, sent>>
      /\ pc' \in Busy => pc' = pc
      /\ pc \in {"copy", "consume"} => pc' = pc
      /\ pc' \in {"boot", "init", "stopped", "wait", "receive", "copy", "consume", "respond",
                  "release"}
  BY <1>1 DEF SampleMsgCb, BootDone, SpdmResponderInit, SemTake, ReceiveFails, SendFails,
     ReleaseSender, vars, mailbox, buffers, TypeOK, Busy
<1>3. TypeOK'
  <2>1. spdm_rx_sem' \in 0 .. 1
    BY <1>1 DEF TypeOK, SampleMsgCb, BootDone, SpdmResponderInit, SemTake, ReceiveFails,
       SendFails, ReleaseSender, vars
  <2>2. usb_configured' \in BOOLEAN /\ sender_in_use' \in BOOLEAN /\ receiver_in_use' \in BOOLEAN
    BY <1>1, Zenon DEF TypeOK, SampleMsgCb, BootDone, SpdmResponderInit, SemTake, ReceiveFails,
       SendFails, ReleaseSender, vars, buffers
  <2> QED BY <1>1, <1>2, <2>1, <2>2 DEF TypeOK, mailbox
<1>4. PendingHasWakeup' /\ BuffersReleased'
  BY <1>1 DEF TypeOK, PendingHasWakeup, BuffersReleased, SampleMsgCb, BootDone,
     SpdmResponderInit, SemTake, ReceiveFails, SendFails, ReleaseSender, vars, mailbox, buffers
<1>5. NewestInMailbox' /\ AnsweredInTurn' /\ InWorkInTurn' /\ PendingInTurn'
  BY <1>1, <1>2 DEF NewestInMailbox, AnsweredInTurn, InWorkInTurn, PendingInTurn, AnsweredBefore,
     Busy, mailbox
<1> QED BY <1>3, <1>4, <1>5 DEF ResponderInv, MailboxInv

\* The two halves of the memcpy.
LEMMA CopyInv ==
  ASSUME ResponderInv, ReceiveCopyFirst \/ ReceiveCopyRest
  PROVE  ResponderInv'
<1>1. TypeOK /\ Len(frames) <= MaxFrames
  BY DEF ResponderInv, MailboxInv, TypeOK
<1>2. pending_rx[1] = Len(frames) /\ pending_rx[2] = Len(frames)
  BY DEF ResponderInv, NewestInMailbox, Half
<1>3. TypeOK'
  <2>1. receiver_buf' \in [Half -> FrameNo]
    BY <1>1, <1>2, ResponderNumbers, FrameAssumption
       DEF TypeOK, ReceiveCopyFirst, ReceiveCopyRest, FrameNo, Half
  <2> QED BY <1>1, <2>1 DEF TypeOK, ReceiveCopyFirst, ReceiveCopyRest, mailbox
<1>4. PendingHasWakeup' /\ BuffersReleased'
  BY DEF ResponderInv, MailboxInv, PendingHasWakeup, BuffersReleased,
     ReceiveCopyFirst, ReceiveCopyRest, mailbox
<1>5. NewestInMailbox' /\ AnsweredInTurn'
  BY DEF ResponderInv, NewestInMailbox, AnsweredInTurn, ReceiveCopyFirst, ReceiveCopyRest, mailbox
<1>6. InWorkInTurn' /\ PendingInTurn'
  BY <1>1, <1>2, ResponderNumbers DEF ResponderInv, InWorkInTurn, PendingInTurn, AnsweredBefore,
     Busy, ReceiveCopyFirst, ReceiveCopyRest, mailbox, Half
<1> QED BY <1>3, <1>4, <1>5, <1>6 DEF ResponderInv, MailboxInv

\* pending_valid = false: what is pending after this has arrived later.
LEMMA ConsumeInv == ASSUME ResponderInv, ReceiveConsume PROVE ResponderInv'
<1>1. TypeOK' /\ PendingHasWakeup' /\ BuffersReleased'
  BY DEF ResponderInv, MailboxInv, TypeOK, PendingHasWakeup, BuffersReleased, ReceiveConsume
<1>2. NewestInMailbox' /\ AnsweredInTurn' /\ InWorkInTurn' /\ PendingInTurn'
  BY DEF ResponderInv, NewestInMailbox, AnsweredInTurn, InWorkInTurn, PendingInTurn,
     AnsweredBefore, Busy, ReceiveConsume
<1> QED BY <1>1, <1>2 DEF ResponderInv, MailboxInv

\* The response is the newest answer.
LEMMA SendInv == ASSUME ResponderInv, SendMessage PROVE ResponderInv'
<1> DEFINE r == [body |-> receiver_buf, eid |-> pending_eid, tag |-> pending_msg_tag]
<1>1. TypeOK
  BY DEF ResponderInv, MailboxInv
<1>2. r \in Response
  BY <1>1 DEF TypeOK, Response
<1>3. /\ sent' \in Seq(Response) /\ Len(sent') = Len(sent) + 1
      /\ \A i \in 1 .. Len(sent) : sent'[i] = sent[i]
      /\ sent'[Len(sent) + 1].body = receiver_buf
  BY <1>1, <1>2, AppendProperties DEF SendMessage, TypeOK
<1>4. TypeOK' /\ PendingHasWakeup' /\ BuffersReleased' /\ NewestInMailbox'
  BY <1>1, <1>3 DEF ResponderInv, MailboxInv, TypeOK, PendingHasWakeup, BuffersReleased,
     NewestInMailbox, SendMessage, mailbox, buffers
<1>5. /\ receiver_buf[1] <= receiver_buf[2] /\ receiver_buf[2] <= Len(frames)
      /\ AnsweredBefore(receiver_buf[1])
  BY DEF ResponderInv, InWorkInTurn, SendMessage, Busy
<1>6. AnsweredInTurn'
  BY <1>1, <1>3, <1>5, ResponderNumbers
     DEF ResponderInv, AnsweredInTurn, AnsweredBefore, SendMessage
<1>7. InWorkInTurn' /\ PendingInTurn'
  BY <1>1, <1>3, <1>5, ResponderNumbers DEF ResponderInv, InWorkInTurn, PendingInTurn,
     AnsweredBefore, Busy, SendMessage, mailbox, buffers
<1> QED BY <1>4, <1>6, <1>7 DEF ResponderInv, MailboxInv

LEMMA ResponderNext == ResponderInv /\ [Next]_vars => ResponderInv'
<1> SUFFICES ASSUME ResponderInv, [Next]_vars PROVE ResponderInv'
  OBVIOUS
<1> QED BY RxMessageInv, WaitingInv, CopyInv, ConsumeInv, SendInv
        DEF Next, Main, RxMessageIgnored

----------------------------------------------------------------------------
\* rx_message and the dispatch loop lose no wakeup and leave no buffer taken.
THEOREM ResponderMailbox == Spec => []MailboxInv
<1>1. ResponderInv => MailboxInv
  BY DEF ResponderInv
<1> QED BY <1>1, ResponderInit, ResponderNext, PTL DEF Spec

\* No frame is answered twice, whatever arrives while main copies and sends.
THEOREM ResponderAnswersOnce == Spec => []AnsweredOnce
<1>1. ResponderInv => AnsweredOnce
  <2> SUFFICES ASSUME ResponderInv, NEW i \in 1 .. Len(sent), NEW j \in 1 .. Len(sent),
                      sent[i].body = sent[j].body, i # j
               PROVE  FALSE
    BY DEF AnsweredOnce
  <2>1. i < j \/ j < i
    BY ResponderNumbers DEF ResponderInv, MailboxInv
  <2> QED BY <2>1, ResponderNumbers DEF ResponderInv, MailboxInv, AnsweredInTurn
<1> QED BY <1>1, ResponderInit, ResponderNext, PTL DEF Spec

----------------------------------------------------------------------------
(***************************************************************************)
(* The requester.  A host that sends nothing unasked and answers a request *)
(* once owes nothing before the request is sent; from then on either the   *)
(* answer is owed or it is in the mailbox.                                 *)
(***************************************************************************)
Waiting == {"receive", "take", "check"}

InFlow == rq_pc \in {"tx", "copy", "consume"} \cup Waiting => step <= Len(Requester!Flow)

BuffersHeld ==
  /\ rq_sender_in_use => rq_pc = "tx"
  /\ rq_receiver_in_use => rq_pc \in {"copy", "consume"} \cup Waiting

OneAnswerOut ==
  events = 0 =>
    /\ rq_pc \in {"boot", "init", "send", "tx"} => owed = {} /\ ~rq_pending_valid
    /\ rq_pc \in Waiting =>
         \/ owed = {step} /\ ~rq_pending_valid
         \/ owed = {} /\ rq_pending_valid /\ rq_pending_rx.of = step
    /\ rq_pc = "copy" =>
         owed = {} /\ rq_pending_rx.of = step /\ rq_receiver_buf[1].of = step
    /\ rq_pc = "consume" =>
         owed = {} /\ rq_receiver_buf[1].of = step /\ rq_receiver_buf[2].of = step

RequesterInv == Requester!MailboxInv /\ InFlow /\ BuffersHeld /\ OneAnswerOut

LEMMA FlowLength == Len(Requester!Flow) \in Nat /\ Requester!Step = 1 .. Len(Requester!Flow)
BY DEF Requester!Flow, Requester!Step

LEMMA RequesterInit == Requester!Init => RequesterInv
<1> SUFFICES ASSUME Requester!Init PROVE RequesterInv
  OBVIOUS
<1>1. Requester!NoFrame \in Requester!Frame
  BY DEF Requester!NoFrame, Requester!Frame
<1>2. Requester!TypeOK
  <2>1. /\ rq_receiver_buf \in [Requester!Half -> Requester!Frame]
        /\ step \in 1 .. Len(Requester!Flow) + 1 /\ rq_spdm_rx_sem \in 0 .. 1
        /\ tx_msg_tag \in 0 .. 7 /\ events \in 0 .. MaxEvents
    BY <1>1, FlowLength, EventAssumption DEF Requester!Init
  <2>2. /\ rq_usb_configured \in BOOLEAN /\ rq_pending_valid \in BOOLEAN
        /\ rq_sender_in_use \in BOOLEAN /\ rq_receiver_in_use \in BOOLEAN
    BY Zenon DEF Requester!Init
  <2> QED BY <1>1, <2>1, <2>2, Zenon DEF Requester!Init, Requester!TypeOK
<1>3. Requester!PendingHasWakeup /\ Requester!BuffersReleased /\ InFlow
      /\ BuffersHeld /\ OneAnswerOut
  BY DEF Requester!Init, Requester!PendingHasWakeup, Requester!BuffersReleased, InFlow, BuffersHeld,
     OneAnswerOut, Waiting
<1> QED BY <1>2, <1>3 DEF RequesterInv, Requester!MailboxInv

\* rx_message with an answer or with a message sent unasked.
LEMMA RequesterRxInv ==
  ASSUME RequesterInv,
         \/ \E n \in Requester!Step, good \in BOOLEAN : Requester!RxAnswer(n, good)
         \/ Requester!RxEvent
  PROVE  RequesterInv'
<1>1. Requester!TypeOK
  BY DEF RequesterInv, Requester!MailboxInv
<1>2. CASE Requester!RxEvent
  <2>1. Requester!Event \in Requester!Frame
    BY DEF Requester!Event, Requester!Frame
  <2>2. events \in Nat /\ events' = events + 1 /\ events' \in 0 .. MaxEvents
    BY <1>1, <1>2, EventAssumption DEF Requester!RxEvent, Requester!TypeOK
  <2>3. Requester!TypeOK'
    BY <1>1, <1>2, <2>1, <2>2 DEF Requester!TypeOK, Requester!RxEvent, Requester!Store,
       Requester!buffers
  <2>4. Requester!PendingHasWakeup' /\ Requester!BuffersReleased' /\ InFlow' /\ BuffersHeld'
    BY <1>2 DEF RequesterInv, Requester!MailboxInv, Requester!PendingHasWakeup,
       Requester!BuffersReleased, InFlow, BuffersHeld, Waiting, Requester!RxEvent,
       Requester!Store, Requester!buffers
  <2>5. OneAnswerOut'
    BY <2>2 DEF OneAnswerOut
  <2> QED BY <2>3, <2>4, <2>5 DEF RequesterInv, Requester!MailboxInv
<1>3. ASSUME NEW n \in Requester!Step, NEW good \in BOOLEAN, Requester!RxAnswer(n, good)
      PROVE  RequesterInv'
  <2>1. [of |-> n, good |-> good] \in Requester!Frame
    BY DEF Requester!Frame
  <2>2. Requester!TypeOK'
    BY <1>1, <1>3, <2>1 DEF Requester!TypeOK, Requester!RxAnswer, Requester!Store,
       Requester!buffers
  <2>3. Requester!PendingHasWakeup' /\ Requester!BuffersReleased' /\ InFlow' /\ BuffersHeld'
    BY <1>3 DEF RequesterInv, Requester!MailboxInv, Requester!PendingHasWakeup,
       Requester!BuffersReleased, InFlow, BuffersHeld, Waiting, Requester!RxAnswer,
       Requester!Store, Requester!buffers
  <2>4. OneAnswerOut'
    BY <1>3 DEF RequesterInv, OneAnswerOut, Waiting, Requester!RxAnswer, Requester!Store,
       Requester!Attached
  <2> QED BY <2>2, <2>3, <2>4 DEF RequesterInv, Requester!MailboxInv
<1> QED BY <1>2, <1>3

\* Sending: the request is owed from now on.
LEMMA RequesterSendInv ==
  ASSUME RequesterInv, Requester!AcquireSender \/ Requester!SendMessage \/ Requester!SendFails
  PROVE  RequesterInv'
<1>1. Requester!TypeOK
  BY DEF RequesterInv, Requester!MailboxInv
<1>2. Requester!TypeOK'
  <2>1. tx_msg_tag' \in 0 .. 7
    BY <1>1 DEF Requester!TypeOK, Requester!AcquireSender, Requester!SendMessage,
       Requester!SendFails
  <2>2. owed' \subseteq Requester!Step
    <3>1. rq_pc = "tx" => step \in Requester!Step
      BY <1>1, FlowLength DEF RequesterInv, InFlow, Requester!TypeOK
    <3>2. owed' = owed \/ (rq_pc = "tx" /\ owed' = owed \cup {step})
      BY DEF Requester!AcquireSender, Requester!SendMessage, Requester!SendFails, Requester!host
    <3> QED BY <1>1, <3>1, <3>2, Zenon DEF Requester!TypeOK
  <2>3. rq_sender_in_use' \in BOOLEAN /\ rq_receiver_in_use' \in BOOLEAN
    BY <1>1, Zenon DEF Requester!TypeOK, Requester!AcquireSender, Requester!SendMessage,
       Requester!SendFails, Requester!Fail
  <2> QED BY <1>1, <2>1, <2>2, <2>3 DEF Requester!TypeOK, Requester!AcquireSender,
       Requester!SendMessage, Requester!SendFails, Requester!Fail, Requester!mailbox, Requester!host
<1>3. Requester!PendingHasWakeup' /\ Requester!BuffersReleased' /\ InFlow' /\ BuffersHeld'
  BY <1>1 DEF RequesterInv, Requester!MailboxInv, Requester!PendingHasWakeup,
     Requester!BuffersReleased, InFlow, BuffersHeld, Waiting, Requester!AcquireSender,
     Requester!SendMessage, Requester!SendFails, Requester!Fail, Requester!mailbox
<1>4. OneAnswerOut'
  BY <1>1 DEF RequesterInv, OneAnswerOut, Waiting, Requester!AcquireSender, Requester!SendMessage,
     Requester!SendFails, Requester!Fail, Requester!mailbox, Requester!host
<1> QED BY <1>2, <1>3, <1>4 DEF RequesterInv, Requester!MailboxInv

\* Set-up, waiting for the semaphore, and the ways to fail.
LEMMA RequesterWaitInv ==
  ASSUME RequesterInv,
         \/ Requester!SampleMsgCb \/ Requester!BootDone \/ Requester!SpdmRequesterInit
         \/ Requester!ReceiveWaits \/ Requester!SemTake \/ Requester!SemTimeout
         \/ Requester!ReceiveFails \/ Requester!FlowSucceeded \/ UNCHANGED Requester!vars
  PROVE  RequesterInv'
<1> USE DEF Requester!SampleMsgCb, Requester!BootDone, Requester!SpdmRequesterInit,
      Requester!ReceiveWaits, Requester!SemTake, Requester!SemTimeout, Requester!ReceiveFails,
      Requester!FlowSucceeded, Requester!vars, Requester!Fail, Requester!mailbox,
      Requester!buffers, Requester!host
<1>1. Requester!TypeOK
  BY DEF RequesterInv, Requester!MailboxInv
<1>2. Requester!TypeOK'
  <2>1. rq_spdm_rx_sem' \in 0 .. 1
    BY <1>1 DEF Requester!TypeOK
  <2>2. /\ rq_usb_configured' \in BOOLEAN
        /\ rq_sender_in_use' \in BOOLEAN /\ rq_receiver_in_use' \in BOOLEAN
    BY <1>1, Zenon DEF Requester!TypeOK
  <2>3. /\ rq_pc' \in {"boot", "init", "stopped", "send", "tx", "receive", "take", "check",
                       "copy", "consume", "done", "failed"}
        /\ failure' \in {"none", "send", "timeout", "no_frame", "refused"}
        /\ UNCHANGED <<step, rq_pending_rx, rq_pending_valid, rq_receiver_buf, tx_msg_tag,
                       owed, events>>
    BY <1>1 DEF Requester!TypeOK
  <2> QED BY <1>1, <2>1, <2>2, <2>3 DEF Requester!TypeOK
<1>3. Requester!PendingHasWakeup' /\ Requester!BuffersReleased'
  BY <1>1 DEF RequesterInv, Requester!MailboxInv, Requester!PendingHasWakeup,
     Requester!BuffersReleased, BuffersHeld, Waiting
<1>4. InFlow' /\ BuffersHeld' /\ OneAnswerOut'
  BY <1>1 DEF RequesterInv, InFlow, BuffersHeld, OneAnswerOut, Waiting
<1> QED BY <1>2, <1>3, <1>4 DEF RequesterInv, Requester!MailboxInv

\* The two halves of the memcpy.
LEMMA RequesterCopyInv ==
  ASSUME RequesterInv,
         Requester!ReceiveAtOnce \/ Requester!ReceiveCopies \/ Requester!CopyRest
  PROVE  RequesterInv'
<1> USE DEF Requester!ReceiveAtOnce, Requester!ReceiveCopies, Requester!CopyRest,
      Requester!CopyFirst, Requester!mailbox, Requester!buffers, Requester!host
<1>1. Requester!TypeOK
  BY DEF RequesterInv, Requester!MailboxInv
<1>2. Requester!TypeOK'
  BY <1>1 DEF Requester!TypeOK, Requester!Half
<1>3. Requester!PendingHasWakeup' /\ Requester!BuffersReleased' /\ InFlow' /\ BuffersHeld'
  BY DEF RequesterInv, Requester!MailboxInv, Requester!PendingHasWakeup,
     Requester!BuffersReleased, InFlow, BuffersHeld, Waiting
<1>4. OneAnswerOut'
  BY <1>1 DEF RequesterInv, OneAnswerOut, Waiting, Requester!TypeOK, Requester!Half
<1> QED BY <1>2, <1>3, <1>4 DEF RequesterInv, Requester!MailboxInv

\* libspdm accepts the answer and goes on, or the flow stops.
LEMMA RequesterConsumeInv == ASSUME RequesterInv, Requester!Consume PROVE RequesterInv'
<1> USE DEF Requester!Consume, Requester!ConsumeAs, Requester!Fail, Requester!host
<1>1. Requester!TypeOK
  BY DEF RequesterInv, Requester!MailboxInv
<1>2. step' \in 1 .. Len(Requester!Flow) + 1
  BY <1>1, FlowLength DEF RequesterInv, InFlow, Waiting, Requester!TypeOK
<1>3. Requester!TypeOK'
  BY <1>1, <1>2 DEF Requester!TypeOK
<1>4. /\ Requester!PendingHasWakeup' /\ Requester!BuffersReleased'
      /\ InFlow' /\ BuffersHeld' /\ OneAnswerOut'
  BY <1>1 DEF RequesterInv, Requester!MailboxInv, Requester!PendingHasWakeup,
     Requester!BuffersReleased, InFlow, BuffersHeld, OneAnswerOut, Waiting
<1> QED BY <1>3, <1>4 DEF RequesterInv, Requester!MailboxInv

LEMMA RequesterNext == RequesterInv /\ [Requester!Next]_(Requester!vars) => RequesterInv'
<1> SUFFICES ASSUME RequesterInv, [Requester!Next]_(Requester!vars) PROVE RequesterInv'
  OBVIOUS
<1> QED BY RequesterRxInv, RequesterSendInv, RequesterWaitInv, RequesterCopyInv,
           RequesterConsumeInv DEF Requester!Next, Requester!Main

----------------------------------------------------------------------------
\* No wakeup of rx_message is lost and no exchange fails for a buffer.
THEOREM RequesterMailbox == Requester!Spec => []Requester!MailboxInv
<1>1. RequesterInv => Requester!MailboxInv
  BY DEF RequesterInv
<1> QED BY <1>1, RequesterInit, RequesterNext, PTL DEF Requester!Spec

\* Without messages sent unasked libspdm is given the answer to its own request.
THEOREM RequesterInStep == Requester!Spec => []AnswersInStep
<1>1. RequesterInv => AnswersInStep
  BY DEF RequesterInv, OneAnswerOut, AnswersInStep, Requester!AnswersInStep, Requester!Half
<1> QED BY <1>1, RequesterInit, RequesterNext, PTL DEF Requester!Spec
=============================================================================
