--------------------------- MODULE SpdmResponder ---------------------------
(***************************************************************************)
(* The SPDM responder of samples/spdm/spdm_response/src/main.c.  The MCTP  *)
(* receive callback rx_message leaves a frame in one mailbox (pending_rx,  *)
(* pending_eid, pending_msg_tag, pending_valid) and gives a semaphore; the *)
(* main thread takes it and lets libspdm fetch the frame, work on it and   *)
(* send the response with the address that is in the mailbox by then.      *)
(*                                                                         *)
(* rx_message runs in a cooperative thread of the USB stack and is not     *)
(* preempted by main, which is preemptible: rx_message is one action, and  *)
(* can come between any two steps of main, within a memcpy as well.        *)
(* libspdm is external; its dispatch is the sequence of callbacks it makes.*)
(***************************************************************************)
EXTENDS Naturals, Sequences

CONSTANTS Eid, Tag,     \* endpoint ids and message tags of the peers
          MaxFrames     \* bound: frames that arrive in a run

ASSUME FrameAssumption == MaxFrames \in Nat

VARIABLES usb_configured,
          pc,                    \* where the main thread is
          spdm_rx_sem,           \* 0 or 1: K_SEM_DEFINE(spdm_rx_sem, 0, 1)
          pending_rx,            \* the frame in the mailbox, as two halves
          pending_eid, pending_msg_tag, pending_valid,
          receiver_buf,          \* the two halves libspdm has been given
          sender_in_use, receiver_in_use,
          frames,                \* the frames that have arrived (history)
          sent                   \* what went out through mctp_message_tx

mailbox == <<pending_rx, pending_eid, pending_msg_tag, pending_valid>>
buffers == <<receiver_buf, sender_in_use, receiver_in_use>>
vars == <<usb_configured, pc, spdm_rx_sem, mailbox, buffers, frames, sent>>

\* A frame is known by its number; 0 stands for no frame.
FrameNo == 0 .. MaxFrames
Half == {1, 2}

\* What decides the fate of an MCTP message: its type and its length.
Kind == {"spdm", "other_type", "too_large"}

\* The address in the mailbox is zero until the first frame has arrived.
Response == [body : [Half -> FrameNo], eid : Eid \cup {0}, tag : Tag \cup {0}]

TypeOK ==
  /\ usb_configured \in BOOLEAN
  /\ pc \in {"boot", "init", "stopped", "wait", "receive", "copy", "consume",
             "respond", "release"}
  /\ spdm_rx_sem \in 0 .. 1
  /\ pending_rx \in [Half -> FrameNo]
  /\ pending_eid \in Eid \cup {0} /\ pending_msg_tag \in Tag \cup {0}
  /\ pending_valid \in BOOLEAN
  /\ receiver_buf \in [Half -> FrameNo]
  /\ sender_in_use \in BOOLEAN /\ receiver_in_use \in BOOLEAN
  /\ frames \in Seq([eid : Eid, tag : Tag]) /\ Len(frames) <= MaxFrames
  /\ sent \in Seq(Response)

Init ==
  /\ usb_configured = FALSE
  /\ pc = "boot"
  /\ spdm_rx_sem = 0
  /\ pending_rx = [h \in Half |-> 0]
  /\ pending_eid = 0 /\ pending_msg_tag = 0 /\ pending_valid = FALSE
  /\ receiver_buf = [h \in Half |-> 0]
  /\ sender_in_use = FALSE /\ receiver_in_use = FALSE
  /\ frames = << >>
  /\ sent = << >>

----------------------------------------------------------------------------
\* sample_msg_cb: the host has chosen a configuration.
SampleMsgCb ==
  /\ usb_configured' = TRUE
  /\ UNCHANGED <<pc, spdm_rx_sem, mailbox, buffers, frames, sent>>

\* main polls until then, and sets libspdm and MCTP up, or gives up.
BootDone ==
  /\ pc = "boot" /\ usb_configured
  /\ pc' = "init"
  /\ UNCHANGED <<usb_configured, spdm_rx_sem, mailbox, buffers, frames, sent>>

SpdmResponderInit ==
  /\ pc = "init"
  /\ pc' \in {"wait", "stopped"}
  /\ UNCHANGED <<usb_configured, spdm_rx_sem, mailbox, buffers, frames, sent>>

\* rx_message is registered once MCTP is set up.
Attached == pc \notin {"boot", "init", "stopped"}

RxMessage(eid, tag) ==
  /\ Attached
  /\ Len(frames) < MaxFrames
  /\ frames' = Append(frames, [eid |-> eid, tag |-> tag])
  /\ pending_rx' = [h \in Half |-> Len(frames) + 1]
  /\ pending_eid' = eid
  /\ pending_msg_tag' = tag
  /\ pending_valid' = TRUE
  /\ spdm_rx_sem' = 1
  /\ UNCHANGED <<usb_configured, pc, buffers, sent>>

\* Messages of another type, or longer than the mailbox, leave no trace.
RxMessageIgnored(kind) ==
  /\ Attached
  /\ kind # "spdm"
  /\ UNCHANGED vars

----------------------------------------------------------------------------
(***************************************************************************)
(* The main loop: k_sem_take and libspdm_responder_dispatch_message, which *)
(* acquires the receiver buffer, receives, releases it, acquires the       *)
(* sender buffer, sends and releases that.  A buffer that is in use makes  *)
(* the dispatch fail.                                                      *)
(***************************************************************************)
SemTake ==
  /\ pc = "wait"
  /\ spdm_rx_sem = 1
  /\ spdm_rx_sem' = 0
  /\ IF receiver_in_use
       THEN pc' = "wait" /\ UNCHANGED receiver_in_use
       ELSE pc' = "receive" /\ receiver_in_use' = TRUE
  /\ UNCHANGED <<usb_configured, mailbox, receiver_buf, sender_in_use, frames, sent>>

\* Faulty variant: the receiver buffer is not released on this path.
ReceiveFailsHolding ==
  /\ pc = "receive"
  /\ ~pending_valid
  /\ pc' = "wait"
  /\ UNCHANGED <<usb_configured, spdm_rx_sem, mailbox, buffers, frames, sent>>

\* spdm_device_receive_message without a frame: LIBSPDM_STATUS_RECEIVE_FAIL.
ReceiveFails ==
  /\ pc = "receive"
  /\ ~pending_valid
  /\ receiver_in_use' = FALSE
  /\ pc' = "wait"
  /\ UNCHANGED <<usb_configured, spdm_rx_sem, mailbox, receiver_buf, sender_in_use,
                 frames, sent>>

\* With a frame: the memcpy, in two halves, and pending_valid = false.
ReceiveCopyFirst ==
  /\ pc = "receive"
  /\ pending_valid
  /\ receiver_buf' = [receiver_buf EXCEPT ![1] = pending_rx[1]]
  /\ pc' = "copy"
  /\ UNCHANGED <<usb_configured, spdm_rx_sem, mailbox, sender_in_use, receiver_in_use,
                 frames, sent>>

ReceiveCopyRest ==
  /\ pc = "copy"
  /\ receiver_buf' = [receiver_buf EXCEPT ![2] = pending_rx[2]]
  /\ pc' = "consume"
  /\ UNCHANGED <<usb_configured, spdm_rx_sem, mailbox, sender_in_use, receiver_in_use,
                 frames, sent>>

\* Faulty variant: the frame is not consumed.
ReceiveKeeps ==
  /\ pc = "consume"
  /\ receiver_in_use' = FALSE
  /\ IF sender_in_use
       THEN pc' = "wait" /\ UNCHANGED sender_in_use
       ELSE pc' = "respond" /\ sender_in_use' = TRUE
  /\ UNCHANGED <<usb_configured, spdm_rx_sem, mailbox, receiver_buf, frames, sent>>

\* The receiver buffer is released and the sender buffer acquired.
ReceiveConsume ==
  /\ pc = "consume"
  /\ pending_valid' = FALSE
  /\ receiver_in_use' = FALSE
  /\ IF sender_in_use
       THEN pc' = "wait" /\ UNCHANGED sender_in_use
       ELSE pc' = "respond" /\ sender_in_use' = TRUE
  /\ UNCHANGED <<usb_configured, spdm_rx_sem, pending_rx, pending_eid, pending_msg_tag,
                 receiver_buf, frames, sent>>

\* spdm_device_send_message: to the address that is in the mailbox now.
SendMessage ==
  /\ pc = "respond"
  /\ sent' = Append(sent, [body |-> receiver_buf, eid |-> pending_eid,
                           tag |-> pending_msg_tag])
  /\ pc' = "release"
  /\ UNCHANGED <<usb_configured, spdm_rx_sem, mailbox, buffers, frames>>

\* mctp_message_tx fails, or libspdm has no response to send.
SendFails ==
  /\ pc = "respond"
  /\ pc' = "release"
  /\ UNCHANGED <<usb_configured, spdm_rx_sem, mailbox, buffers, frames, sent>>

ReleaseSender ==
  /\ pc = "release"
  /\ sender_in_use' = FALSE
  /\ pc' = "wait"
  /\ UNCHANGED <<usb_configured, spdm_rx_sem, mailbox, receiver_buf, receiver_in_use,
                 frames, sent>>

Main == \/ BootDone \/ SpdmResponderInit
        \/ SemTake \/ ReceiveFails \/ ReceiveCopyFirst \/ ReceiveCopyRest
        \/ ReceiveConsume \/ SendMessage \/ SendFails \/ ReleaseSender

Next == \/ SampleMsgCb
        \/ \E eid \in Eid, tag \in Tag : RxMessage(eid, tag)
        \/ \E kind \in Kind : RxMessageIgnored(kind)
        \/ Main

Spec == Init /\ [][Next]_vars

\* The main thread runs whenever it is not waiting.
FairSpec == Spec /\ WF_vars(Main)

----------------------------------------------------------------------------
\* A frame in the mailbox has a wakeup coming for it, however the callback and
\* the main thread interleave: either the semaphore is up or main is on its way
\* to receive.
PendingHasWakeup ==
  pending_valid => spdm_rx_sem = 1 \/ pc \in {"receive", "copy", "consume"}

\* The buffers are in use exactly in the part of a dispatch that needs them, so
\* no dispatch can fail to acquire one because an earlier one ended badly.
BuffersReleased ==
  /\ receiver_in_use <=> pc \in {"receive", "copy", "consume"}
  /\ sender_in_use <=> pc \in {"respond", "release"}

\* What the callback and the dispatch loop keep between them, on every path of a
\* dispatch: types, wakeups and buffers.
MailboxInv == TypeOK /\ PendingHasWakeup /\ BuffersReleased

\* main.c:221 "so that dispatch does not read the same packet again": no frame
\* is the whole content of two responses.
AnsweredOnce ==
  \A i, j \in 1 .. Len(sent) : sent[i].body = sent[j].body => i = j

\* A pending frame does not stay in the mailbox.
MailboxEmptied == pending_valid ~> ~pending_valid

\* main.c:148 "the response must go to EID pending_eid, the source of the
\* request, with the tag the request came with".
ReplyToRequester ==
  \A i \in 1 .. Len(sent) :
    sent[i].body[1] = sent[i].body[2] =>
      LET f == frames[sent[i].body[1]] IN sent[i].eid = f.eid /\ sent[i].tag = f.tag

\* main.c:188 "copies the frame rx_message() cached into the receive buffer":
\* libspdm works on one frame, not on parts of two.
WholeFrame ==
  pc = "respond" => receiver_buf[1] = receiver_buf[2]

\* main.c:652 "for each SPDM request received, libspdm_responder_dispatch_message
\* is called once": every frame is fetched in the end.
EveryFrameDispatched ==
  \A n \in 1 .. MaxFrames :
    (Len(frames) >= n) ~> (\E h \in Half : receiver_buf[h] = n)
============================================================================
