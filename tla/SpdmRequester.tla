--------------------------- MODULE SpdmRequester ---------------------------
(***************************************************************************)
(* The SPDM requester of samples/spdm/spdm_requester/src/main.c.  The main *)
(* thread runs one fixed flow of exchanges.  In an exchange libspdm calls  *)
(* spdm_device_send_message and then spdm_device_receive_message, which    *)
(* takes the response out of a mailbox (pending_rx, pending_valid) that    *)
(* the MCTP receive callback rx_message fills.  spdm_rx_sem, a binary      *)
(* semaphore, wakes a receive that has to wait.                            *)
(*                                                                         *)
(* rx_message runs in a cooperative thread of the USB stack: it is one     *)
(* action, and comes between any two steps of main, the two halves of a    *)
(* memcpy included.  libspdm and the host are external: libspdm accepts a  *)
(* response only if it is whole, well formed and answers the request that  *)
(* is out; the host answers a request well, badly or never, and may send   *)
(* messages of its own (the session is opened with EVENT_ALL_POLICY).      *)
(***************************************************************************)
EXTENDS Naturals, Sequences

CONSTANT MaxEvents      \* bound: messages the host sends unasked

\* The exchanges of spdm_requester_run, in order.  libspdm_init_connection makes
\* three and libspdm_start_session two; the certificate chain (911 bytes) fits
\* into one response.
Flow == <<"GET_VERSION", "GET_CAPABILITIES", "NEGOTIATE_ALGORITHMS",
          "GET_DIGESTS", "GET_CERTIFICATE", "CHALLENGE",
          "GET_KEY_PAIR_INFO", "SET_KEY_PAIR_INFO", "GET_KEY_PAIR_INFO",
          "KEY_EXCHANGE", "FINISH",
          "GET_SUPPORTED_EVENT_TYPES", "SUBSCRIBE_EVENT_TYPES",
          "VENDOR_DEFINED", "VENDOR_DEFINED", "VENDOR_DEFINED",
          "SUBSCRIBE_EVENT_TYPES", "END_SESSION">>

Step == 1 .. Len(Flow)

VARIABLES usb_configured,
          pc,                 \* where the main thread is
          step,               \* the exchange it is at
          failure,            \* why spdm_requester_run returned -EIO
          spdm_rx_sem,        \* 0 or 1: K_SEM_DEFINE(spdm_rx_sem, 0, 1)
          pending_rx, pending_valid,
          receiver_buf,       \* the two halves libspdm has been given
          sender_in_use, receiver_in_use,
          tx_msg_tag,
          owed,               \* the requests the host has not answered
          events              \* messages sent unasked so far

mailbox == <<pending_rx, pending_valid>>
buffers == <<sender_in_use, receiver_in_use>>
host == <<owed, events>>
vars == <<usb_configured, pc, step, failure, spdm_rx_sem, mailbox, receiver_buf,
          buffers, tx_msg_tag, host>>

Half == {1, 2}

\* What the mailbox can hold: an answer to one of the requests, good or bad, or
\* a message sent unasked.
NoFrame == [of |-> 0, good |-> FALSE]
Event   == [of |-> 0, good |-> TRUE]
Frame   == [of : {0} \cup Step, good : BOOLEAN]

TypeOK ==
  /\ usb_configured \in BOOLEAN
  /\ pc \in {"boot", "init", "stopped", "send", "tx", "receive", "take", "check",
             "copy", "consume", "done", "failed"}
  /\ step \in 1 .. Len(Flow) + 1
  /\ failure \in {"none", "send", "timeout", "no_frame", "refused"}
  /\ spdm_rx_sem \in 0 .. 1
  /\ pending_rx \in Frame /\ pending_valid \in BOOLEAN
  /\ receiver_buf \in [Half -> Frame]
  /\ sender_in_use \in BOOLEAN /\ receiver_in_use \in BOOLEAN
  /\ tx_msg_tag \in 0 .. 7
  /\ owed \subseteq Step
  /\ events \in 0 .. MaxEvents

Init ==
  /\ usb_configured = FALSE
  /\ pc = "boot" /\ step = 1 /\ failure = "none"
  /\ spdm_rx_sem = 0
  /\ pending_rx = NoFrame /\ pending_valid = FALSE
  /\ receiver_buf = [h \in Half |-> NoFrame]
  /\ sender_in_use = FALSE /\ receiver_in_use = FALSE
  /\ tx_msg_tag = 0
  /\ owed = {} /\ events = 0

----------------------------------------------------------------------------
\* sample_msg_cb: the host has chosen a configuration.
SampleMsgCb ==
  /\ usb_configured' = TRUE
  /\ UNCHANGED <<pc, step, failure, spdm_rx_sem, mailbox, receiver_buf, buffers,
                 tx_msg_tag, host>>

\* main polls until then.
BootDone ==
  /\ pc = "boot" /\ usb_configured
  /\ pc' = "init"
  /\ UNCHANGED <<usb_configured, step, failure, spdm_rx_sem, mailbox, receiver_buf,
                 buffers, tx_msg_tag, host>>

\* spdm_requester_init, MCTP, the five seconds' wait; main gives up on an error.
SpdmRequesterInit ==
  /\ pc = "init"
  /\ pc' \in {"send", "stopped"}
  /\ UNCHANGED <<usb_configured, step, failure, spdm_rx_sem, mailbox, receiver_buf,
                 buffers, tx_msg_tag, host>>

\* rx_message is registered once MCTP is set up.
Attached == pc \notin {"boot", "init", "stopped"}

\* rx_message with an SPDM message that fits: a frame that is still there is
\* lost.  Messages of another type, empty or too long leave no trace.
Store(frame) ==
  /\ pending_rx' = frame
  /\ pending_valid' = TRUE
  /\ spdm_rx_sem' = 1

\* The host answers a request.
RxAnswer(n, good) ==
  /\ Attached
  /\ n \in owed
  /\ owed' = owed \ {n}
  /\ Store([of |-> n, good |-> good])
  /\ UNCHANGED <<usb_configured, pc, step, failure, receiver_buf, buffers,
                 tx_msg_tag, events>>

\* The host sends a message of its own.
RxEvent ==
  /\ Attached
  /\ events < MaxEvents
  /\ events' = events + 1
  /\ Store(Event)
  /\ UNCHANGED <<usb_configured, pc, step, failure, receiver_buf, buffers,
                 tx_msg_tag, owed>>

----------------------------------------------------------------------------
\* spdm_requester_run returns -EIO; libspdm has released its buffers.
Fail(why) ==
  /\ pc' = "failed"
  /\ failure' = why
  /\ sender_in_use' = FALSE /\ receiver_in_use' = FALSE

\* libspdm acquires the sender buffer for the next request.
AcquireSender ==
  /\ pc = "send"
  /\ step <= Len(Flow)
  /\ IF sender_in_use
       THEN Fail("send")
       ELSE /\ sender_in_use' = TRUE /\ pc' = "tx"
            /\ UNCHANGED <<failure, receiver_in_use>>
  /\ UNCHANGED <<usb_configured, step, spdm_rx_sem, mailbox, receiver_buf,
                 tx_msg_tag, host>>

\* spdm_device_send_message: the tag is taken, the message goes out; libspdm
\* then releases the sender buffer and acquires the receiver buffer.
SendMessage ==
  /\ pc = "tx"
  /\ tx_msg_tag' = (tx_msg_tag + 1) % 8
  /\ owed' = owed \cup {step}
  /\ sender_in_use' = FALSE
  /\ IF receiver_in_use
       THEN pc' = "failed" /\ failure' = "send" /\ UNCHANGED receiver_in_use
       ELSE pc' = "receive" /\ receiver_in_use' = TRUE /\ UNCHANGED failure
  /\ UNCHANGED <<usb_configured, step, spdm_rx_sem, mailbox, receiver_buf, events>>

\* mctp_message_tx fails: the tag is used up all the same.
SendFails ==
  /\ pc = "tx"
  /\ tx_msg_tag' = (tx_msg_tag + 1) % 8
  /\ Fail("send")
  /\ UNCHANGED <<usb_configured, step, spdm_rx_sem, mailbox, receiver_buf, host>>

----------------------------------------------------------------------------
(***************************************************************************)
(* spdm_device_receive_message.  A frame that is there already is taken    *)
(* without a k_sem_take, and so leaves the semaphore up.                   *)
(***************************************************************************)
\* The first half of the memcpy.
CopyFirst ==
  /\ receiver_buf' = [receiver_buf EXCEPT ![1] = pending_rx]
  /\ pc' = "copy"

ReceiveAtOnce ==
  /\ pc = "receive"
  /\ pending_valid
  /\ CopyFirst
  /\ UNCHANGED <<usb_configured, step, failure, spdm_rx_sem, mailbox, buffers,
                 tx_msg_tag, host>>

ReceiveWaits ==
  /\ pc = "receive"
  /\ ~pending_valid
  /\ pc' = "take"
  /\ UNCHANGED <<usb_configured, step, failure, spdm_rx_sem, mailbox, receiver_buf,
                 buffers, tx_msg_tag, host>>

SemTake ==
  /\ pc = "take"
  /\ spdm_rx_sem = 1
  /\ spdm_rx_sem' = 0
  /\ pc' = "check"
  /\ UNCHANGED <<usb_configured, step, failure, mailbox, receiver_buf, buffers,
                 tx_msg_tag, host>>

\* Faulty variant: k_sem_take(&spdm_rx_sem, K_FOREVER).
SemTakeForever ==
  /\ pc = "take"
  /\ spdm_rx_sem = 0
  /\ UNCHANGED vars

\* Eight to fifteen seconds have passed without a give.
SemTimeout ==
  /\ pc = "take"
  /\ spdm_rx_sem = 0
  /\ Fail("timeout")
  /\ UNCHANGED <<usb_configured, step, spdm_rx_sem, mailbox, receiver_buf,
                 tx_msg_tag, host>>

\* The semaphore was up but there is no frame: LIBSPDM_STATUS_RECEIVE_FAIL.
ReceiveFails ==
  /\ pc = "check"
  /\ ~pending_valid
  /\ Fail("no_frame")
  /\ UNCHANGED <<usb_configured, step, spdm_rx_sem, mailbox, receiver_buf,
                 tx_msg_tag, host>>

ReceiveCopies ==
  /\ pc = "check"
  /\ pending_valid
  /\ CopyFirst
  /\ UNCHANGED <<usb_configured, step, failure, spdm_rx_sem, mailbox, buffers,
                 tx_msg_tag, host>>

CopyRest ==
  /\ pc = "copy"
  /\ receiver_buf' = [receiver_buf EXCEPT ![2] = pending_rx]
  /\ pc' = "consume"
  /\ UNCHANGED <<usb_configured, step, failure, spdm_rx_sem, mailbox, buffers,
                 tx_msg_tag, host>>

\* What libspdm goes on with: the whole of a good answer to its own request.
Accepted ==
  \A h \in Half : receiver_buf[h] = [of |-> step, good |-> TRUE]

\* pending_valid = false; libspdm looks at what it was given and releases the
\* receiver buffer; the flow goes on with the next exchange, or stops.
ConsumeAs(valid) ==
  /\ pc = "consume"
  /\ pending_valid' = valid
  /\ IF Accepted
       THEN /\ step' = step + 1
            /\ receiver_in_use' = FALSE
            /\ pc' = "send"
            /\ UNCHANGED <<failure, sender_in_use>>
       ELSE Fail("refused") /\ UNCHANGED step
  /\ UNCHANGED <<usb_configured, spdm_rx_sem, pending_rx, receiver_buf, tx_msg_tag,
                 host>>

\* Faulty variant: the frame stays valid.
ConsumeKeeps == ConsumeAs(TRUE)

Consume == ConsumeAs(FALSE)

\* END_SESSION has been answered: spdm_requester_run returns 0.
FlowSucceeded ==
  /\ pc = "send"
  /\ step > Len(Flow)
  /\ pc' = "done"
  /\ UNCHANGED <<usb_configured, step, failure, spdm_rx_sem, mailbox, receiver_buf,
                 buffers, tx_msg_tag, host>>

Main == \/ BootDone \/ SpdmRequesterInit \/ AcquireSender
        \/ SendMessage \/ SendFails
        \/ ReceiveAtOnce \/ ReceiveWaits \/ SemTake \/ SemTimeout
        \/ ReceiveFails \/ ReceiveCopies \/ CopyRest \/ Consume
        \/ FlowSucceeded

Next == \/ SampleMsgCb
        \/ \E n \in Step, good \in BOOLEAN : RxAnswer(n, good)
        \/ RxEvent
        \/ Main

Spec == Init /\ [][Next]_vars

\* The main thread is scheduled, and a k_sem_take with a timeout returns; no
\* assumption is made on the host.
FairSpec == Spec /\ WF_vars(Main)

----------------------------------------------------------------------------
\* A frame in the mailbox has a wakeup for the receive that waits for it: no
\* order of rx_message and the test of pending_valid loses the wakeup.
PendingHasWakeup ==
  pending_valid => spdm_rx_sem = 1 \/ pc \in {"check", "copy", "consume"}

\* A host that sends nothing unasked is heard in step: what libspdm is given is
\* the whole answer to the request that is out, never that of an earlier
\* exchange, although neither the tag nor the address of a message is looked at.
AnswersInStep ==
  events = 0 /\ pc = "consume" =>
    \A h \in Half : receiver_buf[h].of = step

\* No exchange fails for a buffer that an earlier one did not release: a send
\* fails only because mctp_message_tx does.
BuffersReleased ==
  /\ pc = "send" => ~sender_in_use /\ ~receiver_in_use
  /\ pc = "tx" => ~receiver_in_use

\* What the callback and the exchanges keep between them: types, wakeups and
\* buffers.
MailboxInv == TypeOK /\ PendingHasWakeup /\ BuffersReleased

\* Once the requester has been started it comes to an end, whatever the host does.
FlowEnds == (pc = "send") ~> (pc \in {"done", "failed"})

\* main.c:209 LIBSPDM_STATUS_RECEIVE_FAIL means "bad parameters, timeout, or a
\* length beyond the buffer": a receive does not fail at once for want of a frame.
FailsOnlyAfterTimeout == failure # "no_frame"
============================================================================
