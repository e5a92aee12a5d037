------------------------------- MODULE MCSpdm -------------------------------
(***************************************************************************)
(* The two SPDM programs for TLC.  They are two firmware images of one     *)
(* board: image is the one that was flashed, and the other takes no step.  *)
(***************************************************************************)
EXTENDS SpdmResponder

CONSTANT MaxEvents

ASSUME EventAssumption == MaxEvents \in Nat

VARIABLES image, rq_usb_configured, rq_pc, step, failure, rq_spdm_rx_sem, rq_pending_rx,
          rq_pending_valid, rq_receiver_buf, rq_sender_in_use, rq_receiver_in_use,
          tx_msg_tag, owed, events

Requester == INSTANCE SpdmRequester WITH
  usb_configured <- rq_usb_configured, pc <- rq_pc, spdm_rx_sem <- rq_spdm_rx_sem,
  pending_rx <- rq_pending_rx, pending_valid <- rq_pending_valid,
  receiver_buf <- rq_receiver_buf, sender_in_use <- rq_sender_in_use,
  receiver_in_use <- rq_receiver_in_use

rqVars == <<rq_usb_configured, rq_pc, step, failure, rq_spdm_rx_sem, rq_pending_rx,
            rq_pending_valid, rq_receiver_buf, rq_sender_in_use, rq_receiver_in_use,
            tx_msg_tag, owed, events>>
spdmVars == <<image, vars, rqVars>>

SpdmInit == image \in {"responder", "requester"} /\ Init /\ Requester!Init

SpdmNext ==
  \/ image = "responder" /\ Next /\ UNCHANGED <<image, rqVars>>
  \/ image = "requester" /\ Requester!Next /\ UNCHANGED <<image, vars>>

\* The main thread of the image that runs is scheduled whenever it can go on.
SpdmSpec ==
  /\ SpdmInit /\ [][SpdmNext]_spdmVars
  /\ WF_spdmVars(image = "responder" /\ Main /\ UNCHANGED <<image, rqVars>>)
  /\ WF_spdmVars(image = "requester" /\ Requester!Main /\ UNCHANGED <<image, vars>>)

----------------------------------------------------------------------------
\* spdm_requester: as long as the host sends nothing unasked, libspdm is given
\* the whole answer to the request that is out, never that of an earlier
\* exchange, although rx_message looks neither at the tag nor at the address.
AnswersInStep == Requester!AnswersInStep

\* spdm_requester: once started, the flow of exchanges ends, whatever the host
\* does: no wakeup that rx_message gives is lost, no buffer stays taken.
FlowEnds == Requester!FlowEnds
=============================================================================
