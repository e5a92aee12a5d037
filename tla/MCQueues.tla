------------------------------ MODULE MCQueues ------------------------------
(***************************************************************************)
(* The three structures that things pass through one after the other, each *)
(* on its own, for TLC: the list of outstanding IPMB requests (any caller, *)
(* any number, failing allocations), the echo from the USB receive FIFO    *)
(* through the ring buffer to the transmit FIFO, and a ring of TRBs.  side *)
(* is the one that is looked at; the others take no step.                  *)
(***************************************************************************)
EXTENDS IpmbSeq, CdcEcho, XhciRing

VARIABLE side

queueVars == <<side, seqvars, vars, ringVars>>

QueuesInit == side \in {"list", "echo", "trbs"} /\ SeqInit /\ Init /\ RingInit

QueuesNext ==
  \/ side = "list" /\ SeqNext /\ UNCHANGED <<side, vars, ringVars>>
  \/ side = "echo" /\ Next /\ UNCHANGED <<side, seqvars, ringVars>>
  \/ side = "trbs" /\ RingNext /\ UNCHANGED <<side, seqvars, vars>>

\* The fairness of SeqFairSpec, FairSpec and FairRingSpec.
QueuesSpec ==
  /\ QueuesInit /\ [][QueuesNext]_queueVars
  /\ SweepFairness
  /\ WF_vars(side = "echo" /\ Handler)
  /\ SF_vars(side = "echo" /\ RxMove)
  /\ WF_vars(side = "echo" /\ HostTake)
  /\ WF_ringVars(side = "trbs" /\ Controller)
  /\ WF_ringVars(side = "trbs" /\ Doorbell)
  /\ WF_ringVars(side = "trbs" /\ state = "halted" /\ SetDeq)
=============================================================================
