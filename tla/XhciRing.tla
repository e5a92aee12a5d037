------------------------------ MODULE XhciRing ------------------------------
(***************************************************************************)
(* A command or transfer ring of samples/dwc3_host/src/xhci.c.  The driver *)
(* writes transfer request blocks (TRBs) into the cells 0 .. num_trb - 2   *)
(* and the controller executes them; cell num_trb - 1 is the link TRB that *)
(* leads back to cell 0 and toggles the controller's cycle state.  A TRB   *)
(* belongs to the controller when its cycle bit is that state.             *)
(*                                                                         *)
(* The driver writes through a cache: the controller sees the cells as     *)
(* they were at the last flush.  The link TRB is toggled after the flush   *)
(* of xhci_enqueue_trb, so that it stays in the cache until the next one,  *)
(* or until its line happens to be evicted.                                *)
(*                                                                         *)
(* A TRB is known by its number, 1 for the first one.  The controller is   *)
(* external: it fetches from a doorbell until it meets a cycle bit that is *)
(* not its cycle state.                                                    *)
(***************************************************************************)
EXTENDS Integers

CONSTANTS num_trb,      \* XHCI_RING_TRB_MAX_NUM
          MaxTrb        \* bound: TRBs that are enqueued in a run

ASSUME RingAssumption == num_trb \in Nat /\ num_trb >= 3 /\ MaxTrb \in Nat

VARIABLES trb, link,            \* the cells and the link TRB's cycle bit, as
                                \* the driver sees them
          mem, mem_link,        \* and in memory, as the controller sees them
          write_index, cycle_bit,
          deq, ccs,             \* the controller's dequeue index and cycle state
          state,                \* of the controller for this ring
          submitted, executed   \* numbers of the last TRB enqueued and executed

ringVars == <<trb, link, mem, mem_link, write_index, cycle_bit, deq, ccs, state,
          submitted, executed>>

Cell == 0 .. num_trb - 2
Bit  == 0 .. 1

Trb == [no : Int, cycle : Bit]

RingTypeOK ==
  /\ trb \in [Cell -> Trb] /\ link \in Bit
  /\ mem \in [Cell -> Trb] /\ mem_link \in Bit
  /\ write_index \in Cell /\ cycle_bit \in Bit
  /\ deq \in 0 .. num_trb - 1 /\ ccs \in Bit
  /\ state \in {"idle", "active", "halted"}
  /\ submitted \in Nat /\ executed \in Int

\* xhci_ring_init: cleared cells, cycle bit 1, a link TRB that is not valid yet.
\* The cells are numbered as if a lap of cleared TRBs had gone before.
RingInit ==
  /\ trb = [i \in Cell |-> [no |-> i + 2 - num_trb, cycle |-> 0]]
  /\ link = 0
  /\ mem = trb /\ mem_link = link
  /\ write_index = 0 /\ cycle_bit = 1
  /\ deq = 0 /\ ccs = 1
  /\ state = "idle"
  /\ submitted = 0 /\ executed = 0

----------------------------------------------------------------------------
\* xhci_enqueue_trb does not look whether there is room: that there is, is what
\* its callers owe.  One cell must stay free, or the driver could toggle a link
\* TRB that the controller has not passed yet.
Room == submitted - executed < num_trb - 2

\* The write below goes into the cell before the link TRB.
AtLink == write_index + 1 = num_trb - 1

\* Faulty variant: the link TRB is not toggled.
WrapKeepsLink ==
  /\ write_index' = IF AtLink THEN 0 ELSE write_index + 1
  /\ cycle_bit' = IF AtLink THEN 1 - cycle_bit ELSE cycle_bit
  /\ UNCHANGED link

\* The write pointer goes on; at the link TRB it goes back to cell 0, and the
\* link TRB and the cycle bit are toggled.
Wrap ==
  /\ write_index' = IF AtLink THEN 0 ELSE write_index + 1
  /\ cycle_bit' = IF AtLink THEN 1 - cycle_bit ELSE cycle_bit
  /\ link' = IF AtLink THEN 1 - link ELSE link

\* xhci_enqueue_trb: the TRB, built with the ring's cycle bit, is stored, the
\* ring is flushed, and then the link TRB may be toggled in the cache.
Enqueue ==
  /\ Room
  /\ submitted < MaxTrb
  /\ submitted' = submitted + 1
  /\ trb' = [trb EXCEPT ![write_index] = [no |-> submitted + 1, cycle |-> cycle_bit]]
  /\ mem' = trb'
  /\ mem_link' = link
  /\ Wrap
  /\ UNCHANGED <<deq, ccs, state, executed>>

\* The line of the link TRB is evicted from the cache.
Evict ==
  /\ mem_link # link
  /\ mem_link' = link
  /\ UNCHANGED <<trb, link, mem, write_index, cycle_bit, deq, ccs, state,
                 submitted, executed>>

\* xhci_ring_cmd_doorbell, xhci_ring_ep_doorbell: every caller rings after it
\* has enqueued and before it waits.  A halted endpoint does not hear it.
Doorbell ==
  /\ submitted > executed
  /\ state = "idle"
  /\ state' = "active"
  /\ UNCHANGED <<trb, link, mem, mem_link, write_index, cycle_bit, deq, ccs,
                 submitted, executed>>

\* Faulty variant: the dequeue pointer is the start of the ring, as in
\* xhci_cmd_address_device with DEFAULT_TYPE, which is used on a new ring only.
SetDeqToStart ==
  /\ state # "active"
  /\ state' = "idle"
  /\ deq' = 0
  /\ ccs' = cycle_bit
  /\ executed' = submitted
  /\ UNCHANGED <<trb, link, mem, mem_link, write_index, cycle_bit, submitted>>

\* xhci_set_deq_endpoint, after a stall, and xhci_cmd_address_device with
\* ADDRESSED_TYPE: the controller is told to go on at the driver's write index
\* with the driver's cycle bit; what it has not executed is dropped.
SetDeq ==
  /\ state # "active"
  /\ state' = "idle"
  /\ deq' = write_index
  /\ ccs' = cycle_bit
  /\ executed' = submitted
  /\ UNCHANGED <<trb, link, mem, mem_link, write_index, cycle_bit, submitted>>

----------------------------------------------------------------------------
\* The controller.
Execute ==
  /\ state = "active"
  /\ deq \in Cell
  /\ mem[deq].cycle = ccs
  /\ executed' = mem[deq].no
  /\ deq' = deq + 1
  /\ UNCHANGED <<trb, link, mem, mem_link, write_index, cycle_bit, ccs, state,
                 submitted>>

\* LINK_TOGGLE.
FollowLink ==
  /\ state = "active"
  /\ deq = num_trb - 1
  /\ mem_link = ccs
  /\ deq' = 0
  /\ ccs' = 1 - ccs
  /\ UNCHANGED <<trb, link, mem, mem_link, write_index, cycle_bit, state,
                 submitted, executed>>

GoIdle ==
  /\ state = "active"
  /\ \/ deq \in Cell /\ mem[deq].cycle # ccs
     \/ deq = num_trb - 1 /\ mem_link # ccs
  /\ state' = "idle"
  /\ UNCHANGED <<trb, link, mem, mem_link, write_index, cycle_bit, deq, ccs,
                 submitted, executed>>

\* The endpoint stalls at a TRB: the controller halts and stays there.
Stall ==
  /\ state = "active"
  /\ deq \in Cell
  /\ mem[deq].cycle = ccs
  /\ state' = "halted"
  /\ UNCHANGED <<trb, link, mem, mem_link, write_index, cycle_bit, deq, ccs,
                 submitted, executed>>

Controller == Execute \/ FollowLink \/ GoIdle

RingNext == Enqueue \/ Evict \/ Doorbell \/ SetDeq \/ Controller \/ Stall

RingSpec == RingInit /\ [][RingNext]_ringVars

\* The controller works while it is active, a caller that has enqueued rings the
\* doorbell, and xhci_xfer_control clears a halt; this is not so for a bulk
\* endpoint.  Nothing is assumed of stalls or of the cache.
FairRingSpec == /\ RingSpec
                /\ WF_ringVars(Controller) /\ WF_ringVars(Doorbell)
                /\ WF_ringVars(state = "halted" /\ SetDeq)

----------------------------------------------------------------------------
\* What a cell holds: this lap's TRB before the write index, the last lap's
\* from there on; and its cycle bit says which.
CellsNumbered ==
  \A i \in Cell :
    trb[i] = IF i < write_index
               THEN [no |-> submitted - write_index + i + 1, cycle |-> cycle_bit]
               ELSE [no |-> submitted - write_index + i + 2 - num_trb,
                     cycle |-> 1 - cycle_bit]

\* The controller is in the driver's lap and not beyond its write index, or a
\* lap behind and not before it; its cycle state says which.
PositionKnown ==
  IF ccs = cycle_bit
    THEN deq <= write_index /\ executed = submitted - write_index + deq
    ELSE deq >= write_index /\ executed = submitted - write_index + deq + 1 - num_trb

\* What the controller sees is what the driver wrote, but for the link TRB in
\* the time from its toggle to the next flush.
MemoryCurrent ==
  /\ mem = trb
  /\ link = 1 - cycle_bit
  /\ mem_link # link => write_index = 0

\* The inductive invariant: where driver and controller are in the ring, across
\* any number of laps, and what the bits in the cells then mean.
RingInv == CellsNumbered /\ PositionKnown /\ MemoryCurrent

\* Every TRB is executed at most once and in the order of the enqueues; TRBs are
\* passed over only when a controller at rest is given a new dequeue pointer.
InOrder ==
  [][\/ executed' \in {executed, executed + 1}
     \/ state # "active" /\ executed' = submitted]_ringVars

\* A TRB is executed or dropped: the controller never comes to rest before a TRB
\* that the doorbell was rung for, in particular not at a link TRB that is still
\* in the cache.
RingDrained == \A n \in 1 .. MaxTrb : (submitted >= n) ~> (executed >= n)
============================================================================
