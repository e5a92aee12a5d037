----------------------------- MODULE XhciProofs -----------------------------
(***************************************************************************)
(* Proofs about Xhci, for every size of the event ring and any number of   *)
(* shell commands and port changes: events are handled once and in order,  *)
(* a call reads the event of its own submission, the rings are never full, *)
(* and a stalled control endpoint is usable when the call has returned.    *)
(*                                                                         *)
(* The event ring.  The cells from the read index up to the controller's   *)
(* index hold the events that are posted and not handled; EventRingInv     *)
(* says so by the cycle bits, which is all that either side looks at.      *)
(*                                                                         *)
(* The submissions.  As long as no control transfer had a short packet, at *)
(* most one thing is on its way: a TRB in the command ring, the TRBs of    *)
(* one transfer in the ring of a running endpoint, or one completion event *)
(* that is not handled; and it bears the number of the last submission.    *)
(***************************************************************************)
EXTENDS Xhci, SequenceTheorems, TLAPS

\* Cells from a up to b, in the direction of the ring.
Dist(a, b) == IF a <= b THEN b - a ELSE (b + num_event) - a

\* xhci_cmd_add_endpoint is called for bulk and interrupt endpoints only.
AddsForBulk == stage = "add_ep" => kind \in {"bulk_in", "bulk_out"}

\* The controller's lap is seen in the cycle bits of the cells, and the driver's
\* cycle bit is that lap's unless the read index is one lap behind.
CycleInv ==
  /\ \A i \in EventCell :
       event_trb[i].cycle = IF i < hw_index THEN hw_cycle ELSE 1 - hw_cycle
  /\ cycle_bit = IF read_index <= hw_index THEN hw_cycle ELSE 1 - hw_cycle

\* The read index is between ERDP and the controller's index, and the events from
\* the read index on are those that follow the last one handled.
NumberInv ==
  /\ posted = handled + Dist(read_index, hw_index)
  /\ Dist(erdp, read_index) + Dist(read_index, hw_index) = Dist(erdp, hw_index)
  /\ \A i \in EventCell : Dist(read_index, i) < Dist(read_index, hw_index) =>
       event_trb[i].event.no = handled + 1 + Dist(read_index, i)

EventRingInv == TypeOK /\ AddsForBulk /\ CycleInv /\ NumberInv

----------------------------------------------------------------------------
\* The cells with a completion event that is not handled yet.
Pending == {i \in EventCell : /\ event_trb[i].event.no > handled
                              /\ event_trb[i].event.type = "completion"}

\* The controller works on the ring of an endpoint.
Working(ep) == epstate[ep] = "running" /\ ep_ring[ep] # << >>

\* Nothing is on its way.
Quiet == cmd_ring = << >> /\ Pending = {} /\ \A ep \in Ep : ~Working(ep)

\* The call has its event in evt_trb.
Told == event_sync \/ pc = "read"

\* TRBs that are executed with an event only.
Final == {"status", "normal_in", "normal_out"}

WaitInv ==
  /\ event_wait => pc = "spin"
  /\ event_sync => pc = "spin"
  /\ Told \/ pc = "idle" => Quiet
  /\ Told => evt_trb.sub = sub
  /\ pc = "idle" => stage \notin {"reset_ep", "add_ep"}

CommandInv ==
  cmd_ring # << >> =>
    /\ Len(cmd_ring) = 1 /\ cmd_ring[1].sub = sub /\ cmd_ring[1].op = stage
    /\ Pending = {} /\ \A ep \in Ep : ~Working(ep)

TransferInv ==
  \A ep \in Ep : Working(ep) =>
    /\ ep = Endpoint(kind) /\ stage = "xfer"
    /\ Pending = {}
    /\ \A i \in 1 .. Len(ep_ring[ep]) :
         /\ ep_ring[ep][i].sub = sub
         /\ ep_ring[ep][i].op \in Final => i = Len(ep_ring[ep])

PendingInv ==
  \A i \in Pending : /\ event_trb[i].event.sub = sub
                     /\ \A j \in Pending : i = j

\* The control endpoint on its way from a stall back to work.
RecoverInv ==
  /\ epstate["bulk"] # "stopped" /\ epstate["ctrl"] # "disabled"
  /\ stage = "add_ep" => ep_ring["bulk"] = << >>
  /\ stage = "reset_ep" =>
       epstate["ctrl"] = IF cmd_ring = << >> THEN "stopped" ELSE "halted"
  /\ stage = "set_deq" =>
       epstate["ctrl"] = "stopped" /\ (cmd_ring = << >> => ep_ring["ctrl"] = << >>)
  /\ epstate["ctrl"] = "stopped" /\ stage \notin {"reset_ep", "set_deq"} =>
       ep_ring["ctrl"] = << >>

\* An event with the code of a stall comes from an endpoint that is halted.
StallInv ==
  stage = "xfer" =>
    /\ \A i \in Pending : event_trb[i].event.code = "stall" =>
         epstate[Endpoint(kind)] = "halted"
    /\ Told /\ evt_trb.code = "stall" => epstate[Endpoint(kind)] = "halted"

\* A halted control endpoint is one whose stall the thread will learn of, if there
\* was no transaction error.
HaltInv ==
  ~failed /\ epstate["ctrl"] = "halted" /\ stage # "reset_ep" =>
    /\ stage = "xfer" /\ Endpoint(kind) = "ctrl" /\ pc # "idle"
    /\ \A i \in Pending : event_trb[i].event.code = "stall"
    /\ Told => evt_trb.code = "stall"

\* More than one transfer in a ring: the endpoint is halted or disabled, and the
\* thread will not learn anything.
RoomInv ==
  \A ep \in Ep :
    /\ \A i \in 1 .. Len(ep_ring[ep]) : ep_ring[ep][i].sub <= sub
    /\ Len(ep_ring[ep]) <= 6
    /\ Len(ep_ring[ep]) > 3 => Quiet /\ ~event_sync /\ pc \in {"armed", "spin"}

SubmissionInv ==
  /\ WaitInv /\ CommandInv /\ TransferInv /\ PendingInv
  /\ RecoverInv /\ StallInv /\ HaltInv /\ RoomInv


----------------------------------------------------------------------------
(***************************************************************************)
(* The operators.                                                          *)
(***************************************************************************)
\* An index of the event ring goes on by one, and from the last cell to cell 0.
LEMMA AdvanceCell ==
  ASSUME NEW i \in EventCell
  PROVE  /\ Advance(i) \in EventCell
         /\ Advance(i) = IF i = num_event - 1 THEN 0 ELSE i + 1
<1>1. CASE i = num_event - 1
  BY <1>1, XhciAssumption DEF Advance, EventCell
<1>2. CASE i # num_event - 1
  BY <1>2, XhciAssumption DEF Advance, EventCell
<1> QED BY <1>1, <1>2

\* What a transfer puts into the ring of its endpoint.
LEMMA StageTrbs ==
  ASSUME sub \in Nat, NEW k \in Shell \ {"command"}
  PROVE  LET t == Trbs(Stages(k)) IN
           /\ t \in Seq(Trb) /\ Len(t) \in 1 .. 3
           /\ \A i \in 1 .. Len(t) :
                t[i].sub = sub + 1 /\ (t[i].op \in Final => i = Len(t))
<1>1. CASE k = "control_in"
  BY <1>1 DEF Trbs, Stages, Trb, Final
<1>2. CASE k = "control"
  BY <1>2 DEF Trbs, Stages, Trb, Final
<1>3. CASE k = "bulk_in"
  BY <1>3 DEF Trbs, Stages, Trb, Final
<1>4. CASE k = "bulk_out"
  BY <1>4 DEF Trbs, Stages, Trb, Final
<1> QED BY <1>1, <1>2, <1>3, <1>4 DEF Shell

\* What a command puts into the command ring.
LEMMA CommandTrbs ==
  ASSUME sub \in Nat, NEW op \in {"cmd", "add_ep", "reset_ep", "set_deq"}
  PROVE  LET t == Trbs(<<op>>) IN
           t \in Seq(Trb) /\ Len(t) = 1 /\ t[1].sub = sub + 1 /\ t[1].op = op
BY DEF Trbs, Trb

\* The TRBs of a ring are numbered.
LEMMA TrbRing ==
  ASSUME NEW r \in Seq(Trb)
  PROVE  Len(r) \in Nat /\ \A i \in 1 .. Len(r) : r[i] \in Trb /\ r[i].sub \in Nat
<1>1. Len(r) \in Nat /\ \A i \in 1 .. Len(r) : r[i] \in Trb
  BY ElementOfSeq, LenProperties
<1>2. \A t \in Trb : t.sub \in Nat
  BY DEF Trb
<1> QED BY <1>1, <1>2

\* TRBs of submission n + 1 behind earlier ones.
LEMMA AppendTrbs ==
  ASSUME NEW r \in Seq(Trb), NEW t \in Seq(Trb), NEW n \in Nat,
         \A i \in 1 .. Len(r) : r[i].sub <= n,
         \A i \in 1 .. Len(t) : t[i].sub = n + 1
  PROVE  /\ Len(r \o t) = Len(r) + Len(t)
         /\ \A i \in 1 .. Len(r \o t) : (r \o t)[i].sub <= n + 1
<1>1. Len(r \o t) = Len(r) + Len(t) /\ Len(r) \in Nat /\ Len(t) \in Nat
  BY ConcatProperties, TrbRing
<1>2. ASSUME NEW i \in 1 .. Len(r) + Len(t) PROVE (r \o t)[i].sub <= n + 1
  <2>1. (r \o t)[i] = IF i <= Len(r) THEN r[i] ELSE t[i - Len(r)]
    BY ConcatProperties
  <2>2. CASE i <= Len(r)
    <3>1. i \in 1 .. Len(r)
      BY <1>1, <2>2
    <3>2. r[i].sub \in Nat /\ r[i].sub <= n
      BY <3>1, TrbRing
    <3> QED BY <2>1, <2>2, <3>2
  <2>3. CASE ~(i <= Len(r))
    <3>1. i - Len(r) \in 1 .. Len(t)
      BY <1>1, <2>3
    <3> QED BY <2>1, <2>3, <3>1
  <2> QED BY <2>2, <2>3
<1> QED BY <1>1, <1>2

----------------------------------------------------------------------------
(***************************************************************************)
(* The event ring.                                                         *)
(***************************************************************************)
\* The driver finds an event at its read index if and only if there is one.
LEMMA FreshMeansPosted ==
  ASSUME EventRingInv
  PROVE  Fresh <=> handled < posted
<1>1. read_index \in EventCell /\ hw_index \in EventCell /\ hw_cycle \in 0 .. 1
      /\ handled \in Nat
  BY DEF EventRingInv, TypeOK
<1>2. Fresh <=> read_index # hw_index
  BY <1>1 DEF EventRingInv, CycleInv, Fresh, EventCell
<1>3. handled < posted <=> read_index # hw_index
  BY <1>1, XhciAssumption DEF EventRingInv, NumberInv, Dist, EventCell
<1> QED BY <1>2, <1>3

\* A post leaves the ring in order.
LEMMA PostKeepsRing ==
  ASSUME EventRingInv,
         NEW type \in {"port", "completion"}, NEW s \in Nat, NEW code \in Code,
         Post(type, s, code), UNCHANGED <<read_index, cycle_bit, erdp, handled>>
  PROVE  /\ CycleInv' /\ NumberInv'
         /\ posted' \in Nat /\ posted' = posted + 1
         /\ event_trb' \in [EventCell -> [event : Event, cycle : 0 .. 1]]
         /\ hw_index' \in EventCell /\ hw_cycle' \in 0 .. 1
<1> DEFINE e == [no |-> posted + 1, type |-> type, sub |-> s, code |-> code]
<1>1. /\ read_index \in EventCell /\ hw_index \in EventCell /\ erdp \in EventCell
      /\ hw_cycle \in 0 .. 1 /\ cycle_bit \in 0 .. 1
      /\ handled \in Nat /\ posted \in Nat
      /\ event_trb \in [EventCell -> [event : Event, cycle : 0 .. 1]]
  BY DEF EventRingInv, TypeOK
<1>2. Advance(hw_index) = IF hw_index = num_event - 1 THEN 0 ELSE hw_index + 1
  BY <1>1, AdvanceCell
<1>3. /\ hw_index' = Advance(hw_index) /\ Advance(hw_index) # erdp
      /\ hw_cycle' = IF Advance(hw_index) = 0 THEN 1 - hw_cycle ELSE hw_cycle
      /\ posted' = posted + 1
      /\ event_trb' = [event_trb EXCEPT ![hw_index] = [event |-> e, cycle |-> hw_cycle]]
  BY DEF Post
<1>4. e \in Event /\ e.no = posted + 1
  BY <1>1 DEF Event, Code
<1> HIDE DEF e
<1>5. /\ event_trb' \in [EventCell -> [event : Event, cycle : 0 .. 1]]
      /\ \A i \in EventCell : event_trb'[i] =
           IF i = hw_index THEN [event |-> e, cycle |-> hw_cycle] ELSE event_trb[i]
  BY <1>1, <1>3, <1>4
<1>6. hw_index' \in EventCell /\ hw_cycle' \in 0 .. 1
  BY <1>1, <1>3, AdvanceCell
<1>7. /\ read_index # hw_index' 
      /\ Dist(read_index, hw_index') = Dist(read_index, hw_index) + 1
      /\ Dist(erdp, hw_index') = Dist(erdp, hw_index) + 1
  BY <1>1, <1>2, <1>3, XhciAssumption DEF EventRingInv, NumberInv, Dist, EventCell
<1>8. CycleInv'
  <2>1. ASSUME NEW i \in EventCell
        PROVE  event_trb'[i].cycle = IF i < hw_index' THEN hw_cycle' ELSE 1 - hw_cycle'
    BY <1>1, <1>2, <1>3, <1>5, XhciAssumption DEF EventRingInv, CycleInv, EventCell
  <2>2. cycle_bit' = IF read_index' <= hw_index' THEN hw_cycle' ELSE 1 - hw_cycle'
    BY <1>1, <1>2, <1>3, <1>7, XhciAssumption DEF EventRingInv, CycleInv, EventCell
  <2> QED BY <2>1, <2>2 DEF CycleInv
<1>9. NumberInv'
  <2>1. posted' = handled' + Dist(read_index', hw_index')
    BY <1>1, <1>3, <1>7, XhciAssumption DEF EventRingInv, NumberInv, Dist, EventCell
  <2>2. Dist(erdp', read_index') + Dist(read_index', hw_index') = Dist(erdp', hw_index')
    <3>1. Dist(erdp, read_index) + Dist(read_index, hw_index) = Dist(erdp, hw_index)
      BY DEF EventRingInv, NumberInv
    <3>2. Dist(erdp, read_index) \in Int /\ Dist(read_index, hw_index) \in Int
      BY <1>1, XhciAssumption DEF Dist, EventCell
    <3>3. Dist(erdp', read_index') = Dist(erdp, read_index)
          /\ Dist(read_index', hw_index') = Dist(read_index, hw_index')
          /\ Dist(erdp', hw_index') = Dist(erdp, hw_index')
      BY DEF Dist
    <3> HIDE DEF Dist
    <3> QED BY <1>7, <3>1, <3>2, <3>3
  <2>3. ASSUME NEW i \in EventCell,
               Dist(read_index', i) < Dist(read_index', hw_index')
        PROVE  event_trb'[i].event.no = handled' + 1 + Dist(read_index', i)
    <3>1. CASE i = hw_index
      <4>1. event_trb'[i].event.no = posted + 1
        BY <1>4, <1>5, <3>1
      <4>2. posted = handled + Dist(read_index, hw_index)
        BY DEF EventRingInv, NumberInv
      <4>3. Dist(read_index', i) = Dist(read_index, hw_index)
        BY <3>1 DEF Dist
      <4>4. Dist(read_index, hw_index) \in Int
        BY <1>1, XhciAssumption DEF Dist, EventCell
      <4> HIDE DEF Dist
      <4> QED BY <1>1, <4>1, <4>2, <4>3, <4>4
    <3>2. CASE i # hw_index
      <4>1. Dist(read_index, i) < Dist(read_index, hw_index)
        BY <1>1, <1>7, <2>3, <3>2, XhciAssumption DEF Dist, EventCell
      <4> QED BY <1>5, <3>2, <4>1 DEF EventRingInv, NumberInv, Dist
    <3> QED BY <3>1, <3>2
  <2> QED BY <2>1, <2>2, <2>3 DEF NumberInv, Dist
<1> QED BY <1>1, <1>3, <1>5, <1>6, <1>8, <1>9

\* A turn of the handler's loop takes one event from the ring.
LEMMA ReadKeepsRing ==
  ASSUME EventRingInv, IsrEvent
  PROVE  /\ CycleInv' /\ NumberInv'
         /\ handled' \in 0 .. posted /\ handled' = handled + 1
         /\ read_index' \in EventCell /\ cycle_bit' \in 0 .. 1
         /\ event_trb[read_index].event.no = handled + 1
<1>1. /\ read_index \in EventCell /\ hw_index \in EventCell /\ erdp \in EventCell
      /\ hw_cycle \in 0 .. 1 /\ cycle_bit \in 0 .. 1
      /\ handled \in Nat /\ posted \in Nat
  BY DEF EventRingInv, TypeOK
<1>2. Advance(read_index) = IF read_index = num_event - 1 THEN 0 ELSE read_index + 1
  BY <1>1, AdvanceCell
<1>3. /\ read_index' = Advance(read_index)
      /\ cycle_bit' = IF Advance(read_index) = 0 THEN 1 - cycle_bit ELSE cycle_bit
      /\ handled' = handled + 1
      /\ UNCHANGED <<event_trb, hw_index, hw_cycle, posted, erdp>>
  BY DEF IsrEvent, NextEvent, writer
<1>4. handled < posted
  BY FreshMeansPosted DEF IsrEvent
<1>5. read_index # hw_index
  BY <1>1, <1>4 DEF EventRingInv, NumberInv, Dist, EventCell
<1>6. /\ Dist(read_index, hw_index) = Dist(read_index', hw_index) + 1
      /\ Dist(erdp, read_index') = Dist(erdp, read_index) + 1
  BY <1>1, <1>2, <1>3, <1>5, XhciAssumption
  DEF EventRingInv, NumberInv, Dist, EventCell
<1>7. CycleInv'
  BY <1>1, <1>2, <1>3, <1>5, XhciAssumption DEF EventRingInv, CycleInv, EventCell
<1>8. NumberInv'
  <2> DEFINE a == Dist(erdp, read_index)
             b == Dist(read_index, hw_index)
             c == Dist(read_index', hw_index)
  <2>a. a \in Int /\ b \in Int /\ c \in Int
    BY <1>1, <1>2, <1>3, XhciAssumption DEF Dist, EventCell
  <2>b. posted = handled + b /\ a + b = Dist(erdp, hw_index)
        /\ b = c + 1 /\ Dist(erdp, read_index') = a + 1
    BY <1>6 DEF EventRingInv, NumberInv
  <2>c. /\ Dist(erdp', read_index') = Dist(erdp, read_index')
        /\ Dist(read_index', hw_index') = c
        /\ Dist(erdp', hw_index') = Dist(erdp, hw_index)
    BY <1>3 DEF Dist
  <2>1. posted' = handled' + Dist(read_index', hw_index')
    <3> HIDE DEF a, b, c
    <3> QED BY <1>1, <1>3, <2>a, <2>b, <2>c
  <2>2. Dist(erdp', read_index') + Dist(read_index', hw_index') = Dist(erdp', hw_index')
    <3> HIDE DEF a, b, c
    <3> QED BY <1>1, <1>3, <2>a, <2>b, <2>c
  <2>3. ASSUME NEW i \in EventCell,
               Dist(read_index', i) < Dist(read_index', hw_index')
        PROVE  event_trb'[i].event.no = handled' + 1 + Dist(read_index', i)
    <3>1. Dist(read_index, i) = Dist(read_index', i) + 1
      BY <1>1, <1>2, <1>3, <1>5, <2>3, XhciAssumption DEF Dist, EventCell
    <3>2. Dist(read_index, i) < Dist(read_index, hw_index)
      BY <1>1, <1>2, <1>3, <1>6, <2>3, <3>1, XhciAssumption DEF Dist, EventCell
    <3>3. event_trb[i].event.no = handled + 1 + Dist(read_index, i)
      BY <3>2 DEF EventRingInv, NumberInv
    <3> QED BY <1>1, <1>2, <1>3, <3>1, <3>3, XhciAssumption DEF Dist, EventCell
  <2> QED BY <2>1, <2>2, <2>3 DEF NumberInv, Dist
<1>9. event_trb[read_index].event.no = handled + 1
  <2>1. Dist(read_index, read_index) = 0 /\ 0 < Dist(read_index, hw_index)
    BY <1>1, <1>5, XhciAssumption DEF Dist, EventCell
  <2> QED BY <1>1, <2>1 DEF EventRingInv, NumberInv
<1> QED BY <1>1, <1>2, <1>3, <1>4, <1>7, <1>8, <1>9, AdvanceCell


\* The type invariant in two parts: the driver's event ring, and the rest.
RingType ==
  /\ isr \in BOOLEAN /\ seen \in 0 .. posted
  /\ event_trb \in [EventCell -> [event : Event, cycle : 0 .. 1]]
  /\ {read_index, hw_index, erdp} \subseteq EventCell
  /\ {cycle_bit, hw_cycle} \subseteq 0 .. 1
  /\ posted \in Nat /\ handled \in 0 .. posted /\ ports \in 0 .. MaxPortEvents

ThreadType ==
  /\ pc \in {"idle", "armed", "spin", "read"}
  /\ kind \in Shell
  /\ stage \in {"cmd", "add_ep", "xfer", "reset_ep", "set_deq"}
  /\ sub \in Nat /\ calls \in 0 .. MaxCalls /\ ep_running \in BOOLEAN
  /\ cmd_ring \in Seq(Trb) /\ ep_ring \in [Ep -> Seq(Trb)]
  /\ epstate \in [Ep -> {"disabled", "running", "stopped", "halted"}]
  /\ event_wait \in BOOLEAN /\ event_sync \in BOOLEAN /\ evt_trb \in Event
  /\ short \in BOOLEAN /\ failed \in BOOLEAN

LEMMA TypeParts == TypeOK <=> ThreadType /\ RingType
BY DEF TypeOK, ThreadType, RingType

LEMMA RingInvParts ==
  ASSUME ThreadType', RingType', AddsForBulk', CycleInv', NumberInv'
  PROVE  EventRingInv'
BY DEF TypeOK, ThreadType, RingType, EventRingInv

\* A step that leaves the event ring alone.
LEMMA RingUntouched ==
  ASSUME EventRingInv, UNCHANGED <<reader, writer>>
  PROVE  RingType' /\ CycleInv' /\ NumberInv'
<1>1. /\ UNCHANGED <<isr, seen, event_trb, read_index, hw_index, erdp>>
      /\ UNCHANGED <<cycle_bit, hw_cycle, posted, handled, ports>>
  BY DEF reader, writer
<1>2. RingType'
  BY <1>1, TypeParts DEF EventRingInv, RingType
<1>3. CycleInv'
  BY <1>1 DEF EventRingInv, CycleInv
<1>4. NumberInv'
  BY <1>1 DEF EventRingInv, NumberInv, Dist
<1> QED BY <1>2, <1>3, <1>4

\* A step of the controller that posts an event.
LEMMA RingPosted ==
  ASSUME EventRingInv,
         NEW type \in {"port", "completion"}, NEW s \in Nat, NEW code \in Code,
         Post(type, s, code), UNCHANGED reader, ports' \in 0 .. MaxPortEvents
  PROVE  RingType' /\ CycleInv' /\ NumberInv'
<1>1. UNCHANGED <<isr, seen, read_index, cycle_bit, erdp, handled>>
  BY DEF reader
<1>2. /\ CycleInv' /\ NumberInv'
      /\ posted' \in Nat /\ posted' = posted + 1
      /\ event_trb' \in [EventCell -> [event : Event, cycle : 0 .. 1]]
      /\ hw_index' \in EventCell /\ hw_cycle' \in 0 .. 1
  BY <1>1, PostKeepsRing
<1>3. RingType
  BY TypeParts DEF EventRingInv
<1>4. RingType'
  <2>1. seen' \in 0 .. posted' /\ handled' \in 0 .. posted'
    BY <1>1, <1>2, <1>3 DEF RingType
  <2> QED BY <1>1, <1>2, <1>3, <2>1 DEF RingType
<1> QED BY <1>2, <1>4

LEMMA SubmitCommandTypes ==
  ASSUME ThreadType, NEW op \in {"cmd", "add_ep", "reset_ep", "set_deq"},
         SubmitCommand(op),
         kind' \in Shell, op = "add_ep" => kind' \in {"bulk_in", "bulk_out"},
         calls' \in 0 .. MaxCalls,
         ep_running' = ep_running, sync' = sync, short' = short, failed' = failed
  PROVE  ThreadType' /\ AddsForBulk'
<1>1. cmd_ring' \in Seq(Trb)
  <2>1. Trbs(<<op>>) \in Seq(Trb) /\ cmd_ring \in Seq(Trb)
    BY CommandTrbs DEF ThreadType
  <2>2. cmd_ring' = cmd_ring \o Trbs(<<op>>)
    BY DEF SubmitCommand
  <2> QED BY <2>1, <2>2, ConcatProperties
<1>2. ep_ring' \in [Ep -> Seq(Trb)]
  <2>1. ep_ring \in [Ep -> Seq(Trb)] /\ << >> \in Seq(Trb)
    BY EmptySeq DEF ThreadType
  <2>2. ep_ring' = [ep_ring EXCEPT !["bulk"] = << >>] \/ ep_ring' = ep_ring
    BY DEF SubmitCommand
  <2> QED BY <2>1, <2>2
<1>3. /\ stage' = op /\ sub' = sub + 1 /\ pc' = "armed" /\ epstate' = epstate
      /\ UNCHANGED <<ep_running, event_wait, event_sync, evt_trb, short, failed>>
  BY DEF SubmitCommand, sync
<1>4. AddsForBulk'
  BY <1>3 DEF AddsForBulk
<1> QED BY <1>1, <1>2, <1>3, <1>4 DEF ThreadType

LEMMA SubmitTransferTypes ==
  ASSUME ThreadType, NEW k \in Shell \ {"command"},
         SubmitTransfer(k),
         kind' \in Shell, calls' \in 0 .. MaxCalls, ep_running' \in BOOLEAN,
         sync' = sync, short' = short, failed' = failed
  PROVE  ThreadType' /\ AddsForBulk'
<1>1. Endpoint(k) \in Ep
  BY DEF Endpoint, Ep
<1>2. ep_ring' \in [Ep -> Seq(Trb)]
  <2>1. Trbs(Stages(k)) \in Seq(Trb) /\ ep_ring \in [Ep -> Seq(Trb)]
    BY StageTrbs DEF ThreadType
  <2>2. ep_ring[Endpoint(k)] \o Trbs(Stages(k)) \in Seq(Trb)
    BY <1>1, <2>1, ConcatProperties
  <2> QED BY <1>1, <2>1, <2>2 DEF SubmitTransfer
<1>3. epstate' \in [Ep -> {"disabled", "running", "stopped", "halted"}]
  <2>1. epstate' = [epstate EXCEPT ![Endpoint(k)] =
                      IF epstate[Endpoint(k)] = "stopped" THEN "running"
                      ELSE epstate[Endpoint(k)]]
    BY DEF SubmitTransfer
  <2>2. epstate \in [Ep -> {"disabled", "running", "stopped", "halted"}]
    BY DEF ThreadType
  <2> QED BY <1>1, <2>1, <2>2
<1>4. /\ stage' = "xfer" /\ sub' = sub + 1 /\ pc' = "armed" /\ cmd_ring' = cmd_ring
      /\ UNCHANGED <<event_wait, event_sync, evt_trb, short, failed>>
  BY DEF SubmitTransfer, sync
<1>5. AddsForBulk'
  BY <1>4 DEF AddsForBulk
<1> QED BY <1>2, <1>3, <1>4, <1>5 DEF ThreadType


LEMMA ShellCommandTypes ==
  ASSUME EventRingInv, NEW k \in Shell, ShellCommand(k)
  PROVE  EventRingInv'
<1>1. ThreadType /\ RingType
  BY TypeParts DEF EventRingInv
<1>2. RingType' /\ CycleInv' /\ NumberInv'
  BY RingUntouched DEF ShellCommand
<1>3. /\ kind' = k /\ calls' \in 0 .. MaxCalls
      /\ ep_running' = ep_running /\ sync' = sync /\ short' = short /\ failed' = failed
  BY <1>1, XhciAssumption DEF ShellCommand, ThreadType
<1>4. ThreadType' /\ AddsForBulk'
  <2>1. CASE k = "command"
    BY <1>1, <1>3, <2>1, SubmitCommandTypes DEF ShellCommand
  <2>2. CASE k # "command" /\ Endpoint(k) = "bulk" /\ ~ep_running
    <3>1. k \in {"bulk_in", "bulk_out"}
      BY <2>2 DEF Endpoint, Shell
    <3> QED BY <1>1, <1>3, <2>2, <3>1, SubmitCommandTypes DEF ShellCommand
  <2>3. CASE k # "command" /\ ~(Endpoint(k) = "bulk" /\ ~ep_running)
    <3>1. SubmitTransfer(k)
      BY <2>3 DEF ShellCommand
    <3>2. ep_running' \in BOOLEAN
      BY <1>1, <1>3 DEF ThreadType
    <3> QED BY <1>1, <1>3, <2>3, <3>1, <3>2, SubmitTransferTypes
  <2> QED BY <2>1, <2>2, <2>3
<1> QED BY <1>2, <1>4, RingInvParts

LEMMA ThreadTypes ==
  ASSUME EventRingInv, Thread
  PROVE  EventRingInv'
<1>1. ThreadType /\ RingType /\ AddsForBulk
  BY TypeParts DEF EventRingInv
<1>2. reader' = reader /\ writer' = writer
  BY DEF Thread, WaitStart, WaitDone, ReadCommand, ReadTransfer, Recover
<1>3. RingType' /\ CycleInv' /\ NumberInv'
  BY <1>2, RingUntouched
<1>4. ThreadType' /\ AddsForBulk'
  <2>1. CASE WaitStart \/ WaitDone
    BY <1>1, <2>1 DEF WaitStart, WaitDone, rings, ThreadType, AddsForBulk
  <2>2. CASE ReadCommand \/ ReadTransfer \/ Recover
    <3>1. /\ kind' = kind /\ calls' = calls /\ sync' = sync
          /\ short' = short /\ failed' = failed
      BY <2>2 DEF ReadCommand, ReadTransfer, Recover
    <3>2. kind' \in Shell /\ calls' \in 0 .. MaxCalls
      BY <1>1, <3>1 DEF ThreadType
    <3>3. CASE Return /\ ep_running' = ep_running
      BY <1>1, <3>1, <3>3 DEF Return, sync, ThreadType, AddsForBulk
    <3>4. CASE stage = "add_ep" /\ SubmitTransfer(kind) /\ ep_running' \in BOOLEAN
      <4>1. kind \in Shell \ {"command"}
        BY <1>1, <3>4 DEF AddsForBulk, ThreadType
      <4> QED BY <1>1, <3>1, <3>2, <3>4, <4>1, SubmitTransferTypes
    <3>5. ASSUME NEW op \in {"reset_ep", "set_deq"}, SubmitCommand(op),
                 ep_running' = ep_running
          PROVE  ThreadType' /\ AddsForBulk'
      BY <1>1, <3>1, <3>2, <3>5, SubmitCommandTypes
    <3>6. CASE ReadCommand
      BY <3>3, <3>4, <3>6 DEF ReadCommand
    <3>7. CASE ReadTransfer
      BY <3>3, <3>5, <3>7 DEF ReadTransfer
    <3>8. CASE Recover
      BY <3>3, <3>5, <3>8 DEF Recover
    <3> QED BY <2>2, <3>6, <3>7, <3>8
  <2> QED BY <2>1, <2>2 DEF Thread
<1> QED BY <1>3, <1>4, RingInvParts

LEMMA ControllerTypes ==
  ASSUME EventRingInv, Controller \/ PortChange
  PROVE  EventRingInv'
<1>1. ThreadType /\ RingType /\ AddsForBulk
  BY TypeParts DEF EventRingInv
<1>2. AddsForBulk'
  BY <1>1 DEF Controller, ExecuteCommand, ExecuteSilently, ExecuteWithEvent, PortChange,
              thread, AddsForBulk
<1>3. ASSUME NEW code \in Code, ExecuteCommand(code)
      PROVE  ThreadType' /\ RingType' /\ CycleInv' /\ NumberInv'
  <2> DEFINE t == Head(cmd_ring)
  <2>1. /\ t \in Trb /\ Tail(cmd_ring) \in Seq(Trb)
    BY <1>1, <1>3, HeadTailProperties DEF ExecuteCommand, ThreadType
  <2>2. RingType' /\ CycleInv' /\ NumberInv'
    <3>1. Post("completion", t.sub, code) /\ reader' = reader /\ ports' = ports
      BY <1>3 DEF ExecuteCommand
    <3>2. t.sub \in Nat
      BY <2>1 DEF Trb
    <3>3. ports' \in 0 .. MaxPortEvents
      BY <1>1, <3>1 DEF RingType
    <3> QED BY <3>1, <3>2, <3>3, RingPosted
  <2>3. epstate' \in [Ep -> {"disabled", "running", "stopped", "halted"}]
    BY <1>1, <1>3 DEF ExecuteCommand, ThreadType
  <2>4. ep_ring' \in [Ep -> Seq(Trb)]
    <3>1. CASE ep_ring' = ep_ring
      BY <1>1, <3>1 DEF ThreadType
    <3>2. ASSUME NEW n \in 0 .. Len(ep_ring["ctrl"]), SetDequeue(n, t.sub)
          PROVE  ep_ring' \in [Ep -> Seq(Trb)]
      <4>1. ep_ring["ctrl"] \in Seq(Trb)
        BY <1>1 DEF ThreadType, Ep
      <4>2. SubSeq(ep_ring["ctrl"], n + 1, Len(ep_ring["ctrl"])) \in Seq(Trb)
        BY <4>1, SubSeqProperties
      <4> QED BY <1>1, <3>2, <4>2 DEF SetDequeue, ThreadType
    <3> QED BY <1>3, <3>1, <3>2 DEF ExecuteCommand
  <2>5. cmd_ring' \in Seq(Trb)
    BY <1>3, <2>1 DEF ExecuteCommand
  <2> HIDE DEF t
  <2> QED BY <1>1, <1>3, <2>2, <2>3, <2>4, <2>5
          DEF ExecuteCommand, thread, sync, ThreadType
<1>4. ASSUME NEW ep \in Ep, ExecuteSilently(ep)
      PROVE  ThreadType' /\ RingType' /\ CycleInv' /\ NumberInv'
  <2>1. Tail(ep_ring[ep]) \in Seq(Trb)
    BY <1>1, <1>4, HeadTailProperties DEF ExecuteSilently, ThreadType
  <2>2. ep_ring' \in [Ep -> Seq(Trb)]
    BY <1>1, <1>4, <2>1 DEF ExecuteSilently, ThreadType
  <2>3. RingType' /\ CycleInv' /\ NumberInv'
    BY <1>4, RingUntouched DEF ExecuteSilently
  <2> QED BY <1>1, <1>4, <2>2, <2>3 DEF ExecuteSilently, thread, sync, ThreadType
<1>5. ASSUME NEW ep \in Ep, NEW code \in Code, ExecuteWithEvent(ep, code)
      PROVE  ThreadType' /\ RingType' /\ CycleInv' /\ NumberInv'
  <2>1. Head(ep_ring[ep]) \in Trb /\ Tail(ep_ring[ep]) \in Seq(Trb)
    BY <1>1, <1>5, HeadTailProperties DEF ExecuteWithEvent, ThreadType
  <2>2. RingType' /\ CycleInv' /\ NumberInv'
    <3>1. /\ Post("completion", Head(ep_ring[ep]).sub, code)
          /\ reader' = reader /\ ports' = ports
      BY <1>5 DEF ExecuteWithEvent
    <3>2. Head(ep_ring[ep]).sub \in Nat
      BY <2>1 DEF Trb
    <3>3. ports' \in 0 .. MaxPortEvents
      BY <1>1, <3>1 DEF RingType
    <3> QED BY <3>1, <3>2, <3>3, RingPosted
  <2>3. ep_ring' \in [Ep -> Seq(Trb)]
    BY <1>1, <1>5, <2>1 DEF ExecuteWithEvent, ThreadType
  <2>4. epstate' \in [Ep -> {"disabled", "running", "stopped", "halted"}]
    BY <1>1, <1>5 DEF ExecuteWithEvent, ThreadType
  <2>5. short' \in BOOLEAN /\ failed' \in BOOLEAN
    BY <1>5, Zenon DEF ExecuteWithEvent
  <2> QED BY <1>1, <1>5, <2>2, <2>3, <2>4, <2>5
          DEF ExecuteWithEvent, thread, sync, ThreadType
<1>6. CASE PortChange
  <2>1. RingType' /\ CycleInv' /\ NumberInv'
    <3>1. Post("port", 0, "success") /\ reader' = reader
      BY <1>6 DEF PortChange
    <3>2. ports' \in 0 .. MaxPortEvents
      BY <1>1, <1>6, XhciAssumption DEF PortChange, RingType
    <3> QED BY <3>1, <3>2, RingPosted DEF Code
  <2>2. ThreadType'
    BY <1>1, <1>6 DEF PortChange, thread, rings, sync, ThreadType
  <2> QED BY <1>2, <2>1, <2>2, RingInvParts
<1> QED BY <1>2, <1>3, <1>4, <1>5, <1>6, RingInvParts DEF Controller

LEMMA IsrTypes ==
  ASSUME EventRingInv, Isr
  PROVE  EventRingInv'
<1>1. ThreadType /\ RingType /\ AddsForBulk /\ CycleInv /\ NumberInv
  BY TypeParts DEF EventRingInv
<1>2. CASE IsrEnter
  <2>1. ThreadType' /\ AddsForBulk'
    BY <1>1, <1>2 DEF IsrEnter, thread, rings, sync, ThreadType, AddsForBulk
  <2>2. RingType'
    BY <1>1, <1>2 DEF IsrEnter, writer, RingType
  <2>3. CycleInv' /\ NumberInv'
    BY <1>1, <1>2 DEF IsrEnter, writer, CycleInv, NumberInv, Dist
  <2> QED BY <2>1, <2>2, <2>3, RingInvParts
<1>3. CASE IsrEvent
  <2>1. event_trb[read_index].event \in Event
    BY <1>1 DEF RingType
  <2>2. event_wait' \in BOOLEAN /\ event_sync' \in BOOLEAN /\ evt_trb' \in Event
    BY <1>1, <1>3, <2>1 DEF IsrEvent, EventComplete, sync, ThreadType
  <2>3. ThreadType' /\ AddsForBulk'
    BY <1>1, <1>3, <2>2 DEF IsrEvent, thread, rings, ThreadType, AddsForBulk
  <2>4. /\ CycleInv' /\ NumberInv'
        /\ handled' \in 0 .. posted
        /\ read_index' \in EventCell /\ cycle_bit' \in 0 .. 1
    BY <1>3, ReadKeepsRing
  <2>5. RingType'
    BY <1>1, <1>3, <2>4 DEF IsrEvent, writer, RingType
  <2> QED BY <2>3, <2>4, <2>5, RingInvParts
<1>4. CASE IsrExit
  <2>1. ThreadType' /\ AddsForBulk'
    BY <1>1, <1>4 DEF IsrExit, thread, rings, sync, ThreadType, AddsForBulk
  <2>2. RingType'
    BY <1>1, <1>4 DEF IsrExit, writer, RingType
  <2>3. CycleInv'
    BY <1>1, <1>4 DEF IsrExit, writer, CycleInv
  <2>4. NumberInv'
    BY <1>1, <1>4, XhciAssumption DEF IsrExit, writer, NumberInv, Dist, RingType, EventCell
  <2> QED BY <2>1, <2>2, <2>3, <2>4, RingInvParts
<1> QED BY <1>2, <1>3, <1>4 DEF Isr


LEMMA RingInductive ==
  EventRingInv /\ [Next]_vars => EventRingInv'
<1> SUFFICES ASSUME EventRingInv, [Next]_vars PROVE EventRingInv'
  OBVIOUS
<1>1. ThreadType /\ RingType /\ AddsForBulk
  BY TypeParts DEF EventRingInv
<1>2. CASE UNCHANGED vars
  <2>1. reader' = reader /\ writer' = writer /\ thread' = thread /\ rings' = rings
        /\ sync' = sync
    BY <1>2 DEF vars
  <2>2. ThreadType' /\ AddsForBulk'
    BY <1>1, <2>1 DEF thread, rings, sync, ThreadType, AddsForBulk
  <2> QED BY <2>1, <2>2, RingUntouched, RingInvParts
<1> QED BY <1>2, ShellCommandTypes, ThreadTypes, ControllerTypes, IsrTypes DEF Next

LEMMA RingInit ==
  Init => EventRingInv
<1> SUFFICES ASSUME Init PROVE EventRingInv
  OBVIOUS
<1>a. NoEvent \in Event
  BY DEF NoEvent, Event, Code
<1>1. ThreadType
  <2>1. cmd_ring \in Seq(Trb) /\ ep_ring \in [Ep -> Seq(Trb)]
    BY EmptySeq DEF Init
  <2>2. epstate \in [Ep -> {"disabled", "running", "stopped", "halted"}]
    BY DEF Init
  <2>3. calls \in 0 .. MaxCalls /\ sub \in Nat
    BY XhciAssumption DEF Init
  <2> QED BY <1>a, <2>1, <2>2, <2>3 DEF Init, ThreadType, Shell
<1>2. RingType
  <2>1. event_trb \in [EventCell -> [event : Event, cycle : 0 .. 1]]
    <3>1. [event |-> NoEvent, cycle |-> 0] \in [event : Event, cycle : 0 .. 1]
      BY <1>a
    <3> QED BY <3>1 DEF Init
  <2>2. 0 \in EventCell /\ 0 \in 0 .. MaxPortEvents
    BY XhciAssumption DEF EventCell
  <2> QED BY <2>1, <2>2 DEF Init, RingType
<1>3. AddsForBulk /\ CycleInv /\ NumberInv
  BY XhciAssumption DEF Init, AddsForBulk, CycleInv, NumberInv, Dist, EventCell
<1> QED BY <1>1, <1>2, <1>3, TypeParts DEF EventRingInv

LEMMA RingInvariant == Spec => []EventRingInv
BY RingInit, RingInductive, PTL DEF Spec

\* xhci_isr, for an event ring of any size: however the controller's posts
\* interleave with the handler's turns and exits, and over any number of laps, the
\* cycle bits make it handle every event once and in the order of the posts, and it
\* stops at the read index only if it has handled all.
THEOREM EventsHandledInOrder == Spec => [](TypeOK /\ EventsInOrder)
<1>1. EventRingInv => TypeOK /\ EventsInOrder
  <2> SUFFICES ASSUME EventRingInv PROVE TypeOK /\ EventsInOrder
    OBVIOUS
  <2>1. TypeOK /\ read_index \in EventCell /\ hw_index \in EventCell
        /\ handled \in 0 .. posted /\ posted \in Nat
    BY DEF EventRingInv, TypeOK
  <2>2. ASSUME Fresh PROVE event_trb[read_index].event.no = handled + 1
    <3>1. handled < posted
      BY <2>2, FreshMeansPosted
    <3>2. Dist(read_index, read_index) = 0 /\ 0 < Dist(read_index, hw_index)
      BY <2>1, <3>1, XhciAssumption DEF EventRingInv, NumberInv, Dist, EventCell
    <3> QED BY <2>1, <3>2 DEF EventRingInv, NumberInv
  <2>3. ~Fresh => handled = posted
    BY <2>1, FreshMeansPosted
  <2> QED BY <2>1, <2>2, <2>3 DEF EventsInOrder
<1> QED BY <1>1, RingInvariant, PTL


----------------------------------------------------------------------------
(***************************************************************************)
(* The submissions.                                                        *)
(***************************************************************************)
\* Completion events that are not handled come from posts of completion events
\* and go when they are handled.
LEMMA PendingPosted ==
  ASSUME EventRingInv, Pending = {},
         NEW s \in Nat, NEW code \in Code, Post("completion", s, code), handled' = handled
  PROVE  \A i \in Pending' : /\ i = hw_index
                             /\ event_trb'[i].event.sub = s
                             /\ event_trb'[i].event.code = code
<1>1. hw_index \in EventCell /\ DOMAIN event_trb = EventCell
  BY DEF EventRingInv, TypeOK
<1> SUFFICES ASSUME NEW i \in Pending'
             PROVE  /\ i = hw_index
                    /\ event_trb'[i].event.sub = s
                    /\ event_trb'[i].event.code = code
  OBVIOUS
<1>2. event_trb' = [event_trb EXCEPT ![hw_index] =
        [event |-> [no |-> posted + 1, type |-> "completion", sub |-> s, code |-> code],
         cycle |-> hw_cycle]]
  BY DEF Post
<1>3. i \in EventCell
  BY DEF Pending
<1>4. i = hw_index
  BY <1>1, <1>2, <1>3 DEF Pending
<1> QED BY <1>1, <1>2, <1>4

LEMMA PendingAfterPort ==
  ASSUME EventRingInv, Post("port", 0, "success"), handled' = handled
  PROVE  \A i \in Pending' : i \in Pending /\ event_trb'[i].event = event_trb[i].event
<1>1. hw_index \in EventCell /\ DOMAIN event_trb = EventCell
  BY DEF EventRingInv, TypeOK
<1>2. event_trb' = [event_trb EXCEPT ![hw_index] =
        [event |-> [no |-> posted + 1, type |-> "port", sub |-> 0, code |-> "success"],
         cycle |-> hw_cycle]]
  BY DEF Post
<1> SUFFICES ASSUME NEW i \in Pending'
             PROVE  i \in Pending /\ event_trb'[i].event = event_trb[i].event
  OBVIOUS
<1>3. i \in EventCell /\ event_trb'[i].event.type = "completion"
      /\ event_trb'[i].event.no > handled
  BY DEF Pending
<1>4. i # hw_index
  BY <1>1, <1>2, <1>3
<1>5. event_trb'[i] = event_trb[i]
  BY <1>1, <1>2, <1>3, <1>4
<1> QED BY <1>3, <1>5 DEF Pending

LEMMA PendingAfterRead ==
  ASSUME EventRingInv, SubmissionInv, IsrEvent
  PROVE  /\ event_trb' = event_trb /\ Pending' \subseteq Pending
         /\ event_trb[read_index].event.type = "completion" =>
              read_index \in Pending /\ Pending' = {}
<1>1. event_trb' = event_trb /\ handled' = handled + 1
      /\ event_trb[read_index].event.no = handled + 1 /\ read_index \in EventCell
  BY ReadKeepsRing DEF IsrEvent, writer, EventRingInv, TypeOK
<1>2. handled \in Nat /\ \A i \in EventCell : event_trb[i].event.no \in Nat
  BY DEF EventRingInv, TypeOK, Event
<1>3. Pending' \subseteq Pending
  BY <1>1, <1>2 DEF Pending
<1>4. ASSUME event_trb[read_index].event.type = "completion"
      PROVE  read_index \in Pending /\ Pending' = {}
  <2>1. read_index \in Pending
    BY <1>1, <1>2, <1>4 DEF Pending
  <2>2. ASSUME NEW i \in Pending' PROVE FALSE
    <3>1. i = read_index
      BY <1>3, <2>1 DEF SubmissionInv, PendingInv
    <3>2. event_trb'[i].event.no > handled'
      BY DEF Pending
    <3> QED BY <1>1, <1>2, <3>1, <3>2
  <2> QED BY <2>1, <2>2
<1> QED BY <1>1, <1>3, <1>4

\* A step of which the thread and the endpoints do not learn.
LEMMA SubmissionUntouched ==
  ASSUME SubmissionInv,
         thread' = thread, rings' = rings, sync' = sync,
         \A i \in Pending' : i \in Pending /\ event_trb'[i].event = event_trb[i].event
  PROVE  SubmissionInv'
<1>1. /\ UNCHANGED <<pc, kind, stage, sub, cmd_ring, ep_ring, epstate, failed>>
      /\ UNCHANGED <<event_wait, event_sync, evt_trb>>
  BY DEF thread, rings, sync
<1>2. Quiet => Quiet'
  BY <1>1 DEF Quiet, Working
<1>3. Told' = Told /\ \A ep \in Ep : Working(ep)' = Working(ep)
  BY <1>1 DEF Told, Working
<1>4. Pending = {} => Pending' = {}
  OBVIOUS
<1>5. WaitInv'
  BY <1>1, <1>2, <1>3 DEF SubmissionInv, WaitInv
<1>6. CommandInv' /\ TransferInv'
  BY <1>1, <1>3, <1>4 DEF SubmissionInv, CommandInv, TransferInv
<1>7. PendingInv' /\ RecoverInv'
  BY <1>1 DEF SubmissionInv, PendingInv, RecoverInv
<1>8. StallInv' /\ HaltInv'
  BY <1>1, <1>3 DEF SubmissionInv, StallInv, HaltInv
<1>9. RoomInv'
  BY <1>1, <1>2 DEF SubmissionInv, RoomInv
<1> QED BY <1>5, <1>6, <1>7, <1>8, <1>9 DEF SubmissionInv

LEMMA IsrSubmission ==
  ASSUME EventRingInv, SubmissionInv, Isr \/ PortChange
  PROVE  SubmissionInv'
<1>1. CASE IsrEnter \/ IsrExit
  <2>1. thread' = thread /\ rings' = rings /\ sync' = sync
        /\ event_trb' = event_trb /\ handled' = handled
    BY <1>1 DEF IsrEnter, IsrExit, writer
  <2> QED BY <2>1, SubmissionUntouched DEF Pending
<1>2. CASE PortChange
  <2>1. thread' = thread /\ rings' = rings /\ sync' = sync /\ handled' = handled
        /\ Post("port", 0, "success")
    BY <1>2 DEF PortChange, reader
  <2> QED BY <2>1, PendingAfterPort, SubmissionUntouched
<1>3. CASE IsrEvent /\ event_trb[read_index].event.type # "completion"
  <2>1. thread' = thread /\ rings' = rings /\ sync' = sync
    BY <1>3 DEF IsrEvent
  <2> QED BY <1>3, <2>1, PendingAfterRead, SubmissionUntouched
<1>4. CASE IsrEvent /\ event_trb[read_index].event.type = "completion"
  <2> DEFINE event == event_trb[read_index].event
  <2>1. read_index \in Pending /\ Pending' = {}
    BY <1>4, PendingAfterRead
  <2>2. /\ UNCHANGED <<pc, kind, stage, sub, cmd_ring, ep_ring, epstate, failed>>
        /\ event_wait' = event_wait /\ evt_trb' = event
        /\ event_sync' = (event_sync \/ event_wait)
    BY <1>4 DEF IsrEvent, EventComplete, thread, rings
  <2>3. ~event_sync /\ pc # "idle" /\ pc # "read" /\ cmd_ring = << >>
        /\ \A ep \in Ep : ~Working(ep)
    BY <2>1 DEF SubmissionInv, WaitInv, Told, Quiet, CommandInv, TransferInv
  <2>4. Quiet'
    BY <2>1, <2>2, <2>3 DEF Quiet, Working
  <2>5. event.sub = sub
    BY <2>1 DEF SubmissionInv, PendingInv
  <2>6. WaitInv'
    BY <2>2, <2>3, <2>4, <2>5 DEF SubmissionInv, WaitInv
  <2>7. CommandInv' /\ TransferInv' /\ PendingInv'
    BY <2>1, <2>2, <2>3, <2>4 DEF CommandInv, TransferInv, PendingInv, Quiet
  <2>8. RecoverInv'
    BY <2>2 DEF SubmissionInv, RecoverInv
  <2>9. StallInv' /\ HaltInv'
    BY <2>1, <2>2, <2>3 DEF SubmissionInv, StallInv, HaltInv, Told
  <2>10. RoomInv'
    <3>1. \A ep \in Ep : ~(Len(ep_ring[ep]) > 3)
      BY <2>1 DEF SubmissionInv, RoomInv, Quiet
    <3> QED BY <2>2, <3>1 DEF SubmissionInv, RoomInv
  <2> QED BY <2>6, <2>7, <2>8, <2>9, <2>10 DEF SubmissionInv
<1> QED BY <1>1, <1>2, <1>3, <1>4 DEF Isr


\* Between two submissions nothing is on its way, and no ring holds more than one
\* transfer; a command can be submitted.
LEMMA SubmitCommandSubmission ==
  ASSUME ThreadType, SubmissionInv, pc \in {"idle", "read"},
         NEW op \in {"cmd", "add_ep", "reset_ep", "set_deq"}, SubmitCommand(op),
         sync' = sync, event_trb' = event_trb, handled' = handled, failed' = failed,
         op = "reset_ep" => epstate["ctrl"] = "halted",
         op = "set_deq" => epstate["ctrl"] = "stopped",
         op \in {"cmd", "add_ep"} =>
           /\ epstate["ctrl"] = "stopped" => ep_ring["ctrl"] = << >>
           /\ ~failed => epstate["ctrl"] # "halted"
  PROVE  SubmissionInv'
<1>1. Quiet /\ ~event_sync /\ ~event_wait
  BY DEF SubmissionInv, WaitInv, Told
<1>2. /\ cmd_ring' = Trbs(<<op>>)
      /\ Trbs(<<op>>) \in Seq(Trb) /\ Len(Trbs(<<op>>)) = 1
      /\ Trbs(<<op>>)[1].sub = sub + 1 /\ Trbs(<<op>>)[1].op = op
  <2>1. /\ Trbs(<<op>>) \in Seq(Trb) /\ Len(Trbs(<<op>>)) = 1
        /\ Trbs(<<op>>)[1].sub = sub + 1 /\ Trbs(<<op>>)[1].op = op
    BY CommandTrbs DEF ThreadType
  <2>2. cmd_ring' = cmd_ring \o Trbs(<<op>>) /\ cmd_ring = << >>
    BY <1>1 DEF SubmitCommand, Quiet
  <2> QED BY <2>1, <2>2, ConcatEmptySeq
<1>3. /\ ep_ring' = IF op = "add_ep" THEN [ep_ring EXCEPT !["bulk"] = << >>] ELSE ep_ring
      /\ stage' = op /\ sub' = sub + 1 /\ pc' = "armed" /\ epstate' = epstate
      /\ UNCHANGED <<event_wait, event_sync, evt_trb, failed>>
  BY DEF SubmitCommand, sync
<1>4. /\ DOMAIN ep_ring = Ep /\ sub \in Nat /\ Ep = {"ctrl", "bulk"}
      /\ \A ep \in Ep : ep_ring[ep] \in Seq(Trb)
  BY DEF ThreadType, Ep
<1>5. ep_ring'["ctrl"] = ep_ring["ctrl"]
      /\ ep_ring'["bulk"] = IF op = "add_ep" THEN << >> ELSE ep_ring["bulk"]
  BY <1>3, <1>4
<1>6. Pending' = {}
  BY <1>1 DEF Quiet, Pending
<1>7. \A ep \in Ep : ~Working(ep)'
  BY <1>1, <1>3, <1>4, <1>5 DEF Quiet, Working
<1>8. ~Told' /\ cmd_ring' # << >>
  BY <1>1, <1>2, <1>3 DEF Told
<1>9. WaitInv' /\ CommandInv' /\ TransferInv' /\ PendingInv'
  BY <1>1, <1>2, <1>3, <1>6, <1>7, <1>8
  DEF WaitInv, CommandInv, TransferInv, PendingInv
<1>10. RecoverInv'
  BY <1>3, <1>5, <1>8 DEF SubmissionInv, RecoverInv
<1>11. StallInv' /\ HaltInv'
  BY <1>3 DEF StallInv, HaltInv
<1>12. RoomInv'
  <2>1. \A ep \in Ep : \A i \in 1 .. Len(ep_ring[ep]) : ep_ring[ep][i].sub <= sub
    BY DEF SubmissionInv, RoomInv
  <2>2. \A ep \in Ep : ~(Len(ep_ring[ep]) > 3) /\ Len(ep_ring[ep]) \in Nat
    BY <1>4, TrbRing DEF SubmissionInv, RoomInv
  <2>3. \A ep \in Ep : \A i \in 1 .. Len(ep_ring[ep]) : ep_ring[ep][i].sub \in Nat
    BY <1>4, TrbRing
  <2> SUFFICES ASSUME NEW ep \in Ep
               PROVE  /\ \A i \in 1 .. Len(ep_ring'[ep]) : ep_ring'[ep][i].sub <= sub'
                      /\ Len(ep_ring'[ep]) <= 3 /\ Len(ep_ring'[ep]) \in Nat
    BY DEF RoomInv
  <2>4. CASE ep_ring'[ep] = ep_ring[ep]
    BY <1>3, <1>4, <2>1, <2>2, <2>3, <2>4
  <2>5. CASE ep_ring'[ep] = << >>
    BY <2>5
  <2> QED BY <1>4, <1>5, <2>4, <2>5
<1> QED BY <1>9, <1>10, <1>11, <1>12 DEF SubmissionInv

\* So can a transfer.  On an endpoint that works the ring was empty before; on one
\* that does not, nothing happens to it.
LEMMA SubmitTransferSubmission ==
  ASSUME ThreadType, SubmissionInv, pc \in {"idle", "read"},
         NEW k \in Shell \ {"command"}, SubmitTransfer(k), kind' = k,
         sync' = sync, event_trb' = event_trb, handled' = handled, failed' = failed,
         epstate["ctrl"] = "stopped" => ep_ring["ctrl"] = << >>,
         ~failed => epstate["ctrl"] # "halted"
  PROVE  SubmissionInv'
<1> DEFINE e == Endpoint(k)
           new == Trbs(Stages(k))
<1>1. Quiet /\ ~event_sync /\ ~event_wait
  BY DEF SubmissionInv, WaitInv, Told
<1>2. /\ new \in Seq(Trb) /\ Len(new) \in 1 .. 3
      /\ \A i \in 1 .. Len(new) :
           new[i].sub = sub + 1 /\ (new[i].op \in Final => i = Len(new))
  BY StageTrbs DEF ThreadType
<1>3. e \in Ep /\ Ep = {"ctrl", "bulk"} /\ sub \in Nat
      /\ \A ep \in Ep : ep_ring[ep] \in Seq(Trb)
  BY DEF Endpoint, Ep, ThreadType
<1>4. /\ \A ep \in Ep : ep_ring'[ep] = IF ep = e THEN ep_ring[ep] \o new ELSE ep_ring[ep]
      /\ \A ep \in Ep : epstate'[ep] =
           IF ep = e /\ epstate[ep] = "stopped" THEN "running" ELSE epstate[ep]
      /\ stage' = "xfer" /\ sub' = sub + 1 /\ pc' = "armed" /\ cmd_ring' = cmd_ring
      /\ UNCHANGED <<event_wait, event_sync, evt_trb, failed>>
  BY DEF SubmitTransfer, sync, ThreadType
<1> HIDE DEF new
<1>5. Pending' = {} /\ cmd_ring' = << >>
  BY <1>1, <1>4 DEF Quiet, Pending
<1>6. ~Told'
  BY <1>1, <1>4 DEF Told
<1>7. ASSUME NEW ep \in Ep, Working(ep)'
      PROVE  ep = e /\ ep_ring'[ep] = new
  <2>1. ep = e
    BY <1>1, <1>3, <1>4, <1>7 DEF Quiet, Working
  <2>2. ep_ring[ep] = << >>
    <3>1. CASE epstate[ep] = "running"
      BY <1>1, <3>1 DEF Quiet, Working
    <3>2. CASE epstate[ep] = "stopped"
      BY <1>3, <3>2 DEF SubmissionInv, RecoverInv
    <3> QED BY <1>4, <1>7, <3>1, <3>2 DEF Working
  <2> QED BY <1>2, <1>4, <2>1, <2>2, ConcatEmptySeq
<1>8. WaitInv' /\ CommandInv' /\ PendingInv'
  BY <1>1, <1>4, <1>5, <1>6 DEF WaitInv, CommandInv, PendingInv
<1>9. TransferInv'
  <2> SUFFICES ASSUME NEW ep \in Ep, Working(ep)'
               PROVE  /\ ep = Endpoint(kind') /\ stage' = "xfer" /\ Pending' = {}
                      /\ \A i \in 1 .. Len(ep_ring'[ep]) :
                           /\ ep_ring'[ep][i].sub = sub'
                           /\ ep_ring'[ep][i].op \in Final => i = Len(ep_ring'[ep])
    BY DEF TransferInv, Endpoint
  <2> QED BY <1>2, <1>4, <1>5, <1>7
<1>10. RecoverInv'
  <2>1. epstate'["ctrl"] = "stopped" => ep_ring'["ctrl"] = << >>
    BY <1>3, <1>4
  <2> QED BY <1>3, <1>4, <2>1 DEF SubmissionInv, RecoverInv
<1>11. StallInv' /\ HaltInv'
  BY <1>3, <1>4, <1>5, <1>6 DEF StallInv, HaltInv
<1>12. RoomInv'
  <2> SUFFICES ASSUME NEW ep \in Ep
               PROVE  /\ \A i \in 1 .. Len(ep_ring'[ep]) : ep_ring'[ep][i].sub <= sub'
                      /\ Len(ep_ring'[ep]) <= 6
                      /\ Len(ep_ring'[ep]) > 3 => Quiet' /\ ~event_sync' /\ pc' = "armed"
    BY DEF RoomInv
  <2>1. /\ Len(ep_ring[ep]) \in 0 .. 3 /\ ep_ring[ep] \in Seq(Trb)
        /\ \A i \in 1 .. Len(ep_ring[ep]) :
             ep_ring[ep][i].sub <= sub /\ ep_ring[ep][i].sub \in Nat
    <3>1. /\ ep_ring[ep] \in Seq(Trb) /\ Len(ep_ring[ep]) \in Nat
          /\ \A i \in 1 .. Len(ep_ring[ep]) : ep_ring[ep][i].sub \in Nat
      BY <1>3, TrbRing
    <3>2. /\ ~(Len(ep_ring[ep]) > 3)
          /\ \A i \in 1 .. Len(ep_ring[ep]) : ep_ring[ep][i].sub <= sub
      BY DEF SubmissionInv, RoomInv
    <3>3. Len(ep_ring[ep]) \in 0 .. 3
      <4> DEFINE n == Len(ep_ring[ep])
      <4>1. n \in Nat /\ ~(n > 3)
        BY <3>1, <3>2, Zenon
      <4> HIDE DEF n
      <4>2. n \in 0 .. 3
        BY <4>1
      <4> QED BY <4>2, Zenon DEF n
    <3> QED BY <3>1, <3>2, <3>3, Zenon
  <2>2. CASE ep # e
    <3>1. ep_ring'[ep] = ep_ring[ep]
      BY <1>4, <2>2
    <3>2. \A i \in 1 .. Len(ep_ring[ep]) : ep_ring[ep][i].sub <= sub + 1
      BY <1>3, <2>1
    <3> QED BY <1>4, <2>1, <3>1, <3>2
  <2>3. CASE ep = e
    <3>1. ep_ring'[ep] = ep_ring[ep] \o new
      BY <1>4, <2>3
    <3>2. /\ Len(ep_ring'[ep]) = Len(ep_ring[ep]) + Len(new)
          /\ \A i \in 1 .. Len(ep_ring'[ep]) : ep_ring'[ep][i].sub <= sub'
      BY <1>2, <1>3, <1>4, <2>1, <3>1, AppendTrbs
    <3>3. ASSUME Len(ep_ring'[ep]) > 3, NEW f \in Ep, Working(f)'
          PROVE  FALSE
      <4>1. f = e /\ ep_ring'[f] = new
        BY <1>7, <3>3
      <4> QED BY <1>2, <2>3, <3>3, <4>1
    <3>4. Len(ep_ring'[ep]) > 3 => Quiet'
      BY <1>5, <3>3 DEF Quiet
    <3>5. Len(ep_ring'[ep]) <= 6
      <4>1. Len(ep_ring'[ep]) = Len(ep_ring[ep]) + Len(new)
        BY <3>2, Zenon
      <4>2. Len(ep_ring[ep]) \in 0 .. 3 /\ Len(new) \in 1 .. 3
        BY <1>2, <2>1, Zenon
      <4>3. \A a \in 0 .. 3, b \in 1 .. 3 : a + b <= 6
        OBVIOUS
      <4> QED BY <4>1, <4>2, <4>3, Zenon
    <3> QED BY <1>1, <1>4, <3>2, <3>4, <3>5
  <2> QED BY <2>2, <2>3
<1> QED BY <1>8, <1>9, <1>10, <1>11, <1>12 DEF SubmissionInv


LEMMA ThreadSubmission ==
  ASSUME EventRingInv, SubmissionInv, Thread
  PROVE  SubmissionInv'
<1>1. ThreadType /\ AddsForBulk
  BY TypeParts DEF EventRingInv
<1>2. event_trb' = event_trb /\ handled' = handled /\ failed' = failed
  BY DEF Thread, WaitStart, WaitDone, ReadCommand, ReadTransfer, Recover, rings, reader,
         writer
<1>3. Pending' = Pending
  BY <1>2 DEF Pending
<1>4. CASE WaitStart \/ WaitDone
  <2>1. /\ UNCHANGED <<kind, stage, sub, evt_trb, cmd_ring, ep_ring, epstate>>
        /\ event_sync' => pc' = "spin"
        /\ event_wait' => pc' = "spin"
        /\ pc' # "idle" /\ pc # "idle" /\ pc # "read"
    BY <1>4 DEF WaitStart, WaitDone, rings, SubmissionInv, WaitInv
  <2>2. Told' = Told
    BY <1>4 DEF WaitStart, WaitDone, Told, SubmissionInv, WaitInv
  <2>3. Quiet' = Quiet /\ \A ep \in Ep : Working(ep)' = Working(ep)
    BY <1>3, <2>1 DEF Quiet, Working
  <2>4. WaitInv'
    BY <2>1, <2>2, <2>3 DEF SubmissionInv, WaitInv
  <2>5. CommandInv' /\ TransferInv' /\ PendingInv'
    BY <1>2, <1>3, <2>1, <2>3 DEF SubmissionInv, CommandInv, TransferInv, PendingInv
  <2>6. RecoverInv' /\ StallInv' /\ HaltInv'
    BY <1>2, <1>3, <2>1, <2>2 DEF SubmissionInv, RecoverInv, StallInv, HaltInv
  <2>7. RoomInv'
    <3>1. \A ep \in Ep : Len(ep_ring[ep]) > 3 =>
            Quiet' /\ ~event_sync' /\ pc' \in {"armed", "spin"}
      BY <1>4, <2>3 DEF SubmissionInv, RoomInv, WaitStart, WaitDone
    <3> QED BY <2>1, <3>1 DEF SubmissionInv, RoomInv
  <2> QED BY <2>4, <2>5, <2>6, <2>7 DEF SubmissionInv
<1>5. CASE ReadCommand \/ ReadTransfer \/ Recover
  <2>1. kind' = kind /\ sync' = sync /\ pc = "read"
    BY <1>5 DEF ReadCommand, ReadTransfer, Recover
  <2>2. Told /\ Quiet /\ ~event_sync /\ ~event_wait
    BY <2>1 DEF SubmissionInv, WaitInv, Told
  <2>3. ASSUME Return, stage \in {"cmd", "xfer", "set_deq"},
               ~failed => epstate["ctrl"] # "halted"
        PROVE  SubmissionInv'
    <3>1. /\ UNCHANGED <<kind, stage, sub, cmd_ring, ep_ring, epstate, failed>>
          /\ UNCHANGED <<event_wait, event_sync, evt_trb>> /\ pc' = "idle"
      BY <1>2, <2>1, <2>3 DEF Return, sync
    <3>2. Quiet' /\ Quiet /\ ~Told' /\ Pending' = {} /\ cmd_ring' = << >>
      BY <1>3, <2>2, <3>1 DEF Quiet, Working, Told
    <3>3. WaitInv' /\ CommandInv' /\ TransferInv' /\ PendingInv'
      BY <2>2, <2>3, <3>1, <3>2 DEF WaitInv, CommandInv, TransferInv, PendingInv, Quiet
    <3>4. RecoverInv' /\ StallInv' /\ HaltInv'
      BY <2>3, <3>1, <3>2 DEF SubmissionInv, RecoverInv, StallInv, HaltInv
    <3>5. RoomInv'
      <4>1. \A ep \in Ep : ~(Len(ep_ring[ep]) > 3)
        BY <2>1 DEF SubmissionInv, RoomInv
      <4> QED BY <3>1, <4>1 DEF SubmissionInv, RoomInv
    <3> QED BY <3>3, <3>4, <3>5 DEF SubmissionInv
  <2>4. CASE ReadCommand
    <3>1. CASE stage = "cmd"
      BY <2>3, <2>4, <3>1 DEF ReadCommand, SubmissionInv, HaltInv
    <3>2. CASE stage = "add_ep"
      <4>1. SubmitTransfer(kind) /\ kind \in Shell \ {"command"}
        BY <1>1, <2>4, <3>2 DEF ReadCommand, AddsForBulk, ThreadType
      <4>2. epstate["ctrl"] = "stopped" => ep_ring["ctrl"] = << >>
        BY <3>2 DEF SubmissionInv, RecoverInv
      <4>3. ~failed => epstate["ctrl"] # "halted"
        BY <3>2 DEF SubmissionInv, HaltInv
      <4> QED BY <1>1, <1>2, <2>1, <4>1, <4>2, <4>3, SubmitTransferSubmission
    <3> QED BY <2>4, <3>1, <3>2 DEF ReadCommand
  <2>5. CASE ReadTransfer
    <3>1. stage = "xfer"
      BY <2>5 DEF ReadTransfer
    <3>2. CASE Endpoint(kind) = "ctrl" /\ evt_trb.code = "stall"
      <4>1. epstate["ctrl"] = "halted"
        BY <2>2, <3>1, <3>2 DEF SubmissionInv, StallInv
      <4> QED BY <1>1, <1>2, <2>1, <2>5, <3>2, <4>1, SubmitCommandSubmission
              DEF ReadTransfer
    <3>3. CASE ~(Endpoint(kind) = "ctrl" /\ evt_trb.code = "stall")
      BY <2>2, <2>3, <2>5, <3>1, <3>3 DEF ReadTransfer, SubmissionInv, HaltInv
    <3> QED BY <3>2, <3>3
  <2>6. CASE Recover
    <3>1. CASE stage = "reset_ep"
      <4>1. epstate["ctrl"] = "stopped"
        BY <2>2, <3>1 DEF SubmissionInv, RecoverInv, Quiet
      <4> QED BY <1>1, <1>2, <2>1, <2>6, <3>1, <4>1, SubmitCommandSubmission DEF Recover
    <3>2. CASE stage = "set_deq"
      BY <2>3, <2>6, <3>2 DEF Recover, SubmissionInv, RecoverInv
    <3> QED BY <2>6, <3>1, <3>2 DEF Recover
  <2> QED BY <1>5, <2>4, <2>5, <2>6
<1> QED BY <1>4, <1>5 DEF Thread

LEMMA ShellSubmission ==
  ASSUME EventRingInv, SubmissionInv, NEW k \in Shell, ShellCommand(k)
  PROVE  SubmissionInv'
<1>1. ThreadType
  BY TypeParts DEF EventRingInv
<1>2. /\ event_trb' = event_trb /\ handled' = handled /\ failed' = failed
      /\ kind' = k /\ sync' = sync /\ pc = "idle"
  BY DEF ShellCommand, reader, writer
<1>3. Quiet /\ stage # "reset_ep" /\ stage # "add_ep"
  BY <1>2 DEF SubmissionInv, WaitInv
<1>4. epstate["ctrl"] = "stopped" => ep_ring["ctrl"] = << >>
  BY <1>3 DEF SubmissionInv, RecoverInv, Quiet
<1>5. ~failed => epstate["ctrl"] # "halted"
  BY <1>2, <1>3 DEF SubmissionInv, HaltInv
<1>6. ASSUME NEW op \in {"cmd", "add_ep"}, SubmitCommand(op) PROVE SubmissionInv'
  BY <1>1, <1>2, <1>4, <1>5, <1>6, SubmitCommandSubmission
<1>7. CASE k # "command" /\ SubmitTransfer(k)
  BY <1>1, <1>2, <1>4, <1>5, <1>7, SubmitTransferSubmission
<1> QED BY <1>6, <1>7 DEF ShellCommand


\* A command is executed: its event is now on its way.
LEMMA CommandSubmission ==
  ASSUME EventRingInv, SubmissionInv, NEW code \in Code, ExecuteCommand(code)
  PROVE  SubmissionInv'
<1> DEFINE t == Head(cmd_ring)
<1>1. ThreadType
  BY TypeParts DEF EventRingInv
<1>2. /\ cmd_ring # << >> /\ cmd_ring' = Tail(cmd_ring)
      /\ Post("completion", t.sub, code)
      /\ UNCHANGED <<pc, kind, stage, sub, event_wait, event_sync, evt_trb, failed, handled>>
  BY DEF ExecuteCommand, thread, sync, reader
<1>3. /\ cmd_ring' = << >> /\ t.sub = sub /\ t.op = stage /\ sub \in Nat
      /\ Pending = {} /\ \A ep \in Ep : ~Working(ep)
  <2>1. cmd_ring \in Seq(Trb) /\ Len(cmd_ring) = 1 /\ t = cmd_ring[1]
    BY <1>1, <1>2 DEF SubmissionInv, CommandInv, ThreadType
  <2>2. cmd_ring' = << >>
    BY <1>2, <2>1, HeadTailProperties, EmptySeq
  <2> QED BY <1>1, <1>2, <2>1, <2>2 DEF SubmissionInv, CommandInv, ThreadType
<1>4. ~event_sync /\ pc # "idle" /\ pc # "read"
  BY <1>2 DEF SubmissionInv, WaitInv, Told, Quiet
<1>5. ~Told'
  BY <1>2, <1>4 DEF Told
<1>6. \A i \in Pending' : i = hw_index /\ event_trb'[i].event.sub = sub
  BY <1>2, <1>3, PendingPosted
<1>7. /\ Ep = {"ctrl", "bulk"} /\ DOMAIN epstate = Ep /\ DOMAIN ep_ring = Ep
      /\ \A ep \in Ep : ep_ring[ep] \in Seq(Trb)
  BY <1>1 DEF Ep, ThreadType
<1>8. ASSUME NEW n \in 0 .. Len(ep_ring["ctrl"]), SetDequeue(n, t.sub)
      PROVE  ep_ring' = [ep_ring EXCEPT !["ctrl"] = << >>]
  <2>1. \A i \in 1 .. Len(ep_ring["ctrl"]) : i <= n
    BY <1>3, <1>7, <1>8 DEF SetDequeue, SubmissionInv, RoomInv
  <2>2. Len(ep_ring["ctrl"]) \in Nat
    BY <1>7, TrbRing
  <2>3. n = Len(ep_ring["ctrl"])
    BY <2>1, <2>2
  <2>4. SubSeq(ep_ring["ctrl"], n + 1, Len(ep_ring["ctrl"])) = << >>
    BY <2>2, <2>3, SubSeqEmpty
  <2> QED BY <1>8, <2>4 DEF SetDequeue
<1>9. /\ RecoverInv' /\ HaltInv' /\ stage # "xfer"
      /\ \A ep \in Ep : epstate'[ep] # "running" \/ ep_ring'[ep] = << >>
      /\ \A ep \in Ep : ep_ring'[ep] = ep_ring[ep] \/ ep_ring'[ep] = << >>
  <2>1. CASE t.op \in {"cmd", "add_ep"}
    <3>1. /\ ep_ring' = ep_ring /\ epstate'["ctrl"] = epstate["ctrl"]
          /\ \/ epstate'["bulk"] = epstate["bulk"]
             \/ stage = "add_ep" /\ epstate'["bulk"] = "running"
      BY <1>3, <1>7, <2>1 DEF ExecuteCommand
    <3>2. RecoverInv' /\ HaltInv'
      BY <1>2, <1>3, <2>1, <3>1 DEF SubmissionInv, RecoverInv, HaltInv
    <3>3. \A ep \in Ep : epstate'[ep] # "running" \/ ep_ring'[ep] = << >>
      BY <1>3, <1>7, <3>1 DEF Working, SubmissionInv, RecoverInv
    <3> QED BY <1>3, <2>1, <3>1, <3>2, <3>3
  <2>2. CASE t.op = "reset_ep"
    <3>1. /\ ep_ring' = ep_ring /\ epstate'["ctrl"] = "stopped"
          /\ epstate'["bulk"] = epstate["bulk"]
      BY <1>2, <1>3, <1>7, <2>2 DEF ExecuteCommand, SubmissionInv, RecoverInv
    <3>2. RecoverInv' /\ HaltInv'
      BY <1>2, <1>3, <2>2, <3>1 DEF SubmissionInv, RecoverInv, HaltInv
    <3>3. \A ep \in Ep : epstate'[ep] # "running" \/ ep_ring'[ep] = << >>
      BY <1>3, <1>7, <3>1 DEF Working
    <3> QED BY <1>3, <2>2, <3>1, <3>2, <3>3
  <2>3. CASE t.op = "set_deq"
    <3>1. ep_ring' = [ep_ring EXCEPT !["ctrl"] = << >>] /\ epstate' = epstate
      BY <1>3, <1>8, <2>3 DEF ExecuteCommand, SubmissionInv, RecoverInv
    <3>2. ep_ring'["ctrl"] = << >> /\ ep_ring'["bulk"] = ep_ring["bulk"]
      BY <1>7, <3>1
    <3>3. RecoverInv' /\ HaltInv'
      BY <1>2, <1>3, <2>3, <3>1, <3>2 DEF SubmissionInv, RecoverInv, HaltInv
    <3>4. \A ep \in Ep : epstate'[ep] # "running" \/ ep_ring'[ep] = << >>
      BY <1>3, <1>7, <3>1, <3>2 DEF Working
    <3> QED BY <1>3, <1>7, <2>3, <3>2, <3>3, <3>4
  <2> QED BY <2>1, <2>2, <2>3 DEF ExecuteCommand
<1>10. \A ep \in Ep : ~Working(ep)'
  BY <1>9 DEF Working
<1>11. WaitInv'
  BY <1>2, <1>4, <1>5 DEF SubmissionInv, WaitInv
<1>12. CommandInv' /\ TransferInv' /\ PendingInv' /\ StallInv'
  BY <1>2, <1>3, <1>6, <1>9, <1>10 DEF CommandInv, TransferInv, PendingInv, StallInv
<1>13. RoomInv'
  <2> SUFFICES ASSUME NEW ep \in Ep
               PROVE  /\ \A i \in 1 .. Len(ep_ring'[ep]) : ep_ring'[ep][i].sub <= sub
                      /\ Len(ep_ring'[ep]) <= 6 /\ ~(Len(ep_ring'[ep]) > 3)
    BY <1>2 DEF RoomInv
  <2>1. CASE ep_ring'[ep] = ep_ring[ep]
    BY <1>2, <2>1 DEF SubmissionInv, RoomInv, Quiet
  <2>2. CASE ep_ring'[ep] = << >>
    BY <2>2
  <2> QED BY <1>9, <2>1, <2>2
<1> QED BY <1>9, <1>11, <1>12, <1>13 DEF SubmissionInv

\* The controller works on a transfer.
LEMMA TransferStep ==
  ASSUME ThreadType, SubmissionInv, NEW ep \in Ep, Working(ep)
  PROVE  /\ cmd_ring = << >> /\ Pending = {} /\ ~event_sync /\ pc # "idle" /\ pc # "read"
         /\ \A f \in Ep : Working(f) => f = ep
         /\ \A f \in Ep : ~(Len(ep_ring[f]) > 3)
         /\ stage = "xfer" /\ ep = Endpoint(kind)
         /\ ep_ring[ep] \in Seq(Trb) /\ Len(ep_ring[ep]) \in Nat \ {0}
         /\ Head(ep_ring[ep]) = ep_ring[ep][1] /\ Head(ep_ring[ep]).sub = sub
         /\ Head(ep_ring[ep]).op \in Final => Tail(ep_ring[ep]) = << >>
         /\ Tail(ep_ring[ep]) \in Seq(Trb) /\ Len(Tail(ep_ring[ep])) = Len(ep_ring[ep]) - 1
         /\ \A i \in 1 .. Len(Tail(ep_ring[ep])) :
              /\ i + 1 \in 1 .. Len(ep_ring[ep])
              /\ Tail(ep_ring[ep])[i] = ep_ring[ep][i + 1]
<1>1. /\ cmd_ring = << >> /\ Pending = {} /\ ~event_sync /\ pc # "idle" /\ pc # "read"
      /\ \A f \in Ep : Working(f) => f = ep
      /\ \A f \in Ep : ~(Len(ep_ring[f]) > 3)
      /\ stage = "xfer" /\ ep = Endpoint(kind)
  BY DEF SubmissionInv, WaitInv, CommandInv, TransferInv, RoomInv, Quiet, Told
<1>2. ep_ring[ep] \in Seq(Trb) /\ ep_ring[ep] # << >>
  BY DEF ThreadType, Working
<1>3. /\ Len(ep_ring[ep]) \in Nat \ {0} /\ Head(ep_ring[ep]) = ep_ring[ep][1]
      /\ Tail(ep_ring[ep]) \in Seq(Trb) /\ Len(Tail(ep_ring[ep])) = Len(ep_ring[ep]) - 1
      /\ \A i \in 1 .. Len(Tail(ep_ring[ep])) : Tail(ep_ring[ep])[i] = ep_ring[ep][i + 1]
  BY <1>2, EmptySeq, HeadTailProperties
<1>4. /\ 1 \in 1 .. Len(ep_ring[ep])
      /\ \A i \in 1 .. Len(Tail(ep_ring[ep])) : i + 1 \in 1 .. Len(ep_ring[ep])
  <2>1. \A m \in Nat \ {0} : 1 \in 1 .. m /\ \A i \in 1 .. m - 1 : i + 1 \in 1 .. m
    OBVIOUS
  <2> QED BY <1>3, <2>1, Zenon
<1>5. /\ ep_ring[ep][1].sub = sub
      /\ ep_ring[ep][1].op \in Final => 1 = Len(ep_ring[ep])
  BY <1>4 DEF SubmissionInv, TransferInv
<1>6. Head(ep_ring[ep]).op \in Final => Tail(ep_ring[ep]) = << >>
  <2>1. Tail(ep_ring[ep]) # << >> => Len(Tail(ep_ring[ep])) \in Nat \ {0}
    BY <1>3, EmptySeq
  <2>2. 1 = Len(ep_ring[ep]) => Len(Tail(ep_ring[ep])) = 0
    BY <1>3
  <2> QED BY <1>3, <1>5, <2>1, <2>2
<1> QED BY <1>1, <1>2, <1>3, <1>4, <1>5, <1>6


\* A setup or data stage is done: the rest of the transfer is on its way.
LEMMA SilentSubmission ==
  ASSUME EventRingInv, SubmissionInv, NEW ep \in Ep, ExecuteSilently(ep)
  PROVE  SubmissionInv'
<1> DEFINE r == ep_ring[ep]
<1>1. ThreadType /\ Ep = {"ctrl", "bulk"}
  BY TypeParts DEF EventRingInv, Ep
<1>2. /\ Working(ep)
      /\ UNCHANGED <<pc, kind, stage, sub, cmd_ring, epstate, failed>>
      /\ UNCHANGED <<event_wait, event_sync, evt_trb, event_trb, handled>>
      /\ \A f \in Ep : ep_ring'[f] = IF f = ep THEN Tail(r) ELSE ep_ring[f]
  BY <1>1 DEF ExecuteSilently, Working, thread, sync, reader, writer, ThreadType
<1>3. /\ cmd_ring = << >> /\ Pending = {} /\ ~event_sync /\ pc # "idle" /\ pc # "read"
      /\ \A f \in Ep : Working(f) => f = ep
      /\ stage = "xfer" /\ ep = Endpoint(kind)
  BY <1>1, <1>2, TransferStep
<1>4. /\ r \in Seq(Trb) /\ Len(r) \in Nat \ {0} /\ \A f \in Ep : ~(Len(ep_ring[f]) > 3)
      /\ Len(Tail(r)) = Len(r) - 1
      /\ \A i \in 1 .. Len(Tail(r)) : i + 1 \in 1 .. Len(r) /\ Tail(r)[i] = r[i + 1]
  BY <1>1, <1>2, TransferStep
<1>5. Pending' = {} /\ ~Told'
  BY <1>2, <1>3 DEF Pending, Told
<1>6. \A f \in Ep : Working(f)' => f = ep
  BY <1>2, <1>3 DEF Working
<1>7. WaitInv' /\ CommandInv' /\ PendingInv' /\ StallInv'
  BY <1>2, <1>3, <1>5
  DEF SubmissionInv, WaitInv, CommandInv, PendingInv, StallInv
<1>8. TransferInv'
  <2> SUFFICES ASSUME Working(ep)'
               PROVE  /\ ep = Endpoint(kind') /\ stage' = "xfer" /\ Pending' = {}
                      /\ \A i \in 1 .. Len(ep_ring'[ep]) :
                           /\ ep_ring'[ep][i].sub = sub'
                           /\ ep_ring'[ep][i].op \in Final => i = Len(ep_ring'[ep])
    BY <1>6 DEF TransferInv, Endpoint
  <2>1. ep_ring'[ep] = Tail(r)
    BY <1>2
  <2>2. ASSUME NEW i \in 1 .. Len(Tail(r))
        PROVE  Tail(r)[i].sub = sub /\ (Tail(r)[i].op \in Final => i = Len(Tail(r)))
    <3>1. i + 1 \in 1 .. Len(r) /\ Tail(r)[i] = r[i + 1]
      BY <1>4
    <3>2. r[i + 1].sub = sub /\ (r[i + 1].op \in Final => i + 1 = Len(r))
      BY <1>2, <3>1 DEF SubmissionInv, TransferInv
    <3> QED BY <1>4, <3>1, <3>2
  <2> QED BY <1>2, <1>3, <1>5, <2>1, <2>2
<1>9. RecoverInv'
  BY <1>1, <1>2, <1>3 DEF SubmissionInv, RecoverInv, Working
<1>10. HaltInv'
  BY <1>2, <1>3, <1>5 DEF SubmissionInv, HaltInv
<1>11. RoomInv'
  <2> SUFFICES ASSUME NEW f \in Ep
               PROVE  /\ \A i \in 1 .. Len(ep_ring'[f]) : ep_ring'[f][i].sub <= sub
                      /\ Len(ep_ring'[f]) <= 6 /\ ~(Len(ep_ring'[f]) > 3)
    BY <1>2 DEF RoomInv
  <2>1. /\ \A i \in 1 .. Len(ep_ring[f]) : ep_ring[f][i].sub <= sub
        /\ Len(ep_ring[f]) <= 6 /\ ~(Len(ep_ring[f]) > 3)
    BY <1>4 DEF SubmissionInv, RoomInv
  <2>2. CASE f # ep
    BY <1>2, <2>1, <2>2
  <2>3. CASE f = ep
    <3>1. ep_ring'[f] = Tail(r) /\ r = ep_ring[f]
      BY <1>2, <2>3
    <3>2. \A i \in 1 .. Len(Tail(r)) : Tail(r)[i].sub <= sub
      BY <1>4, <2>1, <3>1, Zenon
    <3>3. Len(Tail(r)) <= 6 /\ ~(Len(Tail(r)) > 3)
      BY <1>4, <2>1, <3>1
    <3> QED BY <3>1, <3>2, <3>3
  <2> QED BY <2>2, <2>3
<1> QED BY <1>7, <1>8, <1>9, <1>10, <1>11 DEF SubmissionInv

\* A transfer ends with its event: with its last TRB, or at the TRB where it fails
\* and the endpoint halts.
LEMMA EventSubmission ==
  ASSUME EventRingInv, SubmissionInv, NEW ep \in Ep, NEW code \in Code,
         ExecuteWithEvent(ep, code), ~short'
  PROVE  SubmissionInv'
<1> DEFINE r == ep_ring[ep]
           t == Head(r)
<1>1. ThreadType /\ Ep = {"ctrl", "bulk"}
  BY TypeParts DEF EventRingInv, Ep
<1>2. /\ Working(ep)
      /\ UNCHANGED <<pc, kind, stage, sub, cmd_ring>>
      /\ UNCHANGED <<event_wait, event_sync, evt_trb, handled>>
      /\ Post("completion", t.sub, code)
      /\ failed' = (failed \/ code = "error")
  BY DEF ExecuteWithEvent, Working, thread, sync, reader
<1>3. /\ cmd_ring = << >> /\ Pending = {} /\ ~event_sync /\ pc # "idle" /\ pc # "read"
      /\ \A f \in Ep : Working(f) => f = ep
      /\ stage = "xfer" /\ ep = Endpoint(kind)
      /\ t.sub = sub /\ (t.op \in Final => Tail(r) = << >>)
      /\ \A f \in Ep : ~(Len(ep_ring[f]) > 3)
  BY <1>1, <1>2, TransferStep
<1>4. \A i \in Pending' : /\ i = hw_index /\ event_trb'[i].event.sub = sub
                          /\ event_trb'[i].event.code = code
  <2>1. sub \in Nat
    BY <1>1 DEF ThreadType
  <2> QED BY <1>2, <1>3, <2>1, PendingPosted
<1>5. \/ /\ code \in {"success", "short"} /\ epstate' = epstate
         /\ \A f \in Ep : ep_ring'[f] = IF f = ep THEN << >> ELSE ep_ring[f]
      \/ /\ code \in {"stall", "error"} /\ ep_ring' = ep_ring
         /\ \A f \in Ep : epstate'[f] = IF f = ep THEN "halted" ELSE epstate[f]
  <2>1. CASE code \in {"success", "short"}
    <3>1. t.op \in Final
      <4>1. CASE code = "success"
        BY <4>1 DEF ExecuteWithEvent, Final
      <4>2. CASE code = "short"
        BY <4>2 DEF ExecuteWithEvent, Final
      <4> QED BY <2>1, <4>1, <4>2
    <3>2. ep_ring' = [ep_ring EXCEPT ![ep] = Tail(r)] /\ epstate' = epstate
      BY <2>1 DEF ExecuteWithEvent
    <3> QED BY <1>1, <1>3, <2>1, <3>1, <3>2 DEF ThreadType
  <2>2. CASE code \in {"stall", "error"}
    <3>1. epstate' = [epstate EXCEPT ![ep] = "halted"] /\ ep_ring' = ep_ring
      BY <2>2 DEF ExecuteWithEvent
    <3> QED BY <1>1, <2>2, <3>1 DEF ThreadType
  <2> QED BY <2>1, <2>2 DEF Code
<1>6. \A f \in Ep : ~Working(f)'
  BY <1>3, <1>5 DEF Working
<1>7. ~Told'
  BY <1>2, <1>3 DEF Told
<1>8. WaitInv' /\ CommandInv' /\ TransferInv' /\ PendingInv'
  BY <1>2, <1>3, <1>4, <1>6, <1>7
  DEF SubmissionInv, WaitInv, CommandInv, TransferInv, PendingInv
<1>9. RecoverInv'
  BY <1>1, <1>2, <1>3, <1>5 DEF SubmissionInv, RecoverInv, Working
<1>10. StallInv'
  <2>1. code = "stall" => epstate'[ep] = "halted"
    BY <1>5
  <2>2. Endpoint(kind') = ep
    BY <1>2, <1>3
  <2> QED BY <1>4, <1>7, <2>1, <2>2 DEF StallInv, Endpoint
<1>11. HaltInv'
  <2> SUFFICES ASSUME ~failed', epstate'["ctrl"] = "halted"
               PROVE  ep = "ctrl" /\ code = "stall"
    BY <1>2, <1>3, <1>4, <1>7 DEF HaltInv, Endpoint
  <2>1. ~failed /\ code # "error"
    BY <1>2
  <2>2. CASE epstate["ctrl"] = "halted"
    <3>1. ep = "ctrl"
      BY <1>3, <2>1, <2>2 DEF SubmissionInv, HaltInv
    <3> QED BY <1>2, <2>2, <3>1 DEF Working
  <2>3. CASE epstate["ctrl"] # "halted"
    BY <1>1, <1>5, <2>1, <2>3
  <2> QED BY <2>2, <2>3
<1>12. RoomInv'
  <2> SUFFICES ASSUME NEW f \in Ep
               PROVE  /\ \A i \in 1 .. Len(ep_ring'[f]) : ep_ring'[f][i].sub <= sub
                      /\ Len(ep_ring'[f]) <= 6 /\ ~(Len(ep_ring'[f]) > 3)
    BY <1>2 DEF RoomInv
  <2>1. CASE ep_ring'[f] = ep_ring[f]
    BY <1>3, <2>1 DEF SubmissionInv, RoomInv
  <2>2. CASE ep_ring'[f] = << >>
    BY <2>2
  <2> QED BY <1>5, <2>1, <2>2
<1> QED BY <1>8, <1>9, <1>10, <1>11, <1>12 DEF SubmissionInv

LEMMA SubmissionInit == Init => SubmissionInv
<1> SUFFICES ASSUME Init PROVE SubmissionInv
  OBVIOUS
<1>1. /\ pc = "idle" /\ stage = "cmd" /\ ~event_wait /\ ~event_sync /\ cmd_ring = << >>
      /\ epstate["ctrl"] = "running" /\ epstate["bulk"] = "disabled"
      /\ \A ep \in Ep : ep_ring[ep] = << >>
      /\ Ep = {"ctrl", "bulk"}
  BY DEF Init, Ep
<1>2. Pending = {}
  BY DEF Init, Pending, NoEvent
<1>3. Quiet /\ ~Told
  BY <1>1, <1>2 DEF Quiet, Working, Told
<1>4. WaitInv /\ CommandInv /\ TransferInv /\ PendingInv
  BY <1>1, <1>2, <1>3 DEF WaitInv, CommandInv, TransferInv, PendingInv, Working
<1>5. RecoverInv /\ StallInv /\ HaltInv
  BY <1>1 DEF RecoverInv, StallInv, HaltInv
<1>6. RoomInv
  BY <1>1 DEF RoomInv
<1> QED BY <1>4, <1>5, <1>6 DEF SubmissionInv

\* A short packet is not forgotten, so that up to one at most one submission is on
\* its way.
LEMMA SubmissionInductive ==
  EventRingInv /\ (~short => SubmissionInv) /\ [Next]_vars => (~short => SubmissionInv)'
<1> SUFFICES ASSUME EventRingInv, ~short => SubmissionInv, [Next]_vars, ~short'
             PROVE  SubmissionInv'
  OBVIOUS
<1>1. SubmissionInv
  <2>1. short => short'
    BY DEF Next, ShellCommand, Thread, WaitStart, WaitDone, ReadCommand, ReadTransfer,
           Recover, Controller, ExecuteCommand, ExecuteSilently, ExecuteWithEvent,
           PortChange, Isr, IsrEnter, IsrEvent, IsrExit, vars, rings
  <2> QED BY <2>1
<1>2. CASE UNCHANGED vars
  <2>1. /\ thread' = thread /\ rings' = rings /\ sync' = sync
        /\ event_trb' = event_trb /\ handled' = handled
    BY <1>2 DEF vars, reader, writer
  <2> QED BY <1>1, <2>1, SubmissionUntouched DEF Pending
<1>3. CASE Controller
  BY <1>1, <1>3, CommandSubmission, SilentSubmission, EventSubmission DEF Controller
<1> QED BY <1>1, <1>2, <1>3, ShellSubmission, ThreadSubmission, IsrSubmission DEF Next

LEMMA SubmissionInvariant == Spec => [](~short => SubmissionInv)
BY RingInvariant, SubmissionInit, SubmissionInductive, PTL DEF Spec


\* xhci_event_wait and xhci_event_complete: one evt_trb is enough for all commands,
\* endpoints and calls, for what a call reads there is the event of its own
\* submission, as long as no control transfer had a short packet.
THEOREM CallReadsOwnEvent == Spec => []OwnEvent
<1>1. (~short => SubmissionInv) => OwnEvent
  BY DEF SubmissionInv, WaitInv, Told, OwnEvent
<1> QED BY <1>1, SubmissionInvariant, PTL

\* xhci_enqueue_trb does not look whether the ring has room: it always has, for the
\* rings hold at most one command and two transfers.
THEOREM RingsHaveRoom == Spec => []RoomInRings
<1>1. (~short => SubmissionInv) => RoomInRings
  <2> SUFFICES ASSUME SubmissionInv
               PROVE  Len(cmd_ring) <= 1 /\ \A ep \in Ep : Len(ep_ring[ep]) <= 6
    BY DEF RoomInRings
  <2>1. Len(cmd_ring) <= 1
    <3>1. CASE cmd_ring = << >>
      BY <3>1
    <3>2. CASE cmd_ring # << >>
      <4>1. Len(cmd_ring) = 1
        BY <3>2 DEF SubmissionInv, CommandInv
      <4> QED BY <4>1
    <3> QED BY <3>1, <3>2
  <2> QED BY <2>1 DEF SubmissionInv, RoomInv
<1> QED BY <1>1, SubmissionInvariant, PTL

\* xhci_xfer_control: after a stall it resets the endpoint and sets its dequeue
\* pointer, so that the control endpoint is not halted and its ring is empty when
\* the call has returned.
THEOREM ControlEndpointRecovers == Spec => []ControlRecovered
<1>1. (~short => SubmissionInv) /\ EventRingInv => ControlRecovered
  <2> SUFFICES ASSUME SubmissionInv, EventRingInv, ~failed, pc = "idle"
               PROVE  epstate["ctrl"] # "halted" /\ ep_ring["ctrl"] = << >>
    BY DEF ControlRecovered
  <2>1. Quiet /\ stage # "reset_ep"
    BY DEF SubmissionInv, WaitInv
  <2>2. epstate["ctrl"] # "halted"
    BY <2>1 DEF SubmissionInv, HaltInv
  <2>3. epstate["ctrl"] \in {"running", "stopped"}
    BY <2>2 DEF EventRingInv, TypeOK, Ep, SubmissionInv, RecoverInv
  <2>4. CASE epstate["ctrl"] = "running"
    BY <2>1, <2>2, <2>4 DEF Quiet, Working, Ep
  <2>5. CASE epstate["ctrl"] = "stopped"
    BY <2>1, <2>2, <2>5 DEF SubmissionInv, RecoverInv, Quiet
  <2> QED BY <2>3, <2>4, <2>5
<1> QED BY <1>1, RingInvariant, SubmissionInvariant, PTL
=============================================================================
