-------------------------------- MODULE Xhci --------------------------------
(***************************************************************************)
(* The xHCI host driver of samples/dwc3_host/src (xhci.c, xhci_port.c) and *)
(* the shell commands of main.c that use it.  The shell thread submits     *)
(* TRBs, rings a doorbell and spins until the interrupt handler has set    *)
(* event_sync; it then reads the event from evt_trb, one variable for all  *)
(* commands, endpoints and calls.                                          *)
(*                                                                         *)
(* Command and transfer rings are queues here; XhciRing shows that a ring  *)
(* is one as long as its callers leave room in it, which RoomInRings is    *)
(* about.  The event ring is modelled with its cycle bits.  The controller *)
(* is external: it works on the rings at any time, and posts events, also  *)
(* while the handler runs.  The thread does not run while the handler does.*)
(*                                                                         *)
(* A submission is what one xhci_event_wait waits for; TRBs and events     *)
(* bear its number.                                                        *)
(***************************************************************************)
EXTENDS Naturals, Sequences

CONSTANTS num_event,        \* size of the event ring
          MaxCalls,         \* bound: shell commands in a run
          MaxPortEvents     \* bound: port status changes in a run

ASSUME XhciAssumption ==
  num_event \in Nat /\ num_event >= 3 /\ MaxCalls \in Nat /\ MaxPortEvents \in Nat

Ep == {"ctrl", "bulk"}

\* The shell commands: those that submit one command, control transfers with and
\* without an IN data stage, bulk and interrupt transfers.
Shell == {"command", "control_in", "control", "bulk_in", "bulk_out"}

VARIABLES pc, kind, stage,       \* the shell thread: where it is, in which shell
                                 \* command and at which submission of it
          sub, calls,            \* submissions and shell commands so far
          ep_running,            \* device[slot].ep[bulk].state == RUNING_STATE
          cmd_ring, ep_ring,     \* TRBs the controller has not executed
          epstate,               \* the controller's endpoint states
          event_wait, event_sync, evt_trb,
          isr, seen,             \* the handler runs; events when it invalidated
          event_trb, read_index, cycle_bit,     \* the event ring, driver's side
          hw_index, hw_cycle, erdp,             \* controller's side
          posted, handled, ports,               \* events posted and handled
          short, failed                         \* a short packet, a transaction
                                                \* error has occurred

thread == <<pc, kind, stage, sub, calls, ep_running>>
rings  == <<cmd_ring, ep_ring, epstate, short, failed>>
sync   == <<event_wait, event_sync, evt_trb>>
reader == <<isr, seen, read_index, cycle_bit, erdp, handled>>
writer == <<event_trb, hw_index, hw_cycle, posted, ports>>
vars == <<thread, rings, sync, reader, writer>>

Code == {"success", "short", "stall", "error"}
Event == [no : Nat, type : {"none", "port", "completion"}, sub : Nat, code : Code]
NoEvent == [no |-> 0, type |-> "none", sub |-> 0, code |-> "success"]
EventCell == 0 .. num_event - 1

Trb == [sub : Nat, op : {"cmd", "add_ep", "reset_ep", "set_deq",
                         "setup", "data", "status", "normal_in", "normal_out"}]

TypeOK ==
  /\ pc \in {"idle", "armed", "spin", "read"}
  /\ kind \in Shell
  /\ stage \in {"cmd", "add_ep", "xfer", "reset_ep", "set_deq"}
  /\ sub \in Nat /\ calls \in 0 .. MaxCalls /\ ep_running \in BOOLEAN
  /\ cmd_ring \in Seq(Trb) /\ ep_ring \in [Ep -> Seq(Trb)]
  /\ epstate \in [Ep -> {"disabled", "running", "stopped", "halted"}]
  /\ event_wait \in BOOLEAN /\ event_sync \in BOOLEAN /\ evt_trb \in Event
  /\ isr \in BOOLEAN /\ seen \in 0 .. posted
  /\ event_trb \in [EventCell -> [event : Event, cycle : 0 .. 1]]
  /\ {read_index, hw_index, erdp} \subseteq EventCell
  /\ {cycle_bit, hw_cycle} \subseteq 0 .. 1
  /\ posted \in Nat /\ handled \in 0 .. posted /\ ports \in 0 .. MaxPortEvents
  /\ short \in BOOLEAN /\ failed \in BOOLEAN

\* xhci_init, and a device in slot 1 that has its control endpoint.
Init ==
  /\ pc = "idle" /\ kind = "command" /\ stage = "cmd"
  /\ sub = 0 /\ calls = 0 /\ ep_running = FALSE
  /\ cmd_ring = << >> /\ ep_ring = [e \in Ep |-> << >>]
  /\ epstate = [e \in Ep |-> IF e = "ctrl" THEN "running" ELSE "disabled"]
  /\ event_wait = FALSE /\ event_sync = FALSE /\ evt_trb = NoEvent
  /\ isr = FALSE /\ seen = 0
  /\ event_trb = [i \in EventCell |-> [event |-> NoEvent, cycle |-> 0]]
  /\ read_index = 0 /\ cycle_bit = 1
  /\ hw_index = 0 /\ hw_cycle = 1 /\ erdp = 0
  /\ posted = 0 /\ handled = 0 /\ ports = 0
  /\ short = FALSE /\ failed = FALSE

----------------------------------------------------------------------------
(***************************************************************************)
(* The shell thread.                                                       *)
(***************************************************************************)
Endpoint(k) == IF k \in {"control_in", "control"} THEN "ctrl" ELSE "bulk"

\* The TRBs of a transfer: xhci_xfer_control, xhci_xfer_bulk.
Stages(k) == CASE k = "control_in" -> <<"setup", "data", "status">>
               [] k = "control"    -> <<"setup", "status">>
               [] k = "bulk_in"    -> <<"normal_in">>
               [] k = "bulk_out"   -> <<"normal_out">>

Trbs(ops) == [i \in 1 .. Len(ops) |-> [sub |-> sub + 1, op |-> ops[i]]]

\* xhci_command_submit up to the doorbell; xhci_cmd_add_endpoint makes a new ring.
SubmitCommand(op) ==
  /\ cmd_ring' = cmd_ring \o Trbs(<<op>>)
  /\ ep_ring' = IF op = "add_ep" THEN [ep_ring EXCEPT !["bulk"] = << >>] ELSE ep_ring
  /\ stage' = op
  /\ sub' = sub + 1
  /\ pc' = "armed"
  /\ UNCHANGED epstate

\* A transfer up to the doorbell, which makes a stopped endpoint run again.
SubmitTransfer(k) ==
  LET ep == Endpoint(k) IN
    /\ ep_ring' = [ep_ring EXCEPT ![ep] = @ \o Trbs(Stages(k))]
    /\ epstate' = [epstate EXCEPT ![ep] = IF @ = "stopped" THEN "running" ELSE @]
    /\ stage' = "xfer"
    /\ sub' = sub + 1
    /\ pc' = "armed"
    /\ UNCHANGED cmd_ring

\* A shell command.  bulk_in, bulk_out and int_in add the endpoint first, unless
\* it is running.
ShellCommand(k) ==
  /\ pc = "idle" /\ ~isr
  /\ calls < MaxCalls
  /\ calls' = calls + 1
  /\ kind' = k
  /\ IF k = "command" THEN SubmitCommand("cmd")
     ELSE IF Endpoint(k) = "bulk" /\ ~ep_running THEN SubmitCommand("add_ep")
     ELSE SubmitTransfer(k)
  /\ UNCHANGED <<ep_running, short, failed, sync, reader, writer>>

\* xhci_event_wait: event_wait = 1 ...
WaitStart ==
  /\ pc = "armed" /\ ~isr
  /\ event_wait' = TRUE
  /\ pc' = "spin"
  /\ UNCHANGED <<kind, stage, sub, calls, ep_running, event_sync, evt_trb, rings,
                 reader, writer>>

\* Faulty variants: event_sync is not cleared; the thread does not spin.
WaitDoneKeepsSync ==
  /\ pc = "spin" /\ ~isr
  /\ event_sync
  /\ event_wait' = FALSE
  /\ pc' = "read"
  /\ UNCHANGED <<kind, stage, sub, calls, ep_running, event_sync, evt_trb, rings,
                 reader, writer>>

WaitDoneAtOnce ==
  /\ pc = "spin" /\ ~isr
  /\ event_wait' = FALSE /\ event_sync' = FALSE
  /\ pc' = "read"
  /\ UNCHANGED <<kind, stage, sub, calls, ep_running, evt_trb, rings, reader, writer>>

\* ... while (!event_sync); event_wait = 0; event_sync = 0.
WaitDone ==
  /\ pc = "spin" /\ ~isr
  /\ event_sync
  /\ event_wait' = FALSE /\ event_sync' = FALSE
  /\ pc' = "read"
  /\ UNCHANGED <<kind, stage, sub, calls, ep_running, evt_trb, rings, reader, writer>>

Return == pc' = "idle" /\ UNCHANGED <<stage, sub, cmd_ring, ep_ring, epstate>>

\* xhci_cmd_*: the result is the completion code.  After a successful
\* TRB_CONFIG_EP the endpoint counts as running; the transfer follows anyway.
ReadCommand ==
  /\ pc = "read" /\ ~isr
  /\ stage \in {"cmd", "add_ep"}
  /\ IF stage = "cmd"
       THEN Return /\ UNCHANGED ep_running
       ELSE SubmitTransfer(kind) /\ ep_running' = (evt_trb.code = "success")
  /\ UNCHANGED <<kind, calls, short, failed, sync, reader, writer>>

\* The end of a transfer: a control endpoint that stalled is reset.
ReadTransfer ==
  /\ pc = "read" /\ ~isr
  /\ stage = "xfer"
  /\ IF Endpoint(kind) = "ctrl" /\ evt_trb.code = "stall"
       THEN SubmitCommand("reset_ep")
       ELSE Return
  /\ UNCHANGED <<kind, calls, ep_running, short, failed, sync, reader, writer>>

\* Faulty variant: the dequeue pointer is not set after the reset.
RecoverHalf ==
  /\ pc = "read" /\ ~isr
  /\ stage \in {"reset_ep", "set_deq"}
  /\ Return
  /\ UNCHANGED <<kind, calls, ep_running, short, failed, sync, reader, writer>>

\* xhci_reset_stall_endpoint and xhci_set_deq_endpoint, whatever they return.
Recover ==
  /\ pc = "read" /\ ~isr
  /\ stage \in {"reset_ep", "set_deq"}
  /\ IF stage = "reset_ep" THEN SubmitCommand("set_deq") ELSE Return
  /\ UNCHANGED <<kind, calls, ep_running, short, failed, sync, reader, writer>>

Thread == \/ WaitStart \/ WaitDone \/ ReadCommand \/ ReadTransfer \/ Recover

----------------------------------------------------------------------------
(***************************************************************************)
(* The controller: it posts an event if the event ring has room for it.    *)
(***************************************************************************)
Advance(i) == (i + 1) % num_event

Post(type, s, code) ==
  /\ Advance(hw_index) # erdp
  /\ posted' = posted + 1
  /\ event_trb' = [event_trb EXCEPT ![hw_index] =
       [event |-> [no |-> posted + 1, type |-> type, sub |-> s, code |-> code],
        cycle |-> hw_cycle]]
  /\ hw_index' = Advance(hw_index)
  /\ hw_cycle' = IF Advance(hw_index) = 0 THEN 1 - hw_cycle ELSE hw_cycle

\* The dequeue pointer of command s: the first n TRBs, those that were in the ring
\* when the command was built, are dropped.
SetDequeue(n, s) ==
  LET ring == ep_ring["ctrl"] IN
    /\ \A i \in 1 .. Len(ring) : i <= n <=> ring[i].sub <= s
    /\ ep_ring' = [ep_ring EXCEPT !["ctrl"] = SubSeq(ring, n + 1, Len(ring))]

\* A command is executed.  A reset takes a halted endpoint to stopped, and a new
\* dequeue pointer is taken by a stopped one.
ExecuteCommand(code) ==
  /\ cmd_ring # << >>
  /\ cmd_ring' = Tail(cmd_ring)
  /\ LET t == Head(cmd_ring) IN
       /\ Post("completion", t.sub, code)
       /\ \/ /\ t.op \in {"cmd", "add_ep"} /\ code \in {"success", "error"}
             /\ epstate' = IF t.op = "add_ep" /\ code = "success"
                             THEN [epstate EXCEPT !["bulk"] = "running"] ELSE epstate
             /\ UNCHANGED ep_ring
          \/ /\ t.op = "reset_ep"
             /\ code = (IF epstate["ctrl"] = "halted" THEN "success" ELSE "error")
             /\ epstate' = IF code = "success"
                             THEN [epstate EXCEPT !["ctrl"] = "stopped"] ELSE epstate
             /\ UNCHANGED ep_ring
          \/ /\ t.op = "set_deq"
             /\ code = (IF epstate["ctrl"] = "stopped" THEN "success" ELSE "error")
             /\ IF code = "success"
                  THEN \E n \in 0 .. Len(ep_ring["ctrl"]) : SetDequeue(n, t.sub)
                  ELSE UNCHANGED ep_ring
             /\ UNCHANGED epstate
  /\ UNCHANGED <<thread, short, failed, sync, reader, ports>>

\* A transfer TRB is done without an event: setup and data stages ask for none.
ExecuteSilently(ep) ==
  /\ epstate[ep] = "running"
  /\ ep_ring[ep] # << >>
  /\ Head(ep_ring[ep]).op \in {"setup", "data"}
  /\ ep_ring' = [ep_ring EXCEPT ![ep] = Tail(@)]
  /\ UNCHANGED <<thread, cmd_ring, epstate, short, failed, sync, reader, writer>>

\* With an event: TRB_IOC on success, TRB_ISP on a short packet, and any error,
\* which halts the endpoint at the TRB.
ExecuteWithEvent(ep, code) ==
  /\ epstate[ep] = "running"
  /\ ep_ring[ep] # << >>
  /\ LET t == Head(ep_ring[ep]) IN
       /\ CASE code = "success" -> t.op \in {"status", "normal_in", "normal_out"}
            [] code = "short"   -> t.op \in {"data", "normal_in"}
            [] OTHER            -> t.op # "setup"
       /\ Post("completion", t.sub, code)
       /\ IF code \in {"success", "short"}
            THEN ep_ring' = [ep_ring EXCEPT ![ep] = Tail(@)] /\ UNCHANGED epstate
            ELSE epstate' = [epstate EXCEPT ![ep] = "halted"] /\ UNCHANGED ep_ring
       /\ short' = (short \/ (code = "short" /\ t.op = "data"))
  /\ failed' = (failed \/ code = "error")
  /\ UNCHANGED <<thread, cmd_ring, sync, reader, ports>>

\* A device is connected or goes.
PortChange ==
  /\ ports < MaxPortEvents
  /\ ports' = ports + 1
  /\ Post("port", 0, "success")
  /\ UNCHANGED <<thread, rings, sync, reader>>

Controller == \/ \E code \in Code : ExecuteCommand(code)
              \/ \E ep \in Ep : ExecuteSilently(ep)
              \/ \E ep \in Ep, code \in Code : ExecuteWithEvent(ep, code)

----------------------------------------------------------------------------
(***************************************************************************)
(* xhci_isr.  The cache is invalidated once, on entry: an event posted     *)
(* after that may still look old, and is then left to the next interrupt.  *)
(***************************************************************************)
IsrEnter ==
  /\ ~isr
  /\ posted > handled
  /\ isr' = TRUE
  /\ seen' = posted
  /\ UNCHANGED <<thread, rings, sync, read_index, cycle_bit, erdp, handled, writer>>

\* The TRB at the read index belongs to the driver.
Fresh == event_trb[read_index].cycle = cycle_bit

\* xhci_event_complete: only a waiting thread is told.
EventComplete(event) ==
  /\ evt_trb' = event
  /\ event_sync' = (event_sync \/ event_wait)

\* Faulty variant: the cycle bit is not toggled.
NextEventSameCycle ==
  /\ read_index' = Advance(read_index)
  /\ UNCHANGED cycle_bit

\* The read index goes on; at the end of the ring the cycle bit is toggled.
NextEvent ==
  /\ read_index' = Advance(read_index)
  /\ cycle_bit' = IF Advance(read_index) = 0 THEN 1 - cycle_bit ELSE cycle_bit

\* One turn of the loop.  Port changes do not concern the thread.
IsrEvent ==
  /\ isr
  /\ Fresh
  /\ LET event == event_trb[read_index].event IN
       IF event.type = "completion"
         THEN EventComplete(event) /\ UNCHANGED event_wait
         ELSE UNCHANGED sync
  /\ handled' = handled + 1
  /\ NextEvent
  /\ UNCHANGED <<thread, rings, isr, seen, erdp, writer>>

\* Faulty variant: ERDP is not written.
IsrExitKeepsErdp ==
  /\ isr
  /\ ~Fresh \/ handled >= seen
  /\ isr' = FALSE
  /\ UNCHANGED <<thread, rings, sync, seen, read_index, cycle_bit, handled, erdp, writer>>

\* The loop ends; ERDP gives the cells back to the controller.
IsrExit ==
  /\ isr
  /\ ~Fresh \/ handled >= seen
  /\ erdp' = read_index
  /\ isr' = FALSE
  /\ UNCHANGED <<thread, rings, sync, seen, read_index, cycle_bit, handled, writer>>

Isr == IsrEnter \/ IsrEvent \/ IsrExit

Next == \/ \E k \in Shell : ShellCommand(k)
        \/ Thread
        \/ Controller \/ PortChange
        \/ Isr

Spec == Init /\ [][Next]_vars

\* The thread runs, the controller works, and an interrupt is taken and its
\* handler comes to an end (the controller cannot outrun it: it needs the cells
\* that the end of the handler gives back).
FairSpec == Spec /\ WF_vars(Thread) /\ WF_vars(Controller) /\ WF_vars(Isr)

----------------------------------------------------------------------------
\* Across the laps of the event ring every event is handled once and in the
\* order of the posts, and one that has been posted is seen.
EventsInOrder ==
  /\ Fresh => event_trb[read_index].event.no = handled + 1
  /\ ~Fresh => handled = posted

\* xhci_port.c:21 "only wake the thread if someone waits ... so that the next one
\* does not go without waiting": what a call reads in evt_trb is the event of its
\* own submission, as long as no control transfer had a short packet.
OwnEvent == ~short /\ pc = "read" => evt_trb.sub = sub

\* When a control transfer has returned, the control endpoint can be used again
\* and has nothing left from it, stalls included; short packets and transaction
\* errors excepted.
ControlRecovered ==
  ~short /\ ~failed /\ pc = "idle" =>
    epstate["ctrl"] # "halted" /\ ep_ring["ctrl"] = << >>

\* The rings are never full, which xhci_enqueue_trb does not look for: at most one
\* command and two transfers are in them, as long as there are no short packets.
RoomInRings ==
  ~short => Len(cmd_ring) <= 1 /\ \A ep \in Ep : Len(ep_ring[ep]) <= 6

\* The event of the current submission is still to come.
Expected ==
  \/ \E i \in 1 .. Len(cmd_ring) : cmd_ring[i].sub = sub
  \/ \E ep \in Ep : /\ epstate[ep] = "running"
                    /\ \E i \in 1 .. Len(ep_ring[ep]) : ep_ring[ep][i].sub = sub
  \/ \E i \in EventCell : /\ event_trb[i].event.sub = sub
                          /\ event_trb[i].event.no > handled

\* A thread that spins with its event still to come stops spinning: it hangs only
\* if the event was handled before event_wait was set, or the endpoint is halted
\* or was never configured.
WaitEnds == (pc = "spin" /\ Expected) ~> (pc # "spin")

\* xhci_port.c:21 again, without the exception.
AlwaysOwnEvent == pc = "read" => evt_trb.sub = sub

\* Every shell command returns.
CallReturns == (pc # "idle") ~> (pc = "idle")
============================================================================
