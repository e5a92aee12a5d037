------------------------------ MODULE UsbShell ------------------------------
(***************************************************************************)
(* The USB console of samples/usb_acm_agent/app_core/src/usb_shell.c.  The *)
(* CDC ACM port belongs to the shell of this core or to uart_agent, which  *)
(* forwards it to the other core; two work items hand it over.             *)
(*                                                                         *)
(* The items run in the cooperative thread of the system workqueue, one    *)
(* after the other: other threads see a handler only where it sleeps.      *)
(* Zephyr's shell and uart_agent are external.  A shell that is active     *)
(* takes the commands its backend has buffered, and at the end of          *)
(* state_collect sets its state to active again.                           *)
(***************************************************************************)
EXTENDS Naturals, Sequences

CONSTANTS MaxTyped,   \* bound: commands typed at the console
          MaxSets     \* bound: requests of the other core

VARIABLE us

\* usb_shell_init: shell_init fails, or the agent is not ready and the shell
\* runs already, or all is set up and the console is local.
SetUp(outcome) ==
  [init |-> outcome,
   local_shell |-> outcome = "ok",
   queue |-> << >>,           \* items submitted to the workqueue
   work |-> "none",           \* the handler that sleeps
   suspended |-> FALSE,       \* shell_backend_uart_suspend
   agent |-> FALSE,           \* uart_agent_start
   state |-> IF outcome = "no_shell" THEN "UNINITIALIZED" ELSE "ACTIVE",
   thread |-> "idle",         \* the command the shell thread is at
   rx |-> << >>,              \* what the backend has buffered
   typed |-> 0, sets |-> 0,
   fault |-> FALSE]           \* a handler that is NULL has been called

Init == us \in {SetUp(outcome) : outcome \in {"ok", "no_agent", "no_shell"}}

\* k_work_submit: an item that is queued is not queued twice, one whose handler
\* runs is queued.  Without k_work_init there is no handler to call.
Submitted(u, item) ==
  IF u.init # "ok" THEN [u EXCEPT !.fault = TRUE]
  ELSE IF \E i \in 1 .. Len(u.queue) : u.queue[i] = item THEN u
  ELSE [u EXCEPT !.queue = Append(@, item)]

----------------------------------------------------------------------------
\* The user types; a suspended backend gets nothing.
Type(cmd) ==
  /\ ~us.suspended /\ us.state # "UNINITIALIZED" /\ us.typed < MaxTyped
  /\ us' = [us EXCEPT !.rx = Append(@, cmd), !.typed = @ + 1]

Collect ==
  /\ us.thread = "idle" /\ us.state = "ACTIVE" /\ us.rx # << >>
  /\ us' = [us EXCEPT !.thread = Head(us.rx), !.rx = Tail(@)]

\* Typed at another shell the command is refused.
cmd_uart_switch_peer ==
  /\ us.thread = "uart_switch_sec"
  /\ us' = Submitted([us EXCEPT !.thread = "end"], "peer")

\* The end of a command, however long it took, and of state_collect.
CollectEnds ==
  /\ us.thread \in {"other", "end"}
  /\ us' = [us EXCEPT !.thread = "idle", !.state = "ACTIVE"]

\* The agent's callback: the other core wants the console to be local.
on_vuart_mode_set ==
  /\ us.init = "ok" /\ us.sets < MaxSets
  /\ us' = Submitted([us EXCEPT !.sets = @ + 1], "local")

----------------------------------------------------------------------------
\* The workqueue takes its next item.
Runs(item) == us.work = "none" /\ us.queue # << >> /\ Head(us.queue) = item

\* shell_start: only a shell that was stopped.
switch_local_work_handler ==
  /\ Runs("local")
  /\ us' = IF us.local_shell THEN [us EXCEPT !.queue = Tail(@)]
           ELSE [us EXCEPT !.queue = Tail(@), !.local_shell = TRUE, !.agent = FALSE,
                           !.suspended = FALSE,
                           !.state = IF @ = "INITIALIZED" THEN "ACTIVE" ELSE @]

\* switch_peer_work_handler up to k_msleep, and from there on.
PeerSuspend ==
  /\ Runs("peer")
  /\ us' = [us EXCEPT !.queue = Tail(@), !.work = "peer", !.suspended = TRUE]

\* Faulty variant: local_shell stays set, and the way back is refused.
PeerClaimKeepsFlag ==
  /\ us.work = "peer"
  /\ us' = [us EXCEPT !.work = "none", !.agent = TRUE,
                      !.state = IF @ = "ACTIVE" THEN "INITIALIZED" ELSE @]

PeerClaim ==
  /\ us.work = "peer"
  /\ us' = [us EXCEPT !.work = "none", !.agent = TRUE, !.local_shell = FALSE,
                      !.state = IF @ = "ACTIVE" THEN "INITIALIZED" ELSE @]

Next ==
  /\ ~us.fault
  /\ \/ \E cmd \in {"uart_switch_sec", "other"} : Type(cmd)
     \/ Collect \/ cmd_uart_switch_peer \/ CollectEnds \/ on_vuart_mode_set
     \/ switch_local_work_handler \/ PeerSuspend \/ PeerClaim

Spec == Init /\ [][Next]_us

----------------------------------------------------------------------------
\* The port has one owner: the agent runs only while the shell's backend is
\* suspended, and between two handlers local_shell tells which of them it is; a
\* local console has a shell that listens.  However commands and requests of the
\* other core meet, none is stuck with a port that nobody serves.
OneOwner ==
  /\ us.agent => us.suspended
  /\ us.init = "ok" /\ us.work = "none" =>
       /\ us.suspended = us.agent /\ us.local_shell = ~us.agent
       /\ us.local_shell => us.state = "ACTIVE"

\* usb_shell.c:62 "Only then is shell_stop guaranteed to stick": a command that
\* takes longer than the 10 ms of the sleep sets the state back.
StopSticks == us.agent => us.state = "INITIALIZED"

\* The items are submitted only when they have been initialised: without the
\* agent the command is there all the same.
WorkInitialised == ~us.fault
=============================================================================
