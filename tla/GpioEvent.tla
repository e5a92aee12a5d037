----------------------------- MODULE GpioEvent -----------------------------
(***************************************************************************)
(* One line event of samples/gpio_fs/src/gpio_fs.c: the interrupt handler  *)
(* gpio_irq puts event records into a ring buffer and raises a poll signal;*)
(* a thread polls the file, reads until the buffer is empty (the loop of   *)
(* gpio_lineevent_multi_test in main.c) and closes it at some time.        *)
(*                                                                         *)
(* The interrupt handler comes between any two steps of the thread; the    *)
(* calls of the thread that touch shared state are one action each.        *)
(* The GPIO hardware latches an edge it has been asked for; poll() is      *)
(* external: it waits for the signal or the timeout, and then asks         *)
(* ZFD_IOCTL_POLL_UPDATE whether the file is readable.                     *)
(***************************************************************************)
EXTENDS Naturals, Sequences

CONSTANTS EventFlags,                \* the edges asked for: req.eventflags
          GPIO_LINE_EVENT_DATA_MAX,  \* records in the ring buffer, 16
          MaxEdges                   \* bound: edges on the pin in a run

Level == {"low", "high"}
EdgeTo == [low |-> "falling", high |-> "rising"]

VARIABLES pin, pending, edges,  \* level, latched interrupt, edges so far
          enabled,              \* callback added and interrupt configured
          rb, signal,           \* the ring buffer, oldest first; the signal
          last,                 \* the newest record, "none" since the open
          pc, timed_out,        \* the thread; whether k_poll timed out
          overrun               \* a record did not fit

hw == <<pin, pending, edges>>
vars == <<hw, enabled, rb, signal, last, pc, timed_out, overrun>>

TypeOK ==
  /\ pin \in Level /\ pending \in BOOLEAN /\ edges \in 0 .. MaxEdges
  /\ enabled \in BOOLEAN
  /\ rb \in Seq({"rising", "falling"}) /\ Len(rb) <= GPIO_LINE_EVENT_DATA_MAX
  /\ signal \in BOOLEAN
  /\ last \in {"none", "rising", "falling"}
  /\ pc \in {"closed", "idle", "poll", "update", "reset", "zero", "read"}
  /\ timed_out \in BOOLEAN /\ overrun \in BOOLEAN

Init ==
  /\ pin \in Level /\ pending = FALSE /\ edges = 0
  /\ enabled = FALSE
  /\ rb = << >> /\ signal = FALSE /\ last = "none"
  /\ pc = "closed" /\ timed_out = FALSE /\ overrun = FALSE

----------------------------------------------------------------------------
\* The pin toggles; the controller latches the edge when it has been asked to.
Edge ==
  /\ edges < MaxEdges
  /\ edges' = edges + 1
  /\ pin' = IF pin = "low" THEN "high" ELSE "low"
  /\ pending' = (pending \/ (enabled /\ EdgeTo[pin'] \in EventFlags))
  /\ UNCHANGED <<enabled, rb, signal, last, pc, timed_out, overrun>>

\* Faulty variant: the two edges are swapped.
IrqEdgeSwapped ==
  IF EventFlags = {"rising", "falling"}
    THEN IF pin = "high" THEN "falling" ELSE "rising"
    ELSE CHOOSE e \in EventFlags : TRUE

\* gpio_irq names the edge it was asked for or, when asked for both, the one
\* that leads to the level it reads.
IrqEdge ==
  IF EventFlags = {"rising", "falling"} THEN EdgeTo[pin] ELSE CHOOSE e \in EventFlags : TRUE

GpioIrq ==
  /\ pending
  /\ pending' = FALSE
  /\ IF Len(rb) < GPIO_LINE_EVENT_DATA_MAX
       THEN rb' = Append(rb, IrqEdge) /\ last' = IrqEdge /\ UNCHANGED overrun
       ELSE overrun' = TRUE /\ UNCHANGED <<rb, last>>
  /\ signal' = TRUE
  /\ UNCHANGED <<pin, edges, enabled, pc, timed_out>>

----------------------------------------------------------------------------
\* gpio_event_open: buffer and signal are initialised before the interrupt is
\* configured.  When the pin cannot be configured the file does not open.
EventOpen ==
  /\ pc = "closed"
  /\ rb' = << >> /\ signal' = FALSE /\ last' = "none" /\ overrun' = FALSE
  /\ \/ pc' = "idle" /\ enabled' = TRUE
     \/ UNCHANGED <<pc, enabled>>
  /\ UNCHANGED <<hw, timed_out>>

\* gpio_event_close: interrupt disabled, callback removed, then reset and free.
EventClose ==
  /\ pc = "idle"
  /\ enabled' = FALSE
  /\ pending' = FALSE
  /\ rb' = << >> /\ signal' = FALSE /\ last' = "none"
  /\ pc' = "closed"
  /\ UNCHANGED <<pin, edges, timed_out, overrun>>

\* poll: ZFD_IOCTL_POLL_PREPARE hands the signal to k_poll ...
PollPrepare ==
  /\ pc = "idle"
  /\ pc' = "poll"
  /\ UNCHANGED <<hw, enabled, rb, signal, last, timed_out, overrun>>

\* ... which returns when it is raised or when the time is over.
PollReturns ==
  /\ pc = "poll"
  /\ timed_out' = ~signal
  /\ pc' = "update"
  /\ UNCHANGED <<hw, enabled, rb, signal, last, overrun>>

\* Faulty variant: more than one record is required.
PollUpdateTwo ==
  /\ pc = "update"
  /\ pc' = IF Len(rb) > 1 THEN "reset" ELSE "zero"
  /\ UNCHANGED <<hw, enabled, rb, signal, last, timed_out, overrun>>

\* ZFD_IOCTL_POLL_UPDATE: readable if a record is there, and only then is the
\* signal reset.
PollUpdate ==
  /\ pc = "update"
  /\ pc' = IF rb # << >> THEN "reset" ELSE "zero"
  /\ UNCHANGED <<hw, enabled, rb, signal, last, timed_out, overrun>>

PollReset ==
  /\ pc = "reset"
  /\ signal' = FALSE
  /\ pc' = "read"
  /\ UNCHANGED <<hw, enabled, rb, last, timed_out, overrun>>

\* poll returned 0: the thread may poll again or close.
PollZero ==
  /\ pc = "zero"
  /\ pc' = "idle"
  /\ UNCHANGED <<hw, enabled, rb, signal, last, timed_out, overrun>>

\* gpio_event_read, until it returns less than a record.
EventRead ==
  /\ pc = "read"
  /\ IF rb # << >>
       THEN rb' = Tail(rb) /\ UNCHANGED pc
       ELSE pc' = "idle" /\ UNCHANGED rb
  /\ UNCHANGED <<hw, enabled, signal, last, timed_out, overrun>>

Reader == PollPrepare \/ PollReturns \/ PollUpdate \/ PollReset \/ PollZero \/ EventRead

Next == Edge \/ GpioIrq \/ EventOpen \/ EventClose \/ Reader

Spec == Init /\ [][Next]_vars

\* A latched interrupt is served, poll times out and the thread goes on.
FairSpec == Spec /\ WF_vars(GpioIrq) /\ WF_vars(Reader)

----------------------------------------------------------------------------
\* No lost wakeup: whenever the thread is about to wait in poll, or waits, and
\* a record is in the buffer, the signal is up.  The interrupt may come between
\* the test of the buffer, the reset of the signal and the reads.
NoLostWakeup ==
  pc \in {"idle", "poll"} /\ rb # << >> => signal

\* Asked for both edges, the newest record tells the level of the pin as soon as
\* the interrupt has been served, however fast the edges came, as long as none
\* was lost to a full buffer.
NewestTellsLevel ==
  EventFlags = {"rising", "falling"} /\ enabled /\ ~pending /\ ~overrun /\ last # "none"
    => last = EdgeTo[pin]

\* No record reaches a file that is closed.
ClosedIsQuiet == ~enabled => rb = << >> /\ ~signal /\ ~pending

\* What interrupt handler, poll and close keep between them: buffer and signal
\* are in range, no wakeup is lost, and a closed file is quiet.
EventInv == TypeOK /\ NoLostWakeup /\ ClosedIsQuiet

\* A record does not stay in the buffer: it is read or the file is closed.
RecordsRead == (rb # << >>) ~> (rb = << >>)

\* gpio_fs.c:442 __ASSERT(0, "chip: %s, pin: %d, buffer full!!"): the assertion
\* that every record fits.
BufferNeverFull == ~overrun

\* main.c:348 "poll timeout!!": the callers take a return value of 0 for a
\* timeout.
ZeroMeansTimeout == pc = "zero" => timed_out
============================================================================
