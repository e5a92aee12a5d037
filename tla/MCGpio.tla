------------------------------- MODULE MCGpio -------------------------------
(***************************************************************************)
(* The GPIO file system for TLC, from two sides: the handles that two      *)
(* threads open and close, and one event file with its interrupt handler.  *)
(* side is the one that is looked at; the other takes no step.             *)
(***************************************************************************)
EXTENDS GpioFs

CONSTANTS t1, t2, EventFlags, GPIO_LINE_EVENT_DATA_MAX, MaxEdges

ASSUME EventAssumption ==
  /\ EventFlags \subseteq {"rising", "falling"}
  /\ GPIO_LINE_EVENT_DATA_MAX \in Nat
  /\ MaxEdges \in Nat

VARIABLES side, level, pending, edges, enabled, rb, signal, last, reader, timed_out, overrun

Event == INSTANCE GpioEvent WITH pin <- level, pc <- reader

MCPin == {0, 1}
SharedPins == [t \in Thread |-> MCPin]
MCFlagSets == {{}, {"INPUT"}, {"OUTPUT", "OPEN_DRAIN"}, {"INPUT", "OUTPUT"}, {"OPEN_SOURCE"},
               {"INPUT", "BIAS"}}

eventVars == <<level, pending, edges, enabled, rb, signal, last, reader, timed_out, overrun>>
gpioVars == <<side, vars, eventVars>>

GpioInit ==
  /\ side \in {"handles", "event"} /\ Init /\ Event!Init
  /\ side = "handles" => level = "low"

GpioNext ==
  \/ side = "handles" /\ Next /\ InTurn /\ UNCHANGED <<side, eventVars>>
  \/ side = "event" /\ Event!Next /\ UNCHANGED <<side, vars>>

\* A latched interrupt is served, poll times out and the reading thread goes on.
GpioSpec ==
  /\ GpioInit /\ [][GpioNext]_gpioVars
  /\ WF_gpioVars(side = "event" /\ Event!GpioIrq /\ UNCHANGED <<side, vars>>)
  /\ WF_gpioVars(side = "event" /\ Event!Reader /\ UNCHANGED <<side, vars>>)

----------------------------------------------------------------------------
\* gpio_irq: asked for both edges, the newest record tells the level of the pin
\* as soon as the interrupt has been served, however fast the edges came, as
\* long as none was lost to a full buffer.
NewestTellsLevel == Event!NewestTellsLevel

\* gpio_event_read: a record does not stay in the buffer, whenever the interrupt
\* comes between poll's test, the reset of the signal and the reads: it is read,
\* or the file is closed.
RecordsRead == Event!RecordsRead
=============================================================================
