------------------------------- MODULE GpioFs -------------------------------
(***************************************************************************)
(* The handles of samples/gpio_fs/src/gpio_fs.c: threads ask the chip for  *)
(* line handles and line events through ioctl, get a file for each, use it *)
(* and close it.  Shared are the pool of line objects, the pool of event   *)
(* objects, the paths under /dev and the chip's pin_mask.                  *)
(*                                                                         *)
(* What runs under gpio_lock is one action; what the code does outside of  *)
(* it - the test of pin_mask before an object is allocated, the unregister *)
(* and the free at the end of a close - are actions of their own.  devfs   *)
(* is external: it refuses a path that is already registered.              *)
(***************************************************************************)
EXTENDS Naturals, FiniteSets

CONSTANTS Thread, Pin,
          FlagSets,     \* the sets of flags that requests have
          Wants,        \* the pins each thread asks for
          LineMax,      \* GPIO_LINE_HANDLE_MAX, 64
          EventMax,     \* GPIO_LINE_EVENT_MAX, 64
          OpenFails     \* whether open() can fail (no file descriptor left,
                        \* or the pin of an event cannot be configured)

ASSUME GpioAssumption ==
  /\ LineMax \in Nat /\ EventMax \in Nat
  /\ Wants \in [Thread -> SUBSET Pin]
  /\ OpenFails \in BOOLEAN
  /\ \A f \in FlagSets :
       f \subseteq {"INPUT", "OUTPUT", "ACTIVE_LOW", "OPEN_DRAIN", "OPEN_SOURCE", "BIAS"}

\* An object of one of the two pools.
Object == ({"line"} \X (0 .. LineMax - 1)) \cup ({"event"} \X (0 .. EventMax - 1))
Kind == {"line", "event"}
Pool(kind) == {o \in Object : o[1] = kind}

\* What is kept of a request: its pins and the direction they get.
Direction == {"disconnected", "in", "out"}
Req == [kind : Kind, pins : SUBSET Pin, dir : Direction]
NoReq == [kind |-> "line", pins |-> {}, dir |-> "disconnected"]
NoObject == <<"none", 0>>

VARIABLES chip,       \* the objects whose chip is not NULL: allocated
          path,       \* the objects whose path is registered
          req,        \* the request of an allocated object; NoReq in the others
          pin_mask,   \* the pins marked as open
          pin,        \* how each pin is configured
          fds,        \* per thread: the objects it has a file for
          pc, want,   \* per thread: where it is, its request or object
          ret         \* per thread: the result of its last ioctl

vars == <<chip, path, req, pin_mask, pin, fds, pc, want, ret>>

TypeOK ==
  /\ chip \subseteq Object
  /\ path \subseteq Object
  /\ req \in [Object -> Req]
  /\ pin_mask \subseteq Pin
  /\ pin \in [Pin -> Direction]
  /\ fds \in [Thread -> SUBSET Object]
  /\ pc \in [Thread -> {"idle", "create", "unregister", "free"}]
  /\ want \in [Thread -> [req : Req, object : Object \cup {NoObject}]]
  /\ ret \in [Thread -> {"none", "EINVAL", "ENOMEM", "ERRNO", "0", "1"}]

Init ==
  /\ chip = {} /\ path = {}
  /\ req = [o \in Object |-> NoReq]
  /\ pin_mask = {}
  /\ pin = [p \in Pin |-> "disconnected"]
  /\ fds = [t \in Thread |-> {}]
  /\ pc = [t \in Thread |-> "idle"]
  /\ want = [t \in Thread |-> [req |-> NoReq, object |-> NoObject]]
  /\ ret = [t \in Thread |-> "none"]

----------------------------------------------------------------------------
(***************************************************************************)
(* gpio_line_handle_create and gpio_line_event_create, up to gpio_lock.    *)
(***************************************************************************)
\* The flag rules of the two functions: bias flags are refused by both.
ValidFlags == {"INPUT", "OUTPUT", "ACTIVE_LOW", "OPEN_DRAIN", "OPEN_SOURCE"}

LineFlagsOK(f) ==
  /\ f \subseteq ValidFlags
  /\ ~({"INPUT", "OUTPUT"} \subseteq f)
  /\ ~({"OPEN_DRAIN", "OPEN_SOURCE"} \subseteq f)
  /\ "OUTPUT" \in f \/ ({"OPEN_DRAIN", "OPEN_SOURCE"} \cap f = {})

EventFlagsOK(f) ==
  /\ f \subseteq ValidFlags
  /\ {"OUTPUT", "OPEN_DRAIN", "OPEN_SOURCE"} \cap f = {}

FlagsOK(kind, f) == IF kind = "line" THEN LineFlagsOK(f) ELSE EventFlagsOK(f)

\* req_flag_2_gpio_flag for a line: no direction flag disconnects the pin;
\* gpio_event_open always makes the pin an input.
DirectionOf(kind, f) ==
  IF kind = "event" THEN "in"
  ELSE IF "OUTPUT" \in f THEN "out" ELSE IF "INPUT" \in f THEN "in" ELSE "disconnected"

\* Faulty variant: pin_mask is not looked at.
PinsUnchecked(P) == TRUE

PinsFree(P) == P \cap pin_mask = {}

\* An event has one line, a line handle has one or more.
PinSets(t, kind) ==
  {P \in SUBSET Wants[t] : P # {} /\ (kind = "event" => Cardinality(P) = 1)}

\* inRange: the number of lines, the offsets and the event flags are in range.
CreateCheck(t) ==
  /\ pc[t] = "idle"
  /\ \E kind \in Kind, f \in FlagSets, inRange \in BOOLEAN : \E P \in PinSets(t, kind) :
       IF inRange /\ PinsFree(P) /\ FlagsOK(kind, f)
         THEN /\ want' = [want EXCEPT ![t].req =
                           [kind |-> kind, pins |-> P, dir |-> DirectionOf(kind, f)]]
              /\ pc' = [pc EXCEPT ![t] = "create"]
              /\ ret' = [ret EXCEPT ![t] = "none"]
         ELSE /\ ret' = [ret EXCEPT ![t] = "EINVAL"]
              /\ UNCHANGED <<want, pc>>
  /\ UNCHANGED <<chip, path, req, pin_mask, pin, fds>>

----------------------------------------------------------------------------
\* Faulty variant: the loop does not look at chip.
FreeAny(kind) == Pool(kind)

(***************************************************************************)
(* The rest of the two functions, under gpio_lock: an object is taken from *)
(* the pool, its path registered and opened.                               *)
(***************************************************************************)
\* gpio_line_handle_alloc, gpio_line_event_alloc: the first free object.
Free(kind) == Pool(kind) \ chip
FirstFree(kind) == CHOOSE o \in Free(kind) : \A q \in Free(kind) : o[2] <= q[2]

Return(t, result) ==
  /\ ret' = [ret EXCEPT ![t] = result]
  /\ pc' = [pc EXCEPT ![t] = "idle"]
  /\ want' = [want EXCEPT ![t].req = NoReq]

CreateNoMemory(t) ==
  /\ pc[t] = "create"
  /\ Free(want[t].req.kind) = {}
  /\ Return(t, "ENOMEM")
  /\ UNCHANGED <<chip, path, req, pin_mask, pin, fds>>

\* devfs refuses the path: res is the negation of its result, 0.
CreateNoPath(t) ==
  /\ pc[t] = "create"
  /\ Free(want[t].req.kind) # {}
  /\ LET o == FirstFree(want[t].req.kind)
     IN o \in path /\ chip' = chip \ {o}
  /\ Return(t, "0")
  /\ UNCHANGED <<path, req, pin_mask, pin, fds>>

\* open() runs gpio_line_open or gpio_event_open: the pins are marked and
\* configured.  res is 1.
CreateOpen(t) ==
  /\ pc[t] = "create"
  /\ Free(want[t].req.kind) # {}
  /\ LET o == FirstFree(want[t].req.kind)
         r == want[t].req
     IN /\ o \notin path
        /\ chip' = chip \cup {o}
        /\ path' = path \cup {o}
        /\ req' = [req EXCEPT ![o] = r]
        /\ pin_mask' = pin_mask \cup r.pins
        /\ pin' = [p \in Pin |-> IF p \in r.pins THEN r.dir ELSE pin[p]]
        /\ fds' = [fds EXCEPT ![t] = @ \cup {o}]
  /\ Return(t, "1")

\* open() fails: the path is unregistered and the object freed again.  The pin
\* of an event may be an input by now.
CreateOpenFails(t) ==
  /\ OpenFails
  /\ pc[t] = "create"
  /\ Free(want[t].req.kind) # {}
  /\ LET o == FirstFree(want[t].req.kind)
         r == want[t].req
     IN /\ o \notin path
        /\ \/ UNCHANGED pin
           \/ /\ r.kind = "event"
              /\ pin' = [p \in Pin |-> IF p \in r.pins THEN "in" ELSE pin[p]]
  /\ Return(t, "ERRNO")
  /\ UNCHANGED <<chip, path, req, pin_mask, fds>>

----------------------------------------------------------------------------
\* GPIOHANDLE_SET_CONFIG_IOCTL on a line: the flags are not checked.
SetConfig(t) ==
  /\ pc[t] = "idle"
  /\ \E o \in fds[t], d \in Direction :
       /\ o[1] = "line"
       /\ pin' = [p \in Pin |-> IF p \in req[o].pins THEN d ELSE pin[p]]
  /\ UNCHANGED <<chip, path, req, pin_mask, fds, pc, want, ret>>

(***************************************************************************)
(* gpio_line_close and gpio_event_close: the locked part, then unregister  *)
(* and free - in this order for a line, in the other for an event.         *)
(***************************************************************************)
CloseLocked(t) ==
  /\ pc[t] = "idle"
  /\ \E o \in fds[t] :
       /\ fds' = [fds EXCEPT ![t] = @ \ {o}]
       /\ pin_mask' = pin_mask \ req[o].pins
       /\ pin' = [p \in Pin |-> IF o[1] = "line" /\ p \in req[o].pins
                                  THEN "disconnected" ELSE pin[p]]
       /\ want' = [want EXCEPT ![t].object = o]
       /\ pc' = [pc EXCEPT ![t] = IF o[1] = "line" THEN "unregister" ELSE "free"]
  /\ UNCHANGED <<chip, path, req, ret>>

CloseReturn(t) ==
  /\ pc' = [pc EXCEPT ![t] = "idle"]
  /\ want' = [want EXCEPT ![t].object = NoObject]

CloseUnregister(t) ==
  /\ pc[t] = "unregister"
  /\ path' = path \ {want[t].object}
  /\ IF want[t].object[1] = "line"
       THEN pc' = [pc EXCEPT ![t] = "free"] /\ UNCHANGED want
       ELSE CloseReturn(t)
  /\ UNCHANGED <<chip, req, pin_mask, pin, fds, ret>>

CloseFree(t) ==
  /\ pc[t] = "free"
  /\ chip' = chip \ {want[t].object}
  /\ req' = [req EXCEPT ![want[t].object] = NoReq]
  /\ IF want[t].object[1] = "line"
       THEN CloseReturn(t)
       ELSE pc' = [pc EXCEPT ![t] = "unregister"] /\ UNCHANGED want
  /\ UNCHANGED <<path, pin_mask, pin, fds, ret>>

----------------------------------------------------------------------------
Step(t) == \/ CreateCheck(t) \/ CreateNoMemory(t) \/ CreateNoPath(t)
           \/ CreateOpen(t) \/ CreateOpenFails(t) \/ SetConfig(t)
           \/ CloseLocked(t) \/ CloseUnregister(t) \/ CloseFree(t)

Next == \E t \in Thread : Step(t)

Spec == Init /\ [][Next]_vars

(***************************************************************************)
(* pin_mask is tested before gpio_lock is taken (gpio_fs.c:340, 608): two  *)
(* threads that test the same pin before either of them has marked it both *)
(* get it.  InTurn excludes this and nothing else: a thread may ask for a  *)
(* pin that others have, close or ask for, but does not pass the test      *)
(* while another one is between the test and the end of its create with a  *)
(* request for the same pin.                                               *)
(***************************************************************************)
InTurn ==
  \A t \in Thread : pc[t] = "idle" /\ pc'[t] = "create" =>
    \A u \in Thread \ {t} : pc[u] = "create" => want'[t].req.pins \cap want[u].req.pins = {}

TurnSpec == Init /\ [][Next /\ InTurn]_vars

----------------------------------------------------------------------------
\* The objects that threads have files for.
Held == UNION {fds[t] : t \in Thread}

\* A file always refers to an object that is allocated and whose path exists,
\* and no two files to the same one, although the last steps of a close are not
\* locked and another thread may be allocating.
FilesBacked ==
  /\ Held \subseteq chip \cap path
  /\ \A t, u \in Thread : t # u => fds[t] \cap fds[u] = {}

\* Unless two threads test the same pin at the same time (InTurn), pin_mask is
\* exactly the pins of the open handles: nothing stays marked after a close or a
\* failed open, and no close unmarks what another handle has, which may have
\* been asked for while the first was being closed.
MaskIsOpenPins == pin_mask = UNION {req[o].pins : o \in Held}

\* ... and the pin of an open event is an input as long as the event is open:
\* no line handle turns it around or disconnects it.
EventPinsAreInputs ==
  \A o \in Held : o[1] = "event" => \A p \in req[o].pins : pin[p] = "in"

\* What creates and closes keep between them, the parts outside of gpio_lock
\* included: files, objects, paths, pin_mask and pin directions agree.
HandleInv == TypeOK /\ FilesBacked /\ MaskIsOpenPins /\ EventPinsAreInputs

\* Hence, unless two threads test the same pin at the same time (InTurn), the
\* handles implement exclusive ownership of the pins: threads that want the same
\* pin get it one after the other, whatever the unlocked ends of the closes and
\* the failing opens do in between.
Owned == {[thread |-> x[1], pins |-> req[x[2]].pins] :
            x \in {y \in Thread \X Object : y[2] \in fds[y[1]]}}
Ownership == INSTANCE PinOwner WITH owned <- Owned
PinsAreOwned == Ownership!Spec

\* gpio_fs.c:342 "pin [%d] is opened": a pin that is open is not given out again,
\* so no two open handles have a pin in common.  Holds of TurnSpec, not of Spec.
PinsExclusive ==
  \A o, q \in Held : o # q => req[o].pins \cap req[q].pins = {}

\* main.c:226 "Failed to GPIO_GET_LINEEVENT_IOCTL failed!" on a negative result:
\* any other result comes with a file.
NonNegativeGivesFile ==
  [][\A t \in Thread : ret'[t] \in {"0", "1"} /\ pc[t] = "create" /\ pc'[t] = "idle"
        => fds'[t] # fds[t]]_vars
=============================================================================
