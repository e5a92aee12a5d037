----------------------------- MODULE GpioProofs -----------------------------
(***************************************************************************)
(* Proofs about the GPIO file system, for any threads, pins, flags, pool   *)
(* sizes and requests: what the handles keep, and what one event file and  *)
(* its interrupt handler keep.                                             *)
(***************************************************************************)
EXTENDS MCGpio, SequenceTheorems, WellFoundedInduction, TLAPS

----------------------------------------------------------------------------
(***************************************************************************)
(* The handles.                                                            *)
(***************************************************************************)
Closing(t) == pc[t] \in {"unregister", "free"}

\* A thread that has left gpio_lock in a close still keeps its object out of
\* the allocator's hands: by its chip pointer or, once an event is freed, by
\* its path alone, which devfs refuses to register twice.
ClosersKeep ==
  \A t \in Thread : Closing(t) =>
    /\ want[t].object \in Object \ Held
    /\ want[t].object[1] = "event" => want[t].object \in path
    /\ want[t].object[1] = "line" \/ pc[t] = "free" => want[t].object \in chip

\* No two threads close the same object.
ClosersApart ==
  \A t, u \in Thread :
    t # u /\ Closing(t) /\ Closing(u) => want[t].object # want[u].object

PoolInv == TypeOK /\ FilesBacked /\ ClosersKeep /\ ClosersApart

\* The allocators find a free object when there is one.
LEMMA FirstFreeIsFree ==
  ASSUME NEW kind \in Kind, Free(kind) # {}
  PROVE  FirstFree(kind) \in Free(kind)
<1> DEFINE N == {o[2] : o \in Free(kind)}
<1>1. \A o \in Free(kind) : o[2] \in Nat
  BY GpioAssumption DEF Free, Pool, Object
<1>2. N \subseteq Nat /\ N # {}
  BY <1>1
<1> HIDE DEF N
<1>3. PICK n \in N : \A m \in N : ~(<<m, n>> \in OpToRel(<, Nat))
  BY <1>2, WFMin, NatLessThanWellFounded
<1>4. ASSUME NEW m \in N PROVE n <= m
  <2>1. m \in Nat /\ n \in Nat
    BY <1>2
  <2>2. ASSUME m < n PROVE <<m, n>> \in OpToRel(<, Nat)
    BY <2>1, <2>2, Zenon DEF OpToRel
  <2>3. ~(m < n)
    BY <1>3, <2>2, Zenon
  <2> QED BY <2>1, <2>3
<1>5. \E o \in Free(kind) : \A q \in Free(kind) : o[2] <= q[2]
  BY <1>4 DEF N
<1> QED BY <1>5 DEF FirstFree

LEMMA PoolTypeStep ==
  ASSUME TypeOK, ClosersKeep, NEW t \in Thread, Step(t)
  PROVE  TypeOK'
<1> USE DEF TypeOK
<1>1. /\ NoReq \in Req
      /\ \A k \in Kind : \A f : DirectionOf(k, f) \in Direction
      /\ want[t].req \in Req
      /\ want[t].req.kind \in Kind
      /\ want[t].object \in Object \cup {NoObject}
  BY DEF NoReq, Req, Kind, Direction, DirectionOf
<1>2. CASE CreateCheck(t)
  <2>1. PICK kind \in Kind, f \in FlagSets, inRange \in BOOLEAN : \E P \in PinSets(t, kind) :
          IF inRange /\ PinsFree(P) /\ FlagsOK(kind, f)
            THEN /\ want' = [want EXCEPT ![t].req =
                              [kind |-> kind, pins |-> P, dir |-> DirectionOf(kind, f)]]
                 /\ pc' = [pc EXCEPT ![t] = "create"]
                 /\ ret' = [ret EXCEPT ![t] = "none"]
            ELSE /\ ret' = [ret EXCEPT ![t] = "EINVAL"]
                 /\ UNCHANGED <<want, pc>>
    BY <1>2 DEF CreateCheck
  <2>2. PICK P \in PinSets(t, kind) :
          IF inRange /\ PinsFree(P) /\ FlagsOK(kind, f)
            THEN /\ want' = [want EXCEPT ![t].req =
                              [kind |-> kind, pins |-> P, dir |-> DirectionOf(kind, f)]]
                 /\ pc' = [pc EXCEPT ![t] = "create"]
                 /\ ret' = [ret EXCEPT ![t] = "none"]
            ELSE /\ ret' = [ret EXCEPT ![t] = "EINVAL"]
                 /\ UNCHANGED <<want, pc>>
    BY <2>1
  <2>3. [kind |-> kind, pins |-> P, dir |-> DirectionOf(kind, f)] \in Req
    <3>1. P \subseteq Pin
      BY GpioAssumption DEF PinSets
    <3> QED BY <1>1, <3>1 DEF Req
  <2>4. /\ want' \in [Thread -> [req : Req, object : Object \cup {NoObject}]]
        /\ pc' \in [Thread -> {"idle", "create", "unregister", "free"}]
        /\ ret' \in [Thread -> {"none", "EINVAL", "ENOMEM", "ERRNO", "0", "1"}]
    <3>1. CASE inRange /\ PinsFree(P) /\ FlagsOK(kind, f)
      <4>1. /\ want' = [want EXCEPT ![t].req =
                          [kind |-> kind, pins |-> P, dir |-> DirectionOf(kind, f)]]
            /\ pc' = [pc EXCEPT ![t] = "create"]
            /\ ret' = [ret EXCEPT ![t] = "none"]
        BY <2>2, <3>1, Zenon
      <4> QED BY <1>1, <2>3, <4>1
    <3>2. CASE ~(inRange /\ PinsFree(P) /\ FlagsOK(kind, f))
      <4>1. ret' = [ret EXCEPT ![t] = "EINVAL"] /\ UNCHANGED <<want, pc>>
        BY <2>2, <3>2, Zenon
      <4> QED BY <4>1
    <3> QED BY <3>1, <3>2
  <2> QED BY <1>2, <2>4 DEF CreateCheck
<1>3. CASE CreateNoMemory(t)
  BY <1>1, <1>3 DEF CreateNoMemory, Return
<1>4. CASE CreateNoPath(t)
  BY <1>1, <1>4 DEF CreateNoPath, Return
<1>5. CASE CreateOpen(t)
  <2>1. FirstFree(want[t].req.kind) \in Object
    BY <1>1, <1>5, FirstFreeIsFree DEF CreateOpen, Free, Pool
  <2>2. want[t].req.dir \in Direction /\ want[t].req.pins \subseteq Pin
    BY <1>1 DEF Req
  <2> QED BY <1>1, <1>5, <2>1, <2>2 DEF CreateOpen, Return
<1>6. CASE CreateOpenFails(t)
  <2>1. pin' \in [Pin -> Direction]
    BY <1>6 DEF CreateOpenFails, Direction
  <2> QED BY <1>1, <1>6, <2>1 DEF CreateOpenFails, Return
<1>7. CASE SetConfig(t)
  <2>1. pin' \in [Pin -> Direction]
    BY <1>7 DEF SetConfig
  <2> QED BY <1>7, <2>1 DEF SetConfig
<1>8. CASE CloseLocked(t)
  <2>1. pin' \in [Pin -> Direction]
    BY <1>8 DEF CloseLocked, Direction
  <2> QED BY <1>8, <2>1 DEF CloseLocked
<1>9. CASE CloseUnregister(t)
  BY <1>9 DEF CloseUnregister, CloseReturn
<1>10. CASE CloseFree(t)
  <2>1. req' \in [Object -> Req]
    BY <1>1, <1>10 DEF CloseFree
  <2>3. chip' \subseteq Object
    BY <1>10 DEF CloseFree
  <2>2. /\ want' \in [Thread -> [req : Req, object : Object \cup {NoObject}]]
        /\ pc' \in [Thread -> {"idle", "create", "unregister", "free"}]
    <3>1. CASE want[t].object[1] = "line"
      <4>1. CloseReturn(t)
        BY <1>10, <3>1 DEF CloseFree
      <4> QED BY <1>1, <4>1 DEF CloseReturn
    <3>2. CASE want[t].object[1] # "line"
      BY <1>1, <1>10, <3>2 DEF CloseFree, CloseReturn
    <3> QED BY <3>1, <3>2
  <2> QED BY <1>10, <2>1, <2>2, <2>3 DEF CloseFree
<1> QED BY <1>2, <1>3, <1>4, <1>5, <1>6, <1>7, <1>8, <1>9, <1>10 DEF Step

LEMMA PoolInit == Init => PoolInv
<1> SUFFICES ASSUME Init PROVE PoolInv
  OBVIOUS
<1>1. NoReq \in Req /\ NoObject \in {NoObject}
  BY DEF NoReq, Req, Kind, Direction
<1>2. TypeOK
  BY <1>1 DEF Init, TypeOK, Direction
<1>3. Held = {}
  BY DEF Init, Held
<1>4. FilesBacked
  BY <1>3 DEF Init, FilesBacked
<1> QED BY <1>2, <1>4 DEF PoolInv, ClosersKeep, ClosersApart, Closing, Init

\* A step that leaves objects, paths and files alone, and starts no close.
LEMMA PoolQuiet ==
  ASSUME PoolInv, TypeOK', UNCHANGED <<chip, path, fds>>,
         \A u \in Thread : Closing(u)' =>
           Closing(u) /\ UNCHANGED pc[u] /\ UNCHANGED want[u].object
  PROVE  PoolInv'
<1>1. Held' = Held
  BY DEF Held
<1>2. FilesBacked'
  BY <1>1 DEF PoolInv, FilesBacked
<1>3. ClosersKeep'
  BY <1>1 DEF PoolInv, ClosersKeep
<1>4. ClosersApart'
  BY DEF PoolInv, ClosersApart
<1> QED BY <1>2, <1>3, <1>4 DEF PoolInv

LEMMA PoolStep ==
  ASSUME PoolInv, NEW t \in Thread, Step(t)
  PROVE  PoolInv'
<1>1. TypeOK'
  BY PoolTypeStep DEF PoolInv
<1> USE DEF Closing
<1>2. TypeOK /\ FilesBacked /\ ClosersKeep /\ ClosersApart
  BY DEF PoolInv
<1>3. CASE CreateCheck(t)
  <2>1. \A u \in Thread : Closing(u)' => Closing(u) /\ UNCHANGED pc[u] /\ UNCHANGED want[u].object
    <3>1. CASE UNCHANGED <<want, pc>>
      BY <3>1
    <3>2. CASE /\ pc' = [pc EXCEPT ![t] = "create"]
               /\ \E r : want' = [want EXCEPT ![t].req = r]
      BY <1>2, <3>2 DEF TypeOK
    <3> QED BY <1>3, <3>1, <3>2 DEF CreateCheck
  <2> QED BY <1>1, <1>3, <2>1, PoolQuiet DEF CreateCheck
<1>4. CASE CreateNoMemory(t)
  BY <1>1, <1>2, <1>4, PoolQuiet DEF CreateNoMemory, Return, TypeOK
<1>5. CASE CreateNoPath(t)
  <2>1. chip' = chip
    <3>1. want[t].req.kind \in Kind
      BY <1>2 DEF TypeOK, Req
    <3> QED BY <1>5, <3>1, FirstFreeIsFree DEF CreateNoPath, Free
  <2> QED BY <1>1, <1>2, <1>5, <2>1, PoolQuiet DEF CreateNoPath, Return, TypeOK
<1>6. CASE CreateOpen(t)
  <2> DEFINE o == FirstFree(want[t].req.kind)
  <2>1. o \in Object /\ o \notin chip /\ o \notin path
    <3>1. want[t].req.kind \in Kind
      BY <1>2 DEF TypeOK, Req
    <3> QED BY <1>6, <3>1, FirstFreeIsFree DEF CreateOpen, Free, Pool
  <2>2. /\ chip' = chip \cup {o} /\ path' = path \cup {o}
        /\ fds' = [fds EXCEPT ![t] = @ \cup {o}]
    BY <1>6 DEF CreateOpen
  <2> HIDE DEF o
  <2>3. /\ \A u \in Thread : Closing(u)' =>
             Closing(u) /\ UNCHANGED pc[u] /\ UNCHANGED want[u].object
    BY <1>2, <1>6 DEF CreateOpen, Return, TypeOK
  <2>4. Held' = Held \cup {o}
    BY <1>2, <2>2 DEF Held, TypeOK
  <2>5. FilesBacked'
    BY <1>2, <2>1, <2>2, <2>4 DEF FilesBacked, TypeOK, Held
  <2>6. ClosersKeep'
    <3>1. \A q \in Object : q[1] \in Kind
      BY DEF Object, Kind
    <3>2. \A u \in Thread : Closing(u) => want[u].object # o
      BY <1>2, <2>1, <3>1 DEF ClosersKeep, Kind
    <3> QED BY <1>2, <2>2, <2>3, <2>4, <3>2 DEF ClosersKeep
  <2>7. ClosersApart'
    BY <1>2, <2>3 DEF ClosersApart
  <2> QED BY <1>1, <2>5, <2>6, <2>7 DEF PoolInv
<1>7. CASE CreateOpenFails(t)
  BY <1>1, <1>2, <1>7, PoolQuiet DEF CreateOpenFails, Return, TypeOK
<1>8. CASE SetConfig(t)
  BY <1>1, <1>2, <1>8, PoolQuiet DEF SetConfig, TypeOK
<1>9. CASE CloseLocked(t)
  <2>1. PICK o \in fds[t] :
          /\ fds' = [fds EXCEPT ![t] = @ \ {o}]
          /\ want' = [want EXCEPT ![t].object = o]
          /\ pc' = [pc EXCEPT ![t] = IF o[1] = "line" THEN "unregister" ELSE "free"]
    BY <1>9 DEF CloseLocked
  <2>2. UNCHANGED <<chip, path>>
    BY <1>9 DEF CloseLocked
  <2>3. o \in Object /\ o \in Held /\ o \in chip /\ o \in path
    BY <1>2 DEF TypeOK, FilesBacked, Held
  <2>4. Held' = Held \ {o}
    BY <1>2, <2>1 DEF Held, TypeOK, FilesBacked
  <2>5. FilesBacked'
    BY <1>2, <2>1, <2>2, <2>4 DEF FilesBacked, TypeOK
  <2>6. /\ pc'[t] # "unregister" \/ o[1] # "event"
        /\ want'[t].object = o
        /\ \A u \in Thread \ {t} : pc'[u] = pc[u] /\ want'[u] = want[u]
    BY <1>2, <2>1 DEF TypeOK
  <2>7. ClosersKeep'
    BY <1>2, <2>2, <2>3, <2>4, <2>6 DEF ClosersKeep
  <2>8. ClosersApart'
    BY <1>2, <2>3, <2>6 DEF ClosersApart, ClosersKeep
  <2> QED BY <1>1, <2>5, <2>7, <2>8 DEF PoolInv
<1>10. CASE CloseUnregister(t)
  <2> DEFINE o == want[t].object
  <2>1. /\ o \in Object \ Held
        /\ path' = path \ {o}
        /\ UNCHANGED <<chip, fds>>
    BY <1>2, <1>10 DEF CloseUnregister, ClosersKeep
  <2>2. Held' = Held
    BY <2>1 DEF Held
  <2>3. /\ \A u \in Thread \ {t} : pc'[u] = pc[u] /\ want'[u] = want[u]
        /\ \/ pc'[t] = "idle"
           \/ o[1] = "line" /\ pc'[t] = "free" /\ want'[t] = want[t]
    BY <1>2, <1>10 DEF CloseUnregister, CloseReturn, TypeOK
  <2>4. o \in chip \/ o[1] # "line"
    BY <1>2, <1>10 DEF CloseUnregister, ClosersKeep
  <2>5. FilesBacked'
    BY <1>2, <2>1, <2>2 DEF FilesBacked
  <2>6. \A u \in Thread \ {t} : Closing(u) => want[u].object # o
    BY <1>2, <1>10 DEF CloseUnregister, ClosersApart
  <2>7. ClosersKeep'
    BY <1>2, <2>1, <2>2, <2>3, <2>4, <2>6 DEF ClosersKeep
  <2>8. ClosersApart'
    BY <1>2, <1>10, <2>3 DEF ClosersApart, CloseUnregister
  <2> QED BY <1>1, <2>5, <2>7, <2>8 DEF PoolInv
<1>11. CASE CloseFree(t)
  <2> DEFINE o == want[t].object
  <2>1. /\ o \in Object \ Held
        /\ chip' = chip \ {o}
        /\ UNCHANGED <<path, fds>>
    BY <1>2, <1>11 DEF CloseFree, ClosersKeep
  <2>2. Held' = Held
    BY <2>1 DEF Held
  <2>3. /\ \A u \in Thread \ {t} : pc'[u] = pc[u] /\ want'[u] = want[u]
        /\ \/ pc'[t] = "idle"
           \/ o[1] # "line" /\ pc'[t] = "unregister" /\ want'[t] = want[t]
    BY <1>2, <1>11 DEF CloseFree, CloseReturn, TypeOK
  <2>4. FilesBacked'
    BY <1>2, <2>1, <2>2 DEF FilesBacked
  <2>5. \A u \in Thread \ {t} : Closing(u) => want[u].object # o
    BY <1>2, <1>11 DEF CloseFree, ClosersApart
  <2>6. o[1] = "event" => o \in path
    BY <1>2, <1>11 DEF CloseFree, ClosersKeep
  <2>7. ClosersKeep'
    BY <1>2, <2>1, <2>2, <2>3, <2>5, <2>6 DEF ClosersKeep
  <2>8. ClosersApart'
    BY <1>2, <1>11, <2>3 DEF ClosersApart, CloseFree
  <2> QED BY <1>1, <2>4, <2>7, <2>8 DEF PoolInv
<1> QED BY <1>3, <1>4, <1>5, <1>6, <1>7, <1>8, <1>9, <1>10, <1>11 DEF Step

\* gpio_line_close, gpio_event_close and the two create functions: for every
\* request that threads make, disjoint or not, a file refers to an allocated
\* object with a registered path, and no two files to the same object, although
\* unregister and free run outside of gpio_lock.
THEOREM FilesStayBacked == Spec => [](TypeOK /\ FilesBacked)
<1>1. PoolInv /\ [Next]_vars => PoolInv'
  <2> SUFFICES ASSUME PoolInv, [Next]_vars PROVE PoolInv'
    OBVIOUS
  <2>1. CASE Next
    BY <2>1, PoolStep DEF Next
  <2>2. CASE UNCHANGED vars
    BY <2>2, PoolQuiet DEF vars, PoolInv, TypeOK, Closing
  <2> QED BY <2>1, <2>2
<1>2. PoolInv => TypeOK /\ FilesBacked
  BY DEF PoolInv
<1> QED BY PoolInit, <1>1, <1>2, PTL DEF Spec

----------------------------------------------------------------------------
(***************************************************************************)
(* The pins, for threads that may all want the same ones but pass the test *)
(* of pin_mask in turn: the test is made before gpio_lock is taken, so it  *)
(* says nothing about a pin that another thread, past its own test, is     *)
(* about to mark.                                                          *)
(***************************************************************************)
\* A request that has passed the tests stays unmarked until its turn.
RequestsUnmarked ==
  \A t \in Thread : pc[t] = "create" =>
    /\ want[t].req.pins # {} /\ want[t].req.pins \subseteq Wants[t]
    /\ want[t].req.pins \cap pin_mask = {}
    /\ want[t].req.kind = "event" => want[t].req.dir = "in"

\* ... and no two such requests have a pin in common.
RequestsApart ==
  \A t, u \in Thread :
    t # u /\ pc[t] = "create" /\ pc[u] = "create" => want[t].req.pins \cap want[u].req.pins = {}

FilesOwnPins ==
  \A t \in Thread : \A o \in fds[t] :
    req[o].pins # {} /\ req[o].pins \subseteq Wants[t]

OwnInv ==
  /\ PoolInv /\ RequestsUnmarked /\ RequestsApart /\ FilesOwnPins
  /\ PinsExclusive /\ MaskIsOpenPins /\ EventPinsAreInputs

LEMMA MaskPointwise ==
  /\ MaskIsOpenPins <=> \A p : p \in pin_mask <=> \E o \in Held : p \in req[o].pins
  /\ MaskIsOpenPins' <=> \A p : p \in pin_mask' <=> \E o \in Held' : p \in req'[o].pins
BY DEF MaskIsOpenPins

\* A step that keeps files, marks and the requests of open handles.
LEMMA OwnQuiet ==
  ASSUME OwnInv, PoolInv', UNCHANGED <<fds, pin_mask>>,
         \A o \in Held : req'[o] = req[o],
         EventPinsAreInputs', RequestsUnmarked', RequestsApart'
  PROVE  OwnInv'
<1>1. Held' = Held
  BY DEF Held
<1>2. FilesOwnPins'
  <2>1. \A t \in Thread : fds[t] \subseteq Held
    BY DEF Held
  <2> QED BY <2>1 DEF OwnInv, FilesOwnPins
<1>3. PinsExclusive'
  BY <1>1 DEF OwnInv, PinsExclusive
<1>4. MaskIsOpenPins'
  BY <1>1, MaskPointwise DEF OwnInv
<1> QED BY <1>2, <1>3, <1>4 DEF OwnInv

LEMMA OwnInit == Init => OwnInv
<1> SUFFICES ASSUME Init PROVE OwnInv
  OBVIOUS
<1>1. Held = {}
  BY DEF Init, Held
<1>2. MaskIsOpenPins
  BY <1>1 DEF Init, MaskIsOpenPins
<1> QED BY <1>1, <1>2, PoolInit DEF OwnInv, Init, RequestsUnmarked, RequestsApart,
                                    FilesOwnPins, PinsExclusive, EventPinsAreInputs

\* CreateOpen takes a fresh object and marks pins nobody has.
LEMMA OwnOpen ==
  ASSUME OwnInv, PoolInv', NEW t \in Thread, CreateOpen(t)
  PROVE  OwnInv' /\ \E o \in Object \ Held :
           /\ fds' = [fds EXCEPT ![t] = @ \cup {o}]
           /\ req' = [req EXCEPT ![o] = want[t].req]
<1> DEFINE o == FirstFree(want[t].req.kind)
           r == want[t].req
<1>1. TypeOK /\ FilesBacked /\ RequestsUnmarked /\ RequestsApart /\ FilesOwnPins
  BY DEF OwnInv, PoolInv
<1>2. o \in Object /\ o \notin chip /\ o[1] = r.kind
  <2>1. want[t].req.kind \in Kind
    BY <1>1 DEF TypeOK, Req
  <2> QED BY <2>1, FirstFreeIsFree DEF CreateOpen, Free, Pool
<1>3. /\ fds' = [fds EXCEPT ![t] = @ \cup {o}]
      /\ req' = [req EXCEPT ![o] = r]
      /\ pin_mask' = pin_mask \cup r.pins
      /\ pin' = [p \in Pin |-> IF p \in r.pins THEN r.dir ELSE pin[p]]
      /\ pc[t] = "create" /\ pc' = [pc EXCEPT ![t] = "idle"]
      /\ \A u \in Thread \ {t} : want'[u] = want[u]
  BY <1>1 DEF CreateOpen, Return, TypeOK
<1>4. /\ r.pins # {} /\ r.pins \subseteq Wants[t] /\ r.pins \subseteq Pin
      /\ r.pins \cap pin_mask = {}
      /\ r.kind = "event" => r.dir = "in"
  BY <1>1, <1>3 DEF RequestsUnmarked, TypeOK, Req
<1> HIDE DEF o, r
<1>5. o \notin Held
  BY <1>1, <1>2 DEF FilesBacked
<1>6. Held' = Held \cup {o}
  BY <1>1, <1>3 DEF Held, TypeOK
<1>7. /\ req'[o] = r
      /\ \A q \in Held : req'[q] = req[q]
      /\ Held \subseteq Object
  BY <1>1, <1>2, <1>3, <1>5 DEF TypeOK, Held
<1>8. \A q \in Held : req[q].pins \subseteq pin_mask
  BY MaskPointwise DEF OwnInv
<1>9. RequestsUnmarked'
  <2> SUFFICES ASSUME NEW u \in Thread, pc'[u] = "create"
               PROVE  /\ want'[u].req.pins # {} /\ want'[u].req.pins \subseteq Wants[u]
                      /\ want'[u].req.pins \cap pin_mask' = {}
                      /\ want'[u].req.kind = "event" => want'[u].req.dir = "in"
    BY DEF RequestsUnmarked
  <2>1. u # t /\ pc[u] = "create" /\ want'[u] = want[u]
    BY <1>1, <1>3 DEF TypeOK
  <2>2. want[u].req.pins \cap r.pins = {}
    BY <1>1, <1>3, <2>1 DEF RequestsApart, r
  <2> QED BY <1>1, <1>3, <1>4, <2>1, <2>2 DEF RequestsUnmarked
<1>14. RequestsApart'
  <2>1. \A u \in Thread : pc'[u] = "create" => u # t /\ pc[u] = "create" /\ want'[u] = want[u]
    BY <1>1, <1>3 DEF TypeOK
  <2> QED BY <1>1, <2>1 DEF RequestsApart
<1>10. FilesOwnPins'
  <2>1. \A u \in Thread : fds[u] \subseteq Held
    BY DEF Held
  <2> QED BY <1>1, <1>3, <1>4, <1>7, <2>1 DEF FilesOwnPins, TypeOK
<1>11. PinsExclusive'
  BY <1>4, <1>6, <1>7, <1>8 DEF PinsExclusive, OwnInv
<1>12. MaskIsOpenPins'
  BY <1>3, <1>6, <1>7, MaskPointwise DEF OwnInv
<1>13. EventPinsAreInputs'
  <2> SUFFICES ASSUME NEW q \in Held', q[1] = "event", NEW p \in req'[q].pins
               PROVE  pin'[p] = "in"
    BY DEF EventPinsAreInputs
  <2>1. CASE q = o
    BY <1>2, <1>3, <1>4, <1>7, <2>1
  <2>2. CASE q # o
    <3>1. q \in Held /\ p \in req[q].pins /\ p \in Pin /\ p \notin r.pins
      BY <1>1, <1>4, <1>6, <1>7, <1>8, <2>2 DEF TypeOK, Req
    <3> QED BY <1>3, <3>1 DEF OwnInv, EventPinsAreInputs
  <2> QED BY <2>1, <2>2
<1> QED BY <1>2, <1>3, <1>5, <1>9, <1>10, <1>11, <1>12, <1>13, <1>14 DEF OwnInv, o, r

\* A close unmarks and disconnects the pins of its own handle only.
LEMMA OwnClose ==
  ASSUME OwnInv, PoolInv', NEW t \in Thread, CloseLocked(t)
  PROVE  OwnInv' /\ UNCHANGED req /\ \E o \in fds[t] : fds' = [fds EXCEPT ![t] = @ \ {o}]
<1>1. /\ TypeOK /\ FilesBacked /\ RequestsUnmarked /\ RequestsApart
      /\ FilesOwnPins /\ PinsExclusive
  BY DEF OwnInv, PoolInv
<1>2. PICK o \in fds[t] :
        /\ fds' = [fds EXCEPT ![t] = @ \ {o}]
        /\ pin_mask' = pin_mask \ req[o].pins
        /\ pin' = [p \in Pin |-> IF o[1] = "line" /\ p \in req[o].pins
                                   THEN "disconnected" ELSE pin[p]]
        /\ want' = [want EXCEPT ![t].object = o]
        /\ pc' = [pc EXCEPT ![t] = IF o[1] = "line" THEN "unregister" ELSE "free"]
  BY DEF CloseLocked
<1>3. UNCHANGED req
  BY DEF CloseLocked
<1>4. Held' = Held \ {o} /\ o \in Held
  BY <1>1, <1>2 DEF Held, TypeOK, FilesBacked
<1>5. \A q \in Held : q # o => req[q].pins \cap req[o].pins = {}
  BY <1>1, <1>4 DEF PinsExclusive
<1>6. RequestsUnmarked' /\ RequestsApart'
  <2>1. \A u \in Thread : pc'[u] = "create" => u # t /\ pc[u] = "create" /\ want'[u] = want[u]
    BY <1>1, <1>2 DEF TypeOK
  <2>2. RequestsUnmarked'
    BY <1>1, <1>2, <2>1 DEF RequestsUnmarked
  <2>3. RequestsApart'
    BY <1>1, <2>1 DEF RequestsApart
  <2> QED BY <2>2, <2>3
<1>7. FilesOwnPins'
  BY <1>1, <1>2, <1>3 DEF FilesOwnPins, TypeOK
<1>8. PinsExclusive'
  BY <1>1, <1>3, <1>4 DEF PinsExclusive
<1>9. MaskIsOpenPins'
  BY <1>2, <1>3, <1>4, <1>5, MaskPointwise DEF OwnInv
<1>10. EventPinsAreInputs'
  <2> SUFFICES ASSUME NEW q \in Held', q[1] = "event", NEW p \in req'[q].pins
               PROVE  pin'[p] = "in"
    BY DEF EventPinsAreInputs
  <2>1. q \in Held /\ p \in req[q].pins /\ p \in Pin /\ p \notin req[o].pins
    <3>1. Held \subseteq Object
      BY <1>1 DEF Held, TypeOK
    <3> QED BY <1>1, <1>3, <1>4, <1>5, <3>1 DEF TypeOK, Req
  <2> QED BY <1>2, <2>1 DEF OwnInv, EventPinsAreInputs
<1> QED BY <1>2, <1>3, <1>6, <1>7, <1>8, <1>9, <1>10 DEF OwnInv

\* Every other step keeps files, marks and the requests of open handles.
LEMMA OwnOther ==
  ASSUME OwnInv, PoolInv', NEW t \in Thread,
         Step(t), InTurn, ~CreateOpen(t), ~CloseLocked(t)
  PROVE  OwnInv' /\ UNCHANGED fds /\ \A o \in Held : req'[o] = req[o]
<1>1. /\ TypeOK /\ FilesBacked /\ ClosersKeep /\ RequestsUnmarked /\ RequestsApart
      /\ FilesOwnPins
  BY DEF OwnInv, PoolInv
<1>2. UNCHANGED <<fds, pin_mask>>
  BY DEF Step, CreateCheck, CreateNoMemory, CreateNoPath, CreateOpenFails, SetConfig,
         CloseUnregister, CloseFree
<1>3. \A o \in Held : req'[o] = req[o]
  <2>1. CASE CloseFree(t)
    <3>1. want[t].object \notin Held
      BY <1>1, <2>1 DEF ClosersKeep, CloseFree, Closing
    <3> QED BY <1>1, <2>1, <3>1 DEF CloseFree, TypeOK, Held
  <2>2. CASE ~CloseFree(t)
    BY <2>2 DEF Step, CreateCheck, CreateNoMemory, CreateNoPath, CreateOpenFails, SetConfig,
                CloseUnregister
  <2> QED BY <2>1, <2>2
<1>4. RequestsUnmarked' /\ RequestsApart'
  <2>1. ASSUME NEW u \in Thread, pc'[u] = "create", u # t \/ ~CreateCheck(t)
        PROVE  pc[u] = "create" /\ want'[u] = want[u]
    BY <1>1, <2>1 DEF TypeOK, Step, CreateCheck, CreateNoMemory, CreateNoPath, CreateOpenFails,
         SetConfig, CloseUnregister, CloseFree, Return, CloseReturn
  <2>2. ASSUME CreateCheck(t), pc'[t] = "create"
        PROVE  /\ want'[t].req.pins # {} /\ want'[t].req.pins \subseteq Wants[t]
               /\ want'[t].req.pins \cap pin_mask = {}
               /\ want'[t].req.kind = "event" => want'[t].req.dir = "in"
    <3>1. PICK kind \in Kind, f \in FlagSets, P \in SUBSET Wants[t] :
            /\ P # {} /\ PinsFree(P)
            /\ want' = [want EXCEPT ![t].req =
                          [kind |-> kind, pins |-> P, dir |-> DirectionOf(kind, f)]]
      BY <2>2 DEF CreateCheck, PinSets
    <3> QED BY <1>1, <3>1 DEF TypeOK, DirectionOf, PinsFree
  <2>3. RequestsUnmarked'
    BY <1>1, <1>2, <2>1, <2>2 DEF RequestsUnmarked
  <2>4. ASSUME CreateCheck(t), pc'[t] = "create", NEW u \in Thread \ {t}, pc'[u] = "create"
        PROVE  want'[t].req.pins \cap want'[u].req.pins = {}
    BY <2>1, <2>4 DEF InTurn, CreateCheck
  <2>5. RequestsApart'
    <3> SUFFICES ASSUME NEW v \in Thread, NEW u \in Thread, v # u,
                        pc'[v] = "create", pc'[u] = "create"
                 PROVE  want'[v].req.pins \cap want'[u].req.pins = {}
      BY DEF RequestsApart
    <3>1. CASE CreateCheck(t) /\ v = t
      BY <2>4, <3>1
    <3>2. CASE CreateCheck(t) /\ u = t
      BY <2>4, <3>2
    <3>3. CASE ~CreateCheck(t) \/ (v # t /\ u # t)
      BY <1>1, <2>1, <3>3 DEF RequestsApart
    <3> QED BY <3>1, <3>2, <3>3
  <2> QED BY <2>3, <2>5
<1>5. EventPinsAreInputs'
  <2> SUFFICES ASSUME NEW q \in Held, q[1] = "event", NEW p \in req[q].pins
               PROVE  pin'[p] = "in"
    BY <1>2, <1>3 DEF EventPinsAreInputs, Held
  <2>1. pin[p] = "in" /\ p \in Pin
    BY <1>1 DEF OwnInv, EventPinsAreInputs, TypeOK, Req, Held
  <2>2. CASE SetConfig(t)
    <3>1. PICK o \in fds[t], d \in Direction :
            /\ o[1] = "line"
            /\ pin' = [x \in Pin |-> IF x \in req[o].pins THEN d ELSE pin[x]]
      BY <2>2 DEF SetConfig
    <3>2. o \in Held /\ o # q
      BY <3>1 DEF Held
    <3>3. p \notin req[o].pins
      BY <3>2 DEF OwnInv, PinsExclusive
    <3> QED BY <2>1, <3>1, <3>3
  <2>3. CASE CreateOpenFails(t)
    BY <2>1, <2>3 DEF CreateOpenFails
  <2>4. CASE ~SetConfig(t) /\ ~CreateOpenFails(t)
    <3>1. UNCHANGED pin
      BY <2>4 DEF Step, CreateCheck, CreateNoMemory, CreateNoPath, CloseUnregister, CloseFree
    <3> QED BY <2>1, <3>1
  <2> QED BY <2>2, <2>3, <2>4
<1> QED BY <1>2, <1>3, <1>4, <1>5, OwnQuiet

LEMMA OwnNext == OwnInv /\ [Next /\ InTurn]_vars => OwnInv'
<1> SUFFICES ASSUME OwnInv, [Next /\ InTurn]_vars PROVE OwnInv'
  OBVIOUS
<1>1. CASE Next /\ InTurn
  <2>1. PICK t \in Thread : Step(t)
    BY <1>1 DEF Next
  <2>2. PoolInv'
    BY <2>1, PoolStep DEF OwnInv
  <2> QED BY <1>1, <2>1, <2>2, OwnOpen, OwnClose, OwnOther
<1>2. CASE UNCHANGED vars
  <2>1. PoolInv'
    BY <1>2, PoolQuiet DEF vars, OwnInv, PoolInv, TypeOK, Closing
  <2>2. EventPinsAreInputs' /\ RequestsUnmarked' /\ RequestsApart'
    BY <1>2 DEF vars, OwnInv, EventPinsAreInputs, RequestsUnmarked, RequestsApart, Held
  <2> QED BY <1>2, <2>1, <2>2, OwnQuiet DEF vars
<1> QED BY <1>1, <1>2

\* gpio_fs.c, creates and closes of threads that may want the same pins but do
\* not test the same one at the same time: files, objects, paths, pin_mask and
\* pin directions agree at every time; no pin stays marked after a close or a
\* failed open, none is unmarked while it is open.
THEOREM HandlesAgree == TurnSpec => []HandleInv
<1>1. OwnInv => HandleInv
  BY DEF OwnInv, PoolInv, HandleInv
<1> QED BY OwnInit, OwnNext, <1>1, PTL DEF TurnSpec

\* ... and no two open handles share a pin, also where several threads want it:
\* the two steps of the test and the mark are the only place where it goes wrong.
THEOREM HandlesApart == TurnSpec => []PinsExclusive
<1>1. OwnInv => PinsExclusive
  BY DEF OwnInv
<1> QED BY OwnInit, OwnNext, <1>1, PTL DEF TurnSpec

\* The owners are the pairs of a thread and the pins of one of its files.
OwnersIn(F, R) == {[thread |-> x[1], pins |-> R[x[2]].pins] :
                     x \in {y \in Thread \X Object : y[2] \in F[y[1]]}}

LEMMA OwnersOf ==
  ASSUME NEW F, NEW R, NEW h
  PROVE  h \in OwnersIn(F, R)
         <=> \E t \in Thread, o \in Object :
               o \in F[t] /\ h = [thread |-> t, pins |-> R[o].pins]
<1> DEFINE P == {y \in Thread \X Object : y[2] \in F[y[1]]}
<1>1. ASSUME NEW t \in Thread, NEW o \in Object, o \in F[t],
             h = [thread |-> t, pins |-> R[o].pins]
      PROVE  \E x \in P : h = [thread |-> x[1], pins |-> R[x[2]].pins]
  <2>1. <<t, o>> \in P
    BY <1>1
  <2> QED BY <1>1, <2>1
<1>2. ASSUME NEW x \in P, h = [thread |-> x[1], pins |-> R[x[2]].pins]
      PROVE  \E t \in Thread, o \in Object :
               o \in F[t] /\ h = [thread |-> t, pins |-> R[o].pins]
  BY <1>2
<1> HIDE DEF P
<1>3. h \in {[thread |-> x[1], pins |-> R[x[2]].pins] : x \in P}
      <=> \E x \in P : h = [thread |-> x[1], pins |-> R[x[2]].pins]
  OBVIOUS
<1>4. (\E x \in P : h = [thread |-> x[1], pins |-> R[x[2]].pins])
      <=> \E t \in Thread, o \in Object :
            o \in F[t] /\ h = [thread |-> t, pins |-> R[o].pins]
  BY <1>1, <1>2
<1> QED BY <1>3, <1>4, Zenon DEF P, OwnersIn

LEMMA OwnedIs ==
  /\ \A h : h \in Owned <=> \E t \in Thread, o \in Object :
        o \in fds[t] /\ h = [thread |-> t, pins |-> req[o].pins]
  /\ \A h : h \in Owned' <=> \E t \in Thread, o \in Object :
        o \in fds'[t] /\ h = [thread |-> t, pins |-> req'[o].pins]
<1>1. Owned = OwnersIn(fds, req) /\ Owned' = OwnersIn(fds', req')
  BY DEF Owned, OwnersIn
<1> QED BY <1>1, OwnersOf

\* An open acquires the pins of the new handle, a close releases those of the
\* closed one, and no other step touches what is owned.
LEMMA OwnedStep ==
  ASSUME OwnInv, NEW t \in Thread, Step(t), InTurn
  PROVE  Ownership!Next \/ UNCHANGED Owned
<1>1. TypeOK /\ FilesBacked /\ TypeOK' /\ PoolInv'
  BY PoolStep DEF OwnInv, PoolInv
<1>2. CASE CreateOpen(t)
  <2>1. OwnInv'
    BY <1>1, <1>2, OwnOpen
  <2>2. PICK o \in Object \ Held :
          /\ fds' = [fds EXCEPT ![t] = @ \cup {o}]
          /\ req' = [req EXCEPT ![o] = want[t].req]
    BY <1>1, <1>2, OwnOpen
  <2> DEFINE h == [thread |-> t, pins |-> req'[o].pins]
  <2>3. /\ o \in fds'[t] /\ o \in Held'
        /\ Held \subseteq Held' /\ Held \subseteq Object
        /\ \A q \in Held : req'[q] = req[q]
    BY <1>1, <2>2 DEF TypeOK, Held
  <2>4. h \in Ownership!Owners
    BY <1>1, <2>1, <2>3 DEF Ownership!Owners, OwnInv, FilesOwnPins, TypeOK, Req
  <2>5. \A g \in Owned : g.pins \cap h.pins = {}
    <3> SUFFICES ASSUME NEW g \in Owned PROVE g.pins \cap h.pins = {}
      OBVIOUS
    <3>1. PICK u \in Thread, q \in Object : q \in fds[u] /\ g = [thread |-> u, pins |-> req[q].pins]
      BY OwnedIs
    <3>2. q \in Held /\ q # o
      BY <2>2, <3>1 DEF Held
    <3> QED BY <2>1, <2>3, <3>1, <3>2 DEF OwnInv, PinsExclusive
  <2>6. Owned' = Owned \cup {h}
    <3>1. \A u \in Thread : fds[u] \subseteq Held
      BY DEF Held
    <3>2. \A u \in Thread, q \in Object :
            q \in fds'[u] <=> q \in fds[u] \/ (u = t /\ q = o)
      BY <1>1, <2>2 DEF TypeOK
    <3>3. ASSUME NEW g \in Owned' PROVE g \in Owned \cup {h}
      <4>1. PICK u \in Thread, q \in Object :
              q \in fds'[u] /\ g = [thread |-> u, pins |-> req'[q].pins]
        BY <3>3, OwnedIs
      <4> QED BY <2>3, <3>1, <3>2, <4>1, OwnedIs
    <3>4. ASSUME NEW g \in Owned PROVE g \in Owned'
      <4>1. PICK u \in Thread, q \in Object :
              q \in fds[u] /\ g = [thread |-> u, pins |-> req[q].pins]
        BY <3>4, OwnedIs
      <4> QED BY <2>3, <3>1, <3>2, <4>1, OwnedIs
    <3>5. h \in Owned'
      BY <2>2, <2>3, OwnedIs
    <3> QED BY <3>3, <3>4, <3>5
  <2> HIDE DEF h
  <2>7. Ownership!Acquire(h)
    BY <2>5, <2>6 DEF Ownership!Acquire
  <2> QED BY <2>4, <2>7 DEF Ownership!Next
<1>3. CASE CloseLocked(t)
  <2>1. UNCHANGED req
    BY <1>1, <1>3, OwnClose
  <2>2. PICK o \in fds[t] : fds' = [fds EXCEPT ![t] = @ \ {o}]
    BY <1>1, <1>3, OwnClose
  <2> DEFINE h == [thread |-> t, pins |-> req[o].pins]
  <2>3. o \in Object /\ o \in Held
    BY <1>1 DEF TypeOK, Held
  <2>4. h \in Ownership!Owners
    BY <1>1, <2>3 DEF Ownership!Owners, OwnInv, FilesOwnPins, TypeOK, Req
  <2>5. h \in Owned
    BY <2>3, OwnedIs
  <2>6. Owned' = Owned \ {h}
    <3>1. \A u \in Thread, q \in Object :
            q \in fds'[u] <=> q \in fds[u] /\ q # o
      BY <1>1, <2>2 DEF TypeOK, FilesBacked
    <3>2. ASSUME NEW g \in Owned' PROVE g \in Owned /\ g # h
      <4>1. PICK u \in Thread, q \in Object :
              q \in fds'[u] /\ g = [thread |-> u, pins |-> req[q].pins]
        BY <2>1, <3>2, OwnedIs
      <4>2. q \in fds[u] /\ q # o /\ q \in Held
        BY <3>1, <4>1 DEF Held
      <4>3. req[q].pins # {} /\ req[q].pins \cap req[o].pins = {}
        BY <2>3, <4>2 DEF OwnInv, FilesOwnPins, PinsExclusive
      <4>4. g \in Owned
        BY <4>1, <4>2, OwnedIs
      <4> QED BY <4>1, <4>3, <4>4
    <3>3. ASSUME NEW g \in Owned, g # h PROVE g \in Owned'
      <4>1. PICK u \in Thread, q \in Object :
              q \in fds[u] /\ g = [thread |-> u, pins |-> req[q].pins]
        BY <3>3, OwnedIs
      <4>2. q # o
        BY <1>1, <2>2, <3>3, <4>1 DEF FilesBacked
      <4> QED BY <2>1, <3>1, <4>1, <4>2, OwnedIs
    <3> QED BY <3>2, <3>3
  <2> HIDE DEF h
  <2>7. Ownership!Release(h)
    BY <2>5, <2>6 DEF Ownership!Release
  <2> QED BY <2>4, <2>7 DEF Ownership!Next
<1>4. CASE ~CreateOpen(t) /\ ~CloseLocked(t)
  <2>1. UNCHANGED fds /\ \A o \in Held : req'[o] = req[o]
    BY <1>1, <1>4, OwnOther
  <2>2. \A u \in Thread : fds[u] \subseteq Held
    BY DEF Held
  <2>3. \A h : h \in Owned' <=> h \in Owned
    BY <2>1, <2>2, OwnedIs
  <2>4. Owned \subseteq Owned' /\ Owned' \subseteq Owned
    BY <2>3
  <2> QED BY <2>4
<1> QED BY <1>2, <1>3, <1>4

\* gpio_fs.c, creates and closes of threads that may want the same pins but do
\* not test the same one at the same time: the handles implement exclusive
\* ownership of the pins, all of a handle's pins taken at once at its open and
\* given back at once at its close.
THEOREM HandlesOwnPins == TurnSpec => PinsAreOwned
<1>1. Init => Ownership!Init
  <2> SUFFICES ASSUME Init PROVE Owned = {}
    BY DEF Ownership!Init
  <2>1. \A h : h \notin Owned
    BY OwnedIs DEF Init
  <2> QED BY <2>1
<1>2. OwnInv /\ [Next /\ InTurn]_vars => [Ownership!Next]_Owned
  <2> SUFFICES ASSUME OwnInv, [Next /\ InTurn]_vars PROVE [Ownership!Next]_Owned
    OBVIOUS
  <2>1. CASE Next /\ InTurn
    BY <2>1, OwnedStep DEF Next
  <2>2. CASE UNCHANGED vars
    BY <2>2 DEF vars, Owned
  <2> QED BY <2>1, <2>2
<1> QED BY OwnInit, OwnNext, <1>1, <1>2, PTL DEF TurnSpec, PinsAreOwned, Ownership!Spec

----------------------------------------------------------------------------
(***************************************************************************)
(* One event file and its interrupt handler.                               *)
(***************************************************************************)
\* No lost wakeup, from wherever the reading thread may come back to poll: the
\* signal is reset only behind a test that has found a record.
SignalKept == reader \in {"idle", "poll", "update", "zero"} /\ rb # << >> => signal

EventFileInv ==
  /\ Event!TypeOK /\ SignalKept /\ Event!ClosedIsQuiet /\ Event!NewestTellsLevel
  /\ enabled <=> reader # "closed"
  /\ pending => EventFlags # {}

LEMMA EventInit == Event!Init => EventFileInv
<1> SUFFICES ASSUME Event!Init PROVE EventFileInv
  OBVIOUS
<1>1. rb \in Seq({"rising", "falling"}) /\ Len(rb) = 0
  BY EmptySeq DEF Event!Init
<1>2. 0 \in 0 .. MaxEdges /\ 0 <= GPIO_LINE_EVENT_DATA_MAX
  BY EventAssumption
<1>3. Event!TypeOK
  BY <1>1, <1>2, Zenon DEF Event!Init, Event!TypeOK
<1> QED BY <1>3 DEF Event!Init, EventFileInv, SignalKept, Event!ClosedIsQuiet,
                    Event!NewestTellsLevel

LEMMA IrqEdgeIsEdge ==
  ASSUME EventFileInv, pending
  PROVE  /\ Event!IrqEdge \in {"rising", "falling"}
         /\ EventFlags = {"rising", "falling"} => Event!IrqEdge = Event!EdgeTo[level]
<1>1. Event!EdgeTo[level] \in {"rising", "falling"}
  BY DEF EventFileInv, Event!TypeOK, Event!EdgeTo, Event!Level
<1>2. (CHOOSE e \in EventFlags : TRUE) \in {"rising", "falling"}
  BY EventAssumption DEF EventFileInv
<1> QED BY <1>1, <1>2 DEF Event!IrqEdge

LEMMA EventTypeStep ==
  ASSUME EventFileInv, Event!Next
  PROVE  Event!TypeOK'
<1> DEFINE R == {"rising", "falling"}
<1>1. rb \in Seq(R) /\ Len(rb) \in Nat /\ Len(rb) <= GPIO_LINE_EVENT_DATA_MAX
  BY LenProperties DEF EventFileInv, Event!TypeOK
<1> USE DEF Event!hw, Event!Reader
<1>2. level' \in Event!Level /\ edges' \in 0 .. MaxEdges
  <2>1. CASE Event!Edge
    BY <2>1, EventAssumption DEF EventFileInv, Event!TypeOK, Event!Level, Event!Edge
  <2>2. CASE UNCHANGED <<level, edges>>
    BY <2>2 DEF EventFileInv, Event!TypeOK
  <2> QED BY <2>1, <2>2 DEF Event!Next, Event!GpioIrq, Event!EventOpen, Event!EventClose,
             Event!PollPrepare, Event!PollReturns, Event!PollUpdate, Event!PollReset,
             Event!PollZero, Event!EventRead
<1>3. pending' \in BOOLEAN /\ enabled' \in BOOLEAN /\ signal' \in BOOLEAN
  BY Zenon DEF EventFileInv, Event!TypeOK, Event!Next, Event!Edge,
       Event!GpioIrq, Event!EventOpen, Event!EventClose, Event!PollPrepare, Event!PollReturns,
       Event!PollUpdate, Event!PollReset, Event!PollZero, Event!EventRead
<1>4. timed_out' \in BOOLEAN /\ overrun' \in BOOLEAN
  BY Zenon DEF EventFileInv, Event!TypeOK, Event!Next, Event!Edge,
       Event!GpioIrq, Event!EventOpen, Event!EventClose, Event!PollPrepare, Event!PollReturns,
       Event!PollUpdate, Event!PollReset, Event!PollZero, Event!EventRead
<1>5. reader' \in {"closed", "idle", "poll", "update", "reset", "zero", "read"}
  BY DEF EventFileInv, Event!TypeOK, Event!Next, Event!Edge,
       Event!GpioIrq, Event!EventOpen, Event!EventClose, Event!PollPrepare, Event!PollReturns,
       Event!PollUpdate, Event!PollReset, Event!PollZero, Event!EventRead
<1>6. /\ rb' \in Seq(R) /\ Len(rb') <= GPIO_LINE_EVENT_DATA_MAX
      /\ last' \in {"none", "rising", "falling"}
  <2>1. CASE Event!GpioIrq
    <3>1. Event!IrqEdge \in R
      BY <2>1, IrqEdgeIsEdge DEF Event!GpioIrq
    <3>2. Append(rb, Event!IrqEdge) \in Seq(R) /\ Len(Append(rb, Event!IrqEdge)) = Len(rb) + 1
      BY <1>1, <3>1, AppendProperties
    <3> QED BY <1>1, <2>1, <3>1, <3>2, EventAssumption
            DEF Event!GpioIrq, EventFileInv, Event!TypeOK
  <2>2. CASE Event!EventOpen \/ Event!EventClose
    <3>1. << >> \in Seq(R) /\ Len(<< >>) <= GPIO_LINE_EVENT_DATA_MAX
      BY EmptySeq, EventAssumption
    <3> QED BY <2>2, <3>1 DEF Event!EventOpen, Event!EventClose
  <2>3. CASE Event!EventRead
    <3>1. rb # << >> => Tail(rb) \in Seq(R) /\ Len(Tail(rb)) = Len(rb) - 1
      BY <1>1, HeadTailProperties
    <3> QED BY <1>1, <2>3, <3>1, EventAssumption
            DEF Event!EventRead, EventFileInv, Event!TypeOK
  <2>4. CASE UNCHANGED <<rb, last>>
    BY <1>1, <2>4 DEF EventFileInv, Event!TypeOK
  <2> QED BY <2>1, <2>2, <2>3, <2>4 DEF Event!Next, Event!Edge, Event!PollPrepare,
             Event!PollReturns, Event!PollUpdate, Event!PollReset, Event!PollZero
<1> QED BY <1>2, <1>3, <1>4, <1>5, <1>6 DEF Event!TypeOK

LEMMA EventStep == EventFileInv /\ [Event!Next]_(Event!vars) => EventFileInv'
<1> SUFFICES ASSUME EventFileInv, [Event!Next]_(Event!vars) PROVE EventFileInv'
  OBVIOUS
<1>1. CASE Event!Next
  <2>1. Event!TypeOK'
    BY <1>1, EventTypeStep
  <2>2. ASSUME Event!GpioIrq PROVE Append(rb, Event!IrqEdge) # << >>
    <3>1. Event!IrqEdge \in {"rising", "falling"} /\ rb \in Seq({"rising", "falling"})
      BY <2>2, IrqEdgeIsEdge DEF Event!GpioIrq, EventFileInv, Event!TypeOK
    <3> QED BY <3>1, AppendProperties
  <2> USE <1>1 DEF EventFileInv, Event!hw, Event!Reader, Event!Next, Event!Edge,
       Event!GpioIrq, Event!EventOpen, Event!EventClose, Event!PollPrepare, Event!PollReturns,
       Event!PollUpdate, Event!PollReset, Event!PollZero, Event!EventRead
  <2>3. SignalKept'
    BY <2>2, Zenon DEF SignalKept
  <2>4. (enabled <=> reader # "closed")'
    OBVIOUS
  <2>5. (pending => EventFlags # {})'
    OBVIOUS
  <2>6. Event!ClosedIsQuiet'
    BY DEF Event!ClosedIsQuiet
  <2>7. Event!NewestTellsLevel'
    <3>1. CASE Event!Edge
      BY <3>1 DEF Event!NewestTellsLevel, Event!EdgeTo, Event!TypeOK, Event!Level
    <3>2. CASE Event!GpioIrq
      BY <3>2, IrqEdgeIsEdge DEF Event!NewestTellsLevel, Event!EdgeTo
    <3>3. CASE ~Event!Edge /\ ~Event!GpioIrq
      BY <3>3 DEF Event!NewestTellsLevel
    <3> QED BY <3>1, <3>2, <3>3
  <2> QED BY <2>1, <2>3, <2>4, <2>5, <2>6, <2>7
<1>2. CASE UNCHANGED Event!vars
  BY <1>2 DEF Event!vars, Event!hw, EventFileInv, Event!TypeOK, SignalKept, Event!ClosedIsQuiet,
              Event!NewestTellsLevel
<1> QED BY <1>1, <1>2

\* gpio_irq, poll, gpio_event_read and gpio_event_close: wherever the interrupt
\* comes, no wakeup is lost and a closed file is quiet; for any edges asked for
\* and a ring of any size.
THEOREM NoWakeupLost == Event!Spec => []Event!EventInv
<1>1. EventFileInv => Event!EventInv
  BY DEF EventFileInv, SignalKept, Event!EventInv, Event!NoLostWakeup
<1> QED BY EventInit, EventStep, <1>1, PTL DEF Event!Spec

\* gpio_irq: asked for both edges, the newest record tells the level of the pin
\* once the interrupt has been served, for a ring of any size.
THEOREM NewestRecordTellsLevel == Event!Spec => []NewestTellsLevel
<1>1. EventFileInv => NewestTellsLevel
  BY DEF EventFileInv, NewestTellsLevel
<1> QED BY EventInit, EventStep, <1>1, PTL DEF Event!Spec
=============================================================================
