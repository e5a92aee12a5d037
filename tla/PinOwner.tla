------------------------------ MODULE PinOwner ------------------------------
(***************************************************************************)
(* What the GPIO file system promises about the pins of a chip: a handle   *)
(* takes all the pins it asks for at once, only if all are free, and keeps *)
(* them to itself until it is closed.                                      *)
(***************************************************************************)
CONSTANTS Thread, Pin

VARIABLE owned    \* the pairs <<thread, set of pins>> of the open handles

Owners == [thread : Thread, pins : (SUBSET Pin) \ {{}}]

Init == owned = {}

Acquire(h) ==
  /\ \A g \in owned : g.pins \cap h.pins = {}
  /\ owned' = owned \cup {h}

Release(h) ==
  /\ h \in owned
  /\ owned' = owned \ {h}

Next == \E h \in Owners : Acquire(h) \/ Release(h)

Spec == Init /\ [][Next]_owned
=============================================================================
