\* Two shell commands, one port change, an event ring of three TRBs.
CONSTANTS
  num_event = 3
  MaxCalls = 2
  MaxPortEvents = 1
SPECIFICATION FairSpec
INVARIANTS EventsInOrder OwnEvent ControlRecovered RoomInRings
PROPERTY WaitEnds
CHECK_DEADLOCK FALSE
