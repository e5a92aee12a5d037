\* Threads that want the same pins, one or both, and pools small enough to run
\* out.  Both edges and a ring of two records, which runs full and wraps several
\* times.
CONSTANTS
  t1 = t1
  t2 = t2
  Thread = {t1, t2}
  Pin <- MCPin
  FlagSets <- MCFlagSets
  Wants <- SharedPins
  LineMax = 2
  EventMax = 1
  OpenFails = TRUE
  EventFlags = {"rising", "falling"}
  GPIO_LINE_EVENT_DATA_MAX = 2
  MaxEdges = 6
SPECIFICATION GpioSpec
INVARIANTS HandleInv NewestTellsLevel
PROPERTIES PinsAreOwned RecordsRead
