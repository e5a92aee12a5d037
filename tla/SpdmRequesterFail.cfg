\* A host that answers only what it is asked.
CONSTANT MaxEvents = 0
SPECIFICATION Spec
INVARIANT FailsOnlyAfterTimeout
CHECK_DEADLOCK FALSE
