SPECIFICATION Spec
CONSTANTS
  Requests = {q1, q2}
  Idle = Idle
  NoEntry = NoEntry
  Raised <- RaisedByHandlers
  MaxTime = 3
  MaxRaised = 2
  MaxFiles = 2
  MaxFaults = 1
SYMMETRY RequestSymmetry
CHECK_DEADLOCK FALSE
INVARIANTS
  UnreadUntilRead
  UnreadCountHasReason
  AttachmentsAreStored
