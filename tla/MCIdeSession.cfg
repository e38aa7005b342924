\* Two sessions, one watched expression, a modal dialog or a failure.
SPECIFICATION FairSpec
CONSTANTS
  x = x
  old = old
  MaxSessions = 2
  Persisted = {old}
  Names = {x}
  Objects = {}
  MaxPauses = 1
  MaxEvents = 1
  MaxMarks = 1
  MaxTroubles = 1
INVARIANTS TypeOK BreakpointEnds BreakpointStays MarkersFresh SyncedAgrees
PROPERTIES HighlightsEnd Decorates
CHECK_DEADLOCK FALSE
