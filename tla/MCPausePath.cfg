SPECIFICATION FairSpec
CONSTANTS
  Few = 0
  Many = 2
  Codes <- AllCodes
  UserBps <- SomeBps
  MaxSets <- SomeSets
  MaxEntries = 2
  MaxHits = 1
  MaxFaults = 1
INVARIANTS TypeOK RegisteredPatched SkipIsCurrent UserBreakpointKept
PROPERTIES TargetIsNext PauseComes
CHECK_DEADLOCK FALSE
