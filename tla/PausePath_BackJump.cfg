\* A change in the last line of a function, after a try statement.
SPECIFICATION FairSpec
CONSTANTS
  Few = 0
  Many = 0
  Codes <- OneCode
  UserBps = {}
  MaxSets <- SomeSets
  MaxEntries = 1
  MaxHits = 1
  MaxFaults = 0
PROPERTY BackTargetExecutes
CHECK_DEADLOCK FALSE
