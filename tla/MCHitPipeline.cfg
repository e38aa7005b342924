\* Two threads arm up to two hits in two code objects of two lines each.
SPECIFICATION Spec
CONSTANTS
  t1 = t1  t2 = t2  usr = usr  lib = lib  w1 = w1
  link = link  target = target
  Threads = {t1, t2}
  Codes = {usr, lib}
  Lines = {1, 2}
  File <- Filename
  Real <- RealPath
  User = {usr}
  Stacks <- SomeStacks
  NextLine <- After
  ByteNext <- ByBytecode
  Watches = {w1}
  MaxQueue = 1
  MaxHits = 2
  MaxFaults = 1
SYMMETRY Symmetry
INVARIANTS TypeOK QueueBound SlotExclusive ReservationsReleased NoUntrackedBreakpoint
  PendingOwned
PROPERTY LeasesSlots
CHECK_DEADLOCK FALSE
