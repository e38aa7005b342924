\* The same instance, without faults and with room for every hit.
SPECIFICATION Spec
CONSTANTS
  t1 = t1  t2 = t2  usr = usr  lib = lib  w1 = w1
  link = link  target = target
  Threads = {t1, t2}
  Codes = {usr, lib}
  Lines = {1, 2}
  File <- Filename
  Real <- RealPath
  User = {usr}
  Stacks <- SomeStacks
  NextLine <- After
  ByteNext <- ByBytecode
  Watches = {w1}
  MaxQueue = 2
  MaxHits = 2
  MaxFaults = 0
CHECK_DEADLOCK FALSE
INVARIANT NoPhantomTarget
