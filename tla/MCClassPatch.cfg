\* Two ids, a class and its base, three expressions, an object that dies and one
\* that gets its id, a class that refuses any patch, and one that refuses its old
\* __setattr__ once.
SPECIFICATION FairSpec
CONSTANTS
  t1 = t1  a1 = a1  a2 = a2  base = base  derived = derived
  sealed = sealed
  f = f  any = any  e1 = e1  e2 = e2  e3 = e3
  Threads = {t1}
  Addrs = {a1, a2}
  Classes = {base, derived, sealed}
  Mro <- TwoClasses
  Own = {base}
  Refusing = {sealed}
  Attrs = {f}
  Vals <- Numbers
  Exprs = {e1, e2, e3}
  KeyOf <- KeysOfExprs
  Wildcard = any
  None = None
  MaxObjects = 2
  MaxCalls = 3
  MaxWrites = 2
  MaxFaults = 1
INVARIANTS TypeOK PatchedWhileWatched EntryKept UnwatchedSilent
PROPERTIES ChangeReported WritesEnd
CHECK_DEADLOCK FALSE
