\* One thread.  A watch on a whole object is installed and removed.
SPECIFICATION Spec
CONSTANTS
  t1 = t1  t2 = t2  o1 = o1  o2 = o2
  Threads = {t1}
  Objs = {o1, o2}
  Attrs <- OneAttr
  Scalars = {}
  Exprs <- SomeExprs
  Depth = 2
  MaxSubs = 1
  MaxWraps = 2
  MaxCalls = 3
  MaxWrites = 2
  MaxDeaths = 1
  Nil = Nil
  Plain = Plain
  NoObj = NoObj
  NoThread = NoThread
SYMMETRY Symmetry
INVARIANT OwnSwapSilent
CHECK_DEADLOCK FALSE
