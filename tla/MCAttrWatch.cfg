\* Two threads, two objects that may refer to each other, one attribute.
SPECIFICATION Spec
CONSTANTS
  t1 = t1  t2 = t2  o1 = o1  o2 = o2
  Threads = {t1, t2}
  Objs = {o1, o2}
  Attrs <- OneAttr
  Scalars = {}
  Exprs <- SomeExprs
  Depth = 2
  MaxSubs = 1
  MaxWraps = 2
  MaxCalls = 3
  MaxWrites = 2
  MaxDeaths = 1
  Nil = Nil
  Plain = Plain
  NoObj = NoObj
  NoThread = NoThread
SYMMETRY Symmetry
INVARIANTS TypeOK LayerKept ChangeReported LayersOwned InstrumentedOnce WrapperKept
CHECK_DEADLOCK FALSE
