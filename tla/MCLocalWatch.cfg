\* Two frame ids, two code objects, one watched local: frames die without a
\* callback and their ids are reused, watches propagate and are removed.
SPECIFICATION Spec
CONSTANTS
  t1 = t1  f1 = f1  f2 = f2  f3 = f3  c1 = c1  c2 = c2  x = x  y = y
  v1 = v1  v2 = v2  v3 = v3
  Threads = {t1}
  Fids = {f1, f2}
  Codes = {c1, c2}
  Names = {x}
  Vals = {v1, v2}
  Lines = {1, 2}
  Params <- OneParam
  None = None
  MaxPend = 1
  MaxFrames = 2
  MaxOps = 1
SYMMETRY Symmetry
INVARIANTS TypeOK EventsCoverWatches NoInheritedWatch WatchHasBaseline
  NoSpuriousFire LineAttribution
PROPERTY ChangeReported
CHECK_DEADLOCK FALSE
