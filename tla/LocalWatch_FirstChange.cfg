\* The change made by the line on which a local is watched is never reported.
SPECIFICATION Spec
CONSTANTS
  t1 = t1  f1 = f1  f2 = f2  f3 = f3  c1 = c1  c2 = c2  x = x  y = y
  v1 = v1  v2 = v2  v3 = v3
  Threads = {t1}
  Fids = {f1, f2}
  Codes = {c1, c2}
  Names = {x}
  Vals = {v1, v2}
  Lines = {1}
  Params <- OneParam
  None = None
  MaxPend = 1
  MaxFrames = 2
  MaxOps = 1
SYMMETRY Symmetry
PROPERTY FirstChangeReported
CHECK_DEADLOCK FALSE
