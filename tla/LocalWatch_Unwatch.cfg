\* unwatch() of the user's name leaves the watches propagated from it.
SPECIFICATION Spec
CONSTANTS
  t1 = t1  f1 = f1  f2 = f2  f3 = f3  c1 = c1  c2 = c2  x = x  y = y
  v1 = v1  v2 = v2  v3 = v3
  Threads = {t1}
  Fids = {f1, f2}
  Codes = {c1, c2}
  Names = {x, y}
  Vals = {v1, v2}
  Lines = {1}
  Params <- OneParam
  None = None
  MaxPend = 1
  MaxFrames = 2
  MaxOps = 1
SYMMETRY Symmetry
PROPERTY UnwatchSilences
CHECK_DEADLOCK FALSE
