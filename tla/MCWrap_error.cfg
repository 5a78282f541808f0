SPECIFICATION Spec
CONSTANTS
  Catalogs = {safe, drift}
  None = none
  Plain = plain
  Garbage = garbage
  Lists = {r1}
  Calls = {call1}
  Changes = {changed1}
  Client = client
  SyncCap = 4
  PipeCap = 1
  safe = safe
  drift = drift
  r1 = r1
  call1 = call1
  call2 = call2
  changed1 = changed1
  changed2 = changed2
SYMMETRY Symmetry
INVARIANT HashBeforeForward
