SPECIFICATION FairRunSpec
CONSTANTS
  Catalogs = {safe}
  None = none
  Plain = plain
  Garbage = garbage
  Noise = noise
  Lists = {}
  Calls = {call1}
  Changes = {changed1}
  Client = client
  SyncCap = 4
  PipeCap = 1
  safe = safe
  call1 = call1
  changed1 = changed1
\* Run may return, and nothing is left to do then.
CHECK_DEADLOCK FALSE
INVARIANTS RunTypeOK OwnAnswer AnswerComes NoCallLost GateHolds
PROPERTIES ExitEndsRun OnlyServerHolds CallsDecided
