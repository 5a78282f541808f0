SPECIFICATION Spec
CONSTANTS
  Catalogs = {safe, drift}
  BadCatalog = bad
  Fingerprints = {readOnly, allTools}
  None = none
  Missing = missing
  Tampered = tampered
  Unreadable = unreadable
  Callers = {r1, r2}
  MaxSeq = 3
  HasStore = TRUE
  LateInstall = FALSE
  safe = safe
  drift = drift
  readOnly = readOnly
  allTools = allTools
  r1 = r1
  r2 = r2
SYMMETRY Symmetry
INVARIANTS TypeOK OpenOnlyForPinned ReviewBinding
PROPERTIES MismatchLatches AuditTellsTheOutcome ImplementsTrustedPin
