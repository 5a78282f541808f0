SPECIFICATION Spec
CONSTANTS
  Catalogs = {safe, drift}
  BadCatalog = bad
  Fingerprints = {own, other}
  Own = own
  None = none
  Missing = missing
  Torn = torn
  Wraps = {w1}
  Commands = {c1}
  Flag = FALSE
  Http = TRUE
  Exclusive = TRUE
  Failures = FALSE
  MaxTokens = 2
  safe = safe
  drift = drift
  own = own
  other = other
  w1 = w1
  w2 = w2
  c1 = c1
SYMMETRY Symmetry
INVARIANT OneTokenOnePromotion
PROPERTIES BootstrapIsFirstPinOnly TamperedStaysShut ReapprovalTransition
