SPECIFICATION Spec
CONSTANTS
  Catalogs = {safe, drift}
  BadCatalog = bad
  Fingerprints = {own}
  Own = own
  None = none
  Missing = missing
  Torn = torn
  Wraps = {w1, w2}
  Commands = {}
  Flag = FALSE
  Http = FALSE
  Exclusive = FALSE
  Failures = FALSE
  MaxTokens = 1
  safe = safe
  drift = drift
  own = own
  other = other
  w1 = w1
  w2 = w2
  c1 = c1
INVARIANT OneTokenOnePromotion
