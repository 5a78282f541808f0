SPECIFICATION HitlSpec
CONSTANTS
  Catalogs = {safe, drift}
  BadCatalog = bad
  Fingerprints = {readOnly}
  None = none
  Missing = missing
  Tampered = tampered
  Unreadable = unreadable
  Callers = {h1, h2}
  MaxSeq = 2
  HasStore = TRUE
  LateInstall = FALSE
  People = {alice}
  Timed = {h1}
  safe = safe
  drift = drift
  poison = poison
  readOnly = readOnly
  h1 = h1
  h2 = h2
  alice = alice
  bob = bob
INVARIANT ApprovedTookEffect
