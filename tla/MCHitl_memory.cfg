SPECIFICATION HitlSpec
CONSTANTS
  Catalogs = {safe, drift, poison}
  BadCatalog = bad
  Fingerprints = {}
  None = none
  Missing = missing
  Tampered = tampered
  Unreadable = unreadable
  Callers = {h1, h2}
  MaxSeq = 3
  HasStore = FALSE
  LateInstall = FALSE
  People = {alice}
  Timed = {h1}
  safe = safe
  drift = drift
  poison = poison
  readOnly = readOnly
  h1 = h1
  h2 = h2
  alice = alice
  bob = bob
INVARIANTS HitlTypeOK ShownIsListed NoStrandedCandidate
PROPERTIES AdvanceIsAnswered ReviewEnds ImplementsTrustedPin
