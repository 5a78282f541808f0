---------------------------- MODULE Gate_proofs ----------------------------
(***************************************************************************)
(* Proofs about Gate for any number of catalogs, fingerprints, callers and *)
(* revisions, with and without a pin file.                                 *)
(***************************************************************************)
EXTENDS Gate, TLAPS

USE SeqAssumption, FlagAssumption, CatalogAssumption, FingerprintAssumption, FileAssumption

\* Whatever answer comes for whatever revision, applyApproval keeps the types.
LEMMA ApplyTypes ==
  ASSUME TypeOK, NEW v, NEW approve \in BOOLEAN, NEW seen \in Catalogs \union {BadCatalog},
         ApplyApproval(v, approve, seen), review' \in [Callers -> Pins \union {None}]
  PROVE  TypeOK'
<1> USE DEF TypeOK, Silent, Decision, Ops, Hashes, Codes, Applied
<1>1. UNCHANGED <<seq, cfg>> /\ granted' \in SUBSET (Catalogs \union {BadCatalog})
  BY DEF ApplyApproval
<1>2. pending # None => pending.agg \in Catalogs
  BY DEF Pins
<1>3. Hash(pin) \in Hashes
  BY DEF Hash, Pins, EmptyPins
<1> USE <1>1, <1>2, <1>3
<1>4. CASE ApplyWithoutPending(approve)
  BY <1>4 DEF ApplyWithoutPending, InForce, Load
<1>5. CASE ApplyToOtherRevision(v)
  BY <1>5 DEF ApplyToOtherRevision
<1>6. CASE Promote(v)
  <2>1. pin' \in Pins /\ pending' = None
    BY <1>6 DEF Promote
  <2>2. file' \in Pins \union {Missing, Tampered, Unreadable}
    BY <1>6 DEF Promote, Save, SaveResults
  <2>3. last' \in [op : Ops, live : Hashes, code : Codes, event : Events \union {None}]
    BY <1>6 DEF Promote, Event, Events
  <2> QED
    BY <2>1, <2>2, <2>3
<1>7. CASE Refuse(v)
  BY <1>7 DEF Refuse, Event, Events
<1> QED
  BY <1>4, <1>5, <1>6, <1>7 DEF ApplyApproval

\* One step of the gate, of its callers or of its environment keeps the types.
LEMMA TypeStep == ASSUME TypeOK, [Next]_vars PROVE TypeOK'
<1> USE DEF TypeOK, Silent, Decision, Ops, Hashes, Codes
<1>1. ASSUME NEW f \in Fingerprints, SetConfig(f) PROVE TypeOK'
  BY <1>1 DEF SetConfig
<1>2. ASSUME NEW p \in Pins \union EmptyPins, InstallInitialPin(p) PROVE TypeOK'
  <2> USE <1>2 DEF InstallInitialPin, InstallSucceeds, InstallFails
  <2>1. p.agg \in Catalogs \union {BadCatalog}
    BY DEF Pins, EmptyPins
  <2>2. file' \in Pins \union {Missing, Tampered, Unreadable}
    BY DEF Save, SaveResults
  <2>3. pin' \in Pins \union EmptyPins \union {None} /\ pending' \in Pins \union {None}
    BY DEF Save, SaveResults
  <2>4. seq' \in 0 .. MaxSeq
    BY DEF Save, SaveResults
  <2>5. last' \in [op : Ops, live : Hashes, code : Codes, event : Events \union {None}]
    BY DEF Save, SaveResults
  <2> QED
    BY <2>1, <2>2, <2>3, <2>4, <2>5
<1>3. CASE CurrentPin
  BY <1>3 DEF CurrentPin, InForce, Load
<1>4. ASSUME NEW live \in Catalogs \union {BadCatalog}, Evaluate(live) PROVE TypeOK'
  <2> USE DEF Evaluated
  <2>1. pin' \in Pins \union EmptyPins \union {None}
    BY <1>4 DEF Evaluate, InForce, Load
  <2>2. UNCHANGED <<cfg, file, review, granted>>
    BY <1>4 DEF Evaluate
  <2>3. CASE EvaluateWithoutPin(live)
    BY <2>1, <2>2, <2>3 DEF EvaluateWithoutPin
  <2>4. CASE EvaluateWhilePending(live)
    BY <2>1, <2>2, <2>4 DEF EvaluateWhilePending
  <2>5. CASE EvaluateBadCatalog(live)
    BY <2>1, <2>2, <2>5 DEF EvaluateBadCatalog
  <2>6. CASE EvaluateMatch(live)
    BY <2>1, <2>2, <2>6 DEF EvaluateMatch
  <2>7. CASE EvaluateMismatch(live)
    <3>1. pending' \in Pins /\ seq' \in 0 .. MaxSeq
      BY <2>7 DEF EvaluateMismatch, Pins
    <3>2. MismatchCode \in Codes
      BY DEF MismatchCode
    <3> QED
      BY <2>1, <2>2, <2>7, <3>1, <3>2 DEF EvaluateMismatch
  <2> QED
    BY <1>4, <2>3, <2>4, <2>5, <2>6, <2>7 DEF Evaluate
<1>5. ASSUME NEW r \in Callers, ResolveReturns(r) PROVE TypeOK'
  BY <1>5 DEF ResolveReturns
<1>6. ASSUME NEW r \in Callers, RequestApproval(r) PROVE TypeOK'
  BY <1>6 DEF RequestApproval
<1>7. ASSUME NEW r \in Callers, NEW approve \in BOOLEAN, Resolve(r, approve) PROVE TypeOK'
  <2>1. review[r] \in Pins /\ review' \in [Callers -> Pins \union {None}]
    BY <1>7 DEF Resolve
  <2>2. review[r].agg \in Catalogs \union {BadCatalog}
    BY <2>1 DEF Pins
  <2> QED
    BY <1>7, <2>1, <2>2, ApplyTypes DEF Resolve
<1>8. ASSUME NEW r \in Callers, CrashAfterSave(r) PROVE TypeOK'
  BY <1>8 DEF CrashAfterSave, FreshGate, Pins
<1>9. ASSUME NEW state \in {Missing, Tampered, Unreadable}, LoseFile(state) PROVE TypeOK'
  BY <1>9 DEF LoseFile
<1>10. ASSUME NEW c \in Catalogs, NEW f \in Fingerprints \union {None}, OutOfBandApprove(c, f)
       PROVE TypeOK'
  BY <1>10 DEF OutOfBandApprove, Pins
<1>11. CASE Restart
  BY <1>11 DEF Restart, FreshGate
<1>12. CASE UNCHANGED vars
  BY <1>12 DEF vars
<1> QED
  BY <1>1, <1>2, <1>3, <1>4, <1>5, <1>6, <1>7, <1>8, <1>9, <1>10, <1>11, <1>12 DEF Next

\* Type correctness of the gate, its pin file and its callers: every method
\* of core/gate.go leaves well-formed pins behind, and no invalid pin is ever
\* in the file.
THEOREM TypeCorrect == Spec => []TypeOK
<1>1. Init => TypeOK
  BY DEF Init, TypeOK, Silent, Decision, Ops, Hashes, Codes, Load, Pins
<1>2. TypeOK /\ [Next]_vars => TypeOK'
  BY TypeStep
<1> QED
  BY <1>1, <1>2, PTL DEF Spec

\* What every step keeps of the history: a granted catalog stays granted.
LEMMA GrantedGrows ==
  ASSUME TypeOK, [Next]_vars
  PROVE  granted \subseteq granted'
BY DEF Next, vars, SetConfig, InstallInitialPin, CurrentPin, Evaluate, ResolveReturns,
       RequestApproval, Resolve, ApplyApproval, CrashAfterSave, LoseFile, OutOfBandApprove, Restart

\* Steps that leave the candidate, the counter and the reviews alone keep all
\* that Inv says of them.
LEMMA ReviewsKept ==
  ASSUME Inv, UNCHANGED <<pending, seq, review>>
  PROVE  PendingIsNewest' /\ ReviewsNotNewer' /\ ReviewBinding'
BY DEF Inv, PendingIsNewest, ReviewsNotNewer, ReviewBinding

\* Once nothing is pending, only the reviews' bound is left to keep.
LEMMA ReviewsBoundKept ==
  ASSUME Inv, pending' = None, seq' = seq,
         \A r \in Callers : review'[r] \in {review[r], None}
  PROVE  PendingIsNewest' /\ ReviewsNotNewer' /\ ReviewBinding'
BY DEF Inv, PendingIsNewest, ReviewsNotNewer, ReviewBinding

\* A fresh gate has nothing under review.
LEMMA FreshGateKept ==
  ASSUME FreshGate
  PROVE  PendingIsNewest' /\ ReviewsNotNewer' /\ ReviewBinding' /\ OpenOnlyForPinned'
BY DEF FreshGate, PendingIsNewest, ReviewsNotNewer, ReviewBinding, OpenOnlyForPinned, Opened,
       Silent, Decision

\* With no store the pin in force is g.pin; with one it is what Load returns.
LEMMA InForceFromFile ==
  ASSUME TypeOK, HasStore, file' \in Pins, file'.agg \in granted'
  PROVE  InForceGranted'
BY DEF TypeOK, InForceGranted, InForce, Load

LEMMA InForceUnchanged ==
  ASSUME Inv, granted \subseteq granted', file' = file, HasStore \/ pin' = pin
  PROVE  InForceGranted'
BY DEF Inv, InForceGranted, InForce, Load

\* applyApproval keeps the invariant when the answer that matches the pending
\* revision is about the pending catalog.
LEMMA ApplyKeeps ==
  ASSUME Inv, NEW v, NEW approve \in BOOLEAN, NEW seen, ApplyApproval(v, approve, seen),
         pending # None /\ v = pending.ver => seen = pending.agg,
         \A q \in Callers : review'[q] \in {review[q], None}
  PROVE  PendingIsNewest' /\ ReviewsNotNewer' /\ ReviewBinding' /\ InForceGranted' /\ OpenOnlyForPinned'
<1>0. /\ TypeOK /\ granted \subseteq granted'
      /\ granted' = IF approve THEN granted \union {seen} ELSE granted
      /\ UNCHANGED <<seq, cfg>>
  BY DEF ApplyApproval, Inv
<1>1. CASE ApplyWithoutPending(approve)
  <2>1. ~Opened' /\ file' = file /\ UNCHANGED pending /\ pending = None
    BY <1>1 DEF ApplyWithoutPending, Applied, Decision, Opened
  <2>2. HasStore \/ pin' = pin
    BY <1>1 DEF ApplyWithoutPending, InForce
  <2> QED
    BY <1>0, <2>1, <2>2, ReviewsBoundKept, InForceUnchanged DEF OpenOnlyForPinned
<1>2. CASE ApplyToOtherRevision(v)
  <2>1. ~Opened' /\ UNCHANGED <<pin, pending, file>>
    BY <1>2 DEF ApplyToOtherRevision, Applied, Decision, Opened
  <2>2. PendingIsNewest' /\ ReviewsNotNewer' /\ ReviewBinding'
    BY <1>0, <2>1 DEF Inv, PendingIsNewest, ReviewsNotNewer, ReviewBinding
  <2> QED
    BY <1>0, <2>1, <2>2, InForceUnchanged DEF OpenOnlyForPinned
<1>3. CASE approve /\ Promote(v)
  <2>1. pending \in Pins /\ pending.agg \in granted'
    BY <1>0, <1>3 DEF Promote, TypeOK
  <2>2. ~Opened' /\ pending' = None /\ pin' = pending
    BY <1>3 DEF Promote, Applied, Decision, Opened
  <2>3. InForceGranted'
    <3>1. CASE HasStore /\ file' = file
      BY <1>0, <3>1, InForceUnchanged
    <3>2. CASE HasStore /\ file' # file
      <4>1. file' = pending
        BY <1>3, <3>2 DEF Promote, Save, SaveResults
      <4> QED
        BY <1>0, <2>1, <3>2, <4>1, InForceFromFile
    <3>3. CASE ~HasStore
      BY <2>1, <2>2, <3>3 DEF InForceGranted, InForce
    <3> QED
      BY <3>1, <3>2, <3>3
  <2> QED
    BY <1>0, <2>2, <2>3, ReviewsBoundKept DEF OpenOnlyForPinned
<1>4. CASE ~approve /\ Refuse(v)
  <2>1. ~Opened' /\ pending' = None /\ UNCHANGED <<pin, file>>
    BY <1>4 DEF Refuse, Applied, Decision, Opened
  <2> QED
    BY <1>0, <2>1, ReviewsBoundKept, InForceUnchanged DEF OpenOnlyForPinned
<1> QED
  BY <1>1, <1>2, <1>3, <1>4 DEF ApplyApproval

\* Every step of the gate, of its callers and of its environment keeps the
\* invariant.
LEMMA InvStep == ASSUME ~LateInstall, Inv, [Next]_vars PROVE Inv'
<1> SUFFICES PendingIsNewest' /\ ReviewsNotNewer' /\ ReviewBinding'
               /\ InForceGranted' /\ OpenOnlyForPinned'
  BY TypeStep DEF Inv
<1> DEFINE Goal == PendingIsNewest' /\ ReviewsNotNewer' /\ ReviewBinding'
                     /\ InForceGranted' /\ OpenOnlyForPinned'
<1>0. TypeOK /\ granted \subseteq granted'
  BY GrantedGrows DEF Inv
<1>1. ASSUME NEW f \in Fingerprints, SetConfig(f) PROVE Goal
  <2>1. ~Opened'
    BY <1>1 DEF SetConfig, Opened, Silent, Decision
  <2> QED
    BY <1>0, <1>1, <2>1, ReviewsKept, InForceUnchanged DEF SetConfig, OpenOnlyForPinned
<1>2. ASSUME NEW p \in Pins \union EmptyPins, InstallInitialPin(p) PROVE Goal
  <2>1. seq = 0
    BY <1>2 DEF InstallInitialPin, MayInstall
  <2>2. \A r \in Callers : review[r] = None
    BY <2>1 DEF Inv, ReviewsNotNewer, TypeOK, Pins
  <2>3. \A r \in Callers : review'[r] = None
    BY <1>2, <2>2 DEF InstallInitialPin
  <2>4. ~Opened'
    BY <1>2 DEF InstallInitialPin, InstallSucceeds, InstallFails, Opened, Silent, Decision
  <2>5. PendingIsNewest'
    BY <1>2 DEF InstallInitialPin, InstallSucceeds, InstallFails, Inv, PendingIsNewest
  <2>6. InForceGranted'
    <3>1. CASE HasStore /\ file' = file
      BY <1>0, <3>1, InForceUnchanged
    <3>2. CASE HasStore /\ file' # file
      <4>1. file' = p /\ p \in Pins /\ p.agg \in granted'
        BY <1>2, <3>2 DEF InstallInitialPin, Save, SaveResults
      <4> QED
        BY <1>0, <3>2, <4>1, InForceFromFile
    <3>3. CASE ~HasStore
      BY <1>0, <1>2, <3>3 DEF InstallInitialPin, InstallSucceeds, InstallFails, InForceGranted, InForce, Inv
    <3> QED
      BY <3>1, <3>2, <3>3
  <2> QED
    BY <2>3, <2>4, <2>5, <2>6 DEF ReviewsNotNewer, ReviewBinding, OpenOnlyForPinned
<1>3. CASE CurrentPin
  <2>1. ~Opened'
    BY <1>3 DEF CurrentPin, Opened, Silent, Decision
  <2>2. HasStore \/ pin' = pin
    BY <1>3 DEF CurrentPin, InForce
  <2> QED
    BY <1>0, <1>3, <2>1, <2>2, ReviewsKept, InForceUnchanged DEF CurrentPin, OpenOnlyForPinned
<1>4. ASSUME NEW live \in Catalogs \union {BadCatalog}, Evaluate(live) PROVE Goal
  <2>1. pin' = InForce /\ UNCHANGED <<cfg, file, review, granted>>
    BY <1>4 DEF Evaluate
  <2>2. InForce' = InForce
    BY <2>1 DEF InForce, Load
  <2>3. InForceGranted'
    BY <2>1, <2>2 DEF Inv, InForceGranted
  <2>4. InventoryChanged' = InventoryChanged
    BY <2>1, <2>2 DEF InventoryChanged
  <2>5. CASE EvaluateMatch(live)
    <3>1. OpenOnlyForPinned'
      BY <2>1, <2>2, <2>4, <2>5 DEF EvaluateMatch, Evaluated, Decision, OpenOnlyForPinned, Inv, InForceGranted
    <3> QED
      BY <2>1, <2>3, <2>5, <3>1, ReviewsKept DEF EvaluateMatch
  <2>6. CASE EvaluateMismatch(live)
    <3>1. ~Opened'
      BY <2>6 DEF EvaluateMismatch, MismatchCode, Evaluated, Decision, Opened
    <3>2. seq \in Nat /\ seq' = seq + 1 /\ pending' # None /\ pending'.ver = seq + 1
      BY <1>0, <2>6 DEF EvaluateMismatch, TypeOK, Pins
    <3>3. \A r \in Callers : review'[r] # None => review'[r].ver \in Int /\ review'[r].ver <= seq
      BY <1>0, <2>1 DEF Inv, ReviewsNotNewer, TypeOK, Pins
    <3>4. PendingIsNewest' /\ ReviewsNotNewer' /\ ReviewBinding'
      BY <3>2, <3>3 DEF PendingIsNewest, ReviewsNotNewer, ReviewBinding
    <3> QED
      BY <2>3, <3>1, <3>4 DEF OpenOnlyForPinned
  <2>7. CASE EvaluateWithoutPin(live) \/ EvaluateWhilePending(live) \/ EvaluateBadCatalog(live)
    <3>1. ~Opened' /\ UNCHANGED <<pending, seq>>
      BY <2>7 DEF EvaluateWithoutPin, EvaluateWhilePending, EvaluateBadCatalog, Evaluated, Decision, Opened
    <3> QED
      BY <2>1, <2>3, <3>1, ReviewsKept DEF OpenOnlyForPinned
  <2> QED
    BY <1>4, <2>5, <2>6, <2>7 DEF Evaluate
<1>5. ASSUME NEW r \in Callers, ResolveReturns(r) PROVE Goal
  <2>1. ~Opened'
    BY <1>5 DEF ResolveReturns, Opened, Decision
  <2> QED
    BY <1>0, <1>5, <2>1, ReviewsKept, InForceUnchanged DEF ResolveReturns, OpenOnlyForPinned
<1>6. ASSUME NEW r \in Callers, RequestApproval(r) PROVE Goal
  <2>1. ~Opened'
    BY <1>6 DEF RequestApproval, Opened, Silent, Decision
  <2>2. UNCHANGED <<pin, pending, seq, cfg, file, granted>>
    BY <1>6 DEF RequestApproval
  <2>3. \A q \in Callers : review'[q] \in {review[q], pending}
    BY <1>0, <1>6 DEF RequestApproval, TypeOK
  <2>4. pending # None /\ pending.ver <= seq
    BY <1>0, <1>6 DEF RequestApproval, Inv, PendingIsNewest, TypeOK
  <2>5. PendingIsNewest' /\ ReviewsNotNewer' /\ ReviewBinding'
    BY <2>2, <2>3, <2>4 DEF Inv, PendingIsNewest, ReviewsNotNewer, ReviewBinding
  <2> QED
    BY <1>0, <2>1, <2>2, <2>5, InForceUnchanged DEF OpenOnlyForPinned
<1>7. ASSUME NEW r \in Callers, NEW approve \in BOOLEAN, Resolve(r, approve) PROVE Goal
  <2>1. \A q \in Callers : review'[q] \in {review[q], None}
    BY <1>0, <1>7 DEF Resolve, TypeOK
  <2>2. pending # None /\ review[r].ver = pending.ver => review[r].agg = pending.agg
    BY <1>7 DEF Resolve, Inv, ReviewBinding
  <2> QED
    BY <1>7, <2>1, <2>2, ApplyKeeps DEF Resolve
<1>8. ASSUME NEW r \in Callers, CrashAfterSave(r) PROVE Goal
  <2>1. review[r] = pending /\ pending \in Pins
    BY <1>0, <1>8 DEF CrashAfterSave, Inv, ReviewBinding, TypeOK
  <2>2. HasStore /\ file' \in Pins /\ file'.agg \in granted' /\ FreshGate
    BY <1>8, <2>1 DEF CrashAfterSave
  <2> QED
    BY <1>0, <2>2, FreshGateKept, InForceFromFile
<1>9. ASSUME NEW state \in {Missing, Tampered, Unreadable}, LoseFile(state) PROVE Goal
  <2>1. ~Opened' /\ UNCHANGED <<pending, seq, review>>
    BY <1>9 DEF LoseFile, Opened, Silent, Decision
  <2>2. InForceGranted'
    BY <1>9 DEF LoseFile, InForceGranted, InForce, Load
  <2> QED
    BY <2>1, <2>2, ReviewsKept DEF OpenOnlyForPinned
<1>10. ASSUME NEW c \in Catalogs, NEW f \in Fingerprints \union {None}, OutOfBandApprove(c, f)
       PROVE Goal
  <2>1. ~Opened' /\ UNCHANGED <<pending, seq, review>>
    BY <1>10 DEF OutOfBandApprove, Opened, Silent, Decision
  <2>2. InForceGranted'
    BY <1>10 DEF OutOfBandApprove, InForceGranted, InForce, Load
  <2> QED
    BY <2>1, <2>2, ReviewsKept DEF OpenOnlyForPinned
<1>11. CASE Restart
  <2>1. FreshGate /\ UNCHANGED <<file, granted>>
    BY <1>11 DEF Restart
  <2>2. InForceGranted'
    BY <2>1 DEF FreshGate, Inv, InForceGranted, InForce, Load
  <2> QED
    BY <2>1, <2>2, FreshGateKept
<1>12. CASE UNCHANGED vars
  <2>1. Opened' = Opened /\ InForce' = InForce /\ InventoryChanged' = InventoryChanged
    BY <1>12 DEF vars, Opened, InForce, Load, InventoryChanged
  <2> QED
    BY <1>0, <1>12, <2>1, ReviewsKept, InForceUnchanged DEF vars, Inv, OpenOnlyForPinned
<1> QED
  BY <1>1, <1>2, <1>3, <1>4, <1>5, <1>6, <1>7, <1>8, <1>9, <1>10, <1>11, <1>12 DEF Next

\* A new process starts in the invariant, whatever file it finds.
LEMMA GateInit == Init => Inv
<1> SUFFICES ASSUME Init PROVE Inv
  OBVIOUS
<1>1. TypeOK
  BY DEF Init, TypeOK, Silent, Decision, Ops, Hashes, Codes, Load, Pins
<1>2. PendingIsNewest /\ ReviewsNotNewer /\ ReviewBinding /\ OpenOnlyForPinned
  BY DEF Init, PendingIsNewest, ReviewsNotNewer, ReviewBinding, OpenOnlyForPinned, Opened, Silent, Decision
<1>3. InForceGranted
  BY DEF Init, InForceGranted, InForce
<1> QED
  BY <1>1, <1>2, <1>3 DEF Inv

\* The gate's inductive invariant, as long as InstallInitialPin is called on
\* a fresh gate only, as every caller in the repository does.
THEOREM Invariant == ASSUME ~LateInstall PROVE Spec => []Inv
<1>1. Init => Inv
  BY GateInit
<1>2. Inv /\ [Next]_vars => Inv'
  BY InvStep
<1> QED
  BY <1>1, <1>2, PTL DEF Spec

\* An answer never reaches a candidate its approver was not shown.
THEOREM ApprovalBinding == ASSUME ~LateInstall PROVE Spec => []ReviewBinding
<1>1. Inv => ReviewBinding
  BY DEF Inv
<1> QED
  BY <1>1, Invariant, PTL

\* Evaluate opens only for the granted pin in force, with nothing pending.
THEOREM FailClosed == ASSUME ~LateInstall PROVE Spec => []OpenOnlyForPinned
<1>1. Inv => OpenOnlyForPinned
  BY DEF Inv
<1> QED
  BY <1>1, Invariant, PTL

\* A detected mismatch is forgotten only by an answer for that revision, a
\* first pin or the end of the process.  It holds for late installs too.
THEOREM Latching == Spec => MismatchLatches
<1> DEFINE Latched ==
      pending # None =>
        \/ pending' = pending /\ ~Opened'
        \/ last'.op = "apply" /\ AnswersPending
        \/ last'.op \in {"install", "restart"}
<1>1. TypeOK /\ [Next]_vars => [Latched]_vars
  <2> SUFFICES ASSUME TypeOK, Next, pending # None PROVE Latched
    BY DEF Latched
  <2> USE DEF Silent, Decision, Opened
  <2>1. ASSUME NEW f \in Fingerprints, SetConfig(f) PROVE Latched
    BY <2>1 DEF SetConfig
  <2>2. ASSUME NEW p \in Pins \union EmptyPins, InstallInitialPin(p) PROVE Latched
    BY <2>2 DEF InstallInitialPin, InstallSucceeds, InstallFails
  <2>3. CASE CurrentPin
    BY <2>3 DEF CurrentPin
  <2>4. ASSUME NEW live \in Catalogs \union {BadCatalog}, Evaluate(live) PROVE Latched
    BY <2>4 DEF Evaluate, EvaluateWithoutPin, EvaluateWhilePending, EvaluateBadCatalog,
                EvaluateMatch, EvaluateMismatch, Evaluated
  <2>5. ASSUME NEW r \in Callers,
               ResolveReturns(r) \/ RequestApproval(r) \/ CrashAfterSave(r) PROVE Latched
    BY <2>5 DEF ResolveReturns, RequestApproval, CrashAfterSave, FreshGate
  <2>6. ASSUME NEW r \in Callers, NEW approve \in BOOLEAN, Resolve(r, approve) PROVE Latched
    <3>1. review[r] # None /\ review'[r] = None /\ last'.op = "apply"
      BY <2>6 DEF Resolve, TypeOK, ApplyApproval, ApplyWithoutPending, ApplyToOtherRevision, Promote,
                  Refuse, Applied
    <3>2. CASE review[r].ver = pending.ver
      BY <3>1, <3>2 DEF AnswersPending
    <3>3. CASE review[r].ver # pending.ver
      BY <2>6, <3>1, <3>3 DEF Resolve, ApplyApproval, ApplyWithoutPending, ApplyToOtherRevision,
                              Promote, Refuse
    <3> QED
      BY <3>2, <3>3
  <2>7. CASE (\E state \in {Missing, Tampered, Unreadable} : LoseFile(state))
             \/ (\E c \in Catalogs, f \in Fingerprints \union {None} : OutOfBandApprove(c, f))
    BY <2>7 DEF LoseFile, OutOfBandApprove
  <2>8. CASE Restart
    BY <2>8 DEF Restart, FreshGate
  <2> QED
    BY <2>1, <2>2, <2>3, <2>4, <2>5, <2>6, <2>7, <2>8 DEF Next
<1> QED
  BY <1>1, TypeCorrect, PTL DEF Spec, MismatchLatches

\* The audit event of an approval names the hash in force after it, and that of
\* a denial leaves what is in force alone; no other step emits an event.
THEOREM AuditOutcome == Spec => AuditTellsTheOutcome
<1> DEFINE Told ==
      last'.event # None =>
        IF last'.event.name = "approved"
        THEN Hash(InForce)' = last'.event.new
        ELSE last'.event.old = last'.event.new /\ InForce' = InForce
<1>1. TypeOK /\ [Next]_vars => [Told]_vars
  <2> SUFFICES ASSUME TypeOK, Next, last'.event # None PROVE Told
    OBVIOUS
  <2> USE DEF Silent, Decision
  <2>1. PICK v : Promote(v) \/ Refuse(v)
    <3>1. ASSUME NEW f \in Fingerprints, SetConfig(f) PROVE FALSE
      BY <3>1 DEF SetConfig
    <3>2. ASSUME NEW p \in Pins \union EmptyPins, InstallInitialPin(p) PROVE FALSE
      BY <3>2 DEF InstallInitialPin, InstallSucceeds, InstallFails
    <3>3. CurrentPin => FALSE
      BY DEF CurrentPin
    <3>4. ASSUME NEW live \in Catalogs \union {BadCatalog}, Evaluate(live) PROVE FALSE
      BY <3>4 DEF Evaluate, EvaluateWithoutPin, EvaluateWhilePending, EvaluateBadCatalog,
                  EvaluateMatch, EvaluateMismatch, Evaluated
    <3>5. ASSUME NEW r \in Callers, ResolveReturns(r) \/ RequestApproval(r) \/ CrashAfterSave(r)
          PROVE  FALSE
      BY <3>5 DEF ResolveReturns, RequestApproval, CrashAfterSave, FreshGate
    <3>6. ASSUME NEW state, LoseFile(state) PROVE FALSE
      BY <3>6 DEF LoseFile
    <3>7. ASSUME NEW c, NEW f, OutOfBandApprove(c, f) PROVE FALSE
      BY <3>7 DEF OutOfBandApprove
    <3>8. Restart => FALSE
      BY DEF Restart, FreshGate
    <3>9. PICK r \in Callers, approve \in BOOLEAN : Resolve(r, approve)
      BY <3>1, <3>2, <3>3, <3>4, <3>5, <3>6, <3>7, <3>8 DEF Next
    <3> QED
      BY <3>9 DEF Resolve, ApplyApproval, ApplyWithoutPending, ApplyToOtherRevision, Applied
  <2>2. CASE Promote(v)
    <3>1. pending \in Pins /\ pin' = pending
      BY <2>2 DEF Promote, TypeOK
    <3>2. last'.event = Event("approved", Hash(pin), pending.agg) /\ (HasStore => file' = pending)
      BY <2>2 DEF Promote, Applied, Save
    <3>3. InForce' = pending
      BY <3>1, <3>2 DEF InForce, Load
    <3> QED
      BY <3>1, <3>2, <3>3 DEF Event, Hash
  <2>3. CASE Refuse(v)
    <3>1. last'.event = Event("denied", Hash(pin), Hash(pin)) /\ InForce' = InForce
      BY <2>3 DEF Refuse, Applied, InForce, Load
    <3> QED
      BY <3>1 DEF Event
  <2> QED
    BY <2>1, <2>2, <2>3
<1> QED
  BY <1>1, TypeCorrect, PTL DEF Spec, AuditTellsTheOutcome

\* The four ways a step of the gate looks from outside.
LEMMA LooksClosed ==
  ASSUME ~Opened', granted' = granted, Hash(InForce)' = Hash(InForce)
  PROVE  Abstract!Close
BY DEF Abstract!Close

LEMMA LooksGranted ==
  ASSUME ~Opened', NEW c \in Catalogs \union {BadCatalog}, granted' = granted \union {c},
         Hash(InForce)' \in {Hash(InForce), c}
  PROVE  Abstract!Next
BY DEF Abstract!Next, Abstract!Grant

LEMMA LooksLost ==
  ASSUME ~Opened', granted' = granted, InForce' = None
  PROVE  Abstract!Lose
BY DEF Abstract!Lose, Hash

LEMMA LooksOpen ==
  ASSUME Opened', InForce # None, InForce.agg # None, granted' = granted, InForce' = InForce,
         last'.live = InForce.agg
  PROVE  Abstract!Open
BY DEF Abstract!Open, Hash

\* An answer looks like a grant or changes nothing, if the answer that matches
\* the pending revision is about the pending catalog.
LEMMA ApplyRefines ==
  ASSUME TypeOK, NEW v, NEW approve \in BOOLEAN, NEW seen \in Catalogs \union {BadCatalog},
         ApplyApproval(v, approve, seen),
         pending # None /\ v = pending.ver => seen = pending.agg
  PROVE  Abstract!Next
<1> USE DEF Decision, Opened
<1>1. granted' = IF approve THEN granted \union {seen} ELSE granted
  BY DEF ApplyApproval
<1>2. ~Opened'
  BY DEF ApplyApproval, ApplyWithoutPending, ApplyToOtherRevision, Promote, Refuse, Applied
<1>3. CASE ApplyWithoutPending(approve) \/ ApplyToOtherRevision(v) \/ (~approve /\ Refuse(v))
  <2>1. Hash(InForce)' = Hash(InForce)
    BY <1>3 DEF ApplyWithoutPending, ApplyToOtherRevision, Refuse, InForce, Load, Hash
  <2> QED
    BY <1>1, <1>2, <2>1, LooksClosed, LooksGranted DEF Abstract!Next
<1>4. CASE approve /\ Promote(v)
  <2>1. pending \in Pins /\ pending.agg = seen
    BY <1>4 DEF Promote, TypeOK
  <2>2. InForce' \in {InForce, pending}
    BY <1>4, <2>1 DEF Promote, Save, InForce, Load
  <2>3. Hash(InForce)' \in {Hash(InForce), seen}
    BY <2>1, <2>2 DEF Hash
  <2> QED
    BY <1>1, <1>2, <1>4, <2>3, LooksGranted
<1> QED
  BY <1>3, <1>4 DEF ApplyApproval

LEMMA AbstractInit == Init => Abstract!Init
BY DEF Init, Abstract!Init, Opened, Silent, Decision, Hash, InForce, Load, Pins

\* One step of the gate is one step of TrustedPin, or none.
LEMMA RefinementStep ==
  ASSUME Inv, [Next]_vars
  PROVE  [Abstract!Next]_(Abstract!vars)
<1> USE DEF Silent, Decision, Opened
<1>0. Inv /\ TypeOK
  BY DEF Inv
<1>1. ASSUME NEW f \in Fingerprints, SetConfig(f) PROVE Abstract!Next
  <2>1. Hash(InForce)' = Hash(InForce)
    BY <1>1 DEF SetConfig, InForce, Load, Hash
  <2> QED
    BY <1>1, <2>1, LooksClosed DEF SetConfig, Abstract!Next
<1>2. ASSUME NEW p \in Pins \union EmptyPins, InstallInitialPin(p) PROVE Abstract!Next
  <2>1. p.agg \in Catalogs \union {BadCatalog} /\ granted' = granted \union {p.agg}
    BY <1>2 DEF InstallInitialPin, Pins, EmptyPins
  <2>2. last'.op # "evaluate"
    BY <1>2 DEF InstallInitialPin, InstallSucceeds, InstallFails
  <2>3. InForce' \in {InForce, p}
    BY <1>2 DEF InstallInitialPin, InstallSucceeds, InstallFails, Save, InForce, Load
  <2>4. Hash(InForce)' \in {Hash(InForce), p.agg}
    BY <2>3 DEF Hash
  <2> QED
    BY <2>1, <2>2, <2>4, LooksGranted
<1>3. CASE CurrentPin
  <2>1. Hash(InForce)' = Hash(InForce)
    BY <1>3 DEF CurrentPin, InForce, Load, Hash
  <2> QED
    BY <1>3, <2>1, LooksClosed DEF CurrentPin, Abstract!Next
<1>4. ASSUME NEW live \in Catalogs \union {BadCatalog}, Evaluate(live) PROVE Abstract!Next
  <2>1. InForce' = InForce /\ granted' = granted
    BY <1>4 DEF Evaluate, InForce, Load
  <2>2. InForce # None => InForce.agg # None
    BY <1>0 DEF TypeOK, InForce, Load, Pins, EmptyPins
  <2>3. CASE Opened'
    <3>1. InForce # None /\ last'.live = InForce.agg
      BY <1>4, <2>3 DEF Evaluate, EvaluateWithoutPin, EvaluateWhilePending, EvaluateBadCatalog,
                        EvaluateMatch, EvaluateMismatch, MismatchCode, Evaluated
    <3> QED
      BY <2>1, <2>2, <2>3, <3>1, LooksOpen DEF Abstract!Next
  <2>4. CASE ~Opened'
    BY <2>1, <2>4, LooksClosed DEF Hash, Abstract!Next
  <2> QED
    BY <2>3, <2>4
<1>5. ASSUME NEW r \in Callers, ResolveReturns(r) \/ RequestApproval(r) PROVE Abstract!Next
  <2>1. Hash(InForce)' = Hash(InForce)
    BY <1>5 DEF ResolveReturns, RequestApproval, InForce, Load, Hash
  <2> QED
    BY <1>5, <2>1, LooksClosed DEF ResolveReturns, RequestApproval, Abstract!Next
<1>6. ASSUME NEW r \in Callers, NEW approve \in BOOLEAN, Resolve(r, approve) PROVE Abstract!Next
  <2>1. review[r] # None /\ review[r].agg \in Catalogs \union {BadCatalog}
    BY <1>0, <1>6 DEF Resolve, TypeOK, Pins
  <2>2. pending # None /\ review[r].ver = pending.ver => review[r].agg = pending.agg
    BY <2>1 DEF Inv, ReviewBinding
  <2> QED
    BY <1>0, <1>6, <2>1, <2>2, ApplyRefines DEF Resolve
<1>7. ASSUME NEW r \in Callers, CrashAfterSave(r) PROVE Abstract!Next
  <2>1. review[r] = pending /\ pending \in Pins
    BY <1>0, <1>7 DEF CrashAfterSave, Inv, ReviewBinding, TypeOK
  <2>2. ~Opened' /\ granted' = granted \union {pending.agg} /\ InForce' = pending
    BY <1>7, <2>1 DEF CrashAfterSave, FreshGate, InForce, Load
  <2>3. Hash(InForce)' = pending.agg /\ pending.agg \in Catalogs
    BY <1>7, <2>1, <2>2 DEF CrashAfterSave, Hash, Pins
  <2> QED
    BY <2>2, <2>3, LooksGranted
<1>8. ASSUME NEW state \in {Missing, Tampered, Unreadable}, LoseFile(state) PROVE Abstract!Next
  <2>1. InForce' = None
    BY <1>8 DEF LoseFile, InForce, Load
  <2> QED
    BY <1>8, <2>1, LooksLost DEF LoseFile, Abstract!Next
<1>9. ASSUME NEW c \in Catalogs, NEW f \in Fingerprints \union {None}, OutOfBandApprove(c, f)
      PROVE  Abstract!Next
  <2>1. InForce' \in {None, [ver |-> 1, agg |-> c, fp |-> f]} /\ HasStore /\ file' \in Pins
    BY <1>9 DEF OutOfBandApprove, InForce, Load, Pins
  <2>2. Hash(InForce)' = c
    BY <1>9, <2>1 DEF OutOfBandApprove, InForce, Load, Hash
  <2> QED
    BY <1>9, <2>2, LooksGranted DEF OutOfBandApprove
<1>10. CASE Restart
  <2>1. ~Opened' /\ granted' = granted /\ InForce' \in {InForce, None}
    BY <1>10 DEF Restart, FreshGate, InForce, Load
  <2> QED
    BY <2>1, LooksLost, LooksClosed DEF Hash, Abstract!Next
<1>11. CASE UNCHANGED vars
  BY <1>11 DEF vars, Abstract!vars, InForce, Load, Hash
<1> QED
  BY <1>1, <1>2, <1>3, <1>4, <1>5, <1>6, <1>7, <1>8, <1>9, <1>10, <1>11 DEF Next

\* The gate implements TrustedPin: every step opens for the trusted catalog,
\* closes, loses the pin or is a person's grant of the catalog that becomes
\* trusted.
THEOREM Refinement == ASSUME ~LateInstall PROVE Spec => ImplementsTrustedPin
<1>1. Init => Abstract!Init
  BY AbstractInit
<1>2. Inv /\ [Next]_vars => [Abstract!Next]_(Abstract!vars)
  BY RefinementStep
<1> QED
  BY <1>1, <1>2, Invariant, PTL DEF ImplementsTrustedPin, Abstract!Spec, Spec
=============================================================================
