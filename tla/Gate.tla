-------------------------------- MODULE Gate --------------------------------
(***************************************************************************)
(* core.MemoryGate (core/gate.go) with its optional FileStore              *)
(* (core/store.go), the other processes that touch the pin file, and the   *)
(* callers of ResolveApproval, whose human answers while the gate's mutex  *)
(* is free.                                                                *)
(*                                                                         *)
(* Every method of the gate holds g.mu from its first to its last line, so *)
(* each is one step; ResolveApproval releases the mutex around             *)
(* RequestApproval, so it is two steps.  A tools/list snapshot is a member *)
(* of Catalogs, one per canonical hash; BadCatalog is a snapshot that      *)
(* HashCatalog refuses.  "pin-<n>" is the number n.                        *)
(***************************************************************************)
EXTENDS Integers

CONSTANTS
  Catalogs,      \* snapshots with a hash, one per Aggregate
  BadCatalog,    \* a snapshot with a blank or repeated tool name
  Fingerprints,  \* values of config_fingerprint
  None,          \* a nil *Pin, an empty fingerprint, no audit event
  Missing,       \* the pin file does not exist
  Tampered,      \* the pin file does not parse or fails VerifyPin
  Unreadable,    \* the pin file exists and os.ReadFile fails
  Callers,       \* goroutines that run ResolveApproval
  MaxSeq,        \* bound on g.seq: no mismatch is explored beyond it
  HasStore,      \* TRUE for NewFileGate, FALSE for NewMemoryGate
  LateInstall    \* TRUE if InstallInitialPin is called on a used gate

ASSUME SeqAssumption == MaxSeq \in Nat \ {0}
ASSUME FlagAssumption == HasStore \in BOOLEAN /\ LateInstall \in BOOLEAN
ASSUME CatalogAssumption == BadCatalog \notin Catalogs /\ None \notin Catalogs \union {BadCatalog}
ASSUME FingerprintAssumption == None \notin Fingerprints

\* core.Pin, with the fields Evaluate and ApplyApproval tell apart.
Pins == [ver : 1 .. MaxSeq, agg : Catalogs, fp : Fingerprints \union {None}]

\* What PinTools returns for a bad snapshot: a pin without a hash.
EmptyPins == [ver : 1 .. MaxSeq, agg : {BadCatalog}, fp : Fingerprints \union {None}]

ASSUME FileAssumption ==
  {None, Missing, Tampered, Unreadable} \intersect (Pins \union EmptyPins) = {}

VARIABLES
  pin,      \* g.pin
  pending,  \* g.pending.Candidate, None when g.pending is nil
  seq,      \* g.seq
  cfg,      \* the fingerprint of g.cfg, None while cfgArmed is false
  file,     \* the pin file: a pin, Missing, Tampered or Unreadable
  review,   \* caller -> the candidate its approver is looking at, or None
  last,     \* what the latest step decided, and the audit event it emitted
  granted   \* history: every catalog a person installed or approved

gate == <<pin, pending, seq, cfg>>
vars == <<pin, pending, seq, cfg, file, review, last, granted>>

Codes == {"OK", "DIFF_NONEMPTY", "tools_list_drift", "config_or_inventory_changed",
          "APPROVAL_PENDING", "APPROVAL_DENIED", "PIN_MISSING", "INTERNAL_ERROR"}

\* The audit record of an approval or a denial: hashes only.
Event(name, old, new) == [name |-> name, old |-> old, new |-> new]
Hash(p) == IF p = None THEN None ELSE p.agg

\* One decision: which operation took it, on which catalog, with what result.
Decision(op, live, code, event) == [op |-> op, live |-> live, code |-> code, event |-> event]
Silent(op) == Decision(op, None, "OK", None)

(***************************************************************************)
(* The pin store.                                                          *)
(***************************************************************************)

\* FileStore.Load: the pin, or None for each of its errors.
Load == IF file \in Pins THEN file ELSE None

\* The pin refreshFromStore leaves in force: the file's when there is a
\* store.  After an error Evaluate clears g.pin, so both are None.
InForce == IF HasStore THEN Load ELSE pin

\* Mutant of Save: VerifyPin is skipped.
SaveUnverified(p, result) == file' = IF result = "not_written" THEN file ELSE p

\* FileStore.Save: it writes nothing, replaces the file, or replaces it and
\* then fails in Chmod.  A pin that fails VerifyPin is never written.
SaveResults == {"saved", "not_written", "chmod_failed"}
Save(p, result) ==
  /\ result = "saved" => p \in Pins
  /\ result = "chmod_failed" => p \in Pins
  /\ file' = IF result = "not_written" THEN file ELSE p

(***************************************************************************)
(* The operations of the gate.                                             *)
(***************************************************************************)

SetConfig(f) ==
  /\ cfg' = f
  /\ last' = Silent("set_config")
  /\ UNCHANGED <<pin, pending, seq, file, review, granted>>

\* A gate that was already used is re-installed only by a LateInstall caller.
MayInstall == LateInstall \/ seq = 0

InstallSucceeds(p) ==
  /\ pin' = p /\ seq' = 1 /\ pending' = None
  /\ last' = Silent("install")

InstallFails ==
  /\ last' = Decision("install", None, "INTERNAL_ERROR", None)
  /\ UNCHANGED <<pin, pending, seq>>

\* ErrSilentRepin, an unreadable file, a failed Save, or the first pin.  The
\* person who called it granted p's catalog, whatever comes of it.
InstallInitialPin(p) ==
  /\ MayInstall
  /\ granted' = granted \union {p.agg}
  /\ \/ /\ pin # None \/ (HasStore /\ file \in Pins \union {Unreadable})
        /\ InstallFails /\ UNCHANGED file
     \/ /\ pin = None /\ HasStore /\ file \in {Missing, Tampered}
        /\ \E result \in SaveResults :
             /\ Save(p, result)
             /\ IF result = "saved" THEN InstallSucceeds(p) ELSE InstallFails
     \/ /\ pin = None /\ ~HasStore
        /\ InstallSucceeds(p) /\ UNCHANGED file
  /\ UNCHANGED <<cfg, review>>

\* CurrentPin: an error leaves g.pin as it is and returns nil.
CurrentPin ==
  /\ pin' = IF HasStore /\ Load = None THEN pin ELSE InForce
  /\ last' = Silent("current_pin")
  /\ UNCHANGED <<pending, seq, cfg, file, review, granted>>

(***************************************************************************)
(* Evaluate, one disjunct per return.                                      *)
(***************************************************************************)

Evaluated(live, code) == last' = Decision("evaluate", live, code, None)

EvaluateWithoutPin(live) ==
  /\ InForce = None
  /\ Evaluated(live, "PIN_MISSING")
  /\ UNCHANGED <<pending, seq>>

EvaluateWhilePending(live) ==
  /\ InForce # None /\ pending # None
  /\ Evaluated(live, "APPROVAL_PENDING")
  /\ UNCHANGED <<pending, seq>>

EvaluateBadCatalog(live) ==
  /\ InForce # None /\ pending = None
  /\ live = BadCatalog
  /\ Evaluated(live, "INTERNAL_ERROR")
  /\ UNCHANGED <<pending, seq>>

\* The fingerprints are compared only when both sides have one.
InventoryChanged == cfg # None /\ InForce.fp # None /\ cfg # InForce.fp

\* Mutant of EvaluateMatch: the listing is compared with the pin this process
\* remembers, as if refreshFromStore had not been called.
EvaluateMatchCached(live) ==
  /\ InForce # None /\ pending = None
  /\ live # BadCatalog /\ ~InventoryChanged
  /\ pin # None /\ live = pin.agg
  /\ Evaluated(live, "OK")
  /\ UNCHANGED <<pending, seq>>

EvaluateMatch(live) ==
  /\ InForce # None /\ pending = None
  /\ live # BadCatalog /\ ~InventoryChanged
  /\ live = InForce.agg
  /\ Evaluated(live, "OK")
  /\ UNCHANGED <<pending, seq>>

MismatchCode ==
  CASE InventoryChanged -> "config_or_inventory_changed"
    [] ~InventoryChanged /\ InForce.fp # None /\ cfg = InForce.fp -> "tools_list_drift"
    [] OTHER -> "DIFF_NONEMPTY"

\* Mutant of EvaluateMismatch: seq is given back as after a match, so the next
\* candidate takes the same revision.
EvaluateMismatchReuses(live) ==
  /\ InForce # None /\ pending = None
  /\ live # BadCatalog
  /\ InventoryChanged \/ live # InForce.agg
  /\ seq < MaxSeq
  /\ pending' = [ver |-> seq + 1, agg |-> live, fp |-> cfg]
  /\ Evaluated(live, MismatchCode)
  /\ UNCHANGED seq

\* Mutant of EvaluateMismatch: a new mismatch replaces the pending one.
EvaluateMismatchReplaces(live) ==
  /\ InForce # None
  /\ live # BadCatalog
  /\ InventoryChanged \/ live # InForce.agg
  /\ seq < MaxSeq
  /\ seq' = seq + 1
  /\ pending' = [ver |-> seq + 1, agg |-> live, fp |-> cfg]
  /\ Evaluated(live, MismatchCode)

\* The candidate takes the next number of this gate as its revision.
EvaluateMismatch(live) ==
  /\ InForce # None /\ pending = None
  /\ live # BadCatalog
  /\ InventoryChanged \/ live # InForce.agg
  /\ seq < MaxSeq
  /\ seq' = seq + 1
  /\ pending' = [ver |-> seq + 1, agg |-> live, fp |-> cfg]
  /\ Evaluated(live, MismatchCode)

\* refreshFromStore first: g.pin follows the file, and is cleared on an error.
Evaluate(live) ==
  /\ pin' = InForce
  /\ \/ EvaluateWithoutPin(live)
     \/ EvaluateWhilePending(live)
     \/ EvaluateBadCatalog(live)
     \/ EvaluateMatch(live)
     \/ EvaluateMismatch(live)
  /\ UNCHANGED <<cfg, file, review, granted>>

(***************************************************************************)
(* applyApproval(v, outcome, _), one disjunct per return.                  *)
(***************************************************************************)

Applied(cand, code, event) == last' = Decision("apply", cand, code, event)

\* Somebody else resolved the candidate first.
ApplyWithoutPending(approve) ==
  /\ pending = None
  /\ pin' = IF HasStore /\ Load = None THEN pin ELSE InForce
  /\ Applied(None, IF InForce = None THEN "PIN_MISSING"
                   ELSE IF approve THEN "INTERNAL_ERROR" ELSE "APPROVAL_DENIED", None)
  /\ UNCHANGED <<pending, file>>

\* Mutant of ApplyToOtherRevision: a stale answer drops the newer candidate.
ApplyToOtherRevisionDrops(v) ==
  /\ pending # None /\ v # pending.ver
  /\ pending' = None
  /\ Applied(pending.agg, "INTERNAL_ERROR", None)
  /\ UNCHANGED <<pin, file>>

ApplyToOtherRevision(v) ==
  /\ pending # None /\ v # pending.ver
  /\ Applied(pending.agg, "INTERNAL_ERROR", None)
  /\ UNCHANGED <<pin, pending, file>>

\* Mutant of Promote: the revision of the answer is not compared with the
\* pending one.
PromoteAnyRevision(v) ==
  /\ pending # None
  /\ pin' = pending
  /\ pending' = None
  /\ HasStore => \E result \in SaveResults : Save(pending, result)
  /\ ~HasStore => UNCHANGED file
  /\ Applied(pending.agg, "OK", None)

\* Mutant of Promote: "approved" is emitted without looking at Save's error.
PromoteEmitsEarly(v) ==
  /\ pending # None /\ v = pending.ver
  /\ pin' = pending
  /\ pending' = None
  /\ HasStore => \E result \in SaveResults : Save(pending, result)
  /\ ~HasStore => UNCHANGED file
  /\ Applied(pending.agg, "OK", Event("approved", Hash(pin), pending.agg))

\* The candidate is promoted in memory before it is saved; only a saved pin
\* emits "approved".  oldHash is g.pin's, which is not refreshed here.
Promote(v) ==
  /\ pending # None /\ v = pending.ver
  /\ pin' = pending
  /\ pending' = None
  /\ LET promoted == Applied(pending.agg, "OK", Event("approved", Hash(pin), pending.agg))
         unsaved  == Applied(pending.agg, "INTERNAL_ERROR", None)
     IN  \/ HasStore /\ \E result \in SaveResults :
              /\ Save(pending, result)
              /\ IF result = "saved" THEN promoted ELSE unsaved
         \/ ~HasStore /\ promoted /\ UNCHANGED file

\* Mutant of Refuse: the outcome is not looked at, the candidate is kept.
RefusePromotes(v) ==
  /\ pending # None /\ v = pending.ver
  /\ pin' = pending /\ pending' = None
  /\ Applied(pending.agg, "APPROVAL_DENIED", None)
  /\ UNCHANGED file

Refuse(v) ==
  /\ pending # None /\ v = pending.ver
  /\ pending' = None
  /\ Applied(pending.agg, "APPROVAL_DENIED", Event("denied", Hash(pin), Hash(pin)))
  /\ UNCHANGED <<pin, file>>

\* The caller's human looked at catalog seen and answered for revision v.
ApplyApproval(v, approve, seen) ==
  /\ granted' = IF approve THEN granted \union {seen} ELSE granted
  /\ \/ ApplyWithoutPending(approve)
     \/ ApplyToOtherRevision(v)
     \/ approve /\ Promote(v)
     \/ ~approve /\ Refuse(v)
  /\ UNCHANGED <<seq, cfg>>

(***************************************************************************)
(* ResolveApproval: snapshot the candidate, ask, apply.                    *)
(***************************************************************************)

\* With nothing pending, or without an approver, it returns at once.
ResolveReturns(r) ==
  /\ review[r] = None
  /\ last' = Decision("resolve", None,
                      IF pending = None THEN "INTERNAL_ERROR" ELSE "APPROVAL_PENDING", None)
  /\ UNCHANGED <<pin, pending, seq, cfg, file, review, granted>>

RequestApproval(r) ==
  /\ review[r] = None /\ pending # None
  /\ review' = [review EXCEPT ![r] = pending]
  /\ last' = Silent("request_approval")
  /\ UNCHANGED <<pin, pending, seq, cfg, file, granted>>

\* MapApproverResult: only the candidate's own version with no error is an
\* approval; a denial, a timeout and any other version are a denial.
Resolve(r, approve) ==
  /\ review[r] # None
  /\ ApplyApproval(review[r].ver, approve, review[r].agg)
  /\ review' = [review EXCEPT ![r] = None]

(***************************************************************************)
(* The environment: the pin file's other users, and the death of the       *)
(* process.                                                                *)
(***************************************************************************)

\* The file is deleted, damaged, or made unreadable.
LoseFile(state) ==
  /\ HasStore
  /\ file' = state
  /\ last' = Silent("environment")
  /\ UNCHANGED <<pin, pending, seq, cfg, review, granted>>

\* `deadbugz-guard approve` writes "pin-1" for the listing it was given.
OutOfBandApprove(c, f) ==
  /\ HasStore
  /\ file' = [ver |-> 1, agg |-> c, fp |-> f]
  /\ granted' = granted \union {c}
  /\ last' = Silent("environment")
  /\ UNCHANGED <<pin, pending, seq, cfg, review>>

\* A new process: NewFileGate or NewMemoryGate, nothing in flight.
FreshGate ==
  /\ pin' = None /\ pending' = None /\ seq' = 0 /\ cfg' = None
  /\ review' = [r \in Callers |-> None]
  /\ last' = Silent("restart")

Restart == FreshGate /\ UNCHANGED <<file, granted>>

\* The process dies inside an approval, after the rename in Save.
CrashAfterSave(r) ==
  /\ HasStore /\ review[r] # None
  /\ pending # None /\ review[r].ver = pending.ver
  /\ file' = pending
  /\ granted' = granted \union {review[r].agg}
  /\ FreshGate

Init ==
  /\ pin = None /\ pending = None /\ seq = 0 /\ cfg = None
  /\ file \in IF HasStore THEN {Missing, Tampered} \union Pins ELSE {Missing}
  /\ review = [r \in Callers |-> None]
  /\ last = Silent("restart")
  /\ granted = IF Load = None THEN {} ELSE {Load.agg}

Next ==
  \/ \E f \in Fingerprints : SetConfig(f)
  \/ \E p \in Pins \union EmptyPins : InstallInitialPin(p)
  \/ CurrentPin
  \/ \E live \in Catalogs \union {BadCatalog} : Evaluate(live)
  \/ \E r \in Callers :
       \/ ResolveReturns(r)
       \/ RequestApproval(r)
       \/ \E approve \in BOOLEAN : Resolve(r, approve)
       \/ CrashAfterSave(r)
  \/ \E state \in {Missing, Tampered, Unreadable} : LoseFile(state)
  \/ \E c \in Catalogs, f \in Fingerprints \union {None} : OutOfBandApprove(c, f)
  \/ Restart

Spec == Init /\ [][Next]_vars

(***************************************************************************)
(* Properties.                                                             *)
(***************************************************************************)

Hashes == Catalogs \union {BadCatalog, None}
Ops == {"set_config", "install", "current_pin", "evaluate", "apply", "resolve",
        "request_approval", "environment", "restart"}
Events == [name : {"approved", "denied"}, old : Hashes, new : Hashes]

\* Types of the gate's fields, the pin file and the history.
TypeOK ==
  /\ pin \in Pins \union EmptyPins \union {None}
  /\ pending \in Pins \union {None}
  /\ seq \in 0 .. MaxSeq
  /\ cfg \in Fingerprints \union {None}
  /\ file \in Pins \union {Missing, Tampered, Unreadable}
  /\ review \in [Callers -> Pins \union {None}]
  /\ last \in [op : Ops, live : Hashes, code : Codes, event : Events \union {None}]
  /\ granted \in SUBSET (Catalogs \union {BadCatalog})

\* The latest step was an Evaluate that let its listing through.
Opened == last.op = "evaluate" /\ last.code = "OK"

\* Evaluate (core/gate.go:136) opens only while nothing awaits a human, for
\* the very catalog in the pin that the store holds at that moment, and for
\* the pinned argv and env when both sides carry a fingerprint; what it opens
\* for was granted by a person at some point.
OpenOnlyForPinned ==
  Opened =>
    /\ pending = None
    /\ InForce # None /\ InForce.agg = last.live
    /\ ~InventoryChanged
    /\ last.live \in granted

\* An approver's answer names a revision; while that revision is pending it
\* names the very candidate the approver was shown, so an answer can never be
\* applied to a catalog nobody reviewed (SECURITY.md, approval binding).
ReviewBinding ==
  \A r \in Callers :
    (review[r] # None /\ pending # None /\ review[r].ver = pending.ver) => review[r] = pending

\* A caller hands in an answer for the very revision that is pending.
AnswersPending ==
  \E r \in Callers : review[r] # None /\ review[r].ver = pending.ver /\ review'[r] = None

\* A mismatch stays shut until an answer for that very revision is applied, a
\* first pin is installed or the process ends.  No Evaluate in between forgets
\* it or opens, even if the server goes back to the pinned listing, and the
\* late answer for another revision leaves it pending (core/gate.go:236).
MismatchLatches ==
  [][pending # None =>
       \/ pending' = pending /\ ~Opened'
       \/ last'.op = "apply" /\ AnswersPending
       \/ last'.op \in {"install", "restart"}]_vars

\* The audit event of an approval is emitted only for a pin that is in force
\* afterwards, with its hash as newHash; a denial names one hash as old and
\* new and leaves what is in force alone.
AuditTellsTheOutcome ==
  [][last'.event # None =>
       IF last'.event.name = "approved"
       THEN Hash(InForce)' = last'.event.new
       ELSE last'.event.old = last'.event.new /\ InForce' = InForce]_vars

\* The inductive invariant behind the properties above: revisions only grow,
\* so a revision in an approver's hands is never reused for another candidate,
\* and the pin in force is always a granted one.
PendingIsNewest == pending # None => pending.ver = seq
ReviewsNotNewer == \A r \in Callers : review[r] # None => review[r].ver <= seq
InForceGranted == InForce # None => InForce.agg \in granted

Inv ==
  /\ TypeOK
  /\ PendingIsNewest
  /\ ReviewsNotNewer
  /\ ReviewBinding
  /\ InForceGranted
  /\ OpenOnlyForPinned

\* The gate keeps the abstract promise: what is in force was granted, and
\* only what is in force is let through.
Abstract == INSTANCE TrustedPin WITH
  Catalogs <- Catalogs \union {BadCatalog},
  trusted  <- Hash(InForce),
  open     <- IF Opened THEN last.live ELSE None

ImplementsTrustedPin == Abstract!Spec
=============================================================================
