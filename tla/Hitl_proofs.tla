---------------------------- MODULE Hitl_proofs ----------------------------
(***************************************************************************)
(* Proofs about Hitl for any number of hooks, people, catalogs and         *)
(* revisions, with and without a pin file.  A hook uses the gate through   *)
(* Evaluate, CurrentPin and ApplyApproval only, so the lemmas of           *)
(* Gate_proofs on those carry over.                                        *)
(***************************************************************************)
EXTENDS Hitl, Gate_proofs

USE PeopleAssumption, SeqAssumption, CatalogAssumption, FingerprintAssumption, FileAssumption

(***************************************************************************)
(* What a step of Hitl is for the gate.                                    *)
(***************************************************************************)

\* The hooks apply answers; all else they and the others do is a step of Gate.
GateStep == [Next]_vars
HookApplies(r) == HookAlone(r) \/ HookApply(r)

LEMMA GateSteps ==
  ASSUME [HitlNext]_<<vars, hitl>>
  PROVE  GateStep \/ \E r \in Callers : HookApplies(r)
<1> USE DEF GateStep, HookApplies
<1>1. GateRests => UNCHANGED vars
  BY DEF GateRests, vars
<1>2. ASSUME NEW r \in Callers, HookRuns(r) PROVE GateStep \/ HookApplies(r)
  BY <1>1, <1>2 DEF HookRuns, HookGoesOn, HookBlocked, HookCandidate, HookOld, HookAsk, HookAnswered,
     HookTimedOut, HookRecord, Next
<1>3. ASSUME NEW r \in Callers, NEW live \in Catalogs \union {BadCatalog}, HookEvaluate(r, live)
      PROVE  GateStep
  BY <1>3 DEF HookEvaluate, Next
<1>4. ASSUME Environment PROVE GateStep
  BY <1>4 DEF Environment, Next
<1>5. ASSUME HitlRestart PROVE GateStep
  BY <1>5 DEF HitlRestart, Next
<1>6. ASSUME NEW p, OtherRequestEnds(p) PROVE GateStep
  BY <1>1, <1>6 DEF OtherRequestEnds
<1>7. ASSUME NEW r, NEW approve, NEW p, Decide(r, approve, p) PROVE GateStep
  BY <1>1, <1>7 DEF Decide
<1> QED
  BY <1>2, <1>3, <1>4, <1>5, <1>6, <1>7 DEF HitlNext, vars

\* The fields of a hook take only their own values.
LEMMA HookEdits ==
  ASSUME NEW h \in Hooks, NEW step \in HookSteps
  PROVE  /\ [h EXCEPT !.at = step] \in Hooks
         /\ \A cand \in Pins \union {None} : [h EXCEPT !.at = step, !.cand = cand] \in Hooks
         /\ \A old \in Catalogs \union {BadCatalog, None} : [h EXCEPT !.old = old, !.at = step] \in Hooks
         /\ \A approve \in BOOLEAN, p \in People :
              [h EXCEPT !.at = step, !.approve = approve, !.by = p] \in Hooks
         /\ \A code \in Codes : [h EXCEPT !.at = step, !.code = code] \in Hooks
BY DEF Hooks

\* So does a hook that starts to wait for the gate's mutex again.
LEMMA HookStarts ==
  /\ Free \in Hooks
  /\ [Free EXCEPT !.at = "blocked"] \in Hooks
  /\ \A live \in Catalogs : [Free EXCEPT !.at = "candidate", !.live = live] \in Hooks
BY DEF Free, Hooks, HookSteps, Codes

\* A reviewed code means that this very step numbered the listing.
LEMMA ReviewedIsMismatch ==
  ASSUME TypeOK, NEW live \in Catalogs \union {BadCatalog}, Evaluate(live), last'.code \in Reviewed
  PROVE  /\ pending = None /\ pending' # None /\ live # BadCatalog
         /\ pending' = [ver |-> seq + 1, agg |-> live, fp |-> cfg]
         /\ seq' = seq + 1
<1>1. CASE EvaluateMismatch(live)
  <2>1. [ver |-> seq + 1, agg |-> live, fp |-> cfg] \in Pins
    <3>1. live \in Catalogs /\ cfg \in Fingerprints \union {None} /\ seq + 1 \in 1 .. MaxSeq
      BY <1>1 DEF EvaluateMismatch, TypeOK
    <3> QED
      BY <3>1 DEF Pins
  <2>2. None \notin Pins
    BY DEF Pins
  <2> QED
    BY <1>1, <2>1, <2>2 DEF EvaluateMismatch
<1>2. CASE EvaluateWithoutPin(live) \/ EvaluateWhilePending(live) \/ EvaluateBadCatalog(live)
           \/ EvaluateMatch(live)
  BY <1>2 DEF EvaluateWithoutPin, EvaluateWhilePending, EvaluateBadCatalog, EvaluateMatch,
     Evaluated, Decision, Reviewed
<1> QED
  BY <1>1, <1>2 DEF Evaluate

(***************************************************************************)
(* Types.                                                                  *)
(***************************************************************************)

\* The gate keeps its types under the hooks: what they apply is the candidate
\* they hold.
LEMMA GateTypes ==
  ASSUME HitlInv, [HitlNext]_<<vars, hitl>>
  PROVE  TypeOK'
<1> USE DEF HitlInv, HitlTypeOK
<1>1. ASSUME NEW r \in Callers, HookApplies(r) PROVE TypeOK'
  <2>1. hook[r] \in Hooks /\ hook[r].at \in {"ask", "apply"}
    BY <1>1 DEF HookApplies, HookAlone, HookApply
  <2>2. hook[r].cand \in Pins /\ hook[r].approve \in BOOLEAN
    BY <2>1 DEF CandidateBinding, Hooks
  <2>3. hook[r].cand.agg \in Catalogs \union {BadCatalog}
    BY <2>2 DEF Pins
  <2>4. review' \in [Callers -> Pins \union {None}]
    BY <1>1 DEF HookApplies, HookAlone, HookApply, TypeOK
  <2>5. PICK approve \in BOOLEAN : ApplyApproval(hook[r].cand.ver, approve, hook[r].cand.agg)
    BY <1>1, <2>2 DEF HookApplies, HookAlone, HookApply
  <2> QED
    BY <2>3, <2>4, <2>5, ApplyTypes
<1>2. CASE GateStep
  BY <1>2, TypeStep DEF GateStep
<1> QED
  BY <1>1, <1>2, GateSteps

\* One step of a hook, of a person or of the environment keeps the types.
LEMMA HitlTypeStep ==
  ASSUME HitlInv, [HitlNext]_<<vars, hitl>>
  PROVE  HitlTypeOK'
<1> USE DEF HitlTypeOK, NoLine
<1>0. HitlTypeOK /\ TypeOK /\ TypeOK'
  BY GateTypes DEF HitlInv
<1> DEFINE Rest == /\ hook' \in [Callers -> Hooks]
                   /\ box' \in [Callers -> Answers \union {None}]
                   /\ who' \in People \union {None}
                   /\ line' \in Lines \union {None}
<1>1. last'.code \in Codes
  BY <1>0 DEF TypeOK
<1>2. Hash(InForce) \in Hashes
  BY <1>0 DEF TypeOK, Hash, InForce, Load, Hashes, Pins, EmptyPins
<1>3. ASSUME NEW r \in Callers, NEW live \in Catalogs \union {BadCatalog}, HookEvaluate(r, live)
      PROVE  Rest
  <2>1. last'.code \in Reviewed => live \in Catalogs
    BY <1>0, <1>3, ReviewedIsMismatch DEF HookEvaluate
  <2>2. hook' \in [Callers -> Hooks]
    BY <1>0, <1>3, <2>1, HookStarts DEF HookEvaluate
  <2> QED
    BY <1>0, <1>3, <2>2 DEF HookEvaluate
<1>4. ASSUME NEW r \in Callers, NEW approve \in BOOLEAN, NEW p \in People, Decide(r, approve, p)
      PROVE  Rest
  <2>1. [approve |-> approve, who |-> p] \in Answers
    BY DEF Answers
  <2> QED
    BY <1>0, <1>4, <2>1 DEF Decide
<1>5. ASSUME NEW r \in Callers, HookRuns(r) PROVE Rest
  <2>0. /\ hook[r] \in Hooks /\ Free \in Hooks
        /\ \A h \in Hooks : [hook EXCEPT ![r] = h] \in [Callers -> Hooks]
        /\ [box EXCEPT ![r] = None] \in [Callers -> Answers \union {None}]
    BY <1>0, HookStarts
  <2>1. CASE HookBlocked(r)
    BY <1>0, <2>0, <2>1 DEF HookBlocked
  <2>2. CASE HookCandidate(r)
    <3>1. [hook[r] EXCEPT !.at = "old", !.cand = pending] \in Hooks
      BY <1>0, <2>0, HookEdits DEF TypeOK, HookSteps
    <3> QED
      BY <1>0, <2>0, <2>2, <3>1 DEF HookCandidate
  <2>3. CASE HookOld(r)
    <3>1. \A old \in Hashes : [hook[r] EXCEPT !.old = old, !.at = "ask"] \in Hooks
      BY <2>0, HookEdits DEF HookSteps, Hashes
    <3>2. [hook EXCEPT ![r].old = Hash(InForce), ![r].at = "ask"] =
            [hook EXCEPT ![r] = [hook[r] EXCEPT !.old = Hash(InForce), !.at = "ask"]]
      BY <1>0
    <3>3. [hook EXCEPT ![r].old = Hash(InForce), ![r].at = "ask"] \in [Callers -> Hooks]
      BY <1>2, <2>0, <3>1, <3>2
    <3> QED
      BY <1>0, <2>3, <3>3 DEF HookOld
  <2>4. CASE HookAsk(r) \/ HookTimedOut(r)
    <3>1. \A step \in HookSteps : [hook EXCEPT ![r].at = step] \in [Callers -> Hooks]
      BY <1>0, <2>0, HookEdits
    <3> QED
      BY <1>0, <2>0, <2>4, <3>1 DEF HookAsk, HookTimedOut, HookSteps
  <2>5. CASE HookAlone(r)
    <3>1. hook[r].old \in Hashes
      BY <2>0 DEF Hooks, Hashes
    <3>2. [name |-> "denied", old |-> hook[r].old, new |-> hook[r].old, who |-> None,
           code |-> last'.code, by |-> None] \in Lines
      BY <1>1, <3>1 DEF Lines
    <3> QED
      BY <1>0, <2>0, <2>5, <3>2 DEF HookAlone
  <2>6. CASE HookAnswered(r)
    <3>1. box[r] \in Answers
      BY <1>0, <2>6 DEF HookAnswered
    <3>2. box[r].approve \in BOOLEAN /\ box[r].who \in People
      BY <3>1 DEF Answers
    <3>3. [hook[r] EXCEPT !.at = "apply", !.approve = box[r].approve, !.by = box[r].who] \in Hooks
      BY <2>0, <3>2, HookEdits DEF HookSteps
    <3> QED
      BY <1>0, <2>0, <2>6, <3>2, <3>3 DEF HookAnswered
  <2>7. CASE HookApply(r)
    <3>1. [hook EXCEPT ![r].at = "record", ![r].code = last'.code] \in [Callers -> Hooks]
      BY <1>0, <1>1, <2>0, HookEdits DEF HookSteps
    <3> QED
      BY <1>0, <2>7, <3>1 DEF HookApply
  <2>8. CASE HookRecord(r)
    <3>1. /\ hook[r].old \in Hashes /\ hook[r].code \in Codes
          /\ hook[r].by \in People \union {None}
      BY <2>0 DEF Hooks, Hashes
    <3>2. line' \in Lines
      BY <1>0, <1>2, <2>8, <3>1 DEF HookRecord, Lines
    <3> QED
      BY <1>0, <2>0, <2>8, <3>2 DEF HookRecord
  <2> QED
    BY <1>5, <2>1, <2>2, <2>3, <2>4, <2>5, <2>6, <2>7, <2>8 DEF HookRuns, HookGoesOn
<1>6. ASSUME NEW p \in People \union {None}, OtherRequestEnds(p) PROVE Rest
  BY <1>0, <1>6 DEF OtherRequestEnds
<1>7. CASE Environment /\ NoLine /\ UNCHANGED <<hook, box, who>>
  BY <1>0, <1>7
<1>8. CASE HitlRestart
  BY <1>0, <1>8, HookStarts DEF HitlRestart
<1>9. CASE UNCHANGED <<vars, hitl>>
  BY <1>0, <1>9 DEF hitl
<1> QED
  BY <1>0, <1>3, <1>4, <1>5, <1>6, <1>7, <1>8, <1>9 DEF HitlNext

(***************************************************************************)
(* The hands the candidate is in.                                          *)
(***************************************************************************)

\* What HitlInv says beyond the types and the gate's own invariant.
Hands == /\ CandidateIsListed /\ OneInHand /\ CandidateBinding /\ OnlyPeopleApprove
         /\ ShownIsListed /\ NoStrandedCandidate

\* A step that leaves the hooks and the candidate alone changes nothing.
LEMMA HandsKept ==
  ASSUME Hands, UNCHANGED <<hook, pending, seq>>
  PROVE  Hands'
BY DEF Hands, CandidateIsListed, OneInHand, CandidateBinding, OnlyPeopleApprove, ShownIsListed,
       NoStrandedCandidate, InHand

\* A hook that moves on holds what it held, unless it had nothing in hand.
LEMMA HandsMove ==
  ASSUME HitlInv, NEW r \in Callers, NEW h \in Hooks, hook' = [hook EXCEPT ![r] = h],
         UNCHANGED <<pending, seq>>,
         h.at # "candidate",
         InHand(r) <=> h.at \in {"old", "ask", "wait", "apply"} /\ h.cand = pending,
         h.at \in {"old", "ask", "wait", "apply"} =>
           /\ h.cand # None /\ h.cand.ver <= seq
           /\ pending # None /\ h.cand.ver = pending.ver => h.cand = pending,
         h.at \in {"old", "ask", "wait"} => ~h.approve,
         h.at = "apply" /\ h.approve => h.by # None,
         h.cand # None => h.cand.agg = h.live
  PROVE  Hands'
<1>1. /\ hook \in [Callers -> Hooks] /\ hook'[r] = h
      /\ \A q \in Callers : q # r => hook'[q] = hook[q]
  BY DEF HitlInv, HitlTypeOK
<1>2. \A q \in Callers : InHand(q)' <=> InHand(q)
  BY <1>1 DEF InHand
<1>3. OneInHand' /\ NoStrandedCandidate'
  BY <1>2 DEF HitlInv, OneInHand, NoStrandedCandidate
<1>4. CandidateIsListed' /\ ShownIsListed'
  BY <1>1 DEF HitlInv, CandidateIsListed, ShownIsListed
<1>5. CandidateBinding'
  BY <1>1 DEF HitlInv, CandidateBinding
<1>6. OnlyPeopleApprove'
  BY <1>1 DEF HitlInv, OnlyPeopleApprove
<1> QED
  BY <1>3, <1>4, <1>5, <1>6 DEF Hands

\* The hook that found the mismatch is the only one with the candidate in hand:
\* nothing was pending before, and the revisions the others hold are older.
LEMMA EvaluateHands ==
  ASSUME HitlInv, NEW r \in Callers, NEW live \in Catalogs \union {BadCatalog},
         HookEvaluate(r, live)
  PROVE  Hands'
<1>0. /\ hook \in [Callers -> Hooks] /\ TypeOK /\ hook[r] \in Hooks
      /\ hook[r].at = "idle" /\ ~InHand(r) /\ Free \in Hooks
  BY HookStarts DEF HitlInv, HitlTypeOK, HookEvaluate, InHand
<1>1. CASE last'.code \in Reviewed
  <2>1. /\ pending = None /\ live # BadCatalog /\ seq' = seq + 1 /\ seq \in Nat
        /\ pending' # None /\ pending'.ver = seq + 1 /\ pending'.agg = live
    BY <1>0, <1>1, ReviewedIsMismatch DEF HookEvaluate, TypeOK
  <2>2. hook' = [hook EXCEPT ![r] = [Free EXCEPT !.at = "candidate", !.live = live]]
    BY <1>1 DEF HookEvaluate, Reviewed
  <2>3. /\ hook'[r].at = "candidate" /\ hook'[r].live = live /\ hook'[r].cand = None
        /\ \A q \in Callers : q # r => hook'[q] = hook[q]
    BY <1>0, <2>2 DEF Free
  <2>4. \A q \in Callers : hook[q].at # "candidate"
    BY <2>1 DEF HitlInv, CandidateIsListed
  <2>5. \A q \in Callers : hook[q].at \in {"old", "ask", "wait", "apply"} =>
          /\ hook[q].cand # None /\ hook[q].cand.ver \in Nat /\ hook[q].cand.ver <= seq
    BY <1>0 DEF HitlInv, CandidateBinding, Hooks, Pins
  <2>6. \A q \in Callers : InHand(q)' <=> q = r
    BY <2>1, <2>3, <2>4, <2>5 DEF InHand
  <2>7. OneInHand' /\ NoStrandedCandidate'
    BY <2>6 DEF OneInHand, NoStrandedCandidate
  <2>8. CandidateIsListed' /\ ShownIsListed'
    BY <2>1, <2>3, <2>4 DEF HitlInv, CandidateIsListed, ShownIsListed
  <2>9. CandidateBinding'
    BY <2>1, <2>3, <2>5 DEF CandidateBinding
  <2>10. OnlyPeopleApprove'
    BY <1>0, <2>2, <2>3 DEF HitlInv, OnlyPeopleApprove, Free
  <2> QED
    BY <2>7, <2>8, <2>9, <2>10 DEF Hands
<1>2. CASE last'.code \notin Reviewed
  <2>1. UNCHANGED <<pending, seq>>
    <3>1. ~EvaluateMismatch(live)
      BY <1>2 DEF EvaluateMismatch, MismatchCode, Evaluated, Decision, Reviewed
    <3> QED
      BY <3>1 DEF HookEvaluate, Evaluate, EvaluateWithoutPin, EvaluateWhilePending,
         EvaluateBadCatalog, EvaluateMatch
  <2>2. PICK h \in {Free, [Free EXCEPT !.at = "blocked"]} : hook' = [hook EXCEPT ![r] = h]
    BY <1>2 DEF HookEvaluate
  <2>3. h \in Hooks
    BY <2>2, HookStarts
  <2>4. Free.at = "idle" /\ Free.cand = None /\ [Free EXCEPT !.at = "blocked"].at = "blocked"
        /\ [Free EXCEPT !.at = "blocked"].cand = None
    BY DEF Free
  <2>5. h.at \in {"idle", "blocked"} /\ h.cand = None
    BY <2>2, <2>4
  <2> QED
    BY <1>0, <2>1, <2>2, <2>3, <2>5, HandsMove
<1> QED
  BY <1>1, <1>2

\* An answer resolves the candidate of the hook that brings it, or none.
LEMMA ApplyHands ==
  ASSUME HitlInv, NEW r \in Callers, HookApplies(r)
  PROVE  Hands'
<1>0. /\ hook \in [Callers -> Hooks] /\ TypeOK /\ hook[r] \in Hooks
      /\ hook[r].at \in {"ask", "apply"} /\ Free \in Hooks /\ hook[r].cand # None
  BY HookStarts DEF HitlInv, HitlTypeOK, HookApplies, HookAlone, HookApply, CandidateBinding
<1>1. PICK h \in {Free, [hook[r] EXCEPT !.at = "record", !.code = last'.code]} :
        hook' = [hook EXCEPT ![r] = h]
  BY <1>0 DEF HookApplies, HookAlone, HookApply, Hooks
<1>2. /\ hook'[r].at \in {"idle", "record"}
      /\ hook'[r].cand # None => hook'[r].cand = hook[r].cand /\ hook'[r].live = hook[r].live
      /\ \A q \in Callers : q # r => hook'[q] = hook[q]
  <2>1. hook'[r] = h /\ \A q \in Callers : q # r => hook'[q] = hook[q]
    BY <1>0, <1>1
  <2>2. CASE h = Free
    BY <2>1, <2>2 DEF Free
  <2>3. CASE h = [hook[r] EXCEPT !.at = "record", !.code = last'.code]
    BY <1>0, <2>1, <2>3 DEF Hooks
  <2> QED
    BY <1>1, <2>2, <2>3
<1>3. PICK approve \in BOOLEAN : ApplyApproval(hook[r].cand.ver, approve, hook[r].cand.agg)
  BY <1>0 DEF HookApplies, HookAlone, HookApply, Hooks
<1>4. seq' = seq
  BY <1>3 DEF ApplyApproval
<1>5. \/ pending = None /\ pending' = None
      \/ pending # None /\ pending' = pending /\ hook[r].cand.ver # pending.ver
      \/ pending' = None /\ hook[r].cand = pending
  <2>1. pending # None /\ hook[r].cand.ver = pending.ver => hook[r].cand = pending
    BY <1>0 DEF HitlInv, CandidateBinding
  <2> QED
    BY <1>3, <2>1 DEF ApplyApproval, ApplyWithoutPending, ApplyToOtherRevision, Promote, Refuse
<1>6. \A q \in Callers : q # r /\ InHand(q) => pending # None /\ pending' = pending
  <2>1. InHand(r) <=> hook[r].cand = pending
    BY <1>0 DEF InHand
  <2>2. \A q \in Callers : InHand(q) => pending # None
    BY DEF HitlInv, CandidateIsListed, CandidateBinding, InHand
  <2> QED
    BY <1>5, <2>1, <2>2 DEF HitlInv, OneInHand
<1>7. \A q \in Callers : InHand(q)' => q # r /\ InHand(q)
  BY <1>0, <1>2, <1>5 DEF InHand, HitlInv, CandidateBinding
<1>8. OneInHand' /\ NoStrandedCandidate'
  <2>1. pending' # None => pending' = pending /\ ~InHand(r)
    BY <1>0, <1>5 DEF InHand
  <2>2. \A q \in Callers : q # r /\ pending' = pending => (InHand(q)' <=> InHand(q))
    BY <1>2 DEF InHand
  <2> QED
    BY <1>7, <2>1, <2>2 DEF HitlInv, OneInHand, NoStrandedCandidate
<1>9. CandidateIsListed'
  BY <1>2, <1>6 DEF HitlInv, CandidateIsListed, InHand
<1>10. ShownIsListed'
  BY <1>2 DEF HitlInv, ShownIsListed
<1>11. CandidateBinding'
  BY <1>2, <1>4, <1>5 DEF HitlInv, CandidateBinding
<1>12. OnlyPeopleApprove'
  BY <1>2 DEF HitlInv, OnlyPeopleApprove
<1> QED
  BY <1>8, <1>9, <1>10, <1>11, <1>12 DEF Hands

\* The environment moves no hook, and a first pin meets no candidate.
LEMMA EnvironmentHands ==
  ASSUME ~LateInstall, HitlInv, Environment, UNCHANGED hook
  PROVE  Hands'
<1>0. Hands
  BY DEF HitlInv, Hands
<1>1. ASSUME NEW p \in Pins, InstallInitialPin(p) PROVE Hands'
  <2>1. seq = 0 /\ seq' \in Nat
    BY <1>1 DEF InstallInitialPin, MayInstall, InstallSucceeds, InstallFails
  <2>2. pending = None /\ pending' = None
    BY <1>1, <2>1 DEF HitlInv, Inv, PendingIsNewest, TypeOK, Pins, InstallInitialPin,
       InstallSucceeds, InstallFails
  <2>3. \A r \in Callers : hook[r].at \notin {"candidate", "old", "ask", "wait", "apply"}
    <3> SUFFICES ASSUME NEW r \in Callers, hook[r].at \in {"candidate", "old", "ask", "wait", "apply"}
                 PROVE  FALSE
      OBVIOUS
    <3>1. hook[r] \in Hooks
      BY DEF HitlInv, HitlTypeOK
    <3> QED
      BY <2>1, <2>2, <3>1 DEF HitlInv, CandidateIsListed, CandidateBinding, Hooks, Pins
  <2> QED
    BY <1>0, <2>2, <2>3 DEF Hands, CandidateIsListed, OneInHand, CandidateBinding,
       OnlyPeopleApprove, ShownIsListed, NoStrandedCandidate, InHand
<1>2. ASSUME NEW f \in Fingerprints, SetConfig(f) PROVE Hands'
  BY <1>0, <1>2, HandsKept DEF SetConfig
<1>3. ASSUME NEW state, LoseFile(state) PROVE Hands'
  BY <1>0, <1>3, HandsKept DEF LoseFile
<1>4. ASSUME NEW c, NEW f, OutOfBandApprove(c, f) PROVE Hands'
  BY <1>0, <1>4, HandsKept DEF OutOfBandApprove
<1> QED
  BY <1>1, <1>2, <1>3, <1>4 DEF Environment

\* So do the steps of a hook that only reads the gate.
LEMMA RunHands ==
  ASSUME HitlInv, NEW r \in Callers, HookRuns(r), ~HookApplies(r)
  PROVE  Hands'
<1>0. /\ hook \in [Callers -> Hooks] /\ hook[r] \in Hooks /\ TypeOK /\ Free \in Hooks
      /\ hook[r].cand # None => hook[r].cand.agg = hook[r].live
  BY HookStarts DEF HitlInv, HitlTypeOK, ShownIsListed
<1>1. hook[r].at \in {"old", "ask", "wait", "apply"} =>
        /\ hook[r].cand # None /\ hook[r].cand.ver <= seq
        /\ pending # None /\ hook[r].cand.ver = pending.ver => hook[r].cand = pending
  BY DEF HitlInv, CandidateBinding
<1>2. CASE HookBlocked(r) \/ HookRecord(r)
  <2>1. hook' = [hook EXCEPT ![r] = Free] /\ UNCHANGED <<pending, seq>> /\ ~InHand(r)
    BY <1>2 DEF HookBlocked, HookRecord, CurrentPin, GateRests, InHand
  <2> QED
    BY <1>0, <2>1, HandsMove DEF Free
<1>3. CASE HookCandidate(r)
  <2> DEFINE h == [hook[r] EXCEPT !.at = "old", !.cand = pending]
  <2>1. pending # None /\ pending.agg = hook[r].live /\ InHand(r)
    BY <1>3 DEF HookCandidate, HitlInv, CandidateIsListed, InHand
  <2>2. hook' = [hook EXCEPT ![r] = h] /\ UNCHANGED <<pending, seq>>
    BY <1>3, <2>1 DEF HookCandidate, GateRests
  <2>3. h \in Hooks
    BY <1>0, HookEdits DEF TypeOK, HookSteps
  <2>4. /\ h.at = "old" /\ h.cand = pending /\ h.live = hook[r].live
        /\ h.approve = hook[r].approve
    BY <1>0 DEF Hooks
  <2>5. ~h.approve
    BY <1>3, <2>4 DEF HookCandidate, HitlInv, OnlyPeopleApprove
  <2>6. h.cand # None /\ h.cand.ver <= seq
    BY <1>0, <2>1, <2>4 DEF HitlInv, Inv, PendingIsNewest, TypeOK
  <2> HIDE DEF h
  <2> QED
    BY <2>1, <2>2, <2>3, <2>4, <2>5, <2>6, HandsMove
<1>4. CASE HookOld(r)
  <2> DEFINE h == [hook[r] EXCEPT !.old = Hash(InForce), !.at = "ask"]
  <2>1. hook[r].at = "old" /\ UNCHANGED <<pending, seq>> /\ hook' = [hook EXCEPT ![r] = h]
    BY <1>0, <1>4 DEF HookOld, CurrentPin
  <2>2. h \in Hooks
    <3>1. Hash(InForce) \in Hashes
      BY <1>0 DEF TypeOK, Hash, InForce, Load, Hashes, Pins, EmptyPins
    <3> QED
      BY <1>0, <3>1, HookEdits DEF HookSteps, Hashes
  <2>3. /\ h.at = "ask" /\ h.cand = hook[r].cand /\ h.live = hook[r].live
        /\ h.approve = hook[r].approve
    BY <1>0 DEF Hooks
  <2>4. ~h.approve /\ (InHand(r) <=> h.cand = pending)
    BY <2>1, <2>3 DEF HitlInv, OnlyPeopleApprove, InHand
  <2> HIDE DEF h
  <2> QED
    BY <1>0, <1>1, <2>1, <2>2, <2>3, <2>4, HandsMove
<1>5. CASE HookAsk(r) \/ HookTimedOut(r)
  <2>1. PICK step \in {"wait", "apply"} : hook' = [hook EXCEPT ![r] = [hook[r] EXCEPT !.at = step]]
    BY <1>0, <1>5 DEF HookAsk, HookTimedOut
  <2> DEFINE h == [hook[r] EXCEPT !.at = step]
  <2>2. hook[r].at \in {"ask", "wait"} /\ UNCHANGED <<pending, seq>>
    BY <1>5 DEF HookAsk, HookTimedOut, GateRests
  <2>3. h \in Hooks
    BY <1>0, HookEdits DEF HookSteps
  <2>4. /\ h.at = step /\ h.cand = hook[r].cand /\ h.live = hook[r].live
        /\ h.approve = hook[r].approve
    BY <1>0 DEF Hooks
  <2>5. ~h.approve /\ (InHand(r) <=> h.cand = pending)
    BY <2>2, <2>4 DEF HitlInv, OnlyPeopleApprove, InHand
  <2>6. hook' = [hook EXCEPT ![r] = h]
    BY <2>1
  <2> HIDE DEF h
  <2> QED
    BY <1>0, <1>1, <2>2, <2>3, <2>4, <2>5, <2>6, HandsMove
<1>6. CASE HookAnswered(r)
  <2>1. box[r].approve \in BOOLEAN /\ box[r].who \in People
    BY <1>6 DEF HookAnswered, HitlInv, HitlTypeOK, Answers
  <2> DEFINE h == [hook[r] EXCEPT !.at = "apply", !.approve = box[r].approve, !.by = box[r].who]
  <2>2. hook[r].at = "wait" /\ UNCHANGED <<pending, seq>> /\ hook' = [hook EXCEPT ![r] = h]
    BY <1>0, <1>6 DEF HookAnswered, GateRests
  <2>3. h \in Hooks
    BY <1>0, <2>1, HookEdits DEF HookSteps
  <2>4. h.at = "apply" /\ h.cand = hook[r].cand /\ h.live = hook[r].live /\ h.by # None
    BY <1>0, <2>1 DEF Hooks
  <2>5. InHand(r) <=> h.cand = pending
    BY <2>2, <2>4 DEF InHand
  <2> HIDE DEF h
  <2> QED
    BY <1>0, <1>1, <2>2, <2>3, <2>4, <2>5, HandsMove
<1> QED
  BY <1>2, <1>3, <1>4, <1>5, <1>6 DEF HookRuns, HookGoesOn, HookApplies

(***************************************************************************)
(* The theorems.                                                           *)
(***************************************************************************)

\* The gate keeps its own invariant under the hooks.
LEMMA GateInvStep ==
  ASSUME ~LateInstall, HitlInv, [HitlNext]_<<vars, hitl>>
  PROVE  Inv'
<1>1. CASE GateStep
  BY <1>1, InvStep DEF GateStep, HitlInv
<1>2. ASSUME NEW r \in Callers, HookApplies(r) PROVE Inv'
  <2>1. hook[r] \in Hooks /\ hook[r].at \in {"ask", "apply"} /\ review' = review
    BY <1>2 DEF HookApplies, HookAlone, HookApply, HitlInv, HitlTypeOK
  <2>2. PICK approve \in BOOLEAN : ApplyApproval(hook[r].cand.ver, approve, hook[r].cand.agg)
    BY <1>2, <2>1 DEF HookApplies, HookAlone, HookApply, Hooks
  <2>3. pending # None /\ hook[r].cand.ver = pending.ver => hook[r].cand.agg = pending.agg
    BY <2>1 DEF HitlInv, CandidateBinding
  <2>4. \A q \in Callers : review'[q] \in {review[q], None}
    BY <2>1
  <2>5. PendingIsNewest' /\ ReviewsNotNewer' /\ ReviewBinding' /\ InForceGranted' /\ OpenOnlyForPinned'
    BY <2>2, <2>3, <2>4, ApplyKeeps DEF HitlInv
  <2> QED
    BY <2>5, GateTypes DEF Inv
<1> QED
  BY <1>1, <1>2, GateSteps

\* Every step of a hook, of a person, of the gate's other users and of the
\* environment keeps the invariant.
LEMMA HitlInvStep ==
  ASSUME ~LateInstall, HitlInv, [HitlNext]_<<vars, hitl>>
  PROVE  HitlInv'
<1>0. Hands
  BY DEF HitlInv, Hands
<1>1. ASSUME NEW r \in Callers, NEW live \in Catalogs \union {BadCatalog}, HookEvaluate(r, live)
      PROVE  Hands'
  BY <1>1, EvaluateHands
<1>2. ASSUME NEW r \in Callers, NEW approve, NEW p, Decide(r, approve, p) PROVE Hands'
  BY <1>0, <1>2, HandsKept DEF Decide, GateRests
<1>3. ASSUME NEW r \in Callers, HookRuns(r) PROVE Hands'
  BY <1>3, ApplyHands, RunHands
<1>4. ASSUME NEW p, OtherRequestEnds(p) PROVE Hands'
  BY <1>0, <1>4, HandsKept DEF OtherRequestEnds, GateRests
<1>5. ASSUME Environment, UNCHANGED hook PROVE Hands'
  BY <1>5, EnvironmentHands
<1>6. ASSUME HitlRestart PROVE Hands'
  BY <1>6 DEF HitlRestart, Restart, FreshGate, Free, Hands, CandidateIsListed, OneInHand,
     CandidateBinding, OnlyPeopleApprove, ShownIsListed, NoStrandedCandidate, InHand
<1>7. ASSUME UNCHANGED <<vars, hitl>> PROVE Hands'
  BY <1>0, <1>7, HandsKept DEF vars, hitl
<1>8. Hands'
  BY <1>1, <1>2, <1>3, <1>4, <1>5, <1>6, <1>7 DEF HitlNext
<1> QED
  BY <1>8, GateInvStep, HitlTypeStep DEF HitlInv, Hands

\* A candidate is in the hands of the one hook that found it, or was resolved;
\* a revision a hook holds is never given to another candidate.
THEOREM HitlInvariant == ASSUME ~LateInstall PROVE HitlSpec => []HitlInv
<1>1. HitlInit => HitlInv
  <2> SUFFICES ASSUME HitlInit PROVE HitlInv
    OBVIOUS
  <2>1. Inv
    BY GateInit DEF HitlInit
  <2>2. HitlTypeOK
    BY <2>1, HookStarts DEF HitlInit, HitlTypeOK, Inv
  <2>3. Hands
    BY DEF HitlInit, Init, Free, Hands, CandidateIsListed, OneInHand, CandidateBinding,
       OnlyPeopleApprove, ShownIsListed, NoStrandedCandidate, InHand
  <2> QED
    BY <2>1, <2>2, <2>3 DEF HitlInv, Hands
<1>2. HitlInv /\ [HitlNext]_<<vars, hitl>> => HitlInv'
  BY HitlInvStep
<1> QED
  BY <1>1, <1>2, PTL DEF HitlSpec

\* Types of the hooks, of their requests and of the audit lines.
THEOREM HitlTypeCorrect == ASSUME ~LateInstall PROVE HitlSpec => []HitlTypeOK
<1>1. HitlInv => HitlTypeOK
  BY DEF HitlInv
<1> QED
  BY <1>1, HitlInvariant, PTL

\* However the hooks interleave on the gate's mutex, the candidate a person
\* is shown is the listing that person's hook evaluated.
THEOREM ShownCandidate == ASSUME ~LateInstall PROVE HitlSpec => []ShownIsListed
<1>1. HitlInv => ShownIsListed
  BY DEF HitlInv
<1> QED
  BY <1>1, HitlInvariant, PTL

\* A gate that is shut for a review always has the hook that will end it.
THEOREM NothingStranded == ASSUME ~LateInstall PROVE HitlSpec => []NoStrandedCandidate
<1>1. HitlInv => NoStrandedCandidate
  BY DEF HitlInv
<1> QED
  BY <1>1, HitlInvariant, PTL

\* Behind the hooks the gate opens for a granted pin in force only.
THEOREM HitlFailClosed == ASSUME ~LateInstall PROVE HitlSpec => []OpenOnlyForPinned
<1>1. HitlInv => OpenOnlyForPinned
  BY DEF HitlInv, Inv
<1> QED
  BY <1>1, HitlInvariant, PTL

\* A candidate enters only on the answer of a person to whom this hook showed
\* it: never on a timeout, and never one that another hook showed.
THEOREM AdvanceAnswered == ASSUME ~LateInstall PROVE HitlSpec => AdvanceIsAnswered
<1> DEFINE Answered ==
      \A r \in Callers :
        (hook[r].at = "apply" /\ hook'[r].at = "record" /\ last'.code = "OK")
          => hook[r].by # None /\ hook[r].cand = pending
<1>1. HitlInv /\ [HitlNext]_<<vars, hitl>> => [Answered]_<<vars, hitl>>
  <2> SUFFICES ASSUME HitlInv, HitlNext, NEW r \in Callers,
                      hook[r].at = "apply", hook'[r].at = "record", last'.code = "OK"
               PROVE  hook[r].by # None /\ hook[r].cand = pending
    OBVIOUS
  <2>0. hook \in [Callers -> Hooks] /\ hook[r] \in Hooks
    BY DEF HitlInv, HitlTypeOK
  <2>1. HookApply(r)
    <3>1. hook'[r].at # hook[r].at
      OBVIOUS
    <3>2. ASSUME NEW q \in Callers, NEW live, HookEvaluate(q, live) PROVE FALSE
      BY <2>0, <3>1, <3>2 DEF HookEvaluate
    <3>3. ASSUME NEW q \in Callers, HookRuns(q), ~HookApply(q) PROVE FALSE
      BY <2>0, <3>1, <3>3 DEF HookRuns, HookGoesOn, HookBlocked, HookCandidate, HookOld, HookAsk, HookAlone,
         HookAnswered, HookTimedOut, HookRecord
    <3>4. ASSUME NEW q \in Callers, HookApply(q) PROVE q = r
      BY <2>0, <3>1, <3>4 DEF HookApply
    <3>5. CASE HitlRestart
      BY <3>5 DEF HitlRestart, Free
    <3> QED
      BY <3>1, <3>2, <3>3, <3>4, <3>5 DEF HitlNext, Decide, OtherRequestEnds
  <2>2. hook[r].approve /\ Promote(hook[r].cand.ver)
    BY <2>0, <2>1 DEF HookApply, ApplyApproval, ApplyWithoutPending, ApplyToOtherRevision, Refuse,
       Applied, Decision, Hooks
  <2> QED
    BY <2>2 DEF HitlInv, OnlyPeopleApprove, CandidateBinding, Promote
<1> QED
  BY <1>1, HitlInvariant, PTL DEF HitlSpec, AdvanceIsAnswered

\* With any number of hooks and people in front of it, the gate still keeps
\* the promise of TrustedPin.
THEOREM HitlRefinement == ASSUME ~LateInstall PROVE HitlSpec => ImplementsTrustedPin
<1>1. HitlInit => Abstract!Init
  BY AbstractInit DEF HitlInit
<1>2. HitlInv /\ [HitlNext]_<<vars, hitl>> => [Abstract!Next]_(Abstract!vars)
  <2> SUFFICES ASSUME HitlInv, [HitlNext]_<<vars, hitl>> PROVE [Abstract!Next]_(Abstract!vars)
    OBVIOUS
  <2>1. CASE GateStep
    BY <2>1, RefinementStep DEF GateStep, HitlInv
  <2>2. ASSUME NEW r \in Callers, HookApplies(r) PROVE Abstract!Next
    <3>1. hook[r] \in Hooks /\ hook[r].at \in {"ask", "apply"}
      BY <2>2 DEF HookApplies, HookAlone, HookApply, HitlInv, HitlTypeOK
    <3>2. hook[r].cand \in Pins /\ hook[r].cand.agg \in Catalogs \union {BadCatalog}
      BY <3>1 DEF HitlInv, CandidateBinding, Hooks, Pins
    <3>3. PICK approve \in BOOLEAN : ApplyApproval(hook[r].cand.ver, approve, hook[r].cand.agg)
      BY <2>2, <3>1 DEF HookApplies, HookAlone, HookApply, Hooks
    <3>4. pending # None /\ hook[r].cand.ver = pending.ver => hook[r].cand.agg = pending.agg
      BY <3>1 DEF HitlInv, CandidateBinding
    <3> QED
      BY <3>2, <3>3, <3>4, ApplyRefines DEF HitlInv, HitlTypeOK
  <2> QED
    BY <2>1, <2>2, GateSteps
<1> QED
  BY <1>1, <1>2, HitlInvariant, PTL DEF HitlSpec, ImplementsTrustedPin, Abstract!Spec
=============================================================================
