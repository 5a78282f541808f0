-------------------------------- MODULE Hitl --------------------------------
(***************************************************************************)
(* hitl.Hook (hitl/hook.go) over one shared gate, with the HTTP stub       *)
(* hitl.Server (hitl/httpstub.go) as the Approver of those that have one.  *)
(*                                                                         *)
(* Each Caller runs Hook.Evaluate.  The hook calls the gate several times, *)
(* and g.mu is free between the calls: Evaluate, PendingCandidate,         *)
(* CurrentPin, then the wait for a human, ApplyApproval, and CurrentPin    *)
(* once more for the audit line.  Each call is one step of Gate.  Server   *)
(* keeps one answer per request, in a channel of capacity one, and one     *)
(* field `who` for all requests, which no mutex guards.  Hooks with and    *)
(* without an Approver may share the gate: a Caller may be of either kind  *)
(* each time.  A CallbackApprover is a Server whose person is a function.  *)
(***************************************************************************)
EXTENDS Gate

CONSTANTS
  People,   \* who a decision may come from
  Timed     \* callers whose context has a deadline

ASSUME PeopleAssumption == None \notin People
ASSUME TimedAssumption == Timed \subseteq Callers

VARIABLES
  hook,  \* caller -> its Hook.Evaluate in progress
  box,   \* caller -> the answer in the channel of its request
  who,   \* s.who
  line   \* the "approved" or "denied" audit line the latest step wrote

hitl == <<hook, box, who, line>>

Reviewed == {"DIFF_NONEMPTY", "tools_list_drift", "config_or_inventory_changed"}
HookSteps == {"idle", "blocked", "candidate", "old", "ask", "wait", "apply", "record"}

\* live: the listing; cand: the candidate; old: oldHash for the audit; approve:
\* the answer; code: what ApplyApproval returned; by: history, who answered.
Hooks == [at : HookSteps, live : Catalogs \union {None}, cand : Pins \union {None},
          old : Catalogs \union {BadCatalog, None}, approve : BOOLEAN, code : Codes,
          by : People \union {None}]
Free == [at |-> "idle", live |-> None, cand |-> None, old |-> None, approve |-> FALSE,
         code |-> "OK", by |-> None]

Answers == [approve : BOOLEAN, who : People]
Lines == [name : {"approved", "denied"}, old : Hashes, new : Hashes, who : People \union {None},
          code : Codes, by : People \union {None}]

NoLine == line' = None
GateRests == UNCHANGED <<pin, pending, seq, cfg, file, review, last, granted>>

(***************************************************************************)
(* Hook.Evaluate and RequestAndApply.                                      *)
(***************************************************************************)

\* A mismatch goes on to a human; every other denial is recorded.
HookEvaluate(r, live) ==
  /\ hook[r].at = "idle"
  /\ Evaluate(live)
  /\ hook' = [hook EXCEPT ![r] =
       IF last'.code = "OK" THEN Free
       ELSE IF last'.code \in Reviewed THEN [Free EXCEPT !.at = "candidate", !.live = live]
       ELSE [Free EXCEPT !.at = "blocked"]]
  /\ NoLine /\ UNCHANGED <<box, who>>

\* recordBlocked asks for the current pin, and "blocked" names no transition.
HookBlocked(r) ==
  /\ hook[r].at = "blocked"
  /\ CurrentPin
  /\ hook' = [hook EXCEPT ![r] = Free]
  /\ NoLine /\ UNCHANGED <<box, who>>

\* PendingCandidate; without one the hook returns INTERNAL_ERROR.
HookCandidate(r) ==
  /\ hook[r].at = "candidate"
  /\ hook' = [hook EXCEPT ![r] = IF pending = None THEN Free
                                 ELSE [hook[r] EXCEPT !.at = "old", !.cand = pending]]
  /\ NoLine /\ GateRests /\ UNCHANGED <<box, who>>

\* Mutant of HookOld: oldHash and the old revision are mixed up.
HookOldRevision(r) ==
  /\ hook[r].at = "old"
  /\ CurrentPin
  /\ hook' = [hook EXCEPT ![r].old = IF InForce = None THEN None ELSE InForce.ver, ![r].at = "ask"]
  /\ NoLine /\ UNCHANGED <<box, who>>

\* CurrentPin for oldHash, then "diff_detected" and "blocked", which name no
\* transition.
HookOld(r) ==
  /\ hook[r].at = "old"
  /\ CurrentPin
  /\ hook' = [hook EXCEPT ![r].old = Hash(InForce), ![r].at = "ask"]
  /\ NoLine /\ UNCHANGED <<box, who>>

\* Server.RequestApproval registers the request, with an empty channel.
HookAsk(r) ==
  /\ hook[r].at = "ask"
  /\ hook' = [hook EXCEPT ![r].at = "wait"]
  /\ box' = [box EXCEPT ![r] = None]
  /\ NoLine /\ GateRests /\ UNCHANGED who

\* A hook without an Approver denies at once, and names nobody.
HookAlone(r) ==
  /\ hook[r].at = "ask"
  /\ ApplyApproval(hook[r].cand.ver, FALSE, hook[r].cand.agg)
  /\ line' = [name |-> "denied", old |-> hook[r].old, new |-> hook[r].old, who |-> None,
              code |-> last'.code, by |-> None]
  /\ hook' = [hook EXCEPT ![r] = Free]
  /\ UNCHANGED <<review, box, who>>

\* handleDecide: the first answer fills the channel, later ones are dropped.
Decide(r, approve, p) ==
  /\ hook[r].at = "wait"
  /\ box' = IF box[r] = None THEN [box EXCEPT ![r] = [approve |-> approve, who |-> p]] ELSE box
  /\ NoLine /\ GateRests /\ UNCHANGED <<hook, who>>

HookAnswered(r) ==
  /\ hook[r].at = "wait" /\ box[r] # None
  /\ who' = box[r].who
  /\ hook' = [hook EXCEPT ![r].at = "apply", ![r].approve = box[r].approve, ![r].by = box[r].who]
  /\ box' = [box EXCEPT ![r] = None]
  /\ NoLine /\ GateRests

\* Mutant of HookTimedOut: the hook returns without telling the gate.
HookTimedOutReturns(r) ==
  /\ hook[r].at = "wait"
  /\ who' = None
  /\ hook' = [hook EXCEPT ![r] = Free]
  /\ box' = [box EXCEPT ![r] = None]
  /\ NoLine /\ GateRests

\* Mutant of HookTimedOut: no answer counts as consent.
HookTimedOutApproves(r) ==
  /\ hook[r].at = "wait"
  /\ who' = None
  /\ hook' = [hook EXCEPT ![r].at = "apply", ![r].approve = TRUE]
  /\ box' = [box EXCEPT ![r] = None]
  /\ NoLine /\ GateRests

\* Mutant of HookTimedOut: the request is sent again.
HookTimedOutRetries(r) ==
  /\ hook[r].at = "wait"
  /\ who' = None
  /\ hook' = [hook EXCEPT ![r].at = "ask"]
  /\ box' = [box EXCEPT ![r] = None]
  /\ NoLine /\ GateRests

\* The caller's context ends, by its deadline or because the caller cancels it:
\* a denial by nobody.  It may win over an answer that is already in the channel.
HookTimedOut(r) ==
  /\ hook[r].at = "wait"
  /\ who' = None
  /\ hook' = [hook EXCEPT ![r].at = "apply"]
  /\ box' = [box EXCEPT ![r] = None]
  /\ NoLine /\ GateRests

HookApply(r) ==
  /\ hook[r].at = "apply"
  /\ ApplyApproval(hook[r].cand.ver, hook[r].approve, hook[r].cand.agg)
  /\ hook' = [hook EXCEPT ![r].at = "record", ![r].code = last'.code]
  /\ NoLine /\ UNCHANGED <<review, box, who>>

\* The line is "approved" whatever ApplyApproval returned; newHash is read from
\* the gate again, and the person from s.who.
HookRecord(r) ==
  /\ hook[r].at = "record"
  /\ IF hook[r].approve THEN CurrentPin ELSE GateRests
  /\ line' = [name |-> IF hook[r].approve THEN "approved" ELSE "denied",
              old  |-> hook[r].old,
              new  |-> IF hook[r].approve /\ InForce # None THEN Hash(InForce) ELSE hook[r].old,
              who  |-> who, code |-> hook[r].code, by |-> hook[r].by]
  /\ hook' = [hook EXCEPT ![r] = Free]
  /\ UNCHANGED <<box, who>>

\* What the hook does next by itself: everything but the end of its context.
HookGoesOn(r) ==
  \/ HookBlocked(r) \/ HookCandidate(r) \/ HookOld(r) \/ HookAsk(r) \/ HookAlone(r)
  \/ HookAnswered(r) \/ HookApply(r) \/ HookRecord(r)

HookRuns(r) == HookGoesOn(r) \/ HookTimedOut(r)

(***************************************************************************)
(* The other users of the gate and of the server.                          *)
(***************************************************************************)

\* POST /v1/approvals waits in the same RequestApproval, without a gate.
OtherRequestEnds(p) ==
  /\ who' = p
  /\ NoLine /\ GateRests /\ UNCHANGED <<hook, box>>

Environment ==
  \/ \E f \in Fingerprints : SetConfig(f)
  \/ \E p \in Pins : InstallInitialPin(p)
  \/ \E state \in {Missing, Tampered, Unreadable} : LoseFile(state)
  \/ \E c \in Catalogs, f \in Fingerprints \union {None} : OutOfBandApprove(c, f)

\* The process ends with every hook in it.
HitlRestart ==
  /\ Restart
  /\ hook' = [r \in Callers |-> Free] /\ box' = [r \in Callers |-> None]
  /\ who' = None /\ NoLine

HitlInit ==
  /\ Init
  /\ hook = [r \in Callers |-> Free] /\ box = [r \in Callers |-> None]
  /\ who = None /\ line = None

HitlNext ==
  \/ \E r \in Callers :
       \/ \E live \in Catalogs \union {BadCatalog} : HookEvaluate(r, live)
       \/ \E approve \in BOOLEAN, p \in People : Decide(r, approve, p)
       \/ HookRuns(r)
  \/ \E p \in People \union {None} : OtherRequestEnds(p)
  \/ Environment /\ NoLine /\ UNCHANGED <<hook, box, who>>
  \/ HitlRestart

\* A goroutine that can run does.  The context of a Timed caller expires; any
\* other may last for ever, and no person has to answer.
HitlSpec ==
  /\ HitlInit /\ [][HitlNext]_<<vars, hitl>>
  /\ \A r \in Callers : WF_<<vars, hitl>>(HookGoesOn(r))
  /\ \A r \in Timed : WF_<<vars, hitl>>(HookTimedOut(r))

(***************************************************************************)
(* Properties.                                                             *)
(***************************************************************************)

\* Types of the hooks, their requests and the audit line.
HitlTypeOK ==
  /\ TypeOK
  /\ hook \in [Callers -> Hooks]
  /\ box \in [Callers -> Answers \union {None}]
  /\ who \in People \union {None}
  /\ line \in Lines \union {None}

\* The candidate a person is shown is the listing this very hook evaluated,
\* although the gate's mutex was free between Evaluate and PendingCandidate.
ShownIsListed ==
  \A r \in Callers : hook[r].cand # None => hook[r].cand.agg = hook[r].live

\* A candidate that keeps the gate shut is in the hands of a hook that resolves
\* it at the end of its review: no error, timeout or other hook's answer leaves
\* the gate pending with nobody to ask.
InHand(r) ==
  \/ hook[r].at = "candidate"
  \/ hook[r].at \in {"old", "ask", "wait", "apply"} /\ hook[r].cand = pending
NoStrandedCandidate == pending # None => \E r \in Callers : InHand(r)

\* The gate lets a candidate in only on the answer of a person to whom this
\* hook showed that very candidate; a timeout lets nothing in.
AdvanceIsAnswered ==
  [][\A r \in Callers :
       (hook[r].at = "apply" /\ hook'[r].at = "record" /\ last'.code = "OK")
         => hook[r].by # None /\ hook[r].cand = pending]_<<vars, hitl>>

\* A review that has its answer ends, and one whose context has a deadline ends
\* without any; one with neither may wait for ever (hitl/httpstub.go:77).
ReviewEnds ==
  \A r \in Callers :
    (hook[r].at = "wait" /\ (r \in Timed \/ box[r] # None)) ~> hook[r].at = "idle"

\* An "approved" line stands for an approval that took effect: ApplyApproval
\* allowed it (hitl/hook.go:90, core/doc.go:22).
ApprovedTookEffect == (line # None /\ line.name = "approved") => line.code = "OK"

\* An "approved" line names the person who approved (README.md:219).
WhoApproved == (line # None /\ line.name = "approved") => line.who = line.by

(***************************************************************************)
(* The inductive invariant behind the properties above.                    *)
(***************************************************************************)

\* Between Evaluate and PendingCandidate the candidate is the hook's own.
CandidateIsListed ==
  \A r \in Callers : hook[r].at = "candidate" => pending # None /\ pending.agg = hook[r].live

\* One hook at most has the pending candidate in hand.
OneInHand == \A q, r \in Callers : InHand(q) /\ InHand(r) => q = r

\* A revision in the hands of a hook is not newer than seq, and never names
\* another candidate.
CandidateBinding ==
  \A r \in Callers : hook[r].at \in {"old", "ask", "wait", "apply"} =>
    /\ hook[r].cand # None /\ hook[r].cand.ver <= seq
    /\ pending # None /\ hook[r].cand.ver = pending.ver => hook[r].cand = pending

\* Nothing is approved before a person answered.
OnlyPeopleApprove ==
  \A r \in Callers :
    /\ hook[r].at \in {"candidate", "old", "ask", "wait"} => ~hook[r].approve
    /\ hook[r].at = "apply" /\ hook[r].approve => hook[r].by # None

HitlInv ==
  /\ HitlTypeOK /\ Inv
  /\ CandidateIsListed /\ OneInHand /\ CandidateBinding /\ OnlyPeopleApprove
  /\ ShownIsListed /\ NoStrandedCandidate
=============================================================================
