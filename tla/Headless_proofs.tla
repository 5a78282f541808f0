-------------------------- MODULE Headless_proofs --------------------------
(***************************************************************************)
(* Proofs about Headless for any number of catalogs, fingerprints, wraps   *)
(* and approve commands: the pin file as its processes share it, with and  *)
(* without failures, and what holds when they run one at a time.           *)
(***************************************************************************)
EXTENDS Headless, TLAPS

USE OwnAssumption, SwitchAssumption, TokenAssumption, HeadlessCatalogs, HeadlessFiles,
    HeadlessProcesses

(***************************************************************************)
(* What a step changes in the state of its process.                        *)
(***************************************************************************)

\* The fields of an evaluation take only their own values.
LEMMA EvaluationEdits ==
  ASSUME NEW s \in Evaluations, NEW step \in WrapSteps
  PROVE  /\ [s EXCEPT !.at = step] \in Evaluations
         /\ \A p \in Pins \union Hashless \union {None} :
              [s EXCEPT !.at = step, !.gate = p] \in Evaluations
         /\ \A state \in FileStates : [s EXCEPT !.state = state, !.at = step] \in Evaluations
         /\ \A old \in Catalogs \union {None} : [s EXCEPT !.old = old, !.at = step] \in Evaluations
         /\ \A byToken \in BOOLEAN : [s EXCEPT !.at = step, !.byToken = byToken] \in Evaluations
BY DEF Evaluations

\* So does a new evaluation, the first or the one after a promotion.
LEMMA EvaluationStarts ==
  ASSUME NEW live \in Catalogs \union {BadCatalog, None}
  PROVE  /\ Rest \in Evaluations
         /\ [Rest EXCEPT !.at = "inspect", !.live = live] \in Evaluations
         /\ [Rest EXCEPT !.at = "inspect", !.live = live, !.again = TRUE] \in Evaluations
BY DEF Evaluations, Rest, WrapSteps, FileStates

\* Evaluate lets a listing through only with a pin of that very catalog.
LEMMA VerdictIsOK ==
  ASSUME NEW p, NEW live, Verdict(p, live) = "OK"
  PROVE  p # None /\ live # BadCatalog /\ p.agg = live
BY DEF Verdict

\* A drift is found only against a pin, and in a listing that has a hash.
LEMMA VerdictIsDrift ==
  ASSUME NEW p, NEW live, Verdict(p, live) \in Drift
  PROVE  p # None /\ live # BadCatalog
BY DEF Verdict, Drift

\* The file between a truncation and the end of the write.
LEMMA FillResults ==
  ASSUME NEW p, Fill(p)
  PROVE  /\ file' \in {p, Missing, Torn}
         /\ file = Torn => file' = p
BY DEF Fill

\* One step of a wrap keeps the types.
LEMMA TypeStepOfWrap == ASSUME Inv, NEW w \in Wraps, Evaluation(w) PROVE TypeOK'
<1> USE DEF Inv, TypeOK, Quiet
<1>0. wrap[w] \in Evaluations /\ wrap[w].live \in Catalogs \union {BadCatalog, None}
      /\ wrap[w].old \in Catalogs \union {None}
  BY DEF Evaluations
<1>1. /\ \A s \in Evaluations : [wrap EXCEPT ![w] = s] \in [Wraps -> Evaluations]
      /\ \A step \in WrapSteps : Go(w, step) => wrap' \in [Wraps -> Evaluations]
      /\ End(w) => wrap' \in [Wraps -> Evaluations]
  <2>1. \A s \in Evaluations : [wrap EXCEPT ![w] = s] \in [Wraps -> Evaluations]
    OBVIOUS
  <2>2. \A step \in WrapSteps : [wrap EXCEPT ![w].at = step] \in [Wraps -> Evaluations]
    BY <1>0, EvaluationEdits
  <2>3. Rest \in Evaluations
    BY EvaluationStarts
  <2> QED
    BY <2>1, <2>2, <2>3 DEF Go, End
<1>2. ASSUME NEW live \in Catalogs \union {BadCatalog}, Start(w, live) PROVE TypeOK'
  BY <1>1, <1>2, EvaluationStarts DEF Start
<1>3. Parsed \in Pins \union Hashless \union {None} /\ FileState \in FileStates
  BY DEF Parsed, FileState, FileStates
<1>4. ASSUME NEW p \in Pins \union Hashless \union {None}, Decide(w, p),
             UNCHANGED <<file, token, snapshot, command, tokens, spent, granted>>
      PROVE  TypeOK'
  <2>1. CASE Verdict(p, wrap[w].live) = "OK"
    <3>1. wrap[w].live \in Catalogs
      BY <1>0, <2>1, VerdictIsOK DEF Pins, Hashless
    <3> QED
      BY <1>1, <1>4, <2>1, <3>1 DEF Decide
  <2>2. CASE Verdict(p, wrap[w].live) # "OK"
    <3>1. \A step \in WrapSteps : [wrap EXCEPT ![w].at = step, ![w].gate = p] \in [Wraps -> Evaluations]
      BY <1>0, EvaluationEdits
    <3> QED
      BY <1>4, <2>2, <3>1 DEF Decide, WrapSteps
  <2> QED
    BY <2>1, <2>2
<1>5. CASE InspectForGate(w)
  BY <1>1, <1>4, <1>5 DEF InspectForGate, WrapSteps
<1>6. CASE ReadAndEvaluate(w)
  BY <1>3, <1>4, <1>6 DEF ReadAndEvaluate
<1>7. CASE Inspect(w)
  <2>1. [wrap EXCEPT ![w].state = FileState, ![w].at = "hash"] \in [Wraps -> Evaluations]
    BY <1>0, <1>3, EvaluationEdits DEF WrapSteps
  <2> QED
    BY <1>7, <2>1 DEF Inspect
<1>8. CASE ReadOldHash(w)
  <2>1. \A old \in Catalogs \union {None} :
          [wrap EXCEPT ![w].old = old, ![w].at = "grant"] \in [Wraps -> Evaluations]
    BY <1>0, EvaluationEdits DEF WrapSteps
  <2>2. file \in Pins => file.agg \in Catalogs
    BY DEF Pins
  <2> QED
    BY <1>8, <2>1, <2>2 DEF ReadOldHash
<1>9. CASE Grant(w)
  <2>1. TokenGrants(w) \in BOOLEAN
    BY DEF TokenGrants
  <2>2. [wrap EXCEPT ![w].at = "truncate", ![w].byToken = TokenGrants(w)] \in [Wraps -> Evaluations]
    BY <1>0, <2>1, EvaluationEdits DEF WrapSteps
  <2>3. wrap[w].live \in Catalogs \union {BadCatalog}
    BY <1>0, <1>9 DEF Grant, WritesAreGranted
  <2> QED
    BY <1>1, <1>9, <2>2, <2>3 DEF Grant, WrapSteps
<1>10. CASE TruncateForWrap(w)
  BY <1>1, <1>10 DEF TruncateForWrap, Truncate, WrapSteps
<1>11. CASE FillForWrap(w)
  <2>1. Pin(wrap[w].live, Own) \in Pins \union Hashless
    BY <1>0, <1>11 DEF FillForWrap, WritesAreGranted, Pin, Pins, Hashless
  <2>2. file' \in Pins \union Hashless \union {Missing, Torn}
    BY <1>11, <2>1, FillResults DEF FillForWrap
  <2>3. spent' \in 0 .. 2
    BY <1>11 DEF FillForWrap
  <2>4. wrap' \in [Wraps -> Evaluations]
    BY <1>1, <1>11 DEF FillForWrap, WrapSteps
  <2> QED
    BY <1>11, <2>2, <2>3, <2>4 DEF FillForWrap
<1>12. CASE Consume(w)
  BY <1>1, <1>12 DEF Consume, WrapSteps
<1>13. CASE Cleanup(w)
  <2>1. wrap' \in [Wraps -> Evaluations]
    BY <1>0, <1>1, <1>13, EvaluationStarts DEF Cleanup
  <2>2. Code(w) \in Drift => wrap[w].live \in Catalogs
    BY <1>0, <1>13, VerdictIsDrift DEF Code, Cleanup, WritesAreGranted
  <2>3. audit' \in [old : Catalogs, new : Catalogs] \union {None}
    BY <1>0, <1>13, <2>2 DEF Cleanup
  <2> QED
    BY <1>13, <2>1, <2>3 DEF Cleanup
<1>14. CASE SaveSnapshot(w)
  BY <1>0, <1>1, <1>14 DEF SaveSnapshot
<1>15. CASE WrapDies(w)
  BY <1>1, <1>15 DEF WrapDies
<1> QED
  BY <1>2, <1>5, <1>6, <1>7, <1>8, <1>9, <1>10, <1>11, <1>12, <1>13, <1>14, <1>15 DEF Evaluation

\* One step of `deadbugz-guard approve` keeps the types.
LEMMA TypeStepOfCommand == ASSUME Inv, NEW c \in Commands, Approval(c) PROVE TypeOK'
<1> USE DEF Inv, TypeOK, Quiet
<1>0. /\ command[c] \in Approvals /\ Unused \in Approvals
      /\ command[c].pin \in Pins \union Hashless \union {None}
      /\ \A p \in Pins \union Hashless : p.agg \in Catalogs \union {BadCatalog}
  BY DEF Approvals, Unused, CommandSteps, Pins, Hashless
<1>1. ASSUME NEW p \in Pins \union Hashless, Approve(c, p) PROVE TypeOK'
  <2>1. [command EXCEPT ![c].at = "truncate", ![c].pin = p] \in [Commands -> Approvals]
    BY <1>0 DEF Approvals, CommandSteps
  <2> QED
    BY <1>0, <1>1, <2>1 DEF Approve
<1>2. CASE ApproveFromPending(c)
  <2>1. Pin(snapshot, Own) \in Pins
    BY <1>2 DEF ApproveFromPending, Pin, Pins
  <2> QED
    BY <1>1, <1>2, <2>1 DEF ApproveFromPending
<1>3. ASSUME NEW live \in Catalogs \union {BadCatalog}, NEW f \in Fingerprints,
             ApproveFromServer(c, live, f)
      PROVE  TypeOK'
  <2>1. Pin(live, f) \in Pins \union Hashless
    BY DEF Pin, Pins, Hashless
  <2> QED
    BY <1>1, <1>3, <2>1 DEF ApproveFromServer
<1>4. /\ [command EXCEPT ![c] = Unused] \in [Commands -> Approvals]
      /\ \A step \in CommandSteps : [command EXCEPT ![c].at = step] \in [Commands -> Approvals]
  BY <1>0 DEF Approvals
<1>5. CASE TruncateForCommand(c)
  BY <1>4, <1>5 DEF TruncateForCommand, Truncate, CommandSteps
<1>6. CASE FillForCommand(c)
  <2>1. command[c].pin \in Pins \union Hashless
    BY <1>0, <1>6 DEF FillForCommand, WritesAreGranted
  <2>2. file' \in Pins \union Hashless \union {Missing, Torn}
    BY <1>6, <2>1, FillResults DEF FillForCommand
  <2> QED
    BY <1>4, <1>6, <2>2 DEF FillForCommand, CommandSteps
<1>7. CASE CleanupForCommand(c)
  BY <1>4, <1>7 DEF CleanupForCommand
<1> QED
  BY <1>2, <1>3, <1>5, <1>6, <1>7 DEF Approval

\* One step of any process, of the operator or of the file system keeps the
\* types.
LEMMA TypeStep == ASSUME Inv, [Next]_vars PROVE TypeOK'
<1> USE DEF Inv, TypeOK, Quiet
<1>1. CASE LeaveToken
  BY <1>1 DEF LeaveToken
<1>2. ASSUME NEW f \in Pins \union {Missing, Torn}, Edit(f) PROVE TypeOK'
  BY <1>2 DEF Edit, Pins
<1>3. CASE UNCHANGED vars
  BY <1>3 DEF vars
<1> QED
  BY <1>1, <1>2, <1>3, TypeStepOfWrap, TypeStepOfCommand DEF Next

\* A wrap that starts, starts over, or ends an evaluation forgets what it read.
LEMMA WrapForgets ==
  ASSUME TypeOK, NEW w \in Wraps,
         \/ \E live \in Catalogs \union {BadCatalog} : Start(w, live)
         \/ Cleanup(w) \/ SaveSnapshot(w) \/ WrapDies(w)
  PROVE  wrap'[w].at \in {"idle", "inspect"}
<1> USE DEF TypeOK
<1>1. /\ Rest.at = "idle"
      /\ \A live : /\ [Rest EXCEPT !.at = "inspect", !.live = live].at = "inspect"
                   /\ [Rest EXCEPT !.at = "inspect", !.live = live, !.again = TRUE].at = "inspect"
  BY DEF Rest
<1>2. CASE \E live \in Catalogs \union {BadCatalog} : Start(w, live)
  BY <1>1, <1>2 DEF Start
<1>3. CASE Cleanup(w)
  BY <1>1, <1>3 DEF Cleanup
<1>4. CASE SaveSnapshot(w) \/ WrapDies(w)
  BY <1>1, <1>4 DEF SaveSnapshot, WrapDies, End
<1> QED
  BY <1>2, <1>3, <1>4

\* A process changes no state but its own.
LEMMA WrapKeepsOthers ==
  ASSUME TypeOK, NEW w \in Wraps, Evaluation(w)
  PROVE  command' = command /\ \A v \in Wraps \ {w} : wrap'[v] = wrap[v]
BY DEF TypeOK, Evaluation, Start, InspectForGate, ReadAndEvaluate, Decide, Inspect, ReadOldHash,
       Grant, TruncateForWrap, FillForWrap, Consume, Cleanup, SaveSnapshot, WrapDies, Go, End

LEMMA CommandKeepsOthers ==
  ASSUME TypeOK, NEW c \in Commands, Approval(c)
  PROVE  wrap' = wrap /\ \A d \in Commands \ {c} : command'[d] = command[d]
BY DEF TypeOK, Approval, ApproveFromPending, ApproveFromServer, Approve, TruncateForCommand,
       FillForCommand, CleanupForCommand

(***************************************************************************)
(* What is in the file was granted.                                        *)
(***************************************************************************)

\* A wrap writes the listing of the grant it got, and nothing else.
LEMMA GrantedStepOfWrap ==
  ASSUME Inv, NEW w \in Wraps, Evaluation(w)
  PROVE  FileIsGranted' /\ WritesAreGranted'
<1> USE DEF Inv, TypeOK, FileIsGranted, WritesAreGranted
<1> DEFINE Goal == FileIsGranted' /\ WritesAreGranted'
<1>0. wrap[w] \in Evaluations /\ Rest.at = "idle" /\ Rest.live = None
  BY DEF Rest
<1>1. ASSUME NEW s \in Evaluations, wrap' = [wrap EXCEPT ![w] = s], UNCHANGED <<file, command>>,
             granted \subseteq granted',
             s.at # "idle" => s.live # None,
             s.at \in {"truncate", "write"} => s.live \in granted'
      PROVE  Goal
  BY <1>1
<1>2. /\ \A step \in WrapSteps :
           Go(w, step) => wrap' = [wrap EXCEPT ![w] = [wrap[w] EXCEPT !.at = step]]
      /\ End(w) => wrap' = [wrap EXCEPT ![w] = Rest]
  BY DEF Go, End
<1>3. Rest \in Evaluations /\ \A step \in WrapSteps : [wrap[w] EXCEPT !.at = step] \in Evaluations
  BY <1>0, EvaluationEdits, EvaluationStarts
<1>4. ASSUME End(w), UNCHANGED <<file, command, granted>> PROVE Goal
  BY <1>0, <1>1, <1>2, <1>3, <1>4
<1>5. ASSUME NEW step \in WrapSteps \ {"truncate"}, Go(w, step), wrap[w].at # "idle",
             step = "write" => wrap[w].at = "truncate",
             UNCHANGED <<file, command, granted>>
      PROVE  Goal
  <2>1. [wrap[w] EXCEPT !.at = step].at = step /\ [wrap[w] EXCEPT !.at = step].live = wrap[w].live
    BY <1>0 DEF Evaluations
  <2> QED
    BY <1>1, <1>2, <1>3, <1>5, <2>1
<1>6. ASSUME NEW p \in Pins \union Hashless \union {None}, Decide(w, p), wrap[w].at # "idle",
             UNCHANGED <<file, command, granted>>
      PROVE  Goal
  <2>1. CASE Verdict(p, wrap[w].live) = "OK"
    BY <1>4, <1>6, <2>1 DEF Decide
  <2>2. CASE Verdict(p, wrap[w].live) # "OK"
    <3>1. PICK step \in {"snapshot", "reinspect"} :
            wrap' = [wrap EXCEPT ![w].at = step, ![w].gate = p]
      BY <1>6, <2>2 DEF Decide
    <3> DEFINE s == [wrap[w] EXCEPT !.at = step, !.gate = p]
    <3>2. s \in Evaluations
      BY <1>0, <3>1, EvaluationEdits DEF WrapSteps
    <3>3. s.at = step /\ s.live = wrap[w].live
      BY <1>0 DEF Evaluations
    <3>4. wrap' = [wrap EXCEPT ![w] = s]
      BY <3>1
    <3> QED
      BY <1>1, <1>6, <3>1, <3>2, <3>3, <3>4
  <2> QED
    BY <2>1, <2>2
<1>7. ASSUME NEW live \in Catalogs \union {BadCatalog}, Start(w, live) PROVE Goal
  <2> DEFINE s == [Rest EXCEPT !.at = "inspect", !.live = live]
  <2>1. s \in Evaluations /\ s.at = "inspect" /\ s.live = live /\ live # None
    BY EvaluationStarts DEF Rest
  <2> QED
    BY <1>1, <1>7, <2>1 DEF Start
<1>8. CASE InspectForGate(w)
  BY <1>5, <1>6, <1>8 DEF InspectForGate, WrapSteps
<1>9. CASE ReadAndEvaluate(w)
  BY <1>6, <1>9 DEF ReadAndEvaluate, Parsed
<1>10. CASE Inspect(w)
  BY <1>10 DEF Inspect, Evaluations
<1>11. CASE ReadOldHash(w)
  BY <1>11 DEF ReadOldHash, Evaluations
<1>12. CASE Grant(w)
  <2>1. CASE Go(w, "snapshot") /\ UNCHANGED granted
    BY <1>5, <1>12, <2>1 DEF Grant, WrapSteps
  <2>2. CASE /\ wrap' = [wrap EXCEPT ![w].at = "truncate", ![w].byToken = TokenGrants(w)]
             /\ granted' = granted \union {wrap[w].live}
    <3> DEFINE s == [wrap[w] EXCEPT !.at = "truncate", !.byToken = TokenGrants(w)]
    <3>1. TokenGrants(w) \in BOOLEAN
      BY DEF TokenGrants
    <3>2. s \in Evaluations
      BY <1>0, <3>1, EvaluationEdits DEF WrapSteps
    <3>3. s.live = wrap[w].live /\ wrap' = [wrap EXCEPT ![w] = s]
      BY <1>0, <2>2 DEF Evaluations
    <3>4. wrap[w].live # None /\ UNCHANGED <<file, command>>
      BY <1>12 DEF Grant
    <3> QED
      BY <1>1, <2>2, <3>2, <3>3, <3>4
  <2> QED
    BY <1>12, <2>1, <2>2 DEF Grant
<1>13. CASE TruncateForWrap(w)
  <2>1. CASE Truncate
    BY <1>13, <2>1 DEF TruncateForWrap, Truncate, Go, Evaluations
  <2>2. CASE UNCHANGED file /\ Go(w, "snapshot")
    BY <1>5, <1>13, <2>2 DEF TruncateForWrap, WrapSteps
  <2> QED
    BY <1>13, <2>1, <2>2 DEF TruncateForWrap, Truncate, Go, Evaluations
<1>14. CASE FillForWrap(w)
  <2>1. PICK step \in {"consume", "cleanup", "snapshot"} : Go(w, step)
    BY <1>14 DEF FillForWrap
  <2>2. wrap[w].live \in granted /\ Pin(wrap[w].live, Own).agg = wrap[w].live
    BY <1>14 DEF FillForWrap, Pin
  <2>3. FileIsGranted'
    BY <1>14, <2>2, FillResults DEF FillForWrap
  <2> QED
    BY <1>14, <2>1, <2>3 DEF FillForWrap, Go, Evaluations
<1>15. CASE Consume(w)
  BY <1>5, <1>15 DEF Consume, WrapSteps
<1>16. CASE Cleanup(w)
  <2> DEFINE s == [Rest EXCEPT !.at = "inspect", !.live = wrap[w].live, !.again = TRUE]
  <2>1. s \in Evaluations /\ s.at = "inspect" /\ s.live = wrap[w].live
    BY <1>0, EvaluationStarts DEF Rest, Evaluations
  <2> QED
    BY <1>1, <1>16, <2>1 DEF Cleanup
<1>17. CASE SaveSnapshot(w) \/ WrapDies(w)
  BY <1>4, <1>17 DEF SaveSnapshot, WrapDies
<1> QED
  BY <1>7, <1>8, <1>9, <1>10, <1>11, <1>12, <1>13, <1>14, <1>15, <1>16, <1>17 DEF Evaluation

\* A command writes the pin of the catalog it was started for.
LEMMA GrantedStepOfCommand ==
  ASSUME Inv, NEW c \in Commands, Approval(c)
  PROVE  FileIsGranted' /\ WritesAreGranted'
<1> USE DEF Inv, TypeOK, FileIsGranted, WritesAreGranted
<1> DEFINE Goal == FileIsGranted' /\ WritesAreGranted'
<1>0. command[c] \in Approvals /\ Unused.at = "idle"
  BY DEF Unused
<1>1. ASSUME NEW p \in Pins \union Hashless, Approve(c, p) PROVE Goal
  BY <1>1 DEF Approve, Approvals
<1>2. CASE ApproveFromPending(c)
  <2>1. Pin(snapshot, Own) \in Pins
    BY <1>2 DEF ApproveFromPending, Pin, Pins
  <2> QED
    BY <1>1, <1>2, <2>1 DEF ApproveFromPending
<1>3. ASSUME NEW live \in Catalogs \union {BadCatalog}, NEW f \in Fingerprints,
             ApproveFromServer(c, live, f)
      PROVE  Goal
  <2>1. Pin(live, f) \in Pins \union Hashless
    BY DEF Pin, Pins, Hashless
  <2> QED
    BY <1>1, <1>3, <2>1 DEF ApproveFromServer
<1>4. CASE TruncateForCommand(c)
  BY <1>0, <1>4 DEF TruncateForCommand, Truncate, Approvals
<1>5. CASE FillForCommand(c)
  <2>1. command[c].pin \in Pins \union Hashless /\ command[c].pin.agg \in granted
    BY <1>0, <1>5 DEF FillForCommand, Approvals
  <2>2. FileIsGranted'
    BY <1>5, <2>1, FillResults DEF FillForCommand
  <2> QED
    BY <1>0, <1>5, <2>2 DEF FillForCommand, Approvals
<1>6. CASE CleanupForCommand(c)
  BY <1>0, <1>6 DEF CleanupForCommand
<1> QED
  BY <1>2, <1>3, <1>4, <1>5, <1>6 DEF Approval

\* The invariant of the shared pin file: whatever is in it or on its way there
\* was granted, however the processes interleave, fail or die.
THEOREM Invariant == Spec => []Inv
<1>1. Init => Inv
  <2> SUFFICES ASSUME Init PROVE Inv
    OBVIOUS
  <2> USE DEF Init
  <2>1. Rest \in Evaluations /\ Unused \in Approvals
    BY EvaluationStarts DEF Unused, Approvals, CommandSteps
  <2>2. granted \in SUBSET (Catalogs \union {BadCatalog})
    BY DEF Pins
  <2>3. wrap \in [Wraps -> Evaluations] /\ command \in [Commands -> Approvals]
    BY <2>1
  <2>4. tokens \in 0 .. MaxTokens /\ spent \in 0 .. 2
    OBVIOUS
  <2>5. TypeOK
    BY <2>2, <2>3, <2>4 DEF TypeOK
  <2> QED
    BY <2>5 DEF Inv, FileIsGranted, WritesAreGranted, Rest, Unused
<1>2. Inv /\ [Next]_vars => Inv'
  <2> SUFFICES ASSUME Inv, [Next]_vars PROVE FileIsGranted' /\ WritesAreGranted'
    BY TypeStep DEF Inv
  <2> USE DEF Inv, FileIsGranted, WritesAreGranted
  <2>1. CASE LeaveToken
    BY <2>1 DEF LeaveToken
  <2>2. ASSUME NEW f \in Pins \union {Missing, Torn}, Edit(f)
        PROVE  FileIsGranted' /\ WritesAreGranted'
    BY <2>2 DEF Edit
  <2>3. CASE UNCHANGED vars
    BY <2>3 DEF vars
  <2> QED
    BY <2>1, <2>2, <2>3, GrantedStepOfWrap, GrantedStepOfCommand DEF Next
<1> QED
  BY <1>1, <1>2, PTL DEF Spec

\* Type correctness: every file the processes leave is a pin, a pin without a
\* hash, torn or missing.
THEOREM TypeCorrect == Spec => []TypeOK
<1>1. Inv => TypeOK
  BY DEF Inv
<1> QED
  BY <1>1, Invariant, PTL

(***************************************************************************)
(* The shared pin file implements TrustedPin.                              *)
(***************************************************************************)

\* A step that keeps the valid pin of the file, if any, and opens nothing.
LEMMA LooksClosed ==
  ASSUME Trusted' = Trusted, granted' = granted, open' = None
  PROVE  Abstract!Next
BY DEF Abstract!Next, Abstract!Close

\* A step after which the file does not verify.
LEMMA LooksLost ==
  ASSUME Trusted' = None, granted' = granted, open' = None
  PROVE  Abstract!Next
BY DEF Abstract!Next, Abstract!Lose

\* A step that leaves a granted pin in the file.
LEMMA LooksInstalled ==
  ASSUME Trusted' \in granted, granted' = granted, open' = None
  PROVE  Abstract!Next
BY DEF Abstract!Next, Abstract!Install

\* A person grants c, and the file is left alone or holds its pin.
LEMMA LooksGranted ==
  ASSUME NEW c \in Catalogs \union {BadCatalog},
         granted' = granted \union {c}, Trusted' \in {Trusted, c}, open' = None
  PROVE  Abstract!Next
BY DEF Abstract!Next, Abstract!Grant

\* The file after Fill(p) is as before, or holds p, or does not verify.
LEMMA FillTrusted ==
  ASSUME NEW p \in Pins \union Hashless, Fill(p), p.agg \in granted
  PROVE  Trusted' = None \/ Trusted' \in granted
BY FillResults DEF Trusted

\* No order of reads, writes, failures and deaths of any number of wraps and
\* approve commands opens the gate for a catalog that is not in the file at
\* that moment, and nothing is in the file that no person granted.
THEOREM Refinement == Spec => ImplementsTrustedPin
<1>1. Init => Abstract!Init
  BY DEF Init, Abstract!Init, Trusted, Pins
<1>2. Inv /\ [Next]_vars => [Abstract!Next]_(Abstract!vars)
  <2> SUFFICES ASSUME Inv, [Next]_vars PROVE [Abstract!Next]_(Abstract!vars)
    OBVIOUS
  <2> USE DEF Quiet
  <2>0. TypeOK /\ FileIsGranted /\ WritesAreGranted
    BY DEF Inv
  <2>1. file' = file => Trusted' = Trusted
    BY DEF Trusted
  <2>2. ASSUME NEW w \in Wraps, Evaluation(w) PROVE Abstract!Next
    <3>0. wrap[w] \in Evaluations
      BY <2>0 DEF TypeOK
    <3>1. ASSUME NEW p, Decide(w, p), p \in {None, Parsed}, UNCHANGED <<file, granted>>
          PROVE  Abstract!Next
      <4>1. CASE open' = None
        BY <2>1, <3>1, <4>1, LooksClosed
      <4>2. CASE open' # None
        <5>1. Verdict(p, wrap[w].live) = "OK" /\ open' = wrap[w].live
          BY <3>1, <4>2 DEF Decide
        <5>2. p # None /\ p.agg = wrap[w].live /\ wrap[w].live # BadCatalog
          BY <5>1, VerdictIsOK
        <5>3. file \in Pins /\ Trusted = wrap[w].live
          BY <3>1, <5>2 DEF Parsed, Hashless, Trusted
        <5> QED
          BY <2>1, <3>1, <4>2, <5>1, <5>3 DEF Abstract!Next, Abstract!Open
      <4> QED
        BY <4>1, <4>2
    <3>2. CASE InspectForGate(w)
      BY <2>1, <3>1, <3>2, LooksClosed DEF InspectForGate
    <3>3. CASE ReadAndEvaluate(w)
      BY <3>1, <3>3 DEF ReadAndEvaluate
    <3>4. CASE \/ \E live \in Catalogs \union {BadCatalog} : Start(w, live)
               \/ Inspect(w) \/ ReadOldHash(w) \/ Consume(w) \/ Cleanup(w)
               \/ SaveSnapshot(w) \/ WrapDies(w)
      BY <2>1, <3>4, LooksClosed
         DEF Start, Inspect, ReadOldHash, Consume, Cleanup, SaveSnapshot, WrapDies
    <3>5. CASE Grant(w)
      <4>1. wrap[w].live \in Catalogs \union {BadCatalog}
        BY <2>0, <3>0, <3>5 DEF Grant, WritesAreGranted, Evaluations
      <4> QED
        BY <2>1, <3>5, <4>1, LooksClosed, LooksGranted DEF Grant
    <3>6. CASE TruncateForWrap(w)
      <4>1. Truncate => Trusted' = None
        BY DEF Truncate, Trusted
      <4> QED
        BY <2>1, <3>6, <4>1, LooksClosed, LooksLost DEF TruncateForWrap
    <3>7. CASE FillForWrap(w)
      <4>1. /\ Pin(wrap[w].live, Own) \in Pins \union Hashless
            /\ Pin(wrap[w].live, Own).agg \in granted
        BY <2>0, <3>0, <3>7 DEF FillForWrap, WritesAreGranted, Evaluations, Pin, Pins, Hashless
      <4>2. file' = file \/ Trusted' = None \/ Trusted' \in granted
        BY <3>7, <4>1, FillTrusted DEF FillForWrap
      <4> QED
        BY <2>1, <3>7, <4>2, LooksClosed, LooksLost, LooksInstalled DEF FillForWrap
    <3> QED
      BY <2>2, <3>2, <3>3, <3>4, <3>5, <3>6, <3>7 DEF Evaluation
  <2>3. ASSUME NEW c \in Commands, Approval(c) PROVE Abstract!Next
    <3>1. ASSUME NEW p \in Pins \union Hashless, Approve(c, p) PROVE Abstract!Next
      <4>1. p.agg \in Catalogs \union {BadCatalog}
        BY DEF Pins, Hashless
      <4> QED
        BY <2>1, <3>1, <4>1, LooksGranted DEF Approve
    <3>2. CASE ApproveFromPending(c)
      <4>1. Pin(snapshot, Own) \in Pins
        BY <3>2 DEF ApproveFromPending, Pin, Pins
      <4> QED
        BY <3>1, <3>2, <4>1 DEF ApproveFromPending
    <3>3. ASSUME NEW live \in Catalogs \union {BadCatalog}, NEW f \in Fingerprints,
                 ApproveFromServer(c, live, f)
          PROVE  Abstract!Next
      <4>1. Pin(live, f) \in Pins \union Hashless
        BY DEF Pin, Pins, Hashless
      <4> QED
        BY <3>1, <3>3, <4>1 DEF ApproveFromServer
    <3>4. CASE TruncateForCommand(c)
      <4>1. Truncate => Trusted' = None
        BY DEF Truncate, Trusted
      <4> QED
        BY <2>1, <3>4, <4>1, LooksClosed, LooksLost DEF TruncateForCommand
    <3>5. CASE FillForCommand(c)
      <4>1. command[c].pin \in Pins \union Hashless /\ command[c].pin.agg \in granted
        BY <2>0, <3>5 DEF FillForCommand, WritesAreGranted, TypeOK, Approvals
      <4>2. file' = file \/ Trusted' = None \/ Trusted' \in granted
        BY <3>5, <4>1, FillTrusted DEF FillForCommand
      <4> QED
        BY <2>1, <3>5, <4>2, LooksClosed, LooksLost, LooksInstalled DEF FillForCommand
    <3>6. CASE CleanupForCommand(c)
      BY <2>1, <3>6, LooksClosed DEF CleanupForCommand
    <3> QED
      BY <2>3, <3>2, <3>3, <3>4, <3>5, <3>6 DEF Approval
  <2>4. CASE LeaveToken
    BY <2>1, <2>4, LooksClosed DEF LeaveToken
  <2>5. ASSUME NEW f \in Pins \union {Missing, Torn}, Edit(f) PROVE Abstract!Next
    <3>1. CASE f \in Pins
      <4>1. Trusted' = f.agg /\ f.agg \in Catalogs
        BY <2>5, <3>1 DEF Edit, Trusted, Pins
      <4> QED
        BY <2>5, <3>1, <4>1, LooksGranted DEF Edit
    <3>2. CASE f \notin Pins
      BY <2>5, <3>2, LooksLost DEF Edit, Trusted
    <3> QED
      BY <3>1, <3>2
  <2>6. CASE UNCHANGED vars
    BY <2>1, <2>6 DEF vars, Abstract!vars
  <2> QED
    BY <2>2, <2>3, <2>4, <2>5, <2>6 DEF Next
<1> QED
  BY <1>1, <1>2, Invariant, PTL DEF ImplementsTrustedPin, Abstract!Spec, Spec

(***************************************************************************)
(* What holds when the processes run one at a time.                        *)
(***************************************************************************)

\* Whoever takes a step is alone: all others rest, and go on resting.
LEMMA WrapIsAlone ==
  ASSUME Exclusive, TypeOK, OneRuns, NEW w \in Wraps, Evaluation(w)
  PROVE  \A b \in (Wraps \union Commands) \ {w} : Resting(b) /\ Resting(b)'
<1>1. ASSUME NEW live \in Catalogs \union {BadCatalog}, Start(w, live)
      PROVE  \A b \in (Wraps \union Commands) \ {w} : Resting(b)
  BY <1>1 DEF Start, OthersRest
<1>2. ASSUME wrap[w].at # "idle" PROVE \A b \in (Wraps \union Commands) \ {w} : Resting(b)
  BY <1>2 DEF OneRuns, Resting
<1>3. \A b \in (Wraps \union Commands) \ {w} : Resting(b)
  BY <1>1, <1>2 DEF Evaluation, InspectForGate, ReadAndEvaluate, Inspect, ReadOldHash, Grant,
     TruncateForWrap, FillForWrap, Consume, Cleanup, SaveSnapshot, WrapDies
<1> QED
  BY <1>3, WrapKeepsOthers DEF Resting

LEMMA CommandIsAlone ==
  ASSUME Exclusive, TypeOK, OneRuns, NEW c \in Commands, Approval(c)
  PROVE  \A b \in (Wraps \union Commands) \ {c} : Resting(b) /\ Resting(b)'
<1>1. ASSUME NEW p, Approve(c, p) PROVE \A b \in (Wraps \union Commands) \ {c} : Resting(b)
  BY <1>1 DEF Approve, OthersRest
<1>2. ASSUME command[c].at # "idle" PROVE \A b \in (Wraps \union Commands) \ {c} : Resting(b)
  BY <1>2 DEF OneRuns, Resting
<1>3. \A b \in (Wraps \union Commands) \ {c} : Resting(b)
  BY <1>1, <1>2 DEF Approval, ApproveFromPending, ApproveFromServer, TruncateForCommand,
     FillForCommand, CleanupForCommand
<1> QED
  BY <1>3, CommandKeepsOthers DEF Resting

\* A step of the operator leaves the processes alone, and touches the files
\* only while they all rest.
LEMMA OperatorSteps ==
  ASSUME Exclusive, [Next]_vars
  PROVE  \/ \E w \in Wraps : Evaluation(w)
         \/ \E c \in Commands : Approval(c)
         \/ /\ UNCHANGED <<wrap, command>>
            /\ UNCHANGED <<file, token, spent>> \/ \A b \in Wraps \union Commands : Resting(b)
            /\ \/ UNCHANGED <<token, spent>>
               \/ spent' = 0
            /\ audit' \in {None, audit}
            /\ UNCHANGED file \/ UNCHANGED token
BY DEF Next, LeaveToken, Edit, NobodyRuns, Quiet, vars

\* Never two at once.
LEMMA OneRunsStep == ASSUME Exclusive, InvAlone, [Next]_vars PROVE OneRuns'
<1> USE DEF InvAlone, Inv
<1>1. ASSUME NEW w \in Wraps, Evaluation(w) PROVE OneRuns'
  BY <1>1, WrapIsAlone DEF OneRuns
<1>2. ASSUME NEW c \in Commands, Approval(c) PROVE OneRuns'
  BY <1>2, CommandIsAlone DEF OneRuns
<1>3. CASE UNCHANGED <<wrap, command>>
  BY <1>3 DEF OneRuns, Resting
<1> QED
  BY <1>1, <1>2, <1>3, OperatorSteps

\* What a wrap found in the file is still true in its next step.
LEMMA StillTrueStep ==
  ASSUME Exclusive, InvAlone, [Next]_vars, NEW v \in Wraps
  PROVE  StillTrue(v)'
<1> USE DEF InvAlone, Inv, TypeOK, StillTrue
<1>0. wrap[v] \in Evaluations /\ Rest.at = "idle" /\ StillTrue(v)
  BY DEF Rest
<1>1. ASSUME Resting(v)' PROVE StillTrue(v)'
  BY <1>1 DEF Resting
<1>2. ASSUME UNCHANGED <<wrap, file>> PROVE StillTrue(v)'
  BY <1>0, <1>2 DEF FileState
<1>3. ASSUME NEW w \in Wraps, Evaluation(w), w # v PROVE StillTrue(v)'
  BY <1>1, <1>3, WrapIsAlone
<1>4. ASSUME NEW c \in Commands, Approval(c) PROVE StillTrue(v)'
  BY <1>1, <1>4, CommandIsAlone
<1>5. ASSUME Evaluation(v) PROVE StillTrue(v)'
  <2> USE DEF Go, End
  <2>1. ASSUME NEW p \in Pins \union Hashless \union {None}, Decide(v, p),
               p # None => file = p, file' = file
        PROVE  StillTrue(v)'
    BY <1>0, <2>1 DEF Decide, Evaluations
  <2>2. CASE \/ \E live \in Catalogs \union {BadCatalog} : Start(v, live)
             \/ Cleanup(v) \/ SaveSnapshot(v) \/ WrapDies(v)
    <3>1. wrap'[v].at \in {"idle", "inspect"}
      BY <2>2, WrapForgets
    <3> QED
      BY <3>1
  <2>3. CASE InspectForGate(v)
    BY <1>0, <2>1, <2>3 DEF InspectForGate, Evaluations
  <2>4. CASE ReadAndEvaluate(v)
    BY <2>1, <2>4 DEF ReadAndEvaluate, Parsed
  <2>5. CASE Inspect(v)
    BY <1>0, <2>5 DEF Inspect, Evaluations, FileState
  <2>6. CASE ReadOldHash(v)
    BY <1>0, <2>6 DEF ReadOldHash, Evaluations, FileState
  <2>7. CASE Grant(v)
    <3>1. TokenGrants(v) => wrap[v].state \in {"absent", "ok"}
      BY <1>0 DEF TokenGrants, FirstPin, Repin, Evaluations, FileStates
    <3>2. BootstrapGrants(v) => wrap[v].state = "absent" /\ ~TokenGrants(v)
      BY DEF BootstrapGrants, FirstPin
    <3>3. FileState' = FileState
      BY <2>7 DEF Grant, FileState
    <3> QED
      BY <1>0, <2>7, <3>1, <3>2, <3>3 DEF Grant, Evaluations
  <2>8. CASE TruncateForWrap(v)
    BY <1>0, <2>8 DEF TruncateForWrap, Truncate, Evaluations
  <2>9. CASE FillForWrap(v)
    <3>1. file' = Pin(wrap[v].live, Own) \/ wrap'[v].at = "snapshot"
      BY <1>0, <2>9, FillResults DEF FillForWrap, Evaluations
    <3> QED
      BY <1>0, <2>9, <3>1 DEF FillForWrap, Evaluations
  <2>10. CASE Consume(v)
    BY <1>0, <2>10 DEF Consume, Evaluations
  <2> QED
    BY <1>5, <2>2, <2>3, <2>4, <2>5, <2>6, <2>7, <2>8, <2>9, <2>10 DEF Evaluation
<1>6. ASSUME UNCHANGED <<wrap, command>>, \A b \in Wraps \union Commands : Resting(b)
      PROVE  StillTrue(v)'
  BY <1>1, <1>6 DEF Resting
<1> QED
  BY <1>2, <1>3, <1>4, <1>5, <1>6, OperatorSteps

\* The invariant of processes that run one at a time, whether or not they fail.
THEOREM AloneInvariant == ASSUME Exclusive PROVE Spec => []InvAlone
<1>1. Init => OneRuns /\ \A w \in Wraps : StillTrue(w)
  BY DEF Init, OneRuns, Resting, StillTrue, Rest, Unused
<1>2. InvAlone /\ Inv' /\ [Next]_vars => InvAlone'
  BY OneRunsStep, StillTrueStep DEF InvAlone
<1>3. InvAlone <=> Inv /\ OneRuns /\ \A w \in Wraps : StillTrue(w)
  BY DEF InvAlone
<1> QED
  BY <1>1, <1>2, <1>3, Invariant, PTL DEF Spec

\* --approve and the URL replace no valid pin, as long as nobody else writes the
\* file between the look at it and the write (sidecar/approve.go:103).
THEOREM Bootstrap == ASSUME Exclusive PROVE Spec => BootstrapIsFirstPinOnly
<1>1. InvAlone => \A w \in Wraps : Overwrites(w) /\ ~wrap[w].byToken => file \notin Pins
  BY DEF InvAlone, StillTrue, Overwrites, FileState
<1> QED
  BY <1>1, AloneInvariant, PTL DEF BootstrapIsFirstPinOnly

\* No grant repairs a pin file that does not verify, through every sequence of
\* edits, tokens, failures and evaluations (sidecar/approve.go:102).
THEOREM Tampered == ASSUME Exclusive PROVE Spec => TamperedStaysShut
<1>1. InvAlone => \A w \in Wraps : Overwrites(w) => file \in Pins \union {Missing}
  BY DEF InvAlone, StillTrue, Overwrites, FileState
<1> QED
  BY <1>1, AloneInvariant, PTL DEF TamperedStaysShut

\* The audit line of a re-approval names the pin that was compared and the pin
\* that is now in the file (sidecar/approve.go:141).
THEOREM Reapproval == ASSUME Exclusive PROVE Spec => ReapprovalTransition
<1> DEFINE Told == audit' # None =>
                     /\ audit'.new = Trusted'
                     /\ \E w \in Wraps : wrap[w].at = "cleanup" /\ Hash(wrap[w].gate) = audit'.old
<1>1. InvAlone /\ [Next]_vars => [Told]_vars
  <2> SUFFICES ASSUME InvAlone, Next PROVE Told
    BY DEF vars
  <2> USE DEF InvAlone, Inv, TypeOK, Quiet
  <2>1. ASSUME NEW w \in Wraps, Cleanup(w), audit' # None PROVE Told
    <3>1. wrap[w].old # None /\ Code(w) \in Drift /\ audit' = [old |-> wrap[w].old, new |-> wrap[w].live]
      BY <2>1 DEF Cleanup
    <3>2. wrap[w].gate # None /\ wrap[w].live # BadCatalog
      BY <3>1, VerdictIsDrift DEF Code
    <3>3. wrap[w].live \in Catalogs
      BY <2>1, <3>2 DEF Cleanup, WritesAreGranted, Evaluations
    <3>4. Hash(wrap[w].gate) = wrap[w].old
      BY <2>1, <3>1, <3>2 DEF Cleanup, StillTrue, Hash
    <3>5. file = Pin(wrap[w].live, Own) /\ file' = file
      BY <2>1 DEF Cleanup, StillTrue
    <3>6. Trusted' = wrap[w].live
      BY <3>3, <3>5 DEF Trusted, Pin, Pins
    <3> QED
      BY <2>1, <3>1, <3>4, <3>6 DEF Cleanup
  <2>2. ASSUME NEW w \in Wraps, Evaluation(w), ~Cleanup(w) PROVE audit' = None
    BY <2>2 DEF Evaluation, Start, InspectForGate, ReadAndEvaluate, Decide, Inspect, ReadOldHash,
       Grant, TruncateForWrap, FillForWrap, Consume, SaveSnapshot, WrapDies
  <2>3. ASSUME NEW c \in Commands, Approval(c) PROVE audit' = None
    BY <2>3 DEF Approval, ApproveFromPending, ApproveFromServer, Approve, TruncateForCommand,
       FillForCommand, CleanupForCommand
  <2>4. CASE LeaveToken \/ \E f \in Pins \union {Missing, Torn} : Edit(f)
    BY <2>4 DEF LeaveToken, Edit
  <2> QED
    BY <2>1, <2>2, <2>3, <2>4 DEF Next
<1> QED
  BY <1>1, AloneInvariant, PTL DEF Spec, ReapprovalTransition

\* A token that can be removed after the write is removed before it can grant
\* anything else.
LEMMA TokenStepOfWrap ==
  ASSUME Exclusive, ~Failures, InvToken, NEW w \in Wraps, Evaluation(w)
  PROVE  TokenIsFresh' /\ OneTokenOnePromotion'
<1> USE DEF InvToken, InvAlone, Inv, TypeOK, TokenIsFresh, OneTokenOnePromotion, Go, End
<1> DEFINE Goal == TokenIsFresh' /\ OneTokenOnePromotion'
<1>0. wrap[w] \in Evaluations /\ Rest.at = "idle"
  BY DEF Rest
<1>1. \A v \in Wraps \ {w} : wrap[v].at = "idle" /\ wrap'[v].at = "idle"
  BY WrapIsAlone DEF Resting
<1>2. ASSUME UNCHANGED <<token, spent>>,
             wrap[w].at # "consume",
             wrap'[w].at \in {"truncate", "write"} /\ wrap'[w].byToken => token
      PROVE  Goal
  BY <1>1, <1>2
<1>3. CASE \/ \E live \in Catalogs \union {BadCatalog} : Start(w, live)
           \/ Cleanup(w) \/ SaveSnapshot(w)
  <2>1. wrap'[w].at \in {"idle", "inspect"}
    BY <1>3, WrapForgets
  <2> QED
    BY <1>2, <1>3, <2>1 DEF Start, Cleanup, SaveSnapshot
<1>4. ASSUME NEW p, Decide(w, p), wrap[w].at # "consume", UNCHANGED <<token, spent>> PROVE Goal
  <2>1. wrap'[w].at \notin {"truncate", "write"}
    BY <1>0, <1>4 DEF Decide, Evaluations
  <2> QED
    BY <1>2, <1>4, <2>1
<1>5. CASE InspectForGate(w) \/ ReadAndEvaluate(w)
  <2>1. wrap[w].at # "consume" /\ UNCHANGED <<token, spent>>
    BY <1>5 DEF InspectForGate, ReadAndEvaluate
  <2>2. (\E p : Decide(w, p)) \/ wrap'[w].at = "read"
    BY <1>0, <1>5 DEF InspectForGate, ReadAndEvaluate, Evaluations
  <2> QED
    BY <1>2, <1>4, <2>1, <2>2
<1>6. CASE Inspect(w) \/ ReadOldHash(w)
  <2>1. wrap'[w].at \in {"hash", "grant"}
    BY <1>0, <1>6 DEF Inspect, ReadOldHash, Evaluations
  <2> QED
    BY <1>2, <1>6, <2>1 DEF Inspect, ReadOldHash
<1>7. CASE Grant(w)
  <2>1. wrap'[w].at = "truncate" /\ wrap'[w].byToken => token
    BY <1>0, <1>7 DEF Grant, TokenGrants, Evaluations
  <2>2. wrap'[w].at # "write"
    BY <1>0, <1>7 DEF Grant, Evaluations
  <2> QED
    BY <1>2, <1>7, <2>1, <2>2 DEF Grant
<1>8. CASE TruncateForWrap(w)
  <2>1. wrap'[w].byToken = wrap[w].byToken
    BY <1>0, <1>8 DEF TruncateForWrap, Evaluations
  <2> QED
    BY <1>2, <1>8, <2>1 DEF TruncateForWrap
<1>9. CASE FillForWrap(w)
  <2>1. CASE wrap[w].byToken
    <3>1. token /\ spent = 0
      BY <1>1, <1>9, <2>1 DEF FillForWrap
    <3>2. token' = token /\ spent' = 1 /\ wrap'[w].at = "consume"
      BY <1>0, <1>9, <2>1, <3>1 DEF FillForWrap, Evaluations
    <3> QED
      BY <1>1, <3>2
  <2>2. CASE ~wrap[w].byToken
    <3>1. UNCHANGED <<token, spent>> /\ wrap'[w].at = "cleanup"
      BY <1>0, <1>9, <2>2 DEF FillForWrap, Evaluations
    <3> QED
      BY <1>2, <1>9, <3>1 DEF FillForWrap
  <2> QED
    BY <2>1, <2>2
<1>10. CASE Consume(w)
  <2>1. ~token' /\ spent' = spent /\ wrap'[w].at = "cleanup"
    BY <1>0, <1>10 DEF Consume, Evaluations
  <2> QED
    BY <1>1, <2>1
<1>11. ~WrapDies(w)
  BY DEF WrapDies
<1> QED
  BY <1>3, <1>5, <1>6, <1>7, <1>8, <1>9, <1>10, <1>11 DEF Evaluation

\* One approve token writes at most one pin, as long as the processes run one at
\* a time and the token can be removed (sidecar/config.go:28).
THEOREM OneToken == ASSUME Exclusive, ~Failures PROVE Spec => []OneTokenOnePromotion
<1>1. Init => TokenIsFresh /\ OneTokenOnePromotion
  BY DEF Init, TokenIsFresh, OneTokenOnePromotion, Rest
<1>2. InvToken /\ InvAlone' /\ [Next]_vars => InvToken'
  <2> SUFFICES ASSUME InvToken, [Next]_vars PROVE TokenIsFresh' /\ OneTokenOnePromotion'
    BY DEF InvToken
  <2> USE DEF InvToken, TokenIsFresh, OneTokenOnePromotion
  <2>1. ASSUME NEW c \in Commands, Approval(c) PROVE TokenIsFresh' /\ OneTokenOnePromotion'
    <3>1. UNCHANGED <<token, spent>>
      BY <2>1 DEF Approval, ApproveFromPending, ApproveFromServer, Approve, TruncateForCommand,
         FillForCommand, CleanupForCommand
    <3>2. wrap' = wrap
      BY <2>1, CommandKeepsOthers DEF InvAlone, Inv
    <3> QED
      BY <3>1, <3>2
  <2>2. CASE LeaveToken
    <3>1. \A w \in Wraps : wrap[w].at = "idle"
      BY <2>2 DEF LeaveToken, NobodyRuns, Resting
    <3> QED
      BY <2>2, <3>1 DEF LeaveToken
  <2>3. ASSUME NEW f \in Pins \union {Missing, Torn}, Edit(f)
        PROVE  TokenIsFresh' /\ OneTokenOnePromotion'
    BY <2>3 DEF Edit
  <2>4. CASE UNCHANGED vars
    BY <2>4 DEF vars
  <2> QED
    BY <2>1, <2>2, <2>3, <2>4, TokenStepOfWrap DEF Next
<1>3. InvToken => OneTokenOnePromotion
  BY DEF InvToken
<1>4. InvToken <=> InvAlone /\ TokenIsFresh /\ OneTokenOnePromotion
  BY DEF InvToken
<1> QED
  BY <1>1, <1>2, <1>3, <1>4, AloneInvariant, PTL DEF Spec
=============================================================================
