------------------------------ MODULE Headless ------------------------------
(***************************************************************************)
(* The pin file as the guard's processes share it without a terminal:      *)
(* evaluateLive of every wrap (sidecar/wrap.go) with its headless grants   *)
(* (sidecar/approve.go), the `deadbugz-guard approve` command, and the     *)
(* operator who leaves approve tokens and edits or loses the file.         *)
(*                                                                         *)
(* A process may be preempted, or die, between any two file operations, so *)
(* each read, truncation, write and removal is one step.  A wrap evaluates *)
(* one listing at a time (gateMu).  The gate it evaluates with is rebuilt  *)
(* from the file on every call, so no gate state outlives an evaluation,   *)
(* and every pin is written as "pin-1", so pins have no revision here.     *)
(***************************************************************************)
EXTENDS Integers

CONSTANTS
  Catalogs,      \* snapshots with a hash, one per Aggregate
  BadCatalog,    \* a snapshot HashCatalog refuses
  Fingerprints,  \* values of config_fingerprint
  Own,           \* the fingerprint of the argv and env of the wraps
  None,          \* nothing: no pin, no snapshot, no fingerprint, no event
  Missing,       \* the pin file cannot be read
  Torn,          \* the pin file does not parse: truncated, half written, damaged
  Wraps,         \* running `deadbugz-guard -- <server>` processes
  Commands,      \* runs of `deadbugz-guard approve`
  Flag,          \* TRUE if the wraps run with --approve
  Http,          \* TRUE if the wraps run with DEADBUGZ_APPROVE=<url>
  Exclusive,     \* TRUE: no one else touches the files during an evaluation
  Failures,      \* TRUE: writes may fail and processes may die
  MaxTokens      \* bound: tokens the operator leaves

ASSUME OwnAssumption == Own \in Fingerprints /\ None \notin Fingerprints
ASSUME SwitchAssumption == {Flag, Http, Exclusive, Failures} \subseteq BOOLEAN
ASSUME TokenAssumption == MaxTokens \in Nat
ASSUME HeadlessCatalogs == BadCatalog \notin Catalogs /\ None \notin Catalogs \union {BadCatalog}

\* A pin of tools/list c with the fingerprint f; legacy pins have none.
Pin(c, f) == [agg |-> c, fp |-> f]
Pins == [agg : Catalogs, fp : Fingerprints \union {None}]

\* PinTools of a bad catalog: a file that parses and that VerifyPin rejects.
Hashless == [agg : {BadCatalog}, fp : Fingerprints]

ASSUME HeadlessFiles ==
  {Missing, Torn, None} \intersect (Pins \union Hashless) = {} /\ Missing # Torn
ASSUME HeadlessProcesses == Wraps \intersect Commands = {}

VARIABLES
  file,      \* the pin file
  token,     \* the approve file is there and says yes
  snapshot,  \* the catalog in <pin>.pending, or None
  wrap,      \* wrap -> its evaluation in progress
  command,   \* approve command -> where it is
  tokens,    \* history: tokens left so far
  spent,     \* history: pins written with the present token: 0, 1, or 2 for more
  granted,   \* history: every catalog a person granted
  open,      \* what the latest step let through, or None
  audit      \* the "approved" event the latest step recorded, or None

vars == <<file, token, snapshot, wrap, command, tokens, spent, granted, open, audit>>

Drift == {"tools_list_drift", "config_or_inventory_changed", "DIFF_NONEMPTY"}
FileStates == {"absent", "ok", "tampered"}
WrapSteps == {"idle", "inspect", "read", "reinspect", "hash", "grant", "truncate", "write",
              "consume", "cleanup", "snapshot"}
CommandSteps == {"idle", "truncate", "write", "cleanup"}

\* live: the listing; gate: the pin w.Gate holds; state: what the second
\* inspection found; old: the hash for the audit's oldHash; byToken: the grant
\* is the token; again: the evaluation after a promotion.
Evaluations ==
  [at : WrapSteps, live : Catalogs \union {BadCatalog, None}, gate : Pins \union Hashless \union {None},
   state : FileStates, old : Catalogs \union {None}, byToken : BOOLEAN, again : BOOLEAN]
Rest == [at |-> "idle", live |-> None, gate |-> None, state |-> "ok", old |-> None,
         byToken |-> FALSE, again |-> FALSE]

\* pin: the pin the command is writing.
Approvals == [at : CommandSteps, pin : Pins \union Hashless \union {None}]
Unused == [at |-> "idle", pin |-> None]

Parsed == IF file \in Pins \union Hashless THEN file ELSE None
Hash(p) == IF p = None THEN None ELSE p.agg

\* Mutant of FileState: a file that does not verify counts as no file.
FileStateLax == IF file \in Pins THEN "ok" ELSE "absent"

\* InspectPinFile.
FileState == IF file \in Pins THEN "ok" ELSE IF file = Missing THEN "absent" ELSE "tampered"

Quiet == open' = None /\ audit' = None

(***************************************************************************)
(* writeJSONFile truncates the pin file in place and then fills it; other  *)
(* processes see the gap.  Two writers at once can leave a mixture; a file *)
(* removed in the gap stays removed.                                       *)
(***************************************************************************)
Truncate == file' = Torn
Fill(p) == file' \in IF file = Missing THEN {Missing} ELSE IF file = Torn THEN {p} ELSE {p, Torn}

(***************************************************************************)
(* evaluateLive: rebuild the gate from the file and evaluate.              *)
(***************************************************************************)
Resting(a) == IF a \in Wraps THEN wrap[a].at = "idle" ELSE command[a].at = "idle"
OthersRest(a) == Exclusive => \A b \in (Wraps \union Commands) \ {a} : Resting(b)
NobodyRuns == Exclusive => \A b \in Wraps \union Commands : Resting(b)

Go(w, step) == wrap' = [wrap EXCEPT ![w].at = step]
End(w) == wrap' = [wrap EXCEPT ![w] = Rest]

Start(w, live) ==
  /\ wrap[w].at = "idle" /\ OthersRest(w)
  /\ wrap' = [wrap EXCEPT ![w] = [Rest EXCEPT !.at = "inspect", !.live = live]]
  /\ Quiet
  /\ UNCHANGED <<file, token, snapshot, command, tokens, spent, granted>>

\* MemoryGate.Evaluate of a fresh gate that holds p and has SetConfig(Own).
Verdict(p, live) ==
  CASE p = None -> "PIN_MISSING"
    [] p # None /\ live = BadCatalog -> "INTERNAL_ERROR"
    [] p # None /\ live # BadCatalog /\ p.fp \notin {None, Own} -> "config_or_inventory_changed"
    [] p # None /\ live # BadCatalog /\ p.fp \in {None, Own} /\ p.agg = live -> "OK"
    [] p # None /\ live # BadCatalog /\ p.fp = None /\ p.agg # live -> "DIFF_NONEMPTY"
    [] OTHER -> "tools_list_drift"

Code(w) == Verdict(wrap[w].gate, wrap[w].live)

\* The gate holds p: the listing passes, or the first denial asks for a grant,
\* or the denial after a promotion leaves a snapshot.
Decide(w, p) ==
  LET code == Verdict(p, wrap[w].live)
      next == IF wrap[w].again THEN "snapshot" ELSE "reinspect"
  IN  /\ IF code = "OK" THEN End(w)
         ELSE wrap' = [wrap EXCEPT ![w].at = next, ![w].gate = p]
      /\ open' = IF code = "OK" THEN wrap[w].live ELSE None
      /\ audit' = None

\* GateFromPinFile: a file that does not verify leaves the gate empty.
InspectForGate(w) ==
  /\ wrap[w].at = "inspect"
  /\ IF FileState = "ok" THEN Go(w, "read") /\ Quiet ELSE Decide(w, None)
  /\ UNCHANGED <<file, token, snapshot, command, tokens, spent, granted>>

\* The second read is not verified; whatever parses is installed.
ReadAndEvaluate(w) ==
  /\ wrap[w].at = "read"
  /\ Decide(w, Parsed)
  /\ UNCHANGED <<file, token, snapshot, command, tokens, spent, granted>>

(***************************************************************************)
(* ApplyNonTTYApprove, for the first denial of an evaluation.              *)
(***************************************************************************)
Inspect(w) ==
  /\ wrap[w].at = "reinspect"
  /\ wrap' = [wrap EXCEPT ![w].state = FileState, ![w].at = "hash"]
  /\ Quiet
  /\ UNCHANGED <<file, token, snapshot, command, tokens, spent, granted>>

\* Mutant of ReadOldHash: a file that parses is taken as it is, unverified.
ReadOldHashUnverified(w) ==
  /\ wrap[w].at = "hash"
  /\ wrap' = [wrap EXCEPT ![w].old = Hash(Parsed), ![w].at = "grant"]
  /\ Quiet
  /\ UNCHANGED <<file, token, snapshot, command, tokens, spent, granted>>

\* pinFileHash reads the file a fourth time; a hashless pin has no hash.
ReadOldHash(w) ==
  /\ wrap[w].at = "hash"
  /\ wrap' = [wrap EXCEPT ![w].old = IF file \in Pins THEN file.agg ELSE None, ![w].at = "grant"]
  /\ Quiet
  /\ UNCHANGED <<file, token, snapshot, command, tokens, spent, granted>>

\* Mutant of FirstPin: --approve also answers for drift.
FirstPinOrDrift(w) == wrap[w].state # "tampered" /\ Code(w) \in Drift \union {"PIN_MISSING"}

\* allowNonTTYApprove: the flag and the URL grant a first pin, the token a
\* first pin or a drift, and nothing repairs a tampered pin.
FirstPin(w) == wrap[w].state = "absent" /\ Code(w) = "PIN_MISSING"
Repin(w) == wrap[w].state # "tampered" /\ Code(w) \in Drift
TokenGrants(w) == token /\ (FirstPin(w) \/ Repin(w))
BootstrapGrants(w) == ~TokenGrants(w) /\ FirstPin(w) /\ (Flag \/ Http)

\* A server that is asked over HTTP may refuse, or not answer in time.
Grant(w) ==
  /\ wrap[w].at = "grant"
  /\ \/ /\ TokenGrants(w) \/ BootstrapGrants(w)
        /\ wrap' = [wrap EXCEPT ![w].at = "truncate", ![w].byToken = TokenGrants(w)]
        /\ granted' = granted \union {wrap[w].live}
     \/ /\ ~TokenGrants(w) /\ ~(Flag /\ FirstPin(w))
        /\ Go(w, "snapshot")
        /\ UNCHANGED granted
  /\ Quiet
  /\ UNCHANGED <<file, token, snapshot, command, tokens, spent>>

\* os.WriteFile opens with O_TRUNC; if it cannot, the old file stays.
TruncateForWrap(w) ==
  /\ wrap[w].at = "truncate"
  /\ \/ Truncate /\ Go(w, "write")
     \/ Failures /\ Go(w, "snapshot") /\ UNCHANGED file
  /\ Quiet
  /\ UNCHANGED <<token, snapshot, command, tokens, spent, granted>>

\* The pin is written; or the write fails half way; or Chmod fails after it,
\* an error that leaves the new pin and the token both in place.
FillForWrap(w) ==
  LET written == /\ Fill(Pin(wrap[w].live, Own))
                 /\ spent' = IF wrap[w].byToken /\ spent < 2 THEN spent + 1 ELSE spent
  IN  /\ wrap[w].at = "write"
      /\ \/ written /\ Go(w, IF wrap[w].byToken THEN "consume" ELSE "cleanup")
         \/ Failures /\ written /\ Go(w, "snapshot")
         \/ Failures /\ Go(w, "snapshot") /\ UNCHANGED <<file, spent>>
      /\ Quiet
      /\ UNCHANGED <<token, snapshot, command, tokens, granted>>

\* Mutant of Consume: the token stays.
ConsumeNothing(w) ==
  /\ wrap[w].at = "consume"
  /\ Go(w, "cleanup")
  /\ Quiet
  /\ UNCHANGED <<file, token, snapshot, command, tokens, spent, granted>>

\* consumeFile; an error of os.Remove is ignored.
Consume(w) ==
  /\ wrap[w].at = "consume"
  /\ token' \in {FALSE} \union (IF Failures THEN {token} ELSE {})
  /\ Go(w, "cleanup")
  /\ Quiet
  /\ UNCHANGED <<file, snapshot, command, tokens, spent, granted>>

\* Mutant of Cleanup: the listing passes because it was just approved, without
\* the second evaluation.
CleanupOpens(w) ==
  /\ wrap[w].at = "cleanup"
  /\ snapshot' = None
  /\ End(w)
  /\ open' = wrap[w].live
  /\ audit' = None
  /\ UNCHANGED <<file, token, command, tokens, spent, granted>>

\* Mutant of Cleanup: oldHash is read after the write.
CleanupReadsLate(w) ==
  /\ wrap[w].at = "cleanup"
  /\ snapshot' = None
  /\ audit' = IF wrap[w].old # None /\ Code(w) \in Drift
              THEN [old |-> Hash(Parsed), new |-> wrap[w].live] ELSE None
  /\ open' = None
  /\ wrap' = [wrap EXCEPT ![w] = [Rest EXCEPT !.at = "inspect", !.live = wrap[w].live, !.again = TRUE]]
  /\ UNCHANGED <<file, token, command, tokens, spent, granted>>

\* Remove the snapshot, audit a re-approval and evaluate once more.
Cleanup(w) ==
  /\ wrap[w].at = "cleanup"
  /\ snapshot' = None
  /\ audit' = IF wrap[w].old # None /\ Code(w) \in Drift
              THEN [old |-> wrap[w].old, new |-> wrap[w].live] ELSE None
  /\ open' = None
  /\ wrap' = [wrap EXCEPT ![w] = [Rest EXCEPT !.at = "inspect", !.live = wrap[w].live, !.again = TRUE]]
  /\ UNCHANGED <<file, token, command, tokens, spent, granted>>

\* WritePendingSnapshotWithConfig, then the denial is returned.  A snapshot
\* that was only half written cannot be approved from.
SaveSnapshot(w) ==
  /\ wrap[w].at = "snapshot"
  /\ snapshot' \in {wrap[w].live} \union (IF Failures THEN {None, snapshot} ELSE {})
  /\ End(w)
  /\ Quiet
  /\ UNCHANGED <<file, token, command, tokens, spent, granted>>

WrapDies(w) ==
  /\ Failures /\ wrap[w].at # "idle"
  /\ End(w)
  /\ Quiet
  /\ UNCHANGED <<file, token, snapshot, command, tokens, spent, granted>>

Evaluation(w) ==
  \/ \E live \in Catalogs \union {BadCatalog} : Start(w, live)
  \/ InspectForGate(w) \/ ReadAndEvaluate(w)
  \/ Inspect(w) \/ ReadOldHash(w) \/ Grant(w)
  \/ TruncateForWrap(w) \/ FillForWrap(w) \/ Consume(w) \/ Cleanup(w)
  \/ SaveSnapshot(w) \/ WrapDies(w)

(***************************************************************************)
(* `deadbugz-guard approve`.                                               *)
(***************************************************************************)

\* Running the command is the grant of the catalog it finds.
Approve(c, p) ==
  /\ command[c].at = "idle" /\ OthersRest(c)
  /\ command' = [command EXCEPT ![c].at = "truncate", ![c].pin = p]
  /\ granted' = granted \union {p.agg}
  /\ Quiet
  /\ UNCHANGED <<file, token, snapshot, wrap, tokens, spent>>

\* A snapshot of a bad catalog has no tools and is refused.
ApproveFromPending(c) == snapshot \in Catalogs /\ Approve(c, Pin(snapshot, Own))

\* The command has its own argv and env, and no check of the hash.
ApproveFromServer(c, live, f) == Approve(c, Pin(live, f))

TruncateForCommand(c) ==
  /\ command[c].at = "truncate"
  /\ \/ Truncate /\ command' = [command EXCEPT ![c].at = "write"]
     \/ Failures /\ command' = [command EXCEPT ![c] = Unused] /\ UNCHANGED file
  /\ Quiet
  /\ UNCHANGED <<token, snapshot, wrap, tokens, spent, granted>>

FillForCommand(c) ==
  /\ command[c].at = "write"
  /\ \/ Fill(command[c].pin) /\ command' = [command EXCEPT ![c].at = "cleanup"]
     \/ Failures /\ command' = [command EXCEPT ![c] = Unused] /\ (Fill(command[c].pin) \/ UNCHANGED file)
  /\ Quiet
  /\ UNCHANGED <<token, snapshot, wrap, tokens, spent, granted>>

CleanupForCommand(c) ==
  /\ command[c].at = "cleanup"
  /\ command' = [command EXCEPT ![c] = Unused]
  /\ snapshot' = None
  /\ Quiet
  /\ UNCHANGED <<file, token, wrap, tokens, spent, granted>>

Approval(c) ==
  \/ ApproveFromPending(c)
  \/ \E live \in Catalogs \union {BadCatalog}, f \in Fingerprints : ApproveFromServer(c, live, f)
  \/ TruncateForCommand(c) \/ FillForCommand(c) \/ CleanupForCommand(c)

(***************************************************************************)
(* The operator and the file system.                                       *)
(***************************************************************************)
LeaveToken ==
  /\ NobodyRuns
  /\ ~token /\ tokens < MaxTokens
  /\ token' = TRUE /\ tokens' = tokens + 1 /\ spent' = 0
  /\ Quiet
  /\ UNCHANGED <<file, snapshot, wrap, command, granted>>

\* The pin file is deleted, damaged, or restored from a copy.
Edit(f) ==
  /\ NobodyRuns
  /\ file' = f
  /\ granted' = IF f \in Pins THEN granted \union {f.agg} ELSE granted
  /\ Quiet
  /\ UNCHANGED <<token, snapshot, wrap, command, tokens, spent>>

Init ==
  /\ file \in Pins \union Hashless \union {Missing, Torn}
  /\ token = FALSE /\ snapshot = None
  /\ wrap = [w \in Wraps |-> Rest]
  /\ command = [c \in Commands |-> Unused]
  /\ tokens = 0 /\ spent = 0
  /\ granted = IF file \in Pins THEN {file.agg} ELSE {}
  /\ open = None /\ audit = None

Next ==
  \/ \E w \in Wraps : Evaluation(w)
  \/ \E c \in Commands : Approval(c)
  \/ LeaveToken
  \/ \E f \in Pins \union {Missing, Torn} : Edit(f)

Spec == Init /\ [][Next]_vars

(***************************************************************************)
(* Properties.                                                             *)
(***************************************************************************)

\* Types of the files, the processes and the history.
TypeOK ==
  /\ file \in Pins \union Hashless \union {Missing, Torn}
  /\ token \in BOOLEAN
  /\ snapshot \in Catalogs \union {BadCatalog, None}
  /\ wrap \in [Wraps -> Evaluations]
  /\ command \in [Commands -> Approvals]
  /\ tokens \in 0 .. MaxTokens /\ spent \in 0 .. 2
  /\ granted \in SUBSET (Catalogs \union {BadCatalog})
  /\ open \in Catalogs \union {None}
  /\ audit \in [old : Catalogs, new : Catalogs] \union {None}

\* However reads and writes of the pin file interleave, fail or are cut short,
\* a wrap lets a listing through only while the file holds the pin of that
\* listing, and that pin was granted by a person.
Trusted == IF file \in Pins THEN file.agg ELSE None
Abstract == INSTANCE TrustedPin WITH
  Catalogs <- Catalogs \union {BadCatalog},
  trusted  <- Trusted

ImplementsTrustedPin == Abstract!Spec

Overwrites(w) == wrap[w].at = "truncate" /\ wrap'[w].at = "write"

\* --approve and the URL write a first pin only: they never replace a pin file
\* that is valid at that moment (sidecar/approve.go:103).
BootstrapIsFirstPinOnly ==
  [][\A w \in Wraps : Overwrites(w) /\ ~wrap[w].byToken => file \notin Pins]_vars

\* No evaluation replaces a pin file that does not verify, whatever grant is
\* present (sidecar/approve.go:102, docs/plugin-guide.md:147).
TamperedStaysShut ==
  [][\A w \in Wraps : Overwrites(w) => file \in Pins \union {Missing}]_vars

\* An approve token writes at most one pin (sidecar/config.go:28).
OneTokenOnePromotion == spent <= 1

\* The "approved" line of a headless re-approval names the pin the wrap
\* evaluated against as oldHash, and the pin in the file as newHash.
ReapprovalTransition ==
  [][audit' # None =>
       /\ audit'.new = Trusted'
       /\ \E w \in Wraps : wrap[w].at = "cleanup" /\ Hash(wrap[w].gate) = audit'.old]_vars

(***************************************************************************)
(* The inductive invariants behind the properties above.                   *)
(***************************************************************************)

\* A valid pin in the file was granted, and so is every pin on its way there.
FileIsGranted == file \in Pins => file.agg \in granted
WritesAreGranted ==
  /\ \A w \in Wraps :
       /\ wrap[w].at # "idle" => wrap[w].live # None
       /\ wrap[w].at \in {"truncate", "write"} => wrap[w].live \in granted
  /\ \A c \in Commands :
       command[c].at \in {"truncate", "write"} =>
         command[c].pin # None /\ command[c].pin.agg \in granted

Inv == TypeOK /\ FileIsGranted /\ WritesAreGranted

\* With Exclusive one process runs at a time, so what it read of the file is
\* still true until it writes, and what it wrote is still there when it is done.
OneRuns == \A a, b \in Wraps \union Commands : a = b \/ Resting(a) \/ Resting(b)

StillTrue(w) ==
  /\ wrap[w].at \in {"reinspect", "hash", "grant", "truncate"} /\ wrap[w].gate # None
       => wrap[w].gate = file
  /\ wrap[w].at \in {"hash", "grant", "truncate"} => wrap[w].state = FileState
  /\ wrap[w].at = "truncate" =>
       wrap[w].state \in IF wrap[w].byToken THEN {"absent", "ok"} ELSE {"absent"}
  /\ wrap[w].at = "write" => file = Torn
  /\ wrap[w].at \in {"consume", "cleanup"} => file = Pin(wrap[w].live, Own)
  /\ wrap[w].at \in {"grant", "truncate", "write", "consume", "cleanup"} /\ wrap[w].gate # None
       => wrap[w].old \in {None, wrap[w].gate.agg}

\* A token that is still there has written nothing, unless its wrap is about to
\* remove it.
TokenIsFresh ==
  /\ token => spent = 0 \/ \E w \in Wraps : wrap[w].at = "consume"
  /\ \A w \in Wraps : wrap[w].byToken /\ wrap[w].at \in {"truncate", "write"} => token

InvAlone == Inv /\ OneRuns /\ \A w \in Wraps : StillTrue(w)
InvToken == InvAlone /\ TokenIsFresh /\ OneTokenOnePromotion
=============================================================================
