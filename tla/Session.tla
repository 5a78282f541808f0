------------------------------ MODULE Session ------------------------------
(***************************************************************************)
(* One guarded server over many sessions, with its data: a host that asks  *)
(* (scripts/smokej, scripts/mcpprobe), the mock server with its flip file  *)
(* (internal/mockmcp) or another server, the decision of the wrap on real  *)
(* listings, argv and environments, and the pin, token and audit files.    *)
(*                                                                         *)
(* An evaluation is one step here; Headless takes it apart and has the     *)
(* pending snapshot, and Wrap has the messages around it.  A tools/call is *)
(* decided like a tools/list, on the listing the guard fetches for it.     *)
(***************************************************************************)
EXTENDS Catalog, Identity, AuditLog

CONSTANTS
  Configs,    \* launches: [argv, environ, mock, meaning]
  Listings,   \* what a server other than the mock may list
  Modes,      \* modes that are written to the flip file
  Absent,     \* no flip file, no pin file, no verdict
  Failures,   \* TRUE: a write of the audit file may fail
  MaxActs     \* bound: tokens and changes of the pin file by the operator

ASSUME SessionSwitch == Failures \in BOOLEAN
ASSUME SessionBound == MaxActs \in Nat

VARIABLES
  flip,      \* the flip file
  config,    \* the running launch
  at,        \* where the host's request is
  live,      \* the answer of the server, until it is decided
  pin,       \* the pin file
  token,     \* the approve file is there
  log,       \* the audit file
  verdict,   \* what the latest step decided, or Absent
  trusted,   \* history: the listing and configuration the guard last pinned
  moves,     \* history: re-approvals by token
  faults,    \* history: struck, the audit writes that failed or came right after
             \* one that did, and whether the latest did
  acts       \* the operator's acts so far

vars == <<flip, config, at, live, pin, token, log, verdict, trusted, moves, faults, acts>>
server == <<flip, config, at, live>>
files == <<pin, token, log, trusted, moves, faults, acts>>

\* `says` and `meaning` label what a tool and a launch are to a person, in
\* whatever way they are written; no definition of the code reads them.
Tool(name, description, schema, says) ==
  [name |-> name, description |-> description, inputSchema |-> schema, annotations |-> Blank,
   says |-> says]
Says(tools) == {t.says : t \in Elements(tools)}

(***************************************************************************)
(* The mock server.                                                        *)
(***************************************************************************)
MockSchema == Object(<< <<"type", "object">>, <<"properties", "none">> >>)
Alpha == Tool(1, "First tool", MockSchema, "alpha")
Bravo == Tool(2, "Second tool", MockSchema, "bravo")

\* Tools, of a mode that NormalizeMode accepts; any other mode is benign.
MockTools(mode) ==
  CASE mode = "reorder" -> <<Bravo, Alpha>>
    [] mode \in {"poison", "deadbugz"} ->
         <<Tool(1, "POISONED first tool", MockSchema, "poisoned"), Bravo>>
    [] mode = "add" -> <<Alpha, Bravo, Tool(3, "Added tool", MockSchema, "charlie")>>
    [] mode = "remove" -> <<Alpha>>
    [] OTHER -> <<Alpha, Bravo>>

\* ReadFlip without MODE in the mock's environment: without a file it is benign
\* and holds nothing.
ReadFlip == IF flip = Absent THEN [mode |-> "benign", hold |-> FALSE] ELSE flip

HostAsks ==
  /\ at = "idle"
  /\ at' = "asked" /\ verdict' = Absent
  /\ UNCHANGED <<flip, config, live, files>>

Answer(tools) ==
  /\ live' = tools /\ at' = "answered" /\ verdict' = Absent
  /\ UNCHANGED <<flip, config, files>>

MockAnswers == at = "asked" /\ config.mock /\ ~ReadFlip.hold /\ Answer(MockTools(ReadFlip.mode))

MockHolds ==
  /\ at = "asked" /\ config.mock /\ ReadFlip.hold
  /\ at' = "held" /\ verdict' = Absent
  /\ UNCHANGED <<flip, config, live, files>>

\* Mutant of HoldEnds: the wait has no deadline.
HoldEndsOnly == at = "held" /\ ~ReadFlip.hold /\ Answer(MockTools(ReadFlip.mode))

\* waitListHold polls for at most 5 s; whichever ends the wait, the answer is
\* what the flip file says then.
HoldEnds == at = "held" /\ Answer(MockTools(ReadFlip.mode))

OtherAnswers == at = "asked" /\ ~config.mock /\ \E tools \in Listings : Answer(tools)

\* WriteFlip renames a complete file into place.
WriteFlip ==
  /\ \E mode \in Modes, hold \in BOOLEAN : flip' = [mode |-> mode, hold |-> hold]
  /\ verdict' = Absent
  /\ UNCHANGED <<config, at, live, files>>

\* The host's deadline: it kills the guard.
HostGivesUp ==
  /\ at # "idle"
  /\ at' = "idle" /\ live' = <<>> /\ verdict' = Absent
  /\ UNCHANGED <<flip, config, files>>

Launch ==
  /\ at = "idle"
  /\ \E c \in Configs \ {config} : config' = c
  /\ verdict' = Absent
  /\ UNCHANGED <<flip, at, live, files>>

(***************************************************************************)
(* The decision.                                                           *)
(***************************************************************************)
Drift == {"tools_list_drift", "config_or_inventory_changed", "DIFF_NONEMPTY"}
Nothing == [added |-> {}, removed |-> {}, changed |-> {}]

\* What PinTools returns has no identity yet.
PlainPin(tools) ==
  LET p == PinTools(tools)
  IN  [aggregate |-> p.aggregate, hashes |-> p.hashes, tools |-> p.tools, fingerprint |-> NoFingerprint]

\* PinToolsWithConfig of a listing under a launch, and what it stands for.
Pinned(tools, c) ==
  [pin |-> BindPinIdentity(PlainPin(tools), c.argv, c.environ), tools |-> tools, meaning |-> c.meaning]

\* PinTools without an identity, as --write-pin --from-mode writes it.
PinnedPlain(tools) == [pin |-> PlainPin(tools), tools |-> tools, meaning |-> Absent]

\* What is listed is a listing, and Absent is none of what is made of it.
Served == Listings \union {MockTools(mode) : mode \in Modes \union {"benign"}}
ASSUME ListingAssumption == \A tools \in Listings : Listing(tools)
ASSUME AbsentAssumption ==
  /\ \A c \in Configs : c.meaning # Absent
  /\ \A tools \in Served :
       /\ Absent \notin {PlainPin(tools), PinnedPlain(tools)}
       /\ \A c \in Configs : Absent \notin {Pinned(tools, c), Pinned(tools, c).pin}

\* The labels tell apart what the code should tell apart, and nothing else: the
\* tools of listings, a listing without a blank or a repeated name from one
\* with, and launches.
ASSUME LabelAssumption ==
  /\ \A a, b \in {tools \in Served : ~Refused(tools)} :
       \A t \in Elements(a), u \in Elements(b) : t.says = u.says <=> Payload(t) = Payload(u)
  /\ \A a, b \in Served : Says(a) = Says(b) => (Refused(a) <=> Refused(b))
  /\ \A c, d \in Configs :
       c.meaning = d.meaning <=> Fingerprint(c.argv, c.environ) = Fingerprint(d.argv, d.environ)

\* Mutant of Evaluate: the launch is compared only if the tools have changed.
EvaluateToolsFirst(p, now) ==
  IF p = Absent \/ (p # Absent /\ ~Verified(p)) THEN [code |-> "PIN_MISSING", diff |-> Nothing]
  ELSE IF Refused(now.tools) THEN [code |-> "INTERNAL_ERROR", diff |-> Nothing]
  ELSE LET code == CASE p.aggregate = now.pin.aggregate -> "OK"
                     [] p.fingerprint = NoFingerprint -> "DIFF_NONEMPTY"
                     [] p.fingerprint = now.pin.fingerprint -> "tools_list_drift"
                     [] OTHER -> "config_or_inventory_changed"
       IN  [code |-> code, diff |-> IF code = "OK" THEN Nothing ELSE Summary(p, now.pin)]

\* GateFromPinFile, SetConfig and Evaluate on a fresh gate; now is the listing
\* under the running launch.
Evaluate(p, now) ==
  IF p = Absent \/ (p # Absent /\ ~Verified(p)) THEN [code |-> "PIN_MISSING", diff |-> Nothing]
  ELSE IF Refused(now.tools) THEN [code |-> "INTERNAL_ERROR", diff |-> Nothing]
  ELSE LET plain == p.fingerprint = NoFingerprint
           same == p.fingerprint = now.pin.fingerprint
           code == CASE ~plain /\ ~same -> "config_or_inventory_changed"
                     [] (plain \/ same) /\ p.aggregate = now.pin.aggregate -> "OK"
                     [] plain /\ p.aggregate # now.pin.aggregate -> "DIFF_NONEMPTY"
                     [] OTHER -> "tools_list_drift"
       IN  [code |-> code, diff |-> IF code = "OK" THEN Nothing ELSE Summary(p, now.pin)]

\* allowNonTTYApprove with an approve file: a first pin, or a drift.
Grants(code) == token /\ ((code = "PIN_MISSING" /\ pin = Absent) \/ code \in Drift)

\* What recordHeadlessReapprove writes.
Transition(old, new) == [old |-> old.aggregate, new |-> new.aggregate]

\* One more write of the audit file.
Struck(failed) ==
  [struck |-> IF failed \/ faults.latest THEN faults.struck + 1 ELSE faults.struck,
   latest |-> failed]

\* ApplyNonTTYApprove with a grant: the new pin is written, the token used up,
\* and a re-approval recorded.
Repin(code, now) ==
  /\ pin' = now.pin
  /\ token' = FALSE
  /\ trusted' = IF Refused(now.tools) THEN Absent ELSE now
  /\ IF code \in Drift
     THEN /\ moves' = Append(moves, Transition(pin, now.pin))
          /\ \E failed \in {FALSE, Failures} :
               /\ log' \in Recorded(log, Transition(pin, now.pin), failed)
               /\ faults' = Struck(failed)
     ELSE UNCHANGED <<log, moves, faults>>

\* evaluateLive: evaluate, ask for a grant, and evaluate what was written.
Decide ==
  /\ at = "answered" /\ at' = "idle" /\ live' = <<>>
  /\ UNCHANGED <<flip, config, acts>>
  /\ \E now \in {Pinned(live, config)} : \E first \in {Evaluate(pin, now)} :
       /\ IF Grants(first.code) THEN Repin(first.code, now)
          ELSE UNCHANGED <<pin, token, trusted, log, moves, faults>>
       /\ \E second \in {IF Grants(first.code) THEN Evaluate(now.pin, now) ELSE first} :
            verdict' = [live |-> live, code |-> second.code, diff |-> second.diff]

(***************************************************************************)
(* The operator.                                                           *)
(***************************************************************************)
Acts == acts < MaxActs /\ acts' = acts + 1 /\ verdict' = Absent

LeaveToken ==
  /\ Acts /\ ~token /\ token' = TRUE
  /\ UNCHANGED <<server, pin, log, trusted, moves, faults>>

\* `deadbugz-guard --write-pin --from-mode`.
WritePin ==
  /\ Acts
  /\ \E mode \in Modes : trusted' = PinnedPlain(MockTools(mode))
  /\ pin' = trusted'.pin
  /\ UNCHANGED <<server, token, log, moves, faults>>

\* What an editor may put into a field of the pin file: what another pin has
\* there, or nothing of use.
Copies == {Pinned(MockTools(mode), c).pin : mode \in Modes, c \in Configs}
Erased == [aggregate |-> Junk, hashes |-> <<>>, tools |-> <<>>, fingerprint |-> NoFingerprint]

\* The file is removed or one field of it is changed; more edits may follow.
EditPin ==
  /\ Acts /\ pin # Absent
  /\ pin' \in {Absent} \union
       {[pin EXCEPT ![field] = p[field]] : field \in DOMAIN Erased, p \in Copies \union {Erased}}
  /\ UNCHANGED <<server, token, log, trusted, moves, faults>>

\* There is no pin yet, or one that was approved when the mock was benign.
Init ==
  /\ flip = Absent /\ config \in Configs
  /\ at = "idle" /\ live = <<>>
  /\ trusted \in {Absent, Pinned(MockTools("benign"), config)}
  /\ pin = IF trusted = Absent THEN Absent ELSE trusted.pin
  /\ token = FALSE /\ log = <<>> /\ verdict = Absent
  /\ moves = <<>> /\ acts = 0
  /\ faults = [struck |-> 0, latest |-> FALSE]

Next ==
  \/ HostAsks \/ MockAnswers \/ MockHolds \/ HoldEnds \/ OtherAnswers
  \/ WriteFlip \/ HostGivesUp \/ Launch \/ Decide
  \/ LeaveToken \/ WritePin \/ EditPin

\* The server goes on with the request it has, and what it answered is decided
\* unless the host gives up first; nothing is asked of the host, of the operator,
\* or of whoever writes the flip file.
Spec ==
  /\ Init /\ [][Next]_vars
  /\ WF_vars(MockAnswers \/ MockHolds \/ HoldEnds \/ OtherAnswers)
  /\ WF_at(at = "answered" /\ at' = "idle")

(***************************************************************************)
(* Properties.                                                             *)
(***************************************************************************)

\* Types of the request, the files and the bounds.
TypeOK ==
  /\ config \in Configs /\ at \in {"idle", "asked", "held", "answered"}
  /\ live # <<>> => at = "answered"
  /\ token \in BOOLEAN /\ acts \in 0 .. MaxActs
  /\ pin # Absent => DOMAIN pin = {"aggregate", "hashes", "tools", "fingerprint"}
  /\ verdict # Absent => verdict.code \in Drift \union {"OK", "PIN_MISSING", "INTERNAL_ERROR"}
  /\ Len(log) <= Len(moves)
  /\ faults \in [struck : 0 .. Len(moves), latest : BOOLEAN]

AsTrusted ==
  /\ Says(verdict.live) = Says(trusted.tools)
  /\ trusted.meaning \in {Absent, config.meaning}

\* The pin file has a field as the guard last wrote it.
Kept(field) == trusted # Absent /\ pin[field] = trusted.pin[field]

\* A listing passes only if its tools say what the tools of the last pin the
\* guard wrote say, unless both the aggregate and what it is computed from were
\* exchanged in the pin file; and only from a launch that means what the pinned
\* one meant, unless its fingerprint was (core/pin.go:147, core/gate.go:168).
OnlyPinnedToolsPass ==
  verdict # Absent /\ verdict.code = "OK" =>
    /\ pin # Absent
    /\ Kept("aggregate") \/ (Kept("tools") /\ Kept("hashes"))
         => Says(verdict.live) = Says(trusted.tools)
    /\ Kept("fingerprint") => trusted.meaning \in {Absent, config.meaning}

\* Another order of tools, members or CSV items, another spelling of a flag and
\* another secret are no change: as long as the pin is as the guard wrote it,
\* only a difference a person can name is denied (core/pin.go:11,
\* core/fingerprint.go:70).
NoFalseAlarm ==
  verdict # Absent /\ trusted # Absent =>
    (pin = trusted.pin /\ AsTrusted => verdict.code = "OK")

Named(tools, n) == {t.says : t \in {u \in Elements(tools) : u.name = n}}
Names(tools) == {t.name : t \in Elements(tools)}

\* The diff the person approves by names the tools that came, went and say
\* something else, for every pin whose tool hashes are those the guard wrote.
DiffNamesTheChange ==
  verdict # Absent /\ verdict.code \in Drift /\ Kept("hashes") =>
    verdict.diff =
      [added |-> Names(verdict.live) \ Names(trusted.tools),
       removed |-> Names(trusted.tools) \ Names(verdict.live),
       changed |-> {n \in Names(verdict.live) \intersect Names(trusted.tools) :
                      Named(verdict.live, n) # Named(trusted.tools, n)}]

\* A sequence with some of the elements of another, in their order.
InOrder(part, whole) ==
  \E where \in [DOMAIN part -> DOMAIN whole] :
    /\ \A i, j \in DOMAIN part : i < j => where[i] < where[j]
    /\ \A i \in DOMAIN part : part[i] = whole[where[i]]

\* However writes of the audit file fail, `audit tail` shows re-approvals that
\* took place, in their order, and a failed write hides no more than its own
\* line and the next: neither an earlier line nor a later one, as long as the
\* lines fit in the tail (audit/jsonl.go:59).
AuditSurvivesFaults ==
  LET shown == TailRecords(log, 10)
  IN  /\ InOrder(shown, moves)
      /\ Cardinality(Lines(log)) <= 10 => Len(moves) - Len(shown) <= faults.struck

\* A gate that opens on a re-approved pin has the re-approval in its audit file:
\* a full disk does not open it (SECURITY.md:89).
OpenIsAudited ==
  verdict # Absent /\ verdict.code = "OK" /\ moves # <<>> =>
    LET shown == TailRecords(log, 10)
    IN  shown # <<>> /\ shown[Len(shown)] = moves[Len(moves)]

\* Every request is answered or given up, even if the flip file holds the
\* listing for good.
RequestsEnd == at # "idle" ~> at = "idle"

(***************************************************************************)
(* The inductive invariant behind the properties above.                    *)
(***************************************************************************)

\* What waits to be decided was listed by a server.
LiveIsServed ==
  /\ flip # Absent => flip.mode \in Modes
  /\ IF at = "answered" THEN live \in Served ELSE live = <<>>

\* The last pin the guard wrote is that of a listing that was not refused, with
\* or without a launch.
TrustedIsPin ==
  trusted # Absent =>
    \E tools \in {l \in Served : ~Refused(l)} :
      trusted \in {PinnedPlain(tools)} \union {Pinned(tools, c) : c \in Configs}

\* The aggregate in the pin file is that of a listing or of none, whatever was
\* done to it, and the audit file is made of the re-approvals so far.
Aggregates == {NoHash, Junk} \union {PinTools(tools).aggregate : tools \in Served}
Moves == [old : Aggregates, new : Aggregates]
PinHasAggregate == pin # Absent => pin.aggregate \in Aggregates
Chunks == [record : Moves, part : {"whole", "unterminated", "torn"}]
LogIsMoves ==
  /\ moves \in Seq(Moves)
  /\ log \in Seq(Chunks)

\* A line of the file is the record of a re-approval, and in their order.
LogInOrder == InOrder([i \in DOMAIN log |-> log[i].record], moves)

\* The lines of a file that parse; the last is at risk if only its newline is
\* missing, because the next write continues it.  After a write that did not
\* fail the file ends with a whole line.
Readable(file) == {i \in Lines(file) : Parses(file, i)}
EndsWhole(file) == file = <<>> \/ file[Len(file)].part = "whole"
AtRisk(file) ==
  IF file # <<>> /\ file[Len(file)].part = "unterminated" /\ Len(file) \in Lines(file) THEN 1 ELSE 0
FaultsHide ==
  /\ Len(moves) + AtRisk(log) <= Cardinality(Readable(log)) + faults.struck
  /\ faults.latest \/ EndsWhole(log)

AuditInv == LogIsMoves /\ LogInOrder /\ FaultsHide

Inv == TypeOK /\ LiveIsServed /\ TrustedIsPin /\ PinHasAggregate /\ AuditInv
=============================================================================
