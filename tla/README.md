# Deadbugz guard: specifications, model checking and proofs

Deadbugz guard pins the hash of an MCP server's approved tool definitions,
compares every `tools/list` with the pin before the agent's host sees it, and
stays shut on a mismatch until a person approves the new listing. This
directory holds TLA+ modules of that program, the TLC configurations that check
them, and proofs checked by TLAPS. `PROJECT.json` maps every definition to the
source lines it models. Paths below are relative to `src/`.

## 1. Inventory of the system

| Part | Source | State | Operations |
| --- | --- | --- | --- |
| Gate | `core/gate.go` | `pin`, `pending` candidate, `seq`, `cfg`; one mutex | `SetConfig`, `InstallInitialPin`, `CurrentPin`, `PendingCandidate`, `Evaluate`/`AuthorizeCall`, `ApplyApproval`, `ResolveApproval` |
| Pin store | `core/store.go` | one JSON file | `Load` (verifies), `Save` (temporary file, fsync, rename, chmod) |
| Catalog hashing | `core/canonical.go`, `core/pin.go` | none | `PinTools`, `HashCatalog`, `Diff`, `VerifyPin` |
| Config identity | `core/fingerprint.go` | none | `StableArgv`, `SubsetEnv`, `ConfigFingerprint`, `ComputePinID` |
| HITL hook | `hitl/hook.go` | none between calls | `Evaluate`, `RequestAndApply`, audit records |
| HTTP approver | `hitl/httpstub.go` | `pending` requests, one channel each; `who` | `RequestApproval`, create, pending, decide |
| Wrap | `sidecar/wrap.go` | `pending` ids, `syncN`, `syncMu`, `syncCh`, `Gate` under `gateMu` | `pumpClient`, `pumpServer`, `handleServerListChanged`, `syncToolsList`, `evaluateLive` |
| Headless approval | `sidecar/approve.go`, `sidecar/smokefence.go`, `cmd/deadbugz-guard` | pin file, approve token, `<pin>.pending` | `ApplyNonTTYApprove`, `ApproveFromPending`, `ApproveFromServerWithConfig`, `GateFromPinFile` |
| Audit log | `audit/` | append-only file | `Record`, `Tail`, redaction |
| Framing | `sidecar/mcpio` | reader position | `ReadMessage`, `WriteJSON` |
| Configuration | `sidecar/config.go`, `sidecar/paths.go` | none | environment and flags to `Config` |
| Clients, mock, scripts | `cmd/hitl`, `cmd/audit`, `internal/mockmcp`, `scripts` | fixtures | drivers and test servers |

How the parts interact. The host talks to `pumpClient`, the server to
`pumpServer`, and each `list_changed` notification of the server starts a
goroutine. `pumpClient` and these goroutines send the server a `tools/list` of
the guard's own, and `pumpServer` hands the answer over through `syncCh`. All
of them call `evaluateLive`, which builds a fresh gate from the pin file,
evaluates, may write the pin on a headless grant, and evaluates again. Other
processes - further wraps, the `approve` command, an operator's editor - use the
same files with no lock. An embedding that uses `hitl.Hook` instead keeps one
gate, often with a `FileStore`, and asks a person through an `Approver`; the
gate's mutex is free while the person decides.

What is hard here:

- *Steps of several actors.* The mutex is released around every question to a
  person; the hook makes four separate calls on the gate; the pin file is read
  up to four times in one evaluation; `s.who` is shared by all requests.
- *Failure in the middle.* Promote, save and emit are three steps; `Save` can
  fail after its rename; a wrap truncates the pin file in place.
- *Ordering.* Answers and notifications arrive in any order, late or twice;
  requests of the host and of the guard share one table of ids.
- *Restart.* Revision numbers restart, the pin file survives, candidates do not.
- *Waiting.* Two mutexes, a bounded channel and a wait without a timeout.

For each part, what makes it correct:

| Part | Properties |
| --- | --- |
| Gate and store | opens only for the granted catalog in force; an answer binds to the candidate that was shown; a mismatch latches; events tell what happened |
| Hook and approver | the person sees the listing that was evaluated; a pending candidate always has someone who will resolve it; a timeout refuses; every review ends |
| Headless approval | no listing passes without a grant, whatever interleaves; each grant has its documented scope; the audit line names the real transition |
| Wrap | hash before forward, for every way a listing can arrive; every call is decided on its own fresh listing; nothing blocks for good |
| Run | no answer and no call gets lost while the server runs, and no failure opens the gate; the session ends when the server exits, the host closes or an interrupt comes, and only a server that stays up can hold it |
| Hashing and identity | another order, spelling or secret is no change, anything a person can name is one; a verified pin stands for the tools that were granted; the diff names what changed |
| Audit log | what is shown took place, in order; a failed write hides little |

## 2. Modules

    TrustedPin                abstract: what is trusted, granted, let through
      ^        ^
      |        |   refinement (ImplementsTrustedPin)
    Gate     Headless         Wrap <-- WrapRun   the pumps, and Run around them
      ^
    Hitl                      the hook composed with the gate

    Catalog, Identity, AuditLog   the data: listings, launches, the audit file
      ^
    Session                   sessions of a guarded server, with that data

    TrustedPin_proofs, Gate_proofs, Hitl_proofs (which uses Gate_proofs),
    Headless_proofs, Wrap_proofs, WrapRun_proofs, Catalog_proofs,
    Session_proofs (which uses Catalog_proofs): the theorems about each
    MCGate, MCHeadless, MCWrap, MCWrapRun, MCHitl, MCSession: instances for TLC

**TrustedPin** is what every gate of the guard promises, however it is built: a
catalog becomes trusted only after a person granted it, and only the trusted
catalog is let through. `Gate`, `Hitl` and `Headless` are shown to implement it,
each by proof and by TLC.

**Gate** has one action per method of `MemoryGate`. Every method holds the mutex
throughout, so it is one step; `ResolveApproval` is two (`RequestApproval`,
`Resolve`). `Evaluate` and `ApplyApproval` are disjunctions with one disjunct
per return of the code. `InForce` is the pin `refreshFromStore` leaves in
force. `Save` has three outcomes: nothing written, written, written but chmod
failed. `LoseFile` and `OutOfBandApprove` are the other users of the file;
`Restart` and `CrashAfterSave` end the process. `last` records the latest
decision and event, `granted` every catalog a person installed or approved.
`HasStore = FALSE` is `NewMemoryGate`.

**Hitl** extends Gate with `hitl.Hook` and `hitl.Server`. Each call of the hook
on the gate is one of Gate's operators, taken as one step of that hook, and two
hooks share one gate. The steps of a hook are in `hook[r].at`: evaluate,
candidate, old (the pin for `oldHash`), ask, wait, apply, record; or blocked.
`box` is the channel of a request, `who` the server's field, `line` the audit
line the latest step wrote. `HookAlone` is a hook without an `Approver`. The
operators `Resolve` and `RequestApproval` of Gate are for callers without a hook
and are not used here.

**Headless** models the files rather than one gate: `file`, `token`, `snapshot`,
and per process where it is. Each read, truncation, write and removal is a step,
so every interleaving of processes and every death between two file operations
is a behaviour. `evaluateLive` is `Start`, `InspectForGate`, `ReadAndEvaluate`;
`ApplyNonTTYApprove` is `Inspect`, `ReadOldHash`, `Grant`, `TruncateForWrap`,
`FillForWrap`, `Consume`, `Cleanup`; then the evaluation runs once more. The
fresh gate has no state that outlives an evaluation, so `Verdict` is its
`Evaluate`. All pins are written as "pin-1" and have no revision here.

**Wrap** models the two pumps and the refresh goroutines with `syncMu`, `syncCh`,
`w.pending` and `syncN`. `evaluateLive` is one step, the moment it compares
(Headless has the steps inside). The server is external: it answers any request
in any order, again later if it likes, with any listing, an error, something
unreadable, or a listing as the result of a call. An error may come with a
listing beside it (`Beside`): `mcpio.Message` keeps both fields. The guard looks
at no result once there is an error, so an error with nothing beside it is the
same case. The server sends JSON.

**WrapRun** extends Wrap with `Run`: `run` is its `select`, its wait for the
server, or its return, which ends the process. The server may exit, print a line
that is no message (`Noise`), or stay; the host may close its input; an interrupt
may come; writes to a server that is gone fail. Each pump and thread of Wrap
takes its steps only while the process lives, and gets the ways out the code
gives it: `ClientEOF`, `ClientCancelled`, `ClientWriteFails`, `ForwardCallFails`,
`SyncRequestFails`, `PumpEOF`, `PumpNoise`, `PumpCancelled`. `callGate` is what
the configuration makes of a call, fixed when the process starts: decided first
(`CALL_GATE` of 3 and more) or forwarded. The pin holds still, and the host's own
listings and second answers are left to Wrap.

**Catalog**, **Identity** and **AuditLog** are the pure parts. A tool is a record
with raw JSON in its fields: an object is the sequence of its members as the
server wrote them, so that order and repetition are there to be normalised. A
CSV value is the sequence of its items, blanks and spaces included. A hash is
the value it hashes under a tag: no collisions, and a shared hash is a shared
value. An audit file is the sequence of its writes, each whole, without its
newline, or torn.

**Session** puts them together at the level of whole requests: a host asks, the
mock server (with its flip file, modes and hold) or another server answers, and
`Decide` is `evaluateLive` on that answer - verify the pin, evaluate, perhaps
re-pin with a token and append to the audit file, evaluate again. The operator
leaves tokens, writes pins with `--write-pin` and edits the pin file: `EditPin`
puts into any field, the aggregate and the fingerprint included, what another pin
has there, or clears it, and several edits may follow each other. Launches differ in argv and environment. `says` and `meaning` label what
a tool or a launch is to a person; no definition of the code reads them, and the
properties compare the decision with them. `LabelAssumption` says when a label
is right: two tools are labelled alike if and only if their payloads are equal,
two launches if and only if their fingerprints are. TLC evaluates it for the
spellings of `MCSession`, which are labelled by hand. The steps inside an evaluation are
Headless's, the messages around it Wrap's.

Abstractions shared by Gate, Headless, Wrap and Hitl: a `tools/list` result is a value of
`Catalogs`, one per canonical hash (reordered listings are the same value), or
`BadCatalog`, a snapshot `HashCatalog` refuses; a fingerprint is a value of
`Fingerprints`; hashes do not collide; times and wording of messages and diffs
are left out.

## 3. Runs

| Run | Expect | What it asks |
| --- | --- | --- |
| `gate_file` | pass | A file-backed gate with two approvers, restart, crash and other writers: types, opens only for what is granted and in force, answers bind, mismatches latch, events are true, implements TrustedPin |
| `headless_alone` | pass | One evaluation at a time: a token writes one pin, `--approve`/URL never replace a valid pin, nothing repairs a damaged file, the audit line names the real transition |
| `headless_race` | pass | A wrap, an `approve` command and an operator interleave at every file operation, writes fail, processes die: types, implements TrustedPin |
| `wrap_safety` | pass | Only granted listings reach the host as results, answers go to who asked, a call needs a granted listing, `pumpServer` never finds `syncCh` full |
| `wrap_run` | pass | Through exits, noise and failed writes answers go to who asked, the awaited answer is never lost, no call is dropped, no error opens the gate; the server's exit ends Run whoever waits; a closed input or an interrupt ends it unless Run waits for a server that is up; until then every tools/call is decided |
| `session` | pass | Only the tools that were pinned pass, unless an edit exchanged both the aggregate and what it is computed from, and only the launch that was, unless an edit exchanged the fingerprint; no spelling is a false alarm; the diff names the change; the audit file survives faults; every request ends |
| `hitl_memory` | pass | The person sees the evaluated listing, no candidate is stranded, only an answer advances the pin, every review ends that has a deadline or an answer, the gate behind the hooks implements TrustedPin |
| `headless_token` | violation | two wraps race on one token (`sidecar/config.go:28`) |
| `wrap_error` | violation | a listing beside an error reaches the host unhashed (`SECURITY.md:70`) |
| `session_audit` | violation | the gate opens on a re-approval whose audit line was not written (`SECURITY.md:89`) |
| `hitl_audit` | violation | "approved" is recorded for a save that failed (`hitl/hook.go:90`) |
| `hitl_who` | violation | "approved" names the person of another request (`README.md:219`) |

Bounds, and why they are enough.

- Two catalogs (three for the hooks): the code compares hashes only for equality, so one that is
  pinned and one that is not are all a comparison tells apart; a third approval
  overwrites the second as the second did the first. Two fingerprints (the
  process's and another) for the same reason; races that do not concern the
  fingerprint use one.
- `MaxSeq = 3` in `gate_file` allows the installed pin, a candidate, its
  resolution and a later candidate while an approver still holds the first; a
  restart lets numbers repeat. `EvaluateMismatch` is the only step it bounds.
- Two callers, two hooks: the hazards are between an answer and another actor.
  `hitl_memory` has three catalogs, one pinned and two that mismatch, so that one
  hook's candidate can differ from the other hook's listing; it has no
  fingerprints, whose comparison only decides which mismatch it is.
- `headless_race` has one wrap and one command, and the operator as third
  writer; `headless_alone` needs no second process because it asks what one
  evaluation does when the files hold still (`Exclusive`), and `Failures` is off
  there: a failed removal of the token lets it be used again, which the code
  accepts (`consumeFile` ignores the error). `MaxTokens = 2` lets a second token
  follow the first.
- `Wrap`: one host listing, one call, one notification, a pipe of one message.
  A second answer is possible for each request (`ServerAnswerTwice`), which is
  what could confuse `syncCh`; `SyncCap = 4` is the code's own capacity.
- `WrapRun` has one call, one notification and one catalog: its questions are who
  waits for whom, and with the two there is a client and a refresh for `syncMu`
  and `syncCh` at any moment of the shutdown. The host's listings and second
  catalogs take part in no wait.
- `session`: three launches - a flag with its value in the next word, the same
  written inline with blanks, spaces, another order and another secret, and a
  flag without a value in front of another flag. Five listings of the other
  server: empty, reordered with repeated members and `null` annotations, with
  empty annotations, with a repeated and with a blank name; two modes of the
  mock, one that changes a tool and one that only reorders. `MaxActs = 2` allows
  a token after an edit and an edit after a re-approval; each re-approval needs a
  token, so two are recorded at most, which puts a line after a torn one: one
  failed write may hide both, and a third would need more failures than that.
  `AuditSurvivesFaults` bounds what is missing by the failed writes and the writes
  right after one (`faults.struck`), so a log that loses an earlier line, or a
  later one, breaks it within these two.
  `Summary` names added and removed tools on the way to and from the empty
  listing.
- Symmetry is used in safety runs only, on sets the code just compares.

No passing run may stop, except `wrap_run`, where nothing is left to do after
`Run` has returned; deadlock is checked in all the others.

Fairness. `hitl_memory`: weak fairness of each hook's own steps (`HookGoesOn`),
since a goroutine that can run does. A wait ends by itself only if the caller's
context has a deadline, and most have none: `scripts/smokehitl/main.go:72-77` sets
one for `-decision=timeout` only, `hitl/httpstub.go:118` if `timeout_sec` is
positive, and `hitl/hook_test.go` passes `context.Background()` to the hook in all
but one test. So the hooks with a deadline are a constant, `Timed`; `HookTimedOut` is fair
for those alone and cannot be relied on for the others, and `ReviewEnds` promises
an end to a hook of `Timed`, and to any other only once its request is answered.
The run has one of each. Nothing is assumed of the person.
`wrap_run`: weak fairness of `pumpServer`, of each thread and of `Run`; strong
fairness of taking `syncMu`, because `sync.Mutex` hands the lock to a waiter
after one millisecond and starves nobody; strong fairness of a server that is up
answering each request of the guard, because the pipe may be full of other
messages at any particular moment. Nothing is assumed of the server's exit, of
the host or of the interrupt. `session`: weak fairness of the server's steps, the
end of a hold (a deadline of five seconds) included, and of what comes after an
answer: `evaluateLive` waits for nobody, so the answer is decided, unless the host
gives up first. Nothing is assumed of the host, the operator or whoever writes the
flip file.

Mutants. Each property of a passing run has a mutant of a mapped definition - a
skipped verification, a reused revision, a missed removal, an unlocked section,
a candidate dropped on another one's answer, a timeout taken for consent - under which TLC finds it violated.

## 4. Proofs

TLAPS proves the theorems below for all constants that satisfy the named
assumptions of the modules: any sets of catalogs, fingerprints, callers, hooks,
people, wraps, commands, calls and notifications, any bounds, with and without a
pin file. The assumptions on constants only say that model values with different
meanings differ (`None` is no catalog, an error with a listing beside it is no
catalog, and so on) and that bounds are numbers.

All safety proofs have one shape. The property is not inductive: that it holds
now does not show that it holds after a step. A stronger `Inv` is; its parts are
named in the module, after the properties. One lemma shows that the types are
kept, one lemma for each part shows that every action keeps it, and the theorem
follows. `IInv => property` is then a step of its own.

### The promise: `TrustedPin_proofs`

`TrustedIsGranted`: `Spec => []FailClosed`. Each refinement below hands it on.

### The gate: `Gate_proofs`

| Theorem | States | Extra assumption |
| --- | --- | --- |
| `TypeCorrect` | `[]TypeOK` | - |
| `Invariant` | `[]Inv`, the inductive invariant | `~LateInstall` |
| `ApprovalBinding` | `[]ReviewBinding` | `~LateInstall` |
| `FailClosed` | `[]OpenOnlyForPinned` | `~LateInstall` |
| `Latching` | `MismatchLatches` | - |
| `AuditOutcome` | `AuditTellsTheOutcome` | - |
| `Refinement` | `ImplementsTrustedPin` | `~LateInstall` |

That no candidate takes a number an approver still holds follows only from
`PendingIsNewest` (the pending candidate has the number `seq`) and
`ReviewsNotNewer` (nobody holds a number above `seq`). In the same way
`OpenOnlyForPinned` needs `InForceGranted`, since a pin comes into force in one
step and opens in a later one. `Refinement` uses `Inv` for the step in which an
approval takes effect: the catalog that becomes trusted is the one the approver
saw. `Latching` and `AuditOutcome` need the types only. `MismatchLatches` excepts
the answer for the pending candidate's own revision, and no other: an answer for
another revision must leave the candidate as it is.

The lemmas `ApplyTypes`, `ApplyKeeps` and `ApplyRefines` speak of `ApplyApproval`
for any revision and any answer, under one condition: an answer for the pending
revision is about the pending catalog. `ResolveApproval` meets it by
`ReviewBinding`, the hook by `CandidateBinding`.

`~LateInstall` says that `InstallInitialPin` is not called on a gate that has
numbered candidates. It resets `seq` to 1, so a number in an approver's hands
would be used again. The only caller outside the tests is
`sidecar/smokefence.go:62`, on a fresh gate. The configurations set
`LateInstall = FALSE` too.

### The hooks: `Hitl_proofs`

| Theorem | States | Extra assumption |
| --- | --- | --- |
| `HitlInvariant` | `[]HitlInv`, the inductive invariant | `~LateInstall` |
| `HitlTypeCorrect` | `[]HitlTypeOK` | `~LateInstall` |
| `ShownCandidate` | `[]ShownIsListed` | `~LateInstall` |
| `NothingStranded` | `[]NoStrandedCandidate` | `~LateInstall` |
| `AdvanceAnswered` | `AdvanceIsAnswered` | `~LateInstall` |
| `HitlFailClosed` | `[]OpenOnlyForPinned` | `~LateInstall` |
| `HitlRefinement` | `ImplementsTrustedPin` | `~LateInstall` |

`GateSteps` says what a step of Hitl is for the gate: a step of `Gate!Next`, or an
`ApplyApproval` by a hook; so the lemmas of `Gate_proofs` carry over. The question
that is left is in whose hands the candidate is, because `Evaluate` and
`PendingCandidate` are two calls with the mutex free between them.
`CandidateIsListed` says that a hook between the two still finds its own listing
pending; `OneInHand` that no other hook has that candidate; `CandidateBinding`
that a hook's revision is never given to another candidate; `OnlyPeopleApprove`
that an approval has a person behind it. Each of the four is needed to show that
the others are kept: another hook's answer could otherwise resolve the candidate
between the two calls.

### The shared pin file: `Headless_proofs`

| Theorem | States | Extra assumption |
| --- | --- | --- |
| `Invariant` | `[]Inv`, the inductive invariant | - |
| `TypeCorrect` | `[]TypeOK` | - |
| `Refinement` | `ImplementsTrustedPin` | - |
| `AloneInvariant` | `[]InvAlone` | `Exclusive` |
| `Bootstrap` | `BootstrapIsFirstPinOnly` | `Exclusive` |
| `Tampered` | `TamperedStaysShut` | `Exclusive` |
| `Reapproval` | `ReapprovalTransition` | `Exclusive` |
| `OneToken` | `[]OneTokenOnePromotion` | `Exclusive`, `~Failures` |

`Refinement` is the strongest statement here: any number of wraps, `approve`
commands and edits, interleaved at every file operation, failing and dying
anywhere, never let a catalog through that the file does not hold at that moment,
and the file holds none that no person granted. It needs `WritesAreGranted`:
whoever has truncated the file is about to fill it with something granted.

The other four are promises the documentation makes without mentioning other
processes, and with them they are false (`headless_token`; section 5).
`Exclusive` says that an evaluation runs undisturbed. Under it `StillTrue` holds:
what a process read of the file is what the file still holds when it writes, and
what it wrote is there when it audits. `~Failures` is needed for the token alone,
since a failed removal leaves it to be used again, which the code accepts; the
other three hold under failures.

### The pumps: `Wrap_proofs`

| Theorem | States | Extra assumption |
| --- | --- | --- |
| `Invariant` | `[]Inv`, the inductive invariant | - |
| `TypeCorrect` | `[]TypeOK` | - |
| `AnswersAreOwn` | `[]OwnAnswer` | - |
| `HostIsGuarded` | `[]ResultsAreGranted` | - |
| `CallsAreGuarded` | `[]CallNeedsGrant` | - |
| `PumpIsFree` | `[]PumpNeverBlocks` | - |

The code relies on `syncMu` to match answers with requests: an answer in `syncCh`
carries an id nobody compares. `HolderAwaits` says that the thread in `syncMu` is
the only one that waits, and for the latest request; `OneRefresh` that this
request is in exactly one place - tracked in `w.pending`, in the hands of
`pumpServer`, or answered in `syncCh` - and in none while `syncMu` is free. So
second answers find nothing tracked, and `syncCh` never holds two. `HostIsGuarded`
is about results: a listing in a message that has an error too is not compared
with anything, and `wrap_error` shows it on its way to the host. `NotifiedOnce`
is what keeps a goroutine from being started twice in the model.

### The life of a wrap: `WrapRun_proofs`

| Theorem | States | Extra assumption |
| --- | --- | --- |
| `RunInvariant` | `[]RunInv`, the inductive invariant | - |
| `RunTypeCorrect` | `[]RunTypeOK` | - |
| `RunAnswersAreOwn` | `[]OwnAnswer` | - |
| `NoAnswerLost` | `[]AnswerComes` | - |
| `CallsAreKept` | `[]NoCallLost` | - |
| `RunFailsClosed` | `[]GateHolds` | - |

For any calls and notifications, any catalogs and pipe, and any `CALL_GATE`;
`NoiseAssumption` says that noise is not the content of a message.

In `wrap_safety` `OneRefresh` could count tracked requests, because every request
was sent. Here a write can fail after `w.pending` has its entry, which then stays
for good, and an answer can be lost with the server or with the end of
`pumpServer`. `OnePlace` therefore follows the answer itself: while a thread has
`syncMu`, the answer to request `syncN` is still owed by the server, in the pipe,
in the hands of `pumpServer`, or in `syncCh`, and nowhere else; or it was lost,
and then the server has exited or `pumpServer` is over. In the first two cases the
request is tracked, so `pumpServer` will know the answer when it reads it. While
`syncMu` is free the answer is in none of the places. Each case is needed for the
next: a step moves the answer from one to the following. `AnswerComes` is what
remains of it for a reader: the wait without a timeout in `syncToolsList` has
something to wait for, as long as the server runs and is listened to.
`CallsDecided`, which adds that the wait ends, stays with TLC.

### The hashes: `Catalog_proofs`

For all tools and schemas, and listings of any length:

| Theorem | States | Hypothesis |
| --- | --- | --- |
| `AggregateTells` | two listings have one aggregate if and only if they have the same payloads | neither listing is refused |
| `EqualAggregateEmptyDiff` | listings with one aggregate have an empty diff | neither listing is refused |
| `VerifiedPinHoldsItsTools` | a verified pin with tools is equal in aggregate only to listings of the same tools | the listing is not refused |
| `WrittenPinVerifies` | the pin written for a listing passes `VerifyPin` | the listing is not refused |

`AggregateTells` is what the guard needs of its hash: the aggregate depends on
the tools and not on their order. It rests on two facts about sorting. Tools with
different names can be sorted (`CanBeSorted`, `ByNameSorts`), and ascending
lists of the same tools are the same list (`Agree`, `SortedOnce`). Both are
inductions, on the set of tools and on the position. The induction theorems of
the library take the formula as an operator parameter, which the prover cannot
instantiate; that the proper-subset ordering of a finite set is well-founded is a
plain fact, and `LeastNumber` (a set of numbers that is not empty has a least
member) is derived from it. The inductions are then proofs by a least
counterexample.

`Listing` says that a `tools/list` result is a finite sequence of tools whose
names are numbers, their rank in the byte order by which the code sorts.

### The sessions: `Session_proofs`

| Theorem | States |
| --- | --- |
| `SessionInvariant` | `[]Inv`, the inductive invariant |
| `SessionTypeCorrect` | `[]TypeOK` |
| `OnlyPinnedPasses` | `[]OnlyPinnedToolsPass` |
| `NoChangeNoAlarm` | `[]NoFalseAlarm` |
| `DiffNamed` | `[]DiffNamesTheChange` |
| `AuditFaults` | `[]AuditSurvivesFaults` |
| `OthersDoNotCount` | a variable off the allowlist, or set again later, changes no fingerprint |
| `OtherWordsAreKept` | an argv without inventory flags is its own stable form |
| `SpellingsAreOne` | `--flag value` and `--flag=value'` are one configuration, wherever they stand in an argv, if the values sort alike |

For any listings of the server, any launches, modes and number of acts, any
exchange or clearing of fields of the pin file (`EditPin`) and any failed write of
the audit file. The assumptions
are those Session names: `ListingAssumption`, `LabelAssumption`, and that no
record is the value `Absent`.

`TrustedIsPin` says that the last pin the guard wrote is that of a listing it did
not refuse. Of the pin file the invariant keeps only that its aggregate is that of
some listing, or of none (`PinHasAggregate`), since an editor may exchange any
field. What still protects the listing is in the conditions of
`OnlyPinnedToolsPass`. If the aggregate is as written, a listing that passes says
what the pinned one says by `AggregateTells`. If tools and tool hashes are as
written, `VerifyPin` recomputes the aggregate from them, and by
`WrittenPinVerifies` nothing verifies but the one that was written
(`KeptToolsTell`). If the fingerprint is as written, the launch is compared with
it. An edit that takes out the tools and puts in another aggregate, or that clears
the fingerprint, meets none of the conditions (section 5). `WrittenPinVerifies` and
`AggregateTells` in the other direction give that what says the same passes; and with
equal tool hashes the diff is that to the pinned listing. `VerdictIsDecided` says
that no step but `Decide` leaves a verdict, so the three properties need to be
shown for that step only.

`AuditSurvivesFaults` compares the file with the re-approvals so far. `LogInOrder`
says that its chunks, whatever is left of them, are records of re-approvals in
their order; `Tail` keeps some of them in the same order (`InTurnAscends`: the rank
of a position is an injection into as many numbers as there are positions, hence
takes each), so the order holds for files of any length. `FaultsHide` counts: the
lines that parse and the writes that were struck - those that failed and those
right after one that did - are together at least the re-approvals and the last
line if it is at risk (`AtRisk`), which parses only because nothing follows it
yet: it lacks its newline, and the next write will spoil it and itself. Without
that debt the count is not inductive, for a line that parsed is lost by a later
write that succeeded. The other half, that the file ends with a whole line unless
the latest write failed (`EndsWhole`), is why no write but those two is lost. The count is promised only while the lines fit in
the ten that `audit tail` shows.

`StableArgv` walks argv and takes a word with its flag, so the position it reads
and the position it writes drift apart. `StableFrom` is its walk from each
position on. A recursive function is a CHOOSE, and `StableUnfolds` shows that one
with this recursion exists, built from the end of argv; `FromTheEnd` is the
induction, by a least counterexample. `SuffixDecides` says that what follows a
position decides the walk from there, `PrefixKept` that what precedes it adds the
same words if the last of them takes nothing across. `SpellingsAreOne` puts the
two together; the words around the flag are arbitrary, and a flag in front of it
that wants a value too is no obstacle, since no flag takes a flag.

### What is only model-checked

- Liveness under fairness (`ExitEndsRun`, `OnlyServerHolds`, `CallsDecided`,
  `ReviewEnds`, `RequestsEnd`) is out of the prover's reach.
- That `SortCSV` sorts: it uses `SortSeq` of the module TLC, whose definition
  chooses a permutation. `SpellingsAreOne` takes as its hypothesis that two values
  sort to one list; `MCSession` evaluates it for spellings with blanks and spaces.
- That launches which differ in anything but spelling differ in their
  fingerprints. `OtherWordsAreKept` shows it for words that are no inventory
  flags; `LabelAssumption` names it for the launches of a session.

## 5. Findings

`PROJECT.json` quotes the line each disagreement is with. In short:

- A message of the server with an error beside a listing goes to the host with
  both, unhashed (`sidecar/wrap.go:313`; `wrap_error`).
- A re-approval whose audit line cannot be written opens the gate all the same
  (`audit/jsonl.go:51`; `session_audit`).
- Two wraps can spend one token (`sidecar/approve.go:143`; `headless_token`).
- The hook's "approved" line is written even if the gate refused
  (`hitl/hook.go:126`; `hitl_audit`), and it may name the wrong person
  (`hitl/httpstub.go:85`; `hitl_who`).

Weaknesses the models show or had to leave room for, without a run of their own:

- A chmod that fails after the rename of `FileStore.Save` leaves the pin advanced,
  with an error for the caller and no event, although `core/gate.go:51` says
  "Approve/deny emit who/when/oldHash/newHash" (`core/store.go:81`).
  `AuditTellsTheOutcome` is about events that are emitted.
- `seq` starts at 0 in every process, so revisions are neither unique nor
  increasing across restarts, and a candidate can carry the revision of the pin in
  force (`core/gate.go:150`). A review ends with its process in the model, so no
  answer meets the revision of another process.
- The launch is compared only if the pin names one: clearing `config_fingerprint`
  in the file lets any launch pass (`core/gate.go:168`). With the tools taken out,
  `VerifyPin` accepts any aggregate of the right form (`core/pin.go:170`), so
  exchanging both lets another listing pass. `SECURITY.md:84` promises no more than
  the "integrity checks the MVP defines". `OnlyPinnedToolsPass` names both cases.
- While a wrap waits for its approve URL, another process may write the first
  pin, and the wrap then overwrites it (`sidecar/approve.go:140`), although
  `sidecar/approve.go:103` says "first pin only (file absent)".
  `BootstrapIsFirstPinOnly` holds for evaluations that nobody disturbs.
- A hook whose context has no deadline and whose person never answers waits for
  good, and the candidate keeps the gate shut (`hitl/httpstub.go:77`).
- When the host closes its side, `Run` waits for the server while it still holds
  the server's input open, and an interrupt is not seen any more
  (`sidecar/wrap.go:136`). `OnlyServerHolds` names exactly this exception.
- With tools in the pin, nothing checks its tool hashes (`core/pin.go:165`); the
  diff is made of them. `DiffNamesTheChange` holds for hashes the guard wrote.
- `audit tail` takes the last n lines and drops the unreadable ones afterwards, so
  it may show fewer than n although there are more (`audit/jsonl.go:83`).

## 6. Not modelled

- Wrap: failed writes to the host; the bytes of a line that does not decode as a
  message, which goes to the host unhashed and without `clientMu` -
  hash-before-forward is about messages that decode. The latch of a mismatch: the
  wrap drops it by rebuilding the gate for each listing.
- The HTTP encoding; what a late decider is told; `cmd/hitl`, a stateless client.
- Catalog: JSON below the first level of a schema. Identity: `pin_id`, which
  nothing reads back.
- Audit: the allowlist of fields and lines above 1 MiB.
- Framing: a byte parser without state between messages. Configuration and paths:
  evaluated once at start, constants here.
- Mock: `initialize` and `tools/call`, the `MODE` variable that stands in for a
  missing flip file (`internal/mockmcp/flip.go:49`), the key=value form of it, the
  marker file `.held`. Scripts: their assertions, which are tests.
- A pin file that somebody else edits so that it parses, but fails to verify,
  in the moment between the two reads of `GateFromPinFile`.

## 7. Plan

1. Done: all modules; the proofs about the gate, its hooks, the shared pin file,
   the pumps, the life of a wrap, the hashes, the argv of a launch and the
   sessions. Every invariant a passing run checks is
   stated by a theorem.
2. Proofs: that equal fingerprints are equal launches up to the spellings
   `StableArgv` normalises, which needs a proof that `SortCSV` sorts.
3. The properties of Hitl over a file-backed gate as a run (they are proved for
   it, and the violation runs use one); a refinement of what the wrap's host sees
   to TrustedPin. The pin may change between the decision on a listing
   (`PumpEvaluate`) and its write to the host (`PumpWrite`), so that the latter
   needs a history variable for the decision.

## 8. Running

    tlc -workers 2 -config MCGate_file.cfg MCGate
    tlapm Gate_proofs.tla

and in the same way for the other configurations and `*_proofs` modules. To see
an inductive invariant checked by TLC, name it as the `INVARIANT` of a
configuration of its module: `Inv` in `MCGate_file.cfg`, `MCHeadless_race.cfg`,
`MCWrap_safety.cfg` or `MCSession.cfg`, `RunInv` in `MCWrapRun.cfg`, `InvToken` in `MCHeadless_alone.cfg`, `HitlInv` in
`MCHitl_memory.cfg`, or, with a file, in `MCHitl_audit.cfg`.

The largest and longest run (`wrap_safety`) visits 4.4 million states in about
two minutes.
