-------------------------------- MODULE Wrap --------------------------------
(***************************************************************************)
(* The stdio wrap (sidecar/wrap.go): the host on one side, the MCP server  *)
(* on the other, and between them pumpClient, pumpServer and one goroutine *)
(* for every tools/list_changed of the server.                             *)
(*                                                                         *)
(* pumpClient and the goroutines both call syncToolsList: under syncMu     *)
(* they send the server a tools/list of their own and wait on syncCh for   *)
(* pumpServer to hand over the answer.  evaluateLive is one step here, the *)
(* moment it compares a listing with the pin; Headless has its file steps. *)
(* The server answers in any order, may answer twice, may put a listing in *)
(* any result, and may list anything at any time, also in a message that   *)
(* carries an error beside the listing.  What it sends is JSON.            *)
(***************************************************************************)
EXTENDS Integers, Sequences, FiniteSets

CONSTANTS
  Catalogs,   \* tools/list results, one per Aggregate; no tools is a listing too
  None,       \* no pin, nothing received
  Plain,      \* the result of a tools/call
  Garbage,    \* a result that parseTools cannot read
  Lists,      \* ids of the host's tools/list requests
  Calls,      \* ids of the host's tools/call requests
  Changes,    \* the server's list_changed notifications
  Client,     \* pumpClient
  SyncCap,    \* capacity of syncCh
  PipeCap     \* bound: messages in the server's stdout pipe

ASSUME CapAssumption == SyncCap \in Nat \ {0} /\ PipeCap \in Nat \ {0}

\* A message with an "error" field, be it null, and a listing beside it:
\* mcpio.Message keeps both fields and writes both.  The guard looks no further
\* than the error, so one with nothing beside it is the same case.
Beside(c) == [error |-> c]
Errors == {Beside(c) : c \in Catalogs}

ASSUME ContentAssumption ==
  /\ {None, Plain, Garbage} \intersect Catalogs = {}
  /\ None \notin {Plain, Garbage}
  /\ Errors \intersect (Catalogs \union {None, Plain, Garbage}) = {}
ASSUME IdAssumption ==
  /\ (Lists \union Calls \union Changes) \intersect (Nat \union {Client, None}) = {}
  /\ {Client, None} \intersect Nat = {} /\ Client # None
  /\ Lists \intersect Calls = {} /\ Changes \intersect (Lists \union Calls) = {}

VARIABLES
  trusted,   \* the catalog of the pin, or None
  granted,   \* history: catalogs a person granted
  asked,     \* ids of the requests the server received
  pipe,      \* server stdout: answers and notifications, in order
  pending,   \* w.pending: the ids that await a host listing or a sync answer
  syncs,     \* w.syncN
  syncMu,    \* the thread inside syncToolsList, or None
  syncCh,    \* w.syncCh
  thread,    \* pumpClient and the list_changed goroutines
  pump,      \* pumpServer
  requested, \* ids the host sent so far
  decided    \* history: host calls forwarded or denied

guard == <<pending, syncs, syncMu, syncCh, thread, pump>>
host == <<requested, decided>>
pin == <<trusted, granted>>
vars == <<trusted, granted, asked, pipe, guard, host>>

Threads == {Client} \union Changes
Contents == Catalogs \union Errors \union {Plain, Garbage}
Ids == Lists \union Calls \union Nat
Answer(id, content) == [id |-> id, content |-> content]
Nothing == Answer(None, None)
Answers == [id : Ids, content : Contents]
Messages == Answers \union [id : Changes, content : {None}]

\* A thread waits for syncMu, for its answer, evaluates it, and acts on it.
\* call: the tools/call it decides on; sync: the id of its own request.
Steps == {"idle", "lock", "await", "evaluate", "forward", "deny", "notify", "done"}
ThreadStates == [at : Steps, call : Calls \union {None}, sync : Nat, got : Answers \union {Nothing}]
Sleeping == [at |-> "idle", call |-> None, sync |-> 0, got |-> Nothing]
Reading == [at |-> "read", msg |-> Nothing]

\* len(msg.Error) > 0.
Failed(content) == content \in Errors

(***************************************************************************)
(* pumpClient: handleClient for one message at a time.                     *)
(***************************************************************************)

\* tools/list: track it, then write it to the server.
ForwardList(r) ==
  /\ thread[Client].at = "idle" /\ r \notin requested
  /\ requested' = requested \union {r}
  /\ pending' = pending \union {[id |-> r, method |-> "tools/list"]}
  /\ asked' = asked \union {r}
  /\ UNCHANGED <<pin, pipe, syncs, syncMu, syncCh, thread, pump, decided>>

\* tools/call.  Under CALL_GATE=3 the first step is "lock", for a listing of the
\* guard's own; below 3 it is "forward".
ReadCall(c, first) ==
  /\ thread[Client].at = "idle" /\ c \notin requested
  /\ requested' = requested \union {c}
  /\ thread' = [thread EXCEPT ![Client] = [Sleeping EXCEPT !.at = first, !.call = c]]
  /\ UNCHANGED <<pin, asked, pipe, pending, syncs, syncMu, syncCh, pump, decided>>

(***************************************************************************)
(* syncToolsList and what its callers do with the answer.                  *)
(***************************************************************************)

\* Mutant of Sends: the request is tracked like one of the host.
SendsAsHost(t) ==
  /\ syncs' = syncs + 1
  /\ pending' = pending \union {[id |-> syncs + 1, method |-> "tools/list"]}
  /\ asked' = asked \union {syncs + 1}
  /\ thread' = [thread EXCEPT ![t].at = "await", ![t].sync = syncs + 1]
  /\ UNCHANGED <<pin, pipe, syncCh, pump, host>>

\* The request of a refresh carries the next id and is tracked as the guard's.
Sends(t) ==
  /\ syncs' = syncs + 1
  /\ pending' = pending \union {[id |-> syncs + 1, method |-> "deadbugz-sync"]}
  /\ asked' = asked \union {syncs + 1}
  /\ thread' = [thread EXCEPT ![t].at = "await", ![t].sync = syncs + 1]
  /\ UNCHANGED <<pin, pipe, syncCh, pump, host>>

\* Mutant of SyncRequest: syncMu is not taken.
SyncRequestUnlocked(t) ==
  /\ thread[t].at = "lock"
  /\ syncMu' = t
  /\ Sends(t)

\* Take syncMu, track the next id and send the request.
SyncRequest(t) ==
  /\ thread[t].at = "lock"
  /\ syncMu = None /\ syncMu' = t
  /\ Sends(t)

\* Mutant of SyncAnswer: the answer is used without looking at its error.
SyncAnswerTrusting(t) ==
  /\ thread[t].at = "await" /\ syncCh # <<>>
  /\ syncCh' = Tail(syncCh) /\ syncMu' = None
  /\ thread' = [thread EXCEPT ![t].got = Head(syncCh), ![t].at = IF t = Client THEN "forward" ELSE "notify"]
  /\ UNCHANGED <<pin, asked, pipe, pending, syncs, pump, host>>

\* Mutant of SyncAnswer: syncMu is kept when the server answered with an error.
SyncAnswerKeepsLock(t) ==
  /\ thread[t].at = "await" /\ syncCh # <<>>
  /\ syncCh' = Tail(syncCh)
  /\ syncMu' = IF Failed(Head(syncCh).content) THEN syncMu ELSE None
  /\ thread' = [thread EXCEPT ![t].got = Head(syncCh),
        ![t].at = IF ~Failed(Head(syncCh).content) THEN "evaluate"
                  ELSE IF t = Client THEN "deny" ELSE "notify"]
  /\ UNCHANGED <<pin, asked, pipe, pending, syncs, pump, host>>

\* The answer that arrives on syncCh; syncMu is free again.  An error or an
\* unreadable answer denies a call, and lets a notification pass.
SyncAnswer(t) ==
  /\ thread[t].at = "await" /\ syncCh # <<>>
  /\ syncCh' = Tail(syncCh) /\ syncMu' = None
  /\ thread' = [thread EXCEPT ![t].got = Head(syncCh),
        ![t].at = IF ~Failed(Head(syncCh).content) THEN "evaluate"
                  ELSE IF t = Client THEN "deny" ELSE "notify"]
  /\ UNCHANGED <<pin, asked, pipe, pending, syncs, pump, host>>

Allowed(content) == content = trusted

EvaluateLive(t) ==
  /\ thread[t].at = "evaluate"
  /\ thread' = [thread EXCEPT ![t].at =
        IF t # Client THEN "notify" ELSE IF Allowed(thread[t].got.content) THEN "forward" ELSE "deny"]
  /\ UNCHANGED <<pin, asked, pipe, pending, syncs, syncMu, syncCh, pump, host>>

\* The call goes to the server.
ForwardCall ==
  /\ thread[Client].at = "forward"
  /\ asked' = asked \union {thread[Client].call}
  /\ decided' = decided \union {thread[Client].call}
  /\ thread' = [thread EXCEPT ![Client] = Sleeping]
  /\ UNCHANGED <<pin, pipe, pending, syncs, syncMu, syncCh, pump, requested>>

\* writeClientDeny.
DenyCall ==
  /\ thread[Client].at = "deny"
  /\ decided' = decided \union {thread[Client].call}
  /\ thread' = [thread EXCEPT ![Client] = Sleeping]
  /\ UNCHANGED <<pin, asked, pipe, pending, syncs, syncMu, syncCh, pump, requested>>

\* handleServerListChanged ends with the notification for the host.
Notify(l) ==
  /\ thread[l].at = "notify"
  /\ thread' = [thread EXCEPT ![l] = [Sleeping EXCEPT !.at = "done"]]
  /\ UNCHANGED <<pin, asked, pipe, pending, syncs, syncMu, syncCh, pump, host>>

(***************************************************************************)
(* pumpServer.                                                             *)
(***************************************************************************)

Tracked(id, method) == [id |-> id, method |-> method] \in pending

\* Mutant of Untrack: an answer empties w.pending.
UntrackAll(id) == {}

\* An answered request is forgotten.
Untrack(id) == {p \in pending : p.id # id}

\* The notification starts a goroutine and pumpServer reads on.
PumpListChanged ==
  /\ pump.at = "read" /\ pipe # <<>> /\ Head(pipe).id \in Changes
  /\ pipe' = Tail(pipe)
  /\ thread' = [thread EXCEPT ![Head(pipe).id].at = "lock"]
  /\ UNCHANGED <<pin, asked, pending, syncs, syncMu, syncCh, pump, host>>

\* Mutant of PumpSync: the entry of the request stays in w.pending.
PumpSyncKeeps ==
  /\ pump.at = "read" /\ pipe # <<>> /\ Tracked(Head(pipe).id, "deadbugz-sync")
  /\ pipe' = Tail(pipe)
  /\ pump' = [at |-> "deliver", msg |-> Head(pipe)]
  /\ UNCHANGED <<pin, asked, pending, syncs, syncMu, syncCh, thread, host>>

\* The answer to a request of the guard is for syncCh.
PumpSync ==
  /\ pump.at = "read" /\ pipe # <<>> /\ Tracked(Head(pipe).id, "deadbugz-sync")
  /\ pipe' = Tail(pipe)
  /\ pending' = Untrack(Head(pipe).id)
  /\ pump' = [at |-> "deliver", msg |-> Head(pipe)]
  /\ UNCHANGED <<pin, asked, syncs, syncMu, syncCh, thread, host>>

PumpDeliver ==
  /\ pump.at = "deliver" /\ Len(syncCh) < SyncCap
  /\ syncCh' = Append(syncCh, pump.msg)
  /\ pump' = Reading
  /\ UNCHANGED <<pin, asked, pipe, pending, syncs, syncMu, thread, host>>

\* Mutant of IsListing: only the answers to the host's own tools/list count.
IsListingById(msg) == ~Failed(msg.content) /\ Tracked(msg.id, "tools/list")

\* denyToolsListForward: what was asked as a listing, or looks like one, unless
\* the message carries an error.
IsListing(msg) == ~Failed(msg.content) /\ (Tracked(msg.id, "tools/list") \/ msg.content \in Catalogs)

\* Everything else is for the host.
PumpRead ==
  /\ pump.at = "read" /\ pipe # <<>>
  /\ LET msg == Head(pipe)
     IN  /\ msg.id \notin Changes /\ ~Tracked(msg.id, "deadbugz-sync")
         /\ pipe' = Tail(pipe)
         /\ pending' = Untrack(msg.id)
         /\ pump' = [at |-> IF ~IsListing(msg) THEN "forward"
                            ELSE IF msg.content = Garbage THEN "deny" ELSE "evaluate",
                     msg |-> msg]
  /\ UNCHANGED <<pin, asked, syncs, syncMu, syncCh, thread, host>>

PumpEvaluate ==
  /\ pump.at = "evaluate"
  /\ pump' = [pump EXCEPT !.at = IF Allowed(pump.msg.content) THEN "forward" ELSE "deny"]
  /\ UNCHANGED <<pin, asked, pipe, pending, syncs, syncMu, syncCh, thread, host>>

\* The host gets the message, or a fail-closed error in its place.
PumpWrite ==
  /\ pump.at \in {"forward", "deny"}
  /\ pump' = Reading
  /\ UNCHANGED <<pin, asked, pipe, pending, syncs, syncMu, syncCh, thread, host>>

(***************************************************************************)
(* The server and the operator.                                            *)
(***************************************************************************)

\* The server may list anything at any time, with or without an error beside
\* it, and in the result of a call too.  What takes the same way is one case: an
\* error and an unreadable answer for syncToolsList.
MayAnswer(id) ==
  Catalogs \union Errors \union
    (IF id \in Calls THEN {Plain} ELSE IF id \in Lists THEN {Garbage} ELSE {})

ServerAnswer(id) ==
  /\ id \in asked /\ Len(pipe) < PipeCap
  /\ \E content \in MayAnswer(id) : pipe' = Append(pipe, Answer(id, content))
  /\ asked' = asked \ {id}
  /\ UNCHANGED <<pin, guard, host>>

\* The same, and the request is answered once more later.
ServerAnswerTwice(id) ==
  /\ id \in asked /\ Len(pipe) < PipeCap
  /\ \E content \in MayAnswer(id) : pipe' = Append(pipe, Answer(id, content))
  /\ UNCHANGED <<pin, asked, guard, host>>

ServerNotify(l) ==
  /\ thread[l].at = "idle" /\ Len(pipe) < PipeCap
  /\ \A i \in 1 .. Len(pipe) : pipe[i].id # l
  /\ pipe' = Append(pipe, Answer(l, None))
  /\ UNCHANGED <<pin, asked, guard, host>>

\* An approval of c, with or without a terminal, or the loss of the pin.
Approve(c) ==
  /\ trusted' = c /\ granted' = granted \union {c}
  /\ UNCHANGED <<asked, pipe, guard, host>>
LosePin ==
  /\ trusted' = None
  /\ UNCHANGED <<granted, asked, pipe, guard, host>>

(***************************************************************************)
(* The specification.                                                      *)
(***************************************************************************)

Init ==
  /\ trusted \in Catalogs \union {None}
  /\ granted = {trusted} \ {None}
  /\ asked = {} /\ pipe = <<>>
  /\ pending = {} /\ syncs = 0 /\ syncMu = None /\ syncCh = <<>>
  /\ thread = [t \in Threads |-> Sleeping]
  /\ pump = Reading
  /\ requested = {} /\ decided = {}

PumpServer ==
  PumpListChanged \/ PumpSync \/ PumpDeliver \/ PumpRead \/ PumpEvaluate \/ PumpWrite

Next ==
  \/ \E r \in Lists : ForwardList(r)
  \/ \E c \in Calls : ReadCall(c, "lock")
  \/ \E t \in Threads : SyncRequest(t) \/ SyncAnswer(t) \/ EvaluateLive(t)
  \/ ForwardCall \/ DenyCall
  \/ \E l \in Changes : Notify(l)
  \/ PumpServer
  \/ \E id \in asked : ServerAnswer(id) \/ ServerAnswerTwice(id)
  \/ \E l \in Changes : ServerNotify(l)
  \/ \E c \in Catalogs : Approve(c)
  \/ LosePin

Spec == Init /\ [][Next]_vars

(***************************************************************************)
(* Properties.                                                             *)
(***************************************************************************)

\* Types of the pipes, the threads and the tables.
TypeOK ==
  /\ trusted \in Catalogs \union {None} /\ granted \in SUBSET Catalogs
  /\ asked \in SUBSET Ids
  /\ pipe \in Seq(Messages) /\ syncCh \in Seq(Answers)
  /\ pending \in SUBSET ([id : Lists, method : {"tools/list"}] \union [id : Nat, method : {"deadbugz-sync"}])
  /\ syncs \in Nat /\ syncMu \in Threads \union {None}
  /\ thread \in [Threads -> ThreadStates]
  /\ pump \in [at : {"read", "deliver", "evaluate", "forward", "deny", "ended"}, msg : Answers \union {Nothing}]
  /\ requested \in SUBSET (Lists \union Calls) /\ decided \in SUBSET Calls

\* No listing reaches the host as a result unless a person granted it, whether
\* the server sent it as the answer to a tools/list, to something else, or
\* twice.  It says nothing of a listing beside an error: see HashBeforeForward.
ResultsAreGranted ==
  (pump.at = "forward" /\ pump.msg.content \in Catalogs) => pump.msg.content \in granted

\* No listing at all reaches the host before it is hashed and found granted
\* (SECURITY.md:70, sidecar/wrap.go:78).  A message with an error beside the
\* listing does (sidecar/wrap.go:313).
HashBeforeForward ==
  pump.at = "forward" =>
    \A c \in Catalogs : pump.msg.content \in {c, Beside(c)} => c \in granted

\* The answer a thread acts on is the answer to the request it made itself:
\* never one asked for by an earlier call or by another thread.
OwnAnswer == \A t \in Threads : thread[t].got # Nothing => thread[t].got.id = thread[t].sync

\* A call is forwarded on the strength of a granted listing only.
CallNeedsGrant == thread[Client].at = "forward" => thread[Client].got.content \in granted

\* pumpServer never finds syncCh full, so a server that answers twice cannot
\* block it.
PumpNeverBlocks == Len(syncCh) + (IF pump.at = "deliver" THEN 1 ELSE 0) <= 1

(***************************************************************************)
(* The inductive invariant behind the properties above.                    *)
(***************************************************************************)

\* Only the thread in syncMu waits for an answer, and it waits for the answer
\* to the latest request of the guard.
HolderAwaits ==
  /\ \A t \in Threads : thread[t].at = "await" <=> syncMu = t
  /\ syncMu # None => thread[syncMu].sync = syncs

\* That answer is in one place: asked for, with pumpServer, or in syncCh.  With
\* syncMu free it is in none.
Refreshes == {p \in pending : p.method = "deadbugz-sync"}
Asked == Refreshes = {[id |-> syncs, method |-> "deadbugz-sync"]} /\ pump.at # "deliver" /\ syncCh = <<>>
InPump == Refreshes = {} /\ pump.at = "deliver" /\ pump.msg.id = syncs /\ syncCh = <<>>
InChannel == Refreshes = {} /\ pump.at # "deliver" /\ Len(syncCh) = 1 /\ Head(syncCh).id = syncs
Nowhere == Refreshes = {} /\ pump.at # "deliver" /\ syncCh = <<>>
OneRefresh == IF syncMu = None THEN Nowhere ELSE Asked \/ InPump \/ InChannel

\* A notification on its way is there once, and its goroutine has not started.
NotifiedOnce ==
  \A i \in 1 .. Len(pipe) : pipe[i].id \in Changes =>
    /\ thread[pipe[i].id].at = "idle"
    /\ \A j \in 1 .. Len(pipe) : pipe[j].id = pipe[i].id => j = i

\* A thread holds no answer before its own arrived, and one when it evaluates;
\* pumpClient has a call in hand whenever it is busy.
HandsMatchStep ==
  /\ \A t \in Threads :
       /\ thread[t].at \in {"idle", "lock", "await"} => thread[t].got = Nothing
       /\ thread[t].at = "evaluate" => thread[t].got # Nothing
  /\ thread[Client].at # "idle" => thread[Client].call \in Calls
  /\ pump.at # "read" => pump.msg # Nothing

PinIsGranted == trusted \in granted \union {None}

Inv ==
  /\ TypeOK
  /\ HolderAwaits /\ OneRefresh /\ NotifiedOnce /\ HandsMatchStep /\ PinIsGranted
  /\ OwnAnswer /\ ResultsAreGranted /\ CallNeedsGrant
=============================================================================
