------------------------------- MODULE WrapRun -------------------------------
(***************************************************************************)
(* The life of a wrap: Run around the two pumps of Wrap.  Run waits for    *)
(* ctx or for the first pump that ends; after a pump it waits for the      *)
(* server process, and only when it returns is the server's stdin closed.  *)
(* The server may exit, the host may close its side, an interrupt may      *)
(* come, a write to a server that is gone fails, and the server may print  *)
(* a line that is no message.  When Run returns the process ends.          *)
(* The pin holds still here, and the host's own listings are left to Wrap: *)
(* neither holds a lock or waits for anything.  So are second answers: by  *)
(* Wrap's OwnAnswer and PumpNeverBlocks they never reach syncCh.           *)
(***************************************************************************)
EXTENDS Wrap

CONSTANT Noise    \* a line of the server's stdout that is no Message

ASSUME NoiseAssumption == Noise \notin Contents \union {None}

VARIABLES
  run,         \* Run: "select", "wait" for the server, "returned"
  server,      \* the server process: "up" or "exited"
  input,       \* the host's side of stdin: "open" or "closed"
  interrupted, \* ctx is done
  callGate     \* what w.Cfg.CallGate makes of a tools/call: "lock" from 3 on, or "forward"

Lines == Messages \union {Answer(None, Noise)}
life == <<run, server, input, interrupted, callGate>>
runVars == <<vars, life>>

Running == run # "returned"
ClientEnded == thread[Client].at = "done"
PumpEnded == pump.at = "ended"

\* A pump is over and its error is in errCh.
EndClient == thread' = [thread EXCEPT ![Client] = [Sleeping EXCEPT !.at = "done"]]
EndPump == pump' = [at |-> "ended", msg |-> Nothing]

(***************************************************************************)
(* The pumps while Run goes on.                                            *)
(***************************************************************************)

\* What a thread does that needs no server.
ThreadStep(t) ==
  /\ SyncAnswer(t) \/ EvaluateLive(t) \/ (t = Client /\ DenyCall) \/ (t # Client /\ Notify(t))
  /\ Running /\ UNCHANGED life

\* What a thread writes to the server.
ThreadWrites(t) ==
  /\ SyncRequest(t) \/ (t = Client /\ ForwardCall)
  /\ Running /\ server = "up" /\ UNCHANGED life

\* The host calls as long as its side is open.
HostSends ==
  /\ Running /\ input = "open" /\ UNCHANGED life
  /\ \E c \in Calls : ReadCall(c, callGate)

\* Anything but a call goes to the server at once; it is gone: pumpClient ends.
ClientWriteFails ==
  /\ Running /\ input = "open" /\ server = "exited"
  /\ thread[Client].at = "idle"
  /\ EndClient
  /\ UNCHANGED <<pin, asked, pipe, pending, syncs, syncMu, syncCh, pump, host, life>>

\* syncToolsList cannot write: it gives syncMu back, the call is denied, the
\* notification passes.
SyncRequestFails(t) ==
  /\ Running /\ server = "exited"
  /\ thread[t].at = "lock" /\ syncMu = None
  /\ syncs' = syncs + 1
  /\ pending' = pending \union {[id |-> syncs + 1, method |-> "deadbugz-sync"]}
  /\ thread' = [thread EXCEPT ![t].at = IF t = Client THEN "deny" ELSE "notify"]
  /\ UNCHANGED <<pin, asked, pipe, syncMu, syncCh, pump, host, life>>

\* The call was allowed but cannot be written: pumpClient ends, nobody answers.
ForwardCallFails ==
  /\ Running /\ server = "exited"
  /\ thread[Client].at = "forward"
  /\ EndClient
  /\ UNCHANGED <<pin, asked, pipe, pending, syncs, syncMu, syncCh, pump, host, life>>

\* Mutant of ClientEOF: a read error is skipped like a line that is no message,
\* and only ctx ends pumpClient.
ClientEOFSkipped ==
  /\ Running /\ input = "closed" /\ interrupted
  /\ thread[Client].at = "idle"
  /\ EndClient
  /\ UNCHANGED <<pin, asked, pipe, pending, syncs, syncMu, syncCh, pump, host, life>>

\* pumpClient reads the end of its input.
ClientEOF ==
  /\ Running /\ input = "closed"
  /\ thread[Client].at = "idle"
  /\ EndClient
  /\ UNCHANGED <<pin, asked, pipe, pending, syncs, syncMu, syncCh, pump, host, life>>

\* Mutant of ClientCancelled: ctx ends the wait for a listing as well, and
\* handleClient returns without an answer.
ClientCancelledWaiting ==
  /\ Running /\ interrupted
  /\ thread[Client].at \in {"idle", "lock"}
  /\ EndClient
  /\ UNCHANGED <<pin, asked, pipe, pending, syncs, syncMu, syncCh, pump, host, life>>

\* pumpClient looks at ctx before it reads again; it may be in the read already.
ClientCancelled ==
  /\ Running /\ interrupted
  /\ thread[Client].at = "idle"
  /\ EndClient
  /\ UNCHANGED <<pin, asked, pipe, pending, syncs, syncMu, syncCh, pump, host, life>>

\* Mutant of PumpStep: the error of json.Unmarshal is not looked at.
PumpStepAnyLine ==
  /\ PumpServer
  /\ Running /\ UNCHANGED life

PumpStep ==
  /\ (pump.at = "read" /\ pipe # <<>>) => Head(pipe).content # Noise
  /\ PumpServer
  /\ Running /\ UNCHANGED life

\* A line that is JSON but no Message goes to the host as it is; one that is
\* not even JSON cannot be written by WriteJSON, and pumpServer ends.
PumpNoise ==
  /\ Running /\ pump.at = "read" /\ pipe # <<>> /\ Head(pipe).content = Noise
  /\ pipe' = Tail(pipe)
  /\ UNCHANGED pump \/ EndPump
  /\ UNCHANGED <<pin, asked, pending, syncs, syncMu, syncCh, thread, host, life>>

\* pumpServer reads the end of the server's output.
PumpEOF ==
  /\ Running /\ pump.at = "read" /\ pipe = <<>> /\ server = "exited"
  /\ EndPump
  /\ UNCHANGED <<pin, asked, pipe, pending, syncs, syncMu, syncCh, thread, host, life>>

\* pumpServer sees ctx before a read or while syncCh is full.
PumpCancelled ==
  /\ Running /\ interrupted /\ pump.at \in {"read", "deliver"}
  /\ EndPump
  /\ UNCHANGED <<pin, asked, pipe, pending, syncs, syncMu, syncCh, thread, host, life>>

(***************************************************************************)
(* Run.                                                                    *)
(***************************************************************************)

RunCancelled ==
  /\ run = "select" /\ interrupted
  /\ run' = "returned"
  /\ UNCHANGED <<vars, server, input, interrupted, callGate>>

\* Mutant of RunReceives: Run waits for both pumps.
RunReceivesBoth ==
  /\ run = "select" /\ ClientEnded /\ PumpEnded
  /\ run' = "wait"
  /\ UNCHANGED <<vars, server, input, interrupted, callGate>>

\* The first error in errCh; ctx is not looked at any more.
RunReceives ==
  /\ run = "select" /\ (ClientEnded \/ PumpEnded)
  /\ run' = "wait"
  /\ UNCHANGED <<vars, server, input, interrupted, callGate>>

RunReturns ==
  /\ run = "wait" /\ server = "exited"
  /\ run' = "returned"
  /\ UNCHANGED <<vars, server, input, interrupted, callGate>>

(***************************************************************************)
(* The server and the host.                                                *)
(***************************************************************************)

ServerStep(id) ==
  /\ ServerAnswer(id)
  /\ server = "up" /\ UNCHANGED life

ServerChanges ==
  /\ \E l \in Changes : ServerNotify(l)
  /\ server = "up" /\ UNCHANGED life

ServerPrints ==
  /\ server = "up" /\ Len(pipe) < PipeCap
  /\ pipe' = Append(pipe, Answer(None, Noise))
  /\ UNCHANGED <<pin, asked, guard, host, life>>

ServerExits ==
  /\ server = "up" /\ server' = "exited"
  /\ asked' = {}
  /\ UNCHANGED <<pin, pipe, guard, host, run, input, interrupted, callGate>>

HostCloses ==
  /\ input = "open" /\ input' = "closed"
  /\ UNCHANGED <<vars, run, server, interrupted, callGate>>

Interrupt ==
  /\ Running /\ ~interrupted /\ interrupted' = TRUE
  /\ UNCHANGED <<vars, run, server, input, callGate>>

(***************************************************************************)
(* The specification.                                                      *)
(***************************************************************************)

RunInit ==
  /\ Init
  /\ run = "select" /\ server = "up" /\ input = "open" /\ interrupted = FALSE
  /\ callGate \in {"lock", "forward"}

RunNext ==
  \/ \E t \in Threads : ThreadStep(t) \/ ThreadWrites(t) \/ SyncRequestFails(t)
  \/ HostSends
  \/ ClientWriteFails \/ ForwardCallFails \/ ClientEOF \/ ClientCancelled
  \/ PumpStep \/ PumpNoise \/ PumpEOF \/ PumpCancelled
  \/ RunCancelled \/ RunReceives \/ RunReturns
  \/ \E id \in asked : ServerStep(id)
  \/ ServerChanges \/ ServerPrints \/ ServerExits
  \/ HostCloses \/ Interrupt

RunSpec == RunInit /\ [][RunNext]_runVars

\* A runnable goroutine runs; a sync.Mutex starves nobody, so the wait for
\* syncMu is strongly fair; and a server that stays up answers each request in
\* the end, however often it also sends other things.  Nothing is assumed of
\* the server's exit, of the host or of the interrupt.
Syncs == 1 .. Cardinality(Calls \union Changes)

FairRunSpec ==
  /\ RunSpec
  /\ WF_runVars(PumpStep) /\ WF_runVars(PumpNoise) /\ WF_runVars(PumpEOF)
  /\ \A t \in Threads :
       /\ WF_runVars(ThreadStep(t))
       /\ SF_runVars((ThreadWrites(t) \/ SyncRequestFails(t)))
  /\ WF_runVars(ForwardCallFails) /\ WF_runVars(ClientEOF)
  /\ WF_runVars(RunCancelled) /\ WF_runVars(RunReceives) /\ WF_runVars(RunReturns)
  /\ \A id \in Syncs : SF_runVars(server = "up" /\ ServerAnswer(id) /\ UNCHANGED life)

(***************************************************************************)
(* Properties.                                                             *)
(***************************************************************************)

\* When the server exits, Run returns, whoever is waiting for an answer of it:
\* pumpClient or a refresh may be blocked on syncCh for good.
ExitEndsRun == server = "exited" ~> run = "returned"

\* The end of the host's input or an interrupt ends the session, except that
\* Run may be waiting for a server that is still up.
OnlyServerHolds ==
  (input = "closed" \/ interrupted) ~> (run = "returned" \/ (run = "wait" /\ server = "up"))

\* Every tools/call the wrap reads is forwarded or denied in the end, however
\* the refreshes after list_changed compete with it for syncMu and syncCh,
\* unless the session ends or pumpServer gave up on a server that is still up.
CallsDecided ==
  \A c \in Calls :
    c \in requested ~> (c \in decided \/ run = "returned" \/ (PumpEnded /\ server = "up"))

\* Types of the life of a wrap; a line that is no message may be in the pipe.
RunTypeOK ==
  /\ trusted \in Catalogs \union {None} /\ granted \in SUBSET Catalogs
  /\ asked \in SUBSET Ids
  /\ pipe \in Seq(Lines) /\ syncCh \in Seq(Answers)
  /\ pending \in SUBSET ([id : Lists, method : {"tools/list"}] \union [id : Nat, method : {"deadbugz-sync"}])
  /\ syncs \in Nat /\ syncMu \in Threads \union {None}
  /\ thread \in [Threads -> ThreadStates]
  /\ pump \in [at : {"read", "deliver", "evaluate", "forward", "deny", "ended"}, msg : Answers \union {Nothing}]
  /\ requested \in SUBSET (Lists \union Calls) /\ decided \in SUBSET Calls
  /\ run \in {"select", "wait", "returned"} /\ server \in {"up", "exited"}
  /\ input \in {"open", "closed"} /\ interrupted \in BOOLEAN /\ callGate \in {"lock", "forward"}

\* As long as the server runs and pumpServer reads, the thread in syncMu waits
\* for an answer that is still to come: the server has the request, or the
\* answer is on its way and known for what it is.  Neither noise, a call's
\* answer, a failed write nor the end of the other pump loses it.
AnswerComes ==
  (syncMu # None /\ server = "up" /\ ~PumpEnded) =>
    \/ /\ Tracked(syncs, "deadbugz-sync")
       /\ syncs \in asked \/ \E i \in 1 .. Len(pipe) : pipe[i].id = syncs
    \/ pump.at = "deliver" /\ pump.msg.id = syncs
    \/ syncCh # <<>> /\ Head(syncCh).id = syncs

\* No tools/call gets lost while the server runs: it is decided, or pumpClient
\* still has it in hand, through a closed input and an interrupt too.
NoCallLost ==
  server = "up" => \A c \in requested \intersect Calls : c \in decided \/ thread[Client].call = c

\* From CALL_GATE=3 on no call is about to be written without a granted listing,
\* whatever fails on the way.
GateHolds ==
  (callGate = "lock" /\ thread[Client].at = "forward") => thread[Client].got.content \in granted

(***************************************************************************)
(* The inductive invariant behind the last four properties.                *)
(***************************************************************************)

\* Where the answer to the latest request of the guard can be.  It is in one
\* place; it is in none when nobody waits, or when it was lost with the server
\* or with pumpServer.
AtServer == asked \intersect Nat = {syncs} /\ Tracked(syncs, "deadbugz-sync")
InPipe ==
  /\ Tracked(syncs, "deadbugz-sync")
  /\ \E k \in 1 .. Len(pipe) : /\ pipe[k].id = syncs
                               /\ \A i \in 1 .. Len(pipe) : pipe[i].id \in Nat => i = k
WithPump == pump.at = "deliver" /\ pump.msg.id = syncs
Ready == Len(syncCh) = 1 /\ Head(syncCh).id = syncs

NotAtServer == asked \intersect Nat = {}
NotInPipe == \A i \in 1 .. Len(pipe) : pipe[i].id \notin Nat
NotWithPump == pump.at # "deliver"
NotReady == syncCh = <<>>

OnePlace ==
  IF syncMu = None THEN NotAtServer /\ NotInPipe /\ NotWithPump /\ NotReady
  ELSE \/ AtServer /\ NotInPipe /\ NotWithPump /\ NotReady
       \/ NotAtServer /\ InPipe /\ NotWithPump /\ NotReady
       \/ NotAtServer /\ NotInPipe /\ WithPump /\ NotReady
       \/ NotAtServer /\ NotInPipe /\ NotWithPump /\ Ready
       \/ /\ NotAtServer /\ NotInPipe /\ NotWithPump /\ NotReady
          /\ server = "exited" \/ PumpEnded

\* HandsMatchStep of Wrap, with pumps that end.
RunHands ==
  /\ \A t \in Threads :
       /\ thread[t].at \in {"idle", "lock", "await"} => thread[t].got = Nothing
       /\ thread[t].at = "evaluate" => thread[t].got # Nothing
  /\ thread[Client].at \in {"idle", "done"} <=> thread[Client].call = None
  /\ pump.at \notin {"read", "ended"} => pump.msg # Nothing

RunInv ==
  /\ RunTypeOK
  /\ HolderAwaits /\ OnePlace /\ NotifiedOnce /\ RunHands /\ PinIsGranted
  /\ OwnAnswer /\ NoCallLost /\ GateHolds
=============================================================================
