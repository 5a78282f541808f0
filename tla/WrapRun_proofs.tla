--------------------------- MODULE WrapRun_proofs ---------------------------
(***************************************************************************)
(* Proofs about WrapRun for any number of calls and notifications, any     *)
(* catalogs and CALL_GATE, and any moment at which the server exits, the   *)
(* host closes its side, an interrupt comes or a write fails.              *)
(***************************************************************************)
EXTENDS WrapRun, SequenceTheorems, TLAPS

USE CapAssumption, ContentAssumption, IdAssumption, NoiseAssumption

(***************************************************************************)
(* The steps of RunNext by what they do.                                   *)
(***************************************************************************)

\* pumpClient ends, between two messages or on a call it cannot write.
ClientEnds ==
  /\ thread[Client].at = "idle" \/ (thread[Client].at = "forward" /\ server = "exited")
  /\ EndClient
  /\ UNCHANGED <<pin, asked, pipe, pending, syncs, syncMu, syncCh, pump, host>>

\* pumpServer ends, perhaps with an answer in its hands.
PumpEnds ==
  /\ pump.at \in {"read", "deliver"}
  /\ EndPump
  /\ UNCHANGED <<pin, asked, pipe, pending, syncs, syncMu, syncCh, thread, host>>

\* pumpServer on a line that is a message.
PumpMessage ==
  /\ (pump.at = "read" /\ pipe # <<>>) => Head(pipe).content # Noise
  /\ PumpServer

\* Every step is one of the threads, of the pumps, of the server, or none that
\* they see.
LEMMA RunSteps ==
  ASSUME [RunNext]_runVars
  PROVE  /\ callGate' = callGate
         /\ \/ ServerExits
            \/ /\ server' = server
               /\ \/ UNCHANGED vars
                  \/ \E c \in Calls : ReadCall(c, callGate)
                  \/ \E t \in Threads : \/ server = "up" /\ SyncRequest(t)
                                        \/ SyncRequestFails(t)
                                        \/ SyncAnswer(t) \/ EvaluateLive(t)
                  \/ ForwardCall \/ DenyCall \/ ClientEnds
                  \/ \E l \in Changes : Notify(l)
                  \/ PumpMessage \/ PumpNoise \/ PumpEnds
                  \/ \E id \in asked : server = "up" /\ ServerAnswer(id)
                  \/ \E l \in Changes : ServerNotify(l)
                  \/ ServerPrints
<1>1. CASE \E t \in Threads : ThreadStep(t) \/ ThreadWrites(t) \/ SyncRequestFails(t)
  BY <1>1 DEF ThreadStep, ThreadWrites, SyncRequestFails, life, Threads
<1>2. CASE HostSends
  BY <1>2 DEF HostSends, life
<1>3. CASE ClientWriteFails \/ ForwardCallFails \/ ClientEOF \/ ClientCancelled
  BY <1>3 DEF ClientWriteFails, ForwardCallFails, ClientEOF, ClientCancelled, ClientEnds, life
<1>4. CASE PumpStep \/ PumpNoise \/ PumpEOF \/ PumpCancelled
  BY <1>4 DEF PumpStep, PumpNoise, PumpEOF, PumpCancelled, PumpMessage, PumpEnds, life
<1>5. CASE RunCancelled \/ RunReceives \/ RunReturns \/ HostCloses \/ Interrupt
  BY <1>5 DEF RunCancelled, RunReceives, RunReturns, HostCloses, Interrupt
<1>6. CASE (\E id \in asked : ServerStep(id)) \/ ServerChanges \/ ServerPrints \/ ServerExits
  BY <1>6 DEF ServerStep, ServerChanges, ServerPrints, ServerExits, life
<1>7. CASE UNCHANGED runVars
  BY <1>7 DEF runVars, life
<1> QED
  BY <1>1, <1>2, <1>3, <1>4, <1>5, <1>6, <1>7 DEF RunNext

\* Run's own variables keep their types.
LEMMA LifeTypes ==
  ASSUME RunTypeOK, [RunNext]_runVars
  PROVE  /\ run' \in {"select", "wait", "returned"} /\ server' \in {"up", "exited"}
         /\ input' \in {"open", "closed"} /\ interrupted' \in BOOLEAN /\ callGate' \in {"lock", "forward"}
<1> USE DEF RunTypeOK
<1>1. CASE UNCHANGED life
  BY <1>1 DEF life
<1>2. CASE RunCancelled \/ RunReceives \/ RunReturns \/ HostCloses \/ Interrupt \/ ServerExits
  BY <1>2 DEF RunCancelled, RunReceives, RunReturns, HostCloses, Interrupt, ServerExits
<1>3. CASE UNCHANGED runVars
  BY <1>3 DEF runVars, life
<1> QED
  BY <1>1, <1>2, <1>3
     DEF RunNext, ThreadStep, ThreadWrites, SyncRequestFails, HostSends, ClientWriteFails,
         ForwardCallFails, ClientEOF, ClientCancelled, PumpStep, PumpNoise, PumpEOF, PumpCancelled,
         ServerStep, ServerChanges, ServerPrints

\* Only pumpClient, a refresh and the start of a goroutine touch the threads,
\* syncMu and the counter of the guard's requests.
LEMMA RunThreadSteps ==
  ASSUME [RunNext]_runVars
  PROVE  \/ UNCHANGED <<thread, syncMu, syncs>>
         \/ \E c \in Calls : ReadCall(c, callGate)
         \/ \E t \in Threads : SyncRequest(t) \/ SyncRequestFails(t) \/ SyncAnswer(t) \/ EvaluateLive(t)
         \/ ForwardCall \/ DenyCall \/ ClientEnds
         \/ \E l \in Changes : Notify(l)
         \/ PumpListChanged
BY RunSteps
   DEF PumpMessage, PumpServer, vars, pin, guard, host, PumpSync, PumpDeliver, PumpRead, PumpEvaluate,
       PumpWrite, PumpNoise, PumpEnds, ServerAnswer, ServerNotify, ServerPrints, ServerExits

\* The pin holds still.
LEMMA PinStays == ASSUME [RunNext]_runVars PROVE UNCHANGED <<trusted, granted>>
BY RunSteps
   DEF PumpMessage, PumpServer, vars, pin, ReadCall, SyncRequest, Sends, SyncRequestFails, SyncAnswer,
       EvaluateLive, ForwardCall, DenyCall, ClientEnds, Notify, PumpListChanged, PumpSync, PumpDeliver,
       PumpRead, PumpEvaluate, PumpWrite, PumpNoise, PumpEnds, ServerAnswer, ServerNotify, ServerPrints,
       ServerExits

(***************************************************************************)
(* The parts of the inductive invariant, one at a time.                    *)
(***************************************************************************)

\* What the steps of a thread change in its state keeps it one.
LEMMA ThreadEdits ==
  ASSUME NEW s \in ThreadStates, NEW step \in Steps
  PROVE  /\ [s EXCEPT !.at = step] \in ThreadStates
         /\ \A n \in Nat : [s EXCEPT !.at = step, !.sync = n] \in ThreadStates
         /\ \A a \in Answers : [s EXCEPT !.got = a, !.at = step] \in ThreadStates
BY DEF ThreadStates

\* A thread that sleeps, or is over, is in one of its states.
LEMMA Sleeps == Sleeping \in ThreadStates /\ [Sleeping EXCEPT !.at = "done"] \in ThreadStates
BY DEF ThreadStates, Sleeping, Steps

\* A line that is a message is the answer or the notification it looks like.
LEMMA HeadOfPipe ==
  ASSUME pipe \in Seq(Lines), pipe # <<>>
  PROVE  /\ Head(pipe) \in Lines /\ Tail(pipe) \in Seq(Lines)
         /\ Head(pipe).content = Noise => Head(pipe) = Answer(None, Noise)
         /\ Head(pipe).content # Noise => Head(pipe) \in Messages
         /\ (Head(pipe).content # Noise /\ Head(pipe).id \notin Changes) => Head(pipe) \in Answers
<1>1. Head(pipe) \in Lines /\ Tail(pipe) \in Seq(Lines)
  BY HeadTailProperties
<1>2. Answer(None, Noise).content = Noise
  BY DEF Answer
<1>3. \A m \in Messages : m.content # Noise
  BY DEF Messages, Answers
<1>4. \A m \in Messages : m.id \notin Changes => m \in Answers
  BY DEF Messages
<1> QED
  BY <1>1, <1>2, <1>3, <1>4 DEF Lines

\* The threads keep their types.
LEMMA ThreadTypes == ASSUME RunInv, [RunNext]_runVars PROVE thread' \in [Threads -> ThreadStates]
<1> USE DEF RunInv, RunTypeOK
<1>0. Client \in Threads /\ Changes \subseteq Threads /\ {"lock", "forward"} \subseteq Steps
  BY DEF Threads, Steps
<1> DEFINE Typed == thread' \in [Threads -> ThreadStates]
<1> SUFFICES Typed
  OBVIOUS
<1>1. CASE UNCHANGED thread
  BY <1>1
<1>2. ASSUME NEW c \in Calls, ReadCall(c, callGate) PROVE Typed
  <2>1. [Sleeping EXCEPT !.at = callGate, !.call = c] \in ThreadStates
    BY <1>0 DEF ThreadStates, Sleeping
  <2> QED
    BY <1>2, <2>1 DEF ReadCall
<1>3. ASSUME NEW t \in Threads, SyncRequest(t) PROVE Typed
  <2>1. [thread[t] EXCEPT !.at = "await", !.sync = syncs + 1] \in ThreadStates
    <3>1. thread[t] \in ThreadStates /\ "await" \in Steps /\ syncs + 1 \in Nat
      BY DEF Steps
    <3> QED
      BY <3>1, ThreadEdits
  <2> QED
    BY <1>3, <2>1 DEF SyncRequest, Sends
<1>4. ASSUME NEW t \in Threads, SyncRequestFails(t) \/ EvaluateLive(t) PROVE Typed
  <2>1. \A step \in Steps : [thread[t] EXCEPT !.at = step] \in ThreadStates
    BY ThreadEdits
  <2>2. PICK step \in Steps : thread' = [thread EXCEPT ![t].at = step]
    BY <1>4 DEF SyncRequestFails, EvaluateLive, Steps
  <2> QED
    BY <2>1, <2>2
<1>5. ASSUME NEW t \in Threads, SyncAnswer(t) PROVE Typed
  <2>1. Head(syncCh) \in Answers
    BY <1>5, HeadTailProperties DEF SyncAnswer
  <2> QED
    BY <1>5, <2>1, ThreadEdits DEF SyncAnswer, Steps
<1>6. CASE ForwardCall \/ DenyCall
  BY <1>0, <1>6, Sleeps DEF ForwardCall, DenyCall
<1>7. CASE ClientEnds
  BY <1>7, Sleeps DEF ClientEnds, EndClient
<1>8. ASSUME NEW l \in Changes, Notify(l) PROVE Typed
  BY <1>0, <1>8, Sleeps DEF Notify
<1>9. CASE PumpListChanged
  <2>1. Head(pipe).id \in Threads
    BY <1>0, <1>9 DEF PumpListChanged
  <2>2. [thread[Head(pipe).id] EXCEPT !.at = "lock"] \in ThreadStates
    BY <1>0, <2>1, ThreadEdits
  <2> QED
    BY <1>9, <2>1, <2>2 DEF PumpListChanged
<1> QED
  BY <1>1, <1>2, <1>3, <1>4, <1>5, <1>6, <1>7, <1>8, <1>9, RunThreadSteps

\* So do the pipes, the tables and pumpServer.
LEMMA RunTypes == ASSUME RunInv, [RunNext]_runVars PROVE RunTypeOK'
<1> USE DEF RunInv, RunTypeOK
<1> DEFINE Entries == [id : Lists, method : {"tools/list"}] \union [id : Nat, method : {"deadbugz-sync"}]
           Pumps == [at : {"read", "deliver", "evaluate", "forward", "deny", "ended"}, msg : Answers \union {Nothing}]
           Data == /\ asked \in SUBSET Ids
                   /\ pipe \in Seq(Lines) /\ syncCh \in Seq(Answers)
                   /\ pending \in SUBSET Entries
                   /\ syncs \in Nat /\ syncMu \in Threads \union {None}
                   /\ pump \in Pumps
                   /\ requested \in SUBSET (Lists \union Calls) /\ decided \in SUBSET Calls
<1> SUFFICES Data'
  BY ThreadTypes, LifeTypes, PinStays
<1>0. Client \in Threads /\ Reading \in Pumps /\ (EndPump => pump' \in Pumps)
  BY DEF Threads, Reading, EndPump
<1>1. CASE ServerExits \/ UNCHANGED vars
  BY <1>1 DEF ServerExits, vars, guard, host, pin
<1>2. ASSUME NEW c \in Calls, ReadCall(c, callGate) PROVE Data'
  BY <1>2 DEF ReadCall
<1>3. ASSUME NEW t \in Threads, SyncRequest(t) \/ SyncRequestFails(t) PROVE Data'
  <2>1. asked' \in SUBSET Ids /\ pending' \in SUBSET Entries
    BY <1>3 DEF SyncRequest, Sends, SyncRequestFails, Ids
  <2> QED
    BY <1>3, <2>1 DEF SyncRequest, Sends, SyncRequestFails, host, pin
<1>4. ASSUME NEW t \in Threads, SyncAnswer(t) \/ EvaluateLive(t) PROVE Data'
  <2>1. SyncAnswer(t) => Tail(syncCh) \in Seq(Answers)
    BY HeadTailProperties DEF SyncAnswer
  <2> QED
    BY <1>4, <2>1 DEF SyncAnswer, EvaluateLive, host, pin
<1>5. CASE ForwardCall \/ DenyCall
  <2>1. thread[Client].call \in Calls
    BY <1>0, <1>5 DEF ForwardCall, DenyCall, RunHands, ThreadStates
  <2> QED
    BY <1>5, <2>1 DEF ForwardCall, DenyCall, Ids, pin
<1>6. CASE ClientEnds \/ \E l \in Changes : Notify(l)
  BY <1>6 DEF ClientEnds, Notify, host, pin
<1>7. CASE PumpMessage
  <2>1. \A id : Untrack(id) \in SUBSET Entries
    BY DEF Untrack
  <2>2. CASE PumpListChanged
    BY <2>2, HeadOfPipe DEF PumpListChanged, host, pin
  <2>3. CASE PumpSync
    <3>1. Head(pipe).id \in Lists \union Nat
      BY <2>3 DEF PumpSync, Tracked
    <3>2. Head(pipe) \in Answers
      BY <1>7, <2>3, <3>1, HeadOfPipe DEF PumpSync, PumpMessage
    <3> QED
      BY <2>1, <2>3, <3>2, HeadOfPipe DEF PumpSync, host, pin
  <2>4. CASE PumpDeliver
    <3>1. pump.msg \in Answers
      BY <2>4 DEF PumpDeliver, RunHands
    <3> QED
      BY <1>0, <2>4, <3>1, AppendProperties DEF PumpDeliver, host, pin
  <2>5. CASE PumpRead
    <3>1. Head(pipe) \in Answers
      BY <1>7, <2>5, HeadOfPipe DEF PumpRead, PumpMessage
    <3> QED
      BY <2>1, <2>5, <3>1, HeadOfPipe DEF PumpRead, host, pin
  <2>6. CASE PumpEvaluate
    BY <2>6 DEF PumpEvaluate, host, pin
  <2>7. CASE PumpWrite
    BY <1>0, <2>7 DEF PumpWrite, host, pin
  <2> QED
    BY <1>7, <2>2, <2>3, <2>4, <2>5, <2>6, <2>7 DEF PumpMessage, PumpServer
<1>8. CASE PumpNoise \/ PumpEnds
  BY <1>0, <1>8, HeadOfPipe DEF PumpNoise, PumpEnds, host, pin
<1>9. ASSUME NEW line \in Lines, pipe' = Append(pipe, line), UNCHANGED <<guard, host>>,
             asked' \subseteq asked
      PROVE  Data'
  BY <1>9, AppendProperties DEF guard, host
<1>10. ASSUME NEW id \in asked, ServerAnswer(id) PROVE Data'
  <2>1. PICK content \in MayAnswer(id) : pipe' = Append(pipe, Answer(id, content))
    BY <1>10 DEF ServerAnswer
  <2>2. Answer(id, content) \in Lines
    BY DEF MayAnswer, Answer, Lines, Messages, Answers, Contents
  <2> QED
    BY <1>9, <1>10, <2>1, <2>2 DEF ServerAnswer
<1>11. ASSUME NEW l \in Changes, ServerNotify(l) PROVE Data'
  <2>1. Answer(l, None) \in Lines
    BY DEF Answer, Lines, Messages
  <2> QED
    BY <1>9, <1>11, <2>1 DEF ServerNotify
<1>12. CASE ServerPrints
  <2>1. Answer(None, Noise) \in Lines
    BY DEF Lines
  <2> QED
    BY <1>9, <1>12, <2>1 DEF ServerPrints, pin
<1> QED
  BY <1>1, <1>2, <1>3, <1>4, <1>5, <1>6, <1>7, <1>8, <1>10, <1>11, <1>12, RunSteps

\* syncMu has one holder, the thread that waits for an answer (wrap.go:280): a
\* failed write gives it back, and pumpClient never ends with it.
LEMMA RunHolder == ASSUME RunInv, [RunNext]_runVars PROVE HolderAwaits'
<1> USE DEF RunInv, RunTypeOK, HolderAwaits
<1>0. None \notin Threads /\ Client \in Threads /\ Changes \subseteq Threads /\ Sleeping.at = "idle"
  BY DEF Threads, Sleeping
<1>1. CASE UNCHANGED <<thread, syncMu, syncs>>
  BY <1>1
<1>2. ASSUME NEW c \in Calls, ReadCall(c, callGate) PROVE HolderAwaits'
  <2>1. thread'[Client].at # "await" /\ \A t \in Threads \ {Client} : thread'[t] = thread[t]
    BY <1>0, <1>2 DEF ReadCall, Sleeping
  <2> QED
    BY <1>0, <1>2, <2>1 DEF ReadCall
<1>3. ASSUME NEW t \in Threads, SyncRequest(t) PROVE HolderAwaits'
  BY <1>0, <1>3 DEF SyncRequest, Sends, ThreadStates
<1>4. ASSUME NEW t \in Threads, SyncRequestFails(t) PROVE HolderAwaits'
  BY <1>0, <1>4 DEF SyncRequestFails, ThreadStates
<1>5. ASSUME NEW t \in Threads, SyncAnswer(t) PROVE HolderAwaits'
  BY <1>0, <1>5 DEF SyncAnswer, ThreadStates
<1>6. ASSUME NEW t \in Threads, EvaluateLive(t) PROVE HolderAwaits'
  BY <1>0, <1>6 DEF EvaluateLive, ThreadStates
<1>7. CASE ForwardCall \/ DenyCall
  BY <1>0, <1>7 DEF ForwardCall, DenyCall
<1>8. CASE ClientEnds
  BY <1>0, <1>8 DEF ClientEnds, EndClient, Sleeping
<1>9. ASSUME NEW l \in Changes, Notify(l) PROVE HolderAwaits'
  BY <1>0, <1>9 DEF Notify, Sleeping
<1>10. CASE PumpListChanged
  <2>1. thread[Head(pipe).id].at = "idle" /\ Head(pipe).id \in Threads
    BY <1>0, <1>10 DEF PumpListChanged, NotifiedOnce
  <2> QED
    BY <1>0, <1>10, <2>1 DEF PumpListChanged, ThreadStates
<1> QED
  BY <1>1, <1>2, <1>3, <1>4, <1>5, <1>6, <1>7, <1>8, <1>9, <1>10, RunThreadSteps

\* A line that is no answer to the guard leaves the pipe, or enters it, without
\* a change of what is known about the answer.
LEMMA PipeMoves ==
  ASSUME pipe \in Seq(Lines), syncs \in Nat, syncs' = syncs,
         Tracked(syncs, "deadbugz-sync")' <=> Tracked(syncs, "deadbugz-sync"),
         \/ pipe # <<>> /\ Head(pipe).id \notin Nat /\ pipe' = Tail(pipe)
         \/ \E line \in Lines : line.id \notin Nat /\ pipe' = Append(pipe, line)
  PROVE  (NotInPipe => NotInPipe') /\ (InPipe => InPipe')
<1>1. CASE pipe # <<>> /\ Head(pipe).id \notin Nat /\ pipe' = Tail(pipe)
  <2>1. /\ Len(pipe') = Len(pipe) - 1
        /\ \A i \in 1 .. Len(pipe') : i + 1 \in 1 .. Len(pipe) /\ pipe'[i] = pipe[i + 1]
        /\ pipe[1].id \notin Nat
    BY <1>1
  <2>2. NotInPipe => NotInPipe'
    BY <2>1 DEF NotInPipe
  <2>3. ASSUME InPipe PROVE InPipe'
    <3>1. PICK k \in 1 .. Len(pipe) : /\ pipe[k].id = syncs
                                      /\ \A i \in 1 .. Len(pipe) : pipe[i].id \in Nat => i = k
      BY <2>3 DEF InPipe
    <3>2. k # 1
      BY <2>1, <3>1
    <3>4. k - 1 \in 1 .. Len(pipe') /\ (k - 1) + 1 = k
      BY <2>1, <3>1, <3>2
    <3>5. pipe'[k - 1].id = syncs
      BY <2>1, <3>1, <3>4
    <3>3. ASSUME NEW i \in 1 .. Len(pipe'), pipe'[i].id \in Nat PROVE i = k - 1
      <4>1. i + 1 \in 1 .. Len(pipe) /\ pipe[i + 1].id \in Nat
        BY <2>1, <3>3
      <4>2. i + 1 = k
        BY <3>1, <4>1
      <4> QED
        BY <3>1, <4>2
    <3> QED
      BY <2>3, <3>4, <3>5, <3>3 DEF InPipe
  <2> QED
    BY <2>2, <2>3
<1>2. CASE \E line \in Lines : line.id \notin Nat /\ pipe' = Append(pipe, line)
  <2>1. PICK line \in Lines : line.id \notin Nat /\ pipe' = Append(pipe, line)
    BY <1>2
  <2>2. /\ Len(pipe') = Len(pipe) + 1
        /\ \A i \in 1 .. Len(pipe) : pipe'[i] = pipe[i]
        /\ pipe'[Len(pipe) + 1] = line
    BY <2>1, AppendProperties
  <2>3. NotInPipe => NotInPipe'
    BY <2>1, <2>2 DEF NotInPipe
  <2>4. ASSUME InPipe PROVE InPipe'
    <3>1. PICK k \in 1 .. Len(pipe) : /\ pipe[k].id = syncs
                                      /\ \A i \in 1 .. Len(pipe) : pipe[i].id \in Nat => i = k
      BY <2>4 DEF InPipe
    <3>2. k \in 1 .. Len(pipe') /\ pipe'[k].id = syncs
      BY <2>2, <3>1
    <3>3. \A i \in 1 .. Len(pipe') : pipe'[i].id \in Nat => i = k
      BY <2>1, <2>2, <3>1
    <3> QED
      BY <2>4, <3>2, <3>3 DEF InPipe
  <2> QED
    BY <2>3, <2>4
<1> QED
  BY <1>1, <1>2

\* What the threads do to the places of the answer.
LEMMA PlaceOfThreads ==
  ASSUME RunInv, NEW t \in Threads, UNCHANGED server,
         \/ server = "up" /\ SyncRequest(t)
         \/ SyncRequestFails(t) \/ SyncAnswer(t)
         \/ ForwardCall
  PROVE  OnePlace'
<1> USE DEF RunInv, RunTypeOK
<1>0. /\ (syncs + 1) \in Nat /\ None \notin Threads /\ Client \in Threads
      /\ \A c \in Calls : c \notin Nat
  BY DEF Threads
<1>1. CASE SyncRequest(t)
  <2>1. NotAtServer /\ NotInPipe /\ NotWithPump /\ NotReady
    BY <1>1 DEF SyncRequest, OnePlace
  <2>2. AtServer'
    BY <1>0, <1>1, <2>1 DEF SyncRequest, Sends, AtServer, NotAtServer, Tracked
  <2>3. (NotInPipe /\ NotWithPump /\ NotReady)' /\ syncMu' # None
    BY <1>0, <1>1, <2>1 DEF SyncRequest, Sends, NotInPipe, NotWithPump, NotReady
  <2> QED
    BY <2>2, <2>3 DEF OnePlace
<1>2. CASE SyncRequestFails(t)
  BY <1>2 DEF SyncRequestFails, OnePlace, NotAtServer, NotInPipe, NotWithPump, NotReady
<1>3. CASE SyncAnswer(t)
  <2>1. syncMu # None
    BY <1>0, <1>3 DEF SyncAnswer, HolderAwaits
  <2>2. NotAtServer /\ NotInPipe /\ NotWithPump /\ Len(syncCh) = 1
    BY <1>3, <2>1 DEF SyncAnswer, OnePlace, NotReady, Ready
  <2>3. Tail(syncCh) = <<>>
    BY <1>3, <2>2, HeadTailProperties, EmptySeq DEF SyncAnswer
  <2> QED
    BY <1>3, <2>2, <2>3 DEF SyncAnswer, OnePlace, NotAtServer, NotInPipe, NotWithPump, NotReady
<1>4. CASE ForwardCall
  <2>1. thread[Client].call \notin Nat
    BY <1>0, <1>4 DEF ForwardCall, RunHands, ThreadStates
  <2>2. asked' \intersect Nat = asked \intersect Nat
    BY <1>4, <2>1 DEF ForwardCall
  <2> QED
    BY <1>4, <2>2 DEF ForwardCall, OnePlace, AtServer, InPipe, WithPump, Ready, NotAtServer, NotInPipe,
                      NotWithPump, NotReady, Tracked, PumpEnded
<1> QED
  BY <1>1, <1>2, <1>3, <1>4

\* What pumpServer does to them.
LEMMA PlaceOfPump ==
  ASSUME RunInv, UNCHANGED server, PumpMessage \/ PumpNoise \/ PumpEnds
  PROVE  OnePlace'
<1> USE DEF RunInv, RunTypeOK
<1>0. \A x \in Changes \union Calls \union Lists \union {None} : x \notin Nat
  OBVIOUS
<1>1. ASSUME pipe # <<>>, Head(pipe).id \notin Nat, pipe' = Tail(pipe),
             pump.at = "read", pump'.at # "deliver",
             Tracked(syncs, "deadbugz-sync")' <=> Tracked(syncs, "deadbugz-sync"),
             UNCHANGED <<asked, syncCh, syncMu, syncs>>
      PROVE  OnePlace'
  <2>1. (NotInPipe => NotInPipe') /\ (InPipe => InPipe')
    BY <1>1, PipeMoves
  <2>2. (AtServer => AtServer') /\ (NotAtServer => NotAtServer') /\ (NotReady => NotReady')
        /\ (Ready => Ready') /\ NotWithPump /\ ~WithPump /\ NotWithPump' /\ ~PumpEnded
    BY <1>1 DEF AtServer, NotAtServer, NotReady, Ready, NotWithPump, WithPump, PumpEnded
  <2> QED
    BY <1>1, <2>1, <2>2 DEF OnePlace
<1>2. CASE PumpMessage /\ PumpListChanged
  BY <1>0, <1>1, <1>2 DEF PumpListChanged, Tracked
<1>3. ASSUME pipe # <<>>, Head(pipe).id \in Nat, pump.at = "read"
      PROVE  /\ syncMu # None /\ Head(pipe).id = syncs /\ Tracked(syncs, "deadbugz-sync")
             /\ NotAtServer /\ NotReady
             /\ \A i \in 1 .. Len(pipe) : pipe[i].id \in Nat => i = 1
  <2>1. Head(pipe) = pipe[1] /\ 1 \in 1 .. Len(pipe)
    BY <1>3
  <2>2. ~NotInPipe
    BY <1>3, <2>1 DEF NotInPipe
  <2>3. InPipe /\ NotAtServer /\ NotReady /\ syncMu # None
    BY <2>2 DEF OnePlace
  <2>4. PICK k \in 1 .. Len(pipe) : /\ pipe[k].id = syncs
                                    /\ \A i \in 1 .. Len(pipe) : pipe[i].id \in Nat => i = k
    BY <2>3 DEF InPipe
  <2>5. k = 1
    BY <1>3, <2>1, <2>4
  <2> QED
    BY <2>1, <2>3, <2>4, <2>5 DEF InPipe
<1>4. CASE PumpMessage /\ PumpSync
  <2>1. pipe # <<>> /\ Head(pipe).id \in Nat /\ pump.at = "read"
    BY <1>0, <1>4 DEF PumpSync, Tracked
  <2>2. NotInPipe'
    <3>1. \A i \in 1 .. Len(pipe') : i + 1 \in 1 .. Len(pipe) /\ pipe'[i] = pipe[i + 1] /\ i + 1 # 1
      BY <1>4, <2>1 DEF PumpSync
    <3> QED
      BY <1>3, <2>1, <3>1 DEF NotInPipe
  <2>3. WithPump' /\ NotAtServer' /\ NotReady' /\ syncMu' # None
    BY <1>3, <1>4, <2>1 DEF PumpSync, WithPump, NotAtServer, NotReady
  <2> QED
    BY <2>2, <2>3 DEF OnePlace
<1>5. CASE PumpMessage /\ PumpDeliver
  <2>1. syncMu # None /\ WithPump /\ NotAtServer /\ NotInPipe /\ NotReady
    BY <1>5 DEF PumpDeliver, OnePlace, NotWithPump
  <2>2. pump.msg \in Answers
    BY <1>5 DEF PumpDeliver, RunHands
  <2>3. Len(syncCh') = 1 /\ Head(syncCh') = pump.msg
    BY <1>5, <2>1, <2>2 DEF PumpDeliver, NotReady
  <2>4. Ready' /\ NotAtServer' /\ NotInPipe' /\ NotWithPump' /\ syncMu' # None
    BY <1>5, <2>1, <2>3 DEF PumpDeliver, WithPump, Ready, NotAtServer, NotInPipe, NotWithPump, Reading
  <2> QED
    BY <2>4 DEF OnePlace
<1>6. CASE PumpMessage /\ PumpRead
  <2>1. pipe # <<>> /\ pump.at = "read" /\ ~Tracked(Head(pipe).id, "deadbugz-sync")
    BY <1>6 DEF PumpRead
  <2>2. Head(pipe).id \notin Nat
    BY <1>3, <2>1
  <2>3. Tracked(syncs, "deadbugz-sync")' <=> Tracked(syncs, "deadbugz-sync")
    BY <1>6, <2>2 DEF PumpRead, Untrack, Tracked
  <2> QED
    BY <1>1, <1>6, <2>1, <2>2, <2>3 DEF PumpRead
<1>7. CASE PumpMessage /\ (PumpEvaluate \/ PumpWrite)
  <2>1. /\ UNCHANGED <<asked, pipe, pending, syncs, syncMu, syncCh>>
        /\ pump.at \notin {"deliver", "ended"} /\ pump'.at # "deliver"
    BY <1>7 DEF PumpEvaluate, PumpWrite, Reading
  <2> QED
    BY <2>1 DEF OnePlace, AtServer, InPipe, WithPump, Ready, NotAtServer, NotInPipe,
                NotWithPump, NotReady, Tracked, PumpEnded
<1>8. CASE PumpNoise
  <2>1. Head(pipe).id = None
    BY <1>8, HeadOfPipe DEF PumpNoise, Answer
  <2> QED
    BY <1>0, <1>1, <1>8, <2>1 DEF PumpNoise, Tracked, EndPump
<1>9. CASE PumpEnds
  <2>1. /\ UNCHANGED <<asked, pipe, pending, syncs, syncMu, syncCh>>
        /\ pump.at # "ended" /\ NotWithPump' /\ PumpEnded'
    BY <1>9 DEF PumpEnds, EndPump, NotWithPump, PumpEnded
  <2> QED
    BY <2>1 DEF OnePlace, AtServer, InPipe, WithPump, Ready, NotAtServer, NotInPipe,
                NotWithPump, NotReady, Tracked, PumpEnded
<1> QED
  BY <1>2, <1>4, <1>5, <1>6, <1>7, <1>8, <1>9 DEF PumpMessage, PumpServer

\* What the server does to them.
LEMMA PlaceOfServer ==
  ASSUME RunInv,
         \/ ServerExits
         \/ /\ server' = server
            /\ \/ \E id \in asked : server = "up" /\ ServerAnswer(id)
               \/ \E l \in Changes : ServerNotify(l)
               \/ ServerPrints
  PROVE  OnePlace'
<1> USE DEF RunInv, RunTypeOK
<1>0. \A x \in Changes \union Calls \union Lists \union {None} : x \notin Nat
  OBVIOUS
<1>1. CASE ServerExits
  <2>1. UNCHANGED <<pipe, pending, pump, syncCh, syncMu, syncs>> /\ NotAtServer' /\ server' = "exited"
    BY <1>1 DEF ServerExits, guard, NotAtServer
  <2> QED
    BY <2>1 DEF OnePlace, InPipe, WithPump, Ready, NotInPipe, NotWithPump, NotReady, Tracked
<1>2. ASSUME NEW line \in Lines, line.id \notin Nat, pipe' = Append(pipe, line), server' = server,
             UNCHANGED guard, asked' \intersect Nat = asked \intersect Nat
      PROVE  OnePlace'
  <2>1. UNCHANGED <<pending, pump, syncCh, syncMu, syncs>>
    BY <1>2 DEF guard
  <2>2. (NotInPipe => NotInPipe') /\ (InPipe => InPipe')
    BY <1>2, <2>1, PipeMoves DEF Tracked
  <2> QED
    BY <1>2, <2>1, <2>2 DEF OnePlace, AtServer, WithPump, Ready, NotAtServer, NotWithPump, NotReady,
                            Tracked, PumpEnded
<1>3. ASSUME NEW id \in asked, ServerAnswer(id), server' = server PROVE OnePlace'
  <2>1. PICK content \in MayAnswer(id) : pipe' = Append(pipe, Answer(id, content))
    BY <1>3 DEF ServerAnswer
  <2>2. Answer(id, content) \in Lines /\ Answer(id, content).id = id
    BY DEF MayAnswer, Answer, Lines, Messages, Answers, Contents
  <2>3. CASE id \notin Nat
    <3>1. asked' \intersect Nat = asked \intersect Nat
      BY <1>3, <2>3 DEF ServerAnswer
    <3> QED
      BY <1>2, <1>3, <2>1, <2>2, <2>3, <3>1 DEF ServerAnswer
  <2>4. CASE id \in Nat
    <3>1. AtServer /\ NotInPipe /\ NotWithPump /\ NotReady /\ syncMu # None
      BY <2>4 DEF OnePlace, NotAtServer
    <3>2. id = syncs /\ NotAtServer'
      <4>1. asked' = asked \ {id}
        BY <1>3 DEF ServerAnswer
      <4>2. asked \intersect Nat = {syncs}
        BY <3>1 DEF AtServer
      <4> QED
        BY <2>4, <4>1, <4>2 DEF NotAtServer
    <3>3. UNCHANGED <<pending, pump, syncCh, syncMu, syncs>>
      BY <1>3 DEF ServerAnswer, guard
    <3>4. /\ Len(pipe') = Len(pipe) + 1
          /\ \A i \in 1 .. Len(pipe) : pipe'[i] = pipe[i]
          /\ pipe'[Len(pipe) + 1].id = id
      BY <2>1, <2>2, AppendProperties
    <3>5. \A i \in 1 .. Len(pipe') : pipe'[i].id \in Nat => i = Len(pipe) + 1
      BY <3>1, <3>4 DEF NotInPipe
    <3>6. InPipe'
      BY <3>1, <3>2, <3>3, <3>4, <3>5 DEF InPipe, AtServer, Tracked
    <3> QED
      BY <3>1, <3>2, <3>3, <3>6 DEF OnePlace, NotWithPump, NotReady
  <2> QED
    BY <2>3, <2>4
<1>4. ASSUME NEW l \in Changes, ServerNotify(l), server' = server PROVE OnePlace'
  <2>1. Answer(l, None) \in Lines /\ Answer(l, None).id = l
    BY DEF Answer, Lines, Messages
  <2> QED
    BY <1>0, <1>2, <1>4, <2>1 DEF ServerNotify
<1>5. CASE ServerPrints /\ server' = server
  <2>1. Answer(None, Noise) \in Lines /\ Answer(None, Noise).id = None
    BY DEF Answer, Lines
  <2> QED
    BY <1>0, <1>2, <1>5, <2>1 DEF ServerPrints
<1> QED
  BY <1>1, <1>3, <1>4, <1>5

\* The answer to the guard's latest request is in one place, or was lost with
\* the server or with pumpServer (wrap.go:295).
LEMMA RunPlace == ASSUME RunInv, [RunNext]_runVars PROVE OnePlace'
<1>1. ASSUME server' = server, UNCHANGED <<asked, pipe, pending, pump, syncCh, syncMu, syncs>>
      PROVE  OnePlace'
  BY <1>1 DEF RunInv, OnePlace, AtServer, InPipe, WithPump, Ready, NotAtServer, NotInPipe,
              NotWithPump, NotReady, Tracked, PumpEnded
<1>2. Client \in Threads
  BY DEF Threads
<1>3. CASE server' = server /\
           (\/ UNCHANGED vars \/ DenyCall \/ ClientEnds
            \/ \E c \in Calls : ReadCall(c, callGate)
            \/ \E t \in Threads : EvaluateLive(t)
            \/ \E l \in Changes : Notify(l))
  BY <1>1, <1>3 DEF vars, guard, DenyCall, ClientEnds, ReadCall, EvaluateLive, Notify
<1> QED
  BY <1>2, <1>3, PlaceOfThreads, PlaceOfPump, PlaceOfServer, RunSteps

\* pumpServer starts one goroutine for each notification it reads, noise and
\* the end of pumpClient or not.
LEMMA RunNotified == ASSUME RunInv, [RunNext]_runVars PROVE NotifiedOnce'
<1> USE DEF RunInv, RunTypeOK, NotifiedOnce
<1>0. Client \notin Changes /\ Changes \subseteq Threads
  BY DEF Threads
<1>1. ASSUME UNCHANGED pipe,
             \A l \in Changes : thread[l].at = "idle" => thread'[l].at = "idle"
      PROVE  NotifiedOnce'
  BY <1>1
<1>2. CASE UNCHANGED vars \/ ServerExits \/ PumpEnds
  BY <1>2 DEF vars, guard, ServerExits, PumpEnds
<1>3. ASSUME NEW c \in Calls, ReadCall(c, callGate) PROVE NotifiedOnce'
  <2>1. UNCHANGED pipe /\ \A l \in Changes : thread'[l] = thread[l]
    BY <1>0, <1>3 DEF ReadCall
  <2> QED
    BY <1>1, <2>1
<1>4. ASSUME NEW t \in Threads, SyncRequest(t) \/ SyncRequestFails(t) \/ SyncAnswer(t) \/ EvaluateLive(t)
      PROVE  NotifiedOnce'
  <2>1. /\ thread[t].at # "idle" /\ UNCHANGED pipe
        /\ \A u \in Threads \ {t} : thread'[u] = thread[u]
    BY <1>4 DEF SyncRequest, Sends, SyncRequestFails, SyncAnswer, EvaluateLive
  <2> QED
    BY <1>0, <1>1, <2>1
<1>5. CASE ForwardCall \/ DenyCall \/ ClientEnds
  BY <1>0, <1>1, <1>5 DEF ForwardCall, DenyCall, ClientEnds, EndClient
<1>6. ASSUME NEW l \in Changes, Notify(l) PROVE NotifiedOnce'
  BY <1>0, <1>1, <1>6 DEF Notify
<1>7. ASSUME pipe # <<>>, pipe' = Tail(pipe),
             \A l \in Changes \ {Head(pipe).id} : thread'[l] = thread[l]
      PROVE  NotifiedOnce'
  <2>1. /\ Len(pipe') = Len(pipe) - 1
        /\ \A i \in 1 .. Len(pipe') : i + 1 \in 1 .. Len(pipe) /\ pipe'[i] = pipe[i + 1]
        /\ 1 \in 1 .. Len(pipe) /\ Head(pipe) = pipe[1]
    BY <1>7
  <2>2. ASSUME NEW i \in 1 .. Len(pipe'), pipe'[i].id \in Changes
        PROVE  /\ thread'[pipe'[i].id].at = "idle"
               /\ \A j \in 1 .. Len(pipe') : pipe'[j].id = pipe'[i].id => j = i
    <3>1. pipe[i + 1].id # pipe[1].id
      BY <2>1, <2>2
    <3> QED
      BY <1>7, <2>1, <2>2, <3>1
  <2> QED
    BY <2>2
<1>8. CASE PumpMessage
  <2>1. CASE PumpListChanged
    BY <1>0, <1>7, <2>1 DEF PumpListChanged
  <2>2. CASE PumpSync \/ PumpRead
    BY <1>7, <2>2 DEF PumpSync, PumpRead
  <2>3. CASE PumpDeliver \/ PumpEvaluate \/ PumpWrite
    BY <1>1, <2>3 DEF PumpDeliver, PumpEvaluate, PumpWrite
  <2> QED
    BY <1>8, <2>1, <2>2, <2>3 DEF PumpMessage, PumpServer
<1>9. CASE PumpNoise
  BY <1>7, <1>9 DEF PumpNoise
<1>10. ASSUME NEW line \in Lines, pipe' = Append(pipe, line), UNCHANGED thread,
              line.id \in Changes => /\ thread[line.id].at = "idle"
                                     /\ \A i \in 1 .. Len(pipe) : pipe[i].id # line.id
       PROVE  NotifiedOnce'
  <2>1. /\ Len(pipe') = Len(pipe) + 1
        /\ \A i \in 1 .. Len(pipe) : pipe'[i] = pipe[i]
        /\ pipe'[Len(pipe) + 1] = line
    BY <1>10, AppendProperties
  <2> QED
    BY <1>10, <2>1
<1>11. ASSUME NEW id \in asked, ServerAnswer(id) PROVE NotifiedOnce'
  <2>1. PICK content \in MayAnswer(id) : pipe' = Append(pipe, Answer(id, content))
    BY <1>11 DEF ServerAnswer
  <2>2. Answer(id, content) \in Lines /\ Answer(id, content).id \notin Changes
    BY DEF MayAnswer, Answer, Lines, Messages, Answers, Contents, Ids
  <2> QED
    BY <1>10, <1>11, <2>1, <2>2 DEF ServerAnswer, guard
<1>12. ASSUME NEW l \in Changes, ServerNotify(l) PROVE NotifiedOnce'
  <2>1. Answer(l, None) \in Lines /\ Answer(l, None).id = l
    BY DEF Answer, Lines, Messages
  <2> QED
    BY <1>10, <1>12, <2>1 DEF ServerNotify, guard
<1>13. CASE ServerPrints
  <2>1. Answer(None, Noise) \in Lines /\ Answer(None, Noise).id \notin Changes
    BY DEF Answer, Lines
  <2> QED
    BY <1>10, <1>13, <2>1 DEF ServerPrints, guard
<1> QED
  BY <1>2, <1>3, <1>4, <1>5, <1>6, <1>8, <1>9, <1>11, <1>12, <1>13, RunSteps

\* A thread has an answer from its arrival to its use, pumpClient a call until
\* it is decided, pumpServer a message until it ends or reads on.
LEMMA RunInHand == ASSUME RunInv, [RunNext]_runVars PROVE RunHands'
<1> USE DEF RunInv, RunTypeOK, RunHands
<1>0. /\ Client \in Threads /\ Client \notin Changes /\ Changes \subseteq Threads
      /\ Nothing \notin Answers
      /\ Sleeping.at = "idle" /\ Sleeping.got = Nothing /\ Sleeping.call = None
      /\ \A c \in Calls : c # None
  BY DEF Threads, Sleeping, Nothing, Answer, Answers, Contents, Ids
<1> DEFINE ThreadHands == /\ \A t \in Threads :
                               /\ thread[t].at \in {"idle", "lock", "await"} => thread[t].got = Nothing
                               /\ thread[t].at = "evaluate" => thread[t].got # Nothing
                          /\ thread[Client].at \in {"idle", "done"} <=> thread[Client].call = None
           PumpHand == pump.at \notin {"read", "ended"} => pump.msg # Nothing
<1>1. ThreadHands'
  <2> SUFFICES ThreadHands'
    OBVIOUS
  <2>1. CASE UNCHANGED <<thread, syncMu, syncs>>
    BY <2>1
  <2>2. ASSUME NEW c \in Calls, ReadCall(c, callGate) PROVE ThreadHands'
    <3>1. /\ thread'[Client].at \in {"lock", "forward"} /\ thread'[Client].got = Nothing
          /\ thread'[Client].call = c
          /\ \A t \in Threads \ {Client} : thread'[t] = thread[t]
      BY <1>0, <2>2 DEF ReadCall, Sleeping
    <3> QED
      BY <1>0, <3>1
  <2>3. ASSUME NEW t \in Threads, SyncRequest(t) \/ SyncRequestFails(t) PROVE ThreadHands'
    BY <1>0, <2>3 DEF SyncRequest, Sends, SyncRequestFails, ThreadStates
  <2>4. ASSUME NEW t \in Threads, SyncAnswer(t) PROVE ThreadHands'
    <3>1. Head(syncCh) # Nothing
      BY <1>0, <2>4, HeadTailProperties DEF SyncAnswer
    <3> QED
      BY <1>0, <2>4, <3>1 DEF SyncAnswer, ThreadStates
  <2>5. ASSUME NEW t \in Threads, EvaluateLive(t) PROVE ThreadHands'
    BY <1>0, <2>5 DEF EvaluateLive, ThreadStates
  <2>6. CASE ForwardCall \/ DenyCall
    BY <1>0, <2>6 DEF ForwardCall, DenyCall
  <2>7. CASE ClientEnds
    BY <1>0, <2>7 DEF ClientEnds, EndClient, Sleeping
  <2>8. ASSUME NEW l \in Changes, Notify(l) PROVE ThreadHands'
    BY <1>0, <2>8 DEF Notify, Sleeping
  <2>9. CASE PumpListChanged
    <3>1. /\ Head(pipe).id \in Changes
          /\ thread[Head(pipe).id].at = "idle"
      BY <2>9 DEF PumpListChanged, NotifiedOnce
    <3> QED
      BY <1>0, <2>9, <3>1 DEF PumpListChanged, ThreadStates
  <2> QED
    BY <2>1, <2>2, <2>3, <2>4, <2>5, <2>6, <2>7, <2>8, <2>9, RunThreadSteps
<1>2. PumpHand'
  <2>1. CASE UNCHANGED pump
    BY <2>1
  <2>2. CASE PumpMessage /\ (PumpSync \/ PumpRead)
    <3>1. Head(pipe).id \notin Changes /\ Head(pipe) \in Messages
      BY <2>2, HeadOfPipe DEF PumpMessage, PumpSync, PumpRead, Tracked
    <3>2. Head(pipe) # Nothing
      BY <1>0, <2>2, <3>1, HeadOfPipe DEF PumpMessage, PumpSync, PumpRead
    <3> QED
      BY <2>2, <3>2 DEF PumpSync, PumpRead
  <2>3. CASE PumpDeliver \/ PumpWrite
    BY <2>3 DEF PumpDeliver, PumpWrite, Reading
  <2>4. CASE PumpEvaluate
    BY <2>4 DEF PumpEvaluate
  <2>5. CASE PumpNoise \/ PumpEnds
    BY <2>5 DEF PumpNoise, PumpEnds, EndPump
  <2> QED
    BY <2>1, <2>2, <2>3, <2>4, <2>5, RunSteps
       DEF PumpMessage, PumpServer, vars, guard, ServerExits, ReadCall, SyncRequest, Sends,
           SyncRequestFails, SyncAnswer, EvaluateLive, ForwardCall, DenyCall, ClientEnds, Notify,
           PumpListChanged, ServerAnswer, ServerNotify, ServerPrints
<1> QED
  BY <1>1, <1>2

\* A thread acts on the answer to its own request, whatever else fails.
LEMMA RunOwnAnswer == ASSUME RunInv, [RunNext]_runVars PROVE OwnAnswer'
<1> USE DEF RunInv, RunTypeOK, OwnAnswer
<1>0. /\ Client \in Threads /\ Changes \subseteq Threads /\ None \notin Threads
      /\ Sleeping.got = Nothing
  BY DEF Threads, Sleeping
<1>1. CASE UNCHANGED <<thread, syncMu, syncs>>
  BY <1>1
<1>2. ASSUME NEW c \in Calls, ReadCall(c, callGate) PROVE OwnAnswer'
  <2>1. thread'[Client].got = Nothing /\ \A t \in Threads \ {Client} : thread'[t] = thread[t]
    BY <1>0, <1>2 DEF ReadCall, Sleeping
  <2> QED
    BY <2>1
<1>3. ASSUME NEW t \in Threads, SyncRequest(t) \/ SyncRequestFails(t) PROVE OwnAnswer'
  <2>1. thread[t].got = Nothing
    BY <1>3 DEF SyncRequest, SyncRequestFails, RunHands
  <2>2. thread'[t].got = Nothing
    BY <1>3, <2>1 DEF SyncRequest, Sends, SyncRequestFails, ThreadStates
  <2>3. \A u \in Threads \ {t} : thread'[u] = thread[u]
    BY <1>3 DEF SyncRequest, Sends, SyncRequestFails
  <2> QED
    BY <2>2, <2>3
<1>4. ASSUME NEW t \in Threads, SyncAnswer(t) PROVE OwnAnswer'
  <2>1. syncMu = t /\ thread[t].sync = syncs
    BY <1>0, <1>4 DEF SyncAnswer, HolderAwaits
  <2>2. Head(syncCh).id = syncs
    BY <1>0, <1>4, <2>1 DEF SyncAnswer, OnePlace, NotReady, Ready
  <2> QED
    BY <1>4, <2>1, <2>2 DEF SyncAnswer, ThreadStates
<1>5. ASSUME NEW t \in Threads, EvaluateLive(t) PROVE OwnAnswer'
  BY <1>5 DEF EvaluateLive, ThreadStates
<1>6. CASE ForwardCall \/ DenyCall
  BY <1>0, <1>6 DEF ForwardCall, DenyCall
<1>7. CASE ClientEnds
  BY <1>0, <1>7 DEF ClientEnds, EndClient, Sleeping
<1>8. ASSUME NEW l \in Changes, Notify(l) PROVE OwnAnswer'
  BY <1>0, <1>8 DEF Notify, Sleeping
<1>9. CASE PumpListChanged
  BY <1>0, <1>9 DEF PumpListChanged, ThreadStates
<1> QED
  BY <1>1, <1>2, <1>3, <1>4, <1>5, <1>6, <1>7, <1>8, <1>9, RunThreadSteps

\* From CALL_GATE=3 on a call goes on only when it was compared with a pin that
\* holds a granted catalog.
LEMMA RunGate == ASSUME RunInv, [RunNext]_runVars PROVE GateHolds'
<1> USE DEF RunInv, RunTypeOK, GateHolds
<1>0. /\ Client \in Threads /\ Client \notin Changes
      /\ UNCHANGED <<trusted, granted, callGate>>
  BY PinStays, RunSteps DEF Threads
<1>1. CASE UNCHANGED <<thread, syncMu, syncs>>
  BY <1>0, <1>1
<1>2. ASSUME NEW c \in Calls, ReadCall(c, callGate) PROVE GateHolds'
  <2>1. thread'[Client].at = callGate
    BY <1>0, <1>2 DEF ReadCall, Sleeping
  <2> QED
    BY <1>0, <2>1
<1>3. ASSUME NEW t \in Threads, SyncRequest(t) \/ SyncRequestFails(t) \/ SyncAnswer(t) PROVE GateHolds'
  BY <1>0, <1>3 DEF SyncRequest, Sends, SyncRequestFails, SyncAnswer, ThreadStates
<1>4. ASSUME NEW t \in Threads, EvaluateLive(t) PROVE GateHolds'
  <2>1. CASE t = Client
    <3>1. thread[Client].got \in Answers
      BY <1>0, <1>4, <2>1 DEF EvaluateLive, RunHands, ThreadStates
    <3>2. thread[Client].got.content # None
      BY <3>1 DEF Answers, Contents
    <3>3. thread'[Client].got = thread[Client].got
      BY <1>0, <1>4, <2>1 DEF EvaluateLive, ThreadStates
    <3>4. thread'[Client].at = "forward" => thread[Client].got.content = trusted
      BY <1>0, <1>4, <2>1 DEF EvaluateLive, Allowed, ThreadStates
    <3> QED
      BY <1>0, <3>2, <3>3, <3>4 DEF PinIsGranted
  <2>2. CASE t # Client
    BY <1>0, <1>4, <2>2 DEF EvaluateLive
  <2> QED
    BY <2>1, <2>2
<1>5. CASE ForwardCall \/ DenyCall \/ ClientEnds
  BY <1>0, <1>5 DEF ForwardCall, DenyCall, ClientEnds, EndClient, Sleeping
<1>6. ASSUME NEW l \in Changes, Notify(l) PROVE GateHolds'
  BY <1>0, <1>6 DEF Notify
<1>7. CASE PumpListChanged
  BY <1>0, <1>7 DEF PumpListChanged
<1> QED
  BY <1>1, <1>2, <1>3, <1>4, <1>5, <1>6, <1>7, RunThreadSteps

\* While the server runs, a call leaves pumpClient's hand only when it is
\* decided.
LEMMA RunCalls == ASSUME RunInv, [RunNext]_runVars PROVE NoCallLost'
<1> USE DEF RunInv, RunTypeOK, NoCallLost
<1>0. /\ Client \in Threads /\ Client \notin Changes /\ Changes \subseteq Threads
      /\ \A c \in Calls : c # None
  BY DEF Threads
<1>1. ASSUME server' = server, UNCHANGED host, thread'[Client].call = thread[Client].call
      PROVE  NoCallLost'
  BY <1>1 DEF host
<1>2. CASE ServerExits
  BY <1>2 DEF ServerExits
<1>3. ASSUME server' = server, NEW c \in Calls, ReadCall(c, callGate) PROVE NoCallLost'
  <2>1. thread'[Client].call = c
    BY <1>0, <1>3 DEF ReadCall, Sleeping
  <2>2. thread[Client].call = None
    BY <1>3 DEF ReadCall, RunHands
  <2> QED
    BY <1>0, <1>3, <2>1, <2>2 DEF ReadCall
<1>4. ASSUME server' = server, NEW t \in Threads,
             SyncRequest(t) \/ SyncRequestFails(t) \/ SyncAnswer(t) \/ EvaluateLive(t)
      PROVE  NoCallLost'
  <2>1. UNCHANGED host /\ thread'[Client].call = thread[Client].call
    BY <1>0, <1>4 DEF SyncRequest, Sends, SyncRequestFails, SyncAnswer, EvaluateLive, ThreadStates, host
  <2> QED
    BY <1>1, <1>4, <2>1
<1>5. CASE server' = server /\ (ForwardCall \/ DenyCall)
  BY <1>0, <1>5 DEF ForwardCall, DenyCall
<1>6. CASE server' = server /\ ClientEnds
  <2>1. thread'[Client].call = None /\ UNCHANGED host
    BY <1>0, <1>6 DEF ClientEnds, EndClient, Sleeping
  <2>2. server = "up" => thread[Client].call = None
    BY <1>6 DEF ClientEnds, RunHands
  <2> QED
    BY <1>0, <1>6, <2>1, <2>2 DEF host
<1>7. ASSUME server' = server, NEW l \in Changes, Notify(l) PROVE NoCallLost'
  BY <1>0, <1>1, <1>7 DEF Notify
<1>8. CASE server' = server /\ PumpListChanged
  <2>1. UNCHANGED host /\ thread'[Client].call = thread[Client].call
    BY <1>0, <1>8 DEF PumpListChanged
  <2> QED
    BY <1>1, <1>8, <2>1
<1>9. CASE server' = server /\ UNCHANGED <<host, thread>>
  BY <1>1, <1>9
<1> QED
  BY <1>2, <1>3, <1>4, <1>5, <1>6, <1>7, <1>8, <1>9, RunSteps
     DEF vars, guard, PumpMessage, PumpServer, PumpSync, PumpDeliver, PumpRead, PumpEvaluate, PumpWrite,
         PumpNoise, PumpEnds, ServerAnswer, ServerNotify, ServerPrints

(***************************************************************************)
(* The theorems.                                                           *)
(***************************************************************************)

\* The inductive invariant of a wrap from its start to its end.
THEOREM RunInvariant == RunSpec => []RunInv
<1>1. RunInit => RunInv
  <2> SUFFICES ASSUME RunInit PROVE RunInv
    OBVIOUS
  <2> USE DEF RunInit, Init
  <2>1. RunTypeOK
    <3>1. thread \in [Threads -> ThreadStates]
      BY Sleeps
    <3>2. pipe \in Seq(Lines) /\ syncCh \in Seq(Answers)
      OBVIOUS
    <3> QED
      BY <3>1, <3>2 DEF RunTypeOK, Reading
  <2>2. HolderAwaits /\ OnePlace
    BY DEF HolderAwaits, OnePlace, NotAtServer, NotInPipe, NotWithPump, NotReady, Threads, Sleeping, Reading
  <2>3. NotifiedOnce /\ RunHands /\ PinIsGranted
    BY DEF NotifiedOnce, RunHands, PinIsGranted, Threads, Sleeping, Reading
  <2>4. OwnAnswer /\ NoCallLost /\ GateHolds
    BY DEF OwnAnswer, NoCallLost, GateHolds, Threads, Sleeping
  <2> QED
    BY <2>1, <2>2, <2>3, <2>4 DEF RunInv
<1>2. RunInv /\ [RunNext]_runVars => RunInv'
  <2> SUFFICES ASSUME RunInv, [RunNext]_runVars PROVE RunInv'
    OBVIOUS
  <2>1. PinIsGranted'
    BY PinStays DEF RunInv, PinIsGranted
  <2> QED
    BY <2>1, RunTypes, RunHolder, RunPlace, RunNotified, RunInHand, RunOwnAnswer, RunCalls, RunGate DEF RunInv
<1> QED
  BY <1>1, <1>2, PTL DEF RunSpec

\* Type correctness of the life of a wrap.
THEOREM RunTypeCorrect == RunSpec => []RunTypeOK
<1>1. RunInv => RunTypeOK
  BY DEF RunInv
<1> QED
  BY <1>1, RunInvariant, PTL

\* Failed writes, noise and the end of a pump never hand a thread the answer to
\* a request of another (wrap.go:295).
THEOREM RunAnswersAreOwn == RunSpec => []OwnAnswer
<1>1. RunInv => OwnAnswer
  BY DEF RunInv
<1> QED
  BY <1>1, RunInvariant, PTL

\* As long as the server runs and pumpServer reads, the thread in syncMu has an
\* answer to wait for (wrap.go:295).
THEOREM NoAnswerLost == RunSpec => []AnswerComes
<1>1. RunInv => AnswerComes
  <2>1. ASSUME RunInv, syncMu # None, server = "up", ~PumpEnded
        PROVE  (AtServer \/ InPipe) \/ WithPump \/ Ready
    BY <2>1 DEF RunInv, OnePlace
  <2>2. Ready => syncCh # <<>>
    BY DEF Ready
  <2> QED
    BY <2>1, <2>2 DEF AnswerComes, AtServer, InPipe, WithPump, Ready
<1> QED
  BY <1>1, RunInvariant, PTL

\* While the server runs, every tools/call that was read is decided or in
\* pumpClient's hand (wrap.go:152).
THEOREM CallsAreKept == RunSpec => []NoCallLost
<1>1. RunInv => NoCallLost
  BY DEF RunInv
<1> QED
  BY <1>1, RunInvariant, PTL

\* From CALL_GATE=3 on, an error on the way never opens the gate (wrap.go:180).
THEOREM RunFailsClosed == RunSpec => []GateHolds
<1>1. RunInv => GateHolds
  BY DEF RunInv
<1> QED
  BY <1>1, RunInvariant, PTL
=============================================================================
