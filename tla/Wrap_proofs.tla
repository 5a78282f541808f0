---------------------------- MODULE Wrap_proofs ----------------------------
(***************************************************************************)
(* Proofs about Wrap for any number of catalogs, requests of the host and  *)
(* list_changed notifications, and any capacity of syncCh and of the       *)
(* server's pipe.                                                          *)
(***************************************************************************)
EXTENDS Wrap, SequenceTheorems, TLAPS

USE CapAssumption, ContentAssumption, IdAssumption

\* What the steps of a thread change in its state keeps it one.
LEMMA ThreadEdits ==
  ASSUME NEW s \in ThreadStates, NEW step \in Steps
  PROVE  /\ [s EXCEPT !.at = step] \in ThreadStates
         /\ \A n \in Nat : [s EXCEPT !.at = step, !.sync = n] \in ThreadStates
         /\ \A a \in Answers : [s EXCEPT !.got = a, !.at = step] \in ThreadStates
BY DEF ThreadStates

\* One step of a pump, of a refresh, of the server or of the operator keeps
\* the types.
LEMMA TypeStep == ASSUME Inv, [Next]_vars PROVE TypeOK'
<1> USE DEF Inv, TypeOK
<1> DEFINE Entries == [id : Lists, method : {"tools/list"}] \union [id : Nat, method : {"deadbugz-sync"}]
<1>0. Sleeping \in ThreadStates /\ Nothing.id = None
  BY DEF ThreadStates, Sleeping, Steps, Nothing, Answer
<1>1. ASSUME NEW r \in Lists, ForwardList(r) PROVE TypeOK'
  BY <1>1 DEF ForwardList, pin, Ids
<1>2. ASSUME NEW c \in Calls, ReadCall(c, "lock") PROVE TypeOK'
  <2>1. [Sleeping EXCEPT !.at = "lock", !.call = c] \in ThreadStates
    BY DEF ThreadStates, Sleeping, Steps
  <2>2. thread' \in [Threads -> ThreadStates]
    BY <1>2, <2>1 DEF ReadCall, Threads
  <2> QED
    BY <1>2, <2>2 DEF ReadCall, pin
<1>3. ASSUME NEW t \in Threads, SyncRequest(t) PROVE TypeOK'
  <2>1. thread' \in [Threads -> ThreadStates]
    <3>1. thread[t] \in ThreadStates /\ "await" \in Steps /\ syncs + 1 \in Nat
      BY DEF Steps
    <3>2. [thread[t] EXCEPT !.at = "await", !.sync = syncs + 1] \in ThreadStates
      BY <3>1, ThreadEdits
    <3> QED
      BY <1>3, <3>2 DEF SyncRequest, Sends
  <2> QED
    BY <1>3, <2>1 DEF SyncRequest, Sends, pin, host, Ids
<1>4. ASSUME NEW t \in Threads, SyncAnswer(t) PROVE TypeOK'
  <2>1. Head(syncCh) \in Answers /\ Tail(syncCh) \in Seq(Answers)
    BY <1>4, HeadTailProperties DEF SyncAnswer
  <2>2. thread' \in [Threads -> ThreadStates]
    BY <1>4, <2>1, ThreadEdits DEF SyncAnswer, Steps
  <2> QED
    BY <1>4, <2>1, <2>2 DEF SyncAnswer, pin, host
<1>5. ASSUME NEW t \in Threads, EvaluateLive(t) PROVE TypeOK'
  <2>1. thread' \in [Threads -> ThreadStates]
    <3>1. \A step \in Steps : [thread[t] EXCEPT !.at = step] \in ThreadStates
      BY ThreadEdits
    <3>2. PICK step \in Steps : thread' = [thread EXCEPT ![t].at = step]
      BY <1>5 DEF EvaluateLive, Steps
    <3> QED
      BY <3>1, <3>2
  <2> QED
    BY <1>5, <2>1 DEF EvaluateLive, pin, host
<1>6. CASE ForwardCall \/ DenyCall
  <2>1. thread[Client].call \in Calls
    BY <1>6 DEF ForwardCall, DenyCall, HandsMatchStep
  <2>2. thread' \in [Threads -> ThreadStates]
    BY <1>0, <1>6 DEF ForwardCall, DenyCall, Threads
  <2> QED
    BY <1>6, <2>1, <2>2 DEF ForwardCall, DenyCall, pin, Ids
<1>7. ASSUME NEW l \in Changes, Notify(l) PROVE TypeOK'
  <2>1. [Sleeping EXCEPT !.at = "done"] \in ThreadStates
    BY DEF ThreadStates, Sleeping, Steps
  <2>2. thread' \in [Threads -> ThreadStates]
    BY <1>7, <2>1 DEF Notify, Threads
  <2> QED
    BY <1>7, <2>2 DEF Notify, pin, host
<1>8. CASE PumpServer
  <2>0. pipe # <<>> => Head(pipe) \in Messages /\ Tail(pipe) \in Seq(Messages)
    BY HeadTailProperties
  <2>1. \A id : Untrack(id) \in SUBSET Entries
    BY DEF Untrack
  <2>2. CASE PumpListChanged
    <3>1. thread' \in [Threads -> ThreadStates]
      <4>1. Head(pipe).id \in Threads
        BY <2>2 DEF PumpListChanged, Threads
      <4>2. [thread[Head(pipe).id] EXCEPT !.at = "lock"] \in ThreadStates
        BY <4>1, ThreadEdits DEF Steps
      <4> QED
        BY <2>2, <4>1, <4>2 DEF PumpListChanged
    <3> QED
      BY <2>0, <2>2, <3>1 DEF PumpListChanged, pin, host
  <2>3. CASE PumpSync
    <3>1. Head(pipe).id \in Lists \union Nat
      BY <2>3 DEF PumpSync, Tracked
    <3>2. Head(pipe) \in Answers
      BY <2>0, <2>3, <3>1 DEF PumpSync, Messages
    <3> QED
      BY <2>0, <2>1, <2>3, <3>2 DEF PumpSync, pin, host
  <2>4. CASE PumpDeliver
    <3>1. pump.msg \in Answers
      BY <2>4 DEF PumpDeliver, HandsMatchStep
    <3> QED
      BY <2>4, <3>1, AppendProperties DEF PumpDeliver, Reading, pin, host
  <2>5. CASE PumpRead
    <3>1. Head(pipe) \in Answers
      BY <2>0, <2>5 DEF PumpRead, Messages
    <3> QED
      BY <2>0, <2>1, <2>5, <3>1 DEF PumpRead, pin, host
  <2>6. CASE PumpEvaluate
    BY <2>6 DEF PumpEvaluate, pin, host
  <2>7. CASE PumpWrite
    BY <2>7 DEF PumpWrite, Reading, pin, host
  <2> QED
    BY <1>8, <2>2, <2>3, <2>4, <2>5, <2>6, <2>7 DEF PumpServer
<1>9. ASSUME NEW id \in asked, ServerAnswer(id) \/ ServerAnswerTwice(id) PROVE TypeOK'
  <2>1. PICK content \in MayAnswer(id) : pipe' = Append(pipe, Answer(id, content))
    BY <1>9 DEF ServerAnswer, ServerAnswerTwice
  <2>2. Answer(id, content) \in Messages
    BY DEF MayAnswer, Answer, Messages, Answers, Contents
  <2>3. pipe' \in Seq(Messages)
    BY <2>1, <2>2, AppendProperties
  <2> QED
    BY <1>9, <2>3 DEF ServerAnswer, ServerAnswerTwice, pin, guard, host
<1>10. ASSUME NEW l \in Changes, ServerNotify(l) PROVE TypeOK'
  <2>1. Answer(l, None) \in Messages
    BY DEF Answer, Messages
  <2>2. pipe' \in Seq(Messages)
    BY <1>10, <2>1, AppendProperties DEF ServerNotify
  <2> QED
    BY <1>10, <2>2 DEF ServerNotify, pin, guard, host
<1>11. ASSUME NEW c \in Catalogs, Approve(c) PROVE TypeOK'
  BY <1>11 DEF Approve, guard, host
<1>12. CASE LosePin
  BY <1>12 DEF LosePin, guard, host
<1>13. CASE UNCHANGED vars
  BY <1>13 DEF vars, pin, guard, host
<1> QED
  BY <1>1, <1>2, <1>3, <1>4, <1>5, <1>6, <1>7, <1>8, <1>9, <1>10, <1>11, <1>12, <1>13 DEF Next

(***************************************************************************)
(* Who changes what: the steps an invariant has to be checked against.     *)
(***************************************************************************)

\* Only pumpClient, a refresh and the start of a goroutine touch the threads,
\* syncMu and the counter of the guard's requests.
LEMMA ThreadSteps ==
  ASSUME [Next]_vars
  PROVE  \/ UNCHANGED <<thread, syncMu, syncs>>
         \/ \E c \in Calls : ReadCall(c, "lock")
         \/ \E t \in Threads : SyncRequest(t) \/ SyncAnswer(t) \/ EvaluateLive(t)
         \/ ForwardCall \/ DenyCall
         \/ \E l \in Changes : Notify(l)
         \/ PumpListChanged
BY DEF Next, PumpServer, vars, pin, guard, host, ForwardList, PumpSync, PumpDeliver, PumpRead,
       PumpEvaluate, PumpWrite, ServerAnswer, ServerAnswerTwice, ServerNotify, Approve, LosePin

\* Only requests, pumpServer and the end of a refresh touch the table of
\* requests, the pump and syncCh.
LEMMA RefreshSteps ==
  ASSUME [Next]_vars
  PROVE  \/ UNCHANGED <<pending, pump, syncCh, syncMu, syncs>>
         \/ \E r \in Lists : ForwardList(r)
         \/ \E t \in Threads : SyncRequest(t) \/ SyncAnswer(t)
         \/ PumpSync \/ PumpDeliver \/ PumpRead \/ PumpEvaluate \/ PumpWrite
BY DEF Next, PumpServer, vars, pin, guard, host, ReadCall, EvaluateLive, ForwardCall, DenyCall,
       Notify, PumpListChanged, ServerAnswer, ServerAnswerTwice, ServerNotify, Approve, LosePin

\* A granted catalog stays granted, and the pin changes only to a catalog that
\* is granted in that step, or to nothing.
LEMMA PinSteps ==
  ASSUME [Next]_vars
  PROVE  /\ granted \subseteq granted'
         /\ trusted' \in {trusted, None} \union granted'
BY DEF Next, PumpServer, vars, pin, guard, host, ForwardList, ReadCall, SyncRequest, Sends,
       SyncAnswer, EvaluateLive, ForwardCall, DenyCall, Notify, PumpListChanged, PumpSync,
       PumpDeliver, PumpRead, PumpEvaluate, PumpWrite, ServerAnswer, ServerAnswerTwice,
       ServerNotify, Approve, LosePin

(***************************************************************************)
(* The parts of the inductive invariant, one at a time.                    *)
(***************************************************************************)

\* syncMu has one holder, the thread that waits for an answer (wrap.go:280).
LEMMA HolderStep == ASSUME Inv, [Next]_vars PROVE HolderAwaits'
<1> USE DEF Inv, TypeOK, HolderAwaits
<1>0. None \notin Threads /\ Client \in Threads /\ Changes \subseteq Threads /\ Sleeping.at = "idle"
  BY DEF Threads, Sleeping
<1>1. CASE UNCHANGED <<thread, syncMu, syncs>>
  BY <1>1
<1>2. ASSUME NEW c \in Calls, ReadCall(c, "lock") PROVE HolderAwaits'
  BY <1>0, <1>2 DEF ReadCall, Sleeping
<1>3. ASSUME NEW t \in Threads, SyncRequest(t) PROVE HolderAwaits'
  BY <1>0, <1>3 DEF SyncRequest, Sends, ThreadStates
<1>4. ASSUME NEW t \in Threads, SyncAnswer(t) PROVE HolderAwaits'
  BY <1>0, <1>4 DEF SyncAnswer, ThreadStates
<1>5. ASSUME NEW t \in Threads, EvaluateLive(t) PROVE HolderAwaits'
  BY <1>0, <1>5 DEF EvaluateLive, ThreadStates
<1>6. CASE ForwardCall \/ DenyCall
  BY <1>0, <1>6 DEF ForwardCall, DenyCall
<1>7. ASSUME NEW l \in Changes, Notify(l) PROVE HolderAwaits'
  BY <1>0, <1>7 DEF Notify, Sleeping
<1>8. CASE PumpListChanged
  <2>1. thread[Head(pipe).id].at = "idle" /\ Head(pipe).id \in Threads
    BY <1>0, <1>8 DEF PumpListChanged, NotifiedOnce
  <2> QED
    BY <1>0, <1>8, <2>1 DEF PumpListChanged, ThreadStates
<1> QED
  BY <1>1, <1>2, <1>3, <1>4, <1>5, <1>6, <1>7, <1>8, ThreadSteps

\* The answer to the guard's latest request is in one place (wrap.go:226,
\* wrap.go:295): no second one can be on its way.
LEMMA RefreshStep == ASSUME Inv, [Next]_vars PROVE OneRefresh'
<1> USE DEF Inv, TypeOK, OneRefresh, Asked, InPump, InChannel, Nowhere, Refreshes
<1>1. CASE UNCHANGED <<pending, pump, syncCh, syncMu, syncs>>
  BY <1>1
<1>2. ASSUME NEW r \in Lists, ForwardList(r) PROVE OneRefresh'
  BY <1>2 DEF ForwardList
<1>3. ASSUME NEW t \in Threads, SyncRequest(t) PROVE OneRefresh'
  BY <1>3 DEF SyncRequest, Sends, Threads
<1>4. ASSUME NEW t \in Threads, SyncAnswer(t) PROVE OneRefresh'
  <2>1. syncMu = t /\ syncMu # None
    BY <1>4 DEF SyncAnswer, HolderAwaits, Threads
  <2>2. InChannel /\ Tail(syncCh) = <<>>
    BY <1>4, <2>1 DEF SyncAnswer
  <2> QED
    BY <1>4, <2>2 DEF SyncAnswer
<1>5. CASE PumpSync
  <2>1. Asked /\ syncMu # None /\ Head(pipe).id = syncs
    BY <1>5 DEF PumpSync, Tracked
  <2>2. {p \in Untrack(syncs) : p.method = "deadbugz-sync"} = {}
    BY <2>1 DEF Untrack
  <2> QED
    BY <1>5, <2>1, <2>2 DEF PumpSync
<1>6. CASE PumpDeliver
  <2>1. InPump /\ syncMu # None
    BY <1>6 DEF PumpDeliver
  <2>2. pump.msg \in Answers
    BY <1>6 DEF PumpDeliver, HandsMatchStep
  <2>3. Len(syncCh') = 1 /\ Head(syncCh') = pump.msg
    BY <1>6, <2>1, <2>2 DEF PumpDeliver
  <2> QED
    BY <1>6, <2>1, <2>3 DEF PumpDeliver, Reading
<1>7. CASE PumpRead
  <2>1. Refreshes' = Refreshes
    BY <1>7 DEF PumpRead, Untrack, Tracked
  <2>2. pump'.at # "deliver" /\ pump.at # "deliver" /\ UNCHANGED <<syncCh, syncs, syncMu>>
    BY <1>7 DEF PumpRead
  <2> QED
    BY <2>1, <2>2
<1>8. CASE PumpEvaluate \/ PumpWrite
  BY <1>8 DEF PumpEvaluate, PumpWrite, Reading
<1> QED
  BY <1>1, <1>2, <1>3, <1>4, <1>5, <1>6, <1>7, <1>8, RefreshSteps

\* pumpServer starts one goroutine for each notification it reads.
LEMMA NotifiedStep == ASSUME Inv, [Next]_vars PROVE NotifiedOnce'
<1> USE DEF Inv, TypeOK, NotifiedOnce
<1>0. Client \notin Changes /\ Changes \subseteq Threads
  BY DEF Threads
<1>1. ASSUME UNCHANGED pipe,
             \A l \in Changes : thread[l].at = "idle" => thread'[l].at = "idle"
      PROVE  NotifiedOnce'
  BY <1>1
<1>2. ASSUME NEW c \in Calls, ReadCall(c, "lock") PROVE NotifiedOnce'
  BY <1>0, <1>1, <1>2 DEF ReadCall
<1>3. ASSUME NEW t \in Threads, SyncRequest(t) \/ SyncAnswer(t) \/ EvaluateLive(t)
      PROVE  NotifiedOnce'
  <2>1. thread[t].at # "idle" /\ \A u \in Threads \ {t} : thread'[u] = thread[u]
    BY <1>3 DEF SyncRequest, Sends, SyncAnswer, EvaluateLive
  <2> QED
    BY <1>0, <1>1, <1>3, <2>1 DEF SyncRequest, Sends, SyncAnswer, EvaluateLive
<1>4. CASE ForwardCall \/ DenyCall
  BY <1>0, <1>1, <1>4 DEF ForwardCall, DenyCall
<1>5. ASSUME NEW l \in Changes, Notify(l) PROVE NotifiedOnce'
  BY <1>0, <1>1, <1>5 DEF Notify
<1>6. ASSUME pipe # <<>>, pipe' = Tail(pipe),
             \A l \in Changes \ {Head(pipe).id} : thread'[l] = thread[l]
      PROVE  NotifiedOnce'
  <2>1. /\ Len(pipe') = Len(pipe) - 1
        /\ \A i \in 1 .. Len(pipe') : i + 1 \in 1 .. Len(pipe) /\ pipe'[i] = pipe[i + 1]
        /\ 1 \in 1 .. Len(pipe) /\ Head(pipe) = pipe[1]
    BY <1>6
  <2>2. ASSUME NEW i \in 1 .. Len(pipe'), pipe'[i].id \in Changes
        PROVE  /\ thread'[pipe'[i].id].at = "idle"
               /\ \A j \in 1 .. Len(pipe') : pipe'[j].id = pipe'[i].id => j = i
    <3>1. i + 1 \in 1 .. Len(pipe) /\ pipe[i + 1].id \in Changes /\ i + 1 # 1
      BY <2>1, <2>2
    <3>2. \A j \in 1 .. Len(pipe) : pipe[j].id = pipe[i + 1].id => j = i + 1
      BY <3>1
    <3>3. pipe[i + 1].id # pipe[1].id
      BY <2>1, <3>1, <3>2
    <3> QED
      BY <1>6, <2>1, <2>2, <3>3
  <2> QED
    BY <2>2
<1>7. CASE PumpListChanged
  BY <1>0, <1>6, <1>7 DEF PumpListChanged
<1>8. CASE PumpSync \/ PumpRead
  BY <1>6, <1>8 DEF PumpSync, PumpRead
<1>9. CASE PumpDeliver \/ PumpEvaluate \/ PumpWrite
  BY <1>1, <1>9 DEF PumpDeliver, PumpEvaluate, PumpWrite
<1>10. ASSUME NEW msg \in Messages, pipe' = Append(pipe, msg), UNCHANGED thread,
              msg.id \in Changes => /\ thread[msg.id].at = "idle"
                                    /\ \A i \in 1 .. Len(pipe) : pipe[i].id # msg.id
       PROVE  NotifiedOnce'
  <2>1. /\ Len(pipe') = Len(pipe) + 1
        /\ \A i \in 1 .. Len(pipe) : pipe'[i] = pipe[i]
        /\ pipe'[Len(pipe) + 1] = msg
    BY <1>10, AppendProperties
  <2> QED
    BY <1>10, <2>1
<1>11. ASSUME NEW id \in asked, ServerAnswer(id) \/ ServerAnswerTwice(id) PROVE NotifiedOnce'
  <2>1. PICK content \in MayAnswer(id) : pipe' = Append(pipe, Answer(id, content))
    BY <1>11 DEF ServerAnswer, ServerAnswerTwice
  <2>2. Answer(id, content) \in Messages /\ Answer(id, content).id \notin Changes
    BY DEF MayAnswer, Answer, Messages, Answers, Contents, Ids
  <2> QED
    BY <1>10, <1>11, <2>1, <2>2 DEF ServerAnswer, ServerAnswerTwice, guard
<1>12. ASSUME NEW l \in Changes, ServerNotify(l) PROVE NotifiedOnce'
  <2>1. Answer(l, None) \in Messages /\ Answer(l, None).id = l
    BY DEF Answer, Messages
  <2> QED
    BY <1>10, <1>12, <2>1 DEF ServerNotify, guard
<1>13. CASE UNCHANGED <<pipe, thread>>
  BY <1>13
<1> QED
  BY <1>2, <1>3, <1>4, <1>5, <1>7, <1>8, <1>9, <1>11, <1>12, <1>13
     DEF Next, PumpServer, vars, pin, guard, ForwardList, Approve, LosePin

\* An answer is in hand from the moment it arrives to the end of the step that
\* uses it, and a call as long as pumpClient is busy with it.
LEMMA HandsStep == ASSUME Inv, [Next]_vars PROVE HandsMatchStep'
<1> USE DEF Inv, TypeOK, HandsMatchStep
<1>0. /\ Client \in Threads /\ Client \notin Changes /\ Changes \subseteq Threads
      /\ Nothing \notin Answers /\ Nothing \notin Messages
      /\ Sleeping.at = "idle" /\ Sleeping.got = Nothing
  BY DEF Threads, Sleeping, Nothing, Answer, Answers, Messages, Contents, Ids
<1> DEFINE ThreadHands == /\ \A t \in Threads :
                               /\ thread[t].at \in {"idle", "lock", "await"} => thread[t].got = Nothing
                               /\ thread[t].at = "evaluate" => thread[t].got # Nothing
                          /\ thread[Client].at # "idle" => thread[Client].call \in Calls
           PumpHand == pump.at # "read" => pump.msg # Nothing
<1>1. ThreadHands'
  <2>1. CASE UNCHANGED <<thread, syncMu, syncs>>
    BY <2>1
  <2>2. ASSUME NEW c \in Calls, ReadCall(c, "lock") PROVE ThreadHands'
    BY <1>0, <2>2 DEF ReadCall, Sleeping
  <2>3. ASSUME NEW t \in Threads, SyncRequest(t) PROVE ThreadHands'
    BY <1>0, <2>3 DEF SyncRequest, Sends, ThreadStates
  <2>4. ASSUME NEW t \in Threads, SyncAnswer(t) PROVE ThreadHands'
    <3>1. Head(syncCh) # Nothing
      BY <1>0, <2>4, HeadTailProperties DEF SyncAnswer
    <3> QED
      BY <1>0, <2>4, <3>1 DEF SyncAnswer, ThreadStates
  <2>5. ASSUME NEW t \in Threads, EvaluateLive(t) PROVE ThreadHands'
    BY <1>0, <2>5 DEF EvaluateLive, ThreadStates
  <2>6. CASE ForwardCall \/ DenyCall
    BY <1>0, <2>6 DEF ForwardCall, DenyCall
  <2>7. ASSUME NEW l \in Changes, Notify(l) PROVE ThreadHands'
    BY <1>0, <2>7 DEF Notify, Sleeping
  <2>8. CASE PumpListChanged
    <3>1. /\ Head(pipe).id \in Changes
          /\ thread[Head(pipe).id].at = "idle"
      BY <2>8 DEF PumpListChanged, NotifiedOnce
    <3> QED
      BY <1>0, <2>8, <3>1 DEF PumpListChanged, ThreadStates
  <2> QED
    BY <2>1, <2>2, <2>3, <2>4, <2>5, <2>6, <2>7, <2>8, ThreadSteps
<1>2. PumpHand'
  <2>1. pipe # <<>> => Head(pipe) # Nothing
    BY <1>0, HeadTailProperties
  <2>2. CASE pump' = pump
    BY <2>2
  <2>3. CASE PumpSync \/ PumpRead
    BY <2>1, <2>3 DEF PumpSync, PumpRead
  <2>4. CASE PumpDeliver \/ PumpWrite
    BY <2>4 DEF PumpDeliver, PumpWrite, Reading
  <2>5. CASE PumpEvaluate
    BY <2>5 DEF PumpEvaluate
  <2> QED
    BY <2>2, <2>3, <2>4, <2>5, RefreshSteps DEF ForwardList, SyncRequest, Sends, SyncAnswer
<1> QED
  BY <1>1, <1>2

\* No thread ever holds the answer to another request than its own.
LEMMA OwnAnswerStep == ASSUME Inv, [Next]_vars PROVE OwnAnswer'
<1> USE DEF Inv, TypeOK, OwnAnswer
<1>0. /\ Client \in Threads /\ Changes \subseteq Threads /\ None \notin Threads
      /\ Sleeping.got = Nothing
  BY DEF Threads, Sleeping
<1>1. CASE UNCHANGED <<thread, syncMu, syncs>>
  BY <1>1
<1>2. ASSUME NEW c \in Calls, ReadCall(c, "lock") PROVE OwnAnswer'
  BY <1>0, <1>2 DEF ReadCall, Sleeping
<1>3. ASSUME NEW t \in Threads, SyncRequest(t) PROVE OwnAnswer'
  <2>1. thread[t].got = Nothing
    BY <1>3 DEF SyncRequest, HandsMatchStep
  <2> QED
    BY <1>3, <2>1 DEF SyncRequest, Sends, ThreadStates
<1>4. ASSUME NEW t \in Threads, SyncAnswer(t) PROVE OwnAnswer'
  <2>1. syncMu = t /\ thread[t].sync = syncs
    BY <1>0, <1>4 DEF SyncAnswer, HolderAwaits
  <2>2. Head(syncCh).id = syncs
    BY <1>0, <1>4, <2>1 DEF SyncAnswer, OneRefresh, Asked, InPump, InChannel
  <2> QED
    BY <1>4, <2>1, <2>2 DEF SyncAnswer, ThreadStates
<1>5. ASSUME NEW t \in Threads, EvaluateLive(t) PROVE OwnAnswer'
  BY <1>5 DEF EvaluateLive, ThreadStates
<1>6. CASE ForwardCall \/ DenyCall
  BY <1>0, <1>6 DEF ForwardCall, DenyCall
<1>7. ASSUME NEW l \in Changes, Notify(l) PROVE OwnAnswer'
  BY <1>0, <1>7 DEF Notify, Sleeping
<1>8. CASE PumpListChanged
  BY <1>0, <1>8 DEF PumpListChanged, ThreadStates
<1> QED
  BY <1>1, <1>2, <1>3, <1>4, <1>5, <1>6, <1>7, <1>8, ThreadSteps

\* A call that may go on was compared with a pin that held a granted catalog.
LEMMA CallStep == ASSUME Inv, [Next]_vars PROVE CallNeedsGrant'
<1> USE DEF Inv, TypeOK, CallNeedsGrant
<1>0. Client \in Threads /\ Client \notin Changes /\ granted \subseteq granted'
  BY PinSteps DEF Threads
<1>1. CASE UNCHANGED <<thread, syncMu, syncs>>
  BY <1>0, <1>1
<1>2. ASSUME NEW c \in Calls, ReadCall(c, "lock") PROVE CallNeedsGrant'
  BY <1>0, <1>2 DEF ReadCall, Sleeping
<1>3. ASSUME NEW t \in Threads, SyncRequest(t) \/ SyncAnswer(t) PROVE CallNeedsGrant'
  BY <1>0, <1>3 DEF SyncRequest, Sends, SyncAnswer, ThreadStates
<1>4. ASSUME NEW t \in Threads, EvaluateLive(t) PROVE CallNeedsGrant'
  <2>1. CASE t = Client
    <3>1. thread[Client].got \in Answers
      BY <1>0, <1>4, <2>1 DEF EvaluateLive, HandsMatchStep, ThreadStates
    <3>2. thread[Client].got.content # None
      BY <3>1 DEF Answers, Contents
    <3>3. thread'[Client].got = thread[Client].got
      BY <1>0, <1>4, <2>1 DEF EvaluateLive, ThreadStates
    <3>4. thread'[Client].at = "forward" => thread[Client].got.content = trusted
      BY <1>0, <1>4, <2>1 DEF EvaluateLive, Allowed, ThreadStates
    <3> QED
      BY <1>0, <3>2, <3>3, <3>4 DEF PinIsGranted
  <2>2. CASE t # Client
    BY <1>0, <1>4, <2>2 DEF EvaluateLive
  <2> QED
    BY <2>1, <2>2
<1>5. CASE ForwardCall \/ DenyCall
  BY <1>0, <1>5 DEF ForwardCall, DenyCall, Sleeping
<1>6. ASSUME NEW l \in Changes, Notify(l) PROVE CallNeedsGrant'
  BY <1>0, <1>6 DEF Notify
<1>7. CASE PumpListChanged
  BY <1>0, <1>7 DEF PumpListChanged
<1> QED
  BY <1>1, <1>2, <1>3, <1>4, <1>5, <1>6, <1>7, ThreadSteps

\* Whatever answer a listing came in, pumpServer compares it with the pin, if no
\* error stands beside it.
LEMMA HostStep == ASSUME Inv, [Next]_vars PROVE ResultsAreGranted'
<1> USE DEF Inv, TypeOK, ResultsAreGranted
<1>0. granted \subseteq granted'
  BY PinSteps
<1>1. CASE pump' = pump
  BY <1>0, <1>1
<1>2. CASE PumpSync \/ PumpDeliver \/ PumpWrite
  BY <1>2 DEF PumpSync, PumpDeliver, PumpWrite, Reading
<1>3. CASE PumpRead
  BY <1>3, ContentAssumption DEF PumpRead, IsListing, Failed
<1>4. CASE PumpEvaluate
  <2>1. pump'.msg = pump.msg /\ (pump'.at = "forward" => pump.msg.content = trusted)
    BY <1>4 DEF PumpEvaluate, Allowed
  <2> QED
    BY <1>0, <2>1 DEF PinIsGranted
<1> QED
  BY <1>1, <1>2, <1>3, <1>4, RefreshSteps DEF ForwardList, SyncRequest, Sends, SyncAnswer

(***************************************************************************)
(* The theorems.                                                           *)
(***************************************************************************)

\* The inductive invariant of the two pumps, the refreshes and the server.
THEOREM Invariant == Spec => []Inv
<1>1. Init => Inv
  <2> SUFFICES ASSUME Init PROVE Inv
    OBVIOUS
  <2> USE DEF Init
  <2>1. Sleeping \in ThreadStates
    BY DEF ThreadStates, Sleeping, Steps
  <2>2. TypeOK
    BY <2>1 DEF TypeOK, Reading
  <2>3. HolderAwaits /\ OneRefresh
    BY DEF HolderAwaits, OneRefresh, Nowhere, Refreshes, Threads, Sleeping, Reading
  <2>4. NotifiedOnce /\ HandsMatchStep /\ PinIsGranted
    BY DEF NotifiedOnce, HandsMatchStep, PinIsGranted, Threads, Sleeping, Reading
  <2>5. OwnAnswer /\ ResultsAreGranted /\ CallNeedsGrant
    BY DEF OwnAnswer, ResultsAreGranted, CallNeedsGrant, Threads, Sleeping, Reading
  <2> QED
    BY <2>2, <2>3, <2>4, <2>5 DEF Inv
<1>2. Inv /\ [Next]_vars => Inv'
  <2> SUFFICES ASSUME Inv, [Next]_vars PROVE Inv'
    OBVIOUS
  <2>1. PinIsGranted'
    BY PinSteps DEF Inv, PinIsGranted
  <2> QED
    BY <2>1, TypeStep, HolderStep, RefreshStep, NotifiedStep, HandsStep, OwnAnswerStep,
       CallStep, HostStep DEF Inv
<1> QED
  BY <1>1, <1>2, PTL DEF Spec

\* Type correctness of the pipes, the tables and the threads.
THEOREM TypeCorrect == Spec => []TypeOK
<1>1. Inv => TypeOK
  BY DEF Inv
<1> QED
  BY <1>1, Invariant, PTL

\* An answer is never handed to a thread that did not ask for it, however late,
\* often and in whatever order the server answers (wrap.go:295).
THEOREM AnswersAreOwn == Spec => []OwnAnswer
<1>1. Inv => OwnAnswer
  BY DEF Inv
<1> QED
  BY <1>1, Invariant, PTL

\* Every listing the host is about to see as a result was granted, whatever it
\* answers and however often it is sent (wrap.go:310).  A listing that comes
\* beside an error is not meant: it goes through unhashed (HashBeforeForward).
THEOREM HostIsGuarded == Spec => []ResultsAreGranted
<1>1. Inv => ResultsAreGranted
  BY DEF Inv
<1> QED
  BY <1>1, Invariant, PTL

\* Under CALL_GATE=3 every call the server gets was decided on a granted listing
\* (wrap.go:178).
THEOREM CallsAreGuarded == Spec => []CallNeedsGrant
<1>1. Inv => CallNeedsGrant
  BY DEF Inv
<1> QED
  BY <1>1, Invariant, PTL

\* At most one answer is between pumpServer and syncCh (wrap.go:232).
THEOREM PumpIsFree == Spec => []PumpNeverBlocks
<1>1. Inv => PumpNeverBlocks
  <2>1. Len(<<>>) = 0
    OBVIOUS
  <2>2. ASSUME OneRefresh
        PROVE  Len(syncCh) \in {0, 1} /\ (pump.at = "deliver" => Len(syncCh) = 0)
    BY <2>1, <2>2 DEF OneRefresh, Nowhere, Asked, InPump, InChannel
  <2>3. Inv => OneRefresh
    BY DEF Inv
  <2>4. CASE pump.at = "deliver"
    BY <2>2, <2>3, <2>4 DEF PumpNeverBlocks
  <2>5. CASE pump.at # "deliver"
    <3>1. CASE Len(syncCh) = 0
      BY <2>5, <3>1 DEF PumpNeverBlocks
    <3>2. CASE Len(syncCh) = 1
      BY <2>5, <3>2 DEF PumpNeverBlocks
    <3> QED
      BY <2>2, <2>3, <3>1, <3>2
  <2> QED
    BY <2>4, <2>5
<1> QED
  BY <1>1, Invariant, PTL
=============================================================================
