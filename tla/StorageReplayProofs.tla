-------------------------- MODULE StorageReplayProofs --------------------------
(***************************************************************************)
(* Theorems about StorageReplay, for any log a live session may leave and  *)
(* any size of the channel's buffer.                                       *)
(***************************************************************************)
EXTENDS StorageReplay, RanksProofs, SequenceTheorems, TLAPS

(* What the reader, the channel and the consumer's Receive work on.        *)
queueVars == <<log, next, scpc, pushed, closed, buf, received>>

(* The consumer's steps, one by one, and what they leave alone.            *)
LEMMA ConsumerSteps ==
  ASSUME ConsumerStep
  PROVE  /\ UNCHANGED <<log, next, scpc, pushed, closed, registered, hpc, clientLeft>>
         /\ UNCHANGED <<buf, received>> \/ D!Receive
<1>1. CASE Consumes
  BY <1>1 DEF Consumes, D!ConsumeCheck, D!ReceiveCheck, D!Receive, D!ReceiveFails,
     D!Snapshot, D!PassOver, D!DispatchEnds, D!ConsumerCancels, D!ConsumerDone,
     D!ConsumerKeeps, D!sendVars, requestVars
<1>2. CASE IncrementTask \/ DecrementTask \/ CloseActionWaits \/ ServerSessionHandle
           \/ ResultCallbackHandle
  BY <1>2 DEF IncrementTask, DecrementTask, CloseActionWaits, ServerSessionHandle,
     ResultCallbackHandle, Handles, D!Invoke, D!chanVars, requestVars
<1>3. CASE IncrementTaskCrashes
  BY <1>3 DEF IncrementTaskCrashes, readerVars, requestVars
<1>4. CASE CloseActionCloses \/ HandlerReturns
  BY <1>4 DEF CloseActionCloses, HandlerReturns, D!HandlerReturns, D!ConsumerKeeps,
     D!sendVars, requestVars
<1>5. CASE WriteAnswer
  BY <1>5 DEF WriteAnswer, readerVars, consumerVars, requestVars
<1> QED
  BY <1>1, <1>2, <1>3, <1>4, <1>5 DEF ConsumerStep

(* Only three steps move actions: two of the reader, and Receive.          *)
LEMMA QueueSteps ==
  ASSUME [Next]_vars
  PROVE  \/ ReaderPushes
         \/ ReaderCloses
         \/ D!Receive /\ UNCHANGED <<log, next, scpc, pushed, closed>>
         \/ UNCHANGED queueVars
<1>1. CASE ReaderStep
  BY <1>1 DEF ReaderStep
<1>2. CASE HttpStep
  BY <1>2 DEF HttpStep, CreateReplaySession, Connect, BindHandlers, Serve,
     AwaitDisconnect, Return, RegisterNext, D!Register, D!chanVars, D!consVars,
     D!sendVars, readerVars, consumerVars, queueVars
<1>3. CASE ClientLeaves \/ ConnectionRead
  BY <1>3 DEF ClientLeaves, ConnectionRead, readerVars, consumerVars, queueVars
<1>4. CASE ConsumerStep
  BY <1>4, ConsumerSteps DEF queueVars
<1>5. CASE UNCHANGED vars
  BY <1>5 DEF vars, readerVars, consumerVars, queueVars
<1> QED
  BY <1>1, <1>2, <1>3, <1>4, <1>5 DEF Next
-----------------------------------------------------------------------------
(* The channel holds what was pushed and not yet received, and what was    *)
(* pushed is the log behind its first action, up to the first close.       *)
AtClose == pushed # <<>> /\ pushed[Len(pushed)] = SessionClose

QueueInv ==
  /\ log \in Seq(Actions)
  /\ pushed \in Seq(Actions) /\ received \in Seq(Actions) /\ buf \in Seq(Actions)
  /\ pushed = received \o buf
  /\ next = Len(pushed) + 2
  /\ pushed # <<>> => Len(pushed) + 1 <= Len(log)
  /\ \A i \in 1 .. Len(pushed) : pushed[i] = log[i + 1]
  /\ \A i \in 1 .. Len(pushed) - 1 : pushed[i] # SessionClose
  /\ scpc \in {"iterate", "closing", "done"}
  /\ scpc = "iterate" => ~AtClose
  /\ scpc = "closing" => AtClose
  /\ scpc = "done" => AtClose \/ Len(pushed) + 1 >= Len(log)
  /\ closed => scpc = "done"

(* The queue invariant holds at the start.                                 *)
LEMMA QueueInitially == Init => QueueInv
BY StorageReplayAssumption DEF Init, QueueInv, AtClose

(* Every step keeps the queue invariant.                                   *)
LEMMA QueueStep ==
  ASSUME QueueInv, [Next]_vars
  PROVE  QueueInv'
<1>0. /\ log \in Seq(Actions) /\ pushed \in Seq(Actions)
      /\ received \in Seq(Actions) /\ buf \in Seq(Actions)
      /\ Len(pushed) \in Nat /\ Len(log) \in Nat
  BY LenProperties DEF QueueInv
<1>1. CASE ReaderPushes
  <2>1. PICK a : a = log[next]
    OBVIOUS
  <2>2. /\ scpc = "iterate" /\ next <= Len(log)
        /\ buf' = Append(buf, a) /\ pushed' = Append(pushed, a)
        /\ next' = next + 1
        /\ scpc' = IF a # SessionClose THEN "iterate" ELSE "closing"
        /\ UNCHANGED <<closed, log, received>>
    BY <1>1, <2>1 DEF ReaderPushes, Push, ReaderKeeps
  <2>3. a \in Actions
    BY <1>0, <2>1, <2>2 DEF QueueInv
  <2>4. /\ pushed' \in Seq(Actions) /\ buf' \in Seq(Actions)
        /\ Len(pushed') = Len(pushed) + 1
        /\ \A i \in 1 .. Len(pushed) : pushed'[i] = pushed[i]
        /\ pushed'[Len(pushed) + 1] = a
    BY <1>0, <2>2, <2>3, AppendProperties
  <2>5. pushed' = received' \o buf'
    <3>1. <<a>> \in Seq(Actions)
      BY <2>3
    <3>2. Append(pushed, a) = pushed \o <<a>> /\ Append(buf, a) = buf \o <<a>>
      BY <1>0, <2>3, AppendIsConcat
    <3>3. (received \o buf) \o <<a>> = received \o (buf \o <<a>>)
      BY <1>0, <3>1, ConcatAssociative, SMTT(30)
    <3> QED
      BY <2>2, <3>2, <3>3 DEF QueueInv
  <2>6. \A i \in 1 .. Len(pushed) : pushed[i] # SessionClose
    <3>1. ~AtClose
      BY <2>2 DEF QueueInv
    <3>2. SUFFICES ASSUME NEW i \in 1 .. Len(pushed) PROVE pushed[i] # SessionClose
      OBVIOUS
    <3>3. CASE i = Len(pushed)
      BY <1>0, <3>1, <3>3 DEF AtClose
    <3>4. CASE i \in 1 .. Len(pushed) - 1
      BY <3>4 DEF QueueInv
    <3> QED
      BY <1>0, <3>3, <3>4
  <2>7. \A i \in 1 .. Len(pushed') : pushed'[i] = log'[i + 1]
    <3>1. SUFFICES ASSUME NEW i \in 1 .. Len(pushed) + 1
                   PROVE  pushed'[i] = log[i + 1]
      BY <2>2, <2>4
    <3>2. CASE i = Len(pushed) + 1
      <4>1. i + 1 = next
        BY <1>0, <3>2 DEF QueueInv
      <4> QED
        BY <2>1, <2>4, <3>2, <4>1
    <3>3. CASE i \in 1 .. Len(pushed)
      BY <2>4, <3>3 DEF QueueInv
    <3> QED
      BY <1>0, <3>2, <3>3
  <2>8. \A i \in 1 .. Len(pushed') - 1 : pushed'[i] # SessionClose
    <3>1. Len(pushed') - 1 = Len(pushed)
      BY <1>0, <2>4
    <3> QED
      BY <2>4, <2>6, <3>1
  <2>9. AtClose' <=> a = SessionClose
    BY <1>0, <2>4 DEF AtClose, SessionClose, Action
  <2>10. Len(pushed') + 1 <= Len(log') /\ next' = Len(pushed') + 2
    BY <1>0, <2>2, <2>4 DEF QueueInv
  <2> QED
    BY <2>2, <2>4, <2>5, <2>7, <2>8, <2>9, <2>10 DEF QueueInv
<1>2. CASE ReaderCloses
  <2>1. /\ scpc = "closing" \/ (scpc = "iterate" /\ next > Len(log))
        /\ scpc' = "done"
        /\ UNCHANGED <<log, next, pushed, buf, received>>
    BY <1>2 DEF ReaderCloses, ReaderKeeps
  <2>2. AtClose \/ Len(pushed) + 1 >= Len(log)
    BY <1>0, <2>1 DEF QueueInv
  <2>3. AtClose' <=> AtClose
    BY <2>1 DEF AtClose
  <2> QED
    BY <2>1, <2>2, <2>3 DEF QueueInv
<1>3. CASE D!Receive /\ UNCHANGED <<log, next, scpc, pushed, closed>>
  <2>1. buf # <<>> /\ received' = Append(received, Head(buf)) /\ buf' = Tail(buf)
    BY <1>3 DEF D!Receive
  <2>2. Head(buf) \in Actions /\ buf' \in Seq(Actions)
    BY <1>0, <2>1, HeadTailProperties
  <2>3. received' \in Seq(Actions)
    BY <1>0, <2>1, <2>2, AppendProperties
  <2>4. received' \o buf' = received \o buf
    <3>1. <<Head(buf)>> \in Seq(Actions)
      BY <2>2
    <3>2. received' = received \o <<Head(buf)>>
      BY <1>0, <2>1, <2>2, AppendIsConcat
    <3>3. buf = <<Head(buf)>> \o buf'
      BY <1>0, <2>1, <2>2
    <3>4. (received \o <<Head(buf)>>) \o buf' = received \o (<<Head(buf)>> \o buf')
      BY <1>0, <2>2, <3>1, ConcatAssociative, SMTT(30)
    <3> QED
      BY <3>2, <3>3, <3>4
  <2>5. AtClose' <=> AtClose
    BY <1>3 DEF AtClose
  <2> QED
    BY <1>3, <2>2, <2>3, <2>4, <2>5 DEF QueueInv
<1>4. CASE UNCHANGED queueVars
  BY <1>4 DEF queueVars, QueueInv, AtClose
<1> QED
  BY <1>1, <1>2, <1>3, <1>4, QueueSteps

(* The queue invariant holds in every state.                               *)
LEMMA QueueInvariance == Spec => []QueueInv
<1>1. QueueInv /\ [Next]_vars => QueueInv'
  BY QueueStep
<1> QED
  BY QueueInitially, <1>1, PTL DEF Spec

(* Whatever the log and the buffer, the consumer gets the log behind its   *)
(* first action in its order, and nothing behind a close (storage.go,      *)
(* readFromStorage and Receive).                                           *)
THEOREM ReplayFollowsLog == Spec => []FollowsLog
<1>1. QueueInv => FollowsLog
  <2> SUFFICES ASSUME QueueInv PROVE FollowsLog
    OBVIOUS
  <2> USE DEF QueueInv, AtClose
  <2>1. pushed = SubSeq(log, 2, Len(pushed) + 1)
    <3>1. Len(SubSeq(log, 2, Len(pushed) + 1)) = Len(pushed)
      OBVIOUS
    <3>2. \A i \in 1 .. Len(pushed) : SubSeq(log, 2, Len(pushed) + 1)[i] = pushed[i]
      OBVIOUS
    <3>3. SubSeq(log, 2, Len(pushed) + 1) \in Seq(Actions)
      OBVIOUS
    <3> QED
      BY <3>1, <3>2, <3>3, SeqEqual
  <2> QED
    BY <2>1 DEF FollowsLog
<1> QED
  BY QueueInvariance, <1>1, PTL
-----------------------------------------------------------------------------
(* The HTTP handler has closed the connection when it returns.             *)
HandlerClosed == HttpOver => ssClosed

(* Every step keeps the connection of a returned handler closed.           *)
LEMMA HandlerCloses ==
  ASSUME HandlerClosed, [Next]_vars
  PROVE  HandlerClosed'
<1> USE DEF HandlerClosed, HttpOver
<1>1. CASE HttpStep
  BY <1>1 DEF HttpStep, CreateReplaySession, Connect, BindHandlers, Serve,
     AwaitDisconnect, Return, requestVars
<1>2. CASE ReaderStep \/ ClientLeaves \/ ConnectionRead
  BY <1>2 DEF ReaderStep, ReaderPushes, ReaderCloses, Push, ReaderKeeps, ClientLeaves,
     ConnectionRead, requestVars
<1>3. CASE ConsumerStep
  BY <1>3 DEF ConsumerStep, Consumes, IncrementTask, IncrementTaskCrashes, DecrementTask,
     CloseActionWaits, CloseActionCloses, ServerSessionHandle, ResultCallbackHandle,
     WriteAnswer, HandlerReturns, requestVars
<1>4. CASE UNCHANGED vars
  BY <1>4 DEF vars, requestVars
<1> QED
  BY <1>1, <1>2, <1>3, <1>4 DEF Next

(* Whatever the log, no answer is begun when the HTTP handler has returned *)
(* (server.go, ServerSession.Send).                                        *)
THEOREM AtMostOneLateWrite == Spec => OneLateWrite
<1>1. Init => HandlerClosed
  BY DEF Init, HandlerClosed, HttpOver
<1>2. HandlerClosed /\ [Next]_vars => HandlerClosed'
  BY HandlerCloses
<1>3. HandlerClosed /\ [Next]_vars => [HttpOver => (writing' => writing)]_vars
  <2> SUFFICES ASSUME HandlerClosed, Next, HttpOver
               PROVE  writing' => writing
    OBVIOUS
  <2>1. CASE HttpStep
    BY <2>1 DEF HttpStep, CreateReplaySession, Connect, BindHandlers, Serve,
       AwaitDisconnect, Return, answerVars
  <2>2. CASE ReaderStep \/ ClientLeaves \/ ConnectionRead
    BY <2>2 DEF ReaderStep, ReaderPushes, ReaderCloses, Push, ReaderKeeps,
       ClientLeaves, ConnectionRead, answerVars
  <2>3. CASE ResultCallbackHandle
    BY <2>3 DEF HandlerClosed, ResultCallbackHandle
  <2>4. CASE ConsumerStep /\ ~ResultCallbackHandle
    BY <2>4 DEF ConsumerStep, Consumes, IncrementTask, IncrementTaskCrashes,
       DecrementTask, CloseActionWaits, CloseActionCloses, ServerSessionHandle,
       WriteAnswer, HandlerReturns, answerVars
  <2> QED
    BY <2>1, <2>2, <2>3, <2>4 DEF Next
<1> QED
  BY <1>1, <1>2, <1>3, PTL DEF Spec, OneLateWrite
-----------------------------------------------------------------------------
(* Once the session is bound, the closer forgets it only for a close, and  *)
(* a close is the last action there is.                                    *)
CloseReceived == \E i \in 1 .. Len(received) : received[i] = SessionClose

BindInv ==
  /\ hpc = "create" => registered = <<>>
  /\ todo # <<>> \/ cpc = "handling" => registered # <<>>
  /\ cpc \in {"snapshot", "dispatch", "handling"} => received # <<>>
  /\ ending => CloseReceived
  /\ ending => cpc = "handling"
  /\ hpc \notin {"create", "connect"} /\ ~known => CloseReceived
  /\ crashed # {} => hpc = "connect"

(* The binding invariant holds at the start.                               *)
LEMMA BindInitially == Init => BindInv
BY DEF Init, BindInv

(* A task is never counted for a session that was bound and forgotten.     *)
LEMMA NoCountAfterClose ==
  ASSUME QueueInv, BindInv, IncrementTaskCrashes
  PROVE  hpc = "connect"
<1>1. /\ cpc = "dispatch" /\ todo # <<>> /\ ~known
      /\ received[Len(received)] = EventStreamCall
  BY DEF IncrementTaskCrashes, D!Current
<1>2. hpc # "create" /\ received # <<>>
  BY <1>1 DEF BindInv
<1>3. SUFFICES ASSUME CloseReceived PROVE FALSE
  BY <1>1, <1>2 DEF BindInv
<1>4. PICK i \in 1 .. Len(received) : received[i] = SessionClose
  BY <1>3 DEF CloseReceived
<1>5. /\ received \in Seq(Actions) /\ buf \in Seq(Actions)
      /\ Len(received) \in Nat /\ Len(buf) \in Nat
      /\ pushed = received \o buf
  BY LenProperties DEF QueueInv
<1>6. Len(pushed) = Len(received) + Len(buf) /\ pushed[i] = received[i]
  BY <1>4, <1>5, ConcatProperties
<1>7. i = Len(received)
  BY <1>4, <1>5, <1>6 DEF QueueInv
<1> QED
  BY <1>1, <1>4, <1>7 DEF SessionClose, EventStreamCall, Action

(* Every step keeps the binding invariant.                                 *)
LEMMA BindStep ==
  ASSUME QueueInv, BindInv, [Next]_vars
  PROVE  BindInv'
<1> USE DEF BindInv
<1>0. CASE UNCHANGED vars
  BY <1>0 DEF vars, consumerVars, closerVars, requestVars, CloseReceived
<1> SUFFICES ASSUME Next PROVE BindInv'
  BY <1>0
<1>running. crashed = {}
  BY DEF Next, D!Running
<1>keeps. ASSUME UNCHANGED <<registered, todo, cpc, received, ending, known, crashed>>,
                 hpc' = hpc
          PROVE  BindInv'
  BY <1>keeps DEF CloseReceived
<1>1. CASE ReaderStep
  BY <1>1, <1>keeps DEF ReaderStep, ReaderPushes, ReaderCloses, Push, ReaderKeeps,
     closerVars, requestVars
<1>2. CASE ClientLeaves \/ ConnectionRead
  BY <1>2, <1>keeps DEF ClientLeaves, ConnectionRead, consumerVars, closerVars, requestVars
<1>3. CASE HttpStep
  <2>1. CASE Connect \/ Serve \/ AwaitDisconnect \/ Return
    BY <1>running, <2>1 DEF Connect, Serve, AwaitDisconnect, Return, consumerVars, closerVars,
       requestVars, CloseReceived
  <2>2. CASE CreateReplaySession \/ BindHandlers
    BY <1>running, <2>2 DEF CreateReplaySession, BindHandlers, RegisterNext, D!Register,
       D!consVars, closerVars, CloseReceived
  <2> QED
    BY <1>3, <2>1, <2>2 DEF HttpStep
<1>4. CASE ConsumerStep
  <2>1. UNCHANGED <<registered, hpc>>
    BY <1>4, ConsumerSteps
  <2>2. received \in Seq(Actions) /\ buf \in Seq(Actions) /\ Len(received) \in Nat
    BY LenProperties DEF QueueInv
  <2>3. CASE Consumes
    <3>1. UNCHANGED <<known, ending, crashed>> /\ cpc # "handling"
      BY <2>3 DEF Consumes, closerVars, D!ConsumerKeeps, D!ConsumeCheck, D!ReceiveCheck,
         D!Receive, D!ReceiveFails, D!Snapshot, D!PassOver, D!DispatchEnds,
         D!ConsumerCancels, D!ConsumerDone
    <3>2. CASE D!Receive
      <4>1. /\ received' = Append(received, Head(buf)) /\ Head(buf) \in Actions
            /\ UNCHANGED todo /\ cpc' # "handling"
        BY <2>2, <3>2, HeadTailProperties DEF D!Receive
      <4>2. received' # <<>> /\ Len(received') = Len(received) + 1
            /\ \A i \in 1 .. Len(received) : received'[i] = received[i]
        BY <2>2, <4>1, AppendProperties
      <4>3. CloseReceived => CloseReceived'
        BY <2>2, <4>2 DEF CloseReceived
      <4> QED
        BY <1>running, <2>1, <3>1, <4>1, <4>2, <4>3
    <3>3. CASE ~D!Receive
      <4>1. UNCHANGED received
        BY <2>3, <3>3 DEF Consumes, D!ConsumeCheck, D!ReceiveCheck, D!ReceiveFails,
           D!Snapshot, D!PassOver, D!DispatchEnds, D!ConsumerCancels, D!ConsumerDone
      <4>2. CloseReceived <=> CloseReceived'
        BY <4>1 DEF CloseReceived
      <4>3. /\ todo' # <<>> \/ cpc' = "handling" => registered # <<>>
            /\ cpc' \in {"snapshot", "dispatch", "handling"} => received # <<>>
        <5>1. CASE D!PassOver
          BY <5>1 DEF D!PassOver
        <5>2. CASE ~D!PassOver
          BY <2>3, <3>3, <5>2 DEF Consumes, D!ConsumeCheck, D!ReceiveCheck,
             D!ReceiveFails, D!Snapshot, D!DispatchEnds, D!ConsumerCancels, D!ConsumerDone
        <5> QED
          BY <5>1, <5>2
      <4> QED
        BY <1>running, <2>1, <3>1, <4>1, <4>2, <4>3
    <3> QED
      BY <3>2, <3>3
  <2>4. CASE IncrementTask \/ DecrementTask \/ ServerSessionHandle \/ ResultCallbackHandle
    BY <1>running, <2>1, <2>4 DEF IncrementTask, DecrementTask, ServerSessionHandle,
       ResultCallbackHandle, Handles, D!Invoke, closerVars, CloseReceived
  <2>5. CASE IncrementTaskCrashes
    <3>1. hpc = "connect"
      BY <2>5, NoCountAfterClose
    <3> QED
      BY <2>1, <2>5, <3>1 DEF IncrementTaskCrashes, closerVars, CloseReceived
  <2>6. CASE CloseActionWaits
    <3>1. CloseReceived
      BY <2>2, <2>6 DEF CloseActionWaits, Handles, D!Current, CloseReceived
    <3> QED
      BY <1>running, <2>1, <2>6, <3>1 DEF CloseActionWaits, Handles, D!Invoke, CloseReceived
  <2>7. CASE CloseActionCloses \/ HandlerReturns
    <3>1. /\ cpc = "handling" /\ cpc' = "dispatch" /\ UNCHANGED <<received, crashed>>
          /\ ending' = FALSE
          /\ ending \/ UNCHANGED known
      BY <2>7 DEF CloseActionCloses, HandlerReturns, D!HandlerReturns, D!ConsumerKeeps,
         closerVars
    <3>2. CloseReceived <=> CloseReceived'
      BY <3>1 DEF CloseReceived
    <3> QED
      BY <1>running, <2>1, <3>1, <3>2
  <2>8. CASE WriteAnswer
    BY <2>8, <1>keeps DEF WriteAnswer, consumerVars, closerVars, requestVars
  <2> QED
    BY <1>4, <2>3, <2>4, <2>5, <2>6, <2>7, <2>8 DEF ConsumerStep
<1> QED
  BY <1>1, <1>2, <1>3, <1>4 DEF Next

(* Whatever the log, the replay ends the process for want of a wait group  *)
(* only before Bind (server.go:336).                                       *)
THEOREM CrashBeforeBind == Spec => []CrashesOnlyBeforeBind
<1>1. QueueInv /\ BindInv /\ [Next]_vars => BindInv'
  BY BindStep
<1>2. BindInv => CrashesOnlyBeforeBind
  BY DEF BindInv, CrashesOnlyBeforeBind, D!Running
<1> QED
  BY QueueInvariance, BindInitially, <1>1, <1>2, PTL DEF Spec
-----------------------------------------------------------------------------
(* The walk through the handlers.  A copy of the registered handlers is    *)
(* made after Receive, and used up from the front: what is left of it is   *)
(* one of a few pieces of the order of registration.                       *)
Registrations ==
  {<<>>, <<"SessionCloser">>, <<"SessionCloser", "ServerSession">>, HandlerOrder}
CallbackLast ==
  {<<"AgentResultCallback">>, <<"ServerSession", "AgentResultCallback">>, HandlerOrder}
Pieces == Registrations \cup CallbackLast \cup {<<"ServerSession">>}

Between == {"check", "poll", "select", "leaving", "left", "done"}

(* A step of the consumer's loop itself is one of four.                    *)
LoopGoesOn ==
  /\ cpc \in Between \/ (cpc = "dispatch" /\ todo = <<>>)
  /\ cpc' \in Between
  /\ UNCHANGED <<todo, received>>
Receives ==
  /\ cpc = "select" /\ cpc' = "snapshot"
  /\ buf # <<>> /\ received' = Append(received, Head(buf))
  /\ UNCHANGED todo
Copies ==
  /\ cpc = "snapshot" /\ cpc' = "dispatch"
  /\ todo' = registered
  /\ UNCHANGED received
Passes ==
  /\ cpc = "dispatch" /\ cpc' = "dispatch"
  /\ todo # <<>> /\ ~D!Wants(Head(todo), D!Current)
  /\ todo' = Tail(todo)
  /\ UNCHANGED received

(* The loop by what each of its steps may touch.                           *)
LEMMA LoopSteps ==
  ASSUME Consumes
  PROVE  /\ LoopGoesOn \/ Receives \/ Copies \/ Passes
         /\ UNCHANGED <<log, registered, crashed, tClosed, queued, ppc, rpc, hpc,
                        clientLeft, ssClosed, known, pending, ending, writing, replies,
                        reached>>
<1>1. UNCHANGED <<log, tClosed, queued, ppc, rpc, hpc, clientLeft, ssClosed, known, pending,
                  ending, writing, replies, reached>>
  BY DEF Consumes, transportVars, closerVars, requestVars, answerVars
<1>2. CASE D!ConsumeCheck \/ D!ReceiveCheck \/ D!ReceiveFails \/ D!DispatchEnds
           \/ D!ConsumerCancels \/ D!ConsumerDone
  BY <1>1, <1>2 DEF D!ConsumeCheck, D!ReceiveCheck, D!ReceiveFails, D!DispatchEnds,
     D!ConsumerCancels, D!ConsumerDone, D!ConsumerKeeps, LoopGoesOn, Between
<1>3. CASE D!Receive
  BY <1>1, <1>3 DEF D!Receive, D!ConsumerKeeps, Receives
<1>4. CASE D!Snapshot
  BY <1>1, <1>4 DEF D!Snapshot, D!ConsumerKeeps, Copies
<1>5. CASE D!PassOver
  BY <1>1, <1>5 DEF D!PassOver, D!ConsumerKeeps, Passes
<1> QED
  BY <1>2, <1>3, <1>4, <1>5 DEF Consumes

(* A handler that is called stays at the head of the copy; one that        *)
(* returns leaves it.                                                      *)
Calls(h) ==
  /\ cpc = "dispatch" /\ cpc' = "handling"
  /\ todo # <<>> /\ Head(todo) = h /\ D!Wants(h, D!Current)
  /\ UNCHANGED <<todo, received, registered, crashed>>
Returns ==
  /\ cpc = "handling" /\ cpc' = "dispatch"
  /\ todo' = Tail(todo)
  /\ UNCHANGED <<received, registered, crashed>>

(* What the model does to call a handler is such a call,                   *)
LEMMA CallsHandler ==
  ASSUME NEW h, Handles(h)
  PROVE  Calls(h)
BY DEF Handles, D!Invoke, D!chanVars, Calls

(* and what it does when a handler returns is such a return.               *)
LEMMA HandlerReturning ==
  ASSUME D!HandlerReturns
  PROVE  Returns
BY DEF D!HandlerReturns, D!ConsumerKeeps, Returns

Shape ==
  /\ registered \in Registrations
  /\ hpc \in {"create", "connect", "bind", "serve", "closing", "returned", "panicked"}
  /\ hpc = "create" => registered = <<>>
  /\ hpc = "connect" => registered = <<"SessionCloser">>
  /\ hpc = "bind" => registered \in Registrations \ {<<>>, HandlerOrder}
  /\ hpc \notin {"create", "connect", "bind"} => registered = HandlerOrder
  /\ cpc \in Between \cup {"snapshot", "dispatch", "handling"}
  /\ todo \in Pieces
  /\ cpc \notin {"dispatch", "handling"} => todo = <<>>
  /\ cpc = "handling" => todo # <<>>
  /\ writing \in BOOLEAN /\ ending \in BOOLEAN /\ known \in BOOLEAN
  /\ writing => /\ cpc = "handling" /\ todo = <<"AgentResultCallback">>
                /\ IsAnswer(D!Current)
  /\ ending  => /\ cpc = "handling" /\ Head(todo) = "SessionCloser"
                /\ D!Current = SessionClose

(* No handler is registered and none is called at the start.               *)
LEMMA ShapeInitially == Init => Shape
BY DEF Init, Shape, Registrations, Pieces, Between

(* What is left of a piece of the order is a piece of the order.           *)
LEMMA TailOfPiece ==
  ASSUME todo \in Pieces, todo # <<>>
  PROVE  /\ Tail(todo) \in Pieces
         /\ Head(todo) \in Handlers
         /\ Head(todo) = "AgentResultCallback" <=> todo = <<"AgentResultCallback">>
         /\ Tail(todo) # <<>> => Head(Tail(todo)) # "SessionCloser"
         /\ todo \in CallbackLast =>
              Head(todo) = "AgentResultCallback" \/ Tail(todo) \in CallbackLast
         /\ Tail(todo) \in CallbackLast => todo \in CallbackLast
<1> DEFINE S == "SessionCloser"
           V == "ServerSession"
           A == "AgentResultCallback"
<1>1. HandlerOrder = <<S, V, A>> /\ S \in Handlers /\ V \in Handlers /\ A \in Handlers
  <2>1. HandlerOrder = <<S, V, A>>
    BY DEF HandlerOrder
  <2>2. /\ 1 \in DOMAIN HandlerOrder /\ HandlerOrder[1] = S
        /\ 2 \in DOMAIN HandlerOrder /\ HandlerOrder[2] = V
        /\ 3 \in DOMAIN HandlerOrder /\ HandlerOrder[3] = A
    BY <2>1
  <2> QED
    BY <2>1, <2>2 DEF Handlers
<1>2. /\ S # A /\ V # A
      /\ <<S>> # <<A>> /\ <<V>> # <<A>> /\ <<S, V>> # <<A>> /\ <<V, A>> # <<A>>
      /\ <<S, V, A>> # <<A>>
  OBVIOUS
<1>3. /\ <<>> \in Pieces /\ <<V>> \in Pieces /\ <<A>> \in Pieces /\ <<V, A>> \in Pieces
      /\ <<A>> \in CallbackLast /\ <<V, A>> \in CallbackLast
      /\ CallbackLast = {<<A>>, <<V, A>>, <<S, V, A>>}
      /\ <<>> \notin CallbackLast /\ <<V>> \notin CallbackLast
  BY <1>1 DEF Pieces, CallbackLast, Registrations
<1>4. todo \in {<<S>>, <<S, V>>, <<S, V, A>>, <<A>>, <<V, A>>, <<V>>}
  BY <1>1 DEF Pieces, CallbackLast, Registrations
<1>5. CASE todo = <<S>>
  <2>1. Head(todo) = S /\ Tail(todo) = <<>>
    BY <1>5
  <2>2. todo \notin CallbackLast
    BY <1>3, <1>5
  <2> QED
    BY <1>1, <1>2, <1>3, <1>5, <2>1, <2>2
<1>6. CASE todo = <<S, V>>
  <2>1. Head(todo) = S /\ Tail(todo) = <<V>> /\ Head(Tail(todo)) = V
    BY <1>6
  <2>2. todo \notin CallbackLast
    BY <1>3, <1>6
  <2> QED
    BY <1>1, <1>2, <1>3, <1>6, <2>1, <2>2
<1>7. CASE todo = <<S, V, A>>
  <2>1. Head(todo) = S /\ Tail(todo) = <<V, A>> /\ Head(Tail(todo)) = V
    BY <1>7
  <2> QED
    BY <1>1, <1>2, <1>3, <1>7, <2>1
<1>8. CASE todo = <<A>>
  <2>1. Head(todo) = A /\ Tail(todo) = <<>>
    BY <1>8
  <2> QED
    BY <1>1, <1>2, <1>3, <1>8, <2>1
<1>9. CASE todo = <<V, A>>
  <2>1. Head(todo) = V /\ Tail(todo) = <<A>> /\ Head(Tail(todo)) = A
    BY <1>9
  <2> QED
    BY <1>1, <1>2, <1>3, <1>9, <2>1
<1>10. CASE todo = <<V>>
  <2>1. Head(todo) = V /\ Tail(todo) = <<>>
    BY <1>10
  <2>2. todo \notin CallbackLast
    BY <1>3, <1>10
  <2> QED
    BY <1>1, <1>2, <1>3, <1>10, <2>1, <2>2
<1> QED
  BY <1>4, <1>5, <1>6, <1>7, <1>8, <1>9, <1>10

(* The callback handler was registered for the answers and nothing else.   *)
LEMMA CallbackWants ==
  Supports["AgentResultCallback"] = {ResultCallback(b) : b \in Answers}
<1>1. "AgentResultCallback" \in Handlers
  <2>1. 3 \in DOMAIN HandlerOrder /\ HandlerOrder[3] = "AgentResultCallback"
    BY DEF HandlerOrder
  <2> QED
    BY <2>1 DEF Handlers
<1> QED
  BY <1>1 DEF Supports

(* An action the callback handler wants is an answer.                      *)
LEMMA AnswerIsWanted ==
  ASSUME NEW a, D!Wants("AgentResultCallback", a)
  PROVE  IsAnswer(a)
<1>1. ResultCallback(1) \in Supports["AgentResultCallback"]
  BY CallbackWants, StorageReplayAssumption DEF Answers
<1>2. PICK b \in Answers : a = ResultCallback(b)
  BY <1>1, CallbackWants DEF D!Wants
<1> QED
  BY <1>2 DEF IsAnswer, ResultCallback

(* An action that it does not want is none.                                *)
LEMMA UnwantedIsNoAnswer ==
  ASSUME NEW a \in Actions, ~D!Wants("AgentResultCallback", a)
  PROVE  ~IsAnswer(a)
<1>1. a \notin {ResultCallback(b) : b \in Answers}
  BY CallbackWants DEF D!Wants
<1> QED
  BY <1>1 DEF IsAnswer, Actions, Action, UserRequest, EventStreamCall, AgentResult,
     AgentResultDone, ProcessingError, SessionClose

(* What a sequence of one element grows to.                                *)
LEMMA AppendToOne ==
  ASSUME NEW a, NEW b
  PROVE  Append(<<a>>, b) = <<a, b>>
<1>1. /\ <<a, b>> \in Seq({a, b}) /\ <<a>> \in Seq({a, b})
      /\ Len(<<a, b>>) = 2 /\ Len(<<a>>) = 1
  OBVIOUS
<1>2. /\ Append(<<a>>, b) \in Seq({a, b}) /\ Len(Append(<<a>>, b)) = 2
      /\ Append(<<a>>, b)[1] = a /\ Append(<<a>>, b)[2] = b
  BY <1>1, AppendProperties
<1>3. \A i \in 1 .. 2 : Append(<<a>>, b)[i] = <<a, b>>[i]
  BY <1>2
<1> QED
  BY <1>1, <1>2, <1>3, SeqEqual

(* What a sequence of two elements grows to.                               *)
LEMMA AppendToTwo ==
  ASSUME NEW a, NEW b, NEW c
  PROVE  Append(<<a, b>>, c) = <<a, b, c>>
<1>1. /\ <<a, b>> \in Seq({a, b, c}) /\ <<a, b, c>> \in Seq({a, b, c})
      /\ Len(<<a, b>>) = 2 /\ Len(<<a, b, c>>) = 3
  OBVIOUS
<1>2. /\ Append(<<a, b>>, c) \in Seq({a, b, c}) /\ Len(Append(<<a, b>>, c)) = 3
      /\ Append(<<a, b>>, c)[1] = a /\ Append(<<a, b>>, c)[2] = b
      /\ Append(<<a, b>>, c)[3] = c
  BY <1>1, AppendProperties
<1>3. \A i \in 1 .. 3 : Append(<<a, b>>, c)[i] = <<a, b, c>>[i]
  BY <1>2
<1> QED
  BY <1>1, <1>2, <1>3, SeqEqual

(* Every step keeps what is registered and called in shape.                *)
LEMMA ShapeStep ==
  ASSUME Shape, [Next]_vars
  PROVE  Shape'
<1> USE DEF Shape
<1>keeps. ASSUME UNCHANGED <<registered, hpc, cpc, todo, received, writing, ending, known>>
          PROVE  Shape'
  BY <1>keeps DEF D!Current
<1>1. CASE UNCHANGED vars
  BY <1>1, <1>keeps DEF vars, consumerVars, closerVars, requestVars, answerVars
<1>2. CASE ReaderStep
  BY <1>2, <1>keeps DEF ReaderStep, ReaderPushes, ReaderCloses, Push, ReaderKeeps,
     closerVars, requestVars, answerVars
<1>3. CASE ClientLeaves \/ ConnectionRead
  BY <1>3, <1>keeps DEF ClientLeaves, ConnectionRead, consumerVars, closerVars,
     requestVars, answerVars
<1>4. CASE HttpStep
  <2>1. UNCHANGED <<cpc, todo, received, writing, ending>> /\ known' \in BOOLEAN
    BY <1>4 DEF HttpStep, CreateReplaySession, Connect, BindHandlers, Serve,
       AwaitDisconnect, Return, RegisterNext, D!Register, D!consVars, consumerVars,
       closerVars, answerVars
  <2>2. CASE CreateReplaySession \/ BindHandlers
    <3>1. registered' = Append(registered, HandlerOrder[Len(registered) + 1])
      BY <2>2 DEF CreateReplaySession, BindHandlers, RegisterNext, D!Register
    <3>2. registered \in Registrations \ {HandlerOrder}
      <4>1. CASE hpc = "create"
        BY <4>1 DEF HandlerOrder
      <4>2. CASE hpc = "bind"
        BY <4>2
      <4> QED
        BY <2>2, <4>1, <4>2 DEF CreateReplaySession, BindHandlers
    <3>3. CASE registered = <<>>
      <4>1. registered' = <<"SessionCloser">>
        BY <3>1, <3>3 DEF HandlerOrder
      <4>2. hpc = "create" /\ hpc' = "connect"
        BY <2>2, <3>3 DEF CreateReplaySession, BindHandlers
      <4> QED
        BY <2>1, <4>1, <4>2 DEF Registrations, D!Current
    <3>4. CASE registered = <<"SessionCloser">>
      <4>1. registered' = <<"SessionCloser", "ServerSession">>
        <5>1. Len(registered) = 1
          BY <3>4
        <5>2. HandlerOrder[2] = "ServerSession"
          BY DEF HandlerOrder
        <5> QED
          BY <3>1, <3>4, <5>1, <5>2, AppendToOne
      <4>2. hpc' = "bind"
        BY <2>2, <3>4 DEF CreateReplaySession, BindHandlers
      <4>3. registered' # HandlerOrder
        BY <4>1 DEF HandlerOrder
      <4> QED
        BY <2>1, <4>1, <4>2, <4>3 DEF Registrations, D!Current
    <3>5. CASE registered = <<"SessionCloser", "ServerSession">>
      <4>1. registered' = HandlerOrder
        <5>1. Len(registered) = 2
          BY <3>5
        <5>2. HandlerOrder[3] = "AgentResultCallback"
          BY DEF HandlerOrder
        <5>3. registered' = Append(<<"SessionCloser", "ServerSession">>, "AgentResultCallback")
          BY <3>1, <3>5, <5>1, <5>2
        <5> QED
          BY <5>3, AppendToTwo DEF HandlerOrder
      <4>2. hpc' = "serve"
        BY <2>2, <3>5 DEF CreateReplaySession, BindHandlers
      <4> QED
        BY <2>1, <4>1, <4>2 DEF Registrations, D!Current
    <3> QED
      BY <3>2, <3>3, <3>4, <3>5 DEF Registrations
  <2>3. CASE Connect
    <3>1. hpc' = "bind" /\ registered' = <<"SessionCloser">>
      BY <2>3 DEF Connect, consumerVars
    <3>2. registered' \in Registrations \ {<<>>, HandlerOrder}
      BY <3>1 DEF Registrations, HandlerOrder
    <3> QED
      BY <2>1, <3>1, <3>2 DEF D!Current
  <2>4. CASE Serve \/ AwaitDisconnect \/ Return
    <3>1. /\ hpc \notin {"create", "connect", "bind"}
          /\ hpc' \in {"serve", "closing", "returned", "panicked"}
          /\ UNCHANGED registered
      BY <2>4 DEF Serve, AwaitDisconnect, Return, consumerVars, requestVars
    <3>2. registered' = HandlerOrder /\ registered' \in Registrations
      BY <3>1
    <3>3. UNCHANGED D!Current
      BY <2>1 DEF D!Current
    <3> QED
      BY <2>1, <3>1, <3>2, <3>3
  <2> QED
    BY <1>4, <2>2, <2>3, <2>4 DEF HttpStep
<1>5. CASE ConsumerStep
  <2>1. UNCHANGED <<registered, hpc>>
    BY <1>5, ConsumerSteps
  <2>2. CASE Consumes
    <3>1. UNCHANGED <<writing, ending, known>>
      BY <2>2, LoopSteps
    <3>2. CASE LoopGoesOn
      BY <2>1, <3>1, <3>2 DEF LoopGoesOn, Between
    <3>3. CASE Receives
      BY <2>1, <3>1, <3>3 DEF Receives
    <3>4. CASE Copies
      BY <2>1, <3>1, <3>4 DEF Copies, Pieces
    <3>5. CASE Passes
      BY <2>1, <3>1, <3>5, TailOfPiece DEF Passes
    <3> QED
      BY <2>2, <3>2, <3>3, <3>4, <3>5, LoopSteps
  <2>3. CASE IncrementTask \/ DecrementTask \/ ServerSessionHandle
    <3>1. PICK h \in {"SessionCloser", "ServerSession"} : Calls(h)
      BY <2>3, CallsHandler DEF IncrementTask, DecrementTask, ServerSessionHandle
    <3>2. UNCHANGED <<writing, ending, known>>
      BY <2>3 DEF IncrementTask, DecrementTask, ServerSessionHandle, closerVars, answerVars
    <3> QED
      BY <2>1, <3>1, <3>2 DEF Calls
  <2>4. CASE CloseActionWaits
    <3>1. /\ Calls("SessionCloser") /\ D!Current = SessionClose
          /\ ending' = known /\ UNCHANGED <<known, writing>>
      BY <2>4, CallsHandler DEF CloseActionWaits, answerVars
    <3>2. UNCHANGED D!Current /\ ~writing
      BY <3>1 DEF Calls, D!Current
    <3> QED
      BY <2>1, <3>1, <3>2 DEF Calls
  <2>5. CASE ResultCallbackHandle
    <3>1. Calls("AgentResultCallback") /\ writing' \in BOOLEAN
          /\ UNCHANGED <<ending, known>>
      BY <2>5, CallsHandler DEF ResultCallbackHandle, closerVars
    <3>2. IsAnswer(D!Current') /\ ~ending
      BY <3>1, AnswerIsWanted DEF Calls, D!Current
    <3> QED
      BY <2>1, <3>1, <3>2, TailOfPiece DEF Calls
  <2>6. CASE CloseActionCloses \/ HandlerReturns
    <3>1. Returns /\ writing' = FALSE /\ ending' = FALSE /\ known' \in BOOLEAN
      <4>1. CASE CloseActionCloses
        <5>1. /\ D!HandlerReturns /\ ending /\ ending' = FALSE /\ known' = FALSE
              /\ UNCHANGED writing
          BY <4>1 DEF CloseActionCloses, answerVars
        <5>2. ~writing
          BY <5>1 DEF IsAnswer, SessionClose, Action
        <5> QED
          BY <5>1, <5>2, HandlerReturning
      <4>2. CASE HandlerReturns
        BY <4>2, HandlerReturning DEF HandlerReturns, closerVars, answerVars
      <4> QED
        BY <2>6, <4>1, <4>2
    <3> QED
      BY <2>1, <3>1, TailOfPiece DEF Returns
  <2>7. CASE IncrementTaskCrashes
    BY <2>1, <2>7, <1>keeps DEF IncrementTaskCrashes, closerVars, answerVars
  <2>8. CASE WriteAnswer
    BY <2>1, <2>8 DEF WriteAnswer, consumerVars, closerVars, D!Current
  <2> QED
    BY <1>5, <2>2, <2>3, <2>4, <2>5, <2>6, <2>7, <2>8 DEF ConsumerStep
<1> QED
  BY <1>1, <1>2, <1>3, <1>4, <1>5 DEF Next
-----------------------------------------------------------------------------
(* The types.  A request pushes one message at most, because ServeHTTP is  *)
(* past its select once it has.                                            *)
TransportTyped ==
  /\ T!TypeOK
  /\ ppc \in {"idle", "push", "select"} => queued = 0

Typed ==
  /\ log \in Logs
  /\ Len(buf) <= BufferSize
  /\ closed \in BOOLEAN /\ ctxDone \in BOOLEAN
  /\ clientLeft \in BOOLEAN /\ ssClosed \in BOOLEAN
  /\ crashed \subseteq {"consumer"}
  /\ pending \in Nat
  /\ replies \in Seq(Answers)
  /\ reached \in 0 .. Len(log)

(* Everything has its type at the start.                                   *)
LEMMA TypedInitially == Init => TransportTyped /\ Typed
<1> SUFFICES ASSUME Init PROVE TransportTyped /\ Typed
  OBVIOUS
<1>1. TransportTyped
  <2>1. tClosed = FALSE /\ queued = 0 /\ ppc = "idle" /\ rpc = "off"
    BY DEF Init, T!Init
  <2>2. tClosed \in BOOLEAN
    BY <2>1
  <2>3. queued \in 0 .. 1
    BY <2>1
  <2> QED
    BY <2>1, <2>2, <2>3 DEF TransportTyped, T!TypeOK
<1>2. log \in Logs /\ Len(log) \in Nat
  BY StorageReplayAssumption, LenProperties DEF Init
<1>3. Len(buf) <= BufferSize
  BY StorageReplayAssumption DEF Init
<1>4. /\ closed = FALSE /\ ctxDone = FALSE /\ clientLeft = FALSE /\ ssClosed = FALSE
      /\ crashed = {} /\ pending = 0 /\ replies = <<>> /\ reached = 0
  BY DEF Init
<1>5. replies \in Seq(Answers) /\ reached \in 0 .. Len(log)
  BY <1>2, <1>4
<1> QED
  BY <1>1, <1>2, <1>3, <1>4, <1>5 DEF Typed

(* Every step keeps the types of the transport.                            *)
LEMMA TransportStep ==
  ASSUME TransportTyped, [Next]_vars
  PROVE  TransportTyped'
<1> USE DEF TransportTyped, T!TypeOK
<1>keeps. ASSUME UNCHANGED transportVars PROVE TransportTyped'
  BY <1>keeps DEF transportVars
<1>closes. ASSUME T!Close PROVE TransportTyped'
  BY <1>closes DEF T!Close
<1>1. CASE UNCHANGED vars
  BY <1>1, <1>keeps DEF vars
<1>2. CASE ReaderStep \/ ClientLeaves
  BY <1>2, <1>keeps DEF ReaderStep, ReaderPushes, ReaderCloses, Push, ReaderKeeps,
     ClientLeaves
<1>3. CASE ConnectionRead
  BY <1>3 DEF ConnectionRead, T!ReadCheck, T!ReadMessage, T!ReadFails
<1>4. CASE HttpStep
  <2>1. CASE CreateReplaySession \/ BindHandlers \/ AwaitDisconnect
    BY <2>1, <1>keeps DEF CreateReplaySession, BindHandlers, AwaitDisconnect
  <2>2. CASE Connect
    BY <2>2 DEF Connect, T!StartReader
  <2>3. CASE Serve
    BY <2>3 DEF Serve, T!ServeStep, T!ServeRefuses, T!ServeParses, T!EvaluateIncoming,
       T!PushAccepted, T!PushPanics, T!PushRefused, T!WriteAccepted
  <2>4. CASE Return
    BY <2>4, <1>closes DEF Return
  <2> QED
    BY <1>4, <2>1, <2>2, <2>3, <2>4 DEF HttpStep
<1>5. CASE ConsumerStep
  BY <1>5, <1>keeps, <1>closes DEF ConsumerStep, Consumes, IncrementTask,
     IncrementTaskCrashes, DecrementTask, CloseActionWaits, CloseActionCloses,
     ServerSessionHandle, ResultCallbackHandle, WriteAnswer, HandlerReturns
<1> QED
  BY <1>1, <1>2, <1>3, <1>4, <1>5 DEF Next

(* What the consumer holds is an action of the log; its position is one    *)
(* more than the number of the actions received.                           *)
LEMMA CurrentInLog ==
  ASSUME QueueInv, received # <<>>
  PROVE  /\ Len(received) \in Nat \ {0} /\ Len(log) \in Nat
         /\ Len(received) + 1 <= Len(log)
         /\ D!Current = log[Len(received) + 1]
         /\ D!Current \in Actions
         /\ \A i \in 1 .. Len(received) : received[i] = log[i + 1]
         /\ \A i \in 1 .. Len(received) - 1 : received[i] # SessionClose
<1>1. /\ received \in Seq(Actions) /\ buf \in Seq(Actions) /\ log \in Seq(Actions)
      /\ pushed = received \o buf /\ pushed \in Seq(Actions)
  BY DEF QueueInv
<1>2. PICK n \in Nat : n = Len(received)
  BY <1>1, LenProperties
<1>3. PICK m \in Nat : m = Len(buf)
  BY <1>1, LenProperties
<1>4. n # 0
  BY <1>1, <1>2, EmptySeq
<1>5. Len(pushed) = n + m /\ \A i \in 1 .. n : pushed[i] = received[i]
  BY <1>1, <1>2, <1>3, ConcatProperties
<1>6. pushed # <<>>
  BY <1>4, <1>5
<1>7. /\ n + m + 1 <= Len(log)
      /\ \A i \in 1 .. n + m : pushed[i] = log[i + 1]
      /\ \A i \in 1 .. n + m - 1 : pushed[i] # SessionClose
  <2>1. /\ Len(pushed) + 1 <= Len(log)
        /\ \A i \in 1 .. Len(pushed) : pushed[i] = log[i + 1]
        /\ \A i \in 1 .. Len(pushed) - 1 : pushed[i] # SessionClose
    BY <1>6 DEF QueueInv
  <2> QED
    BY <1>5, <2>1
<1>8. /\ \A i \in 1 .. n : received[i] = log[i + 1]
      /\ \A i \in 1 .. n - 1 : received[i] # SessionClose
  BY <1>5, <1>7
<1>9. received[n] \in Actions
  BY <1>1, <1>2, <1>4
<1>10. Len(log) \in Nat
  BY <1>1, LenProperties
<1> QED
  BY <1>2, <1>4, <1>7, <1>8, <1>9, <1>10 DEF D!Current

(* Every step keeps the types of the rest.                                 *)
LEMMA TypedStep ==
  ASSUME QueueInv, Shape, BindInv, Typed, [Next]_vars
  PROVE  Typed'
<1> USE DEF Typed
<1>keeps. ASSUME UNCHANGED <<log, buf, closed, ctxDone, ssClosed, crashed, pending,
                             answerVars>>,
                 clientLeft' \in BOOLEAN
          PROVE  Typed'
  BY <1>keeps DEF answerVars
<1>1. CASE UNCHANGED vars
  BY <1>1, <1>keeps DEF vars, readerVars, consumerVars, closerVars, requestVars
<1>2. CASE ReaderStep
  <2>1. /\ UNCHANGED <<log, ctxDone, clientLeft, ssClosed, crashed, pending, answerVars>>
        /\ closed' \in BOOLEAN
    BY <1>2 DEF ReaderStep, ReaderPushes, ReaderCloses, Push, ReaderKeeps, closerVars,
       requestVars
  <2>2. Len(buf') <= BufferSize
    <3>1. CASE ReaderPushes
      <4>1. /\ buf' = Append(buf, log[next]) /\ Len(buf) < BufferSize
            /\ next <= Len(log)
        BY <3>1 DEF ReaderPushes, Push
      <4>2. /\ log \in Seq(Actions) /\ buf \in Seq(Actions)
            /\ next \in Nat \ {0}
        <5>1. next = Len(pushed) + 2 /\ Len(pushed) \in Nat
          BY LenProperties DEF QueueInv
        <5> QED
          BY <5>1 DEF QueueInv
      <4>3. log[next] \in Actions
        BY <4>1, <4>2
      <4>4. Len(buf') = Len(buf) + 1 /\ Len(buf) \in Nat
        BY <4>1, <4>2, <4>3, AppendProperties, LenProperties
      <4> QED
        BY <4>1, <4>4, StorageReplayAssumption
    <3>2. CASE ReaderCloses
      BY <3>2 DEF ReaderCloses
    <3> QED
      BY <1>2, <3>1, <3>2 DEF ReaderStep
  <2> QED
    BY <2>1, <2>2 DEF answerVars
<1>3. CASE ClientLeaves \/ ConnectionRead
  BY <1>3, <1>keeps DEF ClientLeaves, ConnectionRead, readerVars, consumerVars,
     closerVars, requestVars
<1>4. CASE HttpStep
  <2>1. CASE CreateReplaySession \/ BindHandlers
    BY <2>1, <1>keeps DEF CreateReplaySession, BindHandlers, RegisterNext, D!Register,
       D!chanVars, closerVars
  <2>2. CASE Connect
    BY <2>2 DEF Connect, readerVars, consumerVars, answerVars
  <2>3. CASE Serve \/ AwaitDisconnect
    BY <2>3, <1>keeps DEF Serve, AwaitDisconnect, readerVars, consumerVars, closerVars,
       requestVars
  <2>4. CASE Return
    BY <2>4 DEF Return, readerVars, consumerVars, closerVars, answerVars
  <2> QED
    BY <1>4, <2>1, <2>2, <2>3, <2>4 DEF HttpStep
<1>5. CASE ConsumerStep
  <2>1. UNCHANGED <<log, closed, clientLeft>>
    BY <1>5, ConsumerSteps
  <2>2. Len(buf') <= BufferSize
    <3>1. CASE D!Receive
      <4>1. buf' = Tail(buf) /\ buf # <<>> /\ buf \in Seq(Actions)
        BY <3>1 DEF D!Receive, QueueInv
      <4>2. Len(buf') = Len(buf) - 1 /\ Len(buf) \in Nat
        BY <4>1, HeadTailProperties, LenProperties
      <4> QED
        BY <4>2, StorageReplayAssumption
    <3>2. CASE UNCHANGED buf
      BY <3>2
    <3> QED
      BY <1>5, <3>1, <3>2, ConsumerSteps
  <2>3. ctxDone' \in BOOLEAN
    BY <1>5 DEF ConsumerStep, Consumes, D!ConsumeCheck, D!ReceiveCheck, D!Receive,
       D!ReceiveFails, D!Snapshot, D!PassOver, D!DispatchEnds, D!ConsumerCancels,
       D!ConsumerDone, IncrementTask, IncrementTaskCrashes, DecrementTask,
       CloseActionWaits, CloseActionCloses, ServerSessionHandle, ResultCallbackHandle,
       WriteAnswer, HandlerReturns, D!HandlerReturns, Handles, D!Invoke, consumerVars
  <2>4. crashed' \subseteq {"consumer"}
    BY <1>5, LoopSteps, CallsHandler, HandlerReturning DEF ConsumerStep, IncrementTask,
       IncrementTaskCrashes, DecrementTask, CloseActionWaits, CloseActionCloses,
       ServerSessionHandle, ResultCallbackHandle, WriteAnswer, HandlerReturns, Calls,
       Returns, consumerVars
  <2>5. ssClosed' \in BOOLEAN /\ pending' \in Nat
    <3>1. CASE IncrementTask \/ DecrementTask
      BY <3>1 DEF IncrementTask, DecrementTask, requestVars
    <3>2. CASE CloseActionCloses
      BY <3>2 DEF CloseActionCloses
    <3>3. CASE ~(IncrementTask \/ DecrementTask \/ CloseActionCloses)
      BY <1>5, <3>3, LoopSteps DEF ConsumerStep, IncrementTaskCrashes, CloseActionWaits,
         ServerSessionHandle, ResultCallbackHandle, WriteAnswer, HandlerReturns,
         requestVars, closerVars
    <3> QED
      BY <3>1, <3>2, <3>3
  <2>6. replies' \in Seq(Answers) /\ reached' \in 0 .. Len(log)
    <3>1. CASE WriteAnswer
      <4>1. /\ writing
            /\ replies' = replies \/ replies' = Append(replies, D!Current.answer)
            /\ reached' = reached \/ reached' = Len(received) + 1
        BY <3>1 DEF WriteAnswer
      <4>2. received # <<>> /\ IsAnswer(D!Current)
        BY <4>1 DEF Shape, BindInv
      <4>3. D!Current \in Actions /\ Len(received) + 1 \in 0 .. Len(log)
        BY <4>2, CurrentInLog
      <4>4. D!Current.answer \in Answers
        BY <4>2, <4>3 DEF IsAnswer, Actions, Action, UserRequest, EventStreamCall,
           AgentResult, AgentResultDone, ProcessingError, SessionClose, ResultCallback
      <4>5. replies' \in Seq(Answers)
        BY <4>1, <4>4, AppendProperties
      <4>6. reached' \in 0 .. Len(log)
        BY <4>1, <4>3
      <4> QED
        BY <4>5, <4>6
    <3>2. CASE ~WriteAnswer
      BY <1>5, <3>2, LoopSteps DEF ConsumerStep, IncrementTask, IncrementTaskCrashes,
         DecrementTask, CloseActionWaits, CloseActionCloses, ServerSessionHandle,
         ResultCallbackHandle, HandlerReturns, answerVars
    <3> QED
      BY <3>1, <3>2
  <2> QED
    BY <2>1, <2>2, <2>3, <2>4, <2>5, <2>6
<1> QED
  BY <1>1, <1>2, <1>3, <1>4, <1>5 DEF Next

(* The types and the shape hold in every state.                            *)
LEMMA TypesInvariance == Spec => [](QueueInv /\ Shape /\ BindInv /\ TransportTyped /\ Typed)
<1> DEFINE Inv == QueueInv /\ Shape /\ BindInv /\ TransportTyped /\ Typed
<1>1. Init => Inv
  BY QueueInitially, ShapeInitially, BindInitially, TypedInitially
<1>2. Inv /\ [Next]_vars => Inv'
  BY QueueStep, ShapeStep, BindStep, TransportStep, TypedStep
<1> QED
  BY <1>1, <1>2, PTL DEF Spec

(* Whatever the log and the buffer, every variable has its type: the       *)
(* channel is never over its size, the request pushes one message, and no  *)
(* task is counted below none (storage.go, server.go, sse_transport.go).   *)
THEOREM ReplayTypes == Spec => []TypeOK
<1>1. QueueInv /\ Shape /\ BindInv /\ TransportTyped /\ Typed => TypeOK
  <2> SUFFICES ASSUME QueueInv, Shape, BindInv, TransportTyped, Typed PROVE TypeOK
    OBVIOUS
  <2>1. next \in 2 .. Len(log) + 2
    <3>1. PICK n \in Nat : n = Len(pushed)
      BY LenProperties DEF QueueInv
    <3>2. PICK m \in Nat : m = Len(log)
      BY LenProperties DEF QueueInv
    <3>3. n # 0 => n + 1 <= m
      BY <3>1, <3>2 DEF QueueInv
    <3> QED
      BY <3>1, <3>2, <3>3 DEF QueueInv
  <2>2. registered \in Seq(Handlers) /\ todo \in Seq(Handlers)
    <3>1. /\ "SessionCloser" \in Handlers /\ "ServerSession" \in Handlers
          /\ "AgentResultCallback" \in Handlers
      <4>1. /\ 1 \in DOMAIN HandlerOrder /\ HandlerOrder[1] = "SessionCloser"
            /\ 2 \in DOMAIN HandlerOrder /\ HandlerOrder[2] = "ServerSession"
            /\ 3 \in DOMAIN HandlerOrder /\ HandlerOrder[3] = "AgentResultCallback"
        BY DEF HandlerOrder
      <4> QED
        BY <4>1 DEF Handlers
    <3>2. Pieces \subseteq Seq(Handlers)
      BY <3>1 DEF Pieces, Registrations, CallbackLast, HandlerOrder
    <3> QED
      BY <3>2 DEF Shape, Pieces
  <2>3. cpc \in D!ConsumerAt
    BY DEF Shape, D!ConsumerAt, Between
  <2> QED
    BY <2>1, <2>2, <2>3 DEF TypeOK, QueueInv, Shape, TransportTyped, Typed
<1> QED
  BY <1>1, TypesInvariance, PTL
-----------------------------------------------------------------------------
(* SessionCloser counts what it has been handed.  It has been handed all   *)
(* actions that were received, but for the last while that one is not yet  *)
(* dispatched to it.                                                       *)
CloserIsNext == cpc = "dispatch" /\ todo # <<>> /\ Head(todo) = "SessionCloser"
Seen == IF cpc = "snapshot" \/ CloserIsNext THEN Len(received) - 1 ELSE Len(received)

(* How often a is among the first n actions that were received.            *)
Among(n, a) == Cardinality({i \in 1 .. n : received[i] = a})

(* What is pending is owed by calls without a Done; nothing is counted     *)
(* before there is a handler, and nothing below none.                      *)
PendingInv ==
  /\ pending + Among(Seen, AgentResultDone) <= Among(Seen, EventStreamCall)
  /\ hpc = "create" => pending = 0

(* The count of a beginning of what was received, and of the next action.  *)
LEMMA AmongFacts ==
  ASSUME received \in Seq(Actions), NEW n \in 0 .. Len(received), NEW a
  PROVE  /\ Among(n, a) \in Nat
         /\ received[n + 1] = a => Among(n + 1, a) = Among(n, a) + 1
         /\ received[n + 1] # a => Among(n + 1, a) = Among(n, a)
<1> DEFINE P == {i \in 1 .. n : received[i] = a}
<1>1. n \in Nat /\ Len(received) \in Nat
  BY LenProperties
<1>2. P \in SUBSET (1 .. n) /\ Among(n, a) = Cardinality(P)
  BY DEF Among
<1>3. Cardinality(P) \in Nat
  BY <1>1, <1>2, Countable
<1>4. CASE received[n + 1] = a
  <2>1. {i \in 1 .. n + 1 : received[i] = a} = P \cup {n + 1}
    BY <1>1, <1>4
  <2>2. Cardinality(P \cup {n + 1}) = Cardinality(P) + 1
    BY <1>1, <1>2, CountNext
  <2>3. Among(n + 1, a) = Cardinality(P \cup {n + 1})
    BY <2>1 DEF Among
  <2>4. Among(n + 1, a) = Among(n, a) + 1
    BY <1>2, <2>2, <2>3
  <2>5. Among(n, a) \in Nat
    BY <1>2, <1>3
  <2> QED
    BY <1>4, <2>4, <2>5
<1>5. CASE received[n + 1] # a
  <2>1. {i \in 1 .. n + 1 : received[i] = a} = P
    BY <1>1, <1>5
  <2> QED
    BY <1>2, <1>3, <1>5, <2>1 DEF Among
<1> QED
  BY <1>4, <1>5

(* No stream is done before it was called, in whatever beginning.          *)
LEMMA DonesFollowCalls ==
  ASSUME QueueInv, Typed, NEW n \in 0 .. Len(received)
  PROVE  Among(n, AgentResultDone) <= Among(n, EventStreamCall)
<1>1. received \in Seq(Actions) /\ Len(received) \in Nat /\ n \in Nat
  BY LenProperties DEF QueueInv
<1>2. CASE n = 0
  <2>1. \A a : {i \in 1 .. n : received[i] = a} = {}
    BY <1>2
  <2>2. Among(n, AgentResultDone) = Cardinality({})
        /\ Among(n, EventStreamCall) = Cardinality({})
    BY <2>1 DEF Among
  <2> QED
    BY <2>2, FS_EmptySet
<1>3. CASE n # 0
  <2>1. received # <<>>
    BY <1>1, <1>3, EmptySeq
  <2>2. /\ Len(received) + 1 <= Len(log) /\ Len(log) \in Nat
        /\ \A i \in 1 .. Len(received) : received[i] = log[i + 1]
    BY <2>1, CurrentInLog
  <2>3. n \in 1 .. Len(log) - 1
    BY <1>1, <1>3, <2>2
  <2>4. \A i \in 1 .. n : received[i] = log[i + 1]
    <3>1. \A i \in 1 .. n : i \in 1 .. Len(received)
      BY <1>1
    <3> QED
      BY <2>2, <3>1
  <2>5. \A a : Among(n, a) = Behind(log, n, a)
    <3>1. SUFFICES ASSUME NEW a PROVE Among(n, a) = Behind(log, n, a)
      OBVIOUS
    <3>2. {i \in 1 .. n : received[i] = a} = {i \in 1 .. n : log[i + 1] = a}
      BY <2>4
    <3> QED
      BY <3>2 DEF Among, Behind
  <2> QED
    BY <2>3, <2>5, StorageReplayAssumption DEF Typed
<1> QED
  BY <1>2, <1>3

(* No answer is awaited at the start.                                      *)
LEMMA PendingInitially == Init => PendingInv
<1> SUFFICES ASSUME Init PROVE PendingInv
  OBVIOUS
<1>1. Seen = 0 /\ pending = 0
  BY DEF Init, Seen, CloserIsNext
<1>2. \A a : {i \in 1 .. Seen : received[i] = a} = {}
  BY <1>1
<1>3. \A a : Among(Seen, a) = 0
  BY <1>2, FS_EmptySet DEF Among
<1> QED
  BY <1>1, <1>3 DEF PendingInv

(* Where the closer is in what was received.                               *)
LEMMA SeenBounds ==
  ASSUME QueueInv, Shape, BindInv
  PROVE  /\ received \in Seq(Actions) /\ Len(received) \in Nat
         /\ Seen \in 0 .. Len(received)
         /\ cpc \in {"snapshot", "dispatch", "handling"} => Len(received) # 0
<1>1. received \in Seq(Actions) /\ Len(received) \in Nat
  BY LenProperties DEF QueueInv
<1>2. cpc \in {"snapshot", "dispatch", "handling"} => Len(received) # 0
  BY <1>1, EmptySeq DEF BindInv
<1> QED
  BY <1>1, <1>2 DEF Seen, CloserIsNext
(* Every step keeps the awaited answers among those of the log.            *)
LEMMA PendingStep ==
  ASSUME QueueInv, Shape, BindInv, Typed, PendingInv, [Next]_vars
  PROVE  PendingInv'
<1> DEFINE n == Len(received)
           Call == EventStreamCall
           Done == AgentResultDone
<1>0. /\ received \in Seq(Actions) /\ n \in Nat /\ Seen \in 0 .. n /\ pending \in Nat
      /\ cpc \in {"snapshot", "dispatch", "handling"} => n # 0
  BY SeenBounds DEF Typed
<1>a. /\ pending + Among(Seen, Done) <= Among(Seen, Call)
      /\ hpc = "create" => pending = 0
  BY DEF PendingInv
<1>different. Call # Done /\ SessionClose # Call /\ SessionClose # Done
              /\ AgentResult # Call /\ AgentResult # Done
  BY DEF EventStreamCall, AgentResultDone, SessionClose, AgentResult, Action
<1>same. ASSUME UNCHANGED <<received, pending>>, Seen' = Seen,
                hpc' = "create" => hpc = "create"
         PROVE  PendingInv'
  BY <1>a, <1>same DEF PendingInv, Among
<1>keeps. ASSUME UNCHANGED <<cpc, todo, received, pending>>,
                 hpc' = "create" => hpc = "create"
          PROVE  PendingInv'
  BY <1>keeps, <1>same DEF Seen, CloserIsNext
(* Nothing is pending: a Done of each beginning has its call.              *)
<1>none. ASSUME pending' = 0, UNCHANGED received, Seen' \in 0 .. n
         PROVE  PendingInv'
  <2>1. PICK m \in 0 .. n : m = Seen'
    BY <1>none
  <2>2. Among(m, Done) <= Among(m, Call) /\ Among(m, Done) \in Nat
    BY <1>0, DonesFollowCalls, AmongFacts
  <2>3. Among(Seen, Done)' = Among(m, Done) /\ Among(Seen, Call)' = Among(m, Call)
    BY <1>none, <2>1 DEF Among
  <2> QED
    BY <1>none, <2>2, <2>3 DEF PendingInv
(* The closer is handed the last action that was received, or passed over. *)
<1>handed. ASSUME CloserIsNext, UNCHANGED <<received, hpc>>, Seen' = n,
                  \/ received[n] \notin {Call, Done} /\ pending' = pending
                  \/ received[n] = Call /\ pending' = pending + 1
                  \/ received[n] = Done /\ pending' = pending - 1
                  \/ received[n] = Done /\ pending' = 0 /\ pending = 0
           PROVE  PendingInv'
  <2>1. Seen = n - 1 /\ n # 0
    BY <1>0, <1>handed DEF Seen, CloserIsNext
  <2>2. PICK m \in 0 .. n : m = n - 1 /\ m + 1 = n
    BY <1>0, <2>1
  <2>3. \A x : Among(Seen, x)' = Among(n, x)
    BY <1>handed DEF Among
  <2>4. \A x : /\ Among(m, x) \in Nat
               /\ received[n] = x => Among(n, x) = Among(m, x) + 1
               /\ received[n] # x => Among(n, x) = Among(m, x)
    BY <1>0, <2>2, AmongFacts
  <2>5. pending + Among(m, Done) <= Among(m, Call)
    BY <1>a, <2>1, <2>2
  <2>6. PICK d \in Nat : d = Among(m, Done)
    BY <2>4
  <2>7. PICK c \in Nat : c = Among(m, Call)
    BY <2>4
  <2>8. hpc' = "create" => pending' = 0
    <3>1. hpc # "create"
      <4>1. todo # <<>>
        BY <1>handed DEF CloserIsNext
      <4> QED
        BY <4>1 DEF BindInv
    <3> QED
      BY <1>handed, <3>1
  <2>9. CASE received[n] \notin {Call, Done} /\ pending' = pending
    BY <2>3, <2>4, <2>5, <2>8, <2>9 DEF PendingInv
  <2>10. CASE received[n] = Call /\ pending' = pending + 1
    <3>1. Among(n, Call) = c + 1 /\ Among(n, Done) = d /\ pending + d <= c
      BY <1>different, <2>4, <2>5, <2>6, <2>7, <2>10
    <3>2. pending + 1 + d <= c + 1
      BY <1>0, <3>1
    <3> QED
      BY <2>3, <2>8, <2>10, <3>1, <3>2 DEF PendingInv
  <2>11. CASE received[n] = Done /\ pending' = pending - 1
    <3>1. Among(n, Call) = c /\ Among(n, Done) = d + 1 /\ pending + d <= c
      BY <1>different, <2>4, <2>5, <2>6, <2>7, <2>11
    <3>2. pending - 1 + (d + 1) <= c
      BY <1>0, <3>1
    <3> QED
      BY <2>3, <2>8, <2>11, <3>1, <3>2 DEF PendingInv
  <2>12. CASE received[n] = Done /\ pending' = 0 /\ pending = 0
    BY <1>0, <1>none, <1>handed, <2>12
  <2> QED
    BY <1>handed, <2>9, <2>10, <2>11, <2>12
<1>1. CASE UNCHANGED vars
  BY <1>1, <1>keeps DEF vars, consumerVars, closerVars, requestVars
<1>2. CASE ReaderStep
  BY <1>2, <1>keeps DEF ReaderStep, ReaderPushes, ReaderCloses, Push, ReaderKeeps,
     closerVars, requestVars
<1>3. CASE ClientLeaves \/ ConnectionRead
  BY <1>3, <1>keeps DEF ClientLeaves, ConnectionRead, consumerVars, closerVars, requestVars
<1>4. CASE HttpStep
  <2>1. UNCHANGED <<cpc, todo, received>> /\ hpc' # "create"
    BY <1>4 DEF HttpStep, CreateReplaySession, Connect, BindHandlers, Serve,
       AwaitDisconnect, Return, RegisterNext, D!Register, D!consVars, consumerVars,
       requestVars
  <2>2. CASE Connect
    <3>1. pending' = 0 /\ Seen' = Seen
      BY <2>1, <2>2 DEF Connect, Seen, CloserIsNext
    <3> QED
      BY <1>0, <1>none, <2>1, <3>1
  <2>3. CASE ~Connect
    BY <1>4, <1>keeps, <2>1, <2>3 DEF HttpStep, CreateReplaySession, BindHandlers, Serve,
       AwaitDisconnect, Return, closerVars
  <2> QED
    BY <2>2, <2>3
<1>5. CASE ConsumerStep
  <2>0. UNCHANGED hpc
    BY <1>5, ConsumerSteps
  <2>1. CASE Consumes
    <3>0. UNCHANGED pending
      BY <2>1, LoopSteps
    <3>1. CASE LoopGoesOn
      <4>1. Seen' = Seen
        BY <3>1 DEF LoopGoesOn, Between, Seen, CloserIsNext
      <4> QED
        BY <1>same, <2>0, <3>0, <3>1, <4>1 DEF LoopGoesOn
    <3>2. CASE Receives
      <4>1. buf \in Seq(Actions) /\ buf # <<>>
        BY <3>2 DEF Receives, QueueInv
      <4>2. Head(buf) \in Actions
        BY <4>1, HeadTailProperties
      <4>3. /\ Len(received') = n + 1
            /\ \A i \in 1 .. n : received'[i] = received[i]
        BY <1>0, <3>2, <4>2, AppendProperties DEF Receives
      <4>4. Seen = n /\ Seen' = n
        BY <1>0, <3>2, <4>3 DEF Receives, Seen, CloserIsNext
      <4>5. \A x : {i \in 1 .. n : received'[i] = x} = {i \in 1 .. n : received[i] = x}
        BY <4>3
      <4>6. \A x : Among(Seen, x)' = Among(Seen, x)
        BY <4>4, <4>5 DEF Among
      <4> QED
        BY <1>a, <2>0, <3>0, <4>6 DEF PendingInv
    <3>3. CASE Copies
      <4>1. Seen = n - 1 /\ n # 0 /\ cpc' = "dispatch" /\ todo' = registered
            /\ UNCHANGED received
        BY <1>0, <3>3 DEF Copies, Seen
      <4>2. CASE registered = <<>>
        <5>1. hpc = "create"
          BY <4>2 DEF Shape, HandlerOrder
        <5>2. Seen' = n
          BY <4>1, <4>2 DEF Seen, CloserIsNext
        <5> QED
          BY <1>0, <1>a, <1>none, <3>0, <4>1, <5>1, <5>2
      <4>3. CASE registered # <<>>
        <5>1. Head(registered) = "SessionCloser"
          BY <4>3 DEF Shape, Registrations, HandlerOrder
        <5>2. Seen' = n - 1
          BY <4>1, <4>3, <5>1 DEF Seen, CloserIsNext
        <5> QED
          BY <1>same, <2>0, <3>0, <4>1, <5>2
      <4> QED
        BY <4>2, <4>3
    <3>4. CASE Passes
      <4>1. /\ cpc = "dispatch" /\ cpc' = "dispatch" /\ todo # <<>>
            /\ ~D!Wants(Head(todo), D!Current) /\ todo' = Tail(todo) /\ UNCHANGED received
        BY <3>4 DEF Passes
      <4>2. Seen' = n
        BY <4>1, TailOfPiece DEF Seen, CloserIsNext, Shape
      <4>3. CASE CloserIsNext
        <5>1. received[n] \notin Supports["SessionCloser"]
          BY <4>1, <4>3 DEF CloserIsNext, D!Wants, D!Current
        <5>2. {Call, Done} \subseteq Supports["SessionCloser"]
          <6>1. "SessionCloser" \in Handlers
            BY <4>1, <4>3, TailOfPiece DEF Shape, CloserIsNext
          <6> QED
            BY <6>1 DEF Supports
        <5> QED
          BY <1>handed, <2>0, <3>0, <4>1, <4>2, <4>3, <5>1, <5>2
      <4>4. CASE ~CloserIsNext
        <5>1. Seen = n
          BY <4>1, <4>4 DEF Seen
        <5> QED
          BY <1>same, <2>0, <3>0, <4>1, <4>2, <5>1
      <4> QED
        BY <4>3, <4>4
    <3> QED
      BY <2>1, <3>1, <3>2, <3>3, <3>4, LoopSteps
  <2>2. CASE IncrementTask \/ DecrementTask \/ CloseActionWaits
    <3>1. Calls("SessionCloser")
      BY <2>2, CallsHandler DEF IncrementTask, DecrementTask, CloseActionWaits
    <3>2. CloserIsNext /\ Seen' = n /\ UNCHANGED received
      BY <3>1 DEF Calls, CloserIsNext, Seen
    <3>3. CASE IncrementTask
      <4>1. received[n] = Call /\ pending' = pending + 1
        BY <3>3 DEF IncrementTask, D!Current
      <4> QED
        BY <1>handed, <2>0, <3>2, <4>1
    <3>4. CASE DecrementTask
      <4>1. /\ received[n] \in {AgentResult, Done}
            /\ pending' = IF received[n] = Done /\ pending > 0 THEN pending - 1 ELSE pending
        BY <3>4 DEF DecrementTask, D!Current
      <4>2. CASE received[n] = AgentResult
        BY <1>handed, <1>different, <2>0, <3>2, <4>1, <4>2
      <4>3. CASE received[n] = Done
        <5>1. CASE pending > 0
          <6>1. pending' = pending - 1
            BY <4>1, <4>3, <5>1
          <6> QED
            BY <1>handed, <2>0, <3>2, <4>3, <6>1
        <5>2. CASE pending = 0
          BY <1>handed, <2>0, <3>2, <4>1, <4>3, <5>2
        <5> QED
          BY <1>0, <5>1, <5>2
      <4> QED
        BY <4>1, <4>2, <4>3
    <3>5. CASE CloseActionWaits
      BY <1>handed, <1>different, <2>0, <3>2, <3>5 DEF CloseActionWaits, D!Current
    <3> QED
      BY <2>2, <3>3, <3>4, <3>5
  <2>3. CASE ServerSessionHandle \/ ResultCallbackHandle
    <3>1. PICK h \in {"ServerSession", "AgentResultCallback"} : Calls(h)
      BY <2>3, CallsHandler DEF ServerSessionHandle, ResultCallbackHandle
    <3>2. Seen = n /\ Seen' = n /\ UNCHANGED received
      BY <3>1 DEF Calls, CloserIsNext, Seen
    <3>3. UNCHANGED pending
      BY <2>3 DEF ServerSessionHandle, ResultCallbackHandle, closerVars
    <3> QED
      BY <1>same, <2>0, <3>2, <3>3
  <2>4. CASE CloseActionCloses \/ HandlerReturns
    <3>1. Returns /\ (pending' = 0 \/ UNCHANGED pending)
      BY <2>4, HandlerReturning DEF CloseActionCloses, HandlerReturns, closerVars
    <3>2. Seen = n /\ Seen' = n /\ UNCHANGED received
      BY <3>1, TailOfPiece DEF Returns, CloserIsNext, Seen, Shape
    <3> QED
      BY <1>0, <1>none, <1>same, <2>0, <3>1, <3>2
  <2>5. CASE IncrementTaskCrashes \/ WriteAnswer
    BY <1>keeps, <2>0, <2>5 DEF IncrementTaskCrashes, WriteAnswer, consumerVars, closerVars
  <2> QED
    BY <1>5, <2>1, <2>2, <2>3, <2>4, <2>5 DEF ConsumerStep
<1> QED
  BY <1>1, <1>2, <1>3, <1>4, <1>5 DEF Next

(* Whatever the log and the buffer, the consumer waits for tasks in        *)
(* handleCloseAction only if it was handed more calls of a stream than     *)
(* Dones (server.go, handleCloseAction).                                   *)
THEOREM WaitsForAbandoned == Spec => []WaitsOnlyForAbandoned
<1> DEFINE Inv == QueueInv /\ Shape /\ BindInv /\ Typed
<1>1. Inv /\ PendingInv /\ [Next]_vars => PendingInv'
  BY PendingStep
<1>2. Inv /\ PendingInv => WaitsOnlyForAbandoned
  <2> SUFFICES ASSUME Inv, PendingInv, ending, pending > 0
               PROVE  Count(EventStreamCall) > Count(AgentResultDone)
    BY DEF WaitsOnlyForAbandoned
  <2>1. Seen = Len(received)
    BY DEF Shape, Seen, CloserIsNext
  <2>2. received \in Seq(Actions) /\ Len(received) \in Nat /\ pending \in Nat
    BY LenProperties DEF QueueInv, Typed
  <2>3. \A a : Count(a) = Among(Len(received), a)
    <3>1. DOMAIN received = 1 .. Len(received)
      BY <2>2, LenProperties
    <3> QED
      BY <3>1 DEF Count, Among
  <2>4. Among(Len(received), AgentResultDone) \in Nat
        /\ Among(Len(received), EventStreamCall) \in Nat
    BY <2>2, AmongFacts
  <2> QED
    BY <2>1, <2>2, <2>3, <2>4 DEF PendingInv
<1> QED
  BY TypesInvariance, PendingInitially, <1>1, <1>2, PTL DEF Spec
-----------------------------------------------------------------------------
(* The refinement of LogReplay.  Why the connection is closed.             *)
ClosedInv ==
  /\ ppc = "panicked" => tClosed
  /\ hpc = "closing" => clientLeft \/ tClosed
  /\ ssClosed => tClosed
  /\ tClosed => clientLeft \/ CloseReceived

(* The callback handler is through with the last action that was received. *)
CallbackDone ==
  /\ cpc # "snapshot"
  /\ todo # <<>> => /\ cpc = "handling" /\ ~writing
                    /\ Head(todo) = "AgentResultCallback"

(* Once an answer was given, every copy ends with the callback handler;    *)
(* while the client is there, no answer is passed over any more.           *)
AnswerInv ==
  /\ todo \in CallbackLast => registered = HandlerOrder
  /\ reached > 0 => registered = HandlerOrder /\ todo \in CallbackLast \cup {<<>>}
  /\ reached <= Len(received) + 1
  /\ received # <<>> /\ ~CallbackDone => reached <= Len(received)
  /\ reached > 0 /\ ~clientLeft /\ ~tClosed =>
       \A j \in 2 .. Len(received) + 1 :
         IsAnswer(log[j]) /\ (j = Len(received) + 1 => CallbackDone) => j <= reached

(* A close is the last action that is received.                            *)
LEMMA CloseIsLast ==
  ASSUME QueueInv, CloseReceived
  PROVE  received # <<>> /\ D!Current = SessionClose /\ ~Receives
<1>1. PICK i \in 1 .. Len(received) : received[i] = SessionClose
  BY DEF CloseReceived
<1>2. /\ received \in Seq(Actions) /\ buf \in Seq(Actions)
      /\ Len(received) \in Nat /\ Len(buf) \in Nat
      /\ pushed = received \o buf
  BY LenProperties DEF QueueInv
<1>3. Len(pushed) = Len(received) + Len(buf) /\ pushed[i] = received[i]
  BY <1>1, <1>2, ConcatProperties
<1>4. i = Len(received) /\ Len(buf) = 0
  BY <1>1, <1>2, <1>3 DEF QueueInv
<1> QED
  BY <1>1, <1>2, <1>4, EmptySeq DEF D!Current, Receives

(* Nothing is closed at the start.                                         *)
LEMMA ClosedInitially == Init => ClosedInv
BY DEF Init, ClosedInv, T!Init

(* Every step keeps a closed replay one that handled its close.            *)
LEMMA ClosedStep ==
  ASSUME QueueInv, Shape, BindInv, ClosedInv, [Next]_vars
  PROVE  ClosedInv'
<1> USE DEF ClosedInv
<1>received. CloseReceived => CloseReceived'
  <2>1. CASE UNCHANGED received
    BY <2>1 DEF CloseReceived
  <2>2. CASE D!Receive
    <3>1. buf # <<>> /\ buf \in Seq(Actions) /\ received' = Append(received, Head(buf))
          /\ received \in Seq(Actions)
      BY <2>2 DEF D!Receive, QueueInv
    <3>2. Head(buf) \in Actions /\ Len(received) \in Nat
      BY <3>1, HeadTailProperties, LenProperties
    <3>3. Len(received') = Len(received) + 1
          /\ \A i \in 1 .. Len(received) : received'[i] = received[i]
      BY <3>1, <3>2, AppendProperties
    <3> QED
      BY <3>2, <3>3 DEF CloseReceived
  <2>3. UNCHANGED received \/ D!Receive
    BY QueueSteps DEF ReaderPushes, ReaderCloses, Push, ReaderKeeps, queueVars
  <2> QED
    BY <2>1, <2>2, <2>3
<1>keeps. ASSUME UNCHANGED <<tClosed, ppc, hpc, ssClosed>>, clientLeft => clientLeft'
          PROVE  ClosedInv'
  BY <1>keeps, <1>received
<1>1. CASE UNCHANGED vars
  BY <1>1, <1>keeps DEF vars, transportVars, requestVars
<1>2. CASE ReaderStep
  BY <1>2, <1>keeps DEF ReaderStep, ReaderPushes, ReaderCloses, Push, ReaderKeeps,
     transportVars, requestVars
<1>3. CASE ClientLeaves
  BY <1>3, <1>keeps DEF ClientLeaves, transportVars
<1>4. CASE ConnectionRead
  BY <1>4, <1>keeps DEF ConnectionRead, requestVars, T!ReadCheck, T!ReadMessage, T!ReadFails
<1>5. CASE HttpStep
  <2>1. CASE CreateReplaySession \/ Connect \/ BindHandlers
    BY <1>received, <2>1 DEF CreateReplaySession, Connect, BindHandlers, transportVars,
       T!StartReader
  <2>2. CASE Serve
    BY <1>received, <2>2 DEF Serve, requestVars, T!ServeStep, T!ServeRefuses,
       T!ServeParses, T!EvaluateIncoming, T!PushAccepted, T!PushPanics, T!PushRefused,
       T!WriteAccepted
  <2>3. CASE AwaitDisconnect
    BY <1>received, <2>3 DEF AwaitDisconnect, transportVars
  <2>4. CASE Return
    BY <1>received, <2>4 DEF Return, T!Close
  <2> QED
    BY <1>5, <2>1, <2>2, <2>3, <2>4 DEF HttpStep
<1>6. CASE ConsumerStep
  <2>1. UNCHANGED <<hpc, clientLeft>>
    BY <1>6, ConsumerSteps
  <2>2. CASE CloseActionCloses
    <3>1. CloseReceived
      BY <2>2 DEF CloseActionCloses, BindInv
    <3>2. /\ ssClosed' = TRUE /\ UNCHANGED ppc
          /\ tClosed' = TRUE
      BY <2>2 DEF CloseActionCloses, transportVars, T!Close
    <3> QED
      BY <1>received, <2>1, <3>1, <3>2
  <2>3. CASE ~CloseActionCloses
    BY <1>6, <1>keeps, <2>1, <2>3, LoopSteps DEF ConsumerStep, IncrementTask,
       IncrementTaskCrashes, DecrementTask, CloseActionWaits, ServerSessionHandle,
       ResultCallbackHandle, WriteAnswer, HandlerReturns, requestVars, transportVars
  <2> QED
    BY <2>2, <2>3
<1> QED
  BY <1>1, <1>2, <1>3, <1>4, <1>5, <1>6 DEF Next

(* Nothing is answered at the start.                                       *)
LEMMA AnswerInitially == Init => AnswerInv
<1> SUFFICES ASSUME Init PROVE AnswerInv
  OBVIOUS
<1>1. received = <<>> /\ todo = <<>> /\ reached = 0
  BY DEF Init
<1>2. todo \notin CallbackLast
  BY <1>1 DEF CallbackLast, HandlerOrder
<1> QED
  BY <1>1, <1>2 DEF AnswerInv

(* Every step keeps the answers a selection of what was reached.           *)
LEMMA AnswerStep ==
  ASSUME QueueInv, Shape, BindInv, Typed, ClosedInv, AnswerInv, [Next]_vars
  PROVE  AnswerInv'
<1> DEFINE n == Len(received)
<1>0. /\ received \in Seq(Actions) /\ n \in Nat /\ reached \in Nat
      /\ cpc \in {"snapshot", "dispatch", "handling"} => received # <<>>
  BY LenProperties DEF QueueInv, BindInv, Typed
(* The callback handler gets no further, or what it had before it was no   *)
(* answer.                                                                 *)
<1>stays. ASSUME UNCHANGED <<log, received, reached, registered>>,
                 clientLeft => clientLeft', tClosed => tClosed',
                 CallbackDone => CallbackDone',
                 CallbackDone' => \/ CallbackDone
                                  \/ tClosed' \/ reached = 0
                                  \/ received # <<>> /\ ~IsAnswer(D!Current),
                 todo' \in CallbackLast => todo \in CallbackLast \/ registered = HandlerOrder,
                 reached > 0 => todo' \in CallbackLast \cup {<<>>}
          PROVE  AnswerInv'
  <2>1. CASE reached > 0 /\ ~clientLeft' /\ ~tClosed'
    <3>1. \A j \in 2 .. n + 1 :
            IsAnswer(log[j]) /\ (j = n + 1 => CallbackDone') => j <= reached
      <4>1. SUFFICES ASSUME NEW j \in 2 .. n + 1, IsAnswer(log[j]),
                            j = n + 1 => CallbackDone'
                     PROVE  j <= reached
        OBVIOUS
      <4>2. \A i \in 2 .. n + 1 :
              IsAnswer(log[i]) /\ (i = n + 1 => CallbackDone) => i <= reached
        BY <1>stays, <2>1 DEF AnswerInv
      <4>3. CASE j # n + 1 \/ CallbackDone
        BY <4>1, <4>2, <4>3
      <4>4. CASE j = n + 1 /\ ~CallbackDone
        <5>1. received # <<>> /\ ~IsAnswer(D!Current)
          BY <1>stays, <2>1, <4>1, <4>4
        <5>2. D!Current = log[j]
          BY <4>4, <5>1, CurrentInLog
        <5> QED
          BY <4>1, <5>1, <5>2
      <4> QED
        BY <4>3, <4>4
    <3> QED
      BY <1>stays, <2>1, <3>1 DEF AnswerInv
  <2>2. CASE ~(reached > 0 /\ ~clientLeft' /\ ~tClosed')
    BY <1>stays, <2>2 DEF AnswerInv
  <2> QED
    BY <2>1, <2>2
<1>keeps. ASSUME UNCHANGED <<log, received, reached, registered, cpc, todo, writing>>,
                 clientLeft => clientLeft', tClosed => tClosed'
          PROVE  AnswerInv'
  <2>1. CallbackDone' <=> CallbackDone
    BY <1>keeps DEF CallbackDone
  <2> QED
    BY <1>keeps, <1>stays, <2>1 DEF AnswerInv
<1>1. CASE UNCHANGED vars
  BY <1>1, <1>keeps DEF vars, readerVars, consumerVars, transportVars, requestVars, answerVars
<1>2. CASE ReaderStep
  BY <1>2, <1>keeps DEF ReaderStep, ReaderPushes, ReaderCloses, Push, ReaderKeeps,
     transportVars, requestVars, answerVars
<1>3. CASE ClientLeaves
  BY <1>3, <1>keeps DEF ClientLeaves, readerVars, consumerVars, transportVars, answerVars
<1>4. CASE ConnectionRead
  BY <1>4, <1>keeps DEF ConnectionRead, readerVars, consumerVars, requestVars, answerVars,
     T!ReadCheck, T!ReadMessage, T!ReadFails
<1>5. CASE HttpStep
  <2>1. UNCHANGED <<log, received, reached, cpc, todo, writing, clientLeft>>
    BY <1>5 DEF HttpStep, CreateReplaySession, Connect, BindHandlers, Serve,
       AwaitDisconnect, Return, RegisterNext, D!Register, D!chanVars, D!consVars,
       readerVars, consumerVars, requestVars, answerVars
  <2>2. CASE CreateReplaySession \/ BindHandlers
    <3>1. UNCHANGED tClosed
      BY <2>2 DEF CreateReplaySession, BindHandlers, transportVars
    <3>2. registered # HandlerOrder
      BY <2>2 DEF CreateReplaySession, BindHandlers, Shape, HandlerOrder
    <3>3. reached = 0 /\ todo \notin CallbackLast
      BY <1>0, <3>2 DEF AnswerInv
    <3>4. CallbackDone' <=> CallbackDone
      BY <2>1 DEF CallbackDone
    <3> QED
      BY <2>1, <3>1, <3>3, <3>4 DEF AnswerInv
  <2>3. CASE Connect \/ Serve \/ AwaitDisconnect \/ Return
    <3>1. UNCHANGED registered /\ (tClosed => tClosed')
      BY <2>3 DEF Connect, Serve, AwaitDisconnect, Return, consumerVars, transportVars,
         T!StartReader, T!ServeStep, T!ServeRefuses, T!ServeParses, T!EvaluateIncoming,
         T!PushAccepted, T!PushPanics, T!PushRefused, T!WriteAccepted, T!Close
    <3> QED
      BY <1>keeps, <2>1, <3>1
  <2> QED
    BY <1>5, <2>2, <2>3 DEF HttpStep
<1>6. CASE ConsumerStep
  <2>0. UNCHANGED <<log, registered, clientLeft>>
    BY <1>6, ConsumerSteps
  <2>1. CASE Consumes
    <3>0. UNCHANGED <<reached, writing, tClosed>>
      BY <2>1, LoopSteps
    <3>1. CASE LoopGoesOn
      <4>1. CallbackDone /\ CallbackDone'
        BY <3>1 DEF LoopGoesOn, Between, CallbackDone, Shape
      <4> QED
        BY <1>stays, <2>0, <3>0, <3>1, <4>1 DEF LoopGoesOn, AnswerInv
    <3>2. CASE Receives
      <4>1. buf \in Seq(Actions) /\ buf # <<>>
        BY <3>2 DEF Receives, QueueInv
      <4>2. Head(buf) \in Actions
        BY <4>1, HeadTailProperties
      <4>3. Len(received') = n + 1 /\ UNCHANGED todo
        BY <1>0, <3>2, <4>2, AppendProperties DEF Receives
      <4>4. CallbackDone /\ ~CallbackDone'
        BY <3>2 DEF Receives, CallbackDone, Shape
      <4>5. reached > 0 /\ ~clientLeft /\ ~tClosed =>
              \A j \in 2 .. n + 1 : IsAnswer(log[j]) => j <= reached
        BY <4>4 DEF AnswerInv
      <4>6. reached > 0 /\ ~clientLeft /\ ~tClosed =>
              \A j \in 2 .. n + 2 :
                IsAnswer(log[j]) /\ (j = n + 2 => CallbackDone') => j <= reached
        BY <1>0, <4>4, <4>5
      <4>7. reached <= n + 1
        BY DEF AnswerInv
      <4> QED
        BY <1>0, <2>0, <3>0, <4>3, <4>4, <4>6, <4>7 DEF AnswerInv
    <3>3. CASE Copies
      <4>1. /\ cpc = "snapshot" /\ cpc' = "dispatch" /\ todo' = registered
            /\ UNCHANGED received
        BY <3>3 DEF Copies
      <4>2. ~CallbackDone
        BY <4>1 DEF CallbackDone
      <4>3. registered = HandlerOrder => ~CallbackDone' /\ todo' \in CallbackLast
        BY <4>1 DEF CallbackDone, HandlerOrder, CallbackLast
      <4>4. todo' \in CallbackLast => registered = HandlerOrder
        BY <4>1 DEF Shape, Registrations, CallbackLast, HandlerOrder
      <4>5. reached > 0 => registered = HandlerOrder
        BY DEF AnswerInv
      <4> QED
        BY <1>0, <1>stays, <2>0, <3>0, <4>1, <4>2, <4>3, <4>4, <4>5
    <3>4. CASE Passes
      <4>1. /\ cpc = "dispatch" /\ cpc' = "dispatch" /\ todo # <<>>
            /\ ~D!Wants(Head(todo), D!Current) /\ todo' = Tail(todo) /\ UNCHANGED received
        BY <3>4 DEF Passes
      <4>2. ~CallbackDone
        BY <4>1 DEF CallbackDone
      <4>3. todo \in Pieces
        BY DEF Shape
      <4>4. CASE Head(todo) = "AgentResultCallback"
        <5>1. ~IsAnswer(D!Current)
          BY <4>1, <4>4, UnwantedIsNoAnswer, <1>0, CurrentInLog
        <5>2. todo' = <<>>
          BY <4>1, <4>3, <4>4, TailOfPiece
        <5>3. todo' \notin CallbackLast
          BY <5>2 DEF CallbackLast, HandlerOrder
        <5> QED
          BY <1>0, <1>stays, <2>0, <3>0, <4>1, <4>2, <5>1, <5>2, <5>3
      <4>5. CASE Head(todo) # "AgentResultCallback"
        <5>1. todo \in CallbackLast => todo' \in CallbackLast
          BY <4>1, <4>3, <4>5, TailOfPiece
        <5>2. <<>> \notin CallbackLast
          BY DEF CallbackLast, HandlerOrder
        <5>3. reached > 0 => todo \in CallbackLast
          BY <4>1 DEF AnswerInv
        <5>4. reached > 0 => ~CallbackDone'
          BY <4>1, <5>1, <5>2, <5>3 DEF CallbackDone
        <5>5. todo' \in CallbackLast => todo \in CallbackLast
          BY <4>1, <4>3, TailOfPiece
        <5> QED
          BY <1>0, <1>stays, <2>0, <3>0, <4>1, <4>2, <5>1, <5>3, <5>4, <5>5
      <4> QED
        BY <4>4, <4>5
    <3> QED
      BY <2>1, <3>1, <3>2, <3>3, <3>4, LoopSteps
  <2>2. CASE IncrementTask \/ DecrementTask \/ CloseActionWaits \/ ServerSessionHandle
    <3>1. PICK h \in {"SessionCloser", "ServerSession"} : Calls(h)
      BY <2>2, CallsHandler DEF IncrementTask, DecrementTask, CloseActionWaits,
         ServerSessionHandle
    <3>2. UNCHANGED <<reached, writing, tClosed>>
      BY <2>2 DEF IncrementTask, DecrementTask, CloseActionWaits, ServerSessionHandle,
         transportVars, answerVars
    <3>3. ~CallbackDone /\ ~CallbackDone'
      BY <3>1 DEF Calls, CallbackDone
    <3> QED
      BY <1>stays, <2>0, <3>1, <3>2, <3>3 DEF Calls, AnswerInv
  <2>3. CASE ResultCallbackHandle
    <3>1. Calls("AgentResultCallback")
      BY <2>3, CallsHandler DEF ResultCallbackHandle
    <3>2. writing' = ~ssClosed /\ UNCHANGED <<reached, tClosed>>
      BY <2>3 DEF ResultCallbackHandle, transportVars
    <3>3. ~CallbackDone /\ (CallbackDone' => tClosed')
      BY <3>1, <3>2 DEF Calls, CallbackDone, ClosedInv
    <3> QED
      BY <1>stays, <2>0, <3>1, <3>2, <3>3 DEF Calls, AnswerInv
  <2>4. CASE IncrementTaskCrashes
    BY <1>keeps, <2>0, <2>4 DEF IncrementTaskCrashes, readerVars, transportVars, answerVars
  <2>5. CASE CloseActionCloses \/ HandlerReturns
    <3>1. /\ Returns /\ UNCHANGED <<reached, writing>> /\ (tClosed => tClosed')
          /\ Head(todo) = "AgentResultCallback" => ~writing
      BY <2>5, HandlerReturning DEF CloseActionCloses, HandlerReturns, transportVars,
         T!Close, answerVars, Shape
    <3>2. /\ cpc = "handling" /\ cpc' = "dispatch" /\ todo' = Tail(todo)
          /\ todo # <<>> /\ todo \in Pieces /\ UNCHANGED received
      BY <3>1 DEF Returns, Shape
    <3>3. CallbackDone <=> Head(todo) = "AgentResultCallback"
      BY <3>1, <3>2 DEF CallbackDone
    <3>4. CallbackDone' <=> todo' = <<>>
      BY <3>2 DEF CallbackDone
    <3>5. <<>> \notin CallbackLast
      BY DEF CallbackLast, HandlerOrder
    <3>6. todo' \in CallbackLast => todo \in CallbackLast
      BY <3>2, TailOfPiece
    <3>7. CASE Head(todo) = "AgentResultCallback"
      <4>1. todo' = <<>>
        BY <3>2, <3>7, TailOfPiece
      <4> QED
        BY <1>stays, <2>0, <3>1, <3>2, <3>3, <3>4, <3>6, <3>7, <4>1
    <3>8. CASE Head(todo) # "AgentResultCallback"
      <4>1. reached > 0 => todo \in CallbackLast
        BY <3>2 DEF AnswerInv
      <4>2. reached > 0 => todo' \in CallbackLast
        BY <3>2, <3>8, <4>1, TailOfPiece
      <4>3. reached > 0 => ~CallbackDone'
        BY <3>4, <3>5, <4>2
      <4> QED
        BY <1>0, <1>stays, <2>0, <3>1, <3>2, <3>3, <3>6, <3>8, <4>2, <4>3
    <3> QED
      BY <3>7, <3>8
  <2>6. CASE WriteAnswer
    <3>1. /\ writing /\ writing' = FALSE
          /\ reached' = reached \/ reached' = n + 1
          /\ ~clientLeft => reached' = n + 1
          /\ UNCHANGED <<cpc, todo, received, tClosed>>
      BY <2>6 DEF WriteAnswer, consumerVars, transportVars
    <3>2. todo = <<"AgentResultCallback">> /\ cpc = "handling"
      BY <3>1 DEF Shape
    <3>3. todo \in CallbackLast /\ registered = HandlerOrder
      BY <3>2 DEF CallbackLast, AnswerInv
    <3>4. CallbackDone'
      BY <3>1, <3>2 DEF CallbackDone
    <3>5. reached <= n + 1
      BY DEF AnswerInv
    <3>6. ~clientLeft' => \A j \in 2 .. n + 1 : j <= reached'
      BY <1>0, <2>0, <3>1
    <3> QED
      BY <1>0, <2>0, <3>1, <3>3, <3>4, <3>5, <3>6 DEF AnswerInv
  <2> QED
    BY <1>6, <2>1, <2>2, <2>3, <2>4, <2>5, <2>6 DEF ConsumerStep
<1> QED
  BY <1>1, <1>2, <1>3, <1>4, <1>5, <1>6 DEF Next

(* A written answer is the next one of the abstract replay.                *)
LEMMA WriteImplementsReply ==
  ASSUME QueueInv, Shape, BindInv, Typed, ClosedInv, AnswerInv, WriteAnswer,
         reached' = Len(received) + 1, replies' = Append(replies, D!Current.answer)
  PROVE  R!Next
<1> DEFINE p == Len(received) + 1
           answers == [i \in Replayable |-> log[i].answer]
<1>0. UNCHANGED <<log, clientLeft, tClosed>>
  BY DEF WriteAnswer, readerVars, transportVars, requestVars
<1>1. writing /\ received # <<>> /\ IsAnswer(D!Current)
  BY DEF WriteAnswer, Shape, BindInv
<1>2. /\ p \in 2 .. Len(log) /\ D!Current = log[p] /\ Len(received) \in Nat \ {0}
      /\ \A i \in 1 .. Len(received) : received[i] = log[i + 1]
      /\ \A i \in 1 .. Len(received) - 1 : received[i] # SessionClose
  BY <1>1, CurrentInLog
<1>3. p \in Replayable
  <2>1. SUFFICES ASSUME NEW j \in 2 .. p PROVE log[j] # SessionClose
    BY <1>1, <1>2 DEF Replayable
  <2>2. CASE j = p
    BY <1>1, <1>2, <2>2 DEF IsAnswer, SessionClose, Action
  <2>3. CASE j # p
    <3>1. PICK k \in 1 .. Len(received) - 1 : k + 1 = j
      BY <1>2, <2>3
    <3>2. k \in 1 .. Len(received)
      BY <1>2
    <3> QED
      BY <1>2, <3>1, <3>2
  <2> QED
    BY <2>2, <2>3
<1>4. clientLeft \/ ~tClosed
  <2>1. SUFFICES ASSUME CloseReceived PROVE FALSE
    BY DEF ClosedInv
  <2>2. D!Current = SessionClose
    BY <2>1, CloseIsLast
  <2> QED
    BY <1>1, <2>2 DEF IsAnswer, SessionClose, Action
<1>5. ~CallbackDone
  BY <1>1 DEF CallbackDone, Shape
<1>6. p > reached
  BY <1>1, <1>2, <1>5 DEF AnswerInv, Typed
<1>7. ~clientLeft /\ reached > 0 => \A j \in Replayable : j < p => j <= reached
  <2>1. SUFFICES ASSUME ~clientLeft, reached > 0, NEW j \in Replayable, j < p
                 PROVE  j <= reached
    OBVIOUS
  <2>2. j \in 2 .. p /\ IsAnswer(log[j]) /\ j # p
    BY <1>2, <2>1 DEF Replayable
  <2> QED
    BY <1>4, <2>1, <2>2 DEF AnswerInv
<1>8. answers[p] = D!Current.answer /\ DOMAIN answers = Replayable
  BY <1>2, <1>3
<1>9. answers' = answers
  BY <1>0 DEF Replayable
<1> QED
  BY <1>0, <1>3, <1>4, <1>6, <1>7, <1>8, <1>9 DEF R!Next, R!Reply

(* The server closes a connection by itself when there is no answer left   *)
(* to be given, or when it gave none.                                      *)
LEMMA CloseImplementsComplete ==
  ASSUME QueueInv, Shape, BindInv, Typed, ClosedInv, AnswerInv, CloseActionCloses
  PROVE  R!Complete \/ UNCHANGED R!vars
<1> DEFINE p == Len(received) + 1
<1>0. UNCHANGED <<log, clientLeft, reached, replies>> /\ tClosed' = TRUE /\ ending
  BY DEF CloseActionCloses, answerVars, ClosedInv, T!Close, transportVars
<1>1. [i \in Replayable |-> log[i].answer]' = [i \in Replayable |-> log[i].answer]
  BY <1>0 DEF Replayable
<1>2. CASE clientLeft \/ tClosed
  BY <1>0, <1>1, <1>2 DEF R!vars
<1>3. CASE ~clientLeft /\ ~tClosed
  <2>1. received # <<>> /\ D!Current = SessionClose
    BY <1>0, CloseIsLast DEF BindInv
  <2>2. p \in 2 .. Len(log) /\ log[p] = SessionClose
    BY <2>1, CurrentInLog
  <2>3. reached > 0 => \A j \in Replayable : j <= reached
    <3>1. SUFFICES ASSUME reached > 0, NEW j \in Replayable PROVE j <= reached
      OBVIOUS
    <3>2. j \in 2 .. Len(log) /\ IsAnswer(log[j]) /\ \A i \in 2 .. j : log[i] # SessionClose
      BY DEF Replayable
    <3>3. ~(j >= p)
      BY <2>2, <3>2
    <3>4. j \in 2 .. p /\ j # p
      BY <2>2, <3>2, <3>3
    <3> QED
      BY <1>3, <3>1, <3>2, <3>4 DEF AnswerInv
  <2> QED
    BY <1>0, <1>1, <1>3, <2>3 DEF R!Complete
<1> QED
  BY <1>2, <1>3

(* Every step of the replay is a step of LogReplay or a stutter.           *)
LEMMA StepImplementsReplay ==
  ASSUME QueueInv, Shape, BindInv, Typed, ClosedInv, AnswerInv, [Next]_vars
  PROVE  [R!Next]_R!vars
<1> DEFINE phase == IF clientLeft THEN "left" ELSE IF tClosed THEN "completed" ELSE "open"
<1>stutters. ASSUME UNCHANGED <<log, reached, replies, clientLeft>>,
                    clientLeft \/ (tClosed' <=> tClosed)
             PROVE  UNCHANGED R!vars
  <2>1. Replayable' = Replayable
    BY <1>stutters DEF Replayable
  <2>2. phase' = phase
    BY <1>stutters
  <2> QED
    BY <1>stutters, <2>1, <2>2 DEF R!vars
<1>1. CASE UNCHANGED vars
  BY <1>1, <1>stutters DEF vars, readerVars, transportVars, requestVars, answerVars
<1>2. CASE ReaderStep
  BY <1>2, <1>stutters DEF ReaderStep, ReaderPushes, ReaderCloses, Push, ReaderKeeps,
     transportVars, requestVars, answerVars
<1>3. CASE ClientLeaves
  <2>1. /\ UNCHANGED <<log, reached, replies>> /\ ~clientLeft /\ clientLeft' = TRUE
    BY <1>3 DEF ClientLeaves, readerVars, answerVars
  <2>2. Replayable' = Replayable
    BY <2>1 DEF Replayable
  <2> QED
    BY <2>1, <2>2 DEF R!Next, R!Leave
<1>4. CASE ConnectionRead
  BY <1>4, <1>stutters DEF ConnectionRead, readerVars, requestVars, answerVars,
     T!ReadCheck, T!ReadMessage, T!ReadFails
<1>5. CASE HttpStep
  <2>1. CASE CreateReplaySession \/ BindHandlers
    BY <2>1, <1>stutters DEF CreateReplaySession, BindHandlers, transportVars, answerVars
  <2>2. CASE Connect \/ Serve
    BY <2>2, <1>stutters DEF Connect, Serve, readerVars, requestVars, answerVars,
       T!StartReader, T!ServeStep, T!ServeRefuses, T!ServeParses, T!EvaluateIncoming,
       T!PushAccepted, T!PushPanics, T!PushRefused, T!WriteAccepted
  <2>3. CASE AwaitDisconnect
    BY <2>3, <1>stutters DEF AwaitDisconnect, readerVars, transportVars, answerVars
  <2>4. CASE Return
    <3>1. clientLeft \/ tClosed
      BY <2>4 DEF Return, ClosedInv
    <3>2. tClosed' = TRUE /\ UNCHANGED <<log, reached, replies, clientLeft>>
      BY <2>4 DEF Return, T!Close, readerVars, answerVars
    <3>3. tClosed \in BOOLEAN => clientLeft \/ (tClosed' <=> tClosed)
      BY <3>1, <3>2
    <3> QED
      BY <1>stutters, <3>1, <3>2
  <2> QED
    BY <1>5, <2>1, <2>2, <2>3, <2>4 DEF HttpStep
<1>6. CASE ConsumerStep
  <2>0. UNCHANGED <<log, clientLeft>>
    BY <1>6, ConsumerSteps
  <2>1. CASE CloseActionCloses
    BY <2>1, CloseImplementsComplete DEF R!Next
  <2>2. CASE WriteAnswer
    <3>1. UNCHANGED tClosed
      BY <2>2 DEF WriteAnswer, transportVars
    <3>2. \/ reached' = Len(received) + 1 /\ replies' = Append(replies, D!Current.answer)
          \/ UNCHANGED <<reached, replies>>
      BY <2>2 DEF WriteAnswer
    <3> QED
      BY <1>stutters, <2>0, <2>2, <3>1, <3>2, WriteImplementsReply
  <2>3. CASE ~CloseActionCloses /\ ~WriteAnswer
    <3>1. UNCHANGED <<tClosed, reached, replies>>
      BY <1>6, <2>3, LoopSteps DEF ConsumerStep, IncrementTask, IncrementTaskCrashes,
         DecrementTask, CloseActionWaits, ServerSessionHandle, ResultCallbackHandle,
         HandlerReturns, transportVars, answerVars
    <3> QED
      BY <1>stutters, <2>0, <3>1
  <2> QED
    BY <2>1, <2>2, <2>3
<1> QED
  BY <1>1, <1>2, <1>3, <1>4, <1>5, <1>6 DEF Next

(* Whatever the log and the buffer, the client of a replay gets what       *)
(* LogReplay owes it: answers without a gap from the first one given, and  *)
(* an end only behind the last (storage.go, server.go, handler.go).        *)
THEOREM ReplayImplementsLogReplay == Spec => ImplementsLogReplay
<1> DEFINE Inv == QueueInv /\ Shape /\ BindInv /\ Typed
<1>1. Init => R!Init
  BY DEF Init, R!Init, T!Init
<1>2. Init => ClosedInv /\ AnswerInv
  BY ClosedInitially, AnswerInitially
<1>3. Inv /\ ClosedInv /\ AnswerInv /\ [Next]_vars => ClosedInv' /\ AnswerInv'
  BY ClosedStep, AnswerStep
<1>4. Inv /\ ClosedInv /\ AnswerInv /\ [Next]_vars => [R!Next]_R!vars
  BY StepImplementsReplay
<1> QED
  BY TypesInvariance, <1>1, <1>2, <1>3, <1>4, PTL DEF Spec, R!Spec, ImplementsLogReplay
=============================================================================
