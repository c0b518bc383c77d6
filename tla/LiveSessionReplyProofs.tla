------------------------ MODULE LiveSessionReplyProofs ------------------------
(***************************************************************************)
(* The answers of a live session, for every number of events and every     *)
(* buffer size: it implements ReplyStream, and its log holds the callbacks *)
(* of exactly the answers that were sent.  The argument follows the queue: *)
(* the results are in it in the order of the stream and each handler goes  *)
(* through it once, so that the callbacks are in it in that order too, the *)
(* answers are those of the callbacks, and a close is behind them all.     *)
(***************************************************************************)
EXTENDS LiveSessionTaskProofs, RanksProofs

(* The handler gets on only when the connection is gone, on either side;   *)
(* the consumer ends, and contexts are done, only behind the mark of the   *)
(* dispatcher, which another request may set at any time.                  *)
Over == {"leaving", "left", "done"}
Gate ==
  /\ hpc \in {"closing", "leaving", "returned"} => ClientLeft \/ tClosed
  /\ ctxDone => dClosed
  /\ cpc \in Over => dClosed /\ todo = <<>>
  /\ ssClosed => tClosed

(* Every step of the session keeps it.                                     *)
LEMMA NextGate ==
  ASSUME MarkedFirst, Turns, Gate, [Next]_vars
  PROVE  Gate'
<1> USE DEF connVars, closerVars, historyVars, sessionVars, busVars, ClientLeft
<1>0. /\ stopped => dClosed
      /\ chClosed => dClosed
      /\ chShut => dClosed
  BY DEF MarkedFirst
<1>keeps. ASSUME UNCHANGED <<hpc, ctxDone, cpc, todo, ssClosed, tClosed>>,
                 dClosed => dClosed', cancelled \subseteq cancelled'
          PROVE  Gate'
  BY <1>keeps DEF Gate
<1>closer. ASSUME NEW k, D!CloseSession(k) \/ D!CloserStep(k), UNCHANGED sessionVars
           PROVE  Gate'
  <2>1. /\ UNCHANGED <<hpc, ctxDone, cpc, todo, ssClosed, tClosed, cancelled>>
        /\ dClosed => dClosed'
    BY <1>closer DEF D!CloseSession, D!CloserStep, D!Goto, D!CloserKeeps, D!consVars,
       D!sendVars, D!MarkSession, D!CloseDispatcher, D!MarkDispatcher, D!CloseStopChan,
       D!AwaitConsumer, D!CloseChannel, D!MarkChannel, D!ShutChannel
  <2> QED
    BY <1>keeps, <2>1
<1>1. CASE UNCHANGED vars
  BY <1>1, <1>keeps DEF vars
<1>2. CASE HttpStep
  <2>1. CASE CreateSession \/ BindHandlers
    BY <2>1 DEF CreateSession, BindHandlers, RegisterUpTo, D!Register, D!chanVars,
       D!consVars, D!sendVars, D!closeVars, Gate
  <2>2. CASE Insert \/ Connect \/ BindRefused \/ ServePost \/ ServeOther \/ WriteAccepted
    BY <2>2 DEF Insert, Connect, BindRefused, ServePost, ServeOther, WriteAccepted, Gate
  <2>3. CASE AwaitDisconnect
    BY <2>3 DEF AwaitDisconnect, Gate
  <2>4. CASE CloseStep
    BY <1>closer, <2>4 DEF CloseStep
  <2>5. CASE Return
    BY <2>5 DEF Return, Gate
  <2> QED
    BY <1>2, <2>1, <2>2, <2>3, <2>4, <2>5 DEF HttpStep
<1>guest. ASSUME NEW g \in Guests, GuestCloses(g) \/ GuestStep(g) PROVE Gate'
  BY <1>closer, <1>guest DEF GuestCloses, GuestStep
<1>lost. CASE EntryLost
  BY <1>keeps, <1>lost DEF EntryLost
<1>3. CASE ReaderReads \/ ReaderGivesUp \/ StreamStarts \/ ClientLeaves
  BY <1>3, <1>keeps DEF ReaderReads, ReaderGivesUp, StreamStarts, ClientLeaves, D!Begin,
     D!CancelCaller, D!chanVars, D!consVars, D!closeVars
<1>4. ASSUME NEW p \in D!Procs, Sends(p) PROVE Gate'
  BY <1>4, <1>keeps DEF Sends, D!SendStep, D!SendCheckDispatcher, D!SendCheckChannel,
     D!SendAccepted, D!SendCancelled, D!SendPanics, D!SendFails, D!sendVars, D!consVars,
     D!closeVars, D!chanVars
<1>5. CASE Watch
  BY <1>0, <1>5 DEF Watch, D!Watch, D!chanVars, D!consVars, D!sendVars, D!closeVars, Gate
<1>6. CASE ConsumerStep
  <2>keeps. ASSUME UNCHANGED <<hpc, ctxDone, dClosed, ssClosed, tClosed, cancelled>>,
                   cpc' \notin Over
            PROVE  Gate'
    BY <2>keeps DEF Gate
  <2>1. CASE Consumes
    <3> USE DEF D!ConsumerKeeps, D!sendVars, D!closeVars
    <3>0. UNCHANGED <<hpc, dClosed, ssClosed, tClosed, cancelled>>
      BY <2>1 DEF Consumes, D!ConsumeCheck, D!ReceiveCheck, D!Receive, D!ReceiveFails,
         D!Snapshot, D!PassOver, D!DispatchEnds, D!ConsumerCancels, D!ConsumerDone
    <3>1. CASE D!ConsumeCheck
      BY <3>0, <3>1 DEF D!ConsumeCheck, Turns, Gate, Over
    <3>2. CASE D!ReceiveCheck
      BY <1>0, <3>0, <3>2 DEF D!ReceiveCheck, Turns, Gate, Over
    <3>3. CASE D!ReceiveFails
      BY <1>0, <3>0, <3>3 DEF D!ReceiveFails, Turns, Gate, Over
    <3>4. CASE D!Receive \/ D!Snapshot \/ D!PassOver \/ D!DispatchEnds
      BY <3>0, <3>4 DEF D!Receive, D!Snapshot, D!PassOver, D!DispatchEnds, Gate, Over
    <3>5. CASE D!ConsumerCancels \/ D!ConsumerDone
      BY <3>0, <3>5 DEF D!ConsumerCancels, D!ConsumerDone, Gate, Over
    <3> QED
      BY <2>1, <3>1, <3>2, <3>3, <3>4, <3>5 DEF Consumes
  <2>2. ASSUME NEW h, NEW acts, Handles(h, acts), UNCHANGED <<hpc, ssClosed, tClosed>>
        PROVE  Gate'
    BY <2>2, <2>keeps DEF Handles, D!Invoke, D!closeVars, D!chanVars, Over
  <2>3. CASE ActionStorageHandle \/ AgentOutputHandle \/ IncrementTask \/ DecrementTask
             \/ CloseActionWaits \/ AgentRegistryHandle \/ ServerSessionHandle
             \/ ResultCallbackHandle
    BY <2>2, <2>3 DEF ActionStorageHandle, AgentOutputHandle, IncrementTask, DecrementTask,
       CloseActionWaits, AgentRegistryHandle, ServerSessionHandle, ResultCallbackHandle
  <2>4. CASE CloseActionGivesUp \/ HandlerReturns
    BY <2>4, <2>keeps DEF CloseActionGivesUp, HandlerReturns, D!HandlerReturns,
       D!ConsumerKeeps, D!sendVars, D!closeVars, Over
  <2>5. CASE CloseActionCloses
    BY <2>5 DEF CloseActionCloses, D!HandlerReturns, D!ConsumerKeeps, D!sendVars,
       D!closeVars, Over, Gate
  <2>6. CASE WriteAnswer
    BY <2>6, <1>keeps DEF WriteAnswer
  <2> QED
    BY <1>6, <2>1, <2>3, <2>4, <2>5, <2>6 DEF ConsumerStep
<1> QED
  BY <1>1, <1>2, <1>3, <1>4, <1>5, <1>6, <1>guest, <1>lost DEF Next
-----------------------------------------------------------------------------
(* The steps by what they may touch, with what the answers depend on.      *)

(* The goroutines around the consumer only move the gate.                  *)
Rests ==
  /\ UNCHANGED <<accepted, received, buf, out, spc, begun, cpc, todo, spawned, writing,
                 log, failed, replies>>
  /\ dClosed => dClosed'
  /\ ctxDone => ctxDone'
  /\ ClientLeft => ClientLeft'
  /\ tClosed => tClosed'
  /\ tClosed' => tClosed \/ hpc \in {"closing", "leaving"}

(* What a goroutine that sends leaves alone.                               *)
Beside ==
  UNCHANGED <<received, cpc, todo, spawned, writing, log, failed, replies, dClosed,
              ctxDone, cancelled, tClosed>>

(* What the consumer leaves alone between Sends.                           *)
Inside ==
  /\ UNCHANGED <<accepted, begun, spc, dClosed, cancelled>>
  /\ ctxDone => ctxDone'

(* Where the consumer takes another action.                                *)
Taking == {"poll", "select", "snapshot"}

(* The consumer's loop moves on, takes an action or finishes with one; it  *)
(* takes no other from a dispatcher that is closed.                        *)
Moves ==
  /\ Inside
  /\ UNCHANGED <<out, writing, log, failed, replies, spawned>>
  /\ \/ tClosed' = tClosed
     \/ tClosed' /\ InCloseAction
  /\ \/ Between /\ UNCHANGED buf
     \/ D!Receive
     \/ D!Snapshot /\ UNCHANGED buf
     \/ D!HandlerReturns /\ UNCHANGED buf /\ ~writing
  /\ dClosed /\ cpc \notin Taking => cpc' \notin Taking

(* A handler of the copy is passed over.                                   *)
Passes ==
  /\ Inside
  /\ UNCHANGED <<out, writing, log, failed, replies, spawned, tClosed, buf, received>>
  /\ cpc = "dispatch" /\ cpc' = "dispatch"
  /\ todo # <<>> /\ ~D!Wants(Head(todo), D!Current) /\ todo' = Tail(todo)

(* The handler h is called and sends acts, with its effect on the log, the *)
(* failures and the writer.                                                *)
Acts(h, acts) ==
  /\ Inside
  /\ Runs(h, acts)
  /\ UNCHANGED <<replies, tClosed, buf>>
  /\ h = "ActionStorage" => log' = Append(log, D!Current)
  /\ h # "ActionStorage" => log' = log
  /\ h = "AgentOutputHandler" /\ acts = <<ProcessingError(D!Current.ev)>>
       => failed' = failed \cup {D!Current.ev}
  /\ h # "AgentOutputHandler" \/ acts # <<ProcessingError(D!Current.ev)>> => failed' = failed
  /\ h = "AgentResultCallback" => writing' = ~ssClosed
  /\ h # "AgentResultCallback" => writing' = writing

(* The callback writes its answer, or fails to.                            *)
Writes ==
  /\ Inside
  /\ UNCHANGED <<received, cpc, todo, out, log, failed, spawned, tClosed, buf>>
  /\ writing /\ ~writing'
  /\ \/ replies' = Append(replies, D!Current.ev) /\ ~ctxDone
     \/ replies' = replies /\ (ctxDone \/ ClientLeft)

(* Every step of the consumer is one of these.                             *)
LEMMA ConsumerSteps ==
  ASSUME ConsumerStep, ServeInv
  PROVE  \/ Moves \/ Passes \/ Writes
         \/ \E h \in Handlers : \E acts \in Emits[h][D!Current] : Acts(h, acts)
<1> USE DEF connVars, closerVars, historyVars, sessionVars, busVars, D!ConsumerKeeps,
            D!sendVars, D!closeVars, D!chanVars, Taking
<1>1. CASE Consumes
  <2>1. CASE D!ConsumeCheck \/ D!ReceiveCheck \/ D!ReceiveFails \/ D!DispatchEnds
             \/ D!ConsumerCancels \/ D!ConsumerDone
    BY <1>1, <2>1 DEF Consumes, D!ConsumeCheck, D!ReceiveCheck, D!ReceiveFails,
       D!DispatchEnds, D!ConsumerCancels, D!ConsumerDone, Between, Moves, Inside
  <2>2. CASE D!Receive
    BY <1>1, <2>2 DEF Consumes, D!Receive, Moves, Inside
  <2>3. CASE D!Snapshot
    BY <1>1, <2>3 DEF Consumes, D!Snapshot, Moves, Inside
  <2>4. CASE D!PassOver
    BY <1>1, <2>4 DEF Consumes, D!PassOver, Passes, Inside
  <2> QED
    BY <1>1, <2>1, <2>2, <2>3, <2>4 DEF Consumes
<1>2. ASSUME NEW h \in Handlers, NEW acts, Acts(h, acts)
      PROVE  \E g \in Handlers : \E b \in Emits[g][D!Current] : Acts(g, b)
  BY <1>2 DEF Acts, Runs, Handles
<1>3. ASSUME NEW h, NEW acts, Handles(h, acts) PROVE Inside /\ UNCHANGED buf
  BY <1>3 DEF Handles, D!Invoke, Inside
<1>4. {"ActionStorage", "AgentOutputHandler", "SessionCloser", "AgentRegistry",
       "ServerSession", "AgentResultCallback"} \subseteq Handlers
  <2>1. \A i \in 1 .. 6 : HandlerOrder[i] \in Handlers
    BY DEF Handlers, HandlerOrder
  <2> QED
    BY <2>1 DEF HandlerOrder
<1>5. CASE ActionStorageHandle
  BY <1>2, <1>3, <1>4, <1>5 DEF ActionStorageHandle, Runs, Acts
<1>6. CASE AgentOutputHandle
  <2>1. PICK acts : /\ Handles("AgentOutputHandler", acts)
                    /\ failed' = IF acts = <<ProcessingError(D!Current.ev)>>
                                   THEN failed \cup {D!Current.ev} ELSE failed
    BY <1>6 DEF AgentOutputHandle
  <2>2. Acts("AgentOutputHandler", acts)
    BY <1>3, <1>6, <2>1 DEF AgentOutputHandle, Runs, Acts
  <2> QED
    BY <1>2, <1>4, <2>2
<1>7. CASE IncrementTask \/ DecrementTask \/ CloseActionWaits
  <2>1. CASE IncrementTask
    BY <1>2, <1>3, <1>4, <2>1, ActionsDiffer DEF IncrementTask, Runs, Acts
  <2>2. CASE DecrementTask
    BY <1>2, <1>3, <1>4, <2>2 DEF DecrementTask, Runs, Acts
  <2>3. CASE CloseActionWaits
    BY <1>2, <1>3, <1>4, <2>3, ActionsDiffer DEF CloseActionWaits, Runs, Acts
  <2> QED
    BY <1>7, <2>1, <2>2, <2>3
<1>8. CASE AgentRegistryHandle
  BY <1>2, <1>3, <1>4, <1>8 DEF AgentRegistryHandle, Runs, Acts
<1>9. CASE ServerSessionHandle
  <2>1. PICK acts : Handles("ServerSession", acts)
    BY <1>9 DEF ServerSessionHandle
  <2>2. Acts("ServerSession", acts)
    BY <1>3, <1>9, <2>1 DEF ServerSessionHandle, Runs, Acts
  <2> QED
    BY <1>2, <1>4, <2>2
<1>10. CASE ResultCallbackHandle
  BY <1>2, <1>3, <1>4, <1>10 DEF ResultCallbackHandle, Runs, Acts
<1>11. CASE CloseActionCloses \/ CloseActionGivesUp \/ HandlerReturns
  BY <1>11 DEF CloseActionCloses, CloseActionGivesUp, HandlerReturns, D!HandlerReturns,
     InCloseAction, ServeInv, Moves, Inside
<1>12. CASE WriteAnswer
  BY <1>12 DEF WriteAnswer, CanWrite, Writes, Inside
<1> QED
  BY <1>1, <1>5, <1>6, <1>7, <1>8, <1>9, <1>10, <1>11, <1>12 DEF ConsumerStep

(* Every step of the session is one of these or one of another goroutine.  *)
LEMMA SessionSteps ==
  ASSUME Next, ServeInv
  PROVE  \/ Rests
         \/ D!Begin("reader") /\ Beside
         \/ D!Begin("stream") /\ spawned /\ Beside
         \/ \E p \in D!Procs : D!SendStep(p) /\ Beside
         \/ Moves \/ Passes \/ Writes
         \/ \E h \in Handlers : \E acts \in Emits[h][D!Current] : Acts(h, acts)
<1> USE DEF connVars, closerVars, historyVars, sessionVars, busVars, D!consVars,
            D!sendVars, D!chanVars, D!closeVars, ClientLeft
<1>closer. ASSUME NEW k, D!CloseSession(k) \/ D!CloserStep(k), UNCHANGED sessionVars
           PROVE  Rests
  BY <1>closer DEF D!CloseSession, D!CloserStep, D!Goto, D!CloserKeeps, D!MarkSession,
     D!CloseDispatcher, D!MarkDispatcher, D!CloseStopChan, D!AwaitConsumer,
     D!CloseChannel, D!MarkChannel, D!ShutChannel, Rests
<1>1. CASE HttpStep
  <2>1. CASE CreateSession \/ BindHandlers
    BY <2>1 DEF CreateSession, BindHandlers, RegisterUpTo, D!Register, Rests
  <2>2. CASE \/ Insert \/ Connect \/ BindRefused \/ ServePost \/ ServeOther
             \/ WriteAccepted \/ AwaitDisconnect \/ Return
    BY <2>2 DEF Insert, Connect, BindRefused, ServePost, ServeOther, WriteAccepted,
       AwaitDisconnect, Return, Rests
  <2>4. CASE CloseStep
    BY <1>closer, <2>4 DEF CloseStep
  <2> QED
    BY <1>1, <2>1, <2>2, <2>4 DEF HttpStep
<1>guest. ASSUME NEW g \in Guests, GuestCloses(g) \/ GuestStep(g) PROVE Rests
  BY <1>closer, <1>guest DEF GuestCloses, GuestStep
<1>2. CASE ReaderReads
  BY <1>2 DEF ReaderReads, D!Begin, Beside
<1>3. CASE StreamStarts
  BY <1>3 DEF StreamStarts, D!Begin, Beside
<1>4. ASSUME NEW p \in D!Procs, Sends(p) PROVE D!SendStep(p) /\ Beside
  BY <1>4 DEF Sends, D!SendStep, D!SendCheckDispatcher, D!SendCheckChannel,
     D!SendAccepted, D!SendCancelled, D!SendPanics, D!SendFails, Beside
<1>5. CASE ReaderGivesUp \/ ClientLeaves \/ Watch \/ EntryLost
  BY <1>5 DEF ReaderGivesUp, ClientLeaves, D!CancelCaller, Watch, D!Watch, EntryLost, Rests
<1> QED
  BY <1>1, <1>2, <1>3, <1>4, <1>5, <1>guest, ConsumerSteps DEF Next
-----------------------------------------------------------------------------
(* How many of the received actions the n-th handler has been through.     *)
Had(n) == IF Passed(n) THEN Len(received) ELSE Len(received) - 1

(* All that was received, but for the last while it is not its turn yet.   *)
LEMMA HadBounds ==
  ASSUME Bus, Turns, Gate, NEW n \in 1 .. 6
  PROVE  /\ Had(n) \in Nat /\ Had(n) <= Len(received) /\ Len(received) \in Nat
         /\ Len(received) - 1 <= Had(n)
<1>1. PICK r \in Nat : r = Len(received)
  BY ReceivedIsPrefix
<1>2. CASE r > 0
  BY <1>1, <1>2 DEF Had
<1>3. CASE r = 0
  <2>1. received = <<>>
    BY <1>1, <1>3, ReceivedIsPrefix, EmptySeq
  <2>2. cpc \notin {"snapshot", "dispatch", "handling"}
    BY <2>1 DEF Bus, D!Control
  <2>3. cpc \in {"check", "poll", "select"} \cup Over
    BY <2>2 DEF Bus, D!TypeOK, D!ConsumerAt, Over
  <2>4. todo = <<>>
    BY <2>3 DEF Turns, Gate
  <2>5. Len(todo) = 0 /\ 0 < 7 - n
    BY <2>4
  <2>6. Passed(n)
    BY <2>2, <2>5 DEF Passed
  <2> QED
    BY <1>1, <1>3, <2>6 DEF Had
<1> QED
  BY <1>1, <1>2, <1>3

(* A handler that comes earlier has been through no less.                  *)
LEMMA HadEarlier ==
  ASSUME Bus, Turns, Gate, NEW m \in 1 .. 6, NEW n \in 1 .. 6, m <= n
  PROVE  Had(n) <= Had(m)
<1>1. PICK k \in Nat : k = Len(todo)
  BY LenProperties DEF Bus, D!TypeOK
<1>2. Passed(n) => Passed(m)
  <2>1. k < 7 - n => k < 7 - m
    BY <1>1
  <2>2. k = 7 - n => k < 7 - m \/ k = 7 - m
    BY <1>1
  <2> QED
    BY <1>1, <2>1, <2>2 DEF Passed
<1>3. Had(n) <= Len(received) /\ Len(received) - 1 <= Had(m) /\ Len(received) \in Nat
      /\ Had(n) \in Nat
  BY HadBounds
<1>4. CASE Passed(n)
  BY <1>2, <1>3, <1>4 DEF Had
<1>5. CASE ~Passed(n)
  BY <1>3, <1>5 DEF Had
<1> QED
  BY <1>4, <1>5

(* No handler goes through an action but in its turn.                      *)
LEMMA HadStays ==
  ASSUME Bus, Registration, Turns, Origins, Gate, NEW n \in 1 .. 6,
         Rests \/ Beside \/ Moves \/ Writes
  PROVE  Had(n)' = Had(n)
<1>0. PICK r \in Nat : r = Len(received)
  BY ReceivedIsPrefix
<1>1. CASE UNCHANGED <<received, cpc, todo>>
  BY <1>1 DEF Had, Passed
<1>2. CASE Between
  BY <1>2 DEF Between, Had, Passed
<1>3. CASE D!Receive
  <2>1. /\ cpc = "select" /\ cpc' = "snapshot" /\ Len(received') = r + 1
    BY <1>0, <1>3, ReceiveGrows
  <2>2. todo = <<>>
    BY <2>1 DEF Turns
  <2>3. Len(todo) = 0 /\ 0 < 7 - n
    BY <2>2
  <2>4. Passed(n) /\ ~Passed(n)'
    BY <2>1, <2>3 DEF Passed
  <2>5. Had(n) = r
    BY <1>0, <2>4 DEF Had
  <2>6. Had(n)' = r + 1 - 1
    BY <2>1, <2>4 DEF Had
  <2> QED
    BY <2>5, <2>6
<1>4. CASE D!Snapshot
  <2>1. cpc = "snapshot" /\ cpc' = "dispatch" /\ received' = received /\ Len(todo') = 6
    BY <1>4, SnapshotIsFull DEF Origins, InQueue, D!Snapshot
  <2>2. ~Passed(n) /\ ~Passed(n)'
    BY <2>1 DEF Passed
  <2> QED
    BY <2>1, <2>2 DEF Had
<1>5. CASE D!HandlerReturns
  <2>1. /\ cpc = "handling" /\ cpc' = "dispatch" /\ received' = received
        /\ todo # <<>> /\ todo \in Seq(Handlers) /\ todo' = Tail(todo)
    BY <1>5 DEF D!HandlerReturns, Bus, D!Control, D!TypeOK
  <2>2. PICK k \in 1 .. 6 : k = Len(todo) /\ Len(todo') = k - 1
    BY <2>1, TurnIs
  <2>3. Passed(n) <=> k < 7 - n \/ k = 7 - n
    BY <2>1, <2>2 DEF Passed
  <2>4. Passed(n)' <=> k - 1 < 7 - n
    BY <2>1, <2>2 DEF Passed
  <2>5. Passed(n) <=> Passed(n)'
    BY <2>3, <2>4
  <2> QED
    BY <2>1, <2>5 DEF Had
<1> QED
  BY <1>1, <1>2, <1>3, <1>4, <1>5 DEF Rests, Beside, Moves, Writes

(* In its turn a handler goes through the action that was received last.   *)
LEMMA HadAdvances ==
  ASSUME Bus, Turns, NEW n \in 1 .. 6,
         cpc = "dispatch", todo # <<>>, received' = received,
         \/ cpc' = "handling" /\ todo' = todo
         \/ cpc' = "dispatch" /\ todo' = Tail(todo)
  PROVE  /\ Head(todo) # HandlerOrder[n] => Had(n)' = Had(n)
         /\ Head(todo) = HandlerOrder[n] =>
              Had(n) = Len(received) - 1 /\ Had(n)' = Len(received)
<1>1. todo \in Seq(Handlers)
  BY DEF Bus, D!TypeOK
<1>2. PICK k \in 1 .. 6 : k = Len(todo) /\ Head(todo) = HandlerOrder[7 - k]
  BY <1>1, TurnIs
<1>3. Passed(n) <=> k < 7 - n
  BY <1>2 DEF Passed
<1>4. Passed(n)' <=> k < 7 - n \/ k = 7 - n
  <2>1. CASE cpc' = "handling" /\ todo' = todo
    BY <1>2, <2>1 DEF Passed
  <2>2. CASE cpc' = "dispatch" /\ todo' = Tail(todo)
    <3>1. Len(todo') = k - 1
      BY <1>1, <1>2, <2>2
    <3>2. Passed(n)' <=> k - 1 < 7 - n
      BY <2>2, <3>1 DEF Passed
    <3> QED
      BY <3>2
  <2> QED
    BY <2>1, <2>2
<1>5. Head(todo) = HandlerOrder[n] <=> k = 7 - n
  <2>1. \A i, j \in 1 .. 6 : HandlerOrder[i] = HandlerOrder[j] => i = j
    <3>1. \A i \in 1 .. 6 : i \in {1, 2, 3, 4, 5, 6}
      OBVIOUS
    <3>2. /\ HandlerOrder[1] = "ActionStorage" /\ HandlerOrder[2] = "AgentOutputHandler"
          /\ HandlerOrder[3] = "SessionCloser" /\ HandlerOrder[4] = "AgentRegistry"
          /\ HandlerOrder[5] = "ServerSession" /\ HandlerOrder[6] = "AgentResultCallback"
      BY DEF HandlerOrder
    <3> QED
      BY <3>1, <3>2
  <2>2. 7 - k \in 1 .. 6 /\ (7 - k = n <=> k = 7 - n)
    OBVIOUS
  <2> QED
    BY <1>2, <2>1, <2>2
<1>6. CASE Head(todo) = HandlerOrder[n]
  <2>1. ~Passed(n) /\ Passed(n)'
    BY <1>3, <1>4, <1>5, <1>6
  <2> QED
    BY <1>6, <2>1 DEF Had
<1>7. CASE Head(todo) # HandlerOrder[n]
  <2>1. Passed(n) <=> Passed(n)'
    BY <1>3, <1>4, <1>5, <1>7
  <2> QED
    BY <1>7, <2>1 DEF Had
<1> QED
  BY <1>6, <1>7
-----------------------------------------------------------------------------
(* What is known of every state so far.                                    *)
Ground == Bus /\ Story /\ MarkedFirst /\ Gate /\ TypeOK

(* A goroutine queues the next of its actions, ...                         *)
Queues(p, a) ==
  /\ a \in Actions /\ out[p] # <<>> /\ a = Head(out[p]) /\ spc[p] = "select"
  /\ \A q \in D!Procs \ {p} : out'[q] = out[q] /\ spc'[q] = spc[q]
  /\ out'[p] = Tail(out[p]) /\ spc'[p] = "idle"
  /\ Len(accepted') = Len(accepted) + 1
  /\ accepted'[Len(accepted) + 1] = a
  /\ \A i \in 1 .. Len(accepted) : accepted'[i] = accepted[i]
  /\ begun' = begun

(* ... or goes on without queueing anything.                               *)
Waits(p) ==
  /\ accepted' = accepted /\ begun' = begun
  /\ \A q \in D!Procs \ {p} : out'[q] = out[q] /\ spc'[q] = spc[q]
  /\ \/ out'[p] = out[p] /\ (spc'[p] = "idle" \/ spc[p] # "idle" \/ ~dClosed)
     \/ /\ out[p] # <<>> /\ spc'[p] = "idle"
        /\ p # "reader" => dClosed
        /\ p = "consumer" => out'[p] = <<>>
        /\ p = "reader" => out'[p] = <<>>

(* Every step of a Send is one of these.                                   *)
LEMMA SendsOrWaits ==
  ASSUME Ground, NEW p \in D!Procs, D!SendStep(p)
  PROVE  Waits(p) \/ \E a \in Actions : Queues(p, a)
<1>0. /\ out \in [D!Procs -> Seq(Actions)] /\ spc \in [D!Procs -> {"idle", "channel", "select"}]
      /\ out[p] \in Seq(Actions)
      /\ D!Procs = {"reader", "stream", "consumer"}
      /\ spc[p] # "idle" => out[p] # <<>>
  BY DEF Ground, Bus, D!TypeOK, D!SendAt, D!Control, D!Procs
<1>1. ASSUME D!SendFails(p), out[p] # <<>>, p # "reader" => dClosed PROVE Waits(p)
  <2>1. p = "reader" => out'[p] = <<>>
    <3> SUFFICES ASSUME p = "reader" PROVE out'[p] = <<>>
      OBVIOUS
    <3>1. out[p] = <<UserRequest>>
      BY <1>1 DEF Ground, Story, Origins, ToSend
    <3>2. PICK i \in 2 .. Len(out[p]) + 1 : out' = [out EXCEPT ![p] = SubSeq(@, i, Len(@))]
      BY <1>1 DEF D!SendFails
    <3>3. Len(out[p]) = 1 /\ i = 2
      BY <3>1, <3>2
    <3>4. out'[p] = SubSeq(out[p], 2, 1)
      BY <1>0, <3>2, <3>3
    <3> QED
      BY <1>0, <3>4
  <2>2. p = "consumer" => out'[p] = <<>>
    BY <1>0, <1>1 DEF D!SendFails
  <2>3. /\ \A q \in D!Procs \ {p} : out'[q] = out[q] /\ spc'[q] = spc[q]
        /\ spc'[p] = "idle" /\ UNCHANGED <<accepted, begun>>
    BY <1>0, <1>1 DEF D!SendFails
  <2> QED
    BY <1>1, <2>1, <2>2, <2>3 DEF Waits
<1>2. CASE D!SendCheckDispatcher(p)
  <2>1. CASE dClosed /\ D!SendFails(p)
    BY <1>1, <1>2, <2>1 DEF D!SendCheckDispatcher
  <2>2. CASE ~dClosed /\ spc' = [spc EXCEPT ![p] = "channel"]
             /\ UNCHANGED <<begun, cancelled, out, accepted>>
    BY <1>0, <2>2 DEF Waits
  <2> QED
    BY <1>2, <2>1, <2>2 DEF D!SendCheckDispatcher
<1>3. CASE D!SendCheckChannel(p)
  <2>1. CASE chClosed /\ D!SendFails(p)
    <3>1. dClosed
      BY <2>1 DEF Ground, MarkedFirst
    <3> QED
      BY <1>0, <1>1, <1>3, <2>1, <3>1 DEF D!SendCheckChannel
  <2>2. CASE ~chClosed /\ spc' = [spc EXCEPT ![p] = "select"]
             /\ UNCHANGED <<begun, cancelled, out, accepted>>
    BY <1>0, <1>3, <2>2 DEF Waits, D!SendCheckChannel
  <2> QED
    BY <1>3, <2>1, <2>2 DEF D!SendCheckChannel
<1>4. CASE D!SendAccepted(p)
  <2>1. PICK a : a = Head(out[p])
    OBVIOUS
  <2>2. /\ a \in Actions /\ accepted' = Append(accepted, a) /\ accepted \in Seq(Actions)
        /\ out[p] # <<>>
    BY <1>0, <1>4, <2>1, ReceivedIsPrefix DEF D!SendAccepted, Ground
  <2>3. /\ Len(accepted') = Len(accepted) + 1 /\ accepted'[Len(accepted) + 1] = a
        /\ \A i \in 1 .. Len(accepted) : accepted'[i] = accepted[i]
    BY <2>2
  <2>4. /\ \A q \in D!Procs \ {p} : out'[q] = out[q] /\ spc'[q] = spc[q]
        /\ out'[p] = Tail(out[p]) /\ spc'[p] = "idle" /\ spc[p] = "select" /\ begun' = begun
    BY <1>0, <1>4 DEF D!SendAccepted
  <2>5. Queues(p, a)
    BY <2>1, <2>2, <2>3, <2>4 DEF Queues
  <2> QED
    BY <2>2, <2>5
<1>5. CASE D!SendCancelled(p)
  <2>1. p # "reader" => dClosed
    BY <1>0, <1>5 DEF D!SendCancelled, D!CtxDone, Ground, Gate
  <2> QED
    BY <1>0, <1>1, <1>5, <2>1 DEF D!SendCancelled
<1>6. CASE D!SendPanics(p)
  BY <1>0, <1>6 DEF D!SendPanics, D!sendVars, Waits
<1> QED
  BY <1>2, <1>3, <1>4, <1>5, <1>6 DEF D!SendStep
-----------------------------------------------------------------------------
(* What the handlers send, by what they send it for.                       *)
Shape(h, a, acts) ==
  /\ h = "AgentOutputHandler" /\ a = AgentResultDone => acts = <<SessionClose>>
  /\ h = "AgentOutputHandler" /\ a.type = "AgentResult" /\ a # AgentResultDone
       => acts = <<ResultCallback(a.ev)>> \/ acts = <<ProcessingError(a.ev)>>
  /\ \A i \in 1 .. Len(acts) :
       /\ acts[i].type # "AgentResult"
       /\ acts[i] = SessionClose => i = Len(acts)
       /\ acts[i] = SessionClose =>
            h = "ServerSession" \/ (h = "AgentOutputHandler" /\ a = AgentResultDone)
       /\ acts[i].type = "AgentResultCallback" =>
            /\ h = "AgentOutputHandler" /\ a.type = "AgentResult" /\ a # AgentResultDone
            /\ acts = <<ResultCallback(a.ev)>>

(* It has that shape whatever the application's functions return.          *)
LEMMA ShapeOfSends ==
  ASSUME NEW h \in Handlers, NEW a \in Actions, NEW acts \in Emits[h][a]
  PROVE  Shape(h, a, acts)
<1>0. a.ev \in 0 .. MaxEvents /\ 0 \in 0 .. MaxEvents
  BY LiveSessionAssumption DEF Actions
<1>1. CASE acts = <<>> /\ ~(h = "AgentOutputHandler" /\ a.type = "AgentResult")
  <2>1. Len(acts) = 0 /\ ~(h = "AgentOutputHandler" /\ a = AgentResultDone)
    BY <1>1, ActionsDiffer
  <2>2. \A i : i \notin 1 .. 0
    OBVIOUS
  <2> QED
    BY <1>1, <2>1, <2>2 DEF Shape
<1>2. CASE h = "AgentOutputHandler" /\ a = AgentResultDone
  <2>1. acts = <<SessionClose>>
    BY <1>2, ActionsDiffer DEF Emits, OutputHandlerSends
  <2> QED
    BY <1>2, <2>1, ActionsDiffer DEF Shape
<1>3. CASE h = "AgentOutputHandler" /\ a.type = "AgentResult" /\ a # AgentResultDone
  <2>1. acts = <<ResultCallback(a.ev)>> \/ acts = <<ProcessingError(a.ev)>>
    BY <1>3 DEF Emits, OutputHandlerSends
  <2>2. CASE acts = <<ResultCallback(a.ev)>>
    BY <1>0, <1>3, <2>2, ActionsDiffer DEF Shape
  <2>3. CASE acts = <<ProcessingError(a.ev)>>
    BY <1>0, <1>3, <2>3, ActionsDiffer DEF Shape
  <2> QED
    BY <2>1, <2>2, <2>3
<1>4. CASE h = "ServerSession" /\ a = UserRequest
  <2>1. acts = <<EventStreamCall>> \/ acts = <<ProcessingError(0), SessionClose>>
    BY <1>4 DEF Emits, RequestHandlerSends
  <2>2. CASE acts = <<EventStreamCall>>
    BY <1>4, <2>2, ActionsDiffer DEF Shape
  <2>3. CASE acts = <<ProcessingError(0), SessionClose>>
    <3>1. Len(acts) = 2 /\ acts[1] = ProcessingError(0) /\ acts[2] = SessionClose
      BY <2>3
    <3>2. \A i \in 1 .. 2 : i = 1 \/ i = 2
      OBVIOUS
    <3> QED
      BY <1>0, <1>4, <3>1, <3>2, ActionsDiffer DEF Shape
  <2> QED
    BY <2>1, <2>2, <2>3
<1>5. acts # <<>> => \/ h = "AgentOutputHandler" /\ a.type = "AgentResult"
                     \/ h = "ServerSession" /\ a = UserRequest
  BY WhatHandlersSend
<1> QED
  BY <1>1, <1>2, <1>3, <1>4, <1>5

(* The results that were accepted, and how many.                           *)
LEMMA ResultsCount ==
  ASSUME Bus
  PROVE  /\ Len(accepted) \in Nat /\ Results \in SUBSET (1 .. Len(accepted))
         /\ Produced \in Nat
         /\ \A i : i \in Results <=>
              /\ i \in 1 .. Len(accepted)
              /\ accepted[i].type = "AgentResult" /\ accepted[i].ev > 0
<1>1. Len(accepted) \in Nat /\ DOMAIN accepted = 1 .. Len(accepted)
  BY ReceivedIsPrefix
<1>2. Results \in SUBSET (1 .. Len(accepted))
  BY <1>1 DEF Results
<1> QED
  BY <1>1, <1>2, Countable DEF Results, Produced

(* A result that is queued is one more.                                    *)
LEMMA ResultsGrow ==
  ASSUME Bus, Bus', NEW p \in D!Procs, NEW a, Queues(p, a)
  PROVE  /\ a.type = "AgentResult" /\ a.ev > 0 =>
              /\ Results' = Results \cup {Len(accepted) + 1}
              /\ Produced' = Produced + 1
         /\ ~(a.type = "AgentResult" /\ a.ev > 0) => Results' = Results /\ Produced' = Produced
<1>1. PICK n \in Nat : n = Len(accepted)
  BY ResultsCount
<1>2. /\ Len(accepted') = n + 1 /\ accepted'[n + 1] = a
      /\ \A i \in 1 .. n : accepted'[i] = accepted[i]
  BY <1>1 DEF Queues
<1>3. \A i : i \in Results <=>
        i \in 1 .. n /\ accepted[i].type = "AgentResult" /\ accepted[i].ev > 0
  BY <1>1, ResultsCount
<1>4. \A i : i \in Results' <=>
        i \in 1 .. n + 1 /\ accepted'[i].type = "AgentResult" /\ accepted'[i].ev > 0
  <2>1. DOMAIN accepted' = 1 .. Len(accepted')
    BY DEF Bus, D!TypeOK
  <2> QED
    BY <1>2, <2>1 DEF Results
<1>5. \A i : i \in 1 .. n + 1 <=> i \in 1 .. n \/ i = n + 1
  BY UpToNext
<1>6. CASE a.type = "AgentResult" /\ a.ev > 0
  <2>1. Results' = Results \cup {n + 1}
    BY <1>2, <1>3, <1>4, <1>5, <1>6
  <2>2. Cardinality(Results \cup {n + 1}) = Cardinality(Results) + 1
    BY <1>1, ResultsCount, CountNext
  <2> QED
    BY <1>1, <1>6, <2>1, <2>2 DEF Produced
<1>7. CASE ~(a.type = "AgentResult" /\ a.ev > 0)
  <2>0. n + 1 \notin 1 .. n
    BY <1>1
  <2>1. \A i : i \in Results' <=> i \in Results
    BY <1>2, <1>3, <1>4, <1>5, <1>7, <2>0
  <2>2. Results' = Results
    BY <2>1
  <2> QED
    BY <1>7, <2>2 DEF Produced
<1> QED
  BY <1>6, <1>7
-----------------------------------------------------------------------------
(* What the stream has still to send: the next events and then its Done.   *)
InOrder(s) ==
  \A i \in 1 .. Len(s) :
    /\ i = Len(s) => s[i] = AgentResultDone
    /\ i # Len(s) => s[i] = AgentResult(Produced + i)

(* The results are queued in the order of the events, and the Done after   *)
(* them all, even when a Send of the stream failed before; and the         *)
(* handlers send neither results nor anything after a close.               *)
Stream ==
  /\ \A i \in Results : accepted[i].ev = Rank(Results, i)
  /\ \A i, j \in 1 .. Len(accepted) :
       accepted[i] = AgentResultDone /\ accepted[j].type = "AgentResult" => j <= i
  /\ \A i \in 1 .. Len(accepted) :
       /\ accepted[i].type = "AgentResult" => "stream" \in begun
       /\ accepted[i] = AgentResultDone => out["stream"] = <<>>
  /\ ~dClosed \/ spc["stream"] # "idle" => InOrder(out["stream"])
  /\ \A i \in 1 .. Len(out["consumer"]) :
       /\ out["consumer"][i].type # "AgentResult"
       /\ out["consumer"][i] = SessionClose => i = Len(out["consumer"])

(* A goroutine that queues an action keeps it.                             *)
LEMMA QueueKeepsStream ==
  ASSUME Ground, Bus', Stream, dClosed' = dClosed,
         NEW p \in D!Procs, NEW a \in Actions, Queues(p, a)
  PROVE  Stream'
<1>0. /\ out \in [D!Procs -> Seq(Actions)] /\ D!Procs = {"reader", "stream", "consumer"}
      /\ out[p] \in Seq(Actions) /\ Bus
  BY DEF Ground, Bus, D!TypeOK, D!Procs
<1>1. PICK n \in Nat : n = Len(accepted)
  BY <1>0, ResultsCount
<1>2. /\ Len(accepted') = n + 1 /\ accepted'[n + 1] = a /\ begun' = begun
      /\ \A i \in 1 .. n : accepted'[i] = accepted[i]
  BY <1>1 DEF Queues
<1>3. \A i : i \in 1 .. n + 1 <=> i \in 1 .. n \/ i = n + 1
  BY UpToNext
<1>4. PICK m \in Nat : m = Len(out[p]) /\ m # 0
  BY <1>0, EmptySeq DEF Queues
<1>5. /\ Len(out'[p]) = m - 1 /\ \A i \in 1 .. m - 1 : out'[p][i] = out[p][i + 1]
      /\ a = out[p][1]
  BY <1>0, <1>4 DEF Queues
<1>6. \A i \in 1 .. Len(out'["consumer"]) :
        /\ out'["consumer"][i].type # "AgentResult"
        /\ out'["consumer"][i] = SessionClose => i = Len(out'["consumer"])
  <2>1. CASE p = "consumer"
    <3>1. ASSUME NEW i \in 1 .. m - 1
          PROVE  i + 1 \in 1 .. m /\ (i + 1 = m => i = m - 1)
      OBVIOUS
    <3>2. \A j \in 1 .. m :
            /\ out["consumer"][j].type # "AgentResult"
            /\ out["consumer"][j] = SessionClose => j = m
      BY <1>4, <2>1 DEF Stream
    <3>3. \A i \in 1 .. m - 1 :
            /\ out'["consumer"][i].type # "AgentResult"
            /\ out'["consumer"][i] = SessionClose => i = m - 1
      BY <1>5, <2>1, <3>1, <3>2
    <3> QED
      BY <1>5, <2>1, <3>3
  <2>2. CASE p # "consumer"
    BY <1>0, <2>2 DEF Stream, Queues
  <2> QED
    BY <2>1, <2>2
<1>7. CASE p # "stream"
  <2>1. a.type # "AgentResult"
    <3>1. CASE p = "reader"
      BY <1>4, <1>5, <3>1, ActionsDiffer DEF Ground, Story, Origins, ToSend
    <3>2. CASE p = "consumer"
      BY <1>4, <1>5, <3>2 DEF Stream
    <3> QED
      BY <1>0, <1>7, <3>1, <3>2
  <2>2. Results' = Results /\ Produced' = Produced /\ out'["stream"] = out["stream"]
        /\ spc'["stream"] = spc["stream"] /\ a # AgentResultDone
    <3>1. Results' = Results /\ Produced' = Produced
      BY <1>0, <2>1, ResultsGrow
    <3>2. out'["stream"] = out["stream"] /\ spc'["stream"] = spc["stream"]
      BY <1>0, <1>7 DEF Queues
    <3> QED
      BY <2>1, <3>1, <3>2, ActionsDiffer
  <2>3. \A i \in Results' : accepted'[i].ev = Rank(Results', i)
    BY <1>0, <1>1, <1>2, <2>2, ResultsCount DEF Stream
  <2>4. \A i, j \in 1 .. n + 1 :
          accepted'[i] = AgentResultDone /\ accepted'[j].type = "AgentResult" => j <= i
    BY <1>1, <1>2, <1>3, <2>1, <2>2 DEF Stream
  <2>5. \A i \in 1 .. n + 1 :
          /\ accepted'[i].type = "AgentResult" => "stream" \in begun'
          /\ accepted'[i] = AgentResultDone => out'["stream"] = <<>>
    BY <1>1, <1>2, <1>3, <2>1, <2>2 DEF Stream
  <2>6. ~dClosed' \/ spc'["stream"] # "idle" => InOrder(out["stream"])'
    <3>1. InOrder(out["stream"]) => InOrder(out["stream"])'
      BY <2>2 DEF InOrder
    <3> QED
      BY <2>2, <3>1 DEF Stream
  <2> QED
    BY <1>2, <1>6, <2>3, <2>4, <2>5, <2>6 DEF Stream
<1>8. CASE p = "stream"
  <2>1. InOrder(out["stream"])
    BY <1>8 DEF Queues, Stream
  <2>2. \A i \in 1 .. n : accepted[i] # AgentResultDone
    BY <1>1, <1>8 DEF Queues, Stream
  <2>3. a.type = "AgentResult" /\ (m = 1 => a = AgentResultDone)
        /\ (m # 1 => a = AgentResult(Produced + 1))
    <3>1. 1 \in 1 .. m
      BY <1>4
    <3>2. m = 1 => a = AgentResultDone
      BY <1>4, <1>5, <1>8, <2>1, <3>1 DEF InOrder
    <3>3. m # 1 => a = AgentResult(Produced + 1)
      BY <1>4, <1>5, <1>8, <2>1, <3>1 DEF InOrder
    <3>4. a.type = "AgentResult"
      BY <3>2, <3>3 DEF AgentResultDone, AgentResult, Action
    <3> QED
      BY <3>2, <3>3, <3>4
  <2>4. "stream" \in begun'
    <3>1. out["stream"] # <<>>
      BY <1>8 DEF Queues
    <3> QED
      BY <1>2, <3>1 DEF Ground, Bus, D!Control
  <2>5. ASSUME m = 1 PROVE Stream'
    <3>1. a = AgentResultDone /\ Results' = Results
      BY <1>0, <2>3, <2>5, ResultsGrow, ActionsDiffer
    <3>2. Len(out'["stream"]) = 0 /\ out'["stream"] = <<>>
      <4>1. out'["stream"] \in Seq(Actions)
        BY DEF Bus, D!TypeOK, D!Procs
      <4> QED
        BY <1>5, <1>8, <2>5, <4>1, EmptySeq
    <3>3. \A i \in Results' : accepted'[i].ev = Rank(Results', i)
      BY <1>0, <1>1, <1>2, <3>1, ResultsCount DEF Stream
    <3>4. \A i, j \in 1 .. n + 1 :
            accepted'[i] = AgentResultDone /\ accepted'[j].type = "AgentResult" => j <= i
      BY <1>2, <1>3, <2>2
    <3>5. InOrder(out["stream"])'
      BY <3>2 DEF InOrder
    <3> QED
      BY <1>2, <1>3, <1>6, <2>4, <3>2, <3>3, <3>4, <3>5 DEF Stream
  <2>6. ASSUME m # 1 PROVE Stream'
    <3>1. PICK r \in Nat : r = Produced
      BY <1>0, ResultsCount
    <3>2. a = AgentResult(r + 1) /\ a.ev = r + 1 /\ a.ev > 0 /\ a # AgentResultDone
      BY <2>3, <2>6, <3>1 DEF AgentResult, AgentResultDone, Action
    <3>3. Results' = Results \cup {n + 1} /\ Produced' = r + 1
      BY <1>0, <1>1, <2>3, <3>1, <3>2, ResultsGrow
    <3>4. Results \in SUBSET (1 .. n)
      BY <1>0, <1>1, ResultsCount
    <3>5. ASSUME NEW i \in Results' PROVE accepted'[i].ev = Rank(Results', i)
      <4>1. CASE i = n + 1
        BY <1>2, <3>1, <3>2, <3>3, <3>4, <4>1, RankNext DEF Produced
      <4>2. CASE i \in Results
        BY <1>2, <3>3, <3>4, <4>2, RankStays DEF Stream
      <4> QED
        BY <3>3, <3>5, <4>1, <4>2
    <3>6. \A i \in 1 .. n + 1 : accepted'[i] # AgentResultDone
      BY <1>2, <1>3, <2>2, <3>2
    <3>7. InOrder(out["stream"])'
      <4> SUFFICES ASSUME NEW i \in 1 .. m - 1
                   PROVE  /\ i = m - 1 => out'["stream"][i] = AgentResultDone
                          /\ i # m - 1 => out'["stream"][i] = AgentResult(r + 1 + i)
        BY <1>5, <1>8, <3>3 DEF InOrder
      <4>1. i + 1 \in 1 .. m /\ (i = m - 1 <=> i + 1 = m) /\ r + 1 + i = r + (i + 1)
        OBVIOUS
      <4>2. out'["stream"][i] = out["stream"][i + 1]
        BY <1>5, <1>8
      <4>3. /\ i + 1 = m => out["stream"][i + 1] = AgentResultDone
            /\ i + 1 # m => out["stream"][i + 1] = AgentResult(r + (i + 1))
        BY <1>4, <1>8, <2>1, <3>1, <4>1 DEF InOrder
      <4> QED
        BY <4>1, <4>2, <4>3
    <3> QED
      BY <1>2, <1>6, <2>4, <3>5, <3>6, <3>7 DEF Stream
  <2> QED
    BY <2>5, <2>6
<1> QED
  BY <1>7, <1>8

(* So does a stream that starts, as there was none before.                 *)
LEMMA BeginKeepsStream ==
  ASSUME Ground, Stream, D!Begin("stream"), Beside
  PROVE  Stream'
<1>0. out \in [D!Procs -> Seq(Actions)] /\ D!Procs = {"reader", "stream", "consumer"}
  BY DEF Ground, Bus, D!TypeOK, D!Procs
<1>1. UNCHANGED <<accepted, spc>> /\ begun' = begun \cup {"stream"} /\ dClosed' = dClosed
  BY DEF D!Begin, Beside
<1>2. PICK e \in 0 .. MaxEvents :
        out' = [out EXCEPT !["stream"] =
                  [i \in 1 .. e |-> AgentResult(i)] \o <<AgentResultDone>>]
  <2>1. PICK acts \in Scripts["stream"] : out' = [out EXCEPT !["stream"] = acts]
    BY DEF D!Begin
  <2> QED
    BY <2>1 DEF Scripts
<1>3. PICK s : s = [i \in 1 .. e |-> AgentResult(i)] \o <<AgentResultDone>>
  OBVIOUS
<1>4. Len(s) = e + 1 /\ s[e + 1] = AgentResultDone /\ \A i \in 1 .. e : s[i] = AgentResult(i)
  <2>1. [i \in 1 .. e |-> AgentResult(i)] \in Seq({AgentResult(i) : i \in 1 .. e})
    BY LiveSessionAssumption
  <2> QED
    BY <1>3, <2>1, LiveSessionAssumption
<1>5. out'["stream"] = s /\ out'["consumer"] = out["consumer"]
  BY <1>0, <1>2, <1>3
<1>6. \A i \in 1 .. Len(accepted) : accepted[i].type # "AgentResult"
  BY DEF Stream, D!Begin
<1>7. Results = {} /\ Produced = 0 /\ Results' = Results /\ Produced' = Produced
  <2>1. Results = {}
    BY <1>6, ResultsCount DEF Ground
  <2>2. Results' = Results
    BY <1>1 DEF Results
  <2> QED
    BY <2>1, <2>2, FS_EmptySet DEF Produced
<1>8. InOrder(out["stream"])'
  <2> SUFFICES ASSUME NEW i \in 1 .. e + 1
               PROVE  /\ i = e + 1 => s[i] = AgentResultDone
                      /\ i # e + 1 => s[i] = AgentResult(0 + i)
    BY <1>4, <1>5, <1>7 DEF InOrder
  <2>1. i # e + 1 => i \in 1 .. e /\ 0 + i = i
    BY LiveSessionAssumption
  <2> QED
    BY <1>4, <2>1
<1>9. \A i \in 1 .. Len(accepted) : accepted[i] # AgentResultDone
  BY <1>6, ActionsDiffer
<1> QED
  BY <1>1, <1>5, <1>6, <1>7, <1>8, <1>9 DEF Stream
(* So does every other step.                                               *)
LEMMA StillStream ==
  ASSUME Stream, UNCHANGED <<accepted, begun>>, dClosed => dClosed',
         UNCHANGED <<spc["stream"], out["stream"]>>,
         out'["consumer"] \in {out["consumer"], <<>>}
  PROVE  Stream'
<1>1. Results' = Results /\ Produced' = Produced
  BY DEF Results, Produced
<1>2. InOrder(out["stream"]) => InOrder(out["stream"])'
  BY <1>1 DEF InOrder
<1>3. \A i \in Results' : accepted'[i].ev = Rank(Results', i)
  BY <1>1 DEF Stream
<1>4. \A i \in 1 .. Len(out'["consumer"]) :
        /\ out'["consumer"][i].type # "AgentResult"
        /\ out'["consumer"][i] = SessionClose => i = Len(out'["consumer"])
  <2>1. Len(<<>>) = 0 /\ 1 .. 0 = {}
    OBVIOUS
  <2> QED
    BY <2>1 DEF Stream
<1> QED
  BY <1>2, <1>3, <1>4 DEF Stream
-----------------------------------------------------------------------------
(* Every step is of one of the kinds above.                                *)
LEMMA AllSteps ==
  ASSUME Ground, [Next]_vars
  PROVE  \/ Rests
         \/ D!Begin("reader") /\ Beside
         \/ D!Begin("stream") /\ spawned /\ Beside
         \/ \E p \in D!Procs : Waits(p) /\ Beside
         \/ \E p \in D!Procs : \E a \in Actions : Queues(p, a) /\ Beside
         \/ Moves \/ Passes \/ Writes
         \/ \E h \in Handlers : \E acts \in Emits[h][D!Current] : Acts(h, acts)
<1>1. CASE UNCHANGED vars
  BY <1>1 DEF vars, busVars, sessionVars, connVars, historyVars, Rests, ClientLeft
<1>2. CASE Next
  <2>1. ServeInv
    BY DEF Ground, Story
  <2> QED
    BY <1>2, <2>1, SessionSteps, SendsOrWaits
<1> QED
  BY <1>1, <1>2

(* What the others leave alone while the consumer works.                   *)
LEMMA ActsFacts ==
  ASSUME Ground, NEW h \in Handlers, NEW acts \in Emits[h][D!Current], Acts(h, acts)
  PROVE  /\ cpc = "dispatch" /\ todo # <<>> /\ h = Head(todo) /\ D!Wants(h, D!Current)
         /\ cpc' = "handling" /\ UNCHANGED <<accepted, received, begun, todo, spc, dClosed>>
         /\ out["consumer"] = <<>> /\ out'["consumer"] = acts
         /\ \A p \in {"reader", "stream"} : out'[p] = out[p]
         /\ Len(received) \in 1 .. Len(accepted) /\ Len(received) \in 1 .. Len(received)
         /\ D!Current = received[Len(received)] /\ D!Current = accepted[Len(received)]
         /\ D!Current \in Actions
         /\ D!Current = UserRequest <=> Len(received) = 1
         /\ acts # <<>> /\ h = "ServerSession"
              => Len(received) = 1 /\ Len(accepted) = 1 /\ Passed(5)' /\ ~spawned
         /\ Shape(h, D!Current, acts)
<1>1. Bus /\ Turns /\ Origins /\ Runs(h, acts)
  BY DEF Ground, Story, Acts
<1>2. D!Current \in Actions
  BY <1>1, RunFacts
<1>3. Shape(h, D!Current, acts)
  BY <1>2, ShapeOfSends
<1>4. cpc = "dispatch"
  BY <1>1, RunFacts
<1>5. out["consumer"] = <<>> /\ Len(received) \in 1 .. Len(received)
  BY <1>1, <1>4, CurrentIs DEF Bus, D!Control
<1>6. UNCHANGED <<spc, dClosed>>
  BY DEF Acts, Inside
<1> QED
  BY <1>1, <1>3, <1>5, <1>6, RunFacts

(* Every step of the session keeps the order of the stream.                *)
LEMMA NextStream ==
  ASSUME Ground, Bus', Stream, [Next]_vars
  PROVE  Stream'
<1>0. out \in [D!Procs -> Seq(Actions)] /\ D!Procs = {"reader", "stream", "consumer"}
  BY DEF Ground, Bus, D!TypeOK, D!Procs
<1>1. CASE Rests \/ Moves \/ Passes \/ Writes
  BY <1>1, StillStream DEF Rests, Moves, Passes, Writes, Inside
<1>2. CASE D!Begin("reader") /\ Beside
  <2>1. UNCHANGED <<accepted, spc, dClosed>> /\ begun' = begun \cup {"reader"}
        /\ out'["stream"] = out["stream"] /\ out'["consumer"] = out["consumer"]
    BY <1>0, <1>2 DEF D!Begin, Beside
  <2>2. Results' = Results /\ Produced' = Produced
    BY <2>1 DEF Results, Produced
  <2>3. InOrder(out["stream"]) => InOrder(out["stream"])'
    BY <2>1, <2>2 DEF InOrder
  <2>4. \A i \in Results' : accepted'[i].ev = Rank(Results', i)
    BY <2>1, <2>2 DEF Stream
  <2> QED
    BY <2>1, <2>3, <2>4 DEF Stream
<1>3. CASE D!Begin("stream") /\ spawned /\ Beside
  BY <1>3, BeginKeepsStream
<1>4. ASSUME NEW p \in D!Procs, Waits(p), Beside PROVE Stream'
  <2>1. UNCHANGED <<accepted, begun, dClosed>>
    BY <1>4 DEF Waits, Beside
  <2>2. CASE p # "stream"
    <3>1. UNCHANGED <<spc["stream"], out["stream"]>>
      BY <1>0, <1>4, <2>2 DEF Waits
    <3>2. out'["consumer"] \in {out["consumer"], <<>>}
      BY <1>0, <1>4, <2>2 DEF Waits
    <3> QED
      BY <2>1, <3>1, <3>2, StillStream
  <2>3. CASE p = "stream"
    <3>1. out'["consumer"] = out["consumer"]
      BY <1>0, <1>4, <2>3 DEF Waits
    <3>2. Results' = Results /\ Produced' = Produced
      BY <2>1 DEF Results, Produced
    <3>3. \A i \in Results' : accepted'[i].ev = Rank(Results', i)
      BY <2>1, <3>2 DEF Stream
    <3>4. /\ InOrder(out["stream"]) /\ out'["stream"] = out["stream"]
               => InOrder(out["stream"])'
      BY <3>2 DEF InOrder
    <3>5. CASE out'["stream"] = out["stream"]
      <4>1. ~dClosed' \/ spc'["stream"] # "idle" => ~dClosed \/ spc["stream"] # "idle"
        BY <1>4, <2>1, <2>3 DEF Waits
      <4> QED
        BY <2>1, <3>1, <3>3, <3>4, <3>5, <4>1 DEF Stream
    <3>6. CASE out["stream"] # <<>> /\ spc'["stream"] = "idle" /\ dClosed
      <4>1. \A i \in 1 .. Len(accepted) : accepted[i] # AgentResultDone
        BY <3>6 DEF Stream
      <4> QED
        BY <2>1, <3>1, <3>3, <3>6, <4>1 DEF Stream
    <3> QED
      BY <1>4, <2>3, <3>5, <3>6 DEF Waits
  <2> QED
    BY <2>2, <2>3
<1>5. ASSUME NEW p \in D!Procs, NEW a \in Actions, Queues(p, a), Beside PROVE Stream'
  BY <1>5, QueueKeepsStream DEF Beside
<1>6. ASSUME NEW h \in Handlers, NEW acts \in Emits[h][D!Current], Acts(h, acts)
      PROVE  Stream'
  <2>1. UNCHANGED <<accepted, begun, spc, dClosed>> /\ out'["stream"] = out["stream"]
        /\ out'["consumer"] = acts /\ Shape(h, D!Current, acts)
    BY <1>6, ActsFacts
  <2>2. Results' = Results /\ Produced' = Produced
    BY <2>1 DEF Results, Produced
  <2>3. InOrder(out["stream"]) => InOrder(out["stream"])'
    BY <2>1, <2>2 DEF InOrder
  <2>4. \A i \in Results' : accepted'[i].ev = Rank(Results', i)
    BY <2>1, <2>2 DEF Stream
  <2>5. \A i \in 1 .. Len(acts) :
          acts[i].type # "AgentResult" /\ (acts[i] = SessionClose => i = Len(acts))
    BY <2>1 DEF Shape
  <2> QED
    BY <2>1, <2>3, <2>4, <2>5 DEF Stream
<1> QED
  BY <1>1, <1>2, <1>3, <1>4, <1>5, <1>6, AllSteps
-----------------------------------------------------------------------------
(* A handler never goes back.                                              *)
LEMMA HadGrows ==
  ASSUME Ground, Bus', [Next]_vars, NEW n \in 1 .. 6
  PROVE  Had(n) <= Had(n)' /\ Had(n) \in Nat /\ Had(n)' \in Nat
<1>0. Bus /\ Registration /\ Turns /\ Origins /\ Gate
  BY DEF Ground, Story
<1>1. Had(n) \in Nat /\ Had(n) <= Len(received) /\ Len(received) \in Nat
  BY <1>0, HadBounds
<1>2. ASSUME Rests \/ Beside \/ Moves \/ Writes PROVE Had(n) <= Had(n)'
  <2>1. Had(n)' = Had(n)
    BY <1>0, <1>2, HadStays
  <2> QED
    BY <1>1, <2>1
<1>3. ASSUME cpc = "dispatch", todo # <<>>, received' = received,
             \/ cpc' = "handling" /\ todo' = todo
             \/ cpc' = "dispatch" /\ todo' = Tail(todo)
      PROVE  Had(n) <= Had(n)'
  <2>1. /\ Head(todo) # HandlerOrder[n] => Had(n)' = Had(n)
        /\ Head(todo) = HandlerOrder[n] => Had(n)' = Len(received)
    BY <1>0, <1>3, HadAdvances
  <2> QED
    BY <1>1, <2>1
<1>4. ASSUME Passes PROVE Had(n) <= Had(n)'
  BY <1>1, <1>3, <1>4 DEF Passes
<1>5. ASSUME NEW h \in Handlers, NEW acts \in Emits[h][D!Current], Acts(h, acts)
      PROVE  Had(n) <= Had(n)'
  BY <1>3, <1>5, ActsFacts
<1>6. Had(n) <= Had(n)'
  BY <1>2, <1>4, <1>5, AllSteps
<1>7. PICK r \in Nat : r = Len(received')
  BY DEF Bus, D!TypeOK
<1>8. Had(n)' \in Int
  BY <1>7 DEF Had
<1>9. PICK h \in Nat : h = Had(n)
  BY <1>1
<1>10. PICK g \in Int : g = Had(n)'
  BY <1>8
<1>11. g \in Nat
  BY <1>6, <1>9, <1>10
<1> QED
  BY <1>6, <1>9, <1>10, <1>11

(* Once a close is on its way, nobody has anything more to send but what   *)
(* is before it: the output handler has been through all results and the   *)
(* server session through the request.                                     *)
CloseLast ==
  CloseSent =>
    /\ out["reader"] = <<>> /\ out["stream"] = <<>>
    /\ \A i \in 1 .. Len(accepted) : accepted[i].type = "AgentResult" => i <= Had(2)
    /\ Had(5) >= 1
    /\ \A i \in 1 .. Len(accepted) :
         accepted[i] = SessionClose => i = Len(accepted) /\ out["consumer"] = <<>>

(* A goroutine that queues an action keeps it.                             *)
LEMMA QueueKeepsClose ==
  ASSUME Ground, Bus', Stream, CloseLast, [Next]_vars,
         NEW p \in D!Procs, NEW a \in Actions, Queues(p, a)
  PROVE  CloseLast'
<1>0. /\ out \in [D!Procs -> Seq(Actions)] /\ D!Procs = {"reader", "stream", "consumer"}
      /\ out[p] \in Seq(Actions) /\ Bus
  BY DEF Ground, Bus, D!TypeOK, D!Procs
<1>1. PICK n \in Nat : n = Len(accepted)
  BY <1>0, ResultsCount
<1>2. /\ Len(accepted') = n + 1 /\ accepted'[n + 1] = a
      /\ \A i \in 1 .. n : accepted'[i] = accepted[i]
  BY <1>1 DEF Queues
<1>3. \A i : i \in 1 .. n + 1 <=> i \in 1 .. n \/ i = n + 1
  BY UpToNext
<1>4. PICK m \in Nat : m = Len(out[p]) /\ m # 0
  BY <1>0, EmptySeq DEF Queues
<1>5. /\ out'[p] = Tail(out[p]) /\ a = out[p][1] /\ 1 \in 1 .. m
      /\ Len(out'[p]) = m - 1 /\ \A i \in 1 .. m - 1 : out'[p][i] = out[p][i + 1]
  BY <1>0, <1>4 DEF Queues
<1>6. a = SessionClose => p = "consumer"
  <2>1. CASE p = "reader"
    BY <1>4, <1>5, <2>1, ActionsDiffer DEF Ground, Story, Origins, ToSend
  <2>2. CASE p = "stream"
    BY <1>4, <1>5, <2>2, ActionsDiffer DEF Ground, Story, Origins, ToSend
  <2> QED
    BY <1>0, <2>1, <2>2
<1>7. CloseSent' => CloseSent
  <2>1. CASE \E i \in 1 .. n + 1 : accepted'[i] = SessionClose
    <3>1. PICK i \in 1 .. n + 1 : accepted'[i] = SessionClose
      BY <2>1
    <3>2. CASE i \in 1 .. n
      BY <1>1, <1>2, <3>1, <3>2 DEF CloseSent
    <3>3. CASE i = n + 1
      BY <1>2, <1>4, <1>5, <1>6, <3>1, <3>3 DEF CloseSent
    <3> QED
      BY <1>3, <3>2, <3>3
  <2>2. CASE \E i \in 1 .. Len(out'["consumer"]) : out'["consumer"][i] = SessionClose
    <3>1. PICK i \in 1 .. Len(out'["consumer"]) : out'["consumer"][i] = SessionClose
      BY <2>2
    <3>2. CASE p = "consumer"
      <4>1. i \in 1 .. m - 1 /\ out["consumer"][i + 1] = SessionClose
        BY <1>5, <3>1, <3>2
      <4>2. i + 1 \in 1 .. m
        BY <4>1
      <4> QED
        BY <1>4, <3>2, <4>1, <4>2 DEF CloseSent
    <3>3. CASE p # "consumer"
      BY <1>0, <3>1, <3>3 DEF CloseSent, Queues
    <3> QED
      BY <3>2, <3>3
  <2> QED
    BY <1>2, <2>1, <2>2 DEF CloseSent
<1> SUFFICES ASSUME CloseSent PROVE CloseLast'
  BY <1>7 DEF CloseLast
<1>8. p = "consumer" /\ out["reader"] = <<>> /\ out["stream"] = <<>>
  BY <1>0 DEF CloseLast, Queues
<1>9. out'["reader"] = <<>> /\ out'["stream"] = <<>>
  BY <1>0, <1>8 DEF Queues
<1>10. PICK h \in Nat : h = Had(2) /\ h <= Had(2)' /\ Had(2)' \in Nat
  BY HadGrows
<1>11. 1 <= Had(5)'
  <2>1. Had(5) >= 1 /\ Had(5) <= Had(5)' /\ Had(5) \in Nat /\ Had(5)' \in Nat
    BY HadGrows DEF CloseLast
  <2> QED
    BY <2>1
<1>12. a.type # "AgentResult"
  BY <1>4, <1>5, <1>8 DEF Stream
<1>13. \A i \in 1 .. n + 1 : accepted'[i].type = "AgentResult" => i <= Had(2)'
  <2> SUFFICES ASSUME NEW i \in 1 .. n + 1, accepted'[i].type = "AgentResult"
               PROVE  i <= Had(2)'
    OBVIOUS
  <2>1. i \in 1 .. n /\ accepted[i].type = "AgentResult"
    BY <1>2, <1>3, <1>12
  <2>2. i <= h
    BY <1>1, <1>10, <2>1 DEF CloseLast
  <2> QED
    BY <1>10, <2>1, <2>2
<1>14. \A i \in 1 .. n : accepted[i] # SessionClose
  BY <1>1, <1>8 DEF CloseLast, Queues
<1>15. a = SessionClose => out'["consumer"] = <<>>
  <2>1. a = SessionClose => m = 1
    BY <1>4, <1>5, <1>8 DEF Stream
  <2>2. out'["consumer"] \in Seq(Actions)
    BY DEF Bus, D!TypeOK, D!Procs
  <2>3. m = 1 => Len(out'["consumer"]) = 0
    <3>1. Len(out'["consumer"]) = m - 1
      BY <1>5, <1>8
    <3>2. m = 1 => m - 1 = 0
      OBVIOUS
    <3> QED
      BY <3>1, <3>2
  <2> QED
    BY <2>1, <2>2, <2>3, EmptySeq
<1>16. \A i \in 1 .. n + 1 :
         accepted'[i] = SessionClose => i = n + 1 /\ out'["consumer"] = <<>>
  BY <1>2, <1>3, <1>14, <1>15
<1> QED
  BY <1>2, <1>9, <1>11, <1>13, <1>16 DEF CloseLast
(* A step that neither queues nor sends keeps it.                          *)
LEMMA StillClose ==
  ASSUME Ground, Bus', CloseLast, [Next]_vars, UNCHANGED accepted,
         UNCHANGED <<out["reader"], out["stream"]>> \/ ~CloseSent,
         out'["consumer"] \in {out["consumer"], <<>>}
  PROVE  CloseLast'
<1>1. Len(<<>>) = 0 /\ 1 .. 0 = {}
  OBVIOUS
<1>2. CloseSent' => CloseSent
  BY <1>1 DEF CloseSent
<1> SUFFICES ASSUME CloseSent PROVE CloseLast'
  BY <1>2 DEF CloseLast
<1>3. PICK n \in Nat : n = Len(accepted)
  BY ResultsCount DEF Ground
<1>4. PICK h \in Nat : h = Had(2) /\ h <= Had(2)' /\ Had(2)' \in Nat
  <2>1. 2 \in 1 .. 6
    OBVIOUS
  <2>2. Had(2) <= Had(2)' /\ Had(2) \in Nat /\ Had(2)' \in Nat
    BY <2>1, HadGrows
  <2> QED
    BY <2>2
<1>5. 1 <= Had(5)'
  <2>1. Had(5) >= 1 /\ Had(5) <= Had(5)' /\ Had(5) \in Nat /\ Had(5)' \in Nat
    BY HadGrows DEF CloseLast
  <2> QED
    BY <2>1
<1>6. ASSUME NEW i \in 1 .. n, accepted'[i].type = "AgentResult" PROVE i <= Had(2)'
  <2>1. i <= h
    BY <1>3, <1>4, <1>6 DEF CloseLast
  <2> QED
    BY <1>4, <2>1
<1> QED
  BY <1>3, <1>5, <1>6 DEF CloseLast

(* The handlers send a close only when nothing more can come, and nothing  *)
(* once they have.                                                         *)
LEMMA ActsKeepClose ==
  ASSUME Ground, Bus', Stream, CloseLast, [Next]_vars,
         NEW h \in Handlers, NEW acts \in Emits[h][D!Current], Acts(h, acts)
  PROVE  CloseLast'
<1>0. Bus /\ Registration /\ Turns /\ Origins /\ Gate /\ todo \in Seq(Handlers)
  BY DEF Ground, Story, Bus, D!TypeOK
<1>1. /\ cpc = "dispatch" /\ todo # <<>> /\ h = Head(todo) /\ D!Wants(h, D!Current)
      /\ cpc' = "handling" /\ UNCHANGED <<accepted, received, todo>>
      /\ out["consumer"] = <<>> /\ out'["consumer"] = acts
      /\ out'["reader"] = out["reader"] /\ out'["stream"] = out["stream"]
      /\ D!Current = received[Len(received)] /\ D!Current = accepted[Len(received)]
      /\ D!Current \in Actions /\ Shape(h, D!Current, acts)
      /\ D!Current = UserRequest <=> Len(received) = 1
  BY ActsFacts
<1>2. PICK r \in Nat : r = Len(received) /\ r \in 1 .. Len(accepted) /\ r >= 1
  BY <1>0, ActsFacts, ReceivedIsPrefix
<1>3. ASSUME NEW n \in 1 .. 6, h = HandlerOrder[n] PROVE Had(n) = r - 1 /\ Had(n)' = r
  BY <1>0, <1>1, <1>2, <1>3, HadAdvances
<1>4. HandlerOrder[2] = "AgentOutputHandler" /\ HandlerOrder[5] = "ServerSession"
      /\ 2 \in 1 .. 6 /\ 5 \in 1 .. 6
  BY DEF HandlerOrder
<1>5. acts # <<>> => \/ h = "AgentOutputHandler" /\ D!Current.type = "AgentResult"
                     \/ h = "ServerSession" /\ D!Current = UserRequest
  BY <1>1, WhatHandlersSend
<1>6. CASE CloseSent
  <2>1. ~(h = "ServerSession" /\ D!Current = UserRequest)
    <3> SUFFICES ASSUME h = "ServerSession", D!Current = UserRequest PROVE FALSE
      OBVIOUS
    <3>1. Had(5) = r - 1 /\ r = 1 /\ Had(5) >= 1
      BY <1>1, <1>2, <1>3, <1>4, <1>6 DEF CloseLast
    <3> QED
      BY <3>1
  <2>2. ~(h = "AgentOutputHandler" /\ D!Current.type = "AgentResult")
    <3> SUFFICES ASSUME h = "AgentOutputHandler", D!Current.type = "AgentResult" PROVE FALSE
      OBVIOUS
    <3>1. Had(2) = r - 1 /\ r <= Had(2)
      BY <1>1, <1>2, <1>3, <1>4, <1>6 DEF CloseLast
    <3> QED
      BY <3>1
  <2> QED
    BY <1>1, <1>5, <2>1, <2>2, StillClose
<1>7. CASE ~CloseSent
  <2>1. \A i \in 1 .. Len(accepted) : accepted[i] # SessionClose
    BY <1>7 DEF CloseSent
  <2> SUFFICES ASSUME NEW k \in 1 .. Len(acts), acts[k] = SessionClose PROVE CloseLast'
    BY <1>1, <2>1 DEF CloseSent, CloseLast
  <2>2. acts # <<>>
    <3>1. Len(<<>>) = 0 /\ k \in 1 .. Len(acts) /\ 1 .. 0 = {}
      OBVIOUS
    <3> QED
      BY <3>1
  <2>3. \/ h = "ServerSession"
        \/ h = "AgentOutputHandler" /\ D!Current = AgentResultDone
    BY <1>1 DEF Shape
  <2>4. out["reader"] = <<>>
    BY <1>2, ReceivedIsPrefix, <1>0, EmptySeq DEF Origins, ToSend
  <2>5. CASE h = "ServerSession"
    <3>1. r = 1 /\ Len(accepted) = 1 /\ ~spawned /\ Had(5)' = 1
      BY <1>2, <1>3, <1>4, <2>2, <2>5, ActsFacts
    <3>2. out["stream"] = <<>>
      BY <1>0, <3>1 DEF Origins, Streaming, Bus, D!Control
    <3>3. \A i \in 1 .. Len(accepted) : accepted[i].type # "AgentResult"
      <4>1. accepted[1] = UserRequest /\ \A i \in 1 .. 1 : i = 1
        BY <1>1, <1>2, <3>1
      <4> QED
        BY <3>1, <4>1, ActionsDiffer
    <3> QED
      BY <1>1, <2>1, <2>4, <3>1, <3>2, <3>3 DEF CloseLast
  <2>6. CASE h = "AgentOutputHandler" /\ D!Current = AgentResultDone
    <3>1. Had(2)' = r
      BY <1>3, <1>4, <2>6
    <3>2. out["stream"] = <<>>
      BY <1>1, <1>2, <2>6 DEF Stream
    <3>3. \A i \in 1 .. Len(accepted) : accepted[i].type = "AgentResult" => i <= r
      BY <1>1, <1>2, <2>6 DEF Stream
    <3>4. Had(5)' >= 1
      <4>1. r # 1
        BY <1>1, <1>2, <2>6, ActionsDiffer
      <4>2. r - 1 <= Had(5)
        BY <1>0, <1>2, <1>4, HadBounds
      <4>3. Had(5) <= Had(5)' /\ Had(5) \in Nat /\ Had(5)' \in Nat
        BY <1>4, HadGrows
      <4> QED
        BY <1>2, <4>1, <4>2, <4>3
    <3> QED
      BY <1>1, <2>1, <2>4, <3>1, <3>2, <3>3, <3>4 DEF CloseLast
  <2> QED
    BY <2>3, <2>5, <2>6
<1> QED
  BY <1>6, <1>7

(* Every step of the session keeps the close last.                         *)
LEMMA NextCloseLast ==
  ASSUME Ground, Bus', Stream, CloseLast, [Next]_vars
  PROVE  CloseLast'
<1>0. /\ out \in [D!Procs -> Seq(Actions)] /\ D!Procs = {"reader", "stream", "consumer"}
      /\ Bus /\ Origins /\ Story
  BY DEF Ground, Story, Bus, D!TypeOK, D!Procs
<1>1. CASE Rests \/ Moves \/ Passes \/ Writes
  BY <1>1, StillClose DEF Rests, Moves, Passes, Writes, Inside
<1>2. CASE D!Begin("reader") /\ Beside
  <2>1. accepted' = accepted /\ out'["consumer"] = out["consumer"] /\ "reader" \notin begun
    BY <1>0, <1>2 DEF D!Begin
  <2>2. ~CloseSent
    <3> SUFFICES ASSUME CloseSent PROVE FALSE
      OBVIOUS
    <3>1. accepted = <<>>
      BY <1>0, <2>1 DEF Origins, InQueue
    <3>2. Len(accepted) = 0
      BY <3>1
    <3>3. Had(5) <= Len(received) /\ Len(received) \in Nat /\ Had(5) \in Nat /\ Had(5) >= 1
      BY <1>0, HadBounds DEF Ground, Story, CloseLast
    <3>4. Len(accepted) = Len(received) + Len(buf) /\ Len(buf) \in Nat
      BY <1>0, ReceivedIsPrefix
    <3> QED
      BY <3>2, <3>3, <3>4
  <2> QED
    BY <2>1, <2>2, StillClose
<1>3. CASE D!Begin("stream") /\ spawned /\ Beside
  <2>1. accepted' = accepted /\ out'["consumer"] = out["consumer"] /\ "stream" \notin begun
    BY <1>0, <1>3 DEF D!Begin
  <2>2. ~CloseSent
    <3> SUFFICES ASSUME CloseSent PROVE FALSE
      OBVIOUS
    <3>1. Received(AgentResultDone)
      BY <1>0, <1>3 DEF Story, Origins, Streaming, ClosedAfterDone
    <3>2. PICK i \in 1 .. Len(received) : received[i] = AgentResultDone
      BY <3>1 DEF Received
    <3>3. i \in 1 .. Len(accepted) /\ accepted[i] = AgentResultDone
      BY <1>0, <3>2, ReceivedIsPrefix
    <3> QED
      BY <2>1, <3>3, ActionsDiffer DEF Stream
  <2> QED
    BY <2>1, <2>2, StillClose
<1>4. ASSUME NEW p \in D!Procs, Waits(p) PROVE CloseLast'
  <2>1. accepted' = accepted /\ out'["consumer"] \in {out["consumer"], <<>>}
    BY <1>0, <1>4 DEF Waits
  <2>2. CASE CloseSent
    <3>1. UNCHANGED <<out["reader"], out["stream"]>>
      BY <1>0, <1>4, <2>2 DEF Waits, CloseLast
    <3> QED
      BY <2>1, <3>1, StillClose
  <2>3. CASE ~CloseSent
    BY <2>1, <2>3, StillClose
  <2> QED
    BY <2>2, <2>3
<1>5. ASSUME NEW p \in D!Procs, NEW a \in Actions, Queues(p, a) PROVE CloseLast'
  BY <1>5, QueueKeepsClose
<1>6. ASSUME NEW h \in Handlers, NEW acts \in Emits[h][D!Current], Acts(h, acts)
      PROVE  CloseLast'
  BY <1>6, ActsKeepClose
<1> QED
  BY <1>1, <1>2, <1>3, <1>4, <1>5, <1>6, AllSteps
-----------------------------------------------------------------------------
(* What was received stays where it is.                                    *)
LEMMA ReceivedStays ==
  ASSUME Ground, Bus', [Next]_vars
  PROVE  /\ Len(received) \in Nat /\ Len(received') \in Nat /\ Len(received) <= Len(received')
         /\ \A i \in 1 .. Len(received) : received'[i] = received[i]
         /\ received' = received \/ D!Receive
<1>0. Bus
  BY DEF Ground
<1>1. received' = received \/ D!Receive
  <2>1. CASE Rests \/ Beside \/ Passes \/ Writes
    BY <2>1 DEF Rests, Beside, Passes, Writes
  <2>2. CASE Moves
    BY <2>2 DEF Moves, Between, D!Snapshot, D!HandlerReturns, D!ConsumerKeeps
  <2>3. ASSUME NEW h \in Handlers, NEW acts \in Emits[h][D!Current], Acts(h, acts)
        PROVE  received' = received
    BY <2>3, ActsFacts
  <2> QED
    BY <2>1, <2>2, <2>3, AllSteps
<1>2. PICK r \in Nat : r = Len(received)
  BY <1>0, ReceivedIsPrefix
<1>3. CASE received' = received
  BY <1>2, <1>3
<1>4. CASE D!Receive
  <2>1. Len(received') = r + 1 /\ \A i \in 1 .. r : received'[i] = received[i]
    BY <1>0, <1>2, <1>4, ReceiveGrows
  <2> QED
    BY <1>2, <1>4, <2>1
<1> QED
  BY <1>1, <1>3, <1>4

(* The log is what was received, as far as the storage has handled it.     *)
Logged ==
  /\ Len(log) = Had(1)
  /\ \A i \in 1 .. Len(log) : log[i] = received[i]

(* The storage handles every action, before all others.                    *)
LEMMA NextLogged ==
  ASSUME Ground, Bus', Logged, [Next]_vars
  PROVE  Logged'
<1>0. Bus /\ Registration /\ Turns /\ Origins /\ Gate /\ TypeOK
  BY DEF Ground, Story
<1>1. PICK n \in Nat : n = Had(1) /\ n <= Len(received) /\ Len(received) \in Nat
  BY <1>0, HadBounds
<1>2. \A i \in 1 .. n : i \in 1 .. Len(received) /\ received'[i] = received[i]
  BY <1>1, ReceivedStays
<1>3. HandlerOrder[1] = "ActionStorage" /\ 1 \in 1 .. 6 /\ "ActionStorage" \in Handlers
  BY DEF HandlerOrder, Handlers
<1>4. Len(log) = n /\ \A i \in 1 .. n : log[i] = received[i]
  BY <1>1 DEF Logged
<1>5. ASSUME log' = log, Had(1)' = Had(1) PROVE Logged'
  BY <1>1, <1>2, <1>4, <1>5 DEF Logged
<1>6. CASE Rests \/ Beside \/ Moves \/ Writes
  <2>1. Had(1)' = Had(1)
    BY <1>0, <1>3, <1>6, HadStays
  <2> QED
    BY <1>5, <1>6, <2>1 DEF Rests, Beside, Moves, Writes
<1>7. CASE Passes
  <2>1. Head(todo) # "ActionStorage"
    BY <1>3, <1>7 DEF Passes, D!Wants, Supports
  <2>2. Had(1)' = Had(1)
    BY <1>0, <1>3, <1>7, <2>1, HadAdvances DEF Passes
  <2> QED
    BY <1>5, <1>7, <2>2 DEF Passes
<1>8. ASSUME NEW h \in Handlers, NEW acts \in Emits[h][D!Current], Acts(h, acts)
      PROVE  Logged'
  <2>1. /\ cpc = "dispatch" /\ todo # <<>> /\ h = Head(todo)
        /\ cpc' = "handling" /\ UNCHANGED <<received, todo>>
        /\ D!Current = received[Len(received)] /\ D!Current \in Actions
    BY <1>8, ActsFacts
  <2>2. CASE h # "ActionStorage"
    <3>1. Had(1)' = Had(1)
      BY <1>0, <1>3, <2>1, <2>2, HadAdvances
    <3> QED
      BY <1>5, <1>8, <2>2, <3>1 DEF Acts
  <2>3. CASE h = "ActionStorage"
    <3>1. Had(1) = Len(received) - 1 /\ Had(1)' = Len(received)
      BY <1>0, <1>3, <2>1, <2>3, HadAdvances
    <3>2. Len(received) = n + 1 /\ Had(1)' = n + 1
      BY <1>1, <3>1
    <3>3. log' = Append(log, D!Current) /\ log \in Seq(Actions)
      BY <1>0, <1>8, <2>3 DEF Acts, TypeOK
    <3>4. PICK a \in Actions : a = D!Current
      BY <2>1
    <3>5. /\ Len(log') = n + 1 /\ log'[n + 1] = a
          /\ \A i \in 1 .. n : log'[i] = log[i]
      BY <1>4, <3>3, <3>4
    <3>6. \A i \in 1 .. n + 1 : log'[i] = received'[i]
      BY <1>4, <2>1, <3>2, <3>4, <3>5, UpToNext
    <3> QED
      BY <3>2, <3>5, <3>6 DEF Logged
  <2> QED
    BY <2>2, <2>3
<1> QED
  BY <1>6, <1>7, <1>8, AllSteps
-----------------------------------------------------------------------------
(* The server ends the exchange only with the close it received last.      *)
Ended ==
  tClosed /\ ~ClientLeft =>
    received # <<>> /\ D!Current = SessionClose /\ Had(3) = Len(received)

(* Behind the close that ends it there is nothing.                         *)
LEMMA EndIsLast ==
  ASSUME Bus, CloseLast, received # <<>>, D!Current = SessionClose
  PROVE  /\ CloseSent /\ Len(accepted) = Len(received) /\ buf = <<>>
         /\ Len(received) \in 1 .. Len(accepted) /\ accepted[Len(received)] = SessionClose
<1>1. PICK r \in Nat : r = Len(received) /\ r # 0
  BY ReceivedIsPrefix, EmptySeq
<1>2. PICK b \in Nat : b = Len(buf)
  BY ReceivedIsPrefix
<1>3. Len(accepted) = r + b /\ r \in 1 .. r + b
  BY <1>1, <1>2, ReceivedIsPrefix
<1>4. accepted[r] = SessionClose
  BY <1>1, ReceivedIsPrefix DEF D!Current
<1>5. CloseSent
  BY <1>3, <1>4 DEF CloseSent
<1>6. r = r + b
  BY <1>3, <1>4, <1>5 DEF CloseLast
<1>7. b = 0
  BY <1>6
<1>8. buf = <<>>
  BY <1>2, <1>7, ReceivedIsPrefix, EmptySeq
<1> QED
  BY <1>1, <1>3, <1>4, <1>5, <1>7, <1>8

(* Every step of the session keeps it.                                     *)
LEMMA NextEnded ==
  ASSUME Ground, Bus', CloseLast, Ended, [Next]_vars
  PROVE  Ended'
<1>0. Bus /\ Registration /\ Turns /\ Origins /\ Gate /\ todo \in Seq(Handlers)
  BY DEF Ground, Story, Bus, D!TypeOK
<1>1. 3 \in 1 .. 6 /\ HandlerOrder[3] = "SessionCloser"
  BY DEF HandlerOrder
<1>2. ASSUME tClosed, ~ClientLeft PROVE Ended'
  <2>1. received # <<>> /\ D!Current = SessionClose /\ Had(3) = Len(received)
    BY <1>2 DEF Ended
  <2>2. buf = <<>>
    BY <1>0, <2>1, EndIsLast
  <2>3. received' = received
    BY <2>2, ReceivedStays DEF D!Receive
  <2>4. PICK r \in Nat : r = Len(received)
    BY <1>0, ReceivedIsPrefix
  <2>5. Had(3) <= Had(3)' /\ Had(3)' \in Nat
    BY <1>1, HadGrows
  <2>6. Had(3)' = r \/ Had(3)' = r - 1
    BY <2>3, <2>4 DEF Had
  <2>7. Had(3)' = r
    BY <2>1, <2>4, <2>5, <2>6
  <2> QED
    BY <2>1, <2>3, <2>4, <2>7 DEF Ended, D!Current
<1>3. ASSUME tClosed', ~ClientLeft', ~tClosed, ~ClientLeft PROVE Ended'
  <2>1. CASE Rests
    BY <1>0, <1>3, <2>1 DEF Rests, Gate
  <2>2. CASE Beside \/ Passes \/ Writes \/ \E h \in Handlers : \E acts : Acts(h, acts)
    BY <1>3, <2>2 DEF Beside, Passes, Writes, Acts
  <2>3. CASE Moves
    <3>1. InCloseAction
      BY <1>3, <2>3 DEF Moves
    <3>2. received' = received
      BY <2>3, <3>1 DEF Moves, Between, D!Receive, D!Snapshot, D!HandlerReturns,
         D!ConsumerKeeps, InCloseAction
    <3>3. cpc = "handling" /\ Head(todo) = "SessionCloser" /\ D!Current = SessionClose
      BY <3>1 DEF InCloseAction
    <3>4. received # <<>> /\ todo # <<>>
      BY <1>0, <3>3 DEF Bus, D!Control
    <3>5. Len(todo) = 4
      BY <1>0, <3>3, <3>4, TurnIs
    <3>6. Passed(3)
      BY <3>3, <3>5 DEF Passed
    <3>7. Had(3)' = Had(3)
      BY <1>0, <1>1, <2>3, HadStays
    <3>8. Had(3)' = Len(received)
      BY <3>6, <3>7 DEF Had
    <3> QED
      BY <3>2, <3>3, <3>4, <3>8 DEF Ended, D!Current
  <2> QED
    BY <2>1, <2>2, <2>3, AllSteps
<1>4. ClientLeft => ClientLeft'
  <2>1. CASE Rests \/ Beside
    BY <2>1 DEF Rests, Beside, ClientLeft
  <2>2. CASE Moves \/ Passes \/ Writes \/ \E h \in Handlers : \E acts : Acts(h, acts)
    BY <2>2 DEF Moves, Passes, Writes, Acts, Inside, ClientLeft
  <2> QED
    BY <2>1, <2>2, AllSteps
<1> QED
  BY <1>2, <1>3, <1>4 DEF Ended
-----------------------------------------------------------------------------
(* What was accepted stays where it is.                                    *)
LEMMA AcceptedStays ==
  ASSUME Ground, Bus', [Next]_vars
  PROVE  /\ Len(accepted) \in Nat
         /\ \A i \in 1 .. Len(accepted) : accepted'[i] = accepted[i]
         /\ \/ accepted' = accepted
            \/ \E p \in D!Procs : \E a \in Actions : Queues(p, a) /\ Beside
         /\ \A k : k \in Results' /\ k \in 1 .. Len(accepted) <=> k \in Results
<1>0. Bus
  BY DEF Ground
<1>1. accepted' = accepted \/ \E p \in D!Procs : \E a \in Actions : Queues(p, a) /\ Beside
  <2>1. CASE Rests \/ Moves \/ Passes \/ Writes
    BY <2>1 DEF Rests, Moves, Passes, Writes, Inside
  <2>2. CASE D!Begin("reader") \/ D!Begin("stream") \/ \E p : Waits(p)
    BY <2>2 DEF D!Begin, Waits
  <2>3. ASSUME NEW h \in Handlers, NEW acts \in Emits[h][D!Current], Acts(h, acts)
        PROVE  accepted' = accepted
    BY <2>3 DEF Acts, Inside
  <2> QED
    BY <2>1, <2>2, <2>3, AllSteps
<1>2. PICK n \in Nat : n = Len(accepted)
  BY <1>0, ResultsCount
<1>3. CASE accepted' = accepted
  <2>1. Results' = Results
    BY <1>3 DEF Results
  <2> QED
    BY <1>0, <1>2, <1>3, <2>1, ResultsCount
<1>4. ASSUME NEW p \in D!Procs, NEW a \in Actions, Queues(p, a)
      PROVE  /\ \A i \in 1 .. Len(accepted) : accepted'[i] = accepted[i]
             /\ \A k : k \in Results' /\ k \in 1 .. Len(accepted) <=> k \in Results
  <2>1. Results' = Results \/ Results' = Results \cup {n + 1}
    BY <1>0, <1>2, <1>4, ResultsGrow
  <2>2. Results \in SUBSET (1 .. n) /\ n + 1 \notin 1 .. n
    BY <1>0, <1>2, ResultsCount
  <2> QED
    BY <1>2, <1>4, <2>1, <2>2 DEF Queues
<1> QED
  BY <1>1, <1>2, <1>3, <1>4

(* The callbacks that were accepted.                                       *)
LEMMA CallbacksCount ==
  ASSUME Bus
  PROVE  /\ Callbacks(accepted) \in SUBSET (1 .. Len(accepted))
         /\ \A i : i \in Callbacks(accepted) <=>
              i \in 1 .. Len(accepted) /\ accepted[i].type = "AgentResultCallback"
<1>1. DOMAIN accepted = 1 .. Len(accepted)
  BY ReceivedIsPrefix
<1> QED
  BY <1>1 DEF Callbacks

(* A callback that is queued is one more.                                  *)
LEMMA CallbacksGrow ==
  ASSUME Bus, Bus', NEW p \in D!Procs, NEW a, Queues(p, a)
  PROVE  /\ a.type = "AgentResultCallback" =>
              Callbacks(accepted)' = Callbacks(accepted) \cup {Len(accepted) + 1}
         /\ a.type # "AgentResultCallback" => Callbacks(accepted)' = Callbacks(accepted)
<1>1. PICK n \in Nat : n = Len(accepted)
  BY ResultsCount
<1>2. /\ Len(accepted') = n + 1 /\ accepted'[n + 1] = a
      /\ \A i \in 1 .. n : accepted'[i] = accepted[i]
  BY <1>1 DEF Queues
<1>3. \A i : i \in Callbacks(accepted) <=>
        i \in 1 .. n /\ accepted[i].type = "AgentResultCallback"
  BY <1>1, CallbacksCount
<1>4. \A i : i \in Callbacks(accepted)' <=>
        i \in 1 .. n + 1 /\ accepted'[i].type = "AgentResultCallback"
  <2>1. DOMAIN accepted' = 1 .. Len(accepted')
    BY DEF Bus, D!TypeOK
  <2> QED
    BY <1>2, <2>1 DEF Callbacks
<1>5. \A i : i \in 1 .. n + 1 <=> i \in 1 .. n \/ i = n + 1
  BY UpToNext
<1>6. CASE a.type = "AgentResultCallback"
  <2>1. Callbacks(accepted)' = Callbacks(accepted) \cup {n + 1}
    BY <1>2, <1>3, <1>4, <1>5, <1>6
  <2> QED
    BY <1>1, <1>6, <2>1
<1>7. CASE a.type # "AgentResultCallback"
  <2>0. n + 1 \notin 1 .. n
    BY <1>1
  <2>1. \A i : i \in Callbacks(accepted)' <=> i \in Callbacks(accepted)
    BY <1>2, <1>3, <1>4, <1>5, <1>7, <2>0
  <2>2. Callbacks(accepted)' = Callbacks(accepted)
    BY <2>1
  <2> QED
    BY <1>7, <2>2
<1> QED
  BY <1>6, <1>7
-----------------------------------------------------------------------------
(* Has the output handler been through the event, was it called back?      *)
Handled(e)    == \E k \in Results : k <= Had(2) /\ accepted[k].ev = e
CalledBack(e) == \E i \in Callbacks(accepted) : accepted[i].ev = e

(* The Send of its callback has failed: the dispatcher is closed, and the  *)
(* consumer queues nothing any more, neither a callback nor the close.     *)
Dropped(e) ==
  /\ dClosed /\ spc["consumer"] = "idle"
  /\ \A i \in Callbacks(accepted) : accepted[i].ev < e
  /\ \A i \in 1 .. Len(accepted) : accepted[i] # SessionClose

(* The output handler asks for the answers in the order of the events: a   *)
(* callback that is queued or about to be is of an event it has been       *)
(* through and not failed on, later than all called back before; and it    *)
(* leaves no event out but at the end, when its Sends fail.                *)
Answering ==
  /\ \A i, j \in Callbacks(accepted) : i < j => accepted[i].ev < accepted[j].ev
  /\ \A i \in Callbacks(accepted) :
       Handled(accepted[i].ev) /\ accepted[i].ev \notin failed
  /\ \A e \in failed : Handled(e)
  /\ \A i \in 1 .. Len(out["consumer"]) :
       out["consumer"][i].type = "AgentResultCallback" =>
         /\ out["consumer"] = <<ResultCallback(out["consumer"][i].ev)>>
         /\ Handled(out["consumer"][i].ev) /\ out["consumer"][i].ev \notin failed
         /\ \A j \in Callbacks(accepted) : accepted[j].ev < out["consumer"][i].ev
  /\ \A k \in Results : k <= Had(2) =>
       \/ accepted[k].ev \in failed \/ CalledBack(accepted[k].ev)
       \/ out["consumer"] = <<ResultCallback(accepted[k].ev)>>
       \/ Dropped(accepted[k].ev)

(* What was handled stays handled, ...                                     *)
LEMMA HandledStays ==
  ASSUME Ground, Bus', [Next]_vars, NEW e, Handled(e)
  PROVE  Handled(e)'
<1>0. Bus
  BY DEF Ground
<1>1. PICK k \in Results : k <= Had(2) /\ accepted[k].ev = e
  BY DEF Handled
<1>2. k \in Nat /\ k \in 1 .. Len(accepted) /\ Len(accepted) \in Nat
  BY <1>0, ResultsCount
<1>3. k \in Results' /\ accepted'[k] = accepted[k]
  BY <1>2, AcceptedStays
<1>4. Had(2) <= Had(2)' /\ Had(2) \in Nat /\ Had(2)' \in Nat
  BY HadGrows
<1>5. k <= Had(2)'
  BY <1>1, <1>2, <1>4
<1> QED
  BY <1>1, <1>3, <1>5 DEF Handled

(* ... and nothing else is, but in the output handler's turn.              *)
LEMMA HandledOnlyThere ==
  ASSUME Ground, Bus', [Next]_vars,
         \A k \in Results : k <= Had(2)' => k <= Had(2)
  PROVE  \A k \in Results' : k <= Had(2)' => k \in Results /\ k <= Had(2)
<1> SUFFICES ASSUME NEW k \in Results', k <= Had(2)' PROVE k \in Results
  OBVIOUS
<1>0. Bus /\ Registration /\ Turns /\ Origins /\ Gate
  BY DEF Ground, Story
<1>1. PICK n \in Nat : n = Len(accepted)
  BY <1>0, ResultsCount
<1>2. k \in 1 .. Len(accepted') /\ Len(accepted') \in Nat
  <2>1. DOMAIN accepted' = 1 .. Len(accepted') /\ Len(accepted') \in Nat
    BY DEF Bus, D!TypeOK
  <2> QED
    BY <2>1 DEF Results
<1>3. CASE accepted' = accepted
  BY <1>1, <1>2, <1>3, AcceptedStays
<1>4. ASSUME NEW p \in D!Procs, NEW a \in Actions, Queues(p, a), Beside PROVE k \in Results
  <2>1. Had(2)' = Had(2)
    BY <1>0, <1>4, HadStays
  <2>2. PICK r \in Nat : r = Len(received) /\ r <= n
    <3>1. Len(accepted) = Len(received) + Len(buf) /\ Len(buf) \in Nat /\ Len(received) \in Nat
      BY <1>0, ReceivedIsPrefix
    <3> QED
      BY <1>1, <3>1
  <2>3. PICK h \in Nat : h = Had(2) /\ h <= r
    BY <1>0, <2>2, HadBounds
  <2>4. k \in 1 .. n
    BY <1>2, <2>1, <2>2, <2>3
  <2> QED
    BY <1>1, <2>4, AcceptedStays
<1> QED
  BY <1>3, <1>4, AcceptedStays

(* An event that comes later was produced later.                           *)
LEMMA HandledBefore ==
  ASSUME Ground, Stream, NEW k \in Results, ~(k <= Had(2)), NEW e, Handled(e)
  PROVE  e < accepted[k].ev
<1>0. Bus /\ Turns /\ Gate
  BY DEF Ground, Story
<1>1. PICK n \in Nat : n = Len(accepted)
  BY <1>0, ResultsCount
<1>2. PICK m \in Results : m <= Had(2) /\ accepted[m].ev = e
  BY DEF Handled
<1>3. Results \in SUBSET (1 .. n)
  BY <1>0, <1>1, ResultsCount
<1>4. PICK h \in Nat : h = Had(2)
  BY <1>0, HadBounds
<1>5. m \in Int /\ k \in Int
  BY <1>3
<1>6. m < k
  BY <1>2, <1>4, <1>5
<1>7. Rank(Results, m) < Rank(Results, k)
  BY <1>3, <1>6, RankIncreases
<1> QED
  BY <1>2, <1>7 DEF Stream

(* A step that handles no event and queues nothing keeps that.             *)
LEMMA StillAnswering ==
  ASSUME Ground, Bus', Answering, [Next]_vars,
         UNCHANGED <<accepted, failed>>, dClosed => dClosed',
         dClosed /\ spc["consumer"] = "idle" => spc'["consumer"] = "idle",
         \A k \in Results : k <= Had(2)' => k <= Had(2),
         \/ out'["consumer"] = out["consumer"]
         \/ /\ \A i \in 1 .. Len(out'["consumer"]) :
                 out'["consumer"][i].type # "AgentResultCallback"
            /\ \/ out["consumer"] = <<>>
               \/ dClosed /\ spc'["consumer"] = "idle" /\ CloseLast
  PROVE  Answering'
<1>1. Results' = Results /\ Callbacks(accepted)' = Callbacks(accepted)
  BY DEF Results, Callbacks
<1>2. \A e : CalledBack(e) => CalledBack(e)'
  BY <1>1 DEF CalledBack
<1>3. \A e : Handled(e) => Handled(e)'
  BY HandledStays
<1>4. \A i, j \in Callbacks(accepted)' : i < j => accepted'[i].ev < accepted'[j].ev
  BY <1>1 DEF Answering
<1>5. \A i \in Callbacks(accepted)' :
        Handled(accepted[i].ev)' /\ accepted'[i].ev \notin failed'
  <2> SUFFICES ASSUME NEW i \in Callbacks(accepted)
               PROVE  Handled(accepted[i].ev)' /\ accepted'[i].ev \notin failed'
    BY <1>1
  <2>1. PICK e : e = accepted[i].ev
    OBVIOUS
  <2>2. Handled(e) /\ e \notin failed
    BY <2>1 DEF Answering
  <2>3. Handled(e)'
    BY <1>3, <2>2
  <2>4. accepted'[i].ev = e
    BY <2>1
  <2> QED
    BY <2>2, <2>3, <2>4 DEF Handled
<1>6. \A e \in failed' : Handled(e)'
  BY <1>3 DEF Answering
<1>7. ASSUME NEW i \in 1 .. Len(out'["consumer"]),
             out'["consumer"][i].type = "AgentResultCallback"
      PROVE  /\ out'["consumer"] = <<ResultCallback(out'["consumer"][i].ev)>>
             /\ Handled(out["consumer"][i].ev)' /\ out'["consumer"][i].ev \notin failed'
             /\ \A j \in Callbacks(accepted)' : accepted'[j].ev < out'["consumer"][i].ev
  <2>1. out'["consumer"] = out["consumer"]
    BY <1>7
  <2>2. PICK e : e = out["consumer"][i].ev
    OBVIOUS
  <2>3. Handled(e) /\ e \notin failed
    BY <1>7, <2>1, <2>2 DEF Answering
  <2>4. Handled(e)'
    BY <1>3, <2>3
  <2>5. Handled(out["consumer"][i].ev)'
    BY <2>1, <2>2, <2>4 DEF Handled
  <2> QED
    BY <1>1, <1>7, <2>1, <2>5 DEF Answering
<1>8. ASSUME NEW k \in Results', k <= Had(2)'
      PROVE  \/ accepted'[k].ev \in failed' \/ CalledBack(accepted[k].ev)'
             \/ out'["consumer"] = <<ResultCallback(accepted'[k].ev)>>
             \/ Dropped(accepted[k].ev)'
  <2>1. k \in Results /\ k <= Had(2)
    BY <1>1, <1>8
  <2>2. PICK e : e = accepted[k].ev
    OBVIOUS
  <2>3. \/ e \in failed \/ CalledBack(e) \/ out["consumer"] = <<ResultCallback(e)>>
        \/ Dropped(e)
    BY <2>1, <2>2 DEF Answering
  <2>4. ASSUME out["consumer"] = <<ResultCallback(e)>>, out'["consumer"] # out["consumer"]
        PROVE  Dropped(accepted[k].ev)'
    <3>1. Len(out["consumer"]) = 1 /\ out["consumer"][1] = ResultCallback(e) /\ 1 \in 1 .. 1
      BY <2>4
    <3>2. ResultCallback(e).type = "AgentResultCallback" /\ ResultCallback(e).ev = e
      BY DEF ResultCallback, Action
    <3>3. \A j \in Callbacks(accepted) : accepted[j].ev < e
      BY <3>1, <3>2 DEF Answering
    <3>4. dClosed' /\ spc'["consumer"] = "idle" /\ CloseLast
      BY <2>4, <3>1
    <3>5. \A i \in 1 .. Len(accepted) : accepted[i] # SessionClose
      BY <3>1, <3>4 DEF CloseLast, CloseSent
    <3> QED
      BY <1>1, <2>2, <3>3, <3>4, <3>5 DEF Dropped
  <2>5. CalledBack(e) => CalledBack(accepted[k].ev)'
    BY <1>1, <2>2 DEF CalledBack
  <2>6. Dropped(e) => Dropped(accepted[k].ev)'
    BY <1>1, <2>2 DEF Dropped
  <2> QED
    BY <2>2, <2>3, <2>4, <2>5, <2>6
<1> QED
  BY <1>4, <1>5, <1>6, <1>7, <1>8 DEF Answering

(* A goroutine that queues an action keeps it.                             *)
LEMMA QueueKeepsAnswering ==
  ASSUME Ground, Bus', Answering, [Next]_vars,
         NEW p \in D!Procs, NEW a \in Actions, Queues(p, a), Beside
  PROVE  Answering'
<1>0. /\ out \in [D!Procs -> Seq(Actions)] /\ D!Procs = {"reader", "stream", "consumer"}
      /\ out[p] \in Seq(Actions)
      /\ Bus /\ Registration /\ Turns /\ Origins /\ Gate
  BY DEF Ground, Story, Bus, D!TypeOK, D!Procs
<1>1. PICK n \in Nat : n = Len(accepted)
  BY <1>0, ResultsCount
<1>2. /\ Len(accepted') = n + 1 /\ accepted'[n + 1] = a
      /\ \A i \in 1 .. n : accepted'[i] = accepted[i]
  BY <1>1 DEF Queues
<1>3. PICK m \in Nat : m = Len(out[p]) /\ m # 0
  BY <1>0, EmptySeq DEF Queues
<1>4. /\ a = out[p][1] /\ 1 \in 1 .. m
      /\ Len(out'[p]) = m - 1 /\ \A i \in 1 .. m - 1 : out'[p][i] = out[p][i + 1]
  BY <1>0, <1>3 DEF Queues
<1>5. a.type = "AgentResultCallback" => p = "consumer"
  <2>1. p = "reader" => a = UserRequest
    BY <1>0, <1>3, <1>4 DEF Origins, ToSend
  <2>2. p = "stream" => a.type = "AgentResult"
    BY <1>0, <1>3, <1>4 DEF Origins, ToSend
  <2> QED
    BY <1>0, <2>1, <2>2, ActionsDiffer
<1>6. /\ Callbacks(accepted) \in SUBSET (1 .. n)
      /\ \A k \in Results : k \in 1 .. n
  BY <1>0, <1>1, CallbacksCount, ResultsCount
<1>7. Had(2)' = Had(2) /\ UNCHANGED <<failed, dClosed>>
  BY <1>0, HadStays DEF Beside
<1>8. \A e : Handled(e) => Handled(e)'
  BY HandledStays
<1>9. \A k \in Results' : k <= Had(2)' => k \in Results /\ k <= Had(2) /\ k \in 1 .. n
  BY <1>6, <1>7, HandledOnlyThere
<1>10. \A e \in failed' : Handled(e)'
  BY <1>7, <1>8 DEF Answering
<1>11. ASSUME NEW i \in Callbacks(accepted)
       PROVE  /\ accepted'[i] = accepted[i]
              /\ Handled(accepted[i].ev)' /\ accepted'[i].ev \notin failed'
  <2>1. PICK e : e = accepted[i].ev
    OBVIOUS
  <2>2. accepted'[i] = accepted[i]
    BY <1>2, <1>6
  <2>3. Handled(e)' /\ e \notin failed
    BY <1>8, <2>1 DEF Answering
  <2>4. Handled(accepted[i].ev)'
    BY <2>1, <2>2, <2>3 DEF Handled
  <2> QED
    BY <1>7, <2>1, <2>2, <2>3, <2>4
<1>12. ASSUME NEW k \in Results', k <= Had(2)',
              NEW e, e = accepted[k].ev, e \in failed \/ CalledBack(e)
       PROVE  accepted'[k].ev \in failed' \/ CalledBack(accepted[k].ev)'
  <2>1. accepted'[k].ev = e
    BY <1>2, <1>9, <1>12
  <2>2. Callbacks(accepted) \subseteq Callbacks(accepted)'
    BY <1>0, CallbacksGrow
  <2>3. ASSUME CalledBack(e) PROVE CalledBack(accepted[k].ev)'
    <3>1. PICK i \in Callbacks(accepted) : accepted[i].ev = e
      BY <2>3 DEF CalledBack
    <3>2. i \in Callbacks(accepted)' /\ accepted'[i].ev = e
      BY <1>11, <2>2, <3>1
    <3> QED
      BY <2>1, <3>2 DEF CalledBack
  <2> QED
    BY <1>7, <1>12, <2>1, <2>3
<1>drop. ASSUME NEW k \in Results', k <= Had(2)', NEW e, e = accepted[k].ev, Dropped(e)
         PROVE  a.type # "AgentResultCallback" /\ Dropped(accepted[k].ev)'
  <2>1. p # "consumer" /\ spc'["consumer"] = "idle" /\ dClosed'
    BY <1>0, <1>7, <1>drop DEF Dropped, Queues
  <2>2. a.type # "AgentResultCallback" /\ a # SessionClose
    <3>1. p = "reader" => a = UserRequest
      BY <1>0, <1>3, <1>4 DEF Origins, ToSend
    <3>2. p = "stream" => a.type = "AgentResult"
      BY <1>0, <1>3, <1>4 DEF Origins, ToSend
    <3> QED
      BY <1>0, <2>1, <3>1, <3>2, ActionsDiffer
  <2>3. Callbacks(accepted)' = Callbacks(accepted) /\ accepted'[k].ev = e
    BY <1>0, <1>2, <1>9, <1>drop, <2>2, CallbacksGrow
  <2>4. \A i \in Callbacks(accepted)' : accepted'[i].ev < e
    BY <1>11, <1>drop, <2>3 DEF Dropped
  <2>5. \A i \in 1 .. n + 1 : accepted'[i] # SessionClose
    BY <1>1, <1>2, <1>drop, <2>2, UpToNext DEF Dropped
  <2> QED
    BY <1>2, <2>1, <2>2, <2>3, <2>4, <2>5 DEF Dropped
<1>13. CASE a.type = "AgentResultCallback"
  <2>1. PICK e : e = a.ev
    OBVIOUS
  <2>2. /\ out["consumer"] = <<ResultCallback(e)>>
        /\ Handled(e) /\ e \notin failed
        /\ \A j \in Callbacks(accepted) : accepted[j].ev < e
    BY <1>3, <1>4, <1>5, <1>13, <2>1 DEF Answering
  <2>3. Len(out'["consumer"]) = 0
    <3>1. Len(<<ResultCallback(e)>>) = 1
      OBVIOUS
    <3>2. m = 1
      BY <1>3, <1>5, <1>13, <2>2, <3>1
    <3>3. Len(out'["consumer"]) = m - 1
      BY <1>4, <1>5, <1>13
    <3> QED
      BY <3>2, <3>3
  <2>4. Callbacks(accepted)' = Callbacks(accepted) \cup {n + 1}
    BY <1>0, <1>1, <1>13, CallbacksGrow
  <2>5. ASSUME NEW i \in Callbacks(accepted)', NEW j \in Callbacks(accepted)', i < j
        PROVE  accepted'[i].ev < accepted'[j].ev
    <3>1. ~(n + 1 < n + 1) /\ \A k \in 1 .. n : ~(n + 1 < k)
      OBVIOUS
    <3>2. i \in Callbacks(accepted)
      BY <1>6, <2>4, <2>5, <3>1
    <3>3. CASE j = n + 1
      BY <1>2, <1>11, <2>1, <2>2, <3>2, <3>3
    <3>4. CASE j \in Callbacks(accepted)
      BY <1>11, <2>5, <3>2, <3>4 DEF Answering
    <3> QED
      BY <2>4, <3>3, <3>4
  <2>6. ASSUME NEW i \in Callbacks(accepted)'
        PROVE  Handled(accepted[i].ev)' /\ accepted'[i].ev \notin failed'
    <3>1. CASE i = n + 1
      <4>1. Handled(e)' /\ accepted'[i].ev = e
        BY <1>2, <1>8, <2>1, <2>2, <3>1
      <4>2. Handled(accepted[i].ev)'
        BY <4>1 DEF Handled
      <4> QED
        BY <1>7, <2>2, <4>1, <4>2
    <3>2. CASE i \in Callbacks(accepted)
      BY <1>11, <3>2
    <3> QED
      BY <2>4, <2>6, <3>1, <3>2
  <2>7. ASSUME NEW k \in Results', k <= Had(2)'
        PROVE  accepted'[k].ev \in failed' \/ CalledBack(accepted[k].ev)'
    <3>1. PICK d : d = accepted[k].ev
      OBVIOUS
    <3>2. d \in failed \/ CalledBack(d) \/ out["consumer"] = <<ResultCallback(d)>>
      BY <1>9, <1>13, <1>drop, <2>7, <3>1 DEF Answering
    <3>3. CASE out["consumer"] = <<ResultCallback(d)>>
      <4>1. d = e
        BY <2>2, <3>3 DEF ResultCallback, Action
      <4>2. n + 1 \in Callbacks(accepted)' /\ accepted'[n + 1].ev = d
        BY <1>2, <2>1, <2>4, <4>1
      <4>3. accepted'[k].ev = d
        BY <1>2, <1>9, <2>7, <3>1
      <4> QED
        BY <4>2, <4>3 DEF CalledBack
    <3>4. CASE d \in failed \/ CalledBack(d)
      BY <1>12, <2>7, <3>1, <3>4
    <3> QED
      BY <3>2, <3>3, <3>4
  <2>8. \A i : i \notin 1 .. 0
    OBVIOUS
  <2> QED
    BY <1>10, <2>3, <2>5, <2>6, <2>7, <2>8 DEF Answering
<1>14. CASE a.type # "AgentResultCallback"
  <2>1. Callbacks(accepted)' = Callbacks(accepted)
    BY <1>0, <1>14, CallbacksGrow
  <2>2. ASSUME NEW i \in 1 .. Len(out'["consumer"]),
               out'["consumer"][i].type = "AgentResultCallback"
        PROVE  out'["consumer"] = out["consumer"]
    <3>1. CASE p = "consumer"
      <4>1. i \in 1 .. m - 1
        BY <1>4, <2>2, <3>1
      <4>2. i + 1 \in 1 .. m /\ m # 1
        BY <4>1
      <4>3. out["consumer"][i + 1].type = "AgentResultCallback"
        BY <1>4, <2>2, <3>1, <4>1
      <4>4. out["consumer"] = <<ResultCallback(out["consumer"][i + 1].ev)>>
        BY <1>3, <3>1, <4>2, <4>3 DEF Answering
      <4>5. m = 1
        BY <1>3, <3>1, <4>4
      <4> QED
        BY <4>2, <4>5
    <3>2. CASE p # "consumer"
      BY <1>0, <3>2 DEF Queues
    <3> QED
      BY <3>1, <3>2
  <2>3. ASSUME NEW e, out["consumer"] = <<ResultCallback(e)>>
        PROVE  out'["consumer"] = out["consumer"]
    <3>1. p # "consumer"
      BY <1>4, <1>14, <2>3 DEF ResultCallback, Action
    <3> QED
      BY <1>0, <3>1 DEF Queues
  <2>4. ASSUME NEW i \in 1 .. Len(out'["consumer"]),
               out'["consumer"][i].type = "AgentResultCallback"
        PROVE  /\ out'["consumer"] = <<ResultCallback(out'["consumer"][i].ev)>>
               /\ Handled(out["consumer"][i].ev)' /\ out'["consumer"][i].ev \notin failed'
               /\ \A j \in Callbacks(accepted)' : accepted'[j].ev < out'["consumer"][i].ev
    <3>1. out'["consumer"] = out["consumer"]
      BY <2>2, <2>4
    <3>2. PICK e : e = out["consumer"][i].ev
      OBVIOUS
    <3>3. /\ out["consumer"] = <<ResultCallback(e)>> /\ Handled(e) /\ e \notin failed
          /\ \A j \in Callbacks(accepted) : accepted[j].ev < e
      BY <2>4, <3>1, <3>2 DEF Answering
    <3>4. Handled(e)' /\ out'["consumer"][i].ev = e
      BY <1>8, <3>1, <3>2, <3>3
    <3>5. Handled(out["consumer"][i].ev)'
      BY <3>4 DEF Handled
    <3> QED
      BY <1>7, <1>11, <2>1, <3>1, <3>3, <3>4, <3>5
  <2>5. ASSUME NEW k \in Results', k <= Had(2)'
        PROVE  \/ accepted'[k].ev \in failed' \/ CalledBack(accepted[k].ev)'
               \/ out'["consumer"] = <<ResultCallback(accepted'[k].ev)>>
               \/ Dropped(accepted[k].ev)'
    <3>1. PICK d : d = accepted[k].ev
      OBVIOUS
    <3>2. \/ d \in failed \/ CalledBack(d) \/ out["consumer"] = <<ResultCallback(d)>>
          \/ Dropped(d)
      BY <1>9, <2>5, <3>1 DEF Answering
    <3>3. accepted'[k].ev = d
      BY <1>2, <1>9, <2>5, <3>1
    <3> QED
      BY <1>12, <1>drop, <2>3, <2>5, <3>1, <3>2, <3>3
  <2>6. \A i, j \in Callbacks(accepted)' : i < j => accepted'[i].ev < accepted'[j].ev
    BY <1>11, <2>1 DEF Answering
  <2> QED
    BY <1>10, <1>11, <2>1, <2>4, <2>5, <2>6 DEF Answering
<1> QED
  BY <1>13, <1>14

(* The output handler takes the next event, and asks for its answer or     *)
(* fails on it.                                                            *)
LEMMA OutputKeepsAnswering ==
  ASSUME Ground, Bus', Stream, Answering, [Next]_vars,
         NEW acts \in Emits["AgentOutputHandler"][D!Current],
         Acts("AgentOutputHandler", acts), D!Current # AgentResultDone
  PROVE  Answering'
<1>0. Bus /\ Registration /\ Turns /\ Origins /\ Gate
  BY DEF Ground, Story
<1>1. HandlerOrder[2] = "AgentOutputHandler" /\ 2 \in 1 .. 6 /\ "AgentOutputHandler" \in Handlers
  BY DEF HandlerOrder, Handlers
<1>2. /\ cpc = "dispatch" /\ todo # <<>> /\ "AgentOutputHandler" = Head(todo)
      /\ D!Wants("AgentOutputHandler", D!Current)
      /\ cpc' = "handling" /\ UNCHANGED <<accepted, received, todo, dClosed, spc>>
      /\ out["consumer"] = <<>> /\ out'["consumer"] = acts
      /\ D!Current = accepted[Len(received)]
      /\ D!Current \in Actions /\ Shape("AgentOutputHandler", D!Current, acts)
  BY <1>1, ActsFacts
<1>3. PICK r \in Nat : r = Len(received) /\ r \in 1 .. Len(accepted) /\ r >= 1
  BY <1>0, <1>1, ActsFacts, ReceivedIsPrefix
<1>4. Had(2) = r - 1 /\ Had(2)' = r
  BY <1>0, <1>1, <1>2, <1>3, HadAdvances
<1>5. PICK e \in 0 .. MaxEvents : e = D!Current.ev
  BY <1>2 DEF Actions
<1>6. D!Current.type = "AgentResult" /\ e > 0
  <2>1. D!Current.type = "AgentResult"
    BY <1>2, WantedTypes
  <2>2. e # 0
    BY <1>2, <1>5, <2>1 DEF Actions, AgentResultDone, Action
  <2> QED
    BY <1>5, <2>1, <2>2, LiveSessionAssumption
<1>7. r \in Results /\ accepted[r].ev = e /\ ~(r <= Had(2))
  BY <1>0, <1>2, <1>3, <1>4, <1>5, <1>6, ResultsCount
<1>8. \A d : Handled(d) => d < e
  BY <1>7, HandledBefore
<1>9. ~Handled(e)
  <2>1. ~(e < e)
    BY <1>5, LiveSessionAssumption
  <2> QED
    BY <1>8, <2>1
<1>10. Results' = Results /\ Callbacks(accepted)' = Callbacks(accepted)
  BY <1>2 DEF Results, Callbacks
<1>11. \A d : Handled(d) => Handled(d)'
  BY HandledStays
<1>12. Handled(e)'
  <2>1. r <= Had(2)' /\ accepted'[r].ev = e /\ r \in Results'
    BY <1>2, <1>3, <1>4, <1>7, <1>10
  <2> QED
    BY <2>1 DEF Handled
<1>13. \A i \in Callbacks(accepted) :
         accepted[i].ev < e /\ accepted[i].ev \notin failed /\ Handled(accepted[i].ev)
  BY <1>8 DEF Answering
<1>14. \A i, j \in Callbacks(accepted)' : i < j => accepted'[i].ev < accepted'[j].ev
  BY <1>2, <1>10 DEF Answering
<1>15. \A k \in Results : k <= Had(2)' => k <= Had(2) \/ k = r
  <2>1. \A k \in Results : k \in Nat
    BY <1>0, ResultsCount
  <2> QED
    BY <1>4, <2>1
<1>16. ASSUME NEW i \in Callbacks(accepted)' PROVE Handled(accepted[i].ev)'
  <2>1. PICK d : d = accepted[i].ev
    OBVIOUS
  <2>2. Handled(d)'
    BY <1>10, <1>11, <1>13, <2>1
  <2> QED
    BY <1>2, <2>1, <2>2 DEF Handled
<1>17. ASSUME NEW k \in Results', k <= Had(2)', k # r
       PROVE  \/ accepted'[k].ev \in failed \/ CalledBack(accepted[k].ev)'
              \/ Dropped(accepted[k].ev)'
  <2>1. PICK d : d = accepted[k].ev
    OBVIOUS
  <2>2. \/ d \in failed \/ CalledBack(d) \/ out["consumer"] = <<ResultCallback(d)>>
        \/ Dropped(d)
    BY <1>10, <1>15, <1>17, <2>1 DEF Answering
  <2>3. out["consumer"] # <<ResultCallback(d)>>
    BY <1>2
  <2>4. CalledBack(d) => CalledBack(accepted[k].ev)'
    BY <1>2, <1>10, <2>1 DEF CalledBack
  <2>5. Dropped(d) => Dropped(accepted[k].ev)'
    BY <1>2, <1>10, <2>1 DEF Dropped
  <2> QED
    BY <1>2, <2>1, <2>2, <2>3, <2>4, <2>5
<1>18. acts = <<ResultCallback(e)>> \/ acts = <<ProcessingError(e)>>
  BY <1>2, <1>5, <1>6 DEF Shape
<1>19. CASE acts = <<ResultCallback(e)>>
  <2>1. failed' = failed
    <3>1. ResultCallback(e) # ProcessingError(e)
      BY DEF ResultCallback, ProcessingError, Action
    <3>2. acts # <<ProcessingError(e)>>
      BY <1>19, <3>1
    <3> QED
      BY <1>5, <3>2 DEF Acts
  <2>2. ASSUME NEW i \in 1 .. Len(out'["consumer"])
        PROVE  /\ out'["consumer"] = <<ResultCallback(out'["consumer"][i].ev)>>
               /\ Handled(out["consumer"][i].ev)' /\ out'["consumer"][i].ev \notin failed'
               /\ \A j \in Callbacks(accepted)' : accepted'[j].ev < out'["consumer"][i].ev
    <3>1. i = 1 /\ out'["consumer"][i] = ResultCallback(e) /\ out'["consumer"][i].ev = e
      BY <1>2, <1>19, <2>2 DEF ResultCallback, Action
    <3>2. Handled(out["consumer"][i].ev)'
      BY <1>12, <3>1 DEF Handled
    <3>3. e \notin failed
      BY <1>9 DEF Answering
    <3> QED
      BY <1>2, <1>10, <1>13, <1>19, <2>1, <3>1, <3>2, <3>3
  <2>3. ASSUME NEW k \in Results', k <= Had(2)'
        PROVE  \/ accepted'[k].ev \in failed' \/ CalledBack(accepted[k].ev)'
               \/ out'["consumer"] = <<ResultCallback(accepted'[k].ev)>>
               \/ Dropped(accepted[k].ev)'
    <3>1. CASE k = r
      BY <1>2, <1>7, <1>19, <3>1
    <3>2. CASE k # r
      BY <1>17, <2>1, <2>3, <3>2
    <3> QED
      BY <3>1, <3>2
  <2>4. \A i \in Callbacks(accepted)' :
          Handled(accepted[i].ev)' /\ accepted'[i].ev \notin failed'
    BY <1>2, <1>10, <1>13, <1>16, <2>1
  <2>5. \A d \in failed' : Handled(d)'
    BY <1>11, <2>1 DEF Answering
  <2> QED
    BY <1>14, <2>2, <2>3, <2>4, <2>5 DEF Answering
<1>20. CASE acts = <<ProcessingError(e)>>
  <2>1. failed' = failed \cup {e}
    BY <1>5, <1>20 DEF Acts
  <2>2. \A i \in 1 .. Len(out'["consumer"]) : out'["consumer"][i].type # "AgentResultCallback"
    BY <1>2, <1>20 DEF ProcessingError, Action
  <2>3. ASSUME NEW k \in Results', k <= Had(2)'
        PROVE  \/ accepted'[k].ev \in failed' \/ CalledBack(accepted[k].ev)'
               \/ Dropped(accepted[k].ev)'
    <3>1. CASE k = r
      BY <1>2, <1>7, <2>1, <3>1
    <3>2. CASE k # r
      BY <1>17, <2>1, <2>3, <3>2
    <3> QED
      BY <3>1, <3>2
  <2>4. \A i \in Callbacks(accepted)' :
          Handled(accepted[i].ev)' /\ accepted'[i].ev \notin failed'
    <3>1. \A i \in Callbacks(accepted) : accepted[i].ev # e
      BY <1>9, <1>13
    <3> QED
      BY <1>2, <1>10, <1>13, <1>16, <2>1, <3>1
  <2>5. \A d \in failed' : Handled(d)'
    BY <1>11, <1>12, <2>1 DEF Answering
  <2> QED
    BY <1>14, <2>2, <2>3, <2>4, <2>5 DEF Answering
<1> QED
  BY <1>18, <1>19, <1>20

(* Every step of the session keeps the order of the callbacks.             *)
LEMMA NextAnswering ==
  ASSUME Ground, Bus', Stream, CloseLast, Answering, [Next]_vars
  PROVE  Answering'
<1>0. /\ out \in [D!Procs -> Seq(Actions)] /\ D!Procs = {"reader", "stream", "consumer"}
      /\ Bus /\ Registration /\ Turns /\ Origins /\ Gate
  BY DEF Ground, Story, Bus, D!TypeOK, D!Procs
<1>1. HandlerOrder[2] = "AgentOutputHandler" /\ 2 \in 1 .. 6
  BY DEF HandlerOrder
<1>2. CASE Rests \/ Moves \/ Writes
  <2>1. Had(2)' = Had(2)
    BY <1>0, <1>1, <1>2, HadStays
  <2> QED
    BY <1>2, <2>1, StillAnswering DEF Rests, Moves, Writes, Inside
<1>3. CASE (D!Begin("reader") \/ D!Begin("stream")) /\ Beside
  <2>1. Had(2)' = Had(2)
    BY <1>0, <1>1, <1>3, HadStays
  <2>2. UNCHANGED <<accepted, failed, dClosed, spc>> /\ out'["consumer"] = out["consumer"]
    BY <1>0, <1>3 DEF D!Begin, Beside
  <2> QED
    BY <2>1, <2>2, StillAnswering
<1>4. ASSUME NEW p \in D!Procs, Waits(p), Beside PROVE Answering'
  <2>1. Had(2)' = Had(2)
    BY <1>0, <1>1, <1>4, HadStays
  <2>2. UNCHANGED <<accepted, failed, dClosed>>
    BY <1>4 DEF Waits, Beside
  <2>3. \/ out'["consumer"] = out["consumer"]
        \/ out'["consumer"] = <<>> /\ dClosed /\ spc'["consumer"] = "idle"
    BY <1>0, <1>4 DEF Waits
  <2>4. dClosed /\ spc["consumer"] = "idle" => spc'["consumer"] = "idle"
    BY <1>0, <1>4 DEF Waits
  <2>5. Len(<<>>) = 0 /\ \A i : i \notin 1 .. 0
    OBVIOUS
  <2> QED
    BY <2>1, <2>2, <2>3, <2>4, <2>5, StillAnswering
<1>5. ASSUME NEW p \in D!Procs, NEW a \in Actions, Queues(p, a), Beside PROVE Answering'
  BY <1>5, QueueKeepsAnswering
<1>turn. ASSUME cpc = "dispatch", todo # <<>>, received' = received,
                \/ cpc' = "handling" /\ todo' = todo
                \/ cpc' = "dispatch" /\ todo' = Tail(todo),
                Head(todo) = "AgentOutputHandler"
                  => D!Current.type # "AgentResult" \/ D!Current = AgentResultDone
         PROVE  \A k \in Results : k <= Had(2)' => k <= Had(2)
  <2>1. CASE Head(todo) # "AgentOutputHandler"
    BY <1>0, <1>1, <1>turn, <2>1, HadAdvances
  <2>2. CASE Head(todo) = "AgentOutputHandler"
    <3>1. PICK r \in Nat : r = Len(received)
      BY <1>0, ReceivedIsPrefix
    <3>2. Had(2) = r - 1 /\ Had(2)' = r
      BY <1>0, <1>1, <1>turn, <2>2, <3>1, HadAdvances
    <3>3. D!Current = accepted[r]
      BY <1>0, <1>turn, <3>1, CurrentIs
    <3>4. r \notin Results
      BY <1>0, <1>turn, <2>2, <3>3, ResultsCount, ActionsDiffer
    <3>5. \A k \in Results : k \in Nat /\ k # r
      BY <1>0, <3>4, ResultsCount
    <3> QED
      BY <3>2, <3>5
  <2> QED
    BY <2>1, <2>2
<1>6. CASE Passes
  <2>1. D!Current \in Actions
    BY <1>0, <1>6, CurrentIs DEF Passes
  <2>2. Head(todo) = "AgentOutputHandler" => D!Current.type # "AgentResult"
    BY <1>6, <2>1, WantedTypes DEF Passes
  <2>3. \A k \in Results : k <= Had(2)' => k <= Had(2)
    BY <1>6, <1>turn, <2>2 DEF Passes
  <2> QED
    BY <1>6, <2>3, StillAnswering DEF Passes, Inside
<1>7. ASSUME NEW h \in Handlers, NEW acts \in Emits[h][D!Current], Acts(h, acts)
      PROVE  Answering'
  <2>1. /\ cpc = "dispatch" /\ todo # <<>> /\ h = Head(todo) /\ D!Wants(h, D!Current)
        /\ cpc' = "handling" /\ UNCHANGED <<accepted, received, todo, dClosed, spc>>
        /\ out["consumer"] = <<>> /\ out'["consumer"] = acts
        /\ D!Current \in Actions /\ Shape(h, D!Current, acts)
    BY <1>7, ActsFacts
  <2>2. CASE h = "AgentOutputHandler" /\ D!Current # AgentResultDone
    BY <1>7, <2>2, OutputKeepsAnswering
  <2>3. CASE ~(h = "AgentOutputHandler" /\ D!Current # AgentResultDone)
    <3>1. \A i \in 1 .. Len(acts) : acts[i].type # "AgentResultCallback"
      BY <2>1, <2>3 DEF Shape
    <3>2. \A k \in Results : k <= Had(2)' => k <= Had(2)
      BY <1>turn, <2>1, <2>3
    <3>3. failed' = failed
      <4>1. CASE h # "AgentOutputHandler"
        BY <1>7, <4>1 DEF Acts
      <4>2. CASE h = "AgentOutputHandler" /\ D!Current = AgentResultDone
        <5>1. acts = <<SessionClose>> /\ SessionClose # ProcessingError(D!Current.ev)
          BY <2>1, <4>2 DEF Shape, SessionClose, ProcessingError, Action
        <5>2. acts # <<ProcessingError(D!Current.ev)>>
          BY <5>1
        <5> QED
          BY <1>7, <5>2 DEF Acts
      <4> QED
        BY <2>3, <4>1, <4>2
    <3> QED
      BY <2>1, <3>1, <3>2, <3>3, StillAnswering
  <2> QED
    BY <2>2, <2>3
<1> QED
  BY <1>2, <1>3, <1>4, <1>5, <1>6, <1>7, AllSteps
-----------------------------------------------------------------------------
(* A client that has left does not come back.                              *)
LEMMA LeftStays ==
  ASSUME Ground, [Next]_vars, ClientLeft
  PROVE  ClientLeft'
<1>1. CASE Rests \/ Beside
  BY <1>1 DEF Rests, Beside, ClientLeft
<1>2. CASE Moves \/ Passes \/ Writes \/ \E h \in Handlers : \E acts : Acts(h, acts)
  BY <1>2 DEF Moves, Passes, Writes, Acts, Inside, ClientLeft
<1> QED
  BY <1>1, <1>2, AllSteps

(* While something else than a close is handled the exchange is open.      *)
LEMMA OpenWhile ==
  ASSUME Ground, Ended, ~ClientLeft, D!Current.type # "SessionClose"
  PROVE  ~tClosed /\ ~ssClosed
<1>1. ~tClosed
  BY ActionsDiffer DEF Ended
<1> QED
  BY <1>1 DEF Ground, Gate

(* The callbacks whose answers have been dealt with.                       *)
Written == IF writing THEN Had(6) - 1 ELSE Had(6)
Asked   == {k \in Callbacks(accepted) : k <= Written}

(* An answer may have been lost with the consumer's context: then it was   *)
(* of the last action, and the consumer takes no other.                    *)
Missed ==
  /\ ctxDone /\ cpc \notin Taking
  /\ received # <<>> /\ D!Current.type = "AgentResultCallback"

(* The answers are those of the callbacks that have been dealt with, as    *)
(* long as the client is there of all of them, in their order, but for one *)
(* that may be missed at the end.                                          *)
Answers ==
  /\ \A i \in 1 .. Len(replies) : \E k \in Asked : accepted[k].ev = replies[i]
  /\ ~ClientLeft => IsSelection(replies, Events(accepted), Asked) \/ Missed

(* They are among the actions that were accepted.                          *)
LEMMA AskedAre ==
  ASSUME Ground
  PROVE  /\ Written \in Int /\ Written <= Len(received) /\ Len(received) - 2 <= Written
         /\ Len(received) \in Nat /\ Len(accepted) \in Nat /\ Len(received) <= Len(accepted)
         /\ \A k : k \in Asked <=>
              /\ k \in 1 .. Len(accepted) /\ k <= Written
              /\ accepted[k].type = "AgentResultCallback"
<1>0. Bus /\ Turns /\ Gate /\ 6 \in 1 .. 6
  BY DEF Ground, Story
<1>1. PICK r \in Nat : r = Len(received)
  BY <1>0, ReceivedIsPrefix
<1>2. PICK n \in Nat : n = Len(accepted) /\ r <= n
  <2>1. Len(accepted) = r + Len(buf) /\ Len(buf) \in Nat
    BY <1>0, <1>1, ReceivedIsPrefix
  <2> QED
    BY <2>1
<1>3. PICK h \in Nat : h = Had(6) /\ h <= r /\ r - 1 <= h
  BY <1>0, <1>1, HadBounds
<1>4. Written = h - 1 \/ Written = h
  BY <1>3 DEF Written
<1> QED
  BY <1>0, <1>1, <1>2, <1>3, <1>4, CallbacksCount DEF Asked

(* What they become, by how far the callback handler gets.                 *)
LEMMA AskedNext ==
  ASSUME Ground, Bus', [Next]_vars, NEW w \in Int, Written' = w, w <= Len(received)
  PROVE  \A k : k \in Asked' <=>
           k \in 1 .. Len(accepted) /\ k <= w /\ accepted[k].type = "AgentResultCallback"
<1>1. PICK n \in Nat : n = Len(accepted) /\ w <= n
  BY AskedAre
<1>2. \A k : k \in Asked' <=>
        k \in 1 .. Len(accepted') /\ k <= w /\ accepted'[k].type = "AgentResultCallback"
  <2>1. DOMAIN accepted' = 1 .. Len(accepted')
    BY DEF Bus, D!TypeOK
  <2> QED
    BY <2>1 DEF Asked, Callbacks
<1>3. Len(accepted') \in Nat /\ n <= Len(accepted') /\ \A i \in 1 .. n : accepted'[i] = accepted[i]
  <2>1. Len(accepted') \in Nat
    BY DEF Bus, D!TypeOK
  <2>2. accepted' = accepted \/ Len(accepted') = n + 1
    BY <1>1, AcceptedStays DEF Queues
  <2> QED
    BY <1>1, <2>1, <2>2, AcceptedStays
<1>4. \A k : k \in 1 .. Len(accepted') /\ k <= w <=> k \in 1 .. n /\ k <= w
  BY <1>1, <1>3
<1> QED
  BY <1>1, <1>2, <1>3, <1>4

(* A missed answer stays the last: the consumer takes no other action.     *)
LEMMA MissedStays ==
  ASSUME Ground, Bus', [Next]_vars, Missed
  PROVE  Missed'
<1>1. dClosed /\ cpc \notin Taking
  BY DEF Missed, Ground, Gate
<1>2. ASSUME UNCHANGED received, ctxDone', cpc' \notin Taking PROVE Missed'
  BY <1>2 DEF Missed, D!Current
<1>3. CASE Rests \/ Beside \/ Passes \/ Writes
  BY <1>1, <1>2, <1>3 DEF Rests, Beside, Passes, Writes, Inside, Missed, Taking
<1>4. CASE Moves
  <2>1. ctxDone' /\ cpc' \notin Taking
    BY <1>1, <1>4 DEF Moves, Inside, Missed
  <2>2. received' = received
    BY <1>1, <1>4 DEF Moves, Between, D!Receive, D!Snapshot, D!HandlerReturns,
       D!ConsumerKeeps, Taking
  <2> QED
    BY <1>2, <2>1, <2>2
<1>5. ASSUME NEW h \in Handlers, NEW acts \in Emits[h][D!Current], Acts(h, acts)
      PROVE  Missed'
  <2>1. received' = received /\ cpc' = "handling"
    BY <1>5, ActsFacts
  <2> QED
    BY <1>2, <1>5, <2>1 DEF Acts, Inside, Missed, Taking
<1> QED
  BY <1>3, <1>4, <1>5, AllSteps

(* A step that deals with no callback keeps the answers.                   *)
LEMMA StillAnswers ==
  ASSUME Ground, Bus', Answers, [Next]_vars, replies' = replies, Asked' = Asked
  PROVE  Answers'
<1>1. \A k \in Asked : accepted'[k] = accepted[k] /\ k \in DOMAIN accepted /\ k \in DOMAIN accepted'
  <2>1. DOMAIN accepted = 1 .. Len(accepted) /\ DOMAIN accepted' = 1 .. Len(accepted')
    BY DEF Ground, Bus, D!TypeOK
  <2>2. PICK n \in Nat : n = Len(accepted)
    BY AskedAre
  <2>3. Len(accepted') = n \/ Len(accepted') = n + 1
    BY <2>2, AcceptedStays DEF Queues
  <2>4. \A k \in 1 .. n : k \in 1 .. Len(accepted')
    BY <2>3
  <2> QED
    BY <2>1, <2>2, <2>4, AskedAre, AcceptedStays
<1>2. \A i \in 1 .. Len(replies') : \E k \in Asked' : accepted'[k].ev = replies'[i]
  BY <1>1 DEF Answers
<1>3. ASSUME ~ClientLeft', ~Missed' PROVE IsSelection(replies', Events(accepted'), Asked')
  <2>1. IsSelection(replies, Events(accepted), Asked)
    BY <1>3, LeftStays, MissedStays DEF Answers
  <2>2. \A k \in Asked : Events(accepted')[k] = Events(accepted)[k]
    BY <1>1 DEF Events
  <2>3. IsSelection(replies, Events(accepted'), Asked)
    BY <2>1, <2>2, SelectionStays
  <2> QED
    BY <2>3
<1> QED
  BY <1>2, <1>3 DEF Answers

(* In the callback handler's turn, one more is dealt with.                 *)
LEMMA OneMoreAsked ==
  ASSUME Ground, Bus', [Next]_vars, NEW r \in Nat, r = Len(received), r \in 1 .. Len(accepted),
         Written = r - 1, Written' = r, D!Current = accepted[r]
  PROVE  /\ D!Current.type = "AgentResultCallback" => Asked' = Asked \cup {r}
         /\ D!Current.type # "AgentResultCallback" => Asked' = Asked
         /\ Asked \in SUBSET (1 .. r - 1)
<1>1. PICK n \in Nat : n = Len(accepted) /\ r <= n
  BY AskedAre
<1>2. \A k : k \in Asked <=>
        k \in 1 .. n /\ k <= r - 1 /\ accepted[k].type = "AgentResultCallback"
  BY <1>1, AskedAre
<1>3. \A k : k \in Asked' <=>
        k \in 1 .. n /\ k <= r /\ accepted[k].type = "AgentResultCallback"
  BY <1>1, AskedNext
<1>4. \A k : k \in 1 .. n /\ k <= r <=> (k \in 1 .. n /\ k <= r - 1) \/ k = r
  BY <1>1
<1>5. \A k : k \in 1 .. n /\ k <= r - 1 => k \in 1 .. r - 1
  BY <1>1
<1>6. Asked \in SUBSET (1 .. r - 1)
  BY <1>2, <1>5
<1>7. D!Current.type = "AgentResultCallback" => Asked' = Asked \cup {r}
  BY <1>2, <1>3, <1>4
<1>8. D!Current.type # "AgentResultCallback" => Asked' = Asked
  <2> SUFFICES ASSUME D!Current.type # "AgentResultCallback" PROVE Asked' = Asked
    OBVIOUS
  <2>1. \A k : k \in Asked' <=> k \in Asked
    BY <1>2, <1>3, <1>4
  <2> QED
    BY <2>1
<1> QED
  BY <1>6, <1>7, <1>8

(* The callback handler is the last one called for an action.              *)
LEMMA CallbackIsLast ==
  ASSUME Bus, Turns, cpc = "handling", todo # <<>>, Head(todo) = "AgentResultCallback"
  PROVE  Passed(6)
<1>1. PICK k \in 1 .. 6 : k = Len(todo) /\ Head(todo) = HandlerOrder[7 - k]
  BY TurnIs DEF Bus, D!TypeOK
<1>2. k = 1
  <2>1. \A i \in 1 .. 5 : HandlerOrder[i] # "AgentResultCallback"
    <3>1. \A i \in 1 .. 5 : i \in {1, 2, 3, 4, 5}
      OBVIOUS
    <3> QED
      BY <3>1 DEF HandlerOrder
  <2>2. k # 1 => 7 - k \in 1 .. 5
    OBVIOUS
  <2> QED
    BY <1>1, <2>1, <2>2
<1> QED
  BY <1>1, <1>2 DEF Passed

(* The callback handler writes, or lets go of, one answer.                 *)
LEMMA WriteKeepsAnswers ==
  ASSUME Ground, Bus', Ended, Answers, [Next]_vars, Writes
  PROVE  Answers'
<1>0. /\ Bus /\ Registration /\ Turns /\ Origins /\ Gate /\ todo \in Seq(Handlers)
      /\ replies \in Seq(1 .. MaxEvents)
  BY DEF Ground, Story, Bus, D!TypeOK, TypeOK
<1>1. /\ cpc = "handling" /\ Head(todo) = "AgentResultCallback"
      /\ D!Current.type = "AgentResultCallback" /\ todo # <<>>
  BY <1>0 DEF Writes, Ground, Story, ServeInv, WritesCallback, Bus, D!Control
<1>2. PICK r \in Nat : r = Len(received) /\ r \in 1 .. Len(accepted) /\ r >= 1
  <2>1. Len(received) \in 1 .. Len(received) /\ Len(received) \in 1 .. Len(accepted)
    BY <1>0, <1>1, CurrentIs
  <2>2. Len(received) \in Nat
    BY <1>0, ReceivedIsPrefix
  <2> QED
    BY <2>1, <2>2
<1>3. D!Current = accepted[r] /\ D!Current \in Actions
  BY <1>0, <1>1, <1>2, CurrentIs
<1>4. Had(6) = r /\ Had(6)' = r
  <2>1. Passed(6)
    BY <1>0, <1>1, CallbackIsLast
  <2>2. Had(6)' = Had(6)
    BY <1>0, HadStays
  <2> QED
    BY <1>2, <2>1, <2>2 DEF Had
<1>5. Written = r - 1 /\ Written' = r
  BY <1>4 DEF Writes, Written
<1>6. Asked' = Asked \cup {r} /\ Asked \in SUBSET (1 .. r - 1)
  BY <1>1, <1>2, <1>3, <1>5, OneMoreAsked
<1>7. accepted' = accepted /\ r - 1 \in Nat /\ r - 1 + 1 = r
  BY <1>2 DEF Writes, Inside
<1>8. PICK e \in 1 .. MaxEvents : e = D!Current.ev
  <2>1. D!Current.ev # 0
    BY <1>0, <1>1, <1>2, <1>3 DEF Origins, InQueue
  <2> QED
    BY <1>3, <2>1, LiveSessionAssumption DEF Actions
<1>9. CASE replies' = Append(replies, e) /\ ~ctxDone
  <2>1. PICK l \in Nat : l = Len(replies)
    BY <1>0
  <2>2. /\ Len(replies') = l + 1 /\ replies'[l + 1] = e
        /\ \A i \in 1 .. l : replies'[i] = replies[i]
    BY <1>0, <1>9, <2>1
  <2>3. ASSUME NEW i \in 1 .. l + 1 PROVE \E k \in Asked' : accepted'[k].ev = replies'[i]
    <3>1. CASE i = l + 1
      BY <1>3, <1>6, <1>7, <1>8, <2>2, <3>1
    <3>2. CASE i \in 1 .. l
      BY <1>6, <1>7, <2>1, <2>2, <3>2 DEF Answers
    <3> QED
      BY <2>1, <2>3, <3>1, <3>2, UpToNext
  <2>4. ASSUME ~ClientLeft' PROVE IsSelection(replies', Events(accepted'), Asked')
    <3>1. IsSelection(replies, Events(accepted), Asked)
      BY <1>9, <2>4, LeftStays DEF Answers, Missed
    <3>2. DOMAIN accepted = 1 .. Len(accepted)
      BY <1>0, ReceivedIsPrefix
    <3>3. Events(accepted)[r - 1 + 1] = e
      BY <1>2, <1>3, <1>7, <1>8, <3>2 DEF Events
    <3>4. IsSelection(Append(replies, e), Events(accepted), Asked \cup {r - 1 + 1})
      BY <1>0, <1>6, <1>7, <1>8, <3>1, <3>3, SelectionGrows
    <3> QED
      BY <1>6, <1>7, <1>9, <3>4
  <2> QED
    BY <2>2, <2>3, <2>4 DEF Answers
<1>10. CASE replies' = replies /\ (ctxDone \/ ClientLeft)
  <2>1. ClientLeft => ClientLeft'
    BY LeftStays
  <2>2. ctxDone => Missed'
    <3>1. received # <<>>
      BY <1>0, <1>1 DEF Bus, D!Control
    <3>2. UNCHANGED <<received, cpc>> /\ (ctxDone => ctxDone')
      BY DEF Writes, Inside
    <3> QED
      BY <1>1, <3>1, <3>2 DEF Missed, Taking, D!Current
  <2>3. \A i \in 1 .. Len(replies') : \E k \in Asked' : accepted'[k].ev = replies'[i]
    BY <1>6, <1>7, <1>10 DEF Answers
  <2> QED
    BY <1>10, <2>1, <2>2, <2>3 DEF Answers
<1> QED
  BY <1>8, <1>9, <1>10 DEF Writes

(* Every step of the session keeps the answers.                            *)
LEMMA NextAnswers ==
  ASSUME Ground, Bus', Ended, Answers, [Next]_vars
  PROVE  Answers'
<1>0. Bus /\ Registration /\ Turns /\ Origins /\ Gate
  BY DEF Ground, Story
<1>1. HandlerOrder[6] = "AgentResultCallback" /\ 6 \in 1 .. 6
  BY DEF HandlerOrder
<1>2. ASSUME replies' = replies, Written' = Written PROVE Answers'
  <2>1. PICK w \in Int : w = Written /\ w <= Len(received)
    BY AskedAre
  <2>2. \A k : k \in Asked' <=>
          k \in 1 .. Len(accepted) /\ k <= w /\ accepted[k].type = "AgentResultCallback"
    BY <1>2, <2>1, AskedNext
  <2>3. \A k : k \in Asked <=>
          k \in 1 .. Len(accepted) /\ k <= w /\ accepted[k].type = "AgentResultCallback"
    BY <2>1, AskedAre
  <2>4. \A k : k \in Asked' <=> k \in Asked
    BY <2>2, <2>3
  <2>5. Asked' = Asked
    BY <2>4 DEF Asked
  <2> QED
    BY <1>2, <2>5, StillAnswers
<1>3. CASE Rests \/ Beside \/ Moves
  <2>1. Had(6)' = Had(6)
    BY <1>0, <1>1, <1>3, HadStays
  <2>2. writing' = writing /\ replies' = replies
    BY <1>3 DEF Rests, Beside, Moves
  <2> QED
    BY <1>2, <2>1, <2>2 DEF Written
<1>4. CASE Writes
  BY <1>4, WriteKeepsAnswers
<1>5. cpc = "dispatch" => ~writing
  BY DEF Ground, Story, ServeInv
<1>turn. ASSUME cpc = "dispatch", todo # <<>>
         PROVE  \E r \in Nat : /\ r = Len(received) /\ r \in 1 .. Len(accepted)
                               /\ D!Current = accepted[r] /\ D!Current \in Actions
  <2>1. /\ Len(received) \in 1 .. Len(accepted) /\ D!Current = accepted[Len(received)]
        /\ D!Current \in Actions
    BY <1>0, <1>turn, CurrentIs
  <2> QED
    BY <1>0, <2>1, ReceivedIsPrefix
<1>6. CASE Passes
  <2>1. /\ cpc = "dispatch" /\ todo # <<>> /\ received' = received
        /\ cpc' = "dispatch" /\ todo' = Tail(todo)
        /\ writing' = writing /\ replies' = replies /\ ~writing
    BY <1>5, <1>6 DEF Passes
  <2>2. CASE Head(todo) # "AgentResultCallback"
    <3>1. Had(6)' = Had(6)
      BY <1>0, <1>1, <2>1, <2>2, HadAdvances
    <3> QED
      BY <1>2, <2>1, <3>1 DEF Written
  <2>3. CASE Head(todo) = "AgentResultCallback"
    <3>1. PICK r \in Nat : /\ r = Len(received) /\ r \in 1 .. Len(accepted)
                           /\ D!Current = accepted[r] /\ D!Current \in Actions
      BY <1>turn, <2>1
    <3>2. Had(6) = r - 1 /\ Had(6)' = r
      BY <1>0, <1>1, <2>1, <2>3, <3>1, HadAdvances
    <3>3. Written = r - 1 /\ Written' = r
      BY <2>1, <3>2 DEF Written
    <3>4. D!Current.type # "AgentResultCallback"
      BY <1>6, <2>3, <3>1, WantedTypes DEF Passes
    <3>5. Asked' = Asked
      BY <3>1, <3>3, <3>4, OneMoreAsked
    <3> QED
      BY <2>1, <3>5, StillAnswers
  <2> QED
    BY <2>2, <2>3
<1>7. ASSUME NEW h \in Handlers, NEW acts \in Emits[h][D!Current], Acts(h, acts)
      PROVE  Answers'
  <2>1. /\ cpc = "dispatch" /\ todo # <<>> /\ h = Head(todo) /\ D!Wants(h, D!Current)
        /\ cpc' = "handling" /\ UNCHANGED <<accepted, received, todo>>
        /\ replies' = replies /\ ~writing
    BY <1>5, <1>7, ActsFacts DEF Acts
  <2>2. CASE h # "AgentResultCallback"
    <3>1. Had(6)' = Had(6) /\ writing' = writing
      BY <1>0, <1>1, <1>7, <2>1, <2>2, HadAdvances DEF Acts
    <3> QED
      BY <1>2, <2>1, <3>1 DEF Written
  <2>3. CASE h = "AgentResultCallback"
    <3>1. PICK r \in Nat : /\ r = Len(received) /\ r \in 1 .. Len(accepted)
                           /\ D!Current = accepted[r] /\ D!Current \in Actions
      BY <1>turn, <2>1
    <3>2. Had(6) = r - 1 /\ Had(6)' = r
      BY <1>0, <1>1, <2>1, <2>3, <3>1, HadAdvances
    <3>3. D!Current.type = "AgentResultCallback"
      BY <2>1, <2>3, <3>1, WantedTypes
    <3>4. CASE ~ssClosed
      <4>1. writing'
        BY <1>7, <2>3, <3>4 DEF Acts
      <4> QED
        BY <1>2, <2>1, <3>2, <4>1 DEF Written
    <3>5. CASE ssClosed
      <4>1. ~writing'
        BY <1>7, <2>3, <3>5 DEF Acts
      <4>2. Written = r - 1 /\ Written' = r
        BY <2>1, <3>2, <4>1 DEF Written
      <4>3. Asked' = Asked \cup {r}
        BY <3>1, <3>3, <4>2, OneMoreAsked
      <4>4. ClientLeft'
        BY <3>3, <3>5, OpenWhile, LeftStays
      <4> QED
        BY <2>1, <4>3, <4>4 DEF Answers
    <3> QED
      BY <3>4, <3>5
  <2> QED
    BY <2>2, <2>3
<1> QED
  BY <1>3, <1>4, <1>6, <1>7, AllSteps
-----------------------------------------------------------------------------
(* Everything the answers depend on, which every step keeps.               *)
AnswersInv ==
  Stream /\ CloseLast /\ Logged /\ Ended /\ Answering /\ Answers

(* It holds at the start, ...                                              *)
LEMMA InitAnswersInv == Init => Gate /\ AnswersInv
<1> SUFFICES ASSUME Init PROVE Gate /\ AnswersInv
  OBVIOUS
<1>1. /\ accepted = <<>> /\ received = <<>> /\ todo = <<>> /\ cpc = "check"
      /\ log = <<>> /\ replies = <<>> /\ failed = {} /\ ~writing
      /\ ~ctxDone /\ ~ssClosed /\ ~tClosed /\ hpc = "create"
      /\ spc["stream"] = "idle"
      /\ out["reader"] = <<>> /\ out["stream"] = <<>> /\ out["consumer"] = <<>>
  BY DEF Init, D!Init, D!Procs
<1>2. Len(<<>>) = 0 /\ DOMAIN <<>> = {} /\ \A i : i \notin 1 .. 0
  OBVIOUS
<1>3. Gate
  BY <1>1 DEF Gate, Over
<1>4. Results = {} /\ Callbacks(accepted) = {} /\ ~CloseSent /\ Asked = {}
  BY <1>1, <1>2 DEF Results, Callbacks, CloseSent, Asked
<1>5. Stream /\ CloseLast /\ Ended
  BY <1>1, <1>2, <1>4 DEF Stream, InOrder, CloseLast, Ended
<1>6. Had(1) = 0
  <2>1. Len(todo) = 0 /\ 0 < 7 - 1
    BY <1>1
  <2>2. Passed(1)
    BY <1>1, <2>1 DEF Passed
  <2> QED
    BY <1>1, <2>2 DEF Had
<1>7. Logged
  BY <1>1, <1>2, <1>6 DEF Logged
<1>8. Answering
  BY <1>1, <1>2, <1>4 DEF Answering
<1>9. Answers
  <2>1. Cardinality({}) = 0
    BY FS_EmptySet
  <2>2. IsSelection(replies, Events(accepted), Asked)
    BY <1>1, <1>2, <1>4, <2>1 DEF IsSelection
  <2> QED
    BY <1>1, <1>2, <2>2 DEF Answers
<1> QED
  BY <1>3, <1>5, <1>7, <1>8, <1>9 DEF AnswersInv

(* ... and stays.                                                          *)
LEMMA AnswersInvariant == Spec => [](Ground /\ AnswersInv)
<1>1. Spec => []Gate
  <2>1. (Bus /\ Story) /\ (D!CloseOrder /\ MarkedFirst) /\ Gate /\ [Next]_vars => Gate'
    BY NextGate DEF Story
  <2>2. Init => Gate
    BY InitAnswersInv
  <2> QED
    BY <2>1, <2>2, StoryInvariant, BusCloses, PTL DEF Spec
<1>2. Spec => []Ground
  <2>1. (Bus /\ Story) /\ (D!CloseOrder /\ MarkedFirst) /\ Gate /\ TypeOK => Ground
    BY DEF Ground
  <2> QED
    BY <1>1, <2>1, StoryInvariant, BusCloses, TypeCorrect, PTL
<1>3. Ground /\ Ground' /\ AnswersInv /\ [Next]_vars => AnswersInv'
  <2> SUFFICES ASSUME Ground, Bus', AnswersInv, [Next]_vars PROVE AnswersInv'
    BY DEF Ground
  <2> QED
    BY NextStream, NextCloseLast, NextLogged, NextEnded, NextAnswering, NextAnswers
       DEF AnswersInv
<1>4. Init => AnswersInv
  BY InitAnswersInv
<1> QED
  BY <1>2, <1>3, <1>4, PTL DEF Spec

(* Whatever the number of events and the room in the queue: the log of a   *)
(* session the server has ended ends with the close and holds before it    *)
(* the callbacks of exactly the answers that were sent, in their order, so *)
(* that it can answer a later client like this one (storage.go, Handle;    *)
(* server.go, handleCloseAction).                                          *)
THEOREM EndedLogReplayable == Spec => []LogReplayable
<1>1. Ground /\ AnswersInv => LogReplayable
  <2> SUFFICES ASSUME Ground, AnswersInv, tClosed, ~ClientLeft
               PROVE  /\ log[Len(log)] = SessionClose
                      /\ IsSelection(replies, Events(log), Callbacks(log))
    BY DEF LogReplayable
  <2>0. Bus /\ Turns /\ Gate
    BY DEF Ground, Story
  <2>1. received # <<>> /\ D!Current = SessionClose /\ Had(3) = Len(received)
    BY DEF AnswersInv, Ended
  <2>2. Len(accepted) = Len(received) /\ accepted[Len(received)] = SessionClose
    BY <2>0, <2>1, EndIsLast DEF AnswersInv
  <2>3. PICK r \in Nat : r = Len(received) /\ r = Len(accepted) /\ r \in 1 .. r
    BY <2>0, <2>1, <2>2, EndIsLast, ReceivedIsPrefix DEF AnswersInv
  <2>4. Had(1) = r
    <3>1. Had(3) <= Had(1) /\ Had(1) <= r /\ Had(1) \in Nat
      BY <2>0, <2>3, HadEarlier, HadBounds
    <3> QED
      BY <2>1, <2>3, <3>1
  <2>5. Len(log) = r /\ \A i \in 1 .. r : log[i] = accepted[i]
    BY <2>0, <2>3, <2>4, ReceivedIsPrefix DEF AnswersInv, Logged
  <2>6. DOMAIN log = 1 .. r /\ DOMAIN accepted = 1 .. r
    BY <2>3, <2>5 DEF Ground, TypeOK, Bus, D!TypeOK
  <2>7. ~writing
    <3>1. writing => D!Current.type = "AgentResultCallback"
      BY DEF Ground, Story, WritesCallback
    <3> QED
      BY <2>1, <3>1, ActionsDiffer
  <2>8. r - 1 <= Written
    BY <2>0, <2>3, <2>7, HadBounds DEF Written
  <2>9. Asked = Callbacks(log)
    <3>1. PICK w \in Int : w = Written /\ r - 1 <= w
      BY <2>8, AskedAre
    <3>2. \A k \in 1 .. r : k <= w \/ k = r
      BY <3>1
    <3>3. accepted[r].type # "AgentResultCallback"
      BY <2>2, <2>3, ActionsDiffer
    <3>4. \A k : k \in Asked <=> k \in 1 .. r /\ accepted[k].type = "AgentResultCallback"
      BY <2>3, <3>1, <3>2, <3>3, AskedAre
    <3>5. \A k : k \in Asked <=> k \in Callbacks(log)
      BY <2>5, <2>6, <3>4 DEF Callbacks
    <3> QED
      BY <3>5
  <2>10. IsSelection(replies, Events(log), Callbacks(log))
    <3>1. IsSelection(replies, Events(accepted), Asked)
      BY <2>1, ActionsDiffer DEF AnswersInv, Answers, Missed
    <3>2. \A k \in Asked : Events(log)[k] = Events(accepted)[k]
      BY <2>3, <2>5, <2>6, AskedAre DEF Events
    <3> QED
      BY <2>9, <3>1, <3>2, SelectionStays
  <2> QED
    BY <2>2, <2>3, <2>5, <2>10
<1> QED
  BY <1>1, AnswersInvariant, PTL
-----------------------------------------------------------------------------
(* A session implements ReplyStream.                                       *)

(* The events that were produced are those of the results, and what was    *)
(* answered was called back before.                                        *)
LEMMA ProducedAre ==
  ASSUME Ground, AnswersInv
  PROVE  /\ Produced \in Nat
         /\ \A k \in Results : accepted[k].ev \in 1 .. Produced
         /\ \A d \in 1 .. Produced : \E k \in Results : accepted[k].ev = d
         /\ \A d : Handled(d) => d \in 1 .. Produced
         /\ \A d \in RS!Answered : \E k \in Asked : accepted[k].ev = d
         /\ \A d \in RS!Answered : Handled(d) /\ d \notin failed
<1>0. Bus /\ Stream
  BY DEF Ground, AnswersInv
<1>1. PICK n \in Nat : n = Len(accepted) /\ Results \in SUBSET (1 .. n)
  BY <1>0, ResultsCount
<1>2. \A k \in Results : accepted[k].ev \in 1 .. Produced
  BY <1>0, <1>1, RankBounds DEF Stream, Produced
<1>3. ASSUME NEW d \in 1 .. Produced PROVE \E k \in Results : accepted[k].ev = d
  <2>1. \E k \in Results : Rank(Results, k) = d
    BY <1>1, EveryRank DEF Produced
  <2> QED
    BY <1>0, <2>1 DEF Stream
<1>4. \A d \in RS!Answered : \E k \in Asked : accepted[k].ev = d
  <2>1. DOMAIN replies = 1 .. Len(replies)
    BY DEF Ground, TypeOK
  <2> QED
    BY <2>1 DEF RS!Answered, AnswersInv, Answers
<1>5. \A k \in Asked : Handled(accepted[k].ev) /\ accepted[k].ev \notin failed
  BY DEF Asked, AnswersInv, Answering
<1> QED
  BY <1>0, <1>2, <1>3, <1>4, <1>5, ResultsCount DEF Handled

(* While the client is there every callback that was dealt with has been   *)
(* answered, unless the last was missed.                                   *)
LEMMA AskedAnswered ==
  ASSUME Ground, AnswersInv, ~ClientLeft, ~Missed, NEW k \in Asked
  PROVE  accepted[k].ev \in RS!Answered
<1>1. PICK n \in Nat : n = Len(accepted)
  BY AskedAre
<1>2. Asked \in SUBSET (1 .. n)
  BY <1>1, AskedAre
<1>3. IsSelection(replies, Events(accepted), Asked)
  BY DEF AnswersInv, Answers
<1>4. Rank(Asked, k) \in 1 .. Len(replies)
  BY <1>2, <1>3, RankBounds DEF IsSelection
<1>5. DOMAIN replies = 1 .. Len(replies) /\ DOMAIN accepted = 1 .. n
  BY <1>1 DEF Ground, TypeOK, Bus, D!TypeOK
<1>6. replies[Rank(Asked, k)] = accepted[k].ev
  BY <1>2, <1>3, <1>5 DEF IsSelection, Events
<1> QED
  BY <1>4, <1>5, <1>6 DEF RS!Answered

(* An event that was handled is answered or failed on, unless its callback *)
(* is still to be sent or to be dealt with, or could not be.               *)
LEMMA HandledSettled ==
  ASSUME Ground, AnswersInv, ~ClientLeft, ~Missed, NEW d, Handled(d), ~Dropped(d),
         out["consumer"] # <<ResultCallback(d)>>,
         \A i \in Callbacks(accepted) : accepted[i].ev = d => i \in Asked
  PROVE  d \in RS!Answered \cup failed
<1>1. d \in failed \/ CalledBack(d)
  BY DEF Handled, AnswersInv, Answering
<1>2. ASSUME CalledBack(d) PROVE d \in RS!Answered
  BY <1>2, AskedAnswered DEF CalledBack
<1> QED
  BY <1>1, <1>2

(* The states that are mapped differ only in these.                        *)
LEMMA Stutters ==
  ASSUME Produced' = Produced, UNCHANGED <<replies, failed>>,
         \/ UNCHANGED <<cancelled, tClosed>>
         \/ ClientLeft /\ ClientLeft'
         \/ ~ClientLeft /\ ~ClientLeft' /\ (tClosed' <=> tClosed)
  PROVE  UNCHANGED RS!vars
BY DEF RS!vars, ClientLeft

(* A result that is queued is an event produced.                           *)
LEMMA QueueProduces ==
  ASSUME Ground, Bus', AnswersInv,
         NEW p \in D!Procs, NEW a \in Actions, Queues(p, a), Beside
  PROVE  [RS!Next]_(RS!vars)
<1>0. /\ out \in [D!Procs -> Seq(Actions)] /\ D!Procs = {"reader", "stream", "consumer"}
      /\ Bus /\ Origins
  BY DEF Ground, Story, Bus, D!TypeOK, D!Procs
<1>1. UNCHANGED <<cancelled, tClosed, replies, failed>>
  BY DEF Beside
<1>2. CASE ~(a.type = "AgentResult" /\ a.ev > 0)
  <2>1. Produced' = Produced
    BY <1>0, <1>2, ResultsGrow
  <2> QED
    BY <1>1, <2>1, Stutters
<1>3. CASE a.type = "AgentResult" /\ a.ev > 0
  <2>1. Produced' = Produced + 1
    BY <1>0, <1>3, ResultsGrow
  <2>2. PICK m \in Nat : m = Len(out[p]) /\ m # 0
    BY <1>0, EmptySeq DEF Queues
  <2>3. a = out[p][1] /\ 1 \in 1 .. m
    BY <1>0, <2>2 DEF Queues
  <2>4. p = "stream"
    <3>1. p = "reader" => a = UserRequest
      BY <1>0, <2>2, <2>3 DEF Origins, ToSend
    <3>2. p # "consumer"
      BY <1>3, <2>2, <2>3 DEF AnswersInv, Stream
    <3> QED
      BY <1>0, <1>3, <3>1, <3>2, ActionsDiffer
  <2>5. ClientLeft \/ ~tClosed
    <3> SUFFICES ASSUME tClosed, ~ClientLeft PROVE FALSE
      OBVIOUS
    <3>1. CloseSent
      BY <1>0, EndIsLast DEF AnswersInv, Ended
    <3> QED
      BY <2>4, <3>1 DEF AnswersInv, CloseLast, Queues
  <2>6. RS!Produce
    BY <1>1, <2>1, <2>5 DEF RS!Produce, ClientLeft
  <2> QED
    BY <2>6 DEF RS!Next
<1> QED
  BY <1>2, <1>3

(* A failure of the output handler is one of an event not yet dealt with.  *)
LEMMA ActsFail ==
  ASSUME Ground, Bus', AnswersInv, [Next]_vars,
         NEW h \in Handlers, NEW acts \in Emits[h][D!Current], Acts(h, acts)
  PROVE  [RS!Next]_(RS!vars)
<1>0. Bus /\ Registration /\ Turns /\ Origins /\ Gate /\ Stream
  BY DEF Ground, Story, AnswersInv
<1>1. /\ cpc = "dispatch" /\ todo # <<>> /\ h = Head(todo) /\ D!Wants(h, D!Current)
      /\ cpc' = "handling" /\ UNCHANGED <<accepted, received, todo>>
      /\ D!Current = accepted[Len(received)] /\ Len(received) \in 1 .. Len(accepted)
      /\ D!Current \in Actions /\ Shape(h, D!Current, acts)
  BY ActsFacts
<1>2. Produced' = Produced /\ UNCHANGED <<replies, tClosed, cancelled>>
  BY <1>1 DEF Acts, Inside, Results, Produced
<1>3. CASE failed' = failed
  BY <1>2, <1>3, Stutters
<1>4. CASE failed' # failed
  <2>1. /\ h = "AgentOutputHandler" /\ acts = <<ProcessingError(D!Current.ev)>>
        /\ failed' = failed \cup {D!Current.ev}
    BY <1>4 DEF Acts
  <2>2. D!Current.type = "AgentResult"
    BY <1>1, <2>1, WantedTypes
  <2>3. D!Current # AgentResultDone
    <3>1. ProcessingError(D!Current.ev) # SessionClose
      BY DEF ProcessingError, SessionClose, Action
    <3>2. acts # <<SessionClose>>
      BY <2>1, <3>1
    <3> QED
      BY <1>1, <2>1, <3>2 DEF Shape
  <2>4. PICK e \in 0 .. MaxEvents : e = D!Current.ev
    BY <1>1 DEF Actions
  <2>5. e > 0
    <3>1. e # 0
      BY <1>1, <2>2, <2>3, <2>4 DEF Actions, AgentResultDone, Action
    <3> QED
      BY <2>4, <3>1, LiveSessionAssumption
  <2>6. PICK r \in Nat : r = Len(received) /\ r \in 1 .. Len(accepted)
    BY <1>0, <1>1, ReceivedIsPrefix
  <2>7. r \in Results /\ accepted[r].ev = e
    BY <1>0, <1>1, <2>2, <2>4, <2>5, <2>6, ResultsCount
  <2>8. ~(r <= Had(2))
    <3>1. HandlerOrder[2] = "AgentOutputHandler" /\ 2 \in 1 .. 6
      BY DEF HandlerOrder
    <3>2. Had(2) = r - 1
      BY <1>0, <1>1, <2>1, <2>6, <3>1, HadAdvances
    <3> QED
      BY <3>2
  <2>9. ~Handled(e)
    <3>1. ~(e < e)
      BY <2>4, LiveSessionAssumption
    <3> QED
      BY <1>0, <2>7, <2>8, <3>1, HandledBefore
  <2>10. e \in 1 .. Produced
    BY <2>7, ProducedAre
  <2>11. e \notin failed /\ e \notin RS!Answered
    BY <2>9, ProducedAre DEF AnswersInv, Answering
  <2>12. ClientLeft \/ ~tClosed
    BY <2>2, OpenWhile DEF AnswersInv
  <2>13. RS!Fail(e)
    BY <1>2, <2>1, <2>4, <2>10, <2>11, <2>12 DEF RS!Fail, ClientLeft
  <2> QED
    BY <2>10, <2>13 DEF RS!Next
<1> QED
  BY <1>3, <1>4
(* The answer the callback handler writes is the next one the client is    *)
(* owed: all that was called back before it has been dealt with.           *)
LEMMA WriteReplies ==
  ASSUME Ground, Bus', AnswersInv, [Next]_vars, Writes
  PROVE  [RS!Next]_(RS!vars)
<1>0. /\ Bus /\ Registration /\ Turns /\ Origins /\ Gate /\ todo \in Seq(Handlers)
      /\ Stream /\ Answering /\ Ended
  BY DEF Ground, Story, Bus, D!TypeOK, AnswersInv
<1>1. /\ cpc = "handling" /\ Head(todo) = "AgentResultCallback"
      /\ D!Current.type = "AgentResultCallback" /\ todo # <<>>
  BY <1>0 DEF Writes, Ground, Story, ServeInv, WritesCallback, Bus, D!Control
<1>2. PICK r \in Nat : r = Len(received) /\ r \in 1 .. Len(accepted) /\ r >= 1
  <2>1. Len(received) \in 1 .. Len(received) /\ Len(received) \in 1 .. Len(accepted)
    BY <1>0, <1>1, CurrentIs
  <2>2. Len(received) \in Nat
    BY <1>0, ReceivedIsPrefix
  <2> QED
    BY <2>1, <2>2
<1>3. D!Current = accepted[r] /\ D!Current \in Actions
  BY <1>0, <1>1, <1>2, CurrentIs
<1>4. Produced' = Produced /\ UNCHANGED <<failed, tClosed, cancelled>>
  BY DEF Writes, Inside, Results, Produced
<1>5. CASE replies' = replies
  BY <1>4, <1>5, Stutters
<1>6. CASE replies' = Append(replies, D!Current.ev) /\ ~ctxDone
  <2>1. r \in Callbacks(accepted)
    BY <1>0, <1>1, <1>2, <1>3, CallbacksCount
  <2>2. PICK e : e = accepted[r].ev
    OBVIOUS
  <2>3. Handled(e) /\ e \notin failed
    BY <1>0, <2>1, <2>2 DEF Answering
  <2>4. e \in 1 .. Produced
    BY <2>3, ProducedAre
  <2>5. ClientLeft \/ ~tClosed
    BY <1>0, <1>1, OpenWhile, ActionsDiffer
  <2>6. Written = r - 1
    <3>1. Passed(6)
      BY <1>0, <1>1, CallbackIsLast
    <3> QED
      BY <1>2, <3>1 DEF Had, Writes, Written
  <2>7. \A k : k \in Asked <=>
          k \in 1 .. Len(accepted) /\ k <= r - 1 /\ accepted[k].type = "AgentResultCallback"
    BY <2>6, AskedAre
  <2>8. \A d \in RS!Answered : d < e
    <3> SUFFICES ASSUME NEW d \in RS!Answered PROVE d < e
      OBVIOUS
    <3>1. PICK k \in Asked : accepted[k].ev = d
      BY ProducedAre
    <3>2. k \in Callbacks(accepted) /\ k < r
      BY <1>2, <2>7, <3>1 DEF Asked
    <3> QED
      BY <1>0, <2>1, <2>2, <3>1, <3>2 DEF Answering
  <2>9. ASSUME ~ClientLeft, NEW d \in 1 .. e - 1
        PROVE  d \in RS!Answered \cup failed
    <3>0. Produced \in Nat /\ e \in Nat /\ d \in 1 .. Produced /\ d < e
      BY <2>4, ProducedAre
    <3>1. PICK k \in Results : accepted[k].ev = d
      BY <3>0, ProducedAre
    <3>2. k <= Had(2)
      BY <1>0, <2>3, <3>0, <3>1, HandledBefore
    <3>3. Handled(d)
      BY <3>1, <3>2 DEF Handled
    <3>4. \A j \in Callbacks(accepted) : accepted[j].ev = d => j \in Asked
      <4> SUFFICES ASSUME NEW j \in Callbacks(accepted), accepted[j].ev = d PROVE j \in Asked
        OBVIOUS
      <4>1. j \in 1 .. Len(accepted) /\ accepted[j].type = "AgentResultCallback"
        BY <1>0, CallbacksCount
      <4>2. r # j
        BY <2>2, <3>0
      <4>3. ~(r < j)
        <5>1. r < j => e < d
          BY <1>0, <2>1, <2>2 DEF Answering
        <5> QED
          BY <3>0, <5>1
      <4>4. j <= r - 1
        BY <1>2, <4>1, <4>2, <4>3, AskedAre
      <4> QED
        BY <2>7, <4>1, <4>4
    <3>5. out["consumer"] # <<ResultCallback(d)>>
      <4> SUFFICES ASSUME out["consumer"] = <<ResultCallback(d)>> PROVE FALSE
        OBVIOUS
      <4>1. Len(out["consumer"]) = 1 /\ out["consumer"][1] = ResultCallback(d)
        OBVIOUS
      <4>2. out["consumer"][1].type = "AgentResultCallback" /\ out["consumer"][1].ev = d
        BY <4>1 DEF ResultCallback, Action
      <4>3. 1 \in 1 .. Len(out["consumer"])
        BY <4>1
      <4>4. accepted[r].ev < d
        BY <1>0, <2>1, <4>2, <4>3 DEF Answering
      <4> QED
        BY <2>2, <3>0, <4>4
    <3>6. ~Dropped(d)
      <4> SUFFICES ASSUME Dropped(d) PROVE FALSE
        OBVIOUS
      <4>1. e < d
        BY <2>1, <2>2 DEF Dropped
      <4> QED
        BY <3>0, <4>1
    <3>7. ~Missed
      BY <1>6 DEF Missed
    <3> QED
      BY <2>9, <3>3, <3>4, <3>5, <3>6, <3>7, HandledSettled
  <2>10. RS!Reply(e)
    BY <1>3, <1>4, <1>6, <2>2, <2>3, <2>4, <2>5, <2>8, <2>9 DEF RS!Reply, ClientLeft
  <2> QED
    BY <2>4, <2>10 DEF RS!Next
<1> QED
  BY <1>5, <1>6 DEF Writes

(* The session is closed only when every event has been dealt with.        *)
LEMMA MovesComplete ==
  ASSUME Ground, Bus', AnswersInv, Moves, [Next]_vars, AnswersInv'
  PROVE  [RS!Next]_(RS!vars)
<1>0. Bus /\ Turns /\ Gate /\ TypeOK /\ Stream /\ Answering /\ CloseLast
  BY DEF Ground, Story, AnswersInv
<1>1. UNCHANGED <<replies, failed, cancelled>> /\ Produced' = Produced
  BY DEF Moves, Inside, Results, Produced
<1>2. CASE tClosed' = tClosed
  BY <1>1, <1>2, Stutters
<1>3. CASE ClientLeft
  <2>1. ClientLeft'
    BY <1>1, <1>3 DEF ClientLeft
  <2> QED
    BY <1>1, <1>3, <2>1, Stutters
<1>4. ASSUME tClosed' # tClosed, ~ClientLeft PROVE RS!Complete
  <2>1. tClosed' /\ ~tClosed /\ InCloseAction
    BY <1>0, <1>4 DEF Moves, TypeOK
  <2>2. out["consumer"] = <<>> /\ ~writing /\ cpc = "handling" /\ D!Current = SessionClose
    BY <2>1 DEF Moves, InCloseAction, Between, D!Receive, D!Snapshot, D!HandlerReturns
  <2>3. received # <<>>
    BY <1>0, <2>2 DEF Bus, D!Control
  <2>4. CloseSent /\ Len(accepted) = Len(received) /\ accepted[Len(received)] = SessionClose
    BY <1>0, <2>2, <2>3, EndIsLast
  <2>5. PICK r \in Nat : r = Len(accepted) /\ r = Len(received)
    BY <1>0, <2>4, ResultsCount
  <2>6. r - 1 <= Written
    BY <1>0, <2>2, <2>5, HadBounds DEF Written
  <2>7. ASSUME NEW d, Handled(d) PROVE d \in RS!Answered \cup failed
    <3>1. ASSUME NEW i \in Callbacks(accepted) PROVE i \in Asked
      <4>1. i \in 1 .. r /\ accepted[i].type = "AgentResultCallback"
        BY <1>0, <2>5, <3>1, CallbacksCount
      <4>2. i # r
        BY <2>4, <2>5, <4>1, ActionsDiffer
      <4>3. i <= Written
        BY <2>5, <2>6, <4>1, <4>2, AskedAre
      <4> QED
        BY <3>1, <4>3 DEF Asked
    <3>2. out["consumer"] # <<ResultCallback(d)>>
      BY <2>2
    <3>3. ~Dropped(d) /\ ~Missed
      BY <1>0, <2>2, <2>3, <2>4, ActionsDiffer, EndIsLast DEF Dropped, Missed
    <3> QED
      BY <1>4, <2>7, <3>1, <3>2, <3>3, HandledSettled
  <2>8. ASSUME NEW d \in 1 .. Produced PROVE d \in RS!Answered \cup failed
    <3>1. PICK k \in Results : accepted[k].ev = d
      BY ProducedAre
    <3>2. k \in 1 .. Len(accepted) /\ accepted[k].type = "AgentResult"
      BY <1>0, ResultsCount
    <3>3. k <= Had(2)
      BY <1>0, <2>4, <3>2 DEF CloseLast
    <3> QED
      BY <2>7, <3>1, <3>3 DEF Handled
  <2>9. ASSUME NEW d \in RS!Answered \cup failed PROVE d \in 1 .. Produced
    BY <1>0, <2>9, ProducedAre DEF Answering
  <2>10. 1 .. Produced = RS!Answered \cup failed
    BY <2>8, <2>9
  <2> QED
    BY <1>1, <1>4, <2>1, <2>10 DEF RS!Complete, ClientLeft
<1> QED
  BY <1>2, <1>3, <1>4 DEF RS!Next

(* The goroutines around the consumer end the exchange only for a client   *)
(* that has left.                                                          *)
LEMMA RestLeaves ==
  ASSUME Ground, Rests
  PROVE  [RS!Next]_(RS!vars)
<1>1. UNCHANGED <<replies, failed>> /\ Produced' = Produced
  BY DEF Rests, Results, Produced
<1>2. CASE ClientLeft
  <2>1. ClientLeft'
    BY <1>2 DEF Rests
  <2> QED
    BY <1>1, <1>2, <2>1, Stutters
<1>3. CASE ~ClientLeft /\ ClientLeft'
  <2>1. RS!Leave
    BY <1>1, <1>3 DEF RS!Leave, ClientLeft
  <2> QED
    BY <2>1 DEF RS!Next
<1>4. CASE ~ClientLeft /\ ~ClientLeft'
  <2>1. tClosed' <=> tClosed
    BY <1>4 DEF Rests, Ground, Gate
  <2> QED
    BY <1>1, <1>4, <2>1, Stutters
<1> QED
  BY <1>2, <1>3, <1>4

(* Every step of the session is one of ReplyStream, or none.               *)
LEMMA NextRefines ==
  ASSUME Ground, Bus', AnswersInv, AnswersInv', [Next]_vars
  PROVE  [RS!Next]_(RS!vars)
<1>1. ASSUME accepted' = accepted, UNCHANGED <<replies, failed, cancelled, tClosed>>
      PROVE  [RS!Next]_(RS!vars)
  <2>1. Produced' = Produced
    BY <1>1 DEF Results, Produced
  <2> QED
    BY <1>1, <2>1, Stutters
<1>2. CASE (D!Begin("reader") \/ D!Begin("stream")) /\ Beside
  BY <1>1, <1>2 DEF Beside, D!Begin, D!chanVars, D!closeVars
<1>3. ASSUME NEW p \in D!Procs, Waits(p), Beside PROVE [RS!Next]_(RS!vars)
  BY <1>1, <1>3 DEF Beside, Waits
<1>4. CASE Passes
  BY <1>1, <1>4 DEF Passes, Inside
<1> QED
  BY <1>2, <1>3, <1>4, AllSteps, RestLeaves, QueueProduces, MovesComplete, WriteReplies,
     ActsFail

(* A live session implements ReplyStream: the client is given the answers  *)
(* in the order of the agent's events, each at most once, without a gap    *)
(* while it is there, and the server ends the exchange only when every     *)
(* event was answered or failed (handler.go:76, AgentOutputHandler;        *)
(* server.go, handleCloseAction).                                          *)
THEOREM SessionAnswers == Spec => ImplementsReplyStream
<1>1. Init => RS!Init
  <2> SUFFICES ASSUME Init PROVE RS!Init
    OBVIOUS
  <2>1. /\ accepted = <<>> /\ replies = <<>> /\ failed = {} /\ ~tClosed
        /\ "reader" \notin cancelled
    BY DEF Init, D!Init
  <2>2. DOMAIN <<>> = {}
    OBVIOUS
  <2>3. Results = {}
    BY <2>1, <2>2 DEF Results
  <2>4. Produced = 0
    BY <2>3, FS_EmptySet DEF Produced
  <2> QED
    BY <2>1, <2>4 DEF RS!Init, ClientLeft
<1>2. /\ Ground /\ AnswersInv /\ (Ground /\ AnswersInv)' /\ [Next]_vars
      => [RS!Next]_(RS!vars)
  BY NextRefines DEF Ground
<1> QED
  BY <1>1, <1>2, AnswersInvariant, PTL DEF Spec, RS!Spec, ImplementsReplyStream
=============================================================================
