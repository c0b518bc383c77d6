------------------------ MODULE LiveSessionTaskProofs ------------------------
(***************************************************************************)
(* The task count of a live session, for every number of events and every  *)
(* buffer size: SessionCloser never waits, and counts at most one task.    *)
(* The argument is about who can have sent what when: the request is the   *)
(* first action of the queue, the call of the stream the second, the       *)
(* events come after it, and a close comes after the Done was handled.     *)
(***************************************************************************)
EXTENDS LiveSessionProofs, SequenceTheorems

(* What DispatcherProofs has proved of every bus.                          *)
Bus == D!TypeOK /\ D!Control /\ D!Conservation

(* A session's bus is one of Dispatcher's, so all of that holds of it.     *)
LEMMA BusInvariant == Spec => []Bus
<1>1. D!Spec => DP!Spec
  BY SameSpec
<1>2. DP!Spec => []DP!Typed
  BY BusAssumption, DP!AlwaysTyped
<1>3. DP!Spec => []DP!Conservation
  BY BusAssumption, DP!BusConserves
<1>4. DP!Typed /\ DP!Conservation => Bus
  BY DEF DP!Typed, DP!TypeOK, DP!Control, DP!Conservation, Bus, D!TypeOK,
         D!Control, D!Conservation, DP!Capacity, D!Capacity, DP!Procs, D!Procs,
         DP!ConsumerAt, D!ConsumerAt, DP!SendAt, D!SendAt, DP!CloserAt, D!CloserAt
<1> QED
  BY UsesDispatcher, <1>1, <1>2, <1>3, <1>4, PTL

(* What was received is the beginning of what was accepted.                *)
LEMMA ReceivedIsPrefix ==
  ASSUME Bus
  PROVE  /\ received \in Seq(Actions) /\ accepted \in Seq(Actions) /\ buf \in Seq(Actions)
         /\ Len(accepted) = Len(received) + Len(buf)
         /\ \A i \in 1 .. Len(received) : received[i] = accepted[i]
BY DEF Bus, D!TypeOK, D!Conservation
(* What a handler is called for was received, and accepted, last.          *)
LEMMA CurrentIs ==
  ASSUME Bus, cpc \in {"dispatch", "handling"}
  PROVE  /\ Len(received) \in 1 .. Len(received) /\ Len(received) \in 1 .. Len(accepted)
         /\ D!Current = received[Len(received)] /\ D!Current = accepted[Len(received)]
         /\ D!Current \in Actions
<1>1. PICK r \in Nat : r = Len(received)
  BY ReceivedIsPrefix
<1>2. r # 0
  BY <1>1, ReceivedIsPrefix, EmptySeq DEF Bus, D!Control
<1>3. D!Current = received[r] /\ r \in 1 .. Len(received) /\ received[r] \in Actions
  BY <1>1, <1>2, ReceivedIsPrefix DEF D!Current
<1>4. D!Current = accepted[r] /\ r \in 1 .. Len(accepted)
  BY <1>1, <1>3, ReceivedIsPrefix
<1> QED
  BY <1>1, <1>3, <1>4
-----------------------------------------------------------------------------
(* What the handlers want and what they send.                              *)

(* Which types of actions the four handlers that have any were registered  *)
(* for.                                                                    *)
LEMMA WantedTypes ==
  ASSUME NEW a \in Actions
  PROVE  /\ D!Wants("AgentOutputHandler", a) <=> a.type = "AgentResult"
         /\ D!Wants("SessionCloser", a)
              <=> a.type \in {"SessionClose", "EventStreamCall", "AgentResult"}
         /\ D!Wants("ServerSession", a) <=> a.type = "UserRequest"
         /\ D!Wants("AgentResultCallback", a) <=> a.type = "AgentResultCallback"
<1>1. /\ AgentResultDone \in Actions /\ SessionClose \in Actions /\ UserRequest \in Actions
      /\ ResultCallback(0) \in Actions
  BY SessionActions, LiveSessionAssumption
<1>2. /\ AgentResultDone.type = "AgentResult" /\ SessionClose.type = "SessionClose"
      /\ UserRequest.type = "UserRequest" /\ ResultCallback(0).type = "AgentResultCallback"
  BY DEF AgentResultDone, SessionClose, UserRequest, ResultCallback, Action
<1>3. {"AgentOutputHandler", "SessionCloser", "ServerSession", "AgentResultCallback"}
        \subseteq Handlers
  <2>1. \A i \in 1 .. 6 : HandlerOrder[i] \in Handlers
    BY DEF Handlers, HandlerOrder
  <2> QED
    BY <2>1 DEF HandlerOrder
<1>4. /\ Supports["AgentOutputHandler"] = OfTypes({"AgentResult"})
      /\ Supports["SessionCloser"] = OfTypes({"SessionClose", "EventStreamCall", "AgentResult"})
      /\ Supports["ServerSession"] = OfTypes({"UserRequest"})
      /\ Supports["AgentResultCallback"] = OfTypes({"AgentResultCallback"})
  BY <1>3 DEF Supports
<1> QED
  BY <1>1, <1>2, <1>4 DEF D!Wants, OfTypes

(* The actions are different from one another.                             *)
LEMMA ActionsDiffer ==
  /\ UserRequest.type = "UserRequest" /\ EventStreamCall.type = "EventStreamCall"
  /\ SessionClose.type = "SessionClose"
  /\ AgentResultDone.type = "AgentResult" /\ AgentResultDone.ev = 0
  /\ \A e \in 0 .. MaxEvents :
       /\ AgentResult(e).type = "AgentResult" /\ AgentResult(e).ev = e
       /\ ResultCallback(e).type = "AgentResultCallback" /\ ResultCallback(e).ev = e
       /\ ProcessingError(e).type = "ProcessingError" /\ ProcessingError(e).ev = e
BY DEF UserRequest, EventStreamCall, SessionClose, AgentResultDone, AgentResult,
       ResultCallback, ProcessingError, Action

(* Only the output handler and the server session send: the former the     *)
(* close, for the Done, and callbacks of events; the latter the call, or   *)
(* an error and the close.                                                 *)
LEMMA WhatHandlersSend ==
  ASSUME NEW h \in Handlers, NEW a \in Actions, NEW acts \in Emits[h][a], acts # <<>>
  PROVE  /\ \/ h = "AgentOutputHandler" /\ a.type = "AgentResult"
            \/ h = "ServerSession" /\ a = UserRequest
         /\ acts \in Seq(Actions)
         /\ \A i \in 1 .. Len(acts) :
              /\ acts[i] # UserRequest
              /\ acts[i] = EventStreamCall => h = "ServerSession" /\ acts = <<EventStreamCall>>
              /\ acts[i] = SessionClose => h = "ServerSession" \/ a = AgentResultDone
              /\ acts[i].type = "AgentResultCallback" => acts[i].ev # 0
<1>0. acts \in Seq(Actions)
  BY EmitsActions
<1>1. \/ h = "AgentOutputHandler" /\ a.type = "AgentResult" /\ acts \in OutputHandlerSends(a)
      \/ h = "ServerSession" /\ a = UserRequest /\ acts \in RequestHandlerSends
  BY DEF Emits
<1>2. a.ev \in 0 .. MaxEvents /\ 0 \in 0 .. MaxEvents
  BY LiveSessionAssumption DEF Actions
<1>3. CASE h = "AgentOutputHandler" /\ a.type = "AgentResult" /\ acts \in OutputHandlerSends(a)
  <2>1. CASE a = AgentResultDone
    <3>1. acts = <<SessionClose>>
      BY <1>3, <2>1 DEF OutputHandlerSends
    <3> QED
      BY <1>0, <1>3, <2>1, <3>1, ActionsDiffer
  <2>2. CASE a # AgentResultDone
    <3>1. a.ev # 0
      BY <1>3, <2>2 DEF Actions, AgentResultDone, Action
    <3>2. CASE acts = <<ResultCallback(a.ev)>>
      BY <1>0, <1>2, <1>3, <3>1, <3>2, ActionsDiffer
    <3>3. CASE acts = <<ProcessingError(a.ev)>>
      BY <1>0, <1>2, <1>3, <3>3, ActionsDiffer
    <3> QED
      BY <1>3, <2>2, <3>2, <3>3 DEF OutputHandlerSends
  <2> QED
    BY <2>1, <2>2
<1>4. CASE h = "ServerSession" /\ a = UserRequest /\ acts \in RequestHandlerSends
  <2>1. CASE acts = <<EventStreamCall>>
    BY <1>0, <1>4, <2>1, ActionsDiffer
  <2>2. CASE acts = <<ProcessingError(0), SessionClose>>
    BY <1>0, <1>2, <1>4, <2>2, ActionsDiffer
  <2> QED
    BY <1>4, <2>1, <2>2 DEF RequestHandlerSends
<1> QED
  BY <1>1, <1>3, <1>4
-----------------------------------------------------------------------------
(* The HTTP handler registers the handlers one after the other, and only   *)
(* when all six are there does it push the request; unless another request *)
(* has closed the dispatcher by then, and nothing is ever sent.            *)
Early == {"create", "insert", "connect", "bind", "serve"}
Refused == dClosed /\ accepted = <<>> /\ \A p \in D!Procs : spc[p] = "idle"
Registration ==
  /\ Len(registered) <= 6
  /\ \A i \in 1 .. Len(registered) : registered[i] = HandlerOrder[i]
  /\ hpc = "create" => Len(registered) < 4
  /\ hpc \in {"insert", "connect"} => Len(registered) = 4
  /\ hpc = "bind" => Len(registered) \in {4, 5}
  /\ hpc \notin {"create", "insert", "connect", "bind"} => Len(registered) = 6 \/ Refused
  /\ inbox \/ "reader" \in begun => hpc \notin Early
  /\ known => hpc \notin {"create", "insert", "connect"}

(* A dispatcher that is closed before anything was sent stays as it is.    *)
LEMMA RefusedStays ==
  ASSUME Bus, Refused, Next
  PROVE  Refused'
<1> USE DEF Refused, connVars, closerVars, historyVars, sessionVars, busVars
<1>closer. ASSUME NEW k, D!CloseSession(k) \/ D!CloserStep(k)
           PROVE  UNCHANGED <<accepted, spc>> /\ dClosed'
  BY <1>closer DEF D!CloseSession, D!CloserStep, D!Goto, D!CloserKeeps, D!sendVars,
     D!MarkSession, D!CloseDispatcher, D!MarkDispatcher, D!CloseStopChan,
     D!AwaitConsumer, D!CloseChannel, D!MarkChannel, D!ShutChannel
<1>1. CASE HttpStep
  <2>1. CASE CreateSession \/ BindHandlers
    BY <2>1 DEF CreateSession, BindHandlers, RegisterUpTo, D!Register
  <2>2. CASE CloseStep
    BY <2>2, <1>closer DEF CloseStep
  <2>3. CASE \/ Insert \/ Connect \/ BindRefused \/ ServePost \/ ServeOther
             \/ WriteAccepted \/ AwaitDisconnect \/ Return
    BY <2>3 DEF Insert, Connect, BindRefused, ServePost, ServeOther, WriteAccepted,
       AwaitDisconnect, Return
  <2> QED
    BY <1>1, <2>1, <2>2, <2>3 DEF HttpStep
<1>2. CASE ReaderReads \/ ReaderGivesUp \/ StreamStarts \/ ClientLeaves \/ Watch \/ EntryLost
  BY <1>2 DEF ReaderReads, ReaderGivesUp, StreamStarts, ClientLeaves, Watch, EntryLost,
     D!Begin, D!CancelCaller, D!Watch, D!sendVars, D!closeVars
<1>3. ASSUME NEW p \in D!Procs, Sends(p) PROVE Refused'
  <2>1. /\ spc \in [D!Procs -> D!SendAt] /\ spc[p] = "idle"
    BY DEF Bus, D!TypeOK
  <2>2. D!SendFails(p) /\ dClosed' = dClosed
    BY <1>3, <2>1 DEF Sends, D!SendStep, D!SendCheckDispatcher, D!SendCheckChannel,
       D!SendAccepted, D!SendCancelled, D!SendPanics, D!closeVars
  <2> QED
    BY <2>1, <2>2 DEF D!SendFails
<1>4. CASE ConsumerStep
  BY <1>4 DEF ConsumerStep, Consumes, ActionStorageHandle, AgentOutputHandle,
     IncrementTask, DecrementTask, CloseActionWaits, AgentRegistryHandle,
     ServerSessionHandle, ResultCallbackHandle, WriteAnswer, CloseActionCloses,
     CloseActionGivesUp, HandlerReturns, Handles, D!Invoke, D!HandlerReturns,
     D!ConsumerKeeps, D!ConsumeCheck, D!ReceiveCheck, D!Receive, D!ReceiveFails,
     D!Snapshot, D!PassOver, D!DispatchEnds, D!ConsumerCancels, D!ConsumerDone,
     D!sendVars, D!closeVars
<1>5. ASSUME NEW g \in Guests, GuestCloses(g) \/ GuestStep(g) PROVE Refused'
  BY <1>5, <1>closer DEF GuestCloses, GuestStep
<1> QED
  BY <1>1, <1>2, <1>3, <1>4, <1>5 DEF Next

(* When the handlers are bound nothing was sent.                           *)
LEMMA NothingSent ==
  ASSUME Bus, accepted # <<>> \/ "stream" \in begun => "reader" \in begun,
         "reader" \notin begun
  PROVE  accepted = <<>> /\ \A p \in D!Procs : spc[p] = "idle"
<1>1. accepted = <<>> /\ "stream" \notin begun
  OBVIOUS
<1>2. received = <<>>
  BY <1>1, ReceivedIsPrefix
<1>3. out["consumer"] = <<>>
  BY <1>2 DEF Bus, D!Control
<1>4. out["reader"] = <<>> /\ out["stream"] = <<>>
  BY <1>1 DEF Bus, D!Control
<1>5. \A p \in D!Procs : out[p] = <<>>
  BY <1>3, <1>4 DEF D!Procs
<1> QED
  BY <1>1, <1>5 DEF Bus, D!Control

(* Every step keeps the order of the registrations.                        *)
LEMMA NextRegisters ==
  ASSUME Bus, Registration, accepted # <<>> \/ "stream" \in begun => "reader" \in begun,
         [Next]_vars
  PROVE  Registration'
<1> USE DEF connVars, closerVars, historyVars, sessionVars
<1>0. registered \in Seq(Handlers)
  BY DEF Bus, D!TypeOK
<1>refused. ASSUME Next, Refused PROVE Refused'
  BY <1>refused, RefusedStays
<1>idle. ASSUME Next, UNCHANGED <<registered, hpc>>, known' => known,
                inbox' \/ "reader" \in begun' => inbox \/ "reader" \in begun
         PROVE  Registration'
  BY <1>idle, <1>refused DEF Registration, Early
<1>append. ASSUME NEW n \in {4, 6}, RegisterUpTo(n)
           PROVE  /\ registered' = Append(registered, HandlerOrder[Len(registered) + 1])
                  /\ Len(registered') = Len(registered) + 1 /\ Len(registered) < n
                  /\ \A i \in 1 .. Len(registered') : registered'[i] = HandlerOrder[i]
                  /\ UNCHANGED begun
  BY <1>0, <1>append DEF RegisterUpTo, D!Register, D!sendVars, Registration
<1>1. CASE Next /\ HttpStep
  <2> USE DEF Registration, Early
  <2>1. CASE CreateSession
    <3>1. /\ hpc = "create" /\ RegisterUpTo(4)
          /\ hpc' = IF Len(registered) = 3 THEN "insert" ELSE "create"
          /\ inbox' = inbox /\ known' = known
      BY <2>1 DEF CreateSession
    <3>2. UNCHANGED begun
          /\ (\A i \in 1 .. Len(registered) : registered[i] = HandlerOrder[i])'
      BY <1>append, <3>1
    <3>3. ~inbox' /\ "reader" \notin begun' /\ ~known'
      BY <3>1, <3>2
    <3>4. /\ Len(registered') <= 6
          /\ (hpc' = "create" => Len(registered') < 4)
          /\ (hpc' = "insert" => Len(registered') = 4)
          /\ hpc' \in {"create", "insert"}
      <4>1. PICK n \in Nat : n = Len(registered) /\ n < 4 /\ Len(registered') = n + 1
        BY <1>0, <1>append, <3>1
      <4> QED
        BY <3>1, <4>1
    <3> QED
      BY <3>2, <3>3, <3>4
  <2>2. CASE Insert \/ Connect
    BY <2>2 DEF Insert, Connect, busVars
  <2>3. CASE BindHandlers
    <3>1. /\ hpc = "bind" /\ RegisterUpTo(6)
          /\ hpc' = IF Len(registered) = 5 THEN "serve" ELSE "bind"
          /\ inbox' = inbox /\ known' = known
      BY <2>3 DEF BindHandlers
    <3>2. UNCHANGED begun
          /\ (\A i \in 1 .. Len(registered) : registered[i] = HandlerOrder[i])'
      BY <1>append, <3>1
    <3>3. ~inbox' /\ "reader" \notin begun'
      BY <3>1, <3>2
    <3>4. Len(registered) \in {4, 5} /\ Len(registered') = Len(registered) + 1
      BY <1>append, <3>1
    <3>5. /\ Len(registered') <= 6
          /\ (hpc' = "bind" => Len(registered') \in {4, 5})
          /\ (hpc' = "serve" => Len(registered') = 6)
          /\ hpc' \in {"bind", "serve"}
      <4>1. CASE Len(registered) = 4
        BY <3>1, <3>4, <4>1
      <4>2. CASE Len(registered) = 5
        BY <3>1, <3>4, <4>2
      <4> QED
        BY <3>4, <4>1, <4>2
    <3> QED
      BY <3>2, <3>3, <3>5
  <2>4. CASE BindRefused
    <3>1. hpc = "bind" /\ hpc' = "serve" /\ dClosed /\ UNCHANGED <<busVars, known, inbox>>
      BY <2>4 DEF BindRefused
    <3>2. Refused
      BY <3>1, NothingSent DEF Refused
    <3> QED
      BY <1>1, <1>refused, <3>1, <3>2 DEF busVars
  <2>5. CASE ServePost \/ ServeOther \/ WriteAccepted \/ AwaitDisconnect \/ Return
    <3>1. UNCHANGED <<registered, begun, known>> /\ hpc \notin {"create", "insert", "connect", "bind"}
          /\ hpc' \in {"accept", "await", "closing", "leaving", "returned"}
      BY <2>5 DEF ServePost, ServeOther, WriteAccepted, AwaitDisconnect, Return, busVars
    <3> QED
      BY <1>1, <1>refused, <3>1
  <2>6. CASE CloseStep
    BY <1>1, <2>6, <1>idle DEF CloseStep, D!CloseSession, D!CloserStep, D!Goto,
       D!CloserKeeps, D!sendVars, D!MarkSession, D!CloseDispatcher, D!MarkDispatcher,
       D!CloseStopChan, D!AwaitConsumer, D!CloseChannel, D!MarkChannel, D!ShutChannel
  <2> QED
    BY <1>1, <2>1, <2>2, <2>3, <2>4, <2>5, <2>6 DEF HttpStep
<1>2. CASE Next /\ ReaderReads
  BY <1>2, <1>idle DEF ReaderReads, D!Begin
<1>3. CASE Next /\ (StreamStarts \/ ClientLeaves \/ EntryLost \/ ReaderGivesUp)
  BY <1>3, <1>idle DEF StreamStarts, ClientLeaves, EntryLost, ReaderGivesUp, D!Begin,
     D!CancelCaller, busVars
<1>4. ASSUME Next, NEW p \in D!Procs, Sends(p) PROVE Registration'
  BY <1>4, <1>idle DEF Sends, D!SendStep, D!SendCheckDispatcher, D!SendCheckChannel,
       D!SendAccepted, D!SendCancelled, D!SendPanics, D!SendFails, D!sendVars
<1>5. CASE Next /\ ConsumerStep
  <2>1. CASE Consumes
    BY <1>5, <2>1, <1>idle DEF Consumes, D!ConsumerKeeps, D!ConsumeCheck, D!ReceiveCheck,
         D!Receive, D!ReceiveFails, D!Snapshot, D!PassOver, D!DispatchEnds,
         D!ConsumerCancels, D!ConsumerDone, D!sendVars
  <2>2. ASSUME NEW h, NEW acts, Handles(h, acts),
               hpc' = hpc, inbox' = inbox, known' = known
        PROVE  Registration'
    BY <1>5, <2>2, <1>idle DEF Handles, D!Invoke
  <2>3. ASSUME ActionStorageHandle \/ AgentOutputHandle \/ IncrementTask \/ DecrementTask
               \/ CloseActionWaits \/ AgentRegistryHandle \/ ServerSessionHandle
               \/ ResultCallbackHandle
        PROVE  Registration'
    BY <2>2, <2>3 DEF ActionStorageHandle, AgentOutputHandle, IncrementTask,
         DecrementTask, CloseActionWaits, AgentRegistryHandle, ServerSessionHandle,
         ResultCallbackHandle
  <2>4. ASSUME CloseActionCloses \/ CloseActionGivesUp \/ HandlerReturns
        PROVE  Registration'
    BY <1>5, <2>4, <1>idle DEF CloseActionCloses, CloseActionGivesUp, HandlerReturns,
         D!HandlerReturns, D!ConsumerKeeps, D!sendVars
  <2>5. CASE WriteAnswer
    BY <1>5, <2>5, <1>idle DEF WriteAnswer, busVars
  <2> QED
    BY <1>5, <2>1, <2>3, <2>4, <2>5 DEF ConsumerStep
<1>6. CASE Next /\ Watch
  BY <1>6, <1>idle DEF Watch, D!Watch, D!sendVars
<1>7. ASSUME Next, NEW g \in Guests, GuestCloses(g) \/ GuestStep(g) PROVE Registration'
  BY <1>7, <1>idle DEF GuestCloses, GuestStep, D!CloseSession, D!CloserStep, D!Goto,
     D!CloserKeeps, D!sendVars, D!MarkSession, D!CloseDispatcher, D!MarkDispatcher,
     D!CloseStopChan, D!AwaitConsumer, D!CloseChannel, D!MarkChannel, D!ShutChannel
<1>8. CASE UNCHANGED vars
  BY <1>8 DEF vars, busVars, Registration, Early, Refused
<1> QED
  BY <1>1, <1>2, <1>3, <1>4, <1>5, <1>6, <1>7, <1>8 DEF Next
-----------------------------------------------------------------------------
(* The steps by what they may touch.  Most of those of the goroutines      *)
(* around the consumer touch nothing of the queue, its actions and the     *)
(* tasks, but that Connect makes the session known.                        *)
Aside ==
  /\ UNCHANGED <<accepted, received, out, begun, cpc, todo, spawned, writing>>
  /\ \/ UNCHANGED <<known, pending>>
     \/ known' = TRUE /\ pending' = 0
  /\ hpc \in {"create", "insert", "connect"}
       => known' = TRUE \/ hpc' \in {"create", "insert", "connect"}

(* What a goroutine that sends leaves alone.                               *)
Around ==
  UNCHANGED <<received, cpc, todo, spawned, writing, known, pending, hpc>>

(* Every step is one of these kinds.                                       *)
LEMMA StepKinds ==
  ASSUME Next
  PROVE  \/ Aside
         \/ D!Begin("reader") /\ Around
         \/ D!Begin("stream") /\ spawned /\ Around
         \/ \E p \in D!Procs : D!SendStep(p) /\ Around
         \/ ConsumerStep
<1> USE DEF connVars, closerVars, historyVars, sessionVars, busVars
<1>closer. ASSUME NEW k, D!CloseSession(k) \/ D!CloserStep(k), UNCHANGED sessionVars
           PROVE  Aside
  BY <1>closer DEF D!CloseSession, D!CloserStep, D!Goto, D!CloserKeeps, D!consVars,
     D!sendVars, D!MarkSession, D!CloseDispatcher, D!MarkDispatcher, D!CloseStopChan,
     D!AwaitConsumer, D!CloseChannel, D!MarkChannel, D!ShutChannel, Aside
<1>1. CASE HttpStep
  <2>1. ASSUME CreateSession \/ BindHandlers PROVE Aside
    BY <2>1 DEF CreateSession, BindHandlers, RegisterUpTo, D!Register, D!chanVars,
         D!consVars, D!sendVars, Aside
  <2>2. CASE Connect
    BY <2>2 DEF Connect, Aside
  <2>3. ASSUME \/ Insert \/ BindRefused \/ ServePost \/ ServeOther \/ WriteAccepted
               \/ AwaitDisconnect \/ Return
        PROVE  Aside
    BY <2>3 DEF Insert, BindRefused, ServePost, ServeOther, WriteAccepted,
       AwaitDisconnect, Return, Aside
  <2>4. CASE CloseStep
    BY <1>closer, <2>4 DEF CloseStep
  <2> QED
    BY <1>1, <2>1, <2>2, <2>3, <2>4 DEF HttpStep
<1>2. CASE ReaderReads
  BY <1>2 DEF ReaderReads, D!Begin, D!consVars, Around
<1>3. CASE StreamStarts
  BY <1>3 DEF StreamStarts, D!Begin, D!consVars, Around
<1>4. ASSUME NEW p \in D!Procs, Sends(p) PROVE D!SendStep(p) /\ Around
  BY <1>4 DEF Sends, D!SendStep, D!SendCheckDispatcher, D!SendCheckChannel,
       D!SendAccepted, D!SendCancelled, D!SendPanics, D!consVars, Around
<1>5. CASE ReaderGivesUp \/ ClientLeaves \/ Watch \/ EntryLost
  BY <1>5 DEF ReaderGivesUp, ClientLeaves, D!CancelCaller, Watch, D!Watch, EntryLost,
       D!chanVars, D!consVars, D!sendVars, Aside
<1>6. ASSUME NEW g \in Guests, GuestCloses(g) \/ GuestStep(g) PROVE Aside
  BY <1>6, <1>closer DEF GuestCloses, GuestStep
<1> QED
  BY <1>1, <1>2, <1>3, <1>4, <1>5, <1>6 DEF Next

(* The consumer takes an action, copies the handlers, runs one or goes on  *)
(* to the next, or is between two actions.                                 *)
Between ==
  /\ UNCHANGED <<todo, received>>
  /\ cpc \notin {"snapshot", "handling"} /\ cpc' \notin {"snapshot", "handling"}
  /\ cpc' \in {"check", "poll", "select"} =>
       cpc \in {"check", "poll", "select"} \/ todo = <<>>

(* The handler h is called, with what it may do to the tasks, the stream   *)
(* and the writer, and sends acts.                                         *)
Runs(h, acts) ==
  /\ Handles(h, acts)
  /\ hpc' = hpc
  /\ known' = known
  /\ \/ /\ pending' = pending
        /\ h = "SessionCloser" /\ D!Current = AgentResultDone => ~(known /\ pending > 0)
     \/ /\ h = "SessionCloser" /\ D!Current = EventStreamCall
        /\ pending' = pending + 1
     \/ /\ h = "SessionCloser" /\ D!Current = AgentResultDone /\ pending > 0
        /\ pending' = pending - 1
  /\ spawned => spawned'
  /\ spawned' => spawned \/ (h = "AgentRegistry" /\ D!Current = EventStreamCall)
  /\ writing' => writing \/ h = "AgentResultCallback"

(* Every step of the consumer is one of these kinds.                       *)
LEMMA ConsumerKinds ==
  ASSUME ConsumerStep
  PROVE  \/ Between /\ UNCHANGED <<accepted, out, begun, sessionVars>>
         \/ (D!Receive \/ D!Snapshot \/ D!PassOver) /\ UNCHANGED sessionVars
         \/ \E h \in Handlers : \E acts \in Emits[h][D!Current] : Runs(h, acts)
         \/ D!HandlerReturns /\ ~writing /\ UNCHANGED sessionVars
         \/ D!HandlerReturns /\ InCloseAction /\ (CloseActionCloses \/ UNCHANGED sessionVars)
         \/ WriteAnswer
<1> USE DEF connVars, closerVars, historyVars, sessionVars, busVars
<1>1. CASE Consumes
  BY <1>1 DEF Consumes, D!ConsumerKeeps, D!ConsumeCheck, D!ReceiveCheck,
       D!ReceiveFails, D!DispatchEnds, D!ConsumerCancels, D!ConsumerDone,
       D!sendVars, Between
<1>2. ASSUME NEW h \in Handlers, NEW acts, Runs(h, acts)
      PROVE  \E g \in Handlers : \E b \in Emits[g][D!Current] : Runs(g, b)
  BY <1>2 DEF Runs, Handles
<1>3. \A i \in 1 .. 6 : HandlerOrder[i] \in Handlers
  BY DEF Handlers, HandlerOrder
<1>4. {"ActionStorage", "AgentOutputHandler", "SessionCloser", "AgentRegistry",
       "ServerSession", "AgentResultCallback"} \subseteq Handlers
  BY <1>3 DEF HandlerOrder
<1>5. CASE ActionStorageHandle
  BY <1>2, <1>4, <1>5 DEF ActionStorageHandle, Runs
<1>6. CASE AgentOutputHandle
  <2>1. PICK acts : Handles("AgentOutputHandler", acts)
    BY <1>6 DEF AgentOutputHandle
  <2>2. Runs("AgentOutputHandler", acts)
    BY <1>6, <2>1 DEF AgentOutputHandle, Runs
  <2> QED
    BY <1>2, <1>4, <2>2
<1>7. CASE IncrementTask \/ DecrementTask \/ CloseActionWaits
  <2>1. CASE IncrementTask
    BY <1>2, <1>4, <2>1, ActionsDiffer DEF IncrementTask, Runs
  <2>2. CASE DecrementTask
    BY <1>2, <1>4, <2>2 DEF DecrementTask, Runs
  <2>3. CASE CloseActionWaits
    BY <1>2, <1>4, <2>3, ActionsDiffer DEF CloseActionWaits, Runs
  <2> QED
    BY <1>7, <2>1, <2>2, <2>3
<1>8. CASE AgentRegistryHandle
  BY <1>2, <1>4, <1>8 DEF AgentRegistryHandle, Runs
<1>9. CASE ServerSessionHandle
  <2>1. PICK acts : Handles("ServerSession", acts)
    BY <1>9 DEF ServerSessionHandle
  <2>2. Runs("ServerSession", acts)
    BY <1>9, <2>1 DEF ServerSessionHandle, Runs
  <2> QED
    BY <1>2, <1>4, <2>2
<1>10. CASE ResultCallbackHandle
  BY <1>2, <1>4, <1>10 DEF ResultCallbackHandle, Runs
<1>11. CASE CloseActionCloses \/ CloseActionGivesUp \/ HandlerReturns
  BY <1>11 DEF CloseActionCloses, CloseActionGivesUp, HandlerReturns
<1> QED
  BY <1>1, <1>5, <1>6, <1>7, <1>8, <1>9, <1>10, <1>11 DEF ConsumerStep
-----------------------------------------------------------------------------
(* What the consumer has still to call is an end of the order of the       *)
(* handlers, so that its length says whose turn it is.                     *)
Turns ==
  /\ Len(todo) <= 6
  /\ \A i \in 1 .. Len(todo) : todo[i] = HandlerOrder[6 - Len(todo) + i]
  /\ cpc \in {"check", "poll", "select", "snapshot"} => todo = <<>>

(* Has the i-th handler been called for the current action, or passed over? *)
Passed(i) ==
  /\ cpc # "snapshot"
  /\ \/ Len(todo) < 7 - i
     \/ cpc = "handling" /\ Len(todo) = 7 - i

(* Whose turn it is fixes how many handlers are still to be called.        *)
LEMMA TurnIs ==
  ASSUME Turns, todo \in Seq(Handlers), todo # <<>>
  PROVE  /\ Len(todo) \in 1 .. 6
         /\ Head(todo) = HandlerOrder[7 - Len(todo)]
         /\ Head(todo) = "AgentOutputHandler" => Len(todo) = 5
         /\ Head(todo) = "SessionCloser" => Len(todo) = 4
         /\ Head(todo) = "AgentRegistry" => Len(todo) = 3
         /\ Head(todo) = "ServerSession" => Len(todo) = 2
         /\ Len(todo) = 4 => Head(todo) = "SessionCloser"
         /\ Len(todo) = 2 => Head(todo) = "ServerSession"
<1>1. Len(todo) \in 1 .. 6
  <2>1. PICK n \in Nat : n = Len(todo)
    OBVIOUS
  <2>2. n # 0
    BY <2>1, EmptySeq
  <2>3. n <= 6
    BY <2>1 DEF Turns
  <2>4. n \in 1 .. 6
    BY <2>2, <2>3
  <2> QED
    BY <2>1, <2>4
<1>2. Head(todo) = HandlerOrder[7 - Len(todo)]
  <2>1. Head(todo) = todo[1] /\ 6 - Len(todo) + 1 = 7 - Len(todo) /\ 1 \in 1 .. Len(todo)
    BY <1>1
  <2> QED
    BY <2>1 DEF Turns
<1>3. PICK n \in 1 .. 6 : n = Len(todo)
  BY <1>1
<1>4. Head(todo) = HandlerOrder[7 - n]
  BY <1>2, <1>3
<1>5. n \in {1, 2, 3, 4, 5, 6}
  OBVIOUS
<1>6. \/ n = 1 /\ Head(todo) = "AgentResultCallback"
      \/ n = 2 /\ Head(todo) = "ServerSession"
      \/ n = 3 /\ Head(todo) = "AgentRegistry"
      \/ n = 4 /\ Head(todo) = "SessionCloser"
      \/ n = 5 /\ Head(todo) = "AgentOutputHandler"
      \/ n = 6 /\ Head(todo) = "ActionStorage"
  BY <1>4, <1>5 DEF HandlerOrder
<1>7. /\ Head(todo) = "AgentOutputHandler" => n = 5
      /\ Head(todo) = "SessionCloser" => n = 4
      /\ Head(todo) = "AgentRegistry" => n = 3
      /\ Head(todo) = "ServerSession" => n = 2
      /\ n = 4 => Head(todo) = "SessionCloser"
      /\ n = 2 => Head(todo) = "ServerSession"
  BY <1>6
<1> QED
  BY <1>1, <1>2, <1>3, <1>7

(* Once the first of them is done, the rest is again such an end.          *)
LEMMA TailTurns ==
  ASSUME Turns, todo \in Seq(Handlers), todo # <<>>, todo' = Tail(todo),
         cpc' \in {"dispatch", "handling"}
  PROVE  Turns' /\ Len(todo') = Len(todo) - 1
<1>1. PICK n \in 1 .. 6 : n = Len(todo)
  BY TurnIs
<1>2. Len(todo') = n - 1 /\ \A i \in 1 .. n - 1 : todo'[i] = todo[i + 1]
  BY <1>1
<1>3. ASSUME NEW i \in 1 .. n - 1 PROVE todo'[i] = HandlerOrder[6 - (n - 1) + i]
  <2>1. i + 1 \in 1 .. Len(todo) /\ 6 - n + (i + 1) = 6 - (n - 1) + i
    BY <1>1
  <2>2. todo[i + 1] = HandlerOrder[6 - n + (i + 1)]
    BY <1>1, <2>1 DEF Turns
  <2> QED
    BY <1>2, <2>1, <2>2
<1>4. Len(todo') <= 6
  BY <1>2
<1> QED
  BY <1>1, <1>2, <1>3, <1>4 DEF Turns

(* When an action was received all six handlers were registered: the copy  *)
(* the consumer makes of them is the whole order.                          *)
LEMMA SnapshotIsFull ==
  ASSUME Bus, Registration, accepted # <<>> => "reader" \in begun, D!Snapshot
  PROVE  /\ todo' = registered /\ cpc' = "dispatch" /\ Len(todo') = 6
         /\ \A i \in 1 .. 6 : todo'[i] = HandlerOrder[i]
<1>1. accepted # <<>>
  BY ReceivedIsPrefix DEF D!Snapshot, Bus, D!Control
<1>2. Len(registered) = 6 /\ \A i \in 1 .. 6 : registered[i] = HandlerOrder[i]
  BY <1>1 DEF Registration, Early, Refused
<1> QED
  BY <1>2 DEF D!Snapshot

(* Every step keeps what is still to be called an end of the order.        *)
LEMMA NextTurns ==
  ASSUME Bus, Registration, accepted # <<>> => "reader" \in begun, Turns, [Next]_vars
  PROVE  Turns'
<1>0. todo \in Seq(Handlers) /\ registered \in Seq(Handlers)
  BY DEF Bus, D!TypeOK
<1>1. ASSUME UNCHANGED <<todo, cpc>> PROVE Turns'
  BY <1>1 DEF Turns
<1>2. CASE Between
  BY <1>2 DEF Between, Turns
<1>3. CASE D!Receive
  BY <1>3 DEF D!Receive, Turns
<1>4. CASE D!Snapshot
  <2>1. Len(todo') = 6 /\ \A i \in 1 .. 6 : todo'[i] = HandlerOrder[6 - 6 + i]
    BY <1>4, SnapshotIsFull
  <2> QED
    BY <1>4, <2>1, SnapshotIsFull DEF Turns
<1>5. CASE D!PassOver
  BY <1>0, <1>5, TailTurns DEF D!PassOver
<1>6. CASE D!HandlerReturns
  BY <1>0, <1>6, TailTurns DEF D!HandlerReturns, Bus, D!Control
<1>7. ASSUME NEW h, NEW acts, Runs(h, acts) PROVE Turns'
  BY <1>7 DEF Runs, Handles, D!Invoke, Turns
<1>8. CASE UNCHANGED vars
  BY <1>1, <1>8 DEF vars, busVars
<1>9. CASE WriteAnswer
  BY <1>1, <1>9 DEF WriteAnswer, busVars
<1>10. CASE ConsumerStep
  BY <1>2, <1>3, <1>4, <1>5, <1>6, <1>7, <1>9, <1>10, ConsumerKinds
<1>11. CASE Next /\ ~ConsumerStep
  BY <1>1, <1>11, StepKinds DEF Aside, Around
<1> QED
  BY <1>8, <1>10, <1>11
-----------------------------------------------------------------------------
(* Who has sent what: the request comes first, the call second, and only   *)
(* after the call was received does the stream send.                       *)
Called == Len(accepted) >= 2 /\ accepted[2] = EventStreamCall

(* What was accepted: the request first and only then, the call second,    *)
(* and no callback but of an event.                                        *)
InQueue ==
  /\ accepted # <<>> => "reader" \in begun
  /\ \A i \in 1 .. Len(accepted) :
       /\ accepted[i] = UserRequest <=> i = 1
       /\ accepted[i] = EventStreamCall => i = 2
       /\ accepted[i].type = "AgentResultCallback" => accepted[i].ev # 0

(* What the goroutines still have to send: the reader the request, the     *)
(* stream results, the consumer neither a second call nor a request.       *)
ToSend ==
  /\ out["reader"] # <<>> => out["reader"] = <<UserRequest>> /\ accepted = <<>>
  /\ \A i \in 1 .. Len(out["stream"]) : out["stream"][i].type = "AgentResult"
  /\ \A i \in 1 .. Len(out["consumer"]) :
       /\ out["consumer"][i] # UserRequest
       /\ out["consumer"][i] = EventStreamCall
            => out["consumer"] = <<EventStreamCall>> /\ Len(accepted) = 1
       /\ out["consumer"][i].type = "AgentResultCallback" => out["consumer"][i].ev # 0

(* The stream runs only after the call was received.                       *)
Streaming ==
  /\ "stream" \in begun => spawned
  /\ spawned => Called /\ Len(received) >= 2

(* Until the server session has had the request, nothing else is sent.     *)
Undisturbed ==
  /\ received = <<>> => Len(accepted) <= 1
  /\ Len(received) = 1 /\ ~Passed(5) => Len(accepted) = 1 /\ out["consumer"] = <<>>

Origins == InQueue /\ ToSend /\ Streaming /\ Undisturbed

(* A step of a goroutine that sends: it starts, it fails, or it queues the *)
(* next of its actions.                                                    *)
LEMMA BeginKeepsOrigins ==
  ASSUME Bus, Origins, Around,
         D!Begin("reader") \/ (D!Begin("stream") /\ spawned)
  PROVE  Origins'
<1>0. /\ out \in [D!Procs -> Seq(Actions)] /\ accepted \in Seq(Actions)
      /\ {"reader", "stream", "consumer"} = D!Procs
  BY DEF Bus, D!TypeOK, D!Procs
<1>1. UNCHANGED <<accepted, received, cpc, todo, spawned>>
  BY DEF D!Begin, Around
<1>2. CASE D!Begin("reader")
  <2>1. accepted = <<>>
    BY <1>2 DEF D!Begin, Origins, InQueue
  <2>2. out' = [out EXCEPT !["reader"] = <<UserRequest>>] /\ begun' = begun \cup {"reader"}
    BY <1>2 DEF D!Begin, Scripts
  <2>3. out'["reader"] = <<UserRequest>> /\ \A p \in {"stream", "consumer"} : out'[p] = out[p]
    BY <1>0, <2>2
  <2> QED
    BY <1>1, <2>1, <2>2, <2>3 DEF Origins, InQueue, ToSend, Streaming, Undisturbed,
         Called, Passed
<1>3. CASE D!Begin("stream") /\ spawned
  <2>1. PICK acts \in Scripts["stream"] : out' = [out EXCEPT !["stream"] = acts]
    BY <1>3 DEF D!Begin
  <2>2. \A i \in 1 .. Len(acts) : acts[i].type = "AgentResult"
    <3>1. PICK n \in 0 .. MaxEvents :
                 acts = [i \in 1 .. n |-> AgentResult(i)] \o <<AgentResultDone>>
      BY DEF Scripts
    <3> DEFINE events == [i \in 1 .. n |-> AgentResult(i)]
    <3>2. \A i \in 1 .. n : AgentResult(i) \in Actions /\ AgentResult(i).type = "AgentResult"
      BY LiveSessionAssumption, SessionActions, ActionsDiffer
    <3>3. events \in Seq(Actions) /\ Len(events) = n
      BY <3>2, LiveSessionAssumption
    <3>4. \A i \in 1 .. n : events[i].type = "AgentResult"
      BY <3>2
    <3>5. Len(acts) = n + 1 /\ acts[n + 1] = AgentResultDone
          /\ \A i \in 1 .. n : acts[i] = events[i]
      <4> HIDE DEF events
      <4> QED
        BY <3>1, <3>3, SessionActions, LiveSessionAssumption DEF events
    <3> HIDE DEF events
    <3> QED
      BY <3>4, <3>5, ActionsDiffer, LiveSessionAssumption
  <2>3. out'["stream"] = acts /\ \A p \in {"reader", "consumer"} : out'[p] = out[p]
    BY <1>0, <2>1
  <2>4. begun' = begun \cup {"stream"}
    BY <1>3 DEF D!Begin
  <2> QED
    BY <1>1, <1>3, <2>2, <2>3, <2>4 DEF Origins, InQueue, ToSend, Streaming,
         Undisturbed, Called, Passed
<1> QED
  BY <1>2, <1>3

(* A Send that fails leaves an end of what the goroutine had to send.      *)
LEMMA FailureKeepsOrigins ==
  ASSUME Bus, Origins, Around, NEW p \in D!Procs, out[p] # <<>>,
         D!SendFails(p)
  PROVE  Origins'
<1>0. /\ out \in [D!Procs -> Seq(Actions)]
      /\ {"reader", "stream", "consumer"} = D!Procs
  BY DEF Bus, D!TypeOK, D!Procs
<1>1. UNCHANGED <<accepted, begun, received, cpc, todo, spawned>>
  BY DEF D!SendFails, Around
<1>2. \A q \in D!Procs \ {p} : out'[q] = out[q]
  BY <1>0 DEF D!SendFails
<1>3. CASE p = "reader"
  <2>1. out["reader"] = <<UserRequest>>
    BY <1>3 DEF Origins, ToSend
  <2>2. PICK i \in 2 .. Len(out["reader"]) + 1 :
               out' = [out EXCEPT !["reader"] = SubSeq(@, i, Len(@))]
    BY <1>3 DEF D!SendFails
  <2>3. i = 2 /\ Len(out["reader"]) = 1
    BY <2>1, <2>2
  <2>4. SubSeq(out["reader"], 2, 1) = <<>>
    BY <2>1
  <2>5. out'["reader"] = <<>>
    BY <1>0, <2>2, <2>3, <2>4
  <2> QED
    BY <1>0, <1>1, <1>2, <1>3, <2>5 DEF Origins, InQueue, ToSend, Streaming,
         Undisturbed, Called, Passed
<1>4. CASE p = "stream"
  <2> DEFINE s == out["stream"]
  <2>1. PICK i \in 2 .. Len(s) + 1 : out' = [out EXCEPT !["stream"] = SubSeq(@, i, Len(@))]
    BY <1>4 DEF D!SendFails
  <2>2. s \in Seq(Actions)
    BY <1>0
  <2>3. out'["stream"] = SubSeq(s, i, Len(s))
    BY <1>0, <2>1
  <2>4. \A k \in 1 .. Len(out'["stream"]) : out'["stream"][k].type = "AgentResult"
    <3>1. \A k \in 1 .. Len(s) : s[k].type = "AgentResult"
      BY DEF Origins, ToSend
    <3> HIDE DEF s
    <3>2. PICK n \in Nat : n = Len(s)
      BY <2>2
    <3>3. Len(SubSeq(s, i, n)) = n - i + 1
          /\ \A k \in 1 .. n - i + 1 : SubSeq(s, i, n)[k] = s[i + k - 1]
      BY <2>2, <3>2, <2>1
    <3>4. \A k \in 1 .. n - i + 1 : i + k - 1 \in 1 .. n
      BY <2>1, <3>2
    <3> QED
      BY <2>3, <3>1, <3>2, <3>3, <3>4
  <2> QED
    BY <1>0, <1>1, <1>2, <1>4, <2>4 DEF Origins, InQueue, ToSend, Streaming,
         Undisturbed, Called, Passed
<1>5. CASE p = "consumer"
  <2>1. out'["consumer"] = <<>>
    BY <1>0, <1>5 DEF D!SendFails
  <2> QED
    BY <1>0, <1>1, <1>2, <1>5, <2>1 DEF Origins, InQueue, ToSend, Streaming,
         Undisturbed, Called, Passed
<1> QED
  BY <1>0, <1>3, <1>4, <1>5

(* What is queued next is the request, the call or something later.        *)
LEMMA AcceptKeepsOrigins ==
  ASSUME Bus, Origins, Around, NEW p \in D!Procs, D!SendAccepted(p)
  PROVE  Origins'
<1> DEFINE a == Head(out[p])
<1>0. /\ out \in [D!Procs -> Seq(Actions)] /\ out[p] \in Seq(Actions)
      /\ {"reader", "stream", "consumer"} = D!Procs
      /\ out[p] # <<>>
  BY DEF Bus, D!TypeOK, D!Procs, D!Control, D!SendAccepted
<1>1. UNCHANGED <<begun, received, cpc, todo, spawned>>
  BY DEF D!SendAccepted, Around
<1>2. \A q \in D!Procs \ {p} : out'[q] = out[q]
  BY <1>0 DEF D!SendAccepted
<1>3. PICK n \in Nat : n = Len(accepted)
  BY ReceivedIsPrefix
<1>4. PICK r \in Nat : r = Len(received)
  BY ReceivedIsPrefix
<1>5. /\ Len(accepted') = n + 1 /\ accepted'[n + 1] = a
      /\ \A i \in 1 .. n : accepted'[i] = accepted[i]
      /\ accepted' # <<>>
  <2>1. accepted \in Seq(Actions) /\ a \in Actions /\ accepted' = Append(accepted, a)
    BY <1>0, ReceivedIsPrefix DEF D!SendAccepted
  <2> HIDE DEF a
  <2> QED
    BY <1>3, <2>1
<1>6. out'[p] = Tail(out[p])
  BY <1>0 DEF D!SendAccepted
<1>7. r <= n /\ (n = 0 <=> accepted = <<>>) /\ (r = 0 <=> received = <<>>)
  BY <1>3, <1>4, ReceivedIsPrefix, EmptySeq
<1>8. Called => Called'
  <2> SUFFICES ASSUME Called PROVE Called'
    OBVIOUS
  <2>1. n >= 2 /\ accepted[2] = EventStreamCall
    BY <1>3 DEF Called
  <2>2. accepted'[2] = accepted[2]
    BY <1>5, <2>1
  <2> QED
    BY <1>5, <2>1, <2>2 DEF Called
<1>9. a = out[p][1] /\ 1 \in 1 .. Len(out[p])
  <2>1. PICK m \in Nat : m = Len(out[p])
    BY <1>0
  <2>2. m # 0
    BY <1>0, <2>1, EmptySeq
  <2> QED
    BY <1>0, <2>1, <2>2
<1>10. ASSUME "reader" \in begun,
              a = UserRequest <=> n = 0, a = EventStreamCall => n = 1,
              a.type = "AgentResultCallback" => a.ev # 0
       PROVE  InQueue'
  <2>1. \A i \in 1 .. n + 1 : i \in 1 .. n \/ i = n + 1
    OBVIOUS
  <2>2. \A i \in 1 .. n :
          /\ accepted[i] = UserRequest <=> i = 1
          /\ accepted[i] = EventStreamCall => i = 2
          /\ accepted[i].type = "AgentResultCallback" => accepted[i].ev # 0
    BY <1>3 DEF Origins, InQueue
  <2>3. /\ accepted'[n + 1] = UserRequest <=> n + 1 = 1
        /\ accepted'[n + 1] = EventStreamCall => n + 1 = 2
        /\ accepted'[n + 1].type = "AgentResultCallback" => accepted'[n + 1].ev # 0
    <3> HIDE DEF a
    <3> QED
      BY <1>5, <1>10
  <2>4. \A i \in 1 .. n + 1 :
          /\ accepted'[i] = UserRequest <=> i = 1
          /\ accepted'[i] = EventStreamCall => i = 2
          /\ accepted'[i].type = "AgentResultCallback" => accepted'[i].ev # 0
    BY <1>5, <2>1, <2>2, <2>3
  <2> QED
    BY <1>1, <1>5, <1>10, <2>4 DEF InQueue
<1>11. CASE p = "reader"
  <2>1. out["reader"] = <<UserRequest>> /\ n = 0 /\ r = 0
    BY <1>0, <1>7, <1>11 DEF Origins, ToSend
  <2>2. a = UserRequest /\ "reader" \in begun /\ out'["reader"] = <<>>
    <3>1. "reader" \in begun
      BY <1>0, <1>11 DEF Bus, D!Control
    <3>2. a = Head(<<UserRequest>>) /\ out'["reader"] = Tail(<<UserRequest>>)
      BY <1>6, <1>11, <2>1
    <3> QED
      BY <3>1, <3>2
  <2>3. ~spawned /\ "stream" \notin begun
    BY <1>3, <2>1 DEF Origins, Streaming, Called
  <2>4. InQueue'
    BY <1>10, <2>1, <2>2, ActionsDiffer
  <2>5. ToSend'
    <3>1. \A i \in 1 .. Len(out["consumer"]) : out["consumer"][i] # EventStreamCall
      BY <1>3, <2>1 DEF Origins, ToSend
    <3> QED
      BY <1>0, <1>2, <1>11, <2>2, <3>1 DEF Origins, ToSend
  <2>6. Streaming'
    BY <1>1, <2>3 DEF Streaming
  <2>7. Undisturbed'
    BY <1>1, <1>4, <1>5, <2>1 DEF Undisturbed
  <2> QED
    BY <2>4, <2>5, <2>6, <2>7 DEF Origins
<1>12. CASE p = "stream"
  <2>1. spawned /\ Called /\ r >= 2 /\ n >= 2
    BY <1>0, <1>3, <1>4, <1>12 DEF Bus, D!Control, Origins, Streaming, Called
  <2>2. a.type = "AgentResult"
    BY <1>9, <1>12 DEF Origins, ToSend
  <2>3. accepted # <<>> /\ "reader" \in begun /\ out["reader"] = <<>>
    BY <1>7, <2>1 DEF Origins, InQueue, ToSend
  <2>4. InQueue'
    BY <1>10, <2>1, <2>2, <2>3, ActionsDiffer
  <2>5. ToSend'
    <3>1. \A i \in 1 .. Len(out["consumer"]) : out["consumer"][i] # EventStreamCall
      BY <1>3, <2>1 DEF Origins, ToSend
    <3>2. \A i \in 1 .. Len(out'["stream"]) : out'["stream"][i].type = "AgentResult"
      <4> DEFINE s == out["stream"]
      <4>1. PICK m \in Nat : m = Len(s)
        BY <1>0
      <4>2. s \in Seq(Actions) /\ s # <<>> /\ out'["stream"] = Tail(s)
        BY <1>0, <1>6, <1>12
      <4>3. \A i \in 1 .. m : s[i].type = "AgentResult"
        BY <4>1 DEF Origins, ToSend
      <4>4. \A i \in 1 .. m - 1 : i + 1 \in 1 .. m
        BY <4>1
      <4> HIDE DEF s
      <4>5. /\ Len(Tail(s)) = m - 1
            /\ \A i \in 1 .. m - 1 : Tail(s)[i] = s[i + 1]
        BY <4>1, <4>2
      <4> QED
        BY <4>1, <4>2, <4>3, <4>4, <4>5
    <3> QED
      BY <1>0, <1>2, <1>12, <2>3, <3>1, <3>2 DEF Origins, ToSend
  <2>6. Streaming'
    BY <1>1, <1>8 DEF Origins, Streaming
  <2>7. Undisturbed'
    BY <1>1, <1>4, <1>7, <2>1 DEF Undisturbed
  <2> QED
    BY <2>4, <2>5, <2>6, <2>7 DEF Origins
<1>13. CASE p = "consumer"
  <2>1. r >= 1 /\ n >= 1 /\ accepted # <<>>
    BY <1>0, <1>4, <1>7, <1>13 DEF Bus, D!Control
  <2>2. /\ a # UserRequest
        /\ a = EventStreamCall => n = 1
        /\ a.type = "AgentResultCallback" => a.ev # 0
    BY <1>3, <1>9, <1>13 DEF Origins, ToSend
  <2>3. "reader" \in begun /\ out["reader"] = <<>>
    BY <2>1 DEF Origins, InQueue, ToSend
  <2>4. InQueue'
    BY <1>10, <2>1, <2>2, <2>3
  <2>5. ToSend'
    <3> DEFINE s == out["consumer"]
    <3>1. PICK m \in Nat : m = Len(s)
      BY <1>0
    <3>2. s \in Seq(Actions) /\ s # <<>> /\ out'["consumer"] = Tail(s)
      BY <1>0, <1>6, <1>13
    <3>3. \A i \in 1 .. m :
            /\ s[i] # UserRequest
            /\ s[i] = EventStreamCall => s = <<EventStreamCall>>
            /\ s[i].type = "AgentResultCallback" => s[i].ev # 0
      BY <3>1 DEF Origins, ToSend
    <3>4. /\ Len(Tail(s)) = m - 1
          /\ \A i \in 1 .. m - 1 : Tail(s)[i] = s[i + 1]
      <4> HIDE DEF s
      <4> QED
        BY <3>1, <3>2
    <3>5. \A i \in 1 .. m - 1 : i + 1 \in 1 .. m
      BY <3>1
    <3>6. s = <<EventStreamCall>> => m = 1
      <4> HIDE DEF s
      <4> QED
        BY <3>1
    <3>7. \A i \in 1 .. Len(out'["consumer"]) :
            /\ out'["consumer"][i] # UserRequest
            /\ out'["consumer"][i] # EventStreamCall
            /\ out'["consumer"][i].type = "AgentResultCallback" => out'["consumer"][i].ev # 0
      <4> HIDE DEF s
      <4> QED
        BY <3>1, <3>2, <3>3, <3>4, <3>5, <3>6
    <3> QED
      BY <1>0, <1>2, <1>13, <2>3, <3>7 DEF Origins, ToSend
  <2>6. Streaming'
    BY <1>1, <1>8 DEF Origins, Streaming
  <2>7. Undisturbed'
    BY <1>0, <1>1, <1>4, <1>7, <1>13, <2>1 DEF Origins, Undisturbed, Passed
  <2> QED
    BY <2>4, <2>5, <2>6, <2>7 DEF Origins
<1> QED
  BY <1>0, <1>11, <1>12, <1>13

(* When a handler runs: which action it is called for, by how many were     *)
(* received, and that the server session runs before all others send.      *)
LEMMA RunFacts ==
  ASSUME Bus, Turns, Origins,
         NEW h \in Handlers, NEW acts \in Emits[h][D!Current], Runs(h, acts)
  PROVE  /\ cpc = "dispatch" /\ todo # <<>> /\ h = Head(todo) /\ D!Wants(h, D!Current)
         /\ cpc' = "handling" /\ UNCHANGED <<accepted, received, begun, todo>>
         /\ out'["consumer"] = acts /\ \A p \in {"reader", "stream"} : out'[p] = out[p]
         /\ Len(received) \in 1 .. Len(accepted) /\ accepted # <<>>
         /\ D!Current = received[Len(received)] /\ D!Current = accepted[Len(received)]
         /\ D!Current \in Actions
         /\ D!Current = UserRequest <=> Len(received) = 1
         /\ D!Current = EventStreamCall => Len(received) = 2
         /\ acts # <<>> /\ h = "ServerSession"
              => Len(received) = 1 /\ Len(accepted) = 1 /\ Passed(5)' /\ ~spawned
<1>0. /\ out \in [D!Procs -> Seq(Actions)] /\ todo \in Seq(Handlers)
      /\ {"reader", "stream", "consumer"} = D!Procs
  BY DEF Bus, D!TypeOK, D!Procs
<1>1. /\ cpc = "dispatch" /\ todo # <<>> /\ h = Head(todo) /\ D!Wants(h, D!Current)
      /\ cpc' = "handling" /\ out' = [out EXCEPT !["consumer"] = acts]
      /\ UNCHANGED <<accepted, received, begun, todo>>
  BY DEF Runs, Handles, Turn, D!Invoke, D!chanVars
<1>2. PICK r \in Nat : r = Len(received)
  BY ReceivedIsPrefix
<1>3. r \in 1 .. Len(accepted) /\ D!Current = received[r] /\ D!Current = accepted[r]
      /\ D!Current \in Actions /\ accepted # <<>>
  <2>1. accepted # <<>>
    BY <1>1, ReceivedIsPrefix DEF Bus, D!Control
  <2> QED
    BY <1>1, <1>2, <2>1, CurrentIs
<1>4. D!Current = UserRequest <=> r = 1
  BY <1>3 DEF Origins, InQueue
<1>5. D!Current = EventStreamCall => r = 2
  BY <1>3 DEF Origins, InQueue
<1>6. out'["consumer"] = acts /\ \A p \in {"reader", "stream"} : out'[p] = out[p]
  BY <1>0, <1>1
<1>7. ASSUME acts # <<>>, h = "ServerSession"
      PROVE  r = 1 /\ Len(accepted) = 1 /\ Passed(5)' /\ ~spawned
  <2>1. r = 1
    BY <1>3, <1>4, <1>7, WhatHandlersSend, ActionsDiffer
  <2>2. Len(todo) = 2
    BY <1>0, <1>1, <1>7, TurnIs
  <2>3. ~Passed(5) /\ Passed(5)'
    BY <1>1, <2>2 DEF Passed
  <2>4. ~spawned
    BY <1>2, <2>1 DEF Origins, Streaming
  <2> QED
    BY <1>2, <2>1, <2>3, <2>4 DEF Origins, Undisturbed
<1> QED
  BY <1>1, <1>2, <1>3, <1>4, <1>5, <1>6, <1>7

(* Only a handler that runs has something to send, and only the server     *)
(* session, of the request, before the stream has.                         *)
LEMMA RunKeepsOrigins ==
  ASSUME Bus, Turns, Origins,
         NEW h \in Handlers, NEW acts \in Emits[h][D!Current], Runs(h, acts)
  PROVE  Origins'
<1>0. todo \in Seq(Handlers)
  BY DEF Bus, D!TypeOK
<1>1. UNCHANGED <<accepted, received, begun, todo>>
  BY RunFacts
<1>2. InQueue'
  BY <1>1 DEF Origins, InQueue
<1>3. ToSend'
  <2>1. out["reader"] = <<>>
    BY RunFacts DEF Origins, ToSend
  <2>2. ASSUME NEW i \in 1 .. Len(acts)
        PROVE  /\ acts[i] # UserRequest
               /\ acts[i] = EventStreamCall => acts = <<EventStreamCall>> /\ Len(accepted) = 1
               /\ acts[i].type = "AgentResultCallback" => acts[i].ev # 0
    <3>1. acts # <<>>
      BY <2>2
    <3> QED
      BY <2>2, <3>1, RunFacts, WhatHandlersSend
  <2>3. out'["consumer"] = acts /\ \A p \in {"reader", "stream"} : out'[p] = out[p]
    BY RunFacts
  <2> QED
    BY <1>1, <2>1, <2>2, <2>3 DEF Origins, ToSend
<1>4. Streaming'
  <2>1. /\ spawned' => spawned \/ D!Current = EventStreamCall
        /\ spawned => spawned'
    BY DEF Runs
  <2>2. D!Current = EventStreamCall => Called /\ Len(received) >= 2
    <3> SUFFICES ASSUME D!Current = EventStreamCall PROVE Called /\ Len(received) >= 2
      OBVIOUS
    <3>1. Len(received) = 2 /\ accepted[Len(received)] = EventStreamCall
      BY RunFacts
    <3>2. PICK n \in Nat : n = Len(accepted)
      BY ReceivedIsPrefix
    <3>3. Len(received) \in 1 .. n
      BY <3>2, RunFacts
    <3>4. n >= 2 /\ accepted[2] = EventStreamCall
      BY <3>1, <3>3
    <3> QED
      BY <3>1, <3>2, <3>4 DEF Called
  <2>3. spawned' => Called /\ Len(received) >= 2
    BY <2>1, <2>2 DEF Origins, Streaming
  <2> QED
    BY <1>1, <2>1, <2>3 DEF Origins, Streaming, Called
<1>5. Undisturbed'
  <2>1. received # <<>>
    BY RunFacts DEF Bus, D!Control
  <2>2. ASSUME Len(received) = 1, ~Passed(5)' PROVE Len(accepted) = 1 /\ acts = <<>>
    <3>1. cpc = "dispatch" /\ cpc' = "handling" /\ todo' = todo /\ todo # <<>>
      BY RunFacts
    <3>2. ~Passed(5)
      BY <1>0, <2>2, <3>1, TurnIs DEF Passed
    <3>3. Len(accepted) = 1
      BY <2>2, <3>2 DEF Origins, Undisturbed
    <3>4. D!Current = UserRequest /\ D!Current \in Actions /\ D!Wants(h, D!Current)
      BY <2>2, RunFacts
    <3>5. h # "AgentOutputHandler"
      BY <3>4, WantedTypes, ActionsDiffer
    <3>6. h # "ServerSession" \/ acts = <<>>
      BY <2>2, RunFacts
    <3> QED
      BY <3>3, <3>4, <3>5, <3>6, WhatHandlersSend
  <2>3. out'["consumer"] = acts
    BY RunFacts
  <2> QED
    BY <1>1, <2>1, <2>2, <2>3 DEF Undisturbed
<1> QED
  BY <1>2, <1>3, <1>4, <1>5 DEF Origins

(* Every step of the consumer keeps where the actions come from.           *)
LEMMA ConsumerKeepsOrigins ==
  ASSUME Bus, Turns, Origins, ConsumerStep
  PROVE  Origins'
<1> USE DEF connVars, closerVars, historyVars, sessionVars, busVars
<1>0. todo \in Seq(Handlers)
  BY DEF Bus, D!TypeOK
<1>1. ASSUME UNCHANGED <<accepted, out, begun, spawned, received>>,
             ~Passed(5)' => ~Passed(5)
      PROVE  Origins'
  BY <1>1 DEF Origins, InQueue, ToSend, Streaming, Called, Undisturbed
<1>2. CASE Between /\ UNCHANGED <<accepted, out, begun, sessionVars>>
  BY <1>1, <1>2 DEF Between, Passed
<1>3. CASE D!Receive /\ UNCHANGED sessionVars
  <2>1. /\ UNCHANGED <<accepted, out, begun, spawned>>
        /\ cpc = "select" /\ buf # <<>> /\ received' = Append(received, Head(buf))
    BY <1>3 DEF D!Receive, D!ConsumerKeeps, D!sendVars
  <2>2. PICK r \in Nat : r = Len(received)
    BY ReceivedIsPrefix
  <2>3. Len(received') = r + 1 /\ received' # <<>>
    BY <2>1, <2>2, ReceivedIsPrefix, EmptySeq
  <2>4. r = 0 => Len(accepted) = 1 /\ out["consumer"] = <<>>
    <3> SUFFICES ASSUME r = 0 PROVE Len(accepted) = 1 /\ out["consumer"] = <<>>
      OBVIOUS
    <3>1. PICK b \in Nat : b = Len(buf)
      BY ReceivedIsPrefix
    <3>2. b # 0 /\ Len(accepted) = b /\ received = <<>>
      BY <2>1, <2>2, <3>1, ReceivedIsPrefix, EmptySeq
    <3>3. Len(accepted) <= 1
      BY <3>2 DEF Origins, Undisturbed
    <3>4. out["consumer"] = <<>>
      BY <2>1 DEF Bus, D!Control
    <3> QED
      BY <3>1, <3>2, <3>3, <3>4
  <2>5. Len(received) >= 2 => Len(received') >= 2
    BY <2>2, <2>3
  <2>6. Undisturbed'
    BY <2>1, <2>2, <2>3, <2>4 DEF Undisturbed
  <2> QED
    BY <2>1, <2>5, <2>6 DEF Origins, InQueue, ToSend, Streaming, Called
<1>4. CASE D!Snapshot /\ UNCHANGED sessionVars
  BY <1>1, <1>4 DEF D!Snapshot, D!ConsumerKeeps, D!sendVars, Passed
<1>5. ASSUME D!PassOver \/ D!HandlerReturns, spawned' = spawned PROVE Origins'
  <2>1. /\ UNCHANGED <<accepted, out, begun, spawned, received>>
        /\ todo # <<>> /\ todo' = Tail(todo)
        /\ cpc \in {"dispatch", "handling"} /\ cpc' = "dispatch"
    BY <1>5 DEF D!PassOver, D!HandlerReturns, D!ConsumerKeeps, D!sendVars, Bus, D!Control
  <2>2. PICK n \in 1 .. 6 : n = Len(todo)
    BY <1>0, <2>1, TurnIs
  <2>3. Len(todo') = n - 1
    BY <1>0, <2>1, <2>2
  <2>4. ~Passed(5)' => ~Passed(5)
    BY <2>1, <2>2, <2>3 DEF Passed
  <2> QED
    BY <1>1, <2>1, <2>4
<1>6. ASSUME NEW h \in Handlers, NEW acts \in Emits[h][D!Current], Runs(h, acts)
      PROVE  Origins'
  BY <1>6, RunKeepsOrigins
<1>7. CASE WriteAnswer
  BY <1>1, <1>7 DEF WriteAnswer, Passed
<1>8. CASE D!HandlerReturns /\ (UNCHANGED sessionVars \/ CloseActionCloses)
  BY <1>5, <1>8 DEF CloseActionCloses
<1> QED
  BY <1>2, <1>3, <1>4, <1>5, <1>6, <1>7, <1>8, ConsumerKinds

(* So does every step of the session.                                      *)
LEMMA NextOrigins ==
  ASSUME Bus, Turns, Origins, [Next]_vars
  PROVE  Origins'
<1>1. ASSUME UNCHANGED <<accepted, received, out, begun, cpc, todo, spawned>>
      PROVE  Origins'
  BY <1>1 DEF Origins, InQueue, ToSend, Streaming, Called, Undisturbed, Passed
<1>2. CASE UNCHANGED vars
  BY <1>1, <1>2 DEF vars, busVars, sessionVars
<1>3. ASSUME NEW p \in D!Procs, D!SendStep(p), Around PROVE Origins'
  <2>1. p \in {"reader", "stream", "consumer"} /\ (spc[p] # "idle" => out[p] # <<>>)
    BY DEF D!Procs, Bus, D!Control
  <2>2. CASE D!SendFails(p)
    <3>1. out[p] # <<>>
      BY <1>3, <2>1 DEF D!SendStep, D!SendCheckDispatcher, D!SendCheckChannel,
           D!SendAccepted, D!SendCancelled, D!SendPanics
    <3> QED
      BY <1>3, <2>2, <3>1, FailureKeepsOrigins
  <2>3. CASE D!SendAccepted(p)
    BY <1>3, <2>3, AcceptKeepsOrigins
  <2>4. CASE UNCHANGED <<accepted, out, begun>>
    BY <1>1, <1>3, <2>4 DEF Around
  <2> QED
    BY <1>3, <2>2, <2>3, <2>4 DEF D!SendStep, D!SendCheckDispatcher,
       D!SendCheckChannel, D!SendCancelled, D!SendPanics, D!sendVars
<1>4. CASE Next
  BY <1>1, <1>3, <1>4, StepKinds, BeginKeepsOrigins, ConsumerKeepsOrigins DEF Aside
<1> QED
  BY <1>2, <1>4
-----------------------------------------------------------------------------
(* The tasks.  A close is in the queue only after a Done was received, or  *)
(* when there was no call; once SessionCloser has had a Done nothing is    *)
(* counted any more.                                                       *)
Received(a) == \E i \in 1 .. Len(received) : received[i] = a
(* A close is in the queue, received or not, or about to be sent.          *)
CloseSent ==
  \/ \E i \in 1 .. Len(accepted) : accepted[i] = SessionClose
  \/ \E i \in 1 .. Len(out["consumer"]) : out["consumer"][i] = SessionClose

(* A session that was called is closed only after its Done was received.   *)
ClosedAfterDone == Called /\ CloseSent => Received(AgentResultDone)

(* SessionCloser forgets a session only for a close it received.           *)
KnownUntilClose == hpc \notin {"create", "insert", "connect"} /\ ~known => Received(SessionClose)

(* A task is counted after the call was handled and until the first Done   *)
(* was: the strengthening that makes the count inductive.                  *)
Counted ==
  /\ pending \in 0 .. 1
  /\ pending = 1 => known /\ Called /\ Len(received) >= 2
                    /\ (Len(received) = 2 => Passed(3))
  /\ \A i \in 1 .. Len(received) :
       received[i] = AgentResultDone /\ (i = Len(received) => Passed(3)) => pending = 0

(* What is received stays received.                                        *)
LEMMA ReceiveGrows ==
  ASSUME Bus, D!Receive
  PROVE  /\ Len(received') = Len(received) + 1
         /\ \A i \in 1 .. Len(received) : received'[i] = received[i]
         /\ \A a : Received(a) => Received(a)'
         /\ UNCHANGED <<accepted, out, begun, todo>> /\ cpc = "select" /\ cpc' = "snapshot"
<1>1. /\ received' = Append(received, Head(buf)) /\ received \in Seq(Actions)
      /\ Head(buf) \in Actions
  BY ReceivedIsPrefix, EmptySeq DEF D!Receive
<1>2. PICK r \in Nat : r = Len(received)
  BY <1>1
<1>3. Len(received') = r + 1 /\ \A i \in 1 .. r : received'[i] = received[i]
  BY <1>1, <1>2
<1>4. ASSUME NEW a, Received(a) PROVE Received(a)'
  <2>1. PICK i \in 1 .. r : received[i] = a
    BY <1>2, <1>4 DEF Received
  <2>2. i \in 1 .. Len(received') /\ received'[i] = a
    BY <1>3, <2>1
  <2> QED
    BY <2>2 DEF Received
<1>5. UNCHANGED <<accepted, out, begun, todo>> /\ cpc = "select" /\ cpc' = "snapshot"
  BY DEF D!Receive, D!ConsumerKeeps, D!sendVars
<1> QED
  BY <1>2, <1>3, <1>4, <1>5

(* Every step keeps a close behind the Done.                               *)
LEMMA AcceptKeepsClosed ==
  ASSUME Bus, Origins, ClosedAfterDone, Around, NEW p \in D!Procs, D!SendAccepted(p)
  PROVE  ClosedAfterDone'
<1> DEFINE a == Head(out[p])
<1> SUFFICES ASSUME Called', CloseSent' PROVE Received(AgentResultDone)'
  BY DEF ClosedAfterDone
<1>0. /\ out \in [D!Procs -> Seq(Actions)] /\ out[p] \in Seq(Actions)
      /\ {"reader", "stream", "consumer"} = D!Procs
      /\ out[p] # <<>>
  BY DEF Bus, D!TypeOK, D!Procs, D!Control, D!SendAccepted
<1>1. UNCHANGED received
  BY DEF Around
<1>2. PICK n \in Nat : n = Len(accepted)
  BY ReceivedIsPrefix
<1>3. /\ Len(accepted') = n + 1 /\ accepted'[n + 1] = a
      /\ \A i \in 1 .. n : accepted'[i] = accepted[i]
  <2>1. accepted \in Seq(Actions) /\ a \in Actions /\ accepted' = Append(accepted, a)
    BY <1>0, ReceivedIsPrefix DEF D!SendAccepted
  <2> HIDE DEF a
  <2> QED
    BY <1>2, <2>1
<1>4. out'[p] = Tail(out[p]) /\ \A q \in D!Procs \ {p} : out'[q] = out[q]
  BY <1>0 DEF D!SendAccepted
<1>5. a = out[p][1] /\ 1 \in 1 .. Len(out[p])
  <2>1. PICK m \in Nat : m = Len(out[p])
    BY <1>0
  <2>2. m # 0
    BY <1>0, <2>1, EmptySeq
  <2> QED
    BY <1>0, <2>1, <2>2
<1>6. p # "consumer" => a # EventStreamCall /\ a # SessionClose
  <2>1. p = "reader" => a = UserRequest
    BY <1>0, <1>5 DEF Origins, ToSend
  <2>2. p = "stream" => a.type = "AgentResult"
    BY <1>5 DEF Origins, ToSend
  <2> QED
    BY <1>0, <2>1, <2>2, ActionsDiffer
<1>7. \A i \in 1 .. Len(out'["consumer"]) :
         \E k \in 1 .. Len(out["consumer"]) : out'["consumer"][i] = out["consumer"][k]
  <2>1. CASE p # "consumer"
    BY <1>0, <1>4, <2>1
  <2>2. CASE p = "consumer"
    <3> DEFINE s == out["consumer"]
    <3>1. s \in Seq(Actions) /\ s # <<>> /\ out'["consumer"] = Tail(s)
      BY <1>0, <1>4, <2>2
    <3> HIDE DEF s
    <3>2. PICK m \in Nat : m = Len(s)
      BY <3>1
    <3>3. Len(Tail(s)) = m - 1 /\ \A i \in 1 .. m - 1 : Tail(s)[i] = s[i + 1]
      BY <3>1, <3>2
    <3>4. \A i \in 1 .. m - 1 : i + 1 \in 1 .. m
      BY <3>2
    <3>5. \A i \in 1 .. m - 1 : \E k \in 1 .. m : Tail(s)[i] = s[k]
      BY <3>3, <3>4
    <3> QED
      BY <3>1, <3>2, <3>3, <3>5 DEF s
  <2> QED
    BY <2>1, <2>2
<1>8. CASE Called
  <2>1. CloseSent
    <3>1. CASE \E i \in 1 .. Len(out'["consumer"]) : out'["consumer"][i] = SessionClose
      BY <1>7, <3>1 DEF CloseSent
    <3>2. ASSUME NEW i \in 1 .. n + 1, accepted'[i] = SessionClose PROVE CloseSent
      <4>1. CASE i \in 1 .. n
        BY <1>2, <1>3, <3>2, <4>1 DEF CloseSent
      <4>2. CASE i = n + 1
        <5>1. a = SessionClose
          BY <1>3, <3>2, <4>2
        <5>2. p = "consumer" /\ out["consumer"][1] = SessionClose
              /\ 1 \in 1 .. Len(out["consumer"])
          BY <1>5, <1>6, <5>1
        <5> QED
          BY <5>2 DEF CloseSent
      <4> QED
        BY <4>1, <4>2
    <3> QED
      BY <1>3, <3>1, <3>2 DEF CloseSent
  <2>2. Received(AgentResultDone)
    BY <1>8, <2>1 DEF ClosedAfterDone
  <2> QED
    BY <1>1, <2>2 DEF Received
<1>9. CASE ~Called
  <2>1. accepted'[2] = EventStreamCall /\ n + 1 >= 2
    BY <1>3 DEF Called
  <2>2. n = 1
    <3>1. n >= 2 => accepted[2] = EventStreamCall
      BY <1>3, <2>1
    <3> QED
      BY <1>2, <1>9, <2>1, <3>1 DEF Called
  <2>3. a = EventStreamCall /\ p = "consumer"
    BY <1>3, <1>6, <2>1, <2>2
  <2>4. out["consumer"] = <<EventStreamCall>>
    BY <1>5, <2>3 DEF Origins, ToSend
  <2>5. out'["consumer"] = <<>>
    BY <1>4, <2>3, <2>4
  <2>6. accepted'[1] # SessionClose
    <3>1. accepted[1] = UserRequest
      BY <1>2, <2>2 DEF Origins, InQueue
    <3> QED
      BY <1>3, <2>2, <3>1, ActionsDiffer
  <2>7. \A i \in 1 .. 2 : accepted'[i] # SessionClose
    <3>1. \A i \in 1 .. 2 : i = 1 \/ i = 2
      OBVIOUS
    <3> QED
      BY <2>1, <2>6, <3>1, ActionsDiffer
  <2> QED
    BY <1>3, <2>2, <2>5, <2>7 DEF CloseSent
<1> QED
  BY <1>8, <1>9

(* Every step of the session keeps a close behind the Done.                *)
LEMMA NextClosed ==
  ASSUME Bus, Turns, Origins, ClosedAfterDone, [Next]_vars
  PROVE  ClosedAfterDone'
<1> USE DEF sessionVars, busVars
<1>0. out \in [D!Procs -> Seq(Actions)] /\ {"reader", "stream", "consumer"} = D!Procs
  BY DEF Bus, D!TypeOK, D!Procs
<1>1. ASSUME UNCHANGED <<accepted, received>>, out'["consumer"] \in {out["consumer"], <<>>}
      PROVE  ClosedAfterDone'
  BY <1>1 DEF ClosedAfterDone, CloseSent, Called, Received
<1>2. CASE UNCHANGED vars
  BY <1>1, <1>2 DEF vars
<1>3. CASE Aside
  BY <1>1, <1>3 DEF Aside
<1>4. ASSUME NEW s \in {"reader", "stream"}, D!Begin(s), Around PROVE ClosedAfterDone'
  BY <1>0, <1>1, <1>4 DEF D!Begin, Around
<1>5. ASSUME NEW p \in D!Procs, D!SendStep(p), Around PROVE ClosedAfterDone'
  <2>1. CASE D!SendAccepted(p)
    BY <1>5, <2>1, AcceptKeepsClosed
  <2>2. CASE D!SendFails(p)
    BY <1>0, <1>1, <1>5, <2>2 DEF D!SendFails, Around
  <2>3. CASE UNCHANGED <<accepted, out>>
    BY <1>1, <1>5, <2>3 DEF Around
  <2> QED
    BY <1>5, <2>1, <2>2, <2>3 DEF D!SendStep, D!SendCheckDispatcher,
       D!SendCheckChannel, D!SendCancelled, D!SendPanics, D!sendVars
<1>6. CASE D!Receive
  BY <1>6, ReceiveGrows DEF ClosedAfterDone, CloseSent, Called
<1>7. ASSUME NEW h \in Handlers, NEW acts \in Emits[h][D!Current], Runs(h, acts)
      PROVE  ClosedAfterDone'
  <2>1. SUFFICES ASSUME Called, CloseSent' PROVE Received(AgentResultDone)
    BY <1>7, RunFacts DEF ClosedAfterDone, Called, Received
  <2>2. UNCHANGED accepted /\ out'["consumer"] = acts
    BY <1>7, RunFacts
  <2>3. CASE \E i \in 1 .. Len(accepted) : accepted[i] = SessionClose
    BY <2>1, <2>3 DEF ClosedAfterDone, CloseSent
  <2>4. ASSUME NEW i \in 1 .. Len(acts), acts[i] = SessionClose
        PROVE  Received(AgentResultDone)
    <3>1. acts # <<>> /\ D!Current \in Actions
      BY <1>7, <2>4, RunFacts
    <3>2. h = "ServerSession" \/ D!Current = AgentResultDone
      BY <2>4, <3>1, WhatHandlersSend
    <3>3. h # "ServerSession"
      BY <1>7, <2>1, <3>1, RunFacts DEF Called
    <3>4. D!Current = received[Len(received)] /\ Len(received) \in 1 .. Len(received)
      BY <1>7, RunFacts
    <3> QED
      BY <3>2, <3>3, <3>4 DEF Received
  <2> QED
    BY <2>1, <2>2, <2>3, <2>4 DEF CloseSent
<1>8. CASE Between /\ UNCHANGED <<accepted, out, begun, sessionVars>>
  BY <1>1, <1>8 DEF Between
<1>9. CASE D!Snapshot \/ D!PassOver \/ D!HandlerReturns \/ WriteAnswer
  BY <1>1, <1>9 DEF D!Snapshot, D!PassOver, D!HandlerReturns, D!ConsumerKeeps,
                    D!sendVars, WriteAnswer
<1> QED
  BY <1>2, <1>3, <1>4, <1>5, <1>6, <1>7, <1>8, <1>9, StepKinds, ConsumerKinds

(* A session that was bound is forgotten only in a close.                  *)
LEMMA NextKnown ==
  ASSUME Bus, KnownUntilClose, [Next]_vars
  PROVE  KnownUntilClose'
<1> USE DEF sessionVars, busVars, closerVars
<1>1. ASSUME UNCHANGED <<received, hpc, known>> PROVE KnownUntilClose'
  BY <1>1 DEF KnownUntilClose, Received
<1>2. CASE UNCHANGED vars
  BY <1>1, <1>2 DEF vars
<1>3. CASE Aside
  <2>1. CASE known' = known
    BY <1>3, <2>1 DEF Aside, KnownUntilClose, Received
  <2>2. CASE known' = TRUE
    BY <2>2 DEF KnownUntilClose
  <2> QED
    BY <1>3, <2>1, <2>2 DEF Aside
<1>4. CASE D!Receive /\ UNCHANGED sessionVars
  BY <1>4, ReceiveGrows DEF KnownUntilClose
<1>5. ASSUME NEW h, NEW acts, Runs(h, acts) PROVE KnownUntilClose'
  BY <1>1, <1>5 DEF Runs, Handles, D!Invoke
<1>6. CASE CloseActionCloses
  <2>1. D!Current = SessionClose /\ cpc = "handling" /\ received' = received
    BY <1>6 DEF CloseActionCloses, InCloseAction, D!HandlerReturns
  <2>2. Received(SessionClose)
    BY <2>1, CurrentIs DEF Received
  <2> QED
    BY <2>1, <2>2 DEF KnownUntilClose, Received
<1>7. CASE (Between \/ D!Snapshot \/ D!PassOver \/ D!HandlerReturns) /\ UNCHANGED sessionVars
  BY <1>1, <1>7 DEF Between, D!Snapshot, D!PassOver, D!HandlerReturns
<1>8. CASE WriteAnswer
  BY <1>1, <1>8 DEF WriteAnswer
<1>9. CASE Around
  BY <1>1, <1>9 DEF Around
<1> QED
  BY <1>2, <1>3, <1>4, <1>5, <1>6, <1>7, <1>8, <1>9, StepKinds, ConsumerKinds

(* When SessionCloser is called for the call, nothing is counted yet and   *)
(* the session is known; when it is called for the Done, the count ends.   *)
LEMMA RunKeepsCount ==
  ASSUME Bus, Registration, Turns, Origins, KnownUntilClose, Counted,
         NEW h \in Handlers, NEW acts \in Emits[h][D!Current], Runs(h, acts)
  PROVE  Counted'
<1>0. todo \in Seq(Handlers)
  BY DEF Bus, D!TypeOK
<1>1. /\ UNCHANGED <<accepted, received, todo, known>>
      /\ cpc = "dispatch" /\ cpc' = "handling" /\ todo # <<>> /\ h = Head(todo)
      /\ D!Current = received[Len(received)]
  BY RunFacts DEF Runs
<1>2. PICK n \in 1 .. 6 : n = Len(todo)
  BY <1>0, <1>1, TurnIs
<1>3. /\ Passed(3) <=> n < 4
      /\ Passed(3)' <=> n <= 4
      /\ n = 4 <=> h = "SessionCloser"
  <2>1. Passed(3) <=> n < 4
    BY <1>1, <1>2 DEF Passed
  <2>2. Passed(3)' <=> n <= 4
    <3>1. Passed(3)' <=> n < 4 \/ n = 4
      BY <1>1, <1>2 DEF Passed
    <3> QED
      BY <3>1
  <2>3. n = 4 <=> h = "SessionCloser"
    BY <1>0, <1>1, <1>2, TurnIs
  <2> QED
    BY <2>1, <2>2, <2>3
<1>4. CASE pending' = pending
           /\ (h = "SessionCloser" /\ D!Current = AgentResultDone => ~(known /\ pending > 0))
  <2>1. ASSUME NEW i \in 1 .. Len(received), received[i] = AgentResultDone,
               i = Len(received) => Passed(3)'
        PROVE  pending = 0
    <3>1. CASE i = Len(received) => Passed(3)
      BY <2>1, <3>1 DEF Counted
    <3>2. CASE i = Len(received) /\ ~Passed(3)
      <4>1. h = "SessionCloser" /\ D!Current = AgentResultDone
        BY <1>1, <1>3, <2>1, <3>2
      <4>2. ~(known /\ pending > 0)
        BY <1>4, <4>1
      <4> QED
        BY <4>2 DEF Counted
    <3> QED
      BY <3>1, <3>2
  <2>2. Passed(3) => Passed(3)'
    BY <1>2, <1>3
  <2> QED
    BY <1>1, <1>4, <2>1, <2>2 DEF Counted, Called
<1>5. CASE h = "SessionCloser" /\ D!Current = EventStreamCall /\ pending' = pending + 1
  <2>1. Len(received) = 2 /\ ~Passed(3) /\ Passed(3)'
    <3>1. Len(received) = 2
      BY <1>5, RunFacts
    <3>2. n = 4
      BY <1>3, <1>5
    <3> QED
      BY <1>3, <3>1, <3>2
  <2>2. pending = 0
    BY <2>1 DEF Counted
  <2>3. PICK n2 \in Nat : n2 = Len(accepted)
    BY ReceivedIsPrefix
  <2>4. n2 >= 2 /\ accepted[2] = EventStreamCall
    BY <1>5, <2>1, <2>3, RunFacts
  <2>5. received[1] = UserRequest /\ received[2] = EventStreamCall
    <3>1. \A i \in 1 .. 2 : received[i] = accepted[i]
      BY <2>1, ReceivedIsPrefix
    <3>2. accepted[1] = UserRequest
      BY <2>3, <2>4 DEF Origins, InQueue
    <3> QED
      BY <2>4, <3>1, <3>2
  <2>6. \A i \in 1 .. 2 : received[i] # AgentResultDone /\ received[i] # SessionClose
    <3>1. \A i \in 1 .. 2 : i = 1 \/ i = 2
      OBVIOUS
    <3> QED
      BY <2>5, <3>1, ActionsDiffer
  <2>7. known
    <3>1. ~Received(SessionClose)
      BY <2>1, <2>6 DEF Received
    <3>2. hpc \notin {"create", "insert", "connect"}
      BY RunFacts DEF Origins, InQueue, Registration, Early
    <3> QED
      BY <3>1, <3>2 DEF KnownUntilClose
  <2>8. pending' = 1
    BY <1>5, <2>2
  <2> QED
    BY <1>1, <2>1, <2>3, <2>4, <2>6, <2>7, <2>8 DEF Counted, Called
<1>6. CASE pending > 0 /\ pending' = pending - 1
  <2>1. pending' = 0
    BY <1>6 DEF Counted
  <2> QED
    BY <2>1 DEF Counted
<1> QED
  BY <1>4, <1>5, <1>6 DEF Runs

(* Every step of the session keeps the count.                              *)
LEMMA NextCounted ==
  ASSUME Bus, Registration, Turns, Origins, KnownUntilClose, Counted, [Next]_vars
  PROVE  Counted'
<1> USE DEF sessionVars, busVars, closerVars
<1>0. todo \in Seq(Handlers)
  BY DEF Bus, D!TypeOK
<1>1. ASSUME UNCHANGED <<received, known, pending>>, Called => Called',
             Passed(3) => Passed(3)',
             Passed(3)' /\ ~Passed(3) => D!Current # AgentResultDone
      PROVE  Counted'
  <2>1. ASSUME NEW i \in 1 .. Len(received), received[i] = AgentResultDone,
               i = Len(received) => Passed(3)'
        PROVE  pending = 0
    <3>1. i = Len(received) => Passed(3)
      BY <1>1, <2>1 DEF D!Current
    <3> QED
      BY <2>1, <3>1 DEF Counted
  <2> QED
    BY <1>1, <2>1 DEF Counted
<1>2. CASE UNCHANGED vars
  BY <1>1, <1>2 DEF vars, Called, Passed
<1>3. CASE Aside
  <2>1. CASE UNCHANGED <<known, pending>>
    BY <1>1, <1>3, <2>1 DEF Aside, Called, Passed
  <2>2. CASE pending' = 0
    BY <2>2 DEF Counted
  <2> QED
    BY <1>3, <2>1, <2>2 DEF Aside
<1>4. CASE Around /\ UNCHANGED accepted
  BY <1>1, <1>4 DEF Around, Called, Passed
<1>5. ASSUME NEW p \in D!Procs, D!SendAccepted(p), Around PROVE Counted'
  <2>1. Called => Called'
    <3> SUFFICES ASSUME Called PROVE Called'
      OBVIOUS
    <3>1. PICK n \in Nat : n = Len(accepted)
      BY ReceivedIsPrefix
    <3>2. accepted \in Seq(Actions) /\ \E a \in Actions : accepted' = Append(accepted, a)
      BY <1>5, ReceivedIsPrefix DEF D!SendAccepted, Bus, D!TypeOK, D!Control
    <3>3. Len(accepted') = n + 1 /\ \A i \in 1 .. n : accepted'[i] = accepted[i]
      BY <3>1, <3>2
    <3>4. n >= 2 /\ accepted[2] = EventStreamCall
      BY <3>1 DEF Called
    <3>5. accepted'[2] = EventStreamCall
      BY <3>3, <3>4
    <3> QED
      BY <3>3, <3>4, <3>5 DEF Called
  <2> QED
    BY <1>1, <1>5, <2>1 DEF Around, Passed
<1>6. ASSUME NEW p \in D!Procs, D!SendStep(p), Around PROVE Counted'
  BY <1>4, <1>5, <1>6 DEF D!SendStep, D!SendCheckDispatcher, D!SendCheckChannel,
     D!SendCancelled, D!SendPanics, D!SendFails, D!sendVars
<1>7. CASE (D!Begin("reader") \/ D!Begin("stream")) /\ Around
  BY <1>4, <1>7 DEF D!Begin
<1>8. CASE Between /\ UNCHANGED <<accepted, out, begun, sessionVars>>
  BY <1>1, <1>8 DEF Between, Called, Passed
<1>9. CASE D!Receive /\ UNCHANGED sessionVars
  <2>1. PICK r \in Nat : r = Len(received)
    BY ReceivedIsPrefix
  <2>2. /\ Len(received') = r + 1 /\ \A i \in 1 .. r : received'[i] = received[i]
        /\ UNCHANGED <<accepted, known, pending>>
    BY <1>9, <2>1, ReceiveGrows
  <2>3. Passed(3) /\ ~Passed(3)'
    <3>1. todo = <<>> /\ cpc = "select" /\ cpc' = "snapshot"
      BY <1>9, ReceiveGrows DEF Turns
    <3> QED
      BY <3>1 DEF Passed
  <2>4. ASSUME NEW i \in 1 .. r + 1, received'[i] = AgentResultDone,
               i = r + 1 => Passed(3)'
        PROVE  pending = 0
    <3>1. i \in 1 .. r
      BY <2>3, <2>4
    <3> QED
      BY <2>1, <2>2, <2>3, <2>4, <3>1 DEF Counted
  <2>5. pending = 1 => r >= 2
    BY <2>1 DEF Counted
  <2> QED
    BY <2>1, <2>2, <2>4, <2>5 DEF Counted, Called
<1>10. CASE D!Snapshot /\ UNCHANGED sessionVars
  <2>1. accepted # <<>> => "reader" \in begun
    BY DEF Origins, InQueue
  <2>2. ~Passed(3) /\ ~Passed(3)'
    BY <1>10, <2>1, SnapshotIsFull DEF Passed, D!Snapshot
  <2> QED
    BY <1>1, <1>10, <2>2 DEF D!Snapshot, D!ConsumerKeeps, D!sendVars, Called
<1>11. ASSUME D!PassOver \/ D!HandlerReturns, UNCHANGED sessionVars PROVE Counted'
  <2>1. /\ UNCHANGED <<accepted, received>>
        /\ todo # <<>> /\ todo' = Tail(todo) /\ received # <<>>
        /\ cpc \in {"dispatch", "handling"} /\ cpc' = "dispatch"
        /\ cpc = "dispatch" => ~D!Wants(Head(todo), D!Current)
    BY <1>11 DEF D!PassOver, D!HandlerReturns, D!ConsumerKeeps, D!sendVars, Bus, D!Control
  <2>2. PICK n \in 1 .. 6 : n = Len(todo)
    BY <1>0, <2>1, TurnIs
  <2>3. Len(todo') = n - 1
    BY <1>0, <2>1, <2>2
  <2>a. Passed(3) <=> n < 4 \/ (cpc = "handling" /\ n = 4)
    BY <2>1, <2>2 DEF Passed
  <2>b. Passed(3)' <=> n - 1 < 4
    BY <2>1, <2>3 DEF Passed
  <2>4. Passed(3) => Passed(3)'
    BY <2>a, <2>b
  <2>5. Passed(3)' /\ ~Passed(3) => n = 4 /\ cpc = "dispatch"
    BY <2>1, <2>a, <2>b
  <2>6. n = 4 /\ cpc = "dispatch" => D!Current # AgentResultDone
    <3>1. n = 4 => Head(todo) = "SessionCloser"
      BY <1>0, <2>1, <2>2, TurnIs
    <3>2. AgentResultDone \in Actions
      BY SessionActions
    <3> QED
      BY <2>1, <3>1, <3>2, WantedTypes, ActionsDiffer
  <2> QED
    BY <1>1, <1>11, <2>1, <2>4, <2>5, <2>6 DEF Called
<1>12. CASE CloseActionCloses
  <2>1. pending' = 0
    BY <1>12 DEF CloseActionCloses
  <2> QED
    BY <2>1 DEF Counted
<1>13. CASE WriteAnswer
  BY <1>1, <1>13 DEF WriteAnswer, Called, Passed
<1>14. ASSUME NEW h \in Handlers, NEW acts \in Emits[h][D!Current], Runs(h, acts)
       PROVE  Counted'
  BY <1>14, RunKeepsCount
<1> QED
  BY <1>2, <1>3, <1>6, <1>7, <1>8, <1>9, <1>10, <1>11, <1>12, <1>13, <1>14,
     StepKinds, ConsumerKinds
-----------------------------------------------------------------------------
(* The callback writes for the callback of an event.                       *)
WritesCallback == writing => D!Current.type = "AgentResultCallback"

(* Every step of the session keeps it.                                     *)
LEMMA NextWrites ==
  ASSUME Bus, Turns, Origins, ServeInv, WritesCallback, [Next]_vars
  PROVE  WritesCallback'
<1> USE DEF sessionVars, busVars
<1>1. ASSUME UNCHANGED received, writing' => writing PROVE WritesCallback'
  BY <1>1 DEF WritesCallback, D!Current
<1>2. CASE UNCHANGED vars
  BY <1>1, <1>2 DEF vars
<1>3. CASE Aside \/ Around \/ WriteAnswer
  BY <1>1, <1>3 DEF Aside, Around, WriteAnswer
<1>4. CASE D!Receive /\ UNCHANGED sessionVars
  BY <1>4 DEF D!Receive, ServeInv, WritesCallback
<1>5. CASE (Between \/ D!Snapshot \/ D!PassOver \/ D!HandlerReturns) /\ UNCHANGED sessionVars
  BY <1>1, <1>5 DEF Between, D!Snapshot, D!PassOver, D!HandlerReturns
<1>6. CASE CloseActionCloses
  BY <1>1, <1>6 DEF CloseActionCloses, D!HandlerReturns
<1>7. ASSUME NEW h \in Handlers, NEW acts \in Emits[h][D!Current], Runs(h, acts)
      PROVE  WritesCallback'
  <2>1. /\ cpc = "dispatch" /\ D!Wants(h, D!Current) /\ D!Current \in Actions
        /\ received' = received
    BY <1>7, RunFacts
  <2>2. writing' => h = "AgentResultCallback"
    BY <1>7, <2>1 DEF Runs, ServeInv
  <2>3. writing' => D!Current.type = "AgentResultCallback"
    BY <2>1, <2>2, WantedTypes
  <2> QED
    BY <2>1, <2>3 DEF WritesCallback, D!Current
<1> QED
  BY <1>2, <1>3, <1>4, <1>5, <1>6, <1>7, StepKinds, ConsumerKinds

(* The inductive invariant, given what is proved of the bus.               *)
Story ==
  /\ Registration /\ Turns /\ Origins
  /\ ClosedAfterDone /\ KnownUntilClose /\ Counted
  /\ ServeInv /\ WritesCallback

(* The invariant holds at the start,                                       *)
LEMMA InitStory == Init => Story
<1> SUFFICES ASSUME Init PROVE Story
  OBVIOUS
<1> USE DEF Init, D!Init
<1>1. Registration /\ Turns
  BY DEF Registration, Turns
<1>2. \A p \in {"reader", "stream", "consumer"} : out[p] = <<>>
  BY DEF D!Procs
<1>3. Origins
  BY <1>2 DEF Origins, InQueue, ToSend, Streaming, Undisturbed
<1>4. ClosedAfterDone /\ KnownUntilClose /\ Counted
  BY DEF ClosedAfterDone, Called, KnownUntilClose, Counted
<1> QED
  BY <1>1, <1>3, <1>4 DEF Story, ServeInv, WritesCallback

(* and every step keeps it.                                                *)
LEMMA StoryInvariant == Spec => [](Bus /\ Story)
<1>1. Bus /\ Story /\ [Next]_vars => Story'
  <2> SUFFICES ASSUME Bus, Story, [Next]_vars PROVE Story'
    OBVIOUS
  <2>1. accepted # <<>> => "reader" \in begun
    BY DEF Story, Origins, InQueue
  <2>2. "stream" \in begun => accepted # <<>>
    BY DEF Story, Origins, Streaming, Called
  <2>3. kpc \in [{"http"} \cup Guests -> D!CloserAt]
    BY DEF Bus, D!TypeOK
  <2> QED
    BY <2>1, <2>2, <2>3, NextRegisters, NextTurns, NextOrigins, NextClosed, NextKnown, NextCounted,
       NextServes, NextWrites DEF Story
<1> QED
  BY <1>1, InitStory, BusInvariant, PTL DEF Spec

(* However many events, and whatever the room in the queue: when the       *)
(* consumer handles a close no task is counted, so that it never waits,    *)
(* and no task is counted for a session SessionCloser does not know        *)
(* (server.go, handleCloseAction, IncrementTask).                          *)
THEOREM TasksSettled == Spec => []TaskCountSettled
<1>1. Bus /\ Story => TaskCountSettled
  <2> SUFFICES ASSUME Bus, Story PROVE TaskCountSettled
    OBVIOUS
  <2> USE DEF Story
  <2>1. ASSUME InCloseAction, pending = 1 PROVE FALSE
    <3>1. /\ D!Current = SessionClose /\ cpc = "handling"
      BY <2>1 DEF InCloseAction
    <3>2. /\ received[Len(received)] = SessionClose
          /\ \E i \in 1 .. Len(accepted) : accepted[i] = SessionClose
      BY <3>1, CurrentIs
    <3>3. Called /\ CloseSent
      BY <2>1, <3>2 DEF Counted, CloseSent
    <3>4. PICK i \in 1 .. Len(received) : received[i] = AgentResultDone
      BY <3>3 DEF ClosedAfterDone, Received
    <3>5. i # Len(received)
      BY <3>2, <3>4, ActionsDiffer
    <3> QED
      BY <2>1, <3>4, <3>5 DEF Counted
  <2> QED
    BY <2>1 DEF Counted, TaskCountSettled
<1> QED
  BY <1>1, StoryInvariant, PTL

(* The types of all the session keeps.                                     *)
LEMMA NextSessionTyped ==
  ASSUME Bus, Story, Story', TypeOK, [Next]_vars
  PROVE  TypeOK'
<1>0. pending' \in 0 .. 1
  BY DEF Story, Counted
<1> USE DEF TypeOK, connVars, closerVars, historyVars, sessionVars, busVars
<1>1. CASE HttpStep
  <2>1. CASE CreateSession \/ BindHandlers
    BY <2>1 DEF CreateSession, BindHandlers
  <2>2. CASE Insert \/ Connect \/ BindRefused
    BY <1>0, <2>2 DEF Insert, Connect, BindRefused
  <2>3. CASE ServePost \/ ServeOther \/ WriteAccepted
    BY <2>3 DEF ServePost, ServeOther, WriteAccepted
  <2>4. CASE AwaitDisconnect \/ CloseStep
    BY <2>4 DEF AwaitDisconnect, CloseStep
  <2>5. CASE Return
    BY <2>5 DEF Return
  <2> QED
    BY <1>1, <2>1, <2>2, <2>3, <2>4, <2>5 DEF HttpStep
<1>2. CASE ReaderReads \/ ReaderGivesUp \/ StreamStarts
  BY <1>2 DEF ReaderReads, ReaderGivesUp, StreamStarts
<1>5. CASE ClientLeaves \/ Watch \/ EntryLost
  BY <1>5 DEF ClientLeaves, Watch, EntryLost
<1>6. ASSUME NEW g \in Guests, GuestCloses(g) \/ GuestStep(g) PROVE TypeOK'
  BY <1>6 DEF GuestCloses, GuestStep
<1>3. ASSUME NEW p, Sends(p) PROVE TypeOK'
  BY <1>3 DEF Sends
<1>4. CASE ConsumerStep
  <2>1. CASE Consumes \/ CloseActionWaits \/ ServerSessionHandle \/ CloseActionGivesUp
             \/ HandlerReturns
    BY <2>1 DEF Consumes, CloseActionWaits, ServerSessionHandle, CloseActionGivesUp,
                HandlerReturns
  <2>2. CASE ActionStorageHandle
    <3>1. D!Current \in Actions
      BY <2>2, CurrentIs DEF ActionStorageHandle, Handles, Turn
    <3> QED
      BY <2>2, <3>1 DEF ActionStorageHandle
  <2>3. CASE AgentOutputHandle
    <3>1. PICK acts \in OutputHandlerSends(D!Current) :
            /\ Handles("AgentOutputHandler", acts)
            /\ failed' = IF acts = <<ProcessingError(D!Current.ev)>>
                            THEN failed \cup {D!Current.ev} ELSE failed
      BY <2>3 DEF AgentOutputHandle
    <3>2. D!Current \in Actions /\ D!Wants("AgentOutputHandler", D!Current)
      BY <3>1, CurrentIs DEF Handles, Turn, D!Invoke
    <3>3. D!Current.type = "AgentResult" /\ D!Current.ev \in 0 .. MaxEvents
      BY <3>2, WantedTypes DEF Actions
    <3>4. acts = <<ProcessingError(D!Current.ev)>> => D!Current.ev # 0
      <4> SUFFICES ASSUME acts = <<ProcessingError(D!Current.ev)>>, D!Current.ev = 0
                   PROVE  FALSE
        OBVIOUS
      <4>1. D!Current = AgentResultDone
        BY <3>2, <3>3 DEF Actions, AgentResultDone, Action
      <4>2. acts = <<SessionClose>>
        BY <3>1, <4>1 DEF OutputHandlerSends
      <4>3. acts[1] = SessionClose /\ acts[1] = ProcessingError(0)
        BY <4>2
      <4> QED
        BY <4>3, LiveSessionAssumption, ActionsDiffer
    <3>5. failed' \subseteq 1 .. MaxEvents
      <4>1. failed \subseteq 1 .. MaxEvents
        OBVIOUS
      <4>2. CASE acts = <<ProcessingError(D!Current.ev)>>
        <5>1. D!Current.ev # 0
          BY <3>4, <4>2
        <5>2. PICK e \in 0 .. MaxEvents : e = D!Current.ev
          BY <3>3
        <5>3. e \in 1 .. MaxEvents
          BY <5>1, <5>2, LiveSessionAssumption
        <5>4. failed' = failed \cup {e}
          BY <3>1, <4>2, <5>2
        <5> QED
          BY <4>1, <5>3, <5>4
      <4>3. CASE acts # <<ProcessingError(D!Current.ev)>>
        BY <3>1, <4>1, <4>3
      <4> QED
        BY <4>2, <4>3
    <3> QED
      BY <2>3, <3>5 DEF AgentOutputHandle
  <2>4. CASE IncrementTask \/ DecrementTask
    BY <1>0, <2>4 DEF IncrementTask, DecrementTask
  <2>7. CASE CloseActionCloses
    BY <1>0, <2>7 DEF CloseActionCloses
  <2>5. CASE AgentRegistryHandle \/ ResultCallbackHandle
    BY <2>5 DEF AgentRegistryHandle, ResultCallbackHandle
  <2>6. CASE WriteAnswer
    <3>1. cpc = "handling" /\ D!Current.type = "AgentResultCallback"
      BY <2>6 DEF WriteAnswer, Story, ServeInv, WritesCallback
    <3>2. D!Current \in Actions /\ D!Current.ev # 0
      BY <3>1, CurrentIs DEF Story, Origins, InQueue
    <3>3. D!Current.ev \in 1 .. MaxEvents
      BY <3>2, LiveSessionAssumption DEF Actions
    <3>4. PICK e \in 1 .. MaxEvents : e = D!Current.ev
      BY <3>3
    <3>5. replies' = replies \/ replies' = Append(replies, e)
      BY <2>6, <3>4 DEF WriteAnswer
    <3>6. replies' \in Seq(1 .. MaxEvents)
      <4> DEFINE S == 1 .. MaxEvents
      <4>1. replies \in Seq(S) /\ e \in S
        BY <3>4
      <4> HIDE DEF S, TypeOK
      <4>2. Append(replies, e) \in Seq(S)
        BY <4>1, AppendProperties
      <4>3. replies' \in Seq(S)
        BY <3>5, <4>1, <4>2
      <4> QED
        BY <4>3 DEF S
    <3> QED
      BY <2>6, <3>6 DEF WriteAnswer
  <2> QED
    BY <1>4, <2>1, <2>2, <2>3, <2>4, <2>5, <2>6, <2>7 DEF ConsumerStep
<1>7. CASE UNCHANGED vars
  BY <1>7 DEF vars
<1> QED
  BY <1>1, <1>2, <1>3, <1>4, <1>5, <1>6, <1>7 DEF Next

(* For any number of events and any buffer every variable keeps its type:  *)
(* at most one task is counted, only actions are logged, and only events   *)
(* are answered (server.go, storage.go).                                   *)
THEOREM TypeCorrect == Spec => []TypeOK
<1>1. Init => TypeOK
  <2>1. <<>> \in Seq(Actions) /\ <<>> \in Seq(1 .. MaxEvents)
    BY EmptySeq
  <2>2. Init => failed \subseteq 1 .. MaxEvents
    BY DEF Init
  <2>3. Init => log \in Seq(Actions) /\ replies \in Seq(1 .. MaxEvents)
    BY <2>1 DEF Init
  <2>4. Init => pending \in 0 .. 1
    BY DEF Init
  <2>5. Init => /\ hpc = "create" /\ held = FALSE
                /\ inbox \in BOOLEAN /\ tClosed \in BOOLEAN /\ ssClosed \in BOOLEAN
                /\ known \in BOOLEAN /\ writing \in BOOLEAN /\ spawned \in BOOLEAN
    BY DEF Init
  <2> QED
    BY <2>2, <2>3, <2>4, <2>5 DEF TypeOK
<1>2. (Bus /\ Story) /\ (Bus /\ Story)' /\ TypeOK /\ [Next]_vars => TypeOK'
  BY NextSessionTyped
<1> QED
  BY <1>1, <1>2, StoryInvariant, PTL DEF Spec
=============================================================================
