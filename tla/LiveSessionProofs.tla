-------------------------- MODULE LiveSessionProofs --------------------------
(***************************************************************************)
(* Theorems about LiveSession, for every number of events and every buffer *)
(* size.  Its bus takes only steps of Dispatcher, so what DispatcherProofs *)
(* proves of every bus holds of it.                                        *)
(***************************************************************************)
EXTENDS LiveSession, TLAPS

DP == INSTANCE DispatcherProofs WITH
        Senders <- {"reader", "stream"}, Tied <- {"stream"},
        Closers <- {"http"} \cup Guests, Consumer <- "consumer"

(* The actions a session sends are actions of its bus.                     *)
LEMMA SessionActions ==
  /\ UserRequest \in Actions /\ EventStreamCall \in Actions
  /\ AgentResultDone \in Actions /\ SessionClose \in Actions
  /\ \A e \in 0 .. MaxEvents :
       /\ AgentResult(e) \in Actions
       /\ ResultCallback(e) \in Actions
       /\ ProcessingError(e) \in Actions
<1>1. 0 \in 0 .. MaxEvents
  BY LiveSessionAssumption
<1> QED
  BY <1>1 DEF Actions, Types, Action, UserRequest, EventStreamCall, AgentResult,
              AgentResultDone, ResultCallback, ProcessingError, SessionClose

(* Every handler registers for actions of the bus.                         *)
LEMMA SupportsActions == \A h \in Handlers : Supports[h] \subseteq Actions
BY DEF Supports, OfTypes

(* What the handlers send.                                                 *)
LEMMA EmitsActions ==
  \A h \in Handlers : \A a \in Actions : Emits[h][a] \subseteq Seq(Actions)
<1> SUFFICES ASSUME NEW h \in Handlers, NEW a \in Actions
             PROVE  Emits[h][a] \subseteq Seq(Actions)
  OBVIOUS
<1>1. a.ev \in 0 .. MaxEvents
  BY DEF Actions
<1>2. OutputHandlerSends(a) \subseteq Seq(Actions)
  <2>1. <<SessionClose>> \in Seq(Actions)
    BY SessionActions
  <2>2. <<ResultCallback(a.ev)>> \in Seq(Actions)
    BY <1>1, SessionActions
  <2>3. <<ProcessingError(a.ev)>> \in Seq(Actions)
    BY <1>1, SessionActions
  <2> QED
    BY <2>1, <2>2, <2>3, Zenon DEF OutputHandlerSends
<1>3. RequestHandlerSends \subseteq Seq(Actions)
  <2>1. <<EventStreamCall>> \in Seq(Actions)
    BY SessionActions
  <2>2. ProcessingError(0) \in Actions
    BY LiveSessionAssumption, SessionActions
  <2>3. <<ProcessingError(0), SessionClose>> \in Seq(Actions)
    BY <2>2, SessionActions
  <2> QED
    BY <2>1, <2>3, Zenon DEF RequestHandlerSends
<1>4. Emits[h][a] \in {OutputHandlerSends(a), RequestHandlerSends, {<<>>}}
  BY DEF Emits
<1>5. {<<>>} \subseteq Seq(Actions)
  OBVIOUS
<1> QED
  BY <1>2, <1>3, <1>4, <1>5

(* What the reader and the stream goroutine send.                          *)
LEMMA ScriptsActions ==
  \A s \in {"reader", "stream"} : Scripts[s] \subseteq Seq(Actions)
<1>1. Scripts["reader"] \subseteq Seq(Actions)
  BY SessionActions DEF Scripts
<1>2. ASSUME NEW n \in 0 .. MaxEvents
      PROVE  [i \in 1 .. n |-> AgentResult(i)] \o <<AgentResultDone>> \in Seq(Actions)
  <2>1. [i \in 1 .. n |-> AgentResult(i)] \in Seq(Actions)
    <3>1. \A i \in 1 .. n : AgentResult(i) \in Actions
      BY LiveSessionAssumption, SessionActions
    <3> QED
      BY <3>1, LiveSessionAssumption
  <2> QED
    BY <2>1, SessionActions
<1>3. Scripts["stream"] \subseteq Seq(Actions)
  BY <1>2 DEF Scripts
<1> QED
  BY <1>1, <1>3

(* What Dispatcher assumes of its constants holds of the session's bus.    *)
LEMMA BusAssumption == DP!DispatcherAssumption
BY LiveSessionAssumption, SupportsActions, EmitsActions, ScriptsActions
DEF DP!DispatcherAssumption
-----------------------------------------------------------------------------
(* The bus of LiveSession and the bus DispatcherProofs is about are the    *)
(* same module with the same constants: their definitions say the same.    *)
LEMMA SameBus ==
  /\ D!Init <=> DP!Init
  /\ D!Next <=> DP!Next
  /\ UNCHANGED D!vars <=> UNCHANGED DP!vars
BY DEF D!Register, DP!Register, D!Begin, DP!Begin, D!CancelCaller,
       DP!CancelCaller, D!CtxDone, DP!CtxDone, D!SendFails, DP!SendFails,
       D!SendCheckDispatcher, DP!SendCheckDispatcher, D!SendCheckChannel,
       DP!SendCheckChannel, D!SendAccepted, DP!SendAccepted, D!SendCancelled,
       DP!SendCancelled, D!SendPanics, DP!SendPanics, D!SendStep, DP!SendStep,
       D!ConsumerKeeps, DP!ConsumerKeeps, D!ConsumeCheck, DP!ConsumeCheck,
       D!ReceiveCheck, DP!ReceiveCheck, D!Receive, DP!Receive, D!ReceiveFails,
       DP!ReceiveFails, D!Current, DP!Current, D!Wants, DP!Wants, D!Snapshot,
       DP!Snapshot, D!PassOver, DP!PassOver, D!Invoke, DP!Invoke,
       D!InvokeNext, DP!InvokeNext, D!HandlerReturns, DP!HandlerReturns,
       D!DispatchEnds, DP!DispatchEnds, D!ConsumerCancels, DP!ConsumerCancels,
       D!ConsumerDone, DP!ConsumerDone, D!ConsumerStep, DP!ConsumerStep,
       D!Watch, DP!Watch, D!CloserKeeps, DP!CloserKeeps, D!Goto, DP!Goto,
       D!CloseSession, DP!CloseSession, D!MarkSession, DP!MarkSession,
       D!CloseDispatcher, DP!CloseDispatcher, D!MarkDispatcher,
       DP!MarkDispatcher, D!CloseStopChan, DP!CloseStopChan, D!AwaitConsumer,
       DP!AwaitConsumer, D!CloseChannel, DP!CloseChannel, D!MarkChannel,
       DP!MarkChannel, D!ShutChannel, DP!ShutChannel, D!CloserStep,
       DP!CloserStep, D!Running, DP!Running, D!Next, DP!Next, D!chanVars,
       DP!chanVars, D!consVars, DP!consVars, D!sendVars, DP!sendVars,
       D!closeVars, DP!closeVars, D!vars, DP!vars, D!Procs, DP!Procs,
       D!Capacity, DP!Capacity, D!Init, DP!Init

(* So do their specifications.                                             *)
LEMMA SameSpec == D!Spec => DP!Spec
<1>1. D!Init => DP!Init
  BY SameBus
<1>2. [D!Next]_(D!vars) => [DP!Next]_(DP!vars)
  BY SameBus
<1> QED
  BY <1>1, <1>2, PTL DEF D!Spec, DP!Spec

(* Only handlers are registered.                                           *)
Registers == registered \in Seq(Handlers)

(* Every step of the bus keeps it so.                                      *)
LEMMA BusStepRegisters ==
  ASSUME Registers, [D!Next]_(D!vars)
  PROVE  Registers'
<1>1. CASE UNCHANGED D!vars
  BY <1>1 DEF Registers, D!vars
<1>2. ASSUME NEW h \in Handlers, D!Register(h) PROVE Registers'
  BY <1>2 DEF Registers, D!Register
<1>3. ASSUME NEW p, D!SendStep(p) PROVE Registers'
  BY <1>3 DEF Registers, D!SendStep, D!SendCheckDispatcher, D!SendCheckChannel,
              D!SendAccepted, D!SendCancelled, D!SendPanics
<1>4. ASSUME NEW s, D!Begin(s) \/ D!CancelCaller(s) PROVE Registers'
  BY <1>4 DEF Registers, D!Begin, D!CancelCaller
<1>5. CASE D!ConsumerStep
  BY <1>5 DEF Registers, D!ConsumerStep, D!ConsumerKeeps, D!ConsumeCheck,
              D!ReceiveCheck, D!Receive, D!ReceiveFails, D!Snapshot, D!PassOver,
              D!InvokeNext, D!Invoke, D!HandlerReturns, D!DispatchEnds,
              D!ConsumerCancels, D!ConsumerDone
<1>6. CASE D!Watch
  BY <1>6 DEF Registers, D!Watch
<1>7. ASSUME NEW k, D!CloseSession(k) \/ D!CloserStep(k) PROVE Registers'
  BY <1>7 DEF Registers, D!CloserStep, D!CloserKeeps, D!Goto, D!CloseSession,
              D!MarkSession, D!CloseDispatcher, D!MarkDispatcher,
              D!CloseStopChan, D!AwaitConsumer, D!CloseChannel, D!MarkChannel,
              D!ShutChannel
<1> QED
  BY <1>1, <1>2, <1>3, <1>4, <1>5, <1>6, <1>7 DEF D!Next

(* A step of the session leaves its bus alone or is a step of Dispatcher.  *)
LEMMA NextIsBusStep ==
  ASSUME Registers, Next
  PROVE  [D!Next]_(D!vars)
<1>0. D!Running
  BY DEF Next
<1>idle. ASSUME UNCHANGED busVars PROVE UNCHANGED D!vars
  BY <1>idle DEF busVars, D!vars, D!chanVars, D!consVars, D!sendVars, D!closeVars
<1>invoke. ASSUME NEW h, NEW acts, Handles(h, acts) PROVE D!Next
  BY <1>0, <1>invoke DEF Handles, Turn, D!Next, D!ConsumerStep, D!InvokeNext, D!Invoke
<1>returns. ASSUME D!HandlerReturns PROVE D!Next
  BY <1>0, <1>returns DEF D!Next, D!ConsumerStep
<1>register. ASSUME NEW n \in {4, 6}, RegisterUpTo(n) PROVE D!Next
  <2>1. Len(registered) \in Nat
    BY DEF Registers
  <2>2. Len(registered) + 1 \in 1 .. 6
    BY <1>register, <2>1 DEF RegisterUpTo
  <2>3. HandlerOrder[Len(registered) + 1] \in Handlers
    BY <2>2 DEF Handlers, HandlerOrder
  <2> QED
    BY <1>0, <1>register, <2>3 DEF RegisterUpTo, D!Next
<1>1. CASE HttpStep
  <2>1. ASSUME \/ Insert \/ Connect \/ BindRefused \/ ServePost \/ ServeOther
               \/ WriteAccepted \/ AwaitDisconnect \/ Return
        PROVE  UNCHANGED D!vars
    BY <1>idle, <2>1 DEF Insert, Connect, BindRefused, ServePost, ServeOther,
         WriteAccepted, AwaitDisconnect, Return
  <2>2. ASSUME CreateSession \/ BindHandlers PROVE D!Next
    BY <1>register, <2>2 DEF CreateSession, BindHandlers
  <2>3. CASE CloseStep
    BY <1>0, <2>3 DEF CloseStep, D!Next
  <2> QED
    BY <1>1, <2>1, <2>2, <2>3 DEF HttpStep
<1>2. CASE ReaderReads \/ StreamStarts \/ ClientLeaves
  BY <1>0, <1>2 DEF ReaderReads, StreamStarts, ClientLeaves, D!Next
<1>3. ASSUME NEW p \in D!Procs, Sends(p) PROVE D!Next
  BY <1>0, <1>3 DEF Sends, D!Next
<1>4. CASE ConsumerStep
  <2>1. ASSUME Consumes PROVE D!Next
    BY <1>0, <2>1 DEF Consumes, D!Next, D!ConsumerStep
  <2>2. ASSUME ActionStorageHandle \/ IncrementTask \/ DecrementTask
               \/ CloseActionWaits \/ AgentRegistryHandle \/ ResultCallbackHandle
        PROVE  D!Next
    BY <1>invoke, <2>2 DEF ActionStorageHandle, IncrementTask, DecrementTask,
         CloseActionWaits, AgentRegistryHandle, ResultCallbackHandle
  <2>3. ASSUME AgentOutputHandle \/ ServerSessionHandle PROVE D!Next
    BY <1>invoke, <2>3 DEF AgentOutputHandle, ServerSessionHandle
  <2>4. ASSUME CloseActionCloses \/ CloseActionGivesUp \/ HandlerReturns
        PROVE  D!Next
    BY <1>returns, <2>4 DEF CloseActionCloses, CloseActionGivesUp, HandlerReturns
  <2>5. ASSUME WriteAnswer PROVE UNCHANGED D!vars
    BY <1>idle, <2>5 DEF WriteAnswer
  <2> QED
    BY <1>4, <2>1, <2>2, <2>3, <2>4, <2>5 DEF ConsumerStep
<1>5. CASE Watch
  BY <1>0, <1>5 DEF Watch, D!Next
<1>6. CASE ReaderGivesUp \/ EntryLost
  BY <1>idle, <1>6 DEF ReaderGivesUp, EntryLost
<1>7. ASSUME NEW g \in Guests, GuestCloses(g) \/ GuestStep(g) PROVE D!Next
  BY <1>0, <1>7 DEF GuestCloses, GuestStep, D!Next
<1> QED
  BY <1>1, <1>2, <1>3, <1>4, <1>5, <1>6, <1>7 DEF Next

(* The whole session uses its bus as Dispatcher says a bus is used.        *)
THEOREM UsesDispatcher == Spec => D!Spec
<1>1. Init => D!Init /\ Registers
  BY DEF Init, Registers, D!Init
<1>2. ASSUME Registers, [Next]_vars PROVE [D!Next]_(D!vars)
  <2>1. CASE UNCHANGED vars
    BY <2>1 DEF vars, busVars, D!vars, D!chanVars, D!consVars, D!sendVars, D!closeVars
  <2> QED
    BY <1>2, <2>1, NextIsBusStep
<1>3. Registers /\ [Next]_vars => Registers'
  BY <1>2, BusStepRegisters
<1> QED
  BY <1>1, <1>2, <1>3, PTL DEF Spec, D!Spec
-----------------------------------------------------------------------------
(* The dispatcher is marked before anything that stops the bus is closed.  *)
MarkedFirst == stopped \/ chClosed \/ chShut => dClosed

(* What the closers guarantee of a bus holds of the session's.             *)
LEMMA BusCloses == Spec => [](D!CloseOrder /\ MarkedFirst)
<1>1. D!Spec => DP!Spec
  BY SameSpec
<1>2. DP!Spec => []DP!CloseOrder
  BY BusAssumption, DP!ClosesInOrder
<1>3. DP!Spec => []DP!DispatcherFirst
  BY BusAssumption, DP!AlwaysDispatcherFirst
<1>4. DP!CloseOrder => D!CloseOrder
  BY DEF DP!CloseOrder, D!CloseOrder, DP!AfterMark, D!AfterMark, DP!Alone, D!Alone
<1>5. DP!DispatcherFirst => MarkedFirst
  BY DEF DP!DispatcherFirst, MarkedFirst
<1> QED
  BY UsesDispatcher, <1>1, <1>2, <1>3, <1>4, <1>5, PTL

(* The callback writes in the consumer's goroutine.  The HTTP handler      *)
(* returns after its Session.Close has, if it finds the session in the     *)
(* map, and nobody but another request of the id takes it out of there.    *)
ServeInv ==
  /\ writing => cpc = "handling" /\ Head(todo) = "AgentResultCallback"
  /\ kpc["http"] # "idle" => hpc \in {"closing", "returned"}
  /\ hpc = "returned" => kpc["http"] \in {"idle", "returned", "panicked"}
  /\ hpc \notin {"create", "insert", "leaving", "returned"} => held \/ Guests # {}
  /\ hpc = "leaving" \/ (hpc = "returned" /\ kpc["http"] = "idle") => Guests # {}

(* Every step of the session preserves that.                               *)
LEMMA NextServes ==
  ASSUME ServeInv, kpc \in [{"http"} \cup Guests -> D!CloserAt], [Next]_vars
  PROVE  ServeInv'
<1> SUFFICES ASSUME Next PROVE ServeInv'
  BY DEF ServeInv, vars, busVars, sessionVars
<1> USE DEF connVars, closerVars, historyVars, sessionVars
<1>idle. ASSUME UNCHANGED <<kpc, cpc, todo, hpc, held>>, writing' => writing PROVE ServeInv'
  BY <1>idle DEF ServeInv
<1>closer. ASSUME NEW k \in {"http"} \cup Guests, D!CloseSession(k) \/ D!CloserStep(k)
           PROVE  /\ UNCHANGED <<cpc, todo>>
                  /\ \A j \in ({"http"} \cup Guests) \ {k} : kpc'[j] = kpc[j]
                  /\ kpc'[k] # "idle"
  BY <1>closer DEF D!CloseSession, D!CloserStep, D!Goto, D!CloserKeeps, D!consVars,
     D!MarkSession, D!CloseDispatcher, D!MarkDispatcher, D!CloseStopChan,
     D!AwaitConsumer, D!CloseChannel, D!MarkChannel, D!ShutChannel
<1>1. CASE HttpStep
  <2>1. CASE Insert \/ Connect \/ BindRefused \/ ServePost \/ ServeOther \/ WriteAccepted
    BY <2>1 DEF Insert, Connect, BindRefused, ServePost, ServeOther, WriteAccepted,
         ServeInv, busVars
  <2>2. CASE CreateSession \/ BindHandlers
    BY <2>2 DEF CreateSession, BindHandlers, RegisterUpTo, D!Register, ServeInv,
                D!consVars, D!closeVars
  <2>3. CASE AwaitDisconnect
    BY <2>3 DEF AwaitDisconnect, ServeInv, busVars
  <2>4. CASE CloseStep
    <3>1. /\ UNCHANGED <<cpc, todo, hpc, held, writing>> /\ kpc'["http"] # "idle"
          /\ hpc = "closing"
      BY <1>closer, <2>4 DEF CloseStep
    <3> QED
      BY <3>1 DEF ServeInv
  <2>5. CASE Return
    BY <2>5 DEF Return, ServeInv, busVars
  <2> QED
    BY <1>1, <2>1, <2>2, <2>3, <2>4, <2>5 DEF HttpStep
<1>2. CASE ReaderReads \/ StreamStarts \/ ClientLeaves
  BY <1>2, <1>idle DEF ReaderReads, StreamStarts, ClientLeaves, D!Begin, D!CancelCaller,
       D!consVars, D!closeVars
<1>3. ASSUME NEW p \in D!Procs, Sends(p) PROVE ServeInv'
  BY <1>3, <1>idle DEF Sends, D!SendStep, D!SendCheckDispatcher, D!SendCheckChannel,
       D!SendAccepted, D!SendCancelled, D!SendPanics, D!consVars, D!closeVars
<1>4. CASE ConsumerStep
  <2>invoke. ASSUME NEW h, NEW acts, Handles(h, acts), UNCHANGED <<hpc, held>>,
                    writing' => writing \/ h = "AgentResultCallback"
             PROVE  ServeInv'
    BY <2>invoke DEF Handles, Turn, D!Invoke, D!closeVars, ServeInv
  <2>1. CASE Consumes
    BY <2>1 DEF Consumes, D!ConsumerKeeps, D!ConsumeCheck, D!ReceiveCheck,
         D!Receive, D!ReceiveFails, D!Snapshot, D!PassOver, D!DispatchEnds,
         D!ConsumerCancels, D!ConsumerDone, D!closeVars, ServeInv
  <2>2. ASSUME ActionStorageHandle \/ IncrementTask \/ DecrementTask
               \/ CloseActionWaits \/ AgentRegistryHandle
        PROVE  ServeInv'
    BY <2>invoke, <2>2 DEF ActionStorageHandle, IncrementTask, DecrementTask,
         CloseActionWaits, AgentRegistryHandle
  <2>3. ASSUME AgentOutputHandle \/ ServerSessionHandle PROVE ServeInv'
    BY <2>invoke, <2>3 DEF AgentOutputHandle, ServerSessionHandle
  <2>4. CASE ResultCallbackHandle
    BY <2>invoke, <2>4 DEF ResultCallbackHandle
  <2>5. ASSUME CloseActionCloses \/ CloseActionGivesUp \/ HandlerReturns
        PROVE  ServeInv'
    <3>1. ~writing
      BY <2>5 DEF CloseActionCloses, CloseActionGivesUp, HandlerReturns,
                  InCloseAction, ServeInv
    <3>2. ~writing' /\ UNCHANGED <<kpc, hpc, held>>
      BY <2>5, <3>1 DEF CloseActionCloses, CloseActionGivesUp, HandlerReturns,
           D!HandlerReturns, D!ConsumerKeeps, D!closeVars
    <3> QED
      BY <3>2 DEF ServeInv
  <2>6. CASE WriteAnswer
    BY <1>idle, <2>6 DEF WriteAnswer, busVars
  <2> QED
    BY <1>4, <2>1, <2>2, <2>3, <2>4, <2>5, <2>6 DEF ConsumerStep
<1>5. CASE Watch
  BY <1>5, <1>idle DEF Watch, D!Watch, D!consVars, D!closeVars
<1>6. CASE ReaderGivesUp
  BY <1>idle, <1>6 DEF ReaderGivesUp, busVars
<1>7. CASE EntryLost
  BY <1>7 DEF EntryLost, busVars, ServeInv
<1>8. ASSUME NEW g \in Guests, GuestCloses(g) \/ GuestStep(g) PROVE ServeInv'
  <2>1. UNCHANGED <<cpc, todo, hpc, held, writing>>
    BY <1>8, <1>closer DEF GuestCloses, GuestStep
  <2>2. kpc'["http"] = kpc["http"]
    BY <1>8, <1>closer, LiveSessionAssumption DEF GuestCloses, GuestStep
  <2> QED
    BY <2>1, <2>2 DEF ServeInv
<1> QED
  BY <1>1, <1>2, <1>3, <1>4, <1>5, <1>6, <1>7, <1>8 DEF Next

(* Every step that writes an answer is the callback's.                     *)
LEMMA OnlyTheCallbackWrites ==
  ASSUME [Next]_vars, replies' # replies
  PROVE  writing
<1>1. CASE UNCHANGED vars
  BY <1>1 DEF vars, sessionVars, historyVars
<1>2. CASE HttpStep
  BY <1>2 DEF HttpStep, CreateSession, Insert, Connect, BindHandlers, BindRefused, ServePost,
       ServeOther, WriteAccepted, AwaitDisconnect, CloseStep, Return,
       sessionVars, historyVars
<1>3. ASSUME ReaderReads \/ ReaderGivesUp \/ StreamStarts \/ ClientLeaves \/ Watch
             \/ (\E p \in D!Procs : Sends(p)) \/ EntryLost
             \/ \E g \in Guests : GuestCloses(g) \/ GuestStep(g)
      PROVE  FALSE
  BY <1>3 DEF EntryLost, GuestCloses, GuestStep, ReaderReads, ReaderGivesUp, StreamStarts, ClientLeaves, Watch, Sends,
       sessionVars, historyVars
<1>4. CASE ConsumerStep
  BY <1>4 DEF ConsumerStep, Consumes, ActionStorageHandle, AgentOutputHandle,
       IncrementTask, DecrementTask, CloseActionWaits, AgentRegistryHandle,
       ServerSessionHandle, ResultCallbackHandle, WriteAnswer,
       CloseActionCloses, CloseActionGivesUp, HandlerReturns, sessionVars,
       historyVars
<1> QED
  BY <1>1, <1>2, <1>3, <1>4 DEF Next

(* However long the stream, whatever the buffer size and however many      *)
(* other requests there are: no answer is written after the HTTP handler   *)
(* has returned unless one of them has closed the session too, or has      *)
(* taken it out of the map.  The consumer that writes the answer is        *)
(* finished before a Session.Close that is the only one, and so the        *)
(* handler, returns.                                                       *)
THEOREM AnswersWhileServing == Spec => WritesWhileServing
<1>1. Init => ServeInv
  BY DEF Init, ServeInv, D!Init
<1>2. DP!Spec => []DP!Typed
  BY BusAssumption, DP!AlwaysTyped
<1>3. D!Spec => DP!Spec
  BY SameSpec
<1>4. DP!Typed /\ ServeInv /\ [Next]_vars => ServeInv'
  <2>1. DP!Typed => kpc \in [{"http"} \cup Guests -> D!CloserAt]
    BY DEF DP!Typed, DP!TypeOK, DP!CloserAt, D!CloserAt
  <2> QED
    BY <2>1, NextServes
<1>5. ServeInv /\ D!CloseOrder /\ [Next]_vars
        => [replies' # replies => hpc # "returned" \/ ClosedByGuest \/ NotFound]_vars
  <2> SUFFICES ASSUME ServeInv, D!CloseOrder, Next, replies' # replies,
                      hpc = "returned", ~ClosedByGuest, ~NotFound
               PROVE  FALSE
    BY DEF vars, sessionVars
  <2>1. cpc = "handling"
    BY OnlyTheCallbackWrites DEF ServeInv
  <2>2. kpc["http"] \in {"returned", "panicked"}
    BY DEF ServeInv, NotFound
  <2>3. D!Alone("http")
    BY DEF D!Alone, ClosedByGuest
  <2>4. cpc = "done"
    BY <2>2, <2>3 DEF D!CloseOrder, D!AfterMark
  <2> QED
    BY <2>1, <2>4
<1> QED
  BY <1>1, <1>2, <1>3, <1>4, <1>5, UsesDispatcher, BusCloses, PTL
  DEF Spec, WritesWhileServing
=============================================================================
