----------------------------- MODULE LiveSession -----------------------------
(***************************************************************************)
(* A live session from the HTTP request that creates it to the return of   *)
(* its HTTP handler.  The bus is Dispatcher, with the handlers the session *)
(* manager registers: this module gives each of them its effect and adds   *)
(* the goroutines around the bus: the HTTP handler (SessionManager.        *)
(* ConnectAndServe), the reader of the connection (ConnectAndBind) and the *)
(* event stream (EventStreamHandler).  Later requests of the session id    *)
(* have buses of their own and are seen here only by what their handlers   *)
(* may do to this session: close it, and take it out of the map.           *)
(***************************************************************************)
EXTENDS Integers, Sequences, Ranks

CONSTANTS
  MaxEvents,   (* the most events the agent's stream produces                *)
  BufferSize,  (* the buffer size the session manager is configured with     *)
  Guests       (* the handlers of other requests of the session id           *)

ASSUME LiveSessionAssumption ==
  /\ MaxEvents \in Nat /\ BufferSize \in Int
  /\ "http" \notin Guests

(* The actions: those about an event carry its number, the others 0.       *)
Action(type, e)    == [type |-> type, ev |-> e]
UserRequest        == Action("UserRequest", 0)
EventStreamCall    == Action("EventStreamCall", 0)
AgentResult(e)     == Action("AgentResult", e)
AgentResultDone    == Action("AgentResult", 0)
ResultCallback(e)  == Action("AgentResultCallback", e)
ProcessingError(e) == Action("ProcessingError", e)
SessionClose       == Action("SessionClose", 0)

Types == {"UserRequest", "EventStreamCall", "AgentResult",
          "AgentResultCallback", "ProcessingError", "SessionClose"}
Actions == [type : Types, ev : 0 .. MaxEvents]

(* Mutant: the storage is registered last.                                 *)
HandlerOrderStorageLast ==
  <<"AgentOutputHandler", "SessionCloser", "AgentRegistry", "ServerSession",
    "AgentResultCallback", "ActionStorage">>

(* The handlers, in the order in which createSession, Connect and          *)
(* AddServerContext register them, and the actions each registers for.     *)
HandlerOrder == <<"ActionStorage", "AgentOutputHandler", "SessionCloser",
                  "AgentRegistry", "ServerSession", "AgentResultCallback">>

Handlers == {HandlerOrder[i] : i \in DOMAIN HandlerOrder}

OfTypes(T) == {a \in Actions : a.type \in T}
Supports ==
  [h \in Handlers |->
     CASE h = "AgentOutputHandler"  -> OfTypes({"AgentResult"})
       [] h = "SessionCloser"       -> OfTypes({"SessionClose", "EventStreamCall",
                                                "AgentResult"})
       [] h = "ServerSession"       -> OfTypes({"UserRequest"})
       [] h = "AgentResultCallback" -> OfTypes({"AgentResultCallback"})
       [] OTHER                     -> {}]

(* Mutant: nothing is sent for Done.                                       *)
OutputHandlerSendsNoClose(a) ==
  IF a = AgentResultDone
    THEN {<<>>}
    ELSE {<<ResultCallback(a.ev)>>, <<ProcessingError(a.ev)>>}

(* What a handler may send, the application's functions it calls (the      *)
(* request handler and the output handler) returning an error or not.      *)
OutputHandlerSends(a) ==
  IF a = AgentResultDone
    THEN {<<SessionClose>>}
    ELSE {<<ResultCallback(a.ev)>>, <<ProcessingError(a.ev)>>}

RequestHandlerSends == {<<EventStreamCall>>, <<ProcessingError(0), SessionClose>>}

Emits ==
  [h \in Handlers |-> [a \in Actions |->
     CASE h = "AgentOutputHandler" /\ a.type = "AgentResult" -> OutputHandlerSends(a)
       [] h = "ServerSession" /\ a = UserRequest -> RequestHandlerSends
       [] OTHER -> {<<>>}]]

(* Mutant: Done is sent when the stream starts.                            *)
ScriptsDoneFirst ==
  [s \in {"reader", "stream"} |->
     IF s = "reader"
       THEN {<<UserRequest>>}
       ELSE {<<AgentResultDone>> \o [i \in 1 .. n |-> AgentResult(i)] :
               n \in 0 .. MaxEvents}]

(* The reader submits the request; the stream goroutine sends the events   *)
(* the agent produced, however many, and then Done.                        *)
Scripts ==
  [s \in {"reader", "stream"} |->
     IF s = "reader"
       THEN {<<UserRequest>>}
       ELSE {[i \in 1 .. n |-> AgentResult(i)] \o <<AgentResultDone>> :
               n \in 0 .. MaxEvents}]

VARIABLES
  (* the bus, see Dispatcher; the closers are goroutines of HTTP handlers   *)
  buf, chClosed, chShut, dClosed, stopped, ctxDone, registered, cpc, todo,
  begun, cancelled, out, spc, sClosed, kpc, crashed, accepted, received,
  hpc,         (* where the HTTP handler goroutine is                        *)
  held,        (* does the manager's map hold this session for its id?       *)
  inbox,       (* is the request in the transport's incoming channel?        *)
  tClosed,     (* SSETransport is closed: done is closed, incoming is nil    *)
  ssClosed,    (* ServerSession.closed                                       *)
  known,       (* is the session in the maps of SessionCloser?               *)
  pending,     (* SessionCloser.pendingTasks of the session                  *)
  writing,     (* has the callback passed ServerSession.Send's closed check? *)
  spawned,     (* has EventStreamHandler started its goroutine?              *)
  log,         (* the actions ActionStorage has recorded                     *)
  failed,      (* history: the events the output handler failed on           *)
  replies      (* history: the events whose answer was written, in order     *)

D == INSTANCE Dispatcher WITH
       Senders <- {"reader", "stream"}, Tied <- {"stream"},
       Closers <- {"http"} \cup Guests, Consumer <- "consumer"

busVars == <<buf, chClosed, chShut, dClosed, stopped, ctxDone, registered, cpc,
             todo, begun, cancelled, out, spc, sClosed, kpc, crashed, accepted,
             received>>
connVars    == <<inbox, tClosed, ssClosed>>
closerVars  == <<known, pending>>
historyVars == <<failed, replies>>
sessionVars == <<hpc, held, connVars, closerVars, writing, spawned, log, historyVars>>
vars == <<busVars, sessionVars>>

(* The context of the HTTP request is done: the client has left.           *)
ClientLeft == "reader" \in cancelled

TypeOK ==
  /\ hpc \in {"create", "insert", "connect", "bind", "serve", "accept", "await",
              "closing", "leaving", "returned"}
  /\ held \in BOOLEAN
  /\ inbox \in BOOLEAN /\ tClosed \in BOOLEAN /\ ssClosed \in BOOLEAN
  /\ known \in BOOLEAN /\ writing \in BOOLEAN
  /\ pending \in 0 .. 1
  /\ spawned \in BOOLEAN
  /\ log \in Seq(Actions)
  /\ failed \subseteq 1 .. MaxEvents
  /\ replies \in Seq(1 .. MaxEvents)

Init ==
  /\ D!Init
  /\ hpc = "create" /\ held = FALSE
  /\ inbox = FALSE /\ tClosed = FALSE /\ ssClosed = FALSE
  /\ known = FALSE /\ pending = 0
  /\ writing = FALSE /\ spawned = FALSE
  /\ log = <<>>
  /\ failed = {} /\ replies = <<>>
-----------------------------------------------------------------------------
(* The HTTP handler goroutine: ConnectAndServe.                            *)

(* The next handler in order; NewSession registers four, Connect and       *)
(* AddServerContext one each.                                              *)
RegisterUpTo(n) ==
  /\ Len(registered) < n
  /\ D!Register(HandlerOrder[Len(registered) + 1])

CreateSession ==
  /\ hpc = "create"
  /\ RegisterUpTo(4)
  /\ hpc' = IF Len(registered) = 3 THEN "insert" ELSE hpc
  /\ UNCHANGED <<held, connVars, closerVars, writing, spawned, log, historyVars>>

(* GetOrCreate puts the session into the map.                              *)
Insert ==
  /\ hpc = "insert"
  /\ held' = TRUE
  /\ hpc' = "connect"
  /\ UNCHANGED <<busVars, connVars, closerVars, writing, spawned, log, historyVars>>

(* Connect makes incoming, Bind registers the session with the closer, and *)
(* the reader goroutine starts.                                            *)
Connect ==
  /\ hpc = "connect"
  /\ known' = TRUE
  /\ pending' = 0
  /\ hpc' = "bind"
  /\ UNCHANGED <<busVars, held, connVars, writing, spawned, log, historyVars>>

BindHandlers ==
  /\ hpc = "bind"
  /\ RegisterUpTo(6)
  /\ hpc' = IF Len(registered) = 5 THEN "serve" ELSE hpc
  /\ UNCHANGED <<held, connVars, closerVars, writing, spawned, log, historyVars>>

(* A dispatcher that another request has closed refuses them, unnoticed.   *)
BindRefused ==
  /\ hpc = "bind"
  /\ dClosed
  /\ hpc' = "serve"
  /\ UNCHANGED <<busVars, held, connVars, closerVars, writing, spawned, log, historyVars>>

(* SSETransport.ServeHTTP pushes the message of a POST that parses, and    *)
(* then writes "accepted"; of anything else it only writes an error.       *)
ServePost ==
  /\ hpc = "serve"
  /\ inbox' = TRUE
  /\ hpc' = "accept"
  /\ UNCHANGED <<busVars, held, tClosed, ssClosed, closerVars, writing, spawned, log,
                 historyVars>>

ServeOther ==
  /\ hpc = "serve"
  /\ hpc' = "await"
  /\ UNCHANGED <<busVars, held, connVars, closerVars, writing, spawned, log, historyVars>>

WriteAccepted ==
  /\ hpc = "accept"
  /\ hpc' = "await"
  /\ UNCHANGED <<busVars, held, connVars, closerVars, writing, spawned, log, historyVars>>


(* The connection is gone, on either side: the manager closes what its map *)
(* holds for the id, which need not be this session any more.              *)
AwaitDisconnect ==
  /\ hpc = "await"
  /\ ClientLeft \/ tClosed
  /\ hpc' = IF held THEN "closing" ELSE "leaving"
  /\ UNCHANGED <<busVars, held, connVars, closerVars, writing, spawned, log, historyVars>>

(* Session.Close, which returns at once when another request has closed    *)
(* the session.                                                            *)
CloseStep ==
  /\ hpc = "closing"
  /\ D!CloseSession("http") \/ D!CloserStep("http")
  /\ UNCHANGED sessionVars

(* Mutant: the handler does not wait for Session.Close.                    *)
ReturnEarly ==
  /\ hpc \in {"closing", "leaving"}
  /\ ssClosed' = TRUE /\ tClosed' = TRUE
  /\ hpc' = "returned"
  /\ UNCHANGED <<busVars, held, inbox, closerVars, writing, spawned, log, historyVars>>

(* The map's entry is deleted, unless Session.Close has panicked; then the *)
(* deferred ServerSession.Close and the return of the handler.             *)
Return ==
  /\ hpc = "leaving" \/ (hpc = "closing" /\ kpc["http"] \in {"returned", "panicked"})
  /\ held' = (held /\ kpc["http"] # "returned")
  /\ ssClosed' = TRUE /\ tClosed' = TRUE
  /\ hpc' = "returned"
  /\ UNCHANGED <<busVars, inbox, closerVars, writing, spawned, log, historyVars>>

ClientLeaves ==
  /\ D!CancelCaller("reader")
  /\ UNCHANGED sessionVars
-----------------------------------------------------------------------------
(* The handlers of other requests of the id: once the session was in the   *)
(* map one of them may have found it there, and closes it when its own     *)
(* client leaves.  Some handler may delete or replace the entry: one whose *)
(* close is through, or one that races with another of the id.             *)

GuestCloses(g) ==
  /\ hpc \notin {"create", "insert"}
  /\ D!CloseSession(g)
  /\ UNCHANGED sessionVars

GuestStep(g) ==
  /\ D!CloserStep(g)
  /\ UNCHANGED sessionVars

EntryLost ==
  /\ Guests # {}
  /\ held
  /\ held' = FALSE
  /\ UNCHANGED <<busVars, hpc, connVars, closerVars, writing, spawned, log, historyVars>>
-----------------------------------------------------------------------------
(* The goroutines that send.                                               *)

(* The select of Read: the reader takes the message, also out of a channel *)
(* that was closed under it, or finds the request or the transport done.   *)
ReaderReads ==
  /\ inbox
  /\ D!Begin("reader")
  /\ inbox' = FALSE
  /\ UNCHANGED <<hpc, held, tClosed, ssClosed, closerVars, writing, spawned, log, historyVars>>

ReaderGivesUp ==
  /\ inbox
  /\ ClientLeft \/ tClosed
  /\ inbox' = FALSE
  /\ UNCHANGED <<busVars, hpc, held, tClosed, ssClosed, closerVars, writing, spawned, log,
                 historyVars>>

StreamStarts ==
  /\ spawned
  /\ D!Begin("stream")
  /\ UNCHANGED sessionVars

(* After a failed Send the stream goes on with a later event or stops;     *)
(* either way its deferred Done is the last thing it sends.                *)
Sends(p) ==
  /\ D!SendStep(p)
  /\ p = "stream" /\ Len(out[p]) > 1 => out'[p] # <<>>
  /\ UNCHANGED sessionVars
-----------------------------------------------------------------------------
(* The handlers, run by the consumer.                                      *)

Turn(h) == cpc = "dispatch" /\ todo # <<>> /\ Head(todo) = h

Handles(h, acts) ==
  /\ Turn(h)
  /\ acts \in Emits[h][D!Current]
  /\ D!Invoke(acts)

ActionStorageHandle ==
  /\ Handles("ActionStorage", <<>>)
  /\ log' = Append(log, D!Current)
  /\ UNCHANGED <<hpc, held, connVars, closerVars, writing, spawned, historyVars>>

AgentOutputHandle ==
  /\ Turn("AgentOutputHandler")
  /\ \E acts \in OutputHandlerSends(D!Current) :
       /\ Handles("AgentOutputHandler", acts)
       /\ failed' = IF acts = <<ProcessingError(D!Current.ev)>>
                      THEN failed \cup {D!Current.ev}
                      ELSE failed
  /\ UNCHANGED <<hpc, held, connVars, closerVars, writing, spawned, log, replies>>

(* SessionCloser counts the tasks that run.                                *)
IncrementTask ==
  /\ Handles("SessionCloser", <<>>)
  /\ D!Current = EventStreamCall
  /\ pending' = pending + 1
  /\ UNCHANGED <<hpc, held, connVars, known, writing, spawned, log, historyVars>>

(* Mutants: every result is counted as the end of a task; no result is;    *)
(* the connection is closed with the last task.                            *)
DecrementTaskPerEvent ==
  /\ Handles("SessionCloser", <<>>)
  /\ D!Current.type = "AgentResult"
  /\ pending' = pending - 1
  /\ UNCHANGED <<hpc, held, connVars, known, writing, spawned, log, historyVars>>

DecrementTaskNever ==
  /\ Handles("SessionCloser", <<>>)
  /\ D!Current.type = "AgentResult"
  /\ UNCHANGED sessionVars

DecrementTaskCloses ==
  /\ Handles("SessionCloser", <<>>)
  /\ D!Current.type = "AgentResult"
  /\ pending' = IF D!Current = AgentResultDone THEN 0 ELSE pending
  /\ ssClosed' = (D!Current = AgentResultDone)
  /\ tClosed' = (D!Current = AgentResultDone)
  /\ UNCHANGED <<hpc, held, inbox, known, writing, spawned, log, historyVars>>

(* A Done ends a task; the count does not go below 0.                      *)
DecrementTask ==
  /\ Handles("SessionCloser", <<>>)
  /\ D!Current.type = "AgentResult"
  /\ pending' = IF D!Current = AgentResultDone /\ known /\ pending > 0
                  THEN pending - 1
                  ELSE pending
  /\ UNCHANGED <<hpc, held, connVars, known, writing, spawned, log, historyVars>>

(* handleCloseAction starts to wait for the tasks, in this goroutine ...   *)
CloseActionWaits ==
  /\ Handles("SessionCloser", <<>>)
  /\ D!Current = SessionClose
  /\ UNCHANGED sessionVars

InCloseAction ==
  /\ cpc = "handling"
  /\ Head(todo) = "SessionCloser"
  /\ D!Current = SessionClose
  /\ known

(* ... and closes the connection when they are done or after 30 seconds,   *)
(* or gives up when its context is cancelled.                              *)
CloseActionCloses ==
  /\ InCloseAction
  /\ D!HandlerReturns
  /\ ssClosed' = TRUE /\ tClosed' = TRUE
  /\ known' = FALSE /\ pending' = 0
  /\ UNCHANGED <<hpc, held, inbox, writing, spawned, log, historyVars>>

CloseActionGivesUp ==
  /\ InCloseAction
  /\ ctxDone
  /\ D!HandlerReturns
  /\ UNCHANGED sessionVars

(* AgentRegistry routes a call to EventStreamHandler, which starts the     *)
(* stream goroutine; the other actions it gets are of no concern to it.    *)
AgentRegistryHandle ==
  /\ Handles("AgentRegistry", <<>>)
  /\ spawned' = (spawned \/ D!Current = EventStreamCall)
  /\ UNCHANGED <<hpc, held, connVars, closerVars, writing, log, historyVars>>

ServerSessionHandle ==
  /\ \E acts \in RequestHandlerSends : Handles("ServerSession", acts)
  /\ UNCHANGED sessionVars

(* The application's result callback answers the event: ServerSession.Send *)
(* ignores it once the session is closed, lets go of its lock and writes.  *)
(* The write fails when the consumer's context is done, and may fail when  *)
(* the client has left.                                                    *)
ResultCallbackHandle ==
  /\ Handles("AgentResultCallback", <<>>)
  /\ writing' = ~ssClosed
  /\ UNCHANGED <<hpc, held, connVars, closerVars, spawned, log, historyVars>>

CanWrite == IF ctxDone THEN {FALSE} ELSE IF ClientLeft THEN BOOLEAN ELSE {TRUE}

WriteAnswer ==
  /\ writing
  /\ \E written \in CanWrite :
       replies' = IF written THEN Append(replies, D!Current.ev) ELSE replies
  /\ writing' = FALSE
  /\ UNCHANGED <<busVars, hpc, held, connVars, closerVars, spawned, log, failed>>

HandlerReturns ==
  /\ ~InCloseAction
  /\ ~writing
  /\ D!HandlerReturns
  /\ UNCHANGED sessionVars

(* The consumer's own loop, between the handlers.                          *)
Consumes ==
  /\ \/ D!ConsumeCheck \/ D!ReceiveCheck \/ D!Receive \/ D!ReceiveFails
     \/ D!Snapshot \/ D!PassOver \/ D!DispatchEnds
     \/ D!ConsumerCancels \/ D!ConsumerDone
  /\ UNCHANGED sessionVars

Watch == D!Watch /\ UNCHANGED sessionVars
-----------------------------------------------------------------------------
HttpStep ==
  \/ CreateSession \/ Insert \/ Connect \/ BindHandlers \/ BindRefused
  \/ ServePost \/ ServeOther \/ WriteAccepted
  \/ AwaitDisconnect \/ CloseStep \/ Return

ConsumerStep ==
  \/ Consumes
  \/ ActionStorageHandle \/ AgentOutputHandle
  \/ IncrementTask \/ DecrementTask \/ CloseActionWaits
  \/ AgentRegistryHandle \/ ServerSessionHandle
  \/ ResultCallbackHandle \/ WriteAnswer
  \/ CloseActionCloses \/ CloseActionGivesUp \/ HandlerReturns

Next ==
  /\ D!Running
  /\ \/ HttpStep
     \/ ReaderReads \/ ReaderGivesUp \/ StreamStarts
     \/ \E p \in D!Procs : Sends(p)
     \/ ConsumerStep
     \/ Watch
     \/ ClientLeaves
     \/ \E g \in Guests : GuestCloses(g) \/ GuestStep(g)
     \/ EntryLost

Spec == Init /\ [][Next]_vars

(* The goroutines go on, the agent's stream ends, and the application's    *)
(* functions return; clients need not do anything.                         *)
Fairness ==
  /\ WF_vars(D!Running /\ HttpStep)
  /\ WF_vars(D!Running /\ (ReaderReads \/ ReaderGivesUp))
  /\ WF_vars(D!Running /\ StreamStarts)
  /\ \A p \in {"reader", "stream", "consumer"} : WF_vars(D!Running /\ Sends(p))
  /\ WF_vars(D!Running /\ ConsumerStep)
  /\ WF_vars(D!Running /\ Watch)
  /\ \A g \in Guests : WF_vars(D!Running /\ GuestStep(g))

FairSpec == Spec /\ Fairness
-----------------------------------------------------------------------------
(* Properties.                                                             *)

(* The client gets the answers ReplyStream promises: in order, none twice, *)
(* and no end of the stream while an event is unanswered, although every   *)
(* answer goes round through the queue behind later events (handler.go:76, *)
(* AgentOutputHandler; server.go, handleCloseAction).                      *)
Results  == {i \in DOMAIN accepted : accepted[i].type = "AgentResult" /\ accepted[i].ev > 0}
Produced == Cardinality(Results)
RS == INSTANCE ReplyStream WITH
        produced <- Produced,
        phase    <- IF ClientLeft THEN "left" ELSE
                    IF tClosed THEN "completed" ELSE "open"
ImplementsReplyStream == RS!Spec

(* SessionCloser never has to wait for a task, so the 30 seconds for which *)
(* it would block the consumer never run, and no wait group is missing     *)
(* when a task is counted (server.go, handleCloseAction, IncrementTask).   *)
TaskCountSettled ==
  /\ InCloseAction => pending = 0
  /\ pending > 0 => known

(* The log of a session the server has ended can answer a later client: it *)
(* holds the callbacks of exactly the answers that were sent, in their     *)
(* order, and then the close (storage.go, Handle, the first handler).      *)
Callbacks(s) == {i \in DOMAIN s : s[i].type = "AgentResultCallback"}
Events(s)    == [i \in DOMAIN s |-> s[i].ev]
LogReplayable ==
  tClosed /\ ~ClientLeft =>
    /\ log[Len(log)] = SessionClose
    /\ IsSelection(replies, Events(log), Callbacks(log))

(* An answer is written only while the HTTP handler runs, as net/http      *)
(* wants it of a ResponseWriter: the close waits for the consumer.  Only   *)
(* another request of the id, by closing the session too or by taking it   *)
(* out of the map before its own handler looks there, can make the handler *)
(* return first (session.go, ConnectAndServe and Session.Close).           *)
ClosedByGuest == \E g \in Guests : kpc[g] # "idle"
NotFound      == Guests # {} /\ kpc["http"] = "idle"
WritesWhileServing ==
  [][replies' # replies => hpc # "returned" \/ ClosedByGuest \/ NotFound]_vars

(* A request that was pushed to the transport is served to the end, as     *)
(* long as the buffer holds the stream (session.go, ConnectAndServe).      *)
RequestServed == (hpc = "accept") ~> (hpc = "returned" \/ ~D!Running)

=============================================================================
