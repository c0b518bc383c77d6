---------------------------- MODULE StorageReplay ----------------------------
(***************************************************************************)
(* The replay of a session's log to a client that comes back with its id,  *)
(* from the request to the end of its reader and consumer: the             *)
(* StorageChannel and the goroutine that fills it, the dispatcher that     *)
(* consumes it (the consumer of Dispatcher), the HTTP handler and the      *)
(* transport (SSETransport).  Nobody closes a replay session: the session  *)
(* manager does not keep it.  The log is the copy that After makes when    *)
(* the reader starts; what a session that is still live appends later is   *)
(* not in it.                                                              *)
(***************************************************************************)
EXTENDS Integers, Sequences, Ranks

CONSTANTS
  MaxAnswers,  (* the answers that callbacks carry are numbered up to it     *)
  Logs,        (* the logs that may be replayed                              *)
  BufferSize   (* the room in StorageChannel.actions, 100 in the code        *)

(* The actions: a callback carries its answer, the others none.            *)
Answers == 1 .. MaxAnswers
Action(type)        == [type |-> type, answer |-> 0]
UserRequest         == Action("UserRequest")
EventStreamCall     == Action("EventStreamCall")
AgentResult         == Action("AgentResult")
AgentResultDone     == Action("AgentResultDone")
ProcessingError     == Action("ProcessingError")
SessionClose        == Action("SessionClose")
ResultCallback(a)   == [type |-> "AgentResultCallback", answer |-> a]

Actions == {UserRequest, EventStreamCall, AgentResult, AgentResultDone,
            ProcessingError, SessionClose} \cup {ResultCallback(a) : a \in Answers}

IsAnswer(a) == a.type = "AgentResultCallback"

(* How often a is among the first n actions behind the first one of l.     *)
Behind(l, n, a) == Cardinality({i \in 1 .. n : l[i + 1] = a})

(* A live session logs its request, or the action that follows from it,    *)
(* before any answer, and the call of a stream, which follows the request, *)
(* before the Done of the stream.                                          *)
ASSUME StorageReplayAssumption ==
  /\ MaxAnswers \in Nat \ {0}
  /\ Logs \subseteq Seq(Actions)
  /\ \A l \in Logs :
       /\ l # <<>> => ~IsAnswer(l[1])
       /\ \A n \in 1 .. Len(l) - 1 :
            Behind(l, n, AgentResultDone) <= Behind(l, n, EventStreamCall)
  /\ BufferSize \in Nat \ {0}

(* The handlers, in the order in which createReplaySession, Connect and    *)
(* AddServerContext register them, and the actions each registers for.     *)
HandlerOrder == <<"SessionCloser", "ServerSession", "AgentResultCallback">>
Handlers == {HandlerOrder[i] : i \in DOMAIN HandlerOrder}

Supports ==
  [h \in Handlers |->
     CASE h = "SessionCloser" -> {SessionClose, EventStreamCall, AgentResult, AgentResultDone}
       [] h = "ServerSession" -> {UserRequest}
       [] OTHER               -> {ResultCallback(a) : a \in Answers}]

VARIABLES
  log,         (* the copy of the session's log                              *)
  next,        (* the index from which the iterator goes on                  *)
  scpc,        (* where the goroutine that reads the storage is              *)
  pushed,      (* history: the actions it has sent to the channel            *)
  buf,         (* the contents of StorageChannel.actions                     *)
  closed,      (* StorageChannel.closed; actions is closed with it           *)
  ctxDone, registered, cpc, todo, received,        (* the consumer, see Dispatcher *)
  crashed,     (* the goroutine whose panic ended the process, if any        *)
  hpc,         (* where the HTTP handler goroutine is                        *)
  clientLeft,  (* the context of the HTTP request is done                    *)
  tClosed, queued, ppc, rpc,                   (* the transport, see SSETransport *)
  ssClosed,    (* ServerSession.closed                                       *)
  known,       (* is the session in the maps of SessionCloser?               *)
  pending,     (* SessionCloser.pendingTasks of the session                  *)
  ending,      (* does handleCloseAction wait, having found the session?      *)
  writing,     (* has the callback passed ServerSession.Send's closed check? *)
  replies,     (* history: the answers written, in order                     *)
  reached      (* history: the position in the log of the last one, or 0     *)

(* Nobody sends to this bus, and the session manager, which does not keep  *)
(* the session, closes it for nobody.                                      *)
Nobody == {}
D == INSTANCE Dispatcher WITH
       Senders <- Nobody, Tied <- {}, Scripts <- <<>>, Closers <- Nobody,
       Consumer <- "consumer", Emits <- [h \in Handlers |-> [a \in Actions |-> {<<>>}]],
       chClosed <- closed, chShut <- closed, accepted <- pushed,
       dClosed <- Nobody # {}, stopped <- Nobody # {}, sClosed <- Nobody # {}, kpc <- <<>>,
       begun <- {}, cancelled <- {},
       out <- [p \in {"consumer"} |-> <<>>], spc <- [p \in {"consumer"} |-> "idle"]

T == INSTANCE SSETransport

readerVars    == <<log, next, scpc, pushed, closed>>
consumerVars  == <<buf, ctxDone, registered, cpc, todo, received, crashed>>
transportVars == <<tClosed, queued, ppc, rpc>>
closerVars    == <<known, pending, ending>>
requestVars   == <<hpc, clientLeft, ssClosed>>
answerVars    == <<writing, replies, reached>>
vars == <<readerVars, consumerVars, transportVars, closerVars, requestVars, answerVars>>

TypeOK ==
  /\ log \in Logs
  /\ next \in 2 .. Len(log) + 2
  /\ scpc \in {"iterate", "closing", "done"}
  /\ pushed \in Seq(Actions) /\ received \in Seq(Actions)
  /\ buf \in Seq(Actions) /\ Len(buf) <= BufferSize
  /\ closed \in BOOLEAN /\ ctxDone \in BOOLEAN
  /\ registered \in Seq(Handlers) /\ todo \in Seq(Handlers)
  /\ cpc \in D!ConsumerAt
  /\ crashed \subseteq {"consumer"}
  /\ hpc \in {"create", "connect", "bind", "serve", "closing", "returned", "panicked"}
  /\ clientLeft \in BOOLEAN
  /\ T!TypeOK
  /\ ssClosed \in BOOLEAN /\ known \in BOOLEAN
  /\ ending \in BOOLEAN /\ writing \in BOOLEAN
  /\ pending \in Nat
  /\ replies \in Seq(Answers)
  /\ reached \in 0 .. Len(log)

(* After turns the index -1 into 0 and starts behind it: the first action  *)
(* of the log is never replayed.                                           *)
Init ==
  /\ log \in Logs
  /\ next = 2
  /\ scpc = "iterate"
  /\ pushed = <<>>
  /\ buf = <<>> /\ closed = FALSE
  /\ ctxDone = FALSE /\ registered = <<>>
  /\ cpc = "check"                     \* NewDispatcher starts the consumer
  /\ todo = <<>> /\ received = <<>> /\ crashed = {}
  /\ hpc = "create" /\ clientLeft = FALSE
  /\ T!Init
  /\ ssClosed = FALSE /\ known = FALSE /\ pending = 0 /\ ending = FALSE
  /\ writing = FALSE /\ replies = <<>> /\ reached = 0
-----------------------------------------------------------------------------
(* The goroutine that reads the storage.  Only it ever sets closed, so it  *)
(* never finds it set.                                                     *)

ReaderKeeps ==
  UNCHANGED <<log, ctxDone, registered, cpc, todo, received, crashed, transportVars,
              closerVars, requestVars, answerVars>>

Push(goesOn) ==
  /\ scpc = "iterate"
  /\ next <= Len(log)
  /\ Len(buf) < BufferSize
  /\ buf' = Append(buf, log[next])
  /\ pushed' = Append(pushed, log[next])
  /\ next' = next + 1
  /\ scpc' = IF goesOn THEN "iterate" ELSE "closing"
  /\ UNCHANGED closed
  /\ ReaderKeeps

(* Mutants: the reader does not stop at a close; it passes over what finds *)
(* the channel full.                                                       *)
ReaderPushesAll == Push(TRUE)

ReaderPushesOrDrops ==
  \/ Push(scpc = "iterate" /\ next <= Len(log) /\ log[next] # SessionClose)
  \/ /\ scpc = "iterate"
     /\ next <= Len(log)
     /\ Len(buf) = BufferSize
     /\ next' = next + 1
     /\ UNCHANGED <<buf, pushed, closed, scpc>>
     /\ ReaderKeeps

(* The next action of the log is sent, when there is room; a SessionClose  *)
(* is the last.                                                            *)
ReaderPushes == Push(scpc = "iterate" /\ next <= Len(log) /\ log[next] # SessionClose)

(* Mutant: the channel is closed after a SessionClose only.                *)
ReaderClosesAtCloseOnly ==
  /\ scpc = "closing"
  /\ closed' = TRUE
  /\ scpc' = "done"
  /\ UNCHANGED <<next, pushed, buf>>
  /\ ReaderKeeps

(* At the end of the log, and of a stream that is not open yet, whose      *)
(* error ends the iteration at once, too: closed is set and the channel    *)
(* closed in one critical section.                                         *)
ReaderCloses ==
  /\ scpc = "closing" \/ (scpc = "iterate" /\ next > Len(log))
  /\ closed' = TRUE
  /\ scpc' = "done"
  /\ UNCHANGED <<next, pushed, buf>>
  /\ ReaderKeeps

ReaderStep == ReaderPushes \/ ReaderCloses
-----------------------------------------------------------------------------
(* The HTTP handler goroutine: ConnectAndServe.                            *)

RegisterNext == D!Register(HandlerOrder[Len(registered) + 1])

(* createReplaySession: the reader and the consumer run already.           *)
CreateReplaySession ==
  /\ hpc = "create"
  /\ RegisterNext
  /\ hpc' = "connect"
  /\ UNCHANGED <<log, next, scpc, clientLeft, ssClosed, transportVars, closerVars, answerVars>>

(* Bind registers the session with the closer, which forgets what it       *)
(* counted before, and the reader of the connection starts.                *)
Connect ==
  /\ hpc = "connect"
  /\ T!StartReader
  /\ known' = TRUE /\ pending' = 0
  /\ hpc' = "bind"
  /\ UNCHANGED <<readerVars, consumerVars, clientLeft, ssClosed, ending, answerVars>>

BindHandlers ==
  /\ hpc = "bind"
  /\ RegisterNext
  /\ hpc' = IF Len(registered) = 2 THEN "serve" ELSE hpc
  /\ UNCHANGED <<log, next, scpc, clientLeft, ssClosed, transportVars, closerVars, answerVars>>

Serve ==
  /\ hpc = "serve"
  /\ T!ServeStep
  /\ UNCHANGED <<readerVars, consumerVars, closerVars, requestVars, answerVars>>

(* The connection is gone, on either side: the session manager closes the  *)
(* session its map holds for the id, which is never this one.              *)
AwaitDisconnect ==
  /\ hpc = "serve"
  /\ ppc = "done"
  /\ clientLeft \/ tClosed
  /\ hpc' = "closing"
  /\ UNCHANGED <<readerVars, consumerVars, transportVars, clientLeft, ssClosed,
                 closerVars, answerVars>>

(* Mutant: only the transport is closed when the handler returns.          *)
ReturnTransportOnly ==
  /\ hpc = "closing" \/ (hpc = "serve" /\ ppc = "panicked")
  /\ hpc' = IF ppc = "panicked" THEN "panicked" ELSE "returned"
  /\ T!Close
  /\ UNCHANGED <<readerVars, consumerVars, clientLeft, ssClosed, closerVars, answerVars>>

(* The deferred closes, also after a push that panicked; net/http recovers *)
(* the panic.                                                              *)
Return ==
  /\ hpc = "closing" \/ (hpc = "serve" /\ ppc = "panicked")
  /\ hpc' = IF ppc = "panicked" THEN "panicked" ELSE "returned"
  /\ ssClosed' = TRUE
  /\ T!Close
  /\ UNCHANGED <<readerVars, consumerVars, clientLeft, closerVars, answerVars>>

HttpStep ==
  \/ CreateReplaySession \/ Connect \/ BindHandlers
  \/ Serve \/ AwaitDisconnect \/ Return

ClientLeaves ==
  /\ ~clientLeft
  /\ hpc \notin {"returned", "panicked"}
  /\ clientLeft' = TRUE
  /\ UNCHANGED <<readerVars, consumerVars, transportVars, hpc, ssClosed, closerVars, answerVars>>

(* The reader of the connection hands the request over, and gives up when  *)
(* StorageChannel.Send refuses it, as it does always.                      *)
ConnectionRead ==
  /\ T!ReadCheck \/ T!ReadMessage(FALSE) \/ T!ReadFails(clientLeft)
  /\ UNCHANGED <<readerVars, consumerVars, closerVars, requestVars, answerVars>>
-----------------------------------------------------------------------------
(* The consumer and the handlers it runs.  The goroutines that wait for    *)
(* the stopChan of the dispatcher (channel.go:190) and of the storage      *)
(* channel (storage.go:348), to cancel a context, are left out: nobody     *)
(* closes a replay session, so they wait for ever and cancel nothing.      *)

Consumes ==
  /\ \/ D!ConsumeCheck \/ D!ReceiveCheck \/ D!Receive \/ D!ReceiveFails
     \/ D!Snapshot \/ D!PassOver \/ D!DispatchEnds
     \/ D!ConsumerCancels \/ D!ConsumerDone
  /\ UNCHANGED <<log, next, scpc, transportVars, closerVars, requestVars, answerVars>>

Handles(h) == cpc = "dispatch" /\ todo # <<>> /\ Head(todo) = h /\ D!Invoke(<<>>)

(* A task is counted in the session's wait group, and there is none before *)
(* Bind has run: IncrementTask dereferences nil and ends the process.      *)
IncrementTask ==
  /\ Handles("SessionCloser")
  /\ D!Current = EventStreamCall
  /\ known
  /\ pending' = pending + 1
  /\ UNCHANGED <<log, next, scpc, known, ending, transportVars, requestVars, answerVars>>

IncrementTaskCrashes ==
  /\ cpc = "dispatch" /\ todo # <<>> /\ Head(todo) = "SessionCloser"
  /\ D!Current = EventStreamCall
  /\ ~known
  /\ crashed' = {"consumer"}
  /\ UNCHANGED <<readerVars, buf, ctxDone, registered, cpc, todo, received, closerVars,
                 transportVars, requestVars, answerVars>>

(* Mutants: the count goes below 0; the end of a task is not counted.      *)
DecrementTaskUnchecked ==
  /\ Handles("SessionCloser")
  /\ D!Current \in {AgentResult, AgentResultDone}
  /\ pending' = IF D!Current = AgentResultDone THEN pending - 1 ELSE pending
  /\ UNCHANGED <<log, next, scpc, known, ending, transportVars, requestVars, answerVars>>

DecrementTaskNever ==
  /\ Handles("SessionCloser")
  /\ D!Current \in {AgentResult, AgentResultDone}
  /\ UNCHANGED <<log, next, scpc, transportVars, closerVars, requestVars, answerVars>>

DecrementTask ==
  /\ Handles("SessionCloser")
  /\ D!Current \in {AgentResult, AgentResultDone}
  /\ pending' = IF D!Current = AgentResultDone /\ pending > 0 THEN pending - 1 ELSE pending
  /\ UNCHANGED <<log, next, scpc, known, ending, transportVars, requestVars, answerVars>>

(* handleCloseAction returns when it knows no session, and starts to wait  *)
(* for the tasks of the one it found.                                      *)
CloseActionWaits ==
  /\ Handles("SessionCloser")
  /\ D!Current = SessionClose
  /\ ending' = known
  /\ UNCHANGED <<log, next, scpc, known, pending, transportVars, requestVars, answerVars>>

(* The tasks are done, or 30 seconds are over: the connection is closed.   *)
CloseActionCloses ==
  /\ ending
  /\ D!HandlerReturns
  /\ ssClosed' = TRUE
  /\ IF ssClosed THEN UNCHANGED transportVars ELSE T!Close
  /\ known' = FALSE /\ pending' = 0 /\ ending' = FALSE
  /\ UNCHANGED <<log, next, scpc, hpc, clientLeft, answerVars>>

(* A logged request finds no function of the application's to call.        *)
ServerSessionHandle ==
  /\ Handles("ServerSession")
  /\ UNCHANGED <<log, next, scpc, transportVars, closerVars, requestVars, answerVars>>

(* ServerSession.Send checks closed, lets go of its lock and writes; the   *)
(* write may fail when the client has left.                                *)
ResultCallbackHandle ==
  /\ Handles("AgentResultCallback")
  /\ writing' = ~ssClosed
  /\ UNCHANGED <<log, next, scpc, transportVars, closerVars, requestVars, replies, reached>>

WriteAnswer ==
  /\ writing
  /\ writing' = FALSE
  /\ \E written \in IF clientLeft THEN BOOLEAN ELSE {TRUE} :
       /\ replies' = IF written THEN Append(replies, D!Current.answer) ELSE replies
       /\ reached' = IF written THEN Len(received) + 1 ELSE reached
  /\ UNCHANGED <<readerVars, consumerVars, transportVars, closerVars, requestVars>>

HandlerReturns ==
  /\ ~ending
  /\ ~writing
  /\ D!HandlerReturns
  /\ UNCHANGED <<log, next, scpc, transportVars, closerVars, requestVars, answerVars>>

ConsumerStep ==
  \/ Consumes
  \/ IncrementTask \/ IncrementTaskCrashes \/ DecrementTask
  \/ CloseActionWaits \/ CloseActionCloses
  \/ ServerSessionHandle
  \/ ResultCallbackHandle \/ WriteAnswer
  \/ HandlerReturns
-----------------------------------------------------------------------------
Next ==
  /\ D!Running
  /\ \/ ReaderStep
     \/ HttpStep
     \/ ClientLeaves
     \/ ConnectionRead
     \/ ConsumerStep

Spec == Init /\ [][Next]_vars

(* The goroutines go on; the client need not do anything.  The reader of   *)
(* the connection is left out: nothing waits for it.                       *)
Fairness ==
  /\ WF_vars(D!Running /\ ReaderStep)
  /\ WF_vars(D!Running /\ HttpStep)
  /\ WF_vars(D!Running /\ ConsumerStep)

FairSpec == Spec /\ Fairness
-----------------------------------------------------------------------------
(* Properties.                                                             *)

(* The consumer is handed what follows the first action of the log, up to  *)
(* its next close, nothing twice, left out or out of order; what it never  *)
(* gets is what the channel still held when it was closed: at most a       *)
(* buffer full (storage.go, readFromStorage and Receive).                  *)
FollowsLog ==
  LET given == received \o buf
      AtClose == given # <<>> /\ given[Len(given)] = SessionClose
  IN  /\ given = SubSeq(log, 2, Len(given) + 1)
      /\ \A i \in 1 .. Len(given) - 1 : given[i] # SessionClose
      /\ closed => AtClose \/ Len(given) + 1 >= Len(log)

(* The positions in the log of the answers up to the first close.         *)
Replayable ==
  {i \in 2 .. Len(log) : IsAnswer(log[i]) /\ \A j \in 2 .. i : log[j] # SessionClose}

(* The client gets the answers as LogReplay says, although the consumer    *)
(* starts before there is a handler and stops before the channel is empty. *)
R == INSTANCE LogReplay WITH
       answers <- [i \in Replayable |-> log[i].answer],
       phase   <- IF clientLeft THEN "left" ELSE IF tClosed THEN "completed" ELSE "open"
ImplementsLogReplay == R!Spec

(* The process can end for want of a wait group only in the moment between *)
(* the registration of SessionCloser and Bind (server.go:336).             *)
CrashesOnlyBeforeBind == ~D!Running => hpc = "connect"

(* The consumer waits 30 seconds in handleCloseAction only in a log that   *)
(* has a task without a Done: that of a session whose client left, with a  *)
(* later session of the same id behind it (server.go, handleCloseAction).  *)
Count(a) == Cardinality({i \in DOMAIN received : received[i] = a})
WaitsOnlyForAbandoned ==
  ending /\ pending > 0 => Count(EventStreamCall) > Count(AgentResultDone)

(* When the HTTP handler has returned, one answer may still be written,    *)
(* with a ResponseWriter that net/http has taken back: no second one is    *)
(* (server.go, ServerSession.Send and Close).                              *)
HttpOver == hpc \in {"returned", "panicked"}
OneLateWrite == [][HttpOver => (writing' => writing)]_vars

(* Although nobody closes a replay session, its reader and its consumer    *)
(* come to an end by themselves (storage.go, readFromStorage); the two     *)
(* goroutines that wait for its stopChans, which are left out, do not.     *)
ReplayEnds == <>((scpc = "done" /\ cpc = "done") \/ ~D!Running)

(* The close of a replayed log ends the request, wherever its handler is,  *)
(* ServeHTTP included (server.go, handleCloseAction; sse_transport.go).    *)
CloseEndsRequest == ending ~> (HttpOver \/ ~D!Running)

(* handler.go:17 says of AgentResultCallbackHandler: "用于重放场景，消费所有从  *)
(* ActionStorage 中读取的 AgentResultAction" (for replays: consumes all the  *)
(* AgentResultActions read from the ActionStorage).                        *)
AllReadIsAnswered ==
  cpc = "done" /\ ~clientLeft =>
    IsSelection(replies, [i \in DOMAIN pushed |-> pushed[i].answer],
                {i \in DOMAIN pushed : IsAnswer(pushed[i])})
=============================================================================
