------------------------------ MODULE Dispatcher ------------------------------
(***************************************************************************)
(* One session's action bus: the buffered DefaultChannel, the Dispatcher   *)
(* with its consumer goroutine, the goroutines that Send to it and the     *)
(* goroutines that run Session.Close.  The locks of the Close functions    *)
(* are commented out in the code, and Send and Receive release theirs      *)
(* before they act on what they read, so a step here is one read or one    *)
(* write of the shared state.  A read of a closed flag that races with its *)
(* write is a step before or after the write: both outcomes are explored.  *)
(***************************************************************************)
EXTENDS Integers, Sequences

CONSTANTS
  Actions,     (* the actions that travel on the bus                         *)
  Handlers,    (* the handlers that may be registered                        *)
  Supports,    (* Supports[h]: the actions h registered for; {} means all    *)
  Emits,       (* Emits[h][a]: the sequences of actions h may send for a     *)
  Senders,     (* goroutines, other than the consumer, that call Send        *)
  Scripts,     (* Scripts[s]: the sequences of actions s may set out to send *)
  Tied,        (* the senders whose context is the consumer's context        *)
  Closers,     (* goroutines that call Session.Close                         *)
  Consumer,    (* the goroutine that runs Dispatcher.consume                 *)
  BufferSize   (* the buffer size the session manager is configured with     *)

ASSUME DispatcherAssumption ==
  /\ \A h \in Handlers : Supports[h] \subseteq Actions
  /\ \A h \in Handlers : \A a \in Actions : Emits[h][a] \subseteq Seq(Actions)
  /\ \A s \in Senders : Scripts[s] \subseteq Seq(Actions)
  /\ Tied \subseteq Senders
  /\ Consumer \notin Senders
  /\ BufferSize \in Int

Procs == Senders \cup {Consumer}

Capacity == IF BufferSize <= 0 THEN 100 ELSE BufferSize

VARIABLES
  buf,         (* the contents of DefaultChannel.actions                     *)
  chClosed,    (* DefaultChannel.closed                                      *)
  chShut,      (* close(c.actions) has run                                   *)
  dClosed,     (* Dispatcher.closed                                          *)
  stopped,     (* close(d.stopChan) has run                                  *)
  ctxDone,     (* the context of consume is cancelled                        *)
  registered,  (* Dispatcher.handlers, in registration order                 *)
  cpc,         (* where the consumer is                                      *)
  todo,        (* the handlers the consumer has still to go through          *)
  begun,       (* the senders that have started                              *)
  cancelled,   (* the senders whose own context is cancelled                 *)
  out,         (* out[p]: the actions p has still to Send, the current first *)
  spc,         (* spc[p]: where p is in Dispatcher.Send                      *)
  sClosed,     (* Session.closed                                             *)
  kpc,         (* kpc[k]: where k is in Session.Close                        *)
  crashed,     (* the goroutine whose panic ended the process, if any        *)
  accepted,    (* history: the actions Send accepted                         *)
  received     (* history: the actions the consumer took from the channel    *)

chanVars   == <<buf, chClosed, chShut>>
consVars   == <<cpc, todo, received>>
sendVars   == <<begun, cancelled, out, spc, accepted>>
closeVars  == <<dClosed, stopped, sClosed, kpc>>
vars == <<chanVars, consVars, sendVars, closeVars, ctxDone, registered, crashed>>

ConsumerAt == {"check", "poll", "select", "snapshot", "dispatch", "handling",
               "leaving", "left", "done"}
SendAt     == {"idle", "channel", "select"}
CloserAt   == {"idle", "mark", "dispatcher", "markDispatcher", "stop", "wait",
               "channel", "markChannel", "shut", "returned", "panicked"}

TypeOK ==
  /\ buf \in Seq(Actions) /\ Len(buf) <= Capacity
  /\ chClosed \in BOOLEAN /\ chShut \in BOOLEAN
  /\ dClosed \in BOOLEAN /\ stopped \in BOOLEAN
  /\ ctxDone \in BOOLEAN /\ sClosed \in BOOLEAN
  /\ registered \in Seq(Handlers)
  /\ cpc \in ConsumerAt
  /\ todo \in Seq(Handlers)
  /\ begun \subseteq Senders
  /\ cancelled \subseteq Senders \ Tied
  /\ out \in [Procs -> Seq(Actions)]
  /\ spc \in [Procs -> SendAt]
  /\ kpc \in [Closers -> CloserAt]
  /\ crashed \subseteq Procs
  /\ accepted \in Seq(Actions)
  /\ received \in Seq(Actions)

Init ==
  /\ buf = <<>>
  /\ chClosed = FALSE /\ chShut = FALSE
  /\ dClosed = FALSE /\ stopped = FALSE /\ sClosed = FALSE
  /\ ctxDone = FALSE
  /\ registered = <<>>
  /\ cpc = "check"                     \* NewDispatcher starts the consumer
  /\ todo = <<>>
  /\ begun = {} /\ cancelled = {}
  /\ out = [p \in Procs |-> <<>>]
  /\ spc = [p \in Procs |-> "idle"]
  /\ kpc = [k \in Closers |-> "idle"]
  /\ crashed = {}
  /\ accepted = <<>> /\ received = <<>>
-----------------------------------------------------------------------------
(* Registration.                                                           *)

(* Dispatcher.Register: a closed dispatcher refuses the handler.  The code *)
(* registers every handler once.                                           *)
Register(h) ==
  /\ ~dClosed
  /\ \A i \in DOMAIN registered : registered[i] # h
  /\ registered' = Append(registered, h)
  /\ UNCHANGED <<chanVars, consVars, sendVars, closeVars, ctxDone, crashed>>
-----------------------------------------------------------------------------
(* Dispatcher.Send and DefaultChannel.Send.                                *)

(* A goroutine starts with a sequence of actions to send.                  *)
Begin(s) ==
  /\ s \notin begun
  /\ begun' = begun \cup {s}
  /\ \E acts \in Scripts[s] : out' = [out EXCEPT ![s] = acts]
  /\ UNCHANGED <<chanVars, consVars, closeVars, ctxDone, registered, crashed,
                 cancelled, spc, accepted>>

(* The context a sender of its own got from its caller is cancelled.       *)
CancelCaller(s) ==
  /\ s \in Senders \ (Tied \cup cancelled)
  /\ cancelled' = cancelled \cup {s}
  /\ UNCHANGED <<chanVars, consVars, closeVars, ctxDone, registered, crashed,
                 begun, out, spc, accepted>>

(* Mutant: the handlers and the stream are given a background context.     *)
CtxDoneBackground(p) == p \in cancelled

CtxDone(p) == IF p \in Tied \cup {Consumer} THEN ctxDone ELSE p \in cancelled

(* Send returned an error.  A handler gives up the rest of what it had to  *)
(* send; a goroutine may go on with a later action of its script.          *)
SendFails(p) ==
  /\ spc' = [spc EXCEPT ![p] = "idle"]
  /\ IF p = Consumer
       THEN out' = [out EXCEPT ![p] = <<>>]
       ELSE \E i \in 2 .. Len(out[p]) + 1 :
              out' = [out EXCEPT ![p] = SubSeq(@, i, Len(@))]
  /\ UNCHANGED <<begun, cancelled, accepted>>

(* Dispatcher.Send reads d.closed, and lets go of the lock.                *)
SendCheckDispatcher(p) ==
  /\ spc[p] = "idle"
  /\ out[p] # <<>>
  /\ \/ /\ dClosed
        /\ SendFails(p)
     \/ /\ ~dClosed
        /\ spc' = [spc EXCEPT ![p] = "channel"]
        /\ UNCHANGED <<begun, cancelled, out, accepted>>
  /\ UNCHANGED <<chanVars, consVars, closeVars, ctxDone, registered, crashed>>

(* DefaultChannel.Send reads c.closed, and lets go of the lock.            *)
SendCheckChannel(p) ==
  /\ spc[p] = "channel"
  /\ \/ /\ chClosed
        /\ SendFails(p)
     \/ /\ ~chClosed
        /\ spc' = [spc EXCEPT ![p] = "select"]
        /\ UNCHANGED <<begun, cancelled, out, accepted>>
  /\ UNCHANGED <<chanVars, consVars, closeVars, ctxDone, registered, crashed>>

(* Mutant: a channel that grows instead of blocking the sender.            *)
SendAcceptedUnbounded(p) ==
  /\ spc[p] = "select"
  /\ ~chShut
  /\ buf' = Append(buf, Head(out[p]))
  /\ accepted' = Append(accepted, Head(out[p]))
  /\ out' = [out EXCEPT ![p] = Tail(@)]
  /\ spc' = [spc EXCEPT ![p] = "idle"]
  /\ UNCHANGED <<chClosed, chShut, consVars, closeVars, ctxDone, registered,
                 crashed, begun, cancelled>>

(* The select of DefaultChannel.Send.  It may take any case that is ready: *)
(* room in the buffer, a context that is done, or a closed Go channel, on  *)
(* which sending panics and ends the process.                              *)
SendAccepted(p) ==
  /\ spc[p] = "select"
  /\ ~chShut
  /\ Len(buf) < Capacity
  /\ buf' = Append(buf, Head(out[p]))
  /\ accepted' = Append(accepted, Head(out[p]))
  /\ out' = [out EXCEPT ![p] = Tail(@)]
  /\ spc' = [spc EXCEPT ![p] = "idle"]
  /\ UNCHANGED <<chClosed, chShut, consVars, closeVars, ctxDone, registered,
                 crashed, begun, cancelled>>

SendCancelled(p) ==
  /\ spc[p] = "select"
  /\ CtxDone(p)
  /\ SendFails(p)
  /\ UNCHANGED <<chanVars, consVars, closeVars, ctxDone, registered, crashed>>

SendPanics(p) ==
  /\ spc[p] = "select"
  /\ chShut
  /\ crashed' = {p}
  /\ UNCHANGED <<chanVars, consVars, sendVars, closeVars, ctxDone, registered>>

SendStep(p) ==
  \/ SendCheckDispatcher(p)
  \/ SendCheckChannel(p)
  \/ SendAccepted(p)
  \/ SendCancelled(p)
  \/ SendPanics(p)
-----------------------------------------------------------------------------
(* Dispatcher.consume and DefaultChannel.Receive.                          *)

ConsumerKeeps ==
  UNCHANGED <<chClosed, chShut, sendVars, closeVars, registered, crashed>>

(* The loop reads d.closed, then Receive reads c.closed.                   *)
ConsumeCheck ==
  /\ cpc = "check"
  /\ cpc' = IF dClosed THEN "leaving" ELSE "poll"
  /\ ConsumerKeeps /\ UNCHANGED <<buf, todo, received, ctxDone>>

ReceiveCheck ==
  /\ cpc = "poll"
  /\ cpc' = IF chClosed THEN "leaving" ELSE "select"
  /\ ConsumerKeeps /\ UNCHANGED <<buf, todo, received, ctxDone>>

(* Mutant: an action that stays in the channel.                            *)
ReceivePeeks ==
  /\ cpc = "select"
  /\ buf # <<>>
  /\ received' = Append(received, Head(buf))
  /\ cpc' = "snapshot"
  /\ ConsumerKeeps /\ UNCHANGED <<buf, todo, ctxDone>>

(* The select of Receive: the oldest buffered action, also out of a closed *)
(* Go channel ...                                                          *)
Receive ==
  /\ cpc = "select"
  /\ buf # <<>>
  /\ received' = Append(received, Head(buf))
  /\ buf' = Tail(buf)
  /\ cpc' = "snapshot"
  /\ ConsumerKeeps /\ UNCHANGED <<todo, ctxDone>>

(* Mutant: Receive without the case of its context.                        *)
ReceiveFailsNoContext ==
  /\ cpc = "select"
  /\ chShut /\ buf = <<>>
  /\ cpc' = "leaving"
  /\ ConsumerKeeps /\ UNCHANGED <<buf, todo, received, ctxDone>>

(* ... or the end of the loop.                                             *)
ReceiveFails ==
  /\ cpc = "select"
  /\ ctxDone \/ (chShut /\ buf = <<>>)
  /\ cpc' = "leaving"
  /\ ConsumerKeeps /\ UNCHANGED <<buf, todo, received, ctxDone>>

Current == received[Len(received)]

Wants(h, a) == Supports[h] = {} \/ a \in Supports[h]

(* The handlers registered at this moment are copied under the lock.       *)
Snapshot ==
  /\ cpc = "snapshot"
  /\ todo' = registered
  /\ cpc' = "dispatch"
  /\ ConsumerKeeps /\ UNCHANGED <<buf, received, ctxDone>>

(* The next handler of the copy is passed over, or its Handle is called    *)
(* and decides what it will send; the handlers of one action run in        *)
(* registration order, in the consumer goroutine.                          *)
PassOver ==
  /\ cpc = "dispatch"
  /\ todo # <<>>
  /\ ~Wants(Head(todo), Current)
  /\ todo' = Tail(todo)
  /\ ConsumerKeeps /\ UNCHANGED <<buf, cpc, received, ctxDone>>

Invoke(acts) ==
  /\ cpc = "dispatch"
  /\ todo # <<>>
  /\ Wants(Head(todo), Current)
  /\ out' = [out EXCEPT ![Consumer] = acts]
  /\ cpc' = "handling"
  /\ UNCHANGED <<chanVars, closeVars, registered, crashed, todo, received,
                 ctxDone, begun, cancelled, spc, accepted>>

InvokeNext == /\ cpc = "dispatch" /\ todo # <<>>
              /\ \E acts \in Emits[Head(todo)][Current] : Invoke(acts)

(* Handle returns; its error, if any, is only logged.                      *)
HandlerReturns ==
  /\ cpc = "handling"
  /\ out[Consumer] = <<>>
  /\ spc[Consumer] = "idle"
  /\ todo' = Tail(todo)
  /\ cpc' = "dispatch"
  /\ ConsumerKeeps /\ UNCHANGED <<buf, received, ctxDone>>

DispatchEnds ==
  /\ cpc = "dispatch"
  /\ todo = <<>>
  /\ cpc' = "check"
  /\ ConsumerKeeps /\ UNCHANGED <<buf, todo, received, ctxDone>>

(* The deferred calls: cancel(), then wg.Done().                           *)
ConsumerCancels ==
  /\ cpc = "leaving"
  /\ ctxDone' = TRUE
  /\ cpc' = "left"
  /\ ConsumerKeeps /\ UNCHANGED <<buf, todo, received>>

ConsumerDone ==
  /\ cpc = "left"
  /\ cpc' = "done"
  /\ ConsumerKeeps /\ UNCHANGED <<buf, todo, received, ctxDone>>

ConsumerStep ==
  \/ ConsumeCheck \/ ReceiveCheck
  \/ Receive \/ ReceiveFails
  \/ Snapshot
  \/ PassOver \/ InvokeNext \/ HandlerReturns \/ DispatchEnds
  \/ ConsumerCancels \/ ConsumerDone

(* Mutant: the context is cancelled when the channel is closed.            *)
WatchChannel ==
  /\ chShut
  /\ ~ctxDone
  /\ ctxDone' = TRUE
  /\ UNCHANGED <<chanVars, consVars, sendVars, closeVars, registered, crashed>>

(* The goroutine that cancels the consumer's context when stopChan closes. *)
Watch ==
  /\ stopped
  /\ ~ctxDone
  /\ ctxDone' = TRUE
  /\ UNCHANGED <<chanVars, consVars, sendVars, closeVars, registered, crashed>>
-----------------------------------------------------------------------------
(* Session.Close, with Dispatcher.Close and DefaultChannel.Close inlined.  *)

CloserKeeps ==
  UNCHANGED <<buf, consVars, sendVars, ctxDone, registered, crashed>>

Goto(k, from, to) ==
  /\ kpc[k] = from
  /\ kpc' = [kpc EXCEPT ![k] = to]
  /\ CloserKeeps

CloseSession(k) ==
  /\ Goto(k, "idle", IF sClosed THEN "returned" ELSE "mark")
  /\ UNCHANGED <<chClosed, chShut, dClosed, stopped, sClosed>>

MarkSession(k) ==
  /\ Goto(k, "mark", "dispatcher")
  /\ sClosed' = TRUE
  /\ UNCHANGED <<chClosed, chShut, dClosed, stopped>>

CloseDispatcher(k) ==
  /\ Goto(k, "dispatcher", IF dClosed THEN "channel" ELSE "markDispatcher")
  /\ UNCHANGED <<chClosed, chShut, dClosed, stopped, sClosed>>

MarkDispatcher(k) ==
  /\ Goto(k, "markDispatcher", "stop")
  /\ dClosed' = TRUE
  /\ UNCHANGED <<chClosed, chShut, stopped, sClosed>>

(* Mutants: Dispatcher.Close does not wait for the consumer; it waits only *)
(* for the consumer's context.                                             *)
CloseStopChanNoWait(k) ==
  /\ Goto(k, "stop", IF stopped THEN "panicked" ELSE "channel")
  /\ stopped' = TRUE
  /\ UNCHANGED <<chClosed, chShut, dClosed, sClosed>>

AwaitContext(k) ==
  /\ ctxDone
  /\ Goto(k, "wait", "channel")
  /\ UNCHANGED <<chClosed, chShut, dClosed, stopped, sClosed>>

(* close(d.stopChan) panics when it is closed already.                     *)
CloseStopChan(k) ==
  /\ Goto(k, "stop", IF stopped THEN "panicked" ELSE "wait")
  /\ stopped' = TRUE
  /\ UNCHANGED <<chClosed, chShut, dClosed, sClosed>>

AwaitConsumer(k) ==
  /\ cpc = "done"
  /\ Goto(k, "wait", "channel")
  /\ UNCHANGED <<chClosed, chShut, dClosed, stopped, sClosed>>

CloseChannel(k) ==
  /\ Goto(k, "channel", IF chClosed THEN "returned" ELSE "markChannel")
  /\ UNCHANGED <<chClosed, chShut, dClosed, stopped, sClosed>>

MarkChannel(k) ==
  /\ Goto(k, "markChannel", "shut")
  /\ chClosed' = TRUE
  /\ UNCHANGED <<chShut, dClosed, stopped, sClosed>>

(* close(c.actions) panics when it is closed already.                      *)
ShutChannel(k) ==
  /\ Goto(k, "shut", IF chShut THEN "panicked" ELSE "returned")
  /\ chShut' = TRUE
  /\ UNCHANGED <<chClosed, dClosed, stopped, sClosed>>

CloserStep(k) ==
  \/ MarkSession(k) \/ CloseDispatcher(k) \/ MarkDispatcher(k)
  \/ CloseStopChan(k) \/ AwaitConsumer(k) \/ CloseChannel(k)
  \/ MarkChannel(k) \/ ShutChannel(k)
-----------------------------------------------------------------------------
(* A panic outside an HTTP handler goroutine ends the process.             *)
Running == crashed = {}

Next ==
  /\ Running
  /\ \/ \E h \in Handlers : Register(h)
     \/ \E s \in Senders : Begin(s) \/ CancelCaller(s)
     \/ \E p \in Procs : SendStep(p)
     \/ ConsumerStep
     \/ Watch
     \/ \E k \in Closers : CloseSession(k) \/ CloserStep(k)

Spec == Init /\ [][Next]_vars

(* Every goroutine that can go on does; nothing makes a goroutine start to *)
(* send, or a session close.                                               *)
Fairness ==
  /\ \A p \in Procs : WF_vars(Running /\ SendStep(p))
  /\ WF_vars(Running /\ ConsumerStep)
  /\ WF_vars(Running /\ Watch)
  /\ \A k \in Closers : WF_vars(Running /\ CloserStep(k))

FairSpec == Spec /\ Fairness
-----------------------------------------------------------------------------
(* Properties.                                                             *)

(* The control that makes every step well defined: whoever is inside Send  *)
(* has an action to send, and had none before it started; the consumer     *)
(* sends only while a handler runs, and a handler runs only for an action  *)
(* that was taken from the channel.                                        *)
Control ==
  /\ \A p \in Procs : spc[p] # "idle" => out[p] # <<>>
  /\ \A s \in Senders \ begun : out[s] = <<>>
  /\ out[Consumer] # <<>> => cpc = "handling"
  /\ cpc = "handling" => todo # <<>>
  /\ cpc \in {"snapshot", "dispatch", "handling"} => received # <<>>

(* What Send accepted is what was received and what is still buffered, in  *)
(* one order.                                                              *)
Conservation == accepted = received \o buf

(* A bus is a queue of actions that is handed out in order, stops once it  *)
(* is asked to close and hands out nothing afterwards.                     *)
AQ == INSTANCE ActionQueue WITH
        delivered <- received,
        closing   <- \E k \in Closers : kpc[k] # "idle",
        ended     <- cpc = "done" \/ ~Running
ImplementsActionQueue == AQ!Spec

(* Session.Close waits for the consumer before it closes the Go channel:   *)
(* a send that panics on it, which ends the process, never cuts short a    *)
(* handler, and never is a handler's own (session.go, Session.Close).      *)
NoHandlerCut == ~Running => cpc = "done"

(* A goroutine that closes the session alone, all others not having begun  *)
(* to, sets the flags and closes the channels in that order; which of them *)
(* have happened is where it stands, and it panics nowhere (session.go,    *)
(* Session.Close; channel.go, the Close methods).                          *)
AfterMark == {"stop", "wait", "channel", "markChannel", "shut", "returned"}
Alone(k) == \A j \in Closers \ {k} : kpc[j] = "idle"
CloseOrder ==
  \A k \in Closers : Alone(k) =>
    /\ dClosed <=> kpc[k] \in AfterMark
    /\ stopped <=> kpc[k] \in AfterMark \ {"stop"}
    /\ chClosed <=> kpc[k] \in {"shut", "returned"}
    /\ chShut <=> kpc[k] = "returned"
    /\ sClosed <=> kpc[k] \notin {"idle", "mark"}
    /\ kpc[k] # "panicked"
    /\ kpc[k] \in AfterMark \ {"stop", "wait"} => cpc = "done"

(* However many goroutines close the session at once, whichever of them    *)
(* return early or panic on a close that was done already, the Go channel  *)
(* gets closed (session.go, Session.Close; channel.go, the Close methods). *)
ChannelGetsShut == (\E k \in Closers : kpc[k] = "mark") ~> (chShut \/ ~Running)

(* Session.Close returns, even when the consumer is stuck in a handler     *)
(* that sends to its own full bus and every other sender is stuck with it  *)
(* (channel.go, the goroutine in consume that cancels the context).        *)
CloseCompletes ==
  \A k \in Closers :
    kpc[k] = "mark" ~> kpc[k] \in {"returned", "panicked"} \/ ~Running

(* A handler or a stream goroutine that is blocked in Send when the        *)
(* session starts to close gets out of it.                                 *)
BlockedSendReleased ==
  \A p \in Tied \cup {Consumer} :
    (spc[p] = "select" /\ dClosed) ~> (spc[p] = "idle" \/ ~Running)

(* channel.go:34 says of DefaultChannel: "使用 buffered channel，支持非阻塞  *)
(* 发送/接收" (a buffered channel, supports non-blocking sending and         *)
(* receiving): a Send that has begun comes back.                           *)
SendDoesNotBlock ==
  \A p \in Procs : (spc[p] = "select") ~> (spc[p] = "idle" \/ ~Running)

(* channel.go:419 says of the wait in Dispatcher.Close: "等待所有 goroutine   *)
(* 完成" (wait for all goroutines to complete): whoever has closed the      *)
(* dispatcher finds its consumer finished.                                 *)
CloseWaitsForConsumer ==
  \A k \in Closers :
    kpc[k] \in {"channel", "markChannel", "shut"} => cpc = "done"
=============================================================================
