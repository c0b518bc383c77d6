---------------------------- MODULE MCDispatcher ----------------------------
(***************************************************************************)
(* Small instances of Dispatcher: a request goroutine with a context of    *)
(* its own, a stream goroutine tied to the consumer's context, a handler   *)
(* of every action that sends nothing (the storage) and one that answers   *)
(* what it handles by sending to its own bus.                              *)
(***************************************************************************)
EXTENDS Dispatcher, TLC

CONSTANTS request, event, reply, storage, worker, reader, stream, consumer

MCActions == {request, event, reply}
MCHandlers == {storage, worker}
MCSupports == storage :> {} @@ worker :> {request, event}
MCEmits ==
  storage :> [a \in MCActions |-> {<<>>}] @@
  worker  :> (request :> {<<reply, reply>>, <<>>} @@ event :> {<<reply>>}
              @@ reply :> {<<>>})
MCSenders == {reader, stream}
MCScripts == reader :> {<<request>>} @@ stream :> {<<event, event>>, <<event>>}
MCTied == {stream}

(* One handler and one event less, for the runs with two closers.          *)
MCWorker == {worker}
MCShortScripts == reader :> {<<request>>} @@ stream :> {<<event>>}
=============================================================================
