---------------------------- MODULE SSETransport ----------------------------
(***************************************************************************)
(* The transport of one HTTP request: SSETransport, the goroutine that     *)
(* reads its connection (ConnectAndBind), and the ServeHTTP that pushes    *)
(* the body of the request to it.  Connect has run.  Close holds the       *)
(* mutex, so it is one step; ServeHTTP lets go of the mutex after its      *)
(* check, reads the field incoming again without it, and only then selects *)
(* between the channel it read and done.                                   *)
(***************************************************************************)
EXTENDS Naturals

VARIABLES
  tClosed,     (* closed is set, done and the channel are closed, and the    *)
               (* field incoming is nil again                                *)
  queued,      (* the messages in the incoming channel; it has room for 100  *)
               (* and a request pushes one                                   *)
  ppc,         (* where ServeHTTP is                                         *)
  rpc          (* where the reader of the connection is                      *)

vars == <<tClosed, queued, ppc, rpc>>

TypeOK ==
  /\ tClosed \in BOOLEAN
  /\ queued \in 0 .. 1
  /\ ppc \in {"idle", "push", "select", "selectNil", "accept", "done", "panicked"}
  /\ rpc \in {"off", "read", "select", "gone"}

Init ==
  /\ tClosed = FALSE
  /\ queued = 0
  /\ ppc = "idle"
  /\ rpc = "off"
-----------------------------------------------------------------------------
(* ServeHTTP.                                                              *)

(* Connect starts the reader.                                              *)
StartReader ==
  /\ rpc = "off"
  /\ rpc' = "read"
  /\ UNCHANGED <<tClosed, queued, ppc>>

(* A transport that was closed has no incoming channel and the request is  *)
(* refused, and so is one that is not a POST or does not parse.            *)
ServeRefuses ==
  /\ ppc = "idle"
  /\ ppc' = "done"
  /\ UNCHANGED <<tClosed, queued, rpc>>

ServeParses ==
  /\ ppc = "idle"
  /\ ~tClosed
  /\ ppc' = "push"
  /\ UNCHANGED <<tClosed, queued, rpc>>

(* The select evaluates t.incoming, without the lock.                      *)
EvaluateIncoming ==
  /\ ppc = "push"
  /\ ppc' = IF tClosed THEN "selectNil" ELSE "select"
  /\ UNCHANGED <<tClosed, queued, rpc>>

PushAccepted ==
  /\ ppc = "select"
  /\ ~tClosed
  /\ queued' = queued + 1
  /\ ppc' = "accept"
  /\ UNCHANGED <<tClosed, rpc>>

(* The channel was closed since: either case of the select may be taken.   *)
PushPanics ==
  /\ ppc = "select"
  /\ tClosed
  /\ ppc' = "panicked"
  /\ UNCHANGED <<tClosed, queued, rpc>>

(* Mutant: ServeHTTP without the case of done.                             *)
PushRefusedNoDone ==
  /\ ppc = "push"
  /\ tClosed
  /\ ppc' = "done"
  /\ UNCHANGED <<tClosed, queued, rpc>>

PushRefused ==
  /\ ppc \in {"select", "selectNil"}
  /\ tClosed
  /\ ppc' = "done"
  /\ UNCHANGED <<tClosed, queued, rpc>>

WriteAccepted ==
  /\ ppc = "accept"
  /\ ppc' = "done"
  /\ UNCHANGED <<tClosed, queued, rpc>>

ServeStep ==
  \/ ServeRefuses \/ ServeParses \/ EvaluateIncoming
  \/ PushAccepted \/ PushPanics \/ PushRefused \/ WriteAccepted
-----------------------------------------------------------------------------
(* The reader of the connection, and Close.                                *)

ReadCheck ==
  /\ rpc = "read"
  /\ rpc' = IF tClosed THEN "gone" ELSE "select"
  /\ UNCHANGED <<tClosed, queued, ppc>>

(* A message is taken also out of a channel that was closed; Handle        *)
(* returned, and the goroutine reads on or ends with the error.            *)
ReadMessage(ok) ==
  /\ rpc = "select"
  /\ queued > 0
  /\ queued' = queued - 1
  /\ rpc' = IF ok THEN "read" ELSE "gone"
  /\ UNCHANGED <<tClosed, ppc>>

ReadFails(requestDone) ==
  /\ rpc = "select"
  /\ requestDone \/ tClosed
  /\ rpc' = "gone"
  /\ UNCHANGED <<tClosed, queued, ppc>>

Close ==
  /\ tClosed' = TRUE
  /\ UNCHANGED <<queued, ppc, rpc>>
=============================================================================
