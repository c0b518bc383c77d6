----------------------------- MODULE ReplyStream -----------------------------
(***************************************************************************)
(* What one live session owes the client whose request it serves: the      *)
(* events the agent produces are answered in the order in which they were  *)
(* produced, each at most once; an event the output handler fails on is    *)
(* not answered; the server ends the exchange by itself only when every    *)
(* event was answered or failed.  A client that leaves forfeits answers,   *)
(* but never their order.                                                  *)
(***************************************************************************)
EXTENDS Naturals, Sequences

VARIABLES
  produced,    (* how many events the agent has produced                     *)
  replies,     (* the numbers of the events answered to the client, in order *)
  failed,      (* the numbers of the events that failed                      *)
  phase        (* "open", "completed" by the server or "left" by the client  *)

vars == <<produced, replies, failed, phase>>

Init ==
  /\ produced = 0
  /\ replies = <<>>
  /\ failed = {}
  /\ phase = "open"

Answered == {replies[i] : i \in DOMAIN replies}

Produce ==
  /\ phase # "completed"
  /\ produced' = produced + 1
  /\ UNCHANGED <<replies, failed, phase>>

Fail(e) ==
  /\ phase # "completed"
  /\ e \in 1 .. produced \ (failed \cup Answered)
  /\ failed' = failed \cup {e}
  /\ UNCHANGED <<produced, replies, phase>>

(* Answers skip only failed events, unless the client has left.            *)
Reply(e) ==
  /\ phase # "completed"
  /\ e \in 1 .. produced \ failed
  /\ \A d \in Answered : d < e
  /\ phase = "open" => 1 .. e - 1 \subseteq Answered \cup failed
  /\ replies' = Append(replies, e)
  /\ UNCHANGED <<produced, failed, phase>>

Complete ==
  /\ phase = "open"
  /\ 1 .. produced = Answered \cup failed
  /\ phase' = "completed"
  /\ UNCHANGED <<produced, replies, failed>>

Leave ==
  /\ phase # "left"
  /\ phase' = "left"
  /\ UNCHANGED <<produced, replies, failed>>

Next ==
  \/ Produce
  \/ \E e \in 1 .. produced : Fail(e) \/ Reply(e)
  \/ Complete
  \/ Leave

Spec == Init /\ [][Next]_vars
=============================================================================
