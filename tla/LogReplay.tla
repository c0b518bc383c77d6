------------------------------ MODULE LogReplay ------------------------------
(***************************************************************************)
(* What the replay of a log owes the client that asked for it: the answers *)
(* come in the order of the log with no gap between them; the server ends  *)
(* the exchange by itself only when the last logged answer was given, or   *)
(* when none was.  How many answers are missing at the beginning, and      *)
(* whether the exchange is ended at all, it does not say.                  *)
(***************************************************************************)
EXTENDS Naturals, Sequences

VARIABLES
  answers,     (* answers[i]: the answer at position i of the log, for each  *)
               (* position up to the first close that holds one              *)
  reached,     (* the position of the last answer given, 0 when none was     *)
  replies,     (* the answers given to the client, in order                  *)
  phase        (* "open", "completed" by the server or "left" by the client  *)

vars == <<answers, reached, replies, phase>>

Init ==
  /\ reached = 0
  /\ replies = <<>>
  /\ phase = "open"

(* The first answer may be any; then the next one, or, when the client is  *)
(* gone, a later one.                                                      *)
Reply(i) ==
  /\ phase # "completed"
  /\ i > reached
  /\ phase = "open" /\ reached > 0 => \A j \in DOMAIN answers : j < i => j <= reached
  /\ replies' = Append(replies, answers[i])
  /\ reached' = i
  /\ UNCHANGED <<answers, phase>>

Complete ==
  /\ phase = "open"
  /\ reached > 0 => \A j \in DOMAIN answers : j <= reached
  /\ phase' = "completed"
  /\ UNCHANGED <<answers, reached, replies>>

Leave ==
  /\ phase # "left"
  /\ phase' = "left"
  /\ UNCHANGED <<answers, reached, replies>>

Next ==
  \/ \E i \in DOMAIN answers : Reply(i)
  \/ Complete
  \/ Leave

Spec == Init /\ [][Next]_vars
=============================================================================
