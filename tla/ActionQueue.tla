----------------------------- MODULE ActionQueue -----------------------------
(***************************************************************************)
(* What the channel and the dispatcher of one session promise together to  *)
(* the code that sends and handles actions: accepted actions reach the     *)
(* handlers one at a time, in the order in which they were accepted, each  *)
(* at most once, until the session ends; a session that is asked to close  *)
(* does end, and nothing is handled afterwards.  What was accepted and not *)
(* yet handed out when it ends is lost: the code promises nothing for it.  *)
(***************************************************************************)
EXTENDS Naturals, Sequences

CONSTANT Actions    (* the actions a program may send *)

VARIABLES
  accepted,    (* the actions Send accepted, in the order it accepted them   *)
  delivered,   (* the actions handed to the handlers, in that order          *)
  closing,     (* has the session been asked to close?                       *)
  ended        (* nothing is handed out any more                             *)

vars == <<accepted, delivered, closing, ended>>

Init ==
  /\ accepted = <<>>
  /\ delivered = <<>>
  /\ closing = FALSE
  /\ ended = FALSE

(* Send may still accept while, and after, the session closes.             *)
Accept ==
  /\ \E a \in Actions : accepted' = Append(accepted, a)
  /\ UNCHANGED <<delivered, closing, ended>>

(* The oldest action that was not handed out yet is handed out.            *)
Deliver ==
  /\ ~ended
  /\ Len(delivered) < Len(accepted)
  /\ delivered' = Append(delivered, accepted[Len(delivered) + 1])
  /\ UNCHANGED <<accepted, closing, ended>>

RequestClose ==
  /\ ~closing
  /\ closing' = TRUE
  /\ UNCHANGED <<accepted, delivered, ended>>

End ==
  /\ closing
  /\ ~ended
  /\ ended' = TRUE
  /\ UNCHANGED <<accepted, delivered, closing>>

Next == Accept \/ Deliver \/ RequestClose \/ End

Safety == Init /\ [][Next]_vars

Spec == Safety /\ WF_vars(End)
=============================================================================
