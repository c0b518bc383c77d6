-------------------------- MODULE MCSessionManager --------------------------
(* Requests of one session id and one of another for TLC.                  *)
EXTENDS SessionManager

CONSTANTS r1, r2, r3, id1, id2

MCOneId == [r \in Requests |-> id1]
MCTwoIds == [r \in Requests |-> IF r = r3 THEN id2 ELSE id1]
=============================================================================
