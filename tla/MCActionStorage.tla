--------------------------- MODULE MCActionStorage ---------------------------
(***************************************************************************)
(* What consumers dispatch, for TLC: the logs of sessions whose request    *)
(* was refused or answered, with payloads that can and cannot be written.  *)
(* Two sessions have one id, as when a client comes back after its         *)
(* disconnect or two first requests arrive at once, a third has another.   *)
(***************************************************************************)
EXTENDS ActionStorage

CONSTANTS c1, c2, c3, q1, id1, id2

MCIdOf == [p \in Consumers \cup Replays |-> IF p = c3 THEN id2 ELSE id1]

Act(id, type, payload, error, done) ==
  [type |-> type, session |-> id, payload |-> payload, error |-> error, done |-> done]

Refused(id, request) ==
  <<Act(id, "UserRequest", request, "none", FALSE),
    Act(id, "ProcessingError", request, "spoken", FALSE),
    Act(id, "SessionClose", "plain", "none", FALSE)>>

Answered(id, request, answer, error) ==
  <<Act(id, "UserRequest", request, "none", FALSE),
    Act(id, "EventStreamCall", "opaque", "none", FALSE),
    Act(id, "AgentResult", answer, error, FALSE),
    Act(id, "AgentResultCallback", answer, error, FALSE),
    Act(id, "AgentResult", "nil", "mute", TRUE),
    Act(id, "SessionClose", "plain", "none", FALSE)>>

(* The second session of id1 answers with what is read back as a float.    *)
MCScripts ==
  [c \in Consumers |->
    CASE c = c1 -> {Refused(id1, "opaque"), Answered(id1, "struct", "opaque", "none"),
                    Answered(id1, "opaque", "struct", "spoken")}
      [] c = c2 -> {SubSeq(Answered(id1, "opaque", "bigint", "mute"), 2, 4)}
      [] OTHER  -> {SubSeq(Refused(id2, "plain"), 1, 1)}]
=============================================================================
