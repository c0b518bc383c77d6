--------------------------- MODULE MCStorageReplay ---------------------------
(***************************************************************************)
(* Logs for TLC: every beginning of the log of a session that answered two *)
(* events, the second after the stream's Done; the log of a session whose  *)
(* request failed; that of a session whose client left and one of the same *)
(* id behind it; those of two sessions of one id that ended one after the  *)
(* other.                                                                  *)
(***************************************************************************)
EXTENDS StorageReplay

Complete ==
  <<UserRequest, EventStreamCall, AgentResult, ResultCallback(1), AgentResult,
    AgentResultDone, ResultCallback(2), SessionClose>>
Beginnings == {SubSeq(Complete, 1, n) : n \in 0 .. Len(Complete)}

(* Nothing of this one could be written but its close.                     *)
Mute == <<SessionClose>>

Refused == <<UserRequest, ProcessingError, SessionClose>>

Answered ==
  <<UserRequest, EventStreamCall, AgentResult, AgentResultDone, ResultCallback(1),
    SessionClose>>
Abandoned == <<UserRequest, EventStreamCall>> \o Answered
Repeated == Refused \o Answered

MCLogs == Beginnings \cup {Mute, Refused, Abandoned, Repeated}
=============================================================================
