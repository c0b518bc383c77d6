--------------------------- MODULE SessionManager ---------------------------
(***************************************************************************)
(* The session manager's map and the HTTP handler goroutines that work on  *)
(* it without a lock: each is one request, looks its session id up, gets a *)
(* new live session or the replay of the one it finds, is served, and at   *)
(* its disconnect closes and deletes what the map then holds for the id.   *)
(* A step is one access to the map or to a Session's closed flag.  What a  *)
(* session does inside is abstracted (Dispatcher, LiveSession and          *)
(* StorageReplay have it): here it is open or closed, and its consumer has *)
(* finished or not.                                                        *)
(***************************************************************************)
CONSTANTS
  Requests,    (* the requests; a live session is named by its request       *)
  Ids,         (* the session ids                                            *)
  IdOf,        (* IdOf[r]: the session id of r                               *)
  None         (* no session                                                 *)

ASSUME SessionManagerAssumption ==
  /\ IdOf \in [Requests -> Ids]
  /\ None \notin Requests

VARIABLES
  allowReplayOnClosed,   (* the option of that name, fixed                   *)
  sessions,    (* sessions[id]: the live session the map holds for id        *)
  pc,          (* pc[r]: where r's goroutine is                              *)
  own,         (* own[r]: what GetOrCreate gave to r                         *)
  found,       (* found[r]: the session r's last lookup found                *)
  closed,      (* the live sessions whose Session.closed is set              *)
  closers,     (* the requests that passed the closed test of Session.Close  *)
  finished,    (* the live sessions whose consumer has finished              *)
  fatal,       (* the runtime has caught an unguarded use of the map         *)
  overlapped   (* history: two calls of the manager ran at the same time     *)

vars == <<allowReplayOnClosed, sessions, pc, own, found, closed, closers, finished,
          fatal, overlapped>>

InGetOrCreate == {"lookup", "found", "forget", "insert"}
InClose       == {"closing", "test", "mark", "shut", "delete"}
Ended         == {"returned", "panicked", "aborted"}

TypeOK ==
  /\ allowReplayOnClosed \in BOOLEAN
  /\ sessions \in [Ids -> Requests \cup {None}]
  /\ pc \in [Requests -> {"idle", "serve"} \cup InGetOrCreate \cup InClose \cup Ended]
  /\ own \in [Requests -> {"nothing", "live", "replay"}]
  /\ found \in [Requests -> Requests \cup {None}]
  /\ closed \subseteq Requests /\ closers \subseteq Requests
  /\ finished \subseteq Requests
  /\ fatal \in BOOLEAN /\ overlapped \in BOOLEAN

Init ==
  /\ allowReplayOnClosed \in BOOLEAN
  /\ sessions = [id \in Ids |-> None]
  /\ pc = [r \in Requests |-> "idle"]
  /\ own = [r \in Requests |-> "nothing"]
  /\ found = [r \in Requests |-> None]
  /\ closed = {} /\ closers = {} /\ finished = {}
  /\ fatal = FALSE /\ overlapped = FALSE
-----------------------------------------------------------------------------
Goto(r, from, to) ==
  /\ pc[r] = from
  /\ pc' = [pc EXCEPT ![r] = to]

(* A call of the manager begins; history records whether another is on.    *)
Inside == {r \in Requests : pc[r] \in InGetOrCreate \cup InClose}
Enter(r, from, to) ==
  /\ Goto(r, from, to)
  /\ overlapped' = (overlapped \/ Inside # {})
-----------------------------------------------------------------------------
(* GetOrCreate.                                                            *)

Arrive(r) ==
  /\ Enter(r, "idle", "lookup")
  /\ UNCHANGED <<allowReplayOnClosed, sessions, own, found, closed, closers, finished, fatal>>

(* Mutant: every request gets a session of its own.                        *)
LookupNothing(r) ==
  /\ Goto(r, "lookup", "insert")
  /\ found' = [found EXCEPT ![r] = None]
  /\ UNCHANGED <<allowReplayOnClosed, sessions, own, closed, closers, finished, fatal, overlapped>>

Lookup(r) ==
  /\ Goto(r, "lookup", IF sessions[IdOf[r]] = None THEN "insert" ELSE "found")
  /\ found' = [found EXCEPT ![r] = sessions[IdOf[r]]]
  /\ UNCHANGED <<allowReplayOnClosed, sessions, own, closed, closers, finished, fatal, overlapped>>

(* An open session is replayed, a closed one only if the option says so.   *)
CreateReplay(r) ==
  /\ Goto(r, "found", "serve")
  /\ found[r] \notin closed \/ allowReplayOnClosed
  /\ own' = [own EXCEPT ![r] = "replay"]
  /\ UNCHANGED <<allowReplayOnClosed, sessions, found, closed, closers, finished, fatal, overlapped>>

RefuseReplay(r) ==
  /\ Goto(r, "found", "forget")
  /\ found[r] \in closed /\ ~allowReplayOnClosed
  /\ UNCHANGED <<allowReplayOnClosed, sessions, own, found, closed, closers, finished, fatal, overlapped>>

Forget(r) ==
  /\ Goto(r, "forget", "insert")
  /\ sessions' = [sessions EXCEPT ![IdOf[r]] = None]
  /\ UNCHANGED <<allowReplayOnClosed, own, found, closed, closers, finished, fatal, overlapped>>

(* A new session is put into the map, whatever the map holds by now.       *)
Insert(r) ==
  /\ Goto(r, "insert", "serve")
  /\ sessions' = [sessions EXCEPT ![IdOf[r]] = r]
  /\ own' = [own EXCEPT ![r] = "live"]
  /\ UNCHANGED <<allowReplayOnClosed, found, closed, closers, finished, fatal, overlapped>>
-----------------------------------------------------------------------------
(* ConnectAndServe after the session was got.                              *)

(* The client leaves or the transport is closed: sm.Close is called.       *)
Disconnect(r) ==
  /\ Enter(r, "serve", "closing")
  /\ UNCHANGED <<allowReplayOnClosed, sessions, own, found, closed, closers, finished, fatal>>

(* ServeHTTP of a replaying request panics on a transport that the replay  *)
(* has closed: the handler ends without sm.Close.                          *)
ServePanics(r) ==
  /\ own[r] = "replay"
  /\ Goto(r, "serve", "aborted")
  /\ UNCHANGED <<allowReplayOnClosed, sessions, own, found, closed, closers, finished, fatal, overlapped>>
-----------------------------------------------------------------------------
(* SessionManager.Close, with Session.Close inlined.                       *)

(* Mutant: the lookup's "exists" is not tested.                            *)
CloseLookupUnchecked(r) ==
  /\ Goto(r, "closing", "test")
  /\ found' = [found EXCEPT ![r] = sessions[IdOf[r]]]
  /\ UNCHANGED <<allowReplayOnClosed, sessions, own, closed, closers, finished, fatal, overlapped>>

CloseLookup(r) ==
  /\ Goto(r, "closing", IF sessions[IdOf[r]] = None THEN "returned" ELSE "test")
  /\ found' = [found EXCEPT ![r] = sessions[IdOf[r]]]
  /\ UNCHANGED <<allowReplayOnClosed, sessions, own, closed, closers, finished, fatal, overlapped>>

(* Session.Close returns at once when closed is set.                       *)
Test(r) ==
  /\ Goto(r, "test", IF found[r] \in closed THEN "delete" ELSE "mark")
  /\ UNCHANGED <<allowReplayOnClosed, sessions, own, found, closed, closers, finished, fatal, overlapped>>

Mark(r) ==
  /\ Goto(r, "mark", "shut")
  /\ closed' = closed \cup {found[r]}
  /\ closers' = closers \cup {r}
  /\ UNCHANGED <<allowReplayOnClosed, sessions, own, found, finished, fatal, overlapped>>

(* The dispatcher and the channel are closed.  The closer waits for the    *)
(* consumer, unless another closer was first to mark the dispatcher ...    *)
Rivals(r) == {q \in closers \ {r} : found[q] = found[r] /\ pc[q] # "panicked"}

ConsumerEnds(s) ==
  /\ s \in closed \ finished
  /\ finished' = finished \cup {s}
  /\ UNCHANGED <<allowReplayOnClosed, sessions, pc, own, found, closed, closers, fatal, overlapped>>

Shut(r) ==
  /\ Goto(r, "shut", "delete")
  /\ found[r] \in finished \/ Rivals(r) # {}
  /\ UNCHANGED <<allowReplayOnClosed, sessions, own, found, closed, closers, finished, fatal, overlapped>>

(* ... or both found it unmarked, and one of them closes for the second    *)
(* time what the other has closed.                                         *)
ShutPanics(r) ==
  /\ Rivals(r) # {}
  /\ Goto(r, "shut", "panicked")
  /\ UNCHANGED <<allowReplayOnClosed, sessions, own, found, closed, closers, finished, fatal, overlapped>>

(* Mutant: sm.Close leaves the entry in the map.                           *)
DeleteNothing(r) ==
  /\ Goto(r, "delete", "returned")
  /\ UNCHANGED <<allowReplayOnClosed, sessions, own, found, closed, closers, finished, fatal, overlapped>>

(* What the map holds for the id by now is deleted.                        *)
Delete(r) ==
  /\ Goto(r, "delete", "returned")
  /\ sessions' = [sessions EXCEPT ![IdOf[r]] = None]
  /\ UNCHANGED <<allowReplayOnClosed, own, found, closed, closers, finished, fatal, overlapped>>
-----------------------------------------------------------------------------
(* Two goroutines are in the map at once and one of them writes: the       *)
(* runtime may notice, which ends the process.                             *)
MapReads  == {"lookup", "closing"}
MapWrites == {"forget", "insert", "delete"}

MapRace ==
  /\ \E q, r \in Requests :
       q # r /\ pc[q] \in MapWrites /\ pc[r] \in MapReads \cup MapWrites
  /\ fatal' = TRUE
  /\ UNCHANGED <<allowReplayOnClosed, sessions, pc, own, found, closed, closers, finished, overlapped>>

Step(r) ==
  \/ Lookup(r) \/ CreateReplay(r) \/ RefuseReplay(r) \/ Forget(r) \/ Insert(r)
  \/ CloseLookup(r) \/ Test(r) \/ Mark(r) \/ Shut(r) \/ ShutPanics(r) \/ Delete(r)

Next ==
  /\ ~fatal
  /\ \/ \E r \in Requests : Arrive(r) \/ Step(r) \/ Disconnect(r) \/ ServePanics(r)
     \/ \E s \in Requests : ConsumerEnds(s)
     \/ MapRace

Spec == Init /\ [][Next]_vars
-----------------------------------------------------------------------------
(* Properties.                                                             *)

Live == {r \in Requests : own[r] = "live"}

(* What goes wrong in the map needs two calls of the manager at the same   *)
(* time: as long as they came one after the other, as the locks that are   *)
(* commented out would have it, there is at most one open live session per *)
(* id, the map holds it, no session outlives its request, nothing is       *)
(* closed twice and the map stays sound (session.go:143, 254).             *)
Open == Live \ closed
SerialIsSafe ==
  ~overlapped =>
    /\ \A s \in Open : sessions[IdOf[s]] = s
    /\ \A s \in Open : pc[s] \notin Ended
    /\ \A r \in Requests : pc[r] # "panicked"
    /\ ~fatal

(* A closed session is found in the map, and replayed, only while somebody *)
(* is closing it, or after such a close has panicked: otherwise its entry  *)
(* is gone and the id starts anew (session.go, Close and GetOrCreate).     *)
ClosedEntryIsLeaving ==
  \A id \in Ids :
    sessions[id] \in closed =>
      \E r \in closers : found[r] = sessions[id] /\ pc[r] \in {"shut", "delete", "panicked"}

(* ConnectAndServe closes what the map holds for the id, not what it       *)
(* served.  When calls do not overlap, a live session is closed under a    *)
(* client that is still served only after a replaying client of the id     *)
(* has left: by that client, or by one whose session was closed that way   *)
(* and replaced in the map (session.go, ConnectAndServe).                  *)
ClosedByGuestOnly ==
  ~overlapped =>
    \A s \in closed :
      pc[s] = "serve" => \E r \in closers : own[r] = "replay" /\ IdOf[r] = IdOf[s]

(* session.go:83 says of AllowReplayOnClosed: "如果为 true，当 session 已关闭时，*)
(* 仍然可以创建重放资源来消费 ActionStorage 中的结果" (if true, when the session *)
(* is closed one can still create replay resources to consume the results   *)
(* in the ActionStorage): no new session is made for an id that had one,    *)
(* where the requests of the id came one after the other.                   *)
ClosedIsReplayed ==
  \A r \in Requests :
    allowReplayOnClosed /\ ~overlapped /\ pc[r] = "insert"
      => \A s \in closed : IdOf[s] # IdOf[r]
=============================================================================
