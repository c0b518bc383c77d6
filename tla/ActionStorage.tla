---------------------------- MODULE ActionStorage ----------------------------
(***************************************************************************)
(* MemoryActionStorage with the codec of the actions it holds.  Consumers  *)
(* of live sessions, several of one id if need be, hand it each action     *)
(* before any other handler sees it; a replay asks it for the log of an    *)
(* id.  A step is one critical section.  All use the default stream, and   *)
(* nobody calls SessionClosed: an id has one stream, for good.  Nor is an  *)
(* id ever empty: NewSSETransport makes one up.                            *)
(***************************************************************************)
EXTENDS Integers, Sequences, Ranks

CONSTANTS
  Consumers,   (* the consumers of live sessions                             *)
  Replays,     (* the goroutines that read the log for a replay              *)
  Ids,         (* the session ids                                            *)
  IdOf,        (* IdOf[p]: the session id of p                               *)
  Scripts      (* Scripts[c]: the sequences of actions c may dispatch        *)
-----------------------------------------------------------------------------
(* The codec, action.go.  Values are told apart by what encoding/json makes *)
(* of them: a struct is read back as a map, an integer beyond 2^53 as the  *)
(* nearest float, and a channel or a function cannot be written at all.    *)
Values == {"nil", "plain", "struct", "map", "bigint", "float", "opaque"}
Text   == [nil |-> "null", plain |-> "plain", struct |-> "object", map |-> "object",
           bigint |-> "digits", float |-> "rounded"]
Value  == [null |-> "nil", plain |-> "plain", object |-> "map",
           digits |-> "float", rounded |-> "float"]

(* Errors are told apart by their text: none, an error whose text is empty, *)
(* an error that says something.                                           *)
Errors == {"none", "mute", "spoken"}
Types  == {"UserRequest", "EventStreamCall", "AgentResult", "ProcessingError",
           "AgentResultCallback", "SessionClose"}

(* Only a result can be the last, and have an error; so can its callback;  *)
(* a ProcessingError has one.  done stands for success too, which is       *)
(* treated alike.  The payload of an EventStreamCall is its stream, a      *)
(* function.                                                               *)
Results == {"AgentResult", "AgentResultCallback"}
Actions ==
  {a \in [type : Types, session : Ids, payload : Values, error : Errors, done : BOOLEAN] :
     /\ a.done => a.type \in Results
     /\ a.error # "none" => a.type \in Results \cup {"ProcessingError"}
     /\ a.type = "ProcessingError" => a.error # "none"}

Failed == [failed |-> TRUE]

(* What each type of action writes: the stream of a call is left out, and  *)
(* of an error all but its text.                                           *)
Written(a, payload, error, done) ==
  [type |-> a.type, session |-> a.session, payload |-> payload, error |-> error, done |-> done]
ErrorText(a) == IF a.error = "spoken" THEN "text" ELSE ""

MarshalUserRequest(a)     == Written(a, Text[a.payload], "", FALSE)
MarshalEventStreamCall(a) == Written(a, "null", "", FALSE)
MarshalAgentResult(a)     == Written(a, Text[a.payload], ErrorText(a), a.done)
MarshalCallback(a)        == Written(a, Text[a.payload], ErrorText(a), a.done)
MarshalProcessingError(a) == Written(a, Text[a.payload], ErrorText(a), FALSE)
MarshalSessionClose(a)    == Written(a, Text[a.payload], "", FALSE)

Writable(a) == a.type = "EventStreamCall" \/ a.payload \in DOMAIN Text

Marshal(a) ==
  IF ~Writable(a) THEN Failed
  ELSE CASE a.type = "UserRequest"      -> MarshalUserRequest(a)
         [] a.type = "EventStreamCall"  -> MarshalEventStreamCall(a)
         [] a.type = "AgentResult"      -> MarshalAgentResult(a)
         [] a.type = "ProcessingError"  -> MarshalProcessingError(a)
         [] a.type = "SessionClose"     -> MarshalSessionClose(a)
         [] OTHER                       -> MarshalCallback(a)

(* ActionMetadata: type, session_id and data.                              *)
Encoded == {Marshal(a) : a \in {b \in Actions : Writable(b)}}

(* Mutant: Done is not read back.                                          *)
UnmarshalUndone(e) ==
  [type    |-> e.type,
   session |-> e.session,
   payload |-> Value[e.payload],
   error   |-> IF e.error # "" THEN "spoken"
               ELSE IF e.type = "ProcessingError" THEN "mute" ELSE "none",
   done    |-> FALSE]

(* A ProcessingError always gets an error back, a result only one that     *)
(* says something.                                                         *)
UnmarshalAction(e) ==
  [type    |-> e.type,
   session |-> e.session,
   payload |-> Value[e.payload],
   error   |-> IF e.error # "" THEN "spoken"
               ELSE IF e.type = "ProcessingError" THEN "mute" ELSE "none",
   done    |-> e.done]
-----------------------------------------------------------------------------
IsAnswer(a) == a.type = "AgentResultCallback"

(* A session answers nothing before it has handled a call, and that can be *)
(* written whatever it carries.                                            *)
ASSUME ActionStorageAssumption ==
  /\ IdOf \in [Consumers \cup Replays -> Ids]
  /\ \A c \in Consumers : \A s \in Scripts[c] :
       /\ s \in Seq(Actions)
       /\ \A i \in DOMAIN s :
            /\ s[i].session = IdOf[c]
            /\ IsAnswer(s[i]) => \E j \in 1 .. i - 1 : ~IsAnswer(s[j]) /\ Writable(s[j])

VARIABLES
  streams,     (* streams[id]: the stream that storage holds for id          *)
  script,      (* script[c]: what c has still to dispatch                    *)
  at,          (* at[c]: where c is in Handle                                *)
  phase,       (* phase[r]: has r called After, and did the call fail?       *)
  given,       (* given[r]: what the iterator of After yields to r           *)
  handled      (* history: handled[id], the actions Append was given for id, *)
               (* each with the consumer it came from, in order              *)

vars == <<streams, script, at, phase, given, handled>>

NoStream == [exists |-> FALSE, opened |-> FALSE, actions |-> <<>>]
Streams  == [exists : BOOLEAN, opened : BOOLEAN, actions : Seq(Encoded)]

TypeOK ==
  /\ streams \in [Ids -> Streams]
  /\ script \in [Consumers -> Seq(Actions)]
  /\ at \in [Consumers -> {"idle", "open", "append"}]
  /\ phase \in [Replays -> {"idle", "notOpen", "given"}]
  /\ given \in [Replays -> Seq(Actions)]
  /\ handled \in [Ids -> Seq([by : Consumers, action : Actions])]

Init ==
  /\ streams = [id \in Ids |-> NoStream]
  /\ script \in {s \in [Consumers -> UNION {Scripts[c] : c \in Consumers}] :
                   \A c \in Consumers : s[c] \in Scripts[c]}
  /\ at = [c \in Consumers |-> "idle"]
  /\ phase = [r \in Replays |-> "idle"]
  /\ given = [r \in Replays |-> <<>>]
  /\ handled = [id \in Ids |-> <<>>]
-----------------------------------------------------------------------------
(* Handle: Open and then Append.                                           *)

Goto(c, from, to) ==
  /\ at[c] = from
  /\ at' = [at EXCEPT ![c] = to]

(* Mutant: the stream is made anew whether there is one or not.            *)
CreateAnew(c) ==
  /\ script[c] # <<>>
  /\ Goto(c, "idle", "open")
  /\ streams' = [streams EXCEPT ![IdOf[c]] = [NoStream EXCEPT !.exists = TRUE]]
  /\ UNCHANGED <<script, phase, given, handled>>

(* getOrCreateStream, under the lock of the map; Append's own call of it   *)
(* finds the stream.                                                       *)
GetOrCreateStream(c) ==
  /\ script[c] # <<>>
  /\ Goto(c, "idle", "open")
  /\ streams' = [streams EXCEPT ![IdOf[c]].exists = TRUE]
  /\ UNCHANGED <<script, phase, given, handled>>

Open(c) ==
  /\ Goto(c, "open", "append")
  /\ streams' = [streams EXCEPT ![IdOf[c]].opened = TRUE]
  /\ UNCHANGED <<script, phase, given, handled>>

(* Mutant: the error of Marshal is not looked at.                          *)
AppendUnchecked(c) ==
  /\ Goto(c, "append", "idle")
  /\ streams' = [streams EXCEPT ![IdOf[c]].actions = Append(@, Marshal(Head(script[c])))]
  /\ handled' = [handled EXCEPT ![IdOf[c]] =
                   Append(@, [by |-> c, action |-> Head(script[c])])]
  /\ script' = [script EXCEPT ![c] = Tail(@)]
  /\ UNCHANGED <<phase, given>>

(* The action is marshalled and appended under the lock of the stream, or  *)
(* left out when it cannot be; the consumer goes on to the next handler,   *)
(* and to the next action, all the same.                                   *)
AppendAction(c) ==
  LET data == Marshal(Head(script[c]))
  IN  /\ Goto(c, "append", "idle")
      /\ streams' = IF data = Failed THEN streams
                    ELSE [streams EXCEPT ![IdOf[c]].actions = Append(@, data)]
      /\ handled' = [handled EXCEPT ![IdOf[c]] =
                       Append(@, [by |-> c, action |-> Head(script[c])])]
      /\ script' = [script EXCEPT ![c] = Tail(@)]
      /\ UNCHANGED <<phase, given>>
-----------------------------------------------------------------------------
(* After(ctx, id, "", -1).  The stream is copied under both locks; what is *)
(* appended later is not in the copy.                                      *)

(* The iterator for the index: a negative one counts as 0, and the         *)
(* iteration starts behind it.                                             *)
Behind(actions, index) ==
  LET from == IF index < 0 THEN 0 ELSE index
      copy == SubSeq(actions, from + 2, Len(actions))
  IN  [i \in DOMAIN copy |-> UnmarshalAction(copy[i])]

After(r) ==
  LET stream == streams[IdOf[r]]
  IN  /\ phase[r] = "idle"
      /\ phase' = [phase EXCEPT ![r] =
                     IF stream.exists /\ ~stream.opened THEN "notOpen" ELSE "given"]
      /\ given' = [given EXCEPT ![r] =
                     IF stream.opened THEN Behind(stream.actions, -1) ELSE <<>>]
      /\ UNCHANGED <<streams, script, at, handled>>

Next ==
  \/ \E c \in Consumers : GetOrCreateStream(c) \/ Open(c) \/ AppendAction(c)
  \/ \E r \in Replays : After(r)

Spec == Init /\ [][Next]_vars
-----------------------------------------------------------------------------
(* Properties.                                                             *)

(* The positions in handled of what can be written, and what is written.   *)
Storable(id) == {k \in DOMAIN handled[id] : Writable(handled[id][k].action)}
Recorded(id) == [k \in DOMAIN handled[id] |-> Marshal(handled[id][k].action)]

(* The log of an id holds all that the consumers of its sessions handed    *)
(* over and that can be written, in one order, and nothing of another id,  *)
(* however they and the replays interleave (storage.go, Handle).           *)
LogIsWhole ==
  \A id \in Ids :
    /\ IsSelection(streams[id].actions, Recorded(id), Storable(id))
    /\ \A i \in DOMAIN streams[id].actions : streams[id].actions[i].session = id

(* What a client sees of an action that was read back is what it would     *)
(* have seen of the original: also whether it was an error, and whether it *)
(* was the last; but an error without a text is none, and an integer       *)
(* beyond 2^53 is another number.                                          *)
Alike(a, b) ==
  /\ <<a.type, a.session, a.done>> = <<b.type, b.session, b.done>>
  /\ a.error = "spoken" <=> b.error = "spoken"
  /\ a.type # "EventStreamCall" /\ a.payload # "bigint" => Text[a.payload] = Text[b.payload]

(* The i-th action in the log of an id is b, as far as a client can tell.  *)
LoggedAs(id, i, b) ==
  \E k \in Storable(id) :
    Rank(Storable(id), k) = i /\ Alike(handled[id][k].action, b)

(* A replay is given the log of its id, without the first action and       *)
(* without a gap, up to where it was when After copied it (storage.go,     *)
(* After; action.go, Marshal and UnmarshalAction).                         *)
ReplayGivesLog ==
  \A r \in Replays : \A i \in DOMAIN given[r] : LoggedAs(IdOf[r], i + 1, given[r][i])

(* After refuses a stream that is not open only while nothing was handed   *)
(* over for its id: no action is kept from a replay by the moment between  *)
(* the making of a stream and its opening (storage.go, After and Open).    *)
NotOpenIsEmpty ==
  [][\A r \in Replays :
       phase'[r] = "notOpen" /\ phase[r] = "idle" => handled[IdOf[r]] = <<>>]_vars

(* Whatever cannot be written, no log begins with the callback of an       *)
(* answer: the action a replay never sees is not an answer (storage.go,    *)
(* After; StorageReplayAssumption).                                        *)
LogBeginsBeforeAnswers ==
  \A id \in Ids :
    streams[id].actions # <<>> => ~IsAnswer(streams[id].actions[1])

(* storage.go:321 says of startIndex: "起始索引（从0开始，-1表示从第一个开始）"    *)
(* (the index to start from, counted from 0; -1 means from the first), and *)
(* a replay is made with -1.                                               *)
ReplaysFromFirst ==
  \A r \in Replays : given[r] # <<>> => LoggedAs(IdOf[r], 1, given[r][1])
=============================================================================
