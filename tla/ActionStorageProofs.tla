-------------------------- MODULE ActionStorageProofs --------------------------
(***************************************************************************)
(* Theorems about ActionStorage, for any consumers, replays and session    *)
(* ids and for whatever the consumers hand over.                           *)
(***************************************************************************)
EXTENDS ActionStorage, RanksProofs, SequenceTheorems

(* What encoding/json writes of a payload it can write is read back as a   *)
(* payload, and read back as what would be written alike, but for an       *)
(* integer beyond 2^53.                                                    *)
LEMMA PayloadRoundTrip ==
  ASSUME NEW v \in DOMAIN Text
  PROVE  /\ Text[v] \in DOMAIN Value
         /\ Value[Text[v]] \in Values /\ Value[Text[v]] \in DOMAIN Text
         /\ v # "bigint" => Text[Value[Text[v]]] = Text[v]
BY DEF Text, Value, Values

(* What is written of an action that can be.                               *)
LEMMA Marshalled ==
  ASSUME NEW a \in Actions, Writable(a)
  PROVE  /\ Marshal(a).type = a.type /\ Marshal(a).session = a.session
         /\ Marshal(a).done = a.done
         /\ Marshal(a).payload = IF a.type = "EventStreamCall" THEN "null" ELSE Text[a.payload]
         /\ Marshal(a).error = ErrorText(a)
         /\ Marshal(a) # Failed
<1> USE DEF Writable, Written, ErrorText, Actions, Results, Errors
<1>1. CASE a.type = "EventStreamCall"
  BY <1>1 DEF Marshal, MarshalEventStreamCall, Failed
<1>2. CASE a.type \in Types \ {"EventStreamCall"}
  BY <1>2 DEF Marshal, MarshalUserRequest, MarshalAgentResult, MarshalCallback,
     MarshalProcessingError, MarshalSessionClose, Types, Failed
<1> QED
  BY <1>1, <1>2

(* For every action that can be written, UnmarshalAction undoes Marshal as *)
(* far as a client can tell: type, session, payload, whether it was the    *)
(* last and whether it was an error (action.go).                           *)
THEOREM CodecRoundTrip ==
  \A a \in Actions :
    Writable(a) => /\ UnmarshalAction(Marshal(a)) \in Actions
                   /\ Alike(a, UnmarshalAction(Marshal(a)))
<1> SUFFICES ASSUME NEW a \in Actions, Writable(a)
             PROVE  /\ UnmarshalAction(Marshal(a)) \in Actions
                    /\ Alike(a, UnmarshalAction(Marshal(a)))
  OBVIOUS
<1> DEFINE e == Marshal(a)
           b == UnmarshalAction(e)
<1>1. /\ e.type = a.type /\ e.session = a.session /\ e.done = a.done
      /\ e.error = IF a.error = "spoken" THEN "text" ELSE ""
  BY Marshalled DEF ErrorText
<1>2. /\ e.payload \in DOMAIN Value
      /\ a.type # "EventStreamCall" => a.payload \in DOMAIN Text /\ e.payload = Text[a.payload]
  BY Marshalled, PayloadRoundTrip DEF Writable, Value
<1>3. /\ Value[e.payload] \in Values
      /\ a.type # "EventStreamCall" /\ a.payload # "bigint"
           => Text[Value[e.payload]] = Text[a.payload]
  <2>1. CASE a.type = "EventStreamCall"
    BY <1>2, <2>1 DEF Value, Values
  <2>2. CASE a.type # "EventStreamCall"
    BY <1>2, <2>2, PayloadRoundTrip
  <2> QED
    BY <2>1, <2>2
<1> HIDE DEF e
<1>4. b \in Actions
  BY <1>1, <1>3 DEF UnmarshalAction, Actions, Results, Errors
<1>5. Alike(a, b)
  BY <1>1, <1>3 DEF UnmarshalAction, Alike, Actions, Errors
<1> QED
  BY <1>4, <1>5 DEF e
-----------------------------------------------------------------------------
(* A consumer inside Handle has an action, and inside Append its stream is *)
(* open; nothing was handed over to a stream that is not.                  *)
InHandle ==
  /\ \A c \in Consumers : at[c] # "idle" => script[c] # <<>>
  /\ \A c \in Consumers : at[c] = "append" => streams[IdOf[c]].opened
  /\ \A id \in Ids : handled[id] # <<>> => streams[id].opened

(* What the iterator of After yields are actions.                          *)
LEMMA BehindActions ==
  ASSUME NEW s \in Seq(Encoded)
  PROVE  Behind(s, -1) \in Seq(Actions)
<1> DEFINE copy == SubSeq(s, 2, Len(s))
<1>1. copy \in Seq(Encoded)
  BY LenProperties, SubSeqProperties
<1>2. \A i \in 1 .. Len(copy) : UnmarshalAction(copy[i]) \in Actions
  <2> SUFFICES ASSUME NEW i \in 1 .. Len(copy) PROVE UnmarshalAction(copy[i]) \in Actions
    OBVIOUS
  <2>1. copy[i] \in Encoded
    BY <1>1
  <2> QED
    BY <2>1, CodecRoundTrip DEF Encoded
<1>3. Len(copy) \in Nat /\ DOMAIN copy = 1 .. Len(copy)
  BY <1>1, LenProperties
<1>4. Behind(s, -1) = [i \in 1 .. Len(copy) |-> UnmarshalAction(copy[i])]
  BY <1>3 DEF Behind
<1> HIDE DEF copy
<1> QED
  BY <1>2, <1>3, <1>4

(* The types and the place in Handle, at the start.                        *)
LEMMA Initially == Init => TypeOK /\ InHandle
<1> SUFFICES ASSUME Init PROVE TypeOK /\ InHandle
  OBVIOUS
<1>1. script \in [Consumers -> Seq(Actions)]
  BY ActionStorageAssumption DEF Init
<1> QED
  BY <1>1 DEF Init, TypeOK, InHandle, NoStream, Streams

(* Every step keeps the types and the place in Handle.                     *)
LEMMA Step ==
  ASSUME TypeOK, InHandle, [Next]_vars
  PROVE  TypeOK' /\ InHandle'
<1> USE ActionStorageAssumption
<1>0. CASE UNCHANGED vars
  BY <1>0 DEF vars, TypeOK, InHandle
<1>1. ASSUME NEW c \in Consumers, GetOrCreateStream(c) PROVE TypeOK' /\ InHandle'
  <2>1. /\ streams' \in [Ids -> Streams]
        /\ \A id \in Ids : streams'[id].opened = streams[id].opened
    <3>1. streams[IdOf[c]] \in Streams /\ streams \in [Ids -> Streams]
      BY DEF TypeOK
    <3>2. PICK s : s = [streams[IdOf[c]] EXCEPT !.exists = TRUE]
      OBVIOUS
    <3>3. s \in Streams /\ s.opened = streams[IdOf[c]].opened
      BY <3>1, <3>2 DEF Streams
    <3>4. streams' = [streams EXCEPT ![IdOf[c]] = s]
      BY <1>1, <3>2 DEF GetOrCreateStream
    <3> QED
      BY <3>1, <3>3, <3>4
  <2>2. /\ script[c] # <<>>
        /\ at' \in [Consumers -> {"idle", "open", "append"}] /\ at'[c] = "open"
        /\ \A d \in Consumers \ {c} : at'[d] = at[d]
        /\ UNCHANGED <<script, phase, given, handled>>
    BY <1>1 DEF GetOrCreateStream, Goto, TypeOK
  <2> QED
    BY <2>1, <2>2 DEF TypeOK, InHandle
<1>2. ASSUME NEW c \in Consumers, Open(c) PROVE TypeOK' /\ InHandle'
  <2>1. /\ streams' \in [Ids -> Streams]
        /\ \A id \in Ids : streams[id].opened \/ id = IdOf[c] => streams'[id].opened
    <3>1. streams[IdOf[c]] \in Streams
      BY DEF TypeOK
    <3>2. [streams[IdOf[c]] EXCEPT !.opened = TRUE] \in Streams
      BY <3>1 DEF Streams
    <3>3. streams' = [streams EXCEPT ![IdOf[c]] = [streams[IdOf[c]] EXCEPT !.opened = TRUE]]
      BY <1>2 DEF Open
    <3>4. [streams[IdOf[c]] EXCEPT !.opened = TRUE].opened
      BY <3>1 DEF Streams
    <3> HIDE DEF Streams
    <3> QED
      BY <3>2, <3>3, <3>4 DEF TypeOK
  <2>2. /\ at[c] = "open"
        /\ at' \in [Consumers -> {"idle", "open", "append"}]
        /\ \A d \in Consumers \ {c} : at'[d] = at[d]
        /\ UNCHANGED <<script, phase, given, handled>>
    BY <1>2 DEF Open, Goto, TypeOK
  <2> QED
    BY <2>1, <2>2 DEF TypeOK, InHandle
<1>3. ASSUME NEW c \in Consumers, AppendAction(c) PROVE TypeOK' /\ InHandle'
  <2> DEFINE a == Head(script[c])
  <2>1. script[c] \in Seq(Actions) /\ script[c] # <<>> /\ streams[IdOf[c]].opened
    BY <1>3 DEF AppendAction, Goto, TypeOK, InHandle
  <2>2. a \in Actions /\ Tail(script[c]) \in Seq(Actions)
    BY <2>1, HeadTailProperties
  <2>3. Marshal(a) # Failed => Marshal(a) \in Encoded
    BY <2>2 DEF Encoded, Marshal
  <2> HIDE DEF a
  <2>4. /\ streams' \in [Ids -> Streams]
        /\ \A id \in Ids : streams'[id].opened = streams[id].opened
    <3>1. streams[IdOf[c]].actions \in Seq(Encoded)
      BY DEF TypeOK, Streams
    <3>2. CASE Marshal(a) # Failed
      <4>1. Append(streams[IdOf[c]].actions, Marshal(a)) \in Seq(Encoded)
        BY <2>3, <3>1, <3>2, AppendProperties
      <4>2. streams[IdOf[c]] \in Streams /\ streams \in [Ids -> Streams]
        BY DEF TypeOK
      <4>3. PICK s : s = [streams[IdOf[c]] EXCEPT !.actions = Append(@, Marshal(a))]
        OBVIOUS
      <4>4. s \in Streams /\ s.opened = streams[IdOf[c]].opened
        BY <4>1, <4>2, <4>3 DEF Streams
      <4>5. streams' = [streams EXCEPT ![IdOf[c]] = s]
        BY <1>3, <3>2, <4>3 DEF AppendAction, a
      <4> QED
        BY <4>2, <4>4, <4>5
    <3>3. CASE Marshal(a) = Failed
      BY <1>3, <3>3 DEF AppendAction, TypeOK, a
    <3> QED
      BY <3>2, <3>3
  <2>5. /\ handled' \in [Ids -> Seq([by : Consumers, action : Actions])]
        /\ \A id \in Ids : handled'[id] # handled[id] => id = IdOf[c]
    <3>1. Append(handled[IdOf[c]], [by |-> c, action |-> a])
            \in Seq([by : Consumers, action : Actions])
      BY <2>2, AppendProperties DEF TypeOK
    <3> QED
      BY <1>3, <3>1 DEF AppendAction, TypeOK, a
  <2>6. /\ script' \in [Consumers -> Seq(Actions)]
        /\ at' \in [Consumers -> {"idle", "open", "append"}]
        /\ at'[c] = "idle"
        /\ \A d \in Consumers \ {c} : script'[d] = script[d] /\ at'[d] = at[d]
        /\ phase' = phase /\ given' = given
    BY <1>3, <2>2 DEF AppendAction, Goto, TypeOK
  <2>7. TypeOK'
    BY <2>4, <2>5, <2>6 DEF TypeOK
  <2>8. InHandle'
    BY <2>1, <2>4, <2>5, <2>6 DEF InHandle
  <2> QED
    BY <2>7, <2>8
<1>4. ASSUME NEW r \in Replays, After(r) PROVE TypeOK' /\ InHandle'
  <2>1. Behind(streams[IdOf[r]].actions, -1) \in Seq(Actions)
    BY BehindActions DEF TypeOK, Streams
  <2>2. phase' \in [Replays -> {"idle", "notOpen", "given"}]
    BY <1>4 DEF After, TypeOK
  <2>3. given' \in [Replays -> Seq(Actions)]
    BY <1>4, <2>1 DEF After, TypeOK
  <2> QED
    BY <1>4, <2>2, <2>3 DEF After, TypeOK, InHandle
<1> QED
  BY <1>0, <1>1, <1>2, <1>3, <1>4 DEF Next

(* They hold in every state.                                               *)
LEMMA Invariance == Spec => [](TypeOK /\ InHandle)
<1>1. TypeOK /\ InHandle /\ [Next]_vars => TypeOK' /\ InHandle'
  BY Step
<1> QED
  BY Initially, <1>1, PTL DEF Spec

(* The types: what the log holds was written by Marshal, and what a replay *)
(* is given are actions again.                                             *)
THEOREM TypeCorrect == Spec => []TypeOK
BY Invariance, PTL

(* However consumers and replays interleave, a replay that is refused for  *)
(* want of an open stream misses nothing (storage.go, After and Open).     *)
THEOREM RefusedMissesNothing == Spec => NotOpenIsEmpty
<1>1. TypeOK /\ InHandle /\ [Next]_vars
        => [\A r \in Replays :
              phase'[r] = "notOpen" /\ phase[r] = "idle" => handled[IdOf[r]] = <<>>]_vars
  <2> SUFFICES ASSUME TypeOK, InHandle, Next, NEW r \in Replays,
                      phase'[r] = "notOpen", phase[r] = "idle"
               PROVE  handled[IdOf[r]] = <<>>
    OBVIOUS
  <2>1. PICK q \in Replays : After(q)
    BY DEF Next, GetOrCreateStream, Open, AppendAction
  <2>2. q = r /\ ~streams[IdOf[r]].opened
    BY <2>1 DEF After, TypeOK
  <2> QED
    BY <2>2, ActionStorageAssumption DEF InHandle
<1> QED
  BY Invariance, <1>1, PTL DEF Spec, NotOpenIsEmpty
-----------------------------------------------------------------------------
(* What is still to be dispatched: of the consumer's own id; and an answer *)
(* has something else before it, in the script or in the log.              *)
ToDispatch ==
  \A c \in Consumers : \A i \in DOMAIN script[c] :
    /\ script[c][i].session = IdOf[c]
    /\ IsAnswer(script[c][i]) =>
         \/ streams[IdOf[c]].actions # <<>>
         \/ \E j \in 1 .. i - 1 : ~IsAnswer(script[c][j]) /\ Writable(script[c][j])

(* The inductive invariant: the log, what replays were given of it, and    *)
(* what is still to come.                                                  *)
Faithful == LogIsWhole /\ ReplayGivesLog /\ LogBeginsBeforeAnswers /\ ToDispatch

(* With nothing stored every log is faithful.                              *)
LEMMA FaithfulInitially == Init => Faithful
<1> SUFFICES ASSUME Init PROVE Faithful
  OBVIOUS
<1>1. ASSUME NEW id \in Ids
      PROVE  streams[id].actions = <<>> /\ handled[id] = <<>>
  BY DEF Init, NoStream
<1>2. LogIsWhole
  <2> SUFFICES ASSUME NEW id \in Ids
               PROVE  /\ IsSelection(streams[id].actions, Recorded(id), Storable(id))
                      /\ \A i \in DOMAIN streams[id].actions : streams[id].actions[i].session = id
    BY DEF LogIsWhole
  <2>1. Storable(id) = {}
    BY <1>1 DEF Storable
  <2> QED
    BY <1>1, <2>1, FS_EmptySet DEF IsSelection
<1>3. ReplayGivesLog
  BY DEF Init, ReplayGivesLog
<1>4. LogBeginsBeforeAnswers
  BY <1>1 DEF LogBeginsBeforeAnswers
<1>5. ToDispatch
  <2>1. \A c \in Consumers : script[c] \in Scripts[c]
    BY DEF Init
  <2> QED
    BY <2>1, ActionStorageAssumption DEF ToDispatch
<1> QED
  BY <1>2, <1>3, <1>4, <1>5 DEF Faithful

(* The positions that can be written are positions.                        *)
LEMMA StorablePositions ==
  ASSUME TypeOK, NEW id \in Ids
  PROVE  /\ Len(handled[id]) \in Nat
         /\ DOMAIN handled[id] = 1 .. Len(handled[id])
         /\ Storable(id) \in SUBSET (1 .. Len(handled[id]))
<1>1. handled[id] \in Seq([by : Consumers, action : Actions])
  BY DEF TypeOK
<1> QED
  BY <1>1, LenProperties DEF Storable

(* What replays were given stays in the log when more is handed over.      *)
LEMMA GivenStays ==
  ASSUME TypeOK, NEW id \in Ids, NEW i, NEW b, LoggedAs(id, i, b),
         \A k \in 1 .. Len(handled[id]) : handled'[id][k] = handled[id][k],
         \/ Storable(id)' = Storable(id)
         \/ Storable(id)' = Storable(id) \cup {Len(handled[id]) + 1}
  PROVE  LoggedAs(id, i, b)'
<1>1. PICK k \in Storable(id) : Rank(Storable(id), k) = i /\ Alike(handled[id][k].action, b)
  BY DEF LoggedAs
<1>2. k \in 1 .. Len(handled[id]) /\ Len(handled[id]) \in Nat
      /\ Storable(id) \in SUBSET (1 .. Len(handled[id]))
  BY StorablePositions
<1>3. k \in Storable(id)' /\ Rank(Storable(id)', k) = i
  BY <1>1, <1>2, RankStays
<1>4. handled'[id][k] = handled[id][k]
  BY <1>2
<1> QED
  BY <1>1, <1>3, <1>4 DEF LoggedAs

(* When the log and what was handed over stay, so does what is known of    *)
(* them.                                                                   *)
LEMMA LogStays ==
  ASSUME Faithful, UNCHANGED <<handled, script>>,
         \A id \in Ids : streams'[id].actions = streams[id].actions
  PROVE  /\ LogIsWhole' /\ LogBeginsBeforeAnswers' /\ ToDispatch'
         /\ given' = given => ReplayGivesLog'
<1>1. \A id : Storable(id)' = Storable(id) /\ Recorded(id)' = Recorded(id)
  BY DEF Storable, Recorded
<1>2. LogIsWhole'
  BY <1>1 DEF Faithful, LogIsWhole
<1>3. LogBeginsBeforeAnswers'
  BY DEF Faithful, LogBeginsBeforeAnswers
<1>4. ToDispatch'
  BY ActionStorageAssumption DEF Faithful, ToDispatch
<1>5. given' = given => ReplayGivesLog'
  BY <1>1 DEF Faithful, ReplayGivesLog, LoggedAs
<1> QED
  BY <1>2, <1>3, <1>4, <1>5

(* After hands out what the log holds behind its first action.             *)
LEMMA AfterGivesLog ==
  ASSUME TypeOK, Faithful, NEW r \in Replays, After(r)
  PROVE  ReplayGivesLog'
<1> DEFINE id == IdOf[r]
           log == streams[id].actions
<1>1. /\ id \in Ids /\ log \in Seq(Encoded)
      /\ IsSelection(log, Recorded(id), Storable(id))
  BY ActionStorageAssumption DEF TypeOK, Streams, Faithful, LogIsWhole
<1>2. /\ Len(handled[id]) \in Nat
      /\ Storable(id) \in SUBSET (1 .. Len(handled[id]))
  BY <1>1, StorablePositions
<1>3. UNCHANGED handled /\ \A q \in Replays \ {r} : given'[q] = given[q]
  BY DEF After, TypeOK
<1>4. \A q : Storable(q)' = Storable(q)
  BY <1>3 DEF Storable
<1>5. ASSUME NEW i \in DOMAIN given'[r]
      PROVE  LoggedAs(id, i + 1, given'[r][i])
  <2>1. streams[id].opened /\ given'[r] = Behind(log, -1)
    BY <1>5 DEF After, TypeOK
  <2>2. /\ i \in 1 .. Len(log) - 1
        /\ given'[r][i] = UnmarshalAction(log[i + 1])
    BY <1>1, <1>5, <2>1 DEF Behind
  <2>3. i + 1 \in 1 .. Cardinality(Storable(id))
    BY <1>1, <2>2 DEF IsSelection
  <2>4. PICK k \in Storable(id) : Rank(Storable(id), k) = i + 1
    BY <1>2, <2>3, EveryRank
  <2>5. /\ k \in DOMAIN handled[id] /\ Writable(handled[id][k].action)
        /\ handled[id][k].action \in Actions
    <3>1. k \in DOMAIN handled[id] /\ Writable(handled[id][k].action)
      BY DEF Storable
    <3> DEFINE Entries == [by : Consumers, action : Actions]
    <3>2. handled[id] \in Seq(Entries)
      BY <1>1 DEF TypeOK
    <3> HIDE DEF Entries
    <3>3. handled[id][k] \in Entries
      BY <3>1, <3>2
    <3> QED
      BY <3>1, <3>3 DEF Entries
  <2>6. log[i + 1] = Marshal(handled[id][k].action)
    BY <1>1, <2>4, <2>5 DEF IsSelection, Recorded
  <2>7. Alike(handled[id][k].action, given'[r][i])
    BY <2>2, <2>5, <2>6, CodecRoundTrip
  <2> QED
    BY <2>4, <2>7 DEF LoggedAs
<1> QED
  BY <1>3, <1>4, <1>5 DEF Faithful, ReplayGivesLog, LoggedAs

(* What Append does, or leaves out, of what is next in the script of c.    *)
LEMMA AppendKeepsFaith ==
  ASSUME TypeOK, InHandle, Faithful, NEW c \in Consumers, AppendAction(c)
  PROVE  Faithful'
<1> DEFINE id == IdOf[c]
           a == Head(script[c])
           n == Len(handled[id])
           entry == [by |-> c, action |-> a]
           Entries == [by : Consumers, action : Actions]
<1>1. /\ id \in Ids /\ script[c] \in Seq(Actions) /\ script[c] # <<>>
      /\ a = script[c][1] /\ a \in Actions
      /\ handled[id] \in Seq(Entries) /\ n \in Nat
      /\ streams \in [Ids -> Streams] /\ streams[id].actions \in Seq(Encoded)
  <2>1. script[c] \in Seq(Actions) /\ script[c] # <<>>
    BY DEF AppendAction, Goto, TypeOK, InHandle
  <2>2. a = script[c][1] /\ a \in Actions
    BY <2>1
  <2>3. id \in Ids /\ streams \in [Ids -> Streams] /\ streams[id] \in Streams
        /\ handled[id] \in Seq(Entries)
    BY ActionStorageAssumption DEF TypeOK
  <2>4. n \in Nat /\ streams[id].actions \in Seq(Encoded)
    BY <2>3, LenProperties DEF Streams
  <2> QED
    BY <2>1, <2>2, <2>3, <2>4
<1>2. a.session = id
  BY <1>1 DEF Faithful, ToDispatch
<1>3. Marshal(a) = Failed <=> ~Writable(a)
  BY <1>1, Marshalled DEF Marshal
<1>4. /\ handled'[id] = Append(handled[id], entry)
      /\ \A d \in Ids \ {id} : handled'[d] = handled[d]
      /\ script'[c] = Tail(script[c])
      /\ \A d \in Consumers \ {c} : script'[d] = script[d]
      /\ UNCHANGED given
  BY <1>1 DEF AppendAction, TypeOK
<1>5. /\ \A d \in Ids \ {id} : streams'[d] = streams[d]
      /\ streams'[id].actions = IF Writable(a) THEN Append(streams[id].actions, Marshal(a))
                                ELSE streams[id].actions
  <2>1. CASE Writable(a)
    <3>1. streams' = [streams EXCEPT ![id].actions = Append(@, Marshal(a))]
      BY <1>3, <2>1 DEF AppendAction
    <3> QED
      BY <1>1, <2>1, <3>1 DEF Streams
  <2>2. CASE ~Writable(a)
    BY <1>3, <2>2 DEF AppendAction
  <2> QED
    BY <2>1, <2>2
<1>6. /\ Len(handled'[id]) = n + 1 /\ DOMAIN handled'[id] = 1 .. n + 1
      /\ DOMAIN handled[id] = 1 .. n
      /\ \A k \in 1 .. n : handled'[id][k] = handled[id][k]
      /\ handled'[id][n + 1] = entry
  <2>1. entry \in Entries
    BY <1>1
  <2> HIDE DEF entry, Entries
  <2> QED
    BY <1>1, <1>4, <2>1
<1>7. Storable(id) \in SUBSET (1 .. n)
  BY <1>1, StorablePositions
<1>8. Storable(id)' = IF Writable(a) THEN Storable(id) \cup {n + 1} ELSE Storable(id)
  <2>1. entry.action = a
    OBVIOUS
  <2> HIDE DEF entry
  <2>2. \A k : k \in Storable(id)' <=> k \in 1 .. n + 1 /\ Writable(handled'[id][k].action)
    BY <1>6 DEF Storable
  <2>3. \A k : k \in Storable(id) <=> k \in 1 .. n /\ Writable(handled[id][k].action)
    BY <1>6 DEF Storable
  <2> HIDE DEF n
  <2>4. \A k : k \in 1 .. n + 1 <=> k \in 1 .. n \/ k = n + 1
    <3>1. n \in Nat
      BY <1>1
    <3> QED
      BY <3>1, UpToNext
  <2> QED
    BY <1>6, <2>1, <2>2, <2>3, <2>4
<1>9. \A d \in Ids \ {id} : Storable(d)' = Storable(d) /\ Recorded(d)' = Recorded(d)
  BY <1>4 DEF Storable, Recorded
<1>10. /\ \A k \in 1 .. n : Recorded(id)'[k] = Recorded(id)[k]
       /\ Recorded(id)'[n + 1] = Marshal(a)
  <2>1. entry.action = a
    OBVIOUS
  <2>2. \A k \in 1 .. n : k \in 1 .. n + 1
    BY <1>1
  <2>3. n + 1 \in 1 .. n + 1
    BY <1>1
  <2> HIDE DEF n, entry, a, id
  <2> QED
    BY <1>6, <2>1, <2>2, <2>3 DEF Recorded
<1> HIDE DEF id, a, n, entry, Entries
<1>11. IsSelection(streams[id].actions, Recorded(id), Storable(id))
  BY <1>1 DEF Faithful, LogIsWhole
<1>12. IsSelection(streams'[id].actions, Recorded(id)', Storable(id)')
  <2>1. \A k \in Storable(id) : Recorded(id)'[k] = Recorded(id)[k]
    BY <1>7, <1>10
  <2>2. CASE Writable(a)
    <3>1. Marshal(a) \in Encoded
      BY <1>1, <2>2 DEF Encoded
    <3> QED
      BY <1>1, <1>5, <1>7, <1>8, <1>10, <1>11, <2>1, <2>2, <3>1, SelectionGrows
  <2>3. CASE ~Writable(a)
    BY <1>5, <1>8, <1>11, <2>1, <2>3, SelectionStays
  <2> QED
    BY <2>2, <2>3
<1>13. /\ Writable(a) => streams'[id].actions # <<>>
       /\ streams[id].actions # <<>> =>
            streams'[id].actions # <<>> /\ streams'[id].actions[1] = streams[id].actions[1]
  BY <1>1, <1>5
<1>14. LogIsWhole'
  <2>1. \A i \in DOMAIN streams'[id].actions : streams'[id].actions[i].session = id
    <3>1. \A i \in DOMAIN streams[id].actions : streams[id].actions[i].session = id
      BY <1>1 DEF Faithful, LogIsWhole
    <3>2. CASE Writable(a)
      <4>1. Marshal(a).session = id
        BY <1>1, <1>2, <3>2, Marshalled
      <4> QED
        BY <1>1, <1>5, <3>1, <3>2, <4>1
    <3> QED
      BY <1>5, <3>1, <3>2
  <2> QED
    BY <1>5, <1>9, <1>12, <2>1 DEF Faithful, LogIsWhole
<1>15. ReplayGivesLog'
  <2> SUFFICES ASSUME NEW r \in Replays, NEW i \in DOMAIN given[r]
               PROVE  LoggedAs(IdOf[r], i + 1, given[r][i])'
    BY <1>4 DEF ReplayGivesLog
  <2>1. IdOf[r] \in Ids /\ LoggedAs(IdOf[r], i + 1, given[r][i])
    BY ActionStorageAssumption DEF Faithful, ReplayGivesLog
  <2>2. CASE IdOf[r] = id
    <3>1. PICK b : b = given[r][i]
      OBVIOUS
    <3>2. LoggedAs(id, i + 1, b)
      BY <2>1, <2>2, <3>1
    <3>3. \/ Storable(id)' = Storable(id)
          \/ Storable(id)' = Storable(id) \cup {Len(handled[id]) + 1}
      BY <1>8 DEF n
    <3>4. \A k \in 1 .. Len(handled[id]) : handled'[id][k] = handled[id][k]
      BY <1>6 DEF n
    <3>5. LoggedAs(id, i + 1, b)'
      BY <1>1, <3>2, <3>3, <3>4, GivenStays
    <3> QED
      BY <1>4, <2>2, <3>1, <3>5
  <2>3. CASE IdOf[r] # id
    BY <1>4, <1>9, <2>1, <2>3 DEF LoggedAs
  <2> QED
    BY <2>2, <2>3
<1>16. LogBeginsBeforeAnswers'
  <2>1. CASE streams[id].actions # <<>>
    BY <1>1, <1>5, <1>13, <2>1 DEF Faithful, LogBeginsBeforeAnswers
  <2>2. CASE streams[id].actions = <<>>
    <3>1. ~IsAnswer(a)
      BY <1>1, <2>2 DEF Faithful, ToDispatch, id, a
    <3>2. CASE Writable(a)
      <4>1. Marshal(a).type = a.type
        BY <1>1, <3>2, Marshalled
      <4>2. streams'[id].actions[1] = Marshal(a)
        BY <1>1, <1>5, <2>2, <3>2
      <4> QED
        BY <1>5, <3>1, <4>1, <4>2 DEF Faithful, LogBeginsBeforeAnswers, IsAnswer
    <3> QED
      BY <1>5, <2>2, <3>2 DEF Faithful, LogBeginsBeforeAnswers
  <2> QED
    BY <2>1, <2>2
<1>17. ToDispatch'
  <2> SUFFICES ASSUME NEW d \in Consumers, NEW i \in DOMAIN script'[d]
               PROVE  /\ script'[d][i].session = IdOf[d]
                      /\ IsAnswer(script'[d][i]) =>
                           \/ streams'[IdOf[d]].actions # <<>>
                           \/ \E j \in 1 .. i - 1 : ~IsAnswer(script'[d][j])
                                                    /\ Writable(script'[d][j])
    BY DEF ToDispatch
  <2>1. streams[IdOf[d]].actions # <<>> => streams'[IdOf[d]].actions # <<>>
    BY <1>5, <1>13, ActionStorageAssumption
  <2>2. CASE d # c
    <3>1. script'[d] = script[d]
      BY <1>4, <2>2
    <3> QED
      BY <2>1, <3>1 DEF Faithful, ToDispatch
  <2>3. CASE d = c
    <3>1. /\ i \in Nat \ {0} /\ i + 1 \in DOMAIN script[c]
          /\ script'[c][i] = script[c][i + 1]
          /\ \A j \in 1 .. i - 1 : script'[c][j] = script[c][j + 1]
      <4>1. PICK s \in Seq(Actions) : s = script[c] /\ s # <<>> /\ script'[c] = Tail(s)
        BY <1>1, <1>4
      <4>2. i \in 1 .. Len(s) - 1 /\ Len(s) \in Nat
        BY <2>3, <4>1
      <4> QED
        BY <4>1, <4>2
    <3>2. /\ script[c][i + 1].session = IdOf[c]
          /\ IsAnswer(script[c][i + 1]) =>
               \/ streams[IdOf[c]].actions # <<>>
               \/ \E j \in 1 .. i : ~IsAnswer(script[c][j]) /\ Writable(script[c][j])
      BY <3>1 DEF Faithful, ToDispatch
    <3>3. ASSUME NEW j \in 1 .. i, ~IsAnswer(script[c][j]), Writable(script[c][j])
          PROVE  \/ streams'[IdOf[c]].actions # <<>>
                 \/ \E m \in 1 .. i - 1 : ~IsAnswer(script'[c][m]) /\ Writable(script'[c][m])
      <4>1. CASE j = 1
        BY <1>1, <1>13, <3>3, <4>1 DEF id
      <4>2. CASE j # 1
        <5>1. j - 1 \in 1 .. i - 1 /\ script'[c][j - 1] = script[c][j]
          BY <3>1, <4>2
        <5> QED
          BY <3>3, <5>1
      <4> QED
        BY <4>1, <4>2
    <3> QED
      BY <2>1, <2>3, <3>1, <3>2, <3>3
  <2> QED
    BY <2>2, <2>3
<1> QED
  BY <1>14, <1>15, <1>16, <1>17 DEF Faithful

(* Every step keeps every log faithful.                                    *)
LEMMA FaithfulStep ==
  ASSUME TypeOK, InHandle, Faithful, [Next]_vars
  PROVE  Faithful'
<1>1. CASE UNCHANGED vars
  BY <1>1, LogStays DEF vars, Faithful
<1>2. ASSUME NEW c \in Consumers, GetOrCreateStream(c) \/ Open(c) PROVE Faithful'
  <2>1. \A id \in Ids : streams'[id].actions = streams[id].actions
    <3>1. streams \in [Ids -> Streams] /\ IdOf[c] \in Ids
      BY ActionStorageAssumption DEF TypeOK
    <3>2. CASE GetOrCreateStream(c)
      BY <3>1, <3>2 DEF GetOrCreateStream, Streams
    <3>3. CASE Open(c)
      BY <3>1, <3>3 DEF Open, Streams
    <3> QED
      BY <1>2, <3>2, <3>3
  <2>2. UNCHANGED <<handled, script, given>>
    BY <1>2 DEF GetOrCreateStream, Open
  <2> QED
    BY <2>1, <2>2, LogStays DEF Faithful
<1>3. ASSUME NEW c \in Consumers, AppendAction(c) PROVE Faithful'
  BY <1>3, AppendKeepsFaith
<1>4. ASSUME NEW r \in Replays, After(r) PROVE Faithful'
  <2>1. UNCHANGED <<handled, script, streams>>
    BY <1>4 DEF After
  <2>2. ReplayGivesLog'
    BY <1>4, AfterGivesLog
  <2> QED
    BY <2>1, <2>2, LogStays DEF Faithful
<1> QED
  BY <1>1, <1>2, <1>3, <1>4 DEF Next

(* The logs are faithful in every state.                                   *)
LEMMA FaithfulInvariance == Spec => []Faithful
<1>1. TypeOK /\ InHandle /\ Faithful /\ [Next]_vars => Faithful'
  BY FaithfulStep
<1> QED
  BY FaithfulInitially, Invariance, <1>1, PTL DEF Spec

(* However many consumers hand over what, of one id or of several, and     *)
(* whenever replays read: no action that can be written is missing from    *)
(* the log of its id, doubled, out of order or in another log (storage.go, *)
(* Handle, Open and Append).                                               *)
THEOREM LogsAreWhole == Spec => []LogIsWhole
BY FaithfulInvariance, PTL DEF Faithful

(* Whatever a replay races with, it is given the log behind its first      *)
(* action without a gap, each action as good as the original for a client  *)
(* (storage.go, After; action.go, UnmarshalAction).                        *)
THEOREM ReplaysGiveLogs == Spec => []ReplayGivesLog
BY FaithfulInvariance, PTL DEF Faithful

(* Whatever the sessions of one id interleave and whatever cannot be       *)
(* written, the first action of a log, which no replay sees, is no answer. *)
THEOREM NoLogBeginsWithAnswer == Spec => []LogBeginsBeforeAnswers
BY FaithfulInvariance, PTL DEF Faithful
=============================================================================
