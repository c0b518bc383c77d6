--------------------------- MODULE DispatcherProofs ---------------------------
(***************************************************************************)
(* Theorems about Dispatcher, for every set of actions, handlers, senders  *)
(* and closers and every buffer size.                                      *)
(***************************************************************************)
EXTENDS Dispatcher, SequenceTheorems, TLAPS

(* The channel has room for at least one action.                           *)
LEMMA CapacityPositive == Capacity \in Nat \ {0}
BY DispatcherAssumption DEF Capacity

(* What is left of a script after some of it was skipped is a script.      *)
LEMMA SuffixIsSeq ==
  ASSUME NEW S, NEW q \in Seq(S), NEW i \in 2 .. Len(q) + 1
  PROVE  SubSeq(q, i, Len(q)) \in Seq(S)
<1>1. Len(q) \in Nat
  BY LenProperties
<1>2. i \in Int /\ Len(q) \in Int
  BY <1>1
<1>3. \A j \in i .. Len(q) : q[j] \in S
  BY <1>1, ElementOfSeq
<1>. QED
  BY <1>2, <1>3, SubSeqProperties

(* Every variable keeps its type, and every step is well defined: no Send  *)
(* without an action, no handler without one to handle (channel.go, Send   *)
(* and consume).                                                           *)
Typed == TypeOK /\ Control

(* The bus starts typed.                                                   *)
LEMMA InitTyped == Init => Typed
<1>. SUFFICES ASSUME Init PROVE Typed
  OBVIOUS
<1>1. /\ \A S : <<>> \in Seq(S)
      /\ Len(<<>>) = 0
  BY EmptySeq
<1>2. TypeOK
  <2>1. buf \in Seq(Actions) /\ Len(buf) <= Capacity
    BY <1>1, CapacityPositive DEF Init
  <2>2. out \in [Procs -> Seq(Actions)]
    BY <1>1 DEF Init
  <2>3. spc \in [Procs -> SendAt] /\ kpc \in [Closers -> CloserAt]
    BY DEF Init, SendAt, CloserAt
  <2>. QED
    BY <1>1, <2>1, <2>2, <2>3 DEF Init, TypeOK, ConsumerAt
<1>3. Control
  BY DEF Init, Control, Procs
<1>. QED
  BY <1>2, <1>3 DEF Typed

(* A registration keeps the types.                                         *)
LEMMA RegisterTyped ==
  ASSUME Typed, NEW h \in Handlers, Register(h)
  PROVE  Typed'
<1>1. registered' \in Seq(Handlers)
  BY AppendProperties DEF Typed, TypeOK, Register
<1>. QED
  BY <1>1
  DEF Typed, TypeOK, Control, Register, chanVars, consVars, sendVars, closeVars

(* A goroutine that starts to send takes one of its scripts.               *)
LEMMA BeginTyped ==
  ASSUME Typed, NEW s \in Senders, Begin(s)
  PROVE  Typed'
<1>1. PICK acts \in Scripts[s] : out' = [out EXCEPT ![s] = acts]
  BY DEF Begin
<1>2. acts \in Seq(Actions) /\ s \in Procs /\ s # Consumer /\ Consumer \in Procs
  BY DispatcherAssumption DEF Procs
<1>3. /\ out' \in [Procs -> Seq(Actions)]
      /\ \A p \in Procs \ {s} : out'[p] = out[p]
      /\ begun' = begun \cup {s}
      /\ s \notin begun
  BY <1>1, <1>2 DEF Typed, TypeOK, Begin
<1>4. UNCHANGED <<chanVars, consVars, closeVars, ctxDone, registered, crashed, cancelled,
                  spc, accepted>>
  BY DEF Begin
<1>5. TypeOK'
  BY <1>3, <1>4 DEF Typed, TypeOK, chanVars, consVars, closeVars
<1>6. spc[s] # "idle" => out'[s] # <<>>
  <2>1. out[s] = <<>>
    BY <1>3 DEF Typed, Control
  <2>2. spc[s] = "idle"
    BY <1>2, <2>1 DEF Typed, Control
  <2> QED
    BY <2>2
<1>7. Control'
  <2>1. \A p \in Procs : spc'[p] # "idle" => out'[p] # <<>>
    BY <1>3, <1>4, <1>6 DEF Typed, Control
  <2>2. \A t \in Senders \ begun' : out'[t] = <<>>
    <3>1. \A t \in Senders \ begun' : t \in Senders \ begun /\ t \in Procs \ {s}
      BY <1>3 DEF Procs
    <3> QED
      BY <1>3, <3>1 DEF Typed, Control
  <2>3. out'[Consumer] = out[Consumer] /\ UNCHANGED <<cpc, todo, received>>
    BY <1>2, <1>3, <1>4 DEF consVars
  <2> QED
    BY <2>1, <2>2, <2>3 DEF Typed, Control
<1>. QED
  BY <1>5, <1>7 DEF Typed

(* Only a sender with a context of its own is cancelled by its caller.     *)
LEMMA CancelCallerTyped ==
  ASSUME Typed, NEW s \in Senders, CancelCaller(s)
  PROVE  Typed'
BY DEF Typed, TypeOK, Control, CancelCaller, chanVars, consVars, closeVars

(* A failed Send leaves p outside Send, with a script.                     *)
LEMMA SendFailsTyped ==
  ASSUME Typed, NEW p \in Procs, out[p] # <<>>, SendFails(p)
  PROVE  /\ out' \in [Procs -> Seq(Actions)]
         /\ spc' = [spc EXCEPT ![p] = "idle"]
         /\ \A q \in Procs \ {p} : out'[q] = out[q]
         /\ p = Consumer => out'[p] = <<>>
<1>1. out[p] \in Seq(Actions) /\ out \in [Procs -> Seq(Actions)]
  BY DEF Typed, TypeOK
<1>2. CASE p = Consumer
  BY <1>1, <1>2, EmptySeq DEF SendFails
<1>3. CASE p # Consumer
  <2>1. PICK i \in 2 .. Len(out[p]) + 1 :
          out' = [out EXCEPT ![p] = SubSeq(out[p], i, Len(out[p]))]
    BY <1>1, <1>3 DEF SendFails
  <2>2. SubSeq(out[p], i, Len(out[p])) \in Seq(Actions)
    BY <1>1, SuffixIsSeq
  <2>. QED
    BY <1>1, <1>3, <2>1, <2>2 DEF SendFails
<1>. QED
  BY <1>2, <1>3

(* A failed Send that touches nothing else keeps the types.                *)
LEMMA SendFailsKeepsTyped ==
  ASSUME Typed, NEW p \in Procs, out[p] # <<>>, SendFails(p),
         UNCHANGED <<chanVars, consVars, closeVars, ctxDone, registered, crashed>>
  PROVE  Typed'
<1>1. /\ out' \in [Procs -> Seq(Actions)]
      /\ spc' = [spc EXCEPT ![p] = "idle"]
      /\ \A q \in Procs \ {p} : out'[q] = out[q]
      /\ p = Consumer => out'[p] = <<>>
  BY SendFailsTyped
<1>2. TypeOK'
  BY <1>1
  DEF Typed, TypeOK, SendFails, SendAt, chanVars, consVars, closeVars
<1>3. begun' = begun
  BY DEF SendFails
<1>4. Control'
  BY <1>1, <1>3 DEF Typed, TypeOK, Control, Procs, chanVars, consVars, closeVars
<1>. QED
  BY <1>2, <1>4 DEF Typed

(* Every step of Send keeps the types, the bound of the buffer included.   *)
LEMMA SendStepTyped ==
  ASSUME Typed, NEW p \in Procs, SendStep(p)
  PROVE  Typed'
<1>1. CASE SendCheckDispatcher(p)
  <2>1. CASE SendFails(p)
    BY <1>1, <2>1, SendFailsKeepsTyped DEF SendCheckDispatcher
  <2>2. CASE spc' = [spc EXCEPT ![p] = "channel"]
             /\ UNCHANGED <<begun, cancelled, out, accepted>>
    BY <1>1, <2>2
    DEF SendCheckDispatcher, Typed, TypeOK, Control, SendAt, chanVars, consVars,
        closeVars
  <2>. QED
    BY <1>1, <2>1, <2>2 DEF SendCheckDispatcher
<1>2. CASE SendCheckChannel(p)
  <2>0. out[p] # <<>>
    BY <1>2 DEF SendCheckChannel, Typed, Control
  <2>1. CASE SendFails(p)
    BY <1>2, <2>0, <2>1, SendFailsKeepsTyped DEF SendCheckChannel
  <2>2. CASE spc' = [spc EXCEPT ![p] = "select"]
             /\ UNCHANGED <<begun, cancelled, out, accepted>>
    BY <1>2, <2>0, <2>2
    DEF SendCheckChannel, Typed, TypeOK, Control, SendAt, chanVars, consVars,
        closeVars
  <2>. QED
    BY <1>2, <2>1, <2>2 DEF SendCheckChannel
<1>3. CASE SendAccepted(p)
  <2>1. out[p] # <<>> /\ out[p] \in Seq(Actions) /\ buf \in Seq(Actions)
        /\ accepted \in Seq(Actions)
    BY <1>3 DEF SendAccepted, Typed, Control, TypeOK
  <2>2. Head(out[p]) \in Actions /\ Tail(out[p]) \in Seq(Actions)
    BY <2>1, HeadTailProperties
  <2>3. /\ buf' \in Seq(Actions)
        /\ Len(buf') = Len(buf) + 1
        /\ accepted' \in Seq(Actions)
    BY <1>3, <2>1, <2>2, AppendProperties DEF SendAccepted
  <2>4. Len(buf') <= Capacity
    BY <1>3, <2>1, <2>3, CapacityPositive, LenProperties DEF SendAccepted
  <2>5. TypeOK'
    BY <1>3, <2>2, <2>3, <2>4
    DEF SendAccepted, Typed, TypeOK, SendAt, consVars, closeVars
  <2>6. Control'
    BY <1>3 DEF SendAccepted, Typed, TypeOK, Control, Procs, consVars, closeVars
  <2>. QED
    BY <2>5, <2>6 DEF Typed
<1>4. CASE SendCancelled(p)
  <2>1. out[p] # <<>>
    BY <1>4 DEF SendCancelled, Typed, Control
  <2>. QED
    BY <1>4, <2>1, SendFailsKeepsTyped DEF SendCancelled
<1>5. CASE SendPanics(p)
  BY <1>5
  DEF SendPanics, Typed, TypeOK, Control, chanVars, consVars, sendVars, closeVars
<1>. QED
  BY <1>1, <1>2, <1>3, <1>4, <1>5 DEF SendStep

(* Every step of the consumer keeps the types.                             *)
LEMMA ConsumerStepTyped ==
  ASSUME Typed, ConsumerStep
  PROVE  Typed'
<1>. USE DEF ConsumerKeeps, chanVars, consVars, sendVars, closeVars
<1>1. CASE ConsumeCheck
  BY <1>1 DEF ConsumeCheck, Typed, TypeOK, Control, ConsumerAt
<1>2. CASE ReceiveCheck
  BY <1>2 DEF ReceiveCheck, Typed, TypeOK, Control, ConsumerAt
<1>3. CASE Receive
  <2>1. buf \in Seq(Actions) /\ buf # <<>> /\ received \in Seq(Actions)
    BY <1>3 DEF Receive, Typed, TypeOK
  <2>2. /\ Head(buf) \in Actions
        /\ buf' \in Seq(Actions)
        /\ Len(buf') = Len(buf) - 1
    BY <1>3, <2>1, HeadTailProperties DEF Receive
  <2>3. received' \in Seq(Actions) /\ received' # <<>>
    BY <1>3, <2>1, <2>2, AppendProperties DEF Receive
  <2>4. Len(buf') <= Capacity
    BY <2>1, <2>2, CapacityPositive, LenProperties DEF Typed, TypeOK
  <2>5. TypeOK'
    BY <1>3, <2>2, <2>3, <2>4 DEF Receive, Typed, TypeOK, ConsumerAt
  <2>6. Control'
    BY <1>3, <2>3 DEF Receive, Typed, Control
  <2>. QED
    BY <2>5, <2>6 DEF Typed
<1>4. CASE ReceiveFails
  BY <1>4 DEF ReceiveFails, Typed, TypeOK, Control, ConsumerAt
<1>5. CASE Snapshot
  BY <1>5 DEF Snapshot, Typed, TypeOK, Control, ConsumerAt
<1>6. CASE PassOver
  <2>1. todo' \in Seq(Handlers)
    BY <1>6, HeadTailProperties DEF PassOver, Typed, TypeOK
  <2>. QED
    BY <1>6, <2>1 DEF PassOver, Typed, TypeOK, Control
<1>7. CASE InvokeNext
  <2>1. /\ todo \in Seq(Handlers) /\ todo # <<>>
        /\ received \in Seq(Actions) /\ received # <<>>
    BY <1>7 DEF InvokeNext, Typed, TypeOK, Control
  <2>2. Head(todo) \in Handlers
    BY <2>1, HeadTailProperties
  <2>3. Current \in Actions
    BY <2>1, EmptySeq, ElementOfSeq DEF Current
  <2>4. PICK acts \in Emits[Head(todo)][Current] : Invoke(acts)
    BY <1>7 DEF InvokeNext
  <2>5. acts \in Seq(Actions) /\ Consumer \in Procs /\ Consumer \notin Senders
    BY <2>2, <2>3, DispatcherAssumption DEF Procs
  <2>6. TypeOK'
    BY <2>4, <2>5 DEF Invoke, Typed, TypeOK, ConsumerAt
  <2>7. spc[Consumer] = "idle"
    BY <2>4, <2>5 DEF Invoke, Typed, Control
  <2>8. Control'
    BY <2>1, <2>4, <2>5, <2>7 DEF Invoke, Typed, TypeOK, Control
  <2>. QED
    BY <2>6, <2>8 DEF Typed
<1>8. CASE HandlerReturns
  <2>1. todo' \in Seq(Handlers)
    BY <1>8, HeadTailProperties DEF HandlerReturns, Typed, TypeOK, Control
  <2>. QED
    BY <1>8, <2>1 DEF HandlerReturns, Typed, TypeOK, Control, ConsumerAt
<1>9. CASE DispatchEnds
  BY <1>9 DEF DispatchEnds, Typed, TypeOK, Control, ConsumerAt
<1>10. CASE ConsumerCancels
  BY <1>10 DEF ConsumerCancels, Typed, TypeOK, Control, ConsumerAt
<1>11. CASE ConsumerDone
  BY <1>11 DEF ConsumerDone, Typed, TypeOK, Control, ConsumerAt
<1>. QED
  BY <1>1, <1>2, <1>3, <1>4, <1>5, <1>6, <1>7, <1>8, <1>9, <1>10, <1>11
  DEF ConsumerStep

(* The cancelling of the context keeps the types.                          *)
LEMMA WatchTyped ==
  ASSUME Typed, Watch
  PROVE  Typed'
BY DEF Watch, Typed, TypeOK, Control, chanVars, consVars, sendVars, closeVars

(* Every step of Session.Close keeps the types.                            *)
LEMMA CloserTyped ==
  ASSUME Typed, NEW k \in Closers, CloseSession(k) \/ CloserStep(k)
  PROVE  Typed'
<1>1. \A from, to : Goto(k, from, to) /\ to \in CloserAt =>
        /\ kpc' \in [Closers -> CloserAt]
        /\ CloserKeeps
  BY DEF Goto, Typed, TypeOK
<1>2. /\ kpc' \in [Closers -> CloserAt]
      /\ CloserKeeps
      /\ chClosed' \in BOOLEAN /\ chShut' \in BOOLEAN /\ dClosed' \in BOOLEAN
      /\ stopped' \in BOOLEAN /\ sClosed' \in BOOLEAN
  BY <1>1
  DEF Typed, TypeOK, CloserAt, CloseSession, CloserStep, MarkSession,
      CloseDispatcher, MarkDispatcher, CloseStopChan, AwaitConsumer,
      CloseChannel, MarkChannel, ShutChannel
<1>. QED
  BY <1>2 DEF CloserKeeps, Typed, TypeOK, Control, consVars, sendVars

(* Every step of the bus keeps the types.                                  *)
LEMMA NextTyped == Typed /\ [Next]_vars => Typed'
<1>. SUFFICES ASSUME Typed, [Next]_vars PROVE Typed'
  OBVIOUS
<1>1. CASE UNCHANGED vars
  BY <1>1
  DEF Typed, TypeOK, Control, vars, chanVars, consVars, sendVars, closeVars
<1>2. CASE Next
  BY <1>2, RegisterTyped, BeginTyped, CancelCallerTyped, SendStepTyped,
     ConsumerStepTyped, WatchTyped, CloserTyped
  DEF Next
<1>. QED
  BY <1>1, <1>2

(* The types, and the control that goes with them, always hold.            *)
LEMMA AlwaysTyped == Spec => []Typed
BY InitTyped, NextTyped, PTL DEF Spec

(* Every variable of the bus keeps its type, the buffer its bound.         *)
THEOREM TypeCorrect == Spec => []TypeOK
<1>1. Typed => TypeOK
  BY DEF Typed
<1>. QED
  BY <1>1, AlwaysTyped, PTL
-----------------------------------------------------------------------------
(* Moving the head of one sequence to the end of another leaves their      *)
(* concatenation as it is.                                                 *)
LEMMA MoveHead ==
  ASSUME NEW S, NEW r \in Seq(S), NEW b \in Seq(S), b # <<>>
  PROVE  Append(r, Head(b)) \o Tail(b) = r \o b
<1>1. /\ Head(b) \in S /\ Tail(b) \in Seq(S)
      /\ Len(b) \in Nat \ {0} /\ Len(r) \in Nat
      /\ Len(Tail(b)) = Len(b) - 1
      /\ \A i \in 1 .. Len(Tail(b)) : Tail(b)[i] = b[i + 1]
      /\ Head(b) = b[1]
  BY HeadTailProperties, EmptySeq, LenProperties
<1>2. /\ Append(r, Head(b)) \in Seq(S)
      /\ Len(Append(r, Head(b))) = Len(r) + 1
      /\ \A i \in 1 .. Len(r) : Append(r, Head(b))[i] = r[i]
      /\ Append(r, Head(b))[Len(r) + 1] = Head(b)
  BY <1>1, AppendProperties
<1>. DEFINE left == Append(r, Head(b)) \o Tail(b)
            right == r \o b
<1>3. /\ left \in Seq(S)
      /\ Len(left) = Len(r) + Len(b)
      /\ \A i \in 1 .. Len(r) + Len(b) :
           left[i] = IF i <= Len(r) + 1 THEN Append(r, Head(b))[i]
                                        ELSE Tail(b)[i - (Len(r) + 1)]
  BY <1>1, <1>2, ConcatProperties
<1>4. /\ right \in Seq(S)
      /\ Len(right) = Len(r) + Len(b)
      /\ \A i \in 1 .. Len(r) + Len(b) :
           right[i] = IF i <= Len(r) THEN r[i] ELSE b[i - Len(r)]
  BY <1>1, ConcatProperties
<1>5. ASSUME NEW i \in 1 .. Len(r) + Len(b)
      PROVE  left[i] = right[i]
  <2>1. CASE i <= Len(r)
    BY <1>1, <1>2, <1>3, <1>4, <2>1
  <2>2. CASE i = Len(r) + 1
    BY <1>1, <1>2, <1>3, <1>4, <2>2
  <2>3. CASE i > Len(r) + 1
    <3>1. i - (Len(r) + 1) \in 1 .. Len(Tail(b))
      BY <1>1, <2>3
    <3>. QED
      BY <1>1, <1>3, <1>4, <2>3, <3>1
  <2>. QED
    BY <1>1, <2>1, <2>2, <2>3
<1>. QED
  BY <1>3, <1>4, <1>5, SeqEqual

(* Only an accepting Send and Receive touch the three sequences.           *)
LEMMA OthersKeepQueues ==
  ASSUME Next
  PROVE  \/ UNCHANGED <<buf, accepted, received>>
         \/ \E p \in Procs : SendAccepted(p)
         \/ Receive
<1>. USE DEF ConsumerKeeps, CloserKeeps, chanVars, consVars, sendVars
<1>1. ASSUME NEW p \in Procs, SendStep(p), ~SendAccepted(p)
      PROVE  UNCHANGED <<buf, accepted, received>>
  BY <1>1
  DEF SendStep, SendCheckDispatcher, SendCheckChannel, SendCancelled,
      SendPanics, SendFails
<1>2. ASSUME ConsumerStep, ~Receive
      PROVE  UNCHANGED <<buf, accepted, received>>
  BY <1>2
  DEF ConsumerStep, ConsumeCheck, ReceiveCheck, ReceiveFails, Snapshot, PassOver,
      InvokeNext, Invoke, HandlerReturns, DispatchEnds, ConsumerCancels,
      ConsumerDone
<1>3. ASSUME NEW k \in Closers, CloseSession(k) \/ CloserStep(k)
      PROVE  UNCHANGED <<buf, accepted, received>>
  BY <1>3
  DEF Goto, CloseSession, CloserStep, MarkSession, CloseDispatcher,
      MarkDispatcher, CloseStopChan, AwaitConsumer, CloseChannel, MarkChannel,
      ShutChannel
<1>. QED
  BY <1>1, <1>2, <1>3 DEF Next, Register, Begin, CancelCaller, Watch

(* Every step keeps what was accepted, in its order.                       *)
LEMMA NextConserves == Typed /\ Conservation /\ [Next]_vars => Conservation'
<1>. SUFFICES ASSUME Typed, Conservation, [Next]_vars PROVE Conservation'
  OBVIOUS
<1>0. /\ buf \in Seq(Actions) /\ received \in Seq(Actions)
      /\ accepted = received \o buf
  BY DEF Typed, TypeOK, Conservation
<1>1. CASE UNCHANGED <<buf, accepted, received>>
  BY <1>0, <1>1 DEF Conservation
<1>2. ASSUME NEW p \in Procs, SendAccepted(p)
      PROVE  Conservation'
  <2>1. out[p] # <<>> /\ out[p] \in Seq(Actions)
    BY <1>2 DEF SendAccepted, Typed, TypeOK, Control
  <2>2. Head(out[p]) \in Actions
    BY <2>1, HeadTailProperties
  <2>. DEFINE a == Head(out[p])
  <2>3. <<a>> \in Seq(Actions)
    BY <2>2
  <2>4. received \o buf \in Seq(Actions)
    BY <1>0, ConcatProperties
  <2>5. Append(received \o buf, a) = (received \o buf) \o <<a>>
    BY <2>2, <2>4, AppendIsConcat
  <2>6. Append(buf, a) = buf \o <<a>>
    BY <1>0, <2>2, AppendIsConcat
  <2>7. (received \o buf) \o <<a>> = received \o (buf \o <<a>>)
    BY <1>0, <2>3, ConcatAssociative
  <2>8. /\ buf' = Append(buf, a)
        /\ accepted' = Append(accepted, a)
        /\ received' = received
    BY <1>2 DEF SendAccepted, consVars
  <2>. QED
    BY <1>0, <2>5, <2>6, <2>7, <2>8 DEF Conservation
<1>3. CASE Receive
  <2>1. /\ buf # <<>>
        /\ received' = Append(received, Head(buf))
        /\ buf' = Tail(buf)
        /\ accepted' = accepted
    BY <1>3 DEF Receive, ConsumerKeeps, sendVars
  <2>. QED
    BY <1>0, <2>1, MoveHead DEF Conservation
<1>4. CASE UNCHANGED vars
  BY <1>1, <1>4 DEF vars, chanVars, consVars, sendVars
<1>. QED
  BY <1>1, <1>2, <1>3, <1>4, OthersKeepQueues

(* What was accepted stays accounted for, whatever the closers do.         *)
LEMMA BusConserves == Spec => []Conservation
<1>1. Init => Conservation
  BY ConcatEmptySeq, EmptySeq DEF Init, Conservation
<1>. QED
  BY <1>1, AlwaysTyped, NextConserves, PTL DEF Spec
-----------------------------------------------------------------------------
(* Dispatcher.Close is the first to close anything that stops the bus, and *)
(* marks the dispatcher before it does: however many goroutines close the  *)
(* session, stopChan and the channel are closed after d.closed is set.     *)
DispatcherFirst ==
  /\ stopped \/ chClosed \/ chShut => dClosed
  /\ \A k \in Closers : kpc[k] \in AfterMark \ {"returned"} => dClosed

(* It holds of a bus nobody closes yet.                                    *)
LEMMA InitDispatcherFirst == Init => DispatcherFirst
BY DEF Init, DispatcherFirst, AfterMark

(* A step of a closer keeps it, whatever other closers do.                 *)
LEMMA CloserKeepsDispatcherFirst ==
  ASSUME Typed, DispatcherFirst, NEW k \in Closers, CloseSession(k) \/ CloserStep(k)
  PROVE  DispatcherFirst'
<1>0. kpc \in [Closers -> CloserAt]
  BY DEF Typed, TypeOK
<1>goto. ASSUME NEW from, NEW to, Goto(k, from, to), dClosed' = dClosed,
                to \in AfterMark \ {"returned"} => dClosed,
                stopped' \/ chClosed' \/ chShut' => dClosed
         PROVE  DispatcherFirst'
  BY <1>0, <1>goto DEF DispatcherFirst, Goto
<1>1. CASE CloseSession(k)
  BY <1>1, <1>goto DEF CloseSession, AfterMark, DispatcherFirst
<1>2. CASE MarkSession(k)
  BY <1>2, <1>goto DEF MarkSession, AfterMark, DispatcherFirst
<1>3. CASE CloseDispatcher(k)
  BY <1>3, <1>goto DEF CloseDispatcher, AfterMark, DispatcherFirst
<1>4. CASE MarkDispatcher(k)
  <2>1. dClosed' = TRUE
    BY <1>4 DEF MarkDispatcher
  <2>. QED
    BY <2>1 DEF DispatcherFirst
<1>5. CASE CloseStopChan(k)
  BY <1>5, <1>goto DEF CloseStopChan, AfterMark, DispatcherFirst, Goto
<1>6. CASE AwaitConsumer(k)
  BY <1>6, <1>goto DEF AwaitConsumer, AfterMark, DispatcherFirst, Goto
<1>7. CASE CloseChannel(k)
  BY <1>7, <1>goto DEF CloseChannel, AfterMark, DispatcherFirst, Goto
<1>8. CASE MarkChannel(k)
  BY <1>8, <1>goto DEF MarkChannel, AfterMark, DispatcherFirst, Goto
<1>9. CASE ShutChannel(k)
  BY <1>9, <1>goto DEF ShutChannel, AfterMark, DispatcherFirst, Goto
<1>. QED
  BY <1>1, <1>2, <1>3, <1>4, <1>5, <1>6, <1>7, <1>8, <1>9 DEF CloserStep

(* No other goroutine closes anything.                                     *)
LEMMA OthersCloseNothing ==
  ASSUME Next, \A k \in Closers : ~CloseSession(k) /\ ~CloserStep(k)
  PROVE  UNCHANGED <<closeVars, chClosed, chShut>>
<1>. USE DEF ConsumerKeeps, chanVars
<1>1. ASSUME NEW p \in Procs, SendStep(p)
      PROVE  UNCHANGED <<closeVars, chClosed, chShut>>
  BY <1>1
  DEF SendStep, SendCheckDispatcher, SendCheckChannel, SendAccepted, SendCancelled,
      SendPanics
<1>2. ASSUME ConsumerStep PROVE UNCHANGED <<closeVars, chClosed, chShut>>
  BY <1>2
  DEF ConsumerStep, ConsumeCheck, ReceiveCheck, Receive, ReceiveFails, Snapshot,
      PassOver, InvokeNext, Invoke, HandlerReturns, DispatchEnds, ConsumerCancels,
      ConsumerDone
<1>. QED
  BY <1>1, <1>2 DEF Next, Register, Begin, CancelCaller, Watch

(* Every step keeps the dispatcher first.                                  *)
LEMMA NextKeepsDispatcherFirst ==
  Typed /\ DispatcherFirst /\ [Next]_vars => DispatcherFirst'
<1>. SUFFICES ASSUME Typed, DispatcherFirst, [Next]_vars PROVE DispatcherFirst'
  OBVIOUS
<1>1. CASE UNCHANGED <<closeVars, chClosed, chShut>>
  BY <1>1 DEF DispatcherFirst, closeVars
<1>2. CASE UNCHANGED vars
  BY <1>1, <1>2 DEF vars, chanVars
<1>. QED
  BY <1>1, <1>2, CloserKeepsDispatcherFirst, OthersCloseNothing

(* However many goroutines close the session, that order holds.            *)
LEMMA AlwaysDispatcherFirst == Spec => []DispatcherFirst
BY InitDispatcherFirst, NextKeepsDispatcherFirst, AlwaysTyped, PTL DEF Spec
-----------------------------------------------------------------------------
(* The order of Session.Close.  CloseOrder says where a closer that is     *)
(* alone is when a flag is set.                                            *)

(* The order of the closes holds of a bus nobody closes yet.               *)
LEMMA InitCloseOrder == Init => CloseOrder
BY DEF Init, CloseOrder, AfterMark

(* The steps of the goroutines that do not close anything keep it.         *)
LEMMA OthersKeepCloseOrder ==
  ASSUME CloseOrder, UNCHANGED closeVars, UNCHANGED <<chClosed, chShut>>,
         cpc = "done" => cpc' = "done"
  PROVE  CloseOrder'
BY DEF CloseOrder, AfterMark, Alone, closeVars

(* A closer keeps that order if it is alone, and is company to the others. *)
LEMMA CloserKeepsCloseOrder ==
  ASSUME Typed, CloseOrder, NEW k \in Closers, CloseSession(k) \/ CloserStep(k)
  PROVE  CloseOrder'
<1>0. kpc \in [Closers -> CloserAt] /\ sClosed \in BOOLEAN
  BY DEF Typed, TypeOK
<1>1. PICK from, to : Goto(k, from, to) /\ to # "idle"
  BY DEF CloseSession, CloserStep, MarkSession, CloseDispatcher, MarkDispatcher,
         CloseStopChan, AwaitConsumer, CloseChannel, MarkChannel, ShutChannel
<1>2. /\ kpc'[k] = to /\ kpc'[k] # "idle" /\ cpc' = cpc
      /\ \A j \in Closers \ {k} : kpc'[j] = kpc[j]
  BY <1>0, <1>1 DEF Goto, CloserKeeps, consVars
<1>3. ASSUME NEW j \in Closers \ {k} PROVE ~Alone(j)'
  BY <1>2 DEF Alone
<1>4. Alone(k)' => Alone(k)
  BY <1>2 DEF Alone
<1>. DEFINE Order == /\ dClosed <=> kpc[k] \in AfterMark
                     /\ stopped <=> kpc[k] \in AfterMark \ {"stop"}
                     /\ chClosed <=> kpc[k] \in {"shut", "returned"}
                     /\ chShut <=> kpc[k] = "returned"
                     /\ sClosed <=> kpc[k] \notin {"idle", "mark"}
                     /\ kpc[k] # "panicked"
                     /\ kpc[k] \in AfterMark \ {"stop", "wait"} => cpc = "done"
<1>5. ASSUME Order PROVE Order'
  <2>. USE <1>0, <1>5 DEF AfterMark, Goto, CloserKeeps, consVars
  <2>1. CASE CloseSession(k)
    BY <2>1 DEF CloseSession
  <2>2. CASE MarkSession(k)
    BY <2>2 DEF MarkSession
  <2>3. CASE CloseDispatcher(k)
    BY <2>3 DEF CloseDispatcher
  <2>4. CASE MarkDispatcher(k)
    BY <2>4 DEF MarkDispatcher
  <2>5. CASE CloseStopChan(k)
    BY <2>5 DEF CloseStopChan
  <2>6. CASE AwaitConsumer(k)
    BY <2>6 DEF AwaitConsumer
  <2>7. CASE CloseChannel(k)
    BY <2>7 DEF CloseChannel
  <2>8. CASE MarkChannel(k)
    BY <2>8 DEF MarkChannel
  <2>9. CASE ShutChannel(k)
    BY <2>9 DEF ShutChannel
  <2>. QED
    BY <2>1, <2>2, <2>3, <2>4, <2>5, <2>6, <2>7, <2>8, <2>9 DEF CloserStep
<1>6. Alone(k)' => Order'
  BY <1>4, <1>5 DEF CloseOrder
<1>. QED
  BY <1>3, <1>6 DEF CloseOrder

(* Every step keeps that order.                                            *)
LEMMA NextKeepsCloseOrder == Typed /\ CloseOrder /\ [Next]_vars => CloseOrder'
<1>. SUFFICES ASSUME Typed, CloseOrder, [Next]_vars PROVE CloseOrder'
  OBVIOUS
<1>1. CASE UNCHANGED vars
  BY <1>1, OthersKeepCloseOrder DEF vars, chanVars, consVars
<1>2. ASSUME Next, \A k \in Closers : ~CloseSession(k) /\ ~CloserStep(k)
      PROVE  CloseOrder'
  <2>1. UNCHANGED <<closeVars, chClosed, chShut>>
    BY <1>2, OthersCloseNothing
  <2>2. cpc = "done" => cpc' = "done"
    <3>1. ConsumerStep => cpc # "done"
      BY DEF ConsumerStep, ConsumeCheck, ReceiveCheck, Receive, ReceiveFails, Snapshot,
             PassOver, InvokeNext, Invoke, HandlerReturns, DispatchEnds,
             ConsumerCancels, ConsumerDone
    <3>2. ASSUME NEW p \in Procs, SendStep(p) PROVE UNCHANGED cpc
      BY <3>2 DEF SendStep, SendCheckDispatcher, SendCheckChannel, SendAccepted,
                  SendCancelled, SendPanics, consVars
    <3>. QED
      BY <1>2, <3>1, <3>2 DEF Next, Register, Begin, CancelCaller, Watch, consVars
  <2>. QED
    BY <2>1, <2>2, OthersKeepCloseOrder
<1>. QED
  BY <1>1, <1>2, CloserKeepsCloseOrder

(* A goroutine that closes the session alone finds and leaves everything   *)
(* in order: it panics nowhere and closes the channel only when the        *)
(* consumer has finished (session.go, Session.Close).                      *)
THEOREM ClosesInOrder == Spec => []CloseOrder
BY InitCloseOrder, NextKeepsCloseOrder, AlwaysTyped, PTL DEF Spec

-----------------------------------------------------------------------------
(* The bus implements ActionQueue.  Nothing stops, and no panic ends the   *)
(* process, unless some goroutine has started to close the session.        *)
Closing == \E k \in Closers : kpc[k] # "idle"
Ended == cpc = "done" \/ ~Running

StopsOnlyWhenClosing ==
  \/ dClosed \/ stopped \/ chClosed \/ chShut \/ ctxDone \/ ~Running
  \/ cpc \in {"leaving", "left", "done"}
  => Closing

(* A new bus has not stopped.                                              *)
LEMMA InitStops == Init => StopsOnlyWhenClosing
BY DEF Init, StopsOnlyWhenClosing, Running

(* A goroutine that takes a step of Session.Close is one that closes.      *)
LEMMA CloserIsClosing ==
  ASSUME Typed, NEW k \in Closers, CloseSession(k) \/ CloserStep(k)
  PROVE  /\ Closing'
         /\ CloserStep(k) => Closing
         /\ CloserKeeps
<1>1. kpc \in [Closers -> CloserAt]
  BY DEF Typed, TypeOK
<1>2. \A from, to : Goto(k, from, to) /\ to # "idle" => Closing' /\ CloserKeeps
  BY <1>1 DEF Goto, Closing
<1>3. \A from, to : Goto(k, from, to) /\ from # "idle" => Closing
  BY DEF Goto, Closing
<1>4. CASE CloseSession(k)
  <2>1. ~CloserStep(k)
    BY <1>4
    DEF CloseSession, CloserStep, Goto, MarkSession, CloseDispatcher,
        MarkDispatcher, CloseStopChan, AwaitConsumer, CloseChannel, MarkChannel,
        ShutChannel
  <2>. QED
    BY <1>2, <1>4, <2>1 DEF CloseSession
<1>5. CASE CloserStep(k)
  BY <1>2, <1>3, <1>5
  DEF CloserStep, MarkSession, CloseDispatcher, MarkDispatcher, CloseStopChan,
      AwaitConsumer, CloseChannel, MarkChannel, ShutChannel
<1>. QED
  BY <1>4, <1>5

(* Every step keeps the bus going until some goroutine closes the session. *)
LEMMA NextStops == Typed /\ StopsOnlyWhenClosing /\ [Next]_vars
                     => StopsOnlyWhenClosing'
<1>. SUFFICES ASSUME Typed, StopsOnlyWhenClosing, [Next]_vars
              PROVE  StopsOnlyWhenClosing'
  OBVIOUS
<1>1. ASSUME NEW k \in Closers, CloseSession(k) \/ CloserStep(k)
      PROVE  StopsOnlyWhenClosing'
  BY <1>1, CloserIsClosing DEF StopsOnlyWhenClosing
<1>. USE DEF StopsOnlyWhenClosing, Closing, Running, ConsumerKeeps, chanVars,
             consVars, sendVars, closeVars
<1>2. ASSUME NEW p \in Procs, SendStep(p)
      PROVE  StopsOnlyWhenClosing'
  BY <1>2
  DEF SendStep, SendCheckDispatcher, SendCheckChannel, SendAccepted,
      SendCancelled, SendPanics
<1>3. CASE ConsumerStep
  BY <1>3
  DEF ConsumerStep, ConsumeCheck, ReceiveCheck, Receive, ReceiveFails, Snapshot,
      PassOver, InvokeNext, Invoke, HandlerReturns, DispatchEnds,
      ConsumerCancels, ConsumerDone
<1>4. CASE Watch
  BY <1>4 DEF Watch
<1>5. CASE UNCHANGED vars
  BY <1>5 DEF vars
<1>. QED
  BY <1>1, <1>2, <1>3, <1>4, <1>5 DEF Next, Register, Begin, CancelCaller

(* A Send panics only on a closed Go channel.                              *)
PanicNeedsShut == ~Running => chShut

(* Every step keeps it so.                                                 *)
LEMMA NextPanics == PanicNeedsShut /\ [Next]_vars => PanicNeedsShut'
<1>. SUFFICES ASSUME PanicNeedsShut, [Next]_vars PROVE PanicNeedsShut'
  OBVIOUS
<1>. USE DEF PanicNeedsShut, Running, ConsumerKeeps, chanVars
<1>1. ASSUME NEW p \in Procs, SendStep(p)
      PROVE  PanicNeedsShut'
  BY <1>1
  DEF SendStep, SendCheckDispatcher, SendCheckChannel, SendAccepted, SendCancelled,
      SendPanics
<1>2. CASE ConsumerStep
  BY <1>2
  DEF ConsumerStep, ConsumeCheck, ReceiveCheck, Receive, ReceiveFails, Snapshot,
      PassOver, InvokeNext, Invoke, HandlerReturns, DispatchEnds, ConsumerCancels,
      ConsumerDone
<1>3. ASSUME NEW k \in Closers, CloseSession(k) \/ CloserStep(k)
      PROVE  chShut => chShut'
  BY <1>3
  DEF Goto, CloserKeeps, CloseSession, CloserStep, MarkSession, CloseDispatcher, MarkDispatcher,
      CloseStopChan, AwaitConsumer, CloseChannel, MarkChannel, ShutChannel
<1>4. ASSUME NEW k \in Closers, CloseSession(k) \/ CloserStep(k)
      PROVE  PanicNeedsShut'
  <2>1. UNCHANGED crashed
    BY <1>4
    DEF Goto, CloserKeeps, CloseSession, CloserStep, MarkSession, CloseDispatcher,
        MarkDispatcher, CloseStopChan, AwaitConsumer, CloseChannel, MarkChannel,
        ShutChannel
  <2>. QED
    BY <1>3, <1>4, <2>1
<1>5. CASE UNCHANGED vars
  BY <1>5 DEF vars
<1>. QED
  BY <1>1, <1>2, <1>4, <1>5 DEF Next, Register, Begin, CancelCaller, Watch

(* With one closer, no handler is cut short by the end of the process.     *)
THEOREM SoleCloserCutsNoHandler ==
  ASSUME \A k1, k2 \in Closers : k1 = k2
  PROVE  Spec => []NoHandlerCut
<1>1. Init => PanicNeedsShut
  BY DEF Init, PanicNeedsShut, Running
<1>2. CloseOrder /\ StopsOnlyWhenClosing /\ PanicNeedsShut => NoHandlerCut
  <2>. SUFFICES ASSUME CloseOrder, StopsOnlyWhenClosing, PanicNeedsShut, ~Running
                PROVE  cpc = "done"
    BY DEF NoHandlerCut
  <2>1. PICK k \in Closers : kpc[k] # "idle"
    BY DEF StopsOnlyWhenClosing, Closing
  <2>2. Alone(k)
    BY DEF Alone
  <2>. QED
    BY <2>2 DEF CloseOrder, PanicNeedsShut, AfterMark
<1>. QED
  BY <1>1, <1>2, NextPanics, ClosesInOrder, InitStops, NextStops, AlwaysTyped, PTL
  DEF Spec

(* Every step of the bus is a step of ActionQueue or leaves it as it is.   *)
LEMMA StepImplements ==
  ASSUME Typed, Conservation, StopsOnlyWhenClosing, [Next]_vars
  PROVE  [AQ!Next]_AQ!vars
<1>. DEFINE Stutter == /\ UNCHANGED <<accepted, received>>
                       /\ Closing' <=> Closing
                       /\ Ended' <=> Ended
<1>1. ASSUME Stutter PROVE UNCHANGED AQ!vars
  <2>1. UNCHANGED <<accepted, received>>
    BY <1>1
  <2>2. (\E k \in Closers : kpc[k] # "idle")' = (\E k \in Closers : kpc[k] # "idle")
    BY <1>1 DEF Closing
  <2>3. (cpc = "done" \/ ~Running)' = (cpc = "done" \/ ~Running)
    BY <1>1 DEF Ended
  <2>. QED
    BY <2>1, <2>2, <2>3 DEF AQ!vars
<1>2. CASE UNCHANGED vars
  BY <1>1, <1>2
  DEF vars, consVars, sendVars, closeVars, Closing, Ended, Running
<1>3. ASSUME NEW p \in Procs, SendStep(p), Next
      PROVE  [AQ!Next]_AQ!vars
  <2>0. UNCHANGED kpc /\ UNCHANGED cpc /\ UNCHANGED received
    BY <1>3
    DEF SendStep, SendCheckDispatcher, SendCheckChannel, SendAccepted,
        SendCancelled, SendPanics, SendFails, consVars, closeVars
  <2>1. Closing' <=> Closing
    BY <2>0 DEF Closing
  <2>2. CASE SendAccepted(p)
    <3>1. out[p] # <<>> /\ out[p] \in Seq(Actions)
      BY <2>2 DEF SendAccepted, Typed, TypeOK, Control
    <3>2. Head(out[p]) \in Actions
      BY <3>1, HeadTailProperties
    <3>3. /\ accepted' = Append(accepted, Head(out[p]))
          /\ UNCHANGED crashed
      BY <2>2 DEF SendAccepted
    <3>4. Closing' = Closing /\ Ended' = Ended
      BY <2>0, <3>3 DEF Closing, Ended, Running
    <3>5. AQ!Accept
      BY <2>0, <3>2, <3>3, <3>4 DEF AQ!Accept, Closing, Ended
    <3>. QED
      BY <3>5 DEF AQ!Next
  <2>3. CASE SendPanics(p)
    <3>1. UNCHANGED accepted /\ ~Running' /\ chShut /\ Running
      BY <1>3, <2>3 DEF SendPanics, Running, sendVars, Next
    <3>2. Closing
      BY <3>1 DEF StopsOnlyWhenClosing
    <3>3. Ended'
      BY <3>1 DEF Ended
    <3>4. CASE Ended
      BY <1>1, <2>0, <2>1, <3>1, <3>3, <3>4
    <3>5. CASE ~Ended
      <4>1. Closing' = Closing /\ Ended' = TRUE
        BY <2>1, <3>3
      <4>2. AQ!End
        BY <2>0, <3>1, <3>2, <3>5, <4>1 DEF AQ!End, Closing, Ended
      <4>. QED
        BY <4>2 DEF AQ!Next
    <3>. QED
      BY <3>4, <3>5
  <2>4. CASE ~SendAccepted(p) /\ ~SendPanics(p)
    <3>1. UNCHANGED <<accepted, crashed>>
      BY <1>3, <2>4
      DEF SendStep, SendCheckDispatcher, SendCheckChannel, SendCancelled,
          SendFails
    <3>. QED
      BY <1>1, <2>0, <2>1, <3>1 DEF Ended, Running
  <2>. QED
    BY <2>2, <2>3, <2>4
<1>4. ASSUME ConsumerStep, Next
      PROVE  [AQ!Next]_AQ!vars
  <2>. USE DEF ConsumerKeeps, sendVars, closeVars
  <2>1. CASE Receive
    <3>1. /\ buf \in Seq(Actions) /\ buf # <<>> /\ received \in Seq(Actions)
          /\ received' = Append(received, Head(buf))
          /\ UNCHANGED <<accepted, crashed, kpc>>
          /\ accepted = received \o buf
          /\ ~Ended /\ ~Ended'
      BY <1>4, <2>1
      DEF Receive, Typed, TypeOK, Conservation, Next, Running, Ended
    <3>2. Len(buf) \in Nat \ {0} /\ Len(received) \in Nat
      BY <3>1, EmptySeq, LenProperties
    <3>3. Len(received) < Len(accepted)
          /\ accepted[Len(received) + 1] = buf[1]
      BY <3>1, <3>2, ConcatProperties
    <3>4. Head(buf) = buf[1]
      BY <3>1
    <3>5. Closing' = Closing /\ Ended' = Ended
      BY <3>1 DEF Closing, Ended
    <3>6. AQ!Deliver
      BY <3>1, <3>3, <3>4, <3>5 DEF AQ!Deliver, Closing, Ended
    <3>. QED
      BY <3>6 DEF AQ!Next
  <2>2. CASE ConsumerDone
    <3>1. /\ UNCHANGED <<accepted, received, kpc>>
          /\ ~Ended /\ Ended' /\ Closing
      BY <1>4, <2>2
      DEF ConsumerDone, Next, Running, Ended, StopsOnlyWhenClosing
    <3>2. Closing' = Closing /\ Ended' = TRUE
      BY <3>1 DEF Closing
    <3>3. AQ!End
      BY <3>1, <3>2 DEF AQ!End, Closing, Ended
    <3>. QED
      BY <3>3 DEF AQ!Next
  <2>3. CASE ~Receive /\ ~ConsumerDone
    <3>1. UNCHANGED <<accepted, received, kpc, crashed>> /\ cpc # "done"
          /\ cpc' # "done"
      BY <1>4, <2>3
      DEF ConsumerStep, ConsumeCheck, ReceiveCheck, ReceiveFails, Snapshot,
          PassOver, InvokeNext, Invoke, HandlerReturns, DispatchEnds,
          ConsumerCancels
    <3>. QED
      BY <1>1, <3>1 DEF Closing, Ended, Running
  <2>. QED
    BY <2>1, <2>2, <2>3
<1>5. ASSUME NEW k \in Closers, CloseSession(k) \/ CloserStep(k)
      PROVE  [AQ!Next]_AQ!vars
  <2>1. /\ UNCHANGED <<accepted, received, cpc, crashed>>
        /\ Closing'
    BY <1>5, CloserIsClosing DEF CloserKeeps, consVars, sendVars
  <2>2. Ended' = Ended
    BY <2>1 DEF Ended, Running
  <2>3. CASE Closing
    BY <1>1, <2>1, <2>2, <2>3
  <2>4. CASE ~Closing
    <3>1. AQ!RequestClose
      BY <2>1, <2>2, <2>4 DEF AQ!RequestClose, Closing, Ended
    <3>. QED
      BY <3>1 DEF AQ!Next
  <2>. QED
    BY <2>3, <2>4
<1>6. CASE \/ \E h \in Handlers : Register(h)
           \/ \E s \in Senders : Begin(s) \/ CancelCaller(s)
           \/ Watch
  <2>1. UNCHANGED <<accepted, received, cpc, crashed, kpc>>
    BY <1>6 DEF Register, Begin, CancelCaller, Watch, consVars, sendVars, closeVars
  <2>. QED
    BY <1>1, <2>1 DEF Closing, Ended, Running
<1>. QED
  BY <1>2, <1>3, <1>4, <1>5, <1>6 DEF Next

(* What the dispatcher hands out is what an ordered queue would: the       *)
(* safety part of ImplementsActionQueue, for any number of closers.        *)
THEOREM ImplementsQueueSafety == Spec => AQ!Safety
<1>1. Init => AQ!Init
  BY DEF Init, AQ!Init, Running
<1>2. Init => Conservation
  BY ConcatEmptySeq, EmptySeq DEF Init, Conservation
<1>3. Typed /\ Conservation /\ StopsOnlyWhenClosing /\ [Next]_vars
        => [AQ!Next]_AQ!vars
  BY StepImplements
<1>4. Typed /\ Conservation /\ [Next]_vars => Conservation'
  BY NextConserves
<1>. QED
  BY <1>1, <1>2, <1>3, <1>4, AlwaysTyped, InitStops, NextStops, PTL
  DEF Spec, AQ!Safety
=============================================================================
