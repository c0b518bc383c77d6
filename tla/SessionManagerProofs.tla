------------------------- MODULE SessionManagerProofs -------------------------
(***************************************************************************)
(* Theorems about SessionManager, for any requests and session ids.  What  *)
(* the map holds and what a lookup found are live sessions of the id       *)
(* (Named), and where a request is says what it has got and done (Placed); *)
(* as long as no two calls of the manager overlap, what a lookup found is  *)
(* still what the map holds (Serial).                                      *)
(***************************************************************************)
EXTENDS SessionManager, TLAPS

Named ==
  /\ \A id \in Ids :
       sessions[id] # None => sessions[id] \in Live /\ IdOf[sessions[id]] = id
  /\ \A r \in Requests :
       found[r] # None => found[r] \in Live /\ IdOf[found[r]] = IdOf[r]
  /\ closed \subseteq Live

HasFound == {"found", "forget", "test", "mark", "shut", "delete"}

Placed ==
  /\ \A r \in Requests : own[r] = "nothing" <=> pc[r] \in {"idle"} \cup InGetOrCreate
  /\ \A r \in Requests : pc[r] \in HasFound => found[r] # None
  /\ \A r \in Requests : pc[r] = "shut" => r \in closers
  /\ \A r \in Requests : pc[r] = "delete" => found[r] \in closed
  /\ \A r \in closers :
       pc[r] \in {"shut", "delete", "returned", "panicked"} /\ found[r] \in closed

(* A replaying client of the session's id has begun to close.              *)
Guest(s) == \E r \in closers : own[r] = "replay" /\ IdOf[r] = IdOf[s]

Serial ==
  /\ \A q, r \in Inside : q = r
  /\ \A r \in Requests : pc[r] \in HasFound => found[r] = sessions[IdOf[r]]
  /\ \A r \in Requests : pc[r] = "insert" => sessions[IdOf[r]] = None
  /\ \A r \in Requests : pc[r] = "forget" => found[r] \in closed
  /\ \A r \in Requests : pc[r] = "mark" => found[r] \notin closed
  /\ \A q, r \in closers : found[q] = found[r] => q = r
  /\ \A s \in closed : (s \in closers /\ found[s] = s) \/ Guest(s)

(* The steps of one request, and all steps.                                *)
StepCases(r) ==
  \/ Arrive(r) \/ Lookup(r) \/ CreateReplay(r) \/ RefuseReplay(r) \/ Forget(r)
  \/ Insert(r) \/ Disconnect(r) \/ ServePanics(r) \/ CloseLookup(r) \/ Test(r)
  \/ Mark(r) \/ Shut(r) \/ ShutPanics(r) \/ Delete(r)

(* The steps, one case for each operation.                                 *)
LEMMA NextCases ==
  ASSUME [Next]_vars
  PROVE  \/ \E r \in Requests : StepCases(r)
         \/ \E s \in Requests : ConsumerEnds(s)
         \/ MapRace
         \/ UNCHANGED vars
BY DEF Next, Step, StepCases
-----------------------------------------------------------------------------
(* No step leaves the types.                                               *)
LEMMA TypeStep ==
  ASSUME TypeOK, Placed, [Next]_vars
  PROVE  TypeOK'
<1> USE SessionManagerAssumption DEF TypeOK, Placed, Goto, Enter, HasFound,
                   InGetOrCreate, InClose, Ended
<1>1. ASSUME NEW r \in Requests, StepCases(r) PROVE TypeOK'
  <2>1. CASE Arrive(r)
    BY <2>1 DEF Arrive
  <2>2. CASE Lookup(r)
    BY <2>2 DEF Lookup
  <2>3. CASE CreateReplay(r)
    BY <2>3 DEF CreateReplay
  <2>4. CASE RefuseReplay(r)
    BY <2>4 DEF RefuseReplay
  <2>5. CASE Forget(r)
    BY <2>5 DEF Forget
  <2>6. CASE Insert(r)
    BY <2>6 DEF Insert
  <2>7. CASE Disconnect(r)
    BY <2>7 DEF Disconnect
  <2>8. CASE ServePanics(r)
    BY <2>8 DEF ServePanics
  <2>9. CASE CloseLookup(r)
    BY <2>9 DEF CloseLookup
  <2>10. CASE Test(r)
    BY <2>10 DEF Test
  <2>11. CASE Mark(r)
    BY <2>11 DEF Mark
  <2>12. CASE Shut(r)
    BY <2>12 DEF Shut
  <2>13. CASE ShutPanics(r)
    BY <2>13 DEF ShutPanics
  <2>14. CASE Delete(r)
    BY <2>14 DEF Delete
  <2> QED
    BY <1>1, <2>1, <2>2, <2>3, <2>4, <2>5, <2>6, <2>7, <2>8,
       <2>9, <2>10, <2>11, <2>12, <2>13, <2>14 DEF StepCases
<1>2. ASSUME NEW s \in Requests, ConsumerEnds(s) PROVE TypeOK'
  BY <1>2 DEF ConsumerEnds
<1>3. CASE MapRace
  BY <1>3 DEF MapRace
<1>4. CASE UNCHANGED vars
  BY <1>4 DEF vars
<1> QED
  BY <1>1, <1>2, <1>3, <1>4, NextCases

(* Nor does one put a request where it cannot be.                          *)
LEMMA PlacedStep ==
  ASSUME TypeOK, Placed, [Next]_vars
  PROVE  Placed'
<1> USE SessionManagerAssumption DEF TypeOK, Placed, Goto, Enter, HasFound,
                   InGetOrCreate, InClose, Ended
<1>1. ASSUME NEW r \in Requests, StepCases(r) PROVE Placed'
  <2>1. CASE Arrive(r)
    BY <2>1 DEF Arrive
  <2>2. CASE Lookup(r)
    BY <2>2 DEF Lookup
  <2>3. CASE CreateReplay(r)
    BY <2>3 DEF CreateReplay
  <2>4. CASE RefuseReplay(r)
    BY <2>4 DEF RefuseReplay
  <2>5. CASE Forget(r)
    BY <2>5 DEF Forget
  <2>6. CASE Insert(r)
    BY <2>6 DEF Insert
  <2>7. CASE Disconnect(r)
    BY <2>7 DEF Disconnect
  <2>8. CASE ServePanics(r)
    BY <2>8 DEF ServePanics
  <2>9. CASE CloseLookup(r)
    BY <2>9 DEF CloseLookup
  <2>10. CASE Test(r)
    BY <2>10 DEF Test
  <2>11. CASE Mark(r)
    BY <2>11 DEF Mark
  <2>12. CASE Shut(r)
    BY <2>12 DEF Shut
  <2>13. CASE ShutPanics(r)
    BY <2>13 DEF ShutPanics
  <2>14. CASE Delete(r)
    BY <2>14 DEF Delete
  <2> QED
    BY <1>1, <2>1, <2>2, <2>3, <2>4, <2>5, <2>6, <2>7, <2>8,
       <2>9, <2>10, <2>11, <2>12, <2>13, <2>14 DEF StepCases
<1>2. ASSUME NEW s \in Requests, ConsumerEnds(s) PROVE Placed'
  BY <1>2 DEF ConsumerEnds
<1>3. CASE MapRace
  BY <1>3 DEF MapRace
<1>4. CASE UNCHANGED vars
  BY <1>4 DEF vars
<1> QED
  BY <1>1, <1>2, <1>3, <1>4, NextCases

(* Only Insert makes a session, under its request's id.                    *)
LEMMA NamedStep ==
  ASSUME TypeOK, Placed, Named, [Next]_vars
  PROVE  Named'
<1> USE SessionManagerAssumption DEF TypeOK, Placed, Named, Live, Goto, Enter, HasFound,
                   InGetOrCreate, InClose, Ended
<1>1. ASSUME NEW r \in Requests, StepCases(r) PROVE Named'
  <2>1. CASE Arrive(r)
    BY <2>1 DEF Arrive
  <2>2. CASE Lookup(r)
    BY <2>2 DEF Lookup
  <2>3. CASE CreateReplay(r)
    BY <2>3 DEF CreateReplay
  <2>4. CASE RefuseReplay(r)
    BY <2>4 DEF RefuseReplay
  <2>5. CASE Forget(r)
    BY <2>5 DEF Forget
  <2>6. CASE Insert(r)
    BY <2>6 DEF Insert
  <2>7. CASE Disconnect(r)
    BY <2>7 DEF Disconnect
  <2>8. CASE ServePanics(r)
    BY <2>8 DEF ServePanics
  <2>9. CASE CloseLookup(r)
    BY <2>9 DEF CloseLookup
  <2>10. CASE Test(r)
    BY <2>10 DEF Test
  <2>11. CASE Mark(r)
    BY <2>11 DEF Mark
  <2>12. CASE Shut(r)
    BY <2>12 DEF Shut
  <2>13. CASE ShutPanics(r)
    BY <2>13 DEF ShutPanics
  <2>14. CASE Delete(r)
    BY <2>14 DEF Delete
  <2> QED
    BY <1>1, <2>1, <2>2, <2>3, <2>4, <2>5, <2>6, <2>7, <2>8,
       <2>9, <2>10, <2>11, <2>12, <2>13, <2>14 DEF StepCases
<1>2. ASSUME NEW s \in Requests, ConsumerEnds(s) PROVE Named'
  BY <1>2 DEF ConsumerEnds
<1>3. CASE MapRace
  BY <1>3 DEF MapRace
<1>4. CASE UNCHANGED vars
  BY <1>4 DEF vars
<1> QED
  BY <1>1, <1>2, <1>3, <1>4, NextCases

(* The entry of a session that is closed is on its way out.                *)
LEMMA LeavingStep ==
  ASSUME TypeOK, Placed, Named, ClosedEntryIsLeaving, [Next]_vars
  PROVE  ClosedEntryIsLeaving'
<1> USE SessionManagerAssumption DEF TypeOK, Placed, Named, Live, Goto, Enter, HasFound,
                   InGetOrCreate, InClose, Ended, ClosedEntryIsLeaving
<1>1. ASSUME NEW r \in Requests, StepCases(r) PROVE ClosedEntryIsLeaving'
  <2>1. CASE Arrive(r)
    BY <2>1 DEF Arrive
  <2>2. CASE Lookup(r)
    BY <2>2 DEF Lookup
  <2>3. CASE CreateReplay(r)
    BY <2>3 DEF CreateReplay
  <2>4. CASE RefuseReplay(r)
    BY <2>4 DEF RefuseReplay
  <2>5. CASE Forget(r)
    BY <2>5 DEF Forget
  <2>6. CASE Insert(r)
    BY <2>6 DEF Insert
  <2>7. CASE Disconnect(r)
    BY <2>7 DEF Disconnect
  <2>8. CASE ServePanics(r)
    BY <2>8 DEF ServePanics
  <2>9. CASE CloseLookup(r)
    BY <2>9 DEF CloseLookup
  <2>10. CASE Test(r)
    BY <2>10 DEF Test
  <2>11. CASE Mark(r)
    BY <2>11 DEF Mark
  <2>12. CASE Shut(r)
    BY <2>12 DEF Shut
  <2>13. CASE ShutPanics(r)
    BY <2>13 DEF ShutPanics
  <2>14. CASE Delete(r)
    BY <2>14 DEF Delete
  <2> QED
    BY <1>1, <2>1, <2>2, <2>3, <2>4, <2>5, <2>6, <2>7, <2>8,
       <2>9, <2>10, <2>11, <2>12, <2>13, <2>14 DEF StepCases
<1>2. ASSUME NEW s \in Requests, ConsumerEnds(s) PROVE ClosedEntryIsLeaving'
  BY <1>2 DEF ConsumerEnds
<1>3. CASE MapRace
  BY <1>3 DEF MapRace
<1>4. CASE UNCHANGED vars
  BY <1>4 DEF vars
<1> QED
  BY <1>1, <1>2, <1>3, <1>4, NextCases

-----------------------------------------------------------------------------
(* In serial use nothing gets lost, outlived or closed twice.              *)
LEMMA SafeStep ==
  ASSUME TypeOK, Placed, Named, ~overlapped => Serial, SerialIsSafe, [Next]_vars
  PROVE  SerialIsSafe'
<1> USE SessionManagerAssumption DEF TypeOK, Placed, Named, Live, Goto, Enter, HasFound,
                   InGetOrCreate, InClose, Ended,
                   Serial, Inside, SerialIsSafe, Open, Rivals, MapReads, MapWrites
<1>1. ASSUME NEW r \in Requests, StepCases(r) PROVE SerialIsSafe'
  <2>1. CASE Arrive(r)
    BY <2>1 DEF Arrive
  <2>2. CASE Lookup(r)
    BY <2>2 DEF Lookup
  <2>3. CASE CreateReplay(r)
    BY <2>3 DEF CreateReplay
  <2>4. CASE RefuseReplay(r)
    BY <2>4 DEF RefuseReplay
  <2>5. CASE Forget(r)
    BY <2>5 DEF Forget
  <2>6. CASE Insert(r)
    BY <2>6 DEF Insert
  <2>7. CASE Disconnect(r)
    BY <2>7 DEF Disconnect
  <2>8. CASE ServePanics(r)
    BY <2>8 DEF ServePanics
  <2>9. CASE CloseLookup(r)
    BY <2>9 DEF CloseLookup
  <2>10. CASE Test(r)
    BY <2>10 DEF Test
  <2>11. CASE Mark(r)
    BY <2>11 DEF Mark
  <2>12. CASE Shut(r)
    BY <2>12 DEF Shut
  <2>13. CASE ShutPanics(r)
    BY <2>13 DEF ShutPanics
  <2>14. CASE Delete(r)
    BY <2>14 DEF Delete
  <2> QED
    BY <1>1, <2>1, <2>2, <2>3, <2>4, <2>5, <2>6, <2>7, <2>8,
       <2>9, <2>10, <2>11, <2>12, <2>13, <2>14 DEF StepCases
<1>2. ASSUME NEW s \in Requests, ConsumerEnds(s) PROVE SerialIsSafe'
  BY <1>2 DEF ConsumerEnds
<1>3. CASE MapRace
  BY <1>3 DEF MapRace
<1>4. CASE UNCHANGED vars
  BY <1>4 DEF vars
<1> QED
  BY <1>1, <1>2, <1>3, <1>4, NextCases

(* In serial use a lookup stays true until its call is over.               *)
LEMMA SerialStep ==
  ASSUME TypeOK, Placed, Named, SerialIsSafe, ~overlapped => Serial, [Next]_vars
  PROVE  (~overlapped => Serial)'
<1> USE SessionManagerAssumption DEF TypeOK, Placed, Named, Live, Goto, Enter, HasFound,
                   InGetOrCreate, InClose, Ended,
                   Serial, Guest, Inside, SerialIsSafe, Open
<1>1. ASSUME NEW r \in Requests, StepCases(r) PROVE (~overlapped => Serial)'
  <2>1. CASE Arrive(r)
    <3>1. SUFFICES ASSUME ~overlapped' PROVE Serial'
      OBVIOUS
    <3>2. ~overlapped /\ Inside = {}
      BY <2>1, <3>1 DEF Arrive
    <3>3. Inside' = {r}
      BY <2>1, <3>2 DEF Arrive
    <3> QED
      BY <2>1, <3>2, <3>3 DEF Arrive
  <2>2. CASE Lookup(r)
    BY <2>2 DEF Lookup
  <2>3. CASE CreateReplay(r)
    BY <2>3 DEF CreateReplay
  <2>4. CASE RefuseReplay(r)
    BY <2>4 DEF RefuseReplay
  <2>5. CASE Forget(r)
    BY <2>5 DEF Forget
  <2>6. CASE Insert(r)
    BY <2>6 DEF Insert
  <2>7. CASE Disconnect(r)
    <3>1. SUFFICES ASSUME ~overlapped' PROVE Serial'
      OBVIOUS
    <3>2. ~overlapped /\ Inside = {}
      BY <2>7, <3>1 DEF Disconnect
    <3>3. Inside' = {r}
      BY <2>7, <3>2 DEF Disconnect
    <3> QED
      BY <2>7, <3>2, <3>3 DEF Disconnect
  <2>8. CASE ServePanics(r)
    BY <2>8 DEF ServePanics
  <2>9. CASE CloseLookup(r)
    BY <2>9 DEF CloseLookup
  <2>10. CASE Test(r)
    BY <2>10 DEF Test
  <2>11. CASE Mark(r)
    BY <2>11 DEF Mark
  <2>12. CASE Shut(r)
    BY <2>12 DEF Shut
  <2>13. CASE ShutPanics(r)
    BY <2>13 DEF ShutPanics
  <2>14. CASE Delete(r)
    BY <2>14 DEF Delete
  <2> QED
    BY <1>1, <2>1, <2>2, <2>3, <2>4, <2>5, <2>6, <2>7, <2>8,
       <2>9, <2>10, <2>11, <2>12, <2>13, <2>14 DEF StepCases
<1>2. ASSUME NEW s \in Requests, ConsumerEnds(s) PROVE (~overlapped => Serial)'
  BY <1>2 DEF ConsumerEnds
<1>3. CASE MapRace
  BY <1>3 DEF MapRace
<1>4. CASE UNCHANGED vars
  BY <1>4 DEF vars
<1> QED
  BY <1>1, <1>2, <1>3, <1>4, NextCases

-----------------------------------------------------------------------------
(* The inductive invariant.                                                *)
IInv ==
  /\ TypeOK /\ Named /\ Placed
  /\ ~overlapped => Serial
  /\ SerialIsSafe
  /\ ClosedEntryIsLeaving

(* The invariant holds at the start.                                       *)
LEMMA Initially == Init => IInv
<1> SUFFICES ASSUME Init PROVE IInv
  OBVIOUS
<1> USE SessionManagerAssumption DEF Init
<1>1. TypeOK
  BY DEF TypeOK, InGetOrCreate, InClose, Ended
<1>2. Named
  BY DEF Named, Live
<1>3. Placed
  BY DEF Placed, InGetOrCreate, HasFound
<1>4. Serial
  BY DEF Serial, Inside, InGetOrCreate, InClose, HasFound
<1>5. SerialIsSafe
  BY DEF SerialIsSafe, Open, Live
<1>6. ClosedEntryIsLeaving
  BY DEF ClosedEntryIsLeaving
<1> QED
  BY <1>1, <1>2, <1>3, <1>4, <1>5, <1>6 DEF IInv

(* The invariant holds in every state.                                     *)
LEMMA Invariance == Spec => []IInv
<1>1. IInv /\ [Next]_vars => IInv'
  BY TypeStep, PlacedStep, NamedStep, SerialStep, SafeStep, LeavingStep DEF IInv
<1> QED
  BY Initially, <1>1, PTL DEF Spec

(* The map, the lookups, the flags and the places of the goroutines keep   *)
(* their types.                                                            *)
THEOREM TypeCorrect == Spec => []TypeOK
<1>1. IInv => TypeOK
  BY DEF IInv
<1> QED
  BY Invariance, <1>1, PTL

(* Calls that do not overlap keep one open session per id, in the map, and *)
(* close none twice (session.go, GetOrCreate and Close).                   *)
THEOREM SerialUseIsSafe == Spec => []SerialIsSafe
<1>1. IInv => SerialIsSafe
  BY DEF IInv
<1> QED
  BY Invariance, <1>1, PTL

(* Overlapping or not, a closed session stays in the map only while one of *)
(* its closers is at it, or because that closer panicked (session.go,      *)
(* Close).                                                                 *)
THEOREM ClosedEntriesLeave == Spec => []ClosedEntryIsLeaving
<1>1. IInv => ClosedEntryIsLeaving
  BY DEF IInv
<1> QED
  BY Invariance, <1>1, PTL

(* In serial use it takes a replaying client for a session to be closed    *)
(* under its own (session.go, ConnectAndServe).                            *)
THEOREM GuestsClose == Spec => []ClosedByGuestOnly
<1>1. IInv => ClosedByGuestOnly
  <2> SUFFICES ASSUME IInv, ~overlapped,
                      NEW s \in closed, pc[s] = "serve"
               PROVE  \E r \in closers : own[r] = "replay" /\ IdOf[r] = IdOf[s]
    BY DEF ClosedByGuestOnly
  <2>1. s \notin closers
    BY DEF IInv, Placed
  <2>2. (s \in closers /\ found[s] = s) \/ Guest(s)
    BY DEF IInv, Serial
  <2> QED
    BY <2>1, <2>2 DEF Guest
<1> QED
  BY Invariance, <1>1, PTL
=============================================================================
