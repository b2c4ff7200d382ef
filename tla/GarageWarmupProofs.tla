------------------------- MODULE GarageWarmupProofs -------------------------
(***************************************************************************)
(* Proofs about GarageWarmup, for any finite set of requests, any digests, *)
(* budgets and admission limits, with or without failures and clients that *)
(* disconnect.                                                             *)
(***************************************************************************)
EXTENDS GarageWarmup, FiniteSetTheorems, TLAPS

(***************************************************************************)
(* The inductive invariant.                                                *)
(***************************************************************************)
Fresh == {"new", "lookup"}

\* a cell belongs to the digest of everyone who has it, and was inserted
CellsFit ==
    /\ \A r \in Requests : pc[r] \in Fresh => cell[r] = None /\ value[r] = "empty"
    /\ \A r \in Requests : cell[r] # None => want[cell[r]] = want[r] /\ pc[cell[r]] \notin Fresh
    /\ \A d \in Digests : map[d] # None => want[map[d]] = d /\ pc[map[d]] \notin Fresh
    /\ \A r \in Requests : pc[r] \in {"wait", "remove"} \cup Filling => cell[r] # None

\* one request at a time runs the closure of a cell, which is empty until then
FillersFit == \A r \in Requests :
    pc[r] \in Filling => filler[cell[r]] = r /\ value[cell[r]] = "empty"

\* what a cell, a job or the place of a handler says about the artifact is true
ReportsTrue == \A r \in Requests :
    /\ value[r] = "ok" \/ job[r] = "ok" => want[r] \in prepared
    /\ pc[r] \in {"start", "executing"} => want[r] \in prepared
    /\ pc[r] = "remove" => value[cell[r]] = "err"

\* what ran was handed to the grid, and a reply ends the handler
RunsFit == \A r \in Requests :
    /\ run[r] # "none" => pc[r] \in {"executing", "done", "dropped"}
    /\ pc[r] # "done" => reply[r] = "none"

\* while a digest is undisturbed it has one cell, and once one preparation
OneAttempt == \A d \in Digests : Undisturbed(d) =>
    /\ \A r \in Requests : want[r] = d /\ cell[r] # None => cell[r] = map[d]
    /\ preparations[d] <= 1
    /\ preparations[d] = 1 => \/ \E r \in Requests : want[r] = d /\ pc[r] = "preparing"
                              \/ map[d] # None /\ value[map[d]] = "ok"

WarmupInv == /\ WarmupTypeOK /\ PermitsConserved
             /\ CellsFit /\ FillersFit /\ ReportsTrue /\ RunsFit /\ OneAttempt
             /\ HotBeforeLane /\ UnstartedNeverRan /\ FailedCellIsRemoved

(***************************************************************************)
(* Counting the handlers in some set of states.                            *)
(***************************************************************************)
LEMMA Moved ==
    ASSUME NEW r \in Requests, NEW S, NEW to,
           DOMAIN pc = Requests, pc' = [pc EXCEPT ![r] = to]
    PROVE /\ Cardinality(In(S)) \in Nat /\ Cardinality(In(S)') \in Nat
          /\ pc[r] \notin S /\ to \in S => Cardinality(In(S)') = Cardinality(In(S)) + 1
          /\ pc[r] \in S /\ to \notin S => Cardinality(In(S)') = Cardinality(In(S)) - 1
          /\ (pc[r] \in S <=> to \in S) => Cardinality(In(S)') = Cardinality(In(S))
<1>1. IsFiniteSet(In(S)) /\ IsFiniteSet(In(S)')
  <2>1. In(S) \subseteq Requests /\ In(S)' \subseteq Requests
    BY DEF In
  <2>2. QED
    BY <2>1, FS_Subset, RequestsAssumption
<1>2. Cardinality(In(S)) \in Nat /\ Cardinality(In(S)') \in Nat
  BY <1>1, FS_CardinalityType
<1>3. ASSUME pc[r] \notin S, to \in S PROVE Cardinality(In(S)') = Cardinality(In(S)) + 1
  <2>1. In(S)' = In(S) \cup {r} /\ r \notin In(S)
    BY <1>3 DEF In
  <2>2. QED
    BY <1>1, <2>1, FS_AddElement
<1>4. ASSUME pc[r] \in S, to \notin S PROVE Cardinality(In(S)') = Cardinality(In(S)) - 1
  <2>1. In(S)' = In(S) \ {r} /\ r \in In(S)
    BY <1>4 DEF In
  <2>2. QED
    BY <1>1, <2>1, FS_RemoveElement
<1>5. ASSUME pc[r] \in S <=> to \in S PROVE Cardinality(In(S)') = Cardinality(In(S))
  <2>1. In(S)' = In(S)
    BY <1>5 DEF In
  <2>2. QED
    BY <2>1
<1> QED
  BY <1>2, <1>3, <1>4, <1>5

LEMMA WarmupInit == Init => WarmupInv
<1> SUFFICES ASSUME Init PROVE WarmupInv
  OBVIOUS
<1> USE DEF Init
<1>1. WarmupTypeOK
  BY BudgetAssumption, NoneAssumption DEF WarmupTypeOK, Admitted, Filling
<1>2. PermitsConserved
  <2>1. In(HoldsPermit) = {} /\ In(Admitted) = {}
    BY DEF In, HoldsPermit, Admitted, Filling
  <2>2. QED
    BY <2>1, FS_EmptySet, BudgetAssumption DEF PermitsConserved
<1>3. CellsFit /\ FillersFit /\ ReportsTrue /\ RunsFit /\ OneAttempt
  BY DEF CellsFit, FillersFit, ReportsTrue, RunsFit, OneAttempt, Fresh, Filling
<1>4. HotBeforeLane /\ UnstartedNeverRan /\ FailedCellIsRemoved
  BY DefectsAssumption DEF HotBeforeLane, UnstartedNeverRan, FailedCellIsRemoved, Unstarted
<1> QED
  BY <1>1, <1>2, <1>3, <1>4 DEF WarmupInv

\* a step of one handler gives and takes what its place in the code holds
LEMMA PermitsMoved ==
    ASSUME WarmupInv, NEW r \in Requests, NEW to, pc' = [pc EXCEPT ![r] = to],
           \/ permits' = permits /\ (pc[r] \in HoldsPermit <=> to \in HoldsPermit)
           \/ permits' = permits + 1 /\ pc[r] \in HoldsPermit /\ to \notin HoldsPermit
           \/ permits' = permits - 1 /\ permits > 0 /\ pc[r] \notin HoldsPermit /\ to \in HoldsPermit,
           \/ pending' = pending /\ (pc[r] \in Admitted <=> to \in Admitted)
           \/ pending' = pending + 1 /\ pc[r] \in Admitted /\ to \notin Admitted
           \/ pending' = pending - 1 /\ pending > 0 /\ pc[r] \notin Admitted /\ to \in Admitted
    PROVE PermitsConserved' /\ permits' \in 0 .. Budget /\ pending' \in 0 .. MaxPending
<1>1. DOMAIN pc = Requests /\ permits \in Nat /\ pending \in Nat
      /\ permits + Cardinality(In(HoldsPermit)) = Budget
      /\ pending + Cardinality(In(Admitted)) = MaxPending
  BY DEF WarmupInv, WarmupTypeOK, PermitsConserved
<1>2. /\ Cardinality(In(HoldsPermit)) \in Nat /\ Cardinality(In(HoldsPermit)') \in Nat
      /\ pc[r] \notin HoldsPermit /\ to \in HoldsPermit =>
           Cardinality(In(HoldsPermit)') = Cardinality(In(HoldsPermit)) + 1
      /\ pc[r] \in HoldsPermit /\ to \notin HoldsPermit =>
           Cardinality(In(HoldsPermit)') = Cardinality(In(HoldsPermit)) - 1
      /\ (pc[r] \in HoldsPermit <=> to \in HoldsPermit) =>
           Cardinality(In(HoldsPermit)') = Cardinality(In(HoldsPermit))
  BY <1>1, Moved
<1>3. /\ Cardinality(In(Admitted)) \in Nat /\ Cardinality(In(Admitted)') \in Nat
      /\ pc[r] \notin Admitted /\ to \in Admitted =>
           Cardinality(In(Admitted)') = Cardinality(In(Admitted)) + 1
      /\ pc[r] \in Admitted /\ to \notin Admitted =>
           Cardinality(In(Admitted)') = Cardinality(In(Admitted)) - 1
      /\ (pc[r] \in Admitted <=> to \in Admitted) =>
           Cardinality(In(Admitted)') = Cardinality(In(Admitted))
  BY <1>1, Moved
<1>4. permits' \in Nat /\ permits' + Cardinality(In(HoldsPermit)') = Budget
  BY <1>1, <1>2
<1>5. pending' \in Nat /\ pending' + Cardinality(In(Admitted)') = MaxPending
  BY <1>1, <1>3
<1> QED
  BY <1>2, <1>3, <1>4, <1>5, BudgetAssumption DEF PermitsConserved

LEMMA PermitsStep ==
    ASSUME WarmupInv, NEW r \in Requests,
           \/ Refuse(r) \/ Overload(r) \/ Admit(r) \/ Handler(r) \/ BlockingTask(r) \/ Disconnect(r)
    PROVE PermitsConserved' /\ permits' \in 0 .. Budget /\ pending' \in 0 .. MaxPending
<1> USE DEF HoldsPermit, Admitted, Filling, Goto, Fill, limits
<1>1. CASE BlockingTask(r)
  <2>1. UNCHANGED <<pc, permits, pending>>
    BY <1>1 DEF BlockingTask, PreparationEnds, ExecutionEnds
  <2>2. QED
    BY <2>1 DEF WarmupInv, WarmupTypeOK, PermitsConserved, In
<1>2. CASE Refuse(r) \/ Overload(r) \/ Admit(r)
  BY <1>2, PermitsMoved DEF Refuse, Overload, Admit
<1>3. CASE Lookup(r) \/ BeginFill(r) \/ NotHot(r) \/ TakePermit(r) \/ StartExecution(r)
  BY <1>3, PermitsMoved DEF Lookup, BeginFill, NotHot, TakePermit, StartExecution
<1>4. CASE ReadCell(r) \/ RemoveCell(r) \/ Respond(r)
  BY <1>4, PermitsMoved DEF ReadCell, RemoveCell, Respond
<1>5. CASE Open(r) \/ Acquired(r) \/ Spawn(r)
  BY <1>5, PermitsMoved DEF Open, Acquired, Spawn
<1>6. CASE AlreadyHot(r) \/ AcquisitionFails(r) \/ Prepared(r)
  BY <1>6, PermitsMoved DEF AlreadyHot, AcquisitionFails, Prepared
<1>7. CASE Disconnect(r)
  BY <1>7, PermitsMoved DEF Disconnect, Suspended
<1> QED
  BY <1>1, <1>2, <1>3, <1>4, <1>5, <1>6, <1>7 DEF Handler
\* every variable keeps its type
LEMMA TypeStep ==
    ASSUME WarmupInv, NEW r \in Requests,
           \/ Refuse(r) \/ Overload(r) \/ Admit(r) \/ Handler(r) \/ BlockingTask(r) \/ Disconnect(r)
    PROVE WarmupTypeOK'
<1> USE PermitsStep, BudgetAssumption DEF WarmupInv, Goto, Answer, Fill, flight, store, limits, tasks, Filling, WarmupTypeOK, Admitted, Suspended, Unstarted
<1>1. CASE Refuse(r)
  BY <1>1 DEF Refuse
<1>2. CASE Overload(r)
  BY <1>2 DEF Overload
<1>3. CASE Admit(r)
  BY <1>3 DEF Admit
<1>4. CASE Lookup(r)
  BY <1>4 DEF Lookup
<1>5. CASE BeginFill(r)
  BY <1>5 DEF BeginFill
<1>6. CASE ReadCell(r)
  BY <1>6 DEF ReadCell
<1>7. CASE RemoveCell(r)
  BY <1>7 DEF RemoveCell
<1>8. CASE AlreadyHot(r)
  BY <1>8 DEF AlreadyHot
<1>9. CASE NotHot(r)
  BY <1>9 DEF NotHot
<1>10. CASE TakePermit(r)
  BY <1>10 DEF TakePermit
<1>11. CASE Open(r)
  BY <1>11 DEF Open
<1>12. CASE Acquired(r)
  BY <1>12 DEF Acquired
<1>13. CASE AcquisitionFails(r)
  BY <1>13 DEF AcquisitionFails
<1>14. CASE Spawn(r)
  BY <1>14 DEF Spawn
<1>15. CASE Prepared(r)
  BY <1>15 DEF Prepared
<1>16. CASE StartExecution(r)
  BY <1>16 DEF StartExecution
<1>17. CASE Respond(r)
  BY <1>17 DEF Respond
<1>18. CASE PreparationEnds(r)
  BY <1>18 DEF PreparationEnds
<1>19. CASE ExecutionEnds(r)
  BY <1>19 DEF ExecutionEnds
<1>20. CASE Disconnect(r)
  BY <1>20 DEF Disconnect
<1> QED
  BY <1>1, <1>2, <1>3, <1>4, <1>5, <1>6, <1>7, <1>8, <1>9, <1>10, <1>11, <1>12, <1>13, <1>14, <1>15, <1>16, <1>17, <1>18, <1>19, <1>20 DEF Handler, BlockingTask

\* a cell is filled for its own digest, by one request at a time
LEMMA CellsStep ==
    ASSUME WarmupInv, NEW r \in Requests,
           \/ Refuse(r) \/ Overload(r) \/ Admit(r) \/ Handler(r) \/ BlockingTask(r) \/ Disconnect(r)
    PROVE CellsFit' /\ FillersFit'
<1> USE NoneAssumption DEF WarmupInv, Goto, Answer, Fill, flight, store, limits, tasks, Filling, WarmupTypeOK, CellsFit, FillersFit, ReportsTrue, Fresh, Suspended
<1>1. CASE Refuse(r)
  BY <1>1 DEF Refuse
<1>2. CASE Overload(r)
  BY <1>2 DEF Overload
<1>3. CASE Admit(r)
  BY <1>3 DEF Admit
<1>4. CASE Lookup(r)
  BY <1>4 DEF Lookup
<1>5. CASE BeginFill(r)
  BY <1>5 DEF BeginFill
<1>6. CASE ReadCell(r)
  BY <1>6 DEF ReadCell
<1>7. CASE RemoveCell(r)
  BY <1>7 DEF RemoveCell
<1>8. CASE AlreadyHot(r)
  BY <1>8 DEF AlreadyHot
<1>9. CASE NotHot(r)
  BY <1>9 DEF NotHot
<1>10. CASE TakePermit(r)
  BY <1>10 DEF TakePermit
<1>11. CASE Open(r)
  BY <1>11 DEF Open
<1>12. CASE Acquired(r)
  BY <1>12 DEF Acquired
<1>13. CASE AcquisitionFails(r)
  BY <1>13 DEF AcquisitionFails
<1>14. CASE Spawn(r)
  BY <1>14 DEF Spawn
<1>15. CASE Prepared(r)
  BY <1>15 DEF Prepared
<1>16. CASE StartExecution(r)
  BY <1>16 DEF StartExecution
<1>17. CASE Respond(r)
  BY <1>17 DEF Respond
<1>18. CASE PreparationEnds(r)
  BY <1>18 DEF PreparationEnds
<1>19. CASE ExecutionEnds(r)
  BY <1>19 DEF ExecutionEnds
<1>20. CASE Disconnect(r)
  BY <1>20 DEF Disconnect
<1> QED
  BY <1>1, <1>2, <1>3, <1>4, <1>5, <1>6, <1>7, <1>8, <1>9, <1>10, <1>11, <1>12, <1>13, <1>14, <1>15, <1>16, <1>17, <1>18, <1>19, <1>20 DEF Handler, BlockingTask

\* reports, replies and the map keep telling the truth
LEMMA TruthStep ==
    ASSUME WarmupInv, NEW r \in Requests,
           \/ Refuse(r) \/ Overload(r) \/ Admit(r) \/ Handler(r) \/ BlockingTask(r) \/ Disconnect(r)
    PROVE ReportsTrue' /\ RunsFit' /\ HotBeforeLane' /\ UnstartedNeverRan' /\ FailedCellIsRemoved'
<1> USE NoneAssumption, DefectsAssumption DEF WarmupInv, Goto, Answer, Fill, flight, store, limits, tasks, Filling, WarmupTypeOK, CellsFit, FillersFit, ReportsTrue, RunsFit, HotBeforeLane, UnstartedNeverRan, FailedCellIsRemoved, Unstarted, In, Fresh, Suspended
<1>1. CASE Refuse(r)
  BY <1>1 DEF Refuse
<1>2. CASE Overload(r)
  BY <1>2 DEF Overload
<1>3. CASE Admit(r)
  BY <1>3 DEF Admit
<1>4. CASE Lookup(r)
  BY <1>4 DEF Lookup
<1>5. CASE BeginFill(r)
  BY <1>5 DEF BeginFill
<1>6. CASE ReadCell(r)
  BY <1>6 DEF ReadCell
<1>7. CASE RemoveCell(r)
  BY <1>7 DEF RemoveCell
<1>8. CASE AlreadyHot(r)
  BY <1>8 DEF AlreadyHot
<1>9. CASE NotHot(r)
  BY <1>9 DEF NotHot
<1>10. CASE TakePermit(r)
  BY <1>10 DEF TakePermit
<1>11. CASE Open(r)
  BY <1>11 DEF Open
<1>12. CASE Acquired(r)
  BY <1>12 DEF Acquired
<1>13. CASE AcquisitionFails(r)
  BY <1>13 DEF AcquisitionFails
<1>14. CASE Spawn(r)
  BY <1>14 DEF Spawn
<1>15. CASE Prepared(r)
  BY <1>15 DEF Prepared
<1>16. CASE StartExecution(r)
  BY <1>16 DEF StartExecution
<1>17. CASE Respond(r)
  BY <1>17 DEF Respond
<1>18. CASE PreparationEnds(r)
  BY <1>18 DEF PreparationEnds
<1>19. CASE ExecutionEnds(r)
  BY <1>19 DEF ExecutionEnds
<1>20. CASE Disconnect(r)
  BY <1>20 DEF Disconnect
<1> QED
  BY <1>1, <1>2, <1>3, <1>4, <1>5, <1>6, <1>7, <1>8, <1>9, <1>10, <1>11, <1>12, <1>13, <1>14, <1>15, <1>16, <1>17, <1>18, <1>19, <1>20 DEF Handler, BlockingTask

\* an undisturbed digest keeps its one cell and its one preparation
LEMMA OneAttemptStep ==
    ASSUME WarmupInv, NEW r \in Requests,
           \/ Refuse(r) \/ Overload(r) \/ Admit(r) \/ Handler(r) \/ BlockingTask(r) \/ Disconnect(r)
    PROVE OneAttempt'
<1> USE NoneAssumption DEF WarmupInv, Goto, Answer, Fill, flight, store, limits, tasks, Filling, WarmupTypeOK, CellsFit, FillersFit, ReportsTrue, OneAttempt, Undisturbed, Fresh, Suspended
<1>1. CASE Refuse(r)
  BY <1>1 DEF Refuse
<1>2. CASE Overload(r)
  BY <1>2 DEF Overload
<1>3. CASE Admit(r)
  BY <1>3 DEF Admit
<1>4. CASE Lookup(r)
  BY <1>4 DEF Lookup
<1>5. CASE BeginFill(r)
  BY <1>5 DEF BeginFill
<1>6. CASE ReadCell(r)
  BY <1>6 DEF ReadCell
<1>7. CASE RemoveCell(r)
  BY <1>7 DEF RemoveCell
<1>8. CASE AlreadyHot(r)
  BY <1>8 DEF AlreadyHot
<1>9. CASE NotHot(r)
  BY <1>9 DEF NotHot
<1>10. CASE TakePermit(r)
  BY <1>10 DEF TakePermit
<1>11. CASE Open(r)
  BY <1>11 DEF Open
<1>12. CASE Acquired(r)
  BY <1>12 DEF Acquired
<1>13. CASE AcquisitionFails(r)
  BY <1>13 DEF AcquisitionFails
<1>14. CASE Spawn(r)
  BY <1>14 DEF Spawn
<1>15. CASE Prepared(r)
  BY <1>15 DEF Prepared
<1>16. CASE StartExecution(r)
  BY <1>16 DEF StartExecution
<1>17. CASE Respond(r)
  BY <1>17 DEF Respond
<1>18. CASE PreparationEnds(r)
  BY <1>18 DEF PreparationEnds
<1>19. CASE ExecutionEnds(r)
  BY <1>19 DEF ExecutionEnds
<1>20. CASE Disconnect(r)
  BY <1>20 DEF Disconnect
<1> QED
  BY <1>1, <1>2, <1>3, <1>4, <1>5, <1>6, <1>7, <1>8, <1>9, <1>10, <1>11, <1>12, <1>13, <1>14, <1>15, <1>16, <1>17, <1>18, <1>19, <1>20 DEF Handler, BlockingTask

(* The conjunction is inductive: no step of a handler, of a blocking task  *)
(* or of a client that goes away breaks any of its parts.                  *)
THEOREM WarmupInvariant == Spec => []WarmupInv
<1>1. WarmupInv /\ [Next]_vars => WarmupInv'
  <2> SUFFICES ASSUME WarmupInv, [Next]_vars PROVE WarmupInv'
    OBVIOUS
  <2>1. CASE UNCHANGED vars
    BY <2>1 DEF WarmupInv, vars, flight, store, limits, tasks, In, Preparing, Undisturbed,
                WarmupTypeOK, PermitsConserved, CellsFit, FillersFit, ReportsTrue, RunsFit,
                OneAttempt, HotBeforeLane, UnstartedNeverRan, FailedCellIsRemoved
  <2>2. CASE Next
    <3>1. PICK r \in Requests : \/ Refuse(r) \/ Overload(r) \/ Admit(r)
                                \/ Handler(r) \/ BlockingTask(r) \/ Disconnect(r)
      BY <2>2 DEF Next
    <3>2. WarmupTypeOK' /\ PermitsConserved'
      BY <3>1, TypeStep, PermitsStep
    <3>3. CellsFit' /\ FillersFit' /\ OneAttempt'
      BY <3>1, CellsStep, OneAttemptStep
    <3>4. ReportsTrue' /\ RunsFit' /\ HotBeforeLane' /\ UnstartedNeverRan' /\ FailedCellIsRemoved'
      BY <3>1, TruthStep
    <3> QED
      BY <3>2, <3>3, <3>4 DEF WarmupInv
  <2> QED
    BY <2>1, <2>2
<1> QED
  BY WarmupInit, <1>1, PTL DEF Spec

(* Every variable keeps its type; neither semaphore goes below zero or     *)
(* above its limit.                                                        *)
THEOREM WarmupTypeCorrect == Spec => []WarmupTypeOK
<1>1. WarmupInv => WarmupTypeOK
  BY DEF WarmupInv
<1> QED
  BY <1>1, WarmupInvariant, PTL

(* No path through execute loses or invents a permit of the preparation    *)
(* budget or of admission.                                                 *)
THEOREM PermitsAreConserved == Spec => []PermitsConserved
<1>1. WarmupInv => PermitsConserved
  BY DEF WarmupInv
<1> QED
  BY <1>1, WarmupInvariant, PTL

(* An execution is only handed to the grid when its artifact is prepared,  *)
(* also for a request that was given another request's report.             *)
THEOREM LaneAfterHot == Spec => []HotBeforeLane
<1>1. WarmupInv => HotBeforeLane
  BY DEF WarmupInv
<1> QED
  BY <1>1, WarmupInvariant, PTL

(* A response with started = false is true of the request for good.        *)
THEOREM UnstartedIsTrue == Spec => []UnstartedNeverRan
<1>1. WarmupInv => UnstartedNeverRan
  BY DEF WarmupInv
<1> QED
  BY <1>1, WarmupInvariant, PTL

(* A failed cell in the map has a caller that is about to remove it.       *)
THEOREM FailureIsForgotten == Spec => []FailedCellIsRemoved
<1>1. WarmupInv => FailedCellIsRemoved
  BY DEF WarmupInv
<1> QED
  BY <1>1, WarmupInvariant, PTL

(* However many requests ask for a digest, and in whatever order they come *)
(* to its cell, it is prepared once while none of them fails or is         *)
(* dropped.                                                                *)
THEOREM PreparedAtMostOnce == Spec => []PreparedOnce
<1>1. WarmupInv => PreparedOnce
  BY DEF WarmupInv, OneAttempt, PreparedOnce
<1> QED
  BY <1>1, WarmupInvariant, PTL
-----------------------------------------------------------------------------
(***************************************************************************)
(* The Garage keeps the contract of its API.  What the contract calls      *)
(* being served is being admitted, so its count is what the admission      *)
(* semaphore lacks; an artifact gets ready for a request that lives or was *)
(* dropped while it was prepared.                                          *)
(***************************************************************************)
JobsFit == \A r \in Requests : job[r] = "running" => pc[r] \in {"preparing", "dropped"}

StageMap == [r \in Requests |-> Stage(r)]

(* A step of a handler that moves it from one place to another moves its   *)
(* request from the one's stage to the other's.                            *)
LEMMA StageMoves ==
    ASSUME WarmupTypeOK, NEW r \in Requests, NEW to, NEW stage,
           pc' = [pc EXCEPT ![r] = to],
           \/ to \in Admitted /\ stage = "served"
           \/ to = "done" /\ stage = "answered"
           \/ to = "dropped" /\ stage = "gone"
    PROVE  StageMap' = [StageMap EXCEPT ![r] = stage]
<1>1. \A q \in Requests : q # r => Stage(q)' = Stage(q)
  BY DEF WarmupTypeOK, Stage
<1>2. Stage(r)' = stage
  BY DEF WarmupTypeOK, Stage, Admitted, Filling
<1> QED
  BY <1>1, <1>2 DEF StageMap

(* A step that leaves a handler within what the contract calls one stage   *)
(* leaves the stages as they are.                                          *)
LEMMA StageStays ==
    ASSUME WarmupTypeOK, NEW r \in Requests, NEW to,
           pc' = [pc EXCEPT ![r] = to], pc[r] \in Admitted, to \in Admitted
    PROVE  StageMap' = StageMap
<1>1. \A q \in Requests : Stage(q)' = Stage(q)
  BY DEF WarmupTypeOK, Stage, Admitted, Filling
<1> QED
  BY <1>1 DEF StageMap

(* The served requests are the admitted handlers, as many as permits of    *)
(* the admission semaphore are taken.                                      *)
LEMMA ServedCounted ==
    ASSUME WarmupInv
    PROVE  /\ Cardinality(Contract!Served) = MaxPending - pending
           /\ \A r \in Requests : /\ pc[r] \in Admitted => StageMap[r] = "served"
                                  /\ pc[r] = "new" => StageMap[r] = "new"
                                  /\ pc[r] = "done" => StageMap[r] = "answered"
                                  /\ pc[r] = "dropped" => StageMap[r] = "gone"
<1>1. \A r \in Requests : /\ pc[r] \in Admitted <=> StageMap[r] = "served"
                          /\ pc[r] = "new" => StageMap[r] = "new"
                          /\ pc[r] = "done" => StageMap[r] = "answered"
                          /\ pc[r] = "dropped" => StageMap[r] = "gone"
  BY DEF WarmupInv, WarmupTypeOK, StageMap, Stage, Admitted, Filling
<1>2. Contract!Served = In(Admitted)
  BY <1>1 DEF Contract!Served, In, StageMap
<1>3. pending + Cardinality(In(Admitted)) = MaxPending /\ pending \in Nat
  BY DEF WarmupInv, WarmupTypeOK, PermitsConserved
<1>4. Cardinality(In(Admitted)) \in Nat
  <2>1. IsFiniteSet(In(Admitted))
    BY FS_Subset, RequestsAssumption DEF In
  <2> QED BY <2>1, FS_CardinalityType
<1> QED
  BY <1>1, <1>2, <1>3, <1>4, BudgetAssumption

(* The contract counts the served requests as this module does.            *)
LEMMA SameCount == \A S : Contract!Cardinality(S) = Cardinality(S)
BY DEF Contract!Cardinality, Cardinality

(* A preparation runs for a handler that waits for it or was dropped.      *)
LEMMA JobsStep == WarmupInv /\ JobsFit /\ [Next]_vars => JobsFit'
<1> SUFFICES ASSUME WarmupInv, JobsFit, [Next]_vars PROVE JobsFit'
  OBVIOUS
<1> USE DEF JobsFit, WarmupInv, WarmupTypeOK, Goto, Fill, tasks
<1>1. ASSUME NEW r \in Requests, Spawn(r) \/ PreparationEnds(r) \/ Prepared(r) \/ Disconnect(r)
      PROVE  JobsFit'
  <2>1. CASE Spawn(r) BY <2>1 DEF Spawn
  <2>2. CASE PreparationEnds(r) BY <2>2 DEF PreparationEnds
  <2>3. CASE Prepared(r) BY <2>3 DEF Prepared
  <2>4. CASE Disconnect(r) BY <2>4 DEF Disconnect
  <2> QED BY <1>1, <2>1, <2>2, <2>3, <2>4
<1>2. ASSUME NEW r \in Requests, pc[r] \notin {"preparing", "dropped"}, job' = job,
             \E to : pc' = [pc EXCEPT ![r] = to]
      PROVE  JobsFit'
  BY <1>2
<1>3. ASSUME NEW r \in Requests, Refuse(r) \/ Overload(r) \/ Admit(r) \/ Lookup(r)
      PROVE  JobsFit'
  BY <1>2, <1>3 DEF Refuse, Overload, Admit, Lookup
<1>4. ASSUME NEW r \in Requests, BeginFill(r) \/ ReadCell(r) \/ RemoveCell(r) \/ AlreadyHot(r)
      PROVE  JobsFit'
  BY <1>2, <1>4 DEF BeginFill, ReadCell, RemoveCell, AlreadyHot
<1>5. ASSUME NEW r \in Requests, NotHot(r) \/ TakePermit(r) \/ Open(r) \/ Acquired(r)
      PROVE  JobsFit'
  BY <1>2, <1>5 DEF NotHot, TakePermit, Open, Acquired
<1>6. ASSUME NEW r \in Requests, AcquisitionFails(r) \/ StartExecution(r) \/ Respond(r)
      PROVE  JobsFit'
  BY <1>2, <1>6 DEF AcquisitionFails, StartExecution, Respond
<1>7. ASSUME NEW r \in Requests, ExecutionEnds(r) PROVE JobsFit'
  BY <1>7 DEF ExecutionEnds
<1>8. CASE UNCHANGED vars
  BY <1>8 DEF vars
<1> QED
  BY <1>1, <1>3, <1>4, <1>5, <1>6, <1>7, <1>8 DEF Next, Handler, BlockingTask

(* Every step of a handler, of a blocking task or of a client is a step of *)
(* the contract or changes nothing in it.                                  *)
LEMMA ContractStep == WarmupInv /\ JobsFit /\ [Next]_vars => [Contract!Next]_(Contract!contractVars)
<1> SUFFICES ASSUME WarmupInv, JobsFit, [Next]_vars
             PROVE  [Contract!Next]_(Contract!contractVars)
  OBVIOUS
<1>t. WarmupTypeOK
  BY DEF WarmupInv
<1>s. StageMap = [r \in Requests |-> Stage(r)] /\ StageMap' = [r \in Requests |-> Stage(r)']
  BY DEF StageMap
<1>u. ASSUME UNCHANGED <<StageMap, want, prepared, run, reply>>
      PROVE  [Contract!Next]_(Contract!contractVars)
  BY <1>u, <1>s DEF Contract!contractVars
<1> USE DEF Goto, Answer, Fill, flight, store, limits, tasks
<1>1. ASSUME NEW r \in Requests, Refuse(r) PROVE Contract!Decline(r)
  <2>1. StageMap[r] = "new" /\ StageMap' = [StageMap EXCEPT ![r] = "answered"]
    BY <1>1, <1>t, ServedCounted, StageMoves DEF Refuse
  <2> QED
    BY <1>1, <1>s, <2>1 DEF Refuse, Contract!Decline, Contract!Answered
<1>2. ASSUME NEW r \in Requests, Overload(r) PROVE Contract!TurnAway(r)
  <2>1. StageMap[r] = "new" /\ StageMap' = [StageMap EXCEPT ![r] = "answered"]
    BY <1>2, <1>t, ServedCounted, StageMoves DEF Overload
  <2>2. Cardinality(Contract!Served) = MaxPending
    BY <1>2, ServedCounted, BudgetAssumption DEF Overload
  <2> QED
    BY <1>2, <1>s, <2>1, <2>2, SameCount DEF Overload, Contract!TurnAway, Contract!Answered
<1>3. ASSUME NEW r \in Requests, Admit(r) PROVE Contract!Accept(r)
  <2>1. StageMap[r] = "new" /\ StageMap' = [StageMap EXCEPT ![r] = "served"]
    BY <1>3, <1>t, ServedCounted, StageMoves DEF Admit, Admitted
  <2>2. Cardinality(Contract!Served) < MaxPending
    BY <1>3, <1>t, ServedCounted, BudgetAssumption DEF Admit, WarmupTypeOK
  <2> QED
    BY <1>3, <1>s, <2>1, <2>2, SameCount DEF Admit, Contract!Accept
<1>4. ASSUME NEW r \in Requests, \/ Lookup(r) \/ BeginFill(r) \/ ReadCell(r) \/ AlreadyHot(r)
                                 \/ NotHot(r) \/ TakePermit(r) \/ Open(r)
      PROVE  UNCHANGED <<StageMap, want, prepared, run, reply>>
  <2>1. UNCHANGED <<want, prepared, run, reply>>
    BY <1>4 DEF Lookup, BeginFill, ReadCell, AlreadyHot, NotHot, TakePermit, Open
  <2>2. \E to : pc' = [pc EXCEPT ![r] = to] /\ pc[r] \in Admitted /\ to \in Admitted
    BY <1>4 DEF Lookup, BeginFill, ReadCell, AlreadyHot, NotHot, TakePermit, Open,
       Admitted, Filling
  <2> QED
    BY <1>t, <2>1, <2>2, StageStays
<1>5. ASSUME NEW r \in Requests, \/ Acquired(r) \/ AcquisitionFails(r) \/ Spawn(r) \/ Prepared(r)
      PROVE  UNCHANGED <<StageMap, want, prepared, run, reply>>
  <2>1. UNCHANGED <<want, prepared, run, reply>>
    BY <1>5 DEF Acquired, AcquisitionFails, Spawn, Prepared
  <2>2. \E to : pc' = [pc EXCEPT ![r] = to] /\ pc[r] \in Admitted /\ to \in Admitted
    BY <1>5 DEF Acquired, AcquisitionFails, Spawn, Prepared, Admitted, Filling
  <2> QED
    BY <1>t, <2>1, <2>2, StageStays
<1>6. ASSUME NEW r \in Requests, RemoveCell(r) PROVE Contract!GiveUp(r)
  <2>1. StageMap[r] = "served" /\ StageMap' = [StageMap EXCEPT ![r] = "answered"]
    BY <1>6, <1>t, ServedCounted, StageMoves DEF RemoveCell, Admitted
  <2>2. run[r] = "none"
    BY <1>6 DEF RemoveCell, WarmupInv, RunsFit
  <2> QED
    BY <1>6, <1>s, <2>1, <2>2 DEF RemoveCell, Contract!GiveUp, Contract!Answered
<1>7. ASSUME NEW r \in Requests, StartExecution(r) PROVE Contract!Begin(r)
  <2>1. StageMap[r] = "served" /\ StageMap' = StageMap
    BY <1>7, <1>t, ServedCounted, StageStays DEF StartExecution, Admitted
  <2>2. want[r] \in prepared /\ run[r] = "none"
    BY <1>7 DEF StartExecution, WarmupInv, ReportsTrue, RunsFit
  <2> QED
    BY <1>7, <1>s, <2>1, <2>2 DEF StartExecution, Contract!Begin
<1>8. ASSUME NEW r \in Requests, Respond(r) PROVE Contract!Reply(r)
  <2>1. StageMap[r] = "served" /\ StageMap' = [StageMap EXCEPT ![r] = "answered"]
    BY <1>8, <1>t, ServedCounted, StageMoves DEF Respond, Admitted
  <2> QED
    BY <1>8, <1>s, <2>1 DEF Respond, Contract!Reply, Contract!Answered
<1>9. ASSUME NEW r \in Requests, PreparationEnds(r)
      PROVE  Contract!GetsReady(r) \/ UNCHANGED <<StageMap, want, prepared, run, reply>>
  <2>1. StageMap' = StageMap
    BY <1>9 DEF PreparationEnds, StageMap, Stage
  <2>2. StageMap[r] \in {"served", "gone"}
    <3>1. pc[r] \in Admitted \/ pc[r] = "dropped"
      BY <1>9 DEF PreparationEnds, JobsFit, Admitted, Filling
    <3> QED BY <3>1, ServedCounted
  <2>3. CASE prepared' = prepared \cup {want[r]}
    BY <1>9, <1>s, <2>1, <2>2, <2>3 DEF PreparationEnds, Contract!GetsReady
  <2>4. CASE prepared' = prepared
    BY <1>9, <2>1, <2>4 DEF PreparationEnds
  <2> QED
    BY <1>9, <2>3, <2>4 DEF PreparationEnds
<1>10. ASSUME NEW r \in Requests, ExecutionEnds(r) PROVE Contract!End(r)
  <2>1. StageMap' = StageMap
    BY <1>10 DEF ExecutionEnds, StageMap, Stage
  <2> QED
    BY <1>10, <1>s, <2>1 DEF ExecutionEnds, Contract!End
<1>11. ASSUME NEW r \in Requests, Disconnect(r) PROVE Contract!Leave(r)
  <2>1. StageMap[r] = "served" /\ StageMap' = [StageMap EXCEPT ![r] = "gone"]
    BY <1>11, <1>t, ServedCounted, StageMoves DEF Disconnect, Suspended, Admitted, Filling
  <2> QED
    BY <1>11, <1>s, <2>1 DEF Disconnect, Contract!Leave
<1>12. CASE UNCHANGED vars
  BY <1>12, <1>u DEF vars, StageMap, Stage
<1>13. ASSUME NEW r \in Requests,
              \/ Contract!Decline(r) \/ Contract!TurnAway(r) \/ Contract!Accept(r)
              \/ Contract!GetsReady(r) \/ Contract!Begin(r) \/ Contract!End(r)
              \/ Contract!GiveUp(r) \/ Contract!Reply(r) \/ Contract!Leave(r)
       PROVE  [Contract!Next]_(Contract!contractVars)
  BY <1>13 DEF Contract!Next
<1>14. CASE \E r \in Requests : \/ Refuse(r) \/ Overload(r) \/ Admit(r)
                                \/ BlockingTask(r) \/ Disconnect(r)
  BY <1>1, <1>2, <1>3, <1>9, <1>10, <1>11, <1>13, <1>14, <1>u DEF BlockingTask
<1>15. CASE \E r \in Requests : Handler(r)
  BY <1>4, <1>5, <1>6, <1>7, <1>8, <1>13, <1>15, <1>u DEF Handler
<1> QED
  BY <1>12, <1>14, <1>15 DEF Next

(* The Garage implements the contract of its API, for any finite set of    *)
(* requests, any digests, limits, failures and disconnections: execute     *)
(* with its semaphores, its singleflight and its blocking tasks.           *)
THEOREM ContractRefinement == Spec => ImplementsContract
<1>1. Init => Contract!Init /\ JobsFit
  <2> SUFFICES ASSUME Init PROVE Contract!Init /\ JobsFit
    OBVIOUS
  <2>1. [r \in Requests |-> Stage(r)] = [r \in Requests |-> "new"]
    BY DEF Init, Stage, Admitted, Filling
  <2> QED
    BY <2>1 DEF Init, JobsFit, Contract!Init
<1> QED
  BY <1>1, ContractStep, JobsStep, WarmupInvariant, PTL
  DEF Spec, ImplementsContract, Contract!Spec

-----------------------------------------------------------------------------
(***************************************************************************)
(* Who waits for whom: a waiter of a cell for its filler, a filler for a   *)
(* permit and thereby for one who holds it, a handler for its blocking     *)
(* task.                                                                   *)
(***************************************************************************)
GoesOn(r) == CASE pc[r] = "wait" -> value[cell[r]] # "empty" \/ filler[cell[r]] = None
               [] pc[r] = "permit" -> permits > 0
               [] pc[r] = "preparing" -> job[r] # "none"
               [] pc[r] = "executing" -> run[r] # "none"
               [] OTHER -> TRUE

\* a preparation that only waits for the budget has somebody to wait for
Attended(r) == \/ GoesOn(r)
               \/ pc[r] = "permit" /\ \E s \in In(HoldsPermit) : GoesOn(s)

(* Whoever an admitted request waits for is somebody who can go on: there  *)
(* is no circle of waiters, fillers and permits, and no cell or permit is  *)
(* held by a handler that was dropped, however many requests share one.    *)
WaitsForTheLiving == \A r \in In(Admitted) :
    \/ Attended(r)
    \/ pc[r] = "wait" /\ \E f \in In(Filling) : cell[f] = cell[r] /\ Attended(f)

(***************************************************************************)
(* The inductive invariant: a cell that is being filled has its filler at  *)
(* work in it, and a handler awaits a blocking task that was spawned.      *)
(***************************************************************************)
FillersLive == \A c \in Requests : filler[c] # None =>
    pc[filler[c]] \in Filling /\ cell[filler[c]] = c

TasksSpawned == \A r \in Requests : /\ pc[r] = "preparing" => job[r] # "none"
                                    /\ pc[r] = "executing" => run[r] # "none"

LEMMA LivingStep ==
    ASSUME WarmupInv, FillersLive, TasksSpawned, [Next]_vars
    PROVE  FillersLive' /\ TasksSpawned'
<1> USE NoneAssumption DEF WarmupInv, WarmupTypeOK, CellsFit, FillersFit, FillersLive, TasksSpawned,
            Goto, Fill, Filling, flight, tasks
<1>1. CASE UNCHANGED vars
  BY <1>1 DEF vars
<1>2. ASSUME NEW r \in Requests,
             \/ Refuse(r) \/ Overload(r) \/ Admit(r) \/ Handler(r) \/ BlockingTask(r) \/ Disconnect(r)
      PROVE  FillersLive' /\ TasksSpawned'
  <2>1. CASE Refuse(r)
    BY <2>1 DEF Refuse
  <2>2. CASE Overload(r)
    BY <2>2 DEF Overload
  <2>3. CASE Admit(r)
    BY <2>3 DEF Admit
  <2>4. CASE Lookup(r)
    BY <2>4 DEF Lookup
  <2>5. CASE BeginFill(r)
    BY <2>5 DEF BeginFill
  <2>6. CASE ReadCell(r)
    BY <2>6 DEF ReadCell
  <2>7. CASE RemoveCell(r)
    BY <2>7 DEF RemoveCell
  <2>8. CASE AlreadyHot(r)
    BY <2>8 DEF AlreadyHot
  <2>9. CASE NotHot(r)
    BY <2>9 DEF NotHot
  <2>10. CASE TakePermit(r)
    BY <2>10 DEF TakePermit
  <2>11. CASE Open(r)
    BY <2>11 DEF Open
  <2>12. CASE Acquired(r)
    BY <2>12 DEF Acquired
  <2>13. CASE AcquisitionFails(r)
    BY <2>13 DEF AcquisitionFails
  <2>14. CASE Spawn(r)
    BY <2>14 DEF Spawn
  <2>15. CASE Prepared(r)
    BY <2>15 DEF Prepared
  <2>16. CASE StartExecution(r)
    BY <2>16 DEF StartExecution
  <2>17. CASE Respond(r)
    BY <2>17 DEF Respond
  <2>18. CASE PreparationEnds(r)
    BY <2>18 DEF PreparationEnds
  <2>19. CASE ExecutionEnds(r)
    BY <2>19 DEF ExecutionEnds
  <2>20. CASE Disconnect(r)
    BY <2>20 DEF Disconnect, Suspended
  <2> QED
    BY <1>2, <2>1, <2>2, <2>3, <2>4, <2>5, <2>6, <2>7, <2>8, <2>9, <2>10, <2>11,
        <2>12, <2>13, <2>14, <2>15, <2>16, <2>17, <2>18, <2>19, <2>20 DEF Handler, BlockingTask
<1> QED
  BY <1>1, <1>2 DEF Next

\* whoever fills a cell works, or waits for a permit that somebody holds
LEMMA FillersAttended ==
    ASSUME WarmupInv, TasksSpawned, NEW f \in In(Filling)
    PROVE  Attended(f)
<1>1. f \in Requests /\ pc[f] \in Filling
  BY DEF In
<1>2. CASE pc[f] # "permit"
  BY <1>1, <1>2 DEF Filling, TasksSpawned, GoesOn, Attended
<1>3. CASE pc[f] = "permit" /\ permits > 0
  BY <1>3 DEF GoesOn, Attended
<1>4. CASE pc[f] = "permit" /\ ~(permits > 0)
  <2>1. permits = 0 /\ Cardinality(In(HoldsPermit)) = Budget
    <3>1. permits \in Nat /\ permits + Cardinality(In(HoldsPermit)) = Budget
      BY DEF WarmupInv, WarmupTypeOK, PermitsConserved
    <3>2. Cardinality(In(HoldsPermit)) \in Nat
      <4>1. IsFiniteSet(In(HoldsPermit))
        BY FS_Subset, RequestsAssumption DEF In
      <4> QED
        BY <4>1, FS_CardinalityType
    <3> QED
      BY <1>4, <3>1, <3>2
  <2>2. PICK s \in In(HoldsPermit) : TRUE
    BY <2>1, FS_EmptySet, BudgetAssumption
  <2>3. s \in Requests /\ pc[s] \in HoldsPermit
    BY DEF In
  <2>4. GoesOn(s)
    BY <2>3 DEF HoldsPermit, TasksSpawned, GoesOn
  <2> QED
    BY <1>4, <2>4 DEF Attended
<1> QED
  BY <1>2, <1>3, <1>4

(* execute never suspends a request for good: every await of an admitted   *)
(* request is for a task, a filler or a permit that will come.             *)
THEOREM WaitersHaveSomebody == Spec => []WaitsForTheLiving
<1>1. Init => FillersLive /\ TasksSpawned
  BY DEF Init, FillersLive, TasksSpawned
<1>2. ASSUME WarmupInv, FillersLive, TasksSpawned PROVE WaitsForTheLiving
  <2> SUFFICES ASSUME NEW r \in In(Admitted), ~Attended(r)
               PROVE  pc[r] = "wait" /\ \E f \in In(Filling) : cell[f] = cell[r] /\ Attended(f)
    BY DEF WaitsForTheLiving
  <2>1. r \in Requests /\ pc[r] \in Admitted /\ ~GoesOn(r)
    BY DEF In, Attended
  <2>2. pc[r] \notin Filling
    BY <1>2, <2>1, FillersAttended DEF In
  <2>3. pc[r] = "wait"
    BY <1>2, <2>1, <2>2 DEF Admitted, TasksSpawned, GoesOn
  <2>4. cell[r] \in Requests /\ filler[cell[r]] # None
    BY <1>2, <2>1, <2>3 DEF GoesOn, WarmupInv, WarmupTypeOK, CellsFit
  <2>5. filler[cell[r]] \in In(Filling) /\ cell[filler[cell[r]]] = cell[r]
    BY <1>2, <2>4 DEF FillersLive, WarmupInv, WarmupTypeOK, In
  <2> QED
    BY <1>2, <2>3, <2>5, FillersAttended
<1> QED
  BY <1>1, <1>2, LivingStep, WarmupInvariant, PTL DEF Spec
=============================================================================
