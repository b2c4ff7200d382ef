------------------------- MODULE SharedLanesProofs -------------------------
(***************************************************************************)
(* Theorems about the shared lane pool, for any number of callers, lanes   *)
(* and readers and without the bounds TLC needs.                           *)
(***************************************************************************)
EXTENDS SharedLanes, FiniteSetTheorems, TLAPS

USE LaneCountAssumption, ThreadsAssumption

-----------------------------------------------------------------------------
(* The pool's state keeps its type through every step of run_one_observed  *)
(* and shared_snapshot.                                                    *)
LEMMA TypeStep == TypeOK /\ [Next]_vars => TypeOK'
<1> SUFFICES ASSUME TypeOK, [Next]_vars PROVE TypeOK'
  OBVIOUS
<1> USE DEF TypeOK, Goto, CallerStates, Lanes, NoExec, pool, counters, callers,
            environment, readers
<1>1. ASSUME NEW c \in Callers, Enter(c) PROVE TypeOK'
  BY <1>1 DEF Enter
<1>2. ASSUME NEW c \in Callers, Lock(c) PROVE TypeOK'
  BY <1>2 DEF Lock
<1>3. ASSUME NEW c \in Callers, Reserve(c) PROVE TypeOK'
  BY <1>3 DEF Reserve, FreeLanes
<1>4. ASSUME NEW c \in Callers, Sleep(c) PROVE TypeOK'
  BY <1>4 DEF Sleep
<1>5. ASSUME NEW c \in Callers, SpuriousWakeup(c) PROVE TypeOK'
  BY <1>5 DEF SpuriousWakeup
<1>6. ASSUME NEW c \in Callers, Admit(c) PROVE TypeOK'
  BY <1>6 DEF Admit
<1>7. ASSUME NEW c \in Callers, ObserverReturns(c) \/ TaskReturns(c) PROVE TypeOK'
  BY <1>7 DEF ObserverReturns, TaskReturns
<1>8. ASSUME NEW c \in Callers, Activate(c) PROVE TypeOK'
  BY <1>8 DEF Activate
<1>9. ASSUME NEW c \in Callers, RaisePeak(c) PROVE TypeOK'
  BY <1>9 DEF RaisePeak
<1>10. ASSUME NEW c \in Callers, Panic(c) PROVE TypeOK'
  BY <1>10 DEF Panic
<1>11. ASSUME NEW c \in Callers, Relock(c) \/ Deactivate(c) PROVE TypeOK'
  <2>1. CASE Relock(c) BY <2>1 DEF Relock
  <2>2. CASE Deactivate(c) BY <2>2 DEF Deactivate
  <2> QED BY <1>11, <2>1, <2>2
<1>12. ASSUME NEW c \in Callers, ClearSlot(c) PROVE TypeOK'
  BY <1>12 DEF ClearSlot
<1>13. ASSUME NEW c \in Callers, NotifyOne(c) PROVE TypeOK'
  BY <1>13 DEF NotifyOne, Sleepers, At
<1>14. ASSUME NEW r \in Readers, ReaderStep(r) PROVE TypeOK'
  <2> USE DEF RGoto, EmptySnapshot
  <2>1. CASE BeginSnapshot(r) BY <2>1 DEF BeginSnapshot
  <2>2. CASE LoadRunning(r) BY <2>2, ZenonT(30) DEF LoadRunning
  <2>3. CASE LoadQueued(r) BY <2>3, ZenonT(30) DEF LoadQueued
  <2>4. CASE LoadPeak(r) BY <2>4, ZenonT(30) DEF LoadPeak
  <2>5. CASE CopyLanes(r) BY <2>5 DEF CopyLanes
  <2>6. CASE DropSnapshot(r) BY <2>6 DEF DropSnapshot
  <2> QED BY <1>14, <2>1, <2>2, <2>3, <2>4, <2>5, <2>6 DEF ReaderStep
<1>15. CASE UNCHANGED vars
  BY <1>15 DEF vars
<1> QED
  BY <1>1, <1>2, <1>3, <1>4, <1>5, <1>6, <1>7, <1>8, <1>9, <1>10, <1>11, <1>12,
     <1>13, <1>14, <1>15 DEF Next, Progress

(* Type correctness of the shared lane pool (run_one_observed and          *)
(* shared_snapshot) for every number of threads and lanes.                 *)
THEOREM TypeCorrect == Spec => []TypeOK
<1>1. Init => TypeOK
  BY DEF Init, TypeOK, CallerStates, Lanes, NoExec, EmptySnapshot
<1> QED
  BY <1>1, TypeStep, PTL DEF Spec

-----------------------------------------------------------------------------
(***************************************************************************)
(* The inductive invariant.  A caller inside the critical section holds    *)
(* the mutex, and the calls under way have different execution ids.        *)
(***************************************************************************)
CriticalSection == At({"scan", "reserved", "clearSlot", "deactivate", "notify"})

MutexHeld == /\ \A c \in CriticalSection : mutex = c
             /\ \A r \in Readers : rpc[r] \in {"running", "queued", "peak", "lanes"} => mutex = r
IdsInUse == /\ \A c \in InCall : exec[c] \in 0 .. nextId - 1
            /\ \A c, d \in InCall : exec[c] = exec[d] => c = d

LaneInv == TypeOK /\ MutexHeld /\ IdsInUse /\ OneExecutionPerLane

(* Admission and release keep each execution alone on its lane: the slot a *)
(* call takes was free under the mutex, and the slot it clears is its own. *)
LEMMA LaneStep == LaneInv /\ [Next]_vars => LaneInv'
<1> SUFFICES ASSUME LaneInv, [Next]_vars PROVE LaneInv'
  OBVIOUS
<1> TypeOK /\ TypeOK'
  BY TypeStep DEF LaneInv
<1> USE DEF LaneInv, MutexHeld, IdsInUse, OneExecutionPerLane, CriticalSection,
            InCall, Owning, At, pool, counters, callers, environment, readers, Goto
<1>f. SUFFICES MutexHeld' /\ IdsInUse' /\ OneExecutionPerLane'
  OBVIOUS
<1> HIDE <1>f
<1>1. ASSUME NEW c \in Callers, Enter(c) PROVE MutexHeld' /\ IdsInUse' /\ OneExecutionPerLane'
  BY <1>1 DEF Enter, TypeOK, CallerStates, NoExec
<1>2. ASSUME NEW c \in Callers, Lock(c) PROVE MutexHeld' /\ IdsInUse' /\ OneExecutionPerLane'
  <2>1. \/ Goto(c, "lock", "scan")
        \/ Goto(c, "woken", "scan")
    BY <1>2 DEF Lock
  <2>2. MutexHeld'
    BY <1>2 DEF Lock, TypeOK, CallerStates
  <2>3. IdsInUse'
    <3>1. InCall' = InCall
      BY <1>2, <2>1 DEF Lock, TypeOK, CallerStates
    <3>2. exec' = exec /\ nextId' = nextId
      BY <1>2 DEF Lock
    <3> HIDE DEF InCall
    <3> QED BY <3>1, <3>2
  <2>4. OneExecutionPerLane'
    BY <1>2, <2>1 DEF Lock, TypeOK, CallerStates
  <2> QED BY <2>2, <2>3, <2>4
<1>3. ASSUME NEW c \in Callers, Reserve(c) PROVE MutexHeld' /\ IdsInUse' /\ OneExecutionPerLane'
  BY <1>3 DEF Reserve, TypeOK, CallerStates, FreeLanes, NoExec
<1>4. ASSUME NEW c \in Callers, Sleep(c) PROVE MutexHeld' /\ IdsInUse' /\ OneExecutionPerLane'
  BY <1>4 DEF Sleep, TypeOK, CallerStates
<1>5. ASSUME NEW c \in Callers, SpuriousWakeup(c) PROVE MutexHeld' /\ IdsInUse' /\ OneExecutionPerLane'
  BY <1>5 DEF SpuriousWakeup, TypeOK, CallerStates
<1>6. ASSUME NEW c \in Callers, Admit(c) PROVE MutexHeld' /\ IdsInUse' /\ OneExecutionPerLane'
  BY <1>6 DEF Admit, TypeOK, CallerStates
<1>7. ASSUME NEW c \in Callers, ObserverReturns(c) PROVE MutexHeld' /\ IdsInUse' /\ OneExecutionPerLane'
  BY <1>7 DEF ObserverReturns, TypeOK, CallerStates
<1>8. ASSUME NEW c \in Callers, Activate(c) PROVE MutexHeld' /\ IdsInUse' /\ OneExecutionPerLane'
  BY <1>8 DEF Activate, TypeOK, CallerStates
<1>9. ASSUME NEW c \in Callers, RaisePeak(c) PROVE MutexHeld' /\ IdsInUse' /\ OneExecutionPerLane'
  BY <1>9 DEF RaisePeak, TypeOK, CallerStates
<1>10. ASSUME NEW c \in Callers, Panic(c) PROVE MutexHeld' /\ IdsInUse' /\ OneExecutionPerLane'
  <2>1. CASE Goto(c, "observing", "idle")
    BY <1>10, <2>1 DEF Panic, TypeOK, CallerStates
  <2>2. CASE Goto(c, "running", "idle")
    BY <1>10, <2>2 DEF Panic, TypeOK, CallerStates
  <2> QED BY <1>10, <2>1, <2>2 DEF Panic
<1>11. ASSUME NEW c \in Callers, TaskReturns(c) PROVE MutexHeld' /\ IdsInUse' /\ OneExecutionPerLane'
  BY <1>11 DEF TaskReturns, TypeOK, CallerStates
<1>12. ASSUME NEW c \in Callers, Relock(c) PROVE MutexHeld' /\ IdsInUse' /\ OneExecutionPerLane'
  BY <1>12 DEF Relock, TypeOK, CallerStates
<1>13. ASSUME NEW c \in Callers, ClearSlot(c) PROVE MutexHeld' /\ IdsInUse' /\ OneExecutionPerLane'
  BY <1>13 DEF ClearSlot, TypeOK, CallerStates
<1>14. ASSUME NEW c \in Callers, Deactivate(c) PROVE MutexHeld' /\ IdsInUse' /\ OneExecutionPerLane'
  BY <1>14 DEF Deactivate, TypeOK, CallerStates
<1>15. ASSUME NEW c \in Callers, NotifyOne(c) PROVE MutexHeld' /\ IdsInUse' /\ OneExecutionPerLane'
  <2>1. CASE pc' = [pc EXCEPT ![c] = "idle"]
    BY <1>15, <2>1 DEF NotifyOne, TypeOK, CallerStates
  <2>2. ASSUME NEW w \in Sleepers, pc' = [pc EXCEPT ![c] = "idle", ![w] = "woken"]
        PROVE  MutexHeld' /\ IdsInUse' /\ OneExecutionPerLane'
    <3>1. w \in Callers /\ pc[w] = "asleep" /\ pc[c] = "notify"
      BY <1>15 DEF NotifyOne, Sleepers
    <3>2. MutexHeld'
      <4>1. mutex = c /\ \A d \in Callers : d # c =>
              pc[d] \notin {"scan", "reserved", "clearSlot", "deactivate", "notify"}
        BY <3>1
      <4>2. \A d \in Callers : pc'[d] = IF d = c /\ d # w THEN "idle"
                                        ELSE IF d = w THEN "woken" ELSE pc[d]
        BY <2>2, <3>1 DEF TypeOK
      <4>3. CriticalSection' = {}
        BY <4>1, <4>2
      <4>4. \A r \in Readers : rpc'[r] = rpc[r] /\ r # c
        BY <1>15, ThreadsAssumption DEF NotifyOne
      <4> QED
        BY <4>1, <4>3, <4>4
    <3>3. IdsInUse'
      BY <1>15, <2>2, <3>1 DEF NotifyOne, TypeOK, CallerStates
    <3>4. OneExecutionPerLane'
      BY <1>15, <2>2, <3>1 DEF NotifyOne, TypeOK, CallerStates
    <3> QED BY <3>2, <3>3, <3>4
  <2> QED BY <1>15, <2>1, <2>2 DEF NotifyOne
<1>16. ASSUME NEW r \in Readers, ReaderStep(r) PROVE MutexHeld' /\ IdsInUse' /\ OneExecutionPerLane'
  <2> USE DEF RGoto, TypeOK
  <2>1. CASE BeginSnapshot(r) BY <2>1 DEF BeginSnapshot
  <2>2. CASE LoadRunning(r) BY <2>2 DEF LoadRunning
  <2>3. CASE LoadQueued(r) BY <2>3 DEF LoadQueued
  <2>4. CASE LoadPeak(r) BY <2>4 DEF LoadPeak
  <2>5. CASE CopyLanes(r) BY <2>5 DEF CopyLanes
  <2>6. CASE DropSnapshot(r) BY <2>6 DEF DropSnapshot
  <2> QED BY <1>16, <2>1, <2>2, <2>3, <2>4, <2>5, <2>6 DEF ReaderStep
<1>17. CASE UNCHANGED vars
  BY <1>17 DEF vars
<1> QED
  BY <1>1, <1>2, <1>3, <1>4, <1>5, <1>6, <1>7, <1>8, <1>9, <1>10, <1>11, <1>12,
     <1>13, <1>14, <1>15, <1>16, <1>17, <1>f DEF Next, Progress

(* run_one_observed keeps the invariant from its first state on.           *)
LEMMA LaneInvariant == Spec => []LaneInv
<1>1. Init => LaneInv
  BY DEF Init, LaneInv, TypeOK, CallerStates, Lanes, NoExec, EmptySnapshot,
     MutexHeld, IdsInUse, OneExecutionPerLane, CriticalSection, InCall, Owning, At
<1> QED
  BY <1>1, LaneStep, PTL DEF Spec

(* The pool never puts two executions on one lane, and a call releases the *)
(* lane it was given (run_one_observed: slot reservation and release).     *)
THEOREM LaneSafety == Spec => []OneExecutionPerLane
<1>1. LaneInv => OneExecutionPerLane
  BY DEF LaneInv
<1> QED
  BY <1>1, LaneInvariant, PTL

-----------------------------------------------------------------------------
(* Callers are finite: what the guards of run_one_observed count among     *)
(* them is a number.                                                       *)
LEMMA CallersCounted ==
  ASSUME NEW S, S \subseteq Callers
  PROVE  IsFiniteSet(S) /\ Cardinality(S) \in Nat
BY FS_Subset, FS_CardinalityType

(* The slots vector of the pool is finite, so its free lanes are counted   *)
(* by a number.                                                            *)
LEMMA LanesCounted ==
  ASSUME NEW S, S \subseteq Lanes
  PROVE  IsFiniteSet(S) /\ Cardinality(S) \in Nat
<1>1. IsFiniteSet(Lanes)
  BY FS_Interval DEF Lanes
<1> QED BY <1>1, FS_Subset, FS_CardinalityType

(* A woken caller, a caller on its way to notify_one, or a scanning caller *)
(* stands behind every free lane while anybody sleeps: each step that      *)
(* frees a lane adds a helper first, each step that uses up a helper takes *)
(* a lane, sees that none is free or hands its part to a sleeper.          *)
LEMMA WakeupStep == LaneInv /\ NoLostWakeup /\ [Next]_vars => NoLostWakeup'
<1> SUFFICES ASSUME LaneInv, NoLostWakeup, [Next]_vars, Sleepers' # {}
             PROVE  Cardinality(FreeLanes') <= Cardinality(Helpers')
  BY DEF NoLostWakeup
<1>t. TypeOK /\ TypeOK'
  BY TypeStep DEF LaneInv
<1>a. /\ Helpers \subseteq Callers /\ Helpers' \subseteq Callers
      /\ FreeLanes \subseteq Lanes /\ FreeLanes' \subseteq Lanes
  BY DEF Helpers, At, FreeLanes
<1>n. /\ Cardinality(Helpers) \in Nat /\ Cardinality(Helpers') \in Nat
      /\ Cardinality(FreeLanes) \in Nat /\ Cardinality(FreeLanes') \in Nat
      /\ IsFiniteSet(Helpers) /\ IsFiniteSet(Helpers')
      /\ IsFiniteSet(FreeLanes) /\ IsFiniteSet(FreeLanes')
  BY <1>a, CallersCounted, LanesCounted
<1>m. ASSUME Sleepers # {}, FreeLanes' = FreeLanes, Helpers \subseteq Helpers'
      PROVE  Cardinality(FreeLanes') <= Cardinality(Helpers')
  <2>1. Cardinality(Helpers) <= Cardinality(Helpers')
    BY <1>m, <1>n, FS_Subset
  <2>2. Cardinality(FreeLanes) <= Cardinality(Helpers)
    BY <1>m DEF NoLostWakeup
  <2>3. Cardinality(FreeLanes') = Cardinality(FreeLanes)
    BY <1>m
  <2> QED BY <1>n, <2>1, <2>2, <2>3
<1> USE DEF Goto, pool, counters, callers, environment, readers
<1>1. ASSUME NEW c \in Callers,
             \/ Enter(c) \/ Admit(c) \/ ObserverReturns(c) \/ Activate(c)
             \/ RaisePeak(c) \/ TaskReturns(c) \/ Panic(c) \/ Relock(c)
             \/ Lock(c) \/ SpuriousWakeup(c) \/ Deactivate(c)
      PROVE  Cardinality(FreeLanes') <= Cardinality(Helpers')
  <2>1. slot' = slot
    BY <1>1 DEF Enter, Admit, ObserverReturns, Activate, RaisePeak, TaskReturns,
       Panic, Relock, Lock, SpuriousWakeup, Deactivate
  <2>2. Helpers \subseteq Helpers' /\ Sleepers' \subseteq Sleepers
    <3> USE DEF Helpers, Sleepers, At, TypeOK
    <3>1. CASE Enter(c) \/ Admit(c) \/ ObserverReturns(c) \/ Activate(c)
      BY <1>t, <3>1 DEF Enter, Admit, ObserverReturns, Activate
    <3>2. CASE RaisePeak(c) \/ TaskReturns(c) \/ Panic(c) \/ Relock(c)
      BY <1>t, <3>2 DEF RaisePeak, TaskReturns, Panic, Relock
    <3>3. CASE Lock(c) \/ SpuriousWakeup(c) \/ Deactivate(c)
      BY <1>t, <3>3 DEF Lock, SpuriousWakeup, Deactivate
    <3> QED BY <1>1, <3>1, <3>2, <3>3
  <2> QED BY <1>m, <2>1, <2>2 DEF FreeLanes
<1>2. ASSUME NEW c \in Callers, Reserve(c)
      PROVE  Cardinality(FreeLanes') <= Cardinality(Helpers')
  <2>1. PICK l \in FreeLanes : slot' = [slot EXCEPT ![l] = exec[c]]
    BY <1>2 DEF Reserve
  <2>2. pc[c] = "scan" /\ pc' = [pc EXCEPT ![c] = "reserved"]
    BY <1>2 DEF Reserve
  <2>3. exec[c] # NoExec
    BY <2>2, <1>t DEF LaneInv, IdsInUse, InCall, At, CallerStates, NoExec, TypeOK
  <2>4. FreeLanes' = FreeLanes \ {l}
    BY <1>t, <2>1, <2>3 DEF FreeLanes, TypeOK
  <2>5. Helpers' = Helpers \ {c} /\ c \in Helpers /\ Sleepers' = Sleepers
    BY <1>t, <2>2 DEF Helpers, Sleepers, At, TypeOK
  <2>6. /\ Cardinality(FreeLanes') = Cardinality(FreeLanes) - 1
        /\ Cardinality(Helpers') = Cardinality(Helpers) - 1
    BY <1>n, <2>1, <2>4, <2>5, FS_RemoveElement
  <2>7. Cardinality(FreeLanes) <= Cardinality(Helpers)
    BY <2>5 DEF NoLostWakeup
  <2> QED BY <1>n, <2>6, <2>7
<1>3. ASSUME NEW c \in Callers, Sleep(c)
      PROVE  Cardinality(FreeLanes') <= Cardinality(Helpers')
  <2>1. FreeLanes' = {}
    BY <1>3 DEF Sleep, FreeLanes
  <2> QED BY <2>1, <1>n, FS_EmptySet
<1>4. ASSUME NEW c \in Callers, ClearSlot(c)
      PROVE  Cardinality(FreeLanes') <= Cardinality(Helpers')
  <2>1. /\ pc[c] = "clearSlot" /\ pc' = [pc EXCEPT ![c] = "deactivate"]
        /\ slot' = [slot EXCEPT ![lane[c]] = NoExec]
    BY <1>4 DEF ClearSlot
  <2>2. Helpers' = Helpers \cup {c} /\ c \notin Helpers /\ Sleepers' = Sleepers
    BY <1>t, <2>1 DEF Helpers, Sleepers, At, TypeOK
  <2>3. lane[c] \in Lanes /\ slot[lane[c]] = exec[c] /\ exec[c] # NoExec
    BY <1>t, <2>1 DEF LaneInv, OneExecutionPerLane, Owning, IdsInUse, InCall, At,
       CallerStates, NoExec, TypeOK
  <2>4. FreeLanes' = FreeLanes \cup {lane[c]} /\ lane[c] \notin FreeLanes
    BY <1>t, <2>1, <2>3 DEF FreeLanes, TypeOK
  <2>5. /\ Cardinality(FreeLanes') = Cardinality(FreeLanes) + 1
        /\ Cardinality(Helpers') = Cardinality(Helpers) + 1
    BY <1>n, <2>2, <2>4, FS_AddElement
  <2>6. Cardinality(FreeLanes) <= Cardinality(Helpers)
    BY <2>2 DEF NoLostWakeup
  <2> QED BY <1>n, <2>5, <2>6
<1>5. ASSUME NEW c \in Callers, NotifyOne(c)
      PROVE  Cardinality(FreeLanes') <= Cardinality(Helpers')
  <2>1. pc[c] = "notify" /\ slot' = slot
    BY <1>5 DEF NotifyOne
  <2>2. CASE Sleepers = {} /\ pc' = [pc EXCEPT ![c] = "idle"]
    BY <1>t, <2>1, <2>2 DEF Sleepers, At, TypeOK
  <2>3. ASSUME NEW w \in Sleepers, pc' = [pc EXCEPT ![c] = "idle", ![w] = "woken"]
        PROVE  Cardinality(FreeLanes') <= Cardinality(Helpers')
    <3> DEFINE rest == Helpers \ {c}
    <3>1. w \in Callers /\ pc[w] = "asleep" /\ w # c
      BY <2>1 DEF Sleepers, At
    <3>2. Helpers' = rest \cup {w} /\ w \notin rest /\ c \in Helpers
      BY <1>t, <2>1, <2>3, <3>1 DEF Helpers, At, TypeOK
    <3>3. IsFiniteSet(rest) /\ Cardinality(rest) = Cardinality(Helpers) - 1
      BY <1>n, <3>2, FS_RemoveElement
    <3>4. Cardinality(Helpers') = Cardinality(rest) + 1
      BY <3>2, <3>3, FS_AddElement
    <3>5. FreeLanes' = FreeLanes
      BY <2>1 DEF FreeLanes
    <3>6. Cardinality(FreeLanes) <= Cardinality(Helpers)
      BY <3>1 DEF NoLostWakeup, Sleepers, At
    <3> QED BY <1>n, <3>3, <3>4, <3>5, <3>6
  <2> QED BY <1>5, <2>2, <2>3 DEF NotifyOne
<1>6. ASSUME UNCHANGED <<slot, pc>>
      PROVE  Cardinality(FreeLanes') <= Cardinality(Helpers')
  BY <1>6, <1>m DEF FreeLanes, Helpers, Sleepers, At
<1>7. ASSUME NEW r \in Readers, ReaderStep(r) PROVE UNCHANGED <<slot, pc>>
  BY <1>7 DEF ReaderStep, BeginSnapshot, LoadRunning, LoadQueued, LoadPeak,
     CopyLanes, DropSnapshot
<1>8. CASE UNCHANGED vars
  BY <1>6, <1>8 DEF vars
<1> QED
  BY <1>1, <1>2, <1>3, <1>4, <1>5, <1>6, <1>7, <1>8 DEF Next, Progress

(* The condition variable loses no wakeup: no caller of run_one_observed   *)
(* sleeps beside a free lane that nobody is on the way to.                 *)
THEOREM WakeupSafety == Spec => []NoLostWakeup
<1>1. Init => NoLostWakeup
  BY DEF Init, NoLostWakeup, Sleepers, At
<1> QED
  BY <1>1, LaneInvariant, WakeupStep, PTL DEF Spec

-----------------------------------------------------------------------------
(* shared_waiting moves with the callers it counts.                        *)
LEMMA WaitingStep == LaneInv /\ WaitingIsExact /\ [Next]_vars => WaitingIsExact'
<1> SUFFICES ASSUME LaneInv, WaitingIsExact, [Next]_vars
             PROVE  waiting' = Cardinality(Waiting')
  BY DEF WaitingIsExact
<1>t. TypeOK /\ TypeOK'
  BY TypeStep DEF LaneInv
<1>n. /\ waiting = Cardinality(Waiting)
      /\ Cardinality(Waiting) \in Nat /\ IsFiniteSet(Waiting)
  BY CallersCounted DEF Waiting, At, WaitingIsExact
<1>m. ASSUME waiting' = waiting, Waiting' = Waiting
      PROVE  waiting' = Cardinality(Waiting')
  BY <1>m, <1>n
<1> USE DEF Goto, pool, counters, callers, environment, readers
<1>1. ASSUME NEW c \in Callers, Enter(c) PROVE waiting' = Cardinality(Waiting')
  <2>1. Waiting' = Waiting \cup {c} /\ c \notin Waiting
    BY <1>t, <1>1 DEF Enter, Waiting, At, TypeOK
  <2>2. Cardinality(Waiting') = Cardinality(Waiting) + 1
    BY <2>1, <1>n, FS_AddElement
  <2> QED BY <1>1, <1>n, <2>2 DEF Enter
<1>2. ASSUME NEW c \in Callers, Admit(c) PROVE waiting' = Cardinality(Waiting')
  <2>1. Waiting' = Waiting \ {c} /\ c \in Waiting
    BY <1>t, <1>2 DEF Admit, Waiting, At, TypeOK
  <2>2. Cardinality(Waiting') = Cardinality(Waiting) - 1
    BY <2>1, <1>n, FS_RemoveElement
  <2> QED BY <1>2, <1>n, <2>2 DEF Admit
<1>3. ASSUME NEW c \in Callers, Lock(c) \/ Reserve(c) \/ Sleep(c) \/ SpuriousWakeup(c)
      PROVE  waiting' = Cardinality(Waiting')
  <2>1. waiting' = waiting
    BY <1>3 DEF Lock, Reserve, Sleep, SpuriousWakeup
  <2>2. Waiting' = Waiting
    BY <1>t, <1>3 DEF Lock, Reserve, Sleep, SpuriousWakeup, Waiting, At, TypeOK
  <2> QED BY <1>m, <2>1, <2>2
<1>4. ASSUME NEW c \in Callers, \/ ObserverReturns(c) \/ Activate(c) \/ RaisePeak(c)
                                \/ TaskReturns(c) \/ Panic(c)
      PROVE  waiting' = Cardinality(Waiting')
  <2>1. waiting' = waiting
    BY <1>4 DEF ObserverReturns, Activate, RaisePeak, TaskReturns, Panic
  <2>2. Waiting' = Waiting
    BY <1>t, <1>4 DEF ObserverReturns, Activate, RaisePeak, TaskReturns, Panic,
       Waiting, At, TypeOK
  <2> QED BY <1>m, <2>1, <2>2
<1>5. ASSUME NEW c \in Callers, Relock(c) \/ ClearSlot(c) \/ Deactivate(c)
      PROVE  waiting' = Cardinality(Waiting')
  <2>1. waiting' = waiting
    BY <1>5 DEF Relock, ClearSlot, Deactivate
  <2>2. Waiting' = Waiting
    BY <1>t, <1>5 DEF Relock, ClearSlot, Deactivate, Waiting, At, TypeOK
  <2> QED BY <1>m, <2>1, <2>2
<1>6. ASSUME NEW c \in Callers, NotifyOne(c) PROVE waiting' = Cardinality(Waiting')
  <2>1. waiting' = waiting /\ pc[c] = "notify"
    BY <1>6 DEF NotifyOne
  <2>2. CASE pc' = [pc EXCEPT ![c] = "idle"]
    <3>1. Waiting' = Waiting
      BY <1>t, <2>1, <2>2 DEF Waiting, At, TypeOK
    <3> QED BY <1>m, <2>1, <3>1
  <2>3. ASSUME NEW w \in Sleepers, pc' = [pc EXCEPT ![c] = "idle", ![w] = "woken"]
        PROVE  waiting' = Cardinality(Waiting')
    <3>1. w \in Callers /\ pc[w] = "asleep"
      BY DEF Sleepers, At
    <3>2. Waiting' = Waiting
      BY <1>t, <2>1, <2>3, <3>1 DEF Waiting, At, TypeOK
    <3> QED BY <1>m, <2>1, <3>2
  <2> QED BY <1>6, <2>2, <2>3 DEF NotifyOne
<1>7. ASSUME NEW r \in Readers, ReaderStep(r) PROVE waiting' = Cardinality(Waiting')
  <2>1. UNCHANGED <<waiting, pc>>
    BY <1>7 DEF ReaderStep, BeginSnapshot, LoadRunning, LoadQueued, LoadPeak,
       CopyLanes, DropSnapshot
  <2> QED BY <1>m, <2>1 DEF Waiting, At
<1>8. CASE UNCHANGED vars
  BY <1>8, <1>m DEF vars, Waiting, At
<1> QED
  BY <1>1, <1>2, <1>3, <1>4, <1>5, <1>6, <1>7, <1>8 DEF Next, Progress

(* The atomic shared_waiting, raised outside the mutex and lowered under   *)
(* it, is the exact number of calls that own no lane yet, so its fetch_sub *)
(* never wraps.                                                            *)
THEOREM WaitingExact == Spec => []WaitingIsExact
<1>1. Init => WaitingIsExact
  <2>1. Init => Waiting = {}
    BY DEF Init, Waiting, At
  <2> QED BY <2>1, FS_EmptySet DEF Init, WaitingIsExact
<1> QED
  BY <1>1, LaneInvariant, WaitingStep, PTL DEF Spec

-----------------------------------------------------------------------------
(* One step of the pool is one step of the grid or none of its business:   *)
(* Enter, Reserve and ClearSlot are the grid's Enter, Grant and Release, a *)
(* panic loses the lane, and all other steps stutter.                      *)
LEMMA GridStep == LaneInv /\ LaneInv' /\ [Next]_vars => [Grid!Next]_(Grid!gridVars)
<1> SUFFICES ASSUME LaneInv, LaneInv', [Next]_vars
             PROVE  Grid!Next \/ UNCHANGED Grid!gridVars
  OBVIOUS
<1>t. TypeOK /\ TypeOK'
  BY DEF LaneInv
<1> USE DEF Goto, pool, counters, callers, environment, readers
<1>s. ASSUME UNCHANGED <<nextId, slot, exec, lane>>,
             At({"lock", "scan", "asleep", "woken"})' = At({"lock", "scan", "asleep", "woken"}),
             Owning' = Owning
      PROVE  UNCHANGED Grid!gridVars
  BY <1>s DEF Grid!gridVars, Queued, LostLanes, FreeLanes
<1>1. ASSUME NEW c \in Callers, Enter(c) PROVE Grid!Next
  <2>1. Queued' = Queued \cup {nextId}
    BY <1>t, <1>1 DEF Enter, Queued, At, TypeOK
  <2>2. Owning' = Owning
    BY <1>t, <1>1 DEF Enter, Owning, At, TypeOK
  <2>3. LostLanes' = LostLanes
    BY <1>1, <2>2 DEF Enter, LostLanes, FreeLanes
  <2> QED BY <1>1, <2>1, <2>3 DEF Enter, Grid!Next, Grid!Enter
<1>2. ASSUME NEW c \in Callers, Reserve(c) PROVE Grid!Next
  <2>1. PICK l \in FreeLanes : /\ slot' = [slot EXCEPT ![l] = exec[c]]
                               /\ lane' = [lane EXCEPT ![c] = l]
    BY <1>2 DEF Reserve
  <2>2. /\ pc[c] = "scan" /\ pc' = [pc EXCEPT ![c] = "reserved"]
        /\ exec' = exec /\ nextId' = nextId
    BY <1>2 DEF Reserve
  <2>3. exec[c] \in Queued /\ exec[c] # NoExec
    BY <1>t, <2>2 DEF LaneInv, IdsInUse, InCall, At, CallerStates, NoExec, TypeOK, Queued
  <2>4. Queued' = Queued \ {exec[c]}
    BY <1>t, <2>2 DEF LaneInv, IdsInUse, InCall, At, CallerStates, TypeOK, Queued
  <2>5. l \in Lanes /\ slot[l] = NoExec
    BY DEF FreeLanes
  <2>6. Owning' = Owning \cup {c}
    BY <1>t, <2>2 DEF Owning, At, TypeOK
  <2>7. FreeLanes' = FreeLanes \ {l}
    BY <1>t, <2>1, <2>3, <2>5 DEF FreeLanes, TypeOK
  <2>8. lane'[c] = l /\ \A d \in Callers \ {c} : lane'[d] = lane[d]
    BY <1>t, <2>1 DEF TypeOK
  <2>9. Owning \subseteq Callers /\ c \notin Owning
    BY <2>2 DEF Owning, At
  <2>10. LostLanes' = LostLanes
    BY <2>5, <2>6, <2>7, <2>8, <2>9 DEF LostLanes, FreeLanes
  <2>11. Grid!Grant(l)
    BY <2>1, <2>2, <2>3, <2>4, <2>5, <2>10 DEF Grid!Grant, Grid!NoExec, NoExec
  <2> QED BY <2>5, <2>11 DEF Grid!Next, Grid!Lanes, Lanes
<1>3. ASSUME NEW c \in Callers, Panic(c) PROVE Grid!Next
  <2> DEFINE l == lane[c]
  <2>1. /\ c \in Owning /\ slot' = slot /\ exec' = exec /\ lane' = lane /\ nextId' = nextId
        /\ pc' = [pc EXCEPT ![c] = "idle"] /\ pc[c] \in {"observing", "running"}
    BY <1>3 DEF Panic, Owning, At
  <2>2. Queued' = Queued
    <3>1. At({"lock", "scan", "asleep", "woken"})' = At({"lock", "scan", "asleep", "woken"})
      <4>1. \A d \in Callers : (pc'[d] \in {"lock", "scan", "asleep", "woken"})
                                <=> (pc[d] \in {"lock", "scan", "asleep", "woken"})
        BY <1>t, <2>1 DEF TypeOK
      <4> QED BY <4>1 DEF At
    <3> QED BY <2>1, <3>1 DEF Queued
  <2>3. Owning' = Owning \ {c}
    BY <1>t, <2>1 DEF Owning, At, TypeOK
  <2>4. /\ l \in Lanes /\ slot[l] # NoExec
        /\ \A d \in Owning : d # c => lane[d] # l
    <3>1. l \in Lanes
      BY <1>t DEF TypeOK
    <3>2. exec[c] # NoExec
      BY <2>1 DEF LaneInv, IdsInUse, InCall, Owning, At, CallerStates, NoExec
    <3>3. slot[l] = exec[c] /\ \A d \in Owning : d # c => lane[d] # l
      BY <2>1 DEF LaneInv, OneExecutionPerLane
    <3> QED BY <3>1, <3>2, <3>3
  <2>5. l \notin LostLanes /\ LostLanes' = LostLanes \cup {l}
    BY <2>1, <2>3, <2>4 DEF LostLanes, FreeLanes
  <2>6. Grid!Lose(l)
    BY <2>1, <2>2, <2>4, <2>5 DEF Grid!Lose, Grid!NoExec, NoExec
  <2> QED BY <2>4, <2>6 DEF Grid!Next, Grid!Lanes, Lanes
<1>4. ASSUME NEW c \in Callers, ClearSlot(c) PROVE Grid!Next
  <2> DEFINE l == lane[c]
  <2>1. /\ c \in Owning /\ slot' = [slot EXCEPT ![l] = NoExec]
        /\ exec' = exec /\ lane' = lane /\ nextId' = nextId
        /\ pc' = [pc EXCEPT ![c] = "deactivate"]
    BY <1>4 DEF ClearSlot, Owning, At
  <2>2. Queued' = Queued
    BY <1>t, <1>4 DEF ClearSlot, Queued, At, TypeOK
  <2>3. Owning' = Owning \ {c}
    BY <1>t, <2>1 DEF Owning, At, TypeOK
  <2>4. /\ l \in Lanes /\ slot[l] # NoExec
        /\ \A d \in Owning : d # c => lane[d] # l
    <3>1. l \in Lanes
      BY <1>t DEF TypeOK
    <3>2. exec[c] # NoExec
      BY <2>1 DEF LaneInv, IdsInUse, InCall, Owning, At, CallerStates, NoExec
    <3>3. slot[l] = exec[c] /\ \A d \in Owning : d # c => lane[d] # l
      BY <2>1 DEF LaneInv, OneExecutionPerLane
    <3> QED BY <3>1, <3>2, <3>3
  <2>5. l \notin LostLanes
    BY <2>1 DEF LostLanes
  <2>6. FreeLanes' = FreeLanes \cup {l}
    BY <1>t, <2>1, <2>4 DEF FreeLanes, TypeOK
  <2>7. LostLanes' = LostLanes
    BY <2>1, <2>3, <2>4, <2>5, <2>6 DEF LostLanes
  <2>8. Grid!Release(l)
    BY <2>1, <2>2, <2>4, <2>5, <2>7 DEF Grid!Release, Grid!NoExec, NoExec
  <2> QED BY <2>4, <2>8 DEF Grid!Next, Grid!Lanes, Lanes
<1>5. ASSUME NEW c \in Callers, Lock(c) \/ Sleep(c) \/ SpuriousWakeup(c)
      PROVE  UNCHANGED Grid!gridVars
  <2>1. UNCHANGED <<nextId, slot, exec, lane>>
    BY <1>5 DEF Lock, Sleep, SpuriousWakeup
  <2>2. /\ At({"lock", "scan", "asleep", "woken"})' = At({"lock", "scan", "asleep", "woken"})
        /\ Owning' = Owning
    BY <1>t, <1>5 DEF Lock, Sleep, SpuriousWakeup, Owning, At, TypeOK
  <2> QED BY <1>s, <2>1, <2>2
<1>6. ASSUME NEW c \in Callers, \/ Admit(c) \/ ObserverReturns(c) \/ Activate(c)
                                \/ RaisePeak(c) \/ TaskReturns(c)
      PROVE  UNCHANGED Grid!gridVars
  <2>1. UNCHANGED <<nextId, slot, exec, lane>>
    BY <1>6 DEF Admit, ObserverReturns, Activate, RaisePeak, TaskReturns
  <2>2. /\ At({"lock", "scan", "asleep", "woken"})' = At({"lock", "scan", "asleep", "woken"})
        /\ Owning' = Owning
    BY <1>t, <1>6 DEF Admit, ObserverReturns, Activate, RaisePeak, TaskReturns,
       Owning, At, TypeOK
  <2> QED BY <1>s, <2>1, <2>2
<1>7. ASSUME NEW c \in Callers, Relock(c) \/ Deactivate(c) \/ NotifyOne(c)
      PROVE  UNCHANGED Grid!gridVars
  <2>1. UNCHANGED <<nextId, slot, exec, lane>>
    BY <1>7 DEF Relock, Deactivate, NotifyOne
  <2>2. CASE Relock(c) \/ Deactivate(c)
    <3>1. /\ At({"lock", "scan", "asleep", "woken"})' = At({"lock", "scan", "asleep", "woken"})
          /\ Owning' = Owning
      BY <1>t, <2>2 DEF Relock, Deactivate, Owning, At, TypeOK
    <3> QED BY <1>s, <2>1, <3>1
  <2>3. CASE NotifyOne(c)
    <3>1. CASE pc' = [pc EXCEPT ![c] = "idle"]
      <4>1. /\ At({"lock", "scan", "asleep", "woken"})' = At({"lock", "scan", "asleep", "woken"})
            /\ Owning' = Owning
        BY <1>t, <2>3, <3>1 DEF NotifyOne, Owning, At, TypeOK
      <4> QED BY <1>s, <2>1, <4>1
    <3>2. ASSUME NEW w \in Sleepers, pc' = [pc EXCEPT ![c] = "idle", ![w] = "woken"]
          PROVE  UNCHANGED Grid!gridVars
      <4>1. w \in Callers /\ pc[w] = "asleep" /\ pc[c] = "notify"
        BY <2>3 DEF NotifyOne, Sleepers, At
      <4>2. /\ At({"lock", "scan", "asleep", "woken"})' = At({"lock", "scan", "asleep", "woken"})
            /\ Owning' = Owning
        BY <1>t, <3>2, <4>1 DEF Owning, At, TypeOK
      <4> QED BY <1>s, <2>1, <4>2
    <3> QED BY <2>3, <3>1, <3>2 DEF NotifyOne
  <2> QED BY <1>7, <2>2, <2>3
<1>8. ASSUME NEW r \in Readers, ReaderStep(r) PROVE UNCHANGED Grid!gridVars
  <2>1. UNCHANGED <<nextId, slot, pc, exec, lane>>
    BY <1>8 DEF ReaderStep, BeginSnapshot, LoadRunning, LoadQueued, LoadPeak,
       CopyLanes, DropSnapshot
  <2> QED BY <1>s, <2>1 DEF Owning, At
<1>9. CASE UNCHANGED vars
  BY <1>9, <1>s DEF vars, Owning, At
<1> QED
  BY <1>1, <1>2, <1>3, <1>4, <1>5, <1>6, <1>7, <1>8, <1>9 DEF Next, Progress

(* run_one_observed, with its mutex, its condition variable and its        *)
(* panics, implements the abstract lane grid.                              *)
THEOREM GridRefinement == Spec => Grid!Spec
<1>1. Init => Grid!Init
  BY DEF Init, Grid!Init, Queued, LostLanes, FreeLanes, Owning, At, Lanes,
     Grid!Lanes, NoExec, Grid!NoExec
<1>2. LaneInv /\ LaneInv' /\ [Next]_vars => [Grid!Next]_(Grid!gridVars)
  BY GridStep
<1> QED
  BY <1>1, <1>2, LaneInvariant, PTL DEF Spec, Grid!Spec
-----------------------------------------------------------------------------
(* Which lanes are lost depends on the slots and on the owners' lanes      *)
(* only, and a step that keeps them, and panics, keeps the count.          *)
LEMMA LostLanesKept ==
  ASSUME LostLanesArePanics, UNCHANGED <<slot, lane, panics>>, Owning' = Owning
  PROVE  LostLanesArePanics'
BY DEF LostLanesArePanics, LostLanes, FreeLanes

(* A step of run_one_observed loses a lane exactly when a callback panics: *)
(* a release frees the lane of a call, never a lost one, and a reservation *)
(* takes a free one.                                                       *)
LEMMA LostStep == LaneInv /\ LostLanesArePanics /\ [Next]_vars => LostLanesArePanics'
<1> SUFFICES ASSUME LaneInv, LostLanesArePanics, [Next]_vars PROVE LostLanesArePanics'
  OBVIOUS
<1>t. TypeOK /\ IsFiniteSet(LostLanes) /\ Cardinality(LostLanes) = panics
  BY LanesCounted DEF LaneInv, LostLanesArePanics, LostLanes, FreeLanes
<1> USE DEF Goto, callers, counters, environment, readers, pool
<1>1. ASSUME NEW c \in Callers, Enter(c) PROVE LostLanesArePanics'
  <2>1. UNCHANGED <<slot, lane, panics>> /\ Owning' = Owning
    BY <1>t, <1>1 DEF Enter, Owning, At, TypeOK
  <2> QED BY <2>1, LostLanesKept
<1>2. ASSUME NEW c \in Callers, Reserve(c) PROVE LostLanesArePanics'
  <2>1. PICK l \in FreeLanes : /\ slot' = [slot EXCEPT ![l] = exec[c]]
                               /\ lane' = [lane EXCEPT ![c] = l]
    BY <1>2 DEF Reserve
  <2>2. /\ c \notin Owning /\ Owning' = Owning \cup {c} /\ panics' = panics
        /\ exec[c] # NoExec
    BY <1>t, <1>2 DEF Reserve, Owning, At, TypeOK, LaneInv, IdsInUse, InCall, CallerStates, NoExec
  <2>3. l \in Lanes /\ FreeLanes' = FreeLanes \ {l}
    BY <1>t, <2>1, <2>2 DEF FreeLanes, TypeOK
  <2>4. lane'[c] = l /\ \A d \in Owning : lane'[d] = lane[d]
    BY <1>t, <2>1, <2>2 DEF TypeOK, Owning, At
  <2>5. LostLanes' = LostLanes
    BY <2>1, <2>2, <2>3, <2>4 DEF LostLanes
  <2> QED BY <1>t, <2>2, <2>5 DEF LostLanesArePanics
<1>3. ASSUME NEW c \in Callers, Panic(c) PROVE LostLanesArePanics'
  <2> DEFINE l == lane[c]
  <2>1. /\ c \in Owning /\ slot' = slot /\ lane' = lane /\ panics' = panics + 1
        /\ pc' = [pc EXCEPT ![c] = "idle"]
    BY <1>3 DEF Panic, Owning, At
  <2>2. Owning' = Owning \ {c}
    BY <1>t, <2>1 DEF Owning, At, TypeOK
  <2>3. /\ l \in Lanes /\ slot[l] # NoExec
        /\ \A d \in Owning : d # c => lane[d] # l
    <3>1. l \in Lanes
      BY <1>t DEF TypeOK
    <3>2. exec[c] # NoExec
      BY <2>1 DEF LaneInv, IdsInUse, InCall, Owning, At, CallerStates, NoExec
    <3> QED BY <2>1, <3>1, <3>2 DEF LaneInv, OneExecutionPerLane
  <2>4. l \notin LostLanes /\ LostLanes' = LostLanes \cup {l}
    BY <2>1, <2>2, <2>3 DEF LostLanes, FreeLanes
  <2>5. Cardinality(LostLanes') = Cardinality(LostLanes) + 1
    BY <1>t, <2>4, FS_AddElement
  <2> QED BY <1>t, <2>1, <2>5 DEF LostLanesArePanics
<1>4. ASSUME NEW c \in Callers, ClearSlot(c) PROVE LostLanesArePanics'
  <2> DEFINE l == lane[c]
  <2>1. /\ c \in Owning /\ slot' = [slot EXCEPT ![l] = NoExec] /\ lane' = lane
        /\ panics' = panics /\ pc' = [pc EXCEPT ![c] = "deactivate"]
    BY <1>4 DEF ClearSlot, Owning, At
  <2>2. Owning' = Owning \ {c}
    BY <1>t, <2>1 DEF Owning, At, TypeOK
  <2>3. l \in Lanes /\ l \notin LostLanes /\ FreeLanes' = FreeLanes \cup {l}
    BY <1>t, <2>1 DEF FreeLanes, LostLanes, TypeOK
  <2>4. \A d \in Owning : d # c => lane[d] # l
    BY <2>1 DEF LaneInv, OneExecutionPerLane
  <2>5. LostLanes' = LostLanes
    BY <2>1, <2>2, <2>3, <2>4 DEF LostLanes
  <2> QED BY <1>t, <2>1, <2>5 DEF LostLanesArePanics
<1>5. ASSUME NEW c \in Callers, Lock(c) \/ Sleep(c) \/ SpuriousWakeup(c) \/ Admit(c)
      PROVE  LostLanesArePanics'
  <2>1. UNCHANGED <<slot, lane, panics>>
    BY <1>5 DEF Lock, Sleep, SpuriousWakeup, Admit
  <2>2. Owning' = Owning
    BY <1>t, <1>5 DEF Lock, Sleep, SpuriousWakeup, Admit, Owning, At, TypeOK
  <2> QED BY <2>1, <2>2, LostLanesKept
<1>6. ASSUME NEW c \in Callers, \/ ObserverReturns(c) \/ Activate(c) \/ RaisePeak(c)
                                \/ TaskReturns(c) \/ Relock(c) \/ Deactivate(c)
      PROVE  LostLanesArePanics'
  <2>1. UNCHANGED <<slot, lane, panics>>
    BY <1>6 DEF ObserverReturns, Activate, RaisePeak, TaskReturns, Relock, Deactivate
  <2>2. Owning' = Owning
    BY <1>t, <1>6 DEF ObserverReturns, Activate, RaisePeak, TaskReturns, Relock, Deactivate,
       Owning, At, TypeOK
  <2> QED BY <2>1, <2>2, LostLanesKept
<1>7. ASSUME NEW c \in Callers, NotifyOne(c) PROVE LostLanesArePanics'
  <2>1. UNCHANGED <<slot, lane, panics>>
    BY <1>7 DEF NotifyOne
  <2>2. CASE pc' = [pc EXCEPT ![c] = "idle"]
    <3>1. Owning' = Owning
      BY <1>t, <1>7, <2>2 DEF NotifyOne, Owning, At, TypeOK
    <3> QED BY <2>1, <3>1, LostLanesKept
  <2>3. ASSUME NEW w \in Sleepers, pc' = [pc EXCEPT ![c] = "idle", ![w] = "woken"]
        PROVE  LostLanesArePanics'
    <3>1. w \in Callers /\ pc[w] = "asleep" /\ pc[c] = "notify"
      BY <1>7 DEF NotifyOne, Sleepers, At
    <3>2. Owning' = Owning
      BY <1>t, <2>3, <3>1 DEF Owning, At, TypeOK
    <3> QED BY <2>1, <3>2, LostLanesKept
  <2> QED BY <1>7, <2>2, <2>3 DEF NotifyOne
<1>8. ASSUME NEW r \in Readers, ReaderStep(r) PROVE LostLanesArePanics'
  <2>1. UNCHANGED <<slot, lane, panics>> /\ Owning' = Owning
    BY <1>8 DEF ReaderStep, BeginSnapshot, LoadRunning, LoadQueued, LoadPeak,
       CopyLanes, DropSnapshot, Owning, At
  <2> QED BY <2>1, LostLanesKept
<1>9. CASE UNCHANGED vars
  <2>1. UNCHANGED <<slot, lane, panics>> /\ Owning' = Owning
    BY <1>9 DEF vars, Owning, At
  <2> QED BY <2>1, LostLanesKept
<1> QED
  BY <1>1, <1>2, <1>3, <1>4, <1>5, <1>6, <1>7, <1>8, <1>9 DEF Next, Progress

(* A lane is lost to a panic of a callback of run_one_observed and to      *)
(* nothing else, and each panic loses one.                                 *)
THEOREM LostLanesCounted == Spec => []LostLanesArePanics
<1>1. Init => LostLanesArePanics
  <2> SUFFICES ASSUME Init PROVE LostLanesArePanics
    OBVIOUS
  <2>1. LostLanes = {} /\ panics = 0
    BY DEF Init, LostLanes, FreeLanes
  <2> QED BY <2>1, FS_EmptySet DEF LostLanesArePanics
<1> QED
  BY <1>1, LostStep, LaneInvariant, PTL DEF Spec
-----------------------------------------------------------------------------
(***************************************************************************)
(* Why a snapshot fits.  shared_active is raised after the lane is taken   *)
(* and lowered after it is freed, so it may be short of the callers that   *)
(* have a lane and are not counted yet, and beyond by those that are       *)
(* counted and have freed theirs; the latter hold the mutex, so a reader   *)
(* that holds it meets none.                                               *)
(***************************************************************************)
Taken == Lanes \ FreeLanes
Uncounted == At({"reserved", "observing", "activate"})
StillCounted == At({"deactivate"})

ActiveFits == active + Cardinality(Uncounted) <= Cardinality(Taken) + Cardinality(StillCounted)

\* what a reader has loaded fits the lanes it is about to copy
LoadFits == \A r \in Readers : rpc[r] \in {"queued", "peak", "lanes"} =>
    snap[r].running <= Cardinality(Taken)

SnapInv == ActiveFits /\ LoadFits /\ SnapshotRunningFits

(* The callers and lanes that the inequality counts are finitely many.     *)
LEMMA CountsAreNumbers ==
    /\ IsFiniteSet(Uncounted) /\ Cardinality(Uncounted) \in Nat
    /\ IsFiniteSet(Uncounted') /\ Cardinality(Uncounted') \in Nat
    /\ IsFiniteSet(StillCounted) /\ Cardinality(StillCounted) \in Nat
    /\ IsFiniteSet(StillCounted') /\ Cardinality(StillCounted') \in Nat
    /\ IsFiniteSet(Taken) /\ Cardinality(Taken) \in Nat
    /\ IsFiniteSet(Taken') /\ Cardinality(Taken') \in Nat
<1>1. /\ Uncounted \subseteq Callers /\ Uncounted' \subseteq Callers
      /\ StillCounted \subseteq Callers /\ StillCounted' \subseteq Callers
      /\ Taken \subseteq Lanes /\ Taken' \subseteq Lanes
  BY DEF Uncounted, StillCounted, At, Taken
<1> QED
  BY <1>1, CallersCounted, LanesCounted

(* Only a reservation and a release move the slots, both by the holder of  *)
(* the mutex; the inequality of ActiveFits survives every step.            *)
LEMMA ActiveStep == LaneInv /\ ActiveFits /\ [Next]_vars => ActiveFits'
<1> SUFFICES ASSUME LaneInv, ActiveFits, [Next]_vars PROVE ActiveFits'
  OBVIOUS
<1>t. TypeOK /\ TypeOK'
  BY TypeStep DEF LaneInv
<1>i. active \in Int /\ active' \in Int
  BY <1>t DEF TypeOK
<1>m. ASSUME active' = active, Taken' = Taken, StillCounted' = StillCounted,
             Uncounted' = Uncounted
      PROVE  ActiveFits'
  BY <1>m DEF ActiveFits
<1> USE DEF Goto, pool, counters, callers, environment, readers
<1>1. ASSUME NEW c \in Callers, Reserve(c) PROVE ActiveFits'
  <2>1. PICK l \in FreeLanes : slot' = [slot EXCEPT ![l] = exec[c]]
    BY <1>1 DEF Reserve
  <2>2. pc[c] = "scan" /\ pc' = [pc EXCEPT ![c] = "reserved"] /\ active' = active
    BY <1>1 DEF Reserve
  <2>3. exec[c] # NoExec
    BY <2>2, <1>t DEF LaneInv, IdsInUse, InCall, At, CallerStates, NoExec, TypeOK
  <2>4. Taken' = Taken \cup {l} /\ l \notin Taken
    BY <1>t, <2>1, <2>3 DEF Taken, FreeLanes, TypeOK
  <2>5. Uncounted' = Uncounted \cup {c} /\ c \notin Uncounted /\ StillCounted' = StillCounted
    BY <1>t, <2>2 DEF Uncounted, StillCounted, At, TypeOK
  <2>6. /\ Cardinality(Taken') = Cardinality(Taken) + 1
        /\ Cardinality(Uncounted') = Cardinality(Uncounted) + 1
    BY <2>4, <2>5, CountsAreNumbers, FS_AddElement
  <2> QED BY <1>i, <2>2, <2>5, <2>6, CountsAreNumbers DEF ActiveFits
<1>2. ASSUME NEW c \in Callers, Activate(c) PROVE ActiveFits'
  <2>1. /\ pc[c] = "activate" /\ pc' = [pc EXCEPT ![c] = "raisePeak"]
        /\ active' = active + 1 /\ slot' = slot
    BY <1>2 DEF Activate
  <2>2. /\ Uncounted' = Uncounted \ {c} /\ c \in Uncounted
        /\ StillCounted' = StillCounted /\ Taken' = Taken
    BY <1>t, <2>1 DEF Uncounted, StillCounted, Taken, FreeLanes, At, TypeOK
  <2>3. Cardinality(Uncounted') = Cardinality(Uncounted) - 1
    BY <2>2, CountsAreNumbers, FS_RemoveElement
  <2> QED BY <1>i, <2>1, <2>2, <2>3, CountsAreNumbers DEF ActiveFits
<1>3. ASSUME NEW c \in Callers, Panic(c) PROVE ActiveFits'
  <2>1. /\ active' = active /\ slot' = slot /\ pc' = [pc EXCEPT ![c] = "idle"]
        /\ pc[c] \in {"observing", "running"}
    BY <1>3 DEF Panic
  <2>2. Uncounted' \subseteq Uncounted /\ StillCounted' = StillCounted /\ Taken' = Taken
    BY <1>t, <2>1 DEF Uncounted, StillCounted, Taken, FreeLanes, At, TypeOK
  <2>3. Cardinality(Uncounted') <= Cardinality(Uncounted)
    BY <2>2, CountsAreNumbers, FS_Subset
  <2> QED BY <1>i, <2>1, <2>2, <2>3, CountsAreNumbers DEF ActiveFits
<1>4. ASSUME NEW c \in Callers, ClearSlot(c) PROVE ActiveFits'
  <2>1. /\ pc[c] = "clearSlot" /\ pc' = [pc EXCEPT ![c] = "deactivate"]
        /\ slot' = [slot EXCEPT ![lane[c]] = NoExec] /\ active' = active
    BY <1>4 DEF ClearSlot
  <2>2. lane[c] \in Lanes /\ slot[lane[c]] = exec[c] /\ exec[c] # NoExec
    <3>1. lane[c] \in Lanes
      BY <1>t DEF TypeOK
    <3>2. slot[lane[c]] = exec[c]
      BY <2>1 DEF LaneInv, OneExecutionPerLane, Owning, At
    <3>3. exec[c] # NoExec
      BY <2>1 DEF LaneInv, IdsInUse, InCall, At, CallerStates, NoExec
    <3> QED BY <3>1, <3>2, <3>3
  <2>3. Taken' = Taken \ {lane[c]} /\ lane[c] \in Taken
    BY <1>t, <2>1, <2>2 DEF Taken, FreeLanes, TypeOK
  <2>4. /\ StillCounted' = StillCounted \cup {c} /\ c \notin StillCounted
        /\ Uncounted' = Uncounted
    BY <1>t, <2>1 DEF Uncounted, StillCounted, At, TypeOK
  <2>5. /\ Cardinality(Taken') = Cardinality(Taken) - 1
        /\ Cardinality(StillCounted') = Cardinality(StillCounted) + 1
    BY <2>3, <2>4, CountsAreNumbers, FS_AddElement, FS_RemoveElement
  <2> QED BY <1>i, <2>1, <2>4, <2>5, CountsAreNumbers DEF ActiveFits
<1>5. ASSUME NEW c \in Callers, Deactivate(c) PROVE ActiveFits'
  <2>1. /\ pc[c] = "deactivate" /\ pc' = [pc EXCEPT ![c] = "notify"]
        /\ active' = active - 1 /\ slot' = slot
    BY <1>5 DEF Deactivate
  <2>2. /\ StillCounted' = StillCounted \ {c} /\ c \in StillCounted
        /\ Uncounted' = Uncounted /\ Taken' = Taken
    BY <1>t, <2>1 DEF Uncounted, StillCounted, Taken, FreeLanes, At, TypeOK
  <2>3. Cardinality(StillCounted') = Cardinality(StillCounted) - 1
    BY <2>2, CountsAreNumbers, FS_RemoveElement
  <2> QED BY <1>i, <2>1, <2>2, <2>3, CountsAreNumbers DEF ActiveFits
<1>6. ASSUME NEW c \in Callers, \/ Enter(c) \/ Lock(c) \/ Sleep(c) \/ SpuriousWakeup(c)
                                \/ Admit(c) \/ ObserverReturns(c)
      PROVE  ActiveFits'
  <2>1. active' = active /\ slot' = slot
    BY <1>6 DEF Enter, Lock, Sleep, SpuriousWakeup, Admit, ObserverReturns
  <2>2. StillCounted' = StillCounted /\ Uncounted' = Uncounted
    BY <1>t, <1>6 DEF Enter, Lock, Sleep, SpuriousWakeup, Admit, ObserverReturns,
       Uncounted, StillCounted, At, TypeOK
  <2> QED BY <1>m, <2>1, <2>2 DEF Taken, FreeLanes
<1>7. ASSUME NEW c \in Callers, RaisePeak(c) \/ TaskReturns(c) \/ Relock(c)
      PROVE  ActiveFits'
  <2>1. active' = active /\ slot' = slot
    BY <1>7 DEF RaisePeak, TaskReturns, Relock
  <2>2. StillCounted' = StillCounted /\ Uncounted' = Uncounted
    BY <1>t, <1>7 DEF RaisePeak, TaskReturns, Relock, Uncounted, StillCounted, At, TypeOK
  <2> QED BY <1>m, <2>1, <2>2 DEF Taken, FreeLanes
<1>8. ASSUME NEW c \in Callers, NotifyOne(c) PROVE ActiveFits'
  <2>1. active' = active /\ slot' = slot /\ pc[c] = "notify"
    BY <1>8 DEF NotifyOne
  <2>2. StillCounted' = StillCounted /\ Uncounted' = Uncounted
    <3>1. CASE pc' = [pc EXCEPT ![c] = "idle"]
      BY <1>t, <2>1, <3>1 DEF Uncounted, StillCounted, At, TypeOK
    <3>2. ASSUME NEW w \in Sleepers, pc' = [pc EXCEPT ![c] = "idle", ![w] = "woken"]
          PROVE  StillCounted' = StillCounted /\ Uncounted' = Uncounted
      <4>1. w \in Callers /\ pc[w] = "asleep"
        BY DEF Sleepers, At
      <4> QED BY <1>t, <2>1, <3>2, <4>1 DEF Uncounted, StillCounted, At, TypeOK
    <3> QED BY <1>8, <3>1, <3>2 DEF NotifyOne
  <2> QED BY <1>m, <2>1, <2>2 DEF Taken, FreeLanes
<1>9. ASSUME UNCHANGED <<active, slot, pc>> PROVE ActiveFits'
  BY <1>9, <1>m DEF Taken, FreeLanes, Uncounted, StillCounted, At
<1>10. ASSUME NEW r \in Readers, ReaderStep(r) PROVE ActiveFits'
  BY <1>9, <1>10 DEF ReaderStep, BeginSnapshot, LoadRunning, LoadQueued, LoadPeak,
     CopyLanes, DropSnapshot
<1>11. CASE UNCHANGED vars
  BY <1>9, <1>11 DEF vars
<1> QED
  BY <1>1, <1>2, <1>3, <1>4, <1>5, <1>6, <1>7, <1>8, <1>10, <1>11 DEF Next, Progress

(* While a reader holds the mutex the slots stand still and nobody is      *)
(* between freeing a lane and lowering shared_active, so what it loads     *)
(* and what it copies fit together.                                        *)
LEMMA SnapStep == LaneInv /\ SnapInv /\ [Next]_vars => SnapInv'
<1> SUFFICES ASSUME LaneInv, SnapInv, [Next]_vars PROVE LoadFits' /\ SnapshotRunningFits'
  BY ActiveStep DEF SnapInv
<1>t. TypeOK /\ TypeOK' /\ MutexHeld
  BY TypeStep DEF LaneInv
<1>1. ASSUME UNCHANGED <<slot, readers>> PROVE LoadFits' /\ SnapshotRunningFits'
  BY <1>1 DEF SnapInv, LoadFits, SnapshotRunningFits, Occupied, Taken, FreeLanes, readers
<1>2. ASSUME NEW c \in Callers, Reserve(c) \/ ClearSlot(c)
      PROVE  LoadFits' /\ SnapshotRunningFits'
  <2>1. c \in CriticalSection /\ UNCHANGED <<rpc, snap>>
    BY <1>2 DEF Reserve, ClearSlot, Goto, CriticalSection, At, readers
  <2>2. \A r \in Readers : rpc[r] \notin {"queued", "peak", "lanes"}
    BY <1>t, <2>1 DEF MutexHeld
  <2> QED BY <2>1, <2>2 DEF SnapInv, LoadFits, SnapshotRunningFits, Occupied
<1>3. ASSUME NEW c \in Callers, \/ Enter(c) \/ Lock(c) \/ Sleep(c) \/ SpuriousWakeup(c)
                                \/ Admit(c) \/ ObserverReturns(c) \/ Activate(c) \/ RaisePeak(c)
      PROVE  LoadFits' /\ SnapshotRunningFits'
  BY <1>1, <1>3 DEF Enter, Lock, Sleep, SpuriousWakeup, Admit, ObserverReturns, Activate,
     RaisePeak, pool
<1>4. ASSUME NEW c \in Callers, \/ TaskReturns(c) \/ Panic(c) \/ Relock(c) \/ Deactivate(c)
                                \/ NotifyOne(c)
      PROVE  LoadFits' /\ SnapshotRunningFits'
  BY <1>1, <1>4 DEF TaskReturns, Panic, Relock, Deactivate, NotifyOne, pool
<1>5. ASSUME NEW r \in Readers, LoadRunning(r) PROVE LoadFits' /\ SnapshotRunningFits'
  <2>1. /\ rpc[r] = "running" /\ rpc' = [rpc EXCEPT ![r] = "queued"]
        /\ snap' = [snap EXCEPT ![r].running = active] /\ slot' = slot
    BY <1>5 DEF LoadRunning, RGoto, pool
  <2>2. StillCounted = {}
    BY <1>t, <2>1 DEF MutexHeld, StillCounted, CriticalSection, At
  <2>3. active <= Cardinality(Taken)
    <3>1. Cardinality(StillCounted) = 0
      BY <2>2, FS_EmptySet
    <3> QED BY <1>t, <3>1, CountsAreNumbers DEF SnapInv, ActiveFits, TypeOK
  <2>4. /\ snap'[r].running = active /\ rpc'[r] = "queued"
        /\ \A s \in Readers : s # r => snap'[s] = snap[s] /\ rpc'[s] = rpc[s]
    BY <1>t, <2>1 DEF TypeOK
  <2>5. Taken' = Taken
    BY <2>1 DEF Taken, FreeLanes
  <2>6. LoadFits'
    BY <2>3, <2>4, <2>5 DEF SnapInv, LoadFits
  <2>7. SnapshotRunningFits'
    BY <2>4 DEF SnapInv, SnapshotRunningFits, Occupied
  <2> QED BY <2>6, <2>7
<1>6. ASSUME NEW r \in Readers, LoadQueued(r) \/ LoadPeak(r)
      PROVE  LoadFits' /\ SnapshotRunningFits'
  <2>1. /\ rpc[r] \in {"queued", "peak"} /\ rpc'[r] \in {"peak", "lanes"}
        /\ snap'[r].running = snap[r].running /\ slot' = slot
        /\ \A s \in Readers : s # r => snap'[s] = snap[s] /\ rpc'[s] = rpc[s]
    BY <1>t, <1>6 DEF LoadQueued, LoadPeak, RGoto, pool, TypeOK
  <2>2. Taken' = Taken
    BY <2>1 DEF Taken, FreeLanes
  <2>3. LoadFits'
    BY <2>1, <2>2 DEF SnapInv, LoadFits
  <2>4. SnapshotRunningFits'
    BY <2>1 DEF SnapInv, SnapshotRunningFits, Occupied
  <2> QED BY <2>3, <2>4
<1>7. ASSUME NEW r \in Readers, CopyLanes(r) PROVE LoadFits' /\ SnapshotRunningFits'
  <2>1. /\ rpc[r] = "lanes" /\ rpc'[r] = "done" /\ slot' = slot
        /\ snap'[r].running = snap[r].running /\ snap'[r].lanes = slot
        /\ \A s \in Readers : s # r => snap'[s] = snap[s] /\ rpc'[s] = rpc[s]
    BY <1>t, <1>7 DEF CopyLanes, RGoto, TypeOK
  <2>2. Taken' = Taken /\ Taken = {l \in Lanes : snap'[r].lanes[l] # NoExec}
    BY <2>1 DEF Taken, FreeLanes
  <2>3. LoadFits'
    BY <2>1, <2>2 DEF SnapInv, LoadFits
  <2>4. snap'[r].running <= Cardinality({l \in Lanes : snap'[r].lanes[l] # NoExec})
    BY <2>1, <2>2 DEF SnapInv, LoadFits
  <2>5. SnapshotRunningFits'
    BY <2>1, <2>4 DEF SnapInv, SnapshotRunningFits, Occupied
  <2> QED BY <2>3, <2>5
<1>8. ASSUME NEW r \in Readers, BeginSnapshot(r) \/ DropSnapshot(r)
      PROVE  LoadFits' /\ SnapshotRunningFits'
  <2>1. /\ rpc'[r] \in {"running", "idle"} /\ slot' = slot
        /\ \A s \in Readers : s # r => snap'[s] = snap[s] /\ rpc'[s] = rpc[s]
    BY <1>t, <1>8 DEF BeginSnapshot, DropSnapshot, RGoto, pool, TypeOK
  <2>2. Taken' = Taken
    BY <2>1 DEF Taken, FreeLanes
  <2>3. LoadFits'
    BY <2>1, <2>2 DEF SnapInv, LoadFits
  <2>4. SnapshotRunningFits'
    BY <2>1 DEF SnapInv, SnapshotRunningFits, Occupied
  <2> QED BY <2>3, <2>4
<1>9. CASE UNCHANGED vars
  BY <1>1, <1>9 DEF vars, pool
<1> QED
  BY <1>2, <1>3, <1>4, <1>5, <1>6, <1>7, <1>8, <1>9 DEF Next, Progress, ReaderStep

(* No snapshot of shared_snapshot shows more running executions than       *)
(* occupied lanes, although it loads the counter and copies the lanes in   *)
(* different moments and the counter moves without the mutex.              *)
THEOREM SnapshotsFit == Spec => []SnapshotRunningFits
<1>1. Init => SnapInv
  <2> SUFFICES ASSUME Init PROVE SnapInv
    OBVIOUS
  <2>1. Uncounted = {} /\ active = 0
    BY DEF Init, Uncounted, At
  <2>2. ActiveFits
    BY <2>1, CountsAreNumbers, FS_EmptySet DEF ActiveFits
  <2>3. LoadFits /\ SnapshotRunningFits
    BY DEF Init, LoadFits, SnapshotRunningFits
  <2> QED BY <2>2, <2>3 DEF SnapInv
<1>2. SnapInv => SnapshotRunningFits
  BY DEF SnapInv
<1> QED
  BY <1>1, <1>2, SnapStep, LaneInvariant, PTL DEF Spec
-----------------------------------------------------------------------------
(***************************************************************************)
(* Why the pool never stops.  The mutex is never left locked: who holds it *)
(* is between a lock() and the unlock that follows.  So a pool that stops  *)
(* has only sleepers in it; then no wakeup being lost leaves no lane free, *)
(* nobody owns the occupied ones, and each of those was lost to a panic.   *)
(***************************************************************************)
MutexOwned == mutex # Nobody => mutex \in CriticalSection \cup Reading

(* Whoever takes the mutex of the pool gives it up by the step that leaves *)
(* the critical section; no step in between leaves the call.               *)
LEMMA OwnedStep == LaneInv /\ MutexOwned /\ [Next]_vars => MutexOwned'
<1> SUFFICES ASSUME LaneInv, MutexOwned, [Next]_vars, mutex' # Nobody
             PROVE  mutex' \in CriticalSection' \cup Reading'
  BY DEF MutexOwned
<1>t. TypeOK /\ TypeOK' /\ MutexHeld
  BY TypeStep DEF LaneInv
<1>a. \A c \in Callers : c \in CriticalSection => mutex = c
  BY <1>t DEF MutexHeld
<1>b. \A r \in Readers : r \in Reading => mutex = r
  BY <1>t DEF MutexHeld, Reading
<1> USE DEF Goto, pool, counters, callers, environment, readers
<1>1. ASSUME mutex' = mutex, CriticalSection \subseteq CriticalSection', Reading \subseteq Reading'
      PROVE  mutex' \in CriticalSection' \cup Reading'
  BY <1>1 DEF MutexOwned
<1>2. ASSUME NEW c \in Callers, Lock(c) \/ Relock(c)
      PROVE  mutex' \in CriticalSection' \cup Reading'
  BY <1>t, <1>2 DEF Lock, Relock, CriticalSection, At, TypeOK
<1>3. ASSUME NEW c \in Callers, Sleep(c) \/ Admit(c) \/ NotifyOne(c) PROVE FALSE
  BY <1>3 DEF Sleep, Admit, NotifyOne
<1>4. ASSUME NEW c \in Callers, Reserve(c) \/ ClearSlot(c) \/ Deactivate(c)
      PROVE  mutex' \in CriticalSection' \cup Reading'
  BY <1>1, <1>t, <1>4 DEF Reserve, ClearSlot, Deactivate, CriticalSection, Reading, At, TypeOK
<1>5. ASSUME NEW c \in Callers, \/ Enter(c) \/ SpuriousWakeup(c) \/ ObserverReturns(c)
                                \/ Activate(c)
      PROVE  mutex' \in CriticalSection' \cup Reading'
  BY <1>1, <1>t, <1>5 DEF Enter, SpuriousWakeup, ObserverReturns, Activate,
     CriticalSection, Reading, At, TypeOK
<1>6. ASSUME NEW c \in Callers, RaisePeak(c) \/ TaskReturns(c) \/ Panic(c)
      PROVE  mutex' \in CriticalSection' \cup Reading'
  BY <1>1, <1>t, <1>6 DEF RaisePeak, TaskReturns, Panic, CriticalSection, Reading, At, TypeOK
<1>7. ASSUME NEW r \in Readers, ReaderStep(r) PROVE mutex' \in CriticalSection' \cup Reading'
  <2> USE DEF RGoto, Reading, CriticalSection, At, TypeOK
  <2>1. CASE BeginSnapshot(r) BY <1>t, <2>1 DEF BeginSnapshot
  <2>2. CASE LoadRunning(r) BY <1>1, <1>t, <2>2 DEF LoadRunning
  <2>3. CASE LoadQueued(r) BY <1>1, <1>t, <2>3 DEF LoadQueued
  <2>4. CASE LoadPeak(r) BY <1>1, <1>t, <2>4 DEF LoadPeak
  <2>5. CASE CopyLanes(r) BY <2>5 DEF CopyLanes
  <2>6. CASE DropSnapshot(r) BY <1>1, <1>t, <2>6 DEF DropSnapshot
  <2> QED BY <1>7, <2>1, <2>2, <2>3, <2>4, <2>5, <2>6 DEF ReaderStep
<1>8. CASE UNCHANGED vars
  BY <1>1, <1>8 DEF vars, CriticalSection, Reading, At
<1> QED
  BY <1>2, <1>3, <1>4, <1>5, <1>6, <1>7, <1>8 DEF Next, Progress

(* A pool in which every call sleeps has lost all of its lanes: nobody is  *)
(* on its way to a free lane, so none is free, and nobody owns one.        *)
LEMMA AllAsleep ==
    ASSUME TypeOK, NoLostWakeup, LostLanesArePanics, InCall # {}, InCall \subseteq Sleepers
    PROVE  panics = LaneCount
<1>1. Helpers = {} /\ Owning = {} /\ Sleepers # {}
  BY DEF Helpers, Owning, Sleepers, InCall, At, CallerStates
<1>2. FreeLanes = {}
  <2>1. Cardinality(FreeLanes) <= 0
    BY <1>1, FS_EmptySet DEF NoLostWakeup
  <2>2. FreeLanes \subseteq Lanes
    BY DEF FreeLanes
  <2> QED BY <2>1, <2>2, LanesCounted, FS_EmptySet
<1>3. LostLanes = Lanes
  BY <1>1, <1>2 DEF LostLanes
<1>4. Cardinality(Lanes) = LaneCount
  <2>1. Cardinality(0 .. LaneCount - 1) = IF 0 > LaneCount - 1 THEN 0 ELSE (LaneCount - 1) - 0 + 1
    BY FS_Interval
  <2> QED BY <2>1 DEF Lanes
<1> QED
  BY <1>3, <1>4 DEF LostLanesArePanics

(* However many threads call run_one_observed and read shared_snapshot,    *)
(* the pool never comes to rest with a call inside it, unless as many      *)
(* callbacks panicked as it has lanes.                                     *)
THEOREM PoolNeverStuck == Spec => []NeverStuck
<1>1. Init => MutexOwned
  BY DEF Init, MutexOwned
<1>2. LaneInv /\ MutexOwned /\ NoLostWakeup /\ LostLanesArePanics => NeverStuck
  <2> SUFFICES ASSUME LaneInv, MutexOwned, NoLostWakeup, LostLanesArePanics,
                      InCall # {}, panics < LaneCount,
                      InCall \ (Sleepers \cup Locking) = {}
               PROVE  Locking # {} /\ mutex \in Reading \cup {Nobody}
    BY DEF NeverStuck
  <2>1. Locking # {}
    <3>1. TypeOK /\ panics # LaneCount
      BY DEF LaneInv, TypeOK
    <3>2. ~(InCall \subseteq Sleepers)
      BY <3>1, AllAsleep
    <3> QED BY <3>2
  <2>2. CriticalSection \subseteq InCall \ (Sleepers \cup Locking)
    BY DEF CriticalSection, InCall, Sleepers, Locking, At, CallerStates
  <2> QED BY <2>1, <2>2 DEF MutexOwned
<1> QED
  BY <1>1, <1>2, OwnedStep, LaneInvariant, WakeupSafety, LostLanesCounted, PTL DEF Spec
=============================================================================
