---------------------------- MODULE SharedLanes ----------------------------
(***************************************************************************)
(* The shared single-task API of pit-scheduler: `run_one_observed` called  *)
(* by several threads at once, and `shared_snapshot` read beside them.     *)
(*                                                                         *)
(* `shared_lanes` is a mutex around one slot per lane, with a condition    *)
(* variable; shared_waiting, shared_active and shared_peak are atomics,    *)
(* some of them written outside the mutex.  One action is one access to    *)
(* shared state, so every interleaving of the atomics is explored.         *)
(*                                                                         *)
(* Mutex poisoning is recovered at every lock() of the source and no code  *)
(* panics while it holds the mutex, so the model has no poisoned state.    *)
(* Timing (busy_nanos, queued_for, ...) is left out.                       *)
(***************************************************************************)
EXTENDS Integers, FiniteSets

CONSTANTS Callers,      \* threads that call run_one_observed
          Readers,      \* threads that call shared_snapshot
          Nobody,       \* the holder of a mutex no thread holds
          LaneCount,    \* the argument of PitScheduler::new
          Panicking,    \* which callbacks may panic: a subset of {"observer", "task"}
          MaxCalls,     \* bound: calls of run_one_observed, all callers together
          MaxPanics,    \* bound: callbacks that panic
          MaxSpurious   \* bound: wakeups of the condition variable nobody asked for

ASSUME LaneCountAssumption == LaneCount \in Nat \ {0}
ASSUME ThreadsAssumption == /\ IsFiniteSet(Callers)
                            /\ Callers \cap Readers = {}
                            /\ Nobody \notin Callers \cup Readers

VARIABLES nextId,     \* next_execution_id
          slot,       \* shared_lanes.0: slot[l] is Some(id) or NoExec
          mutex,      \* who holds shared_lanes.0, or Nobody
          waiting,    \* shared_waiting
          active,     \* shared_active
          peak,       \* shared_peak
          pc,         \* pc[c]: where caller c is in run_one_observed
          exec,       \* exec[c]: execution_id of c's current or last call
          lane,       \* lane[c]: the lane c reserved
          seen,       \* seen[c]: what c's fetch_add on shared_active produced
          panics,     \* callbacks that have panicked
          spurious,   \* spurious wakeups that have happened
          rpc,        \* rpc[r]: where reader r is in shared_snapshot
          snap        \* snap[r]: the SchedulerSnapshot r has put together

pool == <<slot, mutex>>
counters == <<waiting, active, peak>>
callers == <<pc, exec, lane, seen>>
environment == <<panics, spurious>>
readers == <<rpc, snap>>
vars == <<nextId, pool, counters, callers, environment, readers>>

NoExec == -1
Lanes == 0 .. LaneCount - 1
FreeLanes == {l \in Lanes : slot[l] = NoExec}

CallerStates == {"idle", "lock", "scan", "asleep", "woken", "reserved",
                 "observing", "activate", "raisePeak", "running", "relock",
                 "clearSlot", "deactivate", "notify"}
At(states) == {c \in Callers : pc[c] \in states}

Waiting == At({"lock", "scan", "asleep", "woken", "reserved"})
Owning == At({"reserved", "observing", "activate", "raisePeak", "running",
              "relock", "clearSlot"})
Sleepers == At({"asleep"})
\* callers about to look at the slots, or about to pass the wakeup on
Helpers == At({"woken", "scan", "deactivate", "notify"})

EmptySnapshot == [running |-> 0, queued |-> 0, peak_active |-> 0,
                  lanes |-> [l \in Lanes |-> NoExec]]

Init == /\ nextId = 0
        /\ slot = [l \in Lanes |-> NoExec]
        /\ mutex = Nobody
        /\ waiting = 0
        /\ active = 0
        /\ peak = 0
        /\ pc = [c \in Callers |-> "idle"]
        /\ exec = [c \in Callers |-> NoExec]
        /\ lane = [c \in Callers |-> 0]
        /\ seen = [c \in Callers |-> 0]
        /\ panics = 0
        /\ spurious = 0
        /\ rpc = [r \in Readers |-> "idle"]
        /\ snap = [r \in Readers |-> EmptySnapshot]

Goto(c, from, to) == pc[c] = from /\ pc' = [pc EXCEPT ![c] = to]

(***************************************************************************)
(* Broken variants of steps below, one per way this protocol is easily got *)
(* wrong.  They are not part of Next: each replaces its original in turn   *)
(* to show that the properties notice.                                     *)
(***************************************************************************)
\* a woken caller takes a lane without looking again
ReserveUnchecked(c) ==
    /\ Goto(c, "scan", "reserved")
    /\ \E l \in Lanes : /\ slot' = [slot EXCEPT ![l] = exec[c]]
                        /\ lane' = [lane EXCEPT ![c] = l]
    /\ UNCHANGED <<nextId, mutex, counters, exec, seen, environment, readers>>

\* every trip around the wait loop counts the caller once more
SleepCounting(c) == /\ Goto(c, "scan", "asleep")
                    /\ FreeLanes = {}
                    /\ waiting' = waiting + 1
                    /\ mutex' = Nobody
                    /\ UNCHANGED <<nextId, slot, active, peak, exec, lane, seen, environment, readers>>

\* the guard of the slots lives on while the observer and the task run
AdmitHoldingMutex(c) == /\ Goto(c, "reserved", "observing")
                        /\ waiting' = waiting - 1
                        /\ UNCHANGED <<nextId, pool, active, peak, exec, lane, seen, environment, readers>>

\* an Err outcome returned with `?` before the release
PropagateError(c) == /\ Goto(c, "running", "relock") \/ Goto(c, "running", "idle")
                     /\ UNCHANGED <<nextId, pool, counters, exec, lane, seen, environment, readers>>

\* the first lane is freed, whichever lane the call had
ClearFirstSlot(c) == /\ Goto(c, "clearSlot", "deactivate")
                     /\ slot' = [slot EXCEPT ![0] = NoExec]
                     /\ UNCHANGED <<nextId, mutex, counters, exec, lane, seen, environment, readers>>

\* the mutex dropped before shared_active is lowered
ClearSlotAndUnlock(c) == /\ Goto(c, "clearSlot", "deactivate")
                         /\ slot' = [slot EXCEPT ![lane[c]] = NoExec]
                         /\ mutex' = Nobody
                         /\ UNCHANGED <<nextId, counters, exec, lane, seen, environment, readers>>

\* the slot freed without a notification
NotifyNobody(c) == /\ Goto(c, "notify", "idle")
                   /\ mutex' = Nobody
                   /\ UNCHANGED <<nextId, slot, counters, exec, lane, seen, environment, readers>>

(***************************************************************************)
(* Admission.                                                              *)
(***************************************************************************)
\* fetch_add on next_execution_id; shared_waiting is raised before the lock
Enter(c) == /\ Goto(c, "idle", "lock")
            /\ nextId < MaxCalls
            /\ exec' = [exec EXCEPT ![c] = nextId]
            /\ nextId' = nextId + 1
            /\ waiting' = waiting + 1
            /\ UNCHANGED <<pool, active, peak, lane, seen, environment, readers>>

\* the first lock(), and the reacquisition inside Condvar::wait
Lock(c) == /\ Goto(c, "lock", "scan") \/ Goto(c, "woken", "scan")
           /\ mutex = Nobody
           /\ mutex' = c
           /\ UNCHANGED <<nextId, slot, counters, exec, lane, seen, environment, readers>>

\* the first free slot in index order is taken
Reserve(c) == /\ Goto(c, "scan", "reserved")
              /\ \E l \in FreeLanes :
                    /\ \A k \in FreeLanes : l <= k
                    /\ slot' = [slot EXCEPT ![l] = exec[c]]
                    /\ lane' = [lane EXCEPT ![c] = l]
              /\ UNCHANGED <<nextId, mutex, counters, exec, seen, environment, readers>>

\* Condvar::wait gives the mutex up and sleeps in one step
Sleep(c) == /\ Goto(c, "scan", "asleep")
            /\ FreeLanes = {}
            /\ mutex' = Nobody
            /\ UNCHANGED <<nextId, slot, counters, exec, lane, seen, environment, readers>>

SpuriousWakeup(c) == /\ Goto(c, "asleep", "woken")
                     /\ spurious < MaxSpurious
                     /\ spurious' = spurious + 1
                     /\ UNCHANGED <<nextId, pool, counters, exec, lane, seen, panics, readers>>

\* shared_waiting is lowered under the mutex, which is then dropped
Admit(c) == /\ Goto(c, "reserved", "observing")
            /\ waiting' = waiting - 1
            /\ mutex' = Nobody
            /\ UNCHANGED <<nextId, slot, active, peak, exec, lane, seen, environment, readers>>

(***************************************************************************)
(* Execution.  A callback that panics unwinds run_one_observed: nothing    *)
(* below the call runs, so the slot stays taken.                           *)
(***************************************************************************)
ObserverReturns(c) == /\ Goto(c, "observing", "activate")
                      /\ UNCHANGED <<nextId, pool, counters, exec, lane, seen, environment, readers>>

Activate(c) == /\ Goto(c, "activate", "raisePeak")
               /\ active' = active + 1
               /\ seen' = [seen EXCEPT ![c] = active']
               /\ UNCHANGED <<nextId, pool, waiting, peak, exec, lane, environment, readers>>

\* fetch_max with the value this caller's own fetch_add produced
RaisePeak(c) == /\ Goto(c, "raisePeak", "running")
                /\ peak' = IF seen[c] > peak THEN seen[c] ELSE peak
                /\ seen' = [seen EXCEPT ![c] = 0]
                /\ UNCHANGED <<nextId, pool, waiting, active, exec, lane, environment, readers>>

\* Ok and Err alike: the outcome only changes the report
TaskReturns(c) == /\ Goto(c, "running", "relock")
                  /\ UNCHANGED <<nextId, pool, counters, exec, lane, seen, environment, readers>>

Panic(c) == /\ \/ "observer" \in Panicking /\ Goto(c, "observing", "idle")
               \/ "task" \in Panicking /\ Goto(c, "running", "idle")
            /\ panics < MaxPanics
            /\ panics' = panics + 1
            /\ UNCHANGED <<nextId, pool, counters, exec, lane, seen, spurious, readers>>

(***************************************************************************)
(* Release.  The mutex is held until the caller returns.                   *)
(***************************************************************************)
Relock(c) == /\ Goto(c, "relock", "clearSlot")
             /\ mutex = Nobody
             /\ mutex' = c
             /\ UNCHANGED <<nextId, slot, counters, exec, lane, seen, environment, readers>>

ClearSlot(c) == /\ Goto(c, "clearSlot", "deactivate")
                /\ slot' = [slot EXCEPT ![lane[c]] = NoExec]
                /\ UNCHANGED <<nextId, mutex, counters, exec, lane, seen, environment, readers>>

Deactivate(c) == /\ Goto(c, "deactivate", "notify")
                 /\ active' = active - 1
                 /\ UNCHANGED <<nextId, pool, waiting, peak, exec, lane, seen, environment, readers>>

\* notify_one picks any one sleeper; the mutex is dropped by the return
NotifyOne(c) == /\ pc[c] = "notify"
                /\ \/ \E w \in Sleepers :
                         pc' = [pc EXCEPT ![c] = "idle", ![w] = "woken"]
                   \/ Sleepers = {} /\ pc' = [pc EXCEPT ![c] = "idle"]
                /\ mutex' = Nobody
                /\ UNCHANGED <<nextId, slot, counters, exec, lane, seen, environment, readers>>

(***************************************************************************)
(* shared_snapshot: the mutex is held throughout, but the three counters   *)
(* are separate loads and the callers move two of them without the mutex.  *)
(***************************************************************************)
RGoto(r, from, to) == rpc[r] = from /\ rpc' = [rpc EXCEPT ![r] = to]

BeginSnapshot(r) == /\ RGoto(r, "idle", "running")
                    /\ mutex = Nobody
                    /\ mutex' = r
                    /\ snap' = [snap EXCEPT ![r] = EmptySnapshot]
                    /\ UNCHANGED <<nextId, slot, counters, callers, environment>>

LoadRunning(r) == /\ RGoto(r, "running", "queued")
                  /\ snap' = [snap EXCEPT ![r].running = active]
                  /\ UNCHANGED <<nextId, pool, counters, callers, environment>>

LoadQueued(r) == /\ RGoto(r, "queued", "peak")
                 /\ snap' = [snap EXCEPT ![r].queued = waiting]
                 /\ UNCHANGED <<nextId, pool, counters, callers, environment>>

LoadPeak(r) == /\ RGoto(r, "peak", "lanes")
               /\ snap' = [snap EXCEPT ![r].peak_active = peak]
               /\ UNCHANGED <<nextId, pool, counters, callers, environment>>

\* the lanes are copied and the mutex dropped
CopyLanes(r) == /\ RGoto(r, "lanes", "done")
                /\ snap' = [snap EXCEPT ![r].lanes = slot]
                /\ mutex' = Nobody
                /\ UNCHANGED <<nextId, slot, counters, callers, environment>>

\* the caller is done with the snapshot it was given
DropSnapshot(r) == /\ RGoto(r, "done", "idle")
                   /\ snap' = [snap EXCEPT ![r] = EmptySnapshot]
                   /\ UNCHANGED <<nextId, pool, counters, callers, environment>>

-----------------------------------------------------------------------------
\* what a thread does on its own, once it is in run_one_observed
Progress(c) == \/ Lock(c) \/ Reserve(c) \/ Sleep(c) \/ Admit(c)
               \/ ObserverReturns(c) \/ Activate(c) \/ RaisePeak(c)
               \/ TaskReturns(c) \/ Relock(c) \/ ClearSlot(c)
               \/ Deactivate(c) \/ NotifyOne(c)

ReaderStep(r) == \/ BeginSnapshot(r) \/ LoadRunning(r) \/ LoadQueued(r)
                 \/ LoadPeak(r) \/ CopyLanes(r) \/ DropSnapshot(r)

Next == \/ \E c \in Callers : Enter(c) \/ Progress(c) \/ SpuriousWakeup(c) \/ Panic(c)
        \/ \E r \in Readers : ReaderStep(r)

Spec == Init /\ [][Next]_vars

(* Threads are scheduled and tasks end.  Nothing makes a caller call, a    *)
(* callback panic or the condition variable wake up by itself.             *)
Fairness == \A c \in Callers : WF_vars(Progress(c) \/ Panic(c))
FairSpec == Spec /\ Fairness

-----------------------------------------------------------------------------
TypeOK == /\ nextId \in Nat
          /\ slot \in [Lanes -> Nat \cup {NoExec}]
          /\ mutex \in Callers \cup Readers \cup {Nobody}
          /\ waiting \in Int /\ active \in Int /\ peak \in Int
          /\ pc \in [Callers -> CallerStates]
          /\ exec \in [Callers -> Nat \cup {NoExec}]
          /\ lane \in [Callers -> Lanes]
          /\ seen \in [Callers -> Int]
          /\ panics \in Nat /\ spurious \in Nat
          /\ rpc \in [Readers -> {"idle", "running", "queued", "peak", "lanes", "done"}]
          /\ snap \in [Readers -> [running : Int, queued : Int, peak_active : Int,
                                   lanes : [Lanes -> Nat \cup {NoExec}]]]

(* A call between its reservation and its release has its own lane, and    *)
(* the slot of that lane names its execution: two executions never run on  *)
(* one lane, and a release never frees somebody else's lane.               *)
OneExecutionPerLane ==
    /\ \A c \in Owning : slot[lane[c]] = exec[c]
    /\ \A c, d \in Owning : c # d => lane[c] # lane[d]

(* No wakeup is lost: while a caller sleeps on the condition variable,     *)
(* each free lane has a caller on its way that will take it or pass the    *)
(* wakeup on, in spite of newcomers that overtake and of spurious wakeups. *)
NoLostWakeup ==
    Sleepers # {} => Cardinality(FreeLanes) <= Cardinality(Helpers)

(* shared_waiting counts the calls that own no lane yet, exactly; it never *)
(* wraps below zero although it is raised outside the mutex and lowered    *)
(* under it.                                                               *)
WaitingIsExact == waiting = Cardinality(Waiting)

(* A completed snapshot never shows more running executions than occupied  *)
(* lanes, although its counter and its lanes are read at different times.  *)
Occupied(s) == {l \in Lanes : s.lanes[l] # NoExec}
SnapshotRunningFits ==
    \A r \in Readers : rpc[r] = "done" =>
        snap[r].running <= Cardinality(Occupied(snap[r]))

(* Every call that entered is admitted to a lane, as long as fewer         *)
(* executions panic than there are lanes.                                  *)
EveryCallIsAdmitted ==
    \A c \in Callers : (pc[c] = "lock") ~> (pc[c] = "observing")

(* The pool never stops with a call inside it while fewer executions have  *)
(* panicked than there are lanes: some call can take its next step, or     *)
(* only waits for the mutex of a snapshot that is being read.  A thread    *)
(* that holds the mutex is never one that waits, and the calls under way   *)
(* are never all asleep on the condition variable.                         *)
InCall == At(CallerStates \ {"idle"})
Locking == At({"lock", "woken", "relock"})
Reading == {r \in Readers : rpc[r] \in {"running", "queued", "peak", "lanes"}}
NeverStuck ==
    InCall # {} /\ panics < LaneCount =>
        \/ InCall \ (Sleepers \cup Locking) # {}
        \/ Locking # {} /\ mutex \in Reading \cup {Nobody}

\* ids of the calls that own no lane yet
Queued == {exec[c] : c \in At({"lock", "scan", "asleep", "woken"})}
\* lanes whose execution has unwound
LostLanes == {l \in Lanes \ FreeLanes : \A c \in Owning : lane[c] # l}

(* Every lane that stays occupied without a call on it is the lane of a    *)
(* callback that panicked: Ok and Err outcomes and woken callers that were *)
(* overtaken never leak one, and a panic, of the task or of the observer   *)
(* that "cannot affect lane ownership or admission" (lib.rs:321), costs    *)
(* exactly one.                                                            *)
LostLanesArePanics == Cardinality(LostLanes) = panics

Grid == INSTANCE LaneGrid WITH
          issued <- nextId,
          queued <- Queued,
          owner <- slot,
          lost <- LostLanes

(* The pool implements the abstract grid, its promise to go on granting    *)
(* lanes included.                                                         *)
ImplementsGrid == Grid!Spec
ImplementsFairGrid == Grid!FairSpec
=============================================================================
