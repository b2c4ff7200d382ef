------------------------------ MODULE BatchRun ------------------------------
(***************************************************************************)
(* pit-scheduler's batch API, `run_many_classified`, and the report that   *)
(* pit-node's `execute_many_with_cancellation` draws up from one batch.    *)
(*                                                                         *)
(* Each element of Calls is one call of run_many on one scheduler.  A call *)
(* takes run_lock, reserves its execution ids one fetch_add at a time,     *)
(* spawns a worker per lane, and the workers share an atomic cursor.       *)
(* Counters, lanes, events and results live in the call's own RunState,    *)
(* which nobody reads before the workers are joined; a worker's accesses   *)
(* that no other worker can tell apart are therefore one action.           *)
(***************************************************************************)
EXTENDS Integers, Sequences, FiniteSets, Functions

CONSTANTS Calls,      \* calls of run_many_classified
          Counts,     \* bound: Counts[b] are the counts call b may ask for
          LaneCount,
          Outcomes,   \* how a task may end: a subset of AllOutcomes
          MayPanic,   \* whether a task may panic
          ForeignIds, \* bound: the ids that may go to a run_one caller
          Nobody      \* the holder of run_lock when no call holds it

\* ExecutionStatus of a task that returned Ok, "Err", as seen by pit-node
AllOutcomes == {"Completed", "GuestExitNonZero", "GuestTrap", "TimedOut",
                "Cancelled", "MemoryLimitExceeded", "RuntimeError", "Err"}

ASSUME BatchLanesAssumption == LaneCount \in Nat \ {0}
ASSUME BatchInputsAssumption == /\ Counts \in [Calls -> SUBSET Nat]
                                /\ ForeignIds \subseteq Nat
                                /\ Outcomes \subseteq AllOutcomes
                                /\ Nobody \notin Calls

VARIABLES nextId,    \* next_execution_id
          runLock,   \* run_lock
          bpc,       \* bpc[b]: where call b is
          count,     \* count[b]: its argument
          run,       \* run[b]: its RunState, cursor, ids and collected results
          worker,    \* worker[b][l]: the worker thread of lane l
          report     \* report[b]: the SchedulerRun it returned

batchVars == <<nextId, runLock, bpc, count, run, worker, report>>

Lanes == 0 .. LaneCount - 1
Free == -1                          \* LaneState::Free; else the running id

NewRun(n) == [ids |-> <<>>, cursor |-> 0, queued |-> n, running |-> 0,
              completed |-> 0, failed |-> 0, peak_active |-> 0,
              lanes |-> [l \in Lanes |-> Free], events |-> <<>>, results |-> <<>>]
IdleWorker == [pc |-> "exited", ix |-> 0, seen |-> 0, outcome |-> "Completed"]

Init == /\ nextId = 0
        /\ runLock = Nobody
        /\ bpc = [b \in Calls |-> "idle"]
        /\ count = [b \in Calls |-> 0]
        /\ run = [b \in Calls |-> NewRun(0)]
        /\ worker = [b \in Calls |-> [l \in Lanes |-> IdleWorker]]
        /\ report = [b \in Calls |-> NewRun(0)]

(***************************************************************************)
(* The calling thread.                                                     *)
(***************************************************************************)
\* a count of zero is refused before anything is touched
Call(b) == /\ bpc[b] = "idle"
           /\ \E n \in Counts[b] :
                 /\ count' = [count EXCEPT ![b] = n]
                 /\ bpc' = [bpc EXCEPT ![b] = IF n = 0 THEN "refused" ELSE "lock"]
           /\ UNCHANGED <<nextId, runLock, run, worker, report>>

\* broken: batches of one scheduler overlap
LockRunUnserialized(b) == /\ bpc[b] = "lock"
                          /\ runLock' = b
                          /\ run' = [run EXCEPT ![b] = NewRun(count[b])]
                          /\ bpc' = [bpc EXCEPT ![b] = "reserve"]
                          /\ UNCHANGED <<nextId, count, worker, report>>

LockRun(b) == /\ bpc[b] = "lock"
              /\ runLock = Nobody
              /\ runLock' = b
              /\ run' = [run EXCEPT ![b] = NewRun(count[b])]
              /\ bpc' = [bpc EXCEPT ![b] = "reserve"]
              /\ UNCHANGED <<nextId, count, worker, report>>

ReserveId(b) == /\ bpc[b] = "reserve"
                /\ Len(run[b].ids) < count[b]
                /\ run' = [run EXCEPT ![b].ids = Append(@, nextId)]
                /\ nextId' = nextId + 1
                /\ UNCHANGED <<runLock, bpc, count, worker, report>>

\* a run_one caller beside the batches draws from the same counter, so the
\* ids of a batch need not be consecutive
RunOneTakesId == /\ nextId \in ForeignIds
                 /\ nextId' = nextId + 1
                 /\ UNCHANGED <<runLock, bpc, count, run, worker, report>>

Event(kind, id, l) == [kind |-> kind, id |-> id, lane |-> l]

\* the Queued events, in id order, then one worker per lane
Spawn(b) == /\ bpc[b] = "reserve"
            /\ Len(run[b].ids) = count[b]
            /\ run' = [run EXCEPT ![b].events =
                          [i \in 1 .. count[b] |-> Event("Queued", run[b].ids[i], Free)]]
            /\ worker' = [worker EXCEPT ![b] = [l \in Lanes |-> [IdleWorker EXCEPT !.pc = "claim"]]]
            /\ bpc' = [bpc EXCEPT ![b] = "spawned"]
            /\ UNCHANGED <<nextId, runLock, count, report>>

(***************************************************************************)
(* A worker.                                                               *)
(***************************************************************************)
WGoto(b, l, from, to) == /\ worker[b][l].pc = from
                         /\ worker' = [worker EXCEPT ![b][l].pc = to]
WorkerFrame == UNCHANGED <<nextId, runLock, bpc, count, report>>
IdOf(b, l) == run[b].ids[worker[b][l].ix + 1]

\* fetch_add on the cursor, which the exiting workers push past count
Claim(b, l) ==
    /\ worker[b][l].pc = "claim"
    /\ LET ix == run[b].cursor IN
         \/ /\ ix < count[b]
            /\ worker' = [worker EXCEPT ![b][l].pc = "claimed", ![b][l].ix = ix]
            /\ run' = [run EXCEPT ![b].cursor = ix + 1, ![b].queued = @ - 1,
                                  ![b].lanes[l] = run[b].ids[ix + 1]]
         \/ /\ ix >= count[b]
            /\ worker' = [worker EXCEPT ![b][l].pc = "exited"]
            /\ run' = [run EXCEPT ![b].cursor = ix + 1]
    /\ WorkerFrame

CountRunning(b, l) ==
    /\ worker[b][l].pc = "claimed"
    /\ run' = [run EXCEPT ![b].running = @ + 1]
    /\ worker' = [worker EXCEPT ![b][l].pc = "counted", ![b][l].seen = run[b].running + 1]
    /\ WorkerFrame

\* broken: store instead of fetch_max
StartStoringPeak(b, l) ==
    /\ WGoto(b, l, "counted", "task")
    /\ run' = [run EXCEPT ![b].peak_active = worker[b][l].seen,
                          ![b].events = Append(@, Event("Started", IdOf(b, l), l))]
    /\ WorkerFrame

\* fetch_max with what this worker's own fetch_add produced; nobody reads the
\* peak before the join, so the event pushed next belongs to the same action
Start(b, l) ==
    /\ WGoto(b, l, "counted", "task")
    /\ run' = [run EXCEPT ![b].peak_active = IF worker[b][l].seen > @ THEN worker[b][l].seen ELSE @,
                          ![b].events = Append(@, Event("Started", IdOf(b, l), l))]
    /\ WorkerFrame

\* the classifier of pit-node calls every value that is not Completed a failure
Succeeds(outcome) == outcome = "Completed"

\* the task returns, its outcome is counted and its event pushed
EndTask(b, l) ==
    /\ worker[b][l].pc = "task"
    /\ \E o \in Outcomes :
          /\ worker' = [worker EXCEPT ![b][l].pc = "finished", ![b][l].outcome = o]
          /\ run' = [run EXCEPT
                       ![b].completed = IF Succeeds(o) THEN @ + 1 ELSE @,
                       ![b].failed = IF Succeeds(o) THEN @ ELSE @ + 1,
                       ![b].events = Append(@, Event(IF Succeeds(o) THEN "Completed" ELSE "Failed",
                                                     IdOf(b, l), l))]
    /\ WorkerFrame

\* a panicking task ends its worker thread; the others go on
PanicTask(b, l) == /\ MayPanic
                   /\ WGoto(b, l, "task", "panicked")
                   /\ UNCHANGED run
                   /\ WorkerFrame

Result(b, l) == [id |-> IdOf(b, l), lane |-> l, outcome |-> worker[b][l].outcome]

\* broken: the lane still shown as Running
ReleaseKeepingLane(b, l) ==
    /\ WGoto(b, l, "finished", "claim")
    /\ run' = [run EXCEPT ![b].running = @ - 1, ![b].results = Append(@, Result(b, l))]
    /\ WorkerFrame

\* running lowered, the lane set Free, the result collected; then the next job
ReleaseLane(b, l) ==
    /\ WGoto(b, l, "finished", "claim")
    /\ run' = [run EXCEPT ![b].running = @ - 1,
                          ![b].lanes[l] = Free,
                          ![b].results = Append(@, Result(b, l))]
    /\ WorkerFrame

WorkerStep(b, l) == \/ Claim(b, l) \/ CountRunning(b, l) \/ Start(b, l)
                    \/ EndTask(b, l) \/ PanicTask(b, l) \/ ReleaseLane(b, l)

(***************************************************************************)
(* thread::scope has joined the workers.  If one panicked it panics too,   *)
(* which drops the results and poisons run_lock; the next call recovers    *)
(* the lock.  Otherwise the results are sorted by id and returned.         *)
(***************************************************************************)
Joined(b) == /\ bpc[b] = "spawned"
             /\ \A l \in Lanes : worker[b][l].pc \in {"exited", "panicked"}
Unwound(b) == \E l \in Lanes : worker[b][l].pc = "panicked"
Sorted(results) ==
    LET places == DOMAIN results
        order == CHOOSE p \in [places -> places] :
                    /\ IsInjective(p)
                    /\ \A i, j \in places : i < j => results[p[i]].id <= results[p[j]].id
    IN [i \in places |-> results[order[i]]]

\* broken: results in the order the workers finished
JoinUnsorted(b) == /\ Joined(b)
                   /\ runLock' = Nobody
                   /\ bpc' = [bpc EXCEPT ![b] = "returned"]
                   /\ report' = [report EXCEPT ![b] = run[b]]
                   /\ UNCHANGED <<nextId, count, run, worker>>

\* broken: a poisoned run_lock is not recovered
JoinPoisoning(b) == /\ Joined(b)
                    /\ runLock' = IF Unwound(b) THEN b ELSE Nobody
                    /\ bpc' = [bpc EXCEPT ![b] = IF Unwound(b) THEN "panicked" ELSE "returned"]
                    /\ UNCHANGED <<nextId, count, run, worker, report>>

Join(b) ==
    /\ Joined(b)
    /\ runLock' = Nobody
    /\ \/ /\ Unwound(b)
          /\ bpc' = [bpc EXCEPT ![b] = "panicked"]
          /\ UNCHANGED report
       \/ /\ ~Unwound(b)
          /\ bpc' = [bpc EXCEPT ![b] = "returned"]
          /\ report' = [report EXCEPT ![b] = [run[b] EXCEPT !.results = Sorted(@)]]
    /\ UNCHANGED <<nextId, count, run, worker>>

CallStep(b) == LockRun(b) \/ ReserveId(b) \/ Spawn(b) \/ Join(b)
Next == \/ RunOneTakesId
        \/ \E b \in Calls : Call(b) \/ CallStep(b) \/ \E l \in Lanes : WorkerStep(b, l)

Spec == Init /\ [][Next]_batchVars

(* The calling thread and the workers are scheduled, and tasks end.        *)
Fairness == \A b \in Calls : /\ WF_batchVars(CallStep(b))
                             /\ \A l \in Lanes : WF_batchVars(WorkerStep(b, l))
FairSpec == Spec /\ Fairness

(***************************************************************************)
(* NodeRunReport: pit-node tallies the results by status.                  *)
(***************************************************************************)
\* broken: a limit hit is no failure
FailedStatusesButMemory == {"GuestExitNonZero", "GuestTrap", "RuntimeError"}

FailedStatuses == {"GuestExitNonZero", "GuestTrap", "MemoryLimitExceeded", "RuntimeError"}

\* a task that returned Err has no value and is reported as RuntimeError
StatusOf(result) == IF result.outcome = "Err" THEN "RuntimeError" ELSE result.outcome
Tally(results, statuses) == Cardinality({i \in DOMAIN results : StatusOf(results[i]) \in statuses})
NodeRunReport(b) == LET results == report[b].results IN
    [requested |-> count[b],
     completed |-> Tally(results, {"Completed"}),
     failed |-> Tally(results, FailedStatuses),
     timed_out |-> Tally(results, {"TimedOut"}),
     cancelled |-> Tally(results, {"Cancelled"}),
     memory_limit_exceeded |-> Tally(results, {"MemoryLimitExceeded"})]

-----------------------------------------------------------------------------
Returned == {b \in Calls : bpc[b] = "returned"}
\* threads in a task, as the events tell it
Busy(l) == {b \in Calls : worker[b][l].pc \in {"claimed", "counted", "task", "finished"}}

BatchTypeOK ==
    /\ nextId \in Nat
    /\ runLock \in Calls \cup {Nobody}
    /\ bpc \in [Calls -> {"idle", "refused", "lock", "reserve", "spawned", "returned", "panicked"}]
    /\ \A b \in Calls : count[b] \in Counts[b] \cup {0}
    /\ \A b \in Calls : /\ run[b].queued \in 0 .. count[b]
                        /\ run[b].running \in 0 .. LaneCount
                        /\ run[b].lanes \in [Lanes -> Nat \cup {Free}]
                        /\ run[b].cursor \in 0 .. count[b] + LaneCount

(* "At most one worker owns a lane, so a lane cannot contain two active    *)
(* executions" (doc of run_many_detailed): also across calls, because      *)
(* run_lock keeps the batches of one scheduler apart.                      *)
OneWorkerPerLane == \A l \in Lanes : Cardinality(Busy(l)) <= 1

(* A batch that returns has executed every id it reserved exactly once and *)
(* hands the results over in id order, however its workers interleaved.    *)
ResultsCompleteInOrder ==
    \A b \in Returned :
        /\ Len(report[b].results) = count[b]
        /\ \A i \in DOMAIN report[b].results : report[b].results[i].id = report[b].ids[i]

(* The snapshot of a returned run agrees with its results and is at rest:  *)
(* nothing queued or running, every lane Free, each job counted once.      *)
SnapshotAtRest ==
    \A b \in Returned :
        LET s == report[b] IN
        /\ s.queued = 0 /\ s.running = 0
        /\ \A l \in Lanes : s.lanes[l] = Free
        /\ s.completed = Cardinality({i \in DOMAIN s.results : s.results[i].outcome = "Completed"})
        /\ s.completed + s.failed = count[b]

\* how many executions a prefix of the events shows as running
Concurrency(events, n) ==
    Cardinality({i \in 1 .. n : events[i].kind = "Started"})
      - Cardinality({i \in 1 .. n : events[i].kind \in {"Completed", "Failed"}})

(* peak_active covers the concurrency an observer derives from the event   *)
(* log, and never exceeds the lanes: running is raised before Started is   *)
(* logged and lowered after Completed or Failed.                           *)
PeakCoversEvents ==
    \A b \in Returned :
        /\ report[b].peak_active <= LaneCount
        /\ \A n \in DOMAIN report[b].events :
              Concurrency(report[b].events, n) <= report[b].peak_active

(* pit-node's tallies and the scheduler's snapshot count the same batch    *)
(* two ways, by status and by the classifier, and agree.                   *)
NodeReportAgrees ==
    \A b \in Returned :
        LET n == NodeRunReport(b) IN
        /\ n.completed = report[b].completed
        /\ n.failed + n.timed_out + n.cancelled = report[b].failed
        /\ n.completed + n.failed + n.timed_out + n.cancelled = n.requested
        /\ n.memory_limit_exceeded <= n.failed

(* Every call ends, also after a panicking batch left run_lock poisoned.   *)
EveryBatchEnds ==
    \A b \in Calls : (bpc[b] = "lock") ~> (bpc[b] \in {"returned", "panicked"})
=============================================================================
