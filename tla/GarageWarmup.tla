---------------------------- MODULE GarageWarmup ----------------------------
(***************************************************************************)
(* One Garage serving POST /v1/execute: `execute`, `warmup`, `warmup_once` *)
(* of pit-garage, from admission through the per-digest singleflight and   *)
(* the preparation budget to the execution on the grid.                    *)
(*                                                                         *)
(* Each element of Requests is one HTTP request.  Its handler is a future  *)
(* that the server drops when the client disconnects; a task handed to     *)
(* spawn_blocking is not a part of the future and runs on.  `warmups` maps *)
(* a digest to a shared OnceCell; a cell is named by the request that      *)
(* inserted it.  The digest's artifact is content addressed, so the local  *)
(* store and the prepared table only grow.                                 *)
(***************************************************************************)
EXTENDS Integers, FiniteSets

CONSTANTS Requests, Digests,
          Budget,        \* max_preparations, at least 1
          MaxPending,    \* max_pending
          Defects,       \* what may be wrong with a request, besides "none"
          MayFail,       \* whether acquisitions, preparations and executions may fail
          MayDisconnect, \* whether clients may disconnect
          None

ASSUME BudgetAssumption == Budget \in Nat \ {0} /\ MaxPending \in Nat
ASSUME NoneAssumption == None \notin Requests
ASSUME RequestsAssumption == IsFiniteSet(Requests)
\* what a refusal answers is neither a response nor a failed execution
ASSUME DefectsAssumption == Defects \cap {"none", "Response", "StartedFailure"} = {}

VARIABLES pc,          \* pc[r]: where the handler of r is
          want,        \* want[r]: the digest r asks for
          cell,        \* cell[r]: the OnceCell r waits on or fills
          map,         \* warmups: map[d] is a cell or None
          value,       \* value[c]: "empty", "ok" or "err"
          filler,      \* filler[c]: the request that runs get_or_init's closure
          local,       \* digests in the artifact store
          prepared,    \* digests in the dispatcher's table (HOT)
          permits,     \* free permits of preparation_budget
          pending,     \* free permits of the admission semaphore
          job,         \* job[r]: the spawn_blocking preparation r started
          run,         \* run[r]: the spawn_blocking execution r started
          reply,       \* reply[r]: the response sent, or "none"
          preparations \* preparations[d], the counter kept per digest

flight == <<cell, map, value, filler>>
store == <<local, prepared, preparations>>
limits == <<permits, pending>>
tasks == <<job, run>>
vars == <<pc, want, flight, store, limits, tasks, reply>>

\* the closure's progress: has_prepared, the permit, the artifact, the preparation
Filling == {"check", "permit", "open", "acquire", "spawn", "preparing"}
Admitted == {"lookup", "wait", "remove", "start", "executing"} \cup Filling
\* states in which the handler is suspended at an await and can be dropped
Suspended == {"wait", "permit", "acquire", "preparing", "executing"}
HoldsPermit == {"open", "acquire", "spawn", "preparing"}
In(states) == {r \in Requests : pc[r] \in states}

Init == /\ pc = [r \in Requests |-> "new"]
        /\ want \in [Requests -> Digests]
        /\ cell = [r \in Requests |-> None]
        /\ map = [d \in Digests |-> None]
        /\ value = [c \in Requests |-> "empty"]
        /\ filler = [c \in Requests |-> None]
        /\ local \in SUBSET Digests
        /\ prepared = {}
        /\ permits = Budget
        /\ pending = MaxPending
        /\ job = [r \in Requests |-> "none"]
        /\ run = [r \in Requests |-> "none"]
        /\ reply = [r \in Requests |-> "none"]
        /\ preparations = [d \in Digests |-> 0]

Goto(r, from, to) == pc[r] = from /\ pc' = [pc EXCEPT ![r] = to]

\* failure(): neither accepted nor started; failure_started(): both
Answer(r, kind) == reply' = [reply EXCEPT ![r] = kind]

(***************************************************************************)
(* Admission.                                                              *)
(***************************************************************************)
\* protocol version, runtime contract, visited_garages and depth, in this order
Refuse(r) == /\ Goto(r, "new", "done")
             /\ \E defect \in Defects : Answer(r, defect)
             /\ UNCHANGED <<want, flight, store, limits, tasks>>

\* broken: the other semaphore is asked
OverloadByBudget(r) == /\ Goto(r, "new", "done")
                       /\ permits = 0
                       /\ Answer(r, "Overloaded")
                       /\ UNCHANGED <<want, flight, store, limits, tasks>>

Overload(r) == /\ Goto(r, "new", "done")
               /\ pending = 0
               /\ Answer(r, "Overloaded")
               /\ UNCHANGED <<want, flight, store, limits, tasks>>

Admit(r) == /\ Goto(r, "new", "lookup")
            /\ pending > 0
            /\ pending' = pending - 1
            /\ UNCHANGED <<want, flight, store, permits, tasks, reply>>

(***************************************************************************)
(* Singleflight.                                                           *)
(***************************************************************************)
\* entry(key).or_insert_with under the warmups mutex
Lookup(r) == /\ Goto(r, "lookup", "wait")
             /\ LET c == IF map[want[r]] = None THEN r ELSE map[want[r]] IN
                  /\ map' = [map EXCEPT ![want[r]] = c]
                  /\ cell' = [cell EXCEPT ![r] = c]
             /\ UNCHANGED <<want, value, filler, store, limits, tasks, reply>>

\* broken: a cell that two closures may fill
BeginFillTogether(r) == /\ Goto(r, "wait", "check")
                        /\ value[cell[r]] = "empty"
                        /\ filler' = [filler EXCEPT ![cell[r]] = r]
                        /\ UNCHANGED <<want, cell, map, value, store, limits, tasks, reply>>

\* get_or_init: an empty cell nobody fills is filled by whoever comes first
BeginFill(r) == /\ Goto(r, "wait", "check")
                /\ value[cell[r]] = "empty"
                /\ filler[cell[r]] = None
                /\ filler' = [filler EXCEPT ![cell[r]] = r]
                /\ UNCHANGED <<want, cell, map, value, store, limits, tasks, reply>>

\* broken: an error is taken for a report
ReadCellIgnoringError(r) == /\ Goto(r, "wait", "start")
                            /\ value[cell[r]] # "empty"
                            /\ UNCHANGED <<want, flight, store, limits, tasks, reply>>

\* get_or_init: a filled cell is read
ReadCell(r) == /\ pc[r] = "wait"
               /\ value[cell[r]] # "empty"
               /\ pc' = [pc EXCEPT ![r] = IF value[cell[r]] = "ok" THEN "start" ELSE "remove"]
               /\ UNCHANGED <<want, flight, store, limits, tasks, reply>>

\* the closure returns: its result, error or not, becomes the cell's value,
\* and the filler goes on without another await
Fill(r, result) == /\ value' = [value EXCEPT ![cell[r]] = result]
                   /\ filler' = [filler EXCEPT ![cell[r]] = None]
                   /\ pc' = [pc EXCEPT ![r] = IF result = "ok" THEN "start" ELSE "remove"]

\* broken: the failed cell stays in the map
RemoveNothing(r) == /\ Goto(r, "remove", "done")
                    /\ pending' = pending + 1
                    /\ Answer(r, "ArtifactUnavailable")
                    /\ UNCHANGED <<want, flight, store, permits, tasks>>

\* a caller that was given an error removes whatever cell the map holds now
RemoveCell(r) == /\ Goto(r, "remove", "done")
                 /\ map' = [map EXCEPT ![want[r]] = None]
                 /\ pending' = pending + 1
                 /\ Answer(r, "ArtifactUnavailable")
                 /\ UNCHANGED <<want, cell, value, filler, store, permits, tasks>>

(***************************************************************************)
(* warmup_once.                                                            *)
(***************************************************************************)
AlreadyHot(r) == /\ pc[r] = "check"
                 /\ want[r] \in prepared
                 /\ Fill(r, "ok")
                 /\ UNCHANGED <<want, cell, map, store, limits, tasks, reply>>

NotHot(r) == /\ Goto(r, "check", "permit")
             /\ want[r] \notin prepared
             /\ UNCHANGED <<want, flight, store, limits, tasks, reply>>

TakePermit(r) == /\ Goto(r, "permit", "open")
                 /\ permits > 0
                 /\ permits' = permits - 1
                 /\ UNCHANGED <<want, flight, store, pending, tasks, reply>>

Open(r) == /\ Goto(r, "open", IF want[r] \in local THEN "spawn" ELSE "acquire")
           /\ UNCHANGED <<want, flight, store, limits, tasks, reply>>

Acquired(r) == /\ Goto(r, "acquire", "spawn")
               /\ local' = local \cup {want[r]}
               /\ UNCHANGED <<want, flight, prepared, preparations, limits, tasks, reply>>

\* broken: the permit is forgotten on the error path
AcquisitionLeaksPermit(r) == /\ MayFail
                             /\ pc[r] = "acquire"
                             /\ Fill(r, "err")
                             /\ UNCHANGED <<want, cell, map, store, limits, tasks, reply>>

AcquisitionFails(r) == /\ MayFail
                       /\ pc[r] = "acquire"
                       /\ permits' = permits + 1
                       /\ Fill(r, "err")
                       /\ UNCHANGED <<want, cell, map, store, pending, tasks, reply>>

Spawn(r) == /\ Goto(r, "spawn", "preparing")
            /\ preparations' = [preparations EXCEPT ![want[r]] = @ + 1]
            /\ job' = [job EXCEPT ![r] = "running"]
            /\ UNCHANGED <<want, flight, local, prepared, limits, run, reply>>

\* register_with_report on a blocking thread, whether or not its request lives
PreparationEnds(r) == /\ job[r] = "running"
                      /\ \/ /\ job' = [job EXCEPT ![r] = "ok"]
                            /\ prepared' = prepared \cup {want[r]}
                         \/ /\ MayFail
                            /\ job' = [job EXCEPT ![r] = "err"]
                            /\ UNCHANGED prepared
                      /\ UNCHANGED <<pc, want, flight, local, preparations, limits, run, reply>>

Prepared(r) == /\ pc[r] = "preparing"
               /\ job[r] \in {"ok", "err"}
               /\ permits' = permits + 1
               /\ Fill(r, job[r])
               /\ UNCHANGED <<want, cell, map, store, pending, tasks, reply>>

(***************************************************************************)
(* Execution.                                                              *)
(***************************************************************************)
StartExecution(r) == /\ Goto(r, "start", "executing")
                     /\ run' = [run EXCEPT ![r] = "running"]
                     /\ UNCHANGED <<want, flight, store, limits, job, reply>>

\* the dispatcher finds the artifact prepared or returns an error
ExecutionEnds(r) == /\ run[r] = "running"
                    /\ \/ want[r] \in prepared /\ run' = [run EXCEPT ![r] = "response"]
                       \/ (MayFail \/ want[r] \notin prepared) /\ run' = [run EXCEPT ![r] = "failed"]
                    /\ UNCHANGED <<pc, want, flight, store, limits, job, reply>>

\* broken: failure() where failure_started() is due
RespondUnstarted(r) == /\ Goto(r, "executing", "done")
                       /\ run[r] \in {"response", "failed"}
                       /\ pending' = pending + 1
                       /\ Answer(r, IF run[r] = "response" THEN "Response" ELSE "ArtifactUnavailable")
                       /\ UNCHANGED <<want, flight, store, permits, tasks>>

Respond(r) == /\ Goto(r, "executing", "done")
              /\ run[r] \in {"response", "failed"}
              /\ pending' = pending + 1
              /\ Answer(r, IF run[r] = "response" THEN "Response" ELSE "StartedFailure")
              /\ UNCHANGED <<want, flight, store, permits, tasks>>

(***************************************************************************)
(* The client disconnects and the handler is dropped where it is           *)
(* suspended.  Dropping gives back both permits and leaves an empty cell   *)
(* for the next waiter; the blocking tasks do not notice.                  *)
(***************************************************************************)
\* broken: the cell stays claimed by the dropped handler
DisconnectKeepingCell(r) == /\ MayDisconnect
                            /\ pc[r] \in Suspended
                            /\ pc' = [pc EXCEPT ![r] = "dropped"]
                            /\ pending' = pending + 1
                            /\ permits' = IF pc[r] \in HoldsPermit THEN permits + 1 ELSE permits
                            /\ UNCHANGED <<want, flight, store, tasks, reply>>

Disconnect(r) == /\ MayDisconnect
                 /\ pc[r] \in Suspended
                 /\ pc' = [pc EXCEPT ![r] = "dropped"]
                 /\ pending' = pending + 1
                 /\ permits' = IF pc[r] \in HoldsPermit THEN permits + 1 ELSE permits
                 /\ filler' = [filler EXCEPT ![cell[r]] = IF @ = r THEN None ELSE @]
                 /\ UNCHANGED <<want, cell, map, value, store, tasks, reply>>

-----------------------------------------------------------------------------
Handler(r) == \/ Lookup(r) \/ BeginFill(r) \/ ReadCell(r) \/ RemoveCell(r)
              \/ AlreadyHot(r) \/ NotHot(r) \/ TakePermit(r) \/ Open(r)
              \/ Acquired(r) \/ AcquisitionFails(r) \/ Spawn(r) \/ Prepared(r)
              \/ StartExecution(r) \/ Respond(r)
BlockingTask(r) == PreparationEnds(r) \/ ExecutionEnds(r)

Next == \E r \in Requests : \/ Refuse(r) \/ Overload(r) \/ Admit(r)
                            \/ Handler(r) \/ BlockingTask(r) \/ Disconnect(r)

Spec == Init /\ [][Next]_vars

(* The async runtime polls every handler that can go on, and acquisitions, *)
(* preparations and executions end.  The semaphore and the cell queue      *)
(* their waiters, and each request asks once, so weak fairness is enough.  *)
Fairness == \A r \in Requests : WF_vars(Handler(r)) /\ WF_vars(BlockingTask(r))
FairSpec == Spec /\ Fairness

-----------------------------------------------------------------------------
Unstarted == Defects \cup {"Overloaded", "ArtifactUnavailable"}

WarmupTypeOK ==
    /\ pc \in [Requests -> {"new", "done", "dropped"} \cup Admitted]
    /\ want \in [Requests -> Digests]
    /\ cell \in [Requests -> Requests \cup {None}]
    /\ map \in [Digests -> Requests \cup {None}]
    /\ value \in [Requests -> {"empty", "ok", "err"}]
    /\ filler \in [Requests -> Requests \cup {None}]
    /\ local \subseteq Digests /\ prepared \subseteq Digests
    /\ permits \in 0 .. Budget /\ pending \in 0 .. MaxPending
    /\ job \in [Requests -> {"none", "running", "ok", "err"}]
    /\ run \in [Requests -> {"none", "running", "response", "failed"}]
    /\ reply \in [Requests -> Unstarted \cup {"none", "Response", "StartedFailure"}]
    /\ preparations \in [Digests -> Nat]

(* No path through execute loses or invents a permit: not an error, not a  *)
(* dropped handler.                                                        *)
PermitsConserved == /\ permits + Cardinality(In(HoldsPermit)) = Budget
                    /\ pending + Cardinality(In(Admitted)) = MaxPending

(* "Execution Lanes are reserved only after the artifact is                *)
(* execution-ready" (README): also for a request that was handed another   *)
(* request's report.                                                       *)
HotBeforeLane == \A r \in Requests : run[r] # "none" => want[r] \in prepared

(* "A per-digest singleflight prevents concurrent requests from repeating  *)
(* the same warmup" (README).                                              *)
Preparing(d) == {r \in Requests : job[r] = "running" /\ want[r] = d}
OnePreparationPerDigest == \A d \in Digests : Cardinality(Preparing(d)) <= 1

(* While no warmup of a digest has failed and no client that asked for it  *)
(* has gone, the digest is prepared once in the life of the Garage,        *)
(* whichever of its requests came first and whoever waits.                 *)
Undisturbed(d) == \A r \in Requests : want[r] = d => pc[r] # "dropped" /\ value[r] # "err"
PreparedOnce == \A d \in Digests : Undisturbed(d) => preparations[d] <= 1

(* A failed warmup is not remembered: while the map holds a failed cell, a *)
(* request that was given the failure is about to remove it, so the digest *)
(* can be tried again.                                                     *)
FailedCellIsRemoved ==
    \A d \in Digests : map[d] # None =>
        (value[map[d]] = "err" => \E r \in In({"remove"}) : cell[r] = map[d])

(* A response with started = false tells PitLane that it may place the     *)
(* request elsewhere: nothing of it has run or will run here.              *)
UnstartedNeverRan == \A r \in Requests : reply[r] \in Unstarted => run[r] = "none"

\* a request as whoever sent it sees it
Stage(r) == CASE pc[r] = "new" -> "new"
              [] pc[r] \in Admitted -> "served"
              [] pc[r] = "done" -> "answered"
              [] pc[r] = "dropped" -> "gone"

Contract == INSTANCE RequestContract WITH
              stage <- [r \in Requests |-> Stage(r)],
              asks <- want,
              ready <- prepared,
              ran <- run,
              answer <- reply

(* The Garage keeps the contract of its API: it turns a request away for   *)
(* load only while max_pending requests are served, runs a request once    *)
(* and only hot, and answers with what the run came to, whoever shares a   *)
(* warmup, fails in it or leaves.                                          *)
ImplementsContract == Contract!Spec

(* Every admitted request is answered or its client has gone: waiters of a *)
(* singleflight whose filler was dropped take the cell over.               *)
EveryRequestEnds == \A r \in Requests : (pc[r] \in Admitted) ~> (pc[r] \in {"done", "dropped"})
=============================================================================
