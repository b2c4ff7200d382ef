--------------------------- MODULE BatchRunProofs ---------------------------
(***************************************************************************)
(* Proofs about BatchRun, for any calls, counts, lanes and outcomes, with  *)
(* or without panics: everything its invariants say of a batch.            *)
(***************************************************************************)
EXTENDS BatchRun, FiniteSetTheorems, WellFoundedInduction, TLAPS

(***************************************************************************)
(* The inductive invariant.                                                *)
(***************************************************************************)
Holding == {"claimed", "counted", "task", "finished", "panicked"}   \* an index
Counted == {"counted", "task", "finished", "panicked"}              \* in running
At(b, states) == {l \in Lanes : worker[b][l].pc \in states}
Succeeded(results) == {i \in DOMAIN results : results[i].outcome = "Completed"}
AboutToSucceed(b) == {l \in At(b, {"finished"}) : worker[b][l].outcome = "Completed"}

Events == [kind : {"Queued", "Started", "Completed", "Failed"}, id : Nat, lane : Lanes \cup {Free}]
Results == [id : Nat, lane : Lanes, outcome : AllOutcomes]
\* records are typed field by field
RunTyped(R) ==
    /\ DOMAIN R = {"ids", "cursor", "queued", "running", "completed", "failed",
                   "peak_active", "lanes", "events", "results"}
    /\ R.ids \in Seq(Nat) /\ R.cursor \in Nat /\ R.queued \in Int /\ R.running \in Int
    /\ R.completed \in Nat /\ R.failed \in Nat /\ R.peak_active \in Nat
    /\ R.lanes \in [Lanes -> Nat \cup {Free}]
    /\ R.events \in Seq(Events) /\ R.results \in Seq(Results)
WorkerTyped(W) ==
    /\ DOMAIN W = {"pc", "ix", "seen", "outcome"}
    /\ W.pc \in Holding \cup {"claim", "exited"}
    /\ W.ix \in Nat /\ W.seen \in Nat /\ W.outcome \in AllOutcomes

Typed ==
    /\ nextId \in Nat
    /\ runLock \in Calls \cup {Nobody}
    /\ bpc \in [Calls -> {"idle", "refused", "lock", "reserve", "spawned", "returned", "panicked"}]
    /\ count \in [Calls -> Nat]
    /\ DOMAIN run = Calls /\ DOMAIN worker = Calls /\ DOMAIN report = Calls
    /\ \A b \in Calls : /\ RunTyped(run[b]) /\ DOMAIN worker[b] = Lanes
                        /\ \A l \in Lanes : WorkerTyped(worker[b][l])

\* only the holder of run_lock has workers
Locked == \A b \in Calls :
    /\ bpc[b] \in {"reserve", "spawned"} => runLock = b
    /\ bpc[b] # "spawned" => \A l \in Lanes : worker[b][l].pc \in {"exited", "panicked"}

\* ids are reserved in order, and whoever else draws one draws a later one
IdsAscend == \A b \in Calls : bpc[b] \in {"reserve", "spawned"} =>
    /\ Len(run[b].ids) <= count[b]
    /\ bpc[b] = "spawned" => Len(run[b].ids) = count[b]
    /\ \A i \in 1 .. Len(run[b].ids) : run[b].ids[i] < nextId
    /\ \A i, j \in 1 .. Len(run[b].ids) : i < j => run[b].ids[i] < run[b].ids[j]

Unasked == \A b \in Calls : bpc[b] = "idle" => count[b] = 0
StartsFresh == \A b \in Calls : bpc[b] = "reserve" =>
    /\ run[b].cursor = 0 /\ run[b].queued = count[b]
    /\ run[b].running = 0 /\ run[b].completed = 0 /\ run[b].failed = 0
    /\ run[b].peak_active = 0
    /\ run[b].lanes = [l \in Lanes |-> Free]
    /\ run[b].results = <<>>

\* each index below the cursor is held by one worker or has one result
Claims(b) ==
    /\ \A l \in At(b, Holding) :
         /\ worker[b][l].ix < run[b].cursor /\ worker[b][l].ix < count[b]
         /\ \A m \in At(b, Holding) : worker[b][m].ix = worker[b][l].ix => m = l
    /\ \A l \in Lanes \ At(b, Holding) : run[b].lanes[l] = Free
    /\ \A l \in At(b, {"exited"}) : run[b].cursor >= count[b]
    /\ \A k \in DOMAIN run[b].results : \E j \in 0 .. count[b] - 1 :
         /\ run[b].results[k].id = run[b].ids[j + 1] /\ j < run[b].cursor
         /\ \A l \in At(b, Holding) : worker[b][l].ix # j
         /\ \A m \in DOMAIN run[b].results : run[b].results[m].id = run[b].ids[j + 1] => m = k
    /\ \A j \in 0 .. count[b] - 1 : j < run[b].cursor =>
         \/ \E l \in At(b, Holding) : worker[b][l].ix = j
         \/ \E k \in DOMAIN run[b].results : run[b].results[k].id = run[b].ids[j + 1]

\* what the counters count
Tallies(b) ==
    /\ run[b].queued = IF run[b].cursor <= count[b] THEN count[b] - run[b].cursor ELSE 0
    /\ run[b].running = Cardinality(At(b, Counted))
    /\ run[b].cursor <= count[b] + Cardinality(At(b, {"exited"}))
    /\ Len(run[b].results) + Cardinality(At(b, Holding))
         = IF run[b].cursor <= count[b] THEN run[b].cursor ELSE count[b]
    /\ run[b].completed = Cardinality(Succeeded(run[b].results)) + Cardinality(AboutToSucceed(b))
    /\ run[b].completed + run[b].failed
         = Len(run[b].results) + Cardinality(At(b, {"finished"}))

\* of any workers counted as running, one has seen them all
Ranked(b) == \A S \in SUBSET At(b, Counted) :
                S # {} => \E l \in S : worker[b][l].seen >= Cardinality(S)
InPeak(b) == \A l \in At(b, {"task", "finished", "panicked"}) : worker[b][l].seen <= run[b].peak_active
Peaks(b) ==
    /\ Ranked(b) /\ InPeak(b)
    /\ \A l \in At(b, Counted) : worker[b][l].seen <= LaneCount
    /\ run[b].peak_active <= LaneCount
    /\ Concurrency(run[b].events, Len(run[b].events)) = Cardinality(At(b, {"task", "panicked"}))
    /\ \A n \in DOMAIN run[b].events : Concurrency(run[b].events, n) <= run[b].peak_active

Working == \A b \in Calls : bpc[b] = "spawned" => Claims(b) /\ Tallies(b) /\ Peaks(b)
ResultsTyped == \A b \in Returned : /\ DOMAIN report[b].results = 1 .. count[b]
                                    /\ \A i \in 1 .. count[b] : report[b].results[i] \in Results
                                    /\ report[b].failed \in Nat
Reported == ResultsTyped /\ ResultsCompleteInOrder /\ SnapshotAtRest /\ PeakCoversEvents

BatchInv == /\ Typed /\ BatchTypeOK /\ Locked /\ IdsAscend
            /\ Unasked /\ StartsFresh /\ Working /\ Reported

(***************************************************************************)
(* Sets of workers.                                                        *)
(***************************************************************************)
LEMMA LanesAreFinite ==
    /\ IsFiniteSet(Lanes) /\ Cardinality(Lanes) = LaneCount
    /\ \A S \in SUBSET Lanes : /\ IsFiniteSet(S) /\ Cardinality(S) \in Nat
                               /\ Cardinality(S) <= LaneCount
<1>1. IsFiniteSet(Lanes) /\ Cardinality(Lanes) = LaneCount
  BY BatchLanesAssumption, FS_Interval DEF Lanes
<1> QED
  BY <1>1, FS_Subset, FS_CardinalityType

In(e, S) == IF e \in S THEN 1 ELSE 0

LEMMA Moved ==
    ASSUME NEW b \in Calls, NEW l \in Lanes, NEW S,
           \A m \in Lanes : m # l => worker'[b][m].pc = worker[b][m].pc
    PROVE /\ Cardinality(At(b, S)) \in Nat /\ Cardinality(At(b, S)') \in Nat
          /\ Cardinality(At(b, S)) <= LaneCount /\ Cardinality(At(b, S)') <= LaneCount
          /\ Cardinality(At(b, S)')
               = Cardinality(At(b, S)) - In(worker[b][l].pc, S) + In(worker'[b][l].pc, S)
<1>1. At(b, S) \in SUBSET Lanes /\ At(b, S)' \in SUBSET Lanes
  BY DEF At
<1>2. /\ IsFiniteSet(At(b, S)) /\ Cardinality(At(b, S)) \in Nat /\ Cardinality(At(b, S)) <= LaneCount
      /\ IsFiniteSet(At(b, S)') /\ Cardinality(At(b, S)') \in Nat /\ Cardinality(At(b, S)') <= LaneCount
  BY <1>1, LanesAreFinite
<1>3. ASSUME worker[b][l].pc \notin S, worker'[b][l].pc \in S
      PROVE Cardinality(At(b, S)') = Cardinality(At(b, S)) + 1
  <2>1. At(b, S)' = At(b, S) \cup {l} /\ l \notin At(b, S)
    BY <1>3 DEF At
  <2> QED
    BY <1>2, <2>1, FS_AddElement
<1>4. ASSUME worker[b][l].pc \in S, worker'[b][l].pc \notin S
      PROVE Cardinality(At(b, S)') = Cardinality(At(b, S)) - 1
  <2>1. At(b, S)' = At(b, S) \ {l} /\ l \in At(b, S)
    BY <1>4 DEF At
  <2> QED
    BY <1>2, <2>1, FS_RemoveElement
<1>5. ASSUME worker[b][l].pc \in S <=> worker'[b][l].pc \in S
      PROVE Cardinality(At(b, S)') = Cardinality(At(b, S))
  <2>1. At(b, S)' = At(b, S)
    BY <1>5 DEF At
  <2> QED
    BY <2>1
<1> QED
  BY <1>2, <1>3, <1>4, <1>5 DEF In

(***************************************************************************)
(* What the steps of a worker do, field by field.                          *)
(***************************************************************************)
\* a run with some of its fields changed
Claimed(R, l, id) == [R EXCEPT !.cursor = @ + 1, !.queued = @ - 1, !.lanes[l] = id]
LEMMA ClaimedRun ==
    ASSUME NEW R, RunTyped(R), NEW l \in Lanes, NEW id \in Nat
    PROVE LET N == Claimed(R, l, id) IN
          /\ RunTyped(N)
          /\ N.cursor = R.cursor + 1 /\ N.queued = R.queued - 1
          /\ \A m \in Lanes : m # l => N.lanes[m] = R.lanes[m]
          /\ N.ids = R.ids /\ N.running = R.running /\ N.completed = R.completed
          /\ N.failed = R.failed /\ N.peak_active = R.peak_active /\ N.events = R.events
          /\ N.results = R.results
BY DEF RunTyped, Claimed

Exhausted(R) == [R EXCEPT !.cursor = @ + 1]
LEMMA ExhaustedRun ==
    ASSUME NEW R, RunTyped(R)
    PROVE LET N == Exhausted(R) IN
          /\ RunTyped(N)
          /\ N.cursor = R.cursor + 1
          /\ N.ids = R.ids /\ N.queued = R.queued /\ N.running = R.running
          /\ N.completed = R.completed /\ N.failed = R.failed
          /\ N.peak_active = R.peak_active /\ N.lanes = R.lanes /\ N.events = R.events
          /\ N.results = R.results
BY DEF RunTyped, Exhausted

Raised(R) == [R EXCEPT !.running = @ + 1]
LEMMA RaisedRun ==
    ASSUME NEW R, RunTyped(R)
    PROVE LET N == Raised(R) IN
          /\ RunTyped(N)
          /\ N.running = R.running + 1
          /\ N.ids = R.ids /\ N.cursor = R.cursor /\ N.queued = R.queued
          /\ N.completed = R.completed /\ N.failed = R.failed
          /\ N.peak_active = R.peak_active /\ N.lanes = R.lanes /\ N.events = R.events
          /\ N.results = R.results
BY DEF RunTyped, Raised

Started(R, top, e) == [R EXCEPT !.peak_active = top, !.events = Append(@, e)]
LEMMA StartedRun ==
    ASSUME NEW R, RunTyped(R), NEW top \in Nat, NEW e \in Events
    PROVE LET N == Started(R, top, e) IN
          /\ RunTyped(N)
          /\ N.peak_active = top /\ N.events = Append(R.events, e)
          /\ N.ids = R.ids /\ N.cursor = R.cursor /\ N.queued = R.queued
          /\ N.running = R.running /\ N.completed = R.completed /\ N.failed = R.failed
          /\ N.lanes = R.lanes /\ N.results = R.results
BY DEF RunTyped, Started

Ended(R, good, bad, e) == [R EXCEPT !.completed = good, !.failed = bad, !.events = Append(@, e)]
Released(R, l, r) == [R EXCEPT !.running = @ - 1, !.lanes[l] = Free, !.results = Append(@, r)]
LEMMA ReleasedRun ==
    ASSUME NEW R, RunTyped(R), NEW l \in Lanes, NEW r \in Results
    PROVE LET N == Released(R, l, r) IN
          /\ RunTyped(N)
          /\ N.running = R.running - 1
          /\ N.lanes[l] = Free /\ \A m \in Lanes : m # l => N.lanes[m] = R.lanes[m]
          /\ N.results = Append(R.results, r)
          /\ N.ids = R.ids /\ N.cursor = R.cursor /\ N.queued = R.queued
          /\ N.completed = R.completed /\ N.failed = R.failed
          /\ N.peak_active = R.peak_active /\ N.events = R.events
BY DEF RunTyped, Released

\* a worker with all its fields given
Became(W, to, ix, seen, o) == [W EXCEPT !.pc = to, !.ix = ix, !.seen = seen, !.outcome = o]

\* worker l of call b takes a step, and run[b] is all that changes with it
Alone(b, l) ==
    /\ UNCHANGED <<nextId, runLock, bpc, count, report>>
    /\ DOMAIN run' = Calls /\ DOMAIN worker' = Calls
    /\ \A c \in Calls : c # b => run'[c] = run[c] /\ worker'[c] = worker[c]
    /\ DOMAIN worker'[b] = Lanes
    /\ \A m \in Lanes : m # l => worker'[b][m] = worker[b][m]
    /\ RunTyped(run'[b]) /\ WorkerTyped(worker'[b][l])
    /\ run'[b].ids = run[b].ids

SameCounts(b) == /\ run'[b].cursor = run[b].cursor /\ run'[b].queued = run[b].queued
                 /\ run'[b].completed = run[b].completed /\ run'[b].failed = run[b].failed
                 /\ run'[b].results = run[b].results /\ run'[b].lanes = run[b].lanes
SamePeak(b) == run'[b].peak_active = run[b].peak_active /\ run'[b].events = run[b].events

Moves(b, l, from, to) == worker[b][l].pc = from /\ worker'[b][l].pc = to
Keeps(b, l) == worker'[b][l].ix = worker[b][l].ix /\ worker'[b][l].seen = worker[b][l].seen

Sets(b, l, R, W) == /\ run' = [run EXCEPT ![b] = R]
                    /\ worker' = [worker EXCEPT ![b] = [worker[b] EXCEPT ![l] = W]]
LEMMA AloneWhen ==
    ASSUME Typed, NEW b \in Calls, NEW l \in Lanes, NEW R, NEW W, Sets(b, l, R, W),
           RunTyped(R), WorkerTyped(W), R.ids = run[b].ids, WorkerFrame
    PROVE Alone(b, l) /\ run'[b] = R /\ worker'[b][l] = W
<1>1. DOMAIN run = Calls /\ DOMAIN worker = Calls /\ DOMAIN worker[b] = Lanes
  BY DEF Typed
<1> QED
  BY <1>1 DEF Alone, WorkerFrame, Sets

LEMMA ClaimEffect ==
    ASSUME Typed, NEW b \in Calls, NEW l \in Lanes, Claim(b, l),
           Len(run[b].ids) = count[b]
    PROVE /\ Alone(b, l) /\ SamePeak(b)
          /\ run'[b].cursor = run[b].cursor + 1
          /\ run'[b].running = run[b].running /\ run'[b].results = run[b].results
          /\ run'[b].completed = run[b].completed /\ run'[b].failed = run[b].failed
          /\ \A m \in Lanes : m # l => run'[b].lanes[m] = run[b].lanes[m]
          /\ \/ /\ run[b].cursor < count[b] /\ Moves(b, l, "claim", "claimed")
                /\ worker'[b][l].ix = run[b].cursor
                /\ run'[b].queued = run[b].queued - 1
             \/ /\ run[b].cursor >= count[b] /\ Moves(b, l, "claim", "exited")
                /\ run'[b].queued = run[b].queued /\ run'[b].lanes = run[b].lanes
<1>0. /\ RunTyped(run[b]) /\ WorkerTyped(worker[b][l])
      /\ DOMAIN run = Calls /\ DOMAIN worker = Calls /\ DOMAIN worker[b] = Lanes
      /\ worker[b][l].ix \in Nat /\ worker[b][l].seen \in Nat /\ worker[b][l].outcome \in AllOutcomes
  BY DEF Typed, WorkerTyped
<1>1. /\ run[b].cursor \in Nat /\ count[b] \in Nat /\ run[b].ids \in Seq(Nat) /\ WorkerFrame
      /\ worker[b][l].pc = "claim"
  BY <1>0 DEF RunTyped, Typed, Claim
<1>2. CASE run[b].cursor < count[b]
  <2> DEFINE ix == run[b].cursor
             id == run[b].ids[ix + 1]
             R == Claimed(run[b], l, id)
             W == Became(worker[b][l], "claimed", ix, worker[b][l].seen, worker[b][l].outcome)
  <2>1. Sets(b, l, R, W)
    <3>1. ~ (run[b].cursor >= count[b])
      BY <1>1, <1>2
    <3>2. /\ run' = [run EXCEPT ![b].cursor = ix + 1, ![b].queued = @ - 1, ![b].lanes[l] = id]
          /\ worker' = [worker EXCEPT ![b][l].pc = "claimed", ![b][l].ix = ix]
      BY <3>1 DEF Claim
    <3>3. run' = [run EXCEPT ![b] = R]
      BY <1>0, <3>2 DEF RunTyped, Claimed
    <3>4. worker' = [worker EXCEPT ![b] = [worker[b] EXCEPT ![l] =
                                      [worker[b][l] EXCEPT !.pc = "claimed", !.ix = ix]]]
      BY <1>0, <3>2
    <3>5. [worker[b][l] EXCEPT !.pc = "claimed", !.ix = ix] = W
      BY <1>0 DEF WorkerTyped, Became
    <3> QED
      BY <3>3, <3>4, <3>5 DEF Sets
  <2>2. id \in Nat
    BY <1>1, <1>2
  <2>3. WorkerTyped(W) /\ W.pc = "claimed" /\ W.ix = ix
    BY <1>0, <1>1 DEF WorkerTyped, Became, Holding
  <2> HIDE DEF id, W
  <2>4. /\ RunTyped(R)
        /\ R.cursor = run[b].cursor + 1 /\ R.queued = run[b].queued - 1
        /\ \A m \in Lanes : m # l => R.lanes[m] = run[b].lanes[m]
        /\ R.ids = run[b].ids /\ R.running = run[b].running
        /\ R.completed = run[b].completed /\ R.failed = run[b].failed
        /\ R.peak_active = run[b].peak_active /\ R.events = run[b].events
        /\ R.results = run[b].results
    BY <1>0, <2>2, ClaimedRun
  <2> HIDE DEF R
  <2>5. Alone(b, l) /\ run'[b] = R /\ worker'[b][l] = W
    BY <1>1, <2>1, <2>3, <2>4, AloneWhen
  <2> QED
    BY <1>1, <1>2, <2>3, <2>4, <2>5 DEF SamePeak, Moves
<1>3. CASE ~ (run[b].cursor < count[b])
  <2> DEFINE R == Exhausted(run[b])
             W == Became(worker[b][l], "exited", worker[b][l].ix, worker[b][l].seen, worker[b][l].outcome)
  <2>1. Sets(b, l, R, W)
    <3>1. /\ run' = [run EXCEPT ![b].cursor = run[b].cursor + 1]
          /\ worker' = [worker EXCEPT ![b][l].pc = "exited"]
      BY <1>3 DEF Claim
    <3>2. [worker[b][l] EXCEPT !.pc = "exited"] = W
      BY <1>0 DEF WorkerTyped, Became
    <3> QED
      BY <3>1, <3>2 DEF Sets, Exhausted
  <2>2. WorkerTyped(W) /\ W.pc = "exited"
    BY <1>0 DEF WorkerTyped, Became
  <2>3. /\ RunTyped(R)
        /\ R.cursor = run[b].cursor + 1
        /\ R.ids = run[b].ids /\ R.queued = run[b].queued /\ R.running = run[b].running
        /\ R.completed = run[b].completed /\ R.failed = run[b].failed
        /\ R.peak_active = run[b].peak_active /\ R.lanes = run[b].lanes
        /\ R.events = run[b].events /\ R.results = run[b].results
    BY <1>0, ExhaustedRun
  <2> HIDE DEF R, W
  <2>4. Alone(b, l) /\ run'[b] = R /\ worker'[b][l] = W
    BY <1>1, <2>1, <2>2, <2>3, AloneWhen
  <2> QED
    BY <1>1, <1>3, <2>2, <2>3, <2>4 DEF SamePeak, Moves
<1> QED
  BY <1>2, <1>3

LEMMA CountRunningEffect ==
    ASSUME Typed, NEW b \in Calls, NEW l \in Lanes, CountRunning(b, l), run[b].running \in Nat
    PROVE /\ Alone(b, l) /\ SamePeak(b) /\ SameCounts(b)
          /\ Moves(b, l, "claimed", "counted") /\ worker'[b][l].ix = worker[b][l].ix
          /\ run'[b].running = run[b].running + 1 /\ worker'[b][l].seen = run[b].running + 1
<1> DEFINE R == Raised(run[b])
           W == Became(worker[b][l], "counted", worker[b][l].ix, run[b].running + 1, worker[b][l].outcome)
<1>0. /\ RunTyped(run[b]) /\ WorkerTyped(worker[b][l])
      /\ DOMAIN run = Calls /\ DOMAIN worker = Calls /\ DOMAIN worker[b] = Lanes
      /\ worker[b][l].ix \in Nat /\ worker[b][l].seen \in Nat /\ worker[b][l].outcome \in AllOutcomes
  BY DEF Typed, WorkerTyped
<1>1. Sets(b, l, R, W)
  <2>1. /\ run' = [run EXCEPT ![b].running = @ + 1]
        /\ worker' = [worker EXCEPT ![b][l].pc = "counted", ![b][l].seen = run[b].running + 1]
    BY DEF CountRunning
  <2>2. worker' = [worker EXCEPT ![b] = [worker[b] EXCEPT ![l] =
                        [worker[b][l] EXCEPT !.pc = "counted", !.seen = run[b].running + 1]]]
    BY <1>0, <2>1
  <2>3. [worker[b][l] EXCEPT !.pc = "counted", !.seen = run[b].running + 1] = W
    BY <1>0 DEF WorkerTyped, Became
  <2> QED
    BY <2>1, <2>2, <2>3 DEF Sets, Raised
<1>2. /\ RunTyped(R)
      /\ R.running = run[b].running + 1
      /\ R.ids = run[b].ids /\ R.cursor = run[b].cursor /\ R.queued = run[b].queued
      /\ R.completed = run[b].completed /\ R.failed = run[b].failed
      /\ R.peak_active = run[b].peak_active /\ R.lanes = run[b].lanes
      /\ R.events = run[b].events /\ R.results = run[b].results
  BY <1>0, RaisedRun
<1>3. WorkerTyped(W) /\ W.pc = "counted" /\ W.ix = worker[b][l].ix /\ W.seen = run[b].running + 1
  BY <1>0 DEF WorkerTyped, Became, Holding
<1> HIDE DEF R, W
<1>4. Alone(b, l) /\ run'[b] = R /\ worker'[b][l] = W
  <2>1. WorkerFrame
    BY DEF CountRunning
  <2> QED
    BY <1>1, <1>2, <1>3, <2>1, AloneWhen
<1> QED
  BY <1>2, <1>3, <1>4 DEF CountRunning, SamePeak, SameCounts, Moves

LEMMA StartEffect ==
    ASSUME Typed, NEW b \in Calls, NEW l \in Lanes, Start(b, l), IdOf(b, l) \in Nat
    PROVE /\ Alone(b, l) /\ SameCounts(b) /\ run'[b].running = run[b].running
          /\ Moves(b, l, "counted", "task") /\ Keeps(b, l)
          /\ run'[b].peak_active = IF worker[b][l].seen > run[b].peak_active
                                   THEN worker[b][l].seen ELSE run[b].peak_active
          /\ \E e \in Events : e.kind = "Started" /\ run'[b].events = Append(run[b].events, e)
<1> DEFINE e == Event("Started", IdOf(b, l), l)
           top == IF worker[b][l].seen > run[b].peak_active THEN worker[b][l].seen ELSE run[b].peak_active
           R == Started(run[b], top, e)
           W == Became(worker[b][l], "task", worker[b][l].ix, worker[b][l].seen, worker[b][l].outcome)
<1>0. /\ RunTyped(run[b]) /\ WorkerTyped(worker[b][l])
      /\ DOMAIN run = Calls /\ DOMAIN worker = Calls /\ DOMAIN worker[b] = Lanes
      /\ worker[b][l].ix \in Nat /\ worker[b][l].seen \in Nat /\ worker[b][l].outcome \in AllOutcomes
  BY DEF Typed, WorkerTyped
<1>1. Sets(b, l, R, W)
  <2>1. /\ run' = [run EXCEPT ![b] = [run[b] EXCEPT !.peak_active = top, !.events = Append(@, e)]]
        /\ worker' = [worker EXCEPT ![b][l].pc = "task"]
    BY DEF Start, WGoto
  <2> HIDE DEF e, top
  <2>2. [worker[b][l] EXCEPT !.pc = "task"] = W
    BY <1>0 DEF WorkerTyped, Became
  <2> QED
    BY <2>1, <2>2 DEF Sets, Started
<1>2. e \in Events /\ e.kind = "Started" /\ top \in Nat
  BY <1>0 DEF Event, Events, RunTyped
<1> HIDE DEF e, top
<1>3. /\ RunTyped(R)
      /\ R.peak_active = top /\ R.events = Append(run[b].events, e)
      /\ R.ids = run[b].ids /\ R.cursor = run[b].cursor /\ R.queued = run[b].queued
      /\ R.running = run[b].running /\ R.completed = run[b].completed
      /\ R.failed = run[b].failed /\ R.lanes = run[b].lanes
      /\ R.results = run[b].results
  BY <1>0, <1>2, StartedRun
<1>4. WorkerTyped(W) /\ W.pc = "task" /\ W.ix = worker[b][l].ix /\ W.seen = worker[b][l].seen
  BY <1>0 DEF WorkerTyped, Became, Holding
<1> HIDE DEF R, W
<1>5. Alone(b, l) /\ run'[b] = R /\ worker'[b][l] = W
  <2>1. WorkerFrame
    BY DEF Start
  <2> QED
    BY <1>1, <1>3, <1>4, <2>1, AloneWhen
<1> QED
  BY <1>2, <1>3, <1>4, <1>5 DEF Start, WGoto, SameCounts, Moves, Keeps, top

LEMMA EndTaskEffect ==
    ASSUME Typed, NEW b \in Calls, NEW l \in Lanes, EndTask(b, l), IdOf(b, l) \in Nat
    PROVE /\ Alone(b, l) /\ run'[b].running = run[b].running
          /\ run'[b].cursor = run[b].cursor /\ run'[b].queued = run[b].queued
          /\ run'[b].results = run[b].results /\ run'[b].lanes = run[b].lanes
          /\ run'[b].peak_active = run[b].peak_active
          /\ Moves(b, l, "task", "finished") /\ Keeps(b, l)
          /\ \/ /\ worker'[b][l].outcome = "Completed"
                /\ run'[b].completed = run[b].completed + 1 /\ run'[b].failed = run[b].failed
             \/ /\ worker'[b][l].outcome # "Completed"
                /\ run'[b].completed = run[b].completed /\ run'[b].failed = run[b].failed + 1
          /\ \E e \in Events : /\ e.kind \in {"Completed", "Failed"}
                               /\ run'[b].events = Append(run[b].events, e)
<1>0. /\ RunTyped(run[b]) /\ WorkerTyped(worker[b][l])
      /\ DOMAIN run = Calls /\ DOMAIN worker = Calls /\ DOMAIN worker[b] = Lanes
      /\ worker[b][l].ix \in Nat /\ worker[b][l].seen \in Nat /\ worker[b][l].outcome \in AllOutcomes
  BY DEF Typed, WorkerTyped
<1>1. PICK o \in Outcomes :
          /\ worker' = [worker EXCEPT ![b][l].pc = "finished", ![b][l].outcome = o]
          /\ run' = [run EXCEPT
                       ![b].completed = IF Succeeds(o) THEN @ + 1 ELSE @,
                       ![b].failed = IF Succeeds(o) THEN @ ELSE @ + 1,
                       ![b].events = Append(@, Event(IF Succeeds(o) THEN "Completed" ELSE "Failed",
                                                     IdOf(b, l), l))]
  BY DEF EndTask
<1> DEFINE e == Event(IF Succeeds(o) THEN "Completed" ELSE "Failed", IdOf(b, l), l)
           good == IF Succeeds(o) THEN run[b].completed + 1 ELSE run[b].completed
           bad == IF Succeeds(o) THEN run[b].failed ELSE run[b].failed + 1
           R == Ended(run[b], good, bad, e)
           W == Became(worker[b][l], "finished", worker[b][l].ix, worker[b][l].seen, o)
<1>2. Sets(b, l, R, W)
  <2>1. run' = [run EXCEPT ![b] = [run[b] EXCEPT !.completed = good, !.failed = bad, !.events = Append(@, e)]]
    BY <1>0, <1>1 DEF RunTyped
  <2>2. worker' = [worker EXCEPT ![b] = [worker[b] EXCEPT ![l] =
                        [worker[b][l] EXCEPT !.pc = "finished", !.outcome = o]]]
    BY <1>0, <1>1
  <2> HIDE DEF e, good, bad
  <2>3. [worker[b][l] EXCEPT !.pc = "finished", !.outcome = o] = W
    BY <1>0 DEF WorkerTyped, Became
  <2> QED
    BY <2>1, <2>2, <2>3 DEF Sets, Ended
<1>3. e \in Events /\ e.kind \in {"Completed", "Failed"}
  BY DEF Event, Events
<1>4. good \in Nat /\ bad \in Nat /\ o \in AllOutcomes
  BY <1>0, BatchInputsAssumption DEF RunTyped
<1>5. /\ o = "Completed" => good = run[b].completed + 1 /\ bad = run[b].failed
      /\ o # "Completed" => good = run[b].completed /\ bad = run[b].failed + 1
  BY DEF Succeeds
<1> HIDE DEF e, good, bad
<1>6. /\ RunTyped(R)
      /\ R.completed = good /\ R.failed = bad /\ R.events = Append(run[b].events, e)
      /\ R.ids = run[b].ids /\ R.cursor = run[b].cursor /\ R.queued = run[b].queued
      /\ R.running = run[b].running /\ R.peak_active = run[b].peak_active
      /\ R.lanes = run[b].lanes /\ R.results = run[b].results
  BY <1>0, <1>3, <1>4 DEF RunTyped, Ended
<1>7. /\ WorkerTyped(W) /\ W.pc = "finished" /\ W.outcome = o
      /\ W.ix = worker[b][l].ix /\ W.seen = worker[b][l].seen
  BY <1>0, <1>4 DEF WorkerTyped, Became, Holding
<1> HIDE DEF R, W
<1>8. Alone(b, l) /\ run'[b] = R /\ worker'[b][l] = W
  <2>1. WorkerFrame
    BY DEF EndTask
  <2> QED
    BY <1>2, <1>6, <1>7, <2>1, AloneWhen
<1>9. worker[b][l].pc = "task"
  BY DEF EndTask
<1> QED
  BY <1>3, <1>5, <1>6, <1>7, <1>8, <1>9 DEF Moves, Keeps

LEMMA PanicTaskEffect ==
    ASSUME Typed, NEW b \in Calls, NEW l \in Lanes, PanicTask(b, l)
    PROVE /\ Alone(b, l) /\ SamePeak(b) /\ SameCounts(b) /\ run'[b].running = run[b].running
          /\ Moves(b, l, "task", "panicked") /\ Keeps(b, l)
<1> DEFINE W == Became(worker[b][l], "panicked", worker[b][l].ix, worker[b][l].seen, worker[b][l].outcome)
<1>0. /\ RunTyped(run[b]) /\ WorkerTyped(worker[b][l])
      /\ DOMAIN run = Calls /\ DOMAIN worker = Calls /\ DOMAIN worker[b] = Lanes
      /\ worker[b][l].ix \in Nat /\ worker[b][l].seen \in Nat /\ worker[b][l].outcome \in AllOutcomes
  BY DEF Typed, WorkerTyped
<1>1. run' = run /\ worker' = [worker EXCEPT ![b] = [worker[b] EXCEPT ![l] = W]]
  <2>1. [worker[b][l] EXCEPT !.pc = "panicked"] = W
    BY <1>0 DEF WorkerTyped, Became
  <2> QED
    BY <2>1 DEF PanicTask, WGoto
<1>2. WorkerTyped(W) /\ W.pc = "panicked" /\ W.ix = worker[b][l].ix /\ W.seen = worker[b][l].seen
  BY <1>0 DEF WorkerTyped, Became, Holding
<1> HIDE DEF W
<1> QED
  BY <1>0, <1>1, <1>2 DEF PanicTask, WGoto, WorkerFrame, Alone, SamePeak, SameCounts, Moves, Keeps

LEMMA ReleaseLaneEffect ==
    ASSUME Typed, NEW b \in Calls, NEW l \in Lanes, ReleaseLane(b, l), IdOf(b, l) \in Nat
    PROVE /\ Alone(b, l) /\ SamePeak(b) /\ run'[b].running = run[b].running - 1
          /\ run'[b].cursor = run[b].cursor /\ run'[b].queued = run[b].queued
          /\ run'[b].completed = run[b].completed /\ run'[b].failed = run[b].failed
          /\ run'[b].lanes[l] = Free
          /\ \A m \in Lanes : m # l => run'[b].lanes[m] = run[b].lanes[m]
          /\ Moves(b, l, "finished", "claim") /\ Keeps(b, l)
          /\ \E r \in Results : /\ r.id = IdOf(b, l) /\ r.outcome = worker[b][l].outcome
                                /\ run'[b].results = Append(run[b].results, r)
<1> DEFINE r == Result(b, l)
           R == Released(run[b], l, r)
           W == Became(worker[b][l], "claim", worker[b][l].ix, worker[b][l].seen, worker[b][l].outcome)
<1>0. /\ RunTyped(run[b]) /\ WorkerTyped(worker[b][l])
      /\ DOMAIN run = Calls /\ DOMAIN worker = Calls /\ DOMAIN worker[b] = Lanes
      /\ worker[b][l].ix \in Nat /\ worker[b][l].seen \in Nat /\ worker[b][l].outcome \in AllOutcomes
  BY DEF Typed, WorkerTyped
<1>1. Sets(b, l, R, W)
  <2>1. /\ run' = [run EXCEPT ![b].running = @ - 1, ![b].lanes[l] = Free, ![b].results = Append(@, r)]
        /\ worker' = [worker EXCEPT ![b][l].pc = "claim"]
    BY DEF ReleaseLane, WGoto
  <2> HIDE DEF r
  <2>2. run' = [run EXCEPT ![b] = R]
    BY <1>0, <2>1 DEF RunTyped, Released
  <2>3. [worker[b][l] EXCEPT !.pc = "claim"] = W
    BY <1>0 DEF WorkerTyped, Became
  <2> QED
    BY <2>1, <2>2, <2>3 DEF Sets
<1>2. r \in Results /\ r.id = IdOf(b, l) /\ r.outcome = worker[b][l].outcome
  BY <1>0 DEF Result, Results
<1> HIDE DEF r
<1>3. /\ RunTyped(R)
      /\ R.running = run[b].running - 1
      /\ R.lanes[l] = Free /\ \A m \in Lanes : m # l => R.lanes[m] = run[b].lanes[m]
      /\ R.results = Append(run[b].results, r)
      /\ R.ids = run[b].ids /\ R.cursor = run[b].cursor /\ R.queued = run[b].queued
      /\ R.completed = run[b].completed /\ R.failed = run[b].failed
      /\ R.peak_active = run[b].peak_active /\ R.events = run[b].events
  BY <1>0, <1>2, ReleasedRun
<1>4. WorkerTyped(W) /\ W.pc = "claim" /\ W.ix = worker[b][l].ix /\ W.seen = worker[b][l].seen
  BY <1>0 DEF WorkerTyped, Became
<1> HIDE DEF R, W
<1>5. Alone(b, l) /\ run'[b] = R /\ worker'[b][l] = W
  <2>1. WorkerFrame
    BY DEF ReleaseLane
  <2> QED
    BY <1>1, <1>3, <1>4, <2>1, AloneWhen
<1> QED
  BY <1>2, <1>3, <1>4, <1>5 DEF ReleaseLane, WGoto, SamePeak, Moves, Keeps

(***************************************************************************)
(* Types, the lock and the ids.                                            *)
(***************************************************************************)
LEMMA NewRunTyped == ASSUME NEW n \in Nat PROVE RunTyped(NewRun(n))
BY DEF RunTyped, NewRun, Free

LEMMA BatchInit == Init => BatchInv
<1> SUFFICES ASSUME Init PROVE BatchInv
  OBVIOUS
<1> USE BatchLanesAssumption, BatchInputsAssumption DEF Init
<1>1. RunTyped(NewRun(0)) /\ WorkerTyped(IdleWorker) /\ IdleWorker.pc = "exited"
  BY NewRunTyped DEF IdleWorker, WorkerTyped, AllOutcomes, Holding
<1>2. Typed
  BY <1>1 DEF Typed
<1>3. BatchTypeOK
  BY DEF BatchTypeOK, NewRun
<1>4. Locked /\ IdsAscend /\ Unasked /\ StartsFresh /\ Working
  BY <1>1 DEF Locked, IdsAscend, Unasked, StartsFresh, Working
<1>5. Reported
  BY DEF Reported, ResultsTyped, ResultsCompleteInOrder, SnapshotAtRest, PeakCoversEvents, Returned
<1> QED
  BY <1>2, <1>3, <1>4, <1>5 DEF BatchInv

\* the job a worker holds is a job of its batch
LEMMA IdsOfWorkers ==
    ASSUME BatchInv, NEW b \in Calls, NEW l \in Lanes, bpc[b] = "spawned", l \in At(b, Holding)
    PROVE /\ worker[b][l].ix \in 0 .. count[b] - 1 /\ worker[b][l].ix < run[b].cursor
          /\ Len(run[b].ids) = count[b] /\ IdOf(b, l) \in Nat
<1>1. worker[b][l].ix < count[b] /\ worker[b][l].ix < run[b].cursor /\ Len(run[b].ids) = count[b]
  BY DEF BatchInv, Working, Claims, IdsAscend
<1>2. worker[b][l].ix \in Nat /\ run[b].ids \in Seq(Nat) /\ count[b] \in Nat
  BY DEF BatchInv, Typed, WorkerTyped, RunTyped
<1>3. worker[b][l].ix + 1 \in 1 .. Len(run[b].ids)
  BY <1>1, <1>2
<1>4. IdOf(b, l) \in Nat
  <2>1. \A i \in 1 .. Len(run[b].ids) : run[b].ids[i] \in Nat
    BY <1>2
  <2> QED
    BY <1>3, <2>1 DEF IdOf
<1> QED
  BY <1>1, <1>2, <1>4

\* a worker that is not out belongs to a batch that runs
LEMMA WorkersOfRunning ==
    ASSUME BatchInv, NEW b \in Calls, NEW l \in Lanes, worker[b][l].pc \notin {"exited", "panicked"}
    PROVE bpc[b] = "spawned"
BY DEF BatchInv, Locked

\* what the effects of a worker's steps need
LEMMA WorkerReady ==
    ASSUME BatchInv, NEW b \in Calls, NEW l \in Lanes, WorkerStep(b, l)
    PROVE /\ Typed /\ bpc[b] = "spawned" /\ runLock = b /\ Len(run[b].ids) = count[b]
          /\ run[b].running \in Nat
          /\ worker[b][l].pc \in Holding => IdOf(b, l) \in Nat
          /\ Alone(b, l)
<1>1. worker[b][l].pc \notin {"exited", "panicked"}
  BY DEF WorkerStep, Claim, CountRunning, Start, EndTask, PanicTask, ReleaseLane, WGoto
<1>2. Typed /\ bpc[b] = "spawned" /\ runLock = b /\ Len(run[b].ids) = count[b]
  BY <1>1, WorkersOfRunning DEF BatchInv, Locked, IdsAscend
<1>3. run[b].running \in Nat
  BY BatchLanesAssumption DEF BatchInv, BatchTypeOK
<1>4. worker[b][l].pc \in Holding => IdOf(b, l) \in Nat
  BY <1>2, IdsOfWorkers DEF At
<1>5. CASE Claim(b, l)
  BY <1>2, <1>3, <1>4, <1>5, ClaimEffect
<1>6. CASE CountRunning(b, l)
  BY <1>2, <1>3, <1>4, <1>6, CountRunningEffect
<1>7. CASE Start(b, l)
  BY <1>2, <1>3, <1>4, <1>7, StartEffect DEF Start, WGoto, Holding
<1>8. CASE EndTask(b, l)
  BY <1>2, <1>3, <1>4, <1>8, EndTaskEffect DEF EndTask, Holding
<1>9. CASE PanicTask(b, l)
  BY <1>2, <1>3, <1>4, <1>9, PanicTaskEffect
<1>10. CASE ReleaseLane(b, l)
  BY <1>2, <1>3, <1>4, <1>10, ReleaseLaneEffect DEF ReleaseLane, WGoto, Holding
<1> QED
  BY <1>2, <1>3, <1>4, <1>5, <1>6, <1>7, <1>8, <1>9, <1>10 DEF WorkerStep

\* what the calling thread's steps do
LEMMA LockRunEffect ==
    ASSUME Typed, NEW b \in Calls, LockRun(b)
    PROVE /\ run' = [run EXCEPT ![b] = NewRun(count[b])] /\ RunTyped(NewRun(count[b]))
          /\ DOMAIN run' = Calls /\ run'[b] = NewRun(count[b])
          /\ \A c \in Calls : c # b => run'[c] = run[c]
BY NewRunTyped DEF Typed, LockRun

LEMMA ReserveIdEffect ==
    ASSUME Typed, NEW b \in Calls, ReserveId(b)
    PROVE /\ DOMAIN run' = Calls /\ RunTyped(run'[b])
          /\ \A c \in Calls : c # b => run'[c] = run[c]
          /\ run'[b].ids = Append(run[b].ids, nextId)
          /\ run'[b].cursor = run[b].cursor /\ run'[b].queued = run[b].queued
          /\ run'[b].running = run[b].running /\ run'[b].completed = run[b].completed
          /\ run'[b].failed = run[b].failed /\ run'[b].peak_active = run[b].peak_active
          /\ run'[b].lanes = run[b].lanes /\ run'[b].results = run[b].results
<1> DEFINE R == [run[b] EXCEPT !.ids = Append(@, nextId)]
<1>0. RunTyped(run[b]) /\ nextId \in Nat /\ DOMAIN run = Calls
  BY DEF Typed
<1>1. run' = [run EXCEPT ![b] = R]
  BY DEF ReserveId
<1>2. /\ RunTyped(R) /\ R.ids = Append(run[b].ids, nextId)
      /\ R.cursor = run[b].cursor /\ R.queued = run[b].queued
      /\ R.running = run[b].running /\ R.completed = run[b].completed
      /\ R.failed = run[b].failed /\ R.peak_active = run[b].peak_active
      /\ R.lanes = run[b].lanes /\ R.results = run[b].results
  BY <1>0 DEF RunTyped
<1> HIDE DEF R
<1> QED
  BY <1>0, <1>1, <1>2

LEMMA SpawnEffect ==
    ASSUME Typed, NEW b \in Calls, Spawn(b)
    PROVE /\ DOMAIN run' = Calls /\ RunTyped(run'[b])
          /\ \A c \in Calls : c # b => run'[c] = run[c]
          /\ DOMAIN run'[b].events = 1 .. count[b] /\ Len(run'[b].events) = count[b]
          /\ \A i \in 1 .. count[b] : run'[b].events[i].kind = "Queued"
          /\ run'[b].ids = run[b].ids
          /\ run'[b].cursor = run[b].cursor /\ run'[b].queued = run[b].queued
          /\ run'[b].running = run[b].running /\ run'[b].completed = run[b].completed
          /\ run'[b].failed = run[b].failed /\ run'[b].peak_active = run[b].peak_active
          /\ run'[b].lanes = run[b].lanes /\ run'[b].results = run[b].results
          /\ DOMAIN worker' = Calls /\ DOMAIN worker'[b] = Lanes
          /\ \A c \in Calls : c # b => worker'[c] = worker[c]
          /\ \A l \in Lanes : WorkerTyped(worker'[b][l]) /\ worker'[b][l].pc = "claim"
<1> DEFINE log == [i \in 1 .. count[b] |-> Event("Queued", run[b].ids[i], Free)]
           R == [run[b] EXCEPT !.events = log]
           W == [IdleWorker EXCEPT !.pc = "claim"]
<1>0. RunTyped(run[b]) /\ DOMAIN run = Calls /\ DOMAIN worker = Calls /\ count[b] \in Nat
      /\ Len(run[b].ids) = count[b] /\ run[b].ids \in Seq(Nat)
  BY DEF Typed, Spawn, RunTyped
<1>1. run' = [run EXCEPT ![b] = R] /\ worker' = [worker EXCEPT ![b] = [l \in Lanes |-> W]]
  BY DEF Spawn
<1>2. /\ log \in Seq(Events) /\ DOMAIN log = 1 .. count[b] /\ Len(log) = count[b]
      /\ \A i \in 1 .. count[b] : log[i].kind = "Queued"
  <2>1. \A i \in 1 .. count[b] : /\ Event("Queued", run[b].ids[i], Free) \in Events
                                 /\ Event("Queued", run[b].ids[i], Free).kind = "Queued"
    BY <1>0 DEF Event, Events
  <2>2. log \in [1 .. count[b] -> Events] /\ \A i \in 1 .. count[b] : log[i].kind = "Queued"
    BY <2>1
  <2> HIDE DEF log
  <2>3. log \in Seq(Events) /\ Len(log) = count[b]
    BY <1>0, <2>2
  <2> QED
    BY <2>2, <2>3
<1>3. WorkerTyped(W) /\ W.pc = "claim"
  BY DEF WorkerTyped, IdleWorker, AllOutcomes
<1> HIDE DEF log, W
<1>4. /\ RunTyped(R) /\ R.ids = run[b].ids /\ R.events = log
      /\ R.cursor = run[b].cursor /\ R.queued = run[b].queued
      /\ R.running = run[b].running /\ R.completed = run[b].completed
      /\ R.failed = run[b].failed /\ R.peak_active = run[b].peak_active
      /\ R.lanes = run[b].lanes /\ R.results = run[b].results
  BY <1>0, <1>2 DEF RunTyped
<1> HIDE DEF R
<1> QED
  BY <1>0, <1>1, <1>2, <1>3, <1>4

LEMMA TypedStep == ASSUME BatchInv, Next PROVE Typed'
<1>t. Typed
  BY DEF BatchInv
<1>1. CASE RunOneTakesId
  BY <1>t, <1>1 DEF RunOneTakesId, Typed
<1>2. ASSUME NEW b \in Calls, Call(b) PROVE Typed'
  <2>1. PICK n \in Counts[b] : /\ count' = [count EXCEPT ![b] = n]
                              /\ bpc' = [bpc EXCEPT ![b] = IF n = 0 THEN "refused" ELSE "lock"]
    BY <1>2 DEF Call
  <2>2. n \in Nat
    BY BatchInputsAssumption
  <2> QED
    BY <1>t, <1>2, <2>1, <2>2 DEF Call, Typed
<1>3. ASSUME NEW b \in Calls, LockRun(b) PROVE Typed'
  <2>1. \A c \in Calls : RunTyped(run'[c])
    BY <1>t, <1>3, LockRunEffect DEF Typed
  <2> QED
    BY <1>t, <1>3, <2>1, LockRunEffect DEF LockRun, Typed
<1>4. ASSUME NEW b \in Calls, ReserveId(b) PROVE Typed'
  <2>1. \A c \in Calls : RunTyped(run'[c])
    BY <1>t, <1>4, ReserveIdEffect DEF Typed
  <2> QED
    <3>1. nextId' \in Nat /\ DOMAIN run' = Calls
      BY <1>t, <1>4, ReserveIdEffect DEF ReserveId, Typed
    <3>2. UNCHANGED <<runLock, bpc, count, worker, report>>
      BY <1>4 DEF ReserveId
    <3> QED
      BY <1>t, <2>1, <3>1, <3>2 DEF Typed
<1>5. ASSUME NEW b \in Calls, Spawn(b) PROVE Typed'
  <2>1. /\ DOMAIN run' = Calls /\ DOMAIN worker' = Calls
        /\ \A c \in Calls : RunTyped(run'[c]) /\ DOMAIN worker'[c] = Lanes
                            /\ \A l \in Lanes : WorkerTyped(worker'[c][l])
    BY <1>t, <1>5, SpawnEffect DEF Typed
  <2>2. UNCHANGED <<nextId, runLock, count, report>>
        /\ bpc' = [bpc EXCEPT ![b] = "spawned"]
    BY <1>5 DEF Spawn
  <2> QED
    BY <1>t, <2>1, <2>2 DEF Typed
<1>6. ASSUME NEW b \in Calls, Join(b) PROVE Typed'
  <2>1. DOMAIN report' = Calls
    BY <1>t, <1>6 DEF Join, Typed
  <2> QED
    BY <1>t, <1>6, <2>1 DEF Join, Typed
<1>7. ASSUME NEW b \in Calls, NEW l \in Lanes, WorkerStep(b, l) PROVE Typed'
  <2>1. Alone(b, l)
    BY <1>7, WorkerReady
  <2>2. \A c \in Calls : RunTyped(run'[c]) /\ DOMAIN worker'[c] = Lanes
                         /\ \A m \in Lanes : WorkerTyped(worker'[c][m])
    BY <1>t, <2>1 DEF Typed, Alone
  <2> QED
    BY <1>t, <2>1, <2>2 DEF Typed, Alone
<1> QED
  BY <1>1, <1>2, <1>3, <1>4, <1>5, <1>6, <1>7 DEF Next, CallStep

\* a step of one call leaves the others' worker state alone
LEMMA LockedStep == ASSUME BatchInv, Next PROVE Locked'
<1>t. Typed /\ Locked
  BY DEF BatchInv
<1> USE BatchInputsAssumption DEF Locked
<1>1. CASE RunOneTakesId
  BY <1>t, <1>1 DEF RunOneTakesId
<1>2. ASSUME NEW b \in Calls, Call(b) PROVE Locked'
  <2>1. PICK n \in Counts[b] : bpc' = [bpc EXCEPT ![b] = IF n = 0 THEN "refused" ELSE "lock"]
    BY <1>2 DEF Call
  <2> QED
    BY <1>t, <1>2, <2>1 DEF Call, Typed
<1>3. ASSUME NEW b \in Calls, LockRun(b) PROVE Locked'
  BY <1>t, <1>3 DEF LockRun, Typed
<1>4. ASSUME NEW b \in Calls, ReserveId(b) PROVE Locked'
  BY <1>t, <1>4 DEF ReserveId
<1>5. ASSUME NEW b \in Calls, Spawn(b) PROVE Locked'
  <2>1. \A c \in Calls : c # b => worker'[c] = worker[c]
    BY <1>t, <1>5, SpawnEffect
  <2>2. bpc' = [bpc EXCEPT ![b] = "spawned"] /\ bpc[b] = "reserve" /\ runLock' = runLock
    BY <1>5 DEF Spawn
  <2> QED
    BY <1>t, <2>1, <2>2 DEF Typed
<1>6. ASSUME NEW b \in Calls, Join(b) PROVE Locked'
  BY <1>t, <1>6 DEF Join, Joined, Typed
<1>7. ASSUME NEW b \in Calls, NEW l \in Lanes, WorkerStep(b, l) PROVE Locked'
  BY <1>t, <1>7, WorkerReady DEF Alone
<1> QED
  BY <1>1, <1>2, <1>3, <1>4, <1>5, <1>6, <1>7 DEF Next, CallStep

LEMMA IdsStep == ASSUME BatchInv, Next PROVE IdsAscend' /\ StartsFresh'
<1>t. Typed /\ IdsAscend /\ StartsFresh /\ Locked
  BY DEF BatchInv
<1>1. CASE RunOneTakesId
  <2>1. /\ UNCHANGED <<runLock, bpc, count, run, worker, report>>
        /\ nextId' = nextId + 1 /\ nextId \in Nat
        /\ \A b \in Calls : \A i \in 1 .. Len(run[b].ids) : run[b].ids[i] \in Nat
    <3>1. ASSUME NEW b \in Calls PROVE \A i \in 1 .. Len(run[b].ids) : run[b].ids[i] \in Nat
      <4>1. run[b].ids \in Seq(Nat)
        BY <1>t DEF Typed, RunTyped
      <4> QED
        BY <4>1
    <3> QED
      BY <1>t, <1>1, <3>1 DEF RunOneTakesId, Typed
  <2> QED
    BY <1>t, <2>1 DEF IdsAscend, StartsFresh
<1>2. ASSUME NEW b \in Calls, Call(b) PROVE IdsAscend' /\ StartsFresh'
  <2>1. PICK n \in Counts[b] : /\ bpc' = [bpc EXCEPT ![b] = IF n = 0 THEN "refused" ELSE "lock"]
                              /\ count' = [count EXCEPT ![b] = n]
    BY <1>2 DEF Call
  <2> QED
    BY <1>t, <1>2, <2>1 DEF Call, Typed, IdsAscend, StartsFresh
<1>3. ASSUME NEW b \in Calls, LockRun(b) PROVE IdsAscend' /\ StartsFresh'
  <2>1. /\ run'[b].ids = <<>> /\ run'[b].cursor = 0 /\ run'[b].queued = count[b]
        /\ run'[b].running = 0 /\ run'[b].completed = 0 /\ run'[b].failed = 0
        /\ run'[b].peak_active = 0 /\ run'[b].lanes = [l \in Lanes |-> Free]
        /\ run'[b].results = <<>>
    <3>1. run'[b] = NewRun(count[b])
      BY <1>t, <1>3, LockRunEffect
    <3> QED
      BY <3>1 DEF NewRun
  <2>2. /\ bpc' = [bpc EXCEPT ![b] = "reserve"] /\ UNCHANGED <<nextId, count>>
        /\ \A c \in Calls : c # b => run'[c] = run[c]
    BY <1>t, <1>3, LockRunEffect DEF LockRun
  <2>3. Len(<<>>) = 0 /\ count[b] \in Nat
    BY <1>t DEF Typed
  <2> QED
    BY <1>t, <2>1, <2>2, <2>3 DEF IdsAscend, StartsFresh, Typed
<1>4. ASSUME NEW b \in Calls, ReserveId(b) PROVE IdsAscend' /\ StartsFresh'
  <2>1. /\ bpc' = bpc /\ count' = count /\ nextId' = nextId + 1 /\ nextId \in Nat
        /\ bpc[b] = "reserve" /\ Len(run[b].ids) < count[b] /\ count[b] \in Nat
    BY <1>t, <1>4 DEF ReserveId, Typed
  <2>2. StartsFresh'
    BY <1>t, <1>4, <2>1, ReserveIdEffect DEF StartsFresh
  <2>3. ASSUME NEW c \in Calls, c # b, bpc'[c] \in {"reserve", "spawned"} PROVE FALSE
    BY <1>t, <2>1, <2>3 DEF Locked
  <2> DEFINE ids == run[b].ids
  <2>4. ids \in Seq(Nat) /\ run'[b].ids = Append(ids, nextId)
    BY <1>t, <1>4, ReserveIdEffect DEF Typed, RunTyped
  <2>5. /\ \A i \in 1 .. Len(ids) : ids[i] < nextId /\ ids[i] \in Nat
        /\ \A i, j \in 1 .. Len(ids) : i < j => ids[i] < ids[j]
    BY <1>t, <2>1, <2>4 DEF IdsAscend
  <2> DEFINE new == Append(ids, nextId)
  <2>6. /\ Len(new) = Len(ids) + 1 /\ Len(ids) \in Nat
        /\ \A i \in 1 .. Len(ids) : new[i] = ids[i]
        /\ new[Len(ids) + 1] = nextId
    BY <2>1, <2>4
  <2> HIDE DEF ids, new
  <2>7. /\ Len(new) <= count[b]
        /\ \A i \in 1 .. Len(new) : new[i] < nextId + 1
        /\ \A i, j \in 1 .. Len(new) : i < j => new[i] < new[j]
    <3>1. \A i \in 1 .. Len(new) : i \in 1 .. Len(ids) \/ i = Len(ids) + 1
      BY <2>6
    <3>2. Len(new) <= count[b]
      BY <2>1, <2>6 DEF ids
    <3>3. \A i \in 1 .. Len(new) : new[i] < nextId + 1
      BY <2>1, <2>5, <2>6, <3>1
    <3>4. ASSUME NEW i \in 1 .. Len(new), NEW j \in 1 .. Len(new), i < j PROVE new[i] < new[j]
      <4>1. i \in 1 .. Len(ids)
        BY <2>6, <3>1, <3>4
      <4>2. CASE j \in 1 .. Len(ids)
        BY <2>5, <2>6, <3>4, <4>1, <4>2
      <4>3. CASE j = Len(ids) + 1
        BY <2>5, <2>6, <4>1, <4>3
      <4> QED
        BY <3>1, <4>2, <4>3
    <3> QED
      BY <3>2, <3>3, <3>4
  <2>8. run'[b].ids = new
    BY <2>4 DEF new
  <2>9. IdsAscend'
    BY <2>1, <2>3, <2>7, <2>8 DEF IdsAscend
  <2> QED
    BY <2>2, <2>9
<1>5. ASSUME NEW b \in Calls, Spawn(b) PROVE IdsAscend' /\ StartsFresh'
  <2>1. bpc' = [bpc EXCEPT ![b] = "spawned"] /\ Len(run[b].ids) = count[b] /\ bpc[b] = "reserve"
        /\ UNCHANGED <<nextId, count>>
    BY <1>5 DEF Spawn
  <2>2. run'[b].ids = run[b].ids /\ \A c \in Calls : c # b => run'[c] = run[c]
    BY <1>t, <1>5, SpawnEffect
  <2> QED
    BY <1>t, <2>1, <2>2 DEF IdsAscend, StartsFresh, Typed
<1>6. ASSUME NEW b \in Calls, Join(b) PROVE IdsAscend' /\ StartsFresh'
  <2>1. UNCHANGED <<nextId, count, run>> /\ \A c \in Calls : bpc'[c] = bpc[c] \/ bpc'[c] \in {"panicked", "returned"}
    BY <1>t, <1>6 DEF Join, Typed
  <2> QED
    BY <1>t, <2>1 DEF IdsAscend, StartsFresh
<1>7. ASSUME NEW b \in Calls, NEW l \in Lanes, WorkerStep(b, l) PROVE IdsAscend' /\ StartsFresh'
  <2>1. /\ UNCHANGED <<nextId, bpc, count>> /\ bpc[b] = "spawned"
        /\ run'[b].ids = run[b].ids /\ \A c \in Calls : c # b => run'[c] = run[c]
    BY <1>7, WorkerReady DEF Alone
  <2> QED
    BY <1>t, <2>1 DEF IdsAscend, StartsFresh
<1> QED
  BY <1>1, <1>2, <1>3, <1>4, <1>5, <1>6, <1>7 DEF Next, CallStep

(***************************************************************************)
(* What the workers of a batch keep true of its run.                       *)
(***************************************************************************)
LEMMA Untouched ==
    ASSUME NEW c \in Calls, Claims(c), Tallies(c), Peaks(c),
           run'[c] = run[c], worker'[c] = worker[c], count'[c] = count[c]
    PROVE Claims(c)' /\ Tallies(c)' /\ Peaks(c)'
<1>1. \A S : At(c, S)' = At(c, S)
  BY DEF At
<1>2. AboutToSucceed(c)' = AboutToSucceed(c)
  BY DEF AboutToSucceed, At
<1>3. Claims(c)'
  BY <1>1 DEF Claims
<1>4. Tallies(c)'
  BY <1>1, <1>2 DEF Tallies, Succeeded
<1>5. Peaks(c)'
  BY <1>1 DEF Peaks, Ranked, InPeak, Concurrency
<1> QED
  BY <1>3, <1>4, <1>5

LEMMA SpawnStarts ==
    ASSUME BatchInv, NEW b \in Calls, Spawn(b)
    PROVE Claims(b)' /\ Tallies(b)' /\ Peaks(b)'
<1>1. Typed /\ bpc[b] = "reserve" /\ count' = count /\ count[b] \in Nat
  BY DEF BatchInv, Typed, Spawn
<1>2. /\ run'[b].cursor = 0 /\ run'[b].queued = count[b] /\ run'[b].running = 0
      /\ run'[b].completed = 0 /\ run'[b].failed = 0 /\ run'[b].peak_active = 0
      /\ run'[b].lanes = [l \in Lanes |-> Free] /\ run'[b].results = <<>>
  BY <1>1, SpawnEffect DEF BatchInv, StartsFresh
<1>3. /\ DOMAIN run'[b].events = 1 .. count[b] /\ Len(run'[b].events) = count[b]
      /\ \A i \in 1 .. count[b] : run'[b].events[i].kind = "Queued"
      /\ \A l \in Lanes : worker'[b][l].pc = "claim"
  BY <1>1, SpawnEffect
<1>4. \A S : "claim" \notin S => At(b, S)' = {}
  BY <1>3 DEF At
<1>5. /\ At(b, Holding)' = {} /\ At(b, Counted)' = {} /\ At(b, {"exited"})' = {}
      /\ At(b, {"finished"})' = {} /\ At(b, {"task", "panicked"})' = {}
      /\ At(b, {"task", "finished", "panicked"})' = {}
  BY <1>4 DEF Holding, Counted
<1>6. Cardinality({}) = 0 /\ DOMAIN <<>> = {} /\ Len(<<>>) = 0
  BY FS_EmptySet
<1>c. /\ Cardinality(At(b, Holding)') = 0 /\ Cardinality(At(b, Counted)') = 0
      /\ Cardinality(At(b, {"exited"})') = 0 /\ Cardinality(At(b, {"finished"})') = 0
      /\ Cardinality(At(b, {"task", "panicked"})') = 0
  BY <1>5, <1>6, Zenon
<1>7. Claims(b)'
  BY <1>1, <1>2, <1>5, <1>6 DEF Claims
<1>8. Tallies(b)'
  <2>1. Succeeded(run'[b].results) = {} /\ AboutToSucceed(b)' = {}
    BY <1>2, <1>5, <1>6 DEF Succeeded, AboutToSucceed
  <2>2. Cardinality(Succeeded(run[b].results)') = 0 /\ Cardinality(AboutToSucceed(b)') = 0
    <3>1. Succeeded(run[b].results)' = {}
      BY <2>1 DEF Succeeded
    <3> QED
      BY <1>6, <2>1, <3>1, Zenon
  <2>3. run'[b].queued = IF run'[b].cursor <= count'[b] THEN count'[b] - run'[b].cursor ELSE 0
    BY <1>1, <1>2
  <2>4. /\ run'[b].running = Cardinality(At(b, Counted)')
        /\ run'[b].cursor <= count'[b] + Cardinality(At(b, {"exited"})')
        /\ run'[b].completed = Cardinality(Succeeded(run[b].results)') + Cardinality(AboutToSucceed(b)')
    BY <1>1, <1>2, <1>c, <2>2
  <2>5. /\ Len(run'[b].results) + Cardinality(At(b, Holding)')
             = IF run'[b].cursor <= count'[b] THEN run'[b].cursor ELSE count'[b]
        /\ run'[b].completed + run'[b].failed
             = Len(run'[b].results) + Cardinality(At(b, {"finished"})')
    BY <1>1, <1>2, <1>6, <1>c
  <2> QED
    BY <2>3, <2>4, <2>5 DEF Tallies
<1>9. Peaks(b)'
  <2>1. \A n \in 0 .. count[b] : Concurrency(run'[b].events, n) = 0
    <3>1. ASSUME NEW n \in 0 .. count[b] PROVE Concurrency(run'[b].events, n) = 0
      <4>1. /\ {i \in 1 .. n : run'[b].events[i].kind = "Started"} = {}
            /\ {i \in 1 .. n : run'[b].events[i].kind \in {"Completed", "Failed"}} = {}
        BY <1>1, <1>3
      <4>2. Concurrency(run'[b].events, n) = Cardinality({}) - Cardinality({})
        BY <4>1, Zenon DEF Concurrency
      <4> QED
        BY <1>6, <4>2
    <3> QED
      BY <3>1
  <2>2. LaneCount \in Nat
    BY BatchLanesAssumption
  <2>3. /\ Concurrency(run'[b].events, Len(run'[b].events)) = 0
        /\ \A n \in DOMAIN run'[b].events : Concurrency(run'[b].events, n) <= 0
    BY <1>1, <1>3, <2>1
  <2>5. /\ \A S \in SUBSET At(b, Counted)' : S # {} =>
              \E l \in S : worker'[b][l].seen >= Cardinality(S)
        /\ \A l \in At(b, Counted)' : worker'[b][l].seen <= LaneCount
        /\ \A l \in At(b, {"task", "finished", "panicked"})' : worker'[b][l].seen <= run'[b].peak_active
        /\ run'[b].peak_active <= LaneCount
    BY <1>2, <1>5, <2>2
  <2> QED
    BY <1>2, <1>c, <2>3, <2>5 DEF Peaks, Ranked, InPeak
<1> QED
  BY <1>7, <1>8, <1>9

\* what is known of a batch when one of its workers moves
LEMMA WorkerContext ==
    ASSUME BatchInv, NEW b \in Calls, NEW l \in Lanes, WorkerStep(b, l)
    PROVE /\ Claims(b) /\ Tallies(b) /\ Peaks(b)
          /\ count[b] \in Nat /\ count'[b] = count[b] /\ RunTyped(run[b])
          /\ \A m \in Lanes : WorkerTyped(worker[b][m])
          /\ \A i, j \in 0 .. count[b] - 1 : run[b].ids[i + 1] = run[b].ids[j + 1] => i = j
<1>1. Typed /\ bpc[b] = "spawned" /\ Len(run[b].ids) = count[b] /\ Alone(b, l)
  BY WorkerReady
<1>2. Claims(b) /\ Tallies(b) /\ Peaks(b)
  BY <1>1 DEF BatchInv, Working
<1>3. count[b] \in Nat /\ count'[b] = count[b] /\ RunTyped(run[b])
      /\ \A m \in Lanes : WorkerTyped(worker[b][m])
  BY <1>1 DEF Typed, Alone
<1>4. \A i \in 1 .. count[b] : run[b].ids[i] \in Nat
  <2>1. run[b].ids \in Seq(Nat)
    BY <1>3 DEF RunTyped
  <2> QED
    BY <1>1, <2>1
<1>5. \A i, j \in 1 .. count[b] : i < j => run[b].ids[i] < run[b].ids[j]
  BY <1>1 DEF BatchInv, IdsAscend
<1>6. ASSUME NEW i \in 0 .. count[b] - 1, NEW j \in 0 .. count[b] - 1,
             run[b].ids[i + 1] = run[b].ids[j + 1], i # j PROVE FALSE
  <2>1. i + 1 \in 1 .. count[b] /\ j + 1 \in 1 .. count[b]
    BY <1>3
  <2>2. run[b].ids[i + 1] \in Nat /\ run[b].ids[j + 1] \in Nat
    BY <1>4, <2>1
  <2>3. CASE i < j
    BY <1>5, <1>6, <2>1, <2>2, <2>3
  <2>4. CASE j < i
    BY <1>5, <1>6, <2>1, <2>2, <2>4
  <2> QED
    BY <1>3, <1>6, <2>3, <2>4
<1> QED
  BY <1>2, <1>3, <1>6

\* a worker's state changes between two states in which it holds its index or not
LEMMA ClaimsStep ==
    ASSUME BatchInv, NEW b \in Calls, NEW l \in Lanes, WorkerStep(b, l)
    PROVE Claims(b)'
<1>1. /\ Typed /\ Len(run[b].ids) = count[b] /\ run[b].running \in Nat
      /\ worker[b][l].pc \in Holding => IdOf(b, l) \in Nat
  BY WorkerReady
<1>2. /\ Claims(b) /\ count[b] \in Nat /\ count'[b] = count[b] /\ RunTyped(run[b])
      /\ \A m \in Lanes : WorkerTyped(worker[b][m])
      /\ \A i, j \in 0 .. count[b] - 1 : run[b].ids[i + 1] = run[b].ids[j + 1] => i = j
  BY WorkerContext
<1>3. run[b].cursor \in Nat /\ \A m \in Lanes : worker[b][m].ix \in Nat
  BY <1>2 DEF RunTyped, WorkerTyped
<1>4. CASE Claim(b, l)
  <2>1. /\ Alone(b, l) /\ run'[b].cursor = run[b].cursor + 1 /\ run'[b].results = run[b].results
        /\ \A m \in Lanes : m # l => run'[b].lanes[m] = run[b].lanes[m]
        /\ \/ /\ run[b].cursor < count[b] /\ Moves(b, l, "claim", "claimed")
              /\ worker'[b][l].ix = run[b].cursor
           \/ /\ run[b].cursor >= count[b] /\ Moves(b, l, "claim", "exited")
              /\ run'[b].lanes = run[b].lanes
    BY <1>1, <1>4, ClaimEffect
  <2>2. CASE run[b].cursor < count[b] /\ Moves(b, l, "claim", "claimed") /\ worker'[b][l].ix = run[b].cursor
    <3>1. /\ At(b, Holding)' = At(b, Holding) \cup {l} /\ l \notin At(b, Holding)
          /\ At(b, {"exited"})' = At(b, {"exited"})
          /\ \A m \in At(b, Holding) : worker'[b][m].ix = worker[b][m].ix
      BY <2>1, <2>2 DEF Alone, Moves, At, Holding
    <3>2. \A m \in At(b, Holding) : worker[b][m].ix < run[b].cursor /\ worker[b][m].ix < count[b]
                                     /\ worker[b][m].ix \in Nat
      BY <1>2, <1>3 DEF Claims, At
    <3>3. \A m \in At(b, Holding)' :
            /\ worker'[b][m].ix < run'[b].cursor /\ worker'[b][m].ix < count'[b]
            /\ \A n \in At(b, Holding)' : worker'[b][n].ix = worker'[b][m].ix => n = m
      <4>1. \A m \in At(b, Holding), n \in At(b, Holding) : worker[b][n].ix = worker[b][m].ix => n = m
        BY <1>2 DEF Claims
      <4> QED
        BY <1>2, <1>3, <2>1, <2>2, <3>1, <3>2, <4>1
    <3>4. \A m \in Lanes \ At(b, Holding)' : run'[b].lanes[m] = Free
      BY <1>2, <2>1, <3>1 DEF Claims
    <3>5. \A m \in At(b, {"exited"})' : run'[b].cursor >= count'[b]
      BY <1>2, <1>3, <2>1, <3>1 DEF Claims
    <3>6. run'[b].ids = run[b].ids
      BY <2>1 DEF Alone
    <3>7. ASSUME NEW k \in DOMAIN run[b].results
          PROVE \E j \in 0 .. count[b] - 1 :
                  /\ run[b].results[k].id = run[b].ids[j + 1] /\ j < run'[b].cursor
                  /\ \A m \in At(b, Holding)' : worker'[b][m].ix # j
                  /\ \A m \in DOMAIN run[b].results : run[b].results[m].id = run[b].ids[j + 1] => m = k
      <4>1. PICK j \in 0 .. count[b] - 1 :
              /\ run[b].results[k].id = run[b].ids[j + 1] /\ j < run[b].cursor
              /\ \A m \in At(b, Holding) : worker[b][m].ix # j
              /\ \A m \in DOMAIN run[b].results : run[b].results[m].id = run[b].ids[j + 1] => m = k
        BY <1>2, <3>7 DEF Claims
      <4>2. j # run[b].cursor /\ j < run'[b].cursor
        BY <1>3, <2>1, <4>1
      <4> QED
        BY <2>2, <3>1, <4>1, <4>2
    <3>8. ASSUME NEW j \in 0 .. count[b] - 1, j < run'[b].cursor
          PROVE \/ \E m \in At(b, Holding)' : worker'[b][m].ix = j
                \/ \E k \in DOMAIN run[b].results : run[b].results[k].id = run[b].ids[j + 1]
      <4>1. CASE j = run[b].cursor
        BY <2>2, <3>1, <4>1
      <4>2. CASE j < run[b].cursor
        BY <1>2, <3>1, <4>2 DEF Claims
      <4> QED
        BY <1>3, <2>1, <3>8, <4>1, <4>2
    <3> QED
      BY <1>2, <2>1, <3>3, <3>4, <3>5, <3>6, <3>7, <3>8 DEF Claims
  <2>3. CASE run[b].cursor >= count[b] /\ Moves(b, l, "claim", "exited") /\ run'[b].lanes = run[b].lanes
    <3>1. /\ At(b, Holding)' = At(b, Holding) /\ At(b, {"exited"})' = At(b, {"exited"}) \cup {l}
          /\ \A m \in At(b, Holding) : worker'[b][m].ix = worker[b][m].ix
      BY <2>1, <2>3 DEF Alone, Moves, At, Holding
    <3>2. run'[b].ids = run[b].ids /\ run'[b].cursor >= count[b]
      BY <1>2, <1>3, <2>1, <2>3 DEF Alone
    <3>3. \A m \in At(b, Holding)' :
            /\ worker'[b][m].ix < run'[b].cursor /\ worker'[b][m].ix < count'[b]
            /\ \A n \in At(b, Holding)' : worker'[b][n].ix = worker'[b][m].ix => n = m
      <4>1. \A m \in At(b, Holding) : worker[b][m].ix < run[b].cursor /\ worker[b][m].ix < count[b]
                                       /\ worker[b][m].ix \in Nat
        BY <1>2, <1>3 DEF Claims, At
      <4>2. \A m \in At(b, Holding), n \in At(b, Holding) : worker[b][n].ix = worker[b][m].ix => n = m
        BY <1>2 DEF Claims
      <4> QED
        BY <1>2, <1>3, <2>1, <3>1, <4>1, <4>2
    <3>4. \A m \in Lanes \ At(b, Holding)' : run'[b].lanes[m] = Free
      BY <1>2, <2>3, <3>1 DEF Claims
    <3>5. ASSUME NEW k \in DOMAIN run[b].results
          PROVE \E j \in 0 .. count[b] - 1 :
                  /\ run[b].results[k].id = run[b].ids[j + 1] /\ j < run'[b].cursor
                  /\ \A m \in At(b, Holding)' : worker'[b][m].ix # j
                  /\ \A m \in DOMAIN run[b].results : run[b].results[m].id = run[b].ids[j + 1] => m = k
      <4>1. PICK j \in 0 .. count[b] - 1 :
              /\ run[b].results[k].id = run[b].ids[j + 1] /\ j < run[b].cursor
              /\ \A m \in At(b, Holding) : worker[b][m].ix # j
              /\ \A m \in DOMAIN run[b].results : run[b].results[m].id = run[b].ids[j + 1] => m = k
        BY <1>2, <3>5 DEF Claims
      <4>2. j < run'[b].cursor
        BY <1>3, <2>1, <4>1
      <4> QED
        BY <3>1, <4>1, <4>2
    <3>6. ASSUME NEW j \in 0 .. count[b] - 1, j < run'[b].cursor
          PROVE \/ \E m \in At(b, Holding)' : worker'[b][m].ix = j
                \/ \E k \in DOMAIN run[b].results : run[b].results[k].id = run[b].ids[j + 1]
      <4>1. j < run[b].cursor
        BY <1>2, <1>3, <2>3
      <4> QED
        BY <1>2, <3>1, <4>1 DEF Claims
    <3> QED
      BY <1>2, <2>1, <3>2, <3>3, <3>4, <3>5, <3>6 DEF Claims
  <2> QED
    BY <2>1, <2>2, <2>3
<1>5. CASE CountRunning(b, l)
  <2>1. /\ Alone(b, l) /\ SameCounts(b) /\ Moves(b, l, "claimed", "counted")
        /\ worker'[b][l].ix = worker[b][l].ix
    BY <1>1, <1>5, CountRunningEffect
  <2> QED
    BY <1>2, <2>1 DEF Claims, Alone, SameCounts, Moves, At, Holding
<1>6. CASE Start(b, l)
  <2>1. Alone(b, l) /\ SameCounts(b) /\ Moves(b, l, "counted", "task") /\ Keeps(b, l)
    BY <1>1, <1>6, StartEffect DEF Start, WGoto, Holding
  <2> QED
    BY <1>2, <2>1 DEF Claims, Alone, SameCounts, Moves, Keeps, At, Holding
<1>7. CASE EndTask(b, l)
  <2>1. /\ Alone(b, l) /\ Moves(b, l, "task", "finished") /\ Keeps(b, l)
        /\ run'[b].cursor = run[b].cursor /\ run'[b].results = run[b].results
        /\ run'[b].lanes = run[b].lanes
    BY <1>1, <1>7, EndTaskEffect DEF EndTask, Holding
  <2> QED
    BY <1>2, <2>1 DEF Claims, Alone, Moves, Keeps, At, Holding
<1>8. CASE PanicTask(b, l)
  <2>1. Alone(b, l) /\ SameCounts(b) /\ Moves(b, l, "task", "panicked") /\ Keeps(b, l)
    BY <1>1, <1>8, PanicTaskEffect
  <2> QED
    BY <1>2, <2>1 DEF Claims, Alone, SameCounts, Moves, Keeps, At, Holding
<1>9. CASE ReleaseLane(b, l)
  <2>1. /\ Alone(b, l) /\ Moves(b, l, "finished", "claim") /\ Keeps(b, l)
        /\ run'[b].cursor = run[b].cursor /\ run'[b].lanes[l] = Free
        /\ \A m \in Lanes : m # l => run'[b].lanes[m] = run[b].lanes[m]
        /\ \E r \in Results : r.id = IdOf(b, l) /\ run'[b].results = Append(run[b].results, r)
    BY <1>1, <1>9, ReleaseLaneEffect DEF ReleaseLane, WGoto, Holding
  <2>2. PICK r \in Results : r.id = IdOf(b, l) /\ run'[b].results = Append(run[b].results, r)
    BY <2>1
  <2> DEFINE old == run[b].results
             new == run'[b].results
             last == Len(old) + 1
             mine == worker[b][l].ix
  <2>3. /\ DOMAIN new = DOMAIN old \cup {last} /\ last \notin DOMAIN old
        /\ \A k \in DOMAIN old : new[k] = old[k]
        /\ new[last].id = run[b].ids[mine + 1]
    <3>1. old \in Seq(Results)
      BY <1>2 DEF RunTyped
    <3> QED
      BY <2>2, <3>1 DEF IdOf
  <2>4. /\ l \in At(b, Holding) /\ mine \in 0 .. count[b] - 1 /\ mine < run[b].cursor
        /\ \A m \in At(b, Holding) : worker[b][m].ix = mine => m = l
    BY <1>2, <1>3, <2>1 DEF Claims, Moves, At, Holding
  <2>5. /\ At(b, Holding)' = At(b, Holding) \ {l} /\ At(b, {"exited"})' = At(b, {"exited"})
        /\ \A m \in At(b, Holding)' : worker'[b][m].ix = worker[b][m].ix
    BY <2>1 DEF Alone, Moves, At, Holding
  <2>6. \A k \in DOMAIN old : old[k].id # run[b].ids[mine + 1]
    BY <1>2, <2>4 DEF Claims
  <2> HIDE DEF old, new, last, mine
  <2>7. ASSUME NEW k \in DOMAIN new
        PROVE \E j \in 0 .. count[b] - 1 :
                /\ new[k].id = run[b].ids[j + 1] /\ j < run[b].cursor
                /\ \A m \in At(b, Holding)' : worker[b][m].ix # j
                /\ \A m \in DOMAIN new : new[m].id = run[b].ids[j + 1] => m = k
    <3>1. CASE k = last
      BY <2>3, <2>4, <2>5, <2>6, <3>1
    <3>2. CASE k \in DOMAIN old
      <4>1. PICK j \in 0 .. count[b] - 1 :
              /\ old[k].id = run[b].ids[j + 1] /\ j < run[b].cursor
              /\ \A m \in At(b, Holding) : worker[b][m].ix # j
              /\ \A m \in DOMAIN old : old[m].id = run[b].ids[j + 1] => m = k
        BY <1>2, <3>2 DEF Claims, old
      <4>2. j # mine
        BY <2>4, <4>1 DEF mine
      <4>3. new[last].id # run[b].ids[j + 1]
        BY <1>2, <2>3, <2>4, <4>2
      <4> QED
        BY <2>3, <2>5, <3>2, <4>1, <4>3
    <3> QED
      BY <2>3, <3>1, <3>2
  <2>8. ASSUME NEW j \in 0 .. count[b] - 1, j < run[b].cursor
        PROVE \/ \E m \in At(b, Holding)' : worker[b][m].ix = j
              \/ \E k \in DOMAIN new : new[k].id = run[b].ids[j + 1]
    <3>1. CASE j = mine
      BY <2>3, <3>1
    <3>2. CASE j # mine
      <4>1. \/ \E m \in At(b, Holding) : worker[b][m].ix = j
            \/ \E k \in DOMAIN old : old[k].id = run[b].ids[j + 1]
        BY <1>2, <2>8 DEF Claims, old
      <4> QED
        BY <2>3, <2>5, <3>2, <4>1 DEF mine
    <3> QED
      BY <3>1, <3>2
  <2>9. \A m \in Lanes \ At(b, Holding)' : run'[b].lanes[m] = Free
    BY <1>2, <2>1, <2>5 DEF Claims
  <2>10. /\ \A m \in At(b, Holding)' :
              /\ worker'[b][m].ix < run'[b].cursor /\ worker'[b][m].ix < count'[b]
              /\ \A n \in At(b, Holding)' : worker'[b][n].ix = worker'[b][m].ix => n = m
         /\ \A m \in At(b, {"exited"})' : run'[b].cursor >= count'[b]
    BY <1>2, <2>1, <2>5 DEF Claims
  <2>11. run'[b].ids = run[b].ids /\ new = run'[b].results
    BY <2>1 DEF Alone, new
  <2>12. \A k \in DOMAIN new : \E j \in 0 .. count'[b] - 1 :
            /\ new[k].id = run'[b].ids[j + 1] /\ j < run'[b].cursor
            /\ \A m \in At(b, Holding)' : worker'[b][m].ix # j
            /\ \A m \in DOMAIN new : new[m].id = run'[b].ids[j + 1] => m = k
    <3>1. ASSUME NEW k \in DOMAIN new
          PROVE \E j \in 0 .. count'[b] - 1 :
            /\ new[k].id = run'[b].ids[j + 1] /\ j < run'[b].cursor
            /\ \A m \in At(b, Holding)' : worker'[b][m].ix # j
            /\ \A m \in DOMAIN new : new[m].id = run'[b].ids[j + 1] => m = k
      <4>1. PICK j \in 0 .. count[b] - 1 :
              /\ new[k].id = run[b].ids[j + 1] /\ j < run[b].cursor
              /\ \A m \in At(b, Holding)' : worker[b][m].ix # j
              /\ \A m \in DOMAIN new : new[m].id = run[b].ids[j + 1] => m = k
        BY <2>7, <3>1
      <4>2. /\ count'[b] = count[b] /\ run'[b].ids = run[b].ids /\ run'[b].cursor = run[b].cursor
            /\ \A m \in At(b, Holding)' : worker'[b][m].ix = worker[b][m].ix
        BY <1>2, <2>1, <2>5, <2>11
      <4>3. /\ j \in 0 .. count'[b] - 1
            /\ new[k].id = run'[b].ids[j + 1] /\ j < run'[b].cursor
            /\ \A m \in At(b, Holding)' : worker'[b][m].ix # j
            /\ \A m \in DOMAIN new : new[m].id = run'[b].ids[j + 1] => m = k
        BY <4>1, <4>2
      <4> QED
        BY <4>3, Zenon
    <3> QED
      BY <3>1
  <2>13. \A j \in 0 .. count'[b] - 1 : j < run'[b].cursor =>
           \/ \E m \in At(b, Holding)' : worker'[b][m].ix = j
           \/ \E k \in DOMAIN new : new[k].id = run'[b].ids[j + 1]
    BY <1>2, <2>1, <2>5, <2>8, <2>11
  <2> QED
    BY <2>9, <2>10, <2>11, <2>12, <2>13 DEF Claims
<1> QED
  BY <1>4, <1>5, <1>6, <1>7, <1>8, <1>9 DEF WorkerStep

LEMMA SucceededFinite ==
    ASSUME NEW s \in Seq(Results)
    PROVE IsFiniteSet(Succeeded(s)) /\ Cardinality(Succeeded(s)) \in Nat
<1>1. Succeeded(s) \subseteq 1 .. Len(s) /\ IsFiniteSet(1 .. Len(s))
  <2>1. Len(s) \in Nat /\ DOMAIN s = 1 .. Len(s)
    OBVIOUS
  <2> QED
    BY <2>1, FS_Interval DEF Succeeded
<1> QED
  BY <1>1, FS_Subset, FS_CardinalityType

LEMMA SucceededAppend ==
    ASSUME NEW s \in Seq(Results), NEW r \in Results
    PROVE /\ r.outcome = "Completed" => Cardinality(Succeeded(Append(s, r))) = Cardinality(Succeeded(s)) + 1
          /\ r.outcome # "Completed" => Cardinality(Succeeded(Append(s, r))) = Cardinality(Succeeded(s))
<1> DEFINE t == Append(s, r)
           last == Len(s) + 1
<1>1. /\ DOMAIN s = 1 .. Len(s) /\ Len(s) \in Nat
      /\ DOMAIN t = DOMAIN s \cup {last} /\ last \notin DOMAIN s
      /\ \A k \in DOMAIN s : t[k] = s[k]
      /\ t[last] = r
  OBVIOUS
<1> HIDE DEF t, last
<1>2. IsFiniteSet(Succeeded(s)) /\ Cardinality(Succeeded(s)) \in Nat
  BY SucceededFinite
<1>3. ASSUME r.outcome = "Completed" PROVE Cardinality(Succeeded(t)) = Cardinality(Succeeded(s)) + 1
  <2>1. Succeeded(t) = Succeeded(s) \cup {last} /\ last \notin Succeeded(s)
    BY <1>1, <1>3 DEF Succeeded
  <2> QED
    BY <1>2, <2>1, FS_AddElement
<1>4. ASSUME r.outcome # "Completed" PROVE Cardinality(Succeeded(t)) = Cardinality(Succeeded(s))
  <2>1. Succeeded(t) = Succeeded(s)
    BY <1>1, <1>4 DEF Succeeded
  <2> QED
    BY <2>1
<1> QED
  BY <1>3, <1>4 DEF t

\* how a step of worker l changes the successes still to be collected
LEMMA AboutMoved ==
    ASSUME NEW b \in Calls, NEW l \in Lanes,
           \A m \in Lanes : m # l => worker'[b][m] = worker[b][m]
    PROVE /\ Cardinality(AboutToSucceed(b)) \in Nat /\ Cardinality(AboutToSucceed(b)') \in Nat
          /\ Cardinality(AboutToSucceed(b)')
               = Cardinality(AboutToSucceed(b)) - In(l, AboutToSucceed(b)) + In(l, AboutToSucceed(b)')
<1>1. AboutToSucceed(b) \in SUBSET Lanes /\ AboutToSucceed(b)' \in SUBSET Lanes
  BY DEF AboutToSucceed, At
<1>2. /\ IsFiniteSet(AboutToSucceed(b)) /\ Cardinality(AboutToSucceed(b)) \in Nat
      /\ IsFiniteSet(AboutToSucceed(b)') /\ Cardinality(AboutToSucceed(b)') \in Nat
  BY <1>1, LanesAreFinite
<1>3. \A m \in Lanes : m # l => (m \in AboutToSucceed(b) <=> m \in AboutToSucceed(b)')
  BY DEF AboutToSucceed, At
<1>4. ASSUME l \notin AboutToSucceed(b), l \in AboutToSucceed(b)'
      PROVE Cardinality(AboutToSucceed(b)') = Cardinality(AboutToSucceed(b)) + 1
  <2>1. AboutToSucceed(b)' = AboutToSucceed(b) \cup {l}
    BY <1>1, <1>3, <1>4
  <2> QED
    BY <1>2, <1>4, <2>1, FS_AddElement
<1>5. ASSUME l \in AboutToSucceed(b), l \notin AboutToSucceed(b)'
      PROVE Cardinality(AboutToSucceed(b)') = Cardinality(AboutToSucceed(b)) - 1
  <2>1. AboutToSucceed(b)' = AboutToSucceed(b) \ {l}
    BY <1>1, <1>3, <1>5
  <2> QED
    BY <1>2, <1>5, <2>1, FS_RemoveElement
<1>6. ASSUME l \in AboutToSucceed(b) <=> l \in AboutToSucceed(b)'
      PROVE Cardinality(AboutToSucceed(b)') = Cardinality(AboutToSucceed(b))
  <2>1. AboutToSucceed(b)' = AboutToSucceed(b)
    BY <1>1, <1>3, <1>6
  <2> QED
    BY <2>1
<1> QED
  BY <1>2, <1>4, <1>5, <1>6 DEF In

\* every worker's step adds one to a counter and to what it counts, or to neither
LEMMA TalliesStep ==
    ASSUME BatchInv, NEW b \in Calls, NEW l \in Lanes, WorkerStep(b, l)
    PROVE Tallies(b)'
<1>1. /\ Typed /\ Len(run[b].ids) = count[b] /\ run[b].running \in Nat
      /\ worker[b][l].pc \in Holding => IdOf(b, l) \in Nat
      /\ Alone(b, l)
  BY WorkerReady
<1>2. /\ Tallies(b) /\ count[b] \in Nat /\ count'[b] = count[b] /\ RunTyped(run[b])
  BY WorkerContext
<1>3. /\ run[b].cursor \in Nat /\ run[b].results \in Seq(Results)
      /\ run[b].queued \in Int /\ run[b].completed \in Nat /\ run[b].failed \in Nat
  BY <1>2 DEF RunTyped
<1>4. \A m \in Lanes : m # l => worker'[b][m] = worker[b][m]
  BY <1>1 DEF Alone
<1> DEFINE h == Cardinality(At(b, Holding))
           c == Cardinality(At(b, Counted))
           x == Cardinality(At(b, {"exited"}))
           f == Cardinality(At(b, {"finished"}))
           a == Cardinality(AboutToSucceed(b))
           s == Cardinality(Succeeded(run[b].results))
           n == Len(run[b].results)
<1>5. /\ h \in Nat /\ h' \in Nat /\ c \in Nat /\ c' \in Nat /\ x \in Nat /\ x' \in Nat
      /\ f \in Nat /\ f' \in Nat /\ a \in Nat /\ a' \in Nat /\ s \in Nat /\ n \in Nat
  <2>1. /\ h \in Nat /\ h' \in Nat /\ c \in Nat /\ c' \in Nat /\ x \in Nat /\ x' \in Nat
        /\ f \in Nat /\ f' \in Nat
    BY <1>4, Moved
  <2>2. a \in Nat /\ a' \in Nat
    BY <1>4, AboutMoved
  <2>3. s \in Nat /\ n \in Nat
    BY <1>3, SucceededFinite
  <2> QED
    BY <2>1, <2>2, <2>3
<1>6. /\ run[b].queued = IF run[b].cursor <= count[b] THEN count[b] - run[b].cursor ELSE 0
      /\ run[b].running = c /\ run[b].cursor <= count[b] + x
      /\ n + h = IF run[b].cursor <= count[b] THEN run[b].cursor ELSE count[b]
      /\ run[b].completed = s + a /\ run[b].completed + run[b].failed = n + f
  BY <1>2 DEF Tallies
<1>7. ASSUME run'[b].queued = IF run'[b].cursor <= count[b] THEN count[b] - run'[b].cursor ELSE 0,
             run'[b].running = c', run'[b].cursor <= count[b] + x',
             n' + h' = IF run'[b].cursor <= count[b] THEN run'[b].cursor ELSE count[b],
             run'[b].completed = s' + a',
             run'[b].completed + run'[b].failed = n' + f'
      PROVE Tallies(b)'
  BY <1>2, <1>7 DEF Tallies
<1> DEFINE pc == worker[b][l].pc
           to == worker'[b][l].pc
<1>8. /\ h' = h - In(pc, Holding) + In(to, Holding) /\ c' = c - In(pc, Counted) + In(to, Counted)
      /\ x' = x - In(pc, {"exited"}) + In(to, {"exited"})
      /\ f' = f - In(pc, {"finished"}) + In(to, {"finished"})
  BY <1>4, Moved
<1>9. a' = a - In(l, AboutToSucceed(b)) + In(l, AboutToSucceed(b)')
  BY <1>4, AboutMoved
<1>10. /\ l \in AboutToSucceed(b) <=> pc = "finished" /\ worker[b][l].outcome = "Completed"
       /\ l \in AboutToSucceed(b)' <=> to = "finished" /\ worker'[b][l].outcome = "Completed"
  BY DEF AboutToSucceed, At
<1>11. run'[b].results = run[b].results => s' = s /\ n' = n
  OBVIOUS
<1> HIDE DEF h, c, x, f, a, s, n
<1>12. CASE Claim(b, l)
  <2>1. /\ run'[b].cursor = run[b].cursor + 1 /\ run'[b].running = run[b].running
        /\ run'[b].results = run[b].results
        /\ run'[b].completed = run[b].completed /\ run'[b].failed = run[b].failed
        /\ \/ /\ run[b].cursor < count[b] /\ pc = "claim" /\ to = "claimed"
              /\ run'[b].queued = run[b].queued - 1
           \/ /\ run[b].cursor >= count[b] /\ pc = "claim" /\ to = "exited"
              /\ run'[b].queued = run[b].queued
    BY <1>1, <1>12, ClaimEffect DEF Moves
  <2>2. c' = c /\ f' = f /\ a' = a /\ s' = s /\ n' = n
    BY <1>5, <1>8, <1>9, <1>10, <1>11, <2>1 DEF In, Counted
  <2>3. CASE run[b].cursor < count[b] /\ to = "claimed" /\ run'[b].queued = run[b].queued - 1
    <3>1. h' = h + 1 /\ x' = x
      BY <1>5, <1>8, <2>1, <2>3 DEF In, Holding
    <3>2. /\ run'[b].queued = IF run'[b].cursor <= count[b] THEN count[b] - run'[b].cursor ELSE 0
          /\ n' + h' = IF run'[b].cursor <= count[b] THEN run'[b].cursor ELSE count[b]
          /\ run'[b].cursor <= count[b] + x'
      <4>1. run'[b].queued = IF run'[b].cursor <= count[b] THEN count[b] - run'[b].cursor ELSE 0
        BY <1>2, <1>3, <1>6, <2>1, <2>3
      <4>2. n' + h' = IF run'[b].cursor <= count[b] THEN run'[b].cursor ELSE count[b]
        <5>1. n' = n /\ n \in Nat
          BY <1>5, <2>2
        <5>2. n + h = IF run[b].cursor <= count[b] THEN run[b].cursor ELSE count[b]
          BY <1>6
        <5>3. /\ h \in Nat /\ h' \in Nat /\ run[b].cursor \in Nat /\ count[b] \in Nat
              /\ run'[b].cursor = run[b].cursor + 1
          BY <1>2, <1>3, <1>5, <2>1
        <5> QED
          BY <2>3, <3>1, <5>1, <5>2, <5>3
      <4>3. run'[b].cursor <= count[b] + x'
        <5>1. /\ x \in Nat /\ x' \in Nat /\ run[b].cursor \in Nat /\ count[b] \in Nat
              /\ run'[b].cursor = run[b].cursor + 1 /\ run[b].cursor <= count[b] + x
          BY <1>2, <1>3, <1>5, <1>6, <2>1
        <5> QED
          BY <2>3, <3>1, <5>1
      <4> QED
        BY <4>1, <4>2, <4>3
    <3> QED
      BY <1>6, <1>7, <2>1, <2>2, <3>2
  <2>4. CASE run[b].cursor >= count[b] /\ to = "exited" /\ run'[b].queued = run[b].queued
    <3>1. h' = h /\ x' = x + 1
      BY <1>5, <1>8, <2>1, <2>4 DEF In, Holding
    <3>2. /\ run'[b].queued = IF run'[b].cursor <= count[b] THEN count[b] - run'[b].cursor ELSE 0
          /\ n' + h' = IF run'[b].cursor <= count[b] THEN run'[b].cursor ELSE count[b]
          /\ run'[b].cursor <= count[b] + x'
      <4>1. run'[b].queued = IF run'[b].cursor <= count[b] THEN count[b] - run'[b].cursor ELSE 0
        BY <1>2, <1>3, <1>6, <2>1, <2>4
      <4>2. n' + h' = IF run'[b].cursor <= count[b] THEN run'[b].cursor ELSE count[b]
        <5>1. n' = n /\ n \in Nat
          BY <1>5, <2>2
        <5>2. n + h = IF run[b].cursor <= count[b] THEN run[b].cursor ELSE count[b]
          BY <1>6
        <5>3. /\ h \in Nat /\ h' \in Nat /\ run[b].cursor \in Nat /\ count[b] \in Nat
              /\ run'[b].cursor = run[b].cursor + 1
          BY <1>2, <1>3, <1>5, <2>1
        <5> QED
          BY <2>4, <3>1, <5>1, <5>2, <5>3
      <4>3. run'[b].cursor <= count[b] + x'
        <5>1. /\ x \in Nat /\ x' \in Nat /\ run[b].cursor \in Nat /\ count[b] \in Nat
              /\ run'[b].cursor = run[b].cursor + 1 /\ run[b].cursor <= count[b] + x
          BY <1>2, <1>3, <1>5, <1>6, <2>1
        <5> QED
          BY <2>4, <3>1, <5>1
      <4> QED
        BY <4>1, <4>2, <4>3
    <3> QED
      BY <1>6, <1>7, <2>1, <2>2, <3>2
  <2> QED
    BY <2>1, <2>3, <2>4
<1>13. CASE CountRunning(b, l)
  <2>1. /\ SameCounts(b) /\ pc = "claimed" /\ to = "counted" /\ run'[b].running = run[b].running + 1
    BY <1>1, <1>13, CountRunningEffect DEF Moves
  <2>2. h' = h /\ c' = c + 1 /\ x' = x /\ f' = f /\ a' = a /\ s' = s /\ n' = n
    BY <1>5, <1>8, <1>9, <1>10, <1>11, <2>1 DEF In, Holding, Counted, SameCounts
  <2> QED
    BY <1>2, <1>3, <1>5, <1>6, <1>7, <2>1, <2>2 DEF SameCounts
<1>14. CASE Start(b, l)
  <2>1. SameCounts(b) /\ pc = "counted" /\ to = "task" /\ run'[b].running = run[b].running
    BY <1>1, <1>14, StartEffect DEF Moves, Start, WGoto, Holding
  <2>2. h' = h /\ c' = c /\ x' = x /\ f' = f /\ a' = a /\ s' = s /\ n' = n
    BY <1>5, <1>8, <1>9, <1>10, <1>11, <2>1 DEF In, Holding, Counted, SameCounts
  <2> QED
    BY <1>2, <1>3, <1>5, <1>6, <1>7, <2>1, <2>2 DEF SameCounts
<1>15. CASE EndTask(b, l)
  <2>1. /\ run'[b].running = run[b].running /\ run'[b].cursor = run[b].cursor
        /\ run'[b].queued = run[b].queued /\ run'[b].results = run[b].results
        /\ pc = "task" /\ to = "finished"
        /\ \/ /\ worker'[b][l].outcome = "Completed"
              /\ run'[b].completed = run[b].completed + 1 /\ run'[b].failed = run[b].failed
           \/ /\ worker'[b][l].outcome # "Completed"
              /\ run'[b].completed = run[b].completed /\ run'[b].failed = run[b].failed + 1
    <3>1. IdOf(b, l) \in Nat
      BY <1>1, <1>15 DEF EndTask, Holding
    <3>2. /\ run'[b].running = run[b].running /\ run'[b].cursor = run[b].cursor
          /\ run'[b].queued = run[b].queued /\ run'[b].results = run[b].results
          /\ Moves(b, l, "task", "finished")
      BY <1>1, <1>15, <3>1, EndTaskEffect
    <3>3. \/ /\ worker'[b][l].outcome = "Completed"
             /\ run'[b].completed = run[b].completed + 1 /\ run'[b].failed = run[b].failed
          \/ /\ worker'[b][l].outcome # "Completed"
             /\ run'[b].completed = run[b].completed /\ run'[b].failed = run[b].failed + 1
      BY <1>1, <1>15, <3>1, EndTaskEffect
    <3> QED
      BY <3>2, <3>3 DEF Moves
  <2>2. h' = h /\ c' = c /\ x' = x /\ f' = f + 1 /\ s' = s /\ n' = n
    BY <1>5, <1>8, <1>11, <2>1 DEF In, Holding, Counted
  <2>3. \/ a' = a + 1 /\ run'[b].completed = run[b].completed + 1 /\ run'[b].failed = run[b].failed
        \/ a' = a /\ run'[b].completed = run[b].completed /\ run'[b].failed = run[b].failed + 1
    BY <1>5, <1>9, <1>10, <2>1 DEF In
  <2>4. run'[b].completed = s' + a' /\ run'[b].completed + run'[b].failed = n' + f'
    <3>1. n' = n
      BY <2>2
    <3>2. run'[b].completed + run'[b].failed = run[b].completed + run[b].failed + 1
      BY <1>3, <2>3
    <3>3. run'[b].completed = s' + a'
      BY <1>3, <1>5, <1>6, <2>2, <2>3
    <3>4. /\ run[b].completed + run[b].failed = n + f
          /\ f \in Nat /\ n \in Nat /\ f' = f + 1
      BY <1>3, <1>5, <1>6, <2>2
    <3> QED
      BY <3>1, <3>2, <3>3, <3>4
  <2> QED
    BY <1>6, <1>7, <2>1, <2>2, <2>4
<1>16. CASE PanicTask(b, l)
  <2>1. SameCounts(b) /\ pc = "task" /\ to = "panicked" /\ run'[b].running = run[b].running
    BY <1>1, <1>16, PanicTaskEffect DEF Moves
  <2>2. h' = h /\ c' = c /\ x' = x /\ f' = f /\ a' = a /\ s' = s /\ n' = n
    BY <1>5, <1>8, <1>9, <1>10, <1>11, <2>1 DEF In, Holding, Counted, SameCounts
  <2> QED
    BY <1>2, <1>3, <1>5, <1>6, <1>7, <2>1, <2>2 DEF SameCounts
<1>17. CASE ReleaseLane(b, l)
  <2>1. /\ run'[b].running = run[b].running - 1 /\ run'[b].cursor = run[b].cursor
        /\ run'[b].queued = run[b].queued
        /\ run'[b].completed = run[b].completed /\ run'[b].failed = run[b].failed
        /\ pc = "finished" /\ to = "claim"
        /\ \E r \in Results : r.outcome = worker[b][l].outcome /\ run'[b].results = Append(run[b].results, r)
    <3>1. IdOf(b, l) \in Nat
      BY <1>1, <1>17 DEF ReleaseLane, WGoto, Holding
    <3>2. /\ run'[b].running = run[b].running - 1 /\ run'[b].cursor = run[b].cursor
          /\ run'[b].queued = run[b].queued
          /\ run'[b].completed = run[b].completed /\ run'[b].failed = run[b].failed
          /\ Moves(b, l, "finished", "claim")
      BY <1>1, <1>17, <3>1, ReleaseLaneEffect
    <3>3. \E r \in Results : /\ r.id = IdOf(b, l) /\ r.outcome = worker[b][l].outcome
                             /\ run'[b].results = Append(run[b].results, r)
      BY <1>1, <1>17, <3>1, ReleaseLaneEffect
    <3> QED
      BY <3>2, <3>3 DEF Moves
  <2>2. PICK r \in Results : r.outcome = worker[b][l].outcome /\ run'[b].results = Append(run[b].results, r)
    BY <2>1
  <2>3. h' = h - 1 /\ c' = c - 1 /\ x' = x /\ f' = f - 1
    BY <1>5, <1>8, <2>1 DEF In, Holding, Counted
  <2>4. n' = n + 1
    BY <1>3, <2>2 DEF n
  <2>5. s' + a' = s + a
    <3>1. /\ r.outcome = "Completed" => s' = s + 1
          /\ r.outcome # "Completed" => s' = s
      BY <1>3, <2>2, SucceededAppend DEF s
    <3>2. a' = a - In(l, AboutToSucceed(b)) /\ (l \in AboutToSucceed(b) <=> r.outcome = "Completed")
      BY <1>5, <1>9, <1>10, <2>1, <2>2 DEF In
    <3> QED
      BY <1>5, <3>1, <3>2 DEF In
  <2> QED
    BY <1>2, <1>3, <1>5, <1>6, <1>7, <2>1, <2>3, <2>4, <2>5
<1> QED
  BY <1>12, <1>13, <1>14, <1>15, <1>16, <1>17 DEF WorkerStep

(***************************************************************************)
(* The concurrency the event log shows.                                    *)
(***************************************************************************)
LEMMA ConcurrencyInt == ASSUME NEW s, NEW n \in Nat PROVE Concurrency(s, n) \in Int
<1> DEFINE up == {i \in 1 .. n : s[i].kind = "Started"}
           down == {i \in 1 .. n : s[i].kind \in {"Completed", "Failed"}}
<1>1. up \subseteq 1 .. n /\ down \subseteq 1 .. n /\ IsFiniteSet(1 .. n)
  BY FS_Interval
<1>2. Concurrency(s, n) = Cardinality(up) - Cardinality(down)
  BY DEF Concurrency
<1> HIDE DEF up, down
<1>3. Cardinality(up) \in Nat /\ Cardinality(down) \in Nat
  BY <1>1, FS_Subset, FS_CardinalityType
<1> QED
  BY <1>2, <1>3

LEMMA ConcurrencyAppend ==
    ASSUME NEW s \in Seq(Events), NEW e \in Events
    PROVE /\ Len(Append(s, e)) = Len(s) + 1 /\ Len(s) \in Nat
          /\ \A n \in 1 .. Len(s) : Concurrency(Append(s, e), n) = Concurrency(s, n)
          /\ e.kind = "Started" =>
               Concurrency(Append(s, e), Len(s) + 1) = Concurrency(s, Len(s)) + 1
          /\ e.kind \in {"Completed", "Failed"} =>
               Concurrency(Append(s, e), Len(s) + 1) = Concurrency(s, Len(s)) - 1
<1> DEFINE t == Append(s, e)
           last == Len(s) + 1
           Up(q, n) == {i \in 1 .. n : q[i].kind = "Started"}
           Down(q, n) == {i \in 1 .. n : q[i].kind \in {"Completed", "Failed"}}
<1>1. /\ Len(s) \in Nat /\ Len(t) = last /\ last \notin 1 .. Len(s)
      /\ 1 .. last = (1 .. Len(s)) \cup {last}
      /\ \A i \in 1 .. Len(s) : t[i] = s[i]
      /\ t[last] = e
  OBVIOUS
<1>2. \A q, n : Concurrency(q, n) = Cardinality(Up(q, n)) - Cardinality(Down(q, n))
  BY DEF Concurrency
<1> HIDE DEF t, last
<1>3. ASSUME NEW n \in 1 .. Len(s) PROVE Concurrency(t, n) = Concurrency(s, n)
  <2>1. Up(t, n) = Up(s, n) /\ Down(t, n) = Down(s, n)
    BY <1>1
  <2> QED
    BY <1>2, <2>1
<1> DEFINE up == Up(s, Len(s))
           down == Down(s, Len(s))
<1>4. /\ IsFiniteSet(up) /\ Cardinality(up) \in Nat /\ last \notin up
      /\ IsFiniteSet(down) /\ Cardinality(down) \in Nat /\ last \notin down
  <2>1. up \subseteq 1 .. Len(s) /\ down \subseteq 1 .. Len(s)
    OBVIOUS
  <2>2. IsFiniteSet(1 .. Len(s))
    BY <1>1, FS_Interval
  <2> QED
    BY <1>1, <2>1, <2>2, FS_Subset, FS_CardinalityType
<1>5. Concurrency(s, Len(s)) = Cardinality(up) - Cardinality(down)
  BY <1>2
<1>6. ASSUME e.kind = "Started" PROVE Concurrency(t, last) = Concurrency(s, Len(s)) + 1
  <2>1. Up(t, last) = up \cup {last} /\ Down(t, last) = down
    BY <1>1, <1>6
  <2> HIDE DEF Up, Down, up, down
  <2>2. Cardinality(Up(t, last)) = Cardinality(up) + 1 /\ Cardinality(Down(t, last)) = Cardinality(down)
    BY <1>4, <2>1, FS_AddElement
  <2> QED
    BY <1>2, <1>4, <1>5, <2>2
<1>7. ASSUME e.kind \in {"Completed", "Failed"} PROVE Concurrency(t, last) = Concurrency(s, Len(s)) - 1
  <2>1. Up(t, last) = up /\ Down(t, last) = down \cup {last}
    BY <1>1, <1>7
  <2> HIDE DEF Up, Down, up, down
  <2>2. Cardinality(Up(t, last)) = Cardinality(up) /\ Cardinality(Down(t, last)) = Cardinality(down) + 1
    BY <1>4, <2>1, FS_AddElement
  <2> QED
    BY <1>2, <1>4, <1>5, <2>2
<1> HIDE DEF Up, Down, up, down
<1> QED
  BY <1>1, <1>3, <1>6, <1>7 DEF t, last

\* the workers in a task are within the peak once it is raised
LEMMA InTaskWithinPeak ==
    ASSUME NEW b \in Calls, Ranked(b)', InPeak(b)', run'[b].peak_active \in Nat,
           \A m \in Lanes : worker'[b][m].seen \in Nat
    PROVE Cardinality(At(b, {"task", "panicked"})') <= run'[b].peak_active
<1> DEFINE S == At(b, {"task", "panicked"})'
<1>1. /\ S \in SUBSET (At(b, Counted)') /\ S \in SUBSET (At(b, {"task", "finished", "panicked"})')
      /\ S \in SUBSET Lanes
  BY DEF At, Counted
<1>2. Cardinality(S) \in Nat /\ Cardinality({}) = 0
  BY <1>1, LanesAreFinite, FS_EmptySet
<1> SUFFICES Cardinality(S) <= run'[b].peak_active
  OBVIOUS
<1> HIDE DEF S
<1>3. CASE S = {}
  <2>1. Cardinality(S) = 0
    BY <1>2, <1>3, Zenon
  <2> QED
    BY <2>1
<1>4. CASE S # {}
  <2>1. PICK m \in S : worker'[b][m].seen >= Cardinality(S)
    BY <1>1, <1>4 DEF Ranked
  <2>2. worker'[b][m].seen <= run'[b].peak_active /\ worker'[b][m].seen \in Nat
    BY <1>1 DEF InPeak
  <2> DEFINE seen == worker'[b][m].seen
             size == Cardinality(S)
             peak == run'[b].peak_active
  <2>3. seen >= size /\ seen <= peak /\ seen \in Nat /\ size \in Nat /\ peak \in Nat
    BY <1>2, <2>1, <2>2
  <2> HIDE DEF seen, size, peak
  <2>4. size <= peak
    BY <2>3
  <2> QED
    BY <2>4 DEF size, peak
<1> QED
  BY <1>3, <1>4

LEMMA PeaksStep ==
    ASSUME BatchInv, NEW b \in Calls, NEW l \in Lanes, WorkerStep(b, l)
    PROVE Peaks(b)'
<1>1. /\ Typed /\ Len(run[b].ids) = count[b] /\ run[b].running \in Nat
      /\ worker[b][l].pc \in Holding => IdOf(b, l) \in Nat
      /\ Alone(b, l)
  BY WorkerReady
<1>2. /\ Tallies(b) /\ Peaks(b) /\ RunTyped(run[b])
  BY WorkerContext
<1>3. /\ run[b].events \in Seq(Events) /\ run[b].peak_active \in Nat /\ run'[b].peak_active \in Nat
      /\ \A m \in Lanes : worker[b][m].seen \in Nat /\ worker'[b][m].seen \in Nat
      /\ LaneCount \in Nat
  BY <1>1, <1>2, BatchLanesAssumption DEF RunTyped, Typed, Alone, WorkerTyped
<1>4. \A m \in Lanes : m # l => worker'[b][m] = worker[b][m]
  BY <1>1 DEF Alone
<1> DEFINE pc == worker[b][l].pc
           to == worker'[b][l].pc
           inTask == Cardinality(At(b, {"task", "panicked"}))
<1>5. inTask \in Nat /\ inTask' \in Nat
      /\ inTask' = inTask - In(pc, {"task", "panicked"}) + In(to, {"task", "panicked"})
  BY <1>4, Moved
\* a step that neither counts a worker as running nor adds to the log
<1>6. ASSUME At(b, Counted)' \subseteq At(b, Counted), SamePeak(b),
             At(b, {"task", "finished", "panicked"})' \subseteq At(b, {"task", "finished", "panicked"}),
             \A m \in At(b, Counted) : worker'[b][m].seen = worker[b][m].seen,
             In(pc, {"task", "panicked"}) = In(to, {"task", "panicked"})
      PROVE Peaks(b)'
  <2>1. Ranked(b)'
    BY <1>2, <1>6 DEF Peaks, Ranked
  <2>2. At(b, {"task", "finished", "panicked"}) \subseteq At(b, Counted)
    BY DEF At, Counted
  <2>3. InPeak(b)' /\ \A m \in At(b, Counted)' : worker'[b][m].seen <= LaneCount
    BY <1>2, <1>6, <2>2 DEF Peaks, InPeak, SamePeak
  <2>4. inTask' = inTask
    BY <1>5, <1>6 DEF In
  <2>5. /\ run'[b].peak_active <= LaneCount
        /\ Concurrency(run'[b].events, Len(run'[b].events)) = inTask
        /\ \A n \in DOMAIN run'[b].events : Concurrency(run'[b].events, n) <= run'[b].peak_active
    BY <1>2, <1>6 DEF Peaks, SamePeak
  <2> QED
    BY <2>1, <2>3, <2>4, <2>5 DEF Peaks
\* a step that logs one event
<1>7. ASSUME Ranked(b)', InPeak(b)', \A m \in At(b, Counted)' : worker'[b][m].seen <= LaneCount,
             run'[b].peak_active >= run[b].peak_active, run'[b].peak_active <= LaneCount,
             NEW e \in Events, run'[b].events = Append(run[b].events, e),
             Concurrency(run'[b].events, Len(run[b].events) + 1) = inTask'
      PROVE Peaks(b)'
  <2> DEFINE old == run[b].events
             new == run'[b].events
             peak == run'[b].peak_active
  <2>1. /\ Len(new) = Len(old) + 1 /\ Len(old) \in Nat
        /\ \A n \in 1 .. Len(old) : Concurrency(new, n) = Concurrency(old, n)
    BY <1>3, <1>7, ConcurrencyAppend
  <2>2. DOMAIN new = 1 .. Len(new) /\ DOMAIN old = 1 .. Len(old)
    BY <1>3, <1>7
  <2>3. inTask' <= peak
    BY <1>3, <1>7, InTaskWithinPeak
  <2>4. \A n \in 1 .. Len(old) : Concurrency(old, n) <= run[b].peak_active
    BY <1>2, <2>2 DEF Peaks
  <2> HIDE DEF old, new, peak
  <2>5. ASSUME NEW n \in DOMAIN new PROVE Concurrency(new, n) <= peak
    <3>1. CASE n \in 1 .. Len(old)
      <4>1. Concurrency(new, n) \in Int /\ Concurrency(new, n) <= run[b].peak_active
        <5>1. n \in Nat /\ Concurrency(new, n) = Concurrency(old, n)
          BY <2>1, <3>1
        <5> QED
          BY <2>4, <3>1, <5>1, ConcurrencyInt
      <4> QED
        BY <1>3, <1>7, <4>1 DEF peak
    <3>2. CASE n = Len(old) + 1
      BY <1>7, <2>3, <3>2 DEF new, old
    <3> QED
      BY <2>1, <2>2, <3>1, <3>2
  <2> QED
    BY <1>7, <2>1, <2>5 DEF Peaks, old, new, peak
<1>8. CASE Claim(b, l)
  <2>1. SamePeak(b) /\ pc = "claim" /\ to \in {"claimed", "exited"}
    BY <1>1, <1>8, ClaimEffect DEF Moves
  <2>2. /\ \A m \in At(b, Counted) : m # l
        /\ At(b, Counted)' = At(b, Counted)
        /\ At(b, {"task", "finished", "panicked"})' = At(b, {"task", "finished", "panicked"})
    BY <1>4, <2>1 DEF At, Counted
  <2>3. \A m \in At(b, Counted) : worker'[b][m].seen = worker[b][m].seen
    BY <1>4, <2>2 DEF At
  <2> QED
    BY <1>6, <2>1, <2>2, <2>3 DEF In
<1>9. CASE CountRunning(b, l)
  <2>1. SamePeak(b) /\ pc = "claimed" /\ to = "counted" /\ worker'[b][l].seen = run[b].running + 1
    BY <1>1, <1>9, CountRunningEffect DEF Moves
  <2>2. /\ At(b, Counted)' = At(b, Counted) \cup {l} /\ l \notin At(b, Counted)
        /\ At(b, {"task", "finished", "panicked"})' = At(b, {"task", "finished", "panicked"})
        /\ l \notin At(b, {"task", "finished", "panicked"})
    BY <1>4, <2>1 DEF At, Counted
  <2>3. /\ Cardinality(At(b, Counted)') = Cardinality(At(b, Counted)) + 1
        /\ Cardinality(At(b, Counted)') <= LaneCount /\ Cardinality(At(b, Counted)) \in Nat
    BY <1>4, <2>1, Moved DEF In, Counted
  <2>4. worker'[b][l].seen = Cardinality(At(b, Counted)')
    BY <1>2, <2>1, <2>3 DEF Tallies
  <2>5. ASSUME NEW S \in SUBSET (At(b, Counted)'), S # {}
        PROVE \E m \in S : worker'[b][m].seen >= Cardinality(S)
    <3>1. CASE l \in S
      <4>1. At(b, Counted)' \in SUBSET Lanes
        BY DEF At
      <4>2. Cardinality(S) <= Cardinality(At(b, Counted)')
        BY <4>1, <2>5, LanesAreFinite, FS_Subset
      <4>3. Cardinality(S) \in Nat /\ Cardinality(At(b, Counted)') \in Nat
        BY <4>1, <2>5, LanesAreFinite
      <4> QED
        BY <2>4, <3>1, <4>2, <4>3
    <3>2. CASE l \notin S
      <4>1. S \in SUBSET At(b, Counted) /\ \A m \in S : m \in Lanes /\ m # l
        BY <2>2, <2>5, <3>2 DEF At
      <4>2. PICK m \in S : worker[b][m].seen >= Cardinality(S)
        BY <1>2, <2>5, <4>1 DEF Peaks, Ranked
      <4> QED
        BY <1>4, <4>1, <4>2
    <3> QED
      BY <3>1, <3>2
  <2>6. Ranked(b)'
    BY <2>5 DEF Ranked
  <2>7. /\ \A m \in At(b, Counted) : worker'[b][m].seen = worker[b][m].seen
        /\ \A m \in At(b, {"task", "finished", "panicked"}) : worker'[b][m].seen = worker[b][m].seen
    BY <1>4, <2>2 DEF At
  <2>8. InPeak(b)'
    BY <1>2, <2>1, <2>2, <2>7 DEF Peaks, InPeak, SamePeak
  <2>9. \A m \in At(b, Counted)' : worker'[b][m].seen <= LaneCount
    BY <1>2, <2>2, <2>3, <2>4, <2>7 DEF Peaks
  <2>10. inTask' = inTask
    BY <1>5, <2>1 DEF In
  <2>11. /\ run'[b].peak_active <= LaneCount
         /\ Concurrency(run'[b].events, Len(run'[b].events)) = inTask
         /\ \A n \in DOMAIN run'[b].events : Concurrency(run'[b].events, n) <= run'[b].peak_active
    BY <1>2, <2>1 DEF Peaks, SamePeak
  <2> QED
    BY <2>6, <2>8, <2>9, <2>10, <2>11 DEF Peaks
<1>10. CASE Start(b, l)
  <2>1. /\ pc = "counted" /\ to = "task" /\ worker'[b][l].seen = worker[b][l].seen
        /\ run'[b].peak_active = IF worker[b][l].seen > run[b].peak_active
                                 THEN worker[b][l].seen ELSE run[b].peak_active
        /\ \E e \in Events : e.kind = "Started" /\ run'[b].events = Append(run[b].events, e)
    BY <1>1, <1>10, StartEffect DEF Moves, Keeps, Start, WGoto, Holding
  <2>2. PICK e \in Events : e.kind = "Started" /\ run'[b].events = Append(run[b].events, e)
    BY <2>1
  <2>3. \A m \in Lanes : worker'[b][m].seen = worker[b][m].seen
    BY <1>4, <2>1
  <2>4. /\ At(b, Counted)' = At(b, Counted) /\ l \in At(b, Counted)
        /\ At(b, {"task", "finished", "panicked"})' = At(b, {"task", "finished", "panicked"}) \cup {l}
    BY <1>4, <2>1 DEF At, Counted
  <2>5. \A m \in At(b, Counted) : m \in Lanes
    BY DEF At
  <2>6. Ranked(b)'
    BY <1>2, <2>3, <2>4, <2>5 DEF Peaks, Ranked
  <2>7. \A m \in At(b, Counted)' : worker'[b][m].seen <= LaneCount
    BY <1>2, <2>3, <2>4, <2>5 DEF Peaks
  <2>8. /\ run'[b].peak_active >= run[b].peak_active /\ run'[b].peak_active >= worker[b][l].seen
        /\ run'[b].peak_active <= LaneCount
    <3>1. run[b].peak_active <= LaneCount /\ worker[b][l].seen <= LaneCount
      BY <1>2, <2>4 DEF Peaks
    <3> QED
      BY <1>3, <2>1, <3>1
  <2>9. InPeak(b)'
    <3>1. \A m \in At(b, {"task", "finished", "panicked"}) :
             m \in Lanes /\ worker[b][m].seen <= run[b].peak_active
      BY <1>2 DEF Peaks, InPeak, At
    <3>2. \A m \in At(b, {"task", "finished", "panicked"}) :
             worker'[b][m].seen <= run'[b].peak_active
      BY <1>3, <2>3, <2>8, <3>1
    <3>3. worker'[b][l].seen <= run'[b].peak_active
      BY <1>3, <2>3, <2>8
    <3> QED
      BY <2>4, <3>2, <3>3 DEF InPeak
  <2>10. Concurrency(run'[b].events, Len(run[b].events) + 1) = inTask'
    <3>1. inTask' = inTask + 1
      BY <1>5, <2>1 DEF In
    <3>2. Concurrency(run[b].events, Len(run[b].events)) = inTask
      BY <1>2 DEF Peaks
    <3>3. Concurrency(run'[b].events, Len(run[b].events) + 1)
            = Concurrency(run[b].events, Len(run[b].events)) + 1
      BY <1>3, <2>2, ConcurrencyAppend
    <3> QED
      BY <3>1, <3>2, <3>3
  <2> QED
    BY <1>7, <2>2, <2>6, <2>7, <2>8, <2>9, <2>10
<1>11. CASE EndTask(b, l)
  <2>1. /\ pc = "task" /\ to = "finished" /\ worker'[b][l].seen = worker[b][l].seen
        /\ run'[b].peak_active = run[b].peak_active
        /\ \E e \in Events : /\ e.kind \in {"Completed", "Failed"}
                             /\ run'[b].events = Append(run[b].events, e)
    <3>1. IdOf(b, l) \in Nat
      BY <1>1, <1>11 DEF EndTask, Holding
    <3>2. /\ Moves(b, l, "task", "finished") /\ Keeps(b, l)
          /\ run'[b].peak_active = run[b].peak_active
      BY <1>1, <1>11, <3>1, EndTaskEffect
    <3>3. \E e \in Events : /\ e.kind \in {"Completed", "Failed"}
                             /\ run'[b].events = Append(run[b].events, e)
      BY <1>1, <1>11, <3>1, EndTaskEffect
    <3> QED
      BY <3>2, <3>3 DEF Moves, Keeps
  <2>2. PICK e \in Events : /\ e.kind \in {"Completed", "Failed"}
                            /\ run'[b].events = Append(run[b].events, e)
    BY <2>1
  <2>3. \A m \in Lanes : worker'[b][m].seen = worker[b][m].seen
    BY <1>4, <2>1
  <2>4. /\ At(b, Counted)' = At(b, Counted)
        /\ At(b, {"task", "finished", "panicked"})' = At(b, {"task", "finished", "panicked"})
    BY <1>4, <2>1 DEF At, Counted
  <2>5. /\ \A m \in At(b, Counted) : m \in Lanes
        /\ \A m \in At(b, {"task", "finished", "panicked"}) : m \in Lanes
    BY DEF At
  <2>6. Ranked(b)' /\ \A m \in At(b, Counted)' : worker'[b][m].seen <= LaneCount
    BY <1>2, <2>3, <2>4, <2>5 DEF Peaks, Ranked
  <2>7. InPeak(b)'
    BY <1>2, <2>1, <2>3, <2>4, <2>5 DEF Peaks, InPeak
  <2>8. run'[b].peak_active >= run[b].peak_active /\ run'[b].peak_active <= LaneCount
    BY <1>2, <1>3, <2>1 DEF Peaks
  <2>9. Concurrency(run'[b].events, Len(run[b].events) + 1) = inTask'
    <3>1. inTask' = inTask - 1
      BY <1>5, <2>1 DEF In
    <3>2. Concurrency(run[b].events, Len(run[b].events)) = inTask
      BY <1>2 DEF Peaks
    <3>3. Concurrency(run'[b].events, Len(run[b].events) + 1)
            = Concurrency(run[b].events, Len(run[b].events)) - 1
      BY <1>3, <2>2, ConcurrencyAppend
    <3> QED
      BY <3>1, <3>2, <3>3
  <2> QED
    BY <1>7, <2>2, <2>6, <2>7, <2>8, <2>9
<1>12. CASE PanicTask(b, l)
  <2>1. SamePeak(b) /\ pc = "task" /\ to = "panicked" /\ worker'[b][l].seen = worker[b][l].seen
    BY <1>1, <1>12, PanicTaskEffect DEF Moves, Keeps
  <2>2. /\ At(b, Counted)' = At(b, Counted)
        /\ At(b, {"task", "finished", "panicked"})' = At(b, {"task", "finished", "panicked"})
    BY <1>4, <2>1 DEF At, Counted
  <2>3. \A m \in At(b, Counted) : worker'[b][m].seen = worker[b][m].seen
    BY <1>4, <2>1 DEF At
  <2> QED
    BY <1>6, <2>1, <2>2, <2>3 DEF In
<1>13. CASE ReleaseLane(b, l)
  <2>1. SamePeak(b) /\ pc = "finished" /\ to = "claim" /\ worker'[b][l].seen = worker[b][l].seen
    BY <1>1, <1>13, ReleaseLaneEffect DEF Moves, Keeps, ReleaseLane, WGoto, Holding
  <2>2. /\ At(b, Counted)' \subseteq At(b, Counted)
        /\ At(b, {"task", "finished", "panicked"})' \subseteq At(b, {"task", "finished", "panicked"})
    BY <1>4, <2>1 DEF At, Counted
  <2>3. \A m \in At(b, Counted) : worker'[b][m].seen = worker[b][m].seen
    BY <1>4, <2>1 DEF At
  <2> QED
    BY <1>6, <2>1, <2>2, <2>3 DEF In
<1> QED
  BY <1>8, <1>9, <1>10, <1>11, <1>12, <1>13 DEF WorkerStep

LEMMA WorkingStep == ASSUME BatchInv, Next PROVE Working'
<1>t. Typed /\ Locked /\ Working
  BY DEF BatchInv
<1>0. ASSUME NEW c \in Calls, bpc[c] = "spawned",
             run'[c] = run[c], worker'[c] = worker[c], count'[c] = count[c]
      PROVE Claims(c)' /\ Tallies(c)' /\ Peaks(c)'
  BY <1>t, <1>0, Untouched DEF Working
<1> SUFFICES ASSUME NEW c \in Calls, bpc'[c] = "spawned"
             PROVE Claims(c)' /\ Tallies(c)' /\ Peaks(c)'
  BY DEF Working
<1>1. CASE RunOneTakesId
  BY <1>0, <1>1 DEF RunOneTakesId
<1>2. ASSUME NEW b \in Calls, Call(b) PROVE Claims(c)' /\ Tallies(c)' /\ Peaks(c)'
  <2>1. PICK n \in Counts[b] : /\ count' = [count EXCEPT ![b] = n]
                              /\ bpc' = [bpc EXCEPT ![b] = IF n = 0 THEN "refused" ELSE "lock"]
    BY <1>2 DEF Call
  <2>2. c # b /\ bpc[c] = "spawned" /\ count'[c] = count[c]
    BY <1>t, <2>1 DEF Typed
  <2> QED
    BY <1>0, <1>2, <2>2 DEF Call
<1>3. ASSUME NEW b \in Calls, LockRun(b) PROVE Claims(c)' /\ Tallies(c)' /\ Peaks(c)'
  <2>1. c # b /\ bpc[c] = "spawned" /\ count' = count /\ worker' = worker
    BY <1>t, <1>3 DEF LockRun, Typed
  <2>2. run'[c] = run[c]
    BY <1>t, <1>3, <2>1, LockRunEffect
  <2> QED
    BY <1>0, <2>1, <2>2
<1>4. ASSUME NEW b \in Calls, ReserveId(b) PROVE Claims(c)' /\ Tallies(c)' /\ Peaks(c)'
  <2>1. c # b /\ bpc[c] = "spawned" /\ count' = count /\ worker' = worker
    BY <1>4 DEF ReserveId
  <2>2. run'[c] = run[c]
    BY <1>t, <1>4, <2>1, ReserveIdEffect
  <2> QED
    BY <1>0, <2>1, <2>2
<1>5. ASSUME NEW b \in Calls, Spawn(b) PROVE Claims(c)' /\ Tallies(c)' /\ Peaks(c)'
  <2>1. CASE c = b
    BY <1>5, <2>1, SpawnStarts
  <2>2. CASE c # b
    <3>1. bpc[c] = "spawned" /\ count' = count
      BY <1>t, <1>5, <2>2 DEF Spawn, Typed
    <3>2. run'[c] = run[c] /\ worker'[c] = worker[c]
      BY <1>t, <1>5, <2>2, SpawnEffect
    <3> QED
      BY <1>0, <3>1, <3>2
  <2> QED
    BY <2>1, <2>2
<1>6. ASSUME NEW b \in Calls, Join(b) PROVE Claims(c)' /\ Tallies(c)' /\ Peaks(c)'
  <2>1. bpc[c] = "spawned" /\ UNCHANGED <<count, run, worker>>
    BY <1>t, <1>6 DEF Join, Typed
  <2> QED
    BY <1>0, <2>1
<1>7. ASSUME NEW b \in Calls, NEW l \in Lanes, WorkerStep(b, l)
      PROVE Claims(c)' /\ Tallies(c)' /\ Peaks(c)'
  <2>1. CASE c = b
    BY <1>7, <2>1, ClaimsStep, TalliesStep, PeaksStep
  <2>2. CASE c # b
    <3>1. Alone(b, l)
      BY <1>7, WorkerReady
    <3> QED
      BY <1>0, <2>2, <3>1 DEF Alone
  <2> QED
    BY <2>1, <2>2
<1> QED
  BY <1>1, <1>2, <1>3, <1>4, <1>5, <1>6, <1>7 DEF Next, CallStep

LEMMA UnaskedStep == ASSUME BatchInv, Next PROVE Unasked'
<1>t. Typed /\ Unasked
  BY DEF BatchInv
<1>1. ASSUME NEW b \in Calls, Call(b) PROVE Unasked'
  <2>1. PICK n \in Counts[b] : /\ count' = [count EXCEPT ![b] = n]
                              /\ bpc' = [bpc EXCEPT ![b] = IF n = 0 THEN "refused" ELSE "lock"]
    BY <1>1 DEF Call
  <2> QED
    BY <1>t, <2>1 DEF Typed, Unasked
<1>2. ASSUME NEW b \in Calls, CallStep(b) PROVE Unasked'
  BY <1>t, <1>2 DEF CallStep, LockRun, ReserveId, Spawn, Join, Typed, Unasked
<1>3. ASSUME NEW b \in Calls, NEW l \in Lanes, WorkerStep(b, l) PROVE Unasked'
  BY <1>t, <1>3, WorkerReady DEF Alone, Unasked
<1>4. CASE RunOneTakesId
  BY <1>t, <1>4 DEF RunOneTakesId, Unasked
<1> QED
  BY <1>1, <1>2, <1>3, <1>4 DEF Next

\* the ranges a reserved or running batch keeps to
LEMMA TypeStep == ASSUME BatchInv, Next PROVE BatchTypeOK'
<1>t. Typed /\ Typed' /\ BatchTypeOK /\ Unasked
  BY TypedStep DEF BatchInv
<1>s. StartsFresh' /\ Working'
  BY IdsStep, WorkingStep
<1> DEFINE Fits(b) == /\ run[b].queued \in 0 .. count[b] /\ run[b].running \in 0 .. LaneCount
                      /\ run[b].lanes \in [Lanes -> Nat \cup {Free}]
                      /\ run[b].cursor \in 0 .. count[b] + LaneCount
<1>l. LaneCount \in Nat
  BY BatchLanesAssumption
<1>0. \A b \in Calls : Fits(b) /\ count[b] \in Counts[b] \cup {0} /\ count[b] \in Nat
  BY <1>t DEF BatchTypeOK, Typed
<1>1. ASSUME NEW b \in Calls, bpc'[b] = "reserve" PROVE Fits(b)'
  <2>1. count'[b] \in Nat /\ RunTyped(run[b])'
    BY <1>t DEF Typed
  <2> QED
    BY <1>s, <1>1, <1>l, <2>1 DEF StartsFresh, RunTyped
<1>2. ASSUME NEW b \in Calls, bpc'[b] = "spawned" PROVE Fits(b)'
  <2>1. Tallies(b)' /\ count'[b] \in Nat /\ run'[b].cursor \in Nat
        /\ run'[b].lanes \in [Lanes -> Nat \cup {Free}]
    BY <1>s, <1>t, <1>2 DEF Working, Typed, RunTyped
  <2>2. /\ At(b, Counted)' \in SUBSET Lanes /\ At(b, {"exited"})' \in SUBSET Lanes
    BY DEF At
  <2>3. /\ Cardinality(At(b, Counted)') \in Nat /\ Cardinality(At(b, Counted)') <= LaneCount
        /\ Cardinality(At(b, {"exited"})') \in Nat /\ Cardinality(At(b, {"exited"})') <= LaneCount
    BY <2>2, LanesAreFinite
  <2>4. /\ run'[b].queued = IF run'[b].cursor <= count'[b] THEN count'[b] - run'[b].cursor ELSE 0
        /\ run'[b].running = Cardinality(At(b, Counted)')
        /\ run'[b].cursor <= count'[b] + Cardinality(At(b, {"exited"})')
    BY <2>1 DEF Tallies
  <2>5. run'[b].queued \in 0 .. count'[b]
    BY <2>1, <2>4
  <2>6. run'[b].running \in 0 .. LaneCount
    BY <1>l, <2>3, <2>4
  <2>7. run'[b].cursor \in 0 .. count'[b] + LaneCount
    <3> DEFINE x == Cardinality(At(b, {"exited"})')
               k == run'[b].cursor
               n == count'[b]
    <3>1. k \in Nat /\ n \in Nat /\ x \in Nat /\ x <= LaneCount /\ k <= n + x
      BY <2>1, <2>3, <2>4
    <3> HIDE DEF x, k, n
    <3>2. k \in 0 .. n + LaneCount
      BY <1>l, <3>1
    <3> QED
      BY <3>2 DEF k, n
  <2> QED
    BY <2>1, <2>5, <2>6, <2>7
<1>3. ASSUME NEW b \in Calls, run'[b] = run[b], count'[b] = count[b] PROVE Fits(b)'
  BY <1>0, <1>3
<1>4. ASSUME NEW b \in Calls, bpc[b] = "idle", run'[b] = run[b], count'[b] \in Nat PROVE Fits(b)'
  BY <1>0, <1>t, <1>4, <1>l DEF Unasked
<1> HIDE DEF Fits
<1>5. \A b \in Calls : Fits(b)' /\ count'[b] \in Counts[b] \cup {0}
  <2>1. CASE RunOneTakesId
    BY <1>0, <1>3, <2>1 DEF RunOneTakesId
  <2>2. ASSUME NEW b \in Calls, Call(b), NEW c \in Calls PROVE Fits(c)' /\ count'[c] \in Counts[c] \cup {0}
    <3>1. PICK n \in Counts[b] : count' = [count EXCEPT ![b] = n]
      BY <2>2 DEF Call
    <3>2. bpc[b] = "idle" /\ run' = run /\ count'[c] \in Nat
      BY <1>t, <2>2 DEF Call, Typed
    <3>3. CASE c = b
      BY <1>4, <1>t, <3>1, <3>2, <3>3 DEF Typed
    <3>4. CASE c # b
      BY <1>0, <1>3, <1>t, <3>1, <3>2, <3>4 DEF Typed
    <3> QED
      BY <3>3, <3>4
  <2>3. ASSUME NEW b \in Calls, LockRun(b), NEW c \in Calls PROVE Fits(c)' /\ count'[c] \in Counts[c] \cup {0}
    <3>1. count' = count /\ (c # b => run'[c] = run[c]) /\ bpc'[b] = "reserve"
      BY <1>t, <2>3, LockRunEffect DEF LockRun, Typed
    <3> QED
      BY <1>0, <1>1, <1>3, <3>1
  <2>4. ASSUME NEW b \in Calls, ReserveId(b), NEW c \in Calls PROVE Fits(c)' /\ count'[c] \in Counts[c] \cup {0}
    <3>1. count' = count /\ (c # b => run'[c] = run[c]) /\ bpc'[b] = "reserve"
      BY <1>t, <2>4, ReserveIdEffect DEF ReserveId
    <3> QED
      BY <1>0, <1>1, <1>3, <3>1
  <2>5. ASSUME NEW b \in Calls, Spawn(b), NEW c \in Calls PROVE Fits(c)' /\ count'[c] \in Counts[c] \cup {0}
    <3>1. count' = count /\ bpc'[b] = "spawned"
      BY <1>t, <2>5 DEF Spawn, Typed
    <3>2. c # b => run'[c] = run[c]
      BY <1>t, <2>5, SpawnEffect
    <3> QED
      BY <1>0, <1>2, <1>3, <3>1, <3>2
  <2>6. ASSUME NEW b \in Calls, Join(b), NEW c \in Calls PROVE Fits(c)' /\ count'[c] \in Counts[c] \cup {0}
    BY <1>0, <1>3, <2>6 DEF Join
  <2>7. ASSUME NEW b \in Calls, NEW l \in Lanes, WorkerStep(b, l), NEW c \in Calls
        PROVE Fits(c)' /\ count'[c] \in Counts[c] \cup {0}
    <3>1. bpc'[b] = "spawned" /\ Alone(b, l)
      BY <2>7, WorkerReady DEF Alone
    <3> QED
      BY <1>0, <1>2, <1>3, <3>1 DEF Alone
  <2> QED
    BY <2>1, <2>2, <2>3, <2>4, <2>5, <2>6, <2>7 DEF Next, CallStep
<1> QED
  BY <1>t, <1>5 DEF BatchTypeOK, Typed, Fits

(***************************************************************************)
(* Sorting the results by id puts the one of the i-th id in place i.       *)
(***************************************************************************)
LEMMA SmallestOf ==
    ASSUME NEW T, T \subseteq Nat, T # {}
    PROVE \E n \in T : \A m \in T : n <= m
<1>1. PICK n \in T : \A m \in T : <<m, n>> \notin OpToRel(<, Nat)
  BY WFMin, NatLessThanWellFounded
<1>2. \A m \in T : ~ (m < n)
  BY <1>1 DEF OpToRel
<1> QED
  BY <1>2

\* an order-preserving map of 1 .. n into itself moves nothing
LEMMA IncreasingIsIdentity ==
    ASSUME NEW n \in Nat, NEW f \in [1 .. n -> 1 .. n],
           \A i, j \in 1 .. n : i < j => f[i] < f[j]
    PROVE \A i \in 1 .. n : f[i] = i
<1>1. \A i \in 1 .. n : f[i] \in Nat /\ f[i] >= 1 /\ f[i] <= n
  OBVIOUS
<1>2. ASSUME NEW i \in 1 .. n, f[i] < i PROVE FALSE
  <2> DEFINE T == {k \in 1 .. n : f[k] < k}
  <2>1. T \subseteq Nat /\ T # {}
    BY <1>2
  <2>2. PICK k \in T : \A m \in T : k <= m
    BY <2>1, SmallestOf
  <2>3. k \in 1 .. n /\ f[k] < k /\ k \in Nat
    BY <2>2
  <2>4. k - 1 \in 1 .. n /\ k - 1 \notin T
    BY <1>1, <2>2, <2>3
  <2>5. f[k - 1] >= k - 1 /\ f[k - 1] < f[k]
    BY <1>1, <2>3, <2>4
  <2> QED
    BY <1>1, <2>3, <2>4, <2>5
<1>3. ASSUME NEW i \in 1 .. n, f[i] > i PROVE FALSE
  <2> DEFINE T == {k \in 0 .. n - 1 : f[n - k] > n - k}
  <2>1. n - i \in T
    <3>1. n - i \in 0 .. n - 1 /\ n - (n - i) = i
      OBVIOUS
    <3> QED
      BY <1>3, <3>1
  <2>2. PICK k \in T : \A m \in T : k <= m
    <3>1. T \subseteq Nat
      OBVIOUS
    <3>2. T # {}
      BY <2>1
    <3> HIDE DEF T
    <3> QED
      BY <3>1, <3>2, SmallestOf
  <2> DEFINE j == n - k
  <2>3. k \in 0 .. n - 1 /\ j \in 1 .. n /\ f[j] > j /\ n - (k - 1) = j + 1
    BY <2>2
  <2>4. k > 0
    BY <1>1, <2>3
  <2>5. k - 1 \in 0 .. n - 1 /\ k - 1 \notin T /\ j + 1 \in 1 .. n
    <3>1. k - 1 \in 0 .. n - 1 /\ j + 1 \in 1 .. n /\ ~ (k <= k - 1)
      BY <2>3, <2>4
    <3>2. k - 1 \notin T
      <4> HIDE DEF T
      <4> QED
        BY <2>2, <3>1
    <3> QED
      BY <3>1, <3>2
  <2>6. ~ (f[j + 1] > j + 1)
    BY <2>3, <2>5
  <2> HIDE DEF j
  <2>7. f[j] < f[j + 1]
    BY <2>3, <2>5
  <2> QED
    BY <1>1, <2>3, <2>5, <2>6, <2>7
<1> QED
  BY <1>1, <1>2, <1>3

LEMMA SortedByIds ==
    ASSUME NEW results \in Seq(Results), NEW ids \in Seq(Nat), Len(ids) = Len(results),
           \A i, j \in 1 .. Len(ids) : i < j => ids[i] < ids[j],
           \A k \in DOMAIN results : \E j \in 1 .. Len(ids) :
              /\ results[k].id = ids[j]
              /\ \A m \in DOMAIN results : results[m].id = ids[j] => m = k,
           \A j \in 1 .. Len(ids) : \E k \in DOMAIN results : results[k].id = ids[j]
    PROVE LET sorted == Sorted(results) IN
          /\ DOMAIN sorted = 1 .. Len(ids) /\ Len(sorted) = Len(ids)
          /\ \A i \in 1 .. Len(ids) : sorted[i] \in Results /\ sorted[i].id = ids[i]
          /\ Cardinality(Succeeded(sorted)) = Cardinality(Succeeded(results))
<1> DEFINE n == Len(ids)
           places == DOMAIN results
           Ordering(p) == /\ IsInjective(p)
                          /\ \A i, j \in places : i < j => results[p[i]].id <= results[p[j]].id
           order == CHOOSE p \in [places -> places] : Ordering(p)
           sorted == [i \in places |-> results[order[i]]]
<1>1. n \in Nat /\ places = 1 .. n /\ Sorted(results) = sorted /\ DOMAIN sorted = 1 .. n
      /\ Len(sorted) = n
  BY DEF Sorted
<1>2. /\ \A i \in 1 .. n : ids[i] \in Nat
      /\ \A k \in places : results[k] \in Results /\ results[k].id \in Nat
  <2>1. \A k \in places : results[k] \in Results
    BY <1>1
  <2> QED
    BY <1>1, <2>1 DEF Results
<1>3. /\ \A i, j \in 1 .. n : i < j => ids[i] < ids[j]
      /\ \A k \in places : \E j \in 1 .. n :
           results[k].id = ids[j] /\ \A m \in places : results[m].id = ids[j] => m = k
      /\ \A j \in 1 .. n : \E k \in places : results[k].id = ids[j]
  OBVIOUS
<1> SUFFICES /\ \A i \in 1 .. n : sorted[i] \in Results /\ sorted[i].id = ids[i]
             /\ Cardinality(Succeeded(sorted)) = Cardinality(Succeeded(results))
  BY <1>1
<1> HIDE DEF n, places
<1>4. ASSUME NEW i \in 1 .. n, NEW j \in 1 .. n, ids[i] = ids[j] PROVE i = j
  <2>1. i \in Nat /\ j \in Nat /\ ids[i] \in Nat
    BY <1>1, <1>2
  <2>2. ~ (i < j) /\ ~ (j < i)
    BY <1>2, <1>3, <1>4
  <2> QED
    BY <2>1, <2>2
\* results with the same id are one
<1>5. ASSUME NEW k \in places, NEW m \in places, results[k].id = results[m].id PROVE k = m
  BY <1>3, <1>5
\* the places in the order of their ids are an ordering
<1>6. \E p \in [places -> places] : Ordering(p)
  <2> DEFINE q == [i \in places |-> CHOOSE k \in places : results[k].id = ids[i]]
  <2>1. ASSUME NEW i \in places PROVE q[i] \in places /\ results[q[i]].id = ids[i]
    <3>1. \E k \in places : results[k].id = ids[i]
      BY <1>1, <1>3
    <3>2. /\ (CHOOSE k \in places : results[k].id = ids[i]) \in places
          /\ results[CHOOSE k \in places : results[k].id = ids[i]].id = ids[i]
      BY <3>1
    <3> QED
      BY <3>2
  <2>2. q \in [places -> places]
    BY <2>1
  <2> HIDE DEF q
  <2>3. ASSUME NEW i \in places, NEW j \in places, q[i] = q[j] PROVE i = j
    <3>1. ids[i] = ids[j]
      BY <2>1, <2>3
    <3> QED
      BY <1>1, <1>4, <3>1
  <2>4. ASSUME NEW i \in places, NEW j \in places, i < j PROVE results[q[i]].id <= results[q[j]].id
    <3>1. ids[i] < ids[j] /\ ids[i] \in Nat /\ ids[j] \in Nat
      BY <1>1, <1>2, <1>3, <2>4
    <3>2. results[q[i]].id = ids[i] /\ results[q[j]].id = ids[j]
      BY <2>1
    <3>3. ids[i] <= ids[j]
      BY <3>1
    <3> QED
      BY <3>2, <3>3, Zenon
  <2>5. DOMAIN q = places
    BY <2>2
  <2>6. IsInjective(q)
    BY <2>3, <2>5, Zenon DEF IsInjective
  <2>7. Ordering(q)
    BY <2>4, <2>6
  <2> HIDE DEF Ordering
  <2> QED
    BY <2>2, <2>7
<1>7. order \in [places -> places] /\ Ordering(order)
  <2> HIDE DEF Ordering
  <2> QED
    BY <1>6
<1> HIDE DEF order
<1>8. /\ \A i \in places : order[i] \in places
      /\ \A i, j \in places : order[i] = order[j] => i = j
      /\ \A i, j \in places : i < j => results[order[i]].id <= results[order[j]].id
  BY <1>7 DEF IsInjective
\* the place each id lands in
<1> DEFINE f == [i \in 1 .. n |-> CHOOSE j \in 1 .. n : results[order[i]].id = ids[j]]
<1>9. ASSUME NEW i \in 1 .. n PROVE f[i] \in 1 .. n /\ results[order[i]].id = ids[f[i]]
  <2>1. \E j \in 1 .. n : results[order[i]].id = ids[j]
    <3>1. order[i] \in places
      BY <1>1, <1>8
    <3> QED
      BY <1>3, <3>1
  <2>2. /\ (CHOOSE j \in 1 .. n : results[order[i]].id = ids[j]) \in 1 .. n
        /\ results[order[i]].id = ids[CHOOSE j \in 1 .. n : results[order[i]].id = ids[j]]
    BY <2>1
  <2> QED
    BY <2>2
<1>10. f \in [1 .. n -> 1 .. n]
  BY <1>9
<1> HIDE DEF f
<1>11. ASSUME NEW i \in 1 .. n, NEW j \in 1 .. n, i < j PROVE f[i] < f[j]
  <2>1. i # j /\ i \in places /\ j \in places
    BY <1>1, <1>11
  <2>2. order[i] \in places /\ order[j] \in places /\ order[i] # order[j]
    BY <1>8, <2>1
  <2>3. results[order[i]].id # results[order[j]].id
    BY <1>5, <2>2
  <2>4. ids[f[i]] # ids[f[j]] /\ ids[f[i]] <= ids[f[j]]
    <3>1. results[order[i]].id <= results[order[j]].id
      BY <1>8, <1>11, <2>1
    <3> QED
      BY <1>9, <2>3, <3>1
  <2>5. /\ f[i] \in 1 .. n /\ f[j] \in 1 .. n /\ f[i] \in Nat /\ f[j] \in Nat
        /\ ids[f[i]] \in Nat /\ ids[f[j]] \in Nat
    BY <1>1, <1>2, <1>9
  <2>6. ~ (f[j] < f[i])
    <3>1. f[j] < f[i] => ids[f[j]] < ids[f[i]]
      BY <1>3, <2>5
    <3> QED
      BY <2>4, <2>5, <3>1
  <2>7. f[i] # f[j]
    BY <2>4
  <2> QED
    BY <2>5, <2>6, <2>7
<1>12. \A i \in 1 .. n : f[i] = i
  BY <1>1, <1>10, <1>11, IncreasingIsIdentity
<1>13. \A i \in 1 .. n : /\ order[i] \in places /\ sorted[i] = results[order[i]]
                         /\ sorted[i] \in Results /\ sorted[i].id = ids[i]
  BY <1>1, <1>2, <1>8, <1>9, <1>12
<1>14. Cardinality(Succeeded(sorted)) = Cardinality(Succeeded(results))
  <2> DEFINE S == Succeeded(sorted)
             T == Succeeded(results)
             g == [i \in S |-> order[i]]
  <2>a. /\ S = {i \in 1 .. n : results[order[i]].outcome = "Completed"}
        /\ T = {k \in places : results[k].outcome = "Completed"}
    <3>1. T = {k \in places : results[k].outcome = "Completed"}
      BY DEF Succeeded, places
    <3> HIDE DEF sorted
    <3>2. S = {i \in 1 .. n : sorted[i].outcome = "Completed"}
      BY <1>1 DEF Succeeded
    <3>3. \A i \in 1 .. n : sorted[i].outcome = results[order[i]].outcome
      BY <1>13
    <3> HIDE DEF S
    <3>4. S = {i \in 1 .. n : results[order[i]].outcome = "Completed"}
      BY <3>2, <3>3
    <3> QED
      BY <3>1, <3>4
  <2> HIDE DEF S, T
  <2>1. \A i \in S : i \in 1 .. n /\ i \in places /\ order[i] \in T
    BY <1>1, <1>13, <2>a
  <2>2. g \in [S -> T] /\ \A i \in S : g[i] = order[i]
    BY <2>1
  <2> HIDE DEF g
  <2>3. ASSUME NEW i \in S, NEW j \in S, g[i] = g[j] PROVE i = j
    <3>1. order[i] = order[j] /\ i \in places /\ j \in places
      BY <2>1, <2>2, <2>3
    <3> QED
      BY <1>8, <3>1
  <2>4. ASSUME NEW k \in T PROVE \E i \in S : g[i] = k
    <3>1. k \in places /\ results[k].outcome = "Completed"
      BY <2>a
    <3>2. PICK j \in 1 .. n : results[k].id = ids[j]
      BY <1>3, <3>1
    <3>3. order[j] \in places /\ results[order[j]].id = ids[j]
      BY <1>9, <1>12, <1>13
    <3>4. order[j] = k
      BY <1>5, <3>1, <3>2, <3>3
    <3>5. j \in S
      BY <2>a, <3>1, <3>4
    <3> QED
      BY <2>2, <3>4, <3>5
  <2>5. ExistsBijection(S, T)
    <3>1. DOMAIN g = S
      BY <2>2
    <3>2. IsInjective(g)
      BY <2>3, <3>1, Zenon DEF IsInjective
    <3>3. g \in Bijection(S, T)
      BY <2>2, <2>4, <3>2 DEF Bijection, Injection, Surjection
    <3> QED
      BY <3>3 DEF ExistsBijection
  <2>6. IsFiniteSet(S)
    <3>1. S \subseteq 1 .. n
      BY <2>1
    <3>2. IsFiniteSet(1 .. n)
      BY <1>1, FS_Interval
    <3> QED
      BY <3>1, <3>2, FS_Subset
  <2>7. Cardinality(S) = Cardinality(T)
    BY <2>5, <2>6, FS_Bijection
  <2> QED
    BY <2>7 DEF S, T
<1> QED
  BY <1>13, <1>14

(***************************************************************************)
(* The report of a batch whose workers have all exited.                    *)
(***************************************************************************)
LEMMA JoinReports ==
    ASSUME BatchInv, NEW b \in Calls, Join(b), ~ Unwound(b)
    PROVE LET R == report'[b] IN
          /\ DOMAIN R.results = 1 .. count[b] /\ Len(R.results) = count[b]
          /\ \A i \in 1 .. count[b] : R.results[i] \in Results /\ R.results[i].id = R.ids[i]
          /\ R.queued = 0 /\ R.running = 0
          /\ \A l \in Lanes : R.lanes[l] = Free
          /\ R.completed = Cardinality(Succeeded(R.results))
          /\ R.completed + R.failed = count[b] /\ R.failed \in Nat
          /\ R.peak_active <= LaneCount
          /\ \A n \in DOMAIN R.events : Concurrency(R.events, n) <= R.peak_active
<1>1. /\ Typed /\ bpc[b] = "spawned" /\ \A l \in Lanes : worker[b][l].pc = "exited"
      /\ report' = [report EXCEPT ![b] = [run[b] EXCEPT !.results = Sorted(@)]]
      /\ DOMAIN report = Calls
  BY DEF BatchInv, Join, Joined, Unwound, Typed
<1>2. /\ Claims(b) /\ Tallies(b) /\ Peaks(b) /\ RunTyped(run[b]) /\ count[b] \in Nat
      /\ Len(run[b].ids) = count[b]
      /\ \A i, j \in 1 .. Len(run[b].ids) : i < j => run[b].ids[i] < run[b].ids[j]
  BY <1>1 DEF BatchInv, Working, IdsAscend, Typed
<1>3. /\ At(b, Holding) = {} /\ At(b, Counted) = {} /\ At(b, {"finished"}) = {}
      /\ AboutToSucceed(b) = {} /\ At(b, {"exited"}) = Lanes
  BY <1>1 DEF At, Holding, Counted, AboutToSucceed
<1>4. /\ Cardinality(At(b, Holding)) = 0 /\ Cardinality(At(b, Counted)) = 0
      /\ Cardinality(At(b, {"finished"})) = 0 /\ Cardinality(AboutToSucceed(b)) = 0
  BY <1>3, FS_EmptySet, Zenon
<1>5. run[b].cursor >= count[b] /\ run[b].cursor \in Nat
  <2>1. 0 \in Lanes
    BY BatchLanesAssumption DEF Lanes
  <2> QED
    BY <1>2, <1>3, <2>1 DEF Claims, RunTyped
<1> DEFINE results == run[b].results
           ids == run[b].ids
<1>6. results \in Seq(Results) /\ ids \in Seq(Nat) /\ Len(results) \in Nat
  BY <1>2 DEF RunTyped
<1>7. Len(results) = count[b]
  <2>1. Len(results) + 0 = IF run[b].cursor <= count[b] THEN run[b].cursor ELSE count[b]
    BY <1>2, <1>4 DEF Tallies
  <2> HIDE DEF results
  <2> QED
    BY <1>2, <1>5, <1>6, <2>1
<1>8. run[b].queued = 0 /\ run[b].running = 0
  BY <1>2, <1>4, <1>5 DEF Tallies
<1>9. run[b].completed = Cardinality(Succeeded(results)) /\ run[b].completed + run[b].failed = count[b]
  <2>1. /\ run[b].completed = Cardinality(Succeeded(results)) + 0
        /\ run[b].completed + run[b].failed = Len(results) + 0
    BY <1>2, <1>4 DEF Tallies
  <2>2. Cardinality(Succeeded(results)) \in Nat
    BY <1>6, SucceededFinite
  <2> HIDE DEF results
  <2> QED
    BY <1>2, <1>7, <2>1, <2>2
<1>10. ASSUME NEW k \in DOMAIN results
       PROVE \E j \in 1 .. Len(ids) : /\ results[k].id = ids[j]
                                      /\ \A m \in DOMAIN results : results[m].id = ids[j] => m = k
  <2>1. PICK j \in 0 .. count[b] - 1 : /\ results[k].id = ids[j + 1]
                                      /\ \A m \in DOMAIN results : results[m].id = ids[j + 1] => m = k
    BY <1>2 DEF Claims
  <2>2. j + 1 \in 1 .. Len(ids)
    BY <1>2
  <2> QED
    BY <2>1, <2>2
<1>11. ASSUME NEW j \in 1 .. Len(ids) PROVE \E k \in DOMAIN results : results[k].id = ids[j]
  <2>1. j - 1 \in 0 .. count[b] - 1 /\ j - 1 < run[b].cursor /\ (j - 1) + 1 = j
    BY <1>2, <1>5
  <2>2. \/ \E l \in At(b, Holding) : worker[b][l].ix = j - 1
        \/ \E k \in DOMAIN results : results[k].id = ids[(j - 1) + 1]
    BY <1>2, <2>1 DEF Claims
  <2> QED
    BY <1>3, <2>1, <2>2
<1> DEFINE sorted == Sorted(results)
<1>12. /\ DOMAIN sorted = 1 .. count[b] /\ Len(sorted) = count[b]
       /\ \A i \in 1 .. count[b] : sorted[i] \in Results /\ sorted[i].id = ids[i]
       /\ Cardinality(Succeeded(sorted)) = Cardinality(Succeeded(results))
  <2> HIDE DEF results, ids
  <2>1. Len(ids) = Len(results) /\ \A i, j \in 1 .. Len(ids) : i < j => ids[i] < ids[j]
    BY <1>2, <1>7 DEF ids
  <2>2. Len(ids) = count[b]
    BY <1>2 DEF ids
  <2>3. \A k \in DOMAIN results : \E j \in 1 .. Len(ids) :
           /\ results[k].id = ids[j]
           /\ \A m \in DOMAIN results : results[m].id = ids[j] => m = k
    BY <1>10
  <2>4. \A j \in 1 .. Len(ids) : \E k \in DOMAIN results : results[k].id = ids[j]
    BY <1>11
  <2>5. /\ DOMAIN sorted = 1 .. Len(ids) /\ Len(sorted) = Len(ids)
        /\ \A i \in 1 .. Len(ids) : sorted[i] \in Results /\ sorted[i].id = ids[i]
        /\ Cardinality(Succeeded(sorted)) = Cardinality(Succeeded(results))
    BY <1>6, <2>1, <2>3, <2>4, SortedByIds
  <2> QED
    BY <2>2, <2>5
<1> HIDE DEF sorted
<1>13. /\ report'[b].results = sorted /\ report'[b].ids = ids
       /\ report'[b].queued = run[b].queued /\ report'[b].running = run[b].running
       /\ report'[b].lanes = run[b].lanes /\ report'[b].completed = run[b].completed
       /\ report'[b].failed = run[b].failed /\ report'[b].peak_active = run[b].peak_active
       /\ report'[b].events = run[b].events
  BY <1>1, <1>2 DEF RunTyped, sorted
<1>14. run[b].failed \in Nat /\ \A l \in Lanes : run[b].lanes[l] = Free
  BY <1>2, <1>3 DEF Claims, RunTyped
<1>15. run[b].peak_active <= LaneCount
       /\ \A n \in DOMAIN run[b].events : Concurrency(run[b].events, n) <= run[b].peak_active
  BY <1>2 DEF Peaks
<1> HIDE DEF results, ids
<1> QED
  BY <1>8, <1>9, <1>12, <1>13, <1>14, <1>15 DEF results, ids

\* what SnapshotAtRest says of one report
AtRest(s, n) == /\ s.queued = 0 /\ s.running = 0
                /\ \A l \in Lanes : s.lanes[l] = Free
                /\ s.completed = Cardinality(Succeeded(s.results))
                /\ s.completed + s.failed = n
LEMMA RestOfEach == /\ SnapshotAtRest <=> \A b \in Returned : AtRest(report[b], count[b])
                    /\ SnapshotAtRest' <=> \A b \in Returned' : AtRest(report'[b], count'[b])
BY Zenon DEF SnapshotAtRest, AtRest, Succeeded

LEMMA ReportedStep == ASSUME BatchInv, Next PROVE Reported'
<1>t. Typed /\ Locked /\ Unasked /\ Reported
  BY DEF BatchInv
\* a report stays as it is
<1>0. ASSUME \A c \in Returned' : c \in Returned /\ report'[c] = report[c] /\ count'[c] = count[c]
      PROVE Reported'
  <2>1. ResultsTyped'
    BY <1>t, <1>0 DEF Reported, ResultsTyped
  <2>2. ResultsCompleteInOrder'
    BY <1>t, <1>0 DEF Reported, ResultsCompleteInOrder
  <2>3. SnapshotAtRest'
    BY <1>t, <1>0, RestOfEach DEF Reported
  <2>4. PeakCoversEvents'
    BY <1>t, <1>0 DEF Reported, PeakCoversEvents
  <2> QED
    BY <2>1, <2>2, <2>3, <2>4 DEF Reported
<1>1. CASE RunOneTakesId
  BY <1>0, <1>1 DEF RunOneTakesId, Returned
<1>2. ASSUME NEW b \in Calls, Call(b) PROVE Reported'
  <2>1. PICK n \in Counts[b] : /\ count' = [count EXCEPT ![b] = n]
                              /\ bpc' = [bpc EXCEPT ![b] = IF n = 0 THEN "refused" ELSE "lock"]
    BY <1>2 DEF Call
  <2>2. report' = report
    BY <1>2 DEF Call
  <2> QED
    BY <1>t, <1>0, <2>1, <2>2 DEF Returned, Typed
<1>3. ASSUME NEW b \in Calls, LockRun(b) PROVE Reported'
  BY <1>t, <1>0, <1>3 DEF LockRun, Returned, Typed
<1>4. ASSUME NEW b \in Calls, ReserveId(b) PROVE Reported'
  BY <1>t, <1>0, <1>4 DEF ReserveId, Returned, Typed
<1>5. ASSUME NEW b \in Calls, Spawn(b) PROVE Reported'
  BY <1>t, <1>0, <1>5 DEF Spawn, Returned, Typed
<1>6. ASSUME NEW b \in Calls, Join(b) PROVE Reported'
  <2>1. CASE Unwound(b)
    BY <1>t, <1>0, <1>6, <2>1 DEF Join, Returned, Typed
  <2>2. CASE ~ Unwound(b)
    <3> DEFINE R == report'[b]
    <3>1. /\ DOMAIN R.results = 1 .. count[b] /\ Len(R.results) = count[b]
          /\ \A i \in 1 .. count[b] : R.results[i] \in Results /\ R.results[i].id = R.ids[i]
          /\ R.queued = 0 /\ R.running = 0 /\ \A l \in Lanes : R.lanes[l] = Free
          /\ R.completed = Cardinality(Succeeded(R.results))
          /\ R.completed + R.failed = count[b] /\ R.failed \in Nat
          /\ R.peak_active <= LaneCount
          /\ \A n \in DOMAIN R.events : Concurrency(R.events, n) <= R.peak_active
      BY <1>6, <2>2, JoinReports
    <3>2. /\ count' = count /\ \A c \in Calls : c # b => report'[c] = report[c]
          /\ Returned' = Returned \cup {b}
      BY <1>t, <1>6, <2>2 DEF Join, Typed, Returned
    <3>3. \A c \in Returned' : c = b \/ (c \in Returned /\ report'[c] = report[c])
      BY <3>2 DEF Returned
    <3> HIDE DEF R
    <3>4. ResultsTyped'
      BY <1>t, <3>1, <3>2, <3>3 DEF Reported, ResultsTyped, R
    <3>5. ResultsCompleteInOrder'
      BY <1>t, <3>1, <3>2, <3>3 DEF Reported, ResultsCompleteInOrder, R
    <3>6. SnapshotAtRest'
      <4>1. AtRest(R, count[b])
        BY <3>1 DEF AtRest
      <4>2. \A c \in Returned : AtRest(report[c], count[c])
        BY <1>t, RestOfEach DEF Reported
      <4>3. \A c \in Returned' : AtRest(report'[c], count'[c])
        BY <3>2, <3>3, <4>1, <4>2 DEF R
      <4> QED
        BY <4>3, RestOfEach
    <3>7. PeakCoversEvents'
      BY <1>t, <3>1, <3>2, <3>3 DEF Reported, PeakCoversEvents, R
    <3> QED
      BY <3>4, <3>5, <3>6, <3>7 DEF Reported
  <2> QED
    BY <2>1, <2>2
<1>7. ASSUME NEW b \in Calls, NEW l \in Lanes, WorkerStep(b, l) PROVE Reported'
  <2>1. Alone(b, l)
    BY <1>7, WorkerReady
  <2> QED
    BY <1>0, <2>1 DEF Alone, Returned
<1> QED
  BY <1>1, <1>2, <1>3, <1>4, <1>5, <1>6, <1>7 DEF Next, CallStep

(***************************************************************************)
(* The theorems.                                                           *)
(***************************************************************************)
(* In every reachable state of the batches of a scheduler the jobs, ids,   *)
(* counters and peaks of run_many_classified fit together.                 *)
THEOREM BatchInvariant == Spec => []BatchInv
<1>1. BatchInv /\ [Next]_batchVars => BatchInv'
  <2> SUFFICES ASSUME BatchInv, [Next]_batchVars PROVE BatchInv'
    OBVIOUS
  <2>1. CASE Next
    BY <2>1, TypedStep, TypeStep, LockedStep, IdsStep, UnaskedStep, WorkingStep, ReportedStep
       DEF BatchInv
  <2>2. CASE UNCHANGED batchVars
    <3>1. UNCHANGED <<nextId, runLock, bpc, count, run, worker, report>>
      BY <2>2 DEF batchVars
    <3>2. Typed' /\ BatchTypeOK' /\ Locked' /\ IdsAscend' /\ Unasked' /\ StartsFresh'
      BY <3>1 DEF BatchInv, Typed, BatchTypeOK, Locked, IdsAscend, Unasked, StartsFresh
    <3>3. Working'
      BY <3>1, Untouched DEF BatchInv, Working
    <3>4. Reported'
      <4>1. SnapshotAtRest'
        BY <3>1, RestOfEach DEF BatchInv, Reported, Returned
      <4> QED
        BY <3>1, <4>1 DEF BatchInv, Reported, ResultsTyped, ResultsCompleteInOrder,
                          PeakCoversEvents, Returned
    <3> QED
      BY <3>2, <3>3, <3>4 DEF BatchInv
  <2> QED
    BY <2>1, <2>2
<1> QED
  BY <1>1, BatchInit, PTL DEF Spec

(* Type correctness: queued, running and the cursor keep their ranges.     *)
THEOREM BatchTypeCorrect == Spec => []BatchTypeOK
BY BatchInvariant, PTL DEF BatchInv

(* "At most one worker owns a lane" (doc of run_many_detailed), across all *)
(* batches of the scheduler.                                               *)
THEOREM OneWorkerPerLaneAlways == Spec => []OneWorkerPerLane
<1>1. BatchInv => OneWorkerPerLane
  <2> SUFFICES ASSUME BatchInv, NEW l \in Lanes PROVE Cardinality(Busy(l)) <= 1
    BY DEF OneWorkerPerLane
  <2>1. \A b \in Busy(l) : b = runLock
    BY DEF BatchInv, Locked, Busy
  <2>2. Busy(l) = {} \/ Busy(l) = {runLock}
    BY <2>1
  <2>3. Cardinality(Busy(l)) \in {0, 1}
    BY <2>2, FS_EmptySet, FS_Singleton
  <2> QED
    BY <2>3
<1> QED
  BY <1>1, BatchInvariant, PTL

(* A batch returns each id it reserved once, in order, whatever order its  *)
(* workers finished in (run_many_classified's sort by id).                 *)
THEOREM ResultsAreOrdered == Spec => []ResultsCompleteInOrder
BY BatchInvariant, PTL DEF BatchInv, Reported

(* The snapshot handed over with the results is at rest and counts them.   *)
THEOREM SnapshotsAreAtRest == Spec => []SnapshotAtRest
BY BatchInvariant, PTL DEF BatchInv, Reported

(* peak_active, a maximum of values each worker saw when it was counted,   *)
(* covers the concurrency of every prefix of the event log.                *)
THEOREM PeakIsCovering == Spec => []PeakCoversEvents
BY BatchInvariant, PTL DEF BatchInv, Reported

\* every status is counted by exactly one of the four tallies of a node report
LEMMA TalliesPartition ==
    ASSUME NEW n \in Nat, NEW results, DOMAIN results = 1 .. n,
           \A i \in 1 .. n : results[i] \in Results
    PROVE /\ Tally(results, {"Completed"}) = Cardinality(Succeeded(results))
          /\ Tally(results, {"Completed"}) + Tally(results, FailedStatuses)
               + Tally(results, {"TimedOut"}) + Tally(results, {"Cancelled"}) = n
          /\ Tally(results, {"MemoryLimitExceeded"}) <= Tally(results, FailedStatuses)
          /\ \A S : Tally(results, S) \in Nat
<1> DEFINE With(S) == {i \in 1 .. n : StatusOf(results[i]) \in S}
<1>1. \A i \in 1 .. n : results[i].outcome \in AllOutcomes
  BY DEF Results
<1>2. \A i \in 1 .. n : StatusOf(results[i]) \in
         {"Completed", "TimedOut", "Cancelled"} \cup FailedStatuses
  BY <1>1 DEF StatusOf, AllOutcomes, FailedStatuses
<1>3. ASSUME NEW S
      PROVE /\ Tally(results, S) = Cardinality(With(S))
            /\ IsFiniteSet(With(S)) /\ Cardinality(With(S)) \in Nat
  <2>1. With(S) \subseteq 1 .. n /\ IsFiniteSet(1 .. n)
    BY FS_Interval
  <2> QED
    BY <2>1, FS_Subset, FS_CardinalityType DEF Tally
<1> DEFINE C == With({"Completed"})
           F == With(FailedStatuses)
           T == With({"TimedOut"})
           X == With({"Cancelled"})
<1>4. /\ 1 .. n = ((C \cup F) \cup T) \cup X
      /\ C \cap F = {} /\ (C \cup F) \cap T = {} /\ ((C \cup F) \cup T) \cap X = {}
  BY <1>2 DEF FailedStatuses
<1>5. C = Succeeded(results)
  <2>1. \A i \in 1 .. n : StatusOf(results[i]) = "Completed" <=> results[i].outcome = "Completed"
    BY DEF StatusOf
  <2> QED
    BY <2>1 DEF Succeeded
<1>6. With({"MemoryLimitExceeded"}) \subseteq F
  BY DEF FailedStatuses
<1>7. Cardinality(With({"MemoryLimitExceeded"})) <= Cardinality(F)
  BY <1>3, <1>6, FS_Subset
<1>8. /\ IsFiniteSet(C) /\ IsFiniteSet(F) /\ IsFiniteSet(T) /\ IsFiniteSet(X)
      /\ Cardinality(C) \in Nat /\ Cardinality(F) \in Nat
      /\ Cardinality(T) \in Nat /\ Cardinality(X) \in Nat
  BY <1>3
<1> HIDE DEF C, F, T, X
<1>9. Cardinality(C) + Cardinality(F) + Cardinality(T) + Cardinality(X) = n
  <2>1. Cardinality({}) = 0 /\ Cardinality(1 .. n) = n
    <3>1. Cardinality(1 .. n) = n
      BY FS_Interval
    <3> QED
      BY <3>1, FS_EmptySet
  <2>2. /\ IsFiniteSet(C \cup F)
        /\ Cardinality(C \cup F) = Cardinality(C) + Cardinality(F) - Cardinality(C \cap F)
    BY <1>8, FS_Union
  <2>3. /\ IsFiniteSet((C \cup F) \cup T)
        /\ Cardinality((C \cup F) \cup T)
             = Cardinality(C \cup F) + Cardinality(T) - Cardinality((C \cup F) \cap T)
    BY <1>8, <2>2, FS_Union
  <2>4. Cardinality(((C \cup F) \cup T) \cup X)
          = Cardinality((C \cup F) \cup T) + Cardinality(X) - Cardinality(((C \cup F) \cup T) \cap X)
    BY <1>8, <2>3, FS_Union
  <2>5. /\ Cardinality(C \cap F) = 0 /\ Cardinality((C \cup F) \cap T) = 0
        /\ Cardinality(((C \cup F) \cup T) \cap X) = 0
        /\ Cardinality(((C \cup F) \cup T) \cup X) = n
    BY <1>4, <2>1, Zenon
  <2> QED
    BY <1>8, <2>2, <2>3, <2>4, <2>5
<1>10. /\ Tally(results, {"Completed"}) = Cardinality(C) /\ Tally(results, FailedStatuses) = Cardinality(F)
       /\ Tally(results, {"TimedOut"}) = Cardinality(T) /\ Tally(results, {"Cancelled"}) = Cardinality(X)
       /\ Tally(results, {"MemoryLimitExceeded"}) = Cardinality(With({"MemoryLimitExceeded"}))
  <2>1. \A S : Tally(results, S) = Cardinality(With(S))
    BY <1>3
  <2>2. /\ C = With({"Completed"}) /\ F = With(FailedStatuses)
        /\ T = With({"TimedOut"}) /\ X = With({"Cancelled"})
    BY DEF C, F, T, X
  <2> HIDE DEF With, C, F, T, X
  <2> QED
    BY <2>1, <2>2
<1>11. \A S : Tally(results, S) \in Nat
  <2>1. \A S : Tally(results, S) = Cardinality(With(S)) /\ Cardinality(With(S)) \in Nat
    BY <1>3
  <2> HIDE DEF With
  <2> QED
    BY <2>1
<1> HIDE DEF With
<1> QED
  BY <1>5, <1>7, <1>9, <1>10, <1>11

(* What is left of a sum when one part of it is known.                     *)
LEMMA RestOfSum ==
    ASSUME NEW c \in Nat, NEW f \in Nat, NEW t \in Nat, NEW x \in Nat, NEW y \in Nat,
           c + f + t + x = c + y
    PROVE  f + t + x = y
  OBVIOUS

(* pit-node's tally by status and the scheduler's count by classifier are  *)
(* two counts of one batch and agree.                                      *)
THEOREM NodeReportsAgree == Spec => []NodeReportAgrees
<1>1. BatchInv => NodeReportAgrees
  <2> SUFFICES ASSUME BatchInv, NEW b \in Returned
               PROVE LET n == NodeRunReport(b) IN
                     /\ n.completed = report[b].completed
                     /\ n.failed + n.timed_out + n.cancelled = report[b].failed
                     /\ n.completed + n.failed + n.timed_out + n.cancelled = n.requested
                     /\ n.memory_limit_exceeded <= n.failed
    BY DEF NodeReportAgrees
  <2> DEFINE results == report[b].results
             c == Tally(results, {"Completed"})
             f == Tally(results, FailedStatuses)
             t == Tally(results, {"TimedOut"})
             x == Tally(results, {"Cancelled"})
             m == Tally(results, {"MemoryLimitExceeded"})
  <2>1. /\ b \in Calls /\ count[b] \in Nat
        /\ DOMAIN results = 1 .. count[b] /\ \A i \in 1 .. count[b] : results[i] \in Results
        /\ report[b].failed \in Nat
    BY DEF BatchInv, Reported, ResultsTyped, Typed, Returned
  <2>2. AtRest(report[b], count[b])
    BY RestOfEach DEF BatchInv, Reported
  <2>3. /\ NodeRunReport(b).requested = count[b] /\ NodeRunReport(b).completed = c
        /\ NodeRunReport(b).failed = f /\ NodeRunReport(b).timed_out = t
        /\ NodeRunReport(b).cancelled = x /\ NodeRunReport(b).memory_limit_exceeded = m
    BY DEF NodeRunReport
  <2> HIDE DEF results
  <2>4. /\ c = Cardinality(Succeeded(results)) /\ c + f + t + x = count[b] /\ m <= f
        /\ c \in Nat /\ f \in Nat /\ t \in Nat /\ x \in Nat
    BY <2>1, TalliesPartition
  <2> HIDE DEF c, f, t, x, m
  <2>5. report[b].completed = c /\ report[b].completed + report[b].failed = count[b]
    BY <2>2, <2>4 DEF AtRest, results
  <2>6. f + t + x = report[b].failed
    <3>1. c + f + t + x = c + report[b].failed
      BY <2>4, <2>5
    <3>2. report[b].failed \in Nat /\ c \in Nat /\ f \in Nat /\ t \in Nat /\ x \in Nat
      BY <2>1, <2>4
    <3> QED
      BY <3>1, <3>2, RestOfSum
  <2> QED
    BY <2>3, <2>4, <2>5, <2>6
<1> QED
  BY <1>1, BatchInvariant, PTL
=============================================================================
