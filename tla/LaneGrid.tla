------------------------------ MODULE LaneGrid ------------------------------
(***************************************************************************)
(* What the shared lane pool of pit-scheduler promises its callers, with   *)
(* no thread, lock or condition variable in sight: every call gets a fresh *)
(* execution id, waits, is granted one free lane, and gives that lane back *)
(* when it ends.  A lane whose execution unwinds is lost for good: nothing *)
(* in `run_one_observed` frees the slot of a task that panics.             *)
(***************************************************************************)
EXTENDS Integers

CONSTANT LaneCount

VARIABLES issued,   \* how many execution ids were handed out
          queued,   \* ids that entered and own no lane yet
          owner,    \* owner[l]: the id that occupies lane l, or NoExec
          lost      \* lanes whose execution unwound without freeing them

gridVars == <<issued, queued, owner, lost>>

NoExec == -1
Lanes == 0 .. LaneCount - 1

Init == /\ issued = 0
        /\ queued = {}
        /\ owner = [l \in Lanes |-> NoExec]
        /\ lost = {}

Enter == /\ queued' = queued \cup {issued}
         /\ issued' = issued + 1
         /\ UNCHANGED <<owner, lost>>

Grant(l) == /\ owner[l] = NoExec
            /\ \E id \in queued : /\ owner' = [owner EXCEPT ![l] = id]
                                  /\ queued' = queued \ {id}
            /\ UNCHANGED <<issued, lost>>

Release(l) == /\ owner[l] # NoExec
              /\ l \notin lost
              /\ owner' = [owner EXCEPT ![l] = NoExec]
              /\ UNCHANGED <<issued, queued, lost>>

Lose(l) == /\ owner[l] # NoExec
           /\ l \notin lost
           /\ lost' = lost \cup {l}
           /\ UNCHANGED <<issued, queued, owner>>

Next == Enter \/ \E l \in Lanes : Grant(l) \/ Release(l) \/ Lose(l)

(* Grants never stop while a lane is free and a call is queued, and every  *)
(* occupied lane is given back or lost.  Which queued call is served next  *)
(* is not promised: a newcomer may overtake a caller that was woken.       *)
Fairness == /\ WF_gridVars(\E l \in Lanes : Grant(l))
            /\ \A l \in Lanes : WF_gridVars(Release(l) \/ Lose(l))

Spec == Init /\ [][Next]_gridVars
FairSpec == Spec /\ Fairness
=============================================================================
