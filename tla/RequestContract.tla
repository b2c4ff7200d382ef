--------------------------- MODULE RequestContract ---------------------------
(***************************************************************************)
(* What one Garage promises whoever sends it execution requests, with no   *)
(* semaphore, singleflight or blocking task in sight.  A request is turned *)
(* down, or served; at most MaxPending are served at once, and a request   *)
(* is turned away for load only when that many are.  A served request runs *)
(* at most once and only when its artifact is ready; it is answered with   *)
(* what its run came to, or as not started when there was none.  A client  *)
(* may leave; a run it started goes on.                                    *)
(***************************************************************************)
EXTENDS Integers, FiniteSets

CONSTANTS Requests, Digests, Defects, MaxPending

VARIABLES stage,   \* stage[r]: "new", "served", "answered" or "gone"
          asks,    \* asks[r]: the digest r asks for
          ready,   \* the digests whose artifact can be executed
          ran,     \* ran[r]: "none", "running", "response" or "failed"
          answer   \* answer[r]: what r was answered, or "none"

contractVars == <<stage, asks, ready, ran, answer>>

Served == {r \in Requests : stage[r] = "served"}

Init == /\ stage = [r \in Requests |-> "new"]
        /\ asks \in [Requests -> Digests]
        /\ ready = {}
        /\ ran = [r \in Requests |-> "none"]
        /\ answer = [r \in Requests |-> "none"]

\* the request has its answer, which says nothing that is not so
Answered(r, from, kinds) == /\ stage[r] = from
                            /\ stage' = [stage EXCEPT ![r] = "answered"]
                            /\ \E kind \in kinds : answer' = [answer EXCEPT ![r] = kind]
                            /\ UNCHANGED <<asks, ready, ran>>

Decline(r) == Answered(r, "new", Defects)

TurnAway(r) == /\ Cardinality(Served) = MaxPending
               /\ Answered(r, "new", {"Overloaded"})

Accept(r) == /\ stage[r] = "new"
             /\ Cardinality(Served) < MaxPending
             /\ stage' = [stage EXCEPT ![r] = "served"]
             /\ UNCHANGED <<asks, ready, ran, answer>>

\* an artifact gets ready for a request that was accepted, and stays so
GetsReady(r) == /\ stage[r] \in {"served", "gone"}
                /\ ready' = ready \cup {asks[r]}
                /\ UNCHANGED <<stage, asks, ran, answer>>

Begin(r) == /\ stage[r] = "served"
            /\ asks[r] \in ready
            /\ ran[r] = "none"
            /\ ran' = [ran EXCEPT ![r] = "running"]
            /\ UNCHANGED <<stage, asks, ready, answer>>

\* whether or not the client is still there
End(r) == /\ ran[r] = "running"
          /\ \E result \in {"response", "failed"} : ran' = [ran EXCEPT ![r] = result]
          /\ UNCHANGED <<stage, asks, ready, answer>>

GiveUp(r) == /\ ran[r] = "none"
             /\ Answered(r, "served", {"ArtifactUnavailable"})

Reply(r) == \/ ran[r] = "response" /\ Answered(r, "served", {"Response"})
            \/ ran[r] = "failed" /\ Answered(r, "served", {"StartedFailure"})

Leave(r) == /\ stage[r] = "served"
            /\ stage' = [stage EXCEPT ![r] = "gone"]
            /\ UNCHANGED <<asks, ready, ran, answer>>

Next == \E r \in Requests : \/ Decline(r) \/ TurnAway(r) \/ Accept(r) \/ GetsReady(r)
                            \/ Begin(r) \/ End(r) \/ GiveUp(r) \/ Reply(r) \/ Leave(r)

Spec == Init /\ [][Next]_contractVars
=============================================================================
