----------------------------- MODULE NestedGrid -----------------------------
(***************************************************************************)
(* Nested service calls over the execution lanes: GarageAgent::execute and *)
(* GarageServiceInvoker::invoke of pit-garage, where a call leaves for     *)
(* PitLane and comes back as a request to some Garage while the caller     *)
(* keeps its lane, and execute_http_inline of pit-node, where the callee   *)
(* runs on the lane of its caller.                                         *)
(*                                                                         *)
(* PitLane is external: it sends a call to any Garage, passing on its      *)
(* depth and visited Garages.  The lanes are those of LaneGrid, reduced to *)
(* their number; warmups and failures are GarageWarmup's.  An embedder of   *)
(* pit-node has no admission limit: MaxPending is the Garage's.            *)
(***************************************************************************)
EXTENDS Naturals, FiniteSets

CONSTANTS Requests, Garages,
          None,
          LaneCount,          \* lanes of each Garage
          MaxPending,         \* max_pending of each Garage
          MaxDepth,           \* max_invocation_depth, checked by the caller
          RemoteDepthLimit    \* the 16 that the callee checks

ASSUME NestedAssumption == /\ None \notin Requests \cup Garages
                           /\ LaneCount \in Nat \ {0} /\ MaxPending \in Nat
                           /\ MaxDepth \in Nat /\ RemoteDepthLimit \in Nat
                           /\ IsFiniteSet(Requests)

VARIABLES inline,    \* whether calls go through execute_http_inline: fixed by the embedder
          state,     \* "unused", "arrived", "refused", "queued", "running", "calling", "answered"
          at,        \* the Garage of a request
          parent,    \* the request that made it, or None
          depth, visited,   \* invocation_depth and visited_garages
          callee     \* the request a calling one waits for, or None

vars == <<inline, state, at, parent, depth, visited, callee>>

Init == /\ inline \in BOOLEAN
        /\ state = [r \in Requests |-> "unused"]
        /\ at = [r \in Requests |-> None]
        /\ parent = [r \in Requests |-> None]
        /\ depth = [r \in Requests |-> 0]
        /\ visited = [r \in Requests |-> {}]
        /\ callee = [r \in Requests |-> None]

Admitted(r) == state[r] \in {"queued", "running", "calling"}
Over(r) == state[r] \in {"refused", "answered"}
OwnsLane(r) == state[r] \in {"running", "calling"} /\ (inline => parent[r] = None)
Pending(g) == Cardinality({r \in Requests : at[r] = g /\ Admitted(r)})
Busy(g) == Cardinality({r \in Requests : at[r] = g /\ OwnsLane(r)})

Becomes(r, from, to) == state[r] = from /\ state' = [state EXCEPT ![r] = to]

Arrive(r, g, p, d, v) == /\ at' = [at EXCEPT ![r] = g]
                         /\ parent' = [parent EXCEPT ![r] = p]
                         /\ depth' = [depth EXCEPT ![r] = d]
                         /\ visited' = [visited EXCEPT ![r] = v]

\* requests have no identity of their own: the next one is any unused one
MoreRequests == \E c \in Requests : state[c] = "unused"
NextRequest == CHOOSE c \in Requests : state[c] = "unused"

\* a request from outside, through PitLane
Submit(g) == /\ MoreRequests
             /\ Becomes(NextRequest, "unused", "arrived")
             /\ Arrive(NextRequest, g, None, 0, {})
             /\ UNCHANGED <<inline, callee>>

\* the visited Garages are not looked at (a broken variant)
AcceptableRevisit(r) == depth[r] <= RemoteDepthLimit /\ (~inline => Pending(at[r]) < MaxPending)

\* the checks of execute, up to the permit
Acceptable(r) == /\ at[r] \notin visited[r]
                 /\ depth[r] <= RemoteDepthLimit
                 /\ ~inline => Pending(at[r]) < MaxPending

Refuse(r) == /\ Becomes(r, "arrived", "refused")
             /\ ~Acceptable(r)
             /\ UNCHANGED <<inline, at, parent, depth, visited, callee>>

Admit(r) == /\ Becomes(r, "arrived", "queued")
            /\ Acceptable(r)
            /\ UNCHANGED <<inline, at, parent, depth, visited, callee>>

TakeLane(r) == /\ Becomes(r, "queued", "running")
               /\ Busy(at[r]) < LaneCount
               /\ UNCHANGED <<inline, at, parent, depth, visited, callee>>

\* the caller of a call keeps its lane and waits for the answer
Ask(r, c, arrival) == /\ MoreRequests
                      /\ state[r] = "running"
                      /\ state' = [state EXCEPT ![r] = "calling", ![c] = arrival]
                      /\ callee' = [callee EXCEPT ![r] = c]
                      /\ UNCHANGED inline

\* a call that would be too deep fails at once and changes nothing
Call(r, g) == /\ ~inline /\ depth[r] + 1 <= MaxDepth
              /\ Ask(r, NextRequest, "arrived")
              /\ Arrive(NextRequest, g, r, depth[r] + 1, visited[r] \cup {at[r]})

\* an inline call that waits for a lane of its own (a broken variant)
CallQueued(r) == /\ inline
                 /\ Ask(r, NextRequest, "queued")
                 /\ Arrive(NextRequest, at[r], r, depth[r] + 1, visited[r])

\* execute_http_inline: no lane, no permit, and no check of visited Garages
CallInline(r) == /\ inline
                 /\ Ask(r, NextRequest, "running")
                 /\ Arrive(NextRequest, at[r], r, depth[r] + 1, visited[r])

Resume(r) == /\ Becomes(r, "calling", "running")
             /\ callee' = [callee EXCEPT ![r] = None]
             /\ UNCHANGED <<inline, at, parent, depth, visited>>

CallReturns(r) == state[r] = "calling" /\ Over(callee[r]) /\ Resume(r)

\* a client without a timeout (a broken variant)
CallNeverTimesOut(r) == FALSE /\ Resume(r)

\* the blocking client gives up after 10 seconds; the callee goes on
CallTimesOut(r) == ~inline /\ state[r] = "calling" /\ ~Over(callee[r]) /\ Resume(r)

Finish(r) == /\ Becomes(r, "running", "answered")
             /\ UNCHANGED <<inline, at, parent, depth, visited, callee>>

Step(r) == \/ Refuse(r) \/ Admit(r) \/ TakeLane(r)
           \/ CallReturns(r) \/ CallTimesOut(r) \/ Finish(r)

Next == \/ \E g \in Garages : Submit(g)
        \/ \E r \in Requests : Step(r) \/ CallInline(r) \/ \E g \in Garages : Call(r, g)

Spec == Init /\ [][Next]_vars

(* Guests end, lanes are handed on and the client's timeout fires; nobody  *)
(* has to submit or to call.                                               *)
FairSpec == Spec /\ \A r \in Requests : WF_vars(Step(r))

-----------------------------------------------------------------------------
NestedTypeOK ==
    /\ inline \in BOOLEAN
    /\ state \in [Requests -> {"unused", "arrived", "refused", "queued", "running",
                               "calling", "answered"}]
    /\ at \in [Requests -> Garages \cup {None}]
    /\ parent \in [Requests -> Requests \cup {None}]
    /\ depth \in [Requests -> Nat]
    /\ visited \in [Requests -> SUBSET Garages]
    /\ callee \in [Requests -> Requests \cup {None}]
    /\ \A r \in Requests : (callee[r] # None) <=> (state[r] = "calling")
    /\ \A g \in Garages : Busy(g) <= LaneCount /\ (~inline => Pending(g) <= MaxPending)

\* the requests above r in its chain of calls: every set of requests that holds
\* the parent of r and of each of its members holds all of them
Callers(r) ==
    LET chains == {S \in SUBSET Requests : /\ parent[r] \in S \cup {None}
                                           /\ \A a \in S : parent[a] \in S \cup {None}}
    IN {a \in Requests : \A S \in chains : a \in S}

(* A chain of remote calls never occupies two lanes of one Garage, however *)
(* PitLane routes it and also when callers above have given up, and its    *)
(* depth is the number of callers, within both limits.                     *)
ChainVisitsOnce == ~inline => \A r \in Requests : Admitted(r) =>
    /\ \A a \in Callers(r) : at[a] # at[r]
    /\ depth[r] = Cardinality(Callers(r))
    /\ depth[r] <= RemoteDepthLimit /\ depth[r] <= MaxDepth

(* "Nested logical service calls are handled inline ... rather than        *)
(* recursively submitted to the scheduler.  This prevents all execution    *)
(* lanes from waiting on child calls" (README): while inline calls are     *)
(* outstanding, some request can move without a timeout.                   *)
InlineNeedsNoTimeout ==
    inline /\ (\E r \in Requests : state[r] = "calling") =>
        \E r \in Requests : \/ state[r] \in {"arrived", "running"}
                            \/ state[r] = "queued" /\ Busy(at[r]) < LaneCount
                            \/ state[r] = "calling" /\ Over(callee[r])

(* Every request that arrives is refused or answered, callees whose caller *)
(* gave up included, even when lanes wait for each other across Garages.   *)
EveryRequestEnds == \A r \in Requests : state[r] = "arrived" ~> Over(r)
=============================================================================
