-------------------------- MODULE NestedGridProofs --------------------------
(***************************************************************************)
(* Proofs about NestedGrid, for any finite set of requests, any Garages,   *)
(* any routing and any limits.                                             *)
(***************************************************************************)
EXTENDS NestedGrid, FiniteSetTheorems, WellFoundedInduction, TLAPS

(***************************************************************************)
(* The inductive invariant.                                                *)
(***************************************************************************)
Unused == {r \in Requests : state[r] = "unused"}

\* an unused request has left no trace, and nobody was called by one
UnusedAreFresh == \A r \in Requests :
    /\ state[r] = "unused" => /\ at[r] = None /\ parent[r] = None /\ depth[r] = 0
                              /\ visited[r] = {}
    /\ state[r] # "unused" => at[r] # None
    /\ parent[r] # None => state[parent[r]] # "unused"

\* a call carries its caller's depth, and remotely its path, one step on
CallsExtend == \A r \in Requests :
    /\ parent[r] = None => depth[r] = 0
    /\ parent[r] # None =>
         /\ depth[r] = depth[parent[r]] + 1
         /\ ~inline => visited[r] = visited[parent[r]] \cup {at[parent[r]]}
         /\ ~inline => depth[r] <= MaxDepth
         /\ state[parent[r]] \in {"running", "calling", "answered"}

\* what execute has let in has passed its checks, and nothing has undone them
PassedChecks == ~inline => \A r \in Requests :
    state[r] \in {"queued", "running", "calling", "answered"} =>
        at[r] \notin visited[r] /\ depth[r] <= RemoteDepthLimit

\* a waiting caller and its callee know each other; an inline callee never waits
WaitersFit == \A r \in Requests :
    /\ callee[r] # None => parent[callee[r]] = r
    /\ inline /\ parent[r] # None => state[r] \in {"running", "calling", "answered"}

\* each call uses up a request
DepthIsBounded == \A r \in Requests :
    depth[r] + Cardinality(Unused) <= Cardinality(Requests)

NestedInv == NestedTypeOK /\ UnusedAreFresh /\ CallsExtend /\ PassedChecks
             /\ WaitersFit /\ DepthIsBounded

(***************************************************************************)
(* Facts about sets.                                                       *)
(***************************************************************************)
LEMMA SmallestOf ==
    ASSUME NEW T, T \subseteq Nat, T # {}
    PROVE \E n \in T : \A m \in T : n <= m
<1>1. PICK n \in T : \A m \in T : <<m, n>> \notin OpToRel(<, Nat)
  BY WFMin, NatLessThanWellFounded
<1>2. \A m \in T : ~ (m < n)
  BY <1>1 DEF OpToRel
<1> QED
  BY <1>2

LEMMA SubsetsAreFinite ==
    ASSUME NEW S, S \subseteq Requests
    PROVE IsFiniteSet(S) /\ Cardinality(S) \in Nat
BY FS_Subset, FS_CardinalityType, NestedAssumption

\* what the next request is, when there is one
LEMMA NextIsUnused == MoreRequests => NextRequest \in Requests /\ state[NextRequest] = "unused"
BY DEF MoreRequests, NextRequest

(***************************************************************************)
(* The callers of a request, in any state of the invariant.                *)
(***************************************************************************)
LEMMA CallersOfRoot ==
    ASSUME NEW r \in Requests, parent[r] = None
    PROVE Callers(r) = {}
<1>1. {} \in {S \in SUBSET Requests : /\ parent[r] \in S \cup {None}
                                      /\ \A a \in S : parent[a] \in S \cup {None}}
  OBVIOUS
<1> QED
  BY <1>1 DEF Callers

LEMMA CallersOfCallee ==
    ASSUME NestedTypeOK, NEW r \in Requests, parent[r] # None
    PROVE parent[r] \in Requests /\ Callers(r) = Callers(parent[r]) \cup {parent[r]}
<1> DEFINE p == parent[r]
           Chain(q, S) == parent[q] \in S \cup {None} /\ \A a \in S : parent[a] \in S \cup {None}
<1>1. p \in Requests
  BY DEF NestedTypeOK
<1>2. \A q, a \in Requests : a \in Callers(q) <=> \A S \in SUBSET Requests : Chain(q, S) => a \in S
  BY DEF Callers
<1>3. Callers(r) \subseteq Requests /\ Callers(p) \subseteq Requests
  BY DEF Callers
<1>4. ASSUME NEW a \in Callers(r), a # p PROVE a \in Callers(p)
  <2>1. SUFFICES ASSUME NEW S \in SUBSET Requests, Chain(p, S) PROVE a \in S
    BY <1>1, <1>2, <1>3, <1>4
  <2>2. S \cup {p} \in SUBSET Requests /\ Chain(r, S \cup {p})
    BY <1>1, <2>1
  <2> QED
    BY <1>2, <1>3, <1>4, <2>2
<1>5. ASSUME NEW a \in Callers(p) \cup {p} PROVE a \in Callers(r)
  <2>1. SUFFICES ASSUME NEW S \in SUBSET Requests, Chain(r, S) PROVE a \in S
    BY <1>1, <1>2, <1>3, <1>5
  <2>2. p \in S /\ Chain(p, S)
    BY <1>1, <2>1, NestedAssumption
  <2> QED
    BY <1>1, <1>2, <1>3, <1>5, <2>2
<1> QED
  BY <1>1, <1>3, <1>4, <1>5

\* every caller's Garage is among the visited ones
LEMMA CallersAreVisited ==
    ASSUME NestedInv, ~inline, NEW r \in Requests, NEW a \in Callers(r)
    PROVE a \in Requests /\ at[a] \in visited[r]
<1> DEFINE V == {b \in Requests : at[b] \in visited[r] /\ visited[b] \subseteq visited[r]}
<1>1. parent[r] \in V \cup {None}
  BY DEF NestedInv, NestedTypeOK, CallsExtend
<1>2. \A b \in V : parent[b] \in V \cup {None}
  BY DEF NestedInv, NestedTypeOK, CallsExtend
<1> QED
  BY <1>1, <1>2 DEF Callers

\* the depth of a request that arrived is the number of its callers
LEMMA DepthCounts ==
    ASSUME NestedInv, ~inline
    PROVE \A r \in Requests : depth[r] = Cardinality(Callers(r))
<1> DEFINE Wrong == {r \in Requests : depth[r] # Cardinality(Callers(r))}
           T == {depth[r] : r \in Wrong}
<1>1. SUFFICES ASSUME Wrong # {} PROVE FALSE
  OBVIOUS
<1>2. depth \in [Requests -> Nat]
  BY DEF NestedInv, NestedTypeOK
<1>3. PICK r \in Wrong : \A q \in Wrong : depth[r] <= depth[q]
  <2>1. T \subseteq Nat /\ T # {}
    BY <1>1, <1>2
  <2>2. PICK n \in T : \A m \in T : n <= m
    BY <2>1, SmallestOf
  <2> QED
    BY <2>2
<1>4. parent[r] # None
  BY <1>3, CallersOfRoot, FS_EmptySet DEF NestedInv, CallsExtend
<1> DEFINE p == parent[r]
<1>5. p \in Requests /\ Callers(r) = Callers(p) \cup {p}
  BY <1>4, CallersOfCallee DEF NestedInv
<1>6. depth[r] = depth[p] + 1 /\ at[p] \notin visited[p]
  BY <1>4, <1>5 DEF NestedInv, CallsExtend, PassedChecks
<1>7. depth[p] = Cardinality(Callers(p))
  BY <1>2, <1>3, <1>5, <1>6
<1>8. p \notin Callers(p)
  BY <1>5, <1>6, CallersAreVisited
<1>9. IsFiniteSet(Callers(p))
  BY SubsetsAreFinite DEF Callers
<1> QED
  BY <1>3, <1>5, <1>6, <1>7, <1>8, <1>9, FS_AddElement
(***************************************************************************)
(* Every step keeps the invariant.                                         *)
(***************************************************************************)
\* what a request was given when it arrived stays true
LEMMA LinksStep ==
    ASSUME NestedInv, NEW r \in Requests, NEW g \in Garages,
           Step(r) \/ CallInline(r) \/ Call(r, g) \/ Submit(g)
    PROVE UnusedAreFresh' /\ CallsExtend' /\ PassedChecks' /\ WaitersFit'
<1> USE NextIsUnused, NestedAssumption DEF NestedInv, NestedTypeOK, UnusedAreFresh, Becomes, Resume, Ask, Arrive, CallsExtend, PassedChecks, WaitersFit, Acceptable
<1>1. CASE Refuse(r)
  BY <1>1 DEF Refuse
<1>2. CASE Admit(r)
  BY <1>2 DEF Admit
<1>3. CASE TakeLane(r)
  BY <1>3 DEF TakeLane
<1>4. CASE CallReturns(r)
  BY <1>4 DEF CallReturns
<1>5. CASE CallTimesOut(r)
  BY <1>5 DEF CallTimesOut
<1>6. CASE Finish(r)
  BY <1>6 DEF Finish
<1>7. CASE CallInline(r)
  BY <1>7 DEF CallInline
<1>8. CASE Call(r, g)
  BY <1>8 DEF Call
<1>9. CASE Submit(g)
  BY <1>9 DEF Submit
<1> QED
  BY <1>1, <1>2, <1>3, <1>4, <1>5, <1>6, <1>7, <1>8, <1>9 DEF Step

\* the fields keep their types, and only a calling request has a callee
LEMMA FieldsStep ==
    ASSUME NestedInv, NEW r \in Requests, NEW g \in Garages,
           Step(r) \/ CallInline(r) \/ Call(r, g) \/ Submit(g)
    PROVE /\ inline' \in BOOLEAN
          /\ state' \in [Requests -> {"unused", "arrived", "refused", "queued", "running",
                                      "calling", "answered"}]
          /\ at' \in [Requests -> Garages \cup {None}]
          /\ parent' \in [Requests -> Requests \cup {None}]
          /\ depth' \in [Requests -> Nat]
          /\ visited' \in [Requests -> SUBSET Garages]
          /\ callee' \in [Requests -> Requests \cup {None}]
          /\ \A q \in Requests : (callee'[q] # None) <=> (state'[q] = "calling")
<1> USE NextIsUnused, NestedAssumption DEF NestedInv, NestedTypeOK, UnusedAreFresh, Becomes, Resume, Ask, Arrive
<1>1. CASE Refuse(r)
  BY <1>1 DEF Refuse
<1>2. CASE Admit(r)
  BY <1>2 DEF Admit
<1>3. CASE TakeLane(r)
  BY <1>3 DEF TakeLane
<1>4. CASE CallReturns(r)
  BY <1>4 DEF CallReturns
<1>5. CASE CallTimesOut(r)
  BY <1>5 DEF CallTimesOut
<1>6. CASE Finish(r)
  BY <1>6 DEF Finish
<1>7. CASE CallInline(r)
  BY <1>7 DEF CallInline
<1>8. CASE Call(r, g)
  BY <1>8 DEF Call
<1>9. CASE Submit(g)
  BY <1>9 DEF Submit
<1> QED
  BY <1>1, <1>2, <1>3, <1>4, <1>5, <1>6, <1>7, <1>8, <1>9 DEF Step

LEMMA Grows ==
    ASSUME NEW S, NEW T, S \subseteq Requests, T \subseteq Requests, NEW x,
           T \subseteq S \/ (x \notin S /\ T = S \cup {x}) \/ (x \in S /\ T = S \ {x})
    PROVE /\ Cardinality(S) \in Nat /\ Cardinality(T) \in Nat
          /\ T \subseteq S => Cardinality(T) <= Cardinality(S)
          /\ x \notin S /\ T = S \cup {x} => Cardinality(T) = Cardinality(S) + 1
          /\ x \in S /\ T = S \ {x} => Cardinality(T) = Cardinality(S) - 1
<1>1. IsFiniteSet(S) /\ Cardinality(S) \in Nat /\ Cardinality(T) \in Nat
  BY SubsetsAreFinite
<1> QED
  BY <1>1, FS_Subset, FS_AddElement, FS_RemoveElement

\* a lane is only taken where there is one, and a calling request keeps its own
LEMMA BusyStep ==
    ASSUME NestedInv, NEW r \in Requests, NEW g \in Garages,
           Step(r) \/ CallInline(r) \/ Call(r, g) \/ Submit(g)
    PROVE \A h \in Garages : Busy(h)' <= LaneCount
<1> SUFFICES ASSUME NEW h \in Garages PROVE Busy(h)' <= LaneCount
  OBVIOUS
<1> DEFINE Owners == {q \in Requests : at[q] = h /\ OwnsLane(q)}
           OwnersNext == {q \in Requests : at'[q] = h /\ OwnsLane(q)'}
<1>1. Busy(h) = Cardinality(Owners) /\ Busy(h)' = Cardinality(OwnersNext) /\ Busy(h) <= LaneCount
  BY DEF Busy, NestedInv, NestedTypeOK
<1>2. Owners \subseteq Requests /\ OwnersNext \subseteq Requests /\ LaneCount \in Nat
  BY NestedAssumption
<1> USE DEF NestedInv, NestedTypeOK, UnusedAreFresh, OwnsLane, Becomes
<1>3. CASE TakeLane(r)
  <2>1. OwnersNext \subseteq Owners \/ (r \notin Owners /\ OwnersNext = Owners \cup {r})
    BY <1>3 DEF TakeLane
  <2>2. r \notin Owners /\ OwnersNext = Owners \cup {r} => Busy(h) < LaneCount
    <3>1. OwnersNext = Owners \cup {r} => at[r] = h
      BY <1>3 DEF TakeLane
    <3> QED
      BY <3>1, <1>3 DEF TakeLane
  <2> HIDE DEF Owners, OwnersNext
  <2> QED
    BY <1>1, <1>2, <2>1, <2>2, Grows
<1>4. CASE ~TakeLane(r)
  <2>1. OwnersNext \subseteq Owners
    <3> USE NextIsUnused, NestedAssumption DEF Resume, Ask, Arrive, WaitersFit
    <3>1. CASE Refuse(r) \/ Admit(r) \/ Finish(r)
      BY <3>1 DEF Refuse, Admit, Finish
    <3>2. CASE CallReturns(r) \/ CallTimesOut(r)
      BY <3>2 DEF CallReturns, CallTimesOut
    <3>3. CASE Call(r, g)
      BY <3>3 DEF Call
    <3>4. CASE CallInline(r)
      BY <3>4 DEF CallInline
    <3>5. CASE Submit(g)
      BY <3>5 DEF Submit
    <3> QED
      BY <1>4, <3>1, <3>2, <3>3, <3>4, <3>5 DEF Step
  <2> HIDE DEF Owners, OwnersNext
  <2> QED
    BY <1>1, <1>2, <2>1, Grows
<1> QED
  BY <1>3, <1>4

\* try_acquire: nobody is admitted past the limit, and a call is not yet admitted
LEMMA PendingStep ==
    ASSUME NestedInv, NEW r \in Requests, NEW g \in Garages,
           Step(r) \/ CallInline(r) \/ Call(r, g) \/ Submit(g)
    PROVE \A h \in Garages : ~inline' => Pending(h)' <= MaxPending
<1> SUFFICES ASSUME NEW h \in Garages, ~inline' PROVE Pending(h)' <= MaxPending
  OBVIOUS
<1> USE DEF NestedInv, NestedTypeOK, UnusedAreFresh, Becomes, Resume, Ask, Arrive
<1>0. ~inline
  BY DEF Step, Refuse, Admit, TakeLane, CallReturns, CallTimesOut, Finish, CallInline, Call, Submit
<1> DEFINE Inside == {q \in Requests : at[q] = h /\ Admitted(q)}
           InsideNext == {q \in Requests : at'[q] = h /\ Admitted(q)'}
<1>1. Pending(h) = Cardinality(Inside) /\ Pending(h)' = Cardinality(InsideNext) /\ Pending(h) <= MaxPending
  BY <1>0 DEF Pending
<1>2. Inside \subseteq Requests /\ InsideNext \subseteq Requests /\ MaxPending \in Nat
  BY NestedAssumption
<1> USE DEF Admitted
<1>3. CASE Admit(r)
  <2>1. InsideNext \subseteq Inside \/ (r \notin Inside /\ InsideNext = Inside \cup {r})
    BY <1>3 DEF Admit
  <2>2. r \notin Inside /\ InsideNext = Inside \cup {r} => Pending(h) < MaxPending
    <3>1. InsideNext = Inside \cup {r} => at[r] = h
      BY <1>3 DEF Admit
    <3> QED
      BY <1>0, <3>1, <1>3 DEF Admit, Acceptable
  <2> HIDE DEF Inside, InsideNext
  <2> QED
    BY <1>1, <1>2, <2>1, <2>2, Grows
<1>4. CASE ~Admit(r)
  <2>1. InsideNext \subseteq Inside
    <3> USE NextIsUnused, NestedAssumption
    <3>1. CASE Refuse(r) \/ TakeLane(r) \/ Finish(r)
      BY <3>1 DEF Refuse, TakeLane, Finish
    <3>2. CASE CallReturns(r) \/ CallTimesOut(r)
      BY <3>2 DEF CallReturns, CallTimesOut
    <3>3. CASE Call(r, g)
      BY <3>3 DEF Call
    <3>4. CASE Submit(g)
      BY <3>4 DEF Submit
    <3> QED
      BY <1>0, <1>4, <3>1, <3>2, <3>3, <3>4 DEF Step, CallInline
  <2> HIDE DEF Inside, InsideNext
  <2> QED
    BY <1>1, <1>2, <2>1, Grows
<1> QED
  BY <1>3, <1>4

\* a request that is used leaves the unused ones, and is one deeper than its caller
LEMMA DepthStep ==
    ASSUME NestedInv, NEW r \in Requests, NEW g \in Garages,
           Step(r) \/ CallInline(r) \/ Call(r, g) \/ Submit(g)
    PROVE DepthIsBounded'
<1> USE DEF NestedInv, NestedTypeOK, UnusedAreFresh, Becomes, Resume, Ask, Arrive
<1>1. Unused \subseteq Requests /\ Unused' \subseteq Requests /\ Cardinality(Requests) \in Nat
  BY SubsetsAreFinite DEF Unused
<1>2. CASE Step(r)
  <2>1. Unused' \subseteq Unused /\ depth' = depth
    BY <1>2 DEF Step, Refuse, Admit, TakeLane, CallReturns, CallTimesOut, Finish, Unused
  <2>2. Cardinality(Unused)' <= Cardinality(Unused) /\ Cardinality(Unused) \in Nat /\ Cardinality(Unused)' \in Nat
    BY <1>1, <2>1, Grows
  <2> QED
    BY <1>1, <2>1, <2>2 DEF DepthIsBounded
<1>3. CASE Submit(g) \/ Call(r, g) \/ CallInline(r)
  <2> DEFINE c == NextRequest
  <2>1. c \in Unused /\ Unused' = Unused \ {c}
    BY <1>3, NextIsUnused DEF Submit, Call, CallInline, Unused
  <2>2. Cardinality(Unused)' = Cardinality(Unused) - 1 /\ Cardinality(Unused) \in Nat /\ Cardinality(Unused)' \in Nat
    BY <1>1, <2>1, Grows
  <2>3. \A q \in Requests : depth'[q] = depth[q] \/ depth'[q] = 0 \/ depth'[q] = depth[r] + 1
    BY <1>3, NextIsUnused DEF Submit, Call, CallInline
  <2>4. Cardinality(Unused) <= Cardinality(Requests)
    BY <1>1, FS_Subset, NestedAssumption
  <2> QED
    BY <1>1, <2>2, <2>3, <2>4 DEF DepthIsBounded
<1> QED
  BY <1>2, <1>3

LEMMA NestedInit == Init => NestedInv
<1> SUFFICES ASSUME Init PROVE NestedInv
  OBVIOUS
<1> USE NestedAssumption DEF Init
<1>1. \A h \in Garages : Busy(h) = 0 /\ Pending(h) = 0
  <2>1. \A h \in Garages : /\ {r \in Requests : at[r] = h /\ OwnsLane(r)} = {}
                           /\ {r \in Requests : at[r] = h /\ Admitted(r)} = {}
    BY DEF OwnsLane, Admitted
  <2> QED
    BY <2>1, FS_EmptySet DEF Busy, Pending
<1>2. NestedTypeOK
  BY <1>1 DEF NestedTypeOK
<1>3. UnusedAreFresh /\ CallsExtend /\ PassedChecks /\ WaitersFit
  BY DEF UnusedAreFresh, CallsExtend, PassedChecks, WaitersFit
<1>4. DepthIsBounded
  <2>1. Unused = Requests
    BY DEF Unused
  <2> QED
    BY <2>1, SubsetsAreFinite DEF DepthIsBounded
<1> QED
  BY <1>2, <1>3, <1>4 DEF NestedInv

(* The conjunction is inductive, whatever PitLane sends where and whoever  *)
(* gives up.                                                               *)
THEOREM NestedInvariant == Spec => []NestedInv
<1>1. NestedInv /\ [Next]_vars => NestedInv'
  <2> SUFFICES ASSUME NestedInv, [Next]_vars PROVE NestedInv'
    OBVIOUS
  <2>1. CASE UNCHANGED vars
    <3>1. \A h \in Garages : Busy(h)' = Busy(h) /\ Pending(h)' = Pending(h)
      BY <2>1 DEF vars, Busy, Pending, OwnsLane, Admitted
    <3>2. Unused' = Unused
      BY <2>1 DEF vars, Unused
    <3>3. NestedTypeOK' /\ DepthIsBounded'
      BY <2>1, <3>1, <3>2 DEF vars, NestedInv, NestedTypeOK, DepthIsBounded
    <3>4. UnusedAreFresh' /\ CallsExtend' /\ PassedChecks' /\ WaitersFit'
      BY <2>1 DEF vars, NestedInv, UnusedAreFresh, CallsExtend, PassedChecks, WaitersFit
    <3> QED
      BY <3>3, <3>4 DEF NestedInv
  <2>2. ASSUME NEW r \in Requests, NEW g \in Garages,
               Step(r) \/ CallInline(r) \/ Call(r, g) \/ Submit(g)
        PROVE NestedInv'
    <3>1. NestedTypeOK'
      BY <2>2, FieldsStep, BusyStep, PendingStep DEF NestedTypeOK
    <3> QED
      BY <2>2, <3>1, LinksStep, DepthStep DEF NestedInv
  <2>3. CASE Next
    <3>1. ASSUME NEW g \in Garages, Submit(g) PROVE NestedInv'
      <4>1. NextRequest \in Requests
        BY <3>1, NextIsUnused DEF Submit
      <4> QED
        BY <2>2, <3>1, <4>1
    <3>2. ASSUME NEW r \in Requests, Step(r) \/ CallInline(r) PROVE NestedInv'
      <4>1. state[r] # "unused"
        BY <3>2 DEF Step, CallInline, Ask, Becomes, Resume, Refuse, Admit, TakeLane, CallReturns,
                    CallTimesOut, Finish
      <4>2. at[r] \in Garages
        BY <4>1 DEF NestedInv, NestedTypeOK, UnusedAreFresh
      <4> QED
        BY <2>2, <3>2, <4>2
    <3>3. ASSUME NEW r \in Requests, NEW g \in Garages, Call(r, g) PROVE NestedInv'
      BY <2>2, <3>3
    <3> QED
      BY <2>3, <3>1, <3>2, <3>3 DEF Next
  <2> QED
    BY <2>1, <2>3
<1> QED
  BY NestedInit, <1>1, PTL DEF Spec

(* Every variable keeps its type; no Garage runs more requests than it has *)
(* lanes or admits more than max_pending.                                  *)
THEOREM NestedTypeCorrect == Spec => []NestedTypeOK
<1>1. NestedInv => NestedTypeOK
  BY DEF NestedInv
<1> QED
  BY <1>1, NestedInvariant, PTL

(* A chain of remote calls of any length visits each Garage once, and its  *)
(* depth counts its callers, however many Garages and lanes there are.     *)
THEOREM ChainsVisitOnce == Spec => []ChainVisitsOnce
<1>1. NestedInv => ChainVisitsOnce
  <2> SUFFICES ASSUME NestedInv, ~inline, NEW r \in Requests, Admitted(r)
               PROVE /\ \A a \in Callers(r) : at[a] # at[r]
                     /\ depth[r] = Cardinality(Callers(r))
                     /\ depth[r] <= RemoteDepthLimit /\ depth[r] <= MaxDepth
    BY DEF ChainVisitsOnce
  <2>1. at[r] \notin visited[r] /\ depth[r] <= RemoteDepthLimit
    BY DEF NestedInv, PassedChecks, Admitted
  <2>2. \A a \in Callers(r) : at[a] # at[r]
    BY <2>1, CallersAreVisited
  <2>3. depth[r] <= MaxDepth
    BY NestedAssumption DEF NestedInv, CallsExtend
  <2> QED
    BY <2>1, <2>2, <2>3, DepthCounts
<1> QED
  BY <1>1, NestedInvariant, PTL

(* Inline calls do not wait for each other in a circle: below the deepest  *)
(* calling request there is one that runs or has ended.                    *)
THEOREM InlineCallsMove == Spec => []InlineNeedsNoTimeout
<1>1. NestedInv => InlineNeedsNoTimeout
  <2> SUFFICES ASSUME NestedInv, inline, NEW q \in Requests, state[q] = "calling"
               PROVE \E r \in Requests : \/ state[r] = "running"
                                         \/ state[r] = "calling" /\ Over(callee[r])
    BY DEF InlineNeedsNoTimeout
  <2> DEFINE N == Cardinality(Requests)
             Callings == {r \in Requests : state[r] = "calling"}
             T == {N - depth[r] : r \in Callings}
  <2>1. N \in Nat /\ \A r \in Requests : depth[r] \in Nat /\ depth[r] <= N
    <3>1. N \in Nat /\ Cardinality(Unused) \in Nat
      BY SubsetsAreFinite DEF Unused
    <3> QED
      BY <3>1 DEF NestedInv, NestedTypeOK, DepthIsBounded
  <2>2. PICK r \in Callings : \A a \in Callings : depth[a] <= depth[r]
    <3>1. T \subseteq Nat /\ T # {}
      BY <2>1
    <3>2. PICK n \in T : \A m \in T : n <= m
      BY <3>1, SmallestOf
    <3>3. PICK r \in Callings : n = N - depth[r]
      BY <3>2
    <3>4. \A a \in Callings : N - depth[r] <= N - depth[a]
      BY <3>2, <3>3
    <3> QED
      BY <2>1, <3>3, <3>4
  <2> DEFINE c == callee[r]
  <2>3. c \in Requests /\ parent[c] = r /\ r # None
    BY <2>2, NestedAssumption DEF NestedInv, NestedTypeOK, WaitersFit
  <2>4. depth[c] = depth[r] + 1 /\ state[c] \in {"running", "calling", "answered"}
    BY <2>3 DEF NestedInv, CallsExtend, WaitersFit
  <2>5. c \notin Callings
    BY <2>1, <2>2, <2>3, <2>4
  <2> QED
    BY <2>2, <2>3, <2>4, <2>5 DEF Over
<1> QED
  BY <1>1, NestedInvariant, PTL
=============================================================================
