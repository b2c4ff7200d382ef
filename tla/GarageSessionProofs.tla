------------------------ MODULE GarageSessionProofs ------------------------
(***************************************************************************)
(* Proofs about GarageSession, for any set of artifacts and any number of  *)
(* faults.                                                                 *)
(***************************************************************************)
EXTENDS GarageSession, TLAPS

Heartbeats == [kind : {"heartbeat"}, session : Nat, local : SUBSET Digests, hot : SUBSET Digests]
Acceptances == [kind : {"accepted"}, session : Nat]

(***************************************************************************)
(* The inductive invariant.  A session that is answered to a registration  *)
(* and not yet held is fresh: nothing in flight names it and nothing was   *)
(* told in it.  So whatever names the held session was sent by the living  *)
(* process, and what it says stays true, for nothing leaves memory or the  *)
(* store while the process lives.                                          *)
(***************************************************************************)
\* the task waits for the request of its place, or for its answer
RequestFits ==
    /\ pc \in {"down", "sleeping"} => request = Nothing
    /\ pc \in {"joining", "rejoining"} => request \in {Register, Refused} \cup Acceptances
    /\ pc = "beating" => request \in Heartbeats \cup {Refused} \cup Acceptances

\* no session is named that was not given out
SessionsIssued == \A m \in InFlight :
    m \in Heartbeats \cup Acceptances => m.session <= issued

True(local, hot) == local \subseteq stored /\ hot \subseteq prepared

\* about the session s of the living process, everything in flight is true
TrueInFlight == (Up /\ session # NoSession) =>
    \A m \in InFlight : (m \in Heartbeats /\ m.session = session) => True(m.local, m.hot)

FreshAnswer == (pc \in {"joining", "rejoining"} /\ request \in Acceptances) =>
    /\ request.session > session
    /\ \A f \in Faults : late[f] \in Heartbeats => late[f].session # request.session
    /\ circuit.session = request.session => circuit.local = {} /\ circuit.hot = {}

SessionInv == SessionTypeOK /\ RequestFits /\ SessionsIssued
                /\ TrueInFlight /\ FreshAnswer /\ ViewIsTrue

LEMMA KindsDiffer ==
    /\ Requests = {Register} \cup Heartbeats
    /\ Register \notin Heartbeats \cup Acceptances \cup {Nothing, Refused}
    /\ Nothing \notin Heartbeats \cup Acceptances \cup {Refused}
    /\ Refused \notin Heartbeats \cup Acceptances
    /\ \A m \in Heartbeats : m \notin Acceptances
    /\ Register.kind = "register" /\ Nothing.kind = "nothing" /\ Refused.kind = "refused"
    /\ \A m \in Heartbeats : m.kind = "heartbeat"
    /\ \A m \in Acceptances : m.kind = "accepted"
    /\ \A m \in Heartbeats \cup Acceptances : m.session \in Nat
    /\ \A s \in Nat : Accepted(s) \in Acceptances /\ Accepted(s).session = s
BY DEF Requests, Heartbeats, Acceptances, Register, Nothing, Refused, Accepted

LEMMA OwnHeartbeat ==
    ASSUME SessionTypeOK
    PROVE /\ Heartbeat \in Heartbeats
          /\ Heartbeat.session = session /\ Heartbeat.local = stored /\ Heartbeat.hot = prepared
BY DEF SessionTypeOK, Heartbeat, Heartbeats

LEMMA KnowsFields ==
    ASSUME NEW s, NEW local, NEW hot
    PROVE /\ Knows(s, local, hot).session = s
          /\ Knows(s, local, hot).local = local /\ Knows(s, local, hot).hot = hot
BY DEF Knows

\* a fault leaves the request under way; an answer takes a message away
LEMMA LateAbandoned ==
    ASSUME SessionTypeOK, Abandon
    PROVE  /\ late' \in [Faults -> Requests \cup {Nothing}]
           /\ \A f \in Faults : late'[f] \in {late[f], request, Nothing}
BY DEF SessionTypeOK, Abandon

LEMMA LateAnswered ==
    ASSUME SessionTypeOK, NEW m, NEW r, Answers(m, r)
    PROVE  /\ late' \in [Faults -> Requests \cup {Nothing}]
           /\ \A f \in Faults : late'[f] \in {late[f], Nothing}
           /\ \/ request' = request
              \/ request = m /\ request' = r
BY DEF SessionTypeOK, Answers

LEMMA SessionInit == Init => SessionInv
<1> SUFFICES ASSUME Init PROVE SessionInv
  OBVIOUS
<1>1. SessionTypeOK
  BY FaultAssumption DEF Init, SessionTypeOK, Knows, NoSession
<1>2. RequestFits /\ SessionsIssued /\ TrueInFlight /\ FreshAnswer /\ ViewIsTrue
  BY KindsDiffer DEF Init, RequestFits, SessionsIssued, TrueInFlight, FreshAnswer, ViewIsTrue,
                     InFlight, Up
<1> QED
  BY <1>1, <1>2 DEF SessionInv

LEMMA SessionStep == SessionInv /\ [Next]_vars => SessionInv'
<1> SUFFICES ASSUME SessionInv, [Next]_vars PROVE SessionInv'
  OBVIOUS
<1> USE KindsDiffer, FaultAssumption
<1> USE DEF SessionInv, RequestFits, SessionsIssued, TrueInFlight, FreshAnswer, ViewIsTrue,
            SessionTypeOK, InFlight, True, Up, NoSession
<1>1. CASE UNCHANGED vars
  BY <1>1 DEF vars, process, artifacts
<1>2. CASE Start
  BY <1>2 DEF Start, Goes, artifacts
<1>3. CASE Crash
  BY <1>3, LateAbandoned DEF Crash, Fault, Stops, Goes
<1>4. CASE Beat
  BY <1>4, OwnHeartbeat DEF Beat, Goes, artifacts
<1>5. CASE Joined
  BY <1>5 DEF Joined, Goes, artifacts
<1>6. CASE BeatTaken
  BY <1>6 DEF BeatTaken, Goes, artifacts
<1>7. CASE TurnedDown
  BY <1>7 DEF TurnedDown, Fails, Stops, Goes, artifacts
<1>8. CASE TimesOut
  BY <1>8, LateAbandoned DEF TimesOut, Fault, Fails, Stops, Goes, artifacts
<1>9. ASSUME NEW d \in Digests, Acquire(d) \/ Prepare(d) PROVE SessionInv'
  BY <1>9 DEF Acquire, Prepare, process
<1>10. CASE CircuitActs
  <2>1. PICK m \in InFlight : Delivered(m)
    BY <1>10 DEF CircuitActs
  <2>2. UNCHANGED <<pc, session, stored, prepared, faults>>
    BY <2>1 DEF Delivered, artifacts
  <2>3. CASE CircuitJoins
    <3>1. issued' = issued + 1 /\ circuit'.session = issued + 1
          /\ circuit'.local = {} /\ circuit'.hot = {}
      BY <2>3, KnowsFields DEF CircuitJoins
    <3>2. SessionTypeOK'
      BY <2>2, <2>3, LateAnswered DEF CircuitJoins, Accepted, Knows
    <3>6. /\ \A f \in Faults : late'[f] \in {late[f], Nothing}
          /\ \/ request' = request
             \/ request = Register /\ request' = Accepted(issued + 1)
      BY <2>3, LateAnswered DEF CircuitJoins
    <3>3. CASE request = Register /\ request' = Accepted(issued + 1)
      <4>1. pc \in {"joining", "rejoining"}
        BY <3>3
      <4>2. request' \in Acceptances /\ request'.session = issued + 1
        BY <3>3
      <4>3. RequestFits' /\ SessionsIssued'
        BY <2>2, <3>1, <3>2, <3>3, <3>6, <4>1, <4>2
      <4>4. TrueInFlight' /\ ViewIsTrue'
        BY <2>2, <3>1, <3>3, <3>6, <4>1, <4>2
      <4>5. FreshAnswer'
        BY <2>2, <3>1, <3>2, <3>3, <3>6, <4>1, <4>2
      <4>6. QED
        BY <3>2, <4>3, <4>4, <4>5
    <3>4. CASE request' = request
      BY <2>2, <3>1, <3>2, <3>4, <3>6
    <3>5. QED
      BY <3>3, <3>4, <3>6
  <2>4. CASE CircuitRefuses
    BY <2>2, <2>4, LateAnswered DEF CircuitRefuses
  <2>5. CASE CircuitHears(m)
    <3>1. m \in Heartbeats
      BY <2>5 DEF CircuitHears
    <3>2. CASE m.session = circuit.session
      <4>1. circuit'.session = m.session /\ circuit'.local = m.local /\ circuit'.hot = m.hot
        BY <2>5, <3>2, KnowsFields DEF CircuitHears
      <4>2. SessionTypeOK'
        BY <2>2, <2>5, <3>1, <3>2, LateAnswered DEF CircuitHears, Accepted, Knows, Heartbeats
      <4>3. QED
        BY <2>2, <2>5, <3>1, <3>2, <4>1, <4>2, LateAnswered DEF CircuitHears
    <3>3. CASE m.session # circuit.session
      BY <2>2, <2>5, <3>1, <3>3, LateAnswered DEF CircuitHears
    <3>4. QED
      BY <3>2, <3>3
  <2>6. QED
    BY <2>1, <2>3, <2>4, <2>5 DEF Delivered
<1>11. CASE Expires \/ LosesSession
  BY <1>11, KnowsFields DEF Expires, LosesSession, Forgets, Fault, process, artifacts, Knows
<1> QED
  BY <1>1, <1>2, <1>3, <1>4, <1>5, <1>6, <1>7, <1>8, <1>9, <1>10, <1>11 DEF Next

(* The conjunction is inductive, whatever is lost, late or forgotten and   *)
(* whenever the process dies.                                              *)
THEOREM SessionInvariant == Spec => []SessionInv
<1> QED
  BY SessionInit, SessionStep, PTL DEF Spec

(* Every variable of the session keeps its type.                           *)
THEOREM SessionTypeCorrect == Spec => []SessionTypeOK
<1>1. SessionInv => SessionTypeOK
  BY DEF SessionInv
<1> QED
  BY <1>1, SessionInvariant, PTL

(* In the session the living process holds, the Circuit calls hot only     *)
(* what is in memory and local only what is stored: heartbeat and register *)
(* of main.rs, with messages of any age in flight.                         *)
THEOREM CircuitViewTrue == Spec => []ViewIsTrue
<1>1. SessionInv => ViewIsTrue
  BY DEF SessionInv
<1> QED
  BY <1>1, SessionInvariant, PTL

=============================================================================
