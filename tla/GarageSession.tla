--------------------------- MODULE GarageSession ---------------------------
(***************************************************************************)
(* The session of a Garage with its Circuit: GarageAgent::register, called *)
(* by main and by the heartbeat task, and GarageAgent::heartbeat.          *)
(*                                                                         *)
(* One task sends one request at a time and waits for it up to the timeout *)
(* of its HTTP client; what it no longer waits for may still arrive.  The  *)
(* process may die at any time and be started again by its operator.       *)
(*                                                                         *)
(* The Circuit is external: every accepted registration gets a session of  *)
(* its own, with nothing known about the Garage; it may refuse one while   *)
(* another session is alive ("re-registration is not yet accepted"); it    *)
(* takes heartbeats of the current session and forgets one nobody renews.  *)
(***************************************************************************)
EXTENDS Naturals

CONSTANTS Digests,
          MaxFaults     \* bound on deaths, timeouts, and sessions the Circuit loses

ASSUME FaultAssumption == MaxFaults \in Nat

VARIABLES pc,        \* "down", "joining" (main), "sleeping", "beating" or "rejoining"
          session,   \* GarageAgent.session, or NoSession
          stored,    \* digests in the artifact store: local_digests
          prepared,  \* prepared_digests of the dispatcher
          request,   \* what the task waits for: a request, its answer, or Nothing
          late,      \* late[f]: the request that the fault f left under way, or Nothing
          circuit,   \* the session the Circuit holds, and what it was told in it
          issued,    \* sessions the Circuit has given out
          faults

process == <<pc, session, request>>
artifacts == <<stored, prepared>>
vars == <<process, artifacts, late, circuit, issued, faults>>

NoSession == 0
Nothing == [kind |-> "nothing"]
Register == [kind |-> "register"]
Heartbeat == [kind |-> "heartbeat", session |-> session, local |-> stored, hot |-> prepared]
Accepted(s) == [kind |-> "accepted", session |-> s]
Refused == [kind |-> "refused"]
Requests == {Register} \cup [kind : {"heartbeat"}, session : Nat,
                             local : SUBSET Digests, hot : SUBSET Digests]

Faults == 1 .. MaxFaults
InFlight == {request} \cup {late[f] : f \in Faults}

Knows(s, local, hot) == [session |-> s, local |-> local, hot |-> hot]

Init == /\ pc = "down" /\ session = NoSession /\ request = Nothing
        /\ stored \in SUBSET Digests /\ prepared = {}
        /\ late = [f \in Faults |-> Nothing]
        /\ circuit = Knows(NoSession, {}, {})
        /\ issued = 0 /\ faults = 0

Fault == faults < MaxFaults /\ faults' = faults + 1
\* nobody waits any more for what was sent; an answer is lost
Abandon == late' = [late EXCEPT ![faults + 1] = IF request \in Requests THEN request ELSE Nothing]
Up == pc # "down"
Goes(to, r) == pc' = to /\ request' = r

-----------------------------------------------------------------------------
\* main registers before it listens, and gives up when that fails
Start == /\ pc = "down"
         /\ Goes("joining", Register)
         /\ session' = NoSession
         /\ UNCHANGED <<artifacts, late, circuit, issued, faults>>

Stops == Goes("down", Nothing) /\ prepared' = {} /\ UNCHANGED stored

\* the request goes on without the process
Crash == /\ Up /\ Fault /\ Stops /\ Abandon
         /\ UNCHANGED <<session, circuit, issued>>

\* other artifacts than the ones in memory are called hot (a broken variant)
BeatFromDisk == /\ pc = "sleeping"
                /\ Goes("beating", [Heartbeat EXCEPT !.hot = stored])
                /\ UNCHANGED <<session, artifacts, late, circuit, issued, faults>>

\* one second has passed
Beat == /\ pc = "sleeping"
        /\ Goes("beating", Heartbeat)
        /\ UNCHANGED <<session, artifacts, late, circuit, issued, faults>>

Joined == /\ pc \in {"joining", "rejoining"} /\ request.kind = "accepted"
          /\ session' = request.session
          /\ Goes("sleeping", Nothing)
          /\ UNCHANGED <<artifacts, late, circuit, issued, faults>>

BeatTaken == /\ pc = "beating" /\ request.kind = "accepted"
             /\ Goes("sleeping", Nothing)
             /\ UNCHANGED <<session, artifacts, late, circuit, issued, faults>>

\* the next heartbeat is tried in the same session (a broken variant)
FailsWithoutRejoining == \/ pc = "joining" /\ Stops
                         \/ /\ pc \in {"beating", "rejoining"}
                            /\ Goes("sleeping", Nothing) /\ UNCHANGED artifacts

\* any failure of a call, an answer or none: main ends, a failed heartbeat is
\* followed by a registration at once, a failed registration by a heartbeat
Fails == \/ pc = "joining" /\ Stops
         \/ pc = "beating" /\ Goes("rejoining", Register) /\ UNCHANGED artifacts
         \/ pc = "rejoining" /\ Goes("sleeping", Nothing) /\ UNCHANGED artifacts

TurnedDown == /\ request.kind = "refused" /\ Fails
              /\ UNCHANGED <<session, late, circuit, issued, faults>>

TimesOut == /\ request # Nothing
            /\ Fault /\ Fails /\ Abandon
            /\ UNCHANGED <<session, circuit, issued>>

\* warmup_once stores an artifact, or finds it, and prepares it
Acquire(d) == /\ Up /\ stored' = stored \cup {d}
              /\ UNCHANGED <<process, prepared, late, circuit, issued, faults>>
Prepare(d) == /\ Up /\ d \in stored /\ prepared' = prepared \cup {d}
              /\ UNCHANGED <<process, stored, late, circuit, issued, faults>>

-----------------------------------------------------------------------------
\* The Circuit's answer reaches the one that still waits for it.
Answers(m, r) == \/ request = m /\ request' = r /\ UNCHANGED late
                 \/ /\ \E f \in Faults : late[f] = m /\ late' = [late EXCEPT ![f] = Nothing]
                    /\ UNCHANGED request

CircuitJoins == /\ issued' = issued + 1
                /\ circuit' = Knows(issued + 1, {}, {})
                /\ Answers(Register, Accepted(issued + 1))

CircuitRefuses == /\ circuit.session # NoSession
                  /\ Answers(Register, Refused)
                  /\ UNCHANGED <<circuit, issued>>

CircuitHears(m) == /\ m.kind = "heartbeat"
                   /\ IF m.session = circuit.session
                        THEN /\ circuit' = Knows(m.session, m.local, m.hot)
                             /\ Answers(m, Accepted(m.session))
                        ELSE Answers(m, Refused) /\ UNCHANGED circuit
                   /\ UNCHANGED issued

Delivered(m) == /\ \/ m = Register /\ (CircuitJoins \/ CircuitRefuses)
                   \/ CircuitHears(m)
                /\ UNCHANGED <<pc, session, artifacts, faults>>
CircuitActs == \E m \in InFlight : Delivered(m)

Forgets == /\ circuit.session # NoSession
           /\ circuit' = Knows(NoSession, {}, {})
           /\ UNCHANGED <<process, artifacts, late, issued>>

\* a session that no living process has or is about to get
Orphaned == ~(Up /\ (circuit.session = session \/ request = Accepted(circuit.session)))
Expires == Orphaned /\ Forgets /\ UNCHANGED faults

\* it restarts, or heartbeats were too slow
LosesSession == Fault /\ Forgets

Next == \/ Start \/ Crash
        \/ Beat \/ Joined \/ BeatTaken \/ TurnedDown \/ TimesOut
        \/ \E d \in Digests : Acquire(d) \/ Prepare(d)
        \/ CircuitActs \/ Expires \/ LosesSession

Spec == Init /\ [][Next]_vars

(* The heartbeat task is scheduled, the Circuit answers what reaches it,   *)
(* and lets a session expire that nobody renews.  Nobody must start the    *)
(* process.                                                                *)
Fairness == /\ WF_vars(Beat) /\ WF_vars(Joined) /\ WF_vars(BeatTaken) /\ WF_vars(TurnedDown)
            /\ WF_vars(\E m \in {request} : Delivered(m))
            /\ WF_vars(Expires)

FairSpec == Spec /\ Fairness

-----------------------------------------------------------------------------
SessionTypeOK ==
    /\ pc \in {"down", "joining", "sleeping", "beating", "rejoining"}
    /\ session \in 0 .. issued /\ issued \in Nat
    /\ stored \subseteq Digests /\ prepared \subseteq Digests
    /\ request \in Requests \cup {Nothing, Refused} \cup [kind : {"accepted"}, session : Nat]
    /\ late \in [Faults -> Requests \cup {Nothing}]
    /\ circuit \in [session : 0 .. issued, local : SUBSET Digests, hot : SUBSET Digests]
    /\ faults \in 0 .. MaxFaults

(* What the Circuit was told in the session that the living process holds  *)
(* is true of this process, whatever heartbeats and registrations of this  *)
(* or of an earlier process arrive late: an artifact it routes to as hot   *)
(* is in memory, one it takes as local is in the store.                    *)
ViewIsTrue == (Up /\ session # NoSession /\ circuit.session = session) =>
    circuit.hot \subseteq prepared /\ circuit.local \subseteq stored

(* Whatever was lost, delayed, refused or forgotten: as long as the process *)
(* lives, an artifact it has prepared becomes known to the Circuit as hot,  *)
(* in the session the process holds.                                        *)
HotBecomesKnown == \A d \in Digests :
    (d \in prepared) ~> (~Up \/ (circuit.session = session /\ d \in circuit.hot))
=============================================================================
