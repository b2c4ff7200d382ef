-------------------------- MODULE CommandExecution --------------------------
(***************************************************************************)
(* PreparedArtifact::execute for WASI commands: Preview 1 modules and      *)
(* Preview 2 components (execute_p2), which differ in how a guest can end  *)
(* but not in how its end becomes an ExecutionStatus.                      *)
(***************************************************************************)
EXTENDS GuestControl

VARIABLES phase,   \* phase[e]: "new", "instantiating", "calling" or "reported"
          way,     \* way[e]: how the guest returned
          status   \* status[e]: the ExecutionStatus, or "Refused" for an Err

vars == <<control, phase, way, status>>

Ways == {"Ok", "ExitZero", "ExitNonZero", "Failed"}

Init == /\ ControlInit
        /\ phase = [e \in Executions |-> "new"]
        /\ way = [e \in Executions |-> "none"]
        /\ status = [e \in Executions |-> "none"]

Report(e, s) == /\ phase' = [phase EXCEPT ![e] = "reported"]
                /\ status' = [status EXCEPT ![e] = s]

\* an invalid request, another artifact's, or an unknown entrypoint
Refuse(e) == /\ phase[e] = "new"
             /\ Report(e, "Refused")
             /\ UNCHANGED <<control, way>>

Begin(e) == /\ phase[e] = "new"
            /\ phase' = [phase EXCEPT ![e] = "instantiating"]
            /\ GuestMoves(e, "idle", "wasm")
            /\ UNCHANGED <<token, late, signal, exceeded, way, status>>

\* status_for_error and status_for_p2_error
StatusForError(e) == CASE signal[e] # "None" -> signal[e]
                       [] signal[e] = "None" /\ exceeded[e] -> "MemoryLimitExceeded"
                       [] OTHER -> "RuntimeError"

\* instantiation runs guest code, which may trap; the entrypoint may be missing
InstantiationFails(e) == /\ phase[e] = "instantiating"
                         /\ guest[e] \in {"wasm", "trapped"}
                         /\ guest' = [guest EXCEPT ![e] = "trapped"]
                         /\ Report(e, StatusForError(e))
                         /\ UNCHANGED <<token, late, signal, exceeded, way>>

CallStart(e) == /\ phase[e] = "instantiating" /\ guest[e] = "wasm"
                /\ phase' = [phase EXCEPT ![e] = "calling"]
                /\ UNCHANGED <<control, way, status>>

\* "Failed" is the Err(()) that only a Preview 2 run function returns
GuestReturns(e) == /\ phase[e] = "calling"
                   /\ GuestMoves(e, "wasm", "returned")
                   /\ \E w \in Ways : way' = [way EXCEPT ![e] = w]
                   /\ UNCHANGED <<token, late, signal, exceeded, phase, status>>

StatusOfCall(e) == IF guest[e] = "trapped" THEN "GuestTrap"
                   ELSE IF way[e] \in {"Ok", "ExitZero"} THEN "Completed"
                   ELSE "GuestExitNonZero"

\* the token and the deadline are looked at after the call (a broken variant)
ClassifyByLimits(e) == CASE token -> "Cancelled"
                         [] ~token /\ late[e] -> "TimedOut"
                         [] ~token /\ ~late[e] /\ exceeded[e] -> "MemoryLimitExceeded"
                         [] OTHER -> StatusOfCall(e)

\* the signal first, then the limiter, then what the call returned
Classify(e) == CASE signal[e] # "None" -> signal[e]
                 [] signal[e] = "None" /\ exceeded[e] -> "MemoryLimitExceeded"
                 [] OTHER -> StatusOfCall(e)

ReportCall(e) == /\ phase[e] = "calling" /\ Ended(e)
                 /\ Report(e, Classify(e))
                 /\ UNCHANGED <<control, way>>

Running(e) == phase[e] \in {"instantiating", "calling"}

HostCall(e) == phase[e] = "calling" /\ EnterHost(e)

Step(e) == \/ Refuse(e) \/ Begin(e) \/ CallStart(e) \/ GuestReturns(e)
           \/ InstantiationFails(e) \/ ReportCall(e)
           \/ (ControlStep(e) \/ HostCall(e) \/ LeaveHost(e)) /\ UNCHANGED <<phase, way, status>>

Next == \/ \E e \in Executions : Step(e)
        \/ Cancel /\ UNCHANGED <<phase, way, status>>

Spec == Init /\ [][Next]_vars

(* The ticker never stops while an artifact is alive, so a guest that keeps *)
(* executing WebAssembly keeps meeting epoch checks, also when it goes in   *)
(* and out of host calls (strong fairness).  Host calls return: commands    *)
(* have no sockets and no stdin, and what they may sleep is finite.         *)
Fairness == \A e \in Executions :
    /\ WF_vars(Begin(e) \/ Refuse(e))
    /\ SF_vars(EpochCheck(e) /\ UNCHANGED <<phase, way, status>>)
    /\ WF_vars(LeaveHost(e) /\ UNCHANGED <<phase, way, status>>)
    /\ WF_vars((guest[e] = "trapped" /\ InstantiationFails(e)) \/ ReportCall(e))

FairSpec == Spec /\ Fairness

-----------------------------------------------------------------------------
Statuses == {"none", "Refused", "Completed", "GuestExitNonZero", "GuestTrap", "TimedOut",
             "Cancelled", "MemoryLimitExceeded", "RuntimeError"}

CommandTypeOK == /\ ControlTypeOK
                 /\ phase \in [Executions -> {"new", "instantiating", "calling", "reported"}]
                 /\ way \in [Executions -> Ways \cup {"none"}]
                 /\ status \in [Executions -> Statuses]

(* A status names what ended the guest: TimedOut only after the execution's *)
(* own deadline, Cancelled only after the token was cancelled, the memory   *)
(* limit only after a refused growth, each of them only for a guest that    *)
(* was stopped; a trap is the guest's own; and a guest that returned is     *)
(* reported by its return, whatever has expired before it is reported.      *)
StatusHasCause == \A e \in Executions :
    /\ status[e] = "TimedOut" => e \in Timed /\ late[e]
    /\ status[e] = "Cancelled" => token
    /\ status[e] = "MemoryLimitExceeded" => exceeded[e]
    /\ status[e] = "GuestTrap" => guest[e] = "trapped" /\ signal[e] = "None" /\ ~exceeded[e]
    /\ status[e] \in {"TimedOut", "Cancelled", "MemoryLimitExceeded"} => guest[e] = "trapped"
    /\ status[e] \in {"Completed", "GuestExitNonZero"} => guest[e] = "returned"

(* An interrupt is final: a guest with a signal never runs or returns       *)
(* again, and its signal is not replaced by a later one.                    *)
InterruptIsFinal == [][\A e \in Executions : signal[e] # "None" =>
    signal'[e] = signal[e] /\ guest'[e] = "trapped"]_vars

(* "a timeout" can be set for each request (README), and the shared token   *)
(* stops every execution of a batch: an execution that is running when its  *)
(* deadline passes or its token is cancelled is reported, even if the guest *)
(* loops for ever.                                                          *)
LimitsEndExecutions == \A e \in Executions :
    (Running(e) /\ (token \/ late[e])) ~> (phase[e] = "reported")
=============================================================================
