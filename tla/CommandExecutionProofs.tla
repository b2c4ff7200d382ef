----------------------- MODULE CommandExecutionProofs -----------------------
(***************************************************************************)
(* Proofs about CommandExecution, for any set of executions that share a   *)
(* token and any choice of those that have a timeout.                      *)
(***************************************************************************)
EXTENDS CommandExecution, TLAPS

(***************************************************************************)
(* The inductive invariant.                                                *)
(***************************************************************************)
\* what a stored signal says has happened, and it has stopped the guest
SignalHasCause == \A e \in Executions :
    /\ late[e] => e \in Timed
    /\ signal[e] = "TimedOut" => late[e]
    /\ signal[e] = "Cancelled" => token
    /\ signal[e] # "None" => guest[e] = "trapped"
    /\ exceeded[e] => guest[e] = "trapped"

\* a status is given when the execution is reported, after its guest ended
ReportedGuestEnded == \A e \in Executions :
    /\ phase[e] = "reported" => (status[e] = "Refused" \/ Ended(e))
    /\ phase[e] # "reported" => status[e] = "none"
    /\ phase[e] = "new" => guest[e] = "idle"
    /\ status[e] = "Refused" => guest[e] = "idle"

CommandInv == CommandTypeOK /\ SignalHasCause /\ ReportedGuestEnded /\ StatusHasCause

LEMMA CommandInit == Init => CommandInv
<1> SUFFICES ASSUME Init PROVE CommandInv
  OBVIOUS
<1> USE DEF Init, ControlInit
<1>1. CommandTypeOK
  BY DEF CommandTypeOK, ControlTypeOK, Ways, Statuses
<1>2. SignalHasCause /\ ReportedGuestEnded /\ StatusHasCause
  BY DEF SignalHasCause, ReportedGuestEnded, StatusHasCause
<1> QED
  BY <1>1, <1>2 DEF CommandInv

\* the value the epoch callback stores fits its reason
LEMMA SignalOfCause ==
    ASSUME NEW e \in Executions, token \/ late[e]
    PROVE /\ SignalOf(e) \in {"TimedOut", "Cancelled"}
          /\ SignalOf(e) = "TimedOut" => late[e]
          /\ SignalOf(e) = "Cancelled" => token
BY DEF SignalOf

\* both ways of naming the end of an execution
LEMMA StatusForErrorCases ==
    ASSUME NEW e \in Executions, CommandTypeOK
    PROVE /\ signal[e] # "None" => StatusForError(e) = signal[e]
          /\ signal[e] = "None" /\ exceeded[e] => StatusForError(e) = "MemoryLimitExceeded"
          /\ signal[e] = "None" /\ ~exceeded[e] => StatusForError(e) = "RuntimeError"
BY DEF StatusForError, CommandTypeOK, ControlTypeOK

LEMMA ClassifyCases ==
    ASSUME NEW e \in Executions, CommandTypeOK
    PROVE /\ signal[e] # "None" => Classify(e) = signal[e]
          /\ signal[e] = "None" /\ exceeded[e] => Classify(e) = "MemoryLimitExceeded"
          /\ signal[e] = "None" /\ ~exceeded[e] => Classify(e) = StatusOfCall(e)
BY DEF Classify, CommandTypeOK, ControlTypeOK

LEMMA CommandStep == CommandInv /\ [Next]_vars => CommandInv'
<1> SUFFICES ASSUME CommandInv, [Next]_vars PROVE CommandInv'
  OBVIOUS
<1> USE TimedAssumption
<1> USE DEF CommandInv, CommandTypeOK, ControlTypeOK, SignalHasCause, ReportedGuestEnded,
            StatusHasCause, Ended, Ways, Statuses
<1>1. CASE UNCHANGED vars
  BY <1>1 DEF vars, control
<1>2. CASE Cancel /\ UNCHANGED <<phase, way, status>>
  BY <1>2 DEF Cancel
<1>3. ASSUME NEW e \in Executions, Step(e) PROVE CommandInv'
  <2>1. CASE Refuse(e)
    BY <2>1 DEF Refuse, Report, control
  <2>2. CASE Begin(e)
    BY <2>2 DEF Begin, GuestMoves
  <2>3. CASE CallStart(e)
    BY <2>3 DEF CallStart, control
  <2>4. CASE GuestReturns(e)
    BY <2>4 DEF GuestReturns, GuestMoves
  <2>5. CASE InstantiationFails(e)
    BY <2>5, StatusForErrorCases DEF InstantiationFails, Report
  <2>6. CASE ReportCall(e)
    <3>1. /\ Ended(e) /\ status[e] = "none"
          /\ StatusOfCall(e) = "GuestTrap" => guest[e] = "trapped"
          /\ StatusOfCall(e) \in {"Completed", "GuestExitNonZero"} => guest[e] = "returned"
          /\ StatusOfCall(e) \in {"GuestTrap", "Completed", "GuestExitNonZero"}
      BY <2>6 DEF ReportCall, StatusOfCall
    <3>2. /\ status' = [status EXCEPT ![e] = Classify(e)]
          /\ phase' = [phase EXCEPT ![e] = "reported"]
          /\ UNCHANGED <<token, late, signal, exceeded, guest, way>>
      BY <2>6 DEF ReportCall, Report, control
    <3>3. Classify(e) \in Statuses \ {"none", "Refused"}
      BY <3>1, ClassifyCases
    <3>4. CommandTypeOK' /\ SignalHasCause' /\ ReportedGuestEnded'
      BY <3>1, <3>2, <3>3
    <3>5. StatusHasCause'
      BY <3>1, <3>2, ClassifyCases
    <3> QED
      BY <3>4, <3>5
  <2>7. CASE DeadlinePasses(e) /\ UNCHANGED <<phase, way, status>>
    BY <2>7 DEF DeadlinePasses
  <2>8. CASE EpochCheck(e) /\ UNCHANGED <<phase, way, status>>
    BY <2>8, SignalOfCause DEF EpochCheck, GuestMoves
  <2>9. CASE GrowTooFar(e) /\ UNCHANGED <<phase, way, status>>
    BY <2>9 DEF GrowTooFar, GuestMoves
  <2>10. CASE TrapItself(e) /\ UNCHANGED <<phase, way, status>>
    BY <2>10 DEF TrapItself, GuestMoves
  <2>11. CASE HostCall(e) /\ UNCHANGED <<phase, way, status>>
    BY <2>11 DEF HostCall, EnterHost, GuestMoves
  <2>12. CASE LeaveHost(e) /\ UNCHANGED <<phase, way, status>>
    BY <2>12 DEF LeaveHost, GuestMoves
  <2> QED
    BY <1>3, <2>1, <2>2, <2>3, <2>4, <2>5, <2>6, <2>7, <2>8, <2>9, <2>10,
       <2>11, <2>12
    DEF Step, ControlStep
<1> QED
  BY <1>1, <1>2, <1>3 DEF Next

LEMMA CommandInvariant == Spec => []CommandInv
<1> QED
  BY CommandInit, CommandStep, PTL DEF Spec

(* The state of a batch of command executions is well-typed.               *)
THEOREM CommandTypeCorrect == Spec => []CommandTypeOK
<1>1. CommandInv => CommandTypeOK
  BY DEF CommandInv
<1> QED
  BY <1>1, CommandInvariant, PTL

(* Every status names what ended the guest: execute and execute_p2 never   *)
(* report a timeout, a cancellation or a memory limit without its reason   *)
(* and a guest that was stopped, nor anything but its return for a guest   *)
(* that returned, whatever expired before the report.                      *)
THEOREM StatusCause == Spec => []StatusHasCause
<1>1. CommandInv => StatusHasCause
  BY DEF CommandInv
<1> QED
  BY <1>1, CommandInvariant, PTL

(* A guest whose epoch callback stored a signal never runs again, and the  *)
(* signal is never replaced.                                               *)
THEOREM InterruptFinal == Spec => InterruptIsFinal
<1> DEFINE Final == \A e \in Executions : signal[e] # "None" =>
                       signal'[e] = signal[e] /\ guest'[e] = "trapped"
<1>1. CommandInv /\ [Next]_vars => [Final]_vars
  <2> SUFFICES ASSUME CommandInv, Next PROVE Final
    BY DEF vars
  <2> USE DEF CommandInv, CommandTypeOK, ControlTypeOK, SignalHasCause
  <2>1. ASSUME NEW e \in Executions, Step(e) PROVE Final
    BY <2>1 DEF Step, Refuse, Begin, CallStart, GuestReturns, InstantiationFails, ReportCall,
                Report, HostCall, EnterHost, LeaveHost, ControlStep, DeadlinePasses, EpochCheck,
                GrowTooFar, TrapItself, GuestMoves, control
  <2> QED
    BY <2>1 DEF Next, Cancel
<1> QED
  BY <1>1, CommandInvariant, PTL DEF Spec, InterruptIsFinal
=============================================================================
