---------------------------- MODULE GuestControl ----------------------------
(***************************************************************************)
(* How pit-runtime stops a guest: CancellationToken, ExecutionControl and  *)
(* its epoch deadline callback, RuntimeLimiter, and the epoch ticker.      *)
(*                                                                         *)
(* Wasmtime is external.  It calls the epoch callback only while a guest   *)
(* executes WebAssembly: a guest inside a host call is not interrupted.    *)
(* An interrupt, and an error of the limiter, end the guest with a trap.   *)
(* CommandExecution and HttpExecution extend this module.                  *)
(***************************************************************************)
EXTENDS Naturals, FiniteSets

CONSTANTS Executions,  \* executions that share one cancellation token
          Timed        \* those whose limits have a timeout

ASSUME TimedAssumption == Timed \subseteq Executions

VARIABLES token,     \* the CancellationToken: one atomic flag
          late,      \* late[e]: the deadline of e has passed
          signal,    \* signal[e]: "None", "TimedOut" or "Cancelled", an atomic
          exceeded,  \* exceeded[e]: memory_exceeded of the limiter
          guest      \* guest[e]: "idle", "wasm", "host", "returned" or "trapped"

control == <<token, late, signal, exceeded, guest>>

ControlInit == /\ token = FALSE
               /\ late = [e \in Executions |-> FALSE]
               /\ signal = [e \in Executions |-> "None"]
               /\ exceeded = [e \in Executions |-> FALSE]
               /\ guest = [e \in Executions |-> "idle"]

Ended(e) == guest[e] \in {"returned", "trapped"}
GuestMoves(e, from, to) == guest[e] = from /\ guest' = [guest EXCEPT ![e] = to]

\* whoever holds a clone of the token may cancel at any moment
Cancel == ~token /\ token' = TRUE /\ UNCHANGED <<late, signal, exceeded, guest>>

\* the deadline counts from ExecutionControl::new, not from the request
DeadlinePasses(e) == /\ e \in Timed
                     /\ guest[e] # "idle" /\ ~late[e]
                     /\ late' = [late EXCEPT ![e] = TRUE]
                     /\ UNCHANGED <<token, signal, exceeded, guest>>

\* the callback asks for the token before it asks for the deadline
SignalOf(e) == IF token THEN "Cancelled" ELSE "TimedOut"

\* the callback stores the signal and lets the guest go on (a broken variant)
CheckWithoutInterrupt(e) == /\ token \/ late[e]
                            /\ guest[e] = "wasm"
                            /\ signal' = [signal EXCEPT ![e] = SignalOf(e)]
                            /\ UNCHANGED <<token, late, exceeded, guest>>

\* only the deadline is looked at (a broken variant)
CheckDeadlineOnly(e) == /\ late[e]
                        /\ GuestMoves(e, "wasm", "trapped")
                        /\ signal' = [signal EXCEPT ![e] = SignalOf(e)]
                        /\ UNCHANGED <<token, late, exceeded>>

\* a tick reaches the guest: UpdateDeadline::Interrupt, after the store; a
\* check that finds neither reason continues and changes nothing
EpochCheck(e) == /\ token \/ late[e]
                 /\ GuestMoves(e, "wasm", "trapped")
                 /\ signal' = [signal EXCEPT ![e] = SignalOf(e)]
                 /\ UNCHANGED <<token, late, exceeded>>

\* memory_growing refuses the growth
GrowTooFar(e) == /\ GuestMoves(e, "wasm", "trapped")
                 /\ exceeded' = [exceeded EXCEPT ![e] = TRUE]
                 /\ UNCHANGED <<token, late, signal>>

\* unreachable, a division by zero, an error of a host function
TrapItself(e) == GuestMoves(e, "wasm", "trapped") /\ UNCHANGED <<token, late, signal, exceeded>>

EnterHost(e) == GuestMoves(e, "wasm", "host") /\ UNCHANGED <<token, late, signal, exceeded>>
LeaveHost(e) == GuestMoves(e, "host", "wasm") /\ UNCHANGED <<token, late, signal, exceeded>>

ControlStep(e) == DeadlinePasses(e) \/ EpochCheck(e) \/ GrowTooFar(e) \/ TrapItself(e)

ControlTypeOK == /\ token \in BOOLEAN
                 /\ late \in [Executions -> BOOLEAN]
                 /\ signal \in [Executions -> {"None", "TimedOut", "Cancelled"}]
                 /\ exceeded \in [Executions -> BOOLEAN]
                 /\ guest \in [Executions -> {"idle", "wasm", "host", "returned", "trapped"}]
=============================================================================
