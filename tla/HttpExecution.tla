--------------------------- MODULE HttpExecution ---------------------------
(***************************************************************************)
(* PreparedArtifact::execute_http_with_invoker_timed: one wasi:http        *)
(* request, the guest that handles it, and the response task that collects *)
(* the body through a bounded channel while the guest writes it.           *)
(*                                                                         *)
(* wasi-http is external: a guest owns a response outparam and outgoing    *)
(* bodies, of its response and of requests it makes; a write blocks inside *)
(* the host while the channel is full; and what a returning guest still    *)
(* owns is dropped unless the guest leaks it.                              *)
(***************************************************************************)
EXTENDS GuestControl

CONSTANTS Capacity,     \* outgoing_body_buffer_chunks
          MaxChunks     \* bound on the length of a response

ASSUME ExchangeAssumption == Capacity \in Nat \ {0} /\ MaxChunks \in Nat

VARIABLES phase,     \* "new", "instantiating", "handling", "joined" or "reported"
          order,     \* "first" or "last": when the handler publishes its response
          toWrite,   \* chunks the handler has yet to write
          channel,   \* chunks written and not yet collected
          outparam,  \* "held", "set" or "dropped"
          body,      \* "open", "finished" or "dropped"
          blocked,   \* whether the guest is inside a blocking body write
          unsent,    \* whether the guest owns the unfinished body of a request
          sending,   \* whether the guest is inside send_request, or fills a request
          task,      \* "waiting", "collecting", "response", "failed" or "aborted"
          result     \* what the caller gets

exchange == <<order, toWrite, channel, outparam, body, blocked, unsent, sending, task>>
outgoing == <<unsent, sending>>
vars == <<control, phase, exchange, result>>

Init == /\ ControlInit
        /\ phase = [e \in Executions |-> "new"]
        /\ order \in [Executions -> {"first", "last"}]
        /\ toWrite \in [Executions -> 0..MaxChunks]
        /\ channel = [e \in Executions |-> 0]
        /\ outparam = [e \in Executions |-> "held"]
        /\ body = [e \in Executions |-> "open"]
        /\ blocked = [e \in Executions |-> FALSE]
        /\ unsent = [e \in Executions |-> FALSE]
        /\ sending = [e \in Executions |-> FALSE]
        /\ task = [e \in Executions |-> "waiting"]
        /\ result = [e \in Executions |-> "none"]

Set(f, e, v) == [f EXCEPT ![e] = v]

Report(e, r) == phase' = Set(phase, e, "reported") /\ result' = Set(result, e, r)

Begin(e) == /\ phase[e] = "new"
            /\ phase' = Set(phase, e, "instantiating")
            /\ GuestMoves(e, "idle", "wasm")
            /\ UNCHANGED <<token, late, signal, exceeded, exchange, result>>

\* an invalid request, or an instantiation that fails, traps or is interrupted
SetupFails(e) == /\ phase[e] = "instantiating"
                 /\ guest[e] \in {"wasm", "trapped"}
                 /\ guest' = Set(guest, e, "trapped")
                 /\ Report(e, "SetupFailed")
                 /\ UNCHANGED <<token, late, signal, exceeded, exchange>>

\* the handler and the response task are spawned
CallHandle(e) == /\ phase[e] = "instantiating" /\ guest[e] = "wasm"
                 /\ phase' = Set(phase, e, "handling")
                 /\ UNCHANGED <<control, exchange, result>>

-----------------------------------------------------------------------------
\* The guest.  The response of a task that failed is gone: writes fail at once.
Handling(e) == phase[e] = "handling" /\ guest[e] = "wasm"
Room(e) == channel[e] < Capacity \/ task[e] = "failed"
MayWrite(e) == /\ toWrite[e] > 0 /\ body[e] = "open"
               /\ order[e] = "first" => outparam[e] = "set"

WriteChunk(e) == /\ Handling(e) /\ MayWrite(e) /\ Room(e)
                 /\ toWrite' = Set(toWrite, e, toWrite[e] - 1)
                 /\ channel' = IF task[e] = "failed" THEN channel ELSE Set(channel, e, channel[e] + 1)
                 /\ UNCHANGED <<control, phase, result, order, outparam, body, blocked, outgoing, task>>

BlockOnWrite(e) == /\ phase[e] = "handling" /\ MayWrite(e) /\ ~Room(e)
                   /\ EnterHost(e)
                   /\ blocked' = Set(blocked, e, TRUE)
                   /\ UNCHANGED <<phase, result, order, toWrite, channel, outparam, body, outgoing, task>>

Unblock(e) == /\ blocked[e] /\ Room(e)
              /\ LeaveHost(e)
              /\ blocked' = Set(blocked, e, FALSE)
              /\ UNCHANGED <<phase, result, order, toWrite, channel, outparam, body, outgoing, task>>

FinishBody(e) == /\ Handling(e) /\ body[e] = "open" /\ toWrite[e] = 0
                 /\ order[e] = "first" => outparam[e] = "set"
                 /\ body' = Set(body, e, "finished")
                 /\ UNCHANGED <<control, phase, result, order, toWrite, channel, outparam, blocked, outgoing, task>>

Publish(e) == /\ Handling(e) /\ outparam[e] = "held"
              /\ order[e] = "last" => body[e] = "finished"
              /\ outparam' = Set(outparam, e, "set")
              /\ UNCHANGED <<control, phase, result, order, toWrite, channel, body, blocked, outgoing, task>>

\* a request of the guest's own: its body is begun, written and finished
BeginRequest(e) == /\ Handling(e) /\ ~unsent[e]
                   /\ unsent' = Set(unsent, e, TRUE)
                   /\ UNCHANGED <<control, phase, result, order, toWrite, channel, outparam, body,
                                  blocked, sending, task>>
FinishRequest(e) == /\ Handling(e) /\ unsent[e]
                    /\ unsent' = Set(unsent, e, FALSE)
                    /\ UNCHANGED <<control, phase, result, order, toWrite, channel, outparam, body,
                                   blocked, sending, task>>

\* send_request collects the body of the request before it invokes anybody: an
\* unfinished one is waited for here, where nobody can finish it.  A write into
\* the full channel of a body that is not sent yet waits in the same way.
SendRequest(e) == /\ phase[e] = "handling" /\ EnterHost(e)
                  /\ sending' = Set(sending, e, TRUE)
                  /\ UNCHANGED <<phase, result, order, toWrite, channel, outparam, body,
                                 blocked, unsent, task>>
Starved(e) == sending[e] /\ unsent[e]

\* service calls, clocks, requests that are refused or whose own body is
\* finished while another is not; then whatever others answer
OtherHostCall(e) == /\ phase[e] = "handling" /\ EnterHost(e)
                    /\ UNCHANGED <<phase, result, exchange>>
HostCallReturns(e) == /\ ~blocked[e] /\ ~Starved(e)
                      /\ LeaveHost(e)
                      /\ sending' = Set(sending, e, FALSE)
                      /\ UNCHANGED <<phase, result, order, toWrite, channel, outparam, body,
                                     blocked, unsent, task>>

\* the handler may return at any point, correct or not; what it still owns is
\* dropped, unless it leaks its handles and they stay in the store's table
GuestReturns(e) == /\ Handling(e)
                   /\ GuestMoves(e, "wasm", "returned")
                   /\ \/ /\ outparam' = [outparam EXCEPT ![e] = IF @ = "held" THEN "dropped" ELSE @]
                         /\ body' = [body EXCEPT ![e] = IF @ = "open" THEN "dropped" ELSE @]
                         /\ unsent' = Set(unsent, e, FALSE)
                      \/ UNCHANGED <<outparam, body, unsent>>
                   /\ UNCHANGED <<token, late, signal, exceeded, phase, result,
                                  order, toWrite, channel, blocked, sending, task>>

-----------------------------------------------------------------------------
\* The response task.
TaskGoes(e, from, to) == /\ task[e] = from
                         /\ task' = Set(task, e, to)
                         /\ UNCHANGED <<control, phase, result, order, toWrite, outparam, body, blocked, outgoing>>

\* a header that is not text fails the task and drops the response
Receive(e) == /\ outparam[e] = "set"
              /\ \E to \in {"collecting", "failed"} : TaskGoes(e, "waiting", to)
              /\ UNCHANGED channel

\* the task waits for another sender (a broken variant)
IgnoreDroppedOutparam(e) == outparam[e] = "dropped" /\ task[e] = "waiting" /\ UNCHANGED vars

\* "HTTP guest dropped response output"
NoResponse(e) == /\ outparam[e] = "dropped"
                 /\ TaskGoes(e, "waiting", "failed")
                 /\ UNCHANGED channel

\* the body is drained only when the guest has ended (a broken variant)
CollectAfterGuest(e) == /\ task[e] = "collecting" /\ Ended(e) /\ channel[e] > 0
                        /\ channel' = Set(channel, e, channel[e] - 1)
                        /\ UNCHANGED <<control, phase, result, order, toWrite, outparam, body, blocked, outgoing, task>>

CollectChunk(e) == /\ task[e] = "collecting" /\ channel[e] > 0
                   /\ channel' = Set(channel, e, channel[e] - 1)
                   /\ UNCHANGED <<control, phase, result, order, toWrite, outparam, body, blocked, outgoing, task>>

\* a dropped body counts as a complete one (a broken variant)
CollectWhatCame(e) == /\ channel[e] = 0
                      /\ body[e] # "open" /\ TaskGoes(e, "collecting", "response")
                      /\ UNCHANGED channel

CollectEnds(e) == /\ channel[e] = 0
                  /\ \/ body[e] = "finished" /\ TaskGoes(e, "collecting", "response")
                     \/ body[e] = "dropped" /\ TaskGoes(e, "collecting", "failed")
                  /\ UNCHANGED channel

-----------------------------------------------------------------------------
\* The caller: handler.await, then response_task.await, then the signal.
HandlerFails(e) == /\ phase[e] = "handling" /\ guest[e] = "trapped"
                   /\ task' = Set(task, e, "aborted")
                   /\ Report(e, "HandlerFailed")
                   /\ UNCHANGED <<control, order, toWrite, channel, outparam, body, blocked, outgoing>>

HandlerJoined(e) == /\ phase[e] = "handling" /\ guest[e] = "returned"
                    /\ phase' = Set(phase, e, "joined")
                    /\ UNCHANGED <<control, exchange, result>>

ResponseFails(e) == /\ phase[e] = "joined" /\ task[e] = "failed"
                    /\ Report(e, "ResponseFailed")
                    /\ UNCHANGED <<control, exchange>>

Respond(e) == /\ phase[e] = "joined" /\ task[e] = "response"
              /\ Report(e, CASE signal[e] # "None" -> signal[e]
                             [] signal[e] = "None" /\ exceeded[e] -> "MemoryLimitExceeded"
                             [] OTHER -> "Response")
              /\ UNCHANGED <<control, exchange>>

Guest(e) == \/ WriteChunk(e) \/ BlockOnWrite(e) \/ FinishBody(e) \/ Publish(e)
            \/ BeginRequest(e) \/ FinishRequest(e) \/ SendRequest(e)
            \/ OtherHostCall(e) \/ GuestReturns(e)
ResponseTask(e) == Receive(e) \/ NoResponse(e) \/ CollectChunk(e) \/ CollectEnds(e)
Caller(e) == HandlerFails(e) \/ HandlerJoined(e) \/ ResponseFails(e) \/ Respond(e)

Step(e) == \/ Begin(e) \/ SetupFails(e) \/ CallHandle(e)
           \/ Guest(e) \/ Unblock(e) \/ HostCallReturns(e)
           \/ ResponseTask(e) \/ Caller(e)
           \/ ControlStep(e) /\ UNCHANGED <<phase, exchange, result>>

Next == \/ \E e \in Executions : Step(e)
        \/ Cancel /\ UNCHANGED <<phase, exchange, result>>

Spec == Init /\ [][Next]_vars

(* Tokio runs ready tasks, and the ticker reaches a guest that keeps       *)
(* executing WebAssembly.  Host calls that wait for somebody else return:  *)
(* the invoker answers (Garage's gives up after 10 seconds), the backend   *)
(* answers, a sleep is over.  Calls that wait for the guest itself do not, *)
(* and nothing makes the guest write, finish, publish or return.           *)
Fairness == \A e \in Executions :
    /\ WF_vars(guest[e] = "trapped" /\ SetupFails(e))
    /\ SF_vars(EpochCheck(e) /\ UNCHANGED <<phase, exchange, result>>)
    /\ WF_vars(HostCallReturns(e)) /\ WF_vars(Unblock(e))
    /\ WF_vars(ResponseTask(e)) /\ WF_vars(Caller(e))

FairSpec == Spec /\ Fairness

-----------------------------------------------------------------------------
HttpTypeOK ==
    /\ ControlTypeOK
    /\ phase \in [Executions -> {"new", "instantiating", "handling", "joined", "reported"}]
    /\ order \in [Executions -> {"first", "last"}]
    /\ toWrite \in [Executions -> 0..MaxChunks]
    /\ channel \in [Executions -> 0..Capacity]
    /\ outparam \in [Executions -> {"held", "set", "dropped"}]
    /\ body \in [Executions -> {"open", "finished", "dropped"}]
    /\ blocked \in [Executions -> BOOLEAN]
    /\ unsent \in [Executions -> BOOLEAN] /\ sending \in [Executions -> BOOLEAN]
    /\ task \in [Executions -> {"waiting", "collecting", "response", "failed", "aborted"}]
    /\ result \in [Executions -> {"none", "SetupFailed", "HandlerFailed", "ResponseFailed",
                       "Response", "Cancelled", "TimedOut", "MemoryLimitExceeded"}]

(* A response is handed out only when the handler returned normally, within *)
(* its limits, after it had published and written the body to its end, and  *)
(* every chunk of it was collected.                                         *)
ResponseIsWhole == \A e \in Executions : result[e] = "Response" =>
    /\ guest[e] = "returned" /\ signal[e] = "None" /\ ~exceeded[e]
    /\ outparam[e] = "set" /\ body[e] = "finished"
    /\ toWrite[e] = 0 /\ channel[e] = 0

(* "HTTP execution exceeded its timeout" (and the arm above it): a handler  *)
(* that a timeout or a cancellation ended is reported as such.              *)
LimitIsNamed == \A e \in Executions :
    (phase[e] = "reported" /\ result[e] # "SetupFailed" /\ signal[e] # "None")
        => result[e] = signal[e]

(* "waiting for the guest before draining it deadlocks any legitimate       *)
(* response larger than the stream buffer" (lib.rs:1615): when the response *)
(* was published before its body, a write that found the channel full goes  *)
(* on.  A handler that publishes last is stuck there: nobody drains yet.    *)
Published(e) == order[e] = "first"
BlockedWriteResumes == \A e \in Executions :
    (blocked[e] /\ Published(e)) ~> ~blocked[e]

(* Three kinds of guests keep an exchange for good, and no limit ends it:   *)
(* one that publishes last and has filled the channel of its response; one *)
(* that sends a request whose body it has not finished; and one that has   *)
(* returned and leaked the sender that the response task waits for.        *)
Stuck(e) == blocked[e] /\ ~Published(e) /\ ~Room(e)
Leaked(e) == /\ phase[e] = "joined"
             /\ \/ task[e] = "waiting" /\ outparam[e] = "held"
                \/ task[e] = "collecting" /\ body[e] = "open" /\ channel[e] = 0
Endless(e) == Stuck(e) \/ Starved(e) \/ Leaked(e)

(* Once a guest has returned, the caller of execute_http gets its result,   *)
(* also if the guest forgot to publish or to finish its body; only a guest *)
(* that leaks its handles keeps the caller.                                *)
ReturnedGuestIsReported == \A e \in Executions :
    guest[e] = "returned" ~> (phase[e] = "reported" \/ Leaked(e))

(* A timeout or a cancellation that comes while the guest is at work ends   *)
(* the exchange, and with it the occupation of the execution lane, unless  *)
(* the guest has made it endless.                                          *)
LimitsEndExchange == \A e \in Executions :
    (phase[e] = "handling" /\ (token \/ late[e])) ~> (phase[e] = "reported" \/ Endless(e))
=============================================================================
