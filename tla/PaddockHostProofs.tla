------------------------- MODULE PaddockHostProofs -------------------------
(***************************************************************************)
(* Proofs about HttpExecution and PaddockHost, for any executions, any     *)
(* capacity of the body channel, any length of the responses, and any      *)
(* writers, keys and grants.  First the exchange alone: its responses are  *)
(* whole.  Then the exchange with the Paddock host: it still is an HTTP    *)
(* execution, and its writers are those of ObjectWrites.                   *)
(***************************************************************************)
EXTENDS PaddockHost, TLAPS

(***************************************************************************)
(* The inductive invariant: a response is known to be whole step by step,  *)
(* by the handler that finishes its body, by the task that has collected   *)
(* it, and by the caller that has joined the handler.                      *)
(***************************************************************************)
BodyIsWritten == \A e \in Executions : body[e] = "finished" => toWrite[e] = 0

BodyIsCollected == \A e \in Executions :
    /\ task[e] \in {"collecting", "response"} => outparam[e] = "set"
    /\ task[e] = "response" => body[e] = "finished" /\ channel[e] = 0

JoinedReturned == \A e \in Executions : phase[e] = "joined" => guest[e] = "returned"

BlockedInHost == \A e \in Executions : blocked[e] => guest[e] = "host"

HttpInv == /\ HttpTypeOK /\ BodyIsWritten /\ BodyIsCollected
           /\ JoinedReturned /\ BlockedInHost /\ ResponseIsWhole

LEMMA HttpInit == Init => HttpInv
<1> SUFFICES ASSUME Init PROVE HttpInv
  OBVIOUS
<1> USE ExchangeAssumption DEF Init, ControlInit
<1>1. HttpTypeOK
  <2>1. ControlTypeOK
    BY DEF ControlTypeOK
  <2>2. channel \in [Executions -> 0..Capacity] /\ toWrite \in [Executions -> 0..MaxChunks]
    OBVIOUS
  <2>3. blocked \in [Executions -> BOOLEAN]
    BY Zenon
  <2>4. QED
    BY <2>1, <2>2, <2>3 DEF HttpTypeOK
<1>2. BodyIsWritten /\ BodyIsCollected /\ JoinedReturned /\ BlockedInHost /\ ResponseIsWhole
  BY DEF BodyIsWritten, BodyIsCollected, JoinedReturned, BlockedInHost, ResponseIsWhole
<1> QED
  BY <1>1, <1>2 DEF HttpInv

LEMMA UnsentIsFlag ==
    ASSUME HttpTypeOK, NEW e \in Executions, GuestReturns(e) \/ BeginRequest(e) \/ FinishRequest(e)
    PROVE  unsent' \in [Executions -> BOOLEAN]
<1>1. unsent \in [Executions -> BOOLEAN]
  BY DEF HttpTypeOK
<1>2. unsent' \in {unsent, [unsent EXCEPT ![e] = TRUE], [unsent EXCEPT ![e] = FALSE]}
  BY DEF GuestReturns, BeginRequest, FinishRequest, Set
<1>3. \A v \in BOOLEAN : [unsent EXCEPT ![e] = v] \in [Executions -> BOOLEAN]
  BY <1>1, Zenon
<1> QED
  BY <1>1, <1>2, <1>3

\* a return drops what the handler holds, and nothing that it published
LEMMA ReturnDrops ==
    ASSUME HttpTypeOK, NEW e \in Executions, GuestReturns(e)
    PROVE  /\ outparam' \in [Executions -> {"held", "set", "dropped"}]
           /\ body' \in [Executions -> {"open", "finished", "dropped"}]
           /\ \A x \in Executions : /\ x # e => outparam'[x] = outparam[x] /\ body'[x] = body[x]
                                    /\ outparam'[x] = "set" <=> outparam[x] = "set"
                                    /\ body'[x] = "finished" <=> body[x] = "finished"
<1>1. \/ UNCHANGED <<outparam, body>>
      \/ /\ outparam' = [outparam EXCEPT ![e] = IF @ = "held" THEN "dropped" ELSE @]
         /\ body' = [body EXCEPT ![e] = IF @ = "open" THEN "dropped" ELSE @]
  BY DEF GuestReturns
<1> QED
  BY <1>1 DEF HttpTypeOK

LEMMA HttpStep == HttpInv /\ [Next]_vars => HttpInv'
<1> SUFFICES ASSUME HttpInv, [Next]_vars PROVE HttpInv'
  OBVIOUS
<1> USE ExchangeAssumption, TimedAssumption
<1> USE DEF HttpInv, HttpTypeOK, ControlTypeOK, BodyIsWritten, BodyIsCollected,
            JoinedReturned, BlockedInHost, ResponseIsWhole, Set, control, exchange, outgoing
<1>1. CASE UNCHANGED vars
  BY <1>1 DEF vars
<1>2. CASE Cancel /\ UNCHANGED <<phase, exchange, result>>
  BY <1>2 DEF Cancel
<1>3. ASSUME NEW e \in Executions, Step(e) PROVE HttpInv'
  <2>1. CASE Begin(e)
    BY <2>1 DEF Begin, GuestMoves
  <2>2. CASE SetupFails(e)
    BY <2>2 DEF SetupFails, Report
  <2>3. CASE CallHandle(e)
    BY <2>3 DEF CallHandle
  <2>4. CASE WriteChunk(e)
    BY <2>4 DEF WriteChunk, Handling, MayWrite, Room
  <2>5. CASE BlockOnWrite(e)
    BY <2>5 DEF BlockOnWrite, EnterHost, GuestMoves
  <2>6. CASE FinishBody(e)
    BY <2>6 DEF FinishBody, Handling
  <2>7. CASE Publish(e)
    BY <2>7 DEF Publish, Handling
  <2>8. CASE OtherHostCall(e)
    BY <2>8 DEF OtherHostCall, EnterHost, GuestMoves
  <2>9. CASE GuestReturns(e)
    <3> USE <2>9 DEF GuestReturns, Handling, GuestMoves
    <3>1. /\ outparam' \in [Executions -> {"held", "set", "dropped"}]
          /\ body' \in [Executions -> {"open", "finished", "dropped"}]
          /\ \A x \in Executions : /\ outparam[x] = "set" => outparam'[x] = "set"
                                   /\ body'[x] = "finished" <=> body[x] = "finished"
      BY ReturnDrops
    <3>7. unsent' \in [Executions -> BOOLEAN]
      BY UnsentIsFlag
    <3>2. HttpTypeOK'
      BY <3>1, <3>7
    <3>3. (BodyIsWritten /\ BodyIsCollected)'
      BY <3>1
    <3>4. JoinedReturned' /\ BlockedInHost'
      OBVIOUS
    <3>6. ResponseIsWhole'
      BY <3>1
    <3>5. QED
      BY <3>2, <3>3, <3>4, <3>6
  <2>10. CASE Unblock(e) \/ HostCallReturns(e)
    <3>1. CASE Unblock(e)
      BY <3>1 DEF Unblock, LeaveHost, GuestMoves
    <3>2. CASE HostCallReturns(e)
      BY <3>2 DEF HostCallReturns, LeaveHost, GuestMoves
    <3>3. QED
      BY <2>10, <3>1, <3>2
  <2>11. CASE Receive(e) \/ NoResponse(e)
    BY <2>11 DEF Receive, NoResponse, TaskGoes
  <2>12. CASE CollectChunk(e)
    <3> USE <2>12 DEF CollectChunk
    <3>1. /\ task[e] = "collecting" /\ channel' = [channel EXCEPT ![e] = channel[e] - 1]
          /\ channel' \in [Executions -> 0..Capacity]
      OBVIOUS
    <3>2. UNCHANGED <<control, phase, result, order, toWrite, outparam, body, blocked, unsent,
                      sending, task>>
      OBVIOUS
    <3>3. HttpTypeOK' /\ BodyIsWritten' /\ JoinedReturned' /\ BlockedInHost'
      BY <3>1, <3>2
    <3>4. BodyIsCollected' /\ ResponseIsWhole'
      BY <3>1, <3>2
    <3>5. QED
      BY <3>3, <3>4
  <2>13. CASE CollectEnds(e)
    BY <2>13 DEF CollectEnds, TaskGoes
  <2>14. CASE HandlerFails(e) \/ HandlerJoined(e) \/ ResponseFails(e)
    <3>1. CASE HandlerFails(e)
      BY <3>1 DEF HandlerFails, Report
    <3>2. CASE HandlerJoined(e)
      BY <3>2 DEF HandlerJoined
    <3>3. CASE ResponseFails(e)
      BY <3>3 DEF ResponseFails, Report
    <3>4. QED
      BY <2>14, <3>1, <3>2, <3>3
  <2>15. CASE Respond(e)
    BY <2>15 DEF Respond, Report
  <2>16. CASE ControlStep(e) /\ UNCHANGED <<phase, exchange, result>>
    <3>1. CASE DeadlinePasses(e)
      BY <2>16, <3>1 DEF DeadlinePasses
    <3>2. CASE EpochCheck(e)
      BY <2>16, <3>2 DEF EpochCheck, GuestMoves, SignalOf
    <3>3. CASE GrowTooFar(e)
      BY <2>16, <3>3 DEF GrowTooFar, GuestMoves
    <3>4. CASE TrapItself(e)
      BY <2>16, <3>4 DEF TrapItself, GuestMoves
    <3>5. QED
      BY <2>16, <3>1, <3>2, <3>3, <3>4 DEF ControlStep
  <2>17. CASE BeginRequest(e) \/ FinishRequest(e)
    <3> USE <2>17 DEF BeginRequest, FinishRequest
    <3>1. unsent' \in [Executions -> BOOLEAN]
      BY UnsentIsFlag
    <3>2. UNCHANGED <<control, phase, result, order, toWrite, channel, outparam, body,
                      blocked, sending, task>>
      OBVIOUS
    <3>3. QED
      BY <3>1, <3>2
  <2>18. CASE SendRequest(e)
    BY <2>18 DEF SendRequest, EnterHost, GuestMoves
  <2>19. QED
    BY <1>3, <2>1, <2>2, <2>3, <2>4, <2>5, <2>6, <2>7, <2>8, <2>9, <2>10, <2>11, <2>12,
       <2>13, <2>14, <2>15, <2>16, <2>17, <2>18 DEF Step, Guest, ResponseTask, Caller
<1> QED
  BY <1>1, <1>2, <1>3 DEF Next

(* No step of a guest, its response task or the handler's caller breaks    *)
(* any part of the invariant.                                              *)
THEOREM HttpInvariant == Spec => []HttpInv
<1> QED
  BY HttpInit, HttpStep, PTL DEF Spec

(* Every variable of an exchange keeps its type; the body channel never    *)
(* holds more than outgoing_body_buffer_chunks.                            *)
THEOREM HttpTypeCorrect == Spec => []HttpTypeOK
<1>1. HttpInv => HttpTypeOK
  BY DEF HttpInv
<1> QED
  BY <1>1, HttpInvariant, PTL

(* execute_http_with_invoker_timed hands out a response only when it is    *)
(* whole and its handler returned within its limits.                       *)
THEOREM ResponseWhole == Spec => []ResponseIsWhole
<1>1. HttpInv => ResponseIsWhole
  BY DEF HttpInv
<1> QED
  BY <1>1, HttpInvariant, PTL

-----------------------------------------------------------------------------
(***************************************************************************)
(* Who waits for whom: the caller for the handler and then for the         *)
(* response task, the task for the guest, a guest that writes for the      *)
(* task, and a guest that sends a request it has not finished for itself.  *)
(***************************************************************************)
GuestGoesOn(e) == \/ guest[e] = "wasm"
                  \/ guest[e] = "host" /\ (blocked[e] => Room(e)) /\ ~Starved(e)

TaskGoesOn(e) == \/ task[e] = "waiting" /\ outparam[e] # "held"
                 \/ task[e] = "collecting" /\ (channel[e] > 0 \/ body[e] # "open")

CallerGoesOn(e) == \/ phase[e] = "handling" /\ Ended(e)
                   \/ phase[e] = "joined" /\ task[e] \in {"failed", "response"}

(* "waiting for the guest before draining it deadlocks" (lib.rs:1615): the  *)
(* guest, the response task and the caller never all wait, whatever the    *)
(* capacity of the channel and the length of the body, unless the guest    *)
(* has made the exchange endless.                                          *)
ExchangeNeverWaits == \A e \in Executions :
    phase[e] \in {"handling", "joined"}
        => GuestGoesOn(e) \/ TaskGoesOn(e) \/ CallerGoesOn(e) \/ Endless(e)

(* A handler that publishes last and has filled the channel, or that sends *)
(* a request it has not finished, stays so, and so does a leaked sender:   *)
(* the epoch callback does not reach them, so neither timeout nor          *)
(* cancellation ends the exchange, and it keeps its lane.                  *)
EndlessStays == [][\A e \in Executions : Endless(e) => Endless(e)']_vars

(***************************************************************************)
(* The inductive invariant: what the one has already done whom the other   *)
(* waits for.  A blocked guest owns an open body, and has published unless *)
(* it publishes last; only a guest that returns drops what it owns; a task *)
(* is aborted by a caller that reports; who sends a request is in the host *)
(* for nothing else.                                                       *)
(***************************************************************************)
WaitInv == \A e \in Executions :
    /\ phase[e] # "new" => guest[e] # "idle"
    /\ task[e] = "aborted" => phase[e] = "reported"
    /\ "dropped" \in {outparam[e], body[e]} => guest[e] = "returned"
    /\ (outparam[e] = "set" /\ order[e] = "last") => body[e] = "finished"
    /\ blocked[e] => /\ phase[e] = "handling" /\ body[e] = "open"
                     /\ order[e] = "first" => outparam[e] = "set"
    /\ sending[e] => phase[e] = "handling" /\ guest[e] = "host" /\ ~blocked[e]

LEMMA WaitStep == HttpInv /\ WaitInv /\ [Next]_vars => WaitInv'
<1> SUFFICES ASSUME HttpInv, WaitInv, [Next]_vars PROVE WaitInv'
  OBVIOUS
<1> USE ExchangeAssumption, TimedAssumption
<1> USE DEF HttpInv, HttpTypeOK, ControlTypeOK, BodyIsCollected, JoinedReturned,
            BlockedInHost, WaitInv, Set, control, exchange, outgoing
<1>1. CASE UNCHANGED vars
  BY <1>1 DEF vars
<1>2. CASE Cancel /\ UNCHANGED <<phase, exchange, result>>
  BY <1>2 DEF Cancel
<1>3. ASSUME NEW e \in Executions, Step(e) PROVE WaitInv'
  <2>1. CASE Begin(e) \/ SetupFails(e) \/ CallHandle(e)
    BY <2>1 DEF Begin, SetupFails, CallHandle, GuestMoves, Report
  <2>2. CASE WriteChunk(e)
    BY <2>2 DEF WriteChunk
  <2>3. CASE BlockOnWrite(e)
    BY <2>3 DEF BlockOnWrite, MayWrite, EnterHost, GuestMoves
  <2>4. CASE FinishBody(e) \/ Publish(e)
    BY <2>4 DEF FinishBody, Publish, Handling
  <2>5. CASE OtherHostCall(e)
    BY <2>5 DEF OtherHostCall, EnterHost, GuestMoves
  <2>6. CASE GuestReturns(e)
    <3> USE <2>6 DEF GuestReturns, Handling, GuestMoves
    <3>1. \A x \in Executions :
             /\ x # e => outparam'[x] = outparam[x] /\ body'[x] = body[x]
             /\ outparam'[x] = "set" <=> outparam[x] = "set"
             /\ body'[x] = "finished" <=> body[x] = "finished"
      BY ReturnDrops
    <3>2. ~blocked[e] /\ ~sending[e] /\ guest' = [guest EXCEPT ![e] = "returned"]
      OBVIOUS
    <3>3. UNCHANGED <<phase, order, blocked, sending, task>>
      OBVIOUS
    <3>4. QED
      BY <3>1, <3>2, <3>3
  <2>7. CASE Unblock(e) \/ HostCallReturns(e)
    BY <2>7 DEF Unblock, HostCallReturns, LeaveHost, GuestMoves
  <2>8. CASE ResponseTask(e)
    BY <2>8 DEF ResponseTask, Receive, NoResponse, CollectChunk, CollectEnds, TaskGoes
  <2>9. CASE Caller(e)
    BY <2>9 DEF Caller, HandlerFails, HandlerJoined, ResponseFails, Respond, Report
  <2>10. CASE ControlStep(e) /\ UNCHANGED <<phase, exchange, result>>
    BY <2>10 DEF ControlStep, DeadlinePasses, EpochCheck, GrowTooFar, TrapItself, GuestMoves
  <2>11. CASE BeginRequest(e) \/ FinishRequest(e) \/ SendRequest(e)
    BY <2>11 DEF BeginRequest, FinishRequest, SendRequest, EnterHost, GuestMoves
  <2>12. QED
    BY <1>3, <2>1, <2>2, <2>3, <2>4, <2>5, <2>6, <2>7, <2>8, <2>9, <2>10, <2>11 DEF Step, Guest
<1> QED
  BY <1>1, <1>2, <1>3 DEF Next

LEMMA WaitInvariant == Spec => [](HttpInv /\ WaitInv)
<1>1. Init => WaitInv
  BY DEF Init, ControlInit, WaitInv
<1> QED
  BY <1>1, WaitStep, HttpInvariant, PTL DEF Spec

(* The guest, its response task and the caller of execute_http never wait  *)
(* for each other in a circle.                                             *)
THEOREM ExchangeGoesOn == Spec => []ExchangeNeverWaits
<1>1. ASSUME HttpInv, WaitInv PROVE ExchangeNeverWaits
  <2> SUFFICES ASSUME NEW e \in Executions, phase[e] \in {"handling", "joined"}, ~Endless(e)
               PROVE GuestGoesOn(e) \/ TaskGoesOn(e) \/ CallerGoesOn(e)
    BY DEF ExchangeNeverWaits
  <2>0. ~Stuck(e) /\ ~Starved(e) /\ ~Leaked(e)
    BY DEF Endless
  <2> USE <1>1 DEF HttpInv, HttpTypeOK, ControlTypeOK, WaitInv
  <2>1. guest[e] # "idle" /\ task[e] # "aborted"
    OBVIOUS
  <2>2. CASE phase[e] = "handling" /\ guest[e] # "host"
    BY <2>1, <2>2 DEF GuestGoesOn, CallerGoesOn, Ended
  <2>3. CASE phase[e] = "handling" /\ guest[e] = "host"
    <3>1. CASE ~blocked[e] \/ Room(e)
      BY <2>0, <2>3, <3>1 DEF GuestGoesOn
    <3>2. CASE blocked[e] /\ ~Room(e)
      <4>1. outparam[e] = "set" /\ body[e] = "open"
        BY <2>0, <3>2 DEF Stuck, Published
      <4>2. task[e] \in {"waiting", "collecting"}
        BY <2>1, <3>2, <4>1 DEF Room, BodyIsCollected
      <4>3. channel[e] > 0
        BY <3>2, ExchangeAssumption DEF Room
      <4>4. QED
        BY <4>1, <4>2, <4>3 DEF TaskGoesOn
    <3>3. QED
      BY <3>1, <3>2
  <2>4. CASE phase[e] = "joined"
    BY <2>0, <2>1, <2>4 DEF JoinedReturned, Leaked, BodyIsCollected, TaskGoesOn, CallerGoesOn
  <2>5. QED
    BY <2>2, <2>3, <2>4
<1> QED
  BY <1>1, WaitInvariant, PTL

LEMMA StuckStep ==
    ASSUME HttpInv, WaitInv, Next, NEW x \in Executions, Stuck(x)
    PROVE  Stuck(x)'
<1> USE DEF HttpInv, HttpTypeOK, ControlTypeOK, BodyIsCollected, BlockedInHost, WaitInv,
            Stuck, Published, Room, Set, control, exchange, outgoing
<1>1. /\ guest[x] = "host" /\ phase[x] = "handling" /\ order[x] = "last" /\ blocked[x]
      /\ outparam[x] = "held" /\ task[x] = "waiting"
  OBVIOUS
<1>2. CASE Cancel /\ UNCHANGED <<phase, exchange, result>>
  BY <1>2
<1>3. ASSUME NEW e \in Executions, Step(e) PROVE Stuck(x)'
  <2>1. CASE Begin(e) \/ SetupFails(e) \/ CallHandle(e)
    BY <2>1 DEF Begin, SetupFails, CallHandle
  <2>2. CASE Guest(e)
    BY <1>1, <2>2 DEF Guest, WriteChunk, BlockOnWrite, FinishBody, Publish, OtherHostCall,
       BeginRequest, FinishRequest, SendRequest, GuestReturns, Handling, EnterHost, GuestMoves
  <2>3. CASE Unblock(e) \/ HostCallReturns(e)
    BY <2>3 DEF Unblock, HostCallReturns
  <2>4. CASE ResponseTask(e)
    BY <1>1, <2>4 DEF ResponseTask, Receive, NoResponse, CollectChunk, CollectEnds, TaskGoes
  <2>5. CASE Caller(e)
    BY <1>1, <2>5 DEF Caller, HandlerFails, HandlerJoined, ResponseFails, Respond
  <2>6. CASE ControlStep(e) /\ UNCHANGED <<phase, exchange, result>>
    BY <2>6
  <2>7. QED
    BY <1>3, <2>1, <2>2, <2>3, <2>4, <2>5, <2>6 DEF Step
<1> QED
  BY <1>2, <1>3 DEF Next

LEMMA StarvedStep ==
    ASSUME HttpInv, WaitInv, Next, NEW x \in Executions, Starved(x)
    PROVE  Starved(x)'
<1> USE DEF HttpInv, HttpTypeOK, WaitInv, Starved, Set, exchange, outgoing
<1>1. guest[x] = "host" /\ sending[x] /\ unsent[x]
  OBVIOUS
<1>2. CASE Cancel /\ UNCHANGED <<phase, exchange, result>>
  BY <1>2
<1>3. ASSUME NEW e \in Executions, Step(e) PROVE Starved(x)'
  <2>1. CASE Begin(e) \/ SetupFails(e) \/ CallHandle(e)
    BY <2>1 DEF Begin, SetupFails, CallHandle
  <2>2. CASE Guest(e)
    BY <1>1, <2>2 DEF Guest, WriteChunk, BlockOnWrite, FinishBody, Publish, OtherHostCall,
       BeginRequest, FinishRequest, SendRequest, GuestReturns, Handling, EnterHost, GuestMoves
  <2>3. CASE Unblock(e) \/ HostCallReturns(e)
    BY <2>3 DEF Unblock, HostCallReturns
  <2>4. CASE ResponseTask(e)
    BY <2>4 DEF ResponseTask, Receive, NoResponse, CollectChunk, CollectEnds, TaskGoes
  <2>5. CASE Caller(e)
    BY <2>5 DEF Caller, HandlerFails, HandlerJoined, ResponseFails, Respond
  <2>6. CASE ControlStep(e) /\ UNCHANGED <<phase, exchange, result>>
    BY <2>6
  <2>7. QED
    BY <1>3, <2>1, <2>2, <2>3, <2>4, <2>5, <2>6 DEF Step
<1> QED
  BY <1>2, <1>3 DEF Next

LEMMA LeakedStep ==
    ASSUME HttpInv, WaitInv, Next, NEW x \in Executions, Leaked(x)
    PROVE  Leaked(x)'
<1> USE DEF HttpInv, HttpTypeOK, JoinedReturned, WaitInv, Leaked, Set, exchange, outgoing
<1>1. /\ phase[x] = "joined" /\ guest[x] = "returned" /\ ~blocked[x]
      /\ \/ task[x] = "waiting" /\ outparam[x] = "held"
         \/ task[x] = "collecting" /\ body[x] = "open" /\ channel[x] = 0
  OBVIOUS
<1>2. CASE Cancel /\ UNCHANGED <<phase, exchange, result>>
  BY <1>2
<1>3. ASSUME NEW e \in Executions, Step(e) PROVE Leaked(x)'
  <2>1. CASE Begin(e) \/ SetupFails(e) \/ CallHandle(e)
    BY <1>1, <2>1 DEF Begin, SetupFails, CallHandle, Report
  <2>2. CASE Guest(e)
    BY <1>1, <2>2 DEF Guest, WriteChunk, BlockOnWrite, FinishBody, Publish, OtherHostCall,
       BeginRequest, FinishRequest, SendRequest, GuestReturns, Handling, EnterHost, GuestMoves
  <2>3. CASE Unblock(e) \/ HostCallReturns(e)
    BY <2>3 DEF Unblock, HostCallReturns
  <2>4. CASE ResponseTask(e)
    BY <1>1, <2>4 DEF ResponseTask, Receive, NoResponse, CollectChunk, CollectEnds, TaskGoes
  <2>5. CASE Caller(e)
    BY <1>1, <2>5 DEF Caller, HandlerFails, HandlerJoined, ResponseFails, Respond, Report
  <2>6. CASE ControlStep(e) /\ UNCHANGED <<phase, exchange, result>>
    BY <2>6
  <2>7. QED
    BY <1>3, <2>1, <2>2, <2>3, <2>4, <2>5, <2>6 DEF Step
<1> QED
  BY <1>2, <1>3 DEF Next

(* Nothing ends an exchange that its guest has made endless, at no capacity *)
(* of the channel: no limit reaches a handler stuck in a write or starved  *)
(* in send_request, and the sender of a leaked handle is never dropped, so *)
(* LimitsEndExchange and ReturnedGuestIsReported have to except them.      *)
THEOREM EndlessIsFinal == Spec => EndlessStays
<1>1. ASSUME HttpInv, WaitInv, [Next]_vars, NEW e \in Executions, Endless(e)
      PROVE  Endless(e)' \/ UNCHANGED vars
  BY <1>1, StuckStep, StarvedStep, LeakedStep DEF Endless
<1>2. HttpInv /\ WaitInv /\ [Next]_vars
        => [\A e \in Executions : Endless(e) => Endless(e)']_vars
  BY <1>1
<1> QED
  BY <1>2, WaitInvariant, PTL DEF Spec, EndlessStays

-----------------------------------------------------------------------------
(***************************************************************************)
(* Every step is a step of the exchange or leaves it alone.                *)
(***************************************************************************)
LEMMA ExchangeStep == PNext => [Next]_vars
<1> SUFFICES ASSUME PNext PROVE [Next]_vars
  OBVIOUS
<1>1. ASSUME NEW e \in Executions, Exchange(e) PROVE Next
  BY <1>1 DEF Exchange, Next
<1>2. ASSUME NEW e \in Executions, Reader(e) PROVE UNCHANGED vars
  BY <1>2 DEF Reader, GetObject, ReadBlob, ReadFails
<1>3. ASSUME NEW e \in Executions, Returns(e) PROVE Next
  BY <1>3 DEF Returns, Next, Step
<1>4. ASSUME NEW e \in Executions, NEW k \in Keys, Delete(e, k) PROVE UNCHANGED vars
  BY <1>4 DEF Delete, Quick
<1>5. ASSUME NEW e \in Executions, NEW k \in Keys, StartRead(e, k) PROVE Next
  BY <1>5 DEF StartRead, Starts, Next, Step, Guest
<1>6. ASSUME NEW w \in Writers, WriterCall(w) PROVE Next \/ UNCHANGED vars
  <2>1. CASE StartCommit(w)
    BY <2>1, PaddockAssumption DEF StartCommit, Starts, Next, Step, Guest
  <2>2. CASE ~StartCommit(w)
    BY <1>6, <2>2 DEF WriterCall, BeginWrite, Write, Abort, DropWriter, Quick
  <2>3. QED
    BY <2>1, <2>2
<1>7. ASSUME NEW w \in Writers, Backend(w) PROVE UNCHANGED vars
  BY <1>7 DEF Backend, CommitPublishes, CommitFails
<1>8. ASSUME NEW k \in Keys, ChangeByOthers(k) PROVE UNCHANGED vars
  BY <1>8 DEF ChangeByOthers
<1>9. ASSUME CancelAll PROVE Next
  BY <1>9 DEF CancelAll, Next
<1> QED
  BY <1>1, <1>2, <1>3, <1>4, <1>5, <1>6, <1>7, <1>8, <1>9 DEF PNext

(* A guest that uses Paddock is a guest of execute_http_with_invoker_timed: *)
(* whatever is proved of every exchange holds beside the store.             *)
THEOREM PaddockIsHttp == PSpec => Spec
<1>1. PInit => Init
  BY DEF PInit
<1>2. [PNext]_allVars => [Next]_vars
  <2>1. UNCHANGED allVars => UNCHANGED vars
    BY DEF allVars
  <2>2. QED
    BY <2>1, ExchangeStep
<1> QED
  BY <1>1, <1>2, PTL DEF PSpec, Spec

(***************************************************************************)
(* The inductive invariant.  A guest that waits for the store is in the    *)
(* host, so its exchange cannot end meanwhile; the writer it commits is no *)
(* longer in the table.                                                    *)
(***************************************************************************)
WaitsInHost == \A e \in Executions :
    call[e] # NoCall => phase[e] = "handling" /\ guest[e] = "host" /\ ~blocked[e]

CommittedIsTaken == \A w \in Writers : Committing(w) => entry[w] = "none"

\* a read in progress has seen what the key holds now
ReadSeesNow == \A e \in Executions :
    call[e].op = "read" => object[call[e].key] \in call[e].saw

\* the object it names is one it has seen
ReadNamesSeen == \A e \in Executions :
    (call[e].op = "read" /\ call[e].content # NoObject) => call[e].content \in call[e].saw

ReadsInv == ReadSeesNow /\ ReadNamesSeen /\ ReadIsOfItsTime

PaddockInv == PaddockTypeOK /\ WaitsInHost /\ CommittedIsTaken /\ ReadsInv

LEMMA CallsDiffer ==
    /\ NoCall # Answered
    /\ \A w \in Writers : Commit(w) \notin {NoCall, Answered} \cup Reads \cup Gots
    /\ \A w, v \in Writers : Commit(w) = Commit(v) => w = v
    /\ NoCall \notin Reads \cup Gots /\ Answered \notin Reads \cup Gots
    /\ NoCall.op = "none" /\ Answered.op = "answered"
    /\ \A w \in Writers : Commit(w).op = "commit"
    /\ \A c \in Reads : c.op = "read" /\ c.key \in Keys
                        /\ c.content \in Contents /\ c.saw \subseteq Contents
    /\ \A c \in Gots : c.op = "got"
BY DEF NoCall, Answered, Commit, Reads, Gots

LEMMA ReadFields ==
    ASSUME NEW k \in Keys, NEW content \in Contents, NEW saw \in SUBSET Contents
    PROVE /\ Read(k, content, saw) \in Reads /\ Read(k, content, saw).key = k
          /\ Read(k, content, saw).content = content /\ Read(k, content, saw).saw = saw
BY DEF Read, Reads

\* what Watching and GetObject do to a call
LEMMA ReadChanges ==
    ASSUME NEW c \in Reads, NEW v \in Contents
    PROVE LET seen == [c EXCEPT !.saw = @ \cup {v}]
              got == [c EXCEPT !.content = v]
          IN /\ seen \in Reads /\ seen.key = c.key /\ seen.content = c.content
             /\ seen.saw = c.saw \cup {v}
             /\ got \in Reads /\ got.key = c.key /\ got.saw = c.saw /\ got.content = v
BY DEF Reads

LEMMA GotFields ==
    ASSUME NEW c \in Reads
    PROVE Got(c) \in Gots /\ Got(c).op = "got" /\ Got(c).content = c.content /\ Got(c).saw = c.saw
BY DEF Got, Gots, Reads

CallSet == {NoCall, Answered} \cup {Commit(w) : w \in Writers} \cup Reads \cup Gots

LEMMA WatchingCases ==
    ASSUME call \in [Executions -> CallSet], NEW k \in Keys, NEW v \in Contents
    PROVE /\ Watching(k, v) \in [Executions -> CallSet]
          /\ \A e \in Executions :
               \/ Watching(k, v)[e] = call[e] /\ (call[e].op = "read" => call[e].key # k)
               \/ /\ call[e].op = "read" /\ call[e].key = k /\ call[e] \in Reads
                  /\ Watching(k, v)[e] \in Reads /\ Watching(k, v)[e].key = k
                  /\ Watching(k, v)[e].content = call[e].content
                  /\ Watching(k, v)[e].saw = call[e].saw \cup {v}
<1>1. \A e \in Executions : Watching(k, v)[e] =
         IF call[e].op = "read" /\ call[e].key = k
           THEN [call[e] EXCEPT !.saw = @ \cup {v}] ELSE call[e]
  BY DEF Watching
<1>2. \A e \in Executions : call[e].op = "read" => call[e] \in Reads
  BY CallsDiffer DEF CallSet
<1>3. \A e \in Executions : call[e] \in Reads =>
         LET seen == [call[e] EXCEPT !.saw = @ \cup {v}]
         IN /\ seen \in Reads /\ seen.key = call[e].key /\ seen.content = call[e].content
            /\ seen.saw = call[e].saw \cup {v}
  BY ReadChanges
<1>4. \A e \in Executions : Watching(k, v)[e] \in CallSet
  BY <1>1, <1>2, <1>3 DEF CallSet
<1>5. Watching(k, v) \in [Executions -> CallSet]
  BY <1>4 DEF Watching
<1> QED
  BY <1>1, <1>2, <1>3, <1>5

LEMMA PaddockInit == PInit => PaddockInv
<1> SUFFICES ASSUME PInit PROVE PaddockInv
  OBVIOUS
<1>1. (CHOOSE k \in Keys : TRUE) \in Keys
  BY PaddockAssumption
<1>2. PaddockTypeOK
  BY <1>1, PaddockAssumption DEF PInit, PaddockTypeOK, Contents
<1>3. WaitsInHost /\ CommittedIsTaken /\ ReadsInv
  BY CallsDiffer, PaddockAssumption
     DEF PInit, WaitsInHost, CommittedIsTaken, Committing, ReadsInv, ReadSeesNow, ReadNamesSeen, ReadIsOfItsTime
<1> QED
  BY <1>2, <1>3 DEF PaddockInv

\* a key gets another content: those who read it now see it
LEMMA Watched ==
    ASSUME PaddockInv, NEW k \in Keys, NEW v \in Contents, Put(k, v)
    PROVE /\ object' \in [Keys -> Contents]
          /\ Watching(k, v) \in [Executions -> CallSet]
          /\ \A e \in Executions :
               /\ Watching(k, v)[e].op = "read" =>
                    /\ object'[Watching(k, v)[e].key] \in Watching(k, v)[e].saw
                    /\ Watching(k, v)[e].content # NoObject =>
                         Watching(k, v)[e].content \in Watching(k, v)[e].saw
               /\ Watching(k, v)[e].op = "got" =>
                    Watching(k, v)[e].content \in Watching(k, v)[e].saw
               /\ Watching(k, v)[e] = NoCall <=> call[e] = NoCall
               /\ \A w \in Writers : Watching(k, v)[e] = Commit(w) <=> call[e] = Commit(w)
<1>1. call \in [Executions -> CallSet] /\ object' \in [Keys -> Contents]
      /\ object'[k] = v /\ \A l \in Keys : l # k => object'[l] = object[l]
  BY DEF PaddockInv, PaddockTypeOK, CallSet, Put
<1>2. \A e \in Executions : call[e].op = "read" => call[e] \in Reads
  BY <1>1, CallsDiffer DEF CallSet
<1>3. ASSUME NEW e \in Executions
      PROVE /\ Watching(k, v)[e].op = "read" =>
                 /\ object'[Watching(k, v)[e].key] \in Watching(k, v)[e].saw
                 /\ Watching(k, v)[e].content # NoObject =>
                      Watching(k, v)[e].content \in Watching(k, v)[e].saw
            /\ Watching(k, v)[e].op = "got" =>
                 Watching(k, v)[e].content \in Watching(k, v)[e].saw
            /\ Watching(k, v)[e] = NoCall <=> call[e] = NoCall
            /\ \A w \in Writers : Watching(k, v)[e] = Commit(w) <=> call[e] = Commit(w)
  <2>1. CASE Watching(k, v)[e] = call[e] /\ (call[e].op = "read" => call[e].key # k)
    BY <1>1, <1>2, <2>1, CallsDiffer DEF PaddockInv, ReadsInv, ReadSeesNow, ReadNamesSeen, ReadIsOfItsTime
  <2>2. CASE /\ call[e].op = "read" /\ call[e].key = k /\ call[e] \in Reads
             /\ Watching(k, v)[e] \in Reads /\ Watching(k, v)[e].key = k
             /\ Watching(k, v)[e].content = call[e].content
             /\ Watching(k, v)[e].saw = call[e].saw \cup {v}
    BY <1>1, <2>2, CallsDiffer DEF PaddockInv, ReadsInv, ReadNamesSeen, ReadIsOfItsTime
  <2>3. QED
    BY <1>1, <2>1, <2>2, WatchingCases
<1> QED
  BY <1>1, <1>3, WatchingCases

\* a guest that waits for the store stays in the host whatever its exchange does
LEMMA ExchangeKeepsWaiting ==
    ASSUME HttpTypeOK, WaitsInHost, NEW e \in Executions, Exchange(e)
    PROVE WaitsInHost' /\ ((phase'[e] = "reported" /\ phase[e] # "reported") => call[e] = NoCall)
<1> USE DEF HttpTypeOK, ControlTypeOK, WaitsInHost, Set, Report
<1>1. call' = call /\ Step(e) /\ (call[e] # NoCall => guest'[e] = guest[e])
  BY DEF Exchange
<1>2. CASE Begin(e) \/ SetupFails(e) \/ CallHandle(e)
  <2>1. phase[e] \in {"new", "instantiating"} /\ UNCHANGED blocked
    BY <1>2 DEF Begin, SetupFails, CallHandle, exchange
  <2>2. \A x \in Executions : x # e => phase'[x] = phase[x] /\ guest'[x] = guest[x]
    BY <1>2 DEF Begin, SetupFails, CallHandle, GuestMoves, control
  <2>3. QED
    BY <1>1, <2>1, <2>2
<1>3. CASE WriteChunk(e) \/ FinishBody(e) \/ Publish(e) \/ BeginRequest(e) \/ FinishRequest(e)
  BY <1>1, <1>3 DEF WriteChunk, FinishBody, Publish, BeginRequest, FinishRequest, control
<1>4. CASE BlockOnWrite(e)
  BY <1>1, <1>4 DEF BlockOnWrite, EnterHost, GuestMoves
<1>10. CASE OtherHostCall(e)
  BY <1>1, <1>10 DEF OtherHostCall, EnterHost, GuestMoves, exchange
<1>11. CASE SendRequest(e)
  BY <1>1, <1>11 DEF SendRequest, EnterHost, GuestMoves
<1>9. CASE GuestReturns(e)
  <2>1. UNCHANGED <<phase, blocked>> /\ guest[e] = "wasm" /\ call[e] = NoCall
    BY <1>9 DEF GuestReturns, GuestMoves
  <2>2. \A x \in Executions : x # e => guest'[x] = guest[x]
    BY <1>9 DEF GuestReturns, GuestMoves
  <2>3. QED
    BY <1>1, <2>1, <2>2
<1>5. CASE Unblock(e) \/ HostCallReturns(e)
  BY <1>1, <1>5 DEF Unblock, HostCallReturns, LeaveHost, GuestMoves, exchange
<1>6. CASE ResponseTask(e)
  BY <1>1, <1>6 DEF ResponseTask, Receive, NoResponse, CollectChunk, CollectEnds, TaskGoes, control
<1>7. CASE Caller(e)
  BY <1>1, <1>7 DEF Caller, HandlerFails, HandlerJoined, ResponseFails, Respond, control, exchange
<1>8. CASE ControlStep(e) /\ UNCHANGED <<phase, exchange, result>>
  BY <1>1, <1>8 DEF ControlStep, DeadlinePasses, EpochCheck, GrowTooFar, TrapItself, GuestMoves, exchange
<1> QED
  BY <1>1, <1>2, <1>3, <1>4, <1>5, <1>6, <1>7, <1>8, <1>9, <1>10, <1>11 DEF Step, Guest

LEMMA PaddockStep == HttpInv /\ PaddockInv /\ [PNext]_allVars => PaddockInv'
<1> SUFFICES ASSUME HttpInv, PaddockInv, [PNext]_allVars PROVE PaddockInv'
  OBVIOUS
<1> USE PaddockAssumption
<1>0. call \in [Executions -> CallSet] /\ \A e \in Executions : call[e].op = "read" => call[e] \in Reads
  BY CallsDiffer DEF PaddockInv, PaddockTypeOK, CallSet
<1>1. CASE UNCHANGED allVars
  BY <1>1 DEF allVars, vars, control, exchange, paddock, table, PaddockInv, PaddockTypeOK, WaitsInHost,
              CommittedIsTaken, Committing, ReadsInv, ReadSeesNow, ReadNamesSeen, ReadIsOfItsTime
<1>2. ASSUME NEW w \in Writers, WriterCall(w), ~StartCommit(w)
      PROVE PaddockInv'
  <2>1. UNCHANGED <<phase, guest, blocked, object, call>> /\ guest[ExecutionOf[w]] = "wasm"
    BY <1>2 DEF WriterCall, BeginWrite, Write, Abort, DropWriter, Quick, vars, control, exchange, Handling
  <2>2. PaddockTypeOK'
    BY <1>2, <2>1 DEF WriterCall, BeginWrite, Write, Abort, DropWriter, PaddockInv, PaddockTypeOK, Set
  <2>3. CommittedIsTaken'
    <3>1. call[ExecutionOf[w]] = NoCall
      BY <2>1 DEF PaddockInv, WaitsInHost
    <3>2. \A v \in Writers : v # w => entry'[v] = entry[v]
      BY <1>2 DEF WriterCall, BeginWrite, Write, Abort, DropWriter, PaddockInv, PaddockTypeOK, Set
    <3>3. QED
      BY <2>1, <3>1, <3>2, CallsDiffer DEF PaddockInv, CommittedIsTaken, Committing
  <2>4. QED
    BY <2>1, <2>2, <2>3 DEF PaddockInv, WaitsInHost, ReadsInv, ReadSeesNow, ReadNamesSeen, ReadIsOfItsTime
<1>3. ASSUME NEW w \in Writers, StartCommit(w)
      PROVE PaddockInv'
  <2> DEFINE e == ExecutionOf[w]
  <2>1. /\ call' = [call EXCEPT ![e] = Commit(w)] /\ entry' = [entry EXCEPT ![w] = "none"]
        /\ UNCHANGED <<target, accepted, object, phase, blocked>>
        /\ guest[e] = "wasm" /\ guest' = [guest EXCEPT ![e] = "host"] /\ phase[e] = "handling"
    BY <1>3 DEF StartCommit, Starts, OtherHostCall, EnterHost, GuestMoves, exchange, Set
  <2>2. e \in Executions /\ call[e] = NoCall
    BY <2>1 DEF PaddockInv, WaitsInHost
  <2>3. PaddockTypeOK'
    BY <2>1, <2>2 DEF PaddockInv, PaddockTypeOK
  <2>4. WaitsInHost'
    BY <2>1, <2>2, <1>0, CallsDiffer DEF PaddockInv, WaitsInHost, HttpInv, BlockedInHost, HttpTypeOK, ControlTypeOK
  <2>5. CommittedIsTaken'
    BY <2>1, <2>2, <1>0, CallsDiffer DEF PaddockInv, PaddockTypeOK, CommittedIsTaken, Committing
  <2>6. ReadsInv'
    BY <2>1, <2>2, <1>0, CallsDiffer DEF PaddockInv, ReadsInv, ReadSeesNow, ReadNamesSeen, ReadIsOfItsTime
  <2>7. QED
    BY <2>3, <2>4, <2>5, <2>6 DEF PaddockInv
<1>4. ASSUME NEW w \in Writers, Backend(w) PROVE PaddockInv'
  <2> DEFINE e == ExecutionOf[w]
  <2>1. e \in Executions /\ call[e] = Commit(w) /\ UNCHANGED <<phase, guest, blocked, table>>
    BY <1>4 DEF Backend, CommitPublishes, CommitFails, Committing, vars, control, exchange
  <2>2. CASE CommitPublishes(w)
    <3> DEFINE k == target[w]  v == ContentOf(w)
    <3>1. k \in Keys /\ v \in Contents /\ Put(k, v)
          /\ call' = [Watching(k, v) EXCEPT ![e] = Answered]
      BY <2>2 DEF CommitPublishes, PaddockInv, PaddockTypeOK, ContentOf, Contents
    <3>2. PaddockTypeOK'
      BY <2>1, <3>1, Watched DEF PaddockInv, PaddockTypeOK, CallSet, table
    <3>3. WaitsInHost' /\ CommittedIsTaken'
      BY <1>0, <2>1, <3>1, Watched, CallsDiffer
         DEF PaddockInv, WaitsInHost, CommittedIsTaken, Committing, table
    <3>4. ReadsInv'
      BY <2>1, <3>1, Watched, CallsDiffer DEF ReadsInv, ReadSeesNow, ReadNamesSeen, ReadIsOfItsTime
    <3>5. QED
      BY <3>2, <3>3, <3>4 DEF PaddockInv
  <2>3. CASE CommitFails(w)
    <3>1. call' = [call EXCEPT ![e] = Answered] /\ object' = object
      BY <2>3 DEF CommitFails, Set
    <3>2. PaddockTypeOK'
      BY <1>0, <2>1, <3>1 DEF PaddockInv, PaddockTypeOK, CallSet, table
    <3>3. WaitsInHost' /\ CommittedIsTaken'
      BY <1>0, <2>1, <3>1, CallsDiffer
         DEF PaddockInv, WaitsInHost, CommittedIsTaken, Committing, table
    <3>4. ReadsInv'
      BY <1>0, <2>1, <3>1, CallsDiffer DEF PaddockInv, ReadsInv, ReadSeesNow, ReadNamesSeen, ReadIsOfItsTime
    <3>5. QED
      BY <3>2, <3>3, <3>4 DEF PaddockInv
  <2>4. QED
    BY <1>4, <2>2, <2>3 DEF Backend
<1>5. ASSUME NEW k \in Keys, NEW v \in Contents, Put(k, v), call' = Watching(k, v),
             UNCHANGED <<vars, table>>
      PROVE PaddockInv'
  <2>1. UNCHANGED <<phase, guest, blocked, entry, target, accepted>>
    BY <1>5 DEF vars, control, exchange, table
  <2>2. PaddockTypeOK'
    BY <1>5, <2>1, Watched DEF PaddockInv, PaddockTypeOK, CallSet
  <2>3. WaitsInHost' /\ CommittedIsTaken'
    BY <1>5, <2>1, Watched DEF PaddockInv, WaitsInHost, CommittedIsTaken, Committing
  <2>4. ReadsInv'
    BY <1>5, Watched DEF ReadsInv, ReadSeesNow, ReadNamesSeen, ReadIsOfItsTime
  <2>5. QED
    BY <2>2, <2>3, <2>4 DEF PaddockInv
<1>6. ASSUME NEW e \in Executions, NEW k \in Keys, Delete(e, k) PROVE PaddockInv'
  BY <1>5, <1>6 DEF Delete, Quick, Contents
<1>7. ASSUME NEW k \in Keys, ChangeByOthers(k) PROVE PaddockInv'
  BY <1>5, <1>7 DEF ChangeByOthers, Contents
<1>8. ASSUME NEW e \in Executions, NEW c \in CallSet, call' = [call EXCEPT ![e] = c],
             UNCHANGED <<table, object>>, \A w \in Writers : c # Commit(w), WaitsInHost',
             c.op = "read" => /\ object[c.key] \in c.saw
                              /\ c.content # NoObject => c.content \in c.saw,
             c.op = "got" => c.content \in c.saw
      PROVE PaddockInv'
  <2>1. PaddockTypeOK'
    BY <1>0, <1>8 DEF PaddockInv, PaddockTypeOK, CallSet, table
  <2>2. CommittedIsTaken'
    BY <1>0, <1>8 DEF PaddockInv, CommittedIsTaken, Committing, table
  <2>3. ReadsInv'
    BY <1>0, <1>8 DEF PaddockInv, ReadsInv, ReadSeesNow, ReadNamesSeen, ReadIsOfItsTime
  <2>4. QED
    BY <1>8, <2>1, <2>2, <2>3 DEF PaddockInv
<1>9. ASSUME NEW e \in Executions, NEW k \in Keys, StartRead(e, k) PROVE PaddockInv'
  <2> DEFINE c == Read(k, NoObject, {object[k]})
  <2>1. /\ call' = [call EXCEPT ![e] = c]
        /\ UNCHANGED <<table, object, phase, blocked>>
        /\ guest[e] = "wasm" /\ guest' = [guest EXCEPT ![e] = "host"] /\ phase[e] = "handling"
    BY <1>9 DEF StartRead, Starts, OtherHostCall, EnterHost, GuestMoves, exchange
  <2>2. c \in Reads /\ c.key = k /\ c.content = NoObject /\ c.saw = {object[k]}
    <3>1. NoObject \in Contents /\ {object[k]} \in SUBSET Contents
      BY DEF PaddockInv, PaddockTypeOK, Contents
    <3>2. QED
      BY <3>1, ReadFields
  <2>3. WaitsInHost'
    <3>1. phase'[e] = "handling" /\ guest'[e] = "host" /\ ~blocked'[e]
      BY <2>1 DEF HttpInv, BlockedInHost, HttpTypeOK, ControlTypeOK
    <3>2. \A x \in Executions : x # e => call'[x] = call[x] /\ guest'[x] = guest[x]
      BY <1>0, <2>1 DEF HttpInv, HttpTypeOK, ControlTypeOK
    <3>3. QED
      BY <2>1, <3>1, <3>2 DEF PaddockInv, WaitsInHost
  <2>4. c \in CallSet /\ \A w \in Writers : c # Commit(w)
    BY <2>2, CallsDiffer DEF CallSet
  <2>5. QED
    BY <1>8, <2>1, <2>2, <2>3, <2>4, CallsDiffer
<1>10. ASSUME NEW e \in Executions, GetObject(e) PROVE PaddockInv'
  <2> DEFINE v == object[call[e].key]  c == [call[e] EXCEPT !.content = v]
  <2>1. call[e] \in Reads /\ call' = [call EXCEPT ![e] = c] /\ v \in call[e].saw
    BY <1>0, <1>10 DEF GetObject, PaddockInv, ReadsInv, ReadSeesNow
  <2>2. v \in Contents
    BY <2>1, CallsDiffer
  <2>3. c \in Reads /\ c.key = call[e].key /\ c.saw = call[e].saw /\ c.content = v
    <3> HIDE DEF v
    <3>1. call[e] \in Reads
      BY <2>1
    <3> QED
      BY <2>2, <3>1, ReadChanges
  <2>4. c \in CallSet /\ \A w \in Writers : c # Commit(w)
    BY <2>3, CallsDiffer DEF CallSet
  <2>5. UNCHANGED <<table, object, phase, guest, blocked>>
    BY <1>10 DEF GetObject, vars, control, exchange
  <2>6. WaitsInHost'
    <3>1. call[e] # NoCall
      BY <2>1, CallsDiffer
    <3>2. \A x \in Executions : call'[x] # NoCall => call[x] # NoCall
      BY <1>0, <2>1, <3>1
    <3>3. QED
      BY <2>5, <3>2 DEF PaddockInv, WaitsInHost
  <2>7. QED
    BY <1>8, <2>1, <2>3, <2>4, <2>5, <2>6
<1>14. ASSUME NEW e \in Executions, ReadBlob(e) \/ ReadFails(e) PROVE PaddockInv'
  <2>1. call[e] \in Reads /\ UNCHANGED <<table, object, phase, guest, blocked>>
    BY <1>0, <1>14 DEF ReadBlob, ReadFails, vars, control, exchange
  <2>2. ASSUME NEW c, call' = [call EXCEPT ![e] = c] PROVE WaitsInHost'
    <3>1. call[e] # NoCall
      BY <2>1, CallsDiffer
    <3>2. \A x \in Executions : call'[x] # NoCall => call[x] # NoCall
      BY <1>0, <2>2, <3>1
    <3>3. QED
      BY <2>1, <3>2 DEF PaddockInv, WaitsInHost
  <2>3. CASE ReadBlob(e)
    <3> DEFINE c == Got(call[e])
    <3>1. c \in Gots /\ c.op = "got" /\ c.content \in c.saw
      BY <1>0, <2>1, <2>3, GotFields DEF ReadBlob, PaddockInv, ReadsInv, ReadNamesSeen
    <3>2. c \in CallSet /\ \A w \in Writers : c # Commit(w)
      BY <3>1, CallsDiffer DEF CallSet
    <3>3. call' = [call EXCEPT ![e] = c]
      BY <2>3 DEF ReadBlob, Set
    <3> HIDE DEF c
    <3>4. QED
      BY <1>8, <2>1, <2>2, <3>1, <3>2, <3>3
  <2>4. CASE ReadFails(e)
    <3>1. call' = [call EXCEPT ![e] = Answered]
      BY <2>4 DEF ReadFails, Set
    <3>2. QED
      BY <1>8, <2>1, <2>2, <3>1, CallsDiffer DEF CallSet
  <2>5. QED
    BY <1>14, <2>3, <2>4
<1>11. ASSUME NEW e \in Executions, Returns(e) PROVE PaddockInv'
  <2>1. /\ call' = [call EXCEPT ![e] = NoCall]
        /\ UNCHANGED <<table, object, phase, blocked>>
        /\ ~blocked[e] /\ guest' = [guest EXCEPT ![e] = "wasm"]
    BY <1>11 DEF Returns, HostCallReturns, LeaveHost, GuestMoves, exchange, Set
  <2>2. WaitsInHost'
    BY <1>0, <2>1 DEF PaddockInv, WaitsInHost, HttpInv, HttpTypeOK, ControlTypeOK
  <2>3. QED
    BY <1>8, <2>1, <2>2, CallsDiffer DEF CallSet
<1>12. ASSUME NEW e \in Executions, Exchange(e) PROVE PaddockInv'
  <2>1. WaitsInHost' /\ ((phase'[e] = "reported" /\ phase[e] # "reported") => call[e] = NoCall)
    BY <1>12, ExchangeKeepsWaiting DEF PaddockInv, HttpInv
  <2>2. UNCHANGED <<target, accepted, object, call>>
    BY <1>12 DEF Exchange
  <2>3. entry' \in [Writers -> {"unused", "some", "none", "deleted"}]
        /\ \A w \in Writers : Committing(w) => entry'[w] = entry[w]
    BY <1>12, <2>1, CallsDiffer DEF Exchange, DropTable, Own, Committing, PaddockInv, PaddockTypeOK
  <2>4. PaddockTypeOK' /\ CommittedIsTaken'
    BY <2>2, <2>3 DEF PaddockInv, PaddockTypeOK, CommittedIsTaken, Committing
  <2>5. QED
    BY <2>1, <2>2, <2>4 DEF PaddockInv, ReadsInv, ReadSeesNow, ReadNamesSeen, ReadIsOfItsTime
<1>13. CASE CancelAll
  BY <1>13 DEF CancelAll, Cancel, exchange, paddock, table, PaddockInv, PaddockTypeOK, WaitsInHost,
               CommittedIsTaken, Committing, ReadsInv, ReadSeesNow, ReadNamesSeen, ReadIsOfItsTime
<1> QED
  BY <1>1, <1>2, <1>3, <1>4, <1>6, <1>7, <1>9, <1>10, <1>11, <1>12, <1>13, <1>14
     DEF PNext, Reader

(* Reads, writers and exchanges keep their invariant together.             *)
THEOREM PaddockInvariant == PSpec => []PaddockInv
<1>1. PInit => PaddockInv
  BY PaddockInit
<1>2. PSpec => []HttpInv
  BY PaddockIsHttp, HttpInvariant, PTL
<1> QED
  BY <1>1, <1>2, PaddockStep, PTL DEF PSpec

(* A guest that uses Paddock answers with a whole response or none, like   *)
(* every other guest of execute_http_with_invoker_timed.                   *)
THEOREM PaddockResponseWhole == PSpec => []ResponseIsWhole
<1> QED
  BY PaddockIsHttp, ResponseWhole, PTL

(* Every variable of the store and its writers keeps its type.             *)
THEOREM PaddockTypeCorrect == PSpec => []PaddockTypeOK
<1>1. PaddockInv => PaddockTypeOK
  BY DEF PaddockInv
<1> QED
  BY <1>1, PaddockInvariant, PTL

(* read_range answers with a content the key had during the call, whoever  *)
(* writes or deletes the object between its two steps.                     *)
THEOREM ReadOfItsTime == PSpec => []ReadIsOfItsTime
<1>1. PaddockInv => ReadIsOfItsTime
  BY DEF PaddockInv, ReadsInv
<1> QED
  BY <1>1, PaddockInvariant, PTL

(***************************************************************************)
(* The refinement.  Beginning, writing and publishing are the abstract     *)
(* steps; abort, drop, a failed commit and the end of the exchange discard *)
(* writers; the start of a commit and reads are invisible.                 *)
(***************************************************************************)
LEMMA StageCases ==
    ASSUME NEW w \in Writers
    PROVE /\ entry[w] = "unused" => WriterStage[w] = "unused"
          /\ entry[w] = "some" => WriterStage[w] = "writing"
          /\ entry[w] \notin {"unused", "some"} =>
               WriterStage[w] = IF Committing(w) THEN "writing" ELSE "closed"
<1>1. CASE entry[w] = "unused"
  BY <1>1 DEF WriterStage
<1>2. CASE entry[w] # "unused" /\ (entry[w] = "some" \/ Committing(w))
  BY <1>2 DEF WriterStage
<1>3. CASE entry[w] # "unused" /\ entry[w] # "some" /\ ~Committing(w)
  BY <1>3 DEF WriterStage
<1> QED
  BY <1>1, <1>2, <1>3

\* writers of which entry and commit stay as they are stay at their stage
LEMMA StageKept ==
    ASSUME NEW w \in Writers, entry'[w] = entry[w], Committing(w)' <=> Committing(w)
    PROVE WriterStage'[w] = WriterStage[w]
BY DEF WriterStage

LEMMA StageDiscard ==
    ASSUME NEW ws \in SUBSET Writers,
           \A w \in Writers : WriterStage'[w] = IF w \in ws THEN "closed" ELSE WriterStage[w],
           \A w \in ws : WriterStage[w] = "writing",
           UNCHANGED <<target, accepted, object>>
    PROVE Writes!Next
<1>1. WriterStage' = [w \in Writers |-> IF w \in ws THEN "closed" ELSE WriterStage[w]]
  BY DEF WriterStage
<1> QED
  BY <1>1 DEF Writes!Next, Writes!Discard

LEMMA StageAllKept ==
    ASSUME \A w \in Writers : WriterStage'[w] = WriterStage[w]
    PROVE WriterStage' = WriterStage
BY DEF WriterStage

LEMMA WritesStep == HttpInv /\ PaddockInv /\ [PNext]_allVars => [Writes!Next]_Writes!vars
<1> SUFFICES ASSUME HttpInv, PaddockInv, [PNext]_allVars PROVE [Writes!Next]_Writes!vars
  OBVIOUS
<1> USE PaddockAssumption
<1>0. call \in [Executions -> CallSet] /\ \A e \in Executions : call[e].op = "read" => call[e] \in Reads
  BY CallsDiffer DEF PaddockInv, PaddockTypeOK, CallSet
<1>1. ASSUME UNCHANGED <<entry, target, accepted, object>>,
             \A w \in Writers : Committing(w)' <=> Committing(w)
      PROVE UNCHANGED Writes!vars
  BY <1>1, StageKept, StageAllKept DEF Writes!vars
<1>2. CASE UNCHANGED allVars
  BY <1>1, <1>2 DEF allVars, paddock, table, Committing
<1>3. ASSUME NEW w \in Writers, NEW k \in Keys, BeginWrite(w, k) PROVE Writes!Next
  <2>1. \A v \in Writers : v # w => WriterStage'[v] = WriterStage[v]
    BY <1>3, StageKept DEF BeginWrite, Set, PaddockInv, PaddockTypeOK, Committing
  <2>2. WriterStage[w] = "unused" /\ WriterStage'[w] = "writing"
    <3>1. entry[w] = "unused" /\ entry'[w] = "some"
      BY <1>3 DEF BeginWrite, Set, PaddockInv, PaddockTypeOK
    <3>2. WriterStage[w] = "unused"
      BY <3>1, StageCases
    <3>3. WriterStage'[w] = "writing"
      BY <3>1 DEF WriterStage
    <3>4. QED
      BY <3>2, <3>3
  <2>3. WriterStage' = [WriterStage EXCEPT ![w] = "writing"]
    BY <2>1, <2>2 DEF WriterStage
  <2>4. QED
    BY <1>3, <2>2, <2>3 DEF BeginWrite, Set, Writes!Next, Writes!Open
<1>4. ASSUME NEW w \in Writers, Write(w) PROVE Writes!Next
  <2>1. WriterStage' = WriterStage
    BY <1>4, StageKept, StageAllKept DEF Write, Committing
  <2>2. WriterStage[w] = "writing"
    BY <1>4, StageCases DEF Write
  <2>3. QED
    BY <1>4, <2>1, <2>2 DEF Write, Set, Writes!Next, Writes!Accept
<1>5. ASSUME NEW w \in Writers, StartCommit(w) PROVE UNCHANGED Writes!vars
  <2> DEFINE e == ExecutionOf[w]
  <2>1. guest[e] = "wasm" /\ entry' = [entry EXCEPT ![w] = "none"] /\ entry[w] = "some"
        /\ call' = [call EXCEPT ![e] = Commit(w)] /\ UNCHANGED <<target, accepted, object>>
    BY <1>5 DEF StartCommit, Starts, OtherHostCall, EnterHost, GuestMoves, Set
  <2>2. call[e] = NoCall
    BY <2>1 DEF PaddockInv, WaitsInHost
  <2>3. \A v \in Writers : v # w => WriterStage'[v] = WriterStage[v]
    <3>1. \A v \in Writers : v # w => (Committing(v)' <=> Committing(v)) /\ entry'[v] = entry[v]
      BY <1>0, <2>1, <2>2, CallsDiffer DEF Committing, PaddockInv, PaddockTypeOK
    <3>2. QED
      BY <3>1, StageKept
  <2>4. WriterStage[w] = "writing" /\ WriterStage'[w] = "writing"
    BY <1>0, <2>1 DEF WriterStage, Committing, PaddockInv, PaddockTypeOK
  <2>5. QED
    BY <2>1, <2>3, <2>4, StageAllKept DEF Writes!vars
<1>6. ASSUME NEW w \in Writers, CommitPublishes(w) PROVE Writes!Next
  <2> DEFINE e == ExecutionOf[w]  k == target[w]  v == ContentOf(w)
  <2>1. call[e] = Commit(w) /\ Put(k, v) /\ call' = [Watching(k, v) EXCEPT ![e] = Answered]
        /\ UNCHANGED <<entry, target, accepted>>
    BY <1>6 DEF CommitPublishes, Committing, table
  <2>2. k \in Keys /\ v \in Contents
    BY DEF PaddockInv, PaddockTypeOK, ContentOf, Contents
  <2>3. entry[w] = "none"
    BY <2>1 DEF PaddockInv, CommittedIsTaken, Committing
  <2>4. \A x \in Writers : x # w => (Committing(x)' <=> Committing(x))
    BY <2>1, <2>2, Watched, CallsDiffer DEF Committing
  <2>5. \A x \in Writers : x # w => WriterStage'[x] = WriterStage[x]
    BY <2>1, <2>4, StageKept
  <2>6. ~Committing(w)'
    BY <2>1, <2>2, Watched, CallsDiffer DEF Committing
  <2>7. WriterStage[w] = "writing" /\ WriterStage'[w] = "closed"
    BY <2>1, <2>3, <2>6 DEF WriterStage, Committing
  <2>8. WriterStage' = [WriterStage EXCEPT ![w] = "closed"]
    BY <2>5, <2>7 DEF WriterStage
  <2>9. QED
    BY <2>1, <2>7, <2>8 DEF Writes!Next, Writes!Publish, Writes!Content, ContentOf, Put
<1>7. ASSUME NEW w \in Writers, CommitFails(w) PROVE Writes!Next
  <2>1. call[ExecutionOf[w]] = Commit(w) /\ call' = [call EXCEPT ![ExecutionOf[w]] = Answered]
        /\ UNCHANGED <<entry, target, accepted, object>>
    BY <1>7 DEF CommitFails, Committing, Set, table
  <2>2. entry[w] = "none"
    BY <2>1 DEF PaddockInv, CommittedIsTaken, Committing
  <2>3. \A x \in Writers : x # w => (Committing(x)' <=> Committing(x))
    BY <1>0, <2>1, CallsDiffer DEF Committing
  <2>4. WriterStage[w] = "writing" /\ WriterStage'[w] = "closed"
    BY <1>0, <2>1, <2>2, CallsDiffer DEF WriterStage, Committing
  <2>5. \A x \in Writers : WriterStage'[x] = IF x \in {w} THEN "closed" ELSE WriterStage[x]
    BY <2>1, <2>3, <2>4, StageKept
  <2>6. QED
    BY <2>1, <2>4, <2>5, StageDiscard
<1>8. ASSUME NEW w \in Writers, Abort(w) \/ DropWriter(w) PROVE [Writes!Next]_Writes!vars
  <2>1. /\ entry[w] \in {"some", "none"} /\ guest[ExecutionOf[w]] = "wasm"
        /\ UNCHANGED <<target, accepted, object, call>>
        /\ entry' = [entry EXCEPT ![w] = "none"] \/ entry' = [entry EXCEPT ![w] = "deleted"]
    BY <1>8 DEF Abort, DropWriter, Quick, Handling, Set
  <2>2. call[ExecutionOf[w]] = NoCall /\ call' = call
    BY <2>1 DEF PaddockInv, WaitsInHost
  <2>3. WriterStage'[w] = "closed"
    BY <2>1, <2>2, CallsDiffer DEF WriterStage, Committing, PaddockInv, PaddockTypeOK
  <2>4. \A x \in Writers : x # w => WriterStage'[x] = WriterStage[x]
    BY <2>1, <2>2, StageKept DEF Committing, PaddockInv, PaddockTypeOK
  <2>5. CASE entry[w] = "some"
    <3>1. WriterStage[w] = "writing"
      BY <2>5, StageCases
    <3>2. \A x \in Writers : WriterStage'[x] = IF x \in {w} THEN "closed" ELSE WriterStage[x]
      BY <2>3, <2>4
    <3>3. QED
      BY <2>1, <3>1, <3>2, StageDiscard
  <2>6. CASE entry[w] = "none"
    <3>1. WriterStage[w] = "closed"
      BY <2>2, <2>6, CallsDiffer DEF WriterStage, Committing
    <3>2. QED
      BY <2>1, <2>3, <2>4, <3>1, StageAllKept DEF Writes!vars
  <2>7. QED
    BY <2>1, <2>5, <2>6
<1>9. ASSUME NEW k \in Keys, NEW v \in {Foreign, NoObject}, Put(k, v), call' = Watching(k, v),
             UNCHANGED <<vars, table>>
      PROVE Writes!Next
  <2>1. \A w \in Writers : Committing(w)' <=> Committing(w)
    BY <1>9, Watched DEF Committing, Contents
  <2>2. WriterStage' = WriterStage
    BY <1>9, <2>1, StageKept, StageAllKept DEF table
  <2>3. QED
    BY <1>9, <2>2 DEF table, Put, Writes!Next, Writes!ChangeByOthers
<1>10. ASSUME NEW e \in Executions, NEW k \in Keys, Delete(e, k) PROVE Writes!Next
  BY <1>9, <1>10 DEF Delete, Quick
<1>11. ASSUME NEW k \in Keys, ChangeByOthers(k) PROVE Writes!Next
  BY <1>9, <1>11 DEF ChangeByOthers
<1>12. ASSUME NEW e \in Executions, NEW c, call' = [call EXCEPT ![e] = c],
              \A w \in Writers : c # Commit(w) /\ call[e] # Commit(w), UNCHANGED <<table, object>>
       PROVE UNCHANGED Writes!vars
  <2>1. \A w \in Writers : Committing(w)' <=> Committing(w)
    BY <1>0, <1>12 DEF Committing
  <2>2. QED
    BY <1>1, <1>12, <2>1 DEF table
<1>13. ASSUME NEW e \in Executions, NEW k \in Keys, StartRead(e, k) PROVE UNCHANGED Writes!vars
  <2>1. guest[e] = "wasm" /\ call' = [call EXCEPT ![e] = Read(k, NoObject, {object[k]})]
        /\ UNCHANGED <<table, object>>
    BY <1>13 DEF StartRead, Starts, OtherHostCall, EnterHost, GuestMoves
  <2>2. call[e] = NoCall
    BY <2>1 DEF PaddockInv, WaitsInHost
  <2>3. \A w \in Writers : Read(k, NoObject, {object[k]}) # Commit(w)
    BY DEF Read, Commit
  <2>4. \A w \in Writers : call[e] # Commit(w)
    BY <2>2, CallsDiffer
  <2>5. QED
    BY <1>12, <2>1, <2>3, <2>4
<1>14. ASSUME NEW e \in Executions, GetObject(e) PROVE UNCHANGED Writes!vars
  <2> DEFINE c == [call[e] EXCEPT !.content = object[call[e].key]]
  <2>1. call[e] \in Reads /\ call' = [call EXCEPT ![e] = c] /\ UNCHANGED <<table, object>>
    BY <1>0, <1>14 DEF GetObject
  <2>2. object[call[e].key] \in Contents
    <3>1. call[e].key \in Keys
      BY <2>1, CallsDiffer
    <3>2. QED
      BY <3>1 DEF PaddockInv, PaddockTypeOK
  <2>3. c \in Reads
    BY <2>1, <2>2, ReadChanges
  <2>4. \A w \in Writers : c # Commit(w) /\ call[e] # Commit(w)
    BY <2>1, <2>3, CallsDiffer
  <2>5. QED
    BY <1>12, <2>1, <2>4
<1>18. ASSUME NEW e \in Executions, ReadBlob(e) \/ ReadFails(e) PROVE UNCHANGED Writes!vars
  <2>1. /\ call[e] \in Reads /\ UNCHANGED <<table, object>>
        /\ call' = [call EXCEPT ![e] = Got(call[e])] \/ call' = [call EXCEPT ![e] = Answered]
    BY <1>0, <1>18 DEF ReadBlob, ReadFails, Set
  <2>2. \A w \in Writers : call[e] # Commit(w) /\ Got(call[e]) # Commit(w) /\ Answered # Commit(w)
    BY <2>1, GotFields, CallsDiffer
  <2>3. QED
    BY <1>12, <2>1, <2>2
<1>15. ASSUME NEW e \in Executions, Returns(e) PROVE UNCHANGED Writes!vars
  <2>1. call[e].op \in {"got", "answered"} /\ call' = [call EXCEPT ![e] = NoCall]
        /\ UNCHANGED <<table, object>>
    BY <1>15 DEF Returns, Set
  <2>2. \A w \in Writers : NoCall # Commit(w) /\ call[e] # Commit(w)
    BY <2>1, CallsDiffer
  <2>3. QED
    BY <1>12, <2>1, <2>2
<1>16. ASSUME NEW e \in Executions, Exchange(e) PROVE [Writes!Next]_Writes!vars
  <2>1. UNCHANGED <<target, accepted, object, call>>
    BY <1>16 DEF Exchange
  <2>2. \A w \in Writers : Committing(w)' <=> Committing(w)
    BY <2>1 DEF Committing
  <2>3. CASE UNCHANGED entry
    BY <1>1, <2>1, <2>2, <2>3
  <2>4. CASE DropTable(e) /\ call[e] = NoCall
    <3> DEFINE ws == {w \in Own(e) : entry[w] = "some"}
    <3>1. \A w \in ws : WriterStage[w] = "writing" /\ WriterStage'[w] = "closed"
      BY <2>1, <2>4, CallsDiffer DEF WriterStage, DropTable, Own, Committing
    <3>2. \A w \in Writers \ ws : WriterStage'[w] = WriterStage[w]
      BY <2>1, <2>4, CallsDiffer
         DEF WriterStage, DropTable, Own, Committing, PaddockInv, PaddockTypeOK
    <3>3. ws \in SUBSET Writers
      BY DEF Own
    <3>4. \A w \in Writers : WriterStage'[w] = IF w \in ws THEN "closed" ELSE WriterStage[w]
      BY <3>1, <3>2
    <3>5. QED
      BY <2>1, <3>1, <3>3, <3>4, StageDiscard
  <2>5. QED
    BY <1>16, <2>3, <2>4, ExchangeKeepsWaiting DEF Exchange, PaddockInv, HttpInv
<1>17. CASE CancelAll
  BY <1>1, <1>17 DEF CancelAll, paddock, table, Committing
<1> QED
  BY <1>2, <1>3, <1>4, <1>5, <1>6, <1>7, <1>8, <1>10, <1>11, <1>13, <1>14, <1>15, <1>16, <1>17,
     <1>18 DEF PNext, WriterCall, Backend, Reader

(* Every behaviour of the Paddock host, through any order of writer calls  *)
(* and any end of the exchange, is one of ObjectWrites: a writer publishes *)
(* all it accepted at most once, and only by a commit.                     *)
THEOREM WritesRefinement == PSpec => ImplementsObjectWrites
<1>1. PInit => Writes!Init
  <2>1. ASSUME PInit PROVE WriterStage = [w \in Writers |-> "unused"]
    <3>1. \A w \in Writers : entry[w] = "unused"
      BY <2>1 DEF PInit
    <3>2. \A w \in Writers : WriterStage[w] = "unused"
      BY <3>1, StageCases
    <3>3. QED
      BY <3>2 DEF WriterStage
  <2>2. ASSUME PInit PROVE target \in [Writers -> Keys]
    BY <2>2, PaddockInit DEF PaddockInv, PaddockTypeOK
  <2>3. QED
    BY <2>1, <2>2 DEF PInit, Writes!Init
<1>2. PSpec => []HttpInv
  BY PaddockIsHttp, HttpInvariant, PTL
<1> QED
  BY <1>1, <1>2, PaddockInvariant, WritesStep, PTL DEF PSpec, ImplementsObjectWrites, Writes!Spec
=============================================================================
