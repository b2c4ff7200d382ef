---------------------------- MODULE PaddockHost ----------------------------
(***************************************************************************)
(* HTTP executions whose guests use the Paddock capability: the host store *)
(* and its writers in the resource table of pit-runtime, beside the        *)
(* exchange of HttpExecution.  The table lives as long as the store of the *)
(* execution: whatever ends the exchange drops the writers in it.          *)
(*                                                                         *)
(* The backend is external: it publishes a committed writer's content at   *)
(* once or fails, keeps content under its digest, and others commit and    *)
(* delete objects at any time.  Calls that fail before they reach it (a    *)
(* bad name, a missing grant, no backend, a finalized writer), and get and *)
(* list_objects, change nothing and are stuttering steps.                  *)
(***************************************************************************)
EXTENDS HttpExecution

CONSTANTS Writers,        \* the writers guests may create (a bound)
          ExecutionOf,    \* the execution whose guest creates a writer
          Keys,           \* namespace and key of an object
          Grants,         \* Grants[k]: what the grants of its namespace allow
          MaxWrites,      \* bound on the chunks of an object
          Foreign,        \* content of others
          NoObject

ASSUME PaddockAssumption == /\ ExecutionOf \in [Writers -> Executions]
                            /\ Grants \in [Keys -> SUBSET {"read", "write", "delete"}]
                            /\ Keys # {}
                            /\ MaxWrites \in Nat
                            /\ Foreign # NoObject

VARIABLES entry,     \* entry[w]: "unused", "some", "none" (PaddockWriterState.writer) or "deleted"
          target,    \* target[w]: the key w was begun for
          accepted,  \* accepted[w]: chunks the backend's writer has taken
          object,    \* object[k]: the content an ObjectRef of the key names, or NoObject
          call       \* call[e]: the call the guest waits for, or NoCall

table == <<entry, target, accepted>>
paddock == <<table, object, call>>
allVars == <<vars, paddock>>

NoCall == [op |-> "none"]
Commit(w) == [op |-> "commit", writer |-> w]
Answered == [op |-> "answered"]
\* saw: every content the key had since the call began
Read(k, content, saw) == [op |-> "read", key |-> k, content |-> content, saw |-> saw]
\* the bytes a read has got
Got(read) == [op |-> "got", content |-> read.content, saw |-> read.saw]

ContentOf(w) == [writer |-> w, chunks |-> accepted[w]]
Committing(w) == call[ExecutionOf[w]] = Commit(w)
Own(e) == {w \in Writers : ExecutionOf[w] = e}

PInit == /\ Init
         /\ entry = [w \in Writers |-> "unused"]
         /\ target = [w \in Writers |-> CHOOSE k \in Keys : TRUE]
         /\ accepted = [w \in Writers |-> 0]
         /\ object \in [Keys -> {Foreign, NoObject}]
         /\ call = [e \in Executions |-> NoCall]

\* a call that is over before anything else can happen to the guest
Quick(e) == Handling(e) /\ UNCHANGED vars
\* a call that takes time: the guest stays in the host until its end
Starts(e, c) == OtherHostCall(e) /\ call' = [call EXCEPT ![e] = c]

\* whoever reads the key meanwhile has it under a new content
Watching(k, v) == [e \in Executions |->
    IF call[e].op = "read" /\ call[e].key = k
      THEN [call[e] EXCEPT !.saw = @ \cup {v}] ELSE call[e]]
Put(k, v) == object' = [object EXCEPT ![k] = v]

-----------------------------------------------------------------------------
\* store.begin-write: the new writer is pushed into the table
BeginWrite(w, k) == /\ Quick(ExecutionOf[w])
                    /\ entry[w] = "unused" /\ "write" \in Grants[k]
                    /\ entry' = Set(entry, w, "some")
                    /\ target' = Set(target, w, k)
                    /\ UNCHANGED <<accepted, object, call>>

\* writer.write; a chunk the backend refuses leaves the writer as it was
Write(w) == /\ Quick(ExecutionOf[w])
            /\ entry[w] = "some" /\ accepted[w] < MaxWrites
            /\ accepted' = Set(accepted, w, accepted[w] + 1)
            /\ UNCHANGED <<entry, target, object, call>>

\* the writer is used where it is (a broken variant)
CommitInPlace(w) == /\ entry[w] = "some"
                    /\ Starts(ExecutionOf[w], Commit(w))
                    /\ UNCHANGED <<table, object>>

\* writer.commit takes the writer out of its entry, then calls the backend
StartCommit(w) == /\ entry[w] = "some"
                  /\ Starts(ExecutionOf[w], Commit(w))
                  /\ entry' = Set(entry, w, "none")
                  /\ UNCHANGED <<target, accepted, object>>

CommitPublishes(w) == /\ Committing(w)
                      /\ Put(target[w], ContentOf(w))
                      /\ call' = [Watching(target[w], ContentOf(w)) EXCEPT ![ExecutionOf[w]] = Answered]
                      /\ UNCHANGED <<vars, table>>

\* the writer is gone all the same; an error after the publication is the
\* other action followed by another answer
CommitFails(w) == /\ Committing(w)
                  /\ call' = Set(call, ExecutionOf[w], Answered)
                  /\ UNCHANGED <<vars, table, object>>

\* writer.abort: on a finalized writer it answers Ok and does nothing
Abort(w) == /\ Quick(ExecutionOf[w])
            /\ entry[w] = "some"
            /\ entry' = Set(entry, w, "none")
            /\ UNCHANGED <<target, accepted, object, call>>

\* the guest drops its handle, finalized or not
DropWriter(w) == /\ Quick(ExecutionOf[w])
                 /\ entry[w] \in {"some", "none"}
                 /\ entry' = Set(entry, w, "deleted")
                 /\ UNCHANGED <<target, accepted, object, call>>

Delete(e, k) == /\ Quick(e) /\ "delete" \in Grants[k]
                /\ Put(k, NoObject)
                /\ call' = Watching(k, NoObject)
                /\ UNCHANGED table

-----------------------------------------------------------------------------
\* store.read-range: the object first, then a range of the content it names
StartRead(e, k) == /\ "read" \in Grants[k]
                   /\ Starts(e, Read(k, NoObject, {object[k]}))
                   /\ UNCHANGED <<table, object>>

\* the reference of an own commit is used again (a broken variant)
GetRemembered(e) == /\ call[e].op = "read" /\ call[e].content = NoObject
                    /\ \E w \in Own(e) : /\ entry[w] = "none" /\ target[w] = call[e].key
                                         /\ call' = [call EXCEPT ![e].content = ContentOf(w)]
                    /\ UNCHANGED <<vars, table, object>>

GetObject(e) == /\ call[e].op = "read" /\ call[e].content = NoObject
                /\ object[call[e].key] # NoObject
                /\ call' = [call EXCEPT ![e].content = object[call[e].key]]
                /\ UNCHANGED <<vars, table, object>>

\* read_blob_range: a range of the content that was named, whatever the key
\* holds by now
ReadBlob(e) == /\ call[e].op = "read" /\ call[e].content # NoObject
               /\ call' = Set(call, e, Got(call[e]))
               /\ UNCHANGED <<vars, table, object>>

\* no object, a failing backend, or a blob deleted since its object was read
ReadFails(e) == /\ call[e].op = "read"
                /\ call' = Set(call, e, Answered)
                /\ UNCHANGED <<vars, table, object>>

\* the host call hands the answer to the guest
Returns(e) == /\ call[e].op \in {"got", "answered"}
              /\ HostCallReturns(e)
              /\ call' = Set(call, e, NoCall)
              /\ UNCHANGED <<table, object>>

ChangeByOthers(k) == /\ \E v \in {Foreign, NoObject} :
                          v # object[k] /\ Put(k, v) /\ call' = Watching(k, v)
                     /\ UNCHANGED <<vars, table>>

-----------------------------------------------------------------------------
\* the exchange goes on beside the calls; its end drops the store
DropTable(e) == entry' = [w \in Writers |->
    IF w \in Own(e) /\ entry[w] # "unused" THEN "deleted" ELSE entry[w]]

Exchange(e) == /\ Step(e)
               /\ call[e] # NoCall => guest'[e] = guest[e]
               /\ IF phase'[e] = "reported" /\ phase[e] # "reported" THEN DropTable(e) ELSE UNCHANGED entry
               /\ UNCHANGED <<target, accepted, object, call>>

CancelAll == Cancel /\ UNCHANGED <<phase, exchange, result, paddock>>

Backend(w) == CommitPublishes(w) \/ CommitFails(w)
Reader(e) == GetObject(e) \/ ReadBlob(e) \/ ReadFails(e)
WriterCall(w) == \/ \E k \in Keys : BeginWrite(w, k)
                 \/ Write(w) \/ StartCommit(w) \/ Abort(w) \/ DropWriter(w)

PNext == \/ \E e \in Executions : \/ Exchange(e) \/ Reader(e) \/ Returns(e)
                                  \/ \E k \in Keys : Delete(e, k) \/ StartRead(e, k)
         \/ \E w \in Writers : WriterCall(w) \/ Backend(w)
         \/ \E k \in Keys : ChangeByOthers(k)
         \/ CancelAll

PSpec == PInit /\ [][PNext]_allVars

(* The fairness of the exchange, and a backend that answers.               *)
PFairSpec == /\ PSpec /\ Fairness
             /\ \A w \in Writers : WF_allVars(Backend(w))
             /\ \A e \in Executions : WF_allVars(Reader(e)) /\ WF_allVars(Returns(e))

-----------------------------------------------------------------------------
Contents == {Foreign, NoObject} \cup [writer : Writers, chunks : 0 .. MaxWrites]
Reads == [op : {"read"}, key : Keys, content : Contents, saw : SUBSET Contents]
Gots == [op : {"got"}, content : Contents, saw : SUBSET Contents]
PaddockTypeOK ==
    /\ entry \in [Writers -> {"unused", "some", "none", "deleted"}]
    /\ target \in [Writers -> Keys]
    /\ accepted \in [Writers -> 0 .. MaxWrites]
    /\ object \in [Keys -> Contents]
    /\ call \in [Executions -> {NoCall, Answered} \cup {Commit(w) : w \in Writers} \cup Reads \cup Gots]

\* what has become of a writer, wherever it is
WriterStage == [w \in Writers |-> IF entry[w] = "unused" THEN "unused"
                                  ELSE IF entry[w] = "some" \/ Committing(w) THEN "writing" ELSE "closed"]

Writes == INSTANCE ObjectWrites WITH stage <- WriterStage

(* Whatever the guest does with its writers, in any order and also after   *)
(* commit or abort, and however its exchange ends, a writer publishes what *)
(* it accepted at most once, and nothing without a commit.                 *)
ImplementsObjectWrites == Writes!Spec

(* The bytes a guest gets are of a content the key had while the call was  *)
(* running, although the object may be replaced or deleted between the two *)
(* steps of read_range.                                                    *)
ReadIsOfItsTime == \A e \in Executions :
    call[e].op = "got" => call[e].content \in call[e].saw
=============================================================================
