---------------------------- MODULE ObjectWrites ----------------------------
(***************************************************************************)
(* What the Paddock capability promises to a guest that writes objects,    *)
(* without tables, calls or exchanges: a writer publishes all it has       *)
(* accepted, at once and at most once, or nothing.  Objects also change by *)
(* the hands of others.                                                    *)
(***************************************************************************)
EXTENDS Naturals

CONSTANTS Writers, Keys,
          Foreign,    \* content that is not from these writers
          NoObject

VARIABLES stage,      \* stage[w]: "unused", "writing" or "closed"
          target,     \* target[w]: the key w writes to
          accepted,   \* accepted[w]: chunks w has taken
          object      \* object[k]: the content under a key, or NoObject

vars == <<stage, target, accepted, object>>

Content(w) == [writer |-> w, chunks |-> accepted[w]]

Init == /\ stage = [w \in Writers |-> "unused"]
        /\ target \in [Writers -> Keys]
        /\ accepted = [w \in Writers |-> 0]
        /\ object \in [Keys -> {Foreign, NoObject}]

Open(w, k) == /\ stage[w] = "unused"
              /\ stage' = [stage EXCEPT ![w] = "writing"]
              /\ target' = [target EXCEPT ![w] = k]
              /\ UNCHANGED <<accepted, object>>

Accept(w) == /\ stage[w] = "writing"
             /\ accepted' = [accepted EXCEPT ![w] = @ + 1]
             /\ UNCHANGED <<stage, target, object>>

Publish(w) == /\ stage[w] = "writing"
              /\ stage' = [stage EXCEPT ![w] = "closed"]
              /\ object' = [object EXCEPT ![target[w]] = Content(w)]
              /\ UNCHANGED <<target, accepted>>

\* several at once when the execution that owns them ends
Discard(ws) == /\ \A w \in ws : stage[w] = "writing"
               /\ stage' = [w \in Writers |-> IF w \in ws THEN "closed" ELSE stage[w]]
               /\ UNCHANGED <<target, accepted, object>>

ChangeByOthers(k) == /\ object' \in {[object EXCEPT ![k] = v] : v \in {Foreign, NoObject}}
                     /\ UNCHANGED <<stage, target, accepted>>

Next == \/ \E w \in Writers : Accept(w) \/ Publish(w) \/ \E k \in Keys : Open(w, k)
        \/ \E ws \in SUBSET Writers : Discard(ws)
        \/ \E k \in Keys : ChangeByOthers(k)

Spec == Init /\ [][Next]_vars
=============================================================================
