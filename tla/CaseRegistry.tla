----------------------------- MODULE CaseRegistry -----------------------------
(***************************************************************************)
(* What the case endpoints promise their clients, without tables, ids of   *)
(* victims or transactions: a registry of whole documents.  A request that *)
(* takes effect does so once, at one instant, between being asked and      *)
(* being answered; a success is answered only after the effect, a refusal  *)
(* only without one; a 500 or a lost answer says nothing.  Ids are never   *)
(* reused and a registered case is never lost.                             *)
(***************************************************************************)
EXTENDS CaseRules

CONSTANTS Requests,   \* the HTTP requests of a behaviour
          Orders,     \* what a request may ask: [kind, path, body, ...]
          NoOrder,    \* not asked yet
          CaseIds     \* the ids a case can have

VARIABLES registry,   \* case id -> document
          asked,      \* request -> what it asks for, or NoOrder
          effect,     \* request -> whether it has taken effect
          status      \* request -> the status it was answered with, or "none"

registryVars == <<registry, asked, effect, status>>

Init ==
  /\ registry = [c \in {} |-> NoOrder]
  /\ asked = [r \in Requests |-> NoOrder]
  /\ effect = [r \in Requests |-> FALSE]
  /\ status = [r \in Requests |-> "none"]

Pending(r) == asked[r] # NoOrder /\ status[r] = "none"

\* A request arrives; one whose body is refused is answered at once.
Ask(r, q) ==
  /\ asked[r] = NoOrder
  /\ asked' = [asked EXCEPT ![r] = q]
  /\ status' = [status EXCEPT ![r] = IF Accepted(q.body) THEN "none" ELSE "422"]
  /\ UNCHANGED <<registry, effect>>

TakeEffect(r, c) ==
  /\ Pending(r) /\ ~effect[r]
  /\ registry' = [d \in DOMAIN registry \cup {c} |->
                    IF d = c THEN Document(asked[r].body) ELSE registry[d]]
  /\ effect' = [effect EXCEPT ![r] = TRUE]
  /\ UNCHANGED asked

Register(r) ==
  /\ Pending(r) /\ asked[r].kind = "POST"
  /\ \E c \in CaseIds \ DOMAIN registry : TakeEffect(r, c)

Replace(r) ==
  /\ Pending(r) /\ asked[r].kind = "PUT"
  /\ asked[r].path \in DOMAIN registry
  /\ TakeEffect(r, asked[r].path)

\* What an answer says of the effect.
Truthful(r, s) ==
  CASE s = "201" -> asked[r].kind = "POST" /\ effect[r]
    [] s = "204" -> asked[r].kind = "PUT" /\ effect[r]
    [] s = "404" -> /\ asked[r].kind = "PUT" /\ ~effect[r]
                    /\ asked[r].path \notin DOMAIN registry
    [] s \in {"500", "lost"} -> TRUE

Answer(r, s) ==
  /\ Pending(r)
  /\ Truthful(r, s)
  /\ status' = [status EXCEPT ![r] = s]
  /\ UNCHANGED <<registry, asked, effect>>

\* The connection breaks after COMMIT is applied and before it is reported:
\* the effect and the answer 500 in one instant.
EffectAnsweredAsFailure(r) ==
  /\ Register(r) \/ Replace(r)
  /\ status' = [status EXCEPT ![r] = "500"]

Effect(r) == (Register(r) \/ Replace(r)) /\ UNCHANGED status

Answers == {"201", "204", "404", "500", "lost"}

Next ==
  \E r \in Requests :
    \/ \E q \in Orders : Ask(r, q)
    \/ Effect(r)
    \/ EffectAnsweredAsFailure(r)
    \/ \E s \in Answers : Answer(r, s)

Spec == Init /\ [][Next]_registryVars
=============================================================================
