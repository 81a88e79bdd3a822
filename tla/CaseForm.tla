------------------------------- MODULE CaseForm -------------------------------
(***************************************************************************)
(* One case, created once and then edited any number of times by a client  *)
(* that sends whole documents: the field-level story of POST and PUT, with *)
(* every request run to its end before the next.  CaseStore has the same   *)
(* requests interleaved statement by statement.                            *)
(***************************************************************************)
EXTENDS CaseRules

CONSTANTS Bodies,    \* the request bodies clients may send
          NoCase     \* the case does not exist yet

\* null is no boolean, and none of the other values Ajv makes of it.
ASSUME NullAssumption == Null \notin BOOLEAN /\ Null # 0 /\ Null # ""

VARIABLES stored,    \* the case's three rows, or NoCase
          sent,      \* the body of the last request
          status     \* the status the last request was answered with

vars == <<stored, sent, status>>

Init == stored = NoCase /\ sent = NoCase /\ status = 0

UpdatedDocument(body, old) ==
  LET sentParts == Coerced(body)
  IN  [ case      |-> UpdatedRow(CaseFields, DefaultCase, sentParts.case, old.case),
        victim    |-> UpdatedRow(VictimFields, DefaultVictim, sentParts.victim, old.victim),
        aggressor |-> UpdatedRow(AggressorFields, DefaultAggressor,
                                 sentParts.aggressor, old.aggressor) ]

Refuse(body) ==
  /\ ~Accepted(body)
  /\ sent' = body
  /\ status' = 422
  /\ UNCHANGED stored

Create(body) ==
  /\ stored = NoCase
  /\ Accepted(body)
  /\ stored' = Document(body)
  /\ sent' = body
  /\ status' = 201

\* A PUT before the case exists.
EditMissing(body) ==
  /\ stored = NoCase
  /\ Accepted(body)
  /\ sent' = body
  /\ status' = 404
  /\ UNCHANGED stored

Edit(body) ==
  /\ stored # NoCase
  /\ Accepted(body)
  /\ stored' = UpdatedDocument(body, stored)
  /\ sent' = body
  /\ status' = 204

Next ==
  \E body \in Bodies : Refuse(body) \/ Create(body) \/ EditMissing(body) \/ Edit(body)

Spec == Init /\ [][Next]_vars

-----------------------------------------------------------------------------
\* The stored case is three full rows, whatever was sent.
TypeOK ==
  /\ stored # NoCase =>
       /\ DOMAIN stored.case = CaseFields
       /\ DOMAIN stored.victim = VictimFields
       /\ DOMAIN stored.aggressor = AggressorFields
  /\ status \in {0, 201, 204, 404, 422}

\* Whatever was created and edited before, the document GET returns can be sent
\* back: the schema accepts it, no cross-field rule refuses it, and storing it
\* again changes nothing.  This is what the edit form of the web client does.
ReturnedCaseCanBeResubmitted ==
  stored # NoCase =>
    /\ Accepted(Returned(stored))
    /\ UpdatedDocument(Returned(stored), stored) = stored

\* An edit leaves no trace of the document it replaces: the rows are those a
\* POST of the same body would have inserted ("resets fields omitted from the
\* update to null").
EditLeavesNoResidue ==
  [][stored # NoCase /\ stored' # stored => stored' = Document(sent')]_vars

\* The chain the cross-field rules promise to whoever reads the table, over any
\* history of edits: measures imply a judicialized case, which implies
\* complaints; ages imply children; a force implies membership.
StoredFactsHaveTheirPremises ==
  stored # NoCase =>
    /\ stored.case["judicialMeasures"] # Null => stored.case["wasJudicialized"] = TRUE
    /\ stored.case["wasJudicialized"] = TRUE => stored.case["hadLegalComplaints"] = TRUE
    /\ stored.case["totalLegalComplaints"] \notin {Null, 0}
         => stored.case["hadLegalComplaints"] = TRUE
    /\ stored.victim["ageOfChildren"] # Null => stored.victim["hasChildren"] = TRUE
    /\ stored.aggressor["securityForce"] # Null
         => stored.aggressor["belongsSecurityForce"] = TRUE
=============================================================================
