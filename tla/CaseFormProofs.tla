---------------------------- MODULE CaseFormProofs ----------------------------
(***************************************************************************)
(* Proofs about CaseForm for any bodies: any combination of fields, with   *)
(* any values, over any history of creates and edits.                      *)
(***************************************************************************)
EXTENDS CaseForm, TLAPS

(***************************************************************************)
(* Ajv's coercion of an accepted body leaves no null in it and keeps the   *)
(* fields it has, so coercing it again changes nothing.                    *)
(***************************************************************************)
Coercible == BooleanFields \cup IntegerFields \cup TextFields

LEMMA CoercedNullIsNotNull ==
  ASSUME NEW f \in Coercible
  PROVE  CoercedNull(f) # Null
<1>1. f \in BooleanFields => CoercedNull(f) = FALSE
  BY DEF CoercedNull, BooleanFields, IntegerFields, TextFields
<1>2. f \in IntegerFields => CoercedNull(f) = 0
  BY DEF CoercedNull, BooleanFields, IntegerFields, TextFields
<1>3. f \in TextFields => CoercedNull(f) = ""
  BY DEF CoercedNull, BooleanFields, IntegerFields, TextFields
<1> QED BY <1>1, <1>2, <1>3, NullAssumption DEF Coercible

LEMMA CoercedPartHasNoNull ==
  ASSUME NEW part, OnlyCoercibleNulls(part)
  PROVE  /\ DOMAIN CoercedPart(part) = DOMAIN part
         /\ \A f \in DOMAIN part : CoercedPart(part)[f] # Null
         /\ CoercedPart(CoercedPart(part)) = CoercedPart(part)
<1>1. DOMAIN CoercedPart(part) = DOMAIN part
  BY DEF CoercedPart
<1>2. \A f \in DOMAIN part : CoercedPart(part)[f] # Null
  BY CoercedNullIsNotNull DEF CoercedPart, OnlyCoercibleNulls, Coercible
<1>3. CoercedPart(CoercedPart(part)) = [f \in DOMAIN part |-> CoercedPart(part)[f]]
  BY <1>1, <1>2 DEF CoercedPart
<1>4. CoercedPart(part) = [f \in DOMAIN part |-> CoercedPart(part)[f]]
  BY DEF CoercedPart
<1> QED BY <1>1, <1>2, <1>3, <1>4

LEMMA CoercedBodyHasNoNull ==
  ASSUME NEW body, SchemaValid(body)
  PROVE  /\ \A f \in DOMAIN Coerced(body).case : Coerced(body).case[f] # Null
         /\ \A f \in DOMAIN Coerced(body).victim : Coerced(body).victim[f] # Null
         /\ \A f \in DOMAIN Coerced(body).aggressor : Coerced(body).aggressor[f] # Null
         /\ DOMAIN Coerced(body).case = DOMAIN body.case
         /\ DOMAIN Coerced(body).victim = DOMAIN body.victim
         /\ DOMAIN Coerced(body).aggressor = DOMAIN body.aggressor
         /\ Coerced(Coerced(body)) = Coerced(body)
<1>1. /\ OnlyCoercibleNulls(body.case)
      /\ OnlyCoercibleNulls(body.victim)
      /\ OnlyCoercibleNulls(body.aggressor)
  BY DEF SchemaValid
<1>2. /\ Coerced(body).case = CoercedPart(body.case)
      /\ Coerced(body).victim = CoercedPart(body.victim)
      /\ Coerced(body).aggressor = CoercedPart(body.aggressor)
  BY DEF Coerced
<1>3. Coerced(Coerced(body)) = Coerced(body)
  BY <1>1, <1>2, CoercedPartHasNoNull DEF Coerced
<1> QED BY <1>1, <1>2, <1>3, CoercedPartHasNoNull

(***************************************************************************)
(* What a row inserted from a part reads back as: the part.                *)
(***************************************************************************)
LEMMA InsertedPartReadsBack ==
  ASSUME NEW columns, NEW part, part = [f \in DOMAIN part |-> part[f]],
         DOMAIN part \subseteq columns,
         \A f \in DOMAIN part : part[f] # Null
  PROVE  OmitNullValues(InsertedRow(columns, part)) = part
<1> DEFINE row == InsertedRow(columns, part)
<1>1. DOMAIN row = columns
  BY DEF InsertedRow
<1>2. \A f \in columns : row[f] = IF f \in DOMAIN part THEN part[f] ELSE Null
  BY DEF InsertedRow
<1>3. {g \in DOMAIN row : row[g] # Null} = DOMAIN part
  BY <1>1, <1>2
<1>4. \A f \in DOMAIN part : row[f] = part[f]
  BY <1>2
<1> HIDE DEF row
<1>5. OmitNullValues(row) = [f \in DOMAIN part |-> row[f]]
  BY <1>3 DEF OmitNullValues
<1>6. [f \in DOMAIN part |-> row[f]] = [f \in DOMAIN part |-> part[f]]
  BY <1>4
<1> QED BY <1>5, <1>6 DEF row

(***************************************************************************)
(* GET after POST returns what the handlers saw of the body.               *)
(***************************************************************************)
LEMMA DocumentReadsBack ==
  ASSUME NEW body, SchemaValid(body)
  PROVE  Returned(Document(body)) = Coerced(body)
<1> DEFINE sentParts == Coerced(body)
<1>1. /\ sentParts.case = [f \in DOMAIN sentParts.case |-> sentParts.case[f]]
      /\ sentParts.victim = [f \in DOMAIN sentParts.victim |-> sentParts.victim[f]]
      /\ sentParts.aggressor = [f \in DOMAIN sentParts.aggressor |-> sentParts.aggressor[f]]
  BY DEF Coerced, CoercedPart
<1>2. /\ DOMAIN sentParts.case \subseteq CaseFields
      /\ DOMAIN sentParts.victim \subseteq VictimFields
      /\ DOMAIN sentParts.aggressor \subseteq AggressorFields
  BY CoercedBodyHasNoNull DEF SchemaValid
<1>3. /\ OmitNullValues(InsertedRow(CaseFields, sentParts.case)) = sentParts.case
      /\ OmitNullValues(InsertedRow(VictimFields, sentParts.victim)) = sentParts.victim
      /\ OmitNullValues(InsertedRow(AggressorFields, sentParts.aggressor))
           = sentParts.aggressor
  BY <1>1, <1>2, CoercedBodyHasNoNull, InsertedPartReadsBack
<1>4. Returned(Document(body)) = [ case      |-> sentParts.case,
                                   victim    |-> sentParts.victim,
                                   aggressor |-> sentParts.aggressor ]
  BY <1>3 DEF Returned, Document
<1>5. sentParts = [ case      |-> sentParts.case,
                    victim    |-> sentParts.victim,
                    aggressor |-> sentParts.aggressor ]
  BY DEF Coerced
<1> QED BY <1>4, <1>5

(***************************************************************************)
(* What the handlers saw of an accepted body is accepted, and inserted as  *)
(* the same rows.                                                          *)
(***************************************************************************)
LEMMA CoercedIsAccepted ==
  ASSUME NEW body, Accepted(body)
  PROVE  /\ Accepted(Coerced(body))
         /\ Document(Coerced(body)) = Document(body)
<1>1. SchemaValid(body) /\ CaseValidations(Coerced(body))
  BY DEF Accepted
<1>2. Coerced(Coerced(body)) = Coerced(body)
  BY <1>1, CoercedBodyHasNoNull
<1>3. /\ OnlyCoercibleNulls(Coerced(body).case)
      /\ OnlyCoercibleNulls(Coerced(body).victim)
      /\ OnlyCoercibleNulls(Coerced(body).aggressor)
  BY <1>1, CoercedBodyHasNoNull DEF OnlyCoercibleNulls
<1>4. /\ DOMAIN Coerced(body).case = DOMAIN body.case
      /\ DOMAIN Coerced(body).victim = DOMAIN body.victim
      /\ DOMAIN Coerced(body).aggressor = DOMAIN body.aggressor
  BY <1>1, CoercedBodyHasNoNull
<1>l. ListedValues(Coerced(body))
  <2>1. \A part : \A f \in {"place", "nationality"} :
          f \in DOMAIN part /\ OnlyCoercibleNulls(part) => CoercedPart(part)[f] = part[f]
    BY DEF CoercedPart, OnlyCoercibleNulls, BooleanFields, IntegerFields, TextFields
  <2>2. /\ "place" \in DOMAIN body.case => Coerced(body).case["place"] = body.case["place"]
        /\ "nationality" \in DOMAIN body.victim =>
             Coerced(body).victim["nationality"] = body.victim["nationality"]
    <3>1. OnlyCoercibleNulls(body.case) /\ OnlyCoercibleNulls(body.victim)
      BY <1>1 DEF SchemaValid
    <3>2. /\ Coerced(body).case = CoercedPart(body.case)
          /\ Coerced(body).victim = CoercedPart(body.victim)
      BY DEF Coerced
    <3> QED BY <2>1, <3>1, <3>2
  <2> QED BY <1>1, <1>4, <2>2 DEF SchemaValid, ListedValues
<1>5. SchemaValid(Coerced(body))
  BY <1>1, <1>3, <1>4, <1>l DEF SchemaValid, DependentRequired
<1>6. Accepted(Coerced(body))
  BY <1>1, <1>2, <1>5 DEF Accepted
<1>7. Document(Coerced(body)) = Document(body)
  BY <1>2 DEF Document
<1> QED BY <1>6, <1>7

(***************************************************************************)
(* An update writes the rows an insert of the same body would: every       *)
(* optional column has a default, and the required one is in the body.     *)
(***************************************************************************)
LEMMA UpdatedIsInserted ==
  ASSUME NEW body, Accepted(body), NEW old
  PROVE  UpdatedDocument(body, old) = Document(body)
<1> DEFINE sentParts == Coerced(body)
<1>1. UpdatedRow(VictimFields, DefaultVictim, sentParts.victim, old.victim)
        = InsertedRow(VictimFields, sentParts.victim)
  BY DEF UpdatedRow, InsertedRow, VictimFields, DefaultVictim
<1>2. UpdatedRow(AggressorFields, DefaultAggressor, sentParts.aggressor, old.aggressor)
        = InsertedRow(AggressorFields, sentParts.aggressor)
  BY DEF UpdatedRow, InsertedRow, AggressorFields, DefaultAggressor
<1>3. "place" \in DOMAIN sentParts.case
  BY DEF Accepted, SchemaValid, Coerced, CoercedPart
<1>4. \A f \in CaseFields : f \in DefaultCase \/ f = "place"
  BY DEF CaseFields, DefaultCase
<1>5. UpdatedRow(CaseFields, DefaultCase, sentParts.case, old.case)
        = InsertedRow(CaseFields, sentParts.case)
  BY <1>3, <1>4 DEF UpdatedRow, InsertedRow
<1> QED BY <1>1, <1>2, <1>5 DEF UpdatedDocument, Document

-----------------------------------------------------------------------------
(***************************************************************************)
(* The inductive invariant: whatever was created and edited before, the    *)
(* stored case is what one accepted body is inserted as.                   *)
(***************************************************************************)
InsertedFrom(rows) == \E body : Accepted(body) /\ rows = Document(body)

IndInv ==
  /\ stored # NoCase => InsertedFrom(stored)
  /\ status \in {0, 201, 204, 404, 422}

LEMMA InductiveInvariant == Spec => []IndInv
<1>1. Init => IndInv
  BY DEF Init, IndInv
<1>2. IndInv /\ [Next]_vars => IndInv'
  <2> SUFFICES ASSUME IndInv, [Next]_vars PROVE IndInv'
    OBVIOUS
  <2>1. CASE UNCHANGED vars
    BY <2>1 DEF IndInv, vars
  <2>2. ASSUME NEW body \in Bodies, Refuse(body) PROVE IndInv'
    BY <2>2 DEF Refuse, IndInv
  <2>3. ASSUME NEW body \in Bodies, Create(body) PROVE IndInv'
    <3>1. InsertedFrom(stored')
      BY <2>3 DEF Create, InsertedFrom
    <3> QED BY <2>3, <3>1 DEF Create, IndInv
  <2>4. ASSUME NEW body \in Bodies, EditMissing(body) PROVE IndInv'
    BY <2>4 DEF EditMissing, IndInv
  <2>5. ASSUME NEW body \in Bodies, Edit(body) PROVE IndInv'
    <3>1. stored' = Document(body)
      BY <2>5, UpdatedIsInserted DEF Edit
    <3>2. InsertedFrom(stored')
      BY <2>5, <3>1 DEF Edit, InsertedFrom
    <3> QED BY <2>5, <3>2 DEF Edit, IndInv
  <2> QED BY <2>1, <2>2, <2>3, <2>4, <2>5 DEF Next
<1> QED BY <1>1, <1>2, PTL DEF Spec

-----------------------------------------------------------------------------
(***************************************************************************)
(* The case is three full rows in every reachable state.                   *)
(***************************************************************************)
THEOREM FormTypes == Spec => []TypeOK
<1>1. IndInv => TypeOK
  BY DEF IndInv, InsertedFrom, TypeOK, Document, InsertedRow
<1> QED BY <1>1, InductiveInvariant, PTL

(***************************************************************************)
(* After any history of creates and edits, with any bodies, the document   *)
(* GET returns is accepted by PUT and changes nothing.                     *)
(***************************************************************************)
THEOREM ReturnedIsResubmittable == Spec => []ReturnedCaseCanBeResubmitted
<1>1. IndInv => ReturnedCaseCanBeResubmitted
  <2> SUFFICES ASSUME IndInv, stored # NoCase
               PROVE  /\ Accepted(Returned(stored))
                      /\ UpdatedDocument(Returned(stored), stored) = stored
    BY DEF ReturnedCaseCanBeResubmitted
  <2>1. PICK body : Accepted(body) /\ stored = Document(body)
    BY DEF IndInv, InsertedFrom
  <2>2. Returned(stored) = Coerced(body)
    BY <2>1, DocumentReadsBack DEF Accepted
  <2>3. Accepted(Coerced(body)) /\ Document(Coerced(body)) = stored
    BY <2>1, CoercedIsAccepted
  <2>4. UpdatedDocument(Coerced(body), stored) = stored
    BY <2>3, UpdatedIsInserted
  <2> QED BY <2>2, <2>3, <2>4
<1> QED BY <1>1, InductiveInvariant, PTL

(***************************************************************************)
(* The cross-field rules, which read one body, hold of the table after any *)
(* history of edits.                                                       *)
(***************************************************************************)
THEOREM FactsHavePremises == Spec => []StoredFactsHaveTheirPremises
<1>1. IndInv => StoredFactsHaveTheirPremises
  <2> SUFFICES ASSUME IndInv, stored # NoCase
               PROVE  StoredFactsHaveTheirPremises
    BY DEF StoredFactsHaveTheirPremises
  <2>1. PICK body : Accepted(body) /\ stored = Document(body)
    BY DEF IndInv, InsertedFrom
  <2> DEFINE c == Coerced(body).case
             v == Coerced(body).victim
             a == Coerced(body).aggressor
  <2>2. /\ LegalComplaintsRule(c) /\ JudicialMeasuresRule(c)
        /\ HasChildrenRule(v) /\ SecurityForceRule(a)
    BY <2>1 DEF Accepted, CaseValidations
  <2>3. /\ \A f \in CaseFields : stored.case[f] = IF f \in DOMAIN c THEN c[f] ELSE Null
        /\ \A f \in VictimFields : stored.victim[f] = IF f \in DOMAIN v THEN v[f] ELSE Null
        /\ \A f \in AggressorFields :
             stored.aggressor[f] = IF f \in DOMAIN a THEN a[f] ELSE Null
    BY <2>1 DEF Document, InsertedRow
  <2> HIDE DEF c, v, a
  <2>4. /\ stored.case["judicialMeasures"] # Null => stored.case["wasJudicialized"] = TRUE
        /\ stored.case["wasJudicialized"] = TRUE => stored.case["hadLegalComplaints"] = TRUE
        /\ stored.case["totalLegalComplaints"] \notin {Null, 0}
             => stored.case["hadLegalComplaints"] = TRUE
    BY <2>2, <2>3, NullAssumption
       DEF CaseFields, LegalComplaintsRule, JudicialMeasuresRule, Has, IsTrue, NonZero
  <2>5. stored.victim["ageOfChildren"] # Null => stored.victim["hasChildren"] = TRUE
    BY <2>2, <2>3 DEF VictimFields, HasChildrenRule, Has, IsTrue
  <2>6. stored.aggressor["securityForce"] # Null
          => stored.aggressor["belongsSecurityForce"] = TRUE
    BY <2>2, <2>3 DEF AggressorFields, SecurityForceRule, Has, IsTrue
  <2> QED BY <2>4, <2>5, <2>6 DEF StoredFactsHaveTheirPremises
<1> QED BY <1>1, InductiveInvariant, PTL

(***************************************************************************)
(* An edit leaves the rows a POST of its body would have inserted.         *)
(***************************************************************************)
THEOREM NoResidue == Spec => EditLeavesNoResidue
<1>1. [Next]_vars =>
        [stored # NoCase /\ stored' # stored => stored' = Document(sent')]_vars
  <2> SUFFICES ASSUME Next, stored # NoCase, stored' # stored
               PROVE  stored' = Document(sent')
    BY DEF vars
  <2>1. PICK body \in Bodies :
          Refuse(body) \/ Create(body) \/ EditMissing(body) \/ Edit(body)
    BY DEF Next
  <2>2. Edit(body)
    BY <2>1 DEF Refuse, Create, EditMissing
  <2> QED BY <2>2, UpdatedIsInserted DEF Edit
<1> QED BY <1>1, PTL DEF Spec, EditLeavesNoResidue
=============================================================================
