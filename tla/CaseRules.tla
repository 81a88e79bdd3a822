------------------------------ MODULE CaseRules ------------------------------
(***************************************************************************)
(* What POST /v1/cases and PUT /v1/cases/{caseId} accept and what they     *)
(* write, as functions of the request body (src/routers/cases.js,          *)
(* src/openapi/schemas/case.js, src/openapi/validations.js).               *)
(*                                                                         *)
(* A body, and what GET /v1/cases/{caseId} returns, is a record of three   *)
(* parts, each a function from the fields it carries to their values: a    *)
(* field outside the domain is `undefined`.  A stored row is a function    *)
(* from every column to its value, Null being SQL NULL.  The fields are    *)
(* those some rule reads, one required field ("place", for the required    *)
(* fields the PUT handler gives no default), one optional field no rule    *)
(* reads in each part ("generalNotes", "fullName") and one optional field  *)
(* whose values are listed ("nationality").  A list is its length.         *)
(***************************************************************************)
EXTENDS Integers

CONSTANT Null        \* JSON null in a body, SQL NULL in a row

CaseFields ==
  { "place", "generalNotes",
    "isRelatedToOrganizedCrime", "organizedCrimeNotes",
    "hadLegalComplaints", "totalLegalComplaints",
    "wasJudicialized", "judicialMeasures",
    "hasMediaGenderPerspective", "coverageMediaPerspectiveNotes" }

VictimFields ==
  { "fullName", "nationality", "hasChildren", "numberOfChildren", "ageOfChildren" }

AggressorFields == { "fullName", "belongsSecurityForce", "securityForce" }

BooleanFields ==
  { "isRelatedToOrganizedCrime", "hadLegalComplaints", "wasJudicialized",
    "hasMediaGenderPerspective", "hasChildren", "belongsSecurityForce" }

IntegerFields == { "totalLegalComplaints", "numberOfChildren" }

TextFields ==
  { "fullName", "generalNotes", "organizedCrimeNotes",
    "coverageMediaPerspectiveNotes" }

\* Some of the texts an enum lists, of a required and of an optional field.
CasePlaces == { "VIA_PUBLICA", "OTRO_LUGAR" }

Nationalities == { "ARGENTINA", "OTRA" }

-----------------------------------------------------------------------------
(***************************************************************************)
(* JavaScript truthiness, by the type of the field.  It reads undefined    *)
(* and null alike, so it is defined on bodies and on rows.                 *)
(***************************************************************************)
Has(part, f) == f \in DOMAIN part /\ part[f] # Null

IsTrue(part, f) == Has(part, f) /\ part[f] = TRUE

NonZero(part, f) == Has(part, f) /\ part[f] # 0

NonEmpty(part, f) == Has(part, f) /\ part[f] # ""

(***************************************************************************)
(* The schema.  Ajv runs with coerceTypes: a null becomes the zero of a    *)
(* primitive type and fails a list or an enum (an enum has no type to      *)
(* coerce to, and lists no null).  The handlers see the coerced body.      *)
(***************************************************************************)
CoercedNull(f) ==
  CASE f \in BooleanFields -> FALSE
    [] f \in IntegerFields -> 0
    [] f \in TextFields    -> ""

CoercedPart(part) ==
  [f \in DOMAIN part |-> IF part[f] = Null THEN CoercedNull(f) ELSE part[f]]

Coerced(body) ==
  [ case      |-> CoercedPart(body.case),
    victim    |-> CoercedPart(body.victim),
    aggressor |-> CoercedPart(body.aggressor) ]

OnlyCoercibleNulls(part) ==
  \A f \in DOMAIN part :
    part[f] = Null => f \in BooleanFields \cup IntegerFields \cup TextFields

DependentRequired(part, f, g) == f \in DOMAIN part => g \in DOMAIN part

\* An enum takes the texts it lists and no other.
ListedValues(body) ==
  /\ "place" \in DOMAIN body.case => body.case["place"] \in CasePlaces
  /\ "nationality" \in DOMAIN body.victim => body.victim["nationality"] \in Nationalities

SchemaValid(body) ==
  /\ DOMAIN body.case \subseteq CaseFields
  /\ DOMAIN body.victim \subseteq VictimFields
  /\ DOMAIN body.aggressor \subseteq AggressorFields
  /\ "place" \in DOMAIN body.case
  /\ ListedValues(body)
  /\ OnlyCoercibleNulls(body.case)
  /\ OnlyCoercibleNulls(body.victim)
  /\ OnlyCoercibleNulls(body.aggressor)
  /\ DependentRequired(body.case, "organizedCrimeNotes", "isRelatedToOrganizedCrime")
  /\ DependentRequired(body.case, "totalLegalComplaints", "hadLegalComplaints")
  /\ DependentRequired(body.case, "wasJudicialized", "hadLegalComplaints")
  /\ DependentRequired(body.case, "judicialMeasures", "wasJudicialized")
  /\ DependentRequired(body.aggressor, "securityForce", "belongsSecurityForce")

-----------------------------------------------------------------------------
(***************************************************************************)
(* caseValidations: each rule holds where the code pushes no error.  The   *)
(* arguments are a coerced body's parts, or the parts of stored rows.      *)
(***************************************************************************)
OrganizedCrimeRule(c) ==
  NonEmpty(c, "organizedCrimeNotes") <=> IsTrue(c, "isRelatedToOrganizedCrime")

LegalComplaintsRule(c) ==
  \/ IsTrue(c, "hadLegalComplaints")
  \/ ~NonZero(c, "totalLegalComplaints") /\ ~IsTrue(c, "wasJudicialized")

\* A list is truthy even when it is empty.
JudicialMeasuresRule(c) ==
  Has(c, "judicialMeasures") => IsTrue(c, "wasJudicialized")

MediaPerspectiveRule(c) ==
  NonEmpty(c, "coverageMediaPerspectiveNotes") <=> Has(c, "hasMediaGenderPerspective")

NumberOfChildrenRule(v) ==
  Has(v, "ageOfChildren") /\ Has(v, "numberOfChildren")
    => v["numberOfChildren"] >= v["ageOfChildren"]

\* Mutant: the rule forgets the ages.
HasChildrenRuleNumberOnly(v) ==
  IsTrue(v, "hasChildren") \/ ~NonZero(v, "numberOfChildren")

HasChildrenRule(v) ==
  \/ IsTrue(v, "hasChildren")
  \/ ~NonZero(v, "numberOfChildren") /\ ~Has(v, "ageOfChildren")

SecurityForceRule(a) ==
  Has(a, "securityForce") => IsTrue(a, "belongsSecurityForce")

CaseValidations(body) ==
  /\ OrganizedCrimeRule(body.case)
  /\ LegalComplaintsRule(body.case)
  /\ JudicialMeasuresRule(body.case)
  /\ MediaPerspectiveRule(body.case)
  /\ NumberOfChildrenRule(body.victim)
  /\ HasChildrenRule(body.victim)
  /\ SecurityForceRule(body.aggressor)

\* A request with this body is answered 422 exactly when this is FALSE.
Accepted(body) == SchemaValid(body) /\ CaseValidations(Coerced(body))

-----------------------------------------------------------------------------
(***************************************************************************)
(* What is written.  An INSERT leaves the columns the body lacks NULL.  An *)
(* UPDATE sets every column of the handler's defaults or of the body and   *)
(* leaves the others as they are.                                          *)
(***************************************************************************)
\* Mutants: a new column that the handler's defaults miss.
DefaultCaseWithoutNotes ==
  { "isRelatedToOrganizedCrime", "organizedCrimeNotes",
    "hadLegalComplaints", "totalLegalComplaints",
    "wasJudicialized", "judicialMeasures",
    "hasMediaGenderPerspective", "coverageMediaPerspectiveNotes" }

DefaultVictimWithoutNumber == { "fullName", "nationality", "hasChildren", "ageOfChildren" }

DefaultCase ==
  { "generalNotes",
    "isRelatedToOrganizedCrime", "organizedCrimeNotes",
    "hadLegalComplaints", "totalLegalComplaints",
    "wasJudicialized", "judicialMeasures",
    "hasMediaGenderPerspective", "coverageMediaPerspectiveNotes" }

DefaultVictim ==
  { "fullName", "nationality", "hasChildren", "numberOfChildren", "ageOfChildren" }

DefaultAggressor == { "fullName", "belongsSecurityForce", "securityForce" }

\* Mutant: the row keeps only the columns that were sent.
InsertedRowSentOnly(columns, part) == [f \in columns \cap DOMAIN part |-> part[f]]

InsertedRow(columns, part) ==
  [f \in columns |-> IF f \in DOMAIN part THEN part[f] ELSE Null]

UpdatedRow(columns, defaults, part, old) ==
  [f \in columns |-> IF f \in DOMAIN part THEN part[f]
                     ELSE IF f \in defaults THEN Null
                     ELSE old[f]]

\* omitNullValues, as GET /v1/cases/{caseId} applies it to each part.
OmitNullValues(row) == [f \in {g \in DOMAIN row : row[g] # Null} |-> row[f]]

Returned(row) ==
  [ case      |-> OmitNullValues(row.case),
    victim    |-> OmitNullValues(row.victim),
    aggressor |-> OmitNullValues(row.aggressor) ]

\* The three rows an accepted body is inserted as.
Document(body) ==
  [ case      |-> InsertedRow(CaseFields, Coerced(body).case),
    victim    |-> InsertedRow(VictimFields, Coerced(body).victim),
    aggressor |-> InsertedRow(AggressorFields, Coerced(body).aggressor) ]
=============================================================================
