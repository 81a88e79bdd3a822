------------------------------ MODULE MCCaseForm ------------------------------
(***************************************************************************)
(* CaseForm over every body that fills the fields of one topic of the form *)
(* at a time (the rules never relate two topics), with every value a field *)
(* distinguishes, absence and null included.                               *)
(***************************************************************************)
EXTENDS CaseForm, FiniteSetsExt

Numbers == {-1, 0, 1, 2}

Values(f) ==
  CASE f \in BooleanFields -> {TRUE, FALSE, Null}
    [] f \in TextFields -> {"", "text", Null}
    [] f \in IntegerFields -> Numbers \cup {Null}
    [] f = "judicialMeasures" -> {0, 1, Null}
    [] f = "ageOfChildren" -> {0, 1, 2, Null}
    [] f = "securityForce" -> {"force", Null}
    [] f = "nationality" -> {"ARGENTINA", "OTRA", "argentina", Null}

Required == [f \in {"place"} |-> "OTRO_LUGAR"]

Unlisted == [f \in {"place"} |-> "PLAZA"]

Empty == [f \in {} |-> Null]

Plus(part, more) ==
  [f \in DOMAIN part \cup DOMAIN more |-> IF f \in DOMAIN part THEN part[f] ELSE more[f]]

\* All the ways to fill in, or leave out, each of the fields.
Fillings(fields) ==
  LET WithField(f, parts) ==
        parts \cup { Plus([g \in {f} |-> v], p) : v \in Values(f), p \in parts }
  IN  FoldSet(WithField, {Empty}, fields)

Body(c, v, a) == [case |-> c, victim |-> v, aggressor |-> a]

CaseTopics ==
  { {"isRelatedToOrganizedCrime", "organizedCrimeNotes"},
    {"hadLegalComplaints", "totalLegalComplaints"},
    {"hadLegalComplaints", "wasJudicialized", "judicialMeasures"},
    {"hasMediaGenderPerspective", "coverageMediaPerspectiveNotes"},
    {"generalNotes"} }

VictimTopics == { VictimFields \ {"fullName", "nationality"}, {"nationality"} }

MCBodies ==
  { Body(Plus(Required, c), Empty, Empty) : c \in UNION {Fillings(t) : t \in CaseTopics} }
    \cup { Body(Required, v, Empty) : v \in UNION {Fillings(t) : t \in VictimTopics} }
    \cup { Body(Required, Empty, a) : a \in Fillings(AggressorFields) }
    \cup { Body(Empty, Empty, Empty), Body(Unlisted, Empty, Empty) }
=============================================================================
