--------------------------- MODULE MCHistoricImport ---------------------------
(***************************************************************************)
(* HistoricImport over sheets of one row, with every filling of the cells  *)
(* of one topic of the form, and over a sheet of three rows, of which one  *)
(* is refused.                                                             *)
(***************************************************************************)
EXTENDS HistoricImport

Plain ==
  [ province |-> "Chaco", place |-> Blank, caseCategory |-> "Femicidio",
    victimNationality |-> "ARGENTINA",
    victimFullName |-> "name", generalNotes |-> Blank,
    hasChildren |-> Blank, numberOfChildren |-> 0, agesOfChildren |-> 0,
    belongsSecurityForce |-> Blank, securityForce |-> Blank,
    hadLegalComplaints |-> Blank, totalLegalComplaints |-> Blank,
    wasJudicialized |-> Blank, isRelatedToOrganizedCrime |-> Blank,
    organizedCrimeNotes |-> Blank, mediaGenderApproach |-> Blank ]

Numbers == {Blank, -1, 0, 1, 2}

\* The rows of the layout that lib/tsv-transform.js gives.
Rows ==
  { [Plain EXCEPT !.hasChildren = h, !.numberOfChildren = n, !.agesOfChildren = a] :
      h \in BooleanCells, n \in Numbers, a \in 0..2 }
    \cup
  { [Plain EXCEPT !.belongsSecurityForce = b, !.securityForce = s] :
      b \in BooleanCells, s \in {Blank, "Policia", "Bombero"} }
    \cup
  { [Plain EXCEPT !.hadLegalComplaints = h, !.totalLegalComplaints = n, !.wasJudicialized = j] :
      h \in BooleanCells, n \in Numbers, j \in BooleanCells }
    \cup
  { [Plain EXCEPT !.province = p, !.place = q, !.victimNationality = n] :
      p \in {Blank, "Chaco", "Atlantida"},
      q \in {Blank, "Via Publica", "Otro lugar", "Plaza"},
      n \in {Blank, "ARGENTINA"} }
    \cup
  { [Plain EXCEPT !.caseCategory = c, !.victimNationality = n] :
      c \in {Blank, "Femicidio", "Crimenes de Odio"},
      n \in {"ARGENTINA", "Argentina", "Otros paises", "Sin Datos", "Sin datos"} }

\* Those of the layouts that have the columns it comments out.
OtherRows ==
  { [Plain EXCEPT !.isRelatedToOrganizedCrime = r, !.organizedCrimeNotes = n] :
      r \in BooleanCells, n \in {Blank, "notes"} }
    \cup
  { [Plain EXCEPT !.mediaGenderApproach = m, !.generalNotes = n] :
      m \in BooleanCells, n \in {Blank, "notes"} }

Unplaced == [Plain EXCEPT !.place = "Plaza"]

SingleRowSheets == { <<row>> : row \in Rows }

MCSheets ==
  SingleRowSheets \cup { <<row>> : row \in OtherRows } \cup { <<Plain, Unplaced, Plain>>, <<>> }
=============================================================================
