----------------------------- MODULE HistoricRow -----------------------------
(***************************************************************************)
(* How a row of the observatory's old spreadsheets becomes the body of a   *)
(* POST /v1/cases (historic-data/lib/tsv-transform.js,                     *)
(* historic-data/parse.js).  A row is a record of the cells whose fields   *)
(* CaseRules reads and of two more required fields: "province", for those  *)
(* a row may lack, and "caseCategory", for those that may be sent with a   *)
(* value the form refuses.                                                 *)
(***************************************************************************)
EXTENDS CaseRules

CONSTANTS
  Blank,      \* a cell that is empty, of spaces, or in no column of the layout
  Undefined,  \* JavaScript's undefined: the property is left out of the JSON
  NaN         \* JavaScript's NaN: null in the JSON

\* The words a yes/no cell may hold: two ways of having no data.
BooleanCells == {Blank, "Si", "No", "Sin Datos", "Sin datos"}

\* Those that begin with "si", in lower case.
BeginWithSi == {"Si", "Sin Datos", "Sin datos"}

\* The texts the conversion writes itself, and the one that Ajv writes.
Written ==
  {"", "CHACO", "VIA_PUBLICA", "OTRO_LUGAR", "POLICIA", "OTRA", "FEMICIDIO_DIRECTO",
   "CRIMEN_DE_ODIO", "Pending notes", "Notas pendientes"}

ASSUME MarkersAssumption ==
  /\ \A m \in {Undefined, NaN, Null} : m \notin BOOLEAN /\ m \notin Int /\ m \notin Written
  /\ Undefined # NaN /\ Undefined # Null /\ NaN # Null
  /\ Blank \notin {"Si", "No", "Sin Datos", "Sin datos"} /\ Blank \notin Int

\* What the columns may hold: an empty text is Blank.
Filled(row) ==
  /\ \A f \in {"hasChildren", "belongsSecurityForce", "hadLegalComplaints",
              "wasJudicialized", "isRelatedToOrganizedCrime", "mediaGenderApproach"} :
       row[f] \in BooleanCells
  /\ \A f \in {"numberOfChildren", "totalLegalComplaints"} : row[f] \in Int \cup {Blank}
  /\ \A f \in {"victimFullName", "victimNationality", "generalNotes", "organizedCrimeNotes"} :
       row[f] \notin {"", Undefined, NaN, Null}
  /\ row.agesOfChildren \in Nat

\* Mutant: no data is not looked for.
ParseBooleanPrefixOnly(cell) == IF cell = Blank THEN Undefined ELSE cell \in BeginWithSi

ParseBoolean(cell) ==
  IF cell \in {Blank, "Sin Datos"} THEN Undefined ELSE cell \in BeginWithSi

\* Only a cell that begins with a number is not Blank here.
ParseInteger(cell) == IF cell = Blank THEN Undefined ELSE cell

ParseOptionalString(cell) == IF cell = Blank THEN Undefined ELSE cell

\* `if (!value in map) throw` never throws: a value that is not listed is
\* undefined, as an empty one is.
Looked(list, cell) == IF cell \in DOMAIN list THEN list[cell] ELSE Undefined

Provinces == [c \in {"Chaco"} |-> "CHACO"]

Places == [c \in {"Via Publica"} |-> "VIA_PUBLICA"]

\* The map knows a category that the form's list does not have.
Categories ==
  [c \in {"Femicidio", "Crimenes de Odio"} |->
     IF c = "Femicidio" THEN "FEMICIDIO_DIRECTO" ELSE "CRIMEN_DE_ODIO"]

CaseCategories == {"FEMICIDIO_DIRECTO"}

SecurityForces == [c \in {"Policia", "Jubilado Ex Policia"} |-> "POLICIA"]

ParseProvince(cell) == Looked(Provinces, cell)

ParsePlace(cell) ==
  IF cell \in {Blank, "Otro lugar"} THEN "OTRO_LUGAR" ELSE Looked(Places, cell)

ParseCaseCategory(cell) == Looked(Categories, cell)

ParseSecurityForce(cell) == Looked(SecurityForces, cell)

\* The cells that begin with "otros pais", and those that are "sin datos", in any case.
OtherCountries == {"Otros paises"}

NoData == {"Sin Datos", "Sin datos"}

\* The only text that is neither looked up nor free: it is sent as the sheet has it.
ParseNationality(cell) ==
  CASE cell = Blank -> Undefined
    [] cell # Blank /\ cell \in OtherCountries -> "OTRA"
    [] OTHER -> cell

-----------------------------------------------------------------------------
\* JavaScript's operators on what the parsers return.

Or(a, b) == IF a = TRUE THEN TRUE ELSE b

Positive(n) == n \in Int /\ n > 0

Larger(n, m) == IF n = Undefined THEN NaN ELSE IF n > m THEN n ELSE m

\* A list of ages is its length; all the cells of ages together are one.
BuildVictim(row) ==
  LET number == Larger(ParseInteger(row.numberOfChildren), row.agesOfChildren)
      nationality == ParseNationality(row.victimNationality)
  IN  [ fullName |-> ParseOptionalString(row.victimFullName),
        nationality |-> IF nationality \in NoData THEN Undefined ELSE nationality,
        ageOfChildren |-> IF row.agesOfChildren > 0 THEN row.agesOfChildren ELSE Undefined,
        numberOfChildren |-> number,
        hasChildren |-> Or(ParseBoolean(row.hasChildren),
                           Positive(number) \/ row.agesOfChildren > 0) ]

\* Mutant: a force that is listed does not make a member.
BuildAggressorAsTold(row) ==
  [ securityForce |-> ParseSecurityForce(row.securityForce),
    belongsSecurityForce |-> ParseBoolean(row.belongsSecurityForce) ]

BuildAggressor(row) ==
  [ securityForce |-> ParseSecurityForce(row.securityForce),
    belongsSecurityForce |-> Or(ParseBoolean(row.belongsSecurityForce),
                                ParseSecurityForce(row.securityForce) # Undefined) ]

OrganizedCrime(row) ==
  LET notes == ParseOptionalString(row.organizedCrimeNotes)
      said == ParseBoolean(row.isRelatedToOrganizedCrime)
  IN  CASE notes # Undefined -> [is |-> TRUE, notes |-> notes]
        [] notes = Undefined /\ said = TRUE -> [is |-> TRUE, notes |-> "Pending notes"]
        [] notes = Undefined /\ said = FALSE -> [is |-> FALSE, notes |-> Undefined]
        [] notes = Undefined /\ said = Undefined -> [is |-> Null, notes |-> Undefined]

\* "place" stands for the required fields: it is there when they all are, and has a
\* value the form takes when they all have.
RequiredFields(row) ==
  LET category == ParseCaseCategory(row.caseCategory)
  IN  IF ParseProvince(row.province) = Undefined \/ category = Undefined THEN Undefined
      ELSE IF category \notin CaseCategories THEN category
      ELSE ParsePlace(row.place)

BuildCase(row) ==
  LET total == ParseInteger(row.totalLegalComplaints)
      judicialized == ParseBoolean(row.wasJudicialized)
      perspective == ParseBoolean(row.mediaGenderApproach)
  IN  [ place |-> RequiredFields(row),
        wasJudicialized |-> judicialized,
        totalLegalComplaints |-> IF Positive(total) THEN total ELSE Undefined,
        hadLegalComplaints |-> Or(Or(ParseBoolean(row.hadLegalComplaints), Positive(total)),
                                  judicialized),
        isRelatedToOrganizedCrime |-> OrganizedCrime(row).is,
        organizedCrimeNotes |-> OrganizedCrime(row).notes,
        generalNotes |-> ParseOptionalString(row.generalNotes),
        hasMediaGenderPerspective |-> perspective,
        coverageMediaPerspectiveNotes |->
          IF perspective = Undefined THEN Undefined ELSE "Notas pendientes" ]

\* buildVictim calls a method of the nationality, whether there is one or not;
\* so does the last, empty row of a file that ends in a newline.
Convertible(row) == row.victimNationality # Blank

\* JSON.stringify
Json(part) ==
  [f \in {g \in DOMAIN part : part[g] # Undefined} |->
     IF part[f] = NaN THEN Null ELSE part[f]]

Body(row) ==
  [ case      |-> Json(BuildCase(row)),
    victim    |-> Json(BuildVictim(row)),
    aggressor |-> Json(BuildAggressor(row)) ]
=============================================================================
