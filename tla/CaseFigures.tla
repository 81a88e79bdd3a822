----------------------------- MODULE CaseFigures -----------------------------
(***************************************************************************)
(* What GET /v1/cases/stats computes: the rows its query selects           *)
(* (applyCaseFilters, src/routers/cases.js) and the figures it makes of    *)
(* them, in the order in which the database returned them                  *)
(* (src/data/caseStats.js).                                                *)
(*                                                                         *)
(* Values compare as JavaScript compares them: those of an enumeration are *)
(* numbers, in alphabetical order, and false and true are No and Yes.      *)
(* Distinct values have distinct texts (caseStats.js:13), so groups are    *)
(* told apart by the values.  A location is the set of texts it matches.   *)
(***************************************************************************)
EXTENDS Integers, SequencesExt

CONSTANT Null   \* SQL NULL

No == 0
Yes == 1

-----------------------------------------------------------------------------
\* A query is a function from the parameters that are given, and are not empty,
\* to their values.
SameColumn ==
  {"province", "caseCategory", "murderWeapon", "victimBondAggressor", "wasItAnAttempt"}

\* Mutant: toDate is inclusive.
SelectedToTheEnd(q, row) ==
  /\ "fromDate" \in DOMAIN q => row.occurredAt >= q["fromDate"]
  /\ "toDate" \in DOMAIN q => row.occurredAt <= q["toDate"]
  /\ \A p \in SameColumn \cap DOMAIN q : row[p] = q[p]

Selected(q, row) ==
  /\ "fromDate" \in DOMAIN q => row.occurredAt >= q["fromDate"]
  /\ "toDate" \in DOMAIN q => row.occurredAt < q["toDate"]
  /\ "location" \in DOMAIN q => q["location"] \in row.location
  /\ \A p \in SameColumn \cap DOMAIN q : row[p] = q[p]

-----------------------------------------------------------------------------
\* Ascending, nulls last.
CompareValues(a, b) ==
  CASE a = b -> 0
    [] a = Null /\ a # b -> 1
    [] b = Null /\ a # b -> -1
    [] a # b /\ a # Null /\ b # Null -> IF a < b THEN -1 ELSE 1

\* By the first key that tells them apart.
CompareKeys(g, h) ==
  LET differ == {k \in DOMAIN g : CompareValues(g[k], h[k]) # 0}
  IN  IF differ = {} THEN 0 ELSE CompareValues(g[Min(differ)], h[Min(differ)])

\* Mutant: groups of one size are left as they come.
CompareCounts(a, b) == b.count - a.count

\* By count, descending, then by each key.
Compare(a, b) ==
  IF a.count # b.count THEN b.count - a.count ELSE CompareKeys(a.group, b.group)

\* Array.prototype.sort is stable: entries that compare equal stay as they came.
Before(entries, i, j) ==
  LET c == Compare(entries[i], entries[j]) IN c < 0 \/ (c = 0 /\ i <= j)

\* How many entries come before the one at i in the sorted array, and itself.
Rank(entries, i) == Cardinality({j \in DOMAIN entries : Before(entries, j, i)})

Sorted(entries) ==
  [n \in 1..Cardinality(DOMAIN entries) |->
     entries[CHOOSE i \in DOMAIN entries : Rank(entries, i) = n]]

-----------------------------------------------------------------------------
\* The rows are a function from positions, in the order in which the database
\* returned them, to rows; a filter keeps the positions.

Key(row, keys) == [k \in DOMAIN keys |-> row[keys[k]]]

SameGroup(rows, keys, i) == {j \in DOMAIN rows : Key(rows[j], keys) = Key(rows[i], keys)}

Entry(rows, keys, i) ==
  [group |-> Key(rows[i], keys), count |-> Cardinality(SameGroup(rows, keys, i))]

\* Object.groupBy keeps the groups in the order of their first rows.
FirstRows(rows, keys) ==
  {i \in DOMAIN rows : \A j \in SameGroup(rows, keys, i) : i <= j}

CountBy(rows, keys) == Sorted([i \in FirstRows(rows, keys) |-> Entry(rows, keys, i)])

Having(rows, column, v) == {i \in DOMAIN rows : rows[i][column] = v}

\* Mutant: whatever is not true is no.
BooleanBreakdownFalsy(rows, column) ==
  [ yes |-> Cardinality(Having(rows, column, Yes)),
    no |-> Cardinality(DOMAIN rows \ Having(rows, column, Yes)),
    unknown |-> Cardinality(Having(rows, column, Null)) ]

BooleanBreakdown(rows, column) ==
  [ yes |-> Cardinality(Having(rows, column, Yes)),
    no |-> Cardinality(Having(rows, column, No)),
    unknown |-> Cardinality(Having(rows, column, Null)) ]

Figures(rows) ==
  [ total |-> Cardinality(DOMAIN rows),
    byCategoryAndAttempt |-> CountBy(rows, <<"caseCategory", "wasItAnAttempt">>),
    byProvince |-> CountBy(rows, <<"province">>),
    byMurderWeapon |-> CountBy(rows, <<"murderWeapon">>),
    byVictimBondAggressor |-> CountBy(rows, <<"victimBondAggressor">>),
    victimIsPregnant |-> BooleanBreakdown(rows, "isPregnant"),
    aggressorBelongsSecurityForce |-> BooleanBreakdown(rows, "belongsSecurityForce"),
    bySecurityForce |->
       CountBy(Restrict(rows, Having(rows, "belongsSecurityForce", Yes)),
               <<"securityForce">>) ]
=============================================================================
