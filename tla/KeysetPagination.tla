--------------------------- MODULE KeysetPagination ---------------------------
(***************************************************************************)
(* keysetPaginator (src/lib/keysetPagination.js): a list ordered by a      *)
(* sequence of keys, read page by page with a cursor that holds the keys   *)
(* of the last row of the page before.  A key is a column, a direction and *)
(* a type; a row is a record; a moment is a natural number, an id any        *)
(* integer.                                                                *)
(***************************************************************************)
EXTENDS Integers, FiniteSets

CONSTANT PerMs     \* moments the database tells apart in one millisecond

ASSUME PerMsAssumption == PerMs \in Nat \ {0}

Key(column, direction, type) ==
  [column |-> column, direction |-> direction, type |-> type]

KeyOf(keys, row) == [i \in DOMAIN keys |-> row[keys[i].column]]

-----------------------------------------------------------------------------
\* Cursors.  JavaScript dates carry milliseconds; a date column loses its time,
\* and keeps its day where the process runs at UTC or west of it.

ToMs(moment) == (moment \div PerMs) * PerMs

\* Mutant: a date is written with its time, as toISOString leaves it.
EncodedWithTime(type, v) ==
  CASE type = "id" -> [form |-> "integer", value |-> v]
    [] type \in {"date", "datetime"} -> [form |-> "datetime", value |-> ToMs(v)]

Encoded(type, v) ==
  CASE type = "id" -> [form |-> "integer", value |-> v]
    [] type = "date" -> [form |-> "date", value |-> v]
    [] type = "datetime" -> [form |-> "datetime", value |-> ToMs(v)]

\* Mutant: the cursor keeps the first key only.
EncodeFirstKey(keys, row) == [i \in {1} |-> Encoded(keys[i].type, row[keys[i].column])]

Encode(keys, row) == [i \in DOMAIN keys |-> Encoded(keys[i].type, row[keys[i].column])]

Valid(type, e) ==
  CASE type = "id" -> e.form = "integer" /\ e.value > 0
    [] type = "date" -> e.form = "date"
    [] type = "datetime" -> e.form \in {"date", "datetime"}

\* decode throws CursorError, which is answered 400, when this is FALSE.
Decodes(keys, cursor) ==
  /\ DOMAIN cursor = DOMAIN keys
  /\ \A i \in DOMAIN keys : Valid(keys[i].type, cursor[i])

Decoded(cursor) == [i \in DOMAIN cursor |-> cursor[i].value]

-----------------------------------------------------------------------------
\* v comes after w in the order of the keys.
Follows(keys, v, w) ==
  \E i \in DOMAIN keys :
    /\ \A j \in DOMAIN keys : j < i => v[j] = w[j]
    /\ IF keys[i].direction = "asc" THEN v[i] > w[i] ELSE v[i] < w[i]

\* Mutants: the cursor compares the first key only; it compares with <= or >=.
AfterFirstKey(keys, row, values) ==
  Follows([i \in {1} |-> keys[1]], KeyOf(keys, row), values)

AfterOrAt(keys, row, values) ==
  Follows(keys, KeyOf(keys, row), values) \/ KeyOf(keys, row) = values

\* applyCursor.
After(keys, row, values) == Follows(keys, KeyOf(keys, row), values)

\* applyOrder: s may not come before r.
Precedes(keys, r, s) == Follows(keys, KeyOf(keys, s), KeyOf(keys, r))

\* Mutant: the rows are not ordered.
UnorderedPage(keys, page, rows, limit) ==
  /\ page \subseteq rows
  /\ Cardinality(page) = limit \/ (page = rows /\ Cardinality(rows) < limit)

\* ORDER BY ... LIMIT: page is a first part of the rows, of limit of them or all.
\* Rows that tie may come in any order.
IsPage(keys, page, rows, limit) ==
  /\ page \subseteq rows
  /\ \A r \in page, s \in rows \ page : ~Precedes(keys, s, r)
  /\ Cardinality(page) = limit \/ (page = rows /\ Cardinality(rows) < limit)

IsLast(keys, r, page) == r \in page /\ \A s \in page : ~Precedes(keys, r, s)
=============================================================================
