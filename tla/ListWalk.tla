------------------------------- MODULE ListWalk -------------------------------
(***************************************************************************)
(* A client follows `next` from page to page of one of the lists, GET      *)
(* /v1/cases (src/routers/cases.js) or GET /v1/feed/items                  *)
(* (src/routers/feed.js, src/data/feedItem.js), while the table it reads   *)
(* changes.  A page is one query, so one step; an answer that is lost      *)
(* changes nothing, the client asks again with the cursor it has.  The     *)
(* total, a second query nothing depends on, is left out.                  *)
(***************************************************************************)
EXTENDS KeysetPagination

CONSTANTS
  Lists,         \* the lists to walk: "cases", or a status of the feed or "all"
  Ids,           \* also those a body may carry: any integer, 0 for a null
  Days,          \* the dates of cases
  Publications,  \* the moments articles were published, whole milliseconds
  CaseTables,    \* what the table may hold when the walk begins: id -> row
  ItemTables,
  Limits,
  NoLimit,       \* the feed's limit is optional
  LastMs,        \* the bound of the clock
  Transitions,   \* requests that change feed items
  NoStamp,
  NoCursor

Case(i, day, matches) == [id |-> i, occurredAt |-> day, matches |-> matches]

Item(i, published, updated) ==
  [id |-> i, publishedAt |-> published, updatedAt |-> updated,
   assigned |-> FALSE, isDone |-> FALSE]

CaseRow == [id : Ids, occurredAt : Days, matches : BOOLEAN]

ItemRow == [id : Ids, publishedAt : Publications, updatedAt : Nat,
            assigned : BOOLEAN, isDone : BOOLEAN]

IsTable(table, kind) ==
  /\ DOMAIN table \subseteq Ids
  /\ table = [i \in DOMAIN table |-> table[i]]
  /\ \A i \in DOMAIN table : table[i] \in kind /\ table[i].id = i

CursorEntry == [form : {"integer", "date", "datetime"}, value : Int]

ASSUME WalkAssumption ==
  /\ Lists \subseteq {"cases", "backlog", "inProgress", "done", "all"}
  /\ Ids \subseteq Int
  /\ Days \subseteq Nat
  /\ Publications \subseteq {moment \in Nat : ToMs(moment) = moment}
  /\ Limits \subseteq Nat /\ NoLimit \notin Nat
  /\ LastMs \in Nat \ {0} /\ NoStamp \notin Nat
  /\ NoCursor \notin [{1} -> CursorEntry] \cup [{1, 2} -> CursorEntry]
  /\ \A table \in CaseTables : IsTable(table, CaseRow)
  /\ \A table \in ItemTables : IsTable(table, ItemRow)

VARIABLES
  list, limit,   \* what is walked, fixed at the start
  rows,          \* the table: id -> row
  now,           \* the clock, in milliseconds
  stamp,         \* transition -> the updatedAt it is about to write
  start,         \* the cursor of the next request
  status,        \* "walking", "ended" or, after a 400, "refused"
  visits,        \* history: id -> the pages it was on, counted up to 2
  touched,       \* history: the rows created or changed since the walk began
  cursors        \* history: the cursors received

vars == <<list, limit, rows, now, stamp, start, status, visits, touched, cursors>>

walk == <<list, limit, start, status, visits, cursors>>

CaseKeys == <<Key("occurredAt", "desc", "date"), Key("id", "desc", "id")>>
BacklogKeys == <<Key("publishedAt", "asc", "datetime")>>
DefaultKeys == <<Key("updatedAt", "desc", "datetime")>>

Keys == CASE list = "cases" -> CaseKeys
          [] list = "backlog" -> BacklogKeys
          [] OTHER -> DefaultKeys

Row == IF list = "cases" THEN CaseRow ELSE ItemRow

\* applyStatusFilter.
HasStatus(item) ==
  CASE list = "backlog" -> ~item.assigned /\ ~item.isDone
    [] list = "inProgress" -> item.assigned /\ ~item.isDone
    [] list = "done" -> item.isDone
    [] list = "all" -> TRUE

\* applyCaseFilters and the names, as whether the row matches them.
Listed(row) == IF list = "cases" THEN row.matches ELSE HasStatus(row)

LimitsOfList == Limits \cup (IF list = "cases" THEN {} ELSE {NoLimit})

Init ==
  /\ list \in Lists
  /\ limit \in LimitsOfList
  /\ rows \in (IF list = "cases" THEN CaseTables ELSE ItemTables)
  /\ now = LastMs - 1
  /\ stamp = [t \in Transitions |-> NoStamp]
  /\ start = NoCursor
  /\ status = "walking"
  /\ visits = [i \in Ids |-> 0]
  /\ touched = {}
  /\ cursors = {}

-----------------------------------------------------------------------------
\* The walk.

Rest ==
  { row \in {rows[i] : i \in DOMAIN rows} :
      Listed(row) /\ (start # NoCursor => After(Keys, row, Decoded(start))) }

Query(page) ==
  IF limit = NoLimit THEN page = Rest ELSE IsPage(Keys, page, Rest, limit)

\* The case list ends at a page that is not full; the feed, at an empty one.
More(page) ==
  IF list = "cases" THEN Cardinality(page) = limit /\ limit > 0 ELSE page # {}

NextPage ==
  /\ status = "walking"
  /\ start # NoCursor => Decodes(Keys, start)
  /\ \E page \in SUBSET Rest :
       /\ Query(page)
       /\ visits' = [i \in Ids |-> IF (\E r \in page : r.id = i) /\ visits[i] < 2
                                   THEN visits[i] + 1 ELSE visits[i]]
       /\ IF More(page)
          THEN /\ \E r \in page : IsLast(Keys, r, page) /\ start' = Encode(Keys, r)
               /\ cursors' = cursors \cup {start'}
               /\ UNCHANGED status
          ELSE status' = "ended" /\ UNCHANGED <<start, cursors>>
  /\ UNCHANGED <<list, limit, rows, now, stamp, touched>>

\* A cursor that does not decode is answered 400 (src/middleware/cursorError.js).
\* The client has no other: its walk is over.
CursorRefused ==
  /\ status = "walking"
  /\ start # NoCursor /\ ~Decodes(Keys, start)
  /\ status' = "refused"
  /\ UNCHANGED <<list, limit, rows, now, stamp, start, visits, touched, cursors>>

-----------------------------------------------------------------------------
\* What others do meanwhile; the model stops with the walk.

Meanwhile == status = "walking"

SetRow(i, row) ==
  /\ Meanwhile
  /\ rows' = [j \in DOMAIN rows \cup {i} |-> IF j = i THEN row ELSE rows[j]]
  /\ touched' = touched \cup {i}
  /\ UNCHANGED <<walk, now>>

\* POST inserts a case, under an id of the body's if it has one, and PUT may change
\* its date and whatever is filtered by ...
WriteCase(i) ==
  /\ list = "cases"
  /\ \E day \in Days, matches \in BOOLEAN : SetRow(i, Case(i, day, matches))
  /\ UNCHANGED stamp

\* ... and its id, when the body carries another.
MoveCase(i, j) ==
  /\ Meanwhile
  /\ list = "cases"
  /\ i \in DOMAIN rows /\ j \notin DOMAIN rows
  /\ \E day \in Days, matches \in BOOLEAN :
       rows' = [k \in (DOMAIN rows \ {i}) \cup {j} |->
                  IF k = j THEN Case(j, day, matches) ELSE rows[k]]
  /\ touched' = touched \cup {i, j}
  /\ UNCHANGED <<walk, now, stamp>>

\* A refresh inserts an article; updatedAt is the database's own clock.
InsertItem(i) ==
  /\ list # "cases"
  /\ i \notin DOMAIN rows
  /\ \E published \in Publications, part \in 0..(PerMs - 1) :
       SetRow(i, Item(i, published, now * PerMs + part))
  /\ UNCHANGED stamp

\* A transition takes `new Date()` before its statement is sent ...
Stamp(t) ==
  /\ Meanwhile
  /\ list # "cases"
  /\ stamp[t] = NoStamp
  /\ stamp' = [stamp EXCEPT ![t] = now * PerMs]
  /\ UNCHANGED <<walk, rows, now, touched>>

\* ... and the statement is executed at some later time.
Transitioned(row) ==
  { [row EXCEPT !.assigned = TRUE], [row EXCEPT !.assigned = FALSE],
    [row EXCEPT !.assigned = TRUE, !.isDone = TRUE],
    [row EXCEPT !.assigned = FALSE, !.isDone = FALSE] }
  \cup (IF row.assigned
        THEN {[row EXCEPT !.isDone = TRUE], [row EXCEPT !.isDone = FALSE]} ELSE {})

Transition(t, i) ==
  /\ list # "cases"
  /\ stamp[t] # NoStamp
  /\ i \in DOMAIN rows
  /\ \E row \in Transitioned(rows[i]) : SetRow(i, [row EXCEPT !.updatedAt = stamp[t]])
  /\ stamp' = [stamp EXCEPT ![t] = NoStamp]

Tick ==
  /\ Meanwhile
  /\ list # "cases"
  /\ now < LastMs
  /\ now' = now + 1
  /\ UNCHANGED <<walk, rows, stamp, touched>>

-----------------------------------------------------------------------------
Next ==
  \/ NextPage \/ CursorRefused
  \/ \E i \in Ids : WriteCase(i) \/ InsertItem(i) \/ \E j \in Ids : MoveCase(i, j)
  \/ \E t \in Transitions : Stamp(t) \/ \E i \in Ids : Transition(t, i)
  \/ Tick

Spec == Init /\ [][Next]_vars

\* The client goes on asking.
FairSpec == Spec /\ WF_vars(NextPage \/ CursorRefused)

-----------------------------------------------------------------------------
\* The table holds the rows of the list's kind under their ids, and a cursor the
\* keys of its paginator.
TypeOK ==
  /\ list \in Lists
  /\ limit \in LimitsOfList
  /\ IsTable(rows, Row)
  /\ now \in Nat
  /\ stamp \in [Transitions -> Nat \cup {NoStamp}]
  /\ start # NoCursor => start \in cursors /\ start \in [DOMAIN Keys -> CursorEntry]
  /\ status \in {"walking", "ended", "refused"}
  /\ visits \in [Ids -> 0..2]
  /\ touched \subseteq Ids

\* No walk meets a row twice, unless the row was changed meanwhile: an edit moves
\* a case to an earlier date, and a transition stamped before another is executed
\* after it.  The backlog, ordered by a column nothing changes, repeats none.
NoRowTwice ==
  \A i \in Ids : visits[i] = 2 => i \in touched /\ list # "backlog"

\* A walk of the cases that has ended has met every case that was there from the
\* beginning, matched the filters and was left alone, however many were created
\* or edited around it.
EveryUntouchedCaseIsVisited ==
  list = "cases" /\ status = "ended" /\ limit > 0 =>
    \A i \in DOMAIN rows \ touched : Listed(rows[i]) => visits[i] = 1

\* What a walk of the feed can miss, of the items left alone, are those that tie,
\* to the millisecond, with the last item of one of its pages.
OnlyTiesAreMissed ==
  list # "cases" /\ status = "ended" /\ limit # 0 =>
    \A i \in DOMAIN rows \ touched :
      Listed(rows[i]) /\ visits[i] = 0 => Encode(Keys, rows[i]) \in cursors

\* A cursor the service gave is one it takes: "a "date" key must round-trip as
\* YYYY-MM-DD so the cursor passes its own decode validator"
\* (src/lib/keysetPagination.js:27).  Whatever days and moments rows have, the only
\* cursor it refuses is that of a page that ended at a case whose id, taken from a
\* body, is not positive.
OwnCursorsDecode ==
  start # NoCursor /\ ~Decodes(Keys, start) =>
    /\ list = "cases"
    /\ \E i \in Ids : i <= 0 /\ visits[i] > 0 /\ start[2].value = i

\* Whoever follows the cursors comes to an end, whatever is inserted or moved
\* ahead of them: to the last page, or to a cursor that is refused.
WalkEnds == <>(status # "walking")

\* "keyset pagination walks every backlog item without gaps or duplicates"
\* (test/integration/feed-list.test.js:81).
BacklogWalkHasNoGaps ==
  list = "backlog" /\ status = "ended" /\ limit # 0 =>
    \A i \in DOMAIN rows \ touched : Listed(rows[i]) => visits[i] = 1
=============================================================================
