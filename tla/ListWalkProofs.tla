---------------------------- MODULE ListWalkProofs ----------------------------
(***************************************************************************)
(* Walks of ListWalk, for tables, limits and clocks of any size.           *)
(***************************************************************************)
EXTENDS ListWalk, FiniteSetTheorems, TLAPS

\* Rounding to milliseconds rounds down and keeps the order.
LEMMA Rounding ==
  ASSUME NEW m \in Nat, NEW n \in Nat, m <= n
  PROVE  /\ ToMs(m) \in Nat
         /\ ToMs(m) <= m
         /\ ToMs(m) <= ToMs(n)
         /\ ToMs(ToMs(m)) = ToMs(m)
  <1> DEFINE P == PerMs
             q(k) == k \div P
  <1>1. P \in Nat \ {0} BY PerMsAssumption
  <1>2. \A k \in Nat : q(k) \in Nat /\ P * q(k) <= k /\ k < P * q(k) + P
    BY <1>1, SMTT(30)
  <1>. QED
    BY <1>1, <1>2, SMTT(60) DEF ToMs

-----------------------------------------------------------------------------
(***************************************************************************)
(* The order and the cursor of each list.                                  *)
(***************************************************************************)
LEMMA CaseOrder ==
  ASSUME NEW r, NEW v, NEW w
  PROVE  /\ After(CaseKeys, r, v) <=>
              \/ r.occurredAt < v[1]
              \/ r.occurredAt = v[1] /\ r.id < v[2]
         /\ Precedes(CaseKeys, r, w) <=> After(CaseKeys, w, KeyOf(CaseKeys, r))
         /\ KeyOf(CaseKeys, r) = <<r.occurredAt, r.id>>
  <1>1. DOMAIN CaseKeys = {1, 2} BY DEF CaseKeys
  <1>2. /\ CaseKeys[1].column = "occurredAt" /\ CaseKeys[1].direction = "desc"
        /\ CaseKeys[2].column = "id" /\ CaseKeys[2].direction = "desc"
    BY DEF CaseKeys, Key
  <1>3. KeyOf(CaseKeys, r) = <<r["occurredAt"], r["id"]>>
    BY <1>1, <1>2 DEF KeyOf
  <1>4. /\ KeyOf(CaseKeys, r)[1] = r["occurredAt"] /\ KeyOf(CaseKeys, r)[2] = r["id"]
    BY <1>3
  <1>5. After(CaseKeys, r, v) <=> \/ r["occurredAt"] < v[1]
                                  \/ r["occurredAt"] = v[1] /\ r["id"] < v[2]
    BY <1>1, <1>2, <1>4, Zenon, SMT DEF After, Follows
  <1>. QED BY <1>3, <1>5 DEF After, Precedes

LEMMA BacklogOrder ==
  ASSUME NEW r, NEW v, NEW w
  PROVE  /\ After(BacklogKeys, r, v) <=> r.publishedAt > v[1]
         /\ Precedes(BacklogKeys, r, w) <=> w.publishedAt > r.publishedAt
  <1>1. DOMAIN BacklogKeys = {1} BY DEF BacklogKeys
  <1>2. BacklogKeys[1].column = "publishedAt" /\ BacklogKeys[1].direction = "asc"
    BY DEF BacklogKeys, Key
  <1>3. \A s : KeyOf(BacklogKeys, s) = [i \in {1} |-> s["publishedAt"]]
    BY <1>1, <1>2 DEF KeyOf
  <1>4. \A s, x : Follows(BacklogKeys, KeyOf(BacklogKeys, s), x) <=> s["publishedAt"] > x[1]
    BY <1>1, <1>2, <1>3 DEF Follows
  <1>. QED BY <1>3, <1>4 DEF After, Precedes

LEMMA DefaultOrder ==
  ASSUME NEW r, NEW v, NEW w
  PROVE  /\ After(DefaultKeys, r, v) <=> r.updatedAt < v[1]
         /\ Precedes(DefaultKeys, r, w) <=> w.updatedAt < r.updatedAt
  <1>1. DOMAIN DefaultKeys = {1} BY DEF DefaultKeys
  <1>2. DefaultKeys[1].column = "updatedAt" /\ DefaultKeys[1].direction = "desc"
    BY DEF DefaultKeys, Key
  <1>3. \A s : KeyOf(DefaultKeys, s) = [i \in {1} |-> s["updatedAt"]]
    BY <1>1, <1>2 DEF KeyOf
  <1>4. \A s, x : Follows(DefaultKeys, KeyOf(DefaultKeys, s), x) <=> s["updatedAt"] < x[1]
    BY <1>1, <1>2, <1>3 DEF Follows
  <1>. QED BY <1>3, <1>4 DEF After, Precedes

\* The cursor of a row, in each list.
LEMMA Cursors ==
  ASSUME NEW r
  PROVE  /\ r \in CaseRow =>
              /\ Encode(CaseKeys, r) \in [{1, 2} -> CursorEntry]
              /\ r.id > 0 => Decodes(CaseKeys, Encode(CaseKeys, r))
              /\ Encode(CaseKeys, r)[2].value = r.id
              /\ Decoded(Encode(CaseKeys, r)) = <<r.occurredAt, r.id>>
         /\ r \in ItemRow =>
              /\ Encode(BacklogKeys, r) = [i \in {1} |-> Encoded("datetime", r.publishedAt)]
              /\ Encode(BacklogKeys, r) \in [{1} -> CursorEntry]
              /\ Decodes(BacklogKeys, Encode(BacklogKeys, r))
              /\ Decoded(Encode(BacklogKeys, r))[1] = ToMs(r.publishedAt)
              /\ Encode(DefaultKeys, r) = [i \in {1} |-> Encoded("datetime", r.updatedAt)]
              /\ Encode(DefaultKeys, r) \in [{1} -> CursorEntry]
              /\ Decodes(DefaultKeys, Encode(DefaultKeys, r))
              /\ Decoded(Encode(DefaultKeys, r))[1] = ToMs(r.updatedAt)
  <1>1. ASSUME r \in CaseRow
        PROVE  /\ Encode(CaseKeys, r) \in [{1, 2} -> CursorEntry]
               /\ r.id > 0 => Decodes(CaseKeys, Encode(CaseKeys, r))
               /\ Encode(CaseKeys, r)[2].value = r.id
               /\ Decoded(Encode(CaseKeys, r)) = <<r.occurredAt, r.id>>
    <2> DEFINE c == Encode(CaseKeys, r)
    <2>1. r["occurredAt"] \in Nat /\ r["id"] \in Int
      BY <1>1, WalkAssumption DEF CaseRow
    <2>2. /\ DOMAIN CaseKeys = {1, 2}
          /\ CaseKeys[1] = Key("occurredAt", "desc", "date")
          /\ CaseKeys[2] = Key("id", "desc", "id")
      BY DEF CaseKeys
    <2>3. /\ DOMAIN c = {1, 2}
          /\ c[1] = [form |-> "date", value |-> r["occurredAt"]]
          /\ c[2] = [form |-> "integer", value |-> r["id"]]
          /\ c = [i \in {1, 2} |-> c[i]]
      BY <2>2 DEF Encode, Encoded, Key
    <2>4. c \in [{1, 2} -> CursorEntry]
      BY <2>1, <2>3 DEF CursorEntry
    <2>5. ASSUME r["id"] > 0 PROVE Decodes(CaseKeys, c)
      <3>1. CaseKeys[1].type = "date" /\ CaseKeys[2].type = "id"
        BY <2>2 DEF Key
      <3>2. Valid("date", c[1]) /\ Valid("id", c[2])
        BY <2>1, <2>3, <2>5 DEF Valid
      <3>. QED
        BY <2>2, <2>3, <3>1, <3>2, Zenon DEF Decodes
    <2>6. Decoded(c) = <<r.occurredAt, r.id>>
      BY <2>3 DEF Decoded
    <2>7. c[2].value = r["id"] BY <2>3
    <2>. QED BY <2>4, <2>5, <2>6, <2>7
  <1>2. ASSUME r \in ItemRow, NEW keys, NEW column,
               keys = [i \in {1} |-> keys[1]],
               keys[1].column = column, keys[1].type = "datetime",
               r[column] \in Nat
        PROVE  /\ Encode(keys, r) = [i \in {1} |-> Encoded("datetime", r[column])]
               /\ Encode(keys, r) \in [{1} -> CursorEntry]
               /\ Decodes(keys, Encode(keys, r))
               /\ Decoded(Encode(keys, r))[1] = ToMs(r[column])
    <2> DEFINE c == Encode(keys, r)
    <2>1. ToMs(r[column]) \in Nat BY <1>2, Rounding
    <2>2. DOMAIN keys = {1} BY <1>2
    <2>3. c = [i \in {1} |-> Encoded("datetime", r[column])]
      BY <1>2, <2>2 DEF Encode
    <2>4. Encoded("datetime", r[column]) = [form |-> "datetime", value |-> ToMs(r[column])]
      BY DEF Encoded
    <2>5. c \in [{1} -> CursorEntry]
      BY <2>1, <2>3, <2>4 DEF CursorEntry
    <2>6. Decodes(keys, c)
      <3>1. DOMAIN c = {1} /\ c[1].form = "datetime"
        BY <2>3, <2>4
      <3>2. Valid("datetime", c[1])
        BY <3>1 DEF Valid
      <3>. QED
        BY <1>2, <2>2, <3>1, <3>2, Zenon DEF Decodes
    <2>7. Decoded(c)[1] = ToMs(r[column])
      BY <2>3, <2>4 DEF Decoded
    <2>. QED BY <2>3, <2>5, <2>6, <2>7
  <1>3. /\ BacklogKeys = [i \in {1} |-> BacklogKeys[1]]
        /\ BacklogKeys[1].column = "publishedAt" /\ BacklogKeys[1].type = "datetime"
        /\ DefaultKeys = [i \in {1} |-> DefaultKeys[1]]
        /\ DefaultKeys[1].column = "updatedAt" /\ DefaultKeys[1].type = "datetime"
    BY DEF BacklogKeys, DefaultKeys, Key
  <1>4. r \in ItemRow => r["publishedAt"] \in Nat /\ r["updatedAt"] \in Nat
    BY WalkAssumption DEF ItemRow
  <1>5. ASSUME r \in ItemRow
        PROVE  /\ Encode(BacklogKeys, r) = [i \in {1} |-> Encoded("datetime", r["publishedAt"])]
               /\ Encode(BacklogKeys, r) \in [{1} -> CursorEntry]
               /\ Decodes(BacklogKeys, Encode(BacklogKeys, r))
               /\ Decoded(Encode(BacklogKeys, r))[1] = ToMs(r["publishedAt"])
    BY <1>2, <1>3, <1>4, <1>5
  <1>6. ASSUME r \in ItemRow
        PROVE  /\ Encode(DefaultKeys, r) = [i \in {1} |-> Encoded("datetime", r["updatedAt"])]
               /\ Encode(DefaultKeys, r) \in [{1} -> CursorEntry]
               /\ Decodes(DefaultKeys, Encode(DefaultKeys, r))
               /\ Decoded(Encode(DefaultKeys, r))[1] = ToMs(r["updatedAt"])
    BY <1>2, <1>3, <1>4, <1>6
  <1>. QED BY <1>1, <1>5, <1>6

-----------------------------------------------------------------------------
(***************************************************************************)
(* What turning a page does to the rows: whatever is on the page is behind *)
(* the new cursor, nothing that was behind the old one is ahead again, and *)
(* what was ahead and is not on the page stays ahead or ties.              *)
(***************************************************************************)
Ahead(r, c) == c # NoCursor => After(Keys, r, Decoded(c))

LEMMA Lists3 ==
  ASSUME TypeOK
  PROVE  \/ list = "cases" /\ Keys = CaseKeys /\ Row = CaseRow /\ DOMAIN Keys = {1, 2}
         \/ list = "backlog" /\ Keys = BacklogKeys /\ Row = ItemRow /\ DOMAIN Keys = {1}
         \/ /\ list \notin {"cases", "backlog"}
            /\ Keys = DefaultKeys /\ Row = ItemRow /\ DOMAIN Keys = {1}
  <1>1. DOMAIN CaseKeys = {1, 2} /\ DOMAIN BacklogKeys = {1} /\ DOMAIN DefaultKeys = {1}
    BY DEF CaseKeys, BacklogKeys, DefaultKeys
  <1>2. CASE list = "cases" BY <1>1, <1>2 DEF Keys, Row
  <1>3. CASE list = "backlog" BY <1>1, <1>3 DEF Keys, Row
  <1>4. CASE list \notin {"cases", "backlog"} BY <1>1, <1>4 DEF Keys, Row
  <1>. QED BY <1>2, <1>3, <1>4

LEMMA RestIsRows ==
  ASSUME TypeOK, NEW r \in Rest
  PROVE  /\ r \in Row /\ r.id \in DOMAIN rows /\ r = rows[r.id]
         /\ Listed(r) /\ Ahead(r, start)
  BY DEF TypeOK, Rest, IsTable, Ahead

LEMMA CursorFits ==
  ASSUME TypeOK, NEW r \in Row
  PROVE  /\ Encode(Keys, r) \in [DOMAIN Keys -> CursorEntry]
         /\ Encode(Keys, r) # NoCursor
         /\ list # "cases" => Decodes(Keys, Encode(Keys, r))
         /\ list = "cases" =>
              /\ r.id > 0 => Decodes(Keys, Encode(Keys, r))
              /\ Encode(Keys, r)[2].value = r.id
  BY Lists3, Cursors, WalkAssumption

LEMMA CursorValues ==
  ASSUME TypeOK, start # NoCursor, NEW i \in DOMAIN Keys
  PROVE  Decoded(start)[i] \in Int
  <1>1. start \in [DOMAIN Keys -> CursorEntry] BY DEF TypeOK
  <1>2. DOMAIN start = DOMAIN Keys /\ start[i] \in CursorEntry BY <1>1
  <1>3. start[i].value \in Int BY <1>2 DEF CursorEntry
  <1>. QED BY <1>2, <1>3 DEF Decoded

LEMMA Turn ==
  ASSUME TypeOK, NEW page \in SUBSET Rest, Query(page),
         NEW last, IsLast(Keys, last, page)
  PROVE  /\ \A p \in page : ~After(Keys, p, Decoded(Encode(Keys, last)))
         /\ \A r \in Row : After(Keys, r, Decoded(Encode(Keys, last))) => Ahead(r, start)
         /\ \A r \in Rest \ page :
              \/ After(Keys, r, Decoded(Encode(Keys, last)))
              \/ list # "cases" /\ Encode(Keys, r) = Encode(Keys, last)
  <1> DEFINE d == Decoded(Encode(Keys, last))
  <1>1. /\ last \in page /\ last \in Row /\ Ahead(last, start)
        /\ \A p \in page : p \in Row /\ ~Precedes(Keys, last, p)
    BY RestIsRows DEF IsLast
  <1>2. \A r \in Rest \ page : r \in Row /\ ~Precedes(Keys, r, last)
    BY <1>1, RestIsRows DEF Query, IsPage
  <1>3. CASE list = "cases"
    <2>1. Keys = CaseKeys /\ Row = CaseRow BY <1>3, Lists3
    <2>2. \A r \in Row : r.occurredAt \in Nat /\ r.id \in Int
      BY <2>1, WalkAssumption DEF CaseRow
    <2>3. \A r \in Row : d = <<last.occurredAt, last.id>>
      BY <1>1, <2>1, Cursors
    <2>4. d[1] = last.occurredAt /\ d[2] = last.id BY <1>1, <2>3
    <2>5. \A r \in Row : After(Keys, r, d) <=>
             r.occurredAt < last.occurredAt
             \/ (r.occurredAt = last.occurredAt /\ r.id < last.id)
      BY <2>1, <2>4, CaseOrder
    <2>6. \A r, s \in Row : Precedes(Keys, r, s) <=>
             s.occurredAt < r.occurredAt
             \/ (s.occurredAt = r.occurredAt /\ s.id < r.id)
      <3>. TAKE r, s \in Row
      <3> DEFINE k == KeyOf(CaseKeys, r)
      <3>1. k = <<r.occurredAt, r.id>> BY CaseOrder
      <3>2. k[1] = r.occurredAt /\ k[2] = r.id BY <3>1
      <3>3. Precedes(CaseKeys, r, s) <=> After(CaseKeys, s, k) BY CaseOrder
      <3>4. After(CaseKeys, s, k) <=>
             s.occurredAt < k[1] \/ (s.occurredAt = k[1] /\ s.id < k[2])
        BY CaseOrder
      <3>. QED BY <2>1, <3>2, <3>3, <3>4
    <2>7. \A p \in page : ~After(Keys, p, d)
      BY <1>1, <2>5, <2>6
    <2>8. ASSUME NEW r \in Row, After(Keys, r, d), start # NoCursor
          PROVE  After(Keys, r, Decoded(start))
      <3>1. Decoded(start)[1] \in Int /\ Decoded(start)[2] \in Int
        BY <1>3, <2>8, Lists3, CursorValues
      <3>2. After(Keys, last, Decoded(start)) BY <1>1, <2>8 DEF Ahead
      <3>. QED BY <1>1, <2>1, <2>2, <2>5, <2>8, <3>1, <3>2, CaseOrder
    <2>9. ASSUME NEW r \in Rest \ page PROVE After(Keys, r, d)
      <3>1. r.id # last.id BY <1>1, RestIsRows
      <3>. QED BY <1>1, <1>2, <2>2, <2>5, <2>6, <3>1
    <2>. QED BY <2>7, <2>8, <2>9 DEF Ahead
  <1>4. CASE list = "backlog"
    <2>1. Keys = BacklogKeys /\ Row = ItemRow BY <1>4, Lists3
    <2>2. \A r \in Row : r.publishedAt \in Nat /\ ToMs(r.publishedAt) = r.publishedAt
      BY <2>1, WalkAssumption DEF ItemRow
    <2>3. d[1] = last.publishedAt BY <1>1, <2>1, <2>2, Cursors
    <2>4. \A r \in Row : After(Keys, r, d) <=> r.publishedAt > last.publishedAt
      BY <2>1, <2>3, BacklogOrder
    <2>5. \A r, s \in Row : Precedes(Keys, r, s) <=> s.publishedAt > r.publishedAt
      BY <2>1, BacklogOrder
    <2>6. \A p \in page : ~After(Keys, p, d) BY <1>1, <2>4, <2>5
    <2>7. ASSUME NEW r \in Row, After(Keys, r, d), start # NoCursor
          PROVE  After(Keys, r, Decoded(start))
      <3>1. Decoded(start)[1] \in Int BY <1>4, <2>7, Lists3, CursorValues
      <3>2. After(Keys, last, Decoded(start)) BY <1>1, <2>7 DEF Ahead
      <3>. QED BY <1>1, <2>1, <2>2, <2>4, <2>7, <3>1, <3>2, BacklogOrder
    <2>8. ASSUME NEW r \in Rest \ page, ~After(Keys, r, d)
          PROVE  Encode(Keys, r) = Encode(Keys, last)
      <3>1. r.publishedAt = last.publishedAt
        BY <1>1, <1>2, <2>2, <2>4, <2>5, <2>8
      <3>. QED BY <1>1, <1>2, <2>1, <3>1, Cursors
    <2>. QED BY <1>4, <2>6, <2>7, <2>8 DEF Ahead
  <1>5. CASE list \notin {"cases", "backlog"}
    <2>1. Keys = DefaultKeys /\ Row = ItemRow BY <1>5, Lists3
    <2>2. \A r \in Row : r.updatedAt \in Nat BY <2>1 DEF ItemRow
    <2>3. d[1] = ToMs(last.updatedAt) BY <1>1, <2>1, Cursors
    <2>4. \A r \in Row : After(Keys, r, d) <=> r.updatedAt < ToMs(last.updatedAt)
      BY <2>1, <2>3, DefaultOrder
    <2>5. \A r, s \in Row : Precedes(Keys, r, s) <=> s.updatedAt < r.updatedAt
      BY <2>1, DefaultOrder
    <2>6. ToMs(last.updatedAt) \in Nat /\ ToMs(last.updatedAt) <= last.updatedAt
      BY <1>1, <2>2, Rounding
    <2>7. \A p \in page : ~After(Keys, p, d) BY <1>1, <2>2, <2>4, <2>5, <2>6
    <2>8. ASSUME NEW r \in Row, After(Keys, r, d), start # NoCursor
          PROVE  After(Keys, r, Decoded(start))
      <3>1. Decoded(start)[1] \in Int BY <1>5, <2>8, Lists3, CursorValues
      <3>2. After(Keys, last, Decoded(start)) BY <1>1, <2>8 DEF Ahead
      <3>. QED BY <1>1, <2>1, <2>2, <2>4, <2>6, <2>8, <3>1, <3>2, DefaultOrder
    <2>9. ASSUME NEW r \in Rest \ page, ~After(Keys, r, d)
          PROVE  Encode(Keys, r) = Encode(Keys, last)
      <3>1. /\ r \in Row /\ r.updatedAt <= last.updatedAt
            /\ ToMs(last.updatedAt) <= r.updatedAt
        BY <1>1, <1>2, <2>2, <2>4, <2>5, <2>6, <2>9
      <3>2. ToMs(r.updatedAt) = ToMs(last.updatedAt)
        BY <1>1, <2>2, <2>6, <3>1, Rounding
      <3>3. Encoded("datetime", r.updatedAt) = Encoded("datetime", last.updatedAt)
        BY <3>2 DEF Encoded
      <3>. QED BY <1>1, <2>1, <3>1, <3>3, Cursors
    <2>. QED BY <1>5, <2>7, <2>8, <2>9 DEF Ahead
  <1>. QED BY <1>3, <1>4, <1>5

-----------------------------------------------------------------------------
(***************************************************************************)
(* Types, and the cursors the service gives.                               *)
(***************************************************************************)
Typed == TypeOK /\ OwnCursorsDecode

LEMMA InitTyped == ASSUME Init PROVE Typed
  <1>1. list \in Lists /\ start = NoCursor BY DEF Init
  <1>2. IsTable(rows, Row) BY WalkAssumption DEF Init, Row
  <1>3. now \in Nat /\ stamp \in [Transitions -> Nat \cup {NoStamp}]
    BY WalkAssumption DEF Init
  <1>4. visits \in [Ids -> 0..2] BY DEF Init
  <1>5. limit \in LimitsOfList
        /\ status \in {"walking", "ended", "refused"} /\ touched \subseteq Ids
    BY DEF Init
  <1>. QED BY <1>1, <1>2, <1>3, <1>4, <1>5 DEF Typed, TypeOK, OwnCursorsDecode

\* A row of the list's kind put under its id leaves a table.
LEMMA SetRowTyped ==
  ASSUME TypeOK, NEW i \in Ids, NEW row \in Row, row.id = i, SetRow(i, row)
  PROVE  /\ IsTable(rows', Row)
         /\ touched' = touched \cup {i} /\ touched' \subseteq Ids
         /\ DOMAIN rows' = DOMAIN rows \cup {i}
         /\ rows'[i] = row
         /\ \A j \in DOMAIN rows \ {i} : rows'[j] = rows[j]
         /\ UNCHANGED <<list, limit, now, start, status, visits, cursors>>
         /\ status = "walking"
  BY DEF SetRow, TypeOK, IsTable, walk, Meanwhile

\* A case that changes its id leaves a table too.
LEMMA MoveTyped ==
  ASSUME TypeOK, NEW i \in Ids, NEW j \in Ids, MoveCase(i, j)
  PROVE  /\ IsTable(rows', Row)
         /\ touched' = touched \cup {i, j} /\ touched' \subseteq Ids
         /\ DOMAIN rows' = (DOMAIN rows \ {i}) \cup {j}
         /\ \A k \in DOMAIN rows \ {i, j} : rows'[k] = rows[k]
         /\ UNCHANGED <<list, limit, now, stamp, start, status, visits, cursors>>
         /\ status = "walking" /\ list = "cases"
  <1>1. PICK day \in Days, matches \in BOOLEAN :
          rows' = [k \in (DOMAIN rows \ {i}) \cup {j} |->
                     IF k = j THEN Case(j, day, matches) ELSE rows[k]]
    BY DEF MoveCase
  <1>2. Case(j, day, matches) \in Row /\ Case(j, day, matches).id = j
    BY DEF MoveCase, Row, CaseRow, Case
  <1>3. \A k \in DOMAIN rows : k \in Ids /\ rows[k] \in Row /\ rows[k].id = k
    BY DEF TypeOK, IsTable
  <1>4. /\ DOMAIN rows' = (DOMAIN rows \ {i}) \cup {j}
        /\ rows' = [k \in DOMAIN rows' |-> rows'[k]]
        /\ rows'[j] = Case(j, day, matches)
        /\ \A k \in DOMAIN rows' \ {j} : k \in DOMAIN rows /\ rows'[k] = rows[k]
    BY <1>1
  <1>5. IsTable(rows', Row)
    BY <1>2, <1>3, <1>4 DEF IsTable
  <1>6. \A k \in DOMAIN rows \ {i, j} : rows'[k] = rows[k]
    BY <1>1
  <1>. QED BY <1>4, <1>5, <1>6 DEF MoveCase, Meanwhile, walk, TypeOK

\* What the actions of others put in the table.
LEMMA OthersSetRows ==
  ASSUME TypeOK, NEW i \in Ids,
         WriteCase(i) \/ InsertItem(i) \/ \E t \in Transitions : Transition(t, i)
  PROVE  /\ \E row \in Row :
              /\ row.id = i /\ SetRow(i, row)
              /\ list = "backlog" /\ i \in DOMAIN rows =>
                   row.publishedAt = rows[i].publishedAt
         /\ stamp' \in [Transitions -> Nat \cup {NoStamp}]
  <1>1. CASE WriteCase(i)
    <2>1. PICK day \in Days, matches \in BOOLEAN : SetRow(i, Case(i, day, matches))
      BY <1>1 DEF WriteCase
    <2>2. list = "cases" /\ stamp' = stamp BY <1>1 DEF WriteCase
    <2>3. Case(i, day, matches) \in Row /\ Case(i, day, matches).id = i
      BY <2>2 DEF Row, CaseRow, Case
    <2>. QED BY <2>1, <2>2, <2>3 DEF TypeOK
  <1>2. CASE InsertItem(i)
    <2>1. PICK published \in Publications, part \in 0..(PerMs - 1) :
            SetRow(i, Item(i, published, now * PerMs + part))
      BY <1>2 DEF InsertItem
    <2>2. list # "cases" /\ stamp' = stamp /\ i \notin DOMAIN rows BY <1>2 DEF InsertItem
    <2>3. now * PerMs + part \in Nat
      BY PerMsAssumption, SMTT(30) DEF TypeOK
    <2>4. /\ Item(i, published, now * PerMs + part) \in Row
          /\ Item(i, published, now * PerMs + part).id = i
      BY <2>2, <2>3 DEF Row, ItemRow, Item
    <2>. QED BY <2>1, <2>2, <2>4 DEF TypeOK
  <1>3. ASSUME NEW t \in Transitions, Transition(t, i)
        PROVE  /\ \E row \in Row :
                    /\ row.id = i /\ SetRow(i, row)
                    /\ list = "backlog" /\ i \in DOMAIN rows =>
                         row.publishedAt = rows[i].publishedAt
               /\ stamp' \in [Transitions -> Nat \cup {NoStamp}]
    <2>1. PICK row \in Transitioned(rows[i]) :
            SetRow(i, [row EXCEPT !.updatedAt = stamp[t]])
      BY <1>3 DEF Transition
    <2>2. /\ list # "cases" /\ stamp[t] # NoStamp /\ i \in DOMAIN rows
          /\ stamp' = [stamp EXCEPT ![t] = NoStamp]
      BY <1>3 DEF Transition
    <2>3. stamp[t] \in Nat BY <2>2 DEF TypeOK
    <2>4. rows[i] \in ItemRow /\ rows[i].id = i BY <2>2 DEF TypeOK, IsTable, Row
    <2>5. row \in ItemRow /\ row.id = i /\ row.publishedAt = rows[i].publishedAt
      BY <2>4 DEF Transitioned, ItemRow
    <2> DEFINE new == [row EXCEPT !.updatedAt = stamp[t]]
    <2>6. new \in ItemRow /\ new.id = i /\ new.publishedAt = rows[i].publishedAt
      BY <2>3, <2>5 DEF ItemRow
    <2>7. new \in Row BY <2>2, <2>6 DEF Row
    <2>. QED BY <2>1, <2>2, <2>6, <2>7 DEF TypeOK
  <1>. QED BY <1>1, <1>2, <1>3

LEMMA StepTyped ==
  ASSUME Typed, [Next]_vars
  PROVE  Typed'
  <1>. USE DEF Typed
  <1>1. CASE NextPage
    <2>1. PICK page \in SUBSET Rest :
            /\ Query(page)
            /\ visits' = [i \in Ids |-> IF (\E r \in page : r.id = i) /\ visits[i] < 2
                                        THEN visits[i] + 1 ELSE visits[i]]
            /\ IF More(page)
               THEN /\ \E r \in page : IsLast(Keys, r, page) /\ start' = Encode(Keys, r)
                    /\ cursors' = cursors \cup {start'}
                    /\ UNCHANGED status
               ELSE status' = "ended" /\ UNCHANGED <<start, cursors>>
      BY <1>1 DEF NextPage
    <2>2. UNCHANGED <<list, limit, rows, now, stamp, touched>> BY <1>1 DEF NextPage
    <2>3. Keys' = Keys /\ Row' = Row BY <2>2 DEF Keys, Row
    <2>4. visits' \in [Ids -> 0..2] BY <2>1 DEF TypeOK
    <2>5. /\ start' # NoCursor => start' \in cursors' /\ start' \in [DOMAIN Keys -> CursorEntry]
          /\ start' # NoCursor /\ ~Decodes(Keys, start') =>
               /\ list = "cases"
               /\ \E i \in Ids : i <= 0 /\ visits'[i] > 0 /\ start'[2].value = i
      <3>1. CASE More(page)
        <4>1. PICK r \in page : start' = Encode(Keys, r) BY <2>1, <3>1
        <4>2. r \in Row /\ r.id \in DOMAIN rows BY <4>1, RestIsRows
        <4>3. r.id \in Ids /\ r.id \in Int BY <4>2, WalkAssumption DEF TypeOK, IsTable
        <4>4. visits'[r.id] > 0 BY <2>1, <4>1, <4>3 DEF TypeOK
        <4>5. /\ start' \in [DOMAIN Keys -> CursorEntry]
              /\ ~Decodes(Keys, start') =>
                   list = "cases" /\ ~(r.id > 0) /\ start'[2].value = r.id
          BY <4>1, <4>2, CursorFits
        <4>. QED BY <2>1, <3>1, <4>3, <4>4, <4>5
      <3>2. CASE ~More(page)
        <4>1. \A i \in Ids : visits[i] > 0 => visits'[i] > 0 BY <2>1 DEF TypeOK
        <4>. QED BY <2>1, <3>2, <4>1 DEF TypeOK, OwnCursorsDecode
      <3>. QED BY <3>1, <3>2
    <2>6. status' \in {"walking", "ended", "refused"} BY <2>1 DEF TypeOK
    <2>. QED BY <2>2, <2>3, <2>4, <2>5, <2>6 DEF TypeOK, OwnCursorsDecode, IsTable, LimitsOfList
  <1>2. ASSUME NEW i \in Ids,
               WriteCase(i) \/ InsertItem(i) \/ \E t \in Transitions : Transition(t, i)
        PROVE  Typed'
    <2>1. PICK row \in Row : row.id = i /\ SetRow(i, row) BY <1>2, OthersSetRows
    <2>2. stamp' \in [Transitions -> Nat \cup {NoStamp}] BY <1>2, OthersSetRows
    <2>3. /\ IsTable(rows', Row) /\ touched' \subseteq Ids
          /\ UNCHANGED <<list, limit, now, start, status, visits, cursors>>
      BY <2>1, SetRowTyped
    <2>4. Keys' = Keys /\ Row' = Row BY <2>3 DEF Keys, Row
    <2>. QED BY <2>2, <2>3, <2>4 DEF TypeOK, OwnCursorsDecode, IsTable, LimitsOfList
  <1>3. ASSUME NEW t \in Transitions, Stamp(t) PROVE Typed'
    <2>1. UNCHANGED <<list, limit, rows, now, start, status, visits, touched, cursors>>
      BY <1>3 DEF Stamp, walk
    <2>2. stamp' \in [Transitions -> Nat \cup {NoStamp}]
      <3>1. now * PerMs \in Nat BY PerMsAssumption DEF TypeOK
      <3>. QED BY <1>3, <3>1 DEF Stamp, TypeOK
    <2>3. Keys' = Keys /\ Row' = Row BY <2>1 DEF Keys, Row
    <2>. QED BY <2>1, <2>2, <2>3 DEF TypeOK, OwnCursorsDecode, IsTable, LimitsOfList
  <1>4. CASE Tick
    <2>1. UNCHANGED <<list, limit, rows, stamp, start, status, visits, touched, cursors>>
          /\ now' = now + 1
      BY <1>4 DEF Tick, walk
    <2>2. Keys' = Keys /\ Row' = Row BY <2>1 DEF Keys, Row
    <2>. QED BY <2>1, <2>2 DEF TypeOK, OwnCursorsDecode, IsTable, LimitsOfList
  <1>5. CASE UNCHANGED vars
    <2>1. Keys' = Keys /\ Row' = Row BY <1>5 DEF Keys, Row, vars
    <2>. QED BY <1>5, <2>1 DEF TypeOK, OwnCursorsDecode, IsTable, LimitsOfList, vars
  <1>6. CASE CursorRefused
    <2>1. UNCHANGED <<list, limit, rows, now, stamp, start, visits, touched, cursors>>
          /\ status' = "refused"
      BY <1>6 DEF CursorRefused
    <2>2. Keys' = Keys /\ Row' = Row BY <2>1 DEF Keys, Row
    <2>. QED BY <2>1, <2>2 DEF TypeOK, OwnCursorsDecode, IsTable, LimitsOfList
  <1>7. ASSUME NEW i \in Ids, NEW j \in Ids, MoveCase(i, j) PROVE Typed'
    <2>1. /\ IsTable(rows', Row) /\ touched' \subseteq Ids
          /\ UNCHANGED <<list, limit, now, stamp, start, status, visits, cursors>>
      BY <1>7, MoveTyped
    <2>2. Keys' = Keys /\ Row' = Row BY <2>1 DEF Keys, Row
    <2>. QED BY <2>1, <2>2 DEF TypeOK, OwnCursorsDecode, IsTable, LimitsOfList
  <1>. QED BY <1>1, <1>2, <1>3, <1>4, <1>5, <1>6, <1>7 DEF Next

\* The table keeps rows of its kind and every cursor is made of the keys of its
\* list (the pages of src/routers/cases.js:316-391 and src/routers/feed.js:100-138).
THEOREM WalkTypes == Spec => []TypeOK
  <1>1. Init => Typed BY InitTyped
  <1>2. Typed /\ [Next]_vars => Typed' BY StepTyped
  <1>3. Typed => TypeOK BY DEF Typed
  <1>. QED BY <1>1, <1>2, <1>3, PTL DEF Spec

\* Of the cursors the service gives, only that of a case whose id is not positive is
\* refused when it comes back, for rows with any dates and moments
\* (src/lib/keysetPagination.js:24-57).
THEOREM CursorsComeBack == Spec => []OwnCursorsDecode
  <1>1. Init => Typed BY InitTyped
  <1>2. Typed /\ [Next]_vars => Typed' BY StepTyped
  <1>3. Typed => OwnCursorsDecode BY DEF Typed
  <1>. QED BY <1>1, <1>2, <1>3, PTL DEF Spec

-----------------------------------------------------------------------------
(***************************************************************************)
(* Where the rows left alone are: ahead of the cursor and not yet met, or  *)
(* behind it and met once, unless they tied with a cursor of the feed.  In *)
(* the backlog no change moves a row, so there none is met twice.          *)
(***************************************************************************)
Seen(i) == visits[i] = 1 \/ (list # "cases" /\ Encode(Keys, rows[i]) \in cursors)

Whereabouts(i) ==
  /\ visits[i] <= 1
  /\ status = "walking" /\ Ahead(rows[i], start) => visits[i] = 0
  /\ Listed(rows[i]) =>
       (~Ahead(rows[i], start) \/ (status = "ended" /\ limit # 0) => Seen(i))

MetOnce(i) ==
  /\ visits[i] <= 1
  /\ status = "walking" /\ visits[i] # 0 => i \in DOMAIN rows /\ ~Ahead(rows[i], start)

WalkInv ==
  /\ Typed
  /\ \A i \in DOMAIN rows \ touched : Whereabouts(i)
  /\ \A i \in Ids \ (DOMAIN rows \cup touched) : visits[i] = 0
  /\ list = "backlog" => \A i \in Ids : MetOnce(i)

LEMMA InitWalkInv == ASSUME Init PROVE WalkInv
  <1>1. Typed BY InitTyped
  <1>2. DOMAIN rows \subseteq Ids BY <1>1 DEF Typed, TypeOK, IsTable
  <1>3. start = NoCursor /\ status = "walking" /\ visits = [i \in Ids |-> 0] BY DEF Init
  <1>. QED BY <1>1, <1>2, <1>3 DEF WalkInv, Whereabouts, MetOnce, Ahead

LEMMA PageWalkInv == ASSUME WalkInv, NextPage PROVE WalkInv'
  <1>1. Typed' BY StepTyped DEF WalkInv, Next
  <1>2. TypeOK BY DEF WalkInv, Typed
  <1>3. PICK page \in SUBSET Rest :
          /\ Query(page)
          /\ visits' = [i \in Ids |-> IF (\E r \in page : r.id = i) /\ visits[i] < 2
                                      THEN visits[i] + 1 ELSE visits[i]]
          /\ IF More(page)
             THEN /\ \E r \in page : IsLast(Keys, r, page) /\ start' = Encode(Keys, r)
                  /\ cursors' = cursors \cup {start'}
                  /\ UNCHANGED status
             ELSE status' = "ended" /\ UNCHANGED <<start, cursors>>
    BY DEF NextPage
  <1>4. UNCHANGED <<list, limit, rows, now, stamp, touched>> /\ status = "walking"
    BY DEF NextPage
  <1>5. /\ Keys' = Keys
        /\ \A i : Listed(rows[i])' <=> Listed(rows[i])
        /\ \A i : Ahead(rows[i], start)' <=> Ahead(rows[i], start')
    BY <1>4 DEF Keys, Listed, Ahead, After, HasStatus
  <1>6. \A i \in DOMAIN rows : /\ i \in Ids /\ rows[i] \in Row /\ rows[i].id = i
                              /\ visits[i] \in Nat
    BY <1>2 DEF TypeOK, IsTable
  \* On the page, and only then, a row that was not met is met once.
  <1>7. ASSUME NEW i \in DOMAIN rows
        PROVE  /\ rows[i] \in page => Ahead(rows[i], start)
               /\ rows[i] \in page /\ visits[i] = 0 => visits'[i] = 1
               /\ rows[i] \notin page => visits'[i] = visits[i]
               /\ (\E r \in page : r.id = i) => rows[i] \in page
    <2>1. (\E r \in page : r.id = i) <=> rows[i] \in page
      BY <1>2, <1>6, <1>7, RestIsRows
    <2>2. rows[i] \in page => Ahead(rows[i], start) BY <1>2, RestIsRows
    <2>. QED BY <1>3, <1>6, <1>7, <2>1, <2>2
  <1>8. ASSUME NEW i \in Ids \ DOMAIN rows PROVE visits'[i] = visits[i]
    <2>1. ~\E r \in page : r.id = i BY <1>2, <1>8, RestIsRows
    <2>. QED BY <1>3, <2>1
  <1>9. CASE More(page)
    <2>1. PICK last \in page : IsLast(Keys, last, page) /\ start' = Encode(Keys, last)
      BY <1>3, <1>9
    <2>2. cursors' = cursors \cup {start'} /\ status' = "walking" BY <1>3, <1>4, <1>9
    <2>3. last \in Row /\ start' # NoCursor
      BY <1>2, <2>1, RestIsRows, CursorFits
    <2>4. /\ \A p \in page : ~Ahead(p, start')
          /\ \A r \in Row : Ahead(r, start') => Ahead(r, start)
          /\ \A r \in Rest \ page :
               Ahead(r, start') \/ (list # "cases" /\ Encode(Keys, r) = start')
      BY <1>2, <1>3, <2>1, <2>3, Turn DEF Ahead
    <2>5. ASSUME NEW i \in DOMAIN rows \ touched PROVE Whereabouts(i)'
      <3>0. Whereabouts(i) BY DEF WalkInv
      <3>1. visits'[i] <= 1
        BY <1>4, <1>6, <1>7, <3>0 DEF Whereabouts
      <3>2. Ahead(rows[i], start') => visits'[i] = 0
        BY <1>4, <1>6, <1>7, <2>4, <3>0 DEF Whereabouts
      <3>3. ASSUME Listed(rows[i]), ~Ahead(rows[i], start')
            PROVE  visits'[i] = 1 \/ (list # "cases" /\ Encode(Keys, rows[i]) \in cursors')
        <4>1. CASE rows[i] \in page
          BY <1>4, <1>7, <3>0, <4>1 DEF Whereabouts
        <4>2. CASE rows[i] \notin page /\ Ahead(rows[i], start)
          <5>1. rows[i] \in Rest BY <3>3, <4>2 DEF Rest, Ahead
          <5>. QED BY <2>2, <2>4, <3>3, <4>2, <5>1
        <4>3. CASE rows[i] \notin page /\ ~Ahead(rows[i], start)
          BY <1>7, <2>2, <3>0, <3>3, <4>3 DEF Whereabouts, Seen
        <4>. QED BY <4>1, <4>2, <4>3
      <3>. QED BY <1>4, <1>5, <2>2, <3>1, <3>2, <3>3 DEF Whereabouts, Seen
    <2>6. ASSUME list = "backlog", NEW i \in Ids PROVE MetOnce(i)'
      <3>0. MetOnce(i) BY <2>6 DEF WalkInv
      <3>1. CASE i \in DOMAIN rows
        <4>1. visits'[i] <= 1 BY <1>4, <1>6, <1>7, <3>0, <3>1 DEF MetOnce
        <4>2. visits'[i] # 0 => ~Ahead(rows[i], start')
          BY <1>4, <1>6, <1>7, <2>4, <3>0, <3>1 DEF MetOnce
        <4>. QED BY <1>4, <1>5, <3>1, <4>1, <4>2 DEF MetOnce
      <3>2. CASE i \notin DOMAIN rows
        BY <1>4, <1>8, <2>2, <3>0, <3>2 DEF MetOnce
      <3>. QED BY <3>1, <3>2
    <2>. QED BY <1>1, <1>4, <1>8, <2>5, <2>6 DEF WalkInv
  <1>10. CASE ~More(page)
    <2>1. status' = "ended" /\ UNCHANGED <<start, cursors>> BY <1>3, <1>10
    \* The last page is all that was left, unless no row was asked for.
    <2>2. limit # 0 => page = Rest
      <3>1. CASE limit = NoLimit BY <1>3, <3>1 DEF Query
      <3>2. CASE limit # NoLimit /\ limit # 0
        <4>1. IsPage(Keys, page, Rest, limit) BY <1>3, <3>2 DEF Query
        <4>2. limit \in Nat BY <1>2, <3>2, WalkAssumption DEF TypeOK, LimitsOfList
        <4>3. Cardinality(page) # limit
          <5>1. CASE list = "cases" BY <1>10, <3>2, <4>2, <5>1 DEF More
          <5>2. CASE list # "cases"
            <6>1. page = {} BY <1>10, <5>2 DEF More
            <6>. QED BY <3>2, <6>1, FS_EmptySet
          <5>. QED BY <5>1, <5>2
        <4>. QED BY <4>1, <4>3 DEF IsPage
      <3>. QED BY <3>1, <3>2
    <2>3. ASSUME NEW i \in DOMAIN rows \ touched PROVE Whereabouts(i)'
      <3>0. Whereabouts(i) BY DEF WalkInv
      <3>1. visits'[i] <= 1
        BY <1>4, <1>6, <1>7, <3>0 DEF Whereabouts
      <3>2. ASSUME Listed(rows[i]), ~Ahead(rows[i], start) \/ limit # 0
            PROVE  visits'[i] = 1 \/ (list # "cases" /\ Encode(Keys, rows[i]) \in cursors)
        <4>1. CASE ~Ahead(rows[i], start)
          BY <1>7, <3>0, <3>2, <4>1 DEF Whereabouts, Seen
        <4>2. CASE Ahead(rows[i], start)
          <5>1. rows[i] \in page BY <2>2, <3>2, <4>2 DEF Rest, Ahead
          <5>. QED BY <1>4, <1>7, <3>0, <4>2, <5>1 DEF Whereabouts
        <4>. QED BY <4>1, <4>2
      <3>. QED BY <1>4, <1>5, <2>1, <3>1, <3>2 DEF Whereabouts, Seen
    <2>4. ASSUME list = "backlog", NEW i \in Ids PROVE MetOnce(i)'
      <3>0. MetOnce(i) BY <2>4 DEF WalkInv
      <3>1. CASE i \in DOMAIN rows
        BY <1>4, <1>6, <1>7, <2>1, <3>0, <3>1 DEF MetOnce
      <3>2. CASE i \notin DOMAIN rows
        BY <1>8, <2>1, <3>0, <3>2 DEF MetOnce
      <3>. QED BY <3>1, <3>2
    <2>. QED BY <1>1, <1>4, <1>8, <2>3, <2>4 DEF WalkInv
  <1>. QED BY <1>9, <1>10

LEMMA OthersWalkInv ==
  ASSUME WalkInv, NEW i \in Ids,
         WriteCase(i) \/ InsertItem(i) \/ \E t \in Transitions : Transition(t, i)
  PROVE  WalkInv'
  <1>1. TypeOK BY DEF WalkInv, Typed
  <1>2. Typed' BY StepTyped DEF WalkInv, Next
  <1>3. PICK row \in Row :
          /\ row.id = i /\ SetRow(i, row)
          /\ list = "backlog" /\ i \in DOMAIN rows => row.publishedAt = rows[i].publishedAt
    BY <1>1, OthersSetRows
  <1>4. /\ touched' = touched \cup {i} /\ DOMAIN rows' = DOMAIN rows \cup {i}
        /\ rows'[i] = row
        /\ \A j \in DOMAIN rows \ {i} : rows'[j] = rows[j]
        /\ UNCHANGED <<list, limit, now, start, status, visits, cursors>>
    BY <1>1, <1>3, SetRowTyped
  <1>5. /\ Keys' = Keys
        /\ \A r : Ahead(r, start)' <=> Ahead(r, start)
        /\ \A r : Listed(r)' <=> Listed(r)
    BY <1>4 DEF Keys, Ahead, After, Listed, HasStatus
  <1>6. ASSUME NEW j \in DOMAIN rows' \ touched' PROVE Whereabouts(j)'
    <2>1. j \in DOMAIN rows \ touched /\ rows'[j] = rows[j] BY <1>4
    <2>2. Whereabouts(j) BY <2>1 DEF WalkInv
    <2>3. /\ Ahead(rows[j], start)' <=> Ahead(rows[j], start)
          /\ Listed(rows[j])' <=> Listed(rows[j])
      BY <1>4, <2>1 DEF Keys, Ahead, After, Listed, HasStatus
    <2>. QED BY <1>4, <1>5, <2>1, <2>2, <2>3 DEF Whereabouts, Seen
  <1>7. ASSUME list = "backlog", NEW j \in Ids PROVE MetOnce(j)'
    <2>1. MetOnce(j) BY <1>7 DEF WalkInv
    <2>2. CASE j = i
      <3>1. CASE i \in DOMAIN rows
        <4>1. Keys = BacklogKeys BY <1>1, <1>7, Lists3
        <4>2. Ahead(row, start) <=> Ahead(rows[i], start)
          BY <1>3, <1>7, <3>1, <4>1, BacklogOrder DEF Ahead
        <4>3. Ahead(rows[i], start)' <=> Ahead(row, start)
          BY <1>4 DEF Keys, Ahead, After
        <4>. QED BY <1>4, <2>1, <2>2, <3>1, <4>2, <4>3 DEF MetOnce
      <3>2. CASE i \notin DOMAIN rows
        BY <1>4, <2>1, <2>2, <3>2 DEF MetOnce
      <3>. QED BY <3>1, <3>2
    <2>3. CASE j # i
      <3>1. j \in DOMAIN rows => rows'[j] = rows[j] BY <1>4, <2>3
      <3>2. j \in DOMAIN rows => (Ahead(rows[j], start)' <=> Ahead(rows[j], start))
        BY <1>4, <3>1 DEF Keys, Ahead, After
      <3>. QED BY <1>4, <2>1, <2>3, <3>1, <3>2 DEF MetOnce
    <2>. QED BY <2>2, <2>3
  <1>. QED BY <1>2, <1>4, <1>6, <1>7 DEF WalkInv

LEMMA MoveWalkInv ==
  ASSUME WalkInv, NEW i \in Ids, NEW j \in Ids, MoveCase(i, j)
  PROVE  WalkInv'
  <1>1. Typed' BY StepTyped DEF WalkInv, Next
  <1>2. /\ touched' = touched \cup {i, j}
        /\ DOMAIN rows' = (DOMAIN rows \ {i}) \cup {j}
        /\ \A k \in DOMAIN rows \ {i, j} : rows'[k] = rows[k]
        /\ UNCHANGED <<list, limit, now, stamp, start, status, visits, cursors>>
        /\ list = "cases"
    BY MoveTyped DEF WalkInv, Typed
  <1>3. ASSUME NEW k \in DOMAIN rows' \ touched' PROVE Whereabouts(k)'
    <2>1. k \in DOMAIN rows \ touched /\ rows'[k] = rows[k] BY <1>2
    <2>2. Whereabouts(k) BY <2>1 DEF WalkInv
    <2>3. /\ Ahead(rows[k], start)' <=> Ahead(rows[k], start)
          /\ Listed(rows[k])' <=> Listed(rows[k])
          /\ Keys' = Keys
      BY <1>2, <2>1 DEF Keys, Ahead, After, Listed, HasStatus
    <2>. QED BY <1>2, <2>1, <2>2, <2>3 DEF Whereabouts, Seen
  <1>4. \A k \in Ids \ (DOMAIN rows' \cup touched') : visits'[k] = 0
    BY <1>2 DEF WalkInv
  <1>5. list' # "backlog" BY <1>2
  <1>. QED BY <1>1, <1>3, <1>4, <1>5 DEF WalkInv

LEMMA RefusedWalkInv == ASSUME WalkInv, CursorRefused PROVE WalkInv'
  <1>1. Typed' BY StepTyped DEF WalkInv, Next
  <1>2. UNCHANGED <<list, limit, rows, start, visits, touched, cursors>> /\ status' = "refused"
        /\ status = "walking"
    BY DEF CursorRefused
  <1>3. Keys' = Keys BY <1>2 DEF Keys
  <1>4. ASSUME NEW i \in DOMAIN rows \ touched PROVE Whereabouts(i)'
    <2>1. Whereabouts(i) BY DEF WalkInv
    <2>2. /\ Ahead(rows[i], start)' <=> Ahead(rows[i], start)
          /\ Listed(rows[i])' <=> Listed(rows[i])
          /\ Seen(i)' <=> Seen(i)
      BY <1>2, <1>3 DEF Ahead, After, Listed, HasStatus, Seen
    <2>. QED BY <1>2, <2>1, <2>2 DEF Whereabouts
  <1>5. ASSUME list = "backlog", NEW i \in Ids PROVE MetOnce(i)'
    <2>1. MetOnce(i) BY <1>5 DEF WalkInv
    <2>. QED BY <1>2, <2>1 DEF MetOnce
  <1>. QED BY <1>1, <1>2, <1>4, <1>5 DEF WalkInv

LEMMA StepWalkInv == ASSUME WalkInv, [Next]_vars PROVE WalkInv'
  <1>1. CASE NextPage BY <1>1, PageWalkInv
  <1>2. ASSUME NEW i \in Ids,
               WriteCase(i) \/ InsertItem(i) \/ \E t \in Transitions : Transition(t, i)
        PROVE  WalkInv'
    BY <1>2, OthersWalkInv
  <1>3. ASSUME UNCHANGED <<list, limit, rows, start, status, visits, touched, cursors>>
        PROVE  WalkInv'
    <2>1. Typed' BY StepTyped DEF WalkInv
    <2>2. Keys' = Keys BY <1>3 DEF Keys
    <2>. QED BY <1>3, <2>1, <2>2 DEF WalkInv, Whereabouts, MetOnce, Seen, Ahead, Listed, HasStatus
  <1>4. ASSUME NEW t \in Transitions, Stamp(t) PROVE WalkInv'
    BY <1>3, <1>4 DEF Stamp, walk
  <1>5. CASE Tick BY <1>3, <1>5 DEF Tick, walk
  <1>6. CASE UNCHANGED vars BY <1>3, <1>6 DEF vars
  <1>7. CASE CursorRefused BY <1>7, RefusedWalkInv
  <1>8. ASSUME NEW i \in Ids, NEW j \in Ids, MoveCase(i, j) PROVE WalkInv'
    BY <1>8, MoveWalkInv
  <1>. QED BY <1>1, <1>2, <1>4, <1>5, <1>6, <1>7, <1>8 DEF Next

THEOREM Walk == Spec => []WalkInv
  <1>1. Init => WalkInv BY InitWalkInv
  <1>2. WalkInv /\ [Next]_vars => WalkInv' BY StepWalkInv
  <1>. QED BY <1>1, <1>2, PTL DEF Spec

\* However the cases around it are created and edited between two pages, a case
\* that is left alone is met exactly once by a walk that comes to its end
\* (src/routers/cases.js:335-371, src/lib/keysetPagination.js:61-97).
THEOREM CasesAreVisited == Spec => []EveryUntouchedCaseIsVisited
  <1>1. WalkInv => EveryUntouchedCaseIsVisited
    <2>1. SUFFICES ASSUME WalkInv, list = "cases", status = "ended", limit > 0,
                          NEW i \in DOMAIN rows \ touched, Listed(rows[i])
                   PROVE  visits[i] = 1
      BY DEF EveryUntouchedCaseIsVisited
    <2>2. limit # 0
      BY <2>1, WalkAssumption DEF WalkInv, Typed, TypeOK, LimitsOfList
    <2>. QED BY <2>1, <2>2 DEF WalkInv, Whereabouts, Seen
  <1>. QED BY <1>1, Walk, PTL

\* What a walk of the feed misses, of the items left alone, ties with the last
\* item of one of its pages (src/data/feedItem.js:116-155).
THEOREM OnlyTies == Spec => []OnlyTiesAreMissed
  <1>1. WalkInv => OnlyTiesAreMissed
    BY DEF WalkInv, Whereabouts, Seen, OnlyTiesAreMissed
  <1>. QED BY <1>1, Walk, PTL

\* No list repeats a row that was left alone, and the backlog none at all
\* (src/data/feedItem.js:116-125, src/lib/keysetPagination.js:61-97).
THEOREM NoRepeats == Spec => []NoRowTwice
  <1>1. WalkInv => NoRowTwice
    <2>1. SUFFICES ASSUME WalkInv, NEW i \in Ids, visits[i] = 2
                   PROVE  i \in touched /\ list # "backlog"
      BY DEF NoRowTwice
    <2>2. list # "backlog" BY <2>1 DEF WalkInv, MetOnce
    <2>3. i \in touched BY <2>1 DEF WalkInv, Whereabouts
    <2>. QED BY <2>2, <2>3
  <1>. QED BY <1>1, Walk, PTL
=============================================================================
