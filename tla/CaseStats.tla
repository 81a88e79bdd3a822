------------------------------- MODULE CaseStats -------------------------------
(***************************************************************************)
(* The dashboard of GET /v1/cases/stats: tabs of browsers ask for figures  *)
(* while cases are created and edited, and a browser may show again what   *)
(* it received for the same URL for as long as the answer's Cache-Control  *)
(* allows (src/routers/cases.js).  The handler reads with one query, so in *)
(* one step.                                                               *)
(***************************************************************************)
EXTENDS CaseFigures

CONSTANTS
  Ids,
  CaseRows,   \* what the columns of a case the query reads may hold
  Tables,     \* what the table may hold at the start: id -> row
  Queries,
  Tabs,
  Browsers,
  BrowserOf,  \* tab -> the browser it is open in
  MaxAge,     \* CASE_STATS_CACHE_MAX_AGE_SECONDS
  MaxTime,    \* the bounds of the clock
  MaxWrites,  \* of the writes
  MaxAsks,    \* and of the requests
  Nothing

ASSUME StatsAssumption ==
  /\ BrowserOf \in [Tabs -> Browsers]
  /\ MaxAge \in Nat /\ MaxTime \in Nat /\ MaxWrites \in Nat /\ MaxAsks \in Nat
  /\ \A table \in Tables : DOMAIN table \subseteq Ids

\* The columns the figures group by are enumerations, or booleans that are not null.
GroupColumns ==
  {"caseCategory", "wasItAnAttempt", "province", "murderWeapon",
   "victimBondAggressor", "securityForce"}

BooleanColumns == {"isPregnant", "belongsSecurityForce"}

ASSUME RowsAssumption ==
  /\ Null \notin Int
  /\ IsFiniteSet(Ids)
  /\ \A row \in CaseRows :
       /\ row.occurredAt \in Int
       /\ \A c \in GroupColumns : row[c] \in Int \cup {Null}
       /\ \A c \in BooleanColumns : row[c] \in {Yes, No, Null}
  /\ \A table \in Tables : table \in [DOMAIN table -> CaseRows]
  /\ \A q \in Queries : \A p \in {"fromDate", "toDate"} \cap DOMAIN q : q[p] \in Int

VARIABLES
  cases,      \* the table: id -> row
  now,        \* seconds
  request,    \* tab -> what it waits for: the query, when it asked, the answer if made
  cache,      \* browser -> query -> the answer stored, with when it was asked for
  shown,      \* tab -> the answer on the screen, with when the tab asked for it
  asks,       \* how many requests were made
  \* history
  writes      \* the times of the writes; an answer's version is how many it saw

vars == <<cases, now, request, cache, shown, asks, writes>>

Init ==
  /\ cases \in Tables
  /\ now = 0
  /\ request = [t \in Tabs |-> Nothing]
  /\ cache = [b \in Browsers |-> [q \in Queries |-> Nothing]]
  /\ shown = [t \in Tabs |-> Nothing]
  /\ asks = 0
  /\ writes = <<>>

-----------------------------------------------------------------------------
\* POST /v1/cases or PUT /v1/cases/{caseId}, committed.
Write(i, row) ==
  /\ Len(writes) < MaxWrites
  /\ cases' = [j \in DOMAIN cases \cup {i} |-> IF j = i THEN row ELSE cases[j]]
  /\ writes' = Append(writes, now)
  /\ UNCHANGED <<now, request, cache, shown, asks>>

Tick ==
  /\ now < MaxTime
  /\ now' = now + 1
  /\ UNCHANGED <<cases, request, cache, shown, asks, writes>>

\* Mutant: an age in milliseconds.
CacheControlInMs == 1000 * MaxAge

\* `private, max-age=...`
CacheControl == MaxAge

\* The age of an answer counts from the moment it was asked for.
Fresh(stored) == stored # Nothing /\ now - stored.asked < CacheControl

Show(t, q, answer, asked) ==
  shown' = [shown EXCEPT ![t] = [query |-> q, answer |-> answer, asked |-> asked]]

\* A tab shows what its browser has stored ...
OpenCached(t, q) ==
  LET stored == cache[BrowserOf[t]][q]
  IN  /\ request[t] = Nothing
      /\ Fresh(stored)
      /\ Show(t, q, stored.answer, now)
      /\ UNCHANGED <<cases, now, request, cache, asks, writes>>

\* ... or asks the service: it has nothing fresh, or the page is reloaded.
Ask(t, q) ==
  /\ request[t] = Nothing
  /\ asks < MaxAsks
  /\ asks' = asks + 1
  /\ request' = [request EXCEPT ![t] = [query |-> q, asked |-> now, answer |-> Nothing]]
  /\ UNCHANGED <<cases, now, cache, shown, writes>>

InOrder(order) == [i \in DOMAIN order |-> cases[order[i]]]

\* The rows come in any order: the query has no ORDER BY.
Answer(t) ==
  /\ request[t] # Nothing /\ request[t].answer = Nothing
  /\ \E order \in SetToSeqs({i \in DOMAIN cases : Selected(request[t].query, cases[i])}) :
       request' = [request EXCEPT ![t] =
                     [ query |-> @.query, asked |-> @.asked,
                       answer |-> [ figures |-> Figures(InOrder(order)),
                                    version |-> Len(writes) ] ]]
  /\ UNCHANGED <<cases, now, cache, shown, asks, writes>>

\* The answer arrives, perhaps long after and behind that of a later request.
Receive(t) ==
  LET r == request[t]
  IN  /\ r # Nothing /\ r.answer # Nothing
      /\ Show(t, r.query, r.answer, r.asked)
      /\ cache' = [cache EXCEPT ![BrowserOf[t]][r.query] =
                     [answer |-> r.answer, asked |-> r.asked]]
      /\ request' = [request EXCEPT ![t] = Nothing]
      /\ UNCHANGED <<cases, now, asks, writes>>

\* A 401, 422 or 500, none of which is stored, or no answer at all.
Fail(t) ==
  /\ request[t] # Nothing
  /\ request' = [request EXCEPT ![t] = Nothing]
  /\ UNCHANGED <<cases, now, cache, shown, asks, writes>>

Next ==
  \/ \E i \in Ids, row \in CaseRows : Write(i, row)
  \/ Tick
  \/ \E t \in Tabs :
       \/ \E q \in Queries : OpenCached(t, q) \/ Ask(t, q)
       \/ Answer(t) \/ Receive(t) \/ Fail(t)

Spec == Init /\ [][Next]_vars

-----------------------------------------------------------------------------
Screens == {shown[t] : t \in Tabs} \ {Nothing}

\* The sum of the counts.
Total(groups) ==
  LET upTo[n \in 0..Len(groups)] == IF n = 0 THEN 0 ELSE upTo[n - 1] + groups[n].count
  IN  upTo[Len(groups)]

OfBreakdown(b) == b.yes + b.no + b.unknown

\* Every row is counted once in each of the figures: "Every count is over the
\* filtered set", and the forces' "sums to aggressorBelongsSecurityForce.yes"
\* (src/openapi/schemas/caseStats.js:1, :57).
FiguresAddUp ==
  \A s \in Screens :
    LET f == s.answer.figures
    IN  /\ \A groups \in {f.byCategoryAndAttempt, f.byProvince, f.byMurderWeapon,
                          f.byVictimBondAggressor} : Total(groups) = f.total
        /\ OfBreakdown(f.victimIsPregnant) = f.total
        /\ OfBreakdown(f.aggressorBelongsSecurityForce) = f.total
        /\ Total(f.bySecurityForce) = f.aggressorBelongsSecurityForce.yes

\* Two dashboards that ask the same of the same cases show the same figures in
\* the same order, whatever order the database returned the rows in.
SameCasesSameFigures ==
  \A s, r \in Screens :
    s.query = r.query /\ s.answer.version = r.answer.version =>
      s.answer.figures = r.answer.figures

CountOf(groups, g) ==
  LET of == {i \in DOMAIN groups : groups[i].group = g}
  IN  IF of = {} THEN 0 ELSE groups[CHOOSE i \in of : TRUE].count

\* Of the same cases, the dashboard of one province has the total that the one of
\* all provinces gives it.
ProvincesAgree(s, r) ==
  s.query = <<>> /\ DOMAIN r.query = {"province"} =>
    r.answer.figures.total =
      CountOf(s.answer.figures.byProvince, <<r.query["province"]>>)

\* A period that ends on a day and one that begins on it share no case and miss
\* none.
PeriodsTile(s, r) ==
  ( /\ DOMAIN s.query = {"toDate"} /\ DOMAIN r.query = {"fromDate"}
    /\ s.query["toDate"] = r.query["fromDate"]
    /\ s.answer.version = Len(writes) )
  => s.answer.figures.total + r.answer.figures.total = Cardinality(DOMAIN cases)

\* Dashboards of parts agree with those of the whole.
DrillDownsAgree ==
  \A s, r \in Screens :
    s.answer.version = r.answer.version => ProvincesAgree(s, r) /\ PeriodsTile(s, r)

\* However answers are delayed and overtaken, what a tab shows was still true when
\* the tab asked for it, or less than MaxAge before.
StaleByMaxAgeAtMost ==
  \A s \in Screens :
    LET v == s.answer.version
    IN  v < Len(writes) => writes[v + 1] >= s.asked \/ writes[v + 1] + MaxAge > s.asked
=============================================================================
