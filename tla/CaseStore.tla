------------------------------ MODULE CaseStore ------------------------------
(***************************************************************************)
(* POST /v1/cases and PUT /v1/cases/{caseId} running concurrently, in one  *)
(* or several instances of the service, against the tables victims,        *)
(* aggressors and cases of one PostgreSQL database at READ COMMITTED       *)
(* (src/routers/cases.js, src/services/knex.js, src/migrations).           *)
(*                                                                         *)
(* A handler is split at its awaits: one action per SQL statement.  The    *)
(* statements of a transaction write to the transaction's own overlay,     *)
(* txn[r], which COMMIT merges into the tables and ROLLBACK drops; a       *)
(* statement that touches a row some other transaction has written waits   *)
(* for that transaction to end.                                            *)
(***************************************************************************)
EXTENDS CaseRules, FiniteSets

CONSTANTS
  Requests,    \* the HTTP requests of a behaviour
  Bodies,      \* the bodies they may carry
  PathIds,     \* the case ids their paths may name
  ForeignIds,  \* ids other than the path's that bodies may carry as "id"
  MaxId,       \* the largest value of a serial column, 2^31 - 1 in PostgreSQL
  PoolSize,    \* connections in the knex pool
  NoOrder      \* a request that has not arrived

Ids == 1..MaxId

ASSUME StoreAssumption ==
  /\ MaxId \in Nat \ {0}
  /\ PoolSize \in Nat \ {0}
  /\ IsFiniteSet(Requests)
  /\ PathIds \subseteq Ids
  /\ ForeignIds \subseteq Ids

\* What a request asks.  id is the body's own "id", which the schema lists as
\* readOnly and does not refuse; 0 stands for a body without one.
Posts == [kind : {"POST"}, path : {0}, id : {0} \cup ForeignIds, body : Bodies]
Puts ==
  { q \in [kind : {"PUT"}, path : PathIds, id : {0} \cup Ids, body : Bodies] :
      q.id \in {0, q.path} \cup ForeignIds }
Orders == Posts \cup Puts

ASSUME OrdersAssumption == NoOrder \notin Orders

VARIABLES
  cases, victims, aggressors,  \* the committed tables: id -> row
  serial,                      \* the last value of each table's sequence
  asked,                       \* request -> its order
  pc,                          \* request -> its next step
  victimId, aggressorId,       \* request -> the ids its handler holds, 0 for none
  txn,                         \* request -> its uncommitted writes
  status,                      \* request -> the status it was answered with
  effect                       \* history: request -> whether it has committed

tables == <<cases, victims, aggressors>>
locals == <<victimId, aggressorId>>
vars == <<tables, serial, asked, pc, locals, txn, status, effect>>

NoRows == [i \in {} |-> 0]

\* gone: the ids of case rows this transaction has given another id.
NoWrites == [cases |-> NoRows, victims |-> NoRows, aggressors |-> NoRows, gone |-> {}]

Init ==
  /\ cases = NoRows /\ victims = NoRows /\ aggressors = NoRows
  /\ serial = [cases |-> 0, victims |-> 0, aggressors |-> 0]
  /\ asked = [r \in Requests |-> NoOrder]
  /\ pc = [r \in Requests |-> "idle"]
  /\ victimId = [r \in Requests |-> 0]
  /\ aggressorId = [r \in Requests |-> 0]
  /\ txn = [r \in Requests |-> NoWrites]
  /\ status = [r \in Requests |-> "none"]
  /\ effect = [r \in Requests |-> FALSE]

-----------------------------------------------------------------------------
\* Tables and overlays.

Overlay(table, writes) ==
  [i \in DOMAIN table \cup DOMAIN writes |->
     IF i \in DOMAIN writes THEN writes[i] ELSE table[i]]

\* The transactions other than r's that have written row i.
OtherWriters(r, table, i) == { s \in Requests \ {r} : i \in DOMAIN txn[s][table] }

\* A row is locked by the transaction that wrote it until that one ends.
RowFree(r, table, i) == OtherWriters(r, table, i) = {}

CaseIdFree(r, i) ==
  RowFree(r, "cases", i) /\ \A s \in Requests \ {r} : i \notin txn[s].gone

InTransaction(r) == pc[r] \in {"victim", "aggressor", "case", "commit"}

\* knex gives a query outside a transaction a connection for that query only.
ConnectionFree == Cardinality({r \in Requests : InTransaction(r)}) < PoolSize

\* The primary key a statement on cases gives the row it writes.
CaseKey(r) ==
  CASE asked[r].id # 0        -> asked[r].id
    [] asked[r].kind = "POST" -> serial.cases + 1
    [] OTHER                  -> asked[r].path

\* Another row has that key.  An update that matches no row violates nothing.
KeyTaken(r) ==
  /\ CaseKey(r) \in DOMAIN cases
  /\ asked[r].kind = "PUT" =>
       asked[r].path \in DOMAIN cases /\ CaseKey(r) # asked[r].path

Goto(r, label) == pc' = [pc EXCEPT ![r] = label]

Finish(r, s) ==
  /\ Goto(r, "answered")
  /\ status' = [status EXCEPT ![r] = s]

-----------------------------------------------------------------------------
\* Both handlers.

\* The request arrives and is validated, by the schema and by caseValidations.
Receive(r, q) ==
  /\ pc[r] = "idle"
  /\ asked' = [asked EXCEPT ![r] = q]
  /\ IF Accepted(q.body)
     THEN Goto(r, IF q.kind = "POST" THEN "begin" ELSE "lookup") /\ UNCHANGED status
     ELSE Finish(r, "422")
  /\ UNCHANGED <<tables, serial, locals, txn, effect>>

\* knex.transaction takes a connection and sends BEGIN.
Begin(r) ==
  /\ pc[r] = "begin"
  /\ ConnectionFree
  /\ Goto(r, "victim")
  /\ UNCHANGED <<tables, serial, asked, locals, txn, status, effect>>

\* acquireConnectionTimeout, while every connection is in a transaction.
PoolTimeout(r) ==
  /\ pc[r] \in {"lookup", "begin"}
  /\ ~ConnectionFree
  /\ Finish(r, "500")
  /\ UNCHANGED <<tables, serial, asked, locals, txn, effect>>

\* What COMMIT makes of the tables.
ApplyWrites(r) ==
  /\ cases' = [c \in (DOMAIN cases \cup DOMAIN txn[r].cases) \ txn[r].gone |->
                 IF c \in DOMAIN txn[r].cases THEN txn[r].cases[c] ELSE cases[c]]
  /\ victims' = Overlay(victims, txn[r].victims)
  /\ aggressors' = Overlay(aggressors, txn[r].aggressors)
  /\ txn' = [txn EXCEPT ![r] = NoWrites]
  /\ effect' = [effect EXCEPT ![r] = TRUE]

Commit(r) ==
  /\ pc[r] = "commit"
  /\ ApplyWrites(r)
  /\ Goto(r, "committed")
  /\ UNCHANGED <<serial, asked, locals, status>>

\* COMMIT is applied and its reply lost with the connection.
CommitUnconfirmed(r) ==
  /\ pc[r] = "commit"
  /\ ApplyWrites(r)
  /\ Finish(r, "500")
  /\ UNCHANGED <<serial, asked, locals>>

\* Mutant: the handler does not await the transaction.
AnswerUnawaited(r) ==
  /\ pc[r] \in {"commit", "committed"}
  /\ Finish(r, IF asked[r].kind = "POST" THEN "201" ELSE "204")
  /\ UNCHANGED <<tables, serial, asked, locals, txn, effect>>

Answer(r) ==
  /\ pc[r] = "committed"
  /\ Finish(r, IF asked[r].kind = "POST" THEN "201" ELSE "204")
  /\ UNCHANGED <<tables, serial, asked, locals, txn, effect>>

\* Whether the statement r is at draws from its table's sequence.
UsesSerial(r) == asked[r].kind = "POST" /\ (pc[r] = "case" => asked[r].id = 0)

Table(r) ==
  CASE pc[r] = "victim" -> "victims" [] pc[r] = "aggressor" -> "aggressors"
    [] pc[r] = "case" -> "cases"

\* The statement cannot succeed: its sequence is at its end, or it violates the
\* primary key of cases (its draw from the sequence is then lost).
StatementRefused(r) ==
  /\ pc[r] \in {"victim", "aggressor", "case"}
  /\ \/ UsesSerial(r) /\ serial[Table(r)] = MaxId
     \/ pc[r] = "case" /\ KeyTaken(r)
  /\ serial' = [serial EXCEPT ![Table(r)] =
                  IF UsesSerial(r) /\ @ < MaxId THEN @ + 1 ELSE @]
  /\ Finish(r, "500")
  /\ txn' = [txn EXCEPT ![r] = NoWrites]
  /\ UNCHANGED <<tables, asked, locals, effect>>

\* Mutants: the victim was inserted outside the transaction; the transaction is
\* left open.
StatementFailsKeepingVictim(r) ==
  /\ pc[r] \in {"lookup", "begin", "victim", "aggressor", "case", "commit"}
  /\ Finish(r, "500")
  /\ victims' = Overlay(victims, txn[r].victims)
  /\ txn' = [txn EXCEPT ![r] = NoWrites]
  /\ UNCHANGED <<cases, aggressors, serial, asked, locals, effect>>

StatementFailsLeavingOpen(r) ==
  /\ pc[r] \in {"lookup", "begin", "victim", "aggressor", "case", "commit"}
  /\ Finish(r, "500")
  /\ UNCHANGED <<tables, serial, asked, locals, txn, effect>>

\* Any statement can fail with its connection: knex rolls the transaction back
\* and Koa answers 500.
StatementFails(r) ==
  /\ pc[r] \in {"lookup", "begin", "victim", "aggressor", "case", "commit"}
  /\ Finish(r, "500")
  /\ txn' = [txn EXCEPT ![r] = NoWrites]
  /\ UNCHANGED <<tables, serial, asked, locals, effect>>

\* The instance is stopped, or the client is gone, before the answer.
Lose(r) ==
  /\ pc[r] \notin {"idle", "answered"}
  /\ Finish(r, "lost")
  /\ txn' = [txn EXCEPT ![r] = NoWrites]
  /\ UNCHANGED <<tables, serial, asked, locals, effect>>

-----------------------------------------------------------------------------
\* POST /v1/cases: three inserts in one transaction.

Sent(r) == Coerced(asked[r].body)

\* What INSERT ... RETURNING "id" takes from a sequence: never given back, not
\* even by a rollback.
NextSerial(r, table, local) ==
  /\ serial[table] < MaxId
  /\ serial' = [serial EXCEPT ![table] = @ + 1]
  /\ local' = [local EXCEPT ![r] = serial[table] + 1]

Row(i, row) == [j \in {i} |-> row]

InsertVictim(r) ==
  /\ pc[r] = "victim" /\ asked[r].kind = "POST"
  /\ NextSerial(r, "victims", victimId)
  /\ txn' = [txn EXCEPT ![r].victims =
               Row(serial.victims + 1, InsertedRow(VictimFields, Sent(r).victim))]
  /\ Goto(r, "aggressor")
  /\ UNCHANGED <<tables, asked, aggressorId, status, effect>>

InsertAggressor(r) ==
  /\ pc[r] = "aggressor" /\ asked[r].kind = "POST"
  /\ NextSerial(r, "aggressors", aggressorId)
  /\ txn' = [txn EXCEPT ![r].aggressors =
               Row(serial.aggressors + 1, InsertedRow(AggressorFields, Sent(r).aggressor))]
  /\ Goto(r, "case")
  /\ UNCHANGED <<tables, asked, victimId, status, effect>>

\* Mutant: the handler links the latest victim instead of the one it inserted.
InsertedCaseLatestVictim(r) ==
  [ victimId    |-> serial.victims,
    aggressorId |-> aggressorId[r],
    row         |-> InsertedRow(CaseFields, Sent(r).case) ]

InsertedCase(r) ==
  [ victimId    |-> victimId[r],
    aggressorId |-> aggressorId[r],
    row         |-> InsertedRow(CaseFields, Sent(r).case) ]

\* The body's id, if it has one, is inserted as the key and the sequence stays.
InsertCase(r) ==
  /\ pc[r] = "case" /\ asked[r].kind = "POST"
  /\ CaseKey(r) \in Ids /\ ~KeyTaken(r)
  /\ CaseIdFree(r, CaseKey(r))
  /\ serial' = [serial EXCEPT !.cases = IF UsesSerial(r) THEN @ + 1 ELSE @]
  /\ txn' = [txn EXCEPT ![r].cases = Row(CaseKey(r), InsertedCase(r))]
  /\ Goto(r, "commit")
  /\ UNCHANGED <<tables, asked, locals, status, effect>>

-----------------------------------------------------------------------------
\* PUT /v1/cases/{caseId}: a query for the ids of the victim and the aggressor,
\* outside the transaction, then three updates in one.

\* Mutant: the handler takes the victim to have the id of the case.
VictimOfSameId(c) == c

VictimOf(c) == cases[c].victimId

Lookup(r) ==
  /\ pc[r] = "lookup"
  /\ ConnectionFree
  /\ LET c == asked[r].path
     IN  IF c \in DOMAIN cases
         THEN /\ victimId' = [victimId EXCEPT ![r] = VictimOf(c)]
              /\ aggressorId' = [aggressorId EXCEPT ![r] = cases[c].aggressorId]
              /\ Goto(r, "begin")
              /\ UNCHANGED status
         ELSE Finish(r, "404") /\ UNCHANGED locals
  /\ UNCHANGED <<tables, serial, asked, txn, effect>>

\* victims and aggressors are never deleted, so the rows looked up are there.
UpdateVictim(r) ==
  /\ pc[r] = "victim" /\ asked[r].kind = "PUT"
  /\ RowFree(r, "victims", victimId[r])
  /\ txn' = [txn EXCEPT ![r].victims =
               Row(victimId[r], UpdatedRow(VictimFields, DefaultVictim, Sent(r).victim,
                                           victims[victimId[r]]))]
  /\ Goto(r, "aggressor")
  /\ UNCHANGED <<tables, serial, asked, locals, status, effect>>

UpdateAggressor(r) ==
  /\ pc[r] = "aggressor" /\ asked[r].kind = "PUT"
  /\ RowFree(r, "aggressors", aggressorId[r])
  /\ txn' = [txn EXCEPT ![r].aggressors =
               Row(aggressorId[r], UpdatedRow(AggressorFields, DefaultAggressor,
                                              Sent(r).aggressor,
                                              aggressors[aggressorId[r]]))]
  /\ Goto(r, "case")
  /\ UNCHANGED <<tables, serial, asked, locals, status, effect>>

UpdatedCase(r, c) ==
  [ victimId    |-> cases[c].victimId,
    aggressorId |-> cases[c].aggressorId,
    row         |-> UpdatedRow(CaseFields, DefaultCase, Sent(r).case, cases[c].row) ]

\* The body's id is among the columns set.  No row matches when the path's case
\* has been given another id meanwhile: the statement succeeds and sets nothing.
UpdateCase(r) ==
  /\ pc[r] = "case" /\ asked[r].kind = "PUT"
  /\ ~KeyTaken(r)
  /\ LET c == asked[r].path
         matched == {c} \cap DOMAIN cases
     IN  /\ CaseIdFree(r, c) /\ CaseIdFree(r, CaseKey(r))
         /\ txn' = [txn EXCEPT
                      ![r].cases = [i \in {CaseKey(r) : d \in matched} |-> UpdatedCase(r, c)],
                      ![r].gone = matched \ {CaseKey(r)}]
  /\ Goto(r, "commit")
  /\ UNCHANGED <<tables, serial, asked, locals, status, effect>>

-----------------------------------------------------------------------------
\* What a request does when no connection, client or instance fails.
Progress(r) ==
  \/ Lookup(r) \/ Begin(r)
  \/ InsertVictim(r) \/ InsertAggressor(r) \/ InsertCase(r)
  \/ UpdateVictim(r) \/ UpdateAggressor(r) \/ UpdateCase(r)
  \/ StatementRefused(r) \/ Commit(r) \/ Answer(r)

Failure(r) == PoolTimeout(r) \/ StatementFails(r) \/ CommitUnconfirmed(r) \/ Lose(r)

Next ==
  \E r \in Requests :
    \/ \E q \in Orders : Receive(r, q)
    \/ Progress(r)
    \/ Failure(r)

Spec == Init /\ [][Next]_vars

\* PostgreSQL answers every statement and grants every lock that is released,
\* and Node runs every callback: a request that can go on does.
FairSpec == Spec /\ \A r \in Requests : WF_vars(Progress(r))
=============================================================================
