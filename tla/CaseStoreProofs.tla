--------------------------- MODULE CaseStoreProofs ---------------------------
(***************************************************************************)
(* Proofs about CaseStore for any set of requests, any bodies, any ids     *)
(* clients may send and any size of the pool and of the sequences.         *)
(***************************************************************************)
EXTENDS CaseStoreProps, TLAPS

(***************************************************************************)
(* The PUT handler's defaults cover every column the body may leave out,   *)
(* so an update writes the row an insert of the same body would have.      *)
(***************************************************************************)
LEMMA UpdateEqualsInsert ==
  ASSUME NEW body, Accepted(body), NEW old
  PROVE  /\ UpdatedRow(VictimFields, DefaultVictim, Coerced(body).victim, old)
              = Document(body).victim
         /\ UpdatedRow(AggressorFields, DefaultAggressor, Coerced(body).aggressor, old)
              = Document(body).aggressor
         /\ UpdatedRow(CaseFields, DefaultCase, Coerced(body).case, old)
              = Document(body).case
<1>1. UpdatedRow(VictimFields, DefaultVictim, Coerced(body).victim, old)
        = Document(body).victim
  BY DEF UpdatedRow, Document, InsertedRow, VictimFields, DefaultVictim
<1>2. UpdatedRow(AggressorFields, DefaultAggressor, Coerced(body).aggressor, old)
        = Document(body).aggressor
  BY DEF UpdatedRow, Document, InsertedRow, AggressorFields, DefaultAggressor
<1>3. "place" \in DOMAIN Coerced(body).case
  BY DEF Accepted, SchemaValid, Coerced, CoercedPart
<1>4. \A f \in CaseFields : f \in DefaultCase \/ f = "place"
  BY DEF CaseFields, DefaultCase
<1>5. UpdatedRow(CaseFields, DefaultCase, Coerced(body).case, old) = Document(body).case
  BY <1>3, <1>4 DEF UpdatedRow, Document, InsertedRow
<1>6. QED
  BY <1>1, <1>2, <1>5

-----------------------------------------------------------------------------
(***************************************************************************)
(* A step of r that leaves the tables and the other requests alone, and    *)
(* takes no value back from a sequence, keeps what the invariant says of   *)
(* everything but r.                                                       *)
(***************************************************************************)
OnlyOwn(r) ==
  \A s \in Requests \ {r} :
    /\ asked'[s] = asked[s] /\ pc'[s] = pc[s] /\ txn'[s] = txn[s]
    /\ victimId'[s] = victimId[s] /\ aggressorId'[s] = aggressorId[s]

SerialGrows ==
  serial'.victims >= serial.victims /\ serial'.aggressors >= serial.aggressors

LEMMA PairSymmetric ==
  ASSUME NEW r, NEW s
  PROVE  PairInv(r, s) <=> PairInv(s, r)
BY DEF PairInv, Apart

LEMMA QuietStep ==
  ASSUME IndInv, NEW r \in Requests,
         UNCHANGED tables, OnlyOwn(r), SerialGrows,
         TypeOK', (txn = [s \in Requests |-> txn[s]])',
         RequestInv(r)',
         \A s \in Requests \ {r} : PairInv(r, s)'
  PROVE  IndInv'
<1>1. SerialInv' /\ OneToOne' /\ NoOrphans'
  <2>1. SerialInv'
    BY DEF IndInv, SerialInv, SerialGrows, tables, TypeOK
  <2>2. QED
    BY <2>1 DEF IndInv, OneToOne, NoOrphans, tables
<1>2. ASSUME NEW s \in Requests \ {r}
      PROVE  RequestInv(s)'
  <2>1. OrderInv(s)' /\ OverlayInv(s)'
    BY <1>2 DEF IndInv, RequestInv, OnlyOwn, OrderInv, OverlayInv, VictimWrite, AggressorWrite
  <2>2. PostInv(s) /\ pc[s] # "idle" => PostInv(s)'
    BY <1>2 DEF IndInv, TypeOK, OnlyOwn, PostInv, SerialGrows, tables, CaseWrite
  <2>3. PutInv(s) => PutInv(s)'
    BY <1>2 DEF OnlyOwn, PutInv, tables, CaseWrite
  <2>4. QED
    BY <1>2, <2>1, <2>2, <2>3 DEF IndInv, RequestInv, OnlyOwn
<1>3. ASSUME NEW s \in Requests, NEW t \in Requests, s # t
      PROVE  PairInv(s, t)'
  <2>1. CASE s = r
    BY <2>1, <1>3
  <2>2. CASE t = r
    <3>1. PairInv(r, s)'
      BY <2>2, <1>3
    <3>2. QED
      BY <3>1, <2>2 DEF PairInv, Apart
  <2>3. CASE s # r /\ t # r
    BY <2>3, <1>3 DEF IndInv, PairInv, Apart, CaseIdsTouched, OnlyOwn
  <2>4. QED
    BY <2>1, <2>2, <2>3
<1>4. QED
  BY <1>1, <1>2, <1>3 DEF IndInv

(***************************************************************************)
(* A step that answers r and drops its overlay.                            *)
(***************************************************************************)
LEMMA AnsweredStep ==
  ASSUME IndInv, NEW r \in Requests, NEW s \in Statuses,
         pc[r] # "idle", Finish(r, s),
         txn' = [txn EXCEPT ![r] = NoWrites],
         SerialGrows, serial' \in [{"cases", "victims", "aggressors"} -> 0..MaxId],
         UNCHANGED <<tables, asked, locals, effect>>
  PROVE  IndInv'
<1>1. TypeOK'
  BY DEF IndInv, TypeOK, Finish, Goto, tables, locals, Steps, IsTable
<1>2. OnlyOwn(r)
  BY DEF IndInv, TypeOK, OnlyOwn, Finish, Goto, locals
<1>3. (txn = [q \in Requests |-> txn[q]])'
  BY DEF IndInv
<1>4. pc'[r] = "answered" /\ txn'[r] = NoWrites
  BY DEF IndInv, TypeOK, Finish, Goto
<1>5. RequestInv(r)'
  BY <1>4 DEF IndInv, RequestInv, OrderInv, OverlayInv, PostInv, PutInv, Working
<1>6. \A q \in Requests \ {r} : PairInv(r, q)'
  BY <1>4 DEF PairInv, Apart, CaseIdsTouched, NoWrites, NoRows
<1>7. QED
  BY <1>1, <1>2, <1>3, <1>5, <1>6, QuietStep

\* An answer to a request that has written nothing leaves its overlay empty.
LEMMA EmptyOverlay ==
  ASSUME IndInv, NEW r \in Requests,
         pc[r] \notin {"aggressor", "case", "commit"}, UNCHANGED txn
  PROVE  txn' = [txn EXCEPT ![r] = NoWrites]
BY DEF IndInv, RequestInv, OverlayInv

LEMMA SerialKept ==
  ASSUME IndInv, UNCHANGED serial
  PROVE  SerialGrows /\ serial' \in [{"cases", "victims", "aggressors"} -> 0..MaxId]
BY StoreAssumption DEF IndInv, TypeOK, SerialGrows

LEMMA PoolTimeoutStep ==
  ASSUME IndInv, NEW r \in Requests, PoolTimeout(r)
  PROVE  IndInv'
BY AnsweredStep, EmptyOverlay, SerialKept DEF PoolTimeout, Statuses

LEMMA AnswerStep ==
  ASSUME IndInv, NEW r \in Requests, Answer(r)
  PROVE  IndInv'
<1>1. \E s \in Statuses : Finish(r, s)
  BY DEF Answer, Statuses
<1>2. QED
  BY <1>1, AnsweredStep, EmptyOverlay, SerialKept DEF Answer

LEMMA FailureSteps ==
  ASSUME IndInv, NEW r \in Requests, StatementFails(r) \/ Lose(r)
  PROVE  IndInv'
<1>1. CASE StatementFails(r)
  BY <1>1, AnsweredStep, SerialKept DEF StatementFails, Statuses
<1>2. CASE Lose(r)
  BY <1>2, AnsweredStep, SerialKept DEF Lose, Statuses
<1>3. QED
  BY <1>1, <1>2

LEMMA StatementRefusedStep ==
  ASSUME IndInv, NEW r \in Requests, StatementRefused(r)
  PROVE  IndInv'
<1>1. Table(r) \in {"cases", "victims", "aggressors"}
  BY DEF StatementRefused, Table
<1>2. SerialGrows /\ serial' \in [{"cases", "victims", "aggressors"} -> 0..MaxId]
  BY <1>1, StoreAssumption DEF StatementRefused, IndInv, TypeOK, SerialGrows
<1>3. QED
  BY <1>2, AnsweredStep DEF StatementRefused, Statuses

LEMMA BeginStep ==
  ASSUME IndInv, NEW r \in Requests, Begin(r)
  PROVE  IndInv'
<1>1. TypeOK' /\ OnlyOwn(r)
  BY DEF Begin, IndInv, TypeOK, OnlyOwn, Goto, tables, locals, Steps, IsTable
<1>2. pc[r] = "begin" /\ pc'[r] = "victim"
  BY DEF Begin, IndInv, TypeOK, Goto
<1>3. RequestInv(r)'
  BY <1>2 DEF Begin, IndInv, RequestInv, OrderInv, OverlayInv, PostInv, PutInv, Working,
              tables, locals
<1>4. \A q \in Requests \ {r} : PairInv(r, q)'
  BY <1>1, <1>2 DEF Begin, IndInv, PairInv, Apart, CaseIdsTouched, OnlyOwn, locals
<1>5. (txn = [q \in Requests |-> txn[q]])'
  BY DEF IndInv, Begin
<1>6. QED
  BY <1>1, <1>3, <1>4, <1>5, QuietStep, SerialKept DEF Begin

LEMMA ReceiveStep ==
  ASSUME IndInv, NEW r \in Requests, NEW q \in Orders, Receive(r, q)
  PROVE  IndInv'
<1>1. TypeOK' /\ OnlyOwn(r)
  BY DEF Receive, IndInv, TypeOK, OnlyOwn, Finish, Goto, tables, locals, Steps, Statuses,
         IsTable
<1>2. /\ pc[r] = "idle" /\ asked'[r] = q /\ txn'[r] = NoWrites
      /\ pc'[r] \in {"begin", "lookup", "answered"}
      /\ pc'[r] # "answered" => Accepted(q.body)
      /\ pc'[r] = "begin" => q.kind = "POST"
      /\ pc'[r] = "lookup" => q.kind = "PUT"
  BY DEF Receive, IndInv, TypeOK, Goto, Finish, RequestInv, OverlayInv, Orders, Posts, Puts
<1>3. RequestInv(r)'
  BY <1>2 DEF RequestInv, OrderInv, OverlayInv, PostInv, PutInv, Working
<1>4. \A s \in Requests \ {r} : PairInv(r, s)'
  BY <1>2 DEF PairInv, Apart, CaseIdsTouched, NoWrites, NoRows
<1>5. (txn = [s \in Requests |-> txn[s]])'
  BY DEF IndInv, Receive
<1>6. QED
  BY <1>1, <1>3, <1>4, <1>5, QuietStep, SerialKept DEF Receive

LEMMA LookupStep ==
  ASSUME IndInv, NEW r \in Requests, Lookup(r)
  PROVE  IndInv'
<1>1. CASE asked[r].path \notin DOMAIN cases
  BY <1>1, AnsweredStep, EmptyOverlay, SerialKept DEF Lookup, Statuses
<1>2. CASE asked[r].path \in DOMAIN cases
  <2>1. cases[asked[r].path].victimId \in DOMAIN victims
        /\ cases[asked[r].path].aggressorId \in DOMAIN aggressors
    BY <1>2 DEF IndInv, OneToOne
  <2>2. DOMAIN victims \subseteq 0..MaxId /\ DOMAIN aggressors \subseteq 0..MaxId
    BY StoreAssumption DEF IndInv, TypeOK, IsTable, Ids
  <2>3. TypeOK' /\ OnlyOwn(r)
    BY <1>2, <2>1, <2>2
       DEF Lookup, VictimOf, IndInv, TypeOK, OnlyOwn, Goto, tables, Steps, IsTable
  <2>4. /\ pc[r] = "lookup" /\ pc'[r] = "begin" /\ txn'[r] = NoWrites
        /\ victimId'[r] \in DOMAIN victims /\ aggressorId'[r] \in DOMAIN aggressors
        /\ asked[r].kind = "PUT"
    BY <1>2, <2>1
       DEF Lookup, VictimOf, IndInv, TypeOK, Goto, RequestInv, OverlayInv, OrderInv
  <2>5. RequestInv(r)'
    BY <2>4 DEF Lookup, IndInv, RequestInv, OrderInv, OverlayInv, PutInv, Working, tables
  <2>6. \A s \in Requests \ {r} : PairInv(r, s)'
    BY <2>4 DEF PairInv, Apart, CaseIdsTouched, NoWrites, NoRows
  <2>7. (txn = [s \in Requests |-> txn[s]])'
    BY DEF IndInv, Lookup
  <2>8. QED
    BY <2>3, <2>5, <2>6, <2>7, QuietStep, SerialKept DEF Lookup
<1>3. QED
  BY <1>1, <1>2

-----------------------------------------------------------------------------
\* The three inserts of a create.

LEMMA InsertVictimStep ==
  ASSUME IndInv, NEW r \in Requests, InsertVictim(r)
  PROVE  IndInv'
<1> DEFINE v == serial.victims + 1
<1>1. /\ pc[r] = "victim" /\ asked[r].kind = "POST" /\ txn[r] = NoWrites
      /\ asked[r] \in Orders /\ Accepted(asked[r].body)
  BY DEF InsertVictim, IndInv, RequestInv, OrderInv, OverlayInv, Working
<1>2. /\ v \in Ids /\ serial'.victims = v /\ victimId'[r] = v
      /\ serial'.aggressors = serial.aggressors
  BY StoreAssumption DEF InsertVictim, NextSerial, IndInv, TypeOK, Ids
<1>3. serial' \in [{"cases", "victims", "aggressors"} -> 0..MaxId] /\ SerialGrows
  BY <1>2, StoreAssumption DEF InsertVictim, NextSerial, IndInv, TypeOK, Ids, SerialGrows
<1>4. TypeOK' /\ OnlyOwn(r)
  BY <1>2, <1>3, StoreAssumption
     DEF InsertVictim, NextSerial, IndInv, TypeOK, OnlyOwn, Goto, tables, Steps, IsTable, Ids
<1>5. /\ pc'[r] = "aggressor" /\ asked' = asked /\ aggressorId' = aggressorId
      /\ txn'[r] = Writes(NoRows, VictimWrite(r)', NoRows, {})
  <2>1. txn'[r] = [NoWrites EXCEPT
                     !.victims = Row(v, InsertedRow(VictimFields, Sent(r).victim))]
    BY <1>1 DEF InsertVictim, IndInv
  <2>2. Sent(r).victim = Coerced(asked[r].body).victim
    BY DEF Sent
  <2>3. VictimWrite(r)' = Row(v, InsertedRow(VictimFields, Sent(r).victim))
    BY <1>2, <2>2 DEF InsertVictim, VictimWrite, Document
  <2>4. QED
    BY <2>1, <2>3 DEF InsertVictim, IndInv, TypeOK, Goto, NoWrites, Writes
<1>6. v \notin DOMAIN victims
  BY <1>2 DEF IndInv, SerialInv, TypeOK
<1>7. RequestInv(r)'
  <2>1. OrderInv(r)' /\ OverlayInv(r)'
    BY <1>1, <1>5 DEF OrderInv, OverlayInv
  <2>2. PostInv(r)'
    BY <1>2, <1>5, <1>6, StoreAssumption DEF PostInv, InsertVictim, tables, Ids
  <2>3. QED
    BY <1>1, <1>5, <2>1, <2>2 DEF RequestInv
<1>8. ASSUME NEW s \in Requests \ {r}
      PROVE  PairInv(r, s)'
  <2>1. pc[s] \in {"aggressor", "case", "commit"} /\ asked[s].kind = "POST"
          => victimId[s] # v
    BY DEF IndInv, RequestInv, PostInv, TypeOK
  <2>2. CaseIdsTouched(r)' = {}
    BY <1>5 DEF CaseIdsTouched, Writes, NoRows
  <2>3. QED
    BY <2>1, <2>2, <1>2, <1>4, <1>5 DEF PairInv, Apart, OnlyOwn
<1>9. (txn = [s \in Requests |-> txn[s]])'
  BY DEF IndInv, InsertVictim
<1>10. QED
  BY <1>3, <1>4, <1>7, <1>8, <1>9, QuietStep DEF InsertVictim

LEMMA InsertAggressorStep ==
  ASSUME IndInv, NEW r \in Requests, InsertAggressor(r)
  PROVE  IndInv'
<1> DEFINE a == serial.aggressors + 1
<1>1. /\ pc[r] = "aggressor" /\ asked[r].kind = "POST"
      /\ txn[r] = Writes(NoRows, VictimWrite(r), NoRows, {})
      /\ asked[r] \in Orders /\ Accepted(asked[r].body)
  BY DEF InsertAggressor, IndInv, RequestInv, OrderInv, OverlayInv, Working
<1>2. /\ a \in Ids /\ serial'.aggressors = a /\ aggressorId'[r] = a
      /\ serial'.victims = serial.victims
  BY StoreAssumption DEF InsertAggressor, NextSerial, IndInv, TypeOK, Ids
<1>3. serial' \in [{"cases", "victims", "aggressors"} -> 0..MaxId] /\ SerialGrows
  BY <1>2, StoreAssumption
     DEF InsertAggressor, NextSerial, IndInv, TypeOK, Ids, SerialGrows
<1>4. TypeOK' /\ OnlyOwn(r)
  BY <1>2, <1>3, StoreAssumption
     DEF InsertAggressor, NextSerial, IndInv, TypeOK, OnlyOwn, Goto, tables, Steps,
         IsTable, Ids
<1>5. /\ pc'[r] = "case" /\ asked' = asked /\ victimId' = victimId
      /\ txn'[r] = Writes(NoRows, VictimWrite(r)', AggressorWrite(r)', {})
  <2>1. txn'[r] = [txn[r] EXCEPT
                     !.aggressors = Row(a, InsertedRow(AggressorFields, Sent(r).aggressor))]
    BY DEF InsertAggressor, IndInv
  <2>2. Sent(r).aggressor = Coerced(asked[r].body).aggressor
    BY DEF Sent
  <2>3. AggressorWrite(r)' = Row(a, InsertedRow(AggressorFields, Sent(r).aggressor))
    BY <1>2, <2>2 DEF InsertAggressor, AggressorWrite, Document
  <2>4. VictimWrite(r)' = VictimWrite(r)
    BY DEF InsertAggressor, VictimWrite
  <2>5. txn'[r] = Writes(NoRows, VictimWrite(r)', AggressorWrite(r)', {})
    BY <1>1, <2>1, <2>3, <2>4 DEF Writes
  <2>6. QED
    BY <2>5 DEF InsertAggressor, IndInv, TypeOK, Goto
<1>6. a \notin DOMAIN aggressors
  BY <1>2 DEF IndInv, SerialInv, TypeOK
<1>7. RequestInv(r)'
  <2>1. OrderInv(r)' /\ OverlayInv(r)'
    BY <1>1, <1>5 DEF OrderInv, OverlayInv
  <2>2. PostInv(r)'
    BY <1>1, <1>2, <1>5, <1>6, StoreAssumption
       DEF PostInv, InsertAggressor, tables, Ids, IndInv, RequestInv
  <2>3. QED
    BY <1>1, <1>5, <2>1, <2>2 DEF RequestInv
<1>8. ASSUME NEW s \in Requests \ {r}
      PROVE  PairInv(r, s)'
  <2>1. pc[s] \in {"case", "commit"} /\ asked[s].kind = "POST" => aggressorId[s] # a
    BY DEF IndInv, RequestInv, PostInv, TypeOK
  <2>2. CaseIdsTouched(r)' = {}
    BY <1>5 DEF CaseIdsTouched, Writes, NoRows
  <2>3. QED
    BY <2>1, <2>2, <1>1, <1>2, <1>4, <1>5 DEF IndInv, PairInv, Apart, OnlyOwn
<1>9. (txn = [s \in Requests |-> txn[s]])'
  BY DEF IndInv, InsertAggressor
<1>10. QED
  BY <1>3, <1>4, <1>7, <1>8, <1>9, QuietStep DEF InsertAggressor

LEMMA InsertCaseStep ==
  ASSUME IndInv, NEW r \in Requests, InsertCase(r)
  PROVE  IndInv'
<1>1. /\ pc[r] = "case" /\ asked[r].kind = "POST"
      /\ txn[r] = Writes(NoRows, VictimWrite(r), AggressorWrite(r), {})
      /\ asked[r] \in Orders /\ Accepted(asked[r].body)
  BY DEF InsertCase, IndInv, RequestInv, OrderInv, OverlayInv, Working
<1>2. PICK c \in Ids \ DOMAIN cases : c = CaseKey(r) /\ CaseIdFree(r, c)
  BY <1>1 DEF InsertCase, KeyTaken
<1>3. serial' \in [{"cases", "victims", "aggressors"} -> 0..MaxId] /\ SerialGrows
  BY <1>1, <1>2, StoreAssumption
     DEF InsertCase, UsesSerial, CaseKey, IndInv, TypeOK, Ids, SerialGrows
<1>4. TypeOK' /\ OnlyOwn(r)
  BY <1>3 DEF InsertCase, IndInv, TypeOK, OnlyOwn, Goto, tables, locals, Steps, IsTable
<1>5. /\ pc'[r] = "commit"
      /\ asked' = asked /\ victimId' = victimId /\ aggressorId' = aggressorId
      /\ txn'[r] = Writes(CaseWrite(r, c, victimId[r], aggressorId[r]),
                          VictimWrite(r), AggressorWrite(r), {})
  <2>1. txn'[r] = [txn[r] EXCEPT !.cases = Row(c, InsertedCase(r))]
    BY <1>2 DEF InsertCase, IndInv
  <2>2. Row(c, InsertedCase(r)) = CaseWrite(r, c, victimId[r], aggressorId[r])
    BY DEF InsertedCase, CaseWrite, Sent, Document
  <2>3. txn'[r] = Writes(CaseWrite(r, c, victimId[r], aggressorId[r]),
                        VictimWrite(r), AggressorWrite(r), {})
    BY <1>1, <2>1, <2>2 DEF Writes
  <2>4. QED
    BY <2>3 DEF InsertCase, IndInv, TypeOK, Goto, locals
<1>6. RequestInv(r)'
  <2>1. OrderInv(r)' /\ OverlayInv(r)'
    BY <1>1, <1>5 DEF OrderInv, OverlayInv, Writes, VictimWrite, AggressorWrite
  <2>2. txn'[r].cases = CaseWrite(r, c, victimId[r], aggressorId[r])' /\ txn'[r].gone = {}
    BY <1>5 DEF Writes, CaseWrite
  <2>3. PostInv(r)'
    <3>1. PostInv(r)
      BY <1>1 DEF IndInv, RequestInv
    <3>2. \E d \in Ids \ DOMAIN cases' :
            txn'[r].cases = CaseWrite(r, d, victimId[r], aggressorId[r])'
      BY <1>2, <1>5 DEF InsertCase, tables, CaseWrite, Writes
    <3>3. QED
      BY <1>1, <1>3, <1>5, <2>2, <3>1, <3>2
         DEF PostInv, InsertCase, tables, SerialGrows, IndInv, TypeOK
  <2>4. QED
    BY <1>1, <1>5, <2>1, <2>3 DEF RequestInv
<1>7. ASSUME NEW s \in Requests \ {r}
      PROVE  PairInv(r, s)'
  <2>1. CaseIdsTouched(r)' = {c}
    BY <1>5 DEF CaseIdsTouched, Writes, CaseWrite, Row
  <2>2. c \notin CaseIdsTouched(s)'
    BY <1>2, <1>4 DEF CaseIdFree, RowFree, OtherWriters, CaseIdsTouched, OnlyOwn
  <2>3. Apart(r, s)'
    BY <1>1, <1>4, <1>5 DEF IndInv, PairInv, Apart, OnlyOwn
  <2>4. QED
    BY <2>1, <2>2, <2>3 DEF PairInv
<1>8. (txn = [s \in Requests |-> txn[s]])'
  BY DEF IndInv, InsertCase
<1>9. QED
  BY <1>3, <1>4, <1>6, <1>7, <1>8, QuietStep DEF InsertCase

-----------------------------------------------------------------------------
\* The three updates of an edit.

LEMMA UpdateVictimStep ==
  ASSUME IndInv, NEW r \in Requests, UpdateVictim(r)
  PROVE  IndInv'
<1>1. /\ pc[r] = "victim" /\ asked[r].kind = "PUT" /\ txn[r] = NoWrites
      /\ asked[r] \in Orders /\ Accepted(asked[r].body)
  BY DEF UpdateVictim, IndInv, RequestInv, OrderInv, OverlayInv, Working
<1>2. TypeOK' /\ OnlyOwn(r)
  BY DEF UpdateVictim, IndInv, TypeOK, OnlyOwn, Goto, tables, locals, Steps, IsTable
<1>3. txn'[r] = Writes(NoRows, VictimWrite(r), NoRows, {})
  <2>1. VictimWrite(r) = Row(victimId[r], UpdatedRow(VictimFields, DefaultVictim,
                                            Sent(r).victim, victims[victimId[r]]))
    BY <1>1, UpdateEqualsInsert DEF Sent, VictimWrite
  <2>2. txn'[r] = [NoWrites EXCEPT !.victims = VictimWrite(r)]
    BY <1>1, <2>1 DEF UpdateVictim, IndInv
  <2>3. QED
    BY <2>2 DEF NoWrites, Writes
<1>4. pc'[r] = "aggressor" /\ UNCHANGED <<asked, victimId, aggressorId>>
  BY DEF UpdateVictim, IndInv, TypeOK, Goto, locals
<1>5. RequestInv(r)'
  <2>1. OrderInv(r)' /\ OverlayInv(r)'
    BY <1>1, <1>3, <1>4 DEF OrderInv, OverlayInv, VictimWrite
  <2>2. PutInv(r)'
    BY <1>1, <1>4 DEF UpdateVictim, IndInv, RequestInv, PutInv, tables
  <2>3. QED
    BY <1>1, <1>4, <2>1, <2>2 DEF RequestInv
<1>6. \A s \in Requests \ {r} : PairInv(r, s)'
  BY <1>1, <1>3, <1>4 DEF PairInv, Apart, CaseIdsTouched, Writes, NoRows
<1>7. (txn = [s \in Requests |-> txn[s]])'
  BY DEF IndInv, UpdateVictim
<1>8. QED
  BY <1>2, <1>5, <1>6, <1>7, QuietStep, SerialKept DEF UpdateVictim

LEMMA UpdateAggressorStep ==
  ASSUME IndInv, NEW r \in Requests, UpdateAggressor(r)
  PROVE  IndInv'
<1>1. /\ pc[r] = "aggressor" /\ asked[r].kind = "PUT"
      /\ txn[r] = Writes(NoRows, VictimWrite(r), NoRows, {})
      /\ asked[r] \in Orders /\ Accepted(asked[r].body)
  BY DEF UpdateAggressor, IndInv, RequestInv, OrderInv, OverlayInv, Working
<1>2. TypeOK' /\ OnlyOwn(r)
  BY DEF UpdateAggressor, IndInv, TypeOK, OnlyOwn, Goto, tables, locals, Steps, IsTable
<1>3. txn'[r] = Writes(NoRows, VictimWrite(r), AggressorWrite(r), {})
  <2>1. AggressorWrite(r)
          = Row(aggressorId[r], UpdatedRow(AggressorFields, DefaultAggressor,
                                  Sent(r).aggressor, aggressors[aggressorId[r]]))
    BY <1>1, UpdateEqualsInsert DEF Sent, AggressorWrite
  <2>2. txn'[r] = [txn[r] EXCEPT !.aggressors = AggressorWrite(r)]
    BY <2>1 DEF UpdateAggressor, IndInv
  <2>3. QED
    BY <1>1, <2>2 DEF Writes
<1>4. pc'[r] = "case" /\ UNCHANGED <<asked, victimId, aggressorId>>
  BY DEF UpdateAggressor, IndInv, TypeOK, Goto, locals
<1>5. RequestInv(r)'
  <2>1. OrderInv(r)' /\ OverlayInv(r)'
    BY <1>1, <1>3, <1>4 DEF OrderInv, OverlayInv, VictimWrite, AggressorWrite
  <2>2. PutInv(r)'
    BY <1>1, <1>4 DEF UpdateAggressor, IndInv, RequestInv, PutInv, tables
  <2>3. QED
    BY <1>1, <1>4, <2>1, <2>2 DEF RequestInv
<1>6. \A s \in Requests \ {r} : PairInv(r, s)'
  BY <1>1, <1>3, <1>4 DEF PairInv, Apart, CaseIdsTouched, Writes, NoRows
<1>7. (txn = [s \in Requests |-> txn[s]])'
  BY DEF IndInv, UpdateAggressor
<1>8. QED
  BY <1>2, <1>5, <1>6, <1>7, QuietStep, SerialKept DEF UpdateAggressor

LEMMA UpdateCaseStep ==
  ASSUME IndInv, NEW r \in Requests, UpdateCase(r)
  PROVE  IndInv'
<1> DEFINE path == asked[r].path
           matched == {path} \cap DOMAIN cases
<1>1. /\ pc[r] = "case" /\ asked[r].kind = "PUT"
      /\ txn[r] = Writes(NoRows, VictimWrite(r), AggressorWrite(r), {})
      /\ asked[r] \in Orders /\ Accepted(asked[r].body)
  BY DEF UpdateCase, IndInv, RequestInv, OrderInv, OverlayInv, Working
<1>2. PICK c \in Ids : c = CaseKey(r)
  <2>1. path \in Ids /\ asked[r].id \in {0} \cup Ids
    BY <1>1, StoreAssumption DEF Orders, Posts, Puts
  <2>2. QED
    BY <1>1, <2>1 DEF CaseKey
<1>3. /\ CaseIdFree(r, path) /\ CaseIdFree(r, c)
      /\ path \in DOMAIN cases => c \notin DOMAIN cases \ {path}
  BY <1>1, <1>2 DEF UpdateCase, KeyTaken
<1>4. TypeOK' /\ OnlyOwn(r)
  BY DEF UpdateCase, IndInv, TypeOK, OnlyOwn, Goto, tables, locals, Steps, IsTable
<1>5. pc'[r] = "commit" /\ UNCHANGED <<asked, victimId, aggressorId, cases, victims, aggressors>>
  BY DEF UpdateCase, IndInv, TypeOK, Goto, locals, tables
<1>6. txn'[r] = Writes([i \in {c : d \in matched} |-> UpdatedCase(r, path)],
                      VictimWrite(r), AggressorWrite(r), matched \ {c})
  <2> DEFINE cs == [i \in {c : d \in matched} |-> UpdatedCase(r, path)]
             ids == matched \ {c}
             old == txn[r]
             new == txn'[r]
  <2>1. new = [old EXCEPT !.cases = cs, !.gone = ids]
    BY <1>2 DEF UpdateCase, IndInv
  <2>2. old = Writes(NoRows, VictimWrite(r), AggressorWrite(r), {})
    BY <1>1
  <2> HIDE DEF cs, ids, old, new
  <2>3. new = Writes(cs, VictimWrite(r), AggressorWrite(r), ids)
    BY <2>1, <2>2 DEF Writes
  <2>4. QED
    BY <2>3 DEF cs, ids, new
<1>7. CASE path \notin DOMAIN cases
  <2>1. txn'[r].cases = NoRows /\ txn'[r].gone = {}
    <3>1. matched = {} /\ {c : d \in matched} = {}
      BY <1>7
    <3>2. [i \in {c : d \in matched} |-> UpdatedCase(r, path)] = NoRows
      BY <3>1 DEF NoRows
    <3>3. QED
      BY <1>6, <3>1, <3>2 DEF Writes
  <2>2. OrderInv(r)' /\ OverlayInv(r)'
    BY <1>1, <1>5, <1>6 DEF OrderInv, OverlayInv, Writes, VictimWrite, AggressorWrite
  <2>3. PutInv(r)'
    BY <1>1, <1>5, <2>1 DEF IndInv, RequestInv, PutInv
  <2>4. RequestInv(r)'
    BY <1>1, <1>5, <2>2, <2>3 DEF RequestInv
  <2>5. \A s \in Requests \ {r} : PairInv(r, s)'
    BY <1>1, <1>5, <2>1 DEF PairInv, Apart, CaseIdsTouched, NoRows
  <2>6. (txn = [s \in Requests |-> txn[s]])'
    BY DEF IndInv, UpdateCase
  <2>7. QED
    BY <1>4, <2>4, <2>5, <2>6, QuietStep, SerialKept DEF UpdateCase
<1>8. CASE path \in DOMAIN cases
  <2>1. /\ txn'[r].cases = CaseWrite(r, c, cases[path].victimId, cases[path].aggressorId)
        /\ txn'[r].gone = {path} \ {c}
    <3>1. matched = {path} /\ {c : d \in matched} = {c}
      BY <1>8
    <3>2. UpdatedRow(CaseFields, DefaultCase, Sent(r).case, cases[path].row)
            = Document(asked[r].body).case
      BY <1>1, UpdateEqualsInsert DEF Sent
    <3>3. [i \in {c} |-> UpdatedCase(r, path)]
            = CaseWrite(r, c, cases[path].victimId, cases[path].aggressorId)
      BY <3>2 DEF UpdatedCase, CaseWrite, Row
    <3>4. txn'[r] = Writes(CaseWrite(r, c, cases[path].victimId, cases[path].aggressorId),
                          VictimWrite(r), AggressorWrite(r), {path} \ {c})
      BY <1>6, <3>1, <3>3
    <3>5. QED
      BY <3>4 DEF Writes
  <2>2. OrderInv(r)' /\ OverlayInv(r)'
    BY <1>1, <1>5, <1>6 DEF OrderInv, OverlayInv, Writes, VictimWrite, AggressorWrite
  <2>3. PutInv(r)'
    <3>1. CaseWrite(r, c, cases[path].victimId, cases[path].aggressorId)'
            = CaseWrite(r, c, cases[path].victimId, cases[path].aggressorId)
      BY <1>5 DEF CaseWrite
    <3>2. \E d \in Ids :
             /\ d \notin DOMAIN cases' \ {asked'[r].path}
             /\ txn'[r].cases = CaseWrite(r, d, cases[asked[r].path].victimId,
                                          cases[asked[r].path].aggressorId)'
             /\ txn'[r].gone = {asked'[r].path} \ {d}
      BY <1>3, <1>5, <1>8, <2>1, <3>1
    <3>3. asked'[r].path \in DOMAIN cases'
      BY <1>5, <1>8
    <3>4. victimId'[r] \in DOMAIN victims' /\ aggressorId'[r] \in DOMAIN aggressors'
      BY <1>1, <1>5 DEF IndInv, RequestInv, PutInv
    <3>5. QED
      BY <1>5, <3>2, <3>3, <3>4 DEF PutInv
  <2>4. RequestInv(r)'
    BY <1>1, <1>5, <2>2, <2>3 DEF RequestInv
  <2>5. ASSUME NEW s \in Requests \ {r}
        PROVE  PairInv(r, s)'
    <3>1. CaseIdsTouched(r)' = {c, path}
      BY <2>1 DEF CaseIdsTouched, CaseWrite, Row
    <3>2. c \notin CaseIdsTouched(s)' /\ path \notin CaseIdsTouched(s)'
      BY <1>3, <1>4 DEF CaseIdFree, RowFree, OtherWriters, CaseIdsTouched, OnlyOwn
    <3>3. QED
      BY <1>1, <1>5, <3>1, <3>2 DEF PairInv, Apart
  <2>6. (txn = [s \in Requests |-> txn[s]])'
    BY DEF IndInv, UpdateCase
  <2>7. QED
    BY <1>4, <2>4, <2>5, <2>6, QuietStep, SerialKept DEF UpdateCase
<1>9. QED
  BY <1>7, <1>8
-----------------------------------------------------------------------------
\* COMMIT, whether or not its reply arrives.

LEMMA OverlayIsTable ==
  ASSUME NEW table, NEW rows, IsTable(table, rows), NEW i \in Ids, NEW row \in rows,
         NEW new, new = Overlay(table, Row(i, row))
  PROVE  IsTable(new, rows)
<1>1. /\ DOMAIN new = DOMAIN table \cup {i} /\ new[i] = row
      /\ \A j \in DOMAIN table \ {i} : new[j] = table[j]
      /\ new = [j \in DOMAIN new |-> new[j]]
  BY DEF Overlay, Row
<1>2. \A j \in DOMAIN table : j \in Ids /\ table[j] \in rows
  BY DEF IsTable
<1>3. \A j \in DOMAIN new : j \in Ids /\ new[j] \in rows
  BY <1>1, <1>2
<1>4. QED
  BY <1>1, <1>3 DEF IsTable

\* Case rows the transaction has not touched are as they were.
LEMMA UntouchedCases ==
  ASSUME NEW r, ApplyWrites(r), NEW i, i \notin CaseIdsTouched(r)
  PROVE  /\ i \in DOMAIN cases' <=> i \in DOMAIN cases
         /\ i \in DOMAIN cases => cases'[i] = cases[i]
BY DEF ApplyWrites, CaseIdsTouched

\* What a request that commits has written, and where.
CommitsNothing(r) ==
  txn[r].cases = NoRows /\ txn[r].gone = {}

CommitsNewCase(r, c) ==
  /\ c \in Ids \ DOMAIN cases
  /\ txn[r].cases = CaseWrite(r, c, victimId[r], aggressorId[r]) /\ txn[r].gone = {}

CommitsEdit(r, c) ==
  LET path == asked[r].path
  IN  /\ path \in DOMAIN cases /\ c \in Ids /\ c \notin DOMAIN cases \ {path}
      /\ txn[r].cases = CaseWrite(r, c, cases[path].victimId, cases[path].aggressorId)
      /\ txn[r].gone = {path} \ {c}

LEMMA CommitCases ==
  ASSUME IndInv, NEW r \in Requests, pc[r] = "commit"
  PROVE  /\ asked[r].kind \in {"POST", "PUT"} /\ asked[r].body \in Bodies
         /\ Accepted(asked[r].body)
         /\ asked[r].kind = "POST" =>
              /\ victimId[r] \in (1..serial.victims) \ DOMAIN victims
              /\ aggressorId[r] \in (1..serial.aggressors) \ DOMAIN aggressors
              /\ \E c \in Ids : CommitsNewCase(r, c)
         /\ asked[r].kind = "PUT" =>
              /\ victimId[r] \in DOMAIN victims /\ aggressorId[r] \in DOMAIN aggressors
              /\ CommitsNothing(r) \/ \E c \in Ids : CommitsEdit(r, c)
<1>1. asked[r] \in Orders /\ Accepted(asked[r].body)
  BY DEF IndInv, RequestInv, OrderInv, Working
<1>2. asked[r].kind \in {"POST", "PUT"} /\ asked[r].body \in Bodies
  BY <1>1 DEF Orders, Posts, Puts
<1>3. asked[r].kind = "POST" => PostInv(r)
  BY DEF IndInv, RequestInv
<1>4. asked[r].kind = "PUT" => PutInv(r)
  BY DEF IndInv, RequestInv
<1>5. QED
  BY <1>1, <1>2, <1>3, <1>4
     DEF PostInv, PutInv, CommitsNothing, CommitsNewCase, CommitsEdit

\* The committed rows and their domains.
LEMMA CommittedTables ==
  ASSUME IndInv, NEW r \in Requests, pc[r] = "commit", ApplyWrites(r)
  PROVE  /\ IsTable(victims, VictimRows)' /\ IsTable(aggressors, AggressorRows)'
         /\ DOMAIN victims' = DOMAIN victims \cup {victimId[r]}
         /\ DOMAIN aggressors' = DOMAIN aggressors \cup {aggressorId[r]}
<1> DEFINE doc == Document(asked[r].body)
<1>1. /\ victims' = Overlay(victims, Row(victimId[r], doc.victim))
      /\ aggressors' = Overlay(aggressors, Row(aggressorId[r], doc.aggressor))
  <2>1. txn[r] = Writes(txn[r].cases, VictimWrite(r), AggressorWrite(r), txn[r].gone)
    BY DEF IndInv, RequestInv, OverlayInv
  <2>2. txn[r].victims = VictimWrite(r) /\ txn[r].aggressors = AggressorWrite(r)
    BY <2>1 DEF Writes
  <2>3. QED
    BY <2>2 DEF ApplyWrites, VictimWrite, AggressorWrite
<1>2. doc.victim \in VictimRows /\ doc.aggressor \in AggressorRows
  BY CommitCases DEF VictimRows, AggressorRows, AcceptedBodies
<1>3. victimId[r] \in Ids /\ aggressorId[r] \in Ids
  <2>1. DOMAIN victims \subseteq Ids /\ DOMAIN aggressors \subseteq Ids
    BY DEF IndInv, TypeOK, IsTable
  <2>2. 1..serial.victims \subseteq Ids /\ 1..serial.aggressors \subseteq Ids
    BY StoreAssumption DEF IndInv, TypeOK, Ids
  <2>3. QED
    BY <2>1, <2>2, CommitCases
<1>4. IsTable(victims, VictimRows) /\ IsTable(aggressors, AggressorRows)
  BY DEF IndInv, TypeOK
<1> HIDE DEF doc
<1>5. IsTable(victims', VictimRows) /\ IsTable(aggressors', AggressorRows)
  BY <1>1, <1>2, <1>3, <1>4, OverlayIsTable
<1>6. /\ DOMAIN victims' = DOMAIN victims \cup {victimId[r]}
      /\ DOMAIN aggressors' = DOMAIN aggressors \cup {aggressorId[r]}
  BY <1>1 DEF Overlay, Row
<1>7. QED
  BY <1>5, <1>6 DEF IsTable, VictimRows, AggressorRows, AcceptedBodies

\* What has become of the cases: the created or edited one has id c.
LEMMA CommittedCases ==
  ASSUME IndInv, NEW r \in Requests, pc[r] = "commit", ApplyWrites(r)
  PROVE  /\ cases' = [i \in DOMAIN cases' |-> cases'[i]]
         /\ CommitsNothing(r) => cases' = cases
         /\ \A c \in Ids : CommitsNewCase(r, c) =>
              /\ DOMAIN cases' = DOMAIN cases \cup {c}
              /\ cases'[c].victimId = victimId[r] /\ cases'[c].aggressorId = aggressorId[r]
              /\ cases'[c].row = Document(asked[r].body).case
              /\ \A i \in DOMAIN cases : cases'[i] = cases[i]
         /\ \A c \in Ids : CommitsEdit(r, c) =>
              /\ DOMAIN cases' = (DOMAIN cases \ {asked[r].path}) \cup {c}
              /\ cases'[c].victimId = cases[asked[r].path].victimId
              /\ cases'[c].aggressorId = cases[asked[r].path].aggressorId
              /\ cases'[c].row = Document(asked[r].body).case
              /\ \A i \in DOMAIN cases \ {asked[r].path} : cases'[i] = cases[i]
<1>1. cases' = [i \in DOMAIN cases' |-> cases'[i]]
  BY DEF ApplyWrites
<1>2. CommitsNothing(r) => cases' = cases
  BY DEF ApplyWrites, CommitsNothing, NoRows, IndInv, TypeOK, IsTable
<1>3. ASSUME NEW c \in Ids, NEW v, NEW a
      PROVE  LET row == CaseWrite(r, c, v, a)[c]
             IN  /\ row.victimId = v /\ row.aggressorId = a
                 /\ row.row = Document(asked[r].body).case
  BY DEF CaseWrite, Row
<1>4. ASSUME NEW c \in Ids, CommitsNewCase(r, c)
      PROVE  /\ DOMAIN cases' = DOMAIN cases \cup {c}
             /\ cases'[c].victimId = victimId[r] /\ cases'[c].aggressorId = aggressorId[r]
             /\ cases'[c].row = Document(asked[r].body).case
             /\ \A i \in DOMAIN cases : cases'[i] = cases[i]
  <2>1. /\ DOMAIN cases' = DOMAIN cases \cup {c}
        /\ cases'[c] = CaseWrite(r, c, victimId[r], aggressorId[r])[c]
        /\ \A i \in DOMAIN cases : cases'[i] = cases[i]
    BY <1>4 DEF ApplyWrites, CommitsNewCase, CaseWrite, Row
  <2>2. QED
    BY <1>3, <2>1
<1>5. ASSUME NEW c \in Ids, CommitsEdit(r, c)
      PROVE  /\ DOMAIN cases' = (DOMAIN cases \ {asked[r].path}) \cup {c}
             /\ cases'[c].victimId = cases[asked[r].path].victimId
             /\ cases'[c].aggressorId = cases[asked[r].path].aggressorId
             /\ cases'[c].row = Document(asked[r].body).case
             /\ \A i \in DOMAIN cases \ {asked[r].path} : cases'[i] = cases[i]
  <2>1. /\ DOMAIN cases' = (DOMAIN cases \ {asked[r].path}) \cup {c}
        /\ cases'[c] = CaseWrite(r, c, cases[asked[r].path].victimId,
                                 cases[asked[r].path].aggressorId)[c]
        /\ \A i \in DOMAIN cases \ {asked[r].path} : cases'[i] = cases[i]
    BY <1>5 DEF ApplyWrites, CommitsEdit, CaseWrite, Row
  <2>2. QED
    BY <1>3, <2>1
<1>6. QED
  BY <1>1, <1>2, <1>4, <1>5

LEMMA CommittedCasesTyped ==
  ASSUME IndInv, NEW r \in Requests, pc[r] = "commit", ApplyWrites(r)
  PROVE  IsTable(cases, CaseRows)'
<1>1. Document(asked[r].body).case \in {Document(b).case : b \in AcceptedBodies}
  BY CommitCases DEF AcceptedBodies
<1>2. ASSUME NEW c \in Ids, NEW v \in Ids, NEW a \in Ids
      PROVE  CaseWrite(r, c, v, a)[c] \in CaseRows
  BY <1>1 DEF CaseWrite, Row, CaseRows
<1>3. DOMAIN cases \subseteq Ids /\ \A i \in DOMAIN cases : cases[i] \in CaseRows
  BY DEF IndInv, TypeOK, IsTable
<1>4. \A i \in DOMAIN cases : cases[i].victimId \in Ids /\ cases[i].aggressorId \in Ids
  BY <1>3 DEF CaseRows
<1>5. CASE CommitsNothing(r)
  BY <1>5, CommittedCases DEF IndInv, TypeOK, IsTable, CaseRows, AcceptedBodies
<1>6. ASSUME NEW c \in Ids, CommitsNewCase(r, c)
      PROVE  /\ DOMAIN cases' \subseteq Ids
             /\ \A i \in DOMAIN cases' : cases'[i] \in CaseRows
  <2>1. victimId[r] \in Ids /\ aggressorId[r] \in Ids
    <3>1. DOMAIN victims' \subseteq Ids /\ DOMAIN aggressors' \subseteq Ids
      BY CommittedTables DEF IsTable
    <3>2. QED
      BY <3>1, CommittedTables
  <2>2. cases'[c] = CaseWrite(r, c, victimId[r], aggressorId[r])[c]
    BY <1>6 DEF ApplyWrites, CommitsNewCase, CaseWrite, Row
  <2>3. cases'[c] \in CaseRows
    BY <1>2, <2>1, <2>2
  <2>4. DOMAIN cases' = DOMAIN cases \cup {c} /\ \A i \in DOMAIN cases : cases'[i] = cases[i]
    BY <1>6, CommittedCases
  <2>5. QED
    BY <1>3, <2>3, <2>4
<1>7. ASSUME NEW c \in Ids, CommitsEdit(r, c)
      PROVE  /\ DOMAIN cases' \subseteq Ids
             /\ \A i \in DOMAIN cases' : cases'[i] \in CaseRows
  <2>1. cases'[c] = CaseWrite(r, c, cases[asked[r].path].victimId,
                             cases[asked[r].path].aggressorId)[c]
    BY <1>7 DEF ApplyWrites, CommitsEdit, CaseWrite, Row
  <2>2. asked[r].path \in DOMAIN cases
    BY <1>7 DEF CommitsEdit
  <2>3. cases'[c] \in CaseRows
    BY <1>2, <1>4, <2>1, <2>2
  <2>4. /\ DOMAIN cases' = (DOMAIN cases \ {asked[r].path}) \cup {c}
        /\ \A i \in DOMAIN cases \ {asked[r].path} : cases'[i] = cases[i]
    BY <1>7, CommittedCases
  <2>5. QED
    BY <1>3, <2>3, <2>4
<1>8. CASE DOMAIN cases' \subseteq Ids /\ \A i \in DOMAIN cases' : cases'[i] \in CaseRows
  <2>1. cases' = [i \in DOMAIN cases' |-> cases'[i]]
    BY CommittedCases
  <2>2. IsTable(cases', CaseRows)
    BY <1>8, <2>1 DEF IsTable
  <2>3. QED
    BY <2>2 DEF IsTable, CaseRows, AcceptedBodies
<1>9. QED
  BY <1>5, <1>6, <1>7, <1>8, CommitCases

LEMMA CommitKeepsPairs ==
  ASSUME IndInv, NEW r \in Requests, pc[r] = "commit", ApplyWrites(r)
  PROVE  OneToOne' /\ NoOrphans'
<1>1. /\ DOMAIN victims' = DOMAIN victims \cup {victimId[r]}
      /\ DOMAIN aggressors' = DOMAIN aggressors \cup {aggressorId[r]}
  BY CommittedTables
<1>2. OneToOne /\ NoOrphans
  BY DEF IndInv
<1>3. CASE asked[r].kind = "POST"
  <2>1. PICK c \in Ids : CommitsNewCase(r, c)
    BY <1>3, CommitCases
  <2>2. /\ c \notin DOMAIN cases /\ DOMAIN cases' = DOMAIN cases \cup {c}
        /\ cases'[c].victimId = victimId[r] /\ cases'[c].aggressorId = aggressorId[r]
        /\ \A i \in DOMAIN cases : cases'[i] = cases[i]
    BY <2>1, CommittedCases DEF CommitsNewCase
  <2>3. victimId[r] \notin DOMAIN victims /\ aggressorId[r] \notin DOMAIN aggressors
    BY <1>3, CommitCases
  <2>4. OneToOne'
    BY <1>1, <1>2, <2>2, <2>3 DEF OneToOne
  <2>5. NoOrphans'
    BY <1>1, <1>2, <2>2 DEF NoOrphans
  <2>6. QED
    BY <2>4, <2>5
<1>4. CASE asked[r].kind = "PUT"
  <2>1. DOMAIN victims' = DOMAIN victims /\ DOMAIN aggressors' = DOMAIN aggressors
    BY <1>1, <1>4, CommitCases
  <2>2. CASE CommitsNothing(r)
    BY <1>2, <2>1, <2>2, CommittedCases DEF OneToOne, NoOrphans
  <2>3. ASSUME NEW c \in Ids, CommitsEdit(r, c)
        PROVE  OneToOne' /\ NoOrphans'
    <3> DEFINE path == asked[r].path
    <3>1. /\ path \in DOMAIN cases /\ c \notin DOMAIN cases \ {path}
          /\ DOMAIN cases' = (DOMAIN cases \ {path}) \cup {c}
          /\ cases'[c].victimId = cases[path].victimId
          /\ cases'[c].aggressorId = cases[path].aggressorId
          /\ \A i \in DOMAIN cases \ {path} : cases'[i] = cases[i]
      BY <2>3, CommittedCases DEF CommitsEdit
    <3> HIDE DEF path
    <3>2. OneToOne'
      BY <1>2, <2>1, <3>1 DEF OneToOne
    <3>3. NoOrphans'
      BY <1>2, <2>1, <3>1 DEF NoOrphans
    <3>4. QED
      BY <3>2, <3>3
  <2>4. QED
    BY <1>4, <2>2, <2>3, CommitCases
<1>5. QED
  BY <1>3, <1>4, CommitCases

\* Another request's ids are still its own once r has committed.
LEMMA CommitKeepsOthers ==
  ASSUME IndInv, NEW r \in Requests, pc[r] = "commit", ApplyWrites(r), OnlyOwn(r),
         UNCHANGED serial,
         NEW s \in Requests \ {r}
  PROVE  RequestInv(s)'
<1>1. RequestInv(s) /\ PairInv(r, s)
  BY DEF IndInv
<1>2. /\ asked'[s] = asked[s] /\ pc'[s] = pc[s] /\ txn'[s] = txn[s]
      /\ victimId'[s] = victimId[s] /\ aggressorId'[s] = aggressorId[s]
  BY DEF OnlyOwn
<1>3. /\ DOMAIN victims' = DOMAIN victims \cup {victimId[r]}
      /\ DOMAIN aggressors' = DOMAIN aggressors \cup {aggressorId[r]}
  BY CommittedTables
<1>4. \A i \in CaseIdsTouched(s) :
        /\ i \in DOMAIN cases' <=> i \in DOMAIN cases
        /\ i \in DOMAIN cases => cases'[i] = cases[i]
  BY <1>1, UntouchedCases DEF PairInv
<1>5. OrderInv(s)' /\ OverlayInv(s)'
  BY <1>1, <1>2 DEF RequestInv, OrderInv, OverlayInv, VictimWrite, AggressorWrite
<1>6. ASSUME pc[s] # "idle", asked[s].kind = "POST"
      PROVE  PostInv(s)'
  <2>1. PostInv(s)
    BY <1>1, <1>6 DEF RequestInv
  <2>2. /\ pc[s] \in {"aggressor", "case", "commit"} => victimId[s] \notin DOMAIN victims'
        /\ pc[s] \in {"case", "commit"} => aggressorId[s] \notin DOMAIN aggressors'
    <3>1. CASE asked[r].kind = "PUT"
      BY <1>3, <2>1, <3>1, CommitCases DEF PostInv
    <3>2. CASE asked[r].kind = "POST"
      <4>1. asked[r] # NoOrder /\ asked[s] # NoOrder
        BY <1>1, <1>6, OrdersAssumption DEF IndInv, RequestInv, OrderInv
      <4>2. /\ pc[s] \in {"aggressor", "case", "commit"} => victimId[s] # victimId[r]
            /\ pc[s] \in {"case", "commit"} => aggressorId[s] # aggressorId[r]
        BY <1>1, <1>6, <3>2, <4>1 DEF PairInv, Apart
      <4>3. QED
        BY <1>3, <2>1, <4>2 DEF PostInv
    <3>3. QED
      BY <3>1, <3>2, CommitCases
  <2>3. ASSUME pc[s] = "commit"
        PROVE  \E c \in Ids \ DOMAIN cases' :
                 txn'[s].cases = CaseWrite(s, c, victimId[s], aggressorId[s])'
    <3>1. PICK c \in Ids \ DOMAIN cases :
            txn[s].cases = CaseWrite(s, c, victimId[s], aggressorId[s])
      BY <2>1, <2>3 DEF PostInv
    <3>2. c \in CaseIdsTouched(s)
      BY <3>1 DEF CaseIdsTouched, CaseWrite, Row
    <3>3. c \notin DOMAIN cases'
      BY <1>4, <3>2
    <3>4. QED
      BY <1>2, <3>1, <3>3 DEF CaseWrite
  <2>4. QED
    BY <1>2, <2>1, <2>2, <2>3 DEF PostInv
<1>7. ASSUME pc[s] # "idle", asked[s].kind = "PUT"
      PROVE  PutInv(s)'
  <2>1. PutInv(s)
    BY <1>1, <1>7 DEF RequestInv
  <2>2. ASSUME pc[s] = "commit"
        PROVE  (CommitsNothing(s) \/ \E c \in Ids : CommitsEdit(s, c))'
    <3>1. CASE CommitsNothing(s)
      BY <1>2, <3>1 DEF CommitsNothing
    <3>2. ASSUME NEW c \in Ids, CommitsEdit(s, c)
          PROVE  CommitsEdit(s, c)'
      <4> DEFINE path == asked[s].path
      <4>1. /\ path \in DOMAIN cases /\ c \notin DOMAIN cases \ {path}
            /\ txn[s].cases = CaseWrite(s, c, cases[path].victimId, cases[path].aggressorId)
            /\ txn[s].gone = {path} \ {c}
        BY <3>2 DEF CommitsEdit
      <4>2. c \in CaseIdsTouched(s) /\ path \in CaseIdsTouched(s)
        BY <4>1 DEF CaseIdsTouched, CaseWrite, Row
      <4>3. /\ path \in DOMAIN cases' /\ cases'[path] = cases[path]
            /\ c \notin DOMAIN cases' \ {path}
        BY <1>4, <4>1, <4>2
      <4>4. CaseWrite(s, c, cases[path].victimId, cases[path].aggressorId)'
              = CaseWrite(s, c, cases[path].victimId, cases[path].aggressorId)
        BY <1>2, <4>3 DEF CaseWrite
      <4>5. QED
        BY <1>2, <4>1, <4>3, <4>4 DEF CommitsEdit
    <3>3. QED
      BY <1>1, <1>7, <2>2, <3>1, <3>2, CommitCases
  <2>3. QED
    BY <1>2, <1>3, <2>1, <2>2 DEF PutInv, CommitsNothing, CommitsEdit
<1>8. QED
  BY <1>2, <1>5, <1>6, <1>7 DEF RequestInv

LEMMA CommitStep ==
  ASSUME IndInv, NEW r \in Requests, Commit(r) \/ CommitUnconfirmed(r)
  PROVE  IndInv'
<1>1. /\ pc[r] = "commit" /\ ApplyWrites(r) /\ UNCHANGED <<serial, asked, locals>>
      /\ pc'[r] \in {"committed", "answered"} /\ txn'[r] = NoWrites
      /\ txn' = [s \in Requests |-> txn'[s]]
  BY DEF IndInv, TypeOK, Commit, CommitUnconfirmed, Goto, Finish, ApplyWrites
<1>2. OnlyOwn(r)
  BY DEF IndInv, TypeOK, OnlyOwn, Commit, CommitUnconfirmed, Goto, Finish, ApplyWrites, locals
<1>3. TypeOK'
  <2>1. IsTable(cases, CaseRows)' /\ IsTable(victims, VictimRows)'
        /\ IsTable(aggressors, AggressorRows)'
    BY <1>1, CommittedTables, CommittedCasesTyped
  <2>2. pc' \in [Requests -> Steps] /\ status' \in [Requests -> Statuses]
    BY DEF IndInv, TypeOK, Commit, CommitUnconfirmed, Goto, Finish, Steps, Statuses
  <2>3. effect' \in [Requests -> BOOLEAN]
    BY <1>1 DEF IndInv, TypeOK, ApplyWrites
  <2>4. QED
    BY <1>1, <2>1, <2>2, <2>3 DEF IndInv, TypeOK, locals
<1>4. SerialInv'
  <2>1. victimId[r] \in 1..serial.victims /\ aggressorId[r] \in 1..serial.aggressors
    BY <1>1, CommitCases DEF IndInv, SerialInv
  <2>2. QED
    BY <1>1, <2>1, CommittedTables DEF IndInv, SerialInv
<1>5. OneToOne' /\ NoOrphans'
  BY <1>1, CommitKeepsPairs
<1>6. \A s \in Requests : RequestInv(s)'
  <2>1. OrderInv(r) /\ asked'[r] = asked[r]
    BY <1>1 DEF IndInv, RequestInv
  <2>2. RequestInv(r)'
    BY <1>1, <2>1 DEF RequestInv, OrderInv, OverlayInv, PostInv, PutInv, Working
  <2>3. QED
    BY <1>1, <1>2, <2>2, CommitKeepsOthers
<1>7. ASSUME NEW s \in Requests, NEW t \in Requests, s # t
      PROVE  PairInv(s, t)'
  <2>1. CaseIdsTouched(r)' = {}
    BY <1>1 DEF CaseIdsTouched, NoWrites, NoRows
  <2>2. CASE s = r \/ t = r
    BY <1>1, <2>1, <2>2 DEF PairInv, Apart
  <2>3. CASE s # r /\ t # r
    BY <1>2, <1>7, <2>3 DEF IndInv, PairInv, Apart, CaseIdsTouched, OnlyOwn
  <2>4. QED
    BY <2>2, <2>3
<1>8. QED
  BY <1>1, <1>3, <1>4, <1>5, <1>6, <1>7 DEF IndInv

-----------------------------------------------------------------------------
\* IndInv holds initially and every step keeps it.

LEMMA InitInv == Init => IndInv
<1> SUFFICES ASSUME Init PROVE IndInv
  OBVIOUS
<1>1. TypeOK
  BY StoreAssumption DEF Init, TypeOK, IsTable, NoRows, Steps, Statuses
<1>2. SerialInv /\ OneToOne /\ NoOrphans
  BY DEF Init, SerialInv, OneToOne, NoOrphans, NoRows
<1>3. \A r \in Requests : RequestInv(r)
  BY DEF Init, RequestInv, OrderInv, OverlayInv, Working
<1>4. \A r, s \in Requests : PairInv(r, s)
  BY DEF Init, PairInv, Apart, CaseIdsTouched, NoWrites, NoRows
<1>5. QED
  BY <1>1, <1>2, <1>3, <1>4 DEF IndInv, Init

LEMMA NextInv == IndInv /\ [Next]_vars => IndInv'
<1> SUFFICES ASSUME IndInv, [Next]_vars PROVE IndInv'
  OBVIOUS
<1>1. CASE UNCHANGED vars
  <2>1. TypeOK' /\ SerialInv' /\ OneToOne' /\ NoOrphans'
    BY <1>1 DEF IndInv, vars, tables, locals, TypeOK, IsTable, SerialInv, OneToOne, NoOrphans
  <2>2. \A r \in Requests : RequestInv(r)'
    BY <1>1 DEF IndInv, vars, tables, locals, RequestInv, OrderInv, OverlayInv, PostInv,
                PutInv, VictimWrite, AggressorWrite, CaseWrite
  <2>3. \A r, s \in Requests : r # s => PairInv(r, s)'
    BY <1>1 DEF IndInv, vars, locals, PairInv, Apart, CaseIdsTouched
  <2>4. QED
    BY <1>1, <2>1, <2>2, <2>3 DEF IndInv, vars
<1>2. ASSUME NEW r \in Requests, NEW q \in Orders, Receive(r, q)
      PROVE  IndInv'
  BY <1>2, ReceiveStep
<1>3. ASSUME NEW r \in Requests, Progress(r)
      PROVE  IndInv'
  BY <1>3, LookupStep, BeginStep, InsertVictimStep, InsertAggressorStep, InsertCaseStep,
     UpdateVictimStep, UpdateAggressorStep, UpdateCaseStep, StatementRefusedStep,
     CommitStep, AnswerStep
     DEF Progress
<1>4. ASSUME NEW r \in Requests, Failure(r)
      PROVE  IndInv'
  BY <1>4, PoolTimeoutStep, FailureSteps, CommitStep DEF Failure
<1>5. QED
  BY <1>1, <1>2, <1>3, <1>4 DEF Next

LEMMA Invariance == Spec => []IndInv
  BY InitInv, NextInv, PTL DEF Spec

(***************************************************************************)
(* Every row in the tables is the whole row of a body the validators       *)
(* accepted, and every handler's local state is well formed, for any       *)
(* number of concurrent POST and PUT /v1/cases.                            *)
(***************************************************************************)
THEOREM TypeCorrect == Spec => []TypeOK
<1>1. IndInv => TypeOK
  BY DEF IndInv
<1>2. QED
  BY <1>1, Invariance, PTL

(***************************************************************************)
(* "victim/aggressor are 1:1 with case" (src/routers/cases.js:426): no     *)
(* interleaving of creates and edits, with or without a case id in the     *)
(* body, makes two cases share a victim or an aggressor, or leaves a case  *)
(* without one.                                                            *)
(***************************************************************************)
THEOREM CasesOneToOne == Spec => []OneToOne
<1>1. IndInv => OneToOne
  BY DEF IndInv
<1>2. QED
  BY <1>1, Invariance, PTL

(***************************************************************************)
(* No failure of the handlers of POST and PUT /v1/cases leaves a victim or *)
(* an aggressor without its case.                                          *)
(***************************************************************************)
THEOREM NoOrphanRows == Spec => []NoOrphans
<1>1. IndInv => NoOrphans
  BY DEF IndInv
<1>2. QED
  BY <1>1, Invariance, PTL

-----------------------------------------------------------------------------
(***************************************************************************)
(* Where bodies carry no id but the path's, an edit gives its case no      *)
(* other id, and a case keeps its victim and its aggressor for ever.  So   *)
(* what an edit has looked up stays true until it is answered.             *)
(***************************************************************************)
Edit(r) == asked[r].kind = "PUT"

GivesNoOtherId(r) == pc[r] = "commit" /\ Edit(r) => txn[r].gone = {}

Looked == {"begin", "victim", "aggressor", "case", "commit"}

StillTrue(r) ==
  pc[r] \in Looked /\ Edit(r) =>
    /\ asked[r].path \in DOMAIN cases
    /\ cases[asked[r].path].victimId = victimId[r]
    /\ cases[asked[r].path].aggressorId = aggressorId[r]

KeptInv == \A r \in Requests : GivesNoOtherId(r) /\ StillTrue(r)

CasesKept ==
  \A c \in DOMAIN cases :
    /\ c \in DOMAIN cases'
    /\ cases'[c].victimId = cases[c].victimId
    /\ cases'[c].aggressorId = cases[c].aggressorId

LEMMA CommitKeepsCases ==
  ASSUME IndInv, KeptInv, NEW r \in Requests, Commit(r) \/ CommitUnconfirmed(r)
  PROVE  CasesKept
<1>1. pc[r] = "commit" /\ ApplyWrites(r)
  BY DEF Commit, CommitUnconfirmed
<1>2. CASE asked[r].kind = "POST"
  <2>1. PICK c \in Ids : CommitsNewCase(r, c)
    BY <1>1, <1>2, CommitCases
  <2> QED BY <1>1, <2>1, CommittedCases DEF CasesKept
<1>3. CASE Edit(r)
  <2>1. CASE CommitsNothing(r)
    BY <1>1, <2>1, CommittedCases DEF CasesKept
  <2>2. ASSUME NEW c \in Ids, CommitsEdit(r, c)
        PROVE  CasesKept
    <3>1. c = asked[r].path
      BY <1>1, <1>3, <2>2 DEF CommitsEdit, KeptInv, GivesNoOtherId
    <3>2. c \in DOMAIN cases
      BY <2>2, <3>1 DEF CommitsEdit
    <3>3. /\ DOMAIN cases' = (DOMAIN cases \ {c}) \cup {c}
          /\ cases'[c].victimId = cases[c].victimId
          /\ cases'[c].aggressorId = cases[c].aggressorId
          /\ \A i \in DOMAIN cases \ {c} : cases'[i] = cases[i]
      BY <1>1, <2>2, <3>1, CommittedCases
    <3> QED BY <3>2, <3>3 DEF CasesKept
  <2> QED BY <1>1, <1>3, <2>1, <2>2, CommitCases DEF Edit
<1> QED BY <1>1, <1>2, <1>3, CommitCases DEF Edit

\* A step of r, seen by every request.
LEMMA KeptStep ==
  ASSUME KeptInv, NEW r \in Requests, OnlyOwn(r), CasesKept,
         GivesNoOtherId(r)', StillTrue(r)'
  PROVE  KeptInv'
<1>1. ASSUME NEW s \in Requests \ {r}
      PROVE  GivesNoOtherId(s)' /\ StillTrue(s)'
  BY <1>1 DEF KeptInv, OnlyOwn, CasesKept, GivesNoOtherId, StillTrue, Edit
<1> QED BY <1>1 DEF KeptInv

\* What an edit holds is true after a step that leaves it as it is.
LEMMA StaysTrue ==
  ASSUME KeptInv, NEW r \in Requests, CasesKept, pc[r] \in Looked,
         asked'[r] = asked[r], victimId'[r] = victimId[r], aggressorId'[r] = aggressorId[r]
  PROVE  StillTrue(r)'
BY DEF KeptInv, CasesKept, StillTrue, Edit

LEMMA SameCases == UNCHANGED cases => CasesKept
  BY DEF CasesKept

\* A request that has ended, or has not begun its edit, holds nothing.
LEMMA HoldsNothing ==
  ASSUME NEW r \in Requests, pc'[r] \notin Looked
  PROVE  StillTrue(r)' /\ GivesNoOtherId(r)'
BY DEF StillTrue, GivesNoOtherId, Looked

LEMMA KeptNext ==
  ASSUME ForeignIds = {}, IndInv, KeptInv, [Next]_vars
  PROVE  KeptInv'
<1>1. CASE UNCHANGED vars
  BY <1>1 DEF vars, tables, locals, KeptInv, GivesNoOtherId, StillTrue, Edit
<1>2. ASSUME NEW r \in Requests, NEW q \in Orders, Receive(r, q)
      PROVE  KeptInv'
  <2>1. OnlyOwn(r) /\ CasesKept
    BY <1>2, SameCases DEF Receive, IndInv, TypeOK, OnlyOwn, Finish, Goto, tables, locals
  <2>2. /\ asked'[r] = q /\ pc'[r] # "commit"
        /\ pc'[r] \in Looked => q.kind = "POST"
    BY <1>2 DEF Receive, IndInv, TypeOK, Finish, Goto, Orders, Posts, Puts, Looked
  <2>3. StillTrue(r)' /\ GivesNoOtherId(r)'
    BY <2>2 DEF StillTrue, GivesNoOtherId, Edit
  <2> QED BY <2>1, <2>3, KeptStep
<1>3. ASSUME NEW r \in Requests,
             \/ Answer(r) \/ StatementRefused(r) \/ PoolTimeout(r)
             \/ StatementFails(r) \/ Lose(r)
      PROVE  KeptInv'
  <2>1. OnlyOwn(r) /\ CasesKept /\ pc'[r] = "answered"
    BY <1>3, SameCases DEF Answer, StatementRefused, PoolTimeout, StatementFails, Lose, IndInv,
       TypeOK, OnlyOwn, Finish, Goto, tables, locals
  <2>2. StillTrue(r)' /\ GivesNoOtherId(r)'
    BY <2>1, HoldsNothing DEF Looked
  <2> QED BY <2>1, <2>2, KeptStep
<1>4. ASSUME NEW r \in Requests, Commit(r) \/ CommitUnconfirmed(r)
      PROVE  KeptInv'
  <2>1. OnlyOwn(r) /\ pc'[r] \in {"committed", "answered"}
    BY <1>4 DEF Commit, CommitUnconfirmed, ApplyWrites, IndInv, TypeOK, OnlyOwn, Finish, Goto,
       locals
  <2>2. StillTrue(r)' /\ GivesNoOtherId(r)'
    BY <2>1, HoldsNothing DEF Looked
  <2> QED BY <1>4, <2>1, <2>2, KeptStep, CommitKeepsCases
<1>5. ASSUME NEW r \in Requests, Lookup(r)
      PROVE  KeptInv'
  <2>1. OnlyOwn(r) /\ CasesKept
    BY <1>5, SameCases DEF Lookup, IndInv, TypeOK, OnlyOwn, Finish, Goto, tables, locals
  <2>2. StillTrue(r)' /\ GivesNoOtherId(r)'
    BY <1>5 DEF Lookup, VictimOf, IndInv, TypeOK, Finish, Goto, tables, locals, StillTrue,
       GivesNoOtherId, Looked
  <2> QED BY <2>1, <2>2, KeptStep
<1>6. ASSUME NEW r \in Requests, Begin(r) \/ UpdateVictim(r) \/ UpdateAggressor(r)
      PROVE  KeptInv'
  <2>1. OnlyOwn(r) /\ CasesKept
    BY <1>6, SameCases DEF Begin, UpdateVictim, UpdateAggressor, IndInv, TypeOK, OnlyOwn, Goto,
       tables, locals
  <2>2. /\ pc[r] \in Looked /\ pc'[r] # "commit" /\ asked'[r] = asked[r]
        /\ victimId'[r] = victimId[r] /\ aggressorId'[r] = aggressorId[r]
    BY <1>6 DEF Begin, UpdateVictim, UpdateAggressor, IndInv, TypeOK, Goto, locals, Looked
  <2>3. StillTrue(r)' /\ GivesNoOtherId(r)'
    BY <2>1, <2>2, StaysTrue DEF GivesNoOtherId
  <2> QED BY <2>1, <2>3, KeptStep
<1>7. ASSUME NEW r \in Requests, UpdateCase(r)
      PROVE  KeptInv'
  <2>1. OnlyOwn(r) /\ CasesKept
    BY <1>7, SameCases DEF UpdateCase, IndInv, TypeOK, OnlyOwn, Goto, tables, locals
  <2>2. /\ pc[r] \in Looked /\ pc[r] \in Working /\ asked'[r] = asked[r]
        /\ victimId'[r] = victimId[r] /\ aggressorId'[r] = aggressorId[r]
    BY <1>7 DEF UpdateCase, locals, Looked, Working
  <2>3. CaseKey(r) = asked[r].path
    <3>1. asked[r] \in Orders /\ asked[r].kind = "PUT"
      BY <1>7, <2>2 DEF UpdateCase, IndInv, RequestInv, OrderInv, Working
    <3>2. asked[r].id \in {0, asked[r].path}
      BY <3>1 DEF Orders, Posts, Puts
    <3> QED BY <3>1, <3>2 DEF CaseKey
  <2>4. txn'[r].gone = {}
    <3>1. txn[r] = NoWrites \/ txn[r] = Writes(NoRows, VictimWrite(r), AggressorWrite(r), {})
      BY <1>7 DEF UpdateCase, IndInv, RequestInv, OverlayInv
    <3>2. "gone" \in DOMAIN txn[r]
      BY <3>1 DEF NoWrites, Writes
    <3> QED BY <1>7, <2>3, <3>2 DEF UpdateCase, IndInv
  <2>5. StillTrue(r)' /\ GivesNoOtherId(r)'
    BY <2>1, <2>2, <2>4, StaysTrue DEF GivesNoOtherId
  <2> QED BY <2>1, <2>5, KeptStep
<1>8. ASSUME NEW r \in Requests, InsertVictim(r) \/ InsertAggressor(r) \/ InsertCase(r)
      PROVE  KeptInv'
  <2>1. OnlyOwn(r) /\ CasesKept
    BY <1>8, SameCases DEF InsertVictim, InsertAggressor, InsertCase, NextSerial, IndInv, TypeOK,
       OnlyOwn, Goto, tables, locals
  <2>2. asked'[r] = asked[r] /\ asked[r].kind = "POST"
    BY <1>8 DEF InsertVictim, InsertAggressor, InsertCase, locals
  <2>3. StillTrue(r)' /\ GivesNoOtherId(r)'
    BY <2>2 DEF StillTrue, GivesNoOtherId, Edit
  <2> QED BY <2>1, <2>3, KeptStep
<1> QED
  BY <1>1, <1>2, <1>3, <1>4, <1>5, <1>6, <1>7, <1>8 DEF Next, Progress, Failure

(***************************************************************************)
(* The ids PUT /v1/cases/{caseId} reads before its transaction are still   *)
(* those of the case when it writes with them, for any number of creates   *)
(* and edits at once, if no body carries an id of another case.            *)
(***************************************************************************)
THEOREM LookupsStayTrue ==
  ASSUME ForeignIds = {}
  PROVE  Spec => []LookupStillHolds
<1>1. Init => KeptInv
  BY DEF Init, KeptInv, GivesNoOtherId, StillTrue, Looked
<1>2. IndInv /\ KeptInv /\ [Next]_vars => KeptInv'
  BY KeptNext
<1>3. KeptInv => LookupStillHolds
  BY DEF KeptInv, StillTrue, Looked, Edit, LookupStillHolds
<1>4. QED
  BY <1>1, <1>2, <1>3, Invariance, PTL DEF Spec
=============================================================================
