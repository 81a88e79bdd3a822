---------------------------- MODULE CaseStoreProps ----------------------------
(***************************************************************************)
(* What CaseStore must never break.                                        *)
(***************************************************************************)
EXTENDS CaseStore

Steps == {"idle", "lookup", "begin", "victim", "aggressor", "case", "commit",
          "committed", "answered"}
Statuses == {"none", "201", "204", "404", "422", "500", "lost"}

\* A case as GET /v1/cases/{caseId} joins it, in one statement.
Joined(c) ==
  [ case      |-> cases[c].row,
    victim    |-> victims[cases[c].victimId],
    aggressor |-> aggressors[cases[c].aggressorId] ]

AcceptedBodies == {b \in Bodies : Accepted(b)}

VictimRows == {Document(b).victim : b \in AcceptedBodies}
AggressorRows == {Document(b).aggressor : b \in AcceptedBodies}
CaseRows ==
  [victimId : Ids, aggressorId : Ids, row : {Document(b).case : b \in AcceptedBodies}]

IsTable(table, rows) == DOMAIN table \subseteq Ids /\ table \in [DOMAIN table -> rows]

\* Every stored row is the whole row of some accepted body, whether it was
\* inserted or updated.
TypeOK ==
  /\ IsTable(cases, CaseRows)
  /\ IsTable(victims, VictimRows)
  /\ IsTable(aggressors, AggressorRows)
  /\ serial \in [{"cases", "victims", "aggressors"} -> 0..MaxId]
  /\ asked \in [Requests -> Orders \cup {NoOrder}]
  /\ pc \in [Requests -> Steps]
  /\ victimId \in [Requests -> 0..MaxId]
  /\ aggressorId \in [Requests -> 0..MaxId]
  /\ status \in [Requests -> Statuses]
  /\ effect \in [Requests -> BOOLEAN]

\* "victim/aggressor are 1:1 with case" (src/routers/cases.js:426), which the
\* statistics and the list rely on when they join: no two cases share a row, and
\* every case has its two rows, whatever interleaving of creates and updates.
OneToOne ==
  /\ \A c \in DOMAIN cases : /\ cases[c].victimId \in DOMAIN victims
                             /\ cases[c].aggressorId \in DOMAIN aggressors
  /\ \A c, d \in DOMAIN cases : c # d => /\ cases[c].victimId # cases[d].victimId
                                         /\ cases[c].aggressorId # cases[d].aggressorId

\* A create that fails, times out, or loses its instance half way leaves no
\* victim or aggressor behind without a case.
NoOrphans ==
  /\ \A v \in DOMAIN victims : \E c \in DOMAIN cases : cases[c].victimId = v
  /\ \A a \in DOMAIN aggressors : \E c \in DOMAIN cases : cases[c].aggressorId = a

\* The ids PUT reads before its transaction are still those of the case when it
\* writes with them, although nothing locks the case in between.
LookupStillHolds ==
  \A r \in Requests :
    /\ pc[r] \in {"begin", "victim", "aggressor", "case", "commit"}
    /\ asked[r].kind = "PUT"
    =>
        /\ asked[r].path \in DOMAIN cases
        /\ cases[asked[r].path].victimId = victimId[r]
        /\ cases[asked[r].path].aggressorId = aggressorId[r]

\* The id of a case is read-only (src/openapi/schemas/case.js:21): a case that
\* was given an id keeps it.
CaseIdsNeverChange == [][DOMAIN cases \subseteq DOMAIN cases']_vars

\* The tables, seen through the join, are a registry of whole documents in which
\* every request takes effect at most once, at one instant, and is answered
\* accordingly.
Registered == [c \in DOMAIN cases |-> Joined(c)]

Registry == INSTANCE CaseRegistry WITH registry <- Registered, CaseIds <- Ids

ImplementsRegistry == Registry!Spec

\* Every request that arrives is answered, if only by a failure: the waits for
\* rows and for connections always end.
EveryRequestIsAnswered ==
  \A r \in Requests : pc[r] # "idle" ~> pc[r] = "answered"

-----------------------------------------------------------------------------
(***************************************************************************)
(* The inductive invariant.  The overlay of a transaction is determined by *)
(* how far its handler has come; the ids it drew from a sequence are below *)
(* the sequence, in no table and in no other transaction; the ids it       *)
(* looked up stay in their tables; and a case row it has written, or whose *)
(* id it is taking, is no other transaction's.                             *)
(***************************************************************************)
Working == {"lookup", "begin", "victim", "aggressor", "case", "commit", "committed"}

Writes(cs, vs, as, ids) == [cases |-> cs, victims |-> vs, aggressors |-> as, gone |-> ids]

VictimWrite(r) == Row(victimId[r], Document(asked[r].body).victim)
AggressorWrite(r) == Row(aggressorId[r], Document(asked[r].body).aggressor)
CaseWrite(r, c, v, a) ==
  Row(c, [victimId |-> v, aggressorId |-> a, row |-> Document(asked[r].body).case])

OrderInv(r) ==
  /\ pc[r] # "idle" => asked[r] \in Orders
  /\ pc[r] \in Working => Accepted(asked[r].body)
  /\ pc[r] = "lookup" => asked[r].kind = "PUT"

OverlayInv(r) ==
  /\ pc[r] = "aggressor" => txn[r] = Writes(NoRows, VictimWrite(r), NoRows, {})
  /\ pc[r] = "case" => txn[r] = Writes(NoRows, VictimWrite(r), AggressorWrite(r), {})
  /\ pc[r] = "commit" =>
       txn[r] = Writes(txn[r].cases, VictimWrite(r), AggressorWrite(r), txn[r].gone)
  /\ pc[r] \notin {"aggressor", "case", "commit"} => txn[r] = NoWrites

PostInv(r) ==
  /\ pc[r] \in {"aggressor", "case", "commit"} =>
       victimId[r] \in (1..serial.victims) \ DOMAIN victims
  /\ pc[r] \in {"case", "commit"} =>
       aggressorId[r] \in (1..serial.aggressors) \ DOMAIN aggressors
  /\ pc[r] = "commit" =>
       /\ txn[r].gone = {}
       /\ \E c \in Ids \ DOMAIN cases :
            txn[r].cases = CaseWrite(r, c, victimId[r], aggressorId[r])

PutInv(r) ==
  /\ pc[r] \in {"begin", "victim", "aggressor", "case", "commit"} =>
       victimId[r] \in DOMAIN victims /\ aggressorId[r] \in DOMAIN aggressors
  /\ pc[r] = "commit" =>
       \/ txn[r].cases = NoRows /\ txn[r].gone = {}
       \/ LET path == asked[r].path
          IN  /\ path \in DOMAIN cases
              /\ \E c \in Ids :
                   /\ c \notin DOMAIN cases \ {path}
                   /\ txn[r].cases = CaseWrite(r, c, cases[path].victimId,
                                               cases[path].aggressorId)
                   /\ txn[r].gone = {path} \ {c}

RequestInv(r) ==
  /\ OrderInv(r)
  /\ OverlayInv(r)
  /\ pc[r] # "idle" /\ asked[r].kind = "POST" => PostInv(r)
  /\ pc[r] # "idle" /\ asked[r].kind = "PUT" => PutInv(r)

\* r and s are creates that have drawn an id for a victim (an aggressor).
Apart(r, s) ==
  /\ asked[r] # NoOrder /\ asked[r].kind = "POST"
  /\ asked[s] # NoOrder /\ asked[s].kind = "POST"
  => /\ {pc[r], pc[s]} \subseteq {"aggressor", "case", "commit"} => victimId[r] # victimId[s]
     /\ {pc[r], pc[s]} \subseteq {"case", "commit"} => aggressorId[r] # aggressorId[s]

CaseIdsTouched(r) == DOMAIN txn[r].cases \cup txn[r].gone

PairInv(r, s) == Apart(r, s) /\ CaseIdsTouched(r) \cap CaseIdsTouched(s) = {}

SerialInv ==
  /\ DOMAIN victims \subseteq 1..serial.victims
  /\ DOMAIN aggressors \subseteq 1..serial.aggressors

IndInv ==
  /\ TypeOK
  /\ SerialInv
  /\ OneToOne
  /\ NoOrphans
  /\ txn = [r \in Requests |-> txn[r]]
  /\ \A r \in Requests : RequestInv(r)
  /\ \A r, s \in Requests : r # s => PairInv(r, s)
=============================================================================
