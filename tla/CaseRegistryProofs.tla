-------------------------- MODULE CaseRegistryProofs --------------------------
(***************************************************************************)
(* CaseStore implements CaseRegistry: seen through the join of the GET     *)
(* handler, the three tables are a registry of whole documents in which    *)
(* each request takes effect once, at its COMMIT, or not at all.  For any  *)
(* requests, bodies, paths, pool and sequences, where bodies carry no id   *)
(* but the path's.                                                         *)
(***************************************************************************)
EXTENDS CaseStoreProofs

(***************************************************************************)
(* The registry accepts and keeps the same documents as the store.         *)
(***************************************************************************)
LEMMA SameDocument ==
  ASSUME NEW b
  PROVE  Registry!Document(b) = Document(b)
BY DEF Registry!Document, Document, Registry!InsertedRow, InsertedRow,
       Registry!Coerced, Coerced, Registry!CoercedPart, CoercedPart,
       Registry!CoercedNull, CoercedNull, Registry!CaseFields, CaseFields,
       Registry!VictimFields, VictimFields, Registry!AggressorFields, AggressorFields,
       Registry!BooleanFields, BooleanFields, Registry!IntegerFields, IntegerFields,
       Registry!TextFields, TextFields

LEMMA SameAccepted ==
  ASSUME NEW b
  PROVE  Registry!Accepted(b) <=> Accepted(b)
BY DEF Registry!Accepted, Accepted, Registry!SchemaValid, SchemaValid,
       Registry!CaseValidations, CaseValidations,
       Registry!OnlyCoercibleNulls, OnlyCoercibleNulls,
       Registry!ListedValues, ListedValues, Registry!CasePlaces, CasePlaces,
       Registry!Nationalities, Nationalities,
       Registry!DependentRequired, DependentRequired,
       Registry!OrganizedCrimeRule, OrganizedCrimeRule,
       Registry!LegalComplaintsRule, LegalComplaintsRule,
       Registry!JudicialMeasuresRule, JudicialMeasuresRule,
       Registry!MediaPerspectiveRule, MediaPerspectiveRule,
       Registry!NumberOfChildrenRule, NumberOfChildrenRule,
       Registry!HasChildrenRule, HasChildrenRule,
       Registry!SecurityForceRule, SecurityForceRule,
       Registry!Has, Has, Registry!IsTrue, IsTrue,
       Registry!NonZero, NonZero, Registry!NonEmpty, NonEmpty,
       Registry!Coerced, Coerced, Registry!CoercedPart, CoercedPart,
       Registry!CoercedNull, CoercedNull, Registry!CaseFields, CaseFields,
       Registry!VictimFields, VictimFields, Registry!AggressorFields, AggressorFields,
       Registry!BooleanFields, BooleanFields, Registry!IntegerFields, IntegerFields,
       Registry!TextFields, TextFields

-----------------------------------------------------------------------------
(***************************************************************************)
(* What the mapping has to know of a request besides IndInv and KeptInv:   *)
(* it has taken effect exactly from its COMMIT on, and an edit that is     *)
(* about to commit has written the case of its path.                       *)
(***************************************************************************)
EffectInv(r) ==
  /\ pc[r] = "idle" => asked[r] = NoOrder
  /\ status[r] = "none" <=> pc[r] # "answered"
  /\ effect[r] => pc[r] \in {"committed", "answered"}
  /\ pc[r] = "committed" => effect[r]

Wrote(r) == pc[r] = "commit" /\ Edit(r) => DOMAIN txn[r].cases = {asked[r].path}

ProgressInv == \A r \in Requests : EffectInv(r) /\ Wrote(r)

OnlyOwnAnswer(r) ==
  OnlyOwn(r) /\ \A s \in Requests \ {r} : status'[s] = status[s] /\ effect'[s] = effect[s]

LEMMA ProgressStep ==
  ASSUME ProgressInv, NEW r \in Requests, OnlyOwnAnswer(r), EffectInv(r)', Wrote(r)'
  PROVE  ProgressInv'
<1>1. ASSUME NEW s \in Requests \ {r}
      PROVE  EffectInv(s)' /\ Wrote(s)'
  BY <1>1 DEF ProgressInv, OnlyOwnAnswer, OnlyOwn, EffectInv, Wrote, Edit
<1> QED BY <1>1 DEF ProgressInv

LEMMA ProgressNext ==
  ASSUME ForeignIds = {}, IndInv, KeptInv, ProgressInv, [Next]_vars
  PROVE  ProgressInv'
<1>1. CASE UNCHANGED vars
  BY <1>1 DEF vars, tables, locals, ProgressInv, EffectInv, Wrote, Edit
<1>2. ASSUME NEW r \in Requests, NEW q \in Orders, Receive(r, q)
      PROVE  ProgressInv'
  <2>1. OnlyOwnAnswer(r)
    BY <1>2 DEF Receive, IndInv, TypeOK, OnlyOwnAnswer, OnlyOwn, Finish, Goto, locals
  <2>2. EffectInv(r)' /\ Wrote(r)'
    BY <1>2 DEF Receive, IndInv, TypeOK, Finish, Goto, ProgressInv, EffectInv, Wrote
  <2> QED BY <2>1, <2>2, ProgressStep
<1>3. ASSUME NEW r \in Requests,
             \/ Answer(r) \/ StatementRefused(r) \/ PoolTimeout(r)
             \/ StatementFails(r) \/ Lose(r) \/ CommitUnconfirmed(r)
      PROVE  ProgressInv'
  <2>1. OnlyOwnAnswer(r)
    BY <1>3 DEF Answer, StatementRefused, PoolTimeout, StatementFails, Lose, CommitUnconfirmed,
       ApplyWrites, IndInv, TypeOK, OnlyOwnAnswer, OnlyOwn, Finish, Goto, locals
  <2>2. pc'[r] = "answered" /\ status'[r] # "none"
    BY <1>3 DEF Answer, StatementRefused, PoolTimeout, StatementFails, Lose, CommitUnconfirmed,
       IndInv, TypeOK, Finish, Goto
  <2>3. EffectInv(r)' /\ Wrote(r)'
    BY <2>2 DEF EffectInv, Wrote
  <2> QED BY <2>1, <2>3, ProgressStep
<1>4. ASSUME NEW r \in Requests, Commit(r)
      PROVE  ProgressInv'
  <2>1. OnlyOwnAnswer(r)
    BY <1>4 DEF Commit, ApplyWrites, IndInv, TypeOK, OnlyOwnAnswer, OnlyOwn, Goto, locals
  <2>2. EffectInv(r)' /\ Wrote(r)'
    BY <1>4 DEF Commit, ApplyWrites, IndInv, TypeOK, Goto, ProgressInv, EffectInv, Wrote
  <2> QED BY <2>1, <2>2, ProgressStep
<1>5. ASSUME NEW r \in Requests, Lookup(r)
      PROVE  ProgressInv'
  <2>1. OnlyOwnAnswer(r)
    BY <1>5 DEF Lookup, IndInv, TypeOK, OnlyOwnAnswer, OnlyOwn, Finish, Goto, locals
  <2>2. EffectInv(r)' /\ Wrote(r)'
    BY <1>5 DEF Lookup, IndInv, TypeOK, Finish, Goto, ProgressInv, EffectInv, Wrote
  <2> QED BY <2>1, <2>2, ProgressStep
<1>6. ASSUME NEW r \in Requests,
             \/ Begin(r) \/ UpdateVictim(r) \/ UpdateAggressor(r)
             \/ InsertVictim(r) \/ InsertAggressor(r) \/ InsertCase(r)
      PROVE  ProgressInv'
  <2>1. OnlyOwnAnswer(r)
    BY <1>6 DEF Begin, UpdateVictim, UpdateAggressor, InsertVictim, InsertAggressor, InsertCase,
       NextSerial, IndInv, TypeOK, OnlyOwnAnswer, OnlyOwn, Goto, locals
  <2>2. /\ pc[r] \in {"begin", "victim", "aggressor", "case"}
        /\ pc'[r] \in {"victim", "aggressor", "case", "commit"}
        /\ pc'[r] = "commit" => asked'[r].kind = "POST"
        /\ UNCHANGED <<asked, status, effect>>
    BY <1>6 DEF Begin, UpdateVictim, UpdateAggressor, InsertVictim, InsertAggressor, InsertCase,
       IndInv, TypeOK, Goto
  <2>3. EffectInv(r)' /\ Wrote(r)'
    BY <2>2 DEF ProgressInv, EffectInv, Wrote, Edit
  <2> QED BY <2>1, <2>3, ProgressStep
<1>7. ASSUME NEW r \in Requests, UpdateCase(r)
      PROVE  ProgressInv'
  <2>1. OnlyOwnAnswer(r)
    BY <1>7 DEF UpdateCase, IndInv, TypeOK, OnlyOwnAnswer, OnlyOwn, Goto, locals
  <2>2. asked[r] \in Orders /\ asked[r].kind = "PUT"
    BY <1>7 DEF UpdateCase, IndInv, RequestInv, OrderInv
  <2>3. CaseKey(r) = asked[r].path
    BY <2>2 DEF Orders, Posts, Puts, CaseKey
  <2>4. asked[r].path \in DOMAIN cases
    BY <1>7, <2>2 DEF UpdateCase, KeptInv, StillTrue, Looked, Edit
  <2>5. "cases" \in DOMAIN txn[r]
    <3>1. txn[r] = Writes(NoRows, VictimWrite(r), AggressorWrite(r), {})
      BY <1>7 DEF UpdateCase, IndInv, RequestInv, OverlayInv
    <3> QED BY <3>1 DEF Writes
  <2>6. DOMAIN txn'[r].cases = {asked'[r].path}
    BY <1>7, <2>3, <2>4, <2>5 DEF UpdateCase, IndInv
  <2>7. EffectInv(r)' /\ Wrote(r)'
    BY <1>7, <2>6 DEF UpdateCase, IndInv, TypeOK, Goto, ProgressInv, EffectInv, Wrote
  <2> QED BY <2>1, <2>7, ProgressStep
<1> QED
  BY <1>1, <1>2, <1>3, <1>4, <1>5, <1>6, <1>7 DEF Next, Progress, Failure

-----------------------------------------------------------------------------
(***************************************************************************)
(* A COMMIT, seen through the join, puts one whole document in place and   *)
(* leaves the others as they are.                                          *)
(***************************************************************************)
Placed(r, c) ==
  Registered' = [d \in DOMAIN Registered \cup {c} |->
                   IF d = c THEN Document(asked[r].body) ELSE Registered[d]]

LEMMA CommittedVictims ==
  ASSUME IndInv, NEW r \in Requests, pc[r] = "commit", ApplyWrites(r)
  PROVE  /\ victims'[victimId[r]] = Document(asked[r].body).victim
         /\ \A v \in DOMAIN victims \ {victimId[r]} : victims'[v] = victims[v]
         /\ aggressors'[aggressorId[r]] = Document(asked[r].body).aggressor
         /\ \A a \in DOMAIN aggressors \ {aggressorId[r]} : aggressors'[a] = aggressors[a]
<1>1. txn[r] = Writes(txn[r].cases, VictimWrite(r), AggressorWrite(r), txn[r].gone)
  BY DEF IndInv, RequestInv, OverlayInv
<1>2. txn[r].victims = VictimWrite(r) /\ txn[r].aggressors = AggressorWrite(r)
  BY <1>1 DEF Writes
<1>3. /\ victims' = Overlay(victims, VictimWrite(r))
      /\ aggressors' = Overlay(aggressors, AggressorWrite(r))
  BY <1>2 DEF ApplyWrites
<1>4. QED
  BY <1>3 DEF Overlay, VictimWrite, AggressorWrite, Row

LEMMA PlacedByCommit ==
  ASSUME IndInv, NEW r \in Requests, pc[r] = "commit", ApplyWrites(r), NEW c \in Ids,
         DOMAIN cases' = DOMAIN cases \cup {c},
         cases'[c].victimId = victimId[r], cases'[c].aggressorId = aggressorId[r],
         cases'[c].row = Document(asked[r].body).case,
         \A d \in DOMAIN cases \ {c} :
           /\ cases'[d] = cases[d]
           /\ cases[d].victimId # victimId[r] /\ cases[d].aggressorId # aggressorId[r]
  PROVE  Placed(r, c)
<1>1. Joined(c)' = Document(asked[r].body)
  BY CommittedVictims DEF Joined, Document
<1>2. ASSUME NEW d \in DOMAIN cases \ {c}
      PROVE  Joined(d)' = Joined(d)
  <2>1. cases[d].victimId \in DOMAIN victims /\ cases[d].aggressorId \in DOMAIN aggressors
    BY DEF IndInv, OneToOne
  <2> QED BY <2>1, CommittedVictims DEF Joined
<1> QED
  BY <1>1, <1>2 DEF Placed, Registered

LEMMA CreatePlaces ==
  ASSUME IndInv, NEW r \in Requests, pc[r] = "commit", ApplyWrites(r), asked[r].kind = "POST"
  PROVE  \E c \in Ids \ DOMAIN cases : Placed(r, c)
<1>1. PICK c \in Ids : CommitsNewCase(r, c)
  BY CommitCases
<1>2. c \notin DOMAIN cases
  BY <1>1 DEF CommitsNewCase
<1>3. victimId[r] \notin DOMAIN victims /\ aggressorId[r] \notin DOMAIN aggressors
  BY CommitCases
<1>4. \A d \in DOMAIN cases :
        cases[d].victimId # victimId[r] /\ cases[d].aggressorId # aggressorId[r]
  BY <1>3 DEF IndInv, OneToOne
<1>5. /\ DOMAIN cases' = DOMAIN cases \cup {c}
      /\ cases'[c].victimId = victimId[r] /\ cases'[c].aggressorId = aggressorId[r]
      /\ cases'[c].row = Document(asked[r].body).case
      /\ \A d \in DOMAIN cases \ {c} : cases'[d] = cases[d]
  BY <1>1, CommittedCases
<1>6. Placed(r, c)
  BY <1>4, <1>5, PlacedByCommit
<1> QED BY <1>2, <1>6

LEMMA EditPlaces ==
  ASSUME IndInv, KeptInv, ProgressInv, NEW r \in Requests, pc[r] = "commit", ApplyWrites(r),
         asked[r].kind = "PUT"
  PROVE  asked[r].path \in DOMAIN cases /\ Placed(r, asked[r].path)
<1> DEFINE path == asked[r].path
<1>1. /\ path \in DOMAIN cases
      /\ cases[path].victimId = victimId[r] /\ cases[path].aggressorId = aggressorId[r]
      /\ txn[r].gone = {} /\ DOMAIN txn[r].cases = {path}
  BY DEF KeptInv, StillTrue, GivesNoOtherId, Looked, Edit, ProgressInv, Wrote
<1>2. ~CommitsNothing(r)
  BY <1>1 DEF CommitsNothing, NoRows
<1>3. PICK c \in Ids : CommitsEdit(r, c)
  BY <1>2, CommitCases
<1>4. c = path
  BY <1>1, <1>3 DEF CommitsEdit
<1>5. \A d \in DOMAIN cases \ {path} :
        cases[d].victimId # victimId[r] /\ cases[d].aggressorId # aggressorId[r]
  BY <1>1 DEF IndInv, OneToOne
<1>6. /\ DOMAIN cases' = DOMAIN cases \cup {path}
      /\ cases'[path].victimId = victimId[r] /\ cases'[path].aggressorId = aggressorId[r]
      /\ cases'[path].row = Document(asked[r].body).case
      /\ \A d \in DOMAIN cases \ {path} : cases'[d] = cases[d]
  BY <1>1, <1>3, <1>4, CommittedCases
<1>7. path \in Ids
  BY <1>4
<1> HIDE DEF path
<1>8. Placed(r, path)
  BY <1>5, <1>6, <1>7, PlacedByCommit
<1> QED BY <1>1, <1>8 DEF path

-----------------------------------------------------------------------------
(***************************************************************************)
(* Every step of the store is a step of the registry or none.              *)
(***************************************************************************)
RegistryStep == Registry!Next \/ UNCHANGED Registry!registryVars

LEMMA SameTables == UNCHANGED tables => UNCHANGED Registered
  BY DEF tables, Registered, Joined

LEMMA AskStep ==
  ASSUME IndInv, ProgressInv, NEW r \in Requests, NEW q \in Orders, Receive(r, q)
  PROVE  RegistryStep
<1>1. asked[r] = NoOrder /\ status[r] = "none"
  BY DEF Receive, ProgressInv, EffectInv
<1>2. status' = [status EXCEPT ![r] = IF Accepted(q.body) THEN "none" ELSE "422"]
  BY <1>1 DEF Receive, Finish, IndInv, TypeOK
<1>3. Registry!Ask(r, q)
  BY <1>1, <1>2, SameTables, SameAccepted DEF Receive, Registry!Ask
<1> QED BY <1>3 DEF RegistryStep, Registry!Next

LEMMA AnsweredInRegistry ==
  ASSUME IndInv, ProgressInv, NEW r \in Requests, NEW s \in Registry!Answers,
         pc[r] \notin {"idle", "answered"}, Registry!Truthful(r, s),
         status' = [status EXCEPT ![r] = s], UNCHANGED <<tables, asked, effect>>
  PROVE  RegistryStep
<1>1. Registry!Pending(r)
  BY OrdersAssumption DEF Registry!Pending, ProgressInv, EffectInv, IndInv, RequestInv, OrderInv
<1>2. Registry!Answer(r, s)
  BY <1>1, SameTables DEF Registry!Answer
<1> QED BY <1>2 DEF RegistryStep, Registry!Next

LEMMA FailedInRegistry ==
  ASSUME IndInv, ProgressInv, NEW r \in Requests,
         \/ PoolTimeout(r) \/ StatementFails(r) \/ StatementRefused(r) \/ Lose(r)
  PROVE  RegistryStep
<1>1. PICK s \in {"500", "lost"} : status' = [status EXCEPT ![r] = s]
  BY DEF PoolTimeout, StatementFails, StatementRefused, Lose, Finish
<1>2. pc[r] \notin {"idle", "answered"} /\ UNCHANGED <<tables, asked, effect>>
  BY DEF PoolTimeout, StatementFails, StatementRefused, Lose
<1>3. s \in Registry!Answers /\ Registry!Truthful(r, s)
  BY <1>1 DEF Registry!Answers, Registry!Truthful
<1> QED BY <1>1, <1>2, <1>3, AnsweredInRegistry

LEMMA SucceededInRegistry ==
  ASSUME IndInv, ProgressInv, NEW r \in Requests, Answer(r)
  PROVE  RegistryStep
<1> DEFINE s == IF asked[r].kind = "POST" THEN "201" ELSE "204"
<1>1. asked[r].kind \in {"POST", "PUT"}
  BY DEF Answer, IndInv, RequestInv, OrderInv, Orders, Posts, Puts
<1>2. effect[r]
  BY DEF Answer, ProgressInv, EffectInv
<1>3. s \in Registry!Answers /\ Registry!Truthful(r, s)
  BY <1>1, <1>2 DEF Registry!Answers, Registry!Truthful
<1>4. /\ pc[r] \notin {"idle", "answered"}
      /\ status' = [status EXCEPT ![r] = s] /\ UNCHANGED <<tables, asked, effect>>
  BY DEF Answer, Finish
<1> HIDE DEF s
<1> QED BY <1>3, <1>4, AnsweredInRegistry

LEMMA LookupInRegistry ==
  ASSUME IndInv, ProgressInv, NEW r \in Requests, Lookup(r)
  PROVE  RegistryStep
<1>1. CASE asked[r].path \in DOMAIN cases
  BY <1>1, SameTables DEF Lookup, RegistryStep, Registry!registryVars
<1>2. CASE asked[r].path \notin DOMAIN cases
  <2>1. asked[r].kind = "PUT" /\ ~effect[r]
    BY DEF Lookup, IndInv, RequestInv, OrderInv, ProgressInv, EffectInv
  <2>2. "404" \in Registry!Answers /\ Registry!Truthful(r, "404")
    BY <1>2, <2>1 DEF Registry!Answers, Registry!Truthful, Registered
  <2>3. /\ pc[r] \notin {"idle", "answered"}
        /\ status' = [status EXCEPT ![r] = "404"] /\ UNCHANGED <<tables, asked, effect>>
    BY <1>2 DEF Lookup, Finish
  <2> QED BY <2>2, <2>3, AnsweredInRegistry
<1> QED BY <1>1, <1>2

LEMMA CommitInRegistry ==
  ASSUME IndInv, KeptInv, ProgressInv, NEW r \in Requests, pc[r] = "commit", ApplyWrites(r),
         UNCHANGED asked
  PROVE  Registry!Register(r) \/ Registry!Replace(r)
<1>1. Registry!Pending(r) /\ ~effect[r]
  BY OrdersAssumption DEF Registry!Pending, ProgressInv, EffectInv, IndInv, RequestInv, OrderInv
<1>2. ASSUME NEW c, Placed(r, c)
      PROVE  Registry!TakeEffect(r, c)
  BY <1>1, <1>2, SameDocument DEF Placed, ApplyWrites, Registry!TakeEffect
<1>3. CASE asked[r].kind = "POST"
  <2>1. PICK c \in Ids \ DOMAIN cases : Placed(r, c)
    BY <1>3, CreatePlaces
  <2> QED BY <1>1, <1>2, <1>3, <2>1 DEF Registry!Register, Registered
<1>4. CASE asked[r].kind = "PUT"
  <2>1. asked[r].path \in DOMAIN cases /\ Placed(r, asked[r].path)
    BY <1>4, EditPlaces
  <2> QED BY <1>1, <1>2, <1>4, <2>1 DEF Registry!Replace, Registered
<1> QED BY <1>3, <1>4, CommitCases

LEMMA StepsOfTheRegistry ==
  ASSUME IndInv, KeptInv, ProgressInv, [Next]_vars
  PROVE  RegistryStep
<1>1. CASE UNCHANGED vars
  BY <1>1, SameTables DEF vars, RegistryStep, Registry!registryVars
<1>2. ASSUME NEW r \in Requests,
             \/ Begin(r) \/ UpdateVictim(r) \/ UpdateAggressor(r) \/ UpdateCase(r)
             \/ InsertVictim(r) \/ InsertAggressor(r) \/ InsertCase(r)
      PROVE  RegistryStep
  <2>1. UNCHANGED <<tables, asked, status, effect>>
    BY <1>2 DEF Begin, UpdateVictim, UpdateAggressor, UpdateCase, InsertVictim, InsertAggressor,
       InsertCase
  <2> QED BY <2>1, SameTables DEF RegistryStep, Registry!registryVars
<1>3. ASSUME NEW r \in Requests, Commit(r)
      PROVE  RegistryStep
  <2>1. Registry!Effect(r)
    BY <1>3, CommitInRegistry DEF Commit, Registry!Effect
  <2> QED BY <2>1 DEF RegistryStep, Registry!Next
<1>4. ASSUME NEW r \in Requests, CommitUnconfirmed(r)
      PROVE  RegistryStep
  <2>1. Registry!EffectAnsweredAsFailure(r)
    BY <1>4, CommitInRegistry DEF CommitUnconfirmed, Finish, Registry!EffectAnsweredAsFailure
  <2> QED BY <2>1 DEF RegistryStep, Registry!Next
<1> QED
  BY <1>1, <1>2, <1>3, <1>4, AskStep, FailedInRegistry, SucceededInRegistry, LookupInRegistry
     DEF Next, Progress, Failure

(***************************************************************************)
(* POST and PUT /v1/cases, run statement by statement with every failure,  *)
(* implement the registry of whole documents: a request takes effect once, *)
(* at one instant between being asked and being answered, and its answer   *)
(* is true.                                                                *)
(***************************************************************************)
THEOREM StoreImplementsRegistry ==
  ASSUME ForeignIds = {}
  PROVE  Spec => ImplementsRegistry
<1>1. Init => KeptInv /\ ProgressInv
  BY DEF Init, KeptInv, GivesNoOtherId, StillTrue, Looked, ProgressInv, EffectInv, Wrote
<1>2. IndInv /\ KeptInv /\ ProgressInv /\ [Next]_vars => KeptInv' /\ ProgressInv'
  BY KeptNext, ProgressNext
<1>3. Init => Registry!Init
  BY DEF Init, Registry!Init, Registered, NoRows
<1>4. IndInv /\ KeptInv /\ ProgressInv /\ [Next]_vars
        => [Registry!Next]_Registry!registryVars
  BY StepsOfTheRegistry DEF RegistryStep
<1> QED
  BY <1>1, <1>2, <1>3, <1>4, Invariance, PTL DEF Spec, ImplementsRegistry, Registry!Spec
=============================================================================
