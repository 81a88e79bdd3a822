------------------------------ MODULE MCCaseStats ------------------------------
(***************************************************************************)
(* CaseStats over tables of up to three cases, whose rows make groups of   *)
(* one size, differ in every figure and fall on both sides of a date.      *)
(***************************************************************************)
EXTENDS CaseStats

Row(day, province, attempt, weapon, pregnant, belongs, force) ==
  [ occurredAt |-> day, province |-> province, location |-> {},
    caseCategory |-> 1, wasItAnAttempt |-> attempt, murderWeapon |-> weapon,
    victimBondAggressor |-> weapon, isPregnant |-> pregnant,
    belongsSecurityForce |-> belongs, securityForce |-> force ]

MCCaseRows ==
  { Row(1, 1, No, Null, Null, Yes, 1), Row(2, 2, Yes, 1, No, Yes, Null),
    Row(3, 1, No, 2, Yes, No, Null) }

\* One of the cases may still have to be created.
MCTables ==
  UNION { [ids -> MCCaseRows] :
            ids \in {Ids} \cup {Ids \ {i} : i \in Ids} }

MCQueries == { <<>>, [province |-> 1], [toDate |-> 2], [fromDate |-> 2] }

MCBrowserOf == [t \in Tabs |-> CHOOSE b \in Browsers : TRUE]

Symmetry == Permutations(Ids) \cup Permutations(Tabs)
=============================================================================
