------------------------------ MODULE MCListWalk ------------------------------
(***************************************************************************)
(* ListWalk over tables of up to three rows, whose dates and moments tie   *)
(* in every way: on one day, in one millisecond, at one moment.            *)
(***************************************************************************)
EXTENDS ListWalk

MCCaseTables ==
  UNION { { [i \in ids |-> Case(i, day[i], matches[i])] :
              day \in [ids -> Days], matches \in [ids -> BOOLEAN] } :
          ids \in {{2, 3}, {0, 2, 3}} }

MomentsOf == [i \in Ids |-> CASE i = 0 -> <<0, 2>> [] i = 2 -> <<0, 3>> [] i = 3 -> <<2, 4>>]

MCItemTables ==
  { [i \in ids |-> Item(i, MomentsOf[i][1], MomentsOf[i][2])] : ids \in {{0, 2}, {2, 3}, {0, 2, 3}} }
=============================================================================
