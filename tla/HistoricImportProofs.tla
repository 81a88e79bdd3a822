------------------------- MODULE HistoricImportProofs -------------------------
(***************************************************************************)
(* The invariants of HistoricImport, for every set of spreadsheets and any *)
(* number of runs.                                                         *)
(*                                                                         *)
(* The first half is about the loop: what the service accepts plays no     *)
(* part in it.  The second half is about the rows: what the conversion     *)
(* builds of a row, how the form reads it, and that it takes it.           *)
(***************************************************************************)
EXTENDS HistoricImport, SequenceTheorems, TLAPS

-----------------------------------------------------------------------------
\* The loop.

\* A line the loop has still to read is no case of this run, unless in doubt.
UnreadAreNotCases == madeNow \cap todo \subseteq doubtful

\* The file that is run twice is one that holds the line.
Reused(i) == \E n \in DOMAIN files : i \in files[n] /\ used[n] > 1

\* The files with the line that have not been run.
Fresh(i) == {n \in DOMAIN files : i \in files[n] /\ used[n] = 0}

\* Before the conversion there is no file.
NoFileYet ==
  phase = "tsv" => /\ files = <<>> /\ todo = {} /\ dead = {}
                   /\ \A i \in Lines : made[i] = 0

\* A line that is in no file that was run twice, and whose cases are all confirmed, is
\* in one place at most: a file that has not been run, the lines the loop has still to
\* read, deadletter.json, or the registry.
Placed(i) ==
  /\ \A n, m \in Fresh(i) : n = m
  /\ Fresh(i) # {} => i \notin todo /\ i \notin dead /\ made[i] = 0
  /\ i \in todo => i \notin dead /\ made[i] = 0
  /\ i \in dead => made[i] = 0
  /\ made[i] <= 1

PlacedOnce == \A i \in Lines : i \notin doubtful /\ ~Reused(i) => Placed(i)

ImportInv ==
  /\ TypeOK
  /\ NoLineIsLost
  /\ DeadLettersAreNotCases
  /\ UnreadAreNotCases
  /\ NoFileYet
  /\ PlacedOnce

LEMMA InitImport == Init => ImportInv
<1> SUFFICES ASSUME Init PROVE ImportInv
  OBVIOUS
<1>1. TypeOK
  BY SMT DEF Init, TypeOK, Phases, Lines
<1>2. NoLineIsLost /\ DeadLettersAreNotCases /\ UnreadAreNotCases /\ NoFileYet
  BY SMT DEF Init, NoLineIsLost, DeadLettersAreNotCases, UnreadAreNotCases, NoFileYet, Lines
<1>3. PlacedOnce
  BY SMT DEF Init, Lines, PlacedOnce, Placed, Fresh, Reused
<1> QED BY <1>1, <1>2, <1>3 DEF ImportInv

LEMMA ConvertImport == ImportInv /\ Convert => ImportInv'
<1> SUFFICES ASSUME ImportInv, Convert PROVE ImportInv'
  OBVIOUS
<1>0. /\ phase = "tsv" /\ phase' \in {"ready", "unconvertible"}
      /\ sheet' = sheet /\ input' = input /\ todo' = todo /\ dead' = dead /\ made' = made
      /\ runs' = runs /\ madeNow' = madeNow /\ failed' = failed /\ doubtful' = doubtful
      /\ Lines' = Lines
      /\ \/ files' = <<Lines>> /\ used' = <<0>>
         \/ files' = files /\ used' = used
  BY DEF Convert, Lines
<1>1. TypeOK /\ NoFileYet /\ files = <<>> /\ todo = {} /\ dead = {} /\ \A i \in Lines : made[i] = 0
  BY <1>0 DEF ImportInv, NoFileYet
<1>2. TypeOK'
  <2>1. files' \in Seq(SUBSET Lines) /\ used' \in Seq(Nat) /\ Len(used') = Len(files')
    <3>1. CASE files' = <<Lines>> /\ used' = <<0>>
      BY <3>1
    <3>2. CASE files' = files /\ used' = used
      BY <1>1, <3>2 DEF TypeOK
    <3> QED BY <1>0, <3>1, <3>2
  <2> QED BY <1>0, <1>1, <2>1 DEF TypeOK, Phases
<1>3. NoLineIsLost' /\ DeadLettersAreNotCases' /\ UnreadAreNotCases' /\ NoFileYet'
  BY <1>0, SMT DEF ImportInv, NoLineIsLost, DeadLettersAreNotCases, UnreadAreNotCases, NoFileYet
<1>4. DOMAIN files' \subseteq {1}
  BY <1>0, <1>1, SMT
<1>5. PlacedOnce'
  BY <1>0, <1>1, <1>4, SMT DEF PlacedOnce, Placed, Fresh
<1> QED BY <1>2, <1>3, <1>5 DEF ImportInv

\* Where the lines are after a run has begun, whatever file it reads.
LEMMA StartImport ==
  ASSUME NEW lines, NEW letters, ImportInv, Start(lines, letters),
         lines \subseteq Lines, letters = {},
         files' \in Seq(SUBSET Lines), used' \in Seq(Nat), Len(used') = Len(files'),
         PlacedOnce'
  PROVE  ImportInv'
<1> USE DEF Start, Readable, Lines
<1>1. TypeOK'
  BY SMT DEF ImportInv, TypeOK, Phases
<1>2. NoLineIsLost' /\ DeadLettersAreNotCases' /\ UnreadAreNotCases' /\ NoFileYet'
  BY SMT DEF NoLineIsLost, DeadLettersAreNotCases, UnreadAreNotCases, NoFileYet
<1> QED BY <1>1, <1>2 DEF ImportInv

\* A file that is run for the first time is the place of all its lines.
LEMMA StartFileImport ==
  ASSUME ImportInv, NEW n \in 1..Len(files), StartFile(n)
  PROVE  ImportInv'
<1>0. /\ files \in Seq(SUBSET Lines) /\ used \in Seq(Nat) /\ Len(used) = Len(files)
      /\ made \in [Lines -> Nat]
  BY DEF ImportInv, TypeOK
<1>d. DOMAIN files = 1..Len(files) /\ DOMAIN used = 1..Len(files)
  BY <1>0, LenProperties
<1>1. /\ files' = files /\ used' = [used EXCEPT ![n] = used[n] + 1]
      /\ Start(files[n], {}) /\ files[n] \subseteq Lines
  <2>1. files[n] \in SUBSET Lines
    BY <1>0, ElementOfSeq
  <2> QED BY <2>1 DEF StartFile, Emptied
<1>2. /\ todo' = files[n] /\ dead' = {} /\ made' = made /\ doubtful' = doubtful
      /\ sheet' = sheet /\ Lines' = Lines
  BY <1>1 DEF Start, Readable, Lines
<1>3. /\ used' \in Seq(Nat) /\ Len(used') = Len(files) /\ used'[n] = used[n] + 1
      /\ \A m \in 1..Len(files) : m # n => used'[m] = used[m]
      /\ \A m \in 1..Len(files) : used[m] \in Nat
  <2>1. \A m \in 1..Len(files) : used[m] \in Nat
    BY <1>0, ElementOfSeq
  <2>2. n \in 1..Len(used) /\ used[n] + 1 \in Nat
    BY <1>0, <2>1
  <2> QED BY <1>0, <1>1, <2>1, <2>2, ExceptSeq
<1>4. PlacedOnce'
  <2> SUFFICES ASSUME NEW i \in Lines, i \notin doubtful, ~Reused(i)'
               PROVE  Placed(i)'
    BY <1>2 DEF PlacedOnce
  <2>1. ~Reused(i)
    BY <1>d, <1>1, <1>3, SMT DEF Reused
  <2>2. Placed(i)
    BY <2>1 DEF ImportInv, PlacedOnce
  <2>3. i \in files[n] => n \in Fresh(i)
    BY <1>d, <1>1, <1>3, SMT DEF Reused, Fresh
  <2>4. Fresh(i)' = Fresh(i) \ {n}
    BY <1>d, <1>1, <1>3, SMT DEF Fresh
  <2>5. CASE i \in files[n]
    <3>1. Fresh(i)' = {} /\ made[i] = 0
      BY <2>2, <2>3, <2>4, <2>5 DEF Placed
    <3> QED BY <1>2, <3>1, SMT DEF Placed
  <2>6. CASE i \notin files[n]
    <3>1. i \notin todo' /\ i \notin dead' /\ Fresh(i)' \subseteq Fresh(i)
      BY <1>2, <2>4, <2>6
    <3> QED BY <1>2, <2>2, <3>1, SMT DEF Placed
  <2> QED BY <2>5, <2>6
<1> QED BY <1>0, <1>1, <1>3, <1>4, StartImport, Zenon

\* So is a deadletter.json that is kept, whether it is run at once or later.
LEMMA StartRenamedImport ==
  ASSUME ImportInv, NEW n \in 1..(Len(files) + 1), StartRenamed(n)
  PROVE  ImportInv'
<1> DEFINE k == Len(files) + 1
           u == Append(used, 0)
<1>0. /\ files \in Seq(SUBSET Lines) /\ used \in Seq(Nat) /\ Len(used) = Len(files)
      /\ made \in [Lines -> Nat] /\ dead \in SUBSET Lines
  BY DEF ImportInv, TypeOK
<1>d. DOMAIN files = 1..Len(files) /\ Len(files) \in Nat
  BY <1>0, LenProperties
<1>1. /\ files' = Append(files, dead) /\ used' = [u EXCEPT ![n] = u[n] + 1]
      /\ Start(files'[n], {})
  BY DEF StartRenamed
<1>2. /\ files' \in Seq(SUBSET Lines) /\ Len(files') = k
      /\ files'[k] = dead /\ \A m \in 1..Len(files) : files'[m] = files[m]
  BY <1>0, <1>1, AppendProperties
<1>3. /\ u \in Seq(Nat) /\ Len(u) = k /\ u[k] = 0
      /\ \A m \in 1..Len(files) : u[m] = used[m]
  BY <1>0, AppendProperties
<1> HIDE DEF u
<1>4. /\ used' \in Seq(Nat) /\ Len(used') = k /\ used'[n] = u[n] + 1
      /\ \A m \in 1..k : m # n => used'[m] = u[m]
      /\ \A m \in 1..k : u[m] \in Nat
  <2>1. \A m \in 1..k : u[m] \in Nat
    BY <1>3, ElementOfSeq
  <2>2. n \in 1..Len(u) /\ u[n] + 1 \in Nat
    BY <1>3, <2>1
  <2> QED BY <1>1, <1>3, <2>1, <2>2, ExceptSeq
<1>5. files'[n] \in SUBSET Lines /\ DOMAIN files' = 1..k
  BY <1>2, ElementOfSeq, LenProperties
<1>6. /\ todo' = files'[n] /\ dead' = {} /\ made' = made /\ doubtful' = doubtful
      /\ sheet' = sheet /\ Lines' = Lines
  BY <1>1 DEF Start, Readable, Lines
<1>7. /\ n \in 1..k /\ k \in 1..k
      /\ \A m \in 1..k : m # k => m \in 1..Len(files)
      /\ \A m \in 1..Len(files) : m \in 1..k /\ m # k
  BY <1>d, SMT
<1> HIDE DEF k
<1>8. PlacedOnce'
  <2> SUFFICES ASSUME NEW i \in Lines, i \notin doubtful, ~Reused(i)'
               PROVE  Placed(i)'
    BY <1>6 DEF PlacedOnce
  <2>1. ~Reused(i)
    <3> SUFFICES ASSUME NEW m \in 1..Len(files), i \in files[m], used[m] > 1
                 PROVE  Reused(i)'
      BY <1>d DEF Reused
    <3>1. m \in 1..k /\ i \in files'[m] /\ u[m] > 1 /\ u[m] \in Nat
      BY <1>2, <1>3, <1>4, <1>7
    <3>2. used'[m] > 1
      BY <1>4, <3>1
    <3> QED BY <1>5, <3>1, <3>2 DEF Reused
  <2>2. Placed(i)
    BY <2>1 DEF ImportInv, PlacedOnce
  \* The files that were fresh before the run begins, and the one that is new.
  <2> DEFINE F == IF i \in dead THEN {k} ELSE Fresh(i)
  <2>3. \A m, o \in F : m = o
    BY <2>2 DEF Placed
  <2>4. F # {} => made[i] = 0
    BY <2>2 DEF Placed
  <2>5. F = {m \in 1..k : i \in files'[m] /\ u[m] = 0}
    <3>1. i \in dead => Fresh(i) = {}
      BY <2>2 DEF Placed
    <3>2. Fresh(i) = {m \in 1..Len(files) : i \in files[m] /\ used[m] = 0}
      BY <1>d DEF Fresh
    <3>3. \A m \in 1..k : i \in files'[m] /\ u[m] = 0 <=>
             m \in Fresh(i) \/ (m = k /\ i \in dead)
      BY <1>2, <1>3, <1>7, <3>2
    <3> QED BY <1>7, <3>1, <3>2, <3>3
  <2>6. i \in files'[n] => n \in F
    BY <1>4, <1>5, <1>7, <2>5, SMT DEF Reused
  <2>7. Fresh(i)' = F \ {n}
    <3>1. Fresh(i)' = {m \in 1..k : i \in files'[m] /\ used'[m] = 0}
      BY <1>5 DEF Fresh
    <3>2. used'[n] # 0
      BY <1>4, <1>7
    <3>3. \A m \in 1..k : used'[m] = 0 <=> u[m] = 0 /\ m # n
      BY <1>4, <3>2
    <3> QED BY <2>5, <3>1, <3>3
  <2> HIDE DEF F
  <2>8. CASE i \in files'[n]
    <3>1. Fresh(i)' = {} /\ made[i] = 0
      BY <2>3, <2>4, <2>6, <2>7, <2>8
    <3> QED BY <1>6, <3>1, SMT DEF Placed
  <2>9. CASE i \notin files'[n]
    <3>1. i \notin todo' /\ i \notin dead' /\ Fresh(i)' \subseteq F
      BY <1>6, <2>7, <2>9
    <3>2. made'[i] <= 1
      BY <1>6, <2>2 DEF Placed
    <3>3. Fresh(i)' # {} => made'[i] = 0
      BY <1>6, <2>4, <3>1
    <3> QED BY <2>3, <3>1, <3>2, <3>3 DEF Placed
  <2> QED BY <2>8, <2>9
<1>9. files'[n] \subseteq Lines /\ used' \in Seq(Nat) /\ Len(used') = Len(files')
  BY <1>2, <1>4, <1>5
<1> QED BY <1>1, <1>2, <1>8, <1>9, StartImport, Zenon

\* deadletter.json itself is empty by then.
LEMMA StartDeadLetterImport == ImportInv /\ StartDeadLetter => ImportInv'
<1> SUFFICES ASSUME ImportInv, StartDeadLetter PROVE ImportInv'
  OBVIOUS
<1> DEFINE none == {}
<1>1. /\ Start(none, none) /\ files' = files /\ used' = used
  BY DEF StartDeadLetter, Emptied
<1>2. /\ todo' = {} /\ dead' = {} /\ made' = made /\ doubtful' = doubtful
      /\ Lines' = Lines
  BY <1>1 DEF Start, Readable, Lines
<1>3. files' \in Seq(SUBSET Lines) /\ used' \in Seq(Nat) /\ Len(used') = Len(files')
  BY <1>1 DEF ImportInv, TypeOK
<1>4. PlacedOnce'
  BY <1>1, <1>2 DEF ImportInv, PlacedOnce, Placed, Fresh, Reused
<1>5. none \subseteq Lines /\ none = {}
  OBVIOUS
<1> HIDE DEF none
<1> QED BY <1>1, <1>3, <1>4, <1>5, StartImport, Zenon

LEMMA MakeCounts ==
  ASSUME ImportInv, NEW i \in Lines, Make(i)
  PROVE  /\ made' \in [Lines -> Nat]
         /\ made'[i] = made[i] + 1
         /\ \A j \in Lines : j # i => made'[j] = made[j]
  BY SMT DEF Make, ImportInv, TypeOK

\* A step within a run changes no file.
LEMMA FilesKept ==
  ASSUME files' = files, used' = used, NEW i
  PROVE  Fresh(i)' = Fresh(i) /\ Reused(i)' = Reused(i)
  BY DEF Fresh, Reused

LEMMA PostImport ==
  ASSUME ImportInv, NEW i \in Lines, Post(i)
  PROVE  ImportInv'
<1>0. /\ phase = "reading" /\ i \in todo /\ i \in input /\ i \notin dead
      /\ sheet' = sheet /\ input' = input /\ runs' = runs
      /\ files' = files /\ used' = used
      /\ Lines' = Lines
  BY SMT DEF ImportInv, TypeOK, Post, Created, RefusedLine, Failed, FailedUnconfirmed,
         CurlFails, CurlFailsUnconfirmed, Current, history, Lines
<1>p. \A j : Fresh(j)' = Fresh(j) /\ Reused(j)' = Reused(j)
  BY <1>0, FilesKept
<1>q. phase' # "tsv" => NoFileYet'
  BY DEF NoFileYet
<1>1. CASE Created(i)
  <2>1. /\ Make(i) /\ todo' = todo \ {i} /\ dead' = dead
        /\ phase' = phase /\ failed' = failed /\ doubtful' = doubtful
    BY <1>1, SMT DEF Created, PutAside, GoOn
  <2>2. TypeOK'
    BY <1>0, <2>1, MakeCounts, SMT DEF ImportInv, TypeOK, Phases, Make
  <2>3. NoLineIsLost' /\ DeadLettersAreNotCases' /\ UnreadAreNotCases'
    BY <1>0, <2>1, SMT DEF ImportInv, Make, NoLineIsLost, DeadLettersAreNotCases,
           UnreadAreNotCases
  <2>4. PlacedOnce'
    BY <1>0, <1>p, <2>1, MakeCounts, SMT DEF ImportInv, PlacedOnce, Placed
  <2> QED BY <1>0, <1>q, <2>1, <2>2, <2>3, <2>4 DEF ImportInv
<1>2. CASE RefusedLine(i) \/ Failed(i)
  <2>1. /\ made' = made /\ madeNow' = madeNow /\ todo' = todo \ {i}
        /\ dead' = dead \cup {i} /\ phase' = phase /\ doubtful' = doubtful
        /\ failed' \in {failed, failed \cup {i}}
    BY <1>2, SMT DEF RefusedLine, Failed, PutAside, GoOn, history
  <2>2. TypeOK'
    BY <1>0, <2>1, SMT DEF ImportInv, TypeOK, Phases
  <2>3. NoLineIsLost' /\ DeadLettersAreNotCases' /\ UnreadAreNotCases'
    BY <1>0, <2>1, SMT DEF ImportInv, NoLineIsLost, DeadLettersAreNotCases,
           UnreadAreNotCases
  <2>4. PlacedOnce'
    BY <1>0, <1>p, <2>1, SMT DEF ImportInv, PlacedOnce, Placed
  <2> QED BY <1>0, <1>q, <2>1, <2>2, <2>3, <2>4 DEF ImportInv
<1>3. CASE FailedUnconfirmed(i)
  <2>1. /\ Make(i) /\ todo' = todo \ {i} /\ dead' = dead \cup {i}
        /\ phase' = phase /\ failed' = failed \cup {i} /\ doubtful' = doubtful \cup {i}
    BY <1>3, SMT DEF FailedUnconfirmed, PutAside, GoOn
  <2>2. TypeOK'
    BY <1>0, <2>1, MakeCounts, SMT DEF ImportInv, TypeOK, Phases, Make
  <2>3. NoLineIsLost' /\ DeadLettersAreNotCases' /\ UnreadAreNotCases'
    BY <1>0, <2>1, SMT DEF ImportInv, Make, NoLineIsLost, DeadLettersAreNotCases,
           UnreadAreNotCases
  <2>4. PlacedOnce'
    BY <1>0, <1>p, <2>1, MakeCounts, SMT DEF ImportInv, PlacedOnce, Placed
  <2> QED BY <1>0, <1>q, <2>1, <2>2, <2>3, <2>4 DEF ImportInv
<1>4. CASE CurlFails(i)
  <2>1. /\ made' = made /\ madeNow' = madeNow /\ todo' = todo /\ dead' = dead
        /\ phase' = "aborted" /\ doubtful' = doubtful /\ failed' = failed
    BY <1>4 DEF CurlFails, history
  <2>2. TypeOK'
    BY <1>0, <2>1, SMT DEF ImportInv, TypeOK, Phases
  <2>3. NoLineIsLost' /\ DeadLettersAreNotCases' /\ UnreadAreNotCases'
    BY <1>0, <2>1, SMT DEF ImportInv, NoLineIsLost, DeadLettersAreNotCases, UnreadAreNotCases
  <2>4. PlacedOnce'
    BY <1>0, <1>p, <2>1, SMT DEF ImportInv, PlacedOnce, Placed
  <2> QED BY <1>q, <2>1, <2>2, <2>3, <2>4 DEF ImportInv
<1>5. CASE CurlFailsUnconfirmed(i)
  <2>1. /\ Make(i) /\ todo' = todo /\ dead' = dead
        /\ phase' = "aborted" /\ failed' = failed /\ doubtful' = doubtful \cup {i}
    BY <1>5 DEF CurlFailsUnconfirmed
  <2>2. TypeOK'
    BY <1>0, <2>1, MakeCounts, SMT DEF ImportInv, TypeOK, Phases, Make
  <2>3. NoLineIsLost' /\ DeadLettersAreNotCases' /\ UnreadAreNotCases'
    BY <1>0, <2>1, SMT DEF ImportInv, Make, NoLineIsLost, DeadLettersAreNotCases,
           UnreadAreNotCases
  <2>4. PlacedOnce'
    BY <1>0, <1>p, <2>1, MakeCounts, SMT DEF ImportInv, PlacedOnce, Placed
  <2> QED BY <1>q, <2>1, <2>2, <2>3, <2>4 DEF ImportInv
<1> QED BY <1>1, <1>2, <1>3, <1>4, <1>5 DEF Post

LEMMA NextImport == ImportInv /\ [Next]_vars => ImportInv'
<1> SUFFICES ASSUME ImportInv, [Next]_vars PROVE ImportInv'
  OBVIOUS
<1>1. CASE Convert
  BY <1>1, ConvertImport
<1>2. CASE \E n \in 1..Len(files) : StartFile(n)
  BY <1>2, StartFileImport
<1>3. CASE \E n \in 1..(Len(files) + 1) : StartRenamed(n)
  BY <1>3, StartRenamedImport
<1>4. CASE StartDeadLetter
  BY <1>4, StartDeadLetterImport
<1>5. CASE \E i \in Lines : Post(i)
  BY <1>5, PostImport
<1>6. CASE Done \/ UNCHANGED vars
  <2>1. /\ sheet' = sheet /\ files' = files /\ input' = input /\ todo' = todo /\ dead' = dead
        /\ made' = made /\ runs' = runs /\ used' = used /\ madeNow' = madeNow
        /\ failed' = failed /\ doubtful' = doubtful /\ Lines' = Lines
        /\ (phase' = phase \/ phase' = "done")
    BY <1>6 DEF Done, vars, history, Lines
  <2>2. TypeOK'
    BY <2>1, SMT DEF ImportInv, TypeOK, Phases
  <2>3. NoLineIsLost' /\ DeadLettersAreNotCases' /\ UnreadAreNotCases' /\ NoFileYet'
    BY <2>1 DEF ImportInv, NoLineIsLost, DeadLettersAreNotCases, UnreadAreNotCases, NoFileYet
  <2>4. PlacedOnce'
    BY <2>1, FilesKept DEF ImportInv, PlacedOnce, Placed
  <2> QED BY <2>2, <2>3, <2>4 DEF ImportInv
<1> QED BY <1>1, <1>2, <1>3, <1>4, <1>5, <1>6 DEF Next

LEMMA ImportInvariant == Spec => []ImportInv
  BY InitImport, NextImport, PTL DEF Spec

\* The loop puts aside only lines of its file that it has read past
\* (historic-data/import-all).
THEOREM ImportTypes == Spec => []TypeOK
<1>1. ImportInv => TypeOK
  BY DEF ImportInv
<1> QED BY <1>1, ImportInvariant, PTL

\* Of any spreadsheet, however often it is run and wherever a run breaks off, every
\* line a run has read past is a case or a dead letter.
THEOREM LinesAreAccountedFor == Spec => []NoLineIsLost
<1>1. ImportInv => NoLineIsLost
  BY DEF ImportInv
<1> QED BY <1>1, ImportInvariant, PTL

\* A dead letter is a case as well only if the service failed after its commit.
THEOREM DeadLettersAreSafeToRepeat == Spec => []DeadLettersAreNotCases
<1>1. ImportInv => DeadLettersAreNotCases
  BY DEF ImportInv
<1> QED BY <1>1, ImportInvariant, PTL

\* Running any of the files there are, in any order and however often, makes no second
\* case of a line, unless a commit of it went unconfirmed or one file that holds it was
\* run twice (historic-data/import-all does not know what an earlier run has posted).
THEOREM RepeatsMakeNoDuplicates == Spec => []DuplicatesOnlyFromDoubt
<1>1. ImportInv => DuplicatesOnlyFromDoubt
  <2> SUFFICES ASSUME ImportInv, NEW i \in Lines, made[i] > 1, i \notin doubtful
               PROVE  Reused(i)
    BY DEF DuplicatesOnlyFromDoubt, Reused
  <2>1. ~Reused(i) => made[i] <= 1
    BY DEF ImportInv, PlacedOnce, Placed
  <2>2. made[i] \in Nat
    BY DEF ImportInv, TypeOK
  <2> QED BY <2>1, <2>2
<1> QED BY <1>1, ImportInvariant, PTL

-----------------------------------------------------------------------------
\* What the cells are read as.

\* What a field that is read from a cell becomes in the row that is inserted.
Sent(part) == CoercedPart(Json(part))

\* What the form reads of a field: JSON drops undefined and writes NaN as null, Ajv makes
\* a null the zero of its type.
LEMMA JsonKeeps ==
  ASSUME NEW part, NEW f \in DOMAIN part
  PROVE  /\ f \in DOMAIN Json(part) <=> part[f] # Undefined
         /\ DOMAIN Json(part) \subseteq DOMAIN part
         /\ DOMAIN Sent(part) = DOMAIN Json(part)
         /\ part[f] # Undefined => Json(part)[f] = IF part[f] = NaN THEN Null ELSE part[f]
         /\ part[f] \in {NaN, Null} => Json(part)[f] = Null /\ Sent(part)[f] = CoercedNull(f)
         /\ part[f] \notin {Undefined, NaN, Null} => Json(part)[f] # Null /\ Sent(part)[f] = part[f]
<1>1. DOMAIN Json(part) = {g \in DOMAIN part : part[g] # Undefined}
  BY DEF Json
<1>2. part[f] # Undefined => Json(part)[f] = IF part[f] = NaN THEN Null ELSE part[f]
  BY DEF Json
<1>3. /\ DOMAIN Sent(part) = DOMAIN Json(part)
      /\ f \in DOMAIN Json(part) =>
           Sent(part)[f] = IF Json(part)[f] = Null THEN CoercedNull(f) ELSE Json(part)[f]
  BY DEF Sent, CoercedPart
<1> QED BY <1>1, <1>2, <1>3, MarkersAssumption

\* Membership as a value.
LEMMA NotIn ==
  ASSUME NEW x, NEW S, x \notin S
  PROVE  (x \in S) = FALSE
  OBVIOUS

\* No marker is a truth value.
LEMMA Notable ==
  /\ Undefined \notin {TRUE, FALSE} /\ NaN \notin {TRUE, FALSE} /\ Null \notin {TRUE, FALSE}
  /\ TRUE # FALSE
BY MarkersAssumption

\* parseBoolean says yes to two words, and may have nothing to say.
LEMMA BooleanCell ==
  ASSUME NEW cell \in BooleanCells
  PROVE  /\ ParseBoolean(cell) \in {Undefined, TRUE, FALSE}
         /\ ParseBoolean(cell) = TRUE <=> cell \in {"Si", "Sin datos"}
<1>0. /\ Undefined # TRUE /\ Undefined # FALSE
      /\ Blank # "Si" /\ Blank # "No" /\ Blank # "Sin Datos" /\ Blank # "Sin datos"
  BY MarkersAssumption
<1>1. CASE cell \in {Blank, "Sin Datos"}
  <2>1. ParseBoolean(cell) = Undefined
    BY <1>1 DEF ParseBoolean
  <2> QED BY <1>0, <1>1, <2>1
<1>2. CASE cell \in {"Si", "Sin datos"}
  <2>1. cell \in BeginWithSi /\ cell \notin {Blank, "Sin Datos"}
    BY <1>0, <1>2 DEF BeginWithSi
  <2>2. ParseBoolean(cell) = TRUE
    BY <2>1 DEF ParseBoolean
  <2> QED BY <1>2, <2>2
<1>3. CASE cell = "No"
  <2>1. ~(cell \in BeginWithSi) /\ cell \notin {Blank, "Sin Datos"} /\ cell \notin {"Si", "Sin datos"}
    BY <1>0, <1>3 DEF BeginWithSi
  <2>2. ParseBoolean(cell) = FALSE
    <3>1. ParseBoolean(cell) = (cell \in BeginWithSi)
      BY <2>1 DEF ParseBoolean
    <3>2. (cell \in BeginWithSi) = FALSE
      BY <2>1, NotIn
    <3> QED BY <3>1, <3>2, Zenon
  <2> QED BY <2>1, <2>2
<1> QED BY <1>1, <1>2, <1>3 DEF BooleanCells

\* Of the other cells, what is undefined is what is empty or in no list.
LEMMA TextCell ==
  ASSUME NEW cell
  PROVE  /\ cell \notin {"", Undefined, NaN, Null} =>
              /\ ParseOptionalString(cell) = Undefined <=> cell = Blank
              /\ ParseOptionalString(cell) \notin {NaN, Null, ""}
         /\ ParseSecurityForce(cell) \in {Undefined, "POLICIA"}
         /\ ParseSecurityForce(cell) # Undefined <=> cell \in DOMAIN SecurityForces
         /\ ParsePlace(cell) \in {Undefined, "OTRO_LUGAR", "VIA_PUBLICA"}
<1>1. Undefined # "" /\ cell \notin {"", Undefined, NaN, Null} =>
              /\ ParseOptionalString(cell) = Undefined <=> cell = Blank
              /\ ParseOptionalString(cell) \notin {NaN, Null, ""}
  BY MarkersAssumption DEF ParseOptionalString
<1>2. "POLICIA" # Undefined
  BY MarkersAssumption DEF Written
<1>3. /\ ParseSecurityForce(cell) \in {Undefined, "POLICIA"}
      /\ ParseSecurityForce(cell) # Undefined <=> cell \in DOMAIN SecurityForces
  BY <1>2 DEF ParseSecurityForce, Looked, SecurityForces
<1>4. ParsePlace(cell) \in {Undefined, "OTRO_LUGAR", "VIA_PUBLICA"}
  BY DEF ParsePlace, Looked, Places
<1>5. Undefined # ""
  BY MarkersAssumption DEF Written
<1> QED BY <1>1, <1>3, <1>4, <1>5

\* What a yes/no cell, or an answer made of several, can be.
Said == {Undefined, TRUE, FALSE}

SaysYes(cell) == cell \in {"Si", "Sin datos"}

\* A disjunction of answers, of which the last may be undefined.
LEMMA OrIs ==
  ASSUME NEW a, NEW b \in Said
  PROVE  /\ Or(a, b) \in Said
         /\ Or(a, b) = TRUE <=> a = TRUE \/ b = TRUE
         /\ b # Undefined => Or(a, b) # Undefined
<1>1. CASE a = TRUE
  BY <1>1, Notable DEF Or, Said
<1>2. CASE a # TRUE
  BY <1>2 DEF Or
<1> QED BY <1>1, <1>2

\* Positive as a value.
LEMMA PositiveIs ==
  ASSUME NEW n
  PROVE  /\ Positive(n) \in BOOLEAN
         /\ Positive(n) = TRUE <=> (n \in Int /\ n > 0)
<1>1. Positive(n) \in BOOLEAN
  BY DEF Positive
<1>2. Positive(n) <=> (n \in Int /\ n > 0)
  BY DEF Positive
<1> QED BY <1>1, <1>2

\* A count is undefined when its cell is empty.
LEMMA NumberCell ==
  ASSUME NEW cell \in Int \cup {Blank}
  PROVE  /\ Positive(ParseInteger(cell)) = TRUE <=> Positive(cell) = TRUE
         /\ ParseInteger(cell) = Undefined <=> cell = Blank
         /\ cell # Blank => ParseInteger(cell) = cell /\ cell \in Int
         /\ Positive(ParseInteger(cell)) = TRUE => ParseInteger(cell) \in Int /\ ParseInteger(cell) > 0
<1>1. Undefined \notin Int /\ Blank \notin Int
  BY MarkersAssumption
<1>2. /\ Positive(cell) = TRUE <=> (cell \in Int /\ cell > 0)
      /\ Positive(ParseInteger(cell)) = TRUE <=> (ParseInteger(cell) \in Int /\ ParseInteger(cell) > 0)
  BY PositiveIs
<1>3. CASE cell = Blank
  <2>1. ParseInteger(cell) = Undefined
    BY <1>3 DEF ParseInteger
  <2> QED BY <1>1, <1>2, <1>3, <2>1
<1>4. CASE cell # Blank
  <2>1. ParseInteger(cell) = cell /\ cell \in Int
    BY <1>4 DEF ParseInteger
  <2> QED BY <1>1, <1>2, <1>4, <2>1
<1> QED BY <1>3, <1>4

\* What the conversion builds of each group of cells.
ComplaintsBuilt(row, c) ==
  /\ c["wasJudicialized"] \in Said
  /\ c["wasJudicialized"] = TRUE <=> SaysYes(row.wasJudicialized)
  /\ c["totalLegalComplaints"] # Undefined =>
       c["totalLegalComplaints"] \in Int /\ c["hadLegalComplaints"] = TRUE
  /\ c["hadLegalComplaints"] \in Said
  /\ c["wasJudicialized"] # Undefined => c["hadLegalComplaints"] # Undefined
  /\ c["hadLegalComplaints"] = TRUE <=>
       SaysYes(row.hadLegalComplaints) \/ Positive(row.totalLegalComplaints)
         \/ SaysYes(row.wasJudicialized)

OrganizedBuilt(row, c) ==
  /\ c["isRelatedToOrganizedCrime"] \in {TRUE, FALSE, Null}
  /\ c["organizedCrimeNotes"] # Undefined <=> c["isRelatedToOrganizedCrime"] = TRUE
  /\ c["organizedCrimeNotes"] \notin {NaN, Null, ""}
  /\ c["isRelatedToOrganizedCrime"] = TRUE <=>
       SaysYes(row.isRelatedToOrganizedCrime) \/ row.organizedCrimeNotes # Blank

MediaBuilt(row, c) ==
  /\ c["hasMediaGenderPerspective"] \in Said
  /\ c["hasMediaGenderPerspective"] = TRUE <=> SaysYes(row.mediaGenderApproach)
  /\ c["coverageMediaPerspectiveNotes"] = Undefined <=> c["hasMediaGenderPerspective"] = Undefined
  /\ c["coverageMediaPerspectiveNotes"] \notin {NaN, Null, ""}

\* buildCase: complaints and courts.
LEMMA ComplaintsOfRow ==
  ASSUME NEW row, Filled(row)
  PROVE  ComplaintsBuilt(row, BuildCase(row))
<1> DEFINE c == BuildCase(row)
           total == ParseInteger(row.totalLegalComplaints)
           had == ParseBoolean(row.hadLegalComplaints)
           was == ParseBoolean(row.wasJudicialized)
           inner == Or(had, Positive(total))
<1>1. /\ c["wasJudicialized"] = was
      /\ c["totalLegalComplaints"] = IF Positive(total) THEN total ELSE Undefined
      /\ c["hadLegalComplaints"] = Or(inner, was)
  BY DEF BuildCase
<1>2. row.hadLegalComplaints \in BooleanCells /\ row.wasJudicialized \in BooleanCells
      /\ row.totalLegalComplaints \in Int \cup {Blank}
  BY DEF Filled
<1>3. /\ was \in Said /\ (was = TRUE <=> SaysYes(row.wasJudicialized))
      /\ had = TRUE <=> SaysYes(row.hadLegalComplaints)
  BY <1>2, BooleanCell DEF Said, SaysYes
<1>4. /\ Positive(total) \in BOOLEAN
      /\ Positive(total) = TRUE <=> Positive(row.totalLegalComplaints) = TRUE
      /\ Positive(total) = TRUE => total \in Int
      /\ Positive(row.totalLegalComplaints) \in BOOLEAN
  BY <1>2, NumberCell, PositiveIs
<1>5. Positive(total) \in Said
  BY <1>4 DEF Said
<1> HIDE DEF c, total, had, was
<1>6. inner = TRUE <=> had = TRUE \/ Positive(total) = TRUE
  BY <1>5, OrIs
<1> HIDE DEF inner
<1>7. /\ Or(inner, was) \in Said
      /\ Or(inner, was) = TRUE <=> inner = TRUE \/ was = TRUE
      /\ was # Undefined => Or(inner, was) # Undefined
  BY <1>3, OrIs
<1>8. c["totalLegalComplaints"] # Undefined => Positive(total) = TRUE /\ c["totalLegalComplaints"] = total
  BY <1>1, <1>4
<1>9. (Positive(row.totalLegalComplaints) = TRUE) <=> Positive(row.totalLegalComplaints)
  BY <1>4
<1>10. c["hadLegalComplaints"] = TRUE <=>
         SaysYes(row.hadLegalComplaints) \/ Positive(row.totalLegalComplaints)
           \/ SaysYes(row.wasJudicialized)
  BY <1>1, <1>3, <1>4, <1>6, <1>7, <1>9
<1>11. c["totalLegalComplaints"] # Undefined =>
         c["totalLegalComplaints"] \in Int /\ c["hadLegalComplaints"] = TRUE
  BY <1>1, <1>4, <1>6, <1>7, <1>8
<1> QED BY <1>1, <1>3, <1>7, <1>10, <1>11 DEF ComplaintsBuilt, c

\* buildCase: organized crime, whose notes come with a yes and only with it.
LEMMA OrganizedOfRow ==
  ASSUME NEW row, Filled(row)
  PROVE  OrganizedBuilt(row, BuildCase(row))
<1> DEFINE c == BuildCase(row)
           notes == ParseOptionalString(row.organizedCrimeNotes)
           said == ParseBoolean(row.isRelatedToOrganizedCrime)
           o == OrganizedCrime(row)
<1>1. c["isRelatedToOrganizedCrime"] = o.is /\ c["organizedCrimeNotes"] = o.notes
  BY DEF BuildCase
<1>2. /\ row.isRelatedToOrganizedCrime \in BooleanCells
      /\ row.organizedCrimeNotes \notin {"", Undefined, NaN, Null}
  BY DEF Filled
<1>3. /\ said \in {Undefined, TRUE, FALSE}
      /\ said = TRUE <=> SaysYes(row.isRelatedToOrganizedCrime)
  BY <1>2, BooleanCell DEF SaysYes
<1>4. /\ notes = Undefined <=> row.organizedCrimeNotes = Blank
      /\ notes \notin {NaN, Null, ""}
  BY <1>2, TextCell
<1>5. "Pending notes" \notin {Undefined, NaN, Null, ""} /\ Undefined # ""
  BY MarkersAssumption DEF Written
<1>6. o = CASE notes # Undefined -> [is |-> TRUE, notes |-> notes]
            [] notes = Undefined /\ said = TRUE -> [is |-> TRUE, notes |-> "Pending notes"]
            [] notes = Undefined /\ said = FALSE -> [is |-> FALSE, notes |-> Undefined]
            [] notes = Undefined /\ said = Undefined -> [is |-> Null, notes |-> Undefined]
  BY DEF OrganizedCrime
<1> HIDE DEF c, notes, said, o
<1>7. CASE notes # Undefined
  <2>1. o = [is |-> TRUE, notes |-> notes]
    BY <1>6, <1>7
  <2>2. o.is = TRUE /\ o.notes = notes
    BY <2>1
  <2> QED BY <1>1, <1>4, <1>7, <2>2 DEF OrganizedBuilt, c
<1>8. CASE notes = Undefined /\ said = TRUE
  <2>1. o = [is |-> TRUE, notes |-> "Pending notes"]
    BY <1>6, <1>8, Notable
  <2>2. o.is = TRUE /\ o.notes = "Pending notes"
    BY <2>1
  <2> QED BY <1>1, <1>3, <1>5, <1>8, <2>2 DEF OrganizedBuilt, c
<1>9. CASE notes = Undefined /\ said = FALSE
  <2>1. o = [is |-> FALSE, notes |-> Undefined]
    BY <1>6, <1>9, Notable
  <2>2. o.is = FALSE /\ o.notes = Undefined
    BY <2>1
  <2>3. ~SaysYes(row.isRelatedToOrganizedCrime) /\ row.organizedCrimeNotes = Blank
    BY <1>3, <1>4, <1>9
  <2> QED BY <1>1, <1>5, <2>2, <2>3, MarkersAssumption, Notable DEF OrganizedBuilt, c
<1>10. CASE notes = Undefined /\ said = Undefined
  <2>1. o = [is |-> Null, notes |-> Undefined]
    BY <1>6, <1>10, Notable
  <2>2. o.is = Null /\ o.notes = Undefined
    BY <2>1
  <2>3. ~SaysYes(row.isRelatedToOrganizedCrime) /\ row.organizedCrimeNotes = Blank
    BY <1>3, <1>4, <1>10, Notable
  <2> QED BY <1>1, <1>5, <2>2, <2>3, MarkersAssumption, Notable DEF OrganizedBuilt, c
<1> QED BY <1>3, <1>7, <1>8, <1>9, <1>10

\* buildCase: the coverage, whose notes come with any answer.
LEMMA MediaOfRow ==
  ASSUME NEW row, Filled(row)
  PROVE  MediaBuilt(row, BuildCase(row))
<1> DEFINE c == BuildCase(row)
           perspective == ParseBoolean(row.mediaGenderApproach)
<1>1. /\ c["hasMediaGenderPerspective"] = perspective
      /\ c["coverageMediaPerspectiveNotes"] = IF perspective = Undefined THEN Undefined ELSE "Notas pendientes"
  BY DEF BuildCase
<1>2. row.mediaGenderApproach \in BooleanCells
  BY DEF Filled
<1>3. perspective \in Said /\ (perspective = TRUE <=> SaysYes(row.mediaGenderApproach))
  BY <1>2, BooleanCell DEF Said, SaysYes
<1>4. "Notas pendientes" \notin {Undefined, NaN, Null, ""} /\ Undefined \notin {NaN, Null, ""}
  BY MarkersAssumption DEF Written
<1> HIDE DEF c, perspective
<1> QED BY <1>1, <1>3, <1>4 DEF MediaBuilt, c

\* buildCase: the required fields, and which fields there are.
LEMMA PlaceOfRow ==
  ASSUME NEW row, Filled(row)
  PROVE  /\ BuildCase(row)["place"] \notin {NaN, Null}
         /\ (~MissingRequired(row) /\ ~UnlistedText(row)) =>
              BuildCase(row)["place"] # Undefined /\ BuildCase(row)["place"] \in CasePlaces
         /\ BuildCase(row)["generalNotes"] \notin {NaN, Null}
         /\ DOMAIN BuildCase(row) = CaseFields \ {"judicialMeasures"}
<1>1. BuildCase(row)["place"] = RequiredFields(row)
  BY DEF BuildCase
<1>2. ParsePlace(row.place) \in {Undefined, "OTRO_LUGAR", "VIA_PUBLICA"}
  BY TextCell
<1>3. /\ "OTRO_LUGAR" \notin {Undefined, NaN, Null} /\ "VIA_PUBLICA" \notin {Undefined, NaN, Null}
      /\ "CRIMEN_DE_ODIO" \notin {NaN, Null} /\ Undefined \notin {NaN, Null}
  BY MarkersAssumption DEF Written
<1>7. ParseCaseCategory(row.caseCategory) \in {Undefined, "FEMICIDIO_DIRECTO", "CRIMEN_DE_ODIO"}
  BY DEF ParseCaseCategory, Looked, Categories
<1>8. RequiredFields(row) \in {Undefined, "CRIMEN_DE_ODIO", "OTRO_LUGAR", "VIA_PUBLICA"}
  BY <1>2, <1>7 DEF RequiredFields, CaseCategories
<1>9. ~MissingRequired(row) /\ ~UnlistedText(row) =>
        RequiredFields(row) \in {"OTRO_LUGAR", "VIA_PUBLICA"}
  BY <1>2 DEF RequiredFields, MissingRequired, UnlistedText
<1>4. BuildCase(row)["generalNotes"] = ParseOptionalString(row.generalNotes)
  BY DEF BuildCase
<1>5. ParseOptionalString(row.generalNotes) \notin {NaN, Null}
  BY TextCell DEF Filled
<1>6. DOMAIN BuildCase(row) = CaseFields \ {"judicialMeasures"}
  BY DEF BuildCase, CaseFields
<1> QED BY <1>1, <1>3, <1>4, <1>5, <1>6, <1>8, <1>9 DEF CasePlaces

\* The same of the aggressor and of the victim.
AggressorBuilt(row, a) ==
  /\ a["securityForce"] \in {Undefined, "POLICIA"}
  /\ a["belongsSecurityForce"] \in Said
  /\ a["securityForce"] # Undefined => a["belongsSecurityForce"] = TRUE
  /\ a["belongsSecurityForce"] = TRUE <=>
       SaysYes(row.belongsSecurityForce) \/ row.securityForce \in DOMAIN SecurityForces

VictimBuilt(row, v) ==
  /\ v["fullName"] \notin {NaN, Null}
  /\ v["nationality"] \notin {NaN, Null}
  /\ ~UnlistedText(row) => v["nationality"] \in {Undefined} \cup Nationalities
  /\ v["ageOfChildren"] = IF row.agesOfChildren > 0 THEN row.agesOfChildren ELSE Undefined
  /\ IF row.numberOfChildren = Blank THEN v["numberOfChildren"] = NaN
     ELSE /\ v["numberOfChildren"] \in Int
          /\ v["numberOfChildren"] >= row.agesOfChildren
          /\ v["numberOfChildren"] > row.agesOfChildren => v["numberOfChildren"] = row.numberOfChildren
  /\ v["hasChildren"] \in {TRUE, FALSE}
  /\ v["hasChildren"] = TRUE <=>
       SaysYes(row.hasChildren) \/ row.agesOfChildren > 0 \/ Positive(row.numberOfChildren)

\* buildAggressor: whoever is in a listed force belongs to one.
LEMMA AggressorOfRow ==
  ASSUME NEW row, Filled(row)
  PROVE  /\ AggressorBuilt(row, BuildAggressor(row))
         /\ DOMAIN BuildAggressor(row) = AggressorFields \ {"fullName"}
<1> DEFINE a == BuildAggressor(row)
           force == ParseSecurityForce(row.securityForce)
           said == ParseBoolean(row.belongsSecurityForce)
           listed == force # Undefined
<1>1. a["securityForce"] = force /\ a["belongsSecurityForce"] = Or(said, listed)
  BY DEF BuildAggressor
<1>2. /\ force \in {Undefined, "POLICIA"}
      /\ force # Undefined <=> row.securityForce \in DOMAIN SecurityForces
  BY TextCell
<1>3. row.belongsSecurityForce \in BooleanCells
  BY DEF Filled
<1>4. said \in Said /\ (said = TRUE <=> SaysYes(row.belongsSecurityForce))
  BY <1>3, BooleanCell DEF Said, SaysYes
<1>5. listed \in BOOLEAN /\ (listed = TRUE <=> force # Undefined)
  OBVIOUS
<1>6. listed \in Said /\ listed # Undefined
  BY <1>5, Notable DEF Said
<1>7. DOMAIN a = AggressorFields \ {"fullName"}
  BY DEF BuildAggressor, AggressorFields
<1> HIDE DEF a, force, said, listed
<1>8. Or(said, listed) \in Said /\ (Or(said, listed) = TRUE <=> said = TRUE \/ listed = TRUE)
  BY <1>6, OrIs
<1>9. AggressorBuilt(row, a)
  BY <1>1, <1>2, <1>4, <1>5, <1>8 DEF AggressorBuilt
<1> QED BY <1>7, <1>9 DEF a

\* Math.max of the count and of how many ages there are.
LEMMA LargerIs ==
  ASSUME NEW cell \in Int \cup {Blank}, NEW ages \in Nat
  PROVE  /\ cell = Blank => Larger(ParseInteger(cell), ages) = NaN
         /\ cell # Blank => /\ Larger(ParseInteger(cell), ages) \in Int
                            /\ Larger(ParseInteger(cell), ages) >= ages
                            /\ Larger(ParseInteger(cell), ages) > ages => Larger(ParseInteger(cell), ages) = cell
                            /\ cell > ages => Larger(ParseInteger(cell), ages) = cell
<1>1. CASE cell = Blank
  BY <1>1 DEF ParseInteger, Larger
<1>2. CASE cell # Blank
  <2>1. ParseInteger(cell) = cell /\ cell \in Int
    BY <1>2 DEF ParseInteger
  <2>2. cell # Undefined
    BY <2>1, MarkersAssumption
  <2> QED BY <1>2, <2>1, <2>2 DEF Larger
<1> QED BY <1>1, <1>2

\* A nationality is sent as it is told, unless the sheet tells none.
LEMMA NationalityIs ==
  ASSUME NEW row, Filled(row)
  PROVE  /\ BuildVictim(row)["nationality"] \notin {NaN, Null}
         /\ ~UnlistedText(row) => BuildVictim(row)["nationality"] \in {Undefined} \cup Nationalities
<1> DEFINE cell == row.victimNationality
           said == ParseNationality(row.victimNationality)
           sentAs == BuildVictim(row)["nationality"]
<1>1. sentAs = IF said \in NoData THEN Undefined ELSE said
  BY DEF BuildVictim
<1>2. cell \notin {NaN, Null}
  BY DEF Filled
<1>3. /\ cell = Blank => said = Undefined
      /\ cell # Blank /\ cell \in OtherCountries => said = "OTRA"
      /\ cell # Blank /\ cell \notin OtherCountries => said = cell
  BY Zenon DEF ParseNationality
<1>4. "OTRA" \notin {NaN, Null} /\ Undefined \notin {NaN, Null}
  BY MarkersAssumption DEF Written
<1>5. ~UnlistedText(row) => cell \in Nationalities \cup OtherCountries \cup NoData \cup {Blank}
  BY DEF UnlistedText
<1> HIDE DEF cell, said, sentAs
<1>6. sentAs \notin {NaN, Null}
  BY <1>1, <1>2, <1>3, <1>4
<1>7. cell \in Nationalities \cup OtherCountries \cup NoData \cup {Blank} =>
        sentAs \in {Undefined} \cup Nationalities
  BY <1>1, <1>3 DEF Nationalities
<1> QED BY <1>5, <1>6, <1>7 DEF sentAs

\* buildVictim: children are counted, or have ages, or are said to be.
LEMMA VictimOfRow ==
  ASSUME NEW row, Filled(row)
  PROVE  /\ VictimBuilt(row, BuildVictim(row))
         /\ DOMAIN BuildVictim(row) = VictimFields
<1> DEFINE v == BuildVictim(row)
           ages == row.agesOfChildren
           cell == row.numberOfChildren
           number == Larger(ParseInteger(row.numberOfChildren), row.agesOfChildren)
           said == ParseBoolean(row.hasChildren)
           shown == Positive(number) \/ row.agesOfChildren > 0
<1>1. /\ v["fullName"] = ParseOptionalString(row.victimFullName)
      /\ v["ageOfChildren"] = IF ages > 0 THEN ages ELSE Undefined
      /\ v["numberOfChildren"] = number
      /\ v["hasChildren"] = Or(said, shown)
  BY DEF BuildVictim
<1>2. /\ row.hasChildren \in BooleanCells
      /\ cell \in Int \cup {Blank}
      /\ ages \in Nat
      /\ row.victimFullName \notin {"", Undefined, NaN, Null}
  BY DEF Filled
<1>3. said \in Said /\ (said = TRUE <=> SaysYes(row.hasChildren))
  BY <1>2, BooleanCell DEF Said, SaysYes
<1>4. ParseOptionalString(row.victimFullName) \notin {NaN, Null}
  BY <1>2, TextCell
<1>5. /\ cell = Blank => number = NaN
      /\ cell # Blank => /\ number \in Int
                         /\ number >= ages
                         /\ number > ages => number = cell
                         /\ cell > ages => number = cell
  BY <1>2, LargerIs
<1>6. Positive(number) <=> number \in Int /\ number > 0
  BY DEF Positive
<1>7. Positive(cell) <=> cell \in Int /\ cell > 0
  BY DEF Positive
<1>8. shown \in BOOLEAN /\ (shown = TRUE <=> Positive(number) \/ ages > 0)
  OBVIOUS
<1>9. DOMAIN v = VictimFields
  BY DEF BuildVictim, VictimFields
<1>10. NaN \notin Int /\ Blank \notin Int
  BY MarkersAssumption
<1>11. shown \in Said /\ shown # Undefined
  BY <1>8, Notable DEF Said
<1> HIDE DEF v, ages, cell, number, said, shown
<1>12. /\ Or(said, shown) \in Said
       /\ Or(said, shown) = TRUE <=> said = TRUE \/ shown = TRUE
       /\ Or(said, shown) # Undefined
  BY <1>11, OrIs
<1>13. Positive(number) \/ ages > 0 <=> Positive(cell) \/ ages > 0
  <2>1. CASE cell = Blank
    BY <1>5, <1>6, <1>7, <1>10, <2>1
  <2>2. CASE cell # Blank
    <3>0. cell \in Int /\ ages \in Nat
      BY <1>2, <2>2
    <3>1. /\ number \in Int /\ number >= ages
          /\ number > ages => number = cell
          /\ cell > ages => number = cell
      BY <1>5, <2>2, Zenon
    <3>2. Positive(number) <=> number > 0
      BY <1>6, <3>1
    <3>3. Positive(cell) <=> cell > 0
      BY <1>7, <3>0
    <3>4. (number > 0 \/ ages > 0) <=> (cell > 0 \/ ages > 0)
      BY <3>0, <3>1
    <3> QED BY <3>2, <3>3, <3>4
  <2> QED BY <2>1, <2>2
<1>14. Or(said, shown) = TRUE <=> SaysYes(row.hasChildren) \/ ages > 0 \/ Positive(cell)
  BY <1>3, <1>8, <1>12, <1>13
<1>15. Or(said, shown) \in {TRUE, FALSE}
  BY <1>12 DEF Said
<1>16. IF cell = Blank THEN v["numberOfChildren"] = NaN
       ELSE /\ v["numberOfChildren"] \in Int
            /\ v["numberOfChildren"] >= ages
            /\ v["numberOfChildren"] > ages => v["numberOfChildren"] = cell
  BY <1>1, <1>5
<1>17. VictimBuilt(row, v)
  <2>1. /\ v["nationality"] \notin {NaN, Null}
        /\ ~UnlistedText(row) => v["nationality"] \in {Undefined} \cup Nationalities
    BY NationalityIs DEF v
  <2> QED BY <1>1, <1>4, <1>14, <1>15, <1>16, <2>1 DEF VictimBuilt, ages, cell
<1> QED BY <1>9, <1>17 DEF v

\* How the rules of the form read the body, by the type of the field.
LEMMA ReadsOfSent ==
  ASSUME NEW part, NEW f \in DOMAIN part
  PROVE  /\ Has(Sent(part), f) <=>
              /\ part[f] # Undefined
              /\ part[f] \in {NaN, Null} => CoercedNull(f) # Null
         /\ f \in BooleanFields \cup IntegerFields \cup TextFields =>
              (Has(Sent(part), f) <=> part[f] # Undefined)
         /\ f \in BooleanFields => (IsTrue(Sent(part), f) <=> part[f] = TRUE)
         /\ f \in IntegerFields =>
              (NonZero(Sent(part), f) <=> part[f] \notin {Undefined, NaN, Null, 0})
         /\ f \in TextFields =>
              (NonEmpty(Sent(part), f) <=> part[f] \notin {Undefined, NaN, Null, ""})
<1> DEFINE p == Sent(part)
           n == CoercedNull(f)
<1>1. /\ f \in DOMAIN p <=> part[f] # Undefined
      /\ part[f] \in {NaN, Null} => p[f] = n
      /\ part[f] \notin {Undefined, NaN, Null} => p[f] = part[f]
  BY JsonKeeps
<1>2. /\ f \in BooleanFields => n = FALSE
      /\ f \in IntegerFields => n = 0
      /\ f \in TextFields => n = ""
  <2>1. /\ f \in BooleanFields => f \notin IntegerFields /\ f \notin TextFields
        /\ f \in IntegerFields => f \notin BooleanFields /\ f \notin TextFields
        /\ f \in TextFields => f \notin BooleanFields /\ f \notin IntegerFields
    BY DEF BooleanFields, IntegerFields, TextFields
  <2>2. f \in BooleanFields => n = FALSE
    BY <2>1, Zenon DEF CoercedNull
  <2>3. f \in IntegerFields => n = 0
    BY <2>1, Zenon DEF CoercedNull
  <2>4. f \in TextFields => n = ""
    BY <2>1, Zenon DEF CoercedNull
  <2> QED BY <2>2, <2>3, <2>4, Zenon
<1>3. FALSE # Null /\ 0 # Null /\ "" # Null
  <2>1. FALSE # Null
    BY Notable
  <2>2. Null \notin Int /\ Null \notin Written
    BY MarkersAssumption
  <2>3. 0 # Null
    BY <2>2
  <2>4. "" # Null
    BY <2>2 DEF Written
  <2> QED BY <2>1, <2>3, <2>4, Zenon
<1>4. Undefined \notin {NaN, Null}
  BY MarkersAssumption
<1>5. TRUE \notin {Undefined, NaN, Null}
  BY Notable
<1> HIDE DEF p, n
<1>6. Has(p, f) <=> part[f] # Undefined /\ (part[f] \in {NaN, Null} => n # Null)
  BY <1>1, <1>4 DEF Has
<1>7. f \in BooleanFields \cup IntegerFields \cup TextFields => (Has(p, f) <=> part[f] # Undefined)
  BY <1>2, <1>3, <1>6
<1>8. f \in BooleanFields => (IsTrue(p, f) <=> part[f] = TRUE)
  BY <1>1, <1>2, <1>3, <1>4, <1>5, <1>7, Notable DEF IsTrue
<1>9. f \in IntegerFields => (NonZero(p, f) <=> part[f] \notin {Undefined, NaN, Null, 0})
  BY <1>1, <1>2, <1>3, <1>4, <1>7 DEF NonZero
<1>10. f \in TextFields => (NonEmpty(p, f) <=> part[f] \notin {Undefined, NaN, Null, ""})
  BY <1>1, <1>2, <1>3, <1>4, <1>7 DEF NonEmpty
<1> QED BY <1>6, <1>7, <1>8, <1>9, <1>10 DEF p, n

-----------------------------------------------------------------------------
\* How the form reads the body of a row.

\* The answers of the parts that hold a yes/no field, as the registry stores them.
LEMMA StoredYes ==
  ASSUME NEW part, NEW fields, NEW f \in DOMAIN part, f \in fields, f \in BooleanFields
  PROVE  InsertedRow(fields, Sent(part))[f] = TRUE <=> part[f] = TRUE
<1> DEFINE p == Sent(part)
<1>1. IsTrue(p, f) <=> part[f] = TRUE
  BY ReadsOfSent
<1> HIDE DEF p
<1>2. InsertedRow(fields, p)[f] = IF f \in DOMAIN p THEN p[f] ELSE Null
  BY DEF InsertedRow
<1>3. InsertedRow(fields, p)[f] = TRUE <=> IsTrue(p, f)
  BY <1>2, Notable DEF IsTrue, Has
<1> QED BY <1>1, <1>3 DEF p

\* A row that lacks no required field, has no text that no list of the form has, and
\* gives no ages without a number.
Sound(row) ==
  Filled(row) /\ ~MissingRequired(row) /\ ~UnlistedText(row) /\ ~AgesWithoutNumber(row)

\* The parts of a body, as sent and as the rules read them.
LEMMA PartsOfBody ==
  ASSUME NEW row
  PROVE  /\ Body(row).case = Json(BuildCase(row))
         /\ Body(row).victim = Json(BuildVictim(row))
         /\ Body(row).aggressor = Json(BuildAggressor(row))
         /\ Coerced(Body(row)).case = Sent(BuildCase(row))
         /\ Coerced(Body(row)).victim = Sent(BuildVictim(row))
         /\ Coerced(Body(row)).aggressor = Sent(BuildAggressor(row))
  BY DEF Body, Coerced, Sent

\* A part passes the schema if what becomes null is of a primitive type.
LEMMA Coercible ==
  ASSUME NEW part,
         \A f \in DOMAIN part :
           part[f] \in {NaN, Null} => f \in BooleanFields \cup IntegerFields \cup TextFields
  PROVE  OnlyCoercibleNulls(Json(part))
<1> SUFFICES ASSUME NEW f \in DOMAIN Json(part), Json(part)[f] = Null
             PROVE  f \in BooleanFields \cup IntegerFields \cup TextFields
  BY DEF OnlyCoercibleNulls
<1>1. f \in DOMAIN part /\ part[f] # Undefined
  BY DEF Json
<1>2. Json(part)[f] = IF part[f] = NaN THEN Null ELSE part[f]
  BY <1>1, JsonKeeps
<1>3. part[f] \in {NaN, Null}
  BY <1>2
<1> QED BY <1>1, <1>3

\* A field is sent if it is not undefined.
LEMMA DomainsOfBody ==
  ASSUME NEW row, Filled(row)
  PROVE  /\ \A f \in CaseFields \ {"judicialMeasures"} :
              f \in DOMAIN BuildCase(row) /\ (f \in DOMAIN Body(row).case <=> BuildCase(row)[f] # Undefined)
         /\ "judicialMeasures" \notin DOMAIN Body(row).case
         /\ \A f \in VictimFields :
              f \in DOMAIN BuildVictim(row) /\ (f \in DOMAIN Body(row).victim <=> BuildVictim(row)[f] # Undefined)
         /\ \A f \in AggressorFields \ {"fullName"} :
              f \in DOMAIN BuildAggressor(row) /\ (f \in DOMAIN Body(row).aggressor <=> BuildAggressor(row)[f] # Undefined)
         /\ DOMAIN Body(row).case \subseteq CaseFields
         /\ DOMAIN Body(row).victim \subseteq VictimFields
         /\ DOMAIN Body(row).aggressor \subseteq AggressorFields
<1>1. /\ DOMAIN BuildCase(row) = CaseFields \ {"judicialMeasures"}
      /\ DOMAIN BuildVictim(row) = VictimFields
      /\ DOMAIN BuildAggressor(row) = AggressorFields \ {"fullName"}
  BY PlaceOfRow, VictimOfRow, AggressorOfRow
<1>2. \A part : DOMAIN Json(part) = {g \in DOMAIN part : part[g] # Undefined}
  BY DEF Json
<1>3. /\ DOMAIN Body(row).case = {g \in DOMAIN BuildCase(row) : BuildCase(row)[g] # Undefined}
      /\ DOMAIN Body(row).victim = {g \in DOMAIN BuildVictim(row) : BuildVictim(row)[g] # Undefined}
      /\ DOMAIN Body(row).aggressor = {g \in DOMAIN BuildAggressor(row) : BuildAggressor(row)[g] # Undefined}
  BY <1>2, PartsOfBody
<1> QED BY <1>1, <1>3

\* The rules of the form, one group of fields at a time.
LEMMA ComplaintsAccepted ==
  ASSUME NEW row, Sound(row)
  PROVE  /\ DependentRequired(Body(row).case, "totalLegalComplaints", "hadLegalComplaints")
         /\ DependentRequired(Body(row).case, "wasJudicialized", "hadLegalComplaints")
         /\ DependentRequired(Body(row).case, "judicialMeasures", "wasJudicialized")
         /\ LegalComplaintsRule(Sent(BuildCase(row)))
         /\ JudicialMeasuresRule(Sent(BuildCase(row)))
<1> DEFINE c == BuildCase(row)
<1>1. /\ c["totalLegalComplaints"] # Undefined => c["hadLegalComplaints"] = TRUE
      /\ c["wasJudicialized"] # Undefined => c["hadLegalComplaints"] # Undefined
      /\ c["wasJudicialized"] = TRUE => c["hadLegalComplaints"] = TRUE
  BY ComplaintsOfRow DEF ComplaintsBuilt, Sound
<1>2. \A f \in {"totalLegalComplaints", "hadLegalComplaints", "wasJudicialized"} :
        f \in DOMAIN c /\ (f \in DOMAIN Body(row).case <=> c[f] # Undefined)
  BY DomainsOfBody DEF Sound, CaseFields
<1>3. "judicialMeasures" \notin DOMAIN Body(row).case
  BY DomainsOfBody DEF Sound
<1>4. /\ DependentRequired(Body(row).case, "totalLegalComplaints", "hadLegalComplaints")
      /\ DependentRequired(Body(row).case, "wasJudicialized", "hadLegalComplaints")
      /\ DependentRequired(Body(row).case, "judicialMeasures", "wasJudicialized")
  BY <1>1, <1>2, <1>3, Notable DEF DependentRequired
<1>5. DOMAIN Sent(c) = DOMAIN Body(row).case
  <2>1. \A part : DOMAIN CoercedPart(part) = DOMAIN part
    BY DEF CoercedPart
  <2> QED BY <2>1, PartsOfBody DEF Sent
<1>6. JudicialMeasuresRule(Sent(c))
  BY <1>3, <1>5 DEF JudicialMeasuresRule, Has
<1>7. /\ IsTrue(Sent(c), "hadLegalComplaints") <=> c["hadLegalComplaints"] = TRUE
      /\ IsTrue(Sent(c), "wasJudicialized") <=> c["wasJudicialized"] = TRUE
      /\ NonZero(Sent(c), "totalLegalComplaints") => c["totalLegalComplaints"] # Undefined
  <2>1. "hadLegalComplaints" \in BooleanFields /\ "wasJudicialized" \in BooleanFields
        /\ "totalLegalComplaints" \in IntegerFields
    BY DEF BooleanFields, IntegerFields
  <2>2. "hadLegalComplaints" \in DOMAIN c /\ "wasJudicialized" \in DOMAIN c
        /\ "totalLegalComplaints" \in DOMAIN c
    BY <1>2
  <2> HIDE DEF c
  <2>3. IsTrue(Sent(c), "hadLegalComplaints") <=> c["hadLegalComplaints"] = TRUE
    BY <2>1, <2>2, ReadsOfSent
  <2>4. IsTrue(Sent(c), "wasJudicialized") <=> c["wasJudicialized"] = TRUE
    BY <2>1, <2>2, ReadsOfSent
  <2>5. NonZero(Sent(c), "totalLegalComplaints") => c["totalLegalComplaints"] # Undefined
    BY <2>1, <2>2, ReadsOfSent
  <2> QED BY <2>3, <2>4, <2>5
<1>8. LegalComplaintsRule(Sent(c))
  BY <1>1, <1>7 DEF LegalComplaintsRule
<1> QED BY <1>4, <1>6, <1>8

LEMMA OrganizedAccepted ==
  ASSUME NEW row, Sound(row)
  PROVE  /\ DependentRequired(Body(row).case, "organizedCrimeNotes", "isRelatedToOrganizedCrime")
         /\ OrganizedCrimeRule(Sent(BuildCase(row)))
<1> DEFINE c == BuildCase(row)
<1>1. /\ c["isRelatedToOrganizedCrime"] \in {TRUE, FALSE, Null}
      /\ c["organizedCrimeNotes"] # Undefined <=> c["isRelatedToOrganizedCrime"] = TRUE
      /\ c["organizedCrimeNotes"] \notin {NaN, Null, ""}
  BY OrganizedOfRow DEF OrganizedBuilt, Sound
<1>2. \A f \in {"isRelatedToOrganizedCrime", "organizedCrimeNotes"} :
        f \in DOMAIN c /\ (f \in DOMAIN Body(row).case <=> c[f] # Undefined)
  BY DomainsOfBody DEF Sound, CaseFields
<1>3. DependentRequired(Body(row).case, "organizedCrimeNotes", "isRelatedToOrganizedCrime")
  BY <1>1, <1>2, Notable DEF DependentRequired
<1>4. "isRelatedToOrganizedCrime" \in BooleanFields /\ "organizedCrimeNotes" \in TextFields
  BY DEF BooleanFields, TextFields
<1>5. "isRelatedToOrganizedCrime" \in DOMAIN c /\ "organizedCrimeNotes" \in DOMAIN c
  BY <1>2
<1> HIDE DEF c
<1>6. IsTrue(Sent(c), "isRelatedToOrganizedCrime") <=> c["isRelatedToOrganizedCrime"] = TRUE
  BY <1>4, <1>5, ReadsOfSent
<1>7. NonEmpty(Sent(c), "organizedCrimeNotes") <=>
        c["organizedCrimeNotes"] \notin {Undefined, NaN, Null, ""}
  BY <1>4, <1>5, ReadsOfSent
<1>8. OrganizedCrimeRule(Sent(c))
  BY <1>1, <1>6, <1>7 DEF OrganizedCrimeRule
<1> QED BY <1>3, <1>8 DEF c

LEMMA MediaAccepted ==
  ASSUME NEW row, Sound(row)
  PROVE  MediaPerspectiveRule(Sent(BuildCase(row)))
<1> DEFINE c == BuildCase(row)
<1>1. /\ c["coverageMediaPerspectiveNotes"] = Undefined <=> c["hasMediaGenderPerspective"] = Undefined
      /\ c["coverageMediaPerspectiveNotes"] \notin {NaN, Null, ""}
  BY MediaOfRow DEF MediaBuilt, Sound
<1>2. "hasMediaGenderPerspective" \in DOMAIN c /\ "coverageMediaPerspectiveNotes" \in DOMAIN c
  BY PlaceOfRow DEF Sound, CaseFields
<1>3. "hasMediaGenderPerspective" \in BooleanFields /\ "coverageMediaPerspectiveNotes" \in TextFields
  BY DEF BooleanFields, TextFields
<1> HIDE DEF c
<1>4. Has(Sent(c), "hasMediaGenderPerspective") <=> c["hasMediaGenderPerspective"] # Undefined
  BY <1>2, <1>3, ReadsOfSent
<1>5. NonEmpty(Sent(c), "coverageMediaPerspectiveNotes") <=>
        c["coverageMediaPerspectiveNotes"] \notin {Undefined, NaN, Null, ""}
  BY <1>2, <1>3, ReadsOfSent
<1>6. MediaPerspectiveRule(Sent(c))
  BY <1>1, <1>4, <1>5 DEF MediaPerspectiveRule
<1> QED BY <1>6 DEF c

LEMMA AggressorAccepted ==
  ASSUME NEW row, Sound(row)
  PROVE  /\ DependentRequired(Body(row).aggressor, "securityForce", "belongsSecurityForce")
         /\ OnlyCoercibleNulls(Body(row).aggressor)
         /\ SecurityForceRule(Sent(BuildAggressor(row)))
<1> DEFINE a == BuildAggressor(row)
<1>1. /\ a["securityForce"] \in {Undefined, "POLICIA"}
      /\ a["belongsSecurityForce"] \in Said
      /\ a["securityForce"] # Undefined => a["belongsSecurityForce"] = TRUE
  BY AggressorOfRow DEF AggressorBuilt, Sound
<1>2. \A f \in {"securityForce", "belongsSecurityForce"} :
        f \in DOMAIN a /\ (f \in DOMAIN Body(row).aggressor <=> a[f] # Undefined)
  BY DomainsOfBody DEF Sound, AggressorFields
<1>3. DependentRequired(Body(row).aggressor, "securityForce", "belongsSecurityForce")
  BY <1>1, <1>2, Notable DEF DependentRequired
<1>4. DOMAIN a = {"securityForce", "belongsSecurityForce"}
  BY AggressorOfRow DEF Sound, AggressorFields
<1>5. "POLICIA" \notin {NaN, Null} /\ Undefined \notin {NaN, Null}
  BY MarkersAssumption DEF Written
<1>6. Body(row).aggressor = Json(a)
  BY PartsOfBody
<1> HIDE DEF a
<1>7. a["securityForce"] \notin {NaN, Null} /\ a["belongsSecurityForce"] \notin {NaN, Null}
  BY <1>1, <1>5, Notable DEF Said
<1>8. OnlyCoercibleNulls(Json(a))
  BY <1>4, <1>7, Coercible
<1>9. "belongsSecurityForce" \in BooleanFields
  BY DEF BooleanFields
<1>10. IsTrue(Sent(a), "belongsSecurityForce") <=> a["belongsSecurityForce"] = TRUE
  BY <1>4, <1>9, ReadsOfSent
<1>11. Has(Sent(a), "securityForce") => a["securityForce"] # Undefined
  BY <1>4, ReadsOfSent
<1>12. SecurityForceRule(Sent(a))
  BY <1>1, <1>10, <1>11 DEF SecurityForceRule
<1> QED BY <1>3, <1>6, <1>8, <1>12 DEF a

LEMMA VictimAccepted ==
  ASSUME NEW row, Sound(row)
  PROVE  /\ OnlyCoercibleNulls(Body(row).victim)
         /\ "nationality" \in DOMAIN Body(row).victim =>
              Body(row).victim["nationality"] \in Nationalities
         /\ NumberOfChildrenRule(Sent(BuildVictim(row)))
         /\ HasChildrenRule(Sent(BuildVictim(row)))
<1> DEFINE v == BuildVictim(row)
           ages == row.agesOfChildren
           p == Sent(BuildVictim(row))
<1>1. /\ v["fullName"] \notin {NaN, Null}
      /\ v["nationality"] \notin {NaN, Null} /\ v["nationality"] \in {Undefined} \cup Nationalities
      /\ v["ageOfChildren"] = IF ages > 0 THEN ages ELSE Undefined
      /\ IF row.numberOfChildren = Blank THEN v["numberOfChildren"] = NaN
         ELSE /\ v["numberOfChildren"] \in Int
              /\ v["numberOfChildren"] >= ages
              /\ v["numberOfChildren"] > ages => v["numberOfChildren"] = row.numberOfChildren
      /\ v["hasChildren"] \in {TRUE, FALSE}
      /\ v["hasChildren"] = TRUE <=>
           SaysYes(row.hasChildren) \/ ages > 0 \/ Positive(row.numberOfChildren)
  BY VictimOfRow DEF VictimBuilt, Sound
<1>2. DOMAIN v = {"fullName", "nationality", "hasChildren", "numberOfChildren", "ageOfChildren"}
  BY VictimOfRow DEF Sound, VictimFields
<1>3. ages \in Nat /\ (ages > 0 => row.numberOfChildren # Blank)
      /\ row.numberOfChildren \in Int \cup {Blank}
  BY DEF Sound, Filled, AgesWithoutNumber
<1>4. Body(row).victim = Json(v)
  BY PartsOfBody
<1>5. /\ "hasChildren" \in BooleanFields /\ "numberOfChildren" \in IntegerFields
      /\ "fullName" \in TextFields
  BY DEF BooleanFields, IntegerFields, TextFields
<1>6. /\ "ageOfChildren" \in DOMAIN v /\ Has(Sent(v), "ageOfChildren") => v["ageOfChildren"] # Undefined
      /\ "ageOfChildren" \in DOMAIN v /\ v["ageOfChildren"] \notin {Undefined, NaN, Null} =>
           Sent(v)["ageOfChildren"] = v["ageOfChildren"]
      /\ "numberOfChildren" \in DOMAIN v /\ v["numberOfChildren"] \notin {Undefined, NaN, Null} =>
           Sent(v)["numberOfChildren"] = v["numberOfChildren"]
  BY ReadsOfSent, JsonKeeps
<1> HIDE DEF v, ages
<1>7. \A n \in Int : n \notin {Undefined, NaN, Null}
  BY MarkersAssumption
<1>8. v["ageOfChildren"] \notin {NaN, Null}
  <2>1. Undefined \notin {NaN, Null}
    BY MarkersAssumption
  <2>2. ages \notin {NaN, Null}
    BY <1>3, <1>7
  <2> QED BY <1>1, <2>1, <2>2
<1>9. v["hasChildren"] \notin {NaN, Null}
  BY <1>1, Notable
<1>10. OnlyCoercibleNulls(Json(v))
  BY <1>1, <1>2, <1>5, <1>8, <1>9, Coercible
<1>11. IsTrue(Sent(v), "hasChildren") <=> v["hasChildren"] = TRUE
  BY <1>2, <1>5, ReadsOfSent
<1>12. NonZero(Sent(v), "numberOfChildren") <=> v["numberOfChildren"] \notin {Undefined, NaN, Null, 0}
  BY <1>2, <1>5, ReadsOfSent
<1>13. Has(Sent(v), "ageOfChildren") => ages > 0 /\ v["ageOfChildren"] = ages
  BY <1>1, <1>2, <1>6
<1>14. HasChildrenRule(Sent(v))
  <2>1. SUFFICES ASSUME ~IsTrue(Sent(v), "hasChildren")
                 PROVE  ~NonZero(Sent(v), "numberOfChildren") /\ ~Has(Sent(v), "ageOfChildren")
    BY DEF HasChildrenRule
  <2>2. ~(ages > 0) /\ ~Positive(row.numberOfChildren)
    BY <1>1, <1>11, <2>1
  <2>3. ~Has(Sent(v), "ageOfChildren")
    BY <1>13, <2>2
  <2>4. v["numberOfChildren"] \in {NaN, 0}
    <3>1. CASE row.numberOfChildren = Blank
      BY <1>1, <3>1
    <3>2. CASE row.numberOfChildren # Blank
      <4> DEFINE n == v["numberOfChildren"]
                 cell == row.numberOfChildren
      <4>1. /\ n \in Int /\ n >= ages
            /\ n > ages => n = cell
            /\ cell \in Int /\ ages \in Nat
        BY <1>1, <1>3, <3>2
      <4>2. cell \in Int => ~(cell > 0)
        BY <2>2 DEF Positive
      <4> HIDE DEF n, cell
      <4>3. ages = 0
        BY <2>2, <4>1
      <4>4. n = 0
        BY <4>1, <4>2, <4>3
      <4> QED BY <4>4 DEF n
    <3> QED BY <3>1, <3>2
  <2> QED BY <1>12, <2>3, <2>4
<1>15. NumberOfChildrenRule(Sent(v))
  <2>1. SUFFICES ASSUME Has(Sent(v), "ageOfChildren")
                 PROVE  Sent(v)["numberOfChildren"] >= Sent(v)["ageOfChildren"]
    BY DEF NumberOfChildrenRule
  <2>2. ages > 0 /\ v["ageOfChildren"] = ages
    BY <1>13, <2>1
  <2>3. v["numberOfChildren"] \in Int /\ v["numberOfChildren"] >= ages
    BY <1>1, <1>3, <2>2
  <2>4. ages \in Int
    BY <1>3
  <2>5. Sent(v)["ageOfChildren"] = ages
    BY <1>2, <1>6, <1>7, <2>2, <2>4
  <2>6. Sent(v)["numberOfChildren"] = v["numberOfChildren"]
    BY <1>2, <1>6, <1>7, <2>3
  <2> QED BY <2>3, <2>5, <2>6
<1>16. "nationality" \in DOMAIN Json(v) => Json(v)["nationality"] \in Nationalities
  <2>1. "nationality" \in DOMAIN v
    BY <1>2
  <2>2. /\ "nationality" \in DOMAIN Json(v) <=> v["nationality"] # Undefined
        /\ v["nationality"] # Undefined =>
             Json(v)["nationality"] = IF v["nationality"] = NaN THEN Null ELSE v["nationality"]
    BY <2>1, JsonKeeps
  <2> QED BY <1>1, <2>2
<1> QED BY <1>4, <1>10, <1>14, <1>15, <1>16 DEF v

\* The nulls of a case are answers Ajv can coerce, and its required fields are there.
LEMMA CaseNulls ==
  ASSUME NEW row, Sound(row)
  PROVE  /\ OnlyCoercibleNulls(Body(row).case)
         /\ "place" \in DOMAIN Body(row).case /\ Body(row).case["place"] \in CasePlaces
<1> DEFINE c == BuildCase(row)
<1>1. DOMAIN c = {"place", "generalNotes", "isRelatedToOrganizedCrime", "organizedCrimeNotes",
                  "hadLegalComplaints", "totalLegalComplaints", "wasJudicialized",
                  "hasMediaGenderPerspective", "coverageMediaPerspectiveNotes"}
  BY PlaceOfRow DEF Sound, CaseFields
<1>2. c["place"] \notin {NaN, Null} /\ c["place"] # Undefined /\ c["place"] \in CasePlaces
  BY PlaceOfRow DEF Sound
<1>3. \A f \in DOMAIN c \ {"place"} : f \in BooleanFields \cup IntegerFields \cup TextFields
  BY <1>1 DEF BooleanFields, IntegerFields, TextFields
<1>4. Body(row).case = Json(c)
  BY PartsOfBody
<1>5. "place" \in DOMAIN Body(row).case /\ Body(row).case["place"] \in CasePlaces
  <2>1. "place" \in DOMAIN c
    BY <1>1
  <2>2. /\ "place" \in DOMAIN Json(c) <=> c["place"] # Undefined
        /\ c["place"] # Undefined => Json(c)["place"] = IF c["place"] = NaN THEN Null ELSE c["place"]
    BY <2>1, JsonKeeps
  <2> QED BY <1>2, <1>4, <2>2
<1> HIDE DEF c
<1>6. OnlyCoercibleNulls(Json(c))
  BY <1>2, <1>3, Coercible
<1> QED BY <1>4, <1>5, <1>6

\* The form takes every row that has the required fields and a number of children
\* wherever it has ages, whatever else the row says and leaves out.
LEMMA RowAccepted ==
  ASSUME NEW row, Sound(row)
  PROVE  Accepted(Body(row))
<1>1. SchemaValid(Body(row))
  BY ComplaintsAccepted, OrganizedAccepted, AggressorAccepted, VictimAccepted, CaseNulls,
     DomainsOfBody DEF SchemaValid, ListedValues, Sound
<1>2. CaseValidations(Coerced(Body(row)))
  BY ComplaintsAccepted, OrganizedAccepted, MediaAccepted, AggressorAccepted, VictimAccepted,
     PartsOfBody DEF CaseValidations
<1> QED BY <1>1, <1>2 DEF Accepted

\* The answers to the yes/no questions, of any row.
AnswersKeep(row) ==
  \A f \in BooleanFields :
    LET answer == IF f = "belongsSecurityForce" THEN Document(Body(row)).aggressor[f]
                  ELSE IF f = "hasChildren" THEN Document(Body(row)).victim[f]
                  ELSE Document(Body(row)).case[f]
    IN  answer = TRUE <=> SaysYes(row[CellOf(f)]) \/ Evidence(row, f)

\* Evidence, field by field.
LEMMA PositiveEvidence ==
  ASSUME NEW row
  PROVE  /\ Evidence(row, "hasChildren") <=> row.agesOfChildren > 0 \/ Positive(row.numberOfChildren)
         /\ Evidence(row, "belongsSecurityForce") <=> row.securityForce \in DOMAIN SecurityForces
         /\ Evidence(row, "hadLegalComplaints") <=>
              Positive(row.totalLegalComplaints) \/ SaysYes(row.wasJudicialized)
         /\ Evidence(row, "isRelatedToOrganizedCrime") <=> row.organizedCrimeNotes # Blank
         /\ ~Evidence(row, "wasJudicialized")
         /\ ~Evidence(row, "hasMediaGenderPerspective")
  BY DEF Evidence, SaysYes

\* What the registry answers, of a row, is what the row says or shows.
LEMMA AnswersOfRow ==
  ASSUME NEW row, Filled(row)
  PROVE  AnswersKeep(row)
<1>1. /\ Document(Body(row)).case = InsertedRow(CaseFields, Sent(BuildCase(row)))
      /\ Document(Body(row)).victim = InsertedRow(VictimFields, Sent(BuildVictim(row)))
      /\ Document(Body(row)).aggressor = InsertedRow(AggressorFields, Sent(BuildAggressor(row)))
  BY PartsOfBody DEF Document
<1>2. \A f \in {"isRelatedToOrganizedCrime", "hadLegalComplaints", "wasJudicialized",
                "hasMediaGenderPerspective"} :
        Document(Body(row)).case[f] = TRUE <=> BuildCase(row)[f] = TRUE
  <2>1. TAKE f \in {"isRelatedToOrganizedCrime", "hadLegalComplaints", "wasJudicialized",
                    "hasMediaGenderPerspective"}
  <2>2. f \in CaseFields /\ f \in BooleanFields /\ f # "judicialMeasures"
    BY DEF CaseFields, BooleanFields
  <2>3. f \in DOMAIN BuildCase(row)
    BY <2>2, DomainsOfBody
  <2>4. InsertedRow(CaseFields, Sent(BuildCase(row)))[f] = TRUE <=> BuildCase(row)[f] = TRUE
    BY <2>2, <2>3, StoredYes
  <2> QED BY <1>1, <2>4, Zenon
<1>3. Document(Body(row)).victim["hasChildren"] = TRUE <=> BuildVictim(row)["hasChildren"] = TRUE
  <2>1. "hasChildren" \in VictimFields /\ "hasChildren" \in BooleanFields
    BY DEF VictimFields, BooleanFields
  <2>2. "hasChildren" \in DOMAIN BuildVictim(row)
    BY <2>1, DomainsOfBody
  <2>3. InsertedRow(VictimFields, Sent(BuildVictim(row)))["hasChildren"] = TRUE
          <=> BuildVictim(row)["hasChildren"] = TRUE
    BY <2>1, <2>2, StoredYes
  <2> QED BY <1>1, <2>3, Zenon
<1>4. Document(Body(row)).aggressor["belongsSecurityForce"] = TRUE
        <=> BuildAggressor(row)["belongsSecurityForce"] = TRUE
  <2>1. "belongsSecurityForce" \in AggressorFields /\ "belongsSecurityForce" \in BooleanFields
    BY DEF AggressorFields, BooleanFields
  <2>2. "belongsSecurityForce" \in DOMAIN BuildAggressor(row)
    BY <2>1, DomainsOfBody DEF AggressorFields
  <2>3. InsertedRow(AggressorFields, Sent(BuildAggressor(row)))["belongsSecurityForce"] = TRUE
          <=> BuildAggressor(row)["belongsSecurityForce"] = TRUE
    BY <2>1, <2>2, StoredYes
  <2> QED BY <1>1, <2>3, Zenon
<1>5. Document(Body(row)).case["isRelatedToOrganizedCrime"] = TRUE
        <=> SaysYes(row.isRelatedToOrganizedCrime) \/ Evidence(row, "isRelatedToOrganizedCrime")
  BY <1>2, OrganizedOfRow, PositiveEvidence DEF OrganizedBuilt
<1>6. Document(Body(row)).case["hadLegalComplaints"] = TRUE
        <=> SaysYes(row.hadLegalComplaints) \/ Evidence(row, "hadLegalComplaints")
  BY <1>2, ComplaintsOfRow, PositiveEvidence DEF ComplaintsBuilt
<1>7. Document(Body(row)).case["wasJudicialized"] = TRUE
        <=> SaysYes(row.wasJudicialized) \/ Evidence(row, "wasJudicialized")
  BY <1>2, ComplaintsOfRow, PositiveEvidence DEF ComplaintsBuilt
<1>8. Document(Body(row)).case["hasMediaGenderPerspective"] = TRUE
        <=> SaysYes(row.mediaGenderApproach) \/ Evidence(row, "hasMediaGenderPerspective")
  BY <1>2, MediaOfRow, PositiveEvidence DEF MediaBuilt
<1>9. Document(Body(row)).victim["hasChildren"] = TRUE
        <=> SaysYes(row.hasChildren) \/ Evidence(row, "hasChildren")
  BY <1>3, VictimOfRow, PositiveEvidence DEF VictimBuilt
<1>10. Document(Body(row)).aggressor["belongsSecurityForce"] = TRUE
         <=> SaysYes(row.belongsSecurityForce) \/ Evidence(row, "belongsSecurityForce")
  BY <1>4, AggressorOfRow, PositiveEvidence DEF AggressorBuilt
<1> SUFFICES ASSUME NEW f \in BooleanFields
             PROVE  (IF f = "belongsSecurityForce" THEN Document(Body(row)).aggressor[f]
                     ELSE IF f = "hasChildren" THEN Document(Body(row)).victim[f]
                     ELSE Document(Body(row)).case[f]) = TRUE
                      <=> SaysYes(row[CellOf(f)]) \/ Evidence(row, f)
  BY Zenon DEF AnswersKeep
<1>11. f \in {"isRelatedToOrganizedCrime", "hadLegalComplaints", "wasJudicialized",
              "hasMediaGenderPerspective", "hasChildren", "belongsSecurityForce"}
  BY DEF BooleanFields
<1>12. CellOf(f) = IF f = "hasMediaGenderPerspective" THEN "mediaGenderApproach" ELSE f
  BY DEF CellOf
<1>13. CASE f = "belongsSecurityForce"
  BY <1>10, <1>12, <1>13
<1>14. CASE f = "hasChildren"
  BY <1>9, <1>12, <1>14
<1>15. CASE f = "hasMediaGenderPerspective"
  BY <1>8, <1>12, <1>15
<1>16. CASE f \in {"isRelatedToOrganizedCrime", "hadLegalComplaints", "wasJudicialized"}
  BY <1>5, <1>6, <1>7, <1>12, <1>16
<1> QED BY <1>11, <1>13, <1>14, <1>15, <1>16

-----------------------------------------------------------------------------
\* The dead letters that no error of the service explains are refusals.
RefusedOnly == \A i \in dead \ failed : ~Accepted(Body(sheet[i]))

LEMMA RefusedInit == Init => RefusedOnly
  BY DEF Init, RefusedOnly

\* A line is put aside because it is refused or because the service fails.
LEMMA RefusedNext ==
  ASSUME RefusedOnly, [Next]_vars
  PROVE  RefusedOnly'
<1>1. CASE \/ \E n \in 1..Len(files) : StartFile(n)
          \/ \E n \in 1..(Len(files) + 1) : StartRenamed(n)
          \/ StartDeadLetter
  <2>1. dead' = {}
    BY <1>1 DEF StartFile, StartRenamed, StartDeadLetter, Start, Emptied
  <2> QED BY <2>1 DEF RefusedOnly
<1>2. ASSUME NEW i \in Lines, Post(i)
      PROVE  RefusedOnly'
  <2>1. CASE RefusedLine(i)
    <3>1. /\ dead' = dead \cup {i} /\ failed' = failed /\ sheet' = sheet
          /\ ~Accepted(Body(sheet[i]))
      BY <2>1 DEF RefusedLine, PutAside, history
    <3> QED BY <3>1 DEF RefusedOnly
  <2>2. CASE Failed(i) \/ FailedUnconfirmed(i)
    <3>1. dead' = dead \cup {i} /\ failed' = failed \cup {i} /\ sheet' = sheet
      BY <2>2 DEF Failed, FailedUnconfirmed, PutAside
    <3> QED BY <3>1 DEF RefusedOnly
  <2>3. CASE Created(i)
    <3>1. dead' = dead /\ failed' = failed /\ sheet' = sheet
      BY <2>3 DEF Created, PutAside
    <3> QED BY <3>1 DEF RefusedOnly
  <2>4. CASE CurlFails(i) \/ CurlFailsUnconfirmed(i)
    <3>1. dead' = dead /\ failed' = failed /\ sheet' = sheet
      BY <2>4 DEF CurlFails, CurlFailsUnconfirmed, history
    <3> QED BY <3>1 DEF RefusedOnly
  <2> QED BY <1>2, <2>1, <2>2, <2>3, <2>4 DEF Post
<1>3. CASE Convert \/ Done \/ UNCHANGED vars
  <2>1. dead' = dead /\ failed' = failed /\ sheet' = sheet
    BY <1>3 DEF Convert, Done, vars, history
  <2> QED BY <2>1 DEF RefusedOnly
<1> QED BY <1>1, <1>2, <1>3 DEF Next

\* The rows of a sheet are of the kinds the columns may hold.
LEMMA RowsAreFilled ==
  ASSUME sheet \in Sheets, NEW i \in Lines
  PROVE  Filled(sheet[i])
  BY SheetsAssumption DEF Lines

\* Whatever a spreadsheet says and leaves out, a dead letter that no error of the
\* service explains lacks a required field, carries a nationality or a category that
\* the form does not list, or gives ages of children and not their number: the rules of
\* the form that relate two fields are met by every row that historic-data/parse.js
\* builds.
THEOREM OnlyReasonedRefusals == Spec => []RefusalsHaveAReason
<1>1. Spec => []RefusedOnly
  <2>1. Init => RefusedOnly
    BY RefusedInit
  <2>2. RefusedOnly /\ [Next]_vars => RefusedOnly'
    BY RefusedNext
  <2> QED BY <2>1, <2>2, PTL DEF Spec
<1>2. TypeOK /\ RefusedOnly => RefusalsHaveAReason
  <2> SUFFICES ASSUME TypeOK, RefusedOnly, NEW i \in dead \ failed,
                      ~(MissingRequired(sheet[i]) \/ UnlistedText(sheet[i])
                          \/ AgesWithoutNumber(sheet[i]))
               PROVE  FALSE
    BY DEF RefusalsHaveAReason
  <2>1. sheet \in Sheets /\ i \in Lines
    BY DEF TypeOK
  <2>2. Sound(sheet[i])
    BY <2>1, RowsAreFilled DEF Sound
  <2>3. Accepted(Body(sheet[i]))
    BY <2>2, RowAccepted
  <2> QED BY <2>3 DEF RefusedOnly
<1> QED BY <1>1, <1>2, ImportTypes, PTL

\* Of every spreadsheet, what the registry answers yes to is what the row said or
\* what its other cells show, and every yes of the row is kept.
THEOREM EveryYesIsKept == Spec => []YesIsWhatTheSheetSays
<1>1. TypeOK => YesIsWhatTheSheetSays
  <2> SUFFICES ASSUME TypeOK, NEW i \in Lines, NEW f \in BooleanFields
               PROVE  /\ sheet[i][CellOf(f)] = "Si" => Answers(i)[f] = TRUE
                      /\ Answers(i)[f] = TRUE =>
                           sheet[i][CellOf(f)] \in {"Si", "Sin datos"} \/ Evidence(sheet[i], f)
    BY Zenon DEF YesIsWhatTheSheetSays
  <2>1. AnswersKeep(sheet[i])
    BY RowsAreFilled, AnswersOfRow DEF TypeOK
  <2> DEFINE answer == IF f = "belongsSecurityForce" THEN Document(Body(sheet[i])).aggressor[f]
                       ELSE IF f = "hasChildren" THEN Document(Body(sheet[i])).victim[f]
                       ELSE Document(Body(sheet[i])).case[f]
  <2>2. answer = TRUE <=> SaysYes(sheet[i][CellOf(f)]) \/ Evidence(sheet[i], f)
    BY <2>1, Zenon DEF AnswersKeep
  <2>3. Answers(i)[f] = answer
    BY DEF Answers, Imported
  <2> HIDE DEF answer
  <2>4. Answers(i)[f] = TRUE <=> SaysYes(sheet[i][CellOf(f)]) \/ Evidence(sheet[i], f)
    BY <2>2, <2>3, Zenon
  <2> QED BY <2>4 DEF SaysYes
<1> QED BY <1>1, ImportTypes, PTL
===============================================================================
