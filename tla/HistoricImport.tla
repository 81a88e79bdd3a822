---------------------------- MODULE HistoricImport ----------------------------
(***************************************************************************)
(* Loading a spreadsheet into the registry: convert-tsv writes one line of *)
(* JSON per row, import-all posts them one after the other and puts aside  *)
(* those that fail in deadletter.json (historic-data/convert-tsv,          *)
(* historic-data/import-all).  Whoever runs it may run it again, on any    *)
(* file there is: cases.json, the lines put aside by any earlier run, if   *)
(* they were kept under another name, or deadletter.json.                  *)
(***************************************************************************)
EXTENDS HistoricRow, Sequences, FiniteSets

CONSTANTS
  Sheets,    \* the spreadsheets: sequences of rows
  MaxRuns    \* how often import-all is run

ASSUME SheetsAssumption == \A s \in Sheets : \A i \in 1..Len(s) : Filled(s[i])

VARIABLES
  sheet,     \* the spreadsheet
  phase,     \* "tsv", "unconvertible", "ready", "reading", "done" or "aborted"
  files,     \* the lines of cases.json and, as further files, of each renamed deadletter.json
  input,     \* the lines of the file import-all reads
  todo,      \* those it has not read past
  dead,      \* the lines in deadletter.json
  made,      \* line -> how many cases have been made of it
  runs,      \* how often import-all has been run
  \* history
  used,      \* file -> how often import-all has been run on it
  madeNow,   \* the lines of which the last run has made a case
  failed,    \* the lines the service has ever answered with an error of its own
  doubtful   \* the lines of which a case was made and not confirmed

history == <<used, madeNow, failed, doubtful>>
vars == <<sheet, phase, files, input, todo, dead, made, runs, history>>

Lines == 1..Len(sheet)

Init ==
  /\ sheet \in Sheets
  /\ phase = "tsv"
  /\ input = {} /\ todo = {} /\ dead = {}
  /\ made = [i \in Lines |-> 0]
  /\ runs = 0 /\ files = <<>> /\ used = <<>>
  /\ madeNow = {} /\ failed = {} /\ doubtful = {}

\* convert-tsv writes the lines of all rows or, when one throws, none.
Convert ==
  /\ phase = "tsv"
  /\ IF \A i \in Lines : Convertible(sheet[i])
     THEN phase' = "ready" /\ files' = <<Lines>> /\ used' = <<0>>
     ELSE phase' = "unconvertible" /\ UNCHANGED <<files, used>>
  /\ UNCHANGED <<sheet, input, todo, dead, made, runs, madeNow, failed, doubtful>>

-----------------------------------------------------------------------------
\* Mutant: a last line without a newline is not read.
ReadableButLast(lines) == {i \in lines : \E j \in lines : i < j}

\* The lines the loop reads: `|| [[ -n "$line" ]]` takes the last one, which
\* convert-tsv writes without a newline.
Readable(lines) == lines

\* Mutant: the dead letters of an earlier run stay.
EmptiedNot(letters) == letters

\* `> "$ERRORS_FILE"`
Emptied(letters) == {}

\* A run that reads these lines, with these in deadletter.json to begin with.
Start(lines, letters) ==
  /\ phase \in {"ready", "done", "aborted"}
  /\ runs < MaxRuns
  /\ runs' = runs + 1
  /\ phase' = "reading"
  /\ input' = lines
  /\ todo' = Readable(lines)
  /\ dead' = letters
  /\ madeNow' = {}
  /\ UNCHANGED <<sheet, made, failed, doubtful>>

\* Any file, be it for the first time or again.
StartFile(n) ==
  /\ Start(files[n], Emptied(dead))
  /\ used' = [used EXCEPT ![n] = @ + 1]
  /\ UNCHANGED files

\* The same, with deadletter.json kept under another name before: it is one more
\* file, and may be the one that is run.
StartRenamed(n) ==
  /\ runs > 0
  /\ files' = Append(files, dead)
  /\ Start(files'[n], {})
  /\ used' = [Append(used, 0) EXCEPT ![n] = @ + 1]

\* deadletter.json itself, which is emptied by the time it is read.
StartDeadLetter == Start(Emptied(dead), Emptied(dead)) /\ UNCHANGED <<files, used>>

\* The line the loop has read.
Current(i) == phase = "reading" /\ i \in todo /\ \A j \in todo : i <= j

Make(i) ==
  /\ made' = [made EXCEPT ![i] = @ + 1]
  /\ madeNow' = madeNow \cup {i}

\* Mutant: only refusals are put aside.
PutAsideRefused(i, status) ==
  dead' = IF status \in 400..499 THEN dead \cup {i} ELSE dead

\* Mutant: whatever is not 200 is put aside.
PutAsideRedirected(i, status) == dead' = IF status # 200 THEN dead \cup {i} ELSE dead

PutAside(i, status) == dead' = IF status >= 400 THEN dead \cup {i} ELSE dead

GoOn(i) == todo' = todo \ {i}

Created(i) ==
  /\ Current(i)
  /\ Accepted(Body(sheet[i]))
  /\ Make(i)
  /\ PutAside(i, 201)
  /\ GoOn(i)
  /\ UNCHANGED <<sheet, phase, input, runs, files, used, failed, doubtful>>

RefusedLine(i) ==
  /\ Current(i)
  /\ ~Accepted(Body(sheet[i]))
  /\ PutAside(i, 422)
  /\ GoOn(i)
  /\ UNCHANGED <<sheet, phase, files, input, made, runs, history>>

\* The service fails, or does not know the key, and makes no case.
Failed(i) ==
  /\ Current(i)
  /\ \E status \in {401, 500} : PutAside(i, status)
  /\ GoOn(i)
  /\ failed' = failed \cup {i}
  /\ UNCHANGED <<sheet, phase, input, made, runs, files, used, madeNow, doubtful>>

\* The service fails after the transaction was committed.
FailedUnconfirmed(i) ==
  /\ Current(i)
  /\ Accepted(Body(sheet[i]))
  /\ Make(i)
  /\ PutAside(i, 500)
  /\ GoOn(i)
  /\ failed' = failed \cup {i}
  /\ doubtful' = doubtful \cup {i}
  /\ UNCHANGED <<sheet, phase, input, runs, files, used>>

\* curl cannot connect, or gets no answer.  Under `set -e` the assignment of its
\* output ends the script there and then.
CurlFails(i) ==
  /\ Current(i)
  /\ phase' = "aborted"
  /\ UNCHANGED <<sheet, files, input, todo, dead, made, runs, history>>

CurlFailsUnconfirmed(i) ==
  /\ Current(i)
  /\ Accepted(Body(sheet[i]))
  /\ Make(i)
  /\ doubtful' = doubtful \cup {i}
  /\ phase' = "aborted"
  /\ UNCHANGED <<sheet, input, todo, dead, runs, files, used, failed>>

Done ==
  /\ phase = "reading" /\ todo = {}
  /\ phase' = "done"
  /\ UNCHANGED <<sheet, files, input, todo, dead, made, runs, history>>

-----------------------------------------------------------------------------
Post(i) ==
  \/ Created(i) \/ RefusedLine(i)
  \/ Failed(i) \/ FailedUnconfirmed(i)
  \/ CurlFails(i) \/ CurlFailsUnconfirmed(i)

Next ==
  \/ Convert
  \/ \E n \in 1..Len(files) : StartFile(n)
  \/ \E n \in 1..(Len(files) + 1) : StartRenamed(n)
  \/ StartDeadLetter
  \/ \E i \in Lines : Post(i)
  \/ Done

Spec == Init /\ [][Next]_vars

-----------------------------------------------------------------------------
Phases == {"tsv", "unconvertible", "ready", "reading", "done", "aborted"}

\* The loop reads lines of its input, and puts aside only lines it has read.
TypeOK ==
  /\ sheet \in Sheets
  /\ phase \in Phases
  /\ files \in Seq(SUBSET Lines) /\ used \in Seq(Nat) /\ Len(used) = Len(files)
  /\ input \subseteq Lines /\ todo \subseteq input
  /\ dead \subseteq input \ todo
  /\ made \in [Lines -> Nat]
  /\ runs \in Nat
  /\ madeNow \subseteq Lines /\ failed \subseteq Lines /\ doubtful \subseteq Lines

\* Whatever the service answers and wherever the script breaks off, every line it
\* has read past is a case of this run or in deadletter.json; once it says "Done",
\* that is every line of the file.
NoLineIsLost == input \ todo \subseteq madeNow \cup dead

\* A line is a case and in deadletter.json only if the service failed after it
\* had committed.
DeadLettersAreNotCases == madeNow \cap dead \subseteq doubtful

\* However often the lines put aside are run again, and whatever runs broke off, a
\* line becomes two cases only if a commit of it went unconfirmed or if one and the
\* same file that holds it was run twice.
DuplicatesOnlyFromDoubt ==
  \A i \in Lines : made[i] > 1 =>
    i \in doubtful \/ \E n \in DOMAIN files : i \in files[n] /\ used[n] > 1

MissingRequired(row) ==
  \/ ParseProvince(row.province) = Undefined
  \/ ParseCaseCategory(row.caseCategory) = Undefined
  \/ ParsePlace(row.place) = Undefined

\* A text the form refuses reaches it as the nationality or in a required field: a
\* category that is not in its list or, likewise, a date that is none.
UnlistedText(row) ==
  \/ ParseCaseCategory(row.caseCategory) \notin CaseCategories
  \/ row.victimNationality \notin Nationalities \cup OtherCountries \cup NoData \cup {Blank}

AgesWithoutNumber(row) == row.agesOfChildren > 0 /\ row.numberOfChildren = Blank

\* The rules of the form that relate two fields are met by every row the
\* spreadsheet can hold, whatever it says and leaves out: the only rows the
\* service refuses are those that lack a required field, carry a nationality or a
\* category that the form does not list, or give ages of children and not their
\* number.
RefusalsHaveAReason ==
  \A i \in dead \ failed :
    MissingRequired(sheet[i]) \/ UnlistedText(sheet[i]) \/ AgesWithoutNumber(sheet[i])

Imported(i) == Document(Body(sheet[i]))

\* An answer of the sheet that implies another, or that is given by other cells.
Evidence(row, f) ==
  CASE f = "hasChildren" -> row.agesOfChildren > 0 \/ Positive(row.numberOfChildren)
    [] f = "belongsSecurityForce" -> row.securityForce \in DOMAIN SecurityForces
    [] f = "hadLegalComplaints" -> \/ Positive(row.totalLegalComplaints)
                                   \/ row.wasJudicialized \in {"Si", "Sin datos"}
    [] f = "isRelatedToOrganizedCrime" -> row.organizedCrimeNotes # Blank
    [] OTHER -> FALSE

Answers(i) ==
  [f \in BooleanFields |->
     IF f = "belongsSecurityForce" THEN Imported(i).aggressor[f]
     ELSE IF f = "hasChildren" THEN Imported(i).victim[f]
     ELSE Imported(i).case[f]]

CellOf(f) == IF f = "hasMediaGenderPerspective" THEN "mediaGenderApproach" ELSE f

\* What the registry answers yes to, of an imported case, is what its row said or
\* what its other cells show; and every yes of the row is kept.
YesIsWhatTheSheetSays ==
  \A i \in Lines : made[i] > 0 => \A f \in BooleanFields :
    LET cell == sheet[i][CellOf(f)]
    IN  /\ cell = "Si" => Answers(i)[f] = TRUE
        /\ Answers(i)[f] = TRUE => cell \in {"Si", "Sin datos"} \/ Evidence(sheet[i], f)

\* Everywhere else in historic-data/parse.js "sin datos", in any case, is no data
\* (value.toLowerCase() === "sin datos", parse.js:33): a cell that says so should not
\* be recorded as a yes.
NoDataIsNotYes ==
  \A i \in Lines : made[i] > 0 => \A f \in BooleanFields :
    sheet[i][CellOf(f)] = "Sin datos" /\ ~Evidence(sheet[i], f) => Answers(i)[f] # TRUE
=============================================================================
