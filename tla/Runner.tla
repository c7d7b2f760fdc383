-------------------------------- MODULE Runner --------------------------------
(***************************************************************************)
(* The older runner (runner.py) between its two callers, its result        *)
(* workbook (workbook/writer.py) and its two connections                   *)
(* (database/live.py): the rows are read, the ones that cannot run are     *)
(* recorded, the rest are compiled first or not, executed one at a time,   *)
(* and every result is saved into the output file as soon as it is known.  *)
(*                                                                         *)
(* A save rewrites the file in place and takes two steps, so it can be cut *)
(* short by Ctrl-C or by an error.  Abstracted: SQL text, values, cell     *)
(* layout, and every message.                                              *)
(***************************************************************************)
EXTENDS Integers, Sequences, FiniteSets, FiniteSetsExt

CONSTANTS
  Books,  \* the sheets to run: sequences of rows, a row's place its number
  Runs    \* what the command line asked for

Side == {"source", "target"}

\* What the reader makes of a row, and what is known of its SQL offline: the
\* sides it uses, those the read-only guard refuses, and whether its dialect is
\* another than its connection's.
RowType == [kind : {"case", "invalid", "disabled"}, sides : SUBSET Side,
            unsafe : SUBSET Side, misfit : BOOLEAN]

\* RunOptions, and whether the run is run_reconciliation's (live) or the offline
\* `reconcile execute`. No --case is the empty set; no --end-row is NoEndRow.
NoEndRow == 1048576  \* the last row of an Excel sheet
OptionType == [live : BOOLEAN, validate : BOOLEAN, stop : BOOLEAN, failFast : BOOLEAN,
               write : BOOLEAN, cases : SUBSET Nat, start : Int, end : Int, limit : Int]

ASSUME RunnerAssumption == Books \subseteq Seq(RowType) /\ Runs \subseteq OptionType

Statuses == {"PASS", "FAIL", "ERROR", "PROFILED", "SKIPPED", "VALIDATED", "NOT_EXECUTED"}

VARIABLES
  book,     \* the sheet
  opts,     \* the options
  pc,       \* the phase the run is in
  open,     \* connections that are open
  selected, \* rows chosen to run, less the misfits once they are known
  todo,     \* rows the present pass has still to take, in row order
  left,     \* sides of the first of them still to be checked or executed
  passed,   \* rows that compiled
  failures, \* rows the dialect check and the compile pass failed
  results,  \* ExecutionResults in the order they were recorded
  save,     \* a save is "due", "writing" the file, or there is "none"
  file,     \* the output file: "absent", "torn", "whole"
  onDisk,   \* rows whose result the last complete save wrote
  asked,    \* <<row, side>> sent to be compiled
  queried,  \* <<row, side>> sent to be executed
  exit      \* exit code of the process, -1 until it is decided

given == <<book, opts>>
progress == <<selected, todo, left, passed, failures>>
disk == <<save, file, onDisk>>
sent == <<asked, queried>>
vars == <<given, pc, open, progress, results, disk, sent, exit>>

Phases == {"connect", "preflight", "read", "create", "undecided", "dialects", "compile",
           "gate", "execute", "halt", "finish", "close", "report", "unwind",
           "reported", "aborted"}

CompilesFirst == opts.validate \/ opts.stop

Init ==
  /\ book \in Books /\ opts \in Runs
  /\ pc = IF opts.live THEN "connect" ELSE "read"
  /\ open = {} /\ exit = -1
  /\ selected = {} /\ todo = {} /\ left = {} /\ passed = {} /\ failures = {}
  /\ results = <<>>
  /\ save = "none" /\ file = "absent" /\ onDisk = {}
  /\ asked = {} /\ queried = {}

----------------------------------------------------------------------------
\* Recording and saving.

Recorded == {results[k].row : k \in DOMAIN results}

\* The results of a group decided together, in row order: a row's place is the
\* number of rows of the group down to it.
Place(i, rows) == Cardinality({j \in rows : j <= i})
Group(status) ==
  LET at(k) == CHOOSE i \in DOMAIN status : Place(i, DOMAIN status) = k
  IN [k \in 1..Cardinality(DOMAIN status) |-> [row |-> at(k), status |-> status[at(k)]]]

\* Mutant of RecordOne: the row is saved with the next group only.
RecordUnsaved(row, status) ==
  results' = Append(results, [row |-> row, status |-> status]) /\ UNCHANGED save

RecordOne(row, status) ==
  /\ results' = Append(results, [row |-> row, status |-> status])
  /\ save' = IF opts.write THEN "due" ELSE "none"

\* One save for the whole group, none for an empty one.
RecordAll(status) ==
  /\ results' = results \o Group(status)
  /\ save' = IF opts.write /\ DOMAIN status # {} THEN "due" ELSE "none"

\* Workbook.save(path): the file is truncated, then written.
OpenFile ==
  /\ save = "due" /\ save' = "writing" /\ file' = "torn"
  /\ UNCHANGED <<given, pc, open, progress, results, onDisk, sent, exit>>

FileWritten ==
  /\ save = "writing" /\ save' = "none"
  /\ file' = "whole" /\ onDisk' = Recorded
  /\ UNCHANGED <<given, pc, open, progress, results, sent, exit>>

\* An exception leaves the run: every finally on its way closes the sessions.
Unwind(code) == pc' = "unwind" /\ exit' = code

\* The file is locked or the disk is full.
SaveFails ==
  /\ save # "none" /\ save' = "none" /\ Unwind(2)
  /\ UNCHANGED <<given, open, progress, results, file, onDisk, sent>>

----------------------------------------------------------------------------
\* run_reconciliation.py around the runner.

\* connect_all: the source, then the target; the runner's second read of the
\* workbook finds what the preflight found.
Connect(s) ==
  /\ pc = "connect" /\ s = IF open = {} THEN "source" ELSE "target"
  /\ open' = open \cup {s}
  /\ pc' = IF s = "target" THEN "preflight" ELSE pc
  /\ UNCHANGED <<given, progress, results, disk, sent, exit>>

ConnectFails ==
  /\ pc = "connect" /\ open' = {} /\ Unwind(2)
  /\ UNCHANGED <<given, progress, results, disk, sent>>

Enabled == {i \in DOMAIN book : book[i].kind = "case"}

Preflight ==
  /\ pc = "preflight"
  /\ IF Enabled = {} THEN Unwind(2) ELSE pc' = "read" /\ UNCHANGED exit
  /\ UNCHANGED <<given, open, progress, results, disk, sent>>

----------------------------------------------------------------------------
\* Reading, selecting, and the rows that are decided before anything runs.

\* _select, in the order it applies: --case, the row range, --limit.
Chosen == IF opts.cases = {} THEN Enabled ELSE Enabled \cap opts.cases
InRange == {i \in Chosen : opts.start <= i /\ i <= opts.end}
WithinLimit == {i \in InRange : Cardinality({j \in InRange : j < i}) < opts.limit}

BadSelection ==
  \/ ~(opts.cases \subseteq Enabled)
  \/ opts.start < 1
  \/ opts.end # NoEndRow /\ opts.end < opts.start
  \/ opts.limit < 0

ReadAndSelect ==
  /\ pc = "read"
  /\ IF BadSelection THEN Unwind(2) /\ UNCHANGED selected
     ELSE pc' = "create" /\ selected' = WithinLimit /\ UNCHANGED exit
  /\ UNCHANGED <<given, open, todo, left, passed, failures, results, disk, sent>>

\* ResultWriter saves the file before anything has run.
CreateFile ==
  /\ pc = "create" /\ pc' = "undecided"
  /\ save' = IF opts.write THEN "due" ELSE "none"
  /\ UNCHANGED <<given, open, progress, results, file, onDisk, sent, exit>>

\* No path is free, or the directory or a result column is missing.
CreateRefused ==
  /\ pc = "create" /\ opts.write /\ Unwind(2)
  /\ UNCHANGED <<given, open, progress, results, disk, sent>>

RecordUndecided ==
  /\ pc = "undecided" /\ save = "none" /\ pc' = "dialects"
  /\ RecordAll([i \in DOMAIN book \ selected |->
                 IF book[i].kind = "invalid" THEN "ERROR" ELSE "SKIPPED"])
  /\ UNCHANGED <<given, open, progress, file, onDisk, sent, exit>>

\* A pass takes rows in row order, and the sides of a row source first.
Row == Min(todo)
NextSide == IF "source" \in left THEN "source" ELSE "target"
Load(rows) ==
  /\ todo' = rows
  /\ left' = IF rows = {} THEN {} ELSE book[Min(rows)].sides

Misfits == {i \in selected : book[i].misfit}

\* check_dialects, offline: a row written for another engine is an ERROR and is
\* sent to no database.
CheckDialects ==
  /\ pc = "dialects" /\ save = "none"
  /\ RecordAll([i \in Misfits |-> "ERROR"])
  /\ failures' = Misfits /\ selected' = selected \ Misfits
  /\ Load(selected \ Misfits)
  /\ pc' = IF CompilesFirst THEN "compile" ELSE "execute"
  /\ UNCHANGED <<given, open, passed, file, onDisk, sent, exit>>

----------------------------------------------------------------------------
\* The compile pass: validate_cases and the gate behind it.

\* A driver call reopens a session an earlier failure dropped, or fails to.
CompileFails ==
  /\ pc = "compile" /\ save = "none" /\ todo # {}
  /\ IF NextSide \in book[Row].unsafe THEN UNCHANGED <<asked, open>>
     ELSE /\ asked' = asked \cup {<<Row, NextSide>>}
          /\ open' \in {open, open \cup {NextSide}}
  /\ failures' = failures \cup {Row} /\ Load(todo \ {Row})
  /\ UNCHANGED <<given, pc, selected, passed, results, disk, queried, exit>>

\* Mutant of SideChecked: an unavailable check is tried again.
RetryUnavailable(answer) ==
  \/ answer = "unavailable" /\ UNCHANGED <<todo, left, passed>>
  \/ /\ answer = "compiled"
     /\ IF left # {NextSide} THEN left' = left \ {NextSide} /\ UNCHANGED <<todo, passed>>
        ELSE passed' = passed \cup {Row} /\ Load(todo \ {Row})

\* The side compiled, or could not be checked: on to the next, or the row passed.
SideChecked(answer) ==
  IF left # {NextSide} THEN left' = left \ {NextSide} /\ UNCHANGED <<todo, passed>>
  ELSE passed' = passed \cup {Row} /\ Load(todo \ {Row})

CompileSide(answer) ==
  /\ pc = "compile" /\ save = "none" /\ todo # {} /\ NextSide \notin book[Row].unsafe
  /\ asked' = asked \cup {<<Row, NextSide>>}
  /\ \/ answer = "compiled" /\ open' = open \cup {NextSide}
     \/ answer = "unavailable" /\ open' \in {open \cup {NextSide}, open \ {NextSide}}
  /\ SideChecked(answer)
  /\ UNCHANGED <<given, pc, selected, failures, results, disk, queried, exit>>

\* Mutant of FailuresToRecord: the mismatches are recorded with the rejections.
AllFailures == failures

\* The mismatches were recorded before this pass.
FailuresToRecord == failures \cap selected

EndCompile ==
  /\ pc = "compile" /\ save = "none" /\ todo = {} /\ pc' = "gate"
  /\ RecordAll([i \in FailuresToRecord |-> "ERROR"])
  /\ UNCHANGED <<given, open, progress, file, onDisk, sent, exit>>

\* Mutant of GateClosed: it stays open while anything compiled.
GateClosedIfNothingPassed == failures # {} /\ passed = {}

GateClosed == failures # {}

StopAtGate ==
  /\ pc = "gate" /\ save = "none" /\ GateClosed /\ opts.stop /\ pc' = "close"
  /\ RecordAll([i \in passed |-> "NOT_EXECUTED"])
  /\ UNCHANGED <<given, open, progress, file, onDisk, sent, exit>>

StopAfterValidation ==
  /\ pc = "gate" /\ save = "none" /\ ~(GateClosed /\ opts.stop) /\ opts.validate
  /\ pc' = "close" /\ RecordAll([i \in passed |-> "VALIDATED"])
  /\ UNCHANGED <<given, open, progress, file, onDisk, sent, exit>>

PassGate ==
  /\ pc = "gate" /\ save = "none" /\ ~(GateClosed /\ opts.stop) /\ ~opts.validate
  /\ pc' = "execute" /\ Load(passed)
  /\ UNCHANGED <<given, open, selected, passed, failures, results, disk, sent, exit>>

----------------------------------------------------------------------------
\* Execution: _execute_all and execute_case.

AfterLastRow == IF CompilesFirst THEN "close" ELSE "finish"

\* Mutant of Halts: a test that could not be executed does not stop the run.
HaltsOnFailure(status) == opts.failFast /\ status \in {"FAIL", "PROFILED"}

Halts(status) == opts.failFast /\ status # "PASS"

\* One result: recorded, saved, and under --fail-fast perhaps the last.
EndRow(status) ==
  /\ RecordOne(Row, status) /\ Load(todo \ {Row})
  /\ pc' = IF Halts(status) THEN "halt" ELSE pc

\* Both queries of the row are guarded before either is sent.
RefuseRow ==
  /\ pc = "execute" /\ save = "none" /\ todo # {} /\ book[Row].unsafe # {}
  /\ EndRow("ERROR")
  /\ UNCHANGED <<given, open, selected, passed, failures, file, onDisk, sent, exit>>

Sends ==
  /\ pc = "execute" /\ save = "none" /\ todo # {} /\ book[Row].unsafe = {}
  /\ queried' = queried \cup {<<Row, NextSide>>}

\* The first of two sides answered.
FirstSideAnswers ==
  /\ Sends /\ left # {NextSide} /\ left' = left \ {NextSide}
  /\ open' = open \cup {NextSide}
  /\ UNCHANGED <<given, pc, selected, todo, passed, failures, results, disk, asked, exit>>

\* The last side answered: the comparison decides, or refuses the values.
LastSideAnswers(status) ==
  /\ Sends /\ left = {NextSide} /\ open' = open \cup {NextSide}
  /\ EndRow(status)
  /\ UNCHANGED <<given, selected, passed, failures, file, onDisk, asked, exit>>

\* Any exception of either side ends the row; the other side is not asked.
QueryFails ==
  /\ Sends /\ open' \in {open, open \cup {NextSide}, open \ {NextSide}}
  /\ EndRow("ERROR")
  /\ UNCHANGED <<given, selected, passed, failures, file, onDisk, asked, exit>>

\* Infinity less infinity raises in variance_of before there is a result; text
\* openpyxl refuses, an answer's or an error's, raises in write_row after it was
\* recorded. Neither is caught in the runner, nor by the main() of `reconcile execute`.
ResultEscapes ==
  /\ Sends /\ open' \in {open, open \cup {NextSide}, open \ {NextSide}}
  /\ \/ left = {NextSide} /\ UNCHANGED results
     \/ /\ opts.write
        /\ \E status \in {"PASS", "FAIL", "ERROR", "PROFILED"} :
             /\ left = {NextSide} \/ status = "ERROR"
             /\ results' = Append(results, [row |-> Row, status |-> status])
  /\ Unwind(IF opts.live THEN 2 ELSE 1)
  /\ UNCHANGED <<given, progress, disk, asked>>

\* --fail-fast: what is left is reported as one group.
Halt ==
  /\ pc = "halt" /\ save = "none" /\ pc' = AfterLastRow
  /\ RecordAll([i \in todo |-> "SKIPPED"]) /\ Load({})
  /\ UNCHANGED <<given, open, selected, passed, failures, file, onDisk, sent, exit>>

EndExecution ==
  /\ pc = "execute" /\ save = "none" /\ todo = {} /\ pc' = AfterLastRow
  /\ UNCHANGED <<given, open, progress, results, disk, sent, exit>>

----------------------------------------------------------------------------
\* The end. A run that compiled first closes its sessions and then writes its
\* report; one that did not writes it inside the try.

Finish ==
  /\ pc = "finish" /\ save = "none"
  /\ pc' = IF CompilesFirst THEN "report" ELSE "close"
  /\ save' = IF opts.write THEN "due" ELSE "none"
  /\ UNCHANGED <<given, open, progress, results, file, onDisk, sent, exit>>

\* A close that raises neither keeps its connection nor skips the other's.
CloseSession(s) ==
  /\ pc \in {"close", "unwind"} /\ save = "none" /\ s \in open /\ open' = open \ {s}
  /\ UNCHANGED <<given, pc, progress, results, disk, sent, exit>>

\* Mutant of AllClosed: a close that raises skips the other.
SomeClosed == open # Side

AllClosed == open = {}

EndClose ==
  /\ pc \in {"close", "unwind"} /\ save = "none" /\ AllClosed
  /\ pc' = CASE pc = "unwind" -> "aborted"
             [] pc = "close" /\ CompilesFirst -> "finish"
             [] OTHER -> "report"
  /\ UNCHANGED <<given, open, progress, results, disk, sent, exit>>

\* Mutant of IsClean: a test that could not be executed is not held against it.
IsCleanUnlessFailed == \A k \in DOMAIN results : results[k].status # "FAIL"

IsClean == \A k \in DOMAIN results : results[k].status \notin {"FAIL", "ERROR", "NOT_EXECUTED"}

\* Mutant of ExitCode: it counts the results that are not clean.
CountNotClean ==
  Cardinality({k \in DOMAIN results : results[k].status \in {"FAIL", "ERROR", "NOT_EXECUTED"}})

ExitCode == IF IsClean THEN 0 ELSE 1

Report ==
  /\ pc = "report" /\ save = "none" /\ pc' = "reported" /\ exit' = ExitCode
  /\ UNCHANGED <<given, open, progress, results, disk, sent>>

\* Ctrl-C, wherever the run is but in a finally.
Interrupt ==
  /\ pc \notin {"unwind", "reported", "aborted"} /\ Unwind(130) /\ save' = "none"
  /\ UNCHANGED <<given, open, progress, results, file, onDisk, sent>>

Over == pc \in {"reported", "aborted"} /\ UNCHANGED vars

Save == OpenFile \/ FileWritten \/ SaveFails
Start == ConnectFails \/ Preflight \/ ReadAndSelect \/ CreateFile \/ CreateRefused
           \/ RecordUndecided \/ CheckDialects \/ \E s \in Side : Connect(s)
Compile == CompileFails \/ EndCompile \/ StopAtGate \/ StopAfterValidation \/ PassGate
             \/ \E answer \in {"compiled", "unavailable"} : CompileSide(answer)
Execute == RefuseRow \/ FirstSideAnswers \/ QueryFails \/ ResultEscapes \/ Halt
             \/ EndExecution
             \/ \E status \in {"PASS", "FAIL", "ERROR", "PROFILED"} : LastSideAnswers(status)
End == Finish \/ EndClose \/ Report \/ \E s \in Side : CloseSession(s)
Step == Save \/ Start \/ Compile \/ Execute \/ End
Next == Step \/ Interrupt \/ Over

\* Calls to the drivers and to the file system return or raise.
Spec == Init /\ [][Next]_vars /\ WF_vars(Step)

----------------------------------------------------------------------------
TypeOK ==
  /\ book \in Books /\ opts \in Runs /\ pc \in Phases /\ open \subseteq Side
  /\ selected \cup todo \cup passed \cup failures \cup onDisk \subseteq DOMAIN book
  /\ left \subseteq Side /\ (todo = {} => left = {})
  /\ results \in Seq([row : DOMAIN book, status : Statuses])
  /\ save \in {"none", "due", "writing"} /\ file \in {"absent", "torn", "whole"}
  /\ asked \cup queried \subseteq (DOMAIN book) \X Side
  /\ exit \in {-1, 0, 1, 2, 130}

\* No row is ever recorded twice, whichever group or pass it falls to, and a run
\* that returns its summary has recorded every row of the sheet, with the output
\* file whole and holding every one of those results
\* (ReconciliationRunner.run, _finish: a test that vanishes from the report is
\* indistinguishable from one nobody selected).
EveryRowReportedOnce ==
  /\ Len(results) = Cardinality(Recorded)
  /\ pc = "reported" =>
       /\ Recorded = DOMAIN book
       /\ opts.write => file = "whole" /\ onDisk = DOMAIN book

Executed == {i \in DOMAIN book : \E s \in Side : <<i, s>> \in queried}

\* ResultWriter: whenever the file can be opened, it is at most one executed
\* test behind the run. (A save cut short leaves one that cannot be,
\* whatever writer.py:79-84 says: README.md, Disagreements.)
DiskFollowsTheRun ==
  opts.write /\ file # "torn" => Cardinality((Executed \cap Recorded) \ onDisk) <= 1

\* What the offline checks refused is sent to no database; under --mode validate
\* nothing is executed; and under --on-syntax-error stop nothing is executed
\* unless every row bound for a database was compiled on each of its sides, or
\* could not be, and none was rejected. (Whether a misfit closes the gate too is
\* MisfitsStopOnlyThemselves of RunnerClaims.)
GateHolds ==
  /\ \A q \in asked \cup queried : ~book[q[1]].misfit /\ q[2] \notin book[q[1]].unsafe
  /\ opts.validate => queried = {}
  /\ opts.stop /\ queried # {} =>
       /\ failures \cap selected = {}
       /\ \A i \in selected : {i} \X book[i].sides \subseteq asked

\* A test that was tried and came out wrong.
Problem(result) ==
  result.row \in selected \ failures /\ result.status \in {"FAIL", "ERROR"}

\* --fail-fast: behind a test that failed or could not be executed, or was
\* refused before its queries were sent, no query is executed, and a run that
\* comes to its end reports every selected row behind it as SKIPPED.
FailFastHalts ==
  opts.failFast =>
    \A k \in DOMAIN results : Problem(results[k]) =>
      /\ \A i \in Executed : i <= results[k].row
      /\ pc = "reported" =>
           \A i \in selected : results[k].row < i =>
             \E j \in DOMAIN results : results[j] = [row |-> i, status |-> "SKIPPED"]

\* Exit code 0 from a run that was to execute means that every query of every
\* selected row was executed, unless --fail-fast stopped it.
CleanMeansExecuted ==
  exit = 0 /\ ~opts.validate /\ ~opts.failFast =>
    \A i \in selected : {i} \X book[i].sides \subseteq queried

\* However the run ended, and however far connect_all came, no session is left.
SessionsClosed == pc \in {"reported", "aborted"} => open = {}

\* A run ends.
RunEnds == <>(pc \in {"reported", "aborted"})
====
