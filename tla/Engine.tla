------------------------------- MODULE Engine -------------------------------
(***************************************************************************)
(* One run of the reconciliation template: execute_plan of                 *)
(* execution/engine.py with the sessions of execution/connections.py.      *)
(*                                                                         *)
(* A run records what the workbook alone decides, opens every section the  *)
(* plan needs, has the databases compile every enabled query (pass 1),     *)
(* closes the gate if any of them failed, otherwise executes what pass 1   *)
(* cleared in row order (pass 2), closes every session, and only then      *)
(* saves one workbook.  The databases, the person at the keyboard and the  *)
(* disk are the nondeterminism: every answer a call may give, Ctrl-C at    *)
(* any point, a save that fails.                                           *)
(*                                                                         *)
(* Abstracted: values, wording, durations and timestamps.  A query's       *)
(* answer is one of the kinds the engine's handlers tell apart.            *)
(***************************************************************************)
EXTENDS Integers, FiniteSets, Sequences

CONSTANTS NRows,     \* data rows of the Test Cases sheet
          Section,   \* TOML sections a test may name
          Plans,     \* the plans build_plan may have read
          Controls   \* Run Control settings and command-line flags

Row == 1..NRows

\* A row as read_test_cases leaves it. sides: the section each query of an
\* executable test runs on, source before target.
Definition == [kind : {"executable", "disabled", "problem"}, sides : Seq(Section)]

Control == [continueOnTestError : BOOLEAN, stopOnCritical : BOOLEAN,
            dryRun : BOOLEAN, validateOnly : BOOLEAN, writeOutput : BOOLEAN]

ASSUME EngineAssumption ==
  /\ NRows \in Nat
  /\ Plans \subseteq [Row -> Definition]
  /\ \A p \in Plans, r \in Row :
        p[r].kind = "executable" => Len(p[r].sides) \in 1..2
  /\ Controls \subseteq Control

VARIABLES
  plan, control,  \* read before the run, never changed by it
  phase,          \* where execute_plan stands
  after,          \* where it goes once close_all has returned
  session,        \* per section, the executor's connection
  blocked,        \* tests set aside because a section never opened
  todo,           \* tests the current pass has not reached yet
  side,           \* queries of the current test already answered
  checkResult,    \* the Syntax Validation row of each test
  unchecked,      \* tests with a query no database could check
  warned,         \* sections reported as unable to check SQL
  outcomes,       \* what _Outcomes has accumulated
  stopped,        \* pass 2 stopped by Continue_On_Test_Error = No
  compiled,       \* <<row, side>> of queries a database compiled
  executed,       \* <<row, side>> of queries sent for execution
  saved           \* the outcomes in the saved workbook, {} before the save

vars == <<plan, control, phase, after, session, blocked, todo, side, checkResult,
          unchecked, warned, outcomes, stopped, compiled, executed, saved>>

inputs  == <<plan, control>>
check   == <<checkResult, unchecked, warned, compiled>>
running == <<stopped, executed>>

EndPhases == {"done", "aborted", "failed", "abandoned"}
Phases == {"starting", "opening", "validating", "executing", "closing",
           "reporting"} \cup EndPhases

Statuses == {"PASS", "FAIL", "PROFILED", "VALIDATED", "ERROR", "SYNTAX ERROR",
             "BLOCKED", "CONFIG ERROR", "NOT EXECUTED", "DISABLED"}
Codes == {"", "CONFIG", "DRY_RUN", "RUN_STOPPED", "CONNECTION_FAILED",
          "SYNTAX_ERROR", "SYNTAX_CHECK_FAILED", "QUERY_TIMEOUT", "QUERY_FAILED",
          "CONVERSION", "MISMATCH"}
OutcomeType == [row : Row, status : Statuses, code : Codes]

----------------------------------------------------------------------------
\* What the engine reads off the plan.

Executable == {r \in Row : plan[r].kind = "executable"}
Disabled   == {r \in Row : plan[r].kind = "disabled"}
Problems   == {r \in Row : plan[r].kind = "problem"}

SideCount(r) == Len(plan[r].sides)
SectionAt(r, i) == plan[r].sides[i]
SectionsOf(r) == {SectionAt(r, i) : i \in 1..SideCount(r)}
RequiredSections == UNION {SectionsOf(r) : r \in Executable}

Runnable == Executable \ blocked
Passed   == {r \in Row : checkResult[r] \in {"OK", "NOT CHECKED"}}
Failures == {r \in Row : checkResult[r] = "FAILED"}

\* The row a pass visits next: the for loops run in sheet order.
IsNext(r) == r \in todo /\ \A q \in todo : r <= q

Report(rows, status, code) ==
  {[row |-> r, status |-> status, code |-> code] : r \in rows}

\* Mutant of Offline: disabled rows are left out of the report.
OfflineProblemsOnly == Report(Problems, "CONFIG ERROR", "CONFIG")

\* Rows decided by the workbook alone, recorded before anything else.
Offline == Report(Problems, "CONFIG ERROR", "CONFIG")
             \cup Report(Disabled, "DISABLED", "")

\* Mutant of CloseThen: the finally clause returns, swallowing the exception.
CloseAndReport(then) == phase' = "closing" /\ after' = "reporting"

\* The finally clause: leave the passes, close, then go to `then`.
CloseThen(then) == phase' = "closing" /\ after' = then

----------------------------------------------------------------------------
Init ==
  /\ plan \in Plans
  /\ control \in Controls
  /\ phase = "starting" /\ after = "reporting"
  /\ session = [s \in Section |-> "unopened"]
  /\ blocked = {} /\ todo = {} /\ side = 0
  /\ checkResult = [r \in Row |-> "none"]
  /\ unchecked = {} /\ warned = {}
  /\ outcomes = {} /\ stopped = FALSE
  /\ compiled = {} /\ executed = {}
  /\ saved = {}

\* A run that reaches no database: a dry run, or a workbook with problems
\* under Stop_On_Critical_Config_Error = Yes.
StopsOnProblems == Problems # {} /\ control.stopOnCritical

StopBeforeDatabases ==
  /\ phase = "starting"
  /\ \/ control.dryRun
     \/ StopsOnProblems
  /\ outcomes' = Offline \cup Report(Executable, "NOT EXECUTED",
                                     IF control.dryRun THEN "DRY_RUN" ELSE "RUN_STOPPED")
  /\ CloseThen("reporting")
  /\ UNCHANGED <<inputs, session, blocked, todo, side, check, running, saved>>

\* The command builds no executors for a plan without an executable test, and
\* execute_plan then raises.
RaiseWithoutExecutors ==
  /\ phase = "starting"
  /\ ~control.dryRun /\ ~StopsOnProblems /\ Executable = {}
  /\ outcomes' = Offline
  /\ CloseThen("failed")
  /\ UNCHANGED <<inputs, session, blocked, todo, side, check, running, saved>>

BeginPasses ==
  /\ phase = "starting"
  /\ ~control.dryRun /\ ~StopsOnProblems /\ Executable # {}
  /\ outcomes' = Offline
  /\ phase' = "opening"
  /\ UNCHANGED <<inputs, after, session, blocked, todo, side, check, running, saved>>

----------------------------------------------------------------------------
\* open_all: every required section is tried, whatever the others did.

OpenSection(s) ==
  /\ phase = "opening"
  /\ s \in RequiredSections /\ session[s] = "unopened"
  /\ \E result \in {"open", "failed"} : session' = [session EXCEPT ![s] = result]
  /\ UNCHANGED <<inputs, phase, after, blocked, todo, side, check, outcomes,
                 running, saved>>

\* Mutant of BlockedRows: only the first section of a test is looked at.
BlockedByFirstSection ==
  {r \in Executable : session[SectionAt(r, 1)] = "failed"}

BlockedRows == {r \in Executable : \E s \in SectionsOf(r) : session[s] = "failed"}

SetAsideBlocked ==
  /\ phase = "opening"
  /\ \A s \in RequiredSections : session[s] # "unopened"
  /\ blocked' = BlockedRows
  /\ outcomes' = outcomes \cup Report(blocked', "BLOCKED", "CONNECTION_FAILED")
  /\ todo' = Executable \ blocked'
  /\ phase' = "validating"
  /\ UNCHANGED <<inputs, after, session, side, check, running, saved>>

----------------------------------------------------------------------------
\* Pass 1: _validate_tests and _validate_one.

\* A call reconnects first when the session was dropped, so it ends with an
\* open session unless it could not connect.
Reconnected(s) == session' = [session EXCEPT ![s] = "open"]

\* Mutant of CheckedAs: the last side decides for the row.
CheckedAsLastSide(r) ==
  IF <<r, SideCount(r)>> \in compiled' THEN "OK" ELSE "NOT CHECKED"

\* A row is NOT CHECKED when some side could not be, and OK only when every side
\* compiled.
CheckedAs(r) == IF r \in unchecked' THEN "NOT CHECKED" ELSE "OK"

PassRow(r) ==
  /\ side' = 0 /\ todo' = todo \ {r}
  /\ checkResult' = [checkResult EXCEPT ![r] = CheckedAs(r)]

NextSideOrPass(r) ==
  \/ /\ side + 1 < SideCount(r)
     /\ side' = side + 1 /\ UNCHANGED <<todo, checkResult>>
  \/ side + 1 = SideCount(r) /\ PassRow(r)

QueryCompiles(r) ==
  /\ phase = "validating" /\ IsNext(r)
  /\ Reconnected(SectionAt(r, side + 1))
  /\ compiled' = compiled \cup {<<r, side + 1>>}
  /\ UNCHANGED <<unchecked, warned>>
  /\ NextSideOrPass(r)
  /\ UNCHANGED <<inputs, phase, after, blocked, outcomes, running, saved>>

\* SyntaxCheckUnavailableError: nothing is known about the SQL. The adapter may
\* have dropped the session; the next side is checked all the same.
CheckUnavailable(r) ==
  LET s == SectionAt(r, side + 1) IN
  /\ phase = "validating" /\ IsNext(r)
  /\ \E left \in {"open", "dropped"} : session' = [session EXCEPT ![s] = left]
  /\ unchecked' = unchecked \cup {r}
  /\ warned' = warned \cup {s}
  /\ UNCHANGED compiled
  /\ NextSideOrPass(r)
  /\ UNCHANGED <<inputs, phase, after, blocked, outcomes, running, saved>>

\* What a failed check is reported as.
ValidationFailure ==
  [rejected    |-> [status |-> "SYNTAX ERROR", code |-> "SYNTAX_ERROR"],
   timeout     |-> [status |-> "ERROR", code |-> "QUERY_TIMEOUT"],
   unreachable |-> [status |-> "BLOCKED", code |-> "CONNECTION_FAILED"],
   other       |-> [status |-> "ERROR", code |-> "SYNTAX_CHECK_FAILED"]]

\* The first side that fails decides the row; the rows after it are still checked.
\* (The engine hands the failures over when the pass is done; a pass that is cut
\* short reports nothing, so recording them one by one shows no difference.)
CheckFails(r) ==
  LET s == SectionAt(r, side + 1) IN
  /\ phase = "validating" /\ IsNext(r)
  /\ \E answer \in DOMAIN ValidationFailure :
       /\ \/ answer = "unreachable" /\ session[s] = "dropped" /\ UNCHANGED session
          \/ answer # "unreachable" /\ Reconnected(s)
       /\ outcomes' = outcomes \cup Report({r}, ValidationFailure[answer].status,
                                           ValidationFailure[answer].code)
  /\ checkResult' = [checkResult EXCEPT ![r] = "FAILED"]
  /\ side' = 0 /\ todo' = todo \ {r}
  /\ UNCHANGED <<inputs, phase, after, blocked, unchecked, warned, compiled,
                 running, saved>>

PassOneOver == phase = "validating" /\ todo = {}

\* Mutants of GateOpen: only rejected SQL closes the gate; the gate stays open
\* while anything compiled.
GateOpenUnlessRejected == ~ \E o \in outcomes : o.status = "SYNTAX ERROR"
GateOpenIfAnyPassed == Failures = {} \/ Passed # {}

GateOpen == Failures = {}

\* Any failure closes the gate: what did compile is recorded and left unrun.
CloseGate ==
  /\ PassOneOver /\ ~GateOpen
  /\ outcomes' = outcomes \cup Report(Passed, "NOT EXECUTED", "RUN_STOPPED")
  /\ CloseThen("reporting")
  /\ UNCHANGED <<inputs, session, blocked, todo, side, check, running, saved>>

StopAfterValidation ==
  /\ PassOneOver /\ GateOpen /\ control.validateOnly
  /\ outcomes' = outcomes \cup Report(Passed, "VALIDATED", "")
  /\ CloseThen("reporting")
  /\ UNCHANGED <<inputs, session, blocked, todo, side, check, running, saved>>

BeginExecution ==
  /\ PassOneOver /\ GateOpen /\ ~control.validateOnly
  /\ todo' = Passed
  /\ phase' = "executing"
  /\ UNCHANGED <<inputs, after, session, blocked, side, check, outcomes, running,
                 saved>>

----------------------------------------------------------------------------
\* Pass 2: _run_tests and _execute_one.

\* Mutant of StopsTheRun: a test that lost its section does not count.
StopsTheRunOnError(status) == ~control.continueOnTestError /\ status = "ERROR"

\* The outcome that ends a run whose sheet says Continue_On_Test_Error = No.
StopsTheRun(status) ==
  ~control.continueOnTestError /\ status \in {"ERROR", "BLOCKED"}

\* Mutant of FinishTest: a test whose query timed out is tried again from its
\* first side, as often as it takes.
RetryTimedOut(r, status, code) ==
  \/ /\ code = "QUERY_TIMEOUT"
     /\ side' = 0 /\ UNCHANGED <<outcomes, stopped, todo>>
  \/ /\ code # "QUERY_TIMEOUT"
     /\ outcomes' = outcomes \cup Report({r}, status, code)
     /\ stopped' = StopsTheRun(status)
     /\ todo' = todo \ {r} /\ side' = 0

FinishTest(r, status, code) ==
  /\ outcomes' = outcomes \cup Report({r}, status, code)
  /\ stopped' = StopsTheRun(status)
  /\ todo' = todo \ {r} /\ side' = 0

Executing(r) == phase = "executing" /\ ~stopped /\ IsNext(r)

\* The side returned its scalar; the next side, or the comparison, follows.
QueryReturns(r) ==
  /\ Executing(r) /\ side < SideCount(r)
  /\ Reconnected(SectionAt(r, side + 1))
  /\ executed' = executed \cup {<<r, side + 1>>}
  /\ side' = side + 1
  /\ UNCHANGED <<inputs, phase, after, blocked, todo, check, outcomes, stopped, saved>>

\* A query that was sent and failed (it timed out, was not scalar, was refused),
\* or could not be sent over a dead link. The other side is not queried.
QueryFails(r) ==
  /\ Executing(r) /\ side < SideCount(r)
  /\ Reconnected(SectionAt(r, side + 1))
  /\ executed' = executed \cup {<<r, side + 1>>}
  /\ \E code \in {"QUERY_TIMEOUT", "QUERY_FAILED"} : FinishTest(r, "ERROR", code)
  /\ UNCHANGED <<inputs, phase, after, blocked, check, saved>>

\* The session was dropped during pass 1 and cannot be reopened.
SectionUnreachable(r) ==
  /\ Executing(r) /\ side < SideCount(r)
  /\ session[SectionAt(r, side + 1)] = "dropped"
  /\ FinishTest(r, "BLOCKED", "CONNECTION_FAILED")
  /\ UNCHANGED <<inputs, phase, after, session, blocked, check, executed, saved>>

\* Mutant of AllSidesAnswered: one answer is enough to compare.
SomeSideAnswered(r) == side >= 1

AllSidesAnswered(r) == side = SideCount(r)

\* The values are normalized and compared.
Verdicts == {[status |-> "PASS", code |-> ""], [status |-> "FAIL", code |-> "MISMATCH"],
             [status |-> "PROFILED", code |-> ""],
             [status |-> "ERROR", code |-> "CONVERSION"]}

Evaluate(r) ==
  /\ Executing(r) /\ AllSidesAnswered(r)
  /\ \E verdict \in Verdicts : FinishTest(r, verdict.status, verdict.code)
  /\ UNCHANGED <<inputs, phase, after, session, blocked, check, executed, saved>>

\* normalize and compare are guarded against their own errors only; any other
\* exception (a datetime past year 9999 in UTC, a non-finite Decimal read as
\* BOOLEAN) leaves execute_plan.
EvaluationRaises(r) ==
  /\ Executing(r) /\ AllSidesAnswered(r)
  /\ CloseThen("failed")
  /\ UNCHANGED <<inputs, session, blocked, todo, side, check, outcomes, running, saved>>

SkipStopped(r) ==
  /\ phase = "executing" /\ stopped /\ IsNext(r)
  /\ outcomes' = outcomes \cup Report({r}, "NOT EXECUTED", "RUN_STOPPED")
  /\ todo' = todo \ {r}
  /\ UNCHANGED <<inputs, phase, after, session, blocked, side, check, running, saved>>

EndExecution ==
  /\ phase = "executing" /\ todo = {}
  /\ CloseThen("reporting")
  /\ UNCHANGED <<inputs, session, blocked, todo, side, check, outcomes, running, saved>>

----------------------------------------------------------------------------
\* close_all, the report, and _write_results.

CloseSession(s) ==
  /\ phase = "closing" /\ session[s] = "open"
  /\ session' = [session EXCEPT ![s] = "closed"]
  /\ UNCHANGED <<inputs, phase, after, blocked, todo, side, check, outcomes,
                 running, saved>>

\* Mutant of AllClosed: one session is closed and the rest are skipped.
SomeClosed == \E s \in Section : session[s] # "open"

AllClosed == \A s \in Section : session[s] # "open"

LeaveRun ==
  /\ phase = "closing" /\ AllClosed
  /\ phase' = after
  /\ UNCHANGED <<inputs, after, session, blocked, todo, side, check, outcomes,
                 running, saved>>

WritesWorkbook == ~control.dryRun /\ control.writeOutput

ReturnReport ==
  /\ phase = "reporting" /\ ~WritesWorkbook
  /\ phase' = "done"
  /\ UNCHANGED <<inputs, after, session, blocked, todo, side, check, outcomes,
                 running, saved>>

\* The save is one os.replace: the whole report or nothing.
SaveReport ==
  /\ phase = "reporting" /\ WritesWorkbook
  /\ \/ saved' = outcomes /\ phase' = "done"
     \/ UNCHANGED saved /\ phase' = "failed"
  /\ UNCHANGED <<inputs, after, session, blocked, todo, side, check, outcomes, running>>

\* Ctrl-C. KeyboardInterrupt is not an Exception: no handler of the engine
\* catches it, the finally clause still closes the sessions, and one that lands
\* in close_all or around the os.replace of the save ends the run there.
Interrupt ==
  /\ \/ /\ phase \in {"starting", "opening", "validating", "executing"}
        /\ CloseThen("aborted") /\ UNCHANGED saved
     \/ phase = "closing" /\ phase' = "abandoned" /\ UNCHANGED <<after, saved>>
     \/ /\ phase = "reporting"
        /\ phase' = "aborted" /\ UNCHANGED after
        /\ saved' \in {saved, IF WritesWorkbook THEN outcomes ELSE saved}
  /\ UNCHANGED <<inputs, session, blocked, todo, side, check, outcomes, running>>

Ended == phase \in EndPhases /\ UNCHANGED vars

----------------------------------------------------------------------------
TestStep(r) ==
  \/ QueryCompiles(r) \/ CheckUnavailable(r) \/ CheckFails(r)
  \/ QueryReturns(r) \/ QueryFails(r) \/ SectionUnreachable(r)
  \/ Evaluate(r) \/ EvaluationRaises(r) \/ SkipStopped(r)

Step ==
  \/ StopBeforeDatabases \/ RaiseWithoutExecutors \/ BeginPasses
  \/ \E s \in Section : OpenSection(s) \/ CloseSession(s)
  \/ SetAsideBlocked
  \/ \E r \in Row : TestStep(r)
  \/ CloseGate \/ StopAfterValidation \/ BeginExecution \/ EndExecution
  \/ LeaveRun \/ ReturnReport \/ SaveReport

Next == Step \/ Interrupt \/ Ended

Spec == Init /\ [][Next]_vars

\* Nothing waits for anything but a driver call, and every driver call returns
\* or raises; nobody is obliged to press Ctrl-C.
FairSpec == Spec /\ WF_vars(Step)

----------------------------------------------------------------------------
\* The report (RunReport) of the outcomes recorded.

Count(statuses) == Cardinality({o \in outcomes : o.status \in statuses})

\* Mutant of ErrorStatuses: blocked tests are not counted.
ErrorStatusesButBlocked == {"ERROR", "SYNTAX ERROR", "CONFIG ERROR"}

ErrorStatuses == {"ERROR", "SYNTAX ERROR", "BLOCKED", "CONFIG ERROR"}

OverallStatus ==
  IF Count(Statuses \ {"DISABLED"}) = 0 THEN "NO TESTS"
  ELSE IF Count({"FAIL"}) > 0 THEN "FAIL"
  ELSE IF Count(ErrorStatuses) > 0 THEN "ERROR"
  ELSE IF Count({"NOT EXECUTED"}) > 0 THEN "INCOMPLETE"
  ELSE "PASS"

\* Mutant of ValidationErrorRows: the checks that timed out are to be listed too, and
\* so are the queries of pass 2 that did.
TimedOutRowsToo ==
  {o.row : o \in {x \in outcomes :
                    x.code \in {"SYNTAX_ERROR", "SYNTAX_CHECK_FAILED", "QUERY_TIMEOUT"}}}

\* The rows of the Validation Errors sheet.
ValidationErrorRows ==
  {o.row : o \in {x \in outcomes : x.code \in {"SYNTAX_ERROR", "SYNTAX_CHECK_FAILED"}}}

----------------------------------------------------------------------------
\* The engine as an implementation of the gate. A row that is not executable
\* and a row whose section never opened are set aside.

GateStage ==
  IF phase \in {"starting", "opening", "validating"} THEN "checking"
  ELSE IF phase = "executing" THEN "running" ELSE "over"

GateVerdict == [r \in Row |->
  IF r \notin Executable \/ r \in blocked THEN "aside"
  ELSE IF checkResult[r] = "none" THEN "pending"
  ELSE IF checkResult[r] = "FAILED" THEN "refused" ELSE "cleared"]

RanRows == {e[1] : e \in executed}
Judged == {r \in Row : \E o \in outcomes :
             o.row = r /\ o.status \in {"PASS", "FAIL", "PROFILED"}}

Gate == INSTANCE ReconcileGate
          WITH Test <- Row, stage <- GateStage, verdict <- GateVerdict,
               ran <- RanRows, judged <- Judged

\* The engine keeps the gate's promise, step by step (README.md, "Two passes:
\* validate everything, then execute everything").
ImplementsGate == Gate!Spec

----------------------------------------------------------------------------
TypeOK ==
  /\ plan \in Plans /\ control \in Controls
  /\ phase \in Phases /\ after \in {"reporting", "aborted", "failed"}
  /\ session \in [Section -> {"unopened", "open", "failed", "dropped", "closed"}]
  /\ blocked \subseteq Row /\ todo \subseteq Row /\ side \in 0..2
  /\ checkResult \in [Row -> {"none", "OK", "NOT CHECKED", "FAILED"}]
  /\ unchecked \subseteq Row /\ warned \subseteq Section
  /\ outcomes \subseteq OutcomeType
  /\ stopped \in BOOLEAN
  /\ compiled \subseteq Row \X (1..2) /\ executed \subseteq Row \X (1..2)
  /\ saved \subseteq OutcomeType

\* The gate (engine.py, module docstring): while one query is or was being
\* executed, every enabled test whose sections opened has been through pass 1
\* and none of them failed it.
GateHolds ==
  executed # {} => \A r \in Runnable : checkResult[r] \in {"OK", "NOT CHECKED"}

\* A query nobody compiled is executed only if the run has already said that
\* its section could not be asked (_validate_one: "the run says out loud that
\* it is going in unchecked"), and its row does not claim OK.
UncheckedRunsAreAnnounced ==
  \A e \in executed \ compiled :
    SectionAt(e[1], e[2]) \in warned /\ checkResult[e[1]] = "NOT CHECKED"

\* A verdict on data needs the data: PASS, FAIL and PROFILED are recorded only
\* for a test all of whose sides were queried, and a status that says a test
\* was not run is never given to one that was, not even to one side of it.
StatusMatchesWork ==
  \A o \in outcomes :
    /\ o.status \in {"PASS", "FAIL", "PROFILED"} =>
         \A i \in 1..SideCount(o.row) : <<o.row, i>> \in executed
    /\ o.status \in {"NOT EXECUTED", "VALIDATED", "SYNTAX ERROR", "DISABLED",
                     "CONFIG ERROR"} => o.row \notin RanRows

\* Failure isolation stops where the sheet says so: with
\* Continue_On_Test_Error = No nothing below a test that errored in pass 2 is
\* sent to a database.
NothingRunsPastAnError ==
  ~control.continueOnTestError =>
    \A o \in outcomes : o.status \in {"ERROR", "BLOCKED"} /\ o.row \in Passed =>
      \A e \in executed : e[1] <= o.row

\* No row is reported twice, and a report that execute_plan returns or saves
\* has every row of the sheet in it.
EveryRowReportedOnce ==
  /\ \A o, p \in outcomes : o.row = p.row => o = p
  /\ phase \in {"reporting", "done"} => {o.row : o \in outcomes} = Row

\* The saved workbook is the whole report of a run that ended by itself, and is
\* written only after every session was closed and never by a dry run.
SavedWorkbookIsComplete ==
  saved # {} =>
    /\ saved = outcomes /\ {o.row : o \in saved} = Row
    /\ ~control.dryRun
    /\ \A s \in Section : session[s] # "open"

\* execute_plan "always closes every connection": it has returned or raised,
\* and no session is left open, unless a second signal cut close_all short.
SessionsClosed ==
  phase \in {"reporting", "done", "failed", "aborted"} =>
    \A s \in Section : session[s] # "open"

\* A PASS for a whole executed run means that every enabled test was executed,
\* on every side, and passed or was profiled.
PassMeansExecuted ==
  phase = "done" /\ ~control.dryRun /\ ~control.validateOnly /\ OverallStatus = "PASS" =>
    /\ Problems = {} /\ Failures = {}
    /\ \A r \in Executable, i \in 1..2 :
         i <= SideCount(r) => <<r, i>> \in executed

\* What the Validation Errors sheet lists failed pass 1, and a run that executed a
\* query lists nothing there: the sheet selects by error code (validation_failures),
\* both passes report under one list of codes, and only those that pass 2 never
\* uses may select. (It is not all that failed pass 1: see README.md.)
ListedRowsFailedValidation ==
  /\ ValidationErrorRows \subseteq Failures
  /\ executed # {} => ValidationErrorRows = {}

\* A section that failed to open is never asked again: the tests that need it
\* are set aside whichever of their sides it serves.
DeadSectionsLeftAlone ==
  [][\A s \in Section : session[s] = "failed" => session'[s] = "failed"]_vars

\* Every run ends, one way or another: no test is taken up again once it has an
\* outcome, whatever the outcome, and close_all and the save follow the last one
\* (_run_tests visits each row once and has no retry).
RunEnds == <>(phase \in EndPhases)
====
