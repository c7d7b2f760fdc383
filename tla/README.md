# Verification of the migration reconciliation tool

The tool compares two databases. A workbook lists tests; each names one or two
SQL queries returning a single value and a way to compare them. A run has every
query compiled by its database before any query is executed, executes them in
row order, and saves a result workbook. There are two programs: `reconcile run`
(plan, engine, result workbook) and the older `run_reconciliation.py` with
`reconcile execute` (wizard, runner, a workbook saved after each result).

This directory holds TLA+ models of that system, the TLC configurations that
check them on small instances, and TLAPS proofs of the most important properties
for every instance. Paths below are relative to `src/src/migration_reconciliation/`
unless they begin with `src/`.

## The system

| Component | State it keeps | Operations | Talks to |
|---|---|---|---|
| Execution engine (`execution/engine.py`) | accumulated outcomes, checked and failed tests, warnings, the reason a run stopped | `execute_plan`: record what the workbook decides, pass 1 (compile), gate, pass 2 (execute, compare), close, save | plan, sessions, evaluation, result workbook |
| Section sessions (`execution/connections.py`) | one executor per profile section | resolve settings, `open_all`, `executor_for`, `close_all` | adapters, profile, prompts |
| SQL Server and Oracle adapters (`database/sqlserver.py`, `oracle.py`, `failures.py`) | one driver connection, possibly none; options of the server's session (`NOEXEC`, call timeout) | `connect`, `validate_syntax`, `execute_scalar`, `close` | driver, server |
| Execution plan, Test Cases reader, Run Control, Observation rules (`execution/plan.py`, `workbook/testcases.py`, `run_control.py`, `observations.py`) | ids seen, tests, problems and rules so far | build a plan of executable, disabled and problem rows; pick the most specific enabled rule | workbook |
| Evaluation (`evaluation/`) | values normalized so far | normalize two scalars, compare them | engine, older runner |
| Result workbook (`workbook/output.py`) | a loaded copy of the workbook, a temporary file | name the result, edit the copy, save atomically | file system, other runs of the same template |
| Older runner (`runner.py`, `workbook/writer.py`, `reader.py`, `database/live.py`) | results so far, failures of the compile pass, workbook saved after each result | select, compile, gate, execute, finish; `--fail-fast` | two live sessions |
| Profile, wizard, command line (`profile.py`, `wizard.py`, `cli.py`, `src/run_reconciliation.py`) | questions asked and announced, settings so far | read the profile, ask, build settings | keyboard, sessions |
| SQL guard, redaction, template generators, fakes | none that outlives a call | refuse, mask, generate | – |

Each run is one thread. What makes it hard is elsewhere:

* **Partial failure.** A section that never opens, a session an adapter drops in
  the middle of pass 1, one side of a test answering and the other failing, an
  exception no handler expected, a save cut short, Ctrl-C anywhere. Each may
  leave the report, the gate, the sessions or the file in a state that no test
  wrote down.
* **Session options.** SQL Server compiles under `SET NOEXEC ON` and Oracle calls
  run under a `call_timeout`, in the very session that later runs the queries.
  Setting, using and undoing them may each fail, with or without effect, and the
  link may be lost between them.
* **Concurrent runs.** Two processes may run one template. They share the
  directory and, under `IN_PLACE`, one file; between looking and replacing, the
  other may act. Either may be killed.
* **Checks made far from their use.** A comparison relies on what the reader
  checked of the row, a connection on what profile and questions settled, a
  verdict on two drivers' different types for one value.
* **Two layers of promises.** The gate ("nothing executes unless everything
  compiled") rests on what adapters do with their sessions, and the docs promise
  more than each layer keeps in every case.

What makes each component correct: the engine never executes past a closed gate,
reports every row exactly once, never gives a verdict without the data, obeys
`Continue_On_Test_Error`, closes every session and saves all or nothing; the
older runner does the same with a file that is never far behind; an adapter never
executes a query it was asked to compile, never invents an answer about the SQL
and never returns a value it did not read; the result workbook is never
half-written, the template survives and the history keeps every run; the
evaluation agrees with exact arithmetic; the reader puts every row in one place
and lets through only tests that can be judged; nobody connects with a setting
that no one gave.

## Modules

| Module | What it is |
|---|---|
| `ReconcileGate` | abstract: checking, then running if nothing was refused, then over |
| `Engine`, `MCEngine` | one run, `execute_plan` and the sessions it opens and closes; its instance for TLC |
| `EngineClaims` | a statement of the docs about a run that does not always hold |
| `EngineProofs` | TLAPS proofs about `Engine`: types, gate, sessions, report, save; outcomes against queries and the refinement of `ReconcileGate`; stopping at an error, what `PASS` means, what *Validation Errors* lists, and dead sections |
| `ReconcileGateProofs` | TLAPS proof of the gate's own promise |
| `QueryExecutor` | abstract: what the engine takes an adapter to do, one whole call a step |
| `SqlServerSession`, `OracleSession` | the two adapters, one driver call a step |
| `SqlServerClaims` | a statement of the docs about syntax checks that does not always hold |
| `SqlServerProofs`, `OracleProofs` | TLAPS proofs about the adapters, with the refinement of `QueryExecutor` |
| `ResultFile`, `ResultFileClaims`, `ResultFileProofs` | runs of one template writing to one directory, one file-system call a step; a claim that does not always hold; TLAPS proofs |
| `Runner`, `MCRunner`, `RunnerClaims`, `RunnerProofs` | the older runner between its two callers, its two connections and its output file; instance, a claim that does not always hold, TLAPS proofs |
| `Comparisons` | normalization, all comparisons and the older comparators, as operators over decimals of bounded width |
| `Evaluation`, `MCEvaluation`, `EvaluationProofs` | from a test's two scalars to its verdict; its instance, TLAPS proofs |
| `Reading` | a workbook becoming a plan, and the older reader beside it |
| `Asking` | profile, wizard and section settings, with the question counter |
| `Startup`, `MCStartup`, `StartupClaims`, `StartupProofs` | a program up to its first connection: `Asking` composed with `Reading`; its instance, a claim that does not always hold, TLAPS proofs about both |

How they meet: `Engine` and the adapters in `QueryExecutor` (`Engine` has its
steps built in: a call that answers leaves the section's session open, a check
that is unavailable may leave it dropped, only a dropped session can turn out
unreachable; both adapters are shown to take no other). The engine's save is one
step that succeeds or does not, and `ResultFile` says what is inside it. `Reading`
and `Evaluation` extend `Comparisons`, so what the reader lets through is judged
by the operators the evaluation uses. `Startup` hands the sections of the plan
that was read to the questions, and the profile's settings to nobody before.
`Engine` starts from a plan such as `Reading` ends with.

### `Engine` and the code

`phase` is where `execute_plan` stands, `todo` and `side` are the loop variables
of `_validate_tests`/`_run_tests` and of `_validate_one`/`_execute_one`,
`outcomes` is `_Outcomes`, `checkResult`, `unchecked` and `warned` are the
*Syntax Validation* rows and the warnings, `stopped` is `stopped_reason`,
`blocked` and `session` come from `open_all`, `after` remembers how the `finally`
was entered. `compiled` and `executed` record what databases were asked and are
read only by properties; `saved` is the workbook on disk.

| Actions | Code |
|---|---|
| `StopBeforeDatabases`, `RaiseWithoutExecutors`, `BeginPasses` | the four branches in `execute_plan`'s `try` |
| `OpenSection`, `SetAsideBlocked` | `open_all`, and the loop that blocks tests |
| `QueryCompiles`, `CheckUnavailable`, `CheckFails` | one `validate_syntax` call of `_validate_one` |
| `CloseGate`, `StopAfterValidation`, `BeginExecution` | what `_execute_tests` does after pass 1 |
| `QueryReturns`, `QueryFails`, `SectionUnreachable` | one `execute_scalar` call of `_execute_one` |
| `Evaluate`, `EvaluationRaises`, `SkipStopped` | normalize/compare and the outcome; the exceptions neither handler catches; a row after a stop |
| `CloseSession`, `LeaveRun`, `ReturnReport`, `SaveReport` | the `finally`, the report, `_write_results` |
| `Interrupt` | `KeyboardInterrupt`, which no `except Exception` catches |

A plan is a function from rows to their kind and the sections their queries run
on, so "source before target" is the order of a sequence, and a test may use one
section twice. Values, observations, durations and messages are left out; a
result of a comparison is one of the verdicts.

### The adapters and the code

`pc` is the driver call about to be made. In `SqlServerSession`, `held` is
`_connection is not None`, `link` whether the session behind it is alive (the
adapter cannot see it), `noexec` the server's option; `pending` is the exception
on its way through the `finally` of `validate_syntax`. A statement may fail with
its effect or without it. `_syntax_failure` reads an unknown SQLSTATE of a lost
link as a rejection (`LostLinkErrors`); the model shows that the failing `SET
NOEXEC OFF` after it keeps that from being reported.

In `OracleSession`, `timeout` is the session's `call_timeout` (its own or that of
a call), `previous` the value a call read before setting it, `link` is up, lost
unnoticed or dead. `Cursor`, `Limit`, `Answered`/`Expires`/`FindsLinkLost`, `Fetch`
and `Cleanup` are the statements of both methods in order. Driver errors are the
ones that tell the tables of `failures.py` apart: `IsTimeout` and `IsNetwork` are
its two classifiers, `SyntaxFailure` and `ExecutionFailure` the adapter's. In both
modules `verdict`, `executed` and `expired` record what the server did.

### `ResultFile` and the code

`Load` is `ResultWriter.__init__`; `Plan` is `plan_destination` and all edits of
the copy; `MakeTemp`, `SaveTemp`, `Replace`, `FailToSave` are the calls of `save`
and its handlers; `Kill` ends the process, or is a Ctrl-C that passes the
handlers. A workbook is its Run History: which runs have a row. `before` is
what was finished when a run loaded the workbook, and defines *serial* runs.

### `Runner` and the code

`pc` is the phase of `ReconciliationRunner.run` and of its callers, `todo` and
`left` are the loop variables, `failures` and `passed` are `ValidationOutcome`,
`results` is the list `record` appends to. `file` and `onDisk` are the output
workbook, `save` the rewrite of it under way: `OpenFile` truncates, `FileWritten`
completes, and Ctrl-C or `SaveFails` may come between. Every row that can be
recorded, one by one (`RecordOne`) or as a group (`RecordAll`), is saved before the
next step. `Unwind` is the exception on its way out through `close_all`.
`opts.live` tells the two callers apart: `run_reconciliation.py` connects first and
counts the enabled rows (`Preflight`), `reconcile execute` runs offline with
`--fail-fast` and `--no-write`.

### `Comparisons` and `Evaluation` and the code

A scalar is the Python type a driver returned, what it reads as (a number, a
moment, a word, nothing, an infinity, NaN), and its text as printed and folded.
Numbers are counted in tenths; `Rounded` and `Quotient` round half to even to
`Digits` significant digits, as `decimal` does with its 28. `Normalize` is
`normalize` with its five readers; what they refuse, with a `TypeConversionError`, is
`Refused`, and what leaves them as another exception is `Raised`: a moment that has no
name in UTC (`Calendar` is what `datetime` can name, in hours), an infinite Decimal or
a NaN read as a BOOLEAN. `Compare` is `COMPARISONS`, `OlderCompare` is
`comparators.py` on the same scalars. `Evaluation` has the steps of
`_execute_one` after its guards: `Answer` per query, `NormalizeNext` per side (the
first refusal ends the test, and an exception of another kind leaves it with the
status `RAISED`: in `Engine` that is `EvaluationRaises`), `Judge`.

### `Reading` and the code

`pc` is the sheet being read, `at` the row, `seen` the map from id to first row,
`definitions`, `problems`, `duplicates` and `rules` the results. `Checks` lists the
conditions of `_read_row` in the order of the code, and the first that holds is
the problem's code. A disabled row is checked for its id alone and has neither
sections nor queries. `ReadRow` reads one row whole, or ends the reading where the
conversion of an *Expected_Value* raises (`Raises`). `EndRows` is the refusal of a
sheet without tests or (older reader) with an id twice. `ReadRule`, `EndRules`,
`Select` are the observation rules. A cell is a word, a blank, a word its column
does not know, or a scalar of `Comparisons`.

### `Asking` and `Startup` and the code

`document` is the profile and `supplied` what `parse_profile` makes of it; `log` is
every question asked, with the total its label showed; `total` is
`Prompter._total` and a question's place in `log` is `Prompter._asked`. `AskBook`,
`AskSource` and `AskTarget` are the parts of `run_wizard`, cut where its answers
change what comes next; `ChooseWorkbook`, `BeginSections` and `ResolveSection` are
`_workbook_path`, the start of `resolve_section_settings` and `_settings_for`. The
input may end at any question (`Onwards`). `Startup` is `_cmd_run` and `_run` up to
the first connection: profile, workbook, `Read` (a step of `Reading`), sections.

## Runs

Passing runs. Every property has a mutant of the code that breaks it
(`PROJECT.json`, `mutants`): the operators whose comment begins "Mutant of".

* **engine** (`MCEngine.cfg`; 746,900 distinct states). Three rows, two sections,
  four plans (both sections and one each; a problem row between two tests; a
  test that uses one section twice, with a disabled row; nothing executable),
  seven settings of the Run Control. Three rows are a row before, at and after
  the one that fails. Two sections let one fail while the other works. Nothing
  else grows with the instance: what a row does depends on its own sides and on
  whether an earlier row stopped the run or dropped its section.
  * `GateHolds`: no query is executed while a runnable test is unchecked or
    failed. `ImplementsGate` says the same step by step, as a refinement.
  * `UncheckedRunsAreAnnounced`: a query nobody compiled is executed only after a
    warning about its section, and its row is not `OK`.
  * `StatusMatchesWork`: verdicts only with all the data; "not run" only if no
    side was sent.
  * `NothingRunsPastAnError`: `Continue_On_Test_Error = No` stops what is below.
  * `EveryRowReportedOnce`: seven routes to the report, one row each, none lost.
  * `SavedWorkbookIsComplete`, `SessionsClosed`: all or nothing, after closing.
  * `PassMeansExecuted`: `PASS` hides no blocked, refused or skipped test.
  * `ListedRowsFailedValidation`: *Validation Errors* lists rows that failed pass 1
    only. It selects by error code, and to list the checks that timed out as well,
    which it leaves out, by their code would list the queries of pass 2 that did.
  * `DeadSectionsLeftAlone`: a section that failed to open stays unasked.
  * `RunEnds`: every run ends, since no test is taken up again; a retry of a query
    that timed out would break it.
* **sqlserver_session** (`SqlServerSession.cfg`; 185,121 states). Three queries: one
  during whose check something goes wrong, one checked afterwards, and one more
  so that the trouble can strike a session that was already reopened once.
  * `ChecksExecuteNothing`, `ValuesWereRead`, `VerdictsAreTheServers`,
    `NoexecIsNeverSilent`: safety of the session option.
  * `ImplementsQueryExecutor`: refinement of `QueryExecutor`.
* **oracle_session** (`OracleSession.cfg`; 7,467 states). Three queries for the same
  reason; builds with and without `Cursor.parse`.
  * `TimeoutRestored`: no live session keeps a finished call's timeout.
  * `AnswersAreTheServers`: the SQL is blamed only for what the server said or
    while the link is dead. `ImplementsQueryExecutor` as above.
* **result_file** (`ResultFile.cfg`; 72,796 states). Three runs in two seconds, both
  output modes: two runs in the same second, and a third before or after.
  * `NeverHalfWritten`, `InputSurvives`, `NoTempLeftBehind`,
    `SerialRunsStayOnRecord`.
* **runner** (`MCRunner.cfg`; 30,539 states). Four sheets of two or three rows, which
  mix rows of one and two sides, an invalid, a disabled, an unsafe and a misfit
  row, and fifteen command lines: each mode, each way of selecting,
  selections that are refused.
  * `EveryRowReportedOnce`, `DiskFollowsTheRun`: the report is whole, and the file,
    whenever it can be opened, is at most one executed test behind.
  * `GateHolds`: nothing the offline checks refused is sent; under
    `--on-syntax-error stop` nothing is executed before every selected row was asked
    about on each side, nor after a rejection.
  * `FailFastHalts`: no query behind a test that failed or errored, and every row
    behind it reported as `SKIPPED`.
  * `CleanMeansExecuted`: exit code 0 hides nothing that was left out.
  * `SessionsClosed`, `RunEnds`, and the types (`TypeOK`).
* **evaluation** (`MCEvaluation.cfg`; 188,544 states). Every comparison, scope and
  type; numbers at 0, at a tolerance, one tenth past it and one digit too long for
  the context; the same value as int, Decimal, float and text, moments in several
  zones and at both ends of the calendar, words, infinities, NaN, NULL.
  * `TolerancesAreExact`: the verdict of exact arithmetic, up to half a unit in the last
    digit kept, for absolute tolerances and for percentages.
  * `SameValueReconciles`: one value in two Python types never makes a test fail, of any
    type but TEXT. Beyond that, read as a number or a moment it passes, or is refused,
    or raises, on both sides; a bool beside a number is refused; and a BOOLEAN may be
    refused on one side alone (Disagreements, below).
  * `ComparisonsCohere`: comparisons agree with each other and with the older
    comparators.
* **startup** (`MCStartup.cfg`; 116,649 states). A sound row with every pair of
  changed cells, three rows from nine kinds (ids shared by good, disabled and
  refused rows), three rules from eleven, every Run Control setting at its
  limits; and, with sheets of one and two sides, every profile that leaves
  something open about either side, under every command line.
  * `EveryRowHasOnePlace`, `ExecutableIsComparable`, `RulesAreUnambiguous`.
  * `QuestionsAreCounted`: no question twice. Where every question is announced
    (`Announced`; the others are in Disagreements, below) none is numbered past its total;
    the wizard's total only shrinks and ends as what was asked; and that of
    `reconcile run`, never recomputed, is what was asked and what the answers spared
    (`Spared`): a certificate and a way to log in for an Oracle, a login for a Windows
    account.
  * `SettingsAreEarned`: which sections are asked about, and that passwords,
    Windows accounts and trusted certificates come from someone who gave them.

Runs that expect a counterexample, one statement of the repository each
(`PROJECT.json`, `findings`, quotes them):

* **failures_are_isolated**: an `OverflowError` of `normalize` ends the whole run
  after its queries were executed (`engine.py:778`, `811` against 25-28).
* **rejections_are_reported**: a rejection followed by a failing `SET NOEXEC OFF`
  is reported as a check that could not be made (`sqlserver.py:133-152`).
* **finished_runs_stay_on_record**: of two overlapping runs, the later save
  removes the earlier one's results (`output.py:89`, `102`).
* **misfits_stop_only_themselves**: under `--on-syntax-error stop` a row bound for the
  wrong engine closes the gate for all (`runner.py:589-612` against 545-546).
* **numbers_stay_within_the_total**: `reconcile run` that asked for the workbook numbers
  its last question past the total, `[2/1]` (`cli.py:402` against
  `connections.py:217`).

### Bounds that stand for something else

`Digits = 2` for Decimal's 28: with numbers of one to three digits every rounding
the code can meet happens. Numbers themselves have no bound, as in Python; the
exponent `Quotient` looks for is bounded by what it has to reach, which the proofs
show to be enough. Tenths for decimals: a fraction is only ever whole or not. `NoEndRow = 1048576` for `_NO_END_ROW`: no sheet has a later row. Workers,
timeouts and lengths of Run Control are checked at their limits only. Lengths of
sheets are those above: whether an id is taken depends on some earlier row, and
whether two rules conflict on two.

### Fairness

`FairSpec` of `Engine` and `Spec` of `Runner` ask weak fairness of `Step`, everything
but Ctrl-C and stuttering at the end. Each is one thread that waits for nothing
but driver and file-system calls, so this assumes only that every such call
returns or raises. It is an assumption where a timeout of zero means "no limit"
(`base.py:34-41`). The other modules ask none and
have no liveness property: a call of an adapter is a chain of driver calls that only
moves forward, `ResultFile`'s runs may be killed anywhere, and nobody need answer a
question. Where a run may end, its end states stutter explicitly and deadlock is
checked; the data models `Evaluation` and `Startup` simply stop when a
verdict, a plan or a refusal is reached, and say `CHECK_DEADLOCK FALSE`.

## Proofs

44 theorems, in eight modules. All hold for every value of the constants that
satisfies the module's named assumption, which TLC evaluates in the module's run.

**The engine** (`EngineAssumption`: rows are numbered, an executable test has one or
two sides).

* `TypeCorrect`: `TypeOK` is inductive; `TypeStep` has one step per action.
* `GateNeverBreached`: `GateHolds` alone is not inductive: it says nothing about
  the rows pass 1 has yet to reach. `PassOneInv` (while validating, `todo` is
  exactly the runnable rows without a check result) and `PassTwoInv` (once a query
  was executed, or pass 2 began, no runnable row is without a passing result)
  strengthen it to `GateInv`.
* `SessionsAlwaysClosed`: sessions open only while a run is before or in its
  passes, or closing; `LeaveRun` is the only way on and requires `AllClosed`.
* `ReportCoversTheSheet`: `ReportInv` states, for each phase, which rows have been
  recorded. `SavedIsTheWholeReport` adds `SavedInv`.
* `OutcomesMatchTheWork`: `SideInv` (no side is open between two tests) and `SentInv`
  (in pass 2 only the test at hand has had queries sent, and all of its first
  `side`); without them a test could be judged with one side missing.
* `EngineImplementsGate`: the refinement; `GateStep` maps each action to a gate
  step or a stutter.
* `NothingRunsUnannounced`: `CheckInv` relates the check of a row to its sides.
* `NothingRunsPastTheFirstError`: `ErrorInv` says that an error of pass 2 stops the
  run, and that then nothing below it has been or will be sent.
* `PassMeansEverythingRan`: `KindsInv` says which kinds of row may have which
  status, with `OutcomesFinite` for the counts.
* `ValidationErrorsFailedPassOne`: `ListedInv` ties the two codes that select to failed
  checks; that a run that executed something has none comes from the gate.
* `DeadSectionsStayDead`: `DeadInv` says that behind the loop that sets tests aside
  no runnable test needs a section that failed to open; `WithinInv`, that pass 1
  leaves a test after its last side, so the query at hand is one of the test's own.

**The gate**: `GateKeepsItsPromise`, of `ReconcileGate` for any set of tests; by the
refinement it holds of the engine.

**The SQL Server adapter**: `SessionInv` = `ValuesOK`, `CallInv` (the call under way
belongs to the pass), `HeldInv`, `NoexecInv` (where the option may be on), `PendingInv`
(what the exception in flight says is what the server said), `AnswersInv`. From it
`SqlServerTypes`, `SqlServerChecksExecuteNothing`, `SqlServerValuesWereRead`,
`SqlServerVerdictsAreTheServers`, `SqlServerNoexecIsNeverSilent`, and
`SqlServerImplementsQueryExecutor`, the refinement.

**The Oracle adapter**: `SessionInv` = `TypeOK`, `CallInv`, `TimeoutInv` (between setting
and restoring, `previous` is the session's own timeout), `PendingInv`. From it
`OracleTypes`, `OracleTimeoutRestored`, `OracleAnswersAreTheServers` and
`OracleImplementsQueryExecutor`.

**Result files**, for any number of runs: `FileInv` (what a run has loaded, means to
write and holds in its temporary file is whole) gives `ResultFileTypes`,
`ResultFileNeverHalfWritten`, `ResultFileInputSurvives`,
`ResultFileNoTempLeftBehind`; `RecordInv` (a run under way owes to every run that
finished before it loaded) gives `ResultFileSerialRunsStayOnRecord`.

**The older runner** (`RunnerAssumption`: sheets and options have their types). Every
phase takes rows until none is left, so each invariant says what is true of the
rows taken and of those to come; that a pass always has a first row, `FirstOf`,
needs the well-ordering of the naturals.

* `RunnerTypes`; `CloseInv` gives `RunnerSessionsClosed`.
* `RunnerGateHolds`, from `GateInv`: `TakenInv` (which rows a pass has taken),
  `OfflineInv` (what the offline checks refused was sent nowhere), `CheckedInv` (a row
  without a failure was asked on every side), `UnexecutedInv` (nothing executes
  before the gate) and `ClearedInv`.
* `RunnerEveryRowReportedOnce`: `RecordedInv` says, for each phase, which rows are still
  `Owed` a result, and that the list is as long as the set of its rows. Rows need not
  be recorded in the order of the sheet: those decided offline come first; `SortedInv`,
  that the compile pass splits the selected rows into passed and failed.
* `RunnerDiskFollowsTheRun`: `DiskInv` (with no save due the file holds what was
  recorded), `QueriedInv` (rows are executed in order) and `BehindInv` (a file that can
  be opened lacks the result of one executed row at most; of one that cannot,
  nothing is said).
* `RunnerFailFastHalts`: `FastInv`. Alone, `FailFastHalts` says nothing of the rows to
  come; what the gate let through must have no failure behind it either.
* `RunnerCleanMeansExecuted`: `SideInv` (the row at hand was asked on the sides behind
  it), `WorkInv` (a result says that its row was executed or why it was not) and
  `ExitInv` (only a finished and clean run exits with 0).

**Evaluation** (`TestsAssumption`: what the reader lets through; `ScalarsAssumption`: no
driver writes a date as a number), for any scalars and any precision. `EvalInv` says
where a verdict comes from: the first refusal or exception, or the comparison of what all
queries returned (`AnsweredInv`, `NormalizedInv`, `OutcomeInv`).

* `EvaluationSameValueReconciles` and `EvaluationComparisonsCohere` rest on facts about
  `Rounded`: it is odd, keeps order, and is zero only at zero.
* `EvaluationTolerancesAreExact`: `HalfEvenAgrees` says what rounding to a multiple of a
  unit may change, half of it at most, and nothing when the bound is a multiple of
  the unit too. `RoundedAgrees` applies it to a difference. `QuotientAgrees` applies it
  to a percentage: `QuotientKept` finds the unit that the division rounds to, for a
  ratio longer than the precision and for one that needs decimal places, and shows
  that a tolerance the ratio does not exceed is a multiple of it.
* These need powers of ten for every exponent. `Power` is a recursive function, and the
  library's induction rules are out of the provers' reach; `Induction` derives the
  rule for *sets* of numbers from the well-ordering of the naturals (`LeastOf`), and
  `ListsExist` and `ListsAgree` show by it that the recursion defines a function, from
  which `PowerStep` and all of `Powers` follow.

**Reading and startup** (`BooksAssumption`, `SamplesAssumption`: rows, rules and scalars
have their types; `StartsAssumption`: profiles and flags have theirs).

* `StartupReads`: the composition refines `Reading`, which is why what is proved of
  reading needs no mention of the questions.
* `StartupEveryRowHasOnePlace`, from `SeenInv`, `PlacedInv` and `FirstInv`: what has
  become of the rows read so far, and of their ids.
* `StartupExecutableIsComparable`, from `DefinedInv` (a test is a row that passed every
  check) and the lemmas that follow each comparison to its operands. It relates
  the reader's checks to `Compare`, two files far apart in the code.
* `StartupRulesAreUnambiguous`, from `RuledInv` (accepted rules do not contradict each
  other): two rules of equal strength that match one outcome would.
* `StartupSettingsAreEarned`: `StageInv`, `SuppliedInv`, `LogInv`, `NeededInv`, `WizardInv`
  and `EarnedInv`; `NeededInv` ties the sections asked about to the tests that were
  read.
* `StartupQuestionsAreCounted`: `CountInv` says what the log of each program is made of.
  For `reconcile run`, `PlanCountInv`: perhaps the workbook, and what each section took
  (`Spent`); `SpentAndSpared` compares that with what the section was counted with
  before anyone knew its engine: what the answers spared is the difference, but for
  a login that came late (`TurnedOracle`). For the wizard, `WizardCountInv`: at each
  stage, what is still missing to the total. Both are proved for every profile, with
  the questions no total includes counted in `Uncounted`, a definition of the proof
  alone; `AnnouncedIsCounted` shows that there are none where the theorem speaks.
  `GivenInv` (the settings are possible answers, a login was asked for in full) and
  `WordsInv` (what a profile may say of the workbook) support both.

The proofs also corrected the models. Four definitions (`AuthOf`, `TrustOf`, the mode in
`Expected`, `Classify`) were CASEs whose guards overlap: TLC takes the first that
holds, as the code does, but the language leaves the choice open and nothing could
be proved of it. They are IF chains now. `Width` had no value for numbers longer
than ten digits, and an exception that escapes a row of the runner was missing a
case; both were added; `Width` and `Quotient` have no cap any more. `SparedIn` and `ExpectedCount` are sums over the two sections
rather than recursive, so that they can be computed with.

**Only model-checked.** Liveness: the prover has no rule for `ENABLED`.

## Not modelled, and why

* `security/sql_guard.py`: a scanner over characters, whose unit tests enumerate
  its cases. Its verdict on a query is an input of `Reading` and `Runner`.
* `security/redaction.py`, messages, observations' templates, reports on the
  terminal, cell layout: text, which decides nothing.
* Template and schema generators, `reporting.py`, `errors.py`: functions from
  input to text or declarative data.
* `database/fake.py`, `factory.py`, `dialect.py`: a scripted executor for tests and two
  tables of patterns; what they say of a row is an input of `Runner`.
* Loading the Oracle client, connection strings, the choice of an ODBC driver:
  they decide whether `connect` succeeds, which every model takes as open.
* TOML, ports, single values of a profile, and connections beyond *source* and
  *target* (no sheet can name one): one kind of flawed document.
* Rows of the template edited while a run goes on. The engine writes its results
  by the row numbers it read at the start (`engine.py:1107`) and nothing compares
  the two, so no property of the pairing could hold.

`openpyxl`, the drivers and the servers are external: they appear as the answers
the code distinguishes.

## Disagreements met while reading

Stated by a run: the five above. Not stated by one:

* *Validation Errors* has, by its docstring, "one row per query that failed pass 1"
  (`engine.py:273`). A check that timed out or could not reconnect closes the gate
  with a code that `validation_failures` (`engine.py:266-270`) does not select.
* A run that only validates reports `PASS` although it executed nothing, against
  "never PASS while an enabled test went unexecuted" (`engine.py:244`): its rows
  are `VALIDATED`, which no counter looks at; `PassMeansExecuted` speaks of whole
  runs. A validate-only row that could not be checked says its query compiled.
* Ctrl-C in the older runner prints "Nothing was written"
  (`src/run_reconciliation.py:166`), with a workbook on disk from its creation on
  (`writer.py:139`).
* `writer.py:79-84` promises every decided result after an interrupt; one in the middle
  of a save (199-203) leaves a file that cannot be opened, and none of them.
  `DiskFollowsTheRun` speaks of files that can be.
* `--fail-fast`, "after the first failure or error" (`cli.py:132`), stops at `PROFILED`
  too (`runner.py:671`; `src/ARCHITECTURE.md:121-122` agrees with the code).
* `_as_boolean` takes `int()` of a Decimal before it looks for 0 and 1
  (`normalization.py:108-110`): 0.5 is FALSE, while as a float or as text it is
  refused, as 10-13 promise of a value that is not clear.
* The wizard's total grows when a source with a Windows account and no engine turns
  out an Oracle (`wizard.py:504`), against "the longer path is assumed until then"
  (484-487).
* `connection.timeout` is never restored, against "leave the session exactly as
  they found it" (`base.py:66-69`).
* `--fail-fast` does not stop at an `ERROR` that was decided before the execution (an
  invalid row, a misfit, a failed compilation), which `cli.py:132` does not except;
  `FailFastHalts` speaks of tests that were tried. A run it stopped at a `PROFILED`
  test exits 0 with skipped rows.
* `runner.py:459-461` says execution "only" follows a compile pass that is clean;
  by default (`CONTINUE`) nothing is compiled first.
* `comparators.py:127` "never raises", yet the difference of two infinities does.
  A control character in a value makes `openpyxl` end the run.
* DPY-4011, a lost link, is read as a query timeout (`failures.py:177`), ORA-03113 as
  a rejection; a call timeout in `fetchmany` is an unexpected error.
* A Run Control number `Infinity` raises `OverflowError`, not a configuration error
  (`run_control.py:238-241`); neither is an *Expected_Value* at the end of the calendar,
  which the reader hands to the same `normalize` (`testcases.py:385-391`).
* The older reader hands a blank connection cell on as the name "None"
  (`reader.py:298`), which `live.py:58-65` takes, like any unknown name, for the
  side's own connection; the newer reader refuses both. A blank *Enabled* means yes
  there and is a problem here. The variance is source minus target there and target
  minus source here.
* The counter runs past its total in two more cases. The wizard takes a workbook or
  sheet its profile names for answered when it is not there (`wizard.py:490-493`). In
  `reconcile run` a section that says "windows" without a type, answered "oracle", asks
  for a login no total counts (`connections.py:229-240`).
* `oracle_client_mode = "thick"` on a section without a type is refused only after
  every question, if the answer is SQL Server (`settings.py:99`).

## Plan

Done: the engine and its gate, both adapters, the result file, the older runner,
evaluation, reading and startup, with 44 theorems: every safety and action property of
the runs. What is left:

1. Proofs: the half of the liveness properties that needs no `ENABLED`: a measure that
   every step of the engine and of the older runner lowers, so that no run can go
   on forever.
2. Models: the SQL guard's scanner against a reference definition of one read-only
   statement; `reconcile validate` of `cli.py`.
