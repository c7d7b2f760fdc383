---------------------------- MODULE EngineProofs ----------------------------
(***************************************************************************)
(* What holds of every run of the engine, for every sheet, every set of    *)
(* sections and every Run Control, proved from inductive invariants in     *)
(* three parts.                                                            *)
(*                                                                         *)
(*   1. What is sent and when, and what is recorded: nothing is sent      *)
(*      before the gate, every session is closed, every row has one        *)
(*      outcome, and a saved workbook holds all of them.                   *)
(*   2. The outcomes match the queries that were sent, the engine          *)
(*      implements the abstract gate, and what ran unchecked is announced. *)
(*   3. What a reader may conclude from a finished run: nothing ran past   *)
(*      an error where the sheet forbids it, a PASS for the whole run      *)
(*      means every enabled test was executed, Validation Errors lists     *)
(*      only what failed pass 1, and a section that failed to open was     *)
(*      never asked again.                                                 *)
(***************************************************************************)
EXTENDS Engine, TLAPS, FiniteSetTheorems, FunctionTheorems

\* Pass 1 decides about runnable tests only, none of them before it starts, and
\* has still to visit exactly those it has not decided.
PassOneInv ==
  /\ \A r \in Row : checkResult[r] # "none" => r \in Runnable
  /\ phase \in {"starting", "opening"} => \A r \in Row : checkResult[r] = "none"
  /\ phase = "validating" => todo = {r \in Runnable : checkResult[r] = "none"}

\* Pass 2 visits tests that passed pass 1 and starts with nothing executed.
PassTwoInv ==
  /\ todo \subseteq Executable
  /\ phase = "executing" => todo \subseteq Passed
  /\ phase \in {"starting", "opening", "validating"} => executed = {}

\* The gate, also where nothing has been executed yet.
GateInv ==
  phase = "executing" \/ executed # {} =>
    \A r \in Runnable : checkResult[r] \in {"OK", "NOT CHECKED"}

WorkInv == PassOneInv /\ PassTwoInv /\ GateInv

----------------------------------------------------------------------------
\* What _Outcomes gains is made of outcomes.
LEMMA ReportType ==
  ASSUME NEW rows, rows \subseteq Row, NEW status \in Statuses, NEW code \in Codes
  PROVE  Report(rows, status, code) \subseteq OutcomeType
BY DEF Report, OutcomeType

\* A test that may run has one or two sides, each on a section.
LEMMA SidesOfExecutable ==
  ASSUME TypeOK, NEW r \in Executable
  PROVE  /\ SideCount(r) \in 1..2
         /\ \A i \in 1..SideCount(r) : SectionAt(r, i) \in Section
<1>1. plan \in [Row -> Definition] /\ r \in Row /\ plan[r].kind = "executable"
  BY EngineAssumption DEF TypeOK, Executable
<1>2. plan[r].sides \in Seq(Section)
  BY <1>1 DEF Definition
<1>3. SideCount(r) \in 1..2
  BY <1>1, EngineAssumption DEF TypeOK, SideCount
<1> QED
  BY <1>2, <1>3 DEF SectionAt, SideCount

\* The rows of the sheet are the executable ones, the disabled ones and the
\* problems, and no row is two of these.
LEMMA OfflineType == TypeOK => Offline \subseteq OutcomeType
<1>1. Problems \subseteq Row /\ Disabled \subseteq Row
  BY DEF Problems, Disabled
<1>2. Report(Problems, "CONFIG ERROR", "CONFIG") \subseteq OutcomeType
  BY <1>1, ReportType DEF Statuses, Codes
<1>3. Report(Disabled, "DISABLED", "") \subseteq OutcomeType
  BY <1>1, ReportType DEF Statuses, Codes
<1> QED
  BY <1>2, <1>3 DEF Offline

LEMMA InitWork == Init => TypeOK /\ WorkInv
<1> SUFFICES ASSUME Init PROVE TypeOK /\ WorkInv
  OBVIOUS
<1>1. plan \in Plans /\ control \in Controls
  BY DEF Init
<1>2. /\ phase \in Phases /\ after \in {"reporting", "aborted", "failed"}
      /\ side \in 0..2
  BY DEF Init, Phases
<1>3. /\ session \in [Section -> {"unopened", "open", "failed", "dropped", "closed"}]
      /\ checkResult \in [Row -> {"none", "OK", "NOT CHECKED", "FAILED"}]
  BY DEF Init
<1>4. /\ blocked \subseteq Row /\ todo \subseteq Row /\ unchecked \subseteq Row
      /\ warned \subseteq Section /\ outcomes \subseteq OutcomeType
      /\ compiled \subseteq Row \X (1..2) /\ executed \subseteq Row \X (1..2)
      /\ saved \subseteq OutcomeType
  BY DEF Init
<1>5. stopped \in BOOLEAN
  BY Zenon DEF Init
<1>6. TypeOK
  BY <1>1, <1>2, <1>3, <1>4, <1>5 DEF TypeOK
<1>7. PassOneInv /\ PassTwoInv /\ GateInv
  BY DEF Init, PassOneInv, PassTwoInv, GateInv
<1> QED
  BY <1>6, <1>7 DEF WorkInv

----------------------------------------------------------------------------
\* Type correctness, one step per action.

\* A failed check and a comparison are reported with a status and a code.
LEMMA VerdictTypes ==
  /\ \A answer \in DOMAIN ValidationFailure :
       /\ ValidationFailure[answer].status \in Statuses
       /\ ValidationFailure[answer].code \in Codes
  /\ \A verdict \in Verdicts : verdict.status \in Statuses /\ verdict.code \in Codes
<1>1. DOMAIN ValidationFailure = {"rejected", "timeout", "unreachable", "other"}
  BY DEF ValidationFailure
<1>2. ASSUME NEW answer \in DOMAIN ValidationFailure
      PROVE  /\ ValidationFailure[answer].status \in Statuses
             /\ ValidationFailure[answer].code \in Codes
  <2>1. CASE answer = "rejected"
    BY <2>1 DEF ValidationFailure, Statuses, Codes
  <2>2. CASE answer = "timeout"
    BY <2>2 DEF ValidationFailure, Statuses, Codes
  <2>3. CASE answer = "unreachable"
    BY <2>3 DEF ValidationFailure, Statuses, Codes
  <2>4. CASE answer = "other"
    BY <2>4 DEF ValidationFailure, Statuses, Codes
  <2> QED
    BY <1>1, <1>2, <2>1, <2>2, <2>3, <2>4
<1>3. ASSUME NEW verdict \in Verdicts
      PROVE  verdict.status \in Statuses /\ verdict.code \in Codes
  <2>1. CASE verdict = [status |-> "PASS", code |-> ""]
    BY <2>1 DEF Statuses, Codes
  <2>2. CASE verdict = [status |-> "FAIL", code |-> "MISMATCH"]
    BY <2>2 DEF Statuses, Codes
  <2>3. CASE verdict = [status |-> "PROFILED", code |-> ""]
    BY <2>3 DEF Statuses, Codes
  <2>4. CASE verdict = [status |-> "ERROR", code |-> "CONVERSION"]
    BY <2>4 DEF Statuses, Codes
  <2> QED
    BY <2>1, <2>2, <2>3, <2>4 DEF Verdicts
<1> QED
  BY <1>2, <1>3

LEMMA NextSideType ==
  ASSUME TypeOK, NEW r \in Executable, NextSideOrPass(r)
  PROVE  /\ side + 1 \in 1..2 /\ side + 1 <= SideCount(r)
         /\ side' \in 0..2 /\ todo' \subseteq todo
         /\ checkResult' \in [Row -> {"none", "OK", "NOT CHECKED", "FAILED"}]
<1>1. SideCount(r) \in 1..2 /\ side \in 0..2
  BY SidesOfExecutable DEF TypeOK
<1>2. side + 1 \in 1..2 /\ side + 1 <= SideCount(r)
  <2>1. CASE side + 1 < SideCount(r)
    BY <1>1, <2>1
  <2>2. CASE side + 1 = SideCount(r)
    BY <1>1, <2>2
  <2> QED
    BY <2>1, <2>2 DEF NextSideOrPass
<1>3. side' \in 0..2 /\ todo' \subseteq todo
  <2>1. side' \in {0, side + 1}
    BY DEF NextSideOrPass, PassRow
  <2>2. todo' \subseteq todo
    BY DEF NextSideOrPass, PassRow
  <2> QED
    BY <1>2, <2>1, <2>2
<1>4. CheckedAs(r) \in {"OK", "NOT CHECKED"}
  BY DEF CheckedAs
<1>5. checkResult' \in [Row -> {"none", "OK", "NOT CHECKED", "FAILED"}]
  BY <1>4 DEF NextSideOrPass, PassRow, TypeOK
<1> QED
  BY <1>2, <1>3, <1>5

LEMMA FinishTestType ==
  ASSUME TypeOK, NEW r \in Row, NEW status \in Statuses, NEW code \in Codes,
         FinishTest(r, status, code)
  PROVE  /\ outcomes' \subseteq OutcomeType
         /\ stopped' \in BOOLEAN
         /\ todo' \subseteq todo /\ side' \in 0..2
<1>1. Report({r}, status, code) \subseteq OutcomeType
  BY ReportType
<1>2. outcomes' \subseteq OutcomeType
  BY <1>1 DEF FinishTest, TypeOK
<1>3. stopped' \in BOOLEAN
  BY Zenon DEF FinishTest, StopsTheRun
<1>4. todo' \subseteq todo /\ side' \in 0..2
  BY DEF FinishTest
<1> QED
  BY <1>2, <1>3, <1>4

LEMMA TypeStep == TypeOK /\ todo \subseteq Executable /\ [Next]_vars => TypeOK'
<1> SUFFICES ASSUME TypeOK, todo \subseteq Executable, [Next]_vars PROVE TypeOK'
  OBVIOUS
<1>a. Executable \subseteq Row /\ Passed \subseteq Row
  BY DEF Executable, Passed
<1>0. CASE UNCHANGED vars
  BY <1>0 DEF TypeOK, vars, inputs, check, running
<1>1. CASE StopBeforeDatabases
  <2>1. outcomes' \subseteq OutcomeType
    <3>1. Report(Executable, "NOT EXECUTED", IF control.dryRun THEN "DRY_RUN" ELSE "RUN_STOPPED")
            \subseteq OutcomeType
      BY <1>a, ReportType DEF Statuses, Codes
    <3> QED
      BY <1>1, <3>1, OfflineType DEF TypeOK, StopBeforeDatabases
  <2> QED
    BY <1>1, <2>1 DEF TypeOK, StopBeforeDatabases, CloseThen, Phases, inputs, check, running
<1>2. CASE RaiseWithoutExecutors
  BY <1>2, OfflineType DEF TypeOK, RaiseWithoutExecutors, CloseThen, Phases, inputs, check, running
<1>3. CASE BeginPasses
  BY <1>3, OfflineType DEF TypeOK, BeginPasses, Phases, inputs, check, running
<1>4. ASSUME NEW s \in Section, OpenSection(s) PROVE TypeOK'
  BY <1>4 DEF TypeOK, OpenSection, inputs, check, running
<1>5. ASSUME NEW s \in Section, CloseSession(s) PROVE TypeOK'
  BY <1>5 DEF TypeOK, CloseSession, inputs, check, running
<1>6. CASE SetAsideBlocked
  <2>1. blocked' \subseteq Row
    BY <1>6, <1>a DEF TypeOK, SetAsideBlocked, BlockedRows
  <2>2. outcomes' \subseteq OutcomeType
    <3>1. Report(blocked', "BLOCKED", "CONNECTION_FAILED") \subseteq OutcomeType
      BY <2>1, ReportType DEF Statuses, Codes
    <3> QED
      BY <1>6, <3>1 DEF TypeOK, SetAsideBlocked
  <2> QED
    BY <1>6, <1>a, <2>1, <2>2 DEF TypeOK, SetAsideBlocked, Phases, inputs, check, running
<1>7. ASSUME NEW r \in Row, QueryCompiles(r) PROVE TypeOK'
  <2>1. r \in Executable /\ NextSideOrPass(r)
    BY <1>7 DEF TypeOK, QueryCompiles, IsNext
  <2>2. <<r, side + 1>> \in Row \X (1..2)
    BY <2>1, NextSideType
  <2>3. compiled' \subseteq Row \X (1..2)
    BY <1>7, <2>2 DEF TypeOK, QueryCompiles
  <2>4. session' \in [Section -> {"unopened", "open", "failed", "dropped", "closed"}]
    BY <1>7 DEF TypeOK, QueryCompiles, Reconnected
  <2> QED
    BY <1>7, <2>1, <2>3, <2>4, NextSideType DEF TypeOK, QueryCompiles, inputs, running
<1>8. ASSUME NEW r \in Row, CheckUnavailable(r) PROVE TypeOK'
  <2>1. r \in Executable /\ NextSideOrPass(r)
    BY <1>8 DEF TypeOK, CheckUnavailable, IsNext
  <2>2. SectionAt(r, side + 1) \in Section
    <3>1. side + 1 \in 1..2 /\ side + 1 <= SideCount(r)
      BY <2>1, NextSideType
    <3> QED
      BY <2>1, <3>1, SidesOfExecutable
  <2>3. /\ warned' \subseteq Section /\ unchecked' \subseteq Row
        /\ session' \in [Section -> {"unopened", "open", "failed", "dropped", "closed"}]
    BY <1>8, <2>2 DEF TypeOK, CheckUnavailable
  <2> QED
    BY <1>8, <2>1, <2>3, NextSideType DEF TypeOK, CheckUnavailable, inputs, running
<1>9. ASSUME NEW r \in Row, CheckFails(r) PROVE TypeOK'
  <2>1. PICK answer \in DOMAIN ValidationFailure :
          /\ \/ UNCHANGED session
             \/ Reconnected(SectionAt(r, side + 1))
          /\ outcomes' = outcomes \cup Report({r}, ValidationFailure[answer].status,
                                              ValidationFailure[answer].code)
    BY <1>9 DEF TypeOK, CheckFails
  <2>2. ValidationFailure[answer].status \in Statuses /\ ValidationFailure[answer].code \in Codes
    BY VerdictTypes
  <2>3. outcomes' \subseteq OutcomeType
    <3>1. Report({r}, ValidationFailure[answer].status, ValidationFailure[answer].code)
            \subseteq OutcomeType
      BY <2>2, ReportType
    <3> QED
      BY <2>1, <3>1 DEF TypeOK
  <2>4. session' \in [Section -> {"unopened", "open", "failed", "dropped", "closed"}]
    BY <2>1 DEF TypeOK, Reconnected
  <2>5. checkResult' \in [Row -> {"none", "OK", "NOT CHECKED", "FAILED"}]
    BY <1>9 DEF TypeOK, CheckFails
  <2>6. side' \in 0..2 /\ todo' \subseteq Row
    <3>1. side' = 0 /\ todo' = todo \ {r}
      BY <1>9 DEF CheckFails
    <3>2. todo \subseteq Row
      BY DEF TypeOK
    <3> QED
      BY <3>1, <3>2
  <2>7. UNCHANGED <<plan, control, phase, after, blocked, unchecked, warned, compiled,
                    stopped, executed, saved>>
    BY <1>9 DEF CheckFails, inputs, running
  <2> QED
    BY <2>3, <2>4, <2>5, <2>6, <2>7 DEF TypeOK
<1>10. CASE CloseGate
  <2>1. Report(Passed, "NOT EXECUTED", "RUN_STOPPED") \subseteq OutcomeType
    BY <1>a, ReportType DEF Statuses, Codes
  <2> QED
    BY <1>10, <2>1 DEF TypeOK, CloseGate, CloseThen, Phases, inputs, check, running
<1>11. CASE StopAfterValidation
  <2>1. Report(Passed, "VALIDATED", "") \subseteq OutcomeType
    BY <1>a, ReportType DEF Statuses, Codes
  <2> QED
    BY <1>11, <2>1 DEF TypeOK, StopAfterValidation, CloseThen, Phases, inputs, check, running
<1>12. CASE BeginExecution
  BY <1>12, <1>a DEF TypeOK, BeginExecution, Phases, inputs, check, running
<1>13. ASSUME NEW r \in Row, QueryReturns(r) PROVE TypeOK'
  <2>1. r \in Executable /\ side < SideCount(r)
    BY <1>13 DEF TypeOK, QueryReturns, Executing, IsNext
  <2>2. side + 1 \in 1..2
    <3>1. SideCount(r) \in 1..2 /\ side \in 0..2
      BY <2>1, SidesOfExecutable DEF TypeOK
    <3> QED
      BY <2>1, <3>1
  <2>3. executed' = executed \cup {<<r, side + 1>>} /\ side' = side + 1
    BY <1>13 DEF TypeOK, QueryReturns
  <2>5. executed' \subseteq Row \X (1..2) /\ side' \in 0..2
    <3>1. executed \subseteq Row \X (1..2)
      BY DEF TypeOK
    <3>2. <<r, side + 1>> \in Row \X (1..2)
      BY <2>2
    <3> QED
      BY <2>2, <2>3, <3>1, <3>2
  <2>4. session' \in [Section -> {"unopened", "open", "failed", "dropped", "closed"}]
    BY <1>13 DEF TypeOK, QueryReturns, Reconnected
  <2> QED
    BY <1>13, <2>4, <2>5 DEF TypeOK, QueryReturns, inputs, check
<1>14. ASSUME NEW r \in Row, QueryFails(r) PROVE TypeOK'
  <2>1. r \in Executable /\ side < SideCount(r)
    BY <1>14 DEF TypeOK, QueryFails, Executing, IsNext
  <2>2. side + 1 \in 1..2
    <3>1. SideCount(r) \in 1..2 /\ side \in 0..2
      BY <2>1, SidesOfExecutable DEF TypeOK
    <3> QED
      BY <2>1, <3>1
  <2>3. executed' \subseteq Row \X (1..2)
    <3>1. executed' = executed \cup {<<r, side + 1>>}
      BY <1>14 DEF TypeOK, QueryFails
    <3>2. executed \subseteq Row \X (1..2)
      BY DEF TypeOK
    <3>3. <<r, side + 1>> \in Row \X (1..2)
      BY <2>2
    <3> QED
      BY <3>1, <3>2, <3>3
  <2>4. session' \in [Section -> {"unopened", "open", "failed", "dropped", "closed"}]
    BY <1>14 DEF TypeOK, QueryFails, Reconnected
  <2>5. PICK code \in {"QUERY_TIMEOUT", "QUERY_FAILED"} : FinishTest(r, "ERROR", code)
    BY <1>14 DEF TypeOK, QueryFails
  <2>6. code \in Codes /\ "ERROR" \in Statuses
    BY DEF Codes, Statuses
  <2> QED
    BY <1>14, <2>3, <2>4, <2>5, <2>6, FinishTestType DEF TypeOK, QueryFails, inputs, check
<1>15. ASSUME NEW r \in Row, SectionUnreachable(r) PROVE TypeOK'
  <2>1. "BLOCKED" \in Statuses /\ "CONNECTION_FAILED" \in Codes
    BY DEF Codes, Statuses
  <2> QED
    BY <1>15, <2>1, FinishTestType DEF TypeOK, SectionUnreachable, inputs, check
<1>16. ASSUME NEW r \in Row, Evaluate(r) PROVE TypeOK'
  <2>1. PICK verdict \in Verdicts : FinishTest(r, verdict.status, verdict.code)
    BY <1>16 DEF TypeOK, Evaluate
  <2>2. verdict.status \in Statuses /\ verdict.code \in Codes
    BY VerdictTypes
  <2> QED
    BY <1>16, <2>1, <2>2, FinishTestType DEF TypeOK, Evaluate, inputs, check
<1>17. ASSUME NEW r \in Row, EvaluationRaises(r) PROVE TypeOK'
  BY <1>17 DEF TypeOK, EvaluationRaises, CloseThen, Phases, inputs, check, running
<1>18. ASSUME NEW r \in Row, SkipStopped(r) PROVE TypeOK'
  <2>1. Report({r}, "NOT EXECUTED", "RUN_STOPPED") \subseteq OutcomeType
    <3>1. {r} \subseteq Row /\ "NOT EXECUTED" \in Statuses /\ "RUN_STOPPED" \in Codes
      BY DEF Statuses, Codes
    <3> QED
      BY <3>1, ReportType
  <2> QED
    BY <1>18, <2>1 DEF TypeOK, SkipStopped, inputs, check, running
<1>19. CASE EndExecution
  BY <1>19 DEF TypeOK, EndExecution, CloseThen, Phases, inputs, check, running
<1>20. CASE LeaveRun
  BY <1>20 DEF TypeOK, LeaveRun, Phases, EndPhases, inputs, check, running
<1>21. CASE ReturnReport
  BY <1>21 DEF TypeOK, ReturnReport, Phases, EndPhases, inputs, check, running
<1>22. CASE SaveReport
  BY <1>22 DEF TypeOK, SaveReport, Phases, EndPhases, inputs, check, running
<1>23. CASE Interrupt
  <2>1. phase' \in Phases /\ after' \in {"reporting", "aborted", "failed"}
    BY <1>23 DEF TypeOK, Interrupt, CloseThen, Phases, EndPhases
  <2>2. saved' \subseteq OutcomeType
    BY <1>23 DEF TypeOK, Interrupt
  <2> QED
    BY <1>23, <2>1, <2>2 DEF TypeOK, Interrupt, inputs, check, running
<1>24. CASE Ended
  BY <1>24, <1>0 DEF TypeOK, Ended
<1> QED
  BY <1>0, <1>1, <1>2, <1>3, <1>4, <1>5, <1>6, <1>7, <1>8, <1>9, <1>10, <1>11, <1>12,
     <1>13, <1>14, <1>15, <1>16, <1>17, <1>18, <1>19, <1>20, <1>21, <1>22, <1>23, <1>24
     DEF Next, Step, TestStep

----------------------------------------------------------------------------
\* The two passes and the gate.  Most actions neither decide about a test nor
\* execute a query: they only move the run on.

PassPhases == {"starting", "opening", "validating", "executing"}

LEMMA MovingOn ==
  ASSUME WorkInv, UNCHANGED <<plan, blocked, todo, checkResult, executed>>,
         \/ phase' = phase
         \/ phase' \notin PassPhases
         \/ phase = "starting" /\ phase' = "opening"
  PROVE  WorkInv'
<1>1. Executable' = Executable /\ Runnable' = Runnable /\ Passed' = Passed
  BY DEF Executable, Runnable, Passed
<1>2. PassOneInv'
  BY <1>1 DEF WorkInv, PassOneInv, PassPhases
<1>3. PassTwoInv'
  BY <1>1 DEF WorkInv, PassTwoInv, PassPhases
<1>4. GateInv'
  BY <1>1 DEF WorkInv, GateInv, PassPhases
<1> QED
  BY <1>2, <1>3, <1>4 DEF WorkInv

LEMMA CheckOneTest ==
  ASSUME TypeOK, WorkInv, NEW r \in todo, phase = "validating",
         UNCHANGED <<plan, phase, blocked, executed>>,
         \/ UNCHANGED <<todo, checkResult>>
         \/ /\ todo' = todo \ {r}
            /\ \E result \in {"OK", "NOT CHECKED", "FAILED"} :
                 checkResult' = [checkResult EXCEPT ![r] = result]
  PROVE  WorkInv'
<1>1. Executable' = Executable /\ Runnable' = Runnable
  BY DEF Executable, Runnable
<1>2. executed = {} /\ executed' = {} /\ phase' = "validating"
  BY DEF WorkInv, PassTwoInv
<1>3. r \in Runnable /\ r \in Row /\ todo = {q \in Runnable : checkResult[q] = "none"}
  BY DEF WorkInv, PassOneInv, Runnable, Executable
<1>4. CASE UNCHANGED <<todo, checkResult>>
  BY <1>4, MovingOn
<1>5. ASSUME NEW result \in {"OK", "NOT CHECKED", "FAILED"},
             todo' = todo \ {r}, checkResult' = [checkResult EXCEPT ![r] = result]
      PROVE  WorkInv'
  <2>1. checkResult \in [Row -> {"none", "OK", "NOT CHECKED", "FAILED"}]
    BY DEF TypeOK
  <2>2. \A q \in Row : checkResult'[q] = IF q = r THEN result ELSE checkResult[q]
    BY <1>5, <2>1
  <2>3. Runnable \subseteq Row
    BY DEF Runnable, Executable
  <2>4. PassOneInv'
    <3>1. \A q \in Row : checkResult'[q] # "none" => q \in Runnable'
      BY <1>1, <1>3, <2>2 DEF WorkInv, PassOneInv
    <3>2. todo' = {q \in Runnable' : checkResult'[q] = "none"}
      BY <1>1, <1>3, <1>5, <2>2, <2>3
    <3> QED
      BY <1>2, <3>1, <3>2 DEF PassOneInv
  <2>5. PassTwoInv'
    BY <1>1, <1>2, <1>5 DEF WorkInv, PassTwoInv
  <2>6. GateInv'
    BY <1>2 DEF GateInv
  <2> QED
    BY <2>4, <2>5, <2>6 DEF WorkInv
<1> QED
  BY <1>4, <1>5

LEMMA RunOneTest ==
  ASSUME WorkInv, phase = "executing",
         UNCHANGED <<plan, phase, blocked, checkResult>>, todo' \subseteq todo
  PROVE  WorkInv'
<1>1. Executable' = Executable /\ Runnable' = Runnable /\ Passed' = Passed
  BY DEF Executable, Runnable, Passed
<1>2. PassOneInv'
  BY <1>1 DEF WorkInv, PassOneInv
<1>3. PassTwoInv'
  BY <1>1 DEF WorkInv, PassTwoInv
<1>4. GateInv'
  BY <1>1 DEF WorkInv, GateInv
<1> QED
  BY <1>2, <1>3, <1>4 DEF WorkInv

LEMMA WorkStep == TypeOK /\ WorkInv /\ [Next]_vars => WorkInv'
<1> SUFFICES ASSUME TypeOK, WorkInv, [Next]_vars PROVE WorkInv'
  OBVIOUS
<1>0. CASE UNCHANGED vars
  BY <1>0, MovingOn DEF vars
<1>1. CASE StopBeforeDatabases
  BY <1>1, MovingOn DEF StopBeforeDatabases, CloseThen, PassPhases, inputs, check, running
<1>2. CASE RaiseWithoutExecutors
  BY <1>2, MovingOn DEF RaiseWithoutExecutors, CloseThen, PassPhases, inputs, check, running
<1>3. CASE BeginPasses
  BY <1>3, MovingOn DEF BeginPasses, inputs, check, running
<1>4. ASSUME NEW s \in Section, OpenSection(s) PROVE WorkInv'
  BY <1>4, MovingOn DEF OpenSection, inputs, check, running
<1>5. ASSUME NEW s \in Section, CloseSession(s) PROVE WorkInv'
  BY <1>5, MovingOn DEF CloseSession, inputs, check, running
<1>6. CASE SetAsideBlocked
  <2>1. /\ phase = "opening" /\ phase' = "validating"
        /\ todo' = Executable \ blocked' /\ executed' = executed
        /\ plan' = plan /\ checkResult' = checkResult
    BY <1>6 DEF SetAsideBlocked, inputs, check, running
  <2>2. /\ executed = {} /\ \A r \in Row : checkResult[r] = "none"
    BY <2>1 DEF WorkInv, PassOneInv, PassTwoInv
  <2>3. Executable' = Executable /\ Executable \subseteq Row /\ Runnable' = todo'
    BY <2>1 DEF Executable, Runnable
  <2>4. PassOneInv'
    BY <2>1, <2>2, <2>3 DEF PassOneInv
  <2>5. PassTwoInv' /\ GateInv'
    BY <2>1, <2>2, <2>3 DEF PassTwoInv, GateInv
  <2> QED
    BY <2>4, <2>5 DEF WorkInv
<1>7. ASSUME NEW r \in Row, QueryCompiles(r) \/ CheckUnavailable(r) PROVE WorkInv'
  <2>1. /\ r \in todo /\ phase = "validating" /\ NextSideOrPass(r)
        /\ UNCHANGED <<plan, phase, blocked, executed>>
    BY <1>7 DEF QueryCompiles, CheckUnavailable, IsNext, inputs, running
  <2>2. CheckedAs(r) \in {"OK", "NOT CHECKED", "FAILED"}
    BY DEF CheckedAs
  <2> QED
    BY <2>1, <2>2, CheckOneTest DEF NextSideOrPass, PassRow
<1>9. ASSUME NEW r \in Row, CheckFails(r) PROVE WorkInv'
  <2>1. /\ r \in todo /\ phase = "validating" /\ todo' = todo \ {r}
        /\ checkResult' = [checkResult EXCEPT ![r] = "FAILED"]
        /\ UNCHANGED <<plan, phase, blocked, executed>>
    BY <1>9 DEF CheckFails, IsNext, inputs, running
  <2> QED
    BY <2>1, CheckOneTest
<1>10. CASE CloseGate
  BY <1>10, MovingOn DEF CloseGate, CloseThen, PassPhases, inputs, check, running
<1>11. CASE StopAfterValidation
  BY <1>11, MovingOn DEF StopAfterValidation, CloseThen, PassPhases, inputs, check, running
<1>12. CASE BeginExecution
  <2>1. /\ phase = "validating" /\ phase' = "executing" /\ todo = {} /\ todo' = Passed
        /\ UNCHANGED <<plan, blocked, checkResult, executed>> /\ Failures = {}
    BY <1>12 DEF BeginExecution, PassOneOver, GateOpen, inputs, check, running
  <2>2. Executable' = Executable /\ Runnable' = Runnable /\ Passed' = Passed
    BY <2>1 DEF Executable, Runnable, Passed
  <2>3. \A r \in Runnable : r \in Row /\ checkResult[r] \in {"OK", "NOT CHECKED"}
    <3>1. \A r \in Row : checkResult[r] \in {"none", "OK", "NOT CHECKED", "FAILED"}
      BY DEF TypeOK
    <3> QED
      BY <2>1, <3>1 DEF WorkInv, PassOneInv, Failures, Runnable, Executable
  <2>4. Passed \subseteq Executable
    BY DEF WorkInv, PassOneInv, Passed, Runnable
  <2>5. PassOneInv'
    BY <2>1, <2>2 DEF WorkInv, PassOneInv
  <2>6. PassTwoInv'
    BY <2>1, <2>2, <2>4 DEF PassTwoInv
  <2>7. GateInv'
    BY <2>1, <2>2, <2>3 DEF GateInv
  <2> QED
    BY <2>5, <2>6, <2>7 DEF WorkInv
<1>13. ASSUME NEW r \in Row, QueryReturns(r) PROVE WorkInv'
  BY <1>13, RunOneTest DEF QueryReturns, Executing, inputs, check
<1>14. ASSUME NEW r \in Row, QueryFails(r) PROVE WorkInv'
  BY <1>14, RunOneTest DEF QueryFails, Executing, FinishTest, inputs, check
<1>15. ASSUME NEW r \in Row, SectionUnreachable(r) PROVE WorkInv'
  BY <1>15, RunOneTest DEF SectionUnreachable, Executing, FinishTest, inputs, check
<1>16. ASSUME NEW r \in Row, Evaluate(r) PROVE WorkInv'
  BY <1>16, RunOneTest DEF Evaluate, Executing, FinishTest, inputs, check
<1>17. ASSUME NEW r \in Row, EvaluationRaises(r) PROVE WorkInv'
  BY <1>17, MovingOn DEF EvaluationRaises, CloseThen, PassPhases, inputs, check, running
<1>18. ASSUME NEW r \in Row, SkipStopped(r) PROVE WorkInv'
  BY <1>18, RunOneTest DEF SkipStopped, inputs, check
<1>19. CASE EndExecution
  BY <1>19, MovingOn DEF EndExecution, CloseThen, PassPhases, inputs, check, running
<1>20. CASE LeaveRun
  BY <1>20, MovingOn DEF LeaveRun, TypeOK, PassPhases, inputs, check, running
<1>21. CASE ReturnReport
  BY <1>21, MovingOn DEF ReturnReport, PassPhases, inputs, check, running
<1>22. CASE SaveReport
  BY <1>22, MovingOn DEF SaveReport, PassPhases, inputs, check, running
<1>23. CASE Interrupt
  BY <1>23, MovingOn DEF Interrupt, CloseThen, PassPhases, inputs, check, running
<1>24. CASE Ended
  BY <1>24, <1>0 DEF Ended
<1> QED
  BY <1>0, <1>1, <1>2, <1>3, <1>4, <1>5, <1>6, <1>7, <1>9, <1>10, <1>11, <1>12,
     <1>13, <1>14, <1>15, <1>16, <1>17, <1>18, <1>19, <1>20, <1>21, <1>22, <1>23, <1>24
     DEF Next, Step, TestStep

----------------------------------------------------------------------------
\* The invariant of the two passes holds of every run.
LEMMA WorkAlways == Spec => [](TypeOK /\ WorkInv)
<1>1. TypeOK /\ WorkInv /\ [Next]_vars => (TypeOK /\ WorkInv)'
  BY TypeStep, WorkStep DEF WorkInv, PassTwoInv
<1> QED
  BY InitWork, <1>1, PTL DEF Spec

\* Every variable of a run keeps its type.
THEOREM TypeCorrect == Spec => []TypeOK
BY WorkAlways, PTL

\* The two-pass gate of execute_plan: whatever the databases answer, once one
\* query has been executed every test whose sections opened has passed pass 1.
THEOREM GateNeverBreached == Spec => []GateHolds
<1>1. WorkInv => GateHolds
  BY DEF WorkInv, GateInv, GateHolds
<1> QED
  BY WorkAlways, <1>1, PTL

----------------------------------------------------------------------------
\* close_all: a session is opened by the passes, and close_all is left only
\* when none is open.
LEMMA SessionsStep == SessionsClosed /\ TypeOK /\ [Next]_vars => SessionsClosed'
<1> SUFFICES ASSUME SessionsClosed, TypeOK, [Next]_vars PROVE SessionsClosed'
  OBVIOUS
<1> DEFINE Over == {"reporting", "done", "failed", "aborted"}
<1>1. CASE phase' \notin Over
  BY <1>1 DEF SessionsClosed
<1>2. CASE UNCHANGED session /\ (phase' = phase \/ phase \in Over)
  BY <1>2 DEF SessionsClosed
<1>3. CASE LeaveRun
  BY <1>3 DEF LeaveRun, AllClosed, SessionsClosed
<1>4. ASSUME NEW r \in Row, TestStep(r)
      PROVE  phase' \notin Over
  BY <1>4 DEF TestStep, QueryCompiles, CheckUnavailable, CheckFails, QueryReturns, QueryFails,
     SectionUnreachable, Evaluate, EvaluationRaises, SkipStopped, Executing, CloseThen
<1>5. ASSUME NEW s \in Section, OpenSection(s) \/ CloseSession(s)
      PROVE  phase' \notin Over
  BY <1>5 DEF OpenSection, CloseSession
<1>6. CASE \/ StopBeforeDatabases \/ RaiseWithoutExecutors \/ BeginPasses \/ SetAsideBlocked
           \/ CloseGate \/ StopAfterValidation \/ BeginExecution \/ EndExecution
  <2>1. phase' \notin Over
    BY <1>6 DEF StopBeforeDatabases, RaiseWithoutExecutors, BeginPasses, SetAsideBlocked,
       CloseGate, StopAfterValidation, BeginExecution, EndExecution, CloseThen
  <2> QED
    BY <2>1, <1>1
<1>7. CASE ReturnReport \/ SaveReport
  BY <1>7, <1>2 DEF ReturnReport, SaveReport
<1>8. CASE Interrupt
  BY <1>8, <1>1, <1>2 DEF Interrupt, CloseThen
<1>9. CASE UNCHANGED vars
  BY <1>9, <1>2 DEF vars
<1> QED
  BY <1>1, <1>3, <1>4, <1>5, <1>6, <1>7, <1>8, <1>9 DEF Next, Step, Ended

\* execute_plan has returned or raised, or is writing its report, with no
\* session open, unless a signal cut close_all short.
THEOREM SessionsAlwaysClosed == Spec => []SessionsClosed
<1>1. Init => SessionsClosed
  BY DEF Init, SessionsClosed
<1> QED
  BY <1>1, TypeCorrect, SessionsStep, PTL DEF Spec

----------------------------------------------------------------------------
\* The report.  As the run goes on, the rows with an outcome are those the
\* passes have settled, and no row has two.

RowsOf(os) == {o.row : o \in os}
OncePerRow(os) == \A o, p \in os : o.row = p.row => o = p

ReportInv ==
  /\ OncePerRow(outcomes)
  /\ phase = "opening" => RowsOf(outcomes) = Row \ Executable
  /\ phase = "validating" => RowsOf(outcomes) = (Row \ Runnable) \cup Failures
  /\ phase = "executing" => RowsOf(outcomes) = Row \ todo
  /\ phase = "closing" /\ after = "reporting" => RowsOf(outcomes) = Row
  /\ phase \in {"reporting", "done"} => RowsOf(outcomes) = Row

LEMMA AddRows ==
  ASSUME NEW os, OncePerRow(os), NEW rows, rows \cap RowsOf(os) = {},
         NEW status \in Statuses, NEW code \in Codes
  PROVE  /\ OncePerRow(os \cup Report(rows, status, code))
         /\ RowsOf(os \cup Report(rows, status, code)) = RowsOf(os) \cup rows
<1> DEFINE made(r) == [row |-> r, status |-> status, code |-> code]
<1>1. \A r \in rows : made(r).row = r
  OBVIOUS
<1>2. Report(rows, status, code) = {made(r) : r \in rows}
  BY DEF Report
<1>3. \A o \in Report(rows, status, code) : o.row \in rows /\ o = made(o.row)
  BY <1>1, <1>2
<1>4. \A r \in rows : \E o \in Report(rows, status, code) : o.row = r
  BY <1>1, <1>2
<1>5. ASSUME NEW o \in os \cup Report(rows, status, code),
             NEW p \in os \cup Report(rows, status, code), o.row = p.row
      PROVE  o = p
  <2>1. CASE o \in os /\ p \in os
    BY <1>5, <2>1 DEF OncePerRow
  <2>2. CASE o \in Report(rows, status, code) /\ p \in Report(rows, status, code)
    BY <1>3, <1>5, <2>2
  <2>3. ~ (o \in os /\ p \in Report(rows, status, code))
    BY <1>3, <1>5 DEF RowsOf
  <2>4. ~ (p \in os /\ o \in Report(rows, status, code))
    BY <1>3, <1>5 DEF RowsOf
  <2> QED
    BY <2>1, <2>2, <2>3, <2>4
<1>6. OncePerRow(os \cup Report(rows, status, code))
  BY <1>5 DEF OncePerRow
<1>7. RowsOf(os \cup Report(rows, status, code)) = RowsOf(os) \cup rows
  BY <1>3, <1>4 DEF RowsOf
<1> QED
  BY <1>6, <1>7

LEMMA AddRow ==
  ASSUME NEW os, OncePerRow(os), NEW r, r \notin RowsOf(os),
         NEW status \in Statuses, NEW code \in Codes
  PROVE  /\ OncePerRow(os \cup Report({r}, status, code))
         /\ RowsOf(os \cup Report({r}, status, code)) = RowsOf(os) \cup {r}
<1> DEFINE Added(rows) == /\ OncePerRow(os \cup Report(rows, status, code))
                          /\ RowsOf(os \cup Report(rows, status, code)) = RowsOf(os) \cup rows
<1>1. ASSUME NEW rows, rows \cap RowsOf(os) = {} PROVE Added(rows)
  BY <1>1, AddRows
<1> HIDE DEF Added
<1>2. {r} \cap RowsOf(os) = {}
  OBVIOUS
<1>3. Added({r})
  BY <1>1, <1>2
<1> QED
  BY <1>3 DEF Added

\* What the workbook alone decides is decided once, and is every row that is
\* not executable.
LEMMA TwoReports ==
  ASSUME NEW rows, NEW status \in Statuses, NEW code \in Codes,
         NEW rows2, NEW status2 \in Statuses, NEW code2 \in Codes, rows \cap rows2 = {}
  PROVE  /\ OncePerRow(Report(rows, status, code) \cup Report(rows2, status2, code2))
         /\ RowsOf(Report(rows, status, code) \cup Report(rows2, status2, code2))
              = rows \cup rows2
<1> DEFINE first == Report(rows, status, code)
<1>1. OncePerRow({}) /\ RowsOf({}) = {} /\ rows \cap RowsOf({}) = {}
  BY DEF OncePerRow, RowsOf
<1>2. OncePerRow({} \cup first) /\ RowsOf({} \cup first) = RowsOf({}) \cup rows
  BY <1>1, AddRows
<1>3. OncePerRow(first) /\ RowsOf(first) = rows
  <2>1. {} \cup first = first
    OBVIOUS
  <2> QED
    BY <1>1, <1>2, <2>1
<1>4. rows2 \cap RowsOf(first) = {}
  BY <1>3
<1> QED
  BY <1>3, <1>4, AddRows

LEMMA OfflineRows ==
  TypeOK => OncePerRow(Offline) /\ RowsOf(Offline) = Row \ Executable
<1> SUFFICES ASSUME TypeOK PROVE OncePerRow(Offline) /\ RowsOf(Offline) = Row \ Executable
  OBVIOUS
<1>1. Problems \cap Disabled = {}
  BY DEF Problems, Disabled
<1>2. Problems \cup Disabled = Row \ Executable
  <2>1. \A r \in Row : plan[r].kind \in {"executable", "disabled", "problem"}
    BY EngineAssumption DEF TypeOK, Definition
  <2> QED
    BY <2>1 DEF Problems, Disabled, Executable
<1>3. ASSUME NEW status \in Statuses, NEW code \in Codes,
             NEW status2 \in Statuses, NEW code2 \in Codes,
             Offline = Report(Problems, status, code) \cup Report(Disabled, status2, code2)
      PROVE  OncePerRow(Offline) /\ RowsOf(Offline) = Row \ Executable
  <2> DEFINE both == Report(Problems, status, code) \cup Report(Disabled, status2, code2)
  <2>1. OncePerRow(both) /\ RowsOf(both) = Problems \cup Disabled
    <3>1. status \in Statuses /\ code \in Codes /\ status2 \in Statuses /\ code2 \in Codes
      OBVIOUS
    <3> HIDE DEF both
    <3>2. both = Report(Problems, status, code) \cup Report(Disabled, status2, code2)
      BY DEF both
    <3> QED
      BY <1>1, <3>1, <3>2, TwoReports
  <2> QED
    BY <1>2, <1>3, <2>1
<1>4. /\ "CONFIG ERROR" \in Statuses /\ "DISABLED" \in Statuses
      /\ "CONFIG" \in Codes /\ "" \in Codes
  BY DEF Statuses, Codes
<1> QED
  BY <1>3, <1>4 DEF Offline

\* Steps that record nothing.
LEMMA NothingRecorded ==
  ASSUME ReportInv,
         UNCHANGED <<plan, blocked, todo, checkResult, outcomes>>,
         \/ phase' = phase /\ after' = after
         \/ phase' = "closing" /\ after' # "reporting"
         \/ phase' \in {"aborted", "failed", "abandoned"}
         \/ phase' \in {"closing", "reporting", "done"} /\ RowsOf(outcomes) = Row
  PROVE  ReportInv'
<1>1. /\ Executable' = Executable /\ Runnable' = Runnable /\ Failures' = Failures
      /\ RowsOf(outcomes') = RowsOf(outcomes) /\ (OncePerRow(outcomes) => OncePerRow(outcomes'))
  BY DEF Executable, Runnable, Failures
<1>2. CASE phase' = phase /\ after' = after
  BY <1>1, <1>2 DEF ReportInv
<1>3. CASE phase' = "closing" /\ after' # "reporting"
  BY <1>1, <1>3 DEF ReportInv
<1>4. CASE phase' \in {"aborted", "failed", "abandoned"}
  BY <1>1, <1>4 DEF ReportInv
<1>5. CASE phase' \in {"closing", "reporting", "done"} /\ RowsOf(outcomes) = Row
  BY <1>1, <1>5 DEF ReportInv
<1> QED
  BY <1>2, <1>3, <1>4, <1>5

\* A test is settled: it gains its outcome and leaves the pass.
LEMMA SettleOne ==
  ASSUME TypeOK, ReportInv, phase = "executing", NEW r \in todo,
         NEW status \in Statuses, NEW code \in Codes,
         UNCHANGED <<plan, phase, blocked, checkResult>>,
         outcomes' = outcomes \cup Report({r}, status, code), todo' = todo \ {r}
  PROVE  ReportInv'
<1>1. OncePerRow(outcomes) /\ RowsOf(outcomes) = Row \ todo
  BY DEF ReportInv
<1>2. {r} \cap RowsOf(outcomes) = {} /\ r \in Row
  BY <1>1 DEF TypeOK
<1>3. OncePerRow(outcomes') /\ RowsOf(outcomes') = RowsOf(outcomes) \cup {r}
  BY <1>1, <1>2, AddRows
<1>4. RowsOf(outcomes') = Row \ todo'
  BY <1>1, <1>2, <1>3
<1> QED
  BY <1>3, <1>4 DEF ReportInv

\* The steps that settle a whole set of tests at once.
LEMMA SettleRest ==
  ASSUME ReportInv, NEW rows, rows \cap RowsOf(outcomes) = {},
         RowsOf(outcomes) \cup rows = Row,
         NEW status \in Statuses, NEW code \in Codes,
         outcomes' = outcomes \cup Report(rows, status, code),
         phase' = "closing"
  PROVE  ReportInv'
<1>1. OncePerRow(outcomes)
  BY DEF ReportInv
<1>2. OncePerRow(outcomes') /\ RowsOf(outcomes') = Row
  BY <1>1, AddRows
<1> QED
  BY <1>2 DEF ReportInv

\* At the end of pass 1 every row has an outcome but those that passed it.
LEMMA PassedAreLeft ==
  ASSUME TypeOK, WorkInv, ReportInv, PassOneOver
  PROVE  /\ Passed \cap RowsOf(outcomes) = {} /\ RowsOf(outcomes) \cup Passed = Row
         /\ Passed \subseteq Row
<1>1. RowsOf(outcomes) = (Row \ Runnable) \cup Failures
  BY DEF ReportInv, PassOneOver
<1>2. \A r \in Runnable : checkResult[r] # "none"
  BY DEF WorkInv, PassOneInv, PassOneOver
<1>3. \A r \in Row : checkResult[r] \in {"none", "OK", "NOT CHECKED", "FAILED"}
  BY DEF TypeOK
<1>4. \A r \in Row : checkResult[r] # "none" => r \in Runnable
  BY DEF WorkInv, PassOneInv
<1>5. Runnable \subseteq Row
  BY DEF Runnable, Executable
<1> QED
  BY <1>1, <1>2, <1>3, <1>4, <1>5 DEF Passed, Failures

LEMMA ReportStep == TypeOK /\ WorkInv /\ ReportInv /\ [Next]_vars => ReportInv'
<1> SUFFICES ASSUME TypeOK, WorkInv, ReportInv, [Next]_vars PROVE ReportInv'
  OBVIOUS
<1>a. /\ "NOT EXECUTED" \in Statuses /\ "RUN_STOPPED" \in Codes /\ "VALIDATED" \in Statuses
      /\ "" \in Codes /\ "BLOCKED" \in Statuses /\ "CONNECTION_FAILED" \in Codes
      /\ "DRY_RUN" \in Codes /\ "ERROR" \in Statuses /\ "QUERY_TIMEOUT" \in Codes
      /\ "QUERY_FAILED" \in Codes
  BY DEF Statuses, Codes
<1>0. CASE UNCHANGED vars
  BY <1>0, NothingRecorded DEF vars
<1>1. CASE StopBeforeDatabases
  <2>1. PICK status \in Statuses, code \in Codes :
          outcomes' = Offline \cup Report(Executable, status, code)
    BY <1>1, <1>a DEF StopBeforeDatabases
  <2>2. Executable \cap RowsOf(Offline) = {} /\ RowsOf(Offline) \cup Executable = Row
    BY OfflineRows DEF Executable
  <2>3. OncePerRow(outcomes') /\ RowsOf(outcomes') = Row
    BY <2>1, <2>2, OfflineRows, AddRows
  <2>4. phase' = "closing"
    BY <1>1 DEF StopBeforeDatabases, CloseThen
  <2> QED
    BY <2>3, <2>4 DEF ReportInv
<1>2. CASE RaiseWithoutExecutors
  <2>1. outcomes' = Offline /\ phase' = "closing" /\ after' = "failed"
    BY <1>2 DEF RaiseWithoutExecutors, CloseThen
  <2> QED
    BY <2>1, OfflineRows DEF ReportInv
<1>3. CASE BeginPasses
  <2>1. outcomes' = Offline /\ phase' = "opening" /\ plan' = plan
    BY <1>3 DEF BeginPasses, inputs
  <2>2. Executable' = Executable
    BY <2>1 DEF Executable
  <2> QED
    BY <2>1, <2>2, OfflineRows DEF ReportInv
<1>4. ASSUME NEW s \in Section, OpenSection(s) \/ CloseSession(s) PROVE ReportInv'
  BY <1>4, NothingRecorded DEF OpenSection, CloseSession, inputs, check
<1>6. CASE SetAsideBlocked
  <2>1. /\ phase = "opening" /\ phase' = "validating"
        /\ outcomes' = outcomes \cup Report(blocked', "BLOCKED", "CONNECTION_FAILED")
        /\ blocked' \subseteq Executable
        /\ plan' = plan /\ checkResult' = checkResult
    BY <1>6 DEF SetAsideBlocked, BlockedRows, inputs, check
  <2>2. \A r \in Row : checkResult[r] = "none"
    BY <2>1 DEF WorkInv, PassOneInv
  <2>3. OncePerRow(outcomes) /\ RowsOf(outcomes) = Row \ Executable
    BY <2>1 DEF ReportInv
  <2>4. blocked' \cap RowsOf(outcomes) = {}
    BY <2>1, <2>3
  <2>5. ASSUME NEW status \in Statuses, NEW code \in Codes,
               outcomes' = outcomes \cup Report(blocked', status, code)
        PROVE  OncePerRow(outcomes') /\ RowsOf(outcomes') = RowsOf(outcomes) \cup blocked'
    BY <2>3, <2>4, <2>5, AddRows
  <2>6. OncePerRow(outcomes') /\ RowsOf(outcomes') = RowsOf(outcomes) \cup blocked'
    BY <1>a, <2>1, <2>5
  <2>7. Executable' = Executable /\ Executable \subseteq Row /\ Failures' = {}
    BY <2>1, <2>2 DEF Executable, Failures
  <2>8. RowsOf(outcomes') = (Row \ Runnable') \cup Failures'
    BY <2>1, <2>3, <2>6, <2>7 DEF Runnable
  <2> QED
    BY <2>1, <2>6, <2>8 DEF ReportInv
<1>7. ASSUME NEW r \in Row, QueryCompiles(r) \/ CheckUnavailable(r) PROVE ReportInv'
  <2>1. /\ r \in todo /\ phase = "validating" /\ NextSideOrPass(r)
        /\ UNCHANGED <<plan, phase, after, blocked, outcomes>>
    BY <1>7 DEF QueryCompiles, CheckUnavailable, IsNext, inputs, running
  <2>2. \A q \in Row : checkResult[q] = "FAILED" <=> checkResult'[q] = "FAILED"
    <3>1. CheckedAs(r) # "FAILED"
      BY DEF CheckedAs
    <3>2. checkResult[r] = "none"
      BY <2>1 DEF WorkInv, PassOneInv
    <3>3. \A q \in Row : checkResult'[q] = checkResult[q] \/ (q = r /\ checkResult'[q] = CheckedAs(r))
      BY <2>1 DEF NextSideOrPass, PassRow, TypeOK
    <3> QED
      BY <3>1, <3>2, <3>3
  <2>3. Failures' = Failures /\ Runnable' = Runnable
    BY <2>1, <2>2 DEF Failures, Runnable, Executable
  <2> QED
    BY <2>1, <2>3 DEF ReportInv
<1>9. ASSUME NEW r \in Row, CheckFails(r) PROVE ReportInv'
  <2>1. /\ r \in todo /\ phase = "validating" /\ phase' = phase
        /\ checkResult' = [checkResult EXCEPT ![r] = "FAILED"]
        /\ UNCHANGED <<plan, blocked>>
    BY <1>9 DEF CheckFails, IsNext, inputs
  <2>2. PICK answer \in DOMAIN ValidationFailure :
          outcomes' = outcomes \cup Report({r}, ValidationFailure[answer].status,
                                           ValidationFailure[answer].code)
    BY <1>9 DEF CheckFails
  <2>3. PICK status \in Statuses, code \in Codes :
          outcomes' = outcomes \cup Report({r}, status, code)
    BY <2>2, VerdictTypes
  <2>4. /\ OncePerRow(outcomes) /\ RowsOf(outcomes) = (Row \ Runnable) \cup Failures
        /\ r \in Runnable /\ checkResult[r] = "none"
    BY <2>1 DEF ReportInv, WorkInv, PassOneInv
  <2>5. r \notin RowsOf(outcomes)
    BY <2>4 DEF Failures
  <2>6. OncePerRow(outcomes') /\ RowsOf(outcomes') = RowsOf(outcomes) \cup {r}
    BY <2>3, <2>4, <2>5, AddRow
  <2>7. \A q \in Row : checkResult'[q] = IF q = r THEN "FAILED" ELSE checkResult[q]
    BY <2>1 DEF TypeOK
  <2>8. Failures' = Failures \cup {r} /\ Runnable' = Runnable
    BY <2>1, <2>7 DEF Failures, Runnable, Executable
  <2> QED
    BY <2>1, <2>4, <2>6, <2>8 DEF ReportInv
<1>10. CASE CloseGate \/ StopAfterValidation
  <2>1. PassOneOver /\ phase' = "closing"
    BY <1>10 DEF CloseGate, StopAfterValidation, CloseThen
  <2>2. PICK status \in Statuses, code \in Codes :
          outcomes' = outcomes \cup Report(Passed, status, code)
    BY <1>10, <1>a DEF CloseGate, StopAfterValidation
  <2>3. /\ Passed \cap RowsOf(outcomes) = {} /\ RowsOf(outcomes) \cup Passed = Row
    BY <2>1, PassedAreLeft
  <2> QED
    BY <2>1, <2>2, <2>3, SettleRest
<1>12. CASE BeginExecution
  <2>1. /\ PassOneOver /\ phase' = "executing" /\ outcomes' = outcomes /\ todo' = Passed
    BY <1>12 DEF BeginExecution
  <2>2. RowsOf(outcomes') = Row \ todo' /\ OncePerRow(outcomes')
    BY <2>1, PassedAreLeft DEF ReportInv
  <2> QED
    BY <2>1, <2>2 DEF ReportInv
<1>13. ASSUME NEW r \in Row, QueryReturns(r) PROVE ReportInv'
  BY <1>13, NothingRecorded DEF QueryReturns, inputs, check
<1>14. ASSUME NEW r \in Row, QueryFails(r) \/ SectionUnreachable(r) \/ Evaluate(r) PROVE ReportInv'
  <2>1. /\ phase = "executing" /\ r \in todo
        /\ UNCHANGED <<plan, phase, blocked, checkResult>>
    BY <1>14 DEF QueryFails, SectionUnreachable, Evaluate, Executing, IsNext, inputs, check
  <2>2. \E status \in Statuses, code \in Codes : FinishTest(r, status, code)
    <3>1. CASE QueryFails(r)
      BY <3>1, <1>a DEF QueryFails
    <3>2. CASE SectionUnreachable(r)
      BY <3>2, <1>a DEF SectionUnreachable
    <3>3. CASE Evaluate(r)
      BY <3>3, VerdictTypes DEF Evaluate
    <3> QED
      BY <1>14, <3>1, <3>2, <3>3
  <2> QED
    BY <2>1, <2>2, SettleOne DEF FinishTest
<1>17. ASSUME NEW r \in Row, EvaluationRaises(r) PROVE ReportInv'
  BY <1>17, NothingRecorded DEF EvaluationRaises, CloseThen, inputs, check
<1>18. ASSUME NEW r \in Row, SkipStopped(r) PROVE ReportInv'
  <2>1. /\ phase = "executing" /\ r \in todo /\ todo' = todo \ {r}
        /\ UNCHANGED <<plan, phase, blocked, checkResult>>
        /\ outcomes' = outcomes \cup Report({r}, "NOT EXECUTED", "RUN_STOPPED")
    BY <1>18 DEF SkipStopped, IsNext, inputs, check
  <2>2. PICK status \in Statuses, code \in Codes :
          outcomes' = outcomes \cup Report({r}, status, code)
    BY <2>1, <1>a
  <2> QED
    BY <2>1, <2>2, SettleOne
<1>19. CASE EndExecution
  <2>1. RowsOf(outcomes) = Row
    BY <1>19 DEF EndExecution, ReportInv
  <2> QED
    BY <1>19, <2>1, NothingRecorded DEF EndExecution, CloseThen, inputs, check
<1>20. CASE LeaveRun
  <2>1. /\ phase = "closing" /\ phase' = after /\ after \in {"reporting", "aborted", "failed"}
    BY <1>20 DEF LeaveRun, TypeOK
  <2>2. after = "reporting" => RowsOf(outcomes) = Row
    BY <2>1 DEF ReportInv
  <2> QED
    BY <1>20, <2>1, <2>2, NothingRecorded DEF LeaveRun, inputs, check
<1>21. CASE ReturnReport \/ SaveReport
  <2>1. /\ phase = "reporting" /\ phase' \in {"done", "failed"}
        /\ UNCHANGED <<plan, blocked, todo, checkResult, outcomes>>
    BY <1>21 DEF ReturnReport, SaveReport, inputs, check
  <2>2. RowsOf(outcomes) = Row
    BY <2>1 DEF ReportInv
  <2> QED
    BY <2>1, <2>2, NothingRecorded
<1>23. CASE Interrupt
  <2>1. UNCHANGED <<plan, blocked, todo, checkResult, outcomes>>
    BY <1>23 DEF Interrupt, inputs, check
  <2>2. \/ phase' = "closing" /\ after' = "aborted"
        \/ phase' \in {"aborted", "abandoned"}
    BY <1>23 DEF Interrupt, CloseThen
  <2> QED
    BY <2>1, <2>2, NothingRecorded
<1>24. CASE Ended
  BY <1>24, <1>0 DEF Ended
<1> QED
  BY <1>0, <1>1, <1>2, <1>3, <1>4, <1>6, <1>7, <1>9, <1>10, <1>12, <1>13, <1>14, <1>17,
     <1>18, <1>19, <1>20, <1>21, <1>23, <1>24 DEF Next, Step, TestStep

\* The report of a run accounts for the whole sheet: no row has two outcomes,
\* and one that is returned or saved leaves no row out.
THEOREM ReportCoversTheSheet == Spec => []EveryRowReportedOnce
<1>1. Init => ReportInv
  BY DEF Init, ReportInv, OncePerRow, RowsOf
<1>2. ReportInv => EveryRowReportedOnce
  BY DEF ReportInv, EveryRowReportedOnce, OncePerRow, RowsOf
<1> QED
  BY <1>1, <1>2, WorkAlways, ReportStep, PTL DEF Spec

----------------------------------------------------------------------------
\* The save.  A workbook that exists was written by a run that is over, from the
\* report it had when it was over.

SavedInv ==
  saved # {} =>
    /\ phase \in {"done", "aborted"}
    /\ saved = outcomes /\ RowsOf(saved) = Row
    /\ ~control.dryRun

LEMMA SavedKept ==
  ASSUME SavedInv, phase \notin {"done", "aborted"}, saved' = saved
  PROVE  SavedInv'
BY DEF SavedInv

LEMMA SavedStep == TypeOK /\ ReportInv /\ SavedInv /\ [Next]_vars => SavedInv'
<1> SUFFICES ASSUME TypeOK, ReportInv, SavedInv, [Next]_vars PROVE SavedInv'
  OBVIOUS
<1>1. CASE UNCHANGED vars
  BY <1>1 DEF vars, SavedInv, RowsOf
<1>2. CASE SaveReport
  <2>1. /\ phase = "reporting" /\ control' = control /\ outcomes' = outcomes
        /\ ~control.dryRun
        /\ \/ saved' = outcomes /\ phase' = "done"
           \/ saved' = saved
    BY <1>2 DEF SaveReport, WritesWorkbook, inputs
  <2>2. RowsOf(outcomes) = Row
    BY <2>1 DEF ReportInv
  <2> QED
    BY <2>1, <2>2, SavedKept DEF SavedInv
<1>3. CASE Interrupt
  <2>1. /\ control' = control /\ outcomes' = outcomes
        /\ phase \in {"starting", "opening", "validating", "executing", "closing", "reporting"}
        /\ \/ saved' = saved
           \/ phase = "reporting" /\ phase' = "aborted" /\ WritesWorkbook /\ saved' = outcomes
    BY <1>3 DEF Interrupt, inputs
  <2>2. phase = "reporting" => RowsOf(outcomes) = Row
    BY DEF ReportInv
  <2> QED
    BY <2>1, <2>2, SavedKept DEF SavedInv, WritesWorkbook
<1>4. ASSUME NEW r \in Row, TestStep(r) PROVE SavedInv'
  <2>1. saved' = saved /\ phase \in {"validating", "executing"}
    BY <1>4 DEF TestStep, QueryCompiles, CheckUnavailable, CheckFails, QueryReturns,
       QueryFails, SectionUnreachable, Evaluate, EvaluationRaises, SkipStopped, Executing
  <2> QED
    BY <2>1, SavedKept
<1>5. ASSUME NEW s \in Section, OpenSection(s) \/ CloseSession(s) PROVE SavedInv'
  BY <1>5, SavedKept DEF OpenSection, CloseSession
<1>6. CASE \/ StopBeforeDatabases \/ RaiseWithoutExecutors \/ BeginPasses \/ SetAsideBlocked
           \/ CloseGate \/ StopAfterValidation \/ BeginExecution \/ EndExecution
           \/ LeaveRun \/ ReturnReport
  <2>1. saved' = saved /\ phase \notin {"done", "aborted"}
    BY <1>6 DEF StopBeforeDatabases, RaiseWithoutExecutors, BeginPasses, SetAsideBlocked,
       CloseGate, StopAfterValidation, BeginExecution, EndExecution, LeaveRun, ReturnReport,
       PassOneOver
  <2> QED
    BY <2>1, SavedKept
<1> QED
  BY <1>1, <1>2, <1>3, <1>4, <1>5, <1>6 DEF Next, Step, Ended

\* Nobody finds a partial result workbook: what a run saved is its whole report,
\* saved after its sessions were closed, and a dry run saves nothing.
THEOREM SavedIsTheWholeReport == Spec => []SavedWorkbookIsComplete
<1>1. Init => ReportInv /\ SavedInv
  BY DEF Init, ReportInv, SavedInv, OncePerRow, RowsOf
<1>2. SavedInv /\ SessionsClosed => SavedWorkbookIsComplete
  BY DEF SavedInv, SessionsClosed, SavedWorkbookIsComplete, RowsOf
<1> QED
  BY <1>1, <1>2, WorkAlways, SessionsAlwaysClosed, ReportStep, SavedStep, PTL DEF Spec


----------------------------------------------------------------------------
\* How far the run is inside a test.  Between two tests no side is open; in pass
\* 2 only the test at hand has had queries sent, and all of its first `side`.

SideInv ==
  /\ phase \in {"starting", "opening"} => side = 0
  /\ phase = "validating" /\ todo = {} => side = 0
  /\ phase \in {"starting", "opening", "validating"} => stopped = FALSE
  /\ stopped # FALSE => side = 0

SentInv ==
  phase = "executing" =>
    \A r \in todo :
      /\ r \in RanRows => IsNext(r) /\ side # 0
      /\ IsNext(r) => \A i \in 1..side : <<r, i>> \in executed

ProgressInv == SideInv /\ SentInv

LEMMA InitProgress == Init => ProgressInv
<1> SUFFICES ASSUME Init PROVE ProgressInv
  OBVIOUS
<1>1. phase = "starting" /\ side = 0
  BY DEF Init
<1>2. stopped = FALSE
  BY Zenon DEF Init
<1> QED
  BY <1>1, <1>2 DEF ProgressInv, SideInv, SentInv

\* Rows are numbers, so a pass has one next row.
LEMMA OneNext ==
  ASSUME todo \subseteq Row, NEW q, NEW r, IsNext(q), IsNext(r)
  PROVE  q = r
<1>1. q \in Int /\ r \in Int /\ q <= r /\ r <= q
  BY DEF IsNext, Row
<1> QED
  BY <1>1

\* Steps that neither move inside a test nor send a query.
LEMMA ProgressKept ==
  ASSUME ProgressInv, UNCHANGED <<todo, side, stopped, executed>>,
         \/ phase' = phase
         \/ phase' \notin PassPhases
         \/ phase = "starting" /\ phase' = "opening"
  PROVE  ProgressInv'
<1>1. stopped' = stopped
  OBVIOUS
<1>2. SideInv'
  BY <1>1 DEF ProgressInv, SideInv, PassPhases
<1>3. SentInv'
  BY DEF ProgressInv, SentInv, PassPhases, RanRows, IsNext
<1> QED
  BY <1>2, <1>3 DEF ProgressInv

\* Steps inside pass 1.
LEMMA ProgressChecking ==
  ASSUME ProgressInv, phase = "validating", phase' = phase, stopped' = stopped,
         todo' = {} => side' = 0
  PROVE  ProgressInv'
<1>1. stopped = FALSE
  BY DEF ProgressInv, SideInv
<1> QED
  BY <1>1 DEF ProgressInv, SideInv, SentInv

\* A test of pass 2 is settled, whatever was sent for it last.
LEMMA ProgressSettled ==
  ASSUME TypeOK, ProgressInv, phase = "executing", phase' = phase,
         NEW r \in todo, IsNext(r) \/ side = 0, todo' = todo \ {r}, side' = 0,
         \/ executed' = executed
         \/ \E i \in 1..2 : executed' = executed \cup {<<r, i>>}
  PROVE  ProgressInv'
<1>1. todo \subseteq Row /\ executed \subseteq Row \X (1..2)
  BY DEF TypeOK
<1>2. \A q \in RanRows' : q # r => q \in RanRows
  BY DEF RanRows
<1>3. ASSUME NEW q \in todo', q \in RanRows' PROVE FALSE
  <2>1. q \in todo /\ q # r /\ q \in RanRows
    BY <1>2, <1>3
  <2>2. IsNext(q) /\ side # 0
    BY <2>1 DEF ProgressInv, SentInv
  <2> QED
    BY <1>1, <2>1, <2>2, OneNext
<1>4. SentInv'
  BY <1>3 DEF SentInv
<1> QED
  BY <1>4 DEF ProgressInv, SideInv

LEMMA ProgressStep == TypeOK /\ WorkInv /\ ProgressInv /\ [Next]_vars => ProgressInv'
<1> SUFFICES ASSUME TypeOK, WorkInv, ProgressInv, [Next]_vars PROVE ProgressInv'
  OBVIOUS
<1>0. CASE UNCHANGED vars
  BY <1>0, ProgressKept DEF vars
<1>1. CASE \/ StopBeforeDatabases \/ RaiseWithoutExecutors \/ BeginPasses
           \/ CloseGate \/ StopAfterValidation \/ EndExecution
  BY <1>1, ProgressKept DEF StopBeforeDatabases, RaiseWithoutExecutors, BeginPasses,
     CloseGate, StopAfterValidation, EndExecution, CloseThen, PassPhases, running
<1>2. CASE LeaveRun \/ ReturnReport \/ SaveReport \/ Interrupt
  BY <1>2, ProgressKept DEF LeaveRun, ReturnReport, SaveReport, Interrupt, CloseThen,
     PassPhases, TypeOK, running
<1>3. ASSUME NEW s \in Section, OpenSection(s) \/ CloseSession(s) PROVE ProgressInv'
  BY <1>3, ProgressKept DEF OpenSection, CloseSession, running
<1>4. CASE SetAsideBlocked
  <2>1. phase = "opening" /\ phase' = "validating" /\ side' = side
    BY <1>4 DEF SetAsideBlocked
  <2>2. stopped' = stopped
    BY <1>4 DEF SetAsideBlocked, running
  <2> QED
    BY <2>1, <2>2 DEF ProgressInv, SideInv, SentInv
<1>5. ASSUME NEW r \in Row, QueryCompiles(r) \/ CheckUnavailable(r) PROVE ProgressInv'
  <2>1. /\ r \in todo /\ phase = "validating" /\ phase' = phase /\ NextSideOrPass(r)
    BY <1>5 DEF QueryCompiles, CheckUnavailable, IsNext
  <2>2. stopped' = stopped
    BY <1>5 DEF QueryCompiles, CheckUnavailable, running
  <2>3. todo' = {} => side' = 0
    BY <2>1 DEF NextSideOrPass, PassRow
  <2> QED
    BY <2>1, <2>2, <2>3, ProgressChecking
<1>6. ASSUME NEW r \in Row, CheckFails(r) PROVE ProgressInv'
  <2>1. phase = "validating" /\ phase' = phase /\ side' = 0
    BY <1>6 DEF CheckFails
  <2>2. stopped' = stopped
    BY <1>6 DEF CheckFails, running
  <2> QED
    BY <2>1, <2>2, ProgressChecking
<1>7. CASE BeginExecution
  <2>1. /\ phase = "validating" /\ todo = {} /\ phase' = "executing"
        /\ side' = side /\ executed' = executed
    BY <1>7 DEF BeginExecution, PassOneOver, running
  <2>2. stopped' = stopped
    BY <1>7 DEF BeginExecution, running
  <2>3. side' = 0 /\ executed' = {}
    BY <2>1 DEF ProgressInv, SideInv, WorkInv, PassTwoInv
  <2>4. RanRows' = {}
    BY <2>3 DEF RanRows
  <2> QED
    BY <2>1, <2>2, <2>3, <2>4 DEF ProgressInv, SideInv, SentInv
<1>8. ASSUME NEW r \in Row, QueryReturns(r) PROVE ProgressInv'
  <2>1. /\ phase = "executing" /\ phase' = phase /\ IsNext(r)
        /\ executed' = executed \cup {<<r, side + 1>>} /\ side' = side + 1
        /\ todo' = todo
    BY <1>8 DEF QueryReturns, Executing
  <2>2. stopped = FALSE /\ stopped' = stopped
    <3>1. ~stopped /\ stopped' = stopped
      BY <1>8, Zenon DEF QueryReturns, Executing
    <3>2. stopped \in BOOLEAN
      BY Zenon DEF TypeOK
    <3> QED
      BY <3>1, <3>2, Zenon
  <2>3. todo \subseteq Row /\ executed \subseteq Row \X (1..2) /\ side \in 0..2
    BY DEF TypeOK
  <2>4. \A q \in RanRows' : q \in RanRows \/ q = r
    BY <2>1 DEF RanRows
  <2>5. \A q : IsNext(q)' <=> IsNext(q)
    BY <2>1 DEF IsNext
  <2>6. ASSUME NEW q \in todo', q \in RanRows' PROVE IsNext(q)' /\ side' # 0
    <3>1. IsNext(q)
      BY <2>1, <2>4, <2>6 DEF ProgressInv, SentInv
    <3> QED
      BY <2>1, <2>3, <2>5, <3>1
  <2>7. ASSUME NEW q \in todo', IsNext(q)', NEW i \in 1..side' PROVE <<q, i>> \in executed'
    <3>1. q = r
      BY <2>1, <2>3, <2>5, <2>7, OneNext
    <3>2. i \in 1..side \/ i = side + 1
      BY <2>1, <2>3
    <3>3. \A j \in 1..side : <<r, j>> \in executed
      BY <2>1 DEF ProgressInv, SentInv, IsNext
    <3> QED
      BY <2>1, <3>1, <3>2, <3>3
  <2>8. SentInv'
    BY <2>6, <2>7 DEF SentInv
  <2>9. SideInv'
    BY <2>1, <2>2 DEF SideInv
  <2> QED
    BY <2>8, <2>9 DEF ProgressInv
<1>9. ASSUME NEW r \in Row, QueryFails(r) \/ SectionUnreachable(r) \/ Evaluate(r)
      PROVE  ProgressInv'
  <2>1. /\ phase = "executing" /\ phase' = phase /\ IsNext(r) /\ r \in todo
        /\ todo' = todo \ {r} /\ side' = 0
    BY <1>9 DEF QueryFails, SectionUnreachable, Evaluate, Executing, FinishTest, IsNext
  <2>2. \/ executed' = executed
        \/ side < SideCount(r) /\ executed' = executed \cup {<<r, side + 1>>}
    BY <1>9 DEF QueryFails, SectionUnreachable, Evaluate
  <2>3. SideCount(r) \in 1..2 /\ side \in 0..2
    BY <2>1, SidesOfExecutable DEF WorkInv, PassTwoInv, TypeOK
  <2>4. side < SideCount(r) => side + 1 \in 1..2
    BY <2>3
  <2> QED
    BY <2>1, <2>2, <2>4, ProgressSettled
<1>10. ASSUME NEW r \in Row, EvaluationRaises(r) PROVE ProgressInv'
  BY <1>10, ProgressKept DEF EvaluationRaises, CloseThen, PassPhases, running
<1>11. ASSUME NEW r \in Row, SkipStopped(r) PROVE ProgressInv'
  <2>1. /\ phase = "executing" /\ phase' = phase /\ r \in todo
        /\ todo' = todo \ {r} /\ side' = side /\ executed' = executed
    BY <1>11 DEF SkipStopped, IsNext, running
  <2>2. stopped # FALSE
    BY <1>11, Zenon DEF SkipStopped
  <2>3. side = 0
    BY <2>2 DEF ProgressInv, SideInv
  <2> QED
    BY <2>1, <2>3, ProgressSettled
<1>12. CASE Ended
  BY <1>12, <1>0 DEF Ended
<1> QED
  BY <1>0, <1>1, <1>2, <1>3, <1>4, <1>5, <1>6, <1>7, <1>8, <1>9, <1>10, <1>11, <1>12
     DEF Next, Step, TestStep

----------------------------------------------------------------------------
\* Everything the proofs below take from earlier ones.
EngineInv == TypeOK /\ WorkInv /\ ReportInv /\ ProgressInv

LEMMA EngineAlways == Spec => []EngineInv
<1>1. Init => EngineInv
  <2>1. Init => ReportInv
    BY DEF Init, ReportInv, OncePerRow, RowsOf
  <2> QED
    BY <2>1, InitWork, InitProgress DEF EngineInv
<1>2. EngineInv /\ [Next]_vars => EngineInv'
  BY TypeStep, WorkStep, ReportStep, ProgressStep DEF EngineInv, WorkInv, PassTwoInv
<1> QED
  BY <1>1, <1>2, PTL DEF Spec

----------------------------------------------------------------------------
\* Outcomes and the queries behind them.

Verdict == {"PASS", "FAIL", "PROFILED"}
NotRun == {"NOT EXECUTED", "VALIDATED", "SYNTAX ERROR", "DISABLED", "CONFIG ERROR"}

\* Before pass 2 there is no verdict on data.
StatusInv ==
  /\ StatusMatchesWork
  /\ phase \in {"starting", "opening", "validating"} =>
       \A o \in outcomes : o.status \notin Verdict

LEMMA ReportedStatus ==
  ASSUME NEW rows, NEW status, NEW code, NEW o \in Report(rows, status, code)
  PROVE  o.status = status /\ o.row \in rows
BY DEF Report

\* Steps before anything is sent.
LEMMA StatusBefore ==
  ASSUME executed' = {}, \A o \in outcomes' : o.status \notin Verdict
  PROVE  StatusInv'
<1>1. RanRows' = {}
  BY DEF RanRows
<1> QED
  BY <1>1 DEF StatusInv, StatusMatchesWork, Verdict

\* Steps that change neither the outcomes nor what was sent.
LEMMA StatusKept ==
  ASSUME StatusInv, UNCHANGED <<plan, outcomes, executed>>,
         phase' \in {"starting", "opening", "validating"} =>
           phase \in {"starting", "opening", "validating"}
  PROVE  StatusInv'
BY DEF StatusInv, StatusMatchesWork, RanRows, SideCount

\* A query of test r is sent; nothing has been recorded for r.
LEMMA StatusSent ==
  ASSUME StatusMatchesWork, plan' = plan, NEW r, r \notin RowsOf(outcomes), NEW i,
         outcomes' = outcomes, executed' = executed \cup {<<r, i>>}
  PROVE  StatusMatchesWork'
<1>1. \A q \in RanRows' : q \in RanRows \/ q = r
  BY DEF RanRows
<1>2. \A o \in outcomes : o.row # r
  BY DEF RowsOf
<1> QED
  BY <1>1, <1>2 DEF StatusMatchesWork, SideCount

\* Tests gain an outcome that says what was done for them.
LEMMA StatusRecorded ==
  ASSUME StatusMatchesWork, UNCHANGED <<plan, executed>>, NEW r, NEW status, NEW code,
         outcomes' = outcomes \cup Report({r}, status, code),
         status \in Verdict => \A i \in 1..SideCount(r) : <<r, i>> \in executed,
         status \in NotRun => r \notin RanRows
  PROVE  StatusMatchesWork'
<1>1. RanRows' = RanRows /\ \A q : SideCount(q)' = SideCount(q)
  BY DEF RanRows, SideCount
<1>2. ASSUME NEW o \in outcomes'
      PROVE  /\ o.status \in Verdict => \A i \in 1..SideCount(o.row) : <<o.row, i>> \in executed
             /\ o.status \in NotRun => o.row \notin RanRows
  <2>1. CASE o \in outcomes
    BY <2>1 DEF StatusMatchesWork, Verdict, NotRun
  <2>2. CASE o \in Report({r}, status, code)
    <3>1. o.status = status /\ o.row = r
      BY <2>2, ReportedStatus
    <3> QED
      BY <3>1
  <2> QED
    BY <1>2, <2>1, <2>2
<1> QED
  BY <1>1, <1>2 DEF StatusMatchesWork, Verdict, NotRun

\* A failed check never counts as a verdict, nor a comparison as a test not run.
LEMMA AnswerStatuses ==
  /\ \A answer \in DOMAIN ValidationFailure : ValidationFailure[answer].status \notin Verdict
  /\ \A verdict \in Verdicts : verdict.status \notin NotRun
<1>1. DOMAIN ValidationFailure = {"rejected", "timeout", "unreachable", "other"}
  BY DEF ValidationFailure
<1>2. ASSUME NEW answer \in DOMAIN ValidationFailure
      PROVE  ValidationFailure[answer].status \notin Verdict
  <2>1. CASE answer = "rejected"
    BY <2>1 DEF ValidationFailure, Verdict
  <2>2. CASE answer = "timeout"
    BY <2>2 DEF ValidationFailure, Verdict
  <2>3. CASE answer = "unreachable"
    BY <2>3 DEF ValidationFailure, Verdict
  <2>4. CASE answer = "other"
    BY <2>4 DEF ValidationFailure, Verdict
  <2> QED
    BY <1>1, <1>2, <2>1, <2>2, <2>3, <2>4
<1>3. ASSUME NEW verdict \in Verdicts PROVE verdict.status \notin NotRun
  <2>1. CASE verdict = [status |-> "PASS", code |-> ""]
    BY <2>1 DEF NotRun
  <2>2. CASE verdict = [status |-> "FAIL", code |-> "MISMATCH"]
    BY <2>2 DEF NotRun
  <2>3. CASE verdict = [status |-> "PROFILED", code |-> ""]
    BY <2>3 DEF NotRun
  <2>4. CASE verdict = [status |-> "ERROR", code |-> "CONVERSION"]
    BY <2>4 DEF NotRun
  <2> QED
    BY <1>3, <2>1, <2>2, <2>3, <2>4 DEF Verdicts
<1>4. \A answer \in DOMAIN ValidationFailure : ValidationFailure[answer].status \notin Verdict
  BY <1>2
<1>5. \A verdict \in Verdicts : verdict.status \notin NotRun
  BY <1>3
<1> QED
  BY <1>4, <1>5

LEMMA OfflineStatus == \A o \in Offline : o.status \notin Verdict
<1> DEFINE none == ""
<1>1. Offline = Report(Problems, "CONFIG ERROR", "CONFIG") \cup Report(Disabled, "DISABLED", none)
  BY DEF Offline
<1> HIDE DEF none
<1>2. \A rows, status, code : \A o \in Report(rows, status, code) : o.status = status
  BY ReportedStatus
<1>3. "CONFIG ERROR" \notin Verdict /\ "DISABLED" \notin Verdict
  BY DEF Verdict
<1> QED
  BY <1>1, <1>2, <1>3

LEMMA StatusStep == EngineInv /\ StatusInv /\ [Next]_vars => StatusInv'
<1> SUFFICES ASSUME EngineInv, StatusInv, [Next]_vars PROVE StatusInv'
  OBVIOUS
<1> USE DEF EngineInv
<1>a. phase \in {"starting", "opening", "validating"} => executed = {}
  BY DEF WorkInv, PassTwoInv
<1>b. phase = "executing" => \A r \in todo : r \notin RowsOf(outcomes)
  BY DEF ReportInv
<1>0. CASE UNCHANGED vars
  BY <1>0, StatusKept DEF vars
<1>1. CASE StopBeforeDatabases \/ RaiseWithoutExecutors \/ BeginPasses
  <2>1. /\ phase = "starting" /\ executed' = executed
        /\ \E status \in {"DRY_RUN", "RUN_STOPPED"} :
             outcomes' \subseteq Offline \cup Report(Executable, "NOT EXECUTED", status)
    BY <1>1 DEF StopBeforeDatabases, RaiseWithoutExecutors, BeginPasses, running
  <2>2. \A o \in outcomes' : o.status \notin Verdict
    BY <2>1, OfflineStatus, ReportedStatus DEF Verdict
  <2> QED
    BY <2>1, <2>2, <1>a, StatusBefore
<1>2. CASE LeaveRun \/ ReturnReport \/ SaveReport \/ Interrupt \/ EndExecution
  BY <1>2, StatusKept DEF LeaveRun, ReturnReport, SaveReport, Interrupt, EndExecution,
     CloseThen, TypeOK, running, inputs
<1>3. ASSUME NEW s \in Section, OpenSection(s) \/ CloseSession(s) PROVE StatusInv'
  BY <1>3, StatusKept DEF OpenSection, CloseSession, running, inputs
<1>4. CASE SetAsideBlocked \/ CloseGate \/ StopAfterValidation
  <2>1. /\ phase \in {"opening", "validating"} /\ executed' = executed
        /\ \E rows, status, code : /\ outcomes' = outcomes \cup Report(rows, status, code)
                                   /\ status \in {"BLOCKED", "NOT EXECUTED", "VALIDATED"}
    BY <1>4 DEF SetAsideBlocked, CloseGate, StopAfterValidation, PassOneOver, running
  <2>2. \A o \in outcomes' : o.status \notin Verdict
    BY <2>1, ReportedStatus DEF StatusInv, Verdict
  <2> QED
    BY <2>1, <2>2, <1>a, StatusBefore
<1>5. ASSUME NEW r \in Row, QueryCompiles(r) \/ CheckUnavailable(r) PROVE StatusInv'
  BY <1>5, StatusKept DEF QueryCompiles, CheckUnavailable, running, inputs
<1>6. ASSUME NEW r \in Row, CheckFails(r) PROVE StatusInv'
  <2>1. /\ phase = "validating" /\ executed' = executed
    BY <1>6 DEF CheckFails, running
  <2>2. PICK answer \in DOMAIN ValidationFailure :
          outcomes' = outcomes \cup Report({r}, ValidationFailure[answer].status,
                                           ValidationFailure[answer].code)
    BY <1>6 DEF CheckFails
  <2>3. ValidationFailure[answer].status \notin Verdict
    BY <2>2, AnswerStatuses
  <2>4. \A o \in outcomes' : o.status \notin Verdict
    BY <2>1, <2>2, <2>3, ReportedStatus DEF StatusInv
  <2> QED
    BY <2>1, <2>4, <1>a, StatusBefore
<1>7. CASE BeginExecution
  BY <1>7, StatusKept DEF BeginExecution, PassOneOver, running, inputs
<1>8. ASSUME NEW r \in Row, QueryReturns(r) PROVE StatusInv'
  <2>1. /\ phase = "executing" /\ phase' = phase /\ r \in todo /\ plan' = plan
        /\ outcomes' = outcomes /\ executed' = executed \cup {<<r, side + 1>>}
    BY <1>8 DEF QueryReturns, Executing, IsNext, inputs
  <2> QED
    BY <2>1, <1>b, StatusSent DEF StatusInv
<1>9. ASSUME NEW r \in Row, QueryFails(r) PROVE StatusInv'
  <2>1. /\ phase = "executing" /\ phase' = phase /\ r \in todo /\ plan' = plan
        /\ executed' = executed \cup {<<r, side + 1>>}
        /\ \E code : outcomes' = outcomes \cup Report({r}, "ERROR", code)
    BY <1>9 DEF QueryFails, Executing, FinishTest, IsNext, inputs
  <2>2. \A q \in RanRows' : q \in RanRows \/ q = r
    BY <2>1 DEF RanRows
  <2>3. \A o \in outcomes : o.row # r
    BY <2>1, <1>b DEF RowsOf
  <2>4. \A o \in outcomes' : o \in outcomes \/ o.status = "ERROR"
    BY <2>1, ReportedStatus
  <2> QED
    BY <2>1, <2>2, <2>3, <2>4 DEF StatusInv, StatusMatchesWork, SideCount
<1>10. ASSUME NEW r \in Row, SectionUnreachable(r) PROVE StatusInv'
  <2>1. /\ phase = "executing" /\ phase' = phase /\ plan' = plan /\ executed' = executed
        /\ outcomes' = outcomes \cup Report({r}, "BLOCKED", "CONNECTION_FAILED")
    BY <1>10 DEF SectionUnreachable, Executing, FinishTest, inputs
  <2>2. "BLOCKED" \notin Verdict /\ "BLOCKED" \notin NotRun
    BY DEF Verdict, NotRun
  <2> QED
    BY <2>1, <2>2, StatusRecorded DEF StatusInv
<1>11. ASSUME NEW r \in Row, Evaluate(r) PROVE StatusInv'
  <2>1. /\ phase = "executing" /\ phase' = phase /\ plan' = plan /\ executed' = executed
        /\ IsNext(r) /\ r \in todo /\ side = SideCount(r)
    BY <1>11 DEF Evaluate, Executing, AllSidesAnswered, IsNext, inputs
  <2>2. PICK verdict \in Verdicts :
          outcomes' = outcomes \cup Report({r}, verdict.status, verdict.code)
    BY <1>11 DEF Evaluate, FinishTest
  <2>3. verdict.status \notin NotRun
    BY <2>2, AnswerStatuses
  <2>4. \A i \in 1..SideCount(r) : <<r, i>> \in executed
    BY <2>1 DEF ProgressInv, SentInv
  <2> QED
    BY <2>1, <2>2, <2>3, <2>4, StatusRecorded DEF StatusInv
<1>12. ASSUME NEW r \in Row, EvaluationRaises(r) PROVE StatusInv'
  BY <1>12, StatusKept DEF EvaluationRaises, CloseThen, running, inputs
<1>13. ASSUME NEW r \in Row, SkipStopped(r) PROVE StatusInv'
  <2>1. /\ phase = "executing" /\ phase' = phase /\ plan' = plan /\ executed' = executed
        /\ r \in todo /\ outcomes' = outcomes \cup Report({r}, "NOT EXECUTED", "RUN_STOPPED")
    BY <1>13 DEF SkipStopped, IsNext, inputs, running
  <2>2. stopped # FALSE
    BY <1>13, Zenon DEF SkipStopped
  <2>3. r \notin RanRows
    BY <2>1, <2>2 DEF ProgressInv, SideInv, SentInv
  <2>4. "NOT EXECUTED" \notin Verdict
    BY DEF Verdict
  <2> QED
    BY <2>1, <2>3, <2>4, StatusRecorded DEF StatusInv
<1>14. CASE Ended
  BY <1>14, <1>0 DEF Ended
<1> QED
  BY <1>0, <1>1, <1>2, <1>3, <1>4, <1>5, <1>6, <1>7, <1>8, <1>9, <1>10, <1>11, <1>12,
     <1>13, <1>14 DEF Next, Step, TestStep

LEMMA StatusAlways == Spec => []StatusInv
<1>1. Init => StatusInv
  BY DEF Init, StatusInv, StatusMatchesWork
<1> QED
  BY <1>1, EngineAlways, StatusStep, PTL DEF Spec

\* _execute_one, _not_executed and _validated_outcome record what was done: a
\* verdict only when every side was queried, "not run" only when none was.
THEOREM OutcomesMatchTheWork == Spec => []StatusMatchesWork
<1>1. StatusInv => StatusMatchesWork
  BY DEF StatusInv
<1> QED
  BY <1>1, StatusAlways, PTL

----------------------------------------------------------------------------
\* The engine implements the gate.

\* No test is set aside for its section before the sections have been tried.
BlockedInv == phase \in {"starting", "opening"} => blocked = {}

LEMMA BlockedStep == BlockedInv /\ TypeOK /\ [Next]_vars => BlockedInv'
<1> SUFFICES ASSUME BlockedInv, TypeOK, [Next]_vars PROVE BlockedInv'
  OBVIOUS
<1>1. CASE phase' \notin {"starting", "opening"}
  BY <1>1 DEF BlockedInv
<1>2. CASE UNCHANGED blocked /\ phase \in {"starting", "opening"}
  BY <1>2 DEF BlockedInv
<1>3. CASE UNCHANGED vars
  BY <1>3 DEF BlockedInv, vars
<1>4. ASSUME NEW s \in Section, OpenSection(s) \/ CloseSession(s) PROVE BlockedInv'
  BY <1>4, <1>1, <1>2 DEF OpenSection, CloseSession
<1>5. ASSUME NEW r \in Row, TestStep(r) PROVE phase' \notin {"starting", "opening"}
  BY <1>5 DEF TestStep, QueryCompiles, CheckUnavailable, CheckFails, QueryReturns, QueryFails,
     SectionUnreachable, Evaluate, EvaluationRaises, SkipStopped, Executing, CloseThen
<1>6. CASE BeginPasses
  BY <1>6, <1>2 DEF BeginPasses
<1>7. CASE \/ StopBeforeDatabases \/ RaiseWithoutExecutors \/ SetAsideBlocked \/ CloseGate
           \/ StopAfterValidation \/ BeginExecution \/ EndExecution \/ ReturnReport
           \/ SaveReport \/ Interrupt \/ LeaveRun
  <2>1. phase' \notin {"starting", "opening"}
    BY <1>7 DEF StopBeforeDatabases, RaiseWithoutExecutors, SetAsideBlocked, CloseGate,
       StopAfterValidation, BeginExecution, EndExecution, ReturnReport, SaveReport, Interrupt,
       LeaveRun, CloseThen, TypeOK
  <2> QED
    BY <2>1, <1>1
<1> QED
  BY <1>1, <1>3, <1>4, <1>5, <1>6, <1>7 DEF Next, Step, Ended

\* What the gate sees of a step.
LEMMA SameVerdicts ==
  ASSUME UNCHANGED <<plan, blocked, checkResult>>
  PROVE  GateVerdict' = GateVerdict
BY DEF GateVerdict, Executable

LEMMA SameRan == ASSUME executed' = executed PROVE RanRows' = RanRows
BY DEF RanRows

LEMMA SameJudged ==
  ASSUME outcomes \subseteq outcomes',
         \A o \in outcomes' : o \in outcomes \/ o.status \notin Verdict
  PROVE  Judged' = Judged
BY DEF Judged, Verdict

LEMMA GateStutters ==
  ASSUME UNCHANGED <<plan, blocked, checkResult, executed, outcomes>>,
         GateStage' = GateStage
  PROVE  UNCHANGED Gate!gateVars
<1>1. Judged' = Judged
  BY DEF Judged
<1> QED
  BY <1>1, SameVerdicts, SameRan DEF Gate!gateVars

LEMMA GateFinishes ==
  ASSUME UNCHANGED <<plan, blocked, checkResult, executed>>, Judged' = Judged
  PROVE  GateStage' = "over" => Gate!Next \/ UNCHANGED Gate!gateVars
BY SameVerdicts, SameRan DEF Gate!gateVars, Gate!Next, Gate!Finish

\* A test is recorded that was not judged: nothing the gate sees.
LEMMA GateIgnores ==
  ASSUME UNCHANGED <<plan, blocked, checkResult, executed>>, GateStage' = GateStage,
         outcomes \subseteq outcomes',
         \A o \in outcomes' : o \in outcomes \/ o.status \notin Verdict
  PROVE  UNCHANGED Gate!gateVars
BY SameVerdicts, SameRan, SameJudged DEF Gate!gateVars

\* The tests of pass 2 are cleared and not yet judged.
LEMMA NextIsCleared ==
  ASSUME EngineInv, phase = "executing", NEW r \in todo
  PROVE  r \in Row /\ GateVerdict[r] = "cleared" /\ r \notin Judged /\ GateStage = "running"
<1>1. r \in Row /\ r \in Executable /\ r \in Passed /\ r \in Runnable
  BY DEF EngineInv, WorkInv, PassOneInv, PassTwoInv, Passed
<1>2. r \notin RowsOf(outcomes)
  BY DEF EngineInv, ReportInv
<1>3. GateVerdict[r] = "cleared"
  BY <1>1 DEF GateVerdict, Runnable, Passed
<1> QED
  BY <1>1, <1>2, <1>3 DEF Judged, RowsOf, GateStage

\* A check decides about a test whose section opened and that was pending.
LEMMA GateDecides ==
  ASSUME EngineInv, phase = "validating", phase' = phase, NEW r \in todo,
         UNCHANGED <<plan, blocked, executed>>, Judged' = Judged,
         NEW result \in {"OK", "NOT CHECKED", "FAILED"},
         checkResult' = [checkResult EXCEPT ![r] = result]
  PROVE  Gate!Next
<1>1. r \in Row /\ r \in Executable /\ r \notin blocked /\ checkResult[r] = "none"
  BY DEF EngineInv, WorkInv, PassOneInv, Runnable, Executable
<1>2. GateStage = "checking" /\ GateStage' = GateStage /\ Executable' = Executable
  BY DEF GateStage, Executable
<1>3. \A q \in Row : checkResult'[q] = IF q = r THEN result ELSE checkResult[q]
  BY <1>1 DEF EngineInv, TypeOK
<1>4. GateVerdict[r] = "pending"
  BY <1>1 DEF GateVerdict
<1>5. PICK v \in {"cleared", "refused"} : v = IF result = "FAILED" THEN "refused" ELSE "cleared"
  OBVIOUS
<1>6. GateVerdict' = [GateVerdict EXCEPT ![r] = v]
  BY <1>1, <1>2, <1>3, <1>5 DEF GateVerdict
<1>7. Gate!Decide(r)
  BY <1>2, <1>4, <1>6, SameRan DEF Gate!Decide
<1> QED
  BY <1>1, <1>7 DEF Gate!Next

LEMMA GateInit == Init => Gate!Init
<1> SUFFICES ASSUME Init PROVE Gate!Init
  OBVIOUS
<1>1. /\ phase = "starting" /\ executed = {} /\ outcomes = {} /\ blocked = {}
      /\ \A r \in Row : checkResult[r] = "none"
  BY DEF Init
<1>2. GateStage = "checking"
  BY <1>1 DEF GateStage
<1>3. RanRows = {} /\ Judged = {}
  BY <1>1 DEF RanRows, Judged
<1>4. GateVerdict \in [Row -> {"pending", "aside"}]
  BY <1>1 DEF GateVerdict
<1> QED
  BY <1>2, <1>3, <1>4 DEF Gate!Init

LEMMA GateStep ==
  EngineInv /\ StatusInv /\ BlockedInv /\ [Next]_vars => [Gate!Next]_(Gate!gateVars)
<1> SUFFICES ASSUME EngineInv, StatusInv, BlockedInv, [Next]_vars
             PROVE  Gate!Next \/ UNCHANGED Gate!gateVars
  OBVIOUS
<1>0. CASE UNCHANGED vars
  BY <1>0, GateStutters DEF vars, GateStage
<1>1. CASE StopBeforeDatabases \/ RaiseWithoutExecutors \/ BeginPasses
  <2>1. /\ phase = "starting" /\ UNCHANGED <<plan, blocked, checkResult, executed>>
        /\ \E status \in {"DRY_RUN", "RUN_STOPPED"} :
             outcomes' \subseteq Offline \cup Report(Executable, "NOT EXECUTED", status)
    BY <1>1 DEF StopBeforeDatabases, RaiseWithoutExecutors, BeginPasses, inputs, check, running
  <2>2. \A o \in outcomes' : o.status \notin Verdict
    BY <2>1, OfflineStatus, ReportedStatus DEF Verdict
  <2>3. Judged' = Judged
    BY <2>1, <2>2 DEF StatusInv, Judged, Verdict
  <2>4. phase' \in {"closing", "opening"}
    BY <1>1 DEF StopBeforeDatabases, RaiseWithoutExecutors, BeginPasses, CloseThen
  <2>5. GateStage = "checking" /\ GateStage' \in {"checking", "over"}
    BY <2>1, <2>4 DEF GateStage
  <2> QED
    BY <2>1, <2>3, <2>5, GateFinishes, SameVerdicts, SameRan DEF Gate!gateVars
<1>2. CASE LeaveRun \/ ReturnReport \/ SaveReport \/ Interrupt
  <2>1. /\ UNCHANGED <<plan, blocked, checkResult, executed, outcomes>>
        /\ phase' \in {"closing", "reporting"} \cup EndPhases
    BY <1>2 DEF LeaveRun, ReturnReport, SaveReport, Interrupt, CloseThen, EngineInv, TypeOK,
       inputs, check, running, EndPhases
  <2>2. GateStage' = "over"
    BY <2>1 DEF GateStage, EndPhases
  <2>3. Judged' = Judged
    BY <2>1 DEF Judged
  <2> QED
    BY <2>1, <2>2, <2>3, GateFinishes
<1>3. ASSUME NEW s \in Section, OpenSection(s) \/ CloseSession(s)
      PROVE  Gate!Next \/ UNCHANGED Gate!gateVars
  BY <1>3, GateStutters DEF OpenSection, CloseSession, inputs, check, running, GateStage
<1>4. CASE SetAsideBlocked
  <2>1. /\ phase = "opening" /\ phase' = "validating" /\ blocked' \subseteq Executable
        /\ UNCHANGED <<plan, checkResult, executed>>
        /\ outcomes' = outcomes \cup Report(blocked', "BLOCKED", "CONNECTION_FAILED")
    BY <1>4 DEF SetAsideBlocked, BlockedRows, inputs, check, running
  <2>2. blocked = {} /\ \A r \in Row : checkResult[r] = "none"
    BY <2>1 DEF BlockedInv, EngineInv, WorkInv, PassOneInv
  <2>3. GateStage = "checking" /\ GateStage' = "checking"
    BY <2>1 DEF GateStage
  <2>4. Judged' = Judged
    BY <2>1, SameJudged, ReportedStatus DEF Verdict
  <2>5. Executable' = Executable /\ Executable \subseteq Row
    BY <2>1 DEF Executable
  <2>6. \A r \in blocked' : GateVerdict[r] = "pending"
    BY <2>1, <2>2, <2>5 DEF GateVerdict
  <2>7. GateVerdict' = [r \in Row |-> IF r \in blocked' THEN "aside" ELSE GateVerdict[r]]
    BY <2>1, <2>2, <2>5 DEF GateVerdict
  <2>8. blocked' \in SUBSET {r \in Row : GateVerdict[r] = "pending"}
    BY <2>1, <2>5, <2>6
  <2>9. Gate!SetAside
    BY <2>1, <2>3, <2>4, <2>7, <2>8, SameRan DEF Gate!SetAside
  <2> QED
    BY <2>9 DEF Gate!Next
<1>5. ASSUME NEW r \in Row, QueryCompiles(r) \/ CheckUnavailable(r)
      PROVE  Gate!Next \/ UNCHANGED Gate!gateVars
  <2>1. /\ r \in todo /\ phase = "validating" /\ phase' = phase /\ NextSideOrPass(r)
        /\ UNCHANGED <<plan, blocked, executed, outcomes>>
    BY <1>5 DEF QueryCompiles, CheckUnavailable, IsNext, inputs, running
  <2>2. Judged' = Judged /\ GateStage' = GateStage
    BY <2>1 DEF Judged, GateStage
  <2>3. CASE checkResult' = checkResult
    BY <2>1, <2>2, <2>3, GateStutters
  <2>4. CASE PassRow(r)
    <3>1. CheckedAs(r) \in {"OK", "NOT CHECKED", "FAILED"}
      BY DEF CheckedAs
    <3> QED
      BY <2>1, <2>2, <2>4, <3>1, GateDecides DEF PassRow
  <2> QED
    BY <2>1, <2>3, <2>4 DEF NextSideOrPass
<1>6. ASSUME NEW r \in Row, CheckFails(r) PROVE Gate!Next
  <2>1. /\ r \in todo /\ phase = "validating" /\ phase' = phase
        /\ checkResult' = [checkResult EXCEPT ![r] = "FAILED"]
        /\ UNCHANGED <<plan, blocked, executed>>
    BY <1>6 DEF CheckFails, IsNext, inputs, running
  <2>2. PICK answer \in DOMAIN ValidationFailure :
          outcomes' = outcomes \cup Report({r}, ValidationFailure[answer].status,
                                           ValidationFailure[answer].code)
    BY <1>6 DEF CheckFails
  <2>3. Judged' = Judged
    BY <2>2, AnswerStatuses, SameJudged, ReportedStatus
  <2> QED
    BY <2>1, <2>3, GateDecides
<1>7. CASE CloseGate \/ StopAfterValidation
  <2>1. /\ phase' = "closing" /\ UNCHANGED <<plan, blocked, checkResult, executed>>
        /\ \E status \in {"NOT EXECUTED", "VALIDATED"} : \E code :
             outcomes' = outcomes \cup Report(Passed, status, code)
    BY <1>7 DEF CloseGate, StopAfterValidation, CloseThen, inputs, check, running
  <2>2. Judged' = Judged
    BY <2>1, SameJudged, ReportedStatus DEF Verdict
  <2>3. GateStage' = "over"
    BY <2>1 DEF GateStage
  <2> QED
    BY <2>1, <2>2, <2>3, GateFinishes
<1>8. CASE BeginExecution
  <2>1. /\ phase = "validating" /\ phase' = "executing" /\ todo = {} /\ Failures = {}
        /\ UNCHANGED <<plan, blocked, checkResult, executed, outcomes>>
    BY <1>8 DEF BeginExecution, PassOneOver, GateOpen, inputs, check, running
  <2>2. \A r \in Row : checkResult[r] \in {"none", "OK", "NOT CHECKED", "FAILED"}
    BY DEF EngineInv, TypeOK
  <2>3. \A r \in Row : GateVerdict[r] \in {"cleared", "aside"}
    BY <2>1, <2>2 DEF EngineInv, WorkInv, PassOneInv, Runnable, Failures, GateVerdict
  <2>4. GateStage = "checking" /\ GateStage' = "running" /\ Judged' = Judged
    BY <2>1 DEF GateStage, Judged
  <2>5. Gate!OpenGate
    BY <2>1, <2>3, <2>4, SameVerdicts, SameRan DEF Gate!OpenGate
  <2> QED
    BY <2>5 DEF Gate!Next
<1>9. ASSUME NEW r \in Row, QueryReturns(r) \/ QueryFails(r) PROVE Gate!Next
  <2>1. /\ phase = "executing" /\ phase' = phase /\ r \in todo
        /\ UNCHANGED <<plan, blocked, checkResult>>
        /\ executed' = executed \cup {<<r, side + 1>>}
        /\ \/ outcomes' = outcomes
           \/ \E code : outcomes' = outcomes \cup Report({r}, "ERROR", code)
    BY <1>9 DEF QueryReturns, QueryFails, Executing, FinishTest, IsNext, inputs, check
  <2>2. Judged' = Judged
    BY <2>1, SameJudged, ReportedStatus DEF Verdict
  <2>3. RanRows' = RanRows \cup {r}
    <3>1. \A e : e \in executed' <=> e \in executed \/ e = <<r, side + 1>>
      BY <2>1
    <3>2. RanRows \subseteq RanRows'
      BY <3>1 DEF RanRows
    <3>3. <<r, side + 1>>[1] = r
      OBVIOUS
    <3>4. r \in RanRows'
      BY <3>1, <3>3 DEF RanRows
    <3>5. ASSUME NEW q \in RanRows' PROVE q \in RanRows \/ q = r
      <4>1. PICK e \in executed' : q = e[1]
        BY DEF RanRows
      <4>2. CASE e \in executed
        BY <4>1, <4>2 DEF RanRows
      <4>3. CASE e = <<r, side + 1>>
        BY <4>1, <4>3, <3>3
      <4> QED
        BY <3>1, <4>2, <4>3
    <3> QED
      BY <3>2, <3>4, <3>5
  <2>4. GateStage' = GateStage
    BY <2>1 DEF GateStage
  <2>5. Gate!Run(r)
    BY <2>1, <2>2, <2>3, <2>4, NextIsCleared, SameVerdicts DEF Gate!Run
  <2> QED
    BY <2>5 DEF Gate!Next
<1>10. ASSUME NEW r \in Row, SectionUnreachable(r) PROVE UNCHANGED Gate!gateVars
  <2>1. /\ phase' = phase /\ UNCHANGED <<plan, blocked, checkResult, executed>>
        /\ outcomes' = outcomes \cup Report({r}, "BLOCKED", "CONNECTION_FAILED")
    BY <1>10 DEF SectionUnreachable, Executing, FinishTest, inputs, check
  <2> QED
    BY <2>1, GateIgnores, ReportedStatus DEF Verdict, GateStage
<1>11. ASSUME NEW r \in Row, Evaluate(r) PROVE Gate!Next \/ UNCHANGED Gate!gateVars
  <2>1. /\ phase = "executing" /\ phase' = phase /\ IsNext(r) /\ r \in todo
        /\ side = SideCount(r) /\ UNCHANGED <<plan, blocked, checkResult, executed>>
    BY <1>11 DEF Evaluate, Executing, AllSidesAnswered, FinishTest, IsNext, inputs, check
  <2>2. PICK status, code : outcomes' = outcomes \cup Report({r}, status, code)
    BY <1>11 DEF Evaluate, FinishTest
  <2>3. GateStage' = GateStage
    BY <2>1 DEF GateStage
  <2>4. CASE status \notin Verdict
    BY <2>1, <2>2, <2>3, <2>4, GateIgnores, ReportedStatus
  <2>5. CASE status \in Verdict
    <3>1. SideCount(r) \in 1..2
      BY <2>1, SidesOfExecutable DEF EngineInv, WorkInv, PassTwoInv
    <3>2. <<r, 1>> \in executed
      BY <2>1, <3>1 DEF EngineInv, ProgressInv, SentInv
    <3>3. r \in RanRows
      BY <3>2 DEF RanRows
    <3>4. \A q \in Row : q \in Judged' <=> q \in Judged \/ q = r
      <4>1. [row |-> r, status |-> status, code |-> code] \in outcomes'
        BY <2>2 DEF Report
      <4>2. \A o \in outcomes' : o \in outcomes \/ o.row = r
        BY <2>2, ReportedStatus
      <4> QED
        BY <2>2, <2>5, <4>1, <4>2 DEF Judged, Verdict
    <3>5. Judged' = Judged \cup {r}
      BY <3>4 DEF Judged
    <3>6. Gate!Judge(r)
      BY <2>1, <2>3, <3>3, <3>5, NextIsCleared, SameVerdicts, SameRan DEF Gate!Judge
    <3> QED
      BY <3>6 DEF Gate!Next
  <2> QED
    BY <2>4, <2>5
<1>12. ASSUME NEW r \in Row, EvaluationRaises(r) PROVE Gate!Next \/ UNCHANGED Gate!gateVars
  <2>1. /\ phase' = "closing" /\ UNCHANGED <<plan, blocked, checkResult, executed, outcomes>>
    BY <1>12 DEF EvaluationRaises, CloseThen, inputs, check, running
  <2> QED
    BY <2>1, GateFinishes DEF GateStage, Judged
<1>13. ASSUME NEW r \in Row, SkipStopped(r) PROVE UNCHANGED Gate!gateVars
  <2>1. /\ phase' = phase /\ UNCHANGED <<plan, blocked, checkResult, executed>>
        /\ outcomes' = outcomes \cup Report({r}, "NOT EXECUTED", "RUN_STOPPED")
    BY <1>13 DEF SkipStopped, inputs, check, running
  <2>2. PICK status : status = "NOT EXECUTED"
    OBVIOUS
  <2>3. PICK code : code = "RUN_STOPPED"
    OBVIOUS
  <2>4. outcomes' = outcomes \cup Report({r}, status, code)
    BY <2>1, <2>2, <2>3
  <2>5. status \notin Verdict
    BY <2>2 DEF Verdict
  <2>6. GateStage' = GateStage
    BY <2>1 DEF GateStage
  <2> QED
    BY <2>1, <2>4, <2>5, <2>6, GateIgnores, ReportedStatus
<1>14. CASE EndExecution
  <2>1. /\ phase' = "closing" /\ UNCHANGED <<plan, blocked, checkResult, executed, outcomes>>
    BY <1>14 DEF EndExecution, CloseThen, inputs, check, running
  <2> QED
    BY <2>1, GateFinishes DEF GateStage, Judged
<1>15. CASE Ended
  BY <1>15, <1>0 DEF Ended
<1> QED
  BY <1>0, <1>1, <1>2, <1>3, <1>4, <1>5, <1>6, <1>7, <1>8, <1>9, <1>10, <1>11, <1>12,
     <1>13, <1>14, <1>15 DEF Next, Step, TestStep

\* The engine keeps the two-pass gate step by step: every step of a run is a step
\* of the gate or one the gate does not see.
THEOREM EngineImplementsGate == Spec => ImplementsGate
<1>1. Init => BlockedInv
  BY DEF Init, BlockedInv
<1>2. EngineInv => TypeOK
  BY DEF EngineInv
<1>3. Spec => [](EngineInv /\ StatusInv /\ BlockedInv)
  BY <1>1, <1>2, EngineAlways, StatusAlways, BlockedStep, PTL DEF Spec
<1> QED
  BY <1>3, GateInit, GateStep, PTL DEF Spec, ImplementsGate, Gate!Spec

----------------------------------------------------------------------------
\* What runs unchecked.  A row that says OK had every side compiled; one that says
\* NOT CHECKED had each side compiled or its section warned about; the test at
\* hand is marked unchecked as soon as one side behind it was not compiled.

Announced(r, i) == <<r, i>> \in compiled \/ SectionAt(r, i) \in warned

DecidedInv ==
  \A r \in Row :
    /\ checkResult[r] = "OK" => \A i \in 1..SideCount(r) : <<r, i>> \in compiled
    /\ checkResult[r] = "NOT CHECKED" => \A i \in 1..SideCount(r) : Announced(r, i)

AtHandInv ==
  phase = "validating" =>
    \A r \in todo : IsNext(r) =>
      \A i \in 1..side :
        <<r, i>> \in compiled \/ (SectionAt(r, i) \in warned /\ r \in unchecked)

SentSidesInv == \A e \in executed : e[1] \in Passed /\ e[2] \in 1..SideCount(e[1])

CheckInv == DecidedInv /\ AtHandInv /\ SentSidesInv

\* The sheet and the checks are as they were: only the test at hand may change.
LEMMA SameChecks ==
  ASSUME CheckInv, UNCHANGED <<plan, check>>
  PROVE  DecidedInv' /\ Passed' = Passed
<1>1. UNCHANGED <<plan, checkResult, unchecked, warned, compiled>>
  BY DEF check
<1> QED
  BY <1>1 DEF CheckInv, DecidedInv, Announced, SideCount, SectionAt, Passed

LEMMA CheckKept ==
  ASSUME CheckInv, UNCHANGED <<plan, check, executed>>,
         phase' # "validating" \/ side' = 0 \/ UNCHANGED <<phase, todo, side>>
  PROVE  CheckInv'
<1>1. UNCHANGED <<checkResult, unchecked, warned, compiled>>
  BY DEF check
<1>2. AtHandInv'
  BY <1>1 DEF CheckInv, AtHandInv, SectionAt, IsNext
<1>3. SentSidesInv'
  BY SameChecks DEF CheckInv, SentSidesInv, SideCount
<1> QED
  BY <1>2, <1>3, SameChecks DEF CheckInv

\* One more side of the test at hand has been put to a database.
LEMMA SideChecked ==
  ASSUME EngineInv, CheckInv, NEW r \in todo, IsNext(r), phase = "validating",
         NextSideOrPass(r), UNCHANGED <<plan, phase, executed>>,
         compiled \subseteq compiled', warned \subseteq warned', unchecked \subseteq unchecked',
         \A q \in unchecked' : q \in unchecked \/ q = r,
         \/ <<r, side + 1>> \in compiled'
         \/ SectionAt(r, side + 1) \in warned' /\ r \in unchecked'
  PROVE  CheckInv'
<1>1. r \in Row /\ r \in Executable /\ SideCount(r) \in 1..2 /\ side \in 0..2
  BY SidesOfExecutable DEF EngineInv, WorkInv, PassTwoInv, Executable, TypeOK
<1>2. /\ todo \subseteq Row
      /\ checkResult \in [Row -> {"none", "OK", "NOT CHECKED", "FAILED"}]
  BY DEF EngineInv, TypeOK
<1>3. executed = {} /\ executed' = {}
  BY DEF EngineInv, WorkInv, PassTwoInv
<1>4. \A q, i : SectionAt(q, i)' = SectionAt(q, i) /\ SideCount(q)' = SideCount(q)
  BY DEF SectionAt, SideCount
<1>5. \A i \in 1..(side + 1) :
        <<r, i>> \in compiled' \/ (SectionAt(r, i) \in warned' /\ r \in unchecked')
  <2>1. \A i \in 1..side :
          <<r, i>> \in compiled \/ (SectionAt(r, i) \in warned /\ r \in unchecked)
    BY DEF CheckInv, AtHandInv
  <2> QED
    BY <1>1, <2>1
<1>6. SentSidesInv'
  BY <1>3 DEF SentSidesInv
<1>7. CASE side' = side + 1 /\ UNCHANGED <<todo, checkResult>>
  <2>1. DecidedInv'
    BY <1>4, <1>7 DEF CheckInv, DecidedInv, Announced
  <2>2. \A q : IsNext(q)' => IsNext(q)
    BY <1>7 DEF IsNext
  <2>3. \A q \in todo' : IsNext(q)' => q = r
    BY <1>2, <1>7, <2>2, OneNext
  <2>4. AtHandInv'
    BY <1>4, <1>5, <1>7, <2>3 DEF AtHandInv
  <2> QED
    BY <1>6, <2>1, <2>4 DEF CheckInv
<1>8. CASE side + 1 = SideCount(r) /\ PassRow(r)
  <2>1. side' = 0 /\ checkResult' = [checkResult EXCEPT ![r] = CheckedAs(r)]
    BY <1>8 DEF PassRow
  <2>2. AtHandInv'
    BY <2>1 DEF AtHandInv
  <2>3. ASSUME NEW q \in Row, q # r
        PROVE  /\ checkResult'[q] = "OK" => \A i \in 1..SideCount(q)' : <<q, i>> \in compiled'
               /\ checkResult'[q] = "NOT CHECKED" => \A i \in 1..SideCount(q)' : Announced(q, i)'
    <3>1. checkResult'[q] = checkResult[q]
      BY <1>2, <2>1, <2>3
    <3> QED
      BY <1>4, <3>1 DEF CheckInv, DecidedInv, Announced
  <2>4. /\ checkResult'[r] = "OK" => \A i \in 1..SideCount(r)' : <<r, i>> \in compiled'
        /\ \A i \in 1..SideCount(r)' : Announced(r, i)'
    <3>1. checkResult'[r] = CheckedAs(r)
      BY <1>1, <1>2, <2>1
    <3>2. checkResult'[r] = "OK" => r \notin unchecked'
      BY <3>1 DEF CheckedAs
    <3> QED
      BY <1>4, <1>5, <1>8, <3>2 DEF Announced
  <2>5. DecidedInv'
    BY <2>3, <2>4 DEF DecidedInv
  <2> QED
    BY <1>6, <2>2, <2>5 DEF CheckInv
<1> QED
  BY <1>7, <1>8 DEF NextSideOrPass

LEMMA CheckStep == EngineInv /\ CheckInv /\ [Next]_vars => CheckInv'
<1> SUFFICES ASSUME EngineInv, CheckInv, [Next]_vars PROVE CheckInv'
  OBVIOUS
<1>0. CASE UNCHANGED vars
  BY <1>0, CheckKept DEF vars, check
<1>1. CASE \/ StopBeforeDatabases \/ RaiseWithoutExecutors \/ BeginPasses
           \/ CloseGate \/ StopAfterValidation \/ BeginExecution \/ EndExecution
  BY <1>1, CheckKept DEF StopBeforeDatabases, RaiseWithoutExecutors, BeginPasses,
     CloseGate, StopAfterValidation, BeginExecution, EndExecution, CloseThen, running, inputs
<1>2. CASE LeaveRun \/ ReturnReport \/ SaveReport \/ Interrupt
  BY <1>2, CheckKept DEF LeaveRun, ReturnReport, SaveReport, Interrupt, CloseThen,
     EngineInv, TypeOK, running, inputs
<1>3. ASSUME NEW s \in Section, OpenSection(s) \/ CloseSession(s) PROVE CheckInv'
  BY <1>3, CheckKept DEF OpenSection, CloseSession, running, inputs
<1>4. CASE SetAsideBlocked
  <2>1. phase = "opening" /\ side' = side /\ UNCHANGED <<plan, check, executed>>
    BY <1>4 DEF SetAsideBlocked, running, inputs
  <2>2. side = 0
    BY <2>1 DEF EngineInv, ProgressInv, SideInv
  <2> QED
    BY <2>1, <2>2, CheckKept
<1>5. ASSUME NEW r \in Row, QueryCompiles(r) PROVE CheckInv'
  <2>1. /\ phase = "validating" /\ IsNext(r) /\ NextSideOrPass(r)
        /\ UNCHANGED <<plan, phase, executed, unchecked, warned>>
        /\ compiled' = compiled \cup {<<r, side + 1>>}
    BY <1>5 DEF QueryCompiles, running, inputs
  <2>2. r \in todo
    BY <2>1 DEF IsNext
  <2> QED
    BY <2>1, <2>2, SideChecked
<1>6. ASSUME NEW r \in Row, CheckUnavailable(r) PROVE CheckInv'
  <2>1. /\ phase = "validating" /\ IsNext(r) /\ NextSideOrPass(r)
        /\ UNCHANGED <<plan, phase, executed, compiled>>
        /\ unchecked' = unchecked \cup {r}
        /\ warned' = warned \cup {SectionAt(r, side + 1)}
    BY <1>6 DEF CheckUnavailable, running, inputs
  <2>2. r \in todo
    BY <2>1 DEF IsNext
  <2> QED
    BY <2>1, <2>2, SideChecked
<1>7. ASSUME NEW r \in Row, CheckFails(r) PROVE CheckInv'
  <2>1. /\ phase = "validating" /\ side' = 0 /\ UNCHANGED <<plan, compiled, warned, executed>>
        /\ checkResult' = [checkResult EXCEPT ![r] = "FAILED"]
    BY <1>7 DEF CheckFails, running, inputs
  <2>2. executed' = {}
    BY <2>1 DEF EngineInv, WorkInv, PassTwoInv
  <2>3. \A q \in Row : checkResult'[q] = IF q = r THEN "FAILED" ELSE checkResult[q]
    BY <2>1 DEF EngineInv, TypeOK
  <2>4. DecidedInv'
    <3>1. ASSUME NEW q \in Row, checkResult'[q] \in {"OK", "NOT CHECKED"}
          PROVE  checkResult'[q] = checkResult[q]
      BY <2>3, <3>1
    <3>2. \A q, i : /\ SideCount(q)' = SideCount(q)
                    /\ Announced(q, i)' = Announced(q, i)
      BY <2>1 DEF Announced, SideCount, SectionAt
    <3> QED
      BY <2>1, <3>1, <3>2 DEF CheckInv, DecidedInv
  <2>5. AtHandInv'
    BY <2>1 DEF AtHandInv
  <2> QED
    BY <2>2, <2>4, <2>5 DEF CheckInv, SentSidesInv
<1>8. ASSUME NEW r \in Row, QueryReturns(r) \/ QueryFails(r) PROVE CheckInv'
  <2>1. /\ phase = "executing" /\ phase' = phase /\ r \in todo /\ side < SideCount(r)
        /\ UNCHANGED <<plan, check>>
        /\ executed' = executed \cup {<<r, side + 1>>}
    BY <1>8 DEF QueryReturns, QueryFails, Executing, IsNext, inputs
  <2>2. r \in Passed /\ SideCount(r) \in 1..2 /\ side \in 0..2
    BY <2>1, SidesOfExecutable DEF EngineInv, WorkInv, PassTwoInv, TypeOK
  <2>3. side + 1 \in 1..SideCount(r)
    BY <2>1, <2>2
  <2>4. SentSidesInv'
    BY <2>1, <2>2, <2>3, SameChecks DEF CheckInv, SentSidesInv, SideCount
  <2>5. AtHandInv'
    BY <2>1 DEF AtHandInv
  <2> QED
    BY <2>1, <2>4, <2>5, SameChecks DEF CheckInv
<1>9. ASSUME NEW r \in Row,
             \/ SectionUnreachable(r) \/ Evaluate(r) \/ EvaluationRaises(r) \/ SkipStopped(r)
      PROVE  CheckInv'
  <2>1. /\ phase' # "validating" /\ UNCHANGED <<plan, check, executed>>
    BY <1>9 DEF SectionUnreachable, Evaluate, EvaluationRaises, SkipStopped, Executing,
       FinishTest, CloseThen, running, inputs
  <2> QED
    BY <2>1, CheckKept
<1>10. CASE Ended
  BY <1>10, <1>0 DEF Ended
<1> QED
  BY <1>0, <1>1, <1>2, <1>3, <1>4, <1>5, <1>6, <1>7, <1>8, <1>9, <1>10
     DEF Next, Step, TestStep

\* The engine never runs unchecked SQL in silence: a query that no database
\* compiled is executed only on a section the run has warned about, in a row that
\* says NOT CHECKED.
THEOREM NothingRunsUnannounced == Spec => []UncheckedRunsAreAnnounced
<1>1. Init => CheckInv
  BY DEF Init, CheckInv, DecidedInv, AtHandInv, SentSidesInv
<1>2. EngineInv /\ CheckInv => UncheckedRunsAreAnnounced
  <2> SUFFICES ASSUME EngineInv, CheckInv, NEW e \in executed \ compiled
               PROVE  SectionAt(e[1], e[2]) \in warned /\ checkResult[e[1]] = "NOT CHECKED"
    BY DEF UncheckedRunsAreAnnounced
  <2>1. e[1] \in Row /\ e = <<e[1], e[2]>>
    <3>1. executed \subseteq Row \X (1..2)
      BY DEF EngineInv, TypeOK
    <3> QED
      BY <3>1
  <2>2. e[1] \in Passed /\ e[2] \in 1..SideCount(e[1])
    BY DEF CheckInv, SentSidesInv
  <2>3. checkResult[e[1]] # "OK"
    BY <2>1, <2>2 DEF CheckInv, DecidedInv
  <2>4. checkResult[e[1]] = "NOT CHECKED"
    BY <2>2, <2>3 DEF Passed
  <2> QED
    BY <2>1, <2>2, <2>4 DEF CheckInv, DecidedInv, Announced
<1> QED
  BY <1>1, <1>2, EngineAlways, CheckStep, PTL DEF Spec


----------------------------------------------------------------------------
\* Under Continue_On_Test_Error = No a cleared test that ends in an error ends
\* pass 2, and pass 2 goes down the sheet.
Stoppers == {o \in outcomes : o.status \in {"ERROR", "BLOCKED"} /\ o.row \in Passed}

ErrorInv ==
  /\ ~control.continueOnTestError =>
       \A o \in Stoppers : stopped /\ \A e \in executed : e[1] <= o.row
  /\ phase = "executing" => \A e \in executed, q \in todo : e[1] <= q

LEMMA ErrorKept ==
  ASSUME ErrorInv, UNCHANGED <<control, stopped, executed>>,
         \A o \in Stoppers' : o \in Stoppers,
         phase' = "executing" => phase = "executing" /\ todo' \subseteq todo
  PROVE  ErrorInv'
<1>1. control' = control /\ executed' = executed
  OBVIOUS
<1>2. stopped' = stopped
  OBVIOUS
<1>3. ASSUME ~control'.continueOnTestError, NEW o \in Stoppers'
      PROVE  stopped' /\ \A e \in executed' : e[1] <= o.row
  BY <1>1, <1>2, <1>3 DEF ErrorInv
<1>4. phase' = "executing" => \A e \in executed', q \in todo' : e[1] <= q
  BY <1>1 DEF ErrorInv
<1> QED
  BY <1>3, <1>4 DEF ErrorInv

\* Nothing changes that stops the run.
LEMMA SameStoppers ==
  ASSUME UNCHANGED <<outcomes, checkResult>>
  PROVE  Stoppers' = Stoppers
BY DEF Stoppers, Passed

\* Test r leaves pass 2 with an outcome, perhaps after one more query.
LEMMA ErrorSettled ==
  ASSUME EngineInv, ErrorInv, phase = "executing", NEW r, IsNext(r), ~stopped,
         NEW status, NEW code, FinishTest(r, status, code),
         UNCHANGED <<control, checkResult>>,
         \/ executed' = executed
         \/ \E i \in 1..2 : executed' = executed \cup {<<r, i>>}
  PROVE  ErrorInv'
<1>0. r \in todo /\ \A q \in todo : r <= q
  BY DEF IsNext
<1>1. /\ r \in todo /\ r \in Int /\ \A q \in todo : r <= q
      /\ outcomes' = outcomes \cup Report({r}, status, code) /\ todo' = todo \ {r}
  <2>1. todo \subseteq Row
    BY DEF EngineInv, TypeOK
  <2>2. outcomes' = outcomes \cup Report({r}, status, code) /\ todo' = todo \ {r}
    BY DEF FinishTest
  <2> QED
    BY <1>0, <2>1, <2>2 DEF Row
<1>2. stopped' = StopsTheRun(status)
  BY DEF FinishTest
<1>3. \A e \in executed' : e[1] <= r
  BY <1>1 DEF ErrorInv
<1>4. ASSUME ~control.continueOnTestError, NEW o \in Stoppers'
      PROVE  o.row = r /\ o.status = status /\ status \in {"ERROR", "BLOCKED"}
  <2>1. o \notin Stoppers
    BY <1>4 DEF ErrorInv
  <2>2. /\ o \in outcomes \cup Report({r}, status, code)
        /\ o.status \in {"ERROR", "BLOCKED"} /\ o.row \in Passed
    BY <1>1, <1>4 DEF Stoppers, Passed
  <2>3. o \in Report({r}, status, code)
    BY <2>1, <2>2 DEF Stoppers
  <2> QED
    BY <2>2, <2>3, ReportedStatus
<1>5. ASSUME ~control'.continueOnTestError, NEW o \in Stoppers'
      PROVE  stopped' /\ \A e \in executed' : e[1] <= o.row
  <2>1. o.row = r /\ status \in {"ERROR", "BLOCKED"}
    BY <1>4, <1>5
  <2>2. stopped'
    BY <1>2, <1>5, <2>1 DEF StopsTheRun
  <2> QED
    BY <1>3, <2>1, <2>2
<1>6. \A e \in executed', q \in todo' : e[1] <= q
  BY <1>1 DEF ErrorInv
<1> QED
  BY <1>5, <1>6 DEF ErrorInv

LEMMA ErrorStep == EngineInv /\ ErrorInv /\ [Next]_vars => ErrorInv'
<1> SUFFICES ASSUME EngineInv, ErrorInv, [Next]_vars PROVE ErrorInv'
  OBVIOUS
<1>a. TypeOK /\ WorkInv /\ ReportInv
  BY DEF EngineInv
<1>0. CASE UNCHANGED vars
  BY <1>0, ErrorKept, SameStoppers DEF vars
<1>1. CASE StopBeforeDatabases \/ RaiseWithoutExecutors \/ BeginPasses \/ SetAsideBlocked
  <2>1. /\ phase \in {"starting", "opening"} /\ phase' # "executing"
        /\ UNCHANGED <<control, checkResult, executed>>
    BY <1>1 DEF StopBeforeDatabases, RaiseWithoutExecutors, BeginPasses, SetAsideBlocked,
       CloseThen, inputs, check, running
  <2>2. stopped' = stopped
    BY <1>1 DEF StopBeforeDatabases, RaiseWithoutExecutors, BeginPasses, SetAsideBlocked,
       running
  <2>3. Stoppers' = {}
    BY <1>a, <2>1 DEF WorkInv, PassOneInv, Stoppers, Passed
  <2> QED
    BY <2>1, <2>2, <2>3, ErrorKept
<1>2. CASE LeaveRun \/ ReturnReport \/ SaveReport \/ Interrupt \/ EndExecution
  <2>1. UNCHANGED <<control, checkResult, executed, outcomes>> /\ phase' # "executing"
    BY <1>a, <1>2 DEF LeaveRun, ReturnReport, SaveReport, Interrupt, EndExecution,
       CloseThen, inputs, check, running, TypeOK
  <2>2. stopped' = stopped
    BY <1>2 DEF LeaveRun, ReturnReport, SaveReport, Interrupt, EndExecution, running
  <2> QED
    BY <2>1, <2>2, ErrorKept, SameStoppers
<1>3. ASSUME NEW s \in Section, OpenSection(s) \/ CloseSession(s) PROVE ErrorInv'
  <2>1. UNCHANGED <<control, checkResult, executed, outcomes>> /\ phase' # "executing"
    BY <1>3 DEF OpenSection, CloseSession, inputs, check, running
  <2>2. stopped' = stopped
    BY <1>3 DEF OpenSection, CloseSession, running
  <2> QED
    BY <2>1, <2>2, ErrorKept, SameStoppers
<1>4. ASSUME NEW r \in Row, QueryCompiles(r) \/ CheckUnavailable(r) PROVE ErrorInv'
  <2>1. /\ phase = "validating" /\ phase' = phase /\ IsNext(r) /\ NextSideOrPass(r)
        /\ UNCHANGED <<control, executed, outcomes>>
    BY <1>4 DEF QueryCompiles, CheckUnavailable, inputs, running
  <2>2. stopped' = stopped
    BY <1>4 DEF QueryCompiles, CheckUnavailable, running
  <2>3. r \in Runnable /\ checkResult[r] = "none"
    BY <1>a, <2>1 DEF IsNext, WorkInv, PassOneInv
  <2>4. r \notin RowsOf(outcomes)
    BY <1>a, <2>1, <2>3 DEF ReportInv, Failures
  <2>5. \A q \in Row : q # r => checkResult'[q] = checkResult[q]
    BY <1>a, <2>1 DEF NextSideOrPass, PassRow, TypeOK
  <2>6. \A o \in Stoppers' : o \in Stoppers
    BY <2>1, <2>4, <2>5 DEF Stoppers, Passed, RowsOf
  <2> QED
    BY <2>1, <2>2, <2>6, ErrorKept
<1>5. ASSUME NEW r \in Row, CheckFails(r) PROVE ErrorInv'
  <2>1. /\ phase = "validating" /\ phase' = phase /\ UNCHANGED <<control, executed>>
        /\ checkResult' = [checkResult EXCEPT ![r] = "FAILED"]
        /\ \E status, code : outcomes' = outcomes \cup Report({r}, status, code)
    BY <1>5 DEF CheckFails, inputs, running
  <2>2. stopped' = stopped
    BY <1>5 DEF CheckFails, running
  <2>3. \A q \in Row : checkResult'[q] = IF q = r THEN "FAILED" ELSE checkResult[q]
    BY <1>a, <2>1 DEF TypeOK
  <2>4. \A o \in outcomes' : o \in outcomes \/ o.row = r
    BY <2>1, ReportedStatus
  <2>5. \A o \in Stoppers' : o \in Stoppers
    BY <2>3, <2>4 DEF Stoppers, Passed
  <2> QED
    BY <2>1, <2>2, <2>5, ErrorKept
<1>6. CASE CloseGate \/ StopAfterValidation
  <2>1. /\ phase' = "closing" /\ UNCHANGED <<control, executed, checkResult>>
        /\ \E status \in {"NOT EXECUTED", "VALIDATED"} : \E code :
             outcomes' = outcomes \cup Report(Passed, status, code)
    BY <1>6 DEF CloseGate, StopAfterValidation, CloseThen, inputs, check, running
  <2>2. stopped' = stopped
    BY <1>6 DEF CloseGate, StopAfterValidation, running
  <2>3. \A o \in outcomes' : o \in outcomes \/ o.status \in {"NOT EXECUTED", "VALIDATED"}
    BY <2>1, ReportedStatus
  <2>4. \A o \in Stoppers' : o \in Stoppers
    BY <2>1, <2>3 DEF Stoppers, Passed
  <2> QED
    BY <2>1, <2>2, <2>4, ErrorKept
<1>7. CASE BeginExecution
  <2>1. /\ phase = "validating" /\ UNCHANGED <<control, checkResult, executed, outcomes>>
    BY <1>7 DEF BeginExecution, PassOneOver, inputs, check, running
  <2>2. stopped' = stopped
    BY <1>7 DEF BeginExecution, running
  <2>3. executed' = {}
    BY <1>a, <2>1 DEF WorkInv, PassTwoInv
  <2> QED
    BY <2>1, <2>2, <2>3, SameStoppers DEF ErrorInv
<1>8. ASSUME NEW r \in Row, QueryReturns(r) PROVE ErrorInv'
  <2>1. /\ phase = "executing" /\ IsNext(r) /\ UNCHANGED <<control, checkResult, outcomes, todo>>
        /\ executed' = executed \cup {<<r, side + 1>>}
    BY <1>8 DEF QueryReturns, Executing, inputs, check
  <2>2. ~stopped
    BY <1>8 DEF QueryReturns, Executing
  <2>3. ~control.continueOnTestError => Stoppers' = {}
    BY <2>1, <2>2, SameStoppers DEF ErrorInv
  <2>4. \A e \in executed', q \in todo' : e[1] <= q
    BY <2>1 DEF ErrorInv, IsNext
  <2> QED
    BY <2>1, <2>3, <2>4 DEF ErrorInv
<1>9. ASSUME NEW r \in Row, QueryFails(r) \/ SectionUnreachable(r) \/ Evaluate(r)
      PROVE  ErrorInv'
  <2>1. /\ phase = "executing" /\ IsNext(r) /\ ~stopped /\ UNCHANGED <<control, checkResult>>
        /\ \E status, code : FinishTest(r, status, code)
    BY <1>9 DEF QueryFails, SectionUnreachable, Evaluate, Executing, inputs, check
  <2>2. \/ executed' = executed
        \/ side < SideCount(r) /\ executed' = executed \cup {<<r, side + 1>>}
    BY <1>9 DEF QueryFails, SectionUnreachable, Evaluate
  <2>3. r \in Executable /\ SideCount(r) \in 1..2 /\ side \in 0..2
    BY <1>a, <2>1, SidesOfExecutable DEF IsNext, WorkInv, PassTwoInv, TypeOK
  <2>4. side < SideCount(r) => side + 1 \in 1..2
    BY <2>3
  <2> QED
    BY <2>1, <2>2, <2>4, ErrorSettled
<1>10. ASSUME NEW r \in Row, EvaluationRaises(r) PROVE ErrorInv'
  <2>1. UNCHANGED <<control, checkResult, executed, outcomes>> /\ phase' # "executing"
    BY <1>10 DEF EvaluationRaises, CloseThen, inputs, check, running
  <2>2. stopped' = stopped
    BY <1>10 DEF EvaluationRaises, running
  <2> QED
    BY <2>1, <2>2, ErrorKept, SameStoppers
<1>11. ASSUME NEW r \in Row, SkipStopped(r) PROVE ErrorInv'
  <2>1. /\ phase = "executing" /\ UNCHANGED <<control, checkResult, executed>>
        /\ todo' = todo \ {r}
        /\ outcomes' = outcomes \cup Report({r}, "NOT EXECUTED", "RUN_STOPPED")
    BY <1>11 DEF SkipStopped, inputs, check, running
  <2>2. stopped' = stopped
    BY <1>11 DEF SkipStopped, running
  <2>3. \A o \in Stoppers' : o \in Stoppers
    <3>1. \A o \in outcomes' : o \in outcomes \/ o.status = "NOT EXECUTED"
      BY <2>1, ReportedStatus
    <3> QED
      BY <2>1, <3>1 DEF Stoppers, Passed
  <2> QED
    BY <2>1, <2>2, <2>3, ErrorKept
<1>12. CASE Ended
  BY <1>0, <1>12 DEF Ended
<1> QED
  BY <1>0, <1>1, <1>2, <1>3, <1>4, <1>5, <1>6, <1>7, <1>8, <1>9, <1>10, <1>11, <1>12
     DEF Next, Step, TestStep

\* _run_tests: where the sheet says Continue_On_Test_Error = No, no query below a test
\* that errored in pass 2 is sent to a database.
THEOREM NothingRunsPastTheFirstError == Spec => []NothingRunsPastAnError
<1>1. Init => ErrorInv
  BY DEF Init, ErrorInv, Stoppers
<1>2. ErrorInv => NothingRunsPastAnError
  BY DEF ErrorInv, Stoppers, NothingRunsPastAnError
<1> QED
  BY <1>1, <1>2, EngineAlways, ErrorStep, PTL DEF Spec

----------------------------------------------------------------------------
\* What a status says of its row.
KindOK(o) ==
  /\ o.status = "VALIDATED" => control.validateOnly
  /\ o.status = "DISABLED" => o.row \in Disabled
  /\ o.row \in Problems => o.status = "CONFIG ERROR"
  /\ o.row \in Failures => o.status \in ErrorStatuses

KindsInv == \A o \in outcomes : KindOK(o)

\* The rows a step reports, and those it may have changed its mind about.
LEMMA KindsAdded ==
  ASSUME KindsInv, UNCHANGED <<plan, control>>, NEW rows, NEW status, NEW code,
         \A o \in outcomes' : o \in outcomes \/ o \in Report(rows, status, code),
         \A o \in outcomes : o.row \in Failures' => o.row \in Failures,
         status = "VALIDATED" => control.validateOnly,
         status # "DISABLED", rows \cap Problems = {},
         \A r \in rows : r \in Failures' => status \in ErrorStatuses
  PROVE  KindsInv'
<1>1. Disabled' = Disabled /\ Problems' = Problems
  BY DEF Disabled, Problems
<1>2. ASSUME NEW o \in outcomes' PROVE KindOK(o)'
  <2>1. CASE o \in outcomes
    BY <1>1, <2>1 DEF KindsInv, KindOK, ErrorStatuses
  <2>2. CASE o \in Report(rows, status, code)
    <3>1. o.status = status /\ o.row \in rows
      BY <2>2, ReportedStatus
    <3> QED
      BY <1>1, <3>1 DEF KindOK, ErrorStatuses
  <2> QED
    BY <1>2, <2>1, <2>2
<1> QED
  BY <1>2 DEF KindsInv

LEMMA KindsKept ==
  ASSUME KindsInv, UNCHANGED <<plan, control, outcomes>>,
         \A o \in outcomes : o.row \in Failures' => o.row \in Failures
  PROVE  KindsInv'
<1>1. Disabled' = Disabled /\ Problems' = Problems
  BY DEF Disabled, Problems
<1> QED
  BY <1>1 DEF KindsInv, KindOK, ErrorStatuses

\* Before pass 1 no check has failed.
LEMMA OfflineKinds ==
  ASSUME WorkInv, phase = "starting"
  PROVE  Failures = {} /\ \A o \in Offline : KindOK(o)
<1>1. Failures = {}
  BY DEF WorkInv, PassOneInv, Failures
<1>2. Problems \cap Disabled = {}
  BY DEF Problems, Disabled
<1>3. ASSUME NEW o \in Report(Problems, "CONFIG ERROR", "CONFIG") PROVE KindOK(o)
  <2>1. o.status = "CONFIG ERROR" /\ o.row \in Problems
    BY <1>3, ReportedStatus
  <2> QED
    BY <1>1, <2>1 DEF KindOK
<1>4. ASSUME NEW o \in Report(Disabled, "DISABLED", "") PROVE KindOK(o)
  <2>1. o.status = "DISABLED" /\ o.row \in Disabled
    BY <1>4, ReportedStatus
  <2> QED
    BY <1>1, <1>2, <2>1 DEF KindOK
<1> QED
  BY <1>1, <1>3, <1>4 DEF Offline

LEMMA KindsStep == EngineInv /\ KindsInv /\ [Next]_vars => KindsInv'
<1> SUFFICES ASSUME EngineInv, KindsInv, [Next]_vars PROVE KindsInv'
  OBVIOUS
<1>a. TypeOK /\ WorkInv /\ ReportInv
  BY DEF EngineInv
<1>b. Executable \cap Problems = {} /\ Runnable \subseteq Executable
  BY DEF Executable, Problems, Runnable
<1>c. UNCHANGED checkResult => Failures' = Failures
  BY DEF Failures
<1>0. CASE UNCHANGED vars
  BY <1>0, <1>c, KindsKept DEF vars
<1>1. CASE StopBeforeDatabases \/ RaiseWithoutExecutors \/ BeginPasses
  <2>1. phase = "starting" /\ UNCHANGED <<plan, control, checkResult>>
    BY <1>1 DEF StopBeforeDatabases, RaiseWithoutExecutors, BeginPasses, inputs, check
  <2>2. /\ Disabled' = Disabled /\ Problems' = Problems /\ Failures' = {} /\ Failures = {}
        /\ \A o : KindOK(o)' <=> KindOK(o)
    BY <1>a, <2>1, <1>c, OfflineKinds DEF Disabled, Problems, KindOK, ErrorStatuses
  <2>3. PICK code : \A o \in outcomes' :
          o \in Offline \/ o \in Report(Executable, "NOT EXECUTED", code)
    BY <1>1 DEF StopBeforeDatabases, RaiseWithoutExecutors, BeginPasses
  <2>4. ASSUME NEW o \in Report(Executable, "NOT EXECUTED", code) PROVE KindOK(o)
    <3>1. o.status = "NOT EXECUTED" /\ o.row \in Executable
      BY <2>4, ReportedStatus
    <3> QED
      BY <1>b, <2>2, <3>1 DEF KindOK
  <2>5. \A o \in Offline : KindOK(o)
    BY <1>a, <2>1, OfflineKinds
  <2> QED
    BY <2>2, <2>3, <2>4, <2>5 DEF KindsInv
<1>2. CASE LeaveRun \/ ReturnReport \/ SaveReport \/ Interrupt \/ EndExecution
           \/ BeginExecution
  <2>1. UNCHANGED <<plan, control, checkResult, outcomes>>
    BY <1>2 DEF LeaveRun, ReturnReport, SaveReport, Interrupt, EndExecution, BeginExecution,
       inputs, check
  <2> QED
    BY <2>1, <1>c, KindsKept
<1>3. ASSUME NEW s \in Section, OpenSection(s) \/ CloseSession(s) PROVE KindsInv'
  <2>1. UNCHANGED <<plan, control, checkResult, outcomes>>
    BY <1>3 DEF OpenSection, CloseSession, inputs, check
  <2> QED
    BY <2>1, <1>c, KindsKept
<1>4. CASE SetAsideBlocked
  <2>1. /\ phase = "opening" /\ UNCHANGED <<plan, control, checkResult>>
        /\ outcomes' = outcomes \cup Report(BlockedRows, "BLOCKED", "CONNECTION_FAILED")
    BY <1>4 DEF SetAsideBlocked, inputs, check
  <2>2. BlockedRows \cap Problems = {}
    BY <1>b DEF BlockedRows
  <2>3. Failures' = Failures
    BY <1>c, <2>1
  <2> QED
    BY <2>1, <2>2, <2>3, KindsAdded DEF ErrorStatuses
<1>5. ASSUME NEW r \in Row, QueryCompiles(r) \/ CheckUnavailable(r) PROVE KindsInv'
  <2>1. /\ NextSideOrPass(r) /\ UNCHANGED <<plan, control, outcomes>>
    BY <1>5 DEF QueryCompiles, CheckUnavailable, inputs
  <2>2. Failures' \subseteq Failures
    BY <1>a, <2>1 DEF NextSideOrPass, PassRow, CheckedAs, TypeOK, Failures
  <2> QED
    BY <2>1, <2>2, KindsKept
<1>6. ASSUME NEW r \in Row, CheckFails(r) PROVE KindsInv'
  <2>1. /\ phase = "validating" /\ r \in todo /\ UNCHANGED <<plan, control>>
        /\ checkResult' = [checkResult EXCEPT ![r] = "FAILED"]
    BY <1>6 DEF CheckFails, IsNext, inputs
  <2>2. PICK answer \in DOMAIN ValidationFailure :
          outcomes' = outcomes \cup Report({r}, ValidationFailure[answer].status,
                                           ValidationFailure[answer].code)
    BY <1>6 DEF CheckFails
  <2>3. ValidationFailure[answer].status \in ErrorStatuses \ {"VALIDATED", "DISABLED"}
    <3>1. DOMAIN ValidationFailure = {"rejected", "timeout", "unreachable", "other"}
      BY DEF ValidationFailure
    <3>2. CASE answer = "rejected"
      BY <3>2 DEF ValidationFailure, ErrorStatuses
    <3>3. CASE answer = "timeout"
      BY <3>3 DEF ValidationFailure, ErrorStatuses
    <3>4. CASE answer = "unreachable"
      BY <3>4 DEF ValidationFailure, ErrorStatuses
    <3>5. CASE answer = "other"
      BY <3>5 DEF ValidationFailure, ErrorStatuses
    <3> QED
      BY <3>1, <3>2, <3>3, <3>4, <3>5
  <2>4. r \in Runnable /\ checkResult[r] = "none"
    BY <1>a, <2>1 DEF WorkInv, PassOneInv
  <2>5. r \notin RowsOf(outcomes) /\ r \notin Problems
    BY <1>a, <1>b, <2>1, <2>4 DEF ReportInv, Failures
  <2>6. \A o \in outcomes : o.row \in Failures' => o.row \in Failures
    <3>1. \A o \in outcomes : o.row # r
      BY <2>5 DEF RowsOf
    <3>2. \A q \in Row : q # r => checkResult'[q] = checkResult[q]
      BY <1>a, <2>1 DEF TypeOK
    <3> QED
      BY <3>1, <3>2 DEF Failures
  <2> QED
    BY <2>1, <2>2, <2>3, <2>5, <2>6, KindsAdded
<1>7. CASE CloseGate \/ StopAfterValidation
  <2>1. /\ UNCHANGED <<plan, control, checkResult>>
        /\ \E status \in {"NOT EXECUTED", "VALIDATED"} : \E code :
             /\ outcomes' = outcomes \cup Report(Passed, status, code)
             /\ status = "VALIDATED" => control.validateOnly
    BY <1>7 DEF CloseGate, StopAfterValidation, inputs, check
  <2>2. Passed \cap Problems = {} /\ Passed \cap Failures = {} /\ Failures' = Failures
    BY <1>a, <1>b, <1>c, <2>1 DEF WorkInv, PassOneInv, Passed, Failures
  <2> QED
    BY <2>1, <2>2, KindsAdded
<1>8. ASSUME NEW r \in Row, QueryReturns(r) \/ EvaluationRaises(r) PROVE KindsInv'
  <2>1. UNCHANGED <<plan, control, checkResult, outcomes>>
    BY <1>8 DEF QueryReturns, EvaluationRaises, inputs, check
  <2> QED
    BY <2>1, <1>c, KindsKept
<1>9. ASSUME NEW r \in Row,
             QueryFails(r) \/ SectionUnreachable(r) \/ Evaluate(r) \/ SkipStopped(r)
      PROVE  KindsInv'
  <2>1. phase = "executing" /\ r \in todo /\ UNCHANGED <<plan, control, checkResult>>
    BY <1>9 DEF QueryFails, SectionUnreachable, Evaluate, SkipStopped, Executing, IsNext,
       inputs, check
  <2>2. r \notin Problems /\ r \notin Failures /\ Failures' = Failures
    BY <1>a, <1>b, <1>c, <2>1 DEF WorkInv, PassTwoInv, Passed, Failures
  <2>3. PICK status \in {"PASS", "FAIL", "PROFILED", "ERROR", "BLOCKED", "NOT EXECUTED"}, code \in Codes :
          outcomes' = outcomes \cup Report({r}, status, code)
    <3>1. CASE Evaluate(r)
      <4>1. PICK v \in Verdicts : outcomes' = outcomes \cup Report({r}, v.status, v.code)
        BY <3>1 DEF Evaluate, FinishTest
      <4>2. v.status \in {"PASS", "FAIL", "PROFILED", "ERROR"} /\ v.code \in Codes
        <5>1. CASE v = [status |-> "PASS", code |-> ""]
          BY <5>1 DEF Codes
        <5>2. CASE v = [status |-> "FAIL", code |-> "MISMATCH"]
          BY <5>2 DEF Codes
        <5>3. CASE v = [status |-> "PROFILED", code |-> ""]
          BY <5>3 DEF Codes
        <5>4. CASE v = [status |-> "ERROR", code |-> "CONVERSION"]
          BY <5>4 DEF Codes
        <5> QED
          BY <5>1, <5>2, <5>3, <5>4 DEF Verdicts
      <4> QED
        BY <4>1, <4>2
    <3>2. CASE QueryFails(r)
      BY <3>2 DEF QueryFails, FinishTest, Codes
    <3>3. CASE SectionUnreachable(r) \/ SkipStopped(r)
      BY <3>3 DEF SectionUnreachable, SkipStopped, FinishTest, Codes
    <3> QED
      BY <1>9, <3>1, <3>2, <3>3
  <2>4. /\ status \notin {"VALIDATED", "DISABLED"} /\ {r} \cap Problems = {}
        /\ \A q \in {r} : q \notin Failures'
        /\ \A o \in outcomes' : o \in outcomes \/ o \in Report({r}, status, code)
    BY <2>2, <2>3
  <2> QED
    BY <2>1, <2>2, <2>4, KindsAdded
<1>10. CASE Ended
  BY <1>0, <1>10 DEF Ended
<1> QED
  BY <1>0, <1>1, <1>2, <1>3, <1>4, <1>5, <1>6, <1>7, <1>8, <1>9, <1>10
     DEF Next, Step, TestStep

----------------------------------------------------------------------------
\* A report has at most one outcome a row, so it can be counted.
LEMMA OutcomesFinite ==
  ASSUME TypeOK, ReportInv
  PROVE  \A statuses : /\ Count(statuses) \in Nat
                       /\ Count(statuses) = 0 => \A o \in outcomes : o.status \notin statuses
<1> DEFINE rows == RowsOf(outcomes)
           first == [r \in rows |-> CHOOSE o \in outcomes : o.row = r]
<1>1. rows \subseteq Row
  BY DEF TypeOK, OutcomeType, RowsOf
<1>2. IsFiniteSet(Row)
  BY FS_Interval, EngineAssumption DEF Row
<1>3. IsFiniteSet(rows)
  BY <1>1, <1>2, FS_Subset
<1>4. \A o \in outcomes : o.row \in rows /\ first[o.row] = o
  BY DEF ReportInv, OncePerRow, RowsOf
<1>5. \A r \in rows : first[r] \in outcomes
  BY DEF RowsOf
<1>6. first \in Surjection(rows, outcomes)
  <2> HIDE DEF first, rows
  <2>1. first \in [rows -> outcomes]
    BY <1>5 DEF first
  <2> QED
    BY <1>4, <2>1, Fun_IsSurj
<1>7. IsFiniteSet(outcomes)
  BY <1>3, <1>6, FS_Surjection
<1> SUFFICES ASSUME NEW statuses
    PROVE  /\ Count(statuses) \in Nat
           /\ Count(statuses) = 0 => \A o \in outcomes : o.status \notin statuses
  OBVIOUS
<1> DEFINE counted == {o \in outcomes : o.status \in statuses}
<1>8. IsFiniteSet(counted)
  BY <1>7, FS_Subset
<1>9. Cardinality(counted) \in Nat /\ (Cardinality(counted) = 0 <=> counted = {})
  BY <1>8, FS_CardinalityType, FS_EmptySet
<1> QED
  BY <1>9 DEF Count

\* A PASS for a whole executed run (RunReport.overall_status) is not the absence of bad
\* news: every enabled test was executed on every side, and none is missing.
THEOREM PassMeansEverythingRan == Spec => []PassMeansExecuted
<1>1. Init => KindsInv
  BY DEF Init, KindsInv
<1>2. EngineInv /\ StatusInv /\ KindsInv => PassMeansExecuted
  <2> SUFFICES ASSUME EngineInv, StatusInv, KindsInv, phase = "done", ~control.dryRun,
                      ~control.validateOnly, OverallStatus = "PASS"
      PROVE  /\ Problems = {} /\ Failures = {}
             /\ \A r \in Executable, i \in 1..2 :
                  i <= SideCount(r) => <<r, i>> \in executed
    BY DEF PassMeansExecuted
  <2>a. TypeOK /\ ReportInv
    BY DEF EngineInv
  <2>1. ~(Count(ErrorStatuses) > 0) /\ ~(Count({"NOT EXECUTED"}) > 0)
    BY DEF OverallStatus
  <2>2. Count(ErrorStatuses) = 0 /\ Count({"NOT EXECUTED"}) = 0
    <3>1. Count(ErrorStatuses) \in Nat /\ Count({"NOT EXECUTED"}) \in Nat
      BY <2>a, OutcomesFinite, Zenon
    <3>2. \A n \in Nat : ~(n > 0) => n = 0
      OBVIOUS
    <3> QED
      BY <2>1, <3>1, <3>2, Zenon
  <2>3. \A o \in outcomes : o.status \notin ErrorStatuses /\ o.status # "NOT EXECUTED"
    BY <2>a, <2>2, OutcomesFinite
  <2>4. \A r \in Row : \E o \in outcomes : o.row = r
    BY <2>a DEF ReportInv, RowsOf
  <2>5. Problems = {} /\ Failures = {}
    <3>1. ASSUME NEW r \in Row, r \in Problems \/ r \in Failures PROVE FALSE
      <4>1. PICK o \in outcomes : o.row = r
        BY <2>4
      <4>2. KindOK(o)
        BY DEF KindsInv
      <4> QED
        BY <2>3, <3>1, <4>1, <4>2 DEF KindOK, ErrorStatuses
    <3> QED
      BY <3>1 DEF Problems, Failures
  <2>6. ASSUME NEW r \in Executable, NEW i \in 1..2, i <= SideCount(r)
        PROVE  <<r, i>> \in executed
    <3>1. PICK o \in outcomes : o.row = r
      BY <2>4 DEF Executable
    <3>2. r \notin Disabled
      BY DEF Executable, Disabled
    <3>3. KindOK(o)
      BY DEF KindsInv
    <3>4. o.status \in Statuses
      BY <2>a DEF TypeOK, OutcomeType
    <3>5. o.status \in {"PASS", "FAIL", "PROFILED"}
      BY <2>3, <3>1, <3>2, <3>3, <3>4 DEF KindOK, Statuses, ErrorStatuses
    <3>6. i \in 1..SideCount(r)
      <4>1. SideCount(r) \in 1..2
        BY <2>a, SidesOfExecutable
      <4> QED
        BY <2>6, <4>1
    <3> QED
      BY <3>1, <3>5, <3>6 DEF StatusInv, StatusMatchesWork
  <2> QED
    BY <2>5, <2>6
<1> QED
  BY <1>1, <1>2, EngineAlways, StatusAlways, KindsStep, PTL DEF Spec

----------------------------------------------------------------------------
\* The codes by which rows are listed in Validation Errors belong to pass 1.
PassOneCodes == {"SYNTAX_ERROR", "SYNTAX_CHECK_FAILED"}
ListedInv == \A o \in outcomes : o.code \in PassOneCodes => o.row \in Failures

LEMMA ReportedCode ==
  ASSUME NEW rows, NEW status, NEW code, NEW o \in Report(rows, status, code)
  PROVE  o.code = code /\ o.row \in rows
BY DEF Report

\* A step whose outcomes, if any, have codes of other kinds.
LEMMA ListedKept ==
  ASSUME ListedInv, Failures \subseteq Failures',
         \A o \in outcomes' : o \in outcomes \/ o.code \notin PassOneCodes
  PROVE  ListedInv'
BY DEF ListedInv

LEMMA OfflineUnlisted == \A o \in Offline : o.code \notin PassOneCodes
BY ReportedCode DEF Offline, PassOneCodes

LEMMA ListedStep == EngineInv /\ ListedInv /\ [Next]_vars => ListedInv'
<1> SUFFICES ASSUME EngineInv, ListedInv, [Next]_vars PROVE ListedInv'
  OBVIOUS
<1>a. TypeOK /\ WorkInv
  BY DEF EngineInv
<1>b. UNCHANGED checkResult => Failures' = Failures
  BY DEF Failures
<1>0. CASE UNCHANGED vars
  BY <1>0, <1>b, ListedKept DEF vars
<1>1. CASE StopBeforeDatabases \/ RaiseWithoutExecutors \/ BeginPasses
  <2>1. UNCHANGED checkResult
    BY <1>1 DEF StopBeforeDatabases, RaiseWithoutExecutors, BeginPasses, check
  <2>2. PICK code \in {"DRY_RUN", "RUN_STOPPED"} : \A o \in outcomes' :
          o \in Offline \/ o \in Report(Executable, "NOT EXECUTED", code)
    BY <1>1 DEF StopBeforeDatabases, RaiseWithoutExecutors, BeginPasses
  <2>3. \A o \in outcomes' : o.code \notin PassOneCodes
    BY <2>2, OfflineUnlisted, ReportedCode DEF PassOneCodes
  <2> QED
    BY <1>b, <2>1, <2>3, ListedKept
<1>2. CASE LeaveRun \/ ReturnReport \/ SaveReport \/ Interrupt \/ EndExecution
           \/ BeginExecution
  <2>1. UNCHANGED <<checkResult, outcomes>>
    BY <1>2 DEF LeaveRun, ReturnReport, SaveReport, Interrupt, EndExecution, BeginExecution, check
  <2> QED
    BY <1>b, <2>1, ListedKept
<1>3. ASSUME NEW s \in Section, OpenSection(s) \/ CloseSession(s) PROVE ListedInv'
  <2>1. UNCHANGED <<checkResult, outcomes>>
    BY <1>3 DEF OpenSection, CloseSession, check
  <2> QED
    BY <1>b, <2>1, ListedKept
<1>4. CASE SetAsideBlocked \/ CloseGate \/ StopAfterValidation
  <2>1. /\ UNCHANGED checkResult
        /\ \E rows, status : \E code \in {"CONNECTION_FAILED", "RUN_STOPPED", ""} :
             outcomes' = outcomes \cup Report(rows, status, code)
    BY <1>4 DEF SetAsideBlocked, CloseGate, StopAfterValidation, check
  <2>2. \A o \in outcomes' : o \in outcomes \/ o.code \notin PassOneCodes
    BY <2>1, ReportedCode DEF PassOneCodes
  <2> QED
    BY <1>b, <2>1, <2>2, ListedKept
<1>5. ASSUME NEW r \in Row, QueryCompiles(r) \/ CheckUnavailable(r) PROVE ListedInv'
  <2>1. /\ r \in todo /\ phase = "validating" /\ NextSideOrPass(r) /\ UNCHANGED outcomes
    BY <1>5 DEF QueryCompiles, CheckUnavailable, IsNext
  <2>2. checkResult[r] = "none"
    BY <1>a, <2>1 DEF WorkInv, PassOneInv
  <2>3. Failures \subseteq Failures'
    BY <1>a, <2>1, <2>2 DEF NextSideOrPass, PassRow, CheckedAs, TypeOK, Failures
  <2> QED
    BY <2>1, <2>3, ListedKept
<1>6. ASSUME NEW r \in Row, CheckFails(r) PROVE ListedInv'
  <2>1. checkResult' = [checkResult EXCEPT ![r] = "FAILED"]
    BY <1>6 DEF CheckFails
  <2>2. \E rows, status, code : rows = {r} /\ outcomes' = outcomes \cup Report(rows, status, code)
    BY <1>6 DEF CheckFails
  <2>3. r \in Failures' /\ Failures \subseteq Failures'
    BY <1>a, <2>1 DEF Failures, TypeOK
  <2>4. \A o \in outcomes' : o \in outcomes \/ o.row = r
    BY <2>2, ReportedCode
  <2> QED
    BY <2>3, <2>4 DEF ListedInv
<1>7. ASSUME NEW r \in Row, QueryReturns(r) \/ EvaluationRaises(r) PROVE ListedInv'
  <2>1. UNCHANGED <<checkResult, outcomes>>
    BY <1>7 DEF QueryReturns, EvaluationRaises, check
  <2> QED
    BY <1>b, <2>1, ListedKept
<1>8. ASSUME NEW r \in Row,
             QueryFails(r) \/ SectionUnreachable(r) \/ Evaluate(r) \/ SkipStopped(r)
      PROVE  ListedInv'
  <2>1. UNCHANGED checkResult
    BY <1>8 DEF QueryFails, SectionUnreachable, Evaluate, SkipStopped, check
  <2>2. PICK status, code : /\ outcomes' = outcomes \cup Report({r}, status, code)
                            /\ code \notin PassOneCodes
    <3>1. CASE Evaluate(r)
      <4>1. PICK v \in Verdicts : outcomes' = outcomes \cup Report({r}, v.status, v.code)
        BY <3>1 DEF Evaluate, FinishTest
      <4>2. v.code \notin PassOneCodes
        <5>1. CASE v = [status |-> "PASS", code |-> ""]
          BY <5>1 DEF PassOneCodes
        <5>2. CASE v = [status |-> "FAIL", code |-> "MISMATCH"]
          BY <5>2 DEF PassOneCodes
        <5>3. CASE v = [status |-> "PROFILED", code |-> ""]
          BY <5>3 DEF PassOneCodes
        <5>4. CASE v = [status |-> "ERROR", code |-> "CONVERSION"]
          BY <5>4 DEF PassOneCodes
        <5> QED
          BY <5>1, <5>2, <5>3, <5>4 DEF Verdicts
      <4> QED
        BY <4>1, <4>2
    <3>2. CASE QueryFails(r)
      <4>1. PICK code \in {"QUERY_TIMEOUT", "QUERY_FAILED"} :
              outcomes' = outcomes \cup Report({r}, "ERROR", code)
        BY <3>2 DEF QueryFails, FinishTest
      <4>2. code \notin PassOneCodes
        BY <4>1 DEF PassOneCodes
      <4> QED
        BY <4>1, <4>2
    <3>3. CASE SectionUnreachable(r) \/ SkipStopped(r)
      <4>1. PICK status \in {"BLOCKED", "NOT EXECUTED"}, code \in {"CONNECTION_FAILED", "RUN_STOPPED"} :
              outcomes' = outcomes \cup Report({r}, status, code)
        BY <3>3 DEF SectionUnreachable, SkipStopped, FinishTest
      <4>2. code \notin PassOneCodes
        BY <4>1 DEF PassOneCodes
      <4> QED
        BY <4>1, <4>2
    <3> QED
      BY <1>8, <3>1, <3>2, <3>3
  <2>3. \A o \in outcomes' : o \in outcomes \/ o.code \notin PassOneCodes
    BY <2>2, ReportedCode
  <2> QED
    BY <1>b, <2>1, <2>3, ListedKept
<1>9. CASE Ended
  BY <1>0, <1>9 DEF Ended
<1> QED
  BY <1>0, <1>1, <1>2, <1>3, <1>4, <1>5, <1>6, <1>7, <1>8, <1>9 DEF Next, Step, TestStep

\* RunReport.validation_failures: whatever a run did, its Validation Errors sheet lists
\* rows that failed pass 1 only, and none at all if a query was executed, as the gate
\* was closed otherwise.
THEOREM ValidationErrorsFailedPassOne == Spec => []ListedRowsFailedValidation
<1>1. Init => ListedInv
  BY DEF Init, ListedInv
<1>2. EngineInv /\ ListedInv => ListedRowsFailedValidation
  <2> SUFFICES ASSUME EngineInv, ListedInv PROVE ListedRowsFailedValidation
    OBVIOUS
  <2>1. ValidationErrorRows \subseteq Failures
    BY DEF ValidationErrorRows, ListedInv, PassOneCodes
  <2>2. executed # {} => Failures = {}
    <3>1. WorkInv
      BY DEF EngineInv
    <3>2. \A r \in Failures : r \in Runnable
      BY <3>1 DEF WorkInv, PassOneInv, Failures
    <3> QED
      BY <3>1, <3>2 DEF WorkInv, GateInv, Failures
  <2> QED
    BY <2>1, <2>2 DEF ListedRowsFailedValidation
<1> QED
  BY <1>1, <1>2, EngineAlways, ListedStep, PTL DEF Spec

----------------------------------------------------------------------------
\* Sections that did not open.

\* Behind the loop that sets tests aside, no test a pass may reach needs a section
\* that failed to open.
DeadInv ==
  phase \in {"validating", "executing"} =>
    \A r \in Runnable : \A s \in SectionsOf(r) : session[s] # "failed"

\* The test a pass is at is runnable, and the query it is at has a section that opened.
LEMMA AtHandIsAlive ==
  ASSUME EngineInv, DeadInv, phase \in {"validating", "executing"}, NEW r \in todo,
         side + 1 <= SideCount(r)
  PROVE  /\ SectionAt(r, side + 1) \in Section
         /\ session[SectionAt(r, side + 1)] # "failed"
<1>1. r \in Runnable /\ r \in Executable
  BY DEF EngineInv, WorkInv, PassOneInv, PassTwoInv, Passed, Runnable
<1>2. SideCount(r) \in 1..2 /\ \A i \in 1..SideCount(r) : SectionAt(r, i) \in Section
  BY <1>1, SidesOfExecutable DEF EngineInv
<1>3. side \in 0..2
  BY DEF EngineInv, TypeOK
<1>4. side + 1 \in 1..SideCount(r)
  BY <1>2, <1>3
<1>5. SectionAt(r, side + 1) \in SectionsOf(r)
  BY <1>4 DEF SectionsOf
<1> QED
  BY <1>1, <1>2, <1>4, <1>5 DEF DeadInv

\* A call that answers touches the section of its query and leaves it open or dropped.
LEMMA DeadAfterCall ==
  ASSUME EngineInv, DeadInv, phase \in {"validating", "executing"}, NEW r \in todo,
         side + 1 <= SideCount(r), UNCHANGED <<plan, blocked>>,
         NEW left \in {"open", "dropped"},
         session' = [session EXCEPT ![SectionAt(r, side + 1)] = left]
  PROVE  DeadInv' /\ \A s \in Section : session[s] = "failed" => session'[s] = "failed"
<1> DEFINE t == SectionAt(r, side + 1)
<1>1. t \in Section /\ session[t] # "failed"
  BY AtHandIsAlive
<1>2. session \in [Section -> {"unopened", "open", "failed", "dropped", "closed"}]
  BY DEF EngineInv, TypeOK
<1> HIDE DEF t
<1>3. \A s \in Section : session'[s] = IF s = t THEN left ELSE session[s]
  BY <1>1, <1>2 DEF t
<1>4. Runnable' = Runnable /\ \A q \in Row : SectionsOf(q)' = SectionsOf(q)
  BY DEF Runnable, Executable, SectionsOf, SectionAt, SideCount
<1>5. ASSUME NEW q \in Runnable, NEW s \in SectionsOf(q) PROVE s \in Section
  <2>1. q \in Executable
    BY <1>5 DEF Runnable
  <2> QED
    BY <2>1, <1>5, SidesOfExecutable DEF SectionsOf, EngineInv
<1>6. \A q \in Runnable : \A s \in SectionsOf(q) : session'[s] # "failed"
  BY <1>3, <1>5 DEF DeadInv
<1>7. Runnable \subseteq Row
  BY DEF Runnable, Executable
<1> QED
  BY <1>1, <1>3, <1>4, <1>6, <1>7 DEF DeadInv

\* Pass 1 leaves a test after its last side.
WithinInv ==
  phase = "validating" => \A r \in todo : IsNext(r) => side + 1 <= SideCount(r)

LEMMA WithinStep == EngineInv /\ WithinInv /\ [Next]_vars => WithinInv'
<1> SUFFICES ASSUME EngineInv, WithinInv, [Next]_vars, phase' = "validating" PROVE WithinInv'
  BY DEF WithinInv
<1>0. TypeOK /\ TypeOK'
  BY TypeStep DEF EngineInv, WorkInv, PassTwoInv
<1>1. \A r \in Executable' : SideCount(r)' \in 1..2
  <2>1. plan' = plan
    BY DEF Next, Step, TestStep, StopBeforeDatabases, RaiseWithoutExecutors, BeginPasses, OpenSection,
       CloseSession, SetAsideBlocked, QueryCompiles, CheckUnavailable, CheckFails, QueryReturns,
       QueryFails, SectionUnreachable, Evaluate, EvaluationRaises, SkipStopped, CloseGate,
       StopAfterValidation, BeginExecution, EndExecution, LeaveRun, ReturnReport, SaveReport,
       Interrupt, Ended, vars, inputs
  <2> QED
    BY <2>1, <1>0, SidesOfExecutable DEF Executable, SideCount
<1>2. todo' \subseteq Executable'
  BY WorkStep DEF EngineInv, WorkInv, PassTwoInv
<1>3. CASE side' = 0
  BY <1>1, <1>2, <1>3 DEF WithinInv
<1>4. CASE UNCHANGED <<phase, plan, todo, side>>
  BY <1>4 DEF WithinInv, IsNext, SideCount
<1>5. ASSUME NEW r \in Row, NextSideOrPass(r), IsNext(r), UNCHANGED plan PROVE WithinInv'
  <2>1. CASE side' = 0
    BY <2>1, <1>3
  <2>2. CASE side + 1 < SideCount(r) /\ side' = side + 1 /\ UNCHANGED todo
    <3>1. ASSUME NEW q \in todo, IsNext(q) PROVE q = r
      BY <1>5, <3>1, <1>0, OneNext DEF EngineInv, WorkInv, PassTwoInv, Executable
    <3>2. r \in Executable /\ SideCount(r) \in 1..2 /\ side \in 0..2
      BY <1>5, <1>0, SidesOfExecutable DEF EngineInv, WorkInv, PassTwoInv, IsNext, TypeOK
    <3>3. side' + 1 <= SideCount(r)' /\ \A q \in todo' : IsNext(q)' => IsNext(q)
      BY <2>2, <3>2, <1>5 DEF SideCount, IsNext
    <3> QED
      BY <2>2, <3>1, <3>3 DEF WithinInv
  <2> QED
    BY <2>1, <2>2, <1>5 DEF NextSideOrPass, PassRow
<1>6. CASE UNCHANGED vars
  BY <1>6, <1>4 DEF vars
<1>7. CASE SetAsideBlocked
  BY <1>7, <1>3 DEF SetAsideBlocked, EngineInv, ProgressInv, SideInv
<1>8. ASSUME NEW r \in Row, TestStep(r) PROVE WithinInv'
  <2>1. CASE QueryCompiles(r) \/ CheckUnavailable(r)
    BY <2>1, <1>5 DEF QueryCompiles, CheckUnavailable, inputs
  <2>2. CASE CheckFails(r)
    BY <2>2, <1>3 DEF CheckFails
  <2> QED
    BY <1>8, <2>1, <2>2 DEF TestStep, QueryReturns, QueryFails, SectionUnreachable, Evaluate,
       EvaluationRaises, SkipStopped, Executing, CloseThen
<1>9. ASSUME NEW s \in Section, OpenSection(s) \/ CloseSession(s) PROVE FALSE
  BY <1>9 DEF OpenSection, CloseSession
<1>10. CASE Ended
  BY <1>10, <1>6 DEF Ended
<1>11. LeaveRun => FALSE
  BY <1>0 DEF LeaveRun, TypeOK, EndPhases
<1> QED
  BY <1>6, <1>7, <1>8, <1>9, <1>10, <1>11 DEF Next, Step, StopBeforeDatabases,
     RaiseWithoutExecutors, BeginPasses, CloseGate, StopAfterValidation, BeginExecution,
     EndExecution, ReturnReport, SaveReport, Interrupt, CloseThen

\* A step keeps DeadInv and revives no section.
LEMMA DeadStep ==
  EngineInv /\ DeadInv /\ WithinInv /\ [Next]_vars =>
    DeadInv' /\ \A s \in Section : session[s] = "failed" => session'[s] = "failed"
<1> DEFINE Dead == \A s \in Section : session[s] = "failed" => session'[s] = "failed"
<1> SUFFICES ASSUME EngineInv, DeadInv, WithinInv, [Next]_vars PROVE DeadInv' /\ Dead
  OBVIOUS
<1>0. session \in [Section -> {"unopened", "open", "failed", "dropped", "closed"}]
  BY DEF EngineInv, TypeOK
<1>1. ASSUME UNCHANGED <<plan, blocked, session>>,
             \/ phase' = phase \/ phase' \notin {"validating", "executing"}
             \/ phase \in {"validating", "executing"}
      PROVE  DeadInv' /\ Dead
  BY <1>1 DEF DeadInv, Runnable, Executable, SectionsOf, SectionAt, SideCount
<1>2. CASE UNCHANGED vars \/ Ended
  BY <1>2, <1>1 DEF Ended, vars
<1>3. ASSUME NEW t \in Section, OpenSection(t) \/ CloseSession(t) PROVE DeadInv' /\ Dead
  BY <1>3, <1>0 DEF OpenSection, CloseSession, DeadInv
<1>4. CASE SetAsideBlocked
  <2>1. UNCHANGED <<plan, session>> /\ blocked' = BlockedRows
    BY <1>4 DEF SetAsideBlocked, inputs
  <2>2. DeadInv'
    BY <2>1 DEF DeadInv, Runnable, Executable, SectionsOf, SectionAt, SideCount, BlockedRows
  <2> QED
    BY <2>1, <2>2
<1>5. ASSUME NEW r \in Row, TestStep(r) PROVE DeadInv' /\ Dead
  <2>1. CASE QueryCompiles(r) \/ CheckUnavailable(r) \/ QueryReturns(r) \/ QueryFails(r)
             \/ (CheckFails(r) /\ Reconnected(SectionAt(r, side + 1)))
    <3>1. UNCHANGED <<plan, blocked>> /\ phase \in {"validating", "executing"} /\ IsNext(r)
      BY <2>1 DEF QueryCompiles, CheckUnavailable, QueryReturns, QueryFails, CheckFails,
         Executing, inputs
    <3>2. r \in todo
      BY <3>1 DEF IsNext
    <3>3. side + 1 <= SideCount(r)
      <4>1. CASE phase = "validating"
        BY <4>1, <3>1, <3>2 DEF WithinInv
      <4>2. CASE phase = "executing"
        <5>1. side < SideCount(r)
          BY <2>1, <4>2 DEF QueryCompiles, CheckUnavailable, CheckFails, QueryReturns, QueryFails
        <5>2. SideCount(r) \in 1..2 /\ side \in 0..2
          BY <3>2, SidesOfExecutable DEF EngineInv, WorkInv, PassTwoInv, TypeOK
        <5> QED
          BY <5>1, <5>2
      <4> QED
        BY <3>1, <4>1, <4>2
    <3>4. \E left \in {"open", "dropped"} :
            session' = [session EXCEPT ![SectionAt(r, side + 1)] = left]
      BY <2>1 DEF QueryCompiles, CheckUnavailable, QueryReturns, QueryFails, Reconnected
    <3> QED
      BY <3>1, <3>2, <3>3, <3>4, DeadAfterCall
  <2>2. CASE CheckFails(r) /\ UNCHANGED session
    BY <2>2, <1>1 DEF CheckFails, inputs
  <2>3. CASE SectionUnreachable(r) \/ Evaluate(r) \/ EvaluationRaises(r) \/ SkipStopped(r)
    BY <2>3, <1>1 DEF SectionUnreachable, Evaluate, EvaluationRaises, SkipStopped, CloseThen, inputs
  <2>4. CheckFails(r) => Reconnected(SectionAt(r, side + 1)) \/ UNCHANGED session
    BY DEF CheckFails
  <2> QED
    BY <1>5, <2>1, <2>2, <2>3, <2>4 DEF TestStep
<1>6. CASE \/ StopBeforeDatabases \/ RaiseWithoutExecutors \/ BeginPasses \/ CloseGate
           \/ StopAfterValidation \/ BeginExecution \/ EndExecution \/ ReturnReport
           \/ SaveReport \/ Interrupt
  BY <1>6, <1>1 DEF StopBeforeDatabases, RaiseWithoutExecutors, BeginPasses, CloseGate,
     StopAfterValidation, BeginExecution, EndExecution, ReturnReport, SaveReport, Interrupt,
     CloseThen, PassOneOver, inputs
<1>7. CASE LeaveRun
  BY <1>7, <1>1 DEF LeaveRun, EngineInv, TypeOK, EndPhases, inputs
<1> QED
  BY <1>2, <1>3, <1>4, <1>5, <1>6, <1>7 DEF Next, Step

\* open_all remembers a section that did not open, and every test that needs it was set
\* aside (engine.py:432-453): nothing asks it again in either pass.
THEOREM DeadSectionsStayDead == Spec => DeadSectionsLeftAlone
<1>1. Init => DeadInv /\ WithinInv
  BY DEF Init, DeadInv, WithinInv
<1>2. EngineInv /\ DeadInv /\ WithinInv /\ [Next]_vars => DeadInv' /\ WithinInv'
  BY DeadStep, WithinStep
<1>3. EngineInv /\ DeadInv /\ WithinInv /\ [Next]_vars =>
        [\A s \in Section : session[s] = "failed" => session'[s] = "failed"]_vars
  BY DeadStep
<1> QED
  BY <1>1, <1>2, <1>3, EngineAlways, PTL DEF Spec, DeadSectionsLeftAlone
=============================================================================
