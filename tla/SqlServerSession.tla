-------------------------- MODULE SqlServerSession --------------------------
(***************************************************************************)
(* The SQL Server adapter (database/sqlserver.py) between the engine and   *)
(* one server, a driver call per step.                                     *)
(*                                                                         *)
(* A check compiles a query under SET NOEXEC ON, an option of the very     *)
(* session that later runs the queries, and any driver call may fail: the  *)
(* statement may be refused, run out of time with or without having taken  *)
(* effect on the server, or find the link gone.                            *)
(*                                                                         *)
(* External: the server and pyodbc, as the adapter's error handling takes  *)
(* them to behave.  Abstracted: SQL text, values, timeouts as numbers.     *)
(***************************************************************************)
CONSTANT Query  \* the queries of one section, checked first and run after

VARIABLES
  stage,      \* which pass the engine is in: "checking", "running", "over"
  pc,         \* the driver call the adapter is about to make
  current,    \* the query it is making it for
  held,       \* _connection is not None
  heldBefore, \* and was not when the current call began
  link,       \* "up", or "lost" without the adapter knowing
  noexec,     \* the server session's NOEXEC option
  pending,    \* exception on its way through validate_syntax's finally
  check,      \* what validate_syntax answered for each query
  answer,     \* what execute_scalar answered for each query
  verdict,    \* what the server found when it compiled each query
  executed    \* <<caller, query>> of the statements the server executed

vars == <<stage, pc, current, held, heldBefore, link, noexec, pending, check,
          answer, verdict, executed>>

ghosts == <<verdict, executed>>
server == <<held, link, noexec>>

CheckAnswers == {"none", "compiled", "unavailable", "rejected", "timeout",
                 "unreachable", "other"}
RunAnswers == {"none", "value", "failed", "timeout", "unreachable"}
Calls == {"idle", "connect", "cursor", "switchOn", "compile", "switchOff", "execute"}

\* test_connection has already opened the session when the passes begin.
Init ==
  /\ stage = "checking" /\ pc = "idle" /\ current \in Query
  /\ held = TRUE /\ heldBefore = TRUE /\ link = "up" /\ noexec = FALSE
  /\ pending = "none"
  /\ check = [q \in Query |-> "none"]
  /\ answer = [q \in Query |-> "none"]
  /\ verdict = [q \in Query |-> "none"]
  /\ executed = {}

----------------------------------------------------------------------------
\* The engine's side: one call after the other, and pass 2 only when pass 1
\* failed nothing.

Call(q) ==
  /\ pc = "idle"
  /\ \/ stage = "checking" /\ check[q] = "none"
     \/ stage = "running" /\ answer[q] = "none"
  /\ pc' = "connect" /\ current' = q /\ heldBefore' = held
  /\ UNCHANGED <<stage, server, pending, check, answer, ghosts>>

BeginExecution ==
  /\ stage = "checking" /\ pc = "idle"
  /\ \A q \in Query : check[q] \in {"compiled", "unavailable"}
  /\ stage' = "running"
  /\ UNCHANGED <<pc, current, heldBefore, server, pending, check, answer, ghosts>>

\* close_all, between two calls or because Ctrl-C ended one.
Close ==
  /\ stage # "over" /\ stage' = "over"
  /\ pc' = "idle" /\ held' = FALSE /\ noexec' = FALSE /\ pending' = "none"
  /\ UNCHANGED <<current, heldBefore, link, check, answer, ghosts>>

----------------------------------------------------------------------------
\* What a call ends in.

Raise(exception) ==
  /\ pc' = "idle"
  /\ IF stage = "checking"
       THEN check' = [check EXCEPT ![current] = exception] /\ UNCHANGED answer
       ELSE answer' = [answer EXCEPT ![current] = exception] /\ UNCHANGED check

\* validate_syntax returns, or execute_scalar returns its value.
Return == Raise(IF stage = "checking" THEN "compiled" ELSE "value")

\* connect(): a no-op while a connection is held, however dead.
Connect ==
  /\ pc = "connect"
  /\ \/ held /\ pc' = "cursor" /\ UNCHANGED <<server, check, answer>>
     \/ /\ ~held
        /\ held' = TRUE /\ link' = "up" /\ noexec' = FALSE
        /\ pc' = "cursor" /\ UNCHANGED <<check, answer>>
     \/ ~held /\ Raise("unreachable") /\ UNCHANGED server
  /\ UNCHANGED <<stage, current, heldBefore, pending, ghosts>>

\* connection.timeout and cursor(), outside the adapter's handlers.
Cursor ==
  /\ pc = "cursor"
  /\ \/ /\ pc' = IF stage = "checking" THEN "switchOn" ELSE "execute"
        /\ UNCHANGED <<check, answer>>
     \/ link = "lost" /\ Raise(IF stage = "checking" THEN "other" ELSE "failed")
  /\ UNCHANGED <<stage, current, heldBefore, server, pending, ghosts>>

\* Mutant of SwitchOn: its errors are ignored.
SwitchOnTrying ==
  /\ pc = "switchOn" /\ pc' = "compile"
  /\ noexec' \in IF link = "up" THEN {noexec, TRUE} ELSE {noexec}
  /\ UNCHANGED <<stage, current, held, heldBefore, link, pending, check, answer, ghosts>>

\* SET NOEXEC ON: taken, or an error after which the session is kept although
\* the option may have taken effect.
SwitchOn ==
  /\ pc = "switchOn"
  /\ \/ link = "up" /\ noexec' = TRUE /\ pc' = "compile" /\ UNCHANGED <<check, answer>>
     \/ /\ noexec' \in IF link = "up" THEN {noexec, TRUE} ELSE {noexec}
        /\ Raise("unavailable")
  /\ UNCHANGED <<stage, current, held, heldBefore, link, pending, ghosts>>

\* How _syntax_failure reads an error that did not come from compiling: an
\* SQLSTATE it does not know for a lost link is taken for the server's verdict.
LostLinkErrors == {"unavailable", "timeout", "rejected"}

Compile ==
  /\ pc = "compile"
  /\ \/ /\ link = "up"
        /\ \E found \in {"compiled", "rejected"} :
             /\ verdict' = [verdict EXCEPT ![current] = found]
             /\ pending' = IF found = "rejected" THEN "rejected" ELSE "none"
     \/ link = "up" /\ pending' = "timeout" /\ UNCHANGED verdict
     \/ link = "lost" /\ pending' \in LostLinkErrors /\ UNCHANGED verdict
  /\ executed' = IF link = "up" /\ ~noexec THEN executed \cup {<<"check", current>>}
                 ELSE executed
  /\ pc' = "switchOff"
  /\ UNCHANGED <<stage, current, heldBefore, server, check, answer>>

\* validate_syntax ends as the compilation did.
EndCheck ==
  /\ IF pending = "none" THEN Return ELSE Raise(pending)
  /\ pending' = "none"

SwitchOffConfirmed ==
  /\ pc = "switchOff" /\ link = "up" /\ noexec' = FALSE /\ EndCheck
  /\ UNCHANGED <<stage, current, held, heldBefore, link, ghosts>>

\* Mutants of SwitchOff: it is skipped when the compilation raised; a session
\* that did not confirm it is kept; that session is dropped, but the answer of
\* the compilation stands.
SwitchOffUnlessRaised ==
  \/ pending = "none" /\ SwitchOffConfirmed
  \/ /\ pc = "switchOff" /\ pending # "none" /\ EndCheck
     /\ UNCHANGED <<stage, current, server, heldBefore, ghosts>>

SwitchOffKeepingSession ==
  \/ SwitchOffConfirmed
  \/ /\ pc = "switchOff" /\ EndCheck
     /\ UNCHANGED <<stage, current, server, heldBefore, ghosts>>

SwitchOffKeepingAnswer ==
  \/ SwitchOffConfirmed
  \/ /\ pc = "switchOff" /\ held' = FALSE /\ noexec' = FALSE /\ EndCheck
     /\ UNCHANGED <<stage, current, heldBefore, link, ghosts>>

\* _resume_execution, in the finally: an error closes the session and replaces
\* whatever exception was on its way.
SwitchOff ==
  \/ SwitchOffConfirmed
  \/ /\ pc = "switchOff" /\ held' = FALSE /\ noexec' = FALSE
     /\ Raise("unavailable") /\ pending' = "none"
     /\ UNCHANGED <<stage, current, heldBefore, link, ghosts>>

----------------------------------------------------------------------------
\* Mutant of Scalar: a statement without a result set is read as NULL.
ScalarOrNull == {"value", "failed"}

\* What one executed query gives: its scalar, or not exactly one; a statement
\* the server did not execute has no result set, which is refused too.
Scalar == IF noexec THEN {"failed"} ELSE {"value", "failed"}

Execute ==
  /\ pc = "execute"
  /\ \/ /\ link = "up"
        /\ executed' = IF noexec THEN executed ELSE executed \cup {<<"run", current>>}
        /\ \E a \in Scalar \cup {"timeout"} : Raise(a)
     \/ link = "lost" /\ UNCHANGED executed /\ \E a \in {"failed", "timeout"} : Raise(a)
  /\ UNCHANGED <<stage, current, server, heldBefore, pending, verdict>>

\* The network or the server ends the session; the adapter is not told.
LoseLink ==
  /\ stage # "over" /\ held /\ link = "up" /\ link' = "lost"
  /\ UNCHANGED <<stage, pc, current, held, heldBefore, noexec, pending, check,
                 answer, ghosts>>

Ended == stage = "over" /\ UNCHANGED vars

DriverCall == Connect \/ Cursor \/ SwitchOn \/ Compile \/ SwitchOff \/ Execute
Next == DriverCall \/ BeginExecution \/ Close \/ LoseLink \/ Ended \/ \E q \in Query : Call(q)

Spec == Init /\ [][Next]_vars

----------------------------------------------------------------------------
\* The adapter as an implementation of the engine's QueryExecutor. The session
\* the engine sees changes when the call returns.
EngineSession ==
  IF stage = "over" THEN "closed"
  ELSE IF (IF pc = "idle" THEN held ELSE heldBefore) THEN "open" ELSE "dropped"

Executor == INSTANCE QueryExecutor WITH session <- EngineSession

\* The adapter answers and drops its session only as Engine takes it to
\* (database/base.py, QueryExecutor).
ImplementsQueryExecutor == Executor!Spec

TypeOK ==
  /\ stage \in {"checking", "running", "over"} /\ pc \in Calls /\ current \in Query
  /\ held \in BOOLEAN /\ heldBefore \in BOOLEAN /\ noexec \in BOOLEAN
  /\ link \in {"up", "lost"}
  /\ pending \in {"none", "rejected", "timeout", "unavailable"}
  /\ check \in [Query -> CheckAnswers] /\ answer \in [Query -> RunAnswers]
  /\ verdict \in [Query -> {"none", "compiled", "rejected"}]
  /\ executed \subseteq {"check", "run"} \X Query

\* A syntax check reads no row (validate_syntax: "without executing it").
ChecksExecuteNothing == \A q \in Query : <<"check", q>> \notin executed

\* A value handed to the engine was read by executing the query, in a session
\* that was not left under NOEXEC.
ValuesWereRead == \A q \in Query : answer[q] = "value" => <<"run", q>> \in executed

\* "Compiled" and "rejected" are never invented: whatever fails on the way, an
\* answer about the SQL is the server's own.
VerdictsAreTheServers ==
  \A q \in Query : check[q] \in {"compiled", "rejected"} => check[q] = verdict[q]

\* A live session is left under NOEXEC between two calls only if a check said
\* it was unavailable: a run whose checks all answered can trust its sessions.
\* During pass 1 it is the check just made that said so: the next one either
\* switches the option off, drops the session or says so again.
NoexecIsNeverSilent ==
  pc = "idle" /\ held /\ link = "up" /\ noexec =>
    /\ \E q \in Query : check[q] = "unavailable"
    /\ stage = "checking" => check[current] = "unavailable"
====
