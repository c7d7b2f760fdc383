---------------------------- MODULE OracleSession ----------------------------
(***************************************************************************)
(* The Oracle adapter (database/oracle.py) between the engine and one      *)
(* server, a driver call per step, with the way it reads the driver's      *)
(* errors (database/failures.py).                                          *)
(*                                                                         *)
(* A check parses a query without executing it.  Both kinds of call set    *)
(* the session's call timeout for themselves and put the former one back.  *)
(* Unlike the SQL Server adapter it never drops its connection: a dead one *)
(* is kept until the run closes it.                                        *)
(*                                                                         *)
(* External: the server and python-oracledb, as the adapter's error        *)
(* handling takes them to behave.  Abstracted: SQL text, values, timeouts  *)
(* as numbers, thick mode.                                                 *)
(***************************************************************************)
CONSTANT Query  \* the queries of one section, checked first and run after

VARIABLES
  stage,    \* which pass the engine is in: "checking", "running", "over"
  pc,       \* the driver call the adapter is about to make
  current,  \* the query it is making it for
  parses,   \* this oracledb build offers Cursor.parse
  link,     \* "up", "lost" unnoticed, or "dead" and the driver knows
  timeout,  \* the session's call_timeout: its "own", or that of a "call"
  previous, \* the call_timeout read when the current call began
  pending,  \* how the current call is going to end
  check,    \* what validate_syntax answered for each query
  answer,   \* what execute_scalar answered for each query
  verdict,  \* what the server found when it parsed each query
  expired   \* queries a call timeout cut short

calls == <<pc, current, previous, pending>>
answers == <<check, answer>>
ghosts == <<verdict, expired>>
vars == <<stage, calls, parses, link, timeout, answers, ghosts>>

CheckAnswers == {"none", "compiled", "unavailable", "rejected", "timeout", "other"}
RunAnswers == {"none", "value", "failed", "timeout"}

----------------------------------------------------------------------------
\* failures.py: the driver errors that tell its tables apart.

ServerErrors == {"ORA-00942"}              \* the server's opinion of the SQL
TimeoutErrors == {"DPY-4024", "ORA-01013"} \* a call timeout, the session usable
LinkErrors == {"DPY-4011", "DPY-6005", "ORA-03113"}

\* Mutant of IsTimeout: ORA-01013 is in no table.
IsTimeoutOfDriver(e) == e \in {"DPY-4024", "DPY-4011"}

\* is_timeout_failure: DPY-4011, a closed connection, is one of its codes.
IsTimeout(e) == e \in {"DPY-4024", "DPY-4011", "ORA-01013"}

\* classify_failure: ORA-03113 is in none of its tables.
IsNetwork(e) == e \in {"DPY-4011", "DPY-6005"}

\* _syntax_failure, _execution_failure.
SyntaxFailure(e) ==
  IF IsTimeout(e) THEN "timeout" ELSE IF IsNetwork(e) THEN "unavailable" ELSE "rejected"
ExecutionFailure(e) == IF IsTimeout(e) THEN "timeout" ELSE "failed"

----------------------------------------------------------------------------
\* test_connection has already opened the session when the passes begin.
Init ==
  /\ stage = "checking" /\ pc = "idle" /\ current \in Query
  /\ parses \in BOOLEAN /\ link = "up"
  /\ timeout = "own" /\ previous = "own" /\ pending = "none"
  /\ check = [q \in Query |-> "none"]
  /\ answer = [q \in Query |-> "none"]
  /\ verdict = [q \in Query |-> "none"]
  /\ expired = {}

\* connect() does nothing: the connection is held, however dead.
Call(q) ==
  /\ pc = "idle"
  /\ \/ stage = "checking" /\ check[q] = "none"
     \/ stage = "running" /\ answer[q] = "none"
  /\ pc' = "cursor" /\ current' = q
  /\ UNCHANGED <<stage, previous, pending, parses, link, timeout, answers, ghosts>>

BeginExecution ==
  /\ stage = "checking" /\ pc = "idle"
  /\ \A q \in Query : check[q] \in {"compiled", "unavailable"}
  /\ stage' = "running"
  /\ UNCHANGED <<calls, parses, link, timeout, answers, ghosts>>

\* close, between two calls or because Ctrl-C ended one: no later call is made.
Close ==
  /\ stage # "over" /\ stage' = "over" /\ pc' = "idle" /\ pending' = "none"
  /\ UNCHANGED <<current, previous, parses, link, timeout, answers, ghosts>>

Return(a) ==
  /\ pc' = "idle" /\ pending' = "none"
  /\ IF stage = "checking"
       THEN check' = [check EXCEPT ![current] = a] /\ UNCHANGED answer
       ELSE answer' = [answer EXCEPT ![current] = a] /\ UNCHANGED check

\* Mutant of Cursor: a dead connection is called unreachable, and kept.
CursorUnreachable ==
  /\ pc = "cursor"
  /\ \/ /\ link # "dead" /\ pc' = "limit" /\ previous' = timeout
        /\ UNCHANGED <<pending, answers>>
     \/ link = "dead" /\ Return("unreachable") /\ UNCHANGED previous
  /\ UNCHANGED <<stage, current, parses, link, timeout, ghosts>>

\* call_timeout is read and a cursor made before the try: on a connection the
\* driver knows to be dead the error leaves as it is.
Cursor ==
  /\ pc = "cursor"
  /\ \/ /\ link # "dead" /\ pc' = "limit" /\ previous' = timeout
        /\ UNCHANGED <<pending, answers>>
     \/ /\ link = "dead" /\ Return(IF stage = "checking" THEN "other" ELSE "failed")
        /\ UNCHANGED previous
  /\ UNCHANGED <<stage, current, parses, link, timeout, ghosts>>

\* call_timeout is set; a build without parse() can check nothing.
Limit ==
  /\ pc = "limit" /\ timeout' = "call"
  /\ IF stage = "checking" /\ ~parses
       THEN pc' = "cleanup" /\ pending' = "unavailable"
       ELSE pc' = "ask" /\ UNCHANGED pending
  /\ UNCHANGED <<stage, current, previous, parses, link, answers, ghosts>>

EndsIn(outcome) == pc' = "cleanup" /\ pending' = outcome

Failure(e) == IF stage = "checking" THEN SyntaxFailure(e) ELSE ExecutionFailure(e)

\* parse() or execute(): the server answers,
Answered ==
  /\ pc = "ask" /\ link = "up"
  /\ \/ /\ stage = "checking" /\ EndsIn("compiled")
        /\ verdict' = [verdict EXCEPT ![current] = "compiled"]
     \/ stage = "running" /\ pc' = "fetch" /\ UNCHANGED <<pending, verdict>>
     \/ /\ \E e \in ServerErrors : EndsIn(Failure(e))
        /\ verdict' = IF stage = "checking" THEN [verdict EXCEPT ![current] = "rejected"]
                      ELSE verdict
  /\ UNCHANGED <<stage, current, previous, parses, link, timeout, answers, expired>>

\* or runs out of time, which may cost the session,
Expires ==
  /\ pc = "ask" /\ link = "up" /\ expired' = expired \cup {current}
  /\ \/ \E e \in TimeoutErrors : EndsIn(Failure(e)) /\ UNCHANGED link
     \/ EndsIn(Failure("DPY-4011")) /\ link' = "dead"
  /\ UNCHANGED <<stage, current, previous, parses, timeout, answers, verdict>>

\* or the driver finds the link gone.
FindsLinkLost ==
  /\ pc = "ask" /\ link = "lost" /\ link' = "dead"
  /\ \E e \in LinkErrors : EndsIn(Failure(e))
  /\ UNCHANGED <<stage, current, previous, parses, timeout, answers, ghosts>>

\* One scalar, or not exactly one; an error of fetchmany, a call timeout too,
\* leaves unread.
Fetch ==
  /\ pc = "fetch"
  /\ \/ link = "up" /\ EndsIn("value") /\ UNCHANGED link
     \/ link = "up" /\ EndsIn("failed") /\ link' \in {"up", "dead"}
     \/ link = "lost" /\ EndsIn("failed") /\ link' = "dead"
  /\ UNCHANGED <<stage, current, previous, parses, timeout, answers, ghosts>>

\* Mutant of Restored: the former timeout comes back only from an answered call.
RestoredIfAnswered == IF pending \in {"compiled", "value"} THEN previous ELSE timeout

\* _restore_call_timeout: setting it on a dead connection fails, and is let go.
Restored == IF link = "dead" THEN timeout ELSE previous

\* The finally of both calls.
Cleanup ==
  /\ pc = "cleanup" /\ timeout' = Restored /\ Return(pending)
  /\ UNCHANGED <<stage, current, previous, parses, link, ghosts>>

\* The network or the server ends the session; the driver is not told.
LoseLink ==
  /\ stage # "over" /\ link = "up" /\ link' = "lost"
  /\ UNCHANGED <<stage, calls, parses, timeout, answers, ghosts>>

Ended == stage = "over" /\ UNCHANGED vars

DriverCall ==
  Cursor \/ Limit \/ Answered \/ Expires \/ FindsLinkLost \/ Fetch \/ Cleanup
Next == DriverCall \/ BeginExecution \/ Close \/ LoseLink \/ Ended \/ \E q \in Query : Call(q)

Spec == Init /\ [][Next]_vars

----------------------------------------------------------------------------
Executor == INSTANCE QueryExecutor WITH
  session <- IF stage = "over" THEN "closed" ELSE "open"

\* The adapter answers only as Engine takes an adapter to, and never drops its
\* session (database/base.py, QueryExecutor).
ImplementsQueryExecutor == Executor!Spec

TypeOK ==
  /\ stage \in {"checking", "running", "over"} /\ current \in Query
  /\ pc \in {"idle", "cursor", "limit", "ask", "fetch", "cleanup"}
  /\ parses \in BOOLEAN /\ link \in {"up", "lost", "dead"}
  /\ timeout \in {"own", "call"} /\ previous \in {"own", "call"}
  /\ pending \in CheckAnswers \cup RunAnswers
  /\ check \in [Query -> CheckAnswers] /\ answer \in [Query -> RunAnswers]
  /\ verdict \in [Query -> {"none", "compiled", "rejected"}]
  /\ expired \subseteq Query

\* A live session is never left with the timeout of a call that is over, so
\* neither does a later call take it for the session's own.
TimeoutRestored == pc = "idle" /\ stage # "over" /\ link # "dead" => timeout = "own"

\* Whatever fails on the way: "compiled" is the server's own answer; a query is
\* rejected, or called too slow, only when the server rejected it or it ran out
\* of time, unless the link died.
AnswersAreTheServers ==
  \A q \in Query :
    /\ check[q] = "compiled" => verdict[q] = "compiled"
    /\ check[q] = "rejected" => verdict[q] = "rejected" \/ link = "dead"
    /\ "timeout" \in {check[q], answer[q]} => q \in expired \/ link = "dead"
====
