---------------------------- MODULE OracleProofs ----------------------------
(***************************************************************************)
(* What the Oracle adapter promises, for every set of queries and every    *)
(* way its driver calls can fail: its session keeps its own timeout, its   *)
(* answers are the server's, and it is an adapter as the engine takes one  *)
(* to be.                                                                  *)
(***************************************************************************)
EXTENDS OracleSession, TLAPS

\* How failures.py reads an error of each table.
LEMMA ReadingOfErrors ==
  /\ \A e \in ServerErrors :
       Failure(e) = IF stage = "checking" THEN "rejected" ELSE "failed"
  /\ \A e \in TimeoutErrors : Failure(e) = "timeout"
  /\ Failure("DPY-4011") = "timeout"
  /\ \A e \in LinkErrors :
       Failure(e) \in IF stage = "checking" THEN {"timeout", "unavailable", "rejected"}
                      ELSE {"timeout", "failed"}
BY DEF Failure, SyntaxFailure, ExecutionFailure, IsTimeout, IsNetwork, ServerErrors,
   TimeoutErrors, LinkErrors

----------------------------------------------------------------------------
\* The call under way belongs to the pass the engine is in, and its query has no
\* answer yet.
CallInv ==
  /\ stage = "over" => pc = "idle"
  /\ pc = "fetch" => stage = "running"
  /\ pc # "cleanup" => pending = "none"
  /\ pc = "cleanup" =>
       pending \in IF stage = "checking"
                     THEN {"compiled", "rejected", "timeout", "unavailable"}
                     ELSE {"value", "failed", "timeout"}
  /\ stage = "checking" /\ pc # "idle" => check[current] = "none"
  /\ stage = "running" /\ pc # "idle" => answer[current] = "none"

\* Between the reading of the session's timeout and its restoration, `previous`
\* holds it; before and after, the session does.
TimeoutInv ==
  stage # "over" /\ link # "dead" =>
    /\ pc \in {"idle", "cursor", "limit"} => timeout = "own"
    /\ pc \in {"limit", "ask", "fetch", "cleanup"} => previous = "own"

\* The answer on its way is the server's too.
PendingInv ==
  /\ pending = "compiled" => verdict[current] = "compiled"
  /\ pending = "rejected" => verdict[current] = "rejected" \/ link = "dead"
  /\ pending = "timeout" => current \in expired \/ link = "dead"

SessionInv ==
  TypeOK /\ CallInv /\ TimeoutInv /\ PendingInv /\ AnswersAreTheServers

LEMMA InitSession == Init => SessionInv
<1> SUFFICES ASSUME Init PROVE SessionInv
  OBVIOUS
<1>1. TypeOK
  BY DEF Init, TypeOK, CheckAnswers, RunAnswers
<1>2. CallInv /\ TimeoutInv /\ PendingInv
  BY DEF Init, CallInv, TimeoutInv, PendingInv
<1>3. AnswersAreTheServers
  BY DEF Init, AnswersAreTheServers
<1> QED
  BY <1>1, <1>2, <1>3 DEF SessionInv

----------------------------------------------------------------------------
\* The steps of a call between its question and its clean-up, and what every one
\* of them leaves behind.
Asking == Answered \/ Expires \/ FindsLinkLost \/ Fetch

LEMMA AskingEnds ==
  ASSUME TypeOK, CallInv, Asking
  PROVE  /\ pc \in {"ask", "fetch"} /\ link # "dead"
         /\ UNCHANGED <<stage, current, previous, parses, timeout, check, answer>>
         /\ \/ pc' = "fetch" /\ stage = "running" /\ pending' = "none"
            \/ /\ pc' = "cleanup"
               /\ pending' \in IF stage = "checking"
                                 THEN {"compiled", "rejected", "timeout", "unavailable"}
                                 ELSE {"value", "failed", "timeout"}
         /\ link' \in {"up", "dead"}
         /\ verdict' \in [Query -> {"none", "compiled", "rejected"}]
         /\ \A q \in Query : q # current \/ stage = "running" => verdict'[q] = verdict[q]
         /\ expired \subseteq expired' /\ expired' \subseteq Query
         /\ PendingInv'
<1>0. stage \in {"checking", "running"}
  BY DEF TypeOK, CallInv, Asking, Answered, Expires, FindsLinkLost, Fetch
<1>1. CASE Answered
  <2>1. ASSUME stage = "checking", EndsIn("compiled"),
               verdict' = [verdict EXCEPT ![current] = "compiled"]
        PROVE  /\ pc' = "cleanup" /\ pending' = "compiled" /\ verdict'[current] = "compiled"
               /\ verdict' \in [Query -> {"none", "compiled", "rejected"}]
               /\ \A q \in Query : q # current => verdict'[q] = verdict[q]
    BY <2>1 DEF TypeOK, EndsIn
  <2>2. ASSUME NEW e \in ServerErrors, EndsIn(Failure(e)),
               verdict' = IF stage = "checking" THEN [verdict EXCEPT ![current] = "rejected"]
                          ELSE verdict
        PROVE  /\ pc' = "cleanup"
               /\ pending' = IF stage = "checking" THEN "rejected" ELSE "failed"
               /\ stage = "checking" => verdict'[current] = "rejected"
               /\ verdict' \in [Query -> {"none", "compiled", "rejected"}]
               /\ \A q \in Query : q # current \/ stage = "running" => verdict'[q] = verdict[q]
    BY <1>0, <2>2, ReadingOfErrors DEF TypeOK, EndsIn
  <2>3. /\ pc = "ask" /\ link = "up"
        /\ UNCHANGED <<stage, current, previous, parses, link, timeout, check, answer, expired>>
    BY <1>1 DEF Answered, answers
  <2>4. \/ /\ stage = "checking" /\ EndsIn("compiled")
           /\ verdict' = [verdict EXCEPT ![current] = "compiled"]
        \/ stage = "running" /\ pc' = "fetch" /\ UNCHANGED <<pending, verdict>>
        \/ /\ \E e \in ServerErrors : EndsIn(Failure(e))
           /\ verdict' = IF stage = "checking" THEN [verdict EXCEPT ![current] = "rejected"]
                         ELSE verdict
    BY <1>1 DEF Answered
  <2>5. CASE stage = "checking" /\ pc' = "cleanup" /\ pending' = "compiled"
    BY <2>1, <2>2, <2>3, <2>4, <2>5 DEF PendingInv, TypeOK
  <2> QED
    BY <1>0, <2>1, <2>2, <2>3, <2>4 DEF PendingInv, TypeOK, CallInv
<1>2. CASE Expires
  <2>1. /\ pc = "ask" /\ link = "up" /\ expired' = expired \cup {current}
        /\ UNCHANGED <<stage, current, previous, parses, timeout, check, answer, verdict>>
    BY <1>2 DEF Expires, answers
  <2>2. /\ pc' = "cleanup" /\ pending' = "timeout" /\ link' \in {"up", "dead"}
    BY <1>2, ReadingOfErrors DEF Expires, EndsIn
  <2> QED
    BY <1>0, <2>1, <2>2 DEF PendingInv, TypeOK
<1>3. CASE FindsLinkLost
  <2>1. /\ pc = "ask" /\ link = "lost" /\ link' = "dead"
        /\ UNCHANGED <<stage, current, previous, parses, timeout, check, answer,
                       verdict, expired>>
    BY <1>3 DEF FindsLinkLost, answers, ghosts
  <2>2. /\ pc' = "cleanup"
        /\ pending' \in IF stage = "checking" THEN {"timeout", "unavailable", "rejected"}
                        ELSE {"timeout", "failed"}
    BY <1>3, ReadingOfErrors DEF FindsLinkLost, EndsIn
  <2> QED
    BY <1>0, <2>1, <2>2 DEF PendingInv, TypeOK
<1>4. CASE Fetch
  <2>1. /\ pc = "fetch" /\ link # "dead" /\ pc' = "cleanup"
        /\ pending' \in {"value", "failed"} /\ link' \in {"up", "dead"}
        /\ UNCHANGED <<stage, current, previous, parses, timeout, check, answer,
                       verdict, expired>>
    BY <1>4 DEF Fetch, EndsIn, answers, ghosts
  <2> QED
    BY <1>0, <2>1 DEF PendingInv, TypeOK, CallInv
<1> QED
  BY <1>1, <1>2, <1>3, <1>4 DEF Asking

LEMMA AskingKeepsSession ==
  ASSUME SessionInv, Asking
  PROVE  SessionInv'
<1>1. TypeOK /\ CallInv /\ TimeoutInv /\ AnswersAreTheServers
  BY DEF SessionInv
<1> DEFINE Ends ==
      /\ pc \in {"ask", "fetch"} /\ link # "dead"
      /\ UNCHANGED <<stage, current, previous, parses, timeout, check, answer>>
      /\ \/ pc' = "fetch" /\ stage = "running" /\ pending' = "none"
         \/ /\ pc' = "cleanup"
            /\ pending' \in IF stage = "checking"
                              THEN {"compiled", "rejected", "timeout", "unavailable"}
                              ELSE {"value", "failed", "timeout"}
      /\ link' \in {"up", "dead"}
      /\ verdict' \in [Query -> {"none", "compiled", "rejected"}]
      /\ \A q \in Query : q # current \/ stage = "running" => verdict'[q] = verdict[q]
      /\ expired \subseteq expired' /\ expired' \subseteq Query
<1>2. Ends /\ PendingInv'
  BY <1>1, AskingEnds
<1>3. TypeOK'
  BY <1>1, <1>2 DEF TypeOK, CheckAnswers, RunAnswers
<1>4. CallInv'
  BY <1>1, <1>2 DEF CallInv
<1>5. TimeoutInv'
  BY <1>1, <1>2 DEF TimeoutInv, CallInv
<1>6. AnswersAreTheServers'
  <2> SUFFICES ASSUME NEW q \in Query
      PROVE  /\ check'[q] = "compiled" => verdict'[q] = "compiled"
             /\ check'[q] = "rejected" => verdict'[q] = "rejected" \/ link' = "dead"
             /\ "timeout" \in {check'[q], answer'[q]} => q \in expired' \/ link' = "dead"
    BY DEF AnswersAreTheServers
  <2>1. verdict'[q] = verdict[q] \/ check[q] = "none"
    BY <1>1, <1>2 DEF CallInv, TypeOK
  <2> QED
    BY <1>1, <1>2, <2>1 DEF AnswersAreTheServers
<1> QED
  BY <1>2, <1>3, <1>4, <1>5, <1>6 DEF SessionInv

\* A call returns an answer its pass allows, and what it says is the server's.
LEMMA ReturnKeepsSession ==
  ASSUME SessionInv, pc \in {"cursor", "cleanup"}, NEW a, Return(a),
         a \in IF stage = "checking" THEN CheckAnswers \ {"none"} ELSE RunAnswers \ {"none"},
         a = "compiled" => verdict[current] = "compiled",
         a = "rejected" => verdict[current] = "rejected" \/ link = "dead",
         a = "timeout" => current \in expired \/ link = "dead",
         UNCHANGED <<stage, current, parses, link, ghosts>>,
         timeout' \in {"own", "call"}, previous' \in {"own", "call"},
         link # "dead" => timeout' = "own"
  PROVE  SessionInv'
<1>1. TypeOK /\ CallInv /\ AnswersAreTheServers
  BY DEF SessionInv
<1>2. /\ pc' = "idle" /\ pending' = "none"
      /\ UNCHANGED <<stage, current, parses, link, verdict, expired>>
  BY DEF Return, ghosts
<1>3. /\ stage \in {"checking", "running"}
      /\ IF stage = "checking"
           THEN check' = [check EXCEPT ![current] = a] /\ answer' = answer
           ELSE answer' = [answer EXCEPT ![current] = a] /\ check' = check
  BY <1>1 DEF Return, TypeOK, CallInv
<1>4. TypeOK'
  BY <1>1, <1>2, <1>3 DEF TypeOK, CheckAnswers, RunAnswers
<1>5. CallInv' /\ TimeoutInv' /\ PendingInv'
  BY <1>1, <1>2 DEF CallInv, TimeoutInv, PendingInv
<1>6. AnswersAreTheServers'
  <2> SUFFICES ASSUME NEW q \in Query
      PROVE  /\ check'[q] = "compiled" => verdict'[q] = "compiled"
             /\ check'[q] = "rejected" => verdict'[q] = "rejected" \/ link' = "dead"
             /\ "timeout" \in {check'[q], answer'[q]} => q \in expired' \/ link' = "dead"
    BY DEF AnswersAreTheServers
  <2>1. CASE q = current
    BY <1>1, <1>2, <1>3, <2>1 DEF TypeOK, AnswersAreTheServers
  <2>2. CASE q # current
    BY <1>1, <1>2, <1>3, <2>2 DEF TypeOK, AnswersAreTheServers
  <2> QED
    BY <2>1, <2>2
<1> QED
  BY <1>4, <1>5, <1>6 DEF SessionInv

LEMMA SessionStep == SessionInv /\ [Next]_vars => SessionInv'
<1> SUFFICES ASSUME SessionInv, [Next]_vars PROVE SessionInv'
  OBVIOUS
<1>0. TypeOK /\ CallInv /\ TimeoutInv /\ PendingInv /\ AnswersAreTheServers
  BY DEF SessionInv
<1>1. CASE UNCHANGED vars
  BY <1>1, <1>0 DEF vars, calls, answers, ghosts, SessionInv, TypeOK, CallInv, TimeoutInv,
     PendingInv, AnswersAreTheServers
<1>2. CASE Cursor
  <2>1. /\ pc = "cursor"
        /\ UNCHANGED <<stage, current, parses, link, timeout, verdict, expired>>
    BY <1>2 DEF Cursor, ghosts
  <2>2. CASE pc' = "limit" /\ previous' = timeout /\ link # "dead"
             /\ UNCHANGED <<pending, answers>>
    <3>1. check' = check /\ answer' = answer /\ pending' = pending
      BY <2>2 DEF answers
    <3>2. TypeOK' /\ CallInv'
      BY <1>0, <2>1, <2>2, <3>1 DEF TypeOK, CallInv
    <3>3. TimeoutInv' /\ PendingInv' /\ AnswersAreTheServers'
      BY <1>0, <2>1, <2>2, <3>1 DEF TimeoutInv, PendingInv, AnswersAreTheServers
    <3> QED
      BY <3>2, <3>3 DEF SessionInv
  <2>3. CASE /\ link = "dead" /\ previous' = previous
             /\ Return(IF stage = "checking" THEN "other" ELSE "failed")
    BY <1>0, <1>2, <2>1, <2>3, ReturnKeepsSession
       DEF Cursor, TypeOK, CheckAnswers, RunAnswers
  <2> QED
    BY <1>2, <2>2, <2>3 DEF Cursor
<1>3. CASE Limit
  <2>1. /\ pc = "limit" /\ timeout' = "call"
        /\ UNCHANGED <<stage, current, previous, parses, link, check, answer, verdict, expired>>
        /\ \/ stage = "checking" /\ pc' = "cleanup" /\ pending' = "unavailable"
           \/ pc' = "ask" /\ pending' = pending
    BY <1>3 DEF Limit, answers, ghosts
  <2>2. TypeOK' /\ CallInv'
    BY <1>0, <2>1 DEF TypeOK, CallInv, CheckAnswers
  <2>3. TimeoutInv' /\ PendingInv' /\ AnswersAreTheServers'
    BY <1>0, <2>1 DEF TimeoutInv, PendingInv, CallInv, AnswersAreTheServers
  <2> QED
    BY <2>2, <2>3 DEF SessionInv
<1>4. CASE Asking
  BY <1>4, AskingKeepsSession
<1>5. CASE Cleanup
  <2>1. /\ pc = "cleanup" /\ timeout' = IF link = "dead" THEN timeout ELSE previous
        /\ Return(pending) /\ UNCHANGED <<stage, current, previous, parses, link, ghosts>>
    BY <1>5 DEF Cleanup, Restored
  <2>2. pending \in IF stage = "checking" THEN CheckAnswers \ {"none"}
                    ELSE RunAnswers \ {"none"}
    BY <1>0, <2>1 DEF CallInv, CheckAnswers, RunAnswers
  <2>3. /\ timeout' \in {"own", "call"} /\ previous' \in {"own", "call"}
        /\ link # "dead" => timeout' = "own"
    BY <1>0, <2>1 DEF TypeOK, TimeoutInv, CallInv
  <2> QED
    BY <1>0, <2>1, <2>2, <2>3, ReturnKeepsSession DEF PendingInv
<1>6. CASE BeginExecution
  <2>1. /\ stage = "checking" /\ pc = "idle" /\ stage' = "running"
        /\ UNCHANGED <<pc, current, previous, pending, parses, link, timeout, check, answer,
                       verdict, expired>>
    BY <1>6 DEF BeginExecution, calls, answers, ghosts
  <2> QED
    BY <1>0, <2>1 DEF SessionInv, TypeOK, CallInv, TimeoutInv, PendingInv,
       AnswersAreTheServers
<1>7. CASE Close
  <2>1. /\ stage' = "over" /\ pc' = "idle" /\ pending' = "none"
        /\ UNCHANGED <<current, previous, parses, link, timeout, check, answer, verdict, expired>>
    BY <1>7 DEF Close, answers, ghosts
  <2> QED
    BY <1>0, <2>1 DEF SessionInv, TypeOK, CheckAnswers, CallInv, TimeoutInv, PendingInv,
       AnswersAreTheServers
<1>8. CASE LoseLink
  <2>1. /\ link = "up" /\ link' = "lost"
        /\ UNCHANGED <<stage, pc, current, previous, pending, parses, timeout, check, answer,
                       verdict, expired>>
    BY <1>8 DEF LoseLink, calls, answers, ghosts
  <2> QED
    BY <1>0, <2>1 DEF SessionInv, TypeOK, CallInv, TimeoutInv, PendingInv,
       AnswersAreTheServers
<1>9. ASSUME NEW q \in Query, Call(q) PROVE SessionInv'
  <2>1. /\ pc = "idle" /\ pc' = "cursor" /\ current' = q
        /\ \/ stage = "checking" /\ check[q] = "none"
           \/ stage = "running" /\ answer[q] = "none"
        /\ UNCHANGED <<stage, previous, pending, parses, link, timeout, check, answer,
                       verdict, expired>>
    BY <1>9 DEF Call, answers, ghosts
  <2>2. TypeOK' /\ CallInv'
    BY <1>0, <2>1 DEF TypeOK, CallInv
  <2>3. TimeoutInv' /\ PendingInv' /\ AnswersAreTheServers'
    BY <1>0, <2>1 DEF TimeoutInv, PendingInv, CallInv, AnswersAreTheServers
  <2> QED
    BY <2>2, <2>3 DEF SessionInv
<1> QED
  BY <1>1, <1>2, <1>3, <1>4, <1>5, <1>6, <1>7, <1>8, <1>9
     DEF Next, DriverCall, Asking, Ended

----------------------------------------------------------------------------
\* The state an Oracle section keeps during a run (OracleExecutor, one answer for
\* each query) is well formed, whatever the driver raises.
THEOREM OracleTypes == Spec => []TypeOK
<1>1. SessionInv => TypeOK
  BY DEF SessionInv
<1> QED
  BY <1>1, InitSession, SessionStep, PTL DEF Spec

\* _restore_call_timeout, in the finally of both calls, leaves no live session with
\* the timeout of a call that is over.
THEOREM OracleTimeoutRestored == Spec => []TimeoutRestored
<1>1. SessionInv => TimeoutRestored
  BY DEF SessionInv, TimeoutInv, TimeoutRestored
<1> QED
  BY <1>1, InitSession, SessionStep, PTL DEF Spec

\* validate_syntax and execute_scalar say of a query what the server said of it, and
\* call it rejected or too slow otherwise only over a link that died.
THEOREM OracleAnswersAreTheServers == Spec => []AnswersAreTheServers
<1>1. SessionInv => AnswersAreTheServers
  BY DEF SessionInv
<1> QED
  BY <1>1, InitSession, SessionStep, PTL DEF Spec

----------------------------------------------------------------------------
\* The adapter against its promise, step by step.

LEMMA ReturnIsAnExecutorStep ==
  ASSUME SessionInv, pc \in {"cursor", "cleanup"}, NEW a, Return(a),
         a \in IF stage = "checking" THEN CheckAnswers \ {"none"} ELSE RunAnswers \ {"none"},
         stage' = stage
  PROVE  Executor!Next
<1>1. /\ stage \in {"checking", "running"} /\ current \in Query
      /\ stage = "checking" => check[current] = "none"
      /\ stage = "running" => answer[current] = "none"
  BY DEF SessionInv, TypeOK, CallInv
<1>2. CASE stage = "checking"
  <2>1. check' = [check EXCEPT ![current] = a] /\ answer' = answer
    BY <1>2 DEF Return
  <2>2. a \in {"compiled", "rejected", "timeout", "other"} \/ a = "unavailable"
    BY <1>2 DEF CheckAnswers
  <2>3. Executor!Decide(current) \/ Executor!GiveUp(current)
    BY <1>2, <2>1, <2>2 DEF Executor!Decide, Executor!GiveUp
  <2>4. Executor!Check(current)
    BY <1>1, <1>2, <2>1, <2>3 DEF Executor!Check
  <2> QED
    BY <1>1, <2>4 DEF Executor!Next
<1>3. CASE stage = "running"
  <2>1. answer' = [answer EXCEPT ![current] = a] /\ check' = check
    BY <1>3 DEF Return
  <2>2. a \in {"value", "failed", "timeout"}
    BY <1>3 DEF RunAnswers
  <2>3. Executor!Run(current)
    BY <1>1, <1>3, <2>1, <2>2 DEF Executor!Run
  <2> QED
    BY <1>1, <2>3 DEF Executor!Next
<1> QED
  BY <1>1, <1>2, <1>3

LEMMA OracleSimulates ==
  SessionInv /\ [Next]_vars => [Executor!Next]_(Executor!executorVars)
<1> SUFFICES ASSUME SessionInv, [Next]_vars
    PROVE  Executor!Next \/ UNCHANGED <<stage, check, answer>>
  BY DEF Executor!executorVars
<1>0. TypeOK /\ CallInv
  BY DEF SessionInv
<1>1. CASE \/ Limit \/ Asking \/ LoseLink \/ Ended \/ UNCHANGED vars
           \/ \E q \in Query : Call(q)
  BY <1>1 DEF Limit, Asking, Answered, Expires, FindsLinkLost, Fetch, LoseLink, Ended, Call,
     vars, answers
<1>2. CASE Cursor
  BY <1>0, <1>2, ReturnIsAnExecutorStep
     DEF Cursor, TypeOK, CheckAnswers, RunAnswers, answers
<1>3. CASE Cleanup
  <2>1. pending \in IF stage = "checking" THEN CheckAnswers \ {"none"}
                    ELSE RunAnswers \ {"none"}
    BY <1>0, <1>3 DEF Cleanup, CallInv, CheckAnswers, RunAnswers
  <2> QED
    BY <1>3, <2>1, ReturnIsAnExecutorStep DEF Cleanup
<1>4. CASE BeginExecution
  <2>1. Executor!Begin
    BY <1>4 DEF BeginExecution, Executor!Begin, answers
  <2> QED
    BY <2>1 DEF Executor!Next
<1>5. CASE Close
  <2>1. Executor!Close
    BY <1>5 DEF Close, Executor!Close, answers
  <2> QED
    BY <2>1 DEF Executor!Next
<1> QED
  BY <1>1, <1>2, <1>3, <1>4, <1>5 DEF Next, DriverCall, Asking

\* OracleExecutor implements the QueryExecutor protocol of database/base.py: each of
\* its driver calls is a step of the protocol or none, and its session is never
\* dropped under the engine.
THEOREM OracleImplementsQueryExecutor == Spec => ImplementsQueryExecutor
<1>1. Init => Executor!Init
  BY DEF Init, Executor!Init
<1> QED
  BY <1>1, InitSession, SessionStep, OracleSimulates,
     PTL DEF Spec, ImplementsQueryExecutor, Executor!Spec
====
