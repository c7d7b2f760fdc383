-------------------------- MODULE SqlServerProofs --------------------------
(***************************************************************************)
(* What the SQL Server adapter promises, for every set of queries and      *)
(* every way its driver calls can fail: a check executes nothing, the      *)
(* answers are the server's, a session is never left under NOEXEC in       *)
(* silence, and the adapter is one as the engine takes it to be.           *)
(***************************************************************************)
EXTENDS SqlServerSession, TLAPS

SwitchedOn == {"compile", "switchOff"}  \* NOEXEC is on, unless the link is lost

\* The call under way belongs to the pass the engine is in, its query has no
\* answer yet, and past connect() there is a connection.
CallInv ==
  /\ stage = "over" => pc = "idle"
  /\ pc \in {"switchOn"} \cup SwitchedOn => stage = "checking"
  /\ pc = "execute" => stage = "running"
  /\ pc # "switchOff" => pending = "none"
  /\ stage = "checking" /\ pc # "idle" => check[current] = "none"
  /\ stage = "running" /\ pc # "idle" => answer[current] = "none"

HeldInv ==
  /\ pc \notin {"idle", "connect"} => held
  /\ pc = "connect" => (held <=> heldBefore)

\* The option over a live link: on while a query is compiled, and left on in no
\* other session than one whose check said so, in pass 1 the last one made.
NoexecInv ==
  held /\ link = "up" =>
    /\ pc = "compile" => noexec
    /\ noexec /\ pc \notin SwitchedOn => \E q \in Query : check[q] = "unavailable"
    /\ noexec /\ pc = "idle" /\ stage = "checking" => check[current] = "unavailable"

\* What was found by compiling is the server's, over a link that is still up.
PendingInv ==
  pc = "switchOff" /\ link = "up" =>
    /\ pending = "none" => verdict[current] = "compiled"
    /\ pending = "rejected" => verdict[current] = "rejected"

BooleansOK == held \in BOOLEAN /\ heldBefore \in BOOLEAN /\ noexec \in BOOLEAN

ValuesOK ==
  /\ stage \in {"checking", "running", "over"} /\ pc \in Calls /\ current \in Query
  /\ link \in {"up", "lost"}
  /\ pending \in {"none", "rejected", "timeout", "unavailable"}
  /\ check \in [Query -> CheckAnswers] /\ answer \in [Query -> RunAnswers]
  /\ verdict \in [Query -> {"none", "compiled", "rejected"}]
  /\ executed \subseteq {"check", "run"} \X Query

AnswersInv == ChecksExecuteNothing /\ ValuesWereRead /\ VerdictsAreTheServers

SessionInv == ValuesOK /\ CallInv /\ HeldInv /\ NoexecInv /\ PendingInv /\ AnswersInv

LEMMA InitSession == Init => SessionInv /\ BooleansOK
<1> SUFFICES ASSUME Init PROVE SessionInv /\ BooleansOK
  OBVIOUS
<1>1. held = TRUE /\ heldBefore = TRUE /\ noexec = FALSE
  BY DEF Init
<1>2. BooleansOK
  BY <1>1, Zenon DEF BooleansOK
<1>3. ValuesOK
  BY DEF Init, ValuesOK, Calls, CheckAnswers, RunAnswers
<1>4. CallInv /\ PendingInv
  BY DEF Init, CallInv, PendingInv, SwitchedOn
<1>5. HeldInv /\ NoexecInv
  BY <1>1 DEF Init, HeldInv, NoexecInv, SwitchedOn
<1>6. AnswersInv
  BY DEF Init, AnswersInv, ChecksExecuteNothing, ValuesWereRead, VerdictsAreTheServers
<1> QED
  BY <1>2, <1>3, <1>4, <1>5, <1>6 DEF SessionInv

LEMMA BooleansStep == BooleansOK /\ [Next]_vars => BooleansOK'
<1> SUFFICES ASSUME BooleansOK, [Next]_vars PROVE BooleansOK'
  OBVIOUS
<1>1. CASE \/ Cursor \/ Compile \/ Execute \/ BeginExecution \/ LoseLink \/ Ended
           \/ UNCHANGED vars
  <2>1. UNCHANGED <<held, heldBefore, noexec>>
    BY <1>1 DEF Cursor, Compile, Execute, BeginExecution, LoseLink, Ended, vars, server
  <2> QED
    BY <2>1, Zenon DEF BooleansOK
<1>2. CASE Connect
  <2>1. heldBefore' = heldBefore /\ (UNCHANGED server \/ (held' = TRUE /\ noexec' = FALSE))
    BY <1>2, Zenon DEF Connect
  <2> QED
    BY <2>1, Zenon DEF BooleansOK, server
<1>3. CASE SwitchOn
  <2>1. UNCHANGED <<held, heldBefore>> /\ noexec' \in {noexec, TRUE}
    BY <1>3 DEF SwitchOn
  <2> QED
    BY <2>1, Zenon DEF BooleansOK
<1>4. CASE SwitchOff \/ Close
  <2>1. /\ heldBefore' = heldBefore /\ noexec' = FALSE
        /\ held' = held \/ held' = FALSE
    BY <1>4, Zenon DEF SwitchOff, SwitchOffConfirmed, Close
  <2> QED
    BY <2>1, Zenon DEF BooleansOK
<1>5. ASSUME NEW q \in Query, Call(q) PROVE BooleansOK'
  <2>1. heldBefore' = held /\ UNCHANGED <<held, noexec>>
    BY <1>5 DEF Call, server
  <2> QED
    BY <2>1, Zenon DEF BooleansOK
<1> QED
  BY <1>1, <1>2, <1>3, <1>4, <1>5 DEF Next, DriverCall

----------------------------------------------------------------------------
\* Whatever ends a call answers for its query, as its pass allows.
LEMMA RaiseKeepsSession ==
  ASSUME SessionInv, pc # "idle", NEW a, Raise(a), pending' = "none",
         a \in IF stage = "checking" THEN CheckAnswers \ {"none"} ELSE RunAnswers \ {"none"},
         UNCHANGED <<stage, current, verdict>>, link' \in {"up", "lost"},
         a \in {"compiled", "rejected"} => a = verdict[current],
         executed' = executed \/ executed' = executed \cup {<<"run", current>>},
         a = "value" => <<"run", current>> \in executed',
         held' /\ link' = "up" /\ noexec' =>
           \/ stage = "checking" /\ a = "unavailable"
           \/ stage = "running" /\ \E q \in Query : check[q] = "unavailable"
  PROVE  SessionInv'
<1>0. ValuesOK /\ CallInv /\ AnswersInv
  BY DEF SessionInv
<1>1. /\ pc' = "idle" /\ stage \in {"checking", "running"}
      /\ IF stage = "checking"
           THEN check' = [check EXCEPT ![current] = a] /\ answer' = answer
           ELSE answer' = [answer EXCEPT ![current] = a] /\ check' = check
  BY <1>0 DEF Raise, ValuesOK, CallInv
<1>2. ValuesOK'
  BY <1>0, <1>1 DEF ValuesOK, Calls
<1>3. CallInv' /\ HeldInv' /\ PendingInv'
  BY <1>0, <1>1 DEF CallInv, HeldInv, PendingInv, SwitchedOn
<1>4. \A q \in Query : check[q] = "unavailable" => check'[q] = "unavailable"
  BY <1>0, <1>1 DEF ValuesOK, CallInv
<1>5. stage = "checking" /\ a = "unavailable" => check'[current] = "unavailable"
  BY <1>0, <1>1 DEF ValuesOK
<1>6. held' /\ link' = "up" /\ noexec' =>
        /\ \E q \in Query : check'[q] = "unavailable"
        /\ stage' = "checking" => check'[current'] = "unavailable"
  BY <1>0, <1>4, <1>5 DEF ValuesOK
<1>7. NoexecInv'
  BY <1>1, <1>6 DEF NoexecInv, SwitchedOn
<1>8. ChecksExecuteNothing'
  <2> SUFFICES ASSUME NEW q \in Query PROVE <<"check", q>> \notin executed'
    BY DEF ChecksExecuteNothing
  <2>1. <<"check", q>> # <<"run", current>>
    OBVIOUS
  <2>2. <<"check", q>> \notin executed
    BY <1>0 DEF AnswersInv, ChecksExecuteNothing
  <2> QED
    BY <2>1, <2>2
<1>9. ValuesWereRead'
  <2> SUFFICES ASSUME NEW q \in Query, answer'[q] = "value" PROVE <<"run", q>> \in executed'
    BY DEF ValuesWereRead
  <2>1. CASE q = current
    BY <1>0, <1>1, <2>1 DEF ValuesOK, AnswersInv, ValuesWereRead
  <2>2. CASE q # current
    BY <1>0, <1>1, <2>2 DEF ValuesOK, AnswersInv, ValuesWereRead
  <2> QED
    BY <2>1, <2>2
<1>10. VerdictsAreTheServers'
  <2> SUFFICES ASSUME NEW q \in Query, check'[q] \in {"compiled", "rejected"}
      PROVE  check'[q] = verdict'[q]
    BY DEF VerdictsAreTheServers
  <2>1. CASE q = current
    BY <1>0, <1>1, <2>1 DEF ValuesOK, AnswersInv, VerdictsAreTheServers
  <2>2. CASE q # current
    BY <1>0, <1>1, <2>2 DEF ValuesOK, AnswersInv, VerdictsAreTheServers
  <2> QED
    BY <2>1, <2>2
<1> QED
  BY <1>2, <1>3, <1>7, <1>8, <1>9, <1>10 DEF SessionInv, AnswersInv

\* Every other step of a call leaves the answers alone, and what it executes.
LEMMA AdvanceKeepsAnswers ==
  ASSUME AnswersInv, UNCHANGED <<check, answer, executed>>,
         \A q \in Query : check[q] \in {"compiled", "rejected"} => verdict'[q] = verdict[q]
  PROVE  AnswersInv'
BY DEF AnswersInv, ChecksExecuteNothing, ValuesWereRead, VerdictsAreTheServers

LEMMA ConnectKeepsSession == SessionInv /\ Connect => SessionInv'
<1> SUFFICES ASSUME SessionInv, Connect PROVE SessionInv'
  OBVIOUS
<1>0. ValuesOK /\ CallInv /\ HeldInv /\ NoexecInv /\ AnswersInv
  BY DEF SessionInv
<1>1. /\ pc = "connect"
      /\ UNCHANGED <<stage, current, heldBefore, pending, verdict, executed>>
  BY DEF Connect, ghosts
<1>2. CASE held /\ pc' = "cursor" /\ UNCHANGED <<server, check, answer>>
  <2>1. UNCHANGED <<held, link, noexec>>
    BY <1>2 DEF server
  <2>2. ValuesOK' /\ CallInv' /\ PendingInv'
    BY <1>0, <1>1, <1>2, <2>1 DEF ValuesOK, Calls, CallInv, PendingInv, SwitchedOn
  <2>3. HeldInv' /\ NoexecInv'
    BY <1>0, <1>1, <1>2, <2>1 DEF HeldInv, NoexecInv, SwitchedOn
  <2> QED
    BY <1>0, <1>1, <1>2, <2>2, <2>3, AdvanceKeepsAnswers DEF SessionInv
<1>3. CASE /\ held' = TRUE /\ link' = "up" /\ noexec' = FALSE
           /\ pc' = "cursor" /\ UNCHANGED <<check, answer>>
  <2>1. ValuesOK' /\ CallInv' /\ PendingInv'
    BY <1>0, <1>1, <1>3 DEF ValuesOK, Calls, CallInv, PendingInv, SwitchedOn
  <2>2. HeldInv' /\ NoexecInv'
    BY <1>1, <1>3 DEF HeldInv, NoexecInv, SwitchedOn
  <2> QED
    BY <1>0, <1>1, <1>3, <2>1, <2>2, AdvanceKeepsAnswers DEF SessionInv
<1>4. CASE ~held /\ Raise("unreachable") /\ UNCHANGED server
  <2>1. pending' = "none" /\ UNCHANGED <<held, link, noexec>> /\ ~held
    BY <1>0, <1>1, <1>4 DEF CallInv, server
  <2> QED
    BY <1>0, <1>1, <1>4, <2>1, RaiseKeepsSession DEF ValuesOK, CheckAnswers, RunAnswers
<1> QED
  BY <1>2, <1>3, <1>4 DEF Connect

LEMMA CursorKeepsSession == SessionInv /\ Cursor => SessionInv'
<1> SUFFICES ASSUME SessionInv, Cursor PROVE SessionInv'
  OBVIOUS
<1>0. ValuesOK /\ CallInv /\ HeldInv /\ NoexecInv /\ AnswersInv
  BY DEF SessionInv
<1>1. /\ pc = "cursor"
      /\ UNCHANGED <<stage, current, heldBefore, held, link, noexec, pending, verdict, executed>>
  BY DEF Cursor, server, ghosts
<1>2. stage \in {"checking", "running"}
  BY <1>0, <1>1 DEF ValuesOK, CallInv
<1>3. CASE pc' = (IF stage = "checking" THEN "switchOn" ELSE "execute")
           /\ UNCHANGED <<check, answer>>
  <2>1. ValuesOK' /\ CallInv' /\ PendingInv'
    BY <1>0, <1>1, <1>2, <1>3 DEF ValuesOK, Calls, CallInv, PendingInv, SwitchedOn
  <2>2. HeldInv' /\ NoexecInv'
    BY <1>0, <1>1, <1>3 DEF HeldInv, NoexecInv, SwitchedOn
  <2> QED
    BY <1>0, <1>1, <1>3, <2>1, <2>2, AdvanceKeepsAnswers DEF SessionInv
<1>4. CASE link = "lost" /\ Raise(IF stage = "checking" THEN "other" ELSE "failed")
  <2>1. pending' = "none" /\ link' # "up"
    BY <1>0, <1>1, <1>4 DEF CallInv
  <2> QED
    BY <1>0, <1>1, <1>2, <1>4, <2>1, RaiseKeepsSession DEF ValuesOK, CheckAnswers, RunAnswers
<1> QED
  BY <1>3, <1>4 DEF Cursor

LEMMA SwitchOnKeepsSession == SessionInv /\ SwitchOn => SessionInv'
<1> SUFFICES ASSUME SessionInv, SwitchOn PROVE SessionInv'
  OBVIOUS
<1>0. ValuesOK /\ CallInv /\ HeldInv /\ NoexecInv /\ AnswersInv
  BY DEF SessionInv
<1>1. /\ pc = "switchOn" /\ stage = "checking" /\ pending = "none"
      /\ UNCHANGED <<stage, current, heldBefore, held, link, pending, verdict, executed>>
  BY <1>0 DEF SwitchOn, ghosts, CallInv
<1>2. CASE /\ link = "up" /\ noexec' = TRUE /\ pc' = "compile"
           /\ UNCHANGED <<check, answer>>
  <2>1. ValuesOK' /\ CallInv' /\ PendingInv'
    BY <1>0, <1>1, <1>2 DEF ValuesOK, Calls, CallInv, PendingInv, SwitchedOn
  <2>2. HeldInv' /\ NoexecInv'
    BY <1>0, <1>1, <1>2 DEF HeldInv, NoexecInv, SwitchedOn
  <2> QED
    BY <1>0, <1>1, <1>2, <2>1, <2>2, AdvanceKeepsAnswers DEF SessionInv
<1>3. CASE Raise("unavailable")
  BY <1>0, <1>1, <1>3, RaiseKeepsSession DEF ValuesOK, CheckAnswers
<1> QED
  BY <1>2, <1>3 DEF SwitchOn

LEMMA CompileKeepsSession == SessionInv /\ Compile => SessionInv'
<1> SUFFICES ASSUME SessionInv, Compile PROVE SessionInv'
  OBVIOUS
<1>0. ValuesOK /\ CallInv /\ HeldInv /\ NoexecInv /\ AnswersInv
  BY DEF SessionInv
<1>1. /\ pc = "compile" /\ pc' = "switchOff" /\ stage = "checking"
      /\ check[current] = "none" /\ held
      /\ UNCHANGED <<stage, current, heldBefore, held, link, noexec, check, answer>>
  BY <1>0 DEF Compile, server, CallInv, HeldInv, SwitchedOn
<1>2. executed' = executed
  BY <1>0, <1>1 DEF Compile, NoexecInv
<1>3. \/ /\ link = "up"
         /\ \E found \in {"compiled", "rejected"} :
              /\ verdict' = [verdict EXCEPT ![current] = found]
              /\ pending' = IF found = "rejected" THEN "rejected" ELSE "none"
      \/ link = "up" /\ pending' = "timeout" /\ UNCHANGED verdict
      \/ link = "lost" /\ pending' \in LostLinkErrors /\ UNCHANGED verdict
  BY DEF Compile
<1>4. /\ verdict' \in [Query -> {"none", "compiled", "rejected"}]
      /\ \A q \in Query : q # current => verdict'[q] = verdict[q]
      /\ pending' \in {"none", "rejected", "timeout", "unavailable"}
      /\ PendingInv'
  BY <1>0, <1>1, <1>3 DEF ValuesOK, PendingInv, LostLinkErrors
<1>5. ValuesOK' /\ CallInv'
  BY <1>0, <1>1, <1>2, <1>4 DEF ValuesOK, Calls, CallInv, SwitchedOn
<1>6. HeldInv' /\ NoexecInv'
  BY <1>0, <1>1 DEF HeldInv, NoexecInv, SwitchedOn
<1>7. AnswersInv'
  BY <1>0, <1>1, <1>2, <1>4, AdvanceKeepsAnswers
<1> QED
  BY <1>4, <1>5, <1>6, <1>7 DEF SessionInv

LEMMA SwitchOffKeepsSession == SessionInv /\ SwitchOff => SessionInv'
<1> SUFFICES ASSUME SessionInv, SwitchOff PROVE SessionInv'
  OBVIOUS
<1>0. ValuesOK /\ CallInv /\ PendingInv
  BY DEF SessionInv
<1>1. /\ pc = "switchOff" /\ stage = "checking" /\ pending' = "none" /\ noexec' = FALSE
      /\ UNCHANGED <<stage, current, heldBefore, link, verdict, executed>>
  BY <1>0 DEF SwitchOff, SwitchOffConfirmed, EndCheck, ghosts, CallInv, SwitchedOn
<1>2. CASE SwitchOffConfirmed
  <2>1. link = "up" /\ Raise(IF pending = "none" THEN "compiled" ELSE pending)
    BY <1>1, <1>2 DEF SwitchOffConfirmed, EndCheck, Return
  <2> QED
    BY <1>0, <1>1, <2>1, RaiseKeepsSession DEF ValuesOK, CheckAnswers, PendingInv
<1>3. CASE Raise("unavailable")
  BY <1>0, <1>1, <1>3, RaiseKeepsSession DEF ValuesOK, CheckAnswers
<1> QED
  BY <1>2, <1>3 DEF SwitchOff

LEMMA ExecuteKeepsSession == SessionInv /\ Execute => SessionInv'
<1> SUFFICES ASSUME SessionInv, Execute PROVE SessionInv'
  OBVIOUS
<1>0. ValuesOK /\ CallInv /\ HeldInv /\ NoexecInv
  BY DEF SessionInv
<1>1. /\ pc = "execute" /\ stage = "running" /\ pending = "none"
      /\ UNCHANGED <<stage, current, heldBefore, held, link, noexec, pending, verdict>>
  BY <1>0 DEF Execute, server, CallInv
<1>2. held' /\ link' = "up" /\ noexec' => \E q \in Query : check[q] = "unavailable"
  BY <1>0, <1>1 DEF NoexecInv, SwitchedOn
<1>3. PICK a \in {"value", "failed", "timeout"} :
        /\ Raise(a)
        /\ executed' = executed \/ executed' = executed \cup {<<"run", current>>}
        /\ a = "value" => executed' = executed \cup {<<"run", current>>}
  BY DEF Execute, Scalar
<1> QED
  BY <1>0, <1>1, <1>2, <1>3, RaiseKeepsSession DEF ValuesOK, RunAnswers

LEMMA SessionStep == SessionInv /\ [Next]_vars => SessionInv'
<1> SUFFICES ASSUME SessionInv, [Next]_vars PROVE SessionInv'
  OBVIOUS
<1>0. ValuesOK /\ CallInv /\ HeldInv /\ NoexecInv /\ PendingInv /\ AnswersInv
  BY DEF SessionInv
<1>1. CASE UNCHANGED vars
  <2>1. ValuesOK' /\ CallInv' /\ PendingInv'
    BY <1>0, <1>1 DEF vars, ValuesOK, CallInv, PendingInv
  <2>2. HeldInv' /\ NoexecInv' /\ AnswersInv'
    BY <1>0, <1>1 DEF vars, HeldInv, NoexecInv, AnswersInv, ChecksExecuteNothing,
       ValuesWereRead, VerdictsAreTheServers
  <2> QED
    BY <2>1, <2>2 DEF SessionInv
<1>2. CASE DriverCall
  BY <1>2, ConnectKeepsSession, CursorKeepsSession, SwitchOnKeepsSession,
     CompileKeepsSession, SwitchOffKeepsSession, ExecuteKeepsSession DEF DriverCall
<1>3. CASE BeginExecution
  <2>1. /\ stage = "checking" /\ pc = "idle" /\ stage' = "running"
        /\ UNCHANGED <<pc, current, heldBefore, held, link, noexec, pending, check, answer,
                       verdict, executed>>
    BY <1>3 DEF BeginExecution, server, ghosts
  <2>2. ValuesOK' /\ CallInv' /\ PendingInv'
    BY <1>0, <2>1 DEF ValuesOK, CallInv, PendingInv, SwitchedOn
  <2>3. HeldInv' /\ NoexecInv'
    BY <1>0, <2>1 DEF HeldInv, NoexecInv
  <2> QED
    BY <1>0, <2>1, <2>2, <2>3, AdvanceKeepsAnswers DEF SessionInv
<1>4. CASE Close
  <2>1. /\ stage' = "over" /\ pc' = "idle" /\ pending' = "none" /\ held' = FALSE
        /\ UNCHANGED <<current, heldBefore, link, check, answer, verdict, executed>>
    BY <1>4 DEF Close, ghosts
  <2>2. ValuesOK' /\ CallInv' /\ PendingInv'
    BY <1>0, <2>1 DEF ValuesOK, Calls, CallInv, PendingInv, SwitchedOn
  <2>3. HeldInv' /\ NoexecInv'
    BY <2>1 DEF HeldInv, NoexecInv
  <2> QED
    BY <1>0, <2>1, <2>2, <2>3, AdvanceKeepsAnswers DEF SessionInv
<1>5. CASE LoseLink
  <2>1. /\ link' = "lost"
        /\ UNCHANGED <<stage, pc, current, held, heldBefore, noexec, pending, check, answer,
                       verdict, executed>>
    BY <1>5 DEF LoseLink, ghosts
  <2>2. ValuesOK' /\ CallInv' /\ PendingInv'
    BY <1>0, <2>1 DEF ValuesOK, CallInv, PendingInv
  <2>3. HeldInv' /\ NoexecInv'
    BY <1>0, <2>1 DEF HeldInv, NoexecInv
  <2> QED
    BY <1>0, <2>1, <2>2, <2>3, AdvanceKeepsAnswers DEF SessionInv
<1>6. ASSUME NEW q \in Query, Call(q) PROVE SessionInv'
  <2>1. /\ pc = "idle" /\ pc' = "connect" /\ current' = q /\ heldBefore' = held
        /\ \/ stage = "checking" /\ check[q] = "none"
           \/ stage = "running" /\ answer[q] = "none"
        /\ UNCHANGED <<stage, held, link, noexec, pending, check, answer, verdict, executed>>
    BY <1>6 DEF Call, server, ghosts
  <2>2. ValuesOK' /\ CallInv' /\ PendingInv'
    BY <1>0, <2>1 DEF ValuesOK, Calls, CallInv, PendingInv, SwitchedOn
  <2>3. HeldInv'
    BY <2>1 DEF HeldInv
  <2>4. NoexecInv'
    BY <1>0, <2>1 DEF NoexecInv, SwitchedOn
  <2> QED
    BY <1>0, <2>1, <2>2, <2>3, <2>4, AdvanceKeepsAnswers DEF SessionInv
<1> QED
  BY <1>1, <1>2, <1>3, <1>4, <1>5, <1>6 DEF Next, Ended

----------------------------------------------------------------------------
\* The state a SQL Server section keeps during a run (SqlServerExecutor, one answer
\* for each query) is well formed, whatever the driver raises.
THEOREM SqlServerTypes == Spec => []TypeOK
<1>1. BooleansOK /\ SessionInv => TypeOK
  <2> SUFFICES ASSUME BooleansOK, SessionInv PROVE TypeOK
    OBVIOUS
  <2>1. ValuesOK
    BY DEF SessionInv
  <2> QED
    BY <2>1, Zenon DEF ValuesOK, BooleansOK, TypeOK
<1> QED
  BY <1>1, InitSession, SessionStep, BooleansStep, PTL DEF Spec

\* validate_syntax under SET NOEXEC ON: a syntax check executes nothing, whichever of
\* its driver calls fails.
THEOREM SqlServerChecksExecuteNothing == Spec => []ChecksExecuteNothing
<1>1. SessionInv => ChecksExecuteNothing
  BY DEF SessionInv, AnswersInv
<1> QED
  BY <1>1, InitSession, SessionStep, PTL DEF Spec

\* A value execute_scalar returns was read by executing the query.
THEOREM SqlServerValuesWereRead == Spec => []ValuesWereRead
<1>1. SessionInv => ValuesWereRead
  BY DEF SessionInv, AnswersInv
<1> QED
  BY <1>1, InitSession, SessionStep, PTL DEF Spec

\* What _syntax_failure says of a query, the server said of it.
THEOREM SqlServerVerdictsAreTheServers == Spec => []VerdictsAreTheServers
<1>1. SessionInv => VerdictsAreTheServers
  BY DEF SessionInv, AnswersInv
<1> QED
  BY <1>1, InitSession, SessionStep, PTL DEF Spec

\* _resume_execution: no live session is left under NOEXEC between two calls unless
\* some check said it could not be made, during pass 1 the last one made.
THEOREM SqlServerNoexecIsNeverSilent == Spec => []NoexecIsNeverSilent
<1>1. SessionInv => NoexecIsNeverSilent
  BY DEF SessionInv, NoexecInv, SwitchedOn, NoexecIsNeverSilent
<1> QED
  BY <1>1, InitSession, SessionStep, PTL DEF Spec

----------------------------------------------------------------------------
\* The adapter against its promise, step by step.

\* While a call is under way the engine sees the session it found.
SessionSeen == IF pc = "idle" THEN held ELSE heldBefore

LEMMA RaiseIsAnExecutorStep ==
  ASSUME SessionInv, pc # "idle", NEW a, Raise(a), stage' = stage,
         a \in IF stage = "checking" THEN CheckAnswers \ {"none"} ELSE RunAnswers \ {"none"},
         a \notin {"unavailable", "unreachable"} => held',
         a = "unreachable" => ~heldBefore /\ ~held'
  PROVE  Executor!Next
<1>1. /\ stage \in {"checking", "running"} /\ current \in Query /\ pc' = "idle"
      /\ stage = "checking" => check[current] = "none"
      /\ stage = "running" => answer[current] = "none"
  BY DEF SessionInv, ValuesOK, CallInv, Raise
<1>2. EngineSession' = IF held' THEN "open" ELSE "dropped"
  BY <1>1 DEF EngineSession
<1>3. /\ EngineSession # "closed"
      /\ ~heldBefore => EngineSession = "dropped"
  BY <1>1 DEF EngineSession
<1>4. CASE stage = "checking"
  <2>1. check' = [check EXCEPT ![current] = a] /\ answer' = answer
    BY <1>4 DEF Raise
  <2>2. \/ a \in {"compiled", "rejected", "timeout", "other"}
        \/ a = "unavailable" \/ a = "unreachable"
    BY <1>4 DEF CheckAnswers
  <2>3. \/ Executor!Decide(current) \/ Executor!GiveUp(current)
        \/ Executor!FailToReopen(current)
    BY <1>2, <1>3, <2>1, <2>2
       DEF Executor!Decide, Executor!GiveUp, Executor!FailToReopen
  <2>4. Executor!Check(current)
    BY <1>1, <1>3, <1>4, <2>1, <2>3 DEF Executor!Check
  <2> QED
    BY <1>1, <2>4 DEF Executor!Next
<1>5. CASE stage = "running"
  <2>1. answer' = [answer EXCEPT ![current] = a] /\ check' = check
    BY <1>5 DEF Raise
  <2>2. a \in {"value", "failed", "timeout"} \/ a = "unreachable"
    BY <1>5 DEF RunAnswers
  <2>3. Executor!Run(current)
    BY <1>1, <1>2, <1>3, <1>5, <2>1, <2>2 DEF Executor!Run
  <2> QED
    BY <1>1, <2>3 DEF Executor!Next
<1> QED
  BY <1>1, <1>4, <1>5

LEMMA InsideACall ==
  ASSUME UNCHANGED <<stage, check, answer>>, SessionSeen' = SessionSeen
  PROVE  UNCHANGED Executor!executorVars
<1>1. EngineSession = IF stage = "over" THEN "closed" ELSE IF SessionSeen THEN "open" ELSE "dropped"
  BY DEF EngineSession, SessionSeen
<1>2. EngineSession' = IF stage' = "over" THEN "closed" ELSE IF SessionSeen' THEN "open" ELSE "dropped"
  BY DEF EngineSession, SessionSeen
<1> QED
  BY <1>1, <1>2 DEF Executor!executorVars

LEMMA SqlServerSimulates ==
  SessionInv /\ [Next]_vars => [Executor!Next]_(Executor!executorVars)
<1> SUFFICES ASSUME SessionInv, [Next]_vars
    PROVE  Executor!Next \/ UNCHANGED Executor!executorVars
  OBVIOUS
<1>0. ValuesOK /\ CallInv /\ HeldInv
  BY DEF SessionInv
<1>1. CASE LoseLink \/ Ended \/ UNCHANGED vars
  <2>1. UNCHANGED <<stage, pc, held, heldBefore, check, answer>>
    BY <1>1 DEF LoseLink, Ended, vars
  <2> QED
    BY <2>1, InsideACall DEF SessionSeen
<1>2. ASSUME NEW q \in Query, Call(q) PROVE UNCHANGED Executor!executorVars
  <2>1. /\ pc = "idle" /\ pc' = "connect" /\ heldBefore' = held
        /\ UNCHANGED <<stage, check, answer>>
    BY <1>2 DEF Call
  <2> QED
    BY <2>1, InsideACall DEF SessionSeen
<1>3. ASSUME pc # "idle", pc' # "idle", UNCHANGED <<stage, heldBefore, check, answer>>
      PROVE  UNCHANGED Executor!executorVars
  BY <1>3, InsideACall DEF SessionSeen
<1>4. CASE Connect
  <2>1. pc = "connect" /\ UNCHANGED <<stage, heldBefore>>
    BY <1>4 DEF Connect
  <2>2. CASE ~held /\ Raise("unreachable") /\ UNCHANGED server
    <3>1. ~held' /\ ~heldBefore
      BY <1>0, <2>1, <2>2 DEF server, HeldInv
    <3> QED
      BY <1>0, <2>1, <2>2, <3>1, RaiseIsAnExecutorStep
         DEF ValuesOK, CheckAnswers, RunAnswers
  <2>3. CASE pc' = "cursor" /\ UNCHANGED <<check, answer>>
    BY <1>3, <2>1, <2>3
  <2> QED
    BY <1>4, <2>2, <2>3 DEF Connect
<1>5. CASE Cursor
  <2>1. pc = "cursor" /\ UNCHANGED <<stage, heldBefore, held>>
    BY <1>5 DEF Cursor, server
  <2>2. CASE Raise(IF stage = "checking" THEN "other" ELSE "failed")
    BY <1>0, <2>1, <2>2, RaiseIsAnExecutorStep DEF HeldInv, CheckAnswers, RunAnswers
  <2>3. CASE pc' = (IF stage = "checking" THEN "switchOn" ELSE "execute")
             /\ UNCHANGED <<check, answer>>
    BY <1>3, <2>1, <2>3
  <2> QED
    BY <1>5, <2>2, <2>3 DEF Cursor
<1>6. CASE SwitchOn
  <2>1. pc = "switchOn" /\ stage = "checking" /\ UNCHANGED <<stage, heldBefore>>
    BY <1>0, <1>6 DEF SwitchOn, CallInv
  <2>2. CASE Raise("unavailable")
    BY <2>1, <2>2, RaiseIsAnExecutorStep DEF CheckAnswers
  <2>3. CASE pc' = "compile" /\ UNCHANGED <<check, answer>>
    BY <1>3, <2>1, <2>3
  <2> QED
    BY <1>6, <2>2, <2>3 DEF SwitchOn
<1>7. CASE Compile
  BY <1>3, <1>7 DEF Compile
<1>8. CASE SwitchOff
  <2>1. pc = "switchOff" /\ stage = "checking" /\ stage' = stage /\ held
    BY <1>0, <1>8 DEF SwitchOff, SwitchOffConfirmed, CallInv, HeldInv, SwitchedOn
  <2>2. CASE SwitchOffConfirmed
    <3>1. held' /\ Raise(IF pending = "none" THEN "compiled" ELSE pending)
      BY <2>1, <2>2 DEF SwitchOffConfirmed, EndCheck, Return
    <3> QED
      BY <1>0, <2>1, <3>1, RaiseIsAnExecutorStep DEF ValuesOK, CheckAnswers
  <2>3. CASE Raise("unavailable")
    BY <2>1, <2>3, RaiseIsAnExecutorStep DEF CheckAnswers
  <2> QED
    BY <1>8, <2>2, <2>3 DEF SwitchOff
<1>9. CASE Execute
  <2>1. /\ pc = "execute" /\ stage = "running" /\ stage' = stage /\ held' = held /\ held
    BY <1>0, <1>9 DEF Execute, server, CallInv, HeldInv
  <2>2. PICK a \in {"value", "failed", "timeout"} : Raise(a)
    BY <1>9 DEF Execute, Scalar
  <2> QED
    BY <2>1, <2>2, RaiseIsAnExecutorStep DEF RunAnswers
<1>10. CASE BeginExecution
  <2>1. EngineSession' = EngineSession
    BY <1>10 DEF BeginExecution, EngineSession, server
  <2>2. Executor!Begin
    BY <1>10, <2>1 DEF BeginExecution, Executor!Begin
  <2> QED
    BY <2>2 DEF Executor!Next
<1>11. CASE Close
  <2>1. Executor!Close
    BY <1>11 DEF Close, Executor!Close, EngineSession
  <2> QED
    BY <2>1 DEF Executor!Next
<1> QED
  BY <1>1, <1>2, <1>4, <1>5, <1>6, <1>7, <1>8, <1>9, <1>10, <1>11 DEF Next, DriverCall

\* SqlServerExecutor implements the QueryExecutor protocol of database/base.py: it drops
\* its session only with a check that could not be made, and is found unreachable only
\* once it has.
THEOREM SqlServerImplementsQueryExecutor == Spec => ImplementsQueryExecutor
<1>1. Init => Executor!Init
  BY DEF Init, Executor!Init, EngineSession
<1> QED
  BY <1>1, InitSession, SessionStep, SqlServerSimulates,
     PTL DEF Spec, ImplementsQueryExecutor, Executor!Spec
====
