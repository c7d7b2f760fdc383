---------------------------- MODULE QueryExecutor ----------------------------
(***************************************************************************)
(* What the engine relies on from a database adapter (the QueryExecutor    *)
(* protocol of database/base.py), one whole call per step: which answers a *)
(* call gives and what they leave of the session.  Engine has these steps  *)
(* built in; an adapter's own module shows that the adapter makes no       *)
(* other.                                                                  *)
(***************************************************************************)
CONSTANT Query  \* the queries one session checks, and then runs

VARIABLES stage,    \* "checking", then "running", then "over"
          session,  \* "open", "dropped" by the adapter, "closed"
          check,    \* answer of validate_syntax for each query
          answer    \* answer of execute_scalar for each query

executorVars == <<stage, session, check, answer>>

CheckAnswers == {"none", "compiled", "unavailable", "rejected", "timeout",
                 "unreachable", "other"}
RunAnswers == {"none", "value", "failed", "timeout", "unreachable"}

Init ==
  /\ stage = "checking" /\ session = "open"
  /\ check = [q \in Query |-> "none"]
  /\ answer = [q \in Query |-> "none"]

\* The database was asked, over a session that is open when it has answered.
Decide(q) ==
  /\ session' = "open"
  /\ \E a \in {"compiled", "rejected", "timeout", "other"} :
       check' = [check EXCEPT ![q] = a]

\* Nothing is known about the SQL. Only here may an adapter drop its session.
GiveUp(q) ==
  /\ session' \in {"open", "dropped"}
  /\ check' = [check EXCEPT ![q] = "unavailable"]

\* A session that was not dropped is never found unreachable.
FailToReopen(q) ==
  /\ session = "dropped" /\ UNCHANGED session
  /\ check' = [check EXCEPT ![q] = "unreachable"]

Check(q) ==
  /\ stage = "checking" /\ session # "closed" /\ check[q] = "none"
  /\ Decide(q) \/ GiveUp(q) \/ FailToReopen(q)
  /\ UNCHANGED <<stage, answer>>

Begin ==
  /\ stage = "checking" /\ stage' = "running"
  /\ \A q \in Query : check[q] \in {"compiled", "unavailable"}
  /\ UNCHANGED <<session, check, answer>>

Run(q) ==
  /\ stage = "running" /\ session # "closed" /\ answer[q] = "none"
  /\ \/ /\ session' = "open"
        /\ \E a \in {"value", "failed", "timeout"} : answer' = [answer EXCEPT ![q] = a]
     \/ /\ session = "dropped" /\ UNCHANGED session
        /\ answer' = [answer EXCEPT ![q] = "unreachable"]
  /\ UNCHANGED <<stage, check>>

Close ==
  /\ stage # "over" /\ stage' = "over" /\ session' = "closed"
  /\ UNCHANGED <<check, answer>>

Next == Begin \/ Close \/ \E q \in Query : Check(q) \/ Run(q)

Spec == Init /\ [][Next]_executorVars
====
