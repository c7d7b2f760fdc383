--------------------------- MODULE ReconcileGate ---------------------------
(***************************************************************************)
(* What a two-pass reconciliation promises, whatever databases, sessions   *)
(* and adapters do: each test is checked or set aside, no query runs until *)
(* every test has been, one refusal keeps all of them from running, and a  *)
(* result is recorded only for a test that ran.                            *)
(***************************************************************************)
CONSTANT Test

VARIABLES stage,    \* "checking", then "running" if the gate opened, then "over"
          verdict,  \* what the first pass decided about each test
          ran,      \* tests with a query that was sent for execution
          judged    \* tests recorded with a result of a comparison

gateVars == <<stage, verdict, ran, judged>>

Stages == {"checking", "running", "over"}
Verdict == {"pending", "cleared", "refused", "aside"}

Init ==
  /\ stage = "checking"
  /\ verdict \in [Test -> {"pending", "aside"}]
  /\ ran = {} /\ judged = {}

\* Tests the databases cannot be asked about.
SetAside ==
  /\ stage = "checking"
  /\ \E ts \in SUBSET {t \in Test : verdict[t] = "pending"} :
       verdict' = [t \in Test |-> IF t \in ts THEN "aside" ELSE verdict[t]]
  /\ UNCHANGED <<stage, ran, judged>>

Decide(t) ==
  /\ stage = "checking" /\ verdict[t] = "pending"
  /\ \E v \in {"cleared", "refused"} : verdict' = [verdict EXCEPT ![t] = v]
  /\ UNCHANGED <<stage, ran, judged>>

OpenGate ==
  /\ stage = "checking"
  /\ \A t \in Test : verdict[t] \in {"cleared", "aside"}
  /\ stage' = "running"
  /\ UNCHANGED <<verdict, ran, judged>>

Run(t) ==
  /\ stage = "running" /\ verdict[t] = "cleared" /\ t \notin judged
  /\ ran' = ran \cup {t}
  /\ UNCHANGED <<stage, verdict, judged>>

Judge(t) ==
  /\ stage = "running" /\ t \in ran
  /\ judged' = judged \cup {t}
  /\ UNCHANGED <<stage, verdict, ran>>

\* The run may end at any point.
Finish ==
  /\ stage # "over" /\ stage' = "over"
  /\ UNCHANGED <<verdict, ran, judged>>

Next ==
  \/ SetAside \/ OpenGate \/ Finish
  \/ \E t \in Test : Decide(t) \/ Run(t) \/ Judge(t)

Spec == Init /\ [][Next]_gateVars

\* The promise as one invariant: a test that ran was cleared, and so was every
\* test that was not set aside.
GatePromise ==
  /\ judged \subseteq ran
  /\ ran # {} => \A t \in Test : verdict[t] \in {"cleared", "aside"}
  /\ \A t \in ran : verdict[t] = "cleared"
====
