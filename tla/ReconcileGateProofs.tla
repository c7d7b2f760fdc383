------------------------ MODULE ReconcileGateProofs ------------------------
(***************************************************************************)
(* The gate keeps its promise, for any set of tests.                       *)
(***************************************************************************)
EXTENDS ReconcileGate, TLAPS

\* Nothing has run while the tests are being checked, and none is pending or
\* refused while they run.
GateInv ==
  /\ verdict \in [Test -> Verdict]
  /\ stage = "checking" => ran = {}
  /\ stage = "running" => \A t \in Test : verdict[t] \in {"cleared", "aside"}
  /\ ran \subseteq Test
  /\ GatePromise

LEMMA GateInvInit == Init => GateInv
BY DEF Init, GateInv, GatePromise, Verdict

LEMMA GateInvStep == GateInv /\ [Next]_gateVars => GateInv'
<1> SUFFICES ASSUME GateInv, [Next]_gateVars PROVE GateInv'
  OBVIOUS
<1>1. CASE SetAside
  <2>1. PICK ts \in SUBSET {t \in Test : verdict[t] = "pending"} :
          verdict' = [t \in Test |-> IF t \in ts THEN "aside" ELSE verdict[t]]
    BY <1>1 DEF SetAside
  <2>2. /\ stage = "checking" /\ stage' = stage /\ ran = {} /\ ran' = {}
        /\ judged' = judged /\ judged \subseteq ran
    BY <1>1 DEF SetAside, GateInv, GatePromise
  <2>3. verdict' \in [Test -> Verdict]
    BY <2>1 DEF GateInv, Verdict
  <2> QED
    BY <2>2, <2>3 DEF GateInv, GatePromise
<1>2. ASSUME NEW t \in Test, Decide(t) PROVE GateInv'
  <2>1. PICK v \in {"cleared", "refused"} : verdict' = [verdict EXCEPT ![t] = v]
    BY <1>2 DEF Decide
  <2>2. /\ stage = "checking" /\ stage' = stage /\ ran = {} /\ ran' = {}
        /\ judged' = judged /\ judged \subseteq ran
    BY <1>2 DEF Decide, GateInv, GatePromise
  <2>3. verdict' \in [Test -> Verdict]
    BY <2>1 DEF GateInv, Verdict
  <2> QED
    BY <2>2, <2>3 DEF GateInv, GatePromise
<1>3. CASE OpenGate
  BY <1>3 DEF OpenGate, GateInv, GatePromise
<1>4. ASSUME NEW t \in Test, Run(t) PROVE GateInv'
  BY <1>4 DEF Run, GateInv, GatePromise
<1>5. ASSUME NEW t \in Test, Judge(t) PROVE GateInv'
  BY <1>5 DEF Judge, GateInv, GatePromise
<1>6. CASE Finish
  BY <1>6 DEF Finish, GateInv, GatePromise
<1>7. CASE UNCHANGED gateVars
  BY <1>7 DEF gateVars, GateInv, GatePromise
<1> QED
  BY <1>1, <1>2, <1>3, <1>4, <1>5, <1>6, <1>7 DEF Next

\* Whatever implements the gate (the engine does: EngineImplementsGate) runs no
\* test before every test has been cleared or set aside, runs only cleared ones,
\* and judges only what ran.
THEOREM GateKeepsItsPromise == Spec => []GatePromise
<1>1. GateInv => GatePromise
  BY DEF GateInv
<1> QED
  BY GateInvInit, GateInvStep, <1>1, PTL DEF Spec
====
