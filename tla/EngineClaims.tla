---------------------------- MODULE EngineClaims ----------------------------
(***************************************************************************)
(* A statement the repository makes about a run that its code does not     *)
(* keep in every case, checked by a run that expects a counterexample.     *)
(***************************************************************************)
EXTENDS MCEngine

\* engine.py, module docstring: "Failure isolation is per test" and
\* "Continue_On_Test_Error = No is the only thing that stops a run early".  An
\* exception of normalize or compare that is not one of their own ends the whole
\* run after its queries have been executed.
FailuresAreIsolated == executed # {} => after # "failed"
====
