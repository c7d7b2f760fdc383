----------------------------- MODULE RunnerClaims -----------------------------
(***************************************************************************)
(* A statement of the older runner about its gate that the code does not   *)
(* keep in every case, checked by a run that expects a counterexample.     *)
(***************************************************************************)
EXTENDS MCRunner

\* runner.py, run: "A row bound for the wrong engine is not sent to any
\* database, but it no longer stops the rows that are correctly paired."  The
\* misfits are merged into the failures that gate_closed looks at, so under
\* --on-syntax-error stop one of them leaves rows unrun that all compiled.
MisfitsStopOnlyThemselves ==
  (\E k \in DOMAIN results : results[k].status = "NOT_EXECUTED") =>
    failures \cap selected # {}
====
