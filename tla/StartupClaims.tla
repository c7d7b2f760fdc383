---------------------------- MODULE StartupClaims ----------------------------
(***************************************************************************)
(* What the repository says of the counter in its prompts and the code     *)
(* does not keep in every case, checked by a run that expects a            *)
(* counterexample.                                                         *)
(***************************************************************************)
EXTENDS MCStartup

\* "How many questions the run is about to ask, for the `[n/total]` counter"
\* (connections.py:217); "The counter in the prompt shows the current total"
\* (README.md:618).  But `reconcile run` counts its sections as if it had not asked for
\* the workbook before (cli.py:402, connections.py:51), and a number may pass its total,
\* [2/1], with every section's engine known.
NumbersStayWithinTheTotal ==
  program = "plan" =>
    \A k \in DOMAIN log :
      (\A s \in KnownSections : supplied.section[s].type # "") => k <= log[k].total
=============================================================================
