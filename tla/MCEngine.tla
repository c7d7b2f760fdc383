------------------------------ MODULE MCEngine ------------------------------
(***************************************************************************)
(* Instances of Engine for TLC: three rows, two sections, so that a run    *)
(* has a row before, at and after the one that fails.                      *)
(***************************************************************************)
EXTENDS Engine

CONSTANTS Src, Tgt

MCSection == {Src, Tgt}

Runs(sides) == [kind |-> "executable", sides |-> sides]
NotRun(kind) == [kind |-> kind, sides |-> <<>>]

MCPlans ==
  {<<Runs(<<Src, Tgt>>), Runs(<<Src>>), Runs(<<Tgt>>)>>,
   <<Runs(<<Tgt>>), NotRun("problem"), Runs(<<Src, Tgt>>)>>,
   <<Runs(<<Src, Tgt>>), Runs(<<Tgt, Tgt>>), NotRun("disabled")>>,
   <<NotRun("problem"), NotRun("disabled"), NotRun("disabled")>>}

\* Every pairing of Continue_On_Test_Error with the mode; the settings that only
\* end a run early, each on its own.
MCControls ==
  {c \in Control :
     \/ c.writeOutput /\ ~c.dryRun /\ ~c.stopOnCritical
     \/ /\ c.continueOnTestError /\ ~c.validateOnly
        /\ <<c.dryRun, c.stopOnCritical, c.writeOutput>> \in
             {<<TRUE, FALSE, TRUE>>, <<FALSE, TRUE, TRUE>>, <<FALSE, FALSE, FALSE>>}}
====
