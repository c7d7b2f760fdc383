------------------------------- MODULE Startup -------------------------------
(***************************************************************************)
(* A run up to its first connection: `reconcile run` (cli.py, _cmd_run)    *)
(* reads the profile, finds the workbook, reads it into a plan and then    *)
(* asks about the sections that plan needs; run_reconciliation.py reads    *)
(* the profile, asks about both sides, and then reads the workbook.        *)
(* Composes Asking with Reading.                                           *)
(***************************************************************************)
EXTENDS Reading, Asking

CONSTANT Starts(_, _)  \* the profiles and flags to start a program with, given the workbook

\* run_reconciliation.py has no --non-interactive.
ASSUME StartsAssumption ==
  \A p \in {"plan", "older"}, b \in Books : \A s \in Starts(p, b) :
    /\ s.document \in DocumentType /\ s.flags \in FlagsType
    /\ p = "older" => ~s.flags.unattended

StartupInit == Init /\ AskingInit(Starts(program, book))

-----------------------------------------------------------------------------
\* Where the enabled tests name a section, a test's source before its target.
Names(k, side, s) ==
  LET d == definitions[k]
  IN d.enabled /\ side \in Uses(d.scope) /\ d.section[side] = s
Mentions(s) == {2 * k : k \in {m \in DOMAIN definitions : Names(m, "source", s)}}
                 \cup {2 * k + 1 : k \in {m \in DOMAIN definitions : Names(m, "target", s)}}

\* The known sections they name, in the order in which they are first named.
RequiredSections ==
  IF \E m \in Mentions("target") : \A n \in Mentions("source") : m < n
  THEN <<"target">> \o Optional(Mentions("source") # {}, "source")
  ELSE Optional(Mentions("source") # {}, "source") \o Optional(Mentions("target") # {}, "target")

Begin == ReadProfile(IF program = "plan" THEN "workbook" ELSE "wizard")

Read == stage = "reading" /\ Next

Connect == stage = "reading" /\ program = "plan" /\ pc = "done" /\ BeginSections(RequiredSections)

StartupNext ==
  \/ (Begin \/ ChooseWorkbook \/ Wizard \/ Connect \/ Resolve) /\ UNCHANGED vars
  \/ Read /\ UNCHANGED asking

StartupSpec == StartupInit /\ [][StartupNext]_<<vars, asking>>

-----------------------------------------------------------------------------
\* Properties.

Asked == {log[k].about : k \in DOMAIN log}

\* The profile gives the section a Windows account but no engine, so that no login is
\* announced, and the answer was Oracle, which needs one.
TurnedOracle(s) ==
  /\ s \in DOMAIN settings /\ settings[s].engine = "oracle"
  /\ supplied.section[s].type = "" /\ supplied.section[s].auth = "windows"

\* The totals leave out such a login; of `reconcile run`, the question for the workbook;
\* of the wizard, those for a workbook or a sheet that its profile names and that is not
\* there.  Every question of this run is announced.
Announced ==
  /\ \A s \in DOMAIN settings : ~TurnedOracle(s)
  /\ IF program = "plan" THEN <<"run", "workbook">> \notin Asked
     ELSE "gone" \notin {supplied.workbook, supplied.sheet}

\* Questions announced about a section of `reconcile run` that its answers spared: an
\* Oracle has no certificate and one way to log in, a Windows account no login.
Spared(s) ==
  LET t == supplied.section[s]
  IN (IF t.type = "" /\ settings[s].engine = "oracle" THEN One(t.trust = "") + One(t.auth = "") ELSE 0)
     + (IF t.auth = "" /\ settings[s].auth = "windows" THEN One(~t.user) + 1 ELSE 0)
SparedIn(sections) == LET of(s) == IF s \in sections THEN Spared(s) ELSE 0
                      IN of("source") + of("target")

\* The counter in the prompt (wizard.py:475-523, connections.py:216-246).  No question is
\* asked twice.  Where every question is announced (StartupClaims and README.md
\* have the others), none has a number past its total; the wizard's total only
\* shrinks, the longer path being assumed, until once every answer is in it is what was
\* asked; and the one total of `reconcile run` is what was asked and what the answers
\* spared.
QuestionsAreCounted ==
  /\ \A j, k \in DOMAIN log : log[j].about = log[k].about => j = k
  /\ \A k \in DOMAIN log : Announced => k <= log[k].total
  /\ program = "older" =>
       /\ \A j, k \in DOMAIN log : j < k /\ Announced => log[k].total <= log[j].total
       /\ stage = "reading" /\ Announced => Len(log) = total
  /\ program = "plan" /\ stage = "ready" /\ settings # << >> /\ ~flags.unattended /\ Announced =>
       Len(log) + SparedIn(DOMAIN settings) = total

\* What a run may connect with.  `reconcile run` asks about a section, and has its
\* settings, only after the whole workbook was accepted and if an enabled test
\* queries it; under --non-interactive it asks nothing and types no password.  A
\* password is typed in this run or not used, Windows accounts are for SQL Server,
\* and a certificate is trusted only if the profile or a person said so
\* (connections.py:1-20, wizard.py:1-15).
SettingsAreEarned ==
  /\ program = "plan" =>
       \A s \in DOMAIN settings \cup {q[1] : q \in Asked \ {<<"run", "workbook">>}} :
         /\ pc = "done" /\ ~flags.dry
         /\ \E k \in DOMAIN definitions : LET d == definitions[k]
              IN d.enabled /\ \E x \in Uses(d.scope) : d.section[x] = s
  /\ flags.unattended => log = << >>
  /\ stage # "refused" => \A s \in DOMAIN settings :
       /\ settings[s].auth = "password" <=> <<s, "password">> \in Asked
       /\ settings[s].auth = "windows" => settings[s].engine = "sqlserver"
       /\ settings[s].trust =>
            supplied.section[s].trust = "yes" \/ <<s, "trust">> \in Asked
=============================================================================
