-------------------------------- MODULE Asking --------------------------------
(***************************************************************************)
(* Where connection settings come from: a profile (profile.py), and        *)
(* questions at the keyboard about what it leaves open.  The wizard of     *)
(* run_reconciliation (wizard.py) asks about both sides before anything is *)
(* read; `reconcile run` (cli.py, execution/connections.py) asks for the   *)
(* workbook, reads it, and then about the sections its tests need.  Each   *)
(* question shows its number and how many there will be.                   *)
(*                                                                         *)
(* Abstracted: what is typed, but for the engine, the authentication and   *)
(* the certificate, which decide what is asked next; ports, which are      *)
(* asked for either way; echoes and headings.                              *)
(***************************************************************************)
EXTENDS Integers, Sequences, FiniteSets

Engines == {"sqlserver", "oracle"}
AuthModes == {"windows", "password"}

VARIABLES
  document,  \* the profile; an empty one when none was named
  flags,     \* [workbook, sheet, unattended, dry], the sheet being a schema's
  stage,     \* how far the questions have come
  supplied,  \* what the profile answers: workbook, sheet, and a table per section
  log,       \* questions asked: what about, and the total shown; its place its number
  total,     \* the total a next question will show
  needed,    \* sections to connect to, in order
  settings   \* section -> settings

asking == <<document, flags, stage, supplied, log, total, needed, settings>>

TableType ==
  [type : Engines \cup {""}, given : SUBSET {"server", "port", "database"},
   trust : {"", "yes", "no"}, auth : AuthModes \cup {""}, user : BOOLEAN, client : STRING,
   dir : BOOLEAN]
DocumentType ==
  [flawed : BOOLEAN, workbook : {"", "there", "gone"}, sheet : {"", "there", "gone"},
   named : STRING, source : TableType, target : TableType]
FlagsType ==
  [workbook : {"", "there", "gone"}, sheet : {"", "there", "gone"}, unattended : BOOLEAN,
   dry : BOOLEAN]

AskingInit(starts) ==
  /\ \E s \in starts : document = s.document /\ flags = s.flags
  /\ stage = "profile" /\ supplied = << >> /\ log = << >> /\ total = 15
  /\ needed = << >> /\ settings = << >>

-------------------------------------------------------------------------------
\* The profile.  "" is a key that is absent; a document is flawed if it holds a
\* credential at any depth, a key nobody knows, a version that is not supported or
\* a value of the wrong form.

WrongForEngine(t) ==
  \/ t.auth = "windows" /\ t.type = "oracle"
  \/ (t.client # "" \/ t.dir) /\ t.type = "sqlserver"

TableRefused(t) ==
  \/ t.auth = "windows" /\ t.user
  \/ WrongForEngine(t)
  \/ t.dir /\ t.client # "thick"

\* A target without a type takes the source's, unless it says "windows", which
\* only SQL Server offers.
Inherited(d) ==
  IF d.target.type # "" \/ d.source.type = "" THEN d.target
  ELSE [d.target EXCEPT !.type = IF d.target.auth = "windows" THEN "sqlserver"
                                 ELSE d.source.type]

DocumentRefused(d) ==
  \/ d.flawed
  \/ TableRefused(d.source) \/ TableRefused(d.target)
  \/ d.named \in {"source", "target"}  \* [connections.source] beside [source]
  \/ WrongForEngine(Inherited(d))

\* A schema names the sheet, if the profile does not.
SheetNamed(d) == IF d.sheet = "" THEN flags.sheet ELSE d.sheet

ReadProfile(next) ==
  /\ stage = "profile"
  /\ IF DocumentRefused(document) THEN stage' = "refused" /\ UNCHANGED supplied
     ELSE /\ stage' = next
          /\ supplied' = [workbook |-> document.workbook, sheet |-> SheetNamed(document),
                          section |-> [source |-> document.source,
                                       target |-> Inherited(document)]]
  /\ UNCHANGED <<document, flags, log, total, needed, settings>>

-------------------------------------------------------------------------------
\* Questions.

\* A question is counted when it is first asked, not when an answer is refused.
Ask(asked, questions, shown) ==
  asked \o [k \in DOMAIN questions |-> [about |-> questions[k], total |-> shown]]

\* The input may end at any question.
Onwards(next) == stage' \in IF log' = log THEN {next} ELSE {next, "refused"}

Optional(condition, question) == IF condition THEN <<question>> ELSE << >>

AboutType(s) == Optional(supplied.section[s].type = "", <<s, "type">>)

AboutPlace(s) ==
  LET about(p) == Optional(p \notin supplied.section[s].given, <<s, p>>)
  IN about("server") \o about("port") \o about("database")

AboutTrust(s, engine) ==
  IF engine = "oracle" THEN << >>
  ELSE Optional(supplied.section[s].trust = "", <<s, "trust">>)
       \o Optional(supplied.section[s].auth = "", <<s, "auth">>)

AboutLogin(s, auth) ==
  IF auth = "windows" THEN << >>
  ELSE Optional(~supplied.section[s].user, <<s, "username">>) \o << <<s, "password">> >>

\* What the profile and the keyboard may say between them.
EnginesOf(s) == IF supplied.section[s].type = "" THEN Engines ELSE {supplied.section[s].type}
AuthOf(s, engine) ==
  IF engine = "oracle" THEN {"password"}
  ELSE IF supplied.section[s].auth = "" THEN AuthModes ELSE {supplied.section[s].auth}

\* Mutant of TrustOf: a certificate nobody was asked about is trusted.
TrustUnlessRefused(s, engine) ==
  IF engine = "oracle" THEN {FALSE}
  ELSE IF supplied.section[s].trust # "" THEN {supplied.section[s].trust = "yes"}
  ELSE IF flags.unattended THEN {TRUE} ELSE BOOLEAN

TrustOf(s, engine) ==
  IF engine = "oracle" THEN {FALSE}
  ELSE IF supplied.section[s].trust # "" THEN {supplied.section[s].trust = "yes"}
  ELSE IF flags.unattended THEN {FALSE} ELSE BOOLEAN

Connection(engine, auth, trust) == [engine |-> engine, auth |-> auth, trust |-> trust]

\* ConnectionSettings looks at what it was given only once all of it is there.
SettingsRefused(s, engine) == supplied.section[s].client = "thick" /\ engine # "oracle"

-------------------------------------------------------------------------------
\* How many questions there will be.

One(condition) == IF condition THEN 1 ELSE 0

\* Questions about a section, its type apart, as far as it is known.
Expected(s, engine, auth) ==
  LET t == supplied.section[s]
      mode == IF engine = "oracle" THEN "password"
              ELSE IF auth # "" THEN auth
              ELSE IF t.auth # "" THEN t.auth ELSE "password"
  IN One("server" \notin t.given) + One("port" \notin t.given) + One("database" \notin t.given)
     + (IF engine = "oracle" THEN 0 ELSE One(t.trust = "") + One(t.auth = ""))
     + (IF mode = "windows" THEN 0 ELSE One(~t.user) + 1)

\* The workbook, the sheet and the source's type.
ExpectedFirst ==
  One(supplied.workbook = "") + One(supplied.sheet = "") + One(supplied.section.source.type = "")

\* Mutant of ExpectedTotal: the source's authentication is not looked up again.
ExpectedBeforeAuth(engine, sourceAuth, targetAuth) ==
  ExpectedFirst + Expected("source", engine, "") + Expected("target", "sqlserver", targetAuth)

\* Of the wizard: "" where no answer is known yet.
ExpectedTotal(engine, sourceAuth, targetAuth) ==
  ExpectedFirst + Expected("source", engine, sourceAuth)
    + Expected("target", "sqlserver", targetAuth)

\* Of the sections of a plan.
ExpectedCount(sections) ==
  LET type(s) == supplied.section[s].type
      of(s) == IF \E k \in DOMAIN sections : sections[k] = s
               THEN One(type(s) = "") + Expected(s, type(s), "") ELSE 0
  IN of("source") + of("target")

-------------------------------------------------------------------------------
\* run_wizard.

\* The target it builds is a SQL Server, so a profile that says Oracle is refused.
BeginWizard ==
  /\ stage = "wizard"
  /\ IF supplied.section.target.type = "oracle" THEN stage' = "refused" /\ UNCHANGED total
     ELSE stage' = "book" /\ total' = ExpectedTotal(supplied.section.source.type, "", "")
  /\ UNCHANGED <<document, flags, supplied, log, needed, settings>>

\* A workbook or sheet the profile names and that is not there is asked for after
\* all.  The sheets are listed, which fails if the file is no workbook.
AskBook ==
  /\ stage = "book"
  /\ LET questions == Optional(supplied.workbook # "there", <<"run", "workbook">>)
                      \o Optional(supplied.sheet # "there", <<"run", "sheet">>)
     IN log' = Ask(log, questions, total)
  /\ stage' \in {"source", "refused"}
  /\ UNCHANGED <<document, flags, supplied, total, needed, settings>>

\* The total changes between the engine, the authentication and the login.
AskSource(engine, auth, trust) ==
  /\ stage = "source"
  /\ LET typed == Ask(log, AboutType("source"), total)
         placed == Ask(typed, AboutPlace("source") \o AboutTrust("source", engine),
                       ExpectedTotal(engine, "", ""))
     IN /\ total' = ExpectedTotal(engine, IF engine = "oracle" THEN "" ELSE auth, "")
        /\ log' = Ask(placed, AboutLogin("source", auth), total')
        /\ settings' = [source |-> Connection(engine, auth, trust)]
        /\ needed' = <<"source">>
        /\ Onwards("target")
  /\ UNCHANGED <<document, flags, supplied>>

AskTarget(auth, trust) ==
  /\ stage = "target"
  /\ LET engine == settings.source.engine
         placed == Ask(log, AboutPlace("target") \o AboutTrust("target", "sqlserver"), total)
     IN /\ total' = ExpectedTotal(engine, settings.source.auth, auth)
        /\ log' = Ask(placed, AboutLogin("target", auth), total')
        /\ settings' = [source |-> settings.source, target |-> Connection("sqlserver", auth, trust)]
        /\ needed' = <<"source", "target">>
        /\ IF SettingsRefused("source", engine) THEN stage' = "refused" ELSE Onwards("reading")
  /\ UNCHANGED <<document, flags, supplied>>

Wizard ==
  \/ BeginWizard \/ AskBook
  \/ stage = "source" /\ \E engine \in EnginesOf("source") :
       \E auth \in AuthOf("source", engine), trust \in TrustOf("source", engine) :
         AskSource(engine, auth, trust)
  \/ stage = "target" /\ \E auth \in AuthOf("target", "sqlserver"),
                               trust \in TrustOf("target", "sqlserver") :
       AskTarget(auth, trust)

-------------------------------------------------------------------------------
\* _workbook_path and resolve_section_settings.

\* The flag, then the profile, then a question.  A flag that is wrong is an error.
ChooseWorkbook ==
  /\ stage = "workbook"
  /\ IF "there" \in {flags.workbook, supplied.workbook} /\ flags.workbook # "gone"
     THEN stage' = "reading" /\ UNCHANGED <<log, total>>
     ELSE IF flags.workbook = "gone" \/ flags.unattended
     THEN stage' = "refused" /\ UNCHANGED <<log, total>>
     ELSE total' = 1 /\ log' = Ask(log, << <<"run", "workbook">> >>, 1) /\ Onwards("reading")
  /\ UNCHANGED <<document, flags, supplied, needed, settings>>

\* A dry run connects to nothing, nor does a plan without an executable test.
BeginSections(sections) ==
  /\ stage = "reading"
  /\ needed' = IF flags.dry THEN << >> ELSE sections
  /\ stage' = IF needed' = << >> THEN "ready" ELSE "sections"
  /\ total' = IF flags.unattended \/ needed' = << >> THEN total ELSE ExpectedCount(needed')
  /\ UNCHANGED <<document, flags, supplied, log, settings>>

\* Whatever would have to be asked ends a run that cannot ask; so does a password.
CannotAsk(s, engine, auth) ==
  /\ flags.unattended
  /\ \/ AboutType(s) # << >> \/ supplied.section[s].auth = "" \/ auth = "password"
     \/ ~({"server", "database"} \subseteq supplied.section[s].given)

ResolveSection(engine, auth, trust) ==
  /\ stage = "sections"
  /\ LET s == needed[Cardinality(DOMAIN settings) + 1]
         questions == AboutType(s) \o AboutPlace(s) \o AboutTrust(s, engine) \o AboutLogin(s, auth)
     IN /\ engine \in EnginesOf(s) /\ auth \in AuthOf(s, engine) /\ trust \in TrustOf(s, engine)
        /\ IF CannotAsk(s, engine, auth) THEN stage' = "refused" /\ UNCHANGED <<log, settings>>
           ELSE /\ log' = IF flags.unattended THEN log ELSE Ask(log, questions, total)
                /\ settings' = [x \in DOMAIN settings \cup {s} |->
                                  IF x = s THEN Connection(engine, auth, trust) ELSE settings[x]]
                /\ IF SettingsRefused(s, engine) THEN stage' = "refused"
                   ELSE Onwards(IF DOMAIN settings' = {needed[k] : k \in DOMAIN needed}
                                THEN "ready" ELSE "sections")
  /\ UNCHANGED <<document, flags, supplied, total, needed>>

Resolve ==
  \E engine \in Engines, auth \in AuthModes, trust \in BOOLEAN : ResolveSection(engine, auth, trust)
===============================================================================
