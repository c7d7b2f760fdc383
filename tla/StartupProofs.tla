---------------------------- MODULE StartupProofs ----------------------------
(***************************************************************************)
(* What a start of either program may rely on, for every workbook, every   *)
(* profile and every answer: how the rows of the sheet become tests, and   *)
(* what settings a run may connect with.                                   *)
(***************************************************************************)
EXTENDS Startup, TLAPS, FiniteSetTheorems, SequenceTheorems

----------------------------------------------------------------------------
\* Lists, whatever they are of.

IsList(list) == \E S : list \in Seq(S)
Elements(list) == {list[k] : k \in DOMAIN list}
Abouts(list) == {list[k].about : k \in DOMAIN list}

LEMMA JoinedLists ==
  ASSUME NEW a, NEW b, IsList(a), IsList(b)
  PROVE  /\ IsList(a \o b) /\ Elements(a \o b) = Elements(a) \cup Elements(b)
         /\ Abouts(a \o b) = Abouts(a) \cup Abouts(b)
<1>1. PICK A : a \in Seq(A)
  BY DEF IsList
<1>2. PICK B : b \in Seq(B)
  BY DEF IsList
<1> DEFINE S == A \cup B
           new == a \o b
<1>3. a \in Seq(S) /\ b \in Seq(S)
  BY <1>1, <1>2, SeqMonotonic
<1> HIDE DEF S
<1>4. /\ new \in Seq(S) /\ Len(new) = Len(a) + Len(b)
      /\ \A i \in 1 .. Len(a) + Len(b) : new[i] = IF i <= Len(a) THEN a[i] ELSE b[i - Len(a)]
  BY <1>3, ConcatProperties, Zenon
<1>5. /\ Len(a) \in Nat /\ DOMAIN a = 1..Len(a) /\ Len(b) \in Nat /\ DOMAIN b = 1..Len(b)
      /\ DOMAIN new = 1..(Len(a) + Len(b))
  <2>1. /\ Len(a) \in Nat /\ DOMAIN a = 1..Len(a) /\ Len(b) \in Nat /\ DOMAIN b = 1..Len(b)
    BY <1>3, LenProperties
  <2>2. DOMAIN new = 1..Len(new)
    BY <1>4, LenProperties
  <2> QED
    BY <1>4, <2>1, <2>2
<1> HIDE DEF new
<1>6. \A k \in DOMAIN a : k \in DOMAIN new /\ new[k] = a[k]
  BY <1>4, <1>5
<1>7. \A k \in DOMAIN b : \E m \in DOMAIN new : new[m] = b[k]
  <2> SUFFICES ASSUME NEW k \in DOMAIN b PROVE \E m \in DOMAIN new : new[m] = b[k]
    OBVIOUS
  <2>1. /\ k + Len(a) \in DOMAIN new /\ ~(k + Len(a) <= Len(a)) /\ (k + Len(a)) - Len(a) = k
    BY <1>5
  <2>2. new[k + Len(a)] = b[k]
    BY <1>4, <1>5, <2>1
  <2> QED
    BY <2>1, <2>2
<1>8. \A k \in DOMAIN new : (\E m \in DOMAIN a : new[k] = a[m]) \/ (\E m \in DOMAIN b : new[k] = b[m])
  <2> SUFFICES ASSUME NEW k \in DOMAIN new
               PROVE  (\E m \in DOMAIN a : new[k] = a[m]) \/ (\E m \in DOMAIN b : new[k] = b[m])
    OBVIOUS
  <2>1. CASE k <= Len(a)
    BY <1>4, <1>5, <2>1
  <2>2. CASE ~(k <= Len(a))
    <3>1. k - Len(a) \in DOMAIN b
      BY <1>5, <2>2
    <3> QED
      BY <1>4, <1>5, <2>2, <3>1
  <2> QED
    BY <2>1, <2>2
<1>9. Elements(new) = Elements(a) \cup Elements(b)
  BY <1>6, <1>7, <1>8 DEF Elements
<1>10. Abouts(new) = Abouts(a) \cup Abouts(b)
  BY <1>6, <1>7, <1>8 DEF Abouts
<1>11. IsList(new)
  BY <1>4 DEF IsList
<1> QED
  BY <1>9, <1>10, <1>11 DEF new

LEMMA ShortLists ==
  /\ IsList(<< >>) /\ Elements(<< >>) = {} /\ Abouts(<< >>) = {}
  /\ \A q : IsList(<<q>>) /\ Elements(<<q>>) = {q}
<1>1. \A q : <<q>> \in Seq({q})
  OBVIOUS
<1>2. << >> \in Seq({})
  BY EmptySeq
<1>3. IsList(<< >>) /\ \A q : IsList(<<q>>)
  <2>1. IsList(<< >>)
    BY <1>2, Zenon DEF IsList
  <2>2. \A q : IsList(<<q>>)
    BY <1>1, Zenon DEF IsList
  <2> QED
    BY <2>1, <2>2
<1>4. Elements(<< >>) = {} /\ Abouts(<< >>) = {}
  BY DEF Elements, Abouts
<1>5. \A q : Elements(<<q>>) = {q}
  BY DEF Elements
<1> QED
  BY <1>3, <1>4, <1>5

LEMMA OptionalList ==
  ASSUME NEW condition, NEW question
  PROVE  /\ IsList(Optional(condition, question))
         /\ Elements(Optional(condition, question)) = IF condition THEN {question} ELSE {}
  BY ShortLists DEF Optional

----------------------------------------------------------------------------
\* Questions.

LEMMA AskedQuestions ==
  ASSUME NEW asked, NEW questions, NEW shown, IsList(asked), IsList(questions)
  PROVE  /\ IsList(Ask(asked, questions, shown))
         /\ Abouts(Ask(asked, questions, shown)) = Abouts(asked) \cup Elements(questions)
<1> DEFINE shownWith(q) == [about |-> q, total |-> shown]
           list == [k \in DOMAIN questions |-> shownWith(questions[k])]
<1>1. PICK Q : questions \in Seq(Q)
  BY DEF IsList
<1>2. Len(questions) \in Nat /\ questions \in [1..Len(questions) -> Q]
  BY <1>1, LenProperties
<1>3. list \in [1..Len(questions) -> {shownWith(q) : q \in Q}]
  BY <1>2
<1>4. IsList(list)
  <2> DEFINE S == {shownWith(q) : q \in Q}
  <2>1. list \in [1..Len(questions) -> S]
    BY <1>3
  <2> HIDE DEF list, S
  <2>2. list \in Seq(S)
    BY <1>2, <2>1, SeqDef
  <2> QED
    BY <2>2 DEF IsList
<1>5. Abouts(list) = Elements(questions)
  BY DEF Abouts, Elements
<1>6. Ask(asked, questions, shown) = asked \o list
  BY DEF Ask
<1> HIDE DEF list
<1> QED
  BY <1>4, <1>5, <1>6, JoinedLists

LEMMA TypeQuestions ==
  ASSUME NEW s
  PROVE  IsList(AboutType(s)) /\ Elements(AboutType(s)) \subseteq {<<s, "type">>}
  BY OptionalList DEF AboutType

LEMMA PlaceQuestions ==
  ASSUME NEW s
  PROVE  /\ IsList(AboutPlace(s))
         /\ Elements(AboutPlace(s)) \subseteq {<<s, "server">>, <<s, "port">>, <<s, "database">>}
<1> DEFINE about(p) == Optional(p \notin supplied.section[s].given, <<s, p>>)
<1>1. \A p : IsList(about(p)) /\ Elements(about(p)) \subseteq {<<s, p>>}
  BY OptionalList
<1>2. AboutPlace(s) = (about("server") \o about("port")) \o about("database")
  BY DEF AboutPlace
<1> HIDE DEF about
<1>3. /\ IsList(about("server") \o about("port"))
      /\ Elements(about("server") \o about("port")) \subseteq {<<s, "server">>, <<s, "port">>}
  BY <1>1, JoinedLists
<1> QED
  BY <1>1, <1>2, <1>3, JoinedLists

\* A certificate may be asked about for SQL Server alone.
LEMMA TrustQuestions ==
  ASSUME NEW s, NEW engine
  PROVE  /\ IsList(AboutTrust(s, engine))
         /\ Elements(AboutTrust(s, engine)) \subseteq {<<s, "trust">>, <<s, "auth">>}
         /\ engine # "oracle" /\ supplied.section[s].trust = "" =>
              <<s, "trust">> \in Elements(AboutTrust(s, engine))
<1>1. CASE engine = "oracle"
  BY <1>1, ShortLists DEF AboutTrust
<1>2. CASE engine # "oracle"
  <2> DEFINE trust == Optional(supplied.section[s].trust = "", <<s, "trust">>)
             login == Optional(supplied.section[s].auth = "", <<s, "auth">>)
  <2>1. /\ IsList(trust) /\ IsList(login) /\ Elements(login) \subseteq {<<s, "auth">>}
        /\ Elements(trust) = IF supplied.section[s].trust = "" THEN {<<s, "trust">>} ELSE {}
    BY OptionalList
  <2>2. AboutTrust(s, engine) = trust \o login
    BY <1>2 DEF AboutTrust
  <2> HIDE DEF trust, login
  <2>3. /\ IsList(trust \o login)
        /\ Elements(trust \o login) = Elements(trust) \cup Elements(login)
    BY <2>1, JoinedLists
  <2> QED
    BY <2>1, <2>2, <2>3
<1> QED
  BY <1>1, <1>2

\* A password is asked for exactly when one is used.
LEMMA LoginQuestions ==
  ASSUME NEW s, NEW auth
  PROVE  /\ IsList(AboutLogin(s, auth))
         /\ Elements(AboutLogin(s, auth)) \subseteq {<<s, "username">>, <<s, "password">>}
         /\ auth # "windows" <=> <<s, "password">> \in Elements(AboutLogin(s, auth))
<1>1. CASE auth = "windows"
  BY <1>1, ShortLists DEF AboutLogin
<1>2. CASE auth # "windows"
  BY <1>2, OptionalList, ShortLists, JoinedLists DEF AboutLogin
<1> QED
  BY <1>1, <1>2

\* All there is to ask about a section, and what of it matters here.
LEMMA SectionQuestions ==
  ASSUME NEW s, NEW engine, NEW auth,
         Asked \cup Elements(AboutPlace(s)) \cup Elements(AboutTrust(s, engine))
           \cup Elements(AboutLogin(s, auth)) \subseteq Asked',
         Asked' \subseteq Asked \cup Elements(AboutType(s)) \cup Elements(AboutPlace(s))
           \cup Elements(AboutTrust(s, engine)) \cup Elements(AboutLogin(s, auth)),
         \A q \in Asked : q[1] # s
  PROVE  /\ Asked \subseteq Asked' /\ \A q \in Asked' \ Asked : q[1] = s
         /\ auth # "windows" <=> <<s, "password">> \in Asked'
         /\ engine # "oracle" /\ supplied.section[s].trust = "" => <<s, "trust">> \in Asked'
<1>1. /\ Elements(AboutType(s)) \subseteq {<<s, "type">>}
      /\ Elements(AboutPlace(s)) \subseteq {<<s, "server">>, <<s, "port">>, <<s, "database">>}
  BY TypeQuestions, PlaceQuestions
<1>2. /\ Elements(AboutTrust(s, engine)) \subseteq {<<s, "trust">>, <<s, "auth">>}
      /\ engine # "oracle" /\ supplied.section[s].trust = "" =>
           <<s, "trust">> \in Elements(AboutTrust(s, engine))
  BY TrustQuestions
<1>3. /\ Elements(AboutLogin(s, auth)) \subseteq {<<s, "username">>, <<s, "password">>}
      /\ auth # "windows" <=> <<s, "password">> \in Elements(AboutLogin(s, auth))
  BY LoginQuestions
<1>4. Asked \subseteq Asked'
  OBVIOUS
<1>5. \A q \in Asked' \ Asked : q[1] = s
  <2>1. /\ \A q \in Elements(AboutType(s)) : q[1] = s
        /\ \A q \in Elements(AboutPlace(s)) : q[1] = s
    BY <1>1
  <2>2. \A q \in Elements(AboutTrust(s, engine)) : q[1] = s
    <3>1. Elements(AboutTrust(s, engine)) \subseteq {<<s, "trust">>, <<s, "auth">>}
      BY <1>2
    <3> QED
      BY <3>1
  <2>3. \A q \in Elements(AboutLogin(s, auth)) : q[1] = s
    BY <1>3
  <2> QED
    BY <2>1, <2>2, <2>3
<1>6. <<s, "password">> \notin Asked
  OBVIOUS
<1>7. <<s, "password">> \in Asked' => <<s, "password">> \in Elements(AboutLogin(s, auth))
  BY <1>1, <1>2, <1>6
<1> QED
  BY <1>2, <1>3, <1>4, <1>5, <1>7

-----------------------------------------------------------------------------
\* The invariant.

Asking == <<vars, asking>>

\* How far each program goes, and what a profile that was read may say.
StageInv ==
  /\ document \in DocumentType /\ flags \in FlagsType
  /\ \/ /\ program = "plan"
        /\ stage \in {"profile", "workbook", "reading", "sections", "ready", "refused"}
     \/ /\ program = "older" /\ ~flags.unattended
        /\ stage \in {"profile", "wizard", "book", "source", "target", "reading", "refused"}
SuppliedInv ==
  stage \notin {"profile", "refused"} =>
    \A s \in KnownSections : /\ supplied.section[s].type \in Engines \cup {""}
                             /\ supplied.section[s].auth \in AuthModes \cup {""}

LogInv ==
  /\ IsList(log)
  /\ flags.unattended => log = << >>
  /\ \A q \in Asked : \/ q[1] \in DOMAIN settings
                      \/ IF program = "plan" THEN q = <<"run", "workbook">> ELSE q[1] = "run"

\* An enabled test queries the section.
Named(s) ==
  \E k \in DOMAIN definitions : LET d == definitions[k]
    IN d.enabled /\ \E x \in Uses(d.scope) : d.section[x] = s
Lists == {<< >>, <<"source">>, <<"target">>, <<"source", "target">>, <<"target", "source">>}

\* The settings of a plan are those of the sections it needs, in their order.
NeededInv ==
  program = "plan" =>
    /\ DOMAIN settings \subseteq {s \in KnownSections : pc = "done" /\ ~flags.dry /\ Named(s)}
    /\ stage \in {"profile", "workbook", "reading"} => settings = << >>
    /\ stage = "sections" =>
         /\ needed \in Lists /\ pc = "done" /\ ~flags.dry
         /\ \A k \in DOMAIN needed : Named(needed[k])
         /\ \/ settings = << >> /\ Len(needed) > 0
            \/ Len(needed) = 2 /\ DOMAIN settings = {needed[1]}

\* The wizard asks about the source and then about the target.
WizardInv ==
  program = "older" =>
    /\ DOMAIN settings \subseteq KnownSections
    /\ stage \in {"profile", "wizard", "book", "source"} => settings = << >>
    /\ stage = "target" => DOMAIN settings = {"source"}

EarnedInv ==
  \A s \in DOMAIN settings :
    /\ settings[s].auth = "password" <=> <<s, "password">> \in Asked
    /\ settings[s].auth = "windows" => settings[s].engine = "sqlserver"
    /\ settings[s].trust => supplied.section[s].trust = "yes" \/ <<s, "trust">> \in Asked

StartInv == StageInv /\ SuppliedInv /\ LogInv /\ NeededInv /\ WizardInv /\ EarnedInv

-----------------------------------------------------------------------------
\* One more section: what it was connected with, and what was asked about it.

LEMMA TrustIsGiven ==
  ASSUME NEW s, NEW engine, NEW trust \in TrustOf(s, engine), trust
  PROVE  /\ engine # "oracle"
         /\ supplied.section[s].trust = "yes" \/ (supplied.section[s].trust = "" /\ ~flags.unattended)
<1>1. CASE engine = "oracle"
  <2>1. TrustOf(s, engine) = {FALSE}
    BY <1>1 DEF TrustOf
  <2> QED
    BY <2>1, Zenon
<1>2. CASE engine # "oracle" /\ supplied.section[s].trust = ""
  <2>1. flags.unattended => TrustOf(s, engine) = {FALSE}
    BY <1>2 DEF TrustOf
  <2> QED
    BY <1>2, <2>1, Zenon
<1>3. CASE engine # "oracle" /\ supplied.section[s].trust # ""
  <2>1. TrustOf(s, engine) = {supplied.section[s].trust = "yes"}
    BY <1>3 DEF TrustOf
  <2> QED
    BY <1>3, <2>1, Zenon
<1> QED
  BY <1>1, <1>2, <1>3

LEMMA LoginsOfEngines ==
  ASSUME SuppliedInv, stage \notin {"profile", "refused"}, NEW s \in KnownSections,
         NEW engine \in Engines, NEW auth \in AuthOf(s, engine)
  PROVE  auth \in AuthModes /\ (auth = "windows" => engine = "sqlserver")
<1>1. supplied.section[s].auth \in AuthModes \cup {""}
  BY DEF SuppliedInv
<1>2. CASE engine = "oracle"
  <2>1. AuthOf(s, engine) = {"password"}
    BY <1>2 DEF AuthOf
  <2> QED
    BY <2>1 DEF AuthModes
<1>3. CASE engine = "sqlserver"
  <2>1. AuthOf(s, engine) = IF supplied.section[s].auth = "" THEN AuthModes
                            ELSE {supplied.section[s].auth}
    BY <1>3 DEF AuthOf
  <2> QED
    BY <1>1, <1>3, <2>1
<1> QED
  BY <1>2, <1>3 DEF Engines

LEMMA AskedBefore ==
  ASSUME LogInv, StageInv, NEW s \in KnownSections \ DOMAIN settings
  PROVE  \A q \in Asked : q[1] # s
  BY DEF LogInv, StageInv, KnownSections

LEMMA SectionEarned ==
  ASSUME EarnedInv, supplied' = supplied, NEW s, s \notin DOMAIN settings,
         NEW engine, NEW auth \in AuthModes, NEW trust,
         DOMAIN settings' = DOMAIN settings \cup {s},
         settings'[s] = Connection(engine, auth, trust),
         \A x \in DOMAIN settings : settings'[x] = settings[x],
         Asked \subseteq Asked', \A q \in Asked' \ Asked : q[1] = s,
         auth # "windows" <=> <<s, "password">> \in Asked',
         auth = "windows" => engine = "sqlserver",
         trust => supplied.section[s].trust = "yes" \/ <<s, "trust">> \in Asked'
  PROVE  EarnedInv'
<1> SUFFICES ASSUME NEW x \in DOMAIN settings'
             PROVE  /\ settings'[x].auth = "password" <=> <<x, "password">> \in Asked'
                    /\ settings'[x].auth = "windows" => settings'[x].engine = "sqlserver"
                    /\ settings'[x].trust =>
                         supplied'.section[x].trust = "yes" \/ <<x, "trust">> \in Asked'
  BY DEF EarnedInv
<1>1. CASE x = s
  <2>1. /\ settings'[x].auth = auth /\ settings'[x].engine = engine /\ settings'[x].trust = trust
    BY <1>1 DEF Connection
  <2>2. auth = "password" <=> auth # "windows"
    BY DEF AuthModes
  <2> QED
    BY <1>1, <2>1, <2>2
<1>2. CASE x # s
  <2>1. x \in DOMAIN settings /\ settings'[x] = settings[x]
    BY <1>2
  <2>2. \A kind : <<x, kind>> \in Asked' <=> <<x, kind>> \in Asked
    <3> SUFFICES ASSUME NEW kind, <<x, kind>> \in Asked' PROVE <<x, kind>> \in Asked
      OBVIOUS
    <3>1. <<x, kind>>[1] = x
      OBVIOUS
    <3> QED
      BY <1>2, <3>1
  <2> QED
    BY <2>1, <2>2 DEF EarnedInv
<1> QED
  BY <1>1, <1>2

-----------------------------------------------------------------------------
\* The steps.

LEMMA StartupInvInit == StartupInit => StartInv
<1> SUFFICES ASSUME StartupInit PROVE StartInv
  OBVIOUS
<1>1. /\ program \in {"plan", "older"} /\ book \in Books
      /\ stage = "profile" /\ log = << >> /\ settings = << >>
  BY DEF StartupInit, Init, AskingInit
<1>2. PICK s \in Starts(program, book) : document = s.document /\ flags = s.flags
  BY DEF StartupInit, AskingInit
<1>3. StageInv
  BY <1>1, <1>2, StartsAssumption DEF StageInv
<1>4. Asked = {} /\ IsList(log) /\ DOMAIN settings = {}
  BY <1>1, ShortLists DEF Asked
<1> QED
  BY <1>1, <1>3, <1>4 DEF StartInv, SuppliedInv, LogInv, NeededInv, WizardInv, EarnedInv

\* Where nothing is asked and no settings are made.
LEMMA StepAside ==
  ASSUME StartInv, UNCHANGED <<log, settings, supplied, flags, program, definitions, pc>>,
         StageInv', NeededInv', WizardInv', SuppliedInv'
  PROVE  StartInv'
<1>1. Asked' = Asked
  BY DEF Asked
<1>2. LogInv'
  BY <1>1 DEF StartInv, LogInv
<1>3. EarnedInv'
  BY <1>1 DEF StartInv, EarnedInv
<1> QED
  BY <1>2, <1>3 DEF StartInv

LEMMA ProfileStep ==
  ASSUME StartInv, Begin, UNCHANGED vars
  PROVE  StartInv'
<1>1. /\ stage = "profile" /\ UNCHANGED <<document, flags, log, total, needed, settings>>
      /\ UNCHANGED <<program, definitions, pc>>
  BY DEF Begin, ReadProfile, vars
<1>2. settings = << >> /\ DOMAIN settings = {}
  BY <1>1 DEF StartInv, StageInv, NeededInv, WizardInv
<1>3. stage' \in {"refused", IF program = "plan" THEN "workbook" ELSE "wizard"}
  BY DEF Begin, ReadProfile
<1>4. StageInv'
  BY <1>1, <1>3 DEF StartInv, StageInv
<1>5. NeededInv' /\ WizardInv'
  BY <1>1, <1>2, <1>3 DEF NeededInv, WizardInv
<1>6. EarnedInv'
  BY <1>1, <1>2 DEF EarnedInv
<1>7. LogInv'
  BY <1>1 DEF StartInv, LogInv, Asked
<1>8. SuppliedInv'
  <2> SUFFICES ASSUME stage' # "refused", NEW s \in KnownSections
               PROVE  /\ supplied'.section[s].type \in Engines \cup {""}
                      /\ supplied'.section[s].auth \in AuthModes \cup {""}
    BY DEF SuppliedInv
  <2>1. document \in DocumentType /\ document.source \in TableType /\ document.target \in TableType
    BY DEF StartInv, StageInv, DocumentType
  <2>2. supplied' = [workbook |-> document.workbook, sheet |-> SheetNamed(document),
                     section |-> [source |-> document.source, target |-> Inherited(document)]]
    BY <1>3 DEF Begin, ReadProfile
  <2>3. /\ Inherited(document).type \in Engines \cup {""}
        /\ Inherited(document).auth \in AuthModes \cup {""}
    BY <2>1 DEF Inherited, TableType, Engines
  <2>4. supplied'.section.source = document.source /\ supplied'.section.target = Inherited(document)
    BY <2>2
  <2>5. CASE s = "source"
    BY <2>1, <2>4, <2>5 DEF TableType
  <2>6. CASE s = "target"
    BY <2>3, <2>4, <2>6
  <2> QED
    BY <2>5, <2>6 DEF KnownSections
<1> QED
  BY <1>4, <1>5, <1>6, <1>7, <1>8 DEF StartInv

LEMMA WorkbookStep ==
  ASSUME StartInv, ChooseWorkbook, UNCHANGED vars
  PROVE  StartInv'
<1>1. /\ stage = "workbook" /\ program = "plan"
      /\ UNCHANGED <<document, flags, supplied, needed, settings, program, definitions, pc>>
  BY DEF ChooseWorkbook, vars, StartInv, StageInv
<1>2. settings = << >> /\ DOMAIN settings = {}
  BY <1>1 DEF StartInv, NeededInv
<1>3. stage' \in {"reading", "refused"}
  BY DEF ChooseWorkbook, Onwards
<1>4. StageInv' /\ SuppliedInv'
  BY <1>1, <1>3 DEF StartInv, StageInv, SuppliedInv
<1>5. NeededInv' /\ WizardInv' /\ EarnedInv'
  BY <1>1, <1>2, <1>3 DEF NeededInv, WizardInv, EarnedInv
<1>6. LogInv'
  <2>1. CASE log' = log
    BY <1>1, <2>1 DEF StartInv, LogInv, Asked
  <2>2. CASE log' = Ask(log, << <<"run", "workbook">> >>, 1) /\ ~flags.unattended
    <3>1. /\ IsList(log')
          /\ Abouts(log') = Abouts(log) \cup Elements(<< <<"run", "workbook">> >>)
      BY <2>2, AskedQuestions, ShortLists DEF StartInv, LogInv
    <3>2. Asked' = Asked \cup {<<"run", "workbook">>}
      BY <3>1, ShortLists DEF Asked, Abouts
    <3> QED
      BY <1>1, <2>2, <3>1, <3>2 DEF StartInv, LogInv
  <2> QED
    BY <2>1, <2>2 DEF ChooseWorkbook
<1> QED
  BY <1>4, <1>5, <1>6 DEF StartInv

LEMMA WizardStep ==
  ASSUME StartInv, BeginWizard, UNCHANGED vars
  PROVE  StartInv'
<1>1. /\ stage = "wizard" /\ program = "older" /\ stage' \in {"refused", "book"}
      /\ UNCHANGED <<document, flags, supplied, log, needed, settings, program, definitions, pc>>
  BY DEF BeginWizard, vars, StartInv, StageInv
<1>2. StageInv' /\ SuppliedInv' /\ NeededInv' /\ WizardInv'
  BY <1>1 DEF StartInv, StageInv, SuppliedInv, NeededInv, WizardInv
<1> QED
  BY <1>1, <1>2, StepAside

LEMMA BookStep ==
  ASSUME StartInv, AskBook, UNCHANGED vars
  PROVE  StartInv'
<1>1. /\ stage = "book" /\ program = "older" /\ ~flags.unattended /\ stage' \in {"refused", "source"}
      /\ UNCHANGED <<document, flags, supplied, needed, settings, program, definitions, pc>>
  BY DEF AskBook, vars, StartInv, StageInv
<1>2. settings = << >> /\ DOMAIN settings = {}
  BY <1>1 DEF StartInv, WizardInv
<1>3. StageInv' /\ SuppliedInv' /\ NeededInv' /\ WizardInv' /\ EarnedInv'
  BY <1>1, <1>2 DEF StartInv, StageInv, SuppliedInv, NeededInv, WizardInv, EarnedInv
<1>4. LogInv'
  <2> DEFINE one == Optional(supplied.workbook # "there", <<"run", "workbook">>)
             two == Optional(supplied.sheet # "there", <<"run", "sheet">>)
  <2>1. /\ IsList(one) /\ Elements(one) \subseteq {<<"run", "workbook">>}
        /\ IsList(two) /\ Elements(two) \subseteq {<<"run", "sheet">>}
    BY OptionalList
  <2>2. log' = Ask(log, one \o two, total)
    BY DEF AskBook
  <2> HIDE DEF one, two
  <2>3. IsList(one \o two) /\ Elements(one \o two) = Elements(one) \cup Elements(two)
    BY <2>1, JoinedLists
  <2>4. IsList(log') /\ Abouts(log') = Abouts(log) \cup Elements(one \o two)
    BY <2>2, <2>3, AskedQuestions DEF StartInv, LogInv
  <2>5. Asked' \subseteq Asked \cup {<<"run", "workbook">>, <<"run", "sheet">>}
    BY <2>1, <2>3, <2>4 DEF Asked, Abouts
  <2>6. \A q \in Asked' : q[1] \in DOMAIN settings \/ q[1] = "run"
    BY <1>1, <2>5 DEF StartInv, LogInv
  <2> QED
    BY <1>1, <2>4, <2>6 DEF LogInv
<1> QED
  BY <1>3, <1>4 DEF StartInv

\* What a section's questions leave behind, whoever asked them.
LEMMA LogGrows ==
  ASSUME LogInv, NEW s, IsList(log'), UNCHANGED <<flags, program>>, ~flags.unattended,
         \A q \in Asked' \ Asked : q[1] = s, DOMAIN settings' = DOMAIN settings \cup {s}
  PROVE  LogInv'
  BY DEF LogInv

LEMMA SourceStep ==
  ASSUME StartInv, NEW engine \in EnginesOf("source"), NEW auth \in AuthOf("source", engine),
         NEW trust \in TrustOf("source", engine), AskSource(engine, auth, trust), UNCHANGED vars
  PROVE  StartInv'
<1>1. /\ stage = "source" /\ program = "older" /\ ~flags.unattended
      /\ stage' \in {"target", "refused"}
      /\ UNCHANGED <<document, flags, supplied, program, definitions, pc>>
      /\ settings' = [source |-> Connection(engine, auth, trust)]
  BY DEF AskSource, Onwards, vars, StartInv, StageInv
<1>2. settings = << >> /\ DOMAIN settings = {}
  BY <1>1 DEF StartInv, WizardInv
<1>3. DOMAIN settings' = {"source"} /\ settings'["source"] = Connection(engine, auth, trust)
  BY <1>1
<1>4. StageInv' /\ SuppliedInv' /\ NeededInv' /\ WizardInv'
  BY <1>1, <1>3 DEF StartInv, StageInv, SuppliedInv, NeededInv, WizardInv, KnownSections
<1>5. /\ engine \in Engines /\ auth \in AuthModes
      /\ auth = "windows" => engine = "sqlserver"
  <2>1. supplied.section["source"].type \in Engines \cup {""}
    BY <1>1 DEF StartInv, SuppliedInv, KnownSections
  <2>2. engine \in Engines
    BY <2>1 DEF EnginesOf
  <2> QED
    BY <1>1, <2>2, LoginsOfEngines DEF StartInv, KnownSections
<1> DEFINE typed == Ask(log, AboutType("source"), total)
           here == AboutPlace("source") \o AboutTrust("source", engine)
           placed == Ask(typed, here, ExpectedTotal(engine, "", ""))
<1>6. log' = Ask(placed, AboutLogin("source", auth), total')
  BY DEF AskSource
<1>7. /\ IsList(log')
      /\ Asked' = Asked \cup Elements(AboutType("source")) \cup Elements(AboutPlace("source"))
            \cup Elements(AboutTrust("source", engine)) \cup Elements(AboutLogin("source", auth))
  <2>1. /\ IsList(typed) /\ Abouts(typed) = Abouts(log) \cup Elements(AboutType("source"))
    BY TypeQuestions, AskedQuestions DEF StartInv, LogInv
  <2>2. /\ IsList(here)
        /\ Elements(here) = Elements(AboutPlace("source")) \cup Elements(AboutTrust("source", engine))
    BY PlaceQuestions, TrustQuestions, JoinedLists
  <2> HIDE DEF typed, here
  <2>3. IsList(placed) /\ Abouts(placed) = Abouts(typed) \cup Elements(here)
    BY <2>1, <2>2, AskedQuestions
  <2> HIDE DEF placed
  <2>4. /\ IsList(log') /\ Abouts(log') = Abouts(placed) \cup Elements(AboutLogin("source", auth))
    BY <1>6, <2>3, LoginQuestions, AskedQuestions
  <2> QED
    BY <2>1, <2>2, <2>3, <2>4 DEF Asked, Abouts
<1>8. \A q \in Asked : q[1] # "source"
  BY <1>2, AskedBefore DEF StartInv, KnownSections
<1>9. /\ Asked \subseteq Asked' /\ \A q \in Asked' \ Asked : q[1] = "source"
      /\ auth # "windows" <=> <<"source", "password">> \in Asked'
      /\ engine # "oracle" /\ supplied.section["source"].trust = "" => <<"source", "trust">> \in Asked'
  BY <1>7, <1>8, SectionQuestions
<1>10. EarnedInv'
  BY <1>1, <1>2, <1>3, <1>5, <1>9, TrustIsGiven, SectionEarned DEF StartInv
<1>11. LogInv'
  BY <1>1, <1>2, <1>3, <1>7, <1>9, LogGrows DEF StartInv
<1> QED
  BY <1>4, <1>10, <1>11 DEF StartInv

LEMMA TargetStep ==
  ASSUME StartInv, NEW auth \in AuthOf("target", "sqlserver"),
         NEW trust \in TrustOf("target", "sqlserver"), AskTarget(auth, trust), UNCHANGED vars
  PROVE  StartInv'
<1> DEFINE given == Connection("sqlserver", auth, trust)
<1>1. /\ stage = "target" /\ program = "older" /\ ~flags.unattended
      /\ stage' \in {"reading", "refused"}
      /\ UNCHANGED <<document, flags, supplied, program, definitions, pc>>
      /\ settings' = [source |-> settings.source, target |-> given]
  BY DEF AskTarget, Onwards, vars, StartInv, StageInv
<1>2. DOMAIN settings = {"source"}
  BY <1>1 DEF StartInv, WizardInv
<1>3. /\ DOMAIN settings' = DOMAIN settings \cup {"target"} /\ settings'["target"] = given
      /\ \A x \in DOMAIN settings : settings'[x] = settings[x]
  <2> HIDE DEF given
  <2> QED
    BY <1>1, <1>2
<1>4. StageInv' /\ SuppliedInv' /\ NeededInv' /\ WizardInv'
  BY <1>1, <1>2, <1>3 DEF StartInv, StageInv, SuppliedInv, NeededInv, WizardInv, KnownSections
<1>5. auth \in AuthModes
  BY <1>1, LoginsOfEngines DEF StartInv, KnownSections, Engines
<1> DEFINE here == AboutPlace("target") \o AboutTrust("target", "sqlserver")
           placed == Ask(log, here, total)
<1>6. log' = Ask(placed, AboutLogin("target", auth), total')
  BY DEF AskTarget
<1>7. /\ IsList(log')
      /\ Asked' = Asked \cup Elements(AboutPlace("target"))
            \cup Elements(AboutTrust("target", "sqlserver")) \cup Elements(AboutLogin("target", auth))
  <2>1. /\ IsList(here)
        /\ Elements(here) = Elements(AboutPlace("target")) \cup Elements(AboutTrust("target", "sqlserver"))
    BY PlaceQuestions, TrustQuestions, JoinedLists
  <2> HIDE DEF here
  <2>2. IsList(placed) /\ Abouts(placed) = Abouts(log) \cup Elements(here)
    BY <2>1, AskedQuestions DEF StartInv, LogInv
  <2> HIDE DEF placed
  <2>3. /\ IsList(log') /\ Abouts(log') = Abouts(placed) \cup Elements(AboutLogin("target", auth))
    BY <1>6, <2>2, LoginQuestions, AskedQuestions
  <2> QED
    BY <2>1, <2>2, <2>3 DEF Asked, Abouts
<1>8. \A q \in Asked : q[1] # "target"
  BY <1>2, AskedBefore DEF StartInv, KnownSections
<1>9. /\ Asked \subseteq Asked' /\ \A q \in Asked' \ Asked : q[1] = "target"
      /\ auth # "windows" <=> <<"target", "password">> \in Asked'
      /\ "sqlserver" # "oracle" /\ supplied.section["target"].trust = "" =>
           <<"target", "trust">> \in Asked'
  BY <1>7, <1>8, SectionQuestions
<1>10. EarnedInv'
  <2>1. trust => supplied.section["target"].trust = "yes" \/ <<"target", "trust">> \in Asked'
    BY <1>1, <1>9, TrustIsGiven
  <2>2. "target" \notin DOMAIN settings
    BY <1>2
  <2>3. settings'["target"] = Connection("sqlserver", auth, trust)
    BY <1>3
  <2> QED
    BY <1>1, <1>3, <1>5, <1>9, <2>1, <2>2, <2>3, SectionEarned DEF StartInv
<1>11. LogInv'
  BY <1>1, <1>3, <1>7, <1>9, LogGrows DEF StartInv
<1> QED
  BY <1>4, <1>10, <1>11 DEF StartInv

-----------------------------------------------------------------------------
\* The sections a plan needs are ones that its enabled tests query.

LEMMA MentionedIsNamed == \A s : Mentions(s) # {} => Named(s)
  BY DEF Mentions, Names, Named

LEMMA TwoInOrder == \A a, b : <<a>> \o <<b>> = <<a, b>>
<1> SUFFICES ASSUME NEW a, NEW b PROVE <<a>> \o <<b>> = <<a, b>>
  OBVIOUS
<1> DEFINE S == {a, b}
           one == <<a>>
           two == <<b>>
           both == <<a, b>>
<1>1. /\ one \in Seq(S) /\ Len(one) = 1 /\ one[1] = a
      /\ two \in Seq(S) /\ Len(two) = 1 /\ two[1] = b
      /\ both \in Seq(S) /\ Len(both) = 2 /\ both[1] = a /\ both[2] = b
  OBVIOUS
<1> HIDE DEF S, one, two, both
<1>2. /\ one \o two \in Seq(S) /\ Len(one \o two) = Len(one) + Len(two)
      /\ \A i \in 1 .. Len(one) + Len(two) :
           (one \o two)[i] = IF i <= Len(one) THEN one[i] ELSE two[i - Len(one)]
  BY <1>1, ConcatProperties
<1>3. Len(one \o two) = Len(both) /\ \A i \in 1 .. Len(one \o two) : (one \o two)[i] = both[i]
  BY <1>1, <1>2
<1>4. one \o two = both
  BY <1>1, <1>2, <1>3, SeqEqual
<1> QED
  BY <1>4 DEF one, two, both

LEMMA RequiredAreNamed ==
  /\ RequiredSections \in Lists
  /\ \A k \in DOMAIN RequiredSections : Named(RequiredSections[k])
<1> DEFINE source == Optional(Mentions("source") # {}, "source")
           target == Optional(Mentions("target") # {}, "target")
<1>1. /\ source \in {<< >>, <<"source">>} /\ (source # << >> => Named("source"))
      /\ target \in {<< >>, <<"target">>} /\ (target # << >> => Named("target"))
  BY MentionedIsNamed DEF Optional
<1>2. CASE \E m \in Mentions("target") : \A n \in Mentions("source") : m < n
  <2>1. RequiredSections = <<"target">> \o source
    BY <1>2 DEF RequiredSections
  <2>2. Named("target")
    BY <1>2, MentionedIsNamed
  <2> HIDE DEF source
  <2>3. CASE source = << >>
    <3>1. RequiredSections = <<"target">>
      BY <2>1, <2>3
    <3> QED
      BY <2>2, <3>1 DEF Lists
  <2>4. CASE source = <<"source">>
    <3>1. RequiredSections = <<"target", "source">>
      BY <2>1, <2>4, TwoInOrder
    <3> QED
      BY <1>1, <2>2, <2>4, <3>1 DEF Lists
  <2> QED
    BY <1>1, <2>3, <2>4
<1>3. CASE ~\E m \in Mentions("target") : \A n \in Mentions("source") : m < n
  <2>1. RequiredSections = source \o target
    BY <1>3 DEF RequiredSections
  <2> HIDE DEF source, target
  <2>2. CASE source = << >> /\ target = << >>
    <3>1. RequiredSections = << >>
      BY <2>1, <2>2
    <3> QED
      BY <3>1 DEF Lists
  <2>3. CASE source = <<"source">> /\ target = << >>
    <3>1. RequiredSections = <<"source">>
      BY <2>1, <2>3
    <3> QED
      BY <1>1, <2>3, <3>1 DEF Lists
  <2>4. CASE source = << >> /\ target = <<"target">>
    <3>1. RequiredSections = <<"target">>
      BY <2>1, <2>4
    <3> QED
      BY <1>1, <2>4, <3>1 DEF Lists
  <2>5. CASE source = <<"source">> /\ target = <<"target">>
    <3>1. RequiredSections = <<"source", "target">>
      BY <2>1, <2>5, TwoInOrder
    <3> QED
      BY <1>1, <2>5, <3>1 DEF Lists
  <2> QED
    BY <1>1, <2>2, <2>3, <2>4, <2>5
<1> QED
  BY <1>2, <1>3

LEMMA ConnectStep ==
  ASSUME StartInv, Connect, UNCHANGED vars
  PROVE  StartInv'
<1>1. /\ stage = "reading" /\ program = "plan" /\ pc = "done" /\ stage' \in {"ready", "sections"}
      /\ UNCHANGED <<document, flags, supplied, log, settings, program, definitions, pc>>
      /\ needed' = IF flags.dry THEN << >> ELSE RequiredSections
      /\ stage' = "sections" => needed' # << >>
  BY DEF Connect, BeginSections, vars
<1>2. settings = << >> /\ DOMAIN settings = {}
  BY <1>1 DEF StartInv, NeededInv
<1>3. StageInv' /\ SuppliedInv' /\ WizardInv'
  BY <1>1 DEF StartInv, StageInv, SuppliedInv, WizardInv
<1>4. \A s : Named(s) => Named(s)'
  BY <1>1 DEF Named
<1>5. stage' = "sections" =>
        /\ needed' \in Lists /\ ~flags.dry /\ Len(needed') > 0
        /\ \A k \in DOMAIN needed' : Named(needed'[k])
  <2> SUFFICES ASSUME stage' = "sections"
               PROVE  /\ needed' \in Lists /\ ~flags.dry /\ Len(needed') > 0
                      /\ \A k \in DOMAIN needed' : Named(needed'[k])
    OBVIOUS
  <2>1. needed' = RequiredSections /\ needed' # << >> /\ ~flags.dry
    BY <1>1
  <2>2. needed' \in Lists /\ \A k \in DOMAIN needed' : Named(needed'[k])
    BY <2>1, RequiredAreNamed
  <2>3. Len(needed') > 0
    BY <2>1, <2>2 DEF Lists
  <2> QED
    BY <2>1, <2>2, <2>3
<1>6. NeededInv'
  BY <1>1, <1>2, <1>4, <1>5 DEF NeededInv
<1> QED
  BY <1>1, <1>3, <1>6, StepAside

\* The section a plan asks about next.
LEMMA NextSection ==
  ASSUME StartInv, stage = "sections"
  PROVE  LET s == needed[Cardinality(DOMAIN settings) + 1] IN
         /\ program = "plan" /\ s \in KnownSections \ DOMAIN settings
         /\ \E k \in DOMAIN needed : needed[k] = s
         /\ \A x \in DOMAIN settings : \E k \in DOMAIN needed : needed[k] = x
         /\ \/ settings = << >> /\ s = needed[1]
            \/ Len(needed) = 2 /\ DOMAIN settings = {needed[1]} /\ s = needed[2]
<1> DEFINE s == needed[Cardinality(DOMAIN settings) + 1]
<1>1. program = "plan"
  BY DEF StartInv, StageInv
<1>2. /\ needed \in Lists
      /\ \/ settings = << >> /\ Len(needed) > 0
         \/ Len(needed) = 2 /\ DOMAIN settings = {needed[1]}
  BY <1>1 DEF StartInv, NeededInv
<1>3. CASE settings = << >> /\ Len(needed) > 0
  <2>1. DOMAIN settings = {} /\ Cardinality(DOMAIN settings) = 0
    BY <1>3, FS_EmptySet
  <2>2. s = needed[1] /\ 1 \in DOMAIN needed /\ needed[1] \in KnownSections
    BY <1>2, <1>3, <2>1 DEF Lists, KnownSections
  <2> HIDE DEF s
  <2>3. s \in KnownSections \ DOMAIN settings /\ \E k \in DOMAIN needed : needed[k] = s
    BY <2>1, <2>2
  <2>4. \A x \in DOMAIN settings : \E k \in DOMAIN needed : needed[k] = x
    BY <2>1
  <2> QED
    BY <1>1, <1>3, <2>2, <2>3, <2>4 DEF s
<1>4. CASE Len(needed) = 2 /\ DOMAIN settings = {needed[1]}
  <2>1. Cardinality(DOMAIN settings) = 1
    BY <1>4, FS_Singleton
  <2>2. s = needed[2]
    BY <2>1
  <2>3. /\ 1 \in DOMAIN needed /\ 2 \in DOMAIN needed
        /\ needed[2] \in KnownSections /\ needed[1] # needed[2]
    BY <1>2, <1>4 DEF Lists, KnownSections
  <2> HIDE DEF s
  <2>4. s \in KnownSections \ DOMAIN settings /\ \E k \in DOMAIN needed : needed[k] = s
    BY <1>4, <2>2, <2>3
  <2>5. \A x \in DOMAIN settings : \E k \in DOMAIN needed : needed[k] = x
    BY <1>4, <2>3
  <2> QED
    BY <1>1, <1>4, <2>2, <2>4, <2>5 DEF s
<1> QED
  BY <1>2, <1>3, <1>4

LEMMA SectionStep ==
  ASSUME StartInv, NEW engine \in Engines, NEW auth \in AuthModes, NEW trust \in BOOLEAN,
         ResolveSection(engine, auth, trust), UNCHANGED vars
  PROVE  StartInv'
<1> DEFINE s == needed[Cardinality(DOMAIN settings) + 1]
           here == AboutPlace(s) \o AboutTrust(s, engine)
           questions == ((AboutType(s) \o AboutPlace(s)) \o AboutTrust(s, engine)) \o AboutLogin(s, auth)
<1>1. /\ stage = "sections" /\ program = "plan"
      /\ UNCHANGED <<document, flags, supplied, total, needed, program, definitions, pc>>
      /\ engine \in EnginesOf(s) /\ auth \in AuthOf(s, engine) /\ trust \in TrustOf(s, engine)
  BY DEF ResolveSection, vars, StartInv, StageInv
<1>2. /\ needed \in Lists /\ pc = "done" /\ ~flags.dry
      /\ \A k \in DOMAIN needed : Named(needed[k])
      /\ \/ settings = << >> /\ Len(needed) > 0
         \/ Len(needed) = 2 /\ DOMAIN settings = {needed[1]}
  BY <1>1 DEF StartInv, NeededInv
<1>3. \A x : Named(x) => Named(x)'
  BY <1>1 DEF Named
<1>4. /\ s \in KnownSections \ DOMAIN settings /\ Named(s)
      /\ \/ settings = << >> /\ s = needed[1]
         \/ Len(needed) = 2 /\ DOMAIN settings = {needed[1]} /\ s = needed[2]
  BY <1>1, <1>2, NextSection
<1>5. \/ /\ CannotAsk(s, engine, auth) /\ stage' = "refused" /\ UNCHANGED <<log, settings>>
      \/ /\ ~CannotAsk(s, engine, auth)
         /\ log' = IF flags.unattended THEN log
                   ELSE Ask(log, AboutType(s) \o AboutPlace(s) \o AboutTrust(s, engine)
                                   \o AboutLogin(s, auth), total)
         /\ settings' = [x \in DOMAIN settings \cup {s} |->
                           IF x = s THEN Connection(engine, auth, trust) ELSE settings[x]]
         /\ IF SettingsRefused(s, engine) THEN stage' = "refused"
            ELSE Onwards(IF DOMAIN settings' = {needed[k] : k \in DOMAIN needed}
                         THEN "ready" ELSE "sections")
  BY DEF ResolveSection
<1>6. /\ auth \in AuthModes /\ (auth = "windows" => engine = "sqlserver")
  BY <1>1, <1>4, LoginsOfEngines DEF StartInv
<1> HIDE DEF s
<1>7. CASE CannotAsk(s, engine, auth)
  <2>1. stage' = "refused" /\ UNCHANGED <<log, settings>>
    BY <1>5, <1>7
  <2>2. StageInv' /\ SuppliedInv' /\ WizardInv'
    BY <1>1, <2>1 DEF StartInv, StageInv, SuppliedInv, WizardInv
  <2>3. NeededInv'
    BY <1>1, <1>3, <2>1 DEF StartInv, NeededInv
  <2> QED
    BY <1>1, <2>1, <2>2, <2>3, StepAside
<1>8. CASE ~CannotAsk(s, engine, auth)
  <2>1. /\ DOMAIN settings' = DOMAIN settings \cup {s}
        /\ settings'[s] = Connection(engine, auth, trust)
        /\ \A x \in DOMAIN settings : settings'[x] = settings[x]
    <3> DEFINE given == Connection(engine, auth, trust)
    <3>1. settings' = [x \in DOMAIN settings \cup {s} |-> IF x = s THEN given ELSE settings[x]]
      BY <1>5, <1>8
    <3> HIDE DEF given
    <3>2. settings'[s] = given /\ DOMAIN settings' = DOMAIN settings \cup {s}
      BY <3>1
    <3>3. \A x \in DOMAIN settings : settings'[x] = settings[x]
      BY <1>4, <3>1
    <3> QED
      BY <3>2, <3>3 DEF given
  <2>2. /\ stage' \in {"ready", "sections", "refused"}
        /\ stage' = "sections" => DOMAIN settings' # {needed[k] : k \in DOMAIN needed}
    BY <1>5, <1>8 DEF Onwards
  <2>3. StageInv' /\ SuppliedInv' /\ WizardInv'
    BY <1>1, <2>2 DEF StartInv, StageInv, SuppliedInv, WizardInv
  <2>4. NeededInv'
    <3>1. DOMAIN settings' \subseteq {x \in KnownSections : pc' = "done" /\ ~flags'.dry /\ Named(x)'}
      BY <1>1, <1>2, <1>3, <1>4, <2>1 DEF StartInv, NeededInv
    <3>2. stage' = "sections" => Len(needed) = 2 /\ DOMAIN settings' = {needed[1]}
      <4> SUFFICES ASSUME stage' = "sections" PROVE Len(needed) = 2 /\ DOMAIN settings' = {needed[1]}
        OBVIOUS
      <4>1. CASE settings = << >> /\ s = needed[1]
        <5>1. DOMAIN settings = {} /\ DOMAIN settings' = {needed[1]}
          BY <2>1, <4>1
        <5>2. Len(needed) \in {1, 2} /\ DOMAIN needed = 1..Len(needed)
          BY <1>2, <5>1 DEF Lists
        <5>3. Len(needed) = 1 => {needed[k] : k \in DOMAIN needed} = {needed[1]}
          BY <5>2
        <5> QED
          BY <2>2, <5>1, <5>2, <5>3
      <4>2. CASE Len(needed) = 2 /\ DOMAIN settings = {needed[1]} /\ s = needed[2]
        <5>1. DOMAIN settings' = {needed[1], needed[2]}
          BY <2>1, <4>2
        <5>2. DOMAIN needed = {1, 2}
          BY <1>2, <4>2 DEF Lists
        <5>3. {needed[k] : k \in DOMAIN needed} = {needed[1], needed[2]}
          BY <5>2
        <5> QED
          BY <2>2, <5>1, <5>3
      <4> QED
        BY <1>4, <4>1, <4>2
    <3> QED
      BY <1>1, <1>2, <1>3, <2>2, <3>1, <3>2 DEF NeededInv
  <2>5. CASE flags.unattended
    <3>1. log = << >> /\ log' = log /\ Asked = {} /\ Asked' = {} /\ IsList(log)
      BY <1>5, <1>8, <2>5, ShortLists DEF StartInv, LogInv, Asked
    <3>2. LogInv'
      BY <1>1, <2>1, <3>1 DEF StartInv, LogInv
    <3>3. auth = "windows"
      BY <1>6, <1>8, <2>5 DEF CannotAsk, AuthModes
    <3>4. trust => supplied.section[s].trust = "yes"
      BY <1>1, <2>5, TrustIsGiven
    <3>5. EarnedInv'
      <4>1. /\ Asked \subseteq Asked' /\ \A q \in Asked' \ Asked : q[1] = s
            /\ auth # "windows" <=> <<s, "password">> \in Asked'
            /\ trust => supplied.section[s].trust = "yes" \/ <<s, "trust">> \in Asked'
        BY <3>1, <3>3, <3>4
      <4> QED
        BY <1>1, <1>4, <1>6, <2>1, <4>1, SectionEarned DEF StartInv
    <3> QED
      BY <2>3, <2>4, <3>2, <3>5 DEF StartInv
  <2>6. CASE ~flags.unattended
    <3>1. /\ IsList(log')
          /\ Asked' = Asked \cup Elements(AboutType(s)) \cup Elements(AboutPlace(s))
                \cup Elements(AboutTrust(s, engine)) \cup Elements(AboutLogin(s, auth))
      <4> DEFINE a == AboutType(s) \o AboutPlace(s)
                 b == a \o AboutTrust(s, engine)
      <4>1. IsList(a) /\ Elements(a) = Elements(AboutType(s)) \cup Elements(AboutPlace(s))
        BY TypeQuestions, PlaceQuestions, JoinedLists
      <4>2. log' = Ask(log, b \o AboutLogin(s, auth), total)
        BY <1>5, <1>8, <2>6
      <4> HIDE DEF a
      <4>3. IsList(b) /\ Elements(b) = Elements(a) \cup Elements(AboutTrust(s, engine))
        BY <4>1, TrustQuestions, JoinedLists
      <4> HIDE DEF b
      <4> DEFINE c == b \o AboutLogin(s, auth)
      <4>4. IsList(c) /\ Elements(c) = Elements(b) \cup Elements(AboutLogin(s, auth))
        BY <4>3, LoginQuestions, JoinedLists
      <4> HIDE DEF c
      <4>5. IsList(log') /\ Abouts(log') = Abouts(log) \cup Elements(c)
        BY <4>2, <4>4, AskedQuestions DEF StartInv, LogInv, c
      <4> QED
        BY <4>1, <4>3, <4>4, <4>5 DEF Asked, Abouts
    <3>2. \A q \in Asked : q[1] # s
      BY <1>4, AskedBefore DEF StartInv
    <3>3. /\ Asked \subseteq Asked' /\ \A q \in Asked' \ Asked : q[1] = s
          /\ auth # "windows" <=> <<s, "password">> \in Asked'
          /\ engine # "oracle" /\ supplied.section[s].trust = "" => <<s, "trust">> \in Asked'
      BY <3>1, <3>2, SectionQuestions
    <3>4. trust => supplied.section[s].trust = "yes" \/ <<s, "trust">> \in Asked'
      BY <1>1, <3>3, TrustIsGiven
    <3>5. EarnedInv'
      <4>1. /\ Asked \subseteq Asked' /\ \A q \in Asked' \ Asked : q[1] = s
            /\ auth # "windows" <=> <<s, "password">> \in Asked'
        BY <3>3
      <4>2. supplied' = supplied /\ s \notin DOMAIN settings /\ EarnedInv
        BY <1>1, <1>4 DEF StartInv
      <4> QED
        BY <1>6, <2>1, <3>4, <4>1, <4>2, SectionEarned
    <3>6. LogInv'
      BY <1>1, <2>1, <2>6, <3>1, <3>3, LogGrows DEF StartInv
    <3> QED
      BY <2>3, <2>4, <3>5, <3>6 DEF StartInv
  <2> QED
    BY <2>5, <2>6
<1> QED
  BY <1>7, <1>8

LEMMA ReadStep ==
  ASSUME StartInv, Read, UNCHANGED asking
  PROVE  StartInv'
<1>1. /\ stage = "reading"
      /\ UNCHANGED <<document, flags, stage, supplied, log, needed, settings>>
  BY DEF Read, asking
<1>2. UNCHANGED program
  BY DEF Read, Next, ReadControl, FindColumns, ReadRow, EndRows, OlderReadRow, OlderEndRows,
         ReadRule, EndRules
<1>3. Asked' = Asked
  BY <1>1 DEF Asked
<1>4. StageInv' /\ SuppliedInv' /\ WizardInv' /\ EarnedInv'
  BY <1>1, <1>2, <1>3 DEF StartInv, StageInv, SuppliedInv, WizardInv, EarnedInv
<1>5. LogInv'
  BY <1>1, <1>2, <1>3 DEF StartInv, LogInv
<1>6. NeededInv'
  <2>1. program = "plan" => settings = << >> /\ DOMAIN settings = {}
    BY <1>1 DEF StartInv, NeededInv
  <2> QED
    BY <1>1, <1>2, <2>1 DEF NeededInv
<1> QED
  BY <1>4, <1>5, <1>6 DEF StartInv

LEMMA StartInvStep == StartInv /\ [StartupNext]_Asking => StartInv'
<1> SUFFICES ASSUME StartInv, [StartupNext]_Asking PROVE StartInv'
  OBVIOUS
<1>1. CASE Begin /\ UNCHANGED vars
  BY <1>1, ProfileStep
<1>2. CASE ChooseWorkbook /\ UNCHANGED vars
  BY <1>2, WorkbookStep
<1>3. CASE Wizard /\ UNCHANGED vars
  BY <1>3, WizardStep, BookStep, SourceStep, TargetStep DEF Wizard
<1>4. CASE Connect /\ UNCHANGED vars
  BY <1>4, ConnectStep
<1>5. CASE Resolve /\ UNCHANGED vars
  BY <1>5, SectionStep DEF Resolve
<1>6. CASE Read /\ UNCHANGED asking
  BY <1>6, ReadStep
<1>7. CASE UNCHANGED Asking
  <2>1. UNCHANGED <<vars, asking>> /\ UNCHANGED <<document, flags, stage, supplied, log, needed, settings>>
        /\ UNCHANGED <<program, definitions, pc>>
    BY <1>7 DEF Asking, vars, asking
  <2>2. StageInv' /\ SuppliedInv' /\ WizardInv'
    BY <2>1 DEF StartInv, StageInv, SuppliedInv, WizardInv
  <2>3. NeededInv'
    BY <2>1 DEF StartInv, NeededInv, Named
  <2> QED
    BY <2>1, <2>2, <2>3, StepAside
<1> QED
  BY <1>1, <1>2, <1>3, <1>4, <1>5, <1>6, <1>7 DEF StartupNext

LEMMA StartInvAlways == StartupSpec => []StartInv
  BY StartupInvInit, StartInvStep, PTL DEF StartupSpec, Asking

\* A run connects with nothing it was not given: `reconcile run` asks about a
\* section, and has its settings, only once the workbook was accepted and an enabled
\* test queries it; unattended, it asks nothing; a password was typed in this run; a
\* certificate is trusted on a person's word or the profile's (connections.py:1-20).
THEOREM StartupSettingsAreEarned == StartupSpec => []SettingsAreEarned
<1>1. StartInv => SettingsAreEarned
  <2> SUFFICES ASSUME StartInv PROVE SettingsAreEarned
    OBVIOUS
  <2>1. ASSUME program = "plan",
               NEW s \in DOMAIN settings \cup {q[1] : q \in Asked \ {<<"run", "workbook">>}}
        PROVE  pc = "done" /\ ~flags.dry /\ Named(s)
    <3>1. s \in DOMAIN settings
      BY <2>1 DEF StartInv, LogInv
    <3> QED
      BY <2>1, <3>1 DEF StartInv, NeededInv
  <2>2. flags.unattended => log = << >>
    BY DEF StartInv, LogInv
  <2> QED
    BY <2>1, <2>2 DEF SettingsAreEarned, StartInv, EarnedInv, Named
<1> QED
  BY <1>1, StartInvAlways, PTL

-----------------------------------------------------------------------------
\* Counting the questions.

\* The numbers on a list of questions, when up to "extra" of them are not counted.
Once(list) == \A j, k \in DOMAIN list : list[j] = list[k] => j = k
NoneTwice(list) == \A j, k \in DOMAIN list : list[j].about = list[k].about => j = k
Numbered(list, extra) == \A k \in DOMAIN list : list[k].total \in Int /\ k <= list[k].total + extra
Falling(list, least) ==
  /\ \A j, k \in DOMAIN list : j < k => list[j].total >= list[k].total
  /\ \A k \in DOMAIN list : list[k].total >= least

\* What the profile says of a section, and what it is counted with.
TypeKnown(s) == supplied.section[s].type # ""
AuthKnown(s) == supplied.section[s].auth # ""
Counted(s) == One(~TypeKnown(s)) + Expected(s, supplied.section[s].type, "")

\* The questions a section took.
AskedOf(s, engine, auth) ==
  Len(AboutType(s)) + Len(AboutPlace(s)) + Len(AboutTrust(s, engine)) + Len(AboutLogin(s, auth))
Spent(s) == IF s \in DOMAIN settings THEN AskedOf(s, settings[s].engine, settings[s].auth) ELSE 0

\* What was answered is one of the possible answers, and a login was asked for in full.
GivenInv ==
  program = "plan" =>
    \A s \in DOMAIN settings :
      /\ settings[s].engine \in EnginesOf(s) /\ settings[s].auth \in AuthOf(s, settings[s].engine)
      /\ settings[s].auth # "windows" /\ ~flags.unattended =>
           /\ <<s, "password">> \in Asked
           /\ ~supplied.section[s].user => <<s, "username">> \in Asked

\* The log of `reconcile run`: perhaps the workbook, then what each section took.
PlanCountInv ==
  program = "plan" /\ ~flags.unattended =>
    /\ stage \in {"profile", "workbook"} => log = << >>
    /\ Len(log) = One(<<"run", "workbook">> \in Asked) + Spent("source") + Spent("target")
    /\ stage = "sections" \/ (stage = "ready" /\ settings # << >>) => total = ExpectedCount(needed)
    /\ stage = "ready" => DOMAIN settings = {needed[k] : k \in DOMAIN needed}

\* An engine the profile did not name may turn out to need a login that a section
\* which says "windows" was not counted with.
LateSection(s) == ~TypeKnown(s) /\ supplied.section[s].auth = "windows"

\* The logins a section took that it was not counted with, and all the questions of a
\* run that its totals leave out.
LateLogin(s) ==
  IF /\ s \in DOMAIN settings /\ settings[s].engine = "oracle"
     /\ supplied.section[s].type = "" /\ supplied.section[s].auth = "windows"
  THEN One(<<s, "username">> \in Asked) + One(<<s, "password">> \in Asked)
  ELSE 0
Uncounted ==
  IF program = "plan"
  THEN One(<<"run", "workbook">> \in Asked) + LateLogin("source") + LateLogin("target")
  ELSE One(supplied.workbook = "gone") + One(supplied.sheet = "gone")

\* The log of the wizard: how much of the total is still to come.
WizardCountInv ==
  program = "older" =>
    /\ stage \in {"profile", "wizard", "book"} => log = << >>
    /\ stage \in {"book", "source"} => total = ExpectedTotal(supplied.section.source.type, "", "")
    /\ stage = "source" => Len(log) + One(~TypeKnown("source")) = ExpectedFirst + Uncounted
    /\ stage = "target" =>
         /\ total = ExpectedTotal(settings.source.engine, settings.source.auth, "")
         /\ Len(log) = total - Expected("target", "sqlserver", "") + Uncounted
    /\ stage = "reading" => total \in Int /\ Len(log) = total + Uncounted
    /\ log # << >> => TurnedOracle("source") \/ Falling(log, total)

WordsInv ==
  stage \notin {"profile", "refused"} =>
    supplied.workbook \in {"", "there", "gone"} /\ supplied.sheet \in {"", "there", "gone"}

CountInv ==
  WordsInv /\ NoneTwice(log) /\ Numbered(log, Uncounted) /\ GivenInv /\ PlanCountInv /\ WizardCountInv

-----------------------------------------------------------------------------
\* Lists that were joined: how many, and none twice.

LEMMA JoinedParts ==
  ASSUME NEW a, NEW b, IsList(a), IsList(b)
  PROVE  /\ Len(a) \in Nat /\ DOMAIN a = 1..Len(a) /\ Len(b) \in Nat /\ DOMAIN b = 1..Len(b)
         /\ Len(a \o b) = Len(a) + Len(b) /\ DOMAIN (a \o b) = 1..(Len(a) + Len(b))
         /\ \A k \in 1..(Len(a) + Len(b)) :
              IF k <= Len(a) THEN k \in DOMAIN a /\ (a \o b)[k] = a[k]
              ELSE k - Len(a) \in DOMAIN b /\ (a \o b)[k] = b[k - Len(a)]
<1>1. PICK A : a \in Seq(A)
  BY DEF IsList
<1>2. PICK B : b \in Seq(B)
  BY DEF IsList
<1> DEFINE S == A \cup B
           new == a \o b
<1>3. a \in Seq(S) /\ b \in Seq(S)
  BY <1>1, <1>2, SeqMonotonic
<1> HIDE DEF S
<1>4. /\ new \in Seq(S) /\ Len(new) = Len(a) + Len(b)
      /\ \A i \in 1 .. Len(a) + Len(b) : new[i] = IF i <= Len(a) THEN a[i] ELSE b[i - Len(a)]
  BY <1>3, ConcatProperties, Zenon
<1>5. /\ Len(a) \in Nat /\ DOMAIN a = 1..Len(a) /\ Len(b) \in Nat /\ DOMAIN b = 1..Len(b)
      /\ DOMAIN new = 1..Len(new)
  BY <1>3, <1>4, LenProperties
<1> HIDE DEF new
<1>6. \A k \in 1..(Len(a) + Len(b)) :
        IF k <= Len(a) THEN k \in DOMAIN a /\ new[k] = a[k]
        ELSE k - Len(a) \in DOMAIN b /\ new[k] = b[k - Len(a)]
  BY <1>4, <1>5
<1>7. DOMAIN new = 1..(Len(a) + Len(b))
  BY <1>4, <1>5
<1> QED
  BY <1>4, <1>5, <1>6, <1>7 DEF new

\* Questions put one after the other are as many as there are, and none comes twice
\* if none did before.
LEMMA JoinedCounts ==
  ASSUME NEW a, NEW b, IsList(a), IsList(b)
  PROVE  /\ Len(a) \in Nat /\ Len(b) \in Nat /\ Len(a \o b) = Len(a) + Len(b)
         /\ Once(a) /\ Once(b) /\ Elements(a) \cap Elements(b) = {} => Once(a \o b)
<1> DEFINE new == a \o b
<1>1. /\ Len(a) \in Nat /\ DOMAIN a = 1..Len(a) /\ Len(b) \in Nat /\ DOMAIN b = 1..Len(b)
      /\ Len(new) = Len(a) + Len(b) /\ DOMAIN new = 1..(Len(a) + Len(b))
      /\ \A k \in 1..(Len(a) + Len(b)) :
           IF k <= Len(a) THEN k \in DOMAIN a /\ new[k] = a[k]
           ELSE k - Len(a) \in DOMAIN b /\ new[k] = b[k - Len(a)]
  BY JoinedParts
<1> HIDE DEF new
<1>2. ASSUME Once(a), Once(b), Elements(a) \cap Elements(b) = {} PROVE Once(new)
  <2> SUFFICES ASSUME NEW j \in DOMAIN new, NEW k \in DOMAIN new, new[j] = new[k] PROVE j = k
    BY DEF Once
  <2>1. j \in Int /\ k \in Int
    BY <1>1
  <2>2. CASE j <= Len(a) /\ k <= Len(a)
    <3>1. a[j] = a[k] /\ j \in DOMAIN a /\ k \in DOMAIN a
      BY <1>1, <2>2
    <3> QED
      BY <1>2, <3>1 DEF Once
  <2>3. CASE ~(j <= Len(a)) /\ ~(k <= Len(a))
    <3>1. b[j - Len(a)] = b[k - Len(a)] /\ j - Len(a) \in DOMAIN b /\ k - Len(a) \in DOMAIN b
      BY <1>1, <2>3
    <3>2. j - Len(a) = k - Len(a)
      BY <1>2, <3>1 DEF Once
    <3> QED
      BY <1>1, <2>1, <3>2
  <2>4. \A x, y \in DOMAIN new : x <= Len(a) /\ ~(y <= Len(a)) => new[x] # new[y]
    <3> SUFFICES ASSUME NEW x \in DOMAIN new, NEW y \in DOMAIN new, x <= Len(a), ~(y <= Len(a))
                 PROVE  new[x] # new[y]
      OBVIOUS
    <3>1. new[x] \in Elements(a) /\ new[y] \in Elements(b)
      BY <1>1 DEF Elements
    <3> QED
      BY <1>2, <3>1
  <2> QED
    BY <2>2, <2>3, <2>4
<1> QED
  BY <1>1, <1>2 DEF new

LEMMA OptionalCount ==
  ASSUME NEW condition, NEW question
  PROVE  /\ Len(Optional(condition, question)) = One(condition)
         /\ Once(Optional(condition, question))
<1>1. CASE condition
  <2>1. Optional(condition, question) = <<question>>
    BY <1>1 DEF Optional
  <2>2. Len(<<question>>) = 1 /\ Once(<<question>>)
    BY DEF Once
  <2> QED
    BY <1>1, <2>1, <2>2 DEF One
<1>2. CASE ~condition
  <2>1. Optional(condition, question) = << >>
    BY <1>2 DEF Optional
  <2>2. Len(<< >>) = 0 /\ Once(<< >>)
    BY DEF Once
  <2> QED
    BY <1>2, <2>1, <2>2 DEF One
<1> QED
  BY <1>1, <1>2

\* What one more group of questions does to the log.
LEMMA AskedCounts ==
  ASSUME NEW asked, NEW questions, NEW shown \in Int, IsList(asked), IsList(questions)
  PROVE  LET new == Ask(asked, questions, shown) IN
         /\ Len(asked) \in Nat /\ Len(questions) \in Nat
         /\ Len(new) = Len(asked) + Len(questions)
         /\ NoneTwice(asked) /\ Once(questions) /\ Abouts(asked) \cap Elements(questions) = {} =>
              NoneTwice(new)
         /\ \A extra \in Int : Numbered(asked, extra) /\ Len(new) <= shown + extra =>
              Numbered(new, extra)
         /\ Falling(asked, shown) => Falling(new, shown)
<1> DEFINE shownWith(q) == [about |-> q, total |-> shown]
           list == [k \in DOMAIN questions |-> shownWith(questions[k])]
           new == asked \o list
<1>1. PICK Q : questions \in Seq(Q)
  BY DEF IsList
<1>2. Len(questions) \in Nat /\ questions \in [1..Len(questions) -> Q]
  BY <1>1, LenProperties
<1>3. IsList(list) /\ Len(list) = Len(questions)
  <2> DEFINE S == {shownWith(q) : q \in Q}
  <2>1. list \in [1..Len(questions) -> S]
    BY <1>2
  <2> HIDE DEF list, S
  <2>2. list \in Seq(S)
    BY <1>2, <2>1, SeqDef
  <2>3. Len(list) = Len(questions)
    BY <1>2, <2>1, <2>2, LenProperties
  <2> QED
    BY <2>2, <2>3 DEF IsList
<1>4. \A k \in DOMAIN questions : list[k].about = questions[k] /\ list[k].total = shown
  OBVIOUS
<1>5. DOMAIN list = DOMAIN questions /\ Ask(asked, questions, shown) = new
  BY DEF Ask
<1> HIDE DEF list
<1>6. /\ Len(asked) \in Nat /\ DOMAIN asked = 1..Len(asked)
      /\ Len(list) \in Nat /\ DOMAIN list = 1..Len(list)
      /\ Len(new) = Len(asked) + Len(list) /\ DOMAIN new = 1..(Len(asked) + Len(list))
      /\ \A k \in 1..(Len(asked) + Len(list)) :
           IF k <= Len(asked) THEN k \in DOMAIN asked /\ new[k] = asked[k]
           ELSE k - Len(asked) \in DOMAIN list /\ new[k] = list[k - Len(asked)]
  BY <1>3, JoinedParts
<1> HIDE DEF new
<1>7. \A k \in DOMAIN new :
        \/ k <= Len(asked) /\ k \in DOMAIN asked /\ new[k] = asked[k]
        \/ /\ ~(k <= Len(asked)) /\ k - Len(asked) \in DOMAIN questions
           /\ new[k].about = questions[k - Len(asked)] /\ new[k].total = shown
  BY <1>4, <1>5, <1>6
<1>8. ASSUME NoneTwice(asked), Once(questions), Abouts(asked) \cap Elements(questions) = {}
      PROVE  NoneTwice(new)
  <2> SUFFICES ASSUME NEW j \in DOMAIN new, NEW k \in DOMAIN new, new[j].about = new[k].about
               PROVE  j = k
    BY DEF NoneTwice
  <2>1. j \in Int /\ k \in Int
    BY <1>6
  <2>2. CASE j <= Len(asked) /\ k <= Len(asked)
    <3>1. asked[j].about = asked[k].about /\ j \in DOMAIN asked /\ k \in DOMAIN asked
      BY <1>7, <2>2
    <3> QED
      BY <1>8, <3>1 DEF NoneTwice
  <2>3. CASE ~(j <= Len(asked)) /\ ~(k <= Len(asked))
    <3> DEFINE x == j - Len(asked)
               y == k - Len(asked)
    <3>1. questions[x] = questions[y] /\ x \in DOMAIN questions /\ y \in DOMAIN questions
      BY <1>7, <2>3
    <3>2. x = y
      BY <1>8, <3>1 DEF Once
    <3> QED
      BY <1>6, <2>1, <3>2
  <2>4. \A x, y \in DOMAIN new : x <= Len(asked) /\ ~(y <= Len(asked)) => new[x].about # new[y].about
    <3> SUFFICES ASSUME NEW x \in DOMAIN new, NEW y \in DOMAIN new, x <= Len(asked), ~(y <= Len(asked))
                 PROVE  new[x].about # new[y].about
      OBVIOUS
    <3>1. new[x].about \in Abouts(asked) /\ new[y].about \in Elements(questions)
      BY <1>7 DEF Elements, Abouts
    <3> QED
      BY <1>8, <3>1
  <2> QED
    BY <2>2, <2>3, <2>4
<1>9. ASSUME NEW extra \in Int, Numbered(asked, extra), Len(new) <= shown + extra
      PROVE  Numbered(new, extra)
  <2> SUFFICES ASSUME NEW k \in DOMAIN new
               PROVE  new[k].total \in Int /\ k <= new[k].total + extra
    BY DEF Numbered
  <2>1. CASE k <= Len(asked)
    BY <1>7, <1>9, <2>1 DEF Numbered
  <2>2. CASE ~(k <= Len(asked))
    <3>1. new[k].total = shown
      BY <1>7, <2>2
    <3>2. k \in Int /\ k <= Len(new) /\ Len(new) \in Int
      BY <1>6
    <3> QED
      BY <1>9, <3>1, <3>2
  <2> QED
    BY <2>1, <2>2
<1>10. ASSUME Falling(asked, shown) PROVE Falling(new, shown)
  <2>1. \A k \in DOMAIN new : new[k].total >= shown
    BY <1>7, <1>10 DEF Falling
  <2>2. ASSUME NEW j \in DOMAIN new, NEW k \in DOMAIN new, j < k PROVE new[j].total >= new[k].total
    <3>1. CASE k <= Len(asked)
      <4>1. j <= Len(asked)
        BY <1>6, <2>2, <3>1
      <4> QED
        BY <1>7, <1>10, <2>2, <3>1, <4>1 DEF Falling
    <3>2. CASE ~(k <= Len(asked))
      BY <1>7, <2>1, <3>2
    <3> QED
      BY <3>1, <3>2
  <2> QED
    BY <2>1, <2>2 DEF Falling
<1> QED
  BY <1>2, <1>3, <1>5, <1>6, <1>8, <1>9, <1>10

-----------------------------------------------------------------------------
\* How many questions each group has, none of them twice.

LEMMA TypeCounts ==
  ASSUME NEW s
  PROVE  /\ Len(AboutType(s)) = One(supplied.section[s].type = "")
         /\ Once(AboutType(s))
  BY OptionalCount DEF AboutType

LEMMA PlaceCounts ==
  ASSUME NEW s
  PROVE  /\ LET given == supplied.section[s].given
            IN Len(AboutPlace(s)) =
                 One("server" \notin given) + One("port" \notin given) + One("database" \notin given)
         /\ Once(AboutPlace(s))
<1> DEFINE about(p) == Optional(p \notin supplied.section[s].given, <<s, p>>)
           missing(p) == One(p \notin supplied.section[s].given)
           two == about("server") \o about("port")
<1>1. \A p : /\ IsList(about(p)) /\ Elements(about(p)) \subseteq {<<s, p>>}
             /\ Len(about(p)) = missing(p) /\ Once(about(p))
  BY OptionalList, OptionalCount
<1>2. AboutPlace(s) = two \o about("database")
  BY DEF AboutPlace
<1> HIDE DEF about, missing
<1>3. /\ IsList(two) /\ Elements(two) = Elements(about("server")) \cup Elements(about("port"))
      /\ Len(two) = missing("server") + missing("port")
  BY <1>1, JoinedLists, JoinedCounts
<1>4. Elements(about("server")) \cap Elements(about("port")) = {}
  BY <1>1
<1>5. Once(two)
  BY <1>1, <1>4, JoinedCounts
<1> HIDE DEF two
<1>6. Elements(two) \cap Elements(about("database")) = {}
  BY <1>1, <1>3
<1>7. /\ Len(two \o about("database")) = Len(two) + Len(about("database"))
      /\ Once(two \o about("database"))
  BY <1>1, <1>3, <1>5, <1>6, JoinedCounts
<1>8. Len(AboutPlace(s)) = missing("server") + missing("port") + missing("database")
  BY <1>1, <1>2, <1>3, <1>7
<1> QED
  BY <1>2, <1>7, <1>8 DEF missing

LEMMA TrustCounts ==
  ASSUME NEW s, NEW engine
  PROVE  /\ Len(AboutTrust(s, engine)) =
              IF engine = "oracle" THEN 0
              ELSE One(supplied.section[s].trust = "") + One(supplied.section[s].auth = "")
         /\ Once(AboutTrust(s, engine))
<1>1. CASE engine = "oracle"
  <2>1. AboutTrust(s, engine) = << >>
    BY <1>1 DEF AboutTrust
  <2>2. Len(<< >>) = 0 /\ Once(<< >>)
    BY DEF Once
  <2> QED
    BY <1>1, <2>1, <2>2
<1>2. CASE engine # "oracle"
  <2> DEFINE trust == Optional(supplied.section[s].trust = "", <<s, "trust">>)
             login == Optional(supplied.section[s].auth = "", <<s, "auth">>)
  <2>1. /\ IsList(trust) /\ Elements(trust) \subseteq {<<s, "trust">>} /\ Once(trust)
        /\ Len(trust) = One(supplied.section[s].trust = "")
        /\ IsList(login) /\ Elements(login) \subseteq {<<s, "auth">>} /\ Once(login)
        /\ Len(login) = One(supplied.section[s].auth = "")
    BY OptionalList, OptionalCount
  <2>2. AboutTrust(s, engine) = trust \o login
    BY <1>2 DEF AboutTrust
  <2> HIDE DEF trust, login
  <2>3. Elements(trust) \cap Elements(login) = {}
    <3>1. Elements(trust) \subseteq {<<s, "trust">>} /\ Elements(login) \subseteq {<<s, "auth">>}
      BY <2>1
    <3> QED
      BY <3>1
  <2>4. Len(trust \o login) = Len(trust) + Len(login) /\ Once(trust \o login)
    BY <2>1, <2>3, JoinedCounts
  <2> QED
    BY <1>2, <2>1, <2>2, <2>4
<1> QED
  BY <1>1, <1>2

LEMMA LoginCounts ==
  ASSUME NEW s, NEW auth
  PROVE  /\ Len(AboutLogin(s, auth)) =
              IF auth = "windows" THEN 0 ELSE One(~supplied.section[s].user) + 1
         /\ Once(AboutLogin(s, auth))
         /\ auth # "windows" /\ ~supplied.section[s].user =>
              <<s, "username">> \in Elements(AboutLogin(s, auth))
<1>1. CASE auth = "windows"
  <2>1. AboutLogin(s, auth) = << >>
    BY <1>1 DEF AboutLogin
  <2>2. Len(<< >>) = 0 /\ Once(<< >>)
    BY DEF Once
  <2> QED
    BY <1>1, <2>1, <2>2
<1>2. CASE auth # "windows"
  <2> DEFINE user == Optional(~supplied.section[s].user, <<s, "username">>)
             word == << <<s, "password">> >>
  <2>1. /\ IsList(user) /\ Once(user) /\ Len(user) = One(~supplied.section[s].user)
        /\ Elements(user) = IF ~supplied.section[s].user THEN {<<s, "username">>} ELSE {}
    BY OptionalList, OptionalCount
  <2>2. IsList(word) /\ Elements(word) = {<<s, "password">>} /\ Len(word) = 1 /\ Once(word)
    BY ShortLists DEF Once
  <2>3. AboutLogin(s, auth) = user \o word
    BY <1>2 DEF AboutLogin
  <2> HIDE DEF user, word
  <2>4. Elements(user) \cap Elements(word) = {}
    BY <2>1, <2>2
  <2>5. /\ Len(user \o word) = Len(user) + Len(word) /\ Once(user \o word)
        /\ Elements(user \o word) = Elements(user) \cup Elements(word)
    BY <2>1, <2>2, <2>4, JoinedLists, JoinedCounts
  <2> QED
    BY <1>2, <2>1, <2>2, <2>3, <2>5
<1> QED
  BY <1>1, <1>2

\* Questions of different groups differ, so that all of a section differ.
LEMMA GroupsAreApart ==
  ASSUME NEW s, NEW engine, NEW auth
  PROVE  /\ Elements(AboutPlace(s)) \cap Elements(AboutTrust(s, engine)) = {}
         /\ Elements(AboutType(s)) \cap
              (Elements(AboutPlace(s)) \cup Elements(AboutTrust(s, engine))) = {}
         /\ Elements(AboutLogin(s, auth)) \cap
              (Elements(AboutType(s)) \cup Elements(AboutPlace(s)) \cup Elements(AboutTrust(s, engine))) = {}
<1>1. Elements(AboutType(s)) \subseteq {<<s, "type">>}
  BY TypeQuestions
<1>2. Elements(AboutPlace(s)) \subseteq {<<s, "server">>, <<s, "port">>, <<s, "database">>}
  BY PlaceQuestions
<1>3. Elements(AboutTrust(s, engine)) \subseteq {<<s, "trust">>, <<s, "auth">>}
  BY TrustQuestions
<1>4. Elements(AboutLogin(s, auth)) \subseteq {<<s, "username">>, <<s, "password">>}
  BY LoginQuestions
<1> QED
  BY <1>1, <1>2, <1>3, <1>4

LEMMA PlaceAndTrust ==
  ASSUME NEW s, NEW engine
  PROVE  LET here == AboutPlace(s) \o AboutTrust(s, engine) IN
         /\ IsList(here) /\ Once(here)
         /\ Len(here) = Len(AboutPlace(s)) + Len(AboutTrust(s, engine))
         /\ Elements(here) = Elements(AboutPlace(s)) \cup Elements(AboutTrust(s, engine))
  BY PlaceQuestions, TrustQuestions, PlaceCounts, TrustCounts, GroupsAreApart, JoinedLists, JoinedCounts

LEMMA WholeSection ==
  ASSUME NEW s, NEW engine, NEW auth
  PROVE  LET all == AboutType(s) \o AboutPlace(s) \o AboutTrust(s, engine) \o AboutLogin(s, auth) IN
         /\ IsList(all) /\ Once(all) /\ Len(all) = AskedOf(s, engine, auth)
         /\ Elements(all) = Elements(AboutType(s)) \cup Elements(AboutPlace(s))
                              \cup Elements(AboutTrust(s, engine)) \cup Elements(AboutLogin(s, auth))
<1> DEFINE a == AboutType(s)
           b == AboutPlace(s)
           c == AboutTrust(s, engine)
           d == AboutLogin(s, auth)
<1>1. /\ IsList(a) /\ Once(a) /\ IsList(b) /\ Once(b)
      /\ IsList(c) /\ Once(c) /\ IsList(d) /\ Once(d)
  BY TypeQuestions, PlaceQuestions, TrustQuestions, LoginQuestions,
     TypeCounts, PlaceCounts, TrustCounts, LoginCounts
<1>2. /\ Elements(b) \cap Elements(c) = {}
      /\ Elements(a) \cap (Elements(b) \cup Elements(c)) = {}
      /\ Elements(d) \cap (Elements(a) \cup Elements(b) \cup Elements(c)) = {}
  BY GroupsAreApart
<1>3. AskedOf(s, engine, auth) = Len(a) + Len(b) + Len(c) + Len(d)
  BY DEF AskedOf
<1> HIDE DEF a, b, c, d
<1>4. /\ IsList(a \o b) /\ Once(a \o b) /\ Len(a \o b) = Len(a) + Len(b)
      /\ Elements(a \o b) = Elements(a) \cup Elements(b)
  BY <1>1, <1>2, JoinedLists, JoinedCounts
<1> DEFINE ab == a \o b
<1> HIDE DEF ab
<1>5. /\ IsList(ab) /\ Once(ab) /\ Len(ab) = Len(a) + Len(b)
      /\ Elements(ab) = Elements(a) \cup Elements(b)
  BY <1>4 DEF ab
<1>6. /\ IsList(ab \o c) /\ Once(ab \o c) /\ Len(ab \o c) = Len(a) + Len(b) + Len(c)
      /\ Elements(ab \o c) = Elements(a) \cup Elements(b) \cup Elements(c)
  <2>1. Elements(ab) \cap Elements(c) = {}
    BY <1>2, <1>5
  <2> QED
    BY <1>1, <1>5, <2>1, JoinedLists, JoinedCounts
<1> DEFINE abc == ab \o c
<1> HIDE DEF abc
<1>7. /\ IsList(abc) /\ Once(abc) /\ Len(abc) = Len(a) + Len(b) + Len(c)
      /\ Elements(abc) = Elements(a) \cup Elements(b) \cup Elements(c)
  BY <1>6 DEF abc
<1>8. /\ IsList(abc \o d) /\ Once(abc \o d) /\ Len(abc \o d) = Len(a) + Len(b) + Len(c) + Len(d)
      /\ Elements(abc \o d) = Elements(a) \cup Elements(b) \cup Elements(c) \cup Elements(d)
  <2>1. Elements(abc) \cap Elements(d) = {}
    BY <1>2, <1>7
  <2> QED
    BY <1>1, <1>7, <2>1, JoinedLists, JoinedCounts
<1> QED
  BY <1>3, <1>8 DEF a, b, c, d, ab, abc

\* The questions to be asked about a section once its engine and login are known, and
\* how many were expected before.
LEMMA ExpectedSection ==
  ASSUME NEW s, NEW engine, NEW auth \in AuthOf(s, engine), auth \in AuthModes
  PROVE  LET known == Len(AboutPlace(s)) + Len(AboutTrust(s, engine)) + Len(AboutLogin(s, auth)) IN
         /\ Expected(s, engine, auth) = known
         /\ engine = "oracle" \/ AuthKnown(s) \/ auth = "password" => Expected(s, engine, "") = known
         /\ Expected(s, engine, "") \in Nat /\ known \in Nat /\ known <= Expected(s, engine, "")
         /\ Len(AboutPlace(s)) \in Nat /\ Len(AboutTrust(s, engine)) \in Nat
         /\ Len(AboutLogin(s, auth)) \in Nat
<1> DEFINE given == supplied.section[s].given
           places == One("server" \notin given) + One("port" \notin given) + One("database" \notin given)
           none == ""
           open == supplied.section[s].trust = none
           own == supplied.section[s].auth
           late == One(~supplied.section[s].user) + 1
           trusts == IF engine = "oracle" THEN 0 ELSE One(open) + One(own = none)
           logins(mode) == IF mode = "windows" THEN 0 ELSE late
           modeOf(a) == IF engine = "oracle" THEN "password"
                        ELSE IF a # none THEN a ELSE IF own # none THEN own ELSE "password"
<1>1. \A a : Expected(s, engine, a) = places + trusts + logins(modeOf(a))
  BY DEF Expected
<1>2. /\ Len(AboutPlace(s)) = places /\ Len(AboutTrust(s, engine)) = trusts
      /\ Len(AboutLogin(s, auth)) = logins(auth)
  BY PlaceCounts, TrustCounts, LoginCounts
<1> HIDE DEF none
<1>3. places \in Nat /\ trusts \in Nat /\ late \in Nat
  BY DEF One
<1>4. /\ engine = "oracle" => auth = "password"
      /\ engine # "oracle" /\ own # none => auth = own
  BY DEF AuthOf, none
<1>5. none \notin AuthModes
  BY DEF AuthModes, none
<1> HIDE DEF places, trusts, late, own
<1>6. auth # none /\ (auth = "windows" \/ auth = "password")
  BY <1>5 DEF AuthModes
<1>14. AuthKnown(s) <=> own # none
  BY Zenon DEF AuthKnown, own, none
<1>7. /\ modeOf(auth) = auth
      /\ engine = "oracle" \/ AuthKnown(s) \/ auth = "password" => modeOf(none) = auth
      /\ modeOf(none) = "windows" => auth = "windows"
  BY <1>4, <1>6, <1>14
<1>8. /\ logins(auth) \in Nat /\ logins(modeOf(none)) \in Nat
      /\ logins(auth) <= logins(modeOf(none))
  BY <1>3, <1>7
<1> HIDE DEF logins, modeOf
<1>9. Expected(s, engine, auth) = Len(AboutPlace(s)) + Len(AboutTrust(s, engine)) + Len(AboutLogin(s, auth))
  BY <1>1, <1>2, <1>7
<1>10. /\ engine = "oracle" \/ AuthKnown(s) \/ auth = "password" =>
            Expected(s, engine, none) = Expected(s, engine, auth)
       /\ Expected(s, engine, none) \in Nat
       /\ Expected(s, engine, auth) <= Expected(s, engine, none)
  BY <1>1, <1>3, <1>7, <1>8
<1>11. /\ Len(AboutPlace(s)) \in Nat /\ Len(AboutTrust(s, engine)) \in Nat
       /\ Len(AboutLogin(s, auth)) \in Nat
  BY <1>2, <1>3, <1>8
<1> DEFINE known == Len(AboutPlace(s)) + Len(AboutTrust(s, engine)) + Len(AboutLogin(s, auth))
<1>12. /\ Expected(s, engine, auth) = known /\ known \in Nat
       /\ engine = "oracle" \/ AuthKnown(s) \/ auth = "password" => Expected(s, engine, none) = known
       /\ Expected(s, engine, none) \in Nat /\ known <= Expected(s, engine, none)
  BY <1>9, <1>10, <1>11
<1> HIDE DEF known
<1>13. /\ Expected(s, engine, auth) = known /\ known \in Nat
       /\ engine = "oracle" \/ AuthKnown(s) \/ auth = "password" => Expected(s, engine, "") = known
       /\ Expected(s, engine, "") \in Nat /\ known <= Expected(s, engine, "")
  BY <1>12, Zenon DEF none
<1> QED
  BY <1>11, <1>13, Zenon DEF known

LEMMA ExpectedIsNat ==
  ASSUME NEW s, NEW engine, NEW auth
  PROVE  Expected(s, engine, auth) \in Nat
<1> DEFINE given == supplied.section[s].given
           places == One("server" \notin given) + One("port" \notin given) + One("database" \notin given)
           none == ""
           open == One(supplied.section[s].trust = none)
           vague == One(supplied.section[s].auth = none)
           first == One(~supplied.section[s].user)
           own == supplied.section[s].auth
           mode == IF engine = "oracle" THEN "password"
                   ELSE IF auth # none THEN auth ELSE IF own # none THEN own ELSE "password"
<1>1. Expected(s, engine, auth) =
        places + (IF engine = "oracle" THEN 0 ELSE open + vague)
          + (IF mode = "windows" THEN 0 ELSE first + 1)
  BY DEF Expected
<1> HIDE DEF none, own
<1>2. places \in Nat /\ open \in Nat /\ vague \in Nat /\ first \in Nat
  BY DEF One
<1> HIDE DEF places, open, vague, first, mode
<1> QED
  BY <1>1, <1>2

\* What a section is counted with before its engine is known, and what it then takes.
LEMMA EngineMayCostALogin ==
  ASSUME SuppliedInv, stage \notin {"profile", "refused"}, NEW s \in KnownSections,
         NEW engine \in EnginesOf(s)
  PROVE  LET before == Expected(s, supplied.section[s].type, "") IN
         /\ TypeKnown(s) => Expected(s, engine, "") = before
         /\ \/ Expected(s, engine, "") <= before
            \/ /\ engine = "oracle" /\ LateSection(s)
               /\ Expected(s, engine, "") <= before + One(~supplied.section[s].user) + 1
<1> DEFINE given == supplied.section[s].given
           places == One("server" \notin given) + One("port" \notin given) + One("database" \notin given)
           none == ""
           type == supplied.section[s].type
           open == One(supplied.section[s].trust = none)
           own == supplied.section[s].auth
           vague == One(own = none)
           first == One(~supplied.section[s].user)
           trusts(e) == IF e = "oracle" THEN 0 ELSE open + vague
           logins(mode) == IF mode = "windows" THEN 0 ELSE first + 1
           modeOf(e) == IF e = "oracle" THEN "password" ELSE IF own # none THEN own ELSE "password"
           before == Expected(s, type, none)
           now == Expected(s, engine, none)
<1>1. \A e : Expected(s, e, none) = places + trusts(e) + logins(modeOf(e))
  BY DEF Expected
<1>2. TypeKnown(s) <=> type # none
  BY Zenon DEF TypeKnown
<1> HIDE DEF none
<1>3. places \in Nat /\ open \in Nat /\ vague \in Nat /\ first \in Nat
  BY DEF One
<1>4. /\ type # none => engine = type
      /\ engine \in {"sqlserver", "oracle"} /\ type \in {none, "sqlserver", "oracle"}
      /\ none # "oracle"
  BY DEF EnginesOf, Engines, SuppliedInv, none
<1>5. LateSection(s) <=> ~TypeKnown(s) /\ own = "windows"
  BY DEF LateSection
<1>6. now \in Nat
  BY ExpectedIsNat, Zenon
<1> HIDE DEF places, type, open, own, vague, first
<1>7. /\ TypeKnown(s) => now = before
      /\ \/ now <= before
         \/ engine = "oracle" /\ LateSection(s) /\ now <= before + first + 1
  <2>1. CASE engine = type
    BY <1>6, <2>1
  <2>2. CASE engine = "sqlserver" /\ type = none
    <3>1. trusts(engine) = trusts(type) /\ modeOf(engine) = modeOf(type)
      BY <1>4, <2>2
    <3> QED
      BY <1>1, <1>2, <1>6, <2>2, <3>1
  <2>3. CASE engine = "oracle" /\ type = none
    <3>1. now = places + first + 1 /\ before = places + open + vague + logins(modeOf(type))
      BY <1>1, <1>3, <1>4, <2>3
    <3>2. own # "windows" => logins(modeOf(type)) = first + 1
      BY <1>4, <2>3
    <3>3. own = "windows" => logins(modeOf(type)) \in Nat
      BY <1>3
    <3> HIDE DEF logins, modeOf, now, before
    <3> QED
      BY <1>2, <1>3, <1>5, <2>3, <3>1, <3>2, <3>3
  <2> QED
    BY <1>4, <2>1, <2>2, <2>3
<1> QED
  BY <1>7, Zenon DEF none, type, first

\* A section takes as many questions as it was counted with, or fewer, or a late login.
LEMMA SectionWithin ==
  ASSUME SuppliedInv, stage \notin {"profile", "refused"}, NEW s \in KnownSections,
         NEW engine \in EnginesOf(s), NEW auth \in AuthOf(s, engine), auth \in AuthModes
  PROVE  /\ AskedOf(s, engine, auth) \in Nat /\ Counted(s) \in Nat
         /\ \/ AskedOf(s, engine, auth) <= Counted(s)
            \/ /\ engine = "oracle" /\ LateSection(s)
               /\ AskedOf(s, engine, auth) <= Counted(s) + One(~supplied.section[s].user) + 1
<1> DEFINE typed == Len(AboutType(s))
           known == Len(AboutPlace(s)) + Len(AboutTrust(s, engine)) + Len(AboutLogin(s, auth))
           before == Expected(s, supplied.section[s].type, "")
           now == Expected(s, engine, "")
           first == One(~supplied.section[s].user)
<1>1. /\ now \in Nat /\ known \in Nat /\ known <= now
      /\ Len(AboutPlace(s)) \in Nat /\ Len(AboutTrust(s, engine)) \in Nat
      /\ Len(AboutLogin(s, auth)) \in Nat
  BY ExpectedSection, Zenon
<1>2. now <= before \/ (engine = "oracle" /\ LateSection(s) /\ now <= before + first + 1)
  BY EngineMayCostALogin, Zenon
<1>3. before \in Nat
  BY ExpectedIsNat, Zenon
<1>4. Counted(s) = typed + before
  BY TypeCounts, Zenon DEF Counted, TypeKnown
<1>5. typed \in {0, 1} /\ first \in Nat
  BY TypeCounts DEF One
<1> HIDE DEF before, now, typed, first
<1>6. AskedOf(s, engine, auth) = typed + known
  BY <1>1, <1>5 DEF AskedOf, typed
<1> HIDE DEF known
<1> QED
  BY <1>1, <1>2, <1>3, <1>4, <1>5, <1>6 DEF first

-----------------------------------------------------------------------------
\* The counts of a log.

LEMMA UncountedIsNat == Uncounted \in Nat
<1>1. \A s : LateLogin(s) \in Nat
  <2> SUFFICES ASSUME NEW s PROVE LateLogin(s) \in Nat
    OBVIOUS
  <2> DEFINE late == /\ s \in DOMAIN settings /\ settings[s].engine = "oracle"
                     /\ supplied.section[s].type = "" /\ supplied.section[s].auth = "windows"
             user == One(<<s, "username">> \in Asked)
             word == One(<<s, "password">> \in Asked)
  <2>1. LateLogin(s) = IF late THEN user + word ELSE 0
    BY DEF LateLogin
  <2>2. user \in Nat /\ word \in Nat
    BY DEF One
  <2> HIDE DEF late, user, word
  <2> QED
    BY <2>1, <2>2
<1> QED
  BY <1>1 DEF Uncounted, One

LEMMA LateLoginGrows ==
  ASSUME NEW s, UNCHANGED supplied, Asked \subseteq Asked',
         DOMAIN settings \subseteq DOMAIN settings', \A x \in DOMAIN settings : settings'[x] = settings[x]
  PROVE  LateLogin(s) \in Nat /\ LateLogin(s)' \in Nat /\ LateLogin(s) <= LateLogin(s)'
<1> DEFINE open == supplied.section[s].type = "" /\ supplied.section[s].auth = "windows"
           late == s \in DOMAIN settings /\ settings[s].engine = "oracle"
           user == <<s, "username">> \in Asked
           word == <<s, "password">> \in Asked
           laterOn == s \in DOMAIN settings' /\ settings'[s].engine = "oracle"
           userOn == <<s, "username">> \in Asked'
           wordOn == <<s, "password">> \in Asked'
<1>1. (late => laterOn) /\ (user => userOn) /\ (word => wordOn)
  OBVIOUS
<1>2. LateLogin(s) = IF late /\ open THEN One(user) + One(word) ELSE 0
  BY DEF LateLogin
<1>3. LateLogin(s)' = IF laterOn /\ open THEN One(userOn) + One(wordOn) ELSE 0
  BY DEF LateLogin, One
<1> HIDE DEF open, late, user, word, laterOn, userOn, wordOn
<1> QED
  BY <1>1, <1>2, <1>3 DEF One

\* A later answer leaves no question counted that was not.
LEMMA UncountedGrows ==
  ASSUME program = "plan", UNCHANGED <<program, supplied>>, Asked \subseteq Asked',
         DOMAIN settings \subseteq DOMAIN settings', \A x \in DOMAIN settings : settings'[x] = settings[x]
  PROVE  Uncounted \in Nat /\ Uncounted' \in Nat /\ Uncounted <= Uncounted'
<1> DEFINE source == LateLogin("source")
           target == LateLogin("target")
           sourceOn == LateLogin("source")'
           targetOn == LateLogin("target")'
           bookAsked == <<"run", "workbook">> \in Asked
           bookAskedOn == <<"run", "workbook">> \in Asked'
<1>1. /\ source \in Nat /\ sourceOn \in Nat /\ source <= sourceOn
      /\ target \in Nat /\ targetOn \in Nat /\ target <= targetOn
  BY LateLoginGrows
<1>2. bookAsked => bookAskedOn
  OBVIOUS
<1>3. /\ Uncounted = One(bookAsked) + source + target /\ Uncounted' = One(bookAskedOn) + sourceOn + targetOn
  BY DEF Uncounted, One
<1> HIDE DEF source, target, sourceOn, targetOn, bookAsked, bookAskedOn
<1> QED
  BY <1>1, <1>2, <1>3 DEF One

LEMMA NumberedStill ==
  ASSUME NEW list, NEW a \in Int, NEW b \in Int, IsList(list), Numbered(list, a), a <= b
  PROVE  Numbered(list, b)
<1>1. PICK S : list \in Seq(S)
  BY DEF IsList
<1>2. \A k \in DOMAIN list : k \in Int
  BY <1>1, LenProperties
<1> QED
  BY <1>2 DEF Numbered

\* While there are no settings and no questions, all counts are zero.
Unasked == log = << >> /\ DOMAIN settings = {}
Fresh ==
  /\ NoneTwice(log) /\ Numbered(log, Uncounted) /\ Falling(log, total) /\ GivenInv
  /\ Asked = {} /\ Len(log) = 0 /\ (program = "plan" => Uncounted = 0)
  /\ One(<<"run", "workbook">> \in Asked) + Spent("source") + Spent("target") = 0

LEMMA NothingAsked == Unasked => Fresh
<1> SUFFICES ASSUME Unasked PROVE Fresh
  OBVIOUS
<1>1. Asked = {} /\ Len(log) = 0 /\ DOMAIN log = {} /\ DOMAIN settings = {}
  BY DEF Asked, Unasked
<1>2. NoneTwice(log) /\ Numbered(log, Uncounted) /\ GivenInv /\ Falling(log, total)
  BY <1>1 DEF NoneTwice, Numbered, Falling, GivenInv
<1>3. LateLogin("source") = 0 /\ LateLogin("target") = 0
  BY <1>1 DEF LateLogin
<1>4. One(<<"run", "workbook">> \in Asked) = 0
  BY <1>1 DEF One
<1>5. Spent("source") = 0 /\ Spent("target") = 0
  BY <1>1 DEF Spent
<1> QED
  BY <1>1, <1>2, <1>3, <1>4, <1>5 DEF Uncounted, Fresh

-----------------------------------------------------------------------------
\* What the profile says stays what it was.

LEMMA ExpectedKept ==
  ASSUME supplied' = supplied
  PROVE  \A s, e, a : Expected(s, e, a)' = Expected(s, e, a)
<1> DEFINE body(sup, s, e, a) ==
             LET t == sup.section[s]
                 mode == IF e = "oracle" THEN "password"
                         ELSE IF a # "" THEN a ELSE IF t.auth # "" THEN t.auth ELSE "password"
             IN One("server" \notin t.given) + One("port" \notin t.given) + One("database" \notin t.given)
                + (IF e = "oracle" THEN 0 ELSE One(t.trust = "") + One(t.auth = ""))
                + (IF mode = "windows" THEN 0 ELSE One(~t.user) + 1)
<1>1. \A s, e, a : /\ Expected(s, e, a) = body(supplied, s, e, a)
                   /\ Expected(s, e, a)' = body(supplied', s, e, a)
  BY DEF Expected, One
<1> HIDE DEF body
<1> QED
  BY <1>1

LEMMA AskedOfKept ==
  ASSUME supplied' = supplied
  PROVE  \A s, e, a : AskedOf(s, e, a)' = AskedOf(s, e, a)
<1> DEFINE body(sup, s, e, a) ==
             LET about(p) == Optional(p \notin sup.section[s].given, <<s, p>>)
             IN Len(Optional(sup.section[s].type = "", <<s, "type">>))
                + Len(about("server") \o about("port") \o about("database"))
                + Len(IF e = "oracle" THEN << >>
                      ELSE Optional(sup.section[s].trust = "", <<s, "trust">>)
                             \o Optional(sup.section[s].auth = "", <<s, "auth">>))
                + Len(IF a = "windows" THEN << >>
                      ELSE Optional(~sup.section[s].user, <<s, "username">>) \o << <<s, "password">> >>)
<1>1. \A s, e, a : /\ AskedOf(s, e, a) = body(supplied, s, e, a)
                   /\ AskedOf(s, e, a)' = body(supplied', s, e, a)
  BY DEF AskedOf, AboutType, AboutPlace, AboutTrust, AboutLogin
<1> HIDE DEF body
<1> QED
  BY <1>1

LEMMA SayingsKept ==
  ASSUME supplied' = supplied
  PROVE  /\ \A s : /\ TypeKnown(s)' = TypeKnown(s) /\ AuthKnown(s)' = AuthKnown(s)
                   /\ LateSection(s)' = LateSection(s) /\ EnginesOf(s)' = EnginesOf(s)
                   /\ Counted(s)' = Counted(s)
         /\ \A s, e : AuthOf(s, e)' = AuthOf(s, e)
<1> DEFINE typeKnown(sup, s) == sup.section[s].type # ""
           authKnown(sup, s) == sup.section[s].auth # ""
           engines(sup, s) == IF sup.section[s].type = "" THEN Engines ELSE {sup.section[s].type}
           auths(sup, s, e) == IF e = "oracle" THEN {"password"}
                               ELSE IF sup.section[s].auth = "" THEN AuthModes ELSE {sup.section[s].auth}
<1>1. \A s : /\ TypeKnown(s) = typeKnown(supplied, s) /\ TypeKnown(s)' = typeKnown(supplied', s)
             /\ AuthKnown(s) = authKnown(supplied, s) /\ AuthKnown(s)' = authKnown(supplied', s)
             /\ EnginesOf(s) = engines(supplied, s) /\ EnginesOf(s)' = engines(supplied', s)
  BY DEF TypeKnown, AuthKnown, EnginesOf
<1>2. \A s, e : AuthOf(s, e) = auths(supplied, s, e) /\ AuthOf(s, e)' = auths(supplied', s, e)
  BY DEF AuthOf
<1>3. \A s : \A a : Expected(s, supplied.section[s].type, a)' = Expected(s, supplied.section[s].type, a)
  BY ExpectedKept
<1> HIDE DEF typeKnown, authKnown, engines, auths
<1>4. \A s : TypeKnown(s)' = TypeKnown(s) /\ AuthKnown(s)' = AuthKnown(s) /\ EnginesOf(s)' = EnginesOf(s)
  BY <1>1
<1>5. \A s, e : AuthOf(s, e)' = AuthOf(s, e)
  BY <1>2
<1>6. \A s : LateSection(s)' = LateSection(s)
  BY <1>4 DEF LateSection
<1>7. \A s : Counted(s)' = Counted(s)
  BY <1>3, <1>4, Zenon DEF Counted, One
<1> QED
  BY <1>4, <1>5, <1>6, <1>7

LEMMA TurnedOracleIs ==
  \A s : TurnedOracle(s) <=> s \in DOMAIN settings /\ settings[s].engine = "oracle" /\ LateSection(s)
  BY Zenon DEF TurnedOracle, LateSection, TypeKnown

LEMMA TurnedOracleNext ==
  ASSUME UNCHANGED supplied
  PROVE  \A s : TurnedOracle(s)' <=>
           s \in DOMAIN settings' /\ settings'[s].engine = "oracle" /\ LateSection(s)
<1>1. (\A s : TurnedOracle(s) <=>
          s \in DOMAIN settings /\ settings[s].engine = "oracle" /\ LateSection(s))'
  BY TurnedOracleIs, PTL
<1>2. \A s : LateSection(s)' = LateSection(s)
  BY SayingsKept
<1> QED
  BY <1>1, <1>2

LEMMA TotalKept ==
  ASSUME supplied' = supplied
  PROVE  /\ ExpectedFirst' = ExpectedFirst
         /\ \A e, x, y : ExpectedTotal(e, x, y)' = ExpectedTotal(e, x, y)
<1> DEFINE first(sup) == One(sup.workbook = "") + One(sup.sheet = "") + One(sup.section.source.type = "")
<1>1. ExpectedFirst = first(supplied) /\ ExpectedFirst' = first(supplied')
  BY DEF ExpectedFirst, One
<1> HIDE DEF first
<1>2. ExpectedFirst' = ExpectedFirst
  BY <1>1
<1> QED
  BY <1>2, ExpectedKept DEF ExpectedTotal

\* What a plan's sections are counted with.
LEMMA CountOfSections ==
  \A sections :
    ExpectedCount(sections) =
      (IF \E k \in DOMAIN sections : sections[k] = "source" THEN Counted("source") ELSE 0)
      + (IF \E k \in DOMAIN sections : sections[k] = "target" THEN Counted("target") ELSE 0)
<1>1. \A s : Counted(s) = One(supplied.section[s].type = "") + Expected(s, supplied.section[s].type, "")
  BY Zenon DEF Counted, TypeKnown, One
<1> QED
  BY <1>1 DEF ExpectedCount

LEMMA CountKept ==
  ASSUME supplied' = supplied
  PROVE  \A sections : ExpectedCount(sections)' = ExpectedCount(sections)
<1>1. \A s : Counted(s)' = One(supplied.section[s].type = "")' + Expected(s, supplied.section[s].type, "")'
  BY Zenon DEF Counted, TypeKnown, One
<1>2. \A sections :
        ExpectedCount(sections)' =
          (IF \E k \in DOMAIN sections : sections[k] = "source" THEN Counted("source")' ELSE 0)
          + (IF \E k \in DOMAIN sections : sections[k] = "target" THEN Counted("target")' ELSE 0)
  BY <1>1 DEF ExpectedCount
<1> QED
  BY <1>2, CountOfSections, SayingsKept

-----------------------------------------------------------------------------
\* The counts, step by step.

LEMMA CountInit == StartupInit => CountInv
<1> SUFFICES ASSUME StartupInit PROVE CountInv
  OBVIOUS
<1>1. stage = "profile" /\ log = << >> /\ settings = << >> /\ DOMAIN settings = {}
  BY DEF StartupInit, AskingInit
<1>2. Fresh
  BY <1>1, NothingAsked DEF Unasked
<1> QED
  BY <1>1, <1>2 DEF Fresh, CountInv, WordsInv, PlanCountInv, WizardCountInv

\* Where nothing is asked and nothing answered, the log keeps what it has.
LEMMA GivenKept ==
  ASSUME GivenInv, UNCHANGED <<program, supplied, flags, settings, log>>
  PROVE  GivenInv'
<1>1. Asked' = Asked
  BY DEF Asked
<1>2. /\ \A s : EnginesOf(s)' = EnginesOf(s)
      /\ \A s, e : AuthOf(s, e)' = AuthOf(s, e)
  BY SayingsKept
<1> QED
  BY <1>1, <1>2 DEF GivenInv

LEMMA WordsKept ==
  ASSUME WordsInv, UNCHANGED supplied, stage \notin {"profile", "refused"} \/ stage' = stage
  PROVE  WordsInv'
<1> DEFINE words(sup) == sup.workbook \in {"", "there", "gone"} /\ sup.sheet \in {"", "there", "gone"}
<1>1. /\ WordsInv <=> (stage \notin {"profile", "refused"} => words(supplied))
      /\ WordsInv' <=> (stage' \notin {"profile", "refused"} => words(supplied'))
  BY DEF WordsInv
<1> HIDE DEF words
<1> QED
  BY <1>1

LEMMA SpentKept ==
  ASSUME UNCHANGED <<supplied, settings>>
  PROVE  \A s : Spent(s)' = Spent(s)
  BY AskedOfKept DEF Spent

LEMMA UncountedKept ==
  ASSUME UNCHANGED <<program, supplied, settings, log>>
  PROVE  Uncounted' = Uncounted
<1> DEFINE late(sup, asked, s) ==
             IF /\ s \in DOMAIN settings /\ settings[s].engine = "oracle"
                /\ sup.section[s].type = "" /\ sup.section[s].auth = "windows"
             THEN One(<<s, "username">> \in asked) + One(<<s, "password">> \in asked)
             ELSE 0
           gone(sup) == One(sup.workbook = "gone") + One(sup.sheet = "gone")
<1>1. \A s : LateLogin(s) = late(supplied, Asked, s) /\ LateLogin(s)' = late(supplied', Asked', s)
  BY DEF LateLogin, One
<1> HIDE DEF late
<1>2. Asked' = Asked
  BY DEF Asked
<1>3. \A s : LateLogin(s)' = LateLogin(s)
  BY <1>1, <1>2
<1> QED
  BY <1>2, <1>3 DEF Uncounted, One

\* Reading the workbook asks nothing.
LEMMA CountUntouched ==
  ASSUME CountInv, UNCHANGED asking, UNCHANGED program
  PROVE  CountInv'
<1>1. UNCHANGED <<flags, stage, supplied, log, total, needed, settings>>
  BY DEF asking
<1>2. Asked' = Asked
  BY <1>1 DEF Asked
<1>3. GivenInv'
  BY <1>1, GivenKept DEF CountInv
<1>4. Uncounted' = Uncounted
  BY <1>1, UncountedKept
<1>5. NoneTwice(log)' /\ Numbered(log, Uncounted)'
  BY <1>1, <1>4 DEF CountInv, NoneTwice, Numbered
<1>6. PlanCountInv'
  <2>1. Spent("source")' = Spent("source") /\ Spent("target")' = Spent("target")
    BY <1>1, SpentKept
  <2>2. ExpectedCount(needed)' = ExpectedCount(needed)
    BY <1>1, CountKept
  <2> QED
    BY <1>1, <1>2, <2>1, <2>2 DEF CountInv, PlanCountInv, One
<1>7. WizardCountInv'
  <2>1. /\ TurnedOracle("source")' = TurnedOracle("source")
        /\ Falling(log, total)' = Falling(log, total)
    BY <1>1 DEF Falling, TurnedOracle
  <2>2. ExpectedTotal(settings.source.engine, settings.source.auth, "")'
          = ExpectedTotal(settings.source.engine, settings.source.auth, "")
    BY <1>1, TotalKept
  <2>3. ExpectedTotal(supplied.section.source.type, "", "")'
          = ExpectedTotal(supplied.section.source.type, "", "")
    BY <1>1, TotalKept
  <2>4. Expected("target", "sqlserver", "")' = Expected("target", "sqlserver", "")
    BY <1>1, ExpectedKept
  <2>5. ExpectedFirst' = ExpectedFirst /\ One(~TypeKnown("source"))' = One(~TypeKnown("source"))
    BY <1>1, TotalKept, SayingsKept DEF One
  <2> QED
    BY <1>1, <1>4, <2>1, <2>2, <2>3, <2>4, <2>5 DEF CountInv, WizardCountInv
<1>8. WordsInv'
  BY <1>1, WordsKept DEF CountInv
<1> QED
  BY <1>3, <1>5, <1>6, <1>7, <1>8 DEF CountInv

LEMMA ProfileCount ==
  ASSUME StartInv, CountInv, Begin, UNCHANGED vars
  PROVE  CountInv'
<1>1. /\ stage = "profile" /\ UNCHANGED <<flags, log, settings, program>>
  BY DEF Begin, ReadProfile, vars
<1>2. DOMAIN settings = {} /\ log = << >>
  BY <1>1 DEF StartInv, StageInv, LogInv, NeededInv, WizardInv, CountInv, PlanCountInv, WizardCountInv
<1>3. stage' \in {"refused", IF program = "plan" THEN "workbook" ELSE "wizard"}
  BY DEF Begin, ReadProfile
<1>4. Unasked'
  BY <1>1, <1>2 DEF Unasked
<1>5. Fresh'
  BY <1>4, NothingAsked, PTL
<1>6. WordsInv'
  <2> DEFINE words == {"", "there", "gone"}
  <2>1. /\ document.workbook \in words /\ document.sheet \in words /\ flags.sheet \in words
    BY DEF StartInv, StageInv, DocumentType, FlagsType
  <2>2. SheetNamed(document) \in {document.sheet, flags.sheet}
    BY DEF SheetNamed
  <2>3. stage' # "refused" => supplied'.workbook = document.workbook
                                /\ supplied'.sheet = SheetNamed(document)
    BY <1>3 DEF Begin, ReadProfile
  <2>4. WordsInv' <=> (stage' \notin {"profile", "refused"} =>
                         supplied'.workbook \in words /\ supplied'.sheet \in words)
    BY DEF WordsInv
  <2> HIDE DEF words
  <2> QED
    BY <2>1, <2>2, <2>3, <2>4
<1> QED
  BY <1>3, <1>4, <1>5, <1>6 DEF Unasked, Fresh, CountInv, PlanCountInv, WizardCountInv

LEMMA WizardCount ==
  ASSUME StartInv, CountInv, BeginWizard, UNCHANGED vars
  PROVE  CountInv'
<1>1. /\ stage = "wizard" /\ program = "older" /\ stage' \in {"refused", "book"}
      /\ UNCHANGED <<flags, supplied, log, settings, program>>
  BY DEF BeginWizard, vars, StartInv, StageInv
<1>2. DOMAIN settings = {} /\ log = << >>
  BY <1>1 DEF StartInv, WizardInv, CountInv, WizardCountInv
<1>3. Unasked'
  BY <1>1, <1>2 DEF Unasked
<1>4. Fresh'
  BY <1>3, NothingAsked, PTL
<1>5. stage' = "book" => total' = ExpectedTotal(supplied.section.source.type, "", "")'
  <2>1. ExpectedTotal(supplied.section.source.type, "", "")'
          = ExpectedTotal(supplied.section.source.type, "", "")
    BY <1>1, TotalKept
  <2>2. stage' = "book" => total' = ExpectedTotal(supplied.section.source.type, "", "")
    BY DEF BeginWizard
  <2> QED
    BY <2>1, <2>2, Zenon
<1>6. WordsInv'
  BY <1>1, WordsKept DEF CountInv
<1> QED
  BY <1>1, <1>3, <1>4, <1>5, <1>6 DEF Unasked, Fresh, CountInv, PlanCountInv, WizardCountInv

\* The one question of `reconcile run` that no total counts.
LEMMA WorkbookCount ==
  ASSUME StartInv, CountInv, ChooseWorkbook, UNCHANGED vars
  PROVE  CountInv'
<1>1. /\ stage = "workbook" /\ program = "plan" /\ stage' \in {"reading", "refused"}
      /\ UNCHANGED <<flags, supplied, settings, program>>
  BY DEF ChooseWorkbook, Onwards, vars, StartInv, StageInv
<1>2. DOMAIN settings = {} /\ log = << >> /\ settings' = << >>
  BY <1>1 DEF StartInv, LogInv, NeededInv, CountInv, PlanCountInv
<1>5. WordsInv'
  BY <1>1, WordsKept DEF CountInv
<1>3. CASE log' = log
  <2>1. Unasked'
    BY <1>1, <1>2, <1>3 DEF Unasked
  <2>2. Fresh'
    BY <2>1, NothingAsked, PTL
  <2> QED
    BY <1>1, <1>5, <2>1, <2>2 DEF Unasked, Fresh, CountInv, PlanCountInv, WizardCountInv
<1>4. CASE log' = Ask(log, << <<"run", "workbook">> >>, 1)
  <2> DEFINE questions == << <<"run", "workbook">> >>
  <2>1. /\ IsList(questions) /\ Elements(questions) = {<<"run", "workbook">>}
        /\ Len(questions) = 1 /\ Once(questions)
    BY ShortLists DEF Once
  <2>2. /\ IsList(log) /\ Len(log) = 0 /\ Abouts(log) = {} /\ DOMAIN log = {}
    BY <1>2, ShortLists DEF Abouts
  <2>3. NoneTwice(log) /\ Numbered(log, 1)
    BY <2>2 DEF NoneTwice, Numbered
  <2>4. log' = Ask(log, questions, 1)
    BY <1>4
  <2> HIDE DEF questions
  <2>5. /\ Len(log') = 1 /\ NoneTwice(log') /\ Numbered(log', 1)
        /\ Abouts(log') = {<<"run", "workbook">>}
    <3>1. /\ Len(log') = Len(log) + Len(questions)
          /\ NoneTwice(log) /\ Once(questions) /\ Abouts(log) \cap Elements(questions) = {} =>
               NoneTwice(log')
          /\ Numbered(log, 1) /\ Len(log') <= 1 + 1 => Numbered(log', 1)
      BY <2>1, <2>2, <2>4, AskedCounts
    <3>2. Abouts(log') = Abouts(log) \cup Elements(questions)
      BY <2>1, <2>2, <2>4, AskedQuestions
    <3> QED
      BY <2>1, <2>2, <2>3, <3>1, <3>2
  <2>6. /\ LateLogin("source")' = 0 /\ LateLogin("target")' = 0
        /\ Spent("source")' = 0 /\ Spent("target")' = 0 /\ GivenInv'
    BY <1>1, <1>2 DEF LateLogin, Spent, GivenInv
  <2>7. One(<<"run", "workbook">> \in Asked)' = 1
    BY <2>5 DEF One, Asked, Abouts
  <2>8. Uncounted' = 1
    BY <1>1, <2>6, <2>7 DEF Uncounted
  <2> QED
    BY <1>1, <1>2, <1>5, <2>5, <2>6, <2>7, <2>8 DEF CountInv, PlanCountInv, WizardCountInv
<1> QED
  BY <1>3, <1>4 DEF ChooseWorkbook

LEMMA TotalParts ==
  /\ ExpectedFirst \in Nat /\ One(~TypeKnown("source")) <= ExpectedFirst
  /\ \A e, x, y : ExpectedTotal(e, x, y) =
                    ExpectedFirst + Expected("source", e, x) + Expected("target", "sqlserver", y)
<1> DEFINE bookWord == One(supplied.workbook = "")
           sheet == One(supplied.sheet = "")
           type == One(supplied.section.source.type = "")
<1>1. ExpectedFirst = bookWord + sheet + type
  BY DEF ExpectedFirst
<1>2. bookWord \in Nat /\ sheet \in Nat /\ type \in Nat
  BY DEF One
<1>3. One(~TypeKnown("source")) = type
  BY Zenon DEF TypeKnown, One
<1> HIDE DEF bookWord, sheet, type
<1>4. ExpectedFirst \in Nat /\ One(~TypeKnown("source")) <= ExpectedFirst
  BY <1>1, <1>2, <1>3
<1>5. \A e, x, y : ExpectedTotal(e, x, y) =
                     ExpectedFirst + Expected("source", e, x) + Expected("target", "sqlserver", y)
  BY DEF ExpectedTotal
<1> QED
  BY <1>4, <1>5

LEMMA FallingFurther ==
  ASSUME NEW list, NEW extra, Numbered(list, extra), NEW a \in Int, NEW b \in Int, b <= a,
         Falling(list, a)
  PROVE  Falling(list, b)
  BY DEF Numbered, Falling

\* The wizard asks for the workbook and the sheet that are not there.
LEMMA BookCount ==
  ASSUME StartInv, CountInv, AskBook, UNCHANGED vars
  PROVE  CountInv'
<1>1. /\ stage = "book" /\ program = "older" /\ ~flags.unattended /\ stage' \in {"refused", "source"}
      /\ UNCHANGED <<flags, supplied, total, settings, program>>
  BY DEF AskBook, vars, StartInv, StageInv
<1>2. /\ settings' = << >> /\ DOMAIN settings' = {} /\ log = << >>
      /\ total = ExpectedTotal(supplied.section.source.type, "", "")
  <2>1. settings' = << >> /\ DOMAIN settings' = {}
    BY <1>1 DEF StartInv, WizardInv
  <2>3. log = << >>
    BY <1>1, Zenon DEF CountInv, WizardCountInv
  <2>2. total = ExpectedTotal(supplied.section.source.type, "", "")
    BY <1>1, Zenon DEF CountInv, WizardCountInv
  <2> QED
    BY <2>1, <2>2, <2>3, Zenon
<1> DEFINE start == ExpectedTotal(supplied.section.source.type, "", "")
           one == Optional(supplied.workbook # "there", <<"run", "workbook">>)
           two == Optional(supplied.sheet # "there", <<"run", "sheet">>)
           missing == One(supplied.workbook # "there") + One(supplied.sheet # "there")
           questions == one \o two
<1>3. /\ IsList(questions) /\ Once(questions) /\ Len(questions) = missing
  <2>1. /\ IsList(one) /\ Elements(one) \subseteq {<<"run", "workbook">>} /\ Once(one)
        /\ Len(one) = One(supplied.workbook # "there")
        /\ IsList(two) /\ Elements(two) \subseteq {<<"run", "sheet">>} /\ Once(two)
        /\ Len(two) = One(supplied.sheet # "there")
    BY OptionalList, OptionalCount
  <2> HIDE DEF one, two
  <2>2. Elements(one) \cap Elements(two) = {}
    BY <2>1
  <2> QED
    BY <2>1, <2>2, JoinedLists, JoinedCounts
<1>4. log' = Ask(log, questions, total)
  BY DEF AskBook
<1>5. missing + One(~TypeKnown("source")) = ExpectedFirst + Uncounted
  <2> DEFINE none == ""
             bookWord == supplied.workbook
             sheet == supplied.sheet
             type == supplied.section.source.type
  <2>1. ExpectedFirst = One(bookWord = none) + One(sheet = none) + One(type = none)
    BY DEF ExpectedFirst
  <2>2. Uncounted = One(bookWord = "gone") + One(sheet = "gone")
    BY <1>1 DEF Uncounted
  <2>3. One(~TypeKnown("source")) = One(type = none)
    BY Zenon DEF TypeKnown, One
  <2>4. bookWord \in {none, "there", "gone"} /\ sheet \in {none, "there", "gone"}
    BY <1>1 DEF CountInv, WordsInv
  <2>5. none # "there" /\ none # "gone"
    BY DEF none
  <2>6. missing = One(bookWord # "there") + One(sheet # "there")
    OBVIOUS
  <2> HIDE DEF none, bookWord, sheet, type, missing
  <2>7. /\ One(bookWord # "there") = One(bookWord = none) + One(bookWord = "gone")
        /\ One(sheet # "there") = One(sheet = none) + One(sheet = "gone")
    BY <2>4, <2>5 DEF One
  <2>8. /\ One(bookWord = none) \in Nat /\ One(bookWord = "gone") \in Nat
        /\ One(sheet = none) \in Nat /\ One(sheet = "gone") \in Nat /\ One(type = none) \in Nat
    BY DEF One
  <2> QED
    BY <2>1, <2>2, <2>3, <2>6, <2>7, <2>8
<1> HIDE DEF questions, missing
<1>6. /\ ExpectedFirst <= total /\ total \in Nat /\ Uncounted \in Nat /\ ExpectedFirst \in Nat
  <2>1. Uncounted \in Nat
    BY UncountedIsNat
  <2>2. /\ start \in Nat /\ ExpectedFirst \in Nat /\ ExpectedFirst <= start
    <3> DEFINE source == Expected("source", supplied.section.source.type, "")
               target == Expected("target", "sqlserver", "")
    <3>1. start = ExpectedFirst + source + target /\ ExpectedFirst \in Nat
      BY TotalParts, Zenon
    <3>2. source \in Nat /\ target \in Nat
      BY ExpectedIsNat, Zenon
    <3> HIDE DEF source, target, start
    <3> QED
      BY <3>1, <3>2
  <2>3. total = start
    BY <1>2
  <2> HIDE DEF start
  <2> QED
    BY <2>1, <2>2, <2>3
<1>7. /\ IsList(log) /\ Len(log) = 0 /\ Abouts(log) = {} /\ NoneTwice(log)
      /\ Numbered(log, Uncounted) /\ Falling(log, total)
  <2>1. IsList(log) /\ DOMAIN log = {} /\ Len(log) = 0
    BY <1>2, ShortLists
  <2> QED
    BY <2>1 DEF Abouts, NoneTwice, Numbered, Falling
<1>8. /\ Len(log') = missing /\ NoneTwice(log') /\ Falling(log', total)
      /\ Len(log') <= total + Uncounted => Numbered(log', Uncounted)
  <2>1. /\ Len(log') = Len(log) + Len(questions) /\ Len(questions) \in Nat
        /\ NoneTwice(log) /\ Once(questions) /\ Abouts(log) \cap Elements(questions) = {} =>
             NoneTwice(log')
        /\ \A extra \in Int : Numbered(log, extra) /\ Len(log') <= total + extra => Numbered(log', extra)
        /\ Falling(log, total) => Falling(log', total)
    BY <1>3, <1>4, <1>6, <1>7, AskedCounts
  <2>2. Len(log') = missing
    BY <1>3, <1>7, <2>1
  <2> QED
    BY <1>3, <1>6, <1>7, <2>1, <2>2
<1>9. Numbered(log', Uncounted)
  <2>1. One(~TypeKnown("source")) \in Nat /\ missing \in Nat
    BY DEF One, missing
  <2> QED
    BY <1>5, <1>6, <1>8, <2>1
<1>10. /\ Uncounted' = Uncounted /\ One(~TypeKnown("source"))' = One(~TypeKnown("source"))
       /\ ExpectedFirst' = ExpectedFirst
  BY <1>1, TotalKept, SayingsKept DEF Uncounted, One
<1>11. total' = ExpectedTotal(supplied.section.source.type, "", "")'
  <2>1. ExpectedTotal(supplied.section.source.type, "", "")' = start
    BY <1>1, TotalKept
  <2> QED
    BY <1>1, <1>2, <2>1, Zenon DEF start
<1>12. WordsInv' /\ GivenInv'
  BY <1>1, <1>2, WordsKept DEF CountInv, GivenInv
<1>13. WizardCountInv'
  <2>1. /\ stage' \in {"refused", "source"} /\ Falling(log', total')
        /\ Len(log)' + One(~TypeKnown("source"))' = ExpectedFirst' + Uncounted'
    BY <1>1, <1>5, <1>8, <1>10
  <2> QED
    BY <1>11, <2>1 DEF WizardCountInv
<1>14. PlanCountInv'
  BY <1>1 DEF PlanCountInv
<1> QED
  BY <1>8, <1>9, <1>10, <1>12, <1>13, <1>14 DEF CountInv

\* What was asked so far is about something else.
LEMMA AskedElsewhere ==
  ASSUME LogInv, StageInv, NEW s \in KnownSections \ DOMAIN settings, NEW engine, NEW auth
  PROVE  Abouts(log) \cap (Elements(AboutType(s)) \cup Elements(AboutPlace(s))
           \cup Elements(AboutTrust(s, engine)) \cup Elements(AboutLogin(s, auth))) = {}
<1>1. Asked = Abouts(log)
  BY DEF Asked, Abouts
<1>2. \A q \in Abouts(log) : q[1] # s
  BY <1>1, AskedBefore
<1>3. \A q \in Elements(AboutType(s)) \cup Elements(AboutPlace(s)) : q[1] = s
  <2>1. /\ Elements(AboutType(s)) \subseteq {<<s, "type">>}
        /\ Elements(AboutPlace(s)) \subseteq {<<s, "server">>, <<s, "port">>, <<s, "database">>}
    BY TypeQuestions, PlaceQuestions
  <2> QED
    BY <2>1
<1>4. \A q \in Elements(AboutTrust(s, engine)) \cup Elements(AboutLogin(s, auth)) : q[1] = s
  <2>1. /\ Elements(AboutTrust(s, engine)) \subseteq {<<s, "trust">>, <<s, "auth">>}
        /\ Elements(AboutLogin(s, auth)) \subseteq {<<s, "username">>, <<s, "password">>}
    BY TrustQuestions, LoginQuestions
  <2> QED
    BY <2>1
<1> QED
  BY <1>2, <1>3, <1>4

\* The source: its type, its place, its login.
LEMMA SourceCount ==
  ASSUME StartInv, CountInv, NEW engine \in EnginesOf("source"),
         NEW auth \in AuthOf("source", engine), NEW trust \in TrustOf("source", engine),
         AskSource(engine, auth, trust), UNCHANGED vars
  PROVE  CountInv'
<1> DEFINE U == Uncounted
           start == ExpectedTotal(supplied.section.source.type, "", "")
           middle == ExpectedTotal(engine, "", "")
           typed == Ask(log, AboutType("source"), start)
           here == AboutPlace("source") \o AboutTrust("source", engine)
           placed == Ask(typed, here, middle)
           login == AboutLogin("source", auth)
           before == Expected("source", supplied.section.source.type, "")
           now == Expected("source", engine, "")
           final == Expected("source", engine, auth)
           target == Expected("target", "sqlserver", "")
           first == ExpectedFirst
           untyped == One(~TypeKnown("source"))
<1>1. /\ stage = "source" /\ program = "older" /\ ~flags.unattended /\ stage' \in {"refused", "target"}
      /\ UNCHANGED <<flags, supplied, program>>
      /\ settings' = [source |-> Connection(engine, auth, trust)]
  BY DEF AskSource, Onwards, vars, StartInv, StageInv
<1>2. total = start /\ (log # << >> => Falling(log, total))
  <2>1. /\ total = start /\ (log # << >> => TurnedOracle("source") \/ Falling(log, total))
    BY <1>1, Zenon DEF CountInv, WizardCountInv
  <2>2. "source" \notin DOMAIN settings
    BY <1>1 DEF StartInv, WizardInv, KnownSections
  <2>3. ~TurnedOracle("source")
    BY <2>2, Zenon DEF TurnedOracle
  <2> QED
    BY <2>1, <2>3, Zenon
<1>3. Len(log) + untyped = first + U
  BY <1>1, Zenon DEF CountInv, WizardCountInv
<1>4. engine \in Engines /\ auth \in AuthModes
  <2>1. supplied.section["source"].type \in Engines \cup {""}
    BY <1>1 DEF StartInv, SuppliedInv, KnownSections
  <2>2. engine \in Engines
    BY <2>1 DEF EnginesOf
  <2> QED
    BY <1>1, <2>2, LoginsOfEngines DEF StartInv, KnownSections
<1>5. total' = first + final + target
  <2>1. total' = ExpectedTotal(engine, IF engine = "oracle" THEN "" ELSE auth, "")
    BY DEF AskSource
  <2>2. engine = "oracle" => now = final
    BY <1>4, ExpectedSection, Zenon
  <2>3. CASE engine = "oracle"
    <3>1. total' = first + now + target
      BY <2>1, <2>3, TotalParts, Zenon
    <3> QED
      BY <2>2, <2>3, <3>1, Zenon
  <2>4. CASE engine # "oracle"
    BY <2>1, <2>4, TotalParts, Zenon
  <2> QED
    BY <2>3, <2>4
<1>6. start = first + before + target /\ middle = first + now + target
  BY TotalParts, Zenon
<1>7. log' = Ask(placed, login, total')
  BY <1>2, Zenon DEF AskSource
<1>8. /\ first \in Nat /\ U \in Nat /\ before \in Nat /\ now \in Nat /\ final \in Nat /\ target \in Nat
      /\ untyped \in Nat /\ untyped <= first
  BY TotalParts, UncountedIsNat, ExpectedIsNat, Zenon DEF One
<1>9. /\ final = Len(here) + Len(login) /\ Len(here) \in Nat /\ Len(login) \in Nat /\ final <= now
      /\ IsList(here) /\ Once(here) /\ IsList(login) /\ Once(login)
      /\ Elements(here) = Elements(AboutPlace("source")) \cup Elements(AboutTrust("source", engine))
  <2>1. LET known == Len(AboutPlace("source")) + Len(AboutTrust("source", engine)) + Len(login)
        IN final = known /\ known <= now
    BY <1>4, ExpectedSection, Zenon
  <2>2. /\ Len(AboutPlace("source")) \in Nat /\ Len(AboutTrust("source", engine)) \in Nat
        /\ Len(login) \in Nat
    BY <1>4, ExpectedSection, Zenon
  <2>3. /\ IsList(here) /\ Once(here) /\ IsList(login) /\ Once(login)
        /\ Len(here) = Len(AboutPlace("source")) + Len(AboutTrust("source", engine))
        /\ Elements(here) = Elements(AboutPlace("source")) \cup Elements(AboutTrust("source", engine))
    BY PlaceAndTrust, LoginQuestions, LoginCounts, Zenon
  <2> HIDE DEF here, login, final, now
  <2> QED
    BY <2>1, <2>2, <2>3
<1>10. now <= before \/ (engine = "oracle" /\ LateSection("source"))
  BY <1>1, EngineMayCostALogin, Zenon DEF StartInv, KnownSections
<1>11. IsList(AboutType("source")) /\ Once(AboutType("source")) /\ Len(AboutType("source")) = untyped
  BY TypeQuestions, TypeCounts, Zenon DEF TypeKnown, One
<1>12. /\ Abouts(log) \cap Elements(AboutType("source")) = {}
       /\ (Abouts(log) \cup Elements(AboutType("source"))) \cap Elements(here) = {}
       /\ (Abouts(log) \cup Elements(AboutType("source")) \cup Elements(here)) \cap Elements(login) = {}
  <2>1. "source" \in KnownSections \ DOMAIN settings
    BY <1>1 DEF StartInv, WizardInv, KnownSections
  <2>2. Abouts(log) \cap (Elements(AboutType("source")) \cup Elements(AboutPlace("source"))
          \cup Elements(AboutTrust("source", engine)) \cup Elements(login)) = {}
    BY <2>1, AskedElsewhere DEF StartInv
  <2>3. Elements(AboutType("source")) \cap Elements(here) = {}
    BY <1>9, GroupsAreApart
  <2>4. Elements(login) \cap (Elements(AboutType("source")) \cup Elements(here)) = {}
    BY <1>9, GroupsAreApart
  <2> HIDE DEF login, here
  <2> QED
    BY <1>9, <2>2, <2>3, <2>4
<1>13. IsList(log) /\ NoneTwice(log) /\ Numbered(log, U)
  BY DEF StartInv, LogInv, CountInv
<1> HIDE DEF U, start, middle, here, login, before, now, final, target, first, untyped
<1>14. /\ start \in Int /\ middle \in Int /\ total' \in Int
       /\ middle <= start \/ (engine = "oracle" /\ LateSection("source"))
       /\ total' <= middle
  BY <1>5, <1>6, <1>8, <1>9, <1>10
<1>15. /\ IsList(typed) /\ NoneTwice(typed) /\ Numbered(typed, U)
       /\ Len(typed) = first + U /\ Abouts(typed) = Abouts(log) \cup Elements(AboutType("source"))
       /\ Falling(log, start) => Falling(typed, start)
  <2>1. /\ IsList(typed) /\ Abouts(typed) = Abouts(log) \cup Elements(AboutType("source"))
    BY <1>11, <1>13, AskedQuestions
  <2>2. /\ Len(log) \in Nat /\ Len(typed) = Len(log) + Len(AboutType("source"))
        /\ NoneTwice(log) /\ Once(AboutType("source"))
             /\ Abouts(log) \cap Elements(AboutType("source")) = {} => NoneTwice(typed)
        /\ \A extra \in Int : Numbered(log, extra) /\ Len(typed) <= start + extra => Numbered(typed, extra)
        /\ Falling(log, start) => Falling(typed, start)
    BY <1>11, <1>13, <1>14, AskedCounts
  <2> HIDE DEF typed
  <2>3. Len(typed) = first + U
    BY <1>3, <1>8, <1>11, <2>2
  <2>4. Len(typed) <= start + U
    BY <1>6, <1>8, <2>3
  <2> QED
    BY <1>8, <1>11, <1>12, <1>13, <2>1, <2>2, <2>3, <2>4
<1> HIDE DEF typed
<1>16. /\ IsList(placed) /\ NoneTwice(placed) /\ Numbered(placed, U)
       /\ Len(placed) = first + U + Len(here)
       /\ Abouts(placed) = Abouts(log) \cup Elements(AboutType("source")) \cup Elements(here)
       /\ Falling(typed, middle) => Falling(placed, middle)
  <2>1. /\ IsList(placed) /\ Abouts(placed) = Abouts(typed) \cup Elements(here)
    BY <1>9, <1>15, AskedQuestions
  <2>2. /\ Len(placed) = Len(typed) + Len(here)
        /\ NoneTwice(typed) /\ Once(here) /\ Abouts(typed) \cap Elements(here) = {} => NoneTwice(placed)
        /\ \A extra \in Int : Numbered(typed, extra) /\ Len(placed) <= middle + extra =>
             Numbered(placed, extra)
        /\ Falling(typed, middle) => Falling(placed, middle)
    BY <1>9, <1>14, <1>15, AskedCounts
  <2> HIDE DEF placed
  <2>3. Len(placed) <= middle + U
    BY <1>6, <1>8, <1>9, <1>15, <2>2
  <2> QED
    BY <1>8, <1>9, <1>12, <1>15, <2>1, <2>2, <2>3
<1> HIDE DEF placed
<1>17. /\ NoneTwice(log') /\ Numbered(log', U) /\ Len(log') = first + U + final
       /\ Abouts(log') = Abouts(log) \cup Elements(AboutType("source")) \cup Elements(here)
                           \cup Elements(login)
       /\ Falling(placed, total') => Falling(log', total')
  <2>1. Abouts(log') = Abouts(placed) \cup Elements(login)
    BY <1>7, <1>9, <1>16, AskedQuestions
  <2>2. /\ Len(log') = Len(placed) + Len(login)
        /\ NoneTwice(placed) /\ Once(login) /\ Abouts(placed) \cap Elements(login) = {} => NoneTwice(log')
        /\ \A extra \in Int : Numbered(placed, extra) /\ Len(log') <= total' + extra =>
             Numbered(log', extra)
        /\ Falling(placed, total') => Falling(log', total')
    BY <1>7, <1>9, <1>14, <1>16, AskedCounts
  <2>3. Len(log') = first + U + final
    BY <1>8, <1>9, <1>16, <2>2
  <2>4. Len(log') <= total' + U
    BY <1>5, <1>8, <2>3
  <2> QED
    BY <1>8, <1>9, <1>12, <1>16, <2>1, <2>2, <2>3, <2>4
<1>18. (engine = "oracle" /\ LateSection("source")) \/ Falling(log', total')
  <2> SUFFICES ASSUME ~(engine = "oracle" /\ LateSection("source")) PROVE Falling(log', total')
    OBVIOUS
  <2>1. Falling(log, start)
    <3>1. CASE log = << >>
      BY <3>1 DEF Falling
    <3>2. CASE log # << >>
      BY <1>2, <3>2
    <3> QED
      BY <3>1, <3>2
  <2>2. Falling(typed, middle)
    BY <1>14, <1>15, <2>1, FallingFurther
  <2>3. Falling(placed, total')
    BY <1>14, <1>16, <2>2, FallingFurther
  <2> QED
    BY <1>17, <2>3
<1>19. /\ Uncounted' = U /\ Expected("target", "sqlserver", "")' = target
  <2>1. Uncounted' = Uncounted
    BY <1>1 DEF Uncounted, One
  <2>2. Expected("target", "sqlserver", "")' = Expected("target", "sqlserver", "")
    BY <1>1, ExpectedKept
  <2> QED
    BY <2>1, <2>2, Zenon DEF U, target
<1>20. /\ DOMAIN settings' = {"source"} /\ settings'["source"].engine = engine
       /\ settings'["source"].auth = auth /\ settings'.source.engine = engine
       /\ settings'.source.auth = auth
  BY <1>1 DEF Connection
<1>21. total' = ExpectedTotal(settings.source.engine, settings.source.auth, "")'
  <2>1. ExpectedTotal(settings.source.engine, settings.source.auth, "")'
          = ExpectedTotal(engine, auth, "")
    BY <1>1, <1>20, TotalKept
  <2>2. ExpectedTotal(engine, auth, "") = first + final + target
    BY TotalParts, Zenon DEF first, final, target
  <2> QED
    BY <1>5, <2>1, <2>2, Zenon
<1>22. WizardCountInv'
  <2>1. Len(log') = total' - target + U
    BY <1>5, <1>8, <1>17
  <2>2. Len(log)' = total' - Expected("target", "sqlserver", "")' + Uncounted'
    BY <1>19, <2>1
  <2>3. stage' \in {"refused", "target"} /\ (TurnedOracle("source")' \/ Falling(log, total)')
    <3>1. TurnedOracle("source")' <=> engine = "oracle" /\ LateSection("source")
      BY <1>1, <1>20, TurnedOracleNext
    <3> QED
      BY <1>1, <1>18, <3>1
  <2> QED
    BY <1>21, <2>2, <2>3 DEF WizardCountInv
<1>23. GivenInv'
  BY <1>1 DEF GivenInv
<1>24. PlanCountInv' /\ WordsInv'
  BY <1>1, WordsKept DEF CountInv, PlanCountInv
<1>25. Numbered(log, Uncounted)' /\ NoneTwice(log)'
  BY <1>17, <1>19
<1> QED
  BY <1>22, <1>23, <1>24, <1>25 DEF CountInv

\* The target: its place and its login.
LEMMA TargetCount ==
  ASSUME StartInv, CountInv, NEW auth \in AuthOf("target", "sqlserver"),
         NEW trust \in TrustOf("target", "sqlserver"), AskTarget(auth, trust), UNCHANGED vars
  PROVE  CountInv'
<1> DEFINE U == Uncounted
           engine == settings.source.engine
           here == AboutPlace("target") \o AboutTrust("target", "sqlserver")
           placed == Ask(log, here, total)
           login == AboutLogin("target", auth)
           source == Expected("source", engine, settings.source.auth)
           before == Expected("target", "sqlserver", "")
           final == Expected("target", "sqlserver", auth)
           first == ExpectedFirst
<1>1. /\ stage = "target" /\ program = "older" /\ ~flags.unattended /\ stage' \in {"refused", "reading"}
      /\ UNCHANGED <<flags, supplied, program>>
      /\ settings' = [source |-> settings.source, target |-> Connection("sqlserver", auth, trust)]
  BY DEF AskTarget, Onwards, vars, StartInv, StageInv
<1>2. /\ log # << >> => TurnedOracle("source") \/ Falling(log, total)
      /\ Len(log) = total - before + U
  BY <1>1, Zenon DEF CountInv, WizardCountInv
<1>3. total = ExpectedTotal(engine, settings.source.auth, "")
  BY <1>1, Zenon DEF CountInv, WizardCountInv
<1>4. auth \in AuthModes
  BY <1>1, LoginsOfEngines DEF StartInv, KnownSections, Engines
<1>5. total = first + source + before /\ total' = first + source + final
  <2>1. total' = ExpectedTotal(engine, settings.source.auth, auth)
    BY DEF AskTarget
  <2> QED
    BY <1>3, <2>1, TotalParts, Zenon
<1>6. log' = Ask(placed, login, total')
  BY Zenon DEF AskTarget
<1>7. /\ first \in Nat /\ U \in Nat /\ source \in Nat /\ before \in Nat /\ final \in Nat
  BY TotalParts, UncountedIsNat, ExpectedIsNat, Zenon
<1>8. /\ final = Len(here) + Len(login) /\ Len(here) \in Nat /\ Len(login) \in Nat /\ final <= before
      /\ IsList(here) /\ Once(here) /\ IsList(login) /\ Once(login)
      /\ Elements(here) = Elements(AboutPlace("target")) \cup Elements(AboutTrust("target", "sqlserver"))
  <2>1. LET known == Len(AboutPlace("target")) + Len(AboutTrust("target", "sqlserver")) + Len(login)
        IN final = known /\ known <= before
    BY <1>4, ExpectedSection, Zenon
  <2>2. /\ Len(AboutPlace("target")) \in Nat /\ Len(AboutTrust("target", "sqlserver")) \in Nat
        /\ Len(login) \in Nat
    BY <1>4, ExpectedSection, Zenon
  <2>3. /\ IsList(here) /\ Once(here) /\ IsList(login) /\ Once(login)
        /\ Len(here) = Len(AboutPlace("target")) + Len(AboutTrust("target", "sqlserver"))
        /\ Elements(here) = Elements(AboutPlace("target")) \cup Elements(AboutTrust("target", "sqlserver"))
    BY PlaceAndTrust, LoginQuestions, LoginCounts, Zenon
  <2> HIDE DEF here, login, final, before
  <2> QED
    BY <2>1, <2>2, <2>3
<1>9. /\ Abouts(log) \cap Elements(here) = {}
      /\ (Abouts(log) \cup Elements(here)) \cap Elements(login) = {}
  <2>1. "target" \in KnownSections \ DOMAIN settings
    BY <1>1 DEF StartInv, WizardInv, KnownSections
  <2>2. Abouts(log) \cap (Elements(AboutType("target")) \cup Elements(AboutPlace("target"))
          \cup Elements(AboutTrust("target", "sqlserver")) \cup Elements(login)) = {}
    BY <2>1, AskedElsewhere DEF StartInv
  <2>3. Elements(login) \cap Elements(here) = {}
    BY <1>8, GroupsAreApart
  <2> HIDE DEF login, here
  <2> QED
    BY <1>8, <2>2, <2>3
<1>10. IsList(log) /\ NoneTwice(log) /\ Numbered(log, U)
  BY DEF StartInv, LogInv, CountInv
<1> HIDE DEF U, engine, here, login, source, before, final, first
<1>11. total \in Int /\ total' \in Int /\ total' <= total
  BY <1>5, <1>7, <1>8
<1>12. /\ IsList(placed) /\ NoneTwice(placed) /\ Numbered(placed, U)
       /\ Len(placed) = first + source + U + Len(here)
       /\ Abouts(placed) = Abouts(log) \cup Elements(here)
       /\ Falling(log, total) => Falling(placed, total)
  <2>1. /\ IsList(placed) /\ Abouts(placed) = Abouts(log) \cup Elements(here)
    BY <1>8, <1>10, AskedQuestions
  <2>2. /\ Len(log) \in Nat /\ Len(placed) = Len(log) + Len(here)
        /\ NoneTwice(log) /\ Once(here) /\ Abouts(log) \cap Elements(here) = {} => NoneTwice(placed)
        /\ \A extra \in Int : Numbered(log, extra) /\ Len(placed) <= total + extra =>
             Numbered(placed, extra)
        /\ Falling(log, total) => Falling(placed, total)
    BY <1>8, <1>10, <1>11, AskedCounts
  <2> HIDE DEF placed
  <2>3. Len(placed) = first + source + U + Len(here)
    BY <1>2, <1>5, <1>7, <1>8, <2>2
  <2>4. Len(placed) <= total + U
    BY <1>5, <1>7, <1>8, <2>3
  <2> QED
    BY <1>7, <1>8, <1>9, <1>10, <2>1, <2>2, <2>3, <2>4
<1> HIDE DEF placed
<1>13. /\ NoneTwice(log') /\ Numbered(log', U) /\ Len(log') = total' + U
       /\ Abouts(log') = Abouts(log) \cup Elements(here) \cup Elements(login)
       /\ Falling(placed, total') => Falling(log', total')
  <2>1. Abouts(log') = Abouts(placed) \cup Elements(login)
    BY <1>6, <1>8, <1>12, AskedQuestions
  <2>2. /\ Len(log') = Len(placed) + Len(login)
        /\ NoneTwice(placed) /\ Once(login) /\ Abouts(placed) \cap Elements(login) = {} => NoneTwice(log')
        /\ \A extra \in Int : Numbered(placed, extra) /\ Len(log') <= total' + extra =>
             Numbered(log', extra)
        /\ Falling(placed, total') => Falling(log', total')
    BY <1>6, <1>8, <1>11, <1>12, AskedCounts
  <2>3. Len(log') = total' + U
    BY <1>5, <1>7, <1>8, <1>12, <2>2
  <2>4. Len(log') <= total' + U
    BY <1>5, <1>7, <2>3
  <2> QED
    BY <1>7, <1>8, <1>9, <1>12, <2>1, <2>2, <2>3, <2>4
<1>14. TurnedOracle("source") \/ Falling(log', total')
  <2> SUFFICES ASSUME ~TurnedOracle("source") PROVE Falling(log', total')
    OBVIOUS
  <2>1. Falling(log, total)
    <3>1. CASE log = << >>
      BY <3>1 DEF Falling
    <3>2. CASE log # << >>
      BY <1>2, <3>2
    <3> QED
      BY <3>1, <3>2
  <2>2. Falling(placed, total')
    BY <1>11, <1>12, <2>1, FallingFurther
  <2> QED
    BY <1>13, <2>2
<1>15. Uncounted' = U /\ (TurnedOracle("source") => TurnedOracle("source")')
  <2>1. Uncounted' = Uncounted
    BY <1>1 DEF Uncounted, One
  <2>2. "source" \in DOMAIN settings' /\ settings'["source"] = settings["source"]
    BY <1>1
  <2>3. TurnedOracle("source") => TurnedOracle("source")'
    BY <1>1, <2>2, TurnedOracleIs, TurnedOracleNext
  <2> QED
    BY <2>1, <2>3, Zenon DEF U
<1>16. WizardCountInv'
  <2>1. total' \in Int /\ Len(log)' = total' + Uncounted'
    BY <1>11, <1>13, <1>15
  <2>2. stage' \in {"refused", "reading"} /\ (TurnedOracle("source")' \/ Falling(log, total)')
    BY <1>1, <1>14, <1>15
  <2> QED
    BY <2>1, <2>2 DEF WizardCountInv
<1>17. GivenInv'
  BY <1>1 DEF GivenInv
<1>18. PlanCountInv' /\ WordsInv'
  BY <1>1, WordsKept DEF CountInv, PlanCountInv
<1>19. Numbered(log, Uncounted)' /\ NoneTwice(log)'
  BY <1>13, <1>15
<1> QED
  BY <1>16, <1>17, <1>18, <1>19 DEF CountInv

\* The sections of a plan are counted at once, before the first of them is asked about.
LEMMA ConnectCount ==
  ASSUME StartInv, CountInv, Connect, UNCHANGED vars
  PROVE  CountInv'
<1>1. /\ stage = "reading" /\ program = "plan" /\ stage' \in {"ready", "sections"}
      /\ UNCHANGED <<flags, supplied, log, settings, program>>
      /\ stage' = "ready" => needed' = << >>
      /\ stage' = "sections" => needed' # << >>
      /\ total' = IF flags.unattended \/ needed' = << >> THEN total ELSE ExpectedCount(needed')
  BY DEF Connect, BeginSections, vars
<1>2. settings = << >> /\ DOMAIN settings = {}
  BY <1>1 DEF StartInv, NeededInv
<1>3. Asked' = Asked
  BY <1>1 DEF Asked
<1>4. Numbered(log, Uncounted)' /\ NoneTwice(log)'
  <2>1. Uncounted' = Uncounted
    BY <1>1, UncountedKept
  <2> QED
    BY <1>1, <2>1 DEF CountInv
<1>5. GivenInv' /\ WordsInv'
  BY <1>1, GivenKept, WordsKept DEF CountInv
<1>6. WizardCountInv'
  BY <1>1 DEF WizardCountInv
<1>7. PlanCountInv'
  <2>1. Spent("source")' = Spent("source") /\ Spent("target")' = Spent("target")
    BY <1>1, SpentKept
  <2>2. ExpectedCount(needed)' = ExpectedCount(needed')
    BY <1>1, CountKept
  <2>3. stage' = "ready" => DOMAIN settings' = {needed'[k] : k \in DOMAIN needed'}
    BY <1>1, <1>2
  <2>4. settings' = << >>
    BY <1>1, <1>2
  <2> QED
    BY <1>1, <1>3, <2>1, <2>2, <2>3, <2>4 DEF CountInv, PlanCountInv, One
<1> QED
  BY <1>4, <1>5, <1>6, <1>7 DEF CountInv

\* A section that has been asked about took no more than was counted, but for its late
\* login.
LEMMA LateLoginIs ==
  \A s : LateLogin(s) = IF s \in DOMAIN settings /\ settings[s].engine = "oracle" /\ LateSection(s)
                        THEN One(<<s, "username">> \in Asked) + One(<<s, "password">> \in Asked)
                        ELSE 0
<1> SUFFICES ASSUME NEW s
             PROVE  LateLogin(s) =
                      IF s \in DOMAIN settings /\ settings[s].engine = "oracle" /\ LateSection(s)
                      THEN One(<<s, "username">> \in Asked) + One(<<s, "password">> \in Asked)
                      ELSE 0
  OBVIOUS
<1> DEFINE open == supplied.section[s].type = "" /\ supplied.section[s].auth = "windows"
           got == s \in DOMAIN settings /\ settings[s].engine = "oracle"
           logins == One(<<s, "username">> \in Asked) + One(<<s, "password">> \in Asked)
<1>1. LateLogin(s) = IF got /\ open THEN logins ELSE 0
  BY DEF LateLogin
<1>2. LateSection(s) <=> open
  BY Zenon DEF LateSection, TypeKnown
<1> HIDE DEF open, logins
<1> QED
  BY <1>1, <1>2 DEF logins

LEMMA SpentWithin ==
  ASSUME SuppliedInv, GivenInv, stage \notin {"profile", "refused"}, program = "plan",
         ~flags.unattended, NEW s \in KnownSections, s \in DOMAIN settings
  PROVE  /\ Spent(s) \in Nat /\ Counted(s) \in Nat /\ LateLogin(s) \in Nat
         /\ Spent(s) <= Counted(s) + LateLogin(s)
<1> DEFINE engine == settings[s].engine
           auth == settings[s].auth
           user == One(<<s, "username">> \in Asked)
           word == One(<<s, "password">> \in Asked)
           first == One(~supplied.section[s].user)
<1>1. engine \in EnginesOf(s) /\ auth \in AuthOf(s, engine)
  BY DEF GivenInv
<1>2. engine \in Engines /\ auth \in AuthModes
  <2>1. supplied.section[s].type \in Engines \cup {""}
    BY DEF SuppliedInv
  <2>2. engine \in Engines
    BY <1>1, <2>1 DEF EnginesOf
  <2> QED
    BY <1>1, <2>2, LoginsOfEngines
<1>3. Spent(s) = AskedOf(s, engine, auth)
  BY DEF Spent
<1>4. LateLogin(s) = IF engine = "oracle" /\ LateSection(s) THEN user + word ELSE 0
  BY LateLoginIs
<1>5. engine = "oracle" => user + word >= first + 1
  <2> SUFFICES ASSUME engine = "oracle" PROVE user + word >= first + 1
    OBVIOUS
  <2>1. auth # "windows"
    BY <1>1 DEF AuthOf
  <2>2. /\ <<s, "password">> \in Asked
        /\ ~supplied.section[s].user => <<s, "username">> \in Asked
    BY <2>1 DEF GivenInv
  <2> QED
    BY <2>2 DEF One
<1>6. user \in Nat /\ word \in Nat /\ first \in Nat
  BY DEF One
<1>7. /\ AskedOf(s, engine, auth) \in Nat /\ Counted(s) \in Nat
      /\ \/ AskedOf(s, engine, auth) <= Counted(s)
         \/ /\ engine = "oracle" /\ LateSection(s)
            /\ AskedOf(s, engine, auth) <= Counted(s) + first + 1
  BY <1>1, <1>2, SectionWithin
<1> HIDE DEF engine, user, word, first
<1> QED
  BY <1>3, <1>4, <1>5, <1>6, <1>7

\* What a section took and what its answers spared are what it was counted with, unless
\* it turned out to need a login.
LEMMA SpentAndSpared ==
  ASSUME SuppliedInv, GivenInv, stage \notin {"profile", "refused"}, program = "plan",
         NEW s \in KnownSections, s \in DOMAIN settings, ~TurnedOracle(s)
  PROVE  /\ Spent(s) \in Nat /\ Spared(s) \in Nat
         /\ Spent(s) + Spared(s) = Counted(s) /\ LateLogin(s) = 0
<1> DEFINE given == supplied.section[s].given
           places == One("server" \notin given) + One("port" \notin given) + One("database" \notin given)
           none == ""
           type == supplied.section[s].type
           open == One(supplied.section[s].trust = none)
           own == supplied.section[s].auth
           vague == One(own = none)
           first == One(~supplied.section[s].user)
           typed == One(type = none)
           trusts(e) == IF e = "oracle" THEN 0 ELSE open + vague
           logins(mode) == IF mode = "windows" THEN 0 ELSE first + 1
           modeOf(e) == IF e = "oracle" THEN "password" ELSE IF own # none THEN own ELSE "password"
           engine == settings[s].engine
           auth == settings[s].auth
<1>1. Counted(s) = typed + (places + trusts(type) + logins(modeOf(type)))
  BY DEF Counted, Expected, TypeKnown, One
<1>2. Spent(s) = typed + places + trusts(engine) + logins(auth)
  <2>1. /\ Len(AboutType(s)) = typed /\ Len(AboutPlace(s)) = places
        /\ Len(AboutTrust(s, engine)) = trusts(engine) /\ Len(AboutLogin(s, auth)) = logins(auth)
    BY TypeCounts, PlaceCounts, TrustCounts, LoginCounts, Zenon
  <2>2. Spent(s) = Len(AboutType(s)) + Len(AboutPlace(s)) + Len(AboutTrust(s, engine))
                     + Len(AboutLogin(s, auth))
    BY Zenon DEF Spent, AskedOf
  <2> QED
    BY <2>1, <2>2, Zenon
<1>3. Spared(s) = (IF type = none /\ engine = "oracle" THEN open + vague ELSE 0)
                    + (IF own = none /\ auth = "windows" THEN first + 1 ELSE 0)
  BY DEF Spared
<1>4. /\ engine \in EnginesOf(s) /\ auth \in AuthOf(s, engine)
      /\ type \in {none, "sqlserver", "oracle"}
  BY DEF GivenInv, SuppliedInv, Engines
<1>5. /\ type # none => engine = type
      /\ engine \in {"sqlserver", "oracle"} /\ none # "oracle" /\ none # "windows"
  BY <1>4 DEF EnginesOf, Engines, none
<1>6. /\ engine = "oracle" => auth = "password"
      /\ engine # "oracle" /\ own # none => auth = own
      /\ engine # "oracle" /\ own = none => auth \in {"windows", "password"}
  BY <1>4 DEF AuthOf, AuthModes, none
<1>7. type = none /\ engine = "oracle" => own # "windows"
  BY Zenon DEF TurnedOracle, none
<1>8. LateLogin(s) = 0
  BY TurnedOracleIs, LateLoginIs, Zenon
<1> HIDE DEF none
<1>9. /\ places \in Nat /\ open \in Nat /\ vague \in Nat /\ first \in Nat /\ typed \in Nat
  BY DEF One
<1> HIDE DEF places, type, open, own, vague, first, typed, engine, auth
<1>10. Spent(s) \in Nat /\ Spared(s) \in Nat
  BY <1>2, <1>3, <1>9
<1>11. CASE engine = "oracle"
  <2>1. logins(auth) = first + 1 /\ logins(modeOf(type)) = first + 1
    BY <1>5, <1>6, <1>7, <1>11
  <2>2. trusts(engine) = 0
    BY <1>11
  <2>3. Spared(s) = trusts(type)
    BY <1>3, <1>5, <1>6, <1>9, <1>11
  <2>4. trusts(type) \in Nat
    BY <1>9
  <2> HIDE DEF logins, modeOf, trusts
  <2> QED
    BY <1>1, <1>2, <1>8, <1>9, <1>10, <2>1, <2>2, <2>3, <2>4
<1>12. CASE engine # "oracle"
  <2>1. trusts(type) = trusts(engine) /\ trusts(engine) \in Nat
    BY <1>5, <1>9, <1>12
  <2>2. Spared(s) = IF own = none /\ auth = "windows" THEN first + 1 ELSE 0
    BY <1>3, <1>9, <1>12
  <2>3. modeOf(type) = IF own # none THEN own ELSE "password"
    BY <1>5, <1>12
  <2>4. logins(auth) + Spared(s) = logins(modeOf(type)) /\ logins(auth) \in Nat
    BY <1>6, <1>9, <1>12, <2>2, <2>3
  <2> HIDE DEF logins, modeOf, trusts
  <2> QED
    BY <1>1, <1>2, <1>8, <1>9, <1>10, <2>1, <2>4
<1> QED
  BY <1>11, <1>12

LEMMA LateLoginNext ==
  ASSUME UNCHANGED supplied
  PROVE  \A s : LateLogin(s)' =
           IF s \in DOMAIN settings' /\ settings'[s].engine = "oracle" /\ LateSection(s)
           THEN One(<<s, "username">> \in Asked') + One(<<s, "password">> \in Asked')
           ELSE 0
<1>1. (\A s : LateLogin(s) = IF s \in DOMAIN settings /\ settings[s].engine = "oracle" /\ LateSection(s)
                             THEN One(<<s, "username">> \in Asked) + One(<<s, "password">> \in Asked)
                             ELSE 0)'
  BY LateLoginIs, PTL
<1>2. \A s : LateSection(s)' = LateSection(s)
  BY SayingsKept
<1> QED
  BY <1>1, <1>2 DEF One

\* Whatever becomes of the settings that were asked for, the questions were counted.
LEMMA SectionWithinNext ==
  ASSUME SuppliedInv, stage \notin {"profile", "refused"}, UNCHANGED supplied,
         NEW s \in KnownSections, NEW engine \in EnginesOf(s), NEW auth \in AuthOf(s, engine),
         auth \in AuthModes, s \in DOMAIN settings', settings'[s].engine = engine,
         Elements(AboutLogin(s, auth)) \subseteq Asked'
  PROVE  /\ AskedOf(s, engine, auth) \in Nat /\ Counted(s) \in Nat /\ LateLogin(s)' \in Nat
         /\ AskedOf(s, engine, auth) <= Counted(s) + LateLogin(s)'
<1> DEFINE user == One(<<s, "username">> \in Asked')
           word == One(<<s, "password">> \in Asked')
           first == One(~supplied.section[s].user)
           late == engine = "oracle" /\ LateSection(s)
<1>1. LateLogin(s)' = IF late THEN user + word ELSE 0
  BY LateLoginNext
<1>2. engine = "oracle" => user + word >= first + 1
  <2> SUFFICES ASSUME engine = "oracle" PROVE user + word >= first + 1
    OBVIOUS
  <2>1. auth # "windows"
    BY DEF AuthOf
  <2>2. /\ <<s, "password">> \in Asked'
        /\ ~supplied.section[s].user => <<s, "username">> \in Asked'
    BY <2>1, LoginQuestions, LoginCounts
  <2> QED
    BY <2>2 DEF One
<1>3. user \in Nat /\ word \in Nat /\ first \in Nat
  BY DEF One
<1>4. /\ AskedOf(s, engine, auth) \in Nat /\ Counted(s) \in Nat
      /\ \/ AskedOf(s, engine, auth) <= Counted(s)
         \/ late /\ AskedOf(s, engine, auth) <= Counted(s) + first + 1
  BY SectionWithin
<1>5. late => engine = "oracle"
  OBVIOUS
<1> HIDE DEF user, word, first, late
<1> QED
  BY <1>1, <1>2, <1>3, <1>4, <1>5

\* What the sections of a plan are counted with, section by section.
CountedIn(s) == IF \E k \in DOMAIN needed : needed[k] = s THEN Counted(s) ELSE 0

LEMMA CountedInPlan ==
  /\ ExpectedCount(needed) = CountedIn("source") + CountedIn("target")
  /\ \A s : Counted(s) \in Nat /\ CountedIn(s) \in Nat
<1>1. ExpectedCount(needed) = CountedIn("source") + CountedIn("target")
  BY CountOfSections DEF CountedIn
<1>2. \A s : Counted(s) \in Nat
  <2> SUFFICES ASSUME NEW s PROVE Counted(s) \in Nat
    OBVIOUS
  <2> DEFINE before == Expected(s, supplied.section[s].type, "")
             type == One(~TypeKnown(s))
  <2>1. before \in Nat
    BY ExpectedIsNat, Zenon
  <2>2. type \in Nat
    BY DEF One
  <2>3. Counted(s) = type + before
    BY DEF Counted
  <2> HIDE DEF before, type
  <2> QED
    BY <2>1, <2>2, <2>3
<1> QED
  BY <1>1, <1>2 DEF CountedIn

\* A person is asked all there is to ask about a section.
LEMMA SectionAsked ==
  ASSUME StartInv, CountInv, program = "plan", stage = "sections", ~flags.unattended,
         NEW s \in KnownSections \ DOMAIN settings, \E k \in DOMAIN needed : needed[k] = s,
         \A x \in DOMAIN settings : \E k \in DOMAIN needed : needed[k] = x,
         NEW engine \in EnginesOf(s), NEW auth \in AuthOf(s, engine), auth \in AuthModes,
         NEW trust, UNCHANGED <<supplied, program, needed, flags>>,
         log' = Ask(log, AboutType(s) \o AboutPlace(s) \o AboutTrust(s, engine)
                           \o AboutLogin(s, auth), total),
         DOMAIN settings' = DOMAIN settings \cup {s},
         settings'[s] = Connection(engine, auth, trust),
         \A x \in DOMAIN settings : settings'[x] = settings[x]
  PROVE  /\ NoneTwice(log') /\ Numbered(log', Uncounted')
         /\ Len(log') = One(<<"run", "workbook">> \in Asked)' + Spent("source")' + Spent("target")'
         /\ Asked' = Asked \cup Elements(AboutType(s)) \cup Elements(AboutPlace(s))
              \cup Elements(AboutTrust(s, engine)) \cup Elements(AboutLogin(s, auth))
<1> DEFINE all == AboutType(s) \o AboutPlace(s) \o AboutTrust(s, engine) \o AboutLogin(s, auth)
           taken == AskedOf(s, engine, auth)
           bookAsked == One(<<"run", "workbook">> \in Asked)
           bookAskedOn == One(<<"run", "workbook">> \in Asked)'
<1>1. settings'[s].engine = engine /\ settings'[s].auth = auth
  BY DEF Connection
<1>2. /\ IsList(all) /\ Once(all) /\ Len(all) = taken
      /\ Elements(all) = Elements(AboutType(s)) \cup Elements(AboutPlace(s))
           \cup Elements(AboutTrust(s, engine)) \cup Elements(AboutLogin(s, auth))
  BY WholeSection, Zenon
<1>3. /\ IsList(log) /\ NoneTwice(log) /\ Numbered(log, Uncounted)
      /\ Len(log) = bookAsked + Spent("source") + Spent("target")
  BY DEF StartInv, LogInv, CountInv, PlanCountInv
<1>4. total = CountedIn("source") + CountedIn("target")
  BY CountedInPlan DEF CountInv, PlanCountInv
<1> HIDE DEF all
<1>5. Abouts(log) \cap Elements(all) = {}
  BY <1>2, AskedElsewhere DEF StartInv
<1>6. log' = Ask(log, all, total)
  BY DEF all
<1>7. Asked' = Asked \cup Elements(all)
  <2>1. Abouts(log') = Abouts(log) \cup Elements(all)
    BY <1>2, <1>3, <1>6, AskedQuestions
  <2> QED
    BY <2>1 DEF Asked, Abouts
<1>8. bookAskedOn = bookAsked
  <2>1. <<"run", "workbook">> \notin Elements(all)
    <3>1. /\ Elements(AboutType(s)) \subseteq {<<s, "type">>}
          /\ Elements(AboutPlace(s)) \subseteq {<<s, "server">>, <<s, "port">>, <<s, "database">>}
          /\ Elements(AboutTrust(s, engine)) \subseteq {<<s, "trust">>, <<s, "auth">>}
          /\ Elements(AboutLogin(s, auth)) \subseteq {<<s, "username">>, <<s, "password">>}
      BY TypeQuestions, PlaceQuestions, TrustQuestions, LoginQuestions
    <3>2. s # "run"
      BY DEF KnownSections
    <3> QED
      BY <1>2, <3>1, <3>2
  <2> QED
    BY <1>7, <2>1 DEF One
<1>9. \A x \in KnownSections :
        /\ Spent(x)' = IF x = s THEN taken ELSE Spent(x)
        /\ x = s => Spent(x) = 0
  <2> SUFFICES ASSUME NEW x \in KnownSections
               PROVE  /\ Spent(x)' = IF x = s THEN taken ELSE Spent(x)
                      /\ x = s => Spent(x) = 0
    OBVIOUS
  <2>1. \A y, e, a : AskedOf(y, e, a)' = AskedOf(y, e, a)
    BY AskedOfKept
  <2>2. Spent(x)' = IF x \in DOMAIN settings' THEN AskedOf(x, settings'[x].engine, settings'[x].auth)
                    ELSE 0
    BY <2>1 DEF Spent
  <2> QED
    BY <1>1, <2>2 DEF Spent
<1>10. \A x \in KnownSections :
         /\ Spent(x) \in Nat /\ Spent(x)' \in Nat /\ LateLogin(x)' \in Nat /\ CountedIn(x) \in Nat
         /\ Spent(x)' <= CountedIn(x) + LateLogin(x)'
  <2> SUFFICES ASSUME NEW x \in KnownSections
               PROVE  /\ Spent(x) \in Nat /\ Spent(x)' \in Nat /\ LateLogin(x)' \in Nat
                      /\ CountedIn(x) \in Nat /\ Spent(x)' <= CountedIn(x) + LateLogin(x)'
    OBVIOUS
  <2>1. /\ DOMAIN settings \subseteq DOMAIN settings' /\ Asked \subseteq Asked'
    BY <1>7
  <2>2. /\ LateLogin(x) \in Nat /\ LateLogin(x)' \in Nat /\ LateLogin(x) <= LateLogin(x)'
    BY <2>1, LateLoginGrows
  <2>3. CountedIn(x) \in Nat /\ Counted(x) \in Nat
    BY CountedInPlan
  <2>4. CASE x = s
    <3>1. taken \in Nat /\ taken <= Counted(s) + LateLogin(s)'
      BY <1>1, <1>2, <1>7, SectionWithinNext DEF StartInv
    <3>2. CountedIn(s) = Counted(s)
      BY DEF CountedIn
    <3> QED
      BY <1>9, <2>2, <2>3, <2>4, <3>1, <3>2
  <2>5. CASE x \in DOMAIN settings
    <3>1. Spent(x) \in Nat /\ Spent(x) <= Counted(x) + LateLogin(x)
      BY <2>5, SpentWithin DEF StartInv, CountInv
    <3>2. CountedIn(x) = Counted(x)
      BY <2>5 DEF CountedIn
    <3>3. Spent(x)' = Spent(x)
      BY <1>9, <2>5
    <3> QED
      BY <2>2, <2>3, <3>1, <3>2, <3>3
  <2>6. CASE x # s /\ x \notin DOMAIN settings
    <3>1. Spent(x)' = 0 /\ Spent(x) = 0
      BY <1>9, <2>6 DEF Spent
    <3> QED
      BY <2>2, <2>3, <3>1
  <2> QED
    BY <2>4, <2>5, <2>6
<1>11. /\ Uncounted \in Nat /\ Uncounted' \in Nat /\ Uncounted <= Uncounted'
  <2>1. /\ DOMAIN settings \subseteq DOMAIN settings' /\ Asked \subseteq Asked'
    BY <1>7
  <2> QED
    BY <2>1, UncountedGrows
<1>12. Uncounted' = bookAskedOn + LateLogin("source")' + LateLogin("target")' /\ bookAskedOn \in Nat
  BY DEF Uncounted, One
<1>13. taken = Len(all) /\ Len(all) \in Nat /\ Len(log) \in Nat
  BY <1>2, <1>3, JoinedCounts
<1> HIDE DEF taken, bookAsked, bookAskedOn
<1>14. Len(log) + Len(all) = bookAskedOn + Spent("source")' + Spent("target")'
  <2>1. KnownSections = {"source", "target"}
    BY DEF KnownSections
  <2>4. /\ Len(log) = bookAskedOn + Spent("source") + Spent("target") /\ taken = Len(all)
        /\ bookAskedOn \in Nat /\ taken \in Nat /\ Spent("source") \in Nat /\ Spent("target") \in Nat
    BY <1>3, <1>8, <1>10, <1>12, <1>13, <2>1
  <2>2. CASE s = "source"
    <3>1. Spent("source")' = taken /\ Spent("source") = 0 /\ Spent("target")' = Spent("target")
      BY <1>9, <2>1, <2>2
    <3> QED
      BY <2>4, <3>1
  <2>3. CASE s = "target"
    <3>1. Spent("target")' = taken /\ Spent("target") = 0 /\ Spent("source")' = Spent("source")
      BY <1>9, <2>1, <2>3
    <3> QED
      BY <2>4, <3>1
  <2> QED
    BY <2>1, <2>2, <2>3
<1>15. total \in Int /\ Len(log) + Len(all) <= total + Uncounted'
  <2>1. "source" \in KnownSections /\ "target" \in KnownSections
    BY DEF KnownSections
  <2>2. /\ Spent("source")' \in Nat /\ LateLogin("source")' \in Nat /\ CountedIn("source") \in Nat
        /\ Spent("source")' <= CountedIn("source") + LateLogin("source")'
    BY <1>10, <2>1
  <2>3. /\ Spent("target")' \in Nat /\ LateLogin("target")' \in Nat /\ CountedIn("target") \in Nat
        /\ Spent("target")' <= CountedIn("target") + LateLogin("target")'
    BY <1>10, <2>1
  <2>4. total \in Int
    BY <1>4, <2>2, <2>3
  <2>5. bookAskedOn + Spent("source")' + Spent("target")' <= total + Uncounted'
    BY <1>4, <1>12, <2>2, <2>3
  <2> QED
    BY <1>14, <2>4, <2>5
<1>16. Numbered(log, Uncounted')
  <2>1. /\ IsList(log) /\ Numbered(log, Uncounted)
        /\ Uncounted \in Int /\ Uncounted' \in Int /\ Uncounted <= Uncounted'
    BY <1>3, <1>11
  <2> QED
    BY <2>1, NumberedStill
<1>17. NoneTwice(log') /\ Numbered(log', Uncounted') /\ Len(log') = Len(log) + Len(all)
  <2>1. /\ Len(log') = Len(log) + Len(all)
        /\ NoneTwice(log) /\ Once(all) /\ Abouts(log) \cap Elements(all) = {} => NoneTwice(log')
        /\ \A extra \in Int : Numbered(log, extra) /\ Len(log') <= total + extra =>
             Numbered(log', extra)
    BY <1>2, <1>3, <1>6, <1>15, AskedCounts
  <2> QED
    BY <1>2, <1>3, <1>5, <1>11, <1>15, <1>16, <2>1
<1> QED
  BY <1>2, <1>7, <1>14, <1>17 DEF bookAskedOn

LEMMA SectionGiven ==
  ASSUME GivenInv, program = "plan", UNCHANGED <<program, supplied, flags>>, Asked \subseteq Asked',
         NEW s, NEW engine \in EnginesOf(s), NEW auth \in AuthOf(s, engine), NEW trust,
         DOMAIN settings' = DOMAIN settings \cup {s},
         settings'[s] = Connection(engine, auth, trust),
         \A x \in DOMAIN settings : settings'[x] = settings[x],
         s \notin DOMAIN settings,
         flags.unattended \/ Elements(AboutLogin(s, auth)) \subseteq Asked'
  PROVE  GivenInv'
<1>1. /\ \A x : EnginesOf(x)' = EnginesOf(x)
      /\ \A x, e : AuthOf(x, e)' = AuthOf(x, e)
  BY SayingsKept
<1>2. SUFFICES ASSUME NEW x \in DOMAIN settings'
               PROVE  /\ settings'[x].engine \in EnginesOf(x)
                      /\ settings'[x].auth \in AuthOf(x, settings'[x].engine)
                      /\ settings'[x].auth # "windows" /\ ~flags.unattended =>
                           /\ <<x, "password">> \in Asked'
                           /\ ~supplied.section[x].user => <<x, "username">> \in Asked'
  BY <1>1 DEF GivenInv
<1>3. CASE x = s
  <2>1. settings'[x].engine = engine /\ settings'[x].auth = auth
    BY <1>3 DEF Connection
  <2> QED
    BY <1>3, <2>1, LoginQuestions, LoginCounts
<1>4. CASE x # s
  <2>1. x \in DOMAIN settings /\ settings'[x] = settings[x]
    BY <1>4
  <2> QED
    BY <2>1 DEF GivenInv
<1> QED
  BY <1>3, <1>4

\* One more section of a plan.
LEMMA SectionCount ==
  ASSUME StartInv, CountInv, NEW engine \in Engines, NEW auth \in AuthModes, NEW trust \in BOOLEAN,
         ResolveSection(engine, auth, trust), UNCHANGED vars
  PROVE  CountInv'
<1> DEFINE s == needed[Cardinality(DOMAIN settings) + 1]
<1>1. /\ stage = "sections" /\ program = "plan"
      /\ UNCHANGED <<document, flags, supplied, total, needed, program>>
      /\ engine \in EnginesOf(s) /\ auth \in AuthOf(s, engine) /\ trust \in TrustOf(s, engine)
  BY DEF ResolveSection, vars, StartInv, StageInv
<1>2. /\ s \in KnownSections \ DOMAIN settings
      /\ \E k \in DOMAIN needed : needed[k] = s
      /\ \A x \in DOMAIN settings : \E k \in DOMAIN needed : needed[k] = x
  BY <1>1, NextSection
<1>3. \/ CannotAsk(s, engine, auth) /\ stage' = "refused" /\ UNCHANGED <<log, settings>>
      \/ /\ log' = IF flags.unattended THEN log
                   ELSE Ask(log, AboutType(s) \o AboutPlace(s) \o AboutTrust(s, engine)
                                   \o AboutLogin(s, auth), total)
         /\ settings' = [x \in DOMAIN settings \cup {s} |->
                           IF x = s THEN Connection(engine, auth, trust) ELSE settings[x]]
         /\ IF SettingsRefused(s, engine) THEN stage' = "refused"
            ELSE Onwards(IF DOMAIN settings' = {needed[k] : k \in DOMAIN needed}
                         THEN "ready" ELSE "sections")
  BY DEF ResolveSection
<1>4. WordsInv' /\ WizardCountInv'
  BY <1>1, WordsKept DEF CountInv, WizardCountInv
<1> HIDE DEF s
<1>5. CASE CannotAsk(s, engine, auth) /\ stage' = "refused" /\ UNCHANGED <<log, settings>>
  <2>1. Uncounted' = Uncounted
    BY <1>1, <1>5, UncountedKept
  <2>2. NoneTwice(log)' /\ Numbered(log, Uncounted)'
    BY <1>5, <2>1 DEF CountInv
  <2>3. GivenInv'
    BY <1>1, <1>5, GivenKept DEF CountInv
  <2>4. PlanCountInv'
    BY <1>1, <1>5 DEF PlanCountInv, CannotAsk
  <2> QED
    BY <1>4, <2>2, <2>3, <2>4 DEF CountInv
<1>6. CASE /\ log' = IF flags.unattended THEN log
                     ELSE Ask(log, AboutType(s) \o AboutPlace(s) \o AboutTrust(s, engine)
                                     \o AboutLogin(s, auth), total)
           /\ settings' = [x \in DOMAIN settings \cup {s} |->
                             IF x = s THEN Connection(engine, auth, trust) ELSE settings[x]]
           /\ IF SettingsRefused(s, engine) THEN stage' = "refused"
              ELSE Onwards(IF DOMAIN settings' = {needed[k] : k \in DOMAIN needed}
                           THEN "ready" ELSE "sections")
  <2>1. /\ DOMAIN settings' = DOMAIN settings \cup {s}
        /\ settings'[s] = Connection(engine, auth, trust)
        /\ \A x \in DOMAIN settings : settings'[x] = settings[x]
    <3> DEFINE given == Connection(engine, auth, trust)
    <3>1. settings' = [x \in DOMAIN settings \cup {s} |-> IF x = s THEN given ELSE settings[x]]
      BY <1>6
    <3> HIDE DEF given
    <3>2. settings'[s] = given /\ DOMAIN settings' = DOMAIN settings \cup {s}
      BY <3>1
    <3>3. \A x \in DOMAIN settings : settings'[x] = settings[x]
      BY <1>2, <3>1
    <3> QED
      BY <3>2, <3>3 DEF given
  <2>2. /\ stage' \in {"ready", "sections", "refused"}
        /\ stage' = "ready" => DOMAIN settings' = {needed[k] : k \in DOMAIN needed}
    BY <1>6 DEF Onwards
  <2>3. CASE flags.unattended
    <3>1. log' = << >> /\ DOMAIN log' = {} /\ Asked \subseteq Asked'
      BY <1>6, <2>3 DEF StartInv, LogInv, Asked
    <3>2. GivenInv'
      BY <1>1, <1>2, <2>1, <2>3, <3>1, SectionGiven DEF CountInv
    <3>3. NoneTwice(log)' /\ Numbered(log, Uncounted)'
      BY <3>1 DEF NoneTwice, Numbered
    <3>4. PlanCountInv'
      BY <1>1, <2>3 DEF PlanCountInv
    <3> QED
      BY <1>4, <3>2, <3>3, <3>4 DEF CountInv
  <2>4. CASE ~flags.unattended
    <3>1. log' = Ask(log, AboutType(s) \o AboutPlace(s) \o AboutTrust(s, engine)
                            \o AboutLogin(s, auth), total)
      BY <1>6, <2>4
    <3>2. /\ NoneTwice(log') /\ Numbered(log', Uncounted')
          /\ Len(log') = One(<<"run", "workbook">> \in Asked)' + Spent("source")' + Spent("target")'
          /\ Asked' = Asked \cup Elements(AboutType(s)) \cup Elements(AboutPlace(s))
               \cup Elements(AboutTrust(s, engine)) \cup Elements(AboutLogin(s, auth))
      BY <1>1, <1>2, <2>1, <2>4, <3>1, SectionAsked
    <3>3. GivenInv'
      BY <1>1, <1>2, <2>1, <3>2, SectionGiven DEF CountInv
    <3>4. ExpectedCount(needed)' = ExpectedCount(needed)
      BY <1>1, CountKept
    <3>5. PlanCountInv'
      <4>1. total' = ExpectedCount(needed)'
        BY <1>1, <2>4, <3>4 DEF CountInv, PlanCountInv
      <4> QED
        BY <1>1, <2>2, <3>2, <4>1 DEF PlanCountInv
    <3> QED
      BY <1>4, <3>2, <3>3, <3>5 DEF CountInv
  <2> QED
    BY <2>3, <2>4
<1> QED
  BY <1>3, <1>5, <1>6

LEMMA CountInvStep == StartInv /\ CountInv /\ [StartupNext]_Asking => CountInv'
<1> SUFFICES ASSUME StartInv, CountInv, [StartupNext]_Asking PROVE CountInv'
  OBVIOUS
<1>1. CASE Begin /\ UNCHANGED vars
  BY <1>1, ProfileCount
<1>2. CASE ChooseWorkbook /\ UNCHANGED vars
  BY <1>2, WorkbookCount
<1>3. CASE Wizard /\ UNCHANGED vars
  BY <1>3, WizardCount, BookCount, SourceCount, TargetCount DEF Wizard
<1>4. CASE Connect /\ UNCHANGED vars
  BY <1>4, ConnectCount
<1>5. CASE Resolve /\ UNCHANGED vars
  BY <1>5, SectionCount DEF Resolve
<1>6. CASE Read /\ UNCHANGED asking
  <2>1. UNCHANGED program
    BY <1>6 DEF Read, Next, ReadControl, FindColumns, ReadRow, EndRows, OlderReadRow, OlderEndRows,
                ReadRule, EndRules
  <2> QED
    BY <1>6, <2>1, CountUntouched
<1>7. CASE UNCHANGED Asking
  BY <1>7, CountUntouched DEF Asking, vars
<1> QED
  BY <1>1, <1>2, <1>3, <1>4, <1>5, <1>6, <1>7 DEF StartupNext

LEMMA CountInvAlways == StartupSpec => []CountInv
  BY StartInvAlways, CountInit, CountInvStep, PTL DEF StartupSpec, Asking

\* Where no question is left out of the totals, none is uncounted.
LEMMA AnnouncedIsCounted ==
  ASSUME Announced
  PROVE  Uncounted = 0
<1>1. LateLogin("source") = 0 /\ LateLogin("target") = 0
  <2>1. \A s : ~TurnedOracle(s)
    BY TurnedOracleIs DEF Announced
  <2> QED
    BY <2>1, TurnedOracleIs, LateLoginIs
<1>2. CASE program = "plan"
  <2>1. One(<<"run", "workbook">> \in Asked) = 0
    BY <1>2 DEF Announced, One
  <2> QED
    BY <1>1, <1>2, <2>1 DEF Uncounted
<1>3. CASE program # "plan"
  <2>1. One(supplied.workbook = "gone") = 0 /\ One(supplied.sheet = "gone") = 0
    BY <1>3 DEF Announced, One
  <2> QED
    BY <1>3, <2>1 DEF Uncounted
<1> QED
  BY <1>2, <1>3

\* The counter in the prompt (wizard.py:475-523, connections.py:216-246).  No question
\* is asked twice.  In a run whose questions are all announced, none has a number past
\* its total, and the totals come out: the wizard's only shrinks, to what was asked, and
\* that of `reconcile run` is what was asked and what the answers spared.
THEOREM StartupQuestionsAreCounted == StartupSpec => []QuestionsAreCounted
<1>1. ASSUME StartInv, CountInv PROVE QuestionsAreCounted
  <2>1. /\ NoneTwice(log)
        /\ \A k \in DOMAIN log : log[k].total \in Int /\ k <= log[k].total + Uncounted
    BY <1>1 DEF CountInv, Numbered
  <2>2. ASSUME Announced, NEW k \in DOMAIN log
        PROVE  k <= log[k].total
    <3>1. Uncounted = 0
      BY <2>2, AnnouncedIsCounted
    <3> QED
      BY <2>1, <2>2, <3>1
  <2>3. ASSUME program = "older", NEW j \in DOMAIN log, NEW k \in DOMAIN log, j < k, Announced
        PROVE  log[k].total <= log[j].total
    <3>1. log # << >>
      BY <2>3
    <3>2. ~TurnedOracle("source")
      BY <2>3, TurnedOracleIs DEF Announced
    <3>3. Falling(log, total)
      BY <1>1, <2>3, <3>1, <3>2 DEF CountInv, WizardCountInv
    <3>4. log[j].total >= log[k].total
      BY <2>3, <3>3 DEF Falling
    <3> QED
      BY <2>1, <2>3, <3>4
  <2>4. ASSUME program = "older", stage = "reading", Announced
        PROVE  Len(log) = total
    <3>1. total \in Int /\ Len(log) = total + Uncounted /\ Uncounted = 0
      BY <1>1, <2>4, AnnouncedIsCounted DEF CountInv, WizardCountInv
    <3> QED
      BY <3>1
  <2>5. ASSUME program = "plan", stage = "ready", settings # << >>, ~flags.unattended, Announced
        PROVE  Len(log) + SparedIn(DOMAIN settings) = total
    <3> DEFINE spared(s) == IF s \in DOMAIN settings THEN Spared(s) ELSE 0
    <3>1. /\ DOMAIN settings = {needed[k] : k \in DOMAIN needed}
          /\ Len(log) = One(<<"run", "workbook">> \in Asked) + Spent("source") + Spent("target")
          /\ total = CountedIn("source") + CountedIn("target")
      BY <1>1, <2>5, CountedInPlan DEF CountInv, PlanCountInv
    <3>2. One(<<"run", "workbook">> \in Asked) = 0
      BY <2>5 DEF Announced, One
    <3>3. ASSUME NEW s \in KnownSections
          PROVE  /\ Spent(s) + spared(s) = CountedIn(s)
                 /\ Spent(s) \in Nat /\ spared(s) \in Nat
      <4>1. CASE s \in DOMAIN settings
        <5>1. ~TurnedOracle(s)
          BY <2>5, <4>1 DEF Announced
        <5>2. /\ Spent(s) \in Nat /\ Spared(s) \in Nat
              /\ Spent(s) + Spared(s) = Counted(s)
          BY <1>1, <2>5, <4>1, <5>1, SpentAndSpared DEF StartInv, CountInv
        <5>3. CountedIn(s) = Counted(s)
          BY <3>1, <4>1 DEF CountedIn
        <5> QED
          BY <4>1, <5>2, <5>3
      <4>2. CASE s \notin DOMAIN settings
        <5>1. Spent(s) = 0 /\ spared(s) = 0
          BY <4>2 DEF Spent
        <5>2. CountedIn(s) = 0
          BY <3>1, <4>2 DEF CountedIn
        <5> QED
          BY <5>1, <5>2
      <4> QED
        BY <4>1, <4>2
    <3>4. SparedIn(DOMAIN settings) = spared("source") + spared("target")
      BY DEF SparedIn
    <3> HIDE DEF spared
    <3> QED
      BY <3>1, <3>2, <3>3, <3>4 DEF KnownSections
  <2> QED
    BY <2>1, <2>2, <2>3, <2>4, <2>5, Zenon DEF QuestionsAreCounted, NoneTwice
<1> QED
  BY <1>1, StartInvAlways, CountInvAlways, PTL

-----------------------------------------------------------------------------
\* What is read of the sheet, whoever connects later.

\* A start reads its workbook as Reading does, and does nothing else to a plan.
THEOREM StartupReads == StartupSpec => Spec
<1>1. StartupInit => Init
  BY DEF StartupInit
<1>2. [StartupNext]_Asking => [Next]_vars
  BY DEF StartupNext, Read, Asking
<1> QED
  BY <1>1, <1>2, PTL DEF StartupSpec, Spec, Asking

LEMMA OneMore ==
  ASSUME NEW list, IsList(list), NEW e
  PROVE  LET more == Append(list, e)
         IN /\ IsList(more) /\ Len(more) = Len(list) + 1 /\ Len(list) \in Nat
            /\ DOMAIN list = 1..Len(list) /\ DOMAIN more = 1..(Len(list) + 1)
            /\ more[Len(list) + 1] = e /\ \A k \in DOMAIN list : more[k] = list[k]
<1>1. PICK S : list \in Seq(S)
  BY DEF IsList
<1> DEFINE T == S \cup {e}
           more == Append(list, e)
<1>2. list \in Seq(T) /\ e \in T
  BY <1>1, SeqMonotonic
<1> HIDE DEF T
<1>3. /\ more \in Seq(T) /\ Len(more) = Len(list) + 1
      /\ \A i \in 1 .. Len(list) : more[i] = list[i]
      /\ more[Len(list) + 1] = e
  BY <1>2, AppendProperties
<1>4. Len(list) \in Nat /\ DOMAIN list = 1..Len(list)
  BY <1>2, LenProperties
<1>5. DOMAIN more = 1..(Len(list) + 1)
  BY <1>3, <1>4, LenProperties
<1>6. IsList(more)
  BY <1>3, Zenon DEF IsList
<1> HIDE DEF more
<1> QED
  BY <1>3, <1>4, <1>5, <1>6 DEF more

LEMMA RowsOfOneMore ==
  ASSUME NEW list, IsList(list), NEW e
  PROVE  RowsOf(Append(list, e)) = RowsOf(list) \cup {e.row}
<1> DEFINE more == Append(list, e)
<1>1. /\ Len(list) \in Nat /\ DOMAIN list = 1..Len(list) /\ DOMAIN more = 1..(Len(list) + 1)
      /\ more[Len(list) + 1] = e /\ \A k \in DOMAIN list : more[k] = list[k]
  BY OneMore
<1> HIDE DEF more
<1>2. DOMAIN more = DOMAIN list \cup {Len(list) + 1}
  BY <1>1
<1>3. RowsOf(more) = RowsOf(list) \cup {e.row}
  BY <1>1, <1>2 DEF RowsOf
<1> QED
  BY <1>3 DEF more

-----------------------------------------------------------------------------
\* The checks of a row.

LEMMA TuplesAreLists ==
  /\ \A a, b : IsList(<<a, b>>) /\ Elements(<<a, b>>) = {a, b}
  /\ \A a, b, c : IsList(<<a, b, c>>) /\ Elements(<<a, b, c>>) = {a, b, c}
  /\ \A a, b, c, d, e, f : /\ IsList(<<a, b, c, d, e, f>>)
                           /\ Elements(<<a, b, c, d, e, f>>) = {a, b, c, d, e, f}
<1>1. \A a, b : <<a, b>> \in Seq({a, b})
  OBVIOUS
<1>2. \A a, b, c : <<a, b, c>> \in Seq({a, b, c})
  OBVIOUS
<1>3. \A a, b, c, d, e, f : <<a, b, c, d, e, f>> \in Seq({a, b, c, d, e, f})
  OBVIOUS
<1>4. \A a, b : IsList(<<a, b>>)
  BY <1>1, Zenon DEF IsList
<1>5. \A a, b, c : IsList(<<a, b, c>>)
  BY <1>2, Zenon DEF IsList
<1>6. \A a, b, c, d, e, f : IsList(<<a, b, c, d, e, f>>)
  BY <1>3, Zenon DEF IsList
<1>7. \A a, b : Elements(<<a, b>>) = {a, b}
  BY DEF Elements
<1>8. \A a, b, c : Elements(<<a, b, c>>) = {a, b, c}
  BY DEF Elements
<1>9. \A a, b, c, d, e, f : Elements(<<a, b, c, d, e, f>>) = {a, b, c, d, e, f}
  BY DEF Elements
<1> QED
  BY <1>4, <1>5, <1>6, <1>7, <1>8, <1>9

\* Each of the checks a row has to pass is one of its Checks.
LEMMA ChecksOfDefinitions ==
  ASSUME NEW r
  PROVE  /\ IsList(DefinitionChecks(r))
         /\ { <<"INVALID_SCOPE", r.scope \notin Scopes>>,
              <<"INVALID_COMPARISON_TYPE", r.comparison \notin ComparisonTypes>>,
              <<"INVALID_RESULT_TYPE", r.type \notin SupportedTypes(r.comparison)>>,
              <<"INVALID_COMPARISON_TYPE", r.comparison \in TwoSided /\ r.scope # "SOURCE_TARGET">>,
              <<"INVALID_TOLERANCE", ~ToleranceValid(r.absTol) \/ ~ToleranceValid(r.pctTol)>>,
              <<"MISSING_EXPECTED_VALUE", RequiresExpected(r.comparison, r.scope) /\ Blank(r.expected)>>,
              <<"TYPE_CONVERSION_ERROR",
                ~Blank(r.expected) /\ Normalize(r.expected, r.type) = Refused>> }
            \subseteq Elements(DefinitionChecks(r))
<1> DEFINE first == << <<"INVALID_SCOPE", r.scope \notin Scopes>>,
     <<"INVALID_COMPARISON_TYPE", r.comparison \notin ComparisonTypes>>,
     <<"INVALID_RESULT_TYPE", r.type \notin ResultTypes>>,
     <<"INVALID_RESULT_TYPE", r.type \notin SupportedTypes(r.comparison)>>,
     <<"INVALID_COMPARISON_TYPE", r.comparison \in TwoSided /\ r.scope # "SOURCE_TARGET">>,
     <<"INVALID_TOLERANCE", ~ToleranceValid(r.absTol) \/ ~ToleranceValid(r.pctTol)>> >>
           last == << <<"MISSING_EXPECTED_VALUE",
          RequiresExpected(r.comparison, r.scope) /\ Blank(r.expected)>>,
        <<"TYPE_CONVERSION_ERROR",
          ~Blank(r.expected) /\ Normalize(r.expected, r.type) = Refused>> >>
           a == first \o SectionChecks(r, "source")
           b == a \o SectionChecks(r, "target")
           c == b \o SqlChecks(r, "source")
           d == c \o SqlChecks(r, "target")
<1>1. DefinitionChecks(r) = d \o last
  BY DEF DefinitionChecks
<1>2. /\ IsList(first) /\ IsList(last)
      /\ \A s : IsList(SectionChecks(r, s)) /\ IsList(SqlChecks(r, s))
  BY TuplesAreLists DEF SectionChecks, SqlChecks
<1>3. /\ Elements(first) =
           { <<"INVALID_SCOPE", r.scope \notin Scopes>>,
             <<"INVALID_COMPARISON_TYPE", r.comparison \notin ComparisonTypes>>,
             <<"INVALID_RESULT_TYPE", r.type \notin ResultTypes>>,
             <<"INVALID_RESULT_TYPE", r.type \notin SupportedTypes(r.comparison)>>,
             <<"INVALID_COMPARISON_TYPE", r.comparison \in TwoSided /\ r.scope # "SOURCE_TARGET">>,
             <<"INVALID_TOLERANCE", ~ToleranceValid(r.absTol) \/ ~ToleranceValid(r.pctTol)>> }
      /\ Elements(last) =
           { <<"MISSING_EXPECTED_VALUE", RequiresExpected(r.comparison, r.scope) /\ Blank(r.expected)>>,
             <<"TYPE_CONVERSION_ERROR",
               ~Blank(r.expected) /\ Normalize(r.expected, r.type) = Refused>> }
  BY TuplesAreLists
<1> HIDE DEF first, last
<1>4. IsList(a) /\ Elements(first) \subseteq Elements(a)
  BY <1>2, JoinedLists
<1> HIDE DEF a
<1>5. IsList(b) /\ Elements(first) \subseteq Elements(b)
  BY <1>2, <1>4, JoinedLists
<1> HIDE DEF b
<1>6. IsList(c) /\ Elements(first) \subseteq Elements(c)
  BY <1>2, <1>5, JoinedLists
<1> HIDE DEF c
<1>7. IsList(d) /\ Elements(first) \subseteq Elements(d)
  BY <1>2, <1>6, JoinedLists
<1> HIDE DEF d
<1>8. IsList(d \o last) /\ Elements(first) \cup Elements(last) \subseteq Elements(d \o last)
  BY <1>2, <1>7, JoinedLists
<1> QED
  BY <1>1, <1>3, <1>8

LEMMA PassedChecks ==
  ASSUME NEW r, NEW taken, Failed(r, taken) = {}
  PROVE  /\ r.id # "" /\ r.id \notin taken
         /\ r.enabled # "no" =>
              /\ r.scope \in Scopes /\ r.comparison \in ComparisonTypes
              /\ r.type \in SupportedTypes(r.comparison)
              /\ r.comparison \in TwoSided => r.scope = "SOURCE_TARGET"
              /\ ToleranceValid(r.absTol) /\ ToleranceValid(r.pctTol)
              /\ ~(RequiresExpected(r.comparison, r.scope) /\ Blank(r.expected))
              /\ ~Blank(r.expected) => Normalize(r.expected, r.type) # Refused
<1> DEFINE rest == IF r.enabled = "no" THEN << >> ELSE DefinitionChecks(r)
           all == IdentityChecks(r, taken) \o rest
<1>1. /\ IsList(IdentityChecks(r, taken))
      /\ Elements(IdentityChecks(r, taken)) = { <<"MISSING_TEST_ID", r.id = "">>,
           <<"DUPLICATE_TEST_ID", r.id \in taken>>,
           <<"INVALID_ENABLED", r.enabled \notin {"yes", "no"}>> }
  <2> DEFINE a == <<"MISSING_TEST_ID", r.id = "">>
             b == <<"DUPLICATE_TEST_ID", r.id \in taken>>
             c == <<"INVALID_ENABLED", r.enabled \notin {"yes", "no"}>>
  <2>1. IdentityChecks(r, taken) = <<a, b, c>>
    BY DEF IdentityChecks
  <2> HIDE DEF a, b, c
  <2>2. IsList(<<a, b, c>>) /\ Elements(<<a, b, c>>) = {a, b, c}
    BY TuplesAreLists
  <2> QED
    BY <2>1, <2>2 DEF a, b, c
<1>2. IsList(rest)
  BY ShortLists, ChecksOfDefinitions
<1>3. Elements(all) = Elements(IdentityChecks(r, taken)) \cup Elements(rest)
  <2> HIDE DEF rest
  <2> QED
    BY <1>1, <1>2, JoinedLists
<1>4. Checks(r, taken) = all
  BY DEF Checks
<1>5. \A e \in Elements(all) : ~e[2]
  <2> HIDE DEF all
  <2> QED
    BY <1>4 DEF Failed, Elements
<1> HIDE DEF all
<1>6. r.id # "" /\ r.id \notin taken
  <2>1. ~(<<"MISSING_TEST_ID", r.id = "">>[2]) /\ ~(<<"DUPLICATE_TEST_ID", r.id \in taken>>[2])
    BY <1>1, <1>3, <1>5
  <2> QED
    BY <2>1
<1>7. ASSUME r.enabled # "no"
      PROVE  /\ r.scope \in Scopes /\ r.comparison \in ComparisonTypes
             /\ r.type \in SupportedTypes(r.comparison)
             /\ r.comparison \in TwoSided => r.scope = "SOURCE_TARGET"
             /\ ToleranceValid(r.absTol) /\ ToleranceValid(r.pctTol)
             /\ ~(RequiresExpected(r.comparison, r.scope) /\ Blank(r.expected))
             /\ ~Blank(r.expected) => Normalize(r.expected, r.type) # Refused
  <2>1. Elements(DefinitionChecks(r)) \subseteq Elements(all)
    BY <1>3, <1>7
  <2>2. /\ <<"INVALID_SCOPE", r.scope \notin Scopes>> \in Elements(all)
        /\ <<"INVALID_COMPARISON_TYPE", r.comparison \notin ComparisonTypes>> \in Elements(all)
        /\ <<"INVALID_RESULT_TYPE", r.type \notin SupportedTypes(r.comparison)>> \in Elements(all)
        /\ <<"INVALID_COMPARISON_TYPE", r.comparison \in TwoSided /\ r.scope # "SOURCE_TARGET">>
             \in Elements(all)
        /\ <<"INVALID_TOLERANCE", ~ToleranceValid(r.absTol) \/ ~ToleranceValid(r.pctTol)>>
             \in Elements(all)
        /\ <<"MISSING_EXPECTED_VALUE", RequiresExpected(r.comparison, r.scope) /\ Blank(r.expected)>>
             \in Elements(all)
        /\ <<"TYPE_CONVERSION_ERROR",
             ~Blank(r.expected) /\ Normalize(r.expected, r.type) = Refused>> \in Elements(all)
    BY <2>1, ChecksOfDefinitions
  <2>3. \A code, failed : <<code, failed>> \in Elements(all) => ~failed
    <3> SUFFICES ASSUME NEW code, NEW failed, <<code, failed>> \in Elements(all) PROVE ~failed
      OBVIOUS
    <3>1. ~(<<code, failed>>[2])
      BY <1>5
    <3> QED
      BY <3>1
  <2> QED
    BY <2>2, <2>3
<1> QED
  BY <1>6, <1>7

-----------------------------------------------------------------------------
\* What has become of the rows read so far.

Shape ==
  /\ program \in {"plan", "older"} /\ book \in Books
  /\ pc \in {"control", "columns", "rows", "rules", "done", "refused"}
  /\ at \in Nat
  /\ pc \in {"control", "columns"} => at = 0
  /\ pc = "rows" => at <= Len(book.rows)
  /\ pc \in {"control", "rules"} => program = "plan"

RowsRead == IF pc \in {"control", "columns", "rows"} THEN at ELSE Len(book.rows)
Filled == {k \in 1..RowsRead : ~BlankRow(book.rows[k])}

\* Ids are remembered from the first row that has them.
SeenInv ==
  DOMAIN seen = {book.rows[k].id : k \in Filled} \ {""}

\* Every row has a place, and a row whose id was taken has none of its own.
PlacedInv ==
  /\ IsList(definitions) /\ IsList(problems) /\ duplicates \subseteq 1..RowsRead
  /\ program = "plan" => duplicates = {}
  /\ RowsOf(definitions) \cup RowsOf(problems) \cup duplicates = Filled
  /\ Cardinality(Filled) = Len(definitions) + Len(problems) + Cardinality(duplicates)
  /\ program = "older" =>
       /\ \A j, k \in Filled : j < k /\ book.rows[j].id = book.rows[k].id /\ book.rows[j].id # ""
                               => k \in duplicates
       /\ pc = "done" => duplicates = {}
FirstInv ==
  \A k \in DOMAIN definitions :
    /\ definitions[k].row \in 1..RowsRead
    /\ \A j \in 1..(definitions[k].row - 1) : book.rows[j].id # definitions[k].id

\* A test is a row that passed its checks.
Accepted(r) == \E taken : Failed(r, taken) = {}
DefinedInv ==
  program = "plan" =>
    \A k \in DOMAIN definitions :
      \E j \in DOMAIN book.rows : definitions[k] = Definition(book.rows[j], j) /\ Accepted(book.rows[j])

RuledInv ==
  /\ rules \in Seq(RuleType)
  /\ program = "plan" /\ pc = "done" => ~Contradicting

ReadInv ==
  /\ Shape /\ IsList(definitions) /\ DefinedInv /\ RuledInv
  /\ pc # "refused" => SeenInv /\ PlacedInv /\ FirstInv

-----------------------------------------------------------------------------
\* One more row.

LEMMA BooksAreTyped ==
  ASSUME Shape
  PROVE  /\ book.rows \in Seq(RowType) /\ book.rules \in Seq(RuleType)
         /\ \A k \in DOMAIN book.rows : BlankRow(book.rows[k]) => book.rows[k].id = ""
<1>1. /\ book.rows \in Seq(RowType) /\ book.rules \in Seq(RuleType)
      /\ \A k \in DOMAIN book.rows : book.rows[k].blank => book.rows[k].id = ""
  BY BooksAssumption DEF Shape
<1> QED
  BY <1>1 DEF BlankRow

LEMMA BooksAreLists ==
  ASSUME Shape
  PROVE  /\ Len(book.rows) \in Nat /\ DOMAIN book.rows = 1..Len(book.rows)
         /\ Len(book.rules) \in Nat /\ DOMAIN book.rules = 1..Len(book.rules)
  BY BooksAreTyped, LenProperties

\* The row to be read next.
Here == book.rows[at + 1]

LEMMA NextRow ==
  ASSUME ReadInv, pc = "rows", at < Len(book.rows), UNCHANGED <<program, book, pc>>, at' = at + 1
  PROVE  /\ at + 1 \in DOMAIN book.rows /\ Shape' /\ at \in Nat
         /\ RowsRead = at /\ RowsRead' = at + 1
         /\ at + 1 \notin Filled /\ Filled \subseteq 1..at /\ IsFiniteSet(Filled)
         /\ BlankRow(Here) => Filled' = Filled /\ Here.id = ""
         /\ ~BlankRow(Here) =>
              Filled' = Filled \cup {at + 1} /\ Cardinality(Filled') = Cardinality(Filled) + 1
<1>1. /\ at \in Nat /\ Len(book.rows) \in Nat /\ DOMAIN book.rows = 1..Len(book.rows) /\ Shape
  BY BooksAreLists DEF ReadInv, Shape
<1>2. at + 1 \in Nat /\ at + 1 <= Len(book.rows) /\ at + 1 \in DOMAIN book.rows
  BY <1>1
<1>11. Shape'
  BY <1>1, <1>2 DEF Shape
<1>12. BlankRow(Here) => Here.id = ""
  BY <1>1, <1>2, BooksAreTyped DEF Here
<1>3. RowsRead = at /\ RowsRead' = at + 1
  BY DEF RowsRead
<1>4. Filled = {k \in 1..at : ~BlankRow(book.rows[k])}
  BY <1>3 DEF Filled
<1>5. Filled' = {k \in 1..(at + 1) : ~BlankRow(book.rows[k])}
  BY <1>3 DEF Filled, BlankRow
<1>6. 1..(at + 1) = (1..at) \cup {at + 1} /\ at + 1 \notin 1..at
  BY <1>1
<1>7. Filled \subseteq 1..at /\ at + 1 \notin Filled
  BY <1>4, <1>6
<1>8. IsFiniteSet(Filled)
  <2>1. IsFiniteSet(1..at)
    BY <1>1, FS_Interval
  <2> QED
    BY <1>7, <2>1, FS_Subset
<1>9. /\ BlankRow(Here) => Filled' = Filled
      /\ ~BlankRow(Here) => Filled' = Filled \cup {at + 1}
  BY <1>4, <1>5, <1>6 DEF Here
<1>10. Cardinality(Filled \cup {at + 1}) = Cardinality(Filled) + 1
  BY <1>7, <1>8, FS_AddElement
<1> QED
  BY <1>1, <1>2, <1>11, <1>12, <1>3, <1>7, <1>8, <1>9, <1>10

\* An id that was used above is remembered, unless it is blank.
LEMMA IdsAbove ==
  ASSUME ReadInv, pc = "rows", at < Len(book.rows), NEW j \in 1..at
  PROVE  book.rows[j].id \in DOMAIN seen \cup {""}
<1>1. j \in DOMAIN book.rows /\ RowsRead = at /\ Shape
  BY BooksAreLists DEF ReadInv, Shape, RowsRead
<1>2. CASE BlankRow(book.rows[j])
  BY <1>1, <1>2, BooksAreTyped
<1>3. CASE ~BlankRow(book.rows[j])
  BY <1>1, <1>3 DEF ReadInv, SeenInv, Filled
<1> QED
  BY <1>2, <1>3

LEMMA Registered ==
  ASSUME ReadInv, pc = "rows", at < Len(book.rows), UNCHANGED <<program, book, pc>>, at' = at + 1,
         ~BlankRow(Here),
         \/ seen' = Register(Here, at + 1)
         \/ UNCHANGED seen /\ Here.id \in DOMAIN seen \cup {""}
  PROVE  SeenInv'
<1> DEFINE id == Here.id
           ids == {book.rows[k].id : k \in Filled}
<1>1. DOMAIN seen = ids \ {""}
  BY DEF ReadInv, SeenInv
<1>2. Filled' = Filled \cup {at + 1}
  BY NextRow
<1>3. DOMAIN seen' = (DOMAIN seen \cup {id}) \ {""}
  <2>1. CASE id \in DOMAIN seen \cup {""}
    <3>1. seen' = seen
      BY <2>1 DEF Register
    <3> QED
      BY <1>1, <2>1, <3>1
  <2>2. CASE id \notin DOMAIN seen \cup {""}
    <3>1. DOMAIN seen' = DOMAIN seen \cup {id}
      BY <2>2 DEF Register
    <3> QED
      BY <1>1, <2>2, <3>1
  <2> QED
    BY <2>1, <2>2
<1>4. {book.rows[k].id : k \in Filled'} = ids \cup {id}
  <2>1. {book.rows[k].id : k \in Filled \cup {at + 1}} = ids \cup {book.rows[at + 1].id}
    <3> DEFINE n == at + 1
    <3> HIDE DEF n
    <3>1. {book.rows[k].id : k \in Filled \cup {n}} = ids \cup {book.rows[n].id}
      OBVIOUS
    <3> QED
      BY <3>1 DEF n
  <2> QED
    BY <1>2, <2>1 DEF Here
<1> QED
  BY <1>1, <1>3, <1>4 DEF SeenInv

LEMMA Parts ==
  ASSUME ReadInv, pc = "rows"
  PROVE  Shape /\ SeenInv /\ PlacedInv /\ FirstInv /\ DefinedInv /\ RuledInv
  BY DEF ReadInv

LEMMA StillDefined ==
  ASSUME DefinedInv, UNCHANGED <<program, book, definitions>>
  PROVE  DefinedInv'
  BY DEF DefinedInv

LEMMA StillRuled ==
  ASSUME RuledInv, UNCHANGED <<program, pc, rules>>
  PROVE  RuledInv'
<1>1. Contradicting' = Contradicting
  BY DEF Contradicting
<1> QED
  BY <1>1 DEF RuledInv

LEMMA StillFirst ==
  ASSUME FirstInv, UNCHANGED <<book, definitions>>, 1..RowsRead \subseteq 1..RowsRead'
  PROVE  FirstInv'
  BY DEF FirstInv

LEMMA BlankStep ==
  ASSUME ReadInv, pc = "rows", at < Len(book.rows), UNCHANGED <<program, book, pc>>, at' = at + 1,
         BlankRow(Here), UNCHANGED <<seen, definitions, problems, duplicates, rules>>
  PROVE  ReadInv'
<1>1. Filled' = Filled /\ RowsRead = at /\ RowsRead' = at + 1 /\ at \in Nat /\ Shape'
  BY NextRow
<1>2. 1..RowsRead \subseteq 1..RowsRead'
  BY <1>1
<1>3. Shape /\ SeenInv /\ PlacedInv /\ FirstInv /\ DefinedInv /\ RuledInv
  BY Parts
<1>4. SeenInv'
  BY <1>1, <1>3 DEF SeenInv
<1>5. PlacedInv'
  <2>1. duplicates \subseteq 1..RowsRead'
    BY <1>2, <1>3 DEF PlacedInv
  <2>2. RowsOf(definitions') = RowsOf(definitions) /\ RowsOf(problems') = RowsOf(problems)
    BY DEF RowsOf
  <2> QED
    BY <1>1, <1>3, <2>1, <2>2 DEF PlacedInv
<1> QED
  BY <1>1, <1>2, <1>3, <1>4, <1>5, StillDefined, StillRuled, StillFirst DEF ReadInv, PlacedInv

LEMMA Below ==
  \A n \in Nat : \A F \in SUBSET (1..n) : \A j, k \in F \cup {n + 1} :
    j < k => j \in 1..n /\ j \in F /\ (k # n + 1 => k \in F)
  OBVIOUS

\* What is left to see of a row that is not blank: where it was put.
LEMMA Placed ==
  ASSUME ReadInv, pc = "rows", at < Len(book.rows), UNCHANGED <<program, book, pc>>, at' = at + 1,
         ~BlankRow(Here), IsList(definitions'), IsList(problems'),
         program = "plan" => duplicates' = {}, duplicates' \subseteq duplicates \cup {at + 1},
         duplicates \subseteq duplicates',
         RowsOf(definitions') \cup RowsOf(problems') \cup duplicates'
           = RowsOf(definitions) \cup RowsOf(problems) \cup duplicates \cup {at + 1},
         Len(definitions') + Len(problems') + Cardinality(duplicates')
           = Len(definitions) + Len(problems) + Cardinality(duplicates) + 1,
         program = "older" => Here.id \notin DOMAIN seen \/ at + 1 \in duplicates'
  PROVE  PlacedInv'
<1> DEFINE n == at + 1
<1>1. /\ Filled' = Filled \cup {n} /\ Cardinality(Filled') = Cardinality(Filled) + 1
      /\ RowsRead = at /\ RowsRead' = n /\ at \in Nat /\ Filled \subseteq 1..at
  BY NextRow
<1>2. PlacedInv
  BY Parts
<1>3. 1..RowsRead \subseteq 1..RowsRead' /\ n \in 1..RowsRead' /\ n \notin 1..at
  BY <1>1
<1>4. duplicates' \subseteq 1..RowsRead'
  <2> HIDE DEF n
  <2>1. duplicates \subseteq 1..RowsRead /\ duplicates' \subseteq duplicates \cup {n}
    BY <1>2 DEF PlacedInv, n
  <2> QED
    BY <1>3, <2>1
<1>5. ASSUME program = "older"
      PROVE  \A j, k \in Filled' : j < k /\ book.rows[j].id = book.rows[k].id /\ book.rows[j].id # ""
                                 => k \in duplicates'
  <2> SUFFICES ASSUME NEW j \in Filled', NEW k \in Filled', j < k,
                      book.rows[j].id = book.rows[k].id, book.rows[j].id # ""
               PROVE  k \in duplicates'
    OBVIOUS
  <2>1. CASE k = n
    <3>2. j \in 1..at
      BY <1>1, Below
    <3>3. book.rows[j].id \in DOMAIN seen
      BY <3>2, IdsAbove
    <3>4. book.rows[k] = Here
      BY <2>1 DEF Here
    <3> QED
      BY <1>5, <2>1, <3>3, <3>4
  <2>2. CASE k # n
    <3>2. j \in Filled /\ k \in Filled
      BY <1>1, <2>2, Below
    <3>3. k \in duplicates
      BY <1>2, <1>5, <3>2 DEF PlacedInv
    <3> QED
      BY <3>3
  <2> QED
    BY <2>1, <2>2
<1>6. RowsOf(definitions') \cup RowsOf(problems') \cup duplicates' = Filled'
  <2> HIDE DEF n
  <2>1. RowsOf(definitions) \cup RowsOf(problems) \cup duplicates = Filled
    BY <1>2 DEF PlacedInv
  <2>2. RowsOf(definitions') \cup RowsOf(problems') \cup duplicates'
           = RowsOf(definitions) \cup RowsOf(problems) \cup duplicates \cup {n}
    BY DEF n
  <2> QED
    BY <1>1, <2>1, <2>2
<1>7. Cardinality(Filled') = Len(definitions') + Len(problems') + Cardinality(duplicates')
  BY <1>1, <1>2 DEF PlacedInv
<1>8. pc' # "done"
  OBVIOUS
<1> QED
  BY <1>4, <1>5, <1>6, <1>7, <1>8 DEF PlacedInv

LEMMA ListsOfRows ==
  ASSUME ReadInv, pc = "rows"
  PROVE  /\ IsList(definitions) /\ IsList(problems)
         /\ Len(definitions) \in Nat /\ Len(problems) \in Nat
         /\ at \in Nat /\ IsFiniteSet(duplicates) /\ duplicates \subseteq 1..at
         /\ Cardinality(duplicates) \in Nat
<1>1. /\ IsList(definitions) /\ IsList(problems) /\ at \in Nat
      /\ RowsRead = at /\ duplicates \subseteq 1..RowsRead
  BY Parts DEF PlacedInv, Shape, RowsRead
<1>2. Len(definitions) \in Nat /\ Len(problems) \in Nat
  BY <1>1, OneMore
<1>3. IsFiniteSet(1..at)
  BY <1>1, FS_Interval
<1>4. IsFiniteSet(duplicates)
  BY <1>1, <1>3, FS_Subset
<1> QED
  BY <1>1, <1>2, <1>4, FS_CardinalityType

LEMMA ProblemStep ==
  ASSUME ReadInv, pc = "rows", at < Len(book.rows), UNCHANGED <<program, book, pc>>, at' = at + 1,
         ~BlankRow(Here), UNCHANGED <<definitions, duplicates, rules>>, SeenInv',
         NEW code, problems' = Append(problems, [row |-> at + 1, code |-> code]),
         program = "older" => Here.id \notin DOMAIN seen
  PROVE  ReadInv'
<1>1. /\ RowsOf(problems') = RowsOf(problems) \cup {at + 1} /\ IsList(problems')
      /\ Len(problems') = Len(problems) + 1
  <2> DEFINE e == [row |-> at + 1, code |-> code]
  <2>1. IsList(problems) /\ e.row = at + 1 /\ problems' = Append(problems, e)
    BY ListsOfRows
  <2> HIDE DEF e
  <2> QED
    BY <2>1, RowsOfOneMore, OneMore
<1>2. /\ Shape /\ SeenInv /\ PlacedInv /\ FirstInv /\ DefinedInv /\ RuledInv
      /\ program = "plan" => duplicates = {}
  BY Parts DEF PlacedInv
<1>3. /\ Len(definitions) + Len(problems') + Cardinality(duplicates)
           = Len(definitions) + Len(problems) + Cardinality(duplicates) + 1
      /\ RowsOf(definitions) \cup RowsOf(problems') \cup duplicates
           = RowsOf(definitions) \cup RowsOf(problems) \cup duplicates \cup {at + 1}
  BY <1>1, ListsOfRows
<1>4. PlacedInv'
  BY <1>1, <1>2, <1>3, ListsOfRows, Placed
<1>5. Shape' /\ 1..RowsRead \subseteq 1..RowsRead'
  <2>1. Shape' /\ RowsRead = at /\ RowsRead' = at + 1 /\ at \in Nat
    BY NextRow
  <2> QED
    BY <2>1
<1> QED
  BY <1>2, <1>4, <1>5, StillDefined, StillRuled, StillFirst, ListsOfRows DEF ReadInv

LEMMA NextRowKept ==
  ASSUME ReadInv, pc = "rows", at < Len(book.rows), UNCHANGED <<program, book, pc>>, at' = at + 1
  PROVE  /\ Shape' /\ 1..RowsRead \subseteq 1..RowsRead' /\ RowsRead = at /\ at + 1 \in 1..RowsRead'
         /\ at + 1 \in DOMAIN book.rows
<1>1. Shape' /\ RowsRead = at /\ RowsRead' = at + 1 /\ at \in Nat /\ at + 1 \in DOMAIN book.rows
  BY NextRow
<1> QED
  BY <1>1

LEMMA UpToNext == \A m \in Nat : 1..(m + 1) = (1..m) \cup {m + 1} /\ 1..((m + 1) - 1) = 1..m
  OBVIOUS

LEMMA OneMoreDefinition ==
  ASSUME IsList(definitions), NEW d, definitions' = Append(definitions, d)
  PROVE  /\ RowsOf(definitions') = RowsOf(definitions) \cup {d.row} /\ IsList(definitions')
         /\ Len(definitions') = Len(definitions) + 1
         /\ DOMAIN definitions' = DOMAIN definitions \cup {Len(definitions) + 1}
         /\ definitions'[Len(definitions) + 1] = d
         /\ \A k \in DOMAIN definitions : definitions'[k] = definitions[k]
         /\ \A y, z \in Nat : Len(definitions') + y + z = Len(definitions) + y + z + 1
<1>1. /\ IsList(definitions') /\ Len(definitions') = Len(definitions) + 1
      /\ Len(definitions) \in Nat /\ DOMAIN definitions = 1..Len(definitions)
      /\ DOMAIN definitions' = 1..(Len(definitions) + 1) /\ definitions'[Len(definitions) + 1] = d
      /\ \A k \in DOMAIN definitions : definitions'[k] = definitions[k]
  BY OneMore
<1>2. DOMAIN definitions' = DOMAIN definitions \cup {Len(definitions) + 1}
  BY <1>1, UpToNext
<1>3. \A y, z \in Nat : Len(definitions') + y + z = Len(definitions) + y + z + 1
  BY <1>1
<1> QED
  BY <1>1, <1>2, <1>3, RowsOfOneMore

LEMMA DefinitionStep ==
  ASSUME ReadInv, pc = "rows", at < Len(book.rows), UNCHANGED <<program, book, pc>>, at' = at + 1,
         ~BlankRow(Here), UNCHANGED <<problems, duplicates, rules>>, SeenInv',
         NEW d, definitions' = Append(definitions, d), d.row = at + 1, d.id = Here.id,
         Here.id \notin DOMAIN seen \cup {""},
         program = "plan" => d = Definition(Here, at + 1) /\ Accepted(Here)
  PROVE  ReadInv'
<1> DEFINE n == Len(definitions) + 1
<1>1. /\ RowsOf(definitions') = RowsOf(definitions) \cup {at + 1} /\ IsList(definitions')
      /\ Len(definitions') = Len(definitions) + 1
      /\ DOMAIN definitions' = DOMAIN definitions \cup {n} /\ definitions'[n] = d
      /\ \A k \in DOMAIN definitions : definitions'[k] = definitions[k]
  BY ListsOfRows, OneMoreDefinition
<1> HIDE DEF n
<1>2. /\ Shape /\ SeenInv /\ PlacedInv /\ FirstInv /\ DefinedInv /\ RuledInv
      /\ program = "plan" => duplicates = {}
  BY Parts DEF PlacedInv
<1>3. /\ Len(definitions') + Len(problems) + Cardinality(duplicates)
           = Len(definitions) + Len(problems) + Cardinality(duplicates) + 1
      /\ RowsOf(definitions') \cup RowsOf(problems) \cup duplicates
           = RowsOf(definitions) \cup RowsOf(problems) \cup duplicates \cup {at + 1}
  <2>2. Len(definitions') + Len(problems) + Cardinality(duplicates)
           = Len(definitions) + Len(problems) + Cardinality(duplicates) + 1
    <3>1. /\ Len(definitions) \in Nat /\ Len(problems) \in Nat /\ Cardinality(duplicates) \in Nat
          /\ Len(definitions') = Len(definitions) + 1
      BY <1>1, ListsOfRows
    <3> QED
      BY <3>1, OneMoreDefinition, ListsOfRows
  <2>3. RowsOf(definitions') \cup RowsOf(problems) \cup duplicates
           = RowsOf(definitions) \cup RowsOf(problems) \cup duplicates \cup {at + 1}
    BY <1>1
  <2> QED
    BY <2>2, <2>3
<1>4. PlacedInv'
  BY <1>1, <1>2, <1>3, ListsOfRows, Placed
<1>5. /\ Shape' /\ 1..RowsRead \subseteq 1..RowsRead' /\ RowsRead = at /\ at + 1 \in 1..RowsRead'
      /\ at + 1 \in DOMAIN book.rows
  BY NextRowKept
<1>6. FirstInv'
  <2> SUFFICES ASSUME NEW k \in DOMAIN definitions'
               PROVE  /\ definitions'[k].row \in 1..RowsRead'
                      /\ \A j \in 1..(definitions'[k].row - 1) : book.rows[j].id # definitions'[k].id
    BY DEF FirstInv
  <2>1. CASE k \in DOMAIN definitions
    <3>1. definitions'[k] = definitions[k]
      BY <1>1, <2>1
    <3> QED
      BY <1>2, <1>5, <2>1, <3>1 DEF FirstInv
  <2>2. CASE k = n
    <3>1. definitions'[k].row = at + 1 /\ definitions'[k].id = Here.id
      BY <1>1, <2>2
    <3>2. 1..((at + 1) - 1) = 1..at
      BY ListsOfRows, UpToNext
    <3>3. \A j \in 1..at : book.rows[j].id # Here.id
      BY IdsAbove
    <3> QED
      BY <1>5, <3>1, <3>2, <3>3
  <2> QED
    BY <1>1, <2>1, <2>2
<1>7. DefinedInv'
  <2> SUFFICES ASSUME program = "plan", NEW k \in DOMAIN definitions'
               PROVE  \E j \in DOMAIN book.rows :
                        definitions'[k] = Definition(book.rows[j], j) /\ Accepted(book.rows[j])
    BY DEF DefinedInv
  <2>1. CASE k \in DOMAIN definitions
    <3>1. definitions'[k] = definitions[k]
      BY <1>1, <2>1
    <3>2. \E j \in DOMAIN book.rows :
            definitions[k] = Definition(book.rows[j], j) /\ Accepted(book.rows[j])
      BY <1>2, <2>1 DEF DefinedInv
    <3> QED
      BY <3>1, <3>2
  <2>2. CASE k = n
    <3>1. definitions'[k] = Definition(Here, at + 1) /\ Accepted(Here)
      BY <1>1, <2>2
    <3> DEFINE m == at + 1
    <3>2. m \in DOMAIN book.rows /\ Here = book.rows[m]
      BY <1>5 DEF Here
    <3>3. definitions'[k] = Definition(Here, m)
      BY <3>1
    <3> HIDE DEF m
    <3>4. definitions'[k] = Definition(book.rows[m], m) /\ Accepted(book.rows[m])
      BY <3>1, <3>2, <3>3
    <3> QED
      BY <3>2, <3>4
  <2> QED
    BY <1>1, <2>1, <2>2
<1> QED
  BY <1>1, <1>2, <1>4, <1>5, <1>6, <1>7, StillRuled DEF ReadInv

LEMMA DuplicateStep ==
  ASSUME ReadInv, pc = "rows", at < Len(book.rows), UNCHANGED <<program, book, pc>>, at' = at + 1,
         ~BlankRow(Here), UNCHANGED <<seen, definitions, problems, rules>>, program = "older",
         Here.id \in DOMAIN seen, duplicates' = duplicates \cup {at + 1}
  PROVE  ReadInv'
<1>1. /\ Shape /\ SeenInv /\ PlacedInv /\ FirstInv /\ DefinedInv /\ RuledInv
  BY Parts
<1>2. SeenInv'
  BY Registered
<1>3. Cardinality(duplicates') = Cardinality(duplicates) + 1
  <2>1. at + 1 \notin 1..at
    BY ListsOfRows
  <2> QED
    BY <2>1, ListsOfRows, FS_AddElement
<1>4. /\ Len(definitions) + Len(problems) + Cardinality(duplicates')
           = Len(definitions) + Len(problems) + Cardinality(duplicates) + 1
      /\ RowsOf(definitions) \cup RowsOf(problems) \cup duplicates'
           = RowsOf(definitions) \cup RowsOf(problems) \cup duplicates \cup {at + 1}
  BY <1>3, ListsOfRows
<1>5. PlacedInv'
  <2>1. /\ IsList(definitions') /\ IsList(problems') /\ program # "plan"
        /\ definitions' = definitions /\ problems' = problems
        /\ duplicates' \subseteq duplicates \cup {at + 1} /\ duplicates \subseteq duplicates'
        /\ at + 1 \in duplicates'
    BY ListsOfRows
  <2> QED
    BY <1>4, <2>1, Placed
<1>6. Shape' /\ 1..RowsRead \subseteq 1..RowsRead'
  BY NextRowKept
<1> QED
  BY <1>1, <1>2, <1>5, <1>6, StillDefined, StillRuled, StillFirst, ListsOfRows DEF ReadInv

LEMMA PlaceRowStep ==
  ASSUME ReadInv, program = "plan", pc = "rows", at < Len(book.rows), at' = at + 1,
         UNCHANGED <<program, book, pc, duplicates, rules>>, PlaceRow(Here, at + 1, DOMAIN seen)
  PROVE  ReadInv'
<1> DEFINE r == Here
           m == at + 1
<1>1. PlaceRow(r, m, DOMAIN seen)
  OBVIOUS
<1> HIDE DEF r, m
<1>2. CASE BlankRow(r)
  <2>1. UNCHANGED <<seen, definitions, problems>>
    BY <1>1, <1>2 DEF PlaceRow
  <2> QED
    BY <1>2, <2>1, BlankStep DEF r
<1>3. CASE ~BlankRow(r)
  <2>1. seen' = Register(r, m)
    BY <1>1, <1>3 DEF PlaceRow
  <2>2. SeenInv'
    BY <1>3, <2>1, Registered DEF Here, r, m
  <2>3. CASE Failed(r, DOMAIN seen) # {}
    <3>1. /\ problems' = Append(problems, [row |-> m, code |-> FirstCode(r, DOMAIN seen)])
          /\ UNCHANGED definitions
      BY <1>1, <1>3, <2>3 DEF PlaceRow
    <3> QED
      BY <1>3, <2>2, <3>1, ProblemStep DEF r, m
  <2>4. CASE Failed(r, DOMAIN seen) = {}
    <3>1. definitions' = Append(definitions, Definition(r, m)) /\ UNCHANGED problems
      BY <1>1, <1>3, <2>4 DEF PlaceRow
    <3>2. r.id \notin DOMAIN seen \cup {""} /\ Accepted(r)
      BY <2>4, PassedChecks DEF Accepted
    <3>3. Definition(r, m).row = m /\ Definition(r, m).id = r.id
      BY DEF Definition
    <3> QED
      BY <1>3, <2>2, <3>1, <3>2, <3>3, DefinitionStep DEF r, m
  <2> QED
    BY <2>3, <2>4
<1> QED
  BY <1>2, <1>3

LEMMA OlderReadRowStep ==
  ASSUME ReadInv, OlderReadRow
  PROVE  ReadInv'
<1>1. /\ program = "older" /\ pc = "rows" /\ at < Len(book.rows) /\ at' = at + 1
      /\ UNCHANGED <<program, book, pc, rules>>
  BY DEF OlderReadRow
<1>2. "" \notin DOMAIN seen
  BY <1>1, Parts DEF SeenInv
<1>3. CASE BlankRow(Here)
  <2>1. Here.id \notin DOMAIN seen
    BY <1>1, <1>2, <1>3, NextRow
  <2>2. UNCHANGED <<seen, definitions, problems, duplicates>>
    BY <1>3, <2>1 DEF OlderReadRow, Here
  <2> QED
    BY <1>1, <1>3, <2>2, BlankStep
<1>4. CASE ~BlankRow(Here) /\ Here.id = ""
  <2>1. /\ problems' = Append(problems, [row |-> at + 1, code |-> "INVALID"])
        /\ UNCHANGED <<seen, definitions, duplicates>>
    BY <1>2, <1>4 DEF OlderReadRow, Here
  <2>2. SeenInv'
    BY <1>1, <1>4, <2>1, Registered DEF Here
  <2> QED
    BY <1>1, <1>2, <1>4, <2>1, <2>2, ProblemStep
<1>5. CASE ~BlankRow(Here) /\ Here.id \in DOMAIN seen
  <2>1. duplicates' = duplicates \cup {at + 1} /\ UNCHANGED <<seen, definitions, problems>>
    BY <1>2, <1>5 DEF OlderReadRow, Here
  <2> QED
    BY <1>1, <1>5, <2>1, DuplicateStep
<1>6. CASE ~BlankRow(Here) /\ Here.id # "" /\ Here.id \notin DOMAIN seen
  <2>1. /\ seen' = Register(Here, at + 1) /\ UNCHANGED duplicates
        /\ IF OlderRefuses(Here)
           THEN /\ problems' = Append(problems, [row |-> at + 1, code |-> "INVALID"])
                /\ UNCHANGED definitions
           ELSE definitions' = Append(definitions, OlderCase(Here, at + 1)) /\ UNCHANGED problems
    BY <1>6 DEF OlderReadRow, Here
  <2>2. SeenInv'
    BY <1>1, <1>6, <2>1, Registered DEF Here
  <2>3. CASE OlderRefuses(Here)
    BY <1>1, <1>6, <2>1, <2>2, <2>3, ProblemStep
  <2>4. CASE ~OlderRefuses(Here)
    <3>1. OlderCase(Here, at + 1).row = at + 1 /\ OlderCase(Here, at + 1).id = Here.id
      <4> DEFINE r == Here
                 m == at + 1
      <4> HIDE DEF r, m
      <4>1. OlderCase(r, m).row = m /\ OlderCase(r, m).id = r.id
        BY DEF OlderCase
      <4> QED
        BY <4>1 DEF r, m
    <3> QED
      BY <1>1, <1>6, <2>1, <2>2, <2>4, <3>1, DefinitionStep
  <2> QED
    BY <2>3, <2>4
<1> QED
  BY <1>3, <1>4, <1>5, <1>6

-----------------------------------------------------------------------------
\* The steps between the rows.

LEMMA RowsStay ==
  ASSUME ReadInv, pc # "refused", UNCHANGED <<program, book, seen, definitions, problems, duplicates>>,
         RowsRead' = RowsRead, Shape', RuledInv',
         program = "older" /\ pc' = "done" => duplicates = {}
  PROVE  ReadInv'
<1>1. SeenInv /\ PlacedInv /\ FirstInv /\ DefinedInv /\ IsList(definitions)
  BY DEF ReadInv
<1>2. Filled' = Filled
  BY DEF Filled, BlankRow
<1>3. SeenInv'
  BY <1>1, <1>2 DEF SeenInv
<1>4. PlacedInv'
  <2>1. RowsOf(definitions') = RowsOf(definitions) /\ RowsOf(problems') = RowsOf(problems)
    BY DEF RowsOf
  <2> QED
    BY <1>1, <1>2, <2>1 DEF PlacedInv
<1>5. FirstInv'
  BY <1>1, StillFirst
<1> QED
  BY <1>1, <1>3, <1>4, <1>5, StillDefined DEF ReadInv

LEMMA RefusedStep ==
  ASSUME ReadInv, Refuse, UNCHANGED <<program, book>>
  PROVE  ReadInv'
<1>1. pc' = "refused" /\ UNCHANGED <<program, book, at, definitions, problems, rules>>
  BY DEF Refuse
<1>2. Shape'
  BY <1>1 DEF ReadInv, Shape
<1>3. DefinedInv' /\ IsList(definitions')
  <2>1. DefinedInv /\ IsList(definitions)
    BY DEF ReadInv
  <2> QED
    BY <1>1, <2>1, StillDefined
<1>4. RuledInv'
  BY <1>1 DEF ReadInv, RuledInv
<1> QED
  BY <1>1, <1>2, <1>3, <1>4 DEF ReadInv

LEMMA ReadRowStep ==
  ASSUME ReadInv, ReadRow
  PROVE  ReadInv'
<1>1. /\ program = "plan" /\ pc = "rows" /\ at < Len(book.rows)
      /\ UNCHANGED <<program, book, duplicates>>
  BY DEF ReadRow
<1>2. \/ Refuse
      \/ /\ PlaceRow(Here, at + 1, DOMAIN seen)
         /\ at' = at + 1 /\ UNCHANGED <<pc, rules>>
  BY DEF ReadRow, Here
<1>3. CASE Refuse
  BY <1>1, <1>3, RefusedStep
<1>4. CASE /\ PlaceRow(Here, at + 1, DOMAIN seen)
           /\ at' = at + 1 /\ UNCHANGED <<pc, rules>>
  BY <1>1, <1>4, PlaceRowStep
<1> QED
  BY <1>2, <1>3, <1>4

LEMMA RulesKept ==
  ASSUME ReadInv, UNCHANGED rules, program = "plan" => pc' # "done", UNCHANGED program
  PROVE  RuledInv'
  BY DEF ReadInv, RuledInv

LEMMA HeadStep ==
  ASSUME ReadInv, ReadControl \/ FindColumns
  PROVE  ReadInv'
<1>1. CASE Refuse
  BY <1>1, RefusedStep DEF ReadControl, FindColumns
<1>2. CASE ~Refuse
  <2>1. /\ pc \in {"control", "columns"} /\ pc' \in {"columns", "rows"}
        /\ UNCHANGED <<program, book, at, seen, definitions, problems, duplicates, rules>>
    BY <1>2 DEF ReadControl, FindColumns
  <2>2. at = 0 /\ Len(book.rows) \in Nat
    BY <2>1, BooksAreLists DEF ReadInv, Shape
  <2>3. Shape'
    BY <2>1, <2>2 DEF ReadInv, Shape
  <2>4. RowsRead' = RowsRead
    BY <2>1 DEF RowsRead
  <2> QED
    BY <2>1, <2>3, <2>4, RowsStay, RulesKept
<1> QED
  BY <1>1, <1>2

LEMMA EndRowsStep ==
  ASSUME ReadInv, EndRows \/ OlderEndRows
  PROVE  ReadInv'
<1>1. /\ pc = "rows" /\ at = Len(book.rows) /\ UNCHANGED <<program, book, seen, definitions, problems, duplicates, rules>>
      /\ \/ program = "plan" /\ pc' = "rules" /\ at' = 0
         \/ program = "older" /\ pc' = "done" /\ at' = at /\ duplicates = {}
         \/ program = "older" /\ pc' = "refused" /\ at' = at
  BY DEF EndRows, OlderEndRows
<1>2. Shape /\ Len(book.rows) \in Nat
  BY BooksAreLists DEF ReadInv
<1>3. Shape'
  BY <1>1, <1>2 DEF Shape
<1>4. RowsRead' = RowsRead
  BY <1>1 DEF RowsRead
<1>5. program = "plan" => pc' # "done"
  BY <1>1
<1> QED
  BY <1>1, <1>3, <1>4, <1>5, RowsStay, RulesKept

LEMMA RulesStep ==
  ASSUME ReadInv, ReadRule \/ EndRules
  PROVE  ReadInv'
<1>1. CASE Refuse
  BY <1>1, RefusedStep DEF ReadRule, EndRules
<1>2. CASE ReadRule /\ ~Refuse
  <2> DEFINE u == book.rules[at + 1]
  <2>1. /\ pc = "rules" /\ at < Len(book.rules) /\ at' = at + 1
        /\ UNCHANGED <<program, book, pc, seen, definitions, problems, duplicates>>
        /\ rules' = rules \/ rules' = Append(rules, u)
    BY <1>2 DEF ReadRule
  <2>2. Shape /\ Len(book.rules) \in Nat /\ DOMAIN book.rules = 1..Len(book.rules) /\ book.rules \in Seq(RuleType)
    BY BooksAreLists, BooksAreTyped DEF ReadInv
  <2>3. at + 1 \in 1..Len(book.rules) /\ at + 1 \in Nat
    <3> HIDE DEF u
    <3>1. at \in Nat
      BY <2>2 DEF Shape
    <3> QED
      BY <2>1, <2>2, <3>1
  <2>4. u \in RuleType
    <3> HIDE DEF RuleType
    <3> QED
      BY <2>2, <2>3, ElementOfSeq
  <2> HIDE DEF u
  <2>5. rules' \in Seq(RuleType)
    <3>1. rules \in Seq(RuleType)
      BY DEF ReadInv, RuledInv
    <3> HIDE DEF RuleType
    <3> QED
      BY <2>1, <2>4, <3>1, AppendProperties
  <2>6. RuledInv'
    BY <2>1, <2>5 DEF RuledInv
  <2>7. Shape' /\ RowsRead' = RowsRead
    BY <2>1, <2>2, <2>3 DEF Shape, RowsRead
  <2> QED
    BY <2>1, <2>6, <2>7, RowsStay
<1>3. CASE EndRules /\ ~Refuse
  <2>1. /\ pc = "rules" /\ pc' = "done" /\ ~Contradicting /\ program = "plan"
        /\ UNCHANGED <<program, book, at, seen, definitions, problems, duplicates, rules>>
    BY <1>3 DEF EndRules, ReadInv, Shape
  <2>2. RuledInv'
    <3>1. ~Contradicting' /\ rules \in Seq(RuleType)
      BY <2>1 DEF ReadInv, RuledInv, Contradicting
    <3> QED
      BY <2>1, <3>1 DEF RuledInv
  <2>3. Shape' /\ RowsRead' = RowsRead
    BY <2>1 DEF ReadInv, Shape, RowsRead
  <2> QED
    BY <2>1, <2>2, <2>3, RowsStay
<1> QED
  BY <1>1, <1>2, <1>3

LEMMA ReadInvInit == Init => ReadInv
<1> SUFFICES ASSUME Init PROVE ReadInv
  OBVIOUS
<1>1. /\ program \in {"plan", "older"} /\ book \in Books
      /\ pc \in {"control", "columns"} /\ (pc = "control" => program = "plan") /\ at = 0 /\ seen = << >>
      /\ definitions = << >> /\ problems = << >> /\ duplicates = {} /\ rules = << >>
  BY DEF Init
<1>2. Shape
  BY <1>1 DEF Shape
<1>3. RowsRead = 0 /\ Filled = {} /\ Cardinality(Filled) = 0
  <2>1. RowsRead = 0
    BY <1>1 DEF RowsRead
  <2>2. Filled = {}
    BY <2>1 DEF Filled
  <2> QED
    BY <2>1, <2>2, FS_EmptySet
<1>4. /\ DOMAIN seen = {} /\ DOMAIN definitions = {} /\ RowsOf(definitions) = {} /\ RowsOf(problems) = {}
      /\ Len(definitions) = 0 /\ Len(problems) = 0 /\ Cardinality(duplicates) = 0
      /\ IsList(definitions) /\ IsList(problems)
  BY <1>1, ShortLists, FS_EmptySet DEF RowsOf
<1>5. SeenInv
  BY <1>3, <1>4 DEF SeenInv
<1>6. PlacedInv
  BY <1>1, <1>3, <1>4 DEF PlacedInv
<1>7. FirstInv /\ DefinedInv
  BY <1>4 DEF FirstInv, DefinedInv
<1>8. RuledInv
  <2>1. rules \in Seq(RuleType)
    BY <1>1, EmptySeq
  <2> QED
    BY <1>1, <2>1 DEF RuledInv
<1> QED
  BY <1>2, <1>4, <1>5, <1>6, <1>7, <1>8 DEF ReadInv

LEMMA ReadInvStep == ReadInv /\ [Next]_vars => ReadInv'
<1> SUFFICES ASSUME ReadInv, [Next]_vars PROVE ReadInv'
  OBVIOUS
<1>1. CASE UNCHANGED vars
  <2>1. UNCHANGED <<program, book, pc, at, seen, definitions, problems, duplicates, rules>>
    BY <1>1 DEF vars
  <2>2. Shape' /\ RowsRead' = RowsRead
    BY <2>1 DEF ReadInv, Shape, RowsRead
  <2>3. RuledInv' /\ DefinedInv' /\ IsList(definitions')
    BY <2>1, StillRuled, StillDefined DEF ReadInv
  <2>4. CASE pc = "refused"
    BY <2>1, <2>2, <2>3, <2>4 DEF ReadInv
  <2>5. CASE pc # "refused"
    <3>1. program = "older" /\ pc' = "done" => duplicates = {}
      BY <2>1, <2>5 DEF ReadInv, PlacedInv
    <3> QED
      BY <2>1, <2>2, <2>3, <2>5, <3>1, RowsStay
  <2> QED
    BY <2>4, <2>5
<1>2. CASE Next
  BY <1>2, HeadStep, EndRowsStep, RulesStep, ReadRowStep, OlderReadRowStep DEF Next
<1> QED
  BY <1>1, <1>2

LEMMA ReadInvAlways == StartupSpec => []ReadInv
<1>1. Spec => []ReadInv
  BY ReadInvInit, ReadInvStep, PTL DEF Spec
<1> QED
  BY <1>1, StartupReads, PTL

LEMMA FilledInOrder ==
  ASSUME ReadInv, NEW j \in Filled, NEW k \in Filled, j # k
  PROVE  j < k \/ k < j
<1>1. RowsRead \in Nat
  BY BooksAreLists DEF ReadInv, Shape, RowsRead
<1>2. j \in 1..RowsRead /\ k \in 1..RowsRead
  BY DEF Filled
<1> QED
  BY <1>1, <1>2

\* Every row that is not blank becomes one test or one problem, and an id names the
\* first row to use it (testcases.py:265-276, reader.py:168-188).
THEOREM StartupEveryRowHasOnePlace == StartupSpec => []EveryRowHasOnePlace
<1>1. ReadInv => EveryRowHasOnePlace
  <2> SUFFICES ASSUME ReadInv, pc \in {"rows", "rules", "done"} PROVE EveryRowHasOnePlace
    BY DEF EveryRowHasOnePlace
  <2> DEFINE read == IF pc = "rows" THEN 1..at ELSE 1..Len(book.rows)
             filled == {k \in read : ~BlankRow(book.rows[k])}
  <2>1. SeenInv /\ PlacedInv /\ FirstInv
    BY DEF ReadInv
  <2>2. filled = Filled
    BY DEF Filled, RowsRead
  <2>3. program = "older" /\ pc = "done" =>
          \A j, k \in filled : j # k /\ book.rows[j].id = book.rows[k].id => book.rows[j].id = ""
    <3> SUFFICES ASSUME program = "older", pc = "done", NEW j \in Filled, NEW k \in Filled, j # k,
                        book.rows[j].id = book.rows[k].id, book.rows[j].id # ""
                 PROVE  FALSE
      BY <2>2
    <3>1. duplicates = {}
      BY <2>1 DEF PlacedInv
    <3>2. j < k \/ k < j
      BY FilledInOrder
    <3> QED
      BY <2>1, <3>1, <3>2 DEF PlacedInv
  <2>4. \A k \in DOMAIN definitions : \A j \in 1..(definitions[k].row - 1) :
            book.rows[j].id # definitions[k].id
    BY <2>1 DEF FirstInv
  <2>5. /\ RowsOf(definitions) \cup RowsOf(problems) \cup duplicates = filled
        /\ Cardinality(filled) = Len(definitions) + Len(problems) + Cardinality(duplicates)
    BY <2>1, <2>2 DEF PlacedInv
  <2> HIDE DEF filled
  <2>6. EveryRowHasOnePlace <=>
          (pc \in {"rows", "rules", "done"} =>
             /\ RowsOf(definitions) \cup RowsOf(problems) \cup duplicates = filled
             /\ Cardinality(filled) = Len(definitions) + Len(problems) + Cardinality(duplicates)
             /\ \A k \in DOMAIN definitions : \A j \in 1..(definitions[k].row - 1) :
                  book.rows[j].id # definitions[k].id
             /\ program = "older" /\ pc = "done" =>
                  \A j, k \in filled : j # k /\ book.rows[j].id = book.rows[k].id
                                        => book.rows[j].id = "")
    BY DEF EveryRowHasOnePlace, filled
  <2> QED
    BY <2>3, <2>4, <2>5, <2>6
<1> QED
  BY <1>1, ReadInvAlways, PTL

-----------------------------------------------------------------------------
\* A test that passed its checks can be compared, whatever its queries return.

LEMMA KindsOfValues ==
  /\ \A kind, n, text, folded : Normal(kind, n, text, folded).kind = kind
  /\ \A b : Truth(b).kind = "bool"
  /\ Absent.kind = "absent" /\ Refused.kind = "refused" /\ Raised.kind = "raised"
<1>1. \A kind, n, text, folded : Normal(kind, n, text, folded).kind = kind
  BY DEF Normal
<1>2. \A b : Truth(b).kind = "bool"
  <2> SUFFICES ASSUME NEW b PROVE Truth(b).kind = "bool"
    OBVIOUS
  <2> DEFINE n == IF b THEN 10 ELSE 0
             none == ""
  <2>1. Truth(b) = Normal("bool", n, none, none)
    BY DEF Truth
  <2> HIDE DEF n, none
  <2> QED
    BY <1>1, <2>1
<1>3. Absent.kind = "absent" /\ Refused.kind = "refused" /\ Raised.kind = "raised"
  BY <1>1, Zenon DEF Absent, Refused, Raised
<1> QED
  BY <1>1, <1>2, <1>3

LEMMA BooleanKinds == \A v : AsBoolean(v).kind \in {"bool", "refused", "raised"}
<1> SUFFICES ASSUME NEW v PROVE AsBoolean(v).kind \in {"bool", "refused", "raised"}
  OBVIOUS
<1> DEFINE odd == v.form = "decimal" /\ v.reads # "number"
           number == v.reads = "number" /\ (v.form \in {"int", "decimal"} \/ (v.form = "float" /\ Whole(v.n)))
<1>1. CASE v.form = "bool"
  <2>1. AsBoolean(v) = Truth(v.n # 0)
    BY <1>1 DEF AsBoolean
  <2> QED
    BY <2>1, KindsOfValues
<1>6. CASE odd
  <2>1. AsBoolean(v) = Raised
    BY <1>6 DEF AsBoolean
  <2> QED
    BY <2>1, KindsOfValues
<1>2. CASE number
  <2>1. \/ AsBoolean(v) = Truth(Truncated(v.n) = 1)
        \/ AsBoolean(v) = Refused
    BY <1>2 DEF AsBoolean
  <2> QED
    BY <2>1, KindsOfValues
<1>3. CASE v.form = "str" /\ v.folded \in TrueWords
  <2>1. v.folded \notin FalseWords
    BY <1>3 DEF TrueWords, FalseWords
  <2>2. AsBoolean(v) = Truth(TRUE)
    BY <1>3, <2>1 DEF AsBoolean
  <2> QED
    BY <2>2, KindsOfValues
<1>4. CASE v.form = "str" /\ v.folded \notin TrueWords /\ v.folded \in FalseWords
  <2>1. AsBoolean(v) = Truth(FALSE)
    BY <1>4 DEF AsBoolean
  <2> QED
    BY <2>1, KindsOfValues
<1>5. CASE /\ v.form # "bool" /\ ~odd /\ ~number
           /\ ~(v.form = "str" /\ v.folded \in TrueWords) /\ ~(v.form = "str" /\ v.folded \in FalseWords)
  <2>1. AsBoolean(v) = Refused
    BY <1>5 DEF AsBoolean
  <2> QED
    BY <2>1, KindsOfValues
<1> QED
  BY <1>1, <1>2, <1>3, <1>4, <1>5, <1>6

LEMMA NormalizedKinds ==
  ASSUME NEW v, NEW type, Normalize(v, type) # Refused
  PROVE  /\ Normalize(v, type) # Absent
         /\ type \in NumericTypes => Numeric(Normalize(v, type))
<1>1. ~Blank(v)
  BY DEF Normalize
<1> DEFINE value == Normalize(v, type)
<1>2. CASE type = "TEXT"
  <2>1. value = Normal("text", 0, v.text, v.folded)
    BY <1>1, <1>2 DEF Normalize
  <2>2. value.kind = "text" /\ type \notin NumericTypes
    BY <1>2, <2>1, KindsOfValues DEF NumericTypes
  <2> QED
    BY <2>2, KindsOfValues
<1>3. CASE type = "BOOLEAN"
  <2>1. value = AsBoolean(v) /\ type \notin NumericTypes
    BY <1>1, <1>3 DEF Normalize, NumericTypes
  <2>2. value.kind \in {"bool", "refused", "raised"}
    BY <2>1, BooleanKinds
  <2> QED
    BY <2>1, <2>2, KindsOfValues
<1>4. CASE type = "DATETIME"
  <2>1. value = AsMoment(v) /\ type \notin NumericTypes
    BY <1>1, <1>4 DEF Normalize, NumericTypes
  <2> DEFINE none == ""
  <2>2. AsMoment(v) \in {Refused, Raised, Normal("moment", Instant(v), none, none)}
    <3> DEFINE hour == Instant(v)
    <3>1. AsMoment(v) = IF v.reads # "moment" THEN Refused
                        ELSE IF hour \notin Calendar THEN Raised
                        ELSE Normal("moment", hour, none, none)
      BY DEF AsMoment
    <3> HIDE DEF hour, none
    <3>2. AsMoment(v) \in {Refused, Raised, Normal("moment", hour, none, none)}
      BY <3>1
    <3> QED
      BY <3>2 DEF hour
  <2> HIDE DEF none
  <2>3. value.kind \in {"moment", "raised"} \/ value = Refused
    BY <2>1, <2>2, KindsOfValues
  <2> QED
    BY <2>1, <2>3, KindsOfValues
<1>5. CASE type = "INTEGER"
  <2> DEFINE n == v.n
             none == ""
  <2>1. value = Normal("int", n, none, none)
    BY <1>1, <1>5 DEF Normalize
  <2> HIDE DEF n, none
  <2>2. value.kind = "int"
    BY <2>1, KindsOfValues
  <2> QED
    BY <2>2, KindsOfValues DEF Numeric
<1>6. CASE type = "NUMBER"
  <2> DEFINE n == v.n
             none == ""
  <2>1. value = Normal("decimal", n, none, none)
    BY <1>1, <1>6 DEF Normalize
  <2> HIDE DEF n, none
  <2>2. value.kind = "decimal"
    BY <2>1, KindsOfValues
  <2> QED
    BY <2>2, KindsOfValues DEF Numeric
<1>7. CASE type \notin {"TEXT", "BOOLEAN", "DATETIME", "INTEGER", "NUMBER"}
  <2>1. value = Refused
    BY <1>1, <1>7 DEF Normalize
  <2> QED
    BY <2>1
<1> QED
  BY <1>2, <1>3, <1>4, <1>5, <1>6, <1>7

LEMMA AcceptedIsWellFormed ==
  ASSUME NEW r, NEW n, Accepted(r), Definition(r, n).enabled
  PROVE  /\ WellFormed(Definition(r, n))
         /\ Definition(r, n).expected = Absent \/
              (Definition(r, n).type \in NumericTypes => Numeric(Definition(r, n).expected))
<1> DEFINE d == Definition(r, n)
<1>1. r.enabled # "no"
  BY DEF Definition
<1>2. /\ d.scope = r.scope /\ d.comparison = r.comparison /\ d.type = r.type
      /\ d.expected = IF Blank(r.expected) THEN Absent ELSE Normalize(r.expected, r.type)
      /\ d.absTol = Tolerance(r.absTol) /\ d.pctTol = Tolerance(r.pctTol)
  BY <1>1 DEF Definition
<1>3. PICK taken : Failed(r, taken) = {}
  BY DEF Accepted
<1>4. /\ r.scope \in Scopes /\ r.comparison \in ComparisonTypes
      /\ r.type \in SupportedTypes(r.comparison)
      /\ r.comparison \in TwoSided => r.scope = "SOURCE_TARGET"
      /\ ToleranceValid(r.absTol) /\ ToleranceValid(r.pctTol)
      /\ ~(RequiresExpected(r.comparison, r.scope) /\ Blank(r.expected))
      /\ ~Blank(r.expected) => Normalize(r.expected, r.type) # Refused
  BY <1>1, <1>3, PassedChecks
<1> HIDE DEF d
<1>5. \A v : ToleranceValid(v) => Tolerance(v) >= 0
  BY DEF ToleranceValid, Tolerance
<1>6. ~Blank(r.expected) =>
        /\ d.expected # Absent
        /\ r.type \in NumericTypes => Numeric(d.expected)
  BY <1>2, <1>4, NormalizedKinds
<1>7. Blank(r.expected) => d.expected = Absent
  BY <1>2
<1>8. WellFormed(d)
  <2>1. RequiresExpected(d.comparison, d.scope) => d.expected # Absent
    BY <1>2, <1>4, <1>6
  <2>2. d.absTol >= 0 /\ d.pctTol >= 0
    BY <1>2, <1>4, <1>5
  <2> QED
    BY <1>2, <1>4, <2>1, <2>2 DEF WellFormed
<1> QED
  BY <1>2, <1>6, <1>7, <1>8 DEF d

LEMMA VerdictReached ==
  ASSUME NEW d, NEW raw, WellFormed(d),
         d.expected = Absent \/ (d.type \in NumericTypes => Numeric(d.expected)),
         {Refused, Raised} \cap {RequestOf(d, raw).source, RequestOf(d, raw).target} = {}
  PROVE  Compare(RequestOf(d, raw)).status # "ERROR"
<1> DEFINE r == RequestOf(d, raw)
<1>1. /\ r.comparison = d.comparison /\ r.scope = d.scope /\ r.expected = d.expected
      /\ r.source = Answered(d, raw, "source") /\ r.target = Answered(d, raw, "target")
      /\ r["source"] = r.source /\ r["target"] = r.target
      /\ Refused \notin {r.source, r.target}
  BY DEF RequestOf
<1> HIDE DEF r
<1>2. Uses(d.scope) \subseteq {"source", "target"}
  BY DEF Uses
<1>3. ASSUME NEW s \in {"source", "target"}, d.type \in NumericTypes
      PROVE  s \in Uses(d.scope) => Numeric(r[s])
  <2> SUFFICES ASSUME s \in Uses(d.scope) PROVE Numeric(r[s])
    OBVIOUS
  <2>1. r[s] = Normalize(raw[s], d.type) /\ r[s] # Refused
    BY <1>1 DEF Answered
  <2> QED
    BY <1>3, <2>1, NormalizedKinds
<1>4. \A v \in MustBeNumeric(r) : Numeric(v)
  <2>1. CASE r.comparison \in {"EQUAL_ABS_TOLERANCE", "EQUAL_PCT_TOLERANCE"}
    <3>1. d.scope = "SOURCE_TARGET" /\ d.type \in NumericTypes
      BY <1>1, <2>1 DEF WellFormed, TwoSided, SupportedTypes, NumericOnly
    <3>2. "source" \in Uses(d.scope) /\ "target" \in Uses(d.scope)
      BY <3>1 DEF Uses
    <3>3. MustBeNumeric(r) = {r.source, r.target}
      BY <2>1 DEF MustBeNumeric
    <3> QED
      BY <1>1, <1>3, <3>1, <3>2, <3>3
  <2>2. CASE r.comparison \in {"LESS_THAN_OR_EQUAL", "GREATER_THAN_OR_EQUAL"}
    <3>1. d.type \in NumericTypes /\ d.expected # Absent
      BY <1>1, <2>2 DEF WellFormed, SupportedTypes, NumericOnly, RequiresExpected
    <3>2. Numeric(r.expected)
      BY <1>1, <3>1
    <3>3. \A v \in Executed(r) : Numeric(v)
      <4> SUFFICES ASSUME NEW s \in Uses(r.scope) PROVE Numeric(r[s])
        BY DEF Executed
      <4> QED
        BY <1>1, <1>2, <1>3, <3>1
    <3>4. MustBeNumeric(r) = {r.expected} \cup Executed(r)
      BY <2>2 DEF MustBeNumeric
    <3> QED
      BY <3>2, <3>3, <3>4
  <2>3. CASE r.comparison \notin {"EQUAL_ABS_TOLERANCE", "EQUAL_PCT_TOLERANCE",
                                  "LESS_THAN_OR_EQUAL", "GREATER_THAN_OR_EQUAL"}
    <3>1. MustBeNumeric(r) = {}
      BY <2>3 DEF MustBeNumeric
    <3> QED
      BY <3>1
  <2> QED
    BY <2>1, <2>2, <2>3
<1>5. Compare(r) \in {Verdict("PROFILED", "", Variance(r)), Verdict("PASS", "", Variance(r)),
                      Verdict("FAIL", FailCode(r), Variance(r))}
  <2>1. ~\E v \in MustBeNumeric(r) : ~Numeric(v)
    BY <1>4
  <2>2. CASE r.comparison = "NO_COMPARISON"
    BY <2>1, <2>2 DEF Compare
  <2>3. CASE r.comparison # "NO_COMPARISON"
    BY <2>1, <2>3 DEF Compare
  <2> QED
    BY <2>2, <2>3
<1>6. Compare(r).status # "ERROR"
  <2>1. \A status, code, variance : Verdict(status, code, variance).status = status
    BY DEF Verdict
  <2> DEFINE variance == Variance(r)
             code == FailCode(r)
             none == ""
  <2>2. \/ Compare(r) = Verdict("PROFILED", none, variance)
        \/ Compare(r) = Verdict("PASS", none, variance)
        \/ Compare(r) = Verdict("FAIL", code, variance)
    BY <1>5, Zenon
  <2> HIDE DEF variance, code, none
  <2>3. Compare(r).status = "PROFILED" \/ Compare(r).status = "PASS" \/ Compare(r).status = "FAIL"
    BY <2>1, <2>2
  <2> QED
    BY <2>3
<1> QED
  BY <1>6 DEF r

\* A test that was let through always comes to a verdict once its values are of the
\* declared type (comparisons.py:198-202, testcases.py:319-390).
THEOREM StartupExecutableIsComparable == StartupSpec => []ExecutableIsComparable
<1>1. ReadInv => ExecutableIsComparable
  <2> SUFFICES ASSUME ReadInv, program = "plan", NEW k \in DOMAIN definitions, definitions[k].enabled
               PROVE  /\ WellFormed(definitions[k])
                      /\ \A raw \in [Uses(definitions[k].scope) -> Samples] :
                           {Refused, Raised} \cap {RequestOf(definitions[k], raw).source,
                                                   RequestOf(definitions[k], raw).target} = {} =>
                             Compare(RequestOf(definitions[k], raw)).status # "ERROR"
    BY DEF ExecutableIsComparable
  <2>1. PICK j \in DOMAIN book.rows :
          definitions[k] = Definition(book.rows[j], j) /\ Accepted(book.rows[j])
    BY DEF ReadInv, DefinedInv
  <2> DEFINE d == definitions[k]
  <2>2. /\ WellFormed(d)
        /\ d.expected = Absent \/ (d.type \in NumericTypes => Numeric(d.expected))
    BY <2>1, AcceptedIsWellFormed
  <2> HIDE DEF d
  <2>3. \A raw : {Refused, Raised} \cap {RequestOf(d, raw).source, RequestOf(d, raw).target} = {} =>
                   Compare(RequestOf(d, raw)).status # "ERROR"
    BY <2>2, VerdictReached
  <2> QED
    BY <2>2, <2>3 DEF d
<1> QED
  BY <1>1, ReadInvAlways, PTL

-----------------------------------------------------------------------------
\* The rules of an accepted plan word an outcome the same in whatever order they are
\* listed.

\* No two enabled rules of the list have one key.
Distinct(listed) ==
  \A j, k \in DOMAIN listed :
    j # k /\ listed[j].enabled /\ listed[k].enabled => Key(listed[j]) # Key(listed[k])

\* What the four candidate keys ask of a rule; any stands for the blank cell.
Asks(o, any, c, u) ==
  /\ u.enabled /\ u.status = o.status
  /\ u.platform = IF c \in {1, 2} THEN o.platform ELSE any
  /\ u.code = IF c \in {1, 3} THEN o.code ELSE any

\* How specific a rule is.
Reach(any, u) == (IF u.platform = any THEN 0 ELSE 2) + (IF u.code = any THEN 0 ELSE 1)

\* Whether a rule is for an outcome.
Suits(any, o, u) == /\ u.enabled /\ u.status = o.status
                    /\ u.platform \in {any, o.platform} /\ u.code \in {any, o.code}

LEMMA CandidateKeys ==
  \E any : /\ \A o, listed : \A c \in 1..4 : \A k :
                k \in Indexed(listed, Candidates(o)[c]) <=>
                  k \in DOMAIN listed /\ Asks(o, any, c, listed[k])
           /\ \A u, o : Matches(u, o) <=> Suits(any, o, u)
           /\ \A u : Weight(u) = Reach(any, u)
<1> DEFINE any == ""
<1>1. \A o : Candidates(o) = << <<o.status, o.platform, o.code>>, <<o.status, o.platform, any>>,
                         <<o.status, any, o.code>>, <<o.status, any, any>> >>
  BY DEF Candidates
<1>2. \A u, o : Matches(u, o) <=> Suits(any, o, u)
  BY DEF Matches, Suits
<1>3. \A u : Weight(u) = Reach(any, u)
  BY DEF Weight, Reach
<1> HIDE DEF any
<1>4. ASSUME NEW o, NEW listed, NEW c \in 1..4, NEW k
      PROVE  k \in Indexed(listed, Candidates(o)[c]) <=>
               k \in DOMAIN listed /\ Asks(o, any, c, listed[k])
  <2> DEFINE platform == IF c \in {1, 2} THEN o.platform ELSE any
             code == IF c \in {1, 3} THEN o.code ELSE any
             key == <<o.status, platform, code>>
  <2>1. Candidates(o)[c] = key
    <3> DEFINE a == <<o.status, o.platform, o.code>>
               b == <<o.status, o.platform, any>>
               d == <<o.status, any, o.code>>
               e == <<o.status, any, any>>
    <3>1. Candidates(o) = <<a, b, d, e>>
      BY <1>1
    <3>2. c = 1 \/ c = 2 \/ c = 3 \/ c = 4
      OBVIOUS
    <3>3. (c = 1 => key = a) /\ (c = 2 => key = b) /\ (c = 3 => key = d) /\ (c = 4 => key = e)
      OBVIOUS
    <3> HIDE DEF a, b, d, e, key
    <3> QED
      BY <3>1, <3>2, <3>3
  <2>2. k \in Indexed(listed, key) <=>
          k \in DOMAIN listed /\ listed[k].enabled /\ Key(listed[k]) = key
    BY DEF Indexed
  <2>3. \A u : Key(u) = key <=> u.status = o.status /\ u.platform = platform /\ u.code = code
    BY DEF Key
  <2> HIDE DEF key
  <2> QED
    BY <2>1, <2>2, <2>3 DEF Asks
<1> QED
  BY <1>2, <1>3, <1>4

\* The rules of a list, whatever their order.
RowsIn(listed) == {listed[k] : k \in DOMAIN listed}

\* Those that match an outcome most specifically.
Strongest(listed, o) ==
  {u \in RowsIn(listed) :
     Matches(u, o) /\ \A w \in RowsIn(listed) : Matches(w, o) => Weight(w) <= Weight(u)}

\* Two rules that match one outcome equally specifically have one key.
LEMMA EquallySpecific ==
  ASSUME NEW o, NEW any, NEW u, NEW w, Suits(any, o, u), Suits(any, o, w),
         Reach(any, u) = Reach(any, w)
  PROVE  Key(u) = Key(w)
<1>1. u.platform = w.platform /\ u.code = w.code /\ u.status = w.status
  BY DEF Suits, Reach
<1> QED
  BY <1>1 DEF Key

LEMMA FirstOfFour ==
  ASSUME NEW S, S \subseteq 1..4, S # {}
  PROVE  \E c \in S : \A d \in S : c <= d
<1>1. S \subseteq {1, 2, 3, 4}
  OBVIOUS
<1>2. CASE 1 \in S
  BY <1>1, <1>2
<1>3. CASE 1 \notin S /\ 2 \in S
  BY <1>1, <1>3
<1>4. CASE 1 \notin S /\ 2 \notin S /\ 3 \in S
  BY <1>1, <1>4
<1>5. CASE S = {4}
  BY <1>5
<1> QED
  BY <1>1, <1>2, <1>3, <1>4, <1>5

LEMMA SelectsTheStrongest ==
  ASSUME NEW o, NEW listed, DOMAIN listed \subseteq Int, Distinct(listed)
  PROVE  Select(listed, o) = Strongest(listed, o)
<1>1. PICK any :
        /\ \A c \in 1..4 : \A k : k \in Indexed(listed, Candidates(o)[c]) <=>
                                   k \in DOMAIN listed /\ Asks(o, any, c, listed[k])
        /\ \A u : Matches(u, o) <=> Suits(any, o, u)
        /\ \A u : Weight(u) = Reach(any, u)
  BY CandidateKeys
<1> DEFINE hits == {c \in 1..4 : Indexed(listed, Candidates(o)[c]) # {}}
           first == CHOOSE c \in hits : \A d \in hits : c <= d
           key == Candidates(o)[first]
           last == CHOOSE k \in Indexed(listed, key) : \A j \in Indexed(listed, key) : j <= k
<1>2. Select(listed, o) = IF hits = {} THEN {} ELSE {listed[last]}
  BY DEF Select
<1>3. \A u : Suits(any, o, u) => \E c \in 1..4 : Asks(o, any, c, u)
  <2> SUFFICES ASSUME NEW u, Suits(any, o, u) PROVE \E c \in 1..4 : Asks(o, any, c, u)
    OBVIOUS
  <2>1. CASE u.platform = o.platform /\ u.code = o.code
    BY <2>1 DEF Suits, Asks
  <2>2. CASE u.platform = o.platform /\ u.code = any
    BY <2>2 DEF Suits, Asks
  <2>3. CASE u.platform = any /\ u.code = o.code
    BY <2>3 DEF Suits, Asks
  <2>4. CASE u.platform = any /\ u.code = any
    BY <2>4 DEF Suits, Asks
  <2> QED
    BY <2>1, <2>2, <2>3, <2>4 DEF Suits
<1>4. \A u, c : Asks(o, any, c, u) => Suits(any, o, u)
  BY DEF Asks, Suits
<1>5. CASE hits = {}
  <2>1. ASSUME NEW k \in DOMAIN listed PROVE ~Suits(any, o, listed[k])
    BY <1>1, <1>3, <1>5
  <2>2. Strongest(listed, o) = {}
    BY <1>1, <2>1 DEF Strongest, RowsIn
  <2> QED
    BY <1>2, <1>5, <2>2
<1>6. CASE hits # {}
  <2>1. first \in hits /\ \A d \in hits : first <= d
    <3>1. \E c \in hits : \A d \in hits : c <= d
      <4>1. hits \subseteq 1..4
        OBVIOUS
      <4> HIDE DEF hits
      <4> QED
        BY <1>6, <4>1, FirstOfFour
    <3> HIDE DEF hits
    <3> QED
      BY <3>1
  <2> HIDE DEF first
  <2>2. PICK k \in Indexed(listed, key) : TRUE
    BY <2>1
  <2>3. k \in DOMAIN listed /\ Asks(o, any, first, listed[k]) /\ first \in 1..4
    BY <1>1, <2>1, <2>2
  <2>4. Suits(any, o, listed[k])
    BY <1>4, <2>3
  <2>5. Indexed(listed, key) = {k}
    <3>1. ASSUME NEW j \in Indexed(listed, key) PROVE j = k
      BY <2>2, <3>1 DEF Indexed, Distinct
    <3> QED
      BY <2>2, <3>1
  <2>6. last = k
    <3>1. k <= k
      BY <2>3
    <3> HIDE DEF key
    <3> QED
      BY <2>5, <3>1
  <2>7. ASSUME NEW j \in DOMAIN listed, Suits(any, o, listed[j])
        PROVE  Reach(any, listed[j]) <= Reach(any, listed[k])
    <3>1. PICK c \in 1..4 : Asks(o, any, c, listed[j])
      BY <1>3, <2>7
    <3>2. \A d \in 1..4 : Asks(o, any, d, listed[j]) => first <= d
      BY <1>1, <2>1, <2>7
    <3> HIDE DEF hits, key
    <3> QED
      BY <2>3, <3>1, <3>2 DEF Asks, Reach
  <2>8. ASSUME NEW j \in DOMAIN listed, Suits(any, o, listed[j]),
               Reach(any, listed[j]) = Reach(any, listed[k])
        PROVE  j = k
    <3>1. Key(listed[j]) = Key(listed[k])
      BY <2>4, <2>8, EquallySpecific
    <3>2. listed[j].enabled /\ listed[k].enabled
      BY <2>4, <2>8 DEF Suits
    <3> QED
      BY <2>3, <3>1, <3>2 DEF Distinct
  <2> HIDE DEF hits, key, last
  <2>9. \A u : Reach(any, u) \in Int
    BY DEF Reach
  <2>10. Strongest(listed, o) = {listed[k]}
    <3>1. listed[k] \in Strongest(listed, o)
      BY <1>1, <2>3, <2>4, <2>7 DEF Strongest, RowsIn
    <3>2. ASSUME NEW u \in Strongest(listed, o) PROVE u = listed[k]
      <4>1. PICK j \in DOMAIN listed : u = listed[j]
        BY <3>2 DEF Strongest, RowsIn
      <4>2. /\ Suits(any, o, listed[j])
            /\ Reach(any, listed[k]) <= Reach(any, listed[j])
        BY <1>1, <2>3, <2>4, <3>2, <4>1 DEF Strongest, RowsIn
      <4>3. Reach(any, listed[j]) = Reach(any, listed[k])
        BY <2>7, <2>9, <4>2
      <4> QED
        BY <2>8, <4>1, <4>2, <4>3
    <3> QED
      BY <3>1, <3>2
  <2> QED
    BY <1>2, <1>6, <2>6, <2>10
<1> QED
  BY <1>5, <1>6

LEMMA TurningOver ==
  ASSUME NEW listed, listed \in Seq(RuleType), Distinct(listed)
  PROVE  /\ DOMAIN Upwards(listed) \subseteq Int
         /\ Distinct(Upwards(listed))
         /\ RowsIn(Upwards(listed)) = RowsIn(listed)
<1> DEFINE n == Len(listed)
<1>1. n \in Nat /\ DOMAIN listed = 1..n
  OBVIOUS
<1>2. DOMAIN Upwards(listed) = 1..n /\ \A k \in 1..n : Upwards(listed)[k] = listed[n + 1 - k]
  BY <1>1 DEF Upwards
<1> HIDE DEF n
<1>3. \A k \in 1..n : n + 1 - k \in 1..n /\ n + 1 - (n + 1 - k) = k
  BY <1>1
<1>4. Distinct(Upwards(listed))
  <2> SUFFICES ASSUME NEW j \in 1..n, NEW k \in 1..n, j # k,
                      Upwards(listed)[j].enabled, Upwards(listed)[k].enabled
               PROVE  Key(Upwards(listed)[j]) # Key(Upwards(listed)[k])
    BY <1>2 DEF Distinct
  <2>1. n + 1 - j # n + 1 - k
    BY <1>1
  <2>2. /\ Upwards(listed)[j] = listed[n + 1 - j] /\ n + 1 - j \in DOMAIN listed
        /\ Upwards(listed)[k] = listed[n + 1 - k] /\ n + 1 - k \in DOMAIN listed
    BY <1>1, <1>2, <1>3
  <2> QED
    BY <2>1, <2>2 DEF Distinct
<1>5. RowsIn(Upwards(listed)) \subseteq RowsIn(listed)
  BY <1>1, <1>2, <1>3 DEF RowsIn
<1>6. RowsIn(listed) \subseteq RowsIn(Upwards(listed))
  <2> SUFFICES ASSUME NEW k \in 1..n PROVE listed[k] \in RowsIn(Upwards(listed))
    BY <1>1 DEF RowsIn
  <2>1. n + 1 - k \in DOMAIN Upwards(listed) /\ Upwards(listed)[n + 1 - k] = listed[k]
    BY <1>2, <1>3
  <2> QED
    BY <2>1 DEF RowsIn
<1> QED
  BY <1>1, <1>2, <1>4, <1>5, <1>6

\* The rules of an accepted plan are selected by what they match, not by where they
\* stand (observations.py:129-157, 257-274).
THEOREM StartupRulesAreUnambiguous == StartupSpec => []RulesAreUnambiguous
<1>1. ReadInv => RulesAreUnambiguous
  <2> DEFINE best(o) == {k \in DOMAIN rules : Matches(rules[k], o) /\
                           \A j \in DOMAIN rules : Matches(rules[j], o) =>
                             Weight(rules[j]) <= Weight(rules[k])}
  <2> SUFFICES ASSUME ReadInv, program = "plan", pc = "done", NEW o
               PROVE  /\ Select(rules, o) = {rules[k] : k \in best(o)}
                      /\ Select(Upwards(rules), o) = Select(rules, o)
    BY DEF RulesAreUnambiguous
  <2>1. rules \in Seq(RuleType) /\ Distinct(rules)
    BY DEF ReadInv, RuledInv, Contradicting, Distinct
  <2>2. Select(rules, o) = Strongest(rules, o)
    <3>1. DOMAIN rules \subseteq Int
      BY <2>1
    <3> QED
      BY <2>1, <3>1, SelectsTheStrongest
  <2>3. Select(Upwards(rules), o) = Strongest(Upwards(rules), o)
    BY <2>1, TurningOver, SelectsTheStrongest
  <2>4. Strongest(Upwards(rules), o) = Strongest(rules, o)
    BY <2>1, TurningOver DEF Strongest
  <2>5. Strongest(rules, o) = {rules[k] : k \in best(o)}
    BY DEF Strongest, RowsIn
  <2> QED
    BY <2>2, <2>3, <2>4, <2>5
<1> QED
  BY <1>1, ReadInvAlways, PTL
=============================================================================
