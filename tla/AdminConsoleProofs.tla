------------------------- MODULE AdminConsoleProofs -------------------------
(***************************************************************************)
(* Proofs about AdminConsole and Startup, for every number of migrations   *)
(* and statements, of accounts, passwords, words, templates, requests,     *)
(* edits of config.yaml and crashes: what the store holds whatever way the *)
(* starts end, and what the requests of administrators may rely on of one  *)
(* another.                                                                *)
(***************************************************************************)
EXTENDS AdminConsole, TLAPS

-----------------------------------------------------------------------------
(* What a start reads. *)

\* What the start takes from a file, and from what Load makes of it.
Fit(config) ==
    /\ DOMAIN config = DOMAIN Zero
    /\ AgentName(config) \in Agents /\ DefaultPersona(config) # None

\* No file has a secret: the one that signs tokens is the program's own.
NoSecretConfigured == \A config \in (Edited \ {None, Broken}) \cup {Template} : config.secret = ""

LEMMA FieldsOfZero ==
    /\ DOMAIN Zero = {"models", "chat", "vision", "tools", "agent", "prompt", "admin", "port",
                      "secret"}
    /\ Zero.agent = "" /\ Zero.prompt = "" /\ Zero.secret = ""
BY DEF Zero

LEMMA CutIsFit ==
    ASSUME NEW n
    PROVE  /\ Fit(CutTemplate(n))
           /\ Template.secret = "" => CutTemplate(n).secret = ""
<1>1. Fit(Template) /\ Fit(Zero)
  BY StartupAssumption DEF Fit
<1>2. DOMAIN CutTemplate(n) = DOMAIN Zero
  BY DEF CutTemplate
<1>3. \A f \in DOMAIN Zero : CutTemplate(n)[f] \in {Template[f], Zero[f]}
  BY DEF CutTemplate
<1>4. /\ CutTemplate(n).agent \in {Template.agent, Zero.agent}
      /\ CutTemplate(n).prompt \in {Template.prompt, Zero.prompt}
      /\ CutTemplate(n).secret \in {Template.secret, Zero.secret}
  BY <1>3, FieldsOfZero
<1> QED
  BY <1>1, <1>2, <1>4, FieldsOfZero DEF Fit, AgentName, DefaultPersona

\* The environment changes the keys of the models only.
LEMMA EnvironmentKeeps ==
    ASSUME NEW config, DOMAIN config = DOMAIN Zero
    PROVE  /\ Fit(config) => Fit(WithEnvironment(config))
           /\ WithEnvironment(config).secret = config.secret
<1>1. DOMAIN WithEnvironment(config) = DOMAIN config
  BY DEF WithEnvironment
<1>2. \A f \in DOMAIN Zero : f # "models" => WithEnvironment(config)[f] = config[f]
  BY DEF WithEnvironment
<1>3. /\ WithEnvironment(config).agent = config.agent
      /\ WithEnvironment(config).prompt = config.prompt
      /\ WithEnvironment(config).secret = config.secret
  BY <1>2, FieldsOfZero
<1> QED
  BY <1>1, <1>3 DEF Fit, AgentName, DefaultPersona

-----------------------------------------------------------------------------
(* The steps, by what they leave alone. *)

\* A step is one of a start, the end of the process, or leaves the start alone but for the
\* persona templates.
LEMMA StepsOfStart ==
    ASSUME [Next]_vars
    PROVE  \/ StartStep /\ UNCHANGED <<users, tokens, now, jargon, requests, history>>
           \/ Crash
           \/ \E r \in Requests : WritePersona(r)
           \/ UNCHANGED <<startVars, written>>
<1>1. CASE Start \/ Crash
  BY <1>1 DEF Start
<1>2. CASE Tick \/ BeginOpen \/ BeginChange \/ BeginReview \/ BeginPersona
  BY <1>2 DEF Tick, BeginOpen, BeginChange, BeginReview, BeginPersona, Begin, accounts, history
<1>3. ASSUME NEW r \in Requests, Serve(r), ~ WritePersona(r)
      PROVE  UNCHANGED <<startVars, written>>
  BY <1>3 DEF Serve, Register, Create, Login, Issue, Change, Update, Add, Insert, Confirm,
              Delete, Remove, StatementFails, accounts, history
<1>4. CASE Learn
  BY <1>4 DEF Learn, accounts
<1>5. CASE UNCHANGED vars
  BY <1>5 DEF vars, accounts, history
<1> QED
  BY <1>1, <1>2, <1>3, <1>4, <1>5 DEF Next

-----------------------------------------------------------------------------
(* Configuration and persona templates. *)

\* What the process has read fits from the moment it has read it, and so does the file.
Reads == stage # "down"

ConfigOK ==
    /\ yaml \notin {None, Broken} => Fit(yaml)
    /\ Reads => Fit(settings)

LEMMA ConfigInit == Init => ConfigOK
BY DEF Init, StartInit, ConfigOK, Reads

LEMMA ConfigNext == ConfigOK /\ [Next]_vars => ConfigOK'
<1> SUFFICES ASSUME ConfigOK, [Next]_vars
             PROVE  ConfigOK'
  OBVIOUS
<1>1. CASE WriteTemplate \/ TemplateCut \/ Edit
  <2>1. yaml' \in {Template, Broken} \cup Edited \/ \E n : yaml' = CutTemplate(n)
    BY <1>1 DEF WriteTemplate, TemplateCut, Edit
  <2>2. yaml' \notin {None, Broken} => Fit(yaml')
    BY <2>1, CutIsFit, StartupAssumption DEF Fit
  <2>3. UNCHANGED <<stage, settings>>
    BY <1>1 DEF WriteTemplate, TemplateCut, Edit
  <2> QED
    BY <2>2, <2>3 DEF ConfigOK, Reads
<1>2. CASE LoadConfig
  <2>1. yaml' = yaml /\ settings' = WithEnvironment(yaml) /\ Fit(yaml)
    BY <1>2 DEF LoadConfig, ConfigOK
  <2>2. Fit(settings')
    BY <2>1, EnvironmentKeeps DEF Fit
  <2> QED
    BY <2>1, <2>2 DEF ConfigOK
<1>3. CASE Open \/ Execute \/ Commit \/ Migrated \/ Seed \/ BuildModels \/ ResolveSecret \/ Listen
  BY <1>3 DEF Open, Execute, Commit, Migrated, Seed, BuildModels, ResolveSecret, Listen, conf,
              ConfigOK, Reads
<1>4. CASE SecretFails \/ Down
  BY <1>4 DEF SecretFails, Down, ConfigOK, Reads
<1>5. CASE \E r \in Requests : WritePersona(r)
  BY <1>5 DEF WritePersona, conf, ConfigOK, Reads
<1>6. CASE UNCHANGED startVars
  BY <1>6 DEF startVars, conf, ConfigOK, Reads
<1> QED
  BY <1>1, <1>2, <1>3, <1>4, <1>5, <1>6, StepsOfStart DEF StartStep, Crash

-----------------------------------------------------------------------------
(* The requests. *)

Places == {"unsent", "over", "register", "create", "issue", "login", "change", "update", "add",
           "insert", "confirm", "delete", "remove", "persona"}
Callers == Names \cup Agents \cup {None}
RequestSet == [at : Places, name : Callers, password : Passwords \cup {None},
               new : Passwords \cup Texts \cup {None}, word : Words \cup {None}]

\* What a request is about to write is there.
WellFormed(q) ==
    /\ q.at \in {"register", "create"} => q.password \in Passwords
    /\ q.at \in {"change", "update"} => q.new \in Passwords
    /\ q.at = "persona" => q.name \in Agents /\ q.new \in Texts

RequestsOK ==
    /\ requests \in [Requests -> RequestSet]
    /\ \A r \in Requests : WellFormed(requests[r])
    /\ \A t \in tokens : t.name \in Callers

Empty == \A n \in Names : users[n] = None

LEMMA OverIsWellFormed ==
    /\ Over \in RequestSet /\ WellFormed(Over)
    /\ Unsent \in RequestSet /\ WellFormed(Unsent)
    /\ Over.at = "over" /\ Unsent.at = "unsent"
BY DEF Over, Unsent, Request, RequestSet, WellFormed, Places, Callers

\* A request that begins is one that was not sent, is well formed, and is marked as early
\* and as roomy if it is.
LEMMA BeginSteps ==
    ASSUME RequestsOK, BeginOpen \/ BeginChange \/ BeginReview \/ BeginPersona
    PROVE  /\ stage = "up"
           /\ \E r \in Requests, q \in RequestSet :
                /\ requests[r] = Unsent
                /\ WellFormed(q)
                /\ q.at \in {"register", "login", "change", "add", "delete", "confirm", "persona"}
                /\ requests' = [requests EXCEPT ![r] = q]
                /\ early' = IF Empty THEN early \cup {r} ELSE early
                /\ roomy' = IF Cardinality(Known) < MaxJargon THEN roomy \cup {r} ELSE roomy
                /\ endorsed \subseteq endorsed'
                /\ q.at \in {"add", "confirm"} => q.word \in endorsed'
           /\ UNCHANGED <<accounts, now, jargon, written>>
<1>1. ASSUME NEW q \in RequestSet, WellFormed(q), Begin(q),
             q.at \in {"register", "login", "change", "add", "delete", "confirm", "persona"},
             endorsed \subseteq endorsed', q.at \in {"add", "confirm"} => q.word \in endorsed'
      PROVE  /\ stage = "up"
             /\ \E r \in Requests, p \in RequestSet :
                  /\ requests[r] = Unsent
                  /\ WellFormed(p)
                  /\ p.at \in {"register", "login", "change", "add", "delete", "confirm", "persona"}
                  /\ requests' = [requests EXCEPT ![r] = p]
                  /\ early' = IF Empty THEN early \cup {r} ELSE early
                  /\ roomy' = IF Cardinality(Known) < MaxJargon THEN roomy \cup {r} ELSE roomy
                  /\ endorsed \subseteq endorsed'
                  /\ p.at \in {"add", "confirm"} => p.word \in endorsed'
             /\ UNCHANGED <<accounts, now, jargon, written>>
  BY <1>1 DEF Begin, Empty
<1>2. CASE BeginOpen
  <2>1. PICK at \in {"register", "login"}, n \in Names, p \in Passwords :
          Begin(Request(at, n, p, None, None))
    BY <1>2 DEF BeginOpen
  <2> DEFINE q == Request(at, n, p, None, None)
  <2>2. q \in RequestSet /\ WellFormed(q) /\ q.at \in {"register", "login"}
    BY DEF Request, RequestSet, WellFormed, Places, Callers
  <2>3. endorsed' = endorsed
    BY <1>2 DEF BeginOpen
  <2> HIDE DEF q
  <2> QED
    BY <1>1, <2>1, <2>2, <2>3 DEF q
<1>3. CASE BeginChange
  <2>1. PICK t \in tokens, p \in Passwords, new \in Passwords :
          Begin(Request("change", t.name, p, new, None))
    BY <1>3 DEF BeginChange
  <2> DEFINE q == Request("change", t.name, p, new, None)
  <2>2. q \in RequestSet /\ WellFormed(q) /\ q.at = "change"
    BY DEF Request, RequestSet, WellFormed, Places, RequestsOK
  <2>3. endorsed' = endorsed
    BY <1>3 DEF BeginChange
  <2> HIDE DEF q
  <2> QED
    BY <1>1, <2>1, <2>2, <2>3 DEF q
<1>4. CASE BeginReview
  <2>1. PICK at \in {"add", "delete", "confirm"}, w \in Words :
          /\ Begin(Request(at, None, None, None, w))
          /\ endorsed' = IF at = "delete" THEN endorsed ELSE endorsed \cup {w}
    BY <1>4 DEF BeginReview
  <2> DEFINE q == Request(at, None, None, None, w)
  <2>2. q \in RequestSet /\ WellFormed(q) /\ q.at = at /\ q.word = w
    BY DEF Request, RequestSet, WellFormed, Places, Callers
  <2> HIDE DEF q
  <2> QED
    BY <1>1, <2>1, <2>2 DEF q
<1>5. CASE BeginPersona
  <2>1. PICK a \in Agents, text \in Texts : Begin(Request("persona", a, None, text, None))
    BY <1>5 DEF BeginPersona
  <2> DEFINE q == Request("persona", a, None, text, None)
  <2>2. q \in RequestSet /\ WellFormed(q) /\ q.at = "persona"
    BY DEF Request, RequestSet, WellFormed, Places, Callers
  <2>3. endorsed' = endorsed
    BY <1>5 DEF BeginPersona
  <2> HIDE DEF q
  <2> QED
    BY <1>1, <2>1, <2>2, <2>3 DEF q
<1> QED
  BY <1>2, <1>3, <1>4, <1>5

\* A step of a request ends it or takes it one place further; past the gate of registration
\* only without an account, past that of a word only with room.
LEMMA ServeSteps ==
    ASSUME RequestsOK, NEW r \in Requests, Serve(r)
    PROVE  \E q \in RequestSet :
             /\ WellFormed(q)
             /\ requests' = [requests EXCEPT ![r] = q]
             /\ \/ q = Over
                \/ /\ q = [requests[r] EXCEPT !.at = q.at]
                   /\ \/ requests[r].at = "register" /\ q.at = "create" /\ Empty
                      \/ requests[r].at = "add" /\ q.at = "insert" /\ Cardinality(Known) < MaxJargon
                      \/ <<requests[r].at, q.at>> \in {<<"create", "issue">>, <<"login", "issue">>,
                             <<"change", "update">>, <<"insert", "confirm">>, <<"delete", "remove">>}
<1>1. requests[r] \in RequestSet /\ WellFormed(requests[r])
  BY DEF RequestsOK
<1>2. CASE Ends(r)
  BY <1>2, OverIsWellFormed DEF Ends
<1>3. \A at \in Places : /\ [requests[r] EXCEPT !.at = at] \in RequestSet
                         /\ [requests[r] EXCEPT !.at = at].at = at
                         /\ GoesTo(r, at) =>
                              requests' = [requests EXCEPT ![r] = [requests[r] EXCEPT !.at = at]]
  BY <1>1 DEF RequestSet, GoesTo, RequestsOK
<1>4. \A at \in {"issue", "insert", "confirm", "remove"} : WellFormed([requests[r] EXCEPT !.at = at])
  BY <1>1 DEF RequestSet, WellFormed
<1>5. /\ requests[r].at = "register" => WellFormed([requests[r] EXCEPT !.at = "create"])
      /\ requests[r].at = "change" => WellFormed([requests[r] EXCEPT !.at = "update"])
  BY <1>1 DEF RequestSet, WellFormed
<1>6. CASE Register(r) /\ ~ Ends(r)
  <2>1. requests[r].at = "register" /\ Empty /\ GoesTo(r, "create")
    BY <1>6 DEF Register, Empty
  <2> QED
    BY <1>3, <1>5, <2>1 DEF Places
<1>7. CASE Change(r) /\ ~ Ends(r)
  <2>1. requests[r].at = "change" /\ GoesTo(r, "update")
    BY <1>7 DEF Change
  <2> QED
    BY <1>3, <1>5, <2>1 DEF Places
<1>8. CASE Add(r) /\ ~ Ends(r)
  <2>1. requests[r].at = "add" /\ GoesTo(r, "insert") /\ Cardinality(Known) < MaxJargon
    BY <1>8 DEF Add
  <2> QED
    BY <1>3, <1>4, <2>1 DEF Places
<1>9. CASE (Create(r) \/ Login(r)) /\ ~ Ends(r)
  <2>1. requests[r].at \in {"create", "login"} /\ GoesTo(r, "issue")
    BY <1>9 DEF Create, Login
  <2> QED
    BY <1>3, <1>4, <2>1 DEF Places
<1>10. CASE Insert(r) /\ ~ Ends(r)
  <2>1. requests[r].at = "insert" /\ GoesTo(r, "confirm")
    BY <1>10 DEF Insert
  <2> QED
    BY <1>3, <1>4, <2>1 DEF Places
<1>11. CASE Delete(r) /\ ~ Ends(r)
  <2>1. requests[r].at = "delete" /\ GoesTo(r, "remove")
    BY <1>11 DEF Delete
  <2> QED
    BY <1>3, <1>4, <2>1 DEF Places
<1>12. CASE Issue(r) \/ Update(r) \/ Confirm(r) \/ Remove(r) \/ WritePersona(r) \/ StatementFails(r)
  BY <1>2, <1>12 DEF Issue, Update, Confirm, Remove, WritePersona, StatementFails
<1> QED
  BY <1>2, <1>6, <1>7, <1>8, <1>9, <1>10, <1>11, <1>12 DEF Serve

\* The steps that no request takes leave the requests alone, or end those that live.
LEMMA OtherSteps ==
    ASSUME [Next]_vars, ~ \E r \in Requests : Serve(r),
           ~ (BeginOpen \/ BeginChange \/ BeginReview \/ BeginPersona)
    PROVE  /\ UNCHANGED <<users, tokens, early, endorsed, written>>
           /\ \/ UNCHANGED requests
              \/ requests' = [r \in Requests |-> IF r \in Live THEN Over ELSE requests[r]]
           /\ \/ UNCHANGED <<jargon, roomy>>
              \/ /\ UNCHANGED requests
                 /\ \E w \in Words : SetJargon(WithWord(w))
<1>1. CASE Start \/ Crash \/ Tick
  BY <1>1 DEF Start, Crash, Tick, accounts, history
<1>2. CASE Learn
  BY <1>2 DEF Learn, accounts
<1>3. CASE UNCHANGED vars
  BY <1>3 DEF vars, accounts, history
<1> QED
  BY <1>1, <1>2, <1>3 DEF Next

LEMMA RequestsInit == Init => RequestsOK
BY OverIsWellFormed DEF Init, RequestsOK

LEMMA RequestsNext == RequestsOK /\ [Next]_vars => RequestsOK'
<1> SUFFICES ASSUME RequestsOK, [Next]_vars
             PROVE  RequestsOK'
  OBVIOUS
<1>1. CASE BeginOpen \/ BeginChange \/ BeginReview \/ BeginPersona
  <2>1. PICK r \in Requests, q \in RequestSet :
          WellFormed(q) /\ requests' = [requests EXCEPT ![r] = q]
    BY <1>1, BeginSteps
  <2>2. tokens' = tokens
    BY <1>1, BeginSteps DEF accounts
  <2> QED
    BY <2>1, <2>2 DEF RequestsOK
<1>2. ASSUME NEW r \in Requests, Serve(r)
      PROVE  RequestsOK'
  <2>1. PICK q \in RequestSet : WellFormed(q) /\ requests' = [requests EXCEPT ![r] = q]
    BY <1>2, ServeSteps
  <2>2. \A t \in tokens' : t.name \in Callers
    <3>1. CASE Issue(r)
      BY <3>1 DEF Issue, Token, RequestsOK, RequestSet
    <3>2. CASE ~ Issue(r)
      <4>1. tokens' = tokens
        BY <1>2, <3>2 DEF Serve, Register, Create, Login, Change, Update, Add, Insert, Confirm,
                          Delete, Remove, WritePersona, StatementFails, accounts
      <4> QED
        BY <4>1 DEF RequestsOK
    <3> QED
      BY <3>1, <3>2
  <2> QED
    BY <2>1, <2>2 DEF RequestsOK
<1>3. CASE ~ (\E r \in Requests : Serve(r))
           /\ ~ (BeginOpen \/ BeginChange \/ BeginReview \/ BeginPersona)
  <2>1. tokens' = tokens
    BY <1>3, OtherSteps
  <2>2. CASE UNCHANGED requests
    BY <2>1, <2>2 DEF RequestsOK
  <2>3. CASE requests' = [r \in Requests |-> IF r \in Live THEN Over ELSE requests[r]]
    BY <2>1, <2>3, OverIsWellFormed DEF RequestsOK
  <2> QED
    BY <1>3, <2>2, <2>3, OtherSteps
<1> QED
  BY <1>1, <1>2, <1>3

-----------------------------------------------------------------------------
(* Persona templates. *)

Seeded == stage \in {"models", "secret", "listen", "up", "alone"}

\* What an administrator wrote is in the table, and after the seed the agent has a template.
PersonaOK ==
    /\ DOMAIN persona = Agents /\ DOMAIN written = Agents
    /\ \A a \in Agents : written[a] # None => persona[a] = written[a]
    /\ Seeded => persona[AgentName(settings)] # None

LEMMA PersonaInit == Init => PersonaOK
BY DEF Init, StartInit, PersonaOK, Seeded

LEMMA PersonaNext == ConfigOK /\ RequestsOK /\ PersonaOK /\ [Next]_vars => PersonaOK'
<1> SUFFICES ASSUME ConfigOK, RequestsOK, PersonaOK, [Next]_vars
             PROVE  PersonaOK'
  OBVIOUS
<1>1. CASE Seed /\ UNCHANGED history
  <2> DEFINE a == AgentName(settings)
  <2>1. a \in Agents /\ DefaultPersona(settings) # None
    BY <1>1 DEF Seed, ConfigOK, Reads, Fit
  <2>2. /\ persona' = [persona EXCEPT ![a] = IF @ = None THEN DefaultPersona(settings) ELSE @]
        /\ settings' = settings /\ written' = written
    BY <1>1 DEF Seed, conf, history
  <2> HIDE DEF a
  <2>3. persona'[a] # None /\ DOMAIN persona' = Agents
    BY <2>1, <2>2 DEF PersonaOK
  <2>4. \A b \in Agents : written'[b] # None => persona'[b] = written'[b]
    BY <2>1, <2>2 DEF PersonaOK
  <2> QED
    BY <2>2, <2>3, <2>4 DEF PersonaOK, a
<1>2. ASSUME NEW r \in Requests, WritePersona(r)
      PROVE  PersonaOK'
  <2>1. requests[r].name \in Agents /\ requests[r].new # None
    BY <1>2, AdminConsoleAssumption DEF RequestsOK, WellFormed, WritePersona
  <2>2. /\ persona' = [persona EXCEPT ![requests[r].name] = requests[r].new]
        /\ written' = [written EXCEPT ![requests[r].name] = requests[r].new]
        /\ UNCHANGED <<stage, settings>>
    BY <1>2 DEF WritePersona, conf
  <2>3. DOMAIN persona' = Agents /\ DOMAIN written' = Agents
    BY <2>2 DEF PersonaOK
  <2>4. \A a \in Agents : written'[a] # None => persona'[a] = written'[a]
    BY <2>1, <2>2 DEF PersonaOK
  <2>5. Seeded' => persona'[AgentName(settings')] # None
    <3>1. Seeded' => AgentName(settings) \in Agents /\ persona[AgentName(settings)] # None
      BY <2>2 DEF Seeded, PersonaOK, ConfigOK, Reads, Fit
    <3> QED
      BY <2>1, <2>2, <3>1 DEF PersonaOK
  <2> QED
    BY <2>3, <2>4, <2>5 DEF PersonaOK
<1>3. CASE (StartStep /\ ~ Seed /\ UNCHANGED history) \/ Crash \/ UNCHANGED <<startVars, written>>
  <2>1. UNCHANGED <<persona, written>>
    BY <1>3 DEF StartStep, WriteTemplate, TemplateCut, LoadConfig, Edit, Open, Execute, Commit,
                Migrated, BuildModels, ResolveSecret, SecretFails, Listen, Crash, Down, data,
                startVars, history
  <2>2. Seeded' => Seeded /\ settings' = settings
    BY <1>3 DEF StartStep, WriteTemplate, TemplateCut, LoadConfig, Edit, Open, Execute, Commit,
                Migrated, BuildModels, ResolveSecret, SecretFails, Listen, Crash, Down, conf,
                startVars, Seeded
  <2> QED
    BY <2>1, <2>2 DEF PersonaOK
<1> QED
  BY <1>1, <1>2, <1>3, StepsOfStart DEF StartStep

\* However the operator edits the configuration, however starts fail or end, and however often
\* the templates are rewritten: while the program runs, prompts say of the agent what the
\* administrator wrote last.
THEOREM PersonaAlwaysStands == Spec => []PersonaStands
<1>1. Init => ConfigOK /\ RequestsOK /\ PersonaOK
  BY ConfigInit, RequestsInit, PersonaInit
<1>2. ConfigOK /\ RequestsOK /\ PersonaOK /\ [Next]_vars => (ConfigOK /\ RequestsOK /\ PersonaOK)'
  BY ConfigNext, RequestsNext, PersonaNext
<1>3. ConfigOK /\ PersonaOK => PersonaStands
  <2> SUFFICES ASSUME ConfigOK, PersonaOK, Running,
                      written[AgentName(settings)] \notin {None, "blank"}
               PROVE  PersonaText = written[AgentName(settings)]
    BY DEF PersonaStands
  <2>1. AgentName(settings) \in Agents
    BY DEF Running, ConfigOK, Reads, Fit
  <2>2. persona[AgentName(settings)] = written[AgentName(settings)]
    BY <2>1 DEF PersonaOK
  <2> QED
    BY <2>2 DEF PersonaText
<1> QED
  BY <1>1, <1>2, <1>3, PTL DEF Spec

-----------------------------------------------------------------------------
(* Migrations. *)

\* Between two commits the schema is what the record of migrations says, but for the first
\* migration, whose tables may be older than the record; the start has read the record, and
\* is past the migrations only when all are done.
SchemaOK ==
    /\ schema \in [Versions -> {0, Statements}] /\ recorded \subseteq Versions
    /\ \A m \in recorded : schema[m] = Statements /\ \A n \in 1..m : n \in recorded
    /\ \A m \in Versions : m > 1 /\ schema[m] # 0 => m \in recorded
    /\ tx \in Nat
    /\ stage = "migrate" => applied = recorded
    /\ stage = "seed" \/ Seeded => recorded = Versions

LEMMA SchemaInit == Init => SchemaOK
<1> SUFFICES ASSUME Init
             PROVE  SchemaOK
  OBVIOUS
<1>1. PICK old \in {0, Statements} : schema = [m \in Versions |-> IF m = 1 THEN old ELSE 0]
  BY DEF Init, StartInit
<1>2. schema \in [Versions -> {0, Statements}] /\ \A m \in Versions : m > 1 => schema[m] = 0
  BY <1>1, StartupAssumption DEF Versions
<1> QED
  BY <1>2 DEF Init, StartInit, SchemaOK, Seeded

LEMMA SchemaNext == SchemaOK /\ [Next]_vars => SchemaOK'
<1> SUFFICES ASSUME SchemaOK, [Next]_vars
             PROVE  SchemaOK'
  OBVIOUS
<1>1. CASE Commit
  <2>1. PICK m \in Versions : /\ Due(m)
                              /\ schema' = WithEffect(m, tx)
                              /\ recorded' = recorded \cup {m}
                              /\ applied' = applied \cup {m}
    BY <1>1 DEF Commit, Due
  <2>2. applied = recorded /\ tx = Statements /\ tx' = 0 /\ stage' = stage /\ stage = "migrate"
    BY <1>1 DEF Commit, SchemaOK
  <2>3. m \notin recorded /\ \A n \in Versions \ recorded : m <= n
    BY <2>1, <2>2 DEF Due
  <2>4. m # 1 => schema[m] = 0
    BY <2>1, <2>3 DEF SchemaOK, Versions
  <2>5. schema' = [schema EXCEPT ![m] = Statements]
    <3>1. schema[m] \in {0, Statements} /\ Statements \in Nat
      BY StartupAssumption DEF SchemaOK
    <3>2. (IF m = 1 /\ schema[m] = Statements THEN schema[m] ELSE schema[m] + Statements) = Statements
      BY <2>4, <3>1
    <3> QED
      BY <2>1, <2>2, <3>2 DEF WithEffect
  <2>6. \A n \in 1..m : n \in recorded'
    BY <2>1, <2>3, StartupAssumption DEF Versions
  <2>7. schema' \in [Versions -> {0, Statements}] /\ recorded' \subseteq Versions
    BY <2>1, <2>5 DEF SchemaOK
  <2>8. \A k \in recorded' : schema'[k] = Statements /\ \A n \in 1..k : n \in recorded'
    BY <2>1, <2>5, <2>6 DEF SchemaOK
  <2>9. \A k \in Versions : k > 1 /\ schema'[k] # 0 => k \in recorded'
    BY <2>1, <2>5 DEF SchemaOK
  <2> QED
    BY <2>1, <2>2, <2>7, <2>8, <2>9 DEF SchemaOK, Seeded
<1>2. CASE ~ Commit
  <2>1. UNCHANGED <<schema, recorded>>
    BY <1>2, StepsOfStart DEF StartStep, WriteTemplate, TemplateCut, LoadConfig, Edit, Open,
             Execute, Migrated, Seed, BuildModels, ResolveSecret, SecretFails, Listen, Crash, Down,
             WritePersona, data, startVars
  <2>2. tx' \in Nat
    <3>1. tx' = 0 \/ tx' = tx \/ tx' = tx + 1
      BY <1>2, StepsOfStart DEF StartStep, WriteTemplate, TemplateCut, LoadConfig, Edit, Open,
               Execute, Migrated, Seed, BuildModels, ResolveSecret, SecretFails, Listen, Crash,
               Down, WritePersona, startVars
    <3> QED
      BY <3>1 DEF SchemaOK
  <2>3. stage' = "migrate" => applied' = recorded'
    BY <1>2, StepsOfStart DEF SchemaOK, StartStep, WriteTemplate, TemplateCut, LoadConfig, Edit,
             Open, Execute, Migrated, Seed, BuildModels, ResolveSecret, SecretFails, Listen, Crash,
             Down, WritePersona, data, startVars
  <2>4. stage' = "seed" \/ Seeded' => recorded' = Versions
    <3>1. CASE Migrated
      BY <2>1, <3>1 DEF Migrated, SchemaOK
    <3>2. CASE ~ Migrated
      <4>1. stage' = "seed" \/ Seeded' => stage = "seed" \/ Seeded
        BY <1>2, <3>2, StepsOfStart DEF StartStep, WriteTemplate, TemplateCut, LoadConfig, Edit,
             Open, Execute, Seed, BuildModels, ResolveSecret, SecretFails, Listen, Crash, Down,
             WritePersona, startVars, Seeded
      <4> QED
        BY <2>1, <4>1 DEF SchemaOK
    <3> QED
      BY <3>1, <3>2
  <2> QED
    BY <2>1, <2>2, <2>3, <2>4 DEF SchemaOK
<1> QED
  BY <1>1, <1>2

\* Every migration takes effect once, as a whole and after those before it, wherever starts
\* fail or die, and a program that runs has them all and a persona template for its agent.
THEOREM SchemaAlwaysOnce == Spec => []SchemaOnce
<1>1. Init => ConfigOK /\ RequestsOK /\ PersonaOK /\ SchemaOK
  BY ConfigInit, RequestsInit, PersonaInit, SchemaInit
<1>2. ConfigOK /\ RequestsOK /\ PersonaOK /\ SchemaOK /\ [Next]_vars
          => (ConfigOK /\ RequestsOK /\ PersonaOK /\ SchemaOK)'
  BY ConfigNext, RequestsNext, PersonaNext, SchemaNext
<1>3. PersonaOK /\ SchemaOK => SchemaOnce
  BY DEF PersonaOK, SchemaOK, SchemaOnce, Running, Seeded
<1> QED
  BY <1>1, <1>2, <1>3, PTL DEF Spec

-----------------------------------------------------------------------------
(* Tokens. *)

\* No file that is read has a secret, a request lives only while the program is up, and the
\* secret, once there, is that of the file, which signed every token.
SignedOK ==
    /\ yaml \notin {None, Broken} => yaml.secret = ""
    /\ Reads => settings.secret = ""
    /\ Live # {} => stage = "up"
    /\ stage \notin {"listen", "up", "alone"} => secret = None
    /\ stage \in {"listen", "up"} => secret = file /\ file # None
    /\ secret \in {None, file}
    /\ tokens # {} => file # None
    /\ \A t \in tokens : t.key = file
    /\ keys \in Nat

LEMMA SignedInit == Init => SignedOK
BY OverIsWellFormed DEF Init, StartInit, SignedOK, Reads, Live

LEMMA SignedStart ==
    ASSUME NoSecretConfigured, ConfigOK, SignedOK, StartStep,
           UNCHANGED <<users, tokens, now, jargon, requests, history>>
    PROVE  SignedOK'
<1>0. UNCHANGED <<tokens, requests>> /\ Live' = Live
  BY DEF Live
<1>1. CASE WriteTemplate \/ TemplateCut \/ Edit
  <2>1. yaml' \in {Template, Broken} \cup Edited \/ \E n : yaml' = CutTemplate(n)
    BY <1>1 DEF WriteTemplate, TemplateCut, Edit
  <2>2. yaml' \notin {None, Broken} => yaml'.secret = ""
    BY <2>1, CutIsFit DEF NoSecretConfigured
  <2>3. UNCHANGED <<stage, settings, secret, file, keys>>
    BY <1>1 DEF WriteTemplate, TemplateCut, Edit
  <2> QED
    BY <1>0, <2>2, <2>3 DEF SignedOK, Reads
<1>2. CASE LoadConfig
  <2>1. /\ settings' = WithEnvironment(yaml) /\ DOMAIN yaml = DOMAIN Zero /\ yaml.secret = ""
        /\ UNCHANGED <<yaml, secret, file, keys>> /\ stage' = "open" /\ stage = "down"
    BY <1>2 DEF LoadConfig, ConfigOK, SignedOK, Fit
  <2>2. settings'.secret = ""
    BY <2>1, EnvironmentKeeps
  <2> QED
    BY <1>0, <2>1, <2>2 DEF SignedOK, Reads
<1>3. CASE Open \/ Execute \/ Commit \/ Migrated \/ Seed
  <2>1. UNCHANGED <<yaml, settings, secret, file, keys>>
    BY <1>3 DEF Open, Execute, Commit, Migrated, Seed, conf
  <2>2. /\ stage \in {"open", "migrate", "seed"} /\ stage' \in {"migrate", "seed", "models"}
    BY <1>3 DEF Open, Execute, Commit, Migrated, Seed
  <2> QED
    BY <1>0, <2>1, <2>2 DEF SignedOK, Reads
<1>4. CASE BuildModels
  <2>1. /\ UNCHANGED <<yaml, settings, secret, file, keys>>
        /\ stage = "models" /\ stage' \in {"secret", "alone"}
    BY <1>4 DEF BuildModels, conf
  <2> QED
    BY <1>0, <2>1 DEF SignedOK, Reads
<1>5. CASE ResolveSecret
  <2>1. /\ UNCHANGED <<yaml, settings>> /\ stage = "secret" /\ stage' = "listen"
        /\ settings.secret = "" /\ None \notin Nat
    BY <1>5, StartupAssumption DEF ResolveSecret, conf, SignedOK, Reads
  <2>2. \/ file # None /\ secret' = file /\ UNCHANGED <<file, keys>>
        \/ file = None /\ keys' = keys + 1 /\ file' = keys + 1 /\ secret' = keys + 1
    BY <1>5, <2>1 DEF ResolveSecret
  <2>3. file = None => tokens = {}
    BY DEF SignedOK
  <2>4. secret' = file' /\ file' # None /\ keys' \in Nat
    <3>1. keys \in Nat
      BY DEF SignedOK
    <3>2. keys + 1 \in Nat
      BY <3>1
    <3>3. keys + 1 # None
      BY <2>1, <3>2
    <3> QED
      BY <2>2, <3>1, <3>2, <3>3
  <2>5. \A t \in tokens' : t.key = file'
    BY <1>0, <2>2, <2>3 DEF SignedOK
  <2> QED
    BY <1>0, <2>1, <2>4, <2>5 DEF SignedOK, Reads
<1>6. CASE SecretFails
  <2>1. /\ UNCHANGED <<yaml, secret>> /\ stage = "secret" /\ stage' = "down"
        /\ keys' = keys + 1 /\ file' = keys + 1 /\ file = None
    BY <1>6 DEF SecretFails
  <2>2. tokens = {} /\ secret = None /\ keys \in Nat
    BY <2>1 DEF SignedOK
  <2>4. keys' \in Nat
    BY <2>1, <2>2
  <2>3. Live' = {}
    BY <1>0, <2>1 DEF SignedOK
  <2> QED
    BY <1>0, <2>1, <2>2, <2>3, <2>4 DEF SignedOK, Reads
<1>7. CASE Listen
  <2>1. /\ UNCHANGED <<yaml, settings, secret, file, keys>>
        /\ stage = "listen" /\ stage' \in {"up", "alone"}
    BY <1>7 DEF Listen, conf
  <2> QED
    BY <1>0, <2>1 DEF SignedOK, Reads
<1> QED
  BY <1>1, <1>2, <1>3, <1>4, <1>5, <1>6, <1>7 DEF StartStep

LEMMA SignedNext ==
    ASSUME NoSecretConfigured
    PROVE  ConfigOK /\ RequestsOK /\ SignedOK /\ [Next]_vars => SignedOK'
<1> SUFFICES ASSUME ConfigOK, RequestsOK, SignedOK, [Next]_vars
             PROVE  SignedOK'
  OBVIOUS
<1>1. CASE Start
  BY <1>1, SignedStart DEF Start
<1>2. CASE Crash
  <2>1. /\ UNCHANGED <<yaml, file, keys, tokens>> /\ stage' = "down" /\ secret' = None
        /\ requests' = [r \in Requests |-> IF r \in Live THEN Over ELSE requests[r]]
    BY <1>2 DEF Crash, Down
  <2>2. Live' = {}
    BY <2>1, OverIsWellFormed DEF Live
  <2> QED
    BY <2>1, <2>2 DEF SignedOK, Reads
<1>3. CASE BeginOpen \/ BeginChange \/ BeginReview \/ BeginPersona
  <2>1. stage = "up" /\ UNCHANGED accounts
    BY <1>3, BeginSteps
  <2>2. UNCHANGED <<yaml, settings, file, keys, secret, stage, tokens>>
    BY <2>1 DEF accounts, startVars, conf
  <2> QED
    BY <2>1, <2>2 DEF SignedOK, Reads
<1>4. ASSUME NEW r \in Requests, Serve(r)
      PROVE  SignedOK'
  <2>1. UNCHANGED <<yaml, settings, file, keys, secret, stage>>
    BY <1>4 DEF Serve, Register, Create, Login, Issue, Change, Update, Add, Insert, Confirm,
                Delete, Remove, WritePersona, StatementFails, accounts, startVars, conf
  <2>2. Live' # {} => stage = "up"
    <3>1. PICK q \in RequestSet : requests' = [requests EXCEPT ![r] = q]
                                  /\ (q = Over \/ requests[r].at \notin {"unsent", "over"})
      BY <1>4, ServeSteps
    <3>2. Live' \subseteq Live
      BY <3>1, OverIsWellFormed DEF Live, RequestsOK
    <3> QED
      BY <3>2 DEF SignedOK
  <2>3. tokens' = tokens \/ (secret = file /\ file # None /\ tokens' = tokens \cup {Token(requests[r].name)})
    <3>1. CASE Issue(r)
      <4>1. r \in Live
        BY <3>1 DEF Issue, Live
      <4>2. secret = file /\ file # None
        BY <4>1 DEF SignedOK
      <4> QED
        BY <3>1, <4>2 DEF Issue
    <3>2. CASE ~ Issue(r)
      BY <1>4, <3>2 DEF Serve, Register, Create, Login, Change, Update, Add, Insert, Confirm,
                        Delete, Remove, WritePersona, StatementFails, accounts
    <3> QED
      BY <3>1, <3>2
  <2>4. Token(requests[r].name).key = secret
    BY DEF Token
  <2>5. /\ tokens' # {} => file # None
        /\ \A t \in tokens' : t.key = file
    BY <2>3, <2>4 DEF SignedOK
  <2> QED
    BY <2>1, <2>2, <2>5 DEF SignedOK, Reads
<1>5. CASE Tick \/ Learn \/ UNCHANGED vars
  <2>1. UNCHANGED <<yaml, settings, file, keys, secret, stage, tokens, requests>>
    BY <1>5 DEF Tick, Learn, vars, accounts, startVars, conf
  <2> QED
    BY <2>1 DEF SignedOK, Reads, Live
<1> QED
  BY <1>1, <1>2, <1>3, <1>4, <1>5 DEF Next

\* While the program has a secret of its own, a token holds until it expires, whichever way
\* starts end and whenever the process dies: one secret is made, and kept.  An operator who
\* configures another one ends the tokens, which is why the theorem asks that none be.
THEOREM TokensAlwaysSurvive ==
    ASSUME NoSecretConfigured
    PROVE  Spec => []TokensSurviveRestart
<1>1. Init => ConfigOK /\ RequestsOK /\ SignedOK
  BY ConfigInit, RequestsInit, SignedInit
<1>2. ConfigOK /\ RequestsOK /\ SignedOK /\ [Next]_vars => (ConfigOK /\ RequestsOK /\ SignedOK)'
  BY ConfigNext, RequestsNext, SignedNext
<1>3. SignedOK => TokensSurviveRestart
  BY DEF SignedOK, TokensSurviveRestart, Verifies
<1> QED
  BY <1>1, <1>2, <1>3, PTL DEF Spec

-----------------------------------------------------------------------------
(* Registration. *)

\* While there is no account every request that lives began without one, and so did one that
\* is about to create an account.
EarlyOK ==
    /\ DOMAIN users = Names
    /\ Empty => Live \subseteq early
    /\ \A r \in Requests : requests[r].at = "create" => r \in early

\* An account, once there, stays.
LEMMA AccountsStay ==
    ASSUME RequestsOK, DOMAIN users = Names, [Next]_vars
    PROVE  DOMAIN users' = Names /\ (Empty' => Empty)
<1>1. CASE UNCHANGED users
  BY <1>1 DEF Empty
<1>2. ASSUME NEW n, NEW new, new # None, users' = [users EXCEPT ![n] = new]
      PROVE  DOMAIN users' = Names /\ (Empty' => Empty)
  BY <1>2 DEF Empty
<1>3. ASSUME NEW r \in Requests, Create(r) \/ Update(r)
      PROVE  DOMAIN users' = Names /\ (Empty' => Empty)
  <2>1. /\ Create(r) => requests[r].password # None
        /\ Update(r) => requests[r].new # None
    BY AdminConsoleAssumption DEF Create, Update, RequestsOK, WellFormed
  <2> QED
    BY <1>1, <1>2, <1>3, <2>1 DEF Create, Update
<1>4. UNCHANGED users \/ \E r \in Requests : Create(r) \/ Update(r)
  BY DEF Next, Start, Crash, Tick, BeginOpen, BeginChange, BeginReview, BeginPersona, Begin,
         Serve, Register, Login, Issue, Change, Add, Insert, Confirm, Delete, Remove,
         WritePersona, StatementFails, Learn, accounts, vars
<1> QED
  BY <1>1, <1>3, <1>4

LEMMA EarlyInit == Init => EarlyOK
BY OverIsWellFormed DEF Init, EarlyOK, Live

LEMMA EarlyNext == RequestsOK /\ EarlyOK /\ [Next]_vars => EarlyOK'
<1> SUFFICES ASSUME RequestsOK, EarlyOK, [Next]_vars
             PROVE  EarlyOK'
  OBVIOUS
<1>0. DOMAIN users' = Names /\ (Empty' => Empty)
  BY AccountsStay DEF EarlyOK
<1>1. CASE BeginOpen \/ BeginChange \/ BeginReview \/ BeginPersona
  <2>1. PICK r \in Requests, q \in RequestSet :
          /\ q.at # "create"
          /\ requests' = [requests EXCEPT ![r] = q]
          /\ early' = IF Empty THEN early \cup {r} ELSE early
    BY <1>1, BeginSteps
  <2>2. Live' \subseteq Live \cup {r}
    BY <2>1 DEF Live, RequestsOK
  <2>3. \A k \in Requests : requests'[k].at = "create" => requests[k].at = "create"
    BY <2>1 DEF RequestsOK
  <2> QED
    BY <1>0, <2>1, <2>2, <2>3 DEF EarlyOK
<1>2. ASSUME NEW r \in Requests, Serve(r)
      PROVE  EarlyOK'
  <2>1. PICK q \in RequestSet :
          /\ requests' = [requests EXCEPT ![r] = q]
          /\ q = Over \/ requests[r].at \notin {"unsent", "over"}
          /\ q.at = "create" => requests[r].at = "register" /\ Empty
    BY <1>2, ServeSteps, OverIsWellFormed
  <2>2. early' = early
    BY <1>2 DEF Serve, Register, Create, Login, Issue, Change, Update, Add, Insert, Confirm,
                Delete, Remove, WritePersona, StatementFails, SetJargon, history
  <2>3. Live' \subseteq Live
    BY <2>1, OverIsWellFormed DEF Live, RequestsOK
  <2>4. q.at = "create" => r \in early
    <3>1. requests[r].at = "register" => r \in Live
      BY DEF Live
    <3> QED
      BY <2>1, <3>1 DEF EarlyOK
  <2>5. \A k \in Requests : requests'[k].at = "create" => k \in early
    BY <2>1, <2>4 DEF EarlyOK, RequestsOK
  <2> QED
    BY <1>0, <2>2, <2>3, <2>5 DEF EarlyOK
<1>3. CASE ~ (\E r \in Requests : Serve(r))
           /\ ~ (BeginOpen \/ BeginChange \/ BeginReview \/ BeginPersona)
  <2>1. early' = early
    BY <1>3, OtherSteps
  <2>2. CASE UNCHANGED requests
    BY <1>0, <2>1, <2>2 DEF EarlyOK, Live
  <2>3. CASE requests' = [r \in Requests |-> IF r \in Live THEN Over ELSE requests[r]]
    BY <1>0, <2>1, <2>3, OverIsWellFormed DEF EarlyOK, Live
  <2> QED
    BY <1>3, <2>2, <2>3, OtherSteps
<1> QED
  BY <1>1, <1>2, <1>3

\* A request that begins when there is an account creates none, for any number of names and of
\* registrations that overlap.
THEOREM RegistrationStaysClosed == Spec => RegistrationCloses
<1>1. Init => RequestsOK /\ EarlyOK
  BY RequestsInit, EarlyInit
<1>2. RequestsOK /\ EarlyOK /\ [Next]_vars => (RequestsOK /\ EarlyOK)'
  BY RequestsNext, EarlyNext
<1>3. EarlyOK => [\A r \in Requests :
                     requests[r].at = "create" /\ users' # users /\ requests'[r].at = "issue"
                     => r \in early]_vars
  BY DEF EarlyOK
<1> QED
  BY <1>1, <1>2, <1>3, PTL DEF Spec, RegistrationCloses

-----------------------------------------------------------------------------
(* The group's slang. *)

\* Someone vouches for every confirmed word, and for every word that a request is about to
\* add or confirm.
ReviewOK ==
    /\ ReviewHolds
    /\ \A r \in Requests :
          requests[r].at \in {"add", "insert", "confirm"} => requests[r].word \in endorsed

\* While there is room, every request that lives has seen it, and so has one that is about to
\* insert a word.
RoomOK ==
    /\ Cardinality(Known) < MaxJargon => Live \subseteq roomy
    /\ \A r \in Requests : requests[r].at = "insert" => r \in roomy

LEMMA ReviewInit == Init => ReviewOK
BY OverIsWellFormed DEF Init, ReviewOK, ReviewHolds

LEMMA RoomInit == Init => RoomOK
BY OverIsWellFormed DEF Init, RoomOK, Live

\* The agent confirms nothing, and neither does the first statement of an addition.
LEMMA WithWordKeeps ==
    ASSUME NEW w, NEW v \in Words, WithWord(w)[v] = "confirmed", DOMAIN jargon = Words
    PROVE  jargon[v] = "confirmed"
BY DEF WithWord

JargonOK == DOMAIN jargon = Words

LEMMA JargonInit == Init => JargonOK
BY DEF Init, JargonOK

LEMMA JargonNext == JargonOK /\ [Next]_vars => JargonOK'
<1> SUFFICES ASSUME JargonOK, [Next]_vars
             PROVE  JargonOK'
  OBVIOUS
<1>1. ASSUME NEW r \in Requests, Insert(r) \/ Confirm(r) \/ Remove(r)
      PROVE  JargonOK'
  BY <1>1 DEF Insert, Confirm, Remove, SetJargon, WithWord, JargonOK
<1>2. CASE Learn
  BY <1>2 DEF Learn, SetJargon, WithWord, JargonOK
<1>3. CASE UNCHANGED jargon
  BY <1>3 DEF JargonOK
<1>4. UNCHANGED jargon \/ Learn \/ \E r \in Requests : Insert(r) \/ Confirm(r) \/ Remove(r)
  BY DEF Next, Start, Crash, Tick, BeginOpen, BeginChange, BeginReview, BeginPersona, Begin,
         Serve, Register, Create, Login, Issue, Change, Update, Add, Delete, WritePersona,
         StatementFails, vars
<1> QED
  BY <1>1, <1>2, <1>3, <1>4

LEMMA ReviewServe ==
    ASSUME RequestsOK, JargonOK, ReviewOK, NEW r \in Requests, Serve(r)
    PROVE  ReviewOK'
<1>1. PICK q \in RequestSet :
        /\ requests' = [requests EXCEPT ![r] = q]
        /\ \/ q = Over
           \/ /\ q.at \in {"add", "insert", "confirm"} => requests[r].at \in {"add", "insert"}
              /\ q = [requests[r] EXCEPT !.at = q.at]
  BY ServeSteps
<1>2. q.at \in {"add", "insert", "confirm"} =>
          requests[r].at \in {"add", "insert"} /\ q.word = requests[r].word
  BY <1>1, OverIsWellFormed DEF RequestsOK, RequestSet
<1>3. \A k \in Requests : requests'[k].at \in {"add", "insert", "confirm"} =>
          /\ requests[k].at \in {"add", "insert", "confirm"}
          /\ requests'[k].word = requests[k].word
  BY <1>1, <1>2 DEF RequestsOK
<1>4. CASE Remove(r)
  <2> DEFINE w == requests[r].word
  <2>1. /\ jargon' = [jargon EXCEPT ![w] = "absent"]
        /\ endorsed' = IF Endorsers(w) = {} THEN endorsed \ {w} ELSE endorsed
    BY <1>4 DEF Remove, SetJargon
  <2>2. ASSUME NEW k \in Requests, requests'[k].at \in {"add", "insert", "confirm"}
        PROVE  requests'[k].word \in endorsed'
    <3>1. requests[k].at \in {"add", "insert", "confirm"} /\ requests'[k].word = requests[k].word
      BY <1>3, <2>2
    <3>2. requests[k].word \in endorsed
      BY <3>1 DEF ReviewOK
    <3>3. requests[k].word = w => Endorsers(w) # {}
      <4>1. k \in Live
        BY <3>1 DEF Live
      <4> QED
        BY <3>1, <4>1 DEF Endorsers
    <3> QED
      BY <2>1, <3>1, <3>2, <3>3
  <2>3. ASSUME NEW v \in Words, jargon'[v] = "confirmed"
        PROVE  v \in endorsed'
    <3>1. v # w /\ jargon[v] = "confirmed"
      BY <2>1, <2>3 DEF JargonOK
    <3> QED
      BY <2>1, <3>1 DEF ReviewOK, ReviewHolds
  <2> QED
    BY <2>2, <2>3 DEF ReviewOK, ReviewHolds
<1>5. CASE Confirm(r)
  <2>1. /\ jargon' = [jargon EXCEPT ![requests[r].word] =
                          IF @ = "absent" THEN "absent" ELSE "confirmed"]
        /\ endorsed' = endorsed /\ requests[r].word \in endorsed
    BY <1>5 DEF Confirm, SetJargon, ReviewOK
  <2>2. \A v \in Words : jargon'[v] = "confirmed" => v \in endorsed'
    BY <2>1 DEF ReviewOK, ReviewHolds, JargonOK
  <2> QED
    BY <1>3, <2>1, <2>2 DEF ReviewOK, ReviewHolds
<1>6. CASE Insert(r)
  <2>1. jargon' = WithWord(requests[r].word) /\ endorsed' = endorsed
    BY <1>6 DEF Insert, SetJargon
  <2>2. \A v \in Words : jargon'[v] = "confirmed" => jargon[v] = "confirmed"
    BY <2>1, WithWordKeeps DEF JargonOK
  <2> QED
    BY <1>3, <2>1, <2>2 DEF ReviewOK, ReviewHolds
<1>7. CASE ~ (Remove(r) \/ Confirm(r) \/ Insert(r))
  <2>1. UNCHANGED <<jargon, endorsed>>
    BY <1>7 DEF Serve, Register, Create, Login, Issue, Change, Update, Add, Delete,
                WritePersona, StatementFails, history
  <2> QED
    BY <1>3, <2>1 DEF ReviewOK, ReviewHolds
<1> QED
  BY <1>4, <1>5, <1>6, <1>7

LEMMA ReviewNext == RequestsOK /\ JargonOK /\ ReviewOK /\ [Next]_vars => ReviewOK'
<1> SUFFICES ASSUME RequestsOK, JargonOK, ReviewOK, [Next]_vars
             PROVE  ReviewOK'
  OBVIOUS
<1>1. CASE BeginOpen \/ BeginChange \/ BeginReview \/ BeginPersona
  <2>1. PICK r \in Requests, q \in RequestSet :
          /\ requests' = [requests EXCEPT ![r] = q]
          /\ q.at \notin {"insert"}
          /\ endorsed \subseteq endorsed'
          /\ q.at \in {"add", "confirm"} => q.word \in endorsed'
    BY <1>1, BeginSteps
  <2>2. jargon' = jargon
    BY <1>1, BeginSteps
  <2>3. \A k \in Requests :
          requests'[k].at \in {"add", "insert", "confirm"} => requests'[k].word \in endorsed'
    BY <2>1 DEF ReviewOK, RequestsOK
  <2> QED
    BY <2>1, <2>2, <2>3 DEF ReviewOK, ReviewHolds
<1>2. ASSUME NEW r \in Requests, Serve(r)
      PROVE  ReviewOK'
  BY <1>2, ReviewServe
<1>3. CASE ~ (\E r \in Requests : Serve(r))
           /\ ~ (BeginOpen \/ BeginChange \/ BeginReview \/ BeginPersona)
  <2>1. endorsed' = endorsed
    BY <1>3, OtherSteps
  <2>2. \A v \in Words : jargon'[v] = "confirmed" => jargon[v] = "confirmed"
    <3>1. CASE \E w \in Words : SetJargon(WithWord(w))
      BY <3>1, WithWordKeeps DEF SetJargon, JargonOK
    <3> QED
      BY <1>3, <3>1, OtherSteps
  <2>3. \A k \in Requests : requests'[k].at \in {"add", "insert", "confirm"} =>
                                requests'[k] = requests[k]
    <3>1. CASE requests' = [r \in Requests |-> IF r \in Live THEN Over ELSE requests[r]]
      BY <3>1, OverIsWellFormed
    <3> QED
      BY <1>3, <3>1, OtherSteps
  <2> QED
    BY <2>1, <2>2, <2>3 DEF ReviewOK, ReviewHolds
<1> QED
  BY <1>1, <1>2, <1>3

\* However the agent learns and administrators add, confirm and delete at once: a word that is
\* confirmed is one that somebody vouched for since it was last deleted, or was about to then.
THEOREM ReviewAlwaysHolds == Spec => []ReviewHolds
<1>1. Init => RequestsOK /\ JargonOK /\ ReviewOK
  BY RequestsInit, JargonInit, ReviewInit
<1>2. RequestsOK /\ JargonOK /\ ReviewOK /\ [Next]_vars => (RequestsOK /\ JargonOK /\ ReviewOK)'
  BY RequestsNext, JargonNext, ReviewNext
<1>3. ReviewOK => ReviewHolds
  BY DEF ReviewOK
<1> QED
  BY <1>1, <1>2, <1>3, PTL DEF Spec

LEMMA RoomNext == RequestsOK /\ RoomOK /\ [Next]_vars => RoomOK'
<1> SUFFICES ASSUME RequestsOK, RoomOK, [Next]_vars
             PROVE  RoomOK'
  OBVIOUS
<1>1. CASE BeginOpen \/ BeginChange \/ BeginReview \/ BeginPersona
  <2>1. PICK r \in Requests, q \in RequestSet :
          /\ requests' = [requests EXCEPT ![r] = q]
          /\ q.at # "insert"
          /\ roomy' = IF Cardinality(Known) < MaxJargon THEN roomy \cup {r} ELSE roomy
    BY <1>1, BeginSteps
  <2>2. Known' = Known
    BY <1>1, BeginSteps DEF Known
  <2>3. Live' \subseteq Live \cup {r}
    BY <2>1 DEF Live, RequestsOK
  <2>4. \A k \in Requests : requests'[k].at = "insert" => requests[k].at = "insert"
    BY <2>1 DEF RequestsOK
  <2> QED
    BY <2>1, <2>2, <2>3, <2>4 DEF RoomOK
<1>2. ASSUME NEW r \in Requests, Serve(r)
      PROVE  RoomOK'
  <2>1. PICK q \in RequestSet :
          /\ requests' = [requests EXCEPT ![r] = q]
          /\ q = Over \/ requests[r].at \notin {"unsent", "over"}
          /\ q.at = "insert" => requests[r].at = "add" /\ Cardinality(Known) < MaxJargon
    BY <1>2, ServeSteps, OverIsWellFormed
  <2>2. Live' \subseteq Live
    BY <2>1, OverIsWellFormed DEF Live, RequestsOK
  <2>3. roomy \subseteq roomy'
        /\ (Cardinality(Known') < MaxJargon => Cardinality(Known) < MaxJargon \/ Live \subseteq roomy')
    <3>1. CASE Insert(r) \/ Confirm(r) \/ Remove(r)
      <4>1. SetJargon(jargon')
        BY <3>1 DEF Insert, Confirm, Remove, SetJargon
      <4> QED
        BY <4>1 DEF SetJargon, HasRoom, Known
    <3>2. CASE ~ (Insert(r) \/ Confirm(r) \/ Remove(r))
      <4>1. UNCHANGED <<jargon, roomy>>
        BY <1>2, <3>2 DEF Serve, Register, Create, Login, Issue, Change, Update, Add, Delete,
                          WritePersona, StatementFails, history
      <4> QED
        BY <4>1 DEF Known
    <3> QED
      BY <3>1, <3>2
  <2>4. q.at = "insert" => r \in roomy
    <3>1. requests[r].at = "add" => r \in Live
      BY DEF Live
    <3> QED
      BY <2>1, <3>1 DEF RoomOK
  <2>5. \A k \in Requests : requests'[k].at = "insert" => k \in roomy
    BY <2>1, <2>4 DEF RoomOK, RequestsOK
  <2> QED
    BY <2>2, <2>3, <2>5 DEF RoomOK
<1>3. CASE ~ (\E r \in Requests : Serve(r))
           /\ ~ (BeginOpen \/ BeginChange \/ BeginReview \/ BeginPersona)
  <2>1. CASE UNCHANGED <<jargon, roomy>>
    <3>1. Live' \subseteq Live
      BY <1>3, OtherSteps, OverIsWellFormed DEF Live
    <3>2. \A k \in Requests : requests'[k].at = "insert" => requests[k].at = "insert"
      BY <1>3, OtherSteps, OverIsWellFormed
    <3> QED
      BY <2>1, <3>1, <3>2 DEF RoomOK, Known
  <2>2. CASE UNCHANGED requests /\ \E w \in Words : SetJargon(WithWord(w))
    <3>1. SetJargon(jargon') /\ Live' = Live
      BY <2>2 DEF SetJargon, Live
    <3> QED
      BY <2>2, <3>1 DEF SetJargon, HasRoom, Known, RoomOK
  <2> QED
    BY <1>3, <2>1, <2>2, OtherSteps
<1> QED
  BY <1>1, <1>2, <1>3

\* An administrator's word enters a group only if there was room for it at some time in the
\* life of the request, for any limit and any number of requests that add words at once.
THEOREM AdditionsStayWithinCap == Spec => AddWithinCap
<1>1. Init => RequestsOK /\ RoomOK
  BY RequestsInit, RoomInit
<1>2. RequestsOK /\ RoomOK /\ [Next]_vars => (RequestsOK /\ RoomOK)'
  BY RequestsNext, RoomNext
<1>3. RoomOK => [\A r \in Requests :
                    requests[r].at = "insert" /\ requests'[r].at = "confirm" /\ jargon' # jargon
                    => r \in roomy]_vars
  BY DEF RoomOK
<1> QED
  BY <1>1, <1>2, <1>3, PTL DEF Spec, AddWithinCap

=============================================================================
