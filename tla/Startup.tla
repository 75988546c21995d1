------------------------------- MODULE Startup -------------------------------
(***************************************************************************)
(* What a start of the program does to the data it finds, up to the admin  *)
(* pages (cmd/bot/main.go, internal/infra/sqlite/storage.go): config.yaml  *)
(* is read, or written first if there is none, the store is opened and     *)
(* migrated, the persona template of the agent is written if there is      *)
(* none, the models are built, the secret that signs tokens is read or     *)
(* made, and a port is looked for.                                         *)
(*                                                                         *)
(* Any statement may fail, which ends the process, and the process may die *)
(* between any two: the next start finds what was committed.               *)
(***************************************************************************)
EXTENDS Settings

CONSTANTS Migrations,  \* number of migration files, run in the order of their names
          Statements,  \* number of statements in each
          Agents,      \* the names of agents
          Edited,      \* what the operator may write to config.yaml
          MaxPort,     \* MaxAdminPort
          MaxKeys,     \* bound of the model: secrets generated
          MaxEdits,    \* bound of the model: times the operator edits config.yaml
          Broken,      \* a file that cannot be parsed
          None

\* Every file that can be parsed, the empty one included, means an agent and a prompt.
ASSUME StartupAssumption ==
    /\ Migrations \in Nat /\ Statements \in Nat \ {0}
    /\ None \notin Nat
    /\ \A config \in (Edited \ {None, Broken}) \cup {Template, Zero} :
        /\ DOMAIN config = DOMAIN Zero
        /\ AgentName(config) \in Agents /\ DefaultPersona(config) # None

VARIABLES schema,    \* the statements of each migration that have taken effect
          recorded,  \* schema_migrations: the migrations that are done
          persona,   \* the persona template of each agent, or None
          yaml,      \* config.yaml, None if there is none, Broken if it cannot be parsed
          edits,     \* the times it was edited
          file,      \* data/admin_jwt_secret
          settings,  \* what this process has read from config.yaml, None before
          stage,     \* how far the start has come
          applied,   \* what Open read of `recorded`, and has done since
          tx,        \* the statements executed in the open transaction
          keys,      \* the secrets generated
          secret     \* the secret of the running process, None while it is not up

data == <<schema, recorded, persona>>
conf == <<yaml, edits, settings>>
startVars == <<data, conf, file, stage, applied, tx, keys, secret>>

Versions == 1..Migrations

\* The first migration is older than the record of migrations and creates only what is
\* not there: a database may have its tables already.
StartInit ==
    /\ \E old \in {0, Statements} : schema = [m \in Versions |-> IF m = 1 THEN old ELSE 0]
    /\ recorded = {}
    /\ persona = [a \in Agents |-> None]
    /\ yaml = None
    /\ edits = 0
    /\ settings = None
    /\ file = None
    /\ stage = "down"
    /\ applied = {}
    /\ tx = 0
    /\ keys = 0
    /\ secret = None

\* writeDefault: the template is written if there is no file ...
WriteTemplate ==
    /\ stage = "down" /\ yaml = None
    /\ yaml' = Template
    /\ UNCHANGED <<data, edits, settings, file, stage, applied, tx, keys, secret>>

\* ... or only its beginning, which the next start takes for the file.
TemplateCut ==
    /\ stage = "down" /\ yaml = None
    /\ yaml' \in {Broken} \cup {CutTemplate(n) : n \in 0..Len(Fields) - 1}
    /\ UNCHANGED <<data, edits, settings, file, stage, applied, tx, keys, secret>>

\* Load: a file that cannot be parsed ends the process.
LoadConfig ==
    /\ stage = "down" /\ yaml \notin {None, Broken}
    /\ settings' = WithEnvironment(yaml)
    /\ stage' = "open"
    /\ UNCHANGED <<data, yaml, edits, file, applied, tx, keys, secret>>

\* The operator edits the file; a process that has read it goes on with what it has read.
Edit ==
    /\ edits < MaxEdits
    /\ edits' = edits + 1
    /\ yaml' \in Edited
    /\ UNCHANGED <<data, settings, file, stage, applied, tx, keys, secret>>

\* Open: the table of versions is created if need be, and read.
Open ==
    /\ stage = "open"
    /\ stage' = "migrate"
    /\ applied' = recorded
    /\ UNCHANGED <<data, conf, file, tx, keys, secret>>

\* The migration whose turn it is.
Due(m) == m \in Versions \ applied /\ \A n \in Versions \ applied : m <= n

\* The effect of n statements of migration m: none, if the first finds its tables.
WithEffect(m, n) == [schema EXCEPT ![m] = IF m = 1 /\ @ = Statements THEN @ ELSE @ + n]

\* Fault, for the checks: every statement is a transaction of its own.
ExecuteAndCommit ==
    /\ stage = "migrate" /\ tx < Statements
    /\ \E m \in Versions : Due(m) /\ schema' = WithEffect(m, 1)
    /\ tx' = tx + 1
    /\ UNCHANGED <<recorded, persona, conf, file, stage, applied, keys, secret>>

\* migrate executes a statement in the migration's transaction ...
Execute ==
    /\ stage = "migrate" /\ tx < Statements
    /\ \E m \in Versions : Due(m)
    /\ tx' = tx + 1
    /\ UNCHANGED <<data, conf, file, stage, applied, keys, secret>>

\* ... and after the last the version is recorded and all of it committed.
Commit ==
    /\ stage = "migrate" /\ tx = Statements
    /\ \E m \in Versions :
        /\ Due(m)
        /\ schema' = WithEffect(m, tx)
        /\ recorded' = recorded \cup {m}
        /\ applied' = applied \cup {m}
    /\ tx' = 0
    /\ UNCHANGED <<persona, conf, file, stage, keys, secret>>

Migrated ==
    /\ stage = "migrate" /\ applied = Versions
    /\ stage' = "seed"
    /\ UNCHANGED <<data, conf, file, applied, tx, keys, secret>>

\* Fault, for the checks: the template of every start is written.
SeedAlways ==
    /\ stage = "seed"
    /\ persona' = [persona EXCEPT ![AgentName(settings)] = DefaultPersona(settings)]
    /\ stage' = "models"
    /\ UNCHANGED <<schema, recorded, conf, file, applied, tx, keys, secret>>

\* main writes the persona template of the agent if it has none.
Seed ==
    /\ stage = "seed"
    /\ persona' = [persona EXCEPT ![AgentName(settings)] =
                       IF @ = None THEN DefaultPersona(settings) ELSE @]
    /\ stage' = "models"
    /\ UNCHANGED <<schema, recorded, conf, file, applied, tx, keys, secret>>

\* The agent, the summarizer and the describer are built, or the process ends; without
\* the admin pages the start is at its end.
BuildModels ==
    /\ stage = "models"
    /\ Usable(settings)
    /\ stage' = IF settings.admin THEN "secret" ELSE "alone"
    /\ UNCHANGED <<data, conf, file, applied, tx, keys, secret>>

\* Fault, for the checks: the secret is kept in memory.
KeepSecretInMemory ==
    /\ stage = "secret"
    /\ keys < MaxKeys
    /\ keys' = keys + 1
    /\ secret' = keys + 1
    /\ stage' = "listen"
    /\ UNCHANGED <<data, conf, file, applied, tx>>

\* resolveAdminJWTSecret: the configured secret, that of the file, or a new one.
ResolveSecret ==
    /\ stage = "secret"
    /\ \/ settings.secret # "" /\ secret' = settings.secret /\ UNCHANGED <<file, keys>>
       \/ settings.secret = "" /\ file # None /\ secret' = file /\ UNCHANGED <<file, keys>>
       \/ /\ settings.secret = "" /\ file = None /\ keys < MaxKeys
          /\ keys' = keys + 1
          /\ file' = keys + 1
          /\ secret' = keys + 1
    /\ stage' = "listen"
    /\ UNCHANGED <<data, conf, applied, tx>>

\* The file cannot be written, or not all of it: startAdminWeb ends the process.
SecretFails ==
    /\ stage = "secret" /\ settings.secret = "" /\ file = None /\ keys < MaxKeys
    /\ keys' = keys + 1
    /\ file' = keys + 1
    /\ stage' = "down" /\ applied' = {} /\ tx' = 0 /\ settings' = None
    /\ UNCHANGED <<data, yaml, edits, secret>>

\* newAdminWebServer: the first port that is free is taken.  If none is, the program
\* goes on without admin pages.
Listen ==
    /\ stage = "listen"
    /\ \E taken \in SUBSET (FirstPort(settings)..MaxPort) :
           stage' = IF FirstPort(settings)..MaxPort \subseteq taken THEN "alone" ELSE "up"
    /\ UNCHANGED <<data, conf, file, applied, tx, keys, secret>>

\* A statement fails and the transaction is rolled back, or the process dies.
Down ==
    /\ stage # "down"
    /\ stage' = "down" /\ applied' = {} /\ tx' = 0
    /\ secret' = None /\ settings' = None
    /\ UNCHANGED <<data, yaml, edits, file, keys>>

StartStep ==
    \/ WriteTemplate \/ TemplateCut \/ LoadConfig \/ Edit
    \/ Open \/ Execute \/ Commit \/ Migrated \/ Seed \/ BuildModels
    \/ ResolveSecret \/ SecretFails \/ Listen

\* With the admin pages, or without.
Running == stage \in {"up", "alone"}

\* personaText: what a prompt says of the agent, if its query does not fail: the template
\* of the table, and where that has none or a blank one the prompt of the configuration.
PersonaText ==
    LET template == persona[AgentName(settings)]
    IN  IF template \in {None, "blank"} THEN DefaultPersona(settings) ELSE template

\* Every migration takes effect once, as a whole and in its turn, however often starts
\* fail or die on the way; a program that runs has all of them and a persona template.
SchemaOnce ==
    /\ \A m \in Versions :
        /\ schema[m] \in {0, Statements}
        /\ m \in recorded => schema[m] = Statements /\ \A n \in 1..m : n \in recorded
        /\ m > 1 /\ schema[m] # 0 => m \in recorded
    /\ Running => recorded = Versions /\ persona[AgentName(settings)] # None

=============================================================================
