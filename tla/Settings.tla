------------------------------ MODULE Settings ------------------------------
(***************************************************************************)
(* config.yaml: the template that is written when there is none, what the  *)
(* environment overrides, and what the parts of the program take a field   *)
(* for that is empty (pkg/config/config.go, cmd/bot/main.go,               *)
(* infra/ai/provider.go).                                                  *)
(*                                                                         *)
(* A configuration is a record of the fields that the start depends on; an *)
(* absent or empty field has its zero value.                               *)
(***************************************************************************)
EXTENDS Integers, Sequences

CONSTANTS Template,     \* config.default.yaml
          Environment,  \* the variables set: the key of a model by the model's name
          Providers,    \* the providers that are registered
          Tools         \* the tools that are registered

\* The fields, in the order of the template.
Fields == <<"models", "chat", "vision", "tools", "agent", "prompt",
            "admin", "port", "secret">>
Zero == [models |-> <<>>, chat |-> "", vision |-> "", tools |-> {}, agent |-> "", prompt |-> "",
         admin |-> FALSE, port |-> 0, secret |-> ""]

\* An entry of llm.models.
Model(name, provider, model) ==
    [name |-> name, provider |-> provider, model |-> model, key |-> ""]

\* What is left of the template when writing it ends early: its first n fields.
CutTemplate(n) ==
    [f \in DOMAIN Zero |-> IF \E i \in 1..n : Fields[i] = f THEN Template[f] ELSE Zero[f]]

\* Load: the key of a model that has a name comes from the environment if it is there.
KeyOf(m) == IF m.name # "" /\ m.name \in DOMAIN Environment THEN Environment[m.name] ELSE m.key
WithEnvironment(config) ==
    [config EXCEPT !.models = [i \in DOMAIN @ |-> [@[i] EXCEPT !.key = KeyOf(config.models[i])]]]

\* ByName: the entries a reference means: the first of that name, the first at all if it
\* is empty, or none.
ByName(config, name) ==
    LET meant == SelectSeq(config.models, LAMBDA m : name = "" \/ m.name = name)
    IN  {meant[i] : i \in DOMAIN meant \cap {1}}

ChatEntry(config) == ByName(config, config.chat)

\* VisionEntry: no reference, no description of images.
VisionEntry(config) == IF config.vision = "" THEN {} ELSE ByName(config, config.vision)

\* An agent has a name and a prompt, whatever the file says.
AgentName(config) == IF config.agent = "" THEN "PlumeBot" ELSE config.agent
DefaultPersona(config) == IF config.prompt = "" THEN "DefaultSystemPrompt" ELSE config.prompt

\* buildModelFromEntry: what the provider calls the model is not guessed.
Buildable(m) == m.model # ""

\* NewAgent: there is a model to chat with, of a provider that is registered.
HasChat(config) ==
    \E m \in ChatEntry(config) : m.provider \in Providers \cup {""} /\ Buildable(m)

\* EnabledTools: every tool that is enabled is registered.
ToolsExist(config) == config.tools \subseteq Tools

\* The agent and the summarizer can be built, and the describer, if there is to be one.
Usable(config) ==
    HasChat(config) /\ ToolsExist(config) /\ \A m \in VisionEntry(config) : Buildable(m)

\* Where the admin pages may listen: from the configured port up to MaxAdminPort.
FirstPort(config) == IF config.port <= 0 THEN 9321 ELSE config.port

=============================================================================
