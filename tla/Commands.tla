------------------------------ MODULE Commands ------------------------------
(***************************************************************************)
(* Plugins, and the group actions they and the agent ask for: discovery,   *)
(* routing and close (service/plugin/plugin.go), the command branch of a   *)
(* message (service/event/command.go), the tools group_mute to             *)
(* group_set_card (infra/ai/tools/group_tools.go) and the guards they      *)
(* share (infra/onebot/group_manager.go), from the start of the process to *)
(* its end.                                                                *)
(*                                                                         *)
(* The switch of the group and the roles of its members are read anew for  *)
(* every action, one after the other, while an administrator and the       *)
(* platform change them.  The actions of a command follow one another; the *)
(* tools that one answer of the model calls run in parallel, because the   *)
(* agent is built without ExecuteSequentially, and the model is asked      *)
(* again when all of them have ended and none has failed.                  *)
(***************************************************************************)
EXTENDS Integers, FiniteSets, Sequences, SequencesExt

CONSTANTS Folders,   \* the plugin directories, in order: name, commands, whether loadable
          Commands,  \* what members may call, known or not
          Topics,    \* what members may ask help for
          Folded,    \* a name or topic |-> its letters in lower case
          Answers,   \* the actions plugins may ask for: sequences
          Actions,   \* the actions the agent may ask for
          MaxMute,   \* maxMuteDurationSeconds (30 days in the code)
          MaxRounds, \* defaultMaxIterations (20 in the code): the answers of a turn that call tools
          Messages,  \* bound of the model: the messages handled
          MaxTools,  \* bound of the model: the tools one answer calls
          None

\* What a plugin or the agent may ask for.
Operations == {"mute", "unmute", "kick", "set_card"}

ASSUME CommandsAssumption ==
    /\ Folders \in Seq([name : STRING, commands : SUBSET Commands, loadable : BOOLEAN])
    /\ \A answer \in Answers : answer \in Seq([op : Operations, duration : Int])
    /\ Actions \subseteq [op : Operations, duration : Int]
    /\ MaxMute \in Nat \ {0}
    /\ MaxRounds \in Nat /\ MaxTools \in Nat
    /\ None \notin {"command", "help", "agent"}

VARIABLES phase,    \* of the process: loading, running, stopping, closed, returned, exited
          next,     \* the directory Discover comes to
          handles,  \* PluginService.handles: the directories loaded
          byName,   \* PluginService.byName
          routes,   \* PluginService.commands
          running,  \* the plugin processes that run, by directory
          switch,   \* group_config.group_mgmt_enabled, None without a row
          admins,   \* who of {"actor", "bot"} is an administrator of the group
          handlers, \* the message handlers
          made,     \* history: the calls each handler made to the platform
          since,    \* history: how many of them since a guard fell, while it is down
          passed    \* history: how many of its actions had passed the guard when it fell

plugins == <<next, handles, byName, routes>>
history == <<made, since, passed>>
vars == <<phase, plugins, running, switch, admins, handlers, history>>

Directories == 1..Len(Folders)
Names == {Folders[d].name : d \in Directories}
Guards == {"switch", "actor", "bot"}

\* A handler: where it is, whose message it handles, the plugin, the actions a plugin or an
\* answer of the model asked for, how far each of them is, and the answers so far.
Handler(at, kind, plugin, asked, steps, round) ==
    [at |-> at, kind |-> kind, plugin |-> plugin, asked |-> asked, steps |-> steps,
     round |-> round]
Waiting == Handler("waiting", None, None, <<>>, <<>>, 0)
Ended == Handler("over", None, None, <<>>, <<>>, 0)

\* The steps of an action that is under way, and those behind each of the guards.
UnderWay == {"guard", "actor", "bot", "call"}
Behind(g) ==
    CASE g = "switch" -> {"actor", "bot", "call"}
      [] g = "actor"  -> {"bot", "call"}
      [] g = "bot"    -> {"call"}

\* The actions of a handler that have passed a guard.
Past(r, g) == {i \in DOMAIN r.steps : r.at = "acting" /\ r.steps[i] \in Behind(g)}

Init ==
    /\ phase = "loading"
    /\ next = 1
    /\ handles = <<>>
    /\ byName = [n \in Names |-> None]
    /\ routes = [c \in Commands |-> None]
    /\ running = {}
    /\ switch = None
    /\ admins = {"actor", "bot"}
    /\ handlers = [h \in Messages |-> Waiting]
    /\ made = [h \in Messages |-> <<>>]
    /\ since = [h \in Messages |-> [g \in Guards |-> 0]]
    /\ passed = [h \in Messages |-> [g \in Guards |-> 0]]

-----------------------------------------------------------------------------
(* The process and its plugins. *)

\* A directory whose plugin.json is unusable, or whose process does not start.
LoadFails ==
    /\ phase = "loading" /\ next \in Directories
    /\ next' = next + 1
    /\ UNCHANGED <<phase, handles, byName, routes, running, switch, admins, handlers, history>>

\* Fault, for the checks: a plugin whose name is taken is given up, after it was started.
LoadUnlessNamed ==
    /\ phase = "loading" /\ next \in Directories
    /\ next' = next + 1
    /\ running' = running \cup {next}
    /\ handles' = IF byName[Folders[next].name] = None THEN Append(handles, next) ELSE handles
    /\ byName' = [byName EXCEPT ![Folders[next].name] = IF @ = None THEN next ELSE @]
    /\ routes' = [c \in Commands |-> IF routes[c] = None /\ c \in Folders[next].commands
                                     THEN next ELSE routes[c]]
    /\ UNCHANGED <<phase, switch, admins, handlers, history>>

\* loadPlugin: the process is started and kept; of equal names and commands the first counts.
Load ==
    /\ phase = "loading" /\ next \in Directories
    /\ Folders[next].loadable
    /\ next' = next + 1
    /\ running' = running \cup {next}
    /\ handles' = Append(handles, next)
    /\ byName' = [byName EXCEPT ![Folders[next].name] = IF @ = None THEN next ELSE @]
    /\ routes' = [c \in Commands |-> IF routes[c] = None /\ c \in Folders[next].commands
                                     THEN next ELSE routes[c]]
    /\ UNCHANGED <<phase, switch, admins, handlers, history>>

\* The rest of the start succeeds, or ends the process without its deferred calls.
Started ==
    /\ phase = "loading" /\ next \notin Directories
    /\ phase' \in {"running", "exited"}
    /\ UNCHANGED <<plugins, running, switch, admins, handlers, history>>

PluginDies ==
    /\ \E d \in running : running' = running \ {d}
    /\ UNCHANGED <<phase, plugins, switch, admins, handlers, history>>

\* The end of main: the plugins are closed, then the database, then the process ends.  The
\* handlers go on until then.
ClosePlugins ==
    /\ phase = "running"
    /\ phase' = "stopping"
    /\ running' = running \ ToSet(handles)
    /\ UNCHANGED <<plugins, switch, admins, handlers, history>>

CloseStore ==
    /\ phase = "stopping"
    /\ phase' = "closed"
    /\ UNCHANGED <<plugins, running, switch, admins, handlers, history>>

Return ==
    /\ phase = "closed"
    /\ phase' = "returned"
    /\ handlers' = [h \in Messages |-> Ended]
    /\ UNCHANGED <<plugins, running, switch, admins, history>>

-----------------------------------------------------------------------------
(* The world around the guards. *)

\* The guards that are down.
Fallen == (IF switch = 0 THEN {"switch"} ELSE {}) \cup ({"actor", "bot"} \ admins)

\* The calls made while a guard is down are counted anew each time it falls.
Falls(g) ==
    /\ since' = [h \in Messages |-> [since[h] EXCEPT ![g] = 0]]
    /\ passed' = [h \in Messages |-> [passed[h] EXCEPT ![g] = Cardinality(Past(handlers[h], g))]]
Rises(g) ==
    /\ since' = [h \in Messages |-> [since[h] EXCEPT ![g] = 0]]
    /\ passed' = [h \in Messages |-> [passed[h] EXCEPT ![g] = 0]]

\* The admin pages write the switch, or delete the row: without one it is on.
SetSwitch ==
    /\ phase \in {"running", "stopping"}
    /\ switch' \in {0, 1, None} \ {switch}
    /\ IF switch' = 0 THEN Falls("switch") ELSE Rises("switch")
    /\ UNCHANGED <<phase, plugins, running, admins, handlers, made>>

Promote ==
    /\ \E m \in {"actor", "bot"} \ admins : admins' = admins \cup {m} /\ Rises(m)
    /\ UNCHANGED <<phase, plugins, running, switch, handlers, made>>

Demote ==
    /\ \E m \in admins : admins' = admins \ {m} /\ Falls(m)
    /\ UNCHANGED <<phase, plugins, running, switch, handlers, made>>

-----------------------------------------------------------------------------
(* Commands and tools. *)

Alive == phase \in {"running", "stopping", "closed"}

\* A step of handler h.
Becomes(h, handler) ==
    /\ handlers' = [handlers EXCEPT ![h] = handler]
    /\ UNCHANGED <<phase, plugins, running, switch, admins>>
GoesTo(h, at) == Becomes(h, [handlers[h] EXCEPT !.at = at]) /\ UNCHANGED history
Over(h) == GoesTo(h, "over")

\* Dispatch: an unknown command ends its message.
Command(h) ==
    /\ Alive /\ handlers[h] = Waiting
    /\ \E c \in Commands :
        Becomes(h, Handler(IF routes[c] = None THEN "over" ELSE "execute",
                           "command", routes[c], <<>>, <<>>, 0))
    /\ UNCHANGED history

\* lookupPlugin: the plugin of that name, one whose name differs only in case - whichever the
\* map yields first -, or that of a command.
LookedUp(topic) ==
    LET alike == {byName[n] : n \in {name \in Names : Folded[name] = Folded[topic]}} \ {None}
    IN  IF topic \in Names /\ byName[topic] # None THEN {byName[topic]}
        ELSE IF alike # {} THEN alike
        ELSE IF topic \in Commands THEN {routes[topic]} \ {None}
        ELSE {}

\* /help is answered by the host, with a list or that there is no such plugin ...
HelpOfHost(h) ==
    /\ Alive /\ handlers[h] = Waiting
    /\ Becomes(h, Handler("over", "help", None, <<>>, <<>>, 0))
    /\ UNCHANGED history

\* ... or the plugin it is about is called, with a command of no route.
HelpOf(h) ==
    /\ Alive /\ handlers[h] = Waiting
    /\ \E topic \in Topics : \E plugin \in LookedUp(topic) :
           Becomes(h, Handler("usage", "help", plugin, <<>>, <<>>, 0))
    /\ UNCHANGED history

\* pluginHelp: of its answer only the text counts, the actions do not; without an answer the
\* host has a text.
Usage(h) == Alive /\ handlers[h].at = "usage" /\ Over(h)

\* The first of the actions comes to its guards, or all of them at once.
FirstOf(actions) == [i \in DOMAIN actions |-> IF i = 1 THEN "guard" ELSE "later"]
AllOf(actions) == [i \in DOMAIN actions |-> "guard"]

\* The plugin answers, or its call fails, or the answer is refused.
Execute(h) ==
    /\ Alive /\ handlers[h].at = "execute"
    /\ \/ Over(h)
       \/ /\ handlers[h].plugin \in running
          /\ \E a \in Answers \ {<<>>} :
               Becomes(h, Handler("acting", "command", handlers[h].plugin, a, FirstOf(a), 0))
          /\ UNCHANGED history

\* A turn of the agent: the model calls tools, and is asked again, or ends the turn.
Turn(h) ==
    /\ Alive /\ handlers[h] = Waiting
    /\ Becomes(h, Handler("think", "agent", None, <<>>, <<>>, 0))
    /\ UNCHANGED history

Think(h) ==
    /\ Alive /\ handlers[h].at = "think"
    /\ \/ Over(h)
       \/ /\ handlers[h].round < MaxRounds
          /\ \E a \in UNION {[1..n -> Actions] : n \in 1..MaxTools} :
               Becomes(h, Handler("acting", "agent", None, a, AllOf(a), handlers[h].round + 1))
          /\ UNCHANGED history

\* Action i of a handler comes to a step.
WithStep(r, i, step) == [r EXCEPT !.steps = [@ EXCEPT ![i] = step]]

\* The actions of an answer are waited for, all of them; one that failed ends the turn.
Settled(r) ==
    [r EXCEPT !.at = IF \E i \in DOMAIN r.steps : r.steps[i] \in UnderWay THEN "acting"
                     ELSE IF \E i \in DOMAIN r.steps : r.steps[i] = "failed" THEN "over"
                     ELSE "think"]

\* Fault, for the checks: the switch is read for the first action only.
AfterSuccessOnce(h, i) ==
    LET r == WithStep(handlers[h], i, "done")
    IN  IF r.kind = "agent" THEN Settled(r)
        ELSE IF i = Len(r.asked) THEN [r EXCEPT !.at = "over"]
        ELSE WithStep(r, i + 1, "actor")

\* What follows a success ...
AfterSuccess(h, i) ==
    LET r == WithStep(handlers[h], i, "done")
    IN  IF r.kind = "agent" THEN Settled(r)
        ELSE IF i = Len(r.asked) THEN [r EXCEPT !.at = "over"]
        ELSE WithStep(r, i + 1, "guard")

\* Fault, for the checks: the actions after one that failed are tried, too.
GoesOn(h, i) == AfterSuccess(h, i)

\* ... and a failure: a command is at its end.
AfterFailure(h, i) ==
    LET r == WithStep(handlers[h], i, "failed")
    IN  IF r.kind = "agent" THEN Settled(r) ELSE [r EXCEPT !.at = "over"]

Fails(h, i) == Becomes(h, AfterFailure(h, i)) /\ UNCHANGED history
Passes(h, i, step) == Becomes(h, WithStep(handlers[h], i, step)) /\ UNCHANGED history

\* Action i of a handler is at a step.
IsAt(h, i, step) == Alive /\ handlers[h].at = "acting" /\ handlers[h].steps[i] = step

\* The guards of an action: the switch ...
ReadSwitch(h, i) ==
    /\ IsAt(h, i, "guard")
    /\ \/ Fails(h, i)    \* also when the query fails
       \/ phase # "closed" /\ switch # 0 /\ Passes(h, i, "actor")

\* ... who triggered it, and the bot itself.
CheckActor(h, i) ==
    /\ IsAt(h, i, "actor")
    /\ \/ Fails(h, i)    \* also when the query fails
       \/ "actor" \in admins /\ Passes(h, i, "bot")

CheckBot(h, i) ==
    /\ IsAt(h, i, "bot")
    /\ \/ Fails(h, i)
       \/ "bot" \in admins /\ Passes(h, i, "call")

\* onebotAction: to mute for no time is invalid, a mute too long is cut, and a mute of 0
\* takes one back.
Valid(a) == a.op # "mute" \/ a.duration > 0
ApiCall(a) ==
    CASE a.op = "mute" ->
            [api |-> "ban", duration |-> IF a.duration > MaxMute THEN MaxMute ELSE a.duration]
      [] a.op = "unmute" -> [api |-> "ban", duration |-> 0]
      [] a.op \in {"kick", "set_card"} -> [api |-> a.op, duration |-> 0]

\* The platform is called, and refuses or obeys.
Call(h, i) ==
    /\ IsAt(h, i, "call")
    /\ LET action == handlers[h].asked[i]
       IN  IF Valid(action)
           THEN \E ok \in BOOLEAN :
                  /\ made' = [made EXCEPT ![h] = Append(@, [call |-> ApiCall(action), ok |-> ok])]
                  /\ since' = [since EXCEPT ![h] = [g \in Guards |->
                                   IF g \in Fallen THEN @[g] + 1 ELSE @[g]]]
                  /\ UNCHANGED passed
                  /\ Becomes(h, IF ok THEN AfterSuccess(h, i) ELSE AfterFailure(h, i))
           ELSE Fails(h, i)

Act(h, i) == ReadSwitch(h, i) \/ CheckActor(h, i) \/ CheckBot(h, i) \/ Call(h, i)

Handle(h) ==
    \/ Command(h) \/ HelpOfHost(h) \/ HelpOf(h) \/ Usage(h) \/ Execute(h) \/ Turn(h) \/ Think(h)
    \/ \E i \in DOMAIN handlers[h].steps : Act(h, i)

Next ==
    \/ LoadFails \/ Load \/ Started \/ PluginDies
    \/ ClosePlugins \/ CloseStore \/ Return
    \/ SetSwitch \/ Promote \/ Demote
    \/ \E h \in Messages : Handle(h)

Spec == Init /\ [][Next]_vars

-----------------------------------------------------------------------------
(* Properties. *)

\* When an administrator turns the switch off, or the bot or the member loses the role, a
\* handler makes no call any more but those of the actions that had passed that guard: in a
\* command at most one, in a turn of the agent at most the tools of one answer of the model.
GuardsHold ==
    \A h \in Messages : \A g \in Fallen :
        /\ since[h][g] <= passed[h][g]
        /\ handlers[h].kind = "command" => since[h][g] <= 1

\* A call does what its action means: a mute never takes a mute back.
Means(c, a) ==
    CASE a.op = "mute" -> c.api = "ban" /\ c.duration > 0 /\ c.duration <= a.duration
      [] a.op = "unmute" -> c.api = "ban" /\ c.duration = 0
      [] a.op \in {"kick", "set_card"} -> c.api = a.op

\* The calls of a command are the first of the actions its plugin asked for, in order, and
\* the first that the guards or the platform refuse is the last that is tried; those of an
\* answer to /help are not tried.
CommandStopsAtFailure ==
    \A h \in Messages :
        LET asked == handlers[h].asked
        IN  handlers[h].kind \in {"command", "help"} =>
                /\ Len(made[h]) <= Len(asked)
                /\ \A i \in 1..Len(made[h]) :
                    /\ Means(made[h][i].call, asked[i])
                    /\ i < Len(made[h]) => made[h][i].ok

\* When main has returned, no plugin process is left, those of directories whose name or
\* commands were taken included.
NoProcessLeft == phase = "returned" => running = {}

=============================================================================
