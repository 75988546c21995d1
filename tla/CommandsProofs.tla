--------------------------- MODULE CommandsProofs ---------------------------
(***************************************************************************)
(* Proofs about Commands, for every number of messages, plugins, actions   *)
(* and directories: what a guard that fell still lets through, in a        *)
(* command and in the parallel tools of an agent, in what order the        *)
(* actions of a command are tried, and that no plugin process outlives the *)
(* program.                                                                *)
(***************************************************************************)
EXTENDS Commands, FiniteSetTheorems, SequenceTheorems, TLAPS

Action == [op : Operations, duration : Int]
Outcome == [call : [api : {"ban", "kick", "set_card"}, duration : Int], ok : BOOLEAN]
Plugin == Directories \cup {None}
Places == {"waiting", "usage", "execute", "think", "acting", "over"}
Steps == {"later", "guard", "actor", "bot", "call", "done", "failed"}
HandlerSet ==
    [at : Places, kind : {None, "command", "help", "agent"}, plugin : Plugin,
     asked : Seq(Action), steps : Seq(Steps), round : Nat]

\* The set of each variable the invariants speak of.
TypeOK ==
    /\ handles \in Seq(Directories)
    /\ byName \in [Names -> Plugin]
    /\ routes \in [Commands -> Plugin]
    /\ admins \subseteq {"actor", "bot"}
    /\ handlers \in [Messages -> HandlerSet]
    /\ made \in [Messages -> Seq(Outcome)]
    /\ since \in [Messages -> [Guards -> Nat]]
    /\ passed \in [Messages -> [Guards -> Nat]]

\* What a handler is at fits what it handles, every action asked for has its step, and of the
\* actions of a command at most one is under way: those before it succeeded, those after it
\* have not begun.
OneByOne(r) ==
    \A i \in 1..Len(r.steps) : r.steps[i] \in UnderWay =>
        \A j \in 1..Len(r.steps) : /\ j < i => r.steps[j] = "done"
                                   /\ j > i => r.steps[j] = "later"
WellFormed(r) ==
    /\ r.at = "execute" => r.kind = "command"
    /\ r.at = "think" => r.kind = "agent"
    /\ r.at = "acting" => r.kind \in {"command", "agent"}
    /\ Len(r.steps) = Len(r.asked)
    /\ r.kind = "command" /\ r.at = "acting" => OneByOne(r)

Turns == \A h \in Messages : WellFormed(handlers[h])

-----------------------------------------------------------------------------
(* Records of handlers. *)

LEMMA HandlerType ==
    ASSUME NEW at \in Places, NEW kind \in {None, "command", "help", "agent"},
           NEW plugin \in Plugin, NEW asked \in Seq(Action), NEW steps \in Seq(Steps),
           NEW round \in Nat
    PROVE  Handler(at, kind, plugin, asked, steps, round) \in HandlerSet
BY DEF Handler, HandlerSet

LEMMA NoActions ==
    /\ <<>> \in Seq(Action) /\ <<>> \in Seq(Steps) /\ Len(<<>>) = 0
    /\ None \notin {"command", "help", "agent"}
BY EmptySeq, CommandsAssumption

\* To be moved to a place, or with an action at another step, leaves the rest of a handler.
LEMMA Moved ==
    ASSUME NEW r \in HandlerSet, NEW at \in Places
    PROVE  LET q == [r EXCEPT !.at = at]
           IN  /\ q \in HandlerSet /\ q.at = at
               /\ q.kind = r.kind /\ q.plugin = r.plugin /\ q.asked = r.asked
               /\ q.steps = r.steps /\ q.round = r.round
BY DEF HandlerSet

LEMMA Stepped ==
    ASSUME NEW r \in HandlerSet, NEW i \in 1..Len(r.steps), NEW step \in Steps
    PROVE  LET q == WithStep(r, i, step)
           IN  /\ q \in HandlerSet
               /\ q.at = r.at /\ q.kind = r.kind /\ q.plugin = r.plugin /\ q.asked = r.asked
               /\ q.round = r.round
               /\ Len(q.steps) = Len(r.steps) /\ q.steps[i] = step
               /\ \A j \in 1..Len(r.steps) : j # i => q.steps[j] = r.steps[j]
<1> DEFINE s == [r.steps EXCEPT ![i] = step]
<1>1. r.steps \in Seq(Steps)
  BY DEF HandlerSet
<1>2. /\ s \in Seq(Steps) /\ Len(s) = Len(r.steps) /\ s[i] = step
      /\ \A j \in 1..Len(r.steps) : j # i => s[j] = r.steps[j]
  BY <1>1, ExceptSeq
<1>3. WithStep(r, i, step) = [r EXCEPT !.steps = s]
  BY DEF WithStep
<1> HIDE DEF s
<1> QED
  BY <1>2, <1>3 DEF HandlerSet

\* The place of an agent whose actions are waited for.
LEMMA SettledIs ==
    ASSUME NEW r \in HandlerSet
    PROVE  \E at \in {"acting", "over", "think"} : Settled(r) = [r EXCEPT !.at = at]
BY DEF Settled

\* A handler q that results from r when its action i is at its end.
Closes(r, i, q) ==
    /\ q \in HandlerSet
    /\ q.at \in {"acting", "over", "think"}
    /\ q.at = "think" => r.kind = "agent"
    /\ q.kind = r.kind /\ q.asked = r.asked /\ Len(q.steps) = Len(r.steps)
    /\ q.steps[i] \in {"done", "failed"}
    /\ \A j \in 1..Len(r.steps) : q.steps[j] = r.steps[j] \/ q.steps[j] = "guard" \/ j = i

\* In a command the next action follows, and only after a success.
Follows(r, i, q) ==
    r.kind = "command" /\ q.at = "acting" =>
        /\ i + 1 <= Len(r.steps)
        /\ q.steps[i] = "done" /\ q.steps[i + 1] = "guard"
        /\ \A j \in 1..Len(r.steps) : j \notin {i, i + 1} => q.steps[j] = r.steps[j]

LEMMA AfterSuccessIs ==
    ASSUME NEW h \in Messages, handlers[h] \in HandlerSet, WellFormed(handlers[h]),
           handlers[h].at = "acting", NEW i \in 1..Len(handlers[h].steps)
    PROVE  Closes(handlers[h], i, AfterSuccess(h, i)) /\ Follows(handlers[h], i, AfterSuccess(h, i))
<1> DEFINE now == handlers[h]
           r == WithStep(now, i, "done")
<1>1. /\ r \in HandlerSet /\ r.at = "acting" /\ r.kind = now.kind /\ r.asked = now.asked
      /\ Len(r.steps) = Len(now.steps) /\ r.steps[i] = "done"
      /\ \A j \in 1..Len(now.steps) : j # i => r.steps[j] = now.steps[j]
  BY Stepped DEF Steps
<1>2. /\ Len(now.steps) = Len(now.asked) /\ now.kind \in {"command", "agent"}
      /\ Len(now.steps) \in Nat
  BY LenProperties DEF WellFormed, HandlerSet
<1>3. AfterSuccess(h, i) = IF r.kind = "agent" THEN Settled(r)
                           ELSE IF i = Len(r.asked) THEN [r EXCEPT !.at = "over"]
                           ELSE WithStep(r, i + 1, "guard")
  BY DEF AfterSuccess
<1> HIDE DEF r, now
<1>4. CASE now.kind = "agent"
  <2>1. PICK at \in {"acting", "over", "think"} : Settled(r) = [r EXCEPT !.at = at]
    BY <1>1, SettledIs
  <2>2. at \in Places
    BY DEF Places
  <2> QED
    BY <1>1, <1>2, <1>3, <1>4, <2>1, <2>2, Moved DEF Closes, Follows, now
<1>5. CASE now.kind = "command" /\ i = Len(r.asked)
  <2>1. AfterSuccess(h, i) = [r EXCEPT !.at = "over"] /\ "over" \in Places
    BY <1>1, <1>3, <1>5 DEF Places
  <2> QED
    BY <1>1, <1>2, <1>5, <2>1, Moved DEF Closes, Follows, now
<1>6. CASE now.kind = "command" /\ i # Len(r.asked)
  <2>1. AfterSuccess(h, i) = WithStep(r, i + 1, "guard")
    BY <1>1, <1>3, <1>6
  <2>2. i + 1 \in 1..Len(r.steps) /\ "guard" \in Steps
    BY <1>1, <1>2, <1>6 DEF Steps, now
  <2> DEFINE q == WithStep(r, i + 1, "guard")
  <2>3. /\ q \in HandlerSet /\ q.at = r.at /\ q.kind = r.kind /\ q.asked = r.asked
        /\ Len(q.steps) = Len(r.steps) /\ q.steps[i + 1] = "guard"
        /\ \A j \in 1..Len(r.steps) : j # i + 1 => q.steps[j] = r.steps[j]
    BY <1>1, <2>2, Stepped
  <2> HIDE DEF q
  <2>4. q.steps[i] = "done" /\ i # i + 1
    BY <1>1, <2>3 DEF now
  <2>5. Closes(now, i, q)
    BY <1>1, <2>3, <2>4 DEF Closes
  <2>6. Follows(now, i, q)
    BY <1>1, <1>2, <2>2, <2>3, <2>4 DEF Follows
  <2> QED
    BY <2>1, <2>5, <2>6 DEF q, now
<1> QED
  BY <1>2, <1>4, <1>5, <1>6

LEMMA AfterFailureIs ==
    ASSUME NEW h \in Messages, handlers[h] \in HandlerSet, WellFormed(handlers[h]),
           handlers[h].at = "acting", NEW i \in 1..Len(handlers[h].steps)
    PROVE  /\ Closes(handlers[h], i, AfterFailure(h, i))
           /\ handlers[h].kind = "command" => AfterFailure(h, i).at = "over"
<1> DEFINE now == handlers[h]
           r == WithStep(now, i, "failed")
<1>1. /\ r \in HandlerSet /\ r.at = "acting" /\ r.kind = now.kind /\ r.asked = now.asked
      /\ Len(r.steps) = Len(now.steps) /\ r.steps[i] = "failed"
      /\ \A j \in 1..Len(now.steps) : j # i => r.steps[j] = now.steps[j]
  BY Stepped DEF Steps
<1>2. AfterFailure(h, i) = IF r.kind = "agent" THEN Settled(r) ELSE [r EXCEPT !.at = "over"]
  BY DEF AfterFailure
<1>3. now.kind \in {"command", "agent"}
  BY DEF WellFormed
<1> HIDE DEF r, now
<1>4. CASE now.kind = "agent"
  <2>1. PICK at \in {"acting", "over", "think"} : Settled(r) = [r EXCEPT !.at = at]
    BY <1>1, SettledIs
  <2>2. at \in Places
    BY DEF Places
  <2> QED
    BY <1>1, <1>2, <1>4, <2>1, <2>2, Moved DEF Closes, now
<1>5. CASE now.kind = "command"
  <2>1. AfterFailure(h, i) = [r EXCEPT !.at = "over"] /\ "over" \in Places
    BY <1>1, <1>2, <1>5 DEF Places
  <2> QED
    BY <1>1, <1>5, <2>1, Moved DEF Closes, now
<1> QED
  BY <1>3, <1>4, <1>5

\* The beginning of the actions of a command, or of an answer of the model.
LEMMA FirstIs ==
    ASSUME NEW a \in Seq(Action)
    PROVE  /\ FirstOf(a) \in Seq(Steps) /\ Len(FirstOf(a)) = Len(a)
           /\ \A i \in 1..Len(a) : FirstOf(a)[i] = IF i = 1 THEN "guard" ELSE "later"
           /\ AllOf(a) \in Seq(Steps) /\ Len(AllOf(a)) = Len(a)
           /\ \A i \in 1..Len(a) : AllOf(a)[i] = "guard"
<1>1. Len(a) \in Nat /\ DOMAIN a = 1..Len(a)
  BY LenProperties
<1>2. /\ FirstOf(a) = [i \in 1..Len(a) |-> IF i = 1 THEN "guard" ELSE "later"]
      /\ AllOf(a) = [i \in 1..Len(a) |-> "guard"]
  BY <1>1 DEF FirstOf, AllOf
<1>3. FirstOf(a) \in Seq(Steps) /\ AllOf(a) \in Seq(Steps)
  BY <1>1, <1>2, IsASeq DEF Steps
<1> QED
  BY <1>1, <1>2, <1>3, LenProperties

-----------------------------------------------------------------------------
(* The steps of a handler. *)

LEMMA LookedUpType ==
    ASSUME TypeOK, NEW topic
    PROVE  LookedUp(topic) \subseteq Directories
<1>1. \A n \in Names : byName[n] \in Directories \cup {None}
  BY DEF TypeOK, Plugin
<1>2. \A c \in Commands : routes[c] \in Directories \cup {None}
  BY DEF TypeOK, Plugin
<1> HIDE DEF TypeOK
<1> QED
  BY <1>1, <1>2 DEF LookedUp

\* A step of a handler that calls nobody ...
Silent(h, q) == Becomes(h, q) /\ UNCHANGED history

\* ... before or after its actions, ...
Elsewhere(r, q) ==
    /\ \/ r = Waiting /\ q.at \in {"execute", "over"} /\ q.kind = "command"
       \/ r = Waiting /\ q.at \in {"usage", "over"} /\ q.kind = "help"
       \/ r = Waiting /\ q.at = "think" /\ q.kind = "agent"
       \/ r.at \in {"usage", "execute", "think"} /\ q.at = "over" /\ q.kind = r.kind
    /\ Len(q.steps) = Len(q.asked)

\* ... to the actions, ...
Begins(r, q) ==
    /\ q.at = "acting" /\ Len(q.steps) = Len(q.asked)
    /\ \/ r.at = "execute" /\ q.kind = "command" /\ q.steps = FirstOf(q.asked)
       \/ r.at = "think" /\ q.kind = "agent" /\ q.steps = AllOf(q.asked)

\* ... past a guard of one of them, or to its failure.
Advances(r, i, q) ==
    /\ r.at = "acting"
    /\ \/ r.steps[i] = "guard" /\ "switch" \notin Fallen /\ q = WithStep(r, i, "actor")
       \/ r.steps[i] = "actor" /\ "actor" \notin Fallen /\ q = WithStep(r, i, "bot")
       \/ r.steps[i] = "bot" /\ "bot" \notin Fallen /\ q = WithStep(r, i, "call")
Breaks(h, i, q) ==
    handlers[h].at = "acting" /\ handlers[h].steps[i] \in UnderWay /\ q = AfterFailure(h, i)

\* The step that calls the platform.
Called(h, i, ok) ==
    /\ handlers[h].at = "acting" /\ handlers[h].steps[i] = "call"
    /\ Valid(handlers[h].asked[i])
    /\ made' = [made EXCEPT ![h] = Append(@, [call |-> ApiCall(handlers[h].asked[i]), ok |-> ok])]
    /\ since' = [since EXCEPT ![h] = [g \in Guards |-> IF g \in Fallen THEN @[g] + 1 ELSE @[g]]]
    /\ UNCHANGED passed
    /\ Becomes(h, IF ok THEN AfterSuccess(h, i) ELSE AfterFailure(h, i))

LEMMA StartSteps ==
    ASSUME TypeOK, Turns, NEW h \in Messages,
           Command(h) \/ HelpOfHost(h) \/ HelpOf(h) \/ Usage(h) \/ Execute(h) \/ Turn(h) \/ Think(h)
    PROVE  \E q \in HandlerSet :
             Silent(h, q) /\ (Elsewhere(handlers[h], q) \/ Begins(handlers[h], q))
<1> DEFINE now == handlers[h]
<1>1. now \in HandlerSet /\ Len(now.steps) = Len(now.asked)
  BY DEF TypeOK, Turns, WellFormed
<1>2. None \in Plugin /\ 0 \in Nat
  BY DEF Plugin
<1>3. CASE Command(h)
  <2>1. PICK c \in Commands :
          Becomes(h, Handler(IF routes[c] = None THEN "over" ELSE "execute",
                             "command", routes[c], <<>>, <<>>, 0))
    BY <1>3 DEF Command
  <2> DEFINE q == Handler(IF routes[c] = None THEN "over" ELSE "execute",
                          "command", routes[c], <<>>, <<>>, 0)
  <2>2. routes[c] \in Plugin
    BY DEF TypeOK
  <2>3. q \in HandlerSet
    BY <2>2, HandlerType, NoActions DEF Places
  <2>4. q.at \in {"over", "execute"} /\ q.kind = "command" /\ q.steps = <<>> /\ q.asked = <<>>
    BY DEF Handler
  <2> HIDE DEF q
  <2>5. Silent(h, q) /\ now = Waiting
    BY <1>3, <2>1 DEF Command, Silent, q
  <2> QED
    BY <2>3, <2>4, <2>5 DEF Elsewhere
<1>4. CASE HelpOfHost(h)
  <2> DEFINE q == Handler("over", "help", None, <<>>, <<>>, 0)
  <2>1. q \in HandlerSet
    BY <1>2, HandlerType, NoActions DEF Places
  <2>2. q.at = "over" /\ q.kind = "help" /\ q.steps = <<>> /\ q.asked = <<>>
    BY DEF Handler
  <2> HIDE DEF q
  <2>3. Silent(h, q) /\ now = Waiting
    BY <1>4 DEF HelpOfHost, Silent, q
  <2> QED
    BY <2>1, <2>2, <2>3 DEF Elsewhere
<1>5. CASE HelpOf(h)
  <2>1. PICK topic \in Topics : \E plugin \in LookedUp(topic) :
          Becomes(h, Handler("usage", "help", plugin, <<>>, <<>>, 0))
    BY <1>5 DEF HelpOf
  <2>2. PICK plugin \in LookedUp(topic) :
          Becomes(h, Handler("usage", "help", plugin, <<>>, <<>>, 0))
    BY <2>1
  <2> DEFINE q == Handler("usage", "help", plugin, <<>>, <<>>, 0)
  <2>3. plugin \in Plugin
    BY LookedUpType DEF Plugin
  <2>4. q \in HandlerSet
    BY <2>3, HandlerType, NoActions DEF Places
  <2>5. q.at = "usage" /\ q.kind = "help" /\ q.steps = <<>> /\ q.asked = <<>>
    BY DEF Handler
  <2> HIDE DEF q
  <2>6. Silent(h, q) /\ now = Waiting
    BY <1>5, <2>2 DEF HelpOf, Silent, q
  <2> QED
    BY <2>4, <2>5, <2>6 DEF Elsewhere
<1>6. CASE Turn(h)
  <2> DEFINE q == Handler("think", "agent", None, <<>>, <<>>, 0)
  <2>1. q \in HandlerSet
    BY <1>2, HandlerType, NoActions DEF Places
  <2>2. q.at = "think" /\ q.kind = "agent" /\ q.steps = <<>> /\ q.asked = <<>>
    BY DEF Handler
  <2> HIDE DEF q
  <2>3. Silent(h, q) /\ now = Waiting
    BY <1>6 DEF Turn, Silent, q
  <2> QED
    BY <2>1, <2>2, <2>3 DEF Elsewhere
<1>7. CASE Over(h) /\ now.at \in {"usage", "execute", "think"}
  <2> DEFINE q == [now EXCEPT !.at = "over"]
  <2>1. Silent(h, q)
    BY <1>7 DEF Over, GoesTo, Silent
  <2>2. q \in HandlerSet /\ q.at = "over" /\ q.kind = now.kind /\ Len(q.steps) = Len(q.asked)
    BY <1>1, Moved DEF Places
  <2> HIDE DEF q
  <2> QED
    BY <1>7, <2>1, <2>2 DEF Elsewhere
<1>8. CASE Usage(h)
  BY <1>7, <1>8 DEF Usage
<1>9. CASE Execute(h) /\ ~ Over(h)
  <2>1. PICK a \in Answers \ {<<>>} :
          Silent(h, Handler("acting", "command", now.plugin, a, FirstOf(a), 0))
    BY <1>9 DEF Execute, Silent
  <2> DEFINE q == Handler("acting", "command", now.plugin, a, FirstOf(a), 0)
  <2>2. a \in Seq(Action) /\ now.plugin \in Plugin
    BY <1>1, CommandsAssumption DEF Action, HandlerSet
  <2>3. FirstOf(a) \in Seq(Steps) /\ Len(FirstOf(a)) = Len(a)
    BY <2>2, FirstIs
  <2>4. q \in HandlerSet
    BY <2>2, <2>3, HandlerType DEF Places
  <2>5. q.at = "acting" /\ q.kind = "command" /\ q.steps = FirstOf(a) /\ q.asked = a
    BY DEF Handler
  <2>6. now.at = "execute"
    BY <1>9 DEF Execute
  <2> HIDE DEF q, now
  <2>7. Begins(now, q)
    BY <2>3, <2>5, <2>6 DEF Begins
  <2> QED
    BY <2>1, <2>4, <2>7 DEF q, now
<1>10. CASE Think(h) /\ ~ Over(h)
  <2>1. PICK a \in UNION {[1..n -> Actions] : n \in 1..MaxTools} :
          Silent(h, Handler("acting", "agent", None, a, AllOf(a), now.round + 1))
    BY <1>10 DEF Think, Silent
  <2> DEFINE q == Handler("acting", "agent", None, a, AllOf(a), now.round + 1)
  <2>2. a \in Seq(Action) /\ now.round + 1 \in Nat
    <3>1. PICK n \in 1..MaxTools : a \in [1..n -> Actions]
      OBVIOUS
    <3>2. \A k \in 1..n : a[k] \in Action
      BY <3>1, CommandsAssumption DEF Action
    <3>3. n \in Nat /\ a = [k \in 1..n |-> a[k]]
      BY <3>1, CommandsAssumption
    <3>4. [k \in 1..n |-> a[k]] \in Seq(Action)
      BY <3>2, <3>3, IsASeq
    <3>5. now.round + 1 \in Nat
      BY <1>1 DEF HandlerSet
    <3> QED
      BY <3>3, <3>4, <3>5
  <2>3. AllOf(a) \in Seq(Steps) /\ Len(AllOf(a)) = Len(a)
    BY <2>2, FirstIs
  <2>4. q \in HandlerSet
    BY <1>2, <2>2, <2>3, HandlerType DEF Places
  <2>5. q.at = "acting" /\ q.kind = "agent" /\ q.steps = AllOf(a) /\ q.asked = a
    BY DEF Handler
  <2>6. now.at = "think"
    BY <1>10 DEF Think
  <2> HIDE DEF q, now
  <2>7. Begins(now, q)
    BY <2>3, <2>5, <2>6 DEF Begins
  <2> QED
    BY <2>1, <2>4, <2>7 DEF q, now
<1>11. CASE (Execute(h) \/ Think(h)) /\ Over(h)
  BY <1>7, <1>11 DEF Execute, Think
<1> QED
  BY <1>3, <1>4, <1>5, <1>6, <1>8, <1>9, <1>10, <1>11

LEMMA ActionSteps ==
    ASSUME TypeOK, Turns, NEW h \in Messages, NEW i \in DOMAIN handlers[h].steps, Act(h, i)
    PROVE  /\ i \in 1..Len(handlers[h].steps)
           /\ \/ \E q \in HandlerSet :
                   Silent(h, q) /\ (Advances(handlers[h], i, q) \/ Breaks(h, i, q))
              \/ \E ok \in BOOLEAN : Called(h, i, ok)
<1> DEFINE now == handlers[h]
<1>1. now \in HandlerSet /\ WellFormed(now) /\ now.at = "acting" /\ now.steps[i] \in UnderWay
  BY DEF TypeOK, Turns, Act, ReadSwitch, CheckActor, CheckBot, Call, IsAt, UnderWay
<1>2. i \in 1..Len(now.steps)
  BY <1>1, LenProperties DEF HandlerSet
<1>3. CASE Fails(h, i)
  <2>1. AfterFailure(h, i) \in HandlerSet
    BY <1>1, <1>2, AfterFailureIs DEF Closes
  <2> QED
    BY <1>1, <1>2, <1>3, <2>1 DEF Fails, Silent, Breaks
<1>4. ASSUME NEW step \in {"actor", "bot", "call"}, Passes(h, i, step),
             Advances(now, i, WithStep(now, i, step))
      PROVE  \E q \in HandlerSet : Silent(h, q) /\ Advances(now, i, q)
  <2>1. WithStep(now, i, step) \in HandlerSet
    BY <1>1, <1>2, Stepped DEF Steps
  <2> QED
    BY <1>4, <2>1 DEF Passes, Silent
<1>5. CASE ReadSwitch(h, i) /\ ~ Fails(h, i)
  <2>1. Passes(h, i, "actor") /\ switch # 0 /\ now.steps[i] = "guard"
    BY <1>5 DEF ReadSwitch, IsAt
  <2>2. Advances(now, i, WithStep(now, i, "actor"))
    BY <1>1, <2>1 DEF Advances, Fallen
  <2> QED
    BY <1>2, <1>4, <2>1, <2>2
<1>6. CASE CheckActor(h, i) /\ ~ Fails(h, i)
  <2>1. Passes(h, i, "bot") /\ "actor" \in admins /\ now.steps[i] = "actor"
    BY <1>6 DEF CheckActor, IsAt
  <2>2. Advances(now, i, WithStep(now, i, "bot"))
    BY <1>1, <2>1 DEF Advances, Fallen
  <2> QED
    BY <1>2, <1>4, <2>1, <2>2
<1>7. CASE CheckBot(h, i) /\ ~ Fails(h, i)
  <2>1. Passes(h, i, "call") /\ "bot" \in admins /\ now.steps[i] = "bot"
    BY <1>7 DEF CheckBot, IsAt
  <2>2. Advances(now, i, WithStep(now, i, "call"))
    BY <1>1, <2>1 DEF Advances, Fallen
  <2> QED
    BY <1>2, <1>4, <2>1, <2>2
<1>8. CASE Call(h, i) /\ ~ Fails(h, i)
  BY <1>2, <1>8 DEF Call, IsAt, Called
<1> QED
  BY <1>2, <1>3, <1>5, <1>6, <1>7, <1>8 DEF Act

\* A step of a handler changes it alone.
LEMMA BecomesType ==
    ASSUME TypeOK, NEW h \in Messages, NEW q \in HandlerSet, Becomes(h, q)
    PROVE  /\ handlers' \in [Messages -> HandlerSet]
           /\ handlers'[h] = q
           /\ \A k \in Messages : k # h => handlers'[k] = handlers[k]
           /\ UNCHANGED <<handles, byName, routes, switch, admins>>
BY DEF TypeOK, Becomes, plugins

\* The handler after a call, and that it is one.
LEMMA CalledIs ==
    ASSUME TypeOK, Turns, NEW h \in Messages, NEW i \in 1..Len(handlers[h].steps),
           NEW ok \in BOOLEAN, Called(h, i, ok)
    PROVE  LET q == IF ok THEN AfterSuccess(h, i) ELSE AfterFailure(h, i)
           IN  /\ q \in HandlerSet /\ Becomes(h, q) /\ Closes(handlers[h], i, q)
               /\ Follows(handlers[h], i, q)
               /\ ~ ok /\ handlers[h].kind = "command" => q.at = "over"
<1> DEFINE q == IF ok THEN AfterSuccess(h, i) ELSE AfterFailure(h, i)
<1>1. handlers[h] \in HandlerSet /\ WellFormed(handlers[h]) /\ handlers[h].at = "acting"
  BY DEF TypeOK, Turns, Called
<1>2. Becomes(h, q)
  BY DEF Called
<1>3. CASE ok
  BY <1>1, <1>2, <1>3, AfterSuccessIs DEF Closes
<1>4. CASE ~ ok
  <2>1. Follows(handlers[h], i, AfterFailure(h, i))
    BY <1>1, AfterFailureIs DEF Follows
  <2> QED
    BY <1>1, <1>2, <1>4, <2>1, AfterFailureIs DEF Closes
<1> QED
  BY <1>3, <1>4

\* The ways a handler steps.
LEMMA HandleSteps ==
    ASSUME TypeOK, Turns, NEW h \in Messages, Handle(h)
    PROVE  \/ \E q \in HandlerSet :
                /\ Silent(h, q)
                /\ \/ Elsewhere(handlers[h], q) \/ Begins(handlers[h], q)
                   \/ \E i \in 1..Len(handlers[h].steps) :
                          Advances(handlers[h], i, q) \/ Breaks(h, i, q)
           \/ \E i \in 1..Len(handlers[h].steps), ok \in BOOLEAN : Called(h, i, ok)
<1>1. CASE \E i \in DOMAIN handlers[h].steps : Act(h, i)
  BY <1>1, ActionSteps
<1>2. CASE ~ \E i \in DOMAIN handlers[h].steps : Act(h, i)
  BY <1>2, StartSteps DEF Handle
<1> QED
  BY <1>1, <1>2

\* The steps that no handler takes: what they do to the guards, and to the handlers.
LEMMA OtherSteps ==
    ASSUME TypeOK, Next, ~ \E h \in Messages : Handle(h)
    PROVE  /\ handles' \in Seq(Directories)
           /\ byName' \in [Names -> Plugin]
           /\ routes' \in [Commands -> Plugin]
           /\ admins' \subseteq {"actor", "bot"}
           /\ UNCHANGED made
           /\ UNCHANGED handlers \/ handlers' = [h \in Messages |-> Ended]
           /\ \/ UNCHANGED <<since, passed>> /\ Fallen' = Fallen
              \/ /\ UNCHANGED handlers
                 /\ \E g \in Guards : \/ Falls(g) /\ Fallen' \subseteq Fallen \cup {g}
                                      \/ Rises(g) /\ Fallen' \subseteq Fallen \ {g}
<1>1. CASE Load
  <2>1. next \in Directories
    BY <1>1 DEF Load
  <2>2. handles' \in Seq(Directories)
    BY <1>1, <2>1, AppendProperties DEF Load, TypeOK
  <2>3. byName' \in [Names -> Plugin] /\ routes' \in [Commands -> Plugin]
    BY <1>1, <2>1 DEF Load, TypeOK, Plugin
  <2>4. UNCHANGED <<switch, admins, handlers, made, since, passed>>
    BY <1>1 DEF Load, history
  <2>5. Fallen' = Fallen
    BY <2>4 DEF Fallen
  <2> QED
    BY <2>2, <2>3, <2>4, <2>5 DEF TypeOK
<1>2. CASE LoadFails \/ Started \/ PluginDies \/ ClosePlugins \/ CloseStore
  <2>1. UNCHANGED <<handles, byName, routes, switch, admins, handlers, made, since, passed>>
    BY <1>2 DEF LoadFails, Started, PluginDies, ClosePlugins, CloseStore, plugins, history
  <2>2. Fallen' = Fallen
    BY <2>1 DEF Fallen
  <2> QED
    BY <2>1, <2>2 DEF TypeOK
<1>3. CASE Return
  <2>1. UNCHANGED <<handles, byName, routes, switch, admins, made, since, passed>>
    BY <1>3 DEF Return, plugins, history
  <2>2. handlers' = [h \in Messages |-> Ended]
    BY <1>3 DEF Return
  <2>3. Fallen' = Fallen
    BY <2>1 DEF Fallen
  <2> QED
    BY <2>1, <2>2, <2>3 DEF TypeOK
<1>4. CASE SetSwitch
  <2>1. UNCHANGED <<handles, byName, routes, made, handlers, admins>>
    BY <1>4 DEF SetSwitch, plugins
  <2>2. "switch" \in Guards
    BY DEF Guards
  <2>3. CASE switch' = 0
    <3>1. Falls("switch") /\ Fallen' \subseteq Fallen \cup {"switch"}
      BY <1>4, <2>1, <2>3 DEF SetSwitch, Fallen
    <3> QED
      BY <2>1, <2>2, <3>1 DEF TypeOK
  <2>4. CASE switch' # 0
    <3>1. Rises("switch") /\ Fallen' \subseteq Fallen \ {"switch"}
      BY <1>4, <2>1, <2>4 DEF SetSwitch, Fallen, TypeOK
    <3> QED
      BY <2>1, <2>2, <3>1 DEF TypeOK
  <2> QED
    BY <2>3, <2>4
<1>5. CASE Promote
  <2>1. PICK m \in {"actor", "bot"} \ admins : admins' = admins \cup {m} /\ Rises(m)
    BY <1>5 DEF Promote
  <2>2. UNCHANGED <<handles, byName, routes, made, handlers, switch>>
    BY <1>5 DEF Promote, plugins
  <2>3. m \in Guards /\ Fallen' \subseteq Fallen \ {m}
    BY <2>1, <2>2 DEF Fallen, Guards
  <2> QED
    BY <2>1, <2>2, <2>3 DEF TypeOK
<1>6. CASE Demote
  <2>1. PICK m \in admins : admins' = admins \ {m} /\ Falls(m)
    BY <1>6 DEF Demote
  <2>2. UNCHANGED <<handles, byName, routes, made, handlers, switch>>
    BY <1>6 DEF Demote, plugins
  <2>3. m \in Guards /\ Fallen' \subseteq Fallen \cup {m}
    BY <2>1, <2>2 DEF Fallen, Guards, TypeOK
  <2> QED
    BY <2>1, <2>2, <2>3 DEF TypeOK
<1> QED
  BY <1>1, <1>2, <1>3, <1>4, <1>5, <1>6 DEF Next

\* How many actions have passed a guard is a number.
LEMMA PastFinite ==
    ASSUME NEW r \in HandlerSet, NEW g
    PROVE  /\ Past(r, g) \subseteq 1..Len(r.steps)
           /\ IsFiniteSet(Past(r, g)) /\ Cardinality(Past(r, g)) \in Nat
<1>1. Len(r.steps) \in Nat /\ DOMAIN r.steps = 1..Len(r.steps)
  BY LenProperties DEF HandlerSet
<1>2. Past(r, g) \subseteq 1..Len(r.steps)
  BY <1>1 DEF Past
<1>3. IsFiniteSet(1..Len(r.steps))
  BY <1>1, FS_Interval
<1> QED
  BY <1>2, <1>3, FS_Subset, FS_CardinalityType

\* An action that is under way is one of those asked for.
LEMMA AskedType ==
    ASSUME TypeOK, Turns, NEW h \in Messages, NEW i \in 1..Len(handlers[h].steps)
    PROVE  handlers[h].asked[i] \in Action
<1>1. handlers[h].asked \in Seq(Action) /\ i \in 1..Len(handlers[h].asked)
  BY DEF TypeOK, HandlerSet, Turns, WellFormed
<1> QED
  BY <1>1, ElementOfSeq

\* A valid action leads to a call that does what the action means.
LEMMA CallMeans ==
    ASSUME NEW a \in Action, Valid(a)
    PROVE  /\ ApiCall(a) \in [api : {"ban", "kick", "set_card"}, duration : Int]
           /\ Means(ApiCall(a), a)
<1>1. a.op \in Operations /\ a.duration \in Int
  BY DEF Action
<1>2. CASE a.op = "mute"
  BY <1>1, <1>2, CommandsAssumption DEF ApiCall, Valid, Means
<1>3. CASE a.op = "unmute"
  BY <1>1, <1>3 DEF ApiCall, Means
<1>4. CASE a.op = "kick"
  BY <1>4 DEF ApiCall, Means
<1>5. CASE a.op = "set_card"
  BY <1>5 DEF ApiCall, Means
<1> QED
  BY <1>1, <1>2, <1>3, <1>4, <1>5 DEF Operations

-----------------------------------------------------------------------------
(* The types. *)

LEMMA WaitingType == Waiting \in HandlerSet /\ Ended \in HandlerSet
BY HandlerType, NoActions DEF Waiting, Ended, Places, Plugin

LEMMA TypeInit == Init => TypeOK
<1> SUFFICES ASSUME Init
             PROVE  TypeOK
  OBVIOUS
<1>1. handlers \in [Messages -> HandlerSet]
  BY WaitingType DEF Init
<1>2. made \in [Messages -> Seq(Outcome)] /\ handles \in Seq(Directories)
  BY EmptySeq DEF Init
<1>3. since \in [Messages -> [Guards -> Nat]] /\ passed \in [Messages -> [Guards -> Nat]]
  BY DEF Init
<1>4. byName \in [Names -> Plugin] /\ routes \in [Commands -> Plugin]
  BY DEF Init, Plugin
<1>5. admins \subseteq {"actor", "bot"}
  BY DEF Init
<1> QED
  BY <1>1, <1>2, <1>3, <1>4, <1>5 DEF TypeOK

\* Counts with those of one guard replaced are counts.
LEMMA CountsType ==
    ASSUME NEW counts \in [Messages -> [Guards -> Nat]], NEW g
    PROVE  /\ [h \in Messages |-> [counts[h] EXCEPT ![g] = 0]] \in [Messages -> [Guards -> Nat]]
           /\ \A n \in [Messages -> Nat] :
                  [h \in Messages |-> [counts[h] EXCEPT ![g] = n[h]]]
                      \in [Messages -> [Guards -> Nat]]
<1>1. \A h \in Messages : \A k \in Nat : [counts[h] EXCEPT ![g] = k] \in [Guards -> Nat]
  OBVIOUS
<1> QED
  BY <1>1

LEMMA TypeNext == TypeOK /\ Turns /\ [Next]_vars => TypeOK'
<1> SUFFICES ASSUME TypeOK, Turns, [Next]_vars
             PROVE  TypeOK'
  OBVIOUS
<1>1. ASSUME NEW h \in Messages, NEW q \in HandlerSet, Silent(h, q)
      PROVE  TypeOK'
  <2>1. UNCHANGED <<made, since, passed, admins>>
    BY <1>1 DEF Silent, Becomes, history
  <2> QED
    BY <1>1, <2>1, BecomesType DEF Silent, TypeOK
<1>2. ASSUME NEW h \in Messages, NEW i \in 1..Len(handlers[h].steps), NEW ok \in BOOLEAN,
             Called(h, i, ok)
      PROVE  TypeOK'
  <2> DEFINE outcome == [call |-> ApiCall(handlers[h].asked[i]), ok |-> ok]
             q == IF ok THEN AfterSuccess(h, i) ELSE AfterFailure(h, i)
  <2>1. outcome \in Outcome
    BY <1>2, AskedType, CallMeans DEF Outcome, Called
  <2>2. made' \in [Messages -> Seq(Outcome)]
    <3>1. Append(made[h], outcome) \in Seq(Outcome)
      BY <2>1, AppendProperties DEF TypeOK
    <3> QED
      BY <1>2, <3>1 DEF Called, TypeOK
  <2>3. since' \in [Messages -> [Guards -> Nat]] /\ passed' = passed
    BY <1>2 DEF Called, TypeOK
  <2>4. q \in HandlerSet /\ Becomes(h, q)
    BY <1>2, CalledIs
  <2> HIDE DEF q
  <2>5. admins' = admins
    BY <2>4 DEF Becomes
  <2> QED
    BY <2>2, <2>3, <2>4, <2>5, BecomesType DEF TypeOK
<1>3. CASE Next /\ ~ \E h \in Messages : Handle(h)
  <2>1. handlers' \in [Messages -> HandlerSet]
    BY <1>3, OtherSteps, WaitingType DEF TypeOK
  <2>2. since' \in [Messages -> [Guards -> Nat]] /\ passed' \in [Messages -> [Guards -> Nat]]
    <3>1. CASE UNCHANGED <<since, passed>>
      BY <3>1 DEF TypeOK
    <3>2. CASE \E g \in Guards : Falls(g) \/ Rises(g)
      <4>1. PICK g \in Guards : Falls(g) \/ Rises(g)
        BY <3>2
      <4>2. \A h \in Messages : Cardinality(Past(handlers[h], g)) \in Nat
        BY PastFinite DEF TypeOK
      <4>3. since' \in [Messages -> [Guards -> Nat]]
        <5>1. since' = [h \in Messages |-> [since[h] EXCEPT ![g] = 0]]
          BY <4>1 DEF Falls, Rises
        <5> QED
          BY <5>1, CountsType DEF TypeOK
      <4> DEFINE past == [h \in Messages |-> Cardinality(Past(handlers[h], g))]
      <4>4. past \in [Messages -> Nat]
        BY <4>2
      <4>5. \/ passed' = [h \in Messages |-> [passed[h] EXCEPT ![g] = past[h]]]
            \/ passed' = [h \in Messages |-> [passed[h] EXCEPT ![g] = 0]]
        BY <4>1 DEF Falls, Rises
      <4> HIDE DEF past
      <4>6. passed' \in [Messages -> [Guards -> Nat]]
        BY <4>4, <4>5, CountsType DEF TypeOK
      <4> QED
        BY <4>3, <4>6
    <3> QED
      BY <1>3, <3>1, <3>2, OtherSteps
  <2> QED
    BY <1>3, <2>1, <2>2, OtherSteps DEF TypeOK
<1>4. CASE UNCHANGED vars
  BY <1>4 DEF vars, plugins, history, TypeOK
<1> QED
  BY <1>1, <1>2, <1>3, <1>4, HandleSteps

LEMMA TurnsInit == Init => Turns
BY NoActions DEF Init, Turns, WellFormed, Waiting, Handler

\* Wherever a step leads, the handler is well formed there.
LEMMA StartWellFormed ==
    ASSUME NEW r \in HandlerSet, WellFormed(r), NEW q \in HandlerSet,
           Elsewhere(r, q) \/ Begins(r, q)
    PROVE  WellFormed(q)
<1>1. CASE Elsewhere(r, q)
  BY <1>1, NoActions DEF Elsewhere, WellFormed
<1>2. CASE Begins(r, q)
  <2>1. q.kind \in {"command", "agent"} /\ q.at = "acting" /\ Len(q.steps) = Len(q.asked)
    BY <1>2 DEF Begins
  <2>2. ASSUME q.kind = "command"
        PROVE  OneByOne(q)
    <3>1. q.asked \in Seq(Action) /\ q.steps = FirstOf(q.asked)
      BY <1>2, <2>2 DEF Begins, HandlerSet
    <3>2. Len(q.asked) \in Nat
      BY <3>1, LenProperties
    <3>3. \A i \in 1..Len(q.steps) : q.steps[i] = IF i = 1 THEN "guard" ELSE "later"
      BY <2>1, <3>1, FirstIs
    <3> QED
      BY <2>1, <3>2, <3>3 DEF OneByOne, UnderWay
  <2> QED
    BY <2>1, <2>2, NoActions DEF WellFormed
<1> QED
  BY <1>1, <1>2

LEMMA AdvanceWellFormed ==
    ASSUME NEW r \in HandlerSet, WellFormed(r), NEW i \in 1..Len(r.steps), NEW q,
           Advances(r, i, q)
    PROVE  WellFormed(q) /\ q.kind = r.kind /\ q.asked = r.asked /\ q.at = "acting"
<1>1. PICK step \in {"actor", "bot", "call"} : q = WithStep(r, i, step)
  BY DEF Advances
<1>2. /\ q.at = r.at /\ q.kind = r.kind /\ q.asked = r.asked
      /\ Len(q.steps) = Len(r.steps) /\ q.steps[i] = step
      /\ \A j \in 1..Len(r.steps) : j # i => q.steps[j] = r.steps[j]
  BY <1>1, Stepped DEF Steps
<1>3. r.at = "acting" /\ r.steps[i] \in UnderWay
  BY DEF Advances, UnderWay
<1>4. ASSUME r.kind = "command"
      PROVE  OneByOne(q)
  <2>1. /\ \A j \in 1..Len(r.steps) : /\ j < i => r.steps[j] = "done"
                                      /\ j > i => r.steps[j] = "later"
        /\ Len(r.steps) \in Nat
    BY <1>3, <1>4, LenProperties DEF WellFormed, OneByOne, HandlerSet
  <2> SUFFICES ASSUME NEW k \in 1..Len(r.steps), q.steps[k] \in UnderWay,
                      NEW j \in 1..Len(r.steps)
               PROVE  /\ j < k => q.steps[j] = "done"
                      /\ j > k => q.steps[j] = "later"
    BY <1>2 DEF OneByOne
  <2>2. k = i
    BY <1>2, <2>1 DEF UnderWay
  <2> QED
    BY <1>2, <2>1, <2>2
<1> QED
  BY <1>2, <1>3, <1>4, NoActions DEF WellFormed

LEMMA CloseWellFormed ==
    ASSUME NEW r \in HandlerSet, WellFormed(r), r.at = "acting", NEW i \in 1..Len(r.steps),
           r.steps[i] \in UnderWay, NEW q, Closes(r, i, q), Follows(r, i, q)
    PROVE  WellFormed(q)
<1>1. ASSUME r.kind = "command", q.at = "acting"
      PROVE  OneByOne(q)
  <2>1. /\ \A j \in 1..Len(r.steps) : /\ j < i => r.steps[j] = "done"
                                      /\ j > i => r.steps[j] = "later"
        /\ Len(r.steps) \in Nat
    BY <1>1, LenProperties DEF WellFormed, OneByOne, HandlerSet
  <2>2. /\ q.steps[i] = "done" /\ q.steps[i + 1] = "guard"
        /\ \A j \in 1..Len(r.steps) : j \notin {i, i + 1} => q.steps[j] = r.steps[j]
    BY <1>1 DEF Follows
  <2> SUFFICES ASSUME NEW k \in 1..Len(r.steps), q.steps[k] \in UnderWay,
                      NEW j \in 1..Len(r.steps)
               PROVE  /\ j < k => q.steps[j] = "done"
                      /\ j > k => q.steps[j] = "later"
    BY DEF OneByOne, Closes
  <2>3. k = i + 1
    <3>1. k < i => q.steps[k] = "done"
      BY <2>1, <2>2
    <3>2. k > i + 1 => q.steps[k] = "later"
      BY <2>1, <2>2
    <3>3. "done" \notin UnderWay /\ "later" \notin UnderWay
      BY DEF UnderWay
    <3>4. k # i /\ ~ (k < i) /\ ~ (k > i + 1)
      BY <2>2, <3>1, <3>2, <3>3
    <3> QED
      BY <3>4
  <2>4. j < k => j = i \/ j < i
    BY <2>3
  <2>5. j < i => q.steps[j] = "done"
    BY <2>1, <2>2
  <2>6. j > k => q.steps[j] = "later"
    BY <2>1, <2>2, <2>3
  <2> QED
    BY <2>2, <2>4, <2>5, <2>6
<1> QED
  BY <1>1, NoActions DEF WellFormed, Closes

LEMMA TurnsNext == TypeOK /\ Turns /\ [Next]_vars => Turns'
<1> SUFFICES ASSUME TypeOK, Turns, [Next]_vars
             PROVE  Turns'
  OBVIOUS
<1>1. ASSUME NEW h \in Messages, NEW q \in HandlerSet, Becomes(h, q), WellFormed(q)
      PROVE  Turns'
  BY <1>1, BecomesType DEF Turns
<1>2. \A h \in Messages : handlers[h] \in HandlerSet /\ WellFormed(handlers[h])
  BY DEF TypeOK, Turns
<1>3. ASSUME NEW h \in Messages, Handle(h)
      PROVE  Turns'
  <2>1. ASSUME NEW q \in HandlerSet, Silent(h, q),
               Elsewhere(handlers[h], q) \/ Begins(handlers[h], q)
        PROVE  Turns'
    BY <1>1, <1>2, <2>1, StartWellFormed DEF Silent
  <2>2. ASSUME NEW q \in HandlerSet, Silent(h, q), NEW i \in 1..Len(handlers[h].steps),
               Advances(handlers[h], i, q)
        PROVE  Turns'
    BY <1>1, <1>2, <2>2, AdvanceWellFormed DEF Silent
  <2>3. ASSUME NEW q \in HandlerSet, Silent(h, q), NEW i \in 1..Len(handlers[h].steps),
               Breaks(h, i, q)
        PROVE  Turns'
    <3>1. Closes(handlers[h], i, q) /\ Follows(handlers[h], i, q)
      BY <1>2, <2>3, AfterFailureIs DEF Breaks, Follows
    <3> QED
      BY <1>1, <1>2, <2>3, <3>1, CloseWellFormed DEF Breaks, Silent
  <2>4. ASSUME NEW i \in 1..Len(handlers[h].steps), NEW ok \in BOOLEAN, Called(h, i, ok)
        PROVE  Turns'
    <3> DEFINE q == IF ok THEN AfterSuccess(h, i) ELSE AfterFailure(h, i)
    <3>1. /\ q \in HandlerSet /\ Becomes(h, q)
          /\ Closes(handlers[h], i, q) /\ Follows(handlers[h], i, q)
      BY <2>4, CalledIs
    <3>2. handlers[h].at = "acting" /\ handlers[h].steps[i] \in UnderWay
      BY <2>4 DEF Called, UnderWay
    <3> HIDE DEF q
    <3> QED
      BY <1>1, <1>2, <3>1, <3>2, CloseWellFormed
  <2> QED
    BY <1>3, <2>1, <2>2, <2>3, <2>4, HandleSteps
<1>4. CASE Next /\ ~ \E h \in Messages : Handle(h)
  <2>1. WellFormed(Ended)
    BY NoActions DEF Ended, Handler, WellFormed
  <2> QED
    BY <1>4, <2>1, OtherSteps DEF Turns
<1>5. CASE UNCHANGED vars
  BY <1>5 DEF vars, Turns
<1> QED
  BY <1>3, <1>4, <1>5

\* A handler is in a place that fits the kind of its message, its actions are known step by
\* step, and of the actions of a command at most one is under way, those before it succeeded:
\* the tools of an answer of the model are tried side by side, the actions of a command are not.
THEOREM TypeCorrect == Spec => [](TypeOK /\ Turns)
<1>1. Init => TypeOK /\ Turns
  BY TypeInit, TurnsInit
<1>2. TypeOK /\ Turns /\ [Next]_vars => (TypeOK /\ Turns)'
  BY TypeNext, TurnsNext
<1> QED
  BY <1>1, <1>2, PTL DEF Spec

-----------------------------------------------------------------------------
(* The guards. *)

\* For a guard that is down, the calls made since it fell and those of the actions behind it
\* are no more than the actions that had passed it; in a command that is one at most.
Bounded ==
    \A h \in Messages : \A g \in Fallen :
        since[h][g] + Cardinality(Past(handlers[h], g)) <= passed[h][g]
OneAtMost ==
    \A h \in Messages : \A g \in Guards :
        handlers[h].at = "waiting" \/ handlers[h].kind = "command" => passed[h][g] <= 1
LastCall == Bounded /\ OneAtMost

\* Elsewhere no action is behind a guard, in a command at most one is.
LEMMA PastNone ==
    ASSUME NEW r, NEW g, r.at # "acting"
    PROVE  Past(r, g) = {} /\ Cardinality(Past(r, g)) = 0
<1>1. Past(r, g) = {}
  BY DEF Past
<1> QED
  BY <1>1, FS_EmptySet

LEMMA PastOne ==
    ASSUME NEW r \in HandlerSet, WellFormed(r), r.kind = "command" \/ r.at = "waiting", NEW g \in Guards
    PROVE  Cardinality(Past(r, g)) <= 1
<1>1. CASE Past(r, g) = {}
  BY <1>1, FS_EmptySet
<1>2. ASSUME NEW i \in Past(r, g)
      PROVE  Cardinality(Past(r, g)) = 1
  <2>1. /\ r.at = "acting" /\ i \in 1..Len(r.steps) /\ Len(r.steps) \in Nat
        /\ \A j \in Past(r, g) : j \in 1..Len(r.steps) /\ r.steps[j] \in Behind(g)
    BY <1>2, PastFinite, LenProperties DEF Past, HandlerSet
  <2>2. Behind(g) \subseteq UnderWay
    BY DEF Behind, UnderWay, Guards
  <2>3. ASSUME NEW j \in Past(r, g)
        PROVE  j = i
    <3>1. OneByOne(r)
      BY <2>1 DEF WellFormed
    <3>2. r.steps[i] \in UnderWay /\ r.steps[j] \in UnderWay
      BY <1>2, <2>1, <2>2, <2>3
    <3>3. j < i => r.steps[j] = "done"
      BY <2>1, <2>3, <3>1, <3>2 DEF OneByOne
    <3>4. j > i => r.steps[j] = "later"
      BY <2>1, <2>3, <3>1, <3>2 DEF OneByOne
    <3> QED
      BY <2>1, <2>3, <3>2, <3>3, <3>4 DEF UnderWay
  <2>4. Past(r, g) = {i}
    BY <1>2, <2>3
  <2> QED
    BY <2>4, FS_Singleton
<1> QED
  BY <1>1, <1>2

\* A step that leaves nothing new behind a guard that is down keeps the bound.
LEMMA FewerPast ==
    ASSUME TypeOK, Bounded, NEW h \in Messages, NEW q \in HandlerSet, Silent(h, q),
           \A g \in Fallen : Past(q, g) \subseteq Past(handlers[h], g)
    PROVE  Bounded'
<1>1. /\ handlers'[h] = q /\ \A k \in Messages : k # h => handlers'[k] = handlers[k]
      /\ UNCHANGED <<switch, admins, since, passed>>
  BY BecomesType DEF Silent, history
<1>2. Fallen' = Fallen /\ Fallen \subseteq Guards
  BY <1>1 DEF Fallen, Guards
<1> SUFFICES ASSUME NEW k \in Messages, NEW g \in Fallen
             PROVE  since[k][g] + Cardinality(Past(handlers'[k], g)) <= passed[k][g]
  BY <1>1, <1>2 DEF Bounded, Past
<1>3. CASE k # h
  BY <1>1, <1>3 DEF Bounded
<1>4. CASE k = h
  <2>1. handlers[h] \in HandlerSet /\ since[h][g] \in Nat /\ passed[h][g] \in Nat
    BY <1>2 DEF TypeOK
  <2>2. /\ IsFiniteSet(Past(handlers[h], g)) /\ Cardinality(Past(handlers[h], g)) \in Nat
        /\ Cardinality(Past(q, g)) \in Nat
    BY <2>1, PastFinite
  <2>3. Cardinality(Past(q, g)) <= Cardinality(Past(handlers[h], g))
    BY <2>2, FS_Subset
  <2>4. since[h][g] + Cardinality(Past(handlers[h], g)) <= passed[h][g]
    BY DEF Bounded
  <2> QED
    BY <1>1, <1>4, <2>1, <2>2, <2>3, <2>4
<1> QED
  BY <1>3, <1>4

\* No silent step takes an action behind a guard that is down ...
LEMMA NothingPasses ==
    ASSUME TypeOK, Turns, NEW h \in Messages, NEW q \in HandlerSet, NEW g \in Fallen,
           \/ Elsewhere(handlers[h], q) \/ Begins(handlers[h], q)
           \/ \E i \in 1..Len(handlers[h].steps) : Advances(handlers[h], i, q) \/ Breaks(h, i, q)
    PROVE  Past(q, g) \subseteq Past(handlers[h], g)
<1> DEFINE r == handlers[h]
<1>1. r \in HandlerSet /\ WellFormed(r)
  BY DEF TypeOK, Turns
<1>2. g \in Guards /\ Behind(g) \subseteq {"actor", "bot", "call"}
  BY DEF Fallen, Guards, Behind
<1>3. /\ \A j \in Past(q, g) : q.at = "acting" /\ j \in 1..Len(q.steps) /\ q.steps[j] \in Behind(g)
      /\ DOMAIN r.steps = 1..Len(r.steps)
  <2>1. \A j \in Past(q, g) : j \in 1..Len(q.steps)
    BY PastFinite
  <2>2. \A j \in Past(q, g) : q.at = "acting" /\ q.steps[j] \in Behind(g)
    BY DEF Past
  <2>3. DOMAIN r.steps = 1..Len(r.steps)
    BY <1>1, LenProperties DEF HandlerSet
  <2> QED
    BY <2>1, <2>2, <2>3
<1>4. CASE Elsewhere(r, q)
  <2>1. q.at # "acting"
    BY <1>4 DEF Elsewhere
  <2> QED
    BY <2>1, PastNone
<1>5. CASE Begins(r, q)
  <2>1. q.asked \in Seq(Action) /\ Len(q.steps) = Len(q.asked)
    BY <1>5 DEF Begins, HandlerSet
  <2>2. \A j \in 1..Len(q.steps) : q.steps[j] \in {"guard", "later"}
    BY <1>5, <2>1, FirstIs DEF Begins
  <2> QED
    BY <1>2, <1>3, <2>2
<1>6. ASSUME NEW i \in 1..Len(r.steps), Advances(r, i, q)
      PROVE  Past(q, g) \subseteq Past(r, g)
  <2>1. PICK step \in {"actor", "bot", "call"} : q = WithStep(r, i, step)
    BY <1>6 DEF Advances
  <2>2. /\ Len(q.steps) = Len(r.steps) /\ q.steps[i] = step /\ r.at = "acting"
        /\ \A j \in 1..Len(r.steps) : j # i => q.steps[j] = r.steps[j]
    BY <1>1, <1>6, <2>1, Stepped DEF Steps, Advances
  <2>3. q.steps[i] \in Behind(g) => r.steps[i] \in Behind(g)
    BY <1>1, <1>2, <1>6, Stepped DEF Advances, Steps, Behind, Guards
  <2> QED
    BY <1>3, <2>2, <2>3 DEF Past
<1>7. ASSUME NEW i \in 1..Len(r.steps), Breaks(h, i, q)
      PROVE  Past(q, g) \subseteq Past(r, g)
  <2>1. Closes(r, i, q) /\ r.at = "acting"
    BY <1>1, <1>7, AfterFailureIs DEF Breaks
  <2> QED
    BY <1>2, <1>3, <2>1 DEF Closes, Past
<1> QED
  BY <1>4, <1>5, <1>6, <1>7

\* ... and one that calls takes its own away from there.
LEMMA CallsPast ==
    ASSUME TypeOK, Turns, Bounded, NEW h \in Messages, NEW i \in 1..Len(handlers[h].steps),
           NEW ok \in BOOLEAN, Called(h, i, ok)
    PROVE  Bounded'
<1> DEFINE r == handlers[h]
           q == IF ok THEN AfterSuccess(h, i) ELSE AfterFailure(h, i)
<1>1. q \in HandlerSet /\ Becomes(h, q) /\ Closes(r, i, q)
  BY CalledIs
<1> HIDE DEF q
<1>2. /\ handlers'[h] = q /\ \A k \in Messages : k # h => handlers'[k] = handlers[k]
      /\ UNCHANGED <<switch, admins, passed>>
  BY <1>1, BecomesType DEF Called
<1>3. Fallen' = Fallen /\ Fallen \subseteq Guards
  BY <1>2 DEF Fallen, Guards
<1>4. /\ \A k \in Messages : k # h => since'[k] = since[k]
      /\ \A g \in Fallen : since'[h][g] = since[h][g] + 1
  BY <1>3 DEF Called, TypeOK
<1> SUFFICES ASSUME NEW k \in Messages, NEW g \in Fallen
             PROVE  since'[k][g] + Cardinality(Past(handlers'[k], g)) <= passed[k][g]
  BY <1>2, <1>3 DEF Bounded, Past
<1>5. CASE k # h
  BY <1>2, <1>4, <1>5 DEF Bounded
<1>6. CASE k = h
  <2>1. r \in HandlerSet /\ since[h][g] \in Nat /\ passed[h][g] \in Nat
    BY <1>3 DEF TypeOK
  <2>2. /\ IsFiniteSet(Past(r, g)) /\ Cardinality(Past(r, g)) \in Nat
        /\ Cardinality(Past(q, g)) \in Nat
    BY <1>1, <2>1, PastFinite
  <2>3. r.at = "acting" /\ r.steps[i] = "call" /\ DOMAIN r.steps = 1..Len(r.steps)
    BY <2>1, LenProperties DEF Called, HandlerSet
  <2>4. "call" \in Behind(g) /\ Behind(g) \subseteq {"actor", "bot", "call"}
    BY <1>3 DEF Behind, Guards
  <2>5. i \in Past(r, g)
    BY <2>3, <2>4 DEF Past
  <2>6. \A j \in Past(q, g) : q.at = "acting" /\ j \in 1..Len(q.steps) /\ q.steps[j] \in Behind(g)
    BY <1>1, PastFinite DEF Past
  <2>7. Past(q, g) \subseteq Past(r, g) \ {i}
    BY <1>1, <2>3, <2>4, <2>6 DEF Closes, Past
  <2>8. /\ IsFiniteSet(Past(r, g) \ {i})
        /\ Cardinality(Past(r, g) \ {i}) = Cardinality(Past(r, g)) - 1
    BY <2>2, <2>5, FS_RemoveElement
  <2>9. Cardinality(Past(q, g)) <= Cardinality(Past(r, g) \ {i})
    BY <2>7, <2>8, FS_Subset
  <2>10. since[h][g] + Cardinality(Past(r, g)) <= passed[h][g]
    BY DEF Bounded
  <2>11. handlers'[k] = q /\ since'[k][g] = since[h][g] + 1 /\ passed[k][g] = passed[h][g]
    BY <1>2, <1>4, <1>6
  <2>12. since[h][g] + 1 + Cardinality(Past(q, g)) <= passed[h][g]
    BY <2>1, <2>2, <2>8, <2>9, <2>10
  <2> QED
    BY <2>11, <2>12
<1> QED
  BY <1>5, <1>6

LEMMA LastCallInit == Init => LastCall
<1> SUFFICES ASSUME Init
             PROVE  LastCall
  OBVIOUS
<1>1. \A h \in Messages : handlers[h].at # "acting"
  BY DEF Init, Waiting, Handler
<1>2. \A h \in Messages : \A g \in Guards : since[h][g] = 0 /\ passed[h][g] = 0
  BY DEF Init
<1>3. Fallen \subseteq Guards
  BY DEF Fallen, Guards
<1> QED
  BY <1>1, <1>2, <1>3, PastNone DEF LastCall, Bounded, OneAtMost

LEMMA LastCallNext == TypeOK /\ Turns /\ LastCall /\ [Next]_vars => LastCall'
<1> SUFFICES ASSUME TypeOK, Turns, LastCall, [Next]_vars
             PROVE  LastCall'
  OBVIOUS
<1>0. /\ Fallen \subseteq Guards
      /\ \A k \in Messages : handlers[k] \in HandlerSet /\ WellFormed(handlers[k])
  BY DEF Fallen, Guards, TypeOK, Turns
<1>1. ASSUME NEW h \in Messages, NEW q \in HandlerSet, Becomes(h, q), passed' = passed,
             q.kind = "command" => handlers[h].kind = "command" \/ handlers[h].at = "waiting",
             q.at # "waiting"
      PROVE  OneAtMost'
  BY <1>1, BecomesType DEF LastCall, OneAtMost
<1>2. ASSUME NEW h \in Messages, Handle(h)
      PROVE  LastCall'
  <2>1. ASSUME NEW q \in HandlerSet, Silent(h, q),
               \/ Elsewhere(handlers[h], q) \/ Begins(handlers[h], q)
               \/ \E i \in 1..Len(handlers[h].steps) :
                      Advances(handlers[h], i, q) \/ Breaks(h, i, q)
        PROVE  LastCall'
    <3>1. Bounded'
      BY <2>1, NothingPasses, FewerPast DEF LastCall
    <3>2. CASE Elsewhere(handlers[h], q)
      <4>1. Waiting.at = "waiting" /\ passed' = passed
        BY <2>1 DEF Waiting, Handler, Silent, history
      <4> QED
        BY <1>1, <2>1, <3>1, <3>2, <4>1 DEF Elsewhere, Silent, LastCall
    <3>3. CASE Begins(handlers[h], q)
      <4>1. handlers[h].at = "execute" => handlers[h].kind = "command"
        BY <1>0 DEF WellFormed
      <4>2. passed' = passed
        BY <2>1 DEF Silent, history
      <4> QED
        BY <1>1, <2>1, <3>1, <3>3, <4>1, <4>2, NoActions DEF Begins, Silent, LastCall
    <3>4. ASSUME NEW i \in 1..Len(handlers[h].steps),
                 Advances(handlers[h], i, q) \/ Breaks(h, i, q)
          PROVE  LastCall'
      <4>1. q.kind = handlers[h].kind /\ q.at # "waiting"
        BY <1>0, <3>4, AdvanceWellFormed, AfterFailureIs DEF Breaks, Closes
      <4>2. passed' = passed
        BY <2>1 DEF Silent, history
      <4> QED
        BY <1>1, <2>1, <3>1, <4>1, <4>2 DEF Silent, LastCall
    <3> QED
      BY <2>1, <3>2, <3>3, <3>4
  <2>2. ASSUME NEW i \in 1..Len(handlers[h].steps), NEW ok \in BOOLEAN, Called(h, i, ok)
        PROVE  LastCall'
    <3> DEFINE q == IF ok THEN AfterSuccess(h, i) ELSE AfterFailure(h, i)
    <3>1. q \in HandlerSet /\ Becomes(h, q) /\ Closes(handlers[h], i, q)
      BY <2>2, CalledIs
    <3>2. passed' = passed
      BY <2>2 DEF Called
    <3> HIDE DEF q
    <3>3. Bounded'
      BY <2>2, CallsPast DEF LastCall
    <3> QED
      BY <1>1, <3>1, <3>2, <3>3 DEF Closes, LastCall
  <2> QED
    BY <1>2, <2>1, <2>2, HandleSteps
<1>3. CASE Next /\ ~ \E h \in Messages : Handle(h)
  <2>1. CASE UNCHANGED <<since, passed>> /\ Fallen' = Fallen
    <3>1. CASE UNCHANGED handlers
      BY <2>1, <3>1 DEF LastCall, Bounded, OneAtMost, Past
    <3>2. CASE handlers' = [h \in Messages |-> Ended]
      <4>1. \A h \in Messages : handlers'[h].at = "over" /\ handlers'[h].kind = None
        BY <3>2 DEF Ended, Handler
      <4>2. \A h \in Messages : \A g \in Fallen :
              since[h][g] \in Nat /\ passed[h][g] \in Nat /\ since[h][g] <= passed[h][g]
        <5> SUFFICES ASSUME NEW h \in Messages, NEW g \in Fallen
                     PROVE  /\ since[h][g] \in Nat /\ passed[h][g] \in Nat
                            /\ since[h][g] <= passed[h][g]
          OBVIOUS
        <5>1. since[h][g] \in Nat /\ passed[h][g] \in Nat
          BY <1>0 DEF TypeOK
        <5>2. Cardinality(Past(handlers[h], g)) \in Nat
          BY <1>0, PastFinite
        <5>3. since[h][g] + Cardinality(Past(handlers[h], g)) <= passed[h][g]
          BY DEF LastCall, Bounded
        <5> QED
          BY <5>1, <5>2, <5>3
      <4>3. \A h \in Messages : \A g \in Fallen : Cardinality(Past(handlers'[h], g)) = 0
        BY <4>1, PastNone
      <4>4. Bounded'
        BY <2>1, <4>2, <4>3 DEF Bounded, Past
      <4>5. OneAtMost'
        BY <4>1, NoActions DEF OneAtMost
      <4> QED
        BY <4>4, <4>5 DEF LastCall
    <3> QED
      BY <1>3, <3>1, <3>2, OtherSteps
  <2>2. ASSUME NEW g \in Guards, UNCHANGED handlers, Falls(g), Fallen' \subseteq Fallen \cup {g}
        PROVE  LastCall'
    <3>1. /\ \A h \in Messages : since'[h][g] = 0 /\ passed'[h][g] = Cardinality(Past(handlers[h], g))
          /\ \A h \in Messages : \A f \in Guards \ {g} :
                 since'[h][f] = since[h][f] /\ passed'[h][f] = passed[h][f]
      BY <2>2 DEF Falls, TypeOK
    <3>2. \A h \in Messages : Cardinality(Past(handlers[h], g)) \in Nat
      BY <1>0, PastFinite
    <3>3. ASSUME NEW h \in Messages, NEW f \in Fallen'
          PROVE  since'[h][f] + Cardinality(Past(handlers[h], f)) <= passed'[h][f]
      BY <1>0, <2>2, <3>1, <3>2, <3>3 DEF LastCall, Bounded
    <3>4. Bounded'
      BY <2>2, <3>3 DEF Bounded, Past
    <3>5. OneAtMost'
      <4> SUFFICES ASSUME NEW h \in Messages, NEW f \in Guards,
                          handlers[h].at = "waiting" \/ handlers[h].kind = "command"
                   PROVE  passed'[h][f] <= 1
        BY <2>2 DEF OneAtMost
      <4>1. CASE f = g
        BY <1>0, <3>1, <4>1, PastOne
      <4>2. CASE f # g
        BY <3>1, <4>2 DEF LastCall, OneAtMost
      <4> QED
        BY <4>1, <4>2
    <3> QED
      BY <3>4, <3>5 DEF LastCall
  <2>3. ASSUME NEW g \in Guards, UNCHANGED handlers, Rises(g), Fallen' \subseteq Fallen \ {g}
        PROVE  LastCall'
    <3>1. /\ \A h \in Messages : passed'[h][g] = 0
          /\ \A h \in Messages : \A f \in Guards \ {g} :
                 since'[h][f] = since[h][f] /\ passed'[h][f] = passed[h][f]
      BY <2>3 DEF Rises, TypeOK
    <3>2. Bounded'
      BY <1>0, <2>3, <3>1 DEF LastCall, Bounded, Past
    <3>3. OneAtMost'
      BY <2>3, <3>1 DEF LastCall, OneAtMost
    <3> QED
      BY <3>2, <3>3 DEF LastCall
  <2> QED
    BY <1>3, <2>1, <2>2, <2>3, OtherSteps
<1>4. CASE UNCHANGED vars
  <2>1. UNCHANGED <<handlers, since, passed, switch, admins>>
    BY <1>4 DEF vars, history
  <2>2. Fallen' = Fallen
    BY <2>1 DEF Fallen
  <2> QED
    BY <2>1, <2>2 DEF LastCall, Bounded, OneAtMost, Past
<1> QED
  BY <1>2, <1>3, <1>4

\* However many actions a plugin asked for and however many tools the answers of the model
\* call side by side: once the switch is off or a role is gone, a handler makes no call but
\* those of the actions that had passed that guard when it fell, in a command at most one.
THEOREM GuardsAlwaysHold == Spec => []GuardsHold
<1>1. Init => TypeOK /\ Turns /\ LastCall
  BY TypeInit, TurnsInit, LastCallInit
<1>2. TypeOK /\ Turns /\ LastCall /\ [Next]_vars => (TypeOK /\ Turns /\ LastCall)'
  BY TypeNext, TurnsNext, LastCallNext
<1>3. TypeOK /\ LastCall => GuardsHold
  <2> SUFFICES ASSUME TypeOK, LastCall, NEW h \in Messages, NEW g \in Fallen
               PROVE  /\ since[h][g] <= passed[h][g]
                      /\ handlers[h].kind = "command" => since[h][g] <= 1
    BY DEF GuardsHold
  <2>1. g \in Guards /\ handlers[h] \in HandlerSet
    BY DEF Fallen, Guards, TypeOK
  <2>2. since[h][g] \in Nat /\ passed[h][g] \in Nat
    BY <2>1 DEF TypeOK
  <2>3. Cardinality(Past(handlers[h], g)) \in Nat
    BY <2>1, PastFinite
  <2>4. since[h][g] + Cardinality(Past(handlers[h], g)) <= passed[h][g]
    BY DEF LastCall, Bounded
  <2>5. since[h][g] <= passed[h][g]
    BY <2>2, <2>3, <2>4
  <2>6. handlers[h].kind = "command" => passed[h][g] <= 1
    BY <2>1 DEF LastCall, OneAtMost
  <2> QED
    BY <2>2, <2>5, <2>6
<1> QED
  BY <1>1, <1>2, <1>3, PTL DEF Spec

-----------------------------------------------------------------------------
(* The actions of a command. *)

\* The calls m that a handler r has made: none before its actions are known or for /help; for
\* a command one for each of the actions before the one that is under way, and all of those
\* obeyed while another is.
InOrder(r, m) ==
    /\ Len(m) <= Len(r.asked)
    /\ \A i \in 1..Len(m) : /\ Means(m[i].call, r.asked[i])
                            /\ i < Len(m) => m[i].ok
AllBefore(r, m) ==
    \A i \in 1..Len(r.steps) : r.steps[i] \in UnderWay =>
        Len(m) = i - 1 /\ \A j \in 1..Len(m) : m[j].ok
Honest(r, m) ==
    /\ r.at \in {"waiting", "usage", "execute"} => m = <<>>
    /\ r.kind = "help" => m = <<>>
    /\ r.kind = "command" => InOrder(r, m) /\ (r.at = "acting" => AllBefore(r, m))

InTurn == \A h \in Messages : Honest(handlers[h], made[h])

LEMMA InTurnInit == Init => InTurn
BY NoActions DEF Init, InTurn, Honest, Waiting, Handler

\* Without a call, what was made stays honest wherever the handler goes.
LEMMA SilentHonest ==
    ASSUME TypeOK, Turns, InTurn, NEW h \in Messages, NEW q \in HandlerSet,
           \/ Elsewhere(handlers[h], q) \/ Begins(handlers[h], q)
           \/ \E i \in 1..Len(handlers[h].steps) : Advances(handlers[h], i, q) \/ Breaks(h, i, q)
    PROVE  Honest(q, made[h])
<1> DEFINE r == handlers[h]
           m == made[h]
<1>1. r \in HandlerSet /\ WellFormed(r) /\ Honest(r, m) /\ m \in Seq(Outcome)
  BY DEF TypeOK, Turns, InTurn
<1>2. Len(<<>>) = 0 /\ Len(q.asked) \in Nat /\ q.asked \in Seq(Action)
  BY NoActions, LenProperties DEF HandlerSet
<1> SUFFICES Honest(q, m)
  OBVIOUS
<1> HIDE DEF r, m
<1>3. CASE Elsewhere(r, q)
  <2>1. q.at \in {"execute", "usage", "think", "over"}
    BY <1>3 DEF Elsewhere
  <2>2. CASE m = <<>>
    BY <1>2, <2>1, <2>2 DEF Honest, InOrder
  <2>3. CASE m # <<>>
    <3>1. r.at = "think" /\ q.at = "over" /\ q.kind = r.kind
      BY <1>1, <1>3, <2>3 DEF Elsewhere, Honest, Waiting, Handler
    <3> QED
      BY <1>1, <3>1, NoActions DEF WellFormed, Honest
  <2> QED
    BY <2>2, <2>3
<1>4. CASE Begins(r, q)
  <2>1. CASE r.at = "execute"
    <3>1. /\ m = <<>> /\ q.at = "acting" /\ q.kind = "command" /\ q.steps = FirstOf(q.asked)
          /\ Len(q.steps) = Len(q.asked)
      BY <1>1, <1>4, <2>1 DEF Honest, Begins
    <3>2. \A i \in 1..Len(q.steps) : q.steps[i] \in UnderWay => i = 1
      BY <1>2, <3>1, FirstIs DEF UnderWay
    <3> QED
      BY <1>2, <3>1, <3>2, NoActions DEF Honest, InOrder, AllBefore
  <2>2. CASE r.at = "think"
    BY <1>4, <2>2, NoActions DEF Begins, Honest
  <2> QED
    BY <1>4, <2>1, <2>2 DEF Begins
<1>5. ASSUME NEW i \in 1..Len(r.steps), Advances(r, i, q)
      PROVE  Honest(q, m)
  <2>1. PICK step \in {"actor", "bot", "call"} : q = WithStep(r, i, step)
    BY <1>5 DEF Advances
  <2>2. /\ q.at = r.at /\ q.kind = r.kind /\ q.asked = r.asked
        /\ Len(q.steps) = Len(r.steps)
        /\ \A j \in 1..Len(r.steps) : j # i => q.steps[j] = r.steps[j]
    BY <1>1, <2>1, Stepped DEF Steps
  <2>3. r.at = "acting" /\ r.steps[i] \in UnderWay
    BY <1>5 DEF Advances, UnderWay
  <2>4. InOrder(r, m) => InOrder(q, m)
    BY <2>2 DEF InOrder
  <2>5. AllBefore(r, m) => AllBefore(q, m)
    BY <2>2, <2>3 DEF AllBefore
  <2> QED
    BY <1>1, <2>2, <2>3, <2>4, <2>5 DEF Honest
<1>6. ASSUME NEW i \in 1..Len(r.steps), Breaks(h, i, q)
      PROVE  Honest(q, m)
  <2>1. /\ q.kind = r.kind /\ q.asked = r.asked /\ r.at = "acting"
        /\ q.at \in {"acting", "over", "think"}
        /\ r.kind = "command" => q.at = "over"
    BY <1>1, <1>6, AfterFailureIs DEF Breaks, Closes, r
  <2>2. InOrder(r, m) => InOrder(q, m)
    BY <2>1 DEF InOrder
  <2> QED
    BY <1>1, <2>1, <2>2 DEF Honest
<1> QED
  BY <1>3, <1>4, <1>5, <1>6 DEF r, m

\* A call is that of the action that is under way.
LEMMA CallHonest ==
    ASSUME TypeOK, Turns, InTurn, NEW h \in Messages, NEW i \in 1..Len(handlers[h].steps),
           NEW ok \in BOOLEAN, Called(h, i, ok)
    PROVE  Honest(IF ok THEN AfterSuccess(h, i) ELSE AfterFailure(h, i), made'[h])
<1> DEFINE r == handlers[h]
           m == made[h]
           outcome == [call |-> ApiCall(r.asked[i]), ok |-> ok]
           n == Append(m, outcome)
           q == IF ok THEN AfterSuccess(h, i) ELSE AfterFailure(h, i)
<1>1. /\ r \in HandlerSet /\ WellFormed(r) /\ Honest(r, m) /\ m \in Seq(Outcome)
      /\ r.at = "acting" /\ r.steps[i] \in UnderWay
  BY DEF TypeOK, Turns, InTurn, Called, UnderWay
<1>2. outcome \in Outcome /\ Means(outcome.call, r.asked[i])
  <2>1. r.asked[i] \in Action
    BY AskedType
  <2> QED
    BY <2>1, CallMeans DEF Outcome, Called
<1>3. made'[h] = n
  BY DEF Called, TypeOK
<1>4. /\ Closes(r, i, q) /\ Follows(r, i, q)
      /\ ~ ok /\ r.kind = "command" => q.at = "over"
  BY CalledIs
<1>5. outcome.ok = ok
  OBVIOUS
<1> HIDE DEF q, outcome
<1>6. /\ n \in Seq(Outcome) /\ Len(n) = Len(m) + 1 /\ n[Len(m) + 1] = outcome /\ Len(m) \in Nat
      /\ \A j \in 1..Len(m) : n[j] = m[j]
  BY <1>1, <1>2, AppendProperties, LenProperties
<1> HIDE DEF n, m, r
<1>7. CASE r.kind = "command"
  <2>1. /\ Len(m) = i - 1 /\ InOrder(r, m) /\ \A j \in 1..Len(m) : m[j].ok
        /\ Len(r.steps) = Len(r.asked) /\ Len(r.steps) \in Nat
    BY <1>1, <1>7, LenProperties DEF Honest, AllBefore, WellFormed, HandlerSet, r
  <2>2. Len(n) = i /\ i \in 1..Len(r.asked) /\ n[i] = outcome
    BY <1>6, <2>1 DEF r
  <2>3. ASSUME NEW j \in 1..Len(n)
        PROVE  Means(n[j].call, r.asked[j]) /\ (j < Len(n) => n[j].ok)
    <3>1. CASE j = i
      BY <1>2, <2>2, <3>1
    <3>2. CASE j # i
      <4>1. j \in 1..Len(m) /\ n[j] = m[j]
        BY <1>6, <2>1, <2>2, <3>2
      <4> QED
        BY <2>1, <4>1 DEF InOrder
    <3> QED
      BY <3>1, <3>2
  <2>4. InOrder(q, n)
    BY <1>4, <2>2, <2>3 DEF InOrder, Closes
  <2>5. ASSUME q.at = "acting"
        PROVE  AllBefore(q, n)
    <3>1. ok /\ WellFormed(q) /\ q.kind = "command"
      BY <1>1, <1>4, <1>7, <2>5, CloseWellFormed DEF Closes, r
    <3>2. q.steps[i] = "done" /\ q.steps[i + 1] = "guard" /\ i + 1 \in 1..Len(q.steps)
      BY <1>4, <1>7, <2>1, <2>2, <2>5 DEF Follows, Closes
    <3>3. ASSUME NEW k \in 1..Len(q.steps), q.steps[k] \in UnderWay
          PROVE  k = i + 1
      <4>1. OneByOne(q) /\ q.steps[i + 1] \in UnderWay
        BY <2>5, <3>1, <3>2 DEF WellFormed, UnderWay
      <4>2. /\ k < i + 1 => q.steps[k] = "done"
            /\ k > i + 1 => q.steps[k] = "later"
        BY <3>2, <4>1 DEF OneByOne
      <4> QED
        BY <3>2, <3>3, <4>2 DEF UnderWay
    <3>4. ASSUME NEW j \in 1..Len(n)
          PROVE  n[j].ok
      <4>1. CASE j = i
        BY <1>5, <2>2, <3>1, <4>1
      <4>2. CASE j # i
        BY <2>2, <2>3, <4>2
      <4> QED
        BY <4>1, <4>2
    <3>5. \A k \in 1..Len(q.steps) : q.steps[k] \in UnderWay => Len(n) = k - 1
      BY <2>2, <3>2, <3>3
    <3> QED
      BY <3>4, <3>5 DEF AllBefore
  <2> QED
    BY <1>3, <1>4, <1>7, <2>4, <2>5 DEF Honest, Closes, q, r
<1>8. CASE r.kind = "agent"
  BY <1>3, <1>4, <1>8 DEF Honest, Closes, q, r
<1> QED
  BY <1>1, <1>7, <1>8 DEF WellFormed

LEMMA InTurnNext == TypeOK /\ Turns /\ InTurn /\ [Next]_vars => InTurn'
<1> SUFFICES ASSUME TypeOK, Turns, InTurn, [Next]_vars
             PROVE  InTurn'
  OBVIOUS
<1>1. ASSUME NEW h \in Messages, NEW q \in HandlerSet, Silent(h, q),
             \/ Elsewhere(handlers[h], q) \/ Begins(handlers[h], q)
             \/ \E i \in 1..Len(handlers[h].steps) : Advances(handlers[h], i, q) \/ Breaks(h, i, q)
      PROVE  InTurn'
  <2>1. Honest(q, made[h])
    BY <1>1, SilentHonest
  <2>2. Becomes(h, q) /\ made' = made
    BY <1>1 DEF Silent, history
  <2> QED
    BY <2>1, <2>2, BecomesType DEF InTurn
<1>2. ASSUME NEW h \in Messages, NEW i \in 1..Len(handlers[h].steps), NEW ok \in BOOLEAN,
             Called(h, i, ok)
      PROVE  InTurn'
  <2> DEFINE q == IF ok THEN AfterSuccess(h, i) ELSE AfterFailure(h, i)
  <2>1. q \in HandlerSet /\ Becomes(h, q)
    BY <1>2, CalledIs
  <2>2. Honest(q, made'[h])
    BY <1>2, CallHonest
  <2>3. \A k \in Messages : k # h => made'[k] = made[k]
    BY <1>2 DEF Called, TypeOK
  <2> HIDE DEF q
  <2> QED
    BY <2>1, <2>2, <2>3, BecomesType DEF InTurn
<1>3. CASE Next /\ ~ \E h \in Messages : Handle(h)
  <2>1. made' = made
    BY <1>3, OtherSteps
  <2>2. \A m : Honest(Ended, m)
    BY NoActions DEF Honest, Ended, Handler
  <2>3. CASE UNCHANGED handlers
    BY <2>1, <2>3 DEF InTurn
  <2>4. CASE handlers' = [h \in Messages |-> Ended]
    BY <2>2, <2>4 DEF InTurn
  <2> QED
    BY <1>3, <2>3, <2>4, OtherSteps
<1>4. CASE UNCHANGED vars
  BY <1>4 DEF vars, history, InTurn
<1> QED
  BY <1>1, <1>2, <1>3, <1>4, HandleSteps

\* The calls of a command are the first of the actions its plugin asked for, each does what its
\* action means, only the last may have been refused, and an answer to /help leads to none.
THEOREM CommandAlwaysStops == Spec => []CommandStopsAtFailure
<1>1. Init => TypeOK /\ Turns /\ InTurn
  BY TypeInit, TurnsInit, InTurnInit
<1>2. TypeOK /\ Turns /\ InTurn /\ [Next]_vars => (TypeOK /\ Turns /\ InTurn)'
  BY TypeNext, TurnsNext, InTurnNext
<1>3. TypeOK /\ InTurn => CommandStopsAtFailure
  <2> SUFFICES ASSUME TypeOK, InTurn, NEW h \in Messages,
                      handlers[h].kind \in {"command", "help"}
               PROVE  /\ Len(made[h]) <= Len(handlers[h].asked)
                      /\ \A i \in 1..Len(made[h]) :
                          /\ Means(made[h][i].call, handlers[h].asked[i])
                          /\ i < Len(made[h]) => made[h][i].ok
    BY DEF CommandStopsAtFailure
  <2>1. Honest(handlers[h], made[h]) /\ Len(handlers[h].asked) \in Nat /\ Len(<<>>) = 0
    BY LenProperties, EmptySeq DEF InTurn, TypeOK, HandlerSet
  <2> QED
    BY <2>1 DEF Honest, InOrder
<1> QED
  BY <1>1, <1>2, <1>3, PTL DEF Spec

-----------------------------------------------------------------------------
(* The end of the process. *)

\* Every process that runs is one of a directory that was kept, and after the close of the
\* plugins none does.
Kept ==
    /\ handles \in Seq(Directories)
    /\ running \subseteq ToSet(handles)
    /\ phase \in {"stopping", "closed", "returned"} => running = {}

LEMMA KeptNext == Kept /\ [Next]_vars => Kept'
<1> SUFFICES ASSUME Kept, [Next]_vars
             PROVE  Kept'
  OBVIOUS
<1>1. CASE Load
  <2>1. next \in Directories /\ handles' = Append(handles, next) /\ phase' = "loading"
        /\ running' = running \cup {next}
    BY <1>1 DEF Load
  <2>2. /\ handles' \in Seq(Directories) /\ Len(handles') = Len(handles) + 1
        /\ Len(handles) \in Nat /\ handles'[Len(handles) + 1] = next
        /\ \A i \in 1..Len(handles) : handles'[i] = handles[i]
        /\ DOMAIN handles = 1..Len(handles) /\ DOMAIN handles' = 1..Len(handles')
    BY <2>1, AppendProperties, LenProperties DEF Kept
  <2>3. next \in ToSet(handles')
    BY <2>2 DEF ToSet
  <2>4. ToSet(handles) \subseteq ToSet(handles')
    BY <2>2 DEF ToSet
  <2> QED
    BY <2>1, <2>2, <2>3, <2>4 DEF Kept
<1>2. CASE ClosePlugins
  <2>1. handles' = handles /\ running' = running \ ToSet(handles)
    BY <1>2 DEF ClosePlugins, plugins
  <2>2. running' = {}
    BY <2>1 DEF Kept
  <2> QED
    BY <2>1, <2>2 DEF Kept
<1>3. CASE PluginDies
  BY <1>3 DEF PluginDies, plugins, Kept
<1>4. CASE Started \/ CloseStore \/ Return
  BY <1>4 DEF Started, CloseStore, Return, plugins, Kept
<1>5. CASE UNCHANGED <<phase, handles, running>>
  BY <1>5 DEF Kept
<1>6. CASE LoadFails \/ SetSwitch \/ Promote \/ Demote \/ UNCHANGED vars
  <2>1. UNCHANGED <<phase, handles, running>>
    BY <1>6 DEF LoadFails, SetSwitch, Promote, Demote, plugins, vars
  <2> QED
    BY <1>5, <2>1
<1>7. ASSUME NEW h \in Messages, Handle(h)
      PROVE  Kept'
  <2>1. \E r : Becomes(h, r)
    BY <1>7 DEF Handle, Command, HelpOfHost, HelpOf, Usage, Execute, Turn, Think, Act, ReadSwitch,
                CheckActor, CheckBot, Call, Fails, Passes, Over, GoesTo
  <2>2. UNCHANGED <<phase, handles, running>>
    BY <2>1 DEF Becomes, plugins
  <2> QED
    BY <1>5, <2>2
<1> QED
  BY <1>1, <1>2, <1>3, <1>4, <1>6, <1>7 DEF Next

\* When main has returned no plugin process is left, those included whose name or commands
\* another plugin had taken before.
THEOREM NoProcessIsLeft == Spec => []NoProcessLeft
<1>1. Init => Kept
  BY EmptySeq DEF Init, Kept
<1>2. Kept /\ [Next]_vars => Kept'
  BY KeptNext
<1>3. Kept => NoProcessLeft
  BY DEF Kept, NoProcessLeft
<1> QED
  BY <1>1, <1>2, <1>3, PTL DEF Spec

=============================================================================
