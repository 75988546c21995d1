# plumeBot in TLA+

plumeBot is a chat bot for OneBot groups: it listens to a group, keeps a window of
what was said, decides when to speak, asks a model with tools, runs plugin commands,
and has admin pages on a local port. This directory holds TLA+ modules of the parts
where order, concurrency, failure and restart decide whether it is right, the TLC
configurations that check them, and proofs for TLAPS.

`PROJECT.json` lists the components, the runs, the theorems, the lines of source each
definition stands for, and the hazards the properties are for. To check one run:
`tlc -workers 2 -config Control.cfg MCControl`; one proof module:
`tlapm ControlProofs.tla`.

Contents: [the system](#1-the-system), [the modules](#2-the-modules),
[the runs](#3-the-runs), [what disagrees](#4-where-code-and-documents-disagree),
[the proofs](#5-the-proofs), [what is left out](#6-what-is-not-modelled),
[the plan](#7-the-plan).

## 1. The system

Every inbound event runs in a goroutine of its own (the OneBot driver), and so does
every admin request (gin). They share the process's memory through a few mutexes, and
one SQLite database in which each statement is atomic. No lock is held over two steps
of a message, so handlers of one group overtake one another anywhere. Model calls take
up to a minute. Contexts of message handlers are never cancelled. The process may die
at any point; the next start reads what the database and the data directory hold.

| Component | Source | State | Operations | What makes it hard |
|---|---|---|---|---|
| context window | `service/memory/window.go` | per session: messages, oldest first | append, copy, remove by MessageID, put back parts | evicts at its bound; others read copies that grow old |
| window compression | `service/memory/compress.go` | in-flight mark and cooldown per session | trigger, a run of up to two model calls, trim | triggers overlap; the window moves during a run; failures; lost signals |
| summary store | `service/memory/summary.go` | hot chain and next number per session, archive table | load, append, fuse, evict | saves and loads fail; a crash between saves; numbers must not repeat |
| trigger control | `service/control` | `bot_state` row, lock per session, `group_config` row | ShouldReply, OnReplied | decides without the lock, accounts a minute later; midnight, minutes, bursts |
| message pipeline | `service/event`, `domain/entity/message.go`, `infra/onebot/convert.go` | - (ledger in the log) | conversion, limiter, word filter, persist, command, reply | every stage ends early; steps fail after effects; filter and model look at different views of a message |
| word matcher | `pkg/ahocorasick` | an automaton | New, Find | matches along fail links |
| prompt builder | `service/memory/builder.go` | - | messages of a prompt, lazy image descriptions, profile, facts, summaries | copies the window first and reads the summaries last, model calls between |
| media describer | `infra/ai/mediadescriber.go` | cache and failure table | Describe | one image under several keys; retries |
| profile cache | `service/memory/profile.go`, `service/admin/profile.go` | one entry per group | touch, read, invalidate | a query under way while the row is written |
| log query and log page | `pkg/logger`, `infra/logfile`, `service/log`, `handler/web/static/index.html` | log files; the list of the page | log, rotate, prune, list and read the files, show a page | the files change while they are read, and between the pages, which go on by offset with a range that moves |
| memory tools | `infra/ai/tools/memory_tools.go`, `service/admin/memberfact.go` | `member_facts`, `group_jargon` | store, forget, learn; add and delete by an administrator | one set of tools serves the turns of all sessions |
| configuration and start | `pkg/config`, `cmd/bot/main.go`, `infra/sqlite/storage.go` | config.yaml, schema, persona templates, secret file | write the template, load, migrate, seed, build the models, resolve the secret, find a port | dies or fails between any two statements; the operator edits the file between starts |
| admin accounts, jargon and persona | `service/admin`, `pkg/jwt` | `admin_user`, tokens, `group_jargon`, `persona` | register, login, change password, add, confirm, delete, edit a template | every request checks first and acts later |
| plugins and group management | `service/plugin`, `infra/onebot/group_manager.go`, `infra/ai/tools/group_tools.go` | plugin processes and routes | discover, dispatch, help, guarded actions, close | guards are read one by one while they change; several actions, one fails; the tools of one answer run in parallel |
| connection and providers | `infra/onebot`, `infra/ai` | - | remote calls, wiring | external |

How they interact: a message passes the limiter and the word filter, is **appended to the
window and then saved** (memory service); if the append reports a full window,
compression is triggered once the insert succeeded. It is then either a command (plugin
service, whose result may ask for group actions) or is judged by trigger control; if that
passes, a prompt is built from the window, the hot chain, the profile and the member facts,
images are described on the way, the agent is asked, its reply is sent, appended and saved, and
accounted in `bot_state`. The admin pages write the rows that control, profile cache,
group management and prompts read.

What makes each correct, in one line:

- compression: what leaves the window through it is told by a summary, once, and stays told;
  a full window is compressed in the end; a failing model is left alone for a while;
- control: the rules hold over the whole history of replies, not only over the last state;
- pipeline: a message ends once, refused ones leave no trace, a sent reply is accounted and kept;
- prompts: no hole between window and summaries, the message asked about at the end;
- images: no storm of retries, and nobody new goes to work on an image that is described;
- profile cache: never stale once the writing request has returned;
- log page: no gap, whatever is written and put aside between its queries;
- start and admin pages: nothing half done after a crash, tokens and edited templates survive,
  one registration, nothing unreviewed in the prompts;
- plugins: no action without its guards, in a command none after a failed one, no process left behind.

## 2. The modules

```
Window        SummaryStore                     pure operators and the store's steps
     \          /
     Compressor --- CompressorRefinement --> CompressionCycle   (abstract, with liveness)
      |
     PromptContext                             prompts built beside the compressor
ControlRules -- Control
WordMatcher -- Pipeline
Message ------ Pipeline, ImageDescriptions     parts, views and labels: pure
ProfileCache -- PromptProfile                  turns, tools and facts beside the cache
LogQuery
Settings -- Startup -- AdminConsole
Commands
*Proofs                                        theorems (section 5)
MC*                                            constants for TLC
```

Definitions named "Fault, for the checks" are deliberate defects; each one can be put in
the place of the definition that follows it, and the property it is meant for then
fails. They occur in no specification.

### Compression: `Window`, `SummaryStore`, `Compressor`, `PromptContext`, `CompressionCycle`

`Compressor` is one session. Messages are numbered as they arrive; `IdOf` gives their
MessageID. `window` is `SessionWindow.messages`, `signals` the handlers that saw a full
window and have yet to call `Trigger`, `inflight` and `cooling` the two maps of
`Compressor`, `pc`/`batch`/`fusing` the goroutine of a run, `chain`/`nextSeq`/`loaded`/`archive`
the summary store and its table. A summary
is its number and the set of messages it tells of; the wording is not modelled.

`Arrive` is the append, which may signal; `LoseSignal` the insert that fails after it;
`TriggerStarts`/`TriggerSkips` are `Trigger`; `Snapshot`, `Summarize`, `SummarizeFails`,
`CheckChain`, `Fuse`, `FuseFails`, `Trim`, `RecordFailure`, `Release` are `run` and `compress`
between their calls; `Crash` is a death at any point, also between the saves of
`ReplaceWithFused`. `dropped` is a history variable: summaries whose save failed or that died
with the process.

`PromptContext` adds prompts that are built meanwhile: `CopyWindow` is the copy at the beginning of
`BuildMessages`, `ReadChain` the read of the chain at its end, and any number of messages,
compressions, fusions and restarts may fall between. `forgotten` is a history variable: what the
session has given up knowingly, as a full window or a failed fusion does.

`CompressionCycle` is what compression promises: a length, a stage, the mark, the cooldown.
`CompressorRefinement` maps the run that is at work to the stage and the window to its length;
`ImplementsCycle` says that every behaviour of `Compressor` is one of the cycle. Liveness is
checked on the cycle, where the graph is small.

### Trigger control: `ControlRules`, `Control`

`ControlRules` holds the pure part: `NewRuleConfig` (the configuration over the defaults of the
code), `Merged` (row over global values), `ValidRow`
(the admin validation), `InQuietHours`, `Recovered` (energy for whole minutes), `AutoPasses`,
`AfterReply`. `Minute` and `DayLength` are constants, so that a day fits into a run.
`Control` gives each handler the steps of `ShouldReply` (resolve the row, create it if it is
missing, read the state, decide) and of `OnReplied` (lock, resolve, load, persist) with the
model call between; the store operations are atomic and may fail. A behaviour is about a
group or about a private session, which has no row and whose messages are all answered; their
replies are accounted like others unless the global mode is that of mentions. An administrator writes valid rows and deletes them, the clock ticks, the
process crashes. `history` is the list of accounted replies with the rules they were accounted under and
the state they left; `kept` the
row an administrator wrote while no creation of a row was under way.

### The pipeline: `Message`, `WordMatcher`, `Pipeline`

`Message` is what the connection layer makes of the segments of an event (`ToParts`, with the
hash of an image from its bytes or one of two fields), the views that are taken of the parts
(`PlainText` for filter and commands, `ForLLM` for the model), and what is kept of an answer
(`WithoutLabels`). A text is a sequence of
letters in lower case (`strings.ToLower` goes character by character, so lowering commutes with the
joining of parts), where a letter is a byte; a placeholder is one letter that no word of the filter
need hold.

`WordMatcher` is `New` and `Find`: the trie, the fail links in breadth-first order, the walk. A listed
word is its lower case, by which it is found, and the number of bytes it has as it is listed, by which
`Find` counts back to its start (`ahocorasick.go:104`); the two differ for a few characters.
`Occurring` and `FirstOccurrence` define what it must find without an automaton, `Shortened` the words
that lower case shortens.

`Pipeline` has one handler per message. Its content is a sequence of segments: enough to hold a
word in one of them or across several, a command, both or neither. The steps are the conversion and
`logMiddleware` (`Enter`, or `Ignore` for an event that is no message), the limiter, the word
filter, `persist` (append, then insert), `Dispatch` (command) or `Judge`, `Build`, `Generate`,
`Send`, `AppendReply`, `SaveReply`, `Account`. What triggers, limiter and plugins decide is open;
a run of the agent is any short sequence of outputs and errors. `Trim` is the effect of a
compression. `ledger` is the list of outcome lines, `prompt` what a model call is given after the
system text.

### Others

- `ImageDescriptions`: prompts under construction walk through the undescribed images of
  their copies; `todo` is the set of places (message, position) yet to be looked at, the least of which comes
  next; `cache` and `fails` are the two maps, `key` the key of the image, which a
  download replaces by the hash of the content. The call by URL and its fallback with the
  downloaded bytes are one step. The pictures are image parts that `Message` makes of segments.
  Images without a source are left out: nothing is stored for them.
- `ProfileCache`: the mutex is held over the query of a touch that misses; the admin
  operations write without it and take it to invalidate.
- `PromptProfile` extends `ProfileCache` by the turns of its handlers, of the group or of a private
  chat: the profile is read, then the facts of one member after the other, then the tools of the
  model store and forget. An administrator adds and deletes facts of any session. There is no property
  of the facts themselves (section 6).
- `LogQuery`: entries are stamped by zap and later written under the file's lock, so one
  file can hold entries out of order (`Overtaken`); lumberjack rotates and prunes. A query lists the
  paths (`Listed`) and then opens one after the other (`ReadFile`, `SkipFile`), while entries are
  written, files put aside under new paths and backups removed. A read of one file is one step: a file
  is only appended to, so what a reader sees is the file as it was at one moment. The log page keeps a
  list for every level, and asks for each by itself; `view` is one of them, or that of another client
  that asks for several levels. `Refresh` empties it and asks anew, `LoadMore` asks for what follows
  the end of the list with the range and the trace id that the fields hold by then (`index.html:717`),
  `ShowAnswer` puts the answer in or behind, however late it comes. `steady` remembers that nothing
  got in the way of the queries of the list.
- `Settings` is config.yaml as a record of the fields that the start depends on: what a reference to
  a model means, what an empty field stands for, what cannot be built.
- `Startup`: the template of config.yaml, which may be written in part, loading, migrations in
  transactions, the seed of the persona template, the models, the secret, the first free port. The
  operator may edit config.yaml at any time. The first migration is older than the table of versions and creates only what is not there.
  Any statement may fail, which ends the process.
- `AdminConsole` extends `Startup` by the requests that a running process serves: accounts, jargon
  and the template of a persona. Each is
  a goroutine between whose statements anything may happen. `early`, `roomy` and `endorsed`
  remember what a request may rely on. A request that the limiter, the validation or
  `verifyAuth` refuses changes nothing and is not a step. SQLite counts the rows an UPDATE
  matches, also those it leaves as they were.
- `Commands`: the process from `Discover` to its end, plugin processes, the command branch of
  a handler, `/help` and the tools of the agent, with the guards of `Execute` as steps of their own.
  A handler has a step for each of its actions. Those of a command follow one another. Those of one
  answer of the model are all under way at once: `NewEinoAgent` leaves `ExecuteSequentially` unset
  (`agent.go:57`), and eino, which is external here, then calls the tools of an answer in parallel,
  waits for all of them and ends the run if one of them failed. At most `MaxRounds` answers of a turn
  call tools. Other tools (`store_fact` and its kin) share no state with these and are left out.
  Roles belong to the platform. A failed query counts as a refusal, as in the code.

## 3. The runs

Nine runs pass, three show a disagreement (section 4). Symmetry is used only for handlers, callers,
runs, messages, names, passwords and words that the module treats alike, and never with liveness.
Deadlock is checked where a system never stops (`CompressionCycle`, `PromptProfile`);
the others end at a bound of the model, and `Commands` when the process does.

| Run | What it shows | Bounds, and why they are enough |
|---|---|---|
| `Compressor` | one run at a time (`SingleRun`), none in a cooldown (`CooldownHolds`), nothing summarised twice (`DigestedOnce`), nothing forgotten unnoticed (`Remembered`), the chain bounded (`ChainBounded`), a trim takes only what was summarised (`TrimsOnlyDigested`), the archive is never overwritten (`ArchiveImmutable`), a prompt has no hole (`PromptHasNoHole`), and the refinement (`ImplementsCycle`) | window 3 of which 1 is kept, so a batch of 2 and messages arriving during a run; chain 2, so fusing and evicting; 8 messages fill the window, the chain and an archive; 2 runs, 2 signals; 1 restart; 1 prompt under construction, since prompts write nothing |
| `CompressionCycle` | `FullIsCompressed`, `MarkIsReleased` | window 8, kept 2, 3 signals: several triggers wait while a run is at work and while the cooldown lasts |
| `Control` | `TypeOK`, `NoLostUpdate`, `BurstsEndInRest`, `NoFreeEnergy`, `PassRespectsHistory`, `RestNotProlonged`, `AdminRowStays` | a group or a private session, 2 handlers, 3 replies, a minute of 2 ticks, a day of 50, the clock from 94 to 96, so quiet hours span midnight at 100 - the row's run from 48 to 1 -, cooldown 1, limit 2, rest 2; three rows: silence, longer cooldown with limit 1, cheaper replies and quiet hours, an invalid one |
| `Pipeline` | `Accountable`, `RefusedLeavesNoTrace`, `PromptEndsWithMessage`, `SentIsAccounted`, `EvictedIsStored`; and, as assumptions TLC evaluates, that the matcher is right for three words of up to three letters in texts of up to five (`FindIsRight`), that it misses none where lower case shortens no word that occurs (`FindMissesNone`) and does miss one where it does (`ShortenedIsMissed`), that a word the model can read stands in the plain text too, for contents of up to three segments (`PlainTextIsEnough`), and that only labels are taken off an answer of up to five letters (`LabelsAreTakenOff`) | 3 messages on a window of 2, so that the message of a handler is evicted under it; one crash; two words that share letters, one that lower case shortens, and an empty one; five contents: a word missed by little, across a mark, with the id of a face inside a command, a slash alone, a command after a mark; three answers: text, labels only, a blank after a label |
| `ImageDescriptions` | `NoRetryInCooldown`, `SameImageOnce`, and the assumption that a picture has the hash of its content wherever it is to be had (`HashIsContent`) | 2 prompts, one picture under two URLs without a hash and once with it, one message without a MessageID; cooldown 1 tick; one message leaves the window. The cache bound is above the number of keys |
| `PromptProfile` | `NotStale`, `PromptShowsProfile`, and under fairness `StaleEntryGoes` | 2 handlers, so that a private turn and one of the group overlap, 2 requests, 2 profiles, 2 members with a fact each, crashes without a bound |
| `LogQuery` | `OneLevelHasNoGap`, `PagesAreSound` | 4 entries by 2 goroutines, rotation before any write, a change of the threshold; one query at a time; requests for one level without a begin and from one on, so that the begin moves between pages, one of a session until an end, all levels, and a span the handler refuses. With two queries at a time and 3 entries the run passes, too, in several minutes; the proofs are for any number |
| `AdminConsole` | `SchemaOnce`, `TokensSurviveRestart`, `ReviewHolds`, `PersonaStands`, `RegistrationCloses`, `AddWithinCap` | 3 requests, since the races are between a check and an act of two, with one to open the way; 2 migrations of 2 statements; 2 secrets; a token lives 1 tick; room for 1 word of 2; 2 agents, 1 edit of config.yaml, to another agent or to models that cannot be built; 2 ports |
| `Commands` | `GuardsHold`, `CommandStopsAtFailure`, `NoProcessLeft` | four directories, two of one name with a common command, one of the same name in capitals, one that cannot be loaded; help by name, by a name in other case and by command; up to three actions of a command; two rounds of up to two tools, which differ in nothing but their call, so that one tool can pass a guard while the other is behind it or has failed; one handler, since handlers write nothing they share |

Notes on what the properties leave room for, because the code does:

- `Accountable` allows a message whose insert fails to end without an outcome line.
- `RegistrationCloses` allows several registrations that all *began* on the empty table to
  succeed under different names (the UNIQUE constraint only holds within a name).
- `GuardsHold` allows the calls of the actions that had passed a guard when it fell: the guards are read
  before the call. In a command that is one at most, in a turn of the agent the tools of one answer.
- `SameImageOnce` is about keys, the content where a hash or bytes are to be had and else the URL: nobody
  starts a download or a model call for a key that the model has described. A caller that was
  already at work finishes; one whose download fails goes on under the URL key of the image
  (`mediadescriber.go:143`), although the content may be described under its own; and an empty answer is
  not cached (`mediadescriber.go:231`), so the model is asked again.
- `RefusedLeavesNoTrace` is about messages in which no word occurs that lower case shortens: the assumption
  `ShortenedIsMissed` shows what becomes of the others (section 4).
- `PromptShowsProfile` allows a missing profile when the entry was invalidated, or the query
  failed, between a handler's touch and its prompt.
- `OneLevelHasNoGap` is about one level: the log page of the front end asks for one at a
  time (`docs/architecture.md`, 17.6). It needs entries of a file written in the order of
  their times, and leaves out (`steady`) the lists one of whose queries had a file put aside or removed
  while it was under way, overlapped another one (nothing disables the button), or had another trace id
  or end. A file put aside after the directory was listed is not found, and its entries are missing from
  the list: the code does this, and the next refresh mends it. An entry may be shown twice when others were
  written since the page before. `PagesAreSound` needs none of this.
- `AdminRowStays` is about rows written while no handler is about to create one: a handler that has
  found none before still overwrites the row of the administrator.
- `PromptHasNoHole` leaves out what the session gives up knowingly: messages a full window pushes
  out, a summary evicted after a failed fusion, the memory of a process that died.
- The limit of replies in a row only matters for forced replies (mentions) and concurrent ones:
  unprompted ones are normally a cooldown apart, and a pause of a cooldown resets the count.

### Fairness

`CompressionCycle!LiveSpec` is about a process that stays up in a session where messages keep
arriving. Steps of a run and the end of a cooldown are weakly fair: goroutines are scheduled
until they end and a model call returns within its timeout. `Start` is strongly fair because a
handler that saw a full window triggers unless its insert fails, and inserts do not fail for ever;
`Answer` is strongly fair because the model answers sometimes. Without the latter a window
is rightly never compressed.

`PromptProfile!PromptSpec` has the fairness of `ProfileCache`: a query returns (weak fairness), and
an invalidation that waits for the mutex gets it although touches keep taking it (strong fairness):
Go's mutex goes into its starvation mode after one millisecond and hands itself to the one who
waits. A crash may come at any time; the cache is empty after it.

The other specifications state no fairness and only safety is checked of them.

## 4. Where code and documents disagree

- **`SummarySeqReuse`** (`summary.go:63`): after a restart, if `ListSummaries` fails, numbering begins
  at 1 again, and the next summaries overwrite archived ones. The comments promise numbers that do not
  repeat across restarts.
- **`CooldownBypass`** (`control.go:115`): two handlers judge before either reply is accounted; both
  unprompted replies go out within one cooldown. The comment on the lock says that it prevents this.
- **`LogPage`** (`logfile.go:47`): a page over several levels is filled from the file written last
  and then sorted; it misses newer entries of other files. The comment promises the newest first.

Met while modelling, and not given a run of their own:

- The word filter lowers text and words, but counts the start of a match back by the bytes of the word as it is
  listed (`ahocorasick.go:104`). Where lower case has fewer (the Kelvin sign has three, its `k` one), a match at
  the beginning of a text gets a start below zero, which line 115 takes for none: the message is stored,
  reaches prompts and may be answered. The comment at 20 promises a match whatever the case, and
  `docs/zh/configuration.md` (90) that a message that holds a word is discarded. `Find` of `WordMatcher` counts so,
  and `ShortenedIsMissed` of `MCPipeline` is such a text.
- Registrations that are under way together all find the table empty, and each creates an account under a name
  of its own (`auth.go:24`). `docs/admin-web-api-plan.md` (8.2) says that whoever comes first creates the *only*
  initial account, and that registration closes for good with it. The second half holds for every request that
  begins once there is an account (`RegistrationCloses`), not for one that is between the look and the insert.
- A further page of the log is asked for with the range and the trace id that the fields hold by then, and put
  behind the list (`index.html:717`; `LoadMore` of `LogQuery`). The comment at 678 and `docs/architecture.md` (17.6)
  say that they wait for the next refresh.
- `OnReplied` sets the energy's time to now, so the seconds short of a minute that `recoverEnergy` keeps
  (`control.go:358`) are lost at every reply.
- A message whose insert fails has no outcome line (`event.go:70`; `outcome.go:6` promises one each).
- The failure table of the describer keeps expired keys; with 2000 of them no failure is recorded any
  more (`mediadescriber.go:294`).
- A description whose save failed is put into the window all the same, so it is never saved
  (`builder.go:137`; the comment at 134 promises a retry).
- `botSender.Send` ignores what `SendChain` returns (`sender.go:36`): a reply the platform refuses is
  saved and accounted. In `Pipeline`, `sent` means that `Send` returned without error.
- If the start fails after `Discover`, the process exits without its deferred closes and leaves plugin
  processes (`main.go`; phase `exited` of `Commands`, which `NoProcessLeft` does not speak of).
- Messages without a MessageID share the empty one; a trim removes all of them. The repository
  lists it as open (`docs/roadmap.md`, B-041); the runs give every message an id of its own.
- config.yaml is written in place (`config.go:310`): if the process dies meanwhile, the next start takes
  what is there for the file. Cut inside a quoted or nested value, it may not be parsed, and no start
  succeeds; cut inside a plain scalar, it is parsed and the value is a shorter one, which may be valid or
  not; cut before `admin`, the admin pages are off; cut before `agent`, the persona is seeded with the prompt
  of the code and stays so. `TemplateCut` of `Startup` cuts between two fields or leaves a file that cannot be
  parsed; no property depends on the shortened value.
- A start that fails after the seed (no model, an unknown tool) has already fixed the template of the
  persona: the prompt that is corrected in config.yaml before the next start is not taken over.
- With `admin.enabled: false`, `newWebServer` is given the bare port as its address, which is none; the
  comments at `main.go:230` and 271 say that it listens on a fixed 127.0.0.1:8080.
- Two prompts that describe different images of one message each write its whole row from their own
  copies: the later one takes the earlier description back (`builder.go:133`; `NextImage` and `Persist`).
- `storage.go:465` says that a group without a row has group management off; `Execute` takes it to be on.
- The mode of a private session is not normalised (`control.go:170`), as that of a group is: what is not
  "mention" is accounted.
- A turn of a private chat may store facts about another user, and they are shown in that user's own
  private prompts (`memory_tools.go:110`: the model names the user).
- The author of the message a prompt answers may have left the window before its copy; the prompt then has
  no facts of the one it talks to, though it would have the name (`builder.go:258`).
- The model's `[a]: [b]: text` keeps its second label: the blank after the colon ends the loop
  (`event.go:120`), though the comment says that several in a row are taken off.
- A plugin's reply with `At: "0"` becomes `message.At(0)`, which mentions everyone; only the branch for the
  sender guards against it (`sender.go:65`).
- `/help` for a name that differs from two plugin names only in case takes whichever the map yields
  first (`plugin.go:197`; `LookedUp` of `Commands`).

## 5. The proofs

Eight modules hold the theorems; TLAPS checks them for every value of the constants that meets the
`ASSUME`s of the modules, which TLC evaluates in every run. Every safety property of a run is proved,
invariant or action property, and so is the refinement of `CompressionCycle`.

Two arguments recur. Induction over naturals and finite sets, which the library states for an operator, is done by a
least counterexample: a set of naturals that is not empty has a least element (`LeastNatural`, `GreatestExists`, from the
theorem on well-founded relations). And a recursive function is first shown to exist (`Recursion` of
`PipelineProofs`), since `f[x \in S] == e` alone is a choice.

Some theorems have a hypothesis on the constants, stated in the theorem:

| Hypothesis | Says | Why it is needed |
|---|---|---|
| `OneEach` | no two messages share a MessageID | the code removes and stores by MessageID. The platform's are unique; what becomes of messages without one is a known disagreement (section 4) |
| `Identified` | every message has a MessageID | `BuildMessages` takes a message without one to be the last of the window, which another append may have made untrue |
| `LoadMayFail = FALSE` | `ListSummaries` returns no error | `SummarySeqReuse` shows what happens otherwise |
| `NoSecretConfigured` | no config.yaml sets `admin.jwt_secret` | with one the operator decides how long tokens last; the run's files have none |
| `RoomForAll` | fewer keys than the cache and the failure table hold | a full failure table records nothing (section 4) and a full cache forgets |

**`CompressorProofs`**, for any window, chain, number of messages, runs, restarts and prompts:

- `TypeCorrect` from `TypeInv`, which adds that the numbers in use are positive and bounded: only then is there
  a greatest one, from which a load continues, and `nextSeq` is a number.
- `OneRunAtATime`, `NoRunWhileCooling` from `RunInv`, the two together with the types: the mark is set
  exactly while a run exists, and in a cooldown that run can only be about to release it. That
  `RecordFailure` comes before `Release` is what makes it inductive.
- `NoMessageTwice` from `DigestInv`, which adds `DigestedOnce` to `RunInv`: with one run at a time, a message
  of the window that has a summary is in the batch of the run at work.
- `ArchiveNeverOverwritten` and `DigestedIsRemembered`, both under `LoadMayFail = FALSE`. The invariant is `SeqInv`:
  the numbers of the known summaries are unique and, once loaded, below `nextSeq`; a chain that is not loaded is
  empty. A load reads the newest `SummaryCap` rows only, but the greatest number is among theirs
  (`LoadContinuesAbove`). A step then writes rows with numbers of their own (`StoreOpFresh`), so an upsert replaces
  none (`UpsertKeeps`). For the second, a store step keeps what the chain and the archive tell, up to `dropped`
  (`StoreOpKeeps`).
- `TrimsAreDigested`, under `OneEach`, from `WindowInv`: what a run is about to trim has a summary (`BatchTold`), and
  however many messages have arrived or been evicted since its copy, enough stays without its batch (`BatchLeaves`).
- `CompressorImplementsCycle`, under `OneEach`: every action maps to one of the cycle or to a stutter (`CycleStep`);
  `BatchLeaves` is what makes the length after a trim the one the cycle promises.
- `ChainStaysBounded`, without a hypothesis, from `ChainInv` and the length: numbers are unique within the chain and
  within the archive, though after a failed load one may repeat the other's; so evicting the oldest removes one.
- `PromptsUseTheCompressor`: the specification with prompts refines `Compressor` (a prompt that reads the chain loads
  it at most), so all of this holds of it too.
- `PromptsHaveNoHole`, under `OneEach` and `LoadMayFail = FALSE`. On the side of the compressor `TellInv`: the
  batch at work is told by the newest summary of the chain, which an eviction spares, and the chain that is being fused
  is the one that was read. On the side of a prompt `CopyHasRest`: what there was at its copy is in the copy, in
  the chain or given up.

**`ControlProofs`**, for any rules, rows and number of handlers. `ControlAssumption` takes the global parameters to be
naturals with a positive rest: a value of 0 in config.yaml falls back to the 300 seconds of the code, and a negative one,
which nothing refuses, is not considered.

- `ControlTypeCorrect`, over lemmas on the types of `Merged`, `Recovered` and `AfterReply`;
- `AccountsNotLost` from `LockInv`: exactly the handler between `Lock` and the end of `OnReplied` holds the lock,
  and what it is about to write over is what it has loaded;
- `RestsNotProlonged`: the end of a rest changes only by a reply made after it;
- `AdminRowsStay` from `RowInv`: a row is only created by a handler that has found none, and a row is
  remembered in `kept` only while there is no such handler;
- `BurstsAlwaysEndInRest`, `EnergyNeverFree`, `PassesRespectHistory` from `HInv`: the stored state is the one the last
  reply left, no reply is later or rests longer than it says (`HistoryInv`), and the replies of a run without a pause
  and without a rest are all counted and stay below the limit that each was accounted under (`CountInv`);
- `NewRowIsNeutral`: the row that is created for a new group, merged over the global values, gives the global values.

**`PipelineProofs`**, for any messages, words, contents, window and crashes:

- `FindMissesNothing`, for every list of words and every text in which no word occurs that lower case shortens
  (`Shortened`): `Find` over what `New` builds finds something if and only if a word occurs. The fail link of
  a node leads to its longest proper suffix in the trie, and the walk stands at the longest suffix of what it has
  read. `FindIsFirstOccurrence`: where every word that occurs has the bytes it is listed with, what is found is the
  word that begins first, and of those that begin there the longest. TLC checks both over small words
  (`FindIsRight`, `FindMissesNone`), and that the first fails without its hypothesis (`ShortenedIsMissed`);
- `PlainTextShowsEveryWord`: the letters of the model's view that are no marks stand in the same order, without a gap
  between neighbours, in the plain text; so a word without marks that stands in the one stands in the other. A word
  that holds a mark cannot be read in either (`Readable`);
- `LedgerAlwaysAccounts` from `LedgerInv`: a handler that is under way has logged nothing;
- `RepliesAlwaysAccounted` from `AnsweredInv`: where a handler that has sent can be, and that the row comes before
  the account;
- `PromptsEndWithTheirMessage`, under `Identified`; its invariant is the property itself, as the prompt is built in one
  step, whatever the window holds by then;
- `EvictedIsAlwaysStored`, under `OneEach`, from `KeptInv`, which says the same of what is still in the window;
- `RefusedNeverLeavesTrace` from `QuietInv`: of a message before the filter nothing is to be found, and one in which a
  word can be read, but none that lower case shortens, ends at the filter, by `FindMissesNothing` and
  `PlainTextShowsEveryWord`.

`IdsAssumption` says that a MessageID of the platform is no `self` id, `TextsAssumption` that words and texts are
sequences and that a listed word has a number of bytes.

**`ImageDescriptionsProofs`**, for any session, images and number of prompts, under `RoomForAll`:
`NoRetryWhileCooling` and `NobodyAsksAgain` from `ImagesInv`: every failure is recorded for the whole of its
cooldown, and a key for which the model gave a description is cached. The second is about keys, as `SameImageOnce` is.

**`LogQueryProofs`**, for any requests, limits, entries, goroutines, files and queries under way:

- `PagesAlwaysSound` from `FilesInv` and `QueriesInv`. No two places of the files hold the same time, files differ in
  their times of modification, and the current file is the newest of its name. A query that is under way has
  collected entries that were written and asked for, each once; the paths it still has to read are of files that hold
  nothing of what it has collected, although the current file may have been put aside since under a path of its own.
  What was collected can then be ranked by time (`InOrderIs`: a finite set has each member once, in the place its rank
  gives), and a page is the entries of the next ranks.
- `PagesLeaveNoGap` from three more invariants. `InTimeOrder` and `Complete`: while no entry overtakes another, older
  files hold older entries, and what is newer than a line on disk is on disk. `ListInv`, while the list is `steady`: there
  is one query at a time, it goes on from the list (`Continues`), it has its files in the order of their age (`InTurn`),
  and so what it has collected is newer than all it has not (`Covers`). The property alone is not inductive, for two
  reasons. A page goes on by offset, so at least as many known entries must be as new as the end of the list as the
  list has (`PageInv`): the program only adds newer ones, lumberjack takes from the old end, and a begin that moves
  forward cuts off that end too. And a file may become unreadable and be pruned again, so the invariant speaks of a file
  only when it and all newer ones can be read (`Clean`).

`LogAssumption` says that the limits are positive, that `None` is no request and the times of a request are numbers.

**`PromptProfileProofs`**, for any number of handlers and requests: `ProfileTypeCorrect`, `CacheNotStale` and
`PromptsShowProfile`, from an invariant that says of what a query has loaded that it is the row or that
an invalidation is still to come, which waits for the mutex, and of a missing entry at a prompt why it is
missing. `PromptsUseTheCache` says that turns and facts add nothing to what the cache does.

**`AdminConsoleProofs`**, for any migrations, accounts, words, requests, edits and crashes:

- `SchemaAlwaysOnce` from `SchemaOK`: between two commits the schema is what the record says, except for the first
  migration, and a start is past the migrations only when all are done;
- `PersonaAlwaysStands` from `PersonaOK`: the table holds what an administrator wrote, and the seed puts a template
  only where there is none;
- `TokensAlwaysSurvive`, under `NoSecretConfigured`, from `SignedOK`: the secret of a running program is that of the
  file, which signed every token;
- `RegistrationStaysClosed`, `ReviewAlwaysHolds`, `AdditionsStayWithinCap` from `EarlyOK`, `ReviewOK`, `RoomOK`: what a
  request has checked before it acts, it may still rely on in the sense of the property.

**`CommandsProofs`**, for any plugins, directories, actions, rounds and messages:

- `TypeCorrect`, with `Turns`: of the actions of a command at most one is under way, those before it succeeded and those
  after it have not begun, while the tools of an answer of the model may stand anywhere;
- `GuardsAlwaysHold` from `LastCall`: the calls since a guard fell and the actions that are behind it still are together no
  more than the actions that had passed it, and in a command that is one at most;
- `CommandAlwaysStops` from `InTurn`: the calls made are the actions before the one that is under way, all of them
  successful;
- `NoProcessIsLeft` from `Kept`: every process that runs is one of a directory that was kept.

Only model-checked: liveness (`FullIsCompressed`, `MarkIsReleased`, `StaleEntryGoes`), which needs fairness and
ENABLED; and `LabelsAreTakenOff` and `HashIsContent` over bounded inputs. No module declares a RECURSIVE operator.

## 6. What is not modelled

- The count of tokens in the limiter: it grants or refuses.
- The branches `no_sender` and `prompt_fail` of `respond`: the sender is always injected and the window's
  copy cannot fail, so the wired program never takes them.
- Synthetic MessageIDs of replies that collide within a nanosecond.
- Wording: of prompts, summaries, fixed texts, help and log lines; parsing of the model's JSON.
- The caps on jargon and facts in a prompt, which leave lines out; the tables are read without an order.
- The validators other than that of `group_config`: one-line checks before a write.
- How a reply becomes message segments (`sender.go`), a mapping of fields.
- The end of the admin server at shutdown: it waits up to five seconds for requests, and no other step of
  the program depends on it.
- A secret file that exists but cannot be read: the code would make a new one.
- What lower case does to a word but for its number of bytes: words and texts are lowered in the model, and
  a listed word has a size of its own, which may be greater.
- A property of member facts: a store is one INSERT OR IGNORE, a forget one DELETE. A correction is a forget and a
  store that eino may run side by side, and all private chats share the session of the empty group.
- A turn that calls tools of several modules: those of group management are in `Commands`, facts in
  `PromptProfile`, jargon in `AdminConsole`. They share no state.
- A read of one log file while it is written: it is one step (section 2).
- Remote calls (OneBot API, models), process start of plugins, HTTP binding, wiring: external or pure I/O.

## 7. The plan

Order of the work: compression and its store, control, pipeline, caches; log page, start, admin console,
commands; then the prompt beside the compressor, private sessions, the content of messages, the
configuration, personas, member facts and help; then the proofs of their safety properties (all done). Next, in
this order:

1. Prove of `Message`: that only labels are taken off an answer (`LabelsAreTakenOff`).
2. Compose `Pipeline` with `Compressor`, so that the trim there is the one proved here; the token bucket of
   the limiter as an algorithm.
