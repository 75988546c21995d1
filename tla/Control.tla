------------------------------ MODULE Control ------------------------------
(***************************************************************************)
(* Trigger control of one session (internal/service/control), of a group   *)
(* or of one person, under concurrent message handlers and the admin       *)
(* pages.                                                                  *)
(*                                                                         *)
(* Every message has a handler goroutine.  ShouldReply decides without a   *)
(* lock; prompt building, the model and the send follow, which may take a  *)
(* minute; OnReplied then updates bot_state under the session's lock.  The *)
(* store operations are atomic and anything may fall between two of them:  *)
(* other handlers, an admin writing or deleting the group's row, the       *)
(* clock, a crash.  A private session has no row: every message is for the *)
(* bot, and the global rules account for the replies.                      *)
(***************************************************************************)
EXTENDS ControlRules, FiniteSets, Sequences

CONSTANTS Handlers,     \* message handlers that can be at work at a time
          DefaultMode,  \* config control.mode, as written
          Defaults,     \* the global rule parameters in force
          AdminRows,    \* rows the admin pages may send
          Messages,     \* messages of the group: whether the bot is mentioned, the length
          StoreMayFail, \* whether storage operations can return an error
          Epoch,        \* the clock at the start
          MaxTime,      \* bound of the model: the clock's last value
          MaxReplies,   \* bound of the model: replies sent and not lost in a crash
          None

ASSUME ControlAssumption ==
    /\ DefaultMode \in STRING
    /\ Defaults \in [Params -> Nat] /\ Defaults.rest > 0
    /\ \A r \in AdminRows : \A name \in Params : r[name] \in Int
    /\ Messages \subseteq [mentioned : BOOLEAN, chars : Nat]
    /\ StoreMayFail \in BOOLEAN
    /\ Epoch \in Nat /\ MaxTime \in Nat /\ Epoch <= MaxTime
    /\ MaxReplies \in Nat
    /\ None \notin Handlers \cup AdminRows

VARIABLES private,   \* whether the session is a private one
          now,       \* the clock
          row,       \* the group's group_config row, or None
          st,        \* the session's bot_state
          lock,      \* the handler that holds the session's lock, or None
          pc,        \* where each handler is
          msg,       \* the message it handles
          mode,      \* the mode resolveParams gave it
          rules,     \* the parameters resolveParams gave it
          stamp,     \* the time it has read
          loaded,    \* the state it has loaded
          kept,      \* history: the row an admin has written while no handler was about
                     \* to create one, None once it is deleted
          history    \* history: the replies accounted, with their time, whether they
                     \* were forced, the rules then in force and the state they left

locals == <<pc, msg, mode, rules, stamp, loaded>>
store == <<private, row, st, kept>>
vars == <<now, store, lock, locals, history>>

Steps == {"idle", "judge", "judgeNew", "decide", "replying", "account",
          "accountNew", "load", "persist"}
Accounting == {"account", "accountNew", "load", "persist"}

NoMsg == [mentioned |-> FALSE, chars |-> 0]

Init ==
    /\ private \in BOOLEAN
    /\ now = Epoch
    /\ row = None
    /\ kept = None
    /\ st = NoState
    /\ lock = None
    /\ pc = [h \in Handlers |-> "idle"]
    /\ msg = [h \in Handlers |-> NoMsg]
    /\ mode = [h \in Handlers |-> "mention"]
    /\ rules = [h \in Handlers |-> Defaults]
    /\ stamp = [h \in Handlers |-> 0]
    /\ loaded = [h \in Handlers |-> NoState]
    /\ history = <<>>

Goto(h, step) == pc' = [pc EXCEPT ![h] = step]

\* The handler's variables that are dead when the rules have passed, and when it ends.
Clear(h) ==
    /\ mode' = [mode EXCEPT ![h] = "mention"]
    /\ rules' = [rules EXCEPT ![h] = Defaults]
    /\ stamp' = [stamp EXCEPT ![h] = 0]
    /\ loaded' = [loaded EXCEPT ![h] = NoState]

Finish(h) ==
    /\ Goto(h, "idle")
    /\ msg' = [msg EXCEPT ![h] = NoMsg]
    /\ Clear(h)

-----------------------------------------------------------------------------
(* ShouldReply. *)

\* A message arrives.  One that mentions the bot is answered without any rule.
Receive(h) ==
    /\ pc[h] = "idle"
    /\ \E m \in Messages :
        /\ private => m.mentioned
        /\ msg' = [msg EXCEPT ![h] = m]
        /\ Goto(h, IF m.mentioned THEN "replying" ELSE "judge")
    /\ UNCHANGED <<now, store, lock, mode, rules, stamp, loaded, history>>

\* resolveParams reads the group's row: its rules, or the global ones and a row to
\* be created.  The judging handler takes the time when the rules are known.
Resolve(h, found, missing) ==
    /\ mode' = [mode EXCEPT ![h] =
                   NormalMode(IF row = None \/ row.mode = "" THEN DefaultMode ELSE row.mode)]
    /\ rules' = [rules EXCEPT ![h] = IF row = None THEN Defaults ELSE Merged(Defaults, row)]
    /\ Goto(h, IF row = None THEN missing ELSE found)
    /\ stamp' = [stamp EXCEPT ![h] = now]
    /\ UNCHANGED <<now, store, msg, loaded, history>>

\* Fault, for the checks: any error of the query is taken for a missing row.
JudgeFindsNone(h) ==
    /\ pc[h] = "judge"
    /\ Resolve(h, "decide", "judgeNew") \/ (StoreMayFail /\ Resolve(h, "judgeNew", "judgeNew"))
    /\ UNCHANGED lock

JudgeResolves(h) ==
    /\ pc[h] = "judge"
    /\ Resolve(h, "decide", "judgeNew")
    /\ UNCHANGED lock

\* defaultGroupConfig: a snapshot of the global values.
Snapshot == [name \in Params \cup {"mode"} |->
                 IF name = "mode" THEN NormalMode(DefaultMode) ELSE Defaults[name]]

\* The row of a group seen for the first time is written; a failure is only logged.
CreateRow(h) ==
    /\ pc[h] \in {"judgeNew", "accountNew"}
    /\ \/ row' = Snapshot
       \/ StoreMayFail /\ row' = row
    /\ Goto(h, IF pc[h] = "judgeNew" THEN "decide" ELSE "load")
    /\ stamp' = [stamp EXCEPT ![h] = now]
    /\ UNCHANGED <<private, now, st, kept, lock, msg, mode, rules, loaded, history>>

Permitted(h) ==
    /\ mode[h] = "auto"
    /\ msg[h].chars >= rules[h].short
    /\ ~InQuietHours(rules[h], stamp[h])
    /\ AutoPasses(st, rules[h], stamp[h])

\* shouldReplyAuto: the rules pass and the reply is under way ...
Pass(h) ==
    /\ pc[h] = "decide"
    /\ Permitted(h)
    /\ Goto(h, "replying")
    /\ Clear(h)
    /\ UNCHANGED <<now, store, lock, msg, history>>

\* ... or a rule, the mode or a failed read of the store ends the handler.
Refuse(h) ==
    /\ \/ pc[h] = "decide" /\ (~Permitted(h) \/ StoreMayFail)
       \/ pc[h] = "judge" /\ StoreMayFail
    /\ Finish(h)
    /\ UNCHANGED <<now, store, lock, history>>

-----------------------------------------------------------------------------
(* The reply, and OnReplied. *)

\* The model has answered and the reply is sent.
Send(h) ==
    /\ pc[h] = "replying"
    /\ Len(history) + Cardinality({k \in Handlers : pc[k] \in Accounting}) < MaxReplies
    /\ Goto(h, "account")
    /\ UNCHANGED <<now, store, lock, msg, mode, rules, stamp, loaded, history>>

\* The prompt, the model or the send fails: the bot has not spoken.
SendFails(h) ==
    /\ pc[h] = "replying"
    /\ Finish(h)
    /\ UNCHANGED <<now, store, lock, history>>

\* Fault, for the checks: OnReplied does not wait for the lock.
LockAtOnce(h) ==
    /\ pc[h] = "account"
    /\ ~private
    /\ lock' = h
    /\ Resolve(h, "load", "accountNew")

\* OnReplied takes the session's lock and resolves the rules in force now.
Lock(h) ==
    /\ pc[h] = "account"
    /\ ~private
    /\ lock = None
    /\ lock' = h
    /\ Resolve(h, "load", "accountNew")

\* In a private session those are the global ones, and the mode is taken as it is written.
LockPrivate(h) ==
    /\ pc[h] = "account"
    /\ private
    /\ lock = None
    /\ lock' = h
    /\ mode' = [mode EXCEPT ![h] = DefaultMode]
    /\ Goto(h, "load")
    /\ UNCHANGED <<now, store, msg, rules, stamp, loaded, history>>

\* The state is read, then the clock.
Load(h) ==
    /\ pc[h] = "load"
    /\ mode[h] # "mention"
    /\ loaded' = [loaded EXCEPT ![h] = st]
    /\ stamp' = [stamp EXCEPT ![h] = now]
    /\ Goto(h, "persist")
    /\ UNCHANGED <<now, store, lock, msg, mode, rules, history>>

\* The state the reply leaves is written; the deferred unlock follows.
Persist(h) ==
    /\ pc[h] = "persist"
    /\ st' = AfterReply(loaded[h], rules[h], stamp[h])
    /\ history' = Append(history,
           [at |-> stamp[h], forced |-> msg[h].mentioned, rules |-> rules[h], st |-> st'])
    /\ lock' = None
    /\ Finish(h)
    /\ UNCHANGED <<private, now, row, kept>>

\* A group in mention mode keeps no account, and the store may fail at each access.
SkipAccount(h) ==
    /\ \/ pc[h] = "load" /\ mode[h] = "mention"
       \/ StoreMayFail /\ pc[h] \in {"load", "persist"}
       \/ StoreMayFail /\ pc[h] = "account" /\ lock = None /\ ~private
    /\ lock' = None
    /\ Finish(h)
    /\ UNCHANGED <<now, store, history>>

-----------------------------------------------------------------------------
(* The environment. *)

Tick ==
    /\ now < MaxTime
    /\ now' = now + 1
    /\ UNCHANGED <<store, lock, locals, history>>

ValidRows == {r \in AdminRows : ValidRow(r)}

\* The admin pages write a whole row, if it is valid ...
AdminWrites ==
    /\ ~private
    /\ row' \in ValidRows
    /\ kept' = IF \E h \in Handlers : pc[h] \in {"judgeNew", "accountNew"} THEN None ELSE row'
    /\ UNCHANGED <<private, now, st, lock, locals, history>>

\* ... or delete it.
AdminDeletes ==
    /\ row # None
    /\ row' = None
    /\ kept' = None
    /\ UNCHANGED <<private, now, st, lock, locals, history>>

\* The process dies and starts again: the store stays.
Crash ==
    /\ lock' = None
    /\ pc' = [h \in Handlers |-> "idle"]
    /\ msg' = [h \in Handlers |-> NoMsg]
    /\ mode' = [h \in Handlers |-> "mention"]
    /\ rules' = [h \in Handlers |-> Defaults]
    /\ stamp' = [h \in Handlers |-> 0]
    /\ loaded' = [h \in Handlers |-> NoState]
    /\ UNCHANGED <<now, store, history>>

Handle(h) ==
    \/ Receive(h) \/ JudgeResolves(h) \/ CreateRow(h) \/ Pass(h) \/ Refuse(h)
    \/ Send(h) \/ SendFails(h) \/ Lock(h) \/ LockPrivate(h) \/ Load(h) \/ Persist(h) \/ SkipAccount(h)

Next ==
    \/ \E h \in Handlers : Handle(h)
    \/ Tick
    \/ AdminWrites
    \/ AdminDeletes
    \/ Crash

Spec == Init /\ [][Next]_vars

-----------------------------------------------------------------------------
(* Properties. *)

States == [energy : Nat, energyAt : Nat, lastReply : Nat, count : Nat, restUntil : Nat]

TypeOK ==
    /\ private \in BOOLEAN
    /\ now \in Epoch..MaxTime
    /\ kept = None \/ kept \in ValidRows
    /\ row = None \/ row \in ValidRows \cup {Snapshot}
    /\ st \in States
    /\ lock \in Handlers \cup {None}
    /\ pc \in [Handlers -> Steps]
    /\ msg \in [Handlers -> Messages \cup {NoMsg}]
    /\ mode \in [Handlers -> {"auto", "mention", DefaultMode}]
    /\ rules \in [Handlers -> [Params -> Nat]]
    /\ stamp \in [Handlers -> 0..now]
    /\ loaded \in [Handlers -> States]

\* No reply's account is lost: the state a handler is about to write was computed
\* from the one that is stored (the read-modify-write of OnReplied is serialised).
NoLostUpdate == \A h \in Handlers : pc[h] = "persist" => loaded[h] = st

\* What an administrator has set for a group stays until he changes it, whatever handlers
\* see the group for the first time, however their queries and writes fail and whenever the
\* program restarts; only a handler that was already about to create the row may still
\* replace it by the global values.
AdminRowStays == kept # None => row = kept

\* An unprompted reply passes only a cooldown after, and out of every rest of, all
\* replies accounted so far, not only the last one the state tells of.
PassRespectsHistory ==
    [][\A h \in Handlers : pc[h] = "decide" /\ pc'[h] = "replying" =>
           \A i \in 1..Len(history) :
               /\ stamp[h] >= history[i].at + rules[h].cooldown
               /\ stamp[h] >= history[i].st.restUntil]_vars

\* A rest is never prolonged: a reply inside it, however forced, leaves its end.
RestNotProlonged == [][st'.restUntil # st.restUntil => st'.lastReply >= st.restUntil]_vars

\* In any run of replies without a pause of a cooldown that is as long as the limit,
\* the bot is made to rest.
BurstsEndInRest ==
    \A i, j \in 1..Len(history) :
        /\ i <= j /\ j - i + 1 >= history[j].rules.limit
        /\ \A k \in i + 1..j : history[k].at - history[k - 1].at < history[k].rules.cooldown
        => \E k \in i..j : history[k].st.restUntil > history[k].at

\* Energy comes from elapsed minutes only, and no minute is credited twice, whatever rules
\* come into force between two replies.
NoFreeEnergy ==
    \A i \in 2..Len(history) :
        LET before  == history[i - 1]
            rule    == history[i].rules
            credit  == ((history[i].at - before.at) \div Minute) * rule.energyRecover
            left    == before.st.energy + credit - rule.energyCost
        IN  history[i].st.energy <= IF left < 0 THEN 0 ELSE left

\* Two unprompted replies are at least a cooldown apart.
RepliesSpaced ==
    \A i, j \in 1..Len(history) :
        i < j /\ ~history[i].forced /\ ~history[j].forced
            => history[j].at - history[i].at >= Defaults.cooldown

=============================================================================
