---------------------------- MODULE ControlRules ----------------------------
(***************************************************************************)
(* The arithmetic of the trigger rules (internal/service/control): what    *)
(* the rules in force are, how energy recovers, when an unprompted reply   *)
(* passes, and what a reply does to the session's state.                   *)
(*                                                                         *)
(* Times are Unix seconds.  A state is the JSON of bot_state; rules are    *)
(* the ruleConfig.  A quiet-hours bound is a minute of the day.            *)
(***************************************************************************)
EXTENDS Integers

CONSTANTS Minute,    \* seconds of a minute (60 in the code)
          DayLength  \* minutes of a day (1440 in the code)

ASSUME ClockAssumption ==
    /\ Minute \in Nat \ {0}
    /\ DayLength \in Nat \ {0}

\* The rule parameters a group_config row can override.
Params == {"energyMax", "energyCost", "energyRecover", "energyThreshold", "cooldown",
           "limit", "rest", "short", "quietStart", "quietEnd"}
QuietBounds == {"quietStart", "quietEnd"}

\* What a row holds where it overrides nothing: 0, or no valid "HH:MM".
Unset == -1
Overrides(name, value) == value # Unset /\ (name \in QuietBounds \/ value # 0)

\* mergeOverrides: the row's set columns over the defaults.
Merged(defaults, row) ==
    [name \in Params |-> IF Overrides(name, row[name]) THEN row[name] ELSE defaults[name]]

\* What is in force where neither the configuration nor a row says anything.
CodeDefaults ==
    [energyMax |-> 100, energyCost |-> 10, energyRecover |-> 5, energyThreshold |-> 20,
     cooldown |-> 60, limit |-> 5, rest |-> 300, short |-> 4,
     quietStart |-> 1380, quietEnd |-> 420]

\* newRuleConfig: the global parameters.
NewRuleConfig(config) == Merged(CodeDefaults, config)

\* validateGroupConfig: what a row sent by the admin pages may hold.  No bound, an empty
\* text, is allowed; any other must be a time of day.
ValidRow(row) ==
    /\ row.mode \in {"mention", "auto"}
    /\ \A name \in Params \ QuietBounds : row[name] >= 0
    /\ \A name \in QuietBounds : row[name] \in -1..DayLength - 1

\* normalizeMode: anything but "auto" is "mention".
NormalMode(mode) == IF mode = "auto" THEN "auto" ELSE "mention"

\* inQuietHours: equal bounds disable it, and it may span midnight.
InQuietHours(p, now) ==
    LET minute == (now \div Minute) % DayLength
    IN  /\ p.quietStart # p.quietEnd
        /\ IF p.quietEnd < p.quietStart
           THEN minute >= p.quietStart \/ minute < p.quietEnd
           ELSE minute >= p.quietStart /\ minute < p.quietEnd

\* The state of a session that has none.
NoState == [energy |-> 0, energyAt |-> 0, lastReply |-> 0, count |-> 0, restUntil |-> 0]

\* Fault, for the checks: a minute that has begun counts.
MinutesRoundedUp(since, now) == (now - since + Minute - 1) \div Minute

\* The minutes that have passed: whole ones only.
Minutes(since, now) == (now - since) \div Minute

\* recoverEnergy: up to the maximum; the seconds short of a minute are not used up.
Recovered(st, p, now) ==
    LET minutes == Minutes(st.energyAt, now)
        gained  == st.energy + minutes * p.energyRecover
    IN  IF now < st.energyAt \/ minutes = 0 THEN st
        ELSE IF gained >= p.energyMax
             THEN [st EXCEPT !.energy = p.energyMax, !.energyAt = now]
             ELSE [st EXCEPT !.energy = gained, !.energyAt = @ + minutes * Minute]

\* Fault, for the checks: the rest is not observed.
PassesInRest(st, p, now) ==
    /\ Recovered(st, p, now).energy >= p.energyThreshold
    /\ now >= st.lastReply + p.cooldown

\* The end of shouldReplyAuto: enough energy, no rest and no cooldown.
AutoPasses(st, p, now) ==
    /\ Recovered(st, p, now).energy >= p.energyThreshold
    /\ now >= st.restUntil
    /\ now >= st.lastReply + p.cooldown

\* The consecutive count of OnReplied: outside a rest it restarts after a pause of a
\* cooldown and grows otherwise.
Counted(st, p, now) == IF now - st.lastReply >= p.cooldown THEN 1 ELSE st.count + 1

\* Faults of OnReplied, for the checks: one reply more than the limit; the limit is
\* reached again within a rest; the energy falls below nothing.
BeyondLimit(st, p, now) == now >= st.restUntil /\ Counted(st, p, now) > p.limit
AtLimitInRest(st, p, now) == Counted(st, p, now) >= p.limit
Overspent(energy, cost) == energy - cost

\* A reply that reaches the limit starts a rest; one within a rest neither counts nor
\* prolongs it.
AtLimit(st, p, now) == now >= st.restUntil /\ Counted(st, p, now) >= p.limit
Spent(energy, cost) == IF energy < cost THEN 0 ELSE energy - cost

\* OnReplied: the state after a reply at time now.
AfterReply(st, p, now) ==
    [energy    |-> Spent(Recovered(st, p, now).energy, p.energyCost),
     energyAt  |-> now,
     lastReply |-> now,
     count     |-> IF now < st.restUntil THEN st.count
                   ELSE IF AtLimit(st, p, now) THEN 0 ELSE Counted(st, p, now),
     restUntil |-> IF AtLimit(st, p, now) THEN now + p.rest ELSE st.restUntil]

=============================================================================
