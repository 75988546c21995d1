---------------------------- MODULE ControlProofs ----------------------------
(***************************************************************************)
(* Proofs about Control, for every number of handlers, rules and rows: its *)
(* type invariant, the serialisation of OnReplied, what a reply may do to  *)
(* a rest, whose row a group keeps, and what holds over the whole history  *)
(* of the replies.                                                         *)
(***************************************************************************)
EXTENDS Control, SequenceTheorems, TLAPS

-----------------------------------------------------------------------------
(* The rules. *)

\* Overriding global parameters by a row gives parameters.
LEMMA MergedType ==
    ASSUME NEW r, \A name \in Params : r[name] \in Nat \cup {Unset}
    PROVE  Merged(Defaults, r) \in [Params -> Nat]
BY ControlAssumption DEF Merged, Overrides, Unset

\* Recovery and a reply turn a state into a state.
LEMMA RecoveredType ==
    ASSUME NEW s \in States, NEW p \in [Params -> Nat], NEW t \in Nat
    PROVE  Recovered(s, p, t) \in States
<1> DEFINE minutes == Minutes(s.energyAt, t)
<1>1. /\ s.energy \in Nat /\ s.energyAt \in Nat
      /\ p.energyMax \in Nat /\ p.energyRecover \in Nat
  BY DEF States, Params
<1>2. CASE t < s.energyAt
  BY <1>2 DEF Recovered
<1>3. CASE t >= s.energyAt
  <2>1. minutes \in Nat
    BY <1>1, <1>3, ClockAssumption DEF Minutes
  <2>2. s.energy + minutes * p.energyRecover \in Nat /\ s.energyAt + minutes * Minute \in Nat
    <3> HIDE DEF minutes
    <3>1. minutes * p.energyRecover \in Nat /\ minutes * Minute \in Nat
      BY <1>1, <2>1, ClockAssumption
    <3> QED
      BY <1>1, <3>1
  <2>3. Recovered(s, p, t) \in
          {s, [s EXCEPT !.energy = p.energyMax, !.energyAt = t],
           [s EXCEPT !.energy = s.energy + minutes * p.energyRecover,
                     !.energyAt = s.energyAt + minutes * Minute]}
    BY DEF Recovered
  <2> HIDE DEF minutes
  <2> QED
    BY <1>1, <2>2, <2>3 DEF States
<1> QED
  BY <1>1, <1>2, <1>3

LEMMA AfterReplyType ==
    ASSUME NEW s \in States, NEW p \in [Params -> Nat], NEW t \in Nat
    PROVE  AfterReply(s, p, t) \in States
<1>1. Recovered(s, p, t).energy \in Nat
  BY RecoveredType DEF States
<1>2. /\ p.energyCost \in Nat /\ p.rest \in Nat
      /\ s.count \in Nat /\ s.restUntil \in Nat
  BY DEF States, Params
<1>3. Counted(s, p, t) \in Nat
  BY <1>2 DEF Counted
<1>4. Spent(Recovered(s, p, t).energy, p.energyCost) \in Nat
  BY <1>1, <1>2 DEF Spent
<1> QED
  BY <1>2, <1>3, <1>4 DEF AfterReply, States

\* The row written for a group that has none changes nothing: the rules it gives are
\* the global ones.
THEOREM NewRowIsNeutral == Merged(Defaults, Snapshot) = Defaults
<1>1. \A name \in Params : Merged(Defaults, Snapshot)[name] = Defaults[name]
  <2>1. \A name \in Params : Snapshot[name] = Defaults[name]
    BY DEF Snapshot, Params
  <2> QED
    BY <2>1 DEF Merged
<1>2. /\ Merged(Defaults, Snapshot) = [name \in Params |-> Merged(Defaults, Snapshot)[name]]
      /\ Defaults = [name \in Params |-> Defaults[name]]
  BY ControlAssumption DEF Merged
<1> QED
  BY <1>1, <1>2

-----------------------------------------------------------------------------
(* The type invariant. *)

LEMMA TypeInit == Init => TypeOK
BY ControlAssumption DEF Init, TypeOK, States, NoState, Steps

LEMMA ResolveType ==
    ASSUME TypeOK, NEW h \in Handlers, NEW found \in Steps, NEW missing \in Steps,
           Resolve(h, found, missing)
    PROVE  /\ mode' \in [Handlers -> {"auto", "mention", DefaultMode}]
           /\ rules' \in [Handlers -> [Params -> Nat]]
           /\ pc' \in [Handlers -> Steps]
           /\ stamp' \in [Handlers -> 0..now]
<1>1. now \in Nat
  BY ControlAssumption DEF TypeOK
<1>2. row # None => Merged(Defaults, row) \in [Params -> Nat]
  <2>1. CASE row \in ValidRows
    <3>1. \A name \in Params : row[name] \in Nat \cup {Unset}
      BY <2>1, ControlAssumption DEF ValidRows, ValidRow, Unset
    <3> QED
      BY <3>1, MergedType
  <2>2. CASE row = Snapshot
    <3>1. \A name \in Params : row[name] \in Nat
      BY <2>2, ControlAssumption DEF Snapshot, Params
    <3> QED
      BY <3>1, MergedType
  <2> QED
    BY <2>1, <2>2 DEF TypeOK
<1>3. rules' \in [Handlers -> [Params -> Nat]]
  BY <1>2, ControlAssumption DEF Resolve, TypeOK
<1>4. mode' \in [Handlers -> {"auto", "mention", DefaultMode}]
  BY DEF Resolve, TypeOK, NormalMode
<1>5. pc' \in [Handlers -> Steps]
  BY DEF Resolve, Goto, TypeOK
<1>6. stamp' \in [Handlers -> 0..now]
  <2>1. stamp' = [stamp EXCEPT ![h] = now]
    BY DEF Resolve
  <2>2. stamp \in [Handlers -> 0..now]
    BY DEF TypeOK
  <2>3. now \in 0..now
    BY <1>1
  <2> QED
    BY <2>1, <2>2, <2>3
<1> QED
  BY <1>3, <1>4, <1>5, <1>6

\* What ends a handler leaves its variables in their sets.
LEMMA FinishType ==
    ASSUME TypeOK, NEW h \in Handlers, Finish(h)
    PROVE  /\ pc' \in [Handlers -> Steps]
           /\ msg' \in [Handlers -> Messages \cup {NoMsg}]
           /\ mode' \in [Handlers -> {"auto", "mention", DefaultMode}]
           /\ rules' \in [Handlers -> [Params -> Nat]]
           /\ stamp' \in [Handlers -> 0..now]
           /\ loaded' \in [Handlers -> States]
<1>1. now \in Nat /\ NoState \in States
  BY ControlAssumption DEF TypeOK, NoState, States
<1> QED
  BY <1>1, ControlAssumption DEF Finish, Clear, Goto, TypeOK, Steps

LEMMA TypeNext == TypeOK /\ [Next]_vars => TypeOK'
<1> SUFFICES ASSUME TypeOK, [Next]_vars
             PROVE  TypeOK'
  OBVIOUS
<1>0. now \in Nat /\ NoState \in States
  BY ControlAssumption DEF TypeOK, NoState, States
<1>1. ASSUME NEW h \in Handlers, Receive(h)
      PROVE  TypeOK'
  BY <1>1 DEF Receive, Goto, TypeOK, Steps, store
<1>2. ASSUME NEW h \in Handlers, JudgeResolves(h)
      PROVE  TypeOK'
  <2>1. Resolve(h, "decide", "judgeNew")
    BY <1>2 DEF JudgeResolves
  <2>2. "decide" \in Steps /\ "judgeNew" \in Steps
    BY DEF Steps
  <2> QED
    BY <1>2, <2>1, <2>2, ResolveType DEF JudgeResolves, Resolve, TypeOK, store
<1>3. ASSUME NEW h \in Handlers, CreateRow(h)
      PROVE  TypeOK'
  BY <1>0, <1>3 DEF CreateRow, Goto, TypeOK, Steps
<1>4. ASSUME NEW h \in Handlers, Pass(h)
      PROVE  TypeOK'
  BY <1>0, <1>4, ControlAssumption DEF Pass, Goto, Clear, TypeOK, Steps, store
<1>5. ASSUME NEW h \in Handlers, Refuse(h) \/ SendFails(h)
      PROVE  TypeOK'
  <2>1. Finish(h) /\ UNCHANGED <<now, store, lock>>
    BY <1>5 DEF Refuse, SendFails
  <2> QED
    BY <2>1, FinishType DEF TypeOK, store
<1>6. ASSUME NEW h \in Handlers, Send(h)
      PROVE  TypeOK'
  BY <1>6 DEF Send, Goto, TypeOK, Steps, store
<1>7. ASSUME NEW h \in Handlers, Lock(h)
      PROVE  TypeOK'
  <2>1. Resolve(h, "load", "accountNew") /\ lock' = h
    BY <1>7 DEF Lock
  <2>2. "load" \in Steps /\ "accountNew" \in Steps
    BY DEF Steps
  <2> QED
    BY <2>1, <2>2, ResolveType DEF Resolve, TypeOK, store
<1>8. ASSUME NEW h \in Handlers, Load(h)
      PROVE  TypeOK'
  BY <1>0, <1>8 DEF Load, Goto, TypeOK, Steps, store
<1>9. ASSUME NEW h \in Handlers, Persist(h)
      PROVE  TypeOK'
  <2>1. Finish(h) /\ UNCHANGED <<private, now, row, kept>> /\ lock' = None
    BY <1>9 DEF Persist
  <2>2. st' = AfterReply(loaded[h], rules[h], stamp[h])
    BY <1>9 DEF Persist
  <2>3. loaded[h] \in States /\ rules[h] \in [Params -> Nat] /\ stamp[h] \in Nat
    BY <1>0 DEF TypeOK
  <2>4. st' \in States
    BY <2>2, <2>3, AfterReplyType
  <2> QED
    BY <2>1, <2>4, FinishType DEF TypeOK
<1>10. ASSUME NEW h \in Handlers, SkipAccount(h)
       PROVE  TypeOK'
  <2>1. Finish(h) /\ UNCHANGED <<now, store>> /\ lock' = None
    BY <1>10 DEF SkipAccount
  <2> QED
    BY <2>1, FinishType DEF TypeOK, store
<1>11. CASE Tick
  BY <1>0, <1>11, ControlAssumption DEF Tick, TypeOK, store, locals
<1>12. CASE AdminWrites \/ AdminDeletes
  BY <1>12 DEF AdminWrites, AdminDeletes, TypeOK, locals
<1>13. CASE Crash
  BY <1>0, <1>13, ControlAssumption DEF Crash, TypeOK, store, Steps
<1>14. CASE UNCHANGED vars
  BY <1>14 DEF vars, store, locals, TypeOK
<1>15. ASSUME NEW h \in Handlers, LockPrivate(h)
       PROVE  TypeOK'
  BY <1>0, <1>15 DEF LockPrivate, Goto, TypeOK, Steps, store
<1> QED
  BY <1>1, <1>2, <1>3, <1>4, <1>5, <1>6, <1>7, <1>8, <1>9, <1>10, <1>11, <1>12, <1>13, <1>14,
     <1>15
  DEF Next, Handle

\* Every variable of the trigger control stays in its set; energy is never negative.
THEOREM ControlTypeCorrect == Spec => []TypeOK
BY TypeInit, TypeNext, PTL DEF Spec

-----------------------------------------------------------------------------
(* OnReplied is serialised. *)

\* The session's lock is held over the whole of OnReplied.
LockHeld ==
    \A h \in Handlers : pc[h] \in {"accountNew", "load", "persist"} <=> lock = h

LockInv == TypeOK /\ LockHeld /\ NoLostUpdate

LEMMA LockNext == LockInv /\ [Next]_vars => LockInv'
<1> SUFFICES ASSUME LockInv, [Next]_vars
             PROVE  LockHeld' /\ NoLostUpdate'
  BY TypeNext DEF LockInv
<1>0. /\ pc \in [Handlers -> Steps] /\ loaded \in [Handlers -> States]
      /\ lock \in Handlers \cup {None} /\ None \notin Handlers
  BY ControlAssumption DEF LockInv, TypeOK
<1> USE DEF LockInv, LockHeld, NoLostUpdate
\* Before the lock is taken: the handler is at no step that needs it, before or after.
<1>1. ASSUME NEW h \in Handlers,
             Receive(h) \/ JudgeResolves(h) \/ Pass(h) \/ Refuse(h) \/ Send(h) \/ SendFails(h)
      PROVE  LockHeld' /\ NoLostUpdate'
  <2>1. /\ UNCHANGED <<st, lock>>
        /\ pc[h] \in {"idle", "judge", "decide", "replying"}
        /\ \E step \in {"idle", "judge", "judgeNew", "decide", "replying", "account"} :
               pc' = [pc EXCEPT ![h] = step]
        /\ \A k \in Handlers : k # h => loaded'[k] = loaded[k]
    BY <1>0, <1>1 DEF Receive, JudgeResolves, Resolve, Pass, Refuse, Send, SendFails, Finish,
                      Clear, Goto, store
  <2> QED
    BY <1>0, <2>1
<1>2. ASSUME NEW h \in Handlers, CreateRow(h)
      PROVE  LockHeld' /\ NoLostUpdate'
  BY <1>0, <1>2 DEF CreateRow, Goto
<1>3. ASSUME NEW h \in Handlers, Lock(h) \/ LockPrivate(h)
      PROVE  LockHeld' /\ NoLostUpdate'
  BY <1>0, <1>3 DEF Lock, LockPrivate, Resolve, Goto, store
<1>4. ASSUME NEW h \in Handlers, Load(h)
      PROVE  LockHeld' /\ NoLostUpdate'
  BY <1>0, <1>4 DEF Load, Goto, store
\* The lock is given back: no other handler had loaded a state.
<1>5. ASSUME NEW h \in Handlers, Persist(h) \/ SkipAccount(h)
      PROVE  LockHeld' /\ NoLostUpdate'
  <2>1. /\ lock' = None
        /\ pc' = [pc EXCEPT ![h] = "idle"]
    BY <1>5 DEF Persist, SkipAccount, Finish, Goto
  <2>2. \A k \in Handlers : k # h => pc[k] \notin {"accountNew", "load", "persist"}
    BY <1>0, <1>5 DEF Persist, SkipAccount
  <2> QED
    BY <1>0, <2>1, <2>2
<1>6. CASE Tick \/ AdminWrites \/ AdminDeletes \/ UNCHANGED vars
  BY <1>6 DEF Tick, AdminWrites, AdminDeletes, vars, store, locals
<1>7. CASE Crash
  BY <1>0, <1>7 DEF Crash
<1> QED
  BY <1>1, <1>2, <1>3, <1>4, <1>5, <1>6, <1>7 DEF Next, Handle

LEMMA LockInit == Init => LockInv
<1>1. Init => LockHeld /\ NoLostUpdate
  BY ControlAssumption DEF Init, LockHeld, NoLostUpdate
<1> QED
  BY <1>1, TypeInit DEF LockInv

\* The state a reply's account is computed from is the one it replaces: no account of
\* another handler is lost.
THEOREM AccountsNotLost == Spec => []NoLostUpdate
<1>1. LockInv => NoLostUpdate
  BY DEF LockInv
<1> QED
  BY LockInit, LockNext, <1>1, PTL DEF Spec

\* The end of a rest moves only by a reply after it: one inside the rest, however
\* forced, does not prolong it.
THEOREM RestsNotProlonged == Spec => RestNotProlonged
<1>1. LockInv /\ [Next]_vars =>
        [st'.restUntil # st.restUntil => st'.lastReply >= st.restUntil]_vars
  <2> SUFFICES ASSUME LockInv, Next, st'.restUntil # st.restUntil
               PROVE  st'.lastReply >= st.restUntil
    BY DEF vars, store
  <2>1. PICK h \in Handlers : Persist(h)
    BY DEF Next, Handle, Receive, JudgeResolves, Resolve, CreateRow, Pass, Refuse, Send, SendFails,
           Lock, LockPrivate, Load, SkipAccount, Tick, AdminWrites, AdminDeletes, Crash, store
  <2>2. st' = AfterReply(st, rules[h], stamp[h])
    BY <2>1 DEF Persist, LockInv, NoLostUpdate
  <2>3. st'.restUntil # st.restUntil => stamp[h] >= st.restUntil
    BY <2>2 DEF AfterReply, AtLimit
  <2>4. st'.lastReply = stamp[h]
    BY <2>2 DEF AfterReply
  <2> QED
    BY <2>3, <2>4
<1> QED
  BY LockInit, LockNext, <1>1, PTL DEF Spec, RestNotProlonged

-----------------------------------------------------------------------------
(* The row of a group. *)

\* Nobody is about to create a row over the one that is kept.
RowInv == AdminRowStays /\ (kept # None => \A h \in Handlers : pc[h] \notin {"judgeNew", "accountNew"})

LEMMA RowNext == TypeOK /\ RowInv /\ [Next]_vars => RowInv'
<1> SUFFICES ASSUME TypeOK, RowInv, [Next]_vars
             PROVE  RowInv'
  OBVIOUS
<1>0. /\ pc \in [Handlers -> Steps]
      /\ \A r \in AdminRows : r # None
  BY ControlAssumption DEF TypeOK
<1> USE DEF RowInv, AdminRowStays
\* A query finds the row that is kept.
<1>1. ASSUME NEW h \in Handlers, JudgeResolves(h) \/ Lock(h)
      PROVE  RowInv'
  <2>1. UNCHANGED <<row, kept>> /\ \E step \in Steps : pc' = [pc EXCEPT ![h] = step]
    BY <1>1 DEF JudgeResolves, Lock, Resolve, Goto, store, Steps
  <2>2. row # None => pc'[h] \notin {"judgeNew", "accountNew"}
    BY <1>0, <1>1 DEF JudgeResolves, Lock, Resolve, Goto
  <2> QED
    BY <1>0, <2>1, <2>2
<1>2. ASSUME NEW h \in Handlers, CreateRow(h)
      PROVE  RowInv'
  BY <1>0, <1>2 DEF CreateRow, Goto
<1>3. ASSUME NEW h \in Handlers,
             \/ Receive(h) \/ Pass(h) \/ Refuse(h) \/ Send(h) \/ SendFails(h)
             \/ LockPrivate(h) \/ Load(h) \/ Persist(h) \/ SkipAccount(h)
      PROVE  RowInv'
  <2>1. /\ UNCHANGED <<row, kept>>
        /\ \E step \in {"idle", "judge", "replying", "account", "load", "persist"} :
               pc' = [pc EXCEPT ![h] = step]
    BY <1>3 DEF Receive, Pass, Refuse, Send, SendFails, LockPrivate, Load, Persist, SkipAccount,
                Finish, Goto, store
  <2> QED
    BY <1>0, <2>1
<1>4. CASE AdminWrites
  BY <1>0, <1>4 DEF AdminWrites, locals
<1>5. CASE AdminDeletes
  BY <1>5 DEF AdminDeletes, locals
<1>6. CASE Tick \/ UNCHANGED vars
  BY <1>6 DEF Tick, vars, store, locals
<1>7. CASE Crash
  BY <1>7 DEF Crash, store
<1> QED
  BY <1>1, <1>2, <1>3, <1>4, <1>5, <1>6, <1>7 DEF Next, Handle

\* The row an administrator wrote stays as it is until he changes it, however many handlers
\* meet the group for the first time.
THEOREM AdminRowsStay == Spec => []AdminRowStays
<1>1. Init => RowInv
  BY DEF Init, RowInv, AdminRowStays
<1>2. RowInv => AdminRowStays
  BY DEF RowInv
<1> QED
  BY TypeInit, TypeNext, RowNext, <1>1, <1>2, PTL DEF Spec

-----------------------------------------------------------------------------
(* The history of the replies. *)

\* Rules under which a rest lasts: a row or a configuration that says 0 says nothing.
Restful == {p \in [Params -> Nat] : p.rest > 0}

\* What a reply leaves: the times go on, a reply that starts no rest, and is in none, counts
\* and stays below the limit, and energy comes from the whole minutes since the last reply.
LEMMA ReplyIs ==
    ASSUME NEW s \in States, NEW p \in Restful, NEW t \in Nat, s.energyAt <= t
    PROVE  LET n    == AfterReply(s, p, t)
               left == s.energy + ((t - s.energyAt) \div Minute) * p.energyRecover - p.energyCost
           IN  /\ n \in States /\ n.lastReply = t /\ n.energyAt = t
               /\ s.restUntil <= n.restUntil
               /\ n.restUntil <= t => /\ 1 <= n.count /\ n.count < p.limit
                                      /\ t - s.lastReply < p.cooldown => n.count = s.count + 1
               /\ n.energy <= IF left < 0 THEN 0 ELSE left
<1> DEFINE n == AfterReply(s, p, t)
           minutes == (t - s.energyAt) \div Minute
           gain == minutes * p.energyRecover
           left == s.energy + gain - p.energyCost
<1>1. /\ s.energy \in Nat /\ s.energyAt \in Nat /\ s.lastReply \in Nat
      /\ s.count \in Nat /\ s.restUntil \in Nat
      /\ p.rest \in Nat /\ p.rest > 0 /\ p.limit \in Nat /\ p.cooldown \in Nat
      /\ p.energyCost \in Nat /\ p.energyMax \in Nat /\ p.energyRecover \in Nat
      /\ p \in [Params -> Nat]
  BY DEF States, Restful, Params
<1>2. n \in States
  BY <1>1, AfterReplyType
<1>3. n.lastReply = t /\ n.energyAt = t /\ s.restUntil <= n.restUntil
  BY <1>1 DEF AfterReply, AtLimit
<1>4. n.restUntil <= t => /\ 1 <= n.count /\ n.count < p.limit
                          /\ t - s.lastReply < p.cooldown => n.count = s.count + 1
  BY <1>1 DEF AfterReply, AtLimit, Counted
<1>5. n.energy <= IF left < 0 THEN 0 ELSE left
  <2> DEFINE r == Recovered(s, p, t)
  <2>1. gain \in Nat
    <3>1. minutes \in Nat
      BY <1>1, ClockAssumption
    <3> HIDE DEF minutes
    <3> QED
      BY <1>1, <3>1
  <2>2. r.energy \in Nat /\ r.energy <= s.energy + gain
    <3>1. minutes = Minutes(s.energyAt, t)
      BY DEF Minutes
    <3>2. \/ r = s
          \/ s.energy + gain >= p.energyMax /\ r = [s EXCEPT !.energy = p.energyMax, !.energyAt = t]
          \/ r = [s EXCEPT !.energy = s.energy + gain,
                           !.energyAt = s.energyAt + minutes * Minute]
      BY <3>1 DEF Recovered
    <3> HIDE DEF minutes, gain, r
    <3>3. r.energy \in {s.energy, s.energy + gain} \/ (s.energy + gain >= p.energyMax /\ r.energy = p.energyMax)
      BY <3>2 DEF States
    <3> QED
      BY <1>1, <2>1, <3>3
  <2>3. n.energy = Spent(r.energy, p.energyCost)
    BY DEF AfterReply
  <2> HIDE DEF gain, r, n
  <2> QED
    BY <1>1, <2>1, <2>2, <2>3 DEF Spent
<1> QED
  BY <1>2, <1>3, <1>4, <1>5

Replies == [at : Nat, forced : BOOLEAN, rules : Restful, st : States]

\* The state is the one the last reply left; it tells of no earlier time than any reply, and
\* the clock is never behind it.
HistoryInv ==
    /\ history \in Seq(Replies)
    /\ rules \in [Handlers -> Restful]
    /\ IF history = <<>> THEN st = NoState ELSE st = history[Len(history)].st
    /\ st.energyAt = st.lastReply /\ st.lastReply <= now
    /\ \A h \in Handlers : pc[h] = "persist" => st.lastReply <= stamp[h]
    /\ \A i \in 1..Len(history) :
           /\ history[i].at = history[i].st.lastReply
           /\ history[i].at <= st.lastReply
           /\ history[i].st.restUntil <= st.restUntil

\* From reply i to reply j there is no pause and no rest.
Unbroken(i, j) ==
    /\ \A k \in i + 1..j : history[k].at - history[k - 1].at < history[k].rules.cooldown
    /\ \A k \in i..j : history[k].st.restUntil <= history[k].at

\* The replies of such a run are counted, and the count is below the limit.
CountInv ==
    \A i, j \in 1..Len(history) : i <= j /\ Unbroken(i, j) =>
        /\ history[j].st.count >= j - i + 1
        /\ history[j].st.count < history[j].rules.limit

HInv == LockInv /\ HistoryInv /\ CountInv /\ NoFreeEnergy

\* The rules a handler resolves let a rest last.
LEMMA ResolveRestful ==
    ASSUME TypeOK, HistoryInv, NEW h \in Handlers, NEW found \in Steps, NEW missing \in Steps,
           Resolve(h, found, missing)
    PROVE  rules' \in [Handlers -> Restful]
<1> DEFINE p == IF row = None THEN Defaults ELSE Merged(Defaults, row)
<1>1. rules' = [rules EXCEPT ![h] = p]
  BY DEF Resolve
<1>2. p \in [Params -> Nat]
  BY ResolveType DEF Resolve, TypeOK
<1>3. p.rest > 0
  <2>1. CASE row = None
    BY <2>1, ControlAssumption
  <2>2. CASE row # None
    <3>1. "rest" \in Params /\ "rest" \notin QuietBounds
      BY DEF Params, QuietBounds
    <3>2. row.rest \in Nat
      BY <2>2, <3>1, ControlAssumption DEF TypeOK, ValidRows, ValidRow, Snapshot
    <3>3. p.rest = IF Overrides("rest", row.rest) THEN row.rest ELSE Defaults.rest
      BY <2>2, <3>1 DEF Merged
    <3> QED
      BY <3>1, <3>2, <3>3, ControlAssumption DEF Overrides
  <2> QED
    BY <2>1, <2>2
<1> HIDE DEF p
<1>4. p \in Restful
  BY <1>2, <1>3 DEF Restful
<1> QED
  BY <1>1, <1>4 DEF HistoryInv

\* Every step but the write of a state leaves state and history alone ...
LEMMA HistoryStays ==
    ASSUME HInv, [Next]_vars, \A h \in Handlers : ~ Persist(h)
    PROVE  st' = st /\ history' = history /\ HistoryInv'
<1>0. /\ TypeOK /\ pc \in [Handlers -> Steps] /\ stamp \in [Handlers -> 0..now]
      /\ now \in Nat /\ rules \in [Handlers -> Restful] /\ Defaults \in Restful
  BY ControlAssumption DEF HInv, LockInv, TypeOK, HistoryInv, Restful
<1>1. st' = st /\ history' = history /\ now <= now'
  <2>1. ASSUME NEW h \in Handlers, Handle(h)
        PROVE  st' = st /\ history' = history /\ now' = now
    BY <2>1 DEF store, Handle, Receive, JudgeResolves, Resolve, CreateRow, Pass, Refuse, Send,
                SendFails, Lock, LockPrivate, Load, SkipAccount
  <2>2. CASE Tick \/ AdminWrites \/ AdminDeletes \/ Crash \/ UNCHANGED vars
    <3>1. st' = st /\ history' = history /\ (now' = now \/ now' = now + 1)
      BY <2>2 DEF vars, store, Tick, AdminWrites, AdminDeletes, Crash
    <3> QED
      BY <1>0, <3>1
  <2> QED
    BY <1>0, <2>1, <2>2 DEF Next
<1>2. rules' \in [Handlers -> Restful]
  <2>1. ASSUME NEW h \in Handlers, Handle(h)
        PROVE  rules' \in [Handlers -> Restful]
    <3>1. CASE JudgeResolves(h) \/ Lock(h)
      <4>1. {"decide", "judgeNew", "load", "accountNew"} \subseteq Steps
        BY DEF Steps
      <4> QED
        BY <1>0, <3>1, <4>1, ResolveRestful DEF JudgeResolves, Lock, HInv
    <3>2. CASE Receive(h) \/ CreateRow(h) \/ Send(h) \/ LockPrivate(h) \/ Load(h)
      BY <1>0, <3>2 DEF Receive, CreateRow, Send, LockPrivate, Load
    <3>3. CASE Pass(h) \/ Refuse(h) \/ SendFails(h) \/ SkipAccount(h)
      BY <1>0, <3>3 DEF Pass, Refuse, SendFails, SkipAccount, Finish, Clear
    <3> QED
      BY <2>1, <3>1, <3>2, <3>3 DEF Handle
  <2>2. CASE Crash
    BY <1>0, <2>2 DEF Crash
  <2>3. CASE Tick \/ AdminWrites \/ AdminDeletes \/ UNCHANGED vars
    BY <1>0, <2>3 DEF Tick, AdminWrites, AdminDeletes, vars, locals
  <2> QED
    BY <2>1, <2>2, <2>3 DEF Next
<1>3. ASSUME NEW k \in Handlers, pc'[k] = "persist"
      PROVE  st'.lastReply <= stamp'[k]
  <2>1. ASSUME NEW h \in Handlers, Handle(h)
        PROVE  (pc[k] = "persist" /\ stamp'[k] = stamp[k]) \/ stamp'[k] = now
    <3>1. CASE h = k
      BY <1>0, <1>3, <2>1, <3>1
      DEF Handle, Receive, JudgeResolves, Resolve, CreateRow, Pass, Refuse, Send, SendFails, Lock,
          LockPrivate, Load, SkipAccount, Finish, Goto
    <3>2. CASE h # k
      BY <1>0, <1>3, <2>1, <3>2
      DEF Handle, Receive, JudgeResolves, Resolve, CreateRow, Pass, Refuse, Send, SendFails, Lock,
          LockPrivate, Load, SkipAccount, Finish, Clear, Goto
    <3> QED
      BY <3>1, <3>2
  <2>2. CASE Tick \/ AdminWrites \/ AdminDeletes \/ UNCHANGED vars
    BY <1>1, <1>3, <2>2 DEF Tick, AdminWrites, AdminDeletes, vars, locals, HInv, HistoryInv
  <2>3. ~ Crash
    BY <1>3 DEF Crash
  <2> QED
    BY <1>1, <2>1, <2>2, <2>3 DEF Next, HInv, HistoryInv
<1>4. st'.lastReply <= now'
  <2>1. now' \in Nat /\ st.lastReply \in Nat
    BY <1>0, TypeNext, ControlAssumption DEF TypeOK, States
  <2> QED
    BY <1>0, <1>1, <2>1 DEF HInv, HistoryInv
<1> QED
  BY <1>1, <1>2, <1>3, <1>4 DEF HInv, HistoryInv

\* ... and that appends a reply, made after all the others.
LEMMA PersistAppends ==
    ASSUME HInv, NEW h \in Handlers, Persist(h)
    PROVE  LET e == [at |-> stamp[h], forced |-> msg[h].mentioned, rules |-> rules[h],
                     st |-> AfterReply(st, rules[h], stamp[h])]
           IN  /\ e \in Replies /\ history' = Append(history, e) /\ st' = e.st
               /\ st \in States /\ st.energyAt = st.lastReply /\ st.lastReply <= e.at
               /\ e.at <= now /\ now' = now
               /\ rules' = [rules EXCEPT ![h] = Defaults]
               /\ \A k \in Handlers : pc'[k] # "persist"
<1>1. /\ st' = AfterReply(loaded[h], rules[h], stamp[h]) /\ pc[h] = "persist"
      /\ history' = Append(history, [at |-> stamp[h], forced |-> msg[h].mentioned,
                                     rules |-> rules[h], st |-> st'])
      /\ Finish(h) /\ now' = now
  BY DEF Persist
<1>2. loaded[h] = st /\ st \in States /\ lock = h
  BY <1>1 DEF HInv, LockInv, NoLostUpdate, LockHeld, TypeOK
<1>3. stamp[h] \in 0..now /\ now \in Nat /\ rules[h] \in Restful /\ msg[h].mentioned \in BOOLEAN
  <2> DEFINE Msg == [mentioned : BOOLEAN, chars : Nat]
  <2>1. msg[h] \in Messages \/ msg[h] = NoMsg
    BY DEF HInv, LockInv, TypeOK
  <2>2. msg[h] \in Msg
    <3>1. NoMsg \in Msg
      BY DEF NoMsg
    <3>2. Messages \subseteq Msg
      BY ControlAssumption
    <3> HIDE DEF Msg
    <3> QED
      BY <2>1, <3>1, <3>2
  <2>3. \A m \in Msg : m.mentioned \in BOOLEAN
    BY Zenon
  <2> HIDE DEF Msg
  <2>4. msg[h].mentioned \in BOOLEAN
    BY <2>2, <2>3, Zenon
  <2> QED
    BY <2>4, ControlAssumption DEF HInv, LockInv, TypeOK, HistoryInv
<1>4. st.energyAt = st.lastReply /\ st.lastReply <= stamp[h]
  BY <1>1 DEF HInv, HistoryInv
<1>5. st' \in States
  BY <1>1, <1>2, <1>3, <1>4, ReplyIs
<1>6. \A k \in Handlers : pc'[k] # "persist"
  BY <1>1, <1>2 DEF Finish, Goto, HInv, LockInv, LockHeld, TypeOK
<1>7. rules' = [rules EXCEPT ![h] = Defaults]
  BY <1>1 DEF Finish, Clear
<1> QED
  BY <1>1, <1>2, <1>3, <1>4, <1>5, <1>6, <1>7 DEF Replies

LEMMA HistoryNext == HInv /\ [Next]_vars => HInv'
<1> SUFFICES ASSUME HInv, [Next]_vars
             PROVE  HistoryInv' /\ CountInv' /\ NoFreeEnergy'
  BY LockNext DEF HInv
<1>1. CASE \A h \in Handlers : ~ Persist(h)
  <2>1. st' = st /\ history' = history /\ HistoryInv'
    BY <1>1, HistoryStays
  <2>2. CountInv' /\ NoFreeEnergy'
    BY <2>1 DEF HInv, CountInv, Unbroken, NoFreeEnergy
  <2> QED
    BY <2>1, <2>2
<1>2. ASSUME NEW h \in Handlers, Persist(h)
      PROVE  HistoryInv' /\ CountInv' /\ NoFreeEnergy'
  <2> DEFINE e == [at |-> stamp[h], forced |-> msg[h].mentioned, rules |-> rules[h],
                   st |-> AfterReply(st, rules[h], stamp[h])]
             n == Len(history)
  <2>1. /\ e \in Replies /\ history' = Append(history, e) /\ st' = e.st
        /\ st \in States /\ st.energyAt = st.lastReply /\ st.lastReply <= e.at
        /\ e.at <= now /\ now' = now /\ now \in Nat
        /\ rules' = [rules EXCEPT ![h] = Defaults]
        /\ \A k \in Handlers : pc'[k] # "persist"
    BY <1>2, PersistAppends, ControlAssumption DEF HInv, LockInv, TypeOK
  <2>2. /\ e.st = AfterReply(st, e.rules, e.at)
        /\ e.at \in Nat /\ e.rules \in Restful /\ e.st \in States
    BY <2>1 DEF Replies
  <2> HIDE DEF e
  <2>3. /\ n \in Nat /\ history' \in Seq(Replies) /\ Len(history') = n + 1
        /\ history'[n + 1] = e
        /\ \A i \in 1..n : history'[i] = history[i] /\ history[i] \in Replies
    BY <2>1, AppendProperties DEF HInv, HistoryInv
  <2>4. /\ e.st.lastReply = e.at /\ e.st.energyAt = e.at
        /\ st.restUntil <= e.st.restUntil
        /\ e.st.restUntil <= e.at =>
               /\ 1 <= e.st.count /\ e.st.count < e.rules.limit
               /\ e.at - st.lastReply < e.rules.cooldown => e.st.count = st.count + 1
        /\ LET left == st.energy + ((e.at - st.energyAt) \div Minute) * e.rules.energyRecover
                       - e.rules.energyCost
           IN  e.st.energy <= IF left < 0 THEN 0 ELSE left
    BY <2>1, <2>2, ReplyIs
  <2>5. n > 0 => st = history[n].st /\ history[n].at = st.lastReply
    BY <2>3 DEF HInv, HistoryInv
  <2>6. \A i \in 1..n + 1 : i = n + 1 \/ i \in 1..n
    BY <2>3
  <2>7. HistoryInv'
    <3>1. rules' \in [Handlers -> Restful]
      BY <2>1, ControlAssumption DEF HInv, HistoryInv, Restful
    <3>2. history' # <<>> /\ st' = history'[Len(history')].st
      BY <2>1, <2>3
    <3>3. ASSUME NEW i \in 1..Len(history')
          PROVE  /\ history'[i].at = history'[i].st.lastReply
                 /\ history'[i].at <= st'.lastReply
                 /\ history'[i].st.restUntil <= st'.restUntil
      <4>1. CASE i = n + 1
        BY <2>1, <2>2, <2>3, <2>4, <4>1 DEF States
      <4>2. CASE i \in 1..n
        <5>1. /\ history[i].at = history[i].st.lastReply
              /\ history[i].at <= st.lastReply
              /\ history[i].st.restUntil <= st.restUntil
          BY <4>2 DEF HInv, HistoryInv
        <5>2. /\ history[i].at \in Nat /\ st.lastReply \in Nat /\ st.restUntil \in Nat
              /\ history[i].st.restUntil \in Nat /\ e.st.restUntil \in Nat
          BY <2>1, <2>2, <2>3, <4>2 DEF Replies, States
        <5>3. /\ history'[i] = history[i] /\ st' = e.st
              /\ st.lastReply <= e.at /\ e.st.lastReply = e.at /\ e.at \in Nat
              /\ st.restUntil <= e.st.restUntil
          BY <2>1, <2>2, <2>3, <2>4, <4>2
        <5> HIDE DEF HInv, Replies, States
        <5> QED
          BY <5>1, <5>2, <5>3
      <4> QED
        BY <2>3, <2>6, <4>1, <4>2
    <3> QED
      BY <2>1, <2>3, <2>4, <3>1, <3>2, <3>3 DEF HistoryInv
  <2>8. CountInv'
    <3> SUFFICES ASSUME NEW i \in 1..n + 1, NEW j \in 1..n + 1, i <= j, Unbroken(i, j)'
                 PROVE  /\ history'[j].st.count >= j - i + 1
                        /\ history'[j].st.count < history'[j].rules.limit
      BY <2>3 DEF CountInv
    <3>1. CASE j \in 1..n
      <4>1. i \in 1..n
        BY <2>3, <3>1
      <4>2. \A k \in i..j : history'[k] = history[k]
        BY <2>3, <3>1, <4>1
      <4>3. \A k \in i + 1..j : history'[k] = history[k] /\ history'[k - 1] = history[k - 1]
        BY <2>3, <3>1, <4>1
      <4>4. Unbroken(i, j)
        BY <4>2, <4>3 DEF Unbroken
      <4> QED
        BY <2>3, <3>1, <4>1, <4>4 DEF HInv, CountInv
    <3>2. CASE j = n + 1
      <4>1. e.st.restUntil <= e.at
        BY <2>3, <3>2 DEF Unbroken
      <4>2. 1 <= e.st.count /\ e.st.count < e.rules.limit /\ e.st.count \in Nat
        BY <2>2, <2>4, <4>1 DEF States
      <4>3. CASE i = n + 1
        BY <2>3, <3>2, <4>2, <4>3
      <4>4. CASE i \in 1..n
        <5>1. n \in 1..n /\ n > 0 /\ n + 1 \in i + 1..j
          BY <2>3, <3>2, <4>4
        <5>2. e.at - st.lastReply < e.rules.cooldown
          BY <2>3, <2>5, <5>1 DEF Unbroken
        <5>3. e.st.count = st.count + 1
          BY <2>4, <4>1, <5>2
        <5>4. Unbroken(i, n)
          <6>1. \A k \in i..n : k \in i..j /\ history'[k] = history[k]
            BY <2>3, <3>2, <4>4
          <6>2. \A k \in i + 1..n :
                    k \in i + 1..j /\ history'[k] = history[k] /\ history'[k - 1] = history[k - 1]
            BY <2>3, <3>2, <4>4
          <6> QED
            BY <6>1, <6>2 DEF Unbroken
        <5>5. history[n].st.count >= n - i + 1
          BY <2>3, <4>4, <5>1, <5>4 DEF HInv, CountInv
        <5> QED
          BY <2>1, <2>3, <2>5, <3>2, <4>2, <4>4, <5>1, <5>3, <5>5 DEF States
      <4> QED
        BY <2>6, <4>3, <4>4
    <3> QED
      BY <2>6, <3>1, <3>2
  <2>9. NoFreeEnergy'
    <3> DEFINE Free(s, i) ==
                 LET before  == s[i - 1]
                     rule    == s[i].rules
                     credit  == ((s[i].at - before.at) \div Minute) * rule.energyRecover
                     left    == before.st.energy + credit - rule.energyCost
                 IN  s[i].st.energy <= IF left < 0 THEN 0 ELSE left
    <3>1. \A i \in 2..n : Free(history', i)
      <4>1. \A i \in 2..n : Free(history, i)
        BY DEF HInv, NoFreeEnergy
      <4>2. \A i \in 2..n : history'[i] = history[i] /\ history'[i - 1] = history[i - 1]
        BY <2>3
      <4> QED
        BY <4>1, <4>2
    <3>2. n > 0 => Free(history', n + 1)
      <4> SUFFICES ASSUME n > 0
                   PROVE  Free(history', n + 1)
        OBVIOUS
      <4>1. history'[n + 1] = e /\ history'[(n + 1) - 1] = history[n]
        BY <2>3
      <4>2. st = history[n].st /\ history[n].at = st.energyAt
        BY <2>1, <2>5
      <4> QED
        BY <2>4, <4>1, <4>2
    <3> HIDE DEF Free
    <3>3. \A i \in 2..n + 1 : Free(history', i)
      BY <2>3, <3>1, <3>2
    <3> QED
      BY <2>3, <3>3 DEF NoFreeEnergy, Free
  <2> QED
    BY <2>7, <2>8, <2>9
<1> QED
  BY <1>1, <1>2

LEMMA HistoryInit == Init => HInv
<1> SUFFICES ASSUME Init
             PROVE  HInv
  OBVIOUS
<1>1. /\ history = <<>> /\ Len(history) = 0 /\ history \in Seq(Replies)
      /\ rules \in [Handlers -> Restful] /\ st = NoState
      /\ \A h \in Handlers : pc[h] # "persist"
  BY ControlAssumption DEF Init, Restful
<1>2. st.energyAt = st.lastReply /\ st.lastReply <= now
  BY <1>1, ControlAssumption DEF Init, NoState
<1>3. CountInv /\ NoFreeEnergy
  BY <1>1 DEF CountInv, NoFreeEnergy
<1>4. HistoryInv
  BY <1>1, <1>2 DEF HistoryInv
<1> QED
  BY <1>3, <1>4, LockInit DEF HInv

\* For all rules and rows, however they change between the replies: replies without a pause,
\* as many as the limit, lead to a rest (the consecutive count of OnReplied).
THEOREM BurstsAlwaysEndInRest == Spec => []BurstsEndInRest
<1>1. HInv => BurstsEndInRest
  <2> SUFFICES ASSUME HInv, NEW i \in 1..Len(history), NEW j \in 1..Len(history),
                      i <= j, j - i + 1 >= history[j].rules.limit,
                      \A k \in i + 1..j :
                          history[k].at - history[k - 1].at < history[k].rules.cooldown,
                      \A k \in i..j : ~ (history[k].st.restUntil > history[k].at)
               PROVE  FALSE
    BY DEF BurstsEndInRest
  <2>1. \A k \in 1..Len(history) : history[k] \in Replies
    BY DEF HInv, HistoryInv
  <2>2. \A k \in i..j : history[k].st.restUntil \in Nat /\ history[k].at \in Nat
    <3>1. \A k \in i..j : k \in 1..Len(history)
      OBVIOUS
    <3>2. \A p \in Replies : p.st.restUntil \in Nat /\ p.at \in Nat
      BY DEF Replies, States
    <3> QED
      BY <2>1, <3>1, <3>2
  <2>3. Unbroken(i, j)
    BY <2>2 DEF Unbroken
  <2>4. history[j].st.count >= j - i + 1 /\ history[j].st.count < history[j].rules.limit
    BY <2>3 DEF HInv, CountInv
  <2>5. history[j].st.count \in Nat /\ history[j].rules.limit \in Nat
    BY <2>1 DEF Replies, States, Restful, Params
  <2> QED
    BY <2>4, <2>5
<1> QED
  BY HistoryInit, HistoryNext, <1>1, PTL DEF Spec

\* For all rules and rows: the energy a reply leaves is at most what the last one left, what
\* the whole minutes between them gave under the rules now in force, and less its cost.
THEOREM EnergyNeverFree == Spec => []NoFreeEnergy
<1>1. HInv => NoFreeEnergy
  BY DEF HInv
<1> QED
  BY HistoryInit, HistoryNext, <1>1, PTL DEF Spec

\* For any number of handlers and rules that change: an unprompted reply passes only a
\* cooldown after, and out of the rest of, every reply accounted so far (shouldReplyAuto looks
\* at the last state only).
THEOREM PassesRespectHistory == Spec => PassRespectsHistory
<1>1. HInv /\ [Next]_vars =>
        [\A h \in Handlers : pc[h] = "decide" /\ pc'[h] = "replying" =>
           \A i \in 1..Len(history) :
               /\ stamp[h] >= history[i].at + rules[h].cooldown
               /\ stamp[h] >= history[i].st.restUntil]_vars
  <2> SUFFICES ASSUME HInv, Next, NEW h \in Handlers, pc[h] = "decide", pc'[h] = "replying",
                      NEW i \in 1..Len(history)
               PROVE  /\ stamp[h] >= history[i].at + rules[h].cooldown
                      /\ stamp[h] >= history[i].st.restUntil
    BY DEF vars
  <2>0. pc \in [Handlers -> Steps]
    BY DEF HInv, LockInv, TypeOK
  <2>1. Pass(h)
    <3>1. ASSUME NEW k \in Handlers, Handle(k), k # h
          PROVE  FALSE
      BY <2>0, <3>1 DEF Handle, Receive, JudgeResolves, Resolve, CreateRow, Pass, Refuse, Send,
                        SendFails, Lock, LockPrivate, Load, Persist, SkipAccount, Finish, Goto
    <3>2. ASSUME Handle(h)
          PROVE  Pass(h)
      BY <2>0, <3>2 DEF Handle, Receive, JudgeResolves, Resolve, CreateRow, Refuse, Send,
                        SendFails, Lock, LockPrivate, Load, Persist, SkipAccount, Finish, Goto
    <3>3. ~ (Tick \/ AdminWrites \/ AdminDeletes \/ Crash)
      BY <2>0 DEF Tick, AdminWrites, AdminDeletes, Crash, locals
    <3> QED
      BY <3>1, <3>2, <3>3 DEF Next
  <2>2. stamp[h] >= st.restUntil /\ stamp[h] >= st.lastReply + rules[h].cooldown
    BY <2>1 DEF Pass, Permitted, AutoPasses
  <2>3. history[i].at <= st.lastReply /\ history[i].st.restUntil <= st.restUntil
    BY DEF HInv, HistoryInv
  <2>4. /\ history[i].at \in Nat /\ history[i].st.restUntil \in Nat
        /\ st.lastReply \in Nat /\ st.restUntil \in Nat
    <3>1. history[i] \in Replies /\ st \in States
      BY DEF HInv, HistoryInv, LockInv, TypeOK
    <3>2. history[i].st \in States /\ history[i].at \in Nat
      BY <3>1 DEF Replies
    <3> QED
      BY <3>1, <3>2 DEF States
  <2>5. stamp[h] \in Nat /\ rules[h].cooldown \in Nat
    <3>1. stamp[h] \in 0..now /\ now \in Nat /\ rules[h] \in Restful
      BY ControlAssumption DEF HInv, HistoryInv, LockInv, TypeOK
    <3>2. "cooldown" \in Params
      BY DEF Params
    <3> QED
      BY <3>1, <3>2 DEF Restful
  <2> QED
    BY <2>2, <2>3, <2>4, <2>5
<1> QED
  BY HistoryInit, HistoryNext, <1>1, PTL DEF Spec, PassRespectsHistory

=============================================================================
