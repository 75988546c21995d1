----------------------------- MODULE Compressor -----------------------------
(***************************************************************************)
(* Window compression of one session (internal/service/memory/compress.go) *)
(* with the window and the summaries it works on.                          *)
(*                                                                         *)
(* Handlers append messages to the window; one whose append reports a full *)
(* window calls Trigger, which may start `go c.run`.  A run copies the     *)
(* window, asks the model for a summary, appends it to the hot chain,      *)
(* fuses or evicts when the chain is too long, and trims the window.  It   *)
(* holds no lock across the model calls, so appends, prompt building and   *)
(* other triggers fall between any two of its steps, and the process may   *)
(* die at any of them.  Sessions share nothing but mutexes that are never  *)
(* held across a call out, so one session is modelled.                     *)
(***************************************************************************)
EXTENDS Window, SummaryStore

CONSTANTS Runs,         \* the goroutines that Trigger may start
          MaxSignals,   \* bound of the model: handlers between append and Trigger
          MaxRestarts   \* bound of the model: restarts of the process

ASSUME CompressorAssumption ==
    /\ MaxSignals \in Nat
    /\ MaxRestarts \in Nat

VARIABLES arrived,    \* number of messages appended so far
          window,     \* sessionWindow.data
          signals,    \* handlers that saw "full" and have not called Trigger yet
          inflight,   \* Compressor.inflight[chatID]
          cooling,    \* the last failure is less than CompressCooldown ago
          pc,         \* where each run is
          batch,      \* the batch of each run
          fusing,     \* the copy of the chain each run has sent to be fused
          restarts,
          digested    \* history: messages that have a level-1 summary

runVars == <<inflight, cooling, pc, batch, fusing>>
vars == <<arrived, window, signals, runVars, restarts, digested, summaryVars>>

Steps == {"idle", "snapshot", "summarize", "check", "fuse", "trim", "fail", "release"}
Active(r) == pc[r] # "idle"

Init ==
    /\ arrived = 0
    /\ window = {}
    /\ signals = 0
    /\ inflight = FALSE
    /\ cooling = FALSE
    /\ pc = [r \in Runs |-> "idle"]
    /\ batch = [r \in Runs |-> {}]
    /\ fusing = [r \in Runs |-> {}]
    /\ restarts = 0
    /\ digested = {}
    /\ SummaryInit

Goto(r, step) == pc' = [pc EXCEPT ![r] = step]

-----------------------------------------------------------------------------
(* Handlers. *)

\* A message (or the bot's own reply) enters the window; the append that finds
\* it full owes a call of Trigger.
Arrive ==
    /\ arrived < MaxMsgs
    /\ arrived' = arrived + 1
    /\ window' = Appended(window, arrived')
    /\ signals' = IF IsFull(window') THEN signals + 1 ELSE signals
    /\ signals' <= MaxSignals
    /\ UNCHANGED <<runVars, restarts, digested, summaryVars>>

\* SaveMessage fails after the append: persist returns (false, err) and the
\* call of Trigger is never made.
LoseSignal ==
    /\ signals > 0
    /\ signals' = signals - 1
    /\ UNCHANGED <<arrived, window, runVars, restarts, digested, summaryVars>>

\* Faults of Trigger, for the checks: it does not look at the mark, or at the cooldown.
StartsTwice(r) ==
    /\ signals > 0
    /\ ~cooling
    /\ pc[r] = "idle"
    /\ signals' = signals - 1
    /\ inflight' = TRUE
    /\ Goto(r, "snapshot")
    /\ UNCHANGED <<arrived, window, cooling, batch, fusing, restarts, digested, summaryVars>>

StartsWhileCooling(r) ==
    /\ signals > 0
    /\ ~inflight
    /\ pc[r] = "idle"
    /\ signals' = signals - 1
    /\ inflight' = TRUE
    /\ Goto(r, "snapshot")
    /\ UNCHANGED <<arrived, window, cooling, batch, fusing, restarts, digested, summaryVars>>

\* Trigger, when no run is in flight and no failure is recent: start run r.
TriggerStarts(r) ==
    /\ signals > 0
    /\ ~inflight
    /\ ~cooling
    /\ pc[r] = "idle"
    /\ signals' = signals - 1
    /\ inflight' = TRUE
    /\ Goto(r, "snapshot")
    /\ UNCHANGED <<arrived, window, cooling, batch, fusing, restarts, digested, summaryVars>>

\* Trigger otherwise: skip.
TriggerSkips ==
    /\ signals > 0
    /\ inflight \/ cooling
    /\ signals' = signals - 1
    /\ UNCHANGED <<arrived, window, runVars, restarts, digested, summaryVars>>

\* Prompt building or the admin pages read the hot chain, which loads it on
\* first use.
ReadSummaries ==
    /\ ~loaded
    /\ GetAll
    /\ UNCHANGED <<arrived, window, signals, runVars, restarts, digested>>

-----------------------------------------------------------------------------
(* One run. *)

\* Fault, for the checks: the batch leaves the window before it has a summary.
SnapshotTrims(r) ==
    /\ pc[r] = "snapshot"
    /\ batch' = [batch EXCEPT ![r] = BatchOf(window)]
    /\ window' = window \ BatchOf(window)
    /\ Goto(r, IF BatchOf(window) = {} THEN "release" ELSE "summarize")
    /\ UNCHANGED <<arrived, signals, inflight, cooling, fusing, restarts, digested,
                   summaryVars>>

\* GetWindow and the batch; too few messages end the run without an error.
Snapshot(r) ==
    /\ pc[r] = "snapshot"
    /\ batch' = [batch EXCEPT ![r] = BatchOf(window)]
    /\ Goto(r, IF BatchOf(window) = {} THEN "release" ELSE "summarize")
    /\ UNCHANGED <<arrived, window, signals, inflight, cooling, fusing, restarts,
                   digested, summaryVars>>

\* The model answers and its summary joins the hot chain.
Summarize(r) ==
    /\ pc[r] = "summarize"
    /\ AppendSummary(batch[r])
    /\ digested' = digested \cup batch[r]
    /\ Goto(r, "check")
    /\ UNCHANGED <<arrived, window, signals, inflight, cooling, batch, fusing,
                   restarts>>

\* Fault, for the checks: the run ends and the failure is never recorded.
FailsUnrecorded(r) ==
    /\ pc[r] = "summarize"
    /\ Goto(r, "release")
    /\ UNCHANGED <<arrived, window, signals, inflight, cooling, batch, fusing, restarts,
                   digested, summaryVars>>

\* The model call fails: nothing is trimmed, the run ends with an error.
SummarizeFails(r) ==
    /\ pc[r] = "summarize"
    /\ Goto(r, "fail")
    /\ UNCHANGED <<arrived, window, signals, inflight, cooling, batch, fusing,
                   restarts, digested, summaryVars>>

\* maybeFuse: copy the chain, and fuse it if it is too long.
CheckChain(r) ==
    /\ pc[r] = "check"
    /\ GetAll
    /\ fusing' = [fusing EXCEPT ![r] = chain']
    /\ Goto(r, IF Cardinality(chain') > SummaryCap THEN "fuse" ELSE "trim")
    /\ UNCHANGED <<arrived, window, signals, inflight, cooling, batch, restarts,
                   digested>>

\* The model fuses the copied chain; the result replaces the whole chain.
Fuse(r) ==
    /\ pc[r] = "fuse"
    /\ ReplaceWithFused(Covered(fusing[r]))
    /\ Goto(r, "trim")
    /\ UNCHANGED <<arrived, window, signals, inflight, cooling, batch, fusing,
                   restarts, digested>>

\* Fault, for the checks: the chain stays as long as it is.
FuseFailsKeepsAll(r) ==
    /\ pc[r] = "fuse"
    /\ Goto(r, "trim")
    /\ UNCHANGED <<arrived, window, signals, inflight, cooling, batch, fusing, restarts,
                   digested, summaryVars>>

\* The model call fails: the oldest summary gives way.
FuseFails(r) ==
    /\ pc[r] = "fuse"
    /\ EvictOldest
    /\ Goto(r, "trim")
    /\ UNCHANGED <<arrived, window, signals, inflight, cooling, batch, fusing,
                   restarts, digested>>

\* RemoveByIDs: the batch leaves the window.
Trim(r) ==
    /\ pc[r] = "trim"
    /\ window' = RemoveByIDs(window, batch[r])
    /\ Goto(r, "release")
    /\ UNCHANGED <<arrived, signals, inflight, cooling, batch, fusing, restarts,
                   digested, summaryVars>>

\* The failure is recorded for the cooldown before the deferred release.
RecordFailure(r) ==
    /\ pc[r] = "fail"
    /\ cooling' = TRUE
    /\ Goto(r, "release")
    /\ UNCHANGED <<arrived, window, signals, inflight, batch, fusing, restarts,
                   digested, summaryVars>>

\* The deferred delete of the in-flight mark; the goroutine is gone.
Release(r) ==
    /\ pc[r] = "release"
    /\ inflight' = FALSE
    /\ Goto(r, "idle")
    /\ batch' = [batch EXCEPT ![r] = {}]
    /\ fusing' = [fusing EXCEPT ![r] = {}]
    /\ UNCHANGED <<arrived, window, signals, cooling, restarts, digested, summaryVars>>

-----------------------------------------------------------------------------
(* The environment. *)

\* CompressCooldown has passed since the last failure.
CooldownExpires ==
    /\ cooling
    /\ cooling' = FALSE
    /\ UNCHANGED <<arrived, window, signals, inflight, pc, batch, fusing, restarts,
                   digested, summaryVars>>

\* The rows a crash leaves of the loop of saves in ReplaceWithFused and
\* EvictOldest: those of the oldest summaries, the ones already visited.
SavedBeforeCrash ==
    IF \E r \in Runs : pc[r] = "fuse"
    THEN UNION {Saveable({s \in chain : s.seq < n}) : n \in SeqsOf(chain) \cup {nextSeq}}
    ELSE {{}}

\* The process dies and starts again: only the rows survive.
Crash ==
    /\ restarts < MaxRestarts
    /\ restarts' = restarts + 1
    /\ window' = {}
    /\ signals' = 0
    /\ inflight' = FALSE
    /\ cooling' = FALSE
    /\ pc' = [r \in Runs |-> "idle"]
    /\ batch' = [r \in Runs |-> {}]
    /\ fusing' = [r \in Runs |-> {}]
    /\ \E saved \in SavedBeforeCrash : LoseMemory(saved)
    /\ UNCHANGED <<arrived, digested>>

RunStep(r) ==
    \/ Snapshot(r)
    \/ Summarize(r)
    \/ SummarizeFails(r)
    \/ CheckChain(r)
    \/ Fuse(r)
    \/ FuseFails(r)
    \/ Trim(r)
    \/ RecordFailure(r)
    \/ Release(r)

Next ==
    \/ Arrive
    \/ LoseSignal
    \/ TriggerSkips
    \/ ReadSummaries
    \/ \E r \in Runs : TriggerStarts(r) \/ RunStep(r)
    \/ CooldownExpires
    \/ Crash

Spec == Init /\ [][Next]_vars

-----------------------------------------------------------------------------
(* Properties. *)

\* Every variable stays in its set.
TypeOK ==
    /\ arrived \in 0..MaxMsgs
    /\ window \subseteq 1..arrived
    /\ signals \in 0..MaxSignals
    /\ inflight \in BOOLEAN
    /\ cooling \in BOOLEAN
    /\ pc \in [Runs -> Steps]
    /\ batch \in [Runs -> SUBSET (1..arrived)]
    /\ fusing \in [Runs -> SUBSET Summaries(digested)]
    /\ chain \cup archive \cup dropped \subseteq Summaries(digested)
    /\ nextSeq \in Nat \ {0}
    /\ digested \subseteq 1..arrived
    /\ restarts \in 0..MaxRestarts

\* The in-flight mark admits one compression of a session at a time and is never
\* left behind: it is set exactly while a run exists.
SingleRun ==
    /\ \A r, s \in Runs : Active(r) /\ Active(s) => r = s
    /\ inflight <=> \E r \in Runs : Active(r)

\* During the cooldown after a failure no run is at work: a trigger cannot slip in
\* between the failure and its record, since the mark is released last.
CooldownHolds == cooling => \A r \in Runs : pc[r] \in {"idle", "release"}

\* No message is summarised twice: one that has a summary is no longer in the
\* window, except in the batch of the run that is about to trim it.
DigestedOnce ==
    \A m \in window \cap digested :
        \E r \in Runs : pc[r] \in {"check", "fuse", "trim"} /\ m \in batch[r]

\* A message leaves the window only with a summary, as the oldest of a full window
\* that one more message enters, or with the process: the trim by MessageID after a
\* compression does not touch what arrived in the meantime.
TrimsOnlyDigested ==
    [][\A m \in window \ window' :
           \/ m \in digested
           \/ arrived' = arrived + 1 /\ Cardinality(window) = WindowCap /\ \A k \in window : m <= k
           \/ restarts' # restarts]_vars

\* What was trimmed from the window is still told by a summary in the hot chain or
\* in the archive, unless that summary was dropped by a failed save or a crash.
Remembered == digested \subseteq Covered(chain \cup archive \cup dropped)

\* A row of the archive is never overwritten by another summary: sequence numbers
\* do not repeat, across restarts either.
ArchiveImmutable == [][archive \subseteq archive']_vars

\* The hot chain is bounded: SummaryCap, and one more while a run is fusing.
ChainBounded ==
    /\ Cardinality(chain) <= SummaryCap + 1
    /\ Cardinality(chain) > SummaryCap => \E r \in Runs : pc[r] \in {"check", "fuse"}

=============================================================================
