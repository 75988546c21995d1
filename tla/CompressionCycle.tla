-------------------------- MODULE CompressionCycle --------------------------
(***************************************************************************)
(* What window compression promises to the rest of the bot, without saying *)
(* what a window or a summary holds: how full the window is, whether a run *)
(* is at work, and whether a recent failure holds new runs back.           *)
(* Compressor implements it (CompressorRefinement); its state space is     *)
(* finite without a bound on the number of messages, so liveness is        *)
(* checked here.                                                           *)
(***************************************************************************)
EXTENDS Integers

CONSTANTS WindowCap, CompressionKeep, MaxSignals

ASSUME CycleAssumption ==
    /\ CompressionKeep \in Nat \ {0}
    /\ WindowCap \in Nat
    /\ CompressionKeep < WindowCap
    /\ MaxSignals \in Nat \ {0}

VARIABLES len,      \* messages in the window
          signals,  \* handlers about to call Trigger
          stage,    \* where the session's run is
          cooling   \* the last failure is recent

vars == <<len, signals, stage, cooling>>

Init ==
    /\ len = 0
    /\ signals = 0
    /\ stage = "idle"
    /\ cooling = FALSE

\* Fault, for the checks: only the message that fills the window signals.
ArriveOnEdge ==
    /\ len' = IF len < WindowCap THEN len + 1 ELSE len
    /\ signals' = IF len' = WindowCap /\ len # WindowCap THEN signals + 1 ELSE signals
    /\ signals' <= MaxSignals
    /\ UNCHANGED <<stage, cooling>>

\* A message arrives; a handler whose append fills the window will signal.
Arrive ==
    /\ len' = IF len < WindowCap THEN len + 1 ELSE len
    /\ signals' = IF len' = WindowCap THEN signals + 1 ELSE signals
    /\ signals' <= MaxSignals
    /\ UNCHANGED <<stage, cooling>>

\* A handler whose message could not be saved returns before it signals.
LoseSignal ==
    /\ signals > 0
    /\ signals' = signals - 1
    /\ UNCHANGED <<len, stage, cooling>>

Start ==
    /\ signals > 0
    /\ stage = "idle"
    /\ ~cooling
    /\ signals' = signals - 1
    /\ stage' = "started"
    /\ UNCHANGED <<len, cooling>>

Skip ==
    /\ signals > 0
    /\ stage # "idle" \/ cooling
    /\ signals' = signals - 1
    /\ UNCHANGED <<len, stage, cooling>>

\* The run looks at the window: it goes on exactly if there is a batch to take.
Look ==
    /\ stage = "started"
    /\ stage' = IF len > CompressionKeep THEN "asking" ELSE "releasing"
    /\ UNCHANGED <<len, signals, cooling>>

Answer ==
    /\ stage = "asking"
    /\ stage' = "storing"
    /\ UNCHANGED <<len, signals, cooling>>

Fail ==
    /\ stage = "asking"
    /\ stage' = "failed"
    /\ UNCHANGED <<len, signals, cooling>>

\* The batch leaves the window; what it keeps and what arrived since stays.
Trim ==
    /\ stage = "storing"
    /\ len' \in CompressionKeep..len
    /\ stage' = "releasing"
    /\ UNCHANGED <<signals, cooling>>

\* Fault, for the checks: the mark is not given back after a failure.
RecordFailureHangs ==
    /\ stage = "failed"
    /\ cooling' = TRUE
    /\ UNCHANGED <<len, signals, stage>>

RecordFailure ==
    /\ stage = "failed"
    /\ cooling' = TRUE
    /\ stage' = "releasing"
    /\ UNCHANGED <<len, signals>>

Release ==
    /\ stage = "releasing"
    /\ stage' = "idle"
    /\ UNCHANGED <<len, signals, cooling>>

CooldownExpires ==
    /\ cooling
    /\ cooling' = FALSE
    /\ UNCHANGED <<len, signals, stage>>

\* The process restarts with an empty window.
Restart ==
    /\ len' = 0
    /\ signals' = 0
    /\ stage' = "idle"
    /\ cooling' = FALSE

Working ==
    \/ Arrive \/ LoseSignal \/ Start \/ Skip
    \/ Look \/ Answer \/ Fail \/ Trim \/ RecordFailure \/ Release
    \/ CooldownExpires

Next == Working \/ Restart

Spec == Init /\ [][Next]_vars

-----------------------------------------------------------------------------
(***************************************************************************)
(* Liveness holds of a process that stays up, in a session where messages  *)
(* keep arriving.  A goroutine is scheduled until it ends and a model call *)
(* returns within its timeout, so every step of a run is weakly fair; a    *)
(* cooldown is 60 seconds.  A handler calls Trigger unless SaveMessage     *)
(* fails, and the model answers sometimes: strong fairness for the two.    *)
(***************************************************************************)
Fairness ==
    /\ WF_vars(Arrive)
    /\ WF_vars(Skip)
    /\ SF_vars(Start)
    /\ WF_vars(Look)
    /\ WF_vars(Answer \/ Fail)
    /\ SF_vars(Answer)
    /\ WF_vars(Trim)
    /\ WF_vars(RecordFailure)
    /\ WF_vars(Release)
    /\ WF_vars(CooldownExpires)

LiveSpec == Init /\ [][Working]_vars /\ Fairness

\* A full window is eventually summarised, whatever triggers were skipped or lost
\* meanwhile: a skipped signal is made good by a later message.
FullIsCompressed == len = WindowCap ~> stage = "storing"

\* The in-flight mark is always given back.
MarkIsReleased == stage # "idle" ~> stage = "idle"

=============================================================================
