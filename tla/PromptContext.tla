--------------------------- MODULE PromptContext ---------------------------
(***************************************************************************)
(* What a prompt of one session tells of its history                       *)
(* (internal/service/memory/builder.go) while the compressor works on the  *)
(* same window and the same chain.                                         *)
(*                                                                         *)
(* BuildMessages copies the window first, then has the images of the copy  *)
(* described, which may take one model call each, and reads the hot chain  *)
(* of summaries last, when it writes the system text.  No lock is held     *)
(* from the one to the other, so compressions, fusions, evictions, further *)
(* messages and a restart fall in between.  A prompt is the copy and the   *)
(* chain it read; that it also ends with its own message is in Pipeline.   *)
(***************************************************************************)
EXTENDS Compressor

CONSTANT Builders  \* handlers that can build a prompt of the session at a time

VARIABLES asm,       \* where each builder is
          copied,    \* win: its copy of the window
          upto,      \* history: the newest message when it took the copy
          forgotten  \* history: messages that no prompt has to tell any more

asmVars == <<asm, copied, upto>>
promptVars == <<vars, asmVars, forgotten>>

PromptInit ==
    /\ Init
    /\ asm = [b \in Builders |-> "idle"]
    /\ copied = [b \in Builders |-> {}]
    /\ upto = [b \in Builders |-> 0]
    /\ forgotten = {}

\* The chain a prompt would read now, and what it would tell with the window of now.
HotChain == IF loaded THEN chain ELSE Latest
Told == window \cup Covered(HotChain)

\* What the session gives up knowingly: a message too many pushes the oldest out of
\* the window, the oldest summary gives way to a failed fusion, the process dies.
GivesUp ==
    \/ arrived' # arrived
    \/ chain' # chain /\ chain' = chain \ OldestOf(chain)
    \/ restarts' # restarts

\* A step of a handler, of a compression or of the environment.
CompressorStep ==
    /\ Next
    /\ forgotten' = IF GivesUp THEN forgotten \cup (Told \ Told') ELSE forgotten
    /\ IF restarts' # restarts
       THEN /\ asm' = [b \in Builders |-> "idle"]
            /\ copied' = [b \in Builders |-> {}]
            /\ upto' = [b \in Builders |-> 0]
       ELSE UNCHANGED asmVars

\* GetWindow: the copy the prompt is built from.
CopyWindow(b) ==
    /\ asm[b] = "idle"
    /\ arrived > 0
    /\ asm' = [asm EXCEPT ![b] = "describe"]
    /\ copied' = [copied EXCEPT ![b] = window]
    /\ upto' = [upto EXCEPT ![b] = arrived]
    /\ UNCHANGED <<vars, forgotten>>

\* buildSummaryText: GetSummaries gives the whole hot chain, loading it on first use;
\* the prompt goes to the model.
ReadChain(b) ==
    /\ asm[b] = "describe"
    /\ GetAll
    /\ asm' = [asm EXCEPT ![b] = "idle"]
    /\ copied' = [copied EXCEPT ![b] = {}]
    /\ upto' = [upto EXCEPT ![b] = 0]
    /\ UNCHANGED <<arrived, window, signals, runVars, restarts, digested, forgotten>>

PromptNext ==
    \/ CompressorStep
    \/ \E b \in Builders : CopyWindow(b) \/ ReadChain(b)

PromptSpec == PromptInit /\ [][PromptNext]_promptVars

-----------------------------------------------------------------------------
(* Properties. *)

\* A prompt has no hole: every message that had arrived when the window was copied is
\* in the copy or told by the chain read at the end, however many compressions and
\* fusions came between the two, unless the session has given it up.
PromptHasNoHole ==
    [][\A b \in Builders :
           ReadChain(b) => 1..upto[b] \subseteq copied[b] \cup Covered(chain') \cup forgotten]_promptVars

=============================================================================
