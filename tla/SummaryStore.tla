---------------------------- MODULE SummaryStore ----------------------------
(***************************************************************************)
(* The summaries of one session (internal/service/memory/summary.go): the  *)
(* hot chain in memory, the archive in the conversation_summary table and  *)
(* the session's next sequence number.  Every operation of the code holds  *)
(* SummaryStore.mu, so each is one action here.                            *)
(*                                                                         *)
(* A summary is its sequence number and the set of messages its text       *)
(* stands for.  The chain is kept oldest first by the code and its         *)
(* sequence numbers only grow along it, so it is modelled as a set.        *)
(***************************************************************************)
EXTENDS Integers, FiniteSets

CONSTANTS SummaryCap,     \* bound of the hot chain (5 in the code)
          LoadMayFail,    \* whether ListSummaries can return an error
          ArchiveMayFail  \* whether SaveSummary can return an error

ASSUME SummaryAssumption ==
    /\ SummaryCap \in Nat \ {0}
    /\ LoadMayFail \in BOOLEAN
    /\ ArchiveMayFail \in BOOLEAN

VARIABLES loaded,   \* the session has an entry in `chains`
          chain,    \* the hot chain: a set of summaries
          nextSeq,  \* the next sequence number
          archive,  \* the rows of conversation_summary: survives a crash
          dropped   \* history: summaries that left memory without being saved,
                    \* because the save failed or the process died

summaryVars == <<loaded, chain, nextSeq, archive, dropped>>

Summary(seq, covers) == [seq |-> seq, covers |-> covers]
Summaries(told) == [seq : Nat \ {0}, covers : SUBSET told]
Covered(sums) == UNION {s.covers : s \in sums}
SeqsOf(sums) == {s.seq : s \in sums}

SummaryInit ==
    /\ loaded = FALSE
    /\ chain = {}
    /\ nextSeq = 1
    /\ archive = {}
    /\ dropped = {}

\* ListSummaries: the newest SummaryCap rows.
Latest == {s \in archive : Cardinality({t \in archive : t.seq > s.seq}) < SummaryCap}

\* What ensureLoaded may leave as the chain: the chain itself once loaded, else
\* the newest rows, or nothing when the query fails (the error is only logged).
LoadedChains ==
    IF loaded THEN {chain} ELSE {Latest} \cup (IF LoadMayFail THEN {{}} ELSE {})

\* Fault of ensureLoaded, for the checks: the numbers do not continue where the archive ends.
SeqAfterFresh(sums) == IF loaded THEN nextSeq ELSE 1

\* The number ensureLoaded continues with when it leaves sums as the chain.
SeqAfter(sums) ==
    IF loaded THEN nextSeq
    ELSE IF sums = {} THEN 1
    ELSE 1 + CHOOSE n \in SeqsOf(sums) : \A k \in SeqsOf(sums) : k <= n

\* SaveSummary: insert, or overwrite the row with the same number.
Upsert(rows, sums) == {r \in rows : r.seq \notin SeqsOf(sums)} \cup sums

\* The subsets of sums that `archive` may manage to save.
Saveable(sums) == IF ArchiveMayFail THEN SUBSET sums ELSE {sums}

\* Append: a new level-1 summary of the given messages.
AppendSummary(covers) ==
    \E base \in LoadedChains :
        /\ loaded' = TRUE
        /\ chain' = base \cup {Summary(SeqAfter(base), covers)}
        /\ nextSeq' = SeqAfter(base) + 1
        /\ UNCHANGED <<archive, dropped>>

\* ReplaceWithFused: archive the whole chain and put one summary in its place.
ReplaceWithFused(covers) ==
    \E base \in LoadedChains : \E saved \in Saveable(base) :
        /\ loaded' = TRUE
        /\ archive' = Upsert(archive, saved)
        /\ dropped' = dropped \cup (base \ saved)
        /\ chain' = {Summary(SeqAfter(base), covers)}
        /\ nextSeq' = SeqAfter(base) + 1

OldestOf(sums) == {s \in sums : \A t \in sums : s.seq <= t.seq}

\* Fault, for the checks: the oldest summary is not archived.
EvictUnsaved ==
    \E base \in LoadedChains :
        /\ loaded' = TRUE
        /\ chain' = base \ OldestOf(base)
        /\ nextSeq' = SeqAfter(base)
        /\ UNCHANGED <<archive, dropped>>

\* EvictOldest: archive the oldest summary and drop it from the chain.
EvictOldest ==
    \E base \in LoadedChains : \E saved \in Saveable(OldestOf(base)) :
        /\ loaded' = TRUE
        /\ archive' = Upsert(archive, saved)
        /\ dropped' = dropped \cup (OldestOf(base) \ saved)
        /\ chain' = base \ OldestOf(base)
        /\ nextSeq' = SeqAfter(base)

\* GetAll: its only effect is the load on first use.
GetAll ==
    \E base \in LoadedChains :
        /\ loaded' = TRUE
        /\ chain' = base
        /\ nextSeq' = SeqAfter(base)
        /\ UNCHANGED <<archive, dropped>>

\* The process dies: memory is lost, the rows already written stay.
LoseMemory(saved) ==
    /\ loaded' = FALSE
    /\ chain' = {}
    /\ nextSeq' = 1
    /\ archive' = Upsert(archive, saved)
    /\ dropped' = dropped \cup (chain \ archive')

=============================================================================
