-------------------------- MODULE CompressorProofs --------------------------
(***************************************************************************)
(* Proofs about Compressor and PromptContext, for every window size,       *)
(* number of runs, of messages and of prompts under construction:          *)
(*                                                                         *)
(*   - the type invariant;                                                 *)
(*   - one run at a time, and none during a cooldown;                      *)
(*   - no message is summarised twice;                                     *)
(*   - the hot chain is bounded;                                           *)
(*   - if the loads of the archive do not fail, none of its rows is        *)
(*     overwritten and nothing that was summarised is forgotten;           *)
(*   - if every message has a MessageID of its own, a trim takes only what *)
(*     has a summary, and the compressor implements CompressionCycle;      *)
(*   - prompts that are built beside the compressor do nothing that the    *)
(*     compressor on its own could not;                                    *)
(*   - under both conditions, a prompt has no hole.                        *)
(***************************************************************************)
EXTENDS CompressorRefinement, PromptContext, FiniteSetTheorems, WellFoundedInduction, TLAPS

-----------------------------------------------------------------------------
(* Numbers and sets. *)

\* A bounded set of naturals that is not empty has a greatest element.
LEMMA GreatestExists ==
    ASSUME NEW S, S \subseteq Nat, S # {}, NEW b \in Nat, \A k \in S : k <= b
    PROVE  \E n \in S : \A k \in S : k <= n
<1> DEFINE T == {m \in Nat : b - m \in S}
<1>1. \A k \in S : k \in Nat /\ b - k \in Nat /\ b - (b - k) = k
  OBVIOUS
<1>2. T \subseteq Nat /\ T # {}
  <2>1. PICK k \in S : TRUE
    OBVIOUS
  <2>2. b - k \in T
    BY <1>1, <2>1
  <2> QED
    BY <2>2
<1>3. PICK m \in T : \A y \in T : ~ (<<y, m>> \in OpToRel(<, Nat))
  <2> HIDE DEF T
  <2> QED
    BY <1>2, NatLessThanWellFounded, WFMin
<1>4. ASSUME NEW y \in T
      PROVE  m <= y
  <2>1. y \in Nat /\ m \in Nat
    OBVIOUS
  <2>2. ~ (<<y, m>> \in OpToRel(<, Nat))
    BY <1>3
  <2>3. ~ (y < m)
    BY <2>1, <2>2 DEF OpToRel
  <2> QED
    BY <2>1, <2>3
<1>5. ASSUME NEW k \in S
      PROVE  k <= b - m
  <2>1. b - k \in T
    BY <1>1
  <2>2. m <= b - k
    BY <1>4, <2>1
  <2> QED
    BY <1>1, <2>2
<1> QED
  BY <1>5

-----------------------------------------------------------------------------
(* The summary store. *)

\* The sequence numbers of the summaries are positive and bounded.
SeqsBounded ==
    /\ \A s \in chain \cup archive : s.seq \in Nat \ {0}
    /\ \E bound \in Nat : \A s \in chain \cup archive : s.seq <= bound
    /\ nextSeq \in Nat \ {0}

\* A load takes what it leaves from the chain or from the archive.
LEMMA LoadTakesKnown ==
    ASSUME NEW base \in LoadedChains
    PROVE  base \subseteq chain \cup archive
BY DEF LoadedChains, Latest

\* The number a load continues with is a positive natural.
LEMMA SeqAfterType ==
    ASSUME SeqsBounded, NEW base \in LoadedChains
    PROVE  SeqAfter(base) \in Nat \ {0}
<1>1. CASE loaded \/ base = {}
  BY <1>1 DEF SeqAfter, SeqsBounded
<1>2. CASE ~loaded /\ base # {}
  <2> DEFINE seqs == SeqsOf(base)
  <2>1. base \subseteq chain \cup archive
    BY LoadTakesKnown
  <2>2. PICK bound \in Nat : \A s \in chain \cup archive : s.seq <= bound
    BY DEF SeqsBounded
  <2>3. seqs \subseteq Nat /\ seqs # {} /\ \A k \in seqs : k <= bound
    BY <1>2, <2>1, <2>2 DEF SeqsOf, SeqsBounded
  <2>4. \E n \in seqs : \A k \in seqs : k <= n
    BY <2>2, <2>3, GreatestExists
  <2>5. (CHOOSE n \in seqs : \A k \in seqs : k <= n) \in Nat
    BY <2>3, <2>4
  <2> QED
    BY <1>2, <2>5 DEF SeqAfter
<1> QED
  BY <1>1, <1>2

\* The operations of the store that change its rows, with what a crash does to it.
StoreOp(covers) ==
    \/ AppendSummary(covers)
    \/ ReplaceWithFused(covers)
    \/ EvictOldest
    \/ GetAll
    \/ \E saved \in SUBSET chain : LoseMemory(saved)

\* An operation adds at most one summary, with a positive number, to those known.
LEMMA StoreOpAdds ==
    ASSUME SeqsBounded, NEW covers, StoreOp(covers)
    PROVE  /\ \E n \in Nat \ {0} :
                  chain' \cup archive' \subseteq chain \cup archive \cup {Summary(n, covers)}
           /\ dropped' \subseteq dropped \cup chain \cup archive
           /\ nextSeq' \in Nat \ {0}
<1>1. CASE AppendSummary(covers)
  <2>1. PICK base \in LoadedChains :
          /\ chain' = base \cup {Summary(SeqAfter(base), covers)}
          /\ nextSeq' = SeqAfter(base) + 1
          /\ UNCHANGED <<archive, dropped>>
    BY <1>1 DEF AppendSummary
  <2>2. base \subseteq chain \cup archive /\ SeqAfter(base) \in Nat \ {0}
    BY LoadTakesKnown, SeqAfterType
  <2> QED
    BY <2>1, <2>2
<1>2. CASE ReplaceWithFused(covers)
  <2>1. PICK base \in LoadedChains : \E saved \in Saveable(base) :
          /\ archive' = Upsert(archive, saved)
          /\ dropped' = dropped \cup (base \ saved)
          /\ chain' = {Summary(SeqAfter(base), covers)}
          /\ nextSeq' = SeqAfter(base) + 1
    BY <1>2 DEF ReplaceWithFused
  <2>2. PICK saved \in Saveable(base) :
          /\ archive' = Upsert(archive, saved)
          /\ dropped' = dropped \cup (base \ saved)
          /\ chain' = {Summary(SeqAfter(base), covers)}
          /\ nextSeq' = SeqAfter(base) + 1
    BY <2>1
  <2>3. base \subseteq chain \cup archive /\ SeqAfter(base) \in Nat \ {0}
    BY LoadTakesKnown, SeqAfterType
  <2>4. saved \subseteq base
    BY DEF Saveable
  <2> QED
    BY <2>2, <2>3, <2>4 DEF Upsert
<1>3. CASE EvictOldest
  <2>1. PICK base \in LoadedChains : \E saved \in Saveable(OldestOf(base)) :
          /\ archive' = Upsert(archive, saved)
          /\ dropped' = dropped \cup (OldestOf(base) \ saved)
          /\ chain' = base \ OldestOf(base)
          /\ nextSeq' = SeqAfter(base)
    BY <1>3 DEF EvictOldest
  <2>2. PICK saved \in Saveable(OldestOf(base)) :
          /\ archive' = Upsert(archive, saved)
          /\ dropped' = dropped \cup (OldestOf(base) \ saved)
          /\ chain' = base \ OldestOf(base)
          /\ nextSeq' = SeqAfter(base)
    BY <2>1
  <2>3. base \subseteq chain \cup archive /\ SeqAfter(base) \in Nat \ {0}
    BY LoadTakesKnown, SeqAfterType
  <2>4. saved \subseteq OldestOf(base) /\ OldestOf(base) \subseteq base
    BY DEF Saveable, OldestOf
  <2> QED
    BY <2>2, <2>3, <2>4 DEF Upsert
<1>4. CASE GetAll
  <2>1. PICK base \in LoadedChains :
          chain' = base /\ nextSeq' = SeqAfter(base) /\ UNCHANGED <<archive, dropped>>
    BY <1>4 DEF GetAll
  <2> QED
    BY <2>1, LoadTakesKnown, SeqAfterType
<1>5. CASE \E saved \in SUBSET chain : LoseMemory(saved)
  <2>1. PICK saved \in SUBSET chain : LoseMemory(saved)
    BY <1>5
  <2> QED
    BY <2>1 DEF LoseMemory, Upsert
<1> QED
  BY <1>1, <1>2, <1>3, <1>4, <1>5 DEF StoreOp

\* Hence the store stays well formed, and tells of digested messages only.
LEMMA StoreOpType ==
    ASSUME SeqsBounded, NEW covers, StoreOp(covers), covers \subseteq digested',
           digested \subseteq digested',
           chain \cup archive \cup dropped \subseteq Summaries(digested)
    PROVE  /\ SeqsBounded'
           /\ (chain \cup archive \cup dropped)' \subseteq Summaries(digested')
<1>1. PICK n \in Nat \ {0} :
        chain' \cup archive' \subseteq chain \cup archive \cup {Summary(n, covers)}
  BY StoreOpAdds
<1>2. dropped' \subseteq dropped \cup chain \cup archive /\ nextSeq' \in Nat \ {0}
  BY StoreOpAdds
<1>3. Summary(n, covers) \in Summaries(digested')
  BY DEF Summary, Summaries
<1>4. Summaries(digested) \subseteq Summaries(digested')
  BY DEF Summaries
<1>5. (chain \cup archive \cup dropped)' \subseteq Summaries(digested')
  BY <1>1, <1>2, <1>3, <1>4
<1>6. \A s \in Summaries(digested') : s.seq \in Nat \ {0}
  BY DEF Summaries
<1>7. \E bound \in Nat : \A s \in chain' \cup archive' : s.seq <= bound
  <2>1. PICK b \in Nat : \A s \in chain \cup archive : s.seq <= b
    BY DEF SeqsBounded
  <2>2. Summary(n, covers).seq = n
    BY DEF Summary
  <2>3. ASSUME NEW s \in chain' \cup archive'
        PROVE  s.seq <= b + n
    <3>1. s.seq \in Nat
      BY <1>5, <1>6
    <3>2. CASE s \in chain \cup archive
      BY <2>1, <3>1, <3>2
    <3>3. CASE s = Summary(n, covers)
      BY <2>2, <3>3
    <3> QED
      BY <1>1, <3>2, <3>3
  <2> QED
    BY <2>3
<1> QED
  BY <1>2, <1>5, <1>6, <1>7 DEF SeqsBounded

-----------------------------------------------------------------------------
(* The type invariant. *)

TypeInv == TypeOK /\ SeqsBounded

LEMMA TypeInit == Init => TypeInv
<1> SUFFICES ASSUME Init
             PROVE  TypeInv
  OBVIOUS
<1> USE WindowAssumption, CompressorAssumption DEF Init, SummaryInit
<1>1. TypeOK
  <2>1. batch \in [Runs -> SUBSET (1..arrived)] /\ fusing \in [Runs -> SUBSET Summaries(digested)]
    OBVIOUS
  <2>2. pc \in [Runs -> Steps]
    BY DEF Steps
  <2>3. /\ arrived \in 0..MaxMsgs
        /\ signals \in 0..MaxSignals
        /\ restarts \in 0..MaxRestarts
    OBVIOUS
  <2>4. chain \cup archive \cup dropped \subseteq Summaries(digested)
    OBVIOUS
  <2>5. window \subseteq 1..arrived /\ digested \subseteq 1..arrived
    OBVIOUS
  <2>6. inflight = FALSE /\ cooling = FALSE /\ nextSeq \in Nat \ {0}
    OBVIOUS
  <2>7. inflight \in BOOLEAN /\ cooling \in BOOLEAN
    BY <2>6, Zenon
  <2> HIDE DEF Init, SummaryInit
  <2> QED
    BY <2>1, <2>2, <2>3, <2>4, <2>5, <2>6, <2>7 DEF TypeOK
<1>2. SeqsBounded
  BY DEF SeqsBounded
<1> QED
  BY <1>1, <1>2 DEF TypeInv

\* What the window operators return is part of the window, or the new message.
LEMMA WindowSubsets ==
    ASSUME NEW w, NEW m, NEW b
    PROVE  /\ Appended(w, m) \subseteq w \cup {m}
           /\ BatchOf(w) \subseteq w
           /\ RemoveByIDs(w, b) \subseteq w
BY DEF Appended, Newest, BatchOf, Oldest, RemoveByIDs

LEMMA TypeNext == TypeInv /\ [Next]_vars => TypeInv'
<1> SUFFICES ASSUME TypeInv, [Next]_vars
             PROVE  TypeInv'
  OBVIOUS
<1> USE DEF TypeInv
<1>1. CASE Arrive
  <2>1. arrived \in Nat /\ 1..arrived \subseteq 1..arrived'
    BY <1>1 DEF Arrive, TypeOK
  <2>2. window' \subseteq 1..arrived'
    <3>1. window' \subseteq window \cup {arrived'}
      BY <1>1, WindowSubsets DEF Arrive
    <3>2. arrived' \in 1..arrived'
      BY <1>1 DEF Arrive, TypeOK
    <3> QED
      BY <2>1, <3>1, <3>2 DEF TypeOK
  <2>3. UNCHANGED <<inflight, cooling, pc, batch, fusing, restarts, digested, loaded, chain,
                    nextSeq, archive, dropped>>
    BY <1>1 DEF Arrive, runVars, summaryVars
  <2>4. arrived' \in 0..MaxMsgs /\ signals' \in 0..MaxSignals
    BY <1>1, WindowAssumption, CompressorAssumption DEF Arrive, TypeOK
  <2>5. TypeOK'
    BY <2>1, <2>2, <2>3, <2>4 DEF TypeOK
  <2> QED
    BY <2>3, <2>5 DEF SeqsBounded
<1>2. CASE LoseSignal
  BY <1>2, CompressorAssumption DEF LoseSignal, TypeOK, SeqsBounded, runVars, summaryVars
<1>3. CASE TriggerSkips
  BY <1>3, CompressorAssumption DEF TriggerSkips, TypeOK, SeqsBounded, runVars, summaryVars
<1>4. CASE CooldownExpires
  BY <1>4, CompressorAssumption DEF CooldownExpires, TypeOK, SeqsBounded, runVars, summaryVars
<1>5. CASE ReadSummaries
  <2>1. StoreOp({}) /\ UNCHANGED <<arrived, window, signals, runVars, restarts, digested>>
    BY <1>5 DEF ReadSummaries, StoreOp
  <2>2. /\ SeqsBounded'
        /\ (chain \cup archive \cup dropped)' \subseteq Summaries(digested')
    BY <2>1, StoreOpType DEF TypeOK
  <2> QED
    BY <2>1, <2>2 DEF TypeOK, SeqsBounded, runVars
<1>6. ASSUME NEW r \in Runs, TriggerStarts(r)
      PROVE  TypeInv'
  BY <1>6, CompressorAssumption
  DEF TriggerStarts, Goto, Steps, TypeOK, SeqsBounded, runVars, summaryVars
<1>7. ASSUME NEW r \in Runs, SummarizeFails(r)
      PROVE  TypeInv'
  BY <1>7, CompressorAssumption
  DEF SummarizeFails, Goto, Steps, TypeOK, SeqsBounded, runVars, summaryVars
<1>8. ASSUME NEW r \in Runs, Trim(r)
      PROVE  TypeInv'
  BY <1>8, WindowSubsets, CompressorAssumption
  DEF Trim, Goto, Steps, TypeOK, SeqsBounded, runVars, summaryVars
<1>9. ASSUME NEW r \in Runs, RecordFailure(r)
      PROVE  TypeInv'
  BY <1>9, CompressorAssumption
  DEF RecordFailure, Goto, Steps, TypeOK, SeqsBounded, runVars, summaryVars
<1>10. ASSUME NEW r \in Runs, Release(r)
      PROVE  TypeInv'
  BY <1>10, CompressorAssumption
  DEF Release, Goto, Steps, TypeOK, SeqsBounded, runVars, summaryVars
<1>11. ASSUME NEW r \in Runs, Snapshot(r)
      PROVE  TypeInv'
  BY <1>11, WindowSubsets, CompressorAssumption
  DEF Snapshot, Goto, Steps, TypeOK, SeqsBounded, runVars, summaryVars
<1>12. ASSUME NEW r \in Runs, Summarize(r)
      PROVE  TypeInv'
  <2>1. StoreOp(batch[r])
    BY <1>12 DEF Summarize, StoreOp
  <2>2. batch[r] \subseteq digested' /\ digested \subseteq digested'
    BY <1>12 DEF Summarize, TypeOK
  <2>3. /\ SeqsBounded'
        /\ (chain \cup archive \cup dropped)' \subseteq Summaries(digested')
    BY <2>1, <2>2, StoreOpType DEF TypeOK
  <2>4. Summaries(digested) \subseteq Summaries(digested')
    BY <2>2 DEF Summaries
  <2>5. fusing' \in [Runs -> SUBSET Summaries(digested')]
    BY <1>12, <2>3, <2>4 DEF Summarize, TypeOK
  <2>6. digested' \subseteq 1..arrived
    BY <1>12 DEF Summarize, TypeOK
  <2> QED
    BY <1>12, <2>3, <2>5, <2>6 DEF Summarize, Goto, Steps, TypeOK, SeqsBounded
<1>13. ASSUME NEW r \in Runs, CheckChain(r)
      PROVE  TypeInv'
  <2>1. StoreOp({})
    BY <1>13 DEF CheckChain, StoreOp
  <2>2. {} \subseteq digested' /\ digested \subseteq digested'
    BY <1>13 DEF CheckChain
  <2>3. /\ SeqsBounded'
        /\ (chain \cup archive \cup dropped)' \subseteq Summaries(digested')
    BY <2>1, <2>2, StoreOpType DEF TypeOK
  <2>4. Summaries(digested) \subseteq Summaries(digested')
    BY <2>2 DEF Summaries
  <2>5. fusing' \in [Runs -> SUBSET Summaries(digested')]
    BY <1>13, <2>3, <2>4 DEF CheckChain, TypeOK
  <2>6. digested' \subseteq 1..arrived
    BY <1>13 DEF CheckChain, TypeOK
  <2> QED
    BY <1>13, <2>3, <2>5, <2>6 DEF CheckChain, Goto, Steps, TypeOK, SeqsBounded
<1>14. ASSUME NEW r \in Runs, Fuse(r)
      PROVE  TypeInv'
  <2>1. StoreOp(Covered(fusing[r]))
    BY <1>14 DEF Fuse, StoreOp
  <2>2. Covered(fusing[r]) \subseteq digested' /\ digested \subseteq digested'
    BY <1>14 DEF Fuse, TypeOK, Covered, Summaries
  <2>3. /\ SeqsBounded'
        /\ (chain \cup archive \cup dropped)' \subseteq Summaries(digested')
    BY <2>1, <2>2, StoreOpType DEF TypeOK
  <2>4. Summaries(digested) \subseteq Summaries(digested')
    BY <2>2 DEF Summaries
  <2>5. fusing' \in [Runs -> SUBSET Summaries(digested')]
    BY <1>14, <2>3, <2>4 DEF Fuse, TypeOK
  <2>6. digested' \subseteq 1..arrived
    BY <1>14 DEF Fuse, TypeOK
  <2> QED
    BY <1>14, <2>3, <2>5, <2>6 DEF Fuse, Goto, Steps, TypeOK, SeqsBounded
<1>15. ASSUME NEW r \in Runs, FuseFails(r)
      PROVE  TypeInv'
  <2>1. StoreOp({})
    BY <1>15 DEF FuseFails, StoreOp
  <2>2. {} \subseteq digested' /\ digested \subseteq digested'
    BY <1>15 DEF FuseFails
  <2>3. /\ SeqsBounded'
        /\ (chain \cup archive \cup dropped)' \subseteq Summaries(digested')
    BY <2>1, <2>2, StoreOpType DEF TypeOK
  <2>4. Summaries(digested) \subseteq Summaries(digested')
    BY <2>2 DEF Summaries
  <2>5. fusing' \in [Runs -> SUBSET Summaries(digested')]
    BY <1>15, <2>3, <2>4 DEF FuseFails, TypeOK
  <2>6. digested' \subseteq 1..arrived
    BY <1>15 DEF FuseFails, TypeOK
  <2> QED
    BY <1>15, <2>3, <2>5, <2>6 DEF FuseFails, Goto, Steps, TypeOK, SeqsBounded
<1>16. CASE Crash
  <2>1. PICK saved \in SavedBeforeCrash : LoseMemory(saved)
    BY <1>16 DEF Crash
  <2>2. saved \subseteq chain
    BY <2>1 DEF SavedBeforeCrash, Saveable
  <2>3. StoreOp({}) /\ UNCHANGED digested
    BY <1>16, <2>1, <2>2 DEF StoreOp, Crash
  <2>4. /\ SeqsBounded'
        /\ (chain \cup archive \cup dropped)' \subseteq Summaries(digested')
    BY <2>3, StoreOpType DEF TypeOK
  <2>5. restarts' \in 0..MaxRestarts /\ signals' \in 0..MaxSignals
    BY <1>16, CompressorAssumption DEF Crash, TypeOK
  <2>6. /\ batch' \in [Runs -> SUBSET (1..arrived')]
        /\ fusing' \in [Runs -> SUBSET Summaries(digested')]
        /\ pc' \in [Runs -> Steps]
    BY <1>16 DEF Crash, Steps
  <2>7. /\ arrived' \in 0..MaxMsgs /\ window' \subseteq 1..arrived'
        /\ digested' \subseteq 1..arrived'
        /\ inflight' \in BOOLEAN /\ cooling' \in BOOLEAN
    BY <1>16 DEF Crash, TypeOK
  <2> QED
    BY <2>4, <2>5, <2>6, <2>7 DEF TypeOK, SeqsBounded
<1>17. CASE UNCHANGED vars
  BY <1>17 DEF vars, runVars, summaryVars, TypeOK, SeqsBounded
<1> QED
  BY <1>1, <1>2, <1>3, <1>4, <1>5, <1>6, <1>7, <1>8, <1>9,
     <1>10, <1>11, <1>12, <1>13, <1>14, <1>15, <1>16, <1>17
  DEF Next, RunStep

\* Every variable of the compressor stays in its set.
THEOREM TypeCorrect == Spec => []TypeOK
<1>1. TypeInv => TypeOK
  BY DEF TypeInv
<1> QED
  BY TypeInit, TypeNext, <1>1, PTL DEF Spec

-----------------------------------------------------------------------------
(* One run at a time. *)

RunInv == TypeInv /\ SingleRun /\ CooldownHolds

LEMMA RunInit == Init => RunInv
<1>1. Init => SingleRun /\ CooldownHolds
  BY DEF Init, SingleRun, CooldownHolds, Active
<1> QED
  BY <1>1, TypeInit DEF RunInv

LEMMA RunNext == RunInv /\ [Next]_vars => RunInv'
<1> SUFFICES ASSUME RunInv, [Next]_vars
             PROVE  SingleRun' /\ CooldownHolds'
  BY TypeNext DEF RunInv
<1>0. pc \in [Runs -> Steps]
  BY DEF RunInv, TypeInv, TypeOK
\* Steps that leave the marks and the runs where they are.
<1>1. CASE UNCHANGED <<pc, inflight, cooling>>
  BY <1>1 DEF RunInv, SingleRun, CooldownHolds, Active
<1>2. CASE CooldownExpires
  BY <1>2 DEF CooldownExpires, RunInv, SingleRun, CooldownHolds, Active
<1>3. CASE Crash
  BY <1>3 DEF Crash, SingleRun, CooldownHolds, Active
<1>4. ASSUME NEW r \in Runs, TriggerStarts(r)
      PROVE  SingleRun' /\ CooldownHolds'
  <2>1. \A s \in Runs : pc[s] = "idle"
    BY <1>4 DEF TriggerStarts, RunInv, SingleRun, Active
  <2> QED
    BY <1>0, <1>4, <2>1 DEF TriggerStarts, Goto, SingleRun, CooldownHolds, Active
\* A run moves on and stays the only one.
<1>5. ASSUME NEW r \in Runs, RunStep(r)
      PROVE  SingleRun' /\ CooldownHolds'
  <2>1. Active(r)
    BY <1>5 DEF RunStep, Snapshot, Summarize, SummarizeFails, CheckChain, Fuse, FuseFails,
                Trim, RecordFailure, Release, Active
  <2>2. inflight /\ \A s \in Runs : s # r => pc[s] = "idle"
    BY <2>1 DEF RunInv, SingleRun, Active
  <2>3. CASE Release(r)
    BY <1>0, <2>2, <2>3 DEF Release, Goto, SingleRun, CooldownHolds, Active
  <2>4. CASE RecordFailure(r)
    BY <1>0, <2>2, <2>4 DEF RecordFailure, Goto, SingleRun, CooldownHolds, Active
  <2>5. CASE \E step \in Steps \ {"idle"} : /\ Goto(r, step)
                                          /\ UNCHANGED <<inflight, cooling>>
                                          /\ pc[r] # "release"
    BY <1>0, <2>1, <2>2, <2>5 DEF Goto, RunInv, SingleRun, CooldownHolds, Active
  <2> QED
    BY <1>5, <2>3, <2>4, <2>5
    DEF RunStep, Snapshot, Summarize, SummarizeFails, CheckChain, Fuse, FuseFails, Trim, Steps
<1> QED
  BY <1>1, <1>2, <1>3, <1>4, <1>5
  DEF Next, vars, runVars, Arrive, LoseSignal, TriggerSkips, ReadSummaries

\* The in-flight mark is set exactly while a run exists, and at most one run exists.
THEOREM OneRunAtATime == Spec => []SingleRun
<1>1. RunInv => SingleRun
  BY DEF RunInv
<1> QED
  BY RunInit, RunNext, <1>1, PTL DEF Spec

\* No run is at work during the cooldown that follows a failure.
THEOREM NoRunWhileCooling == Spec => []CooldownHolds
<1>1. RunInv => CooldownHolds
  BY DEF RunInv
<1> QED
  BY RunInit, RunNext, <1>1, PTL DEF Spec

-----------------------------------------------------------------------------
(* No message is summarised twice. *)

DigestInv == RunInv /\ DigestedOnce

LEMMA DigestNext == DigestInv /\ [Next]_vars => DigestInv'
<1> SUFFICES ASSUME DigestInv, [Next]_vars
             PROVE  DigestedOnce'
  BY RunNext DEF DigestInv
<1>0. /\ pc \in [Runs -> Steps]
      /\ batch \in [Runs -> SUBSET (1..arrived)]
      /\ arrived \in Nat /\ digested \subseteq 1..arrived
  BY WindowAssumption DEF DigestInv, RunInv, TypeInv, TypeOK
\* While a run is at work, it alone accounts for the messages still in the window.
<1>1. ASSUME NEW r \in Runs, Active(r), NEW m \in window \cap digested
      PROVE  pc[r] \in {"check", "fuse", "trim"} /\ m \in batch[r]
  BY <1>1 DEF DigestInv, RunInv, DigestedOnce, SingleRun, Active
<1>2. CASE UNCHANGED <<window, digested, pc, batch>>
  BY <1>2 DEF DigestInv, DigestedOnce
<1>3. CASE Arrive
  <2>1. window' \subseteq window \cup {arrived + 1}
    BY <1>3, WindowSubsets DEF Arrive
  <2>2. arrived + 1 \notin digested
    BY <1>0
  <2> QED
    BY <1>3, <2>1, <2>2 DEF Arrive, runVars, DigestInv, DigestedOnce
<1>4. CASE Crash
  BY <1>4 DEF Crash, DigestedOnce
<1>5. ASSUME NEW r \in Runs, TriggerStarts(r)
      PROVE  DigestedOnce'
  <2>1. UNCHANGED <<window, digested, batch>> /\ \A s \in Runs : s # r => pc'[s] = pc[s]
    BY <1>0, <1>5 DEF TriggerStarts, Goto
  <2>2. pc[r] = "idle"
    BY <1>5 DEF TriggerStarts
  <2> QED
    BY <2>1, <2>2 DEF DigestInv, DigestedOnce
<1>6. ASSUME NEW r \in Runs, Summarize(r)
      PROVE  DigestedOnce'
  <2>1. pc[r] = "summarize" /\ pc'[r] = "check"
    BY <1>0, <1>6 DEF Summarize, Goto
  <2>2. window' = window /\ digested' = digested \cup batch[r] /\ batch' = batch
    BY <1>6 DEF Summarize
  <2>3. window \cap digested = {}
    BY <1>1, <2>1 DEF Active
  <2> QED
    BY <2>1, <2>2, <2>3 DEF DigestedOnce
<1>7. ASSUME NEW r \in Runs, Trim(r)
      PROVE  DigestedOnce'
  <2>1. pc[r] = "trim" /\ window' = RemoveByIDs(window, batch[r]) /\ digested' = digested
    BY <1>7 DEF Trim
  <2>2. window' \cap digested' = {}
    BY <1>1, <2>1 DEF RemoveByIDs, Active
  <2> QED
    BY <2>2 DEF DigestedOnce
\* The steps of a run before its summary and after its trim: nothing to account for.
<1>8. ASSUME NEW r \in Runs, Snapshot(r) \/ SummarizeFails(r) \/ RecordFailure(r) \/ Release(r)
      PROVE  DigestedOnce'
  <2>1. pc[r] \in {"snapshot", "summarize", "fail", "release"} /\ UNCHANGED <<window, digested>>
    BY <1>8 DEF Snapshot, SummarizeFails, RecordFailure, Release
  <2>2. window \cap digested = {}
    BY <1>1, <2>1 DEF Active
  <2> QED
    BY <2>1, <2>2 DEF DigestedOnce
\* The steps between the two keep the batch.
<1>9. ASSUME NEW r \in Runs, CheckChain(r) \/ Fuse(r) \/ FuseFails(r)
      PROVE  DigestedOnce'
  <2>1. Active(r) /\ pc'[r] \in {"fuse", "trim"} /\ UNCHANGED <<window, digested, batch>>
    BY <1>0, <1>9 DEF CheckChain, Fuse, FuseFails, Goto, Active
  <2> QED
    BY <1>1, <2>1 DEF DigestedOnce
<1> QED
  BY <1>2, <1>3, <1>4, <1>5, <1>6, <1>7, <1>8, <1>9
  DEF Next, RunStep, vars, runVars, LoseSignal, TriggerSkips, ReadSummaries, CooldownExpires

\* A message that has a summary is not in the window, except in the batch of the run
\* about to trim it: no message is summarised twice.
THEOREM NoMessageTwice == Spec => []DigestedOnce
<1>1. Init => DigestInv
  BY RunInit DEF Init, DigestInv, DigestedOnce
<1>2. DigestInv => DigestedOnce
  BY DEF DigestInv
<1> QED
  BY <1>1, <1>2, DigestNext, PTL DEF Spec

-----------------------------------------------------------------------------
(* The archive is never overwritten, if the loads do not fail. *)

\* The numbers known to the store are below the next one, and no two summaries
\* share one.
Known == chain \cup archive

SeqInv ==
    /\ ~loaded => chain = {}
    /\ loaded => \A s \in Known : s.seq < nextSeq
    /\ \A s, t \in Known : s.seq = t.seq => s = t

\* A load that succeeds continues above every number in use, although it reads the
\* newest rows only: the greatest number is among theirs.
LEMMA LoadContinuesAbove ==
    ASSUME LoadMayFail = FALSE, SeqsBounded, SeqInv, NEW base \in LoadedChains
    PROVE  /\ base \subseteq Known
           /\ \A s \in Known : s.seq < SeqAfter(base)
<1>1. base \subseteq Known
  BY LoadTakesKnown DEF Known
<1>2. CASE loaded
  BY <1>2, <1>1 DEF SeqAfter, SeqInv
<1>3. CASE ~loaded /\ archive = {}
  BY <1>1, <1>3 DEF SeqInv, Known
<1>4. CASE ~loaded /\ archive # {}
  <2> DEFINE rows == SeqsOf(archive)
             seqs == SeqsOf(base)
  <2>1. base = Latest /\ Known = archive
    BY <1>4 DEF LoadedChains, SeqInv, Known
  <2>2. PICK bound \in Nat : \A s \in archive : s.seq <= bound
    BY DEF SeqsBounded
  <2>3. rows \subseteq Nat /\ rows # {} /\ \A k \in rows : k <= bound
    BY <1>4, <2>2 DEF SeqsOf, SeqsBounded
  <2>4. PICK max \in rows : \A k \in rows : k <= max
    <3> HIDE DEF rows
    <3> QED
      BY <2>2, <2>3, GreatestExists
  <2>5. PICK newest \in archive : newest.seq = max
    BY <2>4 DEF SeqsOf
  <2>6. \A s \in archive : s.seq \in Nat /\ max \in Nat /\ s.seq <= max
    <3>1. \A s \in archive : s.seq \in rows
      BY DEF SeqsOf
    <3> HIDE DEF rows
    <3> QED
      BY <2>3, <2>4, <3>1
  <2>7. newest \in base
    <3>1. \A t \in archive : ~ (t.seq > newest.seq)
      BY <2>5, <2>6
    <3>2. {t \in archive : t.seq > newest.seq} = {}
      BY <3>1
    <3>3. Cardinality({t \in archive : t.seq > newest.seq}) < SummaryCap
      BY <3>2, FS_EmptySet, SummaryAssumption
    <3> QED
      BY <2>1, <2>5, <3>3 DEF Latest
  <2>8. max \in seqs /\ seqs \subseteq rows
    BY <2>1, <2>5, <2>7 DEF SeqsOf, Latest
  <2>9. (CHOOSE n \in seqs : \A k \in seqs : k <= n) = max
    <3>1. \A n \in seqs : (\A k \in seqs : k <= n) => n = max
      <4> HIDE DEF rows, seqs
      <4> QED
        BY <2>3, <2>4, <2>8
    <3>2. \A k \in seqs : k <= max
      BY <2>4, <2>8
    <3> HIDE DEF seqs
    <3> QED
      BY <2>8, <3>1, <3>2
  <2>10. SeqAfter(base) = 1 + max
    BY <1>4, <2>7, <2>9 DEF SeqAfter
  <2> QED
    BY <1>1, <2>1, <2>6, <2>10
<1> QED
  BY <1>2, <1>3, <1>4

\* Saving summaries that are known, under the numbers they have, keeps every row.
LEMMA UpsertKeeps ==
    ASSUME SeqInv, NEW saved, saved \subseteq Known
    PROVE  /\ archive \subseteq Upsert(archive, saved)
           /\ Upsert(archive, saved) \subseteq Known
BY DEF SeqInv, Known, Upsert, SeqsOf

LEMMA StoreOpFresh ==
    ASSUME LoadMayFail = FALSE, SeqsBounded, SeqInv, NEW covers, StoreOp(covers)
    PROVE  SeqInv' /\ archive \subseteq archive'
\* What every operation but a crash does to the store.
<1>1. ASSUME NEW base \in LoadedChains, loaded',
             Known' \subseteq Known \cup {Summary(SeqAfter(base), covers)},
             \/ nextSeq' = SeqAfter(base) /\ Known' \subseteq Known
             \/ nextSeq' = SeqAfter(base) + 1
      PROVE  SeqInv'
  <2>1. \A s \in Known : s.seq < SeqAfter(base) /\ s.seq \in Nat
    BY LoadContinuesAbove DEF SeqsBounded, Known
  <2>2. SeqAfter(base) \in Nat
    BY SeqAfterType
  <2>3. Summary(SeqAfter(base), covers).seq = SeqAfter(base)
    BY DEF Summary
  <2>4. \A s \in Known' : s.seq < nextSeq'
    BY <1>1, <2>1, <2>2, <2>3
  <2>5. \A s, t \in Known' : s.seq = t.seq => s = t
    BY <1>1, <2>1, <2>2, <2>3 DEF SeqInv
  <2> QED
    BY <1>1, <2>4, <2>5 DEF SeqInv
<1>2. CASE AppendSummary(covers)
  <2>1. PICK base \in LoadedChains :
          /\ loaded' = TRUE
          /\ chain' = base \cup {Summary(SeqAfter(base), covers)}
          /\ nextSeq' = SeqAfter(base) + 1
          /\ archive' = archive
    BY <1>2 DEF AppendSummary
  <2>2. base \subseteq Known
    BY LoadContinuesAbove
  <2> QED
    BY <1>1, <2>1, <2>2 DEF Known
<1>3. CASE ReplaceWithFused(covers)
  <2>1. PICK base \in LoadedChains : \E saved \in Saveable(base) :
          /\ loaded' = TRUE
          /\ archive' = Upsert(archive, saved)
          /\ chain' = {Summary(SeqAfter(base), covers)}
          /\ nextSeq' = SeqAfter(base) + 1
    BY <1>3 DEF ReplaceWithFused
  <2>2. PICK saved \in Saveable(base) : archive' = Upsert(archive, saved)
    BY <2>1
  <2>3. saved \subseteq Known
    BY LoadContinuesAbove DEF Saveable
  <2>4. archive \subseteq archive' /\ archive' \subseteq Known
    BY <2>2, <2>3, UpsertKeeps
  <2> QED
    BY <1>1, <2>1, <2>4 DEF Known
<1>4. CASE EvictOldest
  <2>1. PICK base \in LoadedChains : \E saved \in Saveable(OldestOf(base)) :
          /\ loaded' = TRUE
          /\ archive' = Upsert(archive, saved)
          /\ chain' = base \ OldestOf(base)
          /\ nextSeq' = SeqAfter(base)
    BY <1>4 DEF EvictOldest
  <2>2. PICK saved \in Saveable(OldestOf(base)) : archive' = Upsert(archive, saved)
    BY <2>1
  <2>3. saved \subseteq Known /\ base \subseteq Known
    BY LoadContinuesAbove DEF Saveable, OldestOf
  <2>4. archive \subseteq archive' /\ archive' \subseteq Known
    BY <2>2, <2>3, UpsertKeeps
  <2> QED
    BY <1>1, <2>1, <2>3, <2>4 DEF Known
<1>5. CASE GetAll
  <2>1. PICK base \in LoadedChains :
          loaded' = TRUE /\ chain' = base /\ nextSeq' = SeqAfter(base) /\ archive' = archive
    BY <1>5 DEF GetAll
  <2>2. base \subseteq Known
    BY LoadContinuesAbove
  <2> QED
    BY <1>1, <2>1, <2>2 DEF Known
<1>6. CASE \E saved \in SUBSET chain : LoseMemory(saved)
  <2>1. PICK saved \in SUBSET chain : LoseMemory(saved)
    BY <1>6
  <2>2. archive \subseteq archive' /\ archive' \subseteq Known
    BY <2>1, UpsertKeeps DEF LoseMemory, Known
  <2> QED
    BY <2>1, <2>2 DEF LoseMemory, SeqInv, Known
<1> QED
  BY <1>2, <1>3, <1>4, <1>5, <1>6 DEF StoreOp

\* A step works on the store through its operations only.
LEMMA StepUsesStore ==
    ASSUME [Next]_vars
    PROVE  \/ UNCHANGED summaryVars
           \/ StoreOp({})
           \/ \E r \in Runs : StoreOp(batch[r]) \/ StoreOp(Covered(fusing[r]))
<1>1. CASE Crash
  <2>1. PICK saved \in SavedBeforeCrash : LoseMemory(saved)
    BY <1>1 DEF Crash
  <2>2. saved \subseteq chain
    BY DEF SavedBeforeCrash, Saveable
  <2> QED
    BY <2>1, <2>2 DEF StoreOp
<1>2. CASE ReadSummaries
  BY <1>2 DEF ReadSummaries, StoreOp
<1>3. ASSUME NEW r \in Runs, RunStep(r)
      PROVE  \/ UNCHANGED summaryVars
             \/ StoreOp({}) \/ StoreOp(batch[r]) \/ StoreOp(Covered(fusing[r]))
  BY <1>3 DEF RunStep, Snapshot, Summarize, SummarizeFails, CheckChain, Fuse, FuseFails, Trim,
              RecordFailure, Release, StoreOp
<1> QED
  BY <1>1, <1>2, <1>3
  DEF Next, vars, Arrive, LoseSignal, TriggerSkips, TriggerStarts, CooldownExpires

ArchiveInv == TypeInv /\ SeqInv

LEMMA ArchiveNext ==
    ASSUME LoadMayFail = FALSE, ArchiveInv, [Next]_vars
    PROVE  SeqInv' /\ archive \subseteq archive'
<1>1. SeqsBounded /\ SeqInv
  BY DEF ArchiveInv, TypeInv
<1>2. CASE UNCHANGED summaryVars
  BY <1>1, <1>2 DEF summaryVars, SeqInv, Known
<1>3. CASE ~ UNCHANGED summaryVars
  BY <1>1, <1>3, StepUsesStore, StoreOpFresh
<1> QED
  BY <1>2, <1>3

\* While no load of the newest rows fails, no summary overwrites a row of the archive,
\* across restarts either.
THEOREM ArchiveNeverOverwritten == LoadMayFail = FALSE => (Spec => ArchiveImmutable)
<1> SUFFICES ASSUME LoadMayFail = FALSE
             PROVE  Spec => ArchiveImmutable
  OBVIOUS
<1>1. Init => ArchiveInv
  <2>1. Init => SeqInv
    BY DEF Init, SummaryInit, SeqInv, Known
  <2> QED
    BY <2>1, TypeInit DEF ArchiveInv
<1>2. ArchiveInv /\ [Next]_vars => ArchiveInv'
  BY ArchiveNext, TypeNext DEF ArchiveInv
<1>3. ArchiveInv /\ [Next]_vars => [archive \subseteq archive']_vars
  BY ArchiveNext
<1> QED
  BY <1>1, <1>2, <1>3, PTL DEF Spec, ArchiveImmutable

-----------------------------------------------------------------------------
(* Nothing that was summarised is forgotten, if the loads do not fail. *)

Recorded == chain \cup archive \cup dropped

\* An operation of the store forgets no summary: each stays in the chain or in the
\* archive, or is counted as dropped.
LEMMA StoreOpKeeps ==
    ASSUME LoadMayFail = FALSE, SeqsBounded, SeqInv, NEW covers, StoreOp(covers)
    PROVE  Recorded \subseteq Recorded'
<1>1. archive \subseteq archive'
  BY StoreOpFresh
<1>2. dropped \subseteq dropped'
  BY DEF StoreOp, AppendSummary, ReplaceWithFused, EvictOldest, GetAll, LoseMemory
<1>3. \A base \in LoadedChains : chain \subseteq base
  BY DEF LoadedChains, SeqInv
<1>4. chain \subseteq Recorded'
  <2>1. CASE AppendSummary(covers)
    BY <1>3, <2>1 DEF AppendSummary, Recorded
  <2>2. CASE ReplaceWithFused(covers)
    <3>1. PICK base \in LoadedChains : \E saved \in Saveable(base) :
            archive' = Upsert(archive, saved) /\ dropped' = dropped \cup (base \ saved)
      BY <2>2 DEF ReplaceWithFused
    <3> QED
      BY <1>3, <3>1 DEF Upsert, Recorded
  <2>3. CASE EvictOldest
    <3>1. PICK base \in LoadedChains : \E saved \in Saveable(OldestOf(base)) :
            /\ archive' = Upsert(archive, saved)
            /\ dropped' = dropped \cup (OldestOf(base) \ saved)
            /\ chain' = base \ OldestOf(base)
      BY <2>3 DEF EvictOldest
    <3> QED
      BY <1>3, <3>1 DEF Upsert, Recorded
  <2>4. CASE GetAll
    BY <1>3, <2>4 DEF GetAll, Recorded
  <2>5. CASE \E saved \in SUBSET chain : LoseMemory(saved)
    BY <2>5 DEF LoseMemory, Recorded
  <2> QED
    BY <2>1, <2>2, <2>3, <2>4, <2>5 DEF StoreOp
<1> QED
  BY <1>1, <1>2, <1>4 DEF Recorded

MemoryInv == ArchiveInv /\ Remembered

LEMMA MemoryNext ==
    ASSUME LoadMayFail = FALSE, MemoryInv, [Next]_vars
    PROVE  Remembered'
<1>1. SeqsBounded /\ SeqInv /\ digested \subseteq Covered(Recorded)
  BY DEF MemoryInv, ArchiveInv, TypeInv, Remembered, Recorded
<1>2. Recorded \subseteq Recorded'
  <2>1. CASE UNCHANGED summaryVars
    BY <2>1 DEF summaryVars, Recorded
  <2> QED
    BY <1>1, <2>1, StepUsesStore, StoreOpKeeps
<1>3. digested \subseteq Covered(Recorded')
  BY <1>1, <1>2 DEF Covered
<1>4. ASSUME NEW r \in Runs, Summarize(r)
      PROVE  digested' \subseteq Covered(Recorded')
  <2>1. digested' = digested \cup batch[r]
    BY <1>4 DEF Summarize
  <2>2. \E s \in chain' : s.covers = batch[r]
    <3>1. PICK base \in LoadedChains : chain' = base \cup {Summary(SeqAfter(base), batch[r])}
      BY <1>4 DEF Summarize, AppendSummary
    <3>2. Summary(SeqAfter(base), batch[r]).covers = batch[r]
      BY DEF Summary
    <3> QED
      BY <3>1, <3>2
  <2>3. batch[r] \subseteq Covered(Recorded')
    BY <2>2 DEF Covered, Recorded
  <2> QED
    BY <1>3, <2>1, <2>3
<1>5. digested' = digested \/ \E r \in Runs : Summarize(r)
  BY DEF Next, RunStep, vars, runVars, Arrive, LoseSignal, TriggerSkips, TriggerStarts,
         ReadSummaries, CooldownExpires, Crash, Snapshot, SummarizeFails, CheckChain, Fuse,
         FuseFails, Trim, RecordFailure, Release
<1> QED
  BY <1>3, <1>4, <1>5 DEF Remembered, Recorded

\* While no load of the newest rows fails, every message that has a summary is told by
\* one in the chain or in the archive, or by one known to be lost to a failed save or
\* to a crash.
THEOREM DigestedIsRemembered == LoadMayFail = FALSE => (Spec => []Remembered)
<1> SUFFICES ASSUME LoadMayFail = FALSE
             PROVE  Spec => []Remembered
  OBVIOUS
<1>1. Init => MemoryInv
  <2>1. Init => SeqInv /\ Remembered
    BY DEF Init, SummaryInit, SeqInv, Known, Remembered
  <2> QED
    BY <2>1, TypeInit DEF MemoryInv, ArchiveInv
<1>2. MemoryInv /\ [Next]_vars => MemoryInv'
  BY MemoryNext, ArchiveNext, TypeNext DEF MemoryInv, ArchiveInv
<1>3. MemoryInv => Remembered
  BY DEF MemoryInv
<1> QED
  BY <1>1, <1>2, <1>3, PTL DEF Spec

-----------------------------------------------------------------------------
(* The window. *)

\* A set of naturals that is not empty has a least element.
LEMMA LeastExists ==
    ASSUME NEW S, S \subseteq Nat, S # {}
    PROVE  \E n \in S : \A k \in S : n <= k
<1>1. PICK n \in S : \A k \in S : ~ (<<k, n>> \in OpToRel(<, Nat))
  BY NatLessThanWellFounded, WFMin
<1>2. \A k \in S : k \in Nat /\ n \in Nat /\ ~ (k < n)
  BY <1>1 DEF OpToRel
<1> QED
  BY <1>2

\* One more element makes a set larger by one at most.
LEMMA OneMore ==
    ASSUME NEW S, NEW x, IsFiniteSet(S)
    PROVE  /\ IsFiniteSet(S \cup {x}) /\ Cardinality(S) \in Nat
           /\ Cardinality(S \cup {x}) <= Cardinality(S) + 1
<1>1. Cardinality(S) \in Nat
  BY FS_CardinalityType
<1>2. /\ IsFiniteSet(S \cup {x})
      /\ Cardinality(S \cup {x}) = IF x \in S THEN Cardinality(S) ELSE Cardinality(S) + 1
  BY FS_AddElement
<1> QED
  BY <1>1, <1>2

\* One element beside fewer than n others makes n at most.
LEMMA Crowd ==
    ASSUME NEW S, IsFiniteSet(S), NEW n \in Nat, Cardinality(S) < n,
           NEW x, NEW W, W \ {x} \subseteq S
    PROVE  IsFiniteSet(W) /\ Cardinality(W) <= n
<1>1. IsFiniteSet(S \cup {x}) /\ Cardinality(S \cup {x}) <= Cardinality(S) + 1
  BY OneMore
<1>2. W \in SUBSET (S \cup {x})
  OBVIOUS
<1>3. IsFiniteSet(W) /\ Cardinality(W) <= Cardinality(S \cup {x})
  BY <1>1, <1>2, FS_Subset
<1> QED
  BY <1>1, <1>3, FS_CardinalityType

\* A set is not larger than one that holds it.
LEMMA Smaller ==
    ASSUME NEW S, IsFiniteSet(S), NEW T, T \subseteq S
    PROVE  /\ IsFiniteSet(T)
           /\ Cardinality(T) \in Nat /\ Cardinality(S) \in Nat
           /\ Cardinality(T) <= Cardinality(S)
BY FS_Subset, FS_CardinalityType

LEMMA NumbersFinite ==
    ASSUME NEW a \in Nat, NEW w, w \subseteq 1..a
    PROVE  IsFiniteSet(w) /\ Cardinality(w) \in Nat /\ w \subseteq Nat
<1>1. IsFiniteSet(1..a)
  BY FS_Interval
<1>2. IsFiniteSet(w) /\ Cardinality(w) \in Nat
  <2>1. w \in SUBSET (1..a)
    OBVIOUS
  <2> QED
    BY <1>1, <2>1, FS_Subset, FS_CardinalityType
<1> QED
  BY <1>2

\* Of a set that is one too large the least element is left out, of a smaller one none.
LEMMA NewestIs ==
    ASSUME NEW S, S \subseteq Nat, IsFiniteSet(S), NEW n \in Nat
    PROVE  /\ Cardinality(S) <= n => Newest(S, n) = S
           /\ \A l \in S : Cardinality(S) = n + 1 /\ (\A k \in S : l <= k)
                               => Newest(S, n) = S \ {l}
<1> DEFINE After(m) == {k \in S : k > m}
<1>1. \A m \in S : Cardinality(After(m)) < Cardinality(S) /\ Cardinality(After(m)) \in Nat
  <2>1. TAKE m \in S
  <2>2. IsFiniteSet(S \ {m}) /\ Cardinality(S \ {m}) = Cardinality(S) - 1
    BY FS_RemoveElement
  <2>3. After(m) \subseteq S \ {m}
    OBVIOUS
  <2> HIDE DEF After
  <2> QED
    BY <2>2, <2>3, Smaller
<1>0. Newest(S, n) = {m \in S : Cardinality(After(m)) < n}
  BY DEF Newest
<1>2. ASSUME Cardinality(S) <= n
      PROVE  Newest(S, n) = S
  <2>1. Cardinality(S) \in Nat
    BY FS_CardinalityType
  <2>2. \A m \in S : Cardinality(After(m)) < n
    <3> HIDE DEF After
    <3> QED
      BY <1>1, <1>2, <2>1
  <2> HIDE DEF After
  <2> QED
    BY <1>0, <2>2
<1>3. ASSUME NEW l \in S, Cardinality(S) = n + 1, \A k \in S : l <= k
      PROVE  Newest(S, n) = S \ {l}
  <2>1. IsFiniteSet(S \ {l}) /\ Cardinality(S \ {l}) = n
    BY <1>3, FS_RemoveElement
  <2>2. After(l) = S \ {l}
    <3>1. \A k \in S : k > l <=> k # l
      BY <1>3
    <3> QED
      BY <3>1
  <2>3. ASSUME NEW m \in S \ {l}
        PROVE  Cardinality(After(m)) < n
    <3>1. IsFiniteSet((S \ {l}) \ {m}) /\ Cardinality((S \ {l}) \ {m}) = n - 1
      BY <2>1, FS_RemoveElement
    <3>2. After(m) \subseteq (S \ {l}) \ {m}
      BY <1>3
    <3> HIDE DEF After
    <3> QED
      BY <3>1, <3>2, Smaller
  <2>4. ~ (Cardinality(After(l)) < n)
    BY <2>1, <2>2
  <2> HIDE DEF After
  <2> QED
    BY <1>0, <2>3, <2>4
<1> QED
  BY <1>2, <1>3

\* What an append does: the message enters, and a full window loses its oldest.
LEMMA AppendedIs ==
    ASSUME NEW a \in Nat, NEW w, w \subseteq 1..a, Cardinality(w) <= WindowCap
    PROVE  /\ IsFiniteSet(w) /\ Cardinality(w) \in Nat
           /\ \/ /\ Cardinality(w) < WindowCap
                 /\ Appended(w, a + 1) = w \cup {a + 1}
                 /\ Cardinality(Appended(w, a + 1)) = Cardinality(w) + 1
              \/ /\ Cardinality(w) = WindowCap
                 /\ Cardinality(Appended(w, a + 1)) = WindowCap
                 /\ \E l \in w : /\ \A k \in w : l <= k
                                 /\ Appended(w, a + 1) = (w \ {l}) \cup {a + 1}
<1> DEFINE S == w \cup {a + 1}
<1>1. IsFiniteSet(w) /\ Cardinality(w) \in Nat /\ w \subseteq Nat
  BY NumbersFinite
<1>2. IsFiniteSet(S) /\ Cardinality(S) = Cardinality(w) + 1
  <2>1. a + 1 \notin w
    OBVIOUS
  <2> QED
    BY <1>1, <2>1, FS_AddElement
<1>3. S \subseteq Nat /\ WindowCap \in Nat
  BY WindowAssumption
<1>4. CASE Cardinality(w) < WindowCap
  <2>0. Cardinality(S) <= WindowCap
    BY <1>1, <1>2, <1>3, <1>4
  <2>1. Newest(S, WindowCap) = S
    <3> HIDE DEF S
    <3> QED
      BY <1>2, <1>3, <2>0, NewestIs
  <2> QED
    BY <1>1, <1>2, <1>4, <2>1 DEF Appended
<1>5. CASE Cardinality(w) = WindowCap
  <2>1. w # {}
    BY <1>5, FS_EmptySet, WindowAssumption
  <2>2. PICK l \in w : \A k \in w : l <= k
    BY <1>1, <2>1, LeastExists
  <2>3. l \in S /\ \A k \in S : l <= k
    BY <2>2
  <2>4. Newest(S, WindowCap) = S \ {l}
    <3> HIDE DEF S
    <3> QED
      BY <1>2, <1>3, <1>5, <2>3, NewestIs
  <2>5. Appended(w, a + 1) = (w \ {l}) \cup {a + 1}
    BY <2>4 DEF Appended
  <2>6. Cardinality(S \ {l}) = WindowCap
    <3> HIDE DEF S
    <3> QED
      BY <1>2, <1>3, <1>5, <2>3, FS_RemoveElement
  <2> QED
    BY <1>1, <1>5, <2>2, <2>4, <2>5, <2>6 DEF Appended
<1> QED
  BY <1>1, <1>3, <1>4, <1>5

\* What a batch is: the oldest messages, none of a window too short, and never one of
\* the CompressionKeep newest.
LEMMA BatchIs ==
    ASSUME NEW a \in Nat, NEW w, w \subseteq 1..a, Cardinality(w) <= WindowCap
    PROVE  /\ BatchOf(w) \subseteq w
           /\ Cardinality(w) <= CompressionKeep <=> BatchOf(w) = {}
           /\ BatchOf(w) # {} => Cardinality(w \ BatchOf(w)) >= CompressionKeep
<1> DEFINE n == Cardinality(w) - CompressionKeep
           Before(m) == {k \in w : k < m}
<1>1. IsFiniteSet(w) /\ Cardinality(w) \in Nat /\ w \subseteq Nat
  BY NumbersFinite
<1>2. n \in Int /\ BatchOf(w) = Oldest(w, n)
  BY <1>1, WindowAssumption DEF BatchOf, CompressBatch
<1>3. BatchOf(w) = {m \in w : Cardinality(Before(m)) < n}
  BY <1>2 DEF Oldest
<1>4. \A m \in w : IsFiniteSet(Before(m)) /\ Cardinality(Before(m)) \in Nat
  BY <1>1, Smaller
<1>5. CASE Cardinality(w) <= CompressionKeep
  <2>1. n <= 0
    BY <1>1, <1>5, WindowAssumption
  <2>2. BatchOf(w) = {}
    <3>1. ASSUME NEW m \in w
          PROVE  ~ (Cardinality(Before(m)) < n)
      BY <1>2, <1>4, <2>1
    <3> HIDE DEF n, Before
    <3> QED
      BY <1>3, <3>1
  <2> QED
    BY <1>5, <2>2
<1>6. CASE Cardinality(w) > CompressionKeep
  <2>1. n \in Nat /\ n > 0
    BY <1>1, <1>6, WindowAssumption
  <2>2. BatchOf(w) # {}
    <3>1. w # {}
      BY <1>6, FS_EmptySet, WindowAssumption
    <3>2. PICK l \in w : \A k \in w : l <= k
      BY <1>1, <3>1, LeastExists
    <3>3. Before(l) = {}
      <4>1. \A k \in w : ~ (k < l)
        BY <1>1, <3>2
      <4> QED
        BY <4>1
    <3> HIDE DEF n, Before
    <3> QED
      BY <1>3, <2>1, <3>2, <3>3, FS_EmptySet
  <2>3. BatchOf(w) \subseteq w /\ BatchOf(w) \subseteq Nat /\ \A k \in BatchOf(w) : k <= a
    <3>1. BatchOf(w) \subseteq w
      BY WindowSubsets
    <3>2. \A k \in w : k \in Nat /\ k <= a
      OBVIOUS
    <3> QED
      BY <3>1, <3>2
  <2>4. PICK g \in BatchOf(w) : \A k \in BatchOf(w) : k <= g
    BY <2>2, <2>3, GreatestExists
  <2>5. BatchOf(w) \ {g} \subseteq Before(g) /\ Cardinality(Before(g)) < n
    <3>1. \A k \in BatchOf(w) \ {g} : k < g
      BY <2>3, <2>4
    <3>2. Cardinality(Before(g)) < n
      <4> HIDE DEF n, Before
      <4> QED
        BY <1>3
    <3>3. BatchOf(w) \ {g} \subseteq Before(g)
      BY <2>3, <3>1
    <3> QED
      BY <3>2, <3>3
  <2>6. IsFiniteSet(BatchOf(w)) /\ Cardinality(BatchOf(w)) <= n
    <3> HIDE DEF n, Before
    <3> QED
      BY <1>4, <2>1, <2>3, <2>4, <2>5, Crowd
  <2>7. Cardinality(w \ BatchOf(w)) = Cardinality(w) - Cardinality(BatchOf(w))
    <3>1. w \cap BatchOf(w) = BatchOf(w)
      BY <2>3
    <3> QED
      BY <1>1, <3>1, FS_Difference
  <2> QED
    BY <1>1, <1>6, <2>2, <2>3, <2>6, <2>7, FS_CardinalityType, WindowAssumption
<1> QED
  BY <1>1, <1>3, <1>5, <1>6, WindowAssumption

\* Every message has a MessageID of its own.
OneEach == \A m, k \in Msg : IdOf[m] = IdOf[k] => m = k

\* Then a removal by MessageID takes the batch and nothing else.
LEMMA RemovesBatch ==
    ASSUME OneEach, NEW w, w \subseteq Msg, NEW b, b \subseteq Msg
    PROVE  RemoveByIDs(w, b) = w \ b
BY DEF OneEach, RemoveByIDs

-----------------------------------------------------------------------------
(* A trim takes only what is summarised, if every message has its own id. *)

\* What a run is about to trim has a summary, and enough of the window stays when its
\* batch leaves, whatever has arrived since the batch was taken.
Storing(r) == pc[r] \in {"check", "fuse", "trim"}
BatchTold == \A r \in Runs : Storing(r) => batch[r] \subseteq digested
BatchLeaves ==
    \A r \in Runs : pc[r] = "summarize" \/ Storing(r)
        => Cardinality(window \ batch[r]) >= CompressionKeep

WindowInv ==
    /\ RunInv
    /\ Cardinality(window) <= WindowCap
    /\ BatchTold
    /\ BatchLeaves

\* The window in numbers, and the message that comes next is in no batch.
LEMMA WindowFacts ==
    ASSUME WindowInv
    PROVE  /\ pc \in [Runs -> Steps]
           /\ batch \in [Runs -> SUBSET (1..arrived)]
           /\ arrived \in Nat /\ arrived <= MaxMsgs
           /\ window \subseteq 1..arrived
           /\ IsFiniteSet(window) /\ Cardinality(window) \in Nat
           /\ \A r \in Runs : arrived + 1 \notin batch[r]
<1>1. /\ pc \in [Runs -> Steps]
      /\ batch \in [Runs -> SUBSET (1..arrived)]
      /\ arrived \in 0..MaxMsgs
      /\ window \subseteq 1..arrived
  BY DEF WindowInv, RunInv, TypeInv, TypeOK
<1>2. arrived \in Nat /\ arrived <= MaxMsgs
  BY <1>1, WindowAssumption
<1>3. IsFiniteSet(window) /\ Cardinality(window) \in Nat
  BY <1>1, <1>2, NumbersFinite
<1>4. arrived + 1 \notin 1..arrived
  BY <1>2
<1> QED
  BY <1>1, <1>2, <1>3, <1>4

\* Of one run at a time, the others are idle.
LEMMA OthersIdle ==
    ASSUME RunInv, NEW r \in Runs, Active(r), NEW s \in Runs, s # r
    PROVE  pc[s] = "idle"
BY DEF RunInv, SingleRun, Active

\* An append leaves at least as much outside a batch as there was.
LEMMA ArriveKeeps ==
    ASSUME WindowInv, Arrive
    PROVE  /\ Cardinality(window') <= WindowCap
           /\ Cardinality(window') = IF Cardinality(window) < WindowCap
                                     THEN Cardinality(window) + 1 ELSE Cardinality(window)
           /\ BatchLeaves'
           /\ window \ window' # {} => /\ Cardinality(window) = WindowCap
                                       /\ \A m \in window \ window', k \in window : m <= k
<1> DEFINE new == arrived + 1
<1>1. window' = Appended(window, new) /\ UNCHANGED <<pc, batch>>
  BY DEF Arrive, runVars
<1>2. Cardinality(window) <= WindowCap
  BY DEF WindowInv
<1>3. \/ /\ Cardinality(window) < WindowCap
         /\ Appended(window, new) = window \cup {new}
         /\ Cardinality(Appended(window, new)) = Cardinality(window) + 1
      \/ /\ Cardinality(window) = WindowCap
         /\ Cardinality(Appended(window, new)) = WindowCap
         /\ \E l \in window : /\ \A k \in window : l <= k
                              /\ Appended(window, new) = (window \ {l}) \cup {new}
  <2>1. arrived \in Nat /\ window \subseteq 1..arrived
    BY WindowFacts
  <2> QED
    BY <1>2, <2>1, AppendedIs
<1>4. new \notin window /\ \A r \in Runs : new \notin batch[r]
  BY WindowFacts
<1>5. Cardinality(window) \in Nat /\ WindowCap \in Nat
  BY WindowFacts, WindowAssumption
<1>6. ASSUME NEW r \in Runs
      PROVE  Cardinality(window \ batch[r]) <= Cardinality(window' \ batch[r])
  <2> DEFINE rest == window \ batch[r]
  <2>1. IsFiniteSet(rest) /\ Cardinality(rest) \in Nat
    BY WindowFacts, Smaller
  <2>2. new \notin rest
    BY <1>4
  <2>3. CASE Appended(window, new) = window \cup {new}
    <3>1. window' \ batch[r] = rest \cup {new}
      BY <1>1, <1>4, <2>3
    <3>2. Cardinality(rest \cup {new}) = Cardinality(rest) + 1
      BY <2>1, <2>2, FS_AddElement
    <3> HIDE DEF rest, new
    <3> QED
      BY <2>1, <3>1, <3>2 DEF rest
  <2>4. ASSUME NEW l \in window, Appended(window, new) = (window \ {l}) \cup {new}
        PROVE  Cardinality(rest) <= Cardinality(window' \ batch[r])
    <3>1. window' \ batch[r] = (rest \ {l}) \cup {new}
      BY <1>1, <1>4, <2>4
    <3>2. /\ IsFiniteSet(rest \ {l})
          /\ Cardinality(rest \ {l}) \in Nat
          /\ Cardinality(rest \ {l}) >= Cardinality(rest) - 1
      <4> HIDE DEF rest
      <4>1. /\ IsFiniteSet(rest \ {l})
            /\ Cardinality(rest \ {l}) =
                  IF l \in rest THEN Cardinality(rest) - 1 ELSE Cardinality(rest)
        BY <2>1, FS_RemoveElement
      <4>2. Cardinality(rest \ {l}) \in Nat
        BY <4>1, FS_CardinalityType
      <4> QED
        BY <2>1, <4>1, <4>2
    <3>3. new \notin rest \ {l}
      BY <2>2
    <3>4. Cardinality((rest \ {l}) \cup {new}) = Cardinality(rest \ {l}) + 1
      BY <3>2, <3>3, FS_AddElement
    <3> HIDE DEF rest, new
    <3> QED
      BY <2>1, <3>1, <3>2, <3>4
  <2> QED
    BY <1>3, <2>3, <2>4
<1>7. BatchLeaves'
  <2> SUFFICES ASSUME NEW r \in Runs, (pc[r] = "summarize" \/ Storing(r))'
               PROVE  Cardinality(window' \ batch'[r]) >= CompressionKeep
    BY DEF BatchLeaves
  <2>1. Cardinality(window \ batch[r]) >= CompressionKeep
    BY <1>1 DEF WindowInv, BatchLeaves, Storing
  <2>2. Cardinality(window \ batch[r]) <= Cardinality(window' \ batch[r])
    BY <1>6
  <2>3. /\ Cardinality(window \ batch[r]) \in Nat
        /\ Cardinality(window' \ batch[r]) \in Nat
    <3>1. arrived' \in Nat /\ window' \subseteq 1..arrived'
      <4>1. TypeOK'
        BY TypeNext DEF WindowInv, RunInv, TypeInv, Next
      <4> QED
        BY <4>1, WindowAssumption DEF TypeOK
    <3>2. IsFiniteSet(window')
      BY <3>1, NumbersFinite
    <3> QED
      BY <3>2, WindowFacts, Smaller
  <2> QED
    BY <1>1, <2>1, <2>2, <2>3, WindowAssumption
<1>8. ASSUME window \ window' # {}
      PROVE  /\ Cardinality(window) = WindowCap
             /\ \A m \in window \ window', k \in window : m <= k
  BY <1>1, <1>3, <1>8
<1>9. /\ Cardinality(window') <= WindowCap
      /\ Cardinality(window') = IF Cardinality(window) < WindowCap
                                THEN Cardinality(window) + 1 ELSE Cardinality(window)
  <2> HIDE DEF new
  <2> QED
    BY <1>1, <1>3, <1>5
<1> QED
  BY <1>7, <1>8, <1>9

\* What a trim takes away.
LEMMA TrimTakes ==
    ASSUME OneEach, WindowInv, NEW r \in Runs, Trim(r)
    PROVE  /\ window' = window \ batch[r]
           /\ Cardinality(window') \in Nat
           /\ CompressionKeep <= Cardinality(window')
           /\ Cardinality(window') <= Cardinality(window)
<1>1. window \subseteq Msg /\ batch[r] \subseteq Msg
  <2>1. /\ arrived \in Nat /\ arrived <= MaxMsgs
        /\ window \subseteq 1..arrived /\ batch[r] \subseteq 1..arrived
    BY WindowFacts
  <2>2. 1..arrived \subseteq Msg
    BY <2>1, WindowAssumption DEF Msg
  <2> QED
    BY <2>1, <2>2
<1>2. window' = window \ batch[r]
  BY <1>1, RemovesBatch DEF Trim
<1>3. Cardinality(window \ batch[r]) >= CompressionKeep
  BY DEF Trim, WindowInv, BatchLeaves, Storing
<1>4. IsFiniteSet(window) /\ window' \subseteq window
  BY <1>2, WindowFacts
<1>5. Cardinality(window') \in Nat /\ Cardinality(window') <= Cardinality(window)
  BY <1>4, Smaller
<1> QED
  BY <1>2, <1>3, <1>5, WindowAssumption

LEMMA WindowInit == Init => WindowInv
<1> SUFFICES ASSUME Init
             PROVE  WindowInv
  OBVIOUS
<1>1. Cardinality(window) <= WindowCap
  BY FS_EmptySet, WindowAssumption DEF Init
<1>2. BatchTold /\ BatchLeaves
  BY DEF Init, BatchTold, BatchLeaves, Storing
<1> QED
  BY <1>1, <1>2, RunInit DEF WindowInv

LEMMA WindowNext ==
    ASSUME OneEach, WindowInv, [Next]_vars
    PROVE  WindowInv'
<1>0. RunInv' /\ RunInv
  BY RunNext DEF WindowInv
<1> SUFFICES Cardinality(window') <= WindowCap /\ BatchTold' /\ BatchLeaves'
  BY <1>0 DEF WindowInv
<1>1. CASE UNCHANGED <<window, pc, batch, digested>>
  BY <1>1 DEF WindowInv, BatchTold, BatchLeaves, Storing
<1>2. CASE Arrive
  <2>1. BatchTold'
    BY <1>2 DEF Arrive, runVars, WindowInv, BatchTold, Storing
  <2> QED
    BY <1>2, <2>1, ArriveKeeps
<1>3. CASE Crash
  <2>1. Cardinality(window') <= WindowCap
    BY <1>3, FS_EmptySet, WindowAssumption DEF Crash
  <2> QED
    BY <1>3, <2>1 DEF Crash, BatchTold, BatchLeaves, Storing
<1>4. ASSUME NEW r \in Runs, TriggerStarts(r)
      PROVE  Cardinality(window') <= WindowCap /\ BatchTold' /\ BatchLeaves'
  BY <1>4, WindowFacts DEF TriggerStarts, Goto, WindowInv, BatchTold, BatchLeaves, Storing
<1>5. ASSUME NEW r \in Runs, Snapshot(r)
      PROVE  Cardinality(window') <= WindowCap /\ BatchTold' /\ BatchLeaves'
  <2>1. window' = window /\ Cardinality(window') <= WindowCap
    BY <1>5 DEF Snapshot, WindowInv
  <2>2. /\ batch' = [batch EXCEPT ![r] = BatchOf(window)]
        /\ pc' = [pc EXCEPT ![r] = IF BatchOf(window) = {} THEN "release" ELSE "summarize"]
    BY <1>5 DEF Snapshot, Goto
  <2>3. BatchTold'
    BY <1>5, <2>2, WindowFacts DEF Snapshot, WindowInv, BatchTold, Storing
  <2>4. BatchOf(window) # {} => Cardinality(window \ BatchOf(window)) >= CompressionKeep
    <3>1. arrived \in Nat /\ window \subseteq 1..arrived /\ Cardinality(window) <= WindowCap
      BY WindowFacts DEF WindowInv
    <3> QED
      BY <3>1, BatchIs
  <2>5. BatchLeaves'
    BY <2>1, <2>2, <2>4, WindowFacts DEF WindowInv, BatchLeaves, Storing
  <2> QED
    BY <2>1, <2>3, <2>5
<1>6. ASSUME NEW r \in Runs, Summarize(r)
      PROVE  Cardinality(window') <= WindowCap /\ BatchTold' /\ BatchLeaves'
  <2>1. /\ window' = window /\ batch' = batch /\ digested' = digested \cup batch[r]
        /\ pc[r] = "summarize" /\ pc' = [pc EXCEPT ![r] = "check"]
    BY <1>6 DEF Summarize, Goto
  <2>2. BatchTold'
    BY <2>1, WindowFacts DEF WindowInv, BatchTold, Storing
  <2>3. BatchLeaves'
    BY <2>1, WindowFacts DEF WindowInv, BatchLeaves, Storing
  <2> QED
    BY <2>1, <2>2, <2>3 DEF WindowInv
<1>7. ASSUME NEW r \in Runs, CheckChain(r) \/ Fuse(r) \/ FuseFails(r)
      PROVE  Cardinality(window') <= WindowCap /\ BatchTold' /\ BatchLeaves'
  <2>1. /\ UNCHANGED <<window, batch, digested>>
        /\ Storing(r) /\ pc' \in {[pc EXCEPT ![r] = "fuse"], [pc EXCEPT ![r] = "trim"]}
    BY <1>7 DEF CheckChain, Fuse, FuseFails, Goto, Storing
  <2>2. BatchTold'
    BY <2>1, WindowFacts DEF WindowInv, BatchTold, Storing
  <2>3. BatchLeaves'
    BY <2>1, WindowFacts DEF WindowInv, BatchLeaves, Storing
  <2> QED
    BY <2>1, <2>2, <2>3 DEF WindowInv
<1>8. ASSUME NEW r \in Runs, SummarizeFails(r) \/ RecordFailure(r) \/ Release(r)
      PROVE  Cardinality(window') <= WindowCap /\ BatchTold' /\ BatchLeaves'
  <2>1. /\ UNCHANGED <<window, digested>>
        /\ \A s \in Runs : s # r => pc'[s] = pc[s] /\ batch'[s] = batch[s]
        /\ pc'[r] \notin {"summarize", "check", "fuse", "trim"}
    BY <1>8, WindowFacts DEF SummarizeFails, RecordFailure, Release, Goto
  <2>2. BatchTold'
    BY <2>1 DEF WindowInv, BatchTold, Storing
  <2>3. BatchLeaves'
    BY <2>1 DEF WindowInv, BatchLeaves, Storing
  <2> QED
    BY <2>1, <2>2, <2>3 DEF WindowInv
\* The run that trims is the only one.
<1>9. ASSUME NEW r \in Runs, Trim(r)
      PROVE  Cardinality(window') <= WindowCap /\ BatchTold' /\ BatchLeaves'
  <2>1. Cardinality(window') <= WindowCap
    <3>1. Cardinality(window) <= WindowCap /\ Cardinality(window) \in Nat
      BY WindowFacts DEF WindowInv
    <3> QED
      BY <1>9, <3>1, TrimTakes, WindowAssumption
  <2>2. pc'[r] = "release" /\ \A s \in Runs : s # r => pc'[s] = "idle"
    <3>1. Active(r)
      BY <1>9 DEF Trim, Active
    <3>2. \A s \in Runs : s # r => pc[s] = "idle"
      BY <1>0, <3>1, OthersIdle
    <3> QED
      BY <1>9, <3>2, WindowFacts DEF Trim, Goto
  <2> QED
    BY <2>1, <2>2 DEF BatchTold, BatchLeaves, Storing
<1> QED
  BY <1>1, <1>2, <1>3, <1>4, <1>5, <1>6, <1>7, <1>8, <1>9
  DEF Next, RunStep, vars, runVars, LoseSignal, TriggerSkips, ReadSummaries, CooldownExpires

\* If every message has a MessageID of its own, one leaves the window only with a summary,
\* as the oldest of a full window that another enters, or with the process.
THEOREM TrimsAreDigested == OneEach => (Spec => TrimsOnlyDigested)
<1> SUFFICES ASSUME OneEach
             PROVE  Spec => TrimsOnlyDigested
  OBVIOUS
<1>1. WindowInv /\ [Next]_vars => WindowInv'
  BY WindowNext
<1>2. WindowInv /\ [Next]_vars =>
        [\A m \in window \ window' :
            \/ m \in digested
            \/ arrived' = arrived + 1 /\ Cardinality(window) = WindowCap /\ \A k \in window : m <= k
            \/ restarts' # restarts]_vars
  <2> SUFFICES ASSUME WindowInv, Next, NEW m \in window \ window', restarts' = restarts
               PROVE  \/ m \in digested
                      \/ /\ arrived' = arrived + 1
                         /\ Cardinality(window) = WindowCap
                         /\ \A k \in window : m <= k
    OBVIOUS
  <2>1. CASE Arrive
    <3>1. arrived' = arrived + 1
      BY <2>1 DEF Arrive
    <3> QED
      BY <2>1, <3>1, ArriveKeeps
  <2>2. ASSUME NEW r \in Runs, Trim(r)
        PROVE  m \in digested
    <3>1. window' = window \ batch[r]
      BY <2>2, TrimTakes
    <3> QED
      BY <2>2, <3>1 DEF Trim, WindowInv, BatchTold, Storing
  <2>3. CASE Crash
    <3>1. restarts \in Nat
      BY CompressorAssumption DEF WindowInv, RunInv, TypeInv, TypeOK
    <3> QED
      BY <2>3, <3>1 DEF Crash
  <2>4. window' = window \/ Arrive \/ Crash \/ \E r \in Runs : Trim(r)
    BY DEF Next, RunStep, LoseSignal, TriggerSkips, TriggerStarts, ReadSummaries,
           CooldownExpires, Snapshot, Summarize, SummarizeFails, CheckChain, Fuse, FuseFails,
           RecordFailure, Release
  <2> QED
    BY <2>1, <2>2, <2>3, <2>4
<1> QED
  BY <1>1, <1>2, WindowInit, PTL DEF Spec, TrimsOnlyDigested

-----------------------------------------------------------------------------
(* The compressor implements the cycle. *)

\* The stage of the cycle is that of the run at work, before a step and after it.
LEMMA StageIs ==
    ASSUME RunInv, NEW r \in Runs, Active(r)
    PROVE  CycleStage = StageOf(pc[r])
<1>1. (CHOOSE s \in Runs : Active(s)) = r
  BY DEF RunInv, SingleRun
<1> QED
  BY <1>1 DEF CycleStage

LEMMA StageBecomes ==
    ASSUME RunInv', NEW r \in Runs, pc'[r] # "idle"
    PROVE  CycleStage' = StageOf(pc'[r])
<1>1. Active(r)' /\ \A s \in Runs : Active(s)' => s = r
  BY DEF RunInv, SingleRun, Active
<1>2. (CHOOSE s \in Runs : Active(s)') = r
  BY <1>1
<1> QED
  BY <1>1, <1>2 DEF CycleStage

LEMMA StageStays ==
    ASSUME pc' = pc
    PROVE  CycleStage' = CycleStage
BY DEF CycleStage, Active

\* A run that moves on moves the cycle on.
LEMMA RunMoves ==
    ASSUME RunInv, RunInv', NEW r \in Runs, pc[r] # "idle", NEW step, Goto(r, step),
           step # "idle"
    PROVE  CycleStage = StageOf(pc[r]) /\ CycleStage' = StageOf(step)
<1>1. pc'[r] = step
  BY DEF RunInv, TypeInv, TypeOK, Goto
<1> QED
  BY <1>1, StageIs, StageBecomes DEF Active

\* Every step of the compressor is one of the cycle, or leaves it as it is.
LEMMA CycleStep ==
    ASSUME OneEach, WindowInv, Next
    PROVE  Cycle!Next \/ UNCHANGED <<Cardinality(window), signals, CycleStage, cooling>>
<1>0. RunInv /\ RunInv'
  BY RunNext DEF WindowInv
<1>1. pc \in [Runs -> Steps]
  BY WindowFacts
<1> USE DEF Cycle!Next, Cycle!Working
<1>2. CASE Arrive
  <2>1. CycleStage' = CycleStage /\ cooling' = cooling
    BY <1>2, StageStays DEF Arrive, runVars
  <2>2. /\ Cardinality(window') <= WindowCap
        /\ Cardinality(window') = IF Cardinality(window) < WindowCap
                                  THEN Cardinality(window) + 1 ELSE Cardinality(window)
    BY <1>2, ArriveKeeps
  <2>3. Cardinality(window) \in Nat /\ Cardinality(window') \in Nat /\ WindowCap \in Nat
    BY <2>2, WindowFacts, WindowAssumption
  <2>4. IsFull(window') <=> Cardinality(window') = WindowCap
    BY <2>2, <2>3 DEF IsFull
  <2> QED
    BY <1>2, <2>1, <2>2, <2>4 DEF Arrive, Cycle!Arrive
<1>3. CASE LoseSignal
  BY <1>3, StageStays DEF LoseSignal, runVars, Cycle!LoseSignal
<1>4. CASE TriggerSkips
  <2>1. CycleStage' = CycleStage
    BY <1>4, StageStays DEF TriggerSkips, runVars
  <2>2. inflight => CycleStage # "idle"
    <3> SUFFICES ASSUME inflight
                 PROVE  CycleStage # "idle"
      OBVIOUS
    <3>1. PICK r \in Runs : Active(r)
      BY <1>0 DEF RunInv, SingleRun
    <3>2. CycleStage = StageOf(pc[r])
      BY <1>0, <3>1, StageIs
    <3> QED
      BY <1>1, <3>1, <3>2 DEF StageOf, Active, Steps
  <2> QED
    BY <1>4, <2>1, <2>2 DEF TriggerSkips, runVars, Cycle!Skip
<1>5. CASE ReadSummaries \/ CooldownExpires
  BY <1>5, StageStays DEF ReadSummaries, CooldownExpires, runVars, Cycle!CooldownExpires
<1>6. ASSUME NEW r \in Runs, TriggerStarts(r)
      PROVE  Cycle!Next
  <2>1. CycleStage = "idle"
    BY <1>0, <1>6 DEF TriggerStarts, CycleStage, RunInv, SingleRun
  <2>2. pc'[r] = "snapshot"
    BY <1>1, <1>6 DEF TriggerStarts, Goto
  <2>3. CycleStage' = "started"
    BY <1>0, <2>2, StageBecomes DEF StageOf
  <2> QED
    BY <1>6, <2>1, <2>3 DEF TriggerStarts, Cycle!Start
<1>7. ASSUME NEW r \in Runs, Snapshot(r)
      PROVE  Cycle!Next
  <2>1. /\ CycleStage = "started"
        /\ CycleStage' = IF BatchOf(window) = {} THEN "releasing" ELSE "asking"
    BY <1>0, <1>7, RunMoves DEF Snapshot, StageOf
  <2>2. Cardinality(window) <= CompressionKeep <=> BatchOf(window) = {}
    <3>1. arrived \in Nat /\ window \subseteq 1..arrived /\ Cardinality(window) <= WindowCap
      BY WindowFacts DEF WindowInv
    <3> QED
      BY <3>1, BatchIs
  <2>3. Cardinality(window) > CompressionKeep <=> BatchOf(window) # {}
    BY <2>2, WindowFacts, WindowAssumption
  <2> QED
    BY <1>7, <2>1, <2>3 DEF Snapshot, Cycle!Look
<1>8. ASSUME NEW r \in Runs, Summarize(r)
      PROVE  Cycle!Next
  <2>1. CycleStage = "asking" /\ CycleStage' = "storing"
    BY <1>0, <1>8, RunMoves DEF Summarize, StageOf
  <2> QED
    BY <1>8, <2>1 DEF Summarize, Cycle!Answer
<1>9. ASSUME NEW r \in Runs, SummarizeFails(r)
      PROVE  Cycle!Next
  <2>1. CycleStage = "asking" /\ CycleStage' = "failed"
    BY <1>0, <1>9, RunMoves DEF SummarizeFails, StageOf
  <2> QED
    BY <1>9, <2>1 DEF SummarizeFails, Cycle!Fail
<1>10. ASSUME NEW r \in Runs, CheckChain(r) \/ Fuse(r) \/ FuseFails(r)
       PROVE  UNCHANGED <<Cardinality(window), signals, CycleStage, cooling>>
  <2>1. CycleStage = "storing" /\ CycleStage' = "storing"
    <3>1. /\ pc[r] \in {"check", "fuse"}
          /\ \E step \in {"fuse", "trim"} : Goto(r, step)
      BY <1>10 DEF CheckChain, Fuse, FuseFails
    <3> QED
      BY <1>0, <3>1, RunMoves DEF StageOf
  <2> QED
    BY <1>10, <2>1 DEF CheckChain, Fuse, FuseFails
<1>11. ASSUME NEW r \in Runs, Trim(r)
       PROVE  Cycle!Next
  <2>1. CycleStage = "storing" /\ CycleStage' = "releasing"
    BY <1>0, <1>11, RunMoves DEF Trim, StageOf
  <2>2. Cardinality(window') \in CompressionKeep..Cardinality(window)
    BY <1>11, TrimTakes, WindowFacts, WindowAssumption
  <2> QED
    BY <1>11, <2>1, <2>2 DEF Trim, Cycle!Trim
<1>12. ASSUME NEW r \in Runs, RecordFailure(r)
       PROVE  Cycle!Next
  <2>1. CycleStage = "failed" /\ CycleStage' = "releasing"
    BY <1>0, <1>12, RunMoves DEF RecordFailure, StageOf
  <2> QED
    BY <1>12, <2>1 DEF RecordFailure, Cycle!RecordFailure
<1>13. ASSUME NEW r \in Runs, Release(r)
       PROVE  Cycle!Next
  <2>1. CycleStage = "releasing"
    BY <1>0, <1>13, StageIs DEF Release, Active, StageOf
  <2>2. \A s \in Runs : pc'[s] = "idle"
    BY <1>0, <1>1, <1>13, OthersIdle DEF Release, Goto, Active
  <2>3. CycleStage' = "idle"
    BY <2>2 DEF CycleStage, Active
  <2> QED
    BY <1>13, <2>1, <2>3 DEF Release, Cycle!Release
<1>14. CASE Crash
  <2>1. CycleStage' = "idle"
    BY <1>14 DEF Crash, CycleStage, Active
  <2>2. Cardinality(window') = 0
    BY <1>14, FS_EmptySet DEF Crash
  <2> QED
    BY <1>14, <2>1, <2>2 DEF Crash, Cycle!Restart
<1> QED
  BY <1>2, <1>3, <1>4, <1>5, <1>6, <1>7, <1>8, <1>9, <1>10, <1>11, <1>12, <1>13, <1>14
  DEF Next, RunStep

\* If every message has a MessageID of its own, the compressor implements the cycle, step
\* by step: one run at a time passes through its stages, and a trim leaves enough.
THEOREM CompressorImplementsCycle == OneEach => (Spec => ImplementsCycle)
<1> SUFFICES ASSUME OneEach
             PROVE  Spec => ImplementsCycle
  OBVIOUS
<1>1. Init => Cycle!Init
  BY FS_EmptySet DEF Init, Cycle!Init, CycleStage, Active
<1>2. WindowInv /\ [Next]_vars => WindowInv'
  BY WindowNext
<1>3. WindowInv /\ [Next]_vars => [Cycle!Next]_(Cycle!vars)
  <2>1. CASE Next
    BY <2>1, CycleStep DEF Cycle!vars
  <2>2. CASE UNCHANGED vars
    BY <2>2, StageStays DEF vars, runVars, Cycle!vars
  <2> QED
    BY <2>1, <2>2
<1> QED
  BY <1>1, <1>2, <1>3, WindowInit, PTL DEF Spec, ImplementsCycle, Cycle!Spec

-----------------------------------------------------------------------------
(* The hot chain is bounded, whether loads and saves fail or not. *)

\* No two summaries of the chain, or of the archive, share a number: those of one may
\* repeat those of the other, after a load that failed.
OneSeqEach(sums) == \A s, t \in sums : s.seq = t.seq => s = t

ChainInv ==
    /\ IsFiniteSet(chain) /\ IsFiniteSet(archive)
    /\ OneSeqEach(chain) /\ OneSeqEach(archive)
    /\ loaded => \A s \in chain : s.seq < nextSeq
    /\ ~loaded => chain = {}

\* A set of summaries that is not empty has one with the least number.
LEMMA OldestExists ==
    ASSUME NEW sums, sums # {}, \A s \in sums : s.seq \in Nat
    PROVE  OldestOf(sums) # {}
<1> DEFINE seqs == SeqsOf(sums)
<1>1. seqs \subseteq Nat /\ seqs # {} /\ \A s \in sums : s.seq \in seqs
  BY DEF SeqsOf
<1>2. PICK n \in seqs : \A k \in seqs : n <= k
  <2> HIDE DEF seqs
  <2> QED
    BY <1>1, LeastExists
<1>3. PICK s \in sums : s.seq = n
  BY DEF SeqsOf
<1>4. s \in OldestOf(sums)
  BY <1>1, <1>2, <1>3 DEF OldestOf
<1> QED
  BY <1>4

\* A load that succeeds takes SummaryCap summaries at most.
LEMMA LatestIsShort ==
    ASSUME SeqsBounded, ChainInv
    PROVE  IsFiniteSet(Latest) /\ Cardinality(Latest) <= SummaryCap
<1>1. Latest \subseteq archive /\ \A s \in archive : s.seq \in Nat
  BY DEF Latest, SeqsBounded
<1>2. CASE Latest = {}
  BY <1>2, FS_EmptySet, SummaryAssumption
<1>3. CASE Latest # {}
  <2>1. PICK s \in Latest : \A t \in Latest : s.seq <= t.seq
    <3>1. OldestOf(Latest) # {}
      BY <1>1, <1>3, OldestExists
    <3> QED
      BY <3>1 DEF OldestOf
  <2> DEFINE newer == {t \in archive : t.seq > s.seq}
  <2>2. Cardinality(newer) < SummaryCap
    BY <2>1 DEF Latest
  <2>3. IsFiniteSet(newer)
    BY FS_Subset DEF ChainInv
  <2>4. Latest \ {s} \subseteq newer
    <3> SUFFICES ASSUME NEW t \in Latest, t # s
                 PROVE  t \in archive /\ t.seq > s.seq
      OBVIOUS
    <3>1. t \in archive /\ s \in archive /\ t.seq \in Nat /\ s.seq \in Nat
      BY <1>1
    <3>2. t.seq # s.seq
      BY <3>1 DEF ChainInv, OneSeqEach
    <3>3. s.seq <= t.seq
      BY <2>1
    <3> QED
      BY <3>1, <3>2, <3>3
  <2> HIDE DEF newer
  <2>5. SummaryCap \in Nat
    BY SummaryAssumption
  <2> QED
    BY <2>2, <2>3, <2>4, <2>5, Crowd
<1> QED
  BY <1>2, <1>3

\* What ensureLoaded leaves is a chain like the one before it, or a short one.
LEMMA LoadIsChain ==
    ASSUME SeqsBounded, ChainInv, NEW base \in LoadedChains
    PROVE  /\ IsFiniteSet(base)
           /\ OneSeqEach(base)
           /\ SeqAfter(base) \in Nat
           /\ \A s \in base : s.seq \in Nat /\ s.seq < SeqAfter(base)
           /\ base = chain \/ Cardinality(base) <= SummaryCap
<1>1. base \subseteq chain \cup archive /\ SeqAfter(base) \in Nat
  BY LoadTakesKnown, SeqAfterType
<1>2. \A s \in base : s.seq \in Nat
  BY <1>1 DEF SeqsBounded
<1>3. CASE loaded
  <2>1. base = chain /\ SeqAfter(base) = nextSeq
    BY <1>3 DEF LoadedChains, SeqAfter
  <2> QED
    BY <1>1, <1>2, <1>3, <2>1 DEF ChainInv
<1>4. CASE ~loaded /\ base = {}
  BY <1>1, <1>4, FS_EmptySet, SummaryAssumption DEF OneSeqEach
<1>5. CASE ~loaded /\ base # {}
  <2>1. base = Latest
    BY <1>5 DEF LoadedChains
  <2>2. IsFiniteSet(base) /\ Cardinality(base) <= SummaryCap
    BY <2>1, LatestIsShort
  <2>3. OneSeqEach(base)
    BY <2>1 DEF OneSeqEach, Latest, ChainInv
  <2>4. \A s \in base : s.seq < SeqAfter(base)
    <3> DEFINE seqs == SeqsOf(base)
    <3>1. PICK bound \in Nat : \A s \in chain \cup archive : s.seq <= bound
      BY DEF SeqsBounded
    <3>2. seqs \subseteq Nat /\ seqs # {} /\ \A k \in seqs : k <= bound
      BY <1>1, <1>2, <1>5, <3>1 DEF SeqsOf
    <3>3. \E n \in seqs : \A k \in seqs : k <= n
      BY <3>1, <3>2, GreatestExists
    <3>4. \A k \in seqs : k <= CHOOSE n \in seqs : \A j \in seqs : j <= n
      BY <3>3
    <3>5. \A s \in base : s.seq \in seqs
      BY DEF SeqsOf
    <3>6. SeqAfter(base) = 1 + CHOOSE n \in seqs : \A j \in seqs : j <= n
      BY <1>5 DEF SeqAfter
    <3>7. (CHOOSE n \in seqs : \A j \in seqs : j <= n) \in Nat
      BY <3>2, <3>3
    <3> DEFINE max == CHOOSE n \in seqs : \A j \in seqs : j <= n
    <3> HIDE DEF max, seqs
    <3> QED
      BY <1>2, <3>4, <3>5, <3>6, <3>7 DEF max
  <2> QED
    BY <1>1, <1>2, <2>2, <2>3, <2>4
<1> QED
  BY <1>3, <1>4, <1>5

\* Saving summaries with numbers of their own leaves an archive of that kind.
LEMMA UpsertIsArchive ==
    ASSUME ChainInv, NEW saved, IsFiniteSet(saved), OneSeqEach(saved)
    PROVE  /\ IsFiniteSet(Upsert(archive, saved))
           /\ OneSeqEach(Upsert(archive, saved))
<1>1. IsFiniteSet({r \in archive : r.seq \notin SeqsOf(saved)})
  BY FS_Subset DEF ChainInv
<1>2. IsFiniteSet(Upsert(archive, saved))
  BY <1>1, FS_Union DEF Upsert
<1>3. OneSeqEach(Upsert(archive, saved))
  <2> SUFFICES ASSUME NEW s \in Upsert(archive, saved), NEW t \in Upsert(archive, saved),
                      s.seq = t.seq
               PROVE  s = t
    BY DEF OneSeqEach
  <2>1. \A u \in saved : u.seq \in SeqsOf(saved)
    BY DEF SeqsOf
  <2> QED
    BY <2>1 DEF Upsert, ChainInv, OneSeqEach
<1> QED
  BY <1>2, <1>3

\* Every operation of the store keeps its chain and its archive well formed.
LEMMA StoreOpChain ==
    ASSUME SeqsBounded, ChainInv, NEW covers, StoreOp(covers)
    PROVE  ChainInv'
<1> DEFINE next(base) == Summary(SeqAfter(base), covers)
<1>0. \A base \in LoadedChains : next(base).seq = SeqAfter(base)
  BY DEF Summary
\* The chain after an operation other than a crash.
<1>1. ASSUME NEW base \in LoadedChains, loaded',
             \/ chain' \subseteq base /\ nextSeq' = SeqAfter(base)
             \/ chain' \subseteq base \cup {next(base)} /\ nextSeq' = SeqAfter(base) + 1
      PROVE  IsFiniteSet(chain') /\ OneSeqEach(chain') /\ \A s \in chain' : s.seq < nextSeq'
  <2>1. /\ IsFiniteSet(base) /\ OneSeqEach(base)
        /\ SeqAfter(base) \in Nat
        /\ \A s \in base : s.seq \in Nat /\ s.seq < SeqAfter(base)
    BY LoadIsChain
  <2>2. next(base).seq = SeqAfter(base)
    BY <1>0
  <2> HIDE DEF next
  <2>3. IsFiniteSet(base \cup {next(base)})
    BY <2>1, FS_AddElement
  <2>4. IsFiniteSet(chain')
    BY <1>1, <2>1, <2>3, FS_Subset
  <2>5. OneSeqEach(chain') /\ \A s \in chain' : s.seq < nextSeq'
    BY <1>1, <2>1, <2>2 DEF OneSeqEach
  <2> QED
    BY <2>4, <2>5
\* The archive after an operation that saves.
<1>2. ASSUME NEW saved, NEW base, IsFiniteSet(base), OneSeqEach(base), saved \subseteq base,
             archive' = Upsert(archive, saved)
      PROVE  IsFiniteSet(archive') /\ OneSeqEach(archive')
  <2>1. IsFiniteSet(saved) /\ OneSeqEach(saved)
    BY <1>2, FS_Subset DEF OneSeqEach
  <2> QED
    BY <1>2, <2>1, UpsertIsArchive
<1>3. CASE AppendSummary(covers)
  <2>1. PICK base \in LoadedChains :
          /\ loaded' = TRUE
          /\ chain' = base \cup {next(base)}
          /\ nextSeq' = SeqAfter(base) + 1
          /\ archive' = archive
    BY <1>3 DEF AppendSummary
  <2> HIDE DEF next
  <2> QED
    BY <1>1, <2>1 DEF ChainInv
<1>4. CASE ReplaceWithFused(covers)
  <2>1. PICK base \in LoadedChains : \E saved \in Saveable(base) :
          /\ loaded' = TRUE
          /\ archive' = Upsert(archive, saved)
          /\ chain' = {next(base)}
          /\ nextSeq' = SeqAfter(base) + 1
    BY <1>4 DEF ReplaceWithFused
  <2>2. PICK saved \in Saveable(base) : archive' = Upsert(archive, saved)
    BY <2>1
  <2>3. saved \subseteq base
    BY DEF Saveable
  <2>4. IsFiniteSet(archive') /\ OneSeqEach(archive')
    BY <1>2, <2>2, <2>3, LoadIsChain
  <2>5. IsFiniteSet(chain') /\ OneSeqEach(chain') /\ \A s \in chain' : s.seq < nextSeq'
    <3> HIDE DEF next
    <3> QED
      BY <1>1, <2>1
  <2> QED
    BY <2>1, <2>4, <2>5 DEF ChainInv
<1>5. CASE EvictOldest
  <2>1. PICK base \in LoadedChains : \E saved \in Saveable(OldestOf(base)) :
          /\ loaded' = TRUE
          /\ archive' = Upsert(archive, saved)
          /\ chain' = base \ OldestOf(base)
          /\ nextSeq' = SeqAfter(base)
    BY <1>5 DEF EvictOldest
  <2>2. PICK saved \in Saveable(OldestOf(base)) : archive' = Upsert(archive, saved)
    BY <2>1
  <2>3. saved \subseteq base
    BY DEF Saveable, OldestOf
  <2>4. IsFiniteSet(archive') /\ OneSeqEach(archive')
    BY <1>2, <2>2, <2>3, LoadIsChain
  <2>5. IsFiniteSet(chain') /\ OneSeqEach(chain') /\ \A s \in chain' : s.seq < nextSeq'
    BY <1>1, <2>1
  <2> QED
    BY <2>1, <2>4, <2>5 DEF ChainInv
<1>6. CASE GetAll
  <2>1. PICK base \in LoadedChains :
          loaded' = TRUE /\ chain' = base /\ nextSeq' = SeqAfter(base) /\ archive' = archive
    BY <1>6 DEF GetAll
  <2> QED
    BY <1>1, <2>1 DEF ChainInv
<1>7. CASE \E saved \in SUBSET chain : LoseMemory(saved)
  <2>1. PICK saved \in SUBSET chain : LoseMemory(saved)
    BY <1>7
  <2>2. IsFiniteSet(archive') /\ OneSeqEach(archive')
    BY <1>2, <2>1 DEF LoseMemory, ChainInv
  <2>3. loaded' = FALSE /\ chain' = {}
    BY <2>1 DEF LoseMemory
  <2> QED
    BY <2>2, <2>3, FS_EmptySet DEF ChainInv, OneSeqEach
<1> QED
  BY <1>3, <1>4, <1>5, <1>6, <1>7 DEF StoreOp

LengthInv == RunInv /\ ChainInv /\ ChainBounded

LEMMA LengthInit == Init => LengthInv
<1> SUFFICES ASSUME Init
             PROVE  ChainInv /\ ChainBounded
  BY RunInit DEF LengthInv
<1>1. IsFiniteSet(chain) /\ IsFiniteSet(archive) /\ Cardinality(chain) = 0
  BY FS_EmptySet DEF Init, SummaryInit
<1>2. ChainInv
  BY <1>1 DEF ChainInv, OneSeqEach, Init, SummaryInit
<1>3. ChainBounded
  BY <1>1, SummaryAssumption DEF ChainBounded
<1> QED
  BY <1>2, <1>3

LEMMA LengthNext == LengthInv /\ [Next]_vars => LengthInv'
<1> SUFFICES ASSUME LengthInv, [Next]_vars
             PROVE  ChainInv' /\ ChainBounded'
  BY RunNext DEF LengthInv
<1>0. SeqsBounded /\ ChainInv /\ RunInv /\ pc \in [Runs -> Steps]
  BY DEF LengthInv, RunInv, TypeInv, TypeOK
<1>1. ChainInv'
  <2>1. CASE UNCHANGED summaryVars
    BY <1>0, <2>1 DEF summaryVars, ChainInv
  <2>2. CASE ~ UNCHANGED summaryVars
    BY <1>0, <2>2, StepUsesStore, StoreOpChain
  <2> QED
    BY <2>1, <2>2
<1>2. /\ Cardinality(chain) \in Nat /\ Cardinality(chain') \in Nat
      /\ SummaryCap \in Nat /\ SummaryCap > 0
  BY <1>0, <1>1, FS_CardinalityType, SummaryAssumption DEF ChainInv
<1>3. \A base \in LoadedChains :
        /\ IsFiniteSet(base) /\ Cardinality(base) \in Nat
        /\ \A s \in base : s.seq \in Nat
        /\ base = chain \/ Cardinality(base) <= SummaryCap
  BY <1>0, LoadIsChain, FS_CardinalityType
<1> SUFFICES ChainBounded'
  BY <1>1
\* Steps of others, and of a run outside maybeFuse.
<1>4. CASE chain' = chain /\ UNCHANGED pc
  BY <1>4 DEF LengthInv, ChainBounded
<1>5. CASE chain' = chain /\ Cardinality(chain) <= SummaryCap
  BY <1>2, <1>5 DEF ChainBounded
<1>6. ASSUME NEW r \in Runs, pc[r] \notin {"idle", "check", "fuse"}
      PROVE  Cardinality(chain) <= SummaryCap
  <2>1. \A s \in Runs : pc[s] \notin {"check", "fuse"}
    BY <1>0, <1>6, OthersIdle DEF Active
  <2> QED
    BY <1>2, <2>1 DEF LengthInv, ChainBounded
<1>7. CASE Cardinality(chain') <= SummaryCap
  BY <1>2, <1>7 DEF ChainBounded
<1>8. CASE ReadSummaries
  <2>1. PICK base \in LoadedChains : chain' = base
    BY <1>8 DEF ReadSummaries, GetAll
  <2>2. Cardinality(chain') <= SummaryCap
    <3>1. chain = {} /\ Cardinality({}) = 0
      BY <1>0, <1>8, FS_EmptySet DEF ReadSummaries, ChainInv
    <3> QED
      BY <1>2, <1>3, <2>1, <3>1
  <2> QED
    BY <1>7, <2>2
<1>9. ASSUME NEW r \in Runs, TriggerStarts(r)
      PROVE  ChainBounded'
  <2>1. \A s \in Runs : pc[s] = "idle"
    BY <1>0, <1>9 DEF TriggerStarts, RunInv, SingleRun, Active
  <2>2. Cardinality(chain) <= SummaryCap
    BY <1>2, <2>1 DEF LengthInv, ChainBounded
  <2> QED
    BY <1>5, <1>9, <2>2 DEF TriggerStarts, summaryVars
<1>10. ASSUME NEW r \in Runs, Summarize(r)
       PROVE  ChainBounded'
  <2>1. PICK base \in LoadedChains : chain' = base \cup {Summary(SeqAfter(base), batch[r])}
    BY <1>10 DEF Summarize, AppendSummary
  <2>2. Cardinality(base) <= SummaryCap
    BY <1>3, <1>6, <1>10 DEF Summarize
  <2>3. Cardinality(chain') <= Cardinality(base) + 1
    <3> DEFINE new == Summary(SeqAfter(base), batch[r])
    <3>1. IsFiniteSet(base) /\ Cardinality(base) \in Nat
      BY <1>3
    <3>2. chain' = base \cup {new}
      BY <2>1
    <3> HIDE DEF new
    <3>3. Cardinality(base \cup {new}) <= Cardinality(base) + 1
      BY <3>1, OneMore
    <3> QED
      BY <3>2, <3>3
  <2>4. pc'[r] = "check"
    BY <1>0, <1>10 DEF Summarize, Goto
  <2> QED
    BY <1>2, <1>3, <2>2, <2>3, <2>4 DEF ChainBounded
<1>11. ASSUME NEW r \in Runs, CheckChain(r)
       PROVE  ChainBounded'
  <2>1. PICK base \in LoadedChains : chain' = base
    BY <1>11 DEF CheckChain, GetAll
  <2>2. Cardinality(chain') <= SummaryCap + 1
    BY <1>2, <1>3, <2>1 DEF LengthInv, ChainBounded
  <2>3. Cardinality(chain') > SummaryCap => pc'[r] = "fuse"
    BY <1>0, <1>11 DEF CheckChain, Goto
  <2> QED
    BY <2>2, <2>3 DEF ChainBounded
<1>12. ASSUME NEW r \in Runs, Fuse(r)
       PROVE  ChainBounded'
  <2>1. PICK s : chain' = {s}
    BY <1>12 DEF Fuse, ReplaceWithFused
  <2>2. Cardinality(chain') = 1
    BY <2>1, FS_Singleton
  <2> QED
    BY <1>2, <1>7, <2>2
\* The oldest of a chain one too long gives way.
<1>13. ASSUME NEW r \in Runs, FuseFails(r)
       PROVE  ChainBounded'
  <2>1. PICK base \in LoadedChains : chain' = base \ OldestOf(base)
    BY <1>13 DEF FuseFails, EvictOldest
  <2>2. IsFiniteSet(base) /\ Cardinality(base) \in Nat /\ Cardinality(base) <= SummaryCap + 1
    BY <1>2, <1>3 DEF LengthInv, ChainBounded
  <2>3. CASE base = {}
    <3>1. chain' = {}
      BY <2>1, <2>3
    <3> QED
      BY <1>2, <1>7, <3>1, FS_EmptySet
  <2>4. CASE base # {}
    <3>1. PICK s \in OldestOf(base) : s \in base
      BY <1>3, <2>4, OldestExists DEF OldestOf
    <3>2. chain' \subseteq base \ {s}
      BY <2>1, <3>1
    <3>3. IsFiniteSet(base \ {s}) /\ Cardinality(base \ {s}) = Cardinality(base) - 1
      BY <2>2, <3>1, FS_RemoveElement
    <3>4. Cardinality(chain') <= Cardinality(base \ {s})
      BY <3>2, <3>3, Smaller
    <3> QED
      BY <1>2, <1>7, <2>2, <3>3, <3>4
  <2> QED
    BY <2>3, <2>4
<1>14. CASE Crash
  <2>1. chain' = {}
    BY <1>14 DEF Crash, LoseMemory
  <2> QED
    BY <1>2, <1>7, <2>1, FS_EmptySet
<1>15. ASSUME NEW r \in Runs,
              Snapshot(r) \/ SummarizeFails(r) \/ Trim(r) \/ RecordFailure(r) \/ Release(r)
       PROVE  ChainBounded'
  <2>1. pc[r] \notin {"idle", "check", "fuse"} /\ chain' = chain
    BY <1>15 DEF Snapshot, SummarizeFails, Trim, RecordFailure, Release, summaryVars
  <2> QED
    BY <1>5, <1>6, <2>1
<1> QED
  BY <1>4, <1>8, <1>9, <1>10, <1>11, <1>12, <1>13, <1>14, <1>15
  DEF Next, RunStep, vars, runVars, summaryVars, Arrive, LoseSignal, TriggerSkips,
      CooldownExpires

\* The hot chain has SummaryCap summaries at most, and one more while a run is fusing,
\* whatever loads, saves and fusions fail.
THEOREM ChainStaysBounded == Spec => []ChainBounded
<1>1. LengthInv => ChainBounded
  BY DEF LengthInv
<1> QED
  BY LengthInit, LengthNext, <1>1, PTL DEF Spec

-----------------------------------------------------------------------------
(* Prompts are built beside the compressor. *)

LoadedOrNot == loaded \in BOOLEAN

\* A chain that is read again is left as it is.
LEMMA GetAllAgain ==
    ASSUME loaded = TRUE, GetAll
    PROVE  UNCHANGED summaryVars
BY DEF GetAll, LoadedChains, SeqAfter, summaryVars

LEMMA ReadChainRefines ==
    ASSUME LoadedOrNot, NEW b \in Builders, ReadChain(b)
    PROVE  [Next]_vars
<1>1. CASE loaded = TRUE
  BY <1>1, GetAllAgain DEF ReadChain, vars, runVars
<1>2. CASE loaded = FALSE
  <2>1. ReadSummaries
    BY <1>2 DEF ReadSummaries, ReadChain, runVars
  <2> QED
    BY <2>1 DEF Next
<1> QED
  BY <1>1, <1>2 DEF LoadedOrNot

\* Every behaviour with prompts is one of the compressor.
THEOREM PromptsUseTheCompressor == PromptSpec => Spec
<1>1. PromptInit => Init /\ LoadedOrNot
  BY DEF PromptInit, Init, SummaryInit, LoadedOrNot
<1>2. LoadedOrNot /\ [PromptNext]_promptVars => [Next]_vars
  <2> SUFFICES ASSUME LoadedOrNot, PromptNext
               PROVE  [Next]_vars
    BY DEF promptVars
  <2>1. CASE CompressorStep
    BY <2>1 DEF CompressorStep
  <2>2. ASSUME NEW b \in Builders, CopyWindow(b)
        PROVE  UNCHANGED vars
    BY <2>2 DEF CopyWindow
  <2> QED
    BY <2>1, <2>2, ReadChainRefines DEF PromptNext
<1>3. LoadedOrNot /\ [Next]_vars => LoadedOrNot'
  <2> SUFFICES ASSUME LoadedOrNot, Next
               PROVE  loaded' = loaded \/ loaded' \in BOOLEAN
    BY DEF LoadedOrNot, vars, summaryVars
  <2> QED
    BY DEF Next, RunStep, Arrive, LoseSignal, TriggerSkips, ReadSummaries, TriggerStarts,
           CooldownExpires, Crash, Snapshot, Summarize, SummarizeFails, CheckChain, Fuse, FuseFails,
           Trim, RecordFailure, Release, GetAll, AppendSummary, ReplaceWithFused, EvictOldest,
           LoseMemory, summaryVars
<1> QED
  BY <1>1, <1>2, <1>3, PTL DEF PromptSpec, Spec

-----------------------------------------------------------------------------
(* What a run has summarised is told by the chain until it is trimmed. *)

\* The summary of the batch is the newest of the chain, which an eviction spares.
BatchNewest ==
    \A r \in Runs : pc[r] \in {"check", "fuse"} =>
        /\ loaded
        /\ \E s \in chain : /\ batch[r] \subseteq s.covers
                            /\ \A t \in chain : t.seq <= s.seq

\* The chain that is being fused is the one that was read, and has more than one summary.
ChainUnderFusion ==
    \A r \in Runs : pc[r] = "fuse" => fusing[r] = chain /\ Cardinality(chain) > SummaryCap

\* What is about to leave the window is in the chain.
BatchInChain == \A r \in Runs : pc[r] = "trim" => loaded /\ batch[r] \subseteq Covered(chain)

TellInv == BatchNewest /\ ChainUnderFusion /\ BatchInChain

CompressorInv == WindowInv /\ LengthInv /\ TellInv

\* A run that stands at none of the three places has nothing to tell.
LEMMA NothingToTell ==
    ASSUME \A r \in Runs : ~ Storing(r)
    PROVE  TellInv
BY DEF Storing, TellInv, BatchNewest, ChainUnderFusion, BatchInChain

LEMMA NothingToTellNext ==
    ASSUME \A r \in Runs : pc'[r] \notin {"check", "fuse", "trim"}
    PROVE  TellInv'
BY DEF TellInv, BatchNewest, ChainUnderFusion, BatchInChain

LEMMA TellNext ==
    ASSUME CompressorInv, [Next]_vars
    PROVE  TellInv'
<1>0. /\ pc \in [Runs -> Steps] /\ batch \in [Runs -> SUBSET (1..arrived)]
      /\ RunInv /\ SeqsBounded /\ ChainInv /\ TellInv
      /\ DOMAIN fusing = Runs
  BY WindowFacts DEF CompressorInv, LengthInv, RunInv, TypeInv, TypeOK
<1>1. CASE UNCHANGED <<pc, batch, fusing, loaded, chain>>
  BY <1>0, <1>1 DEF TellInv, BatchNewest, ChainUnderFusion, BatchInChain
\* A load while a run stores: the chain is loaded already.
<1>2. CASE ReadSummaries
  <2>1. ~loaded /\ pc' = pc
    BY <1>2 DEF ReadSummaries, runVars
  <2>2. \A r \in Runs : pc[r] \notin {"check", "fuse", "trim"}
    BY <1>0, <2>1 DEF TellInv, BatchNewest, BatchInChain
  <2> QED
    BY <2>1, <2>2, NothingToTellNext
<1>3. CASE Crash
  BY <1>3, NothingToTellNext DEF Crash
<1>4. ASSUME NEW r \in Runs, TriggerStarts(r)
      PROVE  TellInv'
  <2>1. \A s \in Runs : pc[s] = "idle"
    BY <1>0, <1>4 DEF TriggerStarts, RunInv, SingleRun, Active
  <2>2. \A s \in Runs : pc'[s] \in {"idle", "snapshot"}
    BY <1>0, <1>4, <2>1 DEF TriggerStarts, Goto
  <2> QED
    BY <2>2, NothingToTellNext
<1>5. ASSUME NEW r \in Runs, RunStep(r)
      PROVE  TellInv'
  <2>1. pc[r] # "idle"
    BY <1>5 DEF RunStep, Snapshot, Summarize, SummarizeFails, CheckChain, Fuse, FuseFails, Trim,
                RecordFailure, Release
  <2>2. \A s \in Runs : s # r => pc[s] = "idle"
    BY <1>0, <2>1, OthersIdle DEF Active
  <2>3. CASE Snapshot(r) \/ SummarizeFails(r) \/ Trim(r) \/ RecordFailure(r) \/ Release(r)
    <3>1. \A s \in Runs : pc'[s] \notin {"check", "fuse", "trim"}
      BY <1>0, <2>2, <2>3
      DEF Snapshot, SummarizeFails, Trim, RecordFailure, Release, Goto
    <3> QED
      BY <3>1, NothingToTellNext
  <2>4. CASE Summarize(r)
    <3>1. PICK base \in LoadedChains :
            /\ loaded' = TRUE
            /\ chain' = base \cup {Summary(SeqAfter(base), batch[r])}
      BY <2>4 DEF Summarize, AppendSummary
    <3> DEFINE new == Summary(SeqAfter(base), batch[r])
    <3>2. new.seq = SeqAfter(base) /\ new.covers = batch[r]
      BY DEF Summary
    <3>3. SeqAfter(base) \in Nat /\ \A t \in base : t.seq \in Nat /\ t.seq < SeqAfter(base)
      BY <1>0, LoadIsChain
    <3>4. new \in chain' /\ \A t \in chain' : t.seq <= new.seq
      <4>1. chain' = base \cup {new}
        BY <3>1
      <4> HIDE DEF new
      <4> QED
        BY <3>2, <3>3, <4>1
    <3>5. pc' = [pc EXCEPT ![r] = "check"] /\ batch' = batch
      BY <2>4 DEF Summarize, Goto
    <3>6. \A s \in Runs : pc'[s] \in {"check", "fuse", "trim"} => s = r /\ pc'[s] = "check"
      BY <1>0, <2>2, <3>5
    <3>7. \E s \in chain' : batch'[r] \subseteq s.covers /\ \A t \in chain' : t.seq <= s.seq
      <4> HIDE DEF new
      <4> QED
        BY <3>2, <3>4, <3>5
    <3> HIDE DEF new
    <3> QED
      BY <3>1, <3>6, <3>7 DEF TellInv, BatchNewest, ChainUnderFusion, BatchInChain
  <2>5. CASE CheckChain(r)
    <3>1. /\ loaded
          /\ \E s \in chain : batch[r] \subseteq s.covers /\ \A t \in chain : t.seq <= s.seq
      BY <1>0, <2>5 DEF CheckChain, TellInv, BatchNewest
    <3>2. loaded' = TRUE /\ chain' = chain
      BY <2>5, <3>1 DEF CheckChain, GetAll, LoadedChains
    <3>3. /\ pc' = [pc EXCEPT ![r] = IF Cardinality(chain) > SummaryCap THEN "fuse" ELSE "trim"]
          /\ fusing' = [fusing EXCEPT ![r] = chain]
          /\ batch' = batch
      BY <2>5, <3>2 DEF CheckChain, Goto
    <3>4. \A s \in Runs : pc'[s] \in {"check", "fuse", "trim"} => s = r
      BY <1>0, <2>2, <3>3
    <3>5. pc'[r] = "fuse" => fusing'[r] = chain' /\ Cardinality(chain') > SummaryCap
      BY <1>0, <3>2, <3>3
    <3>6. batch'[r] \subseteq Covered(chain')
      BY <3>1, <3>2, <3>3 DEF Covered
    <3> QED
      BY <3>1, <3>2, <3>3, <3>4, <3>5, <3>6
      DEF TellInv, BatchNewest, ChainUnderFusion, BatchInChain
  <2>6. CASE Fuse(r)
    <3>1. fusing[r] = chain /\ \E s \in chain : batch[r] \subseteq s.covers
      BY <1>0, <2>6 DEF Fuse, TellInv, BatchNewest, ChainUnderFusion
    <3>2. loaded' = TRUE /\ \E n : chain' = {Summary(n, Covered(chain))}
      BY <2>6, <3>1 DEF Fuse, ReplaceWithFused
    <3>3. batch[r] \subseteq Covered(chain')
      BY <3>1, <3>2 DEF Covered, Summary
    <3>4. pc' = [pc EXCEPT ![r] = "trim"] /\ batch' = batch
      BY <2>6 DEF Fuse, Goto
    <3>5. \A s \in Runs : pc'[s] \in {"check", "fuse", "trim"} => s = r /\ pc'[s] = "trim"
      BY <1>0, <2>2, <3>4
    <3> QED
      BY <3>2, <3>3, <3>4, <3>5 DEF TellInv, BatchNewest, ChainUnderFusion, BatchInChain
  <2>7. CASE FuseFails(r)
    <3>1. loaded /\ Cardinality(chain) > SummaryCap
      BY <1>0, <2>7 DEF FuseFails, TellInv, BatchNewest, ChainUnderFusion
    <3>2. PICK s \in chain : batch[r] \subseteq s.covers /\ \A t \in chain : t.seq <= s.seq
      BY <1>0, <2>7 DEF FuseFails, TellInv, BatchNewest
    <3>3. loaded' = TRUE /\ chain' = chain \ OldestOf(chain)
      BY <2>7, <3>1 DEF FuseFails, EvictOldest, LoadedChains
    <3>4. chain # {s}
      <4>1. SummaryCap \in Nat /\ SummaryCap >= 1 /\ Cardinality({s}) = 1
        BY FS_Singleton, SummaryAssumption
      <4> QED
        BY <3>1, <4>1
    <3>5. PICK t \in chain : t # s
      BY <3>2, <3>4
    <3>6. t.seq \in Nat /\ s.seq \in Nat /\ t.seq # s.seq /\ t.seq <= s.seq
      BY <1>0, <3>2, <3>5 DEF SeqsBounded, ChainInv, OneSeqEach
    <3>7. s \notin OldestOf(chain)
      BY <3>5, <3>6 DEF OldestOf
    <3>8. batch[r] \subseteq Covered(chain')
      BY <3>2, <3>3, <3>7 DEF Covered
    <3>9. pc' = [pc EXCEPT ![r] = "trim"] /\ batch' = batch
      BY <2>7 DEF FuseFails, Goto
    <3>10. \A u \in Runs : pc'[u] \in {"check", "fuse", "trim"} => u = r /\ pc'[u] = "trim"
      BY <1>0, <2>2, <3>9
    <3> QED
      BY <3>3, <3>8, <3>9, <3>10 DEF TellInv, BatchNewest, ChainUnderFusion, BatchInChain
  <2> QED
    BY <1>5, <2>3, <2>4, <2>5, <2>6, <2>7 DEF RunStep
<1> QED
  BY <1>1, <1>2, <1>3, <1>4, <1>5
  DEF Next, vars, runVars, summaryVars, Arrive, LoseSignal, TriggerSkips, CooldownExpires

LEMMA CompressorInvHolds == OneEach => (Spec => []CompressorInv)
<1> SUFFICES ASSUME OneEach
             PROVE  Spec => []CompressorInv
  OBVIOUS
<1>1. Init => CompressorInv
  <2> SUFFICES ASSUME Init
               PROVE  TellInv
    BY WindowInit, LengthInit DEF CompressorInv
  <2>1. \A r \in Runs : ~ Storing(r)
    BY DEF Init, Storing
  <2> QED
    BY <2>1, NothingToTell
<1>2. CompressorInv /\ [Next]_vars => CompressorInv'
  BY WindowNext, LengthNext, TellNext DEF CompressorInv
<1> QED
  BY <1>1, <1>2, PTL DEF Spec

-----------------------------------------------------------------------------
(* A prompt has no hole. *)

\* A load that succeeds gives the chain a prompt would read.
LEMMA LoadReads ==
    ASSUME LoadMayFail = FALSE, ChainInv
    PROVE  LoadedChains = {HotChain}
BY DEF LoadedChains, HotChain

\* What a prompt can tell is lost only where the session gives it up.
LEMMA StepTells ==
    ASSUME OneEach, LoadMayFail = FALSE, CompressorInv, Next, ~GivesUp
    PROVE  Told \subseteq Told'
<1>0. WindowInv /\ ChainInv /\ TellInv
  BY DEF CompressorInv, LengthInv
<1>1. LoadedChains = {HotChain}
  BY <1>0, LoadReads
<1>2. CASE UNCHANGED <<window, summaryVars>>
  <2>1. HotChain' = HotChain
    BY <1>2 DEF HotChain, Latest, summaryVars
  <2> QED
    BY <1>2, <2>1 DEF Told
<1>3. CASE GetAll /\ window' = window
  <2>1. loaded' = TRUE /\ chain' = HotChain
    BY <1>1, <1>3 DEF GetAll
  <2>2. HotChain' = HotChain
    BY <2>1 DEF HotChain
  <2> QED
    BY <1>3, <2>2 DEF Told
<1>4. ASSUME NEW r \in Runs, Summarize(r)
      PROVE  Told \subseteq Told'
  <2>1. loaded' = TRUE /\ HotChain \subseteq chain' /\ window' = window
    BY <1>1, <1>4 DEF Summarize, AppendSummary
  <2>2. HotChain \subseteq HotChain'
    BY <2>1 DEF HotChain
  <2> QED
    BY <2>1, <2>2 DEF Told, Covered
<1>5. ASSUME NEW r \in Runs, Fuse(r)
      PROVE  Told \subseteq Told'
  <2>1. loaded /\ fusing[r] = chain
    BY <1>0, <1>5 DEF Fuse, TellInv, BatchNewest, ChainUnderFusion
  <2>2. window' = window /\ loaded' = TRUE /\ \E n : chain' = {Summary(n, Covered(chain))}
    BY <1>5, <2>1 DEF Fuse, ReplaceWithFused
  <2>3. HotChain = chain /\ HotChain' = chain'
    BY <2>1, <2>2 DEF HotChain
  <2>4. Covered(chain) \subseteq Covered(chain')
    BY <2>2 DEF Covered, Summary
  <2> QED
    BY <2>2, <2>3, <2>4 DEF Told
<1>6. ASSUME NEW r \in Runs, FuseFails(r)
      PROVE  Told \subseteq Told'
  <2>1. loaded
    BY <1>0, <1>6 DEF FuseFails, TellInv, BatchNewest
  <2>2. window' = window /\ loaded' = TRUE /\ chain' = chain \ OldestOf(chain)
    BY <1>6, <2>1 DEF FuseFails, EvictOldest, LoadedChains
  <2>3. chain' = chain
    BY <2>2 DEF GivesUp
  <2> QED
    BY <2>1, <2>2, <2>3 DEF Told, HotChain
<1>7. ASSUME NEW r \in Runs, Trim(r)
      PROVE  Told \subseteq Told'
  <2>1. loaded /\ batch[r] \subseteq Covered(chain)
    BY <1>0, <1>7 DEF Trim, TellInv, BatchInChain
  <2>2. window' = window \ batch[r] /\ loaded' = loaded /\ chain' = chain
    BY <1>0, <1>7, TrimTakes DEF Trim, summaryVars
  <2> QED
    BY <2>1, <2>2 DEF Told, HotChain
<1>8. CASE Arrive
  <2>1. arrived \in Nat
    BY <1>0, WindowFacts
  <2> QED
    BY <1>8, <2>1 DEF Arrive, GivesUp
<1>9. CASE Crash
  <2>1. restarts \in Nat
    BY CompressorAssumption DEF CompressorInv, LengthInv, RunInv, TypeInv, TypeOK
  <2> QED
    BY <1>9, <2>1 DEF Crash, GivesUp
<1> QED
  BY <1>2, <1>3, <1>4, <1>5, <1>6, <1>7, <1>8, <1>9
  DEF Next, RunStep, runVars, LoseSignal, TriggerSkips, TriggerStarts, ReadSummaries,
      CooldownExpires, Snapshot, SummarizeFails, CheckChain, RecordFailure, Release

\* Messages enter the window in the order they arrive in, and never come back.
LEMMA WindowMoves ==
    ASSUME WindowInv, [Next]_vars
    PROVE  /\ arrived' \in Nat /\ arrived <= arrived'
           /\ window' \subseteq window \cup {arrived + 1}
           /\ 1..arrived' \subseteq (1..arrived) \cup window'
<1>0. arrived \in Nat /\ window \subseteq 1..arrived
  BY WindowFacts
<1>1. CASE UNCHANGED arrived /\ (window' = window \/ window' = {} \/ \E r \in Runs : Trim(r))
  <2>1. window' \subseteq window
    BY <1>1, WindowSubsets DEF Trim
  <2> QED
    BY <1>0, <1>1, <2>1
<1>2. CASE Arrive
  <2>1. arrived' = arrived + 1 /\ window' = Appended(window, arrived + 1)
    BY <1>2 DEF Arrive
  <2>2. window' \subseteq window \cup {arrived + 1}
    BY <2>1, WindowSubsets
  <2>3. arrived + 1 \in window'
    <3>1. Cardinality(window) <= WindowCap
      BY DEF WindowInv
    <3> QED
      BY <1>0, <2>1, <3>1, AppendedIs
  <2> QED
    BY <1>0, <2>1, <2>2, <2>3
<1> QED
  BY <1>1, <1>2
  DEF Next, RunStep, vars, LoseSignal, TriggerSkips, TriggerStarts, ReadSummaries,
      CooldownExpires, Crash, Snapshot, Summarize, SummarizeFails, CheckChain, Fuse, FuseFails,
      Trim, RecordFailure, Release

PromptTypes ==
    /\ asm \in [Builders -> {"idle", "describe"}]
    /\ copied \in [Builders -> SUBSET Nat]
    /\ upto \in [Builders -> Nat]

\* Every message is told, or given up.
NoneMissing == 1..arrived \subseteq Told \cup forgotten

\* For a prompt under way: what was there when it took its copy is in the copy, in the
\* chain or given up; and what is still in the window is in the copy.
CopyHasRest ==
    \A b \in Builders : asm[b] = "describe" =>
        /\ upto[b] <= arrived
        /\ 1..upto[b] \subseteq copied[b] \cup Covered(HotChain) \cup forgotten
        /\ window \cap 1..upto[b] \subseteq copied[b]

PromptInv == PromptTypes /\ NoneMissing /\ CopyHasRest

LEMMA PromptInvInit == PromptInit => PromptInv
BY DEF PromptInit, Init, PromptInv, PromptTypes, NoneMissing, CopyHasRest, Told

LEMMA PromptInvNext ==
    ASSUME OneEach, LoadMayFail = FALSE, CompressorInv, PromptInv, [PromptNext]_promptVars
    PROVE  PromptInv'
<1>0. WindowInv /\ ChainInv /\ arrived \in Nat /\ window \subseteq 1..arrived
  BY WindowFacts DEF CompressorInv, LengthInv
<1>1. CASE CompressorStep
  <2>1. /\ arrived' \in Nat /\ arrived <= arrived'
        /\ window' \subseteq window \cup {arrived + 1}
        /\ 1..arrived' \subseteq (1..arrived) \cup window'
    BY <1>0, <1>1, WindowMoves DEF CompressorStep
  <2>2. Told \subseteq Told' \cup forgotten' /\ forgotten \subseteq forgotten'
    BY <1>1, StepTells DEF CompressorStep
  <2>3. PromptTypes'
    BY <1>1 DEF CompressorStep, PromptInv, PromptTypes, asmVars
  <2>4. NoneMissing'
    BY <2>1, <2>2 DEF PromptInv, NoneMissing, Told
  <2>5. CopyHasRest'
    <3>1. CASE restarts' # restarts
      BY <1>1, <3>1 DEF CompressorStep, CopyHasRest
    <3>2. CASE restarts' = restarts
      <4> SUFFICES ASSUME NEW b \in Builders, asm[b] = "describe"
                   PROVE  /\ upto[b] <= arrived'
                          /\ 1..upto[b] \subseteq copied[b] \cup Covered(HotChain') \cup forgotten'
                          /\ window' \cap 1..upto[b] \subseteq copied[b]
        BY <1>1, <3>2 DEF CompressorStep, CopyHasRest, asmVars, HotChain, Latest
      <4>1. /\ upto[b] <= arrived /\ upto[b] \in Nat
            /\ 1..upto[b] \subseteq copied[b] \cup Covered(HotChain) \cup forgotten
            /\ window \cap 1..upto[b] \subseteq copied[b]
        BY DEF PromptInv, CopyHasRest, PromptTypes
      <4>2. window' \cap 1..upto[b] \subseteq copied[b]
        BY <1>0, <2>1, <4>1
      <4>3. 1..upto[b] \subseteq copied[b] \cup Covered(HotChain') \cup forgotten'
        BY <2>2, <4>1, <4>2 DEF Told
      <4> QED
        BY <1>0, <2>1, <4>1, <4>2, <4>3
    <3> QED
      BY <3>1, <3>2
  <2> QED
    BY <2>3, <2>4, <2>5 DEF PromptInv
<1>2. ASSUME NEW b \in Builders, CopyWindow(b)
      PROVE  PromptInv'
  <2>1. window' = window /\ arrived' = arrived /\ forgotten' = forgotten /\ HotChain' = HotChain
    BY <1>2 DEF CopyWindow, vars, summaryVars, HotChain, Latest
  <2>2. PromptTypes'
    <3>1. window \in SUBSET Nat
      BY <1>0
    <3> QED
      BY <1>0, <1>2, <3>1 DEF CopyWindow, PromptInv, PromptTypes
  <2>3. NoneMissing'
    BY <2>1 DEF PromptInv, NoneMissing, Told
  <2>4. /\ asm' = [asm EXCEPT ![b] = "describe"]
        /\ copied' = [copied EXCEPT ![b] = window]
        /\ upto' = [upto EXCEPT ![b] = arrived]
    BY <1>2 DEF CopyWindow
  <2>5. CopyHasRest'
    <3> SUFFICES ASSUME NEW c \in Builders, asm'[c] = "describe"
                 PROVE  /\ upto'[c] <= arrived
                        /\ 1..upto'[c] \subseteq copied'[c] \cup Covered(HotChain) \cup forgotten
                        /\ window \cap 1..upto'[c] \subseteq copied'[c]
      BY <2>1 DEF CopyHasRest
    <3>1. CASE c = b
      <4>1. upto'[c] = arrived /\ copied'[c] = window
        BY <2>4, <3>1 DEF PromptInv, PromptTypes
      <4> QED
        BY <1>0, <4>1 DEF PromptInv, NoneMissing, Told
    <3>2. CASE c # b
      <4>1. upto'[c] = upto[c] /\ copied'[c] = copied[c] /\ asm'[c] = asm[c]
        BY <2>4, <3>2 DEF PromptInv, PromptTypes
      <4> QED
        BY <4>1 DEF PromptInv, CopyHasRest
    <3> QED
      BY <3>1, <3>2
  <2> QED
    BY <2>2, <2>3, <2>5 DEF PromptInv
<1>3. ASSUME NEW b \in Builders, ReadChain(b)
      PROVE  PromptInv'
  <2>1. loaded' = TRUE /\ chain' = HotChain
    BY <1>0, <1>3, LoadReads DEF ReadChain, GetAll
  <2>2. window' = window /\ arrived' = arrived /\ forgotten' = forgotten /\ HotChain' = HotChain
    BY <1>3, <2>1 DEF ReadChain, HotChain
  <2>3. PromptTypes'
    BY <1>3 DEF ReadChain, PromptInv, PromptTypes
  <2>4. NoneMissing'
    BY <2>2 DEF PromptInv, NoneMissing, Told
  <2>5. CopyHasRest'
    <3> SUFFICES ASSUME NEW c \in Builders, asm'[c] = "describe"
                 PROVE  /\ upto'[c] <= arrived
                        /\ 1..upto'[c] \subseteq copied'[c] \cup Covered(HotChain) \cup forgotten
                        /\ window \cap 1..upto'[c] \subseteq copied'[c]
      BY <2>2 DEF CopyHasRest
    <3>1. c # b
      BY <1>3 DEF ReadChain, PromptInv, PromptTypes
    <3>2. upto'[c] = upto[c] /\ copied'[c] = copied[c] /\ asm'[c] = asm[c]
      BY <1>3, <3>1 DEF ReadChain, PromptInv, PromptTypes
    <3> QED
      BY <3>2 DEF PromptInv, CopyHasRest
  <2> QED
    BY <2>3, <2>4, <2>5 DEF PromptInv
<1>4. CASE UNCHANGED promptVars
  <2>1. /\ UNCHANGED <<asm, copied, upto, forgotten, window, arrived>>
        /\ HotChain' = HotChain
    BY <1>4 DEF promptVars, asmVars, vars, summaryVars, HotChain, Latest
  <2>2. PromptTypes' /\ NoneMissing'
    BY <2>1 DEF PromptInv, PromptTypes, NoneMissing, Told
  <2>3. CopyHasRest'
    BY <2>1 DEF PromptInv, CopyHasRest
  <2> QED
    BY <2>2, <2>3 DEF PromptInv
<1> QED
  BY <1>1, <1>2, <1>3, <1>4 DEF PromptNext

\* If every message has a MessageID of its own and the loads of the archive do not fail, a
\* prompt tells of every message that had arrived when it copied the window, in the copy
\* or in the chain it reads at the end, or the session has given the message up.
THEOREM PromptsHaveNoHole == OneEach /\ LoadMayFail = FALSE => (PromptSpec => PromptHasNoHole)
<1> SUFFICES ASSUME OneEach, LoadMayFail = FALSE
             PROVE  PromptSpec => PromptHasNoHole
  OBVIOUS
<1>1. CompressorInv /\ PromptInv /\ [PromptNext]_promptVars => PromptInv'
  BY PromptInvNext
<1>2. CompressorInv /\ PromptInv /\ [PromptNext]_promptVars =>
        [\A b \in Builders :
            ReadChain(b) =>
                1..upto[b] \subseteq copied[b] \cup Covered(chain') \cup forgotten]_promptVars
  <2> SUFFICES ASSUME CompressorInv, PromptInv, NEW b \in Builders, ReadChain(b)
               PROVE  1..upto[b] \subseteq copied[b] \cup Covered(chain') \cup forgotten
    OBVIOUS
  <2>1. chain' = HotChain
    BY LoadReads DEF ReadChain, GetAll, CompressorInv, LengthInv
  <2> QED
    BY <2>1 DEF ReadChain, PromptInv, CopyHasRest
<1>3. PromptSpec => []CompressorInv
  <2>1. Spec => []CompressorInv
    BY CompressorInvHolds
  <2> QED
    BY <2>1, PromptsUseTheCompressor
<1> QED
  BY <1>1, <1>2, <1>3, PromptInvInit, PTL DEF PromptSpec, PromptHasNoHole

=============================================================================
