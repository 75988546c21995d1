------------------------ MODULE PromptProfileProofs ------------------------
(***************************************************************************)
(* Proofs about ProfileCache and PromptProfile, for every number of        *)
(* handlers, of admin requests and of members:                             *)
(*                                                                         *)
(*   - the cache is never stale once no invalidation is pending;           *)
(*   - a prompt shows the profile or has a reason not to;                  *)
(*   - turns and facts add nothing to what the profile cache does, so that *)
(*     the same holds beside them.                                         *)
(***************************************************************************)
EXTENDS PromptProfile, TLAPS

-----------------------------------------------------------------------------
(* The profile cache. *)

\* The handler that has queried holds the mutex, so that no invalidation falls between
\* its query and the entry it makes.
LockHeld == \A h \in Handlers : pc[h] \in {"query", "fill"} <=> lock = h

\* What a handler is about to enter is the row, or an invalidation will follow.
FillNotStale == \A h \in Handlers : pc[h] = "fill" => loaded[h] = row \/ Pending

\* A handler that is to build a prompt without an entry knows why there is none.
MissExplained == \A h \in Handlers : pc[h] = "build" /\ cache = Unknown => missed[h]

CacheInv == TypeOK /\ LockHeld /\ FillNotStale /\ NotStale /\ MissExplained

LEMMA CacheInvInit == Init => CacheInv
<1> USE ProfileAssumption DEF Init
<1>1. Init => LockHeld /\ FillNotStale /\ NotStale /\ MissExplained
  BY DEF LockHeld, FillNotStale, NotStale, MissExplained
<1>2. Init => TypeOK
  BY DEF TypeOK
<1> QED
  BY <1>1, <1>2 DEF CacheInv

LEMMA CacheInvNext == CacheInv /\ [Next]_vars => CacheInv'
<1> SUFFICES ASSUME CacheInv, [Next]_vars
             PROVE  CacheInv'
  OBVIOUS
<1> USE ProfileAssumption DEF CacheInv, TypeOK, Goto
<1>1. ASSUME NEW h \in Handlers, TouchHits(h)
      PROVE  CacheInv'
  BY <1>1 DEF TouchHits, LockHeld, FillNotStale, NotStale, MissExplained, Pending
<1>2. ASSUME NEW h \in Handlers, TouchMisses(h)
      PROVE  CacheInv'
  BY <1>2 DEF TouchMisses, LockHeld, FillNotStale, NotStale, MissExplained, Pending
<1>3. ASSUME NEW h \in Handlers, Query(h)
      PROVE  CacheInv'
  BY <1>3 DEF Query, LockHeld, FillNotStale, NotStale, MissExplained, Pending
<1>4. ASSUME NEW h \in Handlers, Fill(h)
      PROVE  CacheInv'
  <2>1. \A k \in Handlers : k # h => pc[k] \notin {"query", "fill"}
    BY <1>4 DEF Fill, LockHeld
  <2> QED
    BY <1>4, <2>1 DEF Fill, LockHeld, FillNotStale, NotStale, MissExplained, Pending
<1>5. ASSUME NEW h \in Handlers, QueryFails(h)
      PROVE  CacheInv'
  <2>1. \A k \in Handlers : k # h => pc[k] \notin {"query", "fill"}
    BY <1>5 DEF QueryFails, LockHeld
  <2> QED
    BY <1>5, <2>1 DEF QueryFails, LockHeld, FillNotStale, NotStale, MissExplained, Pending
<1>6. ASSUME NEW h \in Handlers, Build(h) \/ NoPrompt(h)
      PROVE  CacheInv'
  <2>1. CASE Build(h)
    BY <2>1 DEF Build, LockHeld, FillNotStale, NotStale, MissExplained, Pending
  <2>2. CASE NoPrompt(h)
    BY <2>2 DEF NoPrompt, LockHeld, FillNotStale, NotStale, MissExplained, Pending
  <2> QED
    BY <1>6, <2>1, <2>2
<1>7. ASSUME NEW a \in Admins, Write(a)
      PROVE  CacheInv'
  <2>1. Pending'
    BY <1>7 DEF Write, Pending
  <2> QED
    BY <1>7, <2>1 DEF Write, LockHeld, FillNotStale, NotStale, MissExplained
<1>8. ASSUME NEW a \in Admins, Invalidate(a)
      PROVE  CacheInv'
  <2>1. \A h \in Handlers : pc[h] \notin {"query", "fill"}
    BY <1>8 DEF Invalidate, LockHeld
  <2> QED
    BY <1>8, <2>1 DEF Invalidate, LockHeld, FillNotStale, NotStale, MissExplained
<1>9. CASE Crash
  BY <1>9 DEF Crash, LockHeld, FillNotStale, NotStale, MissExplained
<1>10. CASE UNCHANGED vars
  BY <1>10 DEF vars, LockHeld, FillNotStale, NotStale, MissExplained, Pending
<1> QED
  BY <1>1, <1>2, <1>3, <1>4, <1>5, <1>6, <1>7, <1>8, <1>9, <1>10 DEF Next, Handle

\* Every variable of the profile cache stays in its set.
THEOREM ProfileTypeCorrect == Spec => []TypeOK
<1>1. CacheInv => TypeOK
  BY DEF CacheInv
<1> QED
  BY CacheInvInit, CacheInvNext, <1>1, PTL DEF Spec

\* An entry that differs from the row has an invalidation still to come.
THEOREM CacheNotStale == Spec => []NotStale
<1>1. CacheInv => NotStale
  BY DEF CacheInv
<1> QED
  BY CacheInvInit, CacheInvNext, <1>1, PTL DEF Spec

\* A prompt shows the group's profile, or an invalidation or a failed query explains
\* why it does not.
THEOREM PromptsShowProfile == Spec => PromptShowsProfile
<1>1. CacheInv /\ [Next]_vars =>
        [\A h \in Handlers : Build(h) =>
             Shown = row \/ Pending \/ (Shown = None /\ missed[h])]_vars
  BY DEF CacheInv, NotStale, MissExplained, Build, Shown
<1> QED
  BY CacheInvInit, CacheInvNext, <1>1, PTL DEF Spec, PromptShowsProfile

-----------------------------------------------------------------------------
(* Turns and facts. *)

\* Every behaviour with turns and facts is one of the profile cache.
THEOREM PromptsUseTheCache == PromptSpec => Spec
<1>1. PromptInit => Init
  BY DEF PromptInit
<1>2. [PromptNext]_allVars => [Next]_vars
  <2> SUFFICES ASSUME PromptNext
               PROVE  [Next]_vars
    BY DEF allVars
  <2>1. ASSUME NEW h \in Handlers, GroupMessage(h)
        PROVE  Next
    BY <2>1 DEF GroupMessage, Next, Handle
  <2>2. ASSUME NEW h \in Handlers, ReadProfile(h)
        PROVE  Next
    BY <2>2 DEF ReadProfile, Next, Handle
  <2>3. ASSUME NEW h \in Handlers,
               \/ PrivateMessage(h) \/ StoreFact(h) \/ ForgetFact(h) \/ EndTurn(h)
               \/ \E u \in Users : ListFacts(h, u)
        PROVE  UNCHANGED vars
    BY <2>3 DEF PrivateMessage, StoreFact, ForgetFact, EndTurn, ListFacts
  <2>4. CASE AddMemberFact \/ DeleteMemberFact
    BY <2>4 DEF AddMemberFact, DeleteMemberFact
  <2>5. CASE ProfileStep
    BY <2>5 DEF ProfileStep, Next, Handle
  <2>6. CASE PromptCrash
    BY <2>6 DEF PromptCrash, Next
  <2> QED
    BY <2>1, <2>2, <2>3, <2>4, <2>5, <2>6 DEF PromptNext
<1> QED
  BY <1>1, <1>2, PTL DEF PromptSpec, Spec

=============================================================================
