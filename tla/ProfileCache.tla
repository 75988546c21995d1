---------------------------- MODULE ProfileCache ----------------------------
(***************************************************************************)
(* The profile of one group: its row, the cache that prompts read          *)
(* (internal/service/memory/profile.go) and the admin operations that      *)
(* write the row and then invalidate the cache (internal/service/admin).   *)
(*                                                                         *)
(* The handler of a message touches the cache after the message is saved   *)
(* and reads it when the prompt is built, which may be much later.  The    *)
(* cache's mutex is held over the query of a touch that misses; an admin   *)
(* operation writes the row without it and takes it to invalidate.         *)
(***************************************************************************)
EXTENDS Integers

CONSTANTS Handlers,  \* message handlers of the group that can be at work at a time
          Admins,    \* admin requests that can be at work at a time
          Profiles,  \* contents of a profile
          None,      \* no row; nobody
          Unknown    \* no entry in the cache

ASSUME ProfileAssumption ==
    /\ None \notin Profiles \cup Handlers
    /\ Unknown \notin Profiles \cup {None}

VARIABLES row,      \* the group_profile row, or None
          cache,    \* groups[gid]: Unknown, None (queried, there is none) or a profile
          lock,     \* the handler that holds ProfileCache.mu over a query, or None
          pc,       \* where each handler is
          loaded,   \* what its query has returned
          task,     \* where each admin request is
          missed    \* history: since the touch of each handler the cache was invalidated,
                    \* or its query has failed

vars == <<row, cache, lock, pc, loaded, task, missed>>

Init ==
    /\ row = None
    /\ cache = Unknown
    /\ lock = None
    /\ pc = [h \in Handlers |-> "idle"]
    /\ loaded = [h \in Handlers |-> None]
    /\ task = [a \in Admins |-> "idle"]
    /\ missed = [h \in Handlers |-> FALSE]

Goto(h, step) == pc' = [pc EXCEPT ![h] = step]

-----------------------------------------------------------------------------
(* Handlers. *)

\* TouchMessage finds an entry ...
TouchHits(h) ==
    /\ pc[h] = "idle"
    /\ lock = None
    /\ cache # Unknown
    /\ Goto(h, "build")
    /\ missed' = [missed EXCEPT ![h] = FALSE]
    /\ UNCHANGED <<row, cache, lock, loaded, task>>

\* ... or none, and keeps the mutex for the query.
TouchMisses(h) ==
    /\ pc[h] = "idle"
    /\ lock = None
    /\ cache = Unknown
    /\ lock' = h
    /\ Goto(h, "query")
    /\ missed' = [missed EXCEPT ![h] = FALSE]
    /\ UNCHANGED <<row, cache, loaded, task>>

\* GetGroupProfile returns the row, or that there is none ...
Query(h) ==
    /\ pc[h] = "query"
    /\ loaded' = [loaded EXCEPT ![h] = row]
    /\ Goto(h, "fill")
    /\ UNCHANGED <<row, cache, lock, task, missed>>

\* ... and either answer is cached.
Fill(h) ==
    /\ pc[h] = "fill"
    /\ cache' = loaded[h]
    /\ loaded' = [loaded EXCEPT ![h] = None]
    /\ lock' = None
    /\ Goto(h, "build")
    /\ UNCHANGED <<row, task, missed>>

\* Fault, for the checks: an error is taken for the answer that there is no profile.
QueryFailureCached(h) ==
    /\ pc[h] = "query"
    /\ lock' = None
    /\ cache' = None
    /\ Goto(h, "build")
    /\ UNCHANGED <<row, loaded, task, missed>>

\* An error is not cached: the next message tries again.
QueryFails(h) ==
    /\ pc[h] = "query"
    /\ lock' = None
    /\ missed' = [missed EXCEPT ![h] = TRUE]
    /\ Goto(h, "build")
    /\ UNCHANGED <<row, cache, loaded, task>>

\* buildProfileText: a group without an entry has no profile in the prompt.
Shown == IF cache = Unknown THEN None ELSE cache

Build(h) ==
    /\ pc[h] = "build"
    /\ lock = None
    /\ Goto(h, "idle")
    /\ missed' = [missed EXCEPT ![h] = FALSE]
    /\ UNCHANGED <<row, cache, lock, loaded, task>>

\* The message is answered without a prompt: a command, or a rule forbids a reply.
NoPrompt(h) ==
    /\ pc[h] = "build"
    /\ Goto(h, "idle")
    /\ missed' = [missed EXCEPT ![h] = FALSE]
    /\ UNCHANGED <<row, cache, lock, loaded, task>>

-----------------------------------------------------------------------------
(* Admin requests. *)

\* Fault, for the checks: the request ends without an invalidation.
WriteOnly(a) ==
    /\ task[a] = "idle"
    /\ \/ row' \in Profiles
       \/ row # None /\ row' = None
    /\ UNCHANGED <<cache, lock, pc, loaded, task, missed>>

\* The row is written, or deleted if there is one; an error ends the request here.
Write(a) ==
    /\ task[a] = "idle"
    /\ \/ row' \in Profiles
       \/ row # None /\ row' = None
    /\ task' = [task EXCEPT ![a] = "invalidate"]
    /\ UNCHANGED <<cache, lock, pc, loaded, missed>>

\* Fault, for the checks: the invalidation does not wait for a query under way.
InvalidateAtOnce(a) ==
    /\ task[a] = "invalidate"
    /\ cache' = Unknown
    /\ task' = [task EXCEPT ![a] = "idle"]
    /\ missed' = [h \in Handlers |-> TRUE]
    /\ UNCHANGED <<row, lock, pc, loaded>>

\* Invalidate: the entry goes, also one that says there is no profile.
Invalidate(a) ==
    /\ task[a] = "invalidate"
    /\ lock = None
    /\ cache' = Unknown
    /\ task' = [task EXCEPT ![a] = "idle"]
    /\ missed' = [h \in Handlers |-> TRUE]
    /\ UNCHANGED <<row, lock, pc, loaded>>

\* The process dies and starts again; the row stays.
Crash ==
    /\ cache' = Unknown
    /\ lock' = None
    /\ pc' = [h \in Handlers |-> "idle"]
    /\ loaded' = [h \in Handlers |-> None]
    /\ task' = [a \in Admins |-> "idle"]
    /\ missed' = [h \in Handlers |-> FALSE]
    /\ UNCHANGED row

Handle(h) ==
    \/ TouchHits(h) \/ TouchMisses(h) \/ Query(h) \/ Fill(h) \/ QueryFails(h)
    \/ Build(h) \/ NoPrompt(h)

Next ==
    \/ \E h \in Handlers : Handle(h)
    \/ \E a \in Admins : Write(a) \/ Invalidate(a)
    \/ Crash

Spec == Init /\ [][Next]_vars

\* A query returns, and a request that waits for the mutex gets it: Go hands a mutex
\* that is fought over to the goroutine that has waited for long.
Fairness ==
    /\ \A h \in Handlers : WF_vars(Query(h)) /\ WF_vars(Fill(h))
    /\ \A a \in Admins : SF_vars(Invalidate(a))

LiveSpec == Spec /\ Fairness

-----------------------------------------------------------------------------
(* Properties. *)

Pending == \E a \in Admins : task[a] = "invalidate"

TypeOK ==
    /\ row \in Profiles \cup {None}
    /\ cache \in Profiles \cup {None, Unknown}
    /\ lock \in Handlers \cup {None}
    /\ pc \in [Handlers -> {"idle", "query", "fill", "build"}]
    /\ loaded \in [Handlers -> Profiles \cup {None}]
    /\ task \in [Admins -> {"idle", "invalidate"}]
    /\ missed \in [Handlers -> BOOLEAN]

\* The cache is never stale once the admin request that wrote has returned: an entry
\* that differs from the row has an invalidation still to come, whatever query was
\* under way when the row was written.
NotStale == cache # Unknown => cache = row \/ Pending

\* A prompt shows the group's profile as it is, unless an admin request is about to
\* invalidate it; it shows none in its place only if the cache was invalidated, or the
\* query failed, after the handler's touch.
PromptShowsProfile ==
    [][\A h \in Handlers : Build(h) =>
           Shown = row \/ Pending \/ (Shown = None /\ missed[h])]_vars

\* A stale entry goes away.
StaleEntryGoes == cache \notin {Unknown, row} ~> cache \in {Unknown, row}

=============================================================================
