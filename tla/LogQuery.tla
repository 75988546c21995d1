------------------------------ MODULE LogQuery ------------------------------
(***************************************************************************)
(* The log files and the log page of the admin pages: pkg/logger writes    *)
(* every level to a file of its own, lumberjack rotates them, and          *)
(* internal/infra/logfile reads a page of them for service/log and the web *)
(* handler.  The log page (static/index.html) loads pages one after the    *)
(* other, by offset, while the program goes on logging.                    *)
(*                                                                         *)
(* A query is not atomic: the directory is listed once, then the files are *)
(* opened one by one, by their paths and without a lock, so entries are    *)
(* written, files put aside and backups removed in between.                *)
(*                                                                         *)
(* zap stamps an entry before the file's writer is locked, so entries of   *)
(* several goroutines can be written in another order than their times.    *)
(* All times are distinct, of entries and of files.                        *)
(***************************************************************************)
EXTENDS Integers, FiniteSets, Sequences, SequencesExt

CONSTANTS Messages,     \* what may be logged: level, trace id, whether the line is too long
          Configured,   \* log.level of the configuration
          Requests,     \* what the log page may ask for
          DefaultLimit, \* entries of a page that names no limit (200 in the code)
          MaxLimit,     \* the most entries of a page (1000 in the code)
          Goroutines,   \* bound of the model: entries stamped and not yet written
          MaxEntries,   \* bound of the model: entries logged
          Slots,        \* bound of the model: the queries of the log page under way at once
          None

ASSUME LogAssumption ==
    /\ DefaultLimit \in Nat \ {0} /\ MaxLimit \in Nat \ {0}
    /\ None \notin Requests
    /\ \A r \in Requests :
        r.limit \in Int /\ \A t \in {r.begin, r.end} : t = None \/ t \in Int

VARIABLES threshold, \* levelAtom
          stamped,   \* the number of entries stamped
          pending,   \* entries stamped and not yet written
          files,     \* the files of the log directory
          wrote,     \* history: the entries in the order they were written, the clock of the files
          queries,   \* the queries under way
          applied,   \* what the last refresh of the log page asked for
          asked,     \* what the last page of the list was asked for
          view,      \* the entries of the list, in the order it shows them
          more,      \* has_more of its last page
          from,      \* history: how many entries were written when the list was refreshed
          steady     \* history: nothing got in the way of the queries of the list

log == <<threshold, stamped, pending, files, wrote>>
page == <<applied, asked, view, more>>
vars == <<log, page, queries, from, steady>>

LogLevel == {"debug", "info", "warn", "error"}

\* levelFiles: the names of the files that hold a level.
LevelFiles(level) == IF level = "error" THEN {"error", "fatal"} ELSE {level}
FileNames == UNION {LevelFiles(l) : l \in LogLevel}

Init ==
    /\ threshold = "info"
    /\ stamped = 0
    /\ pending = {}
    /\ files = {}
    /\ wrote = <<>>
    /\ queries = [s \in Slots |-> None]
    /\ applied = None
    /\ asked = None
    /\ view = <<>>
    /\ more = FALSE
    /\ from = 0
    /\ steady = FALSE

\* No query is under way.
Quiet == \A s \in Slots : queries[s] = None

-----------------------------------------------------------------------------
(* Writing. *)

\* main applies log.level when the configuration is loaded.
SetLevel ==
    /\ threshold # Configured
    /\ threshold' = Configured
    /\ UNCHANGED <<stamped, pending, files, wrote, page, queries, from, steady>>

Severity == [name \in FileNames |->
    CASE name = "debug" -> 0 [] name = "info" -> 1 [] name = "warn" -> 2
      [] name = "error" -> 3 [] name = "fatal" -> 4]

\* levelGate: a file takes its own level, if the threshold lets it; fatal always passes.
Enabled(name) == Severity[name] >= Severity[threshold]

Stamp ==
    /\ stamped < MaxEntries
    /\ Cardinality(pending) < Goroutines
    /\ \E m \in Messages :
        /\ Enabled(m.name)
        /\ pending' = pending \cup {[ts |-> stamped + 1, name |-> m.name, trace |-> m.trace,
                                     long |-> m.long]}
    /\ stamped' = stamped + 1
    /\ UNCHANGED <<threshold, files, wrote, page, queries, from, steady>>

Current(name) == {f \in files : f.name = name /\ ~f.backup}
FileWith(e, lines) == [name |-> e.name, backup |-> FALSE, mod |-> Len(wrote) + 1, lines |-> lines]

\* The line is appended to its file ...
Extend(e) ==
    \/ Current(e.name) = {} /\ files' = files \cup {FileWith(e, <<e>>)}
    \/ \E f \in Current(e.name) :
           files' = (files \ {f}) \cup {FileWith(e, Append(f.lines, e))}

\* ... or the file is full and is put aside as a backup under its time of modification.
Rotate(e) ==
    \E f \in Current(e.name) :
        files' = (files \ {f}) \cup {[f EXCEPT !.backup = TRUE], FileWith(e, <<e>>)}

\* A fatal entry ends the process.
Write(e) ==
    /\ e \in pending
    /\ pending' = IF e.name = "fatal" THEN {} ELSE pending \ {e}
    /\ threshold' = IF e.name = "fatal" THEN "info" ELSE threshold
    /\ wrote' = Append(wrote, e)
    /\ \/ Extend(e) /\ UNCHANGED steady
       \/ Rotate(e) /\ steady' = (steady /\ Quiet)
    /\ UNCHANGED <<stamped, page, queries, from>>

\* lumberjack removes the oldest backup of a level, when there are too many or it is too old.
Prune ==
    \E f \in files :
        /\ f.backup
        /\ \A g \in files : g.name = f.name /\ g.backup => f.mod <= g.mod
        /\ files' = files \ {f}
        /\ steady' = (steady /\ Quiet)
        /\ UNCHANGED <<threshold, stamped, pending, wrote, page, queries, from>>

-----------------------------------------------------------------------------
(* Reading. *)

\* parseLogQuery: levels that exist, no negative numbers, an end not before the begin.
Valid(r) ==
    /\ r.levels \subseteq LogLevel
    /\ r.limit >= 0
    /\ r.begin # None /\ r.end # None => r.end >= r.begin

\* Service.Query: no limit is the default one, and none is above the maximum.
Limit(r) == IF r.limit <= 0 THEN DefaultLimit
            ELSE IF r.limit > MaxLimit THEN MaxLimit ELSE r.limit

\* matchTime and matchTrace.
Matches(e, r) ==
    /\ r.begin # None => e.ts >= r.begin
    /\ r.end # None => e.ts <= r.end
    /\ r.trace # None => e.trace = r.trace

\* readLines: a line over the limit makes the whole file unreadable.
Readable(f) == \A i \in 1..Len(f.lines) : ~f.lines[i].long

NamesAsked(r) == UNION {LevelFiles(l) : l \in (IF r.levels = {} THEN LogLevel ELSE r.levels)}

\* Fault, for the checks: backups are not looked at.
CurrentFilesOnly(r) == {f \in files : f.name \in NamesAsked(r) /\ ~f.backup}

\* matchFiles: the files of the levels asked for, backups too, ...
MatchFiles(r) == {f \in files : f.name \in NamesAsked(r)}

\* A set in an order of its members.
InOrder(S, before) ==
    [k \in 1..Cardinality(S) |->
        CHOOSE x \in S : Cardinality({y \in S : <<y, x>> \in before}) = k - 1]

\* ... as paths, from the file written last to the one written first.  A backup has its time
\* in its name, the file that is written to has not.
Path(f) == <<f.name, IF f.backup THEN f.mod ELSE 0>>
Listed(r) ==
    LET found == MatchFiles(r)
        newest == InOrder(found, {p \in found \X found : p[1].mod > p[2].mod})
    IN  [k \in DOMAIN newest |-> Path(newest[k])]

\* A query: the request and its offset, whether it is a refresh, the paths still to be read,
\* and the entries collected.
Query(r, offset, fresh) ==
    [request |-> r, offset |-> offset, fresh |-> fresh, todo |-> Listed(r), matched |-> <<>>]

\* The collection ends when there is one entry more than the page needs.
Need(q) == Limit(q.request) + q.offset + 1

\* The scan of a file goes from its last line backwards, up to the first that is older than
\* the begin.
Reached(f, i, r) == r.begin # None => \A j \in i..Len(f.lines) : f.lines[j].ts >= r.begin
Scan(f, q) ==
    LET found == {i \in DOMAIN f.lines : Reached(f, i, q.request) /\ Matches(f.lines[i], q.request)}
        last == InOrder(found, {p \in found \X found : p[1] > p[2]})
        room == Need(q) - Len(q.matched)
    IN  [k \in 1..(IF Len(last) < room THEN Len(last) ELSE room) |-> f.lines[last[k]]]

\* The query goes on from the file it read or passed over.
Collects(s, entries) ==
    LET q == queries[s]
        matched == q.matched \o entries
    IN  /\ queries' = [queries EXCEPT ![s] =
                [q EXCEPT !.matched = matched,
                          !.todo = IF Len(matched) >= Need(q) THEN <<>> ELSE Tail(q.todo)]]
        /\ UNCHANGED <<log, page, from, steady>>

Reads(s) == queries[s] # None /\ queries[s].todo # <<>>
Opened(s) == {f \in files : Path(f) = Head(queries[s].todo) /\ Readable(f)}

\* The file that has the path now is read, if there is one and it can be read.
ReadFile(s) == Reads(s) /\ \E f \in Opened(s) : Collects(s, Scan(f, queries[s]))
SkipFile(s) == Reads(s) /\ Opened(s) = {} /\ Collects(s, <<>>)

\* Fault, for the checks: in the order of the scan.
AsCollected(entries) == entries

\* The stable sort by time: the places of a list, the newest first.
Before(entries) ==
    {p \in (DOMAIN entries) \X (DOMAIN entries) :
        LET one == entries[p[1]].ts
            other == entries[p[2]].ts
        IN  one > other \/ (one = other /\ p[1] < p[2])}

NewestFirst(entries) ==
    LET places == InOrder(DOMAIN entries, Before(entries))
    IN  [k \in DOMAIN places |-> entries[places[k]]]

\* What was collected, sorted and cut to the page.
Answer(q) ==
    LET matched == NewestFirst(q.matched)
        end == IF Len(matched) < q.offset + Limit(q.request) THEN Len(matched)
               ELSE q.offset + Limit(q.request)
    IN  [items |-> SubSeq(matched, q.offset + 1, end),
         more |-> Len(matched) > q.offset + Limit(q.request)]

Answered(s) == queries[s] # None /\ queries[s].todo = <<>>

\* refreshLogs: the list is emptied, and asked for anew.
Refresh(s, r) ==
    /\ queries[s] = None
    /\ Valid(r)
    /\ queries' = [queries EXCEPT ![s] = Query(r, 0, TRUE)]
    /\ applied' = r
    /\ asked' = None
    /\ view' = <<>>
    /\ more' = FALSE
    /\ from' = Len(wrote)
    /\ steady' = Quiet
    /\ UNCHANGED log

\* loadMoreLogs: a further page from where the list ends, by the range and the trace id that
\* the fields hold by now.
LoadMore(s, r) ==
    /\ queries[s] = None
    /\ more
    /\ Valid(r) /\ r.levels = applied.levels /\ r.limit = applied.limit
    /\ queries' = [queries EXCEPT ![s] = Query(r, Len(view), FALSE)]
    /\ steady' = (steady /\ Quiet /\ r.trace = asked.trace /\ r.end = asked.end)
    /\ UNCHANGED <<log, page, from>>

\* The page shows the answer, or says that there is none.
ShowAnswer(s) ==
    /\ Answered(s)
    /\ LET q == queries[s]
       IN  /\ asked' = q.request
           /\ view' = IF q.fresh THEN Answer(q).items ELSE view \o Answer(q).items
           /\ more' = Answer(q).more
    /\ queries' = [queries EXCEPT ![s] = None]
    /\ UNCHANGED <<log, applied, from, steady>>

QueryFails(s) ==
    /\ queries[s] # None
    /\ queries' = [queries EXCEPT ![s] = None]
    /\ UNCHANGED <<log, page, from, steady>>

Next ==
    \/ SetLevel
    \/ Stamp
    \/ \E e \in pending : Write(e)
    \/ Prune
    \/ \E s \in Slots :
        \/ \E r \in Requests : Refresh(s, r) \/ LoadMore(s, r)
        \/ ReadFile(s) \/ SkipFile(s) \/ ShowAnswer(s) \/ QueryFails(s)

Spec == Init /\ [][Next]_vars

-----------------------------------------------------------------------------
(* Properties. *)

\* The entries a request asks for that are on disk, in files that can be read.
Wanted(r) ==
    UNION {{f.lines[i] : i \in {k \in 1..Len(f.lines) : Matches(f.lines[k], r)}} :
              f \in {g \in files : g.name \in NamesAsked(r) /\ Readable(g)}}

OfOneFile(r) == \E l \in LogLevel \ {"error"} : r.levels = {l}

\* An entry was written after a later one of its level.
Overtaken ==
    \E j \in DOMAIN wrote : \E i \in 1..j :
        wrote[i].name = wrote[j].name /\ wrote[i].ts > wrote[j].ts

\* The entries written since the list was refreshed.
Later == {wrote[i] : i \in from + 1..Len(wrote)}

Oldest(entries) == entries[Len(entries)].ts

\* The log page asks for one level at a time and loads more by offset while the program
\* logs, and rotates and prunes between the queries: as long as no file is put aside or
\* removed while a query is under way, one query is answered before the next is made, the
\* trace id and the end of the range stay as they were - its begin may move -, entries are
\* written in the order of their times and the files can be read, nothing is missing between
\* its first entry and its last, and nothing at all of the range last asked for when it says
\* that there is no more.
OneLevelHasNoGap ==
    /\ steady /\ Quiet
    /\ asked # None /\ OfOneFile(asked)
    /\ ~Overtaken
    /\ \A f \in files : Readable(f)
    => \A e \in Wanted(asked) :
            \/ e \in ToSet(view)
            \/ e \in Later
            \/ more /\ (view = <<>> \/ e.ts < Oldest(view))

\* Every answer is in order, holds only what was asked for, each entry once, and is full when
\* there is more: whatever is written, rotated or removed while it is collected, and in
\* whatever order.
PagesAreSound ==
    \A s \in Slots : Answered(s) =>
        LET r == queries[s].request
            items == Answer(queries[s]).items
        IN  /\ \A i \in 1..Len(items) :
                    /\ items[i] \in ToSet(wrote)
                    /\ items[i].name \in NamesAsked(r) /\ Matches(items[i], r)
            /\ \A i \in 1..Len(items) - 1 : items[i].ts > items[i + 1].ts
            /\ Len(items) <= Limit(r)
            /\ Answer(queries[s]).more => Len(items) = Limit(r)

\* A first page holds the newest of the entries asked for, newest first.
FirstPageIsNewest ==
    \A s \in Slots : Answered(s) /\ queries[s].fresh /\ steady /\ ~Overtaken =>
        LET r == queries[s].request
            items == Answer(queries[s]).items
        IN  \A e \in Wanted(r) \ Later :
                \/ e \in ToSet(items)
                \/ Len(items) = Limit(r) /\ e.ts < Oldest(items)

=============================================================================
