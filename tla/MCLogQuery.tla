----------------------------- MODULE MCLogQuery -----------------------------
(* LogQuery for TLC. *)
EXTENDS LogQuery

CONSTANTS t1, t2

\* Warnings of two sessions, one of them too long to be read back, and a fatal error.
MCMessages ==
    {[name |-> "warn", trace |-> t1, long |-> FALSE], [name |-> "fatal", trace |-> t1, long |-> FALSE],
     [name |-> "warn", trace |-> t2, long |-> TRUE]}

Ask(levels, trace, begin, end, limit) ==
    [levels |-> levels, trace |-> trace, begin |-> begin, end |-> end, limit |-> limit]

\* One level from a begin on that moves, a page by the default limit of one session until an
\* end, all levels, and a span that ends before it begins.
MCRequests == {Ask({"warn"}, None, None, None, 1), Ask({"warn"}, None, 2, None, 1),
               Ask({"warn"}, t1, None, 3, 0),
               Ask({}, None, None, None, 2), Ask({}, None, 3, 2, 1)}

=============================================================================
