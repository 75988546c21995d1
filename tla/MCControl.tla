----------------------------- MODULE MCControl -----------------------------
(* Control for TLC. *)
EXTENDS Control, TLC

CONSTANTS h1, h2

MCHandlers == {h1, h2}

\* Handlers are interchangeable.
HandlerSymmetry == Permutations(MCHandlers)

\* The rules in force: a cooldown of 1, a rest of 2 after 2 replies in a row.
MCConfig == [energyMax |-> 5, energyCost |-> 2, energyRecover |-> 1,
               energyThreshold |-> 1, cooldown |-> 1, limit |-> 2, rest |-> 2,
               short |-> 1, quietStart |-> 0, quietEnd |-> 0]
MCDefaults == NewRuleConfig(MCConfig)

Nothing == [name \in Params |-> IF name \in QuietBounds THEN Unset ELSE 0]

\* Rows of the admin pages: one that silences the group, one with a longer cooldown, a
\* rest after every cheaper reply and quiet hours around midnight, and one that is not valid.
MCRows == {Nothing @@ [mode |-> "mention"],
           [Nothing EXCEPT !.cooldown = 2, !.limit = 1, !.quietStart = 48, !.quietEnd = 1,
                           !.energyCost = 1]
               @@ [mode |-> "auto"],
           [Nothing EXCEPT !.cooldown = -1] @@ [mode |-> "auto"]}

NoRows == {}

\* A mention, a message that is too short and one that is long enough.
MCMessages == {[mentioned |-> TRUE, chars |-> 0], [mentioned |-> FALSE, chars |-> 0],
               [mentioned |-> FALSE, chars |-> 1]}

=============================================================================
