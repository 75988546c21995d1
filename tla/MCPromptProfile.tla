--------------------------- MODULE MCPromptProfile ---------------------------
(* PromptProfile, and with it ProfileCache, for TLC. *)
EXTENDS PromptProfile

CONSTANTS h1, h2, a1, a2, p1, p2, u1, u2, f1

MCHandlers == {h1, h2}
MCAdmins == {a1, a2}
MCProfiles == {p1, p2}
MCUsers == {u1, u2}
MCFacts == {f1}

=============================================================================
