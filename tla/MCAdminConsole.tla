--------------------------- MODULE MCAdminConsole ---------------------------
(* AdminConsole for TLC. *)
EXTENDS AdminConsole, TLC

MCTemplate ==
    [models |-> <<Model("chat", "openai", "m")>>, chat |-> "chat", vision |-> "",
     tools |-> {"store_fact"}, agent |-> "PlumeBot", prompt |-> "template", admin |-> TRUE,
     port |-> 9321, secret |-> ""]

\* Another agent, with the prompt of the code and the first model; the same agent with
\* another prompt, once more so that it cannot be built: the vision model has no name.
MCEdited ==
    {[MCTemplate EXCEPT !.agent = "other", !.prompt = "", !.chat = ""],
     [MCTemplate EXCEPT !.prompt = "edited", !.vision = "eye",
                        !.models = Append(@, Model("eye", "", ""))]}

MCEnvironment == [name \in {"chat"} |-> "k"]

MCSymmetry == Permutations(Names) \cup Permutations(Passwords) \cup Permutations(Words)

=============================================================================
