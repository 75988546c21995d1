----------------------------- MODULE MCCommands -----------------------------
(* Commands for TLC. *)
EXTENDS Commands

\* Two plugins of one name, that share a command, one whose name differs in case, and a
\* directory that cannot be loaded.
MCFolders ==
    <<[name |-> "a", commands |-> {"x"}, loadable |-> TRUE],
      [name |-> "b", commands |-> {"y"}, loadable |-> FALSE],
      [name |-> "a", commands |-> {"x", "z"}, loadable |-> TRUE],
      [name |-> "A", commands |-> {"z"}, loadable |-> TRUE]>>

\* Help for a name as it is written, for one of no plugin, and for a command.
MCTopics == {"A", "B", "z"}
MCFolded == [n \in {"a", "b", "A", "B", "z"} |->
                IF n \in {"a", "A"} THEN "a" ELSE IF n \in {"b", "B"} THEN "b" ELSE n]

Mute(duration) == [op |-> "mute", duration |-> duration]
Plain(op) == [op |-> op, duration |-> 0]

\* A mute that is too long and two actions after it, and an invalid one after another.
MCAnswers == {<<Mute(3), Plain("unmute"), Plain("kick")>>, <<Plain("set_card"), Mute(0), Mute(1)>>}

\* The tools of the agent differ in nothing but the call they end with.
MCActions == {Mute(1)}

=============================================================================
