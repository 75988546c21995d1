---------------------------- MODULE PromptProfile ----------------------------
(***************************************************************************)
(* What a prompt says about a session: the profile of the group            *)
(* (ProfileCache) and what is known of the members (member_facts), in the  *)
(* order of buildProfileText (service/memory/builder.go).                  *)
(*                                                                         *)
(* The facts are written by the turns of the agent, with the tools         *)
(* store_fact and forget_fact (infra/ai/tools/memory_tools.go), and by the *)
(* admin pages (service/admin/memberfact.go).  One set of tools serves     *)
(* every turn, of the group and of private chats, at the same time; the    *)
(* session a tool writes to comes with the context of the call.  All       *)
(* private chats have the one group_id "".                                 *)
(*                                                                         *)
(* Abstracted: the wording, and the caps on facts and jargon, which leave  *)
(* lines out of a prompt.                                                  *)
(***************************************************************************)
EXTENDS ProfileCache

CONSTANTS Users,     \* members of the group, who also write in private
          FactTexts  \* what may be told about them

\* The group_id of the group, and of a private chat.
Group == "group"
Private == ""

Rows == [group : {Group, Private}, user : Users, fact : FactTexts]

VARIABLES facts,  \* the member_facts table
          turn    \* what each handler is at, after the group's profile or in a private chat

factVars == <<facts, turn>>
allVars == <<vars, factVars>>

\* A turn: its step, its session, and the members whose facts are yet to be listed.
Turn(at, group, members) == [at |-> at, group |-> group, members |-> members]
Over == Turn("over", Group, {})

PromptInit ==
    /\ Init
    /\ facts = {}
    /\ turn = [h \in Handlers |-> Over]

Becomes(h, t) == turn' = [turn EXCEPT ![h] = t]

-----------------------------------------------------------------------------
(* The prompt. *)

\* A handler that is done takes a message of the group ...
GroupMessage(h) ==
    /\ turn[h] = Over
    /\ TouchHits(h) \/ TouchMisses(h)
    /\ UNCHANGED factVars

\* ... or of a private chat, which has no profile: the one to be asked about is its user.
PrivateMessage(h) ==
    /\ turn[h] = Over /\ pc[h] = "idle"
    /\ \E u \in Users : Becomes(h, Turn("list", Private, {u}))
    /\ UNCHANGED <<vars, facts>>

\* The group's profile is read, then the facts of whoever wrote in the window the prompt
\* has copied (windowMembers).  Its own author may have left the window before.
ReadProfile(h) ==
    /\ Build(h)
    /\ \E members \in SUBSET Users :
           Becomes(h, Turn(IF members = {} THEN "think" ELSE "list", Group, members))
    /\ UNCHANGED facts

\* The facts of one member in the turn's session (ListMemberFacts) go into the prompt as they
\* are.  A failed query leaves the member out; either way the next one follows.
ListFacts(h, u) ==
    /\ turn[h].at = "list" /\ u \in turn[h].members
    /\ LET left == turn[h].members \ {u}
       IN  Becomes(h, Turn(IF left = {} THEN "think" ELSE "list", turn[h].group, left))
    /\ UNCHANGED <<vars, facts>>

-----------------------------------------------------------------------------
(* The tools of a turn. *)

\* The user is the one the model names, or the speaker; the group is that of the session
\* in the context (sessionFrom).
Subject(h) == [group : {turn[h].group}, user : Users, fact : FactTexts]

StoreFact(h) ==
    /\ turn[h].at = "think"
    /\ \E r \in Subject(h) : facts' = facts \cup {r}
    /\ UNCHANGED <<vars, turn>>

ForgetFact(h) ==
    /\ turn[h].at = "think"
    /\ \E r \in Subject(h) \cap facts : facts' = facts \ {r}
    /\ UNCHANGED <<vars, turn>>

\* The model has answered, or failed.
EndTurn(h) ==
    /\ turn[h].at = "think"
    /\ Becomes(h, Over)
    /\ UNCHANGED <<vars, facts>>

-----------------------------------------------------------------------------
(* The admin pages. *)

AddMemberFact ==
    /\ \E r \in Rows : facts' = facts \cup {r}
    /\ UNCHANGED <<vars, turn>>

\* The row is looked for first; the deletion is one statement, and deletes nothing if the row
\* has gone in between.
DeleteMemberFact ==
    /\ \E r \in facts : facts' = facts \ {r}
    /\ UNCHANGED <<vars, turn>>

-----------------------------------------------------------------------------

\* The other steps of the handlers and of the profile's administrators.
ProfileStep ==
    /\ \/ \E h \in Handlers : Query(h) \/ Fill(h) \/ QueryFails(h) \/ NoPrompt(h)
       \/ \E a \in Admins : Write(a) \/ Invalidate(a)
    /\ UNCHANGED factVars

\* The tables stay.
PromptCrash ==
    /\ Crash
    /\ turn' = [h \in Handlers |-> Over]
    /\ UNCHANGED facts

PromptNext ==
    \/ \E h \in Handlers :
        \/ GroupMessage(h) \/ PrivateMessage(h) \/ ReadProfile(h)
        \/ \E u \in Users : ListFacts(h, u)
        \/ StoreFact(h) \/ ForgetFact(h) \/ EndTurn(h)
    \/ AddMemberFact \/ DeleteMemberFact
    \/ ProfileStep
    \/ PromptCrash

PromptSpec == PromptInit /\ [][PromptNext]_allVars /\ Fairness

=============================================================================
