------------------------------ MODULE Pipeline ------------------------------
(***************************************************************************)
(* The message pipeline of one session (internal/service/event over        *)
(* MemoryService.persist and BuildMessages): conversion (Message), log,    *)
(* rate limit, sensitive words (WordMatcher), persistence, then a plugin   *)
(* command or the agent's reply.                                           *)
(*                                                                         *)
(* Every message has a goroutine of its own and the pipeline holds no lock *)
(* between two steps, so handlers overtake one another anywhere.  What the *)
(* triggers, the limiter, the plugins and the model decide is left open    *)
(* (Control and Compressor model two of them); the contexts of handlers    *)
(* are never cancelled and always hold a Sender, so the branches for       *)
(* neither are modelled.                                                   *)
(***************************************************************************)
EXTENDS Integers, FiniteSets, Sequences, SequencesExt, Message, WordMatcher

CONSTANTS Messages,   \* inbound messages, one handler each
          NoID,       \* the MessageID of message_id 0, the empty string
          IdOf,       \* message |-> MessageID
          StampOf,    \* message |-> its author and second
          SensitiveWords, \* middleware.sensitive_words, as WordMatcher lists them
          Contents,   \* what a message may bring, as a sequence of segments, in lower case
          Outputs,    \* the texts the model may give out
          WindowCap,  \* upper bound of the window (100 in the code)
          MaxCrashes  \* bound of the model: crashes of the process

ASSUME PipelineAssumption ==
    /\ DOMAIN IdOf = Messages
    /\ DOMAIN StampOf = Messages
    /\ WindowCap \in Nat \ {0}
    /\ MaxCrashes \in Nat

\* The platform's MessageIDs are numbers, a reply's begins with self.
ASSUME IdsAssumption == \A m, k \in Messages : IdOf[m] # <<"self", k>>

\* A word is a sequence, of some length in bytes as it is listed, and so is a text.
ASSUME TextsAssumption ==
    /\ SensitiveWords \in Seq(ToSet(SensitiveWords))
    /\ \A l \in ToSet(SensitiveWords) :
        l = [lower |-> l.lower, size |-> l.size] /\ l.lower \in Seq(ToSet(l.lower)) /\ l.size \in Nat
    /\ \A content \in Contents :
        /\ content \in Seq(ToSet(content))
        /\ \A part \in ToSet(ToParts(content)) :
               part.type = "text" => part.text \in Seq(ToSet(part.text))

VARIABLES pc,       \* where the handler of each message is
          parts,    \* its parts, until the handler has no more use for them
          sensitive,\* history: the sensitive words that can be read in each message
          window,   \* the session's window, oldest first
          db,       \* the messages table
          prompt,   \* what each model call under way is given after the system text
          ledger,   \* the outcome lines logged for each message
          sent,     \* messages the agent's reply was sent to
          accounted,\* OnReplied calls for each message
          refused,  \* messages answered with a fixed text
          unsaved,  \* history: messages and replies whose SaveMessage failed
          evicted,  \* history: what a full window has lost
          crashes

inputs == <<parts, sensitive>>
vars == <<pc, inputs, window, db, prompt, ledger, sent, accounted, refused, unsaved,
          evicted, crashes>>

\* A user's message, and the bot's reply to it under its synthetic MessageID.
Said(m) == [msg |-> m, bot |-> FALSE]
Reply(m) == [msg |-> m, bot |-> TRUE]
EntryId(e) == IF e.bot THEN <<"self", e.msg>> ELSE IdOf[e.msg]

Init ==
    /\ pc = [m \in Messages |-> "new"]
    /\ parts = [m \in Messages |-> <<>>]
    /\ sensitive = [m \in Messages |-> {}]
    /\ window = <<>>
    /\ db = {}
    /\ prompt = [m \in Messages |-> <<>>]
    /\ ledger = [m \in Messages |-> <<>>]
    /\ sent = {}
    /\ accounted = [m \in Messages |-> 0]
    /\ refused = {}
    /\ unsaved = {}
    /\ evicted = {}
    /\ crashes = 0

Goto(m, step) == pc' = [pc EXCEPT ![m] = step]
LogOutcome(m, outcome) == ledger' = [ledger EXCEPT ![m] = Append(@, outcome)]

\* An outcome that ends the handler, and one that ends it without any other effect.
EndsWith(m, outcome) == LogOutcome(m, outcome) /\ Goto(m, "done")
JustEnds(m, outcome) ==
    /\ EndsWith(m, outcome)
    /\ UNCHANGED <<inputs, window, db, prompt, sent, accounted, refused, unsaved, evicted,
                   crashes>>
Continue(m, step) ==
    /\ Goto(m, step)
    /\ UNCHANGED <<inputs, window, db, prompt, ledger, sent, accounted, refused, unsaved,
                   evicted, crashes>>

-----------------------------------------------------------------------------
(* The middlewares. *)

\* An event that is no message of a group or a person is ignored ...
Ignore(m) == pc[m] = "new" /\ Continue(m, "ignored")

\* newSensitiveWordFilter.
Filter == New(SensitiveWords)
Words == Lowered(SensitiveWords)

\* The words that the model, or whoever takes the texts alone, can read in a message; one that
\* holds a mark, which the host puts in, counts in the texts only.
Readable(content) ==
    Occurring({w \in Words : ToSet(w) \cap Marks = {}}, ForLLM(content))
    \cup Occurring(Words, PlainText(content))

\* ... any other message is converted, and its entry line is logged.
Enter(m) ==
    /\ pc[m] = "new"
    /\ \E segments \in Contents :
        /\ parts' = [parts EXCEPT ![m] = ToParts(segments)]
        /\ sensitive' = [sensitive EXCEPT ![m] = Readable(ToParts(segments))]
    /\ Goto(m, "limit")
    /\ UNCHANGED <<window, db, prompt, ledger, sent, accounted, refused, unsaved, evicted,
                   crashes>>

\* The limiter grants a token within its waiting time ...
GetToken(m) == pc[m] = "limit" /\ Continue(m, "filter")

\* decideReply: the outcomes whose error the connection layer answers with a fixed text.
FixedText == {"rate_limited", "sensitive"}

\* The handler returns an error to the connection layer, which has the last word.
Refuse(m, outcome) ==
    /\ EndsWith(m, outcome)
    /\ refused' = IF outcome \in FixedText THEN refused \cup {m} ELSE refused
    /\ parts' = [parts EXCEPT ![m] = <<>>]
    /\ UNCHANGED <<sensitive, window, db, prompt, sent, accounted, unsaved, evicted, crashes>>

\* ... or not: the outcome is logged.
RateLimited(m) == pc[m] = "limit" /\ Refuse(m, "rate_limited")

\* Fault, for the checks: the filter looks at each part for itself.
FilterParts(m) ==
    /\ pc[m] = "filter"
    /\ IF \E i \in 1..Len(parts[m]) : Found(Find(Filter, PlainText(<<parts[m][i]>>)))
       THEN Refuse(m, "sensitive")
       ELSE Continue(m, "append")

\* The filter: a word anywhere in the text.
FilterWords(m) ==
    /\ pc[m] = "filter"
    /\ IF Found(Find(Filter, PlainText(parts[m])))
       THEN Refuse(m, "sensitive")
       ELSE Continue(m, "append")

-----------------------------------------------------------------------------
(* Persistence. *)

\* AppendToSession: a window over its bound loses its oldest entry.
PutInWindow(e) ==
    LET over == Len(window) + 1 - WindowCap
    IN  IF over > 0
        THEN /\ window' = Append(SubSeq(window, over + 1, Len(window)), e)
             /\ evicted' = evicted \cup {window[i] : i \in 1..over}
        ELSE /\ window' = Append(window, e)
             /\ UNCHANGED evicted

\* SaveMessage: INSERT OR IGNORE under the unique MessageID.
Inserted(e) == IF \E row \in db : EntryId(row) = EntryId(e) THEN db ELSE db \cup {e}

AppendMessage(m) ==
    /\ pc[m] = "append"
    /\ PutInWindow(Said(m))
    /\ Goto(m, "save")
    /\ UNCHANGED <<inputs, db, prompt, ledger, sent, accounted, refused, unsaved, crashes>>

\* parseCommand: the text without the blanks around it begins with a slash, and something
\* that is not blank follows.
IsCommand(t) ==
    LET marks == SelectSeq(t, LAMBDA c : c # " ")
    IN  Len(marks) > 1 /\ marks[1] = "/"

SaveMessage(m) ==
    /\ pc[m] = "save"
    /\ db' = Inserted(Said(m))
    /\ Goto(m, IF IsCommand(PlainText(parts[m])) THEN "dispatch" ELSE "judge")
    /\ parts' = [parts EXCEPT ![m] = <<>>]
    /\ UNCHANGED <<sensitive, window, prompt, ledger, sent, accounted, refused, unsaved,
                   evicted, crashes>>

\* The insert fails: the error goes up to the connection layer, which logs it and
\* has no fixed text for it.
SaveFails(m) ==
    /\ pc[m] = "save"
    /\ unsaved' = unsaved \cup {Said(m)}
    /\ Goto(m, "done")
    /\ parts' = [parts EXCEPT ![m] = <<>>]
    /\ UNCHANGED <<sensitive, window, db, prompt, ledger, sent, accounted, refused, evicted,
                   crashes>>

-----------------------------------------------------------------------------
(* Commands. *)

\* Fault, for the checks: a command that fails falls through to the triggers.
DispatchFallsThrough(m) ==
    /\ pc[m] = "dispatch"
    /\ \/ \E outcome \in {"command", "command_not_found"} : JustEnds(m, outcome)
       \/ /\ LogOutcome(m, "command_error")
          /\ Goto(m, "judge")
          /\ UNCHANGED <<inputs, window, db, prompt, sent, accounted, refused, unsaved, evicted,
                         crashes>>

\* /help is answered by the host, any other command by a plugin, by none, or with an
\* error.  The reply and the actions of a plugin leave no trace in the session, and
\* their failures are only logged; a command never reaches the triggers.
Dispatch(m) ==
    /\ pc[m] = "dispatch"
    /\ \E outcome \in {"command", "command_not_found", "command_error"} :
           JustEnds(m, outcome)

-----------------------------------------------------------------------------
(* respond. *)

\* Fault, for the checks: the reply is accounted when it is triggered.
JudgeAccounts(m) ==
    /\ pc[m] = "judge"
    /\ Goto(m, "build")
    /\ accounted' = [accounted EXCEPT ![m] = @ + 1]
    /\ UNCHANGED <<inputs, window, db, prompt, ledger, sent, refused, unsaved, evicted, crashes>>

\* ShouldReply decides whether the message is answered, or fails.
Judge(m) ==
    /\ pc[m] = "judge"
    /\ \/ Continue(m, "build")
       \/ \E outcome \in {"not_triggered", "control_error"} : JustEnds(m, outcome)

\* Fault, for the checks: the message stays where the window has it, too.
OthersAndItself(m, win) == win

\* A sequence of entries without those of a MessageID.
Without(id, win) ==
    LET kept[n \in 0..Len(win)] ==
            IF n = 0 THEN <<>>
            ELSE IF EntryId(win[n]) = id THEN kept[n - 1] ELSE Append(kept[n - 1], win[n])
    IN  kept[Len(win)]

\* BuildMessages leaves the message itself out of the window it has copied: by its
\* MessageID, or, for want of one, the last entry if it has its author and second ...
Others(m, win) ==
    IF IdOf[m] # NoID
    THEN Without(IdOf[m], win)
    ELSE IF win # <<>> /\ ~Last(win).bot /\ StampOf[Last(win).msg] = StampOf[m]
         THEN Front(win)
         ELSE win

\* ... and puts it at the end.
PromptOf(m, win) == Append(Others(m, win), Said(m))

Build(m) ==
    /\ pc[m] = "build"
    /\ prompt' = [prompt EXCEPT ![m] = PromptOf(m, window)]
    /\ Goto(m, "generate")
    /\ UNCHANGED <<inputs, window, db, ledger, sent, accounted, refused, unsaved, evicted,
                   crashes>>

\* What a run of the agent can bring: events with an output, an error, or neither.
Events == [kind : {"output"}, text : Outputs] \cup [kind : {"error", "other"}, text : {<<>>}]
Runs == BoundedSeq(Events, 2)

\* EinoAgent.Generate: the last output is the answer; an error, or no output, is a failure.
OutputsOf(run) == SelectSeq(run, LAMBDA event : event.kind = "output")
Fails(run) == OutputsOf(run) = <<>> \/ \E event \in ToSet(run) : event.kind = "error"
Answer(run) == Last(OutputsOf(run)).text

\* The model answers, with something to say or not, or fails.
Generate(m) ==
    /\ pc[m] = "generate"
    /\ prompt' = [prompt EXCEPT ![m] = <<>>]
    /\ \E run \in Runs :
        IF Fails(run) THEN EndsWith(m, "agent_fail")
        ELSE IF Blank(WithoutLabels(Answer(run))) THEN EndsWith(m, "empty_reply")
        ELSE Goto(m, "send") /\ UNCHANGED ledger
    /\ UNCHANGED <<inputs, window, db, sent, accounted, refused, unsaved, evicted, crashes>>

Send(m) ==
    /\ pc[m] = "send"
    /\ \/ /\ sent' = sent \cup {m}
          /\ Goto(m, "appendReply")
          /\ UNCHANGED <<inputs, window, db, prompt, ledger, accounted, refused, unsaved,
                         evicted, crashes>>
       \/ JustEnds(m, "send_fail")

\* Fault, for the checks: the reply is not written to the table.
AppendReplyOnly(m) ==
    /\ pc[m] = "appendReply"
    /\ PutInWindow(Reply(m))
    /\ Goto(m, "account")
    /\ UNCHANGED <<inputs, db, prompt, ledger, sent, accounted, refused, unsaved, crashes>>

\* The reply joins the window and the table of the session it answers.
AppendReply(m) ==
    /\ pc[m] = "appendReply"
    /\ PutInWindow(Reply(m))
    /\ Goto(m, "saveReply")
    /\ UNCHANGED <<inputs, db, prompt, ledger, sent, accounted, refused, unsaved, crashes>>

\* A failure to save it is only logged.
SaveReply(m) ==
    /\ pc[m] = "saveReply"
    /\ \/ db' = Inserted(Reply(m)) /\ UNCHANGED unsaved
       \/ unsaved' = unsaved \cup {Reply(m)} /\ UNCHANGED db
    /\ Goto(m, "account")
    /\ UNCHANGED <<inputs, window, prompt, ledger, sent, accounted, refused, evicted, crashes>>

\* OnReplied, whose failure is only logged too, and the outcome.
Account(m) ==
    /\ pc[m] = "account"
    /\ accounted' = [accounted EXCEPT ![m] = @ + 1]
    /\ EndsWith(m, "agent_replied")
    /\ UNCHANGED <<inputs, window, db, prompt, sent, refused, unsaved, evicted, crashes>>

-----------------------------------------------------------------------------
(* The environment. *)

\* A compression takes its batch, the oldest messages, out of the window.
Trim ==
    /\ Len(window) > 1
    /\ \E n \in 2..Len(window) : window' = SubSeq(window, n, Len(window))
    /\ UNCHANGED <<pc, inputs, db, prompt, ledger, sent, accounted, refused, unsaved, evicted,
                   crashes>>

\* The process dies with its handlers and its memory.
Crash ==
    /\ crashes < MaxCrashes
    /\ crashes' = crashes + 1
    /\ pc' = [m \in Messages |-> IF pc[m] \in {"new", "ignored", "done"} THEN pc[m] ELSE "lost"]
    /\ parts' = [m \in Messages |-> <<>>]
    /\ window' = <<>>
    /\ prompt' = [m \in Messages |-> <<>>]
    /\ UNCHANGED <<sensitive, db, ledger, sent, accounted, refused, unsaved, evicted>>

Handle(m) ==
    \/ Ignore(m) \/ Enter(m) \/ GetToken(m) \/ RateLimited(m) \/ FilterWords(m)
    \/ AppendMessage(m) \/ SaveMessage(m) \/ SaveFails(m)
    \/ Dispatch(m)
    \/ Judge(m) \/ Build(m) \/ Generate(m) \/ Send(m)
    \/ AppendReply(m) \/ SaveReply(m) \/ Account(m)

Next ==
    \/ \E m \in Messages : Handle(m)
    \/ Trim
    \/ Crash

Spec == Init /\ [][Next]_vars

-----------------------------------------------------------------------------
(* Properties. *)

\* The ledger accounts for every message: never two outcome lines, and one when the
\* handler has ended, unless the message could not be saved.
Accountable ==
    \A m \in Messages :
        /\ Len(ledger[m]) <= 1
        /\ pc[m] = "done" => Len(ledger[m]) = 1 \/ Said(m) \in unsaved

\* The messages in which a sensitive word can be read, but none that lower-casing shortens.
Sensitive ==
    {m \in Messages : sensitive[m] # {} /\ sensitive[m] \cap Shortened(Filter) = {}}

\* A message in which a sensitive word can be read, in one segment or across several, but none
\* that lower-casing shortens, or that the limiter has refused, leaves no trace: it is in no
\* window, table or prompt, its own or another message's, and is never answered.
RefusedLeavesNoTrace ==
    \A m \in Sensitive \cup refused :
        /\ m \notin sent
        /\ Said(m) \notin ToSet(window) \cup db
        /\ \A k \in Messages : Said(m) \notin ToSet(prompt[k])

\* A prompt asks for an answer to its own message: that message is the last of it and
\* is in it once, whatever has entered or left the window since it was appended.
PromptEndsWithMessage ==
    \A m \in Messages : prompt[m] # <<>> =>
        /\ Last(prompt[m]) = Said(m)
        /\ \A i \in 1..Len(prompt[m]) - 1 : prompt[m][i] # Said(m)

\* A reply is accounted at most once and only when it was sent; a handler that has sent
\* one ends with agent_replied, the reply accounted and its row stored or reported.
SentIsAccounted ==
    \A m \in Messages :
        /\ accounted[m] <= 1
        /\ accounted[m] = 1 => m \in sent
        /\ m \in sent /\ pc[m] = "done" =>
               /\ ledger[m] = <<"agent_replied">>
               /\ accounted[m] = 1
               /\ Reply(m) \in db \cup unsaved

\* What a full window loses is in the messages table, or will be as soon as its handler
\* gets there, unless the insert failed or the process died before it.
EvictedIsStored ==
    \A e \in evicted :
        \/ e \in db \cup unsaved
        \/ pc[e.msg] = "lost"
        \/ pc[e.msg] = IF e.bot THEN "saveReply" ELSE "save"

=============================================================================
