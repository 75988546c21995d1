---------------------------- MODULE AdminConsole ----------------------------
(***************************************************************************)
(* The admin pages of the bot, as far as their requests depend on one      *)
(* another or on the start: the accounts and tokens (service/admin/auth.go,*)
(* pkg/jwt), the group's slang, which the agent learns and an administrator*)
(* reviews (service/admin/jargon.go, the learn_jargon tool), and the       *)
(* persona templates (service/admin/persona.go).  Startup is how the       *)
(* program comes up, first and after every crash.                          *)
(*                                                                         *)
(* Every request is a goroutine of its own.  A statement on the database   *)
(* is atomic, what lies between two of them is not: a request checks, and  *)
(* acts later on what it saw.  Requests that are refused at the door, by   *)
(* the limiter, the validation or verifyAuth, change nothing.              *)
(***************************************************************************)
EXTENDS Startup, FiniteSets

CONSTANTS Names, Passwords,
          Words,        \* what a group may say, one group
          MaxJargon,    \* maxJargonPerGroup (500 in the code)
          Texts,        \* persona templates an administrator may write
          TokenTTL,     \* admin.token_ttl_seconds, in ticks
          MaxRequests,  \* bound of the model: requests
          MaxTime       \* bound of the model: the clock

ASSUME AdminConsoleAssumption ==
    /\ None \notin Passwords /\ None \notin Texts
    /\ MaxRequests \in Nat

VARIABLES users,    \* admin_user: the password of a name, or None
          now,      \* the clock
          tokens,   \* the tokens issued
          jargon,   \* group_jargon: the status of a word
          requests, \* the requests
          early,    \* history: the requests that began before there was an account
          roomy,    \* history: those in whose life there was room for a word
          endorsed, \* history: the words someone may still be vouching for, see Endorsers
          written   \* history: the persona template an administrator wrote last

accounts == <<startVars, users, tokens>>
history == <<early, roomy, endorsed, written>>
vars == <<accounts, now, jargon, requests, history>>

Requests == 1..MaxRequests
Known == {w \in Words : jargon[w] # "absent"}

\* A request, by the step it is about to take.
Request(at, name, password, new, word) ==
    [at |-> at, name |-> name, password |-> password, new |-> new, word |-> word]
Unsent == Request("unsent", None, None, None, None)
Over == Request("over", None, None, None, None)
Live == {r \in Requests : requests[r].at \notin {"unsent", "over"}}

Init ==
    /\ StartInit
    /\ users = [n \in Names |-> None]
    /\ now = 0
    /\ tokens = {}
    /\ jargon = [w \in Words |-> "absent"]
    /\ requests = [r \in Requests |-> Unsent]
    /\ early = {}
    /\ roomy = {}
    /\ endorsed = {}
    /\ written = [a \in Agents |-> None]

-----------------------------------------------------------------------------
(* The process. *)

Start == StartStep /\ UNCHANGED <<users, tokens, now, jargon, requests, history>>

\* The process dies or fails to start, and its requests end with it.
Crash ==
    /\ Down
    /\ requests' = [r \in Requests |-> IF r \in Live THEN Over ELSE requests[r]]
    /\ UNCHANGED <<users, tokens, now, jargon, history>>

Tick ==
    /\ now < MaxTime
    /\ now' = now + 1
    /\ UNCHANGED <<accounts, jargon, requests, history>>

-----------------------------------------------------------------------------
(* Steps of a request. *)

\* Manager.Verify.
Verifies(t) == t.key = secret /\ now < t.expires

\* Manager.Sign.
Token(name) == [name |-> name, expires |-> now + TokenTTL, key |-> secret]

HasRoom(words) == IF Cardinality({w \in Words : words[w] # "absent"}) < MaxJargon
                  THEN Live ELSE {}

\* A request enters at its first statement.
Begin(request) ==
    /\ stage = "up"
    /\ \E r \in Requests :
        /\ requests[r] = Unsent
        /\ \A q \in 1..r - 1 : requests[q] # Unsent
        /\ requests' = [requests EXCEPT ![r] = request]
        /\ early' = IF \A n \in Names : users[n] = None THEN early \cup {r} ELSE early
        /\ roomy' = IF Cardinality(Known) < MaxJargon THEN roomy \cup {r} ELSE roomy
    /\ UNCHANGED <<accounts, now, jargon, written>>

\* Anyone may register or log in ...
BeginOpen ==
    /\ \E at \in {"register", "login"}, n \in Names, p \in Passwords :
        Begin(Request(at, n, p, None, None))
    /\ UNCHANGED endorsed

\* ... everything else needs a token: verifyAuth takes the operator from it.
BeginChange ==
    /\ \E t \in tokens, p \in Passwords, new \in Passwords :
        Verifies(t) /\ Begin(Request("change", t.name, p, new, None))
    /\ UNCHANGED endorsed

BeginReview ==
    \E at \in {"add", "delete", "confirm"}, w \in Words :
        /\ \E t \in tokens : Verifies(t)
        /\ Begin(Request(at, None, None, None, w))
        /\ endorsed' = IF at = "delete" THEN endorsed ELSE endorsed \cup {w}

BeginPersona ==
    /\ \E a \in Agents, text \in Texts :
        (\E t \in tokens : Verifies(t)) /\ Begin(Request("persona", a, None, text, None))
    /\ UNCHANGED endorsed

\* What a step of request r does to the requests: r goes on, or is over.
GoesTo(r, at) == requests' = [requests EXCEPT ![r].at = at]
Ends(r) == requests' = [requests EXCEPT ![r] = Over]

\* Any statement may fail, and its request with it.
StatementFails(r) ==
    /\ r \in Live
    /\ Ends(r)
    /\ UNCHANGED <<accounts, now, jargon, history>>

\* Fault, for the checks: the gate asks for the name only.
RegisterByName(r) ==
    /\ requests[r].at = "register"
    /\ IF users[requests[r].name] = None THEN GoesTo(r, "create") ELSE Ends(r)
    /\ UNCHANGED <<accounts, now, jargon, history>>

\* Register: closed when there is an account; then the password is hashed.
Register(r) ==
    /\ requests[r].at = "register"
    /\ IF \A n \in Names : users[n] = None THEN GoesTo(r, "create") ELSE Ends(r)
    /\ UNCHANGED <<accounts, now, jargon, history>>

\* CreateAdminUser: a name is unique.
Create(r) ==
    /\ requests[r].at = "create"
    /\ IF users[requests[r].name] = None
       THEN /\ users' = [users EXCEPT ![requests[r].name] = requests[r].password]
            /\ GoesTo(r, "issue")
       ELSE Ends(r) /\ UNCHANGED users
    /\ UNCHANGED <<startVars, tokens, now, jargon, history>>

\* Login: the account is read, and the hash that was read is compared.
Login(r) ==
    /\ requests[r].at = "login"
    /\ IF users[requests[r].name] = requests[r].password THEN GoesTo(r, "issue") ELSE Ends(r)
    /\ UNCHANGED <<accounts, now, jargon, history>>

\* issueToken.
Issue(r) ==
    /\ requests[r].at = "issue"
    /\ tokens' = tokens \cup {Token(requests[r].name)}
    /\ Ends(r)
    /\ UNCHANGED <<users, startVars, now, jargon, history>>

\* ChangePassword: the old password is compared with the hash that was read ...
Change(r) ==
    /\ requests[r].at = "change"
    /\ IF users[requests[r].name] = requests[r].password THEN GoesTo(r, "update") ELSE Ends(r)
    /\ UNCHANGED <<accounts, now, jargon, history>>

\* ... and the new one, by then hashed, is written.
Update(r) ==
    /\ requests[r].at = "update"
    /\ users' = [users EXCEPT ![requests[r].name] = requests[r].new]
    /\ Ends(r)
    /\ UNCHANGED <<startVars, tokens, now, jargon, history>>

\* UpsertPersona: one statement; prompts read the table each time.
WritePersona(r) ==
    /\ requests[r].at = "persona"
    /\ persona' = [persona EXCEPT ![requests[r].name] = requests[r].new]
    /\ written' = [written EXCEPT ![requests[r].name] = requests[r].new]
    /\ Ends(r)
    /\ UNCHANGED <<schema, recorded, conf, file, stage, applied, tx, keys, secret,
                   users, tokens, now, jargon, early, roomy, endorsed>>

-----------------------------------------------------------------------------
(* The group's slang. *)

SetJargon(words) == jargon' = words /\ roomy' = roomy \cup HasRoom(words)

\* Fault, for the checks: one word more than the limit.
AddToFull(r) ==
    /\ requests[r].at = "add"
    /\ IF Cardinality(Known) <= MaxJargon THEN GoesTo(r, "insert") ELSE Ends(r)
    /\ UNCHANGED <<accounts, now, jargon, history>>

\* AddJargon: refused when the group has as many words as it may have ...
Add(r) ==
    /\ requests[r].at = "add"
    /\ IF Cardinality(Known) < MaxJargon THEN GoesTo(r, "insert") ELSE Ends(r)
    /\ UNCHANGED <<accounts, now, jargon, history>>

\* Storage.AddJargon: a new word is pending, one that is there stays as it is.
WithWord(w) == [jargon EXCEPT ![w] = IF @ = "absent" THEN "pending" ELSE @]

\* ... then inserted ...
Insert(r) ==
    /\ requests[r].at = "insert"
    /\ SetJargon(WithWord(requests[r].word))
    /\ GoesTo(r, "confirm")
    /\ UNCHANGED <<accounts, now, early, endorsed, written>>

\* ... and confirmed, as ConfirmJargon does for a word of the agent.  A word that is gone
\* again stays away.
Confirm(r) ==
    /\ requests[r].at = "confirm"
    /\ SetJargon([jargon EXCEPT ![requests[r].word] =
                     IF @ = "absent" THEN "absent" ELSE "confirmed"])
    /\ Ends(r)
    /\ UNCHANGED <<accounts, now, early, endorsed, written>>

\* DeleteJargon: a word that is not there is not found.
Delete(r) ==
    /\ requests[r].at = "delete"
    /\ IF requests[r].word \in Known THEN GoesTo(r, "remove") ELSE Ends(r)
    /\ UNCHANGED <<accounts, now, jargon, history>>

\* History: after a word is deleted, only those vouch for it who were about to.
Endorsers(w) == {q \in Live : requests[q].word = w /\ requests[q].at \in {"add", "insert", "confirm"}}

Remove(r) ==
    /\ requests[r].at = "remove"
    /\ SetJargon([jargon EXCEPT ![requests[r].word] = "absent"])
    /\ endorsed' = IF Endorsers(requests[r].word) = {} THEN endorsed \ {requests[r].word}
                   ELSE endorsed
    /\ Ends(r)
    /\ UNCHANGED <<accounts, now, early, written>>

\* Fault, for the checks: a word that is learned again is as it was.
LearnConfirmed ==
    /\ Running
    /\ \E w \in Words : SetJargon([jargon EXCEPT ![w] = "confirmed"])
    /\ UNCHANGED <<accounts, now, requests, early, endorsed, written>>

\* learn_jargon: the agent's words are pending, and there is no limit to them.
Learn ==
    /\ Running
    /\ \E w \in Words : SetJargon(WithWord(w))
    /\ UNCHANGED <<accounts, now, requests, early, endorsed, written>>

-----------------------------------------------------------------------------
Serve(r) ==
    \/ Register(r) \/ Create(r) \/ Login(r) \/ Issue(r) \/ Change(r) \/ Update(r)
    \/ Add(r) \/ Insert(r) \/ Confirm(r) \/ Delete(r) \/ Remove(r) \/ WritePersona(r)
    \/ StatementFails(r)

Next ==
    \/ Start \/ Crash \/ Tick
    \/ BeginOpen \/ BeginChange \/ BeginReview \/ BeginPersona
    \/ \E r \in Requests : Serve(r)
    \/ Learn

Spec == Init /\ [][Next]_vars

-----------------------------------------------------------------------------
(* Properties. *)

\* A token holds until it expires: the program may be restarted, or fail to start, or die
\* at any point of creating its secret, and an administrator stays logged in.
TokensSurviveRestart ==
    \A t \in tokens : secret # None /\ now < t.expires => Verifies(t)

\* Registration closes for good with the first account: a request that begins when there
\* is one creates none, however registrations, crashes and failures follow one another.
RegistrationCloses ==
    [][\A r \in Requests :
          requests[r].at = "create" /\ users' # users /\ requests'[r].at = "issue"
          => r \in early]_vars

\* What an administrator wrote is what prompts say of the agent, whatever the operator
\* edits in config.yaml, however often the program is restarted, and however its starts end.
PersonaStands ==
    Running /\ written[AgentName(settings)] \notin {None, "blank"}
        => PersonaText = written[AgentName(settings)]

\* Only confirmed words enter a prompt.  A word the agent learns again after an
\* administrator deleted it is not confirmed, unless a request that adds or confirms it
\* was under way at the deletion or came after it.
ReviewHolds == \A w \in Words : jargon[w] = "confirmed" => w \in endorsed

\* An administrator adds no word to a group that was full for as long as the request
\* lived, whatever the agent learns and others delete meanwhile.
AddWithinCap ==
    [][\A r \in Requests :
          requests[r].at = "insert" /\ requests'[r].at = "confirm" /\ jargon' # jargon
          => r \in roomy]_vars

=============================================================================
