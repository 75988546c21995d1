-------------------------- MODULE ImageDescriptions --------------------------
(***************************************************************************)
(* Lazy description of the images of a session: describeMessage of the     *)
(* prompt builder (internal/service/memory) over the describer with its    *)
(* cache of answers and its cooldown after failures (internal/infra/ai).   *)
(*                                                                         *)
(* Every prompt under construction works on a deep copy of the window it   *)
(* has taken once; no lock is held over a download or a model call, so two *)
(* constructions that describe the same message interleave freely.  A      *)
(* message is modelled by the images it has, and a copy of it, or its row, *)
(* by the positions of the images that have a description there.           *)
(*                                                                         *)
(* Left out: images without any source, which fail at once and leave no    *)
(* trace, and the window beyond describe_recent_rounds.                    *)
(***************************************************************************)
EXTENDS Integers, FiniteSets, Sequences, SequencesExt, Message

CONSTANTS Callers,     \* prompts under construction at a time
          Session,     \* the messages with images, oldest first
          ImagesOf,    \* message |-> its images, in order, as Message converts them
          HasId,       \* message |-> whether it has a MessageID
          PerTurnCap,  \* images of a message described in one go at most
          CacheCap,    \* bound of the cache and of the failure table (2000)
          RetryAfter,  \* length of the cooldown after a failure (60 seconds)
          StoreMayFail,\* whether UpdateMessageParts can return an error
          MaxTime,     \* bound of the model: the clock's last value
          MaxTrims     \* bound of the model: messages that leave the window

Messages == ToSet(Session)

ASSUME ImagesAssumption ==
    /\ Session \in Seq(Messages)
    /\ \A m \in Messages : ImagesOf[m] \in Seq(ToSet(ImagesOf[m]))
    /\ \A m \in Messages : \A img \in ToSet(ImagesOf[m]) :
           img.url # <<>> /\ img.hash \in {NoHash, Digest(img.content)}
    /\ HasId \in [Messages -> BOOLEAN]
    /\ PerTurnCap \in Nat \ {0} /\ CacheCap \in Nat \ {0} /\ RetryAfter \in Nat \ {0}
    /\ StoreMayFail \in BOOLEAN
    /\ MaxTime \in Nat /\ MaxTrims \in Nat

VARIABLES now,     \* the clock
          cache,   \* keys with a description in `cache`
          fails,   \* key |-> the time it may be retried, 0 for a key not in `fails`
          window,  \* message in the window |-> positions described there
          row,     \* message |-> positions described in its row
          pc,      \* where each caller is
          todo,    \* the images it has yet to look at, by their places
          count,   \* those of the current message it has described
          copy,    \* its copies of the messages
          key,     \* the key of the current image
          trims,
          told,    \* history: the keys the model has given a description for
          due      \* history: key |-> the end of the cooldown its last failure calls for

memo == <<cache, fails, told, due>>
session == <<window, row, trims>>
locals == <<pc, todo, count, copy, key>>
vars == <<now, memo, session, locals>>

Steps == {"idle", "lookup", "fetch", "ask", "persist", "backfill"}

\* The place of an image: the number of its message, and its own among the message's images.
Places == UNION {{<<i, j>> : j \in DOMAIN ImagesOf[Session[i]]} : i \in DOMAIN Session}
MessageAt(place) == Session[place[1]]
Image(place) == ImagesOf[MessageAt(place)][place[2]]

\* The loops go through the messages in order, and through the images of each.
First(places) ==
    CHOOSE p \in places :
        \A q \in places : p[1] < q[1] \/ (p[1] = q[1] /\ p[2] <= q[2])
Place(c) == First(todo[c])

\* imageContentKey: the hash of the content if the part carries it, else the URL.
KeyOf(img) == IF img.hash # NoHash THEN img.hash ELSE <<"url", img.url>>
Keys == LET images == UNION {ToSet(ImagesOf[m]) : m \in Messages}
        IN  {KeyOf(i) : i \in images} \cup {Digest(i.content) : i \in images}

NoKey == <<>>

Init ==
    /\ now = 0
    /\ cache = {} /\ told = {}
    /\ fails = [k \in Keys |-> 0]
    /\ due = [k \in Keys |-> 0]
    /\ window = [m \in Messages |-> {}]
    /\ row = [m \in Messages |-> {}]
    /\ pc = [c \in Callers |-> "idle"]
    /\ todo = [c \in Callers |-> {}]
    /\ count = [c \in Callers |-> 0]
    /\ copy = [c \in Callers |-> <<>>]
    /\ key = [c \in Callers |-> NoKey]
    /\ trims = 0

Goto(c, step) == pc' = [pc EXCEPT ![c] = step]

-----------------------------------------------------------------------------
(* describeCandidates and the loop of describeMessage. *)

\* The images of the copies that have no description yet.
Undescribed(copies) ==
    {p \in Places : MessageAt(p) \in DOMAIN copies /\ p[2] \notin copies[MessageAt(p)]}

\* A prompt for message cur takes its copy of the window; cur comes with it, as it
\* was received, if the window has lost it.
Assemble(c) ==
    /\ pc[c] = "idle"
    /\ \E cur \in Messages :
        LET copies == [m \in DOMAIN window \cup {cur} |->
                           IF m \in DOMAIN window THEN window[m] ELSE {}]
            places == Undescribed(copies)
        IN  /\ places # {}
            /\ copy' = [copy EXCEPT ![c] = copies]
            /\ todo' = [todo EXCEPT ![c] = places]
            /\ key' = [key EXCEPT ![c] = KeyOf(Image(First(places)))]
    /\ Goto(c, "lookup")
    /\ UNCHANGED <<now, memo, session, count>>

\* The loop goes on with the next image: of the next message, once n images of this
\* one are described and that is the cap.
NextImage(c, n) ==
    LET place == Place(c)
        rest  == IF n >= PerTurnCap
                 THEN {p \in todo[c] : p[1] # place[1]}
                 ELSE todo[c] \ {place}
    IN  /\ todo' = [todo EXCEPT ![c] = rest]
        /\ count' = [count EXCEPT ![c] =
                        IF rest # {} /\ First(rest)[1] = place[1] THEN n ELSE 0]
        /\ IF rest = {}
           THEN /\ Goto(c, "idle")
                /\ key' = [key EXCEPT ![c] = NoKey]
                /\ copy' = [copy EXCEPT ![c] = <<>>]
           ELSE /\ Goto(c, "lookup")
                /\ key' = [key EXCEPT ![c] = KeyOf(Image(First(rest)))]
                /\ UNCHANGED copy

-----------------------------------------------------------------------------
(* Describe. *)

\* lookupDesc, in the order of its checks: a cached description ...
Described(c) ==
    /\ copy' = [copy EXCEPT ![c][MessageAt(Place(c))] = @ \cup {Place(c)[2]}]
    /\ Goto(c, "persist")
    /\ UNCHANGED <<todo, count, key>>

Cooled(k) == now < fails[k]

Hit(c) ==
    /\ pc[c] = "lookup"
    /\ key[c] \in cache
    /\ Described(c)
    /\ UNCHANGED <<now, memo, session>>

\* ... a key that failed a short time ago ...
Skip(c) ==
    /\ pc[c] = "lookup"
    /\ key[c] \notin cache
    /\ Cooled(key[c])
    /\ NextImage(c, count[c])
    /\ UNCHANGED <<now, memo, session>>

\* isRemoteURL.
Remote(img) == img.url[1] = "http"

\* ... or neither.  An image known by its URL only is downloaded first.
Miss(c) ==
    /\ pc[c] = "lookup"
    /\ key[c] \notin cache
    /\ ~Cooled(key[c])
    /\ Goto(c, IF key[c] = <<"url", Image(Place(c)).url>> /\ Remote(Image(Place(c)))
               THEN "fetch" ELSE "ask")
    /\ UNCHANGED <<now, memo, session, todo, count, copy, key>>

\* loadImageBytes: the bytes, of which only their hash matters here, or an error of any
\* of its steps (no connection, a status other than 200, too many bytes).
Loaded(img) == {Digest(img.content), NoKey}

\* The download gives the key of the content, which is looked up in its turn; without
\* it the URL stays the key.
Fetch(c) ==
    /\ pc[c] = "fetch"
    /\ \E hash \in Loaded(Image(Place(c))) :
        IF hash = NoKey
        THEN Goto(c, "ask") /\ UNCHANGED key
        ELSE Goto(c, "lookup") /\ key' = [key EXCEPT ![c] = hash]
    /\ UNCHANGED <<now, memo, session, todo, count, copy>>

\* Fault, for the checks: the text is cached under the URL the image came with.
StoredUnderFirstKey(c) == KeyOf(Image(Place(c)))

\* The model answers; the text is cached under the final key while there is room.
StoredUnder(c) == key[c]
Cached(k) == IF Cardinality(cache) < CacheCap THEN cache \cup {k} ELSE cache

Answer(c) ==
    /\ pc[c] = "ask"
    /\ cache' = Cached(StoredUnder(c))
    /\ told' = told \cup {key[c]}
    /\ Described(c)
    /\ UNCHANGED <<now, fails, due, session>>

\* It answers with an empty text: nothing is cached and the image has no description,
\* but the turn counts and the message is saved all the same.
AnswerEmpty(c) ==
    /\ pc[c] = "ask"
    /\ Goto(c, "persist")
    /\ UNCHANGED <<now, memo, session, todo, count, copy, key>>

\* Fault, for the checks: the time of the failure is recorded for the end of the cooldown.
MarkedWithNow(k) ==
    IF Cardinality({x \in Keys : fails[x] # 0}) >= CacheCap THEN fails
    ELSE [fails EXCEPT ![k] = now]

\* markFail: the key is recorded unless the table is full.
Marked(k) ==
    IF Cardinality({x \in Keys : fails[x] # 0}) >= CacheCap THEN fails
    ELSE [fails EXCEPT ![k] = now + RetryAfter]

\* The image cannot be loaded, or the model fails, on the second try with the
\* downloaded bytes too.
Fail(c) ==
    /\ pc[c] = "ask"
    /\ fails' = Marked(key[c])
    /\ due' = [due EXCEPT ![key[c]] = now + RetryAfter]
    /\ NextImage(c, count[c])
    /\ UNCHANGED <<now, cache, told, session>>

-----------------------------------------------------------------------------
(* The description is kept. *)

\* UpdateMessageParts writes the whole copy; a failure is only logged.  A message
\* without a MessageID is neither saved nor put back.
Persist(c) ==
    LET m == MessageAt(Place(c))
    IN  /\ pc[c] = "persist"
        /\ IF HasId[m]
           THEN /\ \/ row' = [row EXCEPT ![m] = copy[c][m]]
                   \/ StoreMayFail /\ UNCHANGED row
                /\ Goto(c, "backfill")
                /\ UNCHANGED <<todo, count, copy, key>>
           ELSE NextImage(c, count[c] + 1) /\ UNCHANGED row
        /\ UNCHANGED <<now, memo, window, trims>>

\* BackfillParts replaces the parts of the message, if the window still has it.
Backfill(c) ==
    LET m == MessageAt(Place(c))
    IN  /\ pc[c] = "backfill"
        /\ window' = IF m \in DOMAIN window THEN [window EXCEPT ![m] = copy[c][m]] ELSE window
        /\ NextImage(c, count[c] + 1)
        /\ UNCHANGED <<now, memo, row, trims>>

-----------------------------------------------------------------------------
(* The environment. *)

Tick ==
    /\ now < MaxTime
    /\ now' = now + 1
    /\ UNCHANGED <<memo, session, locals>>

\* A message leaves the window, compressed or evicted.
Trim ==
    /\ trims < MaxTrims
    /\ trims' = trims + 1
    /\ \E m \in DOMAIN window : window' = [k \in DOMAIN window \ {m} |-> window[k]]
    /\ UNCHANGED <<now, memo, row, locals>>

Call(c) ==
    \/ Assemble(c)
    \/ Hit(c) \/ Skip(c) \/ Miss(c) \/ Fetch(c)
    \/ Answer(c) \/ AnswerEmpty(c) \/ Fail(c)
    \/ Persist(c) \/ Backfill(c)

Next ==
    \/ \E c \in Callers : Call(c)
    \/ Tick
    \/ Trim

Spec == Init /\ [][Next]_vars

-----------------------------------------------------------------------------
(* Properties. *)

\* No retry storm: within a cooldown of a failure nobody starts a download or a model
\* call for the key that failed, whoever was at work on it when it failed.
NoRetryInCooldown ==
    [][\A c \in Callers :
           pc[c] = "lookup" /\ pc'[c] \in {"fetch", "ask"} => now >= due[key[c]]]_vars

\* Those who are past the cache with a key: at a download or at the model.
AtWork(k) == {c \in Callers : pc[c] \in {"fetch", "ask"} /\ key[c] = k}

\* Once the model has described an image, nobody sets about the same key again, whatever URL
\* the image comes with: the key is its content where the hash or the bytes are to be had,
\* else the URL.  Those at work by then may still finish, and an image that cannot be
\* downloaded is asked about under its URL, whether its content is described or not.
SameImageOnce == [][\A k \in told : AtWork(k)' \subseteq AtWork(k)]_vars

=============================================================================
