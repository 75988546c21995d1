----------------------------- MODULE MCPipeline -----------------------------
(* Pipeline for TLC. *)
EXTENDS Pipeline, TLC

CONSTANTS m1, m2, m3

ThreeMessages == {m1, m2, m3}

\* Messages are interchangeable.
MessageSymmetry == Permutations(Messages)

\* Every message has a MessageID of its own.
UniqueIds == [m \in Messages |-> m]

\* No two messages have the same author and second.
Stamps == [m \in Messages |-> m]

Says(t) == [type |-> "text", text |-> t]
At(who) == [type |-> "at", qq |-> who]
Face(id) == [type |-> "face", id |-> id]

\* Two words that share letters, an empty one, and one whose listed form, of two Kelvin signs,
\* has four bytes more than its lower case, listed once more in lower case; contents in which
\* a word is missed by little, is found along a fail link only, across a mark or with the id
\* of a face, stands in a command, or is the shortened one.
Listed(w, size) == [lower |-> w, size |-> size]
AsListed(words) == [i \in DOMAIN words |-> Listed(words[i], Len(words[i]))]
MCWords ==
    AsListed(<<<<"a", "b", "a">>, <<"b", "b">>, <<>>>>) \o <<Listed(<<"k", "k">>, 6), Listed(<<"k", "k">>, 2)>>
MCContents ==
    {<<Says(<<"a", "b">>), [type |-> "json"], Says(<<"b">>)>>,
     <<Says(<<"a", "b">>), At("7"), Says(<<"b">>)>>,
     <<Says(<<"/", " ">>), [type |-> "video", url |-> <<>>]>>,
     <<At("all"), Says(<<" ", "/", "k", "k">>)>>,
     <<Says(<<"/", "a">>), Face(<<"a">>), Says(<<"b", "a">>)>>}

\* An answer, labels only, and one that is blank after a label.
MCOutputs == {<<"x">>, <<"[", "x", "]", ":", "[", "]", ":">>, <<"[", "x", "]", ":", " ">>}

Strings(n) == UNION {[1..k -> {"a", "b"}] : k \in 0..n}

\* The matcher finds the first occurrence of a word, and there the longest word: three words
\* of up to three letters, in every text of up to five.
ASSUME FindIsRight ==
    \A u \in Strings(3), v \in Strings(3), w \in {<<"b">>, <<"b", "a", "b">>}, t \in Strings(5) :
        Find(New(AsListed(<<u, v, w>>)), t) = FirstOccurrence({u, v, w}, t)

\* Whatever the listed sizes, it misses no word in a text without a word that is shortened.
ASSUME FindMissesNone ==
    \A u \in Strings(2), v \in Strings(2), x, y \in 1..4, t \in Strings(4) :
        LET listed  == <<Listed(u, x), Listed(v, y)>>
            matcher == New(listed)
            words   == Occurring(Lowered(listed), t)
        IN  words \cap Shortened(matcher) = {} => (Found(Find(matcher, t)) <=> words # {})

\* It does miss a shortened word at the beginning of a text: the start that is counted back
\* lies before the text, which is taken for no match.  Further on the word is found.
ASSUME ShortenedIsMissed ==
    LET matcher == New(<<Listed(<<"a">>, 3)>>)
    IN  /\ ~Found(Find(matcher, <<"a", "b", "b">>))
        /\ Found(Find(matcher, <<"b", "b", "a">>))

\* A word that stands in what the model reads of a message stands in its plain text: the
\* filter need not look at the marks.  Contents of up to three segments.
ASSUME PlainTextIsEnough ==
    LET segments == {Says(t) : t \in Strings(2)} \cup {At("7"), Face(<<"b">>), [type |-> "json"]}
    IN  \A content \in BoundedSeq(segments, 3), w \in Lowered(MCWords) :
            LET p == ToParts(content)
            IN  Occurring({w}, ForLLM(p)) \subseteq Occurring({w}, PlainText(p))

\* What is kept of an answer is its end and begins with no label, and what was taken off are
\* labels.  Answers of up to five letters.
ASSUME LabelsAreTakenOff ==
    \A t \in BoundedSeq({"[", "]", ":", "x"}, 5) :
        LET kept == WithoutLabels(t)
            off  == SubSeq(t, 1, Len(t) - Len(kept))
        IN  /\ t = off \o kept
            /\ \A e \in 2..Len(kept) - 1 : ~Label(kept, 1, e)
            /\ off # <<>> => Label(off, 1, SelectInSeq(off, LAMBDA c : c = "]")) /\ Last(off) = ":"

=============================================================================
