----------------------------- MODULE WordMatcher -----------------------------
(***************************************************************************)
(* The word matcher of the sensitive-word filter (pkg/ahocorasick): a trie *)
(* of the words with fail links, and a scan of the text that follows them. *)
(*                                                                         *)
(* A text is what strings.ToLower makes of it, a sequence of bytes; it     *)
(* lowers one character after the other, so that the lower case of joined  *)
(* texts is their lower cases joined.  A listed word is a record: its      *)
(* lower case, by which it is found, and the number of bytes it has as it  *)
(* is listed, by which the scan counts back to its beginning.  For some    *)
(* characters the two differ: the Kelvin sign has three bytes, its lower   *)
(* case k has one.                                                         *)
(***************************************************************************)
EXTENDS Integers, Sequences, SequencesExt, FiniteSetsExt

Root == <<>>

\* The trie: every prefix of a word.  Empty words are left out.
Nodes(words) == {Root} \cup UNION {Prefixes(w) : w \in words}

\* Where a letter leads: along the fail links, to shorter and shorter nodes, to the first
\* with a child for it, or to the root.
Walk(nodes, fail, node, letter) ==
    LET step[n \in {p \in nodes : Len(p) <= Len(node)}] ==
            IF Append(n, letter) \in nodes THEN Append(n, letter)
            ELSE IF n = Root THEN Root ELSE step[fail[n]]
    IN  step[node]

\* The fail links, level by level: the letter that leads to a node, taken from where the
\* node's parent fails to.
FailLinks(nodes) ==
    LET fail[n \in nodes] ==
            IF Len(n) <= 1 THEN Root ELSE Walk(nodes, fail, fail[Front(n)], Last(n))
    IN  fail

\* The words of a list, in lower case, and the bytes of each as it is listed first.
Lowered(listed) == {listed[i].lower : i \in DOMAIN listed}
ListedSize(listed, word) == listed[Min({i \in DOMAIN listed : listed[i].lower = word})].size

New(listed) ==
    LET words == Lowered(listed) \ {<<>>}
    IN  [words |-> words,
         size  |-> [word \in words |-> ListedSize(listed, word)],
         nodes |-> Nodes(words),
         fail  |-> FailLinks(Nodes(words))]

\* The longest word that ends at a node: its own, or the first along its fail links.
WordAt(matcher, node) ==
    LET first[n \in matcher.nodes] ==
            IF n \in matcher.words \/ n = Root THEN n ELSE first[matcher.fail[n]]
    IN  first[node]

\* Whether Find has found a word: its beginning, as counted back, is a place of the text.
Found(found) == found.start >= 1

\* Find: of the words met in the scan the one that begins earliest by that count, of those
\* that begin there the longest, as [word, start]; the place before the text is 0.
Find(matcher, text) ==
    LET scan[i \in 0..Len(text)] ==
            IF i = 0 THEN [node |-> Root, word |-> <<>>, start |-> 0]
            ELSE LET seen  == scan[i - 1]
                     node  == Walk(matcher.nodes, matcher.fail, seen.node, text[i])
                     word  == WordAt(matcher, node)
                     start == i - matcher.size[word] + 1
                 IN  IF word # <<>> /\ (seen.start < 1 \/ start <= seen.start)
                     THEN [node |-> node, word |-> word, start |-> start]
                     ELSE [seen EXCEPT !.node = node]
    IN  [word |-> scan[Len(text)].word, start |-> scan[Len(text)].start]

-----------------------------------------------------------------------------
(* What it is for, without an automaton. *)

\* The places where a word occurs in a text.
Occurrences(word, text) ==
    {i \in 1..Len(text) - Len(word) + 1 : SubSeq(text, i, i + Len(word) - 1) = word}

\* Words that are listed with more bytes than their lower case has.
Shortened(matcher) == {w \in matcher.words : matcher.size[w] > Len(w)}

Occurring(words, text) == {w \in words \ {<<>>} : Occurrences(w, text) # {}}

\* The word that begins first, and of those that begin there the longest.
FirstOccurrence(words, text) ==
    IF Occurring(words, text) = {} THEN [word |-> <<>>, start |-> 0]
    ELSE LET start == Min(UNION {Occurrences(w, text) : w \in Occurring(words, text)})
             there == {w \in Occurring(words, text) : start \in Occurrences(w, text)}
         IN  [word |-> CHOOSE w \in there : \A v \in there : Len(v) <= Len(w), start |-> start]

=============================================================================
