--------------------------- MODULE PipelineProofs ---------------------------
(***************************************************************************)
(* Proofs about Pipeline and the word matcher it uses.                     *)
(*                                                                         *)
(* The matcher, for every list of words: the walk along the fail links     *)
(* finds what a search letter by letter would, in every text in which no   *)
(* word occurs that lower-casing shortens.                                 *)
(* Induction is by the least counterexample (LeastNatural); that a         *)
(* recursive function exists is shown once for those that count up         *)
(* (Recursion), and by a function that satisfies its equation for those    *)
(* that follow the fail links.                                             *)
(*                                                                         *)
(* The pipeline, for every set of messages, of words and of contents,      *)
(* every window and every number of crashes: what the ledger accounts      *)
(* for, what a refused message leaves behind, what a prompt ends with and  *)
(* where what a full window loses has gone.                                *)
(***************************************************************************)
EXTENDS Pipeline, FiniteSetTheorems, SequenceTheorems, WellFoundedInduction, TLAPS

-----------------------------------------------------------------------------
(* Induction and recursion. *)

\* A set of natural numbers has a least one.
LEMMA LeastNatural ==
    ASSUME NEW T, T \subseteq Nat, T # {}
    PROVE  \E n \in T : \A k \in T : n <= k
<1> DEFINE Below == {1..n : n \in T}
<1>1. Below \subseteq FiniteSubsetsOf(Nat) /\ Below # {}
  <2>1. \A n \in T : IsFiniteSet(1..n) /\ 1..n \subseteq Nat
    BY FS_Interval
  <2> QED
    BY <2>1 DEF FiniteSubsetsOf
<1>2. IsWellFoundedOn(StrictSubsetOrdering(Nat), FiniteSubsetsOf(Nat))
  BY FS_StrictSubsetOrderingWellFounded
<1> HIDE DEF Below
<1>3. \E x \in Below : \A y \in Below : <<y, x>> \notin StrictSubsetOrdering(Nat)
  BY <1>1, <1>2, WFMin
<1>4. PICK n \in T : \A k \in T : <<1..k, 1..n>> \notin StrictSubsetOrdering(Nat)
  BY <1>3 DEF Below
<1>5. SUFFICES ASSUME NEW k \in T, k < n
               PROVE  FALSE
  BY <1>4
<1>6. 1..k \subseteq 1..n /\ 1..k # 1..n
  <2>1. n \in 1..n /\ n \notin 1..k /\ 1..k \subseteq 1..n
    BY <1>5
  <2> QED
    BY <2>1
<1>7. 1..k \in SUBSET Nat /\ 1..n \in SUBSET Nat
  BY <1>5
<1>8. <<1..k, 1..n>> \in StrictSubsetOrdering(Nat)
  BY <1>6, <1>7 DEF StrictSubsetOrdering
<1> QED
  BY <1>4, <1>8

\* f is what a function that counts up to n from base, a step at a time, has to be.
Counts(f, n, base, step) ==
    f = [i \in 0..n |-> IF i = 0 THEN base ELSE step[<<i, f[i - 1]>>]]

\* There is such a function.
LEMMA Recursion ==
    ASSUME NEW S, NEW base \in S, NEW step \in [Nat \X S -> S], NEW n \in Nat
    PROVE  \E f \in [0..n -> S] : Counts(f, n, base, step)
<1> DEFINE Bad == {k \in Nat : ~ \E f \in [0..k -> S] : Counts(f, k, base, step)}
<1> SUFFICES ASSUME n \in Bad
             PROVE  FALSE
  OBVIOUS
<1>1. PICK k \in Bad : \A j \in Bad : k <= j
  <2> HIDE DEF Bad
  <2>1. Bad \subseteq Nat
    BY DEF Bad
  <2> QED
    BY <2>1, LeastNatural
<1>2. k \in Nat
  BY <1>1
<1>3. k = 0 => FALSE
  <2> DEFINE f == [i \in 0..0 |-> base]
  <2>1. f \in [0..0 -> S] /\ \A i \in 0..0 : i = 0
    OBVIOUS
  <2>2. Counts(f, 0, base, step)
    BY <2>1 DEF Counts
  <2> QED
    BY <1>1, <2>1, <2>2
<1>4. k # 0 => FALSE
  <2> SUFFICES ASSUME k # 0
               PROVE  FALSE
    OBVIOUS
  <2>1. k - 1 \in Nat
    BY <1>2
  <2>2. k - 1 \notin Bad
    <3> HIDE DEF Bad
    <3> QED
      BY <1>1, <1>2
  <2>3. PICK f \in [0..k - 1 -> S] : Counts(f, k - 1, base, step)
    BY <2>1, <2>2
  <2> DEFINE g == [i \in 0..k |-> IF i < k THEN f[i] ELSE step[<<k, f[k - 1]>>]]
  <2>4. k - 1 \in 0..k - 1 /\ f[k - 1] \in S
    BY <2>1
  <2>5. \A i \in 0..k : i < k => i \in 0..k - 1
    BY <1>2
  <2>6. g \in [0..k -> S]
    <3>1. step[<<k, f[k - 1]>>] \in S
      BY <1>2, <2>4
    <3> QED
      BY <2>5, <3>1
  <2>7. \A i \in 0..k - 1 : f[i] = IF i = 0 THEN base ELSE step[<<i, f[i - 1]>>]
    BY <2>3, Zenon DEF Counts
  <2>8. ASSUME NEW i \in 0..k
        PROVE  g[i] = IF i = 0 THEN base ELSE step[<<i, g[i - 1]>>]
    <3>1. i # 0 => i - 1 \in 0..k /\ i - 1 < k
      BY <1>2
    <3>2. i # 0 => g[i - 1] = f[i - 1]
      BY <3>1
    <3>3. CASE i < k
      <4>1. g[i] = f[i] /\ i \in 0..k - 1
        BY <3>3, <2>5
      <4> HIDE DEF g
      <4> QED
        BY <4>1, <2>7, <3>2
    <3>4. CASE i = k
      <4>1. g[i] = step[<<i, f[i - 1]>>] /\ i # 0
        BY <3>4
      <4> HIDE DEF g
      <4> QED
        BY <4>1, <3>2
    <3> QED
      BY <3>3, <3>4, <1>2
  <2>9. Counts(g, k, base, step)
    <3> HIDE DEF g
    <3> QED
      BY <2>6, <2>8 DEF Counts
  <2> QED
    BY <1>1, <2>6, <2>9
<1> QED
  BY <1>3, <1>4

-----------------------------------------------------------------------------
(* What is left of a sequence without its first letters. *)

From(s, k) == SubSeq(s, k + 1, Len(s))

LEMMA FromIs ==
    ASSUME NEW L, NEW s \in Seq(L), NEW k \in 0..Len(s)
    PROVE  /\ From(s, k) \in Seq(L)
           /\ Len(From(s, k)) = Len(s) - k
           /\ \A i \in 1..Len(s) - k : From(s, k)[i] = s[k + i]
BY SubSeqProperties DEF From

LEMMA FromEnds ==
    ASSUME NEW L, NEW s \in Seq(L)
    PROVE  From(s, 0) = s /\ From(s, Len(s)) = <<>>
<1>1. From(s, 0) = s
  BY FromIs, SeqEqual
<1>2. From(s, Len(s)) = <<>>
  BY FromIs, EmptySeq
<1> QED
  BY <1>1, <1>2

LEMMA FromFrom ==
    ASSUME NEW L, NEW s \in Seq(L), NEW k \in 0..Len(s), NEW j \in 0..Len(s) - k
    PROVE  From(From(s, k), j) = From(s, k + j)
<1>1. From(s, k) \in Seq(L) /\ Len(From(s, k)) = Len(s) - k
  BY FromIs
<1>2. k + j \in 0..Len(s)
  OBVIOUS
<1>3. /\ From(From(s, k), j) \in Seq(L) /\ From(s, k + j) \in Seq(L)
      /\ Len(From(From(s, k), j)) = Len(From(s, k + j))
  BY <1>1, <1>2, FromIs
<1>4. ASSUME NEW i \in 1..Len(s) - (k + j)
      PROVE  From(From(s, k), j)[i] = From(s, k + j)[i]
  <2>1. i \in 1..(Len(s) - k) - j /\ j + i \in 1..Len(s) - k
    OBVIOUS
  <2>2. From(From(s, k), j)[i] = From(s, k)[j + i] /\ From(s, k)[j + i] = s[k + (j + i)]
    <3> DEFINE t == From(s, k)
    <3>1. t \in Seq(L) /\ Len(t) = Len(s) - k /\ t[j + i] = s[k + (j + i)]
      BY <2>1, FromIs
    <3> HIDE DEF t
    <3>2. j \in 0..Len(t) /\ i \in 1..Len(t) - j
      BY <2>1, <3>1
    <3>3. From(t, j)[i] = t[j + i]
      BY <3>1, <3>2, FromIs
    <3> QED
      BY <3>1, <3>3 DEF t
  <2>3. From(s, k + j)[i] = s[(k + j) + i]
    BY <1>2, FromIs
  <2> QED
    BY <2>2, <2>3
<1>5. Len(From(s, k + j)) = Len(s) - (k + j)
  BY <1>2, FromIs
<1> QED
  BY <1>3, <1>4, <1>5, SeqEqual

LEMMA FromAppend ==
    ASSUME NEW L, NEW s \in Seq(L), NEW a \in L, NEW k \in 0..Len(s)
    PROVE  From(Append(s, a), k) = Append(From(s, k), a)
<1>1. Append(s, a) \in Seq(L) /\ Len(Append(s, a)) = Len(s) + 1 /\ k \in 0..Len(Append(s, a))
  OBVIOUS
<1>2. From(s, k) \in Seq(L) /\ Len(From(s, k)) = Len(s) - k
  BY FromIs
<1>3. /\ From(Append(s, a), k) \in Seq(L) /\ Append(From(s, k), a) \in Seq(L)
      /\ Len(From(Append(s, a), k)) = Len(s) - k + 1
      /\ Len(Append(From(s, k), a)) = Len(s) - k + 1
  <2>1. From(Append(s, a), k) \in Seq(L) /\ Len(From(Append(s, a), k)) = Len(Append(s, a)) - k
    BY <1>1, FromIs
  <2>2. Append(From(s, k), a) \in Seq(L) /\ Len(Append(From(s, k), a)) = Len(From(s, k)) + 1
    BY <1>2, AppendProperties
  <2> QED
    BY <1>1, <1>2, <2>1, <2>2
<1>4. ASSUME NEW i \in 1..Len(s) - k + 1
      PROVE  From(Append(s, a), k)[i] = Append(From(s, k), a)[i]
  <2>1. From(Append(s, a), k)[i] = Append(s, a)[k + i]
    <3> DEFINE t == Append(s, a)
    <3> HIDE DEF t
    <3>1. t \in Seq(L) /\ i \in 1..Len(t) - k /\ k \in 0..Len(t)
      BY <1>1 DEF t
    <3>2. From(t, k)[i] = t[k + i]
      BY <3>1, FromIs
    <3> QED
      BY <3>2 DEF t
  <2>2. CASE i = Len(s) - k + 1
    <3>1. Append(s, a)[k + i] = a /\ Append(From(s, k), a)[i] = a
      BY <2>2, <1>2, AppendProperties
    <3> QED
      BY <2>1, <3>1
  <2>3. CASE i \in 1..Len(s) - k
    <3>1. From(s, k)[i] = s[k + i]
      BY <2>3, FromIs
    <3>2. k + i \in 1..Len(s) /\ i \in 1..Len(From(s, k))
      BY <2>3, <1>2
    <3>3. Append(s, a)[k + i] = s[k + i] /\ Append(From(s, k), a)[i] = From(s, k)[i]
      BY <3>2, <1>2, AppendProperties
    <3> QED
      BY <2>1, <3>1, <3>3
  <2>4. i = Len(s) - k + 1 \/ i \in 1..Len(s) - k
    OBVIOUS
  <2> QED
    BY <2>2, <2>3, <2>4, Zenon
<1> QED
  BY <1>3, <1>4, SeqEqual

-----------------------------------------------------------------------------
(* The longest end of a sequence that is in a set. *)

Longest(V, x, s) ==
    \E k \in 0..Len(s) : x = From(s, k) /\ x \in V /\ \A j \in 0..k - 1 : From(s, j) \notin V

\* There is one if the set has the empty sequence, and it is no longer than the whole.
LEMMA LongestExists ==
    ASSUME NEW L, NEW s \in Seq(L), NEW V, <<>> \in V
    PROVE  \E x : Longest(V, x, s)
<1> DEFINE T == {k \in 0..Len(s) : From(s, k) \in V}
<1>1. Len(s) \in T
  BY FromEnds
<1>2. T \subseteq Nat
  OBVIOUS
<1> HIDE DEF T
<1>3. PICK k \in T : \A j \in T : k <= j
  BY <1>1, <1>2, LeastNatural
<1>4. k \in 0..Len(s) /\ From(s, k) \in V
  BY <1>3 DEF T
<1>5. \A j \in 0..k - 1 : From(s, j) \notin V
  BY <1>3, <1>4 DEF T
<1> QED
  BY <1>4, <1>5 DEF Longest

LEMMA LongestIsOne ==
    ASSUME NEW V, NEW s, NEW x, NEW y, Len(s) \in Nat, Longest(V, x, s), Longest(V, y, s)
    PROVE  x = y
<1>1. PICK k \in 0..Len(s) : x = From(s, k) /\ x \in V /\ \A j \in 0..k - 1 : From(s, j) \notin V
  BY DEF Longest
<1>2. PICK l \in 0..Len(s) : y = From(s, l) /\ y \in V /\ \A j \in 0..l - 1 : From(s, j) \notin V
  BY DEF Longest
<1>3. ~ (k < l) /\ ~ (l < k)
  BY <1>1, <1>2
<1> QED
  BY <1>1, <1>2, <1>3

LEMMA LongestIs ==
    ASSUME NEW L, NEW s \in Seq(L), NEW V, NEW x, Longest(V, x, s)
    PROVE  x \in V /\ x \in Seq(L) /\ Len(x) <= Len(s)
BY FromIs DEF Longest

\* A sequence of the set is its own longest end.
LEMMA LongestOfOwn ==
    ASSUME NEW L, NEW s \in Seq(L), NEW V, s \in V
    PROVE  Longest(V, s, s)
BY FromEnds DEF Longest

\* Letters before which no end of the sequence is in the set make no difference to it.
LEMMA LongestOfRest ==
    ASSUME NEW L, NEW s \in Seq(L), NEW k \in 0..Len(s), NEW V, NEW x,
           Longest(V, x, From(s, k)), \A j \in 0..k - 1 : From(s, j) \notin V
    PROVE  Longest(V, x, s)
<1>1. From(s, k) \in Seq(L) /\ Len(From(s, k)) = Len(s) - k
  BY FromIs
<1>2. PICK l \in 0..Len(s) - k : /\ x = From(From(s, k), l) /\ x \in V
                                 /\ \A j \in 0..l - 1 : From(From(s, k), j) \notin V
  BY <1>1 DEF Longest
<1>3. \A j \in 0..Len(s) - k : From(From(s, k), j) = From(s, k + j)
  BY FromFrom
<1>4. x = From(s, k + l) /\ k + l \in 0..Len(s)
  BY <1>2, <1>3
<1>5. ASSUME NEW j \in 0..(k + l) - 1
      PROVE  From(s, j) \notin V
  <2>1. CASE j < k
    <3>1. j \in 0..k - 1
      BY <2>1
    <3> QED
      BY <3>1
  <2>2. CASE j >= k
    <3>1. j - k \in 0..l - 1 /\ j - k \in 0..Len(s) - k /\ k + (j - k) = j
      BY <2>2
    <3> QED
      BY <3>1, <1>2, <1>3
  <2> QED
    BY <2>1, <2>2
<1> QED
  BY <1>2, <1>4, <1>5 DEF Longest

\* A set of sequences that can be entered letter by letter.
Closed(V, L) == /\ <<>> \in V /\ V \subseteq Seq(L)
                /\ \A p \in Seq(L), a \in L : Append(p, a) \in V => p \in V

\* The longest end after one more letter follows from the longest end before it.
LEMMA LongestAppend ==
    ASSUME NEW L, NEW V, Closed(V, L), NEW s \in Seq(L), NEW a \in L, NEW n, NEW x,
           Longest(V, n, s), Longest(V, x, Append(n, a))
    PROVE  Longest(V, x, Append(s, a))
<1>1. PICK k \in 0..Len(s) : n = From(s, k) /\ n \in V /\ \A j \in 0..k - 1 : From(s, j) \notin V
  BY DEF Longest
<1>2. Append(s, a) \in Seq(L) /\ k \in 0..Len(Append(s, a))
  BY AppendProperties
<1>3. Longest(V, x, From(Append(s, a), k))
  <2>1. From(Append(s, a), k) = Append(From(s, k), a)
    BY FromAppend
  <2> QED
    BY <1>1, <2>1
<1>4. ASSUME NEW j \in 0..k - 1
      PROVE  From(Append(s, a), j) \notin V
  <2>1. j \in 0..Len(s) /\ From(s, j) \notin V
    BY <1>1
  <2>2. From(Append(s, a), j) = Append(From(s, j), a) /\ From(s, j) \in Seq(L)
    BY <2>1, FromAppend, FromIs
  <2> QED
    BY <2>1, <2>2 DEF Closed
<1> QED
  BY <1>2, <1>3, <1>4, LongestOfRest

\* The longest end in a part of the set is an end of the longest in the whole.
LEMMA LongestOfPart ==
    ASSUME NEW L, NEW s \in Seq(L), NEW V, NEW W, W \subseteq V, NEW n, NEW x,
           Longest(V, n, s), Longest(W, x, n)
    PROVE  Longest(W, x, s)
<1>1. PICK k \in 0..Len(s) : n = From(s, k) /\ n \in V /\ \A j \in 0..k - 1 : From(s, j) \notin V
  BY DEF Longest
<1>2. \A j \in 0..k - 1 : From(s, j) \notin W
  BY <1>1
<1> QED
  BY <1>1, <1>2, LongestOfRest

-----------------------------------------------------------------------------
(* The automaton. *)

LEMMA NodesAreClosed ==
    ASSUME NEW L, NEW words, words \subseteq Seq(L)
    PROVE  Closed(Nodes(words), L) /\ words \subseteq Nodes(words)
<1>1. \A w \in words : SubSeq(w, 1, 0) = <<>> /\ SubSeq(w, 1, Len(w)) = w
  BY SubSeqFull, SubSeqEmpty
<1>2. words \subseteq Nodes(words)
  BY <1>1 DEF Nodes, Prefixes
<1>3. ASSUME NEW w \in words, NEW l \in 0..Len(w)
      PROVE  SubSeq(w, 1, l) \in Seq(L)
  BY SubSeqProperties
<1>4. Nodes(words) \subseteq Seq(L) /\ <<>> \in Nodes(words)
  <2>1. \A w \in words : Prefixes(w) \subseteq Seq(L)
    BY <1>3 DEF Prefixes
  <2>2. <<>> \in Seq(L)
    BY EmptySeq
  <2> QED
    BY <2>1, <2>2 DEF Nodes, Root
<1>5. ASSUME NEW p \in Seq(L), NEW a \in L, Append(p, a) \in Nodes(words)
      PROVE  p \in Nodes(words)
  <2>1. Append(p, a) # <<>> /\ Len(Append(p, a)) = Len(p) + 1 /\ Len(p) \in Nat
    BY AppendProperties
  <2>2. PICK w \in words : \E l \in 0..Len(w) : Append(p, a) = SubSeq(w, 1, l)
    BY <1>5, <2>1 DEF Nodes, Prefixes, Root
  <2>3. PICK l \in 0..Len(w) : Append(p, a) = SubSeq(w, 1, l)
    BY <2>2
  <2>4. w \in Seq(L) /\ Len(SubSeq(w, 1, l)) = l
    BY SubSeqProperties
  <2>5. l - 1 \in 0..Len(w) /\ l = Len(p) + 1
    BY <2>1, <2>3, <2>4
  <2>6. SubSeq(w, 1, l - 1) \in Seq(L) /\ Len(SubSeq(w, 1, l - 1)) = l - 1
    BY <2>4, <2>5, SubSeqProperties
  <2>7. ASSUME NEW i \in 1..l - 1
        PROVE  SubSeq(w, 1, l - 1)[i] = p[i]
    <3>1. SubSeq(w, 1, l)[i] = w[i] /\ SubSeq(w, 1, l - 1)[i] = w[i]
      BY <2>4, <2>5, SubSeqProperties
    <3>2. i \in 1..Len(p)
      BY <2>5
    <3>3. Append(p, a)[i] = p[i]
      BY <3>2, AppendProperties
    <3> QED
      BY <2>3, <3>1, <3>3
  <2>8. p = SubSeq(w, 1, l - 1)
    BY <2>5, <2>6, <2>7, SeqEqual
  <2> QED
    BY <2>5, <2>8 DEF Nodes, Prefixes
<1> QED
  BY <1>2, <1>4, <1>5 DEF Closed

\* The fail links of the nodes up to a length lead to the longest end that is a node.
FailsRight(V, fail, n) ==
    \A p \in V : p # Root /\ Len(p) <= n => Longest(V, fail[p], From(p, 1))

\* The walk from a node leads to the longest end with the letter after it.
LEMMA WalkIsRight ==
    ASSUME NEW L, NEW V, Closed(V, L), NEW fail, NEW node \in V, NEW a \in L,
           FailsRight(V, fail, Len(node))
    PROVE  Longest(V, Walk(V, fail, node, a), Append(node, a))
<1> DEFINE D == {p \in V : Len(p) <= Len(node)}
           Ends(n, x) == Longest(V, x, Append(n, a))
           Steps(s) == s = [n \in D |-> IF Append(n, a) \in V THEN Append(n, a)
                                        ELSE IF n = Root THEN Root ELSE s[fail[n]]]
<1>1. V \subseteq Seq(L) /\ <<>> \in V /\ Root = <<>>
  BY DEF Closed, Root
<1>2. \A n \in D : Append(n, a) \in Seq(L) /\ Len(Append(n, a)) = Len(n) + 1 /\ Len(n) \in Nat
  BY <1>1, AppendProperties
<1>3. ASSUME NEW n \in D, Append(n, a) \in V
      PROVE  Ends(n, Append(n, a))
  BY <1>2, <1>3, LongestOfOwn
<1>4. ASSUME NEW n \in D, Append(n, a) \notin V, NEW x, Longest(V, x, Append(From(n, 1), a)), n # Root
      PROVE  Ends(n, x)
  <2>1. 1 \in 0..Len(n) /\ n \in Seq(L)
    BY <1>1, <1>2, <1>4, EmptySeq
  <2>2. From(Append(n, a), 1) = Append(From(n, 1), a)
    BY <2>1, FromAppend
  <2>3. From(Append(n, a), 0) = Append(n, a)
    BY <1>2, FromEnds
  <2>4. 1 \in 0..Len(Append(n, a)) /\ \A j \in 0..1 - 1 : j = 0
    BY <1>2
  <2> QED
    BY <1>2, <1>4, <2>2, <2>3, <2>4, LongestOfRest
<1>5. ASSUME Append(Root, a) \notin V
      PROVE  Ends(Root, Root)
  <2>1. Append(Root, a) \in Seq(L) /\ Len(Append(Root, a)) = 1
    BY <1>1, AppendProperties, EmptySeq
  <2>2. From(Append(Root, a), 0) = Append(Root, a) /\ From(Append(Root, a), 1) = Root
    BY <1>1, <2>1, FromEnds
  <2>3. Longest(V, Root, Root)
    BY <1>1, LongestOfOwn
  <2>4. 1 \in 0..Len(Append(Root, a)) /\ \A j \in 0..1 - 1 : j = 0
    BY <2>1
  <2> QED
    BY <1>5, <2>1, <2>2, <2>3, <2>4, LongestOfRest
<1>6. ASSUME NEW n \in D, n # Root
      PROVE  /\ fail[n] \in D /\ Len(fail[n]) < Len(n)
             /\ \A x : Longest(V, x, Append(fail[n], a)) => Longest(V, x, Append(From(n, 1), a))
  <2>1. 1 \in 0..Len(n) /\ n \in Seq(L)
    BY <1>1, <1>2, <1>6, EmptySeq
  <2>2. From(n, 1) \in Seq(L) /\ Len(From(n, 1)) = Len(n) - 1
    BY <2>1, FromIs
  <2>3. Longest(V, fail[n], From(n, 1))
    BY <1>6 DEF FailsRight
  <2>4. fail[n] \in V /\ fail[n] \in Seq(L) /\ Len(fail[n]) <= Len(n) - 1
    BY <2>2, <2>3, LongestIs
  <2>5. \A x : Longest(V, x, Append(fail[n], a)) => Longest(V, x, Append(From(n, 1), a))
    BY <2>2, <2>3, LongestAppend
  <2> QED
    BY <1>2, <2>4, <2>5
<1>7. ASSUME NEW s, Steps(s), NEW n \in D
      PROVE  Ends(n, s[n])
  <2> DEFINE Bad == {k \in Nat : \E m \in D : Len(m) = k /\ ~ Ends(m, s[m])}
  <2>1. SUFFICES ASSUME Bad # {}
                 PROVE  FALSE
    BY <1>2
  <2>2. PICK k \in Bad : \A j \in Bad : k <= j
    <3>1. Bad \subseteq Nat
      OBVIOUS
    <3> HIDE DEF Bad
    <3> QED
      BY <2>1, <3>1, LeastNatural
  <2>3. PICK m \in D : Len(m) = k /\ ~ Ends(m, s[m])
    BY <2>2
  <2>4. s[m] = IF Append(m, a) \in V THEN Append(m, a) ELSE IF m = Root THEN Root ELSE s[fail[m]]
    <3> HIDE DEF D
    <3> QED
      BY <1>7
  <2>5. Append(m, a) \notin V /\ m # Root
    BY <1>3, <1>5, <2>3, <2>4
  <2>6. fail[m] \in D /\ Len(fail[m]) < Len(m)
    BY <1>6, <2>5
  <2>7. Ends(fail[m], s[fail[m]])
    <3>1. Len(fail[m]) \notin Bad
      BY <2>2, <2>3, <2>6, <1>2
    <3> QED
      BY <3>1, <2>6, <1>2
  <2>8. Ends(m, s[fail[m]])
    BY <1>4, <1>6, <2>5, <2>7
  <2> QED
    BY <2>3, <2>4, <2>5, <2>8
<1>8. \E s : Steps(s)
  <2> DEFINE g == [n \in D |-> CHOOSE x : Ends(n, x)]
  <2>1. \A n \in D : Ends(n, g[n])
    BY <1>1, <1>2, LongestExists
  <2>2. \A n \in D : \A x, y : Ends(n, x) /\ Ends(n, y) => x = y
    BY <1>2, LongestIsOne
  <2>3. ASSUME NEW n \in D
        PROVE  g[n] = IF Append(n, a) \in V THEN Append(n, a)
                      ELSE IF n = Root THEN Root ELSE g[fail[n]]
    <3> HIDE DEF g, D
    <3>1. CASE Append(n, a) \in V
      BY <3>1, <1>3, <2>1, <2>2
    <3>2. CASE Append(n, a) \notin V /\ n = Root
      BY <3>2, <1>5, <2>1, <2>2
    <3>3. CASE Append(n, a) \notin V /\ n # Root
      BY <3>3, <1>4, <1>6, <2>1, <2>2
    <3> QED
      BY <3>1, <3>2, <3>3
  <2>4. Steps(g)
    <3>1. DOMAIN g = D /\ g = [n \in D |-> g[n]]
      OBVIOUS
    <3> HIDE DEF g, D
    <3> QED
      BY <2>3, <3>1
  <2> QED
    BY <2>4
<1>9. \E s : Steps(s) /\ Walk(V, fail, node, a) = s[node]
  <2> DEFINE step == CHOOSE s : Steps(s)
  <2>1. Steps(step)
    BY <1>8
  <2>2. Walk(V, fail, node, a) = step[node]
    BY DEF Walk
  <2> QED
    BY <2>1, <2>2
<1>10. node \in D
  BY <1>1
<1> QED
  BY <1>7, <1>9, <1>10

\* A sequence of at least one letter is what comes before its last letter, and that letter.
LEMMA FrontAndLast ==
    ASSUME NEW L, NEW s \in Seq(L), s # <<>>
    PROVE  /\ Front(s) \in Seq(L) /\ Last(s) \in L
           /\ Len(Front(s)) = Len(s) - 1
           /\ s = Append(Front(s), Last(s))
<1>1. Len(s) \in Nat \ {0}
  BY EmptySeq
<1>2. /\ Front(s) \in Seq(L) /\ Len(Front(s)) = Len(s) - 1
      /\ \A i \in 1..Len(s) - 1 : Front(s)[i] = s[i]
  <2> DEFINE n == Len(s) - 1
  <2>1. n \in Nat /\ \A i \in 1..n : s[i] \in L
    BY <1>1
  <2> HIDE DEF n
  <2>2. /\ SubSeq(s, 1, n) \in Seq(L) /\ Len(SubSeq(s, 1, n)) = IF 1 <= n THEN n - 1 + 1 ELSE 0
        /\ \A i \in 1..n - 1 + 1 : SubSeq(s, 1, n)[i] = s[1 + i - 1]
    BY <2>1, SubSeqProperties
  <2>3. /\ SubSeq(s, 1, n) \in Seq(L) /\ Len(SubSeq(s, 1, n)) = n
        /\ \A i \in 1..n : SubSeq(s, 1, n)[i] = s[i]
    BY <2>1, <2>2
  <2> QED
    BY <2>3 DEF Front, n
<1>3. Last(s) \in L
  BY <1>1 DEF Last
<1>4. /\ Append(Front(s), Last(s)) \in Seq(L) /\ Len(Append(Front(s), Last(s))) = Len(s)
      /\ \A i \in 1..Len(s) - 1 : Append(Front(s), Last(s))[i] = s[i]
      /\ Append(Front(s), Last(s))[Len(s)] = s[Len(s)]
  BY <1>1, <1>2, <1>3, AppendProperties DEF Last
<1>5. \A i \in 1..Len(s) : i = Len(s) \/ i \in 1..Len(s) - 1
  BY <1>1
<1>6. \A i \in 1..Len(s) : Append(Front(s), Last(s))[i] = s[i]
  BY <1>4, <1>5
<1> QED
  BY <1>2, <1>3, <1>4, <1>6, SeqEqual

\* The fail links, computed level by level, are right for every node.
LEMMA FailLinksAreRight ==
    ASSUME NEW L, NEW V, Closed(V, L)
    PROVE  \A k \in Nat : FailsRight(V, FailLinks(V), k)
<1> DEFINE Links(f) ==
               f = [n \in V |-> IF Len(n) <= 1 THEN Root ELSE Walk(V, f, f[Front(n)], Last(n))]
<1>1. V \subseteq Seq(L) /\ <<>> \in V /\ Root = <<>>
  BY DEF Closed, Root
<1>2. \A n \in V : Len(n) \in Nat /\ (n # Root => Len(n) >= 1)
  BY <1>1, EmptySeq
<1>3. \A n \in V : n # Root => From(n, 1) \in Seq(L) /\ Len(From(n, 1)) = Len(n) - 1
  BY <1>1, <1>2, FromIs
<1>4. ASSUME NEW n \in V, Len(n) = 1
      PROVE  Longest(V, Root, From(n, 1))
  <2>1. From(n, 1) = Root
    BY <1>1, <1>4, FromEnds
  <2> QED
    BY <2>1, <1>1, LongestOfOwn
<1>5. ASSUME NEW f, NEW n \in V, Len(n) >= 2, FailsRight(V, f, Len(n) - 1)
      PROVE  Longest(V, Walk(V, f, f[Front(n)], Last(n)), From(n, 1))
  <2> DEFINE p == Front(n)
             a == Last(n)
  <2>1. p \in Seq(L) /\ a \in L /\ Len(p) = Len(n) - 1 /\ n = Append(p, a)
    <3>1. n \in Seq(L) /\ n # <<>>
      BY <1>1, <1>5, EmptySeq
    <3> QED
      BY <3>1, FrontAndLast
  <2> HIDE DEF p, a
  <2>2. p \in V
    BY <2>1 DEF Closed
  <2>3. p # Root /\ 1 \in 0..Len(p)
    BY <1>1, <1>2, <1>5, <2>1
  <2>4. From(p, 1) \in Seq(L) /\ Len(From(p, 1)) = Len(p) - 1
    BY <2>1, <2>3, FromIs
  <2>5. Longest(V, f[p], From(p, 1))
    BY <1>2, <1>5, <2>1, <2>2, <2>3 DEF FailsRight
  <2>6. f[p] \in V /\ Len(f[p]) <= Len(p) - 1
    BY <2>4, <2>5, LongestIs
  <2>7. FailsRight(V, f, Len(f[p]))
    <3>1. ASSUME NEW q \in V, Len(q) <= Len(f[p])
          PROVE  Len(q) <= Len(n) - 1
      BY <1>2, <2>1, <2>2, <2>6, <3>1
    <3> QED
      BY <1>5, <3>1 DEF FailsRight
  <2>8. Longest(V, Walk(V, f, f[p], a), Append(f[p], a))
    BY <2>1, <2>6, <2>7, WalkIsRight
  <2>9. Longest(V, Walk(V, f, f[p], a), Append(From(p, 1), a))
    BY <2>1, <2>4, <2>5, <2>8, LongestAppend
  <2>10. From(n, 1) = Append(From(p, 1), a)
    BY <2>1, <2>3, FromAppend
  <2> QED
    BY <2>9, <2>10 DEF p, a
<1>6. ASSUME NEW f, Links(f), NEW k \in Nat
      PROVE  FailsRight(V, f, k)
  <2> DEFINE Bad == {j \in Nat : ~ FailsRight(V, f, j)}
  <2>1. SUFFICES ASSUME Bad # {}
                 PROVE  FALSE
    OBVIOUS
  <2>2. PICK j \in Bad : \A i \in Bad : j <= i
    <3>1. Bad \subseteq Nat
      OBVIOUS
    <3> HIDE DEF Bad
    <3> QED
      BY <2>1, <3>1, LeastNatural
  <2>3. \A i \in Nat : i < j => FailsRight(V, f, i)
    BY <2>2
  <2>4. PICK n \in V : n # Root /\ Len(n) <= j /\ ~ Longest(V, f[n], From(n, 1))
    BY <2>2 DEF FailsRight
  <2>5. f[n] = IF Len(n) <= 1 THEN Root ELSE Walk(V, f, f[Front(n)], Last(n))
    BY <1>6
  <2>6. Len(n) >= 2
    BY <1>2, <1>4, <2>4, <2>5
  <2>7. FailsRight(V, f, Len(n) - 1)
    BY <1>2, <2>2, <2>3, <2>4, <2>6
  <2> QED
    BY <1>2, <1>5, <2>4, <2>5, <2>6, <2>7
<1>7. \E f : Links(f)
  <2> DEFINE g == [n \in V |-> IF n = Root THEN Root ELSE CHOOSE x : Longest(V, x, From(n, 1))]
  <2>1. \A n \in V : n # Root => Longest(V, g[n], From(n, 1))
    BY <1>1, <1>3, LongestExists
  <2>2. ASSUME NEW n \in V, n # Root, NEW x, Longest(V, x, From(n, 1)),
               NEW y, Longest(V, y, From(n, 1))
        PROVE  x = y
    <3>1. Len(From(n, 1)) \in Nat
      BY <1>3, <2>2
    <3> QED
      BY <2>2, <3>1, LongestIsOne
  <2>3. g[Root] = Root
    BY <1>1
  <2> HIDE DEF g
  <2>4. \A k \in Nat : FailsRight(V, g, k)
    BY <2>1 DEF FailsRight
  <2>5. ASSUME NEW n \in V
        PROVE  g[n] = IF Len(n) <= 1 THEN Root ELSE Walk(V, g, g[Front(n)], Last(n))
    <3>1. CASE n = Root
      BY <3>1, <2>3, <1>1
    <3>2. CASE n # Root /\ Len(n) <= 1
      <4>1. Len(n) \in Nat /\ Len(n) >= 1 /\ Len(n) <= 1
        BY <3>2, <1>2
      <4>2. Len(n) = 1
        <5>1. \A l \in Nat : l >= 1 /\ l <= 1 => l = 1
          OBVIOUS
        <5> QED
          BY <4>1, <5>1, Zenon
      <4>3. Longest(V, Root, From(n, 1)) /\ Longest(V, g[n], From(n, 1))
        BY <3>2, <4>2, <1>4, <2>1
      <4> QED
        BY <3>2, <4>3, <2>2
    <3>3. CASE Len(n) >= 2
      <4>1. n # Root /\ Len(n) - 1 \in Nat /\ ~ (Len(n) <= 1)
        BY <3>3, <1>1, <1>2
      <4>2. Longest(V, Walk(V, g, g[Front(n)], Last(n)), From(n, 1))
        BY <3>3, <4>1, <1>5, <2>4
      <4> QED
        BY <4>1, <4>2, <2>1, <2>2
    <3> QED
      BY <3>1, <3>2, <3>3, <1>2
  <2>6. g = [n \in V |-> g[n]]
    BY DEF g
  <2>7. Links(g)
    BY <2>5, <2>6
  <2> QED
    BY <2>7
<1>8. Links(FailLinks(V))
  <2> DEFINE fail == CHOOSE f : Links(f)
  <2>1. Links(fail)
    BY <1>7
  <2>2. FailLinks(V) = fail
    BY DEF FailLinks
  <2> QED
    BY <2>1, <2>2
<1> QED
  BY <1>6, <1>8

\* What New makes of a list: nodes that can be entered, the words among them, each with a
\* size, right links.
Right(matcher, L) ==
    /\ Closed(matcher.nodes, L)
    /\ matcher.words \subseteq matcher.nodes /\ <<>> \notin matcher.words
    /\ \A w \in matcher.words : matcher.size[w] \in Nat
    /\ \A k \in Nat : FailsRight(matcher.nodes, matcher.fail, k)

Lists(L) == Seq([lower : Seq(L), size : Nat])

LEMMA NewIsRight ==
    ASSUME NEW L, NEW listed \in Lists(L)
    PROVE  Right(New(listed), L) /\ New(listed).words = Lowered(listed) \ {<<>>}
<1> DEFINE words == Lowered(listed) \ {<<>>}
<1>1. /\ New(listed).words = words /\ New(listed).nodes = Nodes(words)
      /\ New(listed).fail = FailLinks(Nodes(words))
      /\ New(listed).size = [w \in words |-> ListedSize(listed, w)]
  BY DEF New
<1>2. /\ DOMAIN listed \subseteq Nat
      /\ \A i \in DOMAIN listed : listed[i] \in [lower : Seq(L), size : Nat]
  <2> DEFINE R == [lower : Seq(L), size : Nat]
  <2>1. listed \in Seq(R)
    BY DEF Lists
  <2> HIDE DEF R
  <2>2. DOMAIN listed = 1..Len(listed) /\ Len(listed) \in Nat
        /\ \A i \in 1..Len(listed) : listed[i] \in R
    BY <2>1
  <2>3. DOMAIN listed \subseteq Nat /\ \A i \in DOMAIN listed : listed[i] \in R
    BY <2>2
  <2> QED
    BY <2>3 DEF R
<1>3. words \subseteq Seq(L)
  BY <1>2 DEF Lowered
<1>4. ASSUME NEW w \in words
      PROVE  ListedSize(listed, w) \in Nat
  <2> DEFINE places == {i \in DOMAIN listed : listed[i].lower = w}
  <2>1. places # {} /\ places \subseteq Nat
    BY <1>2 DEF Lowered
  <2>2. \E x \in places : \A y \in places : x <= y
    <3> HIDE DEF places
    <3> QED
      BY <2>1, LeastNatural
  <2>3. Min(places) \in places
    <3> HIDE DEF places
    <3> QED
      BY <2>2 DEF Min
  <2> QED
    BY <1>2, <2>3 DEF ListedSize
<1> HIDE DEF words
<1>5. Closed(Nodes(words), L) /\ words \subseteq Nodes(words)
  BY <1>3, NodesAreClosed
<1>6. \A k \in Nat : FailsRight(Nodes(words), FailLinks(Nodes(words)), k)
  BY <1>5, FailLinksAreRight
<1>7. <<>> \notin words
  BY DEF words
<1> QED
  BY <1>1, <1>4, <1>5, <1>6, <1>7 DEF Right, words

\* A link leads to a shorter node, and to the longest end but the node itself.
LEMMA LinkIsRight ==
    ASSUME NEW L, NEW matcher, Right(matcher, L), NEW n \in matcher.nodes, n # <<>>
    PROVE  /\ 1 \in 0..Len(n) /\ n \in Seq(L) /\ From(n, 1) \in Seq(L)
           /\ Longest(matcher.nodes, matcher.fail[n], From(n, 1))
           /\ matcher.fail[n] \in matcher.nodes /\ Len(matcher.fail[n]) \in Nat
           /\ Len(matcher.fail[n]) < Len(n)
<1>1. n \in Seq(L) /\ Len(n) \in Nat \ {0}
  BY EmptySeq DEF Right, Closed
<1>2. 1 \in 0..Len(n)
  BY <1>1
<1>3. From(n, 1) \in Seq(L) /\ Len(From(n, 1)) = Len(n) - 1
  BY <1>1, <1>2, FromIs
<1>4. Longest(matcher.nodes, matcher.fail[n], From(n, 1))
  BY <1>1 DEF Right, FailsRight, Root
<1>5. /\ matcher.fail[n] \in matcher.nodes /\ matcher.fail[n] \in Seq(L)
      /\ Len(matcher.fail[n]) <= Len(n) - 1
  BY <1>3, <1>4, LongestIs
<1> QED
  BY <1>1, <1>2, <1>3, <1>4, <1>5

\* The word at a node is the longest end of it that is a word, or empty.
LEMMA WordAtIsRight ==
    ASSUME NEW L, NEW matcher, Right(matcher, L), NEW node \in matcher.nodes
    PROVE  Longest(matcher.words \cup {<<>>}, WordAt(matcher, node), node)
<1> DEFINE V == matcher.nodes
           W == matcher.words \cup {<<>>}
           Firsts(f) == f = [n \in V |-> IF n \in matcher.words \/ n = Root THEN n
                                         ELSE f[matcher.fail[n]]]
<1>1. V \subseteq Seq(L) /\ W \subseteq V /\ Root = <<>> /\ \A n \in V : Len(n) \in Nat
  BY DEF Right, Closed, Root
<1>2. \A n \in V : n \in matcher.words \/ n = Root <=> n \in W
  BY DEF Root
<1>3. ASSUME NEW n \in V, n \in W
      PROVE  Longest(W, n, n)
  BY <1>1, <1>3, LongestOfOwn
<1>4. ASSUME NEW n \in V, n \notin W, NEW x, Longest(W, x, matcher.fail[n])
      PROVE  Longest(W, x, n)
  <2>1. /\ 1 \in 0..Len(n) /\ n \in Seq(L) /\ From(n, 1) \in Seq(L)
        /\ Longest(V, matcher.fail[n], From(n, 1))
    BY <1>4, LinkIsRight
  <2> HIDE DEF V, W
  <2>2. Longest(W, x, From(n, 1))
    BY <1>1, <1>4, <2>1, LongestOfPart
  <2>3. \A j \in 0..1 - 1 : From(n, j) \notin W
    BY <1>4, <2>1, FromEnds
  <2> QED
    BY <2>1, <2>2, <2>3, LongestOfRest
<1>5. ASSUME NEW f, Firsts(f), NEW n \in V
      PROVE  Longest(W, f[n], n)
  <2> DEFINE Bad == {k \in Nat : \E m \in V : Len(m) = k /\ ~ Longest(W, f[m], m)}
  <2>1. SUFFICES ASSUME Bad # {}
                 PROVE  FALSE
    BY <1>1
  <2>2. PICK k \in Bad : \A j \in Bad : k <= j
    <3>1. Bad \subseteq Nat
      OBVIOUS
    <3> HIDE DEF Bad
    <3> QED
      BY <2>1, <3>1, LeastNatural
  <2>3. PICK m \in V : Len(m) = k /\ ~ Longest(W, f[m], m)
    BY <2>2
  <2>4. f[m] = IF m \in matcher.words \/ m = Root THEN m ELSE f[matcher.fail[m]]
    <3> HIDE DEF V
    <3> QED
      BY <1>5
  <2>5. m \notin W /\ f[m] = f[matcher.fail[m]]
    BY <1>2, <1>3, <2>3, <2>4
  <2>6. /\ matcher.fail[m] \in V /\ Len(matcher.fail[m]) \in Nat
        /\ Len(matcher.fail[m]) < Len(m)
    BY <2>5, LinkIsRight
  <2>7. Longest(W, f[matcher.fail[m]], matcher.fail[m])
    <3>1. Len(matcher.fail[m]) \notin Bad
      <4> HIDE DEF Bad
      <4> QED
        BY <2>2, <2>3, <2>6, <1>1
    <3> QED
      BY <3>1, <2>6
  <2> HIDE DEF W, V
  <2> QED
    BY <1>4, <2>3, <2>5, <2>7
<1>6. \E f : Firsts(f)
  <2> DEFINE g == [n \in V |-> CHOOSE x : Longest(W, x, n)]
  <2>1. \A n \in V : Longest(W, g[n], n)
    <3>1. <<>> \in W
      OBVIOUS
    <3> HIDE DEF W
    <3> QED
      BY <1>1, <3>1, LongestExists
  <2> HIDE DEF g, W
  <2>2. ASSUME NEW n \in V
        PROVE  g[n] = IF n \in matcher.words \/ n = Root THEN n ELSE g[matcher.fail[n]]
    <3>1. CASE n \in W
      BY <3>1, <1>1, <1>2, <1>3, <2>1, LongestIsOne
    <3>2. CASE n \notin W
      <4>1. matcher.fail[n] \in V
        BY <3>2, LinkIsRight DEF W
      <4>2. Longest(W, g[matcher.fail[n]], n)
        BY <3>2, <4>1, <1>4, <2>1
      <4> QED
        BY <3>2, <4>2, <1>1, <1>2, <2>1, LongestIsOne
    <3> QED
      BY <3>1, <3>2
  <2>3. g = [n \in V |-> g[n]]
    BY DEF g
  <2>4. Firsts(g)
    BY <2>2, <2>3
  <2> QED
    BY <2>4
<1>7. PICK f : Firsts(f) /\ WordAt(matcher, node) = f[node]
  <2> DEFINE first == CHOOSE f : Firsts(f)
  <2>1. Firsts(first)
    BY <1>6
  <2>2. WordAt(matcher, node) = first[node]
    BY DEF WordAt
  <2> QED
    BY <2>1, <2>2
<1>8. Longest(W, f[node], node)
  BY <1>5, <1>7
<1> QED
  BY <1>7, <1>8

-----------------------------------------------------------------------------
(* The scan. *)

\* The part of a text up to a letter, and what is left of it.
LEMMA UpTo ==
    ASSUME NEW L, NEW text \in Seq(L), NEW i \in 0..Len(text)
    PROVE  /\ SubSeq(text, 1, i) \in Seq(L) /\ Len(SubSeq(text, 1, i)) = i
           /\ \A k \in 0..i : From(SubSeq(text, 1, i), k) = SubSeq(text, k + 1, i)
           /\ i > 0 => SubSeq(text, 1, i) = Append(SubSeq(text, 1, i - 1), text[i])
           /\ i > 0 => text[i] \in L
<1>1. \A j \in 1..Len(text) : text[j] \in L
  OBVIOUS
<1> DEFINE t == SubSeq(text, 1, i)
<1>2. t \in Seq(L) /\ Len(t) = i /\ \A j \in 1..i : t[j] = text[j]
  BY <1>1, SubSeqProperties
<1> HIDE DEF t
<1>3. ASSUME NEW k \in 0..i
      PROVE  From(t, k) = SubSeq(text, k + 1, i)
  <2>1. From(t, k) \in Seq(L) /\ Len(From(t, k)) = i - k /\ \A j \in 1..i - k : From(t, k)[j] = t[k + j]
    BY <1>2, FromIs
  <2>2. /\ SubSeq(text, k + 1, i) \in Seq(L) /\ Len(SubSeq(text, k + 1, i)) = i - k
        /\ \A j \in 1..i - k : SubSeq(text, k + 1, i)[j] = text[k + j]
    <3>1. \A j \in k + 1..i : text[j] \in L
      BY <1>1
    <3>2. /\ SubSeq(text, k + 1, i) \in Seq(L)
          /\ Len(SubSeq(text, k + 1, i)) = IF k + 1 <= i THEN i - (k + 1) + 1 ELSE 0
          /\ \A j \in 1..i - (k + 1) + 1 : SubSeq(text, k + 1, i)[j] = text[(k + 1) + j - 1]
      BY <3>1, SubSeqProperties
    <3>3. i - (k + 1) + 1 = i - k /\ \A j \in 1..i - k : (k + 1) + j - 1 = k + j
      OBVIOUS
    <3> QED
      BY <3>2, <3>3
  <2>3. \A j \in 1..i - k : From(t, k)[j] = SubSeq(text, k + 1, i)[j]
    <3>1. \A j \in 1..i - k : k + j \in 1..i
      OBVIOUS
    <3> QED
      BY <1>2, <2>1, <2>2, <3>1
  <2> QED
    BY <2>1, <2>2, <2>3, SeqEqual
<1>4. i > 0 => t = Append(SubSeq(text, 1, i - 1), text[i]) /\ text[i] \in L
  <2> SUFFICES ASSUME i > 0
               PROVE  t = Append(SubSeq(text, 1, i - 1), text[i]) /\ text[i] \in L
    OBVIOUS
  <2> DEFINE u == SubSeq(text, 1, i - 1)
  <2>1. u \in Seq(L) /\ Len(u) = i - 1 /\ \A j \in 1..i - 1 : u[j] = text[j]
    BY <1>1, SubSeqProperties
  <2> HIDE DEF u
  <2>2. text[i] \in L
    BY <1>1
  <2>3. /\ Append(u, text[i]) \in Seq(L) /\ Len(Append(u, text[i])) = i
        /\ \A j \in 1..i - 1 : Append(u, text[i])[j] = text[j]
        /\ Append(u, text[i])[i] = text[i]
    BY <2>1, <2>2, AppendProperties
  <2>4. \A j \in 1..i : t[j] = Append(u, text[i])[j]
    <3>1. \A j \in 1..i : j = i \/ j \in 1..i - 1
      OBVIOUS
    <3> QED
      BY <1>2, <2>3, <3>1
  <2>5. t = Append(u, text[i])
    BY <1>2, <2>3, <2>4, SeqEqual
  <2> QED
    BY <2>2, <2>5 DEF u
<1> QED
  BY <1>2, <1>3, <1>4 DEF t

\* The longest word that ends at a letter: no word that ends there begins before it.
LEMMA WordThatEnds ==
    ASSUME NEW L, NEW text \in Seq(L), NEW i \in 0..Len(text), NEW words, <<>> \notin words,
           NEW w, Longest(words \cup {<<>>}, w, SubSeq(text, 1, i))
    PROVE  /\ w \in words \cup {<<>>} /\ Len(w) \in 0..i
           /\ w # <<>> => w = SubSeq(text, i - Len(w) + 1, i) /\ Len(w) > 0
           /\ \A s \in 1..i : SubSeq(text, s, i) \in words => w # <<>> /\ s >= i - Len(w) + 1
<1> DEFINE t == SubSeq(text, 1, i)
           W == words \cup {<<>>}
<1>1. t \in Seq(L) /\ Len(t) = i /\ \A k \in 0..i : From(t, k) = SubSeq(text, k + 1, i)
  BY UpTo
<1> HIDE DEF t
<1>2. PICK k \in 0..i : w = From(t, k) /\ w \in W /\ \A j \in 0..k - 1 : From(t, j) \notin W
  BY <1>1 DEF Longest, t
<1>3. Len(w) = i - k
  BY <1>1, <1>2, FromIs
<1>4. w = SubSeq(text, k + 1, i) /\ i - Len(w) + 1 = k + 1 /\ Len(w) \in 0..i
  <2>1. w = SubSeq(text, k + 1, i)
    BY <1>1, <1>2
  <2>2. i - (i - k) + 1 = k + 1 /\ i - k \in 0..i
    OBVIOUS
  <2> QED
    BY <2>1, <2>2, <1>3
<1>5. w # <<>> => Len(w) > 0
  <2>1. w \in Seq(L)
    BY <1>1, <1>2, FromIs
  <2> QED
    BY <2>1, EmptySeq
<1>6. ASSUME NEW s \in 1..i, SubSeq(text, s, i) \in words
      PROVE  w # <<>> /\ s >= k + 1
  <2>1. s - 1 \in 0..i /\ (s - 1) + 1 = s
    OBVIOUS
  <2>2. From(t, s - 1) = SubSeq(text, s, i)
    BY <1>1, <2>1
  <2>3. From(t, s - 1) \in W
    BY <1>6, <2>2
  <2>4. s - 1 \notin 0..k - 1
    BY <1>2, <2>3
  <2>5. s >= k + 1
    BY <2>1, <2>4
  <2>6. w # <<>>
    <3>1. Len(w) > 0
      BY <1>3, <2>5
    <3> QED
      BY <3>1, EmptySeq
  <2> QED
    BY <2>5, <2>6
<1>7. \A s \in 1..i : SubSeq(text, s, i) \in words => w # <<>> /\ s >= i - Len(w) + 1
  BY <1>4, <1>6
<1> QED
  BY <1>2, <1>4, <1>5, <1>7

Occurs(words, text, s, e) == s \in 1..e /\ e \in 1..Len(text) /\ SubSeq(text, s, e) \in words

\* What the scan remembers is the first of the words that have ended, there the longest.
Remembers(words, text, i, word, start) ==
    IF start = 0
    THEN word = <<>> /\ \A s, e \in 1..i : ~ Occurs(words, text, s, e)
    ELSE /\ word \in words /\ word # <<>> /\ Len(word) \in Nat /\ start \in 1..i
         /\ Occurs(words, text, start, start + Len(word) - 1) /\ start + Len(word) - 1 <= i
         /\ word = SubSeq(text, start, start + Len(word) - 1)
         /\ \A s, e \in 1..i : Occurs(words, text, s, e) =>
                s > start \/ (s = start /\ e <= start + Len(word) - 1)

\* One letter more.
LEMMA RemembersNext ==
    ASSUME NEW L, NEW text \in Seq(L), NEW i \in 1..Len(text), NEW words, <<>> \notin words,
           NEW word, NEW start, Remembers(words, text, i - 1, word, start),
           NEW w, Longest(words \cup {<<>>}, w, SubSeq(text, 1, i))
    PROVE  LET s == i - Len(w) + 1
           IN  IF w # <<>> /\ (start = 0 \/ s <= start)
               THEN Remembers(words, text, i, w, s)
               ELSE Remembers(words, text, i, word, start)
<1> DEFINE b == i - Len(w) + 1
<1>1. /\ w \in words \cup {<<>>} /\ Len(w) \in 0..i
      /\ w # <<>> => w = SubSeq(text, b, i) /\ Len(w) > 0
      /\ \A s \in 1..i : SubSeq(text, s, i) \in words => w # <<>> /\ s >= b
  <2>1. i \in 0..Len(text)
    OBVIOUS
  <2> QED
    BY <2>1, WordThatEnds
<1>2. b \in Int /\ b + Len(w) - 1 = i /\ (w # <<>> => b \in 1..i)
  BY <1>1
<1>3. ASSUME NEW s \in 1..i, NEW e \in 1..i, Occurs(words, text, s, e)
      PROVE  \/ w # <<>> /\ s >= b
             \/ s \in 1..i - 1 /\ e \in 1..i - 1
  BY <1>1, <1>3 DEF Occurs
<1>4. start = 0 \/ start \in 1..i - 1
  BY DEF Remembers
<1> HIDE DEF b
<1>5. CASE w # <<>> /\ (start = 0 \/ b <= start)
  <2>1. Occurs(words, text, b, i)
    BY <1>1, <1>2, <1>5 DEF Occurs
  <2>2. ASSUME NEW s \in 1..i, NEW e \in 1..i, Occurs(words, text, s, e)
        PROVE  s > b \/ (s = b /\ e <= i)
    <3>1. CASE s >= b
      BY <3>1, <1>2
    <3>2. CASE s \in 1..i - 1 /\ e \in 1..i - 1
      <4>1. start # 0
        BY <2>2, <3>2 DEF Remembers
      <4>2. s > start \/ s = start
        BY <2>2, <3>2, <4>1 DEF Remembers
      <4> QED
        BY <4>1, <4>2, <1>2, <1>4, <1>5
    <3> QED
      BY <1>3, <2>2, <3>1, <3>2
  <2>3. Remembers(words, text, i, w, b)
    <3>1. b # 0 /\ b \in 1..i
      BY <1>2, <1>5
    <3>2. w \in words
      BY <1>1, <1>5
    <3> QED
      BY <1>1, <1>2, <1>5, <2>1, <2>2, <3>1, <3>2 DEF Remembers
  <2> QED
    BY <1>5, <2>3 DEF b
<1>6. CASE w = <<>> /\ start = 0
  <2>1. \A s, e \in 1..i : ~ Occurs(words, text, s, e)
    BY <1>3, <1>6 DEF Remembers
  <2> QED
    BY <1>6, <2>1 DEF Remembers
<1>7. CASE start # 0 /\ (w = <<>> \/ ~ (b <= start))
  <2>1. ASSUME NEW s \in 1..i, NEW e \in 1..i, Occurs(words, text, s, e)
        PROVE  s > start \/ (s = start /\ e <= start + Len(word) - 1)
    <3>1. CASE s \in 1..i - 1 /\ e \in 1..i - 1
      BY <3>1, <2>1, <1>7 DEF Remembers
    <3>2. CASE w # <<>> /\ s >= b
      BY <3>2, <1>2, <1>4, <1>7
    <3> QED
      BY <1>3, <2>1, <3>1, <3>2
  <2>2. Remembers(words, text, i, word, start)
    BY <1>7, <2>1 DEF Remembers
  <2> QED
    BY <1>7, <2>2 DEF b
<1> QED
  BY <1>5, <1>6, <1>7

\* What the scan finds when no word is counted back too far: something, if a word has ended.
Finds(words, text, i, start) ==
    IF start = 0
    THEN \A s, e \in 1..i : ~ Occurs(words, text, s, e)
    ELSE start >= 1 /\ \E s, e \in 1..i : Occurs(words, text, s, e)

LEMMA FindsNext ==
    ASSUME NEW L, NEW text \in Seq(L), NEW i \in 1..Len(text), NEW words, <<>> \notin words,
           NEW start, Finds(words, text, i - 1, start),
           NEW w, Longest(words \cup {<<>>}, w, SubSeq(text, 1, i)),
           NEW size \in Int, Occurs(words, text, i - Len(w) + 1, i) => size <= Len(w)
    PROVE  IF w # <<>> THEN i - size + 1 >= 1 /\ \A x \in Int : x >= 1 => Finds(words, text, i, x)
           ELSE Finds(words, text, i, start)
<1>1. /\ w \in words \cup {<<>>} /\ Len(w) \in 0..i
      /\ w # <<>> => w = SubSeq(text, i - Len(w) + 1, i) /\ Len(w) > 0
      /\ \A s \in 1..i : SubSeq(text, s, i) \in words => w # <<>>
  <2>1. i \in 0..Len(text)
    OBVIOUS
  <2> QED
    BY <2>1, WordThatEnds
<1>2. CASE w # <<>>
  <2>1. i - Len(w) + 1 \in 1..i /\ i \in 1..i
    BY <1>1, <1>2
  <2>2. Occurs(words, text, i - Len(w) + 1, i)
    BY <1>1, <1>2, <2>1 DEF Occurs
  <2>3. i - size + 1 >= 1
    BY <1>1, <2>2
  <2> QED
    BY <1>2, <2>1, <2>2, <2>3 DEF Finds
<1>3. CASE w = <<>>
  <2>1. \A s, e \in 1..i : Occurs(words, text, s, e) => s \in 1..i - 1 /\ e \in 1..i - 1
    BY <1>1, <1>3 DEF Occurs
  <2>2. \A s \in 1..i - 1 : s \in 1..i
    OBVIOUS
  <2> QED
    BY <1>3, <2>1, <2>2 DEF Finds
<1> QED
  BY <1>2, <1>3

\* A letter of the scan.
ScanStep(matcher, text, i, seen) ==
    LET node  == Walk(matcher.nodes, matcher.fail, seen.node, text[i])
        word  == WordAt(matcher, node)
        start == i - matcher.size[word] + 1
    IN  IF word # <<>> /\ (seen.start < 1 \/ start <= seen.start)
        THEN [node |-> node, word |-> word, start |-> start]
        ELSE [seen EXCEPT !.node = node]

ScanStart == [node |-> Root, word |-> <<>>, start |-> 0]

States(matcher) == [node : matcher.nodes, word : matcher.words \cup {<<>>}, start : Int]

\* No word that occurs in a text is listed with more bytes than it has there; none is with
\* more or less.
NoneGrows(matcher, text) ==
    \A s, e \in 1..Len(text) : Occurs(matcher.words, text, s, e) =>
        matcher.size[SubSeq(text, s, e)] <= e - s + 1
NoneDiffers(matcher, text) ==
    \A s, e \in 1..Len(text) : Occurs(matcher.words, text, s, e) =>
        matcher.size[SubSeq(text, s, e)] = e - s + 1

\* After a letter, the node is the longest end of the text so far that is a node, a word is
\* found if one has ended, and the one remembered is the first of them.
ScanHolds(matcher, text, i, seen) ==
    /\ seen \in States(matcher)
    /\ Longest(matcher.nodes, seen.node, SubSeq(text, 1, i))
    /\ NoneGrows(matcher, text) => Finds(matcher.words, text, i, seen.start)
    /\ NoneDiffers(matcher, text) => Remembers(matcher.words, text, i, seen.word, seen.start)

LEMMA ScanStepType ==
    ASSUME NEW L, NEW matcher, Right(matcher, L), NEW text \in Seq(L), NEW i \in 1..Len(text),
           NEW seen \in States(matcher)
    PROVE  /\ ScanStep(matcher, text, i, seen) \in States(matcher)
           /\ LET node == Walk(matcher.nodes, matcher.fail, seen.node, text[i])
                  w    == WordAt(matcher, node)
              IN  /\ Longest(matcher.nodes, node, Append(seen.node, text[i]))
                  /\ Longest(matcher.words \cup {<<>>}, w, node)
<1> DEFINE node == Walk(matcher.nodes, matcher.fail, seen.node, text[i])
           w    == WordAt(matcher, node)
<1>1. seen.node \in matcher.nodes /\ text[i] \in L /\ matcher.nodes \subseteq Seq(L)
  BY DEF States, Right, Closed
<1>2. Len(seen.node) \in Nat
  BY <1>1
<1>3. Longest(matcher.nodes, node, Append(seen.node, text[i]))
  BY <1>1, <1>2, WalkIsRight DEF Right
<1>4. node \in matcher.nodes /\ node \in Seq(L)
  <2>1. Append(seen.node, text[i]) \in Seq(L)
    BY <1>1, AppendProperties
  <2> HIDE DEF node
  <2> QED
    BY <1>3, <2>1, LongestIs
<1> HIDE DEF node
<1>5. Longest(matcher.words \cup {<<>>}, w, node)
  BY <1>4, WordAtIsRight
<1>6. w \in matcher.words \cup {<<>>} /\ w \in Seq(L)
  BY <1>4, <1>5, LongestIs
<1> HIDE DEF w
<1>7. w # <<>> => i - matcher.size[w] + 1 \in Int
  BY <1>6 DEF Right
<1>8. ScanStep(matcher, text, i, seen) =
          IF w # <<>> /\ (seen.start < 1 \/ i - matcher.size[w] + 1 <= seen.start)
          THEN [node |-> node, word |-> w, start |-> i - matcher.size[w] + 1]
          ELSE [seen EXCEPT !.node = node]
  BY DEF ScanStep, node, w
<1>9. ScanStep(matcher, text, i, seen) \in States(matcher)
  <2>1. seen.word \in matcher.words \cup {<<>>} /\ seen.start \in Int
        /\ seen = [node |-> seen.node, word |-> seen.word, start |-> seen.start]
    BY DEF ScanHolds, States
  <2>2. [seen EXCEPT !.node = node] = [node |-> node, word |-> seen.word, start |-> seen.start]
    BY <2>1
  <2> QED
    BY <1>4, <1>6, <1>7, <1>8, <2>1, <2>2 DEF States
<1> QED
  BY <1>3, <1>5, <1>9 DEF node, w

LEMMA ScanStepHolds ==
    ASSUME NEW L, NEW matcher, Right(matcher, L), NEW text \in Seq(L), NEW i \in 1..Len(text),
           NEW seen, ScanHolds(matcher, text, i - 1, seen)
    PROVE  ScanHolds(matcher, text, i, ScanStep(matcher, text, i, seen))
<1> DEFINE node == Walk(matcher.nodes, matcher.fail, seen.node, text[i])
           w    == WordAt(matcher, node)
           r    == ScanStep(matcher, text, i, seen)
           size == IF w # <<>> THEN matcher.size[w] ELSE 0
           b    == i - size + 1
<1>1. /\ seen \in States(matcher)
      /\ Longest(matcher.nodes, seen.node, SubSeq(text, 1, i - 1))
      /\ NoneGrows(matcher, text) => Finds(matcher.words, text, i - 1, seen.start)
      /\ NoneDiffers(matcher, text) => Remembers(matcher.words, text, i - 1, seen.word, seen.start)
  BY DEF ScanHolds
<1>2. /\ r \in States(matcher)
      /\ Longest(matcher.nodes, node, Append(seen.node, text[i]))
      /\ Longest(matcher.words \cup {<<>>}, w, node)
  BY <1>1, ScanStepType
<1>3. r = IF w # <<>> /\ (seen.start < 1 \/ b <= seen.start)
          THEN [node |-> node, word |-> w, start |-> b]
          ELSE [seen EXCEPT !.node = node]
  BY DEF ScanStep
<1> HIDE DEF node, w, r, b
<1>4. /\ SubSeq(text, 1, i - 1) \in Seq(L) /\ text[i] \in L /\ SubSeq(text, 1, i) \in Seq(L)
      /\ SubSeq(text, 1, i) = Append(SubSeq(text, 1, i - 1), text[i])
  <2>1. i \in 0..Len(text) /\ i - 1 \in 0..Len(text) /\ i > 0
    OBVIOUS
  <2> QED
    BY <2>1, UpTo
<1>5. Longest(matcher.nodes, node, SubSeq(text, 1, i))
  BY <1>1, <1>2, <1>4, LongestAppend DEF Right
<1>6. matcher.words \cup {<<>>} \subseteq matcher.nodes /\ <<>> \notin matcher.words
  BY DEF Right, Closed
<1>7. Longest(matcher.words \cup {<<>>}, w, SubSeq(text, 1, i))
  BY <1>2, <1>4, <1>5, <1>6, LongestOfPart
<1>8. /\ w \in matcher.words \cup {<<>>} /\ Len(w) \in 0..i
      /\ w # <<>> => w = SubSeq(text, i - Len(w) + 1, i) /\ Len(w) > 0
  <2>1. i \in 0..Len(text)
    OBVIOUS
  <2> QED
    BY <1>6, <1>7, <2>1, WordThatEnds
<1>9. size \in Nat /\ b = i - size + 1 /\ seen.start \in Int
  BY <1>1, <1>8 DEF Right, States, b
<1>10. w # <<>> => /\ Occurs(matcher.words, text, i - Len(w) + 1, i)
                   /\ NoneGrows(matcher, text) => size <= Len(w)
                   /\ NoneDiffers(matcher, text) => size = Len(w)
  <2> SUFFICES ASSUME w # <<>>
               PROVE  /\ Occurs(matcher.words, text, i - Len(w) + 1, i)
                      /\ NoneGrows(matcher, text) => size <= Len(w)
                      /\ NoneDiffers(matcher, text) => size = Len(w)
    OBVIOUS
  <2> DEFINE k == i - Len(w) + 1
  <2>1. k \in 1..i /\ k \in 1..Len(text) /\ i \in 1..Len(text) /\ i - k + 1 = Len(w)
    BY <1>8
  <2>2. w = SubSeq(text, k, i) /\ size = matcher.size[w]
    BY <1>8
  <2> HIDE DEF k, size
  <2>3. Occurs(matcher.words, text, k, i)
    BY <1>8, <2>1, <2>2 DEF Occurs
  <2>4. NoneGrows(matcher, text) => size <= Len(w)
    BY <2>1, <2>2, <2>3 DEF NoneGrows
  <2>5. NoneDiffers(matcher, text) => size = Len(w)
    BY <2>1, <2>2, <2>3 DEF NoneDiffers
  <2> QED
    BY <2>3, <2>4, <2>5 DEF k
<1> HIDE DEF size
<1>11. r.start = (IF w # <<>> /\ (seen.start < 1 \/ b <= seen.start) THEN b ELSE seen.start)
  BY <1>1, <1>3 DEF States
<1>12. r.word = (IF w # <<>> /\ (seen.start < 1 \/ b <= seen.start) THEN w ELSE seen.word)
  BY <1>1, <1>3 DEF States
<1>13. r.node = node
  BY <1>1, <1>3 DEF States
<1>14. NoneGrows(matcher, text) => Finds(matcher.words, text, i, r.start)
  <2> SUFFICES ASSUME NoneGrows(matcher, text)
               PROVE  Finds(matcher.words, text, i, r.start)
    OBVIOUS
  <2>1. Occurs(matcher.words, text, i - Len(w) + 1, i) => size <= Len(w)
    <3>1. CASE w # <<>>
      BY <1>10, <3>1
    <3>2. CASE w = <<>>
      <4>1. i - Len(w) + 1 = i + 1
        BY <3>2, EmptySeq
      <4> QED
        BY <4>1 DEF Occurs
    <3> QED
      BY <3>1, <3>2
  <2>2. IF w # <<>> THEN b >= 1 /\ \A x \in Int : x >= 1 => Finds(matcher.words, text, i, x)
        ELSE Finds(matcher.words, text, i, seen.start)
    <3> DEFINE words == matcher.words
               last  == seen.start
    <3>1. /\ <<>> \notin words /\ Finds(words, text, i - 1, last) /\ size \in Int
          /\ Longest(words \cup {<<>>}, w, SubSeq(text, 1, i))
          /\ Occurs(words, text, i - Len(w) + 1, i) => size <= Len(w)
      BY <1>1, <1>6, <1>7, <1>9, <2>1
    <3> HIDE DEF words, last
    <3>2. IF w # <<>> THEN i - size + 1 >= 1 /\ \A x \in Int : x >= 1 => Finds(words, text, i, x)
          ELSE Finds(words, text, i, last)
      BY <3>1, FindsNext
    <3> QED
      BY <1>9, <3>2 DEF words, last
  <2>3. CASE w = <<>>
    BY <1>11, <2>2, <2>3
  <2>4. CASE w # <<>>
    <3>1. r.start \in Int /\ r.start >= 1
      BY <1>9, <1>11, <2>2, <2>4
    <3> QED
      BY <2>2, <2>4, <3>1
  <2> QED
    BY <2>3, <2>4
<1>15. NoneDiffers(matcher, text) => Remembers(matcher.words, text, i, r.word, r.start)
  <2> SUFFICES ASSUME NoneDiffers(matcher, text)
               PROVE  Remembers(matcher.words, text, i, r.word, r.start)
    OBVIOUS
  <2>1. IF w # <<>> /\ (seen.start = 0 \/ i - Len(w) + 1 <= seen.start)
        THEN Remembers(matcher.words, text, i, w, i - Len(w) + 1)
        ELSE Remembers(matcher.words, text, i, seen.word, seen.start)
    BY <1>1, <1>6, <1>7, RemembersNext
  <2>2. w # <<>> => b = i - Len(w) + 1
    BY <1>9, <1>10
  <2>3. seen.start < 1 <=> seen.start = 0
    BY <1>1, <1>9 DEF Remembers
  <2>4. CASE w # <<>> /\ (seen.start = 0 \/ b <= seen.start)
    BY <1>11, <1>12, <2>1, <2>2, <2>3, <2>4
  <2>5. CASE ~ (w # <<>> /\ (seen.start = 0 \/ b <= seen.start))
    BY <1>11, <1>12, <2>1, <2>2, <2>3, <2>5
  <2> QED
    BY <2>4, <2>5
<1> QED
  BY <1>2, <1>5, <1>13, <1>14, <1>15 DEF ScanHolds, r

\* The scan of the whole text.
LEMMA ScanIsRight ==
    ASSUME NEW L, NEW matcher, Right(matcher, L), NEW text \in Seq(L)
    PROVE  \E seen : /\ ScanHolds(matcher, text, Len(text), seen)
                     /\ Find(matcher, text) = [word |-> seen.word, start |-> seen.start]
<1> DEFINE n == Len(text)
           Scans(f) == f = [i \in 0..n |-> IF i = 0 THEN ScanStart
                                           ELSE ScanStep(matcher, text, i, f[i - 1])]
<1>1. n \in Nat
  OBVIOUS
<1>2. ScanStart \in States(matcher) /\ ScanHolds(matcher, text, 0, ScanStart)
  <2>1. <<>> \in matcher.nodes /\ SubSeq(text, 1, 0) = <<>>
    BY SubSeqEmpty DEF Right, Closed
  <2>2. Longest(matcher.nodes, <<>>, <<>>)
    BY <2>1, LongestOfOwn, EmptySeq
  <2>3. Remembers(matcher.words, text, 0, <<>>, 0) /\ Finds(matcher.words, text, 0, 0)
    BY DEF Remembers, Finds
  <2>4. ScanStart \in States(matcher)
    BY <2>1 DEF ScanStart, States, Root
  <2> QED
    BY <2>1, <2>2, <2>3, <2>4 DEF ScanStart, ScanHolds, Root
<1>3. \E f : Scans(f)
  <2> DEFINE S == States(matcher)
             step == [p \in Nat \X S |-> IF p[1] \in 1..n
                                         THEN ScanStep(matcher, text, p[1], p[2]) ELSE p[2]]
  <2>1. step \in [Nat \X S -> S]
    BY ScanStepType
  <2>2. PICK f \in [0..n -> S] : Counts(f, n, ScanStart, step)
    <3> HIDE DEF S, step, n
    <3> QED
      BY <1>1, <1>2, <2>1, Recursion DEF S
  <2>3. ASSUME NEW i \in 0..n, i # 0
        PROVE  step[<<i, f[i - 1]>>] = ScanStep(matcher, text, i, f[i - 1])
    <3>1. i \in Nat /\ i \in 1..n /\ i - 1 \in 0..n
      BY <1>1, <2>3
    <3>2. f[i - 1] \in S
      BY <3>1
    <3> QED
      BY <3>1, <3>2
  <2>4. f = [i \in 0..n |-> IF i = 0 THEN ScanStart ELSE step[<<i, f[i - 1]>>]]
    BY <2>2 DEF Counts
  <2>5. Scans(f)
    <3> HIDE DEF step, S, n
    <3> QED
      BY <2>3, <2>4
  <2> QED
    BY <2>5
<1>4. PICK f : Scans(f) /\ Find(matcher, text) = [word |-> f[n].word, start |-> f[n].start]
  <2> DEFINE scan == CHOOSE f : Scans(f)
  <2>1. Scans(scan)
    BY <1>3
  <2>2. Find(matcher, text) = [word |-> scan[n].word, start |-> scan[n].start]
    BY DEF Find, ScanStep, ScanStart
  <2> QED
    BY <2>1, <2>2
<1>5. \A i \in 0..n : f[i] = IF i = 0 THEN ScanStart ELSE ScanStep(matcher, text, i, f[i - 1])
  <2> HIDE DEF n
  <2> QED
    BY <1>4
<1>6. ScanHolds(matcher, text, n, f[n])
  <2> DEFINE Bad == {i \in 0..n : ~ ScanHolds(matcher, text, i, f[i])}
  <2> SUFFICES ASSUME Bad # {}
               PROVE  FALSE
    BY <1>1
  <2>1. PICK i \in Bad : \A j \in Bad : i <= j
    <3>1. Bad \subseteq Nat
      BY <1>1
    <3> HIDE DEF Bad
    <3> QED
      BY <3>1, LeastNatural
  <2>2. i \in 0..n /\ ~ ScanHolds(matcher, text, i, f[i])
    BY <2>1
  <2>3. i # 0 /\ i \in 1..n /\ i - 1 \in 0..n
    BY <1>1, <1>2, <1>5, <2>2
  <2>4. ScanHolds(matcher, text, i - 1, f[i - 1])
    <3>1. i - 1 \notin Bad
      <4> HIDE DEF Bad
      <4> QED
        BY <2>1, <2>3
    <3> QED
      BY <3>1, <2>3
  <2>5. ScanHolds(matcher, text, i, ScanStep(matcher, text, i, f[i - 1]))
    BY <2>3, <2>4, ScanStepHolds
  <2> QED
    BY <1>5, <2>2, <2>3, <2>5
<1> QED
  BY <1>4, <1>6

\* Where a word occurs, in terms of the scan.
LEMMA OccursIs ==
    ASSUME NEW L, NEW words, words \subseteq Seq(L), <<>> \notin words, NEW text \in Seq(L),
           NEW w \in words
    PROVE  /\ Len(w) \in Nat \ {0}
           /\ \A s : s \in Occurrences(w, text) <=>
                  /\ s \in 1..Len(text) /\ s + Len(w) - 1 \in 1..Len(text)
                  /\ SubSeq(text, s, s + Len(w) - 1) = w
           /\ \A s \in Occurrences(w, text) : Occurs(words, text, s, s + Len(w) - 1)
<1> DEFINE n == Len(text)
<1>1. w \in Seq(L) /\ Len(w) \in Nat \ {0} /\ n \in Nat
  BY EmptySeq
<1>2. \A s : s \in Occurrences(w, text) <=>
          s \in 1..n - Len(w) + 1 /\ SubSeq(text, s, s + Len(w) - 1) = w
  BY DEF Occurrences
<1>3. \A s : s \in 1..n - Len(w) + 1 <=> s \in 1..n /\ s + Len(w) - 1 \in 1..n
  BY <1>1
<1>4. \A s \in 1..n : s \in 1..s + Len(w) - 1
  BY <1>1
<1> QED
  BY <1>1, <1>2, <1>3, <1>4 DEF Occurs

\* What occurs in the scan is a word that occurs.
LEMMA OccursOccurs ==
    ASSUME NEW L, NEW words, NEW text \in Seq(L), NEW s, NEW e, Occurs(words, text, s, e),
           <<>> \notin words
    PROVE  /\ SubSeq(text, s, e) \in Occurring(words, text)
           /\ Len(SubSeq(text, s, e)) = e - s + 1
           /\ s \in Occurrences(SubSeq(text, s, e), text)
<1> DEFINE w == SubSeq(text, s, e)
<1>1. s \in 1..e /\ e \in 1..Len(text) /\ w \in words
  BY DEF Occurs
<1>2. Len(w) = e - s + 1
  BY <1>1, SubSeqProperties
<1>3. s \in 1..Len(text) - Len(w) + 1 /\ s + Len(w) - 1 = e
  BY <1>1, <1>2
<1>4. s \in Occurrences(w, text)
  BY <1>3 DEF Occurrences
<1> QED
  BY <1>1, <1>2, <1>4 DEF Occurring

\* The filter misses no word in a text in which none of the words that lower-casing shortens
\* occurs, and finds none where there is none: for every list of words and every such text
\* (New and Find in pkg/ahocorasick).
THEOREM FindMissesNothing ==
    ASSUME NEW L, NEW listed \in Lists(L), NEW text \in Seq(L),
           Occurring(Lowered(listed), text) \cap Shortened(New(listed)) = {}
    PROVE  Found(Find(New(listed), text)) <=> Occurring(Lowered(listed), text) # {}
<1> DEFINE n == Len(text)
           matcher == New(listed)
           W == Lowered(listed) \ {<<>>}
<1>1. Right(matcher, L) /\ matcher.words = W
  BY NewIsRight
<1>2. PICK seen : /\ ScanHolds(matcher, text, n, seen)
                  /\ Find(matcher, text) = [word |-> seen.word, start |-> seen.start]
  BY <1>1, ScanIsRight
<1>3. W \subseteq Seq(L) /\ <<>> \notin W /\ Occurring(Lowered(listed), text) = Occurring(W, text)
  BY <1>1 DEF Right, Closed, Occurring
<1> HIDE DEF W, matcher
<1>4. NoneGrows(matcher, text)
  <2> SUFFICES ASSUME NEW s \in 1..Len(text), NEW e \in 1..Len(text),
                      Occurs(W, text, s, e)
               PROVE  matcher.size[SubSeq(text, s, e)] <= e - s + 1
    BY <1>1 DEF NoneGrows
  <2> DEFINE w == SubSeq(text, s, e)
  <2>1. w \in Occurring(W, text) /\ Len(w) = e - s + 1 /\ w \in W
    BY <1>3, OccursOccurs DEF Occurs
  <2>2. w \notin Shortened(matcher)
    BY <1>3, <2>1 DEF matcher
  <2>3. matcher.size[w] \in Nat /\ ~ (matcher.size[w] > Len(w))
    BY <1>1, <2>1, <2>2 DEF Shortened, Right
  <2> HIDE DEF w
  <2>4. matcher.size[w] <= e - s + 1
    BY <2>1, <2>3
  <2> QED
    BY <2>4 DEF w
<1>5. Finds(W, text, n, seen.start)
  BY <1>1, <1>2, <1>4 DEF ScanHolds
<1>6. CASE seen.start = 0
  <2>1. \A s, e \in 1..n : ~ Occurs(W, text, s, e)
    BY <1>5, <1>6 DEF Finds
  <2>2. Occurring(W, text) = {}
    BY <1>3, <2>1, OccursIs DEF Occurring
  <2> QED
    BY <1>2, <1>3, <1>6, <2>2 DEF Found, matcher
<1>7. CASE seen.start # 0
  <2>1. seen.start >= 1 /\ \E s, e \in 1..n : Occurs(W, text, s, e)
    BY <1>5, <1>7 DEF Finds
  <2>2. Occurring(W, text) # {}
    BY <1>3, <2>1, OccursOccurs
  <2> QED
    BY <1>2, <1>3, <2>1, <2>2 DEF Found, matcher
<1> QED
  BY <1>6, <1>7

\* Where every word that occurs in a text has as many bytes there as it is listed with, the
\* filter finds the word that begins first, and of those that begin there the longest
\* (New and Find in pkg/ahocorasick).
THEOREM FindIsFirstOccurrence ==
    ASSUME NEW L, NEW listed \in Lists(L), NEW text \in Seq(L),
           \A w \in Occurring(Lowered(listed), text) : New(listed).size[w] = Len(w)
    PROVE  Find(New(listed), text) = FirstOccurrence(Lowered(listed), text)
<1> DEFINE n == Len(text)
           words == Lowered(listed)
           W == words \ {<<>>}
           found == Occurring(words, text)
<1>1. Right(New(listed), L) /\ New(listed).words = W /\ W \subseteq Seq(L) /\ <<>> \notin W
  BY NewIsRight DEF Right, Closed
<1>2. PICK seen : /\ ScanHolds(New(listed), text, n, seen)
                  /\ Find(New(listed), text) = [word |-> seen.word, start |-> seen.start]
  BY <1>1, ScanIsRight
<1>3. Remembers(W, text, n, seen.word, seen.start) /\ n \in Nat
  <2>1. Occurring(words, text) = Occurring(W, text)
    BY DEF Occurring
  <2> HIDE DEF words, W
  <2>2. NoneDiffers(New(listed), text)
    <3> SUFFICES ASSUME NEW s \in 1..Len(text), NEW e \in 1..Len(text),
                        Occurs(W, text, s, e)
                 PROVE  New(listed).size[SubSeq(text, s, e)] = e - s + 1
      BY <1>1 DEF NoneDiffers
    <3> DEFINE w == SubSeq(text, s, e)
    <3>1. w \in Occurring(W, text) /\ Len(w) = e - s + 1
      <4>1. <<>> \notin W
        BY <1>1
      <4> QED
        BY <4>1, OccursOccurs
    <3>2. w \in Occurring(Lowered(listed), text)
      BY <2>1, <3>1 DEF words
    <3> QED
      BY <3>1, <3>2
  <2> QED
    BY <1>1, <1>2, <2>2 DEF ScanHolds
<1>4. ASSUME NEW w \in W
      PROVE  /\ w \in Seq(L) /\ Len(w) \in Nat \ {0}
             /\ \A s : s \in Occurrences(w, text) <=>
                    /\ s \in 1..n /\ s + Len(w) - 1 \in 1..n
                    /\ SubSeq(text, s, s + Len(w) - 1) = w
             /\ \A s \in Occurrences(w, text) : Occurs(W, text, s, s + Len(w) - 1)
  <2>1. w \in Seq(L)
    BY <1>1
  <2> HIDE DEF W
  <2> QED
    BY <1>1, <2>1, OccursIs DEF n
<1>5. ASSUME NEW w \in W, NEW s \in Occurrences(w, text)
      PROVE  s \in 1..n /\ s + Len(w) - 1 \in 1..n /\ Occurs(W, text, s, s + Len(w) - 1)
  <2> HIDE DEF W, n
  <2> QED
    BY <1>4
<1> HIDE DEF W, n
<1>6. found = {w \in W : Occurrences(w, text) # {}}
  BY DEF Occurring, W
<1> HIDE DEF found
<1>7. CASE seen.start = 0
  <2>1. seen.word = <<>> /\ \A s, e \in 1..n : ~ Occurs(W, text, s, e)
    BY <1>3, <1>7 DEF Remembers
  <2>2. found = {}
    BY <1>5, <1>6, <2>1
  <2>3. found = Occurring(words, text)
    BY DEF found
  <2>4. FirstOccurrence(words, text) = [word |-> <<>>, start |-> 0]
    BY <2>2, <2>3 DEF FirstOccurrence
  <2> QED
    BY <1>2, <1>7, <2>1, <2>2, <2>3, <2>4
<1>8. CASE seen.start # 0
  <2> DEFINE w == seen.word
             b == seen.start
             starts == UNION {Occurrences(v, text) : v \in found}
             there == {v \in found : b \in Occurrences(v, text)}
  <2>1. /\ w \in W /\ b \in 1..n /\ Len(w) \in Nat /\ w # <<>> /\ b + Len(w) - 1 <= n
        /\ w = SubSeq(text, b, b + Len(w) - 1)
        /\ \A s, e \in 1..n : Occurs(W, text, s, e) =>
               s > b \/ (s = b /\ e <= b + Len(w) - 1)
    BY <1>3, <1>8 DEF Remembers
  <2> HIDE DEF w, b
  <2>2. b \in Occurrences(w, text)
    <3>1. Len(w) > 0
      BY <1>4, <2>1
    <3>2. b + Len(w) - 1 \in 1..n
      BY <1>3, <2>1, <3>1
    <3> QED
      BY <1>4, <2>1, <3>2
  <2>3. w \in found /\ b \in starts /\ w \in there
    BY <1>6, <2>1, <2>2
  <2>4. \A s \in starts : s \in Int /\ b <= s
    <3>1. ASSUME NEW v \in found, NEW s \in Occurrences(v, text)
          PROVE  s \in Int /\ b <= s
      <4>1. v \in W
        BY <1>6
      <4>2. s \in 1..n /\ s + Len(v) - 1 \in 1..n /\ Occurs(W, text, s, s + Len(v) - 1)
        BY <1>5, <4>1
      <4> QED
        BY <2>1, <4>2
    <3> QED
      BY <3>1
  <2>5. Min(starts) = b
    <3> HIDE DEF starts
    <3>1. \E x \in starts : \A y \in starts : x <= y
      BY <2>3, <2>4
    <3>2. PICK m : m = Min(starts) /\ m \in starts /\ \A y \in starts : m <= y
      BY <3>1 DEF Min
    <3>3. m \in Int /\ b \in Int /\ m <= b /\ b <= m
      BY <2>1, <2>3, <2>4, <3>2
    <3>4. m = b
      BY <3>3
    <3> QED
      BY <3>2, <3>4
  <2>6. ASSUME NEW v \in there
        PROVE  /\ Len(v) \in Nat /\ Len(v) <= Len(w)
               /\ Len(v) = Len(w) => v = w
    <3>1. v \in W /\ b \in Occurrences(v, text)
      BY <1>6
    <3>2. Len(v) \in Nat /\ v = SubSeq(text, b, b + Len(v) - 1)
      BY <1>4, <3>1
    <3>3. b + Len(v) - 1 \in 1..n /\ Occurs(W, text, b, b + Len(v) - 1)
      BY <1>5, <3>1
    <3>4. b + Len(v) - 1 <= b + Len(w) - 1
      BY <2>1, <3>3
    <3>5. Len(v) <= Len(w)
      BY <2>1, <3>2, <3>4
    <3>6. Len(v) = Len(w) => v = w
      BY <2>1, <3>2
    <3> QED
      BY <3>2, <3>5, <3>6
  <2>7. (CHOOSE v \in there : \A u \in there : Len(u) <= Len(v)) = w
    <3> HIDE DEF there
    <3>1. \E v \in there : \A u \in there : Len(u) <= Len(v)
      BY <2>3, <2>6
    <3>2. PICK x : /\ x = CHOOSE v \in there : \A u \in there : Len(u) <= Len(v)
                   /\ x \in there /\ \A u \in there : Len(u) <= Len(x)
      BY <3>1
    <3>3. Len(x) = Len(w)
      BY <2>1, <2>3, <2>6, <3>2
    <3> QED
      BY <2>6, <3>2, <3>3
  <2>8. found # {}
    BY <2>3
  <2>9. FirstOccurrence(words, text) = [word |-> w, start |-> b]
    <3> HIDE DEF there, starts
    <3>1. FirstOccurrence(words, text) =
             [word |-> CHOOSE v \in {v \in found : Min(starts) \in Occurrences(v, text)} :
                           \A u \in {x \in found : Min(starts) \in Occurrences(x, text)} :
                               Len(u) <= Len(v),
              start |-> Min(starts)]
      BY <2>8 DEF FirstOccurrence, found, starts
    <3> QED
      BY <2>5, <2>7, <3>1 DEF there
  <2>10. found = Occurring(words, text)
    BY DEF found
  <2> QED
    BY <1>2, <2>1, <2>8, <2>9, <2>10 DEF w, b
<1> QED
  BY <1>7, <1>8

-----------------------------------------------------------------------------
(* The texts: the filter reads every word that the model can read. *)

\* Sequences joined one after the other.
LEMMA Flatten ==
    ASSUME NEW A, NEW seqs \in Seq(Seq(A))
    PROVE  \E f \in [0..Len(seqs) -> Seq(A)] :
               /\ f[0] = <<>> /\ f[Len(seqs)] = FlattenSeq(seqs)
               /\ \A i \in 1..Len(seqs) : f[i] = f[i - 1] \o seqs[i]
<1> DEFINE n == Len(seqs)
           S == Seq(A)
           Flattens(f) == f = [i \in 1..n |-> IF i = 1 THEN seqs[i] ELSE f[i - 1] \o seqs[i]]
           step == [p \in Nat \X S |-> IF p[1] \in 1..n THEN p[2] \o seqs[p[1]] ELSE p[2]]
<1>1. n \in Nat /\ <<>> \in S /\ \A i \in 1..n : seqs[i] \in S
  BY EmptySeq
<1>2. step \in [Nat \X S -> S]
  BY <1>1, ConcatProperties
<1>3. PICK f \in [0..n -> S] : Counts(f, n, <<>>, step)
  <2> HIDE DEF S, step, n
  <2> QED
    BY <1>1, <1>2, Recursion
<1>4. f[0] = <<>> /\ \A i \in 1..n : f[i] = f[i - 1] \o seqs[i]
  <2>1. \A i \in 0..n : f[i] = IF i = 0 THEN <<>> ELSE step[<<i, f[i - 1]>>]
    <3> HIDE DEF step, n
    <3> QED
      BY <1>3, Zenon DEF Counts
  <2>2. \A i \in 1..n : i \in Nat /\ i \in 0..n /\ i - 1 \in 0..n /\ i # 0
    BY <1>1
  <2>3. \A i \in 1..n : step[<<i, f[i - 1]>>] = f[i - 1] \o seqs[i]
    BY <2>2
  <2>4. 0 \in 0..n
    BY <1>1
  <2> HIDE DEF step
  <2> QED
    BY <2>1, <2>2, <2>3, <2>4
<1>5. ASSUME n # 0
      PROVE  1 \in 1..n /\ n \in 1..n /\ f[1] = seqs[1]
  <2>1. 1 \in 1..n /\ n \in 1..n /\ 1 - 1 = 0
    BY <1>1, <1>5
  <2>2. f[1] = <<>> \o seqs[1] /\ seqs[1] \in S
    BY <1>1, <1>4, <2>1
  <2> QED
    BY <2>1, <2>2, ConcatEmptySeq
<1>6. CASE n = 0
  BY <1>3, <1>4, <1>6, EmptySeq DEF FlattenSeq
<1>7. CASE n # 0
  <2>1. \E g : Flattens(g)
    <3> DEFINE g == [i \in 1..n |-> f[i]]
    <3>1. ASSUME NEW i \in 1..n
          PROVE  g[i] = IF i = 1 THEN seqs[i] ELSE g[i - 1] \o seqs[i]
      <4>1. CASE i = 1
        BY <1>7, <1>5, <4>1
      <4>2. CASE i # 1
        <5>1. i - 1 \in 1..n
          BY <1>1, <4>2
        <5> QED
          BY <1>4, <4>2, <5>1
      <4> QED
        BY <4>1, <4>2
    <3>2. Flattens(g)
      BY <3>1
    <3> QED
      BY <3>2
  <2>2. PICK g : Flattens(g) /\ FlattenSeq(seqs) = g[n]
    <3> DEFINE flatten == CHOOSE g : Flattens(g)
    <3>1. Flattens(flatten)
      BY <2>1
    <3>2. FlattenSeq(seqs) = flatten[n]
      BY <1>7 DEF FlattenSeq
    <3> QED
      BY <3>1, <3>2
  <2>3. \A i \in 1..n : g[i] = IF i = 1 THEN seqs[i] ELSE g[i - 1] \o seqs[i]
    <3> HIDE DEF n
    <3> QED
      BY <2>2
  <2>4. g[n] = f[n]
    <3> DEFINE Bad == {i \in 1..n : g[i] # f[i]}
    <3>5. n \in 1..n
      BY <1>7, <1>5
    <3> SUFFICES ASSUME Bad # {}
                 PROVE  FALSE
      BY <3>5
    <3>1. PICK i \in Bad : \A j \in Bad : i <= j
      <4>1. Bad \subseteq Nat
        OBVIOUS
      <4> HIDE DEF Bad
      <4> QED
        BY <4>1, LeastNatural
    <3>2. i \in 1..n /\ g[i] # f[i]
      BY <3>1
    <3>3. CASE i = 1
      <4>1. g[i] = seqs[i] /\ f[i] = seqs[i]
        BY <1>7, <1>5, <2>3, <3>2, <3>3
      <4> QED
        BY <3>2, <4>1
    <3>4. CASE i # 1
      <4>1. i - 1 \in 1..n /\ i - 1 \notin Bad
        <5>1. i - 1 \in 1..n /\ i - 1 < i
          BY <1>1, <3>2, <3>4
        <5> HIDE DEF Bad
        <5> QED
          BY <3>1, <3>2, <5>1
      <4>2. g[i - 1] = f[i - 1]
        BY <4>1
      <4> QED
        BY <1>4, <2>3, <3>2, <3>4, <4>2
    <3> QED
      BY <3>3, <3>4
  <2> QED
    BY <1>3, <1>4, <2>2, <2>4
<1> QED
  BY <1>6, <1>7

\* Where each letter of a text with marks stands in the text without them.
Aligned(full, plain, pos) ==
    /\ pos \in [1..Len(full) -> 0..Len(plain)]
    /\ \A i \in 1..Len(full) :
           full[i] \notin Marks => pos[i] \in 1..Len(plain) /\ plain[pos[i]] = full[i]
    /\ \A i \in 1..Len(full) : i + 1 \in 1..Len(full) =>
           (full[i] \notin Marks /\ full[i + 1] \notin Marks => pos[i + 1] = pos[i] + 1)
    /\ Len(full) > 0 => (full[Len(full)] \notin Marks => pos[Len(full)] = Len(plain))

\* A text joins both.
LEMMA AlignText ==
    ASSUME NEW A, NEW full \in Seq(A), NEW plain \in Seq(A), NEW t \in Seq(A), NEW pos,
           Aligned(full, plain, pos)
    PROVE  \E q : Aligned(full \o t, plain \o t, q)
<1> DEFINE l == Len(full)
           m == Len(plain)
           n == Len(t)
           q == [i \in 1..l + n |-> IF i <= l THEN pos[i] ELSE m + (i - l)]
<1>1. l \in Nat /\ m \in Nat /\ n \in Nat
  OBVIOUS
<1>2. /\ Len(full \o t) = l + n /\ Len(plain \o t) = m + n
      /\ \A i \in 1..l + n : (full \o t)[i] = IF i <= l THEN full[i] ELSE t[i - l]
      /\ \A i \in 1..m + n : (plain \o t)[i] = IF i <= m THEN plain[i] ELSE t[i - m]
  BY ConcatProperties
<1>3. /\ pos \in [1..l -> 0..m]
      /\ \A i \in 1..l : full[i] \notin Marks => pos[i] \in 1..m /\ plain[pos[i]] = full[i]
      /\ \A i \in 1..l : i + 1 \in 1..l =>
             (full[i] \notin Marks /\ full[i + 1] \notin Marks => pos[i + 1] = pos[i] + 1)
      /\ l > 0 => (full[l] \notin Marks => pos[l] = m)
  BY DEF Aligned
<1> DEFINE F == full \o t
           P == plain \o t
<1> HIDE DEF l, m, n, F, P
<1>4. \A i \in 1..l + n : i <= l => i \in 1..l
  BY <1>1
<1>5. \A i \in 1..l + n : ~ (i <= l) => i - l \in 1..n /\ m + (i - l) \in 1..m + n /\ ~ (m + (i - l) <= m)
  BY <1>1
<1>6. q \in [1..l + n -> 0..m + n]
  BY <1>1, <1>3, <1>4, <1>5
<1>7. ASSUME NEW i \in 1..l + n, F[i] \notin Marks
      PROVE  q[i] \in 1..m + n /\ P[q[i]] = F[i]
  <2>1. CASE i <= l
    <3>1. i \in 1..l /\ F[i] = full[i] /\ q[i] = pos[i]
      BY <1>2, <1>4, <2>1 DEF F
    <3>2. pos[i] \in 1..m /\ plain[pos[i]] = full[i]
      BY <1>3, <1>7, <3>1
    <3>3. pos[i] \in 1..m + n /\ pos[i] <= m
      BY <1>1, <3>2
    <3> QED
      BY <1>2, <3>1, <3>2, <3>3 DEF P
  <2>2. CASE ~ (i <= l)
    <3>1. F[i] = t[i - l] /\ q[i] = m + (i - l)
      BY <1>2, <2>2 DEF F
    <3>2. m + (i - l) \in 1..m + n /\ ~ (m + (i - l) <= m) /\ (m + (i - l)) - m = i - l
      BY <1>1, <1>5, <2>2
    <3> QED
      BY <1>2, <3>1, <3>2 DEF P
  <2> QED
    BY <2>1, <2>2
<1>8. ASSUME NEW i \in 1..l + n, i + 1 \in 1..l + n, F[i] \notin Marks, F[i + 1] \notin Marks
      PROVE  q[i + 1] = q[i] + 1
  <2>1. CASE i + 1 <= l
    <3>1. i \in 1..l /\ i + 1 \in 1..l /\ i <= l
      BY <1>1, <1>8, <2>1
    <3>2. F[i] = full[i] /\ F[i + 1] = full[i + 1] /\ q[i] = pos[i] /\ q[i + 1] = pos[i + 1]
      BY <1>2, <1>8, <2>1, <3>1 DEF F
    <3> QED
      BY <1>3, <1>8, <3>1, <3>2
  <2>2. CASE i = l
    <3>1. l > 0 /\ F[l] = full[l] /\ q[i] = pos[l] /\ q[i + 1] = m + ((l + 1) - l)
      BY <1>1, <1>2, <1>8, <2>2 DEF F
    <3>2. pos[l] = m
      BY <1>3, <1>8, <2>2, <3>1
    <3> QED
      BY <1>1, <3>1, <3>2
  <2>3. CASE i > l
    <3>1. q[i] = m + (i - l) /\ q[i + 1] = m + ((i + 1) - l)
      BY <1>1, <1>8, <2>3
    <3> QED
      BY <1>1, <3>1
  <2> QED
    BY <1>1, <2>1, <2>2, <2>3
<1>9. ASSUME l + n > 0, F[l + n] \notin Marks
      PROVE  q[l + n] = m + n
  <2>1. l + n \in 1..l + n
    BY <1>1, <1>9
  <2>2. CASE n = 0
    <3>1. l + n = l /\ l > 0 /\ F[l] = full[l] /\ q[l + n] = pos[l]
      BY <1>1, <1>2, <1>9, <2>1, <2>2 DEF F
    <3> QED
      BY <1>1, <1>3, <1>9, <2>2, <3>1
  <2>3. CASE n # 0
    <3>1. q[l + n] = m + ((l + n) - l)
      BY <1>1, <2>1, <2>3
    <3> QED
      BY <1>1, <3>1
  <2> QED
    BY <2>2, <2>3
<1>10. Aligned(F, P, q)
  <2> HIDE DEF q
  <2>1. Len(F) = l + n /\ Len(P) = m + n
    BY <1>2 DEF F, P
  <2> QED
    BY <1>6, <1>7, <1>8, <1>9, <2>1 DEF Aligned
<1> QED
  BY <1>10 DEF F, P

\* A mark stands in one only.
LEMMA AlignMark ==
    ASSUME NEW A, Marks \subseteq A, NEW full \in Seq(A), NEW plain \in Seq(A), NEW pos,
           Aligned(full, plain, pos), NEW mark \in Marks
    PROVE  \E q : Aligned(full \o <<mark>>, plain \o <<>>, q)
<1> DEFINE l == Len(full)
           m == Len(plain)
           F == full \o <<mark>>
           q == [i \in 1..l + 1 |-> IF i <= l THEN pos[i] ELSE 0]
<1>1. l \in Nat /\ m \in Nat /\ <<mark>> \in Seq(A) /\ Len(<<mark>>) = 1 /\ <<mark>>[1] = mark
  OBVIOUS
<1>2. /\ Len(F) = l + 1
      /\ \A i \in 1..l + 1 : F[i] = IF i <= l THEN full[i] ELSE <<mark>>[i - l]
  BY <1>1, ConcatProperties
<1>3. /\ pos \in [1..l -> 0..m]
      /\ \A i \in 1..l : full[i] \notin Marks => pos[i] \in 1..m /\ plain[pos[i]] = full[i]
      /\ \A i \in 1..l : i + 1 \in 1..l =>
             (full[i] \notin Marks /\ full[i + 1] \notin Marks => pos[i + 1] = pos[i] + 1)
  BY DEF Aligned
<1> HIDE DEF l, m, F
<1>4. \A i \in 1..l + 1 : i = l + 1 \/ (i <= l /\ i \in 1..l)
  BY <1>1
<1>5. F[l + 1] = mark
  <2>1. l + 1 \in 1..l + 1 /\ ~ (l + 1 <= l) /\ (l + 1) - l = 1
    BY <1>1
  <2> QED
    BY <1>1, <1>2, <2>1
<1>6. \A i \in 1..l + 1 : F[i] \notin Marks => i \in 1..l /\ F[i] = full[i] /\ q[i] = pos[i]
  BY <1>2, <1>4, <1>5
<1>7. q \in [1..l + 1 -> 0..m]
  BY <1>1, <1>3, <1>4
<1>8. Aligned(F, plain, q)
  <2> HIDE DEF q
  <2>1. \A i \in 1..l + 1 : F[i] \notin Marks => q[i] \in 1..m /\ plain[q[i]] = F[i]
    BY <1>3, <1>6
  <2>2. \A i \in 1..l + 1 : i + 1 \in 1..l + 1 =>
            (F[i] \notin Marks /\ F[i + 1] \notin Marks => q[i + 1] = q[i] + 1)
    BY <1>3, <1>6
  <2> QED
    BY <1>2, <1>5, <1>7, <2>1, <2>2 DEF Aligned, m
<1> QED
  BY <1>8, ConcatEmptySeq DEF F

\* A word without a mark that stands in one stands in the other.
LEMMA AlignedOccurs ==
    ASSUME NEW A, NEW full \in Seq(A), NEW plain \in Seq(A), NEW pos, Aligned(full, plain, pos),
           NEW L, NEW w \in Seq(L), w # <<>>, ToSet(w) \cap Marks = {}, Occurrences(w, full) # {}
    PROVE  Occurrences(w, plain) # {}
<1> DEFINE n == Len(w)
           l == Len(full)
           m == Len(plain)
<1>1. n \in Nat \ {0} /\ l \in Nat /\ m \in Nat
  BY EmptySeq
<1>2. PICK s \in 1..l - n + 1 : SubSeq(full, s, s + n - 1) = w
  BY DEF Occurrences
<1>3. \A j \in 0..n - 1 : s + j \in 1..l /\ full[s + j] = w[j + 1] /\ full[s + j] \notin Marks
  <2>1. \A i \in s..s + n - 1 : i \in 1..l /\ full[i] \in A
    BY <1>1
  <2>2. \A i \in 1..(s + n - 1) - s + 1 : SubSeq(full, s, s + n - 1)[i] = full[s + i - 1]
    BY <1>1, <2>1, SubSeqProperties
  <2>3. \A j \in 0..n - 1 : /\ j + 1 \in 1..(s + n - 1) - s + 1 /\ s + (j + 1) - 1 = s + j
                            /\ s + j \in s..s + n - 1 /\ j + 1 \in 1..n
    BY <1>1
  <2>4. \A j \in 0..n - 1 : w[j + 1] = full[s + j]
    BY <1>2, <2>2, <2>3
  <2>5. \A i \in 1..n : w[i] \notin Marks
    BY DEF ToSet
  <2> QED
    BY <2>1, <2>3, <2>4, <2>5
<1>4. /\ \A i \in 1..l : full[i] \notin Marks => pos[i] \in 1..m /\ plain[pos[i]] = full[i]
      /\ \A i \in 1..l : i + 1 \in 1..l =>
             (full[i] \notin Marks /\ full[i + 1] \notin Marks => pos[i + 1] = pos[i] + 1)
  BY DEF Aligned
<1> HIDE DEF n, l, m
<1>5. \A j \in 0..n - 1 : pos[s + j] \in 1..m /\ plain[pos[s + j]] = w[j + 1]
  BY <1>3, <1>4
<1>6. s \in Nat /\ s + 0 = s /\ 0 \in 0..n - 1
  BY <1>1
<1>7. \A j \in 0..n - 1 : pos[s + j] = pos[s] + j
  <2> DEFINE Bad == {j \in 0..n - 1 : pos[s + j] # pos[s] + j}
  <2> SUFFICES ASSUME Bad # {}
               PROVE  FALSE
    OBVIOUS
  <2>1. PICK j \in Bad : \A k \in Bad : j <= k
    <3>1. Bad \subseteq Nat
      OBVIOUS
    <3> HIDE DEF Bad
    <3> QED
      BY <3>1, LeastNatural
  <2>2. j \in 0..n - 1 /\ pos[s + j] # pos[s] + j
    BY <2>1
  <2>3. pos[s] \in Nat
    BY <1>5, <1>6
  <2>4. j # 0
    BY <1>6, <2>2, <2>3
  <2>5. j - 1 \in 0..n - 1 /\ j - 1 < j /\ (s + (j - 1)) + 1 = s + j
    BY <1>1, <1>6, <2>2, <2>4
  <2>6. j - 1 \notin Bad
    <3> HIDE DEF Bad
    <3> QED
      BY <2>1, <2>2, <2>5
  <2>7. pos[s + (j - 1)] = pos[s] + (j - 1)
    BY <2>5, <2>6
  <2>8. pos[s + j] = pos[s + (j - 1)] + 1
    BY <1>3, <1>4, <2>2, <2>5
  <2> QED
    BY <2>2, <2>3, <2>5, <2>7, <2>8
<1> DEFINE b == pos[s]
<1>8. b \in 1..m /\ b + (n - 1) \in 1..m
  <2>1. n - 1 \in 0..n - 1
    BY <1>1
  <2>2. pos[s + 0] \in 1..m /\ pos[s + (n - 1)] \in 1..m
    BY <1>5, <1>6, <2>1
  <2>3. pos[s + (n - 1)] = pos[s] + (n - 1)
    BY <1>7, <2>1
  <2> QED
    BY <1>6, <2>2, <2>3
<1> HIDE DEF b
<1>9. \A i \in 1..n : plain[b + i - 1] = w[i]
  <2> SUFFICES ASSUME NEW i \in 1..n
               PROVE  plain[b + i - 1] = w[i]
    OBVIOUS
  <2>1. i - 1 \in 0..n - 1 /\ (i - 1) + 1 = i /\ b + (i - 1) = b + i - 1
    BY <1>1, <1>8
  <2> QED
    BY <1>5, <1>7, <2>1 DEF b
<1>10. SubSeq(plain, b, b + n - 1) = w
  <2> DEFINE e == b + n - 1
  <2>1. e \in Int /\ b \in Int /\ b <= e /\ e - b + 1 = n /\ e <= m
    BY <1>1, <1>8
  <2> HIDE DEF e
  <2>2. \A i \in b..e : plain[i] \in A
    BY <1>8, <2>1 DEF m
  <2>3. /\ SubSeq(plain, b, e) \in Seq(A) /\ Len(SubSeq(plain, b, e)) = n
        /\ \A i \in 1..n : SubSeq(plain, b, e)[i] = plain[b + i - 1]
    BY <2>1, <2>2, SubSeqProperties
  <2>4. w \in Seq(A \cup L) /\ SubSeq(plain, b, e) \in Seq(A \cup L)
    BY <2>3, SeqMonotonic
  <2>5. SubSeq(plain, b, e) = w
    BY <1>9, <2>3, <2>4, SeqEqual DEF n
  <2> QED
    BY <2>5 DEF e
<1>11. b \in Occurrences(w, plain)
  <2>1. b \in 1..m - n + 1
    BY <1>1, <1>8
  <2> QED
    BY <1>10, <2>1 DEF Occurrences, m, n
<1> QED
  BY <1>11

\* The parts of a message over an alphabet: texts, marks of a person, and media.
Plain(pts, A) ==
    /\ Len(pts) \in Nat
    /\ \A i \in 1..Len(pts) :
           \/ pts[i].type = "text" /\ pts[i].text \in Seq(A)
           \/ pts[i].type = "at" /\ \E mark \in Marks : pts[i].text = <<mark>>
           \/ pts[i].type \in Marks

\* What the model reads and the plain text are aligned.
LEMMA ViewsAlign ==
    ASSUME NEW A, Marks \subseteq A, NEW pts, Plain(pts, A)
    PROVE  /\ ForLLM(pts) \in Seq(A) /\ PlainText(pts) \in Seq(A)
           /\ \E pos : Aligned(ForLLM(pts), PlainText(pts), pos)
<1> DEFINE n == Len(pts)
           views == [i \in 1..n |-> IF pts[i].type \in {"text", "at"} THEN pts[i].text
                                    ELSE <<pts[i].type>>]
           plains == [i \in 1..n |-> IF pts[i].type = "text" THEN pts[i].text ELSE <<>>]
<1>1. n \in Nat
  BY DEF Plain
<1>2. ASSUME NEW i \in 1..n
      PROVE  \/ views[i] \in Seq(A) /\ plains[i] = views[i]
             \/ plains[i] = <<>> /\ \E mark \in Marks : views[i] = <<mark>>
  <2>1. "text" \notin Marks /\ "at" \notin Marks
    BY DEF Marks
  <2>2. CASE pts[i].type = "text" /\ pts[i].text \in Seq(A)
    BY <2>2
  <2>3. CASE pts[i].type = "at" /\ \E mark \in Marks : pts[i].text = <<mark>>
    BY <2>3
  <2>4. CASE pts[i].type \in Marks
    <3>1. pts[i].type # "text" /\ pts[i].type # "at"
      BY <2>1, <2>4
    <3>2. views[i] = <<pts[i].type>> /\ plains[i] = <<>>
      BY <3>1
    <3> QED
      BY <2>4, <3>2
  <2> QED
    BY <2>2, <2>3, <2>4 DEF Plain
<1>3. /\ views \in Seq(Seq(A)) /\ Len(views) = n
      /\ plains \in Seq(Seq(A)) /\ Len(plains) = n
  <2>1. \A mark \in Marks : <<mark>> \in Seq(A)
    OBVIOUS
  <2>2. <<>> \in Seq(A)
    BY EmptySeq
  <2>3. DOMAIN views = 1..n /\ views = [i \in 1..n |-> views[i]]
    OBVIOUS
  <2>4. DOMAIN plains = 1..n /\ plains = [i \in 1..n |-> plains[i]]
    OBVIOUS
  <2> HIDE DEF views, plains, n
  <2>5. \A i \in 1..n : views[i] \in Seq(A) /\ plains[i] \in Seq(A)
    BY <1>2, <2>1, <2>2
  <2>6. views \in [1..n -> Seq(A)] /\ plains \in [1..n -> Seq(A)]
    BY <2>3, <2>4, <2>5
  <2> QED
    BY <1>1, <2>6
<1>4. ForLLM(pts) = FlattenSeq(views) /\ PlainText(pts) = FlattenSeq(plains)
  BY DEF ForLLM, PlainText
<1> HIDE DEF views, plains, n
<1>5. PICK f \in [0..n -> Seq(A)] : /\ f[0] = <<>> /\ f[n] = FlattenSeq(views)
                                    /\ \A i \in 1..n : f[i] = f[i - 1] \o views[i]
  <2>1. \E f \in [0..Len(views) -> Seq(A)] :
            /\ f[0] = <<>> /\ f[Len(views)] = FlattenSeq(views)
            /\ \A i \in 1..Len(views) : f[i] = f[i - 1] \o views[i]
    BY <1>3, Flatten
  <2> QED
    BY <1>3, <2>1
<1>6. PICK g \in [0..n -> Seq(A)] : /\ g[0] = <<>> /\ g[n] = FlattenSeq(plains)
                                    /\ \A i \in 1..n : g[i] = g[i - 1] \o plains[i]
  <2>1. \E g \in [0..Len(plains) -> Seq(A)] :
            /\ g[0] = <<>> /\ g[Len(plains)] = FlattenSeq(plains)
            /\ \A i \in 1..Len(plains) : g[i] = g[i - 1] \o plains[i]
    BY <1>3, Flatten
  <2> QED
    BY <1>3, <2>1
<1>7. n \in 0..n
  BY <1>1
<1>8. \E pos : Aligned(f[n], g[n], pos)
  <2> DEFINE Bad == {i \in 0..n : ~ \E pos : Aligned(f[i], g[i], pos)}
  <2> SUFFICES ASSUME Bad # {}
               PROVE  FALSE
    BY <1>7
  <2>1. PICK i \in Bad : \A j \in Bad : i <= j
    <3>1. Bad \subseteq Nat
      OBVIOUS
    <3> HIDE DEF Bad
    <3> QED
      BY <3>1, LeastNatural
  <2>2. i \in 0..n /\ ~ \E pos : Aligned(f[i], g[i], pos)
    BY <2>1
  <2>3. CASE i = 0
    <3> DEFINE pos == [j \in 1..0 |-> 0]
    <3>1. pos \in [1..0 -> 0..0] /\ 1..0 = {}
      OBVIOUS
    <3>2. Aligned(<<>>, <<>>, pos)
      BY <3>1 DEF Aligned
    <3> QED
      BY <1>5, <1>6, <2>2, <2>3, <3>2
  <2>4. CASE i # 0
    <3>1. i \in 1..n /\ i - 1 \in 0..n /\ i - 1 < i
      BY <1>1, <2>2, <2>4
    <3>2. i - 1 \notin Bad
      <4> HIDE DEF Bad
      <4> QED
        BY <2>1, <2>2, <3>1
    <3>3. PICK pos : Aligned(f[i - 1], g[i - 1], pos)
      BY <3>1, <3>2
    <3>4. f[i - 1] \in Seq(A) /\ g[i - 1] \in Seq(A)
      BY <3>1
    <3>5. f[i] = f[i - 1] \o views[i] /\ g[i] = g[i - 1] \o plains[i]
      BY <1>5, <1>6, <3>1
    <3>6. \E q : Aligned(f[i], g[i], q)
      <4>1. CASE views[i] \in Seq(A) /\ plains[i] = views[i]
        BY <3>3, <3>4, <3>5, <4>1, AlignText
      <4>2. CASE plains[i] = <<>> /\ \E mark \in Marks : views[i] = <<mark>>
        BY <3>3, <3>4, <3>5, <4>2, AlignMark
      <4> QED
        BY <1>2, <3>1, <4>1, <4>2
    <3> QED
      BY <2>2, <3>6
  <2> QED
    BY <2>3, <2>4
<1> QED
  BY <1>4, <1>5, <1>6, <1>7, <1>8

\* A word that stands in what the model reads of a message, and holds nothing that stands for
\* a mark, stands in its plain text, which is what the filter looks at (ForLLM and PlainText
\* of domain/entity/message.go): nothing is hidden from it by a mark.
THEOREM PlainTextShowsEveryWord ==
    ASSUME NEW A, Marks \subseteq A, NEW pts, Plain(pts, A), NEW words,
           \A w \in words : w \in Seq(ToSet(w)) /\ ToSet(w) \cap Marks = {}
    PROVE  Occurring(words, ForLLM(pts)) \subseteq Occurring(words, PlainText(pts))
<1>1. /\ ForLLM(pts) \in Seq(A) /\ PlainText(pts) \in Seq(A)
      /\ \E pos : Aligned(ForLLM(pts), PlainText(pts), pos)
  BY ViewsAlign
<1>2. ASSUME NEW w \in words \ {<<>>}, Occurrences(w, ForLLM(pts)) # {}
      PROVE  Occurrences(w, PlainText(pts)) # {}
  BY <1>1, <1>2, AlignedOccurs
<1> QED
  BY <1>2 DEF Occurring

\* What the connection layer makes of a content is plain.
LEMMA ContentsArePlain ==
    ASSUME NEW content \in Contents
    PROVE  \E A : Marks \subseteq A /\ Plain(ToParts(content), A)
<1> DEFINE pts == ToParts(content)
           A == Marks \cup UNION {ToSet(part.text) : part \in ToSet(pts)}
<1>1. /\ Len(content) \in Nat
      /\ pts = [i \in 1..Len(content) |-> Part(content[i])]
  BY TextsAssumption DEF ToParts
<1>2. Len(pts) = Len(content) /\ DOMAIN pts = 1..Len(content)
  BY <1>1
<1>3. ASSUME NEW i \in 1..Len(content)
      PROVE  \/ pts[i].type = "text" /\ pts[i].text \in Seq(A)
             \/ pts[i].type = "at" /\ \E mark \in Marks : pts[i].text = <<mark>>
             \/ pts[i].type \in Marks
  <2> DEFINE seg == content[i]
  <2>1. pts[i] = Part(seg) /\ pts[i] \in ToSet(pts)
    BY <1>1, <1>2 DEF ToSet
  <2>2. pts[i].type = "text" => pts[i].text \in Seq(ToSet(pts[i].text))
    BY <2>1, TextsAssumption
  <2>3. ToSet(pts[i].text) \subseteq A
    BY <2>1
  <2> HIDE DEF A, pts, seg
  <2>4. pts[i].type = "text" => pts[i].text \in Seq(A)
    BY <2>2, <2>3, SeqMonotonic
  <2>5. CASE seg.type = "text" \/ seg.type = "face"
    <3>1. \E t : pts[i] = [type |-> "text", text |-> t]
      BY <2>1, <2>5 DEF Part
    <3>2. pts[i].type = "text"
      BY <3>1
    <3> QED
      BY <2>4, <3>2
  <2>6. CASE seg.type = "at"
    <3>1. pts[i] = [type |-> "at", text |-> <<IF seg.qq = "all" THEN "@all" ELSE "@">>]
      BY <2>1, <2>6 DEF Part
    <3> QED
      BY <3>1 DEF Marks
  <2>7. CASE seg.type = "image"
    <3>1. pts[i].type = "image"
      BY <2>1, <2>7 DEF Part, ImagePart
    <3> QED
      BY <3>1 DEF Marks
  <2>8. CASE seg.type \in {"record", "video", "file"}
    <3>1. pts[i].type = seg.type
      BY <2>1, <2>8 DEF Part
    <3> QED
      BY <2>8, <3>1 DEF Marks
  <2>9. CASE seg.type \notin {"text", "face", "at", "image", "record", "video", "file"}
    <3>1. pts[i] = [type |-> "text", text |-> <<"unknown">>]
      BY <2>1, <2>9 DEF Part
    <3>2. pts[i].type = "text"
      BY <3>1
    <3> QED
      BY <2>4, <3>2
  <2> QED
    BY <2>5, <2>6, <2>7, <2>8, <2>9
<1>4. Plain(pts, A)
  <2> HIDE DEF A, pts
  <2> QED
    BY <1>1, <1>2, <1>3 DEF Plain
<1> QED
  BY <1>4

\* The filter finds a word in a message if one can be read in it, and none that lower-casing
\* shortens.
LEMMA FilterFinds ==
    ASSUME NEW content \in Contents, Readable(ToParts(content)) # {},
           Readable(ToParts(content)) \cap Shortened(Filter) = {}
    PROVE  Found(Find(Filter, PlainText(ToParts(content))))
<1> DEFINE pts == ToParts(content)
           text == PlainText(pts)
<1>1. PICK A : Marks \subseteq A /\ Plain(pts, A)
  BY ContentsArePlain
<1> HIDE DEF pts
<1>2. text \in Seq(A)
  BY <1>1, ViewsAlign
<1>3. ASSUME NEW w \in Words
      PROVE  w \in Seq(ToSet(w))
  <2>1. PICK i \in DOMAIN SensitiveWords : w = SensitiveWords[i].lower
    BY DEF Words, Lowered
  <2>2. SensitiveWords[i] \in ToSet(SensitiveWords)
    BY DEF ToSet
  <2> QED
    BY <2>1, <2>2, TextsAssumption
<1>4. Occurring({w \in Words : ToSet(w) \cap Marks = {}}, ForLLM(pts)) \subseteq Occurring(Words, text)
  <2> DEFINE words == {w \in Words : ToSet(w) \cap Marks = {}}
  <2>1. Occurring(words, ForLLM(pts)) \subseteq Occurring(words, text)
    BY <1>1, <1>3, PlainTextShowsEveryWord
  <2>2. Occurring(words, text) \subseteq Occurring(Words, text)
    BY DEF Occurring
  <2> QED
    BY <2>1, <2>2
<1>5. Occurring(Words, text) # {} /\ Occurring(Words, text) \cap Shortened(Filter) = {}
  BY <1>4 DEF Readable, pts
<1> DEFINE L == A \cup UNION {ToSet(w) : w \in Words}
<1>6. text \in Seq(L)
  BY <1>2, SeqMonotonic
<1>7. \A w \in Words : w \in Seq(L)
  <2> SUFFICES ASSUME NEW w \in Words
               PROVE  w \in Seq(L)
    OBVIOUS
  <2>1. w \in Seq(ToSet(w)) /\ ToSet(w) \subseteq L
    BY <1>3
  <2> HIDE DEF L
  <2> QED
    BY <2>1, SeqMonotonic
<1> HIDE DEF L, text
<1>8. SensitiveWords \in Lists(L)
  <2> DEFINE R == [lower : Seq(L), size : Nat]
  <2>1. ASSUME NEW l \in ToSet(SensitiveWords)
        PROVE  l \in R
    <3>1. l = [lower |-> l.lower, size |-> l.size] /\ l.size \in Nat
      BY TextsAssumption
    <3>2. l.lower \in Words
      BY DEF Words, Lowered, ToSet
    <3> QED
      BY <1>7, <3>1, <3>2
  <2>2. SensitiveWords \in Seq(ToSet(SensitiveWords)) /\ ToSet(SensitiveWords) \subseteq R
    BY <2>1, TextsAssumption
  <2> HIDE DEF R
  <2>3. SensitiveWords \in Seq(R)
    BY <2>2, SeqMonotonic
  <2> QED
    BY <2>3 DEF Lists, R
<1> QED
  BY <1>5, <1>6, <1>8, FindMissesNothing DEF Filter, Words, pts, text

-----------------------------------------------------------------------------
(* What the handlers hold. *)

Entries == [msg : Messages, bot : BOOLEAN]

Steps == {"new", "ignored", "limit", "filter", "append", "save", "dispatch", "judge", "build",
          "generate", "send", "appendReply", "saveReply", "account", "done", "lost"}

Outcomes == {"rate_limited", "sensitive", "command", "command_not_found", "command_error",
             "not_triggered", "control_error", "agent_fail", "empty_reply", "send_fail",
             "agent_replied"}

Types ==
    /\ pc \in [Messages -> Steps]
    /\ parts \in [Messages -> {<<>>} \cup {ToParts(content) : content \in Contents}]
    /\ window \in Seq(Entries)
    /\ prompt \in [Messages -> Seq(Entries)]
    /\ ledger \in [Messages -> Seq(Outcomes)]
    /\ accounted \in [Messages -> Nat]
    /\ db \subseteq Entries /\ unsaved \subseteq Entries /\ evicted \subseteq Entries
    /\ sensitive \in [Messages -> SUBSET Words]
    /\ sent \subseteq Messages /\ refused \subseteq Messages

LEMMA EntriesAre ==
    ASSUME NEW m \in Messages
    PROVE  Said(m) \in Entries /\ Reply(m) \in Entries /\ Said(m) # Reply(m)
BY DEF Said, Reply, Entries

\* A window without a MessageID has the entries of the others only.
LEMMA WithoutIs ==
    ASSUME NEW win \in Seq(Entries), NEW id
    PROVE  Without(id, win) \in Seq({e \in ToSet(win) : EntryId(e) # id})
<1> DEFINE n == Len(win)
           R == {e \in ToSet(win) : EntryId(e) # id}
           S == Seq(R)
           Keeps(f) == f = [i \in 0..n |-> IF i = 0 THEN <<>>
                                           ELSE IF EntryId(win[i]) = id THEN f[i - 1]
                                           ELSE Append(f[i - 1], win[i])]
           step == [p \in Nat \X S |-> IF p[1] \in 1..n /\ EntryId(win[p[1]]) # id
                                       THEN Append(p[2], win[p[1]]) ELSE p[2]]
<1>1. n \in Nat /\ <<>> \in S /\ \A i \in 1..n : EntryId(win[i]) # id => win[i] \in R
  BY EmptySeq DEF ToSet
<1> HIDE DEF R
<1>2. step \in [Nat \X S -> S]
  BY <1>1, AppendProperties
<1>3. PICK f \in [0..n -> S] : Counts(f, n, <<>>, step)
  <2> HIDE DEF S, step, n
  <2> QED
    BY <1>1, <1>2, Recursion
<1>4. Keeps(f)
  <2>1. f = [i \in 0..n |-> IF i = 0 THEN <<>> ELSE step[<<i, f[i - 1]>>]]
    BY <1>3 DEF Counts
  <2>2. ASSUME NEW i \in 0..n, i # 0
        PROVE  step[<<i, f[i - 1]>>] = IF EntryId(win[i]) = id THEN f[i - 1]
                                       ELSE Append(f[i - 1], win[i])
    <3>1. i \in Nat /\ i \in 1..n /\ i - 1 \in 0..n
      BY <1>1, <2>2
    <3>2. f[i - 1] \in S
      BY <3>1
    <3> QED
      BY <3>1, <3>2
  <2> HIDE DEF step, n, S
  <2> QED
    BY <2>1, <2>2
<1>5. PICK g : Keeps(g) /\ Without(id, win) = g[n]
  <2> DEFINE kept == CHOOSE g : Keeps(g)
  <2>1. Keeps(kept)
    BY <1>4
  <2>2. Without(id, win) = kept[n]
    BY DEF Without
  <2> QED
    BY <2>1, <2>2
<1>6. \A i \in 0..n : g[i] = IF i = 0 THEN <<>> ELSE IF EntryId(win[i]) = id THEN g[i - 1]
                             ELSE Append(g[i - 1], win[i])
  <2> HIDE DEF n
  <2> QED
    BY <1>5
<1>7. \A i \in 0..n : g[i] \in S
  <2> DEFINE Bad == {i \in 0..n : g[i] \notin S}
  <2> SUFFICES ASSUME Bad # {}
               PROVE  FALSE
    OBVIOUS
  <2>1. PICK i \in Bad : \A j \in Bad : i <= j
    <3>1. Bad \subseteq Nat
      OBVIOUS
    <3> HIDE DEF Bad
    <3> QED
      BY <3>1, LeastNatural
  <2>2. i \in 0..n /\ g[i] \notin S
    BY <2>1
  <2>3. i # 0
    BY <1>1, <1>6, <2>2
  <2>4. i \in 1..n /\ i - 1 \in 0..n /\ i - 1 < i
    BY <1>1, <2>2, <2>3
  <2>5. g[i - 1] \in S
    <3>1. i - 1 \notin Bad
      <4> HIDE DEF Bad
      <4> QED
        BY <2>1, <2>2, <2>4
    <3> QED
      BY <2>4, <3>1
  <2>6. EntryId(win[i]) # id => Append(g[i - 1], win[i]) \in S
    BY <1>1, <2>4, <2>5, AppendProperties
  <2> QED
    BY <1>6, <2>2, <2>3, <2>5, <2>6
<1>8. n \in 0..n
  BY <1>1
<1>9. Without(id, win) \in S
  BY <1>5, <1>7, <1>8
<1> QED
  BY <1>9 DEF R

\* A prompt ends with its message, which is nowhere else in it if it has a MessageID.
LEMMA PromptIs ==
    ASSUME NEW win \in Seq(Entries), NEW m \in Messages
    PROVE  LET p == PromptOf(m, win)
           IN  /\ p \in Seq(Entries) /\ p # <<>> /\ Last(p) = Said(m)
               /\ ToSet(p) \subseteq ToSet(win) \cup {Said(m)}
               /\ IdOf[m] # NoID => \A i \in 1..Len(p) - 1 : p[i] # Said(m)
<1> DEFINE o == Others(m, win)
           E == IF IdOf[m] # NoID THEN {e \in ToSet(win) : EntryId(e) # IdOf[m]} ELSE ToSet(win)
           p == Append(o, Said(m))
<1>1. Said(m) \in Entries /\ EntryId(Said(m)) = IdOf[m]
  BY EntriesAre DEF Said, EntryId
<1>2. ToSet(win) \subseteq Entries /\ win \in Seq(ToSet(win))
  <2>1. \A i \in 1..Len(win) : win[i] \in Entries /\ win[i] \in ToSet(win)
    BY DEF ToSet
  <2> QED
    BY <2>1 DEF ToSet
<1>3. o \in Seq(E)
  <2>1. CASE IdOf[m] # NoID
    BY <2>1, WithoutIs DEF Others
  <2>2. CASE IdOf[m] = NoID /\ o = win
    BY <1>2, <2>2
  <2>3. CASE IdOf[m] = NoID /\ win # <<>> /\ o = Front(win)
    <3>1. Front(win) \in Seq(ToSet(win))
      BY <1>2, <2>3, FrontAndLast
    <3> QED
      BY <2>3, <3>1
  <2>4. IdOf[m] = NoID => o = win \/ (win # <<>> /\ o = Front(win))
    BY DEF Others
  <2> QED
    BY <2>1, <2>2, <2>3, <2>4
<1>4. E \subseteq ToSet(win) /\ (IdOf[m] # NoID => Said(m) \notin E)
  BY <1>1
<1> HIDE DEF o, E
<1>5. o \in Seq(Entries)
  BY <1>2, <1>3, <1>4, SeqMonotonic
<1>6. /\ p \in Seq(Entries) /\ p # <<>> /\ Len(p) = Len(o) + 1 /\ Len(o) \in Nat
      /\ \A i \in 1..Len(o) : p[i] = o[i] /\ o[i] \in E
      /\ p[Len(o) + 1] = Said(m)
  BY <1>1, <1>3, <1>5, AppendProperties
<1> HIDE DEF p
<1>7. Last(p) = Said(m)
  BY <1>6 DEF Last
<1>8. DOMAIN p = 1..Len(o) + 1
  BY <1>6
<1>9. ToSet(p) \subseteq ToSet(win) \cup {Said(m)}
  <2>1. \A i \in 1..Len(o) + 1 : i = Len(o) + 1 \/ i \in 1..Len(o)
    BY <1>6
  <2>2. \A i \in 1..Len(o) + 1 : p[i] \in ToSet(win) \cup {Said(m)}
    BY <1>4, <1>6, <2>1
  <2> QED
    BY <1>8, <2>2 DEF ToSet
<1>10. IdOf[m] # NoID => \A i \in 1..Len(p) - 1 : p[i] # Said(m)
  <2>1. Len(p) - 1 = Len(o)
    BY <1>6
  <2> QED
    BY <1>4, <1>6, <2>1
<1> QED
  BY <1>6, <1>7, <1>9, <1>10 DEF PromptOf, p, o

\* What a new entry does to the window.
LEMMA PutInWindowIs ==
    ASSUME window \in Seq(Entries), NEW e \in Entries, PutInWindow(e)
    PROVE  /\ window' \in Seq(Entries)
           /\ ToSet(window') \subseteq ToSet(window) \cup {e}
           /\ evicted' \subseteq evicted \cup ToSet(window)
<1> DEFINE n == Len(window)
           over == n + 1 - WindowCap
<1>1. n \in Nat /\ over \in Int /\ over <= n /\ WindowCap \in Nat \ {0}
  BY PipelineAssumption
<1>2. \A i \in 1..n : window[i] \in Entries /\ window[i] \in ToSet(window)
  BY DEF ToSet
<1>3. ASSUME NEW s \in Seq(Entries), window' = Append(s, e), ToSet(s) \subseteq ToSet(window)
      PROVE  window' \in Seq(Entries) /\ ToSet(window') \subseteq ToSet(window) \cup {e}
  <2>1. /\ Append(s, e) \in Seq(Entries) /\ Len(s) \in Nat /\ Len(Append(s, e)) = Len(s) + 1
        /\ \A i \in 1..Len(s) : Append(s, e)[i] = s[i] /\ s[i] \in ToSet(s)
        /\ Append(s, e)[Len(s) + 1] = e
    BY AppendProperties DEF ToSet
  <2>2. \A i \in 1..Len(s) + 1 : i = Len(s) + 1 \/ i \in 1..Len(s)
    BY <2>1
  <2>3. \A i \in 1..Len(s) + 1 : Append(s, e)[i] \in ToSet(window) \cup {e}
    BY <1>3, <2>1, <2>2
  <2>4. DOMAIN Append(s, e) = 1..Len(s) + 1
    BY <2>1
  <2> QED
    BY <1>3, <2>1, <2>3, <2>4 DEF ToSet
<1>4. CASE over > 0
  <2> DEFINE s == SubSeq(window, over + 1, n)
  <2>1. window' = Append(s, e) /\ evicted' = evicted \cup {window[i] : i \in 1..over}
    BY <1>4 DEF PutInWindow
  <2>2. \A i \in over + 1..n : window[i] \in Entries /\ i \in 1..n
    BY <1>1, <1>2, <1>4
  <2>3. /\ s \in Seq(Entries) /\ Len(s) = IF over + 1 <= n THEN n - (over + 1) + 1 ELSE 0
        /\ \A i \in 1..n - (over + 1) + 1 : s[i] = window[(over + 1) + i - 1]
    BY <1>1, <2>2, SubSeqProperties
  <2>4. ToSet(s) \subseteq ToSet(window)
    <3>1. \A i \in 1..Len(s) : /\ i \in 1..n - (over + 1) + 1
                               /\ (over + 1) + i - 1 \in 1..n
      BY <1>1, <1>4, <2>3
    <3>2. \A i \in 1..Len(s) : s[i] \in ToSet(window)
      BY <1>2, <2>3, <3>1
    <3>3. DOMAIN s = 1..Len(s)
      BY <2>3
    <3> HIDE DEF s
    <3> QED
      BY <3>2, <3>3 DEF ToSet
  <2>5. {window[i] : i \in 1..over} \subseteq ToSet(window)
    BY <1>1, <1>2
  <2> HIDE DEF s
  <2> QED
    BY <1>3, <2>1, <2>3, <2>4, <2>5
<1>5. CASE ~ (over > 0)
  <2>1. window' = Append(window, e) /\ evicted' = evicted
    BY <1>5 DEF PutInWindow
  <2> QED
    BY <1>3, <2>1
<1> QED
  BY <1>4, <1>5

\* What an insert does to the table: two rows never have one MessageID.
LEMMA InsertedIs ==
    ASSUME db \subseteq Entries, NEW e \in Entries
    PROVE  /\ db \subseteq Inserted(e) /\ Inserted(e) \subseteq db \cup {e}
           /\ e.bot \/ (\A m \in Messages : IdOf[m] = IdOf[e.msg] => m = e.msg) =>
                  e \in Inserted(e)
<1>1. db \subseteq Inserted(e) /\ Inserted(e) \subseteq db \cup {e}
  BY DEF Inserted
<1>2. ASSUME e.bot \/ \A m \in Messages : IdOf[m] = IdOf[e.msg] => m = e.msg,
             NEW row \in db, EntryId(row) = EntryId(e)
      PROVE  row = e
  <2>1. row \in Entries
    OBVIOUS
  <2>2. row.msg \in Messages /\ row.bot \in BOOLEAN /\ e.msg \in Messages /\ e.bot \in BOOLEAN
    BY <2>1 DEF Entries
  <2>3. row.bot = e.bot /\ row.msg = e.msg
    <3>1. CASE e.bot
      <4>1. EntryId(e) = <<"self", e.msg>>
        BY <3>1 DEF EntryId
      <4>2. row.bot
        BY <1>2, <2>2, <4>1, IdsAssumption DEF EntryId
      <4>3. EntryId(row) = <<"self", row.msg>>
        BY <4>2 DEF EntryId
      <4>4. row.msg = e.msg
        BY <1>2, <4>1, <4>3
      <4> QED
        BY <2>2, <3>1, <4>2, <4>4
    <3>2. CASE ~ e.bot
      <4>1. EntryId(e) = IdOf[e.msg]
        BY <3>2 DEF EntryId
      <4>2. ~ row.bot
        BY <1>2, <2>2, <4>1, IdsAssumption DEF EntryId
      <4>3. IdOf[row.msg] = IdOf[e.msg]
        BY <1>2, <4>1, <4>2 DEF EntryId
      <4> QED
        BY <1>2, <2>2, <3>2, <4>2, <4>3
    <3> QED
      BY <3>1, <3>2
  <2> QED
    BY <2>1, <2>3 DEF Entries
<1>3. e.bot \/ (\A m \in Messages : IdOf[m] = IdOf[e.msg] => m = e.msg) => e \in Inserted(e)
  BY <1>2 DEF Inserted
<1> QED
  BY <1>1, <1>3

\* A message's parts while its handler may still look at them.
Parts == {<<>>} \cup {ToParts(content) : content \in Contents}

LEMMA TypesInit == Init => Types
<1> SUFFICES ASSUME Init
             PROVE  Types
  OBVIOUS
<1>1. pc \in [Messages -> Steps] /\ parts \in [Messages -> Parts] /\ accounted \in [Messages -> Nat]
  BY DEF Init, Steps, Parts
<1>2. <<>> \in Seq(Entries) /\ <<>> \in Seq(Outcomes)
  BY EmptySeq
<1>3. window \in Seq(Entries) /\ prompt \in [Messages -> Seq(Entries)]
      /\ ledger \in [Messages -> Seq(Outcomes)]
  BY <1>2 DEF Init
<1> QED
  BY <1>1, <1>3 DEF Init, Types, Parts

\* A step of a handler, by what it changes of its own message ...
LEMMA OwnTypes ==
    ASSUME Types, NEW m \in Messages, Handle(m)
    PROVE  /\ pc' \in [Messages -> Steps]
           /\ ledger' \in [Messages -> Seq(Outcomes)]
           /\ accounted' \in [Messages -> Nat]
           /\ parts' \in [Messages -> Parts]
           /\ sensitive' \in [Messages -> SUBSET Words]
           /\ sent' \subseteq Messages /\ refused' \subseteq Messages
<1> USE DEF Types, Steps, Parts, Outcomes
<1>1. ASSUME NEW outcome \in Outcomes
      PROVE  [ledger EXCEPT ![m] = Append(@, outcome)] \in [Messages -> Seq(Outcomes)]
  <2>1. Append(ledger[m], outcome) \in Seq(Outcomes)
    BY AppendProperties
  <2> QED
    BY <2>1
<1>2. CASE Ignore(m) \/ GetToken(m)
  BY <1>2 DEF Ignore, GetToken, Continue, Goto, inputs
<1>3. CASE Enter(m)
  <2>1. PICK segments \in Contents :
            /\ parts' = [parts EXCEPT ![m] = ToParts(segments)]
            /\ sensitive' = [sensitive EXCEPT ![m] = Readable(ToParts(segments))]
    BY <1>3 DEF Enter
  <2>2. Readable(ToParts(segments)) \subseteq Words
    BY DEF Readable, Occurring
  <2>3. parts' \in [Messages -> Parts] /\ sensitive' \in [Messages -> SUBSET Words]
    BY <2>1, <2>2
  <2> QED
    BY <1>3, <2>3 DEF Enter, Goto
<1>4. CASE RateLimited(m) \/ FilterWords(m)
  <2>1. ASSUME NEW outcome \in {"rate_limited", "sensitive"}, Refuse(m, outcome)
        PROVE  /\ pc' \in [Messages -> Steps] /\ ledger' \in [Messages -> Seq(Outcomes)]
               /\ accounted' = accounted /\ parts' \in [Messages -> Parts]
               /\ sensitive' = sensitive /\ sent' = sent /\ refused' \subseteq Messages
    <3>1. outcome \in Outcomes
      OBVIOUS
    <3> QED
      BY <1>1, <2>1, <3>1 DEF Refuse, EndsWith, LogOutcome, Goto
  <2>2. CASE Continue(m, "append")
    BY <2>2 DEF Continue, Goto, inputs
  <2>3. Refuse(m, "rate_limited") \/ Refuse(m, "sensitive") \/ Continue(m, "append")
    BY <1>4 DEF RateLimited, FilterWords
  <2> QED
    BY <2>1, <2>2, <2>3
<1>5. CASE AppendMessage(m) \/ SaveMessage(m) \/ SaveFails(m) \/ Build(m)
  BY <1>5 DEF AppendMessage, SaveMessage, SaveFails, Build, Goto, inputs
<1>6. CASE Dispatch(m)
  BY <1>1, <1>6 DEF Dispatch, JustEnds, EndsWith, LogOutcome, Goto, inputs
<1>7. CASE Judge(m)
  <2>1. CASE Continue(m, "build")
    BY <2>1 DEF Continue, Goto, inputs
  <2>2. ASSUME NEW outcome \in {"not_triggered", "control_error"}, JustEnds(m, outcome)
        PROVE  /\ pc' \in [Messages -> Steps] /\ ledger' \in [Messages -> Seq(Outcomes)]
               /\ accounted' = accounted /\ parts' = parts
               /\ sensitive' = sensitive /\ sent' = sent /\ refused' = refused
    BY <1>1, <2>2 DEF JustEnds, EndsWith, LogOutcome, Goto, inputs
  <2> QED
    BY <1>7, <2>1, <2>2 DEF Judge
<1>8. CASE Generate(m)
  <2>1. \/ EndsWith(m, "agent_fail") \/ EndsWith(m, "empty_reply")
        \/ Goto(m, "send") /\ UNCHANGED ledger
    BY <1>8 DEF Generate
  <2>2. ASSUME NEW outcome \in {"agent_fail", "empty_reply"}, EndsWith(m, outcome)
        PROVE  pc' \in [Messages -> Steps] /\ ledger' \in [Messages -> Seq(Outcomes)]
    BY <1>1, <2>2 DEF EndsWith, LogOutcome, Goto
  <2>3. CASE Goto(m, "send") /\ UNCHANGED ledger
    BY <1>8, <2>3 DEF Generate, Goto, inputs
  <2> QED
    BY <1>8, <2>1, <2>2, <2>3 DEF Generate, inputs
<1>9. CASE Send(m)
  BY <1>1, <1>9 DEF Send, JustEnds, EndsWith, LogOutcome, Goto, inputs
<1>10. CASE AppendReply(m) \/ SaveReply(m)
  BY <1>10 DEF AppendReply, SaveReply, Goto, inputs
<1>11. CASE Account(m)
  BY <1>1, <1>11 DEF Account, EndsWith, LogOutcome, Goto, inputs
<1> QED
  BY <1>2, <1>3, <1>4, <1>5, <1>6, <1>7, <1>8, <1>9, <1>10, <1>11 DEF Handle

\* ... and by what it changes of the session.
LEMMA SessionTypes ==
    ASSUME Types, NEW m \in Messages, Handle(m)
    PROVE  /\ window' \in Seq(Entries)
           /\ prompt' \in [Messages -> Seq(Entries)]
           /\ db' \subseteq Entries /\ unsaved' \subseteq Entries /\ evicted' \subseteq Entries
<1>1. Said(m) \in Entries /\ Reply(m) \in Entries
  BY EntriesAre
<1>2. window \in Seq(Entries) /\ ToSet(window) \subseteq Entries
  BY DEF Types, ToSet
<1>3. \A e \in Entries : Inserted(e) \subseteq Entries
  BY InsertedIs DEF Types
<1>4. \A e \in Entries : PutInWindow(e) => window' \in Seq(Entries) /\ evicted' \subseteq Entries
  BY <1>2, PutInWindowIs DEF Types
<1>5. CASE AppendMessage(m) \/ AppendReply(m)
  BY <1>1, <1>4, <1>5 DEF AppendMessage, AppendReply, Types
<1>6. CASE SaveMessage(m) \/ SaveFails(m) \/ SaveReply(m)
  BY <1>1, <1>3, <1>6 DEF SaveMessage, SaveFails, SaveReply, Types
<1>7. CASE Build(m)
  BY <1>2, <1>7, PromptIs DEF Build, Types
<1>8. CASE Generate(m)
  <2>1. <<>> \in Seq(Entries)
    BY EmptySeq
  <2> QED
    BY <1>8, <2>1 DEF Generate, Types
<1>9. CASE Ignore(m) \/ GetToken(m) \/ FilterWords(m) \/ RateLimited(m)
  BY <1>9 DEF Ignore, GetToken, FilterWords, RateLimited, Continue, Refuse, Types
<1>10. CASE Enter(m) \/ Dispatch(m) \/ Judge(m) \/ Send(m) \/ Account(m)
  BY <1>10 DEF Enter, Dispatch, Judge, Send, Account, Continue, JustEnds, Types
<1> QED
  BY <1>5, <1>6, <1>7, <1>8, <1>9, <1>10 DEF Handle

LEMMA TypesNext == Types /\ [Next]_vars => Types'
<1> SUFFICES ASSUME Types, [Next]_vars
             PROVE  Types'
  OBVIOUS
<1>1. ASSUME NEW m \in Messages, Handle(m)
      PROVE  Types'
  BY <1>1, OwnTypes, SessionTypes DEF Types, Parts
<1>2. CASE Trim
  <2>1. PICK n \in 2..Len(window) : window' = SubSeq(window, n, Len(window))
    BY <1>2 DEF Trim
  <2>2. \A i \in n..Len(window) : window[i] \in Entries
    BY <2>1 DEF Types
  <2>3. window' \in Seq(Entries)
    BY <2>1, <2>2, SubSeqProperties
  <2> QED
    BY <1>2, <2>3 DEF Trim, inputs, Types
<1>3. CASE Crash
  <2>1. <<>> \in Seq(Entries)
    BY EmptySeq
  <2>2. pc' \in [Messages -> Steps]
    BY <1>3 DEF Crash, Types, Steps
  <2>3. parts' \in [Messages -> Parts] /\ prompt' \in [Messages -> Seq(Entries)]
    BY <1>3, <2>1 DEF Crash, Parts
  <2> QED
    BY <1>3, <2>1, <2>2, <2>3 DEF Crash, Types, Parts
<1>4. CASE UNCHANGED vars
  BY <1>4 DEF vars, inputs, Types
<1> QED
  BY <1>1, <1>2, <1>3, <1>4 DEF Next

-----------------------------------------------------------------------------
(* What a step leaves alone. *)

\* A step of a handler changes nothing that is another message's own.
LEMMA Alone ==
    ASSUME Types, NEW m \in Messages, Handle(m), NEW k \in Messages, k # m
    PROVE  /\ pc'[k] = pc[k] /\ ledger'[k] = ledger[k] /\ accounted'[k] = accounted[k]
           /\ prompt'[k] = prompt[k] /\ parts'[k] = parts[k]
           /\ k \in sent' <=> k \in sent
           /\ k \in refused' <=> k \in refused
           /\ sensitive'[k] = sensitive[k]
<1> USE DEF Types
<1>1. CASE Ignore(m) \/ GetToken(m)
  BY <1>1 DEF Ignore, GetToken, Continue, Goto, inputs
<1>2. CASE Enter(m)
  BY <1>2 DEF Enter, Goto
<1>3. ASSUME NEW outcome, Refuse(m, outcome)
      PROVE  /\ pc'[k] = pc[k] /\ ledger'[k] = ledger[k] /\ accounted'[k] = accounted[k]
             /\ prompt'[k] = prompt[k] /\ parts'[k] = parts[k] /\ sent' = sent
             /\ k \in refused' <=> k \in refused
             /\ sensitive' = sensitive
  BY <1>3 DEF Refuse, EndsWith, LogOutcome, Goto
<1>4. ASSUME NEW outcome, JustEnds(m, outcome)
      PROVE  /\ pc'[k] = pc[k] /\ ledger'[k] = ledger[k] /\ accounted' = accounted
             /\ prompt' = prompt /\ parts' = parts /\ sent' = sent /\ refused' = refused
             /\ sensitive' = sensitive
  BY <1>4 DEF JustEnds, EndsWith, LogOutcome, Goto, inputs
<1>5. ASSUME NEW step, Continue(m, step)
      PROVE  /\ pc'[k] = pc[k] /\ ledger' = ledger /\ accounted' = accounted
             /\ prompt' = prompt /\ parts' = parts /\ sent' = sent /\ refused' = refused
             /\ sensitive' = sensitive
  BY <1>5 DEF Continue, Goto, inputs
<1>6. CASE RateLimited(m) \/ FilterWords(m)
  BY <1>3, <1>5, <1>6 DEF RateLimited, FilterWords
<1>7. CASE AppendMessage(m) \/ SaveMessage(m) \/ SaveFails(m) \/ Build(m)
  BY <1>7 DEF AppendMessage, SaveMessage, SaveFails, Build, Goto, inputs
<1>8. CASE Dispatch(m) \/ Judge(m)
  BY <1>4, <1>5, <1>8 DEF Dispatch, Judge
<1>9. CASE Generate(m)
  <2>1. /\ pc'[k] = pc[k] /\ ledger'[k] = ledger[k]
    BY <1>9 DEF Generate, EndsWith, LogOutcome, Goto
  <2> QED
    BY <1>9, <2>1 DEF Generate, inputs
<1>10. CASE Send(m)
  <2>1. CASE JustEnds(m, "send_fail")
    BY <1>4, <2>1
  <2>2. CASE ~ JustEnds(m, "send_fail")
    BY <1>10, <2>2 DEF Send, Goto, inputs
  <2> QED
    BY <2>1, <2>2
<1>11. CASE AppendReply(m) \/ SaveReply(m) \/ Account(m)
  BY <1>11 DEF AppendReply, SaveReply, Account, EndsWith, LogOutcome, Goto, inputs
<1> QED
  BY <1>1, <1>2, <1>6, <1>7, <1>8, <1>9, <1>10, <1>11 DEF Handle

\* What is stored stays stored, and what is sent stays sent.
LEMMA Monotone ==
    ASSUME Types, [Next]_vars
    PROVE  db \subseteq db' /\ unsaved \subseteq unsaved' /\ sent \subseteq sent'
<1>1. ASSUME NEW m \in Messages, Handle(m)
      PROVE  db \subseteq db' /\ unsaved \subseteq unsaved' /\ sent \subseteq sent'
  <2>1. \A e \in Entries : db \subseteq Inserted(e)
    BY InsertedIs DEF Types
  <2>2. Said(m) \in Entries /\ Reply(m) \in Entries
    BY EntriesAre
  <2>3. CASE SaveMessage(m) \/ SaveFails(m) \/ SaveReply(m)
    BY <2>1, <2>2, <2>3 DEF SaveMessage, SaveFails, SaveReply
  <2>4. CASE Ignore(m) \/ GetToken(m) \/ FilterWords(m) \/ RateLimited(m)
    BY <2>4 DEF Ignore, GetToken, FilterWords, RateLimited, Continue, Refuse
  <2>5. CASE Enter(m) \/ AppendMessage(m) \/ Dispatch(m) \/ Judge(m) \/ Build(m)
    BY <2>5 DEF Enter, AppendMessage, Dispatch, Judge, Build, Continue, JustEnds
  <2>6. CASE Generate(m) \/ Send(m) \/ AppendReply(m) \/ Account(m)
    BY <2>6 DEF Generate, Send, AppendReply, Account, JustEnds
  <2> QED
    BY <1>1, <2>3, <2>4, <2>5, <2>6 DEF Handle
<1>2. CASE Trim \/ Crash
  BY <1>2 DEF Trim, Crash
<1>3. CASE UNCHANGED vars
  BY <1>3 DEF vars
<1> QED
  BY <1>1, <1>2, <1>3 DEF Next

\* The end of the process stops every handler that has begun, and changes nothing else that
\* outlives it.
LEMMA CrashStops ==
    ASSUME Types, Crash, NEW m \in Messages
    PROVE  /\ pc'[m] = IF pc[m] \in {"new", "ignored", "done"} THEN pc[m] ELSE "lost"
           /\ ledger' = ledger /\ accounted' = accounted /\ sent' = sent /\ refused' = refused
           /\ sensitive' = sensitive /\ db' = db /\ unsaved' = unsaved /\ evicted' = evicted
           /\ window' = <<>> /\ prompt'[m] = <<>> /\ parts'[m] = <<>>
BY DEF Crash

-----------------------------------------------------------------------------
(* The ledger. *)

\* A handler that is under way has logged nothing, one that has ended has logged one line or
\* has lost its message.
Ledgered(m) ==
    IF pc[m] = "done" THEN Len(ledger[m]) = 1 \/ (ledger[m] = <<>> /\ Said(m) \in unsaved)
    ELSE ledger[m] = <<>>

LedgerInv == \A m \in Messages : Ledgered(m)

LEMMA LedgerNext == Types /\ LedgerInv /\ [Next]_vars => LedgerInv'
<1> SUFFICES ASSUME Types, LedgerInv, [Next]_vars
             PROVE  LedgerInv'
  OBVIOUS
<1>1. unsaved \subseteq unsaved'
  BY Monotone
<1>2. ASSUME NEW m \in Messages, Handle(m)
      PROVE  LedgerInv'
  <2>1. ASSUME NEW k \in Messages, k # m
        PROVE  Ledgered(k)'
    BY <1>1, <1>2, <2>1, Alone DEF LedgerInv, Ledgered
  <2>2. Ledgered(m)'
    <3> USE DEF LedgerInv, Ledgered, Types
    <3>1. ASSUME NEW outcome, EndsWith(m, outcome), pc[m] # "done"
          PROVE  pc'[m] = "done" /\ Len(ledger'[m]) = 1
      BY <3>1 DEF EndsWith, LogOutcome, Goto
    <3>2. ASSUME NEW step, step # "done", Goto(m, step), UNCHANGED ledger, pc[m] # "done"
          PROVE  pc'[m] # "done" /\ ledger'[m] = <<>>
      BY <3>2 DEF Goto
    <3>3. CASE Ignore(m) \/ GetToken(m) \/ RateLimited(m) \/ FilterWords(m)
      BY <3>1, <3>2, <3>3 DEF Ignore, GetToken, RateLimited, FilterWords, Continue, Refuse
    <3>4. CASE Enter(m) \/ AppendMessage(m) \/ SaveMessage(m) \/ Build(m)
      BY <3>2, <3>4 DEF Enter, AppendMessage, SaveMessage, Build
    <3>5. CASE SaveFails(m)
      BY <3>5 DEF SaveFails, Goto
    <3>6. CASE Dispatch(m) \/ Judge(m) \/ Send(m)
      BY <3>1, <3>2, <3>6 DEF Dispatch, Judge, Send, Continue, JustEnds
    <3>7. CASE Generate(m) \/ Account(m)
      BY <3>1, <3>2, <3>7 DEF Generate, Account
    <3>8. CASE AppendReply(m) \/ SaveReply(m)
      BY <3>2, <3>8 DEF AppendReply, SaveReply
    <3> QED
      BY <1>2, <3>3, <3>4, <3>5, <3>6, <3>7, <3>8 DEF Handle
  <2> QED
    BY <2>1, <2>2 DEF LedgerInv
<1>3. CASE Crash
  BY <1>3, CrashStops DEF LedgerInv, Ledgered
<1>4. CASE Trim \/ UNCHANGED vars
  BY <1>4 DEF Trim, vars, LedgerInv, Ledgered
<1> QED
  BY <1>2, <1>3, <1>4 DEF Next

\* For every set of messages and every window, whatever overtakes what and however often the
\* process dies: the ledger accounts once for every message whose handler ends (logOutcome in
\* internal/service/event), unless the message could not be saved.
THEOREM LedgerAlwaysAccounts == Spec => []Accountable
<1>1. Init => Types /\ LedgerInv
  <2>1. Init => LedgerInv
    BY DEF Init, LedgerInv, Ledgered
  <2> QED
    BY <2>1, TypesInit
<1>2. Types /\ LedgerInv /\ [Next]_vars => Types' /\ LedgerInv'
  BY TypesNext, LedgerNext
<1>3. Types /\ LedgerInv => Accountable
  <2> SUFFICES ASSUME Types, LedgerInv, NEW m \in Messages
               PROVE  /\ Len(ledger[m]) <= 1
                      /\ pc[m] = "done" => Len(ledger[m]) = 1 \/ Said(m) \in unsaved
    BY DEF Accountable
  <2>1. Len(ledger[m]) = 1 \/ ledger[m] = <<>>
    BY DEF LedgerInv, Ledgered
  <2>2. CASE Len(ledger[m]) = 1
    BY <2>2
  <2>3. CASE ledger[m] = <<>>
    <3>1. Len(ledger[m]) = 0
      BY <2>3
    <3>2. pc[m] = "done" => Said(m) \in unsaved
      BY <2>3, <3>1 DEF LedgerInv, Ledgered
    <3> QED
      BY <3>1, <3>2
  <2> QED
    BY <2>1, <2>2, <2>3
<1> QED
  BY <1>1, <1>2, <1>3, PTL DEF Spec

-----------------------------------------------------------------------------
(* The replies. *)

\* A handler that has sent its reply is on the way to account for it, has done so, or died;
\* before it gets there nothing is accounted, and the row comes before the account.
Replying == {"appendReply", "saveReply", "account"}

Answered(m) ==
    /\ pc[m] \in Replying => m \in sent
    /\ m \in sent => pc[m] \in Replying \cup {"done", "lost"}
    /\ pc[m] = "account" => Reply(m) \in db \cup unsaved
    /\ IF m \in sent /\ pc[m] = "done"
       THEN /\ ledger[m] = <<"agent_replied">>
            /\ accounted[m] = 1
            /\ Reply(m) \in db \cup unsaved
       ELSE accounted[m] = 0

AnsweredInv == \A m \in Messages : Answered(m)

\* The handler's own steps ...
LEMMA AnsweredOwn ==
    ASSUME Types, LedgerInv, AnsweredInv, NEW m \in Messages, Handle(m)
    PROVE  Answered(m)'
<1> USE DEF AnsweredInv, Answered, Replying, Types
<1>1. ASSUME pc[m] \notin Replying \cup {"done", "lost"}, pc'[m] \notin Replying,
             UNCHANGED <<sent, accounted>>
      PROVE  Answered(m)'
  BY <1>1
<1>2. ASSUME NEW outcome, EndsWith(m, outcome)
      PROVE  pc'[m] = "done"
  BY <1>2 DEF EndsWith, Goto
<1>3. CASE Ignore(m) \/ GetToken(m) \/ Enter(m)
  <2>1. pc'[m] \in {"ignored", "filter", "limit"}
    BY <1>3 DEF Ignore, GetToken, Enter, Continue, Goto
  <2> QED
    BY <1>1, <1>3, <2>1 DEF Ignore, GetToken, Enter, Continue
<1>4. CASE RateLimited(m) \/ FilterWords(m)
  <2>1. pc'[m] \in {"done", "append"}
    BY <1>2, <1>4 DEF RateLimited, FilterWords, Refuse, Continue, Goto
  <2> QED
    BY <1>1, <1>4, <2>1 DEF RateLimited, FilterWords, Refuse, Continue
<1>5. CASE AppendMessage(m) \/ SaveMessage(m) \/ SaveFails(m) \/ Build(m)
  <2>1. pc'[m] \in {"save", "dispatch", "judge", "done", "generate"}
    BY <1>5 DEF AppendMessage, SaveMessage, SaveFails, Build, Goto
  <2> QED
    BY <1>1, <1>5, <2>1 DEF AppendMessage, SaveMessage, SaveFails, Build
<1>6. CASE Dispatch(m) \/ Judge(m)
  <2>1. pc'[m] \in {"done", "build"}
    BY <1>2, <1>6 DEF Dispatch, Judge, JustEnds, Continue, Goto
  <2> QED
    BY <1>1, <1>6, <2>1 DEF Dispatch, Judge, JustEnds, Continue
<1>7. CASE Generate(m)
  <2>1. pc'[m] \in {"done", "send"}
    BY <1>2, <1>7 DEF Generate, Goto
  <2> QED
    BY <1>1, <1>7, <2>1 DEF Generate
<1>8. CASE Send(m)
  <2>1. CASE JustEnds(m, "send_fail")
    BY <1>1, <1>2, <1>8, <2>1 DEF Send, JustEnds
  <2>2. CASE sent' = sent \cup {m} /\ Goto(m, "appendReply") /\ UNCHANGED accounted
    BY <1>8, <2>2 DEF Send, Goto
  <2> QED
    BY <1>8, <2>1, <2>2 DEF Send
<1>9. CASE AppendReply(m)
  BY <1>9 DEF AppendReply, Goto
<1>10. CASE SaveReply(m)
  <2>1. Reply(m) \in Inserted(Reply(m))
    BY EntriesAre, InsertedIs DEF Reply
  <2>2. Reply(m) \in db' \cup unsaved'
    BY <1>10, <2>1 DEF SaveReply
  <2> QED
    BY <1>10, <2>2 DEF SaveReply, Goto
<1>11. CASE Account(m)
  <2>1. ledger[m] = <<>> /\ m \in sent /\ accounted[m] = 0
    BY <1>11 DEF Account, LedgerInv, Ledgered
  <2>2. ledger'[m] = <<"agent_replied">> /\ accounted'[m] = 1 /\ pc'[m] = "done"
    BY <1>11, <2>1 DEF Account, EndsWith, LogOutcome, Goto
  <2> QED
    BY <1>11, <2>1, <2>2 DEF Account
<1> QED
  BY <1>3, <1>4, <1>5, <1>6, <1>7, <1>8, <1>9, <1>10, <1>11 DEF Handle

\* ... and all others.
LEMMA AnsweredNext == Types /\ LedgerInv /\ AnsweredInv /\ [Next]_vars => AnsweredInv'
<1> SUFFICES ASSUME Types, LedgerInv, AnsweredInv, [Next]_vars
             PROVE  AnsweredInv'
  OBVIOUS
<1>1. db \subseteq db' /\ unsaved \subseteq unsaved'
  BY Monotone
<1>2. ASSUME NEW m \in Messages, Handle(m)
      PROVE  AnsweredInv'
  <2>1. ASSUME NEW k \in Messages, k # m
        PROVE  Answered(k)'
    BY <1>1, <1>2, <2>1, Alone DEF AnsweredInv, Answered, Reply
  <2>2. Answered(m)'
    BY <1>2, AnsweredOwn
  <2> QED
    BY <2>1, <2>2 DEF AnsweredInv
<1>3. CASE Crash
  BY <1>3, CrashStops DEF AnsweredInv, Answered, Replying
<1>4. CASE Trim \/ UNCHANGED vars
  BY <1>4 DEF Trim, vars, AnsweredInv, Answered, Reply
<1> QED
  BY <1>2, <1>3, <1>4 DEF Next

\* A reply is accounted at most once and only when it was sent (respond in
\* internal/service/event), and a handler that has sent one and ended has logged
\* agent_replied, accounted it and stored or reported its row.
THEOREM RepliesAlwaysAccounted == Spec => []SentIsAccounted
<1>1. Init => Types /\ LedgerInv /\ AnsweredInv
  BY TypesInit DEF Init, LedgerInv, Ledgered, AnsweredInv, Answered, Replying
<1>2. Types /\ LedgerInv /\ AnsweredInv /\ [Next]_vars => Types' /\ LedgerInv' /\ AnsweredInv'
  BY TypesNext, LedgerNext, AnsweredNext
<1>3. AnsweredInv => SentIsAccounted
  BY DEF AnsweredInv, Answered, SentIsAccounted
<1> QED
  BY <1>1, <1>2, <1>3, PTL DEF Spec

-----------------------------------------------------------------------------
(* The prompts. *)

\* Every message comes with a MessageID of the platform (Event.MessageID, whose zero becomes
\* the empty string).
Identified == \A m \in Messages : IdOf[m] # NoID

\* For every window and whatever has happened to it since the message was appended: a prompt
\* ends with the message it answers and has it nowhere else (BuildMessages in
\* internal/service/memory/builder.go), if the messages have MessageIDs.  Without one the code
\* goes by author and second, and a message that two of the window resemble may be there twice.
THEOREM PromptsEndWithTheirMessage == Identified => (Spec => []PromptEndsWithMessage)
<1> SUFFICES ASSUME Identified
             PROVE  Spec => []PromptEndsWithMessage
  OBVIOUS
<1>1. Init => Types /\ PromptEndsWithMessage
  BY TypesInit DEF Init, PromptEndsWithMessage
<1>2. Types /\ PromptEndsWithMessage /\ [Next]_vars => Types' /\ PromptEndsWithMessage'
  <2> SUFFICES ASSUME Types, PromptEndsWithMessage, [Next]_vars
               PROVE  PromptEndsWithMessage'
    BY TypesNext
  <2>1. ASSUME NEW m \in Messages, Handle(m)
        PROVE  PromptEndsWithMessage'
    <3>1. prompt'[m] = prompt[m] \/ prompt'[m] = <<>> \/ prompt'[m] = PromptOf(m, window)
      <4>1. CASE Build(m) \/ Generate(m)
        BY <4>1 DEF Build, Generate, Types
      <4>2. CASE Ignore(m) \/ Enter(m) \/ GetToken(m) \/ RateLimited(m) \/ FilterWords(m)
        BY <4>2 DEF Ignore, Enter, GetToken, RateLimited, FilterWords, Refuse, Continue
      <4>3. CASE AppendMessage(m) \/ SaveMessage(m) \/ SaveFails(m) \/ Dispatch(m) \/ Judge(m)
        BY <4>3 DEF AppendMessage, SaveMessage, SaveFails, Dispatch, Judge, Continue, JustEnds
      <4>4. CASE Send(m) \/ AppendReply(m) \/ SaveReply(m) \/ Account(m)
        BY <4>4 DEF Send, AppendReply, SaveReply, Account, JustEnds
      <4> QED
        BY <2>1, <4>1, <4>2, <4>3, <4>4 DEF Handle
    <3> DEFINE Ends(k, p) == p # <<>> => /\ Last(p) = Said(k)
                                         /\ \A i \in 1..Len(p) - 1 : p[i] # Said(k)
    <3>2. Ends(m, PromptOf(m, window))
      BY PromptIs DEF Identified, Types
    <3>3. Ends(m, prompt[m])
      BY DEF PromptEndsWithMessage
    <3>4. Ends(m, prompt'[m])
      <4> HIDE DEF Ends
      <4>1. Ends(m, <<>>)
        BY DEF Ends
      <4> QED
        BY <3>1, <3>2, <3>3, <4>1
    <3>5. \A k \in Messages : k # m => prompt'[k] = prompt[k]
      BY <2>1, Alone
    <3>6. \A k \in Messages : Ends(k, prompt'[k])
      <4>1. \A k \in Messages : Ends(k, prompt[k])
        BY DEF PromptEndsWithMessage
      <4> HIDE DEF Ends
      <4> QED
        BY <3>4, <3>5, <4>1
    <3> QED
      BY <3>6 DEF PromptEndsWithMessage, Said
  <2>2. CASE Crash
    BY <2>2, CrashStops DEF PromptEndsWithMessage
  <2>3. CASE Trim \/ UNCHANGED vars
    BY <2>3 DEF Trim, vars, PromptEndsWithMessage, Said
  <2> QED
    BY <2>1, <2>2, <2>3 DEF Next
<1> QED
  BY <1>1, <1>2, PTL DEF Spec

-----------------------------------------------------------------------------
(* The rows of what a window loses. *)

\* No two messages share a MessageID: the platform numbers them, and at most one has none.
OneEach == \A m, k \in Messages : IdOf[m] = IdOf[k] => m = k

\* What is in the window or has been pushed out of it is stored or reported, or its handler is
\* about to store it or died before it could.
Kept(e) ==
    \/ e \in db \cup unsaved
    \/ pc[e.msg] = "lost"
    \/ pc[e.msg] = IF e.bot THEN "saveReply" ELSE "save"

KeptInv == \A e \in ToSet(window) \cup evicted : Kept(e)

\* A step of a handler stores what it must before it goes on.
LEMMA KeptOwn ==
    ASSUME OneEach, Types, NEW m \in Messages, Handle(m), NEW e \in Entries, Kept(e)
    PROVE  Kept(e)'
<1>1. db \subseteq db' /\ unsaved \subseteq unsaved'
  BY Monotone DEF Next
<1>2. e.msg \in Messages /\ e.bot \in BOOLEAN
  BY DEF Entries
<1>3. CASE e \in db \cup unsaved
  BY <1>1, <1>3 DEF Kept
<1>4. CASE e.msg # m
  BY <1>1, <1>2, <1>4, Alone DEF Kept
<1>5. ASSUME e.msg = m, e \notin db \cup unsaved
      PROVE  e \in db' \cup unsaved'
  <2>1. pc[m] = "save" \/ pc[m] = "saveReply"
    <3>1. pc[m] # "lost"
      BY DEF Handle, Ignore, Enter, GetToken, RateLimited, FilterWords, AppendMessage,
             SaveMessage, SaveFails, Dispatch, Judge, Build, Generate, Send, AppendReply,
             SaveReply, Account
    <3> QED
      BY <1>2, <1>5, <3>1 DEF Kept
  <2>2. CASE pc[m] = "save"
    <3>1. SaveMessage(m) \/ SaveFails(m)
      BY <2>2 DEF Handle, Ignore, Enter, GetToken, RateLimited, FilterWords, AppendMessage,
                  Dispatch, Judge, Build, Generate, Send, AppendReply, SaveReply, Account
    <3>2. e = Said(m) /\ ~ e.bot
      BY <1>2, <1>5, <2>2 DEF Kept, Said, Entries
    <3>3. e \in Inserted(e)
      BY <1>2, InsertedIs DEF OneEach, Types
    <3> QED
      BY <3>1, <3>2, <3>3 DEF SaveMessage, SaveFails
  <2>3. CASE pc[m] = "saveReply"
    <3>1. SaveReply(m)
      BY <2>3 DEF Handle, Ignore, Enter, GetToken, RateLimited, FilterWords, AppendMessage,
                  SaveMessage, SaveFails, Dispatch, Judge, Build, Generate, Send, AppendReply,
                  Account
    <3>2. e = Reply(m) /\ e.bot
      BY <1>2, <1>5, <2>3 DEF Kept, Reply, Entries
    <3>3. e \in Inserted(e)
      BY <3>2, InsertedIs DEF Types
    <3> QED
      BY <3>1, <3>2, <3>3 DEF SaveReply
  <2> QED
    BY <2>1, <2>2, <2>3
<1> QED
  BY <1>3, <1>4, <1>5 DEF Kept

\* What a step of a handler puts into the window, it goes on to store.
LEMMA NewIsKept ==
    ASSUME Types, NEW m \in Messages, Handle(m)
    PROVE  \A e \in ToSet(window') \cup evicted' : e \in ToSet(window) \cup evicted \/ Kept(e)'
<1>1. ASSUME NEW e \in Entries, e.msg = m, PutInWindow(e),
             Goto(m, IF e.bot THEN "saveReply" ELSE "save")
      PROVE  \A f \in ToSet(window') \cup evicted' : f \in ToSet(window) \cup evicted \/ Kept(f)'
  <2>1. ToSet(window') \cup evicted' \subseteq ToSet(window) \cup evicted \cup {e}
    BY <1>1, PutInWindowIs DEF Types
  <2>2. pc'[e.msg] = IF e.bot THEN "saveReply" ELSE "save"
    BY <1>1 DEF Goto, Types
  <2> QED
    BY <2>1, <2>2 DEF Kept
<1>2. CASE AppendMessage(m)
  <2>1. Said(m) \in Entries /\ Said(m).msg = m /\ ~ Said(m).bot
    BY EntriesAre DEF Said
  <2> QED
    BY <1>1, <1>2, <2>1 DEF AppendMessage
<1>3. CASE AppendReply(m)
  <2>1. Reply(m) \in Entries /\ Reply(m).msg = m /\ Reply(m).bot
    BY EntriesAre DEF Reply
  <2> QED
    BY <1>1, <1>3, <2>1 DEF AppendReply
<1>4. CASE ~ AppendMessage(m) /\ ~ AppendReply(m)
  <2>1. CASE Ignore(m) \/ Enter(m) \/ GetToken(m) \/ RateLimited(m) \/ FilterWords(m)
    BY <2>1 DEF Ignore, Enter, GetToken, RateLimited, FilterWords, Refuse, Continue
  <2>2. CASE SaveMessage(m) \/ SaveFails(m) \/ Dispatch(m) \/ Judge(m) \/ Build(m)
    BY <2>2 DEF SaveMessage, SaveFails, Dispatch, Judge, Build, Continue, JustEnds
  <2>3. CASE Generate(m) \/ Send(m) \/ SaveReply(m) \/ Account(m)
    BY <2>3 DEF Generate, Send, SaveReply, Account, JustEnds
  <2> QED
    BY <1>4, <2>1, <2>2, <2>3 DEF Handle
<1> QED
  BY <1>2, <1>3, <1>4

\* What a compression leaves of the window was in it.
LEMMA TrimIs ==
    ASSUME Types, Trim
    PROVE  ToSet(window') \subseteq ToSet(window)
<1>1. PICK n \in 2..Len(window) : window' = SubSeq(window, n, Len(window))
  BY DEF Trim
<1> DEFINE w == SubSeq(window, n, Len(window))
<1>2. \A i \in n..Len(window) : window[i] \in Entries
  BY <1>1 DEF Types
<1>3. /\ w \in Seq(Entries) /\ Len(w) = IF n <= Len(window) THEN Len(window) - n + 1 ELSE 0
      /\ \A i \in 1..Len(window) - n + 1 : w[i] = window[n + i - 1]
  BY <1>1, <1>2, SubSeqProperties
<1>4. \A i \in 1..Len(w) : i \in 1..Len(window) - n + 1 /\ n + i - 1 \in 1..Len(window)
  BY <1>1, <1>3 DEF Types
<1>5. DOMAIN w = 1..Len(w)
  BY <1>3
<1>6. \A i \in 1..Len(w) : w[i] \in ToSet(window)
  BY <1>3, <1>4 DEF ToSet, Types
<1> HIDE DEF w
<1>7. ToSet(w) \subseteq ToSet(window)
  BY <1>5, <1>6 DEF ToSet
<1> QED
  BY <1>1, <1>7 DEF w

\* For every bound of the window and every order of the handlers: what a full window loses
\* (AppendToSession) is in the messages table, or its handler is about to insert it, unless
\* the insert failed or the process died first.  Two messages with one MessageID would share
\* a row: the second is taken for stored.
THEOREM EvictedIsAlwaysStored == OneEach => (Spec => []EvictedIsStored)
<1> SUFFICES ASSUME OneEach
             PROVE  Spec => []EvictedIsStored
  OBVIOUS
<1>1. Init => Types /\ KeptInv
  <2>1. Init => ToSet(window) = {} /\ evicted = {}
    BY DEF Init, ToSet
  <2> QED
    BY <2>1, TypesInit DEF KeptInv
<1>2. Types /\ KeptInv /\ [Next]_vars => Types' /\ KeptInv'
  <2> SUFFICES ASSUME Types, KeptInv, [Next]_vars
               PROVE  KeptInv'
    BY TypesNext
  <2>1. ToSet(window) \cup evicted \subseteq Entries
    BY DEF Types, ToSet
  <2>2. ASSUME NEW m \in Messages, Handle(m)
        PROVE  KeptInv'
    <3>1. \A e \in ToSet(window) \cup evicted : Kept(e)'
      BY <2>1, <2>2, KeptOwn DEF KeptInv
    <3> QED
      BY <2>2, <3>1, NewIsKept DEF KeptInv
  <2>3. CASE Trim
    <3>1. \A e : Kept(e) => Kept(e)'
      BY <2>3 DEF Trim, Kept
    <3>2. ToSet(window') \subseteq ToSet(window) /\ evicted' = evicted
      BY <2>3, TrimIs DEF Trim
    <3> QED
      BY <3>1, <3>2 DEF KeptInv
  <2>4. CASE Crash
    <3>1. ToSet(window') = {} /\ evicted' = evicted
      BY <2>4 DEF Crash, ToSet
    <3>2. ASSUME NEW e \in evicted
          PROVE  Kept(e)'
      <4>1. e.msg \in Messages /\ Kept(e)
        BY <2>1, <3>2 DEF Entries, KeptInv
      <4> QED
        BY <2>4, <4>1, CrashStops DEF Kept
    <3> QED
      BY <3>1, <3>2 DEF KeptInv
  <2>5. CASE UNCHANGED vars
    BY <2>5 DEF vars, KeptInv, Kept
  <2> QED
    BY <2>2, <2>3, <2>4, <2>5 DEF Next
<1>3. KeptInv => EvictedIsStored
  BY DEF KeptInv, Kept, EvictedIsStored
<1> QED
  BY <1>1, <1>2, <1>3, PTL DEF Spec

-----------------------------------------------------------------------------
(* The messages that are refused. *)

\* A message of which nothing is to be found ...
Clean(m) ==
    /\ m \notin sent
    /\ Said(m) \notin ToSet(window) \cup db
    /\ \A k \in Messages : Said(m) \notin ToSet(prompt[k])

\* ... as none is of any before the filter: what has passed it holds no sensitive word, and
\* what has not passed ends there.
Quiet(m) ==
    /\ pc[m] \in {"new", "ignored", "limit", "filter"} \/ m \in refused \cup Sensitive => Clean(m)
    /\ m \in refused => pc[m] = "done"
    /\ m \in Sensitive => pc[m] \in {"limit", "filter", "done", "lost"}
    /\ m \in Sensitive /\ pc[m] \in {"limit", "filter"} =>
           \E content \in Contents :
               parts[m] = ToParts(content) /\ sensitive[m] = Readable(ToParts(content))

QuietInv == \A m \in Messages : Quiet(m)

\* Only the handler of a message that has passed the filter leaves a trace of it.
LEMMA CleanStays ==
    ASSUME Types, NEW m \in Messages, Handle(m), NEW k \in Messages, Clean(k),
           k # m \/ pc[m] \in {"new", "limit", "filter"}
    PROVE  Clean(k)'
<1> USE DEF Clean
<1>1. CASE Ignore(m) \/ Enter(m) \/ GetToken(m) \/ RateLimited(m) \/ FilterWords(m)
  BY <1>1 DEF Ignore, Enter, GetToken, RateLimited, FilterWords, Refuse, Continue, Said
<1>2. CASE ~ (Ignore(m) \/ Enter(m) \/ GetToken(m) \/ RateLimited(m) \/ FilterWords(m))
  <2>1. k # m
    BY <1>2 DEF Handle, AppendMessage, SaveMessage, SaveFails, Dispatch, Judge, Build, Generate,
                Send, AppendReply, SaveReply, Account
  <2>2. Said(k) \in Entries /\ Said(k) # Said(m) /\ Said(k) # Reply(m)
    BY <2>1, EntriesAre DEF Said, Reply
  <2>3. CASE AppendMessage(m) \/ AppendReply(m)
    <3>1. ToSet(window') \subseteq ToSet(window) \cup {Said(m), Reply(m)}
      BY <2>3, EntriesAre, PutInWindowIs DEF AppendMessage, AppendReply, Types
    <3> QED
      BY <2>2, <2>3, <3>1 DEF AppendMessage, AppendReply, Said
  <2>4. CASE SaveMessage(m) \/ SaveFails(m) \/ SaveReply(m)
    <3>1. db' \subseteq db \cup {Said(m), Reply(m)}
      BY <2>4, EntriesAre, InsertedIs DEF SaveMessage, SaveFails, SaveReply, Types
    <3> QED
      BY <2>2, <2>4, <3>1 DEF SaveMessage, SaveFails, SaveReply, Said
  <2>5. CASE Build(m)
    <3>1. ToSet(PromptOf(m, window)) \subseteq ToSet(window) \cup {Said(m)}
      BY PromptIs DEF Types
    <3>2. \A j \in Messages : prompt'[j] = prompt[j] \/ prompt'[j] = PromptOf(m, window)
      BY <2>5 DEF Build, Types
    <3> QED
      BY <2>2, <2>5, <3>1, <3>2 DEF Build, Said
  <2>6. CASE Generate(m)
    <3>1. \A j \in Messages : prompt'[j] = prompt[j] \/ prompt'[j] = <<>>
      BY <2>6 DEF Generate, Types
    <3>2. ToSet(<<>>) = {}
      BY DEF ToSet
    <3> QED
      BY <2>6, <3>1, <3>2 DEF Generate, Said
  <2>7. CASE Dispatch(m) \/ Judge(m) \/ Send(m) \/ Account(m)
    BY <2>1, <2>7 DEF Dispatch, Judge, Send, Account, JustEnds, Continue, Said
  <2> QED
    BY <1>2, <2>3, <2>4, <2>5, <2>6, <2>7 DEF Handle
<1> QED
  BY <1>1, <1>2

\* The handler's own steps.
LEMMA QuietOwn ==
    ASSUME Types, QuietInv, NEW m \in Messages, Handle(m)
    PROVE  Quiet(m)'
<1>0. sensitive' = sensitive => Sensitive' = Sensitive
  BY DEF Sensitive
<1>1. pc[m] \in {"new", "limit", "filter"} => Clean(m)'
  BY CleanStays DEF QuietInv, Quiet
<1>2. Quiet(m) /\ m \in Messages
  BY DEF QuietInv
<1>3. CASE Ignore(m)
  <2>1. /\ pc[m] = "new" /\ pc'[m] = "ignored"
        /\ refused' = refused /\ sensitive' = sensitive
    BY <1>3 DEF Ignore, Continue, Goto, inputs, Types
  <2> QED
    BY <1>0, <1>1, <1>2, <2>1 DEF Quiet
<1>4. CASE Enter(m)
  <2>1. PICK segments \in Contents :
            /\ parts' = [parts EXCEPT ![m] = ToParts(segments)]
            /\ sensitive' = [sensitive EXCEPT ![m] = Readable(ToParts(segments))]
    BY <1>4 DEF Enter
  <2>2. pc[m] = "new" /\ pc'[m] = "limit" /\ refused' = refused
    BY <1>4 DEF Enter, Goto, Types
  <2>3. m \notin refused
    BY <1>2, <2>2 DEF Quiet
  <2>4. sensitive'[m] = Readable(ToParts(segments))
    BY <2>1 DEF Types
  <2>5. parts'[m] = ToParts(segments)
    BY <2>1 DEF Types
  <2> QED
    BY <1>0, <1>1, <2>2, <2>3, <2>4, <2>5 DEF Quiet
<1>5. CASE GetToken(m)
  <2>1. /\ pc[m] = "limit" /\ pc'[m] = "filter" /\ parts' = parts
        /\ refused' = refused /\ sensitive' = sensitive
    BY <1>5 DEF GetToken, Continue, Goto, inputs, Types
  <2> QED
    BY <1>0, <1>1, <1>2, <2>1 DEF Quiet
<1>6. ASSUME NEW outcome, Refuse(m, outcome)
      PROVE  pc'[m] = "done" /\ sensitive' = sensitive
  BY <1>6 DEF Refuse, EndsWith, Goto, Types
<1>7. CASE RateLimited(m)
  <2>1. pc[m] = "limit" /\ pc'[m] = "done" /\ sensitive' = sensitive
    BY <1>6, <1>7 DEF RateLimited
  <2> QED
    BY <1>0, <1>1, <2>1 DEF Quiet
<1>8. CASE FilterWords(m)
  <2>1. pc[m] = "filter"
    BY <1>8 DEF FilterWords
  <2>2. CASE Refuse(m, "sensitive")
    BY <1>0, <1>1, <1>6, <2>1, <2>2 DEF Quiet
  <2>3. CASE ~ Refuse(m, "sensitive")
    <3>1. Continue(m, "append") /\ ~ Found(Find(Filter, PlainText(parts[m])))
      BY <1>8, <2>3 DEF FilterWords
    <3>2. m \notin Sensitive
      <4> SUFFICES ASSUME m \in Sensitive
                   PROVE  FALSE
        OBVIOUS
      <4>1. PICK content \in Contents :
                parts[m] = ToParts(content) /\ sensitive[m] = Readable(ToParts(content))
        BY <1>2, <2>1 DEF Quiet
      <4>2. sensitive[m] # {} /\ sensitive[m] \cap Shortened(Filter) = {}
        BY DEF Sensitive
      <4>3. Found(Find(Filter, PlainText(ToParts(content))))
        BY <4>1, <4>2, FilterFinds
      <4> QED
        BY <3>1, <4>1, <4>3
    <3>3. m \notin refused
      BY <1>2, <2>1 DEF Quiet
    <3>4. pc'[m] = "append" /\ sensitive' = sensitive /\ refused' = refused
      BY <3>1 DEF Continue, Goto, inputs, Types
    <3> QED
      BY <1>0, <3>2, <3>3, <3>4 DEF Quiet
  <2> QED
    BY <2>2, <2>3
<1>9. CASE ~ (Ignore(m) \/ Enter(m) \/ GetToken(m) \/ RateLimited(m) \/ FilterWords(m))
  <2>1. /\ pc[m] \notin {"new", "ignored", "limit", "filter", "done", "lost"}
        /\ refused' = refused /\ sensitive' = sensitive
    <3>1. CASE AppendMessage(m) \/ SaveMessage(m) \/ SaveFails(m) \/ Dispatch(m) \/ Judge(m)
      BY <3>1 DEF AppendMessage, SaveMessage, SaveFails, Dispatch, Judge, Continue, JustEnds,
                  inputs
    <3>2. CASE Build(m) \/ Generate(m) \/ Send(m)
      BY <3>2 DEF Build, Generate, Send, JustEnds, inputs
    <3>3. CASE AppendReply(m) \/ SaveReply(m) \/ Account(m)
      BY <3>3 DEF AppendReply, SaveReply, Account, inputs
    <3> QED
      BY <1>9, <3>1, <3>2, <3>3 DEF Handle
  <2>2. m \notin refused /\ m \notin Sensitive
    BY <1>2, <2>1 DEF Quiet
  <2>3. pc'[m] \notin {"new", "ignored", "limit", "filter"}
    <3>1. ASSUME NEW outcome, EndsWith(m, outcome)
          PROVE  pc'[m] = "done"
      BY <3>1 DEF EndsWith, Goto, Types
    <3>2. CASE AppendMessage(m) \/ SaveMessage(m) \/ SaveFails(m) \/ Build(m)
      BY <3>2 DEF AppendMessage, SaveMessage, SaveFails, Build, Goto, Types
    <3>3. CASE Dispatch(m) \/ Judge(m)
      BY <3>1, <3>3 DEF Dispatch, Judge, JustEnds, Continue, Goto, Types
    <3>4. CASE Generate(m) \/ Send(m)
      BY <3>1, <3>4 DEF Generate, Send, JustEnds, Goto, Types
    <3>5. CASE AppendReply(m) \/ SaveReply(m) \/ Account(m)
      BY <3>1, <3>5 DEF AppendReply, SaveReply, Account, Goto, Types
    <3> QED
      BY <1>9, <3>2, <3>3, <3>4, <3>5 DEF Handle
  <2> QED
    BY <1>0, <2>1, <2>2, <2>3 DEF Quiet
<1> QED
  BY <1>3, <1>4, <1>5, <1>7, <1>8, <1>9

\* For every list of words, every message and every order of the handlers: a message in which
\* a sensitive word can be read, by the model or in its plain text, but none that lower-casing
\* shortens, and one the limiter refuses leave no trace in any window, table or prompt and are
\* never answered (newSensitiveWordFilter and newRateLimiter before MemoryService.persist).
\* That the filter misses nothing there rests on FindMissesNothing, that the plain text is
\* enough for it on PlainTextShowsEveryWord.
THEOREM RefusedNeverLeavesTrace == Spec => []RefusedLeavesNoTrace
<1>1. Init => Types /\ QuietInv
  <2>1. Init => ToSet(window) = {} /\ \A k \in Messages : ToSet(prompt[k]) = {}
    BY DEF Init, ToSet
  <2> QED
    BY <2>1, TypesInit DEF Init, QuietInv, Quiet, Clean, Sensitive
<1>2. Types /\ QuietInv /\ [Next]_vars => Types' /\ QuietInv'
  <2> SUFFICES ASSUME Types, QuietInv, [Next]_vars
               PROVE  QuietInv'
    BY TypesNext
  <2>1. ASSUME NEW m \in Messages, Handle(m)
        PROVE  QuietInv'
    <3>1. ASSUME NEW k \in Messages, k # m
          PROVE  Quiet(k)'
      <4>1. Clean(k) => Clean(k)'
        BY <2>1, <3>1, CleanStays
      <4>2. /\ pc'[k] = pc[k] /\ parts'[k] = parts[k]
            /\ k \in refused' <=> k \in refused
            /\ sensitive'[k] = sensitive[k]
            /\ k \in Sensitive' <=> k \in Sensitive
        BY <2>1, <3>1, Alone DEF Sensitive
      <4>3. Quiet(k)
        BY DEF QuietInv
      <4> QED
        BY <4>1, <4>2, <4>3 DEF Quiet
    <3>2. Quiet(m)'
      BY <2>1, QuietOwn
    <3> QED
      BY <3>1, <3>2 DEF QuietInv
  <2>2. CASE Trim
    <3>1. \A m \in Messages : Clean(m) => Clean(m)'
      BY <2>2, TrimIs DEF Trim, Clean, Said
    <3> QED
      BY <2>2, <3>1 DEF Trim, inputs, QuietInv, Quiet, Sensitive
  <2>3. CASE Crash
    <3>1. ToSet(window') = {} /\ \A k \in Messages : ToSet(prompt'[k]) = {}
      <4>1. ToSet(<<>>) = {}
        BY DEF ToSet
      <4>2. window' = <<>> /\ \A k \in Messages : prompt'[k] = <<>>
        BY <2>3 DEF Crash
      <4> QED
        BY <4>1, <4>2
    <3>2. \A m \in Messages : Clean(m) => Clean(m)'
      BY <2>3, <3>1 DEF Crash, Clean, Said
    <3>3. ASSUME NEW m \in Messages
          PROVE  Quiet(m)'
      <4>1. /\ pc'[m] \in {"new", "ignored", "done", "lost"}
            /\ pc'[m] \in {"new", "ignored", "done"} => pc[m] = pc'[m]
            /\ pc[m] = "done" => pc'[m] = "done"
            /\ refused' = refused /\ sensitive' = sensitive
        BY <2>3, CrashStops
      <4>2. Quiet(m) /\ (Clean(m) => Clean(m)')
        BY <3>2 DEF QuietInv
      <4> QED
        BY <4>1, <4>2 DEF Quiet, Sensitive
    <3> QED
      BY <3>3 DEF QuietInv
  <2>4. CASE UNCHANGED vars
    BY <2>4 DEF vars, inputs, QuietInv, Quiet, Clean, Said, Sensitive
  <2> QED
    BY <2>1, <2>2, <2>3, <2>4 DEF Next
<1>3. Types /\ QuietInv => RefusedLeavesNoTrace
  BY DEF Types, QuietInv, Quiet, Clean, RefusedLeavesNoTrace, Sensitive
<1> QED
  BY <1>1, <1>2, <1>3, PTL DEF Spec

=============================================================================
