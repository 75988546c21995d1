--------------------------- MODULE LogQueryProofs ---------------------------
(***************************************************************************)
(* Proofs about LogQuery, for every set of requests and every number of    *)
(* entries, goroutines, files and queries under way: an answer is in order *)
(* and holds only what was asked for, each entry once, though the files    *)
(* are listed and read one after the other; and the pages of one level     *)
(* leave no gap while the program logs, and rotates between the queries.   *)
(***************************************************************************)
EXTENDS LogQuery, FiniteSetTheorems, SequenceTheorems, TLAPS

-----------------------------------------------------------------------------
(* Sets in order. *)

StrictOrder(S, before) ==
    /\ \A x \in S : <<x, x>> \notin before
    /\ \A x, y \in S : x # y => <<x, y>> \in before \/ <<y, x>> \in before
    /\ \A x, y, z \in S : <<x, y>> \in before /\ <<y, z>> \in before => <<x, z>> \in before

\* The members before one.
Ahead(S, before, x) == {y \in S : <<y, x>> \in before}

LEMMA AheadGrows ==
    ASSUME NEW S, IsFiniteSet(S), NEW before, StrictOrder(S, before),
           NEW x \in S, NEW y \in S, <<x, y>> \in before
    PROVE  Cardinality(Ahead(S, before, x)) < Cardinality(Ahead(S, before, y))
<1> DEFINE A == Ahead(S, before, x)
           B == Ahead(S, before, y)
<1>1. A \in SUBSET B /\ x \in B /\ x \notin A
  BY DEF Ahead, StrictOrder
<1>2. B \in SUBSET S
  BY DEF Ahead
<1> HIDE DEF A, B
<1>3. IsFiniteSet(B)
  BY <1>2, FS_Subset
<1>4. IsFiniteSet(A) /\ Cardinality(A) <= Cardinality(B) /\ Cardinality(B) # Cardinality(A)
  BY <1>1, <1>3, FS_Subset
<1>5. Cardinality(A) \in Nat /\ Cardinality(B) \in Nat
  BY <1>3, <1>4, FS_CardinalityType
<1> QED
  BY <1>4, <1>5 DEF A, B

\* Every member has a place of its own, the number of those before it.
LEMMA PlacesAreTaken ==
    ASSUME NEW S, IsFiniteSet(S), NEW before, StrictOrder(S, before)
    PROVE  /\ \A x \in S : Cardinality(Ahead(S, before, x)) \in 0..Cardinality(S) - 1
           /\ \A x, y \in S : Cardinality(Ahead(S, before, x)) = Cardinality(Ahead(S, before, y))
                  => x = y
           /\ \A k \in 1..Cardinality(S) :
                  \E x \in S : Cardinality(Ahead(S, before, x)) = k - 1
<1> DEFINE n == Cardinality(S)
           rank(x) == Cardinality(Ahead(S, before, x))
           place == [x \in S |-> rank(x) + 1]
<1>1. n \in Nat
  BY FS_CardinalityType
<1>2. ASSUME NEW x \in S
      PROVE  rank(x) \in 0..n - 1
  <2> DEFINE A == Ahead(S, before, x)
  <2>1. A \in SUBSET S /\ x \notin A
    BY DEF Ahead, StrictOrder
  <2> HIDE DEF A
  <2>2. IsFiniteSet(A) /\ Cardinality(A) <= n /\ Cardinality(A) # n
    BY <2>1, FS_Subset
  <2>3. Cardinality(A) \in Nat
    BY <2>2, FS_CardinalityType
  <2> QED
    BY <1>1, <2>2, <2>3 DEF A
<1>3. ASSUME NEW x \in S, NEW y \in S, rank(x) = rank(y)
      PROVE  x = y
  <2>1. ~ (rank(x) < rank(y)) /\ ~ (rank(y) < rank(x))
    <3> HIDE DEF rank, n
    <3> QED
      BY <1>1, <1>2, <1>3
  <2> QED
    BY <2>1, AheadGrows DEF StrictOrder
<1> HIDE DEF rank, n
<1>4. place \in Injection(S, 1..n)
  <2>1. place \in [S -> 1..n]
    BY <1>1, <1>2
  <2>2. \A x, y \in S : place[x] = place[y] => x = y
    BY <1>1, <1>2, <1>3
  <2> QED
    BY <2>1, <2>2 DEF Injection, IsInjective
<1>5. IsFiniteSet(1..n) /\ Cardinality(1..n) = n
  BY <1>1, FS_Interval
<1>6. place \in Surjection(S, 1..n)
  <2> HIDE DEF place
  <2> QED
    BY <1>4, <1>5, FS_Injection DEF n
<1>7. \A k \in 1..n : \E x \in S : place[x] = k
  BY <1>6 DEF Surjection
<1>8. ASSUME NEW k \in 1..n
      PROVE  \E x \in S : rank(x) = k - 1
  <2>1. PICK x \in S : place[x] = k
    BY <1>7
  <2>2. rank(x) = k - 1
    BY <1>1, <1>2, <2>1
  <2> QED
    BY <2>2
<1> QED
  BY <1>2, <1>3, <1>8 DEF rank, n

\* A set in order has each member once, in its place.
LEMMA InOrderIs ==
    ASSUME NEW S, IsFiniteSet(S), NEW before, StrictOrder(S, before)
    PROVE  /\ Cardinality(S) \in Nat
           /\ InOrder(S, before) \in [1..Cardinality(S) -> S]
           /\ \A x \in S : \A k \in 1..Cardinality(S) :
                  Cardinality(Ahead(S, before, x)) = k - 1 <=> InOrder(S, before)[k] = x
           /\ \A x \in S : \E k \in 1..Cardinality(S) : InOrder(S, before)[k] = x
           /\ \A j, k \in 1..Cardinality(S) :
                  j < k => <<InOrder(S, before)[j], InOrder(S, before)[k]>> \in before
<1> DEFINE n == Cardinality(S)
           rank(x) == Cardinality(Ahead(S, before, x))
           s == InOrder(S, before)
<1>1. n \in Nat
  BY FS_CardinalityType
<1>2. /\ \A x \in S : rank(x) \in 0..n - 1
      /\ \A x, y \in S : rank(x) = rank(y) => x = y
      /\ \A k \in 1..n : \E x \in S : rank(x) = k - 1
  BY PlacesAreTaken
<1>3. s = [k \in 1..n |-> CHOOSE x \in S : rank(x) = k - 1]
  BY DEF InOrder, Ahead
<1>4. ASSUME NEW x \in S, NEW y \in S, <<x, y>> \in before
      PROVE  rank(x) < rank(y)
  BY <1>4, AheadGrows
<1> HIDE DEF rank, n, s
<1>5. ASSUME NEW k \in 1..n
      PROVE  s[k] \in S /\ rank(s[k]) = k - 1
  BY <1>2, <1>3
<1>6. ASSUME NEW x \in S
      PROVE  rank(x) + 1 \in 1..n /\ s[rank(x) + 1] = x
  <2>1. rank(x) + 1 \in 1..n
    BY <1>1, <1>2
  <2>2. rank(s[rank(x) + 1]) = rank(x) /\ s[rank(x) + 1] \in S
    BY <1>1, <1>2, <1>5, <2>1
  <2> QED
    BY <1>2, <2>1, <2>2
<1>7. ASSUME NEW x \in S, NEW k \in 1..n
      PROVE  rank(x) = k - 1 <=> s[k] = x
  BY <1>2, <1>5
<1>8. ASSUME NEW j \in 1..n, NEW k \in 1..n, j < k
      PROVE  <<s[j], s[k]>> \in before
  <2>1. s[j] \in S /\ s[k] \in S /\ rank(s[j]) < rank(s[k])
    BY <1>1, <1>5, <1>8
  <2>2. s[j] # s[k] /\ ~ (rank(s[k]) < rank(s[j]))
    BY <1>1, <1>2, <2>1
  <2> QED
    BY <1>4, <2>1, <2>2 DEF StrictOrder
<1>9. s \in [1..n -> S]
  BY <1>3, <1>5
<1> QED
  BY <1>1, <1>6, <1>7, <1>8, <1>9 DEF rank, n, s

-----------------------------------------------------------------------------
(* The invariant of the files. *)

Names == {m.name : m \in Messages}
Entry == [ts : Nat, name : Names, trace : {m.trace : m \in Messages},
          long : {m.long : m \in Messages}]
File == [name : Names, backup : BOOLEAN, mod : Nat, lines : Seq(Entry)]

TypeOK ==
    /\ stamped \in Nat /\ wrote \in Seq(Entry)
    /\ pending \subseteq Entry
    /\ files \subseteq File

\* No two entries have the same time, whether they are written or not.
TimesApart ==
    /\ \A e \in pending : e.ts \in 1..stamped
    /\ \A e, d \in pending : e.ts = d.ts => e = d
    /\ \A i \in DOMAIN wrote :
          wrote[i].ts \in 1..stamped /\ \A e \in pending : e.ts # wrote[i].ts
    /\ \A i, j \in DOMAIN wrote : wrote[i].ts = wrote[j].ts => i = j
    /\ \A f, g \in files : \A i \in DOMAIN f.lines, j \in DOMAIN g.lines :
          f.lines[i].ts = g.lines[j].ts => f = g /\ i = j

\* The files hold what was written under their names.
LinesAreWritten ==
    \A f \in files : \A i \in DOMAIN f.lines :
        f.lines[i].name = f.name /\ f.lines[i] \in ToSet(wrote)

FilesApart ==
    /\ \A f \in files : f.mod \in 1..Len(wrote)
    /\ \A f, g \in files : f.mod = g.mod => f = g

\* The file a level is written to is the newest of its name, and the only one that is no
\* backup.
CurrentIsNewest ==
    \A f, g \in files :
        f.name = g.name /\ ~g.backup => f = g \/ (f.backup /\ f.mod < g.mod)

\* While no entry overtakes another, older files hold older entries, and earlier lines too.
InTimeOrder ==
    ~Overtaken =>
        \A f, g \in files : f.name = g.name =>
            \A i \in DOMAIN f.lines, j \in DOMAIN g.lines :
                f.mod < g.mod \/ (f = g /\ i < j) => f.lines[i].ts < g.lines[j].ts

FilesInv ==
    TypeOK /\ TimesApart /\ LinesAreWritten /\ FilesApart /\ CurrentIsNewest /\ InTimeOrder

-----------------------------------------------------------------------------
(* Writing. *)

\* The file f was g before a write that did not go to it.
Kept(f, g) ==
    /\ f.name = g.name /\ f.mod = g.mod /\ f.lines = g.lines
    /\ f.backup = g.backup \/ f.backup

\* What a write leaves: the file written to, the newest, whose last line is the entry, and
\* the others as they were, those of the same name put aside.
Leaves(e, w) ==
    /\ w \in files' /\ w \in File
    /\ w.name = e.name /\ ~w.backup /\ w.mod = Len(wrote) + 1
    /\ \/ w.lines = <<e>>
       \/ \E f \in Current(e.name) :
            w.lines = Append(f.lines, e) /\ \A g \in files' : g.mod # f.mod
    /\ \A g \in files' : g # w =>
          /\ g \in File
          /\ \E f \in files : Kept(g, f)
          /\ g.name = e.name => g.backup
    /\ \A g, h \in files' : g.mod = h.mod => g = h
    /\ \A f \in files :
          \/ f.name = e.name /\ w.lines = Append(f.lines, e)
          \/ \E g \in files' : g # w /\ Kept(g, f)

LEMMA EntryIsWritten ==
    ASSUME FilesInv, NEW e \in pending, Write(e)
    PROVE  \E w : Leaves(e, w)
<1>1. e \in Entry /\ e.name \in Names /\ Len(wrote) \in Nat /\ files \subseteq File
  BY LenProperties DEF FilesInv, TypeOK, Entry
<1>2. <<e>> \in Seq(Entry)
  BY <1>1
<1>3. \A f \in files : f.mod < Len(wrote) + 1 /\ f.mod # Len(wrote) + 1
  BY <1>1 DEF FilesInv, FilesApart
<1>4. \A f \in files : f.name \in Names /\ f.backup \in BOOLEAN /\ f.mod \in Nat
          /\ f.lines \in Seq(Entry)
  BY <1>1 DEF File
<1>5. FileWith(e, <<e>>) \in File /\ FileWith(e, <<e>>).name = e.name /\ ~FileWith(e, <<e>>).backup
        /\ FileWith(e, <<e>>).mod = Len(wrote) + 1 /\ FileWith(e, <<e>>).lines = <<e>>
  BY <1>1, <1>2 DEF FileWith, File
<1>6. CASE Current(e.name) = {} /\ files' = files \cup {FileWith(e, <<e>>)}
  <2> DEFINE w == FileWith(e, <<e>>)
  <2>1. \A g \in files' : g # w => g \in files /\ (g.name = e.name => g.backup)
    BY <1>6 DEF Current
  <2>2. \A f \in files : f # w /\ f \in files' /\ Kept(f, f)
    BY <1>3, <1>5, <1>6 DEF Kept
  <2>3. w \in File /\ w.name = e.name /\ ~w.backup /\ w.mod = Len(wrote) + 1 /\ w.lines = <<e>>
    BY <1>5
  <2>4. files' = files \cup {w}
    BY <1>6
  <2> HIDE DEF w
  <2>5. \A g, h \in files' : g.mod = h.mod => g = h
    BY <1>3, <2>3, <2>4 DEF FilesInv, FilesApart
  <2> QED
    BY <1>1, <2>1, <2>2, <2>3, <2>4, <2>5 DEF Leaves
<1>7. CASE \E f \in Current(e.name) :
               files' = (files \ {f}) \cup {FileWith(e, Append(f.lines, e))}
  <2>1. PICK f \in Current(e.name) :
               files' = (files \ {f}) \cup {FileWith(e, Append(f.lines, e))}
    BY <1>7
  <2> DEFINE w == FileWith(e, Append(f.lines, e))
  <2>2. f \in files /\ f.name = e.name /\ ~f.backup /\ f \in File
    BY <1>1 DEF Current
  <2>3. Append(f.lines, e) \in Seq(Entry)
    BY <1>1, <1>4, <2>2, AppendProperties
  <2>4. w \in File /\ w.name = e.name /\ ~w.backup /\ w.mod = Len(wrote) + 1
          /\ w.lines = Append(f.lines, e)
    BY <1>1, <2>3 DEF FileWith, File
  <2>5. files' = (files \ {f}) \cup {w}
    BY <2>1
  <2> HIDE DEF w
  <2>6. \A g \in files : g # w /\ Kept(g, g) /\ (g.mod = f.mod => g = f)
    BY <1>3, <2>2, <2>4 DEF Kept, FilesInv, FilesApart
  <2>7. \A g \in files : g.name = e.name => g = f \/ g.backup
    BY <2>2 DEF FilesInv, CurrentIsNewest
  <2>8. \A g \in files' : g.mod # f.mod
    BY <1>3, <2>2, <2>4, <2>5, <2>6
  <2>9. \A g \in files' : g # w => g \in files /\ g # f
    BY <2>5
  <2>10. \A g \in files' : g # w => g \in File /\ (\E h \in files : Kept(g, h))
                                      /\ (g.name = e.name => g.backup)
    BY <1>1, <2>6, <2>7, <2>9
  <2>11. \A g \in files : \/ g.name = e.name /\ w.lines = Append(g.lines, e)
                          \/ \E h \in files' : h # w /\ Kept(h, g)
    BY <2>2, <2>4, <2>5, <2>6
  <2>12. \A g, h \in files' : g.mod = h.mod => g = h
    BY <1>3, <2>4, <2>5 DEF FilesInv, FilesApart
  <2> QED
    BY <2>4, <2>5, <2>8, <2>10, <2>11, <2>12 DEF Leaves
<1>8. CASE \E f \in Current(e.name) :
               files' = (files \ {f}) \cup {[f EXCEPT !.backup = TRUE], FileWith(e, <<e>>)}
  <2>1. PICK f \in Current(e.name) :
               files' = (files \ {f}) \cup {[f EXCEPT !.backup = TRUE], FileWith(e, <<e>>)}
    BY <1>8
  <2> DEFINE w == FileWith(e, <<e>>)
             b == [f EXCEPT !.backup = TRUE]
  <2>2. f \in files /\ f.name = e.name /\ ~f.backup /\ f \in File
    BY <1>1 DEF Current
  <2>3. b \in File /\ b.name = f.name /\ b.backup /\ b.mod = f.mod /\ b.lines = f.lines
    BY <2>2 DEF File
  <2>4. files' = (files \ {f}) \cup {b, w}
    BY <2>1
  <2>5. w \in File /\ w.name = e.name /\ ~w.backup /\ w.mod = Len(wrote) + 1 /\ w.lines = <<e>>
    BY <1>5
  <2> HIDE DEF w, b
  <2>6. Kept(b, f) /\ b # w
    BY <2>3, <2>5 DEF Kept
  <2>7. \A g \in files : g # w /\ Kept(g, g)
    BY <1>3, <2>5 DEF Kept
  <2>8. \A g \in files : g.name = e.name => g = f \/ g.backup
    BY <2>2 DEF FilesInv, CurrentIsNewest
  <2>9. \A g \in files' : g # w => g = b \/ (g \in files /\ g # f)
    BY <2>4
  <2>10. \A g \in files' : g # w => g \in File /\ (\E h \in files : Kept(g, h))
                                      /\ (g.name = e.name => g.backup)
    BY <1>1, <2>2, <2>3, <2>6, <2>7, <2>8, <2>9
  <2>11. \A g \in files : \E h \in files' : h # w /\ Kept(h, g)
    BY <2>4, <2>6, <2>7
  <2>12. \A g, h \in files' : g.mod = h.mod => g = h
    BY <1>3, <2>2, <2>3, <2>4, <2>5 DEF FilesInv, FilesApart
  <2> QED
    BY <2>4, <2>5, <2>10, <2>11, <2>12 DEF Leaves
<1> QED
  BY <1>6, <1>7, <1>8 DEF Write, Extend, Rotate

\* The place i of a file g came from the file f, before a write to w.
CameFrom(g, i, f, w) ==
    /\ i \in DOMAIN f.lines /\ f.lines[i] = g.lines[i] /\ f.name = g.name
    /\ IF g = w THEN ~f.backup /\ \A h \in files' : h.mod # f.mod ELSE f.mod = g.mod

\* Every place after a write is the one written or came from a file.
LEMMA PlacesAfterWrite ==
    ASSUME FilesInv, NEW e \in pending, NEW w, Leaves(e, w), NEW g \in files', NEW i \in DOMAIN g.lines
    PROVE  \/ g = w /\ i = Len(w.lines) /\ g.lines[i] = e
           \/ \E f \in files : CameFrom(g, i, f, w)
<1>1. CASE g # w
  <2>1. PICK f \in files : Kept(g, f)
    BY <1>1 DEF Leaves
  <2> QED
    BY <1>1, <2>1 DEF Kept, CameFrom
<1>2. CASE g = w /\ w.lines = <<e>>
  <2>1. i = 1 /\ Len(w.lines) = 1 /\ w.lines[1] = e
    BY <1>2
  <2> QED
    BY <1>2, <2>1
<1>3. CASE g = w /\ w.lines # <<e>>
  <2>1. PICK f \in Current(e.name) :
            w.lines = Append(f.lines, e) /\ \A h \in files' : h.mod # f.mod
    BY <1>3 DEF Leaves
  <2>2. f \in files /\ f.name = e.name /\ ~f.backup /\ f.lines \in Seq(Entry) /\ e \in Entry
    BY DEF Current, FilesInv, TypeOK, File
  <2>3. /\ Len(w.lines) = Len(f.lines) + 1 /\ w.lines[Len(f.lines) + 1] = e
        /\ \A k \in 1..Len(f.lines) : w.lines[k] = f.lines[k]
        /\ w.lines \in Seq(Entry)
    BY <2>1, <2>2, AppendProperties
  <2>4. Len(f.lines) \in Nat /\ DOMAIN f.lines = 1..Len(f.lines) /\ DOMAIN w.lines = 1..Len(w.lines)
    BY <2>2, <2>3, LenProperties
  <2>5. CASE i = Len(w.lines)
    BY <1>3, <2>3, <2>5
  <2>6. CASE i # Len(w.lines)
    <3>1. i \in 1..Len(f.lines)
      BY <1>3, <2>3, <2>4, <2>6
    <3>2. CameFrom(g, i, f, w)
      BY <1>3, <2>1, <2>2, <2>3, <2>4, <3>1 DEF CameFrom, Leaves
    <3> QED
      BY <2>2, <3>2
  <2> QED
    BY <2>5, <2>6
<1> QED
  BY <1>1, <1>2, <1>3 DEF Leaves

\* If none has overtaken after a write, none had before, and the entry is not older than any
\* of its file.
LEMMA NotOvertaken ==
    ASSUME FilesInv, NEW e \in pending, Write(e), ~Overtaken'
    PROVE  ~Overtaken /\ \A k \in DOMAIN wrote : wrote[k].name = e.name => ~ (wrote[k].ts > e.ts)
<1>1. wrote \in Seq(Entry) /\ e \in Entry /\ wrote' = Append(wrote, e)
  BY DEF FilesInv, TypeOK, Write
<1>2. /\ Len(wrote) \in Nat /\ DOMAIN wrote = 1..Len(wrote) /\ DOMAIN wrote' = 1..Len(wrote) + 1
      /\ wrote'[Len(wrote) + 1] = e
      /\ \A i \in DOMAIN wrote : wrote'[i] = wrote[i]
  BY <1>1, AppendProperties, LenProperties
<1>3. \A j \in DOMAIN wrote' : \A i \in 1..j :
          ~ (wrote'[i].name = wrote'[j].name /\ wrote'[i].ts > wrote'[j].ts)
  BY DEF Overtaken
<1>4. ~Overtaken
  <2> SUFFICES ASSUME NEW j \in DOMAIN wrote, NEW i \in 1..j
               PROVE  ~ (wrote[i].name = wrote[j].name /\ wrote[i].ts > wrote[j].ts)
    BY DEF Overtaken
  <2>1. i \in DOMAIN wrote /\ j \in DOMAIN wrote'
    BY <1>2
  <2> QED
    BY <1>2, <1>3, <2>1
<1>5. ASSUME NEW k \in DOMAIN wrote
      PROVE  wrote[k].name = e.name => ~ (wrote[k].ts > e.ts)
  <2>1. Len(wrote) + 1 \in DOMAIN wrote' /\ k \in 1..Len(wrote) + 1
    BY <1>2
  <2> QED
    BY <1>2, <1>3, <2>1
<1> QED
  BY <1>4, <1>5

\* The times in the files that a write leaves are the old ones and that of the entry.
LEMMA WriteKeepsFiles ==
    ASSUME FilesInv, NEW e \in pending, Write(e)
    PROVE  FilesInv'
<1>1. PICK w : Leaves(e, w)
  BY EntryIsWritten
<1>2. /\ e \in Entry /\ stamped \in Nat /\ Len(wrote) \in Nat /\ e.ts \in Nat
      /\ wrote \in Seq(Entry) /\ DOMAIN wrote = 1..Len(wrote)
      /\ files \subseteq File
  BY LenProperties DEF FilesInv, TypeOK, Entry
<1>3. /\ pending' \subseteq pending \ {e} /\ stamped' = stamped
      /\ wrote' \in Seq(Entry) /\ Len(wrote') = Len(wrote) + 1 /\ DOMAIN wrote' = 1..Len(wrote) + 1
      /\ wrote'[Len(wrote) + 1] = e
      /\ \A i \in DOMAIN wrote : wrote'[i] = wrote[i]
  <2>1. wrote' = Append(wrote, e) /\ stamped' = stamped /\ pending' \subseteq pending \ {e}
    BY DEF Write
  <2> QED
    BY <1>2, <2>1, AppendProperties, LenProperties
<1>4. /\ w \in files' /\ w \in File /\ w.name = e.name /\ ~w.backup /\ w.mod = Len(wrote) + 1
      /\ \A g \in files' : g # w => g \in File /\ (\E f \in files : Kept(g, f))
                                       /\ (g.name = e.name => g.backup)
  BY <1>1 DEF Leaves
<1>5. \A g \in files' : g = w \/ g.mod \in 1..Len(wrote)
  <2> SUFFICES ASSUME NEW g \in files', g # w
               PROVE  g.mod \in 1..Len(wrote)
    OBVIOUS
  <2>1. PICK f \in files : Kept(g, f)
    BY <1>4
  <2> QED
    BY <2>1 DEF Kept, FilesInv, FilesApart
<1>6. TypeOK'
  <2>1. files' \subseteq File
    BY <1>4
  <2> QED
    BY <1>2, <1>3, <2>1 DEF FilesInv, TypeOK
<1>7. FilesApart'
  <2>1. \A f \in files' : f.mod \in 1..Len(wrote')
    BY <1>2, <1>3, <1>4, <1>5
  <2>2. \A f, g \in files' : f.mod = g.mod => f = g
    BY <1>1 DEF Leaves
  <2> QED
    BY <2>1, <2>2 DEF FilesApart
<1>8. CurrentIsNewest'
  <2> SUFFICES ASSUME NEW f \in files', NEW g \in files', f.name = g.name, ~g.backup, f # g
               PROVE  f.backup /\ f.mod < g.mod
    BY DEF CurrentIsNewest
  <2>1. CASE g = w
    BY <1>2, <1>4, <1>5, <2>1
  <2>2. CASE g # w
    <3>1. f # w
      BY <1>4, <2>2
    <3>2. PICK f0 \in files : Kept(f, f0)
      BY <1>4, <3>1
    <3>3. PICK g0 \in files : Kept(g, g0)
      BY <1>4, <2>2
    <3>4. f.mod # g.mod
      BY <1>7 DEF FilesApart
    <3>5. f0 # g0 /\ f0.name = g0.name /\ ~g0.backup
      BY <3>2, <3>3, <3>4 DEF Kept
    <3>6. f0.backup /\ f0.mod < g0.mod
      BY <3>5 DEF FilesInv, CurrentIsNewest
    <3> QED
      BY <3>2, <3>3, <3>6 DEF Kept
  <2> QED
    BY <2>1, <2>2
<1>9. ASSUME NEW g \in files', NEW i \in DOMAIN g.lines, NEW f \in files, CameFrom(g, i, f, w)
      PROVE  /\ g.lines[i] = f.lines[i] /\ i \in DOMAIN f.lines
             /\ g.lines[i].name = g.name /\ g.lines[i] \in ToSet(wrote)
             /\ g.lines[i].ts \in 1..stamped
             /\ \A d \in pending : d.ts # g.lines[i].ts
  <2>1. g.lines[i] = f.lines[i] /\ i \in DOMAIN f.lines /\ f.name = g.name
    BY <1>9 DEF CameFrom
  <2>2. f.lines[i].name = f.name /\ f.lines[i] \in ToSet(wrote)
    BY <2>1 DEF FilesInv, LinesAreWritten
  <2>3. PICK k \in DOMAIN wrote : f.lines[i] = wrote[k]
    BY <2>2 DEF ToSet
  <2> QED
    BY <2>1, <2>2, <2>3 DEF FilesInv, TimesApart
<1>12. LinesAreWritten'
  <2> SUFFICES ASSUME NEW g \in files', NEW i \in DOMAIN g.lines
               PROVE  g.lines[i].name = g.name /\ g.lines[i] \in ToSet(wrote')
    BY DEF LinesAreWritten
  <2>1. ToSet(wrote) \subseteq ToSet(wrote') /\ e \in ToSet(wrote')
    BY <1>2, <1>3 DEF ToSet
  <2>2. CASE g = w /\ g.lines[i] = e
    BY <1>4, <2>1, <2>2
  <2>3. CASE \E f \in files : CameFrom(g, i, f, w)
    BY <1>9, <2>1, <2>3
  <2> QED
    BY <1>1, <2>2, <2>3, PlacesAfterWrite
<1>10. TimesApart'
  <2>1. \A d \in pending' : d.ts \in 1..stamped'
    BY <1>3 DEF FilesInv, TimesApart
  <2>2. \A d, c \in pending' : d.ts = c.ts => d = c
    BY <1>3 DEF FilesInv, TimesApart
  <2>3. \A i \in DOMAIN wrote' :
            wrote'[i].ts \in 1..stamped' /\ \A d \in pending' : d.ts # wrote'[i].ts
    <3> SUFFICES ASSUME NEW i \in DOMAIN wrote'
                 PROVE  wrote'[i].ts \in 1..stamped' /\ \A d \in pending' : d.ts # wrote'[i].ts
      OBVIOUS
    <3>1. CASE i \in DOMAIN wrote
      BY <1>3, <3>1 DEF FilesInv, TimesApart
    <3>2. CASE i \notin DOMAIN wrote
      <4>1. wrote'[i] = e
        BY <1>2, <1>3, <3>2
      <4> QED
        BY <1>3, <4>1 DEF FilesInv, TimesApart
    <3> QED
      BY <3>1, <3>2
  <2>5. \A i, j \in DOMAIN wrote' : wrote'[i].ts = wrote'[j].ts => i = j
    <3> SUFFICES ASSUME NEW i \in DOMAIN wrote', NEW j \in DOMAIN wrote', wrote'[i].ts = wrote'[j].ts
                 PROVE  i = j
      OBVIOUS
    <3>1. \A k \in DOMAIN wrote' : k \in DOMAIN wrote \/ (k = Len(wrote) + 1 /\ wrote'[k] = e)
      BY <1>2, <1>3
    <3>2. \A k \in DOMAIN wrote : wrote'[k] = wrote[k] /\ wrote[k].ts # e.ts
      BY <1>3 DEF FilesInv, TimesApart
    <3> QED
      BY <3>1, <3>2 DEF FilesInv, TimesApart
  <2>4. ASSUME NEW g \in files', NEW h \in files', NEW i \in DOMAIN g.lines, NEW j \in DOMAIN h.lines,
               g.lines[i].ts = h.lines[j].ts
        PROVE  g = h /\ i = j
    <3>1. CASE \E f \in files, k \in files : CameFrom(g, i, f, w) /\ CameFrom(h, j, k, w)
      <4>1. PICK f \in files, k \in files : CameFrom(g, i, f, w) /\ CameFrom(h, j, k, w)
        BY <3>1
      <4>2. f = k /\ i = j
        BY <1>9, <2>4, <4>1 DEF FilesInv, TimesApart
      <4>3. g.mod = h.mod \/ (g = w /\ h = w)
        BY <4>1, <4>2 DEF CameFrom
      <4> QED
        BY <1>7, <4>2, <4>3 DEF FilesApart
    <3>2. CASE g.lines[i] = e \/ h.lines[j] = e
      <4>1. ~ \E f \in files : CameFrom(g, i, f, w) \/ CameFrom(h, j, f, w)
        BY <1>9, <2>4, <3>2
      <4> QED
        BY <1>1, <4>1, PlacesAfterWrite
    <3> QED
      BY <1>1, <3>1, <3>2, PlacesAfterWrite
  <2> QED
    BY <2>1, <2>2, <2>3, <2>4, <2>5 DEF TimesApart
<1>11. InTimeOrder'
  <2> SUFFICES ASSUME ~Overtaken', NEW g \in files', NEW h \in files', g.name = h.name,
                      NEW i \in DOMAIN g.lines, NEW j \in DOMAIN h.lines,
                      g.mod < h.mod \/ (g = h /\ i < j)
               PROVE  g.lines[i].ts < h.lines[j].ts
    BY DEF InTimeOrder
  <2>1. /\ ~Overtaken
        /\ \A f \in files : f.name = e.name =>
              \A k \in 1..Len(f.lines) : ~ (f.lines[k].ts > e.ts)
    <3>1. ~Overtaken /\ \A k \in DOMAIN wrote : wrote[k].name = e.name => ~ (wrote[k].ts > e.ts)
      BY NotOvertaken
    <3>2. ASSUME NEW f \in files, f.name = e.name, NEW k \in 1..Len(f.lines)
          PROVE  ~ (f.lines[k].ts > e.ts)
      <4>1. k \in DOMAIN f.lines
        BY <1>2, LenProperties DEF File
      <4>2. f.lines[k].name = f.name /\ f.lines[k] \in ToSet(wrote)
        BY <4>1 DEF FilesInv, LinesAreWritten
      <4> QED
        BY <3>1, <3>2, <4>2 DEF ToSet
    <3> QED
      BY <3>1, <3>2
  <2>2. \A f \in files : DOMAIN f.lines = 1..Len(f.lines)
    BY <1>2, LenProperties DEF File
  <2>3. h.lines \in Seq(Entry) /\ DOMAIN h.lines = 1..Len(h.lines) /\ Len(h.lines) \in Nat
    BY <1>6, LenProperties DEF TypeOK, File
  <2>4. CASE g = w /\ i = Len(w.lines)
    <3>1. h # w /\ h.mod \in 1..Len(wrote)
      BY <1>2, <1>4, <1>5, <2>3, <2>4
    <3> QED
      BY <1>2, <1>4, <2>4, <3>1
  <2>5. ASSUME NEW f \in files, CameFrom(g, i, f, w), h = w, h.lines[j] = e
        PROVE  g.lines[i].ts < h.lines[j].ts
    <3>1. f.name = e.name /\ i \in 1..Len(f.lines)
      BY <1>4, <2>2, <2>5 DEF CameFrom
    <3>2. e.ts # g.lines[i].ts /\ ~ (g.lines[i].ts > e.ts) /\ g.lines[i].ts \in Int
      BY <1>9, <2>1, <2>5, <3>1
    <3> QED
      BY <1>2, <2>5, <3>2
  <2>6. ASSUME NEW f \in files, CameFrom(g, i, f, w), NEW k \in files, CameFrom(h, j, k, w)
        PROVE  g.lines[i].ts < h.lines[j].ts
    <3>1. f.name = k.name
      BY <2>6 DEF CameFrom
    <3>2. f.mod < k.mod \/ (f = k /\ i < j)
      <4>1. CASE h # w
        <5>1. g # w
          BY <1>2, <1>4, <1>5, <4>1
        <5> QED
          BY <2>6, <4>1, <5>1 DEF CameFrom, FilesInv, FilesApart
      <4>2. CASE h = w /\ g = w
        <5>1. i < j /\ ~f.backup /\ ~k.backup
          BY <1>2, <1>4, <2>6, <4>2 DEF CameFrom
        <5> QED
          BY <3>1, <5>1 DEF FilesInv, CurrentIsNewest
      <4>3. CASE h = w /\ g # w
        <5>1. ~k.backup /\ g.mod # k.mod /\ f.mod = g.mod
          BY <2>6, <4>3 DEF CameFrom
        <5> QED
          BY <3>1, <5>1 DEF FilesInv, CurrentIsNewest
      <4> QED
        BY <4>1, <4>2, <4>3
    <3>3. i \in DOMAIN f.lines /\ j \in DOMAIN k.lines
      BY <2>6 DEF CameFrom
    <3>4. f.lines[i].ts < k.lines[j].ts
      BY <2>1, <3>1, <3>2, <3>3 DEF FilesInv, InTimeOrder
    <3> QED
      BY <1>9, <2>6, <3>4
  <2> QED
    BY <1>1, <2>4, <2>5, <2>6, PlacesAfterWrite
<1> QED
  BY <1>6, <1>7, <1>8, <1>10, <1>11, <1>12 DEF FilesInv

LEMMA StampKeepsFiles ==
    ASSUME FilesInv, Stamp
    PROVE  FilesInv'
<1>1. PICK m \in Messages :
        pending' = pending \cup {[ts |-> stamped + 1, name |-> m.name, trace |-> m.trace,
                                  long |-> m.long]}
  BY DEF Stamp
<1> DEFINE e == [ts |-> stamped + 1, name |-> m.name, trace |-> m.trace, long |-> m.long]
<1>2. /\ stamped \in Nat /\ stamped' = stamped + 1
      /\ UNCHANGED <<wrote, files>>
  BY DEF Stamp, FilesInv, TypeOK
<1>3. e \in Entry /\ e.ts = stamped + 1
  BY <1>2 DEF Entry, Names
<1>4. pending' = pending \cup {e}
  BY <1>1
<1> HIDE DEF e
<1>5. TypeOK'
  BY <1>2, <1>3, <1>4 DEF FilesInv, TypeOK
<1>6. TimesApart'
  <2>1. (\A d \in pending : d.ts \in 1..stamped)
          /\ \A i \in DOMAIN wrote : wrote[i].ts \in 1..stamped
    BY DEF FilesInv, TimesApart
  <2> QED
    BY <1>2, <1>3, <1>4, <2>1 DEF FilesInv, TimesApart
<1>7. LinesAreWritten' /\ FilesApart' /\ CurrentIsNewest' /\ InTimeOrder'
  BY <1>2 DEF FilesInv, LinesAreWritten, FilesApart, CurrentIsNewest, InTimeOrder, Overtaken
<1> QED
  BY <1>5, <1>6, <1>7 DEF FilesInv

LEMMA PruneKeepsFiles ==
    ASSUME FilesInv, Prune
    PROVE  FilesInv'
<1>1. files' \subseteq files /\ UNCHANGED <<stamped, pending, wrote>>
  BY DEF Prune
<1>2. TypeOK' /\ TimesApart' /\ LinesAreWritten'
  BY <1>1 DEF FilesInv, TypeOK, TimesApart, LinesAreWritten
<1>3. FilesApart' /\ CurrentIsNewest' /\ InTimeOrder'
  BY <1>1 DEF FilesInv, FilesApart, CurrentIsNewest, InTimeOrder, Overtaken
<1> QED
  BY <1>2, <1>3 DEF FilesInv

LEMMA FilesInit == Init => FilesInv
<1> SUFFICES ASSUME Init
             PROVE  FilesInv
  OBVIOUS
<1>1. files = {} /\ pending = {} /\ stamped = 0 /\ wrote = <<>>
  BY DEF Init
<1>2. TypeOK
  BY <1>1, EmptySeq DEF TypeOK
<1>3. DOMAIN wrote = {}
  BY <1>1
<1> QED
  BY <1>1, <1>2, <1>3
  DEF FilesInv, TimesApart, LinesAreWritten, FilesApart, CurrentIsNewest, InTimeOrder

LEMMA FilesNext ==
    ASSUME FilesInv, [Next]_vars
    PROVE  FilesInv'
<1>1. ASSUME UNCHANGED <<stamped, pending, files, wrote>>
      PROVE  FilesInv'
  BY <1>1 DEF FilesInv, TypeOK, TimesApart, LinesAreWritten, FilesApart, CurrentIsNewest, InTimeOrder,
              Overtaken
<1>2. CASE SetLevel \/ UNCHANGED vars
  BY <1>1, <1>2 DEF SetLevel, vars, log
<1>3. ASSUME NEW s \in Slots,
             \/ \E r \in Requests : Refresh(s, r) \/ LoadMore(s, r)
             \/ ReadFile(s) \/ SkipFile(s) \/ ShowAnswer(s) \/ QueryFails(s)
      PROVE  FilesInv'
  <2>1. UNCHANGED log
    BY <1>3 DEF Refresh, LoadMore, ReadFile, SkipFile, Collects, ShowAnswer, QueryFails
  <2> QED
    BY <1>1, <2>1 DEF log
<1> QED
  BY <1>2, <1>3, StampKeepsFiles, WriteKeepsFiles, PruneKeepsFiles DEF Next


-----------------------------------------------------------------------------
(* What a query is built from. *)

LEMMA LimitIs ==
    ASSUME NEW r \in Requests
    PROVE  Limit(r) \in Nat \ {0}
  BY LogAssumption DEF Limit

LEMMA FilesAreFinite ==
    ASSUME FilesInv
    PROVE  IsFiniteSet(files)
<1> DEFINE mod == [f \in files |-> f.mod]
<1>1. mod \in Injection(files, 1..Len(wrote))
  BY DEF FilesInv, FilesApart, Injection, IsInjective
<1>2. IsFiniteSet(1..Len(wrote))
  <2>1. Len(wrote) \in Nat
    BY LenProperties DEF FilesInv, TypeOK
  <2> QED
    BY <2>1, FS_Interval
<1> HIDE DEF mod
<1> QED
  BY <1>1, <1>2, FS_Injection

\* No two files have the same path.
LEMMA PathsApart ==
    ASSUME FilesInv, NEW f \in files, NEW g \in files, Path(f) = Path(g)
    PROVE  f = g
<1>1. f.name = g.name /\ f.mod \in 1..Len(wrote) /\ g.mod \in 1..Len(wrote)
  BY DEF Path, FilesInv, FilesApart
<1>2. f.backup \in BOOLEAN /\ g.backup \in BOOLEAN
  BY DEF FilesInv, TypeOK, File
<1>3. CASE f.backup
  <2>1. g.backup /\ f.mod = g.mod
    BY <1>1, <1>2, <1>3 DEF Path
  <2> QED
    BY <2>1 DEF FilesInv, FilesApart
<1>4. CASE ~f.backup
  <2>1. ~g.backup
    BY <1>1, <1>2, <1>4 DEF Path
  <2> QED
    BY <1>1, <1>4, <2>1 DEF FilesInv, CurrentIsNewest
<1> QED
  BY <1>2, <1>3, <1>4

\* The directory as it is listed: each file that is asked for once, the newest first.
LEMMA ListedIs ==
    ASSUME FilesInv, NEW r \in Requests
    PROVE  LET n == Cardinality(MatchFiles(r))
           IN  /\ n \in Nat
               /\ \E file \in [1..n -> MatchFiles(r)] :
                     /\ Listed(r) = [k \in 1..n |-> Path(file[k])]
                     /\ \A f \in MatchFiles(r) : \E k \in 1..n : file[k] = f
                     /\ \A j, k \in 1..n : j < k => file[j].mod > file[k].mod
<1> DEFINE found == MatchFiles(r)
           newer == {p \in found \X found : p[1].mod > p[2].mod}
           n == Cardinality(found)
           file == InOrder(found, newer)
<1>1. found \in SUBSET files
  BY DEF MatchFiles
<1>2. IsFiniteSet(found)
  BY <1>1, FilesAreFinite, FS_Subset
<1>3. \A f, g \in found : <<f, g>> \in newer <=> f.mod > g.mod
  OBVIOUS
<1>4. \A f, g \in found : f.mod \in Int /\ (f.mod = g.mod => f = g)
  BY <1>1 DEF FilesInv, FilesApart
<1>5. Listed(r) = [k \in DOMAIN file |-> Path(file[k])]
  BY DEF Listed
<1> HIDE DEF found, newer
<1>6. StrictOrder(found, newer)
  BY <1>3, <1>4 DEF StrictOrder
<1>7. /\ n \in Nat /\ file \in [1..n -> found]
      /\ \A x \in found : \E k \in 1..n : file[k] = x
      /\ \A j, k \in 1..n : j < k => <<file[j], file[k]>> \in newer
  BY <1>2, <1>6, InOrderIs
<1> HIDE DEF file, n
<1>8. \A j, k \in 1..n : j < k => file[j].mod > file[k].mod
  BY <1>3, <1>7
<1>9. Listed(r) = [k \in 1..n |-> Path(file[k])]
  BY <1>5, <1>7
<1> QED
  BY <1>7, <1>8, <1>9 DEF n, found

Paths == Names \X Nat
Queried == [request : Requests, offset : Nat, fresh : BOOLEAN, todo : Seq(Paths),
            matched : Seq(Entry)]

Room(q) == Need(q) - Len(q.matched)

\* The lines of a file that a scan takes: in the range, of the trace id, the last first, as
\* many as there is room for.
LEMMA ScanIs ==
    ASSUME NEW f \in File, NEW q \in Queried, Room(q) > 0
    PROVE  LET found == {i \in DOMAIN f.lines :
                            Reached(f, i, q.request) /\ Matches(f.lines[i], q.request)}
           IN  /\ Scan(f, q) \in Seq(Entry) /\ Len(Scan(f, q)) <= Room(q)
               /\ \E place \in [1..Len(Scan(f, q)) -> found] :
                     /\ \A k \in 1..Len(Scan(f, q)) : Scan(f, q)[k] = f.lines[place[k]]
                     /\ \A j, k \in 1..Len(Scan(f, q)) : j < k => place[j] > place[k]
                     /\ \A i \in found :
                           \/ \E k \in 1..Len(Scan(f, q)) : place[k] = i
                           \/ /\ Len(Scan(f, q)) = Room(q)
                              /\ \A k \in 1..Len(Scan(f, q)) : place[k] > i
<1> DEFINE found == {i \in DOMAIN f.lines :
                        Reached(f, i, q.request) /\ Matches(f.lines[i], q.request)}
           later == {p \in found \X found : p[1] > p[2]}
           n == Cardinality(found)
           last == InOrder(found, later)
           room == Room(q)
           m == IF Len(last) < room THEN Len(last) ELSE room
<1>1. f.lines \in Seq(Entry) /\ DOMAIN f.lines = 1..Len(f.lines) /\ Len(f.lines) \in Nat
  BY LenProperties DEF File
<1>2. found \in SUBSET (1..Len(f.lines))
  BY <1>1
<1>3. IsFiniteSet(found)
  <2>1. IsFiniteSet(1..Len(f.lines))
    BY <1>1, FS_Interval
  <2> HIDE DEF found
  <2> QED
    BY <1>2, <2>1, FS_Subset
<1>4. \A i, j \in found : <<i, j>> \in later <=> i > j
  OBVIOUS
<1>5. Scan(f, q) = [k \in 1..m |-> f.lines[last[k]]]
  BY DEF Scan, Room
<1>6. room \in Nat \ {0}
  <2>1. q.matched \in Seq(Entry) /\ q.request \in Requests /\ q.offset \in Nat
    BY DEF Queried
  <2>2. Len(q.matched) \in Nat /\ Limit(q.request) \in Nat
    BY <2>1, LenProperties, LimitIs
  <2> QED
    BY <2>1, <2>2 DEF Room, Need
<1> HIDE DEF found, later, room
<1>7. StrictOrder(found, later)
  BY <1>2, <1>4 DEF StrictOrder
<1>8. /\ n \in Nat /\ last \in [1..n -> found]
      /\ \A x \in found : \E k \in 1..n : last[k] = x
      /\ \A j, k \in 1..n : j < k => <<last[j], last[k]>> \in later
  BY <1>3, <1>7, InOrderIs
<1> HIDE DEF n, last
<1>9. Len(last) = n
  BY <1>8
<1>10. m \in Nat /\ m <= n /\ m <= room /\ (m = n \/ m = room)
  BY <1>6, <1>8, <1>9
<1> HIDE DEF m
<1>11. \A k \in 1..m : last[k] \in found /\ f.lines[last[k]] \in Entry
  <2>1. \A k \in 1..m : k \in 1..n
    BY <1>8, <1>10
  <2>2. \A k \in 1..m : last[k] \in found
    BY <1>8, <2>1
  <2>3. \A i \in found : f.lines[i] \in Entry
    BY <1>1, <1>2
  <2> QED
    BY <2>2, <2>3
<1>12. Scan(f, q) \in Seq(Entry) /\ Len(Scan(f, q)) = m
  BY <1>5, <1>10, <1>11
<1> DEFINE place == [k \in 1..m |-> last[k]]
<1>13. place \in [1..m -> found]
  BY <1>11
<1>14. \A k \in 1..m : Scan(f, q)[k] = f.lines[place[k]]
  BY <1>5
<1>17. \A j, k \in 1..n : j < k => last[j] > last[k]
  BY <1>4, <1>8
<1>15. \A j, k \in 1..m : j < k => place[j] > place[k]
  <2>1. \A k \in 1..m : k \in 1..n
    BY <1>8, <1>10
  <2> QED
    BY <1>17, <2>1
<1>16. ASSUME NEW i \in found, \A k \in 1..m : place[k] # i
       PROVE  m = room /\ \A k \in 1..m : place[k] > i
  <2>1. PICK j \in 1..n : last[j] = i
    BY <1>8
  <2>2. j \notin 1..m
    BY <1>16, <2>1
  <2>3. m < j /\ m # n
    BY <1>8, <1>10, <2>2
  <2>4. \A k \in 1..m : last[k] > i
    <3>1. \A k \in 1..m : k \in 1..n /\ k < j
      BY <1>8, <1>10, <2>1, <2>3
    <3> QED
      BY <1>17, <2>1, <3>1
  <2> QED
    BY <1>10, <2>3, <2>4
<1> HIDE DEF place
<1> QED
  BY <1>10, <1>12, <1>13, <1>14, <1>15, <1>16 DEF found, room

\* A list of entries of different times, sorted: the same entries, the newest first.
LEMMA NewestFirstIs ==
    ASSUME NEW entries \in Seq(Entry),
           \A j, k \in DOMAIN entries : entries[j].ts = entries[k].ts => j = k
    PROVE  /\ NewestFirst(entries) \in Seq(Entry) /\ Len(NewestFirst(entries)) = Len(entries)
           /\ \A k \in 1..Len(entries) : NewestFirst(entries)[k] \in ToSet(entries)
           /\ \A e \in ToSet(entries) : \E k \in 1..Len(entries) : NewestFirst(entries)[k] = e
           /\ \A j, k \in 1..Len(entries) :
                 j < k => NewestFirst(entries)[j].ts > NewestFirst(entries)[k].ts
<1> DEFINE S == DOMAIN entries
           before == Before(entries)
           n == Len(entries)
           places == InOrder(S, before)
<1>1. n \in Nat /\ S = 1..n /\ entries \in [1..n -> Entry]
  BY LenProperties
<1>2. IsFiniteSet(S) /\ Cardinality(S) = n
  BY <1>1, FS_Interval
<1>3. \A j \in S : entries[j].ts \in Nat
  BY <1>1 DEF Entry
<1>4. \A j, k \in S : <<j, k>> \in before <=> entries[j].ts > entries[k].ts
  BY <1>1, <1>3 DEF Before
<1>5. NewestFirst(entries) = [k \in DOMAIN places |-> entries[places[k]]]
  BY DEF NewestFirst
<1> HIDE DEF before
<1>6. StrictOrder(S, before)
  <2>1. \A j, k \in S : entries[j].ts = entries[k].ts => j = k
    OBVIOUS
  <2> HIDE DEF S
  <2>2. \A x \in S : <<x, x>> \notin before
    BY <1>3, <1>4
  <2>3. \A x, y \in S : x # y => <<x, y>> \in before \/ <<y, x>> \in before
    BY <1>3, <1>4, <2>1
  <2>4. ASSUME NEW x \in S, NEW y \in S, NEW z \in S, <<x, y>> \in before, <<y, z>> \in before
        PROVE  <<x, z>> \in before
    <3>1. entries[x].ts > entries[y].ts /\ entries[y].ts > entries[z].ts
      BY <1>4, <2>4
    <3>2. entries[x].ts \in Nat /\ entries[y].ts \in Nat /\ entries[z].ts \in Nat
      BY <1>3
    <3>3. entries[x].ts > entries[z].ts
      BY <3>1, <3>2
    <3> QED
      BY <1>4, <3>3
  <2> QED
    BY <2>2, <2>3, <2>4 DEF StrictOrder
<1>7. /\ places \in [1..n -> S]
      /\ \A x \in S : \E k \in 1..n : places[k] = x
      /\ \A j, k \in 1..n : j < k => <<places[j], places[k]>> \in before
  <2> HIDE DEF S, n
  <2> QED
    BY <1>2, <1>6, InOrderIs
<1> HIDE DEF places, n
<1>8. NewestFirst(entries) = [k \in 1..n |-> entries[places[k]]]
  BY <1>5, <1>7
<1>9. \A k \in 1..n : places[k] \in S /\ entries[places[k]] \in Entry
  BY <1>1, <1>7
<1>10. NewestFirst(entries) \in Seq(Entry) /\ Len(NewestFirst(entries)) = n
  BY <1>1, <1>8, <1>9
<1>11. \A j, k \in 1..n : j < k => entries[places[j]].ts > entries[places[k]].ts
  BY <1>4, <1>7, <1>9
<1>12. \A e \in ToSet(entries) : \E k \in 1..n : entries[places[k]] = e
  BY <1>7 DEF ToSet
<1>13. \A k \in 1..n : entries[places[k]] \in ToSet(entries)
  BY <1>9 DEF ToSet
<1> QED
  BY <1>8, <1>10, <1>11, <1>12, <1>13 DEF n

-----------------------------------------------------------------------------
(* The invariant of the queries. *)

\* What was collected was written and is asked for, each entry once.
CollectedIsSound(s) ==
    LET q == queries[s]
    IN  /\ \A k \in DOMAIN q.matched :
              /\ q.matched[k] \in ToSet(wrote)
              /\ q.matched[k].name \in NamesAsked(q.request)
              /\ Matches(q.matched[k], q.request)
        /\ \A j, k \in DOMAIN q.matched : q.matched[j].ts = q.matched[k].ts => j = k

\* Each file still to be read is read once, the one written to not also under the path that
\* it gets when it is put aside, and holds nothing that was collected.
TodoIsSound(s) ==
    LET q == queries[s]
    IN  /\ \A i, j \in DOMAIN q.todo : q.todo[i] = q.todo[j] => i = j
        /\ \A i \in DOMAIN q.todo :
              q.todo[i][1] \in NamesAsked(q.request) /\ q.todo[i][2] \in 0..Len(wrote)
        /\ \A f \in files : ~f.backup => <<f.name, f.mod>> \notin ToSet(q.todo)
        /\ \A f \in files : Path(f) \in ToSet(q.todo) =>
              \A i \in DOMAIN f.lines, k \in DOMAIN q.matched : f.lines[i].ts # q.matched[k].ts

QuerySound(s) ==
    /\ queries[s] \in Queried
    /\ queries[s].todo # <<>> => Room(queries[s]) > 0
    /\ CollectedIsSound(s) /\ TodoIsSound(s)

QueriesInv ==
    /\ view \in Seq(Entry)
    /\ DOMAIN queries = Slots
    /\ \A s \in Slots : queries[s] # None => QuerySound(s)

LEMMA SameIsSound ==
    ASSUME NEW s \in Slots, QuerySound(s), queries'[s] = queries[s], UNCHANGED <<files, wrote>>
    PROVE  QuerySound(s)'
  BY DEF QuerySound, CollectedIsSound, TodoIsSound, Room, Need

LEMMA StartIsSound ==
    ASSUME FilesInv, NEW s \in Slots, UNCHANGED <<files, wrote>>,
           NEW r \in Requests, NEW offset \in Nat, NEW fresh \in BOOLEAN,
           queries'[s] = Query(r, offset, fresh)
    PROVE  QuerySound(s)'
<1> DEFINE n == Cardinality(MatchFiles(r))
<1>1. n \in Nat
  BY ListedIs
<1>2. PICK file \in [1..n -> MatchFiles(r)] :
         /\ Listed(r) = [k \in 1..n |-> Path(file[k])]
         /\ \A f \in MatchFiles(r) : \E k \in 1..n : file[k] = f
         /\ \A j, k \in 1..n : j < k => file[j].mod > file[k].mod
  BY ListedIs
<1> HIDE DEF n
<1>3. ASSUME NEW k \in 1..n
      PROVE  /\ file[k] \in files /\ file[k].name \in NamesAsked(r) /\ file[k].name \in Names
             /\ file[k].mod \in 1..Len(wrote) /\ Len(wrote) \in Nat /\ file[k].backup \in BOOLEAN
  BY LenProperties DEF MatchFiles, FilesInv, TypeOK, File, FilesApart
<1>4. \A k \in 1..n : Path(file[k]) \in Paths /\ Path(file[k])[1] \in NamesAsked(r)
                        /\ Path(file[k])[2] \in 0..Len(wrote)
  BY <1>3 DEF Path, Paths
<1>5. Listed(r) \in Seq(Paths) /\ DOMAIN Listed(r) = 1..n
  BY <1>1, <1>2, <1>4
<1>6. LET q == queries'[s]
      IN  /\ q.request = r /\ q.offset = offset /\ q.fresh = fresh /\ q.todo = Listed(r)
          /\ q.matched = <<>> /\ q \in Queried
  BY <1>5, EmptySeq DEF Query, Queried
<1>7. Room(queries'[s]) > 0
  <2>1. Limit(r) \in Nat \ {0} /\ Len(<<>>) = 0
    BY LimitIs
  <2> QED
    BY <1>6, <2>1 DEF Room, Need
<1>8. CollectedIsSound(s)'
  BY <1>6 DEF CollectedIsSound
<1>9. \A i, j \in 1..n : Listed(r)[i] = Listed(r)[j] => i = j
  <2>1. \A i, j \in 1..n : file[i] = file[j] => ~ (i < j) /\ ~ (j < i)
    BY <1>2, <1>3
  <2> QED
    BY <1>1, <1>2, <1>3, <2>1, PathsApart
<1>10. ASSUME NEW f \in files, ~f.backup, NEW k \in 1..n, Listed(r)[k] = <<f.name, f.mod>>
       PROVE  FALSE
  <2>1. file[k].backup /\ file[k].mod = f.mod
    BY <1>2, <1>3, <1>10 DEF Path, FilesInv, FilesApart
  <2> QED
    BY <1>3, <1>10, <2>1 DEF FilesInv, FilesApart
<1>11. TodoIsSound(s)'
  <2>1. \A i \in 1..n : Listed(r)[i][1] \in NamesAsked(r) /\ Listed(r)[i][2] \in 0..Len(wrote)
    BY <1>2, <1>4
  <2>2. \A f \in files : ~f.backup => <<f.name, f.mod>> \notin ToSet(Listed(r))
    BY <1>5, <1>10 DEF ToSet
  <2> QED
    BY <1>5, <1>6, <1>9, <2>1, <2>2 DEF TodoIsSound
<1> QED
  BY <1>6, <1>7, <1>8, <1>11 DEF QuerySound, Room, Need

LEMMA WriteKeepsSound ==
    ASSUME FilesInv, NEW s \in Slots, QuerySound(s), NEW e \in pending, Write(e)
    PROVE  QuerySound(s)'
<1> DEFINE q == queries[s]
<1>1. PICK w : Leaves(e, w)
  BY EntryIsWritten
<1>2. queries'[s] = q /\ queries[s] = q
  BY DEF Write
<1> HIDE DEF q
<1>3. /\ Len(wrote) \in Nat /\ Len(wrote') = Len(wrote) + 1 /\ ToSet(wrote) \subseteq ToSet(wrote')
      /\ \A i \in DOMAIN wrote : wrote[i].ts # e.ts
  <2>1. wrote \in Seq(Entry) /\ e \in Entry /\ wrote' = Append(wrote, e)
    BY DEF FilesInv, TypeOK, Write
  <2>2. /\ Len(wrote) \in Nat /\ Len(wrote') = Len(wrote) + 1 /\ wrote' \in Seq(Entry)
        /\ DOMAIN wrote = 1..Len(wrote) /\ DOMAIN wrote' = 1..Len(wrote')
        /\ \A i \in DOMAIN wrote : wrote'[i] = wrote[i]
    BY <2>1, AppendProperties, LenProperties
  <2>3. ToSet(wrote) \subseteq ToSet(wrote')
    BY <2>2 DEF ToSet
  <2> QED
    BY <2>2, <2>3 DEF FilesInv, TimesApart
<1>4. q \in Queried /\ (q.todo # <<>> => Room(q) > 0)
  BY <1>2 DEF QuerySound
<1>5. CollectedIsSound(s)'
  BY <1>2, <1>3 DEF QuerySound, CollectedIsSound
<1>6. /\ \A i \in DOMAIN q.todo : q.todo[i][2] \in 0..Len(wrote)
      /\ \A f \in files : ~f.backup => <<f.name, f.mod>> \notin ToSet(q.todo)
      /\ \A f \in files : Path(f) \in ToSet(q.todo) =>
            \A i \in DOMAIN f.lines, k \in DOMAIN q.matched : f.lines[i].ts # q.matched[k].ts
  BY <1>2 DEF QuerySound, TodoIsSound
<1>7. \A f \in files : f.backup \in BOOLEAN
  BY DEF FilesInv, TypeOK, File
<1>8. ASSUME NEW g \in files', g # w
      PROVE  \E f \in files : /\ f.name = g.name /\ f.mod = g.mod /\ f.lines = g.lines
                              /\ ~g.backup => ~f.backup
                              /\ Path(g) \in ToSet(q.todo) => Path(f) = Path(g)
  <2>1. PICK f \in files : Kept(g, f)
    BY <1>1, <1>8 DEF Leaves
  <2>2. g.backup \in BOOLEAN
    BY <1>1, <1>8 DEF Leaves, File
  <2>3. CASE f.backup = g.backup
    BY <2>1, <2>3 DEF Kept, Path
  <2>4. CASE f.backup # g.backup
    <3>1. ~f.backup /\ g.backup
      BY <1>7, <2>1, <2>2, <2>4 DEF Kept
    <3>2. Path(g) = <<f.name, f.mod>>
      BY <2>1, <3>1 DEF Kept, Path
    <3> QED
      BY <1>6, <2>1, <3>1, <3>2 DEF Kept
  <2> QED
    BY <2>3, <2>4
<1>9. ASSUME NEW g \in files', ~g.backup
      PROVE  <<g.name, g.mod>> \notin ToSet(q.todo)
  <2>1. CASE g = w
    <3>1. g.mod \notin 0..Len(wrote)
      BY <1>1, <1>3, <2>1 DEF Leaves
    <3> QED
      BY <1>6, <3>1 DEF ToSet
  <2>2. CASE g # w
    BY <1>6, <1>8, <1>9, <2>2
  <2> QED
    BY <2>1, <2>2
<1>10. \A k \in DOMAIN q.matched : q.matched[k] \in ToSet(wrote)
  BY <1>2 DEF QuerySound, CollectedIsSound
<1>11. ASSUME NEW g \in files', Path(g) \in ToSet(q.todo), NEW i \in DOMAIN g.lines,
              NEW k \in DOMAIN q.matched
       PROVE  g.lines[i].ts # q.matched[k].ts
  <2>1. CASE g = w /\ g.lines[i] = e
    BY <1>3, <1>10, <2>1 DEF ToSet
  <2>2. CASE g = w /\ \E f \in files : CameFrom(g, i, f, w)
    <3>1. PICK f \in files : CameFrom(g, i, f, w)
      BY <2>2
    <3>2. Path(f) = Path(g) /\ i \in DOMAIN f.lines /\ f.lines[i] = g.lines[i]
      BY <1>1, <2>2, <3>1 DEF CameFrom, Path, Leaves
    <3> QED
      BY <1>6, <1>11, <3>2
  <2>3. CASE g # w
    BY <1>6, <1>8, <1>11, <2>3
  <2> QED
    BY <1>1, <2>1, <2>2, <2>3, PlacesAfterWrite
<1>12. TodoIsSound(s)'
  <2>1. \A i \in DOMAIN q.todo : q.todo[i][2] \in 0..Len(wrote')
    BY <1>3, <1>6
  <2>2. /\ \A i, j \in DOMAIN q.todo : q.todo[i] = q.todo[j] => i = j
        /\ \A i \in DOMAIN q.todo : q.todo[i][1] \in NamesAsked(q.request)
    BY <1>2 DEF QuerySound, TodoIsSound
  <2> QED
    BY <1>2, <1>9, <1>11, <2>1, <2>2 DEF TodoIsSound
<1> QED
  BY <1>2, <1>4, <1>5, <1>12 DEF QuerySound, Room, Need

LEMMA PruneKeepsSound ==
    ASSUME NEW s \in Slots, QuerySound(s), Prune
    PROVE  QuerySound(s)'
<1>1. files' \subseteq files /\ UNCHANGED <<wrote, queries>>
  BY DEF Prune
<1> QED
  BY <1>1 DEF QuerySound, CollectedIsSound, TodoIsSound, Room, Need

\* What a step of the scan leaves of the query: the paths but the first, or none.
LEMMA CollectsIs ==
    ASSUME NEW s \in Slots, DOMAIN queries = Slots, queries[s] \in Queried, Reads(s),
           NEW entries \in Seq(Entry), Collects(s, entries)
    PROVE  LET q == queries[s]
               now == queries'[s]
           IN  /\ now \in Queried
               /\ now.request = q.request /\ now.offset = q.offset /\ now.fresh = q.fresh
               /\ now.matched = q.matched \o entries
               /\ Len(now.matched) = Len(q.matched) + Len(entries)
               /\ now.todo # <<>> => Room(now) > 0
               /\ \/ now.todo = <<>> /\ Room(now) <= 0
                  \/ /\ Len(now.todo) = Len(q.todo) - 1
                     /\ \A i \in 1..Len(now.todo) : now.todo[i] = q.todo[i + 1]
<1> DEFINE q == queries[s]
           now == queries'[s]
           matched == q.matched \o entries
           rest == IF Len(matched) >= Need(q) THEN <<>> ELSE Tail(q.todo)
<1>1. now = [q EXCEPT !.matched = matched, !.todo = rest]
  BY DEF Collects
<1>2. /\ q \in Queried /\ q.todo \in Seq(Paths) /\ q.matched \in Seq(Entry) /\ q.todo # <<>>
      /\ q.request \in Requests /\ q.offset \in Nat
  BY DEF Queried, Reads
<1>3. matched \in Seq(Entry) /\ Len(matched) = Len(q.matched) + Len(entries) /\ Len(matched) \in Nat
  BY <1>2, ConcatProperties, LenProperties
<1>4. /\ Tail(q.todo) \in Seq(Paths) /\ Len(Tail(q.todo)) = Len(q.todo) - 1
      /\ \A i \in 1..Len(Tail(q.todo)) : Tail(q.todo)[i] = q.todo[i + 1]
  BY <1>2, HeadTailProperties
<1>5. Need(q) \in Nat
  BY <1>2, LimitIs DEF Need
<1>6. rest \in Seq(Paths) /\ (rest # <<>> => Len(matched) < Need(q))
      /\ (rest = Tail(q.todo) \/ (rest = <<>> /\ Len(matched) >= Need(q)))
  BY <1>3, <1>4, <1>5, EmptySeq
<1> HIDE DEF rest, matched
<1>7. /\ now.request = q.request /\ now.offset = q.offset /\ now.fresh = q.fresh
      /\ now.matched = matched /\ now.todo = rest
  BY <1>1, <1>2 DEF Queried
<1>8. now \in Queried
  BY <1>1, <1>2, <1>3, <1>6 DEF Queried
<1>9. Room(now) = Need(q) - Len(matched)
  BY <1>7 DEF Room, Need
<1> HIDE DEF now, q
<1>10. now.todo # <<>> => Room(now) > 0
  BY <1>3, <1>5, <1>6, <1>7, <1>9
<1>11. \/ now.todo = <<>> /\ Room(now) <= 0
       \/ /\ Len(now.todo) = Len(q.todo) - 1
          /\ \A i \in 1..Len(now.todo) : now.todo[i] = q.todo[i + 1]
  <2>1. CASE rest = Tail(q.todo)
    <3>1. now.todo = Tail(q.todo)
      BY <1>7, <2>1
    <3> QED
      BY <1>4, <3>1
  <2>2. CASE rest = <<>> /\ Len(matched) >= Need(q)
    <3>1. now.todo = <<>> /\ Room(now) = Need(q) - Len(matched)
      BY <1>7, <1>9, <2>2
    <3> QED
      BY <1>3, <1>5, <2>2, <3>1
  <2> QED
    BY <1>6, <2>1, <2>2
<1>12. Len(now.matched) = Len(q.matched) + Len(entries) /\ now.matched = q.matched \o entries
  BY <1>3, <1>7 DEF matched
<1> QED
  BY <1>7, <1>8, <1>10, <1>11, <1>12 DEF now, q

\* The files still to be read after a step of the scan.
LEMMA TodoShrinks ==
    ASSUME NEW s \in Slots, DOMAIN queries = Slots, QuerySound(s), Reads(s),
           NEW entries \in Seq(Entry), Collects(s, entries)
    PROVE  LET todo == queries[s].todo
               left == queries'[s].todo
           IN  /\ left \in Seq(Paths)
               /\ \A i \in DOMAIN left : i + 1 \in DOMAIN todo /\ left[i] = todo[i + 1]
               /\ ToSet(left) \subseteq ToSet(todo)
               /\ Head(todo) \notin ToSet(left)
               /\ Head(todo) \in ToSet(todo)
<1> DEFINE todo == queries[s].todo
           left == queries'[s].todo
<1>1. left \in Seq(Paths) /\ todo \in Seq(Paths) /\ todo # <<>>
  BY CollectsIs DEF QuerySound, Queried, Reads
<1>2. /\ DOMAIN left = 1..Len(left) /\ DOMAIN todo = 1..Len(todo)
      /\ Len(left) \in Nat /\ Len(todo) \in Nat /\ Len(todo) > 0 /\ Head(todo) = todo[1]
  BY <1>1, LenProperties, EmptySeq
<1>3. \A i \in DOMAIN left : i + 1 \in DOMAIN todo /\ left[i] = todo[i + 1]
  <2>1. CASE left = <<>>
    BY <2>1
  <2>2. CASE left # <<>>
    <3>1. Len(left) = Len(todo) - 1 /\ \A i \in 1..Len(left) : left[i] = todo[i + 1]
      BY <2>2, CollectsIs DEF QuerySound
    <3> QED
      BY <1>2, <3>1
  <2> QED
    BY <2>1, <2>2
<1>4. \A i, j \in DOMAIN todo : todo[i] = todo[j] => i = j
  BY DEF QuerySound, TodoIsSound
<1> HIDE DEF left, todo
<1>5. ToSet(left) \subseteq ToSet(todo) /\ Head(todo) \notin ToSet(left) /\ Head(todo) \in ToSet(todo)
  BY <1>2, <1>3, <1>4 DEF ToSet
<1> QED
  BY <1>1, <1>3, <1>5 DEF left, todo

\* The entry k of what was collected was collected before or by the step.
LEMMA CollectedBy ==
    ASSUME NEW s \in Slots, DOMAIN queries = Slots, queries[s] \in Queried, Reads(s),
           NEW entries \in Seq(Entry), Collects(s, entries), NEW k \in DOMAIN queries'[s].matched
    PROVE  LET matched == queries[s].matched
               now == queries'[s].matched
           IN  \/ k \in DOMAIN matched /\ now[k] = matched[k]
               \/ /\ k - Len(matched) \in 1..Len(entries)
                  /\ now[k] = entries[k - Len(matched)]
<1> DEFINE matched == queries[s].matched
           now == queries'[s].matched
<1>1. now = matched \o entries /\ matched \in Seq(Entry)
  BY CollectsIs DEF Queried
<1> HIDE DEF matched, now
<1>2. /\ now \in Seq(Entry) /\ Len(now) = Len(matched) + Len(entries)
      /\ \A i \in 1..Len(matched) + Len(entries) :
            now[i] = IF i <= Len(matched) THEN matched[i] ELSE entries[i - Len(matched)]
  BY <1>1, ConcatProperties
<1>3. /\ DOMAIN now = 1..Len(now) /\ DOMAIN matched = 1..Len(matched)
      /\ Len(matched) \in Nat /\ Len(entries) \in Nat
  BY <1>1, <1>2, LenProperties
<1>4. k \in DOMAIN now
  BY DEF now
<1>5. CASE k <= Len(matched)
  <2>1. k \in DOMAIN matched /\ now[k] = matched[k]
    BY <1>2, <1>3, <1>4, <1>5
  <2> QED
    BY <2>1 DEF matched, now
<1>6. CASE ~ (k <= Len(matched))
  <2>1. k - Len(matched) \in 1..Len(entries) /\ now[k] = entries[k - Len(matched)]
    BY <1>2, <1>3, <1>4, <1>6
  <2> QED
    BY <2>1 DEF matched, now
<1> QED
  BY <1>5, <1>6

LEMMA ReadKeepsSound ==
    ASSUME FilesInv, NEW s \in Slots, DOMAIN queries = Slots, QuerySound(s), ReadFile(s)
    PROVE  QuerySound(s)'
<1> DEFINE q == queries[s]
           now == queries'[s]
<1>1. PICK f \in Opened(s) : Collects(s, Scan(f, q))
  BY DEF ReadFile
<1>2. /\ f \in files /\ f \in File /\ Path(f) = Head(q.todo) /\ Reads(s) /\ q.todo # <<>>
      /\ q \in Queried /\ Room(q) > 0 /\ UNCHANGED <<files, wrote>>
  BY <1>1 DEF Opened, ReadFile, Reads, QuerySound, FilesInv, TypeOK, Collects, log
<1> DEFINE found == {i \in DOMAIN f.lines :
                        Reached(f, i, q.request) /\ Matches(f.lines[i], q.request)}
           entries == Scan(f, q)
<1>3. entries \in Seq(Entry) /\ \E place \in [1..Len(entries) -> found] :
          /\ \A k \in 1..Len(entries) : entries[k] = f.lines[place[k]]
          /\ \A j, k \in 1..Len(entries) : j < k => place[j] > place[k]
  <2> HIDE DEF q
  <2> QED
    BY <1>2, ScanIs
<1>4. PICK place \in [1..Len(entries) -> found] :
          /\ \A k \in 1..Len(entries) : entries[k] = f.lines[place[k]]
          /\ \A j, k \in 1..Len(entries) : j < k => place[j] > place[k]
  BY <1>3
<1>5. Collects(s, entries)
  BY <1>1
<1> HIDE DEF entries
<1>6. \A k \in 1..Len(entries) : place[k] \in DOMAIN f.lines /\ entries[k] = f.lines[place[k]]
                                   /\ Matches(entries[k], q.request)
  BY <1>4
<1>7. /\ now \in Queried /\ now.request = q.request /\ (now.todo # <<>> => Room(now) > 0)
  BY <1>2, <1>3, <1>5, CollectsIs
<1>8. ASSUME NEW k \in DOMAIN now.matched
      PROVE  \/ k \in DOMAIN q.matched /\ now.matched[k] = q.matched[k]
             \/ k - Len(q.matched) \in 1..Len(entries)
                /\ now.matched[k] = entries[k - Len(q.matched)]
  BY <1>2, <1>3, <1>5, CollectedBy
<1>9. /\ Head(q.todo) \in ToSet(q.todo) /\ Head(q.todo) \notin ToSet(now.todo)
      /\ ToSet(now.todo) \subseteq ToSet(q.todo)
      /\ \A i \in DOMAIN now.todo : i + 1 \in DOMAIN q.todo /\ now.todo[i] = q.todo[i + 1]
      /\ now.todo \in Seq(Paths)
  BY <1>2, <1>3, <1>5, TodoShrinks
<1>10. f.name \in NamesAsked(q.request)
  BY <1>2, <1>9 DEF QuerySound, TodoIsSound, ToSet, Path
<1>11. Len(q.matched) \in Nat /\ DOMAIN q.matched = 1..Len(q.matched)
  BY <1>2, LenProperties DEF Queried
<1>12. \A k \in DOMAIN q.matched, i \in DOMAIN f.lines : f.lines[i].ts # q.matched[k].ts
  BY <1>2, <1>9 DEF QuerySound, TodoIsSound
<1>13. \A i \in DOMAIN f.lines : f.lines[i].name = f.name /\ f.lines[i] \in ToSet(wrote)
  BY <1>2 DEF FilesInv, LinesAreWritten
<1>14. /\ \A k \in DOMAIN q.matched :
              /\ q.matched[k] \in ToSet(wrote) /\ q.matched[k].name \in NamesAsked(q.request)
              /\ Matches(q.matched[k], q.request)
       /\ \A j, k \in DOMAIN q.matched : q.matched[j].ts = q.matched[k].ts => j = k
  BY DEF QuerySound, CollectedIsSound
<1>15. \A i, j \in DOMAIN f.lines : f.lines[i].ts = f.lines[j].ts => i = j
  BY <1>2 DEF FilesInv, TimesApart
<1>16. now.matched \in Seq(Entry) /\ \A k \in DOMAIN now.matched : k \in Nat
  BY <1>7, LenProperties DEF Queried
<1>17. \A j, k \in 1..Len(entries) : entries[j].ts = entries[k].ts => j = k
  <2>1. Len(entries) \in Nat
    BY <1>3, LenProperties
  <2>2. f.lines \in Seq(Entry) /\ DOMAIN f.lines = 1..Len(f.lines) /\ Len(f.lines) \in Nat
    BY <1>2, LenProperties DEF File
  <2>3. ASSUME NEW j \in 1..Len(entries), NEW k \in 1..Len(entries), entries[j].ts = entries[k].ts
        PROVE  j = k
    <3>1. place[j] = place[k] /\ place[j] \in 1..Len(f.lines)
      <4>1. /\ place[j] \in DOMAIN f.lines /\ place[k] \in DOMAIN f.lines
            /\ f.lines[place[j]].ts = f.lines[place[k]].ts
        BY <1>6, <2>3
      <4> QED
        BY <1>15, <2>2, <4>1
    <3>2. ~ (j < k) /\ ~ (k < j)
      BY <1>4, <2>2, <3>1
    <3> QED
      BY <2>1, <3>2
  <2> QED
    BY <2>3
<1> HIDE DEF q, now, found
<1>18. CollectedIsSound(s)'
  <2>1. \A k \in DOMAIN now.matched :
              /\ now.matched[k] \in ToSet(wrote)
              /\ now.matched[k].name \in NamesAsked(q.request)
              /\ Matches(now.matched[k], q.request)
    BY <1>6, <1>8, <1>10, <1>13, <1>14
  <2>2. ASSUME NEW j \in DOMAIN now.matched, NEW k \in DOMAIN now.matched,
               now.matched[j].ts = now.matched[k].ts
        PROVE  j = k
    <3>1. CASE j \in DOMAIN q.matched /\ k \in DOMAIN q.matched
      <4>1. \A i \in DOMAIN q.matched : i - Len(q.matched) \notin 1..Len(entries)
        <5> DEFINE m == Len(q.matched)
                   n == Len(entries)
        <5>1. m \in Nat /\ n \in Nat /\ DOMAIN q.matched = 1..m
          BY <1>3, <1>11, LenProperties
        <5> HIDE DEF m, n
        <5>2. \A i \in 1..m : i - m \notin 1..n
          BY <5>1
        <5> QED
          BY <5>1, <5>2 DEF m, n
      <4>2. now.matched[j] = q.matched[j] /\ now.matched[k] = q.matched[k]
        BY <1>8, <2>2, <3>1, <4>1
      <4> QED
        BY <1>14, <2>2, <3>1, <4>2
    <3>2. CASE j \notin DOMAIN q.matched /\ k \notin DOMAIN q.matched
      <4>1. j - Len(q.matched) = k - Len(q.matched)
        BY <1>8, <1>17, <2>2, <3>2
      <4>2. j \in Int /\ k \in Int
        BY <1>16, <2>2
      <4> DEFINE m == Len(q.matched)
      <4>3. m \in Int /\ j - m = k - m
        BY <1>11, <4>1
      <4> HIDE DEF m
      <4> QED
        BY <4>2, <4>3
    <3>3. CASE ~ (j \in DOMAIN q.matched <=> k \in DOMAIN q.matched)
      BY <1>6, <1>8, <1>12, <2>2, <3>3
    <3> QED
      BY <3>1, <3>2, <3>3
  <2> QED
    BY <1>2, <1>7, <2>1, <2>2 DEF CollectedIsSound, now
<1>19. TodoIsSound(s)'
  <2>1. /\ \A i, j \in DOMAIN q.todo : q.todo[i] = q.todo[j] => i = j
        /\ \A i \in DOMAIN q.todo :
              q.todo[i][1] \in NamesAsked(q.request) /\ q.todo[i][2] \in 0..Len(wrote)
        /\ \A g \in files : ~g.backup => <<g.name, g.mod>> \notin ToSet(q.todo)
        /\ \A g \in files : Path(g) \in ToSet(q.todo) =>
              \A i \in DOMAIN g.lines, k \in DOMAIN q.matched : g.lines[i].ts # q.matched[k].ts
    BY DEF QuerySound, TodoIsSound, q
  <2>2. \A i, j \in DOMAIN now.todo : now.todo[i] = now.todo[j] => i = j
    <3>1. \A i \in DOMAIN now.todo : i \in Nat
      BY <1>9, LenProperties
    <3>2. ASSUME NEW i \in DOMAIN now.todo, NEW j \in DOMAIN now.todo, now.todo[i] = now.todo[j]
          PROVE  i = j
      <4>1. i + 1 = j + 1
        BY <1>9, <2>1, <3>2
      <4> QED
        BY <3>1, <4>1
    <3> QED
      BY <3>2
  <2>3. ASSUME NEW g \in files, Path(g) \in ToSet(now.todo), NEW i \in DOMAIN g.lines,
               NEW k \in DOMAIN now.matched
        PROVE  g.lines[i].ts # now.matched[k].ts
    <3>1. CASE k \in DOMAIN q.matched
      BY <1>8, <1>9, <1>11, <2>1, <2>3, <3>1
    <3>2. CASE k \notin DOMAIN q.matched
      <4>1. f # g
        BY <1>2, <1>9, <2>3
      <4> QED
        BY <1>2, <1>6, <1>8, <3>2, <4>1 DEF FilesInv, TimesApart
    <3> QED
      BY <3>1, <3>2
  <2>4. \A i \in DOMAIN now.todo :
            now.todo[i][1] \in NamesAsked(q.request) /\ now.todo[i][2] \in 0..Len(wrote)
    BY <1>9, <2>1
  <2>5. \A g \in files : ~g.backup => <<g.name, g.mod>> \notin ToSet(now.todo)
    BY <1>9, <2>1
  <2> QED
    BY <1>2, <1>7, <2>2, <2>3, <2>4, <2>5 DEF TodoIsSound, now
<1> QED
  BY <1>7, <1>18, <1>19 DEF QuerySound, now, Room, Need

LEMMA SkipKeepsSound ==
    ASSUME NEW s \in Slots, DOMAIN queries = Slots, QuerySound(s), SkipFile(s)
    PROVE  QuerySound(s)'
<1> DEFINE q == queries[s]
           now == queries'[s]
<1>1. /\ Collects(s, <<>>) /\ Reads(s) /\ q \in Queried /\ <<>> \in Seq(Entry)
      /\ UNCHANGED <<files, wrote>>
  BY EmptySeq DEF SkipFile, QuerySound, Collects, log
<1>2. /\ now \in Queried /\ now.request = q.request /\ (now.todo # <<>> => Room(now) > 0)
      /\ now.matched = q.matched \o <<>>
  BY <1>1, CollectsIs
<1>3. now.matched = q.matched
  <2>1. q.matched \in Seq(Entry)
    BY <1>1 DEF Queried
  <2> QED
    BY <1>2, <2>1, ConcatEmptySeq
<1>4. /\ ToSet(now.todo) \subseteq ToSet(q.todo)
      /\ \A i \in DOMAIN now.todo : i + 1 \in DOMAIN q.todo /\ now.todo[i] = q.todo[i + 1]
      /\ now.todo \in Seq(Paths)
  BY <1>1, TodoShrinks
<1>5. \A i \in DOMAIN now.todo : i \in Nat
  BY <1>4, LenProperties
<1>6. CollectedIsSound(s)'
  BY <1>1, <1>2, <1>3 DEF QuerySound, CollectedIsSound
<1>8. /\ \A i, j \in DOMAIN q.todo : q.todo[i] = q.todo[j] => i = j
      /\ \A i \in DOMAIN q.todo :
            q.todo[i][1] \in NamesAsked(q.request) /\ q.todo[i][2] \in 0..Len(wrote)
      /\ \A g \in files : ~g.backup => <<g.name, g.mod>> \notin ToSet(q.todo)
      /\ \A g \in files : Path(g) \in ToSet(q.todo) =>
            \A i \in DOMAIN g.lines, k \in DOMAIN q.matched : g.lines[i].ts # q.matched[k].ts
  BY DEF QuerySound, TodoIsSound
<1> HIDE DEF q, now
<1>7. TodoIsSound(s)'
  <2>1. ASSUME NEW i \in DOMAIN now.todo, NEW j \in DOMAIN now.todo, now.todo[i] = now.todo[j]
        PROVE  i = j
    <3>1. i + 1 = j + 1
      BY <1>4, <1>8, <2>1
    <3> QED
      BY <1>5, <3>1
  <2>2. \A i \in DOMAIN now.todo :
            now.todo[i][1] \in NamesAsked(q.request) /\ now.todo[i][2] \in 0..Len(wrote)
    BY <1>4, <1>8
  <2>3. /\ \A g \in files : ~g.backup => <<g.name, g.mod>> \notin ToSet(now.todo)
        /\ \A g \in files : Path(g) \in ToSet(now.todo) =>
              \A i \in DOMAIN g.lines, k \in DOMAIN now.matched :
                  g.lines[i].ts # now.matched[k].ts
    BY <1>3, <1>4, <1>8
  <2> QED
    BY <1>1, <1>2, <2>1, <2>2, <2>3 DEF TodoIsSound, now
<1> QED
  BY <1>2, <1>6, <1>7 DEF QuerySound, now, Room, Need

\* The page of an answer: the entries collected, the newest first, from the offset on.
LEMMA AnswerIs ==
    ASSUME NEW s \in Slots, QuerySound(s)
    PROVE  LET q == queries[s]
               n == Len(q.matched)
               L == Limit(q.request)
               items == Answer(q).items
               sorted == NewestFirst(q.matched)
           IN  /\ n \in Nat /\ L \in Nat \ {0} /\ q.offset \in Nat
               /\ items \in Seq(Entry)
               /\ Len(items) = IF n <= q.offset THEN 0
                               ELSE IF n < q.offset + L THEN n - q.offset ELSE L
               /\ \A i \in 1..Len(items) : q.offset + i \in 1..n /\ items[i] = sorted[q.offset + i]
               /\ Answer(q).more <=> n > q.offset + L
<1> DEFINE q == queries[s]
           n == Len(q.matched)
           L == Limit(q.request)
           items == Answer(q).items
           sorted == NewestFirst(q.matched)
           end == IF n < q.offset + L THEN n ELSE q.offset + L
<1>1. q.matched \in Seq(Entry) /\ q.request \in Requests /\ q.offset \in Nat
  BY DEF QuerySound, Queried
<1>2. n \in Nat /\ L \in Nat \ {0}
  BY <1>1, LenProperties, LimitIs
<1>3. sorted \in Seq(Entry) /\ Len(sorted) = n
  <2>1. \A j, k \in DOMAIN q.matched : q.matched[j].ts = q.matched[k].ts => j = k
    BY DEF QuerySound, CollectedIsSound
  <2> HIDE DEF q
  <2> QED
    BY <1>1, <2>1, NewestFirstIs
<1>4. items = SubSeq(sorted, q.offset + 1, end) /\ (Answer(q).more <=> n > q.offset + L)
  BY <1>3 DEF Answer
<1> HIDE DEF sorted, n, L, items
<1>5. end \in Nat /\ end <= n
  BY <1>1, <1>2
<1>6. \A i \in q.offset + 1..end : i \in 1..n /\ sorted[i] \in Entry
  <2>1. \A i \in 1..n : sorted[i] \in Entry
    BY <1>3, LenProperties
  <2> QED
    BY <1>1, <1>2, <1>5, <2>1
<1>7. /\ items \in Seq(Entry)
      /\ Len(items) = IF q.offset + 1 <= end THEN end - (q.offset + 1) + 1 ELSE 0
      /\ \A i \in 1..end - (q.offset + 1) + 1 : items[i] = sorted[(q.offset + 1) + i - 1]
  <2>1. q.offset + 1 \in Int /\ end \in Int
    BY <1>1, <1>5
  <2> HIDE DEF end, q
  <2> QED
    BY <1>4, <1>6, <2>1, SubSeqProperties
<1>8. Len(items) = IF n <= q.offset THEN 0 ELSE IF n < q.offset + L THEN n - q.offset ELSE L
  <2> DEFINE o == q.offset
  <2>1. /\ o \in Nat /\ end = IF n < o + L THEN n ELSE o + L
        /\ Len(items) = IF o + 1 <= end THEN end - (o + 1) + 1 ELSE 0
    BY <1>1, <1>7
  <2>2. Len(items) = IF n <= o THEN 0 ELSE IF n < o + L THEN n - o ELSE L
    <3> HIDE DEF end, o
    <3> QED
      BY <1>2, <2>1
  <2> QED
    BY <2>2
<1>9. \A i \in 1..Len(items) : q.offset + i \in 1..n /\ items[i] = sorted[q.offset + i]
  <2> DEFINE o == q.offset
             m == Len(items)
  <2>1. o \in Nat /\ m = IF o + 1 <= end THEN end - (o + 1) + 1 ELSE 0
    BY <1>1, <1>7
  <2> HIDE DEF q, end, o, m
  <2>2. \A i \in 1..m : /\ i \in 1..end - (o + 1) + 1
                        /\ (o + 1) + i - 1 = o + i
                        /\ o + i \in 1..n
    BY <1>2, <1>5, <2>1
  <2> QED
    BY <1>7, <2>2 DEF o, m
<1> QED
  BY <1>1, <1>2, <1>4, <1>7, <1>8, <1>9 DEF n, L, items, sorted

LEMMA SoundFromQueries ==
    ASSUME QueriesInv
    PROVE  PagesAreSound
<1> SUFFICES ASSUME NEW s \in Slots, Answered(s)
             PROVE  LET r == queries[s].request
                        items == Answer(queries[s]).items
                    IN  /\ \A i \in 1..Len(items) :
                              /\ items[i] \in ToSet(wrote)
                              /\ items[i].name \in NamesAsked(r) /\ Matches(items[i], r)
                        /\ \A i \in 1..Len(items) - 1 : items[i].ts > items[i + 1].ts
                        /\ Len(items) <= Limit(r)
                        /\ Answer(queries[s]).more => Len(items) = Limit(r)
  BY DEF PagesAreSound
<1> DEFINE q == queries[s]
           n == Len(q.matched)
           L == Limit(q.request)
           items == Answer(q).items
           sorted == NewestFirst(q.matched)
<1>1. QuerySound(s)
  BY DEF QueriesInv, Answered
<1>2. /\ n \in Nat /\ L \in Nat \ {0} /\ q.offset \in Nat
      /\ items \in Seq(Entry)
      /\ Len(items) = IF n <= q.offset THEN 0
                      ELSE IF n < q.offset + L THEN n - q.offset ELSE L
      /\ \A i \in 1..Len(items) : q.offset + i \in 1..n /\ items[i] = sorted[q.offset + i]
      /\ Answer(q).more <=> n > q.offset + L
  BY <1>1, AnswerIs
<1>3. /\ \A k \in 1..n : sorted[k] \in ToSet(q.matched)
      /\ \A j, k \in 1..n : j < k => sorted[j].ts > sorted[k].ts
  <2>1. /\ q.matched \in Seq(Entry)
        /\ \A j, k \in DOMAIN q.matched : q.matched[j].ts = q.matched[k].ts => j = k
    BY <1>1 DEF QuerySound, Queried, CollectedIsSound
  <2> HIDE DEF q
  <2> QED
    BY <2>1, NewestFirstIs
<1>4. \A e \in ToSet(q.matched) : e \in ToSet(wrote) /\ e.name \in NamesAsked(q.request)
                                    /\ Matches(e, q.request)
  BY <1>1 DEF QuerySound, CollectedIsSound, ToSet
<1> HIDE DEF n, L, items, sorted
<1>5. \A i \in 1..Len(items) : /\ items[i] \in ToSet(wrote)
                               /\ items[i].name \in NamesAsked(q.request)
                               /\ Matches(items[i], q.request)
  BY <1>2, <1>3, <1>4
<1>6. \A i \in 1..Len(items) - 1 : items[i].ts > items[i + 1].ts
  <2> SUFFICES ASSUME NEW i \in 1..Len(items) - 1
               PROVE  items[i].ts > items[i + 1].ts
    OBVIOUS
  <2>1. Len(items) \in Nat
    BY <1>2, LenProperties
  <2>2. i \in 1..Len(items) /\ i + 1 \in 1..Len(items)
    BY <2>1
  <2>3. q.offset + i < q.offset + (i + 1)
    BY <1>2, <2>1
  <2> HIDE DEF q
  <2> QED
    BY <1>2, <1>3, <2>2, <2>3
<1>7. Len(items) <= L /\ (Answer(q).more => Len(items) = L)
  <2> HIDE DEF q
  <2>1. Len(items) <= L
    BY <1>2
  <2>2. n > q.offset + L => Len(items) = L
    BY <1>2
  <2> QED
    BY <1>2, <2>1, <2>2
<1> QED
  BY <1>5, <1>6, <1>7 DEF items, L

LEMMA QueriesInit == Init => QueriesInv
  BY EmptySeq DEF Init, QueriesInv

\* A step of the log page is of one query.
LEMMA OthersStay ==
    ASSUME QueriesInv, UNCHANGED <<files, wrote>>, NEW s \in Slots,
           DOMAIN queries' = Slots, \A t \in Slots \ {s} : queries'[t] = queries[t],
           queries'[s] # None => QuerySound(s)',
           view' \in Seq(Entry)
    PROVE  QueriesInv'
<1>1. ASSUME NEW t \in Slots, queries'[t] # None
      PROVE  QuerySound(t)'
  <2>1. CASE t = s
    BY <1>1, <2>1
  <2>2. CASE t # s
    <3>1. queries'[t] = queries[t] /\ QuerySound(t)
      BY <1>1, <2>2 DEF QueriesInv
    <3> QED
      BY <3>1, SameIsSound
  <2> QED
    BY <2>1, <2>2
<1> QED
  BY <1>1 DEF QueriesInv

LEMMA QueriesNext ==
    ASSUME FilesInv, QueriesInv, [Next]_vars
    PROVE  QueriesInv'
<1>1. ASSUME UNCHANGED <<files, wrote, view, queries>>
      PROVE  QueriesInv'
  <2>1. \A t \in Slots : queries[t] # None => QuerySound(t)'
    BY <1>1, SameIsSound DEF QueriesInv
  <2> QED
    BY <1>1, <2>1 DEF QueriesInv
<1>2. CASE SetLevel \/ Stamp \/ UNCHANGED vars
  BY <1>1, <1>2 DEF SetLevel, Stamp, vars, log, page
<1>3. CASE \E e \in pending : Write(e)
  <2>1. UNCHANGED <<view, queries>>
    BY <1>3 DEF Write, page
  <2>2. \A t \in Slots : queries[t] # None => QuerySound(t)'
    BY <1>3, WriteKeepsSound DEF QueriesInv
  <2> QED
    BY <2>1, <2>2 DEF QueriesInv
<1>4. CASE Prune
  <2>1. UNCHANGED <<view, queries>>
    BY <1>4 DEF Prune, page
  <2>2. \A t \in Slots : queries[t] # None => QuerySound(t)'
    BY <1>4, PruneKeepsSound DEF QueriesInv
  <2> QED
    BY <2>1, <2>2 DEF QueriesInv
<1>5. ASSUME NEW s \in Slots, NEW r \in Requests, Refresh(s, r) \/ LoadMore(s, r)
      PROVE  QueriesInv'
  <2>1. UNCHANGED <<files, wrote>>
    BY <1>5 DEF Refresh, LoadMore, log
  <2>2. view' \in Seq(Entry) /\ Len(view) \in Nat
    BY <1>5, EmptySeq, LenProperties DEF Refresh, LoadMore, page, QueriesInv
  <2>3. \/ queries' = [queries EXCEPT ![s] = Query(r, 0, TRUE)]
        \/ queries' = [queries EXCEPT ![s] = Query(r, Len(view), FALSE)]
    BY <1>5 DEF Refresh, LoadMore
  <2>4. PICK offset \in Nat, fresh \in BOOLEAN :
            queries' = [queries EXCEPT ![s] = Query(r, offset, fresh)]
    BY <2>2, <2>3
  <2>5. /\ queries'[s] = Query(r, offset, fresh) /\ DOMAIN queries' = Slots
        /\ \A t \in Slots \ {s} : queries'[t] = queries[t]
    BY <2>4 DEF QueriesInv
  <2>6. QuerySound(s)'
    BY <2>1, <2>5, StartIsSound
  <2> QED
    BY <2>1, <2>2, <2>5, <2>6, OthersStay
<1>6. ASSUME NEW s \in Slots, ReadFile(s) \/ SkipFile(s)
      PROVE  QueriesInv'
  <2>1. Reads(s) /\ \E entries : Collects(s, entries)
    BY <1>6 DEF ReadFile, SkipFile
  <2>2. /\ UNCHANGED <<files, wrote, view>> /\ DOMAIN queries' = Slots
        /\ \A t \in Slots \ {s} : queries'[t] = queries[t]
    BY <2>1 DEF Collects, log, page, QueriesInv
  <2>3. QuerySound(s)
    BY <2>1 DEF Reads, QueriesInv
  <2>4. QuerySound(s)'
    BY <1>6, <2>3, ReadKeepsSound, SkipKeepsSound DEF QueriesInv
  <2> QED
    BY <2>2, <2>4, OthersStay DEF QueriesInv
<1>7. ASSUME NEW s \in Slots, ShowAnswer(s) \/ QueryFails(s)
      PROVE  QueriesInv'
  <2>1. /\ UNCHANGED <<files, wrote>> /\ DOMAIN queries' = Slots /\ queries'[s] = None
        /\ \A t \in Slots \ {s} : queries'[t] = queries[t]
    BY <1>7 DEF ShowAnswer, QueryFails, log, QueriesInv
  <2>2. view' \in Seq(Entry)
    <3>1. CASE QueryFails(s)
      BY <3>1 DEF QueryFails, page, QueriesInv
    <3>2. CASE ShowAnswer(s)
      <4>1. QuerySound(s)
        BY <3>2 DEF ShowAnswer, Answered, QueriesInv
      <4>2. Answer(queries[s]).items \in Seq(Entry) /\ view \in Seq(Entry)
        BY <4>1, AnswerIs DEF QueriesInv
      <4>3. view' = Answer(queries[s]).items \/ view' = view \o Answer(queries[s]).items
        BY <3>2 DEF ShowAnswer
      <4> QED
        BY <4>2, <4>3, ConcatProperties
    <3> QED
      BY <1>7, <3>1, <3>2
  <2> QED
    BY <2>1, <2>2, OthersStay
<1> QED
  BY <1>2, <1>3, <1>4, <1>5, <1>6, <1>7 DEF Next

\* Whatever is written, rotated or removed while an answer is collected, it holds only what was
\* written and asked for, each entry once, the newest first, no more than a page, and a full
\* page if there is more.
THEOREM PagesAlwaysSound == Spec => []PagesAreSound
<1>1. Init => FilesInv /\ QueriesInv
  BY FilesInit, QueriesInit
<1>2. FilesInv /\ QueriesInv /\ [Next]_vars => FilesInv' /\ QueriesInv'
  BY FilesNext, QueriesNext
<1>3. QueriesInv => PagesAreSound
  BY SoundFromQueries
<1> QED
  BY <1>1, <1>2, <1>3, PTL DEF Spec

-----------------------------------------------------------------------------
(* The invariant of the log page. *)

\* As long as no entry overtakes another, what is newer than a line on disk is on disk too.
Complete ==
    ~Overtaken =>
        \A f \in files : \A i \in DOMAIN f.lines : \A v \in ToSet(wrote) :
            v.name = f.name /\ v.ts > f.lines[i].ts =>
                \E g \in files : g.name = f.name /\ v \in ToSet(g.lines)

\* No line of this file or of a newer one of its name is too long.
Clean(f) == \A g \in files : g.name = f.name /\ g.mod >= f.mod => Readable(g)

\* The entries among the first b written that a request asks for, from a time on.
Known(b) == {wrote[i] : i \in 1..b}
Above(r, t, b) ==
    {v \in Known(b) : /\ v.name \in NamesAsked(r) /\ v.ts >= t
                      /\ r.end # None => v.ts <= r.end
                      /\ r.trace # None => v.trace = r.trace}

Shown(e) == e \in ToSet(view) \/ e \in Later \/ (more /\ e.ts < Oldest(view))

\* Nothing is missing down to the end of the list, and at least as many entries are as new as
\* its end as the list has.
PageInv ==
    asked # None =>
        /\ asked \in Requests /\ asked.levels = applied.levels
        /\ more => /\ view # <<>>
                   /\ asked.begin # None => Oldest(view) >= asked.begin
        /\ view # <<>> => Cardinality(Above(asked, Oldest(view), Len(wrote))) >= Len(view)
        /\ OfOneFile(asked) /\ ~Overtaken =>
              \A f \in files : f.name \in NamesAsked(asked) /\ Clean(f) =>
                  \A i \in DOMAIN f.lines : Matches(f.lines[i], asked) => Shown(f.lines[i])

\* The query goes on from the list, or begins a new one.
Continues(s) ==
    LET q == queries[s]
    IN  /\ q.request.levels = applied.levels
        /\ IF q.fresh THEN asked = None /\ view = <<>> /\ q.offset = 0
           ELSE /\ asked # None /\ more /\ q.offset = Len(view)
                /\ q.request.end = asked.end /\ q.request.trace = asked.trace

\* Among the files of a name the one that is written to comes first, then the backups, the
\* newest first.
InTurn(s) ==
    LET todo == queries[s].todo
    IN  \A i, j \in DOMAIN todo : i < j /\ todo[i][1] = todo[j][1] =>
            todo[j][2] # 0 /\ (todo[i][2] = 0 \/ todo[i][2] > todo[j][2])

AllNewer(s, e) == \A k \in DOMAIN queries[s].matched : queries[s].matched[k].ts > e.ts

\* Of the entries written before the query was made, those of the files that were read are
\* collected, or there was no room for them and what was collected is newer, and it is newer
\* than those of the files still to be read.
Covers(s, b) ==
    LET q == queries[s]
    IN  \A f \in files : f.name \in NamesAsked(q.request) /\ Clean(f) =>
            \A i \in DOMAIN f.lines :
                f.lines[i] \in Known(b) /\ Matches(f.lines[i], q.request) =>
                    IF Path(f) \in ToSet(q.todo) THEN AllNewer(s, f.lines[i])
                    ELSE \/ f.lines[i] \in ToSet(q.matched)
                         \/ Room(q) <= 0 /\ AllNewer(s, f.lines[i])

QueryInv(s) ==
    /\ Continues(s) /\ InTurn(s)
    /\ \E b \in from..Len(wrote) :
          /\ view # <<>> =>
                Cardinality(Above(queries[s].request, Oldest(view), b)) >= Len(view)
          /\ OfOneFile(queries[s].request) /\ ~Overtaken => Covers(s, b)

\* As long as nothing gets in the way there is one query at a time.
ListInv ==
    /\ from \in 0..Len(wrote)
    /\ more => asked # None
    /\ steady =>
          /\ \A s, t \in Slots : queries[s] # None /\ queries[t] # None => s = t
          /\ PageInv
          /\ \A s \in Slots : queries[s] # None => QueryInv(s)

-----------------------------------------------------------------------------
(* The steps of the files and the list. *)

LEMMA LineIsEntry ==
    ASSUME FilesInv, NEW f \in files, NEW i \in DOMAIN f.lines
    PROVE  f.lines[i] \in Entry /\ f.lines[i].ts \in Int
<1>1. f.lines \in Seq(Entry)
  BY DEF FilesInv, TypeOK, File
<1>2. f.lines \in [1..Len(f.lines) -> Entry] /\ DOMAIN f.lines = 1..Len(f.lines)
  BY <1>1, LenProperties
<1>3. f.lines[i] \in Entry
  BY <1>2
<1> QED
  BY <1>3 DEF Entry

\* A line stays on disk when another is written.
LEMMA StaysOnDisk ==
    ASSUME FilesInv, NEW e \in pending, NEW w, Leaves(e, w), NEW g \in files, NEW v \in ToSet(g.lines)
    PROVE  \E h \in files' : h.name = g.name /\ v \in ToSet(h.lines)
<1>1. g.lines \in Seq(Entry) /\ e \in Entry
  BY DEF FilesInv, TypeOK, File
<1>2. CASE g.name = e.name /\ w.lines = Append(g.lines, e)
  <2>1. /\ Len(w.lines) = Len(g.lines) + 1 /\ w.lines \in Seq(Entry)
        /\ \A k \in 1..Len(g.lines) : w.lines[k] = g.lines[k]
    BY <1>1, <1>2, AppendProperties
  <2>2. Len(g.lines) \in Nat /\ DOMAIN g.lines = 1..Len(g.lines) /\ DOMAIN w.lines = 1..Len(w.lines)
    BY <1>1, <2>1, LenProperties
  <2>3. v \in ToSet(w.lines)
    BY <2>1, <2>2 DEF ToSet
  <2> QED
    BY <1>2, <2>3 DEF Leaves
<1>3. CASE \E h \in files' : h # w /\ Kept(h, g)
  BY <1>3 DEF Kept
<1> QED
  BY <1>2, <1>3 DEF Leaves

\* What is written is on disk.
LEMMA EntryOnDisk ==
    ASSUME FilesInv, NEW e \in pending, NEW w, Leaves(e, w)
    PROVE  e \in ToSet(w.lines) /\ w \in files' /\ w.name = e.name
<1>1. CASE w.lines = <<e>>
  <2>1. 1 \in DOMAIN w.lines /\ w.lines[1] = e
    BY <1>1
  <2> QED
    BY <2>1 DEF ToSet, Leaves
<1>2. CASE w.lines # <<e>>
  <2>1. PICK f \in Current(e.name) : w.lines = Append(f.lines, e)
    BY <1>2 DEF Leaves
  <2>2. f.lines \in Seq(Entry) /\ e \in Entry
    BY DEF Current, FilesInv, TypeOK, File
  <2>3. /\ Len(w.lines) = Len(f.lines) + 1 /\ w.lines[Len(f.lines) + 1] = e
        /\ w.lines \in Seq(Entry)
    BY <2>1, <2>2, AppendProperties
  <2>4. Len(f.lines) \in Nat /\ DOMAIN w.lines = 1..Len(w.lines)
    BY <2>2, <2>3, LenProperties
  <2>5. e \in ToSet(w.lines)
    BY <2>3, <2>4 DEF ToSet
  <2> QED
    BY <2>5 DEF Leaves
<1> QED
  BY <1>1, <1>2

LEMMA WriteKeepsComplete ==
    ASSUME FilesInv, Complete, NEW e \in pending, Write(e)
    PROVE  Complete'
<1> SUFFICES ASSUME ~Overtaken', NEW f \in files', NEW i \in DOMAIN f.lines,
                    NEW v \in ToSet(wrote'), v.name = f.name, v.ts > f.lines[i].ts
             PROVE  \E g \in files' : g.name = f.name /\ v \in ToSet(g.lines)
  BY DEF Complete
<1>1. PICK w : Leaves(e, w)
  BY EntryIsWritten
<1>2. ~Overtaken /\ \A k \in DOMAIN wrote : wrote[k].name = e.name => ~ (wrote[k].ts > e.ts)
  BY NotOvertaken
<1>3. v \in ToSet(wrote) \/ v = e
  <2>1. wrote \in Seq(Entry) /\ e \in Entry /\ wrote' = Append(wrote, e)
    BY DEF FilesInv, TypeOK, Write
  <2>2. /\ Len(wrote) \in Nat /\ DOMAIN wrote = 1..Len(wrote) /\ DOMAIN wrote' = 1..Len(wrote) + 1
        /\ wrote'[Len(wrote) + 1] = e
        /\ \A k \in DOMAIN wrote : wrote'[k] = wrote[k]
    BY <2>1, AppendProperties, LenProperties
  <2> QED
    BY <2>2 DEF ToSet
<1>4. CASE v = e
  BY <1>1, <1>4, EntryOnDisk
<1>5. CASE v \in ToSet(wrote)
  <2>1. f.lines[i] # e \/ f.name # e.name
    BY <1>2, <1>5 DEF ToSet
  <2>2. PICK h \in files : CameFrom(f, i, h, w)
    BY <1>1, <2>1, PlacesAfterWrite DEF Leaves
  <2>3. PICK g \in files : g.name = h.name /\ v \in ToSet(g.lines)
    BY <1>2, <1>5, <2>2 DEF CameFrom, Complete
  <2> QED
    BY <1>1, <2>2, <2>3, StaysOnDisk DEF CameFrom
<1> QED
  BY <1>3, <1>4, <1>5

\* The backup removed is older than all other files of its name.
LEMMA PrunedIsOldest ==
    ASSUME FilesInv, Prune
    PROVE  \E k \in files : /\ files' = files \ {k}
                            /\ \A f \in files' : f.name = k.name => k.mod < f.mod
<1>1. PICK k \in files : /\ k.backup
                         /\ \A g \in files : g.name = k.name /\ g.backup => k.mod <= g.mod
                         /\ files' = files \ {k}
  BY DEF Prune
<1>2. ASSUME NEW f \in files', f.name = k.name
      PROVE  k.mod < f.mod
  <2>1. f \in files /\ f # k /\ f.mod \in Int /\ k.mod \in Int
    BY <1>1 DEF FilesInv, FilesApart
  <2>2. f.backup => k.mod <= f.mod /\ k.mod # f.mod
    BY <1>1, <1>2, <2>1 DEF FilesInv, FilesApart
  <2>3. ~f.backup => k.mod < f.mod
    BY <1>2, <2>1 DEF FilesInv, CurrentIsNewest
  <2> QED
    BY <2>1, <2>2, <2>3
<1> QED
  BY <1>1, <1>2

LEMMA PruneKeepsComplete ==
    ASSUME FilesInv, Complete, Prune
    PROVE  Complete'
<1> SUFFICES ASSUME ~Overtaken', NEW f \in files', NEW i \in DOMAIN f.lines,
                    NEW v \in ToSet(wrote'), v.name = f.name, v.ts > f.lines[i].ts
             PROVE  \E g \in files' : g.name = f.name /\ v \in ToSet(g.lines)
  BY DEF Complete
<1>1. PICK k \in files : /\ files' = files \ {k}
                         /\ \A h \in files' : h.name = k.name => k.mod < h.mod
  BY PrunedIsOldest
<1>2. wrote' = wrote /\ (Overtaken <=> Overtaken')
  BY DEF Prune, Overtaken
<1>3. PICK g \in files : g.name = f.name /\ v \in ToSet(g.lines)
  BY <1>1, <1>2 DEF Complete
<1>4. ASSUME g = k
      PROVE  FALSE
  <2>1. PICK j \in DOMAIN g.lines : v = g.lines[j]
    BY <1>3 DEF ToSet
  <2>2. v.ts < f.lines[i].ts
    BY <1>1, <1>2, <1>3, <1>4, <2>1 DEF FilesInv, InTimeOrder
  <2>3. v.ts \in Int /\ f.lines[i].ts \in Int
    <3>1. \A h \in files : h.lines \in Seq(Entry)
      BY DEF FilesInv, TypeOK, File
    <3>2. g.lines[j] \in Entry /\ f.lines[i] \in Entry
      BY <1>1, <2>1, <3>1, LenProperties
    <3> QED
      BY <2>1, <3>2 DEF Entry
  <2> QED
    BY <2>2, <2>3
<1> QED
  BY <1>1, <1>3, <1>4

LEMMA CompleteNext ==
    ASSUME FilesInv, Complete, [Next]_vars
    PROVE  Complete'
<1>1. ASSUME UNCHANGED <<files, wrote>>
      PROVE  Complete'
  BY <1>1 DEF Complete, Overtaken
<1>2. CASE SetLevel \/ Stamp \/ UNCHANGED vars
  BY <1>1, <1>2 DEF SetLevel, Stamp, vars, log
<1>3. ASSUME NEW s \in Slots,
             \/ \E r \in Requests : Refresh(s, r) \/ LoadMore(s, r)
             \/ ReadFile(s) \/ SkipFile(s) \/ ShowAnswer(s) \/ QueryFails(s)
      PROVE  Complete'
  <2>1. UNCHANGED log
    BY <1>3 DEF Refresh, LoadMore, ReadFile, SkipFile, Collects, ShowAnswer, QueryFails
  <2> QED
    BY <1>1, <2>1 DEF log
<1> QED
  BY <1>2, <1>3, WriteKeepsComplete, PruneKeepsComplete DEF Next

\* A file that is clean after a write held its older lines in a clean file before.
LEMMA CleanBeforeWrite ==
    ASSUME FilesInv, NEW e \in pending, NEW w, Leaves(e, w), NEW f \in files', Clean(f)',
           NEW i \in DOMAIN f.lines, NEW g \in files, CameFrom(f, i, g, w)
    PROVE  Clean(g)
<1>1. /\ \A h \in files : h.mod \in 1..Len(wrote) /\ h.mod \in Int
      /\ Len(wrote) \in Nat /\ w \in files' /\ w.name = e.name /\ w.mod = Len(wrote) + 1
  BY LenProperties DEF FilesInv, TypeOK, FilesApart, Leaves
<1>2. \A h \in files : h.lines \in Seq(Entry) /\ DOMAIN h.lines = 1..Len(h.lines) /\ Len(h.lines) \in Nat
  BY LenProperties DEF FilesInv, TypeOK, File
<1>3. \A h \in files' : h.name = f.name /\ h.mod >= f.mod => Readable(h)
  BY DEF Clean, Readable
<1>4. f.name = g.name /\ IF f = w THEN ~g.backup ELSE g.mod = f.mod
  BY DEF CameFrom
<1> SUFFICES ASSUME NEW h \in files, h.name = g.name, h.mod >= g.mod
             PROVE  Readable(h)
  BY DEF Clean
<1>5. CASE h.name = e.name /\ w.lines = Append(h.lines, e)
  <2>1. Readable(w)
    <3>1. f.mod <= w.mod
      <4>1. f = w \/ f.mod \in 1..Len(wrote)
        BY <1>1, <1>4
      <4> QED
        BY <1>1, <4>1
    <3> QED
      BY <1>1, <1>3, <1>4, <1>5, <3>1
  <2>2. /\ Len(w.lines) = Len(h.lines) + 1
        /\ \A j \in 1..Len(h.lines) : w.lines[j] = h.lines[j]
    <3>1. e \in Entry
      BY DEF FilesInv, TypeOK
    <3> QED
      BY <1>2, <1>5, <3>1, AppendProperties
  <2>3. \A j \in 1..Len(h.lines) : j \in 1..Len(w.lines)
    BY <1>2, <2>2
  <2> QED
    BY <2>1, <2>2, <2>3 DEF Readable
<1>6. CASE \E k \in files' : k # w /\ Kept(k, h)
  <2>1. PICK k \in files' : k # w /\ Kept(k, h)
    BY <1>6
  <2>2. CASE f # w
    BY <1>3, <1>4, <2>1, <2>2 DEF Kept, Readable
  <2>3. CASE f = w
    <3>1. g # h
      BY <2>1, <2>3 DEF CameFrom, Kept
    <3>2. h.mod < g.mod
      BY <1>4, <2>3, <3>1 DEF FilesInv, CurrentIsNewest
    <3> QED
      BY <1>1, <3>2
  <2> QED
    BY <2>2, <2>3
<1> QED
  BY <1>5, <1>6 DEF Leaves

LEMMA CleanBeforePrune ==
    ASSUME FilesInv, Prune, NEW f \in files', Clean(f)'
    PROVE  f \in files /\ Clean(f)
<1>1. PICK k \in files : /\ files' = files \ {k}
                         /\ \A h \in files' : h.name = k.name => k.mod < h.mod
  BY PrunedIsOldest
<1>2. \A g \in files : g.mod \in Int
  BY DEF FilesInv, FilesApart
<1>3. ASSUME NEW g \in files, g.name = f.name, g.mod >= f.mod
      PROVE  Readable(g)
  <2>1. g # k
    BY <1>1, <1>2, <1>3
  <2> QED
    BY <1>1, <1>3, <2>1 DEF Clean, Readable
<1> QED
  BY <1>1, <1>3 DEF Clean

LEMMA OneNameIsAsked ==
    ASSUME NEW r, OfOneFile(r)
    PROVE  \E l : NamesAsked(r) = {l}
<1>1. PICK l \in LogLevel \ {"error"} : r.levels = {l}
  BY DEF OfOneFile
<1>2. LevelFiles(l) = {l} /\ {l} # {}
  BY DEF LevelFiles
<1>3. NamesAsked(r) = LevelFiles(l)
  BY <1>1, <1>2 DEF NamesAsked
<1> QED
  BY <1>2, <1>3

LEMMA MembersAreFinite ==
    ASSUME NEW S, NEW list \in Seq(S)
    PROVE  IsFiniteSet(ToSet(list))
<1>1. DOMAIN list = 1..Len(list) /\ Len(list) \in Nat
  BY LenProperties
<1>2. IsFiniteSet(DOMAIN list)
  BY <1>1, FS_Interval
<1>3. list \in Surjection(DOMAIN list, ToSet(list))
  <2>1. list \in [DOMAIN list -> S]
    BY <1>1, LenProperties
  <2> QED
    BY <2>1 DEF Surjection, ToSet
<1> QED
  BY <1>2, <1>3, FS_Surjection

\* What was known stays so when another entry is written.
LEMMA KnownStays ==
    ASSUME FilesInv, NEW e \in pending, Write(e)
    PROVE  /\ Len(wrote) \in Nat /\ Len(wrote') = Len(wrote) + 1
           /\ ToSet(wrote) \subseteq ToSet(wrote')
           /\ Known(Len(wrote)) = ToSet(wrote) /\ Known(Len(wrote))' = ToSet(wrote')
           /\ IsFiniteSet(ToSet(wrote'))
           /\ \A b \in 0..Len(wrote) : Known(b)' = Known(b)
           /\ \A b \in 0..Len(wrote) : e \notin Known(b)
           /\ from \in Nat => Later \subseteq Later'
           /\ Overtaken => Overtaken'
<1>1. wrote \in Seq(Entry) /\ e \in Entry /\ wrote' = Append(wrote, e) /\ from' = from
  BY DEF FilesInv, TypeOK, Write
<1>2. /\ Len(wrote) \in Nat /\ Len(wrote') = Len(wrote) + 1 /\ wrote' \in Seq(Entry)
      /\ DOMAIN wrote = 1..Len(wrote) /\ DOMAIN wrote' = 1..Len(wrote')
      /\ \A i \in DOMAIN wrote : wrote'[i] = wrote[i]
  BY <1>1, AppendProperties, LenProperties
<1>3. \A b \in 0..Len(wrote) : \A i \in 1..b : i \in DOMAIN wrote
  BY <1>2
<1>4. \A b \in 0..Len(wrote) : Known(b)' = Known(b)
  BY <1>2, <1>3 DEF Known
<1>5. \A b \in 0..Len(wrote) : e \notin Known(b)
  BY <1>3 DEF Known, FilesInv, TimesApart
<1>6. ToSet(wrote) \subseteq ToSet(wrote')
  BY <1>2 DEF ToSet
<1>7. from \in Nat => Later \subseteq Later'
  <2> SUFFICES ASSUME from \in Nat, NEW i \in from + 1..Len(wrote)
               PROVE  wrote[i] \in Later'
    BY DEF Later
  <2>1. i \in DOMAIN wrote /\ i \in from' + 1..Len(wrote') /\ wrote'[i] = wrote[i]
    BY <1>1, <1>2
  <2> QED
    BY <2>1 DEF Later
<1>8. Overtaken => Overtaken'
  BY NotOvertaken
<1>9. Known(Len(wrote)) = ToSet(wrote) /\ Known(Len(wrote))' = ToSet(wrote')
  BY <1>2 DEF Known, ToSet
<1>10. IsFiniteSet(ToSet(wrote'))
  BY <1>2, MembersAreFinite
<1> QED
  BY <1>2, <1>4, <1>5, <1>6, <1>7, <1>8, <1>9, <1>10

\* A longer history holds at least as many entries from a time on.
LEMMA AboveGrows ==
    ASSUME NEW S, NEW T, IsFiniteSet(T), S \subseteq T, NEW n \in Nat, Cardinality(S) >= n
    PROVE  Cardinality(T) >= n
<1>1. S \in SUBSET T
  OBVIOUS
<1>2. IsFiniteSet(S) /\ Cardinality(S) <= Cardinality(T)
  BY <1>1, FS_Subset
<1>3. Cardinality(S) \in Nat /\ Cardinality(T) \in Nat
  BY <1>2, FS_CardinalityType
<1> QED
  BY <1>2, <1>3

LEMMA WriteKeepsPage ==
    ASSUME FilesInv, FilesInv', from \in 0..Len(wrote), view \in Seq(Entry), PageInv,
           NEW e \in pending, Write(e)
    PROVE  PageInv'
<1>1. asked' = asked /\ applied' = applied /\ view' = view /\ more' = more /\ from' = from
  BY DEF Write, page
<1> SUFFICES ASSUME asked # None
             PROVE  PageInv'
  BY <1>1 DEF PageInv
<1>2. PICK r \in Requests : r = asked
  BY DEF PageInv
<1>3. PICK w : Leaves(e, w)
  BY EntryIsWritten
<1>4. /\ Len(wrote) \in Nat /\ Len(wrote') = Len(wrote) + 1
      /\ Known(Len(wrote)) = ToSet(wrote) /\ Known(Len(wrote))' = ToSet(wrote')
      /\ IsFiniteSet(ToSet(wrote'))
      /\ ToSet(wrote) \subseteq ToSet(wrote')
      /\ Later \subseteq Later' /\ (Overtaken => Overtaken')
  <2>1. from \in Nat
    BY LenProperties DEF FilesInv, TypeOK
  <2> QED
    BY <2>1, KnownStays
<1>5. ASSUME view # <<>>
      PROVE  Cardinality(Above(asked, Oldest(view), Len(wrote))') >= Len(view)
  <2> DEFINE t == Oldest(view)
             S == Above(r, t, Len(wrote))
             T == Above(asked, Oldest(view), Len(wrote))'
  <2>1. Cardinality(S) >= Len(view) /\ Len(view) \in Nat
    BY <1>2, <1>5, LenProperties DEF PageInv
  <2>2. S \subseteq T
    BY <1>1, <1>2, <1>4 DEF Above, Oldest, NamesAsked
  <2>3. IsFiniteSet(T)
    <3>1. T \in SUBSET ToSet(wrote')
      BY <1>4 DEF Above
    <3> QED
      BY <1>4, <3>1, FS_Subset
  <2> HIDE DEF S, T
  <2>4. Cardinality(T) >= Len(view)
    BY <2>1, <2>2, <2>3, AboveGrows
  <2> QED
    BY <2>4 DEF T
<1>6. ASSUME OfOneFile(r), ~Overtaken', NEW f \in files', f.name \in NamesAsked(r), Clean(f)',
             NEW i \in DOMAIN f.lines, Matches(f.lines[i], r)
      PROVE  Shown(f.lines[i])'
  <2>1. CASE f.lines[i] \in Later'
    BY <2>1 DEF Shown
  <2>2. CASE f.lines[i] \notin Later'
    <3>1. CASE \E g \in files : CameFrom(f, i, g, w)
      <4>1. PICK g \in files : CameFrom(f, i, g, w)
        BY <3>1
      <4>2. Clean(g) /\ g.name = f.name /\ i \in DOMAIN g.lines /\ g.lines[i] = f.lines[i]
        BY <1>3, <1>6, <4>1, CleanBeforeWrite DEF CameFrom
      <4>3. Shown(f.lines[i])
        BY <1>2, <1>4, <1>6, <4>2 DEF PageInv
      <4> QED
        BY <1>1, <1>4, <2>2, <4>3 DEF Shown, Oldest
    <3>2. CASE f.lines[i] = e
      <4>1. e \in Later'
        <5>1. wrote \in Seq(Entry) /\ e \in Entry /\ wrote' = Append(wrote, e)
          BY DEF FilesInv, TypeOK, Write
        <5>2. wrote'[Len(wrote')] = e
          BY <1>4, <5>1, AppendProperties
        <5>3. Len(wrote') \in from' + 1..Len(wrote')
          BY <1>1, <1>4
        <5> QED
          BY <5>2, <5>3 DEF Later
      <4> QED
        BY <2>2, <3>2, <4>1
    <3> QED
      BY <1>3, <3>1, <3>2, PlacesAfterWrite
  <2> QED
    BY <2>1, <2>2
<1>7. asked'.levels = applied'.levels /\ asked' \in Requests
  BY <1>1 DEF PageInv
<1>8. more' => view' # <<>> /\ (asked'.begin # None => Oldest(view)' >= asked'.begin)
  BY <1>1 DEF PageInv, Oldest
<1>9. OfOneFile(asked)' /\ ~Overtaken' =>
         \A f \in files' : f.name \in NamesAsked(asked)' /\ Clean(f)' =>
             \A i \in DOMAIN f.lines : Matches(f.lines[i], asked)' => Shown(f.lines[i])'
  BY <1>1, <1>2, <1>6 DEF OfOneFile, NamesAsked, Matches
<1> QED
  BY <1>1, <1>5, <1>7, <1>8, <1>9 DEF PageInv

LEMMA PruneKeepsPage ==
    ASSUME FilesInv, PageInv, Prune
    PROVE  PageInv'
<1>1. UNCHANGED <<page, wrote, from>>
  BY DEF Prune
<1>2. \A f \in files' : Clean(f)' => f \in files /\ Clean(f)
  BY CleanBeforePrune
<1>3. \A e : Shown(e)' <=> Shown(e)
  BY <1>1 DEF Shown, page, Later, Oldest
<1>4. \A r, t, b : Above(r, t, b)' = Above(r, t, b)
  BY <1>1 DEF Above, Known, NamesAsked
<1>5. asked' = asked /\ applied' = applied /\ view' = view /\ more' = more
  BY <1>1 DEF page
<1> SUFFICES ASSUME asked # None
             PROVE  PageInv'
  BY <1>5 DEF PageInv
<1>6. /\ asked' \in Requests /\ asked'.levels = applied'.levels
      /\ more' => view' # <<>> /\ (asked'.begin # None => Oldest(view)' >= asked'.begin)
      /\ view' # <<>> => Cardinality(Above(asked, Oldest(view), Len(wrote))') >= Len(view')
  BY <1>1, <1>5 DEF PageInv, Oldest, Above, Known, NamesAsked
<1>7. OfOneFile(asked)' /\ ~Overtaken' =>
         \A f \in files' : f.name \in NamesAsked(asked)' /\ Clean(f)' =>
             \A i \in DOMAIN f.lines : Matches(f.lines[i], asked)' => Shown(f.lines[i])'
  BY <1>1, <1>2, <1>3, <1>5 DEF PageInv, OfOneFile, NamesAsked, Matches, Overtaken
<1> QED
  BY <1>6, <1>7 DEF PageInv

\* Nothing but the newest file is new when none is put aside.
LEMMA ExtendKeepsPaths ==
    ASSUME FilesInv, NEW e \in pending, Extend(e), NEW w, Leaves(e, w),
           NEW f \in files', NEW i \in DOMAIN f.lines, NEW g \in files, CameFrom(f, i, g, w)
    PROVE  Path(f) = Path(g)
<1>1. CASE f = w
  BY <1>1 DEF CameFrom, Leaves, Path
<1>2. CASE f # w
  <2>1. \A h \in files' : h \notin files => h.mod = Len(wrote) + 1
    BY DEF Extend, FileWith
  <2>2. f \in files
    BY <1>2, <2>1 DEF Leaves
  <2>3. f = g
    BY <1>2, <2>2 DEF CameFrom, FilesInv, FilesApart
  <2> QED
    BY <2>3
<1> QED
  BY <1>1, <1>2

LEMMA WriteKeepsQuery ==
    ASSUME FilesInv, from \in 0..Len(wrote), NEW s \in Slots, QueryInv(s),
           NEW e \in pending, Write(e), Extend(e)
    PROVE  QueryInv(s)'
<1>1. UNCHANGED <<page, from, queries>>
  BY DEF Write
<1>2. PICK w : Leaves(e, w)
  BY EntryIsWritten
<1>3. /\ Len(wrote) \in Nat /\ Len(wrote') = Len(wrote) + 1
      /\ \A b \in 0..Len(wrote) : Known(b)' = Known(b) /\ e \notin Known(b)
      /\ Overtaken => Overtaken'
  BY KnownStays
<1>4. Continues(s)' /\ InTurn(s)'
  BY <1>1 DEF QueryInv, Continues, InTurn, page
<1>5. PICK b \in from..Len(wrote) :
          /\ view # <<>> =>
                Cardinality(Above(queries[s].request, Oldest(view), b)) >= Len(view)
          /\ OfOneFile(queries[s].request) /\ ~Overtaken => Covers(s, b)
  BY DEF QueryInv
<1>6. b \in from'..Len(wrote') /\ b \in 0..Len(wrote)
  BY <1>1, <1>3, <1>5
<1>7. view' # <<>> =>
         Cardinality(Above(queries[s].request, Oldest(view), b)') >= Len(view')
  <2>1. Above(queries[s].request, Oldest(view), b)' = Above(queries[s].request, Oldest(view), b)
    BY <1>1, <1>3, <1>6 DEF Above, Oldest, NamesAsked, page
  <2> QED
    BY <1>1, <1>5, <2>1 DEF page
<1>8. ASSUME OfOneFile(queries[s].request)', ~Overtaken'
      PROVE  Covers(s, b)'
  <2> DEFINE q == queries[s]
  <2>1. Covers(s, b) /\ queries' = queries
    BY <1>1, <1>3, <1>5, <1>8 DEF OfOneFile
  <2>2. ASSUME NEW f \in files', f.name \in NamesAsked(q.request), Clean(f)',
               NEW i \in DOMAIN f.lines, f.lines[i] \in Known(b), Matches(f.lines[i], q.request)
        PROVE  IF Path(f) \in ToSet(q.todo) THEN AllNewer(s, f.lines[i])
               ELSE \/ f.lines[i] \in ToSet(q.matched)
                    \/ Room(q) <= 0 /\ AllNewer(s, f.lines[i])
    <3>1. PICK g \in files : CameFrom(f, i, g, w)
      BY <1>2, <1>3, <1>6, <2>2, PlacesAfterWrite
    <3>2. g.name = f.name /\ i \in DOMAIN g.lines /\ g.lines[i] = f.lines[i]
      BY <3>1 DEF CameFrom
    <3>3. Clean(g)
      BY <1>2, <2>2, <3>1, CleanBeforeWrite
    <3>4. Path(f) = Path(g)
      BY <1>2, <3>1, ExtendKeepsPaths
    <3> HIDE DEF q
    <3> QED
      BY <2>1, <2>2, <3>2, <3>3, <3>4 DEF Covers, q
  <2>3. Known(b)' = Known(b)
    BY <1>3, <1>6
  <2> QED
    BY <2>1, <2>2, <2>3 DEF Covers, AllNewer, NamesAsked, Matches, Room, Need, Path, Limit
<1> QED
  BY <1>4, <1>6, <1>7, <1>8 DEF QueryInv

-----------------------------------------------------------------------------
(* The steps of a query of the list. *)

\* A query begins with all files to read and nothing collected.
LEMMA StartKeepsQuery ==
    ASSUME FilesInv, NEW s \in Slots, UNCHANGED <<files, wrote>>,
           NEW r \in Requests, NEW offset \in Nat, NEW fresh \in BOOLEAN,
           queries'[s] = Query(r, offset, fresh), Continues(s)', from' \in 0..Len(wrote),
           view' # <<>> => Cardinality(Above(r, Oldest(view'), Len(wrote))) >= Len(view')
    PROVE  QueryInv(s)'
<1> DEFINE n == Cardinality(MatchFiles(r))
<1>1. n \in Nat
  BY ListedIs
<1>2. PICK file \in [1..n -> MatchFiles(r)] :
         /\ Listed(r) = [k \in 1..n |-> Path(file[k])]
         /\ \A f \in MatchFiles(r) : \E k \in 1..n : file[k] = f
         /\ \A j, k \in 1..n : j < k => file[j].mod > file[k].mod
  BY ListedIs
<1> HIDE DEF n
<1>3. \A k \in 1..n : file[k] \in files /\ file[k].mod \in 1..Len(wrote) /\ file[k].mod \in Int
  BY DEF MatchFiles, FilesInv, FilesApart
<1>4. DOMAIN Listed(r) = 1..n
  BY <1>2
<1>5. queries'[s].request = r /\ queries'[s].todo = Listed(r) /\ queries'[s].matched = <<>>
  BY DEF Query
<1>6. InTurn(s)'
  <2> SUFFICES ASSUME NEW i \in 1..n, NEW j \in 1..n, i < j, Listed(r)[i][1] = Listed(r)[j][1]
               PROVE  /\ Listed(r)[j][2] # 0
                      /\ Listed(r)[i][2] = 0 \/ Listed(r)[i][2] > Listed(r)[j][2]
    BY <1>4, <1>5 DEF InTurn
  <2>1. /\ Listed(r)[i] = Path(file[i]) /\ Listed(r)[j] = Path(file[j])
        /\ file[i].mod > file[j].mod /\ file[i].name = file[j].name
    BY <1>2 DEF Path
  <2>2. file[j].backup
    BY <1>3, <2>1 DEF FilesInv, CurrentIsNewest
  <2> QED
    BY <1>3, <2>1, <2>2 DEF Path
<1>7. Covers(s, Len(wrote))'
  <2>1. \A f \in files : f.name \in NamesAsked(r) => Path(f) \in ToSet(Listed(r))
    BY <1>2, <1>4 DEF MatchFiles, ToSet
  <2>2. \A e : AllNewer(s, e)'
    BY <1>5 DEF AllNewer
  <2>3. files' = files /\ NamesAsked(queries[s].request)' = NamesAsked(r)
    BY <1>5 DEF NamesAsked
  <2> QED
    BY <1>5, <2>1, <2>2, <2>3 DEF Covers, Path
<1>8. view' # <<>> => Cardinality(Above(queries[s].request, Oldest(view), Len(wrote))') >= Len(view')
  BY <1>5 DEF Above, Known, NamesAsked, Oldest
<1>9. Len(wrote') \in from'..Len(wrote') /\ wrote' = wrote
  <2>1. Len(wrote) \in Nat
    BY LenProperties DEF FilesInv, TypeOK
  <2> QED
    BY <2>1
<1>10. /\ view' # <<>> => Cardinality(Above(queries[s].request, Oldest(view), Len(wrote))') >= Len(view')
       /\ OfOneFile(queries[s].request)' /\ ~Overtaken' => Covers(s, Len(wrote))'
  BY <1>7, <1>8
<1> QED
  BY <1>6, <1>9, <1>10 DEF QueryInv, Above, Known, Covers

\* A path that is still to be read is the first, or among the others if there is room.
LEMMA TodoRest ==
    ASSUME NEW s \in Slots, DOMAIN queries = Slots, QuerySound(s), Reads(s),
           NEW entries \in Seq(Entry), Collects(s, entries), NEW p \in ToSet(queries[s].todo)
    PROVE  p = Head(queries[s].todo) \/ p \in ToSet(queries'[s].todo) \/ Room(queries'[s]) <= 0
<1> DEFINE todo == queries[s].todo
           left == queries'[s].todo
<1>1. left \in Seq(Paths) /\ todo \in Seq(Paths) /\ todo # <<>>
  BY CollectsIs DEF QuerySound, Queried, Reads
<1>2. Room(queries'[s]) <= 0 \/ /\ Len(left) = Len(todo) - 1
                                /\ \A i \in 1..Len(left) : left[i] = todo[i + 1]
  BY CollectsIs DEF QuerySound
<1>3. PICK j \in DOMAIN todo : p = todo[j]
  BY DEF ToSet
<1> HIDE DEF left, todo
<1>4. /\ DOMAIN left = 1..Len(left) /\ DOMAIN todo = 1..Len(todo) /\ Len(left) \in Nat
      /\ Len(todo) \in Nat /\ Head(todo) = todo[1]
  BY <1>1, LenProperties
<1>5. CASE j = 1
  BY <1>3, <1>4, <1>5 DEF todo
<1>6. CASE j # 1 /\ ~ (Room(queries'[s]) <= 0)
  <2>3. Len(left) = Len(todo) - 1
    BY <1>2, <1>6
  <2>1. j - 1 \in 1..Len(left) /\ (j - 1) + 1 = j
    BY <1>3, <1>4, <1>6, <2>3
  <2>2. left[j - 1] = todo[j]
    BY <1>2, <1>6, <2>1
  <2> QED
    BY <1>3, <1>4, <2>1, <2>2 DEF ToSet, left
<1> QED
  BY <1>5, <1>6

LEMMA JoinedHas ==
    ASSUME NEW S, NEW a \in Seq(S), NEW b \in Seq(S)
    PROVE  ToSet(a) \subseteq ToSet(a \o b) /\ ToSet(b) \subseteq ToSet(a \o b)
<1> DEFINE c == a \o b
<1>1. /\ c \in Seq(S) /\ Len(c) = Len(a) + Len(b)
      /\ \A i \in 1..Len(a) + Len(b) : c[i] = IF i <= Len(a) THEN a[i] ELSE b[i - Len(a)]
  BY ConcatProperties
<1> HIDE DEF c
<1>2. /\ DOMAIN a = 1..Len(a) /\ DOMAIN b = 1..Len(b) /\ DOMAIN c = 1..Len(c)
      /\ Len(a) \in Nat /\ Len(b) \in Nat
  BY <1>1, LenProperties
<1>3. \A i \in DOMAIN a : i \in DOMAIN c /\ c[i] = a[i]
  BY <1>1, <1>2
<1>4. \A i \in DOMAIN b : Len(a) + i \in DOMAIN c /\ c[Len(a) + i] = b[i]
  BY <1>1, <1>2
<1> QED
  BY <1>3, <1>4 DEF ToSet, c

\* What is still to be read is older than the file that is read.
LEMMA NextIsOlder ==
    ASSUME FilesInv, ~Overtaken, NEW s \in Slots, QuerySound(s), InTurn(s), Reads(s),
           NEW f \in files, NEW g \in files, f.name = g.name,
           Path(g) = Head(queries[s].todo), Path(f) \in ToSet(queries[s].todo), f # g,
           NEW i \in DOMAIN f.lines, NEW j \in DOMAIN g.lines
    PROVE  f.lines[i].ts < g.lines[j].ts
<1> DEFINE todo == queries[s].todo
<1>1. todo \in Seq(Paths) /\ todo # <<>>
  BY DEF QuerySound, Queried, Reads
<1>2. PICK k \in DOMAIN todo : Path(f) = todo[k]
  BY DEF ToSet
<1>3. /\ 1 \in DOMAIN todo /\ Path(g) = todo[1] /\ k \in Nat /\ k >= 1
  <2>1. DOMAIN todo = 1..Len(todo) /\ Len(todo) \in Nat /\ Len(todo) # 0 /\ Head(todo) = todo[1]
    BY <1>1, LenProperties, EmptySeq
  <2> HIDE DEF todo
  <2>2. 1 \in DOMAIN todo /\ k \in Nat /\ k >= 1
    BY <2>1
  <2> QED
    BY <2>1, <2>2 DEF todo
<1>4. k # 1
  BY <1>2, <1>3, PathsApart
<1>5. 1 < k /\ todo[1][1] = todo[k][1]
  BY <1>2, <1>3, <1>4 DEF Path
<1>6. Path(f)[2] # 0 /\ (Path(g)[2] = 0 \/ Path(g)[2] > Path(f)[2])
  BY <1>2, <1>3, <1>5 DEF InTurn
<1>7. /\ f.mod \in 1..Len(wrote) /\ g.mod \in 1..Len(wrote) /\ f.mod \in Int /\ g.mod \in Int
      /\ f.backup \in BOOLEAN /\ g.backup \in BOOLEAN
  BY DEF FilesInv, FilesApart, TypeOK, File
<1>8. f.backup
  BY <1>6, <1>7 DEF Path
<1>9. f.mod < g.mod
  <2>1. CASE g.backup
    BY <1>6, <1>7, <1>8, <2>1 DEF Path
  <2>2. CASE ~g.backup
    BY <2>2 DEF FilesInv, CurrentIsNewest
  <2> QED
    BY <1>7, <2>1, <2>2
<1> QED
  BY <1>9 DEF FilesInv, InTimeOrder

\* A step of the scan leaves the list and the request of the query as they are.
LEMMA CollectsKeepsTurn ==
    ASSUME NEW s \in Slots, DOMAIN queries = Slots, QuerySound(s), InTurn(s), Continues(s), Reads(s),
           NEW entries \in Seq(Entry), Collects(s, entries)
    PROVE  /\ Continues(s)' /\ InTurn(s)'
           /\ UNCHANGED <<files, wrote, view, from>>
           /\ queries'[s].request = queries[s].request
<1> DEFINE todo == queries[s].todo
           left == queries'[s].todo
<1>1. UNCHANGED <<files, wrote, page, from>>
  BY DEF Collects, log
<1>2. /\ queries'[s].request = queries[s].request /\ queries'[s].offset = queries[s].offset
      /\ queries'[s].fresh = queries[s].fresh
  BY CollectsIs DEF QuerySound
<1>3. Continues(s)'
  BY <1>1, <1>2 DEF Continues, page
<1>4. left \in Seq(Paths) /\ \A i \in DOMAIN left : i + 1 \in DOMAIN todo /\ left[i] = todo[i + 1]
  BY TodoShrinks
<1>5. \A i \in DOMAIN left : i \in Nat
  BY <1>4, LenProperties
<1>6. \A i, j \in DOMAIN todo : i < j /\ todo[i][1] = todo[j][1] =>
          todo[j][2] # 0 /\ (todo[i][2] = 0 \/ todo[i][2] > todo[j][2])
  BY DEF InTurn
<1> HIDE DEF left, todo
<1>7. ASSUME NEW i \in DOMAIN left, NEW j \in DOMAIN left, i < j, left[i][1] = left[j][1]
      PROVE  left[j][2] # 0 /\ (left[i][2] = 0 \/ left[i][2] > left[j][2])
  <2>1. i + 1 < j + 1
    BY <1>5, <1>7
  <2> QED
    BY <1>4, <1>6, <1>7, <2>1
<1>8. InTurn(s)'
  BY <1>7 DEF InTurn, left
<1> QED
  BY <1>1, <1>2, <1>3, <1>8 DEF page

LEMMA ReadKeepsCovers ==
    ASSUME FilesInv, NEW s \in Slots, DOMAIN queries = Slots, QuerySound(s), InTurn(s), ReadFile(s),
           ~Overtaken, OfOneFile(queries[s].request), NEW b \in 0..Len(wrote), Covers(s, b),
           NEW f \in files, f.name \in NamesAsked(queries[s].request), Clean(f),
           NEW i \in DOMAIN f.lines, f.lines[i] \in Known(b), Matches(f.lines[i], queries[s].request)
    PROVE  LET now == queries'[s]
               newer == \A k \in DOMAIN now.matched : now.matched[k].ts > f.lines[i].ts
           IN  IF Path(f) \in ToSet(now.todo) THEN newer
               ELSE f.lines[i] \in ToSet(now.matched) \/ (Room(now) <= 0 /\ newer)
<1> DEFINE q == queries[s]
           now == queries'[s]
           e == f.lines[i]
           newer == \A k \in DOMAIN now.matched : now.matched[k].ts > e.ts
<1>1. PICK g \in Opened(s) : Collects(s, Scan(g, q))
  BY DEF ReadFile
<1>2. /\ g \in files /\ g \in File /\ Path(g) = Head(q.todo) /\ Reads(s) /\ q.todo # <<>>
      /\ q \in Queried /\ Room(q) > 0
  BY <1>1 DEF Opened, ReadFile, Reads, QuerySound, FilesInv, TypeOK
<1> DEFINE found == {j \in DOMAIN g.lines :
                        Reached(g, j, q.request) /\ Matches(g.lines[j], q.request)}
           entries == Scan(g, q)
<1>3. entries \in Seq(Entry) /\ \E place \in [1..Len(entries) -> found] :
          /\ \A k \in 1..Len(entries) : entries[k] = g.lines[place[k]]
          /\ \A j \in found :
                \/ \E k \in 1..Len(entries) : place[k] = j
                \/ Len(entries) = Room(q) /\ \A k \in 1..Len(entries) : place[k] > j
  <2> HIDE DEF q
  <2> QED
    BY <1>2, ScanIs
<1>4. PICK place \in [1..Len(entries) -> found] :
          /\ \A k \in 1..Len(entries) : entries[k] = g.lines[place[k]]
          /\ \A j \in found :
                \/ \E k \in 1..Len(entries) : place[k] = j
                \/ Len(entries) = Room(q) /\ \A k \in 1..Len(entries) : place[k] > j
  BY <1>3
<1>5. Collects(s, entries)
  BY <1>1
<1> HIDE DEF entries
<1>6. \A k \in 1..Len(entries) : place[k] \in DOMAIN g.lines /\ entries[k] = g.lines[place[k]]
  BY <1>4
<1>7. \A k \in DOMAIN now.matched :
          \/ k \in DOMAIN q.matched /\ now.matched[k] = q.matched[k]
          \/ k - Len(q.matched) \in 1..Len(entries)
             /\ now.matched[k] = entries[k - Len(q.matched)]
  BY <1>2, <1>3, <1>5, CollectedBy
<1>8. /\ now.matched = q.matched \o entries /\ now.request = q.request /\ now.offset = q.offset
      /\ Len(now.matched) = Len(q.matched) + Len(entries)
  BY <1>2, <1>3, <1>5, CollectsIs
<1>9. /\ q.matched \in Seq(Entry) /\ Len(q.matched) \in Nat /\ Len(entries) \in Nat
      /\ Need(q) \in Nat
  BY <1>2, <1>3, LenProperties, LimitIs DEF Queried, Need
<1>10. Room(now) = Room(q) - Len(entries)
  BY <1>8, <1>9 DEF Room, Need
<1>11. ToSet(q.matched) \subseteq ToSet(now.matched) /\ ToSet(entries) \subseteq ToSet(now.matched)
  BY <1>3, <1>8, <1>9, JoinedHas
<1>12. /\ Head(q.todo) \in ToSet(q.todo) /\ Head(q.todo) \notin ToSet(now.todo)
       /\ ToSet(now.todo) \subseteq ToSet(q.todo)
  BY <1>2, <1>3, <1>5, TodoShrinks
<1>13. g.name = f.name
  <2>1. g.name \in NamesAsked(q.request)
    BY <1>2, <1>12 DEF QuerySound, TodoIsSound, ToSet, Path
  <2>2. \E l : NamesAsked(q.request) = {l}
    BY OneNameIsAsked
  <2> QED
    BY <2>1, <2>2
<1>14. \A k \in DOMAIN g.lines : g.lines[k].ts \in Int
  BY <1>2, LineIsEntry
<1>15. IF Path(f) \in ToSet(q.todo) THEN AllNewer(s, e)
       ELSE e \in ToSet(q.matched) \/ (Room(q) <= 0 /\ AllNewer(s, e))
  BY DEF Covers
<1> HIDE DEF found, now, q, e
<1>16. ASSUME \A k \in DOMAIN q.matched : q.matched[k].ts > e.ts,
              \A k \in 1..Len(entries) : entries[k].ts > e.ts
       PROVE  newer
  BY <1>7, <1>16
<1>17. CASE f = g
  <2>1. Path(f) \in ToSet(q.todo) /\ Path(f) \notin ToSet(now.todo)
    BY <1>2, <1>12, <1>17
  <2>2. \A k \in DOMAIN q.matched : q.matched[k].ts > e.ts
    BY <1>15, <2>1 DEF AllNewer, q
  <2>3. Reached(g, i, q.request)
    <3> SUFFICES ASSUME q.request.begin # None, NEW j \in i..Len(g.lines)
                 PROVE  g.lines[j].ts >= q.request.begin
      BY DEF Reached
    <3>1. q.request.begin \in Int /\ g.lines[i].ts >= q.request.begin
      BY <1>2, <1>17, LogAssumption DEF Matches, Queried, q
    <3>2. j \in DOMAIN g.lines /\ i \in DOMAIN g.lines /\ (j = i \/ i < j)
      <4>1. DOMAIN g.lines = 1..Len(g.lines) /\ Len(g.lines) \in Nat
        BY <1>2, LenProperties DEF File
      <4> QED
        BY <1>17, <4>1
    <3>3. j = i \/ g.lines[i].ts < g.lines[j].ts
      BY <1>2, <3>2 DEF FilesInv, InTimeOrder
    <3> QED
      BY <1>14, <3>1, <3>2, <3>3
  <2>4. i \in found
    BY <1>17, <2>3 DEF found, q
  <2>5. CASE \E k \in 1..Len(entries) : place[k] = i
    <3>1. PICK k \in 1..Len(entries) : place[k] = i
      BY <2>5
    <3>2. entries[k] = e
      BY <1>6, <1>17, <3>1 DEF e
    <3>3. DOMAIN entries = 1..Len(entries)
      BY <1>3, LenProperties
    <3>4. e \in ToSet(entries)
      BY <3>1, <3>2, <3>3 DEF ToSet
    <3> QED
      BY <1>11, <2>1, <3>4 DEF now, e
  <2>6. CASE Len(entries) = Room(q) /\ \A k \in 1..Len(entries) : place[k] > i
    <3>1. Room(now) <= 0
      BY <1>9, <1>10, <2>6
    <3>2. ASSUME NEW k \in 1..Len(entries)
          PROVE  entries[k].ts > e.ts
      <4>1. g.lines[i].ts < g.lines[place[k]].ts
        <5>1. DOMAIN g.lines = 1..Len(g.lines) /\ Len(g.lines) \in Nat
          BY <1>2, LenProperties DEF File
        <5>2. i < place[k] /\ i \in DOMAIN g.lines /\ place[k] \in DOMAIN g.lines
          BY <1>6, <1>17, <2>6, <5>1
        <5> QED
          BY <1>2, <5>2 DEF FilesInv, InTimeOrder
      <4>2. place[k] \in DOMAIN g.lines /\ i \in DOMAIN g.lines
        BY <1>6, <1>17
      <4> QED
        BY <1>6, <1>14, <1>17, <4>1, <4>2 DEF e
    <3>3. newer
      BY <1>16, <2>2, <3>2
    <3> QED
      BY <2>1, <3>1, <3>3 DEF now, e
  <2> QED
    BY <1>4, <2>4, <2>5, <2>6
<1>18. CASE f # g /\ Path(f) \in ToSet(q.todo)
  <2>1. \A k \in DOMAIN q.matched : q.matched[k].ts > e.ts
    BY <1>15, <1>18 DEF AllNewer, q
  <2>2. ASSUME NEW k \in 1..Len(entries)
        PROVE  entries[k].ts > e.ts
    <3>1. f.lines[i].ts < g.lines[place[k]].ts
      BY <1>2, <1>6, <1>13, <1>18, NextIsOlder DEF q
    <3>2. f.lines[i].ts \in Int
      BY LineIsEntry
    <3> QED
      BY <1>6, <1>14, <3>1, <3>2 DEF e
  <2>3. newer
    BY <1>16, <2>1, <2>2
  <2>4. Path(f) # Head(q.todo)
    BY <1>2, <1>18, PathsApart
  <2>5. Path(f) \in ToSet(now.todo) \/ Room(now) <= 0
    BY <1>2, <1>3, <1>5, <1>18, <2>4, TodoRest DEF q, now
  <2> QED
    BY <2>3, <2>5 DEF now, e
<1>19. CASE Path(f) \notin ToSet(q.todo)
  <2>1. Path(f) \notin ToSet(now.todo)
    BY <1>12, <1>19
  <2>2. ~ (Room(q) <= 0)
    <3>1. Room(q) \in Int
      BY <1>9 DEF Room
    <3> QED
      BY <1>2, <3>1
  <2>3. e \in ToSet(now.matched)
    BY <1>11, <1>15, <1>19, <2>2
  <2> QED
    BY <2>1, <2>3 DEF now, e
<1> QED
  BY <1>2, <1>12, <1>17, <1>18, <1>19

LEMMA ReadKeepsQuery ==
    ASSUME FilesInv, from \in 0..Len(wrote), NEW s \in Slots, DOMAIN queries = Slots, QuerySound(s),
           QueryInv(s), ReadFile(s)
    PROVE  QueryInv(s)'
<1>1. PICK b \in from..Len(wrote) :
          /\ view # <<>> =>
                Cardinality(Above(queries[s].request, Oldest(view), b)) >= Len(view)
          /\ OfOneFile(queries[s].request) /\ ~Overtaken => Covers(s, b)
  BY DEF QueryInv
<1>2. /\ Continues(s)' /\ InTurn(s)' /\ UNCHANGED <<files, wrote, view, from>>
      /\ queries'[s].request = queries[s].request
  <2>1. PICK f \in Opened(s) : Collects(s, Scan(f, queries[s]))
    BY DEF ReadFile
  <2>2. f \in File /\ queries[s] \in Queried /\ Room(queries[s]) > 0 /\ Reads(s)
    BY <2>1 DEF Opened, ReadFile, Reads, QuerySound, FilesInv, TypeOK
  <2>3. Scan(f, queries[s]) \in Seq(Entry)
    BY <2>2, ScanIs
  <2> QED
    BY <2>1, <2>2, <2>3, CollectsKeepsTurn DEF QueryInv
<1>3. b \in 0..Len(wrote)
  <2>1. Len(wrote) \in Nat
    BY LenProperties DEF FilesInv, TypeOK
  <2> QED
    BY <2>1
<1>4. ASSUME OfOneFile(queries[s].request)', ~Overtaken'
      PROVE  Covers(s, b)'
  <2>1. OfOneFile(queries[s].request) /\ ~Overtaken
    BY <1>2, <1>4 DEF OfOneFile, Overtaken
  <2>2. Covers(s, b)
    BY <1>1, <2>1
  <2>3. ASSUME NEW f \in files, f.name \in NamesAsked(queries[s].request), Clean(f),
               NEW i \in DOMAIN f.lines, f.lines[i] \in Known(b),
               Matches(f.lines[i], queries[s].request)
        PROVE  LET now == queries'[s]
                   newer == \A k \in DOMAIN now.matched : now.matched[k].ts > f.lines[i].ts
               IN  IF Path(f) \in ToSet(now.todo) THEN newer
                   ELSE f.lines[i] \in ToSet(now.matched) \/ (Room(now) <= 0 /\ newer)
    BY <1>3, <2>1, <2>2, <2>3, ReadKeepsCovers DEF QueryInv
  <2>4. /\ \A f : Clean(f)' <=> Clean(f)
        /\ Known(b)' = Known(b)
        /\ NamesAsked(queries[s].request)' = NamesAsked(queries[s].request)
        /\ files' = files /\ queries'[s].request = queries[s].request
    BY <1>2 DEF Clean, Readable, Known, NamesAsked
  <2> QED
    BY <2>3, <2>4 DEF Covers, AllNewer, Matches, Room, Need, Limit, Path
<1>5. view' # <<>> =>
         Cardinality(Above(queries[s].request, Oldest(view), b)') >= Len(view')
  BY <1>1, <1>2 DEF Above, Known, Oldest, NamesAsked
<1> QED
  BY <1>2, <1>4, <1>5 DEF QueryInv

LEMMA SkipKeepsQuery ==
    ASSUME FilesInv, NEW s \in Slots, DOMAIN queries = Slots, QuerySound(s), QueryInv(s), SkipFile(s)
    PROVE  QueryInv(s)'
<1> DEFINE q == queries[s]
           now == queries'[s]
<1>1. /\ Collects(s, <<>>) /\ Reads(s) /\ <<>> \in Seq(Entry) /\ q \in Queried /\ Room(q) > 0
      /\ q.matched \in Seq(Entry)
  BY EmptySeq DEF SkipFile, Reads, QuerySound, Queried
<1>2. /\ Continues(s)' /\ InTurn(s)' /\ UNCHANGED <<files, wrote, view, from>>
      /\ now.request = q.request
  BY <1>1, CollectsKeepsTurn DEF QueryInv
<1>3. now.matched = q.matched /\ now.offset = q.offset
  BY <1>1, CollectsIs, ConcatEmptySeq
<1>4. PICK b \in from..Len(wrote) :
          /\ view # <<>> => Cardinality(Above(q.request, Oldest(view), b)) >= Len(view)
          /\ OfOneFile(q.request) /\ ~Overtaken => Covers(s, b)
  BY DEF QueryInv
<1>5. \A p \in ToSet(q.todo) : p # Head(q.todo) => p \in ToSet(now.todo)
  <2>1. Room(now) = Room(q)
    BY <1>2, <1>3 DEF Room, Need
  <2>2. Room(q) \in Int
    <3>1. Len(q.matched) \in Nat /\ Need(q) \in Nat
      BY <1>1, LenProperties, LimitIs DEF Queried, Need
    <3> QED
      BY <3>1 DEF Room
  <2>3. ~ (Room(now) <= 0)
    BY <1>1, <2>1, <2>2
  <2> QED
    BY <1>1, <2>3, TodoRest
<1>6. ToSet(now.todo) \subseteq ToSet(q.todo)
  BY <1>1, TodoShrinks
<1>7. \A f \in files : Clean(f) => Path(f) # Head(q.todo)
  <2>1. \A f \in files : f.mod >= f.mod
    BY DEF FilesInv, FilesApart
  <2>2. \A f \in files : Clean(f) => Readable(f)
    BY <2>1 DEF Clean
  <2> QED
    BY <2>2 DEF SkipFile, Opened
<1>8. ASSUME OfOneFile(queries[s].request)', ~Overtaken'
      PROVE  Covers(s, b)'
  <2>1. Covers(s, b)
    BY <1>2, <1>4, <1>8 DEF OfOneFile, Overtaken
  <2>2. /\ \A f : Clean(f)' <=> Clean(f)
        /\ Known(b)' = Known(b)
        /\ NamesAsked(queries[s].request)' = NamesAsked(queries[s].request)
        /\ \A e : AllNewer(s, e)' <=> AllNewer(s, e)
        /\ Room(queries[s])' = Room(queries[s])
    BY <1>2, <1>3 DEF Clean, Readable, Known, NamesAsked, AllNewer, Room, Need, Limit
  <2>3. \A f \in files : Clean(f) => (Path(f) \in ToSet(now.todo) <=> Path(f) \in ToSet(q.todo))
    BY <1>5, <1>6, <1>7
  <2>4. files' = files /\ now.request = q.request /\ now.matched = q.matched
    BY <1>2, <1>3
  <2> QED
    BY <2>1, <2>2, <2>3, <2>4 DEF Covers, Matches, Path
<1>9. view' # <<>> =>
         Cardinality(Above(queries[s].request, Oldest(view), b)') >= Len(view')
  BY <1>2, <1>4 DEF Above, Known, Oldest, NamesAsked
<1> QED
  BY <1>2, <1>4, <1>8, <1>9 DEF QueryInv

\* The list with the page of an answer behind it.
Page(s) == view \o Answer(queries[s]).items

\* The list ends with the place that the sort gives its last entry, if the page has any, and
\* there is more if an entry has a later place.
LEMMA PageIs ==
    ASSUME NEW s \in Slots, QuerySound(s), view \in Seq(Entry), queries[s].offset = Len(view)
    PROVE  LET q == queries[s]
               n == Len(q.matched)
               sorted == NewestFirst(q.matched)
               items == Answer(q).items
           IN  /\ n \in Nat /\ Len(view) \in Nat
               /\ Page(s) \in Seq(Entry) /\ Len(Page(s)) = Len(view) + Len(items)
               /\ ToSet(view) \subseteq ToSet(Page(s))
               /\ IF items = <<>> THEN Page(s) = view
                  ELSE /\ Len(Page(s)) \in 1..n /\ Page(s) # <<>>
                       /\ Oldest(Page(s)) = sorted[Len(Page(s))].ts
               /\ \A k \in 1..n : k > Len(view) /\ k <= Len(Page(s)) => sorted[k] \in ToSet(Page(s))
               /\ Answer(q).more => items # <<>>
               /\ \A k \in 1..n : k > Len(Page(s)) => Answer(q).more
               /\ Room(q) <= 0 => Answer(q).more
<1> DEFINE q == queries[s]
           n == Len(q.matched)
           L == Limit(q.request)
           items == Answer(q).items
           sorted == NewestFirst(q.matched)
           all == Page(s)
           further == Answer(q).more
<1>1. /\ n \in Nat /\ L \in Nat \ {0} /\ q.offset = Len(view)
      /\ items \in Seq(Entry)
      /\ Len(items) = IF n <= q.offset THEN 0
                      ELSE IF n < q.offset + L THEN n - q.offset ELSE L
      /\ \A i \in 1..Len(items) : q.offset + i \in 1..n /\ items[i] = sorted[q.offset + i]
      /\ further <=> n > q.offset + L
  BY AnswerIs
<1>2. all = view \o items
  BY DEF Page
<1>3. Room(q) = (L + q.offset + 1) - n
  BY DEF Room, Need
<1> DEFINE v == Len(view)
           m == Len(items)
<1> HIDE DEF q, n, L, items, sorted, all, further
<1>4. v \in Nat /\ m \in Nat /\ (items = <<>> <=> m = 0) /\ DOMAIN items = 1..m /\ DOMAIN view = 1..v
  BY <1>1, LenProperties, EmptySeq
<1>5. /\ all \in Seq(Entry) /\ Len(all) = v + m
      /\ \A i \in 1..v + m : all[i] = IF i <= v THEN view[i] ELSE items[i - v]
  BY <1>1, <1>2, ConcatProperties
<1>6. m = IF n <= v THEN 0 ELSE IF n < v + L THEN n - v ELSE L
  BY <1>1
<1>7. \A i \in 1..m : v + i \in 1..n /\ items[i] = sorted[v + i]
  BY <1>1
<1> HIDE DEF v, m
<1>8. ToSet(view) \subseteq ToSet(all) /\ ToSet(items) \subseteq ToSet(all)
  BY <1>1, <1>2, JoinedHas
<1>9. items = <<>> => all = view
  BY <1>2, ConcatEmptySeq
<1>10. ASSUME items # <<>>
       PROVE  Len(all) \in 1..n /\ all # <<>> /\ Oldest(all) = sorted[Len(all)].ts
  <2>1. m \in 1..m /\ v + m \in 1..v + m /\ ~ (v + m <= v) /\ (v + m) - v = m
    BY <1>4, <1>10
  <2>2. all[v + m] = items[m] /\ items[m] = sorted[v + m] /\ v + m \in 1..n
    BY <1>5, <1>7, <2>1
  <2>3. all # <<>>
    <3>1. Len(all) # 0
      BY <1>4, <1>5, <1>10
    <3> QED
      BY <3>1
  <2> QED
    <3>1. Len(all) = v + m
      BY <1>5
    <3>2. Oldest(all) = all[v + m].ts
      BY <3>1 DEF Oldest
    <3> QED
      BY <2>2, <2>3, <3>1, <3>2
<1>11. ASSUME NEW k \in 1..n, k > v, k <= v + m
       PROVE  sorted[k] \in ToSet(all)
  <2>1. k - v \in 1..m /\ v + (k - v) = k
    BY <1>1, <1>4, <1>11
  <2>2. items[k - v] = sorted[k]
    BY <1>7, <2>1
  <2>3. sorted[k] \in ToSet(items)
    BY <1>4, <2>1, <2>2 DEF ToSet
  <2> QED
    BY <1>8, <2>3
<1>12. n > v + L => m # 0
  BY <1>1, <1>4, <1>6
<1>13. \A k \in 1..n : k > v + m => n > v + L
  BY <1>1, <1>4, <1>6
<1>14. Room(q) <= 0 => n > v + L
  BY <1>1, <1>3, <1>4 DEF v
<1>15. further <=> n > v + L
  BY <1>1 DEF v
<1>16. /\ further => items # <<>>
       /\ \A k \in 1..n : k > v + m => further
       /\ Room(q) <= 0 => further
  BY <1>4, <1>12, <1>13, <1>14, <1>15
<1>17. v = Len(view) /\ m = Len(items)
  BY DEF v, m
<1> QED
  BY <1>1, <1>4, <1>5, <1>8, <1>9, <1>10, <1>11, <1>16, <1>17
  DEF q, n, items, sorted, all, further

\* The entries collected in the order of the page: each has its place, the newest first.
LEMMA PlacesAre ==
    ASSUME NEW s \in Slots, QuerySound(s)
    PROVE  LET q == queries[s]
               n == Len(q.matched)
               sorted == NewestFirst(q.matched)
           IN  /\ \A k \in 1..n : sorted[k] \in ToSet(q.matched) /\ sorted[k].ts \in Int
               /\ \A e \in ToSet(q.matched) : \E k \in 1..n : sorted[k] = e
               /\ \A j, k \in 1..n : j < k => sorted[j].ts > sorted[k].ts
               /\ \A e \in ToSet(q.matched) : /\ e \in ToSet(wrote) /\ e.name \in NamesAsked(q.request)
                                              /\ Matches(e, q.request)
<1> DEFINE q == queries[s]
<1>1. /\ q.matched \in Seq(Entry)
      /\ \A j, k \in DOMAIN q.matched : q.matched[j].ts = q.matched[k].ts => j = k
      /\ \A e \in ToSet(q.matched) : /\ e \in ToSet(wrote) /\ e.name \in NamesAsked(q.request)
                                     /\ Matches(e, q.request)
  BY DEF QuerySound, Queried, CollectedIsSound, ToSet
<1>2. \A e \in ToSet(q.matched) : e.ts \in Int
  <2>1. q.matched \in [DOMAIN q.matched -> Entry]
    BY <1>1, LenProperties
  <2> QED
    BY <2>1 DEF ToSet, Entry
<1> HIDE DEF q
<1>3. /\ \A k \in 1..Len(q.matched) : NewestFirst(q.matched)[k] \in ToSet(q.matched)
      /\ \A e \in ToSet(q.matched) : \E k \in 1..Len(q.matched) : NewestFirst(q.matched)[k] = e
      /\ \A j, k \in 1..Len(q.matched) :
            j < k => NewestFirst(q.matched)[j].ts > NewestFirst(q.matched)[k].ts
  BY <1>1, NewestFirstIs
<1> QED
  BY <1>1, <1>2, <1>3 DEF q

\* At least as many entries are as new as the end of the list as it has.
LEMMA PageIsAbove ==
    ASSUME FilesInv, from \in 0..Len(wrote), NEW s \in Slots, QuerySound(s), QueryInv(s),
           view \in Seq(Entry), queries[s].offset = Len(view), Page(s) # <<>>
    PROVE  Cardinality(Above(queries[s].request, Oldest(Page(s)), Len(wrote))) >= Len(Page(s))
<1> DEFINE q == queries[s]
           n == Len(q.matched)
           sorted == NewestFirst(q.matched)
           all == Page(s)
           T == Above(q.request, Oldest(all), Len(wrote))
<1>1. /\ n \in Nat /\ all \in Seq(Entry)
      /\ IF Answer(q).items = <<>> THEN all = view
         ELSE Len(all) \in 1..n /\ Oldest(all) = sorted[Len(all)].ts
  BY PageIs
<1>2. Len(all) \in Nat
  BY <1>1, LenProperties
<1>3. Len(wrote) \in Nat /\ DOMAIN wrote = 1..Len(wrote) /\ wrote \in Seq(Entry)
  BY LenProperties DEF FilesInv, TypeOK
<1>4. IsFiniteSet(T)
  <2>1. IsFiniteSet(ToSet(wrote))
    BY <1>3, MembersAreFinite
  <2>2. T \in SUBSET ToSet(wrote)
    BY <1>3 DEF Above, Known, ToSet
  <2> QED
    BY <2>1, <2>2, FS_Subset
<1>5. CASE Answer(q).items = <<>>
  <2>1. PICK b \in from..Len(wrote) :
            view # <<>> => Cardinality(Above(q.request, Oldest(view), b)) >= Len(view)
    BY DEF QueryInv
  <2>2. all = view
    BY <1>1, <1>5
  <2>3. Above(q.request, Oldest(view), b) \subseteq T
    <3>1. Known(b) \subseteq Known(Len(wrote))
      BY <1>3, <2>1 DEF Known
    <3> QED
      BY <2>2, <3>1 DEF Above
  <2> HIDE DEF T, all, q
  <2>4. Cardinality(Above(q.request, Oldest(view), b)) >= Len(all)
    BY <2>1, <2>2 DEF all
  <2>5. Cardinality(T) >= Len(all)
    BY <1>2, <1>4, <2>3, <2>4, AboveGrows
  <2> QED
    BY <2>5 DEF T, all, q
<1>6. CASE Answer(q).items # <<>>
  <2>1. Len(all) \in 1..n /\ Oldest(all) = sorted[Len(all)].ts
    BY <1>1, <1>6
  <2>2. /\ \A k \in 1..n : sorted[k] \in ToSet(q.matched) /\ sorted[k].ts \in Int
        /\ \A j, k \in 1..n : j < k => sorted[j].ts > sorted[k].ts
        /\ \A e \in ToSet(q.matched) : /\ e \in ToSet(wrote) /\ e.name \in NamesAsked(q.request)
                                       /\ Matches(e, q.request)
    BY PlacesAre
  <2> DEFINE m == Len(all)
             place == [k \in 1..m |-> sorted[k]]
  <2> HIDE DEF n, sorted, all
  <2>3. ASSUME NEW k \in 1..m
        PROVE  sorted[k] \in T
    <3>1. k \in 1..n /\ m \in 1..n /\ (k = m \/ k < m)
      BY <1>1, <1>2, <2>1
    <3>2. sorted[k].ts >= sorted[m].ts
      BY <2>2, <3>1
    <3>3. sorted[k] \in Known(Len(wrote))
      BY <1>3, <2>2, <3>1 DEF Known, ToSet
    <3>4. sorted[k].name \in NamesAsked(q.request) /\ Matches(sorted[k], q.request)
      BY <2>2, <3>1
    <3> QED
      BY <2>1, <3>2, <3>3, <3>4 DEF Above, Matches
  <2>4. \A j, k \in 1..m : sorted[j] = sorted[k] => j = k
    <3>1. \A k \in 1..m : k \in 1..n
      BY <1>1, <1>2, <2>1
    <3>2. ASSUME NEW j \in 1..m, NEW k \in 1..m, sorted[j] = sorted[k]
          PROVE  j = k
      <4>1. ~ (j < k) /\ ~ (k < j)
        BY <2>2, <3>1, <3>2
      <4> QED
        BY <1>2, <4>1
    <3> QED
      BY <3>2
  <2> HIDE DEF T
  <2>5. place \in Injection(1..m, T)
    <3>1. place \in [1..m -> T]
      BY <2>3
    <3> QED
      BY <2>4, <3>1 DEF Injection, IsInjective
  <2>6. Cardinality(1..m) = m
    <3>1. m \in Nat
      BY <1>2 DEF all
    <3> HIDE DEF m
    <3> QED
      BY <3>1, FS_Interval
  <2>7. Cardinality(1..m) <= Cardinality(T)
    <3> HIDE DEF place
    <3> QED
      BY <1>4, <2>5, FS_Injection
  <2>8. Cardinality(T) \in Nat
    BY <1>4, FS_CardinalityType
  <2> QED
    BY <1>2, <2>6, <2>7, <2>8 DEF T, all
<1> QED
  BY <1>5, <1>6

\* The entries of the list that are newer than one on disk are all collected.
LEMMA NewerAreCollected ==
    ASSUME FilesInv, Complete, ~Overtaken, NEW s \in Slots, QuerySound(s), queries[s].todo = <<>>,
           OfOneFile(queries[s].request), NEW b \in 0..Len(wrote), Covers(s, b),
           NEW f \in files, f.name \in NamesAsked(queries[s].request), Clean(f),
           NEW i \in DOMAIN f.lines, Matches(f.lines[i], queries[s].request),
           f.lines[i] \in ToSet(queries[s].matched),
           NEW t \in Int, f.lines[i].ts < t, NEW v \in Above(queries[s].request, t, b)
    PROVE  v \in ToSet(queries[s].matched) /\ v.ts > f.lines[i].ts
<1> DEFINE q == queries[s]
           e == f.lines[i]
<1>1. e.ts \in Int
  BY LineIsEntry
<1>2. v \in Known(b) /\ v.name \in NamesAsked(q.request) /\ v.ts >= t
  BY DEF Above
<1>3. v \in ToSet(wrote) /\ v.ts \in Int
  <2>1. wrote \in Seq(Entry) /\ DOMAIN wrote = 1..Len(wrote) /\ Len(wrote) \in Nat
    BY LenProperties DEF FilesInv, TypeOK
  <2>2. PICK k \in 1..b : v = wrote[k]
    BY <1>2 DEF Known
  <2>3. k \in DOMAIN wrote /\ wrote[k] \in Entry
    BY <2>1, <2>2, LenProperties
  <2> QED
    BY <2>2, <2>3 DEF ToSet, Entry
<1>4. v.ts > e.ts
  BY <1>1, <1>2, <1>3
<1>5. v.name = f.name
  BY <1>2, OneNameIsAsked
<1>6. PICK g \in files : g.name = f.name /\ v \in ToSet(g.lines)
  BY <1>3, <1>4, <1>5 DEF Complete
<1>7. PICK j \in DOMAIN g.lines : v = g.lines[j]
  BY <1>6 DEF ToSet
<1>8. g.mod >= f.mod
  <2>1. g.mod \in Int /\ f.mod \in Int
    BY DEF FilesInv, FilesApart
  <2>2. ~ (g.mod < f.mod)
    <3>1. g.mod < f.mod => g.lines[j].ts < f.lines[i].ts
      BY <1>6 DEF FilesInv, InTimeOrder
    <3> QED
      BY <1>1, <1>3, <1>4, <1>7, <3>1
  <2> QED
    BY <2>1, <2>2
<1>9. Clean(g)
  <2>1. \A h \in files : h.mod \in Int
    BY DEF FilesInv, FilesApart
  <2>2. \A h \in files : h.name = g.name /\ h.mod >= g.mod => h.name = f.name /\ h.mod >= f.mod
    BY <1>6, <1>8, <2>1
  <2> QED
    BY <2>2 DEF Clean
<1>10. Matches(v, q.request)
  <2>1. q.request.begin # None => q.request.begin \in Int /\ e.ts >= q.request.begin
    BY LogAssumption DEF Matches, QuerySound, Queried
  <2>2. /\ q.request.end # None => v.ts <= q.request.end
        /\ q.request.trace # None => v.trace = q.request.trace
    BY DEF Above
  <2> HIDE DEF e, q
  <2>3. q.request.begin # None => v.ts >= q.request.begin
    BY <1>1, <1>3, <1>4, <2>1
  <2> QED
    BY <2>2, <2>3 DEF Matches
<1>11. v \in ToSet(q.matched) \/ AllNewer(s, v)
  <2>1. Path(g) \notin ToSet(q.todo)
    BY DEF ToSet
  <2> QED
    BY <1>2, <1>5, <1>6, <1>7, <1>9, <1>10, <2>1 DEF Covers
<1>12. ~ AllNewer(s, v)
  <2>1. PICK k \in DOMAIN q.matched : e = q.matched[k]
    BY DEF ToSet
  <2>2. ~ (e.ts > v.ts)
    BY <1>1, <1>3, <1>4
  <2> QED
    BY <2>1, <2>2 DEF AllNewer
<1> QED
  BY <1>4, <1>11, <1>12

LEMMA FirstOnes ==
    ASSUME NEW m \in Nat
    PROVE  IsFiniteSet(1..m) /\ Cardinality(1..m) = m
<1>1. 1 \in Int /\ m \in Int
  OBVIOUS
<1>2. IsFiniteSet(1..m) /\ Cardinality(1..m) = IF 1 > m THEN 0 ELSE m - 1 + 1
  BY <1>1, FS_Interval
<1> QED
  BY <1>2

\* An entry that is older than the list, or any if the list is empty, is on the page of the
\* answer or older than its end, and then there is more.
LEMMA PageHasNext ==
    ASSUME FilesInv, Complete, ~Overtaken, NEW s \in Slots, QuerySound(s), queries[s].todo = <<>>,
           view \in Seq(Entry), queries[s].offset = Len(view),
           OfOneFile(queries[s].request), NEW b \in 0..Len(wrote), Covers(s, b),
           view # <<>> => Cardinality(Above(queries[s].request, Oldest(view), b)) >= Len(view),
           NEW f \in files, f.name \in NamesAsked(queries[s].request), Clean(f),
           NEW i \in DOMAIN f.lines, Matches(f.lines[i], queries[s].request),
           f.lines[i] \in Known(b),
           view # <<>> => f.lines[i].ts < Oldest(view) /\ Oldest(view) \in Int
    PROVE  \/ f.lines[i] \in ToSet(Page(s))
           \/ Answer(queries[s]).more /\ f.lines[i].ts < Oldest(Page(s))
<1> DEFINE q == queries[s]
           n == Len(q.matched)
           sorted == NewestFirst(q.matched)
           e == f.lines[i]
           all == Page(s)
           more1 == Answer(q).more
<1>1. /\ n \in Nat /\ Len(view) \in Nat /\ Len(all) \in Nat
      /\ ~ (Answer(q).items = <<>>) => Len(all) \in 1..n /\ Oldest(all) = sorted[Len(all)].ts
      /\ \A k \in 1..n : k > Len(view) /\ k <= Len(all) => sorted[k] \in ToSet(all)
      /\ more1 => Answer(q).items # <<>>
      /\ \A k \in 1..n : k > Len(all) => more1
      /\ Room(q) <= 0 => more1
  BY PageIs, LenProperties
<1>2. /\ \A k \in 1..n : sorted[k] \in ToSet(q.matched) /\ sorted[k].ts \in Int
      /\ \A d \in ToSet(q.matched) : \E k \in 1..n : sorted[k] = d
      /\ \A j, k \in 1..n : j < k => sorted[j].ts > sorted[k].ts
  BY PlacesAre
<1>3. e.ts \in Int
  BY LineIsEntry
<1>4. e \in ToSet(q.matched) \/ (Room(q) <= 0 /\ AllNewer(s, e))
  <2>1. Path(f) \notin ToSet(q.todo)
    BY DEF ToSet
  <2> QED
    BY <2>1 DEF Covers
<1>5. CASE Room(q) <= 0 /\ AllNewer(s, e)
  <2>1. more1 /\ Len(all) \in 1..n /\ Oldest(all) = sorted[Len(all)].ts
    BY <1>1, <1>5
  <2>2. sorted[Len(all)] \in ToSet(q.matched) /\ sorted[Len(all)].ts \in Int
    BY <1>2, <2>1
  <2>3. sorted[Len(all)].ts > e.ts
    BY <1>5, <2>2 DEF AllNewer, ToSet
  <2> HIDE DEF sorted, all, e
  <2>4. e.ts < Oldest(all)
    BY <1>3, <2>1, <2>2, <2>3
  <2> QED
    BY <2>1, <2>4 DEF all, e
<1>6. CASE e \in ToSet(q.matched)
  <2>1. PICK k \in 1..n : sorted[k] = e
    BY <1>2, <1>6
  <2>2. k > Len(view)
    <3>1. CASE view = <<>>
      BY <3>1
    <3>2. CASE view # <<>>
      <4> DEFINE N == Above(q.request, Oldest(view), b)
                 place == [v \in N |-> CHOOSE j \in 1..n : sorted[j] = v]
      <4>1. \A v \in N : v \in ToSet(q.matched) /\ v.ts > e.ts
        BY <1>6, <3>2, NewerAreCollected
      <4>2. Cardinality(N) >= Len(view)
        BY <3>2
      <4> HIDE DEF N, q, n, sorted, e
      <4>3. \A v \in N : place[v] \in 1..n /\ sorted[place[v]] = v
        BY <1>2, <4>1
      <4> HIDE DEF place
      <4>4. ASSUME NEW v \in N
            PROVE  place[v] \in 1..k - 1
        <5>1. sorted[place[v]].ts > sorted[k].ts /\ place[v] \in 1..n
          BY <2>1, <4>1, <4>3
        <5>2. sorted[place[v]].ts \in Int /\ sorted[k].ts \in Int
          BY <1>2, <2>1, <5>1
        <5>3. k # place[v]
          BY <5>1, <5>2
        <5>4. k < place[v] => sorted[k].ts > sorted[place[v]].ts
          BY <1>2, <2>1, <5>1
        <5>5. ~ (k < place[v])
          BY <5>1, <5>2, <5>4
        <5> QED
          BY <1>1, <2>1, <5>1, <5>3, <5>5
      <4>5. place \in Injection(N, 1..k - 1)
        <5>1. place \in [N -> 1..k - 1]
          BY <4>4 DEF place
        <5>2. \A v, u \in N : place[v] = place[u] => v = u
          BY <4>3
        <5> QED
          BY <5>1, <5>2 DEF Injection, IsInjective
      <4>6. k - 1 \in Nat
        BY <2>1
      <4>7. IsFiniteSet(1..k - 1) /\ Cardinality(1..k - 1) = k - 1
        BY <4>6, FirstOnes
      <4>8. IsFiniteSet(N) /\ Cardinality(N) <= k - 1
        BY <4>5, <4>7, FS_Injection
      <4>9. Cardinality(N) \in Nat
        BY <4>8, FS_CardinalityType
      <4> QED
        BY <1>1, <2>1, <4>2, <4>6, <4>8, <4>9
    <3> QED
      BY <3>1, <3>2
  <2>3. CASE k <= Len(all)
    BY <1>1, <2>1, <2>2, <2>3
  <2>4. CASE ~ (k <= Len(all))
    <3>1. k > Len(all)
      BY <1>1, <2>1, <2>4
    <3>2. more1 /\ Len(all) \in 1..n /\ Oldest(all) = sorted[Len(all)].ts
      BY <1>1, <2>1, <3>1
    <3>3. sorted[Len(all)].ts > e.ts /\ sorted[Len(all)].ts \in Int
      BY <1>2, <2>1, <3>1, <3>2
    <3> HIDE DEF sorted, all, e
    <3>4. e.ts < Oldest(all)
      BY <1>3, <3>2, <3>3
    <3> QED
      BY <3>2, <3>4 DEF all, e
  <2> QED
    BY <2>3, <2>4
<1> QED
  BY <1>4, <1>5, <1>6

LEMMA AnswerKeepsPage ==
    ASSUME FilesInv, Complete, from \in 0..Len(wrote), NEW s \in Slots, QuerySound(s), QueryInv(s),
           view \in Seq(Entry), PageInv, ShowAnswer(s)
    PROVE  PageInv'
<1> DEFINE q == queries[s]
           all == Page(s)
<1>1. q \in Queried /\ q.request \in Requests /\ q.todo = <<>>
  BY DEF QuerySound, Queried, ShowAnswer, Answered
<1>2. Continues(s)
  BY DEF QueryInv
<1>3. q.offset = Len(view) /\ (q.fresh => view = <<>>)
  <2>1. Len(<<>>) = 0
    OBVIOUS
  <2> QED
    BY <1>2, <2>1 DEF Continues
<1>4. Answer(q).items \in Seq(Entry)
  BY AnswerIs
<1>5. /\ asked' = q.request /\ view' = all /\ more' = Answer(q).more
      /\ UNCHANGED <<files, wrote, applied, from>>
  <2>1. q.fresh => view \o Answer(q).items = Answer(q).items
    BY <1>3, <1>4, ConcatEmptySeq
  <2> QED
    BY <2>1 DEF ShowAnswer, Page, log
<1>6. asked' \in Requests /\ asked'.levels = applied'.levels
  BY <1>1, <1>2, <1>5 DEF Continues
<1>7. /\ more' => Answer(q).items # <<>>
      /\ Answer(q).items # <<>> => all # <<>>
      /\ Answer(q).items # <<>> => \E d \in ToSet(q.matched) : Oldest(all) = d.ts
      /\ ToSet(view) \subseteq ToSet(all)
  <2>1. /\ Answer(q).more => Answer(q).items # <<>>
        /\ Answer(q).items # <<>> => /\ all # <<>> /\ Len(all) \in 1..Len(q.matched)
                                     /\ Oldest(all) = NewestFirst(q.matched)[Len(all)].ts
        /\ ToSet(view) \subseteq ToSet(all)
    BY <1>3, PageIs
  <2>2. \A k \in 1..Len(q.matched) : NewestFirst(q.matched)[k] \in ToSet(q.matched)
    BY PlacesAre
  <2> HIDE DEF all, q
  <2> QED
    BY <1>5, <2>1, <2>2
<1>8. more' => view' # <<>> /\ (asked'.begin # None => Oldest(view)' >= asked'.begin)
  <2> SUFFICES ASSUME more'
               PROVE  all # <<>> /\ (q.request.begin # None => Oldest(all) >= q.request.begin)
    BY <1>5 DEF Oldest
  <2>1. \A d \in ToSet(q.matched) : Matches(d, q.request)
    BY PlacesAre
  <2> QED
    BY <1>7, <2>1 DEF Matches
<1>9. view' # <<>> => Cardinality(Above(asked, Oldest(view), Len(wrote))') >= Len(view')
  <2>1. all # <<>> => Cardinality(Above(q.request, Oldest(all), Len(wrote))) >= Len(all)
    BY <1>3, PageIsAbove
  <2>2. Above(asked, Oldest(view), Len(wrote))' = Above(q.request, Oldest(all), Len(wrote))
    BY <1>5 DEF Above, Known, Oldest, NamesAsked
  <2> QED
    BY <1>5, <2>1, <2>2
<1>10. PICK b \in from..Len(wrote) :
          /\ view # <<>> => Cardinality(Above(q.request, Oldest(view), b)) >= Len(view)
          /\ OfOneFile(q.request) /\ ~Overtaken => Covers(s, b)
  BY DEF QueryInv
<1>11. ASSUME OfOneFile(q.request), ~Overtaken, NEW f \in files, f.name \in NamesAsked(q.request),
              Clean(f), NEW i \in DOMAIN f.lines, Matches(f.lines[i], q.request)
       PROVE  \/ f.lines[i] \in ToSet(all) \/ f.lines[i] \in Later
              \/ Answer(q).more /\ f.lines[i].ts < Oldest(all)
  <2> DEFINE e == f.lines[i]
  <2>1. e.ts \in Int /\ e \in ToSet(wrote)
    BY LineIsEntry DEF FilesInv, LinesAreWritten
  <2>2. b \in 0..Len(wrote) /\ Len(wrote) \in Nat /\ DOMAIN wrote = 1..Len(wrote)
    BY LenProperties DEF FilesInv, TypeOK
  <2>3. e \in Later \/ e \in Known(b)
    <3>1. PICK k \in DOMAIN wrote : e = wrote[k]
      BY <2>1 DEF ToSet
    <3>2. CASE k \in 1..b
      BY <3>1, <3>2 DEF Known
    <3>3. CASE k \notin 1..b
      <4>1. k \in from + 1..Len(wrote)
        BY <2>2, <3>3
      <4> QED
        BY <3>1, <4>1 DEF Later
    <3> QED
      BY <3>2, <3>3
  <2>4. CASE e \in Later \/ e \in ToSet(view)
    BY <1>7, <2>4
  <2>5. CASE e \notin Later /\ e \notin ToSet(view)
    <3>1. ASSUME view # <<>>
          PROVE  e.ts < Oldest(view) /\ Oldest(view) \in Int
      <4>1. /\ asked # None /\ more /\ q.request.end = asked.end /\ q.request.trace = asked.trace
            /\ q.request.levels = asked.levels
        BY <1>2, <3>1 DEF Continues, PageInv
      <4>2. Oldest(view) \in Int
        <5>1. Len(view) \in Nat /\ Len(view) # 0 /\ view \in [1..Len(view) -> Entry]
          BY <3>1, LenProperties, EmptySeq
        <5>2. view[Len(view)] \in Entry
          BY <5>1
        <5> QED
          BY <5>2 DEF Oldest, Entry
      <4>3. OfOneFile(asked) /\ NamesAsked(asked) = NamesAsked(q.request)
        BY <1>11, <4>1 DEF OfOneFile, NamesAsked
      <4>4. CASE Matches(e, asked)
        <5>1. Shown(e)
          BY <1>11, <4>1, <4>3, <4>4 DEF PageInv
        <5> QED
          BY <2>5, <4>2, <5>1 DEF Shown
      <4>5. CASE ~Matches(e, asked)
        <5>1. asked.begin # None /\ ~ (e.ts >= asked.begin)
          BY <1>11, <4>1, <4>5 DEF Matches
        <5>2. asked.begin \in Int /\ Oldest(view) >= asked.begin
          BY <4>1, <5>1, LogAssumption DEF PageInv
        <5> HIDE DEF e
        <5> QED
          BY <2>1, <4>2, <5>1, <5>2
      <4> QED
        BY <4>4, <4>5
    <3>2. e \in Known(b) /\ Covers(s, b)
      BY <1>10, <1>11, <2>3, <2>5
    <3> QED
      BY <1>1, <1>3, <1>10, <1>11, <2>2, <3>1, <3>2, PageHasNext
  <2> QED
    BY <2>4, <2>5
<1>12. OfOneFile(asked)' /\ ~Overtaken' =>
         \A f \in files' : f.name \in NamesAsked(asked)' /\ Clean(f)' =>
             \A i \in DOMAIN f.lines : Matches(f.lines[i], asked)' => Shown(f.lines[i])'
  <2>1. /\ OfOneFile(asked)' <=> OfOneFile(q.request)
        /\ Overtaken' <=> Overtaken
        /\ NamesAsked(asked)' = NamesAsked(q.request)
        /\ \A f : Clean(f)' <=> Clean(f)
        /\ \A e : Matches(e, asked)' <=> Matches(e, q.request)
        /\ Later' = Later /\ Oldest(view)' = Oldest(all)
    BY <1>5 DEF OfOneFile, Overtaken, NamesAsked, Clean, Readable, Matches, Later, Oldest
  <2> HIDE DEF all, q
  <2> QED
    BY <1>5, <1>11, <2>1 DEF Shown
<1> QED
  BY <1>6, <1>8, <1>9, <1>12 DEF PageInv

\* A query that a step leaves alone, as it does the files and the list, stays as it is.
LEMMA SameKeepsQuery ==
    ASSUME NEW s \in Slots, QueryInv(s), queries'[s] = queries[s],
           UNCHANGED <<files, wrote, page, from>>
    PROVE  QueryInv(s)'
<1>1. Continues(s)' /\ InTurn(s)'
  BY DEF QueryInv, Continues, InTurn, page
<1>2. /\ Len(wrote)' = Len(wrote) /\ Overtaken' = Overtaken /\ from' = from
      /\ Oldest(view)' = Oldest(view) /\ Len(view)' = Len(view)
  BY DEF Overtaken, Oldest, page
<1>3. \A b : /\ Covers(s, b)' = Covers(s, b)
             /\ Above(queries[s].request, Oldest(view), b)'
                    = Above(queries[s].request, Oldest(view), b)
  BY DEF Covers, Above, Known, AllNewer, Clean, Readable, Room, Need, Oldest, NamesAsked, Path,
         Matches, page
<1> QED
  BY <1>1, <1>2, <1>3 DEF QueryInv, OfOneFile, page

LEMMA SameKeepsPage ==
    ASSUME PageInv, UNCHANGED <<files, wrote, page, from>>
    PROVE  PageInv'
  BY DEF PageInv, page, Above, Known, Clean, Readable, Shown, Later, Overtaken, OfOneFile,
         NamesAsked, Matches, Oldest

LEMMA ListInit == Init => Complete /\ ListInv
<1> SUFFICES ASSUME Init
             PROVE  Complete /\ ListInv
  OBVIOUS
<1>1. Len(wrote) = 0
  BY DEF Init
<1> QED
  BY <1>1 DEF Init, Complete, ListInv

LEMMA WriteKeepsList ==
    ASSUME FilesInv, FilesInv', QueriesInv, ListInv, NEW e \in pending, Write(e)
    PROVE  ListInv'
<1>1. from \in 0..Len(wrote) /\ UNCHANGED <<page, queries, from>>
  BY DEF ListInv, Write
<1>2. from' \in 0..Len(wrote')
  <2>1. Len(wrote) \in Nat /\ Len(wrote') = Len(wrote) + 1
    BY KnownStays
  <2> QED
    BY <1>1, <2>1
<1>3. more' => asked' # None
  BY <1>1 DEF ListInv, page
<1>4. ASSUME steady'
      PROVE  /\ \A s, t \in Slots : queries'[s] # None /\ queries'[t] # None => s = t
             /\ PageInv'
             /\ \A s \in Slots : queries'[s] # None => QueryInv(s)'
  <2>1. steady /\ (Extend(e) \/ Quiet)
    BY <1>4 DEF Write
  <2>2. PageInv'
    BY <1>1, <2>1, WriteKeepsPage DEF ListInv, QueriesInv
  <2>3. ASSUME NEW s \in Slots, queries'[s] # None
        PROVE  QueryInv(s)'
    <3>1. Extend(e) /\ QueryInv(s)
      BY <1>1, <2>1, <2>3 DEF Quiet, ListInv
    <3> QED
      BY <1>1, <3>1, WriteKeepsQuery
  <2> QED
    BY <1>1, <2>1, <2>2, <2>3 DEF ListInv
<1> QED
  BY <1>2, <1>3, <1>4 DEF ListInv

LEMMA PruneKeepsList ==
    ASSUME FilesInv, ListInv, Prune
    PROVE  ListInv'
<1>1. UNCHANGED <<wrote, page, queries, from>> /\ (steady' => steady /\ Quiet)
  BY DEF Prune
<1>2. steady' => PageInv'
  BY <1>1, PruneKeepsPage DEF ListInv
<1> QED
  BY <1>1, <1>2 DEF ListInv, Quiet, page

LEMMA RefreshKeepsList ==
    ASSUME FilesInv, QueriesInv, ListInv, NEW s \in Slots, NEW r \in Requests, Refresh(s, r)
    PROVE  ListInv'
<1>1. /\ queries' = [queries EXCEPT ![s] = Query(r, 0, TRUE)]
      /\ applied' = r /\ asked' = None /\ view' = <<>> /\ more' = FALSE
      /\ from' = Len(wrote) /\ (steady' => Quiet) /\ UNCHANGED <<files, wrote>>
  BY DEF Refresh, log
<1>2. DOMAIN queries = Slots /\ from' \in 0..Len(wrote')
  BY <1>1, LenProperties DEF QueriesInv, FilesInv, TypeOK
<1>3. queries'[s] = Query(r, 0, TRUE) /\ \A t \in Slots \ {s} : queries'[t] = queries[t]
  BY <1>1, <1>2
<1>4. Continues(s)'
  BY <1>1, <1>3 DEF Continues, Query
<1>5. QueryInv(s)'
  BY <1>1, <1>2, <1>3, <1>4, StartKeepsQuery
<1>6. ASSUME steady'
      PROVE  /\ \A t, u \in Slots : queries'[t] # None /\ queries'[u] # None => t = u
             /\ \A t \in Slots : queries'[t] # None => QueryInv(t)'
  <2>1. \A t \in Slots : queries'[t] # None => t = s
    BY <1>1, <1>3, <1>6 DEF Quiet
  <2> QED
    BY <1>5, <2>1
<1>7. PageInv'
  BY <1>1 DEF PageInv
<1> QED
  BY <1>1, <1>2, <1>6, <1>7 DEF ListInv

LEMMA LoadMoreKeepsList ==
    ASSUME FilesInv, QueriesInv, ListInv, NEW s \in Slots, NEW r \in Requests, LoadMore(s, r)
    PROVE  ListInv'
<1>1. /\ queries' = [queries EXCEPT ![s] = Query(r, Len(view), FALSE)]
      /\ more /\ r.levels = applied.levels
      /\ UNCHANGED <<files, wrote, page, from>>
      /\ steady' => steady /\ Quiet /\ r.trace = asked.trace /\ r.end = asked.end
  BY DEF LoadMore, log
<1>2. DOMAIN queries = Slots /\ from' \in 0..Len(wrote') /\ Len(view) \in Nat
  BY <1>1, LenProperties DEF QueriesInv, ListInv
<1>3. queries'[s] = Query(r, Len(view), FALSE) /\ \A t \in Slots \ {s} : queries'[t] = queries[t]
  BY <1>1, <1>2
<1>4. ASSUME steady'
      PROVE  /\ \A t, u \in Slots : queries'[t] # None /\ queries'[u] # None => t = u
             /\ PageInv'
             /\ \A t \in Slots : queries'[t] # None => QueryInv(t)'
  <2>1. /\ steady /\ Quiet /\ PageInv /\ asked # None
        /\ r.trace = asked.trace /\ r.end = asked.end /\ asked.levels = applied.levels
        /\ view # <<>> => Cardinality(Above(asked, Oldest(view), Len(wrote))) >= Len(view)
    BY <1>1, <1>4 DEF ListInv, PageInv
  <2>2. \A t \in Slots : queries'[t] # None => t = s
    BY <1>3, <2>1 DEF Quiet
  <2>3. Continues(s)'
    BY <1>1, <1>3, <2>1 DEF Continues, Query, page
  <2>4. Above(r, Oldest(view), Len(wrote)) = Above(asked, Oldest(view), Len(wrote))
    BY <1>1, <2>1 DEF Above, NamesAsked
  <2>5. view' # <<>> => Cardinality(Above(r, Oldest(view'), Len(wrote))) >= Len(view')
    BY <1>1, <2>1, <2>4 DEF page
  <2>6. QueryInv(s)'
    BY <1>1, <1>2, <1>3, <2>3, <2>5, StartKeepsQuery
  <2>7. PageInv'
    BY <1>1, <2>1, SameKeepsPage
  <2> QED
    BY <2>2, <2>6, <2>7
<1> QED
  BY <1>1, <1>2, <1>4 DEF ListInv, page

LEMMA ReadKeepsList ==
    ASSUME FilesInv, QueriesInv, ListInv, NEW s \in Slots, ReadFile(s) \/ SkipFile(s)
    PROVE  ListInv'
<1>1. queries[s] # None /\ \E entries : Collects(s, entries)
  BY DEF ReadFile, SkipFile, Reads
<1>2. /\ UNCHANGED <<files, wrote, page, from, steady>> /\ DOMAIN queries = Slots
      /\ \A t \in Slots \ {s} : queries'[t] = queries[t]
  BY <1>1 DEF Collects, log, QueriesInv
<1>3. ASSUME steady
      PROVE  /\ \A t, u \in Slots : queries'[t] # None /\ queries'[u] # None => t = u
             /\ PageInv'
             /\ \A t \in Slots : queries'[t] # None => QueryInv(t)'
  <2>1. QueryInv(s) /\ QuerySound(s) /\ from \in 0..Len(wrote) /\ PageInv
    BY <1>1, <1>3 DEF ListInv, QueriesInv
  <2>2. QueryInv(s)'
    BY <1>2, <2>1, ReadKeepsQuery, SkipKeepsQuery
  <2>3. \A t \in Slots : queries'[t] # None => t = s
    BY <1>1, <1>2, <1>3 DEF ListInv
  <2>4. PageInv'
    BY <1>2, <2>1, SameKeepsPage
  <2> QED
    BY <2>2, <2>3, <2>4
<1> QED
  BY <1>2, <1>3 DEF ListInv, page

LEMMA AnswerKeepsList ==
    ASSUME FilesInv, Complete, QueriesInv, ListInv, NEW s \in Slots, ShowAnswer(s)
    PROVE  ListInv'
<1>1. /\ queries[s] # None /\ asked' = queries[s].request
      /\ UNCHANGED <<wrote, from, steady>> /\ DOMAIN queries = Slots
      /\ queries' = [queries EXCEPT ![s] = None]
  BY DEF ShowAnswer, Answered, log, QueriesInv
<1>2. asked' # None
  BY <1>1, LogAssumption DEF QueriesInv, QuerySound, Queried
<1>3. queries'[s] = None /\ \A t \in Slots \ {s} : queries'[t] = queries[t]
  BY <1>1
<1>4. ASSUME steady
      PROVE  PageInv' /\ \A t \in Slots : queries'[t] = None
  <2>1. /\ QueryInv(s) /\ QuerySound(s) /\ from \in 0..Len(wrote) /\ PageInv
        /\ view \in Seq(Entry)
    BY <1>1, <1>4 DEF ListInv, QueriesInv
  <2>2. PageInv'
    BY <2>1, AnswerKeepsPage
  <2>3. \A t \in Slots \ {s} : queries[t] = None
    BY <1>1, <1>4 DEF ListInv
  <2> QED
    BY <1>3, <2>2, <2>3
<1> QED
  BY <1>1, <1>2, <1>4 DEF ListInv

LEMMA FailureKeepsList ==
    ASSUME QueriesInv, ListInv, NEW s \in Slots, QueryFails(s)
    PROVE  ListInv'
<1>1. /\ UNCHANGED <<files, wrote, page, from, steady>>
      /\ \A t \in Slots : queries'[t] # None => queries'[t] = queries[t]
  BY DEF QueryFails, log, QueriesInv
<1>2. steady => PageInv'
  BY <1>1, SameKeepsPage DEF ListInv
<1>3. ASSUME steady, NEW t \in Slots, queries'[t] # None
      PROVE  QueryInv(t)'
  <2>1. queries'[t] = queries[t] /\ QueryInv(t)
    BY <1>1, <1>3 DEF ListInv
  <2> QED
    BY <1>1, <2>1, SameKeepsQuery
<1>4. steady => \A t, u \in Slots : queries'[t] # None /\ queries'[u] # None => t = u
  BY <1>1 DEF ListInv
<1> QED
  BY <1>1, <1>2, <1>3, <1>4 DEF ListInv, page

LEMMA ListNext ==
    ASSUME FilesInv, FilesInv', QueriesInv, Complete, ListInv, [Next]_vars
    PROVE  ListInv'
<1>1. CASE SetLevel \/ Stamp \/ UNCHANGED vars
  <2>1. UNCHANGED <<files, wrote, page, queries, from, steady>>
    BY <1>1 DEF SetLevel, Stamp, vars, log
  <2>2. steady => PageInv' /\ \A s \in Slots : queries[s] # None => QueryInv(s)'
    BY <2>1, SameKeepsPage, SameKeepsQuery DEF ListInv
  <2> QED
    BY <2>1, <2>2 DEF ListInv, page
<1>2. ASSUME NEW e \in pending, Write(e)
      PROVE  ListInv'
  BY <1>2, WriteKeepsList
<1>3. CASE Prune
  BY <1>3, PruneKeepsList
<1>4. ASSUME NEW s \in Slots, NEW r \in Requests, Refresh(s, r) \/ LoadMore(s, r)
      PROVE  ListInv'
  BY <1>4, RefreshKeepsList, LoadMoreKeepsList
<1>5. ASSUME NEW s \in Slots, ReadFile(s) \/ SkipFile(s) \/ ShowAnswer(s) \/ QueryFails(s)
      PROVE  ListInv'
  BY <1>5, ReadKeepsList, AnswerKeepsList, FailureKeepsList
<1> QED
  BY <1>1, <1>2, <1>3, <1>4, <1>5 DEF Next

LEMMA NoGapFromList ==
    ASSUME FilesInv, ListInv
    PROVE  OneLevelHasNoGap
<1> SUFFICES ASSUME steady, asked # None, OfOneFile(asked), ~Overtaken,
                    \A f \in files : Readable(f), NEW e \in Wanted(asked)
             PROVE  \/ e \in ToSet(view) \/ e \in Later
                    \/ more /\ (view = <<>> \/ e.ts < Oldest(view))
  BY DEF OneLevelHasNoGap
<1>1. PICK f \in files : /\ f.name \in NamesAsked(asked)
                         /\ \E i \in 1..Len(f.lines) : Matches(f.lines[i], asked) /\ e = f.lines[i]
  BY DEF Wanted
<1>2. PICK i \in 1..Len(f.lines) : Matches(f.lines[i], asked) /\ e = f.lines[i]
  BY <1>1
<1>3. i \in DOMAIN f.lines
  <2>1. f.lines \in Seq(Entry)
    BY DEF FilesInv, TypeOK, File
  <2> QED
    BY <2>1, LenProperties
<1>4. Clean(f)
  BY DEF Clean
<1>5. Shown(f.lines[i])
  BY <1>1, <1>2, <1>3, <1>4 DEF ListInv, PageInv
<1> QED
  BY <1>2, <1>5 DEF Shown

\* As long as no file is put aside or removed while a query is under way, one query is answered
\* before the next is made, the trace id and the end of the range stay as they were, the entries
\* of a level are written in the order of their times and the files can be read: when the log
\* page shows one level, no entry of it that is on disk is missing above the end of the list,
\* whatever is logged, rotated and removed between its queries and however the begin of its
\* range moves, but what was written since the list was refreshed.
THEOREM PagesLeaveNoGap == Spec => []OneLevelHasNoGap
<1>1. Init => FilesInv /\ QueriesInv /\ Complete /\ ListInv
  BY FilesInit, QueriesInit, ListInit
<1>2. FilesInv /\ QueriesInv /\ Complete /\ ListInv /\ [Next]_vars
        => FilesInv' /\ QueriesInv' /\ Complete' /\ ListInv'
  BY FilesNext, QueriesNext, CompleteNext, ListNext
<1>3. FilesInv /\ ListInv => OneLevelHasNoGap
  BY NoGapFromList
<1> QED
  BY <1>1, <1>2, <1>3, PTL DEF Spec

=============================================================================
