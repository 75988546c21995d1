---------------------- MODULE ImageDescriptionsProofs ----------------------
(***************************************************************************)
(* Proofs about ImageDescriptions, for every session, set of images and    *)
(* number of prompts under construction, as long as the cache and the      *)
(* table of failures are not full: no key is tried again during the        *)
(* cooldown of its failure, nor once there is a description for it.        *)
(***************************************************************************)
EXTENDS ImageDescriptions, FiniteSetTheorems, WellFoundedInduction, TLAPS

\* There are fewer keys than the cache and the table of failures hold: at their limit the
\* code no longer records.
RoomForAll == IsFiniteSet(Keys) /\ Cardinality(Keys) < CacheCap

-----------------------------------------------------------------------------
(* Places and keys. *)

\* A place is a pair of numbers, and there is an image at it.
LEMMA PlacesType ==
    ASSUME NEW p \in Places
    PROVE  /\ p[1] \in Nat /\ p[2] \in Nat /\ p = <<p[1], p[2]>>
           /\ MessageAt(p) \in Messages
           /\ Image(p) \in ToSet(ImagesOf[MessageAt(p)])
<1>1. PICK i \in DOMAIN Session : p \in {<<i, j>> : j \in DOMAIN ImagesOf[Session[i]]}
  BY DEF Places
<1>2. PICK j \in DOMAIN ImagesOf[Session[i]] : p = <<i, j>>
  BY <1>1
<1>3. Session[i] \in Messages
  BY DEF Messages, ToSet
<1>4. i \in Nat /\ j \in Nat
  <2>1. Session \in Seq(Messages) /\ ImagesOf[Session[i]] \in Seq(ToSet(ImagesOf[Session[i]]))
    BY <1>3, ImagesAssumption
  <2>2. DOMAIN Session = 1..Len(Session) /\ Len(Session) \in Nat
    BY <2>1
  <2>3. /\ DOMAIN ImagesOf[Session[i]] = 1..Len(ImagesOf[Session[i]])
        /\ Len(ImagesOf[Session[i]]) \in Nat
    BY <2>1
  <2> QED
    BY <2>2, <2>3
<1>5. ImagesOf[Session[i]][j] \in ToSet(ImagesOf[Session[i]])
  BY DEF ToSet
<1> QED
  BY <1>2, <1>3, <1>4, <1>5 DEF MessageAt, Image

\* A set of naturals that is not empty has a least element.
LEMMA LeastExists ==
    ASSUME NEW S, S \subseteq Nat, S # {}
    PROVE  \E n \in S : \A k \in S : n <= k
<1>1. PICK n \in S : \A k \in S : ~ (<<k, n>> \in OpToRel(<, Nat))
  BY NatLessThanWellFounded, WFMin
<1>2. \A k \in S : k \in Nat /\ n \in Nat /\ ~ (k < n)
  BY <1>1 DEF OpToRel
<1> QED
  BY <1>2

\* The first of some places is one of them.
LEMMA FirstIsOne ==
    ASSUME NEW places, places \subseteq Places, places # {}
    PROVE  First(places) \in places
<1> DEFINE numbers == {p[1] : p \in places}
<1>1. numbers \subseteq Nat /\ numbers # {}
  BY PlacesType
<1>2. PICK i \in numbers : \A k \in numbers : i <= k
  <2> HIDE DEF numbers
  <2> QED
    BY <1>1, LeastExists
<1> DEFINE own == {p[2] : p \in {q \in places : q[1] = i}}
<1>3. own \subseteq Nat /\ own # {}
  BY <1>2, PlacesType
<1>4. PICK j \in own : \A k \in own : j <= k
  <2> HIDE DEF own
  <2> QED
    BY <1>3, LeastExists
<1>5. PICK p \in places : p[1] = i /\ p[2] = j
  BY <1>4
<1>6. ASSUME NEW q \in places
      PROVE  p[1] < q[1] \/ (p[1] = q[1] /\ p[2] <= q[2])
  <2>1. q[1] \in Nat /\ p[1] \in Nat
    BY PlacesType
  <2>2. p[1] <= q[1]
    BY <1>2, <1>5
  <2>3. q[1] = p[1] => p[2] <= q[2]
    <3> SUFFICES ASSUME q[1] = p[1]
                 PROVE  p[2] <= q[2]
      OBVIOUS
    <3>1. q[2] \in own
      BY <1>5
    <3> HIDE DEF own
    <3> QED
      BY <1>4, <1>5, <3>1
  <2> QED
    BY <2>1, <2>2, <2>3
<1>7. \E f \in places : \A q \in places : f[1] < q[1] \/ (f[1] = q[1] /\ f[2] <= q[2])
  BY <1>6
<1> QED
  BY <1>7 DEF First

\* The keys an image is looked up under.
KeysOf(img) == {KeyOf(img), Digest(img.content)}

LEMMA KeysOfPlace ==
    ASSUME NEW p \in Places
    PROVE  KeysOf(Image(p)) \subseteq Keys
<1> DEFINE img == Image(p)
           images == UNION {ToSet(ImagesOf[m]) : m \in Messages}
<1>1. MessageAt(p) \in Messages /\ img \in ToSet(ImagesOf[MessageAt(p)])
  BY PlacesType
<1>2. img \in images
  BY <1>1
<1> HIDE DEF img
<1>4. KeysOf(img) \subseteq Keys
  BY <1>2 DEF KeysOf, Keys
<1> QED
  BY <1>4 DEF img

-----------------------------------------------------------------------------
(* The invariant. *)

ImageTypes ==
    /\ now \in Nat
    /\ cache \subseteq Keys
    /\ fails \in [Keys -> Nat]
    /\ pc \in [Callers -> Steps]
    /\ todo \in [Callers -> SUBSET Places]
    /\ DOMAIN key = Callers

\* Every failure is recorded for the whole of its cooldown.
AllRecorded == fails = due

\* What was described is in the cache.
ToldIsCached == told \subseteq cache

\* The key a caller works with is one of the image it looks at.
KeyFits ==
    \A c \in Callers : pc[c] \in {"lookup", "fetch", "ask"} =>
        todo[c] # {} /\ key[c] \in KeysOf(Image(Place(c)))

ImagesInv == ImageTypes /\ AllRecorded /\ ToldIsCached /\ KeyFits

LEMMA ImagesInit == Init => ImagesInv
BY DEF Init, ImagesInv, ImageTypes, AllRecorded, ToldIsCached, KeyFits, Steps

\* A caller that looks at an image looks at one of the session, under a key of it.
LEMMA CallerLooks ==
    ASSUME ImagesInv, NEW c \in Callers, pc[c] \in {"lookup", "fetch", "ask"}
    PROVE  /\ Place(c) \in todo[c] /\ Place(c) \in Places
           /\ key[c] \in Keys
<1>1. todo[c] \subseteq Places /\ todo[c] # {} /\ key[c] \in KeysOf(Image(Place(c)))
  BY DEF ImagesInv, ImageTypes, KeyFits
<1>2. Place(c) \in todo[c]
  BY <1>1, FirstIsOne DEF Place
<1> QED
  BY <1>1, <1>2, KeysOfPlace

\* While there is room for every key, a failure and a description are recorded.
LEMMA Recorded ==
    ASSUME RoomForAll, ImagesInv, NEW k \in Keys
    PROVE  /\ Marked(k) = [fails EXCEPT ![k] = now + RetryAfter]
           /\ Cached(k) = cache \cup {k}
<1>1. CacheCap \in Nat /\ Cardinality(Keys) \in Nat
  BY ImagesAssumption, FS_CardinalityType DEF RoomForAll
<1>2. ASSUME NEW S, S \subseteq Keys
      PROVE  Cardinality(S) < CacheCap /\ Cardinality(S) \in Nat
  <2>1. Cardinality(S) <= Cardinality(Keys) /\ Cardinality(S) \in Nat
    BY <1>2, FS_Subset, FS_CardinalityType DEF RoomForAll
  <2> QED
    BY <1>1, <2>1 DEF RoomForAll
<1>3. Cardinality({x \in Keys : fails[x] # 0}) < CacheCap
      /\ Cardinality({x \in Keys : fails[x] # 0}) \in Nat
  <2> DEFINE S == {x \in Keys : fails[x] # 0}
  <2>1. S \subseteq Keys
    OBVIOUS
  <2> HIDE DEF S
  <2>2. Cardinality(S) < CacheCap /\ Cardinality(S) \in Nat
    BY <1>2, <2>1
  <2> QED
    BY <2>2 DEF S
<1>4. ~ (Cardinality({x \in Keys : fails[x] # 0}) >= CacheCap)
  BY <1>1, <1>3
<1>5. Cardinality(cache) < CacheCap
  BY <1>2 DEF ImagesInv, ImageTypes
<1> QED
  BY <1>4, <1>5 DEF Marked, Cached

\* Going on with the next image leaves the caller with a key of it.
LEMMA NextImageFits ==
    ASSUME ImagesInv, NEW c \in Callers, NEW n, NextImage(c, n)
    PROVE  /\ pc' \in [Callers -> Steps] /\ pc'[c] \in {"idle", "lookup"}
           /\ todo' \in [Callers -> SUBSET Places]
           /\ DOMAIN key' = Callers
           /\ KeyFits'
<1> DEFINE rest == IF n >= PerTurnCap THEN {p \in todo[c] : p[1] # Place(c)[1]}
                   ELSE todo[c] \ {Place(c)}
<1>1. /\ pc \in [Callers -> Steps] /\ todo \in [Callers -> SUBSET Places]
      /\ DOMAIN key = Callers /\ KeyFits
  BY DEF ImagesInv, ImageTypes
<1>2. todo' = [todo EXCEPT ![c] = rest]
  BY DEF NextImage
<1>3. rest \subseteq Places
  BY <1>1
<1>4. CASE rest = {}
  <2>1. pc' = [pc EXCEPT ![c] = "idle"] /\ key' = [key EXCEPT ![c] = NoKey]
    BY <1>4 DEF NextImage, Goto
  <2>2. \A d \in Callers : d # c => pc'[d] = pc[d] /\ todo'[d] = todo[d] /\ key'[d] = key[d]
    BY <1>1, <1>2, <2>1
  <2>3. KeyFits'
    BY <1>1, <2>1, <2>2 DEF KeyFits, Place
  <2> HIDE DEF rest
  <2> QED
    BY <1>1, <1>2, <1>3, <2>1, <2>3 DEF Steps
<1>5. CASE rest # {}
  <2>1. /\ pc' = [pc EXCEPT ![c] = "lookup"]
        /\ key' = [key EXCEPT ![c] = KeyOf(Image(First(rest)))]
    BY <1>5 DEF NextImage, Goto
  <2> HIDE DEF rest
  <2>2. \A d \in Callers : d # c => pc'[d] = pc[d] /\ todo'[d] = todo[d] /\ key'[d] = key[d]
    BY <1>1, <1>2, <2>1
  <2>3. todo'[c] # {} /\ key'[c] \in KeysOf(Image(First(todo'[c])))
    BY <1>1, <1>2, <1>5, <2>1 DEF KeysOf
  <2>4. KeyFits'
    BY <1>1, <2>2, <2>3 DEF KeyFits, Place
  <2> QED
    BY <1>1, <1>2, <1>3, <2>1, <2>4 DEF Steps
<1> QED
  BY <1>4, <1>5

LEMMA ImagesNext ==
    ASSUME RoomForAll, ImagesInv, [Next]_vars
    PROVE  ImagesInv'
<1>0. /\ ImageTypes /\ AllRecorded /\ ToldIsCached /\ KeyFits
      /\ RetryAfter \in Nat
  BY ImagesAssumption DEF ImagesInv
<1>1. ASSUME NEW c \in Callers, Assemble(c)
      PROVE  ImagesInv'
  <2>1. PICK places : /\ places \subseteq Places /\ places # {}
                      /\ todo' = [todo EXCEPT ![c] = places]
                      /\ key' = [key EXCEPT ![c] = KeyOf(Image(First(places)))]
    BY <1>1 DEF Assemble, Undescribed
  <2>2. pc' = [pc EXCEPT ![c] = "lookup"] /\ UNCHANGED <<now, memo>>
    BY <1>1 DEF Assemble, Goto
  <2>3. ImageTypes'
    BY <1>0, <2>1, <2>2 DEF ImageTypes, memo, Steps
  <2>4. KeyFits'
    <3>1. \A d \in Callers : d # c => pc'[d] = pc[d] /\ todo'[d] = todo[d] /\ key'[d] = key[d]
      BY <1>0, <2>1, <2>2 DEF ImageTypes
    <3>2. todo'[c] # {} /\ key'[c] \in KeysOf(Image(First(todo'[c])))
      BY <1>0, <2>1 DEF ImageTypes, KeysOf
    <3> QED
      BY <1>0, <3>1, <3>2 DEF KeyFits, Place
  <2> QED
    BY <1>0, <2>2, <2>3, <2>4 DEF ImagesInv, AllRecorded, ToldIsCached, memo
\* Steps that go on to the next image and leave the memory of the describer.
<1>2. ASSUME NEW c \in Callers, NEW n, NextImage(c, n), UNCHANGED <<now, memo>>
      PROVE  ImagesInv'
  <2>1. /\ pc' \in [Callers -> Steps] /\ todo' \in [Callers -> SUBSET Places]
        /\ DOMAIN key' = Callers /\ KeyFits'
    BY <1>2, NextImageFits
  <2> QED
    BY <1>0, <1>2, <2>1 DEF ImagesInv, ImageTypes, AllRecorded, ToldIsCached, memo
\* Steps that leave the image and the memory of the describer.
<1>3. ASSUME NEW c \in Callers, NEW step \in Steps, Goto(c, step), UNCHANGED <<now, memo, todo, key>>,
             step \in {"fetch", "ask"} => pc[c] \in {"lookup", "fetch", "ask"},
             step # "lookup"
      PROVE  ImagesInv'
  <2>1. pc' = [pc EXCEPT ![c] = step]
    BY <1>3 DEF Goto
  <2>2. KeyFits'
    BY <1>0, <1>3, <2>1 DEF ImageTypes, KeyFits, Place
  <2> QED
    BY <1>0, <1>3, <2>1, <2>2 DEF ImagesInv, ImageTypes, AllRecorded, ToldIsCached, memo
<1>4. ASSUME NEW c \in Callers, Hit(c) \/ AnswerEmpty(c)
      PROVE  ImagesInv'
  <2>1. Goto(c, "persist") /\ UNCHANGED <<now, memo, todo, key>>
    BY <1>4 DEF Hit, AnswerEmpty, Described
  <2> QED
    BY <1>3, <2>1 DEF Steps
<1>5. ASSUME NEW c \in Callers, Skip(c)
      PROVE  ImagesInv'
  BY <1>2, <1>5 DEF Skip
<1>6. ASSUME NEW c \in Callers, Miss(c)
      PROVE  ImagesInv'
  <2>1. PICK step \in {"fetch", "ask"} : Goto(c, step)
    BY <1>6 DEF Miss
  <2>2. pc[c] = "lookup" /\ UNCHANGED <<now, memo, todo, key>>
    BY <1>6 DEF Miss
  <2> QED
    BY <1>3, <2>1, <2>2 DEF Steps
<1>7. ASSUME NEW c \in Callers, Fetch(c)
      PROVE  ImagesInv'
  <2>1. pc[c] = "fetch" /\ UNCHANGED <<now, memo, todo>>
    BY <1>7 DEF Fetch
  <2>2. CASE Goto(c, "ask") /\ UNCHANGED key
    BY <1>3, <2>1, <2>2 DEF Steps
  <2>3. CASE /\ Goto(c, "lookup")
             /\ key' = [key EXCEPT ![c] = Digest(Image(Place(c)).content)]
    <3>1. pc' = [pc EXCEPT ![c] = "lookup"]
      BY <2>3 DEF Goto
    <3>2. KeyFits'
      BY <1>0, <2>1, <2>3, <3>1 DEF ImageTypes, KeyFits, KeysOf, Place
    <3> QED
      BY <1>0, <2>1, <2>3, <3>1, <3>2
      DEF ImagesInv, ImageTypes, AllRecorded, ToldIsCached, memo, Steps
  <2>4. PICK hash \in {Digest(Image(Place(c)).content), NoKey} :
          IF hash = NoKey THEN Goto(c, "ask") /\ UNCHANGED key
          ELSE Goto(c, "lookup") /\ key' = [key EXCEPT ![c] = hash]
    BY <1>7 DEF Fetch, Loaded
  <2> QED
    BY <2>2, <2>3, <2>4
<1>8. ASSUME NEW c \in Callers, Answer(c)
      PROVE  ImagesInv'
  <2>1. /\ pc[c] = "ask" /\ cache' = Cached(key[c])
        /\ told' = told \cup {key[c]}
        /\ pc' = [pc EXCEPT ![c] = "persist"]
        /\ UNCHANGED <<now, fails, due, todo, key>>
    BY <1>8 DEF Answer, StoredUnder, Described, Goto
  <2>2. key[c] \in Keys
    BY <2>1, CallerLooks
  <2>3. cache' = cache \cup {key[c]}
    BY <2>1, <2>2, Recorded
  <2>4. ToldIsCached'
    BY <1>0, <2>1, <2>2, <2>3 DEF ToldIsCached
  <2>5. KeyFits'
    BY <1>0, <2>1 DEF ImageTypes, KeyFits, Place
  <2>6. ImageTypes'
    BY <1>0, <2>1, <2>2, <2>3 DEF ImageTypes, Steps
  <2> QED
    BY <1>0, <2>1, <2>4, <2>5, <2>6 DEF ImagesInv, AllRecorded
<1>9. ASSUME NEW c \in Callers, Fail(c)
      PROVE  ImagesInv'
  <2>1. /\ pc[c] = "ask" /\ fails' = Marked(key[c])
        /\ due' = [due EXCEPT ![key[c]] = now + RetryAfter]
        /\ NextImage(c, count[c])
        /\ UNCHANGED <<now, cache, told>>
    BY <1>9 DEF Fail
  <2>2. key[c] \in Keys
    BY <2>1, CallerLooks
  <2>3. fails' = [fails EXCEPT ![key[c]] = now + RetryAfter]
    BY <2>1, <2>2, Recorded
  <2>4. AllRecorded'
    BY <1>0, <2>1, <2>3 DEF AllRecorded
  <2>5. fails' \in [Keys -> Nat]
    <3>1. now + RetryAfter \in Nat
      BY <1>0 DEF ImageTypes
    <3> HIDE DEF Keys
    <3> QED
      BY <1>0, <2>3, <3>1 DEF ImageTypes
  <2>6. /\ pc' \in [Callers -> Steps] /\ todo' \in [Callers -> SUBSET Places]
        /\ DOMAIN key' = Callers /\ KeyFits'
    BY <2>1, NextImageFits
  <2> QED
    BY <1>0, <2>1, <2>4, <2>5, <2>6 DEF ImagesInv, ImageTypes, ToldIsCached
<1>10. ASSUME NEW c \in Callers, Persist(c)
       PROVE  ImagesInv'
  <2>1. UNCHANGED <<now, memo>>
    BY <1>10 DEF Persist
  <2>2. CASE Goto(c, "backfill") /\ UNCHANGED <<todo, key>>
    BY <1>3, <2>1, <2>2 DEF Steps
  <2>3. CASE NextImage(c, count[c] + 1)
    BY <1>2, <2>1, <2>3
  <2> QED
    BY <1>10, <2>2, <2>3 DEF Persist
<1>11. ASSUME NEW c \in Callers, Backfill(c)
       PROVE  ImagesInv'
  BY <1>2, <1>11 DEF Backfill
<1>12. CASE Tick
  <2>1. now' \in Nat /\ UNCHANGED <<cache, fails, told, due, pc, todo, key>>
    BY <1>0, <1>12 DEF Tick, ImageTypes, memo, locals
  <2> QED
    BY <1>0, <2>1 DEF ImagesInv, ImageTypes, AllRecorded, ToldIsCached, KeyFits, Place
<1>13. CASE Trim \/ UNCHANGED vars
  <2>1. UNCHANGED <<now, cache, fails, told, due, pc, todo, key>>
    BY <1>13 DEF Trim, vars, memo, locals
  <2> QED
    BY <1>0, <2>1 DEF ImagesInv, ImageTypes, AllRecorded, ToldIsCached, KeyFits, Place
<1> QED
  BY <1>1, <1>4, <1>5, <1>6, <1>7, <1>8, <1>9, <1>10, <1>11, <1>12, <1>13 DEF Next, Call

\* A caller is at a download or at the model only with the key it was there with before, or
\* comes from a look at the cache that holds no description and does not hold it back.
LEMMA OnlyMisses ==
    ASSUME ImagesInv, [Next]_vars, NEW c \in Callers, pc'[c] \in {"fetch", "ask"}
    PROVE  /\ pc[c] \in {"lookup", "fetch", "ask"} /\ key'[c] = key[c]
           /\ pc[c] = "lookup" => key[c] \notin cache /\ ~Cooled(key[c])
<1>0. pc \in [Callers -> Steps] /\ DOMAIN key = Callers
  BY DEF ImagesInv, ImageTypes
<1> DEFINE Missed == /\ pc[c] \in {"lookup", "fetch", "ask"} /\ key'[c] = key[c]
                     /\ pc[c] = "lookup" => key[c] \notin cache /\ ~Cooled(key[c])
<1>1. ASSUME NEW d \in Callers, Call(d)
      PROVE  Missed
  <2>0. ASSUME NEW n, NextImage(d, n)
        PROVE  pc' = [pc EXCEPT ![d] = "idle"] \/ pc' = [pc EXCEPT ![d] = "lookup"]
    BY <2>0 DEF NextImage, Goto
  <2>1. \/ /\ pc[d] \in {"lookup", "fetch"} /\ key' = key
           /\ pc[d] = "lookup" => key[d] \notin cache /\ ~Cooled(key[d])
           /\ \E step \in {"fetch", "ask"} : pc' = [pc EXCEPT ![d] = step]
        \/ \E step \in Steps \ {"fetch", "ask"} : pc' = [pc EXCEPT ![d] = step]
    <3>1. CASE Miss(d)
      BY <3>1 DEF Miss, Goto
    <3>2. CASE Fetch(d)
      BY <3>2 DEF Fetch, Goto, Steps
    <3>3. CASE Assemble(d) \/ Hit(d) \/ Answer(d) \/ AnswerEmpty(d)
      BY <3>3 DEF Assemble, Hit, Answer, AnswerEmpty, Described, Goto, Steps
    <3>4. CASE Skip(d) \/ Fail(d) \/ Persist(d) \/ Backfill(d)
      BY <2>0, <3>4 DEF Skip, Fail, Persist, Backfill, Goto, Steps
    <3> QED
      BY <1>1, <3>1, <3>2, <3>3, <3>4 DEF Call
  <2>2. CASE d = c
    BY <1>0, <2>1, <2>2
  <2>3. CASE d # c
    <3>1. pc'[c] = pc[c]
      BY <1>0, <2>1, <2>3
    <3>2. key'[c] = key[c]
      <4>1. \A n : NextImage(d, n) => \E x : key' = [key EXCEPT ![d] = x]
        BY DEF NextImage
      <4>2. key' = key \/ \E x : key' = [key EXCEPT ![d] = x]
        BY <1>1, <4>1
        DEF Call, Assemble, Hit, Skip, Miss, Fetch, Answer, AnswerEmpty, Fail, Persist, Backfill,
            Described
      <4> QED
        BY <1>0, <2>3, <4>2
    <3> QED
      BY <3>1, <3>2
  <2> QED
    BY <2>2, <2>3
<1>2. CASE Tick \/ Trim \/ UNCHANGED vars
  BY <1>2 DEF Tick, Trim, vars, locals
<1> QED
  BY <1>1, <1>2 DEF Next

\* As long as the table of failures is not full, nobody starts a download or a model call
\* for a key within the cooldown of its failure.
THEOREM NoRetryWhileCooling == RoomForAll => (Spec => NoRetryInCooldown)
<1> SUFFICES ASSUME RoomForAll
             PROVE  Spec => NoRetryInCooldown
  OBVIOUS
<1>1. ImagesInv /\ [Next]_vars => ImagesInv'
  BY ImagesNext
<1>2. ImagesInv /\ [Next]_vars =>
        [\A c \in Callers :
            pc[c] = "lookup" /\ pc'[c] \in {"fetch", "ask"} => now >= due[key[c]]]_vars
  <2> SUFFICES ASSUME ImagesInv, [Next]_vars, NEW c \in Callers, pc[c] = "lookup",
                      pc'[c] \in {"fetch", "ask"}
               PROVE  now >= due[key[c]]
    OBVIOUS
  <2>1. ~ (now < fails[key[c]])
    BY OnlyMisses DEF Cooled
  <2>2. key[c] \in Keys
    BY CallerLooks
  <2> QED
    BY <2>1, <2>2 DEF ImagesInv, ImageTypes, AllRecorded
<1> QED
  BY <1>1, <1>2, ImagesInit, PTL DEF Spec, NoRetryInCooldown

\* As long as the cache is not full, nobody starts a download or a model call for a key that
\* the model has given a description for.
THEOREM NobodyAsksAgain == RoomForAll => (Spec => SameImageOnce)
<1> SUFFICES ASSUME RoomForAll
             PROVE  Spec => SameImageOnce
  OBVIOUS
<1>1. ImagesInv /\ [Next]_vars => ImagesInv'
  BY ImagesNext
<1>2. ImagesInv /\ [Next]_vars => [\A k \in told : AtWork(k)' \subseteq AtWork(k)]_vars
  <2> SUFFICES ASSUME ImagesInv, [Next]_vars, NEW k \in told, NEW c \in AtWork(k)'
               PROVE  c \in AtWork(k)
    OBVIOUS
  <2>1. c \in Callers /\ pc'[c] \in {"fetch", "ask"} /\ key'[c] = k
    BY DEF AtWork
  <2>2. /\ pc[c] \in {"lookup", "fetch", "ask"} /\ key[c] = key'[c]
        /\ pc[c] = "lookup" => key[c] \notin cache
    BY <2>1, OnlyMisses
  <2> QED
    BY <2>1, <2>2 DEF AtWork, ImagesInv, ToldIsCached
<1> QED
  BY <1>1, <1>2, ImagesInit, PTL DEF Spec, SameImageOnce

=============================================================================
