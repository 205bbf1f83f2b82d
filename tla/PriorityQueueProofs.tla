------------------------ MODULE PriorityQueueProofs ------------------------
(***************************************************************************)
(* Proofs about PriorityQueue (the instance PQ of MCQueues), for any       *)
(* items, consumers and levels, until a call overlaps a clear() or a       *)
(* shutdown(): no item is lost or doubled, or in two hands, and a pop takes*)
(* one of the highest priority, as long as consumers put back what they    *)
(* popped; which one consumer always does, and it stays within the list of *)
(* queues if it asks empty() first.                                        *)
(***************************************************************************)
EXTENDS MCQueues, SequenceTheorems, WellFoundedInduction, TLAPS

---------------------------------------------------------------------------
(* The loop of empty() and pop() *)

\* A set of numbers that is not empty has a least one.
LEMMA LeastNumber ==
  ASSUME NEW S, S \subseteq Nat, S # {}
  PROVE  \E i \in S : \A j \in S : i <= j
<1> DEFINE R == {ss \in Nat \X Nat : ss[1] < ss[2]}
<1>1. IsWellFoundedOn(R, Nat) BY NatLessThanWellFounded, Zenon DEF OpToRel
<1>2. PICK i \in S : \A j \in S : ~(<<j, i>> \in R) BY <1>1, WFMin, Zenon
<1>3. ASSUME NEW j \in S PROVE i <= j
  <2>1. i \in Nat /\ j \in Nat OBVIOUS
  <2>2. j < i => <<j, i>> \in R BY <2>1
  <2>3. ~(j < i) BY <1>2, <2>2
  <2> QED BY <2>1, <2>3
<1> QED BY <1>3

\* The loop ends beyond the last level when all are empty, and otherwise at a
\* level with items, before which there are none.
LEMMA FirstLevelFound ==
  ASSUME PQ!Bounds
  PROVE  /\ PQ!FirstLevel \in 0 .. levels
         /\ PQ!FirstLevel # levels => PQ!FirstLevel \in PQ!Levels /\ persistedQList[PQ!FirstLevel] # <<>>
         /\ \A j \in PQ!Levels : persistedQList[j] # <<>> => PQ!FirstLevel # levels /\ PQ!FirstLevel <= j
<1> DEFINE full == {i \in PQ!Levels : persistedQList[i] # <<>>}
<1>1. CASE full = {} BY <1>1 DEF PQ!FirstLevel, PQ!Bounds
<1>2. CASE full # {}
  <2>1. full \subseteq Nat BY DEF PQ!Levels, PQ!Bounds
  <2>2. \E i \in full : \A j \in full : i <= j BY <1>2, <2>1, LeastNumber
  <2>3. PQ!FirstLevel = CHOOSE i \in full : \A j \in full : i <= j BY <1>2 DEF PQ!FirstLevel
  <2>4. PQ!FirstLevel \in full /\ \A j \in full : PQ!FirstLevel <= j BY <2>2, <2>3
  <2> HIDE DEF full
  <2>5. PQ!FirstLevel \in PQ!Levels /\ persistedQList[PQ!FirstLevel] # <<>> BY <2>4 DEF full
  <2>6. PQ!FirstLevel # levels /\ PQ!FirstLevel \in 0 .. levels BY <2>5 DEF PQ!Levels, PQ!Bounds
  <2>7. \A j \in PQ!Levels : persistedQList[j] # <<>> => PQ!FirstLevel <= j BY <2>4 DEF full
  <2> QED BY <2>5, <2>6, <2>7
<1> QED BY <1>1, <1>2

---------------------------------------------------------------------------
(* One level's queue *)

LEMMA Appended ==
  ASSUME NEW s \in Seq(PriorityItems), PQ!IsInjective(s), NEW x \in PriorityItems, x \notin PQ!ToSet(s)
  PROVE  Append(s, x) \in Seq(PriorityItems) /\ PQ!IsInjective(Append(s, x)) /\ PQ!ToSet(Append(s, x)) = PQ!ToSet(s) \cup {x}
<1> DEFINE t == Append(s, x)
<1>1. Len(s) \in Nat /\ DOMAIN s = 1 .. Len(s) BY LenProperties
<1>2. /\ t \in Seq(PriorityItems) /\ Len(t) = Len(s) + 1
      /\ \A i \in 1 .. Len(s) : t[i] = s[i]
      /\ t[Len(s) + 1] = x
  BY AppendProperties
<1>3. DOMAIN t = 1 .. Len(s) + 1 BY <1>2, LenProperties
<1>4. \A i \in 1 .. Len(s) : s[i] # x BY <1>1 DEF PQ!ToSet
<1> HIDE DEF t
<1>5. PQ!IsInjective(t)
  <2> SUFFICES ASSUME NEW a \in 1 .. Len(s) + 1, NEW b \in 1 .. Len(s) + 1, t[a] = t[b] PROVE a = b
    BY <1>3 DEF PQ!IsInjective
  <2>1. CASE a \in 1 .. Len(s) /\ b \in 1 .. Len(s) BY <1>1, <1>2, <2>1 DEF PQ!IsInjective
  <2>2. CASE a = Len(s) + 1 \/ b = Len(s) + 1 BY <1>1, <1>2, <1>4, <2>2
  <2> QED BY <1>1, <2>1, <2>2
<1>6. PQ!ToSet(t) = PQ!ToSet(s) \cup {x}
  <2>1. ASSUME NEW y \in PQ!ToSet(t) PROVE y \in PQ!ToSet(s) \cup {x}
    <3>1. PICK i \in 1 .. Len(s) + 1 : y = t[i] BY <1>3 DEF PQ!ToSet
    <3>2. CASE i \in 1 .. Len(s) BY <1>1, <1>2, <3>1, <3>2 DEF PQ!ToSet
    <3> QED BY <1>1, <1>2, <3>1, <3>2
  <2>2. ASSUME NEW y \in PQ!ToSet(s) PROVE y \in PQ!ToSet(t)
    <3>1. PICK i \in 1 .. Len(s) : y = s[i] BY <1>1 DEF PQ!ToSet
    <3>2. i \in DOMAIN t /\ y = t[i] BY <1>1, <1>2, <1>3, <3>1
    <3> QED BY <3>2 DEF PQ!ToSet
  <2>3. x \in PQ!ToSet(t)
    <3>1. Len(s) + 1 \in DOMAIN t /\ x = t[Len(s) + 1] BY <1>1, <1>2, <1>3
    <3> QED BY <3>1 DEF PQ!ToSet
  <2> QED BY <2>1, <2>2, <2>3
<1> QED BY <1>2, <1>5, <1>6 DEF t

LEMMA Headless ==
  ASSUME NEW s \in Seq(PriorityItems), PQ!IsInjective(s), s # <<>>
  PROVE  /\ Head(s) \in PriorityItems /\ Head(s) \in PQ!ToSet(s)
         /\ Tail(s) \in Seq(PriorityItems) /\ PQ!IsInjective(Tail(s)) /\ PQ!ToSet(Tail(s)) = PQ!ToSet(s) \ {Head(s)}
<1> DEFINE t == Tail(s)
<1>1. Len(s) \in Nat /\ DOMAIN s = 1 .. Len(s) BY LenProperties
<1>2. /\ Head(s) \in PriorityItems /\ t \in Seq(PriorityItems) /\ Len(t) = Len(s) - 1
      /\ \A i \in 1 .. Len(t) : t[i] = s[i + 1]
  BY HeadTailProperties
<1>3. DOMAIN t = 1 .. Len(s) - 1 BY <1>2, LenProperties
<1>4. Len(s) >= 1 /\ Head(s) = s[1] BY <1>1, EmptySeq
<1> HIDE DEF t
<1>5. Head(s) \in PQ!ToSet(s) BY <1>1, <1>4 DEF PQ!ToSet
<1>6. PQ!IsInjective(t)
  <2> SUFFICES ASSUME NEW a \in 1 .. Len(s) - 1, NEW b \in 1 .. Len(s) - 1, t[a] = t[b] PROVE a = b
    BY <1>3 DEF PQ!IsInjective
  <2>1. a + 1 \in DOMAIN s /\ b + 1 \in DOMAIN s /\ s[a + 1] = s[b + 1] BY <1>1, <1>2
  <2>2. a + 1 = b + 1 BY <2>1 DEF PQ!IsInjective
  <2> QED BY <2>2
<1>7. PQ!ToSet(t) = PQ!ToSet(s) \ {Head(s)}
  <2>1. ASSUME NEW y \in PQ!ToSet(t) PROVE y \in PQ!ToSet(s) /\ y # Head(s)
    <3>1. PICK i \in 1 .. Len(s) - 1 : y = t[i] BY <1>3 DEF PQ!ToSet
    <3>2. i + 1 \in DOMAIN s /\ y = s[i + 1] /\ 1 \in DOMAIN s /\ i + 1 # 1 BY <1>1, <1>2, <1>4, <3>1
    <3>3. y # s[1] BY <3>2 DEF PQ!IsInjective
    <3> QED BY <1>4, <3>2, <3>3 DEF PQ!ToSet
  <2>2. ASSUME NEW y \in PQ!ToSet(s), y # Head(s) PROVE y \in PQ!ToSet(t)
    <3>1. PICK i \in 1 .. Len(s) : y = s[i] BY <1>1 DEF PQ!ToSet
    <3>2. i - 1 \in DOMAIN t /\ y = t[i - 1]
      <4>1. i # 1 BY <1>4, <2>2, <3>1
      <4>2. i - 1 \in 1 .. Len(t) /\ (i - 1) + 1 = i BY <1>1, <1>2, <4>1
      <4> QED BY <1>2, <1>3, <3>1, <4>2
    <3> QED BY <3>2 DEF PQ!ToSet
  <2> QED BY <2>1, <2>2
<1> QED BY <1>2, <1>5, <1>6, <1>7 DEF t

---------------------------------------------------------------------------
(* Where the items are *)

\* The queues, and what the history says of them ...
Placed ==
  /\ persistedQList \in [PQ!Levels -> Seq(PriorityItems)] /\ priority \in [PriorityItems -> PQ!Levels] /\ shut \in Nat
  /\ taken \subseteq PriorityItems /\ fresh \subseteq PriorityItems /\ taken \cap fresh = {}
\* ... no item being in two places ...
ItemsOnce ==
  /\ PQ!Queued \cap taken = {} /\ PQ!Queued \cap fresh = {} /\ PQ!Queued \cup taken \cup fresh = PriorityItems
  /\ \A i \in PQ!Levels : PQ!IsInjective(persistedQList[i]) /\ \A x \in PQ!ToSet(persistedQList[i]) : priority[x] = i
\* ... and the item that push_back_last_pop() would return: it has been popped
\* and not returned, and its level is lastPopLevel unless pop() has since found
\* a level that is shut down, and stays so.
LastPopTaken ==
  /\ lastPopedObject = PQ!None \/ lastPopedObject \in taken
  /\ lastPopLevel \in PQ!Levels /\ PQ!OpenLevel(lastPopLevel) =>
       lastPopedObject \in taken /\ priority[lastPopedObject] = lastPopLevel

PlacesInv == Placed /\ ItemsOnce /\ LastPopTaken

\* What a consumer popped last and has not returned is out of the queues, and in
\* nobody else's hands.
Held ==
  /\ mine \in [Consumers -> PriorityItems \cup {PQ!None}]
  /\ \A c \in Consumers : mine[c] # PQ!None => mine[c] \in taken /\ \A d \in Consumers \ {c} : mine[d] # mine[c]

LEMMA InQueued == \A x : x \in PQ!Queued <=> \E i \in PQ!Levels : x \in PQ!ToSet(persistedQList[i])
  BY DEF PQ!Queued

\* An item that is nowhere in the queues goes to the end of its level's queue.
LEMMA Enqueued ==
  ASSUME Placed, ItemsOnce, NEW i \in PQ!Levels, NEW x \in PriorityItems, x \notin PQ!Queued, PQ!PushBack(i, x),
         priority'[x] = i, \A y \in PQ!Queued : priority'[y] = priority[y]
  PROVE  /\ persistedQList' \in [PQ!Levels -> Seq(PriorityItems)] /\ PQ!Queued' = PQ!Queued \cup {x}
         /\ \A k \in PQ!Levels : PQ!IsInjective(persistedQList'[k]) /\ \A y \in PQ!ToSet(persistedQList'[k]) : priority'[y] = k
<1> DEFINE q == persistedQList
<1>1. /\ q \in [PQ!Levels -> Seq(PriorityItems)]
      /\ \A k \in PQ!Levels : PQ!IsInjective(q[k])
      /\ \A k \in PQ!Levels : \A y \in PQ!ToSet(q[k]) : priority[y] = k
  BY DEF Placed, ItemsOnce
<1>2. x \notin PQ!ToSet(q[i]) BY InQueued
<1>3. Append(q[i], x) \in Seq(PriorityItems) /\ PQ!IsInjective(Append(q[i], x)) /\ PQ!ToSet(Append(q[i], x)) = PQ!ToSet(q[i]) \cup {x}
  BY <1>1, <1>2, Appended
<1>4. q' = [q EXCEPT ![i] = Append(q[i], x)] BY DEF PQ!PushBack
<1>5. /\ q' \in [PQ!Levels -> Seq(PriorityItems)] /\ q'[i] = Append(q[i], x)
      /\ \A k \in PQ!Levels : k # i => q'[k] = q[k]
  BY <1>1, <1>3, <1>4
<1>6. PQ!Queued' = PQ!Queued \cup {x}
  <2>1. \A y : y \in PQ!Queued' <=> \E k \in PQ!Levels : y \in PQ!ToSet(q'[k]) BY DEF PQ!Queued
  <2>2. ASSUME NEW y PROVE y \in PQ!Queued' <=> y \in PQ!Queued \cup {x}
    <3>1. \A k \in PQ!Levels : y \in PQ!ToSet(q'[k]) <=> y \in PQ!ToSet(q[k]) \/ (k = i /\ y = x)
      <4> SUFFICES ASSUME NEW k \in PQ!Levels PROVE y \in PQ!ToSet(q'[k]) <=> y \in PQ!ToSet(q[k]) \/ (k = i /\ y = x) OBVIOUS
      <4>1. CASE k = i BY <1>3, <1>5, <4>1
      <4>2. CASE k # i BY <1>5, <4>2
      <4> QED BY <4>1, <4>2
    <3> QED BY <2>1, <3>1, InQueued
  <2> QED BY <2>2
<1>7. ASSUME NEW k \in PQ!Levels PROVE PQ!IsInjective(q'[k]) /\ \A y \in PQ!ToSet(q'[k]) : priority'[y] = k
  <2>1. \A y \in PQ!ToSet(q[k]) : priority'[y] = k BY <1>1, InQueued
  <2>2. CASE k = i BY <1>3, <1>5, <2>1, <2>2
  <2>3. CASE k # i BY <1>1, <1>5, <2>1, <2>3
  <2> QED BY <2>2, <2>3
<1> QED BY <1>5, <1>6, <1>7

\* The first item of a level leaves the queues.
LEMMA Dequeued ==
  ASSUME Placed, ItemsOnce, NEW i \in PQ!Levels, persistedQList[i] # <<>>,
         persistedQList' = [persistedQList EXCEPT ![i] = Tail(@)], priority' = priority
  PROVE  /\ Head(persistedQList[i]) \in PriorityItems /\ Head(persistedQList[i]) \in PQ!Queued
         /\ priority[Head(persistedQList[i])] = i
         /\ persistedQList' \in [PQ!Levels -> Seq(PriorityItems)] /\ PQ!Queued' = PQ!Queued \ {Head(persistedQList[i])}
         /\ \A k \in PQ!Levels : PQ!IsInjective(persistedQList'[k]) /\ \A y \in PQ!ToSet(persistedQList'[k]) : priority'[y] = k
<1> DEFINE q == persistedQList
           x == Head(persistedQList[i])
<1>1. /\ q \in [PQ!Levels -> Seq(PriorityItems)]
      /\ \A k \in PQ!Levels : PQ!IsInjective(q[k])
      /\ \A k \in PQ!Levels : \A y \in PQ!ToSet(q[k]) : priority[y] = k
  BY DEF Placed, ItemsOnce
<1>2. /\ x \in PriorityItems /\ x \in PQ!ToSet(q[i])
      /\ Tail(q[i]) \in Seq(PriorityItems) /\ PQ!IsInjective(Tail(q[i])) /\ PQ!ToSet(Tail(q[i])) = PQ!ToSet(q[i]) \ {x}
  BY <1>1, Headless
<1>3. x \in PQ!Queued /\ priority[x] = i BY <1>1, <1>2, InQueued
<1>4. /\ q' \in [PQ!Levels -> Seq(PriorityItems)] /\ q'[i] = Tail(q[i])
      /\ \A k \in PQ!Levels : k # i => q'[k] = q[k]
  BY <1>1, <1>2
<1> HIDE DEF x
<1>5. PQ!Queued' = PQ!Queued \ {x}
  <2>1. \A y : y \in PQ!Queued' <=> \E k \in PQ!Levels : y \in PQ!ToSet(q'[k]) BY DEF PQ!Queued
  <2>2. ASSUME NEW y PROVE y \in PQ!Queued' <=> y \in PQ!Queued \ {x}
    <3>1. \A k \in PQ!Levels : y \in PQ!ToSet(q'[k]) <=> y \in PQ!ToSet(q[k]) /\ y # x
      <4> SUFFICES ASSUME NEW k \in PQ!Levels PROVE y \in PQ!ToSet(q'[k]) <=> y \in PQ!ToSet(q[k]) /\ y # x OBVIOUS
      <4>1. CASE k = i BY <1>2, <1>4, <4>1
      <4>2. CASE k # i BY <1>1, <1>3, <1>4, <4>2
      <4> QED BY <4>1, <4>2
    <3> QED BY <2>1, <3>1, InQueued
  <2> QED BY <2>2
<1>6. ASSUME NEW k \in PQ!Levels PROVE PQ!IsInjective(q'[k]) /\ \A y \in PQ!ToSet(q'[k]) : priority'[y] = k
  <2>2. CASE k = i BY <1>1, <1>2, <1>4, <2>2
  <2>3. CASE k # i BY <1>1, <1>4, <2>3
  <2> QED BY <2>2, <2>3
<1> QED BY <1>2, <1>3, <1>4, <1>5, <1>6 DEF x

---------------------------------------------------------------------------
(* What each step does to the items *)

LEMMA PlacesInit == ASSUME PQ!Bounds, PQ!Init PROVE PlacesInv
<1>1. 0 \in PQ!Levels /\ -1 \notin PQ!Levels BY DEF PQ!Levels, PQ!Bounds
<1>2. \A i \in PQ!Levels : persistedQList[i] = <<>> BY DEF PQ!Init
<1>3. PQ!ToSet(<<>>) = {} /\ PQ!IsInjective(<<>>) BY DEF PQ!ToSet, PQ!IsInjective
<1>4. PQ!Queued = {} BY <1>2, <1>3, InQueued
<1>5. ItemsOnce BY <1>2, <1>3, <1>4 DEF ItemsOnce, PQ!Init
<1>6. Placed BY <1>1, EmptySeq DEF Placed, PQ!Init
<1>7. LastPopTaken BY <1>1 DEF LastPopTaken, PQ!Init
<1> QED BY <1>5, <1>6, <1>7 DEF PlacesInv

\* A step that leaves the items where they are.
LEMMA PlacesStay ==
  ASSUME PlacesInv, UNCHANGED <<persistedQList, fresh, taken, priority>>, shut' \in Nat, LastPopTaken'
  PROVE  PlacesInv'
<1>1. PQ!Queued' = PQ!Queued BY DEF PQ!Queued
<1>2. ItemsOnce' BY <1>1 DEF PlacesInv, ItemsOnce
<1>3. Placed' BY DEF PlacesInv, Placed
<1> QED BY <1>2, <1>3 DEF PlacesInv

LEMMA ClampedInLevels == ASSUME PQ!Bounds, NEW p \in 0 .. MaxPriority PROVE PQ!Clamped(p) \in PQ!Levels
  BY DEF PQ!Bounds, PQ!Clamped, PQ!Levels

\* Until a call has raced, the test of _shut_down finds what is so.
LEMMA TestsTrue == ~raced => \A i : (PQ!FindsOpen(i) <=> PQ!OpenLevel(i)) /\ (PQ!FindsShut(i) <=> ~PQ!OpenLevel(i))
  BY DEF PQ!FindsOpen, PQ!FindsShut

LEMMA PushPlaces ==
  ASSUME PQ!Bounds, ~raced, PlacesInv, NEW x \in PriorityItems, NEW p \in 0 .. MaxPriority, PQ!Push(x, p) PROVE PlacesInv'
<1> DEFINE i == PQ!Clamped(p)
<1>1. i \in PQ!Levels BY ClampedInLevels
<1> HIDE DEF i
<1>2. /\ x \in fresh /\ UNCHANGED <<shut, lastPopLevel, lastPopedObject>>
      /\ \/ UNCHANGED <<persistedQList, fresh, taken, priority>>
         \/ /\ fresh' = fresh \ {x} /\ PQ!PushBack(i, x) /\ priority' = [priority EXCEPT ![x] = i]
            /\ UNCHANGED taken
  BY DEF PQ!Push, PQ!items, PQ!closing, PQ!lastPop, i
<1>3. Placed /\ ItemsOnce /\ LastPopTaken BY DEF PlacesInv
<1>4. CASE UNCHANGED <<persistedQList, fresh, taken, priority>>
  <2>1. LastPopTaken' BY <1>2, <1>3, <1>4 DEF LastPopTaken, PQ!OpenLevel
  <2> QED BY <1>2, <1>3, <1>4, <2>1, PlacesStay DEF Placed
<1>5. CASE fresh' = fresh \ {x} /\ PQ!PushBack(i, x) /\ priority' = [priority EXCEPT ![x] = i] /\ UNCHANGED taken
  <2>1. x \notin PQ!Queued /\ x \notin taken BY <1>2, <1>3 DEF Placed, ItemsOnce
  <2>2. priority' \in [PriorityItems -> PQ!Levels] /\ priority'[x] = i /\ \A y \in PriorityItems : y # x => priority'[y] = priority[y]
    BY <1>1, <1>3, <1>5 DEF Placed
  <2>3. PQ!Queued \subseteq PriorityItems BY <1>3 DEF ItemsOnce
  <2>4. /\ persistedQList' \in [PQ!Levels -> Seq(PriorityItems)] /\ PQ!Queued' = PQ!Queued \cup {x}
        /\ \A k \in PQ!Levels : PQ!IsInjective(persistedQList'[k]) /\ \A y \in PQ!ToSet(persistedQList'[k]) : priority'[y] = k
    BY <1>1, <1>3, <1>5, <2>1, <2>2, <2>3, Enqueued
  <2>5. ItemsOnce'
    <3>1. PQ!Queued' \cap taken' = {} /\ PQ!Queued' \cap fresh' = {} /\ PQ!Queued' \cup taken' \cup fresh' = PriorityItems
      BY <1>2, <1>3, <1>5, <2>1, <2>4 DEF ItemsOnce
    <3> QED BY <2>4, <3>1 DEF ItemsOnce
  <2>6. Placed' BY <1>2, <1>3, <1>5, <2>2, <2>4 DEF Placed
  <2>7. LastPopTaken'
    <3>1. \A y \in taken : priority'[y] = priority[y] BY <1>3, <2>1, <2>2 DEF Placed
    <3> QED BY <1>2, <1>3, <1>5, <3>1 DEF LastPopTaken, PQ!OpenLevel
  <2> QED BY <2>5, <2>6, <2>7 DEF PlacesInv
<1> QED BY <1>2, <1>4, <1>5

\* pop() and clear(): an item leaves its level.
LEMMA TakePlaces ==
  ASSUME PlacesInv, NEW i \in PQ!Levels, persistedQList[i] # <<>>,
         persistedQList' = [persistedQList EXCEPT ![i] = Tail(@)],
         taken' = taken \cup {Head(persistedQList[i])}, UNCHANGED <<shut, fresh, priority>>,
         LastPopTaken'
  PROVE  PlacesInv'
<1>1. Placed /\ ItemsOnce BY DEF PlacesInv
<1> DEFINE x == Head(persistedQList[i])
<1>2. /\ x \in PriorityItems /\ x \in PQ!Queued
      /\ persistedQList' \in [PQ!Levels -> Seq(PriorityItems)] /\ PQ!Queued' = PQ!Queued \ {x}
      /\ \A k \in PQ!Levels : PQ!IsInjective(persistedQList'[k]) /\ \A y \in PQ!ToSet(persistedQList'[k]) : priority'[y] = k
  BY <1>1, Dequeued
<1>3. taken' = taken \cup {x} OBVIOUS
<1> HIDE DEF x
<1>4. ItemsOnce'
  <2>1. PQ!Queued' \cap taken' = {} /\ PQ!Queued' \cap fresh' = {} /\ PQ!Queued' \cup taken' \cup fresh' = PriorityItems
    BY <1>1, <1>2, <1>3 DEF ItemsOnce
  <2> QED BY <1>2, <2>1 DEF ItemsOnce
<1>5. Placed'
  <2>1. x \notin fresh BY <1>1, <1>2 DEF ItemsOnce
  <2> QED BY <1>1, <1>2, <1>3, <2>1 DEF Placed
<1> QED BY <1>4, <1>5 DEF PlacesInv

LEMMA PopPlaces == ASSUME PQ!Bounds, ~raced, PlacesInv, NEW c \in Consumers, PQ!Pop(c) PROVE PlacesInv'
<1> DEFINE f == PQ!FirstLevel
           x == Head(persistedQList[PQ!FirstLevel])
<1>0. Placed /\ ItemsOnce /\ LastPopTaken BY DEF PlacesInv
<1>1. lastPopLevel' = f /\ UNCHANGED <<shut, fresh, priority>>
  BY DEF PQ!Pop, PQ!PopFront, PQ!items, PQ!closing
<1>2. f # levels => f \in PQ!Levels /\ persistedQList[f] # <<>> BY FirstLevelFound
<1>3. levels \notin PQ!Levels BY DEF PQ!Levels, PQ!Bounds
<1>4. CASE UNCHANGED <<persistedQList, lastPopedObject, taken>> /\ (f = levels \/ ~PQ!OpenLevel(f))
  <2>1. ~(lastPopLevel' \in PQ!Levels /\ PQ!OpenLevel(lastPopLevel)') BY <1>1, <1>3, <1>4 DEF PQ!OpenLevel
  <2>2. LastPopTaken' BY <1>0, <1>4, <2>1 DEF LastPopTaken
  <2> QED BY <1>0, <1>1, <1>4, <2>2, PlacesStay DEF Placed
<1>5. CASE /\ f # levels /\ lastPopedObject' = x /\ taken' = taken \cup {x}
           /\ persistedQList' = [persistedQList EXCEPT ![f] = Tail(@)]
  <2>1. priority[x] = f BY <1>0, <1>1, <1>2, <1>5, Dequeued
  <2>2. LastPopTaken' BY <1>1, <1>5, <2>1 DEF LastPopTaken
  <2> QED BY <1>1, <1>2, <1>5, <2>2, TakePlaces
<1> QED BY <1>4, <1>5, TestsTrue DEF PQ!Pop, PQ!PopFront, PQ!items

LEMMA ReturnPlaces == ASSUME PQ!Bounds, ~raced, PlacesInv, NEW c \in Consumers, PQ!ReturnEnds(c) PROVE PlacesInv'
<1> DEFINE i == lastPopLevel
           x == lastPopedObject
<1>1. Placed /\ ItemsOnce /\ LastPopTaken BY DEF PlacesInv
<1>2. UNCHANGED <<shut, fresh, priority>> BY DEF PQ!ReturnEnds, PQ!items, PQ!closing
<1>3. CASE UNCHANGED <<persistedQList, lastPopLevel, lastPopedObject, taken>>
  <2>1. LastPopTaken' BY <1>1, <1>2, <1>3 DEF LastPopTaken, PQ!OpenLevel
  <2> QED BY <1>1, <1>2, <1>3, <2>1, PlacesStay DEF Placed
<1>4. CASE i \in PQ!Levels /\ PQ!OpenLevel(i) /\ PQ!PushBack(i, x) /\ taken' = taken \ {x} /\ PQ!ForgetLastPop
  <2>1. x \in taken /\ priority[x] = i BY <1>1, <1>4 DEF LastPopTaken
  <2>2. x \in PriorityItems /\ x \notin PQ!Queued /\ x \notin fresh BY <1>1, <2>1 DEF Placed, ItemsOnce
  <2>3. /\ persistedQList' \in [PQ!Levels -> Seq(PriorityItems)] /\ PQ!Queued' = PQ!Queued \cup {x}
        /\ \A k \in PQ!Levels : PQ!IsInjective(persistedQList'[k]) /\ \A y \in PQ!ToSet(persistedQList'[k]) : priority'[y] = k
    BY <1>1, <1>2, <1>4, <2>1, <2>2, Enqueued
  <2>4. PQ!Queued' \cap taken' = {} /\ PQ!Queued' \cap fresh' = {} /\ PQ!Queued' \cup taken' \cup fresh' = PriorityItems
    BY <1>1, <1>2, <1>4, <2>1, <2>2, <2>3 DEF ItemsOnce
  <2>5. ItemsOnce' BY <2>3, <2>4 DEF ItemsOnce
  <2>6. Placed' BY <1>1, <1>2, <1>4, <2>3 DEF Placed
  <2>7. lastPopLevel' \notin PQ!Levels BY <1>4 DEF PQ!ForgetLastPop, PQ!Levels, PQ!Bounds
  <2>8. LastPopTaken' BY <1>4, <2>7 DEF LastPopTaken, PQ!ForgetLastPop
  <2> QED BY <2>5, <2>6, <2>8 DEF PlacesInv
<1> QED BY <1>3, <1>4, TestsTrue DEF PQ!ReturnEnds, PQ!items, PQ!lastPop

LEMMA ClearPlaces ==
  ASSUME PQ!Bounds, PlacesInv, clearing \in [Consumers -> SUBSET PQ!Levels], NEW c \in Consumers, PQ!ClearStep(c) PROVE PlacesInv'
<1>1. Placed /\ ItemsOnce /\ LastPopTaken BY DEF PlacesInv
<1>2. UNCHANGED <<shut, lastPopLevel, lastPopedObject, fresh, priority>>
  BY DEF PQ!ClearStep, PQ!items, PQ!lastPop, PQ!closing
<1>3. CASE UNCHANGED <<persistedQList, taken>>
  <2>1. LastPopTaken' BY <1>1, <1>2, <1>3 DEF LastPopTaken, PQ!OpenLevel
  <2> QED BY <1>1, <1>2, <1>3, <2>1, PlacesStay DEF Placed
<1>4. ASSUME NEW i \in clearing[c], persistedQList[i] # <<>>,
             persistedQList' = [persistedQList EXCEPT ![i] = Tail(@)],
             taken' = taken \cup {Head(persistedQList[i])}
      PROVE  PlacesInv'
  <2>1. i \in PQ!Levels OBVIOUS
  <2>2. LastPopTaken' BY <1>1, <1>2, <1>4 DEF LastPopTaken, PQ!OpenLevel
  <2> QED BY <1>2, <1>4, <2>1, <2>2, TakePlaces
<1> QED BY <1>3, <1>4 DEF PQ!ClearStep, PQ!items

\* The steps that leave the queues and the last popped object alone.
Beside ==
  \/ PQ!PushBegins
  \/ \E c \in Consumers : PQ!EmptyBegins(c) \/ PQ!Empty(c) \/ PQ!PopBegins(c) \/ PQ!ReturnTests(c) \/ PQ!ReturnLocks(c)
  \/ \E c \in Consumers, some \in SUBSET PQ!Levels : PQ!ClearBegins(c, some)
  \/ \E c \in Consumers : PQ!ClearEnds(c)
  \/ PQ!ShutdownBegins \/ UNCHANGED PQ!vars

LEMMA BesideLeaves ==
  ASSUME Beside PROVE UNCHANGED <<persistedQList, shut, lastPopLevel, lastPopedObject, fresh, taken, priority>>
<1> USE DEF PQ!items, PQ!lastPop, PQ!closing
<1>1. CASE PQ!PushBegins \/ PQ!ShutdownBegins \/ UNCHANGED PQ!vars BY <1>1 DEF PQ!PushBegins, PQ!ShutdownBegins, PQ!vars
<1>2. ASSUME NEW c \in Consumers, PQ!EmptyBegins(c) \/ PQ!Empty(c) \/ PQ!PopBegins(c) \/ PQ!ReturnLocks(c) \/ PQ!ClearEnds(c)
      PROVE  UNCHANGED <<persistedQList, shut, lastPopLevel, lastPopedObject, fresh, taken, priority>>
  BY <1>2 DEF PQ!EmptyBegins, PQ!Empty, PQ!PopBegins, PQ!ReturnLocks, PQ!ClearEnds
<1>3. ASSUME NEW c \in Consumers, PQ!ReturnTests(c)
      PROVE  UNCHANGED <<persistedQList, shut, lastPopLevel, lastPopedObject, fresh, taken, priority>>
  BY <1>3 DEF PQ!ReturnTests
<1>4. ASSUME NEW c \in Consumers, NEW some \in SUBSET PQ!Levels, PQ!ClearBegins(c, some)
      PROVE  UNCHANGED <<persistedQList, shut, lastPopLevel, lastPopedObject, fresh, taken, priority>>
  BY <1>4 DEF PQ!ClearBegins
<1> QED BY <1>1, <1>2, <1>3, <1>4 DEF Beside

\* Each step is one of these.
LEMMA Steps ==
  ASSUME [PQ!Next]_(PQ!vars)
  PROVE  \/ Beside
         \/ \E x \in PriorityItems, p \in 0 .. MaxPriority : PQ!Push(x, p)
         \/ \E c \in Consumers : PQ!Pop(c) \/ PQ!ReturnEnds(c) \/ PQ!ClearStep(c)
         \/ PQ!Shutdown \/ PQ!DestroyAndCreate
<1>1. \A i \in PQ!Levels : {i} \in SUBSET PQ!Levels OBVIOUS
<1> QED BY <1>1 DEF PQ!Next, Beside

LEMMA PlacesNext ==
  ASSUME PQ!Bounds, ~raced, PlacesInv, clearing \in [Consumers -> SUBSET PQ!Levels], [PQ!Next]_(PQ!vars) PROVE PlacesInv'
<1>0. Placed /\ ItemsOnce /\ LastPopTaken BY DEF PlacesInv
<1>1. CASE Beside
  <2>1. LastPopTaken' BY <1>0, <1>1, BesideLeaves DEF LastPopTaken, PQ!OpenLevel
  <2> QED BY <1>0, <1>1, <2>1, BesideLeaves, PlacesStay DEF Placed
<1>2. ASSUME NEW x \in PriorityItems, NEW p \in 0 .. MaxPriority, PQ!Push(x, p) PROVE PlacesInv' BY <1>2, PushPlaces
<1>3. ASSUME NEW c \in Consumers, PQ!Pop(c) PROVE PlacesInv' BY <1>3, PopPlaces
<1>4. ASSUME NEW c \in Consumers, PQ!ReturnEnds(c) PROVE PlacesInv' BY <1>4, ReturnPlaces
<1>5. ASSUME NEW c \in Consumers, PQ!ClearStep(c) PROVE PlacesInv' BY <1>5, ClearPlaces
<1>6. CASE PQ!Shutdown
  <2>0. shut' = shut + 1 \/ shut' = shut BY <1>6 DEF PQ!Shutdown
  <2>1. shut' \in Nat /\ shut <= shut' BY <1>0, <2>0 DEF Placed
  <2>2. \A i \in PQ!Levels : i >= shut' => i >= shut BY <1>0, <2>1 DEF PQ!Levels, PQ!Bounds, Placed
  <2>3. UNCHANGED <<persistedQList, lastPopLevel, lastPopedObject, fresh, taken, priority>>
    BY <1>6 DEF PQ!Shutdown, PQ!items, PQ!lastPop
  <2>4. LastPopTaken' BY <1>0, <2>2, <2>3 DEF LastPopTaken, PQ!OpenLevel
  <2> QED BY <2>1, <2>3, <2>4, PlacesStay
<1>7. CASE PQ!DestroyAndCreate
  <2>1. lastPopLevel' \notin PQ!Levels BY <1>7 DEF PQ!DestroyAndCreate, PQ!Levels, PQ!Bounds
  <2>2. LastPopTaken' BY <1>7, <2>1 DEF PQ!DestroyAndCreate, LastPopTaken
  <2> QED BY <1>0, <1>7, <2>2, PlacesStay DEF PQ!DestroyAndCreate, PQ!closing, Placed
<1> QED BY <1>1, <1>2, <1>3, <1>4, <1>5, <1>6, <1>7, Steps

---------------------------------------------------------------------------
(* In whose hands they are *)

LEMMA HeldNext ==
  ASSUME PQ!Bounds, ~raced, PlacesInv, Held, [PQ!Next]_(PQ!vars), ~misreturned' PROVE Held'
<1> USE DEF PQ!items
<1>0. Placed /\ ItemsOnce BY DEF PlacesInv
\* A step that takes no item back into the queues.
<1>1. ASSUME UNCHANGED mine, taken \subseteq taken' PROVE Held' BY <1>1 DEF Held
<1>2. CASE Beside
  <2>1. UNCHANGED taken BY <1>2, BesideLeaves
  <2>2. ASSUME NEW c \in Consumers, PQ!ReturnTests(c) PROVE Held'
    <3>1. UNCHANGED mine \/ mine' = [mine EXCEPT ![c] = PQ!None] BY <2>2 DEF PQ!ReturnTests
    <3> QED BY <2>1, <3>1 DEF Held
  <2>3. ASSUME NEW c \in Consumers, NEW some, PQ!ClearBegins(c, some) PROVE Held' BY <1>1, <2>1, <2>3 DEF PQ!ClearBegins
  <2>4. ASSUME NEW c \in Consumers, PQ!EmptyBegins(c) \/ PQ!Empty(c) \/ PQ!PopBegins(c) \/ PQ!ReturnLocks(c) \/ PQ!ClearEnds(c)
        PROVE  Held'
    BY <1>1, <2>1, <2>4 DEF PQ!EmptyBegins, PQ!Empty, PQ!PopBegins, PQ!ReturnLocks, PQ!ClearEnds
  <2>5. CASE PQ!PushBegins \/ PQ!ShutdownBegins \/ UNCHANGED PQ!vars
    BY <1>1, <2>1, <2>5 DEF PQ!PushBegins, PQ!ShutdownBegins, PQ!vars
  <2> QED BY <1>2, <2>2, <2>3, <2>4, <2>5 DEF Beside
<1>3. ASSUME NEW x \in PriorityItems, NEW p \in 0 .. MaxPriority, PQ!Push(x, p) PROVE Held'
  BY <1>1, <1>3 DEF PQ!Push
<1>4. ASSUME NEW c \in Consumers, PQ!Pop(c) PROVE Held'
  <2> DEFINE f == PQ!FirstLevel
             x == Head(persistedQList[PQ!FirstLevel])
  <2>1. CASE UNCHANGED <<mine, taken>> BY <1>1, <2>1
  <2>2. CASE /\ f # levels /\ mine' = [mine EXCEPT ![c] = x] /\ taken' = taken \cup {x}
             /\ persistedQList' = [persistedQList EXCEPT ![f] = Tail(@)] /\ priority' = priority
    <3>1. f \in PQ!Levels /\ persistedQList[f] # <<>> BY <2>2, FirstLevelFound
    <3>2. x \in PriorityItems /\ x \in PQ!Queued BY <1>0, <2>2, <3>1, Dequeued
    <3>3. x \notin taken BY <1>0, <3>2 DEF ItemsOnce
    <3> HIDE DEF x
    <3> QED BY <2>2, <3>2, <3>3 DEF Held
  <2> QED BY <1>4, <2>1, <2>2 DEF PQ!Pop, PQ!PopFront
<1>5. ASSUME NEW c \in Consumers, PQ!ReturnEnds(c) PROVE Held'
  <2>1. CASE UNCHANGED <<mine, taken>> BY <1>1, <2>1
  <2>2. CASE /\ taken' = taken \ {lastPopedObject} /\ mine' = [mine EXCEPT ![c] = PQ!None]
             /\ misreturned' = (misreturned \/ PQ!Misreturns(c))
    <3>1. ~PQ!Misreturns(c) BY <2>2
    <3>2. \A d \in Consumers \ {c} : mine[d] # PQ!None => mine[d] # lastPopedObject BY <3>1 DEF PQ!Misreturns
    <3> QED BY <2>2, <3>2 DEF Held
  <2> QED BY <1>5, <2>1, <2>2 DEF PQ!ReturnEnds
<1>6. ASSUME NEW c \in Consumers, PQ!ClearStep(c) PROVE Held' BY <1>1, <1>6 DEF PQ!ClearStep
<1>7. CASE PQ!Shutdown BY <1>1, <1>7 DEF PQ!Shutdown
<1>8. CASE PQ!DestroyAndCreate BY <1>8 DEF PQ!DestroyAndCreate, Held
<1> QED BY <1>2, <1>3, <1>4, <1>5, <1>6, <1>7, <1>8, Steps

\* What clear() still has to go through are levels; until calls have raced, items
\* have their places; and until a consumer has returned what it did not pop, they
\* are in one pair of hands.
ItemsInv ==
  /\ clearing \in [Consumers -> SUBSET PQ!Levels]
  /\ ~raced => PlacesInv
  /\ ~raced /\ ~misreturned => Held

\* A race, and an item returned wrongly, are not forgotten.
LEMMA NotForgotten ==
  ASSUME [PQ!Next]_(PQ!vars) PROVE (~raced' => ~raced) /\ (~misreturned' => ~misreturned)
<1> USE DEF PQ!notes, PQ!Locks, PQ!DoesNotLock, PQ!Unlocks
<1>1. CASE Beside
  <2>1. ASSUME NEW c \in Consumers, NEW some, PQ!ClearBegins(c, some) PROVE (~raced' => ~raced) /\ (~misreturned' => ~misreturned)
    BY <2>1 DEF PQ!ClearBegins
  <2>2. ASSUME NEW c \in Consumers, PQ!EmptyBegins(c) \/ PQ!Empty(c) \/ PQ!PopBegins(c) \/ PQ!ReturnLocks(c) \/ PQ!ClearEnds(c)
        PROVE  (~raced' => ~raced) /\ (~misreturned' => ~misreturned)
    BY <2>2 DEF PQ!EmptyBegins, PQ!Empty, PQ!PopBegins, PQ!ReturnLocks, PQ!ClearEnds
  <2>3. ASSUME NEW c \in Consumers, PQ!ReturnTests(c) PROVE (~raced' => ~raced) /\ (~misreturned' => ~misreturned)
    <3>1. UNCHANGED raced BY <2>3 DEF PQ!ReturnTests
    <3>2. UNCHANGED misreturned \/ misreturned' = (misreturned \/ mine[c] # PQ!None) BY <2>3 DEF PQ!ReturnTests
    <3>3. ~misreturned' => ~misreturned BY <3>2
    <3> QED BY <3>1, <3>3
  <2>4. CASE PQ!PushBegins \/ PQ!ShutdownBegins \/ UNCHANGED PQ!vars
    BY <2>4 DEF PQ!PushBegins, PQ!ShutdownBegins, PQ!vars
  <2> QED BY <1>1, <2>1, <2>2, <2>3, <2>4 DEF Beside
<1>2. ASSUME NEW x, NEW p, PQ!Push(x, p) PROVE (~raced' => ~raced) /\ (~misreturned' => ~misreturned)
  BY <1>2 DEF PQ!Push
<1>3. ASSUME NEW c, PQ!Pop(c) \/ PQ!ReturnEnds(c) \/ PQ!ClearStep(c) PROVE (~raced' => ~raced) /\ (~misreturned' => ~misreturned)
  <2>1. UNCHANGED raced BY <1>3 DEF PQ!Pop, PQ!ReturnEnds, PQ!ClearStep
  <2>2. UNCHANGED misreturned \/ misreturned' = (misreturned \/ PQ!Misreturns(c))
    BY <1>3 DEF PQ!Pop, PQ!ReturnEnds, PQ!ClearStep
  <2>3. ~misreturned' => ~misreturned BY <2>2
  <2> QED BY <2>1, <2>3
<1>4. CASE PQ!Shutdown \/ PQ!DestroyAndCreate BY <1>4 DEF PQ!Shutdown, PQ!DestroyAndCreate
<1> QED BY <1>1, <1>2, <1>3, <1>4, Steps

LEMMA ClearingNext ==
  ASSUME clearing \in [Consumers -> SUBSET PQ!Levels], [PQ!Next]_(PQ!vars) PROVE clearing' \in [Consumers -> SUBSET PQ!Levels]
<1>1. CASE UNCHANGED clearing BY <1>1
<1>2. ASSUME NEW c \in Consumers, NEW some \in SUBSET PQ!Levels, PQ!ClearBegins(c, some) PROVE clearing' \in [Consumers -> SUBSET PQ!Levels]
  BY <1>2 DEF PQ!ClearBegins
<1>3. ASSUME NEW c \in Consumers, PQ!ClearStep(c) PROVE clearing' \in [Consumers -> SUBSET PQ!Levels]
  BY <1>3 DEF PQ!ClearStep
<1>4. CASE Beside
  <2>1. ASSUME NEW c \in Consumers,
               PQ!EmptyBegins(c) \/ PQ!Empty(c) \/ PQ!PopBegins(c) \/ PQ!ReturnTests(c) \/ PQ!ReturnLocks(c) \/ PQ!ClearEnds(c)
        PROVE  UNCHANGED clearing
    BY <2>1 DEF PQ!EmptyBegins, PQ!Empty, PQ!PopBegins, PQ!ReturnTests, PQ!ReturnLocks, PQ!ClearEnds
  <2>2. PQ!PushBegins \/ PQ!ShutdownBegins \/ UNCHANGED PQ!vars => UNCHANGED clearing
    BY DEF PQ!PushBegins, PQ!ShutdownBegins, PQ!vars
  <2> QED BY <1>1, <1>2, <1>4, <2>1, <2>2 DEF Beside
<1>5. ASSUME NEW x, NEW p, PQ!Push(x, p) PROVE UNCHANGED clearing BY <1>5 DEF PQ!Push
<1>6. ASSUME NEW c, PQ!Pop(c) \/ PQ!ReturnEnds(c) PROVE UNCHANGED clearing BY <1>6 DEF PQ!Pop, PQ!ReturnEnds
<1>7. PQ!Shutdown \/ PQ!DestroyAndCreate => UNCHANGED clearing BY DEF PQ!Shutdown, PQ!DestroyAndCreate
<1> QED BY <1>1, <1>3, <1>4, <1>5, <1>6, <1>7, Steps

LEMMA ItemsNext == ASSUME PQ!Bounds, ItemsInv, [PQ!Next]_(PQ!vars) PROVE ItemsInv'
<1>1. clearing \in [Consumers -> SUBSET PQ!Levels] /\ clearing' \in [Consumers -> SUBSET PQ!Levels]
  BY ClearingNext DEF ItemsInv
<1>2. ASSUME ~raced' PROVE PlacesInv' BY <1>1, <1>2, NotForgotten, PlacesNext DEF ItemsInv
<1>3. ASSUME ~raced', ~misreturned' PROVE Held' BY <1>3, NotForgotten, HeldNext DEF ItemsInv
<1> QED BY <1>1, <1>2, <1>3 DEF ItemsInv

LEMMA ItemsAlways == ASSUME PQ!Bounds PROVE PQ!Spec => []ItemsInv
<1>1. PQ!Init => ItemsInv BY PlacesInit DEF ItemsInv, Held, PQ!Init
<1>2. ItemsInv /\ [PQ!Next]_(PQ!vars) => ItemsInv' BY ItemsNext
<1> QED BY <1>1, <1>2, PTL DEF PQ!Spec

\* push(), pop() and push_back_last_pop(), of any number of consumers and
\* producers between whose steps the others' may come, and a clear() or
\* shutdown() that no other call overlaps, lose no item and double none: it is
\* where it was pushed to or with the one consumer that popped it, as long as
\* push_back_last_pop() puts back what its caller popped.
THEOREM EachItemOnceCorrect == ASSUME PQ!Bounds PROVE PQ!Spec => []EachItemOnce
<1>1. ItemsInv => EachItemOnce BY DEF ItemsInv, PlacesInv, ItemsOnce, Held, EachItemOnce, PQ!EachItemOnce
<1> QED BY <1>1, ItemsAlways, PTL

---------------------------------------------------------------------------
(* The order of the levels *)

LEMMA HighestFirstStep ==
  ASSUME PQ!Bounds, ItemsInv, ~raced, [PQ!Next]_(PQ!vars)
  PROVE  \A x \in taken' \ taken : lastPopedObject' = x => \A y \in PQ!Queued : priority[x] <= priority[y]
<1> SUFFICES ASSUME NEW x \in taken' \ taken, lastPopedObject' = x, NEW y \in PQ!Queued PROVE priority[x] <= priority[y] OBVIOUS
<1>0. Placed /\ ItemsOnce /\ LastPopTaken /\ PlacesInv'
  BY PlacesNext DEF ItemsInv, PlacesInv
<1>1. x # PQ!None BY <1>0 DEF PlacesInv, Placed, PQ!Bounds
<1>2. x # lastPopedObject BY <1>0, <1>1 DEF LastPopTaken
<1>3. PICK c \in Consumers : PQ!Pop(c)
  <2>1. ~(UNCHANGED lastPopedObject) BY <1>2
  <2>2. ~Beside BY <2>1, BesideLeaves
  <2>3. ~(\E z \in PriorityItems, p \in 0 .. MaxPriority : PQ!Push(z, p)) BY <2>1 DEF PQ!Push, PQ!lastPop
  <2>4. ~(\E d \in Consumers : PQ!ClearStep(d)) BY <2>1 DEF PQ!ClearStep, PQ!lastPop
  <2>5. ~PQ!Shutdown BY <2>1 DEF PQ!Shutdown, PQ!lastPop
  <2>6. ~PQ!DestroyAndCreate BY <1>1 DEF PQ!DestroyAndCreate
  <2>7. ~(\E d \in Consumers : PQ!ReturnEnds(d)) BY <1>1, <2>1 DEF PQ!ReturnEnds, PQ!ForgetLastPop, PQ!lastPop
  <2> QED BY <2>2, <2>3, <2>4, <2>5, <2>6, <2>7, Steps
<1> DEFINE f == PQ!FirstLevel
<1>4. f # levels /\ x = Head(persistedQList[f]) /\ persistedQList' = [persistedQList EXCEPT ![f] = Tail(@)] /\ priority' = priority
  BY <1>2, <1>3 DEF PQ!Pop, PQ!PopFront
<1>5. f \in PQ!Levels /\ persistedQList[f] # <<>> BY <1>4, FirstLevelFound
<1>6. priority[x] = f BY <1>0, <1>4, <1>5, Dequeued
<1>7. PICK k \in PQ!Levels : y \in PQ!ToSet(persistedQList[k]) BY InQueued
<1>8. priority[y] = k BY <1>0, <1>7 DEF ItemsOnce
<1>9. persistedQList[k] # <<>> BY <1>7 DEF PQ!ToSet
<1>10. f <= k BY <1>9, FirstLevelFound
<1> QED BY <1>6, <1>8, <1>10

\* pop() gives an item while none of a higher priority waits, although it was
\* another call, empty(), that found there was something to pop, and other
\* consumers and producers have come between.
THEOREM HighestFirstCorrect == ASSUME PQ!Bounds PROVE PQ!Spec => HighestFirst
<1>1. ItemsInv /\ [PQ!Next]_(PQ!vars) =>
        [~raced /\ ~misreturned =>
           \A x \in taken' \ taken : lastPopedObject' = x => \A y \in PQ!Queued : priority[x] <= priority[y]]_(PQ!vars)
  BY HighestFirstStep
<1> QED BY <1>1, ItemsAlways, PTL DEF PQ!Spec, HighestFirst, PQ!HighestFirst

---------------------------------------------------------------------------
(* One consumer *)

\* Between its calls the consumer finds the queues no emptier than it left
\* them, and the item it popped last still there to be returned.
InRangeInv ==
  ~raced =>
    /\ ~outOfRange /\ ~misreturned /\ lastPopLevel \in -1 .. levels - 1
    /\ DOMAIN pc = Consumers /\ DOMAIN mine = Consumers
    /\ \A c \in Consumers :
         /\ pc[c] \in {"pop", "popping"} => PQ!FirstLevel # levels
         /\ pc[c] \in {"return", "returning"} => lastPopLevel \in PQ!Levels
         /\ mine[c] = lastPopedObject /\ (lastPopLevel < 0 => lastPopedObject = PQ!None)

\* Levels with items are found by the loop, after a step too.
LEMMA Found == PQ!Bounds => \A j \in PQ!Levels : persistedQList[j] # <<>> => PQ!FirstLevel # levels
  BY FirstLevelFound
LEMMA FoundNext == (PQ!Bounds => \A j \in PQ!Levels : persistedQList[j] # <<>> => PQ!FirstLevel # levels)'
  BY Found, PTL

LEMMA StillFound ==
  ASSUME PQ!Bounds, NEW i \in PQ!Levels, persistedQList'[i] # <<>> PROVE (PQ!FirstLevel # levels)'
  BY FoundNext DEF PQ!Bounds, PQ!Levels

LEMMA InRangeNext ==
  ASSUME PQ!Bounds, NEW c0, Consumers = {c0}, ItemsInv, InRangeInv, [PQ!Next]_(PQ!vars), ~raced' PROVE InRangeInv'
<1> DEFINE f == PQ!FirstLevel
<1> USE DEF PQ!items, PQ!lastPop, PQ!notes
<1>0. /\ persistedQList \in [PQ!Levels -> Seq(PriorityItems)] /\ ~raced
      /\ ~outOfRange /\ ~misreturned /\ lastPopLevel \in -1 .. levels - 1
      /\ DOMAIN pc = Consumers /\ DOMAIN mine = Consumers
      /\ pc[c0] \in {"pop", "popping"} => f # levels
      /\ pc[c0] \in {"return", "returning"} => lastPopLevel \in PQ!Levels
      /\ mine[c0] = lastPopedObject /\ (lastPopLevel < 0 => lastPopedObject = PQ!None)
  BY NotForgotten DEF ItemsInv, PlacesInv, Placed, InRangeInv
<1>1. f # levels => f \in PQ!Levels /\ persistedQList[f] # <<>> BY FirstLevelFound
<1>2. ASSUME ~outOfRange', ~misreturned', lastPopLevel' \in -1 .. levels - 1, DOMAIN pc' = Consumers, DOMAIN mine' = Consumers,
             pc'[c0] \in {"pop", "popping"} => (PQ!FirstLevel # levels)',
             pc'[c0] \in {"return", "returning"} => lastPopLevel' \in PQ!Levels,
             mine'[c0] = lastPopedObject', lastPopLevel' < 0 => lastPopedObject' = PQ!None
      PROVE  InRangeInv'
  BY <1>2 DEF InRangeInv
\* A step of the others, that takes nothing from the queues.
<1>3. ASSUME UNCHANGED <<PQ!lastPop, pc, mine>>, ~outOfRange', ~misreturned', f # levels => persistedQList'[f] # <<>> PROVE InRangeInv'
  <2>1. f # levels => (PQ!FirstLevel # levels)' BY <1>1, <1>3, StillFound
  <2> QED BY <1>0, <1>2, <1>3, <2>1
\* A step of the consumer that leaves the queues alone.
<1>4. ASSUME UNCHANGED <<persistedQList, PQ!lastPop, mine>>, ~outOfRange', ~misreturned', NEW to, pc' = [pc EXCEPT ![c0] = to],
             to \in {"pop", "popping"} => f # levels,
             to \in {"return", "returning"} => lastPopLevel \in PQ!Levels
      PROVE  InRangeInv'
  <2>1. pc'[c0] = to /\ DOMAIN pc' = Consumers BY <1>0, <1>4
  <2>2. f # levels => (PQ!FirstLevel # levels)' BY <1>1, <1>4, StillFound
  <2> QED BY <1>0, <1>2, <1>4, <2>1, <2>2
\* A step after which the consumer is between two calls, or in clear().
<1>5. ASSUME ~outOfRange', ~misreturned', lastPopLevel' \in -1 .. levels - 1, DOMAIN pc' = Consumers, pc'[c0] \in {"idle", "clear"},
             DOMAIN mine' = Consumers, mine'[c0] = lastPopedObject', lastPopLevel' < 0 => lastPopedObject' = PQ!None
      PROVE  InRangeInv'
  BY <1>2, <1>5
<1>6. CASE Beside
  <2>1. CASE PQ!PushBegins \/ PQ!ShutdownBegins \/ UNCHANGED PQ!vars
    BY <1>0, <1>1, <1>3, <2>1 DEF PQ!PushBegins, PQ!ShutdownBegins, PQ!vars
  <2>2. CASE PQ!EmptyBegins(c0) BY <1>0, <1>4, <2>2 DEF PQ!EmptyBegins, PQ!Goes
  <2>3. CASE PQ!Empty(c0) BY <1>0, <1>4, <2>3 DEF PQ!Empty, PQ!Goes
  <2>4. CASE PQ!PopBegins(c0) BY <1>0, <1>4, <2>4 DEF PQ!PopBegins, PQ!Goes
  <2>5. CASE PQ!ReturnTests(c0)
    <3>1. CASE lastPopLevel >= 0 /\ PQ!Goes(c0, "idle", "return") /\ UNCHANGED <<mine, misreturned>>
      <4>1. lastPopLevel \in PQ!Levels BY <1>0, <3>1 DEF PQ!Levels, PQ!Bounds
      <4> QED BY <1>0, <1>4, <2>5, <3>1, <4>1 DEF PQ!ReturnTests, PQ!Goes
    <3>2. CASE /\ lastPopLevel < 0 /\ PQ!Goes(c0, "idle", "idle") /\ mine' = [mine EXCEPT ![c0] = PQ!None]
               /\ misreturned' = (misreturned \/ mine[c0] # PQ!None)
      <4>1. mine[c0] = PQ!None /\ mine'[c0] = PQ!None /\ DOMAIN mine' = Consumers BY <1>0, <3>2
      <4>2. ~misreturned' BY <1>0, <3>2, <4>1
      <4>3. pc'[c0] = "idle" /\ DOMAIN pc' = Consumers BY <1>0, <3>2 DEF PQ!Goes
      <4> QED BY <1>0, <1>5, <2>5, <3>2, <4>1, <4>2, <4>3 DEF PQ!ReturnTests
    <3> QED BY <2>5, <3>1, <3>2 DEF PQ!ReturnTests
  <2>6. CASE PQ!ReturnLocks(c0) BY <1>0, <1>4, <2>6 DEF PQ!ReturnLocks, PQ!Goes
  <2>7. ASSUME NEW some, PQ!ClearBegins(c0, some) PROVE InRangeInv' BY <1>0, <1>4, <2>7 DEF PQ!ClearBegins, PQ!Goes
  <2>8. CASE PQ!ClearEnds(c0) BY <1>0, <1>4, <2>8 DEF PQ!ClearEnds, PQ!Goes
  <2> QED BY <1>6, <2>1, <2>2, <2>3, <2>4, <2>5, <2>6, <2>7, <2>8 DEF Beside
<1>7. ASSUME NEW x \in PriorityItems, NEW p \in 0 .. MaxPriority, PQ!Push(x, p) PROVE InRangeInv'
  <2> DEFINE i == PQ!Clamped(p)
  <2>1. i \in PQ!Levels BY ClampedInLevels
  <2> HIDE DEF i
  <2>2. /\ outOfRange' = (i \notin PQ!Levels) /\ UNCHANGED <<PQ!lastPop, pc, mine, misreturned>>
        /\ UNCHANGED persistedQList \/ persistedQList' = [persistedQList EXCEPT ![i] = Append(@, x)]
    BY <1>7 DEF PQ!Push, PQ!PushBack, i
  <2>3. ~outOfRange' BY <2>1, <2>2
  <2>4. ASSUME f # levels PROVE persistedQList'[f] # <<>>
    <3>1. Append(persistedQList[i], x) # <<>> BY <1>0, <2>1, AppendProperties
    <3> QED BY <1>0, <1>1, <2>1, <2>2, <2>4, <3>1
  <2> QED BY <1>0, <1>3, <2>2, <2>3, <2>4
<1>8. CASE PQ!Pop(c0)
  <2>1. pc[c0] = "popping" /\ pc' = [pc EXCEPT ![c0] = "idle"] /\ lastPopLevel' = f /\ UNCHANGED misreturned
    BY <1>8 DEF PQ!Pop, PQ!Goes
  <2>2. f # levels /\ f \in PQ!Levels BY <1>0, <1>1, <2>1
  <2>3. ~outOfRange' BY <1>0, <1>8, <2>2 DEF PQ!Pop
  <2>4. f \in -1 .. levels - 1 /\ ~(f < 0) BY <2>2 DEF PQ!Levels, PQ!Bounds
  <2>5. DOMAIN mine' = Consumers /\ mine'[c0] = lastPopedObject' BY <1>0, <1>8, <2>2 DEF PQ!Pop, PQ!PopFront
  <2>6. pc'[c0] = "idle" /\ DOMAIN pc' = Consumers BY <1>0, <2>1
  <2> QED BY <1>0, <1>5, <2>1, <2>3, <2>4, <2>5, <2>6
<1>9. CASE PQ!ReturnEnds(c0)
  <2>1. pc[c0] = "returning" /\ pc' = [pc EXCEPT ![c0] = "idle"] BY <1>9 DEF PQ!ReturnEnds, PQ!Goes
  <2>2. lastPopLevel \in PQ!Levels /\ pc'[c0] = "idle" /\ DOMAIN pc' = Consumers BY <1>0, <2>1
  <2>3. ~PQ!Misreturns(c0) BY <1>0 DEF PQ!Misreturns
  <2>4. CASE UNCHANGED <<PQ!lastPop, mine, PQ!notes>> BY <1>0, <1>5, <2>2, <2>4
  <2>5. CASE /\ mine' = [mine EXCEPT ![c0] = PQ!None] /\ PQ!ForgetLastPop
             /\ misreturned' = (misreturned \/ PQ!Misreturns(c0)) /\ UNCHANGED outOfRange
    <3>1. mine'[c0] = PQ!None /\ DOMAIN mine' = Consumers BY <1>0, <2>5
    <3>2. lastPopLevel' = -1 /\ lastPopedObject' = PQ!None /\ lastPopLevel' \in -1 .. levels - 1
      BY <2>5 DEF PQ!ForgetLastPop, PQ!Bounds
    <3>3. ~misreturned' BY <1>0, <2>3, <2>5
    <3> QED BY <1>0, <1>5, <2>2, <2>5, <3>1, <3>2, <3>3
  <2> QED BY <1>9, <2>2, <2>4, <2>5 DEF PQ!ReturnEnds
<1>10. CASE PQ!ClearStep(c0)
  <2>1. pc[c0] = "clear" /\ UNCHANGED <<PQ!lastPop, pc, mine, PQ!notes>> BY <1>10 DEF PQ!ClearStep
  <2> QED BY <1>0, <1>5, <2>1
<1>11. CASE PQ!Shutdown BY <1>0, <1>1, <1>3, <1>11 DEF PQ!Shutdown
<1>12. CASE PQ!DestroyAndCreate
  <2>1. pc[c0] = "idle" /\ lastPopLevel' = -1 /\ lastPopedObject' = PQ!None /\ UNCHANGED <<pc, PQ!notes>>
    BY <1>12 DEF PQ!DestroyAndCreate
  <2>2. DOMAIN mine' = Consumers /\ mine'[c0] = PQ!None BY <1>12 DEF PQ!DestroyAndCreate
  <2>3. lastPopLevel' \in -1 .. levels - 1 BY <2>1 DEF PQ!Bounds
  <2> QED BY <1>0, <1>5, <2>1, <2>2, <2>3
<1> QED BY <1>6, <1>7, <1>8, <1>9, <1>10, <1>11, <1>12, Steps

LEMMA InRangeAlways == ASSUME PQ!Bounds, NEW c0, Consumers = {c0} PROVE PQ!Spec => []InRangeInv
<1>1. PQ!Init => InRangeInv
  <2>1. PQ!Init => lastPopLevel \in -1 .. levels - 1 BY DEF PQ!Init, PQ!Bounds
  <2> QED BY <2>1 DEF PQ!Init, InRangeInv
<1>2. ItemsInv /\ InRangeInv /\ [PQ!Next]_(PQ!vars) => InRangeInv'
  <2>1. ItemsInv /\ InRangeInv /\ [PQ!Next]_(PQ!vars) /\ ~raced' => InRangeInv' BY InRangeNext
  <2> QED BY <2>1 DEF InRangeInv
<1> QED BY <1>1, <1>2, ItemsAlways, PTL DEF PQ!Spec

\* One consumer that asks empty() first never makes pop() or
\* push_back_last_pop() index outside the list of queues, and returns what it
\* popped, whatever producers, shutdown() and its own clear() do, until a call
\* overlaps shutdown(); with two consumers both can go wrong.
THEOREM InRangeCorrect == ASSUME PQ!Bounds PROVE PQ!Spec => []InRange
<1>1. CASE \E c \in Consumers : Consumers = {c}
  <2>1. PICK c0 \in Consumers : Consumers = {c0} BY <1>1
  <2>2. PQ!Spec => []InRangeInv BY <2>1, InRangeAlways
  <2>3. InRangeInv => InRange BY DEF InRangeInv, InRange, PQ!InRange
  <2> QED BY <2>2, <2>3, PTL
<1>2. CASE ~ \E c \in Consumers : Consumers = {c}
  <2>1. InRange BY <1>2 DEF InRange, PQ!InRange
  <2> QED BY <2>1, PTL
<1> QED BY <1>1, <1>2
=============================================================================
