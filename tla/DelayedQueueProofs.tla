------------------------- MODULE DelayedQueueProofs -------------------------
(***************************************************************************)
(* Proofs about DelayedQueue, for any items, delays and number of seconds: *)
(* no item is popped early, delayed items are popped in the order in which *)
(* they come due, and none is lost or doubled on its way from the map to   *)
(* the persisted queue.                                                    *)
(***************************************************************************)
EXTENDS DelayedQueue, SequenceTheorems, FiniteSetTheorems, WellFoundedInduction, TLAPS

---------------------------------------------------------------------------
(* Numbers *)

\* A set of numbers that is not empty has a least one.
LEMMA LeastNumber ==
  ASSUME NEW S, S \subseteq Nat, S # {}
  PROVE  \E i \in S : \A j \in S : i <= j
<1> DEFINE R == {ss \in Nat \X Nat : ss[1] < ss[2]}
<1>1. IsWellFoundedOn(R, Nat) BY NatLessThanWellFounded, Zenon DEF OpToRel
<1>2. PICK i \in S : \A j \in S : ~(<<j, i>> \in R) BY <1>1, WFMin, Zenon
<1>3. ASSUME NEW j \in S PROVE i <= j
  <2>1. i \in Nat /\ j \in Nat OBVIOUS
  <2>2. j < i => <<j, i>> \in R BY <2>1
  <2>3. ~(j < i) BY <1>2, <2>2
  <2> QED BY <2>1, <2>3
<1> QED BY <1>3

LEMMA FirstKeyFound ==
  ASSUME NEW keys, keys \subseteq Nat, keys # {}
  PROVE  FirstKey(keys) \in keys /\ \A j \in keys : FirstKey(keys) <= j
  BY LeastNumber DEF FirstKey

LEMMA MaxTimeNat == MaxTime \in Nat /\ MaxTime > 0
  BY BoundsAssumption DEF MaxTime

---------------------------------------------------------------------------
(* Sequences of items *)

In(x, s) == \E n \in DOMAIN s : s[n] = x
Inj(s) == \A a, b \in DOMAIN s : s[a] = s[b] => a = b
Disjoint(s, r) == \A x : ~(In(x, s) /\ In(x, r))

LEMMA SeqDomain == ASSUME NEW s \in Seq(Items) PROVE Len(s) \in Nat /\ DOMAIN s = 1 .. Len(s) /\ \A n \in 1 .. Len(s) : s[n] \in Items
  BY LenProperties

LEMMA InItems == ASSUME NEW s \in Seq(Items), NEW x, In(x, s) PROVE x \in Items
  BY SeqDomain DEF In

LEMMA EmptyHasNone == <<>> \in Seq(Items) /\ Len(<<>>) = 0 /\ Inj(<<>>) /\ \A x : ~In(x, <<>>)
  BY DEF In, Inj

LEMMA ConcatFacts ==
  ASSUME NEW s \in Seq(Items), NEW r \in Seq(Items)
  PROVE  /\ s \o r \in Seq(Items) /\ Len(s \o r) = Len(s) + Len(r) /\ DOMAIN (s \o r) = 1 .. Len(s) + Len(r)
         /\ \A n \in 1 .. Len(s) : n \in 1 .. Len(s) + Len(r) /\ (s \o r)[n] = s[n]
         /\ \A n \in 1 .. Len(r) : Len(s) + n \in 1 .. Len(s) + Len(r) /\ (s \o r)[Len(s) + n] = r[n]
         /\ \A n \in 1 .. Len(s) + Len(r) :
              \/ n \in 1 .. Len(s)
              \/ n > Len(s) /\ n - Len(s) \in 1 .. Len(r) /\ (s \o r)[n] = r[n - Len(s)]
<1>1. Len(s) \in Nat /\ Len(r) \in Nat BY SeqDomain
<1>2. s \o r \in Seq(Items) /\ Len(s \o r) = Len(s) + Len(r)
      /\ \A n \in 1 .. Len(s) + Len(r) : (s \o r)[n] = IF n <= Len(s) THEN s[n] ELSE r[n - Len(s)]
  BY ConcatProperties
<1>3. DOMAIN (s \o r) = 1 .. Len(s) + Len(r) BY <1>2, LenProperties
<1> QED BY <1>1, <1>2, <1>3

LEMMA InConcat ==
  ASSUME NEW s \in Seq(Items), NEW r \in Seq(Items), NEW x
  PROVE  In(x, s \o r) <=> In(x, s) \/ In(x, r)
<1>1. DOMAIN s = 1 .. Len(s) /\ DOMAIN r = 1 .. Len(r) BY SeqDomain
<1>2. ASSUME In(x, s) PROVE In(x, s \o r) BY <1>1, <1>2, ConcatFacts DEF In
<1>3. ASSUME In(x, r) PROVE In(x, s \o r)
  <2>1. PICK n \in 1 .. Len(r) : r[n] = x BY <1>1, <1>3 DEF In
  <2>2. Len(s) + n \in DOMAIN (s \o r) /\ (s \o r)[Len(s) + n] = x BY <2>1, ConcatFacts
  <2> QED BY <2>2 DEF In
<1>4. ASSUME In(x, s \o r) PROVE In(x, s) \/ In(x, r)
  <2>1. PICK n \in 1 .. Len(s) + Len(r) : (s \o r)[n] = x BY <1>4, ConcatFacts DEF In
  <2>2. CASE n \in 1 .. Len(s) BY <1>1, <2>1, <2>2, ConcatFacts DEF In
  <2>3. CASE n - Len(s) \in 1 .. Len(r) /\ (s \o r)[n] = r[n - Len(s)] BY <1>1, <2>1, <2>3 DEF In
  <2> QED BY <2>2, <2>3, ConcatFacts
<1> QED BY <1>2, <1>3, <1>4

LEMMA InjConcat ==
  ASSUME NEW s \in Seq(Items), NEW r \in Seq(Items), Inj(s), Inj(r), Disjoint(s, r) PROVE Inj(s \o r)
<1>1. /\ DOMAIN s = 1 .. Len(s) /\ DOMAIN r = 1 .. Len(r) /\ DOMAIN (s \o r) = 1 .. Len(s) + Len(r)
      /\ Len(s) \in Nat /\ Len(r) \in Nat
  BY SeqDomain, ConcatFacts
<1> SUFFICES ASSUME NEW a \in 1 .. Len(s) + Len(r), NEW b \in 1 .. Len(s) + Len(r), (s \o r)[a] = (s \o r)[b] PROVE a = b
  BY <1>1 DEF Inj
<1>2. ASSUME NEW n \in 1 .. Len(s) + Len(r)
      PROVE  \/ n \in DOMAIN s /\ (s \o r)[n] = s[n]
             \/ n - Len(s) \in DOMAIN r /\ (s \o r)[n] = r[n - Len(s)]
  BY <1>1, ConcatFacts
<1>3. CASE a \in DOMAIN s /\ (s \o r)[a] = s[a] /\ b \in DOMAIN s /\ (s \o r)[b] = s[b] BY <1>3 DEF Inj
<1>4. CASE /\ a - Len(s) \in DOMAIN r /\ (s \o r)[a] = r[a - Len(s)]
           /\ b - Len(s) \in DOMAIN r /\ (s \o r)[b] = r[b - Len(s)]
  <2>1. a - Len(s) = b - Len(s) BY <1>4 DEF Inj
  <2> QED BY <1>1, <2>1
<1>5. \A i \in DOMAIN s, j \in DOMAIN r : s[i] # r[j] BY DEF Disjoint, In
<1> QED BY <1>2, <1>3, <1>4, <1>5

LEMMA TailFacts ==
  ASSUME NEW s \in Seq(Items), s # <<>>
  PROVE  /\ Len(s) >= 1 /\ Head(s) = s[1] /\ Head(s) \in Items /\ In(Head(s), s)
         /\ Tail(s) \in Seq(Items) /\ Len(Tail(s)) = Len(s) - 1
         /\ \A n \in 1 .. Len(s) - 1 : n + 1 \in 1 .. Len(s) /\ Tail(s)[n] = s[n + 1]
         /\ \A x : In(x, s) <=> x = Head(s) \/ In(x, Tail(s))
         /\ Inj(s) => Inj(Tail(s)) /\ ~In(Head(s), Tail(s))
<1>1. Len(s) \in Nat /\ Len(s) >= 1 /\ DOMAIN s = 1 .. Len(s) /\ Head(s) = s[1] BY SeqDomain, EmptySeq
<1>2. /\ Head(s) \in Items /\ Tail(s) \in Seq(Items) /\ Len(Tail(s)) = Len(s) - 1
      /\ \A n \in 1 .. Len(s) - 1 : n + 1 \in 1 .. Len(s) /\ Tail(s)[n] = s[n + 1]
  BY <1>1, HeadTailProperties
<1>3. DOMAIN Tail(s) = 1 .. Len(s) - 1 BY <1>2, LenProperties
<1>4. In(Head(s), s) BY <1>1 DEF In
<1>5. ASSUME NEW x PROVE In(x, s) <=> x = Head(s) \/ In(x, Tail(s))
  <2>1. ASSUME In(x, Tail(s)) PROVE In(x, s)
    <3>1. PICK n \in 1 .. Len(s) - 1 : Tail(s)[n] = x BY <1>3, <2>1 DEF In
    <3>2. n + 1 \in DOMAIN s /\ s[n + 1] = x BY <1>1, <1>2, <3>1
    <3> QED BY <3>2 DEF In
  <2>2. ASSUME In(x, s), x # Head(s) PROVE In(x, Tail(s))
    <3>1. PICK n \in 1 .. Len(s) : s[n] = x BY <1>1, <2>2 DEF In
    <3>2. n - 1 \in 1 .. Len(s) - 1 /\ (n - 1) + 1 = n BY <1>1, <2>2, <3>1
    <3>3. Tail(s)[n - 1] = s[(n - 1) + 1] BY <1>2, <3>2
    <3>4. n - 1 \in DOMAIN Tail(s) /\ Tail(s)[n - 1] = x BY <1>3, <3>1, <3>2, <3>3
    <3> QED BY <3>4 DEF In
  <2> QED BY <1>4, <2>1, <2>2
<1>6. ASSUME Inj(s) PROVE Inj(Tail(s)) /\ ~In(Head(s), Tail(s))
  <2>1. ASSUME NEW a \in 1 .. Len(s) - 1, NEW b \in 1 .. Len(s) - 1, Tail(s)[a] = Tail(s)[b] PROVE a = b
    <3>1. a + 1 \in DOMAIN s /\ b + 1 \in DOMAIN s /\ s[a + 1] = s[b + 1] BY <1>1, <1>2, <2>1
    <3>2. a + 1 = b + 1 BY <1>6, <3>1 DEF Inj
    <3> QED BY <3>2
  <2>2. ASSUME NEW n \in 1 .. Len(s) - 1 PROVE Tail(s)[n] # Head(s)
    <3>1. n + 1 \in DOMAIN s /\ 1 \in DOMAIN s /\ n + 1 # 1 /\ Tail(s)[n] = s[n + 1] BY <1>1, <1>2
    <3> QED BY <1>1, <1>6, <3>1 DEF Inj
  <2> QED BY <1>3, <2>1, <2>2 DEF Inj, In
<1> QED BY <1>1, <1>2, <1>4, <1>5, <1>6

LEMMA AppendFacts ==
  ASSUME NEW s \in Seq(Items), NEW x \in Items
  PROVE  /\ Append(s, x) = s \o <<x>> /\ <<x>> \in Seq(Items) /\ Len(<<x>>) = 1 /\ Inj(<<x>>)
         /\ \A y : In(y, <<x>>) <=> y = x
         /\ Append(s, x) \in Seq(Items)
         /\ \A y : In(y, Append(s, x)) <=> In(y, s) \/ y = x
         /\ Inj(s) /\ ~In(x, s) => Inj(Append(s, x))
<1>1. <<x>> \in Seq(Items) /\ Len(<<x>>) = 1 /\ <<x>>[1] = x /\ DOMAIN <<x>> = {1} OBVIOUS
<1>2. Inj(<<x>>) BY <1>1 DEF Inj
<1>3. \A y : In(y, <<x>>) <=> y = x BY <1>1 DEF In
<1>4. Append(s, x) = s \o <<x>> BY AppendIsConcat
<1>5. \A y : In(y, s \o <<x>>) <=> In(y, s) \/ y = x BY <1>1, <1>3, InConcat
<1>6. ASSUME Inj(s), ~In(x, s) PROVE Inj(s \o <<x>>)
  <2>1. Disjoint(s, <<x>>) BY <1>3, <1>6, Zenon DEF Disjoint
  <2> QED BY <1>1, <1>2, <1>6, <2>1, InjConcat
<1>7. s \o <<x>> \in Seq(Items) BY <1>1, ConcatFacts
<1> QED BY <1>1, <1>2, <1>3, <1>4, <1>5, <1>6, <1>7

---------------------------------------------------------------------------
(* The items under some keys of the map *)

List(m, keys, t) == IF t \in keys THEN m[t] ELSE <<>>

\* The recursion that ItemsUpTo is defined by has a solution, so that ItemsUpTo
\* is one.
LEMMA ItemsUpToDef ==
  ASSUME NEW m, NEW keys
  PROVE  /\ ItemsUpTo(m, keys)[0] = <<>>
         /\ \A t \in 1 .. MaxTime : ItemsUpTo(m, keys)[t] = ItemsUpTo(m, keys)[t - 1] \o List(m, keys, t)
<1> DEFINE Solves(g, n) == g = [t \in 0 .. n |-> IF t = 0 THEN <<>> ELSE g[t - 1] \o List(m, keys, t)]
           T == {n \in Nat : ~\E g : Solves(g, n)}
<1>1. T = {}
  <2> SUFFICES ASSUME T # {} PROVE FALSE OBVIOUS
  <2>1. PICK n \in T : \A j \in T : n <= j BY LeastNumber
  <2>2. n \in Nat /\ ~\E g : Solves(g, n) OBVIOUS
  <2>3. n # 0
    <3> DEFINE e == [t \in 0 .. 0 |-> <<>>]
    <3>1. ASSUME NEW t \in 0 .. 0 PROVE e[t] = IF t = 0 THEN <<>> ELSE e[t - 1] \o List(m, keys, t)
      <4>1. t = 0 OBVIOUS
      <4>2. e[t] = <<>> BY Zenon
      <4> QED BY <4>1, <4>2
    <3>2. e = [t \in 0 .. 0 |-> e[t]] OBVIOUS
    <3> HIDE DEF e
    <3>3. Solves(e, 0) BY <3>1, <3>2
    <3> QED BY <2>2, <3>3
  <2>4. n - 1 \in Nat /\ ~(n <= n - 1) BY <2>2, <2>3
  <2>9. n - 1 \notin T BY <2>1, <2>4, Zenon
  <2>5. PICK h : Solves(h, n - 1) BY <2>4, <2>9, Zenon
  <2> DEFINE g == [t \in 0 .. n |-> IF t = n THEN h[n - 1] \o List(m, keys, n) ELSE h[t]]
  <2>6. ASSUME NEW t \in 0 .. n PROVE g[t] = IF t = 0 THEN <<>> ELSE g[t - 1] \o List(m, keys, t)
    <3>1. CASE t = n
      <4>1. t - 1 \in 0 .. n /\ t - 1 # n /\ t # 0 BY <2>2, <2>3, <3>1
      <4>2. g[t - 1] = h[t - 1] BY <4>1
      <4> QED BY <3>1, <4>1, <4>2
    <3>2. CASE t # n
      <4>1. t \in 0 .. n - 1 /\ (t # 0 => t - 1 \in 0 .. n /\ t - 1 # n) BY <2>2, <3>2
      <4>2. h[t] = IF t = 0 THEN <<>> ELSE h[t - 1] \o List(m, keys, t) BY <2>5, <4>1
      <4>3. t # 0 => g[t - 1] = h[t - 1] BY <4>1
      <4> QED BY <3>2, <4>2, <4>3
    <3> QED BY <3>1, <3>2
  <2>7. g = [t \in 0 .. n |-> g[t]] OBVIOUS
  <2> HIDE DEF g
  <2>8. Solves(g, n) BY <2>6, <2>7
  <2> QED BY <2>2, <2>8
<1>2. \E g : Solves(g, MaxTime) BY <1>1, MaxTimeNat
<1>3. Solves(ItemsUpTo(m, keys), MaxTime) BY <1>2 DEF ItemsUpTo, Joined, List
<1> DEFINE u == ItemsUpTo(m, keys)
<1> HIDE DEF u
<1>4. \A t \in 0 .. MaxTime : u[t] = IF t = 0 THEN <<>> ELSE u[t - 1] \o List(m, keys, t) BY <1>3 DEF u
<1>5. 0 \in 0 .. MaxTime /\ \A t \in 1 .. MaxTime : t \in 0 .. MaxTime /\ t # 0 BY MaxTimeNat
<1>6. u[0] = <<>> BY <1>4, <1>5
<1>7. \A t \in 1 .. MaxTime : u[t] = u[t - 1] \o List(m, keys, t) BY <1>4, <1>5
<1> QED BY <1>6, <1>7 DEF u

MapOK(m) == DOMAIN m \subseteq 1 .. MaxTime /\ \A k \in DOMAIN m : m[k] \in Seq(Items)
Distinct(m) ==
  /\ \A k \in DOMAIN m : Inj(m[k])
  /\ \A j, k \in DOMAIN m : j # k => Disjoint(m[j], m[k])

\* The items of s are those under the keys, in the order of the keys, and each
\* is there once if it is once under all of them.
Lists(s, m, keys) ==
  /\ s \in Seq(Items)
  /\ \A n \in 1 .. Len(s) : \E k \in keys : In(s[n], m[k])
  /\ \A k \in keys : \A x : In(x, m[k]) => In(x, s)
  /\ Distinct(m) => Inj(s)
  /\ \A a, b \in 1 .. Len(s) : a < b => \E j, k \in keys : j <= k /\ In(s[a], m[j]) /\ In(s[b], m[k])

LEMMA ListsMore ==
  ASSUME NEW m, MapOK(m), NEW keys, keys \subseteq DOMAIN m, NEW s, Lists(s, m, keys),
         NEW t \in DOMAIN m, \A k \in keys : k < t
  PROVE  Lists(s \o m[t], m, keys \cup {t})
<1> DEFINE r == m[t]
           K == keys \cup {t}
<1>1. /\ s \in Seq(Items) /\ r \in Seq(Items) /\ t \in Int /\ \A k \in K : k \in Int /\ k <= t
      /\ Len(s) \in Nat /\ Len(r) \in Nat /\ DOMAIN s = 1 .. Len(s) /\ DOMAIN r = 1 .. Len(r)
  <2>1. t \in Int /\ \A k \in K : k \in Int /\ k <= t BY DEF MapOK
  <2>2. s \in Seq(Items) /\ r \in Seq(Items) BY DEF MapOK, Lists
  <2> QED BY <2>1, <2>2, SeqDomain
<1>2. s \o r \in Seq(Items) /\ Len(s \o r) = Len(s) + Len(r) BY <1>1, ConcatFacts
<1> HIDE DEF r, K
<1>3. \A n \in 1 .. Len(r) : In(r[n], r) BY <1>1 DEF In
<1>4. \A n \in 1 .. Len(s) : \E k \in keys : In(s[n], m[k]) BY DEF Lists
<1>5. ASSUME NEW n \in 1 .. Len(s) + Len(r) PROVE \E k \in K : In((s \o r)[n], m[k])
  <2>1. CASE n \in 1 .. Len(s) BY <1>1, <1>4, <2>1, ConcatFacts DEF K
  <2>2. CASE n - Len(s) \in 1 .. Len(r) /\ (s \o r)[n] = r[n - Len(s)] BY <1>3, <2>2 DEF K, r
  <2> QED BY <1>1, <2>1, <2>2, ConcatFacts
<1>6. ASSUME NEW k \in K, NEW x, In(x, m[k]) PROVE In(x, s \o r)
  <2>1. In(x, s) \/ In(x, r) BY <1>6 DEF K, r, Lists
  <2> QED BY <1>1, <2>1, InConcat
<1>7. ASSUME Distinct(m) PROVE Inj(s \o r)
  <2>1. Inj(s) /\ Inj(r) BY <1>7 DEF Lists, Distinct, r
  <2>2. ASSUME NEW x, In(x, s), In(x, r) PROVE FALSE
    <3>1. PICK n \in 1 .. Len(s) : s[n] = x BY <1>1, <2>2 DEF In
    <3>2. PICK k \in keys : In(x, m[k]) BY <1>4, <3>1
    <3>3. k # t BY <1>1
    <3> QED BY <1>7, <2>2, <3>2, <3>3, Zenon DEF Distinct, Disjoint, r
  <2>3. Disjoint(s, r) BY <2>2 DEF Disjoint
  <2> QED BY <1>1, <2>1, <2>3, InjConcat
<1>8. ASSUME NEW a \in 1 .. Len(s) + Len(r), NEW b \in 1 .. Len(s) + Len(r), a < b
      PROVE  \E j, k \in K : j <= k /\ In((s \o r)[a], m[j]) /\ In((s \o r)[b], m[k])
  <2>1. CASE b \in 1 .. Len(s)
    <3>1. a \in 1 .. Len(s) BY <1>1, <1>8, <2>1
    <3>2. (s \o r)[a] = s[a] /\ (s \o r)[b] = s[b] BY <1>1, <2>1, <3>1, ConcatFacts
    <3>3. \E j, k \in keys : j <= k /\ In(s[a], m[j]) /\ In(s[b], m[k]) BY <1>8, <2>1, <3>1 DEF Lists
    <3> QED BY <3>2, <3>3 DEF K
  <2>2. CASE b - Len(s) \in 1 .. Len(r) /\ (s \o r)[b] = r[b - Len(s)]
    <3>1. In((s \o r)[b], m[t]) /\ t \in K BY <1>3, <2>2 DEF r, K
    <3>2. PICK j \in K : In((s \o r)[a], m[j]) BY <1>5
    <3>3. j <= t BY <1>1
    <3> QED BY <3>1, <3>2, <3>3
  <2> QED BY <1>1, <2>1, <2>2, ConcatFacts
<1>9. Lists(s \o r, m, K) BY <1>2, <1>5, <1>6, <1>7, <1>8 DEF Lists
<1> QED BY <1>9 DEF r, K

LEMMA ListsNone == ASSUME NEW m PROVE Lists(<<>>, m, {})
<1>1. 1 .. 0 = {} OBVIOUS
<1> QED BY <1>1, EmptyHasNone, Zenon DEF Lists

\* What moveExpired() moves.
LEMMA ItemsAtLists ==
  ASSUME NEW m, MapOK(m), NEW keys, keys \subseteq DOMAIN m PROVE Lists(ItemsAt(m, keys), m, keys)
<1> DEFINE u == ItemsUpTo(m, keys)
           Upto(t) == {k \in keys : k <= t}
           T == {t \in 0 .. MaxTime : ~Lists(u[t], m, Upto(t))}
<1>0. keys \subseteq 1 .. MaxTime BY DEF MapOK
<1>1. /\ u[0] = <<>>
      /\ \A t \in 1 .. MaxTime : u[t] = u[t - 1] \o List(m, keys, t)
  BY ItemsUpToDef
<1> HIDE DEF u
<1>2. T = {}
  <2> SUFFICES ASSUME T # {} PROVE FALSE OBVIOUS
  <2>1. T \subseteq Nat OBVIOUS
  <2>2. PICK t \in T : \A j \in T : t <= j BY <2>1, LeastNumber
  <2>3. t \in 0 .. MaxTime /\ ~Lists(u[t], m, Upto(t)) OBVIOUS
  <2>4. t # 0
    <3>1. Upto(0) = {} BY <1>0
    <3> QED BY <1>1, <2>3, <3>1, ListsNone
  <2> HIDE DEF T
  <2>5. t \in 1 .. MaxTime /\ t - 1 \in 0 .. MaxTime /\ ~(t <= t - 1) BY <2>3, <2>4, MaxTimeNat
  <2>6. t - 1 \notin T BY <2>2, <2>5, Zenon
  <2>7. Lists(u[t - 1], m, Upto(t - 1)) BY <2>5, <2>6, Zenon DEF T
  <2>8. CASE t \in keys
    <3>1. Upto(t) = Upto(t - 1) \cup {t} BY <1>0, <2>5, <2>8
    <3>2. Upto(t - 1) \subseteq DOMAIN m /\ t \in DOMAIN m BY <2>8
    <3>3. \A k \in Upto(t - 1) : k < t BY <1>0, <2>5
    <3> HIDE DEF Upto
    <3>4. Lists(u[t - 1] \o m[t], m, Upto(t - 1) \cup {t}) BY <2>7, <3>2, <3>3, ListsMore
    <3>5. u[t] = u[t - 1] \o m[t] BY <1>1, <2>5, <2>8 DEF List
    <3> QED BY <2>3, <3>1, <3>4, <3>5
  <2>9. CASE t \notin keys
    <3>1. Upto(t) = Upto(t - 1) BY <1>0, <2>5, <2>9
    <3>2. u[t - 1] \in Seq(Items) BY <2>7 DEF Lists
    <3>3. u[t] = u[t - 1] \o <<>> BY <1>1, <2>5, <2>9 DEF List
    <3>4. u[t] = u[t - 1] BY <3>2, <3>3, ConcatEmptySeq
    <3> QED BY <2>3, <2>7, <3>1, <3>4
  <2> QED BY <2>8, <2>9
<1>3. Lists(u[MaxTime], m, Upto(MaxTime)) BY <1>2, MaxTimeNat
<1>4. Upto(MaxTime) = keys BY <1>0, MaxTimeNat
<1> QED BY <1>3, <1>4 DEF ItemsAt, u

---------------------------------------------------------------------------
(* A queue q and a map m *)

\* rel: the seconds in which delayed items are due; fc: the items forced; pu:
\* those pushed; dl: those delivered; t: the time.
Due(x, rel, fc) == x \in DOMAIN rel /\ x \notin fc

\* The items in the map are under the second they are due in, and the delayed
\* ones in the queue were due before now.
OnTime(q, m, rel, fc, pu, t) ==
  /\ q \in Seq(Items) /\ MapOK(m) /\ DOMAIN rel \subseteq pu
  /\ \A k \in DOMAIN m : \A x : In(x, m[k]) => x \in DOMAIN rel /\ rel[x] = k
  /\ \A x : In(x, q) => x \in pu
  /\ \A x : In(x, q) /\ Due(x, rel, fc) => rel[x] < t

\* Delivered, queued and in the map: in each and from each to the next, delayed
\* items come in the order in which they are due.
Ordered(q, m, rel, fc, dl) ==
  /\ \A a, b \in 1 .. Len(q) : a < b /\ Due(q[a], rel, fc) /\ Due(q[b], rel, fc) => rel[q[a]] <= rel[q[b]]
  /\ \A x, y : In(x, q) /\ y \in dl /\ Due(x, rel, fc) /\ Due(y, rel, fc) => rel[y] <= rel[x]
  /\ \A x : (In(x, q) \/ x \in dl) /\ Due(x, rel, fc) => \A k \in DOMAIN m : rel[x] <= k

\* No item is in two places.
Apart(q, m) == Inj(q) /\ Distinct(m) /\ \A k \in DOMAIN m : Disjoint(q, m[k])
Held(q, m, x) == In(x, q) \/ \E k \in DOMAIN m : In(x, m[k])

\* A map with fewer keys or items.
Within(m2, m) == MapOK(m2) /\ DOMAIN m2 \subseteq DOMAIN m /\ \A k \in DOMAIN m2 : \A x : In(x, m2[k]) => In(x, m[k])

LEMMA WithinKeeps ==
  ASSUME NEW q, NEW m, NEW m2, NEW rel, NEW fc, NEW pu, NEW dl, NEW t, Within(m2, m)
  PROVE  /\ OnTime(q, m, rel, fc, pu, t) => OnTime(q, m2, rel, fc, pu, t)
         /\ Ordered(q, m, rel, fc, dl) => Ordered(q, m2, rel, fc, dl)
<1>1. ASSUME OnTime(q, m, rel, fc, pu, t) PROVE OnTime(q, m2, rel, fc, pu, t)
  <2>1. \A k \in DOMAIN m2 : \A x : In(x, m2[k]) => x \in DOMAIN rel /\ rel[x] = k BY <1>1 DEF OnTime, Within
  <2> QED BY <1>1, <2>1 DEF OnTime, Within
<1>2. ASSUME Ordered(q, m, rel, fc, dl) PROVE Ordered(q, m2, rel, fc, dl) BY <1>2 DEF Ordered, Within
<1> QED BY <1>1, <1>2

LEMMA ForcedKeeps ==
  ASSUME NEW q, NEW m, NEW rel, NEW fc, NEW more, NEW pu, NEW dl, NEW t
  PROVE  /\ OnTime(q, m, rel, fc, pu, t) => OnTime(q, m, rel, fc \cup more, pu, t)
         /\ Ordered(q, m, rel, fc, dl) => Ordered(q, m, rel, fc \cup more, dl)
<1>1. \A x : Due(x, rel, fc \cup more) => Due(x, rel, fc) BY DEF Due
<1>2. ASSUME OnTime(q, m, rel, fc, pu, t) PROVE OnTime(q, m, rel, fc \cup more, pu, t) BY <1>1, <1>2 DEF OnTime
<1>3. ASSUME Ordered(q, m, rel, fc, dl) PROVE Ordered(q, m, rel, fc \cup more, dl) BY <1>1, <1>3 DEF Ordered
<1> QED BY <1>2, <1>3

\* pop_front()
LEMMA PopKeeps ==
  ASSUME NEW q \in Seq(Items), q # <<>>, NEW m, NEW rel, NEW fc, NEW pu, NEW dl, NEW t
  PROVE  /\ OnTime(q, m, rel, fc, pu, t) => OnTime(Tail(q), m, rel, fc, pu, t)
         /\ Ordered(q, m, rel, fc, dl) => Ordered(Tail(q), m, rel, fc, dl \cup {Head(q)})
         /\ Apart(q, m) => Apart(Tail(q), m) /\ \A x : Held(Tail(q), m, x) <=> Held(q, m, x) /\ x # Head(q)
<1> DEFINE h == Head(q)
           r == Tail(q)
<1>1. /\ Len(q) >= 1 /\ h = q[1] /\ In(h, q) /\ r \in Seq(Items) /\ Len(r) = Len(q) - 1 /\ Len(q) \in Nat
      /\ \A n \in 1 .. Len(q) - 1 : n + 1 \in 1 .. Len(q) /\ r[n] = q[n + 1]
      /\ \A x : In(x, q) <=> x = h \/ In(x, r)
      /\ Inj(q) => Inj(r) /\ ~In(h, r)
  BY TailFacts, SeqDomain
<1>2. DOMAIN r = 1 .. Len(q) - 1 BY <1>1, SeqDomain
<1> HIDE DEF h, r
<1>3. ASSUME OnTime(q, m, rel, fc, pu, t) PROVE OnTime(r, m, rel, fc, pu, t) BY <1>1, <1>3 DEF OnTime
<1>4. ASSUME Ordered(q, m, rel, fc, dl) PROVE Ordered(r, m, rel, fc, dl \cup {h})
  <2>1. ASSUME NEW a \in 1 .. Len(r), NEW b \in 1 .. Len(r), a < b, Due(r[a], rel, fc), Due(r[b], rel, fc)
        PROVE  rel[r[a]] <= rel[r[b]]
    <3>1. a + 1 \in 1 .. Len(q) /\ b + 1 \in 1 .. Len(q) /\ a + 1 < b + 1 /\ r[a] = q[a + 1] /\ r[b] = q[b + 1] BY <1>1, <2>1
    <3> QED BY <1>4, <2>1, <3>1 DEF Ordered
  <2>2. ASSUME NEW x, In(x, r), Due(x, rel, fc), Due(h, rel, fc) PROVE rel[h] <= rel[x]
    <3>1. PICK n \in 1 .. Len(q) - 1 : r[n] = x BY <1>2, <2>2 DEF In
    <3>2. 1 \in 1 .. Len(q) /\ n + 1 \in 1 .. Len(q) /\ 1 < n + 1 /\ q[n + 1] = x BY <1>1, <3>1
    <3> QED BY <1>1, <1>4, <2>2, <3>2 DEF Ordered
  <2>3. \A x, y : In(x, r) /\ y \in dl \cup {h} /\ Due(x, rel, fc) /\ Due(y, rel, fc) => rel[y] <= rel[x]
    BY <1>1, <1>4, <2>2 DEF Ordered
  <2>4. \A x : (In(x, r) \/ x \in dl \cup {h}) /\ Due(x, rel, fc) => \A k \in DOMAIN m : rel[x] <= k BY <1>1, <1>4 DEF Ordered
  <2> QED BY <2>1, <2>3, <2>4 DEF Ordered
<1>5. ASSUME Apart(q, m) PROVE Apart(r, m) /\ \A x : Held(r, m, x) <=> Held(q, m, x) /\ x # h
  <2>1. Apart(r, m) BY <1>1, <1>5 DEF Apart, Disjoint
  <2>2. ~In(h, r) /\ \A k \in DOMAIN m : ~In(h, m[k]) BY <1>1, <1>5 DEF Apart, Disjoint
  <2> QED BY <1>1, <2>1, <2>2, Zenon DEF Held
<1> QED BY <1>3, <1>4, <1>5 DEF h, r

\* push_back() of an item that has no delay.
LEMMA PushKeeps ==
  ASSUME NEW q \in Seq(Items), NEW m, NEW rel, NEW fc, NEW pu, NEW dl, NEW t, NEW i \in Items, i \notin DOMAIN rel
  PROVE  /\ OnTime(q, m, rel, fc, pu, t) => OnTime(Append(q, i), m, rel, fc, pu \cup {i}, t)
         /\ Ordered(q, m, rel, fc, dl) => Ordered(Append(q, i), m, rel, fc, dl)
         /\ Apart(q, m) /\ ~Held(q, m, i) => Apart(Append(q, i), m) /\ \A x : Held(Append(q, i), m, x) <=> Held(q, m, x) \/ x = i
<1> DEFINE r == Append(q, i)
<1>1. /\ r \in Seq(Items) /\ (Inj(q) /\ ~In(i, q) => Inj(r))
      /\ \A x : In(x, r) <=> In(x, q) \/ x = i
  BY AppendFacts
<1>2. /\ Len(q) \in Nat /\ Len(r) = Len(q) + 1 /\ r[Len(q) + 1] = i
      /\ \A n \in 1 .. Len(q) : r[n] = q[n]
  BY AppendProperties, SeqDomain
<1> HIDE DEF r
<1>3. ~Due(i, rel, fc) BY DEF Due
<1>4. ASSUME OnTime(q, m, rel, fc, pu, t) PROVE OnTime(r, m, rel, fc, pu \cup {i}, t) BY <1>1, <1>3, <1>4 DEF OnTime
<1>5. ASSUME Ordered(q, m, rel, fc, dl) PROVE Ordered(r, m, rel, fc, dl)
  <2>1. ASSUME NEW a \in 1 .. Len(r), NEW b \in 1 .. Len(r), a < b, Due(r[a], rel, fc), Due(r[b], rel, fc)
        PROVE  rel[r[a]] <= rel[r[b]]
    <3>1. a # Len(q) + 1 /\ b # Len(q) + 1 BY <1>2, <1>3, <2>1
    <3>2. a \in 1 .. Len(q) /\ b \in 1 .. Len(q) /\ r[a] = q[a] /\ r[b] = q[b] BY <1>2, <3>1
    <3> QED BY <1>5, <2>1, <3>2 DEF Ordered
  <2> QED BY <1>1, <1>3, <1>5, <2>1 DEF Ordered
<1>6. ASSUME Apart(q, m), ~Held(q, m, i) PROVE Apart(r, m) /\ \A x : Held(r, m, x) <=> Held(q, m, x) \/ x = i
  <2>1. ~In(i, q) /\ \A k \in DOMAIN m : ~In(i, m[k]) BY <1>6 DEF Held
  <2>2. \A k \in DOMAIN m : Disjoint(r, m[k]) BY <1>1, <1>6, <2>1, Zenon DEF Apart, Disjoint
  <2> QED BY <1>1, <1>6, <2>1, <2>2, Zenon DEF Apart, Held
<1> QED BY <1>4, <1>5, <1>6 DEF r

LEMMA ErasedMap ==
  ASSUME NEW m, NEW keys, MapOK(m)
  PROVE  /\ DOMAIN Erase(m, keys) = DOMAIN m \ keys
         /\ \A k \in DOMAIN m \ keys : Erase(m, keys)[k] = m[k]
         /\ Within(Erase(m, keys), m)
  BY DEF Erase, MapOK, Within

LEMMA ItemsAtIn ==
  ASSUME NEW m, MapOK(m), NEW keys, keys \subseteq DOMAIN m
  PROVE  ItemsAt(m, keys) \in Seq(Items) /\ \A x : In(x, ItemsAt(m, keys)) <=> \E k \in keys : In(x, m[k])
<1> DEFINE s == ItemsAt(m, keys)
<1>1. Lists(s, m, keys) BY ItemsAtLists
<1> HIDE DEF s
<1>2. s \in Seq(Items) BY <1>1 DEF Lists
<1>3. \A x : In(x, s) => \E n \in 1 .. Len(s) : s[n] = x BY <1>2, SeqDomain DEF In
<1>4. ASSUME NEW x PROVE In(x, s) <=> \E k \in keys : In(x, m[k]) BY <1>1, <1>3 DEF Lists
<1> QED BY <1>2, <1>4 DEF s

\* moveExpired(): the items move that are due, or forced.
LEMMA MoveOnTime ==
  ASSUME NEW q, NEW m, NEW rel, NEW fc, NEW pu, NEW t, NEW keys, keys \subseteq DOMAIN m,
         OnTime(q, m, rel, fc, pu, t),
         \A k \in keys : k < t \/ \A x : In(x, m[k]) => x \in fc
  PROVE  OnTime(q \o ItemsAt(m, keys), Erase(m, keys), rel, fc, pu, t)
<1> DEFINE s == ItemsAt(m, keys)
<1>1. q \in Seq(Items) /\ MapOK(m) BY DEF OnTime
<1>2. s \in Seq(Items) /\ \A x : In(x, s) <=> \E k \in keys : In(x, m[k]) BY <1>1, ItemsAtIn
<1> HIDE DEF s
<1>3. q \o s \in Seq(Items) /\ \A x : In(x, q \o s) <=> In(x, q) \/ In(x, s) BY <1>1, <1>2, InConcat, ConcatFacts
<1>4. ASSUME NEW x, In(x, s) PROVE x \in pu /\ (Due(x, rel, fc) => rel[x] < t)
  <2>1. PICK k \in keys : In(x, m[k]) BY <1>2, <1>4
  <2>2. x \in DOMAIN rel /\ rel[x] = k BY <2>1 DEF OnTime
  <2>3. Due(x, rel, fc) => k < t BY <2>1 DEF Due
  <2> QED BY <2>2, <2>3 DEF OnTime
<1>5. OnTime(q \o s, m, rel, fc, pu, t)
  <2>1. \A x : In(x, q \o s) => x \in pu BY <1>3, <1>4 DEF OnTime
  <2>2. \A x : In(x, q \o s) /\ Due(x, rel, fc) => rel[x] < t BY <1>3, <1>4 DEF OnTime
  <2> QED BY <1>3, <2>1, <2>2 DEF OnTime
<1>6. OnTime(q \o s, Erase(m, keys), rel, fc, pu, t) BY <1>1, <1>5, ErasedMap, WithinKeeps
<1> QED BY <1>6 DEF s

LEMMA MoveOrdered ==
  ASSUME NEW q, NEW m, NEW rel, NEW fc, NEW pu, NEW dl, NEW t, NEW keys, keys \subseteq DOMAIN m,
         OnTime(q, m, rel, fc, pu, t), Ordered(q, m, rel, fc, dl),
         \A k \in keys, j \in DOMAIN m \ keys : k <= j
  PROVE  Ordered(q \o ItemsAt(m, keys), Erase(m, keys), rel, fc, dl)
<1> DEFINE s == ItemsAt(m, keys)
<1>1. q \in Seq(Items) /\ MapOK(m) /\ \A k \in DOMAIN m : \A x : In(x, m[k]) => rel[x] = k BY DEF OnTime
<1>2. s \in Seq(Items) /\ \A x : In(x, s) <=> \E k \in keys : In(x, m[k]) BY <1>1, ItemsAtIn
<1>3. Lists(s, m, keys) BY <1>1, ItemsAtLists
<1>4. DOMAIN Erase(m, keys) = DOMAIN m \ keys BY <1>1, ErasedMap
<1> HIDE DEF s
<1>5. q \o s \in Seq(Items) /\ \A x : In(x, q \o s) <=> In(x, q) \/ In(x, s) BY <1>1, <1>2, InConcat, ConcatFacts
<1>6. /\ Len(q) \in Nat /\ Len(s) \in Nat /\ Len(q \o s) = Len(q) + Len(s)
      /\ DOMAIN q = 1 .. Len(q) /\ DOMAIN s = 1 .. Len(s)
  BY <1>1, <1>2, SeqDomain, ConcatFacts
<1>7. \A x : In(x, s) => \E k \in keys : rel[x] = k BY <1>1, <1>2
<1>8. ASSUME NEW a \in 1 .. Len(q \o s), NEW b \in 1 .. Len(q \o s), a < b, Due((q \o s)[a], rel, fc), Due((q \o s)[b], rel, fc)
      PROVE  rel[(q \o s)[a]] <= rel[(q \o s)[b]]
  <2>1. CASE b \in 1 .. Len(q)
    <3>1. a \in 1 .. Len(q) BY <1>6, <1>8, <2>1
    <3>2. (q \o s)[a] = q[a] /\ (q \o s)[b] = q[b] BY <1>1, <1>2, <2>1, <3>1, ConcatFacts
    <3> QED BY <1>8, <2>1, <3>1, <3>2 DEF Ordered
  <2>2. CASE a \in 1 .. Len(q) /\ b - Len(q) \in 1 .. Len(s) /\ (q \o s)[b] = s[b - Len(q)]
    <3>5. (q \o s)[a] = q[a] BY <1>1, <1>2, <2>2, ConcatFacts
    <3>6. In(q[a], q) BY <1>6, <2>2 DEF In
    <3>1. (q \o s)[a] = q[a] /\ In(q[a], q) BY <3>5, <3>6
    <3>2. In(s[b - Len(q)], s) BY <1>6, <2>2 DEF In
    <3>3. PICK k \in keys : rel[s[b - Len(q)]] = k BY <1>7, <3>2
    <3>4. rel[q[a]] <= k BY <1>8, <3>1 DEF Ordered
    <3> QED BY <2>2, <3>1, <3>3, <3>4
  <2>3. CASE /\ a - Len(q) \in 1 .. Len(s) /\ (q \o s)[a] = s[a - Len(q)]
             /\ b - Len(q) \in 1 .. Len(s) /\ (q \o s)[b] = s[b - Len(q)]
    <3>1. a - Len(q) < b - Len(q) BY <1>6, <1>8
    <3>2. PICK j \in keys, k \in keys : j <= k /\ In(s[a - Len(q)], m[j]) /\ In(s[b - Len(q)], m[k])
      BY <1>3, <2>3, <3>1 DEF Lists
    <3>3. rel[s[a - Len(q)]] = j /\ rel[s[b - Len(q)]] = k BY <1>1, <3>2
    <3> QED BY <2>3, <3>2, <3>3
  <2>4. ASSUME NEW n \in 1 .. Len(q \o s)
        PROVE  n \in 1 .. Len(q) \/ (n - Len(q) \in 1 .. Len(s) /\ (q \o s)[n] = s[n - Len(q)])
    BY <1>1, <1>2, <1>6, ConcatFacts
  <2> QED BY <2>1, <2>2, <2>3, <2>4
<1>9. ASSUME NEW x, NEW y, In(x, q \o s), y \in dl, Due(x, rel, fc), Due(y, rel, fc) PROVE rel[y] <= rel[x]
  <2>1. CASE In(x, q) BY <1>9, <2>1 DEF Ordered
  <2>2. CASE In(x, s) BY <1>7, <1>9, <2>2 DEF Ordered
  <2> QED BY <1>5, <1>9, <2>1, <2>2
<1>10. ASSUME NEW x, In(x, q \o s) \/ x \in dl, Due(x, rel, fc), NEW k \in DOMAIN m \ keys PROVE rel[x] <= k
  <2>1. CASE In(x, q) \/ x \in dl BY <1>10, <2>1 DEF Ordered
  <2>2. CASE In(x, s) BY <1>7, <2>2
  <2> QED BY <1>5, <1>10, <2>1, <2>2
<1>11. Ordered(q \o s, Erase(m, keys), rel, fc, dl) BY <1>4, <1>8, <1>9, <1>10 DEF Ordered
<1> QED BY <1>11 DEF s

LEMMA MoveApart ==
  ASSUME NEW q \in Seq(Items), NEW m, MapOK(m), NEW keys, keys \subseteq DOMAIN m, Apart(q, m)
  PROVE  /\ Apart(q \o ItemsAt(m, keys), Erase(m, keys))
         /\ \A x : Held(q \o ItemsAt(m, keys), Erase(m, keys), x) <=> Held(q, m, x)
<1> DEFINE s == ItemsAt(m, keys)
           e == Erase(m, keys)
<1>1. s \in Seq(Items) /\ \A x : In(x, s) <=> \E k \in keys : In(x, m[k]) BY ItemsAtIn
<1>2. Inj(s) BY ItemsAtLists DEF Lists, Apart
<1>3. DOMAIN e = DOMAIN m \ keys /\ \A k \in DOMAIN m \ keys : e[k] = m[k] BY ErasedMap
<1> HIDE DEF s, e
<1>4. \A x : In(x, q \o s) <=> In(x, q) \/ In(x, s) BY <1>1, InConcat
<1>5. Disjoint(q, s) BY <1>1, Zenon DEF Apart, Disjoint
<1>6. Inj(q \o s) BY <1>1, <1>2, <1>5, InjConcat DEF Apart
<1>7. Distinct(e) BY <1>3, Zenon DEF Apart, Distinct
<1>8. ASSUME NEW k \in DOMAIN e, NEW x, In(x, q \o s), In(x, e[k]) PROVE FALSE
  <2>1. k \in DOMAIN m /\ k \notin keys /\ In(x, m[k]) BY <1>3, <1>8
  <2>2. CASE In(x, q) BY <2>1, <2>2, Zenon DEF Apart, Disjoint
  <2>3. CASE In(x, s)
    <3>1. PICK j \in keys : In(x, m[j]) BY <1>1, <2>3
    <3>2. j # k BY <2>1
    <3> QED BY <2>1, <3>1, <3>2, Zenon DEF Apart, Distinct, Disjoint
  <2> QED BY <1>4, <1>8, <2>2, <2>3
<1>9. Apart(q \o s, e) BY <1>6, <1>7, <1>8, Zenon DEF Apart, Disjoint
<1>10. ASSUME NEW x PROVE Held(q \o s, e, x) <=> Held(q, m, x)
  <2>1. (\E k \in DOMAIN m : In(x, m[k])) <=> (\E k \in keys : In(x, m[k])) \/ (\E k \in DOMAIN e : In(x, e[k])) BY <1>3
  <2> QED BY <1>1, <1>4, <2>1, Zenon DEF Held
<1> QED BY <1>9, <1>10 DEF s, e

\* push() with a delay.
LEMMA DelayedMap ==
  ASSUME MapOK(delayedMap), NEW i \in Items, NEW k \in 1 .. MaxTime
  PROVE  /\ MapOK(Delayed(i, k)) /\ DOMAIN Delayed(i, k) = DOMAIN delayedMap \cup {k}
         /\ \A j \in DOMAIN delayedMap : j # k => Delayed(i, k)[j] = delayedMap[j]
         /\ \A x : In(x, Delayed(i, k)[k]) <=> x = i \/ (k \in DOMAIN delayedMap /\ In(x, delayedMap[k]))
         /\ (k \in DOMAIN delayedMap => Inj(delayedMap[k]) /\ ~In(i, delayedMap[k])) => Inj(Delayed(i, k)[k])
<1> DEFINE m == Delayed(i, k)
           list == IF k \in DOMAIN delayedMap THEN delayedMap[k] ELSE <<>>
<1>1. DOMAIN m = DOMAIN delayedMap \cup {k} /\ m[k] = Append(list, i) BY DEF Delayed
<1>2. \A j \in DOMAIN delayedMap : j # k => m[j] = delayedMap[j] BY DEF Delayed
<1> HIDE DEF m
<1>3. /\ list \in Seq(Items)
      /\ \A x : In(x, list) <=> k \in DOMAIN delayedMap /\ In(x, delayedMap[k])
  BY EmptyHasNone DEF MapOK
<1>4. (k \in DOMAIN delayedMap => Inj(delayedMap[k]) /\ ~In(i, delayedMap[k])) => Inj(list) /\ ~In(i, list) BY EmptyHasNone
<1> HIDE DEF list
<1>5. /\ Append(list, i) \in Seq(Items) /\ (Inj(list) /\ ~In(i, list) => Inj(Append(list, i)))
      /\ \A x : In(x, Append(list, i)) <=> In(x, list) \/ x = i
  BY <1>3, AppendFacts
<1>6. MapOK(m) BY <1>1, <1>2, <1>5 DEF MapOK
<1> QED BY <1>1, <1>2, <1>3, <1>4, <1>5, <1>6 DEF m

Noted(rel, i, k) == [j \in DOMAIN rel \cup {i} |-> IF j = i THEN k ELSE rel[j]]

LEMMA DelayKeeps ==
  ASSUME NEW q, NEW rel, NEW fc, NEW pu, NEW dl, NEW t \in Nat, NEW i \in Items, i \notin pu, NEW k \in 1 .. MaxTime, t < k,
         OnTime(q, delayedMap, rel, fc, pu, t)
  PROVE  /\ OnTime(q, Delayed(i, k), Noted(rel, i, k), fc, pu \cup {i}, t)
         /\ Ordered(q, delayedMap, rel, fc, dl) /\ dl \subseteq pu /\ (\A x \in dl : Due(x, rel, fc) => rel[x] < t)
              /\ (\A x \in DOMAIN rel : rel[x] \in Nat)
              => Ordered(q, Delayed(i, k), Noted(rel, i, k), fc, dl)
         /\ Apart(q, delayedMap) => /\ Apart(q, Delayed(i, k))
                                    /\ \A x : Held(q, Delayed(i, k), x) <=> Held(q, delayedMap, x) \/ x = i
<1> DEFINE m == Delayed(i, k)
           rel2 == Noted(rel, i, k)
<1>1. /\ q \in Seq(Items) /\ MapOK(delayedMap) /\ DOMAIN rel \subseteq pu
      /\ \A j \in DOMAIN delayedMap : \A x : In(x, delayedMap[j]) => x \in DOMAIN rel /\ rel[x] = j
      /\ \A x : In(x, q) => x \in pu
      /\ \A x : In(x, q) /\ Due(x, rel, fc) => rel[x] < t
  BY DEF OnTime
<1>2. /\ MapOK(m) /\ DOMAIN m = DOMAIN delayedMap \cup {k}
      /\ \A j \in DOMAIN delayedMap : j # k => m[j] = delayedMap[j]
      /\ \A x : In(x, m[k]) <=> x = i \/ (k \in DOMAIN delayedMap /\ In(x, delayedMap[k]))
      /\ (k \in DOMAIN delayedMap => Inj(delayedMap[k]) /\ ~In(i, delayedMap[k])) => Inj(m[k])
  BY <1>1, DelayedMap
<1> HIDE DEF m
<1>3. i \notin DOMAIN rel /\ ~In(i, q) /\ \A j \in DOMAIN delayedMap : ~In(i, delayedMap[j]) BY <1>1
<1>4. DOMAIN rel2 = DOMAIN rel \cup {i} /\ rel2[i] = k /\ \A x \in DOMAIN rel : x # i => rel2[x] = rel[x] BY DEF Noted
<1> HIDE DEF rel2
<1>5. \A x : x # i => (Due(x, rel2, fc) <=> Due(x, rel, fc)) /\ (Due(x, rel, fc) => rel2[x] = rel[x]) BY <1>4 DEF Due
<1>6. OnTime(q, m, rel2, fc, pu \cup {i}, t)
  <2>1. ASSUME NEW j \in DOMAIN m, NEW x, In(x, m[j]) PROVE x \in DOMAIN rel2 /\ rel2[x] = j
    <3>1. CASE x = i /\ j = k BY <1>4, <3>1
    <3>2. CASE j \in DOMAIN delayedMap /\ In(x, delayedMap[j])
      <4>1. x \in DOMAIN rel /\ rel[x] = j /\ x # i BY <1>1, <1>3, <3>2
      <4> QED BY <1>4, <4>1
    <3> QED BY <1>2, <2>1, <3>1, <3>2
  <2>2. \A x : In(x, q) /\ Due(x, rel2, fc) => rel2[x] < t BY <1>1, <1>3, <1>5
  <2>3. DOMAIN rel2 \subseteq pu \cup {i} /\ \A x : In(x, q) => x \in pu \cup {i} BY <1>1, <1>4
  <2> QED BY <1>1, <1>2, <2>1, <2>2, <2>3, Zenon DEF OnTime
<1>7. ASSUME Ordered(q, delayedMap, rel, fc, dl), dl \subseteq pu, \A x \in dl : Due(x, rel, fc) => rel[x] < t,
             \A x \in DOMAIN rel : rel[x] \in Nat
      PROVE  Ordered(q, m, rel2, fc, dl)
  <2>1. \A x : In(x, q) \/ x \in dl => x # i BY <1>3, <1>7
  <2>2. \A n \in 1 .. Len(q) : In(q[n], q) BY <1>1, SeqDomain DEF In
  <2>3. ASSUME NEW x, In(x, q) \/ x \in dl, Due(x, rel, fc) PROVE rel[x] <= k
    <3>1. rel[x] < t /\ rel[x] \in Nat BY <1>1, <1>7, <2>3 DEF Due
    <3>2. k \in Int BY MaxTimeNat
    <3> QED BY <3>1, <3>2
  <2>4. \A x : (In(x, q) \/ x \in dl) /\ Due(x, rel2, fc) => \A j \in DOMAIN m : rel2[x] <= j
    BY <1>2, <1>5, <1>7, <2>1, <2>3 DEF Ordered
  <2>5. \A x, y : In(x, q) /\ y \in dl /\ Due(x, rel2, fc) /\ Due(y, rel2, fc) => rel2[y] <= rel2[x]
    BY <1>5, <1>7, <2>1 DEF Ordered
  <2>6. \A a, b \in 1 .. Len(q) : a < b /\ Due(q[a], rel2, fc) /\ Due(q[b], rel2, fc) => rel2[q[a]] <= rel2[q[b]]
    BY <1>5, <1>7, <2>1, <2>2 DEF Ordered
  <2> QED BY <2>4, <2>5, <2>6 DEF Ordered
<1>8. ASSUME Apart(q, delayedMap)
      PROVE  Apart(q, m) /\ \A x : Held(q, m, x) <=> Held(q, delayedMap, x) \/ x = i
  <2>1. \A j \in DOMAIN delayedMap : \A x : In(x, m[j]) <=> In(x, delayedMap[j]) \/ (j = k /\ x = i) BY <1>2
  <2>2. \A j \in DOMAIN m : \A x : In(x, m[j]) => (j \in DOMAIN delayedMap /\ In(x, delayedMap[j])) \/ (j = k /\ x = i) BY <1>2
  <2>3. \A j \in DOMAIN m : Inj(m[j]) BY <1>2, <1>3, <1>8 DEF Apart, Distinct
  <2>4. \A j, l \in DOMAIN m : j # l => Disjoint(m[j], m[l]) BY <1>3, <1>8, <2>2, Zenon DEF Apart, Distinct, Disjoint
  <2>5. \A j \in DOMAIN m : Disjoint(q, m[j]) BY <1>3, <1>8, <2>2, Zenon DEF Apart, Disjoint
  <2>6. \A x : (\E j \in DOMAIN m : In(x, m[j])) <=> (\E j \in DOMAIN delayedMap : In(x, delayedMap[j])) \/ x = i
    BY <1>2, <2>1, <2>2
  <2> QED BY <1>8, <2>3, <2>4, <2>5, <2>6, Zenon DEF Apart, Distinct, Held
<1> QED BY <1>6, <1>7, <1>8 DEF m, rel2

\* The steps of shutdown(): an item is copied to the queue, popped from its
\* list, and the list erased.
Taken(m, k) == [m EXCEPT ![k] = Tail(m[k])]

LEMMA TakenMap ==
  ASSUME NEW m, MapOK(m), NEW k \in DOMAIN m, m[k] # <<>>
  PROVE  /\ Within(Taken(m, k), m) /\ DOMAIN Taken(m, k) = DOMAIN m
         /\ Distinct(m) => Distinct(Taken(m, k)) /\ \A j \in DOMAIN m : ~In(Head(m[k]), Taken(m, k)[j])
         /\ \A x : (\E j \in DOMAIN m : In(x, m[j])) <=> (\E j \in DOMAIN m : In(x, Taken(m, k)[j])) \/ x = Head(m[k])
<1> DEFINE r == Taken(m, k)
<1>1. DOMAIN r = DOMAIN m /\ r[k] = Tail(m[k]) /\ \A j \in DOMAIN m : j # k => r[j] = m[j] BY DEF Taken
<1> HIDE DEF r
<1>2. /\ m[k] \in Seq(Items) /\ Tail(m[k]) \in Seq(Items)
      /\ \A x : In(x, m[k]) <=> x = Head(m[k]) \/ In(x, Tail(m[k]))
      /\ Inj(m[k]) => Inj(Tail(m[k])) /\ ~In(Head(m[k]), Tail(m[k]))
  BY TailFacts DEF MapOK
<1>3. \A j \in DOMAIN m : \A x : In(x, r[j]) => In(x, m[j]) BY <1>1, <1>2
<1>4. Within(r, m) BY <1>1, <1>2, <1>3 DEF Within, MapOK
<1>5. ASSUME Distinct(m) PROVE Distinct(r) /\ \A j \in DOMAIN r : ~In(Head(m[k]), r[j])
  <2>1. \A j \in DOMAIN r : Inj(r[j]) BY <1>1, <1>2, <1>5 DEF Distinct
  <2>2. ASSUME NEW j \in DOMAIN r, NEW l \in DOMAIN r, j # l, NEW x, In(x, r[j]), In(x, r[l]) PROVE FALSE
    <3>1. j \in DOMAIN m /\ l \in DOMAIN m /\ In(x, m[j]) /\ In(x, m[l]) BY <1>1, <1>3, <2>2
    <3> QED BY <1>5, <2>2, <3>1, Zenon DEF Distinct, Disjoint
  <2>3. \A j \in DOMAIN r : ~In(Head(m[k]), r[j]) BY <1>1, <1>2, <1>5 DEF Distinct, Disjoint
  <2>4. \A j, l \in DOMAIN r : j # l => Disjoint(r[j], r[l]) BY <2>2 DEF Disjoint
  <2> QED BY <2>1, <2>3, <2>4 DEF Distinct
<1>6. ASSUME NEW x PROVE (\E j \in DOMAIN m : In(x, m[j])) <=> (\E j \in DOMAIN m : In(x, r[j])) \/ x = Head(m[k])
  BY <1>1, <1>2
<1> QED BY <1>1, <1>4, <1>5, <1>6 DEF r

LEMMA MoveOneKeeps ==
  ASSUME NEW q, NEW m, NEW rel, NEW fc, NEW pu, NEW dl, NEW t, OnTime(q, m, rel, fc, pu, t),
         NEW k \in DOMAIN m, m[k] # <<>>, k < t \/ Head(m[k]) \in fc
  PROVE  /\ OnTime(Append(q, Head(m[k])), m, rel, fc, pu, t)
         /\ Ordered(q, m, rel, fc, dl) /\ (\A j \in DOMAIN m : k <= j) => Ordered(Append(q, Head(m[k])), m, rel, fc, dl)
         /\ Apart(q, m) => /\ Apart(Append(q, Head(m[k])), Taken(m, k))
                           /\ \A x : Held(Append(q, Head(m[k])), Taken(m, k), x) <=> Held(q, m, x)
<1> DEFINE i == Head(m[k])
           r == Taken(m, k)
           p == Append(q, i)
<1>1. /\ q \in Seq(Items) /\ MapOK(m) /\ m[k] \in Seq(Items) /\ DOMAIN rel \subseteq pu
      /\ \A j \in DOMAIN m : \A x : In(x, m[j]) => x \in DOMAIN rel /\ rel[x] = j
      /\ \A x : In(x, q) => x \in pu
      /\ \A x : In(x, q) /\ Due(x, rel, fc) => rel[x] < t
  BY DEF OnTime, MapOK
<1>2. i \in Items /\ In(i, m[k]) BY <1>1, TailFacts
<1>3. i \in DOMAIN rel /\ rel[i] = k /\ (Due(i, rel, fc) => k < t) BY <1>1, <1>2 DEF Due
<1>4. /\ p \in Seq(Items) /\ (Inj(q) /\ ~In(i, q) => Inj(p))
      /\ \A x : In(x, p) <=> In(x, q) \/ x = i
  BY <1>1, <1>2, AppendFacts
<1>5. /\ Len(q) \in Nat /\ Len(p) = Len(q) + 1 /\ p[Len(q) + 1] = i /\ DOMAIN q = 1 .. Len(q)
      /\ \A n \in 1 .. Len(q) : p[n] = q[n]
  BY <1>1, <1>2, AppendProperties, SeqDomain
<1>6. /\ DOMAIN r = DOMAIN m
      /\ \A j \in DOMAIN m : \A x : In(x, r[j]) => In(x, m[j])
      /\ Distinct(m) => Distinct(r) /\ \A j \in DOMAIN r : ~In(i, r[j])
      /\ \A x : (\E j \in DOMAIN m : In(x, m[j])) <=> (\E j \in DOMAIN r : In(x, r[j])) \/ x = i
  <2>1. /\ Within(r, m) /\ DOMAIN r = DOMAIN m
        /\ Distinct(m) => Distinct(r) /\ \A j \in DOMAIN m : ~In(i, r[j])
        /\ \A x : (\E j \in DOMAIN m : In(x, m[j])) <=> (\E j \in DOMAIN m : In(x, r[j])) \/ x = i
    BY <1>1, TakenMap
  <2> HIDE DEF i, r
  <2>2. \A j \in DOMAIN m : \A x : In(x, r[j]) => In(x, m[j]) BY <2>1 DEF Within
  <2> QED BY <2>1, <2>2, Zenon
<1> HIDE DEF p, i, r
<1>7. OnTime(p, m, rel, fc, pu, t)
  <2>1. \A x : In(x, p) => x \in pu BY <1>1, <1>3, <1>4
  <2>2. \A x : In(x, p) /\ Due(x, rel, fc) => rel[x] < t BY <1>1, <1>3, <1>4
  <2> QED BY <1>1, <1>4, <2>1, <2>2 DEF OnTime
<1>8. ASSUME Ordered(q, m, rel, fc, dl), \A j \in DOMAIN m : k <= j PROVE Ordered(p, m, rel, fc, dl)
  <2>1. ASSUME NEW a \in 1 .. Len(p), NEW b \in 1 .. Len(p), a < b, Due(p[a], rel, fc), Due(p[b], rel, fc)
        PROVE  rel[p[a]] <= rel[p[b]]
    <3>1. a \in 1 .. Len(q) /\ p[a] = q[a] BY <1>5, <2>1
    <3>2. In(q[a], q) BY <1>5, <3>1 DEF In
    <3>3. CASE b \in 1 .. Len(q) BY <1>5, <1>8, <2>1, <3>1, <3>3 DEF Ordered
    <3>4. CASE b = Len(q) + 1 BY <1>3, <1>5, <1>8, <2>1, <3>1, <3>2, <3>4 DEF Ordered
    <3> QED BY <1>5, <3>3, <3>4
  <2>2. \A x, y : In(x, p) /\ y \in dl /\ Due(x, rel, fc) /\ Due(y, rel, fc) => rel[y] <= rel[x] BY <1>3, <1>4, <1>8 DEF Ordered
  <2>3. \A x : (In(x, p) \/ x \in dl) /\ Due(x, rel, fc) => \A j \in DOMAIN m : rel[x] <= j BY <1>3, <1>4, <1>8 DEF Ordered
  <2> QED BY <2>1, <2>2, <2>3 DEF Ordered
<1>9. ASSUME Apart(q, m) PROVE Apart(p, r) /\ \A x : Held(p, r, x) <=> Held(q, m, x)
  <2>1. ~In(i, q) BY <1>2, <1>9, Zenon DEF Apart, Disjoint, i
  <2>2. Inj(p) /\ Distinct(r) BY <1>4, <1>6, <1>9, <2>1 DEF Apart
  <2>3. ASSUME NEW j \in DOMAIN r, NEW x, In(x, p), In(x, r[j]) PROVE FALSE
    <3>1. j \in DOMAIN m /\ In(x, m[j]) BY <1>6, <2>3
    <3>2. x # i BY <1>6, <1>9, <2>3, Zenon DEF Apart
    <3>3. In(x, q) BY <1>4, <2>3, <3>2
    <3> QED BY <1>9, <3>1, <3>3, Zenon DEF Apart, Disjoint
  <2> QED BY <1>4, <1>6, <2>2, <2>3, Zenon DEF Apart, Disjoint, Held
<1> QED BY <1>7, <1>8, <1>9 DEF p, i, r

---------------------------------------------------------------------------
(* No item is early *)

Basics ==
  /\ now \in Nat /\ pushed \subseteq Items /\ delivered \subseteq pushed /\ kept \subseteq pushed
  /\ \A x \in DOMAIN release : release[x] \in Nat
  /\ \A x \in delivered : Due(x, release, forced) => release[x] < now

EarlyInv == Basics /\ OnTime(persistedQ, delayedMap, release, forced, pushed, now)

\* The keys that moveExpired() moves when it is not forced come before the others.
LEMMA ExpiredFirst ==
  ASSUME NEW q, NEW m, MapOK(m), now \in Nat
  PROVE  /\ MovedKeys(q, m, FALSE) \subseteq DOMAIN m
         /\ \A k \in MovedKeys(q, m, FALSE) : k < now
         /\ \A k \in MovedKeys(q, m, FALSE), j \in DOMAIN m \ MovedKeys(q, m, FALSE) : k <= j
<1>1. DOMAIN m \subseteq Nat BY DEF MapOK
<1> QED BY <1>1 DEF MovedKeys, ExpiredKeys

LEMMA MovedOnTime ==
  ASSUME NEW q, NEW m, NEW rel, NEW fc, NEW pu, now \in Nat, OnTime(q, m, rel, fc, pu, now)
  PROVE  OnTime(MovedQ(q, m, FALSE), MovedMap(q, m, FALSE), rel, fc, pu, now)
<1>1. MapOK(m) BY DEF OnTime
<1>2. MovedKeys(q, m, FALSE) \subseteq DOMAIN m /\ \A k \in MovedKeys(q, m, FALSE) : k < now BY <1>1, ExpiredFirst
<1> QED BY <1>2, MoveOnTime DEF MovedQ, MovedMap

LEMMA EarlyInit == Init => EarlyInv
<1> SUFFICES ASSUME Init PROVE EarlyInv OBVIOUS
<1>1. persistedQ = <<>> /\ delayedMap = <<>> /\ now = 1 /\ pushed = {} /\ release = <<>> /\ delivered = {} /\ kept = {} BY DEF Init
<1>2. DOMAIN <<>> = {} OBVIOUS
<1>3. MapOK(delayedMap) BY <1>1, <1>2 DEF MapOK
<1>4. OnTime(persistedQ, delayedMap, release, forced, pushed, now) BY <1>1, <1>2, <1>3, EmptyHasNone DEF OnTime
<1> QED BY <1>1, <1>2, <1>4 DEF EarlyInv, Basics

\* push()
LEMMA PushEarly == ASSUME EarlyInv, NEW i \in Items, Push(i) PROVE EarlyInv'
<1>0. Basics /\ OnTime(persistedQ, delayedMap, release, forced, pushed, now) /\ persistedQ \in Seq(Items) BY DEF EarlyInv, OnTime
<1>1. i \notin pushed /\ now <= LastPush /\ UNCHANGED <<now, kept>> BY DEF Push, Returns, closing
<1>2. CASE PushNow(i)
  <2>1. CASE Refused BY <1>0, <1>1, <2>1 DEF Refused, history, EarlyInv, Basics
  <2>2. CASE persistedQ' = Append(persistedQ, i) /\ pushed' = pushed \cup {i} /\ UNCHANGED <<delayedMap, release, delivered, forced>>
    <3>1. i \notin DOMAIN release BY <1>0, <1>1 DEF OnTime
    <3>2. OnTime(Append(persistedQ, i), delayedMap, release, forced, pushed \cup {i}, now) BY <1>0, <3>1, PushKeeps
    <3>3. OnTime(persistedQ, delayedMap, release, forced, pushed, now)' BY <1>1, <2>2, <3>2
    <3>4. Basics' BY <1>0, <1>1, <2>2 DEF Basics
    <3> QED BY <3>3, <3>4 DEF EarlyInv
  <2> QED BY <1>2, <2>1, <2>2 DEF PushNow
<1>3. ASSUME NEW d \in 1 .. MaxDelay, PushLater(i, d) PROVE EarlyInv'
  <2> DEFINE k == now + d
             m == Delayed(i, k)
             rel2 == Noted(release, i, k)
  <2>1. k \in 1 .. MaxTime /\ now < k /\ now \in Nat /\ k \in Nat BY <1>0, <1>1, BoundsAssumption DEF MaxTime, Basics
  <2>2. pushed' = pushed \cup {i} /\ release' = rel2 /\ UNCHANGED <<delivered, forced>> BY <1>3 DEF PushLater, Noted
  <2>3. \/ delayedMap' = m /\ persistedQ' = persistedQ
        \/ persistedQ' = MovedQ(persistedQ, m, FALSE) /\ delayedMap' = MovedMap(persistedQ, m, FALSE)
    BY <1>3 DEF PushLater
  <2> HIDE DEF k
  <2>4. OnTime(persistedQ, m, rel2, forced, pushed \cup {i}, now) BY <1>0, <1>1, <2>1, DelayKeeps
  <2> HIDE DEF m
  <2>5. OnTime(MovedQ(persistedQ, m, FALSE), MovedMap(persistedQ, m, FALSE), rel2, forced, pushed \cup {i}, now)
    BY <2>1, <2>4, MovedOnTime
  <2>6. OnTime(persistedQ, delayedMap, release, forced, pushed, now)' BY <1>1, <2>2, <2>3, <2>4, <2>5
  <2>7. Basics'
    <3>1. DOMAIN rel2 = DOMAIN release \cup {i} /\ rel2[i] = k /\ \A x \in DOMAIN release : x # i => rel2[x] = release[x] BY DEF Noted
    <3> HIDE DEF rel2
    <3>2. \A x \in DOMAIN rel2 : rel2[x] \in Nat BY <1>0, <2>1, <3>1 DEF Basics
    <3>3. i \notin delivered BY <1>0, <1>1 DEF Basics
    <3>4. ASSUME NEW x \in delivered, Due(x, rel2, forced) PROVE rel2[x] < now
      <4>1. x # i /\ x \in DOMAIN release /\ Due(x, release, forced) BY <3>1, <3>3, <3>4 DEF Due
      <4> QED BY <1>0, <3>1, <4>1 DEF Basics
    <3> QED BY <1>0, <1>1, <2>2, <3>2, <3>4 DEF Basics
  <2> QED BY <2>6, <2>7 DEF EarlyInv
<1> QED BY <1>2, <1>3 DEF Push

\* pop()
LEMMA PopEarly == ASSUME EarlyInv, Pop PROVE EarlyInv'
<1>0. Basics /\ OnTime(persistedQ, delayedMap, release, forced, pushed, now) BY DEF EarlyInv
<1>1. UNCHANGED <<now, kept>> BY DEF Pop, Returns, closing
<1>2. CASE Refused BY <1>0, <1>1, <1>2 DEF Refused, history, EarlyInv, Basics
<1> DEFINE q == MovedQ(persistedQ, delayedMap, FALSE)
           m == MovedMap(persistedQ, delayedMap, FALSE)
<1>3. CASE PopFrom(q, m)
  <2>5. OnTime(q, m, release, forced, pushed, now) BY <1>0, MovedOnTime DEF Basics
  <2>1. OnTime(q, m, release, forced, pushed, now) /\ q \in Seq(Items) BY <2>5 DEF OnTime
  <2>2. delayedMap' = m /\ UNCHANGED <<pushed, release, forced>> BY <1>3 DEF PopFrom
  <2> HIDE DEF q, m
  <2>3. CASE persistedQ' = q /\ UNCHANGED delivered
    <3>1. OnTime(persistedQ, delayedMap, release, forced, pushed, now)' BY <1>1, <2>1, <2>2, <2>3
    <3>2. Basics' BY <1>0, <1>1, <2>2, <2>3 DEF Basics
    <3> QED BY <3>1, <3>2 DEF EarlyInv
  <2>4. CASE q # <<>> /\ persistedQ' = Tail(q) /\ delivered' = delivered \cup {Head(q)}
    <3>1. OnTime(Tail(q), m, release, forced, pushed, now) BY <2>1, <2>4, PopKeeps
    <3>2. OnTime(persistedQ, delayedMap, release, forced, pushed, now)' BY <1>1, <2>2, <2>4, <3>1
    <3>3. In(Head(q), q) BY <2>1, <2>4, TailFacts
    <3>4. Head(q) \in pushed /\ (Due(Head(q), release, forced) => release[Head(q)] < now) BY <2>1, <3>3 DEF OnTime
    <3>5. Basics' BY <1>0, <1>1, <2>2, <2>4, <3>4 DEF Basics
    <3> QED BY <3>2, <3>5 DEF EarlyInv
  <2> QED BY <1>3, <2>3, <2>4 DEF PopFrom
<1> QED BY <1>2, <1>3 DEF Pop

\* empty()
LEMMA EmptyEarly == ASSUME EarlyInv, Empty PROVE EarlyInv'
<1>0. Basics /\ OnTime(persistedQ, delayedMap, release, forced, pushed, now) BY DEF EarlyInv
<1>1. UNCHANGED <<now, kept, pushed, release, delivered, forced>> BY DEF Empty, Returns, closing, history, Refused
<1>2. \/ UNCHANGED <<persistedQ, delayedMap>>
      \/ /\ persistedQ' = MovedQ(persistedQ, delayedMap, FALSE)
         /\ delayedMap' = MovedMap(persistedQ, delayedMap, FALSE)
  BY DEF Empty, Refused
<1>3. OnTime(MovedQ(persistedQ, delayedMap, FALSE), MovedMap(persistedQ, delayedMap, FALSE), release, forced, pushed, now)
  BY <1>0, MovedOnTime DEF Basics
<1>4. OnTime(persistedQ, delayedMap, release, forced, pushed, now)' BY <1>0, <1>1, <1>2, <1>3
<1>5. Basics' BY <1>0, <1>1 DEF Basics
<1> QED BY <1>4, <1>5 DEF EarlyInv

\* The steps of shutdown(), and the destructor.
LEMMA MoveItemEarly == ASSUME EarlyInv, MoveItem PROVE EarlyInv'
<1> DEFINE k == FirstKey(map_keys)
           i == Head(delayedMap[k])
<1>0. Basics /\ OnTime(persistedQ, delayedMap, release, forced, pushed, now) BY DEF EarlyInv
<1>1. k \in DOMAIN delayedMap /\ delayedMap[k] # <<>> /\ UNCHANGED <<delayedMap, now, pushed, release, delivered, kept>>
  BY DEF MoveItem
<1>2. CASE UNCHANGED <<persistedQ, forced>> BY <1>0, <1>1, <1>2 DEF EarlyInv, Basics
<1>3. CASE persistedQ' = Append(persistedQ, i) /\ forced' = IF k < now THEN forced ELSE forced \cup {i}
  <2> HIDE DEF k
  <2>1. \E more : forced' = forced \cup more
    <3>1. forced = forced \cup {} OBVIOUS
    <3> QED BY <1>3, <3>1
  <2>2. OnTime(persistedQ, delayedMap, release, forced', pushed, now) BY <1>0, <2>1, ForcedKeeps
  <2>3. k < now \/ i \in forced' BY <1>3
  <2>4. OnTime(Append(persistedQ, i), delayedMap, release, forced', pushed, now) BY <1>1, <2>2, <2>3, MoveOneKeeps
  <2>5. OnTime(persistedQ, delayedMap, release, forced, pushed, now)' BY <1>1, <1>3, <2>4
  <2>6. Basics' BY <1>0, <1>1, <2>1 DEF Basics, Due
  <2> QED BY <2>5, <2>6 DEF EarlyInv
<1> QED BY <1>2, <1>3 DEF MoveItem

LEMMA LessEarly ==
  ASSUME EarlyInv, Within(delayedMap', delayedMap), UNCHANGED <<persistedQ, now, history, kept>> PROVE EarlyInv'
<1>0. Basics /\ OnTime(persistedQ, delayedMap, release, forced, pushed, now) BY DEF EarlyInv
<1>1. OnTime(persistedQ, delayedMap', release, forced, pushed, now) BY <1>0, WithinKeeps
<1>2. OnTime(persistedQ, delayedMap, release, forced, pushed, now)' BY <1>1 DEF history
<1>3. Basics' BY <1>0 DEF Basics, history
<1> QED BY <1>2, <1>3 DEF EarlyInv

LEMMA PopMovedStep ==
  ASSUME MapOK(delayedMap), PopMoved
  PROVE  /\ FirstKey(map_keys) \in DOMAIN delayedMap /\ delayedMap[FirstKey(map_keys)] # <<>>
         /\ delayedMap' = Taken(delayedMap, FirstKey(map_keys)) /\ Within(delayedMap', delayedMap)
<1>1. /\ FirstKey(map_keys) \in DOMAIN delayedMap /\ delayedMap[FirstKey(map_keys)] # <<>>
      /\ delayedMap' = Taken(delayedMap, FirstKey(map_keys))
  BY DEF PopMoved, Taken
<1> QED BY <1>1, TakenMap

LEMMA DestroyEarly == ASSUME EarlyInv, Destroy PROVE EarlyInv'
<1> DEFINE more == UNION {SeqExt!ToSet(delayedMap[k]) : k \in {j \in DOMAIN delayedMap : j >= now}}
           keys == DOMAIN delayedMap
<1>0. Basics /\ OnTime(persistedQ, delayedMap, release, forced, pushed, now) /\ MapOK(delayedMap) BY DEF EarlyInv, OnTime
<1>1. /\ persistedQ' = persistedQ \o ItemsAt(delayedMap, keys) /\ delayedMap' = Erase(delayedMap, keys)
      /\ forced' = forced \cup more /\ UNCHANGED <<now, pushed, release, delivered, kept>>
  BY DEF Destroy, MovedQ, MovedMap, MovedKeys, ExpiredKeys, NoteForced, closing
<1>2. ASSUME NEW k \in keys PROVE k < now \/ \A x : In(x, delayedMap[k]) => x \in more
  <2>1. k \in Nat /\ now \in Nat BY <1>0 DEF MapOK, Basics
  <2>2. ASSUME k >= now, NEW x, In(x, delayedMap[k]) PROVE x \in more
    <3>1. x \in SeqExt!ToSet(delayedMap[k]) BY <2>2 DEF In, SeqExt!ToSet
    <3>2. k \in {j \in DOMAIN delayedMap : j >= now} BY <2>2
    <3> QED BY <3>1, <3>2
  <2> QED BY <2>1, <2>2
<1> HIDE DEF more
<1>3. OnTime(persistedQ, delayedMap, release, forced \cup more, pushed, now) BY <1>0, ForcedKeeps
<1>4. \A k \in keys : k < now \/ \A x : In(x, delayedMap[k]) => x \in forced \cup more BY <1>2
<1>5. OnTime(persistedQ \o ItemsAt(delayedMap, keys), Erase(delayedMap, keys), release, forced \cup more, pushed, now)
  BY <1>3, <1>4, MoveOnTime
<1>6. OnTime(persistedQ, delayedMap, release, forced, pushed, now)' BY <1>1, <1>5
<1>7. Basics' BY <1>0, <1>1 DEF Basics, Due
<1> QED BY <1>6, <1>7 DEF EarlyInv

LEMMA EarlyNext == EarlyInv /\ [Next]_vars => EarlyInv'
<1> SUFFICES ASSUME EarlyInv, [Next]_vars PROVE EarlyInv' OBVIOUS
<1>0. Basics /\ OnTime(persistedQ, delayedMap, release, forced, pushed, now) /\ MapOK(delayedMap) BY DEF EarlyInv, OnTime
<1>1. ASSUME UNCHANGED <<persistedQ, delayedMap, now, pushed, release, delivered, forced, kept>> PROVE EarlyInv'
  BY <1>0, <1>1 DEF EarlyInv, Basics
<1>2. CASE UNCHANGED vars BY <1>1, <1>2 DEF vars, history, closing
<1>3. CASE Tick
  <2>1. now' = now + 1 /\ UNCHANGED <<persistedQ, delayedMap, pushed, release, delivered, forced, kept>>
    BY <1>3 DEF Tick, history, closing
  <2>2. \A n \in Nat : n < now => n < now' BY <1>0, <2>1 DEF Basics
  <2>3. \A x : Due(x, release, forced) /\ release[x] < now => release[x] < now' BY <1>0, <2>2 DEF Basics, Due
  <2>4. OnTime(persistedQ, delayedMap, release, forced, pushed, now') BY <1>0, <2>3 DEF OnTime
  <2>5. OnTime(persistedQ, delayedMap, release, forced, pushed, now)' BY <2>1, <2>4
  <2>6. now' \in Nat BY <1>0, <2>1 DEF Basics
  <2>7. Basics' BY <1>0, <2>1, <2>3, <2>6 DEF Basics
  <2> QED BY <2>5, <2>7 DEF EarlyInv
<1>4. CASE Construct \/ DestroyThrows \/ ShutdownBegins \/ ShutdownReturns \/ Crash
  BY <1>1, <1>4 DEF Construct, DestroyThrows, ShutdownBegins, ShutdownReturns, Crash, history, closing
<1>13. ASSUME NEW c \in Calls, Begin(c) PROVE EarlyInv'
  BY <1>1, <1>13 DEF Begin, history, closing
<1>5. CASE Destroy BY <1>5, DestroyEarly
<1>6. CASE MoveItem BY <1>6, MoveItemEarly
<1>7. CASE PopMoved
  <2>1. Within(delayedMap', delayedMap) BY <1>0, <1>7, PopMovedStep
  <2> QED BY <1>7, <2>1, LessEarly DEF PopMoved
<1>8. CASE EraseKey
  <2>1. delayedMap' = Erase(delayedMap, {FirstKey(map_keys)}) BY <1>8 DEF EraseKey
  <2>2. Within(delayedMap', delayedMap) BY <1>0, <2>1, ErasedMap
  <2> QED BY <1>8, <2>2, LessEarly DEF EraseKey
<1>9. CASE ShutdownEnds
  <2>1. UNCHANGED <<persistedQ, delayedMap, now, pushed, release, delivered, forced>> /\ (kept' = kept \/ kept' = pushed)
    BY <1>9 DEF ShutdownEnds, history
  <2> QED BY <1>0, <2>1 DEF EarlyInv, Basics
<1>10. ASSUME NEW i \in Items, Push(i) PROVE EarlyInv' BY <1>10, PushEarly
<1>11. CASE Pop BY <1>11, PopEarly
<1>12. CASE Empty BY <1>12, EmptyEarly
<1> QED BY <1>2, <1>3, <1>4, <1>5, <1>6, <1>7, <1>8, <1>9, <1>10, <1>11, <1>12, <1>13 DEF Next, Shutdown

LEMMA EarlyAlways == Spec => []EarlyInv
  BY EarlyInit, EarlyNext, PTL DEF Spec

\* Only pop() delivers.
LEMMA OnlyPopDelivers ==
  ASSUME [Next]_vars, delivered' # delivered
  PROVE  Pop
<1>1. ~UNCHANGED vars BY DEF vars, history
<1>2. ~(Tick \/ Construct \/ Destroy \/ DestroyThrows) BY DEF Tick, Construct, Destroy, DestroyThrows, history
<1>3. ~Shutdown BY DEF Shutdown, ShutdownBegins, MoveItem, PopMoved, EraseKey, ShutdownEnds, ShutdownReturns, Crash, history
<1>6. ~\E c \in Calls : Begin(c) BY DEF Begin, history
<1>4. ~\E i \in Items : Push(i) BY DEF Push, PushNow, PushLater, Refused, history
<1>5. ~Empty BY DEF Empty, Refused, history
<1> QED BY <1>1, <1>2, <1>3, <1>4, <1>5, <1>6 DEF Next

\* However pushes, pops and other calls fall between, pop() gives no item out
\* before the second it is due in has passed, unless shutdown() or the
\* destructor moved it.
THEOREM NeverEarlyCorrect == Spec => NeverEarly
<1>1. EarlyInv /\ [Next]_vars =>
        [~overlapped => \A i \in (delivered' \ delivered) \cap DOMAIN release : i \notin forced => now > release[i]]_vars
  <2> SUFFICES ASSUME EarlyInv, [Next]_vars, NEW i \in (delivered' \ delivered) \cap DOMAIN release, i \notin forced
               PROVE  now > release[i]
    OBVIOUS
  <2>1. Pop BY OnlyPopDelivers
  <2>2. UNCHANGED <<now, release, forced>> BY <2>1 DEF Pop, Returns, PopFrom, Refused, history
  <2>3. Basics' /\ Basics BY EarlyNext DEF EarlyInv
  <2>4. Due(i, release, forced) BY DEF Due
  <2>5. release[i] < now BY <2>2, <2>3, <2>4 DEF Basics
  <2>6. now \in Nat /\ release[i] \in Nat BY <2>3 DEF Basics
  <2> QED BY <2>5, <2>6
<1> QED BY <1>1, EarlyAlways, PTL DEF Spec, NeverEarly

---------------------------------------------------------------------------
(* No item is lost or doubled, and the order is kept, as long as no call      *)
(* overlaps shutdown()                                                        *)

\* The map without the item that shutdown() has copied and not popped yet.
RestMap == IF shutting = "pop" THEN Taken(delayedMap, FirstKey(map_keys)) ELSE delayedMap

\* The keys shutdown() has still to go through are those of the map.
KeysInv ==
  /\ shutting \in {"no", "move", "pop", "return"} /\ (shutting \in {"no", "return"} => map_keys = {})
  /\ shutting # "no" => map_keys = DOMAIN delayedMap
  /\ shutting = "pop" => map_keys # {} /\ delayedMap[FirstKey(map_keys)] # <<>>

PlaceInv ==
  /\ Distinct(delayedMap) /\ Apart(persistedQ, RestMap)
  /\ \A x : Held(persistedQ, RestMap, x) <=> x \in pushed \ delivered

\* What was pushed before the end of the first shutdown() is not in the map.
KeptInv == shutDown => \A k \in DOMAIN delayedMap : \A x : In(x, delayedMap[k]) => x \notin kept

OrderInv == Ordered(persistedQ, delayedMap, release, forced, delivered)

QuietInv == KeysInv /\ PlaceInv /\ KeptInv /\ OrderInv

LEMMA QuietInit == Init => QuietInv
<1> SUFFICES ASSUME Init PROVE QuietInv OBVIOUS
<1>1. /\ persistedQ = <<>> /\ delayedMap = <<>> /\ shutting = "no" /\ map_keys = {} /\ shutDown = FALSE
      /\ pushed = {} /\ delivered = {}
  BY DEF Init
<1>2. DOMAIN <<>> = {} /\ 1 .. 0 = {} OBVIOUS
<1>3. RestMap = <<>> BY <1>1 DEF RestMap
<1>4. Distinct(<<>>) /\ Apart(<<>>, <<>>) /\ \A x : ~Held(<<>>, <<>>, x) BY <1>2, EmptyHasNone DEF Distinct, Apart, Held
<1>5. Ordered(<<>>, <<>>, release, forced, {}) BY <1>2, EmptyHasNone, Zenon DEF Ordered
<1> QED BY <1>1, <1>3, <1>4, <1>5 DEF QuietInv, KeysInv, PlaceInv, KeptInv, OrderInv

LEMMA QuietStays ==
  ASSUME QuietInv,
         UNCHANGED <<persistedQ, delayedMap, shutDown, shutting, map_keys, pushed, release, delivered, forced, kept>>
  PROVE  QuietInv'
  BY DEF QuietInv, KeysInv, PlaceInv, KeptInv, OrderInv, RestMap

LEMMA FirstKeyOfMap ==
  ASSUME MapOK(delayedMap), map_keys = DOMAIN delayedMap, map_keys # {}
  PROVE  FirstKey(map_keys) \in DOMAIN delayedMap /\ \A j \in DOMAIN delayedMap : FirstKey(map_keys) <= j
<1>1. map_keys \subseteq Nat BY DEF MapOK
<1> QED BY <1>1, FirstKeyFound

\* The steps of shutdown().
LEMMA QuietShutdown == ASSUME EarlyInv, QuietInv, Shutdown PROVE QuietInv'
<1> DEFINE k == FirstKey(map_keys)
<1>0. /\ OnTime(persistedQ, delayedMap, release, forced, pushed, now) /\ persistedQ \in Seq(Items) /\ MapOK(delayedMap)
      /\ KeysInv /\ PlaceInv /\ KeptInv /\ OrderInv
  BY DEF EarlyInv, OnTime, QuietInv
<1>1. map_keys # {} /\ shutting # "no" => k \in DOMAIN delayedMap /\ \A j \in DOMAIN delayedMap : k <= j
  BY <1>0, FirstKeyOfMap DEF KeysInv
<1>2. CASE ShutdownBegins
  <2>1. /\ shutting = "no" /\ shutting' = "move" /\ map_keys' = DOMAIN delayedMap
        /\ UNCHANGED <<persistedQ, delayedMap, shutDown, pushed, release, delivered, forced, kept>>
    BY <1>2 DEF ShutdownBegins, ShutdownKeys, ExpiredKeys, history
  <2>2. RestMap' = RestMap BY <2>1 DEF RestMap
  <2>3. KeysInv' BY <2>1 DEF KeysInv
  <2> QED BY <1>0, <2>1, <2>2, <2>3 DEF QuietInv, PlaceInv, KeptInv, OrderInv
<1>3. CASE Crash
  <2>1. map_keys # {} /\ shutting # "no" /\ (k \notin DOMAIN delayedMap \/ (shutting = "pop" /\ delayedMap[k] = <<>>))
    BY <1>3 DEF Crash
  <2> QED BY <1>0, <1>1, <2>1 DEF KeysInv
<1>4. CASE MoveItem
  <2> DEFINE i == Head(delayedMap[k])
  <2>1. /\ shutting = "move" /\ map_keys # {} /\ k \in DOMAIN delayedMap /\ delayedMap[k] # <<>>
        /\ UNCHANGED <<delayedMap, shutDown, pushed, release, delivered, kept>>
    BY <1>4 DEF MoveItem
  <2>2. RestMap = delayedMap BY <2>1 DEF RestMap
  <2>3. CASE shutting' = "no" /\ map_keys' = {} /\ UNCHANGED <<persistedQ, forced>>
    <3>1. RestMap' = RestMap BY <2>1, <2>2, <2>3 DEF RestMap
    <3>2. KeysInv' BY <2>3 DEF KeysInv
    <3> QED BY <1>0, <2>1, <2>3, <3>1, <3>2 DEF QuietInv, PlaceInv, KeptInv, OrderInv
  <2>4. CASE /\ persistedQ' = Append(persistedQ, i) /\ shutting' = "pop" /\ UNCHANGED map_keys
             /\ forced' = IF k < now THEN forced ELSE forced \cup {i}
    <3>1. KeysInv' BY <1>0, <2>1, <2>4 DEF KeysInv
    <3>2. RestMap' = Taken(delayedMap, k) BY <2>1, <2>4 DEF RestMap
    <3>3. \A j \in DOMAIN delayedMap : k <= j BY <1>1, <2>1
    <3> HIDE DEF k
    <3>4. PICK more : forced' = forced \cup more
      <4>1. forced = forced \cup {} OBVIOUS
      <4> QED BY <2>4, <4>1
    <3>5. /\ OnTime(persistedQ, delayedMap, release, forced', pushed, now)
          /\ Ordered(persistedQ, delayedMap, release, forced', delivered)
      <4>1. OnTime(persistedQ, delayedMap, release, forced \cup more, pushed, now) BY <1>0, ForcedKeeps
      <4>2. Ordered(persistedQ, delayedMap, release, forced \cup more, delivered) BY <1>0, ForcedKeeps DEF OrderInv
      <4> QED BY <3>4, <4>1, <4>2
    <3>6. k < now \/ i \in forced' BY <2>4
    <3>7. Apart(persistedQ, delayedMap) /\ \A x : Held(persistedQ, delayedMap, x) <=> x \in pushed \ delivered
      BY <1>0, <2>2 DEF PlaceInv
    <3>8. Ordered(Append(persistedQ, i), delayedMap, release, forced', delivered)
      BY <2>1, <3>3, <3>5, <3>6, MoveOneKeeps
    <3>9. /\ Apart(Append(persistedQ, i), Taken(delayedMap, k))
          /\ \A x : Held(Append(persistedQ, i), Taken(delayedMap, k), x) <=> Held(persistedQ, delayedMap, x)
      BY <2>1, <3>5, <3>6, <3>7, MoveOneKeeps
    <3>10. OrderInv' BY <2>1, <2>4, <3>8 DEF OrderInv
    <3>11. PlaceInv' BY <1>0, <2>1, <2>4, <3>2, <3>7, <3>9 DEF PlaceInv
    <3>12. KeptInv' BY <1>0, <2>1 DEF KeptInv
    <3> QED BY <3>1, <3>10, <3>11, <3>12 DEF QuietInv
  <2> QED BY <1>4, <2>3, <2>4 DEF MoveItem
<1>5. CASE PopMoved
  <2>1. /\ shutting = "pop" /\ shutting' = "move"
        /\ UNCHANGED <<persistedQ, shutDown, pushed, release, delivered, forced, map_keys, kept>>
    BY <1>5 DEF PopMoved, history
  <2>2. k \in DOMAIN delayedMap /\ delayedMap' = Taken(delayedMap, k) /\ Within(delayedMap', delayedMap) /\ delayedMap[k] # <<>>
    BY <1>0, <1>5, PopMovedStep
  <2>3. RestMap' = RestMap /\ delayedMap' = RestMap BY <2>1, <2>2 DEF RestMap
  <2>4. DOMAIN delayedMap' = DOMAIN delayedMap BY <1>0, <2>2, TakenMap
  <2>5. KeysInv' BY <1>0, <2>1, <2>4 DEF KeysInv
  <2>6. PlaceInv' BY <1>0, <2>1, <2>3 DEF PlaceInv, Apart
  <2>7. OrderInv'
    <3>1. Ordered(persistedQ, delayedMap', release, forced, delivered) BY <1>0, <2>2, WithinKeeps DEF OrderInv
    <3> QED BY <2>1, <3>1 DEF OrderInv
  <2>8. KeptInv' BY <1>0, <2>1, <2>2 DEF KeptInv, Within
  <2> QED BY <2>5, <2>6, <2>7, <2>8 DEF QuietInv
<1>6. CASE EraseKey
  <2>1. /\ shutting = "move" /\ shutting' = "move" /\ map_keys # {} /\ k \in DOMAIN delayedMap /\ delayedMap[k] = <<>>
        /\ delayedMap' = Erase(delayedMap, {k}) /\ map_keys' = map_keys \ {k}
        /\ UNCHANGED <<persistedQ, shutDown, pushed, release, delivered, forced, kept>>
    BY <1>6 DEF EraseKey, history
  <2>2. RestMap = delayedMap /\ RestMap' = delayedMap' BY <2>1 DEF RestMap
  <2> HIDE DEF k
  <2>3. /\ DOMAIN delayedMap' = DOMAIN delayedMap \ {k} /\ Within(delayedMap', delayedMap)
        /\ \A j \in DOMAIN delayedMap \ {k} : delayedMap'[j] = delayedMap[j]
    BY <1>0, <2>1, ErasedMap
  <2>4. KeysInv' BY <1>0, <2>1, <2>3 DEF KeysInv
  <2>5. \A x : ~In(x, delayedMap[k]) BY <2>1, EmptyHasNone
  <2>6. Distinct(delayedMap') BY <1>0, <2>3, Zenon DEF PlaceInv, Distinct
  <2>7. Apart(persistedQ, delayedMap') BY <1>0, <2>2, <2>3, <2>6 DEF PlaceInv, Apart
  <2>8. ASSUME NEW x PROVE Held(persistedQ, delayedMap', x) <=> Held(persistedQ, delayedMap, x) BY <2>3, <2>5 DEF Held
  <2>9. PlaceInv' BY <1>0, <2>1, <2>2, <2>6, <2>7, <2>8 DEF PlaceInv
  <2>10. OrderInv'
    <3>1. Ordered(persistedQ, delayedMap', release, forced, delivered) BY <1>0, <2>3, WithinKeeps DEF OrderInv
    <3> QED BY <2>1, <3>1 DEF OrderInv
  <2>11. KeptInv' BY <1>0, <2>1, <2>3 DEF KeptInv, Within
  <2> QED BY <2>4, <2>9, <2>10, <2>11 DEF QuietInv
<1>7. CASE ShutdownEnds
  <2>1. /\ shutting = "move" /\ shutting' = "return" /\ map_keys = {} /\ map_keys' = {}
        /\ UNCHANGED <<persistedQ, delayedMap, pushed, release, delivered, forced>>
    BY <1>7 DEF ShutdownEnds, history
  <2>2. DOMAIN delayedMap = {} BY <1>0, <2>1 DEF KeysInv
  <2>3. RestMap' = RestMap BY <2>1 DEF RestMap
  <2>4. KeysInv' /\ KeptInv' BY <2>1, <2>2 DEF KeysInv, KeptInv
  <2> QED BY <1>0, <2>1, <2>3, <2>4 DEF QuietInv, PlaceInv, OrderInv
<1>8. CASE ShutdownReturns
  <2>1. /\ shutting = "return" /\ shutting' = "no"
        /\ UNCHANGED <<persistedQ, delayedMap, shutDown, pushed, release, delivered, forced, map_keys, kept>>
    BY <1>8 DEF ShutdownReturns, history
  <2>2. RestMap' = RestMap BY <2>1 DEF RestMap
  <2>3. KeysInv' BY <1>0, <2>1 DEF KeysInv
  <2> QED BY <1>0, <2>1, <2>2, <2>3 DEF QuietInv, PlaceInv, KeptInv, OrderInv
<1> QED BY <1>2, <1>3, <1>4, <1>5, <1>6, <1>7, <1>8 DEF Shutdown

\* moveExpired(), not forced, keeps the order and the places.
LEMMA MovedPlaces ==
  ASSUME NEW q, NEW m, NEW rel, NEW fc, NEW pu, NEW dl, now \in Nat, OnTime(q, m, rel, fc, pu, now)
  PROVE  /\ Within(MovedMap(q, m, FALSE), m)
         /\ Ordered(q, m, rel, fc, dl) => Ordered(MovedQ(q, m, FALSE), MovedMap(q, m, FALSE), rel, fc, dl)
         /\ Apart(q, m) => /\ Apart(MovedQ(q, m, FALSE), MovedMap(q, m, FALSE))
                           /\ \A x : Held(MovedQ(q, m, FALSE), MovedMap(q, m, FALSE), x) <=> Held(q, m, x)
<1> DEFINE keys == MovedKeys(q, m, FALSE)
<1>1. q \in Seq(Items) /\ MapOK(m) BY DEF OnTime
<1>2. keys \subseteq DOMAIN m /\ \A k \in keys, j \in DOMAIN m \ keys : k <= j BY <1>1, ExpiredFirst
<1>3. MovedQ(q, m, FALSE) = q \o ItemsAt(m, keys) /\ MovedMap(q, m, FALSE) = Erase(m, keys) BY DEF MovedQ, MovedMap
<1> HIDE DEF keys
<1>4. Within(Erase(m, keys), m) BY <1>1, ErasedMap
<1>5. Ordered(q, m, rel, fc, dl) => Ordered(q \o ItemsAt(m, keys), Erase(m, keys), rel, fc, dl) BY <1>2, MoveOrdered
<1>6. Apart(q, m) => /\ Apart(q \o ItemsAt(m, keys), Erase(m, keys))
                     /\ \A x : Held(q \o ItemsAt(m, keys), Erase(m, keys), x) <=> Held(q, m, x)
  BY <1>1, <1>2, MoveApart
<1> QED BY <1>3, <1>4, <1>5, <1>6

\* A call that holds the mutex and moves what is expired, with the queue then as
\* it was or without its head.
LEMMA QuietMove ==
  ASSUME EarlyInv, QuietInv, shutting = "no",
         delayedMap' = MovedMap(persistedQ, delayedMap, FALSE),
         UNCHANGED <<shutDown, shutting, map_keys, pushed, release, forced, kept>>,
         NEW q, q = MovedQ(persistedQ, delayedMap, FALSE),
         \/ persistedQ' = q /\ UNCHANGED delivered
         \/ q # <<>> /\ persistedQ' = Tail(q) /\ delivered' = delivered \cup {Head(q)}
  PROVE  QuietInv'
<1>0. /\ OnTime(persistedQ, delayedMap, release, forced, pushed, now) /\ persistedQ \in Seq(Items) /\ MapOK(delayedMap)
      /\ now \in Nat /\ KeysInv /\ PlaceInv /\ KeptInv /\ OrderInv
  BY DEF EarlyInv, OnTime, QuietInv, Basics
<1> DEFINE m == delayedMap'
<1>1. Within(m, delayedMap) /\ Ordered(q, m, release, forced, delivered) BY <1>0, MovedPlaces DEF OrderInv
<1>2. q \in Seq(Items)
  <2>1. OnTime(q, m, release, forced, pushed, now) BY <1>0, MovedOnTime
  <2> QED BY <2>1 DEF OnTime
<1>3. /\ Distinct(m) /\ Apart(q, RestMap') /\ KeysInv'
      /\ \A x : Held(q, RestMap', x) <=> x \in pushed \ delivered
  <2>1. RestMap = delayedMap /\ RestMap' = m BY DEF RestMap
  <2>2. Apart(persistedQ, delayedMap) /\ \A x : Held(persistedQ, delayedMap, x) <=> x \in pushed \ delivered
    BY <1>0, <2>1 DEF PlaceInv
  <2>3. Apart(q, m) /\ \A x : Held(q, m, x) <=> Held(persistedQ, delayedMap, x) BY <1>0, <2>2, MovedPlaces
  <2>4. Distinct(m) BY <2>3 DEF Apart
  <2>5. KeysInv' BY <1>0 DEF KeysInv
  <2> QED BY <2>1, <2>2, <2>3, <2>4, <2>5
<1>4. KeptInv' BY <1>0, <1>1 DEF KeptInv, Within
<1> HIDE DEF m
<1>5. CASE persistedQ' = q /\ UNCHANGED delivered
  <2>1. PlaceInv' BY <1>3, <1>5 DEF PlaceInv, m
  <2>2. OrderInv' BY <1>1, <1>5 DEF OrderInv, m
  <2> QED BY <1>3, <1>4, <2>1, <2>2 DEF QuietInv
<1>6. CASE q # <<>> /\ persistedQ' = Tail(q) /\ delivered' = delivered \cup {Head(q)}
  <2>1. Ordered(Tail(q), m, release, forced, delivered \cup {Head(q)}) BY <1>1, <1>2, <1>6, PopKeeps
  <2>2. Apart(Tail(q), RestMap') /\ \A x : Held(Tail(q), RestMap', x) <=> Held(q, RestMap', x) /\ x # Head(q)
    BY <1>2, <1>3, <1>6, PopKeeps
  <2>3. \A x : Held(Tail(q), RestMap', x) <=> x \in pushed \ (delivered \cup {Head(q)}) BY <1>3, <2>2
  <2>4. PlaceInv' BY <1>3, <1>6, <2>2, <2>3 DEF PlaceInv, m
  <2>5. OrderInv' BY <1>6, <2>1 DEF OrderInv, m
  <2> QED BY <1>3, <1>4, <2>4, <2>5 DEF QuietInv
<1> QED BY <1>5, <1>6

\* push()
LEMMA QuietPush ==
  ASSUME EarlyInv, QuietInv, NEW i \in Items, Push(i), shutting = "no" PROVE QuietInv'
<1>0. /\ OnTime(persistedQ, delayedMap, release, forced, pushed, now) /\ persistedQ \in Seq(Items) /\ MapOK(delayedMap)
      /\ Basics /\ KeysInv /\ PlaceInv /\ KeptInv /\ OrderInv
  BY DEF EarlyInv, OnTime, QuietInv
<1>1. i \notin pushed /\ now <= LastPush /\ UNCHANGED <<shutDown, now, shutting, map_keys, kept>> BY DEF Push, Returns, closing
<1>2. i \notin DOMAIN release /\ i \notin delivered /\ i \notin kept BY <1>0, <1>1 DEF OnTime, Basics
<1>3. CASE PushNow(i)
  <2>1. CASE Refused BY <1>1, <2>1, QuietStays DEF Refused, history
  <2>2. CASE persistedQ' = Append(persistedQ, i) /\ pushed' = pushed \cup {i} /\ UNCHANGED <<delayedMap, release, delivered, forced>>
    <3>1. RestMap' = RestMap BY <1>1, <2>2 DEF RestMap
    <3>2. ~Held(persistedQ, RestMap, i) BY <1>0, <1>1 DEF PlaceInv
    <3>3. /\ Apart(Append(persistedQ, i), RestMap)
          /\ \A x : Held(Append(persistedQ, i), RestMap, x) <=> Held(persistedQ, RestMap, x) \/ x = i
      BY <1>0, <1>2, <3>2, PushKeeps DEF PlaceInv
    <3>4. PlaceInv' BY <1>0, <1>1, <1>2, <2>2, <3>1, <3>3 DEF PlaceInv
    <3>5. Ordered(Append(persistedQ, i), delayedMap, release, forced, delivered) BY <1>0, <1>2, PushKeeps DEF OrderInv
    <3>6. OrderInv' BY <2>2, <3>5 DEF OrderInv
    <3>7. KeysInv' /\ KeptInv' BY <1>0, <1>1, <2>2 DEF KeysInv, KeptInv
    <3> QED BY <3>4, <3>6, <3>7 DEF QuietInv
  <2> QED BY <1>3, <2>1, <2>2 DEF PushNow
<1>4. ASSUME NEW d \in 1 .. MaxDelay, PushLater(i, d) PROVE QuietInv'
  <2> DEFINE k == now + d
             m == Delayed(i, k)
             rel2 == Noted(release, i, k)
  <2>1. k \in 1 .. MaxTime /\ now < k /\ now \in Nat /\ k \in Nat BY <1>0, <1>1, BoundsAssumption DEF MaxTime, Basics
  <2>2. pushed' = pushed \cup {i} /\ release' = rel2 /\ UNCHANGED <<delivered, forced>> BY <1>4 DEF PushLater, Noted
  <2>3. \/ delayedMap' = m /\ persistedQ' = persistedQ
        \/ persistedQ' = MovedQ(persistedQ, m, FALSE) /\ delayedMap' = MovedMap(persistedQ, m, FALSE)
    BY <1>4 DEF PushLater
  <2> HIDE DEF k
  <2>4. OnTime(persistedQ, m, rel2, forced, pushed \cup {i}, now) BY <1>0, <1>1, <2>1, DelayKeeps
  <2>5. /\ MapOK(m) /\ DOMAIN m = DOMAIN delayedMap \cup {k}
        /\ \A x : In(x, m[k]) <=> x = i \/ (k \in DOMAIN delayedMap /\ In(x, delayedMap[k]))
        /\ \A j \in DOMAIN delayedMap : j # k => m[j] = delayedMap[j]
    BY <1>0, <2>1, DelayedMap
  <2>6. Ordered(persistedQ, m, rel2, forced, delivered)
    <3>1. delivered \subseteq pushed /\ (\A x \in delivered : Due(x, release, forced) => release[x] < now) /\ \A x \in DOMAIN release : release[x] \in Nat
      BY <1>0 DEF Basics
    <3> QED BY <1>0, <1>1, <2>1, <3>1, DelayKeeps DEF OrderInv
  <2>8. RestMap = delayedMap /\ RestMap' = delayedMap' BY <1>1 DEF RestMap
  <2>9. /\ Apart(persistedQ, m)
        /\ \A x : Held(persistedQ, m, x) <=> x \in (pushed \cup {i}) \ delivered
    <3>1. Apart(persistedQ, delayedMap) /\ \A x : Held(persistedQ, delayedMap, x) <=> x \in pushed \ delivered BY <1>0, <2>8 DEF PlaceInv
    <3>2. Apart(persistedQ, m) /\ \A x : Held(persistedQ, m, x) <=> Held(persistedQ, delayedMap, x) \/ x = i
      BY <1>0, <1>1, <2>1, <3>1, DelayKeeps
    <3> QED BY <1>2, <3>1, <3>2
  <2>10. \A j \in DOMAIN m : \A x : In(x, m[j]) => x = i \/ (j \in DOMAIN delayedMap /\ In(x, delayedMap[j])) BY <2>5
  <2> HIDE DEF m, rel2
  <2>11. /\ Within(delayedMap', m) /\ Apart(persistedQ', delayedMap') /\ Ordered(persistedQ', delayedMap', rel2, forced, delivered)
         /\ \A x : Held(persistedQ', delayedMap', x) <=> Held(persistedQ, m, x)
    <3>1. CASE delayedMap' = m /\ persistedQ' = persistedQ BY <2>5, <2>6, <2>9, <3>1 DEF Within
    <3>2. CASE persistedQ' = MovedQ(persistedQ, m, FALSE) /\ delayedMap' = MovedMap(persistedQ, m, FALSE)
      BY <2>1, <2>4, <2>6, <2>9, <3>2, MovedPlaces
    <3> QED BY <2>3, <3>1, <3>2
  <2>12. PlaceInv' BY <2>2, <2>8, <2>9, <2>11 DEF PlaceInv, Apart
  <2>13. OrderInv' BY <2>2, <2>11 DEF OrderInv
  <2>14. KeysInv' BY <1>0, <1>1 DEF KeysInv
  <2>15. KeptInv' BY <1>0, <1>1, <1>2, <2>10, <2>11 DEF KeptInv, Within
  <2> QED BY <2>12, <2>13, <2>14, <2>15 DEF QuietInv
<1> QED BY <1>3, <1>4 DEF Push

\* The destructor moves every item.
LEMMA QuietDestroy == ASSUME EarlyInv, QuietInv, Destroy PROVE QuietInv'
<1> DEFINE more == UNION {SeqExt!ToSet(delayedMap[k]) : k \in {j \in DOMAIN delayedMap : j >= now}}
           keys == DOMAIN delayedMap
<1>0. /\ OnTime(persistedQ, delayedMap, release, forced, pushed, now) /\ persistedQ \in Seq(Items) /\ MapOK(delayedMap)
      /\ KeysInv /\ PlaceInv /\ OrderInv
  BY DEF EarlyInv, OnTime, QuietInv
<1>1. /\ persistedQ' = persistedQ \o ItemsAt(delayedMap, keys) /\ delayedMap' = Erase(delayedMap, keys)
      /\ forced' = forced \cup more /\ ~shutDown /\ shutting = "no"
      /\ UNCHANGED <<shutDown, pushed, release, delivered, kept, shutting, map_keys>>
  BY DEF Destroy, MovedQ, MovedMap, MovedKeys, ExpiredKeys, NoteForced, closing
<1> HIDE DEF more
<1>2. RestMap = delayedMap /\ RestMap' = delayedMap' BY <1>1 DEF RestMap
<1>3. /\ OnTime(persistedQ, delayedMap, release, forced \cup more, pushed, now)
      /\ Ordered(persistedQ, delayedMap, release, forced \cup more, delivered)
  BY <1>0, ForcedKeeps DEF OrderInv
<1>4. Ordered(persistedQ \o ItemsAt(delayedMap, keys), Erase(delayedMap, keys), release, forced \cup more, delivered)
  BY <1>3, MoveOrdered
<1>5. OrderInv' BY <1>1, <1>4 DEF OrderInv
<1>6. Apart(persistedQ, delayedMap) /\ \A x : Held(persistedQ, delayedMap, x) <=> x \in pushed \ delivered
  BY <1>0, <1>2 DEF PlaceInv
<1>7. /\ Apart(persistedQ \o ItemsAt(delayedMap, keys), Erase(delayedMap, keys))
      /\ \A x : Held(persistedQ \o ItemsAt(delayedMap, keys), Erase(delayedMap, keys), x) <=> Held(persistedQ, delayedMap, x)
  BY <1>0, <1>6, MoveApart
<1>8. Apart(persistedQ', delayedMap') /\ \A x : Held(persistedQ', delayedMap', x) <=> x \in pushed \ delivered
  BY <1>1, <1>6, <1>7
<1>9. PlaceInv' BY <1>1, <1>2, <1>8 DEF PlaceInv, Apart
<1>10. KeysInv' /\ KeptInv' BY <1>0, <1>1 DEF KeysInv, KeptInv
<1> QED BY <1>5, <1>9, <1>10 DEF QuietInv

\* Unless one has overlapped shutdown(), no call is under way together with it.
DelayInv ==
  /\ EarlyInv /\ overlapped \in BOOLEAN
  /\ overlapped = FALSE => QuietInv /\ (holder = "none" \/ shutting = "no")

LEMMA DelayInit == Init => DelayInv
<1>1. Init => overlapped \in BOOLEAN /\ holder = "none" BY DEF Init
<1> QED BY <1>1, EarlyInit, QuietInit DEF DelayInv

LEMMA DelayNext == DelayInv /\ [Next]_vars => DelayInv'
<1> SUFFICES ASSUME DelayInv, [Next]_vars PROVE DelayInv' OBVIOUS
<1>0. EarlyInv /\ overlapped \in BOOLEAN /\ (overlapped = FALSE => QuietInv /\ (holder = "none" \/ shutting = "no")) BY DEF DelayInv
<1>1. EarlyInv' BY <1>0, EarlyNext
<1>2. ASSUME UNCHANGED overlapped, overlapped = FALSE => QuietInv' /\ (holder = "none" \/ shutting = "no")' PROVE DelayInv'
  BY <1>0, <1>1, <1>2 DEF DelayInv
\* A step that is not one of the queue's.
<1>3. ASSUME UNCHANGED <<overlapped, holder, persistedQ, delayedMap, shutDown, shutting, map_keys, pushed, release, delivered, forced, kept>>
      PROVE  DelayInv'
  BY <1>0, <1>2, <1>3, QuietStays
<1>4. CASE UNCHANGED vars BY <1>3, <1>4 DEF vars, history, closing
<1>5. CASE Tick \/ Construct \/ DestroyThrows BY <1>3, <1>5 DEF Tick, Construct, DestroyThrows, history, closing
<1>6. CASE Destroy
  <2>1. UNCHANGED <<overlapped, holder, shutting>> BY <1>6 DEF Destroy, closing
  <2> QED BY <1>0, <1>2, <1>6, <2>1, QuietDestroy
<1>7. CASE ShutdownBegins
  <2>1. overlapped = FALSE /\ overlapped' = (holder # "none") /\ UNCHANGED holder BY <1>0, <1>7 DEF ShutdownBegins
  <2>2. QuietInv' BY <1>0, <1>7, <2>1, QuietShutdown DEF Shutdown
  <2>3. overlapped' \in BOOLEAN /\ (overlapped' = FALSE => holder' = "none") BY <2>1
  <2> QED BY <1>1, <2>2, <2>3 DEF DelayInv
<1>8. CASE MoveItem \/ PopMoved \/ EraseKey \/ ShutdownEnds \/ ShutdownReturns \/ Crash
  <2>1. Shutdown /\ UNCHANGED <<overlapped, holder>> /\ shutting # "no"
    BY <1>8 DEF Shutdown, MoveItem, PopMoved, EraseKey, ShutdownEnds, ShutdownReturns, Crash
  <2>2. overlapped = FALSE => QuietInv' /\ holder' = "none" BY <1>0, <2>1, QuietShutdown
  <2> QED BY <1>2, <2>1, <2>2
<1>9. ASSUME NEW c \in Calls, Begin(c) PROVE DelayInv'
  <2>1. /\ overlapped = FALSE /\ overlapped' = (shutting # "no")
        /\ UNCHANGED <<persistedQ, delayedMap, shutDown, shutting, map_keys, pushed, release, delivered, forced, kept>>
    BY <1>0, <1>9 DEF Begin, history, closing
  <2>2. QuietInv' BY <1>0, <2>1, QuietStays
  <2>3. overlapped' \in BOOLEAN /\ (overlapped' = FALSE => shutting' = "no") BY <2>1
  <2> QED BY <1>1, <2>2, <2>3 DEF DelayInv
\* A call that held the mutex returns.
<1>10. ASSUME NEW c \in Calls, Returns(c), QuietInv /\ shutting = "no" => QuietInv' PROVE DelayInv'
  <2>1. holder = c /\ c # "none" /\ holder' = "none" /\ UNCHANGED overlapped BY <1>10 DEF Returns, Calls
  <2> QED BY <1>0, <1>2, <1>10, <2>1
<1>11. ASSUME NEW c \in Calls, Returns(c), Refused, QuietInv PROVE QuietInv'
  BY <1>11, QuietStays DEF Returns, Refused, history, closing
<1>12. "push" \in Calls /\ "pop" \in Calls /\ "empty" \in Calls BY DEF Calls
<1>13. ASSUME NEW i \in Items, Push(i) PROVE DelayInv'
  <2>1. Returns("push") BY <1>13 DEF Push
  <2> QED BY <1>0, <1>10, <1>12, <1>13, <2>1, QuietPush
<1>14. CASE Pop
  <2>1. Returns("pop") /\ UNCHANGED closing /\ UNCHANGED shutDown BY <1>14 DEF Pop, Returns
  <2>2. ASSUME PopFrom(MovedQ(persistedQ, delayedMap, FALSE), MovedMap(persistedQ, delayedMap, FALSE)), QuietInv, shutting = "no"
        PROVE  QuietInv'
    <3>1. /\ delayedMap' = MovedMap(persistedQ, delayedMap, FALSE)
          /\ UNCHANGED <<shutDown, shutting, map_keys, pushed, release, forced, kept>>
      BY <2>1, <2>2 DEF PopFrom, closing
    <3> DEFINE q == MovedQ(persistedQ, delayedMap, FALSE)
    <3>2. \/ persistedQ' = q /\ UNCHANGED delivered
          \/ q # <<>> /\ persistedQ' = Tail(q) /\ delivered' = delivered \cup {Head(q)}
      BY <2>2 DEF PopFrom
    <3> QED BY <1>0, <2>2, <3>1, <3>2, QuietMove
  <2> QED BY <1>10, <1>11, <1>12, <1>14, <2>1, <2>2 DEF Pop
<1>15. CASE Empty
  <2>1. Returns("empty") /\ UNCHANGED closing /\ UNCHANGED shutDown BY <1>15 DEF Empty, Returns
  <2>2. ASSUME persistedQ' = MovedQ(persistedQ, delayedMap, FALSE), delayedMap' = MovedMap(persistedQ, delayedMap, FALSE),
               UNCHANGED history, QuietInv, shutting = "no"
        PROVE  QuietInv'
    <3>1. UNCHANGED <<shutDown, shutting, map_keys, pushed, release, forced, kept, delivered>>
      BY <2>1, <2>2 DEF history, closing
    <3> QED BY <1>0, <2>2, <3>1, QuietMove
  <2> QED BY <1>10, <1>11, <1>12, <1>15, <2>1, <2>2 DEF Empty
<1> QED BY <1>4, <1>5, <1>6, <1>7, <1>8, <1>9, <1>13, <1>14, <1>15 DEF Next, Shutdown

LEMMA DelayAlways == Spec => []DelayInv
  BY DelayInit, DelayNext, PTL DEF Spec

\* pop() takes the head of a queue that Ordered holds of, with what moveExpired()
\* has just appended to it: unless a call overlapped a shutdown(), no delayed
\* item is given out after one that was due later.
THEOREM InDueOrderCorrect == Spec => InDueOrder
<1>1. DelayInv /\ [Next]_vars =>
        [~overlapped => \A i \in delivered' \ delivered, j \in delivered :
           {i, j} \subseteq DOMAIN release \ forced => release[j] <= release[i]]_vars
  <2> SUFFICES ASSUME DelayInv, [Next]_vars, ~overlapped, NEW i \in delivered' \ delivered, NEW j \in delivered,
                      {i, j} \subseteq DOMAIN release \ forced
               PROVE  release[j] <= release[i]
    OBVIOUS
  <2>1. EarlyInv /\ QuietInv BY DEF DelayInv
  <2>2. Pop BY OnlyPopDelivers
  <2> DEFINE q == MovedQ(persistedQ, delayedMap, FALSE)
             m == MovedMap(persistedQ, delayedMap, FALSE)
  <2>3. OnTime(persistedQ, delayedMap, release, forced, pushed, now) /\ now \in Nat /\ OrderInv
    BY <2>1 DEF EarlyInv, QuietInv, Basics
  <2>4. Ordered(q, m, release, forced, delivered) BY <2>3, MovedPlaces DEF OrderInv
  <2>5. q \in Seq(Items)
    <3>1. OnTime(q, m, release, forced, pushed, now) BY <2>3, MovedOnTime
    <3> QED BY <3>1 DEF OnTime
  <2>6. q # <<>> /\ i = Head(q) BY <2>2 DEF Pop, Refused, history, PopFrom
  <2> HIDE DEF q, m
  <2>7. In(i, q) BY <2>5, <2>6, TailFacts
  <2>8. Due(i, release, forced) /\ Due(j, release, forced) BY DEF Due
  <2> QED BY <2>4, <2>7, <2>8 DEF Ordered
<1> QED BY <1>1, DelayAlways, PTL DEF Spec, InDueOrder

---------------------------------------------------------------------------
(* size(), and the copies that are held *)

\* How often x is in s followed by r.
LEMMA CountConcat ==
  ASSUME NEW s \in Seq(Items), NEW r \in Seq(Items), Inj(s), Inj(r), NEW x
  PROVE  LET found == {n \in DOMAIN (s \o r) : (s \o r)[n] = x}
         IN  /\ ~In(x, s) /\ ~In(x, r) => Cardinality(found) = 0
             /\ In(x, s) /\ ~In(x, r) => Cardinality(found) = 1
             /\ ~In(x, s) /\ In(x, r) => Cardinality(found) = 1
             /\ In(x, s) /\ In(x, r) => Cardinality(found) = 2
<1> DEFINE all == s \o r
           found == {n \in DOMAIN all : all[n] = x}
<1>1. /\ DOMAIN s = 1 .. Len(s) /\ DOMAIN r = 1 .. Len(r) /\ DOMAIN all = 1 .. Len(s) + Len(r)
      /\ Len(s) \in Nat /\ Len(r) \in Nat
      /\ \A n \in 1 .. Len(s) : n \in 1 .. Len(s) + Len(r) /\ all[n] = s[n]
      /\ \A n \in 1 .. Len(r) : Len(s) + n \in 1 .. Len(s) + Len(r) /\ all[Len(s) + n] = r[n]
      /\ \A n \in 1 .. Len(s) + Len(r) :
           n \in 1 .. Len(s) \/ (n > Len(s) /\ n - Len(s) \in 1 .. Len(r) /\ all[n] = r[n - Len(s)])
  BY SeqDomain, ConcatFacts
<1> HIDE DEF all
<1>2. ASSUME NEW n \in found PROVE (n \in DOMAIN s /\ s[n] = x) \/ (n - Len(s) \in DOMAIN r /\ r[n - Len(s)] = x /\ n \in Int)
  BY <1>1
<1>3. ASSUME ~In(x, s), ~In(x, r) PROVE Cardinality(found) = 0
  <2>1. found = {} BY <1>2, <1>3 DEF In
  <2> QED BY <2>1, FS_EmptySet
<1>4. ASSUME In(x, s) PROVE \E a \in found : a \in DOMAIN s /\ s[a] = x BY <1>1, <1>4 DEF In
<1>5. ASSUME In(x, r) PROVE \E b \in DOMAIN r : Len(s) + b \in found /\ r[b] = x BY <1>1, <1>5 DEF In
<1>6. ASSUME In(x, s), ~In(x, r) PROVE Cardinality(found) = 1
  <2>1. PICK a \in found : a \in DOMAIN s /\ s[a] = x BY <1>4, <1>6
  <2>2. \A n \in found : n = a BY <1>2, <1>6, <2>1 DEF In, Inj
  <2>3. found = {a} BY <2>1, <2>2
  <2> QED BY <2>3, FS_Singleton
<1>7. ASSUME In(x, r) PROVE \E b \in found : b > Len(s) /\ \A n \in found : n = b \/ (n \in DOMAIN s /\ s[n] = x)
  <2>1. PICK b \in DOMAIN r : Len(s) + b \in found /\ r[b] = x BY <1>5, <1>7
  <2>2. ASSUME NEW n \in found, ~(n \in DOMAIN s /\ s[n] = x) PROVE n = Len(s) + b
    <3>1. n - Len(s) \in DOMAIN r /\ r[n - Len(s)] = x /\ n \in Int BY <1>2, <2>2
    <3>2. n - Len(s) = b BY <2>1, <3>1 DEF Inj
    <3> QED BY <1>1, <3>1, <3>2
  <2>3. Len(s) + b > Len(s) BY <1>1, <2>1
  <2> QED BY <2>1, <2>2, <2>3
<1>8. ASSUME ~In(x, s), In(x, r) PROVE Cardinality(found) = 1
  <2>1. PICK b \in found : \A n \in found : n = b \/ (n \in DOMAIN s /\ s[n] = x) BY <1>7, <1>8
  <2>2. found = {b} BY <1>8, <2>1 DEF In
  <2> QED BY <2>2, FS_Singleton
<1>9. ASSUME In(x, s), In(x, r) PROVE Cardinality(found) = 2
  <2>1. PICK b \in found : b > Len(s) /\ \A n \in found : n = b \/ (n \in DOMAIN s /\ s[n] = x) BY <1>7, <1>9
  <2>2. PICK a \in found : a \in DOMAIN s /\ s[a] = x BY <1>4, <1>9
  <2>3. \A n \in found : n = b \/ n = a BY <2>1, <2>2 DEF Inj
  <2>4. a # b BY <1>1, <2>1, <2>2
  <2>5. found = {a} \cup {b} BY <2>1, <2>2, <2>3
  <2>6. IsFiniteSet({a}) /\ Cardinality({a}) = 1 BY FS_Singleton
  <2>7. Cardinality({a} \cup {b}) = Cardinality({a}) + 1 BY <2>4, <2>6, FS_AddElement
  <2>8. Cardinality(found) = 1 + 1 BY <2>5, <2>6, <2>7, Zenon
  <2>9. 1 + 1 = 2 OBVIOUS
  <2> QED BY <2>8, <2>9, Zenon
<1> QED BY <1>3, <1>6, <1>8, <1>9 DEF all

\* A sequence in which every item of S, and no other, is once has as many places
\* as S has items.
LEMMA LengthCounts ==
  ASSUME NEW s \in Seq(Items), Inj(s), NEW S, \A x : In(x, s) <=> x \in S
  PROVE  Cardinality(S) = Len(s)
<1>1. Len(s) \in Nat /\ DOMAIN s = 1 .. Len(s) BY SeqDomain
<1>2. s \in [1 .. Len(s) -> S]
  <2>1. s = [n \in 1 .. Len(s) |-> s[n]] BY <1>1
  <2>2. \A n \in 1 .. Len(s) : s[n] \in S BY <1>1 DEF In
  <2> QED BY <2>1, <2>2
<1>3. \A x \in S : \E n \in 1 .. Len(s) : s[n] = x BY <1>1 DEF In
<1>4. \A a, b \in 1 .. Len(s) : s[a] = s[b] => a = b BY <1>1 DEF Inj
<1>5. s \in Bijection(1 .. Len(s), S) BY <1>2, <1>3, <1>4 DEF Bijection, Injection, Surjection, IsInjective
<1>6. ExistsBijection(1 .. Len(s), S) BY <1>5 DEF ExistsBijection
<1> QED BY <1>1, <1>6, FS_CountingElements

LEMMA StrandedHolds == DelayInv => NothingStranded
<1> SUFFICES ASSUME DelayInv PROVE NothingStranded OBVIOUS
<1>1. ASSUME overlapped = FALSE PROVE shutting # "crashed" BY <1>1 DEF DelayInv, QuietInv, KeysInv
<1>2. ASSUME overlapped = FALSE
      PROVE  /\ \A i \in Items : Copies(i) = IF i \in pushed \ delivered THEN 1 ELSE 0
             /\ shutDown => kept \cap UNION {SeqExt!ToSet(delayedMap[k]) : k \in DOMAIN delayedMap} = {}
             /\ ~shutDown /\ shutting = "no" => Size = Cardinality(pushed \ delivered)
  <2> DEFINE rest == ItemsAt(delayedMap, DOMAIN delayedMap)
             k == FirstKey(map_keys)
  <2>1. /\ persistedQ \in Seq(Items) /\ MapOK(delayedMap) /\ KeysInv /\ PlaceInv /\ KeptInv
    BY <1>2 DEF DelayInv, EarlyInv, OnTime, QuietInv
  <2>2. rest \in Seq(Items) /\ \A x : In(x, rest) <=> \E j \in DOMAIN delayedMap : In(x, delayedMap[j]) BY <2>1, ItemsAtIn
  <2>3. Lists(rest, delayedMap, DOMAIN delayedMap) BY <2>1, ItemsAtLists
  <2>4. Inj(persistedQ) /\ Inj(rest) BY <2>1, <2>3 DEF PlaceInv, Lists, Apart
  <2> HIDE DEF rest
  <2>5. ASSUME NEW i \in Items PROVE Copies(i) = IF i \in pushed \ delivered THEN 1 ELSE 0
    <3> DEFINE count == Cardinality({n \in DOMAIN (persistedQ \o rest) : (persistedQ \o rest)[n] = i})
    <3>1. /\ ~In(i, persistedQ) /\ ~In(i, rest) => count = 0
          /\ In(i, persistedQ) /\ ~In(i, rest) => count = 1
          /\ ~In(i, persistedQ) /\ In(i, rest) => count = 1
          /\ In(i, persistedQ) /\ In(i, rest) => count = 2
      BY <2>1, <2>2, <2>4, CountConcat
    <3>2. Copies(i) = count - (IF shutting = "pop" /\ Head(delayedMap[k]) = i THEN 1 ELSE 0) BY DEF Copies, rest
    <3> HIDE DEF count, k
    <3>3. CASE shutting # "pop"
      <4>1. RestMap = delayedMap BY <3>3 DEF RestMap
      <4>2. i \in pushed \ delivered <=> In(i, persistedQ) \/ In(i, rest) BY <2>1, <2>2, <4>1, Zenon DEF PlaceInv, Held
      <4>3. ~(In(i, persistedQ) /\ In(i, rest)) BY <2>1, <2>2, <4>1, Zenon DEF PlaceInv, Apart, Disjoint
      <4>4. Copies(i) = count - 0 BY <3>2, <3>3
      <4> QED BY <3>1, <4>2, <4>3, <4>4
    <3>4. CASE shutting = "pop"
      <4>1. RestMap = Taken(delayedMap, k) BY <3>4 DEF RestMap, k
      <4>2. k \in DOMAIN delayedMap /\ delayedMap[k] # <<>> BY <2>1, <3>4, FirstKeyOfMap DEF KeysInv, k
      <4>3. /\ DOMAIN RestMap = DOMAIN delayedMap /\ Distinct(delayedMap)
            /\ \A j \in DOMAIN delayedMap : ~In(Head(delayedMap[k]), RestMap[j])
            /\ \A x : (\E j \in DOMAIN delayedMap : In(x, delayedMap[j])) <=>
                        (\E j \in DOMAIN delayedMap : In(x, RestMap[j])) \/ x = Head(delayedMap[k])
        BY <2>1, <4>1, <4>2, TakenMap DEF PlaceInv
      <4> DEFINE h == Head(delayedMap[k])
                 inRest == \E j \in DOMAIN RestMap : In(i, RestMap[j])
      <4> HIDE DEF h
      <4>4. In(i, rest) <=> inRest \/ i = h BY <2>2, <4>3 DEF h
      <4>5. i = h => ~inRest BY <4>3 DEF h
      <4>6. i \in pushed \ delivered <=> In(i, persistedQ) \/ inRest BY <2>1, Zenon DEF PlaceInv, Held
      <4>7. ~(In(i, persistedQ) /\ inRest) BY <2>1, Zenon DEF PlaceInv, Apart, Disjoint
      <4> HIDE DEF inRest
      <4>8. CASE i = h
        <5>1. Copies(i) = count - 1 BY <3>2, <3>4, <4>8 DEF h
        <5> QED BY <3>1, <4>4, <4>5, <4>6, <4>8, <5>1
      <4>9. CASE i # h
        <5>1. Copies(i) = count - 0 BY <3>2, <4>9 DEF h
        <5> QED BY <3>1, <4>4, <4>6, <4>7, <4>9, <5>1
      <4> QED BY <4>8, <4>9
    <3> QED BY <3>3, <3>4
  <2>6. ASSUME shutDown PROVE kept \cap UNION {SeqExt!ToSet(delayedMap[j]) : j \in DOMAIN delayedMap} = {}
    <3>1. ASSUME NEW j \in DOMAIN delayedMap, NEW x \in SeqExt!ToSet(delayedMap[j]) PROVE x \notin kept
      <4>1. In(x, delayedMap[j]) BY DEF SeqExt!ToSet, In
      <4> QED BY <2>1, <2>6, <4>1 DEF KeptInv
    <3> QED BY <3>1
  <2>7. ASSUME shutting = "no" PROVE Size = Cardinality(pushed \ delivered)
    <3>1. RestMap = delayedMap BY <2>7 DEF RestMap
    <3>2. Disjoint(persistedQ, rest) BY <2>1, <2>2, <3>1, Zenon DEF PlaceInv, Apart, Disjoint
    <3>3. Inj(persistedQ \o rest) BY <2>1, <2>2, <2>4, <3>2, InjConcat
    <3>4. persistedQ \o rest \in Seq(Items) /\ Len(persistedQ \o rest) = Size BY <2>1, <2>2, ConcatFacts DEF Size, rest
    <3>5. ASSUME NEW x PROVE In(x, persistedQ \o rest) <=> x \in pushed \ delivered
      <4>1. In(x, persistedQ \o rest) <=> In(x, persistedQ) \/ In(x, rest) BY <2>1, <2>2, InConcat
      <4>2. x \in pushed \ delivered <=> In(x, persistedQ) \/ In(x, rest) BY <2>1, <2>2, <3>1, Zenon DEF PlaceInv, Held
      <4> QED BY <4>1, <4>2
    <3> QED BY <3>3, <3>4, <3>5, LengthCounts
  <2>8. \A i \in Items : Copies(i) = IF i \in pushed \ delivered THEN 1 ELSE 0 BY <2>5
  <2> QED BY <2>6, <2>7, <2>8, Zenon
<1>3. overlapped \in BOOLEAN BY DEF DelayInv
<1> QED BY <1>1, <1>2, <1>3, Zenon DEF NothingStranded

\* For any items, delays and order of the calls: unless a call overlaps
\* shutdown(), shutdown() follows no null pointer, every item pushed and not
\* popped is held once, size() counts them, and what was pushed by the end of
\* shutdown() is in the persisted queue.
THEOREM NothingStrandedCorrect == Spec => []NothingStranded
  BY DelayAlways, StrandedHolds, PTL
=============================================================================
