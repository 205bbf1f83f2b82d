--------------------------- MODULE PagingLemmas ---------------------------
(***************************************************************************)
(* What the moves of PersistedQueue do to a sequence kept on pages         *)
(* (IsPaged): appending to the last page, filing it, loading the front     *)
(* file, popping.  And what they do to a sorted list of names.             *)
(***************************************************************************)
EXTENDS PersistedQueue, SequenceTheorems, FiniteSetTheorems, FunctionTheorems,
        WellFoundedInduction, TLAPS

\* One page more or less is MaxItemsPerPage items more or less.
LEMMA PageArithmetic ==
  \A k \in Int : (k + 1) * MaxItemsPerPage = k * MaxItemsPerPage + MaxItemsPerPage
                 /\ k * MaxItemsPerPage \in Int
  BY PageSizeAssumption

\* Whole pages hold a natural number of items.
LEMMA FullPages ==
  \A k \in Nat : k * MaxItemsPerPage \in Nat
  BY PageSizeAssumption

\* Page k of a .. b ends where the pages end, or before.
LEMMA PageEnd ==
  ASSUME NEW a \in Int, NEW b \in Int, NEW k \in a .. b
  PROVE  /\ (k - a) * MaxItemsPerPage \in Nat
         /\ (b - a + 1) * MaxItemsPerPage \in Nat
         /\ (k - a) * MaxItemsPerPage + MaxItemsPerPage <= (b - a + 1) * MaxItemsPerPage
<1> DEFINE u == k - a
           v == b - k
<1>1. u \in Nat /\ v \in Nat /\ b - a + 1 = (u + 1) + v /\ b - a + 1 \in Nat
  OBVIOUS
<1>2. u * MaxItemsPerPage \in Nat /\ v * MaxItemsPerPage \in Nat /\ (b - a + 1) * MaxItemsPerPage \in Nat
  BY <1>1, FullPages
<1> HIDE DEF u, v
<1>3. (b - a + 1) * MaxItemsPerPage = u * MaxItemsPerPage + MaxItemsPerPage + v * MaxItemsPerPage
  BY <1>1, PageSizeAssumption
<1>4. u * MaxItemsPerPage + MaxItemsPerPage <= (b - a + 1) * MaxItemsPerPage
  BY <1>2, <1>3, PageSizeAssumption
<1> QED  BY <1>2, <1>4 DEF u

\* The same files under other positions of the list, or among other files.
Relisted(d, N, a, b, d2, N2, a2, b2) ==
  /\ a \in Int /\ b \in Int /\ a2 \in Int /\ b2 \in Int /\ b2 - a2 = b - a
  /\ \A k \in a2 .. b2 : N2[k] = N[k - a2 + a]
  /\ \A k \in a .. b : N[k] \in DOMAIN d2 /\ d2[N[k]] = d[N[k]]

\* A sequence is on the same pages when its files are listed elsewhere.
LEMMA PagedRelisted ==
  ASSUME NEW s, NEW d, NEW first, NEW N, NEW a, NEW b, NEW last,
         NEW d2, NEW N2, NEW a2, NEW b2,
         IsPaged(s, d, first, N, a, b, last),
         Relisted(d, N, a, b, d2, N2, a2, b2)
  PROVE  IsPaged(s, d2, first, N2, a2, b2, last)
<1> USE DEF Relisted
<1>1. \A k \in a2 .. b2 : k - a2 + a \in a .. b /\ (k - a2 + a) - a = k - a2
  OBVIOUS
<1>2. b2 - a2 + 1 = b - a + 1
  OBVIOUS
<1>3. ASSUME NEW k \in a2 .. b2
      PROVE  /\ N2[k] \in DOMAIN d2 /\ Len(d2[N2[k]]) = MaxItemsPerPage
             /\ \A i \in 1 .. MaxItemsPerPage : s[Len(first) + (k - a2) * MaxItemsPerPage + i] = d2[N2[k]][i]
  <2> DEFINE j == k - a2 + a
  <2>1. j \in a .. b /\ j - a = k - a2 /\ N2[k] = N[j]
    BY <1>1
  <2>2. N[j] \in DOMAIN d2 /\ d2[N[j]] = d[N[j]]
    BY <2>1
  <2>3. /\ Len(d[N[j]]) = MaxItemsPerPage
        /\ \A i \in 1 .. MaxItemsPerPage : s[Len(first) + (j - a) * MaxItemsPerPage + i] = d[N[j]][i]
    BY <2>1 DEF IsPaged
  <2> HIDE DEF j
  <2> QED  BY <2>1, <2>2, <2>3
<1> QED  BY <1>2, <1>3 DEF IsPaged

\* push_back() on a last page that has room.
LEMMA PagedPushLast ==
  ASSUME NEW s \in Seq(Items), NEW d, NEW first \in Seq(Items), NEW N, NEW a \in Int, NEW b \in Int,
         NEW last \in Seq(Items), NEW x \in Items, b - a + 1 >= 0,
         IsPaged(s, d, first, N, a, b, last), Len(last) < MaxItemsPerPage
  PROVE  IsPaged(Append(s, x), d, first, N, a, b, Append(last, x))
<1> DEFINE c == (b - a + 1) * MaxItemsPerPage
<1>1. c \in Nat /\ Len(s) = Len(first) + c + Len(last)
  BY FullPages DEF IsPaged
<1>2. /\ Len(Append(s, x)) = Len(s) + 1 /\ Append(s, x)[Len(s) + 1] = x
      /\ \A i \in 1 .. Len(s) : Append(s, x)[i] = s[i]
  BY AppendProperties
<1>3. /\ Len(Append(last, x)) = Len(last) + 1 /\ Append(last, x)[Len(last) + 1] = x
      /\ \A i \in 1 .. Len(last) : Append(last, x)[i] = last[i]
  BY AppendProperties
<1>4. \A i \in 1 .. Len(first) : Append(s, x)[i] = first[i]
  BY <1>1, <1>2 DEF IsPaged
<1>5. ASSUME NEW k \in a .. b, NEW i \in 1 .. MaxItemsPerPage
      PROVE  Append(s, x)[Len(first) + (k - a) * MaxItemsPerPage + i] = d[N[k]][i]
  <2>1. (k - a) * MaxItemsPerPage \in Nat /\ (k - a) * MaxItemsPerPage + MaxItemsPerPage <= c
    BY PageEnd
  <2>4. Len(first) + (k - a) * MaxItemsPerPage + i \in 1 .. Len(s)
    <3> DEFINE t == (k - a) * MaxItemsPerPage
    <3>1. t \in Nat /\ t + MaxItemsPerPage <= c /\ c \in Nat
      BY <1>1, <2>1
    <3>2. Len(first) \in Nat /\ Len(last) \in Nat
      OBVIOUS
    <3> HIDE DEF t, c
    <3>3. Len(first) + t + i \in 1 .. Len(s)
      BY <1>1, <3>1, <3>2, PageSizeAssumption
    <3> QED  BY <3>3 DEF t
  <2> QED  BY <1>2, <2>4 DEF IsPaged
<1>6. ASSUME NEW i \in 1 .. Len(last) + 1
      PROVE  Append(s, x)[Len(first) + c + i] = Append(last, x)[i]
  <2>1. CASE i = Len(last) + 1
    BY <2>1, <1>1, <1>2, <1>3
  <2>2. CASE i # Len(last) + 1
    <3>1. i \in 1 .. Len(last) /\ Len(first) + c + i \in 1 .. Len(s)
      BY <2>2, <1>1
    <3>2. s[Len(first) + c + i] = last[i]
      BY <3>1 DEF IsPaged
    <3> QED  BY <3>1, <3>2, <1>2, <1>3
  <2> QED  BY <2>1, <2>2
<1>7. Len(Append(s, x)) = Len(first) + c + Len(Append(last, x)) /\ Len(Append(last, x)) <= MaxItemsPerPage
  BY <1>1, <1>2, <1>3, PageSizeAssumption
<1> QED  BY <1>3, <1>4, <1>5, <1>6, <1>7 DEF IsPaged

\* A page that is all of the queue.
LEMMA PagedAlone ==
  ASSUME NEW s \in Seq(Items), NEW d, NEW first \in Seq(Items), NEW N, NEW a \in Int, NEW b \in Int,
         b = a - 1
  PROVE  IsPaged(s, d, first, N, a, b, <<>>) <=> s = first
<1>1. (b - a + 1) * MaxItemsPerPage = 0
  BY PageSizeAssumption
<1>2. Len(<<>>) = 0
  OBVIOUS
<1>3. ASSUME IsPaged(s, d, first, N, a, b, <<>>) PROVE s = first
  BY <1>1, <1>2, <1>3, SeqEqual DEF IsPaged
<1>4. ASSUME s = first PROVE IsPaged(s, d, first, N, a, b, <<>>)
  BY <1>1, <1>2, <1>4, PageSizeAssumption DEF IsPaged
<1> QED  BY <1>3, <1>4

\* A full last page that is filed as the next name leaves no last page.
LEMMA PagedFileLast ==
  ASSUME NEW s \in Seq(Items), NEW d, NEW first \in Seq(Items), NEW N, NEW a \in Int, NEW b \in Int,
         NEW last \in Seq(Items), a <= b + 1,
         IsPaged(s, d, first, N, a, b, last), Len(last) = MaxItemsPerPage,
         N[b + 1] \in DOMAIN d, d[N[b + 1]] = last
  PROVE  IsPaged(s, d, first, N, a, b + 1, <<>>)
<1> DEFINE c == (b - a + 1) * MaxItemsPerPage
<1>1. ((b + 1) - a + 1) * MaxItemsPerPage = c + MaxItemsPerPage
  BY PageArithmetic, b - a + 1 \in Int, (b + 1) - a + 1 = (b - a + 1) + 1
<1>2. Len(<<>>) = 0 /\ Len(<<>>) <= MaxItemsPerPage
  BY PageSizeAssumption
<1>3. Len(s) = Len(first) + ((b + 1) - a + 1) * MaxItemsPerPage + Len(<<>>)
  <2> DEFINE e == ((b + 1) - a + 1) * MaxItemsPerPage
  <2>1. c \in Nat
    BY FullPages, b - a + 1 \in Nat
  <2>2. Len(s) = Len(first) + c + Len(last) /\ Len(first) \in Nat
    BY DEF IsPaged
  <2>3. e = c + MaxItemsPerPage
    BY <1>1
  <2> HIDE DEF c, e
  <2>4. Len(s) = Len(first) + e + 0
    BY <2>1, <2>2, <2>3, PageSizeAssumption
  <2> QED  BY <1>2, <2>4 DEF e
<1>4. ASSUME NEW k \in a .. b + 1
      PROVE  /\ N[k] \in DOMAIN d /\ Len(d[N[k]]) = MaxItemsPerPage
             /\ \A i \in 1 .. MaxItemsPerPage : s[Len(first) + (k - a) * MaxItemsPerPage + i] = d[N[k]][i]
  <2>1. CASE k = b + 1
    <3>1. (k - a) * MaxItemsPerPage = c
      BY <2>1, k - a = b - a + 1
    <3>2. \A i \in 1 .. MaxItemsPerPage : s[Len(first) + c + i] = last[i]
      BY DEF IsPaged
    <3> QED  BY <2>1, <3>1, <3>2
  <2>2. CASE k # b + 1
    BY <2>2, k \in a .. b DEF IsPaged
  <2> QED  BY <2>1, <2>2
<1> QED  BY <1>2, <1>3, <1>4 DEF IsPaged

\* An empty first page is replaced by the page in the front file.
LEMMA PagedFileToFirst ==
  ASSUME NEW s \in Seq(Items), NEW d, NEW N, NEW a \in Int, NEW b \in Int, NEW last \in Seq(Items),
         a <= b, IsPaged(s, d, <<>>, N, a, b, last)
  PROVE  N[a] \in DOMAIN d /\ IsPaged(s, d, d[N[a]], N, a + 1, b, last)
<1>1. N[a] \in DOMAIN d /\ Len(d[N[a]]) = MaxItemsPerPage
  BY a \in a .. b DEF IsPaged
<1>2. Len(<<>>) = 0
  OBVIOUS
<1>3. (b - a + 1) * MaxItemsPerPage = MaxItemsPerPage + (b - (a + 1) + 1) * MaxItemsPerPage
  BY PageSizeAssumption
<1>4. (b - (a + 1) + 1) * MaxItemsPerPage \in Nat /\ (b - a + 1) * MaxItemsPerPage \in Nat
  BY FullPages, b - (a + 1) + 1 \in Nat, b - a + 1 \in Nat
<1>5. Len(s) = Len(d[N[a]]) + (b - (a + 1) + 1) * MaxItemsPerPage + Len(last)
  <2> DEFINE u == (b - a + 1) * MaxItemsPerPage
             v == (b - (a + 1) + 1) * MaxItemsPerPage
  <2>1. Len(s) = 0 + u + Len(last) /\ u \in Nat /\ v \in Nat /\ u = MaxItemsPerPage + v
    BY <1>2, <1>3, <1>4 DEF IsPaged
  <2> HIDE DEF u, v
  <2>2. Len(s) = Len(d[N[a]]) + v + Len(last)
    BY <1>1, <2>1, PageSizeAssumption
  <2> QED  BY <2>2 DEF v
<1>6. \A i \in 1 .. Len(d[N[a]]) : s[i] = d[N[a]][i]
  <2> SUFFICES ASSUME NEW i \in 1 .. MaxItemsPerPage PROVE s[i] = d[N[a]][i]
    BY <1>1
  <2>1. s[0 + (a - a) * MaxItemsPerPage + i] = d[N[a]][i]
    BY <1>2, a \in a .. b DEF IsPaged
  <2>2. 0 + (a - a) * MaxItemsPerPage + i = i
    BY PageSizeAssumption
  <2> QED  BY <2>1, <2>2
<1>7. ASSUME NEW k \in a + 1 .. b
      PROVE  /\ N[k] \in DOMAIN d /\ Len(d[N[k]]) = MaxItemsPerPage
             /\ \A i \in 1 .. MaxItemsPerPage :
                  s[Len(d[N[a]]) + (k - (a + 1)) * MaxItemsPerPage + i] = d[N[k]][i]
  <2>1. (k - a) * MaxItemsPerPage = MaxItemsPerPage + (k - (a + 1)) * MaxItemsPerPage
    BY PageSizeAssumption
  <2>2. (k - a) * MaxItemsPerPage \in Nat
    BY FullPages, k - a \in Nat
  <2>3. \A i \in 1 .. MaxItemsPerPage : s[0 + (k - a) * MaxItemsPerPage + i] = d[N[k]][i]
    BY <1>2, k \in a .. b DEF IsPaged
  <2>4. N[k] \in DOMAIN d /\ Len(d[N[k]]) = MaxItemsPerPage
    BY k \in a .. b DEF IsPaged
  <2>5. 0 + (k - a) * MaxItemsPerPage = Len(d[N[a]]) + (k - (a + 1)) * MaxItemsPerPage
    BY <1>1, <2>1, <2>2
  <2> QED  BY <2>3, <2>4, <2>5
<1>8. \A i \in 1 .. Len(last) : s[Len(d[N[a]]) + (b - (a + 1) + 1) * MaxItemsPerPage + i] = last[i]
  <2>1. \A i \in 1 .. Len(last) : s[0 + (b - a + 1) * MaxItemsPerPage + i] = last[i]
    BY <1>2 DEF IsPaged
  <2>2. 0 + (b - a + 1) * MaxItemsPerPage = Len(d[N[a]]) + (b - (a + 1) + 1) * MaxItemsPerPage
    BY <1>1, <1>3, <1>4
  <2> QED  BY <2>1, <2>2
<1> QED  BY <1>1, <1>5, <1>6, <1>7, <1>8 DEF IsPaged

\* An empty first page without files behind it: the last page is all there is.
LEMMA PagedLastAlone ==
  ASSUME NEW s \in Seq(Items), NEW d, NEW N, NEW a \in Int, NEW b \in Int, NEW last \in Seq(Items),
         b = a - 1, IsPaged(s, d, <<>>, N, a, b, last)
  PROVE  s = last
<1>1. (b - a + 1) * MaxItemsPerPage = 0 /\ Len(<<>>) = 0
  BY PageSizeAssumption
<1>2. Len(s) = 0 + 0 + Len(last) /\ \A i \in 1 .. Len(last) : s[0 + 0 + i] = last[i]
  BY <1>1 DEF IsPaged
<1> QED  BY <1>2, SeqEqual

\* push_front() lengthens the first page.
LEMMA PagedPushFirst ==
  ASSUME NEW s \in Seq(Items), NEW d, NEW first \in Seq(Items), NEW N, NEW a \in Int, NEW b \in Int,
         NEW last \in Seq(Items), NEW x \in Items, b - a + 1 >= 0,
         IsPaged(s, d, first, N, a, b, last)
  PROVE  IsPaged(<<x>> \o s, d, <<x>> \o first, N, a, b, last)
<1> DEFINE t == <<x>> \o s
           g == <<x>> \o first
           c == (b - a + 1) * MaxItemsPerPage
<1>1. <<x>> \in Seq(Items) /\ Len(<<x>>) = 1 /\ <<x>>[1] = x
  OBVIOUS
<1>2. Len(t) = Len(s) + 1 /\ t[1] = x /\ \A i \in 1 .. Len(s) : t[i + 1] = s[i]
  BY <1>1, ConcatProperties
<1>3. Len(g) = Len(first) + 1 /\ g[1] = x /\ \A i \in 1 .. Len(first) : g[i + 1] = first[i]
  BY <1>1, ConcatProperties
<1>4. c \in Nat /\ Len(s) = Len(first) + c + Len(last) /\ Len(first) \in Nat /\ Len(last) \in Nat
  <2>1. c \in Nat
    BY FullPages, b - a + 1 \in Nat
  <2>2. Len(first) \in Nat /\ Len(last) \in Nat
    BY LenProperties
  <2> QED  BY <2>1, <2>2 DEF IsPaged
<1>5. ASSUME NEW i \in 1 .. Len(g) PROVE t[i] = g[i]
  <2> HIDE DEF t, g, c
  <2>1. CASE i = 1
    BY <2>1, <1>2, <1>3
  <2>2. CASE i # 1
    <3>1. i - 1 \in 1 .. Len(first) /\ i - 1 \in 1 .. Len(s) /\ (i - 1) + 1 = i
      BY <2>2, <1>3, <1>4
    <3>2. s[i - 1] = first[i - 1]
      BY <3>1 DEF IsPaged
    <3> QED  BY <3>1, <3>2, <1>2, <1>3
  <2> QED  BY <2>1, <2>2
<1>6. ASSUME NEW k \in a .. b, NEW i \in 1 .. MaxItemsPerPage
      PROVE  t[Len(g) + (k - a) * MaxItemsPerPage + i] = d[N[k]][i]
  <2> DEFINE u == (k - a) * MaxItemsPerPage
  <2>1. u \in Nat /\ u + MaxItemsPerPage <= c
    BY PageEnd
  <2>2. s[Len(first) + u + i] = d[N[k]][i]
    BY DEF IsPaged
  <2> HIDE DEF u, c, t, g
  <2>3. Len(first) + u + i \in 1 .. Len(s) /\ (Len(first) + u + i) + 1 = Len(g) + u + i
    BY <1>3, <1>4, <2>1, PageSizeAssumption
  <2>4. t[Len(g) + u + i] = d[N[k]][i]
    BY <1>2, <2>2, <2>3
  <2> QED  BY <2>4 DEF u
<1>7. ASSUME NEW i \in 1 .. Len(last) PROVE t[Len(g) + c + i] = last[i]
  <2>1. s[Len(first) + c + i] = last[i]
    BY DEF IsPaged
  <2> HIDE DEF c, t, g
  <2>2. Len(first) + c + i \in 1 .. Len(s) /\ (Len(first) + c + i) + 1 = Len(g) + c + i
    BY <1>3, <1>4
  <2> QED  BY <1>2, <2>1, <2>2
<1>8. Len(t) = Len(g) + c + Len(last)
  <2> HIDE DEF c, t, g
  <2> QED  BY <1>2, <1>3, <1>4
<1> QED  BY <1>5, <1>6, <1>7, <1>8 DEF IsPaged

\* pop_front() takes the head of a first page that is not empty, which is the
\* head of the queue.
LEMMA PagedPopFirst ==
  ASSUME NEW s \in Seq(Items), NEW d, NEW first \in Seq(Items), NEW N, NEW a \in Int, NEW b \in Int,
         NEW last \in Seq(Items), b - a + 1 >= 0, first # <<>>,
         IsPaged(s, d, first, N, a, b, last)
  PROVE  s # <<>> /\ Head(s) = Head(first) /\ IsPaged(Tail(s), d, Tail(first), N, a, b, last)
<1> DEFINE c == (b - a + 1) * MaxItemsPerPage
<1>1. c \in Nat /\ Len(s) = Len(first) + c + Len(last) /\ Len(first) \in Nat /\ Len(last) \in Nat
  <2>1. c \in Nat
    BY FullPages, b - a + 1 \in Nat
  <2>2. Len(first) \in Nat /\ Len(last) \in Nat
    BY LenProperties
  <2> QED  BY <2>1, <2>2 DEF IsPaged
<1>2. Len(first) >= 1
  BY EmptySeq
<1>3. Len(s) >= 1 /\ s # <<>>
  <2> HIDE DEF c
  <2> QED  BY <1>1, <1>2
<1>4. Head(s) = Head(first)
  BY <1>2, <1>3, HeadTailProperties DEF IsPaged
<1>5. Len(Tail(s)) = Len(s) - 1 /\ \A i \in 1 .. Len(s) - 1 : Tail(s)[i] = s[i + 1]
  BY <1>3, HeadTailProperties
<1>6. Len(Tail(first)) = Len(first) - 1 /\ \A i \in 1 .. Len(first) - 1 : Tail(first)[i] = first[i + 1]
  BY HeadTailProperties
<1> HIDE DEF c
<1>7. \A i \in 1 .. Len(Tail(first)) : Tail(s)[i] = Tail(first)[i]
  <2> SUFFICES ASSUME NEW i \in 1 .. Len(first) - 1 PROVE Tail(s)[i] = Tail(first)[i]
    BY <1>6
  <2>1. i \in 1 .. Len(s) - 1 /\ i + 1 \in 1 .. Len(first)
    BY <1>1
  <2> QED  BY <2>1, <1>5, <1>6 DEF IsPaged
<1>8. ASSUME NEW k \in a .. b, NEW i \in 1 .. MaxItemsPerPage
      PROVE  Tail(s)[Len(Tail(first)) + (k - a) * MaxItemsPerPage + i] = d[N[k]][i]
  <2> DEFINE u == (k - a) * MaxItemsPerPage
  <2>1. u \in Nat /\ u + MaxItemsPerPage <= c
    BY PageEnd DEF c
  <2>2. s[Len(first) + u + i] = d[N[k]][i]
    BY DEF IsPaged
  <2> HIDE DEF u
  <2>3. /\ Len(Tail(first)) + u + i \in 1 .. Len(s) - 1
        /\ (Len(Tail(first)) + u + i) + 1 = Len(first) + u + i
    BY <1>1, <1>2, <1>6, <2>1, PageSizeAssumption
  <2>4. Tail(s)[Len(Tail(first)) + u + i] = d[N[k]][i]
    BY <1>5, <2>2, <2>3
  <2> QED  BY <2>4 DEF u
<1>9. ASSUME NEW i \in 1 .. Len(last) PROVE Tail(s)[Len(Tail(first)) + c + i] = last[i]
  <2>1. s[Len(first) + c + i] = last[i]
    BY DEF IsPaged, c
  <2>2. /\ Len(Tail(first)) + c + i \in 1 .. Len(s) - 1
        /\ (Len(Tail(first)) + c + i) + 1 = Len(first) + c + i
    BY <1>1, <1>2, <1>6
  <2> QED  BY <1>5, <2>1, <2>2
<1>10. Len(Tail(s)) = Len(Tail(first)) + c + Len(last)
  BY <1>1, <1>5, <1>6
<1> QED  BY <1>3, <1>4, <1>7, <1>8, <1>9, <1>10 DEF IsPaged, c

---------------------------------------------------------------------------
\* A sorted list names no file twice.
LEMMA SortedDistinct ==
  ASSUME NEW s \in Seq(Name), Sorted(s), NEW i \in DOMAIN s, NEW j \in DOMAIN s, s[i] = s[j]
  PROVE  i = j
<1>1. i \in Int /\ j \in Int /\ s[i] \in Name
  BY LenProperties
<1>2. ~Before(s[i], s[i])
  BY <1>1 DEF Before, Name
<1> QED  BY <1>1, <1>2 DEF Sorted

\* Dropping the front name: the others keep their order, and it is not among them.
LEMMA SortedTail ==
  ASSUME NEW s \in Seq(Name), Sorted(s), s # <<>>
  PROVE  /\ Tail(s) \in Seq(Name) /\ Len(Tail(s)) = Len(s) - 1 /\ Head(s) = s[1] /\ Len(s) >= 1
         /\ \A k \in 1 .. Len(s) - 1 : Tail(s)[k] = s[k + 1]
         /\ Sorted(Tail(s)) /\ NamesIn(Tail(s)) = NamesIn(s) \ {Head(s)}
<1>1. /\ Tail(s) \in Seq(Name) /\ Len(Tail(s)) = Len(s) - 1 /\ Head(s) = s[1] /\ Len(s) >= 1
      /\ DOMAIN s = 1 .. Len(s) /\ DOMAIN Tail(s) = 1 .. Len(s) - 1 /\ Len(s) \in Nat
  BY HeadTailProperties, LenProperties, EmptySeq
<1>2. \A k \in 1 .. Len(s) - 1 : Tail(s)[k] = s[k + 1]
  BY <1>1, HeadTailProperties
<1>3. Sorted(Tail(s))
  BY <1>1, <1>2 DEF Sorted
<1>4. \A k \in 1 .. Len(s) - 1 : s[k + 1] # s[1]
  BY <1>1, SortedDistinct
<1>5. NamesIn(Tail(s)) = NamesIn(s) \ {Head(s)}
  <2>1. NamesIn(Tail(s)) \subseteq NamesIn(s) \ {Head(s)}
    BY <1>1, <1>2, <1>4 DEF NamesIn
  <2>2. ASSUME NEW k \in DOMAIN s, s[k] # Head(s) PROVE s[k] \in NamesIn(Tail(s))
    <3>1. k - 1 \in 1 .. Len(s) - 1 /\ (k - 1) + 1 = k
      BY <2>2, <1>1
    <3> QED  BY <3>1, <1>1, <1>2 DEF NamesIn
  <2> QED  BY <2>1, <2>2 DEF NamesIn
<1> QED  BY <1>1, <1>2, <1>3, <1>5

\* Dropping the last name.
LEMMA SortedFront ==
  ASSUME NEW s \in Seq(Name), Sorted(s), s # <<>>
  PROVE  LET t == SubSeq(s, 1, Len(s) - 1)
         IN  /\ t \in Seq(Name) /\ Len(t) = Len(s) - 1 /\ Len(s) >= 1
             /\ \A k \in 1 .. Len(s) - 1 : t[k] = s[k]
             /\ Sorted(t) /\ NamesIn(t) = NamesIn(s) \ {s[Len(s)]}
<1> DEFINE t == SubSeq(s, 1, Len(s) - 1)
<1>1. Len(s) \in Nat /\ Len(s) >= 1 /\ DOMAIN s = 1 .. Len(s)
  BY LenProperties, EmptySeq
<1>2. t \in Seq(Name) /\ Len(t) = Len(s) - 1 /\ \A k \in 1 .. Len(s) - 1 : t[k] = s[k]
  <2>1. \A k \in 1 .. Len(s) - 1 : s[k] \in Name
    BY <1>1
  <2> QED  BY <1>1, <2>1
<1>3. DOMAIN t = 1 .. Len(s) - 1
  BY <1>2, LenProperties
<1> HIDE DEF t
<1>4. Sorted(t)
  BY <1>1, <1>2, <1>3 DEF Sorted
<1>5. \A k \in 1 .. Len(s) - 1 : s[k] # s[Len(s)]
  BY <1>1, SortedDistinct
<1>6. NamesIn(t) = NamesIn(s) \ {s[Len(s)]}
  <2>1. NamesIn(t) \subseteq NamesIn(s) \ {s[Len(s)]}
    BY <1>1, <1>2, <1>3, <1>5 DEF NamesIn
  <2>2. ASSUME NEW k \in DOMAIN s, s[k] # s[Len(s)] PROVE s[k] \in NamesIn(t)
    <3>1. k \in 1 .. Len(s) - 1
      BY <2>2, <1>1
    <3> QED  BY <3>1, <1>2, <1>3 DEF NamesIn
  <2> QED  BY <2>1, <2>2 DEF NamesIn
<1>7. /\ t \in Seq(Name) /\ Len(t) = Len(s) - 1 /\ Len(s) >= 1
      /\ \A k \in 1 .. Len(s) - 1 : t[k] = s[k]
      /\ Sorted(t) /\ NamesIn(t) = NamesIn(s) \ {s[Len(s)]}
  BY <1>1, <1>2, <1>4, <1>6
<1> QED  BY <1>7 DEF t

\* A name after all others goes to the back.
LEMMA SortedAppend ==
  ASSUME NEW s \in Seq(Name), Sorted(s), NEW n \in Name, \A m \in NamesIn(s) : Before(m, n)
  PROVE  /\ Append(s, n) \in Seq(Name) /\ Len(Append(s, n)) = Len(s) + 1
         /\ \A k \in 1 .. Len(s) : Append(s, n)[k] = s[k]
         /\ Append(s, n)[Len(s) + 1] = n
         /\ Sorted(Append(s, n)) /\ NamesIn(Append(s, n)) = NamesIn(s) \cup {n}
         /\ n \notin NamesIn(s)
<1> DEFINE t == Append(s, n)
<1>1. /\ t \in Seq(Name) /\ Len(t) = Len(s) + 1 /\ t[Len(s) + 1] = n
      /\ \A k \in 1 .. Len(s) : t[k] = s[k]
  BY AppendProperties
<1>2. DOMAIN t = 1 .. Len(s) + 1 /\ DOMAIN s = 1 .. Len(s) /\ Len(s) \in Nat
  BY <1>1, LenProperties
<1> HIDE DEF t
<1>3. Sorted(t)
  <2> SUFFICES ASSUME NEW i \in DOMAIN t, NEW j \in DOMAIN t, i < j PROVE Before(t[i], t[j])
    BY DEF Sorted
  <2>1. i \in 1 .. Len(s) /\ t[i] = s[i]
    BY <1>1, <1>2
  <2>2. CASE j = Len(s) + 1
    BY <2>1, <2>2, <1>1, <1>2 DEF NamesIn
  <2>3. CASE j # Len(s) + 1
    BY <2>1, <2>3, <1>1, <1>2 DEF Sorted
  <2> QED  BY <2>2, <2>3
<1>4. NamesIn(t) = NamesIn(s) \cup {n}
  <2>1. NamesIn(t) \subseteq NamesIn(s) \cup {n}
    BY <1>1, <1>2 DEF NamesIn
  <2>2. NamesIn(s) \subseteq NamesIn(t)
    BY <1>1, <1>2 DEF NamesIn
  <2>3. n \in NamesIn(t)
    BY <1>1, <1>2 DEF NamesIn
  <2> QED  BY <2>1, <2>2, <2>3
<1>5. ~Before(n, n)
  BY DEF Before, Name
<1> QED  BY <1>1, <1>3, <1>4, <1>5 DEF t

\* A name before all others goes to the front.
LEMMA SortedPrepend ==
  ASSUME NEW s \in Seq(Name), Sorted(s), NEW n \in Name, \A m \in NamesIn(s) : Before(n, m)
  PROVE  LET t == <<n>> \o s
         IN  /\ t \in Seq(Name) /\ Len(t) = Len(s) + 1 /\ t[1] = n
             /\ \A k \in 1 .. Len(s) : t[k + 1] = s[k]
             /\ Sorted(t) /\ NamesIn(t) = NamesIn(s) \cup {n}
             /\ n \notin NamesIn(s)
<1> DEFINE t == <<n>> \o s
<1>0. <<n>> \in Seq(Name) /\ Len(<<n>>) = 1 /\ <<n>>[1] = n
  OBVIOUS
<1>1. /\ t \in Seq(Name) /\ Len(t) = Len(s) + 1 /\ t[1] = n
      /\ \A k \in 1 .. Len(s) : t[k + 1] = s[k]
  BY <1>0, ConcatProperties, LenProperties
<1>2. DOMAIN t = 1 .. Len(s) + 1 /\ DOMAIN s = 1 .. Len(s) /\ Len(s) \in Nat
  BY <1>1, LenProperties
<1> HIDE DEF t
<1>6. \A j \in DOMAIN t : j # 1 => j - 1 \in DOMAIN s /\ t[j] = s[j - 1]
  BY <1>1, <1>2, \A j \in DOMAIN t : (j - 1) + 1 = j
<1>3. Sorted(t)
  <2> SUFFICES ASSUME NEW i \in DOMAIN t, NEW j \in DOMAIN t, i < j PROVE Before(t[i], t[j])
    BY DEF Sorted
  <2>1. j # 1 /\ i \in Int /\ j \in Int
    BY <1>2
  <2>2. CASE i = 1
    BY <2>1, <2>2, <1>1, <1>6 DEF NamesIn
  <2>3. CASE i # 1
    BY <2>1, <2>3, <1>2, <1>6 DEF Sorted
  <2> QED  BY <2>2, <2>3
<1>4. NamesIn(t) = NamesIn(s) \cup {n}
  <2>1. NamesIn(t) \subseteq NamesIn(s) \cup {n}
    BY <1>1, <1>2, <1>6 DEF NamesIn
  <2>2. NamesIn(s) \subseteq NamesIn(t)
    BY <1>1, <1>2, \A k \in DOMAIN s : k + 1 \in DOMAIN t DEF NamesIn
  <2>3. n \in NamesIn(t)
    BY <1>1, <1>2 DEF NamesIn
  <2> QED  BY <2>1, <2>2, <2>3
<1>5. ~Before(n, n)
  BY DEF Before, Name
<1>7. /\ t \in Seq(Name) /\ Len(t) = Len(s) + 1 /\ t[1] = n
      /\ \A k \in 1 .. Len(s) : t[k + 1] = s[k]
      /\ Sorted(t) /\ NamesIn(t) = NamesIn(s) \cup {n}
      /\ n \notin NamesIn(s)
  BY <1>1, <1>3, <1>4, <1>5
<1> QED  BY <1>7 DEF t

---------------------------------------------------------------------------
\* loadFrontFile(): the pages behind the front file are where they were.
LEMMA PagedDropFront ==
  ASSUME NEW s, NEW d, NEW first, NEW N \in Seq(Name), NEW b \in Int, NEW last,
         Sorted(N), N # <<>>, b <= Len(N), IsPaged(s, d, first, N, 2, b, last)
  PROVE  IsPaged(s, RemoveFile(d, Head(N)), first, Tail(N), 1, b - 1, last)
<1>1. Len(N) \in Nat /\ DOMAIN N = 1 .. Len(N) /\ Len(N) >= 1 /\ Head(N) = N[1]
      /\ \A k \in 1 .. Len(N) - 1 : Tail(N)[k] = N[k + 1]
  BY SortedTail, LenProperties
<1>2. \A k \in 1 .. b - 1 : Tail(N)[k] = N[k - 1 + 2]
  BY <1>1, \A k \in Int : k - 1 + 2 = k + 1
<1>3. ASSUME NEW k \in 2 .. b
      PROVE  N[k] \in DOMAIN RemoveFile(d, Head(N)) /\ RemoveFile(d, Head(N))[N[k]] = d[N[k]]
  <2>1. k \in DOMAIN N /\ 1 \in DOMAIN N /\ k # 1
    BY <1>1
  <2>2. N[k] # N[1]
    BY <2>1, SortedDistinct
  <2>3. N[k] \in DOMAIN d
    BY DEF IsPaged
  <2> QED  BY <1>1, <2>2, <2>3 DEF RemoveFile
<1>4. (b - 1) - 1 = b - 2 /\ b - 1 \in Int
  OBVIOUS
<1>5. Relisted(d, N, 2, b, RemoveFile(d, Head(N)), Tail(N), 1, b - 1)
  BY <1>2, <1>3, <1>4 DEF Relisted
<1> QED  BY <1>5, PagedRelisted

\* loadBackFile(): the pages before the back file are where they were.
LEMMA PagedDropLast ==
  ASSUME NEW s, NEW d, NEW first, NEW N \in Seq(Name), NEW last, Sorted(N), N # <<>>,
         IsPaged(s, d, first, N, 1, Len(N) - 1, last)
  PROVE  IsPaged(s, RemoveFile(d, N[Len(N)]), first, SubSeq(N, 1, Len(N) - 1), 1, Len(N) - 1, last)
<1> DEFINE t == SubSeq(N, 1, Len(N) - 1)
<1>0. Len(N) \in Nat /\ DOMAIN N = 1 .. Len(N) /\ Len(N) >= 1
  BY SortedFront, LenProperties
<1>1. \A k \in 1 .. Len(N) - 1 : t[k] = N[k]
  BY SortedFront
<1>2. \A k \in 1 .. Len(N) - 1 : t[k] = N[k - 1 + 1]
  BY <1>0, <1>1, \A k \in Int : k - 1 + 1 = k
<1> HIDE DEF t
<1>3. ASSUME NEW k \in 1 .. Len(N) - 1
      PROVE  N[k] \in DOMAIN RemoveFile(d, N[Len(N)]) /\ RemoveFile(d, N[Len(N)])[N[k]] = d[N[k]]
  <2>0. \A l \in Nat : l >= 1 => l \in 1 .. l /\ \A j \in 1 .. l - 1 : j \in 1 .. l /\ j # l
    OBVIOUS
  <2>1. k \in DOMAIN N /\ Len(N) \in DOMAIN N /\ k # Len(N)
    BY <1>0, <2>0, Zenon
  <2>2. N[k] # N[Len(N)]
    BY <2>1, SortedDistinct
  <2>3. N[k] \in DOMAIN d
    BY DEF IsPaged
  <2> QED  BY <2>2, <2>3 DEF RemoveFile
<1>4. Len(N) - 1 \in Int
  BY <1>0
<1>6. Relisted(d, N, 1, Len(N) - 1, RemoveFile(d, N[Len(N)]), t, 1, Len(N) - 1)
  BY <1>2, <1>3, <1>4 DEF Relisted
<1>5. IsPaged(s, RemoveFile(d, N[Len(N)]), first, t, 1, Len(N) - 1, last)
  BY <1>6, PagedRelisted
<1> QED  BY <1>5 DEF t

\* persistToFile() of a new name at the back leaves the other pages alone.
LEMMA PagedAppend ==
  ASSUME NEW s, NEW d, NEW first, NEW N \in Seq(Name), NEW a \in Nat, a >= 1, NEW last,
         IsPaged(s, d, first, N, a, Len(N), last),
         NEW n \in Name, n \notin NamesIn(N), NEW p
  PROVE  IsPaged(s, WriteFile(d, n, p), first, Append(N, n), a, Len(N), last)
<1>1. Len(N) \in Nat /\ DOMAIN N = 1 .. Len(N) /\ \A k \in 1 .. Len(N) : Append(N, n)[k] = N[k]
  BY AppendProperties, LenProperties
<1>2. \A k \in a .. Len(N) : Append(N, n)[k] = N[k - a + a]
  BY <1>1, \A k \in Int : k - a + a = k
<1>3. ASSUME NEW k \in a .. Len(N)
      PROVE  N[k] \in DOMAIN WriteFile(d, n, p) /\ WriteFile(d, n, p)[N[k]] = d[N[k]]
  <2>1. k \in DOMAIN N
    BY <1>1
  <2>2. N[k] # n
    BY <2>1 DEF NamesIn
  <2>3. N[k] \in DOMAIN d
    BY DEF IsPaged
  <2> QED  BY <2>2, <2>3 DEF WriteFile
<1>4. Relisted(d, N, a, Len(N), WriteFile(d, n, p), Append(N, n), a, Len(N))
  BY <1>1, <1>2, <1>3 DEF Relisted
<1> QED  BY <1>4, PagedRelisted

\* persistToFile("0") at the front leaves the other pages alone.
LEMMA PagedPrepend ==
  ASSUME NEW s, NEW d, NEW first, NEW N \in Seq(Name), NEW last, Sorted(N),
         IsPaged(s, d, first, N, 1, Len(N), last),
         NEW n \in Name, \A m \in NamesIn(N) : Before(n, m), NEW p
  PROVE  IsPaged(s, WriteFile(d, n, p), first, <<n>> \o N, 2, Len(N) + 1, last)
<1> DEFINE t == <<n>> \o N
<1>1. /\ Len(N) \in Nat /\ DOMAIN N = 1 .. Len(N) /\ n \notin NamesIn(N)
      /\ \A k \in 1 .. Len(N) : t[k + 1] = N[k]
  BY SortedPrepend, LenProperties
<1>2. \A k \in 2 .. Len(N) + 1 : t[k] = N[k - 2 + 1]
  <2> SUFFICES ASSUME NEW k \in 2 .. Len(N) + 1 PROVE t[k] = N[k - 2 + 1]
    OBVIOUS
  <2>1. k - 2 + 1 \in 1 .. Len(N) /\ (k - 2 + 1) + 1 = k
    BY <1>1
  <2> HIDE DEF t
  <2> QED  BY <1>1, <2>1
<1>3. ASSUME NEW k \in 1 .. Len(N)
      PROVE  N[k] \in DOMAIN WriteFile(d, n, p) /\ WriteFile(d, n, p)[N[k]] = d[N[k]]
  <2>1. N[k] # n
    BY <1>1 DEF NamesIn
  <2>2. N[k] \in DOMAIN d
    BY DEF IsPaged
  <2> QED  BY <2>1, <2>2 DEF WriteFile
<1>4. (Len(N) + 1) - 2 = Len(N) - 1 /\ Len(N) + 1 \in Int /\ Len(N) \in Int
  BY <1>1
<1> HIDE DEF t
<1>6. Relisted(d, N, 1, Len(N), WriteFile(d, n, p), t, 2, Len(N) + 1)
  BY <1>2, <1>3, <1>4 DEF Relisted
<1>5. IsPaged(s, WriteFile(d, n, p), first, t, 2, Len(N) + 1, last)
  BY <1>6, PagedRelisted
<1> QED  BY <1>5 DEF t

---------------------------------------------------------------------------
(* A sequence is determined by its pages *)

\* A set of numbers that is not empty has a least one.
LEMMA LeastNumber ==
  ASSUME NEW T, T \subseteq Nat, T # {}
  PROVE  \E i \in T : \A j \in T : i <= j
<1> DEFINE R == {ss \in Nat \X Nat : ss[1] < ss[2]}
<1>1. IsWellFoundedOn(R, Nat)
  BY NatLessThanWellFounded, Zenon DEF OpToRel
<1>2. PICK i \in T : \A j \in T : ~(<<j, i>> \in R)
  BY <1>1, WFMin, Zenon
<1>3. ASSUME NEW j \in T PROVE i <= j
  <2>1. i \in Nat /\ j \in Nat
    OBVIOUS
  <2>2. j < i => <<j, i>> \in R
    BY <2>1
  <2>3. ~(j < i)
    BY <1>2, <2>2
  <2> QED  BY <2>1, <2>3
<1> QED  BY <1>3

\* Which of m pages position r is on.
LEMMA OnPage ==
  ASSUME NEW m \in Nat, NEW r \in 1 .. m * MaxItemsPerPage
  PROVE  \E u \in 0 .. m - 1, i \in 1 .. MaxItemsPerPage : r = u * MaxItemsPerPage + i
<1> DEFINE T == {u \in Nat : r <= (u + 1) * MaxItemsPerPage}
<1>0. \A u \in Nat : u * MaxItemsPerPage \in Nat /\ (u + 1) * MaxItemsPerPage = u * MaxItemsPerPage + MaxItemsPerPage
  BY PageArithmetic, FullPages
<1>1. r \in Nat /\ r >= 1 /\ r <= m * MaxItemsPerPage
  BY <1>0
<1>2. m # 0
  BY <1>1, PageSizeAssumption
<1>3. m - 1 \in T
  BY <1>1, <1>2, (m - 1) + 1 = m
<1>4. PICK u \in T : \A j \in T : u <= j
  BY <1>3, LeastNumber
<1>5. u \in 0 .. m - 1
  BY <1>3, <1>4
<1>6. u * MaxItemsPerPage < r
  <2>1. CASE u = 0
    BY <1>1, <2>1, PageSizeAssumption
  <2>2. CASE u # 0
    <3>1. u - 1 \in Nat /\ ~(u <= u - 1) /\ (u - 1) + 1 = u
      BY <1>5, <2>2
    <3>2. u - 1 \notin T
      BY <1>4, <3>1
    <3>3. ~(r <= u * MaxItemsPerPage)
      BY <3>1, <3>2
    <3> QED  BY <1>0, <1>1, <1>5, <3>3
  <2> QED  BY <2>1, <2>2
<1> DEFINE w == u * MaxItemsPerPage
<1>7. w \in Nat /\ r <= w + MaxItemsPerPage /\ w < r
  BY <1>0, <1>4, <1>6
<1> HIDE DEF w
<1>8. r - w \in 1 .. MaxItemsPerPage /\ r = w + (r - w)
  BY <1>1, <1>7, PageSizeAssumption
<1> QED  BY <1>5, <1>8 DEF w

\* Two sequences on the same pages are the same.
LEMMA PagedUnique ==
  ASSUME NEW s \in Seq(Items), NEW t \in Seq(Items), NEW d, NEW first \in Seq(Items), NEW N,
         NEW a \in Int, NEW b \in Int, NEW last \in Seq(Items), b - a + 1 >= 0,
         IsPaged(s, d, first, N, a, b, last), IsPaged(t, d, first, N, a, b, last)
  PROVE  s = t
<1> DEFINE c == (b - a + 1) * MaxItemsPerPage
<1>1. /\ c \in Nat /\ Len(first) \in Nat /\ Len(last) \in Nat
      /\ Len(s) = Len(first) + c + Len(last) /\ Len(t) = Len(s)
  <2>1. c \in Nat
    BY FullPages, b - a + 1 \in Nat
  <2>2. Len(first) \in Nat /\ Len(last) \in Nat
    BY LenProperties
  <2> QED  BY <2>1, <2>2 DEF IsPaged
<1>2. ASSUME NEW j \in 1 .. Len(s) PROVE s[j] = t[j]
  <2>1. CASE j <= Len(first)
    <3>1. j \in 1 .. Len(first)
      BY <2>1, <1>1
    <3> QED  BY <3>1 DEF IsPaged
  <2>2. CASE j > Len(first) + c
    <3> DEFINE i == j - (Len(first) + c)
    <3> HIDE DEF c
    <3>1. i \in 1 .. Len(last) /\ j = Len(first) + c + i
      BY <2>2, <1>1
    <3> HIDE DEF i
    <3>2. s[Len(first) + c + i] = last[i] /\ t[Len(first) + c + i] = last[i]
      BY <3>1 DEF IsPaged, c
    <3> QED  BY <3>1, <3>2
  <2>3. CASE j > Len(first) /\ j <= Len(first) + c
    <3>1. b - a + 1 \in Nat /\ j - Len(first) \in 1 .. c
      <4> HIDE DEF c
      <4> QED  BY <2>3, <1>1
    <3>2. PICK u \in 0 .. (b - a + 1) - 1, i \in 1 .. MaxItemsPerPage : j - Len(first) = u * MaxItemsPerPage + i
      BY <3>1, OnPage
    <3>3. a + u \in a .. b /\ (a + u) - a = u
      OBVIOUS
    <3>4. /\ s[Len(first) + ((a + u) - a) * MaxItemsPerPage + i] = d[N[a + u]][i]
          /\ t[Len(first) + ((a + u) - a) * MaxItemsPerPage + i] = d[N[a + u]][i]
      BY <3>3 DEF IsPaged
    <3> DEFINE w == u * MaxItemsPerPage
    <3>5. s[Len(first) + w + i] = t[Len(first) + w + i] /\ w \in Nat /\ j - Len(first) = w + i
      <4>1. ((a + u) - a) * MaxItemsPerPage = w
        BY <3>3
      <4>2. w \in Nat
        BY FullPages, u \in Nat
      <4> HIDE DEF w
      <4>3. s[Len(first) + w + i] = t[Len(first) + w + i]
        BY <3>4, <4>1
      <4> QED  BY <3>2, <4>2, <4>3 DEF w
    <3> HIDE DEF w
    <3>6. j = Len(first) + w + i
      BY <3>5, <1>1
    <3> QED  BY <3>5, <3>6
  <2> HIDE DEF c
  <2> QED  BY <1>1, <2>1, <2>2, <2>3
<1> QED  BY <1>1, <1>2, SeqEqual

\* A page put behind whole pages is their last page.
LEMMA PagedJoin ==
  ASSUME NEW s \in Seq(Items), NEW d, NEW first \in Seq(Items), NEW N, NEW a \in Int, NEW b \in Int,
         NEW last \in Seq(Items), b - a + 1 >= 0,
         IsPaged(s, d, first, N, a, b, <<>>), Len(last) <= MaxItemsPerPage
  PROVE  s \o last \in Seq(Items) /\ IsPaged(s \o last, d, first, N, a, b, last)
<1> DEFINE c == (b - a + 1) * MaxItemsPerPage
           t == s \o last
<1>1. c \in Nat /\ Len(first) \in Nat /\ Len(last) \in Nat /\ Len(s) = Len(first) + c
  <2>1. c \in Nat
    BY FullPages, b - a + 1 \in Nat
  <2>2. Len(first) \in Nat /\ Len(last) \in Nat /\ Len(<<>>) = 0
    BY LenProperties
  <2>3. Len(s) = Len(first) + c + Len(<<>>)
    BY DEF IsPaged
  <2> HIDE DEF c
  <2> QED  BY <2>1, <2>2, <2>3
<1>2. /\ t \in Seq(Items) /\ Len(t) = Len(s) + Len(last)
      /\ \A j \in 1 .. Len(s) : t[j] = s[j]
      /\ \A j \in 1 .. Len(last) : t[Len(s) + j] = last[j]
  BY ConcatProperties
<1> HIDE DEF c, t
<1>3. \A i \in 1 .. Len(first) : t[i] = first[i]
  <2>1. \A i \in 1 .. Len(first) : i \in 1 .. Len(s) /\ s[i] = first[i]
    BY <1>1 DEF IsPaged
  <2> QED  BY <1>2, <2>1
<1>4. ASSUME NEW k \in a .. b, NEW i \in 1 .. MaxItemsPerPage
      PROVE  t[Len(first) + (k - a) * MaxItemsPerPage + i] = d[N[k]][i]
  <2> DEFINE u == (k - a) * MaxItemsPerPage
  <2>1. u \in Nat /\ u + MaxItemsPerPage <= c
    BY PageEnd DEF c
  <2>2. s[Len(first) + u + i] = d[N[k]][i]
    BY DEF IsPaged
  <2> HIDE DEF u
  <2>3. Len(first) + u + i \in 1 .. Len(s)
    BY <1>1, <2>1, PageSizeAssumption
  <2>4. t[Len(first) + u + i] = d[N[k]][i]
    BY <1>2, <2>2, <2>3
  <2> QED  BY <2>4 DEF u
<1>5. \A i \in 1 .. Len(last) : t[Len(first) + c + i] = last[i]
  BY <1>1, <1>2
<1>6. Len(t) = Len(first) + c + Len(last)
  BY <1>1, <1>2
<1> QED  BY <1>2, <1>3, <1>4, <1>5, <1>6 DEF IsPaged, c, t

\* The last of the whole pages, taken as the last page.
LEMMA PagedUnfileLast ==
  ASSUME NEW s \in Seq(Items), NEW d, NEW first \in Seq(Items), NEW N, NEW a \in Int, NEW b \in Int,
         a <= b, IsPaged(s, d, first, N, a, b, <<>>)
  PROVE  IsPaged(s, d, first, N, a, b - 1, d[N[b]])
<1> DEFINE c == ((b - 1) - a + 1) * MaxItemsPerPage
           e == (b - a + 1) * MaxItemsPerPage
<1>1. b \in a .. b /\ (b - 1) - a + 1 = b - a /\ b - a \in Nat /\ b - a + 1 = (b - a) + 1
  OBVIOUS
<1>2. c \in Nat /\ e = c + MaxItemsPerPage /\ c = (b - a) * MaxItemsPerPage
  <2> DEFINE m == b - a
  <2>1. m \in Nat /\ (b - 1) - a + 1 = m /\ b - a + 1 = m + 1
    BY <1>1
  <2> HIDE DEF m
  <2>2. m * MaxItemsPerPage \in Nat /\ (m + 1) * MaxItemsPerPage = m * MaxItemsPerPage + MaxItemsPerPage
    BY <2>1, m \in Int, PageArithmetic, FullPages, Zenon
  <2>3. c = m * MaxItemsPerPage /\ e = (m + 1) * MaxItemsPerPage
    BY <2>1
  <2> QED  BY <2>2, <2>3 DEF m
<1>3. /\ N[b] \in DOMAIN d /\ Len(d[N[b]]) = MaxItemsPerPage
      /\ \A i \in 1 .. MaxItemsPerPage : s[Len(first) + c + i] = d[N[b]][i]
  BY <1>1, <1>2 DEF IsPaged
<1>4. Len(s) = Len(first) + c + Len(d[N[b]])
  <2>1. Len(s) = Len(first) + e + 0 /\ Len(first) \in Nat
    BY LenProperties, Len(<<>>) = 0 DEF IsPaged
  <2> HIDE DEF c, e
  <2> QED  BY <1>2, <1>3, <2>1, PageSizeAssumption
<1>5. \A k \in a .. b - 1 : k \in a .. b
  OBVIOUS
<1> QED  BY <1>3, <1>4, <1>5, PageSizeAssumption DEF IsPaged

\* The stretch of a sequence that is in its files, and maybe the beginning of
\* its last page.
LEMMA PagedStretch ==
  ASSUME NEW s \in Seq(Items), NEW d, NEW first \in Seq(Items), NEW N, NEW a \in Int, NEW b \in Int,
         NEW last \in Seq(Items), b - a + 1 >= 0, IsPaged(s, d, first, N, a, b, last),
         NEW p \in Seq(Items), Len(p) <= Len(last), \A i \in 1 .. Len(p) : p[i] = last[i],
         NEW t, Len(t) = (b - a + 1) * MaxItemsPerPage + Len(p), \A j \in 1 .. Len(t) : t[j] = s[Len(first) + j]
  PROVE  IsPaged(t, d, <<>>, N, a, b, p)
<1> DEFINE c == (b - a + 1) * MaxItemsPerPage
<1>1. /\ c \in Nat /\ Len(first) \in Nat /\ Len(last) \in Nat /\ Len(p) \in Nat
      /\ Len(s) = Len(first) + c + Len(last) /\ Len(last) <= MaxItemsPerPage
  <2>1. c \in Nat
    BY FullPages, b - a + 1 \in Nat
  <2>2. Len(first) \in Nat /\ Len(last) \in Nat /\ Len(p) \in Nat
    BY LenProperties
  <2> QED  BY <2>1, <2>2 DEF IsPaged
<1>2. Len(t) = c + Len(p) /\ \A j \in 1 .. c + Len(p) : t[j] = s[Len(first) + j]
  OBVIOUS
<1> HIDE DEF c
<1>3. Len(<<>>) = 0
  OBVIOUS
<1>4. ASSUME NEW k \in a .. b, NEW i \in 1 .. MaxItemsPerPage
      PROVE  t[Len(<<>>) + (k - a) * MaxItemsPerPage + i] = d[N[k]][i]
  <2> DEFINE u == (k - a) * MaxItemsPerPage
  <2>1. u \in Nat /\ u + MaxItemsPerPage <= c
    BY PageEnd DEF c
  <2>2. s[Len(first) + u + i] = d[N[k]][i]
    BY DEF IsPaged
  <2> HIDE DEF u
  <2>3. u + i \in 1 .. c + Len(p) /\ Len(first) + (u + i) = Len(first) + u + i /\ Len(<<>>) + u + i = u + i
    BY <1>1, <1>3, <2>1, PageSizeAssumption
  <2>4. t[Len(<<>>) + u + i] = d[N[k]][i]
    BY <1>2, <2>2, <2>3
  <2> QED  BY <2>4 DEF u
<1>5. ASSUME NEW i \in 1 .. Len(p) PROVE t[Len(<<>>) + c + i] = p[i]
  <2>1. i \in 1 .. Len(last)
    BY <1>1
  <2>2. s[Len(first) + c + i] = last[i]
    BY <2>1 DEF IsPaged, c
  <2>3. c + i \in 1 .. c + Len(p) /\ Len(first) + (c + i) = Len(first) + c + i /\ Len(<<>>) + c + i = c + i
    BY <1>1, <1>3
  <2> QED  BY <1>2, <2>2, <2>3
<1>6. Len(t) = Len(<<>>) + c + Len(p) /\ Len(p) <= MaxItemsPerPage
  <2>1. Len(p) <= MaxItemsPerPage
    BY <1>1, PageSizeAssumption
  <2>2. \A x, y \in Nat : x + y = 0 + x + y
    OBVIOUS
  <2>3. Len(t) = Len(<<>>) + c + Len(p)
    BY <1>1, <1>2, <1>3, <2>2
  <2> QED  BY <2>1, <2>3
<1> QED  BY <1>3, <1>4, <1>5, <1>6 DEF IsPaged, c

---------------------------------------------------------------------------
(* The one sorted list of some files *)

\* A sorted list names as many files as it is long.
LEMMA SortedLength ==
  ASSUME NEW s \in Seq(Name), Sorted(s)
  PROVE  IsFiniteSet(NamesIn(s)) /\ Cardinality(NamesIn(s)) = Len(s)
<1>1. Len(s) \in Nat /\ DOMAIN s = 1 .. Len(s)
  BY LenProperties
<1>2. s \in [1 .. Len(s) -> NamesIn(s)]
  BY <1>1 DEF NamesIn
<1>3. \A i, j \in 1 .. Len(s) : s[i] = s[j] => i = j
  BY <1>1, SortedDistinct
<1>4. \A n \in NamesIn(s) : \E i \in 1 .. Len(s) : s[i] = n
  BY <1>1 DEF NamesIn
<1>5. s \in Bijection(1 .. Len(s), NamesIn(s))
  BY <1>2, <1>3, <1>4, Fun_IsBij
<1>6. IsFiniteSet(1 .. Len(s)) /\ Cardinality(1 .. Len(s)) = Len(s)
  BY <1>1, FS_Interval
<1> QED  BY <1>5, <1>6, FS_Bijection DEF ExistsBijection

\* Of two names at most one sorts before the other.
LEMMA BeforeOneWay ==
  ASSUME NEW m \in Name, NEW n \in Name, Before(m, n)
  PROVE  ~Before(n, m)
<1>1. m[1] \in Nat /\ m[2] \in Nat /\ n[1] \in Nat /\ n[2] \in Nat
  BY DEF Name
<1>2. m[1] < n[1] \/ (m[1] = n[1] /\ m[2] < n[2])
  BY DEF Before
<1>3. ~(n[1] < m[1] \/ (n[1] = m[1] /\ n[2] < m[2]))
  BY <1>1, <1>2
<1> QED  BY <1>3 DEF Before

\* Two sorted lists of the same files are the same.
LEMMA SortedUnique ==
  ASSUME NEW s \in Seq(Name), Sorted(s), NEW t \in Seq(Name), Sorted(t), NamesIn(s) = NamesIn(t)
  PROVE  s = t
<1>1. Len(s) = Len(t) /\ Len(s) \in Nat /\ DOMAIN s = 1 .. Len(s) /\ DOMAIN t = 1 .. Len(s)
  BY SortedLength, LenProperties
<1> DEFINE T == {i \in 1 .. Len(s) : s[i] # t[i]}
<1>2. T = {}
  <2> SUFFICES ASSUME T # {} PROVE FALSE
    OBVIOUS
  <2>1. T \subseteq Nat
    BY <1>1
  <2>2. PICK i \in T : \A j \in T : i <= j
    BY <2>1, LeastNumber
  <2>3. i \in 1 .. Len(s) /\ s[i] # t[i] /\ s[i] \in Name /\ t[i] \in Name
    BY <1>1
  <2>4. \A j \in 1 .. Len(s) : j < i => s[j] = t[j]
    BY <2>2, <2>3
  <2>5. ASSUME NEW k \in 1 .. Len(s), t[k] = s[i] PROVE Before(t[i], s[i])
    <3>1. k # i
      BY <2>3, <2>5
    <3>2. ~(k < i)
      <4> SUFFICES ASSUME k < i PROVE FALSE
        OBVIOUS
      <4>1. s[k] = s[i]
        BY <2>4, <2>5
      <4> QED  BY <1>1, <2>3, <3>1, <4>1, SortedDistinct
    <3>3. i < k
      BY <2>3, <3>1, <3>2
    <3> QED  BY <1>1, <2>3, <2>5, <3>3 DEF Sorted
  <2>6. ASSUME NEW k \in 1 .. Len(s), s[k] = t[i] PROVE Before(s[i], t[i])
    <3>1. k # i
      BY <2>3, <2>6
    <3>2. ~(k < i)
      <4> SUFFICES ASSUME k < i PROVE FALSE
        OBVIOUS
      <4>1. t[k] = t[i]
        BY <2>4, <2>6
      <4> QED  BY <1>1, <2>3, <3>1, <4>1, SortedDistinct
    <3>3. i < k
      BY <2>3, <3>1, <3>2
    <3> QED  BY <1>1, <2>3, <2>6, <3>3 DEF Sorted
  <2>7. s[i] \in NamesIn(s) /\ t[i] \in NamesIn(t)
    BY <1>1, <2>3 DEF NamesIn
  <2>8. (\E k \in 1 .. Len(s) : t[k] = s[i]) /\ (\E k \in 1 .. Len(s) : s[k] = t[i])
    BY <1>1, <2>7 DEF NamesIn
  <2>9. Before(t[i], s[i]) /\ Before(s[i], t[i])
    BY <2>5, <2>6, <2>8
  <2> QED  BY <2>3, <2>9, BeforeOneWay
<1>3. \A i \in 1 .. Len(s) : s[i] = t[i]
  BY <1>2
<1> QED  BY <1>1, <1>3, SeqEqual

\* loadOrphanedQueueFiles() has one list to find: that of the names in order.
LEMMA ListingUnique ==
  ASSUME NEW D, NEW N \in Seq(Name), Sorted(N), NamesIn(N) = D
  PROVE  /\ N \in [1 .. Cardinality(D) -> D]
         /\ \A s \in [1 .. Cardinality(D) -> D] : Sorted(s) => s = N
<1>1. Cardinality(D) = Len(N) /\ Len(N) \in Nat /\ DOMAIN N = 1 .. Len(N) /\ IsFiniteSet(D) /\ D \subseteq Name
  BY SortedLength, LenProperties DEF NamesIn
<1>2. N \in [1 .. Cardinality(D) -> D]
  BY <1>1 DEF NamesIn
<1>3. ASSUME NEW s \in [1 .. Cardinality(D) -> D], Sorted(s) PROVE s = N
  <2>1. s \in Seq(Name) /\ DOMAIN s = 1 .. Len(N)
    BY <1>1
  <2>2. s \in Injection(1 .. Len(N), D)
    <3>1. \A i, j \in 1 .. Len(N) : s[i] = s[j] => i = j
      BY <1>3, <2>1, SortedDistinct
    <3> QED  BY <1>1, <3>1, Fun_IsInj
  <2>3. Cardinality(1 .. Len(N)) = Cardinality(D)
    <3>1. Cardinality(1 .. Len(N)) = IF 1 > Len(N) THEN 0 ELSE Len(N) - 1 + 1
      BY <1>1, FS_Interval, 1 \in Int, Len(N) \in Int
    <3> QED  BY <1>1, <3>1
  <2>4. s \in Surjection(1 .. Len(N), D)
    BY <1>1, <2>2, <2>3, FS_Injection
  <2>5. NamesIn(s) = NamesIn(N)
    <3>1. \A n \in D : \E i \in 1 .. Len(N) : s[i] = n
      BY <2>4 DEF Surjection
    <3>2. \A i \in 1 .. Len(N) : s[i] \in D
      BY <1>1
    <3>3. NamesIn(s) = D
      BY <2>1, <3>1, <3>2 DEF NamesIn
    <3> QED  BY <3>3
  <2> QED  BY <1>3, <2>1, <2>5, SortedUnique
<1> QED  BY <1>2, <1>3
===========================================================================
