--------------------- MODULE PersistedQueueFaultsProofs ---------------------
(***************************************************************************)
(* Proofs about PersistedQueueFaults, for any items, page size and faults, *)
(* and for any names of the files: that no item is delivered twice does    *)
(* not depend on what the files are called or the STATE file lists.        *)
(***************************************************************************)
EXTENDS PersistedQueueFaults, PersistedQueueProofs

---------------------------------------------------------------------------
(* Pages as sequences *)

In(x, s) == \E n \in DOMAIN s : s[n] = x
Inj(s) == \A k, l \in DOMAIN s : s[k] = s[l] => k = l
Disjoint(s, r) == \A x : ~(In(x, s) /\ In(x, r))

\* A page with items of p only, none of them twice.
PartOf(r, p) == r \in Seq(Items) /\ Inj(r) /\ \A x : In(x, r) => In(x, p)

LEMMA PageDomain == ASSUME NEW s \in Seq(Items) PROVE Len(s) \in Nat /\ DOMAIN s = 1 .. Len(s)
  BY LenProperties

LEMMA NoItems == <<>> \in Seq(Items) /\ Inj(<<>>) /\ \A x : ~In(x, <<>>)
  BY DEF In, Inj

LEMMA OneItem == ASSUME NEW i \in Items PROVE <<i>> \in Seq(Items) /\ Inj(<<i>>) /\ \A x : In(x, <<i>>) <=> x = i
<1>1. <<i>> \in Seq(Items) /\ DOMAIN <<i>> = {1} /\ <<i>>[1] = i OBVIOUS
<1> QED BY <1>1 DEF In, Inj

LEMMA TailPart ==
  ASSUME NEW s \in Seq(Items), Inj(s), s # <<>>
  PROVE  Head(s) \in Items /\ In(Head(s), s) /\ PartOf(Tail(s), s) /\ ~In(Head(s), Tail(s))
<1>1. Len(s) \in Nat /\ Len(s) >= 1 /\ DOMAIN s = 1 .. Len(s) /\ Head(s) = s[1] BY PageDomain, EmptySeq
<1>2. /\ Head(s) \in Items /\ Tail(s) \in Seq(Items) /\ Len(Tail(s)) = Len(s) - 1
      /\ \A n \in 1 .. Len(s) - 1 : n + 1 \in 1 .. Len(s) /\ Tail(s)[n] = s[n + 1]
  BY <1>1, HeadTailProperties
<1>3. DOMAIN Tail(s) = 1 .. Len(s) - 1 BY <1>2, PageDomain
<1>4. In(Head(s), s) BY <1>1 DEF In
<1>5. ASSUME NEW x, In(x, Tail(s)) PROVE In(x, s) /\ x # Head(s)
  <2>1. PICK n \in 1 .. Len(s) - 1 : Tail(s)[n] = x BY <1>3, <1>5 DEF In
  <2>2. n + 1 \in DOMAIN s /\ 1 \in DOMAIN s /\ n + 1 # 1 /\ s[n + 1] = x BY <1>1, <1>2, <2>1
  <2> QED BY <1>1, <2>2 DEF In, Inj
<1>6. ASSUME NEW k \in 1 .. Len(s) - 1, NEW l \in 1 .. Len(s) - 1, Tail(s)[k] = Tail(s)[l] PROVE k = l
  <2>1. k + 1 \in DOMAIN s /\ l + 1 \in DOMAIN s /\ s[k + 1] = s[l + 1] BY <1>1, <1>2, <1>6
  <2>2. k + 1 = l + 1 BY <2>1 DEF Inj
  <2> QED BY <2>2
<1> QED BY <1>2, <1>3, <1>4, <1>5, <1>6 DEF PartOf, Inj

\* A new item at either end of a page.
LEMMA AddedItem ==
  ASSUME NEW s \in Seq(Items), Inj(s), NEW i \in Items, ~In(i, s)
  PROVE  /\ Append(s, i) \in Seq(Items) /\ Inj(Append(s, i)) /\ \A x : In(x, Append(s, i)) => In(x, s) \/ x = i
         /\ <<i>> \o s \in Seq(Items) /\ Inj(<<i>> \o s) /\ \A x : In(x, <<i>> \o s) => In(x, s) \/ x = i
<1>1. Len(s) \in Nat /\ DOMAIN s = 1 .. Len(s) BY PageDomain
<1> DEFINE r == Append(s, i)
           t == <<i>> \o s
<1>2. /\ r \in Seq(Items) /\ DOMAIN r = 1 .. Len(s) + 1 /\ r[Len(s) + 1] = i
      /\ \A n \in 1 .. Len(s) : r[n] = s[n]
  BY AppendProperties, PageDomain
<1>3. /\ t \in Seq(Items) /\ DOMAIN t = 1 .. Len(s) + 1 /\ t[1] = i
      /\ \A n \in 2 .. Len(s) + 1 : n - 1 \in DOMAIN s /\ t[n] = s[n - 1]
  <2>1. <<i>> \in Seq(Items) /\ Len(<<i>>) = 1 /\ <<i>>[1] = i OBVIOUS
  <2>2. t \in Seq(Items) /\ Len(t) = 1 + Len(s) /\ \A n \in 1 .. 1 + Len(s) : t[n] = IF n <= 1 THEN <<i>>[n] ELSE s[n - 1]
    BY <2>1, ConcatProperties
  <2> HIDE DEF t
  <2>3. DOMAIN t = 1 .. Len(s) + 1 BY <1>1, <2>2, PageDomain
  <2>4. t[1] = i BY <1>1, <2>1, <2>2
  <2>5. \A n \in 2 .. Len(s) + 1 : n - 1 \in DOMAIN s /\ t[n] = s[n - 1] BY <1>1, <2>2
  <2> QED BY <2>2, <2>3, <2>4, <2>5
<1> HIDE DEF r, t
<1>4. ASSUME NEW n \in DOMAIN r PROVE (n \in DOMAIN s /\ r[n] = s[n]) \/ (n = Len(s) + 1 /\ r[n] = i) BY <1>1, <1>2
<1>5. ASSUME NEW n \in DOMAIN t PROVE (n - 1 \in DOMAIN s /\ t[n] = s[n - 1] /\ n \in Int) \/ (n = 1 /\ t[n] = i) BY <1>1, <1>3
<1>6. \A n \in DOMAIN s : s[n] # i BY DEF In
<1>7. Inj(r) /\ \A x : In(x, r) => In(x, s) \/ x = i BY <1>4, <1>6 DEF In, Inj
<1>8. \A x : In(x, t) => In(x, s) \/ x = i BY <1>5 DEF In
<1>9. ASSUME NEW k \in DOMAIN t, NEW l \in DOMAIN t, t[k] = t[l] PROVE k = l
  <2>1. CASE k - 1 \in DOMAIN s /\ t[k] = s[k - 1] /\ k \in Int /\ l - 1 \in DOMAIN s /\ t[l] = s[l - 1] /\ l \in Int
    <3>1. k - 1 = l - 1 BY <1>9, <2>1 DEF Inj
    <3> QED BY <2>1, <3>1
  <2> QED BY <1>5, <1>6, <1>9, <2>1
<1> QED BY <1>2, <1>3, <1>7, <1>8, <1>9 DEF r, t, Inj

\* A page that was cut short.
LEMMA TornPrefix ==
  ASSUME NEW s \in Seq(Items), NEW p \in Torn(s)
  PROVE  p \in Seq(Items) /\ Len(p) \in 0 .. Len(s) /\ \A n \in 1 .. Len(p) : p[n] = s[n]
<1>1. Len(s) \in Nat /\ DOMAIN s = 1 .. Len(s) BY PageDomain
<1>2. PICK l \in 0 .. Len(s) : p = SubSeq(s, 1, l) BY DEF Torn, S!Prefixes
<1>3. CASE l = 0 BY <1>1, <1>2, <1>3, SubSeqProperties
<1>4. CASE l # 0 BY <1>1, <1>2, <1>4, SubSeqProperties
<1> QED BY <1>3, <1>4

LEMMA TornPart == ASSUME NEW s \in Seq(Items), Inj(s), NEW p \in Torn(s) PROVE PartOf(p, s)
<1>1. Len(s) \in Nat /\ DOMAIN s = 1 .. Len(s) BY PageDomain
<1>2. p \in Seq(Items) /\ Len(p) \in 0 .. Len(s) /\ \A n \in 1 .. Len(p) : p[n] = s[n] BY TornPrefix
<1>3. DOMAIN p = 1 .. Len(p) /\ 1 .. Len(p) \subseteq DOMAIN s BY <1>1, <1>2, PageDomain
<1> QED BY <1>2, <1>3 DEF PartOf, In, Inj

---------------------------------------------------------------------------
(* Where the items are: the pages p in memory and the files d *)

Holds(p, d, x) == (\E s \in Slots : In(x, p[s])) \/ (\E n \in DOMAIN d : In(x, d[n]))

PagesApart(p) == p \in [Slots -> Seq(Items)] /\ (\A s \in Slots : Inj(p[s])) /\ Disjoint(p[0], p[1])
FilesApart(d) ==
  /\ \A n \in DOMAIN d : d[n] \in Seq(Items) /\ Inj(d[n])
  /\ \A m, n \in DOMAIN d : m # n => Disjoint(d[m], d[n])

\* No item is in two pages, two files, or a page of some and a file.
Apart(p, d, some) ==
  PagesApart(p) /\ FilesApart(d) /\ \A s \in some, n \in DOMAIN d : Disjoint(p[s], d[n])

LEMMA SlotsApart == ASSUME NEW p, PagesApart(p) PROVE \A s, r \in Slots : s # r => Disjoint(p[s], p[r])
  BY DEF PagesApart, Disjoint, Slots

\* A page is replaced: its items may stay, and items held nowhere may be added.
LEMMA PageReplaced ==
  ASSUME NEW p, NEW d, Apart(p, d, Slots), NEW s \in Slots, NEW r \in Seq(Items), Inj(r),
         \A x : In(x, r) => In(x, p[s]) \/ ~Holds(p, d, x)
  PROVE  /\ Apart([p EXCEPT ![s] = r], d, Slots)
         /\ \A x : Holds([p EXCEPT ![s] = r], d, x) => Holds(p, d, x) \/ In(x, r)
         /\ \A x : In(x, p[s]) /\ ~In(x, r) => ~Holds([p EXCEPT ![s] = r], d, x)
<1> DEFINE new == [p EXCEPT ![s] = r]
<1>1. /\ p \in [Slots -> Seq(Items)] /\ \A t \in Slots : Inj(p[t]) BY DEF Apart, PagesApart
<1>2. new \in [Slots -> Seq(Items)] /\ new[s] = r /\ \A t \in Slots : t # s => new[t] = p[t] BY <1>1
<1> HIDE DEF new
<1>3. \A t \in Slots : t # s => Disjoint(p[s], p[t]) BY SlotsApart DEF Apart
<1>4. ASSUME NEW t \in Slots, t # s PROVE Disjoint(r, p[t]) BY <1>3, <1>4 DEF Disjoint, Holds
<1>5. \A n \in DOMAIN d : Disjoint(p[s], d[n]) BY DEF Apart
<1>6. ASSUME NEW n \in DOMAIN d PROVE Disjoint(r, d[n]) BY <1>5 DEF Disjoint, Holds
<1>7. Disjoint(new[0], new[1])
  <2>1. CASE s = 0 BY <2>1, <1>2, <1>4 DEF Slots
  <2>2. CASE s = 1 BY <2>2, <1>2, <1>4 DEF Slots, Disjoint
  <2> QED BY <2>1, <2>2 DEF Slots
<1>8. PagesApart(new) BY <1>1, <1>2, <1>7 DEF PagesApart
<1>9. Apart(new, d, Slots) BY <1>2, <1>6, <1>8 DEF Apart
<1>10. \A x : Holds(new, d, x) => Holds(p, d, x) \/ In(x, r) BY <1>2 DEF Holds
<1>11. \A x : In(x, p[s]) /\ ~In(x, r) => ~Holds(new, d, x) BY <1>2, <1>3, <1>5 DEF Holds, Disjoint
<1> QED BY <1>9, <1>10, <1>11 DEF new

\* A file is loaded into a page, or a part of it is, and removed.
LEMMA FileLoaded ==
  ASSUME NEW p, NEW d, Apart(p, d, Slots), NEW s \in Slots, NEW n \in DOMAIN d, NEW r, PartOf(r, d[n])
  PROVE  /\ Apart([p EXCEPT ![s] = r], RemoveFile(d, n), Slots)
         /\ \A x : Holds([p EXCEPT ![s] = r], RemoveFile(d, n), x) => Holds(p, d, x)
         /\ \A x : In(x, d[n]) /\ ~In(x, r) => ~Holds([p EXCEPT ![s] = r], RemoveFile(d, n), x)
<1> DEFINE new == [p EXCEPT ![s] = r]
           left == RemoveFile(d, n)
<1>1. /\ p \in [Slots -> Seq(Items)] /\ \A t \in Slots : Inj(p[t]) BY DEF Apart, PagesApart
<1>2. new \in [Slots -> Seq(Items)] /\ new[s] = r /\ \A t \in Slots : t # s => new[t] = p[t] BY <1>1 DEF PartOf
<1>3. DOMAIN left = DOMAIN d \ {n} /\ \A m \in DOMAIN d \ {n} : left[m] = d[m] BY DEF RemoveFile
<1> HIDE DEF new, left
<1>4. Inj(r) /\ \A x : In(x, r) => In(x, d[n]) BY DEF PartOf
<1>5. \A t \in Slots, m \in DOMAIN d : Disjoint(p[t], d[m]) BY DEF Apart
<1>6. \A m \in DOMAIN left : m \in DOMAIN d /\ left[m] = d[m] /\ Disjoint(d[n], d[m]) BY <1>3 DEF Apart, FilesApart
<1>7. FilesApart(left) BY <1>6 DEF Apart, FilesApart
<1>8. \A t \in Slots : Disjoint(r, p[t]) /\ Disjoint(p[t], r) BY <1>4, <1>5 DEF Disjoint
<1>9. Disjoint(new[0], new[1])
  <2>1. CASE s = 0 BY <2>1, <1>2, <1>8 DEF Slots
  <2>2. CASE s = 1 BY <2>2, <1>2, <1>8 DEF Slots
  <2> QED BY <2>1, <2>2 DEF Slots
<1>10. PagesApart(new) BY <1>1, <1>2, <1>4, <1>9 DEF PagesApart
<1>11. \A m \in DOMAIN left : Disjoint(r, left[m]) BY <1>4, <1>6 DEF Disjoint
<1>12. Apart(new, left, Slots) BY <1>2, <1>5, <1>6, <1>7, <1>10, <1>11 DEF Apart
<1>13. \A x : Holds(new, left, x) => Holds(p, d, x) BY <1>2, <1>4, <1>6 DEF Holds
<1>14. \A x : In(x, d[n]) /\ ~In(x, r) => ~Holds(new, left, x) BY <1>2, <1>5, <1>6 DEF Holds, Disjoint
<1> QED BY <1>12, <1>13, <1>14 DEF new, left

\* A page of some, or the beginning of it, is written to a file.
LEMMA PageWritten ==
  ASSUME NEW p, NEW d, NEW some, Apart(p, d, some), some \subseteq Slots, NEW s \in some, NEW n, NEW r, PartOf(r, p[s])
  PROVE  /\ Apart(p, WriteFile(d, n, r), some \ {s})
         /\ \A x : Holds(p, WriteFile(d, n, r), x) => Holds(p, d, x)
<1> DEFINE new == WriteFile(d, n, r)
<1>1. DOMAIN new = DOMAIN d \cup {n} /\ new[n] = r /\ \A m \in DOMAIN d : m # n => new[m] = d[m] BY DEF WriteFile
<1> HIDE DEF new
<1>2. r \in Seq(Items) /\ Inj(r) /\ \A x : In(x, r) => In(x, p[s]) BY DEF PartOf
<1>3. \A m \in DOMAIN d : Disjoint(r, d[m]) /\ Disjoint(d[m], r) BY <1>2 DEF Apart, Disjoint
<1>4. FilesApart(new) BY <1>1, <1>2, <1>3 DEF Apart, FilesApart
<1>5. \A t \in some \ {s} : Disjoint(p[t], r) BY <1>2, SlotsApart DEF Apart, Disjoint
<1>6. Apart(p, new, some \ {s}) BY <1>1, <1>4, <1>5 DEF Apart
<1>7. \A x : Holds(p, new, x) => Holds(p, d, x) BY <1>1, <1>2 DEF Holds
<1> QED BY <1>6, <1>7 DEF new

\* The pages in memory are gone.
LEMMA PagesGone ==
  ASSUME NEW p, NEW d, FilesApart(d), p = [s \in Slots |-> <<>>]
  PROVE  Apart(p, d, Slots) /\ \A x : Holds(p, d, x) => \E n \in DOMAIN d : In(x, d[n])
<1>1. p \in [Slots -> Seq(Items)] /\ \A s \in Slots : p[s] = <<>> OBVIOUS
<1>2. PagesApart(p) BY <1>1, NoItems DEF PagesApart, Disjoint, Slots
<1> QED BY <1>1, <1>2, NoItems DEF Apart, Holds, Disjoint

---------------------------------------------------------------------------
(* The invariant *)

\* The pages that shutdown() has not written yet.
Unwritten ==
  CASE pc = "writeLast" -> {lastPage} \ {firstPage}
    [] pc = "writeState" -> {}
    [] OTHER -> Slots

\* The items pushed are the first of Order.
UsedInOrder ==
  /\ IsFiniteSet(used) /\ Cardinality(used) \in 0 .. Len(Order)
  /\ used = {Order[k] : k \in 1 .. Cardinality(used)}
  /\ delivered \subseteq used

\* Whatever is in a page or a file was pushed and has not been delivered.
HeldNotDelivered == \A x : Holds(page, disk, x) => x \in used /\ x \notin delivered

\* Only the destructor shuts the queue down, so that pages that are written
\* are not used any more.
WrittenByDestructor == pc \in {"writeFirst", "writeLast", "writeState"} => destroying = TRUE

TwiceInv ==
  /\ firstPage \in Slots /\ lastPage \in Slots
  /\ Apart(page, disk, Unwritten) /\ UsedInOrder /\ HeldNotDelivered /\ WrittenByDestructor

LEMMA UnwrittenSlots == ASSUME firstPage \in Slots, lastPage \in Slots PROVE Unwritten \subseteq Slots
  BY DEF Unwritten

LEMMA AllUnwritten == pc \notin {"writeLast", "writeState"} => Unwritten = Slots
  BY DEF Unwritten

LEMMA ApartFor ==
  ASSUME NEW p, NEW d, NEW some, NEW fewer \in SUBSET some, Apart(p, d, some) PROVE Apart(p, d, fewer)
  BY DEF Apart

\* The invariant holds after a step that leaves all items apart, holds none
\* that was not held before, and delivers none that is still held.
LEMMA StoreStep ==
  ASSUME TwiceInv, firstPage' \in Slots, lastPage' \in Slots, Apart(page', disk', Slots),
         used' = used, delivered \subseteq delivered', delivered' \subseteq used,
         \A x : Holds(page', disk', x) => Holds(page, disk, x) /\ (x \in delivered' => x \in delivered),
         WrittenByDestructor'
  PROVE  TwiceInv'
<1>1. Unwritten' \subseteq Slots BY UnwrittenSlots DEF Unwritten
<1>2. Apart(page', disk', Unwritten') BY <1>1, ApartFor
<1>3. UsedInOrder' BY DEF TwiceInv, UsedInOrder
<1>4. HeldNotDelivered' BY DEF TwiceInv, HeldNotDelivered
<1> QED BY <1>2, <1>3, <1>4 DEF TwiceInv

\* A step that leaves the pages, the files and the history alone.
LEMMA QuietStep ==
  ASSUME TwiceInv, UNCHANGED <<page, firstPage, lastPage, disk, used, delivered>>,
         pc' \in {"writeLast", "writeState"} => pc' = pc, pc \in {"writeLast", "writeState"} => pc' = pc,
         WrittenByDestructor'
  PROVE  TwiceInv'
<1>1. Unwritten' = Unwritten BY DEF Unwritten
<1> QED BY <1>1 DEF TwiceInv, UsedInOrder, HeldNotDelivered

\* A step that leaves only the files, as they are or with a page written to one.
LEMMA GoneStep ==
  ASSUME TwiceInv, page' = [s \in Slots |-> <<>>], firstPage' = 0, lastPage' = 0, UNCHANGED <<used, delivered>>,
         FilesApart(disk'), \A x : (\E n \in DOMAIN disk' : In(x, disk'[n])) => Holds(page, disk, x),
         pc' \notin {"writeFirst", "writeLast", "writeState"}
  PROVE  TwiceInv'
<1>1. Apart(page', disk', Slots) /\ \A x : Holds(page', disk', x) => Holds(page, disk, x) BY PagesGone
<1>2. WrittenByDestructor' BY DEF WrittenByDestructor
<1>3. firstPage' \in Slots /\ lastPage' \in Slots BY DEF Slots
<1>4. delivered' \subseteq used BY DEF TwiceInv, UsedInOrder
<1> QED BY <1>1, <1>2, <1>3, <1>4, StoreStep

LEMMA InitTwice == FaultInit => TwiceInv
<1> SUFFICES ASSUME FaultInit PROVE TwiceInv OBVIOUS
<1>1. page = [s \in Slots |-> <<>>] /\ disk = <<>> /\ firstPage = 0 /\ lastPage = 0 /\ pc = "down" /\ used = {} /\ delivered = {}
  BY DEF FaultInit, Init
<1>2. FilesApart(disk) /\ DOMAIN disk = {} BY <1>1 DEF FilesApart
<1>3. Apart(page, disk, Slots) /\ HeldNotDelivered BY <1>1, <1>2, PagesGone DEF HeldNotDelivered
<1>4. UsedInOrder
  <2>1. IsFiniteSet(used) /\ Cardinality(used) = 0 BY <1>1, FS_EmptySet
  <2>2. Len(Order) \in Nat BY FaultsAssumption, LenProperties
  <2> QED BY <1>1, <2>1, <2>2 DEF UsedInOrder
<1> QED BY <1>1, <1>3, <1>4, AllUnwritten DEF TwiceInv, WrittenByDestructor, Slots

---------------------------------------------------------------------------
(* The front of the queue *)

LEMMA FrontPageHeld ==
  ASSUME TwiceInv, pc \in {"idle", "clear"}, ~FrontFileMissing
  PROVE  /\ FrontPage \in Seq(Items) /\ Inj(FrontPage)
         /\ \A x : In(x, FrontPage) => Holds(page, disk, x)
<1>1. Apart(page, disk, Slots) BY AllUnwritten DEF TwiceInv
<1>2. CASE page[firstPage] # <<>> BY <1>1, <1>2 DEF TwiceInv, FrontPage, Apart, PagesApart, Holds
<1>3. CASE page[firstPage] = <<>> /\ persistedFileNames = <<>>
  BY <1>1, <1>3 DEF TwiceInv, FrontPage, Apart, PagesApart, Holds
<1>4. CASE page[firstPage] = <<>> /\ persistedFileNames # <<>>
  <2>1. Head(persistedFileNames) \in DOMAIN disk BY <1>4 DEF FrontFileMissing, NeedsFile
  <2>2. FrontPage = disk[Head(persistedFileNames)] BY <1>4 DEF FrontPage
  <2> QED BY <1>1, <2>1, <2>2 DEF Apart, FilesApart, Holds
<1> QED BY <1>2, <1>3, <1>4

\* The front page, or a part of it, becomes the first page.
LEMMA FirstPageSet ==
  ASSUME TwiceInv, pc \in {"idle", "clear"}, ~FrontFileMissing, NEW r, PartOf(r, FrontPage), SetFirstPage(r)
  PROVE  /\ firstPage' \in Slots /\ lastPage' \in Slots /\ Apart(page', disk', Slots)
         /\ \A x : Holds(page', disk', x) => Holds(page, disk, x)
         /\ \A x : In(x, FrontPage) /\ ~In(x, r) => ~Holds(page', disk', x)
<1>1. Apart(page, disk, Slots) BY AllUnwritten DEF TwiceInv
<1>2. FrontSlot \in Slots BY DEF FrontSlot, TwiceInv, Slots, Other
<1>3. firstPage' = FrontSlot /\ lastPage' = lastPage /\ page' = [page EXCEPT ![FrontSlot] = r] BY DEF SetFirstPage
<1>4. CASE ~NeedsFile
  <2>1. disk' = disk BY <1>4 DEF SetFirstPage
  <2>2. FrontPage = page[FrontSlot] BY <1>4 DEF NeedsFile, FrontPage, FrontSlot
  <2>3. r \in Seq(Items) /\ Inj(r) /\ \A x : In(x, r) => In(x, page[FrontSlot]) BY <2>2 DEF PartOf
  <2>4. \A x : In(x, r) => Holds(page, disk, x) BY <1>2, <2>3 DEF Holds
  <2> QED BY <1>1, <1>2, <1>3, <2>1, <2>2, <2>3, <2>4, PageReplaced DEF TwiceInv
<1>5. CASE NeedsFile
  <2>1. disk' = RemoveFile(disk, Head(persistedFileNames)) BY <1>5 DEF SetFirstPage
  <2>2. Head(persistedFileNames) \in DOMAIN disk BY <1>5 DEF FrontFileMissing
  <2>3. FrontPage = disk[Head(persistedFileNames)] BY <1>5 DEF NeedsFile, FrontPage
  <2> QED BY <1>1, <1>2, <1>3, <2>1, <2>2, <2>3, FileLoaded DEF TwiceInv
<1> QED BY <1>4, <1>5

\* A call that takes nothing: front(), or a load that fails.
LEMMA FrontTwice == ASSUME TwiceInv, Front, UNCHANGED faultHistory PROVE TwiceInv'
<1>1. pc = "idle" /\ pc' = pc /\ destroying' = destroying /\ UNCHANGED <<used, delivered>> BY DEF Front, faultHistory
<1>2. WrittenByDestructor' BY <1>1 DEF WrittenByDestructor
<1>3. CASE FrontFileMissing /\ LoadFrontFileFails BY <1>1, <1>2, <1>3, QuietStep DEF LoadFrontFileFails, files
<1>4. CASE ~FrontFileMissing /\ SetFirstPage(FrontPage)
  <2>1. PartOf(FrontPage, FrontPage) BY <1>1, <1>4, FrontPageHeld DEF PartOf
  <2>2. /\ firstPage' \in Slots /\ lastPage' \in Slots /\ Apart(page', disk', Slots)
        /\ \A x : Holds(page', disk', x) => Holds(page, disk, x)
    BY <1>1, <1>4, <2>1, FirstPageSet
  <2>3. delivered' \subseteq used BY <1>1 DEF TwiceInv, UsedInOrder
  <2> QED BY <1>1, <1>2, <2>2, <2>3, StoreStep
<1> QED BY <1>3, <1>4 DEF Front, FrontItem

\* One pop_front(), of the client or of clear(): what it takes is delivered,
\* and held nowhere any more.
LEMMA PopTwice ==
  ASSUME TwiceInv, pc \in {"idle", "clear"}, pc' \in {"idle", "clear"}, NEW clearing, PopItem(clearing), used' = used,
         delivered' = IF ~FrontFileMissing /\ FrontPage # <<>> THEN delivered \cup {Head(FrontPage)} ELSE delivered
  PROVE  TwiceInv'
<1>1. WrittenByDestructor' BY DEF WrittenByDestructor
<1>2. delivered \subseteq used BY DEF TwiceInv, UsedInOrder
<1>3. CASE FrontFileMissing
  <2>1. LoadFrontFileFails /\ delivered' = delivered BY <1>3, Zenon DEF PopItem
  <2>2. UNCHANGED <<page, firstPage, lastPage, disk, used, delivered>> BY <2>1 DEF LoadFrontFileFails, files
  <2> QED BY <1>1, <2>2, QuietStep
<1>4. CASE ~FrontFileMissing /\ FrontPage = <<>>
  <2>1. SetFirstPage(<<>>) /\ delivered' = delivered BY <1>4, Zenon DEF PopItem
  <2>2. PartOf(<<>>, FrontPage) BY NoItems DEF PartOf
  <2> QED BY <1>1, <1>2, <1>4, <2>1, <2>2, FirstPageSet, StoreStep
<1>5. CASE ~FrontFileMissing /\ FrontPage # <<>>
  <2>1. SetFirstPage(Tail(FrontPage)) /\ delivered' = delivered \cup {Head(FrontPage)} BY <1>5, Zenon DEF PopItem
  <2>2. FrontPage \in Seq(Items) /\ Inj(FrontPage) /\ \A x : In(x, FrontPage) => Holds(page, disk, x)
    BY <1>5, FrontPageHeld
  <2>3. In(Head(FrontPage), FrontPage) /\ PartOf(Tail(FrontPage), FrontPage) /\ ~In(Head(FrontPage), Tail(FrontPage))
    BY <1>5, <2>2, TailPart
  <2>4. /\ firstPage' \in Slots /\ lastPage' \in Slots /\ Apart(page', disk', Slots)
        /\ \A x : Holds(page', disk', x) => Holds(page, disk, x)
        /\ ~Holds(page', disk', Head(FrontPage))
    BY <1>5, <2>1, <2>3, FirstPageSet
  <2>5. Head(FrontPage) \in used BY <2>2, <2>3 DEF TwiceInv, HeldNotDelivered
  <2>6. delivered' \subseteq used BY <1>2, <2>1, <2>5
  <2>7. \A x : Holds(page', disk', x) => Holds(page, disk, x) /\ (x \in delivered' => x \in delivered)
    BY <2>1, <2>4
  <2> QED BY <1>1, <2>1, <2>4, <2>6, <2>7, StoreStep
<1> QED BY <1>3, <1>4, <1>5

\* pop_front(): what it returns is delivered, if it is an item.
LEMMA PopFrontTwice == ASSUME TwiceInv, Pop PROVE TwiceInv'
<1>1. pc = "idle" /\ pc' = pc /\ used' = used /\ delivered' = delivered \cup ({ret'} \cap Items)
  BY DEF Pop, PopFront
<1>2. \A r \in Results : {r} \cap Items = {} BY FaultsAssumption
<1>3. CASE Refused
  <2>1. ret' \in Results BY <1>3 DEF Refused, Results
  <2>2. UNCHANGED <<page, firstPage, lastPage, disk, used, delivered>> BY <1>1, <1>2, <1>3, <2>1 DEF Refused, memory, files
  <2> QED BY <1>1, <2>2, QuietStep DEF WrittenByDestructor
<1>4. CASE PopItem(FALSE)
  <2>1. CASE FrontFileMissing \/ FrontPage = <<>>
    <3>1. ret' \in {"CouldNotLoadQueueFile", "null"} BY <1>4, <2>1 DEF PopItem, LoadFrontFileFails
    <3>2. delivered' = delivered BY <1>1, <1>2, <3>1 DEF Results
    <3> QED BY <1>1, <1>4, <2>1, <3>2, PopTwice
  <2>2. CASE ~FrontFileMissing /\ FrontPage # <<>>
    <3>1. ret' = Head(FrontPage) BY <1>4, <2>2 DEF PopItem
    <3>2. Head(FrontPage) \in Items BY <1>1, <2>2, FrontPageHeld, TailPart
    <3>3. delivered' = delivered \cup {Head(FrontPage)} BY <1>1, <3>1, <3>2
    <3> QED BY <1>1, <1>4, <2>2, <3>3, PopTwice
  <2> QED BY <2>1, <2>2
<1> QED BY <1>3, <1>4 DEF Pop, PopFront

\* clear(): what each pop_front() takes counts as delivered.
LEMMA DiscardTwice == ASSUME TwiceInv, Discard PROVE TwiceInv'
<1>1. /\ pc = "clear" /\ used' = used
      /\ delivered' = IF ret' = "clearing" /\ FrontPage # <<>> THEN delivered \cup {Head(FrontPage)} ELSE delivered
  BY DEF Discard, ClearStep
<1>2. CASE UNCHANGED <<memory, files>> /\ pc' = "idle" /\ ret' # "clearing"
  <2>1. UNCHANGED <<page, firstPage, lastPage, disk, used, delivered>> BY <1>1, <1>2 DEF memory, files
  <2> QED BY <1>1, <1>2, <2>1, QuietStep DEF WrittenByDestructor
<1>3. CASE PopItem(TRUE) /\ pc' = IF ret' = "CouldNotLoadQueueFile" THEN "idle" ELSE "clear"
  <2>1. CASE FrontFileMissing
    <3>1. ret' = "CouldNotLoadQueueFile" BY <1>3, <2>1 DEF PopItem, LoadFrontFileFails
    <3>2. delivered' = delivered BY <1>1, <3>1
    <3> QED BY <1>1, <1>3, <2>1, <3>2, PopTwice
  <2>2. CASE ~FrontFileMissing
    <3>1. ret' = "clearing" BY <1>3, <2>2 DEF PopItem
    <3> QED BY <1>1, <1>3, <2>2, <3>1, PopTwice
  <2> QED BY <2>1, <2>2
<1> QED BY <1>2, <1>3 DEF Discard, ClearStep, Refused

---------------------------------------------------------------------------
(* The back of the queue *)

\* The item pushed next has not been pushed before.
LEMMA NextItem ==
  ASSUME UsedInOrder, Cardinality(used) < Len(Order), NEW i, i = Order[Cardinality(used) + 1],
         used' = used \cup {i}, delivered' = delivered
  PROVE  i \in Items /\ i \notin used /\ UsedInOrder'
<1> DEFINE n == Cardinality(used)
<1>1. n \in Nat /\ Len(Order) \in Nat /\ n + 1 \in 1 .. Len(Order) /\ used = {Order[k] : k \in 1 .. n}
  BY FaultsAssumption, LenProperties DEF UsedInOrder
<1>2. DOMAIN Order = 1 .. Len(Order) /\ \A k, l \in 1 .. Len(Order) : Order[k] = Order[l] => k = l
  BY FaultsAssumption, LenProperties DEF S!IsInjective
<1>3. i \in Items BY <1>1, <1>2, FaultsAssumption
<1>4. \A k \in 1 .. n : k \in 1 .. Len(Order) /\ k # n + 1 BY <1>1
<1>5. i \notin used BY <1>1, <1>2, <1>4
<1>6. IsFiniteSet(used') /\ Cardinality(used') = n + 1 BY <1>5, FS_AddElement DEF UsedInOrder
<1>7. 1 .. n + 1 = (1 .. n) \cup {n + 1} BY <1>1
<1>8. used' = {Order[k] : k \in 1 .. n + 1} BY <1>1, <1>7
<1>9. n + 1 \in 0 .. Len(Order) BY <1>1
<1> QED BY <1>3, <1>5, <1>6, <1>8, <1>9 DEF UsedInOrder

\* The invariant holds after a push that has put the item into a page.
LEMMA PushedStep ==
  ASSUME TwiceInv, NEW i, i \notin used, used' = used \cup {i}, delivered' = delivered, UsedInOrder',
         firstPage' \in Slots, lastPage' \in Slots, Apart(page', disk', Slots),
         \A x : Holds(page', disk', x) => Holds(page, disk, x) \/ x = i,
         WrittenByDestructor'
  PROVE  TwiceInv'
<1>1. Apart(page', disk', Unwritten') BY UnwrittenSlots, ApartFor DEF Unwritten
<1>2. delivered \subseteq used BY DEF TwiceInv, UsedInOrder
<1>3. HeldNotDelivered' BY <1>2 DEF TwiceInv, HeldNotDelivered
<1> QED BY <1>1, <1>3 DEF TwiceInv

LEMMA PushTwice == ASSUME TwiceInv, Push PROVE TwiceInv'
<1> DEFINE i == Order[Cardinality(used) + 1]
<1>1. /\ Cardinality(used) < Len(Order) /\ used' = used \cup {i} /\ delivered' = delivered
      /\ PushBack(i) \/ PushFront(i)
  BY DEF Push
<1>2. i \in Items /\ i \notin used /\ UsedInOrder' BY <1>1, NextItem DEF TwiceInv
<1> HIDE DEF i
<1>3. pc = "idle" /\ pc' = pc BY <1>1 DEF PushBack, PushFront
<1>4. WrittenByDestructor' BY <1>3 DEF WrittenByDestructor
<1>5. firstPage \in Slots /\ lastPage \in Slots /\ Apart(page, disk, Slots) BY <1>3, AllUnwritten DEF TwiceInv
<1>6. page \in [Slots -> Seq(Items)] /\ \A s \in Slots : Inj(page[s]) BY <1>5 DEF Apart, PagesApart
<1>7. ~Holds(page, disk, i) BY <1>2 DEF TwiceInv, HeldNotDelivered
<1>8. \A s \in Slots : ~In(i, page[s]) BY <1>7 DEF Holds
\* The item is added to a page, or is a page of its own.
<1>9. ASSUME NEW s \in Slots, NEW r, r \in {Append(page[s], i), <<i>> \o page[s], <<i>>}, page' = [page EXCEPT ![s] = r],
             disk' = disk, firstPage' \in Slots, lastPage' \in Slots
      PROVE  TwiceInv'
  <2>1. r \in Seq(Items) /\ Inj(r) /\ \A x : In(x, r) => In(x, page[s]) \/ x = i
    <3>1. CASE r = <<i>> BY <1>2, <3>1, OneItem
    <3>2. CASE r \in {Append(page[s], i), <<i>> \o page[s]}
      <4>1. page[s] \in Seq(Items) /\ Inj(page[s]) /\ ~In(i, page[s]) BY <1>6, <1>8
      <4> QED BY <1>2, <3>2, <4>1, AddedItem
    <3> QED BY <1>9, <3>1, <3>2
  <2>2. \A x : In(x, r) => In(x, page[s]) \/ ~Holds(page, disk, x) BY <1>7, <2>1
  <2>3. \A x : In(x, r) => Holds(page, disk, x) \/ x = i BY <2>1 DEF Holds
  <2>4. Apart(page', disk', Slots) /\ \A x : Holds(page', disk', x) => Holds(page, disk, x) \/ x = i
    BY <1>5, <1>9, <2>1, <2>2, <2>3, PageReplaced
  <2> QED BY <1>1, <1>2, <1>4, <1>9, <2>4, PushedStep
<1>10. CASE Refused
  <2>1. UNCHANGED <<page, firstPage, lastPage, disk>> BY <1>10 DEF Refused, memory, files
  <2> QED BY <1>1, <1>2, <1>4, <1>5, <2>1, PushedStep
<1>11. CASE PushFront(i) /\ ~shutDown
  <2>1. \/ Refused
        \/ page' = [page EXCEPT ![firstPage] = <<i>> \o page[firstPage]] /\ UNCHANGED <<firstPage, lastPage, disk>>
    BY <1>11 DEF PushFront, files
  <2> QED BY <1>5, <1>9, <1>10, <2>1
<1>12. CASE PushBackItem(i) /\ ~LastPageFull
  <2>1. page' = [page EXCEPT ![lastPage] = Append(page[lastPage], i)] /\ UNCHANGED <<firstPage, lastPage, disk>>
    BY <1>12 DEF PushBackItem
  <2> QED BY <1>5, <1>9, <2>1
<1>13. CASE PushBackItem(i) /\ LastPageFull /\ lastPage = firstPage
  <2>1. /\ page' = [page EXCEPT ![Other(firstPage)] = <<i>>]
        /\ lastPage' = Other(firstPage) /\ UNCHANGED <<firstPage, disk>>
    BY <1>13 DEF PushBackItem
  <2>2. Other(firstPage) \in Slots BY <1>5 DEF Other, Slots
  <2> QED BY <1>5, <1>9, <2>1, <2>2
<1>14. CASE PushBackItem(i) /\ LastPageFull /\ lastPage # firstPage
  <2>1. /\ disk' = WriteFile(disk, SeqName, page[lastPage]) /\ page' = [page EXCEPT ![lastPage] = <<i>>]
        /\ UNCHANGED <<firstPage, lastPage>>
    BY <1>14 DEF PushBackItem, PersistToFile
  <2>2. PartOf(page[lastPage], page[lastPage]) BY <1>5, <1>6 DEF PartOf
  <2>3. Apart(page, disk', Slots \ {lastPage}) /\ \A x : Holds(page, disk', x) => Holds(page, disk, x)
    BY <1>5, <2>1, <2>2, PageWritten
  <2>4. <<i>> \in Seq(Items) /\ Inj(<<i>>) /\ \A x : In(x, <<i>>) <=> x = i BY <1>2, OneItem
  <2>5. page' \in [Slots -> Seq(Items)] /\ page'[lastPage] = <<i>> /\ \A s \in Slots : s # lastPage => page'[s] = page[s]
    BY <1>5, <1>6, <2>1, <2>4
  <2>6. \A x : Holds(page', disk', x) => Holds(page, disk', x) \/ x = i BY <2>4, <2>5 DEF Holds
  <2>7. ~Holds(page, disk', i) BY <1>7, <2>3
  <2>8. Disjoint(page'[0], page'[1])
    <3>1. CASE lastPage = 0 BY <3>1, <2>4, <2>5, <1>8 DEF Disjoint, Slots
    <3>2. CASE lastPage = 1 BY <3>2, <2>4, <2>5, <1>8 DEF Disjoint, Slots
    <3> QED BY <1>5, <3>1, <3>2 DEF Slots
  <2>9. PagesApart(page') BY <1>6, <2>4, <2>5, <2>8 DEF PagesApart
  <2>10. \A n \in DOMAIN disk' : Disjoint(<<i>>, disk'[n]) BY <2>4, <2>7 DEF Disjoint, Holds
  <2>11. Apart(page', disk', Slots) BY <2>3, <2>5, <2>9, <2>10 DEF Apart
  <2>12. firstPage' \in Slots /\ lastPage' \in Slots BY <1>5, <2>1
  <2> QED BY <1>1, <1>2, <1>4, <2>3, <2>6, <2>11, <2>12, PushedStep
<1> QED BY <1>1, <1>10, <1>11, <1>12, <1>13, <1>14 DEF PushBack, PushFront

---------------------------------------------------------------------------
(* The constructor *)

LEMMA ConstructTwice == ASSUME TwiceInv, Construct, UNCHANGED faultHistory PROVE TwiceInv'
<1>1. /\ page' = [s \in Slots |-> <<>>] /\ firstPage' = 0 /\ lastPage' = 0 /\ disk' = disk /\ pc' = "loadFirst"
      /\ UNCHANGED <<used, delivered>>
  BY DEF Construct, faultHistory
<1>2. FilesApart(disk') BY <1>1 DEF TwiceInv, Apart
<1> QED BY <1>1, <1>2, GoneStep DEF Holds

\* The constructor loads a file into a slot.
LEMMA LoadStep ==
  ASSUME TwiceInv, pc \notin {"writeLast", "writeState"}, NEW s \in Slots, NEW n \in DOMAIN disk,
         page' = [page EXCEPT ![s] = disk[n]], disk' = RemoveFile(disk, n), firstPage' \in Slots, lastPage' \in Slots,
         UNCHANGED <<used, delivered>>, pc' \in {"idle", "loadLast"}
  PROVE  TwiceInv'
<1>1. Apart(page, disk, Slots) BY AllUnwritten DEF TwiceInv
<1>2. PartOf(disk[n], disk[n]) BY <1>1 DEF Apart, FilesApart, PartOf
<1>3. Apart(page', disk', Slots) /\ \A x : Holds(page', disk', x) => Holds(page, disk, x) BY <1>1, <1>2, FileLoaded
<1>4. delivered' \subseteq used /\ WrittenByDestructor' BY DEF TwiceInv, UsedInOrder, WrittenByDestructor
<1> QED BY <1>3, <1>4, StoreStep

LEMMA LoadFirstTwice == ASSUME TwiceInv, LoadFirst, UNCHANGED faultHistory PROVE TwiceInv'
<1>1. pc = "loadFirst" /\ UNCHANGED <<used, delivered>> BY DEF LoadFirst, faultHistory
<1>2. CASE pc' = "idle" /\ UNCHANGED <<memory, disk>>
  BY <1>1, <1>2, QuietStep DEF memory, WrittenByDestructor
<1>3. CASE NoObject("CouldNotLoadQueueFile") /\ UNCHANGED disk
  <2>1. FilesApart(disk') BY <1>3 DEF TwiceInv, Apart
  <2> QED BY <1>1, <1>3, <2>1, GoneStep DEF NoObject, Holds
<1>4. CASE /\ Head(persistedFileNames) \in DOMAIN disk
           /\ page' = [page EXCEPT ![firstPage] = disk[Head(persistedFileNames)]]
           /\ disk' = RemoveFile(disk, Head(persistedFileNames))
           /\ pc' \in {"idle", "loadLast"} /\ UNCHANGED <<firstPage, lastPage>>
  <2>1. firstPage \in Slots /\ lastPage \in Slots BY DEF TwiceInv
  <2> QED BY <1>1, <1>4, <2>1, LoadStep
<1> QED BY <1>2, <1>3, <1>4 DEF LoadFirst

LEMMA LoadLastTwice == ASSUME TwiceInv, LoadLast, UNCHANGED faultHistory PROVE TwiceInv'
<1>1. pc = "loadLast" /\ UNCHANGED <<used, delivered>> BY DEF LoadLast, faultHistory
<1>2. CASE NoObject("CouldNotLoadQueueFile") /\ UNCHANGED disk
  <2>1. FilesApart(disk') BY <1>2 DEF TwiceInv, Apart
  <2> QED BY <1>1, <1>2, <2>1, GoneStep DEF NoObject, Holds
<1>3. CASE /\ LastName \in DOMAIN disk /\ page' = [page EXCEPT ![Other(firstPage)] = disk[LastName]]
           /\ disk' = RemoveFile(disk, LastName) /\ pc' = "idle"
           /\ lastPage' = Other(firstPage) /\ UNCHANGED firstPage
  <2>1. firstPage \in Slots /\ Other(firstPage) \in Slots BY DEF TwiceInv, Slots, Other
  <2> QED BY <1>1, <1>3, <2>1, LoadStep
<1> QED BY <1>2, <1>3 DEF LoadLast

---------------------------------------------------------------------------
(* The destructor *)

\* A page that is still to be written can be written, whole or in part.
LEMMA UnwrittenFiled ==
  ASSUME TwiceInv, NEW s \in Unwritten, NEW n, NEW r, PartOf(r, page[s])
  PROVE  /\ Apart(page, WriteFile(disk, n, r), Unwritten \ {s})
         /\ \A x : Holds(page, WriteFile(disk, n, r), x) => Holds(page, disk, x)
<1>1. Unwritten \subseteq Slots /\ Apart(page, disk, Unwritten) BY UnwrittenSlots DEF TwiceInv
<1> QED BY <1>1, PageWritten

LEMMA WholePage == ASSUME TwiceInv, NEW s \in Slots PROVE PartOf(page[s], page[s])
  BY DEF TwiceInv, Apart, PagesApart, PartOf

LEMMA WritingTwice ==
  ASSUME TwiceInv, UNCHANGED <<page, firstPage, lastPage, used, delivered, destroying>>,
         pc \in {"writeFirst", "writeLast"}, Apart(page, disk', Unwritten'),
         \A x : Holds(page, disk', x) => Holds(page, disk, x)
  PROVE  TwiceInv'
<1>1. WrittenByDestructor' BY DEF TwiceInv, WrittenByDestructor
<1>2. UsedInOrder' /\ HeldNotDelivered' BY DEF TwiceInv, UsedInOrder, HeldNotDelivered
<1> QED BY <1>1, <1>2 DEF TwiceInv

LEMMA WriteFirstTwice == ASSUME TwiceInv, WriteFirst, UNCHANGED faultHistory PROVE TwiceInv'
<1>1. /\ pc = "writeFirst" /\ pc' = "writeLast" /\ UNCHANGED <<page, firstPage, lastPage, destroying, used, delivered>>
  BY DEF WriteFirst, faultHistory
<1>2. firstPage \in Slots /\ lastPage \in Slots BY DEF TwiceInv
<1>3. Unwritten = Slots /\ Unwritten' = {lastPage} \ {firstPage} BY <1>1 DEF Unwritten
<1>4. Unwritten' \in SUBSET (Unwritten \ {firstPage}) BY <1>2, <1>3
<1>5. CASE disk' = WriteFile(disk, FileZero, page[firstPage])
  <2>1. Apart(page, disk', Unwritten \ {firstPage}) /\ \A x : Holds(page, disk', x) => Holds(page, disk, x)
    BY <1>2, <1>3, <1>5, WholePage, UnwrittenFiled
  <2>2. Apart(page, disk', Unwritten') BY <1>4, <2>1, ApartFor
  <2> QED BY <1>1, <2>1, <2>2, WritingTwice
<1>6. CASE disk' = disk
  <2>1. Apart(page, disk, Unwritten) /\ Unwritten' \in SUBSET Unwritten BY <1>4 DEF TwiceInv
  <2>2. Apart(page, disk', Unwritten') BY <1>6, <2>1, ApartFor
  <2> QED BY <1>1, <1>6, <2>2, WritingTwice
<1> QED BY <1>5, <1>6 DEF WriteFirst, PersistToFile

LEMMA WriteLastTwice == ASSUME TwiceInv, WriteLast, UNCHANGED faultHistory PROVE TwiceInv'
<1>1. /\ pc = "writeLast" /\ pc' = "writeState" /\ UNCHANGED <<page, firstPage, lastPage, destroying, used, delivered>>
  BY DEF WriteLast, faultHistory
<1>2. firstPage \in Slots /\ lastPage \in Slots BY DEF TwiceInv
<1>3. Unwritten = {lastPage} \ {firstPage} /\ Unwritten' = {} BY <1>1 DEF Unwritten
<1>4. CASE lastPage # firstPage /\ disk' = WriteFile(disk, SeqName, page[lastPage])
  <2>1. lastPage \in Unwritten /\ Unwritten \ {lastPage} = {} BY <1>3, <1>4
  <2>2. Apart(page, disk', Unwritten') /\ \A x : Holds(page, disk', x) => Holds(page, disk, x)
    BY <1>2, <1>3, <1>4, <2>1, WholePage, UnwrittenFiled
  <2> QED BY <1>1, <2>2, WritingTwice
<1>5. CASE disk' = disk
  <2>1. Apart(page, disk, Unwritten) /\ Unwritten' \in SUBSET Unwritten BY <1>3 DEF TwiceInv
  <2>2. Apart(page, disk', Unwritten') BY <1>5, <2>1, ApartFor
  <2> QED BY <1>1, <1>5, <2>2, WritingTwice
<1> QED BY <1>4, <1>5 DEF WriteLast, PersistToFile

LEMMA WriteStateTwice == ASSUME TwiceInv, WriteState, UNCHANGED faultHistory PROVE TwiceInv'
<1>1. pc = "writeState" /\ disk' = disk /\ UNCHANGED <<used, delivered>> BY DEF WriteState, faultHistory
<1>2. destroying = TRUE BY <1>1 DEF TwiceInv, WrittenByDestructor
<1>3. NoObject("ok") BY <1>2, Zenon DEF WriteState
<1>4. FilesApart(disk') BY <1>1 DEF TwiceInv, Apart
<1> QED BY <1>1, <1>3, <1>4, GoneStep DEF NoObject, Holds

---------------------------------------------------------------------------
(* Faults *)

\* The process dies, with the files as they were or a page cut short.
LEMMA DiesTwice ==
  ASSUME TwiceInv, Dies,
         disk' = disk \/ \E s \in Unwritten, n \in {SeqName, FileZero} : \E r \in Torn(page[s]) : disk' = WriteFile(disk, n, r)
  PROVE  TwiceInv'
<1>1. /\ page' = [s \in Slots |-> <<>>] /\ firstPage' = 0 /\ lastPage' = 0 /\ pc' = "down" /\ UNCHANGED <<used, delivered>>
  BY DEF Dies, NoObject
<1>2. CASE disk' = disk
  <2>1. FilesApart(disk') BY <1>2 DEF TwiceInv, Apart
  <2> QED BY <1>1, <1>2, <2>1, GoneStep DEF Holds
<1>3. ASSUME NEW s \in Unwritten, NEW n, NEW r \in Torn(page[s]), disk' = WriteFile(disk, n, r) PROVE TwiceInv'
  <2>1. s \in Slots BY UnwrittenSlots DEF TwiceInv
  <2>2. page[s] \in Seq(Items) /\ Inj(page[s]) BY <2>1 DEF TwiceInv, Apart, PagesApart
  <2>3. PartOf(r, page[s]) BY <2>2, TornPart
  <2>4. FilesApart(disk') /\ \A x : Holds(page, disk', x) => Holds(page, disk, x) BY <1>3, <2>3, UnwrittenFiled DEF Apart
  <2> QED BY <1>1, <2>4, GoneStep DEF Holds
<1> QED BY <1>2, <1>3

LEMMA CrashWritingPageTwice == ASSUME TwiceInv, CrashWritingPage PROVE TwiceInv'
<1>1. Dies BY DEF CrashWritingPage
<1>2. firstPage \in Slots /\ lastPage \in Slots BY DEF TwiceInv
<1>3. CASE pc = "idle" /\ \E p \in Torn(page[lastPage]) : disk' = WriteFile(disk, SeqName, p)
  <2>1. lastPage \in Unwritten BY <1>2, <1>3, AllUnwritten
  <2> QED BY <1>1, <1>3, <2>1, DiesTwice
<1>4. CASE pc = "writeFirst" /\ \E p \in Torn(page[firstPage]) : disk' = WriteFile(disk, FileZero, p)
  <2>1. firstPage \in Unwritten BY <1>2, <1>4, AllUnwritten
  <2> QED BY <1>1, <1>4, <2>1, DiesTwice
<1>5. CASE pc = "writeLast" /\ lastPage # firstPage /\ \E p \in Torn(page[lastPage]) : disk' = WriteFile(disk, SeqName, p)
  <2>1. lastPage \in Unwritten BY <1>5 DEF Unwritten
  <2> QED BY <1>1, <1>5, <2>1, DiesTwice
<1> QED BY <1>3, <1>4, <1>5 DEF CrashWritingPage

LEMMA RefusedTwice == ASSUME TwiceInv, PushBackWriteFails \/ LoadFails PROVE TwiceInv'
<1>1. UNCHANGED <<page, firstPage, lastPage, disk, used, delivered, pc>> /\ pc = "idle"
  BY DEF PushBackWriteFails, LoadFails, files, faultHistory
<1> QED BY <1>1, QuietStep DEF WrittenByDestructor

---------------------------------------------------------------------------
LEMMA NextTwice == ASSUME TwiceInv, [FaultNext]_faultVars PROVE TwiceInv'
<1>1. CASE Tick /\ UNCHANGED faultHistory
  BY <1>1, QuietStep DEF Tick, memory, files, faultHistory, TwiceInv, WrittenByDestructor
<1>2. CASE ClearCall /\ UNCHANGED faultHistory
  BY <1>2, QuietStep DEF ClearCall, memory, files, faultHistory, WrittenByDestructor
<1>3. CASE Shutdown(TRUE) /\ UNCHANGED faultHistory
  BY <1>3, QuietStep DEF Shutdown, files, faultHistory, WrittenByDestructor
<1>4. CASE Crash \/ CrashWritingState BY <1>4, DiesTwice DEF Crash, CrashWritingState, files
<1>5. CASE UNCHANGED faultVars
  BY <1>5, QuietStep DEF faultVars, faultHistory, vars, memory, files, TwiceInv, WrittenByDestructor
<1> QED BY <1>1, <1>2, <1>3, <1>4, <1>5, PushTwice, PopFrontTwice, DiscardTwice, FrontTwice, ConstructTwice,
        LoadFirstTwice, LoadLastTwice, WriteFirstTwice, WriteLastTwice, WriteStateTwice, CrashWritingPageTwice,
        RefusedTwice DEF FaultNext

\* At most once: no item that the client was given, or that clear() took, is in
\* a page or in any file that a later constructor may find, whatever failed and
\* whenever the process died.
THEOREM NeverTwiceCorrect == FaultSpec => []NeverTwice
<1>1. TwiceInv /\ [FaultNext]_faultVars => TwiceInv' BY NextTwice
<1>2. TwiceInv => NeverTwice
  <2> SUFFICES ASSUME TwiceInv, NEW x \in Held PROVE x \notin delivered BY DEF NeverTwice
  <2>1. Holds(page, disk, x)
    <3>1. \A s, y : y \in S!ToSet(s) => In(y, s) BY DEF S!ToSet, In
    <3>2. CASE \E s \in Slots : x \in S!ToSet(page[s]) BY <3>1, <3>2 DEF Holds
    <3>3. CASE \E n \in DOMAIN disk : x \in S!ToSet(disk[n]) BY <3>1, <3>3 DEF Holds
    <3> QED BY <3>2, <3>3 DEF Held
  <2> QED BY <2>1 DEF TwiceInv, HeldNotDelivered
<1> QED BY InitTwice, <1>1, <1>2, PTL DEF FaultSpec

---------------------------------------------------------------------------
(* The files put end to end *)

\* The recursion that FlattenSeq is defined by has a solution, so that its
\* value is the last of the solution.
LEMMA FlattenSeqDef ==
  ASSUME NEW P, Len(P) \in Nat, Len(P) > 0
  PROVE  \E f : /\ f[1] = P[1]
                /\ \A i \in 2 .. Len(P) : f[i] = f[i - 1] \o P[i]
                /\ S!FlattenSeq(P) = f[Len(P)]
<1> DEFINE Solves(g, n) == g = [i \in 1 .. n |-> IF i = 1 THEN P[i] ELSE g[i - 1] \o P[i]]
           T == {n \in Nat : ~\E g : Solves(g, n)}
<1>1. T = {}
  <2> SUFFICES ASSUME T # {} PROVE FALSE OBVIOUS
  <2>1. PICK n \in T : \A j \in T : n <= j BY LeastNumber
  <2>2. n \in Nat /\ ~\E g : Solves(g, n) OBVIOUS
  <2>3. n # 0
    <3> DEFINE e == [i \in 1 .. 0 |-> P[i]]
    <3>1. 1 .. 0 = {} OBVIOUS
    <3>2. Solves(e, 0) BY <3>1
    <3> QED BY <2>2, <3>2
  <2>4. n - 1 \in Nat /\ ~(n <= n - 1) BY <2>2, <2>3
  <2>9. n - 1 \notin T BY <2>1, <2>4, Zenon
  <2>5. PICK h : Solves(h, n - 1) BY <2>4, <2>9, Zenon
  <2> DEFINE g == [i \in 1 .. n |-> IF i = n THEN IF n = 1 THEN P[n] ELSE h[n - 1] \o P[n] ELSE h[i]]
  <2>6. ASSUME NEW i \in 1 .. n PROVE g[i] = IF i = 1 THEN P[i] ELSE g[i - 1] \o P[i]
    <3>1. CASE i = n
      <4>1. i # 1 => i - 1 \in 1 .. n /\ i - 1 # n BY <2>2, <3>1
      <4>2. i # 1 => g[i - 1] = h[i - 1] BY <4>1
      <4> QED BY <3>1, <4>2
    <3>2. CASE i # n
      <4>1. i \in 1 .. n - 1 /\ (i # 1 => i - 1 \in 1 .. n /\ i - 1 # n) BY <2>2, <3>2
      <4>2. h[i] = IF i = 1 THEN P[i] ELSE h[i - 1] \o P[i] BY <2>5, <4>1
      <4>3. i # 1 => g[i - 1] = h[i - 1] BY <4>1
      <4> QED BY <3>2, <4>2, <4>3
    <3> QED BY <3>1, <3>2
  <2>7. g = [i \in 1 .. n |-> g[i]] OBVIOUS
  <2> HIDE DEF g
  <2>8. Solves(g, n) BY <2>6, <2>7
  <2> QED BY <2>2, <2>8
<1>2. \E g : Solves(g, Len(P)) BY <1>1
<1> DEFINE f == CHOOSE g : Solves(g, Len(P))
<1>3. Solves(f, Len(P)) BY <1>2
<1>4. S!FlattenSeq(P) = f[Len(P)] BY DEF S!FlattenSeq
<1> HIDE DEF f
<1>5. \A i \in 1 .. Len(P) : f[i] = IF i = 1 THEN P[i] ELSE f[i - 1] \o P[i] BY <1>3
<1>6. 1 \in 1 .. Len(P) /\ \A i \in 2 .. Len(P) : i \in 1 .. Len(P) /\ i # 1 OBVIOUS
<1>7. f[1] = P[1] BY <1>5, <1>6
<1>8. \A i \in 2 .. Len(P) : f[i] = f[i - 1] \o P[i] BY <1>5, <1>6
<1> QED BY <1>4, <1>7, <1>8

\* The files N of d put end to end.
EndToEnd(d, N) == S!FlattenSeq([k \in DOMAIN N |-> d[N[k]]])

\* The files N of d are pages that may follow each other: all but the first and
\* the last are full, and the last is no longer than a page.
PagesFit(d, N) ==
  /\ \A k \in 1 .. Len(N) : N[k] \in DOMAIN d /\ d[N[k]] \in Seq(Items)
  /\ \A k \in 2 .. Len(N) - 1 : Len(d[N[k]]) = MaxItemsPerPage
  /\ Len(N) > 1 => Len(d[N[Len(N)]]) <= MaxItemsPerPage

\* All of s is in the files N of d.
InFiles(s, d, N) ==
  /\ \A k \in DOMAIN N : N[k] \in DOMAIN d
  /\ \/ N = <<>> /\ s = <<>>
     \/ Len(N) = 1 /\ s = d[N[1]]
     \/ Len(N) > 1 /\ IsPaged(s, d, d[N[1]], N, 2, Len(N) - 1, d[N[Len(N)]])

LEMMA QueueIsInFiles == ASSUME NEW N PROVE QueueInFiles(N) <=> InFiles(q, disk, N)
  BY DEF QueueInFiles, QueueIs, InFiles

\* What is in the files is what they are put end to end.
LEMMA EndToEndInFiles ==
  ASSUME NEW d, NEW N \in Seq(Name), PagesFit(d, N)
  PROVE  EndToEnd(d, N) \in Seq(Items) /\ InFiles(EndToEnd(d, N), d, N)
<1> DEFINE n == Len(N)
           P == [k \in DOMAIN N |-> d[N[k]]]
<1>1. n \in Nat /\ DOMAIN N = 1 .. n BY LenProperties
<1>2. P = [k \in 1 .. n |-> d[N[k]]] /\ \A k \in 1 .. n : P[k] = d[N[k]] BY <1>1
<1>3. Len(P) = n
  <2>1. P \in Seq(Seq(Items)) BY <1>1, <1>2 DEF PagesFit
  <2>2. DOMAIN P = 1 .. Len(P) /\ Len(P) \in Nat BY <2>1, LenProperties
  <2> HIDE DEF P
  <2> QED BY <1>1, <1>2, <2>2
<1>4. \A k \in DOMAIN N : N[k] \in DOMAIN d BY <1>1 DEF PagesFit
<1>5. \A k \in 1 .. n : d[N[k]] \in Seq(Items) BY DEF PagesFit
<1>6. CASE n = 0
  <2>1. N = <<>> BY <1>6, EmptySeq
  <2>2. P = <<>> BY <2>1
  <2>3. S!FlattenSeq(P) = P BY <1>3, <1>6 DEF S!FlattenSeq
  <2>4. EndToEnd(d, N) = <<>> BY <2>2, <2>3 DEF EndToEnd
  <2> QED BY <1>4, <2>1, <2>4, NoItems DEF InFiles
<1>7. CASE n > 0
  <2> HIDE DEF P, n
  <2>1. PICK f : /\ f[1] = P[1]
                 /\ \A i \in 2 .. n : f[i] = f[i - 1] \o P[i]
                 /\ S!FlattenSeq(P) = f[n]
    BY <1>1, <1>3, <1>7, FlattenSeqDef
  <2>2. EndToEnd(d, N) = f[n] BY <2>1 DEF EndToEnd, P
  <2> DEFINE Paged(k) == f[k] \in Seq(Items) /\ IsPaged(f[k], d, d[N[1]], N, 2, k, <<>>)
             T == {k \in 1 .. n - 1 : ~Paged(k)}
  <2>3. f[1] = d[N[1]] /\ d[N[1]] \in Seq(Items) BY <1>1, <1>2, <1>5, <1>7, <2>1
  <2>4. T = {}
    <3> SUFFICES ASSUME T # {} PROVE FALSE OBVIOUS
    <3>1. PICK k \in T : \A j \in T : k <= j
      <4>1. T \subseteq Nat BY <1>1
      <4> QED BY <4>1, LeastNumber
    <3>2. k \in 1 .. n - 1 /\ ~Paged(k) OBVIOUS
    <3>3. k # 1
      <4>1. ASSUME NEW s \in Seq(Items) PROVE IsPaged(s, d, s, N, 2, 1, <<>>)
        BY 1 \in Int, 2 \in Int, 1 = 2 - 1, PagedAlone
      <4> QED BY <2>3, <3>2, <4>1
    <3>4. k - 1 \in 1 .. n - 1 /\ ~(k <= k - 1) /\ k \in 2 .. n - 1 /\ k \in 1 .. n /\ k \in 2 .. n BY <1>1, <3>2, <3>3
    <3>5. Paged(k - 1) BY <3>1, <3>4
    <3>6. d[N[k]] \in Seq(Items) /\ Len(d[N[k]]) = MaxItemsPerPage /\ N[k] \in DOMAIN d
      BY <3>4 DEF PagesFit, n
    <3>7. f[k] = f[k - 1] \o d[N[k]] BY <1>2, <2>1, <3>4
    <3>8. (k - 1) - 2 + 1 >= 0 /\ k - 1 \in Int /\ 2 <= (k - 1) + 1 /\ (k - 1) + 1 = k /\ MaxItemsPerPage <= MaxItemsPerPage
      BY <3>4, PageSizeAssumption
    <3>9. f[k] \in Seq(Items) /\ IsPaged(f[k], d, d[N[1]], N, 2, k - 1, d[N[k]])
      BY <2>3, <3>5, <3>6, <3>7, <3>8, PagedJoin
    <3>10. IsPaged(f[k], d, d[N[1]], N, 2, (k - 1) + 1, <<>>)
      <4> DEFINE b == k - 1
                 x == f[k]
                 first == d[N[1]]
                 last == d[N[k]]
      <4>1. b \in Int /\ 2 \in Int /\ 2 <= b + 1 /\ b + 1 = k BY <3>8
      <4>2. N[b + 1] \in DOMAIN d /\ d[N[b + 1]] = last BY <3>6, <4>1
      <4>3. IsPaged(x, d, first, N, 2, b, last) /\ x \in Seq(Items) BY <3>9
      <4>5. first \in Seq(Items) /\ last \in Seq(Items) /\ Len(last) = MaxItemsPerPage BY <2>3, <3>6
      <4> HIDE DEF b, x, first, last
      <4>4. IsPaged(x, d, first, N, 2, b + 1, <<>>) BY <4>1, <4>2, <4>3, <4>5, PagedFileLast
      <4> QED BY <4>4 DEF b, x, first, last
    <3> QED BY <3>2, <3>8, <3>9, <3>10
  <2>5. CASE n = 1
    BY <1>4, <2>2, <2>3, <2>5 DEF InFiles, n
  <2>6. CASE n > 1
    <3>1. n - 1 \in 1 .. n - 1 /\ n \in 2 .. n /\ n \in 1 .. n /\ n - 1 \in Int /\ (n - 1) - 2 + 1 >= 0 BY <1>1, <2>6
    <3>2. Paged(n - 1) BY <2>4, <3>1
    <3>3. d[N[n]] \in Seq(Items) /\ Len(d[N[n]]) <= MaxItemsPerPage BY <1>5, <2>6, <3>1 DEF PagesFit, n
    <3>4. f[n] = f[n - 1] \o d[N[n]] BY <1>2, <2>1, <3>1
    <3>5. f[n] \in Seq(Items) /\ IsPaged(f[n], d, d[N[1]], N, 2, n - 1, d[N[n]])
      BY <2>3, <3>1, <3>2, <3>3, <3>4, PagedJoin
    <3> QED BY <1>4, <2>2, <2>6, <3>5 DEF InFiles, n
  <2> QED BY <1>1, <1>7, <2>5, <2>6
<1> QED BY <1>1, <1>6, <1>7

\* Two queues that are in the same files are the same.
LEMMA InFilesUnique ==
  ASSUME NEW s \in Seq(Items), NEW t \in Seq(Items), NEW d, NEW N \in Seq(Name),
         \A k \in 1 .. Len(N) : d[N[k]] \in Seq(Items), InFiles(s, d, N), InFiles(t, d, N)
  PROVE  s = t
<1>1. Len(N) \in Nat BY LenProperties
<1>2. CASE N = <<>>
  <2>1. Len(N) = 0 BY <1>2
  <2> QED BY <2>1 DEF InFiles
<1>3. CASE Len(N) = 1
  <2>1. N # <<>> BY <1>3
  <2> QED BY <1>3, <2>1 DEF InFiles
<1>4. CASE Len(N) > 1
  <2>1. N # <<>> /\ Len(N) # 1 BY <1>4
  <2>2. /\ IsPaged(s, d, d[N[1]], N, 2, Len(N) - 1, d[N[Len(N)]])
        /\ IsPaged(t, d, d[N[1]], N, 2, Len(N) - 1, d[N[Len(N)]])
    BY <2>1 DEF InFiles
  <2>3. d[N[1]] \in Seq(Items) /\ d[N[Len(N)]] \in Seq(Items) /\ Len(N) - 1 \in Int /\ (Len(N) - 1) - 2 + 1 >= 0
    BY <1>1, <1>4
  <2> QED BY <2>2, <2>3, PagedUnique
<1> QED BY <1>2, <1>3, <1>4 DEF InFiles

---------------------------------------------------------------------------
(* What a dying process leaves *)

\* The files N of d from position a on are full.
FullFrom(d, N, a) == \A k \in a .. Len(N) : Len(d[N[k]]) = MaxItemsPerPage

\* N lists the files of d, sorted, and they may follow each other.
ListsPages(N, d) == N \in Seq(Name) /\ Sorted(N) /\ NamesIn(N) = DOMAIN d /\ PagesFit(d, N)

\* A page that is filed last.
LEMMA PageFiledLast ==
  ASSUME NEW d, \A m \in DOMAIN d : d[m] \in Seq(Items), NEW N \in Seq(Name), Sorted(N), NamesIn(N) = DOMAIN d,
         FullFrom(d, N, 2), NEW n \in Name, \A m \in DOMAIN d : Before(m, n),
         NEW p \in Seq(Items), Len(p) <= MaxItemsPerPage
  PROVE  ListsPages(Append(N, n), WriteFile(d, n, p))
<1> DEFINE M == Append(N, n)
           e == WriteFile(d, n, p)
<1>1. /\ M \in Seq(Name) /\ Len(M) = Len(N) + 1 /\ \A k \in 1 .. Len(N) : M[k] = N[k]
      /\ M[Len(N) + 1] = n /\ Sorted(M) /\ NamesIn(M) = DOMAIN d \cup {n} /\ n \notin DOMAIN d
  BY SortedAppend
<1>2. Len(N) \in Nat /\ DOMAIN N = 1 .. Len(N) BY LenProperties
<1>3. DOMAIN e = DOMAIN d \cup {n} /\ e[n] = p /\ \A m \in DOMAIN d : e[m] = d[m] BY <1>1 DEF WriteFile
<1> HIDE DEF M, e
<1>4. ASSUME NEW k \in 1 .. Len(N) PROVE M[k] \in DOMAIN e /\ e[M[k]] = d[N[k]] /\ e[M[k]] \in Seq(Items)
  <2>1. N[k] \in DOMAIN d BY <1>2 DEF NamesIn
  <2> QED BY <1>1, <1>3, <2>1
<1>5. ASSUME NEW k \in 1 .. Len(M) PROVE M[k] \in DOMAIN e /\ e[M[k]] \in Seq(Items)
  <2>1. CASE k = Len(N) + 1 BY <1>1, <1>3, <2>1
  <2>2. CASE k # Len(N) + 1
    <3>1. k \in 1 .. Len(N) BY <1>1, <1>2, <2>2
    <3> QED BY <1>4, <3>1
  <2> QED BY <2>1, <2>2
<1>6. ASSUME NEW k \in 2 .. Len(M) - 1 PROVE Len(e[M[k]]) = MaxItemsPerPage
  <2>1. k \in 1 .. Len(N) /\ k \in 2 .. Len(N) BY <1>1, <1>2
  <2> QED BY <1>4, <2>1 DEF FullFrom
<1>7. Len(e[M[Len(M)]]) <= MaxItemsPerPage BY <1>1, <1>3
<1> QED BY <1>1, <1>3, <1>5, <1>6, <1>7 DEF ListsPages, PagesFit, M, e

\* A page that is filed first.
LEMMA PageFiledFirst ==
  ASSUME NEW d, \A m \in DOMAIN d : d[m] \in Seq(Items), NEW N \in Seq(Name), Sorted(N), NamesIn(N) = DOMAIN d,
         FullFrom(d, N, 1), NEW n \in Name, \A m \in DOMAIN d : Before(n, m), NEW p \in Seq(Items)
  PROVE  ListsPages(<<n>> \o N, WriteFile(d, n, p))
<1> DEFINE M == <<n>> \o N
           e == WriteFile(d, n, p)
<1>1. /\ M \in Seq(Name) /\ Len(M) = Len(N) + 1 /\ M[1] = n /\ \A k \in 1 .. Len(N) : M[k + 1] = N[k]
      /\ Sorted(M) /\ NamesIn(M) = DOMAIN d \cup {n} /\ n \notin DOMAIN d
  BY SortedPrepend
<1>2. Len(N) \in Nat /\ DOMAIN N = 1 .. Len(N) BY LenProperties
<1>3. DOMAIN e = DOMAIN d \cup {n} /\ e[n] = p /\ \A m \in DOMAIN d : e[m] = d[m] BY <1>1 DEF WriteFile
<1> HIDE DEF M, e
<1>4. ASSUME NEW k \in 2 .. Len(M)
      PROVE  M[k] \in DOMAIN e /\ e[M[k]] \in Seq(Items) /\ Len(e[M[k]]) = MaxItemsPerPage
  <2>1. k - 1 \in 1 .. Len(N) /\ (k - 1) + 1 = k BY <1>1, <1>2
  <2>2. M[k] = N[k - 1] BY <1>1, <2>1
  <2>3. N[k - 1] \in DOMAIN d BY <1>2, <2>1 DEF NamesIn
  <2>4. Len(d[N[k - 1]]) = MaxItemsPerPage BY <2>1 DEF FullFrom
  <2> QED BY <1>3, <2>2, <2>3, <2>4
<1>5. ASSUME NEW k \in 1 .. Len(M) PROVE M[k] \in DOMAIN e /\ e[M[k]] \in Seq(Items)
  <2>1. CASE k = 1 BY <1>1, <1>3, <2>1
  <2>2. CASE k # 1
    <3>1. k \in 2 .. Len(M) BY <1>1, <1>2, <2>2
    <3> QED BY <1>4, <3>1
  <2> QED BY <2>1, <2>2
<1>6. \A k \in 2 .. Len(M) - 1 : k \in 2 .. Len(M) BY <1>1, <1>2
<1>7. Len(M) > 1 => Len(M) \in 2 .. Len(M) BY <1>1, <1>2
<1>8. Len(M) > 1 => Len(e[M[Len(M)]]) <= MaxItemsPerPage BY <1>4, <1>7, PageSizeAssumption
<1> QED BY <1>1, <1>3, <1>4, <1>5, <1>6, <1>8 DEF ListsPages, PagesFit, M, e

\* The files of a queue at work: which of them are full, and that they may
\* follow each other.
LEMMA FilesOfQueue ==
  ASSUME Paging, pc # "down"
  PROVE  /\ ListsPages(persistedFileNames, disk) /\ DiskOK(disk)
         /\ pc \in {"idle", "clear", "writeFirst"} => FullFrom(disk, persistedFileNames, 1)
         /\ pc = "writeLast" => FullFrom(disk, persistedFileNames, 2)
         /\ stateFile = <<>> /\ ~stateFileExists
<1> DEFINE N == persistedFileNames
<1>1. /\ N \in Seq(Name) /\ Sorted(N) /\ NamesIn(N) = DOMAIN disk /\ stateFile = <<>> /\ ~stateFileExists
      /\ DiskOK(disk)
  BY DEF Paging, TypeOK, NamesSorted, FilesListed, DiskOK
<1>2. Len(N) \in Nat /\ DOMAIN N = 1 .. Len(N) BY <1>1, LenProperties
<1>3. \A k \in 1 .. Len(N) : N[k] \in DOMAIN disk /\ disk[N[k]] \in Seq(Items) BY <1>1, <1>2 DEF NamesIn, DiskOK
<1>4. QueueOnPages BY DEF Paging
<1>5. ASSUME FullFrom(disk, N, 2) PROVE PagesFit(disk, N)
  <2>1. \A k \in 2 .. Len(N) - 1 : k \in 2 .. Len(N) BY <1>2
  <2>2. Len(N) > 1 => Len(N) \in 2 .. Len(N) BY <1>2
  <2> QED BY <1>3, <1>5, <2>1, <2>2, PageSizeAssumption DEF PagesFit, FullFrom
<1>6. ASSUME FullFrom(disk, N, 1) PROVE FullFrom(disk, N, 2)
  <2>1. \A k \in 2 .. Len(N) : k \in 1 .. Len(N) BY <1>2
  <2> QED BY <1>6, <2>1 DEF FullFrom
<1>7. CASE pc \in {"idle", "clear", "writeFirst"}
  <2>1. FullFrom(disk, N, 1) BY <1>4, <1>7 DEF QueueOnPages, QueueIs, IsPaged, FullFrom
  <2> QED BY <1>1, <1>5, <1>6, <1>7, <2>1 DEF ListsPages
<1>8. CASE pc = "writeLast"
  <2>1. FullFrom(disk, N, 2)
    <3>1. CASE FirstWritten BY <1>4, <1>8, <3>1 DEF QueueOnPages, QueueIs, IsPaged, FullFrom
    <3>2. CASE ~FirstWritten
      <4>1. FullFrom(disk, N, 1) BY <1>4, <1>8, <3>2 DEF QueueOnPages, QueueIs, IsPaged, FullFrom
      <4> QED BY <1>6, <4>1
    <3> QED BY <3>1, <3>2
  <2> QED BY <1>1, <1>5, <1>8, <2>1 DEF ListsPages
<1>9. CASE pc \in {"writeState", "loadFirst"}
  <2>1. QueueInFiles(N) BY <1>4, <1>9 DEF QueueOnPages
  <2>2. CASE Len(N) <= 1
    <3>1. 2 .. Len(N) - 1 = {} BY <1>2, <2>2
    <3>2. PagesFit(disk, N) BY <1>2, <1>3, <2>2, <3>1 DEF PagesFit
    <3> QED BY <1>1, <1>9, <3>2 DEF ListsPages
  <2>3. CASE Len(N) > 1
    <3>0. Len(N) # 0 /\ Len(N) # 1 BY <1>2, <2>3
    <3>1. N # <<>> /\ Len(N) # 1 BY <3>0
    <3>2. IsPaged(q, disk, disk[N[1]], N, 2, Len(N) - 1, disk[N[Len(N)]]) BY <2>1, <3>1 DEF QueueInFiles, QueueIs
    <3>3. PagesFit(disk, N) BY <1>3, <3>2 DEF PagesFit, IsPaged
    <3> QED BY <1>1, <1>9, <3>3 DEF ListsPages
  <2> QED BY <1>2, <2>2, <2>3
<1>10. CASE pc = "loadLast"
  <2>1. IsPaged(q, disk, page[firstPage], N, 1, Len(N) - 1, disk[N[Len(N)]])
    BY <1>4, <1>10 DEF QueueOnPages, QueueIs, LastName
  <2>2. \A k \in 2 .. Len(N) - 1 : k \in 1 .. Len(N) - 1 BY <1>2
  <2>3. PagesFit(disk, N) BY <1>3, <2>1, <2>2 DEF PagesFit, IsPaged
  <2> QED BY <1>1, <1>10, <2>3 DEF ListsPages
<1> QED BY <1>7, <1>8, <1>9, <1>10 DEF Paging, TypeOK

---------------------------------------------------------------------------
(* The invariant of a queue that lost no file *)

\* There is no object, and what the next constructor would load is the queue.
OnDisk ==
  /\ TypeOK /\ NamesPast /\ pc = "down" /\ ~shutDown /\ ~destroying
  /\ RecoveryNames \in Seq(Name) /\ Sorted(RecoveryNames) /\ NamesIn(RecoveryNames) = DOMAIN disk
  /\ QueueInFiles(RecoveryNames)

FaultsInv == ~lossy => PagingInv \/ OnDisk

\* Without a STATE file the constructor finds the names in order.
LEMMA SortedChoice ==
  ASSUME NEW D, NEW N \in Seq(Name), Sorted(N), NamesIn(N) = D
  PROVE  (CHOOSE s \in [1 .. Cardinality(D) -> D] : Sorted(s)) = N
<1>1. N \in [1 .. Cardinality(D) -> D] /\ \A s \in [1 .. Cardinality(D) -> D] : Sorted(s) => s = N BY ListingUnique
<1>2. \E s \in [1 .. Cardinality(D) -> D] : Sorted(s) BY <1>1
<1> DEFINE c == CHOOSE s \in [1 .. Cardinality(D) -> D] : Sorted(s)
<1>3. c \in [1 .. Cardinality(D) -> D] /\ Sorted(c) BY <1>2
<1> HIDE DEF c
<1>4. c = N BY <1>1, <1>3
<1> QED BY <1>4 DEF c

\* What a destructor leaves that was not disturbed.
LEMMA DestroyedOnDisk == ASSUME PagingInv, pc = "down" PROVE OnDisk
<1>1. /\ TypeOK /\ NamesPast /\ stateFile \in Seq(Name) /\ Sorted(stateFile) /\ NamesIn(stateFile) = DOMAIN disk
      /\ (stateFileExists <=> stateFile # <<>>) /\ QueueInFiles(stateFile) /\ ~shutDown /\ ~destroying
  BY DEF PagingInv, Paging, TypeOK, Lifecycle, FilesListed, NamesSorted, DataPersisted
<1>2. RecoveryNames = stateFile
  <2>1. CASE stateFileExists BY <2>1 DEF RecoveryNames
  <2>2. CASE ~stateFileExists BY <1>1, <2>2, SortedChoice DEF RecoveryNames
  <2> QED BY <2>1, <2>2
<1> QED BY <1>1, <1>2 DEF OnDisk

\* The process dies, and the files that are there then may follow each other.
LEMMA DiesOnDisk ==
  ASSUME Paging, pc # "down", Dies, UNCHANGED <<stateFile, stateFileExists>>, DiskOK(disk'),
         \A n \in DOMAIN disk' : n = FileZero \/ n[1] \in 1 .. now, NEW N, ListsPages(N, disk')
  PROVE  OnDisk' /\ q' \in Seq(Items) /\ InFiles(q', disk', N)
<1>1. /\ NoObject("ok") /\ destroying' = FALSE /\ pc' = "down" /\ shutDown' = FALSE /\ now' = now /\ q' = Recoverable'
  BY DEF Dies, NoObject
<1>2. N \in Seq(Name) /\ Sorted(N) /\ NamesIn(N) = DOMAIN disk' /\ PagesFit(disk', N) BY DEF ListsPages
<1>3. ~stateFileExists' /\ stateFile' = <<>> BY FilesOfQueue
<1>4. RecoveryNames' = N BY <1>2, <1>3, SortedChoice DEF RecoveryNames
<1>5. q' = EndToEnd(disk', N) BY <1>1, <1>4 DEF Recoverable, EndToEnd
<1>6. q' \in Seq(Items) /\ InFiles(q', disk', N) BY <1>2, <1>5, EndToEndInFiles
<1>7. TypeOK'
  <2>1. MemoryOK' /\ PcOK' /\ ret' \in Items \cup Results BY <1>1, NoObjectType DEF Results
  <2>2. now \in Nat /\ now > 0 BY DEF Paging, TypeOK, NamesPast
  <2>3. stateFile' \in Seq(Name) /\ stateFileExists' \in BOOLEAN BY DEF Paging, TypeOK
  <2> QED BY <1>1, <1>3, <1>6, <2>1, <2>2, <2>3 DEF TypeOK, MemoryOK, DiskOK, PcOK
<1>8. NamesPast' BY <1>1 DEF Paging, NamesPast
<1>9. QueueInFiles(N)' BY <1>6 DEF QueueInFiles, QueueIs, InFiles
<1> QED BY <1>1, <1>2, <1>4, <1>6, <1>7, <1>8, <1>9 DEF OnDisk

LEMMA CrashOnDisk ==
  ASSUME Paging, Crash
  PROVE  OnDisk' /\ q' \in Seq(Items) /\ disk' = disk /\ InFiles(q', disk, persistedFileNames)
<1>1. pc # "down" /\ Dies /\ UNCHANGED <<disk, stateFile, stateFileExists>> BY DEF Crash, Dies, files
<1>2. ListsPages(persistedFileNames, disk) /\ DiskOK(disk) BY <1>1, FilesOfQueue
<1>3. \A n \in DOMAIN disk : n = FileZero \/ n[1] \in 1 .. now BY DEF Paging, NamesPast
<1> DEFINE N == persistedFileNames
           d == disk
<1>4. disk' = d /\ ListsPages(N, d) /\ DiskOK(d) /\ \A n \in DOMAIN d : n = FileZero \/ n[1] \in 1 .. now
  BY <1>1, <1>2, <1>3
<1> HIDE DEF N, d
<1>5. ListsPages(N, disk') /\ DiskOK(disk') /\ \A n \in DOMAIN disk' : n = FileZero \/ n[1] \in 1 .. now BY <1>4
<1>6. OnDisk' /\ q' \in Seq(Items) /\ InFiles(q', disk', N) BY <1>1, <1>5, DiesOnDisk
<1> QED BY <1>4, <1>6 DEF N, d

\* A page, or the beginning of it, that is on disk when the process dies.
LEMMA FiledOnDisk ==
  ASSUME Paging, pc # "down", Dies, UNCHANGED <<stateFile, stateFileExists>>,
         NEW n \in Name, n = FileZero \/ n[1] = now, NEW p \in Seq(Items), disk' = WriteFile(disk, n, p),
         NEW N, ListsPages(N, WriteFile(disk, n, p))
  PROVE  OnDisk' /\ q' \in Seq(Items) /\ InFiles(q', WriteFile(disk, n, p), N)
<1>1. DiskOK(disk') BY FilesOfQueue, WriteFileType
<1>2. DOMAIN disk' = DOMAIN disk \cup {n} BY DEF WriteFile
<1>3. now \in Nat /\ now > 0 /\ \A m \in DOMAIN disk : m = FileZero \/ m[1] \in 1 .. now
  BY DEF Paging, TypeOK, NamesPast
<1>4. \A m \in DOMAIN disk' : m = FileZero \/ m[1] \in 1 .. now BY <1>2, <1>3
<1>5. ListsPages(N, disk') OBVIOUS
<1> QED BY <1>1, <1>4, <1>5, DiesOnDisk

\* push_back() is filing a full last page when the process dies.
LEMMA PushCrashOnDisk ==
  ASSUME Paging, pc = "idle", lastPage # firstPage, Dies, UNCHANGED <<stateFile, stateFileExists>>,
         NEW p \in Torn(page[lastPage]), disk' = WriteFile(disk, SeqName, p)
  PROVE  /\ OnDisk' /\ q' \in Seq(Items)
         /\ InFiles(q', WriteFile(disk, SeqName, p), Append(persistedFileNames, SeqName))
<1>1. /\ page[lastPage] \in Seq(Items) /\ LastItems = page[lastPage]
      /\ IsPaged(q, disk, page[firstPage], persistedFileNames, 1, Len(persistedFileNames), LastItems)
  BY LiveFacts DEF LastItems
<1>2. Len(page[lastPage]) <= MaxItemsPerPage BY <1>1 DEF IsPaged
<1>3. p \in Seq(Items) /\ Len(p) <= MaxItemsPerPage BY <1>1, <1>2, TornPrefix, PageDomain, PageSizeAssumption
<1>4. ListsPages(persistedFileNames, disk) /\ DiskOK(disk) /\ FullFrom(disk, persistedFileNames, 1) BY FilesOfQueue
<1>5. FullFrom(disk, persistedFileNames, 2) BY <1>4 DEF FullFrom
<1>6. SeqName \in Name /\ SeqName[1] = now /\ \A m \in DOMAIN disk : Before(m, SeqName) BY SeqNameLast
<1>7. ListsPages(Append(persistedFileNames, SeqName), WriteFile(disk, SeqName, p))
  BY <1>3, <1>4, <1>5, <1>6, PageFiledLast DEF ListsPages, DiskOK
<1> QED BY <1>3, <1>6, <1>7, FiledOnDisk

LEMMA CrashWritingPageOnDisk == ASSUME Paging, CrashWritingPage PROVE OnDisk'
<1>1. Dies /\ UNCHANGED <<stateFile, stateFileExists>> BY DEF CrashWritingPage
<1>2. ASSUME pc = "idle", lastPage # firstPage, NEW p \in Torn(page[lastPage]), disk' = WriteFile(disk, SeqName, p)
      PROVE  OnDisk'
  BY <1>1, <1>2, PushCrashOnDisk
<1>3. ASSUME pc = "writeFirst", NEW p \in Torn(page[firstPage]), disk' = WriteFile(disk, FileZero, p) PROVE OnDisk'
  <2>1. p \in Seq(Items) BY <1>3, LiveFacts, TornPrefix
  <2>2. ListsPages(persistedFileNames, disk) /\ DiskOK(disk) /\ FullFrom(disk, persistedFileNames, 1)
    BY <1>3, FilesOfQueue
  <2>3. FileZero \in Name /\ \A m \in DOMAIN disk : Before(FileZero, m)
    <3>1. \A m \in DOMAIN disk : m \in Name /\ m[1] \in 1 .. now BY <1>3 DEF Paging, TypeOK, NamesPast
    <3> QED BY <3>1 DEF FileZero, Name, Before
  <2>4. ListsPages(<<FileZero>> \o persistedFileNames, WriteFile(disk, FileZero, p))
    BY <2>1, <2>2, <2>3, PageFiledFirst DEF ListsPages, DiskOK
  <2> QED BY <1>1, <1>3, <2>1, <2>3, <2>4, FiledOnDisk
<1>4. ASSUME pc = "writeLast", lastPage # firstPage, NEW p \in Torn(page[lastPage]),
             disk' = WriteFile(disk, SeqName, p)
      PROVE  OnDisk'
  <2>1. page[lastPage] \in Seq(Items) /\ LastItems = page[lastPage] BY <1>4 DEF Paging, TypeOK, LastItems
  <2>2. Len(page[lastPage]) <= MaxItemsPerPage BY <1>4, <2>1 DEF Paging, QueueOnPages, QueueIs, IsPaged
  <2>3. p \in Seq(Items) /\ Len(p) <= MaxItemsPerPage BY <2>1, <2>2, TornPrefix, PageDomain, PageSizeAssumption
  <2>4. ListsPages(persistedFileNames, disk) /\ DiskOK(disk) /\ FullFrom(disk, persistedFileNames, 2)
    BY <1>4, FilesOfQueue
  <2>5. SeqName \in Name /\ SeqName[1] = now /\ \A m \in DOMAIN disk : Before(m, SeqName) BY <1>4, SeqNameLast
  <2>6. ListsPages(Append(persistedFileNames, SeqName), WriteFile(disk, SeqName, p))
    BY <2>3, <2>4, <2>5, PageFiledLast DEF ListsPages, DiskOK
  <2> QED BY <1>1, <1>4, <2>3, <2>5, <2>6, FiledOnDisk
<1> QED BY <1>2, <1>3, <1>4 DEF CrashWritingPage

\* A push_back() that cannot write its page has only spent a name.
LEMMA RefusedWritePaging == ASSUME PagingInv, PushBackWriteFails PROVE PagingInv'
<1>1. /\ Paging /\ pc = "idle" /\ (destroying <=> shutDown) /\ ret' = "CouldNotWriteQueueFile" /\ SeqNumber
      /\ UNCHANGED <<page, firstPage, lastPage, persistedFileNames, shutDown, disk, stateFile, stateFileExists,
                     now, pc, destroying, q>>
  BY DEF PushBackWriteFails, files, PagingInv
<1>2. TypeOK BY <1>1 DEF Paging
<1>3. TypeOK'
  <2>1. lastSeqNum' \in Nat /\ seqNumCount' \in Nat /\ ret' \in Items \cup Results
    BY <1>1, <1>2, SeqNameType DEF SeqNumber, TypeOK, Results
  <2> QED BY <1>1, <1>2, <2>1 DEF TypeOK
<1>4. NamesPast'
  <2>1. \A n \in DOMAIN disk : n \in Name BY <1>2 DEF TypeOK
  <2>2. lastSeqNum' = now /\ seqNumCount' = (IF lastSeqNum = now THEN seqNumCount + 1 ELSE 0)
    BY <1>1 DEF SeqNumber, SeqCount
  <2>3. NamesPast /\ seqNumCount \in Nat BY <1>1, <1>2 DEF Paging, TypeOK
  <2> QED BY <1>1, <2>1, <2>2, <2>3 DEF NamesPast, Name
<1>5. Sorted(persistedFileNames) /\ DOMAIN disk = NamesIn(persistedFileNames)
      /\ (firstPage = lastPage => persistedFileNames = <<>>)
      /\ IsPaged(q, disk, page[firstPage], persistedFileNames, 1, Len(persistedFileNames), LastItems)
  BY <1>1, LiveFacts
<1>6. IsPaged(q, disk, page[firstPage], persistedFileNames, 1, Len(persistedFileNames), LastItems)'
  BY <1>1, <1>5 DEF LastItems
<1>7. Paging' BY <1>1, <1>3, <1>4, <1>5, <1>6, LivePaging
<1> QED BY <1>1, <1>7 DEF PagingInv

\* The constructor takes over whatever list of names it finds.
LEMMA ConstructOnDisk == ASSUME SlowRestart, OnDisk, Construct PROVE PagingInv'
<1>1. TypeOK' BY NextType DEF OnDisk, Next
<1>2. /\ TypeOK /\ NamesPast /\ ~destroying /\ RecoveryNames \in Seq(Name) /\ Sorted(RecoveryNames)
      /\ NamesIn(RecoveryNames) = DOMAIN disk /\ QueueInFiles(RecoveryNames)
  BY DEF OnDisk
<1>3. persistedFileNames' = RecoveryNames
  <2>1. CASE stateFileExists /\ persistedFileNames' = stateFile BY <2>1 DEF RecoveryNames
  <2>2. CASE LoadOrphanedQueueFiles BY <1>2, <2>2, ListingUnique DEF LoadOrphanedQueueFiles
  <2> QED BY <2>1, <2>2 DEF Construct
<1>4. Paging' BY <1>1, <1>2, <1>3, TakeOverPaging
<1> QED BY <1>2, <1>4 DEF PagingInv, Construct

LEMMA TickOnDisk == ASSUME OnDisk, Tick PROVE OnDisk'
<1>1. TypeOK' BY NextType DEF OnDisk, Next
<1>2. /\ now' = now + 1
      /\ UNCHANGED <<disk, stateFile, stateFileExists, pc, shutDown, destroying, lastSeqNum, seqNumCount, q>>
  BY DEF Tick, memory, files
<1>3. NamesPast'
  <2>1. NamesPast /\ now \in Nat /\ pc = "down" BY DEF OnDisk, TypeOK
  <2> QED BY <1>2, <2>1 DEF NamesPast
<1>4. RecoveryNames' = RecoveryNames BY <1>2 DEF RecoveryNames
<1>5. QueueInFiles(RecoveryNames)' BY <1>2, <1>4 DEF OnDisk, QueueInFiles, QueueIs
<1> QED BY <1>1, <1>2, <1>3, <1>4, <1>5 DEF OnDisk

LEMMA NextFaults ==
  ASSUME SlowRestart, TwiceInv, FaultsInv, [FaultNext]_faultVars
  PROVE  FaultsInv'
<1> SUFFICES ASSUME ~lossy' PROVE PagingInv' \/ OnDisk' BY DEF FaultsInv
<1>1. ~CrashWritingState /\ ~LoadFails BY DEF CrashWritingState, LoadFails
<1>2. ~lossy
  <2>1. CASE UNCHANGED faultVars BY <2>1 DEF faultVars, faultHistory
  <2> QED BY <1>1, <2>1 DEF FaultNext, Push, Pop, Discard, Crash, CrashWritingPage, PushBackWriteFails, faultHistory
<1>3. CASE PagingInv
  <2>1. Push => OrderlyNext
    <3> SUFFICES ASSUME Push PROVE OrderlyNext OBVIOUS
    <3>1. Order[Cardinality(used) + 1] \in Items BY NextItem DEF TwiceInv, Push
    <3> QED BY <3>1 DEF Push, OrderlyNext
  <2>2. UNCHANGED faultVars => UNCHANGED vars BY DEF faultVars
  <2>3. CASE OrderlyNext \/ UNCHANGED vars BY <1>3, <2>3, OrderlyPaging
  <2>4. CASE Crash BY <1>3, <2>4, CrashOnDisk DEF PagingInv
  <2>5. CASE CrashWritingPage BY <1>3, <2>5, CrashWritingPageOnDisk DEF PagingInv
  <2>6. CASE PushBackWriteFails BY <1>3, <2>6, RefusedWritePaging
  <2> QED BY <1>1, <2>1, <2>2, <2>3, <2>4, <2>5, <2>6 DEF FaultNext, Pop, Discard, OrderlyNext, CallStep
<1>4. CASE OnDisk
  <2>1. pc = "down" BY <1>4 DEF OnDisk
  <2>2. CASE Tick BY <1>4, <2>2, TickOnDisk
  <2>3. CASE Construct BY <1>4, <2>3, ConstructOnDisk
  <2>4. CASE UNCHANGED faultVars
    <3>1. UNCHANGED vars /\ RecoveryNames' = RecoveryNames
      BY <2>4 DEF faultVars, vars, files, RecoveryNames
    <3> QED BY <1>4, <3>1 DEF vars, memory, files, OnDisk, TypeOK, NamesPast, QueueInFiles, QueueIs
  <2>5. ~Crash /\ ~CrashWritingPage /\ ~PushBackWriteFails
    BY <2>1 DEF Crash, CrashWritingPage, PushBackWriteFails, Dies
  <2>6. ~Push /\ ~Pop /\ ~Discard BY <2>1 DEF Push, PushBack, PushFront, Pop, PopFront, Discard, ClearStep
  <2>7. /\ ~Front /\ ~ClearCall /\ ~Shutdown(TRUE) /\ ~LoadFirst /\ ~LoadLast /\ ~WriteFirst /\ ~WriteLast
        /\ ~WriteState
    BY <2>1 DEF Front, ClearCall, Shutdown, LoadFirst, LoadLast, WriteFirst, WriteLast, WriteState
  <2> QED BY <1>1, <2>2, <2>3, <2>4, <2>5, <2>6, <2>7 DEF FaultNext
<1> QED BY <1>2, <1>3, <1>4 DEF FaultsInv

LEMMA InitFaults == FaultInit => FaultsInv
  BY InitPaging DEF FaultInit, FaultsInv

\* As long as no file was lost to a torn STATE file or an unreadable page, the
\* pages of a live queue put end to end are q, size() and empty() are exact, and
\* a constructor loads exactly q: after crashes at any step, also inside
\* persistToFile(), and writes that were refused.  After a crash q is what the
\* files hold: of the items that were only in memory, which are lost, this says
\* nothing; CrashKeepsFiledPagesCorrect bounds that loss.
THEOREM QueueOnPagesAfterFaultsCorrect ==
  ASSUME SlowRestart
  PROVE  FaultSpec => []QueueOnPagesAfterFaults
<1>1. FaultInit => TwiceInv /\ FaultsInv BY InitTwice, InitFaults
<1>2. TwiceInv /\ FaultsInv /\ [FaultNext]_faultVars => TwiceInv' /\ FaultsInv' BY NextTwice, NextFaults
<1>3. FaultsInv => QueueOnPagesAfterFaults
  <2> SUFFICES ASSUME PagingInv \/ OnDisk
               PROVE  QueueOnPages /\ SizeIsLength /\ (pc = "down" => QueueInFiles(RecoveryNames))
    BY DEF FaultsInv, QueueOnPagesAfterFaults
  <2>1. CASE PagingInv BY <2>1, SizeOfPages, DestroyedOnDisk DEF PagingInv, Paging, OnDisk
  <2>2. CASE OnDisk BY <2>2 DEF OnDisk, QueueOnPages, SizeIsLength
  <2> QED BY <2>1, <2>2
<1> QED BY <1>1, <1>2, <1>3, PTL DEF FaultSpec

---------------------------------------------------------------------------
(* What a crash costs *)

\* When shutdown() has written its pages, a crash leaves the queue.
LEMMA CrashAfterPages == ASSUME Paging, pc = "writeState", Crash PROVE q' = q
<1>1. q' \in Seq(Items) /\ InFiles(q', disk, persistedFileNames) BY CrashOnDisk
<1>2. q \in Seq(Items) /\ InFiles(q, disk, persistedFileNames)
  BY QueueIsInFiles DEF Paging, TypeOK, QueueOnPages
<1>3. ListsPages(persistedFileNames, disk) BY FilesOfQueue
<1> QED BY <1>1, <1>2, <1>3, InFilesUnique DEF ListsPages, PagesFit

\* Once shutdown() has written its pages a crash loses nothing: the constructor
\* that finds no STATE file sorts the names, and there is one way to do it.
THEOREM StateFileExpendableCorrect ==
  ASSUME SlowRestart
  PROVE  FaultSpec => StateFileExpendable
<1>1. FaultInit => TwiceInv /\ FaultsInv BY InitTwice, InitFaults
<1>2. TwiceInv /\ FaultsInv /\ [FaultNext]_faultVars => TwiceInv' /\ FaultsInv' BY NextTwice, NextFaults
<1>3. FaultsInv /\ [FaultNext]_faultVars => [pc = "writeState" /\ ~lossy' => q' = q]_faultVars
  <2> SUFFICES ASSUME FaultsInv, FaultNext, pc = "writeState", ~lossy' PROVE q' = q OBVIOUS
  <2>1. ~CrashWritingState /\ ~LoadFails BY DEF CrashWritingState, LoadFails
  <2>2. ~CrashWritingPage /\ ~PushBackWriteFails BY DEF CrashWritingPage, PushBackWriteFails
  <2>3. ~Push /\ ~Pop /\ ~Discard BY DEF Push, PushBack, PushFront, Pop, PopFront, Discard, ClearStep
  <2>4. /\ ~Front /\ ~ClearCall /\ ~Construct /\ ~Shutdown(TRUE)
        /\ ~LoadFirst /\ ~LoadLast /\ ~WriteFirst /\ ~WriteLast
    BY DEF Front, ClearCall, Construct, Shutdown, LoadFirst, LoadLast, WriteFirst, WriteLast
  <2>5. CASE Tick \/ WriteState BY <2>5 DEF Tick, WriteState
  <2>6. CASE Crash
    <3>1. ~lossy BY <2>6 DEF Crash
    <3>2. Paging BY <3>1 DEF FaultsInv, PagingInv, OnDisk
    <3> QED BY <2>6, <3>2, CrashAfterPages
  <2> QED BY <2>1, <2>2, <2>3, <2>4, <2>5, <2>6 DEF FaultNext
<1> QED BY <1>1, <1>2, <1>3, PTL DEF FaultSpec, StateFileExpendable

\* Whole pages and the page that ends them are all that their files hold.
LEMMA EndInFiles ==
  ASSUME NEW t \in Seq(Items), NEW d, NEW N \in Seq(Name), Len(N) > 0, PagesFit(d, N),
         IsPaged(t, d, <<>>, N, 1, Len(N) - 1, d[N[Len(N)]])
  PROVE  InFiles(t, d, N)
<1> DEFINE last == d[N[Len(N)]]
<1>1. Len(N) \in Nat /\ DOMAIN N = 1 .. Len(N) /\ N # <<>> /\ Len(N) \in 1 .. Len(N) /\ Len(N) - 1 \in Int
  BY LenProperties, EmptySeq
<1>2. (\A k \in DOMAIN N : N[k] \in DOMAIN d) /\ last \in Seq(Items) BY <1>1 DEF PagesFit
<1>3. CASE Len(N) = 1
  <2>1. Len(N) - 1 = 1 - 1 /\ 1 \in Int BY <1>3
  <2> HIDE DEF last
  <2>2. t = last BY <1>1, <1>2, <2>1, PagedLastAlone DEF last
  <2> QED BY <1>2, <1>3, <2>2 DEF InFiles, last
<1>4. CASE Len(N) > 1
  <2>1. 1 <= Len(N) - 1 /\ 1 \in Int /\ 1 + 1 = 2 BY <1>1, <1>4
  <2>2. IsPaged(t, d, d[N[1]], N, 1 + 1, Len(N) - 1, last) BY <1>1, <1>2, <2>1, PagedFileToFirst
  <2> QED BY <1>2, <1>4, <2>1, <2>2 DEF InFiles
<1> QED BY <1>1, <1>3, <1>4

\* The stretch of the queue from its first file on, with a beginning of the
\* last page.
Stretch(p) ==
  SubSeq(q, Len(page[firstPage]) + 1,
         Len(page[firstPage]) + Len(persistedFileNames) * MaxItemsPerPage + Len(p))

LEMMA StretchPaged ==
  ASSUME Paging, pc = "idle", NEW p \in Seq(Items), Len(p) <= Len(LastItems),
         \A i \in 1 .. Len(p) : p[i] = LastItems[i]
  PROVE  /\ Stretch(p) \in Seq(Items)
         /\ Len(Stretch(p)) = Len(persistedFileNames) * MaxItemsPerPage + Len(p)
         /\ IsPaged(Stretch(p), disk, <<>>, persistedFileNames, 1, Len(persistedFileNames), p)
<1> DEFINE N == persistedFileNames
           n == Len(N)
           first == page[firstPage]
           last == LastItems
<1>1. /\ n \in Nat /\ q \in Seq(Items) /\ first \in Seq(Items) /\ last \in Seq(Items)
      /\ IsPaged(q, disk, first, N, 1, n, last)
  BY LiveFacts
<1>2. n - 1 + 1 = n /\ n - 1 + 1 >= 0 /\ n \in Int /\ 1 \in Int BY <1>1
<1>3. Len(p) <= Len(last) /\ \A i \in 1 .. Len(p) : p[i] = last[i] OBVIOUS
<1> DEFINE c == n * MaxItemsPerPage
           f == Len(first)
           m == f + c + Len(p)
           t == SubSeq(q, f + 1, m)
<1>4. t = Stretch(p) BY DEF Stretch
<1> HIDE DEF N, n, first, last
<1>5. /\ c \in Nat /\ f \in Nat /\ Len(p) \in Nat /\ Len(last) \in Nat /\ Len(q) = f + c + Len(last)
      /\ (n - 1 + 1) * MaxItemsPerPage = c
  BY <1>1, <1>2, FullPages, LenProperties DEF IsPaged
<1>6. t \in Seq(Items) /\ Len(t) = c + Len(p) /\ \A j \in 1 .. c + Len(p) : t[j] = q[f + j]
  <2> HIDE DEF c, f
  <2>1. f + 1 \in 1 .. Len(q) + 1 /\ m \in (f + 1) - 1 .. Len(q) /\ m - (f + 1) + 1 = c + Len(p) BY <1>3, <1>5
  <2>2. \A j \in f + 1 .. m : q[j] \in Items
    <3>1. \A j \in f + 1 .. m : j \in 1 .. Len(q) BY <1>3, <1>5
    <3> QED BY <1>1, <3>1
  <2>3. \A j \in 1 .. c + Len(p) : (f + 1) + j - 1 = f + j BY <1>5
  <2>4. /\ t \in Seq(Items) /\ Len(t) = m - (f + 1) + 1
        /\ \A j \in 1 .. m - (f + 1) + 1 : t[j] = q[(f + 1) + j - 1]
    BY <1>1, <2>1, <2>2, SubSeqProperties
  <2> HIDE DEF t, m
  <2> QED BY <2>1, <2>3, <2>4
<1> HIDE DEF t
<1>7. Len(t) = (n - 1 + 1) * MaxItemsPerPage + Len(p) /\ \A j \in 1 .. Len(t) : t[j] = q[Len(first) + j]
  BY <1>5, <1>6
<1>8. IsPaged(t, disk, <<>>, N, 1, n, p) BY <1>1, <1>2, <1>3, <1>7, PagedStretch
<1> QED BY <1>4, <1>6, <1>8 DEF N, n

\* A crash that leaves the stretch leaves what the theorem says.
LEMMA StretchKept ==
  ASSUME Paging, pc = "idle", NEW p \in Seq(Items), Len(p) <= Len(LastItems),
         \A i \in 1 .. Len(p) : p[i] = LastItems[i], NEW t, t = Stretch(p)
  PROVE  /\ \E k \in 0 .. Len(q) : t = SubSeq(q, k + 1, k + Len(t))
         /\ Len(t) >= Len(persistedFileNames) * MaxItemsPerPage
<1> DEFINE f == Len(page[firstPage])
           c == Len(persistedFileNames) * MaxItemsPerPage
<1>1. Len(t) = c + Len(p) BY StretchPaged
<1>2. f \in Nat /\ c \in Nat /\ Len(p) \in Nat /\ Len(q) \in Nat /\ f <= Len(q)
  <2>1. /\ Len(persistedFileNames) \in Nat /\ page[firstPage] \in Seq(Items) /\ LastItems \in Seq(Items)
        /\ q \in Seq(Items)
        /\ IsPaged(q, disk, page[firstPage], persistedFileNames, 1, Len(persistedFileNames), LastItems)
    BY LiveFacts
  <2>2. f \in Nat /\ c \in Nat /\ Len(p) \in Nat /\ Len(q) \in Nat /\ Len(LastItems) \in Nat
    BY <2>1, FullPages, LenProperties
  <2>3. Len(persistedFileNames) - 1 + 1 = Len(persistedFileNames) BY <2>1
  <2>4. Len(q) = f + c + Len(LastItems) BY <2>1, <2>3 DEF IsPaged
  <2> HIDE DEF f, c
  <2> QED BY <2>2, <2>4
<1>3. t = SubSeq(q, f + 1, f + c + Len(p)) BY DEF Stretch
<1> HIDE DEF f, c
<1>4. f + c + Len(p) = f + Len(t) BY <1>1, <1>2
<1>5. f \in 0 .. Len(q) /\ t = SubSeq(q, f + 1, f + Len(t)) BY <1>2, <1>3, <1>4
<1>6. Len(t) >= c BY <1>1, <1>2
<1> QED BY <1>5, <1>6 DEF c

\* A crash between two calls leaves the files, without the pages in memory.
LEMMA CrashLeavesStretch == ASSUME Paging, pc = "idle", Crash PROVE q' = Stretch(<<>>)
<1> DEFINE N == persistedFileNames
           t == Stretch(<<>>)
<1>1. q' \in Seq(Items) /\ InFiles(q', disk, N) BY CrashOnDisk
<1>2. ListsPages(N, disk) /\ FullFrom(disk, N, 1) BY FilesOfQueue
<1>3. t \in Seq(Items) /\ IsPaged(t, disk, <<>>, N, 1, Len(N), <<>>)
  <2>1. LastItems \in Seq(Items) BY LiveFacts
  <2>2. Len(<<>>) = 0 /\ Len(<<>>) <= Len(LastItems) /\ <<>> \in Seq(Items) BY <2>1, LenProperties
  <2>3. \A i \in 1 .. Len(<<>>) : <<>>[i] = LastItems[i] BY <2>2
  <2> QED BY <2>2, <2>3, StretchPaged
<1> HIDE DEF t, N
<1>4. N \in Seq(Name) /\ PagesFit(disk, N) /\ Len(N) \in Nat BY <1>2, LenProperties DEF ListsPages
<1>5. InFiles(t, disk, N)
  <2>1. CASE Len(N) = 0
    <3>1. IsPaged(t, disk, <<>>, N, 1, 0, <<>>) BY <1>3, <2>1
    <3>2. t = <<>> BY <1>3, <3>1, NoItems, PagedLastAlone, 0 = 1 - 1, 0 \in Int, 1 \in Int
    <3>3. N = <<>> BY <1>4, <2>1, EmptySeq
    <3> QED BY <3>2, <3>3 DEF InFiles
  <2>2. CASE Len(N) > 0
    <3>1. 1 <= Len(N) /\ 1 \in Int /\ Len(N) \in Int BY <1>4, <2>2
    <3>2. IsPaged(t, disk, <<>>, N, 1, Len(N) - 1, disk[N[Len(N)]])
      BY <1>3, <3>1, NoItems, PagedUnfileLast
    <3> QED BY <1>3, <1>4, <2>2, <3>2, EndInFiles
  <2> QED BY <1>4, <2>1, <2>2
<1> QED BY <1>1, <1>3, <1>4, <1>5, InFilesUnique DEF PagesFit, t, N

\* A crash while push_back() files the last page leaves the beginning of it too.
LEMMA TornLeavesStretch ==
  ASSUME Paging, pc = "idle", lastPage # firstPage, Dies, UNCHANGED <<stateFile, stateFileExists>>,
         NEW p \in Torn(page[lastPage]), disk' = WriteFile(disk, SeqName, p)
  PROVE  /\ p \in Seq(Items) /\ Len(p) <= Len(LastItems) /\ \A i \in 1 .. Len(p) : p[i] = LastItems[i]
         /\ q' = Stretch(p)
<1> DEFINE N == persistedFileNames
           M == Append(N, SeqName)
           e == WriteFile(disk, SeqName, p)
           t == Stretch(p)
<1>1. LastItems = page[lastPage] /\ LastItems \in Seq(Items) /\ Len(LastItems) <= MaxItemsPerPage
  BY LiveFacts DEF LastItems, IsPaged
<1>2. p \in Seq(Items) /\ Len(p) <= Len(LastItems) /\ \A i \in 1 .. Len(p) : p[i] = LastItems[i]
  BY <1>1, TornPrefix, PageDomain
<1>3. q' \in Seq(Items) /\ InFiles(q', e, M) BY PushCrashOnDisk
<1>4. ListsPages(N, disk) /\ DiskOK(disk) /\ FullFrom(disk, N, 1) BY FilesOfQueue
<1>5. FullFrom(disk, N, 2) BY <1>4 DEF FullFrom
<1>6. SeqName \in Name /\ \A m \in DOMAIN disk : Before(m, SeqName) BY SeqNameLast
<1>7. Len(p) <= MaxItemsPerPage BY <1>1, <1>2, PageDomain, PageSizeAssumption
<1>8. ListsPages(M, e) BY <1>2, <1>4, <1>5, <1>6, <1>7, PageFiledLast DEF ListsPages, DiskOK
<1>9. /\ Len(N) \in Nat /\ Len(M) = Len(N) + 1 /\ M[Len(N) + 1] = SeqName /\ SeqName \notin NamesIn(N)
  BY <1>4, <1>6, SortedAppend, LenProperties DEF ListsPages
<1>10. t \in Seq(Items) /\ IsPaged(t, disk, <<>>, N, 1, Len(N), p) BY <1>2, StretchPaged
<1>11. IsPaged(t, e, <<>>, M, 1, Len(N), p)
  <2> HIDE DEF t
  <2> QED BY <1>4, <1>6, <1>9, <1>10, PagedAppend DEF ListsPages
<1>12. e[M[Len(M)]] = p /\ Len(M) - 1 = Len(N) /\ Len(M) > 0 BY <1>9 DEF WriteFile
<1> HIDE DEF N, M, e, t
<1>13. IsPaged(t, e, <<>>, M, 1, Len(M) - 1, e[M[Len(M)]]) BY <1>11, <1>12
<1>14. InFiles(t, e, M) BY <1>8, <1>10, <1>12, <1>13, EndInFiles DEF ListsPages
<1>15. q' = t BY <1>3, <1>8, <1>10, <1>14, InFilesUnique DEF ListsPages, PagesFit
<1> QED BY <1>2, <1>15 DEF t

\* What a process that dies between two calls, or inside persistToFile(),
\* leaves is one unbroken stretch of the queue, with every page that was filed:
\* what it costs is what was on the two pages in memory.
THEOREM CrashKeepsFiledPagesCorrect ==
  ASSUME SlowRestart
  PROVE  FaultSpec => CrashKeepsFiledPages
<1> DEFINE Kept == /\ \E k \in 0 .. Len(q) : q' = SubSeq(q, k + 1, k + Len(q'))
                   /\ Len(q') >= Len(persistedFileNames) * MaxItemsPerPage
<1>1. FaultInit => TwiceInv /\ FaultsInv BY InitTwice, InitFaults
<1>2. TwiceInv /\ FaultsInv /\ [FaultNext]_faultVars => TwiceInv' /\ FaultsInv' BY NextTwice, NextFaults
<1>3. FaultsInv /\ [FaultNext]_faultVars => [pc = "idle" /\ pc' = "down" /\ ~lossy => Kept]_faultVars
  <2> SUFFICES ASSUME FaultsInv, FaultNext, pc = "idle", pc' = "down", ~lossy PROVE Kept OBVIOUS
  <2>1. Paging BY DEF FaultsInv, PagingInv, OnDisk
  <2>2. ~PushBackWriteFails /\ ~LoadFails /\ ~CrashWritingState
    BY DEF PushBackWriteFails, LoadFails, CrashWritingState
  <2>3. ~Push /\ ~Pop /\ ~Discard BY DEF Push, PushBack, PushFront, Pop, PopFront, Discard, ClearStep
  <2>4. /\ ~Tick /\ ~Front /\ ~ClearCall /\ ~Construct /\ ~Shutdown(TRUE)
        /\ ~LoadFirst /\ ~LoadLast /\ ~WriteFirst /\ ~WriteLast /\ ~WriteState
    BY DEF Tick, Front, ClearCall, Construct, Shutdown, LoadFirst, LoadLast, WriteFirst, WriteLast, WriteState
  <2>5. CASE Crash
    <3>1. q' = Stretch(<<>>) BY <2>1, <2>5, CrashLeavesStretch
    <3>2. LastItems \in Seq(Items) BY <2>1, LiveFacts
    <3>3. Len(<<>>) = 0 /\ Len(<<>>) <= Len(LastItems) /\ <<>> \in Seq(Items) BY <3>2, LenProperties
    <3>4. \A i \in 1 .. Len(<<>>) : <<>>[i] = LastItems[i] BY <3>3
    <3> QED BY <2>1, <3>1, <3>3, <3>4, StretchKept
  <2>6. CASE CrashWritingPage
    <3>1. /\ Dies /\ UNCHANGED <<stateFile, stateFileExists>> /\ lastPage # firstPage
          /\ \E p \in Torn(page[lastPage]) : disk' = WriteFile(disk, SeqName, p)
      BY <2>6 DEF CrashWritingPage
    <3>2. PICK p \in Torn(page[lastPage]) : disk' = WriteFile(disk, SeqName, p) BY <3>1
    <3>3. /\ p \in Seq(Items) /\ Len(p) <= Len(LastItems) /\ \A i \in 1 .. Len(p) : p[i] = LastItems[i]
          /\ q' = Stretch(p)
      BY <2>1, <3>1, <3>2, TornLeavesStretch
    <3> QED BY <2>1, <3>3, StretchKept
  <2> QED BY <2>2, <2>3, <2>4, <2>5, <2>6 DEF FaultNext
<1> QED BY <1>1, <1>2, <1>3, PTL DEF FaultSpec, CrashKeepsFiledPages
=============================================================================
