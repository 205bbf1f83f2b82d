----------------------- MODULE PersistedQueueProofs -----------------------
(***************************************************************************)
(* Theorems about PersistedQueue, and about the ThreadsafePersistedQueue   *)
(* that gives one to threads, for every page size, every set of items and  *)
(* every bound.                                                            *)
(***************************************************************************)
EXTENDS PagingLemmas, ThreadsafePersistedQueue, FiniteSetTheorems

\* A page file system stays well typed when a page is written or removed.
DiskOK(d) ==
  /\ IsFiniteSet(DOMAIN d) /\ DOMAIN d \subseteq Name
  /\ \A n \in DOMAIN d : d[n] \in Seq(Items)

\* persistToFile() leaves a well-typed set of page files.
LEMMA WriteFileType ==
  ASSUME NEW d, DiskOK(d), NEW n \in Name, NEW p \in Seq(Items)
  PROVE  DiskOK(WriteFile(d, n, p))
<1>1. DOMAIN WriteFile(d, n, p) = DOMAIN d \cup {n}
  BY DEF WriteFile
<1>2. IsFiniteSet(DOMAIN d \cup {n})
  BY FS_AddElement DEF DiskOK
<1> QED  BY <1>1, <1>2 DEF DiskOK, WriteFile

\* loadFromFile() removes the file it has read and leaves the others.
LEMMA RemoveFileType ==
  ASSUME NEW d, DiskOK(d), NEW n
  PROVE  DiskOK(RemoveFile(d, n))
<1>1. DOMAIN RemoveFile(d, n) = DOMAIN d \ {n}
  BY DEF RemoveFile
<1>2. IsFiniteSet(DOMAIN d \ {n})
  BY FS_RemoveElement DEF DiskOK
<1> QED  BY <1>1, <1>2 DEF DiskOK, RemoveFile

\* A sorted listing of the page files is a sequence of names.
LEMMA ListingType ==
  ASSUME NEW d, DiskOK(d), NEW s \in [1 .. Cardinality(DOMAIN d) -> DOMAIN d]
  PROVE  s \in Seq(Name)
<1>1. Cardinality(DOMAIN d) \in Nat
  BY FS_CardinalityType DEF DiskOK
<1> QED  BY <1>1 DEF DiskOK

\* The deque without its front.
LEMMA TailType ==
  ASSUME NEW S, NEW s \in Seq(S), s # <<>>
  PROVE  Tail(s) \in Seq(S) /\ Head(s) \in S
  OBVIOUS

\* The types of what only the running object holds.
MemoryOK ==
  /\ page \in [Slots -> Seq(Items)] /\ firstPage \in Slots /\ lastPage \in Slots
  /\ persistedFileNames \in Seq(Name)
  /\ shutDown \in BOOLEAN /\ lastSeqNum \in Nat /\ seqNumCount \in Nat

PcOK == pc \in {"down", "loadFirst", "loadLast", "idle", "clear", "writeFirst", "writeLast", "writeState"}

\* The parts that the actions touch separately make up TypeOK.
LEMMA TypeParts ==
  TypeOK <=> /\ MemoryOK /\ DiskOK(disk) /\ PcOK
             /\ stateFile \in Seq(Name) /\ stateFileExists \in BOOLEAN
             /\ now \in Nat /\ destroying \in BOOLEAN
             /\ ret \in Items \cup Results /\ q \in Seq(Items)
  BY DEF TypeOK, MemoryOK, DiskOK, PcOK

\* The name seqNumber() makes is a name.
LEMMA SeqNameType ==
  ASSUME TypeOK
  PROVE  SeqName \in Name /\ SeqCount \in Nat
  BY DEF TypeOK, SeqName, SeqCount, Name

\* persistToFile() keeps the types of the files and of the list of names.
LEMMA PersistType ==
  ASSUME TypeOK, NEW n \in Name, NEW p \in Seq(Items), PersistToFile(n, p)
  PROVE  DiskOK(disk') /\ persistedFileNames' \in Seq(Name)
<1>1. DiskOK(disk')
  BY TypeParts, WriteFileType DEF PersistToFile
<1>2. persistedFileNames' \in Seq(Name)
  BY DEF TypeOK, PersistToFile, NamesWith
<1> QED  BY <1>1, <1>2

\* The page pop_front() and front() look at, and taking it into memory.
LEMMA FrontPageType ==
  ASSUME TypeOK, ~FrontFileMissing
  PROVE  FrontPage \in Seq(Items) /\ FrontSlot \in Slots
  BY DEF TypeOK, FrontPage, FrontSlot, FrontFileMissing, NeedsFile, Slots, Other

\* The page popFront() or front() leaves in front, loaded from its file if need be,
\* keeps memory and files well typed.
LEMMA SetFirstPageType ==
  ASSUME TypeOK, ~FrontFileMissing, NEW p \in Seq(Items), SetFirstPage(p)
  PROVE  MemoryOK' /\ DiskOK(disk') /\ stateFile' \in Seq(Name) /\ stateFileExists' \in BOOLEAN
<1>1. FrontSlot \in Slots
  BY FrontPageType
<1>2. DiskOK(disk')
  BY TypeParts, RemoveFileType DEF SetFirstPage
<1>3. persistedFileNames' \in Seq(Name)
  <2>1. CASE NeedsFile
    BY <2>1, TailType DEF TypeOK, SetFirstPage, NeedsFile
  <2>2. CASE ~NeedsFile
    BY <2>2 DEF TypeOK, SetFirstPage
  <2> QED  BY <2>1, <2>2
<1> QED  BY <1>1, <1>2, <1>3 DEF TypeOK, MemoryOK, SetFirstPage

\* What pop_front() and each turn of clear() do keeps the types.
LEMMA PopType ==
  ASSUME TypeOK, NEW clearing \in BOOLEAN, PopItem(clearing)
  PROVE  /\ MemoryOK' /\ DiskOK(disk') /\ stateFile' \in Seq(Name) /\ stateFileExists' \in BOOLEAN
         /\ ret' \in Items \cup Results /\ q' \in Seq(Items)
<1>1. CASE FrontFileMissing /\ LoadFrontFileFails
  <2>1. persistedFileNames' \in Seq(Name)
    BY <1>1 DEF FrontFileMissing, NeedsFile, LoadFrontFileFails, TypeOK
  <2> QED  BY <1>1, <2>1 DEF LoadFrontFileFails, TypeOK, MemoryOK, DiskOK, files, Results
<1>2. CASE ~FrontFileMissing /\ FrontPage = <<>> /\ SetFirstPage(<<>>) /\ UNCHANGED q
             /\ ret' = (IF clearing THEN "clearing" ELSE "null")
  <2>1. <<>> \in Seq(Items)
    OBVIOUS
  <2>2. ret' \in Results /\ q' \in Seq(Items)
    BY <1>2 DEF Results, TypeOK
  <2> QED  BY <1>2, <2>1, <2>2, SetFirstPageType
<1>3. CASE /\ ~FrontFileMissing /\ FrontPage # <<>>
           /\ SetFirstPage(Tail(FrontPage))
           /\ ret' = IF clearing THEN "clearing" ELSE Head(FrontPage)
           /\ q' = IF q = <<>> THEN q ELSE Tail(q)
  <2>1. Tail(FrontPage) \in Seq(Items) /\ Head(FrontPage) \in Items
    BY <1>3, FrontPageType
  <2>2. q' \in Seq(Items)
    BY <1>3 DEF TypeOK
  <2>3. ret' \in Items \cup Results
    BY <1>3, <2>1 DEF Results
  <2> QED  BY <1>3, <2>1, <2>2, <2>3, SetFirstPageType
<1> QED  BY <1>1, <1>2, <1>3 DEF PopItem

\* A released or never built object.
LEMMA NoObjectType ==
  ASSUME NEW r \in Results, NoObject(r)
  PROVE  MemoryOK' /\ PcOK' /\ ret' \in Items \cup Results
  BY DEF NoObject, MemoryOK, PcOK, Slots

\* A machine on which no queue was ever constructed is well typed.
LEMMA InitType == Init => TypeOK
<1> SUFFICES ASSUME Init PROVE TypeOK
  OBVIOUS
<1>1. DOMAIN disk = {} /\ IsFiniteSet({})
  BY FS_EmptySet DEF Init
<1> QED  BY <1>1 DEF Init, TypeOK, Slots, Results

\* Every step of every call keeps the types.
LEMMA NextType == TypeOK /\ [Next]_vars => TypeOK'
<1> SUFFICES ASSUME TypeOK, [Next]_vars PROVE TypeOK'
  OBVIOUS
<1>1. CASE Tick
  BY <1>1 DEF Tick, TypeOK, memory, files
<1>2. ASSUME NEW i \in Items, PushBack(i) PROVE TypeOK'
  <2>1. CASE Refused
    BY <1>2, <2>1 DEF PushBack, Refused, TypeOK, memory, files, Results
  <2>2. CASE ~shutDown /\ PushBackItem(i)
    <3>1. q' \in Seq(Items) /\ <<i>> \in Seq(Items)
      BY <2>2 DEF PushBackItem, TypeOK
    <3>2. lastPage' \in Slots
      BY <2>2 DEF PushBackItem, TypeOK, Slots, Other
    <3>5. page' \in [Slots -> Seq(Items)]
      <4>1. PICK slot \in Slots, p \in Seq(Items) : page' = [page EXCEPT ![slot] = p]
        <5>1. Append(page[lastPage], i) \in Seq(Items) /\ Other(firstPage) \in Slots /\ lastPage \in Slots
          BY DEF TypeOK, Slots, Other
        <5> QED  BY <2>2, <3>1, <5>1 DEF PushBackItem
      <4> QED  BY <4>1 DEF TypeOK
    <3>3. DiskOK(disk') /\ persistedFileNames' \in Seq(Name)
      BY <2>2, TypeParts, PersistType, SeqNameType DEF PushBackItem, TypeOK
    <3>4. lastSeqNum' \in Nat /\ seqNumCount' \in Nat
      BY <2>2, SeqNameType DEF PushBackItem, SeqNumber, TypeOK
    <3> QED  BY <1>2, <2>2, <3>1, <3>2, <3>3, <3>4, <3>5
             DEF PushBack, PushBackItem, TypeOK, DiskOK, Results
  <2> QED  BY <1>2, <2>1, <2>2 DEF PushBack
<1>3. ASSUME NEW i \in Items, PushFront(i) PROVE TypeOK'
  <2>1. CASE Refused
    BY <1>3, <2>1 DEF PushFront, Refused, TypeOK, memory, files, Results
  <2>2. CASE ~Refused
    <3>1. q' \in Seq(Items) /\ page' \in [Slots -> Seq(Items)]
      <4>1. <<i>> \in Seq(Items) /\ page[firstPage] \in Seq(Items)
        BY DEF TypeOK
      <4>2. <<i>> \o q \in Seq(Items) /\ <<i>> \o page[firstPage] \in Seq(Items)
        BY <4>1, ConcatProperties DEF TypeOK
      <4> QED  BY <1>3, <2>2, <4>2 DEF PushFront, TypeOK
    <3> QED  BY <1>3, <2>2, <3>1 DEF PushFront, TypeOK, files, Results
  <2> QED  BY <2>1, <2>2
<1>4. CASE PopFront
  <2>1. CASE Refused
    BY <1>4, <2>1 DEF PopFront, Refused, TypeOK, memory, files, Results
  <2>2. CASE PopItem(FALSE)
    <3>4. /\ MemoryOK' /\ DiskOK(disk') /\ stateFile' \in Seq(Name) /\ stateFileExists' \in BOOLEAN
          /\ ret' \in Items \cup Results /\ q' \in Seq(Items)
      BY <2>2, PopType
    <3> QED  BY <1>4, <3>4 DEF PopFront, TypeOK, MemoryOK, DiskOK
  <2> QED  BY <1>4, <2>1, <2>2 DEF PopFront
<1>5. CASE Front
  <2>1. CASE FrontFileMissing /\ LoadFrontFileFails
    <3>1. persistedFileNames' \in Seq(Name)
      BY <2>1 DEF FrontFileMissing, NeedsFile, LoadFrontFileFails, TypeOK
    <3> QED  BY <1>5, <2>1, <3>1 DEF Front, FrontItem, LoadFrontFileFails, TypeOK, files, Results
  <2>2. CASE ~FrontFileMissing /\ SetFirstPage(FrontPage)
             /\ ret' = (IF FrontPage = <<>> THEN "null" ELSE Head(FrontPage)) /\ UNCHANGED q
    <3>1. FrontPage \in Seq(Items)
      BY <2>2, FrontPageType
    <3>2. ret' \in Items \cup Results
      BY <2>2, <3>1 DEF Results
    <3>3. MemoryOK' /\ DiskOK(disk') /\ stateFile' \in Seq(Name) /\ stateFileExists' \in BOOLEAN
      BY <2>2, <3>1, SetFirstPageType
    <3> QED  BY <1>5, <2>2, <3>2, <3>3 DEF Front, FrontItem, TypeOK, MemoryOK, DiskOK
  <2> QED  BY <1>5, <2>1, <2>2 DEF Front, FrontItem
<1>6. CASE ClearCall
  BY <1>6 DEF ClearCall, TypeOK, memory, files
<1>7. CASE ClearStep
  <2>1. CASE Empty /\ pc' = "idle" /\ ret' = "cleared" /\ UNCHANGED <<memory, files, q>>
    BY <1>7, <2>1 DEF ClearStep, TypeOK, memory, files, Results
  <2>2. CASE ~Empty /\ Refused /\ pc' = "idle"
    BY <1>7, <2>2 DEF ClearStep, Refused, TypeOK, memory, files, Results
  <2>3. CASE /\ PopItem(TRUE)
             /\ pc' = IF ret' = "CouldNotLoadQueueFile" THEN "idle" ELSE "clear"
    <3>4. /\ MemoryOK' /\ DiskOK(disk') /\ stateFile' \in Seq(Name) /\ stateFileExists' \in BOOLEAN
          /\ ret' \in Items \cup Results /\ q' \in Seq(Items)
      BY <2>3, PopType
    <3> QED  BY <1>7, <2>3, <3>4 DEF ClearStep, TypeOK, MemoryOK, DiskOK
  <2> QED  BY <1>7, <2>1, <2>2, <2>3 DEF ClearStep
<1>8. CASE Construct
  <2>1. persistedFileNames' \in Seq(Name)
    BY <1>8, TypeParts, ListingType DEF Construct, LoadOrphanedQueueFiles, TypeOK
  <2>2. page' \in [Slots -> Seq(Items)] /\ firstPage' \in Slots /\ lastPage' \in Slots
    BY <1>8 DEF Construct, Slots
  <2>3. stateFile' \in Seq(Name)
    BY <1>8, EmptySeq DEF Construct
  <2> QED  BY <1>8, <2>1, <2>2, <2>3 DEF Construct, TypeOK
<1>9. CASE \E fromDestructor \in BOOLEAN : Shutdown(fromDestructor)
  BY <1>9 DEF Shutdown, TypeOK, files
<1>10. CASE LoadFirst
  <2>1. CASE persistedFileNames = <<>> /\ pc' = "idle" /\ ret' = "ok" /\ UNCHANGED <<memory, disk>>
    BY <1>10, <2>1 DEF LoadFirst, TypeOK, memory, Results
  <2>2. CASE /\ persistedFileNames # <<>> /\ Head(persistedFileNames) \in DOMAIN disk
             /\ page' = [page EXCEPT ![firstPage] = disk[Head(persistedFileNames)]]
             /\ disk' = RemoveFile(disk, Head(persistedFileNames))
             /\ persistedFileNames' = Tail(persistedFileNames)
             /\ \/ Len(persistedFileNames) = 1 /\ pc' = "idle" /\ ret' = "ok"
                \/ Len(persistedFileNames) > 1 /\ pc' = "loadLast" /\ UNCHANGED ret
             /\ UNCHANGED <<firstPage, lastPage, shutDown, lastSeqNum, seqNumCount>>
    <3>1. DiskOK(disk')
      BY <2>2, TypeParts, RemoveFileType
    <3>2. page' \in [Slots -> Seq(Items)] /\ persistedFileNames' \in Seq(Name)
      BY <2>2 DEF TypeOK
    <3>3. ret' \in Items \cup Results /\ PcOK'
      BY <2>2 DEF TypeOK, PcOK, Results
    <3> QED  BY <1>10, <2>2, <3>1, <3>2, <3>3 DEF LoadFirst, TypeOK, DiskOK, PcOK
  <2>3. CASE NoObject("CouldNotLoadQueueFile") /\ UNCHANGED disk
    <3>1. MemoryOK' /\ PcOK' /\ ret' \in Items \cup Results
      BY <2>3, NoObjectType DEF Results
    <3> QED  BY <1>10, <2>3, <3>1 DEF LoadFirst, TypeOK, MemoryOK, PcOK
  <2> QED  BY <1>10, <2>1, <2>2, <2>3 DEF LoadFirst
<1>11. CASE LoadLast
  <2>1. CASE /\ LastName \in DOMAIN disk
             /\ lastPage' = Other(firstPage)
             /\ page' = [page EXCEPT ![Other(firstPage)] = disk[LastName]]
             /\ disk' = RemoveFile(disk, LastName)
             /\ persistedFileNames' = SubSeq(persistedFileNames, 1, Len(persistedFileNames) - 1)
             /\ pc' = "idle" /\ ret' = "ok"
             /\ UNCHANGED <<firstPage, shutDown, lastSeqNum, seqNumCount>>
    <3>1. DiskOK(disk')
      BY <2>1, TypeParts, RemoveFileType
    <3>2. page' \in [Slots -> Seq(Items)] /\ lastPage' \in Slots
      BY <2>1 DEF TypeOK, Slots, Other
    <3>3. persistedFileNames' \in Seq(Name)
      BY <2>1 DEF TypeOK
    <3> QED  BY <1>11, <2>1, <3>1, <3>2, <3>3 DEF LoadLast, TypeOK, DiskOK, Results
  <2>2. CASE NoObject("CouldNotLoadQueueFile") /\ UNCHANGED disk
    <3>1. MemoryOK' /\ PcOK' /\ ret' \in Items \cup Results
      BY <2>2, NoObjectType DEF Results
    <3> QED  BY <1>11, <2>2, <3>1 DEF LoadLast, TypeOK, MemoryOK, PcOK
  <2> QED  BY <1>11, <2>1, <2>2 DEF LoadLast
<1>12. CASE WriteFirst
  <2>1. DiskOK(disk') /\ persistedFileNames' \in Seq(Name)
    <3>1. FileZero \in Name /\ page[firstPage] \in Seq(Items)
      BY DEF FileZero, Name, TypeOK
    <3> QED  BY <1>12, <3>1, PersistType, TypeParts DEF WriteFirst, MemoryOK
  <2> QED  BY <1>12, <2>1 DEF WriteFirst, TypeOK, DiskOK
<1>13. CASE WriteLast
  <2>1. DiskOK(disk') /\ persistedFileNames' \in Seq(Name)
    <3>1. page[lastPage] \in Seq(Items)
      BY DEF TypeOK
    <3> QED  BY <1>13, <3>1, PersistType, SeqNameType, TypeParts DEF WriteLast, MemoryOK
  <2>2. lastSeqNum' \in Nat /\ seqNumCount' \in Nat
    BY <1>13, SeqNameType DEF WriteLast, SeqNumber, TypeOK
  <2> QED  BY <1>13, <2>1, <2>2 DEF WriteLast, TypeOK, DiskOK
<1>14. CASE WriteState
  <2>1. stateFile' \in Seq(Name) /\ stateFileExists' \in BOOLEAN
    BY <1>14 DEF WriteState, TypeOK
  <2>2. MemoryOK' /\ PcOK' /\ ret' \in Items \cup Results
    <3>1. CASE NoObject("ok")
      BY <3>1, NoObjectType DEF Results
    <3>2. CASE ~NoObject("ok")
      <4>1. persistedFileNames' \in Seq(Name)
        BY <1>14, <3>2, EmptySeq DEF WriteState
      <4> QED  BY <1>14, <3>2, <4>1 DEF WriteState, TypeOK, MemoryOK, PcOK, Results
    <3> QED  BY <3>1, <3>2
  <2> QED  BY <1>14, <2>1, <2>2 DEF WriteState, TypeOK, MemoryOK, PcOK
<1>15. CASE UNCHANGED vars
  BY <1>15 DEF vars, memory, files, TypeOK
<1> QED
  BY <1>1, <1>2, <1>3, <1>4, <1>5, <1>6, <1>7, <1>8, <1>9, <1>10, <1>11, <1>12, <1>13, <1>14, <1>15
  DEF Next, CallStep

\* Type correctness of the queue in every use, the double shutdown and the
\* restart within a second included: every page in memory and on file holds
\* items, every listed name is a name, and every call returns a documented
\* result.
THEOREM TypeCorrect == Spec => []TypeOK
<1> QED  BY InitType, NextType, PTL DEF Spec

---------------------------------------------------------------------------
\* The client leaves shutdown() to the destructor, and no queue is constructed
\* in the second its files were named in.
OrderlyUse == SlowRestart /\ ~ExplicitShutdown

\* Before the first construction there are neither pages, files nor items.
LEMMA InitPaging == Init => PagingInv
<1> SUFFICES ASSUME Init PROVE PagingInv
  OBVIOUS
<1>1. TypeOK
  BY InitType
<1>2. DOMAIN disk = {} /\ NamesIn(<<>>) = {}
  BY DEF Init, NamesIn
<1> QED  BY <1>1, <1>2 DEF Init, PagingInv, Paging, Lifecycle, FilesListed, NamesSorted, Sorted, NamesPast,
                           QueueOnPages, DataPersisted, QueueInFiles

\* What the invariant says of a queue between calls, without reference to pc.
LEMMA LiveFacts ==
  ASSUME Paging, pc \in {"idle", "clear", "writeFirst"}
  PROVE  /\ IsPaged(q, disk, page[firstPage], persistedFileNames, 1, Len(persistedFileNames), LastItems)
         /\ firstPage = lastPage => persistedFileNames = <<>>
         /\ page[firstPage] \in Seq(Items) /\ page[lastPage] \in Seq(Items) /\ LastItems \in Seq(Items)
         /\ persistedFileNames \in Seq(Name) /\ Sorted(persistedFileNames)
         /\ DOMAIN disk = NamesIn(persistedFileNames)
         /\ Len(persistedFileNames) \in Nat /\ q \in Seq(Items)
         /\ DOMAIN persistedFileNames = 1 .. Len(persistedFileNames)
         /\ \A k \in 1 .. Len(persistedFileNames) : persistedFileNames[k] \in DOMAIN disk
<1>1. page[firstPage] \in Seq(Items) /\ page[lastPage] \in Seq(Items) /\ q \in Seq(Items)
  BY DEF Paging, TypeOK
<1>2. LastItems \in Seq(Items)
  BY <1>1 DEF LastItems
<1>3. persistedFileNames \in Seq(Name)
  BY DEF Paging, TypeOK
<1>4. Len(persistedFileNames) \in Nat /\ DOMAIN persistedFileNames = 1 .. Len(persistedFileNames)
  BY <1>3, LenProperties
<1>5. DOMAIN disk = NamesIn(persistedFileNames)
  BY DEF Paging, FilesListed
<1>6. \A k \in 1 .. Len(persistedFileNames) : persistedFileNames[k] \in DOMAIN disk
  BY <1>4, <1>5 DEF NamesIn
<1> QED  BY <1>1, <1>2, <1>3, <1>4, <1>5, <1>6 DEF Paging, QueueOnPages, QueueIs, Lifecycle, NamesSorted

\* The converse: a state between calls that satisfies them satisfies the invariant.
LEMMA LivePaging ==
  ASSUME Paging, TypeOK', pc \in {"idle", "clear"}, pc' \in {"idle", "clear"},
         UNCHANGED <<shutDown, destroying, stateFile, stateFileExists>>,
         IsPaged(q, disk, page[firstPage], persistedFileNames, 1, Len(persistedFileNames), LastItems)',
         firstPage' = lastPage' => persistedFileNames' = <<>>,
         Sorted(persistedFileNames'), DOMAIN disk' = NamesIn(persistedFileNames'), NamesPast'
  PROVE  Paging'
<1>1. Lifecycle'
  BY DEF Paging, Lifecycle
<1>2. FilesListed' /\ NamesSorted'
  BY DEF Paging, FilesListed, NamesSorted
<1>3. QueueOnPages' /\ DataPersisted'
  BY DEF QueueOnPages, QueueIs, DataPersisted
<1> QED  BY <1>1, <1>2, <1>3 DEF Paging

\* No listed file is missing.
LEMMA FilePresent ==
  ASSUME Paging, pc # "down", persistedFileNames # <<>>
  PROVE  Head(persistedFileNames) \in DOMAIN disk
<1>1. persistedFileNames \in Seq(Name) /\ Sorted(persistedFileNames)
  BY DEF Paging, TypeOK, NamesSorted
<1>2. Head(persistedFileNames) = persistedFileNames[1] /\ 1 \in DOMAIN persistedFileNames
  BY <1>1, SortedTail, LenProperties
<1> QED  BY <1>2 DEF Paging, FilesListed, NamesIn

\* Removing a file keeps what NamesPast says of the others.
LEMMA RemovalPast ==
  ASSUME Paging, pc # "down", pc' # "down", UNCHANGED <<now, lastSeqNum, seqNumCount>>,
         DOMAIN disk' \subseteq DOMAIN disk,
         pc' \in {"loadLast", "idle", "clear", "writeFirst"} => FileZero \notin DOMAIN disk'
  PROVE  NamesPast'
  BY DEF Paging, NamesPast

\* pop_front() and front() find the head of the queue: the page they take in
\* as first page is the queue's first page.
LEMMA RefillPaging ==
  ASSUME Paging, pc \in {"idle", "clear"}, NEW p \in Seq(Items), SetFirstPage(p)
  PROVE  /\ FrontPage \in Seq(Items)
         /\ IsPaged(q, disk', FrontPage, persistedFileNames', 1, Len(persistedFileNames'), LastItems')
         /\ page'[firstPage'] = p
         /\ firstPage' = lastPage' => persistedFileNames' = <<>>
         /\ Sorted(persistedFileNames') /\ DOMAIN disk' = NamesIn(persistedFileNames')
         /\ DOMAIN disk' \subseteq DOMAIN disk
         /\ FrontPage = <<>> => q = <<>>
         /\ LastItems' \in Seq(Items) /\ Len(persistedFileNames') \in Nat
<1> DEFINE N == persistedFileNames
<1>1. TypeOK
  BY DEF Paging
<1>2. ~FrontFileMissing
  BY FilePresent DEF FrontFileMissing, NeedsFile
<1>3. FrontPage \in Seq(Items) /\ FrontSlot \in Slots
  BY <1>1, <1>2, FrontPageType
<1>4. page'[firstPage'] = p /\ lastPage' = lastPage /\ firstPage' = FrontSlot
      /\ \A slot \in Slots : slot # FrontSlot => page'[slot] = page[slot]
  BY <1>1, <1>3 DEF SetFirstPage, TypeOK
<1>5. lastPage \in Slots /\ firstPage \in Slots
  BY <1>1 DEF TypeOK
<1>6. CASE page[firstPage] # <<>>
  <2>1. FrontPage = page[firstPage] /\ FrontSlot = firstPage /\ ~NeedsFile
    BY <1>6 DEF FrontPage, FrontSlot, NeedsFile
  <2>2. UNCHANGED <<persistedFileNames, disk>>
    BY <2>1 DEF SetFirstPage
  <2>3. LastItems' = LastItems
    BY <1>4, <1>5, <2>1 DEF LastItems
  <2> QED  BY <1>3, <1>4, <1>6, <2>1, <2>2, <2>3, LiveFacts
<1>7. CASE page[firstPage] = <<>> /\ N = <<>>
  <2>1. FrontPage = page[lastPage] /\ FrontSlot = lastPage /\ ~NeedsFile
    BY <1>7 DEF FrontPage, FrontSlot, NeedsFile
  <2>2. UNCHANGED <<persistedFileNames, disk>>
    BY <2>1 DEF SetFirstPage
  <2>3. LastItems' = <<>>
    BY <1>4, <2>1 DEF LastItems
  <2>4. Len(N) = 0
    BY <1>7
  <2>5. IsPaged(q, disk, <<>>, N, 1, 0, LastItems)
    BY <1>7, <2>4, LiveFacts
  <2>6. q = LastItems
    <3>1. q \in Seq(Items) /\ LastItems \in Seq(Items) /\ 0 = 1 - 1 /\ 0 \in Int /\ 1 \in Int
      BY LiveFacts
    <3> QED  BY <2>5, <3>1, PagedLastAlone
  <2>7. LastItems = page[lastPage]
    BY <1>7 DEF LastItems
  <2>8. IsPaged(q, disk, page[lastPage], N, 1, 0, <<>>)
    <3>1. q \in Seq(Items) /\ 0 = 1 - 1 /\ 0 \in Int /\ 1 \in Int
      BY LiveFacts
    <3> QED  BY <2>6, <2>7, <3>1, PagedAlone
  <2>9. <<>> \in Seq(Items)
    BY EmptySeq
  <2> QED  BY <1>3, <1>4, <1>7, <2>1, <2>2, <2>3, <2>4, <2>6, <2>7, <2>8, <2>9, LiveFacts
<1>8. CASE page[firstPage] = <<>> /\ N # <<>>
  <2>1. FrontPage = disk[Head(N)] /\ FrontSlot = Other(lastPage) /\ NeedsFile
    BY <1>8 DEF FrontPage, FrontSlot, NeedsFile
  <2>2. N' = Tail(N) /\ disk' = RemoveFile(disk, Head(N))
    BY <2>1 DEF SetFirstPage
  <2>3. FrontSlot # lastPage /\ firstPage # lastPage
    BY <1>5, <1>8, <2>1, LiveFacts DEF Other, Slots
  <2>4. LastItems' = LastItems
    BY <1>4, <1>5, <2>3 DEF LastItems
  <2>5. /\ Tail(N) \in Seq(Name) /\ Len(Tail(N)) = Len(N) - 1 /\ Head(N) = N[1] /\ Len(N) >= 1
        /\ \A k \in 1 .. Len(N) - 1 : Tail(N)[k] = N[k + 1]
        /\ Sorted(Tail(N)) /\ NamesIn(Tail(N)) = NamesIn(N) \ {Head(N)}
    BY <1>8, LiveFacts, SortedTail
  <2>6. DOMAIN disk' = DOMAIN disk \ {Head(N)} /\ \A n \in DOMAIN disk \ {Head(N)} : disk'[n] = disk[n]
    BY <2>2 DEF RemoveFile
  <2>7. IsPaged(q, disk, disk[N[1]], N, 2, Len(N), LastItems)
    <3>1. IsPaged(q, disk, <<>>, N, 1, Len(N), LastItems)
      BY <1>8, LiveFacts
    <3>2. q \in Seq(Items) /\ LastItems \in Seq(Items) /\ 1 \in Int /\ Len(N) \in Int /\ 1 <= Len(N) /\ 1 + 1 = 2
      BY <2>5, LiveFacts
    <3> QED  BY <3>1, <3>2, PagedFileToFirst
  <2>10. IsPaged(q, disk', disk[N[1]], N', 1, Len(N'), LastItems')
    <3>1. IsPaged(q, RemoveFile(disk, Head(N)), disk[N[1]], Tail(N), 1, Len(N) - 1, LastItems)
      BY <1>8, <2>7, LiveFacts, PagedDropFront
    <3> QED  BY <2>2, <2>4, <2>5, <3>1
  <2>11. FrontPage # <<>>
    <3>1. Len(disk[N[1]]) = MaxItemsPerPage
      <4>1. IsPaged(q, disk, <<>>, N, 1, Len(N), LastItems)
        BY <1>8, LiveFacts
      <4> QED  BY <4>1, <2>5, LiveFacts, 1 \in 1 .. Len(N) DEF IsPaged
    <3> QED  BY <2>1, <2>5, <3>1, PageSizeAssumption
  <2>12. LastItems' \in Seq(Items) /\ Len(N') \in Nat
    BY <2>2, <2>4, <2>5, LiveFacts
  <2> QED  BY <1>3, <1>4, <2>1, <2>2, <2>3, <2>5, <2>6, <2>10, <2>11, <2>12, LiveFacts
<1> QED  BY <1>6, <1>7, <1>8

\* pop_front() and each turn of clear() keep the queue on its pages.
LEMMA PopPaging ==
  ASSUME Paging, TypeOK', pc \in {"idle", "clear"}, pc' \in {"idle", "clear"},
         NEW clearing \in BOOLEAN, PopItem(clearing), UNCHANGED <<now, destroying>>
  PROVE  Paging'
<1>1. ~FrontFileMissing
  BY FilePresent DEF FrontFileMissing, NeedsFile
<1>2. PICK p \in Seq(Items) :
        /\ SetFirstPage(p)
        /\ \/ FrontPage = <<>> /\ p = <<>> /\ q' = q
           \/ FrontPage # <<>> /\ p = Tail(FrontPage) /\ q' = IF q = <<>> THEN q ELSE Tail(q)
  <2>1. FrontPage \in Seq(Items)
    BY <1>1, FrontPageType DEF Paging
  <2>2. <<>> \in Seq(Items) /\ (FrontPage # <<>> => Tail(FrontPage) \in Seq(Items))
    BY <2>1, EmptySeq, TailType
  <2> QED  BY <1>1, <2>2 DEF PopItem
<1> DEFINE N == persistedFileNames
<1>3. /\ FrontPage \in Seq(Items)
      /\ IsPaged(q, disk', FrontPage, N', 1, Len(N'), LastItems')
      /\ page'[firstPage'] = p
      /\ firstPage' = lastPage' => N' = <<>>
      /\ Sorted(N') /\ DOMAIN disk' = NamesIn(N') /\ DOMAIN disk' \subseteq DOMAIN disk
      /\ LastItems' \in Seq(Items) /\ Len(N') \in Nat
  BY <1>2, RefillPaging
<1>4. IsPaged(q', disk', page'[firstPage'], N', 1, Len(N'), LastItems')
  <2>1. CASE FrontPage = <<>>
    BY <1>2, <1>3, <2>1
  <2>2. CASE FrontPage # <<>>
    <3>1. q \in Seq(Items) /\ Len(N') - 1 + 1 >= 0 /\ Len(N') \in Int
      BY <1>3 DEF Paging, TypeOK
    <3>2. q # <<>> /\ IsPaged(Tail(q), disk', Tail(FrontPage), N', 1, Len(N'), LastItems')
      BY <1>3, <2>2, <3>1, PagedPopFirst
    <3> QED  BY <1>2, <1>3, <2>2, <3>2
  <2> QED  BY <2>1, <2>2
<1>5. UNCHANGED <<shutDown, lastSeqNum, seqNumCount, stateFile, stateFileExists>>
  BY <1>2 DEF SetFirstPage
<1>6. NamesPast'
  <2>1. FileZero \notin DOMAIN disk'
    BY <1>3 DEF Paging, NamesPast
  <2> QED  BY <1>3, <1>5, <2>1, RemovalPast
<1> QED  BY <1>3, <1>4, <1>5, <1>6, LivePaging

\* front() keeps the queue on its pages.
LEMMA FrontPaging ==
  ASSUME Paging, TypeOK', Front
  PROVE  Paging'
<1>1. ~FrontFileMissing /\ pc = "idle" /\ pc' = "idle"
  BY FilePresent DEF Front, FrontItem, FrontFileMissing, NeedsFile
<1>2. SetFirstPage(FrontPage) /\ UNCHANGED <<now, destroying, q>>
  BY <1>1 DEF Front, FrontItem
<1>3. FrontPage \in Seq(Items)
  BY <1>1, FrontPageType DEF Paging
<1> DEFINE N == persistedFileNames
<1>4. /\ IsPaged(q, disk', FrontPage, N', 1, Len(N'), LastItems')
      /\ page'[firstPage'] = FrontPage
      /\ firstPage' = lastPage' => N' = <<>>
      /\ Sorted(N') /\ DOMAIN disk' = NamesIn(N') /\ DOMAIN disk' \subseteq DOMAIN disk
  BY <1>1, <1>2, <1>3, RefillPaging
<1>5. UNCHANGED <<shutDown, lastSeqNum, seqNumCount, stateFile, stateFileExists>>
  BY <1>2 DEF SetFirstPage
<1>6. NamesPast'
  <2>1. FileZero \notin DOMAIN disk'
    BY <1>1, <1>4 DEF Paging, NamesPast
  <2> QED  BY <1>1, <1>2, <1>4, <1>5, <2>1, RemovalPast
<1> QED  BY <1>1, <1>2, <1>4, <1>5, <1>6, LivePaging

\* The name seqNumber() makes comes after the name of every page file.
LEMMA SeqNameLast ==
  ASSUME Paging, pc # "down"
  PROVE  /\ SeqName \in Name /\ SeqName # FileZero /\ SeqName[1] = now
         /\ \A n \in DOMAIN disk : Before(n, SeqName)
<1>1. SeqName \in Name /\ SeqName[1] = now /\ SeqName[2] = SeqCount /\ now > 0
  BY SeqNameType DEF Paging, NamesPast, SeqName
<1>2. ASSUME NEW n \in DOMAIN disk PROVE Before(n, SeqName)
  <2>1. n \in Name /\ now \in Nat /\ seqNumCount \in Nat
    BY DEF Paging, TypeOK
  <2>2. CASE n[1] = now
    <3>1. lastSeqNum = now /\ n[2] <= seqNumCount
      BY <2>2 DEF Paging, NamesPast
    <3> QED  BY <1>1, <2>1, <2>2, <3>1 DEF Before, SeqCount, Name
  <2>3. CASE n[1] # now
    <3>1. n[1] \in 0 .. now
      BY <2>1 DEF Paging, NamesPast, FileZero
    <3> QED  BY <1>1, <2>1, <2>3, <3>1 DEF Before, Name
  <2> QED  BY <2>2, <2>3
<1>3. SeqName # FileZero
  BY <1>1 DEF FileZero
<1> QED  BY <1>1, <1>2, <1>3

\* persistToFile(seqNumber(), p) adds a new file and a last name.
LEMMA PersistNew ==
  ASSUME Paging, pc # "down", NEW p, PersistToFile(SeqName, p), SeqNumber, UNCHANGED now
  PROVE  /\ SeqName \notin DOMAIN disk
         /\ persistedFileNames' = Append(persistedFileNames, SeqName)
         /\ disk' = WriteFile(disk, SeqName, p)
         /\ disk'[SeqName] = p /\ DOMAIN disk' = DOMAIN disk \cup {SeqName}
         /\ \A n \in DOMAIN disk : disk'[n] = disk[n]
         /\ Len(persistedFileNames') = Len(persistedFileNames) + 1
         /\ persistedFileNames'[Len(persistedFileNames) + 1] = SeqName
         /\ \A k \in 1 .. Len(persistedFileNames) : persistedFileNames'[k] = persistedFileNames[k]
         /\ Sorted(persistedFileNames') /\ DOMAIN disk' = NamesIn(persistedFileNames')
         /\ SeqName \notin NamesIn(persistedFileNames)
         /\ \A n \in DOMAIN disk' : n = FileZero \/ n[1] \in 1 .. now'
         /\ \A n \in DOMAIN disk' : n[1] = now' => lastSeqNum' = now' /\ n[2] <= seqNumCount'
<1> DEFINE N == persistedFileNames
<1>1. /\ SeqName \in Name /\ SeqName # FileZero /\ SeqName[1] = now
      /\ \A n \in DOMAIN disk : Before(n, SeqName)
  BY SeqNameLast
<1>2. N \in Seq(Name) /\ Sorted(N) /\ DOMAIN disk = NamesIn(N)
  BY DEF Paging, TypeOK, NamesSorted, FilesListed
<1>3. N' = Append(N, SeqName) /\ disk' = WriteFile(disk, SeqName, p)
  BY <1>1 DEF PersistToFile, NamesWith
<1>4. /\ Len(Append(N, SeqName)) = Len(N) + 1
      /\ \A k \in 1 .. Len(N) : Append(N, SeqName)[k] = N[k]
      /\ Append(N, SeqName)[Len(N) + 1] = SeqName
      /\ Sorted(Append(N, SeqName)) /\ NamesIn(Append(N, SeqName)) = NamesIn(N) \cup {SeqName}
      /\ SeqName \notin NamesIn(N)
  BY <1>1, <1>2, SortedAppend
<1>5. /\ DOMAIN disk' = DOMAIN disk \cup {SeqName} /\ disk'[SeqName] = p
      /\ \A n \in DOMAIN disk : disk'[n] = disk[n]
  BY <1>2, <1>3, <1>4 DEF WriteFile
<1>6. now \in Nat /\ now > 0 /\ SeqCount \in Nat /\ seqNumCount \in Nat
  BY SeqNameType DEF Paging, TypeOK, NamesPast
<1>7. \A n \in DOMAIN disk' : n = FileZero \/ n[1] \in 1 .. now'
  BY <1>1, <1>5, <1>6 DEF Paging, NamesPast
<1>8. ASSUME NEW n \in DOMAIN disk', n[1] = now' PROVE lastSeqNum' = now' /\ n[2] <= seqNumCount'
  <2>1. lastSeqNum' = now /\ seqNumCount' = SeqCount /\ SeqName[2] = SeqCount
    BY DEF SeqNumber, SeqName
  <2>2. CASE n = SeqName
    BY <1>6, <2>1, <2>2
  <2>3. CASE n # SeqName
    <3>1. n \in DOMAIN disk /\ n \in Name
      BY <1>5, <2>3 DEF Paging, TypeOK
    <3>2. lastSeqNum = now /\ n[2] <= seqNumCount
      BY <1>8, <3>1 DEF Paging, NamesPast
    <3> QED  BY <1>6, <2>1, <3>1, <3>2 DEF SeqCount, Name
  <2> QED  BY <2>2, <2>3
<1> QED  BY <1>1, <1>2, <1>3, <1>4, <1>5, <1>7, <1>8

\* push_back() keeps the queue on its pages in each of its three cases.
LEMMA PushBackPaging ==
  ASSUME Paging, TypeOK', NEW i \in Items, PushBack(i)
  PROVE  Paging'
<1> DEFINE N == persistedFileNames
<1>1. pc = "idle" /\ pc' = "idle" /\ ~shutDown /\ UNCHANGED <<now, destroying>>
  BY DEF PushBack, Paging, Lifecycle
<1>2. PushBackItem(i)
  BY <1>1 DEF PushBack, Refused
<1>3. q' = Append(q, i) /\ UNCHANGED <<firstPage, shutDown, stateFile, stateFileExists>>
  BY <1>2 DEF PushBackItem
<1>4. /\ page \in [Slots -> Seq(Items)] /\ firstPage \in Slots /\ lastPage \in Slots
      /\ <<>> \in Seq(Items) /\ Append(<<>>, i) = <<i>> /\ Len(<<>>) = 0 /\ 0 < MaxItemsPerPage
  BY PageSizeAssumption, EmptySeq DEF Paging, TypeOK
<1>5. Len(N) \in Nat /\ Len(N) - 1 + 1 >= 0 /\ q \in Seq(Items)
  BY <1>1, LiveFacts
<1>6. CASE /\ ~LastPageFull
           /\ page' = [page EXCEPT ![lastPage] = Append(@, i)]
           /\ UNCHANGED <<lastPage, persistedFileNames, lastSeqNum, seqNumCount, disk>>
  <2>1. Len(page[lastPage]) < MaxItemsPerPage
    BY <1>4, <1>6, PageSizeAssumption DEF LastPageFull
  <2>2. IsPaged(q', disk', page'[firstPage'], N', 1, Len(N'), LastItems')
    <3>1. CASE firstPage = lastPage
      <4>1. N = <<>> /\ Len(N) = 0 /\ LastItems = <<>> /\ LastItems' = <<>>
        BY <1>1, <1>3, <1>6, <3>1, LiveFacts DEF LastItems
      <4>2. q = page[firstPage]
        <5>1. IsPaged(q, disk, page[firstPage], N, 1, 0, <<>>) /\ page[firstPage] \in Seq(Items)
          BY <1>1, <4>1, LiveFacts
        <5> QED  BY <1>5, <5>1, PagedAlone, 0 = 1 - 1, 0 \in Int, 1 \in Int
      <4>3. page'[firstPage'] = q' /\ q' \in Seq(Items)
        BY <1>3, <1>4, <1>6, <3>1, <4>2 DEF TypeOK
      <4>4. IsPaged(q', disk', page'[firstPage'], N', 1, 0, <<>>)
        BY <4>3, PagedAlone, 0 = 1 - 1, 0 \in Int, 1 \in Int
      <4> QED  BY <1>6, <4>1, <4>4
    <3>2. CASE firstPage # lastPage
      <4>1. LastItems = page[lastPage] /\ LastItems' = Append(page[lastPage], i)
            /\ page'[firstPage'] = page[firstPage]
        BY <1>3, <1>4, <1>6, <3>2 DEF LastItems
      <4>2. IsPaged(q, disk, page[firstPage], N, 1, Len(N), page[lastPage])
            /\ page[firstPage] \in Seq(Items) /\ page[lastPage] \in Seq(Items)
        BY <1>1, <4>1, LiveFacts
      <4>3. IsPaged(Append(q, i), disk, page[firstPage], N, 1, Len(N), Append(page[lastPage], i))
        BY <1>5, <2>1, <4>2, PagedPushLast
      <4> QED  BY <1>3, <1>6, <4>1, <4>3
    <3> QED  BY <3>1, <3>2
  <2>3. NamesPast'
    BY <1>1, <1>6 DEF Paging, NamesPast
  <2> QED  BY <1>1, <1>3, <1>6, <2>2, <2>3, LiveFacts, LivePaging
<1>7. CASE /\ LastPageFull /\ lastPage = firstPage
           /\ lastPage' = Other(firstPage)
           /\ page' = [page EXCEPT ![Other(firstPage)] = <<i>>]
           /\ UNCHANGED <<persistedFileNames, lastSeqNum, seqNumCount, disk>>
  <2>1. Other(firstPage) \in Slots /\ Other(firstPage) # firstPage
    BY <1>4 DEF Slots, Other
  <2>2. LastItems = <<>> /\ LastItems' = <<i>> /\ page'[firstPage'] = page[firstPage]
    BY <1>3, <1>4, <1>7, <2>1 DEF LastItems
  <2>3. IsPaged(q, disk, page[firstPage], N, 1, Len(N), <<>>) /\ page[firstPage] \in Seq(Items)
    BY <1>1, <2>2, LiveFacts
  <2>4. IsPaged(Append(q, i), disk, page[firstPage], N, 1, Len(N), Append(<<>>, i))
    <3>1. <<>> \in Seq(Items) /\ Len(<<>>) < MaxItemsPerPage /\ Len(N) \in Int /\ 1 \in Int
      BY <1>4, <1>5
    <3> QED  BY <1>5, <2>3, <3>1, PagedPushLast
  <2>5. NamesPast'
    BY <1>1, <1>7 DEF Paging, NamesPast
  <2>6. firstPage' # lastPage'
    BY <1>3, <1>7, <2>1
  <2>7. IsPaged(q', disk', page'[firstPage'], N', 1, Len(N'), LastItems')
    BY <1>3, <1>4, <1>7, <2>2, <2>4
  <2>8. Sorted(N') /\ DOMAIN disk' = NamesIn(N')
    BY <1>1, <1>7, LiveFacts
  <2> QED  BY <1>1, <1>3, <2>5, <2>6, <2>7, <2>8, LivePaging
<1>8. CASE /\ LastPageFull /\ lastPage # firstPage
           /\ PersistToFile(SeqName, page[lastPage])
           /\ SeqNumber
           /\ page' = [page EXCEPT ![lastPage] = <<i>>]
           /\ UNCHANGED lastPage
  <2>1. LastItems = page[lastPage] /\ LastItems' = <<i>> /\ page'[firstPage'] = page[firstPage]
    BY <1>3, <1>4, <1>8 DEF LastItems
  <2>2. /\ IsPaged(q, disk, page[firstPage], N, 1, Len(N), page[lastPage])
        /\ page[firstPage] \in Seq(Items) /\ page[lastPage] \in Seq(Items)
        /\ N \in Seq(Name)
    BY <1>1, <2>1, LiveFacts
  <2>3. Len(page[lastPage]) = MaxItemsPerPage
    <3>1. Len(page[lastPage]) <= MaxItemsPerPage
      BY <2>2 DEF IsPaged
    <3> QED  BY <1>8, <2>2, <3>1, PageSizeAssumption DEF LastPageFull
  <2>4. /\ SeqName \notin DOMAIN disk
        /\ N' = Append(N, SeqName)
        /\ disk' = WriteFile(disk, SeqName, page[lastPage])
        /\ disk'[SeqName] = page[lastPage] /\ DOMAIN disk' = DOMAIN disk \cup {SeqName}
        /\ Len(N') = Len(N) + 1 /\ N'[Len(N) + 1] = SeqName
        /\ Sorted(N') /\ DOMAIN disk' = NamesIn(N')
        /\ SeqName \notin NamesIn(N)
        /\ \A n \in DOMAIN disk' : n = FileZero \/ n[1] \in 1 .. now'
        /\ \A n \in DOMAIN disk' : n[1] = now' => lastSeqNum' = now' /\ n[2] <= seqNumCount'
    BY <1>1, <1>8, PersistNew
  <2>5. SeqName \in Name /\ SeqName # FileZero
    BY <1>1, SeqNameLast
  <2>6. IsPaged(q, disk', page[firstPage], N', 1, Len(N), page[lastPage])
    BY <2>2, <2>4, <2>5, PagedAppend, 1 \in Nat, 1 >= 1
  <2>7. IsPaged(q, disk', page[firstPage], N', 1, Len(N) + 1, <<>>)
    <3>1. 1 <= Len(N) + 1 /\ Len(N) \in Int /\ 1 \in Int
      BY <1>5
    <3>2. N'[Len(N) + 1] \in DOMAIN disk' /\ disk'[N'[Len(N) + 1]] = page[lastPage]
      BY <2>4
    <3> QED  BY <1>5, <2>2, <2>3, <2>6, <3>1, <3>2, PagedFileLast
  <2>8. IsPaged(Append(q, i), disk', page[firstPage], N', 1, Len(N) + 1, Append(<<>>, i))
    <3>1. <<>> \in Seq(Items) /\ Len(<<>>) < MaxItemsPerPage /\ Len(N) + 1 \in Int /\ 1 \in Int
          /\ (Len(N) + 1) - 1 + 1 >= 0
      BY <1>4, <1>5
    <3> QED  BY <1>5, <2>2, <2>7, <3>1, PagedPushLast
  <2>9. IsPaged(q', disk', page'[firstPage'], N', 1, Len(N'), LastItems')
    BY <1>3, <1>4, <2>1, <2>4, <2>8
  <2>10. NamesPast'
    <3>1. now' > 0 /\ FileZero \notin DOMAIN disk'
      BY <1>1, <2>4, <2>5 DEF Paging, NamesPast
    <3> QED  BY <1>1, <2>4, <3>1 DEF NamesPast
  <2>11. firstPage' # lastPage'
    BY <1>3, <1>8
  <2> QED  BY <1>1, <1>3, <2>4, <2>9, <2>10, <2>11, LivePaging
<1> QED  BY <1>2, <1>6, <1>7, <1>8 DEF PushBackItem

\* push_front() keeps the queue on its pages.
LEMMA PushFrontPaging ==
  ASSUME Paging, TypeOK', NEW i \in Items, PushFront(i)
  PROVE  Paging'
<1> DEFINE N == persistedFileNames
<1>1. pc = "idle" /\ pc' = "idle" /\ ~shutDown /\ UNCHANGED <<now, destroying>>
  BY DEF PushFront, Paging, Lifecycle
<1>2. /\ page' = [page EXCEPT ![firstPage] = <<i>> \o @] /\ q' = <<i>> \o q
      /\ UNCHANGED <<firstPage, lastPage, persistedFileNames, shutDown, lastSeqNum, seqNumCount, files>>
  BY <1>1 DEF PushFront, Refused
<1>3. page \in [Slots -> Seq(Items)] /\ firstPage \in Slots /\ lastPage \in Slots
  BY DEF Paging, TypeOK
<1>4. page'[firstPage'] = <<i>> \o page[firstPage] /\ LastItems' = LastItems
  BY <1>2, <1>3 DEF LastItems
<1>5. Len(N) \in Int /\ Len(N) - 1 + 1 >= 0 /\ 1 \in Int
  BY <1>1, LiveFacts
<1>6. IsPaged(<<i>> \o q, disk, <<i>> \o page[firstPage], N, 1, Len(N), LastItems)
  BY <1>1, <1>5, LiveFacts, PagedPushFirst
<1>7. IsPaged(q', disk', page'[firstPage'], N', 1, Len(N'), LastItems')
  BY <1>2, <1>4, <1>6 DEF files
<1>8. NamesPast'
  BY <1>1, <1>2 DEF Paging, NamesPast, files
<1>9. Sorted(N') /\ DOMAIN disk' = NamesIn(N') /\ (firstPage' = lastPage' => N' = <<>>)
  BY <1>1, <1>2, LiveFacts DEF files
<1> QED  BY <1>1, <1>2, <1>7, <1>8, <1>9, LivePaging DEF files

\* The constructor takes over all files that there are, if it is given a list
\* that has them in order.
LEMMA TakeOverPaging ==
  ASSUME TypeOK, TypeOK', SlowRestart, Construct, NamesPast,
         QueueInFiles(persistedFileNames'), Sorted(persistedFileNames'),
         DOMAIN disk = NamesIn(persistedFileNames')
  PROVE  Paging'
<1>1. pc = "down" /\ pc' = "loadFirst" /\ disk' = disk /\ now' = now /\ q' = q
      /\ stateFile' = <<>> /\ ~stateFileExists' /\ ~shutDown'
      /\ firstPage' = 0 /\ lastPage' = 0 /\ page' = [s \in Slots |-> <<>>]
  BY DEF Construct
<1>2. page'[firstPage'] = <<>>
  BY <1>1 DEF Slots
<1>3. Lifecycle' /\ FilesListed' /\ NamesSorted'
  BY <1>1, <1>2 DEF Lifecycle, FilesListed, NamesSorted, Sorted
<1>4. NamesPast'
  <2>1. \A n \in DOMAIN disk : n[1] < now
    BY DEF Construct
  <2>2. \A n \in DOMAIN disk : n[1] \in Nat
    BY DEF TypeOK, Name
  <2> QED  BY <1>1, <2>1, <2>2 DEF NamesPast, TypeOK
<1>5. QueueOnPages' /\ DataPersisted'
  <2>1. QueueInFiles(persistedFileNames)'
    BY <1>1 DEF QueueInFiles, QueueIs
  <2> QED  BY <1>1, <2>1 DEF QueueOnPages, DataPersisted
<1> QED  BY <1>3, <1>4, <1>5 DEF Paging

\* The constructor's names are those of the STATE file, also when there is none.
LEMMA ConstructPaging ==
  ASSUME Paging, TypeOK', SlowRestart, Construct
  PROVE  Paging'
<1>0. pc = "down"
  BY DEF Construct
<1>1. persistedFileNames' = stateFile
  <2>1. CASE stateFileExists
    BY <2>1 DEF Construct
  <2>2. CASE ~stateFileExists
    <3>1. stateFile = <<>> /\ DOMAIN disk = {}
      BY <1>0, <2>2 DEF Paging, FilesListed, NamesIn
    <3>2. Cardinality(DOMAIN disk) = 0
      BY <3>1, FS_EmptySet
    <3>3. PICK s \in [1 .. Cardinality(DOMAIN disk) -> DOMAIN disk] : persistedFileNames' = s
      BY <2>2 DEF Construct, LoadOrphanedQueueFiles
    <3>4. persistedFileNames' \in Seq(Name) /\ DOMAIN persistedFileNames' = {}
      BY <3>2, <3>3 DEF TypeOK
    <3>5. Len(persistedFileNames') = 0
      BY <3>4, LenProperties
    <3> QED  BY <3>1, <3>4, <3>5, EmptySeq
  <2> QED  BY <2>1, <2>2
<1>2. TypeOK /\ NamesPast /\ QueueInFiles(stateFile) /\ Sorted(stateFile) /\ DOMAIN disk = NamesIn(stateFile)
  BY DEF Construct, Paging, DataPersisted, NamesSorted, FilesListed
<1> QED  BY <1>1, <1>2, TakeOverPaging

\* "0" can only be the first of a sorted list.
LEMMA ZeroFirst ==
  ASSUME NEW s \in Seq(Name), Sorted(s), s # <<>>
  PROVE  FileZero \notin NamesIn(Tail(s))
<1>1. /\ Len(s) \in Nat /\ DOMAIN s = 1 .. Len(s) /\ Tail(s) \in Seq(Name)
      /\ Len(Tail(s)) = Len(s) - 1 /\ Len(s) >= 1
      /\ \A k \in 1 .. Len(s) - 1 : Tail(s)[k] = s[k + 1]
  BY SortedTail, LenProperties
<1>2. ASSUME NEW k \in 1 .. Len(s) - 1 PROVE Tail(s)[k] # FileZero
  <2>1. Before(s[1], s[k + 1]) /\ s[1] \in Name
    BY <1>1 DEF Sorted
  <2>2. ~Before(s[1], FileZero)
    BY <2>1 DEF Before, FileZero, Name
  <2> QED  BY <1>1, <2>1, <2>2
<1>3. DOMAIN Tail(s) = 1 .. Len(s) - 1
  BY <1>1, LenProperties
<1> QED  BY <1>2, <1>3 DEF NamesIn

\* Loading the first page keeps the queue on its pages.
LEMMA LoadFirstPaging ==
  ASSUME Paging, TypeOK', LoadFirst
  PROVE  Paging'
<1> DEFINE N == persistedFileNames
<1>1. /\ pc = "loadFirst" /\ UNCHANGED <<stateFile, stateFileExists, now, destroying, q>>
      /\ firstPage = lastPage /\ page[firstPage] = <<>> /\ QueueInFiles(N)
      /\ N \in Seq(Name) /\ Sorted(N) /\ DOMAIN disk = NamesIn(N) /\ q \in Seq(Items)
      /\ page \in [Slots -> Seq(Items)] /\ firstPage \in Slots
      /\ stateFile = <<>> /\ ~stateFileExists /\ ~shutDown
  BY DEF LoadFirst, Paging, Lifecycle, TypeOK, QueueOnPages, NamesSorted, FilesListed
<1>2. CASE N = <<>>
  <2>1. pc' = "idle" /\ UNCHANGED <<memory, disk>>
    BY <1>2 DEF LoadFirst
  <2>2. q = <<>> /\ Len(N) = 0
    BY <1>1, <1>2 DEF QueueInFiles
  <2>3. IsPaged(q, disk, page[firstPage], N, 1, 0, <<>>)
    BY <1>1, <2>2, PagedAlone, EmptySeq, 0 = 1 - 1, 0 \in Int, 1 \in Int
  <2>4. LastItems' = <<>>
    BY <1>1, <2>1 DEF LastItems, memory
  <2>5. QueueOnPages' /\ DataPersisted'
    BY <1>1, <2>1, <2>2, <2>3, <2>4 DEF QueueOnPages, QueueIs, DataPersisted, memory
  <2>6. DOMAIN disk = {}
    BY <1>1, <1>2 DEF NamesIn
  <2>7. NamesPast'
    BY <1>1, <2>1, <2>6 DEF Paging, NamesPast, memory
  <2>8. Lifecycle'
    BY <1>1, <1>2, <2>1 DEF Lifecycle, memory
  <2>9. FilesListed' /\ NamesSorted'
    BY <1>1, <2>1 DEF Paging, FilesListed, NamesSorted, memory
  <2> QED  BY <2>5, <2>7, <2>8, <2>9 DEF Paging
<1>3. CASE N # <<>>
  <2>1. Head(N) \in DOMAIN disk
    BY <1>1, <1>3, FilePresent
  <2>2. /\ page' = [page EXCEPT ![firstPage] = disk[Head(N)]]
        /\ disk' = RemoveFile(disk, Head(N)) /\ N' = Tail(N)
        /\ \/ Len(N) = 1 /\ pc' = "idle"
           \/ Len(N) > 1 /\ pc' = "loadLast"
        /\ UNCHANGED <<firstPage, lastPage, shutDown, lastSeqNum, seqNumCount>>
    BY <1>3, <2>1 DEF LoadFirst
  <2>3. /\ Tail(N) \in Seq(Name) /\ Len(Tail(N)) = Len(N) - 1 /\ Head(N) = N[1] /\ Len(N) >= 1
        /\ \A k \in 1 .. Len(N) - 1 : Tail(N)[k] = N[k + 1]
        /\ Sorted(Tail(N)) /\ NamesIn(Tail(N)) = NamesIn(N) \ {Head(N)}
    BY <1>1, <1>3, SortedTail
  <2>4. DOMAIN disk' = NamesIn(N') /\ \A n \in DOMAIN disk' : n \in DOMAIN disk /\ disk'[n] = disk[n]
    BY <1>1, <2>2, <2>3 DEF RemoveFile
  <2>5. FileZero \notin DOMAIN disk'
    BY <1>1, <1>3, <2>2, <2>4, ZeroFirst
  <2>6. NamesPast'
    BY <1>1, <2>2, <2>4, <2>5, RemovalPast
  <2>7. page'[firstPage'] = disk[N[1]] /\ LastItems' = <<>>
    BY <1>1, <2>2, <2>3 DEF LastItems
  <2>8. FilesListed' /\ NamesSorted'
    BY <1>1, <2>2, <2>3, <2>4 DEF FilesListed, NamesSorted, Paging
  <2>9. Len(N) \in Nat /\ disk[N[1]] \in Seq(Items)
    BY <1>1, <2>1, <2>3, LenProperties DEF Paging, TypeOK
  <2>10. CASE Len(N) = 1
    <3>1. pc' = "idle" /\ N' = <<>> /\ Len(N') = 0
      BY <2>2, <2>3, <2>10, EmptySeq
    <3>2. q = disk[N[1]]
      BY <1>1, <1>3, <2>10 DEF QueueInFiles
    <3>3. IsPaged(q, disk', disk[N[1]], N', 1, 0, <<>>)
      <4>1. IsPaged(q, disk', q, N', 1, 0, <<>>)
        BY <1>1, PagedAlone, 0 = 1 - 1, 0 \in Int, 1 \in Int
      <4> QED  BY <3>2, <4>1
    <3>4. QueueOnPages' /\ DataPersisted'
      BY <1>1, <2>7, <3>1, <3>3 DEF QueueOnPages, QueueIs, DataPersisted
    <3>5. Lifecycle'
      BY <1>1, <2>2, <3>1 DEF Lifecycle
    <3> QED  BY <2>6, <2>8, <3>4, <3>5 DEF Paging
  <2>11. CASE Len(N) > 1
    <3>1. pc' = "loadLast" /\ N' # <<>>
      <4>1. Len(N) # 1 /\ Len(Tail(N)) # 0 /\ Len(<<>>) = 0
        BY <2>3, <2>9, <2>11
      <4> QED  BY <2>2, <4>1
    <3>2. IsPaged(q, disk, disk[N[1]], N, 2, Len(N) - 1, disk[N[Len(N)]])
      BY <1>1, <1>3, <2>11 DEF QueueInFiles, QueueIs
    <3>3. IsPaged(q, disk', disk[N[1]], N', 1, (Len(N) - 1) - 1, disk[N[Len(N)]])
      <4>1. Len(N) - 1 \in Int /\ Len(N) - 1 <= Len(N)
        BY <2>9
      <4> QED  BY <1>1, <1>3, <2>2, <3>2, <4>1, PagedDropFront
    <3>4. LastName' = N[Len(N)] /\ LastName' \in DOMAIN disk' /\ disk'[LastName'] = disk[N[Len(N)]]
          /\ (Len(N) - 1) - 1 = Len(N') - 1
      <4>1. Len(N') = Len(N) - 1 /\ Len(N) - 1 \in 1 .. Len(N) - 1 /\ (Len(N) - 1) + 1 = Len(N)
        BY <2>2, <2>3, <2>9, <2>11
      <4>2. LastName' = N[Len(N)]
        BY <2>2, <2>3, <4>1 DEF LastName
      <4>3. LastName' \in NamesIn(N')
        <5>1. DOMAIN N' = 1 .. Len(N) - 1
          BY <2>2, <2>3, LenProperties
        <5> QED  BY <4>1, <5>1 DEF NamesIn, LastName
      <4> QED  BY <2>4, <4>1, <4>2, <4>3
    <3>5. QueueOnPages' /\ DataPersisted'
      BY <1>1, <2>7, <3>1, <3>3, <3>4 DEF QueueOnPages, QueueIs, DataPersisted
    <3>6. Lifecycle'
      BY <1>1, <2>2, <3>1 DEF Lifecycle
    <3> QED  BY <2>6, <2>8, <3>5, <3>6 DEF Paging
  <2> QED  BY <2>2, <2>10, <2>11
<1> QED  BY <1>2, <1>3

\* Loading the last page keeps the queue on its pages.
LEMMA LoadLastPaging ==
  ASSUME Paging, TypeOK', LoadLast
  PROVE  Paging'
<1> DEFINE N == persistedFileNames
<1>1. /\ pc = "loadLast" /\ UNCHANGED <<stateFile, stateFileExists, now, destroying, q>>
      /\ firstPage = lastPage /\ N # <<>> /\ LastName \in DOMAIN disk
      /\ IsPaged(q, disk, page[firstPage], N, 1, Len(N) - 1, disk[LastName])
      /\ N \in Seq(Name) /\ Sorted(N) /\ DOMAIN disk = NamesIn(N)
      /\ page \in [Slots -> Seq(Items)] /\ firstPage \in Slots
      /\ stateFile = <<>> /\ ~stateFileExists /\ ~shutDown
  BY DEF LoadLast, Paging, Lifecycle, TypeOK, QueueOnPages, QueueIs, NamesSorted, FilesListed
<1>2. /\ lastPage' = Other(firstPage)
      /\ page' = [page EXCEPT ![Other(firstPage)] = disk[LastName]]
      /\ disk' = RemoveFile(disk, LastName)
      /\ N' = SubSeq(N, 1, Len(N) - 1)
      /\ pc' = "idle"
      /\ UNCHANGED <<firstPage, shutDown, lastSeqNum, seqNumCount>>
  BY <1>1 DEF LoadLast
<1>3. /\ Len(N') = Len(N) - 1 /\ Len(N) >= 1
      /\ Sorted(N') /\ NamesIn(N') = NamesIn(N) \ {N[Len(N)]}
  BY <1>1, <1>2, SortedFront
<1>4. DOMAIN disk' = NamesIn(N') /\ DOMAIN disk' \subseteq DOMAIN disk
  BY <1>1, <1>2, <1>3 DEF RemoveFile, LastName
<1>5. FileZero \notin DOMAIN disk'
  BY <1>1, <1>4 DEF Paging, NamesPast
<1>6. NamesPast'
  BY <1>1, <1>2, <1>4, <1>5, RemovalPast
<1>7. /\ Other(firstPage) \in Slots /\ Other(firstPage) # firstPage
      /\ page'[firstPage'] = page[firstPage] /\ page'[lastPage'] = disk[LastName] /\ firstPage' # lastPage'
  BY <1>1, <1>2 DEF Other, Slots
<1>8. IsPaged(q, disk', page[firstPage], N', 1, Len(N'), disk[LastName])
  BY <1>1, <1>2, <1>3, PagedDropLast DEF LastName
<1>9. LastItems' = disk[LastName]
  BY <1>7 DEF LastItems
<1>10. QueueOnPages' /\ DataPersisted'
  BY <1>1, <1>2, <1>7, <1>8, <1>9 DEF QueueOnPages, QueueIs, DataPersisted
<1>11. Lifecycle' /\ FilesListed' /\ NamesSorted'
  BY <1>1, <1>2, <1>3, <1>4, <1>7 DEF Lifecycle, FilesListed, NamesSorted, Paging
<1> QED  BY <1>6, <1>10, <1>11 DEF Paging

\* shutdown() begins by setting the flag only.
LEMMA ShutdownPaging ==
  ASSUME Paging, TypeOK', NEW byDestructor, Shutdown(byDestructor)
  PROVE  Paging'
<1>1. /\ pc = "idle" /\ pc' = "writeFirst" /\ shutDown'
      /\ UNCHANGED <<page, firstPage, lastPage, persistedFileNames, lastSeqNum, seqNumCount,
                     disk, stateFile, stateFileExists, now, q>>
  BY DEF Shutdown, files
<1>2. Lifecycle' /\ FilesListed' /\ NamesSorted' /\ NamesPast'
  BY <1>1 DEF Paging, Lifecycle, FilesListed, NamesSorted, NamesPast
<1>3. LastItems' = LastItems
  BY <1>1 DEF LastItems
<1>4. QueueOnPages' /\ DataPersisted'
  BY <1>1, <1>3 DEF Paging, QueueOnPages, QueueIs, DataPersisted
<1> QED  BY <1>2, <1>4 DEF Paging

\* Writing the first page as "0" puts its name before all others.
LEMMA WriteFirstPaging ==
  ASSUME Paging, TypeOK', WriteFirst
  PROVE  Paging'
<1> DEFINE N == persistedFileNames
<1>1. /\ pc = "writeFirst" /\ pc' = "writeLast"
      /\ UNCHANGED <<page, firstPage, lastPage, shutDown, lastSeqNum, seqNumCount,
                     stateFile, stateFileExists, now, destroying, q>>
      /\ N \in Seq(Name) /\ Sorted(N) /\ DOMAIN disk = NamesIn(N) /\ DOMAIN disk \subseteq Name
      /\ IsPaged(q, disk, page[firstPage], N, 1, Len(N), LastItems)
      /\ FileZero \notin DOMAIN disk /\ Len(N) \in Nat
      /\ stateFile = <<>> /\ ~stateFileExists /\ shutDown
      /\ (firstPage = lastPage => N = <<>>)
  BY LenProperties
     DEF WriteFirst, Paging, Lifecycle, TypeOK, QueueOnPages, QueueIs, NamesSorted, FilesListed, NamesPast
<1>2. LastItems' = LastItems
  BY <1>1 DEF LastItems
<1>3. CASE page[firstPage] = <<>>
  <2>1. N' = N /\ disk' = disk
    BY <1>3 DEF WriteFirst
  <2>2. ~FirstWritten'
    <3>1. N # <<>> => Head(N) \in DOMAIN disk
      BY <1>1, FilePresent
    <3> QED  BY <1>1, <2>1, <3>1 DEF FirstWritten
  <2>3. QueueOnPages' /\ DataPersisted'
    BY <1>1, <1>2, <1>3, <2>1, <2>2 DEF QueueOnPages, QueueIs, DataPersisted
  <2>4. Lifecycle' /\ FilesListed' /\ NamesSorted' /\ NamesPast'
    BY <1>1, <2>1 DEF Paging, Lifecycle, FilesListed, NamesSorted, NamesPast
  <2> QED  BY <2>3, <2>4 DEF Paging
<1>4. CASE page[firstPage] # <<>>
  <2>1. N' = <<FileZero>> \o N /\ disk' = WriteFile(disk, FileZero, page[firstPage])
    BY <1>4 DEF WriteFirst, PersistToFile, NamesWith
  <2>2. FileZero \in Name /\ \A m \in NamesIn(N) : Before(FileZero, m)
    <3>1. \A m \in NamesIn(N) : m[1] \in 1 .. now /\ now \in Nat
      BY <1>1 DEF Paging, NamesPast, TypeOK
    <3>2. FileZero \in Name /\ FileZero[1] = 0
      BY DEF FileZero, Name
    <3> QED  BY <3>1, <3>2 DEF Before
  <2>3. /\ N' \in Seq(Name) /\ Len(N') = Len(N) + 1 /\ N'[1] = FileZero
        /\ Sorted(N') /\ NamesIn(N') = NamesIn(N) \cup {FileZero}
    BY <1>1, <2>1, <2>2, SortedPrepend
  <2>4. IsPaged(q, disk', page[firstPage], N', 2, Len(N) + 1, LastItems)
    BY <1>1, <2>1, <2>2, PagedPrepend
  <2>5. DOMAIN disk' = DOMAIN disk \cup {FileZero} /\ disk'[FileZero] = page[firstPage]
    BY <2>1 DEF WriteFile
  <2>6. FirstWritten'
    <3>1. N' # <<>> /\ Head(N') = N'[1]
      <4>1. Len(N') # 0 /\ Len(<<>>) = 0
        BY <1>1, <2>3
      <4>2. N' # <<>>
        BY <4>1
      <4> QED  BY <2>3, <4>2, SortedTail
    <3> QED  BY <2>3, <3>1 DEF FirstWritten
  <2>7. QueueOnPages' /\ DataPersisted'
    BY <1>1, <1>2, <2>3, <2>4, <2>5, <2>6 DEF QueueOnPages, QueueIs, DataPersisted
  <2>8. FilesListed' /\ NamesSorted'
    BY <1>1, <2>3, <2>5 DEF Paging, FilesListed, NamesSorted
  <2>9. NamesPast'
    <3>1. now' > 0 /\ FileZero[1] # now'
      BY <1>1 DEF Paging, NamesPast, TypeOK, FileZero
    <3> QED  BY <1>1, <2>5, <3>1 DEF Paging, NamesPast
  <2>10. Lifecycle'
    <3>1. firstPage = lastPage => N' = <<FileZero>>
      BY <1>1, <2>1, <2>2, ConcatEmptySeq, <<FileZero>> \in Seq(Name)
    <3> QED  BY <1>1, <3>1 DEF Lifecycle
  <2> QED  BY <2>7, <2>8, <2>9, <2>10 DEF Paging
<1> QED  BY <1>3, <1>4

\* After the last page is written, or found to be the first page, all of the
\* queue is in the listed files.
LEMMA WriteLastPaging ==
  ASSUME Paging, TypeOK', WriteLast
  PROVE  Paging'
<1> DEFINE N == persistedFileNames
<1>1. /\ pc = "writeLast" /\ pc' = "writeState"
      /\ UNCHANGED <<page, firstPage, lastPage, shutDown, stateFile, stateFileExists, now, destroying, q>>
      /\ N \in Seq(Name) /\ Sorted(N) /\ DOMAIN disk = NamesIn(N) /\ DOMAIN disk \subseteq Name
      /\ q \in Seq(Items) /\ page[lastPage] \in Seq(Items)
      /\ (FirstWritten => IsPaged(q, disk, disk[FileZero], N, 2, Len(N), LastItems))
      /\ (~FirstWritten => IsPaged(q, disk, <<>>, N, 1, Len(N), LastItems))
      /\ Len(N) \in Nat /\ DOMAIN N = 1 .. Len(N)
      /\ stateFile = <<>> /\ ~stateFileExists /\ shutDown
      /\ (firstPage = lastPage => N = <<>> \/ N = <<FileZero>>)
  BY LenProperties
     DEF WriteLast, Paging, Lifecycle, TypeOK, QueueOnPages, QueueIs, NamesSorted, FilesListed
<1>2. /\ \A n \in DOMAIN disk : disk[n] \in Seq(Items)
      /\ \A n \in NamesIn(N) : n \in DOMAIN disk
  BY <1>1 DEF Paging, TypeOK
<1>3. N # <<>> => Head(N) = N[1] /\ Len(N) >= 1 /\ N[1] \in DOMAIN disk
  BY <1>1, SortedTail, FilePresent
<1>4. CASE firstPage = lastPage
  <2>1. N' = N /\ disk' = disk /\ lastSeqNum' = lastSeqNum /\ seqNumCount' = seqNumCount
    BY <1>4 DEF WriteLast
  <2>2. LastItems = <<>>
    BY <1>4 DEF LastItems
  <2>3. QueueInFiles(N)
    <3>1. \A k \in DOMAIN N : N[k] \in DOMAIN disk
      BY <1>1 DEF NamesIn
    <3>2. CASE N = <<>>
      <4>1. ~FirstWritten /\ Len(N) = 0
        BY <3>2 DEF FirstWritten
      <4>2. IsPaged(q, disk, <<>>, N, 1, 0, <<>>)
        BY <1>1, <2>2, <4>1
      <4>3. q = <<>>
        BY <1>1, <4>2, PagedAlone, EmptySeq, 0 = 1 - 1, 0 \in Int, 1 \in Int
      <4> QED  BY <3>1, <3>2, <4>3 DEF QueueInFiles
    <3>3. CASE N = <<FileZero>>
      <4>1. N # <<>> /\ Len(N) = 1 /\ N[1] = FileZero
        BY <3>3
      <4>2. FirstWritten
        BY <1>3, <4>1 DEF FirstWritten
      <4>3. IsPaged(q, disk, disk[FileZero], N, 2, 1, <<>>) /\ disk[FileZero] \in Seq(Items)
        BY <1>1, <1>2, <1>3, <2>2, <4>1, <4>2
      <4>4. q = disk[FileZero]
        BY <1>1, <4>3, PagedAlone, 1 = 2 - 1, 2 \in Int, 1 \in Int
      <4> QED  BY <3>1, <4>1, <4>4 DEF QueueInFiles
    <3> QED  BY <1>1, <1>4, <3>2, <3>3
  <2>4. QueueOnPages' /\ DataPersisted'
    BY <1>1, <2>1, <2>3 DEF QueueOnPages, QueueInFiles, QueueIs, DataPersisted
  <2>5. Lifecycle' /\ FilesListed' /\ NamesSorted' /\ NamesPast'
    BY <1>1, <2>1 DEF Paging, Lifecycle, FilesListed, NamesSorted, NamesPast
  <2> QED  BY <2>4, <2>5 DEF Paging
<1>5. CASE firstPage # lastPage
  <2>1. PersistToFile(SeqName, page[lastPage]) /\ SeqNumber
    BY <1>5 DEF WriteLast
  <2>2. LastItems = page[lastPage]
    BY <1>5 DEF LastItems
  <2>3. /\ SeqName \notin DOMAIN disk
        /\ N' = Append(N, SeqName)
        /\ disk' = WriteFile(disk, SeqName, page[lastPage])
        /\ disk'[SeqName] = page[lastPage] /\ \A n \in DOMAIN disk : disk'[n] = disk[n]
        /\ Len(N') = Len(N) + 1 /\ N'[Len(N) + 1] = SeqName
        /\ \A k \in 1 .. Len(N) : N'[k] = N[k]
        /\ Sorted(N') /\ DOMAIN disk' = NamesIn(N')
        /\ SeqName \notin NamesIn(N)
        /\ \A n \in DOMAIN disk' : n = FileZero \/ n[1] \in 1 .. now'
        /\ \A n \in DOMAIN disk' : n[1] = now' => lastSeqNum' = now' /\ n[2] <= seqNumCount'
    BY <1>1, <2>1, PersistNew
  <2>4. SeqName \in Name
    BY <1>1, SeqNameLast
  <2>5. QueueInFiles(N)'
    <3>1. \A k \in DOMAIN N' : N'[k] \in DOMAIN disk'
      BY <2>3 DEF NamesIn
    <3>2. N'[Len(N')] = SeqName /\ disk'[N'[Len(N')]] = page[lastPage] /\ Len(N') - 1 = Len(N)
      BY <1>1, <2>3
    <3>3. CASE FirstWritten
      <4>1. N # <<>> /\ N[1] = FileZero /\ Len(N) >= 1 /\ FileZero \in DOMAIN disk
        BY <1>3, <3>3 DEF FirstWritten
      <4>2. N'[1] = FileZero /\ disk'[N'[1]] = disk[FileZero] /\ Len(N') > 1
        BY <1>1, <2>3, <4>1
      <4>3. IsPaged(q, disk, disk[FileZero], N, 2, Len(N), page[lastPage])
        BY <1>1, <2>2, <3>3
      <4>4. IsPaged(q, disk', disk[FileZero], N', 2, Len(N), page[lastPage])
        BY <1>1, <2>3, <2>4, <4>3, PagedAppend, 2 \in Nat, 2 >= 1
      <4> QED  BY <1>1, <3>1, <3>2, <4>2, <4>4 DEF QueueInFiles, QueueIs
    <3>4. CASE ~FirstWritten
      <4>1. IsPaged(q, disk, <<>>, N, 1, Len(N), page[lastPage])
        BY <1>1, <2>2, <3>4
      <4>2. IsPaged(q, disk', <<>>, N', 1, Len(N), page[lastPage])
        BY <1>1, <2>3, <2>4, <4>1, PagedAppend, 1 \in Nat, 1 >= 1
      <4>3. CASE N = <<>>
        <5>1. Len(N) = 0 /\ Len(N') = 1
          BY <2>3, <4>3
        <5>2. q = page[lastPage]
          <6>1. IsPaged(q, disk', <<>>, N', 1, 0, page[lastPage])
            BY <4>2, <5>1
          <6> QED  BY <1>1, <6>1, PagedLastAlone, 0 = 1 - 1, 0 \in Int, 1 \in Int
        <5> QED  BY <1>1, <3>1, <3>2, <5>1, <5>2 DEF QueueInFiles
      <4>4. CASE N # <<>>
        <5>1. 1 <= Len(N) /\ Len(N) \in Int /\ Len(N') > 1 /\ 1 \in Int /\ 1 + 1 = 2
          BY <1>1, <1>3, <2>3, <4>4
        <5>2. IsPaged(q, disk', disk'[N'[1]], N', 1 + 1, Len(N), page[lastPage])
          BY <1>1, <4>2, <5>1, PagedFileToFirst
        <5> QED  BY <1>1, <3>1, <3>2, <5>1, <5>2 DEF QueueInFiles, QueueIs
      <4> QED  BY <4>3, <4>4
    <3> QED  BY <3>3, <3>4
  <2>6. QueueOnPages' /\ DataPersisted'
    BY <1>1, <2>5 DEF QueueOnPages, DataPersisted
  <2>7. Lifecycle' /\ FilesListed' /\ NamesSorted'
    BY <1>1, <2>3 DEF Paging, Lifecycle, FilesListed, NamesSorted
  <2>8. NamesPast'
    BY <1>1, <2>3 DEF Paging, NamesPast
  <2> QED  BY <2>6, <2>7, <2>8 DEF Paging
<1> QED  BY <1>4, <1>5

\* The STATE file takes the names, and with them the queue.
LEMMA WriteStatePaging ==
  ASSUME Paging, TypeOK', WriteState, destroying
  PROVE  Paging'
<1> DEFINE N == persistedFileNames
<1>1. /\ pc = "writeState" /\ destroying /\ ~destroying'
      /\ UNCHANGED <<disk, now, q>> /\ QueueInFiles(N)
      /\ Sorted(N) /\ DOMAIN disk = NamesIn(N) /\ stateFile = <<>> /\ ~stateFileExists
  BY DEF WriteState, Paging, Lifecycle, QueueOnPages, NamesSorted, FilesListed
<1>2. NoObject("ok")
  BY <1>1 DEF WriteState
<1>3. stateFile' = N /\ (stateFileExists' <=> N # <<>>)
  BY <1>1 DEF WriteState
<1>4. pc' = "down" /\ N' = <<>> /\ ~shutDown'
  BY <1>2 DEF NoObject
<1>5. QueueOnPages' /\ DataPersisted'
  BY <1>1, <1>3, <1>4 DEF QueueOnPages, QueueInFiles, QueueIs, DataPersisted
<1>6. Lifecycle' /\ FilesListed' /\ NamesSorted' /\ NamesPast'
  BY <1>1, <1>3, <1>4 DEF Paging, Lifecycle, FilesListed, NamesSorted, NamesPast, Sorted
<1> QED  BY <1>5, <1>6 DEF Paging

\* The clock may pass at any moment.
LEMMA TickPaging ==
  ASSUME Paging, TypeOK', Tick
  PROVE  Paging'
<1>1. now' = now + 1 /\ UNCHANGED <<page, firstPage, lastPage, persistedFileNames, shutDown, lastSeqNum,
                                    seqNumCount, disk, stateFile, stateFileExists, pc, destroying, q>>
  BY DEF Tick, memory, files
<1>2. NamesPast'
  <2>1. now \in Nat /\ now > 0 /\ FileZero[1] = 0
    BY DEF Paging, TypeOK, NamesPast, FileZero
  <2>2. \A n \in DOMAIN disk : n = FileZero \/ (n[1] \in 1 .. now + 1 /\ n[1] # now + 1)
    BY <2>1 DEF Paging, NamesPast
  <2> QED  BY <1>1, <2>1, <2>2 DEF Paging, NamesPast
<1>3. Lifecycle' /\ FilesListed' /\ NamesSorted'
  BY <1>1 DEF Paging, Lifecycle, FilesListed, NamesSorted
<1>4. LastItems' = LastItems /\ LastName' = LastName /\ FirstWritten' = FirstWritten
  BY <1>1 DEF LastItems, LastName, FirstWritten
<1>5. QueueOnPages' /\ DataPersisted'
  BY <1>1, <1>4 DEF Paging, QueueOnPages, QueueInFiles, QueueIs, DataPersisted
<1> QED  BY <1>2, <1>3, <1>5 DEF Paging

\* A step that leaves pages and files alone, begun and ended between calls.
LEMMA QuietPaging ==
  ASSUME Paging, TypeOK', pc \in {"idle", "clear"}, pc' \in {"idle", "clear"},
         UNCHANGED <<memory, files, now, destroying, q>>
  PROVE  Paging'
<1>1. LastItems' = LastItems
  BY DEF LastItems, memory
<1>2. NamesPast'
  BY DEF Paging, NamesPast, memory, files
<1> QED  BY <1>1, <1>2, LiveFacts, LivePaging DEF memory, files

\* What the queue itself does not take part in leaves its pages alone.
LEMMA StutterPaging ==
  ASSUME Paging, TypeOK', UNCHANGED <<memory, files, now, pc, q>>
  PROVE  Paging'
<1> USE DEF memory, files
<1>1. Lifecycle' /\ FilesListed' /\ NamesSorted' /\ NamesPast'
  BY DEF Paging, Lifecycle, FilesListed, NamesSorted, NamesPast
<1>2. LastItems' = LastItems /\ LastName' = LastName /\ FirstWritten' = FirstWritten
  BY DEF LastItems, LastName, FirstWritten
<1>3. QueueOnPages' /\ DataPersisted'
  BY <1>2 DEF Paging, QueueOnPages, QueueInFiles, QueueIs, DataPersisted
<1> QED  BY <1>1, <1>3 DEF Paging

\* The steps when shutdown() is only ever on behalf of the destructor.
OrderlyNext ==
  \/ Tick \/ (\E i \in Items : PushBack(i) \/ PushFront(i))
  \/ PopFront \/ Front \/ ClearCall \/ Construct \/ Shutdown(TRUE) \/ CallStep

\* With them no call meets a queue that is shut down.
LEMMA OrderlyPaging ==
  ASSUME SlowRestart, PagingInv, OrderlyNext \/ UNCHANGED vars
  PROVE  PagingInv'
<1>1. Paging /\ TypeOK'
  BY NextType DEF PagingInv, Paging, OrderlyNext, Next
<1>2. CASE Tick
  <2>1. UNCHANGED <<destroying, shutDown>>
    BY <1>2 DEF Tick, memory
  <2> QED  BY <1>1, <1>2, <2>1, TickPaging DEF PagingInv
<1>3. CASE \E i \in Items : PushBack(i) \/ PushFront(i)
  <2>1. UNCHANGED <<destroying, shutDown>>
    BY <1>3 DEF PushBack, PushBackItem, PushFront, Refused, memory
  <2> QED  BY <1>1, <1>3, <2>1, PushBackPaging, PushFrontPaging DEF PagingInv
<1>4. CASE PopFront
  <2>1. pc = "idle" /\ pc' = "idle" /\ UNCHANGED <<now, destroying>> /\ PopItem(FALSE)
    BY <1>1, <1>4 DEF PopFront, Refused, Paging, Lifecycle
  <2>2. UNCHANGED shutDown
    BY <2>1 DEF PopItem, SetFirstPage, LoadFrontFileFails
  <2> QED  BY <1>1, <2>1, <2>2, PopPaging DEF PagingInv
<1>5. CASE Front
  <2>1. UNCHANGED <<destroying, shutDown>>
    BY <1>5 DEF Front, FrontItem, SetFirstPage, LoadFrontFileFails
  <2> QED  BY <1>1, <1>5, <2>1, FrontPaging DEF PagingInv
<1>6. CASE ClearCall
  BY <1>1, <1>6, QuietPaging DEF ClearCall, PagingInv, memory
<1>7. CASE Construct
  <2>1. ~destroying' /\ ~shutDown'
    BY <1>1, <1>7 DEF Construct, PagingInv, Paging, Lifecycle
  <2> QED  BY <1>1, <1>7, <2>1, ConstructPaging DEF PagingInv
<1>9. CASE Shutdown(TRUE)
  BY <1>1, <1>9, ShutdownPaging DEF Shutdown, PagingInv
<1>10. CASE ClearStep
  <2>1. pc = "clear" /\ pc' \in {"idle", "clear"} /\ ~shutDown /\ UNCHANGED <<now, destroying>>
    BY <1>1, <1>10 DEF ClearStep, Paging, Lifecycle
  <2>2. CASE PopItem(TRUE)
    <3>1. UNCHANGED shutDown
      BY <2>2 DEF PopItem, SetFirstPage, LoadFrontFileFails
    <3> QED  BY <1>1, <2>1, <2>2, <3>1, PopPaging DEF PagingInv
  <2>3. CASE UNCHANGED <<memory, files, q>>
    BY <1>1, <2>1, <2>3, QuietPaging DEF PagingInv, memory
  <2> QED  BY <1>10, <2>2, <2>3 DEF ClearStep, Refused
<1>11. CASE LoadFirst
  <2>1. ~destroying' /\ pc' \in {"idle", "loadLast", "down"}
    BY <1>1, <1>11 DEF LoadFirst, NoObject, PagingInv, Paging, Lifecycle
  <2> QED  BY <1>1, <1>11, <2>1, LoadFirstPaging DEF PagingInv, Paging, Lifecycle
<1>12. CASE LoadLast
  <2>1. ~destroying' /\ pc' \in {"idle", "down"}
    BY <1>1, <1>12 DEF LoadLast, NoObject, PagingInv, Paging, Lifecycle
  <2> QED  BY <1>1, <1>12, <2>1, LoadLastPaging DEF PagingInv, Paging, Lifecycle
<1>13. CASE WriteFirst
  BY <1>1, <1>13, WriteFirstPaging DEF WriteFirst, PagingInv
<1>14. CASE WriteLast
  BY <1>1, <1>14, WriteLastPaging DEF WriteLast, PagingInv
<1>15. CASE WriteState
  <2>1. destroying /\ ~destroying' /\ ~shutDown'
    BY <1>1, <1>15 DEF WriteState, NoObject, PagingInv, Paging, Lifecycle
  <2> QED  BY <1>1, <1>15, <2>1, WriteStatePaging DEF PagingInv
<1>16. CASE UNCHANGED vars
  BY <1>1, <1>16, StutterPaging DEF vars, PagingInv, memory
<1> QED
  BY <1>2, <1>3, <1>4, <1>5, <1>6, <1>7, <1>9, <1>10, <1>11, <1>12, <1>13, <1>14, <1>15, <1>16
  DEF OrderlyNext, CallStep

\* In orderly use there are no others.
LEMMA NextPaging ==
  ASSUME OrderlyUse
  PROVE  PagingInv /\ [Next]_vars => PagingInv'
<1>1. ~Shutdown(FALSE)
  BY DEF Shutdown, OrderlyUse
<1>2. [Next]_vars => OrderlyNext \/ UNCHANGED vars
  BY <1>1 DEF Next, OrderlyNext
<1> QED  BY <1>2, OrderlyPaging DEF OrderlyUse

\* The queue is what its pages in memory and on disk hold, in order, at every
\* step of every call, for every page size and every number of pages.
THEOREM PagingCorrect ==
  ASSUME OrderlyUse
  PROVE  Spec => []PagingInv
<1>1. Init => PagingInv
  BY InitPaging
<1>2. PagingInv /\ [Next]_vars => PagingInv'
  BY NextPaging
<1> QED  BY <1>1, <1>2, PTL DEF Spec

\* What is in memory and in the page files is the queue.
THEOREM QueueOnPagesCorrect ==
  ASSUME OrderlyUse
  PROVE  Spec => []QueueOnPages
<1>1. PagingInv => QueueOnPages
  BY DEF PagingInv, Paging
<1> QED  BY <1>1, PagingCorrect, PTL

\* What the destructor leaves behind is the queue, for the next constructor.
THEOREM DataPersistedCorrect ==
  ASSUME OrderlyUse
  PROVE  Spec => []DataPersisted
<1>1. PagingInv => DataPersisted
  BY DEF PagingInv, Paging
<1> QED  BY <1>1, PagingCorrect, PTL

\* size() counts the items although it only multiplies the number of files.
LEMMA SizeOfPages == Paging => SizeIsLength
<1> SUFFICES ASSUME Paging, pc \in {"idle", "clear"}
             PROVE  Size = Len(q) /\ (Empty <=> q = <<>>)
  BY DEF SizeIsLength
<1> DEFINE N == persistedFileNames
           n == Len(N)
           c == n * MaxItemsPerPage
           f == Len(page[firstPage])
           l == Len(LastItems)
<1>1. /\ page[firstPage] \in Seq(Items) /\ page[lastPage] \in Seq(Items) /\ LastItems \in Seq(Items)
      /\ N \in Seq(Name) /\ n \in Nat /\ q \in Seq(Items) /\ (firstPage = lastPage => N = <<>>)
  BY LiveFacts
<1>2. f \in Nat /\ l \in Nat /\ Len(q) \in Nat /\ c \in Nat
  BY <1>1, LenProperties, FullPages
<1>3. Len(q) = f + (n - 1 + 1) * MaxItemsPerPage + l
  BY LiveFacts DEF IsPaged
<1>4. n - 1 + 1 = n
  BY <1>1
<1>5. Len(q) = f + c + l
  BY <1>3, <1>4
<1>6. l = IF firstPage = lastPage THEN 0 ELSE Len(page[lastPage])
  BY DEF LastItems
<1>7. Size = f + c + l
  BY <1>6 DEF Size
<1>8. c = 0 <=> n = 0
  <2>1. CASE n = 0
    BY <2>1, PageSizeAssumption
  <2>2. CASE n # 0
    <3>1. n - 1 \in Nat /\ n = (n - 1) + 1 /\ MaxItemsPerPage \in Nat /\ MaxItemsPerPage > 0
      BY <1>1, <2>2, PageSizeAssumption
    <3>2. ((n - 1) + 1) * MaxItemsPerPage = (n - 1) * MaxItemsPerPage + MaxItemsPerPage
          /\ (n - 1) * MaxItemsPerPage \in Nat
      BY <3>1, PageArithmetic, FullPages
    <3> QED  BY <2>2, <3>1, <3>2
  <2> QED  BY <2>1, <2>2
<1>9. Len(q) = 0 <=> f = 0 /\ n = 0 /\ l = 0
  <2> HIDE DEF c, f, l, n
  <2> QED  BY <1>1, <1>2, <1>5, <1>8
<1>10. (q = <<>> <=> Len(q) = 0) /\ (N = <<>> <=> n = 0) /\ (page[firstPage] = <<>> <=> f = 0)
       /\ (LastItems = <<>> <=> l = 0)
  BY <1>1, EmptySeq
<1>11. Empty <=> page[firstPage] = <<>> /\ LastItems = <<>> /\ N = <<>>
  BY DEF Empty, LastItems
<1> QED  BY <1>5, <1>7, <1>9, <1>10, <1>11

\* Between calls size() is the number of items, and empty() tells whether
\* there is none.
THEOREM SizeCorrect ==
  ASSUME OrderlyUse
  PROVE  Spec => []SizeIsLength
<1>1. PagingInv => SizeIsLength
  BY SizeOfPages DEF PagingInv
<1> QED  BY <1>1, PagingCorrect, PTL

---------------------------------------------------------------------------
\* A page file is written under a name no page file has.
PagesKept == \A n \in DOMAIN disk : n \in DOMAIN disk' => disk'[n] = disk[n]

\* Removing a page file once it is loaded changes no other page file.
LEMMA RemovalKeeps ==
  ASSUME NEW n, disk' = RemoveFile(disk, n)
  PROVE  PagesKept
  BY DEF RemoveFile, PagesKept

\* Neither does persistToFile() under a name that no page file has.
LEMMA NewPageKeeps ==
  ASSUME NEW n, NEW p, n \notin DOMAIN disk, disk' = WriteFile(disk, n, p)
  PROVE  PagesKept
  BY DEF WriteFile, PagesKept

\* Taking an item from the front writes no page file.
LEMMA PopKeeps ==
  ASSUME NEW clearing \in BOOLEAN, PopItem(clearing)
  PROVE  PagesKept
<1>1. CASE UNCHANGED files
  BY <1>1 DEF PagesKept, files
<1>2. ASSUME NEW p, SetFirstPage(p) PROVE PagesKept
  BY <1>2, RemovalKeeps DEF SetFirstPage, PagesKept
<1> QED  BY <1>1, <1>2 DEF PopItem, LoadFrontFileFails

\* Of all the steps of the queue only pushBack() and shutdown() write page files,
\* and the names they write to are new.
LEMMA NextKeeps ==
  ASSUME Paging, Next
  PROVE  PagesKept
<1>1. CASE disk' = disk
  BY <1>1 DEF PagesKept
<1>2. ASSUME NEW i \in Items, PushBack(i) PROVE PagesKept
  <2>1. CASE PersistToFile(SeqName, page[lastPage])
    <3>1. SeqName \notin DOMAIN disk
      <4>1. SeqName \in Name /\ \A n \in DOMAIN disk : Before(n, SeqName)
        BY <1>2, SeqNameLast DEF PushBack
      <4> QED  BY <4>1 DEF Before, Name
    <3> QED  BY <2>1, <3>1, NewPageKeeps DEF PersistToFile
  <2> QED  BY <1>1, <1>2, <2>1 DEF PushBack, PushBackItem, Refused, files
<1>3. CASE PopFront
  BY <1>1, <1>3, PopKeeps DEF PopFront, Refused, files
<1>4. CASE Front
  <2>1. CASE SetFirstPage(FrontPage)
    BY <2>1, RemovalKeeps DEF SetFirstPage, PagesKept
  <2> QED  BY <1>1, <1>4, <2>1 DEF Front, FrontItem, LoadFrontFileFails, files
<1>5. CASE ClearStep
  BY <1>1, <1>5, PopKeeps DEF ClearStep, Refused, files
<1>6. CASE LoadFirst
  BY <1>1, <1>6, RemovalKeeps DEF LoadFirst
<1>7. CASE LoadLast
  BY <1>1, <1>7, RemovalKeeps DEF LoadLast
<1>8. CASE WriteFirst
  <2>1. FileZero \notin DOMAIN disk
    BY <1>8 DEF WriteFirst, Paging, NamesPast
  <2> QED  BY <1>1, <1>8, <2>1, NewPageKeeps DEF WriteFirst, PersistToFile
<1>9. CASE WriteLast
  <2>1. SeqName \notin DOMAIN disk
    <3>1. SeqName \in Name /\ \A n \in DOMAIN disk : Before(n, SeqName)
      BY <1>9, SeqNameLast DEF WriteLast
    <3> QED  BY <3>1 DEF Before, Name
  <2> QED  BY <1>1, <1>9, <2>1, NewPageKeeps DEF WriteLast, PersistToFile
<1>10. CASE Tick \/ (\E i \in Items : PushFront(i)) \/ ClearCall \/ Construct
           \/ (\E fromDestructor \in BOOLEAN : Shutdown(fromDestructor)) \/ WriteState
  BY <1>1, <1>10
  DEF Tick, PushFront, Refused, ClearCall, Construct, Shutdown, WriteState, files
<1> QED
  BY <1>2, <1>3, <1>4, <1>5, <1>6, <1>7, <1>8, <1>9, <1>10 DEF Next, CallStep

\* seqNumber() never hands out the name of a page file that still exists, in
\* whatever second a page is filed.
THEOREM NeverOverwritesPageCorrect ==
  ASSUME OrderlyUse
  PROVE  Spec => NeverOverwritesPage
<1>1. PagingInv /\ [Next]_vars => [PagesKept]_vars
  BY NextKeeps DEF PagingInv
<1>2. [PagesKept]_vars => [\A n \in DOMAIN disk : n \in DOMAIN disk' => disk'[n] = disk[n]]_vars
  BY DEF PagesKept
<1> QED  BY <1>1, <1>2, PagingCorrect, PTL DEF Spec, NeverOverwritesPage

---------------------------------------------------------------------------
\* The item pop_front() and front() hand out is the oldest of the queue.
LEMMA FrontIsOldest ==
  ASSUME Paging, pc \in {"idle", "clear"}, NEW p \in Seq(Items), SetFirstPage(p)
  PROVE  /\ FrontPage = <<>> => q = <<>>
         /\ FrontPage # <<>> => q # <<>> /\ Head(q) = Head(FrontPage)
<1> DEFINE N == persistedFileNames
<1>1. /\ FrontPage \in Seq(Items) /\ (FrontPage = <<>> => q = <<>>)
      /\ IsPaged(q, disk', FrontPage, N', 1, Len(N'), LastItems')
      /\ LastItems' \in Seq(Items) /\ Len(N') \in Nat
  BY RefillPaging
<1>2. q \in Seq(Items) /\ Len(N') - 1 + 1 >= 0 /\ Len(N') \in Int /\ 1 \in Int
  BY <1>1 DEF Paging, TypeOK
<1>3. ASSUME FrontPage # <<>> PROVE q # <<>> /\ Head(q) = Head(FrontPage)
  BY <1>1, <1>2, <1>3, PagedPopFirst
<1> QED  BY <1>1, <1>3

\* One pop, as the client of a plain queue sees it.
LEMMA PopIsFifo ==
  ASSUME Paging, pc \in {"idle", "clear"}, NEW clearing \in BOOLEAN, PopItem(clearing)
  PROVE  \/ /\ q = <<>> /\ q' = q
            /\ ret' = IF clearing THEN "clearing" ELSE "null"
         \/ /\ q # <<>> /\ q' = Tail(q)
            /\ ret' = IF clearing THEN "clearing" ELSE Head(q)
<1>1. ~FrontFileMissing
  BY FilePresent DEF FrontFileMissing, NeedsFile
<1>2. FrontPage \in Seq(Items)
  BY <1>1, FrontPageType DEF Paging
<1>3. <<>> \in Seq(Items) /\ (FrontPage # <<>> => Tail(FrontPage) \in Seq(Items))
  BY <1>2, EmptySeq, TailType
<1>4. CASE FrontPage = <<>>
  <2>1. SetFirstPage(<<>>) /\ q' = q /\ ret' = IF clearing THEN "clearing" ELSE "null"
    BY <1>1, <1>4 DEF PopItem
  <2> QED  BY <1>3, <1>4, <2>1, FrontIsOldest
<1>5. CASE FrontPage # <<>>
  <2>1. /\ SetFirstPage(Tail(FrontPage)) /\ q' = IF q = <<>> THEN q ELSE Tail(q)
        /\ ret' = IF clearing THEN "clearing" ELSE Head(FrontPage)
    BY <1>1, <1>5 DEF PopItem
  <2>2. q # <<>> /\ Head(q) = Head(FrontPage)
    BY <1>3, <1>5, <2>1, FrontIsOldest
  <2> QED  BY <2>1, <2>2
<1> QED  BY <1>4, <1>5

\* The refinement mapping's image of a step is a step of the plain queue, or
\* none at all.
LEMMA FifoStep ==
  ASSUME OrderlyUse, Paging, destroying <=> shutDown, [Next]_vars
  PROVE  [Fifo!Next]_(Fifo!vars)
<1> DEFINE up == pc \in {"idle", "clear"} /\ ~shutDown
<1>0. /\ pc \in {"idle", "clear"} => ~shutDown
      /\ pc \in {"writeFirst", "writeLast", "writeState"} => shutDown /\ destroying
      /\ pc \in {"down", "loadFirst", "loadLast"} => ~shutDown
  BY DEF Paging, Lifecycle
<1> USE DEF Fifo!Next, Fifo!vars
<1>1. CASE UNCHANGED <<q, ret>> /\ up' = up
  BY <1>1
<1>2. CASE Tick \/ ClearCall \/ Construct \/ WriteFirst \/ WriteLast \/ UNCHANGED vars
  <2>1. UNCHANGED <<q, ret>>
    BY <1>2 DEF Tick, ClearCall, Construct, WriteFirst, WriteLast, vars
  <2>2. up' = up
    BY <1>0, <1>2 DEF Tick, ClearCall, Construct, WriteFirst, WriteLast, vars, memory
  <2> QED  BY <1>1, <2>1, <2>2
<1>3. ASSUME NEW i \in Items, PushBack(i) PROVE Fifo!PushBack(i)
  BY <1>0, <1>3 DEF PushBack, PushBackItem, Refused, Fifo!PushBack
<1>4. ASSUME NEW i \in Items, PushFront(i) PROVE Fifo!PushFront(i)
  BY <1>0, <1>4 DEF PushFront, Refused, Fifo!PushFront
<1>5. CASE PopFront
  <2>1. pc = "idle" /\ pc' = "idle" /\ ~shutDown /\ PopItem(FALSE) /\ ~shutDown'
    BY <1>0, <1>5 DEF PopFront, Refused, PopItem, SetFirstPage, LoadFrontFileFails
  <2>2. \/ q = <<>> /\ q' = q /\ ret' = "null"
        \/ q # <<>> /\ q' = Tail(q) /\ ret' = Head(q)
    BY <2>1, PopIsFifo
  <2>3. Fifo!PopFront
    BY <2>1, <2>2 DEF Fifo!PopFront
  <2> QED  BY <2>3
<1>6. CASE Front
  <2>1. pc = "idle" /\ pc' = "idle" /\ ~shutDown
    BY <1>0, <1>6 DEF Front, FrontItem
  <2>2. ~FrontFileMissing
    BY <2>1, FilePresent DEF FrontFileMissing, NeedsFile
  <2>3. /\ SetFirstPage(FrontPage) /\ q' = q
        /\ ret' = IF FrontPage = <<>> THEN "null" ELSE Head(FrontPage)
    BY <1>6, <2>2 DEF Front, FrontItem
  <2>4. FrontPage \in Seq(Items)
    BY <2>2, FrontPageType DEF Paging
  <2>5. ret' = IF q = <<>> THEN "null" ELSE Head(q)
    BY <2>1, <2>3, <2>4, FrontIsOldest
  <2>6. ~shutDown'
    BY <2>1, <2>3 DEF SetFirstPage
  <2>7. Fifo!Front
    BY <2>1, <2>3, <2>5, <2>6 DEF Fifo!Front
  <2> QED  BY <2>7
<1>7. CASE ClearStep
  <2>1. pc = "clear" /\ ~shutDown /\ (Empty <=> q = <<>>)
    BY <1>0, <1>7, SizeOfPages DEF ClearStep, SizeIsLength
  <2>2. CASE Empty
    <3>1. Fifo!Cleared
      BY <1>7, <2>1, <2>2 DEF ClearStep, memory, Fifo!Cleared
    <3> QED  BY <3>1
  <2>3. CASE ~Empty
    <3>1. PopItem(TRUE) /\ pc' = IF ret' = "CouldNotLoadQueueFile" THEN "idle" ELSE "clear"
      BY <1>7, <2>1, <2>3 DEF ClearStep, Refused
    <3>2. q' = Tail(q) /\ ret' = "clearing"
      BY <2>1, <2>3, <3>1, PopIsFifo
    <3>3. ~shutDown' /\ pc' = "clear"
      BY <2>1, <3>1, <3>2 DEF PopItem, SetFirstPage, LoadFrontFileFails
    <3>4. Fifo!ClearOne
      BY <2>1, <2>3, <3>2, <3>3 DEF Fifo!ClearOne
    <3> QED  BY <3>4
  <2> QED  BY <2>2, <2>3
<1>8. CASE LoadFirst
  <2>1. pc = "loadFirst" /\ ~shutDown /\ q' = q
    BY <1>0, <1>8 DEF LoadFirst
  <2>2. persistedFileNames # <<>> => Head(persistedFileNames) \in DOMAIN disk
    BY <2>1, FilePresent
  <2>3. ~shutDown' /\ ((pc' = "idle" /\ ret' = "ok") \/ (pc' = "loadLast" /\ ret' = ret))
    BY <1>8, <2>1, <2>2 DEF LoadFirst, memory
  <2>4. CASE pc' = "idle" /\ ret' = "ok"
    <3>1. Fifo!Open
      BY <2>1, <2>3, <2>4 DEF Fifo!Open
    <3> QED  BY <3>1
  <2>5. CASE pc' = "loadLast" /\ ret' = ret
    BY <1>1, <2>1, <2>5
  <2> QED  BY <2>3, <2>4, <2>5
<1>9. CASE LoadLast
  <2>1. pc = "loadLast" /\ ~shutDown /\ q' = q /\ LastName \in DOMAIN disk
    BY <1>0, <1>9 DEF LoadLast, Paging, QueueOnPages
  <2>2. pc' = "idle" /\ ret' = "ok" /\ ~shutDown'
    BY <1>9, <2>1 DEF LoadLast
  <2>3. Fifo!Open
    BY <2>1, <2>2 DEF Fifo!Open
  <2> QED  BY <2>3
<1>10. CASE Shutdown(FALSE)
  BY <1>10 DEF Shutdown, OrderlyUse
<1>11. CASE Shutdown(TRUE)
  <2>1. Fifo!Close
    BY <1>0, <1>11 DEF Shutdown, Fifo!Close
  <2> QED  BY <2>1
<1>12. CASE WriteState
  <2>1. Fifo!Closed
    BY <1>0, <1>12 DEF WriteState, NoObject, Fifo!Closed
  <2> QED  BY <2>1
<1> QED
  BY <1>2, <1>3, <1>4, <1>5, <1>6, <1>7, <1>8, <1>9, <1>10, <1>11, <1>12 DEF Next, CallStep

\* Behind the pages and files the client of a PersistedQueue has a plain FIFO
\* queue that outlives the object: every call returns what FifoQueue returns.
THEOREM ImplementsFifoCorrect ==
  ASSUME OrderlyUse
  PROVE  Spec => ImplementsFifo
<1>1. Init => Fifo!Init
  BY DEF Init, Fifo!Init
<1>2. PagingInv /\ [Next]_vars => [Fifo!Next]_(Fifo!vars)
  BY FifoStep DEF PagingInv
<1> QED  BY <1>1, <1>2, PagingCorrect, PTL DEF Spec, ImplementsFifo, Fifo!Spec

---------------------------------------------------------------------------
(* Threads *)

\* shutdown() has returned, and the object is still there.
ShutAndIdle ==
  /\ pc = "idle" /\ shutDown /\ ~destroying /\ persistedFileNames = <<>> /\ QueueInFiles(stateFile)
  /\ holder \in {"none", "front"}

\* Until then the queue is on its pages, and the thread that has the mutex is
\* in a call on a queue that is not shut down.
OpenOrClosing ==
  /\ Paging /\ (destroying => shutDown)
  /\ holder # "none" => pc = "idle" /\ ~shutDown
  /\ holder = "push" => Len(q) < MaxLen

ThreadInv == ~overlapped /\ ~twice => OpenOrClosing \/ ShutAndIdle

\* A call of a thread that has the mutex to itself is a call on the queue.
LEMMA EndIsCall ==
  ASSUME OpenOrClosing, End
  PROVE  /\ pc = "idle" /\ ~shutDown /\ ~destroying /\ UNCHANGED <<now, pc, destroying, shutDown>> /\ holder' = "none"
         /\ \/ \E i \in Items : PushBack(i)
            \/ PopItem(FALSE) /\ PopFront
            \/ Front
<1>1. /\ pc = "idle" /\ ~shutDown /\ UNCHANGED <<now, pc, destroying>> /\ holder' = "none"
      /\ holder = "push" => Len(q) < MaxLen
  BY DEF OpenOrClosing, End
<1>2. ~destroying
  BY <1>1 DEF OpenOrClosing
<1>3. CASE \E i \in Items : holder = "push" /\ PushBackItem(i)
  BY <1>1, <1>2, <1>3 DEF PushBack, PushBackItem
<1>4. CASE PopItem(FALSE)
  <2>1. UNCHANGED shutDown
    BY <1>4 DEF PopItem, SetFirstPage, LoadFrontFileFails
  <2> QED  BY <1>1, <1>2, <1>4, <2>1 DEF PopFront
<1>5. CASE FrontItem
  <2>1. UNCHANGED shutDown
    BY <1>5 DEF FrontItem, SetFirstPage, LoadFrontFileFails
  <2> QED  BY <1>1, <1>2, <1>5, <2>1 DEF Front
<1> QED  BY <1>3, <1>4, <1>5 DEF End

LEMMA EndOpen ==
  ASSUME OpenOrClosing, End
  PROVE  OpenOrClosing'
<1>1. TypeOK'
  BY EndIsCall, NextType DEF OpenOrClosing, Paging, Next
<1>2. Paging
  BY DEF OpenOrClosing
<1>3. Paging'
  BY <1>1, <1>2, EndIsCall, PushBackPaging, PopPaging, FrontPaging
<1>4. holder' = "none" /\ ~destroying'
  <2>1. holder' = "none" /\ ~destroying /\ destroying' = destroying
    BY EndIsCall
  <2> QED  BY <2>1
<1> QED  BY <1>3, <1>4 DEF OpenOrClosing

\* A queue that is shut down has no files left to give: front() looks only at
\* the pages in memory.
LEMMA ClosedKept ==
  ASSUME ShutAndIdle, End
  PROVE  ShutAndIdle'
<1>1. FrontItem /\ holder' = "none" /\ UNCHANGED <<now, pc, destroying>>
  BY DEF ShutAndIdle, End
<1>2. ~NeedsFile /\ ~FrontFileMissing
  BY DEF ShutAndIdle, NeedsFile, FrontFileMissing
<1>3. UNCHANGED <<shutDown, persistedFileNames, disk, stateFile, q>>
  BY <1>1, <1>2 DEF FrontItem, SetFirstPage
<1> QED  BY <1>1, <1>3 DEF ShutAndIdle, QueueInFiles, QueueIs

LEMMA BeginKept ==
  ASSUME NEW c \in Calls, Begin(c), OpenOrClosing \/ ShutAndIdle, ~overlapped'
  PROVE  OpenOrClosing' \/ ShutAndIdle'
<1>1. /\ UNCHANGED <<memory, files, q, now, pc, destroying>> /\ (ret' = ret \/ ret' = "QueueShutDown")
      /\ \/ holder' = c /\ (c = "front" \/ ~shutDown) /\ (c = "push" => Len(q) < MaxLen)
         \/ holder' = "none" /\ holder = "none"
  BY DEF Begin, Refused, Open
<1>2. c = "front" => pc = "idle"
  BY DEF Begin
<1>3. pc \in {"idle", "writeFirst", "writeLast", "writeState"}
  BY DEF Begin, Constructed
<1>4. CASE OpenOrClosing
  <2>1. TypeOK'
    BY <1>1, <1>4 DEF OpenOrClosing, Paging, TypeOK, Results, memory, files
  <2>2. Paging'
    BY <1>1, <1>4, <2>1, StutterPaging DEF OpenOrClosing
  <2>3. ~shutDown <=> pc = "idle"
    BY <1>3, <1>4 DEF OpenOrClosing, Paging, Lifecycle
  <2> QED  BY <1>1, <1>2, <1>4, <2>2, <2>3 DEF OpenOrClosing, Calls, memory
<1>5. CASE ShutAndIdle
  BY <1>1, <1>5 DEF ShutAndIdle, QueueInFiles, QueueIs, memory, files
<1> QED  BY <1>4, <1>5

\* shutdown() begins, called by a thread or by the destructor.
LEMMA ClosingBegins ==
  ASSUME NEW byDestructor \in BOOLEAN, Shutdown(byDestructor), OpenOrClosing, holder = "none", holder' = "none"
  PROVE  OpenOrClosing'
<1>1. TypeOK'
  BY NextType DEF OpenOrClosing, Paging, Next
<1>2. Paging'
  BY <1>1, ShutdownPaging DEF OpenOrClosing
<1>3. shutDown'
  BY DEF Shutdown
<1> QED  BY <1>2, <1>3 DEF OpenOrClosing

\* The steps that no mutex is asked for.
LEMMA StepKept ==
  ASSUME SlowRestart, Tick \/ Construct \/ CallStep, UNCHANGED holder, OpenOrClosing
  PROVE  OpenOrClosing' \/ ShutAndIdle'
<1>1. TypeOK' /\ Paging
  BY NextType DEF OpenOrClosing, Paging, Next
<1>2. holder # "none" => pc = "idle" /\ ~shutDown
  BY DEF OpenOrClosing
<1>3. CASE Tick
  <2>1. Paging' /\ UNCHANGED <<pc, shutDown, destroying, q>>
    BY <1>1, <1>3, TickPaging DEF Tick, memory
  <2> QED  BY <2>1 DEF OpenOrClosing
<1>4. ASSUME Paging', pc # "idle", ~destroying' \/ shutDown' PROVE OpenOrClosing'
  <2>1. holder' = "none"
    BY <1>2, <1>4
  <2> QED  BY <1>4, <2>1 DEF OpenOrClosing
<1>5. ~shutDown => ~destroying
  BY DEF OpenOrClosing
<1>6. pc \in {"down", "loadFirst", "loadLast", "clear"} => ~shutDown /\ ~destroying
  BY <1>1, <1>5 DEF Paging, Lifecycle
<1>7. CASE Construct
  <2>1. pc = "down" /\ destroying' = destroying
    BY <1>7 DEF Construct
  <2> QED  BY <1>1, <1>4, <1>6, <1>7, <2>1, ConstructPaging
<1>8. CASE ClearStep
  <2>1. pc = "clear" /\ pc' \in {"idle", "clear"} /\ UNCHANGED <<now, destroying>>
    BY <1>8 DEF ClearStep
  <2>2. CASE PopItem(TRUE)
    BY <1>1, <1>4, <1>6, <2>1, <2>2, PopPaging
  <2>3. CASE UNCHANGED <<memory, files, q>>
    BY <1>1, <1>4, <1>6, <2>1, <2>3, QuietPaging
  <2> QED  BY <1>8, <2>2, <2>3 DEF ClearStep, Refused
<1>9. CASE LoadFirst
  <2>1. pc = "loadFirst" /\ destroying' = destroying
    BY <1>9 DEF LoadFirst
  <2> QED  BY <1>1, <1>4, <1>6, <1>9, <2>1, LoadFirstPaging
<1>10. CASE LoadLast
  <2>1. pc = "loadLast" /\ destroying' = destroying
    BY <1>10 DEF LoadLast
  <2> QED  BY <1>1, <1>4, <1>6, <1>10, <2>1, LoadLastPaging
<1>11. pc \in {"writeFirst", "writeLast", "writeState"} => shutDown
  BY <1>1 DEF Paging, Lifecycle
<1>12. CASE WriteFirst
  <2>1. pc = "writeFirst" /\ shutDown' = shutDown
    BY <1>12 DEF WriteFirst
  <2> QED  BY <1>1, <1>4, <1>11, <1>12, <2>1, WriteFirstPaging
<1>13. CASE WriteLast
  <2>1. pc = "writeLast" /\ shutDown' = shutDown
    BY <1>13 DEF WriteLast
  <2> QED  BY <1>1, <1>4, <1>11, <1>13, <2>1, WriteLastPaging
<1>14. CASE WriteState
  <2>1. pc = "writeState" /\ ~destroying'
    BY <1>14 DEF WriteState
  <2>2. CASE destroying
    BY <1>1, <1>4, <1>14, <2>1, <2>2, WriteStatePaging
  <2>3. CASE ~destroying
    <3>1. pc' = "idle" /\ persistedFileNames' = <<>> /\ UNCHANGED <<shutDown, disk, q>>
      BY <1>14, <2>3 DEF WriteState
    <3>2. stateFile' = persistedFileNames
      BY <1>1, <1>14, <2>1 DEF WriteState, Paging, FilesListed
    <3>3. QueueInFiles(stateFile)'
      BY <1>1, <2>1, <3>1, <3>2 DEF Paging, QueueOnPages, QueueInFiles, QueueIs
    <3>4. holder' = "none"
      BY <1>2, <2>1
    <3> QED  BY <1>11, <2>1, <3>1, <3>3, <3>4 DEF ShutAndIdle
  <2> QED  BY <2>2, <2>3
<1> QED  BY <1>3, <1>7, <1>8, <1>9, <1>10, <1>12, <1>13, <1>14 DEF CallStep

\* No step but the clock's, and those of threads, is left for a queue that is
\* shut down, until it is destroyed.
LEMMA ClosedStep ==
  ASSUME Tick \/ Construct \/ CallStep, UNCHANGED holder, ShutAndIdle
  PROVE  ShutAndIdle'
<1>1. Tick
  BY DEF ShutAndIdle, Construct, CallStep, ClearStep, LoadFirst, LoadLast, WriteFirst, WriteLast, WriteState
<1> QED  BY <1>1 DEF Tick, ShutAndIdle, QueueInFiles, QueueIs, memory, files

LEMMA NextThreads ==
  ASSUME SlowRestart, ThreadInv, [ThreadNext]_threadVars
  PROVE  ThreadInv'
<1> SUFFICES ASSUME ~overlapped', ~twice' PROVE OpenOrClosing' \/ ShutAndIdle'
  BY DEF ThreadInv
<1>1. ~overlapped /\ ~twice
  <2>1. CASE UNCHANGED <<overlapped, twice>>
    BY <2>1
  <2>2. ASSUME NEW c \in Calls, Begin(c) PROVE ~overlapped /\ ~twice
    BY <2>2, Zenon DEF Begin
  <2>3. CASE ShutdownCall
    BY <2>3, Zenon DEF ShutdownCall
  <2>4. CASE Destroy
    BY <2>4, Zenon DEF Destroy
  <2> QED  BY <2>1, <2>2, <2>3, <2>4 DEF ThreadNext, End, threadVars, threadHistory
<1>2. OpenOrClosing \/ ShutAndIdle
  BY <1>1 DEF ThreadInv
<1>3. CASE \E c \in Calls : Begin(c)
  BY <1>2, <1>3, BeginKept
<1>4. CASE End
  BY <1>2, <1>4, EndOpen, ClosedKept
<1>5. CASE ShutdownCall
  <2>1. ~shutDown /\ Shutdown(FALSE) /\ holder = "none" /\ holder' = "none"
    BY <1>5 DEF ShutdownCall
  <2>2. OpenOrClosing
    BY <1>2, <2>1 DEF ShutAndIdle
  <2> QED  BY <2>1, <2>2, ClosingBegins
<1>6. CASE Destroy
  <2>1. ~shutDown /\ Shutdown(TRUE) /\ holder = "none" /\ holder' = "none"
    BY <1>6 DEF Destroy
  <2>2. OpenOrClosing
    BY <1>2, <2>1 DEF ShutAndIdle
  <2> QED  BY <2>1, <2>2, ClosingBegins
<1>7. CASE (Tick \/ Construct \/ CallStep) /\ UNCHANGED holder
  BY <1>2, <1>7, StepKept, ClosedStep
<1>8. CASE UNCHANGED threadVars
  <2>1. UNCHANGED <<memory, files, now, pc, destroying, ret, q, holder>>
    BY <1>8 DEF threadVars, vars
  <2>2. CASE OpenOrClosing
    <3>1. TypeOK'
      BY <2>1, <2>2 DEF OpenOrClosing, Paging, TypeOK, memory, files
    <3>2. Paging'
      BY <2>1, <2>2, <3>1, StutterPaging DEF OpenOrClosing
    <3> QED  BY <2>1, <2>2, <3>2 DEF OpenOrClosing, memory
  <2>3. CASE ShutAndIdle
    BY <2>1, <2>3 DEF ShutAndIdle, QueueInFiles, QueueIs, memory, files
  <2> QED  BY <1>2, <2>2, <2>3
<1> QED  BY <1>3, <1>4, <1>5, <1>6, <1>7, <1>8 DEF ThreadNext

\* What shutdown() has written is the queue, and stays so, for any number of
\* threads, as long as none of their calls overlaps shutdown() and the
\* destructor does not come after it.
THEOREM ShutdownPersistsCorrect ==
  ASSUME SlowRestart
  PROVE  ThreadSpec => []ShutdownPersists
<1>1. ThreadInit => ThreadInv
  <2> SUFFICES ASSUME ThreadInit PROVE OpenOrClosing
    BY DEF ThreadInv
  <2>1. Paging /\ holder = "none" /\ ~destroying
    BY InitPaging DEF ThreadInit, PagingInv, Init
  <2> QED  BY <2>1 DEF OpenOrClosing
<1>2. ThreadInv /\ [ThreadNext]_threadVars => ThreadInv'
  BY NextThreads
<1>3. ThreadInv => ShutdownPersists
  <2> SUFFICES ASSUME ThreadInv, pc = "down" \/ (pc = "idle" /\ shutDown), ~overlapped, ~twice
               PROVE  QueueInFiles(stateFile)
    BY DEF ShutdownPersists
  <2>1. CASE OpenOrClosing
    BY <2>1 DEF OpenOrClosing, Paging, Lifecycle, DataPersisted
  <2> QED  BY <2>1 DEF ThreadInv, ShutAndIdle
<1> QED  BY <1>1, <1>2, <1>3, PTL DEF ThreadSpec
===========================================================================
