-------------------------- MODULE PersistedQueue --------------------------
(***************************************************************************)
(* kisscpp::PersistedQueue: a FIFO queue that keeps its first and its last *)
(* page in memory and every page between them in a file of its own.  The   *)
(* files are named by the second they were written in and a counter within *)
(* that second; a shutdown writes the two pages in memory too, and a STATE *)
(* file listing all page files in order, which the next constructor reads. *)
(* A call that makes several file operations (the constructor, shutdown(), *)
(* the destructor, clear()) is a sequence of steps, pc telling which one   *)
(* is next; the other calls are one step each.                             *)
(***************************************************************************)
EXTENDS Integers, Sequences, FiniteSets

CONSTANTS Items,            \* the objects a client may queue
          MaxItemsPerPage,  \* _maxItemsPerPage
          MaxLen,           \* bound: longest queue a push is tried on
          MaxTime,          \* bound: last second in which page files are named
          PagesPerSecond,   \* bound: page files named within one second (10000 keep the names sortable)
          SlowRestart,      \* a constructor runs in a later second than the one any page file is named after
          ExplicitShutdown  \* the client may call shutdown() itself before it destroys the queue

ASSUME PageSizeAssumption == MaxItemsPerPage \in Nat \ {0}
ASSUME BoundsAssumption == MaxLen \in Nat /\ MaxTime \in Nat /\ PagesPerSecond \in Nat
ASSUME UseAssumption == SlowRestart \in BOOLEAN /\ ExplicitShutdown \in BOOLEAN

VARIABLES
  page,                \* the two page objects a queue can hold, by slot
  firstPage, lastPage, \* shared pointers: slots, equal when the pages are one object
  persistedFileNames,  \* deque of file names
  shutDown, lastSeqNum, seqNumCount,
  disk,                \* the page files: name -> items
  stateFile, stateFileExists,
  now,                 \* time(NULL)
  pc, destroying,      \* next step of the call in progress, and whether the destructor made it
  ret,                 \* what the last call returned or threw
  q                    \* history: the client's own account of the queue

memory == <<page, firstPage, lastPage, persistedFileNames, shutDown, lastSeqNum, seqNumCount>>
files == <<disk, stateFile, stateFileExists>>
vars == <<memory, files, now, pc, destroying, ret, q>>

Slots == {0, 1}
Other(slot) == 1 - slot

\* A file name is the text <second><count padded to four digits>; "0" is the
\* name of the first page.  Below 10000 pages a second std::sort of the texts
\* is this order on pairs, with "0" before every other name.
Name == Nat \X Nat
FileZero == <<0, 0>>
Before(a, b) == a[1] < b[1] \/ (a[1] = b[1] /\ a[2] < b[2])
Sorted(s) == \A i, j \in DOMAIN s : i < j => Before(s[i], s[j])

Results == {"ok", "null", "clearing", "cleared", "QueueShutDown",
            "CouldNotLoadQueueFile", "CouldNotWriteQueueFile"}

TypeOK ==
  /\ page \in [Slots -> Seq(Items)] /\ firstPage \in Slots /\ lastPage \in Slots
  /\ persistedFileNames \in Seq(Name)
  /\ shutDown \in BOOLEAN /\ lastSeqNum \in Nat /\ seqNumCount \in Nat
  /\ IsFiniteSet(DOMAIN disk) /\ DOMAIN disk \subseteq Name
  /\ \A n \in DOMAIN disk : disk[n] \in Seq(Items)
  /\ stateFile \in Seq(Name) /\ stateFileExists \in BOOLEAN
  /\ now \in Nat
  /\ pc \in {"down", "loadFirst", "loadLast", "idle", "clear", "writeFirst", "writeLast", "writeState"}
  /\ destroying \in BOOLEAN
  /\ ret \in Items \cup Results
  /\ q \in Seq(Items)

Init ==
  /\ page = [s \in Slots |-> <<>>] /\ firstPage = 0 /\ lastPage = 0
  /\ persistedFileNames = <<>>
  /\ shutDown = FALSE /\ lastSeqNum = 0 /\ seqNumCount = 0
  /\ disk = <<>> /\ stateFile = <<>> /\ stateFileExists = FALSE
  /\ now = 1 /\ pc = "down" /\ destroying = FALSE /\ ret = "ok" /\ q = <<>>

---------------------------------------------------------------------------
\* The file system.

WriteFile(d, n, p) == [m \in DOMAIN d \cup {n} |-> IF m = n THEN p ELSE d[m]]
RemoveFileKept(d, n) == d
RemoveFile(d, n) == [m \in DOMAIN d \ {n} |-> d[m]]

Tick ==
  /\ now < MaxTime \/ (now = MaxTime /\ pc = "down")
  /\ now' = now + 1
  /\ UNCHANGED <<memory, files, pc, destroying, ret, q>>

---------------------------------------------------------------------------
\* seqNumber(): the name of the next page file, and the counter behind it.

SeqCountAlwaysZero == 0
SeqCountFromMinusOne == IF lastSeqNum = now THEN seqNumCount + 1 ELSE -1
SeqCount == IF lastSeqNum = now THEN seqNumCount + 1 ELSE 0
SeqName == <<now, SeqCount>>
SeqNumber == lastSeqNum' = now /\ seqNumCount' = SeqCount
CanName == now <= MaxTime /\ SeqCount < PagesPerSecond

NamesWithPushedLast(names, seq) == Append(names, seq)
NamesWith(names, seq) == IF seq = FileZero THEN <<seq>> \o names ELSE Append(names, seq)

PersistToFile(seq, p) ==
  /\ disk' = WriteFile(disk, seq, p)
  /\ persistedFileNames' = NamesWith(persistedFileNames, seq)

---------------------------------------------------------------------------
\* Calls on a constructed queue.

SizeMultiplied == Len(page[firstPage]) + Len(page[lastPage]) + Len(persistedFileNames) * MaxItemsPerPage
Size ==
  Len(page[firstPage]) + Len(persistedFileNames) * MaxItemsPerPage
    + (IF firstPage = lastPage THEN 0 ELSE Len(page[lastPage]))

EmptyNever == Size < 0
Empty == page[firstPage] = <<>> /\ page[lastPage] = <<>> /\ persistedFileNames = <<>>

LastPageFullLate == Len(page[lastPage]) > MaxItemsPerPage
LastPageFull == Len(page[lastPage]) >= MaxItemsPerPage

Refused == shutDown /\ ret' = "QueueShutDown" /\ UNCHANGED <<memory, files, q>>

PushBackItem(i) ==
  /\ \/ /\ ~LastPageFull
        /\ page' = [page EXCEPT ![lastPage] = Append(@, i)]
        /\ UNCHANGED <<lastPage, persistedFileNames, lastSeqNum, seqNumCount, disk>>
     \/ /\ LastPageFull /\ lastPage = firstPage
        /\ lastPage' = Other(firstPage)
        /\ page' = [page EXCEPT ![Other(firstPage)] = <<i>>]
        /\ UNCHANGED <<persistedFileNames, lastSeqNum, seqNumCount, disk>>
     \/ /\ LastPageFull /\ lastPage # firstPage /\ CanName
        /\ PersistToFile(SeqName, page[lastPage])
        /\ SeqNumber
        /\ page' = [page EXCEPT ![lastPage] = <<i>>]
        /\ UNCHANGED lastPage
  /\ ret' = "ok" /\ q' = Append(q, i)
  /\ UNCHANGED <<firstPage, shutDown, stateFile, stateFileExists>>

PushBack(i) ==
  /\ pc = "idle" /\ Len(q) < MaxLen
  /\ Refused \/ (~shutDown /\ PushBackItem(i))
  /\ UNCHANGED <<now, pc, destroying>>

PushFront(i) ==
  /\ pc = "idle" /\ Len(q) < MaxLen
  /\ \/ Refused
     \/ /\ ~shutDown
        /\ page' = [page EXCEPT ![firstPage] = <<i>> \o @]
        /\ ret' = "ok" /\ q' = <<i>> \o q
        /\ UNCHANGED <<firstPage, lastPage, persistedFileNames, shutDown, lastSeqNum, seqNumCount, files>>
  /\ UNCHANGED <<now, pc, destroying>>

\* pop_front() and front() look at the first page; when it is empty they take
\* the front file, or the last page when there is no file, in its place.
NeedsFile == page[firstPage] = <<>> /\ persistedFileNames # <<>>
FrontFileMissing == NeedsFile /\ Head(persistedFileNames) \notin DOMAIN disk
FrontSlot ==
  IF page[firstPage] # <<>> THEN firstPage
  ELSE IF persistedFileNames = <<>> THEN lastPage ELSE Other(lastPage)
FrontPageSkipsFiles == IF page[firstPage] # <<>> THEN page[firstPage] ELSE page[lastPage]
FrontPage ==
  IF page[firstPage] # <<>> THEN page[firstPage]
  ELSE IF persistedFileNames = <<>> THEN page[lastPage] ELSE disk[Head(persistedFileNames)]

\* The front page becomes the first page, holding p.
SetFirstPage(p) ==
  /\ firstPage' = FrontSlot
  /\ page' = [page EXCEPT ![FrontSlot] = p]
  /\ \/ /\ NeedsFile
        /\ persistedFileNames' = Tail(persistedFileNames)
        /\ disk' = RemoveFile(disk, Head(persistedFileNames))
     \/ ~NeedsFile /\ UNCHANGED <<persistedFileNames, disk>>
  /\ UNCHANGED <<lastPage, shutDown, lastSeqNum, seqNumCount, stateFile, stateFileExists>>

\* loadFrontFile() drops the name before loadFromFile() throws.
LoadFrontFileFails ==
  /\ persistedFileNames' = Tail(persistedFileNames)
  /\ ret' = "CouldNotLoadQueueFile"
  /\ UNCHANGED <<page, firstPage, lastPage, shutDown, lastSeqNum, seqNumCount, files, q>>

\* One pop_front() on a live queue, called by the client or by clear().
PopItem(clearing) ==
  \/ FrontFileMissing /\ LoadFrontFileFails
  \/ /\ ~FrontFileMissing /\ FrontPage = <<>>
     /\ SetFirstPage(<<>>)
     /\ ret' = IF clearing THEN "clearing" ELSE "null"
     /\ UNCHANGED q
  \/ /\ ~FrontFileMissing /\ FrontPage # <<>>
     /\ SetFirstPage(Tail(FrontPage))
     /\ ret' = IF clearing THEN "clearing" ELSE Head(FrontPage)
     /\ q' = IF q = <<>> THEN q ELSE Tail(q)

PopFront ==
  /\ pc = "idle"
  /\ Refused \/ (~shutDown /\ PopItem(FALSE))
  /\ UNCHANGED <<now, pc, destroying>>

\* front() does not look at _shut_down.
FrontItem ==
  \/ FrontFileMissing /\ LoadFrontFileFails
  \/ /\ ~FrontFileMissing
     /\ SetFirstPage(FrontPage)
     /\ ret' = IF FrontPage = <<>> THEN "null" ELSE Head(FrontPage)
     /\ UNCHANGED q

Front == pc = "idle" /\ FrontItem /\ UNCHANGED <<now, pc, destroying>>

\* clear(): while(!empty()) { pop_front(); }, one iteration a step.
ClearCall ==
  /\ pc = "idle" /\ pc' = "clear"
  /\ UNCHANGED <<memory, files, now, destroying, ret, q>>

ClearStep ==
  /\ pc = "clear"
  /\ \/ Empty /\ pc' = "idle" /\ ret' = "cleared" /\ UNCHANGED <<memory, files, q>>
     \/ ~Empty /\ Refused /\ pc' = "idle"
     \/ /\ ~Empty /\ ~shutDown
        /\ PopItem(TRUE)
        /\ pc' = IF ret' = "CouldNotLoadQueueFile" THEN "idle" ELSE "clear"
  /\ UNCHANGED <<now, destroying>>

---------------------------------------------------------------------------
\* The constructor: load(), in three steps.

LoadOrphanedQueueFiles ==
  \E s \in [1 .. Cardinality(DOMAIN disk) -> DOMAIN disk] : Sorted(s) /\ persistedFileNames' = s

Construct ==
  /\ pc = "down" /\ (SlowRestart => \A n \in DOMAIN disk : n[1] < now)
  /\ page' = [s \in Slots |-> <<>>] /\ firstPage' = 0 /\ lastPage' = 0
  /\ shutDown' = FALSE /\ lastSeqNum' = 0 /\ seqNumCount' = 0
  /\ \/ stateFileExists /\ persistedFileNames' = stateFile
     \/ ~stateFileExists /\ LoadOrphanedQueueFiles
  /\ stateFile' = <<>> /\ stateFileExists' = FALSE
  /\ pc' = "loadFirst"
  /\ UNCHANGED <<disk, now, destroying, ret, q>>

\* An exception out of the constructor: there is no object, its memory is
\* released, and the destructor does not run.
NoObject(result) ==
  /\ page' = [s \in Slots |-> <<>>] /\ firstPage' = 0 /\ lastPage' = 0
  /\ persistedFileNames' = <<>> /\ shutDown' = FALSE /\ lastSeqNum' = 0 /\ seqNumCount' = 0
  /\ pc' = "down" /\ ret' = result

LoadFirst ==
  /\ pc = "loadFirst"
  /\ \/ /\ persistedFileNames = <<>>
        /\ pc' = "idle" /\ ret' = "ok"
        /\ UNCHANGED <<memory, disk>>
     \/ /\ persistedFileNames # <<>> /\ Head(persistedFileNames) \in DOMAIN disk
        /\ page' = [page EXCEPT ![firstPage] = disk[Head(persistedFileNames)]]
        /\ disk' = RemoveFile(disk, Head(persistedFileNames))
        /\ persistedFileNames' = Tail(persistedFileNames)
        /\ \/ Len(persistedFileNames) = 1 /\ pc' = "idle" /\ ret' = "ok"
           \/ Len(persistedFileNames) > 1 /\ pc' = "loadLast" /\ UNCHANGED ret
        /\ UNCHANGED <<firstPage, lastPage, shutDown, lastSeqNum, seqNumCount>>
     \/ /\ persistedFileNames # <<>> /\ Head(persistedFileNames) \notin DOMAIN disk
        /\ NoObject("CouldNotLoadQueueFile") /\ UNCHANGED disk
  /\ UNCHANGED <<stateFile, stateFileExists, now, destroying, q>>

LastName == persistedFileNames[Len(persistedFileNames)]

LoadLast ==
  /\ pc = "loadLast"
  /\ \/ /\ LastName \in DOMAIN disk
        /\ lastPage' = Other(firstPage)
        /\ page' = [page EXCEPT ![Other(firstPage)] = disk[LastName]]
        /\ disk' = RemoveFile(disk, LastName)
        /\ persistedFileNames' = SubSeq(persistedFileNames, 1, Len(persistedFileNames) - 1)
        /\ pc' = "idle" /\ ret' = "ok"
        /\ UNCHANGED <<firstPage, shutDown, lastSeqNum, seqNumCount>>
     \/ /\ LastName \notin DOMAIN disk
        /\ NoObject("CouldNotLoadQueueFile") /\ UNCHANGED disk
  /\ UNCHANGED <<stateFile, stateFileExists, now, destroying, q>>

---------------------------------------------------------------------------
\* shutdown(), called by the client or by the destructor.

Shutdown(fromDestructor) ==
  /\ pc = "idle" /\ (firstPage # lastPage => CanName) /\ (fromDestructor \/ ExplicitShutdown)
  /\ shutDown' = TRUE /\ destroying' = fromDestructor /\ pc' = "writeFirst"
  /\ UNCHANGED <<page, firstPage, lastPage, persistedFileNames, lastSeqNum, seqNumCount, files, now, ret, q>>

WriteFirst ==
  /\ pc = "writeFirst" /\ pc' = "writeLast"
  /\ \/ page[firstPage] # <<>> /\ PersistToFile(FileZero, page[firstPage])
     \/ page[firstPage] = <<>> /\ UNCHANGED <<persistedFileNames, disk>>
  /\ UNCHANGED <<page, firstPage, lastPage, shutDown, lastSeqNum, seqNumCount,
                 stateFile, stateFileExists, now, destroying, ret, q>>

WriteLastIfLonger ==
  /\ pc = "writeLast" /\ pc' = "writeState"
  /\ \/ Len(page[lastPage]) > 1 /\ lastPage # firstPage /\ PersistToFile(SeqName, page[lastPage]) /\ SeqNumber
     \/ ~(Len(page[lastPage]) > 1 /\ lastPage # firstPage)
        /\ UNCHANGED <<persistedFileNames, disk, lastSeqNum, seqNumCount>>
  /\ UNCHANGED <<page, firstPage, lastPage, shutDown, stateFile, stateFileExists, now, destroying, ret, q>>

WriteLast ==
  /\ pc = "writeLast" /\ pc' = "writeState"
  /\ \/ lastPage # firstPage /\ PersistToFile(SeqName, page[lastPage]) /\ SeqNumber
     \/ lastPage = firstPage /\ UNCHANGED <<persistedFileNames, disk, lastSeqNum, seqNumCount>>
  /\ UNCHANGED <<page, firstPage, lastPage, shutDown, stateFile, stateFileExists, now, destroying, ret, q>>

\* The STATE file takes the names; the destructor then ends the object.
WriteState ==
  /\ pc = "writeState"
  /\ \/ /\ persistedFileNames # <<>>
        /\ stateFile' = persistedFileNames /\ stateFileExists' = TRUE
     \/ persistedFileNames = <<>> /\ UNCHANGED <<stateFile, stateFileExists>>
  /\ \/ destroying /\ NoObject("ok")
     \/ /\ ~destroying
        /\ persistedFileNames' = <<>> /\ pc' = "idle" /\ ret' = "ok"
        /\ UNCHANGED <<page, firstPage, lastPage, shutDown, lastSeqNum, seqNumCount>>
  /\ destroying' = FALSE
  /\ UNCHANGED <<disk, now, q>>

---------------------------------------------------------------------------
\* The steps a call makes on its own once it has begun.
CallStep == ClearStep \/ LoadFirst \/ LoadLast \/ WriteFirst \/ WriteLast \/ WriteState

Next ==
  \/ Tick
  \/ \E i \in Items : PushBack(i) \/ PushFront(i)
  \/ PopFront \/ Front \/ ClearCall
  \/ Construct \/ \E fromDestructor \in BOOLEAN : Shutdown(fromDestructor)
  \/ CallStep

Spec == Init /\ [][Next]_vars

\* A call that has begun runs on: nothing it waits for is another thread's.
FairSpec == Spec /\ WF_vars(CallStep)

---------------------------------------------------------------------------
(* Properties *)

\* The sequence s is the page first, the files N[a] .. N[b] of d, each of them
\* full, and the page last, which is no longer than a page, put end to end.
IsPaged(s, d, first, N, a, b, last) ==
  /\ Len(s) = Len(first) + (b - a + 1) * MaxItemsPerPage + Len(last)
  /\ Len(last) <= MaxItemsPerPage
  /\ \A i \in 1 .. Len(first) : s[i] = first[i]
  /\ \A k \in a .. b :
       /\ N[k] \in DOMAIN d /\ Len(d[N[k]]) = MaxItemsPerPage
       /\ \A i \in 1 .. MaxItemsPerPage : s[Len(first) + (k - a) * MaxItemsPerPage + i] = d[N[k]][i]
  /\ \A i \in 1 .. Len(last) : s[Len(first) + (b - a + 1) * MaxItemsPerPage + i] = last[i]

QueueIs(first, N, a, b, last) == IsPaged(q, disk, first, N, a, b, last)

\* All of the queue is in the files N: the first of any length, the last of at
\* most a page, those between them full.
QueueInFiles(N) ==
  /\ \A k \in DOMAIN N : N[k] \in DOMAIN disk
  /\ \/ N = <<>> /\ q = <<>>
     \/ Len(N) = 1 /\ q = disk[N[1]]
     \/ Len(N) > 1 /\ QueueIs(disk[N[1]], N, 2, Len(N) - 1, disk[N[Len(N)]])

\* The last page, when it is not the first page too.
LastItems == IF firstPage = lastPage THEN <<>> ELSE page[lastPage]
FirstWritten == persistedFileNames # <<>> /\ Head(persistedFileNames) = FileZero

\* The queue is its pages put end to end, at every step of every call, and
\* every page between the first and the last is full: no item is lost,
\* doubled or moved by paging, loading, shutting down and restarting, and
\* size() may count pages instead of items.
QueueOnPages ==
  /\ pc \in {"idle", "clear", "writeFirst"} =>
       QueueIs(page[firstPage], persistedFileNames, 1, Len(persistedFileNames), LastItems)
  /\ pc = "writeLast" =>
       IF FirstWritten THEN QueueIs(disk[FileZero], persistedFileNames, 2, Len(persistedFileNames), LastItems)
       ELSE QueueIs(<<>>, persistedFileNames, 1, Len(persistedFileNames), LastItems)
  /\ pc \in {"writeState", "loadFirst"} => QueueInFiles(persistedFileNames)
  /\ pc = "loadLast" =>
       /\ LastName \in DOMAIN disk
       /\ QueueIs(page[firstPage], persistedFileNames, 1, Len(persistedFileNames) - 1, disk[LastName])

\* size() counts every full page as MaxItemsPerPage items; between calls it is
\* the number of items queued and not yet popped, and empty() agrees with it.
SizeIsLength == pc \in {"idle", "clear"} /\ ~shutDown => Size = Len(q) /\ (Empty <=> q = <<>>)

\* push_back() and shutdown() name a page file by seconds and a counter: the
\* name is never that of a page file that still exists.
NeverOverwritesPage ==
  [][\A n \in DOMAIN disk : n \in DOMAIN disk' => disk'[n] = disk[n]]_vars

\* The order of the names in memory, and in the STATE file, is the order in
\* which loadOrphanedQueueFiles() would sort them.
NamesSorted == Sorted(persistedFileNames) /\ Sorted(stateFile)

\* What the destructor leaves on disk is the queue: the STATE file lists page
\* files that exist and hold every item, in order.
DataPersisted == pc = "down" => QueueInFiles(stateFile)

\* Every page file belongs to the queue: it is in the list of names while
\* there is an object, in the STATE file while there is none, and the two
\* lists are never both in use.
NamesIn(N) == {N[k] : k \in DOMAIN N}
FilesListed ==
  /\ pc # "down" => DOMAIN disk = NamesIn(persistedFileNames) /\ stateFile = <<>> /\ ~stateFileExists
  /\ pc = "down" => DOMAIN disk = NamesIn(stateFile) /\ (stateFileExists <=> stateFile # <<>>)

\* seqNumber() has not yet made the names it can still make in this second,
\* and "0" names a file only from a shutdown to the next constructor.
NamesPast ==
  /\ now > 0
  /\ \A n \in DOMAIN disk : n = FileZero \/ n[1] \in 1 .. now
  /\ pc # "down" => \A n \in DOMAIN disk : n[1] = now => lastSeqNum = now /\ n[2] <= seqNumCount
  /\ pc \in {"loadLast", "idle", "clear", "writeFirst"} => FileZero \notin DOMAIN disk

Lifecycle ==
  /\ shutDown <=> pc \in {"writeFirst", "writeLast", "writeState"}
  /\ pc \in {"idle", "clear", "writeFirst"} /\ firstPage = lastPage => persistedFileNames = <<>>
  /\ pc = "writeLast" /\ firstPage = lastPage => persistedFileNames \in {<<>>, <<FileZero>>}
  /\ pc \in {"loadFirst", "loadLast"} => firstPage = lastPage
  /\ pc = "loadFirst" => page[firstPage] = <<>>
  /\ pc = "loadLast" => persistedFileNames # <<>>

\* The pages hold the queue, the listed files are exactly those on disk, in
\* name order, and the next name is after all of them.
Paging ==
  TypeOK /\ Lifecycle /\ FilesListed /\ NamesSorted /\ NamesPast /\ QueueOnPages /\ DataPersisted

\* The inductive invariant behind the theorems of PersistedQueueProofs, for a
\* client that leaves shutdown() to the destructor and restarts no queue
\* within the second its files were named in.
PagingInv == Paging /\ (destroying <=> shutDown)

\* clear() and every other call comes to its end.
CallsReturn == [](pc \in {"clear", "loadFirst", "writeFirst"} => <>(pc \in {"idle", "down"}))

\* The client sees a plain FIFO queue that survives destruction and
\* reconstruction: every value returned is the one the abstract queue returns.
Fifo == INSTANCE FifoQueue WITH items <- q, open <- pc \in {"idle", "clear"} /\ ~shutDown
ImplementsFifo == Fifo!Spec
===========================================================================
