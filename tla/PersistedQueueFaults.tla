----------------------- MODULE PersistedQueueFaults -----------------------
(***************************************************************************)
(* PersistedQueue in a process that may die at any step and over a file    *)
(* system that may refuse a call.  An exception thrown out of the          *)
(* constructor or the destructor (a file that cannot be opened) ends the   *)
(* object just where a crash would, and a STATE file that cannot be opened *)
(* is not noticed, so that the destructor ends without one: Crash stands   *)
(* for these too.  No item is pushed twice, so that a second delivery can  *)
(* be told.  The client leaves shutdown() to the destructor.               *)
(***************************************************************************)
EXTENDS PersistedQueue
S == INSTANCE SequencesExt

CONSTANTS Order,   \* the items, in the order in which they are pushed
          Faults   \* which of FaultKinds the environment may commit

FaultKinds == {"torn page", "torn state", "write", "load"}
ASSUME FaultsAssumption ==
  /\ Faults \subseteq FaultKinds /\ Items \cap Results = {}
  /\ Order \in Seq(Items) /\ S!ToSet(Order) = Items /\ S!IsInjective(Order)

VARIABLES used,       \* history: items ever pushed
          delivered,  \* history: items handed to the client or cleared
          lossy       \* history: whether a STATE file was torn or a page could not be loaded

faultHistory == <<used, delivered, lossy>>
faultVars == <<vars, faultHistory>>

FaultInit == Init /\ used = {} /\ delivered = {} /\ lossy = FALSE

\* Some prefix of a page or of the STATE file reached the disk; a record
\* without its newline is not read back.
Torn(s) == S!Prefixes(s)

---------------------------------------------------------------------------
\* What the next constructor would load.

RecoveryNames ==
  IF stateFileExists THEN stateFile
  ELSE CHOOSE s \in [1 .. Cardinality(DOMAIN disk) -> DOMAIN disk] : Sorted(s)

Recoverable == S!FlattenSeq([k \in DOMAIN RecoveryNames |-> disk[RecoveryNames[k]]])

Dies ==
  /\ pc # "down" /\ NoObject("ok") /\ destroying' = FALSE
  /\ q' = Recoverable'
  /\ UNCHANGED <<now, used, delivered>>

Crash == UNCHANGED <<files, lossy>> /\ Dies

\* The process dies inside persistToFile(), in push_back() or in shutdown().
CrashWritingPage ==
  /\ "torn page" \in Faults
  /\ \/ /\ pc = "idle" /\ LastPageFull /\ lastPage # firstPage /\ CanName
        /\ \E p \in Torn(page[lastPage]) : disk' = WriteFile(disk, SeqName, p)
     \/ /\ pc = "writeFirst" /\ page[firstPage] # <<>>
        /\ \E p \in Torn(page[firstPage]) : disk' = WriteFile(disk, FileZero, p)
     \/ /\ pc = "writeLast" /\ lastPage # firstPage
        /\ \E p \in Torn(page[lastPage]) : disk' = WriteFile(disk, SeqName, p)
  /\ UNCHANGED <<stateFile, stateFileExists, lossy>>
  /\ Dies

\* The process dies inside writeStateFile().
CrashWritingState ==
  /\ "torn state" \in Faults
  /\ pc = "writeState" /\ persistedFileNames # <<>>
  /\ stateFile' \in Torn(persistedFileNames) /\ stateFileExists' = TRUE
  /\ lossy' = TRUE /\ UNCHANGED disk
  /\ Dies

\* persistToFile() cannot open the file: push_back() throws before it touches
\* a page, the sequence number being spent.
PushBackWriteFails ==
  /\ "write" \in Faults
  /\ pc = "idle" /\ LastPageFull /\ lastPage # firstPage /\ CanName
  /\ SeqNumber
  /\ ret' = "CouldNotWriteQueueFile"
  /\ UNCHANGED <<page, firstPage, lastPage, persistedFileNames, shutDown, files,
                 now, pc, destroying, q, faultHistory>>

\* loadFromFile() cannot open a file that is there: pop_front() or front()
\* throws, and the page is no longer the queue's.
LoadFails ==
  /\ "load" \in Faults
  /\ pc = "idle" /\ NeedsFile
  /\ persistedFileNames' = Tail(persistedFileNames)
  /\ ret' = "CouldNotLoadQueueFile"
  /\ q' = SubSeq(q, Len(disk[Head(persistedFileNames)]) + 1, Len(q))
  /\ lossy' = TRUE
  /\ UNCHANGED <<page, firstPage, lastPage, shutDown, lastSeqNum, seqNumCount, files,
                 now, pc, destroying, used, delivered>>

---------------------------------------------------------------------------
Push ==
  LET i == Order[Cardinality(used) + 1]
  IN  /\ Cardinality(used) < Len(Order) /\ (PushBack(i) \/ PushFront(i))
      /\ used' = used \cup {i} /\ UNCHANGED <<delivered, lossy>>
Pop == PopFront /\ delivered' = delivered \cup ({ret'} \cap Items) /\ UNCHANGED <<used, lossy>>
Discard == /\ ClearStep
           /\ delivered' = IF ret' = "clearing" /\ FrontPage # <<>> THEN delivered \cup {Head(FrontPage)}
                           ELSE delivered
           /\ UNCHANGED <<used, lossy>>

FaultNext ==
  \/ Push \/ Pop \/ Discard
  \/ /\ \/ Tick \/ Front \/ ClearCall \/ Construct \/ Shutdown(TRUE)
        \/ LoadFirst \/ LoadLast \/ WriteFirst \/ WriteLast \/ WriteState
     /\ UNCHANGED faultHistory
  \/ Crash \/ CrashWritingPage \/ CrashWritingState \/ PushBackWriteFails \/ LoadFails

FaultSpec == FaultInit /\ [][FaultNext]_faultVars

---------------------------------------------------------------------------
(* Properties *)

Held == (UNION {S!ToSet(page[s]) : s \in Slots}) \cup (UNION {S!ToSet(disk[n]) : n \in DOMAIN disk})

\* At most once: no item the client has been given is still in a page or in
\* any file a later constructor may find, whatever failed and whenever the
\* process died.
NeverTwice == delivered \cap Held = {}

\* A live queue is its pages put end to end also after crashes, torn page
\* files and refused writes: a page that was cut short is found first or last,
\* never between full pages, so size() and empty() stay exact.  Only a torn
\* STATE file and a page that could not be loaded end this.  A crash makes q
\* what the files hold; how much that may drop is CrashKeepsFiledPages.
QueueOnPagesAfterFaults ==
  ~lossy => QueueOnPages /\ SizeIsLength /\ (pc = "down" => QueueInFiles(RecoveryNames))

\* What a dying process leaves is one unbroken stretch of the queue, which
\* holds every page that was on file before.
CrashKeepsFiledPages ==
  [][pc = "idle" /\ pc' = "down" /\ ~lossy
       => /\ \E k \in 0 .. Len(q) : q' = SubSeq(q, k + 1, k + Len(q'))
          /\ Len(q') >= Len(persistedFileNames) * MaxItemsPerPage]_faultVars

\* Once shutdown() has written its pages a crash loses nothing: without the
\* STATE file the sorted names put the pages back in the same order.
StateFileExpendable == [][pc = "writeState" /\ ~lossy' => q' = q]_faultVars
===========================================================================
