--------------------- MODULE ThreadsafePersistedQueue ---------------------
(***************************************************************************)
(* kisscpp::ThreadsafePersistedQueue: a PersistedQueue whose calls hold    *)
(* objectMutex, all but shutdown(), which one thread may be in while       *)
(* another is past the test of _shut_down in its own call.  A call is two  *)
(* steps: it takes the mutex and makes the test, then acts on the pages    *)
(* and lets the mutex go, by return or by exception.  What a call and a    *)
(* shutdown() that overlap do to each other's pages is a data race: the    *)
(* model takes either order of their steps, and nothing is claimed of it.  *)
(***************************************************************************)
EXTENDS PersistedQueue

VARIABLES holder,      \* objectMutex: "none", or the call of the thread that has it
          overlapped,  \* history: whether a shutdown() and a call overlapped
          twice        \* history: whether an object was shut down a second time, by its destructor

threadHistory == <<overlapped, twice>>
threadVars == <<vars, holder, threadHistory>>

Calls == {"push", "pop", "front"}

ThreadInit == Init /\ holder = "none" /\ overlapped = FALSE /\ twice = FALSE

\* The constructor has returned, and the destructor has not been called.
Constructed == pc \in {"idle", "writeFirst", "writeLast", "writeState"} /\ ~destroying

OpenAlways == TRUE
Open == ~shutDown

\* push(), pop() or front() takes the mutex; the first two make the test.  A
\* push is tried while a page can still be named after shutdown() has named one.
Begin(c) ==
  /\ Constructed /\ holder = "none"
  /\ c = "push" => Len(q) < MaxLen /\ CanName /\ SeqCount + 1 < PagesPerSecond
  /\ \/ (c = "front" \/ Open) /\ holder' = c /\ UNCHANGED <<memory, files, ret, q>>
     \/ c # "front" /\ ~Open /\ Refused /\ UNCHANGED holder
  /\ overlapped' = (overlapped \/ (c = "front" /\ pc # "idle"))
  /\ UNCHANGED <<now, pc, destroying, twice>>

End ==
  /\ \/ holder = "push" /\ \E i \in Items : PushBackItem(i)
     \/ holder = "pop" /\ PopItem(FALSE)
     \/ holder = "front" /\ FrontItem
  /\ holder' = "none"
  /\ UNCHANGED <<now, pc, destroying, threadHistory>>

\* shutdown() asks for no mutex.  Bound: once for each object.
ShutdownCall ==
  /\ ~shutDown /\ Shutdown(FALSE)
  /\ overlapped' = (overlapped \/ holder # "none")
  /\ UNCHANGED <<holder, twice>>

\* The destructor has the mutex while it destroys the PersistedQueue.
Destroy ==
  /\ holder = "none" /\ Shutdown(TRUE)
  /\ twice' = (twice \/ shutDown)
  /\ UNCHANGED <<holder, overlapped>>

ThreadNext ==
  \/ \E c \in Calls : Begin(c)
  \/ End \/ ShutdownCall \/ Destroy
  \/ (Tick \/ Construct \/ CallStep) /\ UNCHANGED <<holder, threadHistory>>

ThreadSpec == ThreadInit /\ [][ThreadNext]_threadVars

---------------------------------------------------------------------------
(* Properties *)

\* When shutdown() has returned, and no call of another thread overlapped it,
\* the files hold the queue, and calls that come later, which find it shut
\* down, leave it so; the same is true when the destructor has returned.
ShutdownPersists ==
  (pc = "down" \/ (pc = "idle" /\ shutDown)) /\ ~overlapped /\ ~twice => QueueInFiles(stateFile)
===========================================================================
