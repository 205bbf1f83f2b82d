--------------------------- MODULE PriorityQueue ---------------------------
(***************************************************************************)
(* kisscpp::ThreadsafePersistedPriorityQueue over one PersistedQueue per   *)
(* level, each used as the queue it implements (FifoQueue): what it holds  *)
(* survives the object.  A call that locks objectMutex is two steps: it    *)
(* takes the mutex, then acts and lets it go.  Consumers ask empty() before*)
(* they pop(), and return an item they could not process with              *)
(* push_back_last_pop(), which looks at lastPopLevel before it locks.      *)
(* clear() and shutdown() take no lock and go from level to level; on a    *)
(* level that is shut down push_back() and pop_front() throw.  A call that *)
(* is under way at the same time as clear() or shutdown() may race with it *)
(* for a level's queue: their steps come in any order, with either result  *)
(* of the test of _shut_down, and nothing is claimed from then on.         *)
(***************************************************************************)
EXTENDS Integers, Sequences, SequencesExt

CONSTANTS Items, Consumers,
          levels,         \* priorityLevels, at least one
          MaxPriority,    \* bound: the priorities callers give
          MaxReturns      \* bound: calls of push_back_last_pop()

VARIABLES
  persistedQList,    \* the queue of each level
  shut,              \* the levels that shutdown() has been through: those below this one
  stopping,          \* shutdown() is under way
  lastPopLevel, lastPopedObject,
  objectMutex,       \* "free", or who has it: "producer" or a consumer
  pc,                \* each consumer, in empty(), "popping" or "returning" with the mutex;
                     \* or past empty(), past the test of lastPopLevel, in clear(), or idle
  clearing,          \* the levels each consumer's clear() still has to go through
  outOfRange,        \* whether persistedQList was indexed outside it
  fresh, taken,      \* items not pushed yet; items popped and not returned
  mine,              \* history: the item each consumer popped last and has not returned
  misreturned,       \* history: whether a consumer's return put back another's item, or left out its own
  priority,          \* history: the level each item was pushed to
  returns,           \* history: calls of push_back_last_pop()
  raced              \* history: whether a call overlapped another's clear() or shutdown()

lastPop == <<lastPopLevel, lastPopedObject>>
items == <<persistedQList, fresh, taken, mine, priority>>
closing == <<shut, stopping>>
notes == <<outOfRange, misreturned>>
vars == <<items, lastPop, closing, objectMutex, pc, clearing, returns, raced, notes>>

Levels == 0 .. levels - 1
None == "none"

\* What the constants are taken to be.
Bounds == levels \in Nat \ {0} /\ MaxPriority \in Nat /\ MaxReturns \in Nat /\ None \notin Items

TypeOK ==
  /\ DOMAIN persistedQList = Levels /\ shut \in 0 .. levels /\ stopping \in BOOLEAN
  /\ lastPopLevel \in -1 .. levels /\ lastPopedObject \in Items \cup {None}
  /\ pc \in [Consumers -> {"idle", "empty", "pop", "popping", "return", "returning", "clear"}]
  /\ objectMutex \in {"free", "producer"} \cup Consumers
  /\ clearing \in [Consumers -> SUBSET Levels] /\ mine \in [Consumers -> Items \cup {None}]
  /\ fresh \subseteq Items /\ taken \subseteq Items
  /\ {outOfRange, misreturned, raced} \subseteq BOOLEAN

Init ==
  /\ persistedQList = [i \in Levels |-> <<>>] /\ shut = 0 /\ stopping = FALSE
  /\ lastPopLevel = -1 /\ lastPopedObject = None /\ objectMutex = "free"
  /\ pc = [c \in Consumers |-> "idle"] /\ clearing = [c \in Consumers |-> {}]
  /\ fresh = Items /\ taken = {} /\ mine = [c \in Consumers |-> None]
  /\ priority = [x \in Items |-> 0] /\ returns = 0
  /\ outOfRange = FALSE /\ misreturned = FALSE /\ raced = FALSE

\* The test that push_back() and pop_front() of a level's queue make.
OpenLevel(i) == i >= shut
FindsOpen(i) == OpenLevel(i) \/ raced
FindsShut(i) == ~OpenLevel(i) \/ raced

PushBack(i, x) == persistedQList' = [persistedQList EXCEPT ![i] = Append(@, x)]
Goes(c, from, to) == ~outOfRange /\ pc[c] = from /\ pc' = [pc EXCEPT ![c] = to]

\* Who uses the queues without the mutex.
Unlocked == stopping \/ \E c \in Consumers : pc[c] = "clear"

\* A call begins.  Bound: once calls have raced those under way go on, and no
\* other begins.
Locks(who) == /\ ~raced /\ raced' = Unlocked
              /\ objectMutex = "free" /\ objectMutex' = who
DoesNotLock == /\ ~raced /\ raced' = (Unlocked \/ objectMutex # "free")
               /\ UNCHANGED objectMutex

Unlocks(who) == objectMutex = who /\ objectMutex' = "free" /\ UNCHANGED raced

---------------------------------------------------------------------------
\* push(): a priority beyond the last level is the last level.
ClampedLate(p) == IF p > levels THEN levels - 1 ELSE p
Clamped(p) == IF p >= levels THEN levels - 1 ELSE p

PushBegins ==
  /\ ~outOfRange /\ fresh # {} /\ Locks("producer")
  /\ UNCHANGED <<items, lastPop, closing, pc, clearing, returns, notes>>

Push(x, p) ==
  /\ ~outOfRange /\ x \in fresh /\ Unlocks("producer") /\ outOfRange' = (Clamped(p) \notin Levels)
  /\ \/ FindsShut(Clamped(p)) /\ UNCHANGED items
     \/ /\ FindsOpen(Clamped(p)) /\ PushBack(Clamped(p), x)
        /\ fresh' = fresh \ {x} /\ priority' = [priority EXCEPT ![x] = Clamped(p)] /\ UNCHANGED <<taken, mine>>
  /\ UNCHANGED <<lastPop, closing, pc, clearing, returns, misreturned>>

\* The loop of empty() and pop(): the first level that is not empty.
LastLevel ==
  LET full == {i \in Levels : persistedQList[i] # <<>>}
  IN  IF full = {} THEN levels ELSE CHOOSE i \in full : \A j \in full : j <= i
FirstLevel ==
  LET full == {i \in Levels : persistedQList[i] # <<>>}
  IN  IF full = {} THEN levels ELSE CHOOSE i \in full : \A j \in full : i <= j

\* empty(): if it says no the consumer will pop.
EmptyBegins(c) ==
  /\ Goes(c, "idle", "empty") /\ Locks(c)
  /\ UNCHANGED <<items, lastPop, closing, clearing, returns, notes>>

Empty(c) ==
  /\ Goes(c, "empty", IF FirstLevel = levels THEN "idle" ELSE "pop") /\ Unlocks(c)
  /\ UNCHANGED <<items, lastPop, closing, clearing, returns, notes>>

PopBegins(c) ==
  /\ Goes(c, "pop", "popping") /\ Locks(c)
  /\ UNCHANGED <<items, lastPop, closing, clearing, returns, notes>>

\* pop(), which does not look whether it found a level, and sets lastPopLevel
\* before pop_front() may throw.
PopFront(c, i) ==
  LET x == Head(persistedQList[i])
  IN  /\ lastPopedObject' = x /\ mine' = [mine EXCEPT ![c] = x] /\ taken' = taken \cup {x}
      /\ persistedQList' = [persistedQList EXCEPT ![i] = Tail(@)]
      /\ UNCHANGED <<fresh, priority>>

Pop(c) ==
  /\ Goes(c, "popping", "idle") /\ Unlocks(c) /\ lastPopLevel' = FirstLevel
  /\ \/ FirstLevel = levels /\ outOfRange' = TRUE /\ UNCHANGED <<items, lastPopedObject>>
     \/ FirstLevel # levels /\ FindsShut(FirstLevel) /\ UNCHANGED <<items, lastPopedObject, outOfRange>>
     \/ FirstLevel # levels /\ FindsOpen(FirstLevel) /\ PopFront(c, FirstLevel) /\ UNCHANGED outOfRange
  /\ UNCHANGED <<closing, clearing, returns, misreturned>>

\* push_back_last_pop(): the test, without the lock ...
ReturnTests(c) ==
  /\ ~raced /\ returns < MaxReturns /\ returns' = returns + 1
  /\ \/ lastPopLevel >= 0 /\ Goes(c, "idle", "return") /\ UNCHANGED <<mine, misreturned>>
     \/ /\ lastPopLevel < 0 /\ Goes(c, "idle", "idle")
        /\ mine' = [mine EXCEPT ![c] = None] /\ misreturned' = (misreturned \/ mine[c] # None)
  /\ UNCHANGED <<persistedQList, fresh, taken, priority, lastPop, closing, objectMutex, clearing, raced, outOfRange>>

ReturnLocks(c) ==
  /\ Goes(c, "return", "returning") /\ Locks(c)
  /\ UNCHANGED <<items, lastPop, closing, clearing, returns, notes>>

\* ... and the rest, which puts back what anyone popped last.
ForgetLastPopNot == UNCHANGED <<lastPopLevel, lastPopedObject>>
ForgetLastPop == lastPopLevel' = -1 /\ lastPopedObject' = None

Misreturns(c) ==
  \/ mine[c] # None /\ mine[c] # lastPopedObject
  \/ \E d \in Consumers \ {c} : mine[d] # None /\ mine[d] = lastPopedObject

ReturnEnds(c) ==
  /\ Goes(c, "returning", "idle") /\ Unlocks(c)
  /\ \/ lastPopLevel \notin Levels /\ outOfRange' = TRUE /\ UNCHANGED <<items, lastPop, misreturned>>
     \/ lastPopLevel \in Levels /\ FindsShut(lastPopLevel) /\ UNCHANGED <<items, lastPop, notes>>
     \/ /\ lastPopLevel \in Levels /\ FindsOpen(lastPopLevel) /\ PushBack(lastPopLevel, lastPopedObject)
        /\ taken' = taken \ {lastPopedObject} /\ mine' = [mine EXCEPT ![c] = None]
        /\ misreturned' = (misreturned \/ Misreturns(c)) /\ ForgetLastPop
        /\ UNCHANGED <<fresh, priority, outOfRange>>
  /\ UNCHANGED <<closing, clearing, returns>>

---------------------------------------------------------------------------
\* clear(level), clear(), called by a consumer between its other calls: the
\* items of one level after the other are popped, until none is left or the
\* level is found shut down.
ClearBegins(c, some) ==
  /\ Goes(c, "idle", "clear") /\ DoesNotLock /\ clearing' = [clearing EXCEPT ![c] = some]
  /\ UNCHANGED <<items, lastPop, closing, returns, notes>>

ClearEnds(c) ==
  /\ clearing[c] = {} /\ Goes(c, "clear", "idle")
  /\ UNCHANGED <<items, lastPop, closing, objectMutex, clearing, returns, raced, notes>>

ClearStep(c) ==
  /\ ~outOfRange /\ pc[c] = "clear"
  /\ \E i \in clearing[c] :
       /\ \A j \in clearing[c] : i <= j
       /\ \/ persistedQList[i] = <<>> /\ clearing' = [clearing EXCEPT ![c] = @ \ {i}] /\ UNCHANGED items
          \/ persistedQList[i] # <<>> /\ FindsShut(i) /\ clearing' = [clearing EXCEPT ![c] = {}] /\ UNCHANGED items
          \/ /\ persistedQList[i] # <<>> /\ FindsOpen(i)
             /\ persistedQList' = [persistedQList EXCEPT ![i] = Tail(@)]
             /\ taken' = taken \cup {Head(persistedQList[i])} /\ UNCHANGED <<fresh, mine, priority, clearing>>
  /\ UNCHANGED <<lastPop, closing, objectMutex, pc, returns, raced, notes>>

\* shutdown(), called once: one level after the other.
ShutdownBegins ==
  /\ ~outOfRange /\ ~stopping /\ shut = 0 /\ stopping' = TRUE /\ DoesNotLock
  /\ UNCHANGED <<items, lastPop, shut, pc, clearing, returns, notes>>

Shutdown ==
  /\ stopping
  /\ \/ shut < levels /\ shut' = shut + 1 /\ UNCHANGED stopping
     \/ shut = levels /\ stopping' = FALSE /\ UNCHANGED shut
  /\ UNCHANGED <<items, lastPop, objectMutex, pc, clearing, returns, raced, notes>>

\* The object is destroyed, and made again over the files of its queues, if
\* its owner has left shutdown() to it.  Consumers keep what they have popped:
\* the new object knows of none to return.
DestroyAndCreate ==
  /\ shut = 0 /\ ~stopping /\ ~outOfRange /\ objectMutex = "free" /\ \A c \in Consumers : pc[c] = "idle"
  /\ lastPopLevel' = -1 /\ lastPopedObject' = None /\ mine' = [c \in Consumers |-> None]
  /\ UNCHANGED <<persistedQList, fresh, taken, priority, closing, objectMutex, pc, clearing, returns, raced, notes>>

Next ==
  \/ PushBegins \/ \E x \in Items, p \in 0 .. MaxPriority : Push(x, p)
  \/ \E c \in Consumers : EmptyBegins(c) \/ Empty(c) \/ PopBegins(c) \/ Pop(c)
  \/ \E c \in Consumers : ReturnTests(c) \/ ReturnLocks(c) \/ ReturnEnds(c)
  \/ \E c \in Consumers : ClearBegins(c, Levels) \/ \E i \in Levels : ClearBegins(c, {i})
  \/ \E c \in Consumers : ClearStep(c) \/ ClearEnds(c)
  \/ ShutdownBegins \/ Shutdown \/ DestroyAndCreate

Spec == Init /\ [][Next]_vars

---------------------------------------------------------------------------
(* Properties *)

Queued == UNION {ToSet(persistedQList[i]) : i \in Levels}

\* With one consumer, which asks empty() first, no call reaches outside the
\* list of queues, and push_back_last_pop() puts back the item it popped last,
\* unless a call overlapped a clear() or a shutdown().
InRange == (\E c \in Consumers : Consumers = {c}) /\ ~raced => ~outOfRange /\ ~misreturned

\* No item is lost or in two places: each is not pushed yet, in one queue once
\* and at the level it was pushed to, or taken; and what a consumer popped last
\* and has not returned is taken, and no other consumer's.  Nothing is claimed
\* once a call has overlapped a clear() or a shutdown(), or once the object
\* that push_back_last_pop() put back was not the one its caller had popped.
EachItemOnce ==
  ~raced /\ ~misreturned =>
    /\ Queued \cap taken = {} /\ Queued \cap fresh = {} /\ Queued \cup taken \cup fresh = Items
    /\ \A i \in Levels : IsInjective(persistedQList[i]) /\ \A x \in ToSet(persistedQList[i]) : priority[x] = i
    /\ \A c \in DOMAIN mine : mine[c] # None => mine[c] \in taken /\ \A d \in DOMAIN mine \ {c} : mine[d] # mine[c]

\* A pop gives an item while none of a higher priority waits, whatever was
\* pushed or returned since empty() was asked; under the same conditions.
HighestFirst ==
  [][~raced /\ ~misreturned =>
       \A x \in taken' \ taken : lastPopedObject' = x => \A y \in Queued : priority[x] <= priority[y]]_vars
===========================================================================
