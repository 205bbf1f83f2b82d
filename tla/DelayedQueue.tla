--------------------------- MODULE DelayedQueue ---------------------------
(***************************************************************************)
(* kisscpp::ThreadsafePersistedDelayedQueue: a persisted queue with a map  *)
(* of items that may not be popped yet, by the second they are due in.     *)
(* Every call but shutdown() holds the object's mutex: it is two steps, it *)
(* takes the mutex, then acts and lets it go.  shutdown() moves the items  *)
(* one by one and shuts the persisted queue down, all without the mutex.   *)
(* A call that is under way at the same time races with it for the map and *)
(* the persisted queue: the model takes their steps in any order, with     *)
(* either result of the test of _shut_down, and nothing is claimed from    *)
(* then on.  The persisted queue is the FIFO queue PersistedQueue is       *)
(* proved to implement.                                                    *)
(***************************************************************************)
EXTENDS Integers, Sequences, FiniteSets

CONSTANTS Items,      \* the objects queued, each pushed once
          MaxDelay,   \* bound: longest delay asked for
          LastPush    \* bound: last second in which an item is pushed

ASSUME BoundsAssumption == MaxDelay \in Nat \ {0} /\ LastPush \in Nat

VARIABLES persistedQ, delayedMap, shutDown,
          up,         \* the object exists
          holder,     \* objectMutex: "none", or the call of the thread that has it
          shutting,   \* shutdown(): "no", or what it does next: "move", "pop", "return"; "crashed"
          map_keys,   \* its copy of the keys, in their order: those still to be moved
          now,        \* time(NULL)
          pushed,     \* history: items pushed
          release,    \* history: the second in which a delayed item is due
          delivered,  \* history: items popped
          forced,     \* history: items moved before they were due, by a shutdown
          kept,       \* history: items pushed by the end of shutdown()
          overlapped  \* history: whether a shutdown() and a call overlapped

history == <<pushed, release, delivered, forced>>
closing == <<shutting, map_keys, kept>>
vars == <<persistedQ, delayedMap, shutDown, up, now, holder, history, closing, overlapped>>

SeqExt == INSTANCE SequencesExt

MaxTime == LastPush + MaxDelay + 2

Calls == {"push", "pop", "empty"}

TypeOK ==
  /\ persistedQ \in Seq(Items) /\ shutDown \in BOOLEAN /\ up \in BOOLEAN /\ now \in 1 .. MaxTime
  /\ DOMAIN delayedMap \subseteq 1 .. MaxTime
  /\ \A k \in DOMAIN delayedMap : delayedMap[k] \in Seq(Items) /\ (delayedMap[k] = <<>> => shutting # "no")
  /\ pushed \subseteq Items /\ DOMAIN release \subseteq pushed /\ delivered \subseteq pushed
  /\ forced \subseteq Items /\ shutting \in {"no", "move", "pop", "return", "crashed"} /\ map_keys \subseteq 1 .. MaxTime
  /\ holder \in Calls \cup {"none"} /\ overlapped \in BOOLEAN

Init ==
  /\ persistedQ = <<>> /\ delayedMap = <<>> /\ shutDown = FALSE /\ up = FALSE
  /\ now = 1 /\ holder = "none"
  /\ pushed = {} /\ release = <<>> /\ delivered = {} /\ forced = {}
  /\ shutting = "no" /\ map_keys = {} /\ kept = {} /\ overlapped = FALSE

\* The object can be used, in a process that is alive.
Live == up /\ shutting # "crashed"

Tick == /\ now < MaxTime /\ now' = now + 1
        /\ ~overlapped /\ (holder = "push" => now < LastPush)
        /\ UNCHANGED <<persistedQ, delayedMap, shutDown, up, holder, history, closing, overlapped>>

---------------------------------------------------------------------------
\* moveExpired(): nothing unless forced or the persisted queue is empty.
ExpiredKeysAtOnce(m, force) == {k \in DOMAIN m : force \/ k <= now}
ExpiredKeys(m, force) == {k \in DOMAIN m : force \/ k < now}

\* The key that the map gives first.
FirstKey(keys) == CHOOSE k \in keys : \A j \in keys : k <= j

\* The items of the map under the keys, in the order of the keys: those under
\* the keys up to t are the ones before t and then those of t.
JoinedNewestFirst(before, list) == list \o before
Joined(before, list) == before \o list
ItemsUpTo(m, keys) ==
  LET items[t \in 0 .. MaxTime] ==
        IF t = 0 THEN <<>> ELSE Joined(items[t - 1], IF t \in keys THEN m[t] ELSE <<>>)
  IN  items
ItemsAt(m, keys) == ItemsUpTo(m, keys)[MaxTime]

Erase(m, keys) == [k \in DOMAIN m \ keys |-> m[k]]

MovedKeys(q, m, force) == IF force \/ q = <<>> THEN ExpiredKeys(m, force) ELSE {}

\* What push_back() and pop_front() may find when they test _shut_down.
FindsOpen == ~shutDown \/ overlapped
FindsShut == shutDown \/ overlapped

\* The first push_back() on a queue that is shut down throws, before anything
\* is moved.
MoveThrows(q, m, force) == FindsShut /\ MovedKeys(q, m, force) # {}
MoveGoes(q, m, force) == FindsOpen \/ MovedKeys(q, m, force) = {}
MovedQ(q, m, force) == q \o ItemsAt(m, MovedKeys(q, m, force))
MovedMap(q, m, force) == Erase(m, MovedKeys(q, m, force))

NoteForced == forced' = forced \cup UNION {SeqExt!ToSet(delayedMap[k]) : k \in {j \in DOMAIN delayedMap : j >= now}}

---------------------------------------------------------------------------
(* The calls that hold the mutex *)

\* The thread has the mutex, for which shutdown() has not asked.  Bound: once a
\* call has overlapped shutdown() both go on, but no other call begins and the
\* clock stands still.
Begin(c) ==
  /\ Live /\ holder = "none" /\ holder' = c /\ ~overlapped
  /\ c = "push" => now <= LastPush /\ pushed # Items
  /\ overlapped' = (shutting # "no")
  /\ UNCHANGED <<persistedQ, delayedMap, shutDown, up, now, history, closing>>

Returns(c) ==
  /\ Live /\ holder = c /\ holder' = "none"
  /\ UNCHANGED <<shutDown, up, now, closing, overlapped>>

Delayed(i, k) ==
  [j \in DOMAIN delayedMap \cup {k} |->
     LET list == IF j \in DOMAIN delayedMap THEN delayedMap[j] ELSE <<>>
     IN  IF j = k THEN Append(list, i) ELSE list]

\* QueueShutDown is thrown.
Refused == UNCHANGED <<persistedQ, delayedMap, history>>

\* push(i, d); with a delay it does not ask the persisted queue.
PushNow(i) ==
  \/ FindsShut /\ Refused
  \/ /\ FindsOpen
     /\ persistedQ' = Append(persistedQ, i)
     /\ pushed' = pushed \cup {i}
     /\ UNCHANGED <<delayedMap, release, delivered, forced>>

PushLater(i, d) ==
  LET m == Delayed(i, now + d)
  IN  /\ pushed' = pushed \cup {i}
      /\ release' = [j \in DOMAIN release \cup {i} |-> IF j = i THEN now + d ELSE release[j]]
      /\ \/ /\ MoveThrows(persistedQ, m, FALSE)
            /\ delayedMap' = m /\ UNCHANGED persistedQ
         \/ /\ MoveGoes(persistedQ, m, FALSE)
            /\ persistedQ' = MovedQ(persistedQ, m, FALSE)
            /\ delayedMap' = MovedMap(persistedQ, m, FALSE)
      /\ UNCHANGED <<delivered, forced>>

Push(i) ==
  /\ Returns("push") /\ now <= LastPush /\ i \notin pushed
  /\ PushNow(i) \/ \E d \in 1 .. MaxDelay : PushLater(i, d)

PopFrom(q, m) ==
  /\ delayedMap' = m
  /\ \/ q = <<>> /\ persistedQ' = q /\ UNCHANGED delivered
     \/ /\ q # <<>> /\ persistedQ' = Tail(q)
        /\ delivered' = delivered \cup {Head(q)}
  /\ UNCHANGED <<pushed, release, forced>>

\* pop()
PopWithoutMove ==
  /\ Returns("pop")
  /\ (FindsShut /\ Refused) \/ (FindsOpen /\ PopFrom(persistedQ, delayedMap))
Pop ==
  /\ Returns("pop")
  /\ \/ FindsShut /\ Refused
     \/ FindsOpen /\ PopFrom(MovedQ(persistedQ, delayedMap, FALSE), MovedMap(persistedQ, delayedMap, FALSE))

\* empty() moves what is due before it looks.
Empty ==
  /\ Returns("empty")
  /\ \/ MoveThrows(persistedQ, delayedMap, FALSE) /\ Refused
     \/ /\ MoveGoes(persistedQ, delayedMap, FALSE)
        /\ persistedQ' = MovedQ(persistedQ, delayedMap, FALSE)
        /\ delayedMap' = MovedMap(persistedQ, delayedMap, FALSE)
        /\ UNCHANGED history

\* size(): the persisted queue and every list of the map.
Size == Len(persistedQ) + Len(ItemsAt(delayedMap, DOMAIN delayedMap))

---------------------------------------------------------------------------
(* shutdown(), which does not take the mutex: moveExpired(true) goes through *)
(* the keys it copied, moves each list item by item, and erases it.          *)

ShutdownKeysExpired == ExpiredKeys(delayedMap, FALSE)
ShutdownKeys == ExpiredKeys(delayedMap, TRUE)

ShutdownBegins ==
  /\ Live /\ shutting = "no" /\ shutting' = "move" /\ map_keys' = ShutdownKeys
  /\ ~overlapped /\ overlapped' = (holder # "none")
  /\ UNCHANGED <<persistedQ, delayedMap, shutDown, up, now, holder, history, kept>>

\* A key that another call has erased gives a null pointer, and one whose list
\* another call has emptied has nothing to pop.
Crash ==
  /\ Live /\ map_keys # {}
  /\ \/ shutting \in {"move", "pop"} /\ FirstKey(map_keys) \notin DOMAIN delayedMap
     \/ shutting = "pop" /\ FirstKey(map_keys) \in DOMAIN delayedMap /\ delayedMap[FirstKey(map_keys)] = <<>>
  /\ shutting' = "crashed"
  /\ UNCHANGED <<persistedQ, delayedMap, shutDown, up, now, holder, history, map_keys, kept, overlapped>>

\* push_back() of the front of the list, which throws if an earlier shutdown()
\* has shut the persisted queue down.
MoveItem ==
  /\ Live /\ shutting = "move" /\ map_keys # {} /\ FirstKey(map_keys) \in DOMAIN delayedMap
  /\ delayedMap[FirstKey(map_keys)] # <<>>
  /\ LET i == Head(delayedMap[FirstKey(map_keys)])
     IN  \/ /\ shutDown /\ shutting' = "no" /\ map_keys' = {} /\ UNCHANGED <<persistedQ, forced>>
         \/ /\ ~shutDown /\ persistedQ' = Append(persistedQ, i) /\ shutting' = "pop"
            /\ forced' = IF FirstKey(map_keys) < now THEN forced ELSE forced \cup {i}
            /\ UNCHANGED map_keys
  /\ UNCHANGED <<delayedMap, shutDown, up, now, holder, pushed, release, delivered, kept, overlapped>>

PopMoved ==
  /\ Live /\ shutting = "pop" /\ FirstKey(map_keys) \in DOMAIN delayedMap /\ delayedMap[FirstKey(map_keys)] # <<>>
  /\ delayedMap' = [delayedMap EXCEPT ![FirstKey(map_keys)] = Tail(@)] /\ shutting' = "move"
  /\ UNCHANGED <<persistedQ, shutDown, up, now, holder, history, map_keys, kept, overlapped>>

EraseKey ==
  /\ Live /\ shutting = "move" /\ map_keys # {} /\ FirstKey(map_keys) \in DOMAIN delayedMap
  /\ delayedMap[FirstKey(map_keys)] = <<>>
  /\ delayedMap' = Erase(delayedMap, {FirstKey(map_keys)}) /\ map_keys' = map_keys \ {FirstKey(map_keys)}
  /\ UNCHANGED <<persistedQ, shutDown, up, now, holder, history, shutting, kept, overlapped>>

\* persistedQ->shutdown(), whose first step is to set _shut_down; its others
\* write the files, with what the queue then holds.
ShutdownEnds ==
  /\ Live /\ shutting = "move" /\ map_keys = {} /\ shutting' = "return"
  /\ shutDown' = TRUE /\ kept' = IF shutDown THEN kept ELSE pushed
  /\ UNCHANGED <<persistedQ, delayedMap, up, now, holder, history, map_keys, overlapped>>

ShutdownReturns ==
  /\ Live /\ shutting = "return" /\ shutting' = "no"
  /\ UNCHANGED <<persistedQ, delayedMap, shutDown, up, now, holder, history, map_keys, kept, overlapped>>

Shutdown == ShutdownBegins \/ MoveItem \/ PopMoved \/ EraseKey \/ ShutdownEnds \/ ShutdownReturns \/ Crash

---------------------------------------------------------------------------
\* The destructor moves everything too and destroys the persisted queue, which keeps
\* its contents on disk; what shutting that queue down a second time does to
\* them is the subject of PersistedQueue.
Destroy ==
  /\ up /\ ~shutDown /\ shutting = "no" /\ holder = "none" /\ up' = FALSE
  /\ persistedQ' = MovedQ(persistedQ, delayedMap, TRUE)
  /\ delayedMap' = MovedMap(persistedQ, delayedMap, TRUE)
  /\ NoteForced
  /\ UNCHANGED <<shutDown, now, holder, pushed, release, delivered, closing, overlapped>>

\* After an explicit shutdown(), an exception thrown by moveExpired() leaves
\* the destructor, and with it the program.
DestroyThrows ==
  /\ up /\ shutting = "no" /\ holder = "none" /\ MoveThrows(persistedQ, delayedMap, TRUE)
  /\ up' = FALSE
  /\ UNCHANGED <<persistedQ, delayedMap, shutDown, now, holder, history, closing, overlapped>>

Construct ==
  /\ ~up /\ ~shutDown /\ up' = TRUE
  /\ UNCHANGED <<persistedQ, delayedMap, shutDown, now, holder, history, closing, overlapped>>

Next ==
  \/ Tick \/ Construct \/ Destroy \/ DestroyThrows \/ Shutdown
  \/ \E c \in Calls : Begin(c)
  \/ \E i \in Items : Push(i)
  \/ Pop \/ Empty

Spec == Init /\ [][Next]_vars

\* Time passes, calls return, and a consumer calls pop() whenever there is an
\* object to call it on and the mutex is free; destroyed without a shutdown(),
\* the object is constructed again.
Return == Pop \/ Empty \/ \E i \in Items : Push(i)
Fairness == WF_vars(Tick) /\ WF_vars(Return) /\ SF_vars(Begin("pop")) /\ WF_vars(Construct)
FairSpec == Spec /\ Fairness

---------------------------------------------------------------------------
(* Properties *)

\* The copies of i that are held, not counting the one in the map that
\* shutdown() has moved and is about to pop.
Copies(i) ==
  LET all == persistedQ \o ItemsAt(delayedMap, DOMAIN delayedMap)
      moved == shutting = "pop" /\ Head(delayedMap[FirstKey(map_keys)]) = i
  IN  Cardinality({n \in DOMAIN all : all[n] = i}) - (IF moved THEN 1 ELSE 0)

\* push(), pop(), moveExpired() and shutdown() pass items between the map and
\* the persisted queue and lose and double none: every item pushed and not
\* popped is held once, size() counts it, and shutdown() leaves in the map, to
\* be lost with the object, only what was pushed after it, and follows no null
\* pointer.  The calls of the other threads come before shutdown() and after
\* it: of one that overlaps it, and races with it, nothing is claimed.
NothingStranded ==
  ~overlapped =>
    /\ shutting # "crashed"
    /\ \A i \in Items : Copies(i) = IF i \in pushed \ delivered THEN 1 ELSE 0
    /\ shutDown => kept \cap UNION {SeqExt!ToSet(delayedMap[k]) : k \in DOMAIN delayedMap} = {}
    /\ ~shutDown /\ shutting = "no" => Size = Cardinality(pushed \ delivered)

\* An item waits its whole delay: pop() does not give it out in the second in
\* which it comes due, which may be less than the delay after the push, nor
\* before, unless the destructor moved it or a call overlapped a shutdown().
NeverEarly ==
  [][~overlapped => \A i \in (delivered' \ delivered) \cap DOMAIN release : i \notin forced => now > release[i]]_vars

\* Delayed items are popped in the order in which they come due, however pops
\* and pushes fell between, although items due are moved in batches and only
\* while the persisted queue is empty; unless a call overlapped a shutdown().
InDueOrder ==
  [][~overlapped => \A i \in delivered' \ delivered, j \in delivered :
       {i, j} \subseteq DOMAIN release \ forced => release[j] <= release[i]]_vars

\* With a consumer that keeps popping, everything pushed is popped in the end,
\* if producers pause and nobody shuts the queue down.
EventuallyDelivered == []<>(pushed = delivered \/ shutDown \/ shutting # "no")
===========================================================================
