# kisscpp in TLA+

This directory models kisscpp, a C++ library for small TCP servers that exchange one-line JSON
messages, and the disk-backed queues such servers keep their work in. The modules are translated
from the code in `src/kisscpp` and, for one, `src/examples/kcsrt`. TLC checks them on small
instances; TLAPS proves the safety properties of the queues, of requests, of lock files, of logs, of
statistics and of error reports for every instance.

Names of constants, variables and operators are those of the code where TLA+ allows it. A comment
above each definition says which function it stands for; `PROJECT.json` gives its lines.

## 1. The system

| Component | State | Operations | What is hard | What makes it correct |
|---|---|---|---|---|
| `PersistedQueue` | first and last page in memory, a list of page files, the files, the STATE file, the counter file names are made from | `push_back`, `push_front`, `pop_front`, `front`, `clear`, `empty`, `size`, `shutdown`, constructor, destructor | pages move between memory and disk; the process may die between two file operations | nothing lost, doubled or reordered; what is on disk after the destructor is the queue |
| `ThreadsafePersistedDelayedQueue` | a persisted queue and a map from seconds to items | `push` with a delay, `pop`, `empty`, `size`, `shutdown` | items are moved lazily, and only while the queue is empty; `shutdown` without the mutex | never early, in due order, in the end, none stranded |
| `ThreadsafePersistedPriorityQueue` | one persisted queue per level, the last popped object | `push`, `pop`, `push_back_last_pop`, `clear`, `shutdown` | tests made before the lock is taken; `clear` and `shutdown` without it, level by level | each item in one place, highest priority first |
| `ThreadsafePersistedQueue` | a persisted queue and a mutex | the calls of the queue | `shutdown` without the mutex | what `shutdown` has written stays the queue |
| `client` | an `io_service`, a socket, a timer | the constructor and four handlers | the timer races the reply; retries | it ends; an answer in time is returned; retries do not repeat work that was answered |
| `Server`, `IoServicePool` | a thread per `io_service`, waits for signals, an accept in progress | run, stop, accept, reopen the log | a blocking read in the accepting thread; one-shot waits | stops when told, answers every client |
| lock file | a file per instance | check, create, remove | two processes starting; constructors that throw | a process that serves has its file; a clean stop leaves none |
| `Connection`, `RequestRouter`, standard handlers | request, response, handler map | read, check, parse, route, answer | exceptions through three layers | a failure is explained, a success is whole, only allowed requests are handled |
| `Config`, `ptreeMerge` | a tree merged from two files, the white lists | load, merge, populate, query | paths taken for names in the merge | nobody is let in whom no file asked for; applications are allowed as listed |
| `LogStream` | level, pool, flag and file shared by all threads | log, flush, reopen, set the level | the flag and the level are not locked | no line lost, doubled or reordered |
| `StatsKeeper` | counters, their history, a thread | set, increment, add a queue, query, gather, start, stop | the gathering takes no lock; the history may be shorter than what is read of it | the history is what was counted, period by period |
| `ErrorStateList`, `ErrorReporter` | a map of counts | set, clear, report | names in two spellings; counts read after the lock, while other threads set errors | what is cleared is not set; a report is a whole account |
| `kcsrt` (example) | a `Server`, a thread that sends, statistics | construct, run, send, echo, stop, destroy | two processes are each other's clients, and stop at any time | a process told to stop ends; the statistics of the two agree |

How they interact: a `Server` owns the pool, the router and the lock file, reads `Config`, and starts
the `StatsKeeper`; its thread for accepting calls `Connection::start`, which asks `Config` for the
white lists and the router for a handler; the standard handlers read `StatsKeeper` and
`ErrorStateList` and set the level of `LogStream`. A `client` talks to the `Connection` of another
process; the example `kcsrt` is two such processes. The three thread-safe queues are built on
`PersistedQueue`.

## 2. The modules

**The persisted queue.** `PersistedQueue` has one variable per member of the class (`page`,
`firstPage`, `lastPage`, `persistedFileNames`, `shutDown`, `lastSeqNum`, `seqNumCount`), the disk
(`disk`, `stateFile`, `stateFileExists`), the clock `now`, and the control state `pc` of the call in
progress. `firstPage` and `lastPage` are slots, so that the code's test whether the two pointers
are one object can be made. Calls that touch several files (constructor, `shutdown`, destructor,
`clear`) are sequences of steps; the others are one step. `q` is the client's own account of the
queue, the history variable the properties compare with. A file name is a pair of second and
counter; `Before` is the order `std::sort` gives to their texts.

- `FifoQueue` is what the queue promises: a sequence, and the value each call returns.
- `PersistedQueueFaults` adds a process that dies at any step, page and STATE files that are cut
  short, and files that cannot be opened.
- `ThreadsafePersistedQueue` gives the queue to threads. A call takes the mutex and tests `_shut_down`
  in one step and acts on the pages in the next; the steps of `shutdown()`, which takes no mutex,
  come anywhere between. A call that overlaps `shutdown()` is a data race: either order of the
  steps is taken, `overlapped` records it, and nothing is claimed of what follows.
- `MCPersistedQueueFaults` instantiates these two, and a client of `PersistedQueue` that keeps none
  of the rules of orderly use, so that every branch is exercised (missing files, calls after a
  shutdown).
- `PagingLemmas` and `PersistedQueueProofs` hold the lemmas and theorems about `PersistedQueue` and
  `ThreadsafePersistedQueue`, `PersistedQueueFaultsProofs` those about `PersistedQueueFaults`.

**Queues built on it.** `DelayedQueue` and `PriorityQueue` use the persisted queue as the FIFO queue
it is proved to implement. A call that holds the object's mutex is two steps: it takes the mutex
(`Begin`, `PushBegins`, `EmptyBegins`, ...), then acts and lets it go. The steps of the calls that take
no mutex come between: `shutdown()` of the delayed queue, `clear()` and `shutdown()` of the priority
queue. Such an overlap is a data race on the deque of a persisted queue. The models take the steps of
the two calls in any order, with either result of the test of `_shut_down` (`FindsOpen`, `FindsShut`),
so that a push past the test is appended after the pages are written; they record it (`overlapped`,
`raced`), and the properties claim nothing from then on. Both calls still run to their end, but no
other begins.

`shutdown()` of the delayed queue copies the keys of the map (the set `map_keys`, taken in the order
of the map) and moves and pops one item per step; a call beside it may erase the key it is at, and
then it follows a null pointer (`Crash`). `holder` is the call that has the mutex. `ItemsUpTo` is what
the loop of `moveExpired()` has appended once it is past a key. In `PriorityQueue`, `objectMutex` says
who has the mutex; the unlocked test of `push_back_last_pop` and the caller's `empty` before `pop` are
steps of their own; and `clear()` and `shutdown()` go from level to level: `shut` is the number of
levels already shut down, on which `push_back` and `pop_front` throw. Consumers share one last popped
object: `mine` is what each popped last itself, and `misreturned` says that one has put back another's
object, or left its own out. `MCQueues` checks both; `DelayedQueueProofs` and `PriorityQueueProofs`
hold their theorems.

**Requests.** `Client` models the constructor and its handlers over the queue of completed
operations of its `io_service`; the server is any server. `Server` models the pool's threads, the
queues of handlers, signals and clients; `LockFile` the processes of one instance. `Kcsrt` puts
client and server together, as the example of that name does: in each process `main()`, the one
thread of the pool, and the thread that sends. A connection is made by the kernel while the peer
listens, whether or not it serves; it is accepted, read and answered by the pool's thread only
between `run()` and the signal; the listening socket closes when the sender has been joined. It
assumes a configuration with the keys that both `Server` (`kcc-server.*`) and `kcsrt.cpp:32`
(`server.port`) read, and white lists that allow the peer. `Connection` models one connection at a
time, from the line to the answer. `MCRequests` checks `Client`, `Connection`, `LockFile` and
`Kcsrt`; `RequestProofs` holds the theorems about the first two, `ProcessProofs` those about the
others. `PropertyTree` and `Configuration` model trees, `ptreeMerge` and the white lists; `MCServer`
checks `Configuration` and `Server`.

**What a process keeps.** `LogStream`, `StatsKeeper` and `ErrorStates`, checked by `MCKeepers`, with
their theorems in `KeepersProofs`. `ErrorStates` gives each `ErrorState` a number; a report lists those
that are set in any order, for no property is about the order of their names. The report copies the
list in one step (`GetStates`) and reads the counts one by one, twice, while other threads set and clear
errors; `before` is what was set when the list was copied, and `cleared`, `capitals` and
`overcleared` record an error cleared meanwhile, a name with capitals, and an error cleared more often
than it was set. Bounds: once one of the last two holds,
errors are left alone until a report under way is sent, and no other is begun. In
`StatsKeeper` time is counted in periods, and `counted` is the history of what was counted in each;
`LastGathered` and `FullHistory` are what the two queries of the history report, an index past the
end of the deque being a value of its own (`PastEnd`).

The components an MC module puts together share no variable. Their behaviours are explored one
component at a time (`subject` says which): the union of their state spaces, and not the product,
which would add nothing. What connects components is abstracted at the boundary: `DelayedQueue` and
`PriorityQueue` rest on the refinement of `FifoQueue`; `Connection` takes any white list; `Client`
takes any server; `Server` takes any client. A module of proofs about such components extends their
MC module, and so its theorems name the very properties the runs check; the specification in a
theorem is the component's own (`Lock!Spec`), without `subject`.

## 3. The runs

Passing runs:

| Run | Checks | Bounds |
|---|---|---|
| `queue` | `PagingInv` and its parts, `SizeIsLength`, `NeverOverwritesPage`, refinement of `FifoQueue`, `CallsReturn` | two items, pages of 2, up to 7 items: a long first page, several filed pages and a last page; two pages per second in two seconds |
| `queue_faults` | `NeverTwice`, `QueueOnPagesAfterFaults`, `CrashKeepsFiledPages`, `StateFileExpendable`; `ShutdownPersists` of the thread-safe queue | five distinct items, all faults, any number of crashes; a rough client with pages of 1; any number of threads with two items and up to four of them |
| `queues` | order, delays and delivery of the delayed queue, and that nothing is stranded by its `shutdown()`; places and priorities of the priority queue; calls before, after and beside the unlocked ones | delayed: three items, delays up to 2 s; priority: two items, two levels, priorities beyond them, one and two consumers, two returns |
| `server` | stopping, accepting, reopening; who is let in against what the files ask for | pool of 3, two clients, one SIGHUP; all pairs of small files in which either one has a white list, of addresses and up to two applications, or both have lists of addresses |
| `requests` | outcome, timer and retries of a client; answers of a connection; the lock file; that peers end and their statistics agree | three attempts, every status with and without a message, garbage, lost and late answers; two addresses, two clients, all commands; three processes, three failures; two peers, one sending two messages and one sending one, either stopping at any time |
| `keepers` | log lines, the history of counters, error reports | two threads, three lines, a pool of 1; a counter beside `kcs-uptime`, a queue, a history of 2, two changes, three gatherings; two errors, counts up to 2, any number of threads that set and clear |

Bounds are small because the code is uniform beyond them: a third page between first and last is
treated as the second, a fourth log line as the third. They are chosen so that every branch fires:
pages fill, the history is trimmed, priorities exceed the levels, retries run out.

Deadlock is checked for the persisted queue (the first two runs). The other runs say
`CHECK_DEADLOCK FALSE` because their systems come to rest: all items delivered, attempts used up, the server stopped.

Runs that show a disagreement between the code and what the repository says of it:

| Run | Property that fails | What happens |
|---|---|---|
| `queue_shut_down_twice` | `DataPersisted` | `shutdown()`, then the destructor: the second STATE file omits the pages the first one listed |
| `server_silent_client` | `StopEndsRun` | a client that connects and sends nothing keeps a stop signal from ending `run()` |
| `server_second_hup` | `EveryHupReopens` | the wait for SIGHUP is not renewed |
| `all_ips` | `AllIpsPrevails` | `all-ip-addrs` of the instance's file is added behind that of the common file and not seen, although `boost_ptree.cpp:5` says that it overwrites it |
| `error_spelling` | `ClearedIsCleared` | an error set under a name with capitals and then cleared is still set: another `ErrorState`, under the lower-case name, was cleared |
| `log_flush` | `FlushEmptiesPool` | a thread that logs, or constructs a `LogStream`, takes back the `flush()` of another: `doFlush` is shared and set outside the lock |

Some properties hold only under a condition the code does not enforce, and say so. The model reaches
states outside each of these conditions, unless it says otherwise here:

- Queues: `ShutdownPersists`, `NothingStranded`, `NeverEarly` and `InDueOrder` (no call overlaps
  `shutdown()`; for the first, the destructor does not repeat it); `EachItemOnce` and `HighestFirst` (no
  call overlaps `clear()` or `shutdown()`, and nobody has put back what another popped); `InRange` (one
  consumer, no overlap); `QueueOnPagesAfterFaults` (no torn STATE file, no page that could not be
  loaded). A queue constructed in the second its predecessor named a file in would overwrite that
  file; the models leave it out (`SlowRestart`).
- `AppsAsListed` says nothing of two lists the code gets wrong. `ptreeMerge()` loses all but the first
  `application` of the instance's file when there is a common file; of an application listed twice the
  instances listed second are dropped. The documents spell the list of instances `instance_list`, which
  `configuration.cpp:160` does not read; the models have the name the code reads. Nor is anything
  claimed of the union of lists of addresses that stand in both files: the code makes it, but
  `boost_ptree.cpp:5` says that the instance's values take the place of the common ones.
- `ServesWithLock` (no two processes starting at once), `AnswerInTimeKept` (the timer had not gone off
  when the reply was read), `EveryHupReopens` (one SIGHUP, see `server_second_hup`),
  `SuccessIsWhole` and `FailuresExplained` (a handler puts `kcm-erm` with a failure, as the library's
  own do; others are not modelled).
- `HistoryIsPeriods` (no update during a gathering). `ReportAddsUp` (no error is cleared during the
  report, none was cleared more often than set, no name has capitals); threads may set errors
  meanwhile. `ClearedIsCleared`, the property that fails, also speaks only of errors that were not
  cleared more often than set.

**Fairness.** `PersistedQueue`: the steps of a call that has begun (`CallStep`), for a call waits for
nobody. `DelayedQueue`: time passes, a call that has the mutex returns, the object is made
again, and a consumer keeps calling `pop` and in the end gets the mutex (strong fairness: other calls
have it now and then). `Client`: `run()` calls
handlers that are ready, and the timer expires. `Server`: each thread runs its handlers; a
connection that waits is in the end accepted (strong fairness, since an accept may now and then
fail); clients that are not silent send or close. `Kcsrt`: `main()` and the threads run, the timer
of a request goes off, and the handler of the signal gets its turn once the connections queued
before it are served; no connection is sure to be made, and no line to be written. `StatsKeeper`:
its thread runs. Where a run puts several components together, each behaviour has the fairness of
its subject. These are what an
operating system's scheduler, clock and kernel give; nothing is assumed of signals, pushes, crashes
or calls of the application.

## 4. The proofs

The theorems hold for every value of the constants that meets the assumptions named; no bound of the
runs is used. For each component: what is proved, from what, and the inductive invariant with the
reason it is needed.

**`PersistedQueueProofs`**, for every set of items, page size (at least one item) and bound:
`TypeCorrect` without further assumption; and under `OrderlyUse` (the client leaves `shutdown()` to
the destructor, and no queue is constructed within a second its files are named after)
`PagingCorrect`, `QueueOnPagesCorrect`, `DataPersistedCorrect`, `SizeCorrect`,
`NeverOverwritesPageCorrect`, and `ImplementsFifoCorrect`, the refinement of `FifoQueue`. Both
conditions are needed: without the first, the run `queue_shut_down_twice` loses pages; without the
second, an object starts its counter at zero in a second in which its predecessor named a file, and
overwrites it.

That the pages put end to end are the queue (`QueueOnPages`) is not
inductive: a page may only be filed if its name is new (`NamesPast`), sorted last (`NamesSorted`),
and if the list names exactly the files there are (`FilesListed`); and which pages exist depends on
where the call is (`Lifecycle`). `Paging` is the conjunction, with `DataPersisted` for the time
between destructor and constructor, and `PagingInv` adds that only the destructor shuts the queue down.
`IsPaged(s, d, first, N, a, b, last)` is stated by positions and not by concatenation, so that each
change can be shown by arithmetic: item `i` of page `k` is at place
`Len(first) + (k - a) * MaxItemsPerPage + i`.
`PagingLemmas` shows what each change does to such a paging: an item at either end, a page filed,
read back, or made the first page, a name added to or dropped from the sorted list; and that a sequence
is determined by its pages (`PagedUnique`) and a sorted list by the names in it (`ListingUnique`).
`PersistedQueueProofs` has one lemma per action, put together in `OrderlyPaging` and `NextPaging`.
`SizeCorrect` follows from the invariant by counting pages; `NeverOverwritesPageCorrect` because only a
new name is ever written; `ImplementsFifoCorrect` from the fact that the front page begins with the head
of `q` (`FrontIsOldest`), action by action (`FifoStep`).

`ShutdownPersistsCorrect`, of `ThreadsafePersistedQueue` and under `SlowRestart` (a constructor runs in a
later second than the one any page file is named after), uses the same lemmas for calls that come
between the steps of `shutdown()`. `ThreadInv`: until a call overlaps `shutdown()` or the
destructor repeats it, either the queue is on its pages and the thread that has the mutex is in a call on
a queue not yet shut down (`OpenOrClosing`), or `shutdown()` has returned, the files are the queue, and
no thread will touch them (`ShutAndIdle`).

**`PersistedQueueFaultsProofs`**: `NeverTwiceCorrect`, whatever files are torn, refused or cannot be
loaded, and whenever the process dies. It needs neither the order of file names nor what the STATE
file lists; that items are distinct from the results of calls, and none is pushed twice, is assumed
(`FaultsAssumption`), because a second delivery could not be told otherwise. The invariant
`TwiceInv`: no item is in two pages, two files, or a page not yet written and a file (`Apart`);
what is held was pushed and not delivered (`UsedInOrder`, `HeldNotDelivered`); and pages are written
without being dropped only by the destructor (`WrittenByDestructor`), so that no call follows which
could deliver from both copies.

Under `SlowRestart`, `QueueOnPagesAfterFaultsCorrect`, `CrashKeepsFiledPagesCorrect` and
`StateFileExpendableCorrect`. After a crash `q` is, by definition, what the files hold; so the first says
that the pages of every later object are exactly that queue, whole and in order, and says nothing of the
items that were only in memory. How many of these a crash may cost is what the other two
bound. Their invariant is `FaultsInv`: unless a file was lost (`lossy`), there is an object for which `PagingInv` holds, or there is none and the files that the
next constructor would find, in its order, are the queue (`OnDisk`). What a process that died left is,
in the model, those files put end to end (`FlattenSeq`); the recursion has a solution
(`FlattenSeqDef`), and the result lies in the files by positions (`EndToEndInFiles`), both shown by
taking the least number for which the claim would fail, for want of an induction theorem the provers
can instantiate. The pages of the dead object may follow each other like this because only the first and
the last may be short (`PagesFit`): a page that is cut short while it is written is always first or
last. `CrashKeepsFiledPages` then follows because the pages in memory stood at the two ends, and
`StateFileExpendable` because there is one way to sort the names (`SortedChoice`).

**`DelayedQueueProofs`**, for any items, delays and interleaving of calls, as long as no call overlaps
`shutdown()`: `NeverEarlyCorrect`, `InDueOrderCorrect`, `NothingStrandedCorrect`. `EarlyInv` says that
each key of the map is the second its items are due, and that what is in the queue has waited its delay
or was forced there by a shutdown. `DelayInv` adds that the items are apart, the map and the queue
together hold what was pushed and not delivered, `map_keys` are the keys still in the map, and the
queue comes before the map in due order (`QuietInv`); after the end of a `shutdown()` only items
pushed with a delay since then are left in the map. What the loop over the keys appends is shown by
taking the least key for which the claim would fail, as no induction over an operator is available.

**`PriorityQueueProofs`**, under `PQ!Bounds` (at least one level, bounds that are numbers), for any
items and consumers: `EachItemOnceCorrect` and `HighestFirstCorrect`, as long as no call overlaps
`clear()` or `shutdown()` and no object was put back that another had popped, from `ItemsInv` (each
queued item stands at the level recorded for it, once; the last popped object is taken; what a
consumer holds is taken and no other's); and `InRangeCorrect`, for one consumer, from `InRangeInv` (a
consumer past `empty()` will find a level, one past the test of `push_back_last_pop` has one to return
to, and the last popped object is its own). With two consumers neither half of it holds.

**`RequestProofs`**. Of `Client`, whatever the server does: `TwiceOnlyAfterTimeoutCorrect`, for any
number of attempts, from `RetryInv` (each earlier attempt was refused or given up by its timer);
`AnswerInTimeKeptCorrect` and `ReturnsSuccessCorrect` from `QueueInv`, which says which completed
operations can be waiting when there is and when there is no answer. Of `Connection`, for any white
lists and commands: `FailuresExplainedCorrect`, `SuccessIsWholeCorrect`, `OnlyAllowedHandledCorrect`.

**`ProcessProofs`**. Of `LockFile`, for any processes and number of failures:
`ServesWithLockCorrect`, `StaleOnlyAfterFailureCorrect`, from `LockInv`: one process listens; unless
two starts overlapped, one at a time is between the check and the creation of the file and the one
past it has it (`InTurn`); a file has an owner or a failure left it (`Owned`). Of `Kcsrt`, for any ring
of processes (`Peer!Ring`: each sends to one, and no two to the same) and any number of messages:
`StatisticsFitCorrect`, from `FitInv`, which accounts for each message by where it is: with the
sender, waiting, being served, answered.

**`KeepersProofs`**. `LinesKeptCorrect`, for any threads, levels and pool, from `LogInv`.
`HistoryIsPeriodsCorrect`, for any statistics and length of history, from `StatsInv`: as long as no
update fell into a gathering, each deque holds the last periods that were counted (`AtRest`); during a
gathering those of the counters already gathered have the new period and the others do not yet
(`InGathering`). `ReportAddsUpCorrect`, for any finite set of errors, spellings and
amounts, and threads that set and clear errors at any time; the conditions of `ReportAddsUp` are part of the formula. From `ErrorsInv`: while no
name had capitals and nothing was cleared more often than set, each error has a number of its own with
its count, or none (`CountsExact`); and during a report, while nothing is cleared, what has been listed
and the present counts of the errors still to be read make up at least `before`, and what has been added
and these counts are at most all that is set (`InReport`). Setting an error keeps this because counts only
grow (`SetKeeps`). It rests on lemmas about sums over finite sets: the sum of the community
modules takes the elements in an order of its own, and any of them may be taken first (`SumWithout`).

Only model-checked:

- liveness and fairness: `CallsReturn`, `EventuallyDelivered`, `Ends`, `ProcessEnds`, `StopReturns`
  and all properties of `Server`, which are liveness properties; the prover has no rule for fairness;
- `AppsAsListed`, `NeverOpenUnasked`: merging trees is a recursion over trees (RECURSIVE operators, which the
  prover does not take), and what it computes for every tree would need an induction over trees.

## 5. Not modelled

- `ThreadsafeQueue` (unused, and does not compile), `PtreeBase64Bicoder` and other encodings: pure
  data conversion.
- Becoming a daemon, environment variables, the directories and names of logs, caches and
  configuration files: I/O set-up. Their failure is part of `LockFile`.
- The sizes that `StatsKeeper` gathers of queues; they are recorded but not told apart.
- Number formats, names of sources and entities, and console echo of `LogStream`; and a log that has
  no path while several threads use it, where `locked_write()` adds to the pool after it has let the
  mutex go: a server sets the path before it starts threads.
- `ptreeAddOrPut`, and the content of the client's request.
- Page files that cannot be loaded, in `PriorityQueue` and `DelayedQueue`: they rest on the FIFO
  queue, which does not fail.
- Overlapping calls of `PersistedQueue` at a finer grain than file operations: that is a data race.
- The other examples, tests, build files.

More than 9999 page files within a second, whose names no longer sort, are excluded by the bound
`PagesPerSecond`.

## 6. Plan

Done: the persisted queue with faults and proofs, then one module for each other component, in the
order of section 1, then the unlocked calls of the thread-safe queues, the queries of `StatsKeeper`, and
the composition of client and server that `Kcsrt` is, then the proofs of section 4. What is left, in
this order:

1. `Configuration` composed with `Connection`: requests against the lists that files give.
2. Load failures of page files in the queues built on `PersistedQueue`.
3. `PtreeMerge` as a recursive function on trees of bounded depth, to prove `AppsAsListed` and
   `NeverOpenUnasked` for lists of any length.
