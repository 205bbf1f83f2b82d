---------------------------- MODULE FifoQueue ----------------------------
(***************************************************************************)
(* What a kisscpp queue promises its client, whatever it does with pages   *)
(* and files: a sequence of items and, after every call, the value the     *)
(* call returned.  The detailed module PersistedQueue is shown to          *)
(* implement this one.                                                     *)
(***************************************************************************)
EXTENDS Sequences

CONSTANT Items          \* the objects a client may queue

VARIABLES items,        \* the queue, oldest item first
          open,         \* a queue object exists and is not shut down
          ret           \* what the last call returned

vars == <<items, open, ret>>

Init == items = <<>> /\ open = FALSE /\ ret = "ok"

\* Constructing the object over what an earlier object left behind.
Open == ~open /\ open' = TRUE /\ ret' = "ok" /\ UNCHANGED items

\* shutdown() and the destructor keep the contents.
Close == open /\ open' = FALSE /\ UNCHANGED <<items, ret>>
Closed == ~open /\ ret' = "ok" /\ UNCHANGED <<items, open>>

PushBack(i) == open /\ items' = Append(items, i) /\ ret' = "ok" /\ UNCHANGED open

PushFront(i) == open /\ items' = <<i>> \o items /\ ret' = "ok" /\ UNCHANGED open

PopFront == /\ open
            /\ \/ items = <<>> /\ ret' = "null" /\ UNCHANGED items
               \/ items # <<>> /\ ret' = Head(items) /\ items' = Tail(items)
            /\ UNCHANGED open

Front == /\ open
         /\ ret' = IF items = <<>> THEN "null" ELSE Head(items)
         /\ UNCHANGED <<items, open>>

\* clear() discards from the front and ends with nothing left.
ClearOne == open /\ items # <<>> /\ items' = Tail(items) /\ ret' = "clearing" /\ UNCHANGED open
Cleared == open /\ items = <<>> /\ ret' = "cleared" /\ UNCHANGED <<items, open>>

Next == \/ Open \/ Close \/ Closed
        \/ \E i \in Items : PushBack(i) \/ PushFront(i)
        \/ PopFront \/ Front \/ ClearOne \/ Cleared

Spec == Init /\ [][Next]_vars
==========================================================================
