--------------------------- MODULE InflightWindow ---------------------------
(***************************************************************************)
(* What inflights.zig promises to Progress: a bounded FIFO of the last     *)
(* indexes of the append messages sent and not yet acknowledged.  The      *)
(* bound may be changed at any time and takes effect at once for what may  *)
(* be added; nothing in flight is ever lost or reordered by the change.    *)
(***************************************************************************)
EXTENDS Integers, Sequences

CONSTANTS
  Index,     \* log indexes
  Capacity   \* bounds that may be asked for

VARIABLES
  queue,     \* indexes in flight, oldest first
  limit      \* the bound last asked for

Init == queue = <<>> /\ limit \in Capacity

\* add, after full() said no.  Progress sends increasing indexes.
Add(k) ==
  /\ Len(queue) < limit
  /\ queue # <<>> => queue[Len(queue)] < k
  /\ queue' = Append(queue, k)
  /\ UNCHANGED limit

\* freeTo: everything up to k leaves, the rest stays in order.
FreeTo(k) ==
  /\ \E d \in 0..Len(queue) :
       /\ \A j \in 1..d : queue[j] <= k
       /\ \A j \in (d + 1)..Len(queue) : queue[j] > k
       /\ queue' = SubSeq(queue, d + 1, Len(queue))
  /\ UNCHANGED limit

\* freeFirstOne: exactly the oldest leaves.
FreeFirstOne ==
  /\ queue # <<>>
  /\ queue' = SubSeq(queue, 2, Len(queue))
  /\ UNCHANGED limit

Reset == queue' = <<>> /\ UNCHANGED limit

SetCapacity(c) == limit' = c /\ UNCHANGED queue

Next ==
  \/ \E k \in Index : Add(k) \/ FreeTo(k)
  \/ FreeFirstOne
  \/ Reset
  \/ \E c \in Capacity : SetCapacity(c)

Spec == Init /\ [][Next]_<<queue, limit>>
=============================================================================
