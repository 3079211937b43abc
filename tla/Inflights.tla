----------------------------- MODULE Inflights ------------------------------
(***************************************************************************)
(* inflights.zig: the ring buffer behind a follower's window.  It is       *)
(* allocated at the first add, grows in place or by unrolling, and defers  *)
(* a shrink until it is empty.  It implements InflightWindow.              *)
(***************************************************************************)
EXTENDS Integers, Sequences

CONSTANTS
  Index,     \* log indexes
  Capacity   \* capacities that init and setCapacity are called with

ASSUME InflightsAssumption == Index \subseteq Nat /\ Capacity \subseteq Nat

VARIABLES
  start,     \* slot of the oldest index, from 0
  count,     \* indexes in flight
  buffer,    \* buffer.items: slot h is buffer[h + 1]; grows up to the capacity
  allocated, \* buffer.capacity, 0 before the first add and after a reset
  capacity,
  incoming   \* incoming_capacity: a deferred shrink, or Null

ringVars == <<start, count, buffer, allocated, capacity, incoming>>

Null == -1

RingInit ==
  /\ start = 0 /\ count = 0 /\ buffer = <<>> /\ allocated = 0
  /\ capacity \in Capacity
  /\ incoming = Null

-----------------------------------------------------------------------------
\* The slot j places after start, and what it holds.
Slot(j) == IF start + j >= capacity THEN start + j - capacity ELSE start + j
At(j) == buffer[Slot(j) + 1]

\* Mutant: a deferred shrink is forgotten.
FullByCapacity == count = capacity

full == count = capacity \/ (incoming # Null /\ count >= incoming)

\* The indexes in flight, oldest first.
Queue == [j \in 1..count |-> At(j - 1)]

\* Mutant: a slot inside the buffer is appended to instead of overwritten.
AddAtEnd(k) ==
  /\ ~ full
  /\ count > 0 => At(count - 1) < k
  /\ buffer' = Append(buffer, k)
  /\ allocated' = IF allocated = 0 THEN capacity ELSE allocated
  /\ count' = count + 1
  /\ UNCHANGED <<start, capacity, incoming>>

\* add.  Progress.updateState calls it with increasing indexes.
add(k) ==
  /\ ~ full
  /\ count > 0 => At(count - 1) < k
  /\ buffer' = IF Slot(count) = Len(buffer) THEN Append(buffer, k)
                                            ELSE [buffer EXCEPT ![Slot(count) + 1] = k]
  /\ allocated' = IF allocated = 0 THEN capacity ELSE allocated
  /\ count' = count + 1
  /\ UNCHANGED <<start, capacity, incoming>>

\* The oldest d indexes leave.  When none is left a deferred shrink happens
\* and the buffer is replaced (or, without memory, only freed).
Release(d) ==
  /\ count' = count - d
  /\ \/ /\ d = count /\ incoming # Null
        /\ start' = 0 /\ buffer' = <<>> /\ allocated' \in {0, incoming}
        /\ capacity' = incoming /\ incoming' = Null
     \/ /\ d < count \/ incoming = Null
        /\ start' = Slot(d)
        /\ UNCHANGED <<buffer, allocated, capacity, incoming>>

\* The loop of freeTo stops at the first index above k.
freeTo(k) ==
  /\ count > 0 /\ At(0) <= k
  /\ \E d \in 0..count :
       /\ \A j \in 0..(d - 1) : At(j) <= k
       /\ d < count => At(d) > k
       /\ Release(d)

freeFirstOne ==
  /\ count > 0
  /\ freeTo(At(0))

\* reset, when Progress changes state.
reset ==
  /\ start' = 0 /\ count' = 0 /\ buffer' = <<>> /\ allocated' = 0
  /\ capacity' = IF incoming = Null THEN capacity ELSE incoming
  /\ incoming' = Null

-----------------------------------------------------------------------------
(***************************************************************************)
(* setCapacity, by its branches.                                           *)
(***************************************************************************)
Wrapped == start + count > capacity

keepCapacity(c) ==
  /\ c = capacity
  /\ incoming' = Null
  /\ UNCHANGED <<start, count, buffer, allocated, capacity>>

growInPlace(c) ==
  /\ capacity < c /\ ~ Wrapped
  /\ allocated' = IF allocated > 0 /\ allocated < c THEN c ELSE allocated
  /\ capacity' = c /\ incoming' = Null
  /\ UNCHANGED <<start, count, buffer>>

\* Mutant: the two pieces are copied in the order they lie in.
GrowInOrder(c) ==
  /\ capacity < c /\ Wrapped
  /\ buffer' = SubSeq(buffer, 1, count - (capacity - start))
                 \o SubSeq(buffer, start + 1, Len(buffer))
  /\ start' = 0
  /\ allocated' = c /\ capacity' = c /\ incoming' = Null
  /\ UNCHANGED count

\* The piece from start to the end of the buffer, then the piece before start.
growUnrolled(c) ==
  /\ capacity < c /\ Wrapped
  /\ buffer' = SubSeq(buffer, start + 1, Len(buffer))
                 \o SubSeq(buffer, 1, count - (capacity - start))
  /\ start' = 0
  /\ allocated' = c /\ capacity' = c /\ incoming' = Null
  /\ UNCHANGED count

shrinkEmpty(c) ==
  /\ c < capacity /\ count = 0
  /\ start' = 0 /\ capacity' = c /\ incoming' = Null
  /\ buffer' = <<>>
  /\ allocated' = IF allocated > 0 THEN c ELSE 0
  /\ UNCHANGED count

shrinkLater(c) ==
  /\ c < capacity /\ count > 0
  /\ incoming' = c
  /\ UNCHANGED <<start, count, buffer, allocated, capacity>>

setCapacity(c) ==
  \/ keepCapacity(c)
  \/ growInPlace(c)
  \/ growUnrolled(c)
  \/ shrinkEmpty(c)
  \/ shrinkLater(c)

RingNext ==
  \/ \E k \in Index : add(k) \/ freeTo(k)
  \/ freeFirstOne
  \/ reset
  \/ \E c \in Capacity : setCapacity(c)

RingSpec == RingInit /\ [][RingNext]_ringVars

-----------------------------------------------------------------------------
(***************************************************************************)
(* Every std.debug.assert and appendAssumeCapacity of inflights.zig holds  *)
(* whenever it is reached: an unallocated buffer is pristine, the next     *)
(* slot of an add lies in the buffer or just past it with room allocated,  *)
(* and a wrapped buffer is full-sized when it is unrolled.                 *)
(***************************************************************************)
RingIsSound ==
  /\ Wrapped => Len(buffer) = capacity
  /\ allocated = 0 => count = 0 /\ start = 0 /\ incoming = Null
  /\ ~ full => /\ Slot(count) <= Len(buffer)
               /\ Slot(count) = Len(buffer)
                    => Len(buffer) < (IF allocated = 0 THEN capacity ELSE allocated)

(***************************************************************************)
(* The ring implements the window: whatever wraps, grows or is deferred,   *)
(* the indexes in flight are those of a FIFO bounded by the capacity asked *)
(* for last, and freeFirstOne frees exactly one.                           *)
(***************************************************************************)
Limit == IF incoming = Null THEN capacity ELSE incoming

Window == INSTANCE InflightWindow WITH queue <- Queue, limit <- Limit

ImplementsWindow == Window!Spec

(***************************************************************************)
(* full() answers for the capacity asked for last: also while a shrink is  *)
(* deferred and more is in flight than the new capacity allows.            *)
(***************************************************************************)
FullIsExact == full <=> count >= Limit
=============================================================================
