--------------------------- MODULE TrackerProofs ---------------------------
(***************************************************************************)
(* Proofs about the progress tracker: the properties of QuorumTracker for  *)
(* every set of ids and every set of configurations, from the lemmas of    *)
(* QuorumConfProofs; and that the ring buffer of inflights.zig implements  *)
(* the bounded FIFO of InflightWindow, for any capacities and indexes.     *)
(***************************************************************************)
EXTENDS QuorumTracker, Inflights, QuorumConfProofs, SequenceTheorems, TLAPS

-----------------------------------------------------------------------------
(***************************************************************************)
(* Votes, acknowledgements and the quorum arithmetic.                      *)
(***************************************************************************)
\* The tracker's votes, acknowledgements and configuration keep their types
\* in every run, for any set of ids, configurations and groups.
THEOREM TrackerTypeOK == Spec => []TypeOK
<1>1. Init => TypeOK
  BY TrackerAssumption DEF Init, TypeOK, VoteValue, Acked, Unacked
<1>2. TypeOK /\ [Next]_vars => TypeOK'
  <2> SUFFICES ASSUME TypeOK, [Next]_vars PROVE TypeOK'
    OBVIOUS
  <2>1. ASSUME NEW s \in Id, NEW v \in Ballot, RecordVote(s, v) PROVE TypeOK'
    BY <2>1, TrackerAssumption DEF RecordVote, TypeOK, VoteValue
  <2>2. CASE ResetVotes
    BY <2>2 DEF ResetVotes, TypeOK, VoteValue
  <2>3. ASSUME NEW s \in Id, NEW k \in 1..MaxIndex, Acknowledge(s, k) PROVE TypeOK'
    BY <2>3, TrackerAssumption DEF Acknowledge, TypeOK, Acked
  <2>4. ASSUME NEW s \in Id, NEW g \in Group, AssignCommitGroup(s, g) PROVE TypeOK'
    BY <2>4 DEF AssignCommitGroup, TypeOK, Acked
  <2>5. CASE UNCHANGED vars
    BY <2>5 DEF vars, TypeOK
  <2> QED BY <2>1, <2>2, <2>3, <2>4, <2>5 DEF Next
<1> QED BY <1>1, <1>2, PTL DEF Spec

\* The configuration of every state is a pair of finite sets of ids.
LEMMA ConfIsFinite ==
  ASSUME TypeOK
  PROVE  /\ IsFiniteSet(conf.incoming) /\ IsFiniteSet(conf.outgoing)
         /\ conf.incoming \subseteq Id /\ conf.outgoing \subseteq Id
BY TrackerAssumption, FS_Subset DEF TypeOK

\* getVoteResult is exact in every state: won, lost and pending say what the
\* outstanding answers can still change.
THEOREM VoteResultIsExactAlways == Spec => []VoteResultIsExact
<1>1. TypeOK => VoteResultIsExact
  <2> SUFFICES ASSUME TypeOK PROVE VoteResultIsExact
    OBVIOUS
  <2> DEFINE I == conf.incoming
             O == conf.outgoing
             Yes(f) == {s \in I \cup O : f[s] = "yes"}
             low == [s \in Id |-> IF votes[s] = "yes" THEN "yes" ELSE "no"]
             high == [s \in Id |-> IF votes[s] = "no" THEN "no" ELSE "yes"]
             open == {s \in I \cup O : votes[s] \in {"yes", "missing"}}
  <2>1. IsFiniteSet(I) /\ IsFiniteSet(O) /\ I \subseteq Id /\ O \subseteq Id
    BY ConfIsFinite
  <2>2. votes \in [Id -> VoteValue]
    BY DEF TypeOK
  <2>3. \A f : Wins(f) <=> IsQuorum(I, O, Yes(f))
    BY <2>1, WonByQuorum DEF Wins
  <2>4. low \in Completions /\ high \in Completions
    BY <2>2 DEF Completions, VoteValue
  <2>5. Yes(low) = Yes(votes) /\ Yes(high) = open
    BY <2>1, <2>2 DEF VoteValue
  <2>6. \A f \in Completions : Yes(votes) \subseteq Yes(f) /\ Yes(f) \subseteq open
    BY <2>1, <2>2 DEF Completions, VoteValue
  <2>7. GetVoteResult = "won" <=> IsQuorum(I, O, Yes(votes))
    BY <2>1, WonByQuorum DEF GetVoteResult
  <2>8. GetVoteResult = "lost" <=> ~ IsQuorum(I, O, open)
    BY <2>1, LostWithoutQuorum DEF GetVoteResult
  <2> HIDE DEF low, high, open, Yes, I, O
  <2>9. ASSUME IsQuorum(I, O, Yes(votes)), NEW f \in Completions PROVE Wins(f)
    <3>1. (I \cup O) \cap Yes(votes) \subseteq Yes(f)
      BY <2>6
    <3>2. IsQuorum(I, O, Yes(f))
      BY <2>1, <2>9, <3>1, QuorumMonotone
    <3> QED BY <2>3, <3>2
  <2>10. ASSUME ~ IsQuorum(I, O, open), NEW f \in Completions PROVE ~ Wins(f)
    <3>1. (I \cup O) \cap Yes(f) \subseteq open
      BY <2>6
    <3>2. ~ IsQuorum(I, O, Yes(f))
      BY <2>1, <2>10, <3>1, QuorumMonotone
    <3> QED BY <2>3, <3>2
  <2> QED
    BY <2>3, <2>4, <2>5, <2>7, <2>8, <2>9, <2>10 DEF VoteResultIsExact
<1> QED BY <1>1, TrackerTypeOK, PTL

\* No two candidates can win on the votes of one state: a quorum of yes
\* leaves its complement without a quorum.
THEOREM NoTwoWinnersAlways == Spec => []NoTwoWinners
<1>1. TypeOK => NoTwoWinners
  <2> SUFFICES ASSUME TypeOK,
                      conf.incoming \cup conf.outgoing # {},
                      GetVoteResult = "won",
                      Wins([s \in Id |-> IF votes[s] = "yes" THEN "no" ELSE "yes"])
               PROVE  FALSE
    BY DEF NoTwoWinners
  <2> DEFINE I == conf.incoming
             O == conf.outgoing
             other == [s \in Id |-> IF votes[s] = "yes" THEN "no" ELSE "yes"]
             Yes(f) == {s \in I \cup O : f[s] = "yes"}
  <2>1. IsFiniteSet(I) /\ IsFiniteSet(O) /\ I \subseteq Id /\ O \subseteq Id /\ I \cup O # {}
    BY ConfIsFinite
  <2>2. \A f : Wins(f) <=> IsQuorum(I, O, Yes(f))
    BY <2>1, WonByQuorum DEF Wins
  <2>3. IsQuorum(I, O, Yes(votes))
    BY <2>1, WonByQuorum DEF GetVoteResult
  <2>4. Yes(votes) \cap Yes(other) = {}
    BY <2>1
  <2> HIDE DEF I, O, Yes
  <2>5. IsQuorum(I, O, Yes(other))
    BY <2>2
  <2> QED BY <2>1, <2>3, <2>4, <2>5, QuorumsMeet
<1> QED BY <1>1, TrackerTypeOK, PTL

-----------------------------------------------------------------------------
(***************************************************************************)
(* The committed index.                                                    *)
(***************************************************************************)
\* Voters have acknowledged natural numbers up to MaxIndex.
LEMMA AckedIsAcked ==
  ASSUME NEW V \in SUBSET Id, NEW a \in [Id -> Acked]
  PROVE  /\ IsAcked(V, a)
         /\ \A s \in V : a[s].index < MaxIndex + 1
<1>1. ASSUME NEW s \in V PROVE a[s].index \in Nat /\ a[s].group \in Nat /\ a[s].index < MaxIndex + 1
  <2>1. a[s] \in Acked OBVIOUS
  <2>2. a[s].index \in 0..MaxIndex /\ a[s].group \in Group \cup {0} BY <2>1 DEF Acked
  <2>3. MaxIndex \in Nat /\ Group \cup {0} \subseteq Nat BY TrackerAssumption
  <2>4. a[s].group \in Nat BY <2>2, <2>3
  <2>5. a[s].index \in Nat /\ a[s].index < MaxIndex + 1
    <3> DEFINE i == a[s].index
    <3>1. i \in 0..MaxIndex BY <2>2
    <3> HIDE DEF i
    <3>2. i \in Nat /\ i < MaxIndex + 1 BY <2>3, <3>1
    <3> QED BY <3>2 DEF i
  <2> QED BY <2>4, <2>5
<1> QED BY <1>1 DEF IsAcked

\* maxCommittedIndex answers the largest index both halves allow, for every
\* configuration, acknowledgements and outcome of the sorts.
LEMMA CommitsWhatIsAllowed ==
  ASSUME NEW I \in SUBSET Id, NEW O \in SUBSET Id, NEW a \in [Id -> Acked], NEW g \in BOOLEAN,
         NEW o \in SortedOrders(I, a) \X SortedOrders(O, a)
  PROVE  IsLargestAllowed(I, O, a, g, MaxIndex + 1,
                          JointCommittedIndex(o[1], o[2], g, a, MaxIndex + 1).index)
<1> DEFINE m == MaxIndex + 1
<1>1. IsFiniteSet(I) /\ IsFiniteSet(O) BY TrackerAssumption, FS_Subset
<1>2. IsAcked(I \cup O, a) /\ \A s \in I \cup O : a[s].index < m
  BY I \cup O \in SUBSET Id, AckedIsAcked
<1>3. o[1] \in SortedOrders(I, a) /\ o[2] \in SortedOrders(O, a) OBVIOUS
<1>4. m \in Nat BY TrackerAssumption
<1> HIDE DEF m
<1>5. IsLargestAllowed(I, O, a, g, m, JointCommittedIndex(o[1], o[2], g, a, m).index)
  BY <1>1, <1>2, <1>3, <1>4, JointCommits
<1> QED BY <1>5 DEF m

\* ... in a state.
LEMMA MaxCommittedIndexAllows ==
  ASSUME TypeOK, NEW o \in Orders
  PROVE  IsLargestAllowed(conf.incoming, conf.outgoing, acked, group_commit, MaxIndex + 1,
                          MaxCommittedIndex(o).index)
<1>1. conf.incoming \in SUBSET Id /\ conf.outgoing \in SUBSET Id BY ConfIsFinite
<1>2. acked \in [Id -> Acked] /\ group_commit \in BOOLEAN BY DEF TypeOK
<1>3. o \in SortedOrders(conf.incoming, acked) \X SortedOrders(conf.outgoing, acked) BY DEF Orders
<1> QED BY <1>1, <1>2, <1>3, CommitsWhatIsAllowed DEF MaxCommittedIndex

\* Sorting and picking the majority-th entry gives the largest index a quorum
\* has acknowledged, in every run without group commit.
THEOREM CommittedIndexIsQuorumIndexAlways == Spec => []CommittedIndexIsQuorumIndex
<1>1. TypeOK => CommittedIndexIsQuorumIndex
  <2> SUFFICES ASSUME TypeOK, ~ group_commit, conf.incoming \cup conf.outgoing # {},
                      NEW o \in Orders
               PROVE  IsQuorumIndex(conf.incoming, conf.outgoing, Match,
                                    MaxCommittedIndex(o).index)
    BY DEF CommittedIndexIsQuorumIndex
  <2> DEFINE I == conf.incoming
             O == conf.outgoing
             c == MaxCommittedIndex(o).index
             A(k) == AckedBy(I \cup O, Match, k)
  <2>1. I \subseteq Id /\ O \subseteq Id BY ConfIsFinite
  <2>2. /\ c \in Nat /\ c <= MaxIndex
        /\ \A k \in 0..(MaxIndex + 1) :
             k <= c <=> HalfAllows(I, acked, group_commit, k) /\ HalfAllows(O, acked, group_commit, k)
    <3>1. IsLargestAllowed(I, O, acked, group_commit, MaxIndex + 1, c)
      BY MaxCommittedIndexAllows
    <3>2. c \in Nat /\ c < MaxIndex + 1 BY <3>1 DEF IsLargestAllowed
    <3>3. c <= MaxIndex BY <3>2, TrackerAssumption
    <3> QED BY <3>1, <3>2, <3>3 DEF IsLargestAllowed
  <2>3. ASSUME NEW V, V \subseteq I \cup O, NEW k
        PROVE  HalfAllows(V, acked, group_commit, k) <=> IsMajorityOf(V, A(k))
    <3>1. V \cap HoldersOf(V, acked, k) = V \cap A(k)
      BY <2>1, <2>3 DEF HoldersOf, AckedBy, Match
    <3> HIDE DEF A
    <3> QED BY <3>1 DEF HalfAllows, IsMajorityOf
  <2> HIDE DEF c, A
  <2>4. \A k \in 0..(MaxIndex + 1) : k <= c <=> IsQuorum(I, O, A(k))
    BY <2>2, <2>3 DEF IsQuorum
  <2>5. c \in 0..(MaxIndex + 1) /\ c + 1 \in 0..(MaxIndex + 1) /\ ~ (c + 1 <= c) /\ c <= c
    BY <2>2, TrackerAssumption
  <2>6. IsQuorum(I, O, A(c)) /\ ~ IsQuorum(I, O, A(c + 1)) BY <2>4, <2>5
  <2> QED BY <2>6 DEF IsQuorumIndex, c, A
<1> QED BY <1>1, TrackerTypeOK, PTL

\* With group commit the answer is the largest index both halves allow, in
\* every run and whatever the order of equal indexes.
THEOREM GroupCommitIsLargestAlways == Spec => []GroupCommitIsLargest
<1>1. TypeOK => GroupCommitIsLargest
  <2> SUFFICES ASSUME TypeOK, group_commit, conf.incoming \cup conf.outgoing # {},
                      NEW o \in Orders, NEW k \in 0..MaxIndex
               PROVE  (k <= MaxCommittedIndex(o).index)
                        <=> (GroupLimit(conf.incoming, k) /\ GroupLimit(conf.outgoing, k))
    BY DEF GroupCommitIsLargest
  <2>1. conf.incoming \subseteq Id /\ conf.outgoing \subseteq Id BY ConfIsFinite
  <2>2. k \in 0..(MaxIndex + 1) BY TrackerAssumption
  <2>3. ASSUME NEW V, V \subseteq Id
        PROVE  HalfAllows(V, acked, group_commit, k) <=> GroupLimit(V, k)
    <3>1. \A j : AckedBy(V, Match, j) = HoldersOf(V, acked, j)
      BY <2>3 DEF AckedBy, Match, HoldersOf
    <3>2. \A j : GroupsAt(V, j) = GroupsOf(V, acked, j)
      BY DEF GroupsAt, GroupsOf, HoldersOf
    <3> QED BY <3>1, <3>2 DEF HalfAllows, GroupLimit
  <2>4. k <= MaxCommittedIndex(o).index
          <=> /\ HalfAllows(conf.incoming, acked, group_commit, k)
              /\ HalfAllows(conf.outgoing, acked, group_commit, k)
    BY <2>2, MaxCommittedIndexAllows DEF IsLargestAllowed
  <2> QED BY <2>1, <2>3, <2>4
<1> QED BY <1>1, TrackerTypeOK, PTL

\* An acknowledgement never lowers the index the leader may commit to, in
\* any run and for any order of the voters before and after it.
THEOREM AcksRaiseCommitAlways == Spec => AcksRaiseCommit
<1> DEFINE Rises == (\E s \in Id : acked'[s].index > acked[s].index)
                      => \A o \in Orders, p \in Orders' :
                           MaxCommittedIndex(o).index <= (MaxCommittedIndex(p))'.index
<1>1. ASSUME TypeOK, TypeOK', [Next]_vars PROVE Rises
  <2> SUFFICES ASSUME NEW s \in Id, acked'[s].index > acked[s].index,
                      NEW o \in Orders, NEW p \in Orders'
               PROVE  MaxCommittedIndex(o).index <= (MaxCommittedIndex(p))'.index
    OBVIOUS
  <2>1. acked \in [Id -> Acked] /\ acked' \in [Id -> Acked] /\ group_commit \in BOOLEAN
    BY <1>1 DEF TypeOK
  <2>2. \A t \in Id : acked[t].index \in Nat /\ acked'[t].index \in Nat
    BY <2>1, TrackerAssumption DEF Acked
  <2>3. /\ conf' = conf /\ group_commit' = group_commit
        /\ \A t \in Id : acked[t].group = acked'[t].group /\ acked[t].index <= acked'[t].index
    <3>1. acked' # acked BY <2>2
    <3>2. ASSUME NEW t \in Id, NEW g \in Group, AssignCommitGroup(t, g) PROVE FALSE
      <4>1. acked'[s].index = acked[s].index BY <2>1, <3>2 DEF AssignCommitGroup, Acked
      <4> QED BY <2>2, <4>1
    <3>3. PICK t \in Id, k \in 1..MaxIndex : Acknowledge(t, k)
      BY <1>1, <3>1, <3>2 DEF Next, RecordVote, ResetVotes, vars
    <3> QED BY <2>1, <2>2, <3>3, TrackerAssumption DEF Acknowledge, Acked
  <2> DEFINE I == conf.incoming
             O == conf.outgoing
             g == group_commit
             c == MaxCommittedIndex(o).index
             d == (MaxCommittedIndex(p))'.index
  <2>4. I \in SUBSET Id /\ O \in SUBSET Id BY <1>1, ConfIsFinite
  <2>5. o \in SortedOrders(I, acked) \X SortedOrders(O, acked) BY DEF Orders
  <2>6. p \in SortedOrders(I, acked') \X SortedOrders(O, acked') BY <2>3 DEF Orders
  <2>7. c = JointCommittedIndex(o[1], o[2], g, acked, MaxIndex + 1).index
    BY DEF MaxCommittedIndex
  <2>8. d = JointCommittedIndex(p[1], p[2], g, acked', MaxIndex + 1).index
    BY <2>3 DEF MaxCommittedIndex
  <2> HIDE DEF I, O, g, c, d
  <2>9. g \in BOOLEAN BY <2>1 DEF g
  <2>10. IsLargestAllowed(I, O, acked, g, MaxIndex + 1, c)
    BY <2>1, <2>4, <2>5, <2>7, <2>9, CommitsWhatIsAllowed
  <2>11. IsLargestAllowed(I, O, acked', g, MaxIndex + 1, d)
    BY <2>1, <2>4, <2>6, <2>8, <2>9, CommitsWhatIsAllowed
  <2>12. ASSUME NEW V \in SUBSET Id, NEW k \in Nat, HalfAllows(V, acked, g, k)
         PROVE  HalfAllows(V, acked', g, k)
    <3>1. IsFiniteSet(V) BY TrackerAssumption, FS_Subset
    <3>2. IsAcked(V, acked) /\ IsAcked(V, acked') BY <2>1, AckedIsAcked
    <3>3. \A t \in V : acked[t].group = acked'[t].group /\ acked[t].index <= acked'[t].index
      BY <2>3
    <3> QED BY <2>12, <3>1, <3>2, <3>3, AllowsMonotone
  <2>13. CASE I \cup O # {}
    <3>1. c \in Nat /\ c \in 0..(MaxIndex + 1) /\ c <= c
      BY <2>10, <2>13, TrackerAssumption DEF IsLargestAllowed
    <3>2. HalfAllows(I, acked, g, c) /\ HalfAllows(O, acked, g, c)
      BY <2>10, <3>1 DEF IsLargestAllowed
    <3>3. HalfAllows(I, acked', g, c) /\ HalfAllows(O, acked', g, c)
      BY <2>4, <2>12, <3>1, <3>2
    <3>4. c <= d BY <2>11, <3>1, <3>3 DEF IsLargestAllowed
    <3> QED BY <3>4 DEF c, d
  <2>14. CASE I \cup O = {}
    <3>1. I = {} /\ O = {} BY <2>14
    <3>2. o[1] \in SortedOrders(I, acked) /\ o[2] \in SortedOrders(O, acked) BY <2>5
    <3>3. p[1] \in SortedOrders(I, acked') /\ p[2] \in SortedOrders(O, acked') BY <2>6
    <3>4. IsFiniteSet({}) /\ Cardinality({}) = 0 BY FS_EmptySet
    <3>5. Len(o[1]) = 0 /\ Len(o[2]) = 0 BY <3>1, <3>2, <3>4, OrderIsOnto
    <3>6. Len(p[1]) = 0 /\ Len(p[2]) = 0 BY <3>1, <3>3, <3>4, OrderIsOnto
    <3>7. c = MaxIndex + 1 /\ d = MaxIndex + 1
      BY <2>7, <2>8, <3>5, <3>6 DEF JointCommittedIndex, MinOf
    <3>8. c <= d BY <3>7, TrackerAssumption
    <3> QED BY <3>8 DEF c, d
  <2> QED BY <2>13, <2>14
<1>2. TypeOK /\ TypeOK' /\ [Next]_vars => [Rises]_vars BY <1>1
<1> QED BY <1>2, TrackerTypeOK, PTL DEF Spec, AcksRaiseCommit

-----------------------------------------------------------------------------
(***************************************************************************)
(* The ring buffer.                                                        *)
(***************************************************************************)
\* The types of the ring's variables.
RingTypes ==
  /\ start \in Nat /\ count \in Nat /\ allocated \in Nat /\ capacity \in Nat
  /\ incoming \in Nat \cup {Null}
  /\ buffer \in Seq(Nat)

\* Where the indexes in flight lie, and that they lie in written slots.
RingShape ==
  /\ count <= capacity
  /\ start < capacity \/ start = 0
  /\ Len(buffer) <= capacity
  /\ start + count > capacity => Len(buffer) = capacity
  /\ start + count <= capacity => start + count <= Len(buffer)

\* When memory is held, and when a shrink may be pending.
RingMemory ==
  /\ allocated = 0 \/ allocated >= capacity
  /\ allocated = 0 => count = 0 /\ start = 0 /\ buffer = <<>> /\ incoming = Null
  /\ incoming # Null => incoming < capacity /\ count > 0

\* The oldest index is the lowest.
RingSorted == \A i, j \in 0..(count - 1) : i < j => At(i) < At(j)

RingInv == RingTypes /\ RingShape /\ RingMemory /\ RingSorted

-----------------------------------------------------------------------------
\* The arithmetic of the ring: the facts about numbers, without the buffer.
LEMMA RingNumbers ==
  ASSUME RingTypes, RingShape
  PROVE  /\ start \in Nat /\ count \in Nat /\ capacity \in Nat /\ Len(buffer) \in Nat
         /\ count <= capacity
         /\ start < capacity \/ start = 0
         /\ Len(buffer) <= capacity
         /\ start + count > capacity => Len(buffer) = capacity
         /\ start + count <= capacity => start + count <= Len(buffer)
<1>1. Len(buffer) \in Nat BY LenProperties DEF RingTypes
<1> QED BY <1>1 DEF RingTypes, RingShape

\* The slots in use are distinct written slots; the next one is not among them.
LEMMA SlotsInUse ==
  ASSUME RingTypes, RingShape, NEW j \in 0..(count - 1)
  PROVE  /\ Slot(j) \in Nat /\ Slot(j) < Len(buffer)
         /\ count < capacity => Slot(j) # Slot(count)
<1> DEFINE L == Len(buffer)
<1>1. /\ start \in Nat /\ count \in Nat /\ capacity \in Nat /\ L \in Nat
      /\ count <= capacity
      /\ start < capacity \/ start = 0
      /\ L <= capacity
      /\ start + count > capacity => L = capacity
      /\ start + count <= capacity => start + count <= L
  BY RingNumbers
<1> HIDE DEF L
<1>2. j \in Nat /\ j < count BY <1>1
<1>3. Slot(j) \in Nat /\ Slot(j) < L BY <1>1, <1>2 DEF Slot
<1>4. count < capacity => Slot(j) # Slot(count) BY <1>1, <1>2 DEF Slot
<1> QED BY <1>3, <1>4 DEF L

\* What is in flight is a sequence of indexes.
LEMMA QueueIsSeq ==
  ASSUME RingTypes, RingShape
  PROVE  /\ \A j \in 0..(count - 1) : At(j) \in Nat
         /\ Queue \in Seq(Nat) /\ Len(Queue) = count
         /\ \A j \in 1..count : Queue[j] = At(j - 1)
<1>1. count \in Nat /\ Len(buffer) \in Nat BY RingNumbers
<1>2. ASSUME NEW j \in 0..(count - 1) PROVE At(j) \in Nat
  <2>1. Slot(j) + 1 \in 1..Len(buffer) BY <1>1, SlotsInUse
  <2> QED BY <2>1, ElementOfSeq DEF At, RingTypes
<1>3. \A j \in 1..count : j - 1 \in 0..(count - 1) BY <1>1
<1>4. Queue \in [1..count -> Nat] BY <1>2, <1>3 DEF Queue
<1>5. Queue \in Seq(Nat) /\ Len(Queue) = count BY <1>1, <1>4
<1> QED BY <1>2, <1>5 DEF Queue

\* An unfilled ring takes one more index behind the others.
LEMMA AddStep ==
  ASSUME RingInv, NEW k \in Index, add(k)
  PROVE  RingInv' /\ Window!Add(k)
<1> USE DEF Null
<1>1. k \in Nat BY InflightsAssumption
<1>2. RingTypes /\ RingShape /\ RingMemory /\ RingSorted BY DEF RingInv
<1>3. Len(buffer) \in Nat /\ buffer \in [1..Len(buffer) -> Nat] BY <1>2, LenProperties DEF RingTypes
<1>4. /\ ~ full /\ count' = count + 1
      /\ start' = start /\ capacity' = capacity /\ incoming' = incoming
      /\ allocated' = IF allocated = 0 THEN capacity ELSE allocated
  BY DEF add
<1>5. count < capacity /\ (incoming # Null => count < incoming)
  BY <1>2, <1>4 DEF full, RingShape, RingTypes, RingMemory
<1> DEFINE h == Slot(count)
<1>6. h \in Nat /\ h <= Len(buffer) /\ h < capacity
  <2> DEFINE L == Len(buffer)
  <2>1. /\ start \in Nat /\ count \in Nat /\ capacity \in Nat /\ L \in Nat
        /\ start < capacity \/ start = 0
        /\ start + count > capacity => L = capacity
        /\ start + count <= capacity => start + count <= L
    BY <1>2, RingNumbers
  <2> HIDE DEF L
  <2>2. h \in Nat /\ h <= L /\ h < capacity BY <1>5, <2>1 DEF Slot
  <2> QED BY <2>2 DEF L
<1>7. /\ buffer' \in Seq(Nat)
      /\ Len(buffer') = IF h = Len(buffer) THEN h + 1 ELSE Len(buffer)
      /\ buffer'[h + 1] = k
      /\ \A g \in 1..Len(buffer) : g # h + 1 => buffer'[g] = buffer[g]
  <2>1. buffer' = IF h = Len(buffer) THEN Append(buffer, k) ELSE [buffer EXCEPT ![h + 1] = k]
    BY DEF add
  <2>2. buffer \in Seq(Nat) BY <1>2 DEF RingTypes
  <2> HIDE DEF h
  <2>3. CASE h = Len(buffer)
    BY <2>1, <2>2, <2>3, <1>1, <1>3, AppendProperties
  <2>4. CASE h # Len(buffer)
    <3>1. h + 1 \in 1..Len(buffer)
      <4> DEFINE L == Len(buffer)
      <4>1. L \in Nat /\ h \in Nat /\ h <= L /\ h # L BY <1>3, <1>6, <2>4
      <4> HIDE DEF L
      <4>2. h + 1 \in 1..L BY <4>1
      <4> QED BY <4>2 DEF L
    <3> QED BY <2>1, <2>2, <2>4, <3>1, <1>1, ExceptSeq
  <2> QED BY <2>3, <2>4
<1>8. \A j \in 0..(count - 1) : Slot(j) \in Nat /\ Slot(j) < Len(buffer) /\ Slot(j) # h
  BY <1>2, <1>5, SlotsInUse
<1>10. \A j \in 0..count : At(j)' = IF j = count THEN k ELSE At(j)
  <2>1. ASSUME NEW j \in 0..count, j = count PROVE At(j)' = k
    <3>1. Slot(j)' = h BY <1>4, <2>1 DEF Slot
    <3> QED BY <3>1, <1>7 DEF At
  <2>2. ASSUME NEW j \in 0..count, j # count PROVE At(j)' = At(j)
    <3>1. Slot(j)' = Slot(j) /\ Slot(j) + 1 \in 1..Len(buffer) /\ Slot(j) + 1 # h + 1
      <4> DEFINE L == Len(buffer) g == Slot(j)
      <4>1. j \in 0..(count - 1) BY <1>2, <2>2 DEF RingTypes
      <4>2. L \in Nat /\ h \in Nat /\ g \in Nat /\ g < L /\ g # h BY <1>3, <1>6, <1>8, <4>1
      <4>3. Slot(j)' = g BY <1>4 DEF Slot
      <4> HIDE DEF L, g, h
      <4>4. g + 1 \in 1..L /\ g + 1 # h + 1 BY <4>2
      <4> QED BY <4>3, <4>4 DEF L, g
    <3> QED BY <3>1, <1>7 DEF At
  <2> QED BY <2>1, <2>2
<1>11. \A j \in 0..(count - 1) : At(j) \in Nat
  BY <1>2, QueueIsSeq
<1>12. count > 0 => At(count - 1) < k BY DEF add
<1>13. RingTypes' BY <1>2, <1>4, <1>7 DEF RingTypes
<1>14. RingShape'
  <2> DEFINE L == Len(buffer) L2 == Len(buffer')
  <2>1. /\ start \in Nat /\ count \in Nat /\ capacity \in Nat /\ L \in Nat
        /\ start < capacity \/ start = 0
        /\ L <= capacity
        /\ start + count > capacity => L = capacity
        /\ start + count <= capacity => start + count <= L
    BY <1>2, RingNumbers
  <2>2. L2 = IF h = L THEN h + 1 ELSE L BY <1>7
  <2>3. h = IF start + count >= capacity THEN start + count - capacity ELSE start + count
    BY DEF Slot
  <2> HIDE DEF L, L2, h
  <2>4. /\ count + 1 <= capacity /\ L2 <= capacity
        /\ start + (count + 1) > capacity => L2 = capacity
        /\ start + (count + 1) <= capacity => start + (count + 1) <= L2
    BY <1>5, <2>1, <2>2, <2>3
  <2> QED BY <1>4, <2>1, <2>4 DEF RingShape, L2
<1>15. RingMemory'
  <2>1. incoming' # Null => incoming' < capacity' /\ count' > 0
    BY <1>2, <1>4 DEF RingMemory, RingTypes
  <2>2. allocated' > 0 /\ allocated' >= capacity'
    BY <1>2, <1>4, <1>5 DEF RingMemory, RingTypes
  <2> QED BY <2>1, <2>2 DEF RingMemory
<1>16. RingSorted'
  <2> SUFFICES ASSUME NEW i \in 0..(count' - 1), NEW j \in 0..(count' - 1), i < j
               PROVE  At(i)' < At(j)'
    BY DEF RingSorted
  <2>1. i \in 0..(count - 1) /\ count \in Nat BY <1>2, <1>4 DEF RingTypes
  <2>2. CASE j < count
    <3>1. j \in 0..(count - 1) BY <1>4, <2>1, <2>2
    <3>2. At(i) < At(j) BY <1>2, <2>1, <3>1 DEF RingSorted
    <3>3. i \in 0..count /\ j \in 0..count /\ i # count /\ j # count BY <2>1, <3>1
    <3> QED BY <1>10, <3>2, <3>3
  <2>3. CASE j = count
    <3>1. At(i) <= At(count - 1)
      <4>1. CASE i = count - 1 BY <4>1, <1>11, <2>1
      <4>2. CASE i < count - 1
        <5>1. count - 1 \in 0..(count - 1) BY <2>1
        <5>2. At(i) < At(count - 1) BY <1>2, <2>1, <4>2, <5>1 DEF RingSorted
        <5> QED BY <5>1, <5>2, <1>11, <2>1
      <4> QED BY <4>1, <4>2, <2>1
    <3>2. At(count - 1) \in Nat /\ At(i) \in Nat BY <1>11, <2>1
    <3>3. i \in 0..count /\ j \in 0..count /\ i # count BY <2>1, <2>3
    <3>4. At(i)' = At(i) /\ At(j)' = k BY <1>10, <2>3, <3>3
    <3> QED BY <1>1, <1>12, <2>1, <3>1, <3>2, <3>4
  <2> QED BY <1>4, <2>1, <2>2, <2>3
<1>17. Queue \in Seq(Nat) /\ Len(Queue) = count
  BY <1>2, QueueIsSeq
<1>18. Queue' = Append(Queue, k)
  <2>1. Queue' = [j \in 1..(count + 1) |-> At(j - 1)'] BY <1>4 DEF Queue
  <2>2. Append(Queue, k) \in Seq(Nat) /\ Len(Append(Queue, k)) = count + 1
        /\ (\A j \in 1..count : Append(Queue, k)[j] = Queue[j])
        /\ Append(Queue, k)[count + 1] = k
    BY <1>1, <1>17, AppendProperties
  <2>3. Append(Queue, k) \in [1..(count + 1) -> Nat] BY <2>2, LenProperties
  <2>4. ASSUME NEW j \in 1..(count + 1) PROVE At(j - 1)' = Append(Queue, k)[j]
    <3>1. count \in Nat BY <1>2 DEF RingTypes
    <3>2. CASE j = count + 1
      <4>1. j - 1 = count BY <3>1, <3>2
      <4> DEFINE g == j - 1
      <4>2. g \in 0..count /\ g = count BY <3>1, <4>1
      <4>3. At(g)' = k BY <4>2, <1>10
      <4> QED BY <4>3, <3>2, <2>2
    <3>3. CASE j # count + 1
      <4>1. j \in 1..count /\ j - 1 \in 0..count /\ j - 1 # count BY <3>1, <3>3
      <4>2. Queue[j] = At(j - 1) BY <4>1 DEF Queue
      <4> QED BY <4>1, <4>2, <2>2, <1>10
    <3> QED BY <3>2, <3>3
  <2> HIDE DEF h
  <2> QED BY <2>1, <2>3, <2>4
<1>19. Limit' = Limit /\ count < Limit BY <1>4, <1>5 DEF Limit
<1>20. Queue # <<>> => Queue[Len(Queue)] < k
  <2> SUFFICES ASSUME Queue # <<>> PROVE Queue[count] < k BY <1>17
  <2>1. count > 0 BY <1>2, <1>17 DEF RingTypes
  <2>2. Queue[count] = At(count - 1) BY <1>2, <2>1 DEF Queue, RingTypes
  <2> QED BY <1>12, <2>1, <2>2
<1> QED BY <1>13, <1>14, <1>15, <1>16, <1>17, <1>18, <1>19, <1>20
        DEF RingInv, Window!Add

-----------------------------------------------------------------------------
\* Nothing in flight is the empty queue.
LEMMA EmptyQueue ==
  ASSUME count = 0
  PROVE  Queue = <<>>
BY DEF Queue

\* Releasing the oldest d indexes removes them from the queue, whether or not
\* a deferred shrink follows.
LEMMA ReleaseStep ==
  ASSUME RingInv, count > 0, NEW d \in 0..count, Release(d)
  PROVE  RingInv' /\ Queue' = SubSeq(Queue, d + 1, Len(Queue)) /\ Limit' = Limit
<1> USE DEF Null
<1>1. RingTypes /\ RingShape /\ RingMemory /\ RingSorted BY DEF RingInv
<1>2. /\ start \in Nat /\ count \in Nat /\ capacity \in Nat /\ Len(buffer) \in Nat
      /\ d \in Nat /\ d <= count
  BY <1>1, RingNumbers
<1>3. Queue \in Seq(Nat) /\ Len(Queue) = count /\ \A j \in 1..count : Queue[j] = At(j - 1)
  BY <1>1, QueueIsSeq
<1>4. count' = count - d BY DEF Release
<1>5. CASE d = count /\ incoming # Null
  <2>1. /\ start' = 0 /\ buffer' = <<>> /\ allocated' \in {0, incoming}
        /\ capacity' = incoming /\ incoming' = Null /\ count' = 0
    BY <1>2, <1>4, <1>5 DEF Release
  <2>2. incoming \in Nat BY <1>1, <1>5 DEF RingTypes
  <2>3. RingTypes' BY <2>1, <2>2, EmptySeq DEF RingTypes
  <2>4. RingShape' BY <2>1, <2>2, EmptySeq DEF RingShape
  <2>5. RingMemory' BY <2>1, <2>2 DEF RingMemory
  <2>6. RingSorted' BY <2>1 DEF RingSorted
  <2>7. Queue' = <<>> BY <2>1 DEF Queue
  <2>8. SubSeq(Queue, d + 1, Len(Queue)) = <<>>
    <3>1. d + 1 > Len(Queue) BY <1>2, <1>3, <1>5
    <3> QED BY <1>2, <1>3, <3>1
  <2>9. Limit' = Limit BY <1>5, <2>1 DEF Limit
  <2> QED BY <2>3, <2>4, <2>5, <2>6, <2>7, <2>8, <2>9 DEF RingInv
<1>6. CASE d < count \/ incoming = Null
  <2>1. /\ start' = Slot(d)
        /\ buffer' = buffer /\ allocated' = allocated
        /\ capacity' = capacity /\ incoming' = incoming
    BY <1>2, <1>6 DEF Release
  <2> DEFINE L == Len(buffer)
  <2>2. /\ start \in Nat /\ count \in Nat /\ capacity \in Nat /\ L \in Nat
        /\ count <= capacity
        /\ start < capacity \/ start = 0
        /\ L <= capacity
        /\ start + count > capacity => L = capacity
        /\ start + count <= capacity => start + count <= L
    BY <1>1, RingNumbers
  <2>3. Slot(d) = IF start + d >= capacity THEN start + d - capacity ELSE start + d
    BY DEF Slot
  <2>4. Slot(d) \in Nat BY <1>2, <2>2, <2>3
  <2>5. RingTypes' BY <1>1, <1>2, <1>4, <2>1, <2>4 DEF RingTypes
  <2>6. RingShape'
    <3> DEFINE s == Slot(d)  c == count - d
    <3>1. s = IF start + d >= capacity THEN start + d - capacity ELSE start + d BY <2>3
    <3> HIDE DEF L, s
    <3>2. /\ c <= capacity
          /\ s < capacity \/ s = 0
          /\ s + c > capacity => L = capacity
          /\ s + c <= capacity => s + c <= L
      BY <1>2, <2>2, <3>1
    <3> QED BY <1>4, <2>1, <2>2, <3>2 DEF RingShape, L, s
  <2>7. RingMemory'
    <3>1. allocated # 0 BY <1>1, <1>2 DEF RingMemory
    <3>2. incoming # Null => d < count BY <1>6
    <3> QED BY <1>1, <1>2, <1>4, <2>1, <3>1, <3>2 DEF RingMemory
  <2>8. \A j \in 0..(count' - 1) : At(j)' = At(j + d) /\ j + d \in 0..(count - 1)
    <3> SUFFICES ASSUME NEW j \in 0..(count' - 1)
                 PROVE  At(j)' = At(j + d) /\ j + d \in 0..(count - 1)
      OBVIOUS
    <3>1. j \in Nat /\ j + d < count BY <1>2, <1>4
    <3>2. Slot(j)' = IF Slot(d) + j >= capacity THEN Slot(d) + j - capacity ELSE Slot(d) + j
      BY <2>1 DEF Slot
    <3>3. Slot(j + d) = IF start + (j + d) >= capacity THEN start + (j + d) - capacity
                                                        ELSE start + (j + d)
      BY DEF Slot
    <3>4. Slot(j)' = Slot(j + d)
      <4> DEFINE s == Slot(d) e == Slot(j + d) f == Slot(j)'
      <4>1. /\ s = IF start + d >= capacity THEN start + d - capacity ELSE start + d
            /\ e = IF start + (j + d) >= capacity THEN start + (j + d) - capacity
                                                    ELSE start + (j + d)
            /\ f = IF s + j >= capacity THEN s + j - capacity ELSE s + j
        BY <2>3, <3>2, <3>3
      <4> HIDE DEF s, e, f, L
      <4>2. f = e BY <1>2, <2>2, <3>1, <4>1
      <4> QED BY <4>2 DEF e, f
    <3>5. At(j)' = buffer'[Slot(j)' + 1] BY DEF At
    <3> QED BY <1>2, <2>1, <3>1, <3>4, <3>5 DEF At
  <2>9. RingSorted'
    <3> SUFFICES ASSUME NEW i \in 0..(count' - 1), NEW j \in 0..(count' - 1), i < j
                 PROVE  At(i)' < At(j)'
      BY DEF RingSorted
    <3>1. /\ At(i)' = At(i + d) /\ i + d \in 0..(count - 1)
          /\ At(j)' = At(j + d) /\ j + d \in 0..(count - 1)
      BY <2>8
    <3>2. i + d < j + d BY <1>2, <1>4
    <3> QED BY <1>1, <3>1, <3>2 DEF RingSorted
  <2>10. Queue' = SubSeq(Queue, d + 1, Len(Queue))
    <3> DEFINE T == SubSeq(Queue, d + 1, Len(Queue))
    <3>1. T = [j \in 1..(count - d) |-> Queue[j + d]]
      <4>1. T = [j \in 1..(count - (d + 1) + 1) |-> Queue[(d + 1) + j - 1]]
        BY <1>2, <1>3
      <4>2. count - (d + 1) + 1 = count - d BY <1>2
      <4>3. \A j \in 1..(count - d) : (d + 1) + j - 1 = j + d BY <1>2
      <4> HIDE DEF T
      <4> QED BY <4>1, <4>2, <4>3
    <3>2. Queue' = [j \in 1..(count - d) |-> At(j - 1)'] BY <1>4 DEF Queue
    <3>3. ASSUME NEW j \in 1..(count - d) PROVE At(j - 1)' = Queue[j + d]
      <4> DEFINE g == j - 1
      <4>1. g \in 0..(count' - 1) /\ j + d \in 1..count /\ (j + d) - 1 = g + d BY <1>2, <1>4
      <4>2. At(g)' = At(g + d) BY <2>8, <4>1
      <4>3. Queue[j + d] = At(g + d) BY <1>3, <4>1
      <4> QED BY <4>2, <4>3
    <3> HIDE DEF T
    <3>4. Queue' = T BY <3>1, <3>2, <3>3
    <3> QED BY <3>4 DEF T
  <2>11. Limit' = Limit BY <2>1 DEF Limit
  <2> QED BY <2>5, <2>6, <2>7, <2>9, <2>10, <2>11 DEF RingInv
<1> QED BY <1>5, <1>6, <1>2

\* freeTo releases exactly the indexes up to k: those behind the first larger
\* one are larger too.
LEMMA FreeToStep ==
  ASSUME RingInv, NEW k \in Nat, freeTo(k)
  PROVE  RingInv' /\ Window!FreeTo(k)
<1>1. RingTypes /\ RingShape /\ RingSorted BY DEF RingInv
<1>2. count \in Nat /\ count > 0 BY <1>1 DEF RingTypes, freeTo
<1>3. Queue \in Seq(Nat) /\ Len(Queue) = count /\ \A j \in 1..count : Queue[j] = At(j - 1)
  BY <1>1, QueueIsSeq
<1>4. \A j \in 0..(count - 1) : At(j) \in Nat BY <1>1, QueueIsSeq
<1>5. PICK d \in 0..count : /\ \A j \in 0..(d - 1) : At(j) <= k
                            /\ d < count => At(d) > k
                            /\ Release(d)
  BY DEF freeTo
<1>6. RingInv' /\ Queue' = SubSeq(Queue, d + 1, Len(Queue)) /\ Limit' = Limit
  BY <1>2, <1>5, ReleaseStep
<1>7. ASSUME NEW j \in 1..d PROVE Queue[j] <= k
  <2>1. j - 1 \in 0..(d - 1) /\ j \in 1..count BY <1>2
  <2> QED BY <1>3, <1>5, <2>1
<1>8. ASSUME NEW j \in (d + 1)..Len(Queue) PROVE Queue[j] > k
  <2>1. j \in 1..count /\ j - 1 \in 0..(count - 1) /\ d \in 0..(count - 1) /\ d <= j - 1
    BY <1>2, <1>3
  <2>2. At(d) > k BY <1>2, <1>5, <2>1
  <2>3. CASE d = j - 1 BY <1>3, <2>1, <2>2, <2>3
  <2>4. CASE d < j - 1
    <3>1. At(d) < At(j - 1) BY <1>1, <2>1, <2>4 DEF RingSorted
    <3>2. At(d) \in Nat /\ At(j - 1) \in Nat BY <1>4, <2>1
    <3> QED BY <1>3, <2>1, <2>2, <3>1, <3>2
  <2> QED BY <2>1, <2>3, <2>4
<1>9. d \in 0..Len(Queue) BY <1>3
<1> QED BY <1>6, <1>7, <1>8, <1>9 DEF Window!FreeTo

\* freeFirstOne releases one index: all others are larger than the oldest.
LEMMA FreeFirstOneStep ==
  ASSUME RingInv, freeFirstOne
  PROVE  RingInv' /\ Window!FreeFirstOne
<1> DEFINE k == At(0)
<1>1. RingTypes /\ RingShape /\ RingSorted BY DEF RingInv
<1>2. count \in Nat /\ count > 0 BY <1>1 DEF RingTypes, freeFirstOne
<1>3. Queue \in Seq(Nat) /\ Len(Queue) = count BY <1>1, QueueIsSeq
<1>4. \A j \in 0..(count - 1) : At(j) \in Nat BY <1>1, QueueIsSeq
<1>5. k \in Nat BY <1>2, <1>4
<1>6. PICK d \in 0..count : /\ \A j \in 0..(d - 1) : At(j) <= k
                            /\ d < count => At(d) > k
                            /\ Release(d)
  BY DEF freeFirstOne, freeTo
<1>7. d = 1
  <2>1. d # 0 BY <1>2, <1>5, <1>6
  <2>2. ~ d > 1
    <3> SUFFICES ASSUME d > 1 PROVE FALSE OBVIOUS
    <3>1. 1 \in 0..(d - 1) /\ 0 \in 0..(count - 1) /\ 1 \in 0..(count - 1) BY <1>2
    <3>2. At(1) <= k BY <1>6, <3>1
    <3>3. k < At(1) BY <1>1, <3>1 DEF RingSorted
    <3>4. At(1) \in Nat BY <1>4, <3>1
    <3> HIDE DEF k
    <3> QED BY <1>5, <3>2, <3>3, <3>4
  <2> QED BY <1>2, <2>1, <2>2
<1>8. RingInv' /\ Queue' = SubSeq(Queue, d + 1, Len(Queue)) /\ Limit' = Limit
  BY <1>2, <1>6, ReleaseStep
<1>9. Queue' = SubSeq(Queue, 2, Len(Queue)) BY <1>7, <1>8
<1>10. Queue # <<>> BY <1>2, <1>3
<1> QED BY <1>8, <1>9, <1>10 DEF Window!FreeFirstOne

\* reset empties the queue and leaves the bound asked for.
LEMMA ResetStep ==
  ASSUME RingInv, reset
  PROVE  RingInv' /\ Window!Reset
<1> USE DEF Null
<1>1. /\ start' = 0 /\ count' = 0 /\ buffer' = <<>> /\ allocated' = 0
      /\ capacity' = IF incoming = Null THEN capacity ELSE incoming
      /\ incoming' = Null
  BY DEF reset
<1>2. capacity \in Nat /\ incoming \in Nat \cup {Null} BY DEF RingInv, RingTypes
<1>3. RingTypes' BY <1>1, <1>2, EmptySeq DEF RingTypes
<1>4. RingShape' BY <1>1, <1>2, EmptySeq DEF RingShape
<1>5. RingMemory' BY <1>1 DEF RingMemory
<1>6. RingSorted' BY <1>1 DEF RingSorted
<1>7. Queue' = <<>> BY <1>1 DEF Queue
<1>8. Limit' = Limit BY <1>1 DEF Limit
<1> QED BY <1>3, <1>4, <1>5, <1>6, <1>7, <1>8 DEF RingInv, Window!Reset

\* A change of capacity that leaves the contents where they are.
LEMMA KeepCapacityStep ==
  ASSUME RingInv, NEW c \in Capacity, keepCapacity(c)
  PROVE  RingInv' /\ Window!SetCapacity(c)
<1> USE DEF Null
<1>1. /\ c = capacity /\ incoming' = Null
      /\ start' = start /\ count' = count /\ buffer' = buffer
      /\ allocated' = allocated /\ capacity' = capacity
  BY DEF keepCapacity
<1>2. RingTypes /\ RingShape /\ RingMemory /\ RingSorted BY DEF RingInv
<1>3. \A j \in Nat : At(j)' = At(j) BY <1>1 DEF At, Slot
<1>4. RingTypes' BY <1>1, <1>2 DEF RingTypes
<1>5. RingShape' BY <1>1, <1>2 DEF RingShape
<1>6. RingMemory' BY <1>1, <1>2 DEF RingMemory
<1>7. RingSorted' BY <1>1, <1>2 DEF RingSorted, At, Slot
<1>8. Queue' = Queue BY <1>1 DEF Queue, At, Slot
<1>9. Limit' = c BY <1>1 DEF Limit
<1> QED BY <1>4, <1>5, <1>6, <1>7, <1>8, <1>9 DEF RingInv, Window!SetCapacity

\* A deferred shrink changes only the bound.
LEMMA ShrinkLaterStep ==
  ASSUME RingInv, NEW c \in Capacity, shrinkLater(c)
  PROVE  RingInv' /\ Window!SetCapacity(c)
<1> USE DEF Null
<1>1. /\ c < capacity /\ count > 0 /\ incoming' = c
      /\ start' = start /\ count' = count /\ buffer' = buffer
      /\ allocated' = allocated /\ capacity' = capacity
  BY DEF shrinkLater
<1>2. RingTypes /\ RingShape /\ RingMemory /\ RingSorted BY DEF RingInv
<1>3. c \in Nat BY InflightsAssumption
<1>4. RingTypes' BY <1>1, <1>2, <1>3 DEF RingTypes
<1>5. RingShape' BY <1>1, <1>2 DEF RingShape
<1>6. RingMemory' BY <1>1, <1>2 DEF RingMemory
<1>7. RingSorted' BY <1>1, <1>2 DEF RingSorted, At, Slot
<1>8. Queue' = Queue BY <1>1 DEF Queue, At, Slot
<1>9. Limit' = c BY <1>1, <1>3 DEF Limit
<1> QED BY <1>4, <1>5, <1>6, <1>7, <1>8, <1>9 DEF RingInv, Window!SetCapacity

\* An empty ring shrinks at once.
LEMMA ShrinkEmptyStep ==
  ASSUME RingInv, NEW c \in Capacity, shrinkEmpty(c)
  PROVE  RingInv' /\ Window!SetCapacity(c)
<1> USE DEF Null
<1>1. /\ c < capacity /\ count = 0 /\ start' = 0 /\ capacity' = c /\ incoming' = Null
      /\ buffer' = <<>> /\ allocated' = (IF allocated > 0 THEN c ELSE 0) /\ count' = count
  BY DEF shrinkEmpty
<1>2. RingTypes /\ RingShape /\ RingMemory BY DEF RingInv
<1>3. c \in Nat BY InflightsAssumption
<1>4. RingTypes' BY <1>1, <1>2, <1>3, EmptySeq DEF RingTypes
<1>5. RingShape' BY <1>1, <1>3, EmptySeq DEF RingShape
<1>6. RingMemory' BY <1>1, <1>2, <1>3 DEF RingMemory, RingTypes
<1>7. RingSorted' BY <1>1 DEF RingSorted
<1>8. Queue' = Queue BY <1>1 DEF Queue
<1>9. Limit' = c BY <1>1 DEF Limit
<1> QED BY <1>4, <1>5, <1>6, <1>7, <1>8, <1>9 DEF RingInv, Window!SetCapacity

\* Growing a ring that has not wrapped moves nothing: every slot in use lies
\* below the old capacity, and so below the new one.
LEMMA GrowInPlaceStep ==
  ASSUME RingInv, NEW c \in Capacity, growInPlace(c)
  PROVE  RingInv' /\ Window!SetCapacity(c)
<1> USE DEF Null
<1>1. /\ capacity < c /\ ~ Wrapped /\ capacity' = c /\ incoming' = Null
      /\ allocated' = (IF allocated > 0 /\ allocated < c THEN c ELSE allocated)
      /\ start' = start /\ count' = count /\ buffer' = buffer
  BY DEF growInPlace
<1>2. RingTypes /\ RingShape /\ RingMemory /\ RingSorted BY DEF RingInv
<1>3. c \in Nat BY InflightsAssumption
<1>4. /\ start \in Nat /\ count \in Nat /\ capacity \in Nat /\ Len(buffer) \in Nat
      /\ start + count <= capacity
  BY <1>1, <1>2, RingNumbers DEF Wrapped
<1>5. \A j \in 0..(count - 1) : At(j)' = At(j)
  <2> SUFFICES ASSUME NEW j \in 0..(count - 1) PROVE At(j)' = At(j) OBVIOUS
  <2>1. j \in Nat /\ start + j < capacity BY <1>4
  <2>2. Slot(j) = start + j BY <1>4, <2>1 DEF Slot
  <2>3. Slot(j)' = start + j BY <1>1, <1>3, <1>4, <2>1 DEF Slot
  <2> QED BY <1>1, <2>2, <2>3 DEF At
<1>6. RingTypes' BY <1>1, <1>2, <1>3 DEF RingTypes
<1>7. RingShape'
  <2> DEFINE L == Len(buffer)
  <2>1. /\ L \in Nat /\ count <= capacity
        /\ start < capacity \/ start = 0
        /\ L <= capacity /\ start + count <= L
    BY <1>2, <1>4, RingNumbers
  <2> HIDE DEF L
  <2>2. /\ count <= c /\ L <= c /\ start + count <= c
        /\ start < c \/ start = 0
    BY <1>1, <1>3, <1>4, <2>1
  <2>3. start + count > c => L = c BY <1>3, <1>4, <2>2
  <2> QED BY <1>1, <2>1, <2>2, <2>3 DEF RingShape, L
<1>8. RingMemory' BY <1>1, <1>2, <1>3 DEF RingMemory, RingTypes
<1>9. RingSorted' BY <1>1, <1>2, <1>5 DEF RingSorted
<1>10. Queue' = Queue
  <2>1. \A j \in 1..count : j - 1 \in 0..(count - 1) BY <1>4
  <2>2. Queue' = [j \in 1..count |-> At(j - 1)'] BY <1>1 DEF Queue
  <2> QED BY <1>5, <2>1, <2>2 DEF Queue
<1>11. Limit' = c BY <1>1 DEF Limit
<1> QED BY <1>6, <1>7, <1>8, <1>9, <1>10, <1>11 DEF RingInv, Window!SetCapacity

\* Growing a wrapped ring puts its two pieces into the order of the queue.
LEMMA GrowUnrolledStep ==
  ASSUME RingInv, NEW c \in Capacity, growUnrolled(c)
  PROVE  RingInv' /\ Window!SetCapacity(c)
<1> USE DEF Null
<1> DEFINE A == SubSeq(buffer, start + 1, Len(buffer))
           t == count - (capacity - start)
           B == SubSeq(buffer, 1, t)
<1>1. /\ capacity < c /\ Wrapped /\ capacity' = c /\ incoming' = Null /\ allocated' = c
      /\ start' = 0 /\ count' = count /\ buffer' = A \o B
  BY DEF growUnrolled
<1>2. RingTypes /\ RingShape /\ RingMemory /\ RingSorted BY DEF RingInv
<1>3. c \in Nat BY InflightsAssumption
<1>4. /\ start \in Nat /\ count \in Nat /\ capacity \in Nat /\ count <= capacity
      /\ start < capacity \/ start = 0
      /\ start + count > capacity /\ Len(buffer) = capacity
  BY <1>1, <1>2, RingNumbers DEF Wrapped
<1>5. buffer \in Seq(Nat) BY <1>2 DEF RingTypes
<1>6. t \in 1..start /\ start < capacity BY <1>4
<1>7. /\ A \in Seq(Nat) /\ Len(A) = capacity - start
      /\ \A j \in 1..(capacity - start) : A[j] = buffer[start + j]
  <2>1. \A i \in (start + 1)..capacity : buffer[i] \in Nat
    <3>1. \A i \in (start + 1)..capacity : i \in 1..Len(buffer) BY <1>4
    <3> QED BY <1>5, <3>1, ElementOfSeq
  <2>2. start + 1 \in Int /\ capacity \in Int /\ start + 1 <= capacity
        /\ capacity - (start + 1) + 1 = capacity - start
    BY <1>4, <1>6
  <2>3. /\ A \in Seq(Nat) /\ Len(A) = capacity - start
        /\ \A j \in 1..(capacity - start) : A[j] = buffer[(start + 1) + j - 1]
    <3> DEFINE L == Len(buffer)
    <3>1. L = capacity BY <1>4
    <3> HIDE DEF L
    <3>2. A = SubSeq(buffer, start + 1, L) BY DEF L
    <3> HIDE DEF A
    <3> QED BY <2>1, <2>2, <3>1, <3>2, SubSeqProperties
  <2>4. \A j \in 1..(capacity - start) : (start + 1) + j - 1 = start + j BY <1>4
  <2> HIDE DEF A
  <2> QED BY <2>3, <2>4
<1>8. /\ B \in Seq(Nat) /\ Len(B) = t
      /\ \A j \in 1..t : B[j] = buffer[j]
  <2>1. \A i \in 1..t : buffer[i] \in Nat
    <3>1. \A i \in 1..t : i \in 1..Len(buffer) BY <1>4, <1>6
    <3> QED BY <1>5, <3>1, ElementOfSeq
  <2>2. t \in Int /\ 1 <= t /\ t - 1 + 1 = t BY <1>6, <1>4
  <2> HIDE DEF t
  <2>3. /\ B \in Seq(Nat) /\ Len(B) = t /\ \A j \in 1..t : B[j] = buffer[1 + j - 1]
    BY <2>1, <2>2, SubSeqProperties
  <2>4. \A j \in 1..t : 1 + j - 1 = j BY <2>2
  <2> HIDE DEF B
  <2> QED BY <2>3, <2>4
<1> HIDE DEF A, B
<1>9. /\ buffer' \in Seq(Nat) /\ Len(buffer') = count
      /\ \A j \in 1..count : buffer'[j] = IF j <= capacity - start THEN buffer[start + j]
                                          ELSE buffer[j - (capacity - start)]
  <2>1. Len(A) + Len(B) = count BY <1>4, <1>7, <1>8
  <2>2. /\ A \o B \in Seq(Nat) /\ Len(A \o B) = count
        /\ \A j \in 1..count : (A \o B)[j] = IF j <= Len(A) THEN A[j] ELSE B[j - Len(A)]
    BY <1>7, <1>8, <2>1, ConcatProperties
  <2>3. ASSUME NEW j \in 1..count
        PROVE (A \o B)[j] = IF j <= capacity - start THEN buffer[start + j]
                            ELSE buffer[j - (capacity - start)]
    <3>1. CASE j <= capacity - start
      <4>1. j \in 1..(capacity - start) BY <1>4, <3>1
      <4> QED BY <1>7, <2>2, <3>1, <4>1
    <3>2. CASE ~ (j <= capacity - start)
      <4>1. j - (capacity - start) \in 1..t BY <1>4, <3>2
      <4> QED BY <1>7, <1>8, <2>2, <3>2, <4>1
    <3> QED BY <3>1, <3>2
  <2> QED BY <1>1, <2>2, <2>3
<1>10. \A j \in 0..(count - 1) : At(j)' = At(j)
  <2> SUFFICES ASSUME NEW j \in 0..(count - 1) PROVE At(j)' = At(j) OBVIOUS
  <2>1. j \in Nat /\ j < count /\ j < c BY <1>1, <1>3, <1>4
  <2>2. Slot(j)' = j BY <1>1, <1>3, <2>1 DEF Slot
  <2>3. At(j)' = buffer'[j + 1] BY <2>2 DEF At
  <2>4. j + 1 \in 1..count BY <1>4, <2>1
  <2>5. CASE start + j < capacity
    <3>1. Slot(j) = start + j BY <1>4, <2>1, <2>5 DEF Slot
    <3>2. j + 1 <= capacity - start /\ start + (j + 1) = (start + j) + 1 BY <1>4, <2>1, <2>5
    <3> QED BY <1>9, <2>3, <2>4, <3>1, <3>2 DEF At
  <2>6. CASE start + j >= capacity
    <3>1. Slot(j) = start + j - capacity BY <1>4, <2>1, <2>6 DEF Slot
    <3>2. /\ ~ (j + 1 <= capacity - start)
          /\ (j + 1) - (capacity - start) = (start + j - capacity) + 1
      BY <1>4, <2>1, <2>6
    <3> QED BY <1>9, <2>3, <2>4, <3>1, <3>2 DEF At
  <2> QED BY <1>4, <2>1, <2>5, <2>6
<1>11. RingTypes' BY <1>1, <1>2, <1>3, <1>9 DEF RingTypes
<1>12. RingShape'
  <2> DEFINE L2 == Len(buffer')
  <2>1. L2 = count BY <1>9
  <2> HIDE DEF L2
  <2>2. count <= c /\ 0 + count <= c /\ L2 <= c /\ 0 + count <= L2 BY <1>1, <1>3, <1>4, <2>1
  <2>3. 0 + count > c => L2 = c BY <1>3, <1>4, <2>2
  <2> QED BY <1>1, <2>2, <2>3 DEF RingShape, L2
<1>13. RingMemory'
  <2>1. allocated' >= capacity' /\ allocated' # 0 BY <1>1, <1>3, <1>4
  <2> QED BY <1>1, <2>1 DEF RingMemory
<1>14. RingSorted' BY <1>1, <1>2, <1>10 DEF RingSorted
<1>15. Queue' = Queue
  <2>1. \A j \in 1..count : j - 1 \in 0..(count - 1) BY <1>4
  <2>2. Queue' = [j \in 1..count |-> At(j - 1)'] BY <1>1 DEF Queue
  <2> QED BY <1>10, <2>1, <2>2 DEF Queue
<1>16. Limit' = c BY <1>1 DEF Limit
<1> QED BY <1>11, <1>12, <1>13, <1>14, <1>15, <1>16 DEF RingInv, Window!SetCapacity

-----------------------------------------------------------------------------
\* A step of the ring keeps the invariant and is a step of the window.
LEMMA RingStep ==
  ASSUME RingInv, [RingNext]_ringVars
  PROVE  RingInv' /\ [Window!Next]_<<Queue, Limit>>
<1>1. ASSUME NEW k \in Index, add(k) PROVE RingInv' /\ Window!Next
  BY <1>1, AddStep DEF Window!Next
<1>2. ASSUME NEW k \in Index, freeTo(k) PROVE RingInv' /\ Window!Next
  BY <1>2, FreeToStep, InflightsAssumption DEF Window!Next
<1>3. ASSUME freeFirstOne PROVE RingInv' /\ Window!Next
  BY <1>3, FreeFirstOneStep DEF Window!Next
<1>4. ASSUME reset PROVE RingInv' /\ Window!Next
  BY <1>4, ResetStep DEF Window!Next
<1>5. ASSUME NEW c \in Capacity, setCapacity(c) PROVE RingInv' /\ Window!Next
  <2>1. RingInv' /\ Window!SetCapacity(c)
    BY <1>5, KeepCapacityStep, GrowInPlaceStep, GrowUnrolledStep, ShrinkEmptyStep,
       ShrinkLaterStep DEF setCapacity
  <2> QED BY <2>1 DEF Window!Next
<1>6. ASSUME UNCHANGED ringVars PROVE RingInv' /\ UNCHANGED <<Queue, Limit>>
  <2>1. /\ start' = start /\ count' = count /\ buffer' = buffer /\ allocated' = allocated
        /\ capacity' = capacity /\ incoming' = incoming
    BY <1>6 DEF ringVars
  <2>2. RingInv'
    BY <2>1 DEF RingInv, RingTypes, RingShape, RingMemory, RingSorted, At, Slot
  <2>3. Queue' = Queue /\ Limit' = Limit BY <2>1 DEF Queue, Limit, At, Slot
  <2> QED BY <2>2, <2>3
<1> QED BY <1>1, <1>2, <1>3, <1>4, <1>5, <1>6 DEF RingNext

\* A new ring is a new window.
LEMMA RingStart ==
  ASSUME RingInit
  PROVE  RingInv /\ Window!Init
<1> USE DEF Null
<1>1. /\ start = 0 /\ count = 0 /\ buffer = <<>> /\ allocated = 0 /\ incoming = Null
      /\ capacity \in Capacity /\ capacity \in Nat
  BY InflightsAssumption DEF RingInit
<1>2. RingTypes BY <1>1, EmptySeq DEF RingTypes
<1>3. RingShape BY <1>1, EmptySeq DEF RingShape
<1>4. RingMemory /\ RingSorted BY <1>1 DEF RingMemory, RingSorted
<1>5. Queue = <<>> /\ Limit = capacity BY <1>1 DEF Queue, Limit
<1> QED BY <1>1, <1>2, <1>3, <1>4, <1>5 DEF RingInv, Window!Init

\* The inductive invariant: the shape of the ring, its memory, its order.
THEOREM RingInvInductive == RingSpec => []RingInv
<1>1. RingInit => RingInv BY RingStart
<1>2. RingInv /\ [RingNext]_ringVars => RingInv' BY RingStep
<1> QED BY <1>1, <1>2, PTL DEF RingSpec

\* The ring buffer of inflights.zig implements the bounded FIFO, for any set of
\* capacities and of indexes.
THEOREM RingImplementsWindow == RingSpec => ImplementsWindow
<1>1. RingInit => Window!Init BY RingStart
<1>2. RingInv /\ [RingNext]_ringVars => [Window!Next]_<<Queue, Limit>> BY RingStep
<1> QED BY <1>1, <1>2, RingInvInductive, PTL DEF RingSpec, ImplementsWindow, Window!Spec

\* No assertion of inflights.zig fails and no append outgrows its allocation.
THEOREM RingAlwaysSound == RingSpec => []RingIsSound
<1> USE DEF Null
<1>1. ASSUME RingInv PROVE RingIsSound
  <2>1. RingTypes /\ RingShape /\ RingMemory BY <1>1 DEF RingInv
  <2> DEFINE L == Len(buffer) h == Slot(count)
             room == IF allocated = 0 THEN capacity ELSE allocated
  <2>2. /\ start \in Nat /\ count \in Nat /\ capacity \in Nat /\ L \in Nat /\ allocated \in Nat
        /\ count <= capacity
        /\ start < capacity \/ start = 0
        /\ start + count > capacity => L = capacity
        /\ start + count <= capacity => start + count <= L
        /\ allocated = 0 \/ allocated >= capacity
    BY <2>1, RingNumbers DEF RingTypes, RingMemory
  <2>3. h = IF start + count >= capacity THEN start + count - capacity ELSE start + count
    BY DEF Slot
  <2> HIDE DEF L, h
  <2>4. count < capacity => h <= L /\ (h = L => L < room) BY <2>2, <2>3
  <2>5. ~ full => count < capacity BY <2>2 DEF full
  <2>6. Wrapped => L = capacity BY <2>2 DEF Wrapped
  <2>7. allocated = 0 => count = 0 /\ start = 0 /\ incoming = Null BY <2>1 DEF RingMemory
  <2> QED BY <2>4, <2>5, <2>6, <2>7 DEF RingIsSound, L, h
<1> QED BY <1>1, RingInvInductive, PTL

\* full() answers for the capacity asked for last.
THEOREM FullAlwaysExact == RingSpec => []FullIsExact
<1> USE DEF Null
<1>1. ASSUME RingInv PROVE FullIsExact
  BY <1>1 DEF RingInv, RingTypes, RingShape, RingMemory, FullIsExact, full, Limit
<1> QED BY <1>1, RingInvInductive, PTL
=============================================================================
