----------------------------- MODULE QuorumConf -----------------------------
(***************************************************************************)
(* The quorum arithmetic of raftz: majority_conf.zig and joint_conf.zig,   *)
(* as operators on sets of voters.  Nothing here has state; the Raft       *)
(* module uses these operators for elections, commits and check-quorum,    *)
(* and QuorumTracker checks them against their reference definitions.      *)
(*                                                                         *)
(*   - votes : a function from voters to "yes", "no" or "missing";         *)
(*   - acked : a function from voters to [index, group], the matched index *)
(*             and commit group of a Progress; a voter without Progress is *)
(*             [index |-> 0, group |-> 0].                                 *)
(***************************************************************************)
EXTENDS Integers, FiniteSets, Sequences

VoteValue == {"yes", "no", "missing"}
VoteResult == {"pending", "lost", "won"}

MinOf(a, b) == IF a <= b THEN a ELSE b
MaxOf(a, b) == IF a <= b THEN b ELSE a

\* The least element of a non-empty finite set of numbers.
Least(S) == CHOOSE x \in S : \A y \in S : x <= y

\* Mutant: half of the voters suffice.
Half(total) == MaxOf(1, total \div 2)

\* majority_conf.zig: majority(total).
Majority(total) == total \div 2 + 1

(***************************************************************************)
(* Votes.                                                                  *)
(***************************************************************************)
Voting(voters, votes, v) == {s \in voters : votes[s] = v}

\* MajorityConfig.getVoteResult: an empty configuration is always won.
MajorityVoteResult(voters, votes) ==
  LET yes     == Cardinality(Voting(voters, votes, "yes"))
      missing == Cardinality(Voting(voters, votes, "missing"))
      q       == Majority(Cardinality(voters))
  IN  IF voters = {} \/ yes >= q THEN "won"
      ELSE IF yes + missing >= q THEN "pending"
      ELSE "lost"

\* Mutant: one half suffices to win.
EitherHalfWins(incoming, outgoing, votes) ==
  LET i == MajorityVoteResult(incoming, votes)
      o == MajorityVoteResult(outgoing, votes)
  IN  IF i = "won" \/ (outgoing # {} /\ o = "won") THEN "won"
      ELSE IF i = "lost" \/ o = "lost" THEN "lost"
      ELSE "pending"

\* JointConfiguration.getVoteResult: both halves must win, either may lose.
JointVoteResult(incoming, outgoing, votes) ==
  LET i == MajorityVoteResult(incoming, votes)
      o == MajorityVoteResult(outgoing, votes)
  IN  IF i = "won" /\ o = "won" THEN "won"
      ELSE IF i = "lost" \/ o = "lost" THEN "lost"
      ELSE "pending"

\* ProgressTracker.hasQuorum: membership of a set as an election in which
\* nobody is missing.
HasQuorum(incoming, outgoing, members) ==
  JointVoteResult(incoming, outgoing,
                  [s \in incoming \cup outgoing |->
                     IF s \in members THEN "yes" ELSE "no"]) = "won"

\* A set that wins the election of one majority configuration.
IsMajorityOf(voters, S) ==
  \/ voters = {}
  \/ Cardinality(voters \cap S) >= Majority(Cardinality(voters))

\* A set that wins the election of a joint configuration.
IsQuorum(incoming, outgoing, S) ==
  IsMajorityOf(incoming, S) /\ IsMajorityOf(outgoing, S)

(***************************************************************************)
(* Committed index.  The code fills an array in the iteration order of a   *)
(* hash map and sorts it, largest index first; equal indexes stay in that  *)
(* unspecified order, so the order is an argument here.                    *)
(***************************************************************************)
SortedOrders(voters, acked) ==
  {o \in [1..Cardinality(voters) -> voters] :
     /\ \A j, k \in 1..Cardinality(voters) : j # k => o[j] # o[k]
     /\ \A j, k \in 1..Cardinality(voters) :
          j < k => acked[o[j]].index >= acked[o[k]].index}

\* Mutant: group commit reads the group of the majority-th voter only and
\* answers the first index of another group, quorum or not.
FirstOtherGroupIndex(order, useGroupCommit, acked) ==
  LET at(k)  == acked[order[k]]
      q      == at(Majority(Len(order)))
      second == {k \in 1..Len(order) : at(k).group # 0 /\ at(k).group # q.group}
  IN  IF useGroupCommit /\ second # {}
        THEN [index |-> at(Least(second)).index, group |-> TRUE]
        ELSE [index |-> q.index, group |-> FALSE]

\* Mutant: picks the entry before the majority-th.
IndexBeforeMajority(order, useGroupCommit, acked) ==
  [index |-> acked[order[Len(order) \div 2 + (Len(order) % 2)]].index, group |-> FALSE]

\* MajorityConfig.committedIndex on a non-empty configuration.  The scan for
\* a second commit group stops at the first voter (in sorted order) whose
\* group is neither unset nor the group first seen.
MajorityCommittedIndex(order, useGroupCommit, acked) ==
  LET at(k)  == acked[order[k]]
      pos    == 1..Len(order)
      q      == at(Majority(Len(order)))
      tagged == {k \in pos : at(k).group # 0}
      seen   == IF q.group # 0 \/ tagged = {} THEN q.group
                                              ELSE at(Least(tagged)).group
      second == {k \in tagged : at(k).group # seen}
  IN  IF ~useGroupCommit
        THEN [index |-> q.index, group |-> FALSE]
      ELSE IF second # {}
        THEN [index |-> MinOf(at(Least(second)).index, q.index), group |-> TRUE]
      ELSE IF tagged = pos
        THEN [index |-> q.index, group |-> FALSE]
      ELSE [index |-> at(Len(order)).index, group |-> FALSE]

\* JointConfiguration.committedIndex.  The empty configuration answers
\* maxInt(u64), the unit of min; here the argument maxIndex.
JointCommittedIndex(inOrder, outOrder, useGroupCommit, acked, maxIndex) ==
  LET side(order) ==
        IF Len(order) = 0 THEN [index |-> maxIndex, group |-> FALSE]
        ELSE MajorityCommittedIndex(order, useGroupCommit, acked)
      i == side(inOrder)
      o == side(outOrder)
  IN  [index |-> MinOf(i.index, o.index), group |-> i.group /\ o.group]

(***************************************************************************)
(* The same index by its meaning: the quorum-th largest acknowledged       *)
(* index.  The Raft module commits with this form; QuorumTracker checks    *)
(* that the two agree.                                                     *)
(***************************************************************************)
AckedBy(voters, match, k) == {s \in voters : match[s] >= k}

\* The smaller of the two halves; an empty half never limits the other.
IsQuorumIndex(incoming, outgoing, match, k) ==
  /\ IsQuorum(incoming, outgoing,
              AckedBy(incoming \cup outgoing, match, k))
  /\ ~ IsQuorum(incoming, outgoing,
                AckedBy(incoming \cup outgoing, match, k + 1))
=============================================================================
