--------------------------- MODULE QuorumTracker ---------------------------
(***************************************************************************)
(* The part of progress_tracker.zig that feeds the quorum arithmetic: the  *)
(* vote map of an election and the matched index and commit group of every *)
(* peer, over one (possibly joint) configuration.                          *)
(*                                                                         *)
(* Votes arrive in any order and a later answer of the same voter          *)
(* overwrites the earlier one (recordVote is a map put); matched indexes   *)
(* only grow (Progress.maybeUpdate).                                       *)
(***************************************************************************)
EXTENDS QuorumConf

CONSTANTS
  Id,        \* node ids
  MaxIndex,  \* largest acknowledged index (bound)
  Group,     \* commit group ids other than 0, which means "unassigned"
  Confs,     \* the configurations tried: records [incoming, outgoing]
  Ballot     \* the answers voters may give, a subset of {"yes", "no"}

ASSUME TrackerAssumption ==
  /\ IsFiniteSet(Id)
  /\ MaxIndex \in Nat
  /\ Group \subseteq Nat \ {0}
  /\ Ballot \subseteq {"yes", "no"}
  /\ \A c \in Confs : c.incoming \subseteq Id /\ c.outgoing \subseteq Id

VARIABLES
  conf,         \* progress_tracker.conf.voters
  votes,        \* progress_tracker.votes
  acked,        \* matched and commit_group_id of every Progress
  group_commit  \* progress_tracker.group_commit

vars == <<conf, votes, acked, group_commit>>

Acked == [index : 0..MaxIndex, group : Group \cup {0}]
Unacked == [index |-> 0, group |-> 0]

TypeOK ==
  /\ conf \in Confs
  /\ votes \in [Id -> VoteValue]
  /\ acked \in [Id -> Acked]
  /\ group_commit \in BOOLEAN

Init ==
  /\ conf \in Confs
  /\ votes = [s \in Id |-> "missing"]
  /\ acked = [s \in Id |-> Unacked]
  /\ group_commit \in BOOLEAN

\* recordVote: HashMap.put, the last answer counts.
RecordVote(s, v) ==
  /\ votes' = [votes EXCEPT ![s] = v]
  /\ UNCHANGED <<conf, acked, group_commit>>

\* resetVotes: a new campaign or any role change.
ResetVotes ==
  /\ votes' = [s \in Id |-> "missing"]
  /\ UNCHANGED <<conf, acked, group_commit>>

\* Progress.maybeUpdate as seen by the indexer: matched never decreases.
Acknowledge(s, k) ==
  /\ k > acked[s].index
  /\ acked' = [acked EXCEPT ![s].index = k]
  /\ UNCHANGED <<conf, votes, group_commit>>

\* Raft.assignCommitGroups for one peer: the id is positive.
AssignCommitGroup(s, g) ==
  /\ acked' = [acked EXCEPT ![s].group = g]
  /\ UNCHANGED <<conf, votes, group_commit>>

Next ==
  \/ \E s \in Id, v \in Ballot : RecordVote(s, v)
  \/ ResetVotes
  \/ \E s \in Id, k \in 1..MaxIndex : Acknowledge(s, k)
  \/ \E s \in Id, g \in Group : AssignCommitGroup(s, g)

Spec == Init /\ [][Next]_vars

(***************************************************************************)
(* Queries.                                                                *)
(***************************************************************************)
\* getVoteResult over the recorded votes.
GetVoteResult == JointVoteResult(conf.incoming, conf.outgoing, votes)

\* The voters' orders the sort may leave, one per half.
Orders == SortedOrders(conf.incoming, acked) \X SortedOrders(conf.outgoing, acked)

\* maxCommittedIndex for one outcome of the two sorts.  MaxIndex + 1 stands
\* for maxInt(u64).
MaxCommittedIndex(o) ==
  JointCommittedIndex(o[1], o[2], group_commit, acked, MaxIndex + 1)

(***************************************************************************)
(* Properties.                                                             *)
(***************************************************************************)
\* The ways in which the voters who have not answered may still answer.
Completions == {f \in [Id -> {"yes", "no"}] :
                  \A s \in Id : votes[s] # "missing" => f[s] = votes[s]}

Wins(f) == JointVoteResult(conf.incoming, conf.outgoing, f) = "won"

(***************************************************************************)
(* getVoteResult is exact: "won" means that no answer still outstanding    *)
(* can lose the election, "lost" that none can win it, and "pending" that  *)
(* both remain possible, also across the two halves of a joint             *)
(* configuration (an early "lost" would stall elections, an early "won"    *)
(* elect a leader without a quorum).                                       *)
(***************************************************************************)
VoteResultIsExact ==
  LET r == GetVoteResult IN
  /\ (r = "won")  <=> \A f \in Completions : Wins(f)
  /\ (r = "lost") <=> \A f \in Completions : ~ Wins(f)

(***************************************************************************)
(* Two candidates cannot both win: whoever answered yes to one is not      *)
(* counted for the other, whatever the configuration.                      *)
(***************************************************************************)
NoTwoWinners ==
  LET other == [s \in Id |-> IF votes[s] = "yes" THEN "no" ELSE "yes"]
  IN  (conf.incoming \cup conf.outgoing # {} /\ GetVoteResult = "won")
        => ~ Wins(other)

Match == [s \in Id |-> acked[s].index]

(***************************************************************************)
(* Without group commit, sorting and picking the majority-th entry gives   *)
(* the largest index acknowledged by a quorum, for every order in which    *)
(* the sort may leave equal indexes.                                       *)
(***************************************************************************)
CommittedIndexIsQuorumIndex ==
  (~ group_commit /\ conf.incoming \cup conf.outgoing # {})
    => \A o \in Orders :
         IsQuorumIndex(conf.incoming, conf.outgoing, Match,
                       MaxCommittedIndex(o).index)

\* The groups of one half that hold index k.
GroupsAt(voters, k) == {acked[s].group : s \in {v \in voters : acked[v].index >= k}} \ {0}

\* What group commit promises for one half: the largest index a majority
\* holds and, when the half spans two groups, two of its groups hold; a half
\* with an untagged voter and one group needs every voter.
GroupLimit(voters, k) ==
  /\ IsMajorityOf(voters, AckedBy(voters, Match, k))
  /\ Cardinality(GroupsAt(voters, 0)) >= 2 => Cardinality(GroupsAt(voters, k)) >= 2
  /\ (Cardinality(GroupsAt(voters, 0)) < 2 /\ \E s \in voters : acked[s].group = 0)
        => AckedBy(voters, Match, k) = voters

(***************************************************************************)
(* With group commit the committed index is the largest one both halves    *)
(* allow: held by a majority and by two commit groups where there are two. *)
(* In particular the answer does not depend on the iteration order of the  *)
(* voters' hash map.                                                       *)
(***************************************************************************)
GroupCommitIsLargest ==
  (group_commit /\ conf.incoming \cup conf.outgoing # {})
    => \A o \in Orders : \A k \in 0..MaxIndex :
         (k <= MaxCommittedIndex(o).index)
           <=> (GroupLimit(conf.incoming, k) /\ GroupLimit(conf.outgoing, k))

(***************************************************************************)
(* An acknowledgement never lowers the index the leader may commit to, for *)
(* any iteration order before and after it.                                *)
(***************************************************************************)
AcksRaiseCommit ==
  [][(\E s \in Id : acked'[s].index > acked[s].index)
       => \A o \in Orders, p \in Orders' :
            MaxCommittedIndex(o).index <= (MaxCommittedIndex(p))'.index]_vars
=============================================================================
