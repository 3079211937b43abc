-------------------------- MODULE MCQuorumTracker --------------------------
(* A small instance of QuorumTracker. *)
EXTENDS QuorumTracker, TLC

MCConfs == [incoming : SUBSET Id \ {{}}, outgoing : SUBSET Id]

\* The configurations in which acknowledgements are tried: plain and joint,
\* of equal and of different sizes.
AckConfs ==
  {[incoming |-> Id, outgoing |-> {}]} \cup
  {[incoming |-> Id \ {s}, outgoing |-> Id \ {t}] : s, t \in Id}

(***************************************************************************)
(* Votes and acknowledgements are never read together, so a behaviour uses *)
(* one or the other: their product would add states and no cases.          *)
(***************************************************************************)
Polling ==
  /\ \A s \in Id : acked[s] = Unacked
  /\ \E s \in Id, v \in Ballot : RecordVote(s, v)

Acking ==
  /\ \A s \in Id : votes[s] = "missing"
  /\ conf \in AckConfs
  /\ \/ \E s \in Id, k \in 1..MaxIndex : Acknowledge(s, k)
     \/ \E s \in Id, g \in Group : AssignCommitGroup(s, g)

MCNext == Polling \/ Acking \/ ResetVotes

MCSpec == Init /\ [][MCNext]_vars

\* Every set of configurations above is closed under renaming nodes.
NodeSymmetry == Permutations(Id)
=============================================================================
