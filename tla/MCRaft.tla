------------------------------- MODULE MCRaft -------------------------------
(* Small instances of Raft for TLC. *)
EXTENDS Raft

CONSTANTS s1, s2, s3, v1

Two == {s1, s2}
Three == {s1, s2, s3}
Nobody == {}
NewPair == {s1, s2}
OldSingle == {s3}
OneValue == {v1}
EqualPriority == [i \in Server |-> 0]

\* How often each external event may happen.
Events(campaign, crash, propose, beat, transfer, unreachable, tick) ==
  [campaign |-> campaign, crash |-> crash, propose |-> propose, beat |-> beat,
   transfer |-> transfer, unreachable |-> unreachable, tick |-> tick]

ElectionBudget    == Events(2, 1, 0, 0, 0, 0, 0)
HandoverBudget    == Events(1, 0, 0, 0, 1, 0, 1)
PipelineBudget    == Events(0, 1, 2, 1, 0, 1, 0)
SuccessionBudget  == Events(1, 1, 2, 0, 0, 0, 0)
OvertakeBudget    == Events(2, 0, 0, 0, 0, 0, 0)
JointBudget       == Events(2, 1, 1, 0, 0, 0, 0)

\* The plain configurations are closed under renaming nodes, the joint one
\* under renaming the nodes of its incoming half.
NodeSymmetry == Permutations(Server)
PairSymmetry == Permutations(NewPair)

(***************************************************************************)
(* A start in the middle of a history: s1 led term 2 and wrote an entry    *)
(* nobody else has, s3 led term 3 and did the same, everybody restarted    *)
(* and every message is lost.  The entry of term 1 is committed.           *)
(***************************************************************************)
E(t) == [term |-> t, val |-> Noop]
DivergedDisk ==
  [i \in Server |->
     CASE i = s1 -> [term |-> 3, vote |-> None, commit |-> 1, log |-> <<E(1), E(2)>>]
       [] i = s2 -> [term |-> 3, vote |-> s3,   commit |-> 1, log |-> <<E(1)>>]
       [] i = s3 -> [term |-> 3, vote |-> s3,   commit |-> 1, log |-> <<E(1), E(3)>>]]

DivergedInit ==
  /\ disk = DivergedDisk
  /\ node = [i \in Server |-> Restart(i, DivergedDisk[i])]
  /\ msgs = {}
  /\ elected = {<<1, s1>>, <<2, s1>>, <<3, s3>>}
  /\ decided = <<E(1)>>
  /\ budget = Budget

DivergedSpec == DivergedInit /\ [][Next]_vars

(***************************************************************************)
(* A start in the steady state: s1 leads term 1, its entry is committed    *)
(* and known to be replicated everywhere, and no message is under way.     *)
(***************************************************************************)
LedDisk(i) == [term |-> 1, vote |-> s1, commit |-> 1, log |-> <<E(1)>>]

LedNode(i) ==
  [Restart(i, LedDisk(i)) EXCEPT
     !.leader_id = s1,
     !.state = IF i = s1 THEN "leader" ELSE "follower",
     !.prs = IF i # s1 THEN @
             ELSE [s \in Server |-> [matched |-> 1, next_idx |-> 2, state |-> "replicate",
                                     paused |-> FALSE, recent_active |-> (s # s1),
                                     inflights |-> <<>>]]]

LedState ==
  /\ disk = [i \in Server |-> LedDisk(i)]
  /\ node = [i \in Server |-> LedNode(i)]
  /\ msgs = {}
  /\ elected = {<<1, s1>>}
  /\ decided = <<E(1)>>

LedInit == LedState /\ budget = Budget

LedSpec == LedInit /\ [][Next]_vars

\* Either the leader keeps replicating while peers are reported unreachable
\* and heartbeats pass, or another node takes over.
PipelineInit == LedState /\ budget \in {PipelineBudget, SuccessionBudget}

PipelineSpec == PipelineInit /\ [][Next]_vars

FollowerSymmetry == Permutations(Server \ {s1})
=============================================================================
