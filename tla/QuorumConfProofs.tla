-------------------------- MODULE QuorumConfProofs --------------------------
(***************************************************************************)
(* What the quorum arithmetic guarantees for every set of voters: any two  *)
(* quorums of a (joint) configuration meet, the code's early tally says    *)
(* won exactly for a quorum and lost exactly without hope of one, and the  *)
(* committed index found by sorting is the largest the voters allow.       *)
(***************************************************************************)
EXTENDS QuorumConf, FiniteSetTheorems, TLAPS

\* Half of a number and one more, twice, is more than the number.
LEMMA MajorityBound ==
  ASSUME NEW n \in Nat
  PROVE  Majority(n) \in Nat /\ 2 * Majority(n) > n /\ Majority(n) > 0
BY DEF Majority

\* Two majorities of one set of voters (MajorityConfig) share a voter.
LEMMA MajoritiesMeet ==
  ASSUME NEW V, IsFiniteSet(V), V # {}, NEW S, NEW T,
         IsMajorityOf(V, S), IsMajorityOf(V, T)
  PROVE  S \cap T \cap V # {}
<1>1. /\ Cardinality(V) \in Nat
      /\ Cardinality(V \cap S) \in Nat
      /\ Cardinality(V \cap T) \in Nat
  BY FS_CardinalityType, FS_Subset
<1>2. Cardinality(V \cap S) + Cardinality(V \cap T) > Cardinality(V)
  BY <1>1, MajorityBound DEF IsMajorityOf
<1>3. (V \cap S) \cap (V \cap T) # {}
  BY <1>2, FS_MajoritiesIntersect, V \cap S \subseteq V, V \cap T \subseteq V
<1> QED BY <1>3

\* Two quorums of one joint configuration (JointConfiguration) share a node.
THEOREM QuorumsMeet ==
  ASSUME NEW I, NEW O, IsFiniteSet(I), IsFiniteSet(O), I \cup O # {}, NEW S, NEW T,
         IsQuorum(I, O, S), IsQuorum(I, O, T)
  PROVE  S \cap T # {}
<1>1. CASE I # {} BY <1>1, MajoritiesMeet DEF IsQuorum
<1>2. CASE O # {} BY <1>2, MajoritiesMeet DEF IsQuorum
<1> QED BY <1>1, <1>2

\* MajorityConfig.getVoteResult answers won exactly for a majority of yes.
LEMMA MajorityWon ==
  ASSUME NEW V, IsFiniteSet(V), NEW f
  PROVE  MajorityVoteResult(V, f) = "won" <=> IsMajorityOf(V, {s \in V : f[s] = "yes"})
<1>1. V \cap {s \in V : f[s] = "yes"} = Voting(V, f, "yes")
  BY DEF Voting
<1> QED BY <1>1 DEF MajorityVoteResult, IsMajorityOf

\* A larger set is a majority if a smaller one is.
LEMMA MajorityMonotone ==
  ASSUME NEW V, IsFiniteSet(V), NEW S, NEW T, V \cap S \subseteq T, IsMajorityOf(V, S)
  PROVE  IsMajorityOf(V, T)
<1>1. CASE V = {} BY <1>1 DEF IsMajorityOf
<1>2. CASE V # {}
  <2>1. /\ Cardinality(V \cap S) \in Nat
        /\ Cardinality(V \cap T) \in Nat
        /\ Cardinality(V) \in Nat
    BY FS_CardinalityType, FS_Subset
  <2>2. Cardinality(V \cap S) <= Cardinality(V \cap T)
    BY FS_Subset, V \cap S \subseteq V \cap T, IsFiniteSet(V \cap T), FS_Intersection
  <2> QED BY <1>2, <2>1, <2>2, MajorityBound DEF IsMajorityOf
<1> QED BY <1>1, <1>2

\* JointConfiguration.getVoteResult answers won exactly for a quorum of yes.
THEOREM WonByQuorum ==
  ASSUME NEW I, NEW O, IsFiniteSet(I), IsFiniteSet(O), NEW f
  PROVE  JointVoteResult(I, O, f) = "won"
           <=> IsQuorum(I, O, {s \in I \cup O : f[s] = "yes"})
<1> DEFINE Y(V) == {s \in V : f[s] = "yes"}
<1>1. JointVoteResult(I, O, f) = "won" <=> IsMajorityOf(I, Y(I)) /\ IsMajorityOf(O, Y(O))
  BY MajorityWon DEF JointVoteResult
<1>2. IsMajorityOf(I, Y(I)) <=> IsMajorityOf(I, Y(I \cup O))
  BY I \cap Y(I) = I \cap Y(I \cup O) DEF IsMajorityOf
<1>3. IsMajorityOf(O, Y(O)) <=> IsMajorityOf(O, Y(I \cup O))
  BY O \cap Y(O) = O \cap Y(I \cup O) DEF IsMajorityOf
<1> QED BY <1>1, <1>2, <1>3 DEF IsQuorum

\* MajorityConfig.getVoteResult answers lost exactly when even all missing
\* answers together with the recorded ones are no majority.
LEMMA MajorityLost ==
  ASSUME NEW V, IsFiniteSet(V), NEW f
  PROVE  MajorityVoteResult(V, f) = "lost"
           <=> ~ IsMajorityOf(V, {s \in V : f[s] \in {"yes", "missing"}})
<1> DEFINE Y == Voting(V, f, "yes")
           M == Voting(V, f, "missing")
<1>1. Y \in SUBSET V /\ M \in SUBSET V /\ Y \cap M = {}
  BY DEF Voting
<1>2. IsFiniteSet(Y) /\ IsFiniteSet(M)
  BY <1>1, FS_Subset
<1>3. Cardinality(Y \cup M) = Cardinality(Y) + Cardinality(M)
  <2>1. Cardinality(Y \cup M) = Cardinality(Y) + Cardinality(M) - Cardinality(Y \cap M)
    BY <1>2, FS_Union
  <2>2. Cardinality(Y \cap M) = 0
    BY <1>1, FS_EmptySet
  <2>3. Cardinality(Y) \in Nat /\ Cardinality(M) \in Nat
    BY <1>2, FS_CardinalityType
  <2> HIDE DEF Y, M
  <2> QED BY <2>1, <2>2, <2>3
<1>4. V \cap {s \in V : f[s] \in {"yes", "missing"}} = Y \cup M
  BY DEF Voting
<1>5. /\ Cardinality(Y) \in Nat /\ Cardinality(M) \in Nat
      /\ Cardinality(V) \in Nat /\ Majority(Cardinality(V)) \in Nat
  BY <1>2, FS_CardinalityType, MajorityBound
<1> QED BY <1>3, <1>4, <1>5 DEF MajorityVoteResult, IsMajorityOf

\* JointConfiguration.getVoteResult answers lost exactly when no quorum can
\* still be reached.
LEMMA LostWithoutQuorum ==
  ASSUME NEW I, NEW O, IsFiniteSet(I), IsFiniteSet(O), NEW f
  PROVE  JointVoteResult(I, O, f) = "lost"
           <=> ~ IsQuorum(I, O, {s \in I \cup O : f[s] \in {"yes", "missing"}})
<1> DEFINE Y(V) == {s \in V : f[s] \in {"yes", "missing"}}
<1>1. JointVoteResult(I, O, f) = "lost" <=> ~ (IsMajorityOf(I, Y(I)) /\ IsMajorityOf(O, Y(O)))
  BY MajorityLost DEF JointVoteResult, MajorityVoteResult
<1>2. IsMajorityOf(I, Y(I)) <=> IsMajorityOf(I, Y(I \cup O))
  BY I \cap Y(I) = I \cap Y(I \cup O) DEF IsMajorityOf
<1>3. IsMajorityOf(O, Y(O)) <=> IsMajorityOf(O, Y(I \cup O))
  BY O \cap Y(O) = O \cap Y(I \cup O) DEF IsMajorityOf
<1> QED BY <1>1, <1>2, <1>3 DEF IsQuorum

\* A superset of a quorum is a quorum.
LEMMA QuorumMonotone ==
  ASSUME NEW I, NEW O, IsFiniteSet(I), IsFiniteSet(O), NEW S, NEW T,
         (I \cup O) \cap S \subseteq T, IsQuorum(I, O, S)
  PROVE  IsQuorum(I, O, T)
BY MajorityMonotone, I \cap S \subseteq T, O \cap S \subseteq T DEF IsQuorum

-----------------------------------------------------------------------------
(***************************************************************************)
(* The committed index.                                                    *)
(***************************************************************************)
\* a gives every voter of V an index and a commit group.
IsAcked(V, a) == \A s \in V : a[s].index \in Nat /\ a[s].group \in Nat

\* A non-empty set of natural numbers has a least element, which Least finds.
LEMMA FirstIsLeast ==
  ASSUME NEW S \in SUBSET Nat, S # {}
  PROVE  Least(S) \in S /\ \A y \in S : Least(S) <= y
<1> DEFINE P(x) == \A y \in S : x <= y
<1>1. PICK x \in S : \A y \in S : ~ (<<y, x>> \in OpToRel(<, Nat))
  BY NatLessThanWellFounded, WFMin
<1>2. \A y \in S : ~ (y < x) BY <1>1 DEF OpToRel
<1>3. \E z \in S : P(z) BY <1>2
<1>4. Least(S) = CHOOSE z \in S : P(z) BY DEF Least
<1>5. Least(S) \in S /\ P(Least(S)) BY <1>3, <1>4
<1> QED BY <1>5

\* Two members make a cardinality of two.
LEMMA TwoMembers ==
  ASSUME NEW S, IsFiniteSet(S)
  PROVE  Cardinality(S) >= 2 <=> \E x, y \in S : x # y
<1>1. Cardinality(S) \in Nat BY FS_CardinalityType
<1>2. ASSUME Cardinality(S) >= 2 PROVE \E x, y \in S : x # y
  <2>1. S # {} BY <1>2, FS_EmptySet
  <2>2. PICK x \in S : TRUE BY <2>1
  <2>3. S # {x} BY <1>1, <1>2, FS_Singleton
  <2> QED BY <2>2, <2>3
<1>3. ASSUME NEW x \in S, NEW y \in S, x # y PROVE Cardinality(S) >= 2
  <2>1. Cardinality(S) # 0 BY <1>3, FS_EmptySet
  <2>2. Cardinality(S) # 1 BY <1>3, FS_Singleton
  <2> QED BY <1>1, <2>1, <2>2
<1> QED BY <1>2, <1>3

\* A sorted order lists every voter, as many as there are.
LEMMA OrderIsOnto ==
  ASSUME NEW V, IsFiniteSet(V), NEW a, NEW o \in SortedOrders(V, a)
  PROVE  /\ Cardinality(V) \in Nat /\ Len(o) = Cardinality(V)
         /\ \A j \in 1..Cardinality(V) : o[j] \in V
         /\ \A s \in V : \E j \in 1..Cardinality(V) : o[j] = s
<1> DEFINE n == Cardinality(V)
<1>1. n \in Nat BY FS_CardinalityType
<1>2. o \in [1..n -> V] /\ \A j, k \in 1..n : j # k => o[j] # o[k]
  BY DEF SortedOrders
<1>3. o \in Injection(1..n, V) BY <1>2 DEF Injection, IsInjective
<1>4. Cardinality(1..n) = n BY <1>1, FS_Interval
<1>5. o \in Surjection(1..n, V) BY <1>3, <1>4, FS_Injection
<1>6. \A s \in V : \E j \in 1..n : o[j] = s BY <1>5 DEF Surjection
<1>7. Len(o) = n
  <2> HIDE DEF n
  <2>1. DOMAIN o = 1..n BY <1>2
  <2>2. o \in Seq(V) BY <1>1, <1>2
  <2> QED BY <1>1, <2>1, <2>2
<1> QED BY <1>1, <1>2, <1>6, <1>7

\* The q-th index in descending order is at least k exactly when q voters
\* have acknowledged k.
LEMMA OrderCounts ==
  ASSUME NEW V, IsFiniteSet(V), NEW a, IsAcked(V, a), NEW o \in SortedOrders(V, a),
         NEW q \in 1..Cardinality(V), NEW k \in Nat
  PROVE  k <= a[o[q]].index <=> Cardinality({s \in V : a[s].index >= k}) >= q
<1> DEFINE n == Cardinality(V)
           A == {s \in V : a[s].index >= k}
<1>1. n \in Nat /\ \A s \in V : \E j \in 1..n : o[j] = s
  BY OrderIsOnto
<1>2. o \in [1..n -> V] /\ \A i, j \in 1..n : i # j => o[i] # o[j]
  BY DEF SortedOrders
<1>3. \A i, j \in 1..n : i < j => a[o[i]].index >= a[o[j]].index
  BY DEF SortedOrders
<1>4. \A j \in 1..n : o[j] \in V /\ a[o[j]].index \in Nat BY <1>2 DEF IsAcked
<1>5. IsFiniteSet(A) /\ Cardinality(A) \in Nat
  <2>1. A \in SUBSET V OBVIOUS
  <2> QED BY <2>1, FS_Subset, FS_CardinalityType
<1>6. q \in Nat /\ q >= 1 /\ q <= n BY <1>1
<1> HIDE DEF n
<1>7. ASSUME k <= a[o[q]].index PROVE Cardinality(A) >= q
  <2> DEFINE f == [j \in 1..q |-> o[j]]
  <2>1. ASSUME NEW j \in 1..q PROVE o[j] \in A
    <3>1. j \in 1..n /\ q \in 1..n /\ (j = q \/ j < q) BY <1>1, <1>6
    <3>2. a[o[j]].index >= a[o[q]].index BY <1>3, <1>4, <3>1
    <3> QED BY <1>4, <1>7, <3>1, <3>2
  <2>2. \A i, j \in 1..q : o[i] = o[j] => i = j BY <1>1, <1>2, <1>6
  <2> HIDE DEF A
  <2>3. f \in Injection(1..q, A) BY <2>1, <2>2 DEF Injection, IsInjective
  <2>4. Cardinality(1..q) = q BY <1>6, FS_Interval
  <2>5. Cardinality(1..q) <= Cardinality(A) BY <1>5, <2>3, FS_Injection
  <2> QED BY <1>5, <1>6, <2>4, <2>5
<1>8. ASSUME ~ (k <= a[o[q]].index) PROVE ~ (Cardinality(A) >= q)
  <2>0. q \in 1..n BY <1>1, <1>6
  <2> DEFINE B == {o[j] : j \in 1..(q - 1)}
             f == [j \in 1..(q - 1) |-> o[j]]
  <2>1. ASSUME NEW s \in A PROVE s \in B
    <3>1. PICK j \in 1..n : o[j] = s BY <1>1
    <3>2. ~ (q <= j)
      <4> SUFFICES ASSUME q <= j PROVE FALSE OBVIOUS
      <4>1. a[o[q]].index >= a[o[j]].index BY <1>3, <1>4, <2>0, <3>1, <1>6
      <4> QED BY <1>4, <1>8, <2>0, <3>1, <4>1
    <3>3. j \in 1..(q - 1) BY <1>1, <1>6, <3>2
    <3> QED BY <3>1, <3>3
  <2>2. f \in Surjection(1..(q - 1), B) BY DEF Surjection
  <2>3. IsFiniteSet(1..(q - 1)) /\ Cardinality(1..(q - 1)) = q - 1 BY <1>6, FS_Interval
  <2>4. IsFiniteSet(B) /\ Cardinality(B) <= q - 1 BY <2>2, <2>3, FS_Surjection
  <2>5. A \in SUBSET B BY <2>1
  <2> HIDE DEF A, B
  <2>6. Cardinality(A) <= Cardinality(B) BY <2>4, <2>5, FS_Subset
  <2>7. Cardinality(B) \in Nat BY <2>4, FS_CardinalityType
  <2> QED BY <1>5, <1>6, <2>4, <2>6, <2>7
<1> QED BY <1>7, <1>8

\* The voters of V that have acknowledged k, and the commit groups among them.
HoldersOf(V, a, k) == {s \in V : a[s].index >= k}
GroupsOf(V, a, k) == {a[s].group : s \in HoldersOf(V, a, k)} \ {0}

\* What one half allows the leader to commit, g telling whether commit groups
\* count: an index that a majority holds and, when the voters are of two
\* groups, two groups hold; with an untagged voter and one group, everybody.
HalfAllows(V, a, g, k) ==
  /\ IsMajorityOf(V, HoldersOf(V, a, k))
  /\ g => /\ Cardinality(GroupsOf(V, a, 0)) >= 2 => Cardinality(GroupsOf(V, a, k)) >= 2
          /\ (Cardinality(GroupsOf(V, a, 0)) < 2 /\ \E s \in V : a[s].group = 0)
               => HoldersOf(V, a, k) = V

\* There are two groups at k when two holders are tagged differently.
LEMMA TwoGroups ==
  ASSUME NEW V, IsFiniteSet(V), NEW a, NEW k
  PROVE  /\ Cardinality(GroupsOf(V, a, k)) \in Nat
         /\ Cardinality(GroupsOf(V, a, k)) >= 2
              <=> \E s, t \in HoldersOf(V, a, k) :
                    a[s].group # 0 /\ a[t].group # 0 /\ a[s].group # a[t].group
<1> DEFINE H == HoldersOf(V, a, k)
           G == {a[s].group : s \in H}
           f == [s \in H |-> a[s].group]
<1>1. IsFiniteSet(H)
  <2>1. H \in SUBSET V BY DEF HoldersOf
  <2> QED BY <2>1, FS_Subset
<1> HIDE DEF H
<1>2. f \in Surjection(H, G) BY DEF Surjection
<1>3. IsFiniteSet(G) BY <1>1, <1>2, FS_Surjection
<1>4. GroupsOf(V, a, k) = G \ {0} BY DEF GroupsOf, H
<1>5. IsFiniteSet(G \ {0}) BY <1>3, FS_RemoveElement
<1>6. Cardinality(G \ {0}) \in Nat BY <1>5, FS_CardinalityType
<1> DEFINE T == G \ {0}
<1>7. Cardinality(T) >= 2 <=> \E x, y \in T : x # y
  <2>1. IsFiniteSet(T) BY <1>5
  <2> HIDE DEF T
  <2> QED BY <2>1, TwoMembers
<1>8. (\E x, y \in G \ {0} : x # y)
        <=> \E s, t \in H : a[s].group # 0 /\ a[t].group # 0 /\ a[s].group # a[t].group
  OBVIOUS
<1> QED BY <1>4, <1>6, <1>7, <1>8 DEF H

\* MajorityConfig.committedIndex: k is at most the answer exactly when the
\* voters allow it, whatever the order of equal indexes.
LEMMA MajorityCommits ==
  ASSUME NEW V, IsFiniteSet(V), V # {}, NEW a, IsAcked(V, a), NEW o \in SortedOrders(V, a),
         NEW g \in BOOLEAN, NEW k \in Nat
  PROVE  /\ \E s \in V : MajorityCommittedIndex(o, g, a).index = a[s].index
         /\ k <= MajorityCommittedIndex(o, g, a).index <=> HalfAllows(V, a, g, k)
<1> DEFINE n == Cardinality(V)
           at(j) == a[o[j]]
           q == Majority(n)
           tagged == {j \in 1..n : at(j).group # 0}
           seen == IF at(q).group # 0 \/ tagged = {} THEN at(q).group ELSE at(Least(tagged)).group
           second == {j \in tagged : at(j).group # seen}
           c == MajorityCommittedIndex(o, g, a).index
<1>1. /\ n \in Nat /\ Len(o) = n
      /\ \A j \in 1..n : o[j] \in V
      /\ \A s \in V : \E j \in 1..n : o[j] = s
  BY OrderIsOnto
<1>2. \A j \in 1..n : at(j).index \in Nat /\ at(j).group \in Nat BY <1>1 DEF IsAcked
<1>3. \A i, j \in 1..n : i <= j => at(i).index >= at(j).index
  <2>1. \A i, j \in 1..n : i < j => at(i).index >= at(j).index BY DEF SortedOrders
  <2> QED BY <1>1, <1>2, <2>1
<1>4. n > 0 BY <1>1, FS_EmptySet
<1>5. q \in 1..n BY <1>1, <1>4 DEF Majority
<1>6. c = IF ~ g THEN at(q).index
          ELSE IF second # {} THEN MinOf(at(Least(second)).index, at(q).index)
          ELSE IF tagged = 1..n THEN at(q).index
          ELSE at(n).index
  BY <1>1, ZenonT(30) DEF MajorityCommittedIndex
<1> DEFINE H == HoldersOf(V, a, k)
           Two(j) == Cardinality(GroupsOf(V, a, j)) >= 2
<1>7. k <= at(q).index <=> IsMajorityOf(V, H)
  <2>1. k <= at(q).index <=> Cardinality({s \in V : a[s].index >= k}) >= q
    BY <1>5, OrderCounts
  <2>2. V \cap H = {s \in V : a[s].index >= k} BY DEF HoldersOf
  <2> QED BY <2>1, <2>2 DEF IsMajorityOf
<1>8. \A j \in 1..n : o[j] \in H <=> k <= at(j).index BY <1>1, <1>2 DEF HoldersOf
<1>9. H = V <=> k <= at(n).index
  <2>1. n \in 1..n BY <1>1, <1>4
  <2>2. ASSUME k <= at(n).index, NEW s \in V PROVE s \in H
    <3>1. PICK j \in 1..n : o[j] = s BY <1>1
    <3>2. j <= n BY <1>1
    <3>3. at(j).index >= at(n).index BY <1>3, <2>1, <3>2
    <3> QED BY <1>2, <1>8, <2>1, <2>2, <3>1, <3>3
  <2>3. H \subseteq V BY DEF HoldersOf
  <2> QED BY <1>1, <1>8, <2>1, <2>2, <2>3
<1>10. Two(k) <=> \E i, j \in tagged :
                    k <= at(i).index /\ k <= at(j).index /\ at(i).group # at(j).group
  <2>1. Two(k) <=> \E s, t \in H : a[s].group # 0 /\ a[t].group # 0 /\ a[s].group # a[t].group
    BY TwoGroups
  <2>2. H \subseteq V BY DEF HoldersOf
  <2> HIDE DEF H, Two
  <2>3. ASSUME NEW s \in H, NEW t \in H, a[s].group # 0, a[t].group # 0, a[s].group # a[t].group
        PROVE  \E i, j \in tagged :
                 k <= at(i).index /\ k <= at(j).index /\ at(i).group # at(j).group
    <3>1. PICK i \in 1..n : o[i] = s BY <1>1, <2>2
    <3>2. PICK j \in 1..n : o[j] = t BY <1>1, <2>2
    <3> QED BY <1>8, <2>3, <3>1, <3>2
  <2> QED BY <1>8, <2>1, <2>3
<1>11. Two(0) <=> \E i, j \in tagged : at(i).group # at(j).group
  <2>1. HoldersOf(V, a, 0) = V BY DEF HoldersOf, IsAcked
  <2>2. Two(0) <=> \E s, t \in V : a[s].group # 0 /\ a[t].group # 0 /\ a[s].group # a[t].group
    BY <2>1, TwoGroups
  <2> HIDE DEF Two
  <2>3. ASSUME NEW s \in V, NEW t \in V, a[s].group # 0, a[t].group # 0, a[s].group # a[t].group
        PROVE  \E i, j \in tagged : at(i).group # at(j).group
    <3>1. PICK i \in 1..n : o[i] = s BY <1>1
    <3>2. PICK j \in 1..n : o[j] = t BY <1>1
    <3> QED BY <2>3, <3>1, <3>2
  <2> QED BY <1>1, <2>2, <2>3
<1>12. (\E s \in V : a[s].group = 0) <=> tagged # 1..n BY <1>1
<1>13. Cardinality(GroupsOf(V, a, 0)) < 2 <=> ~ Two(0)
  <2>1. Cardinality(GroupsOf(V, a, 0)) \in Nat BY TwoGroups
  <2> QED BY <2>1
<1>14. HalfAllows(V, a, g, k)
         <=> /\ IsMajorityOf(V, H)
             /\ g => /\ Two(0) => Two(k)
                     /\ (~ Two(0) /\ tagged # 1..n) => H = V
  <2> HIDE DEF tagged
  <2> QED BY <1>12, <1>13 DEF HalfAllows
<1>15. tagged \in SUBSET Nat /\ second \in SUBSET Nat /\ tagged \subseteq 1..n
       /\ second \subseteq tagged
  BY <1>1
<1>16. ASSUME second # {}
       PROVE  /\ Least(second) \in second /\ \A j \in second : Least(second) <= j
              /\ Two(0)
  <2>1. Least(second) \in second /\ \A j \in second : Least(second) <= j
    BY <1>15, <1>16, FirstIsLeast
  <2>2. tagged # {} BY <1>15, <1>16
  <2>3. Least(tagged) \in tagged BY <1>15, <2>2, FirstIsLeast
  <2>4. \E i \in tagged : at(i).group = seen
    BY <1>5, <2>2, <2>3
  <2> QED BY <1>11, <1>15, <2>1, <2>4
<1>17. ASSUME second = {} PROVE ~ Two(0)
  BY <1>11, <1>17
<1>18. ASSUME second # {}, k <= at(q).index PROVE Two(k) <=> k <= at(Least(second)).index
  <2> DEFINE l == Least(second)
  <2>1. l \in second /\ l \in tagged /\ l \in 1..n /\ \A j \in second : l <= j
    BY <1>15, <1>16, <1>18
  <2>2. ASSUME Two(k) PROVE k <= at(l).index
    <3>1. PICK i, j \in tagged : k <= at(i).index /\ k <= at(j).index /\ at(i).group # at(j).group
      BY <1>10, <2>2
    <3>2. PICK p \in second : k <= at(p).index BY <3>1
    <3>3. p \in 1..n /\ l <= p BY <1>15, <2>1, <3>2
    <3>4. at(l).index >= at(p).index BY <1>3, <2>1, <3>3
    <3>5. at(l).index \in Nat /\ at(p).index \in Nat BY <1>2, <2>1, <3>3
    <3> HIDE DEF l, at
    <3> QED BY <3>2, <3>4, <3>5
  <2>3. ASSUME k <= at(l).index PROVE Two(k)
    <3>1. \E i \in tagged : at(i).group = seen /\ k <= at(i).index
      <4>1. CASE at(q).group # 0 BY <1>5, <1>18, <4>1
      <4>2. CASE at(q).group = 0
        <5>1. tagged # {} BY <2>1
        <5>2. Least(tagged) \in tagged /\ Least(tagged) <= l BY <1>15, <2>1, <5>1, FirstIsLeast
        <5>3. at(Least(tagged)).index >= at(l).index BY <1>3, <1>15, <2>1, <5>2
        <5>4. Least(tagged) \in 1..n BY <1>15, <5>2
        <5>5. k <= at(Least(tagged)).index
          <6>1. at(l).index \in Nat /\ at(Least(tagged)).index \in Nat BY <1>2, <2>1, <5>4
          <6> HIDE DEF l, tagged, at
          <6> QED BY <2>3, <5>3, <6>1
        <5> QED BY <4>2, <5>1, <5>2, <5>5
      <4> QED BY <4>1, <4>2
    <3>2. at(l).group # seen BY <2>1
    <3> QED BY <1>10, <2>1, <2>3, <3>1, <3>2
  <2> QED BY <2>2, <2>3
<1>19. n \in 1..n BY <1>1, <1>4
<1>20. k <= at(n).index => k <= at(q).index
  <2>1. at(q).index >= at(n).index BY <1>1, <1>3, <1>5, <1>19
  <2> QED BY <1>2, <1>5, <1>19, <2>1
<1>21. second # {} => Least(second) \in 1..n BY <1>15, <1>16
<1>22. \E j \in 1..n : c = at(j).index
  <2> HIDE DEF second, tagged, q, n, c
  <2> QED BY <1>5, <1>6, <1>19, <1>21 DEF MinOf
<1>23. k <= c <=> HalfAllows(V, a, g, k)
  <2>1. CASE ~ g BY <1>6, <1>7, <1>14, <2>1
  <2>2. CASE g /\ second # {}
    <3>1. Least(second) \in 1..n /\ at(Least(second)).index \in Nat /\ at(q).index \in Nat
      BY <1>2, <1>5, <1>21, <2>2
    <3>2. c = MinOf(at(Least(second)).index, at(q).index) BY <1>6, <2>2
    <3>3. k <= c <=> k <= at(Least(second)).index /\ k <= at(q).index
      <4> HIDE DEF c, second, q
      <4> QED BY <3>1, <3>2 DEF MinOf
    <3> HIDE DEF c, second, q, tagged, H, Two
    <3> QED BY <1>7, <1>14, <1>16, <1>18, <2>2, <3>3
  <2>3. CASE g /\ second = {} /\ tagged = 1..n
    <3>1. c = at(q).index BY <1>6, <2>3
    <3> HIDE DEF c, second, q, tagged, H, Two
    <3> QED BY <1>7, <1>14, <1>17, <2>3, <3>1
  <2>4. CASE g /\ second = {} /\ tagged # 1..n
    <3>1. c = at(n).index BY <1>6, <2>4
    <3> HIDE DEF c, second, q, tagged, H, Two
    <3> QED BY <1>7, <1>9, <1>14, <1>17, <1>20, <2>4, <3>1
  <2> QED BY <2>1, <2>2, <2>3, <2>4
<1> QED BY <1>1, <1>22, <1>23

\* c is the largest index both halves allow; m, the answer of an empty half, is
\* more than any index acknowledged, and a configuration with a voter answers
\* less.
IsLargestAllowed(I, O, a, g, m, c) ==
  /\ c \in Nat
  /\ I \cup O # {} => c < m
  /\ \A k \in 0..m : k <= c <=> HalfAllows(I, a, g, k) /\ HalfAllows(O, a, g, k)

\* JointConfiguration.committedIndex answers the largest index both halves
\* allow.
LEMMA JointCommits ==
  ASSUME NEW I, NEW O, IsFiniteSet(I), IsFiniteSet(O), NEW a, IsAcked(I \cup O, a),
         NEW m \in Nat, \A s \in I \cup O : a[s].index < m,
         NEW o \in SortedOrders(I, a), NEW p \in SortedOrders(O, a), NEW g \in BOOLEAN
  PROVE  IsLargestAllowed(I, O, a, g, m, JointCommittedIndex(o, p, g, a, m).index)
<1> DEFINE Side(r) == IF Len(r) = 0 THEN m ELSE MajorityCommittedIndex(r, g, a).index
           c == JointCommittedIndex(o, p, g, a, m).index
<1>1. ASSUME NEW V, IsFiniteSet(V), V \subseteq I \cup O, NEW r \in SortedOrders(V, a)
      PROVE  /\ Side(r) \in Nat
             /\ Side(r) <= m
             /\ V # {} => Side(r) < m
             /\ \A k \in 0..m : k <= Side(r) <=> HalfAllows(V, a, g, k)
  <2>1. IsAcked(V, a) BY <1>1 DEF IsAcked
  <2>2. Len(r) = Cardinality(V) BY <1>1, OrderIsOnto
  <2>3. CASE V = {}
    <3>1. Side(r) = m BY <2>2, <2>3, FS_EmptySet
    <3>2. \A k : HoldersOf(V, a, k) = {} /\ GroupsOf(V, a, k) = {} BY <2>3 DEF HoldersOf, GroupsOf
    <3>3. ~ (Cardinality({}) >= 2) BY FS_EmptySet
    <3>4. \A k : HalfAllows(V, a, g, k) BY <2>3, <3>2, <3>3 DEF HalfAllows, IsMajorityOf
    <3> HIDE DEF Side
    <3> QED BY <2>3, <3>1, <3>4
  <2>4. CASE V # {}
    <3>1. Len(r) # 0 BY <1>1, <2>2, <2>4, FS_EmptySet
    <3>2. Side(r) = MajorityCommittedIndex(r, g, a).index BY <3>1
    <3>3. \A k \in Nat : k <= Side(r) <=> HalfAllows(V, a, g, k)
      BY <1>1, <2>1, <2>4, <3>2, MajorityCommits
    <3>4. PICK s \in V : Side(r) = a[s].index
      BY <1>1, <2>1, <2>4, <3>2, MajorityCommits, 0 \in Nat
    <3> HIDE DEF Side
    <3>5. a[s].index \in Nat /\ a[s].index < m BY <1>1, <2>1 DEF IsAcked
    <3> QED BY <3>3, <3>4, <3>5
  <2> QED BY <2>3, <2>4
<1>2. c = MinOf(Side(o), Side(p)) BY DEF JointCommittedIndex
<1>3. /\ Side(o) \in Nat /\ Side(o) <= m /\ (I # {} => Side(o) < m)
      /\ \A k \in 0..m : k <= Side(o) <=> HalfAllows(I, a, g, k)
  BY <1>1
<1>4. /\ Side(p) \in Nat /\ Side(p) <= m /\ (O # {} => Side(p) < m)
      /\ \A k \in 0..m : k <= Side(p) <=> HalfAllows(O, a, g, k)
  BY <1>1
<1> HIDE DEF Side
<1>5. c \in Nat /\ (I \cup O # {} => c < m) BY <1>2, <1>3, <1>4 DEF MinOf
<1>6. \A k \in 0..m : k <= c <=> k <= Side(o) /\ k <= Side(p)
  BY <1>2, <1>3, <1>4 DEF MinOf
<1> HIDE DEF c
<1>7. \A k \in 0..m : k <= c <=> HalfAllows(I, a, g, k) /\ HalfAllows(O, a, g, k)
  BY <1>3, <1>4, <1>6
<1> QED BY <1>5, <1>7 DEF c, IsLargestAllowed

\* A half allows no less when its voters have acknowledged more.
LEMMA AllowsMonotone ==
  ASSUME NEW V, IsFiniteSet(V), NEW a, NEW b, IsAcked(V, a), IsAcked(V, b),
         \A s \in V : a[s].group = b[s].group /\ a[s].index <= b[s].index,
         NEW g, NEW k \in Nat, HalfAllows(V, a, g, k)
  PROVE  HalfAllows(V, b, g, k)
<1>1. HoldersOf(V, a, k) \subseteq HoldersOf(V, b, k) BY DEF HoldersOf, IsAcked
<1>2. HoldersOf(V, a, 0) = V /\ HoldersOf(V, b, 0) = V BY DEF HoldersOf, IsAcked
<1>3. IsMajorityOf(V, HoldersOf(V, b, k))
  <2>1. IsMajorityOf(V, HoldersOf(V, a, k)) BY DEF HalfAllows
  <2> QED BY <1>1, <2>1, MajorityMonotone
<1>4. GroupsOf(V, a, 0) = GroupsOf(V, b, 0) BY <1>2 DEF GroupsOf
<1>5. Cardinality(GroupsOf(V, a, k)) >= 2 => Cardinality(GroupsOf(V, b, k)) >= 2
  <2>1. \A s \in HoldersOf(V, a, k) : s \in V BY DEF HoldersOf
  <2> QED BY <1>1, <2>1, TwoGroups
<1>6. HoldersOf(V, a, k) = V => HoldersOf(V, b, k) = V BY <1>1 DEF HoldersOf
<1>7. (\E s \in V : a[s].group = 0) <=> (\E s \in V : b[s].group = 0) OBVIOUS
<1> QED BY <1>3, <1>4, <1>5, <1>6, <1>7 DEF HalfAllows
=============================================================================
