------------------------- MODULE RaftElectionProofs -------------------------
(***************************************************************************)
(* The type invariant of Raft and the index bounds it rests on, election   *)
(* safety, and that durable votes are final, for any number of servers,    *)
(* any (joint) configuration and any number of crashes, losses, duplicates *)
(* and reorderings; then the moves every step of a node is a chain of.     *)
(*                                                                         *)
(* Election safety follows the ballots: a request for votes is its         *)
(* sender's ballot for itself, a granted response its sender's ballot for  *)
(* the candidate.  No node ever casts two different ballots in a term,     *)
(* because a ballot reaches the network only after the term and the vote   *)
(* it stands for are durable; and whoever is elected has the ballots of a  *)
(* quorum in the network.                                                  *)
(***************************************************************************)
EXTENDS Raft, QuorumConfProofs, FiniteSetTheorems, SequenceTheorems, WellFoundedInduction, TLAPS

(***************************************************************************)
(* What is in flight to a peer: increasing indexes below the next one.  A  *)
(* probing peer has nothing in flight, and the next index is above what    *)
(* the peer acknowledged (Progress and Inflights, asserted by invariant.zig*)
(* after every step).                                                      *)
(***************************************************************************)
Rising(q, next) ==
  /\ \A j \in 1..Len(q) : q[j] < next
  /\ \A j \in 2..Len(q) : q[j - 1] < q[j]

SoundProgress(pr) ==
  /\ pr.matched < pr.next_idx
  /\ Len(pr.inflights) <= MaxInflight
  /\ Rising(pr.inflights, pr.next_idx)
  /\ pr.state = "probe" => pr.inflights = <<>>

(***************************************************************************)
(* What every handler keeps of a node i whose durable commit index is b:   *)
(* its type, indexes within the log, nothing below b undone, and a sound   *)
(* Progress of every peer.                                                 *)
(***************************************************************************)
NodeOK(i, n, b) ==
  /\ n \in Node
  /\ n.id = i
  /\ n.committed <= Len(n.log)
  /\ n.persisted <= Len(n.log)
  /\ b <= n.committed
  /\ b <= n.persisted
  /\ \A s \in Server : SoundProgress(n.prs[s])

-----------------------------------------------------------------------------
\* A message built by Msg has the type of a message.
LEMMA MsgIsMessage ==
  ASSUME NEW n \in Node, NEW type \in MsgType, NEW to \in Server
  PROVE  Msg(n, type, to) \in Message
BY DEF Msg, Message, Node

\* Send keeps a well-formed node well formed.
LEMMA SendOK ==
  ASSUME NEW i \in Server, NEW b \in Nat, NEW n, NodeOK(i, n, b), NEW m \in Message
  PROVE  NodeOK(i, Send(n, m), b)
BY DEF NodeOK, Send, Node

\* The Progress of a node that does not lead is well formed.
LEMMA NoProgressOK == NoProgress \in [Server -> Progress]
BY DEF NoProgress, Progress

\* An empty window rises, and one below an index is below any later one.
LEMMA RisingRules ==
  /\ \A x : Rising(<<>>, x)
  /\ \A q \in Seq(Nat), x \in Nat, y \in Nat : Rising(q, x) /\ x <= y => Rising(q, y)
<1>1. \A x : Rising(<<>>, x) BY DEF Rising
<1>2. ASSUME NEW q \in Seq(Nat), NEW x \in Nat, NEW y \in Nat, Rising(q, x), x <= y
      PROVE  Rising(q, y)
  <2>1. \A j \in 1..Len(q) : q[j] \in Nat BY ElementOfSeq
  <2> QED BY <1>2, <2>1 DEF Rising
<1> QED BY <1>1, <1>2

\* The Progress of a node that does not lead is sound.
LEMMA NoProgressSound == \A s \in Server : SoundProgress(NoProgress[s])
<1> SUFFICES ASSUME NEW s \in Server PROVE SoundProgress(NoProgress[s])
  OBVIOUS
<1>1. NoProgress[s].matched = 0 /\ NoProgress[s].next_idx = 1 /\ NoProgress[s].inflights = <<>>
  BY DEF NoProgress
<1> QED BY <1>1, RisingRules, RaftAssumption DEF SoundProgress

\* Reset keeps a well-formed node well formed.
LEMMA ResetOK ==
  ASSUME NEW i \in Server, NEW b \in Nat, NEW n, NodeOK(i, n, b), NEW t \in Nat
  PROVE  NodeOK(i, Reset(n, t), b)
<1>1. Reset(n, t) \in Node
  BY NoProgressOK DEF Reset, NodeOK, Node, NoVotes, VoteValue
<1>2. \A s \in Server : SoundProgress(Reset(n, t).prs[s])
  BY NoProgressSound DEF Reset, NodeOK, Node
<1> QED BY <1>1, <1>2 DEF NodeOK, Reset, Node

\* BecomeFollower keeps a well-formed node well formed.
LEMMA BecomeFollowerOK ==
  ASSUME NEW i \in Server, NEW b \in Nat, NEW n, NodeOK(i, n, b), NEW t \in Nat,
         NEW leader \in Server \cup {None}
  PROVE  NodeOK(i, BecomeFollower(n, t, leader), b)
<1> DEFINE r == Reset(n, t)
<1>1. NodeOK(i, r, b) BY ResetOK
<1> HIDE DEF r
<1> QED BY <1>1 DEF BecomeFollower, NodeOK, Node, Role, r

\* BecomePreCandidate keeps a well-formed node well formed.
LEMMA BecomePreCandidateOK ==
  ASSUME NEW i \in Server, NEW b \in Nat, NEW n, NodeOK(i, n, b)
  PROVE  NodeOK(i, BecomePreCandidate(n), b)
BY DEF BecomePreCandidate, NodeOK, Node, Role, NoVotes, VoteValue

\* BecomeCandidate keeps a well-formed node well formed.
LEMMA BecomeCandidateOK ==
  ASSUME NEW i \in Server, NEW b \in Nat, NEW n, NodeOK(i, n, b)
  PROVE  NodeOK(i, BecomeCandidate(n), b)
<1> DEFINE r == Reset(n, n.term + 1)
<1>0. n.term + 1 \in Nat BY DEF NodeOK, Node
<1>1. NodeOK(i, r, b) BY <1>0, ResetOK
<1>2. n.id = i BY DEF NodeOK
<1> HIDE DEF r
<1> QED BY <1>1, <1>2 DEF BecomeCandidate, NodeOK, Node, Role, r

\* AppendEntry keeps a well-formed node well formed.
LEMMA AppendEntryOK ==
  ASSUME NEW i \in Server, NEW b \in Nat, NEW n, NodeOK(i, n, b),
         NEW val \in Value \cup {Noop}
  PROVE  NodeOK(i, AppendEntry(n, val), b)
<1> DEFINE e == [term |-> n.term, val |-> val]
           log2 == Append(n.log, e)
           n2 == AppendEntry(n, val)
<1>1. n \in Node BY DEF NodeOK
<1>2. e \in Entry /\ n.log \in Seq(Entry) BY <1>1 DEF Entry, Node
<1>3. log2 \in Seq(Entry) /\ Len(log2) = Len(n.log) + 1 BY <1>2, AppendProperties
<1>4. /\ n.committed \in Nat /\ n.persisted \in Nat /\ Len(n.log) \in Nat
  BY <1>1, <1>2, LenProperties DEF Node
<1>5. n2 = [n EXCEPT !.log = log2] BY DEF AppendEntry
<1> HIDE DEF log2, n2
<1>6. n2 \in Node BY <1>1, <1>3, <1>5 DEF Node
<1>7. /\ n2.log = log2 /\ n2.id = n.id /\ n2.prs = n.prs
      /\ n2.committed = n.committed /\ n2.persisted = n.persisted
  BY <1>1, <1>5 DEF Node
<1>8. NodeOK(i, n2, b) BY <1>3, <1>4, <1>6, <1>7 DEF NodeOK
<1> QED BY <1>8 DEF n2

\* The Progress a leader starts with is well formed.
LEMMA LeaderProgressOK ==
  ASSUME NEW n \in Node
  PROVE  LeaderProgress(n) \in [Server -> Progress]
<1>1. n.log \in Seq(Entry) /\ n.persisted \in Nat BY DEF Node
<1>2. Len(n.log) \in Nat BY <1>1, LenProperties
<1>3. ASSUME NEW s \in Server PROVE LeaderProgress(n)[s] \in Progress
  <2>1. CASE s = n.id
    BY <1>1, <2>1 DEF LeaderProgress, Progress
  <2>2. CASE s # n.id
    <3>1. LeaderProgress(n)[s] = [NoProgress[s] EXCEPT !.next_idx = Len(n.log) + 1]
      BY <2>2 DEF LeaderProgress, LastIndex
    <3>2. NoProgress[s] \in Progress /\ Len(n.log) + 1 \in Nat \ {0}
      BY <1>2, NoProgressOK
    <3> QED BY <3>1, <3>2 DEF Progress
  <2> QED BY <2>1, <2>2
<1> QED BY <1>3 DEF LeaderProgress

\* The Progress a leader starts with is sound.
LEMMA LeaderProgressSound ==
  ASSUME NEW n \in Node
  PROVE  \A s \in Server : SoundProgress(LeaderProgress(n)[s])
<1> SUFFICES ASSUME NEW s \in Server PROVE SoundProgress(LeaderProgress(n)[s])
  OBVIOUS
<1> DEFINE pr == LeaderProgress(n)[s]
<1>1. n.persisted \in Nat /\ Len(n.log) \in Nat BY LenProperties DEF Node
<1>2. pr.inflights = <<>> BY DEF LeaderProgress, NoProgress
<1>3. CASE s = n.id
  <2>1. pr.matched = n.persisted /\ pr.next_idx = n.persisted + 1 BY <1>3 DEF LeaderProgress
  <2> HIDE DEF pr
  <2>2. SoundProgress(pr) BY <1>1, <1>2, <2>1, RisingRules, RaftAssumption DEF SoundProgress
  <2> QED BY <2>2 DEF pr
<1>4. CASE s # n.id
  <2>1. pr.matched = 0 /\ pr.next_idx = Len(n.log) + 1
    BY <1>4 DEF LeaderProgress, NoProgress, LastIndex
  <2> HIDE DEF pr
  <2>2. SoundProgress(pr) BY <1>1, <1>2, <2>1, RisingRules, RaftAssumption DEF SoundProgress
  <2> QED BY <2>2 DEF pr
<1> QED BY <1>3, <1>4

\* BecomeLeader keeps a well-formed node well formed.
LEMMA BecomeLeaderOK ==
  ASSUME NEW i \in Server, NEW b \in Nat, NEW n, NodeOK(i, n, b)
  PROVE  NodeOK(i, BecomeLeader(n), b)
<1> DEFINE r == Reset(n, n.term)
           l == [r EXCEPT !.leader_id = n.id, !.state = "leader", !.prs = LeaderProgress(n)]
<1>1. NodeOK(i, r, b)
  <2>1. n.term \in Nat BY DEF NodeOK, Node
  <2> QED BY <2>1, ResetOK
<1>2. n.id = i /\ n \in Node BY DEF NodeOK
<1>3. LeaderProgress(n) \in [Server -> Progress] BY <1>2, LeaderProgressOK
<1>4. \A s \in Server : SoundProgress(LeaderProgress(n)[s])
  BY <1>2, LeaderProgressSound
<1> HIDE DEF r
<1>5. NodeOK(i, l, b) BY <1>1, <1>2, <1>3, <1>4 DEF NodeOK, Node, Role
<1>6. BecomeLeader(n) = AppendEntry(l, Noop) BY DEF BecomeLeader, r
<1> HIDE DEF l
<1> QED BY <1>5, <1>6, AppendEntryOK

-----------------------------------------------------------------------------
\* Least and greatest of two numbers.
LEMMA MinMax ==
  ASSUME NEW a \in Nat, NEW c \in Nat
  PROVE  /\ MinOf(a, c) \in Nat /\ MaxOf(a, c) \in Nat
         /\ MinOf(a, c) <= a /\ MinOf(a, c) <= c
         /\ a <= MaxOf(a, c) /\ c <= MaxOf(a, c)
         /\ MinOf(a, c) \in {a, c} /\ MaxOf(a, c) \in {a, c}
BY DEF MinOf, MaxOf

\* A term of the log is a number.
LEMMA TermAtNat ==
  ASSUME NEW log \in Seq(Entry), NEW k \in Int
  PROVE  TermAt(log, k) \in Nat
<1>1. CASE k \in 1..Len(log)
  <2>1. log[k] \in Entry BY <1>1, ElementOfSeq
  <2> QED BY <1>1, <2>1 DEF TermAt, Entry
<1>2. CASE k \notin 1..Len(log) BY <1>2 DEF TermAt
<1> QED BY <1>1, <1>2

\* A message with entries starts at a positive index; its end is an index.
LEMMA BatchEndNat ==
  ASSUME NEW n \in Node, NEW k \in Nat \ {0}
  PROVE  BatchEnd(n, k) \in Nat
<1>1. Len(n.log) \in Nat BY LenProperties DEF Node
<1>2. k + MaxEntries - 1 \in Nat BY RaftAssumption
<1> QED BY <1>1, <1>2, MinMax DEF BatchEnd, LastIndex

\* An append is a well-formed message.
LEMMA AppendMsgIsMessage ==
  ASSUME NEW n \in Node, NEW to \in Server, NEW k \in Nat \ {0}
  PROVE  AppendMsg(n, to, k) \in Message
<1>1. Msg(n, "append", to) \in Message BY MsgIsMessage DEF MsgType
<1>2. n.log \in Seq(Entry) /\ n.committed \in Nat BY DEF Node
<1>3. k - 1 \in Nat /\ TermAt(n.log, k - 1) \in Nat BY <1>2, TermAtNat
<1>4. BatchEnd(n, k) <= Len(n.log) /\ BatchEnd(n, k) \in Nat
  BY <1>2, LenProperties, RaftAssumption DEF BatchEnd, MinOf, LastIndex
<1>5. SubSeq(n.log, k, BatchEnd(n, k)) \in Seq(Entry)
  BY <1>2, <1>4, SubSeqProperties
<1> HIDE DEF Message
<1> QED BY <1>1, <1>2, <1>3, <1>5 DEF AppendMsg, Message

-----------------------------------------------------------------------------
\* The window never lets more messages out than it has room for.
LEMMA SendCountOK ==
  ASSUME NEW n \in Node, NEW pr \in Progress, SoundProgress(pr),
         NEW limit \in Nat
  PROVE  /\ SendCount(n, pr, limit) \in Nat
         /\ pr.state = "replicate"
              => Len(pr.inflights) + SendCount(n, pr, limit) <= MaxInflight
         /\ SendCount(n, pr, limit) # 0
              => /\ pr.next_idx <= Len(n.log)
                 /\ SendCount(n, pr, limit)
                      <= (Len(n.log) + MaxEntries - pr.next_idx) \div MaxEntries
<1> DEFINE batches == (LastIndex(n.log) + MaxEntries - pr.next_idx) \div MaxEntries
           room    == IF pr.state = "probe" THEN 1 ELSE MaxInflight - Len(pr.inflights)
<1>1. /\ Len(pr.inflights) \in Nat /\ Len(n.log) \in Nat /\ pr.next_idx \in Nat
      /\ Len(pr.inflights) <= MaxInflight
  BY LenProperties DEF Progress, Node, SoundProgress
<1>2. CASE IsPaused(pr) \/ pr.next_idx > LastIndex(n.log)
  BY <1>1, <1>2 DEF SendCount
<1>3. CASE ~ (IsPaused(pr) \/ pr.next_idx > LastIndex(n.log))
  <2>1. LastIndex(n.log) + MaxEntries - pr.next_idx \in Nat
    BY <1>1, <1>3, RaftAssumption DEF LastIndex
  <2>2. batches \in Nat
    BY <2>1, RaftAssumption
  <2>3. room \in Nat
    BY <1>1, RaftAssumption
  <2>4. SendCount(n, pr, limit) = MinOf(limit, MinOf(batches, room))
    BY <1>3 DEF SendCount
  <2> HIDE DEF batches, room
  <2>5. /\ SendCount(n, pr, limit) \in Nat /\ SendCount(n, pr, limit) <= room
        /\ SendCount(n, pr, limit) <= batches
    <3>1. /\ MinOf(batches, room) \in Nat /\ MinOf(batches, room) <= room
          /\ MinOf(batches, room) <= batches
      BY <2>2, <2>3, MinMax
    <3>2. MinOf(limit, MinOf(batches, room)) \in Nat
          /\ MinOf(limit, MinOf(batches, room)) <= MinOf(batches, room)
      BY <3>1, MinMax
    <3> QED BY <2>2, <2>3, <2>4, <3>1, <3>2
  <2>6. pr.next_idx <= Len(n.log) BY <1>1, <1>3 DEF LastIndex
  <2>7. SendCount(n, pr, limit) <= (Len(n.log) + MaxEntries - pr.next_idx) \div MaxEntries
    BY <2>5 DEF batches, LastIndex
  <2>8. pr.state = "replicate" => Len(pr.inflights) + SendCount(n, pr, limit) <= MaxInflight
    BY <1>1, <2>5, RaftAssumption DEF room
  <2> QED BY <2>5, <2>6, <2>7, <2>8
<1> QED BY <1>2, <1>3

\* Multiples of a number.
LEMMA Multiples ==
  ASSUME NEW e \in Nat \ {0}
  PROVE  /\ \A a \in Nat, c \in Nat : a <= c => a * e <= c * e
         /\ \A a \in Nat : a * e \in Nat /\ (a + 1) * e = a * e + e
         /\ \A x \in Nat, a \in Nat : a <= x \div e => a * e <= x
<1>1. ASSUME NEW a \in Nat, NEW c \in Nat, a <= c PROVE a * e <= c * e
  <2>1. PICK d \in Nat : c = a + d BY <1>1
  <2>2. d * e \in Nat /\ a * e \in Nat OBVIOUS
  <2>3. c * e = a * e + d * e BY <2>1
  <2> QED BY <2>2, <2>3
<1>2. \A a \in Nat : a * e \in Nat /\ (a + 1) * e = a * e + e OBVIOUS
<1>3. ASSUME NEW x \in Nat, NEW a \in Nat, a <= x \div e PROVE a * e <= x
  <2>1. x \div e \in Nat /\ (x \div e) * e <= x /\ (x \div e) * e \in Nat OBVIOUS
  <2>2. a * e <= (x \div e) * e BY <1>1, <1>3, <2>1
  <2>3. a * e \in Nat BY <1>2
  <2> QED BY <2>1, <2>2, <2>3
<1> QED BY <1>1, <1>2, <1>3

\* Steps of E up to L end at increasing numbers.
StepsTo(L, E, k, c, start, sent) ==
  /\ L \in Nat /\ E \in Nat \ {0} /\ k \in Nat /\ c \in Nat \ {0}
  /\ \A j \in 1..c : /\ start[j] \in Nat /\ k <= start[j] /\ start[j] <= L
                     /\ start[j] <= start[c]
                     /\ sent[j] = MinOf(L, start[j] + E - 1)
  /\ \A j \in 2..c : start[j] = start[j - 1] + E

LEMMA StepsRise ==
  ASSUME NEW L, NEW E, NEW k, NEW c, NEW start, NEW sent, StepsTo(L, E, k, c, start, sent)
  PROVE  /\ \A j \in 1..c : sent[j] \in Nat /\ k <= sent[j] /\ sent[j] <= sent[c]
         /\ \A j \in 2..c : sent[j - 1] < sent[j]
<1> USE DEF StepsTo
<1>1. c \in 1..c OBVIOUS
<1>2. \A j \in 1..c : sent[j] \in Nat /\ start[j] <= sent[j] /\ sent[j] <= start[j] + E - 1
  BY DEF MinOf
<1>3. \A j \in 1..c : sent[j] <= sent[c] BY <1>1 DEF MinOf
<1>4. ASSUME NEW j \in 2..c PROVE sent[j - 1] < sent[j]
  <2>1. j - 1 \in 1..c /\ j \in 1..c OBVIOUS
  <2> QED BY <1>2, <2>1
<1> QED BY <1>2, <1>3, <1>4

\* The messages one call sends end at increasing indexes, none before k.
LEMMA BatchesRise ==
  ASSUME NEW n \in Node, NEW k \in Nat \ {0}, NEW c \in Nat \ {0}, k <= Len(n.log),
         c <= (Len(n.log) + MaxEntries - k) \div MaxEntries,
         NEW sent, sent = [j \in 1..c |-> BatchEnd(n, k + (j - 1) * MaxEntries)]
  PROVE  /\ \A j \in 1..c : sent[j] \in Nat /\ k <= sent[j] /\ sent[j] <= sent[c]
         /\ \A j \in 2..c : sent[j - 1] < sent[j]
<1> DEFINE L == Len(n.log)
           E == MaxEntries
           start == [j \in 1..c |-> k + (j - 1) * E]
<1>1. L \in Nat /\ E \in Nat \ {0} /\ k <= L /\ c <= (L + E - k) \div E
  BY LenProperties, RaftAssumption DEF Node
<1>2. ASSUME NEW j \in 1..c PROVE sent[j] = MinOf(L, start[j] + E - 1)
  BY DEF BatchEnd, LastIndex
<1> HIDE DEF L, E
<1>3. c * E <= L + E - k
  <2>1. L + E - k \in Nat BY <1>1
  <2> QED BY <1>1, <2>1, Multiples
<1>4. ASSUME NEW j \in 1..c
      PROVE  start[j] \in Nat /\ k <= start[j] /\ start[j] <= L /\ start[j] <= start[c]
  <2> DEFINE u == (j - 1) * E
             v == (c - 1) * E
             w == c * E
  <2>1. /\ j - 1 \in Nat /\ c - 1 \in Nat /\ j - 1 <= c - 1 /\ (c - 1) + 1 = c
        /\ c \in 1..c
    OBVIOUS
  <2>2. u \in Nat /\ v \in Nat /\ u <= v /\ w = v + E BY <1>1, <2>1, Multiples
  <2>3. start[j] = k + u /\ start[c] = k + v BY <2>1
  <2>4. w <= L + E - k BY <1>3
  <2> HIDE DEF u, v, w, start
  <2> QED BY <1>1, <2>2, <2>3, <2>4
<1>5. ASSUME NEW j \in 2..c PROVE start[j] = start[j - 1] + E
  <2> DEFINE u == (j - 2) * E
             v == (j - 1) * E
  <2>1. /\ j - 2 \in Nat /\ (j - 2) + 1 = j - 1 /\ (j - 1) - 1 = j - 2
        /\ j \in 1..c /\ j - 1 \in 1..c
    OBVIOUS
  <2>2. v = u + E /\ u \in Nat BY <1>1, <2>1, Multiples
  <2>3. start[j] = k + v /\ start[j - 1] = k + u BY <2>1
  <2> HIDE DEF u, v, start
  <2> QED BY <1>1, <2>2, <2>3
<1> HIDE DEF start
<1>6. \A j \in 1..c : /\ start[j] \in Nat /\ k <= start[j] /\ start[j] <= L
                      /\ start[j] <= start[c] /\ sent[j] = MinOf(L, start[j] + E - 1)
  BY <1>2, <1>4, Zenon
<1>7. \A j \in 2..c : start[j] = start[j - 1] + E BY <1>5, Zenon
<1>8. k \in Nat OBVIOUS
<1>9. StepsTo(L, E, k, c, start, sent) BY <1>1, <1>6, <1>7, <1>8, Zenon DEF StepsTo
<1> QED BY <1>9, StepsRise, Zenon

\* Appending them to what is in flight keeps the window rising.
LEMMA RisingConcat ==
  ASSUME NEW q \in Seq(Nat), NEW k \in Nat, Rising(q, k), NEW r \in Seq(Nat), NEW x \in Nat,
         k <= x, \A j \in 1..Len(r) : k <= r[j] /\ r[j] < x,
         \A j \in 2..Len(r) : r[j - 1] < r[j]
  PROVE  Rising(q \o r, x)
<1> DEFINE z == q \o r
<1>1. Len(q) \in Nat /\ Len(r) \in Nat BY LenProperties
<1>2. /\ Len(z) = Len(q) + Len(r)
      /\ \A j \in 1..Len(q) : z[j] = q[j]
      /\ \A j \in (Len(q) + 1)..(Len(q) + Len(r)) : z[j] = r[j - Len(q)]
  BY <1>1, ConcatProperties
<1>3. /\ \A j \in 1..Len(q) : q[j] \in Nat
      /\ \A j \in 1..Len(r) : r[j] \in Nat
  BY ElementOfSeq
<1> HIDE DEF z
<1>4. ASSUME NEW j \in 1..Len(z) PROVE z[j] < x
  <2>1. CASE j \in 1..Len(q)
    <3>1. z[j] = q[j] /\ q[j] \in Nat /\ q[j] < k BY <1>2, <1>3, <2>1 DEF Rising
    <3> QED BY <3>1
  <2>2. CASE j \notin 1..Len(q)
    <3>1. j \in (Len(q) + 1)..(Len(q) + Len(r)) /\ j - Len(q) \in 1..Len(r)
      BY <1>1, <1>2, <2>2
    <3> QED BY <1>2, <3>1
  <2> QED BY <2>1, <2>2
<1>5. ASSUME NEW j \in 2..Len(z) PROVE z[j - 1] < z[j]
  <2>1. CASE j <= Len(q)
    <3>1. j \in 2..Len(q) /\ j - 1 \in 1..Len(q) /\ j \in 1..Len(q) BY <1>1, <2>1
    <3> QED BY <1>2, <3>1 DEF Rising
  <2>2. CASE j = Len(q) + 1
    <3>1. j - 1 \in 1..Len(q) /\ j \in (Len(q) + 1)..(Len(q) + Len(r)) /\ j - Len(q) = 1
          /\ 1 \in 1..Len(r)
      BY <1>1, <1>2, <2>2
    <3>2. z[j - 1] < k /\ z[j - 1] \in Nat BY <1>2, <1>3, <3>1 DEF Rising
    <3>3. z[j] = r[1] /\ k <= r[1] /\ r[1] \in Nat BY <1>2, <1>3, <3>1
    <3> QED BY <3>2, <3>3
  <2>3. CASE j > Len(q) + 1
    <3>1. /\ j \in (Len(q) + 1)..(Len(q) + Len(r)) /\ j - 1 \in (Len(q) + 1)..(Len(q) + Len(r))
          /\ j - Len(q) \in 2..Len(r) /\ (j - 1) - Len(q) = (j - Len(q)) - 1
      BY <1>1, <1>2, <2>3
    <3> QED BY <1>2, <3>1
  <2> QED BY <1>1, <2>1, <2>2, <2>3
<1>6. Rising(z, x) BY <1>4, <1>5 DEF Rising
<1> QED BY <1>6 DEF z

\* Sending keeps Progress and its window well formed.
LEMMA AfterSendOK ==
  ASSUME NEW n \in Node, NEW pr \in Progress, SoundProgress(pr),
         NEW limit \in Nat
  PROVE  /\ AfterSend(n, pr, SendCount(n, pr, limit)) \in Progress
         /\ SoundProgress(AfterSend(n, pr, SendCount(n, pr, limit)))
<1> DEFINE c == SendCount(n, pr, limit)
           last(j) == BatchEnd(n, pr.next_idx + (j - 1) * MaxEntries)
           sent == [j \in 1..c |-> last(j)]
<1>1. /\ c \in Nat /\ (pr.state = "replicate" => Len(pr.inflights) + c <= MaxInflight)
      /\ c # 0 => /\ pr.next_idx <= Len(n.log)
                  /\ c <= (Len(n.log) + MaxEntries - pr.next_idx) \div MaxEntries
  BY SendCountOK
<1> HIDE DEF c
<1>2. CASE c = 0 BY <1>2 DEF AfterSend, c
<1>3. CASE c # 0 /\ pr.state = "probe"
  <2>1. AfterSend(n, pr, c) = [pr EXCEPT !.paused = TRUE]
    BY <1>3 DEF AfterSend
  <2> QED BY <2>1 DEF Progress, SoundProgress, c
<1>4. CASE c # 0 /\ pr.state # "probe"
  <2>1. \A j \in 1..c : last(j) \in Nat
    <3> SUFFICES ASSUME NEW j \in 1..c PROVE last(j) \in Nat
      OBVIOUS
    <3>1. (j - 1) * MaxEntries \in Nat BY <1>1, RaftAssumption
    <3>2. pr.next_idx + (j - 1) * MaxEntries \in Nat \ {0} BY <3>1 DEF Progress
    <3> QED BY <3>2, BatchEndNat
  <2>2. sent \in Seq(Nat) /\ Len(sent) = c
    <3>1. sent \in [1..c -> Nat] BY <2>1
    <3> HIDE DEF sent
    <3> QED BY <3>1, <1>1, SeqDef, LenProperties
  <2>3. pr.inflights \in Seq(Nat) BY DEF Progress
  <2>4. (pr.inflights \o sent) \in Seq(Nat)
        /\ Len(pr.inflights \o sent) = Len(pr.inflights) + c
    <3> HIDE DEF sent
    <3>1. sent \in Seq(Nat) /\ pr.inflights \in Seq(Nat) BY <2>2, <2>3
    <3> QED BY <2>2, <3>1, ConcatProperties
  <2>5. last(c) + 1 \in Nat \ {0} BY <1>1, <1>4, <2>1
  <2>6. pr.state = "replicate" BY <1>4 DEF Progress
  <2>7. AfterSend(n, pr, c) = [pr EXCEPT !.next_idx = last(c) + 1,
                                         !.inflights = pr.inflights \o sent]
    BY <1>4 DEF AfterSend
  <2> DEFINE z == AfterSend(n, pr, c)
             x == last(c) + 1
  <2>8. pr.next_idx \in Nat \ {0} /\ pr.matched \in Nat /\ c \in Nat \ {0} /\ c \in 1..c
    BY <1>1, <1>4 DEF Progress
  <2>9. /\ \A j \in 1..c : sent[j] \in Nat /\ pr.next_idx <= sent[j] /\ sent[j] <= sent[c]
        /\ \A j \in 2..c : sent[j - 1] < sent[j]
    BY <1>1, <2>8, BatchesRise
  <2>10. sent[c] = last(c) BY <2>8
  <2> HIDE DEF sent, last
  <2>11. x \in Nat /\ pr.next_idx <= x /\ \A j \in 1..c : sent[j] < x
    BY <2>5, <2>8, <2>9, <2>10
  <2>12. Rising(pr.inflights \o sent, x)
    <3>1. Rising(pr.inflights, pr.next_idx) BY DEF SoundProgress
    <3> HIDE DEF x
    <3> QED BY <2>2, <2>3, <2>8, <2>9, <2>11, <3>1, RisingConcat
  <2>13. /\ z.matched = pr.matched /\ z.next_idx = x /\ z.inflights = pr.inflights \o sent
         /\ z.state = pr.state
    BY <2>7 DEF Progress
  <2>14. z \in Progress BY <2>4, <2>5, <2>7 DEF Progress
  <2> HIDE DEF x, z
  <2>15. pr.matched < x BY <2>8, <2>11 DEF SoundProgress
  <2>16. SoundProgress(z) BY <1>1, <2>4, <2>6, <2>12, <2>13, <2>15 DEF SoundProgress
  <2> QED BY <2>14, <2>16 DEF z, c
<1> QED BY <1>2, <1>3, <1>4

\* Every append a leader makes has the type of a message.
LEMMA AppendMsgsAreMessages ==
  ASSUME NEW n \in Node, NEW to \in Server, NEW c \in Nat
  PROVE  AppendMsgs(n, to, c) \subseteq Message
<1> SUFFICES ASSUME NEW j \in 0..(c - 1)
             PROVE  AppendMsg(n, to, n.prs[to].next_idx + j * MaxEntries) \in Message
  BY DEF AppendMsgs
<1>1. n.prs[to].next_idx \in Nat \ {0} BY DEF Node, Progress
<1>2. j * MaxEntries \in Nat BY RaftAssumption
<1>3. n.prs[to].next_idx + j * MaxEntries \in Nat \ {0} BY <1>1, <1>2
<1> QED BY <1>3, AppendMsgIsMessage

\* What sendAppend sends are well-formed messages.
LEMMA AppendsToAreMessages ==
  ASSUME NEW i \in Server, NEW b \in Nat, NEW n, NodeOK(i, n, b), NEW to \in Server
  PROVE  AppendsTo(n, to) \subseteq Message
<1>1. n \in Node /\ n.prs[to] \in Progress /\ SoundProgress(n.prs[to])
  BY DEF NodeOK, Node
<1>2. SendCount(n, n.prs[to], 1) \in Nat BY <1>1, SendCountOK
<1>3. n.prs[to].next_idx \in Nat \ {0} BY <1>1 DEF Progress
<1>4. AppendMsg(n, to, n.prs[to].next_idx) \in Message BY <1>1, <1>3, AppendMsgIsMessage
<1>5. AppendMsgs(n, to, SendCount(n, n.prs[to], 1)) \subseteq Message
  BY <1>1, <1>2, AppendMsgsAreMessages
<1> QED BY <1>4, <1>5 DEF AppendsTo

\* Replacing one peer's Progress keeps a node well formed.
LEMMA OneProgressOK ==
  ASSUME NEW i \in Server, NEW b \in Nat, NEW n, NodeOK(i, n, b), NEW to \in Server,
         NEW pr \in Progress, SoundProgress(pr)
  PROVE  NodeOK(i, [n EXCEPT !.prs[to] = pr], b)
<1>1. n.prs \in [Server -> Progress] BY DEF NodeOK, Node
<1> QED BY <1>1 DEF NodeOK, Node

\* SendAppend keeps a well-formed node well formed.
LEMMA SendAppendOK ==
  ASSUME NEW i \in Server, NEW b \in Nat, NEW n, NodeOK(i, n, b), NEW to \in Server
  PROVE  NodeOK(i, SendAppend(n, to), b)
<1>1. n \in Node /\ n.prs[to] \in Progress /\ SoundProgress(n.prs[to])
      /\ n.prs \in [Server -> Progress]
  BY DEF NodeOK, Node
<1> DEFINE pr == AfterSend(n, n.prs[to], SendCount(n, n.prs[to], 1))
           prs2 == [n.prs EXCEPT ![to] = pr]
<1>2. pr \in Progress /\ SoundProgress(pr) BY <1>1, AfterSendOK
<1> HIDE DEF pr
<1>3. /\ prs2 \in [Server -> Progress]
      /\ \A s \in Server : SoundProgress(prs2[s])
  BY <1>1, <1>2 DEF NodeOK
<1>4. AppendsTo(n, to) \subseteq Message BY AppendsToAreMessages
<1>5. SendAppend(n, to)
        = [n EXCEPT !.prs = prs2, !.messages = n.messages \cup AppendsTo(n, to)]
  BY <1>1 DEF SendAppend, pr, Node
<1> HIDE DEF prs2
<1> QED BY <1>3, <1>4, <1>5 DEF NodeOK, Node

\* BroadcastAppend keeps a well-formed node well formed.
LEMMA BroadcastAppendOK ==
  ASSUME NEW i \in Server, NEW b \in Nat, NEW n, NodeOK(i, n, b)
  PROVE  NodeOK(i, BroadcastAppend(n), b)
<1>1. n \in Node /\ n.prs \in [Server -> Progress] BY DEF NodeOK, Node
<1> DEFINE after(s) == AfterSend(n, n.prs[s], SendCount(n, n.prs[s], 1))
           prs2 == [s \in Server |-> IF s = n.id THEN n.prs[s] ELSE after(s)]
           new == UNION {AppendsTo(n, s) : s \in Peers(n)}
<1>2. \A s \in Server : after(s) \in Progress /\ SoundProgress(after(s))
  BY <1>1, AfterSendOK DEF NodeOK
<1> HIDE DEF after
<1>3. /\ prs2 \in [Server -> Progress]
      /\ \A s \in Server : SoundProgress(prs2[s])
  BY <1>1, <1>2 DEF NodeOK
<1>4. new \subseteq Message BY AppendsToAreMessages DEF Peers
<1>5. BroadcastAppend(n) = [n EXCEPT !.prs = prs2, !.messages = n.messages \cup new]
  BY <1>1 DEF BroadcastAppend, after, Node
<1> HIDE DEF prs2, new
<1> QED BY <1>3, <1>4, <1>5 DEF NodeOK, Node

\* SendAppendAggressively keeps a well-formed node well formed.
LEMMA SendAppendAggressivelyOK ==
  ASSUME NEW i \in Server, NEW b \in Nat, NEW n, NodeOK(i, n, b), NEW to \in Server
  PROVE  NodeOK(i, SendAppendAggressively(n, to), b)
<1>1. n \in Node /\ n.prs[to] \in Progress /\ SoundProgress(n.prs[to])
      /\ n.prs \in [Server -> Progress]
  BY DEF NodeOK, Node
<1> DEFINE c == SendCount(n, n.prs[to], MaxInflight)
           pr == AfterSend(n, n.prs[to], c)
           prs2 == [n.prs EXCEPT ![to] = pr]
<1>2. pr \in Progress /\ SoundProgress(pr)
  BY <1>1, AfterSendOK, RaftAssumption
<1>3. c \in Nat BY <1>1, SendCountOK, RaftAssumption
<1> HIDE DEF pr
<1>4. /\ prs2 \in [Server -> Progress]
      /\ \A s \in Server : SoundProgress(prs2[s])
  BY <1>1, <1>2 DEF NodeOK
<1>5. AppendMsgs(n, to, c) \subseteq Message BY <1>1, <1>3, AppendMsgsAreMessages
<1>6. SendAppendAggressively(n, to)
        = [n EXCEPT !.prs = prs2, !.messages = n.messages \cup AppendMsgs(n, to, c)]
  BY <1>1 DEF SendAppendAggressively, pr, Node
<1> HIDE DEF c, prs2
<1> QED BY <1>4, <1>5, <1>6 DEF NodeOK, Node

-----------------------------------------------------------------------------
\* Raising the commit index within the log keeps a node well formed.
LEMMA RaiseCommitOK ==
  ASSUME NEW i \in Server, NEW b \in Nat, NEW n, NodeOK(i, n, b),
         NEW k \in Nat, n.committed <= k, k <= Len(n.log),
         NEW n2, n2 = [n EXCEPT !.committed = k]
  PROVE  NodeOK(i, n2, b)
<1>1. n \in Node /\ n.committed \in Nat /\ b <= n.committed BY DEF NodeOK, Node
<1>2. n2 \in Node BY <1>1 DEF Node
<1>3. /\ n2.log = n.log /\ n2.id = n.id /\ n2.prs = n.prs
      /\ n2.committed = k /\ n2.persisted = n.persisted
  BY <1>1 DEF Node
<1> QED BY <1>1, <1>2, <1>3 DEF NodeOK

\* MaybeCommit keeps a well-formed node well formed.
LEMMA MaybeCommitOK ==
  ASSUME NEW i \in Server, NEW b \in Nat, NEW n, NodeOK(i, n, b)
  PROVE  NodeOK(i, MaybeCommit(n), b)
<1>1. CASE ~ MayCommit(n) BY <1>1 DEF MaybeCommit
<1>2. CASE MayCommit(n)
  <2> DEFINE k == CHOOSE x \in 1..LastIndex(n.log) : CanCommit(n, x)
             n2 == MaybeCommit(n)
  <2>1. k \in 1..LastIndex(n.log) /\ CanCommit(n, k) BY <1>2 DEF MayCommit
  <2>2. n2 = [n EXCEPT !.committed = k] BY <1>2 DEF MaybeCommit
  <2> HIDE DEF k, n2
  <2>3. Len(n.log) \in Nat /\ n.committed \in Nat BY LenProperties DEF NodeOK, Node
  <2>4. k \in Nat /\ n.committed <= k /\ k <= Len(n.log)
    BY <2>1, <2>3 DEF CanCommit, LastIndex
  <2> QED BY <2>2, <2>4, RaiseCommitOK DEF n2
<1> QED BY <1>1, <1>2

\* LogMaybeCommit keeps a well-formed node well formed.
LEMMA LogMaybeCommitOK ==
  ASSUME NEW i \in Server, NEW b \in Nat, NEW n, NodeOK(i, n, b),
         NEW k \in Nat, NEW t
  PROVE  NodeOK(i, LogMaybeCommit(n, k, t), b)
<1>1. n.committed \in Nat BY DEF NodeOK, Node
<1>2. CASE k > n.committed /\ MatchTerm(n.log, k, t)
  <2>1. k <= Len(n.log) BY <1>2 DEF MatchTerm, LastIndex
  <2>2. LogMaybeCommit(n, k, t) = [n EXCEPT !.committed = k] BY <1>2 DEF LogMaybeCommit
  <2> QED BY <1>1, <1>2, <2>1, <2>2, RaiseCommitOK
<1> QED BY <1>2 DEF LogMaybeCommit

\* CommitTo keeps a well-formed node well formed.
LEMMA CommitToOK ==
  ASSUME NEW i \in Server, NEW b \in Nat, NEW n, NodeOK(i, n, b), NEW k \in Nat
  PROVE  NodeOK(i, CommitTo(n, k), b)
<1>1. n.committed \in Nat BY DEF NodeOK, Node
<1>2. CASE k > n.committed /\ k <= Len(n.log)
  <2>2. CommitTo(n, k) = [n EXCEPT !.committed = k] BY <1>2 DEF CommitTo, LastIndex
  <2> QED BY <1>1, <1>2, <2>2, RaiseCommitOK
<1> QED BY <1>2 DEF CommitTo, LastIndex

\* MaybeCommitByVote keeps a well-formed node well formed.
LEMMA MaybeCommitByVoteOK ==
  ASSUME NEW i \in Server, NEW b \in Nat, NEW n, NodeOK(i, n, b), NEW m \in Message
  PROVE  NodeOK(i, MaybeCommitByVote(n, m), b)
<1>1. m.commit \in Nat BY DEF Message
<1> QED BY <1>1, LogMaybeCommitOK DEF MaybeCommitByVote

-----------------------------------------------------------------------------
\* RecordVote keeps a well-formed node well formed.
LEMMA RecordVoteOK ==
  ASSUME NEW i \in Server, NEW b \in Nat, NEW n, NodeOK(i, n, b),
         NEW from \in Server, NEW granted \in BOOLEAN
  PROVE  NodeOK(i, RecordVote(n, from, granted), b)
<1>1. n.votes \in [Server -> VoteValue] BY DEF NodeOK, Node
<1> QED BY <1>1 DEF RecordVote, NodeOK, Node, VoteValue

\* RequestVotes keeps a well-formed node well formed.
LEMMA RequestVotesOK ==
  ASSUME NEW i \in Server, NEW b \in Nat, NEW n, NodeOK(i, n, b),
         NEW type \in VoteRequestType, NEW t \in Nat, NEW force \in BOOLEAN
  PROVE  NodeOK(i, RequestVotes(n, type, t, force), b)
<1>1. n \in Node BY DEF NodeOK
<1>2. n.log \in Seq(Entry) /\ n.committed \in Nat /\ Len(n.log) \in Nat
  BY <1>1, LenProperties DEF Node
<1>3. LastTerm(n.log) \in Nat /\ TermAt(n.log, n.committed) \in Nat
  <2>1. Len(n.log) \in Int /\ n.committed \in Int BY <1>2
  <2> QED BY <1>2, <2>1, TermAtNat DEF LastTerm, LastIndex
<1>4. ASSUME NEW s \in Server PROVE VoteRequest(n, type, t, s, force) \in Message
  <2>1. Msg(n, type, s) \in Message BY <1>1, MsgIsMessage DEF MsgType, VoteRequestType
  <2> QED BY <1>2, <1>3, <2>1 DEF VoteRequest, Message, LastIndex
<1> DEFINE new == {VoteRequest(n, type, t, s, force) : s \in Peers(n)}
<1>5. new \subseteq Message BY <1>4 DEF Peers
<1>6. RequestVotes(n, type, t, force) = [n EXCEPT !.messages = n.messages \cup new]
  BY DEF RequestVotes
<1> HIDE DEF new
<1> QED BY <1>5, <1>6 DEF NodeOK, Node

\* CampaignElection keeps a well-formed node well formed.
LEMMA CampaignElectionOK ==
  ASSUME NEW i \in Server, NEW b \in Nat, NEW n, NodeOK(i, n, b), NEW force \in BOOLEAN
  PROVE  NodeOK(i, CampaignElection(n, force), b)
<1> DEFINE c == RecordVote(BecomeCandidate(n), n.id, TRUE)
<1>1. n.id \in Server BY DEF NodeOK
<1>2. NodeOK(i, c, b) BY <1>1, BecomeCandidateOK, RecordVoteOK
<1> HIDE DEF c
<1>3. NodeOK(i, BroadcastAppend(BecomeLeader(c)), b)
  BY <1>2, BecomeLeaderOK, BroadcastAppendOK
<1>4. c.term \in Nat BY <1>2 DEF NodeOK, Node
<1>5. NodeOK(i, RequestVotes(c, "request_vote", c.term, force), b)
  BY <1>2, <1>4, RequestVotesOK DEF VoteRequestType
<1> QED BY <1>3, <1>5 DEF CampaignElection, c

\* CampaignPreElection keeps a well-formed node well formed.
LEMMA CampaignPreElectionOK ==
  ASSUME NEW i \in Server, NEW b \in Nat, NEW n, NodeOK(i, n, b)
  PROVE  NodeOK(i, CampaignPreElection(n), b)
<1> DEFINE c == RecordVote(BecomePreCandidate(n), n.id, TRUE)
<1>1. n.id \in Server BY DEF NodeOK
<1>2. NodeOK(i, c, b) BY <1>1, BecomePreCandidateOK, RecordVoteOK
<1> HIDE DEF c
<1>3. NodeOK(i, CampaignElection(c, FALSE), b) BY <1>2, CampaignElectionOK
<1>4. c.term + 1 \in Nat BY <1>2 DEF NodeOK, Node
<1>5. NodeOK(i, RequestVotes(c, "request_pre_vote", c.term + 1, FALSE), b)
  BY <1>2, <1>4, RequestVotesOK DEF VoteRequestType
<1> QED BY <1>3, <1>5 DEF CampaignPreElection, c

\* Hup keeps a well-formed node well formed.
LEMMA HupOK ==
  ASSUME NEW i \in Server, NEW b \in Nat, NEW n, NodeOK(i, n, b), NEW transfer \in BOOLEAN
  PROVE  NodeOK(i, Hup(n, transfer), b)
BY CampaignElectionOK, CampaignPreElectionOK DEF Hup

\* Poll keeps a well-formed node well formed.
LEMMA PollOK ==
  ASSUME NEW i \in Server, NEW b \in Nat, NEW n, NodeOK(i, n, b),
         NEW from \in Server, NEW granted \in BOOLEAN
  PROVE  NodeOK(i, Poll(n, from, granted), b)
<1> DEFINE r == RecordVote(n, from, granted)
<1>1. NodeOK(i, r, b) BY RecordVoteOK
<1> HIDE DEF r
<1>2. r.term \in Nat BY <1>1 DEF NodeOK, Node
<1>3. NodeOK(i, BecomeFollower(r, r.term, None), b) BY <1>1, <1>2, BecomeFollowerOK
<1>4. NodeOK(i, CampaignElection(r, FALSE), b) BY <1>1, CampaignElectionOK
<1>5. NodeOK(i, BroadcastAppend(BecomeLeader(r)), b)
  BY <1>1, BecomeLeaderOK, BroadcastAppendOK
<1>6. Tally(r) \in {"pending", "lost", "won"} BY DEF Tally, JointVoteResult
<1> QED BY <1>1, <1>3, <1>4, <1>5, <1>6 DEF Poll, r

-----------------------------------------------------------------------------
\* ObserveTerm keeps a well-formed node well formed.
LEMMA ObserveTermOK ==
  ASSUME NEW i \in Server, NEW b \in Nat, NEW n, NodeOK(i, n, b), NEW m \in Message
  PROVE  NodeOK(i, ObserveTerm(n, m), b)
<1>1. m.term \in Nat /\ m.from \in Server BY DEF Message
<1> QED BY <1>1, BecomeFollowerOK DEF ObserveTerm

\* HandleVoteRequest keeps a well-formed node well formed.
LEMMA HandleVoteRequestOK ==
  ASSUME NEW i \in Server, NEW b \in Nat, NEW n, NodeOK(i, n, b), NEW m \in Message
  PROVE  NodeOK(i, HandleVoteRequest(n, m), b)
<1> DEFINE resp == Msg(n, VoteRespType(m.type), m.from)
           yes  == [resp EXCEPT !.term = m.term]
           no   == [resp EXCEPT !.reject = TRUE, !.commit = n.committed,
                                !.commit_term = TermAt(n.log, n.committed)]
<1>1. n \in Node /\ m.from \in Server /\ m.term \in Nat BY DEF NodeOK, Message
<1>2. n.committed \in Nat /\ TermAt(n.log, n.committed) \in Nat BY <1>1, TermAtNat DEF Node
<1>3. resp \in Message BY <1>1, MsgIsMessage DEF VoteRespType, MsgType
<1> HIDE DEF resp
<1>4. yes \in Message /\ no \in Message BY <1>1, <1>2, <1>3 DEF Message
<1> HIDE DEF yes, no
<1> DEFINE g == Send(n, yes)
<1>5. NodeOK(i, g, b) /\ NodeOK(i, Send(n, no), b) BY <1>4, SendOK
<1> HIDE DEF g
<1>6. NodeOK(i, [g EXCEPT !.elapsed = FALSE, !.vote = m.from], b)
  BY <1>1, <1>5 DEF NodeOK, Node
<1>7. NodeOK(i, MaybeCommitByVote(Send(n, no), m), b) BY <1>5, MaybeCommitByVoteOK
<1> QED BY <1>5, <1>6, <1>7 DEF HandleVoteRequest, g, yes, no, resp

\* HandleVoteResponse keeps a well-formed node well formed.
LEMMA HandleVoteResponseOK ==
  ASSUME NEW i \in Server, NEW b \in Nat, NEW n, NodeOK(i, n, b), NEW m \in Message
  PROVE  NodeOK(i, HandleVoteResponse(n, m), b)
<1>1. m.from \in Server /\ (~ m.reject) \in BOOLEAN BY DEF Message
<1>2. NodeOK(i, MaybeCommitByVote(Poll(n, m.from, ~ m.reject), m), b)
  BY <1>1, PollOK, MaybeCommitByVoteOK
<1> QED BY <1>2 DEF HandleVoteResponse

\* FollowLeader keeps a well-formed node well formed.
LEMMA FollowLeaderOK ==
  ASSUME NEW i \in Server, NEW b \in Nat, NEW n, NodeOK(i, n, b), NEW m \in Message
  PROVE  NodeOK(i, FollowLeader(n, m), b)
<1>1. m.term \in Nat /\ m.from \in Server BY DEF Message
<1>2. NodeOK(i, BecomeFollower(n, m.term, m.from), b) BY <1>1, BecomeFollowerOK
<1>3. NodeOK(i, [n EXCEPT !.elapsed = FALSE, !.leader_id = m.from], b)
  BY <1>1 DEF NodeOK, Node
<1> QED BY <1>2, <1>3 DEF FollowLeader

-----------------------------------------------------------------------------
\* Least picks the least element of a non-empty set of numbers.
LEMMA LeastIsLeast ==
  ASSUME NEW S \in SUBSET Nat, S # {}
  PROVE  Least(S) \in S /\ \A y \in S : Least(S) <= y
<1>1. \E x \in S : \A y \in S : ~ (<<y, x>> \in OpToRel(<, Nat))
  BY NatLessThanWellFounded, WFMin
<1>2. PICK x \in S : \A y \in S : ~ (<<y, x>> \in OpToRel(<, Nat))
  BY <1>1
<1>3. \A y \in S : ~ (y < x) BY <1>2 DEF OpToRel
<1>4. \A y \in S : x <= y BY <1>3
<1> QED BY <1>4 DEF Least

\* The greatest index up to k that satisfies a property given as a set.
LEMMA GreatestExists ==
  ASSUME NEW k \in Nat, NEW S \in SUBSET (0..k), S # {}
  PROVE  \E j \in S : \A h \in S : h <= j
<1> DEFINE T == {k - j : j \in S}
<1>0. \A j \in S : j \in 0..k /\ k - j \in Nat OBVIOUS
<1>1. T \in SUBSET Nat /\ T # {}
  <2>1. T \subseteq Nat BY <1>0
  <2>2. PICK j \in S : TRUE OBVIOUS
  <2>3. k - j \in T BY <2>2
  <2> QED BY <2>1, <2>3
<1> DEFINE x == Least(T)
<1>2. x \in T /\ \A y \in T : x <= y BY <1>1, LeastIsLeast
<1> HIDE DEF x
<1>3. PICK j \in S : x = k - j BY <1>2
<1>4. ASSUME NEW h \in S PROVE h <= j
  <2>1. k - h \in T OBVIOUS
  <2>2. x <= k - h BY <1>2, <2>1
  <2> QED BY <1>3, <2>2
<1> QED BY <1>4

\* findConflictByTerm returns an index.
LEMMA FindConflictByTermNat ==
  ASSUME NEW log \in Seq(Entry), NEW k \in Nat, NEW t \in Nat
  PROVE  FindConflictByTerm(log, k, t) \in Nat
<1>1. CASE k > LastIndex(log) BY <1>1 DEF FindConflictByTerm
<1>2. CASE ~ (k > LastIndex(log))
  <2> DEFINE P(j) == /\ TermAt(log, j) <= t
                     /\ \A h \in (j + 1)..k : TermAt(log, h) > t
             S == {j \in 0..k : TermAt(log, j) <= t}
  <2>1. 0 \in S BY DEF TermAt
  <2>2. PICK j \in S : \A h \in S : h <= j BY <2>1, GreatestExists
  <2>3. \A h \in (j + 1)..k : TermAt(log, h) > t
    <3> SUFFICES ASSUME NEW h \in (j + 1)..k PROVE TermAt(log, h) > t
      OBVIOUS
    <3>1. h \in 0..k /\ ~ (h <= j) BY <2>2
    <3>2. h \notin S BY <2>2, <3>1
    <3>3. TermAt(log, h) \in Nat
      <4>1. h \in Int BY <3>1
      <4> QED BY <4>1, TermAtNat
    <3> QED BY <3>1, <3>2, <3>3
  <2>4. \E x \in 0..k : P(x) BY <2>2, <2>3
  <2>5. FindConflictByTerm(log, k, t) = CHOOSE x \in 0..k : P(x)
    BY <1>2 DEF FindConflictByTerm
  <2>6. (CHOOSE x \in 0..k : P(x)) \in 0..k BY <2>4
  <2> QED BY <2>5, <2>6
<1> QED BY <1>1, <1>2

-----------------------------------------------------------------------------
\* LogAppend cuts the log only above the index the message builds on, which
\* is not below the commit index.
LEMMA LogAppendOK ==
  ASSUME NEW i \in Server, NEW b \in Nat, NEW n, NodeOK(i, n, b), NEW m \in Message,
         n.committed <= m.index, MatchTerm(n.log, m.index, m.log_term)
  PROVE  NodeOK(i, LogAppend(n, m), b)
<1> DEFINE cs == Conflicts(n.log, m.index, m.entries)
           c  == Least(cs)
           keep == m.index + c - 1
           log2 == SubSeq(n.log, 1, keep) \o SubSeq(m.entries, c, Len(m.entries))
           n2 == LogAppend(n, m)
<1>1. CASE cs = {} BY <1>1 DEF LogAppend
<1>2. CASE cs # {}
  <2>1. /\ n \in Node /\ n.log \in Seq(Entry) /\ m.entries \in Seq(Entry)
        /\ m.index \in Nat /\ n.committed \in Nat /\ n.persisted \in Nat
    BY DEF NodeOK, Node, Message
  <2>2. Len(n.log) \in Nat /\ Len(m.entries) \in Nat BY <2>1, LenProperties
  <2>3. cs \in SUBSET (1..Len(m.entries)) BY DEF Conflicts
  <2>4. cs \in SUBSET Nat BY <2>2, <2>3
  <2>5. c \in cs /\ \A y \in cs : c <= y BY <1>2, <2>4, LeastIsLeast
  <2>6. c \in 1..Len(m.entries) BY <2>3, <2>5
  <2>7. keep <= Len(n.log)
    <3>1. CASE c = 1
      BY <2>1, <2>2, <3>1 DEF MatchTerm, LastIndex
    <3>2. CASE c # 1
      <4>1. c - 1 \in 1..Len(m.entries) /\ ~ (c <= c - 1) BY <2>2, <2>6, <3>2
      <4>2. c - 1 \notin cs BY <2>5, <4>1
      <4>3. MatchTerm(n.log, m.index + (c - 1), m.entries[c - 1].term)
        BY <4>1, <4>2 DEF Conflicts
      <4>4. m.index + (c - 1) <= Len(n.log) BY <4>3 DEF MatchTerm, LastIndex
      <4> QED BY <2>1, <2>2, <2>6, <4>4
    <3> QED BY <3>1, <3>2
  <2>8. keep \in Nat /\ m.index <= keep BY <2>1, <2>2, <2>6
  <2> DEFINE head == SubSeq(n.log, 1, keep)
             tail == SubSeq(m.entries, c, Len(m.entries))
  <2>9. head \in Seq(Entry) /\ Len(head) = keep
    <3>1. \A j \in 1..keep : n.log[j] \in Entry BY <2>1, <2>2, <2>7, <2>8, ElementOfSeq
    <3>2. 1 \in Int /\ keep \in Int BY <2>8
    <3> HIDE DEF keep
    <3> QED BY <2>8, <3>1, <3>2, SubSeqProperties
  <2>10. tail \in Seq(Entry)
    <3>1. \A j \in c..Len(m.entries) : m.entries[j] \in Entry
      BY <2>1, <2>2, <2>6, ElementOfSeq
    <3>2. c \in Int /\ Len(m.entries) \in Int BY <2>2, <2>6
    <3> HIDE DEF c
    <3> QED BY <3>1, <3>2, SubSeqProperties
  <2>11. log2 \in Seq(Entry) /\ Len(log2) >= keep
    <3>1. Len(tail) \in Nat BY <2>10, LenProperties
    <3> HIDE DEF head, tail
    <3>2. head \o tail \in Seq(Entry) /\ Len(head \o tail) = Len(head) + Len(tail)
      BY <2>9, <2>10, ConcatProperties
    <3> QED BY <2>8, <2>9, <3>1, <3>2 DEF head, tail
  <2>12. n2 = [n EXCEPT !.log = log2, !.persisted = MinOf(n.persisted, keep)]
    BY <1>2 DEF LogAppend
  <2>13. MinOf(n.persisted, keep) \in Nat /\ MinOf(n.persisted, keep) <= keep
         /\ MinOf(n.persisted, keep) \in {n.persisted, keep}
    BY <2>1, <2>8, MinMax
  <2> HIDE DEF n2, log2, keep
  <2>14. n2 \in Node BY <2>1, <2>11, <2>12, <2>13 DEF Node
  <2>15. /\ n2.log = log2 /\ n2.id = n.id /\ n2.prs = n.prs
         /\ n2.committed = n.committed /\ n2.persisted = MinOf(n.persisted, keep)
    BY <2>1, <2>12 DEF Node
  <2>16. Len(log2) \in Nat BY <2>11, LenProperties
  <2>17. NodeOK(i, n2, b)
    BY <2>1, <2>8, <2>11, <2>13, <2>14, <2>15, <2>16 DEF NodeOK
  <2> QED BY <2>17 DEF n2
<1> QED BY <1>1, <1>2

\* HandleAppendEntries keeps a well-formed node well formed.
LEMMA HandleAppendEntriesOK ==
  ASSUME NEW i \in Server, NEW b \in Nat, NEW n, NodeOK(i, n, b), NEW m \in Message
  PROVE  NodeOK(i, HandleAppendEntries(n, m), b)
<1> DEFINE resp    == Msg(n, "append_response", m.from)
           lastNew == m.index + Len(m.entries)
           probe   == MinOf(m.index, LastIndex(n.log))
           hint    == FindConflictByTerm(n.log, probe, m.log_term)
           low     == [resp EXCEPT !.index = n.committed]
           no      == [resp EXCEPT !.index = m.index, !.reject = TRUE,
                                   !.reject_hint = hint, !.log_term = TermAt(n.log, hint)]
           yes     == [resp EXCEPT !.index = lastNew]
<1>1. /\ n \in Node /\ n.log \in Seq(Entry) /\ n.committed \in Nat
      /\ m.from \in Server /\ m.index \in Nat /\ m.entries \in Seq(Entry)
      /\ m.log_term \in Nat /\ m.commit \in Nat
  BY DEF NodeOK, Node, Message
<1>2. Len(n.log) \in Nat /\ Len(m.entries) \in Nat BY <1>1, LenProperties
<1>3. resp \in Message BY <1>1, MsgIsMessage DEF MsgType
<1>4. lastNew \in Nat /\ probe \in Nat
  BY <1>1, <1>2 DEF LastIndex, MinOf
<1>5. hint \in Nat BY <1>1, <1>4, FindConflictByTermNat
<1> HIDE DEF resp, lastNew, hint
<1>6. TermAt(n.log, hint) \in Nat
  <2>1. hint \in Int BY <1>5
  <2> QED BY <1>1, <2>1, TermAtNat
<1>7. low \in Message /\ no \in Message /\ yes \in Message
  BY <1>1, <1>3, <1>4, <1>5, <1>6 DEF Message
<1> HIDE DEF low, no, yes
<1>8. NodeOK(i, Send(n, low), b) /\ NodeOK(i, Send(n, no), b) BY <1>7, SendOK
<1>9. CASE n.committed <= m.index /\ MatchTerm(n.log, m.index, m.log_term)
  <2>1. MinOf(m.commit, lastNew) \in Nat BY <1>1, <1>4, MinMax
  <2>2. NodeOK(i, Send(CommitTo(LogAppend(n, m), MinOf(m.commit, lastNew)), yes), b)
    BY <1>7, <1>9, <2>1, LogAppendOK, CommitToOK, SendOK
  <2> QED BY <1>1, <1>9, <2>2 DEF HandleAppendEntries, low, no, yes, resp, lastNew, hint
<1>10. CASE ~ (n.committed <= m.index /\ MatchTerm(n.log, m.index, m.log_term))
  BY <1>1, <1>8, <1>10 DEF HandleAppendEntries, low, no, yes, resp, lastNew, hint
<1> QED BY <1>9, <1>10

-----------------------------------------------------------------------------
\* Freeing inflights only shortens the window.
LEMMA FreeToOK ==
  ASSUME NEW q \in Seq(Nat), NEW k \in Nat
  PROVE  /\ FreeTo(q, k) \in Seq(Nat) /\ Len(FreeTo(q, k)) <= Len(q)
         /\ \A x : Rising(q, x) => Rising(FreeTo(q, k), x)
<1> DEFINE F == {j \in 1..Len(q) : q[j] <= k}
           freed == Cardinality(F)
<1>1. Len(q) \in Nat BY LenProperties
<1>2. IsFiniteSet(1..Len(q)) BY <1>1, FS_Interval
<1>3. freed \in Nat
  <2>1. IsFiniteSet(F) BY <1>2, FS_Subset
  <2> QED BY <2>1, FS_CardinalityType
<1> HIDE DEF freed
<1>4. freed + 1 \in Int /\ Len(q) \in Int BY <1>1, <1>3
<1>5. \A j \in (freed + 1)..Len(q) : q[j] \in Nat
  BY <1>1, <1>3, ElementOfSeq
<1>6. /\ SubSeq(q, freed + 1, Len(q)) \in Seq(Nat)
      /\ Len(SubSeq(q, freed + 1, Len(q)))
           = IF freed + 1 <= Len(q) THEN Len(q) - (freed + 1) + 1 ELSE 0
  BY <1>4, <1>5, SubSeqProperties
<1> DEFINE z == SubSeq(q, freed + 1, Len(q))
<1>7. \A j \in 1..Len(z) : z[j] = q[freed + j]
  <2>1. \A j \in 1..(Len(q) - (freed + 1) + 1) : z[j] = q[freed + 1 + j - 1]
    BY <1>4, <1>5, SubSeqProperties
  <2> HIDE DEF z
  <2>2. Len(z) = IF freed + 1 <= Len(q) THEN Len(q) - (freed + 1) + 1 ELSE 0 BY <1>6 DEF z
  <2>3. ASSUME NEW j \in 1..Len(z) PROVE z[j] = q[freed + j]
    <3>1. j \in 1..(Len(q) - (freed + 1) + 1) /\ freed + 1 + j - 1 = freed + j
      BY <1>1, <1>3, <2>2
    <3> QED BY <2>1, <3>1
  <2> QED BY <2>3
<1> HIDE DEF z
<1>8. ASSUME NEW x, Rising(q, x) PROVE Rising(z, x)
  <2>1. ASSUME NEW j \in 1..Len(z) PROVE freed + j \in 1..Len(q)
    BY <1>1, <1>3, <1>6 DEF z
  <2>2. ASSUME NEW j \in 2..Len(z)
        PROVE  /\ freed + j \in 2..Len(q) /\ j - 1 \in 1..Len(z) /\ j \in 1..Len(z)
               /\ freed + (j - 1) = (freed + j) - 1
    BY <1>1, <1>3, <1>6 DEF z
  <2>3. \A j \in 1..Len(z) : z[j] < x BY <1>7, <1>8, <2>1 DEF Rising
  <2>4. \A j \in 2..Len(z) : z[j - 1] < z[j] BY <1>7, <1>8, <2>2 DEF Rising
  <2> QED BY <2>3, <2>4 DEF Rising
<1>9. FreeTo(q, k) = z BY DEF FreeTo, freed, z
<1> QED BY <1>1, <1>3, <1>6, <1>8, <1>9 DEF z

\* Progress.maybeDecTo keeps a well-formed Progress.
LEMMA DecToOK ==
  ASSUME NEW pr \in Progress, SoundProgress(pr), NEW m \in Message,
         NEW hint \in Nat
  PROVE  DecTo(pr, m, hint) \in Progress /\ SoundProgress(DecTo(pr, m, hint))
<1>1. pr.matched \in Nat /\ m.index \in Nat BY DEF Progress, Message
<1> DEFINE next == MaxOf(MinOf(m.index, hint + 1), pr.matched + 1)
           d == DecTo(pr, m, hint)
<1>2. next \in Nat \ {0} /\ pr.matched < next BY <1>1 DEF MaxOf, MinOf
<1> HIDE DEF next
<1>3. pr.matched + 1 \in Nat \ {0} /\ pr.matched < pr.matched + 1 BY <1>1
<1>4. <<>> \in Seq(Nat) /\ Len(<<>>) <= MaxInflight BY RaftAssumption
<1>5. CASE pr.state = "replicate"
  <2>1. d \in Progress BY <1>3, <1>4, <1>5 DEF DecTo, Progress
  <2>2. d.matched = pr.matched /\ d.next_idx = pr.matched + 1 /\ d.inflights = <<>>
    BY <1>5 DEF DecTo, Progress
  <2> HIDE DEF d
  <2>3. SoundProgress(d) BY <1>3, <1>4, <2>2, RisingRules DEF SoundProgress
  <2> QED BY <2>1, <2>3 DEF d
<1>6. CASE pr.state # "replicate"
  <2>1. d = [pr EXCEPT !.next_idx = next, !.paused = FALSE]
    BY <1>6 DEF DecTo, next
  <2>2. d \in Progress BY <1>2, <2>1 DEF Progress
  <2>3. pr.inflights = <<>> BY <1>6 DEF SoundProgress, Progress
  <2>4. d.matched = pr.matched /\ d.next_idx = next /\ d.inflights = <<>>
    BY <2>1, <2>3 DEF Progress
  <2> HIDE DEF d
  <2>5. SoundProgress(d) BY <1>2, <1>4, <2>4, RisingRules DEF SoundProgress
  <2> QED BY <2>2, <2>5 DEF d
<1> QED BY <1>5, <1>6

\* Progress.maybeUpdate keeps a well-formed Progress.
LEMMA AckToOK ==
  ASSUME NEW pr \in Progress, SoundProgress(pr), NEW k \in Nat
  PROVE  AckTo(pr, k) \in Progress /\ SoundProgress(AckTo(pr, k))
<1>1. pr.matched \in Nat /\ pr.next_idx \in Nat \ {0} /\ pr.inflights \in Seq(Nat)
  BY DEF Progress
<1> DEFINE next == MaxOf(pr.next_idx, k + 1)
           free == FreeTo(pr.inflights, k)
           a == AckTo(pr, k)
<1>2. /\ next \in Nat \ {0} /\ k + 1 \in Nat \ {0} /\ k < next /\ k < k + 1
      /\ pr.next_idx <= next
  BY <1>1 DEF MaxOf
<1>3. free \in Seq(Nat) /\ Len(free) <= MaxInflight
  <2>1. Len(free) \in Nat /\ Len(pr.inflights) \in Nat /\ free \in Seq(Nat)
    BY <1>1, FreeToOK, LenProperties
  <2>2. Len(free) <= Len(pr.inflights) BY <1>1, FreeToOK
  <2> HIDE DEF free
  <2> QED BY <2>1, <2>2, RaftAssumption DEF SoundProgress
<1>4. <<>> \in Seq(Nat) /\ Len(<<>>) <= MaxInflight BY RaftAssumption
<1>5. Rising(pr.inflights, next) /\ Rising(free, next)
  <2>1. Rising(pr.inflights, pr.next_idx) BY DEF SoundProgress
  <2>2. Rising(pr.inflights, next)
    <3> HIDE DEF next
    <3> QED BY <1>1, <1>2, <2>1, RisingRules
  <2> QED BY <1>1, <2>2, FreeToOK
<1> HIDE DEF next, free
<1>6. CASE k <= pr.matched
  <2>1. a = [pr EXCEPT !.next_idx = next] BY <1>6 DEF AckTo, next
  <2>2. a \in Progress BY <1>2, <2>1 DEF Progress
  <2>3. /\ a.matched = pr.matched /\ a.next_idx = next /\ a.inflights = pr.inflights
        /\ a.state = pr.state
    BY <2>1 DEF Progress
  <2> HIDE DEF a
  <2>4. pr.matched < next BY <1>1, <1>2 DEF SoundProgress
  <2>5. SoundProgress(a) BY <1>5, <2>3, <2>4 DEF SoundProgress
  <2> QED BY <2>2, <2>5 DEF a
<1>7. CASE ~ (k <= pr.matched) /\ pr.state = "probe"
  <2>1. a = [pr EXCEPT !.matched = k, !.next_idx = k + 1, !.state = "replicate",
                                  !.paused = FALSE, !.inflights = <<>>]
    BY <1>7 DEF AckTo
  <2>2. a \in Progress BY <1>2, <1>4, <2>1 DEF Progress
  <2>3. a.matched = k /\ a.next_idx = k + 1 /\ a.inflights = <<>> BY <2>1 DEF Progress
  <2> HIDE DEF a
  <2>4. SoundProgress(a) BY <1>2, <1>4, <2>3, RisingRules DEF SoundProgress
  <2> QED BY <2>2, <2>4 DEF a
<1>8. CASE ~ (k <= pr.matched) /\ pr.state # "probe"
  <2>1. a = [pr EXCEPT !.matched = k, !.next_idx = next, !.paused = FALSE,
                                  !.inflights = free]
    BY <1>8 DEF AckTo, next, free
  <2>2. a \in Progress BY <1>2, <1>3, <2>1 DEF Progress
  <2>3. a.matched = k /\ a.next_idx = next /\ a.inflights = free /\ a.state # "probe"
    BY <1>8, <2>1 DEF Progress
  <2> HIDE DEF a
  <2>4. SoundProgress(a) BY <1>2, <1>3, <1>5, <2>3 DEF SoundProgress
  <2> QED BY <2>2, <2>4 DEF a
<1> QED BY <1>6, <1>7, <1>8 DEF a

\* Whether a peer is active or paused does not matter for a sound Progress.
LEMMA SoundFields ==
  ASSUME NEW pr \in Progress, SoundProgress(pr), NEW x \in Progress,
         x.matched = pr.matched, x.next_idx = pr.next_idx, x.state = pr.state,
         x.inflights = pr.inflights
  PROVE  SoundProgress(x)
BY DEF SoundProgress

\* Hearing from a peer keeps its Progress sound.
LEMMA HeardSound ==
  ASSUME NEW pr \in Progress, SoundProgress(pr), NEW a \in BOOLEAN
  PROVE  LET x == [pr EXCEPT !.recent_active = a]
         IN  x \in Progress /\ SoundProgress(x) /\ x.matched = pr.matched
<1> DEFINE x == [pr EXCEPT !.recent_active = a]
<1>1. /\ x \in Progress /\ x.matched = pr.matched /\ x.next_idx = pr.next_idx
      /\ x.state = pr.state /\ x.inflights = pr.inflights
  BY DEF Progress
<1> HIDE DEF x
<1>2. SoundProgress(x) BY <1>1, SoundFields
<1> QED BY <1>1, <1>2 DEF x

\* Going back to probing after what was acknowledged keeps Progress sound.
LEMMA ProbeSound ==
  ASSUME NEW pr \in Progress
  PROVE  LET x == [pr EXCEPT !.state = "probe", !.next_idx = pr.matched + 1,
                             !.paused = FALSE, !.inflights = <<>>]
         IN  x \in Progress /\ SoundProgress(x)
<1> DEFINE x == [pr EXCEPT !.state = "probe", !.next_idx = pr.matched + 1,
                           !.paused = FALSE, !.inflights = <<>>]
<1>1. /\ pr.matched \in Nat /\ pr.matched + 1 \in Nat \ {0} /\ <<>> \in Seq(Nat)
      /\ Len(<<>>) <= MaxInflight
  BY RaftAssumption DEF Progress
<1>2. /\ x \in Progress /\ x.matched = pr.matched /\ x.next_idx = pr.matched + 1
      /\ x.inflights = <<>>
  BY <1>1 DEF Progress
<1> HIDE DEF x
<1>3. SoundProgress(x) BY <1>1, <1>2, RisingRules DEF SoundProgress
<1> QED BY <1>2, <1>3 DEF x

\* Raft.onPersistEntries on the leader's own Progress keeps it sound.
LEMMA OwnSound ==
  ASSUME NEW pr \in Progress, SoundProgress(pr), NEW last \in Nat
  PROVE  LET x == [pr EXCEPT !.matched = last, !.next_idx = MaxOf(@, last + 1)]
         IN  x \in Progress /\ SoundProgress(x) /\ x.matched = last
<1> DEFINE next == MaxOf(pr.next_idx, last + 1)
           x == [pr EXCEPT !.matched = last, !.next_idx = MaxOf(@, last + 1)]
<1>1. pr.next_idx \in Nat \ {0} /\ pr.inflights \in Seq(Nat) BY DEF Progress
<1>2. next \in Nat \ {0} /\ last < next /\ pr.next_idx <= next BY <1>1 DEF MaxOf
<1>3. x = [pr EXCEPT !.matched = last, !.next_idx = next] OBVIOUS
<1> HIDE DEF next, x
<1>4. /\ x \in Progress /\ x.matched = last /\ x.next_idx = next
      /\ x.inflights = pr.inflights /\ x.state = pr.state
  BY <1>2, <1>3 DEF Progress
<1>5. Rising(pr.inflights, next) BY <1>1, <1>2, RisingRules DEF SoundProgress
<1>6. SoundProgress(x) BY <1>2, <1>4, <1>5 DEF SoundProgress
<1> QED BY <1>4, <1>6 DEF x

\* A heartbeat answer frees a slot of a full window and ends a pause.
LEMMA BeatSound ==
  ASSUME NEW pr \in Progress, SoundProgress(pr)
  PROVE  LET q == IF pr.state = "replicate" /\ IsPaused(pr)
                    THEN FreeTo(pr.inflights, Head(pr.inflights)) ELSE pr.inflights
             x == [pr EXCEPT !.recent_active = TRUE, !.paused = FALSE, !.inflights = q]
         IN  x \in Progress /\ SoundProgress(x) /\ x.matched = pr.matched
<1> DEFINE q == IF pr.state = "replicate" /\ IsPaused(pr)
                  THEN FreeTo(pr.inflights, Head(pr.inflights)) ELSE pr.inflights
           x == [pr EXCEPT !.recent_active = TRUE, !.paused = FALSE, !.inflights = q]
<1>1. pr.inflights \in Seq(Nat) /\ Len(pr.inflights) \in Nat
  BY LenProperties DEF Progress
<1>2. /\ q \in Seq(Nat) /\ Len(q) <= MaxInflight /\ Rising(q, pr.next_idx)
      /\ pr.state = "probe" => q = <<>>
  <2>1. CASE pr.state = "replicate" /\ IsPaused(pr)
    <3>1. Len(pr.inflights) = MaxInflight BY <2>1 DEF IsPaused
    <3>2. pr.inflights # <<>> BY <3>1, RaftAssumption
    <3>3. Head(pr.inflights) \in Nat BY <1>1, <3>2, HeadTailProperties
    <3>4. q \in Seq(Nat) /\ Len(q) <= Len(pr.inflights) /\ Rising(q, pr.next_idx)
      <4>1. Rising(pr.inflights, pr.next_idx) BY DEF SoundProgress
      <4> QED BY <1>1, <2>1, <3>3, <4>1, FreeToOK
    <3> QED BY <2>1, <3>1, <3>4
  <2>2. CASE ~ (pr.state = "replicate" /\ IsPaused(pr)) BY <1>1, <2>2 DEF SoundProgress
  <2> QED BY <2>1, <2>2
<1> HIDE DEF q
<1>3. /\ x \in Progress /\ x.matched = pr.matched /\ x.next_idx = pr.next_idx
      /\ x.state = pr.state /\ x.inflights = q
  BY <1>2 DEF Progress
<1> HIDE DEF x
<1>4. SoundProgress(x) BY <1>2, <1>3 DEF SoundProgress
<1> QED BY <1>3, <1>4 DEF x, q

\* SendTimeoutNow keeps a well-formed node well formed.
LEMMA SendTimeoutNowOK ==
  ASSUME NEW i \in Server, NEW b \in Nat, NEW n, NodeOK(i, n, b), NEW to \in Server
  PROVE  NodeOK(i, SendTimeoutNow(n, to), b)
<1>1. Msg(n, "timeout_now", to) \in Message BY MsgIsMessage DEF MsgType, NodeOK
<1> QED BY <1>1, SendOK DEF SendTimeoutNow

\* HandleAppendResponse keeps a well-formed node well formed.
LEMMA HandleAppendResponseOK ==
  ASSUME NEW i \in Server, NEW b \in Nat, NEW n, NodeOK(i, n, b), NEW m \in Message
  PROVE  NodeOK(i, HandleAppendResponse(n, m), b)
<1> DEFINE hint  == IF m.reject /\ m.log_term > 0
                      THEN FindConflictByTerm(n.log, m.reject_hint, m.log_term)
                      ELSE m.reject_hint
           heard == [n EXCEPT !.prs[m.from].recent_active = TRUE]
           pr    == heard.prs[m.from]
           ackpr == AckTo(pr, m.index)
           acked == [heard EXCEPT !.prs[m.from] = ackpr]
           decpr == DecTo(pr, m, hint)
           dec   == [heard EXCEPT !.prs[m.from] = decpr]
           sent  == IF MayCommit(acked) THEN BroadcastAppend(MaybeCommit(acked))
                    ELSE IF IsPaused(pr) THEN SendAppend(acked, m.from)
                    ELSE acked
           final == SendAppendAggressively(sent, m.from)
<1>1. /\ n \in Node /\ n.log \in Seq(Entry) /\ m.from \in Server /\ m.index \in Nat
      /\ m.log_term \in Nat /\ m.reject_hint \in Nat
  BY DEF NodeOK, Node, Message
<1>2. hint \in Nat BY <1>1, FindConflictByTermNat
<1>3. NodeOK(i, heard, b)
  <2>1. n.prs[m.from] \in Progress /\ SoundProgress(n.prs[m.from])
    BY <1>1 DEF NodeOK, Node
  <2> DEFINE h == [n.prs[m.from] EXCEPT !.recent_active = TRUE]
  <2>2. h \in Progress /\ SoundProgress(h) BY <2>1, HeardSound
  <2>3. heard = [n EXCEPT !.prs[m.from] = h] OBVIOUS
  <2> HIDE DEF h
  <2>4. NodeOK(i, [n EXCEPT !.prs[m.from] = h], b) BY <1>1, <2>2, OneProgressOK
  <2> QED BY <2>3, <2>4
<1> HIDE DEF heard, hint
<1>4. pr \in Progress /\ SoundProgress(pr)
  BY <1>1, <1>3 DEF NodeOK, Node
<1> HIDE DEF pr
<1>5. /\ ackpr \in Progress /\ SoundProgress(ackpr)
      /\ decpr \in Progress /\ SoundProgress(decpr)
  BY <1>1, <1>2, <1>4, AckToOK, DecToOK
<1> HIDE DEF ackpr, decpr
<1>6. NodeOK(i, acked, b) /\ NodeOK(i, dec, b) BY <1>1, <1>3, <1>5, OneProgressOK
<1> HIDE DEF acked, dec
<1>7. NodeOK(i, sent, b)
  BY <1>1, <1>6, MaybeCommitOK, BroadcastAppendOK, SendAppendOK
<1> HIDE DEF sent
<1>8. NodeOK(i, final, b) BY <1>1, <1>7, SendAppendAggressivelyOK
<1> HIDE DEF final
<1>9. NodeOK(i, SendTimeoutNow(final, m.from), b) BY <1>1, <1>8, SendTimeoutNowOK
<1>10. NodeOK(i, SendAppend(dec, m.from), b) BY <1>1, <1>6, SendAppendOK
<1>11. HandleAppendResponse(n, m) \in
         {heard, SendAppend(dec, m.from), acked, SendTimeoutNow(final, m.from), final}
  BY DEF HandleAppendResponse, hint, heard, pr, ackpr, acked, decpr, dec, sent, final
<1> QED BY <1>3, <1>6, <1>8, <1>9, <1>10, <1>11

\* HandleHeartbeat keeps a well-formed node well formed.
LEMMA HandleHeartbeatOK ==
  ASSUME NEW i \in Server, NEW b \in Nat, NEW n, NodeOK(i, n, b), NEW m \in Message
  PROVE  NodeOK(i, HandleHeartbeat(n, m), b)
<1>1. m.commit \in Nat /\ m.from \in Server BY DEF Message
<1>2. NodeOK(i, CommitTo(n, m.commit), b) BY <1>1, CommitToOK
<1>3. Msg(n, "heartbeat_response", m.from) \in Message
  BY <1>1, MsgIsMessage DEF MsgType, NodeOK
<1> QED BY <1>2, <1>3, SendOK DEF HandleHeartbeat

\* HandleHeartbeatResponse keeps a well-formed node well formed.
LEMMA HandleHeartbeatResponseOK ==
  ASSUME NEW i \in Server, NEW b \in Nat, NEW n, NodeOK(i, n, b), NEW m \in Message
  PROVE  NodeOK(i, HandleHeartbeatResponse(n, m), b)
<1> DEFINE pr == n.prs[m.from]
           q  == IF pr.state = "replicate" /\ IsPaused(pr)
                   THEN FreeTo(pr.inflights, Head(pr.inflights)) ELSE pr.inflights
           p2 == [pr EXCEPT !.recent_active = TRUE, !.paused = FALSE, !.inflights = q]
           h  == [n EXCEPT !.prs[m.from] = p2]
<1>1. m.from \in Server BY DEF Message
<1>2. pr \in Progress /\ SoundProgress(pr) BY <1>1 DEF NodeOK, Node
<1> HIDE DEF pr
<1>5. p2 \in Progress /\ SoundProgress(p2) BY <1>2, BeatSound
<1> HIDE DEF p2
<1>6. NodeOK(i, h, b) BY <1>1, <1>5, OneProgressOK
<1> HIDE DEF h
<1>7. NodeOK(i, SendAppend(h, m.from), b) BY <1>1, <1>6, SendAppendOK
<1>8. HandleHeartbeatResponse(n, m) \in {h, SendAppend(h, m.from)}
  BY DEF HandleHeartbeatResponse, h, p2, q, pr
<1> QED BY <1>6, <1>7, <1>8

\* HandleTransferLeader keeps a well-formed node well formed.
LEMMA HandleTransferLeaderOK ==
  ASSUME NEW i \in Server, NEW b \in Nat, NEW n, NodeOK(i, n, b), NEW to \in Server
  PROVE  NodeOK(i, HandleTransferLeader(n, to), b)
<1> DEFINE t == [n EXCEPT !.elapsed = FALSE, !.lead_transferee = to]
           a == [n EXCEPT !.lead_transferee = None]
<1>1. NodeOK(i, t, b) /\ NodeOK(i, a, b) BY DEF NodeOK, Node
<1> HIDE DEF t, a
<1>2. NodeOK(i, SendTimeoutNow(t, to), b) /\ NodeOK(i, SendAppend(t, to), b)
  BY <1>1, SendTimeoutNowOK, SendAppendOK
<1> QED BY <1>1, <1>2 DEF HandleTransferLeader, t, a

\* HandlePropose keeps a well-formed node well formed.
LEMMA HandleProposeOK ==
  ASSUME NEW i \in Server, NEW b \in Nat, NEW n, NodeOK(i, n, b),
         NEW val \in Value \cup {Noop}
  PROVE  NodeOK(i, HandlePropose(n, val), b)
BY AppendEntryOK, BroadcastAppendOK DEF HandlePropose

\* LeaderTimeout keeps a well-formed node well formed.
LEMMA LeaderTimeoutOK ==
  ASSUME NEW i \in Server, NEW b \in Nat, NEW n, NodeOK(i, n, b)
  PROVE  NodeOK(i, LeaderTimeout(n), b)
<1>1. n \in Node /\ n.prs \in [Server -> Progress] /\ n.term \in Nat BY DEF NodeOK, Node
<1>2. NodeOK(i, [n EXCEPT !.lead_transferee = None], b) BY DEF NodeOK, Node
<1>3. NodeOK(i, BecomeFollower(n, n.term, None), b) BY <1>1, BecomeFollowerOK
<1> DEFINE prs2 == [s \in Server |-> [n.prs[s] EXCEPT !.recent_active = (s = n.id)]]
           w == NewWindow(n)
<1>4. ASSUME NEW s \in Server
      PROVE  prs2[s] \in Progress /\ SoundProgress(prs2[s])
  <2>1. n.prs[s] \in Progress /\ SoundProgress(n.prs[s])
    BY <1>1 DEF NodeOK
  <2> QED BY <2>1, HeardSound
<1>5. prs2 \in [Server -> Progress] BY <1>4
<1>6. w = [n EXCEPT !.prs = prs2] BY DEF NewWindow
<1> HIDE DEF prs2, w
<1>7. NodeOK(i, w, b) BY <1>4, <1>5, <1>6 DEF NodeOK, Node
<1>8. NodeOK(i, [w EXCEPT !.elapsed = FALSE, !.lead_transferee = None], b)
  BY <1>7 DEF NodeOK, Node
<1> QED BY <1>2, <1>3, <1>8 DEF LeaderTimeout, w

\* BroadcastHeartbeat keeps a well-formed node well formed.
LEMMA BroadcastHeartbeatOK ==
  ASSUME NEW i \in Server, NEW b \in Nat, NEW n, NodeOK(i, n, b)
  PROVE  NodeOK(i, BroadcastHeartbeat(n), b)
<1> DEFINE beat(s) == [Msg(n, "heartbeat", s) EXCEPT
                         !.commit = MinOf(n.prs[s].matched, n.committed)]
           new == {beat(s) : s \in Peers(n)}
<1>1. n \in Node BY DEF NodeOK
<1>2. ASSUME NEW s \in Server PROVE beat(s) \in Message
  <2>1. Msg(n, "heartbeat", s) \in Message BY <1>1, MsgIsMessage DEF MsgType
  <2>2. n.prs[s].matched \in Nat /\ n.committed \in Nat BY <1>1 DEF Node, Progress
  <2>3. MinOf(n.prs[s].matched, n.committed) \in Nat BY <2>2, MinMax
  <2> QED BY <2>1, <2>3 DEF Message
<1>3. new \subseteq Message BY <1>2 DEF Peers
<1>4. BroadcastHeartbeat(n) = [n EXCEPT !.messages = n.messages \cup new]
  BY DEF BroadcastHeartbeat
<1> HIDE DEF new
<1> QED BY <1>3, <1>4 DEF NodeOK, Node

-----------------------------------------------------------------------------
\* Sending and committing leave the log and the persisted index alone, and
\* never lower the commit index.
LEMMA BroadcastCommitFrame ==
  ASSUME NEW i \in Server, NEW b \in Nat, NEW n, NodeOK(i, n, b), MayCommit(n)
  PROVE  LET n2 == BroadcastAppend(MaybeCommit(n))
         IN  /\ n2.log = n.log /\ n2.persisted = n.persisted
             /\ n2.committed >= n.committed
<1> DEFINE k == CHOOSE x \in 1..LastIndex(n.log) : CanCommit(n, x)
           c == MaybeCommit(n)
<1>1. k \in 1..LastIndex(n.log) /\ CanCommit(n, k) BY DEF MayCommit
<1>2. c = [n EXCEPT !.committed = k] BY DEF MaybeCommit
<1> HIDE DEF k, c
<1>3. c \in Node BY MaybeCommitOK DEF c, NodeOK
<1>4. Len(n.log) \in Nat /\ n.committed \in Nat /\ n \in Node
  BY LenProperties DEF NodeOK, Node
<1>5. k >= n.committed BY <1>1, <1>4 DEF CanCommit, LastIndex
<1>6. c.log = n.log /\ c.persisted = n.persisted /\ c.committed = k
  BY <1>2, <1>4 DEF Node
<1>7. /\ BroadcastAppend(c).log = c.log /\ BroadcastAppend(c).persisted = c.persisted
      /\ BroadcastAppend(c).committed = c.committed
  BY <1>3 DEF BroadcastAppend, Node
<1> QED BY <1>5, <1>6, <1>7 DEF c

\* After a Ready everything in the log is persisted: any commit index up to
\* the node's may be the durable one.
LEMMA OnPersistEntriesOK ==
  ASSUME NEW i \in Server, NEW b \in Nat, NEW n, NodeOK(i, n, b)
  PROVE  LET p == OnPersistEntries(n)
         IN  /\ NodeOK(i, p, p.committed)
             /\ p.log = n.log
             /\ n.committed <= p.committed
<1> DEFINE last == LastIndex(n.log)
           p == [n EXCEPT !.persisted = last]
           own == [n.prs[n.id] EXCEPT !.matched = last, !.next_idx = MaxOf(@, last + 1)]
           a == [p EXCEPT !.prs[n.id] = own]
           o == OnPersistEntries(n)
<1>1. /\ n \in Node /\ n.id = i /\ n.committed \in Nat /\ n.persisted \in Nat
      /\ last \in Nat /\ n.committed <= last /\ n.persisted <= last
      /\ b <= n.committed /\ last = Len(n.log)
  BY LenProperties DEF NodeOK, Node, LastIndex
<1> HIDE DEF last
<1>2. /\ NodeOK(i, p, b)
      /\ p.log = n.log /\ p.persisted = last /\ p.committed = n.committed /\ p.prs = n.prs
  <2>1. p \in Node BY <1>1 DEF Node
  <2>2. /\ p.log = n.log /\ p.persisted = last /\ p.committed = n.committed
        /\ p.prs = n.prs /\ p.id = n.id
    BY <1>1 DEF Node
  <2> HIDE DEF p
  <2> QED BY <1>1, <2>1, <2>2 DEF NodeOK
<1>3. own \in Progress /\ SoundProgress(own)
  <2>1. n.prs[n.id] \in Progress /\ SoundProgress(n.prs[n.id])
    BY <1>1 DEF NodeOK, Node
  <2> QED BY <1>1, <2>1, OwnSound
<1> HIDE DEF own
<1>4. NodeOK(i, a, b) BY <1>1, <1>2, <1>3, OneProgressOK
<1>5. a.log = n.log /\ a.persisted = last /\ a.committed = n.committed
  BY <1>2 DEF NodeOK, Node
<1> HIDE DEF a, p
<1>6. CASE o = n /\ n.persisted >= last
  BY <1>1, <1>6 DEF NodeOK
<1>7. CASE o = p
  BY <1>1, <1>2, <1>7 DEF NodeOK
<1>8. CASE o = a
  BY <1>1, <1>4, <1>5, <1>8 DEF NodeOK
<1>9. CASE MayCommit(a) /\ o = BroadcastAppend(MaybeCommit(a))
  <2>1. NodeOK(i, o, b) BY <1>4, <1>9, MaybeCommitOK, BroadcastAppendOK
  <2>2. o.log = n.log /\ o.persisted = last /\ o.committed >= n.committed
    BY <1>4, <1>5, <1>9, BroadcastCommitFrame
  <2>3. o.committed \in Nat /\ o.committed <= last BY <1>1, <2>1, <2>2 DEF NodeOK, Node
  <2> HIDE DEF o
  <2>4. NodeOK(i, o, o.committed) /\ o.log = n.log /\ n.committed <= o.committed
    BY <1>1, <2>1, <2>2, <2>3 DEF NodeOK
  <2> QED BY <2>4 DEF o
<1>10. \/ o = n /\ n.persisted >= last
       \/ o = p
       \/ o = a
       \/ MayCommit(a) /\ o = BroadcastAppend(MaybeCommit(a))
  <2>1. a = [p EXCEPT !.prs[n.id].matched = last, !.prs[n.id].next_idx = MaxOf(@, last + 1)]
    BY <1>1, <1>2 DEF a, own, p, NodeOK, Node, Progress
  <2> QED BY <2>1 DEF OnPersistEntries, p, last
<1> QED BY <1>6, <1>7, <1>8, <1>9, <1>10

-----------------------------------------------------------------------------
(***************************************************************************)
(* The inductive invariant: the type invariant, a loadable disk, and every *)
(* node well formed above its durable commit index.                        *)
(***************************************************************************)
TypeInv ==
  /\ TypeOK
  /\ RestartInRange
  /\ \A i \in Server : NodeOK(i, node[i], disk[i].commit)

\* A node restarted from a loadable disk is well formed.
LEMMA RestartOK ==
  ASSUME NEW i \in Server, NEW d \in Disk, d.commit <= Len(d.log)
  PROVE  NodeOK(i, Restart(i, d), d.commit)
<1>1. d.log \in Seq(Entry) /\ d.commit \in Nat BY DEF Disk
<1>2. Len(d.log) \in Nat BY <1>1, LenProperties
<1>3. Restart(i, d) \in Node
  BY <1>1, <1>2, NoProgressOK DEF Restart, Node, Disk, Role, NoVotes, VoteValue, LastIndex
<1>4. \A s \in Server : SoundProgress(NoProgress[s])
  BY NoProgressSound
<1> QED BY <1>1, <1>2, <1>3, <1>4 DEF NodeOK, Restart, LastIndex

\* A prefix of a log is a log.
LEMMA PrefixOK ==
  ASSUME NEW log \in Seq(Entry), NEW k \in Nat, k <= Len(log)
  PROVE  SubSeq(log, 1, k) \in Seq(Entry) /\ Len(SubSeq(log, 1, k)) = k
<1>1. Len(log) \in Nat BY LenProperties
<1>2. \A j \in 1..k : log[j] \in Entry BY <1>1, ElementOfSeq
<1>3. 1 \in Int /\ k \in Int OBVIOUS
<1> QED BY <1>2, <1>3, SubSeqProperties

\* Spending keeps the budget well formed.
LEMMA SpendOK ==
  ASSUME TypeOK, NEW e \in Event, Spend(e)
  PROVE  budget' \in [Event -> Nat]
BY DEF Spend, TypeOK

\* A step that gives node i a well-formed state and leaves the disk alone.
LEMMA BecomeKeepsTypeInv ==
  ASSUME TypeInv, NEW i \in Server, NEW n, NEW d \in Disk,
         NodeOK(i, n, d.commit), d.commit <= Len(d.log), Become(i, n),
         disk' = [disk EXCEPT ![i] = d], msgs' \subseteq Message,
         budget' \in [Event -> Nat]
  PROVE  TypeInv'
<1>1. /\ node \in [Server -> Node] /\ disk \in [Server -> Disk]
      /\ elected \subseteq Nat \X Server /\ decided \in Seq(Entry)
  BY DEF TypeInv, TypeOK
<1>2. n \in Node /\ node' = [node EXCEPT ![i] = n] BY DEF NodeOK, Become
<1>3. elected' \subseteq Nat \X Server
  <2>1. <<n.term, i>> \in Nat \X Server BY <1>2 DEF Node
  <2> QED BY <1>1, <2>1 DEF Become
<1>4. decided' \in Seq(Entry)
  <2>1. n.log \in Seq(Entry) /\ n.committed \in Nat /\ n.committed <= Len(n.log)
    BY DEF NodeOK, Node
  <2>2. SubSeq(n.log, 1, n.committed) \in Seq(Entry) BY <2>1, PrefixOK
  <2> QED BY <1>1, <2>2 DEF Become
<1>5. TypeOK' BY <1>1, <1>2, <1>3, <1>4 DEF TypeOK
<1>6. RestartInRange' BY <1>1 DEF RestartInRange, TypeInv
<1>7. ASSUME NEW j \in Server PROVE NodeOK(j, node'[j], disk'[j].commit)
  <2>1. CASE j = i BY <1>1, <1>2, <2>1
  <2>2. CASE j # i
    <3>1. node'[j] = node[j] /\ disk'[j] = disk[j] BY <1>1, <1>2, <2>2
    <3>2. NodeOK(j, node[j], disk[j].commit) BY DEF TypeInv
    <3> QED BY <3>1, <3>2
  <2> QED BY <2>1, <2>2
<1>8. (\A j \in Server : NodeOK(j, node[j], disk[j].commit))' BY <1>7
<1> QED BY <1>5, <1>6, <1>8 DEF TypeInv

\* The same for a step that leaves the disk and the network alone.
LEMMA StepKeepsTypeInv ==
  ASSUME TypeInv, NEW i \in Server, NEW n, NodeOK(i, n, disk[i].commit), Become(i, n),
         UNCHANGED <<disk, msgs>>, budget' \in [Event -> Nat]
  PROVE  TypeInv'
<1> DEFINE d == disk[i]
<1>1. disk \in [Server -> Disk] /\ msgs \subseteq Message BY DEF TypeInv, TypeOK
<1>2. d \in Disk BY <1>1
<1>3. d.commit <= Len(d.log) BY DEF TypeInv, RestartInRange
<1>4. disk' = [disk EXCEPT ![i] = d] BY <1>1
<1>5. msgs' \subseteq Message BY <1>1
<1> HIDE DEF d
<1>6. NodeOK(i, n, d.commit) BY DEF d
<1> QED BY <1>2, <1>3, <1>4, <1>5, <1>6, BecomeKeepsTypeInv

\* A restart from a loadable disk keeps the inductive invariant.
LEMMA RestartKeepsTypeInv ==
  ASSUME TypeInv, NEW i \in Server, NEW d \in Disk, d.commit <= Len(d.log),
         RestartFrom(i, d), msgs' \subseteq Message
  PROVE  TypeInv'
<1>1. node \in [Server -> Node] /\ disk \in [Server -> Disk] BY DEF TypeInv, TypeOK
<1>2. NodeOK(i, Restart(i, d), d.commit) BY RestartOK
<1>3. /\ node' = [node EXCEPT ![i] = Restart(i, d)]
      /\ disk' = [disk EXCEPT ![i] = d]
      /\ UNCHANGED <<elected, decided>>
  BY DEF RestartFrom
<1>4. budget' \in [Event -> Nat] BY SpendOK DEF RestartFrom, TypeInv, Event
<1>5. Restart(i, d) \in Node BY <1>2 DEF NodeOK
<1>6. TypeOK' BY <1>1, <1>3, <1>4, <1>5 DEF TypeOK, TypeInv
<1>7. RestartInRange' BY <1>1, <1>3 DEF RestartInRange, TypeInv
<1>8. ASSUME NEW j \in Server PROVE NodeOK(j, node'[j], disk'[j].commit)
  <2>1. CASE j = i BY <1>1, <1>2, <1>3, <2>1
  <2>2. CASE j # i
    <3>1. node'[j] = node[j] /\ disk'[j] = disk[j] BY <1>1, <1>3, <2>2
    <3>2. NodeOK(j, node[j], disk[j].commit) BY DEF TypeInv
    <3> QED BY <3>1, <3>2
  <2> QED BY <2>1, <2>2
<1>9. (\A j \in Server : NodeOK(j, node[j], disk[j].commit))' BY <1>8
<1> QED BY <1>6, <1>7, <1>9 DEF TypeInv

-----------------------------------------------------------------------------
\* The inductive invariant holds initially.
LEMMA TypeInvInit == Init => TypeInv
<1> SUFFICES ASSUME Init PROVE TypeInv OBVIOUS
<1> DEFINE empty == [term |-> 0, vote |-> None, commit |-> 0, log |-> <<>>]
<1>1. empty \in Disk /\ empty.commit <= Len(empty.log) BY DEF Disk
<1>2. disk = [i \in Server |-> empty] /\ node = [i \in Server |-> Restart(i, empty)]
  BY DEF Init
<1> HIDE DEF empty
<1>3. \A i \in Server : NodeOK(i, Restart(i, empty), empty.commit) BY <1>1, RestartOK
<1>4. \A i \in Server : Restart(i, empty) \in Node BY <1>3 DEF NodeOK
<1>5. TypeOK
  <2>1. node \in [Server -> Node] BY <1>2, <1>4
  <2>2. disk \in [Server -> Disk] BY <1>1, <1>2
  <2>3. budget \in [Event -> Nat] BY RaftAssumption DEF Init
  <2>4. msgs \subseteq Message /\ elected \subseteq Nat \X Server /\ decided \in Seq(Entry)
    BY DEF Init
  <2> QED BY <2>1, <2>2, <2>3, <2>4 DEF TypeOK
<1>6. RestartInRange BY <1>1, <1>2 DEF RestartInRange
<1>7. \A i \in Server : NodeOK(i, node[i], disk[i].commit) BY <1>2, <1>3
<1> QED BY <1>5, <1>6, <1>7 DEF TypeInv

\* The actions of one node that touch neither its disk nor the network.
LEMMA LocalSteps ==
  ASSUME TypeInv, NEW i \in Server,
         \/ Campaign(i)
         \/ LeaderTick(i)
         \/ Beat(i)
         \/ \E v \in Value : Propose(i, v)
         \/ \E s \in Server : TransferLeader(i, s)
         \/ \E s \in Server : Unreachable(i, s)
  PROVE  TypeInv'
<1> DEFINE n == node[i]
           b == disk[i].commit
<1>1. NodeOK(i, n, b) /\ TypeOK BY DEF TypeInv
<1>2. n \in Node /\ b \in Nat /\ n.id = i /\ n.leader_id \in Server \cup {None}
      /\ n.prs \in [Server -> Progress]
  BY <1>1 DEF TypeOK, Disk, NodeOK, Node
<1>3. \A e \in Event : Spend(e) => budget' \in [Event -> Nat] BY <1>1, SpendOK
<1>4. Event = {"campaign", "crash", "propose", "beat", "transfer", "unreachable", "tick"}
  BY DEF Event
<1> HIDE DEF n, b
<1> DEFINE Goal(x) == /\ NodeOK(i, x, b) /\ Become(i, x) /\ UNCHANGED <<disk, msgs>>
                      /\ budget' \in [Event -> Nat]
<1>5. ASSUME NEW x, Goal(x) PROVE TypeInv' BY <1>5, StepKeepsTypeInv DEF b
<1>6. CASE Campaign(i)
  <2> DEFINE c == [n EXCEPT !.elapsed = FALSE]
  <2>1. NodeOK(i, c, b) BY <1>1 DEF NodeOK, Node
  <2> HIDE DEF c
  <2>2. NodeOK(i, Hup(c, FALSE), b) BY <1>2, <2>1, HupOK
  <2>3. Goal(Hup(c, FALSE)) BY <1>3, <1>4, <1>6, <2>2 DEF Campaign, c, n
  <2> QED BY <1>5, <2>3
<1>7. CASE LeaderTick(i)
  <2>1. NodeOK(i, LeaderTimeout(n), b) BY <1>1, <1>2, LeaderTimeoutOK
  <2>2. Goal(LeaderTimeout(n)) BY <1>3, <1>4, <1>7, <2>1 DEF LeaderTick, n
  <2> QED BY <1>5, <2>2
<1>8. CASE Beat(i)
  <2>1. NodeOK(i, BroadcastHeartbeat(n), b) BY <1>1, <1>2, BroadcastHeartbeatOK
  <2>2. Goal(BroadcastHeartbeat(n)) BY <1>3, <1>4, <1>8, <2>1 DEF Beat, n
  <2> QED BY <1>5, <2>2
<1>9. ASSUME NEW v \in Value, Propose(i, v) PROVE TypeInv'
  <2>1. NodeOK(i, HandlePropose(n, v), b) BY <1>1, <1>2, HandleProposeOK
  <2>2. CASE Become(i, HandlePropose(n, v))
    <3>1. Goal(HandlePropose(n, v)) BY <1>3, <1>4, <1>9, <2>1, <2>2 DEF Propose
    <3> QED BY <1>5, <3>1
  <2>3. CASE n.leader_id # None /\ Become(i, Send(n, ProposeMsg(i, n.leader_id, v)))
    <3> DEFINE m == ProposeMsg(i, n.leader_id, v)
    <3>1. n.leader_id \in Server BY <1>2, <2>3
    <3>2. Msg(n, "propose", n.leader_id) \in Message BY <1>2, <3>1, MsgIsMessage DEF MsgType
    <3>3. <<[term |-> 0, val |-> v]>> \in Seq(Entry)
      <4>1. [term |-> 0, val |-> v] \in Entry BY DEF Entry
      <4> QED BY <4>1
    <3>4. m \in Message
      <4> DEFINE es == <<[term |-> 0, val |-> v]>>
      <4>1. m = [Msg(n, "propose", n.leader_id) EXCEPT !.term = 0, !.entries = es]
        BY DEF ProposeMsg, n
      <4> HIDE DEF es, m
      <4>2. es \in Seq(Entry) BY <3>3 DEF es
      <4>3. m \in Message BY <3>2, <4>1, <4>2 DEF Message
      <4> QED BY <4>3 DEF m
    <3> HIDE DEF m
    <3>5. NodeOK(i, Send(n, m), b) BY <1>1, <1>2, <3>4, SendOK
    <3>6. Goal(Send(n, m)) BY <1>3, <1>4, <1>9, <2>3, <3>5 DEF Propose, m
    <3> QED BY <1>5, <3>6
  <2> QED BY <1>9, <2>2, <2>3 DEF Propose, n
<1>10. ASSUME NEW s \in Server, TransferLeader(i, s) PROVE TypeInv'
  <2>1. NodeOK(i, HandleTransferLeader(n, s), b) BY <1>1, <1>2, HandleTransferLeaderOK
  <2>2. CASE Become(i, HandleTransferLeader(n, s))
    <3>1. Goal(HandleTransferLeader(n, s)) BY <1>3, <1>4, <1>10, <2>1, <2>2 DEF TransferLeader
    <3> QED BY <1>5, <3>1
  <2>3. CASE /\ n.leader_id # None
             /\ Become(i, Send(n, [Msg(n, "transfer_leader", n.leader_id) EXCEPT !.from = s]))
    <3> DEFINE m == [Msg(n, "transfer_leader", n.leader_id) EXCEPT !.from = s]
    <3>1. n.leader_id \in Server BY <1>2, <2>3
    <3>2. Msg(n, "transfer_leader", n.leader_id) \in Message
      BY <1>2, <3>1, MsgIsMessage DEF MsgType
    <3>3. m \in Message BY <3>2 DEF Message
    <3> HIDE DEF m
    <3>4. NodeOK(i, Send(n, m), b) BY <1>1, <1>2, <3>3, SendOK
    <3>5. Goal(Send(n, m)) BY <1>3, <1>4, <1>10, <2>3, <3>4 DEF TransferLeader, m
    <3> QED BY <1>5, <3>5
  <2> QED BY <1>10, <2>2, <2>3 DEF TransferLeader, n
<1>11. ASSUME NEW s \in Server, Unreachable(i, s) PROVE TypeInv'
  <2> DEFINE pr == [n.prs[s] EXCEPT !.state = "probe", !.next_idx = n.prs[s].matched + 1,
                                    !.paused = FALSE, !.inflights = <<>>]
  <2>1. n.prs[s] \in Progress /\ n.prs[s].matched \in Nat BY <1>2 DEF Progress
  <2>2. pr \in Progress /\ SoundProgress(pr) BY <2>1, ProbeSound
  <2> HIDE DEF pr
  <2>3. NodeOK(i, [n EXCEPT !.prs[s] = pr], b) BY <1>1, <1>2, <2>2, OneProgressOK
  <2>4. Become(i, [n EXCEPT !.prs[s] = pr]) BY <1>11 DEF Unreachable, pr, n
  <2>5. Goal([n EXCEPT !.prs[s] = pr])
    BY <1>3, <1>4, <1>11, <2>3, <2>4 DEF Unreachable
  <2> QED BY <1>5, <2>5
<1> QED BY <1>6, <1>7, <1>8, <1>9, <1>10, <1>11

\* The end of a lease keeps the inductive invariant.
LEMMA LeaseExpiresStep ==
  ASSUME TypeInv, NEW i \in Server, LeaseExpires(i)
  PROVE  TypeInv'
<1> DEFINE n == [node[i] EXCEPT !.elapsed = TRUE]
<1>1. node \in [Server -> Node] /\ disk \in [Server -> Disk] BY DEF TypeInv, TypeOK
<1>2. NodeOK(i, node[i], disk[i].commit) BY DEF TypeInv
<1>3. NodeOK(i, n, disk[i].commit) BY <1>2 DEF NodeOK, Node
<1>4. node' = [node EXCEPT ![i] = n] /\ UNCHANGED <<disk, msgs, elected, decided, budget>>
  BY DEF LeaseExpires
<1> HIDE DEF n
<1>5. n \in Node BY <1>3 DEF NodeOK
<1>6. TypeOK' BY <1>1, <1>4, <1>5 DEF TypeOK, TypeInv
<1>7. RestartInRange' BY <1>4 DEF RestartInRange, TypeInv
<1>8. ASSUME NEW j \in Server PROVE NodeOK(j, node'[j], disk'[j].commit)
  <2>1. CASE j = i BY <1>1, <1>3, <1>4, <2>1
  <2>2. CASE j # i
    <3>1. node'[j] = node[j] /\ disk'[j] = disk[j] BY <1>1, <1>4, <2>2
    <3>2. NodeOK(j, node[j], disk[j].commit) BY DEF TypeInv
    <3> QED BY <3>1, <3>2
  <2> QED BY <2>1, <2>2
<1>9. (\A j \in Server : NodeOK(j, node[j], disk[j].commit))' BY <1>8
<1> QED BY <1>6, <1>7, <1>9 DEF TypeInv

\* Every delivery of a message of the network.
LEMMA ReceiveSteps ==
  ASSUME TypeInv, NEW m \in msgs, Receive(m)
  PROVE  TypeInv'
<1> DEFINE i == m.to
           n == node[i]
           b == disk[i].commit
           o == Observed(m)
<1>1. m \in Message BY DEF TypeInv, TypeOK
<1>2. i \in Server /\ m.from \in Server /\ m.entries \in Seq(Entry) BY <1>1 DEF Message
<1>3. NodeOK(i, n, b) /\ TypeOK BY <1>2 DEF TypeInv
<1>4. n \in Node /\ b \in Nat /\ n.leader_id \in Server \cup {None}
  BY <1>2, <1>3 DEF TypeOK, Disk, NodeOK, Node
<1> HIDE DEF n, b
<1>5. NodeOK(i, o, b) BY <1>1, <1>2, <1>3, <1>4, ObserveTermOK DEF Observed, n
<1> HIDE DEF i, o
<1>6. \A x : NodeOK(i, x, b) /\ Deliver(m, x) => TypeInv'
  <2> SUFFICES ASSUME NEW x, NodeOK(i, x, b), Deliver(m, x) PROVE TypeInv'
    OBVIOUS
  <2>1. Become(i, x) /\ UNCHANGED <<disk, msgs>> /\ budget' = budget BY DEF Deliver, i
  <2>2. budget' \in [Event -> Nat] BY <1>3, <2>1 DEF TypeOK
  <2> QED BY <1>2, <2>1, <2>2, StepKeepsTypeInv DEF b
<1>7. CASE ReceiveStale(m)
  <2> DEFINE x == [n EXCEPT !.messages = n.messages \cup StaleReply(n, m)]
  <2>1. StaleReply(n, m) \subseteq Message
    <3>1. Msg(n, "append_response", m.from) \in Message
      BY <1>2, <1>4, MsgIsMessage DEF MsgType
    <3>2. Msg(n, "request_pre_vote_response", m.from) \in Message
      BY <1>2, <1>4, MsgIsMessage DEF MsgType
    <3>3. [Msg(n, "request_pre_vote_response", m.from) EXCEPT !.reject = TRUE] \in Message
      BY <3>2 DEF Message
    <3> QED BY <3>1, <3>3 DEF StaleReply
  <2>2. NodeOK(i, x, b) BY <1>3, <2>1 DEF NodeOK, Node
  <2>3. Deliver(m, x) BY <1>7 DEF ReceiveStale, n, i
  <2> HIDE DEF x
  <2> QED BY <1>6, <2>2, <2>3
<1>8. CASE ReceiveVoteRequest(m)
  <2>1. NodeOK(i, HandleVoteRequest(o, m), b) BY <1>1, <1>2, <1>4, <1>5, HandleVoteRequestOK
  <2> QED BY <1>6, <1>8, <2>1 DEF ReceiveVoteRequest, o
<1>9. CASE ReceiveVoteResponse(m)
  <2>1. NodeOK(i, HandleVoteResponse(o, m), b) BY <1>1, <1>2, <1>4, <1>5, HandleVoteResponseOK
  <2> QED BY <1>6, <1>9, <2>1 DEF ReceiveVoteResponse, o
<1>10. CASE ReceiveAppend(m)
  <2>1. NodeOK(i, FollowLeader(o, m), b) BY <1>1, <1>2, <1>4, <1>5, FollowLeaderOK
  <2>2. NodeOK(i, HandleAppendEntries(FollowLeader(o, m), m), b)
    BY <1>1, <1>2, <1>4, <2>1, HandleAppendEntriesOK
  <2> QED BY <1>6, <1>10, <2>2 DEF ReceiveAppend, o
<1>11. CASE ReceiveHeartbeat(m)
  <2>1. NodeOK(i, FollowLeader(o, m), b) BY <1>1, <1>2, <1>4, <1>5, FollowLeaderOK
  <2>2. NodeOK(i, HandleHeartbeat(FollowLeader(o, m), m), b)
    BY <1>1, <1>2, <1>4, <2>1, HandleHeartbeatOK
  <2> QED BY <1>6, <1>11, <2>2 DEF ReceiveHeartbeat, o
<1>12. CASE ReceiveAppendResponse(m)
  <2>1. NodeOK(i, HandleAppendResponse(o, m), b)
    BY <1>1, <1>2, <1>4, <1>5, HandleAppendResponseOK
  <2> QED BY <1>5, <1>6, <1>12, <2>1 DEF ReceiveAppendResponse, o
<1>13. CASE ReceiveHeartbeatResponse(m)
  <2>1. NodeOK(i, HandleHeartbeatResponse(o, m), b)
    BY <1>1, <1>2, <1>4, <1>5, HandleHeartbeatResponseOK
  <2> QED BY <1>5, <1>6, <1>13, <2>1 DEF ReceiveHeartbeatResponse, o
<1>14. CASE ReceiveTimeoutNow(m)
  <2>1. NodeOK(i, Hup(o, TRUE), b) BY <1>2, <1>4, <1>5, HupOK
  <2> QED BY <1>5, <1>6, <1>14, <2>1 DEF ReceiveTimeoutNow, o
<1>15. CASE ReceiveTransferLeader(m)
  <2>1. NodeOK(i, HandleTransferLeader(o, m.from), b)
    BY <1>2, <1>4, <1>5, HandleTransferLeaderOK
  <2> QED BY <1>5, <1>6, <1>15, <2>1 DEF ReceiveTransferLeader, o
<1>16. CASE ReceivePropose(m)
  <2>1. budget' \in [Event -> Nat] BY <1>3, <1>16, SpendOK DEF ReceivePropose, Event
  <2>2. UNCHANGED <<disk, msgs>> BY <1>16 DEF ReceivePropose
  <2>3. \A x : NodeOK(i, x, b) /\ Become(i, x) => TypeInv'
    BY <1>2, <2>1, <2>2, StepKeepsTypeInv DEF b
  <2>4. CASE Become(i, HandlePropose(n, m.entries[1].val))
    <3>1. m.entries # <<>> BY <1>16 DEF ReceivePropose
    <3>2. 1 \in 1..Len(m.entries) BY <1>2, <3>1, LenProperties, EmptySeq
    <3>3. m.entries[1] \in Entry BY <1>2, <3>2, ElementOfSeq
    <3>4. m.entries[1].val \in Value \cup {Noop} BY <3>3 DEF Entry
    <3>5. NodeOK(i, HandlePropose(n, m.entries[1].val), b)
      BY <1>2, <1>3, <1>4, <3>4, HandleProposeOK
    <3> QED BY <2>3, <2>4, <3>5
  <2>5. CASE n.leader_id # None /\ Become(i, Send(n, [m EXCEPT !.to = n.leader_id]))
    <3> DEFINE f == [m EXCEPT !.to = n.leader_id]
    <3>1. f \in Message BY <1>1, <1>4, <2>5 DEF Message
    <3> HIDE DEF f
    <3>2. NodeOK(i, Send(n, f), b) BY <1>2, <1>3, <1>4, <3>1, SendOK
    <3> QED BY <2>3, <2>5, <3>2 DEF f
  <2> QED BY <1>16, <2>4, <2>5 DEF ReceivePropose, n, i
<1> QED
  BY <1>7, <1>8, <1>9, <1>10, <1>11, <1>12, <1>13, <1>14, <1>15, <1>16 DEF Receive

\* The network only ever holds well-formed messages.
LEMMA TransmitOK ==
  ASSUME TypeOK, NEW new \in SUBSET Message, Transmit(new)
  PROVE  msgs' \subseteq Message
BY DEF Transmit, TypeOK

\* A Ready leaves a durable commit index within the durable log.
LEMMA ReadyStep ==
  ASSUME TypeInv, NEW i \in Server, Ready(i)
  PROVE  TypeInv'
<1> DEFINE n == node[i]
           q == [n EXCEPT !.messages = {}]
           p == OnPersistEntries(q)
           x == [p EXCEPT !.messages = {}]
<1>1. NodeOK(i, n, disk[i].commit) /\ TypeOK /\ disk[i] \in Disk BY DEF TypeInv, TypeOK
<1>2. disk[i].commit \in Nat /\ n \in Node BY <1>1 DEF Disk, NodeOK
<1>3. NodeOK(i, q, disk[i].commit) /\ q.log = n.log /\ q.committed = n.committed
  BY <1>1 DEF NodeOK, Node
<1> HIDE DEF q
<1>4. NodeOK(i, p, p.committed) /\ p.log = n.log /\ n.committed <= p.committed
  BY <1>2, <1>3, OnPersistEntriesOK
<1>5. PICK c \in IF p.committed > n.committed THEN {p.committed}
                 ELSE IF MustSync(n, disk[i]) THEN {n.committed}
                 ELSE {n.committed, disk[i].commit} :
        disk' = [disk EXCEPT ![i] = HardState(n, disk[i], c)]
  BY DEF Ready, n, p, q
<1>6. Transmit(n.messages \cup p.messages) /\ Become(i, x) /\ UNCHANGED budget
  BY DEF Ready, n, p, q, x
<1> HIDE DEF p, n
<1>7. /\ p.committed \in Nat /\ n.committed \in Nat /\ disk[i].commit <= n.committed
      /\ p \in Node
  BY <1>1, <1>2, <1>4 DEF NodeOK, Node
<1>8. c \in Nat /\ c <= p.committed BY <1>2, <1>4, <1>5, <1>7
<1> DEFINE d == HardState(n, disk[i], c)
<1>9. d \in Disk /\ d.commit = c /\ d.log = n.log
  BY <1>1, <1>2, <1>8 DEF HardState, Disk, Node
<1>10. NodeOK(i, x, c)
  <2>1. x \in Node BY <1>7 DEF Node
  <2>2. /\ x.log = p.log /\ x.id = p.id /\ x.prs = p.prs
        /\ x.committed = p.committed /\ x.persisted = p.persisted
    BY <1>7 DEF Node
  <2>3. p.persisted \in Nat /\ p.committed <= p.persisted BY <1>4, <1>7 DEF NodeOK, Node
  <2> HIDE DEF x
  <2> QED BY <1>4, <1>7, <1>8, <2>1, <2>2, <2>3 DEF NodeOK
<1>11. Len(n.log) \in Nat /\ c <= Len(n.log)
  BY <1>2, <1>4, <1>7, <1>8, LenProperties DEF NodeOK, Node
<1>12. msgs' \subseteq Message
  <2>1. n.messages \cup p.messages \in SUBSET Message BY <1>2, <1>7 DEF Node
  <2> QED BY <1>1, <1>6, <2>1, TransmitOK
<1>13. budget' \in [Event -> Nat] BY <1>1, <1>6 DEF TypeOK
<1> HIDE DEF d, x
<1>14. disk' = [disk EXCEPT ![i] = d] BY <1>5 DEF d
<1>15. NodeOK(i, x, d.commit) /\ d.commit <= Len(d.log) BY <1>9, <1>10, <1>11
<1>16. Become(i, x) BY <1>6
<1> QED BY <1>9, <1>12, <1>13, <1>14, <1>15, <1>16, BecomeKeepsTypeInv

\* A crash at any point of the Ready cycle leaves a loadable disk.
LEMMA CrashSteps ==
  ASSUME TypeInv, NEW i \in Server,
         \/ Crash(i)
         \/ \E k \in 0..LastIndex(node[i].log) : CrashInAppend(i, k)
         \/ CrashBeforeAdvance(i)
  PROVE  TypeInv'
<1> DEFINE n == node[i]
<1>1. /\ NodeOK(i, n, disk[i].commit) /\ TypeOK /\ disk[i] \in Disk
      /\ disk[i].commit <= Len(disk[i].log) /\ msgs \subseteq Message
  BY DEF TypeInv, TypeOK, RestartInRange
<1>2. /\ disk[i].commit \in Nat /\ n \in Node /\ n.log \in Seq(Entry)
      /\ n.persisted \in Nat /\ n.committed \in Nat
  BY <1>1 DEF Disk, NodeOK, Node
<1>3. CASE Crash(i)
  BY <1>1, <1>3, RestartKeepsTypeInv DEF Crash
<1>4. ASSUME NEW k \in 0..LastIndex(node[i].log), CrashInAppend(i, k) PROVE TypeInv'
  <2> DEFINE log2 == SubSeq(n.log, 1, k)
             d == [disk[i] EXCEPT !.log = log2]
  <2>1. Len(n.log) \in Nat BY <1>2, LenProperties
  <2>2. k \in Nat /\ k <= Len(n.log) BY <2>1 DEF LastIndex
  <2>3. log2 \in Seq(Entry) /\ Len(log2) = k BY <1>2, <2>2, PrefixOK
  <2>4. disk[i].commit <= k
    BY <1>1, <1>2, <1>4, <2>2 DEF CrashInAppend, NodeOK
  <2> HIDE DEF log2
  <2>5. d \in Disk /\ d.commit = disk[i].commit /\ d.log = log2 BY <1>1, <2>3 DEF Disk
  <2>6. RestartFrom(i, d) /\ UNCHANGED msgs BY <1>4 DEF CrashInAppend, log2
  <2> HIDE DEF d
  <2> QED BY <1>1, <2>3, <2>4, <2>5, <2>6, RestartKeepsTypeInv
<1>5. CASE CrashBeforeAdvance(i)
  <2> DEFINE d == HardState(n, disk[i], n.committed)
  <2>1. d \in Disk /\ d.commit = n.committed /\ d.log = n.log
    BY <1>1, <1>2 DEF HardState, Disk, Node
  <2>2. n.committed <= Len(n.log) BY <1>1 DEF NodeOK
  <2>3. RestartFrom(i, d) /\ Transmit(n.messages) BY <1>5 DEF CrashBeforeAdvance
  <2>4. n.messages \in SUBSET Message BY <1>2 DEF Node
  <2>5. msgs' \subseteq Message BY <1>1, <2>3, <2>4, TransmitOK
  <2> HIDE DEF d
  <2> QED BY <2>1, <2>2, <2>3, <2>5, RestartKeepsTypeInv
<1> QED BY <1>3, <1>4, <1>5

(***************************************************************************)
(* Every step keeps the inductive invariant.                               *)
(***************************************************************************)
THEOREM TypeInvInductive == Spec => []TypeInv
<1>1. TypeInv /\ [Next]_vars => TypeInv'
  <2> SUFFICES ASSUME TypeInv, [Next]_vars PROVE TypeInv' OBVIOUS
  <2>1. ASSUME NEW i \in Server, LeaseExpires(i) PROVE TypeInv'
    BY <2>1, LeaseExpiresStep
  <2>2. ASSUME NEW i \in Server, Ready(i) PROVE TypeInv'
    BY <2>2, ReadyStep
  <2>3. ASSUME NEW m \in msgs, Receive(m) PROVE TypeInv'
    BY <2>3, ReceiveSteps
  <2>4. CASE UNCHANGED vars
    BY <2>4 DEF vars, TypeInv, TypeOK, RestartInRange
  <2> QED BY <2>1, <2>2, <2>3, <2>4, LocalSteps, CrashSteps DEF Next
<1> QED BY <1>1, TypeInvInit, PTL DEF Spec

\* The type invariant of the consensus core, for any number of servers, any
\* (joint) configuration, window, batch size and number of faults.
THEOREM RaftTypeOK == Spec => []TypeOK
<1>1. TypeInv => TypeOK BY DEF TypeInv
<1> QED BY <1>1, TypeInvInductive, PTL

\* A crash at any point of the Ready cycle leaves a commit index within the
\* durable log, so loadState never panics on restart.
THEOREM RestartAlwaysInRange == Spec => []RestartInRange
<1>1. TypeInv => RestartInRange BY DEF TypeInv
<1> QED BY <1>1, TypeInvInductive, PTL

-----------------------------------------------------------------------------
IsGrant(m) == m.type = "request_vote_response" /\ ~ m.reject
IsBallot(m) == m.type = "request_vote" \/ IsGrant(m)

\* The same for pre-votes, and a message of either kind.
IsPreGrant(m) == m.type = "request_pre_vote_response" /\ ~ m.reject
IsVoting(m) == IsBallot(m) \/ m.type = "request_pre_vote" \/ IsPreGrant(m)

\* Whom a ballot is for.
Choice(m) == IF m.type = "request_vote" THEN m.from ELSE m.to

HasRequest(c, t, M) == \E r \in M : r.type = "request_vote" /\ r.from = c /\ r.term = t
HasGrant(s, c, t, M) ==
  \E g \in M : IsGrant(g) /\ g.from = s /\ g.to = c /\ g.term = t

\* The ballots of i in M agree with its term t and vote v.
Bound(i, t, v, M) ==
  \A m \in M : (IsBallot(m) /\ m.from = i) => m.term < t \/ (m.term = t /\ Choice(m) = v)

OneChoice(i, M) ==
  \A a, c \in M : (IsBallot(a) /\ IsBallot(c) /\ a.from = i /\ c.from = i /\ a.term = c.term)
                    => Choice(a) = Choice(c)

\* Who cast a ballot for i in term t, and whether that elects i.
Backers(i, t, M) ==
  {s \in Server : \E m \in M : IsBallot(m) /\ m.from = s /\ Choice(m) = i /\ m.term = t}
WonBy(i, t, M) == IsQuorum(Incoming, Outgoing, Backers(i, t, M))

(***************************************************************************)
(* What holds of the votes of node i with state n while the network holds  *)
(* M: its unsent ballots are its own, all its ballots agree with its term  *)
(* and vote and with each other, it granted only what was asked, a         *)
(* candidate counts only granted votes, and a leader has won.              *)
(***************************************************************************)
NodeVotes(i, n, M) ==
  /\ \A m \in n.messages : IsBallot(m) => m.from = i
  /\ Bound(i, n.term, n.vote, M \cup n.messages)
  /\ OneChoice(i, M \cup n.messages)
  /\ \A m \in n.messages : IsGrant(m) => HasRequest(m.to, m.term, M)
  /\ n.state = "candidate" =>
       \A s \in Server : n.votes[s] = "yes" => s = i \/ HasGrant(s, i, n.term, M)
  /\ n.state = "leader" => WonBy(i, n.term, M)

\* A change that casts no vote, one that does not concern votes or pre-votes
\* at all, and one that only leaves a role.
Abstains(n, n2) ==
  /\ n2.term = n.term /\ n2.vote = n.vote /\ n2.state = n.state /\ n2.votes = n.votes
  /\ \A m \in n2.messages : IsBallot(m) => m \in n.messages

Quiet(n, n2) ==
  /\ n2.term = n.term /\ n2.vote = n.vote /\ n2.state = n.state /\ n2.votes = n.votes
  /\ \A m \in n2.messages : IsVoting(m) => m \in n.messages

StepDown(n, n2) ==
  /\ n2.term >= n.term
  /\ n2.vote = IF n2.term = n.term THEN n.vote ELSE None
  /\ n2.state \notin {"candidate", "leader"}
  /\ n2.messages = n.messages

\* What casts no vote keeps the votes in order.
LEMMA AbstainingKeepsVotes ==
  ASSUME NEW i, NEW n, NEW n2, NEW M, NodeVotes(i, n, M), Abstains(n, n2)
  PROVE  NodeVotes(i, n2, M)
<1> DEFINE T == M \cup n.messages
           T2 == M \cup n2.messages
<1>1. \A m \in T2 : IsBallot(m) => m \in T BY DEF Abstains
<1>2. \A m : IsGrant(m) => IsBallot(m) BY DEF IsBallot
<1>3. n2.term = n.term /\ n2.vote = n.vote /\ n2.state = n.state /\ n2.votes = n.votes
  BY DEF Abstains
<1>4. \A m \in n2.messages : IsBallot(m) => m \in n.messages BY DEF Abstains
<1>5. Bound(i, n.term, n.vote, T) /\ OneChoice(i, T) BY DEF NodeVotes
<1> HIDE DEF T, T2
<1>6. Bound(i, n.term, n.vote, T2) BY <1>1, <1>5 DEF Bound
<1>7. OneChoice(i, T2) BY <1>1, <1>5 DEF OneChoice
<1>8. \A m \in n2.messages : IsBallot(m) => m.from = i BY <1>4 DEF NodeVotes
<1>9. \A m \in n2.messages : IsGrant(m) => HasRequest(m.to, m.term, M)
  BY <1>2, <1>4 DEF NodeVotes
<1> QED BY <1>3, <1>6, <1>7, <1>8, <1>9 DEF NodeVotes, T2

\* So does what does not concern votes.
LEMMA QuietKeepsVotes ==
  ASSUME NEW i, NEW n, NEW n2, NEW M, NodeVotes(i, n, M), Quiet(n, n2)
  PROVE  NodeVotes(i, n2, M)
<1>1. Abstains(n, n2) BY DEF Quiet, Abstains, IsVoting
<1> QED BY <1>1, AbstainingKeepsVotes

\* Two quiet changes make one.
LEMMA QuietTransitive ==
  ASSUME NEW n, NEW n2, NEW n3, Quiet(n, n2), Quiet(n2, n3)
  PROVE  Quiet(n, n3)
BY DEF Quiet

\* Leaving a role, possibly for a higher term, keeps the votes in order.
LEMMA StepDownKeepsVotes ==
  ASSUME NEW i \in Server, NEW n \in Node, NEW n2 \in Node, NEW M \in SUBSET Message,
         NodeVotes(i, n, M), StepDown(n, n2)
  PROVE  NodeVotes(i, n2, M)
<1>1. \A m \in M \cup n.messages : m.term \in Nat BY DEF Message, Node
<1>2. n.term \in Nat /\ n2.term \in Nat BY DEF Node
<1>3. Bound(i, n2.term, n2.vote, M \cup n2.messages)
  BY <1>1, <1>2 DEF NodeVotes, StepDown, Bound
<1> QED BY <1>3 DEF NodeVotes, StepDown

-----------------------------------------------------------------------------
\* The handlers that do not concern votes.
LEMMA SendQuiet ==
  ASSUME NEW n \in Node, NEW m, ~ IsVoting(m)
  PROVE  Quiet(n, Send(n, m))
BY DEF Quiet, Send, Node

\* An append is no ballot.
LEMMA AppendMsgNoBallot ==
  ASSUME NEW n \in Node, NEW to, NEW k
  PROVE  ~ IsVoting(AppendMsg(n, to, k))
BY DEF IsVoting, IsBallot, IsGrant, IsPreGrant, AppendMsg, Msg

\* None of the appends of a send is a ballot.
LEMMA AppendsNoBallot ==
  ASSUME NEW n \in Node, NEW to, NEW c
  PROVE  /\ \A m \in AppendMsgs(n, to, c) : ~ IsVoting(m)
         /\ \A m \in AppendsTo(n, to) : ~ IsVoting(m)
BY AppendMsgNoBallot DEF AppendMsgs, AppendsTo

\* SendAppend does not concern votes.
LEMMA SendAppendQuiet ==
  ASSUME NEW n \in Node, NEW to \in Server
  PROVE  Quiet(n, SendAppend(n, to))
<1> DEFINE new == AppendsTo(n, to)
<1>1. \A m \in new : ~ IsVoting(m) BY AppendsNoBallot
<1> HIDE DEF new
<1>2. SendAppend(n, to).messages = n.messages \cup new BY DEF SendAppend, Node, new
<1>3. /\ SendAppend(n, to).term = n.term /\ SendAppend(n, to).vote = n.vote
      /\ SendAppend(n, to).state = n.state /\ SendAppend(n, to).votes = n.votes
  BY DEF SendAppend, Node
<1> QED BY <1>1, <1>2, <1>3 DEF Quiet

\* SendAppendAggressively does not concern votes.
LEMMA SendAppendAggressivelyQuiet ==
  ASSUME NEW n \in Node, NEW to \in Server
  PROVE  Quiet(n, SendAppendAggressively(n, to))
<1> DEFINE new == AppendMsgs(n, to, SendCount(n, n.prs[to], MaxInflight))
           n2 == SendAppendAggressively(n, to)
<1>1. \A m \in new : ~ IsVoting(m) BY AppendsNoBallot
<1> HIDE DEF new
<1>2. n2.messages = n.messages \cup new BY DEF SendAppendAggressively, Node, new
<1>3. n2.term = n.term /\ n2.vote = n.vote /\ n2.state = n.state /\ n2.votes = n.votes
  BY DEF SendAppendAggressively, Node
<1> QED BY <1>1, <1>2, <1>3 DEF Quiet

\* BroadcastAppend does not concern votes.
LEMMA BroadcastAppendQuiet ==
  ASSUME NEW n \in Node
  PROVE  Quiet(n, BroadcastAppend(n))
<1> DEFINE new == UNION {AppendsTo(n, s) : s \in Peers(n)}
           n2 == BroadcastAppend(n)
<1>1. \A m \in new : ~ IsVoting(m) BY AppendsNoBallot
<1> HIDE DEF new
<1>2. n2.messages = n.messages \cup new BY DEF BroadcastAppend, Node, new
<1>3. n2.term = n.term /\ n2.vote = n.vote /\ n2.state = n.state /\ n2.votes = n.votes
  BY DEF BroadcastAppend, Node
<1> QED BY <1>1, <1>2, <1>3 DEF Quiet

\* Committing does not concern votes.
LEMMA CommitQuiet ==
  ASSUME NEW n \in Node, NEW k, NEW t, NEW m
  PROVE  /\ Quiet(n, MaybeCommit(n))
         /\ Quiet(n, LogMaybeCommit(n, k, t))
         /\ Quiet(n, CommitTo(n, k))
         /\ Quiet(n, MaybeCommitByVote(n, m))
<1>1. Quiet(n, n) BY DEF Quiet
<1>2. \A x : Quiet(n, [n EXCEPT !.committed = x]) BY DEF Quiet, Node
<1>3. \A j, u : Quiet(n, LogMaybeCommit(n, j, u)) BY <1>1, <1>2 DEF LogMaybeCommit
<1>4. Quiet(n, MaybeCommit(n)) BY <1>1, <1>2 DEF MaybeCommit
<1>5. Quiet(n, CommitTo(n, k)) BY <1>1, <1>2 DEF CommitTo
<1> QED BY <1>1, <1>3, <1>4, <1>5 DEF MaybeCommitByVote

\* AppendEntry does not concern votes.
LEMMA AppendEntryQuiet ==
  ASSUME NEW n \in Node, NEW val
  PROVE  Quiet(n, AppendEntry(n, val))
BY DEF AppendEntry, Quiet, Node

\* LogAppend does not concern votes.
LEMMA LogAppendQuiet ==
  ASSUME NEW n \in Node, NEW m
  PROVE  Quiet(n, LogAppend(n, m))
<1>1. \A x, y : Quiet(n, [n EXCEPT !.log = x, !.persisted = y]) BY DEF Quiet, Node
<1>2. Quiet(n, n) BY DEF Quiet
<1> QED BY <1>1, <1>2 DEF LogAppend

\* HandleAppendEntries does not concern votes.
LEMMA HandleAppendEntriesQuiet ==
  ASSUME NEW i \in Server, NEW b \in Nat, NEW n, NodeOK(i, n, b), NEW m \in Message
  PROVE  Quiet(n, HandleAppendEntries(n, m))
<1> DEFINE resp == Msg(n, "append_response", m.from)
           n2   == HandleAppendEntries(n, m)
           k    == MinOf(m.commit, m.index + Len(m.entries))
           l    == LogAppend(n, m)
<1>1. \A x, y, z, w : ~ IsVoting([resp EXCEPT !.index = x, !.reject = y, !.reject_hint = z,
                                              !.log_term = w])
  BY DEF IsVoting, IsBallot, IsGrant, IsPreGrant, Msg
<1>2. \A x : ~ IsVoting([resp EXCEPT !.index = x])
  BY DEF IsVoting, IsBallot, IsGrant, IsPreGrant, Msg
<1>3. n \in Node /\ Quiet(n, n) BY DEF NodeOK, Quiet
<1>4. CASE m.index < n.committed \/ AppendIsFatal(n, m) \/ ~ MatchTerm(n.log, m.index, m.log_term)
  <2> DEFINE hint == FindConflictByTerm(n.log, MinOf(m.index, LastIndex(n.log)), m.log_term)
             no   == [resp EXCEPT !.index = m.index, !.reject = TRUE, !.reject_hint = hint,
                                  !.log_term = TermAt(n.log, hint)]
             old  == [resp EXCEPT !.index = n.committed]
  <2>1. n2 = n \/ n2 = Send(n, old) \/ n2 = Send(n, no)
    BY <1>4 DEF HandleAppendEntries
  <2>2. ~ IsVoting(no) /\ ~ IsVoting(old) BY <1>1, <1>2
  <2> HIDE DEF n2, no, old, resp
  <2> QED BY <2>1, <2>2, <1>3, SendQuiet DEF n2
<1>5. CASE ~ (m.index < n.committed \/ AppendIsFatal(n, m) \/ ~ MatchTerm(n.log, m.index, m.log_term))
  <2>1. n.committed <= m.index BY <1>3, <1>5 DEF Node, Message
  <2>2. NodeOK(i, l, b) BY <1>5, <2>1, LogAppendOK
  <2>3. k \in Nat
    <3>1. m.commit \in Nat /\ m.index \in Nat /\ Len(m.entries) \in Nat
      BY LenProperties DEF Message
    <3>2. m.index + Len(m.entries) \in Nat BY <3>1
    <3> QED BY <3>1, <3>2, MinMax
  <2>4. NodeOK(i, CommitTo(l, k), b) BY <2>2, <2>3, CommitToOK
  <2>5. Quiet(n, l) /\ Quiet(l, CommitTo(l, k))
    BY <1>3, <2>2, LogAppendQuiet, CommitQuiet DEF NodeOK
  <2>6. PICK c : ~ IsVoting(c) /\ n2 = Send(CommitTo(l, k), c)
    BY <1>2, <1>5 DEF HandleAppendEntries
  <2> HIDE DEF n2, l, k
  <2>7. Quiet(CommitTo(l, k), n2) BY <2>4, <2>6, SendQuiet DEF NodeOK
  <2> QED BY <2>5, <2>7, QuietTransitive DEF n2
<1> QED BY <1>4, <1>5

\* Progress does not concern votes.
LEMMA ProgressQuiet ==
  ASSUME NEW n \in Node, NEW x
  PROVE  Quiet(n, [n EXCEPT !.prs = x])
BY DEF Quiet, Node

\* HandleHeartbeat does not concern votes.
LEMMA HandleHeartbeatQuiet ==
  ASSUME NEW i \in Server, NEW b \in Nat, NEW n, NodeOK(i, n, b), NEW m \in Message
  PROVE  Quiet(n, HandleHeartbeat(n, m))
<1> DEFINE c == CommitTo(n, m.commit)
           r == Msg(n, "heartbeat_response", m.from)
<1>1. NodeOK(i, c, b) BY CommitToOK DEF Message
<1>2. Quiet(n, c) BY CommitQuiet DEF NodeOK
<1>3. ~ IsVoting(r) BY DEF IsVoting, IsBallot, IsGrant, IsPreGrant, Msg
<1>4. HandleHeartbeat(n, m) = Send(c, r) BY DEF HandleHeartbeat
<1> HIDE DEF c, r
<1>5. Quiet(c, Send(c, r)) BY <1>1, <1>3, SendQuiet DEF NodeOK
<1> QED BY <1>2, <1>4, <1>5, QuietTransitive

\* SendTimeoutNow does not concern votes.
LEMMA SendTimeoutNowQuiet ==
  ASSUME NEW n \in Node, NEW to
  PROVE  Quiet(n, SendTimeoutNow(n, to))
<1>1. ~ IsVoting(Msg(n, "timeout_now", to))
  BY DEF IsVoting, IsBallot, IsGrant, IsPreGrant, Msg
<1> QED BY <1>1, SendQuiet DEF SendTimeoutNow

\* HandleTransferLeader does not concern votes.
LEMMA HandleTransferLeaderQuiet ==
  ASSUME NEW i \in Server, NEW b \in Nat, NEW n, NodeOK(i, n, b), NEW to \in Server
  PROVE  Quiet(n, HandleTransferLeader(n, to))
<1> DEFINE t == [n EXCEPT !.elapsed = FALSE, !.lead_transferee = to]
<1>1. n \in Node BY DEF NodeOK
<1>2. t \in Node /\ Quiet(n, t) /\ Quiet(n, n) /\ Quiet(n, [n EXCEPT !.lead_transferee = None])
  BY <1>1 DEF Node, Quiet
<1>3. Quiet(t, SendTimeoutNow(t, to)) /\ Quiet(t, SendAppend(t, to))
  BY <1>2, SendTimeoutNowQuiet, SendAppendQuiet
<1>4. Quiet(n, SendTimeoutNow(t, to)) /\ Quiet(n, SendAppend(t, to))
  <2> HIDE DEF t
  <2> QED BY <1>2, <1>3, QuietTransitive
<1> QED BY <1>2, <1>4 DEF HandleTransferLeader

\* HandlePropose does not concern votes.
LEMMA HandleProposeQuiet ==
  ASSUME NEW i \in Server, NEW b \in Nat, NEW n, NodeOK(i, n, b),
         NEW val \in Value \cup {Noop}
  PROVE  Quiet(n, HandlePropose(n, val))
<1> DEFINE a == AppendEntry(n, val)
<1>1. n \in Node /\ a \in Node /\ Quiet(n, n) BY AppendEntryOK DEF NodeOK, Quiet
<1>2. Quiet(n, a) /\ Quiet(a, BroadcastAppend(a))
  BY <1>1, AppendEntryQuiet, BroadcastAppendQuiet
<1>3. Quiet(n, BroadcastAppend(a)) BY <1>2, QuietTransitive
<1> QED BY <1>1, <1>3 DEF HandlePropose

\* BroadcastHeartbeat does not concern votes.
LEMMA BroadcastHeartbeatQuiet ==
  ASSUME NEW n \in Node
  PROVE  Quiet(n, BroadcastHeartbeat(n))
<1> DEFINE beat(s) == [Msg(n, "heartbeat", s) EXCEPT
                         !.commit = MinOf(n.prs[s].matched, n.committed)]
           new == {beat(s) : s \in Peers(n)}
           n2 == BroadcastHeartbeat(n)
<1>1. \A s : ~ IsVoting(beat(s)) BY DEF IsVoting, IsBallot, IsGrant, IsPreGrant, Msg
<1>2. \A m \in new : ~ IsVoting(m) BY <1>1
<1> HIDE DEF new
<1>3. n2.messages = n.messages \cup new BY DEF BroadcastHeartbeat, Node, new
<1>4. n2.term = n.term /\ n2.vote = n.vote /\ n2.state = n.state /\ n2.votes = n.votes
  BY DEF BroadcastHeartbeat, Node
<1> QED BY <1>2, <1>3, <1>4 DEF Quiet

\* HandleAppendResponse does not concern votes.
LEMMA HandleAppendResponseQuiet ==
  ASSUME NEW i \in Server, NEW b \in Nat, NEW n, NodeOK(i, n, b), NEW m \in Message
  PROVE  Quiet(n, HandleAppendResponse(n, m))
<1> DEFINE hint  == IF m.reject /\ m.log_term > 0
                      THEN FindConflictByTerm(n.log, m.reject_hint, m.log_term)
                      ELSE m.reject_hint
           h     == [n.prs[m.from] EXCEPT !.recent_active = TRUE]
           heard == [n EXCEPT !.prs[m.from].recent_active = TRUE]
           pr    == heard.prs[m.from]
           ackpr == AckTo(pr, m.index)
           acked == [heard EXCEPT !.prs[m.from] = ackpr]
           decpr == DecTo(pr, m, hint)
           dec   == [heard EXCEPT !.prs[m.from] = decpr]
           sent  == IF MayCommit(acked) THEN BroadcastAppend(MaybeCommit(acked))
                    ELSE IF IsPaused(pr) THEN SendAppend(acked, m.from)
                    ELSE acked
           final == SendAppendAggressively(sent, m.from)
<1>1. /\ n \in Node /\ n.log \in Seq(Entry) /\ m.from \in Server /\ m.index \in Nat
      /\ m.log_term \in Nat /\ m.reject_hint \in Nat
  BY DEF NodeOK, Node, Message
<1>2. hint \in Nat BY <1>1, FindConflictByTermNat
<1>3. h \in Progress /\ SoundProgress(h)
  <2>1. n.prs[m.from] \in Progress /\ SoundProgress(n.prs[m.from])
    BY <1>1 DEF NodeOK, Node
  <2> QED BY <2>1, HeardSound
<1>a. heard = [n EXCEPT !.prs[m.from] = h] OBVIOUS
<1> HIDE DEF h, hint, heard
<1>4. NodeOK(i, heard, b) BY <1>1, <1>3, <1>a, OneProgressOK
<1>5. Quiet(n, heard) BY <1>1, <1>a DEF Quiet, Node
<1>6. pr \in Progress /\ SoundProgress(pr) /\ heard \in Node
  BY <1>1, <1>4 DEF NodeOK, Node
<1> HIDE DEF pr
<1>7. /\ ackpr \in Progress /\ SoundProgress(ackpr)
      /\ decpr \in Progress /\ SoundProgress(decpr)
  BY <1>1, <1>2, <1>6, AckToOK, DecToOK
<1> HIDE DEF ackpr, decpr
<1>8. NodeOK(i, acked, b) /\ NodeOK(i, dec, b) BY <1>1, <1>4, <1>7, OneProgressOK
<1>9. Quiet(heard, acked) /\ Quiet(heard, dec) BY <1>6 DEF Quiet, Node
<1> HIDE DEF acked, dec
<1>10. Quiet(n, acked) /\ Quiet(n, dec) BY <1>5, <1>9, QuietTransitive
<1> DEFINE c == MaybeCommit(acked)
<1>11. NodeOK(i, c, b) /\ Quiet(n, c)
  BY <1>8, <1>10, MaybeCommitOK, CommitQuiet, QuietTransitive DEF NodeOK
<1> HIDE DEF c
<1>12. Quiet(n, BroadcastAppend(c))
  BY <1>11, BroadcastAppendQuiet, QuietTransitive DEF NodeOK
<1>13. Quiet(n, SendAppend(acked, m.from)) /\ Quiet(n, SendAppend(dec, m.from))
  BY <1>1, <1>8, <1>10, SendAppendQuiet, QuietTransitive DEF NodeOK
<1>14. NodeOK(i, sent, b)
  BY <1>1, <1>8, <1>11, BroadcastAppendOK, SendAppendOK DEF c
<1>15. Quiet(n, sent) BY <1>10, <1>12, <1>13 DEF c
<1> HIDE DEF sent
<1>16. NodeOK(i, final, b) BY <1>1, <1>14, SendAppendAggressivelyOK
<1>17. Quiet(n, final)
  BY <1>1, <1>14, <1>15, SendAppendAggressivelyQuiet, QuietTransitive DEF NodeOK
<1> HIDE DEF final
<1>18. Quiet(n, SendTimeoutNow(final, m.from))
  BY <1>16, <1>17, SendTimeoutNowQuiet, QuietTransitive DEF NodeOK
<1>19. HandleAppendResponse(n, m) \in
         {heard, SendAppend(dec, m.from), acked, SendTimeoutNow(final, m.from), final}
  BY DEF HandleAppendResponse, hint, heard, pr, ackpr, acked, decpr, dec, sent, final
<1> QED BY <1>5, <1>10, <1>13, <1>17, <1>18, <1>19

\* HandleHeartbeatResponse does not concern votes.
LEMMA HandleHeartbeatResponseQuiet ==
  ASSUME NEW i \in Server, NEW b \in Nat, NEW n, NodeOK(i, n, b), NEW m \in Message
  PROVE  Quiet(n, HandleHeartbeatResponse(n, m))
<1> DEFINE pr == n.prs[m.from]
           p2 == [pr EXCEPT !.recent_active = TRUE, !.paused = FALSE,
                            !.inflights = IF pr.state = "replicate" /\ IsPaused(pr)
                                            THEN FreeTo(@, Head(@)) ELSE @]
           h  == [n EXCEPT !.prs[m.from] = p2]
<1>1. m.from \in Server /\ n \in Node BY DEF Message, NodeOK
<1> HIDE DEF p2
<1>2. Quiet(n, h) BY <1>1 DEF Quiet, Node
<1>3. h.messages = n.messages /\ h.term = n.term /\ h.vote = n.vote
  BY <1>1 DEF Node
<1>4. "messages" \in DOMAIN h /\ "term" \in DOMAIN h /\ "vote" \in DOMAIN h
      /\ "state" \in DOMAIN h /\ "votes" \in DOMAIN h
  BY <1>1 DEF Node
<1>5. HandleHeartbeatResponse(n, m) \in {h, SendAppend(h, m.from)}
  BY DEF HandleHeartbeatResponse, p2
<1> HIDE DEF h
<1>6. Quiet(h, SendAppend(h, m.from))
  <2> DEFINE new == AppendsTo(h, m.from)
             s   == SendAppend(h, m.from)
  <2>1. \A x \in new : ~ IsVoting(x)
    BY DEF AppendsTo, AppendMsgs, AppendMsg, Msg, IsVoting, IsBallot, IsGrant, IsPreGrant
  <2> HIDE DEF new
  <2>2. s.messages = h.messages \cup new BY <1>4 DEF SendAppend, new
  <2>3. s.term = h.term /\ s.vote = h.vote /\ s.state = h.state /\ s.votes = h.votes
    BY <1>4 DEF SendAppend
  <2> QED BY <2>1, <2>2, <2>3 DEF Quiet
<1> QED BY <1>2, <1>5, <1>6, QuietTransitive

\* OnPersistEntries does not concern votes.
LEMMA OnPersistEntriesQuiet ==
  ASSUME NEW i \in Server, NEW b \in Nat, NEW n, NodeOK(i, n, b)
  PROVE  Quiet(n, OnPersistEntries(n))
<1> DEFINE last == LastIndex(n.log)
           p == [n EXCEPT !.persisted = last]
           own == [n.prs[n.id] EXCEPT !.matched = last, !.next_idx = MaxOf(@, last + 1)]
           a == [p EXCEPT !.prs[n.id] = own]
           o == OnPersistEntries(n)
<1>1. /\ n \in Node /\ n.id = i /\ last \in Nat
  BY LenProperties DEF NodeOK, Node, LastIndex
<1>2. p \in Node /\ Quiet(n, p) /\ Quiet(n, n) BY <1>1 DEF Node, Quiet
<1>3. own \in Progress
  <2>1. n.prs[n.id] \in Progress BY <1>1 DEF Node
  <2>2. MaxOf(n.prs[n.id].next_idx, last + 1) \in Nat \ {0}
    BY <1>1, <2>1 DEF MaxOf, Progress
  <2> DEFINE x == MaxOf(n.prs[n.id].next_idx, last + 1)
  <2>3. own = [n.prs[n.id] EXCEPT !.matched = last, !.next_idx = x] OBVIOUS
  <2> HIDE DEF x, own
  <2> QED BY <1>1, <2>1, <2>2, <2>3 DEF Progress, x
<1> HIDE DEF own, last
<1>4. a \in Node /\ Quiet(n, a) BY <1>1, <1>2, <1>3 DEF Node, Quiet
<1>5. a = [p EXCEPT !.prs[n.id].matched = last, !.prs[n.id].next_idx = MaxOf(@, last + 1)]
  BY <1>1, <1>2 DEF own, Node, Progress
<1> HIDE DEF a, p
<1>6. o \in {n, p, a, BroadcastAppend(MaybeCommit(a))}
  BY <1>5 DEF OnPersistEntries, p, last
<1>7. MaybeCommit(a) \in Node /\ Quiet(n, MaybeCommit(a))
  <2>1. CASE ~ MayCommit(a) BY <1>4, <2>1 DEF MaybeCommit
  <2>2. CASE MayCommit(a)
    <3> DEFINE k == CHOOSE x \in 1..LastIndex(a.log) : CanCommit(a, x)
    <3>1. k \in 1..LastIndex(a.log) BY <2>2 DEF MayCommit
    <3>2. k \in Nat BY <3>1
    <3>3. MaybeCommit(a) = [a EXCEPT !.committed = k] BY <2>2 DEF MaybeCommit
    <3> HIDE DEF k
    <3>4. MaybeCommit(a) \in Node BY <1>4, <3>2, <3>3 DEF Node
    <3> QED BY <1>4, <3>4, CommitQuiet, QuietTransitive
  <2> QED BY <2>1, <2>2
<1>8. Quiet(n, BroadcastAppend(MaybeCommit(a)))
  BY <1>7, BroadcastAppendQuiet, QuietTransitive
<1> HIDE DEF o
<1>9. Quiet(n, o) BY <1>2, <1>4, <1>6, <1>8
<1> QED BY <1>9 DEF o

-----------------------------------------------------------------------------
\* The handlers that change the term, the vote or the role.
LEMMA BecomeFollowerVotes ==
  ASSUME NEW i \in Server, NEW b \in Nat, NEW n, NodeOK(i, n, b),
         NEW t \in Nat, t >= n.term, NEW leader \in Server \cup {None},
         NEW M \in SUBSET Message, NodeVotes(i, n, M)
  PROVE  NodeVotes(i, BecomeFollower(n, t, leader), M)
<1> DEFINE r  == Reset(n, t)
           n2 == BecomeFollower(n, t, leader)
<1>1. n \in Node /\ n2 \in Node /\ r \in Node
  BY BecomeFollowerOK, ResetOK DEF NodeOK
<1>2. /\ r.term = t /\ r.vote = (IF n.term = t THEN n.vote ELSE None)
      /\ r.messages = n.messages
  BY <1>1 DEF Reset, Node
<1>3. n2 = [r EXCEPT !.leader_id = leader, !.state = "follower"] BY DEF BecomeFollower
<1> HIDE DEF r, n2
<1>4. n2.term = r.term /\ n2.vote = r.vote /\ n2.messages = r.messages /\ n2.state = "follower"
  BY <1>1, <1>3 DEF Node
<1>5. StepDown(n, n2) BY <1>1, <1>2, <1>4 DEF StepDown, Node
<1>6. NodeVotes(i, n2, M) BY <1>1, <1>5, StepDownKeepsVotes
<1> QED BY <1>6 DEF n2

\* The term and role of a new follower.
LEMMA BecomeFollowerTerm ==
  ASSUME NEW n \in Node, NEW t \in Nat, NEW leader
  PROVE  /\ BecomeFollower(n, t, leader).term = t
         /\ BecomeFollower(n, t, leader).state = "follower"
<1> DEFINE r == Reset(n, t)
<1>1. r.term = t /\ "term" \in DOMAIN r /\ "state" \in DOMAIN r BY DEF Reset, Node
<1> HIDE DEF r
<1> QED BY <1>1 DEF BecomeFollower, r

\* Observing the term of a current message keeps the votes in order and, but
\* for pre-vote traffic, ends in the term of the message.
LEMMA ObserveTermVotes ==
  ASSUME NEW i \in Server, NEW b \in Nat, NEW n, NodeOK(i, n, b),
         NEW M \in SUBSET Message, NEW m \in Message, m.term >= n.term, NodeVotes(i, n, M)
  PROVE  /\ NodeVotes(i, ObserveTerm(n, m), M)
         /\ ObserveTerm(n, m).term <= m.term
         /\ ~ KeepsTerm(m) => ObserveTerm(n, m).term = m.term
<1> DEFINE leader == IF m.type \in {"append", "heartbeat"} THEN m.from ELSE None
<1>1. n \in Node /\ n.term \in Nat /\ m.term \in Nat /\ leader \in Server \cup {None}
  BY DEF NodeOK, Node, Message
<1>2. CASE m.term <= n.term \/ KeepsTerm(m)
  BY <1>1, <1>2 DEF ObserveTerm
<1>3. CASE ~ (m.term <= n.term \/ KeepsTerm(m))
  <2>1. ObserveTerm(n, m) = BecomeFollower(n, m.term, leader) BY <1>3 DEF ObserveTerm
  <2> HIDE DEF leader
  <2>2. NodeVotes(i, BecomeFollower(n, m.term, leader), M) BY <1>1, BecomeFollowerVotes
  <2>3. BecomeFollower(n, m.term, leader).term = m.term BY <1>1, BecomeFollowerTerm
  <2> QED BY <1>1, <2>1, <2>2, <2>3
<1> QED BY <1>2, <1>3

\* Accepting a leader keeps the votes in order.
LEMMA FollowLeaderVotes ==
  ASSUME NEW i \in Server, NEW b \in Nat, NEW n, NodeOK(i, n, b),
         NEW M \in SUBSET Message, NEW m \in Message, m.term >= n.term, NodeVotes(i, n, M)
  PROVE  NodeVotes(i, FollowLeader(n, m), M)
<1> DEFINE f == [n EXCEPT !.elapsed = FALSE, !.leader_id = m.from]
<1>1. m.term \in Nat /\ m.from \in Server /\ n \in Node BY DEF Message, NodeOK
<1>2. Quiet(n, f) BY <1>1 DEF Quiet, Node
<1>3. NodeVotes(i, f, M) BY <1>2, QuietKeepsVotes
<1>4. NodeVotes(i, BecomeFollower(n, m.term, m.from), M) BY <1>1, BecomeFollowerVotes
<1> QED BY <1>3, <1>4 DEF FollowLeader

\* A single node is a quorum only of itself.
LEMMA OneIsNoQuorum ==
  ASSUME \A x : Server # {x}, NEW i \in Server
  PROVE  ~ IsQuorum(Incoming, Outgoing, {i})
<1> SUFFICES ASSUME IsQuorum(Incoming, Outgoing, {i}) PROVE FALSE OBVIOUS
<1>1. PICK j \in Server : j # i OBVIOUS
<1>2. ASSUME NEW V, V \subseteq Server, j \in V, IsMajorityOf(V, {i}) PROVE FALSE
  <2>1. IsFiniteSet(V) BY <1>2, RaftAssumption, FS_Subset
  <2>2. Cardinality(V) \in Nat /\ V # {} BY <1>2, <2>1, FS_CardinalityType
  <2>3. Cardinality(V \cap {i}) >= Cardinality(V) \div 2 + 1
    BY <1>2, <2>2 DEF IsMajorityOf, Majority
  <2>4. CASE i \notin V
    <3>1. V \cap {i} = {} BY <2>4
    <3>2. Cardinality({}) = 0 BY FS_EmptySet
    <3> DEFINE k == Cardinality(V)
    <3>3. k \in Nat /\ 0 >= k \div 2 + 1 BY <2>2, <2>3, <3>1, <3>2
    <3> HIDE DEF k
    <3> QED BY <3>3
  <2>5. CASE i \in V
    <3>1. V \cap {i} = {i} BY <2>5
    <3>2. Cardinality({i}) = 1 BY FS_Singleton
    <3>3. {i, j} \subseteq V BY <1>2, <2>5
    <3>4. Cardinality({i, j}) = 2
      <4>1. IsFiniteSet({i}) /\ {i, j} = {i} \cup {j} /\ j \notin {i} BY <1>1, FS_Singleton
      <4>2. Cardinality({i} \cup {j}) = Cardinality({i}) + 1 BY <4>1, FS_AddElement
      <4> QED BY <3>2, <4>1, <4>2
    <3>5. Cardinality({i, j}) <= Cardinality(V) BY <2>1, <3>3, FS_Subset
    <3> DEFINE k == Cardinality(V)
    <3>6. k \in Nat /\ 1 >= k \div 2 + 1 /\ 2 <= k BY <2>2, <2>3, <3>1, <3>2, <3>4, <3>5
    <3> HIDE DEF k
    <3> QED BY <3>6
  <2> QED BY <2>4, <2>5
<1>3. j \in Incoming \/ j \in Outgoing BY RaftAssumption
<1>4. Incoming \subseteq Server /\ Outgoing \subseteq Server BY RaftAssumption
<1> QED BY <1>2, <1>3, <1>4 DEF IsQuorum

\* A tally is won only by the yes votes of a quorum.
LEMMA TallyWon ==
  ASSUME NEW n, Tally(n) = "won"
  PROVE  IsQuorum(Incoming, Outgoing, {s \in Server : n.votes[s] = "yes"})
<1>1. IsFiniteSet(Incoming) /\ IsFiniteSet(Outgoing) /\ Incoming \cup Outgoing = Server
  <2>1. Incoming \subseteq Server /\ Outgoing \subseteq Server BY RaftAssumption
  <2> QED BY <2>1, RaftAssumption, FS_Subset
<1> QED BY <1>1, WonByQuorum DEF Tally

\* A new candidate votes for itself in a term it never voted in.
LEMMA CampaignElectionVotes ==
  ASSUME \A x : Server # {x},
         NEW i \in Server, NEW b \in Nat, NEW n, NodeOK(i, n, b), NEW force \in BOOLEAN,
         NEW M \in SUBSET Message, NodeVotes(i, n, M)
  PROVE  NodeVotes(i, CampaignElection(n, force), M)
<1> DEFINE r == Reset(n, n.term + 1)
           d == BecomeCandidate(n)
           c == RecordVote(d, n.id, TRUE)
           new == {VoteRequest(c, "request_vote", c.term, s, force) : s \in Peers(c)}
           n2 == RequestVotes(c, "request_vote", c.term, force)
<1>1. n \in Node /\ n.id = i /\ n.term \in Nat BY DEF NodeOK, Node
<1>2. n.term + 1 \in Nat BY <1>1
<1>3. r \in Node BY <1>2, ResetOK DEF NodeOK
<1>4. r.term = n.term + 1 /\ r.votes = NoVotes /\ r.messages = n.messages /\ r.id = i
  BY <1>1 DEF Reset, Node
<1>5. d = [r EXCEPT !.vote = i, !.state = "candidate"] BY <1>1 DEF BecomeCandidate
<1> HIDE DEF r, d
<1>6. /\ d \in Node /\ d.term = n.term + 1 /\ d.votes = NoVotes /\ d.messages = n.messages
      /\ d.id = i /\ d.vote = i /\ d.state = "candidate"
  BY <1>3, <1>4, <1>5 DEF Node, Role
<1>7. c = [d EXCEPT !.votes[i] = "yes"] BY <1>1 DEF RecordVote
<1> HIDE DEF c
<1>8. /\ c \in Node /\ c.term = n.term + 1 /\ c.messages = n.messages
      /\ c.id = i /\ c.vote = i /\ c.state = "candidate"
  BY <1>6, <1>7 DEF Node, VoteValue
<1>9. \A s \in Server : c.votes[s] = "yes" <=> s = i
  <2>1. c.votes = [NoVotes EXCEPT ![i] = "yes"] BY <1>6, <1>7 DEF Node
  <2> QED BY <2>1 DEF NoVotes
<1>10. Tally(c) # "won"
  <2>1. {s \in Server : c.votes[s] = "yes"} = {i} BY <1>9
  <2> QED BY <2>1, TallyWon, OneIsNoQuorum
<1>11. CampaignElection(n, force) = n2 BY <1>10 DEF CampaignElection, c, d
<1>12. \A m \in new : /\ m.type = "request_vote" /\ m.from = i /\ m.term = n.term + 1
  BY <1>8 DEF VoteRequest, Msg
<1> HIDE DEF new
<1>13. n2 = [c EXCEPT !.messages = n.messages \cup new] BY <1>8 DEF RequestVotes, new
<1> HIDE DEF n2
<1>14. /\ n2.messages = n.messages \cup new /\ n2.term = n.term + 1 /\ n2.vote = i
       /\ n2.state = "candidate" /\ n2.votes = c.votes
  BY <1>8, <1>13 DEF Node
<1>15. \A m \in M \cup n.messages : m.term \in Nat BY <1>1 DEF Message, Node
<1>16. \A m \in new : IsBallot(m) /\ ~ IsGrant(m) /\ Choice(m) = i
  BY <1>12 DEF IsBallot, IsGrant, Choice
<1>17. \A m \in M \cup n.messages : (IsBallot(m) /\ m.from = i) => m.term < n.term + 1
  BY <1>1, <1>15 DEF NodeVotes, Bound
<1>18. Bound(i, n2.term, n2.vote, M \cup n2.messages)
  BY <1>12, <1>14, <1>16, <1>17 DEF Bound
<1>19. OneChoice(i, M \cup n2.messages)
  <2> SUFFICES ASSUME NEW a \in M \cup n2.messages, NEW e \in M \cup n2.messages,
                      IsBallot(a), IsBallot(e), a.from = i, e.from = i, a.term = e.term
               PROVE  Choice(a) = Choice(e)
    BY DEF OneChoice
  <2>1. CASE a \in new /\ e \in new BY <1>16, <2>1
  <2>2. CASE a \notin new /\ e \notin new
    BY <1>14, <2>2 DEF NodeVotes, OneChoice
  <2>3. CASE a \in new /\ e \notin new
    <3>1. a.term = n.term + 1 /\ e \in M \cup n.messages BY <1>12, <1>14, <2>3
    <3>2. e.term < n.term + 1 BY <1>17, <3>1
    <3> QED BY <1>1, <1>15, <3>1, <3>2
  <2>4. CASE a \notin new /\ e \in new
    <3>1. e.term = n.term + 1 /\ a \in M \cup n.messages BY <1>12, <1>14, <2>4
    <3>2. a.term < n.term + 1 BY <1>17, <3>1
    <3> QED BY <1>1, <1>15, <3>1, <3>2
  <2> QED BY <2>1, <2>2, <2>3, <2>4
<1>20. \A m \in n2.messages : IsBallot(m) => m.from = i BY <1>12, <1>14 DEF NodeVotes
<1>21. \A m \in n2.messages : IsGrant(m) => HasRequest(m.to, m.term, M)
  BY <1>14, <1>16 DEF NodeVotes
<1>22. NodeVotes(i, n2, M)
  BY <1>9, <1>14, <1>18, <1>19, <1>20, <1>21 DEF NodeVotes
<1> QED BY <1>11, <1>22

\* A pre-campaign casts no ballot.
LEMMA CampaignPreElectionVotes ==
  ASSUME \A x : Server # {x},
         NEW i \in Server, NEW b \in Nat, NEW n, NodeOK(i, n, b),
         NEW M \in SUBSET Message, NodeVotes(i, n, M)
  PROVE  NodeVotes(i, CampaignPreElection(n), M)
<1> DEFINE d == BecomePreCandidate(n)
           c == RecordVote(d, n.id, TRUE)
           new == {VoteRequest(c, "request_pre_vote", c.term + 1, s, FALSE) : s \in Peers(c)}
           n2 == RequestVotes(c, "request_pre_vote", c.term + 1, FALSE)
<1>1. n \in Node /\ n.id = i /\ n.term \in Nat BY DEF NodeOK, Node
<1>2. NodeOK(i, d, b) BY BecomePreCandidateOK
<1>3. NodeOK(i, c, b) BY <1>1, <1>2, RecordVoteOK
<1>4. d.term = n.term /\ d.vote = n.vote /\ d.messages = n.messages /\ d.state = "pre_candidate"
  BY <1>1 DEF BecomePreCandidate, Node
<1> HIDE DEF d
<1>5. c = [d EXCEPT !.votes[i] = "yes"] BY <1>1 DEF RecordVote
<1> HIDE DEF c
<1>6. c.term = n.term /\ c.vote = n.vote /\ c.messages = n.messages /\ c.state = "pre_candidate"
  BY <1>2, <1>4, <1>5 DEF NodeOK, Node
<1>7. c \in Node /\ c.term \in Nat BY <1>3 DEF NodeOK, Node
<1>8. StepDown(n, c) BY <1>1, <1>6 DEF StepDown
<1>9. NodeVotes(i, c, M) BY <1>1, <1>7, <1>8, StepDownKeepsVotes
<1>10. NodeVotes(i, CampaignElection(c, FALSE), M) BY <1>3, <1>9, CampaignElectionVotes
<1>11. \A m \in new : ~ IsBallot(m) BY DEF VoteRequest, Msg, IsBallot, IsGrant
<1> HIDE DEF new
<1>12. n2 = [c EXCEPT !.messages = @ \cup new] BY DEF RequestVotes, new
<1> HIDE DEF n2
<1>13. Abstains(c, n2) BY <1>7, <1>11, <1>12 DEF Abstains, Node
<1>14. NodeVotes(i, n2, M) BY <1>9, <1>13, AbstainingKeepsVotes
<1> QED BY <1>10, <1>14 DEF CampaignPreElection, c, d, n2

\* Hence starting any campaign keeps the votes in order.
LEMMA HupVotes ==
  ASSUME \A x : Server # {x},
         NEW i \in Server, NEW b \in Nat, NEW n, NodeOK(i, n, b), NEW transfer \in BOOLEAN,
         NEW M \in SUBSET Message, NodeVotes(i, n, M)
  PROVE  NodeVotes(i, Hup(n, transfer), M)
BY CampaignElectionVotes, CampaignPreElectionVotes DEF Hup

\* Every granted vote in M answers a request in M.
GrantsAsked(M) == \A m \in M : IsGrant(m) => HasRequest(m.to, m.term, M)

\* The grants of a quorum, the candidate's own vote among them, elect it.
LEMMA GrantsElect ==
  ASSUME \A x : Server # {x}, NEW i \in Server, NEW M \in SUBSET Message, GrantsAsked(M),
         NEW n, Tally(n) = "won",
         \A s \in Server : n.votes[s] = "yes" => s = i \/ HasGrant(s, i, n.term, M)
  PROVE  WonBy(i, n.term, M)
<1> DEFINE Y == {s \in Server : n.votes[s] = "yes"}
           B == Backers(i, n.term, M)
<1>1. IsFiniteSet(Incoming) /\ IsFiniteSet(Outgoing) /\ Incoming \cup Outgoing = Server
  <2>1. Incoming \subseteq Server /\ Outgoing \subseteq Server BY RaftAssumption
  <2> QED BY <2>1, RaftAssumption, FS_Subset
<1>2. IsQuorum(Incoming, Outgoing, Y) BY TallyWon
<1>3. PICK s \in Y : s # i
  <2> SUFFICES ASSUME Y \subseteq {i} PROVE FALSE OBVIOUS
  <2> HIDE DEF Y
  <2>1. IsQuorum(Incoming, Outgoing, {i}) BY <1>1, <1>2, QuorumMonotone
  <2> QED BY <2>1, OneIsNoQuorum
<1>4. HasRequest(i, n.term, M)
  <2>1. HasGrant(s, i, n.term, M) BY <1>3
  <2> QED BY <2>1 DEF HasGrant, GrantsAsked
<1>5. i \in B BY <1>4 DEF HasRequest, Backers, IsBallot, Choice
<1>6. \A v \in Server : HasGrant(v, i, n.term, M) => v \in B
  BY DEF HasGrant, Backers, IsBallot, IsGrant, Choice
<1>7. Y \subseteq B BY <1>5, <1>6
<1> HIDE DEF Y, B
<1>8. IsQuorum(Incoming, Outgoing, B) BY <1>1, <1>2, <1>7, QuorumMonotone
<1> QED BY <1>8 DEF WonBy, B

\* A candidate with the ballots of a quorum may lead.
LEMMA BecomeLeaderVotes ==
  ASSUME NEW i \in Server, NEW b \in Nat, NEW n, NodeOK(i, n, b),
         NEW M \in SUBSET Message, NodeVotes(i, n, M), WonBy(i, n.term, M)
  PROVE  NodeVotes(i, BroadcastAppend(BecomeLeader(n)), M)
<1> DEFINE r == Reset(n, n.term)
           l == [r EXCEPT !.leader_id = n.id, !.state = "leader", !.prs = LeaderProgress(n)]
           n2 == BecomeLeader(n)
<1>1. n \in Node /\ r \in Node /\ n2 \in Node
  BY ResetOK, BecomeLeaderOK DEF NodeOK, Node
<1>2. r.term = n.term /\ r.vote = n.vote /\ r.messages = n.messages
  BY <1>1 DEF Reset, Node
<1>3. n2 = AppendEntry(l, Noop) BY DEF BecomeLeader
<1> HIDE DEF r, n2
<1>4. l.term = n.term /\ l.vote = n.vote /\ l.messages = n.messages /\ l.state = "leader"
  BY <1>1, <1>2 DEF Node
<1>5. "log" \in DOMAIN l /\ "term" \in DOMAIN l /\ "vote" \in DOMAIN l
      /\ "messages" \in DOMAIN l /\ "state" \in DOMAIN l
  BY <1>1 DEF Node
<1> HIDE DEF l
<1>6. n2.term = n.term /\ n2.vote = n.vote /\ n2.messages = n.messages /\ n2.state = "leader"
  BY <1>3, <1>4, <1>5 DEF AppendEntry
<1>7. NodeVotes(i, n2, M) BY <1>6 DEF NodeVotes
<1>8. Quiet(n2, BroadcastAppend(n2)) BY <1>1, BroadcastAppendQuiet
<1>9. NodeVotes(i, BroadcastAppend(n2), M) BY <1>7, <1>8, QuietKeepsVotes
<1> QED BY <1>9 DEF n2

\* Counting one more answer, given that a counted grant is in the network.
LEMMA PollVotes ==
  ASSUME \A x : Server # {x},
         NEW i \in Server, NEW b \in Nat, NEW n, NodeOK(i, n, b),
         NEW from \in Server, NEW granted \in BOOLEAN,
         NEW M \in SUBSET Message, GrantsAsked(M), NodeVotes(i, n, M),
         n.state \in {"pre_candidate", "candidate"},
         n.state = "candidate" /\ granted => HasGrant(from, i, n.term, M)
  PROVE  NodeVotes(i, Poll(n, from, granted), M)
<1> DEFINE r == RecordVote(n, from, granted)
<1>1. NodeOK(i, r, b) BY RecordVoteOK
<1>2. n \in Node BY DEF NodeOK
<1>3. /\ r.term = n.term /\ r.vote = n.vote /\ r.state = n.state /\ r.messages = n.messages
      /\ \A s \in Server : r.votes[s] = "yes" => n.votes[s] = "yes" \/ (s = from /\ granted)
  BY <1>2 DEF RecordVote, Node
<1> HIDE DEF r
<1>4. r.state = "candidate" =>
        \A s \in Server : r.votes[s] = "yes" => s = i \/ HasGrant(s, i, r.term, M)
  BY <1>3 DEF NodeVotes
<1>5. NodeVotes(i, r, M) BY <1>3, <1>4 DEF NodeVotes
<1>6. r.term \in Nat BY <1>1 DEF NodeOK, Node
<1>7. NodeVotes(i, BecomeFollower(r, r.term, None), M)
  BY <1>1, <1>5, <1>6, BecomeFollowerVotes
<1>8. NodeVotes(i, CampaignElection(r, FALSE), M) BY <1>1, <1>5, CampaignElectionVotes
<1>9. ASSUME Tally(r) = "won", r.state # "pre_candidate"
      PROVE  NodeVotes(i, BroadcastAppend(BecomeLeader(r)), M)
  <2>1. WonBy(i, r.term, M) BY <1>3, <1>4, <1>9, GrantsElect
  <2> QED BY <1>1, <1>5, <2>1, BecomeLeaderVotes
<1>10. Tally(r) \in {"pending", "lost", "won"} BY DEF Tally, JointVoteResult
<1> QED BY <1>5, <1>7, <1>8, <1>9, <1>10 DEF Poll, r

\* A candidate counts only grants of its own term.
LEMMA HandleVoteResponseVotes ==
  ASSUME \A x : Server # {x},
         NEW i \in Server, NEW b \in Nat, NEW n, NodeOK(i, n, b),
         NEW M \in SUBSET Message, GrantsAsked(M), NodeVotes(i, n, M),
         NEW m \in M, m.to = i,
         m.type = "request_vote_response" => m.term = n.term
  PROVE  NodeVotes(i, HandleVoteResponse(n, m), M)
<1> DEFINE p == Poll(n, m.from, ~ m.reject)
<1>1. m \in Message /\ m.from \in Server /\ (~ m.reject) \in BOOLEAN BY DEF Message
<1>2. CASE \/ n.state = "pre_candidate" /\ m.type = "request_pre_vote_response"
           \/ n.state = "candidate" /\ m.type = "request_vote_response"
  <2>1. n.state = "candidate" /\ ~ m.reject => HasGrant(m.from, i, n.term, M)
    BY <1>2 DEF HasGrant, IsGrant
  <2>2. n.state \in {"pre_candidate", "candidate"} BY <1>2
  <2>3. NodeVotes(i, p, M) BY <1>1, <2>1, <2>2, PollVotes
  <2>4. NodeOK(i, p, b) BY <1>1, PollOK
  <2> HIDE DEF p
  <2>5. Quiet(p, MaybeCommitByVote(p, m)) BY <2>4, CommitQuiet DEF NodeOK
  <2>6. NodeVotes(i, MaybeCommitByVote(p, m), M) BY <2>3, <2>5, QuietKeepsVotes
  <2> QED BY <1>2, <2>6 DEF HandleVoteResponse, p
<1>3. CASE ~ (\/ n.state = "pre_candidate" /\ m.type = "request_pre_vote_response"
              \/ n.state = "candidate" /\ m.type = "request_vote_response")
  BY <1>3 DEF HandleVoteResponse
<1> QED BY <1>2, <1>3

\* A grant binds the voter: it had no other vote in the term.
LEMMA HandleVoteRequestVotes ==
  ASSUME NEW i \in Server, NEW b \in Nat, NEW n, NodeOK(i, n, b),
         NEW M \in SUBSET Message, NodeVotes(i, n, M),
         NEW m \in M, m.to = i, m.type \in VoteRequestType,
         m.type = "request_vote" => m.term = n.term
  PROVE  NodeVotes(i, HandleVoteRequest(n, m), M)
<1> DEFINE resp == Msg(n, VoteRespType(m.type), m.from)
           yes  == [resp EXCEPT !.term = m.term]
           no   == [resp EXCEPT !.reject = TRUE, !.commit = n.committed,
                                !.commit_term = TermAt(n.log, n.committed)]
<1>1. n \in Node /\ n.id = i /\ m \in Message /\ m.from \in Server BY DEF NodeOK, Message
<1>2. CASE ~ GrantsVote(n, m)
  <2> DEFINE d == Send(n, no)
  <2>1. ~ IsVoting(no) BY DEF Msg, VoteRespType, IsVoting, IsBallot, IsGrant, IsPreGrant
  <2>2. HandleVoteRequest(n, m) = MaybeCommitByVote(d, m) BY <1>2 DEF HandleVoteRequest
  <2>3. d \in Node /\ Quiet(n, d)
    <3>1. no \in Message
      <4>1. n.committed \in Nat /\ TermAt(n.log, n.committed) \in Nat
        BY <1>1, TermAtNat DEF Node
      <4>2. resp \in Message BY <1>1, MsgIsMessage DEF VoteRespType, MsgType
      <4> HIDE DEF resp
      <4> QED BY <4>1, <4>2 DEF Message
    <3> HIDE DEF no
    <3> QED BY <1>1, <2>1, <3>1, SendQuiet, SendOK DEF NodeOK
  <2> HIDE DEF d
  <2>4. Quiet(n, MaybeCommitByVote(d, m)) BY <2>3, CommitQuiet, QuietTransitive
  <2> QED BY <2>2, <2>4, QuietKeepsVotes
<1>3. CASE GrantsVote(n, m) /\ m.type = "request_pre_vote"
  <2>1. ~ IsBallot(yes) BY <1>3 DEF Msg, VoteRespType, IsBallot, IsGrant
  <2>2. HandleVoteRequest(n, m) = Send(n, yes) BY <1>3 DEF HandleVoteRequest
  <2> HIDE DEF yes
  <2>3. Abstains(n, Send(n, yes)) BY <1>1, <2>1 DEF Abstains, Send, Node
  <2> QED BY <2>2, <2>3, AbstainingKeepsVotes
<1>4. CASE GrantsVote(n, m) /\ m.type = "request_vote"
  <2> DEFINE n2 == HandleVoteRequest(n, m)
  <2>1. /\ IsBallot(yes) /\ IsGrant(yes) /\ yes.from = i /\ yes.to = m.from
        /\ yes.term = n.term /\ Choice(yes) = m.from
    BY <1>1, <1>4 DEF Msg, VoteRespType, IsBallot, IsGrant, Choice
  <2>2. n2 = [Send(n, yes) EXCEPT !.elapsed = FALSE, !.vote = m.from]
    BY <1>4 DEF HandleVoteRequest
  <2> HIDE DEF yes, n2
  <2>3. /\ n2.messages = n.messages \cup {yes} /\ n2.vote = m.from /\ n2.term = n.term
        /\ n2.state = n.state /\ n2.votes = n.votes
    BY <1>1, <2>2 DEF Send, Node
  <2>4. n.vote \in {m.from, None} BY <1>4 DEF GrantsVote, CanVote
  <2>5. \A a \in M \cup n.messages : a.term \in Nat /\ Choice(a) \in Server
    BY <1>1 DEF Node, Message, Choice
  <2>6. \A a \in M \cup n.messages : (IsBallot(a) /\ a.from = i) =>
          a.term < n.term \/ (a.term = n.term /\ Choice(a) = m.from)
    <3>1. None \notin Server BY RaftAssumption
    <3> QED BY <2>4, <2>5, <3>1 DEF NodeVotes, Bound
  <2>7. Bound(i, n2.term, n2.vote, M \cup n2.messages)
    BY <2>1, <2>3, <2>6 DEF Bound
  <2>8. n.term \in Nat BY <1>1 DEF Node
  <2>9. OneChoice(i, M \cup n2.messages)
    <3> SUFFICES ASSUME NEW a \in M \cup n2.messages, NEW e \in M \cup n2.messages,
                        IsBallot(a), IsBallot(e), a.from = i, e.from = i, a.term = e.term
                 PROVE  Choice(a) = Choice(e)
      BY DEF OneChoice
    <3>1. CASE a \in M \cup n.messages /\ e \in M \cup n.messages
      BY <3>1 DEF NodeVotes, OneChoice
    <3>2. CASE a = yes \/ e = yes
      <4>1. a.term = n.term /\ e.term = n.term BY <2>1, <3>2
      <4>2. \A x \in {a, e} : Choice(x) = m.from
        BY <2>1, <2>3, <2>5, <2>6, <2>8, <4>1
      <4> QED BY <4>2
    <3> QED BY <2>3, <3>1, <3>2
  <2>10. \A a \in n2.messages : IsBallot(a) => a.from = i BY <2>1, <2>3 DEF NodeVotes
  <2>11. HasRequest(yes.to, yes.term, M) BY <1>4, <2>1 DEF HasRequest
  <2>12. \A a \in n2.messages : IsGrant(a) => HasRequest(a.to, a.term, M)
    BY <2>3, <2>11 DEF NodeVotes
  <2>13. NodeVotes(i, n2, M)
    BY <2>3, <2>7, <2>9, <2>10, <2>12 DEF NodeVotes
  <2> QED BY <2>13 DEF n2
<1> QED BY <1>2, <1>3, <1>4 DEF VoteRequestType

-----------------------------------------------------------------------------
(***************************************************************************)
(* The inductive invariant.  With a single server there is nothing to      *)
(* prove (and no ballot: it elects itself without asking).                 *)
(***************************************************************************)
Many == \A x : Server # {x}

VotesAgree ==
  /\ \A i \in Server : NodeVotes(i, node[i], msgs)
  /\ \A i \in Server : Bound(i, disk[i].term, disk[i].vote, msgs)
  /\ GrantsAsked(msgs)
  /\ \A e \in elected : WonBy(e[2], e[1], msgs)

VoteInv == TypeInv /\ (Many => VotesAgree)

\* What the steps below start from.
LEMMA Context ==
  ASSUME TypeInv, VotesAgree, NEW i \in Server
  PROVE  /\ NodeOK(i, node[i], disk[i].commit) /\ disk[i].commit \in Nat
         /\ node \in [Server -> Node] /\ disk \in [Server -> Disk]
         /\ msgs \in SUBSET Message /\ GrantsAsked(msgs)
         /\ NodeVotes(i, node[i], msgs)
BY DEF TypeInv, TypeOK, VotesAgree, Disk

\* A step of one node that leaves disk and network alone.
LEMMA NodeStepVotes ==
  ASSUME TypeInv, VotesAgree, NEW i \in Server, NEW n, NodeVotes(i, n, msgs),
         node' = [node EXCEPT ![i] = n], UNCHANGED <<disk, msgs>>,
         elected' \subseteq IF n.state = "leader" THEN elected \cup {<<n.term, i>>} ELSE elected
  PROVE  VotesAgree'
<1>1. node \in [Server -> Node] BY DEF TypeInv, TypeOK
<1>2. ASSUME NEW j \in Server PROVE NodeVotes(j, node'[j], msgs)
  <2>1. CASE j = i BY <1>1, <2>1
  <2>2. CASE j # i
    <3>1. node'[j] = node[j] BY <1>1, <2>2
    <3> QED BY <3>1 DEF VotesAgree
  <2> QED BY <2>1, <2>2
<1>3. ASSUME NEW e \in elected' PROVE WonBy(e[2], e[1], msgs)
  <2>1. CASE e \in elected BY <2>1 DEF VotesAgree
  <2>2. CASE e \notin elected
    <3>1. n.state = "leader" /\ e = <<n.term, i>> BY <2>2
    <3>2. WonBy(i, n.term, msgs) BY <3>1 DEF NodeVotes
    <3> QED BY <3>1, <3>2
  <2> QED BY <2>1, <2>2
<1>4. msgs' = msgs /\ disk' = disk OBVIOUS
<1> QED BY <1>2, <1>3, <1>4 DEF VotesAgree

\* The same for an action that applies a handler.
LEMMA BecomeVotes ==
  ASSUME TypeInv, VotesAgree, NEW i \in Server, NEW n, NodeVotes(i, n, msgs),
         Become(i, n), UNCHANGED <<disk, msgs>>
  PROVE  VotesAgree'
BY NodeStepVotes DEF Become

\* The actions of one node that touch neither its disk nor the network.
LEMMA LocalVotes ==
  ASSUME Many, TypeInv, VotesAgree, NEW i \in Server,
         \/ Campaign(i)
         \/ LeaseExpires(i)
         \/ LeaderTick(i)
         \/ Beat(i)
         \/ \E v \in Value : Propose(i, v)
         \/ \E s \in Server : TransferLeader(i, s)
         \/ \E s \in Server : Unreachable(i, s)
  PROVE  VotesAgree'
<1> DEFINE n == node[i]
           b == disk[i].commit
<1>1. NodeOK(i, n, b) /\ b \in Nat /\ n \in Node /\ n.term \in Nat
      /\ msgs \in SUBSET Message /\ NodeVotes(i, n, msgs)
  BY Context DEF NodeOK, Node
<1>3. \A x : Quiet(n, x) => NodeVotes(i, x, msgs) BY <1>1, QuietKeepsVotes
<1>4. \A x : NodeVotes(i, x, msgs) /\ Become(i, x) /\ UNCHANGED <<disk, msgs>> => VotesAgree'
  BY BecomeVotes
<1> HIDE DEF b
<1>5. CASE Campaign(i)
  <2> DEFINE c == [n EXCEPT !.elapsed = FALSE]
  <2>1. NodeOK(i, c, b) /\ Quiet(n, c) BY <1>1 DEF NodeOK, Node, Quiet
  <2>2. Become(i, Hup(c, FALSE)) /\ UNCHANGED <<disk, msgs>> BY <1>5 DEF Campaign
  <2> HIDE DEF c
  <2>3. NodeVotes(i, c, msgs) BY <1>3, <2>1
  <2>4. NodeVotes(i, Hup(c, FALSE), msgs) BY <1>1, <2>1, <2>3, HupVotes DEF Many
  <2> QED BY <1>4, <2>2, <2>4
<1>6. CASE LeaseExpires(i)
  <2> DEFINE c == [n EXCEPT !.elapsed = TRUE]
  <2>1. Quiet(n, c) BY <1>1 DEF NodeOK, Node, Quiet
  <2>2. node' = [node EXCEPT ![i] = c] /\ elected' = elected /\ UNCHANGED <<disk, msgs>>
    BY <1>6 DEF LeaseExpires
  <2> HIDE DEF c
  <2>3. NodeVotes(i, c, msgs) BY <1>3, <2>1
  <2> QED BY <2>2, <2>3, NodeStepVotes
<1>7. CASE LeaderTick(i)
  <2> DEFINE w == [n EXCEPT !.lead_transferee = None]
             z == [NewWindow(n) EXCEPT !.elapsed = FALSE, !.lead_transferee = None]
             f == BecomeFollower(n, n.term, None)
  <2>1. Quiet(n, w) BY <1>1 DEF Node, Quiet
  <2>2. Quiet(n, z) BY <1>1 DEF Node, Quiet, NewWindow
  <2>3. NodeVotes(i, f, msgs) BY <1>1, BecomeFollowerVotes
  <2>4. LeaderTimeout(n) \in {w, z, f} BY DEF LeaderTimeout
  <2> HIDE DEF w, z, f
  <2>5. NodeVotes(i, LeaderTimeout(n), msgs) BY <1>3, <2>1, <2>2, <2>3, <2>4
  <2> QED BY <1>4, <1>7, <2>5 DEF LeaderTick
<1>8. CASE Beat(i)
  <2>1. Quiet(n, BroadcastHeartbeat(n)) BY <1>1, BroadcastHeartbeatQuiet
  <2> QED BY <1>3, <1>4, <1>8, <2>1 DEF Beat
<1>9. ASSUME NEW v \in Value, Propose(i, v) PROVE VotesAgree'
  <2> DEFINE m == ProposeMsg(i, n.leader_id, v)
  <2>1. Quiet(n, HandlePropose(n, v)) BY <1>1, HandleProposeQuiet
  <2>2. ~ IsVoting(m) BY DEF ProposeMsg, Msg, IsVoting, IsBallot, IsGrant, IsPreGrant
  <2> HIDE DEF m
  <2>3. Quiet(n, Send(n, m)) BY <1>1, <2>2, SendQuiet
  <2> QED BY <1>3, <1>4, <1>9, <2>1, <2>3 DEF Propose, m
<1>10. ASSUME NEW s \in Server, TransferLeader(i, s) PROVE VotesAgree'
  <2> DEFINE m == [Msg(n, "transfer_leader", n.leader_id) EXCEPT !.from = s]
  <2>1. Quiet(n, HandleTransferLeader(n, s)) BY <1>1, HandleTransferLeaderQuiet
  <2>2. ~ IsVoting(m) BY DEF Msg, IsVoting, IsBallot, IsGrant, IsPreGrant
  <2> HIDE DEF m
  <2>3. Quiet(n, Send(n, m)) BY <1>1, <2>2, SendQuiet
  <2> QED BY <1>3, <1>4, <1>10, <2>1, <2>3 DEF TransferLeader, m
<1>11. ASSUME NEW s \in Server, Unreachable(i, s) PROVE VotesAgree'
  <2> DEFINE pr == [n.prs[s] EXCEPT !.state = "probe", !.next_idx = n.prs[s].matched + 1,
                                    !.paused = FALSE, !.inflights = <<>>]
  <2>1. Become(i, [n EXCEPT !.prs[s] = pr]) /\ UNCHANGED <<disk, msgs>>
    BY <1>11 DEF Unreachable
  <2> HIDE DEF pr
  <2>2. Quiet(n, [n EXCEPT !.prs[s] = pr]) BY <1>1 DEF Node, Quiet
  <2> QED BY <1>3, <1>4, <2>1, <2>2
<1> QED BY <1>5, <1>6, <1>7, <1>8, <1>9, <1>10, <1>11

\* Every delivery of a message of the network.
LEMMA ReceiveVotes ==
  ASSUME Many, TypeInv, VotesAgree, NEW m \in msgs, Receive(m)
  PROVE  VotesAgree'
<1> DEFINE i == m.to
           n == node[i]
           b == disk[i].commit
           o == Observed(m)
<1>1. m \in Message /\ i \in Server /\ m.from \in Server /\ m.term \in Nat
      /\ m.entries \in Seq(Entry)
  BY DEF TypeInv, TypeOK, Message
<1>2. NodeOK(i, n, b) /\ b \in Nat /\ n \in Node /\ n.term \in Nat
      /\ msgs \in SUBSET Message /\ GrantsAsked(msgs) /\ NodeVotes(i, n, msgs)
  BY <1>1, Context DEF NodeOK, Node
<1>3. NodeOK(i, o, b) BY <1>1, <1>2, ObserveTermOK DEF Observed
<1>4. ASSUME Current(m)
      PROVE  /\ NodeVotes(i, o, msgs) /\ m.term >= o.term
             /\ ~ KeepsTerm(m) => o.term = m.term
  <2>1. m.term >= n.term BY <1>4 DEF Current
  <2>2. o = ObserveTerm(n, m) BY DEF Observed
  <2> HIDE DEF o, n, i, b
  <2>3. /\ NodeVotes(i, o, msgs) /\ o.term <= m.term
        /\ ~ KeepsTerm(m) => o.term = m.term
    BY <1>1, <1>2, <2>1, <2>2, ObserveTermVotes
  <2>4. o.term \in Nat BY <1>3 DEF NodeOK, Node
  <2> QED BY <1>1, <2>3, <2>4
<1>5. \A x : NodeVotes(i, x, msgs) /\ Become(i, x) /\ UNCHANGED <<disk, msgs>> => VotesAgree'
  BY <1>1, BecomeVotes
<1>6. \A x : NodeVotes(i, x, msgs) /\ Deliver(m, x) => VotesAgree'
  BY <1>5 DEF Deliver
<1>7. \A x, y : NodeVotes(i, x, msgs) /\ Quiet(x, y) => NodeVotes(i, y, msgs)
  BY QuietKeepsVotes
<1> HIDE DEF n, b, o
<1>8. CASE ReceiveStale(m)
  <2> DEFINE x == [n EXCEPT !.messages = n.messages \cup StaleReply(n, m)]
  <2>1. \A r \in StaleReply(n, m) : ~ IsVoting(r)
    BY DEF StaleReply, Msg, IsVoting, IsBallot, IsGrant, IsPreGrant
  <2>2. Quiet(n, x) BY <1>2, <2>1 DEF Quiet, Node
  <2>3. Deliver(m, x) BY <1>8 DEF ReceiveStale, n
  <2> HIDE DEF x
  <2> QED BY <1>2, <1>6, <1>7, <2>2, <2>3
<1> HIDE DEF i
<1>9. CASE ReceiveVoteRequest(m)
  <2>1. m.type \in VoteRequestType /\ Current(m) /\ Deliver(m, HandleVoteRequest(o, m))
    BY <1>9 DEF ReceiveVoteRequest, o
  <2>2. m.type = "request_vote" => m.term = o.term BY <1>4, <2>1 DEF KeepsTerm
  <2>3. m.to = i BY DEF i
  <2>4. NodeVotes(i, HandleVoteRequest(o, m), msgs)
    BY <1>1, <1>2, <1>3, <1>4, <2>1, <2>2, <2>3, HandleVoteRequestVotes
  <2> QED BY <1>6, <2>1, <2>4
<1>10. CASE ReceiveVoteResponse(m)
  <2>1. Current(m) /\ Deliver(m, HandleVoteResponse(o, m))
    BY <1>10 DEF ReceiveVoteResponse, o
  <2>2. m.type = "request_vote_response" => m.term = o.term BY <1>4, <2>1 DEF KeepsTerm
  <2>3. m.to = i BY DEF i
  <2>4. NodeVotes(i, HandleVoteResponse(o, m), msgs)
    BY <1>1, <1>2, <1>3, <1>4, <2>1, <2>2, <2>3, HandleVoteResponseVotes DEF Many
  <2> QED BY <1>6, <2>1, <2>4
<1>11. CASE ReceiveAppend(m)
  <2> DEFINE f == FollowLeader(o, m)
  <2>1. Current(m) /\ Deliver(m, HandleAppendEntries(f, m)) BY <1>11 DEF ReceiveAppend, o
  <2>2. NodeOK(i, f, b) BY <1>1, <1>2, <1>3, FollowLeaderOK
  <2>3. NodeVotes(i, f, msgs) BY <1>1, <1>2, <1>3, <1>4, <2>1, FollowLeaderVotes
  <2> HIDE DEF f
  <2>4. Quiet(f, HandleAppendEntries(f, m)) BY <1>1, <1>2, <2>2, HandleAppendEntriesQuiet
  <2> QED BY <1>6, <1>7, <2>1, <2>3, <2>4
<1>12. CASE ReceiveHeartbeat(m)
  <2> DEFINE f == FollowLeader(o, m)
  <2>1. Current(m) /\ Deliver(m, HandleHeartbeat(f, m)) BY <1>12 DEF ReceiveHeartbeat, o
  <2>2. NodeOK(i, f, b) BY <1>1, <1>2, <1>3, FollowLeaderOK
  <2>3. NodeVotes(i, f, msgs) BY <1>1, <1>2, <1>3, <1>4, <2>1, FollowLeaderVotes
  <2> HIDE DEF f
  <2>4. Quiet(f, HandleHeartbeat(f, m)) BY <1>1, <1>2, <2>2, HandleHeartbeatQuiet
  <2> QED BY <1>6, <1>7, <2>1, <2>3, <2>4
<1>13. CASE ReceiveAppendResponse(m)
  <2>1. Current(m) /\ Deliver(m, IF o.state = "leader" THEN HandleAppendResponse(o, m) ELSE o)
    BY <1>13 DEF ReceiveAppendResponse, o
  <2>2. Quiet(o, HandleAppendResponse(o, m))
    BY <1>1, <1>2, <1>3, HandleAppendResponseQuiet
  <2> QED BY <1>4, <1>6, <1>7, <2>1, <2>2
<1>14. CASE ReceiveHeartbeatResponse(m)
  <2>1. Current(m) /\ Deliver(m, IF o.state = "leader" THEN HandleHeartbeatResponse(o, m) ELSE o)
    BY <1>14 DEF ReceiveHeartbeatResponse, o
  <2>2. Quiet(o, HandleHeartbeatResponse(o, m))
    BY <1>1, <1>2, <1>3, HandleHeartbeatResponseQuiet
  <2> QED BY <1>4, <1>6, <1>7, <2>1, <2>2
<1>15. CASE ReceiveTimeoutNow(m)
  <2>1. Current(m) /\ Deliver(m, IF o.state = "follower" THEN Hup(o, TRUE) ELSE o)
    BY <1>15 DEF ReceiveTimeoutNow, o
  <2>2. NodeVotes(i, Hup(o, TRUE), msgs)
    BY <1>1, <1>2, <1>3, <1>4, <2>1, HupVotes DEF Many
  <2> QED BY <1>4, <1>6, <2>1, <2>2
<1>16. CASE ReceiveTransferLeader(m)
  <2>1. Current(m) /\ Deliver(m, IF o.state = "leader" THEN HandleTransferLeader(o, m.from) ELSE o)
    BY <1>16 DEF ReceiveTransferLeader, o
  <2>2. Quiet(o, HandleTransferLeader(o, m.from))
    BY <1>1, <1>2, <1>3, HandleTransferLeaderQuiet
  <2> QED BY <1>4, <1>6, <1>7, <2>1, <2>2
<1>17. CASE ReceivePropose(m)
  <2> DEFINE f == [m EXCEPT !.to = n.leader_id]
             v == m.entries[1].val
  <2>1. m.entries # <<>> /\ UNCHANGED <<disk, msgs>> /\ m.type = "propose"
    BY <1>17 DEF ReceivePropose
  <2>2. v \in Value \cup {Noop}
    <3>1. 1 \in 1..Len(m.entries) BY <1>1, <2>1, LenProperties, EmptySeq
    <3>2. m.entries[1] \in Entry BY <1>1, <3>1, ElementOfSeq
    <3> QED BY <3>2 DEF Entry
  <2> HIDE DEF v
  <2>3. Quiet(n, HandlePropose(n, v)) BY <1>1, <1>2, <2>2, HandleProposeQuiet
  <2>4. ~ IsVoting(f) BY <1>1, <2>1 DEF IsVoting, IsBallot, IsGrant, IsPreGrant, Message
  <2> HIDE DEF f
  <2>5. Quiet(n, Send(n, f)) BY <1>2, <2>4, SendQuiet
  <2>6. \A x : Quiet(n, x) /\ Become(i, x) => VotesAgree'
    BY <1>2, <1>5, <1>7, <2>1
  <2>7. Become(i, HandlePropose(n, v)) \/ Become(i, Send(n, f))
    BY <1>17 DEF ReceivePropose, f, v, n, i
  <2> QED BY <2>3, <2>5, <2>6, <2>7
<1> QED
  BY <1>8, <1>9, <1>10, <1>11, <1>12, <1>13, <1>14, <1>15, <1>16, <1>17 DEF Receive

\* Votes and requests stay in the network, so what they show stays shown.
LEMMA MoreMessages ==
  ASSUME NEW M, NEW M2, M \subseteq M2
  PROVE  /\ \A c, t : HasRequest(c, t, M) => HasRequest(c, t, M2)
         /\ \A s, c, t : HasGrant(s, c, t, M) => HasGrant(s, c, t, M2)
         /\ \A c, t : WonBy(c, t, M) => WonBy(c, t, M2)
<1>1. \A c, t : HasRequest(c, t, M) => HasRequest(c, t, M2) BY DEF HasRequest
<1>2. \A s, c, t : HasGrant(s, c, t, M) => HasGrant(s, c, t, M2) BY DEF HasGrant
<1>3. ASSUME NEW c, NEW t, WonBy(c, t, M) PROVE WonBy(c, t, M2)
  <2>1. Backers(c, t, M) \subseteq Backers(c, t, M2) BY DEF Backers
  <2>2. IsFiniteSet(Incoming) /\ IsFiniteSet(Outgoing)
    <3>1. Incoming \subseteq Server /\ Outgoing \subseteq Server BY RaftAssumption
    <3> QED BY <3>1, RaftAssumption, FS_Subset
  <2> QED BY <1>3, <2>1, <2>2, QuorumMonotone DEF WonBy
<1> QED BY <1>1, <1>2, <1>3

\* Node i sends its messages while its term and vote are on disk.
LEMMA TransmitVotes ==
  ASSUME TypeInv, VotesAgree, NEW i \in Server, NEW n2, NEW d, NEW new,
         \A m \in new : IsBallot(m) => m \in node[i].messages,
         Transmit(new), node' = [node EXCEPT ![i] = n2], disk' = [disk EXCEPT ![i] = d],
         d.term = node[i].term, d.vote = node[i].vote,
         n2.term = node[i].term, n2.vote = node[i].vote, n2.messages = {},
         n2.state = "candidate" => node[i].state = "candidate" /\ n2.votes = node[i].votes,
         n2.state = "leader" => node[i].state = "leader",
         elected' \subseteq IF n2.state = "leader" THEN elected \cup {<<n2.term, i>>}
                                                   ELSE elected
  PROVE  VotesAgree'
<1> DEFINE n == node[i]
           M == msgs
           M2 == msgs'
<1>1. /\ node \in [Server -> Node] /\ disk \in [Server -> Disk]
      /\ \A j \in Server : NodeVotes(j, node[j], M)
      /\ \A j \in Server : Bound(j, disk[j].term, disk[j].vote, M)
      /\ GrantsAsked(M) /\ \A e \in elected : WonBy(e[2], e[1], M)
  BY DEF VotesAgree, TypeInv, TypeOK
<1>2. M \subseteq M2 /\ \A m \in M2 : IsBallot(m) => m \in M \cup n.messages
  BY DEF Transmit
<1>3. node'[i] = n2 /\ disk'[i] = d
      /\ \A j \in Server : j # i => node'[j] = node[j] /\ disk'[j] = disk[j]
  BY <1>1
<1> HIDE DEF M, M2, n
<1>4. /\ \A c, t : HasRequest(c, t, M) => HasRequest(c, t, M2)
      /\ \A s, c, t : HasGrant(s, c, t, M) => HasGrant(s, c, t, M2)
      /\ \A c, t : WonBy(c, t, M) => WonBy(c, t, M2)
  BY <1>2, MoreMessages
<1>5. NodeVotes(i, n, M) BY <1>1 DEF n
<1>6. Bound(i, n.term, n.vote, M2) /\ OneChoice(i, M2)
  BY <1>2, <1>5 DEF NodeVotes, Bound, OneChoice
<1>7. NodeVotes(i, n2, M2)
  <2>1. n2.term = n.term /\ n2.vote = n.vote /\ n2.messages = {}
        /\ (n2.state = "candidate" => n.state = "candidate" /\ n2.votes = n.votes)
        /\ (n2.state = "leader" => n.state = "leader")
    BY DEF n
  <2>2. M2 \cup n2.messages = M2 BY <2>1
  <2> QED BY <1>4, <1>5, <1>6, <2>1, <2>2 DEF NodeVotes
<1>8. \A m \in n.messages : IsBallot(m) => m.from = i BY <1>5 DEF NodeVotes
<1>9. ASSUME NEW j \in Server, j # i PROVE NodeVotes(j, node[j], M2)
  <2> DEFINE k == node[j]
             T == M \cup k.messages
             T2 == M2 \cup k.messages
  <2>1. NodeVotes(j, k, M) BY <1>1
  <2> HIDE DEF k
  <2>2. \A m \in T2 : (IsBallot(m) /\ m.from = j) => m \in T BY <1>2, <1>8, <1>9
  <2>3. Bound(j, k.term, k.vote, T) /\ OneChoice(j, T) BY <2>1 DEF NodeVotes
  <2> HIDE DEF T, T2
  <2>4. Bound(j, k.term, k.vote, T2) BY <2>2, <2>3 DEF Bound
  <2>5. OneChoice(j, T2) BY <2>2, <2>3 DEF OneChoice
  <2>6. NodeVotes(j, k, M2) BY <1>4, <2>1, <2>4, <2>5 DEF NodeVotes, T2
  <2> QED BY <2>6 DEF k
<1>10. ASSUME NEW j \in Server, j # i PROVE Bound(j, disk[j].term, disk[j].vote, M2)
  <2>1. \A m \in M2 : (IsBallot(m) /\ m.from = j) => m \in M BY <1>2, <1>8, <1>10
  <2>2. Bound(j, disk[j].term, disk[j].vote, M) BY <1>1
  <2> QED BY <2>1, <2>2 DEF Bound
<1>11. Bound(i, d.term, d.vote, M2) BY <1>6 DEF n
<1>12. GrantsAsked(M2)
  <2> SUFFICES ASSUME NEW m \in M2, IsGrant(m) PROVE HasRequest(m.to, m.term, M2)
    BY DEF GrantsAsked
  <2>1. m \in M \cup n.messages BY <1>2 DEF IsBallot
  <2>2. HasRequest(m.to, m.term, M) BY <1>1, <1>5, <2>1 DEF GrantsAsked, NodeVotes
  <2> QED BY <1>4, <2>2
<1>13. ASSUME NEW e \in elected' PROVE WonBy(e[2], e[1], M2)
  <2>1. CASE e \in elected BY <1>1, <1>4, <2>1
  <2>2. CASE e \notin elected
    <3>1. n2.state = "leader" /\ e = <<n2.term, i>> BY <2>2
    <3>2. WonBy(i, n2.term, M2) BY <1>7, <3>1 DEF NodeVotes
    <3> QED BY <3>1, <3>2
  <2> QED BY <2>1, <2>2
<1>14. \A j \in Server : NodeVotes(j, node'[j], M2) BY <1>3, <1>7, <1>9
<1>15. \A j \in Server : Bound(j, disk'[j].term, disk'[j].vote, M2)
  BY <1>3, <1>10, <1>11
<1> QED BY <1>12, <1>13, <1>14, <1>15 DEF VotesAgree, M2

\* A Ready makes term and vote durable before its ballots leave.
LEMMA ReadyVotes ==
  ASSUME TypeInv, VotesAgree, NEW i \in Server, Ready(i)
  PROVE  VotesAgree'
<1> DEFINE n == node[i]
           q == [n EXCEPT !.messages = {}]
           p == OnPersistEntries(q)
           x == [p EXCEPT !.messages = {}]
           b == disk[i].commit
<1>1. NodeOK(i, n, b) /\ b \in Nat /\ n \in Node /\ disk[i] \in Disk
  BY Context DEF NodeOK
<1>2. /\ NodeOK(i, q, b) /\ q.term = n.term /\ q.vote = n.vote /\ q.state = n.state
      /\ q.votes = n.votes /\ q.messages = {}
  BY <1>1 DEF NodeOK, Node
<1>3. PICK c : disk' = [disk EXCEPT ![i] = HardState(n, disk[i], c)]
  BY DEF Ready
<1>4. Transmit(n.messages \cup p.messages) /\ Become(i, x)
  BY DEF Ready
<1> HIDE DEF q
<1>5. Quiet(q, p) /\ p \in Node BY <1>1, <1>2, OnPersistEntriesQuiet, OnPersistEntriesOK DEF NodeOK
<1> DEFINE d == HardState(n, disk[i], c)
           new == n.messages \cup p.messages
<1>6. d.term = n.term /\ d.vote = n.vote BY <1>1 DEF HardState, Disk
<1> HIDE DEF p, d
<1>7. \A m \in new : IsBallot(m) => m \in n.messages BY <1>2, <1>5 DEF Quiet, IsVoting
<1>8. /\ x.term = n.term /\ x.vote = n.vote /\ x.messages = {} /\ x.state = n.state
      /\ x.votes = n.votes
  BY <1>2, <1>5 DEF Quiet, Node
<1> HIDE DEF x, new
<1>9. Transmit(new) /\ disk' = [disk EXCEPT ![i] = d] BY <1>3, <1>4 DEF new, d
<1>10. /\ node' = [node EXCEPT ![i] = x]
       /\ elected' \subseteq IF x.state = "leader" THEN elected \cup {<<x.term, i>>} ELSE elected
  BY <1>4 DEF Become
<1> QED BY <1>6, <1>7, <1>8, <1>9, <1>10, TransmitVotes

\* A node that restarts is bound by the vote on its disk.
LEMMA CrashVotes ==
  ASSUME TypeInv, VotesAgree, NEW i \in Server,
         \/ Crash(i)
         \/ \E k \in 0..LastIndex(node[i].log) : CrashInAppend(i, k)
         \/ CrashBeforeAdvance(i)
  PROVE  VotesAgree'
<1>1. /\ node \in [Server -> Node] /\ disk \in [Server -> Disk]
      /\ NodeVotes(i, node[i], msgs) /\ Bound(i, disk[i].term, disk[i].vote, msgs)
  BY DEF VotesAgree, TypeInv, TypeOK
<1>2. ASSUME NEW d, d.term = disk[i].term, d.vote = disk[i].vote, RestartFrom(i, d),
             UNCHANGED msgs
      PROVE  VotesAgree'
  <2> DEFINE n2 == Restart(i, d)
  <2>1. /\ n2.term = disk[i].term /\ n2.vote = disk[i].vote /\ n2.messages = {}
        /\ n2.state = "follower"
    BY <1>2 DEF Restart
  <2>2. node' = [node EXCEPT ![i] = n2] /\ disk' = [disk EXCEPT ![i] = d] /\ elected' = elected
    BY <1>2 DEF RestartFrom
  <2> HIDE DEF n2
  <2>3. OneChoice(i, msgs) BY <1>1 DEF NodeVotes, OneChoice
  <2>4. msgs \cup n2.messages = msgs BY <2>1
  <2>5. NodeVotes(i, n2, msgs) BY <1>1, <2>1, <2>3, <2>4 DEF NodeVotes
  <2>6. \A j \in Server : NodeVotes(j, node'[j], msgs) BY <1>1, <2>2, <2>5 DEF VotesAgree
  <2>7. \A j \in Server : Bound(j, disk'[j].term, disk'[j].vote, msgs)
    BY <1>1, <1>2, <2>2 DEF VotesAgree
  <2> QED BY <1>2, <2>2, <2>6, <2>7 DEF VotesAgree
<1>3. CASE Crash(i) BY <1>2, <1>3 DEF Crash
<1>4. ASSUME NEW k \in 0..LastIndex(node[i].log), CrashInAppend(i, k) PROVE VotesAgree'
  <2> DEFINE d == [disk[i] EXCEPT !.log = SubSeq(node[i].log, 1, k)]
  <2>1. d.term = disk[i].term /\ d.vote = disk[i].vote BY <1>1 DEF Disk
  <2>2. RestartFrom(i, d) /\ UNCHANGED msgs BY <1>4 DEF CrashInAppend
  <2> HIDE DEF d
  <2> QED BY <1>2, <2>1, <2>2
<1>5. CASE CrashBeforeAdvance(i)
  <2> DEFINE d == HardState(node[i], disk[i], node[i].committed)
             n2 == Restart(i, d)
             new == node[i].messages
  <2>1. d.term = node[i].term /\ d.vote = node[i].vote BY <1>1 DEF HardState, Disk
  <2>2. RestartFrom(i, d) /\ Transmit(new) BY <1>5 DEF CrashBeforeAdvance
  <2> HIDE DEF d
  <2>3. n2.term = d.term /\ n2.vote = d.vote /\ n2.messages = {} /\ n2.state = "follower"
    BY DEF Restart
  <2>4. node' = [node EXCEPT ![i] = n2] /\ disk' = [disk EXCEPT ![i] = d] /\ elected' = elected
    BY <2>2 DEF RestartFrom
  <2> HIDE DEF n2
  <2>5. \A m \in new : IsBallot(m) => m \in node[i].messages OBVIOUS
  <2> QED BY <2>1, <2>2, <2>3, <2>4, <2>5, TransmitVotes
<1> QED BY <1>3, <1>4, <1>5

\* No ballot is cast initially.
LEMMA VotesInit == Init => VotesAgree
<1> SUFFICES ASSUME Init PROVE VotesAgree OBVIOUS
<1>1. \A i \in Server : node[i].messages = {} /\ node[i].state = "follower"
  BY DEF Init, Restart
<1>2. msgs = {} /\ elected = {} BY DEF Init
<1> QED BY <1>1, <1>2 DEF VotesAgree, NodeVotes, Bound, OneChoice, GrantsAsked

\* The inductive invariant holds in every reachable state.
THEOREM VoteInvInductive == Spec => []VoteInv
<1>1. Init => VoteInv BY TypeInvInit, VotesInit DEF VoteInv
<1>2. VoteInv /\ TypeInv' /\ [Next]_vars => VoteInv'
  <2> SUFFICES ASSUME VoteInv, TypeInv', Many, [Next]_vars PROVE VotesAgree'
    BY DEF VoteInv, Many
  <2>1. TypeInv /\ VotesAgree BY DEF VoteInv
  <2>2. ASSUME NEW i \in Server, Ready(i) PROVE VotesAgree' BY <2>1, <2>2, ReadyVotes
  <2>3. ASSUME NEW m \in msgs, Receive(m) PROVE VotesAgree' BY <2>1, <2>3, ReceiveVotes
  <2>4. CASE UNCHANGED vars
    BY <2>1, <2>4 DEF vars, VotesAgree
  <2> QED BY <2>1, <2>2, <2>3, <2>4, LocalVotes, CrashVotes DEF Next
<1> QED BY <1>1, <1>2, TypeInvInductive, PTL DEF Spec

\* Where votes are in order, a term has one leader.
LEMMA ElectsOne == VoteInv => ElectionSafety
<1> SUFFICES ASSUME VoteInv, NEW e \in elected, NEW f \in elected, e[1] = f[1]
             PROVE  e[2] = f[2]
  BY DEF ElectionSafety
<1>1. e[2] \in Server /\ f[2] \in Server BY DEF VoteInv, TypeInv, TypeOK
<1>2. CASE ~ Many BY <1>1, <1>2 DEF Many
<1>3. CASE Many
  <2> DEFINE B(x) == Backers(x, e[1], msgs)
  <2>1. /\ IsQuorum(Incoming, Outgoing, B(e[2])) /\ IsQuorum(Incoming, Outgoing, B(f[2]))
    BY <1>3 DEF VoteInv, VotesAgree, WonBy
  <2>2. IsFiniteSet(Incoming) /\ IsFiniteSet(Outgoing) /\ Incoming \cup Outgoing # {}
    <3>1. Incoming \subseteq Server /\ Outgoing \subseteq Server BY RaftAssumption
    <3> QED BY <3>1, RaftAssumption, FS_Subset
  <2>3. PICK s \in B(e[2]) : s \in B(f[2])
    <3> HIDE DEF B
    <3> QED BY <2>1, <2>2, QuorumsMeet
  <2>4. s \in Server BY DEF Backers
  <2>5. OneChoice(s, msgs)
    <3>1. NodeVotes(s, node[s], msgs) BY <1>3, <2>4 DEF VoteInv, VotesAgree
    <3> QED BY <3>1 DEF NodeVotes, OneChoice
  <2> QED BY <2>3, <2>5 DEF Backers, OneChoice
<1> QED BY <1>2, <1>3

(***************************************************************************)
(* Election safety: at most one node ever leads a term, for any number of  *)
(* servers, any joint configuration and any pattern of crashes and message *)
(* loss, duplication and reordering (raft.zig's elections over the Ready   *)
(* cycle of ready_processor.zig).                                          *)
(***************************************************************************)
THEOREM ElectionSafetyHolds == Spec => []ElectionSafety
BY ElectsOne, VoteInvInductive, PTL

-----------------------------------------------------------------------------
(***************************************************************************)
(* Who a node takes for its leader.  Whoever is named as a leader was      *)
(* elected in the term, and nobody but the leader itself names itself:     *)
(* replication traffic comes from the leader of its term and never goes    *)
(* back to its sender, and a forwarded wish to transfer the leadership     *)
(* goes to the leader of its term.  Only a leader keeps track of others.   *)
(***************************************************************************)
FromLeader == {"append", "heartbeat"}
Replication == FromLeader \cup {"append_response", "heartbeat_response"}

LeadMsg(m, E) ==
  /\ m.type \in FromLeader => <<m.term, m.from>> \in E
  /\ m.type \in Replication => m.to # m.from
  /\ m.type = "transfer_leader" => <<m.term, m.to>> \in E

KnowsLeader(i, n, E) ==
  /\ n.leader_id # None => <<n.term, n.leader_id>> \in E
  /\ n.state = "leader" => n.leader_id = i
  /\ n.state = "follower" => n.leader_id # i
  /\ n.state \in {"pre_candidate", "candidate"} => n.leader_id = None
  /\ n.state # "leader" => n.prs = NoProgress
  /\ \A m \in n.messages : LeadMsg(m, E)

LeaderInv ==
  /\ \A i \in Server : KnowsLeader(i, node[i], elected)
  /\ \A m \in msgs : LeadMsg(m, elected)

\* A message that a node may send without naming a leader it does not know.
Proper(n, m) ==
  /\ m.type # "transfer_leader"
  /\ m.type \in Replication => m.from = n.id /\ m.to # n.id
  /\ m.type \in FromLeader => n.state = "leader" /\ m.term = n.term

\* A change that names no other leader.
SameLead(n, n2) ==
  /\ n2.id = n.id /\ n2.term = n.term /\ n2.state = n.state /\ n2.leader_id = n.leader_id
  /\ n.state # "leader" => n2.prs = n.prs
  /\ \A m \in n2.messages : m \in n.messages \/ Proper(n, m)

\* Who has been elected once node i is in state n.
Seated(i, n, E) == IF n.state = "leader" THEN E \cup {<<n.term, i>>} ELSE E

\* More elections leave every known leader elected.
LEMMA KnowsMore ==
  ASSUME NEW E, NEW F, E \subseteq F
  PROVE  /\ \A m : LeadMsg(m, E) => LeadMsg(m, F)
         /\ \A i, n : KnowsLeader(i, n, E) => KnowsLeader(i, n, F)
<1>1. \A m : LeadMsg(m, E) => LeadMsg(m, F) BY DEF LeadMsg
<1> QED BY <1>1 DEF KnowsLeader

\* A node that names no other leader still knows its leader.
LEMMA SameLeadKnows ==
  ASSUME NEW i \in Server, NEW n, n.id = i, NEW n2, NEW E, KnowsLeader(i, n, E), SameLead(n, n2)
  PROVE  KnowsLeader(i, n2, E)
<1>1. /\ n2.term = n.term /\ n2.state = n.state /\ n2.leader_id = n.leader_id
      /\ n.state # "leader" => n2.prs = n.prs
      /\ \A m \in n2.messages : m \in n.messages \/ Proper(n, m)
  BY DEF SameLead
<1>2. i # None BY RaftAssumption
<1>3. n.state = "leader" => <<n.term, i>> \in E BY <1>2 DEF KnowsLeader
<1>4. \A m : Proper(n, m) => LeadMsg(m, E) BY <1>3 DEF Proper, LeadMsg, Replication
<1> QED BY <1>1, <1>4 DEF KnowsLeader

\* Two such changes make one.
LEMMA SameLeadTransitive ==
  ASSUME NEW n, NEW n2, NEW n3, SameLead(n, n2), SameLead(n2, n3)
  PROVE  SameLead(n, n3)
<1>1. \A m : Proper(n2, m) => Proper(n, m) BY DEF SameLead, Proper
<1> QED BY <1>1 DEF SameLead

\* Changing other fields names no leader.
LEMMA FieldsSameLead ==
  ASSUME NEW n \in Node, NEW x, NEW y
  PROVE  /\ SameLead(n, n) /\ (n.state = "leader" => SameLead(n, [n EXCEPT !.prs = x]))
         /\ SameLead(n, [n EXCEPT !.committed = x])
         /\ SameLead(n, [n EXCEPT !.log = x]) /\ SameLead(n, [n EXCEPT !.log = x, !.persisted = y])
         /\ SameLead(n, [n EXCEPT !.persisted = x]) /\ SameLead(n, [n EXCEPT !.elapsed = x])
         /\ SameLead(n, [n EXCEPT !.lead_transferee = x])
         /\ SameLead(n, [n EXCEPT !.elapsed = x, !.lead_transferee = y])
         /\ SameLead(n, [n EXCEPT !.votes = x])
BY DEF SameLead, Node

-----------------------------------------------------------------------------
\* The handlers that name no leader.
LEMMA SendSameLead ==
  ASSUME NEW n \in Node, NEW m, Proper(n, m)
  PROVE  SameLead(n, Send(n, m))
BY DEF SameLead, Send, Node

\* A leader may send appends to another node.
LEMMA AppendMsgsProper ==
  ASSUME NEW n, n.state = "leader", NEW to, to # n.id, NEW c
  PROVE  /\ \A m \in AppendMsgs(n, to, c) : Proper(n, m)
         /\ \A m \in AppendsTo(n, to) : Proper(n, m)
<1>1. \A k : Proper(n, AppendMsg(n, to, k)) BY DEF Proper, Replication, FromLeader, AppendMsg, Msg
<1> QED BY <1>1 DEF AppendMsgs, AppendsTo

\* SendAppend of a leader names no leader.
LEMMA SendAppendSameLead ==
  ASSUME NEW n \in Node, n.state = "leader", NEW to \in Server, to # n.id
  PROVE  SameLead(n, SendAppend(n, to))
<1> DEFINE new == AppendsTo(n, to)
           n2  == SendAppend(n, to)
<1>1. \A m \in new : Proper(n, m) BY AppendMsgsProper
<1> HIDE DEF new
<1>2. n2.messages = n.messages \cup new BY DEF SendAppend, Node, new
<1>3. n2.id = n.id /\ n2.term = n.term /\ n2.state = n.state /\ n2.leader_id = n.leader_id
  BY DEF SendAppend, Node
<1> QED BY <1>1, <1>2, <1>3 DEF SameLead

\* SendAppendAggressively of a leader names no leader.
LEMMA SendAppendAggressivelySameLead ==
  ASSUME NEW n \in Node, n.state = "leader", NEW to \in Server, to # n.id
  PROVE  SameLead(n, SendAppendAggressively(n, to))
<1> DEFINE new == AppendMsgs(n, to, SendCount(n, n.prs[to], MaxInflight))
           n2 == SendAppendAggressively(n, to)
<1>1. \A m \in new : Proper(n, m) BY AppendMsgsProper
<1> HIDE DEF new
<1>2. n2.messages = n.messages \cup new BY DEF SendAppendAggressively, Node, new
<1>3. n2.id = n.id /\ n2.term = n.term /\ n2.state = n.state /\ n2.leader_id = n.leader_id
  BY DEF SendAppendAggressively, Node
<1> QED BY <1>1, <1>2, <1>3 DEF SameLead

\* BroadcastAppend of a leader names no leader.
LEMMA BroadcastAppendSameLead ==
  ASSUME NEW n \in Node, n.state = "leader"
  PROVE  SameLead(n, BroadcastAppend(n))
<1> DEFINE new == UNION {AppendsTo(n, s) : s \in Peers(n)}
           n2 == BroadcastAppend(n)
<1>1. \A m \in new : Proper(n, m) BY AppendMsgsProper DEF Peers
<1> HIDE DEF new
<1>2. n2.messages = n.messages \cup new BY DEF BroadcastAppend, Node, new
<1>3. n2.id = n.id /\ n2.term = n.term /\ n2.state = n.state /\ n2.leader_id = n.leader_id
  BY DEF BroadcastAppend, Node
<1> QED BY <1>1, <1>2, <1>3 DEF SameLead

\* Committing names no leader.
LEMMA CommitSameLead ==
  ASSUME NEW n \in Node, NEW k, NEW t, NEW m
  PROVE  /\ SameLead(n, MaybeCommit(n)) /\ SameLead(n, CommitTo(n, k))
         /\ SameLead(n, MaybeCommitByVote(n, m))
<1>1. SameLead(n, n) /\ \A x : SameLead(n, [n EXCEPT !.committed = x]) BY FieldsSameLead
<1>2. \A j, u : SameLead(n, LogMaybeCommit(n, j, u)) BY <1>1 DEF LogMaybeCommit
<1>3. SameLead(n, MaybeCommit(n)) BY <1>1 DEF MaybeCommit
<1>4. SameLead(n, CommitTo(n, k)) BY <1>1 DEF CommitTo
<1> QED BY <1>1, <1>2, <1>3, <1>4 DEF MaybeCommitByVote

\* HandleAppendEntries names no leader beyond the one already followed.
LEMMA HandleAppendEntriesSameLead ==
  ASSUME NEW i \in Server, NEW b \in Nat, NEW n, NodeOK(i, n, b), NEW m \in Message, m.from # i
  PROVE  SameLead(n, HandleAppendEntries(n, m))
<1> DEFINE resp == Msg(n, "append_response", m.from)
           n2   == HandleAppendEntries(n, m)
           k    == MinOf(m.commit, m.index + Len(m.entries))
           l    == LogAppend(n, m)
<1>1. n \in Node /\ n.id = i /\ SameLead(n, n) BY FieldsSameLead DEF NodeOK
<1>2. \A x, y, z, w : Proper(n, [resp EXCEPT !.index = x, !.reject = y, !.reject_hint = z,
                                              !.log_term = w])
  BY <1>1 DEF Proper, Replication, FromLeader, Msg
<1>3. \A x : Proper(n, [resp EXCEPT !.index = x])
  BY <1>1 DEF Proper, Replication, FromLeader, Msg
<1>4. CASE m.index < n.committed \/ AppendIsFatal(n, m) \/ ~ MatchTerm(n.log, m.index, m.log_term)
  <2> DEFINE hint == FindConflictByTerm(n.log, MinOf(m.index, LastIndex(n.log)), m.log_term)
             no   == [resp EXCEPT !.index = m.index, !.reject = TRUE, !.reject_hint = hint,
                                  !.log_term = TermAt(n.log, hint)]
             old  == [resp EXCEPT !.index = n.committed]
  <2>1. n2 = n \/ n2 = Send(n, old) \/ n2 = Send(n, no)
    BY <1>4 DEF HandleAppendEntries
  <2>2. Proper(n, no) /\ Proper(n, old) BY <1>2, <1>3
  <2> HIDE DEF n2, no, old, resp
  <2> QED BY <2>1, <2>2, <1>1, SendSameLead DEF n2
<1>5. CASE ~ (m.index < n.committed \/ AppendIsFatal(n, m) \/ ~ MatchTerm(n.log, m.index, m.log_term))
  <2>1. n.committed <= m.index BY <1>1, <1>5 DEF Node, Message
  <2>2. NodeOK(i, l, b) BY <1>5, <2>1, LogAppendOK
  <2>3. k \in Nat
    <3>1. m.commit \in Nat /\ m.index \in Nat /\ Len(m.entries) \in Nat
      BY LenProperties DEF Message
    <3>2. m.index + Len(m.entries) \in Nat BY <3>1
    <3> QED BY <3>1, <3>2, MinMax
  <2>4. NodeOK(i, CommitTo(l, k), b) BY <2>2, <2>3, CommitToOK
  <2>5. SameLead(n, l)
    <3>1. \A x, y : SameLead(n, [n EXCEPT !.log = x, !.persisted = y])
      BY <1>1, FieldsSameLead
    <3> QED BY <1>1, <3>1 DEF LogAppend
  <2>6. SameLead(l, CommitTo(l, k)) BY <2>2, CommitSameLead DEF NodeOK
  <2>7. PICK c : Proper(n, c) /\ n2 = Send(CommitTo(l, k), c)
    BY <1>3, <1>5 DEF HandleAppendEntries
  <2> HIDE DEF n2, l, k
  <2>8. SameLead(n, CommitTo(l, k)) BY <2>5, <2>6, SameLeadTransitive
  <2>9. Proper(CommitTo(l, k), c) BY <2>7, <2>8 DEF Proper, SameLead
  <2>10. SameLead(CommitTo(l, k), n2) BY <2>4, <2>7, <2>9, SendSameLead DEF NodeOK
  <2> QED BY <2>8, <2>10, SameLeadTransitive DEF n2
<1> QED BY <1>4, <1>5

\* HandleHeartbeat names no leader beyond the one already followed.
LEMMA HandleHeartbeatSameLead ==
  ASSUME NEW i \in Server, NEW b \in Nat, NEW n, NodeOK(i, n, b), NEW m \in Message, m.from # i
  PROVE  SameLead(n, HandleHeartbeat(n, m))
<1> DEFINE c == CommitTo(n, m.commit)
           r == Msg(n, "heartbeat_response", m.from)
<1>1. NodeOK(i, c, b) /\ n.id = i
  <2>1. m.commit \in Nat BY DEF Message
  <2>2. n.id = i BY DEF NodeOK
  <2> QED BY <2>1, <2>2, CommitToOK
<1>2. SameLead(n, c) BY CommitSameLead DEF NodeOK
<1>3. Proper(n, r) BY <1>1 DEF Proper, Replication, FromLeader, Msg
<1>4. HandleHeartbeat(n, m) = Send(c, r) BY DEF HandleHeartbeat
<1> HIDE DEF c, r
<1>5. Proper(c, r) BY <1>2, <1>3 DEF SameLead, Proper
<1>6. SameLead(c, Send(c, r)) BY <1>1, <1>5, SendSameLead DEF NodeOK
<1> QED BY <1>2, <1>4, <1>6, SameLeadTransitive

\* SendTimeoutNow names no leader.
LEMMA SendTimeoutNowSameLead ==
  ASSUME NEW n \in Node, NEW to
  PROVE  SameLead(n, SendTimeoutNow(n, to))
<1>1. Proper(n, Msg(n, "timeout_now", to)) BY DEF Proper, Replication, FromLeader, Msg
<1> QED BY <1>1, SendSameLead DEF SendTimeoutNow

\* HandleTransferLeader of a leader names no leader.
LEMMA HandleTransferLeaderSameLead ==
  ASSUME NEW i \in Server, NEW b \in Nat, NEW n, NodeOK(i, n, b), n.state = "leader",
         NEW to \in Server
  PROVE  SameLead(n, HandleTransferLeader(n, to))
<1> DEFINE t == [n EXCEPT !.elapsed = FALSE, !.lead_transferee = to]
<1>1. n \in Node BY DEF NodeOK
<1>2. /\ SameLead(n, t) /\ SameLead(n, n) /\ SameLead(n, [n EXCEPT !.lead_transferee = None])
  BY <1>1, FieldsSameLead
<1>3. t \in Node /\ t.state = "leader" /\ t.id = n.id BY <1>1 DEF Node
<1> HIDE DEF t
<1>4. SameLead(n, SendTimeoutNow(t, to))
  BY <1>2, <1>3, SendTimeoutNowSameLead, SameLeadTransitive
<1>5. to # n.id => SameLead(n, SendAppend(t, to))
  BY <1>2, <1>3, SendAppendSameLead, SameLeadTransitive
<1> QED BY <1>2, <1>4, <1>5 DEF HandleTransferLeader, t

\* HandlePropose of a leader names no leader.
LEMMA HandleProposeSameLead ==
  ASSUME NEW i \in Server, NEW b \in Nat, NEW n, NodeOK(i, n, b), n.state = "leader",
         NEW val \in Value \cup {Noop}
  PROVE  SameLead(n, HandlePropose(n, val))
<1> DEFINE a == AppendEntry(n, val)
<1>1. n \in Node /\ a \in Node /\ SameLead(n, n) BY AppendEntryOK, FieldsSameLead DEF NodeOK
<1>2. SameLead(n, a) BY <1>1, FieldsSameLead DEF AppendEntry
<1> HIDE DEF a
<1>3. a.state = "leader" BY <1>2 DEF SameLead
<1>4. SameLead(n, BroadcastAppend(a))
  BY <1>1, <1>2, <1>3, BroadcastAppendSameLead, SameLeadTransitive
<1> QED BY <1>1, <1>4 DEF HandlePropose, a

\* BroadcastHeartbeat of a leader names no leader.
LEMMA BroadcastHeartbeatSameLead ==
  ASSUME NEW n \in Node, n.state = "leader"
  PROVE  SameLead(n, BroadcastHeartbeat(n))
<1> DEFINE beat(s) == [Msg(n, "heartbeat", s) EXCEPT
                         !.commit = MinOf(n.prs[s].matched, n.committed)]
           new == {beat(s) : s \in Peers(n)}
           n2 == BroadcastHeartbeat(n)
<1>1. \A s \in Peers(n) : Proper(n, beat(s)) BY DEF Proper, Replication, FromLeader, Msg, Peers
<1>2. \A m \in new : Proper(n, m) BY <1>1
<1> HIDE DEF new
<1>3. n2.messages = n.messages \cup new BY DEF BroadcastHeartbeat, Node, new
<1>4. n2.id = n.id /\ n2.term = n.term /\ n2.state = n.state /\ n2.leader_id = n.leader_id
  BY DEF BroadcastHeartbeat, Node
<1> QED BY <1>2, <1>3, <1>4 DEF SameLead

\* HandleAppendResponse of a leader names no leader.
LEMMA HandleAppendResponseSameLead ==
  ASSUME NEW i \in Server, NEW b \in Nat, NEW n, NodeOK(i, n, b), n.state = "leader",
         NEW m \in Message, m.from # i
  PROVE  SameLead(n, HandleAppendResponse(n, m))
<1> DEFINE hint  == IF m.reject /\ m.log_term > 0
                      THEN FindConflictByTerm(n.log, m.reject_hint, m.log_term)
                      ELSE m.reject_hint
           h     == [n.prs[m.from] EXCEPT !.recent_active = TRUE]
           heard == [n EXCEPT !.prs[m.from].recent_active = TRUE]
           pr    == heard.prs[m.from]
           ackpr == AckTo(pr, m.index)
           acked == [heard EXCEPT !.prs[m.from] = ackpr]
           decpr == DecTo(pr, m, hint)
           dec   == [heard EXCEPT !.prs[m.from] = decpr]
           sent  == IF MayCommit(acked) THEN BroadcastAppend(MaybeCommit(acked))
                    ELSE IF IsPaused(pr) THEN SendAppend(acked, m.from)
                    ELSE acked
           final == SendAppendAggressively(sent, m.from)
<1>1. /\ n \in Node /\ n.id = i /\ n.log \in Seq(Entry) /\ m.from \in Server /\ m.index \in Nat
      /\ m.log_term \in Nat /\ m.reject_hint \in Nat
  BY DEF NodeOK, Node, Message
<1>2. hint \in Nat BY <1>1, FindConflictByTermNat
<1>3. h \in Progress /\ SoundProgress(h)
  <2>1. n.prs[m.from] \in Progress /\ SoundProgress(n.prs[m.from])
    BY <1>1 DEF NodeOK, Node
  <2> QED BY <2>1, HeardSound
<1>a. heard = [n EXCEPT !.prs[m.from] = h] OBVIOUS
<1> HIDE DEF h, hint, heard
<1>4. NodeOK(i, heard, b) BY <1>1, <1>3, <1>a, OneProgressOK
<1>5. SameLead(n, heard) BY <1>1, <1>a DEF SameLead, Node
<1>6. pr \in Progress /\ SoundProgress(pr) /\ heard \in Node
  BY <1>1, <1>4 DEF NodeOK, Node
<1> HIDE DEF pr
<1>7. /\ ackpr \in Progress /\ SoundProgress(ackpr)
      /\ decpr \in Progress /\ SoundProgress(decpr)
  BY <1>1, <1>2, <1>6, AckToOK, DecToOK
<1> HIDE DEF ackpr, decpr
<1>8. NodeOK(i, acked, b) /\ NodeOK(i, dec, b) BY <1>1, <1>4, <1>7, OneProgressOK
<1>c. heard.state = "leader" BY <1>5 DEF SameLead
<1>9. SameLead(heard, acked) /\ SameLead(heard, dec) BY <1>6, <1>c DEF SameLead, Node
<1> HIDE DEF acked, dec
<1>10. SameLead(n, acked) /\ SameLead(n, dec) BY <1>5, <1>9, SameLeadTransitive
<1>b. \A x : SameLead(n, x) => x.state = "leader" /\ x.id # m.from BY <1>1 DEF SameLead
<1> DEFINE c == MaybeCommit(acked)
<1>11. NodeOK(i, c, b) /\ SameLead(n, c)
  BY <1>8, <1>10, MaybeCommitOK, CommitSameLead, SameLeadTransitive DEF NodeOK
<1> HIDE DEF c
<1>12. SameLead(n, BroadcastAppend(c))
  BY <1>11, <1>b, BroadcastAppendSameLead, SameLeadTransitive DEF NodeOK
<1>13. SameLead(n, SendAppend(acked, m.from)) /\ SameLead(n, SendAppend(dec, m.from))
  BY <1>1, <1>8, <1>10, <1>b, SendAppendSameLead, SameLeadTransitive DEF NodeOK
<1>14. NodeOK(i, sent, b)
  BY <1>1, <1>8, <1>11, BroadcastAppendOK, SendAppendOK DEF c
<1>15. SameLead(n, sent) BY <1>10, <1>12, <1>13 DEF c
<1> HIDE DEF sent
<1>16. NodeOK(i, final, b) BY <1>1, <1>14, SendAppendAggressivelyOK
<1>17. SameLead(n, final)
  BY <1>1, <1>14, <1>15, <1>b, SendAppendAggressivelySameLead, SameLeadTransitive DEF NodeOK
<1> HIDE DEF final
<1>18. SameLead(n, SendTimeoutNow(final, m.from))
  BY <1>16, <1>17, SendTimeoutNowSameLead, SameLeadTransitive DEF NodeOK
<1>19. HandleAppendResponse(n, m) \in
         {heard, SendAppend(dec, m.from), acked, SendTimeoutNow(final, m.from), final}
  BY DEF HandleAppendResponse, hint, heard, pr, ackpr, acked, decpr, dec, sent, final
<1> QED BY <1>5, <1>10, <1>13, <1>17, <1>18, <1>19

\* HandleHeartbeatResponse of a leader names no leader.
LEMMA HandleHeartbeatResponseSameLead ==
  ASSUME NEW i \in Server, NEW b \in Nat, NEW n, NodeOK(i, n, b), n.state = "leader",
         NEW m \in Message, m.from # i
  PROVE  SameLead(n, HandleHeartbeatResponse(n, m))
<1> DEFINE pr == n.prs[m.from]
           p2 == [pr EXCEPT !.recent_active = TRUE, !.paused = FALSE,
                            !.inflights = IF pr.state = "replicate" /\ IsPaused(pr)
                                            THEN FreeTo(@, Head(@)) ELSE @]
           h  == [n EXCEPT !.prs[m.from] = p2]
<1>1. m.from \in Server /\ n \in Node /\ n.id = i BY DEF Message, NodeOK
<1> HIDE DEF p2
<1>2. SameLead(n, h) BY <1>1 DEF SameLead, Node
<1>3. "messages" \in DOMAIN h /\ "term" \in DOMAIN h /\ "id" \in DOMAIN h
      /\ "state" \in DOMAIN h /\ "leader_id" \in DOMAIN h
  BY <1>1 DEF Node
<1>4. HandleHeartbeatResponse(n, m) \in {h, SendAppend(h, m.from)}
  BY DEF HandleHeartbeatResponse, p2
<1> HIDE DEF h
<1>5. h.state = "leader" /\ m.from # h.id BY <1>1, <1>2 DEF SameLead
<1>6. SameLead(h, SendAppend(h, m.from))
  <2> DEFINE new == AppendsTo(h, m.from)
             s   == SendAppend(h, m.from)
  <2>1. \A x \in new : Proper(h, x) BY <1>5, AppendMsgsProper
  <2> HIDE DEF new
  <2>2. s.messages = h.messages \cup new BY <1>3 DEF SendAppend, new
  <2>3. s.id = h.id /\ s.term = h.term /\ s.state = h.state /\ s.leader_id = h.leader_id
    BY <1>3 DEF SendAppend
  <2> QED BY <1>5, <2>1, <2>2, <2>3 DEF SameLead
<1> QED BY <1>2, <1>4, <1>6, SameLeadTransitive

\* OnPersistEntries names no leader.
LEMMA OnPersistEntriesSameLead ==
  ASSUME NEW i \in Server, NEW b \in Nat, NEW n, NodeOK(i, n, b)
  PROVE  SameLead(n, OnPersistEntries(n))
<1> DEFINE last == LastIndex(n.log)
           p == [n EXCEPT !.persisted = last]
           own == [n.prs[n.id] EXCEPT !.matched = last, !.next_idx = MaxOf(@, last + 1)]
           a == [p EXCEPT !.prs[n.id] = own]
           o == OnPersistEntries(n)
<1>1. /\ n \in Node /\ n.id = i /\ last \in Nat
  BY LenProperties DEF NodeOK, Node, LastIndex
<1>2. p \in Node /\ SameLead(n, p) /\ SameLead(n, n) BY <1>1, FieldsSameLead DEF Node
<1>3. own \in Progress
  <2>1. n.prs[n.id] \in Progress BY <1>1 DEF Node
  <2>2. MaxOf(n.prs[n.id].next_idx, last + 1) \in Nat \ {0}
    BY <1>1, <2>1 DEF MaxOf, Progress
  <2> DEFINE x == MaxOf(n.prs[n.id].next_idx, last + 1)
  <2>3. own = [n.prs[n.id] EXCEPT !.matched = last, !.next_idx = x] OBVIOUS
  <2> HIDE DEF x, own
  <2> QED BY <1>1, <2>1, <2>2, <2>3 DEF Progress, x
<1> HIDE DEF own, last
<1>4. a \in Node /\ (n.state = "leader" => SameLead(n, a))
  BY <1>1, <1>2, <1>3 DEF Node, SameLead
<1>5. a = [p EXCEPT !.prs[n.id].matched = last, !.prs[n.id].next_idx = MaxOf(@, last + 1)]
  BY <1>1, <1>2 DEF own, Node, Progress
<1> HIDE DEF a, p
<1>6. o \in {n, p} \/ (n.state = "leader" /\ o \in {a, BroadcastAppend(MaybeCommit(a))})
  BY <1>5 DEF OnPersistEntries, p, last
<1>7. MaybeCommit(a) \in Node /\ (n.state = "leader" => SameLead(n, MaybeCommit(a)))
  <2>1. CASE ~ MayCommit(a) BY <1>4, <2>1 DEF MaybeCommit
  <2>2. CASE MayCommit(a)
    <3> DEFINE k == CHOOSE x \in 1..LastIndex(a.log) : CanCommit(a, x)
    <3>1. k \in 1..LastIndex(a.log) BY <2>2 DEF MayCommit
    <3>2. k \in Nat BY <3>1
    <3>3. MaybeCommit(a) = [a EXCEPT !.committed = k] BY <2>2 DEF MaybeCommit
    <3> HIDE DEF k
    <3>4. MaybeCommit(a) \in Node BY <1>4, <3>2, <3>3 DEF Node
    <3> QED BY <1>4, <3>4, CommitSameLead, SameLeadTransitive
  <2> QED BY <2>1, <2>2
<1>8. n.state = "leader" => SameLead(n, BroadcastAppend(MaybeCommit(a)))
  <2>1. n.state = "leader" => MaybeCommit(a).state = "leader" BY <1>7 DEF SameLead
  <2> QED BY <1>7, <2>1, BroadcastAppendSameLead, SameLeadTransitive
<1> HIDE DEF o
<1>9. SameLead(n, o) BY <1>2, <1>4, <1>6, <1>8
<1> QED BY <1>9 DEF o

-----------------------------------------------------------------------------
\* The handlers that name a leader, or none.
LEMMA BecomeFollowerKnows ==
  ASSUME NEW i \in Server, NEW n \in Node, NEW E, KnowsLeader(i, n, E), NEW t \in Nat,
         NEW leader, leader # i, leader # None => <<t, leader>> \in E
  PROVE  KnowsLeader(i, BecomeFollower(n, t, leader), E)
<1> DEFINE r  == Reset(n, t)
           n2 == BecomeFollower(n, t, leader)
<1>1. r.term = t /\ r.messages = n.messages /\ "term" \in DOMAIN r /\ "state" \in DOMAIN r
      /\ "leader_id" \in DOMAIN r /\ "messages" \in DOMAIN r /\ "prs" \in DOMAIN r
      /\ r.prs = NoProgress
  BY DEF Reset, Node
<1> HIDE DEF r
<1>2. /\ n2.term = t /\ n2.state = "follower" /\ n2.leader_id = leader
      /\ n2.messages = n.messages /\ n2.prs = NoProgress
  BY <1>1 DEF BecomeFollower, r
<1> HIDE DEF n2
<1>3. KnowsLeader(i, n2, E) BY <1>2 DEF KnowsLeader
<1> QED BY <1>3 DEF n2

\* Observing a term names only the sender of replication traffic.
LEMMA ObserveTermKnows ==
  ASSUME NEW i \in Server, NEW n \in Node, NEW E, KnowsLeader(i, n, E),
         NEW m \in Message, m.to = i, LeadMsg(m, E)
  PROVE  KnowsLeader(i, ObserveTerm(n, m), E)
<1> DEFINE leader == IF m.type \in FromLeader THEN m.from ELSE None
<1>1. ObserveTerm(n, m) \in {n, BecomeFollower(n, m.term, leader)}
  BY DEF ObserveTerm, FromLeader
<1>2. None # i /\ m.term \in Nat BY RaftAssumption DEF Message
<1>3. leader # i /\ (leader # None => <<m.term, leader>> \in E)
  BY <1>2 DEF LeadMsg, Replication
<1> HIDE DEF leader
<1>4. KnowsLeader(i, BecomeFollower(n, m.term, leader), E)
  BY <1>2, <1>3, BecomeFollowerKnows
<1> QED BY <1>1, <1>4

\* Accepting the sender of replication traffic of the node's term.
LEMMA FollowLeaderKnows ==
  ASSUME NEW i \in Server, NEW n \in Node, NEW E, KnowsLeader(i, n, E), n.state # "leader",
         NEW m \in Message, m.to = i, LeadMsg(m, E), m.type \in FromLeader, m.term = n.term
  PROVE  KnowsLeader(i, FollowLeader(n, m), E)
<1> DEFINE f == [n EXCEPT !.elapsed = FALSE, !.leader_id = m.from]
<1>1. m.from # i /\ <<m.term, m.from>> \in E /\ m.term \in Nat
  BY DEF LeadMsg, Replication, Message
<1>2. KnowsLeader(i, BecomeFollower(n, m.term, m.from), E) BY <1>1, BecomeFollowerKnows
<1>3. /\ f.term = n.term /\ f.state = n.state /\ f.leader_id = m.from
      /\ f.messages = n.messages /\ f.prs = n.prs
  BY DEF Node
<1> HIDE DEF f
<1>4. n.state = "follower" => KnowsLeader(i, f, E) BY <1>1, <1>3 DEF KnowsLeader
<1>5. n.state \in {"pre_candidate", "candidate"} \/ n.state = "follower" BY DEF Node, Role
<1> QED BY <1>2, <1>4, <1>5 DEF FollowLeader, f

\* Asking for votes names no leader.
LEMMA RequestVotesSameLead ==
  ASSUME NEW n \in Node, NEW type \in VoteRequestType, NEW t, NEW force
  PROVE  SameLead(n, RequestVotes(n, type, t, force))
<1> DEFINE new == {VoteRequest(n, type, t, s, force) : s \in Peers(n)}
           n2 == RequestVotes(n, type, t, force)
<1>1. \A s : VoteRequest(n, type, t, s, force).type = type BY DEF VoteRequest, Msg
<1>2. \A m \in new : m.type \in VoteRequestType BY <1>1
<1>3. \A m \in new : Proper(n, m) BY <1>2 DEF Proper, Replication, FromLeader, VoteRequestType
<1> HIDE DEF new
<1>4. n2.messages = n.messages \cup new BY DEF RequestVotes, Node, new
<1>5. /\ n2.id = n.id /\ n2.term = n.term /\ n2.state = n.state
      /\ n2.leader_id = n.leader_id /\ n2.prs = n.prs
  BY DEF RequestVotes, Node
<1> QED BY <1>3, <1>4, <1>5 DEF SameLead

\* A new leader names itself, and is elected.
LEMMA BecomeLeaderKnows ==
  ASSUME NEW i \in Server, NEW b \in Nat, NEW n, NodeOK(i, n, b), NEW E, KnowsLeader(i, n, E)
  PROVE  LET x == BroadcastAppend(BecomeLeader(n)) IN KnowsLeader(i, x, Seated(i, x, E))
<1> DEFINE r == Reset(n, n.term)
           l == [r EXCEPT !.leader_id = n.id, !.state = "leader", !.prs = LeaderProgress(n)]
           n2 == BecomeLeader(n)
           x == BroadcastAppend(n2)
           F == E \cup {<<n.term, i>>}
<1>1. n \in Node /\ r \in Node /\ n2 \in Node /\ n.id = i /\ NodeOK(i, n2, b)
  BY ResetOK, BecomeLeaderOK DEF NodeOK, Node
<1>2. r.term = n.term /\ r.messages = n.messages /\ r.id = i BY <1>1 DEF Reset, Node
<1>3. n2 = AppendEntry(l, Noop) BY DEF BecomeLeader
<1> HIDE DEF r, n2
<1>4. /\ l.term = n.term /\ l.messages = n.messages /\ l.state = "leader" /\ l.leader_id = i
      /\ l.id = i
  BY <1>1, <1>2 DEF Node
<1>5. "log" \in DOMAIN l /\ "term" \in DOMAIN l /\ "leader_id" \in DOMAIN l /\ "id" \in DOMAIN l
      /\ "messages" \in DOMAIN l /\ "state" \in DOMAIN l
  BY <1>1 DEF Node
<1> HIDE DEF l
<1>6. /\ n2.term = n.term /\ n2.messages = n.messages /\ n2.state = "leader"
      /\ n2.leader_id = i /\ n2.id = i
  BY <1>3, <1>4, <1>5 DEF AppendEntry
<1>7. KnowsLeader(i, n, F) BY KnowsMore
<1>8. KnowsLeader(i, n2, F) BY <1>6, <1>7 DEF KnowsLeader
<1>9. SameLead(n2, x) BY <1>1, <1>6, BroadcastAppendSameLead
<1> HIDE DEF x
<1>10. KnowsLeader(i, x, F) BY <1>6, <1>8, <1>9, SameLeadKnows
<1>11. Seated(i, x, E) = F BY <1>6, <1>9 DEF Seated, SameLead
<1> QED BY <1>10, <1>11 DEF x, n2

\* What a node in office or not knows, it knows when it is seated.
LEMMA SeatedKnows ==
  ASSUME NEW i, NEW x, NEW E, KnowsLeader(i, x, E)
  PROVE  KnowsLeader(i, x, Seated(i, x, E))
<1>1. E \subseteq Seated(i, x, E) BY DEF Seated
<1> QED BY <1>1, KnowsMore

\* A campaign for an election forgets the leader, unless it elects its node.
LEMMA CampaignElectionKnows ==
  ASSUME NEW i \in Server, NEW b \in Nat, NEW n, NodeOK(i, n, b), NEW force \in BOOLEAN,
         NEW E, KnowsLeader(i, n, E)
  PROVE  KnowsLeader(i, CampaignElection(n, force), Seated(i, CampaignElection(n, force), E))
<1> DEFINE r == Reset(n, n.term + 1)
           d == BecomeCandidate(n)
           c == RecordVote(d, n.id, TRUE)
           x == RequestVotes(c, "request_vote", c.term, force)
<1>1. n \in Node /\ n.term \in Nat /\ n.id = i BY DEF NodeOK, Node
<1>2. n.term + 1 \in Nat /\ NodeOK(i, r, b) BY <1>1, ResetOK
<1>3. r.leader_id = None /\ r.messages = n.messages /\ r.prs = NoProgress
  BY <1>1 DEF Reset, Node
<1>4. d = [r EXCEPT !.vote = n.id, !.state = "candidate"] BY DEF BecomeCandidate
<1>5. r \in Node BY <1>2 DEF NodeOK
<1> HIDE DEF r
<1>6. NodeOK(i, d, b) BY <1>1, <1>2, <1>4 DEF NodeOK, Node, Role
<1>7. /\ d.leader_id = None /\ d.messages = n.messages /\ d.state = "candidate"
      /\ d.prs = NoProgress
  BY <1>3, <1>4, <1>5 DEF Node
<1> HIDE DEF d
<1>8. NodeOK(i, c, b) BY <1>1, <1>6, RecordVoteOK
<1>9. /\ c.leader_id = None /\ c.messages = n.messages /\ c.state = "candidate"
      /\ c.prs = NoProgress
  BY <1>6, <1>7 DEF RecordVote, NodeOK, Node
<1>10. CampaignElection(n, force) \in {BroadcastAppend(BecomeLeader(c)), x}
  BY DEF CampaignElection, d
<1> HIDE DEF c
<1>11. KnowsLeader(i, c, E) BY <1>9 DEF KnowsLeader
<1>12. SameLead(c, x) /\ c.id = i
  BY <1>8, RequestVotesSameLead DEF NodeOK, VoteRequestType
<1>13. KnowsLeader(i, x, E) BY <1>11, <1>12, SameLeadKnows
<1> HIDE DEF x
<1>14. KnowsLeader(i, x, Seated(i, x, E)) BY <1>13, SeatedKnows
<1> QED BY <1>8, <1>10, <1>11, <1>14, BecomeLeaderKnows

\* So does a pre-campaign.
LEMMA CampaignPreElectionKnows ==
  ASSUME NEW i \in Server, NEW b \in Nat, NEW n, NodeOK(i, n, b), NEW E, KnowsLeader(i, n, E),
         n.state # "leader"
  PROVE  KnowsLeader(i, CampaignPreElection(n), Seated(i, CampaignPreElection(n), E))
<1> DEFINE d == BecomePreCandidate(n)
           c == RecordVote(d, n.id, TRUE)
           x == RequestVotes(c, "request_pre_vote", c.term + 1, FALSE)
<1>1. n \in Node /\ n.id = i BY DEF NodeOK
<1>a. n.prs = NoProgress BY DEF KnowsLeader
<1>2. /\ NodeOK(i, d, b) /\ d.leader_id = None /\ d.messages = n.messages
      /\ d.state = "pre_candidate" /\ d.prs = n.prs
  BY <1>1 DEF BecomePreCandidate, NodeOK, Node, Role, NoVotes, VoteValue
<1> HIDE DEF d
<1>3. NodeOK(i, c, b) BY <1>1, <1>2, RecordVoteOK
<1>4. /\ c.leader_id = None /\ c.messages = n.messages /\ c.state = "pre_candidate"
      /\ c.prs = n.prs
  BY <1>2 DEF RecordVote, NodeOK, Node
<1>5. CampaignPreElection(n) \in {CampaignElection(c, FALSE), x}
  BY DEF CampaignPreElection, d
<1> HIDE DEF c
<1>6. KnowsLeader(i, c, E) BY <1>4, <1>a DEF KnowsLeader
<1>7. SameLead(c, x) /\ c.id = i
  BY <1>3, RequestVotesSameLead DEF NodeOK, VoteRequestType
<1>8. KnowsLeader(i, x, E) BY <1>6, <1>7, SameLeadKnows
<1> HIDE DEF x
<1>9. KnowsLeader(i, x, Seated(i, x, E)) BY <1>8, SeatedKnows
<1> QED BY <1>3, <1>5, <1>6, <1>9, CampaignElectionKnows

\* Hence any campaign.
LEMMA HupKnows ==
  ASSUME NEW i \in Server, NEW b \in Nat, NEW n, NodeOK(i, n, b), NEW transfer \in BOOLEAN,
         NEW E, KnowsLeader(i, n, E)
  PROVE  KnowsLeader(i, Hup(n, transfer), Seated(i, Hup(n, transfer), E))
BY CampaignElectionKnows, CampaignPreElectionKnows, SeatedKnows DEF Hup

\* Counting an answer.
LEMMA PollKnows ==
  ASSUME NEW i \in Server, NEW b \in Nat, NEW n, NodeOK(i, n, b),
         NEW from \in Server, NEW granted \in BOOLEAN, NEW E, KnowsLeader(i, n, E)
  PROVE  KnowsLeader(i, Poll(n, from, granted), Seated(i, Poll(n, from, granted), E))
<1> DEFINE r == RecordVote(n, from, granted)
           f == BecomeFollower(r, r.term, None)
<1>1. NodeOK(i, r, b) BY RecordVoteOK
<1>2. n \in Node /\ n.id = i /\ None # i BY RaftAssumption DEF NodeOK
<1>3. SameLead(n, r) BY <1>2 DEF RecordVote, SameLead, Node
<1> HIDE DEF r
<1>4. KnowsLeader(i, r, E) BY <1>2, <1>3, SameLeadKnows
<1>5. r \in Node /\ r.term \in Nat BY <1>1 DEF NodeOK, Node
<1>6. KnowsLeader(i, f, E) BY <1>2, <1>4, <1>5, BecomeFollowerKnows
<1>7. KnowsLeader(i, r, Seated(i, r, E)) /\ KnowsLeader(i, f, Seated(i, f, E))
  BY <1>4, <1>6, SeatedKnows
<1>8. Tally(r) \in {"pending", "lost", "won"} BY DEF Tally, JointVoteResult
<1>9. Poll(n, from, granted) \in
        {r, f, CampaignElection(r, FALSE), BroadcastAppend(BecomeLeader(r))}
  BY <1>8 DEF Poll, r
<1> QED BY <1>1, <1>4, <1>7, <1>9, CampaignElectionKnows, BecomeLeaderKnows

\* An answer to a campaign.
LEMMA HandleVoteResponseKnows ==
  ASSUME NEW i \in Server, NEW b \in Nat, NEW n, NodeOK(i, n, b), NEW m \in Message,
         NEW E, KnowsLeader(i, n, E)
  PROVE  KnowsLeader(i, HandleVoteResponse(n, m), Seated(i, HandleVoteResponse(n, m), E))
<1> DEFINE p == Poll(n, m.from, ~ m.reject)
           x == MaybeCommitByVote(p, m)
<1>1. m.from \in Server /\ (~ m.reject) \in BOOLEAN BY DEF Message
<1>2. NodeOK(i, p, b) BY <1>1, PollOK
<1>3. KnowsLeader(i, p, Seated(i, p, E)) BY <1>1, PollKnows
<1>4. HandleVoteResponse(n, m) \in {n, x} BY DEF HandleVoteResponse
<1> HIDE DEF p
<1>5. SameLead(p, x) /\ p.id = i BY <1>2, CommitSameLead DEF NodeOK
<1>6. Seated(i, x, E) = Seated(i, p, E) BY <1>5 DEF SameLead, Seated
<1>7. KnowsLeader(i, x, Seated(i, x, E)) BY <1>3, <1>5, <1>6, SameLeadKnows
<1> HIDE DEF x
<1> QED BY <1>4, <1>7, SeatedKnows

\* A request for votes.
LEMMA HandleVoteRequestSameLead ==
  ASSUME NEW i \in Server, NEW b \in Nat, NEW n, NodeOK(i, n, b), NEW m \in Message
  PROVE  SameLead(n, HandleVoteRequest(n, m))
<1> DEFINE resp == Msg(n, VoteRespType(m.type), m.from)
           yes  == [resp EXCEPT !.term = m.term]
           no   == [resp EXCEPT !.reject = TRUE, !.commit = n.committed,
                                !.commit_term = TermAt(n.log, n.committed)]
           g    == Send(n, yes)
           v    == [g EXCEPT !.elapsed = FALSE, !.vote = m.from]
           d    == Send(n, no)
<1>1. n \in Node /\ n.id = i /\ m.from \in Server BY DEF NodeOK, Message
<1>2. Proper(n, yes) /\ Proper(n, no)
  BY DEF Proper, Replication, FromLeader, Msg, VoteRespType
<1>3. no \in Message
  <2>1. n.committed \in Nat /\ TermAt(n.log, n.committed) \in Nat
    BY <1>1, TermAtNat DEF Node
  <2>2. resp \in Message BY <1>1, MsgIsMessage DEF VoteRespType, MsgType
  <2> HIDE DEF resp
  <2> QED BY <2>1, <2>2 DEF Message
<1>4. HandleVoteRequest(n, m) \in {g, v, MaybeCommitByVote(d, m)}
  BY DEF HandleVoteRequest
<1> HIDE DEF yes, no
<1>5. SameLead(n, g) /\ SameLead(n, d) /\ d \in Node
  BY <1>1, <1>2, <1>3, SendSameLead, SendOK DEF NodeOK
<1>6. SameLead(n, v)
  <2>1. v.id = g.id /\ v.term = g.term /\ v.state = g.state /\ v.leader_id = g.leader_id
        /\ v.messages = g.messages /\ v.prs = g.prs
    BY <1>1 DEF Send, Node
  <2> HIDE DEF g, v
  <2> QED BY <1>5, <2>1 DEF SameLead
<1> HIDE DEF d, g, v
<1>7. SameLead(n, MaybeCommitByVote(d, m)) BY <1>5, CommitSameLead, SameLeadTransitive
<1> QED BY <1>4, <1>5, <1>6, <1>7

\* The leader's election timeout.
LEMMA LeaderTimeoutKnows ==
  ASSUME NEW i \in Server, NEW b \in Nat, NEW n, NodeOK(i, n, b), NEW E, KnowsLeader(i, n, E),
         n.state = "leader"
  PROVE  KnowsLeader(i, LeaderTimeout(n), E)
<1> DEFINE w == [n EXCEPT !.lead_transferee = None]
           z == [NewWindow(n) EXCEPT !.elapsed = FALSE, !.lead_transferee = None]
           f == BecomeFollower(n, n.term, None)
<1>1. n \in Node /\ n.id = i /\ n.term \in Nat /\ None # i BY RaftAssumption DEF NodeOK, Node
<1>2. SameLead(n, w) BY <1>1, FieldsSameLead
<1>3. SameLead(n, z)
  <2>1. /\ z.id = n.id /\ z.term = n.term /\ z.state = n.state
        /\ z.leader_id = n.leader_id /\ z.messages = n.messages
    BY <1>1 DEF NewWindow, Node
  <2> HIDE DEF z
  <2> QED BY <2>1 DEF SameLead
<1>4. KnowsLeader(i, f, E) BY <1>1, BecomeFollowerKnows
<1>5. LeaderTimeout(n) \in {w, z, f} BY DEF LeaderTimeout
<1> HIDE DEF w, z, f
<1> QED BY <1>1, <1>2, <1>3, <1>4, <1>5, SameLeadKnows

-----------------------------------------------------------------------------
\* What one action leaves of LeaderInv to show: node i knows its leader, and
\* what it sent names leaders only.
LEMMA LeaderStep ==
  ASSUME TypeInv, LeaderInv, NEW i \in Server, NEW x, node' = [node EXCEPT ![i] = x],
         elected \subseteq elected', KnowsLeader(i, x, elected'),
         \A m \in msgs' : m \in msgs \/ LeadMsg(m, elected')
  PROVE  LeaderInv'
<1>1. node \in [Server -> Node] BY DEF TypeInv, TypeOK
<1>2. node'[i] = x /\ \A j \in Server : j # i => node'[j] = node[j] BY <1>1
<1> DEFINE F == elected'
<1>3. /\ \A m : LeadMsg(m, elected) => LeadMsg(m, F)
      /\ \A j, n : KnowsLeader(j, n, elected) => KnowsLeader(j, n, F)
  <2> HIDE DEF F
  <2> QED BY KnowsMore DEF F
<1>4. \A j \in Server : KnowsLeader(j, node'[j], F)
  <2> SUFFICES ASSUME NEW j \in Server PROVE KnowsLeader(j, node'[j], F) OBVIOUS
  <2>1. CASE j = i BY <1>2, <2>1
  <2>2. CASE j # i BY <1>2, <1>3, <2>2 DEF LeaderInv
  <2> QED BY <2>1, <2>2
<1>5. \A m \in msgs' : LeadMsg(m, F) BY <1>3 DEF LeaderInv
<1> QED BY <1>4, <1>5 DEF LeaderInv

\* An action that applies a handler and touches neither disk nor network.
LEMMA BecomeKnows ==
  ASSUME TypeInv, LeaderInv, NEW i \in Server, NEW x, Become(i, x), UNCHANGED <<disk, msgs>>,
         KnowsLeader(i, x, Seated(i, x, elected))
  PROVE  LeaderInv'
<1>1. elected' = Seated(i, x, elected) /\ node' = [node EXCEPT ![i] = x] BY DEF Become, Seated
<1>2. elected \subseteq elected' BY <1>1 DEF Seated
<1>3. KnowsLeader(i, x, elected') BY <1>1
<1>4. \A m \in msgs' : m \in msgs OBVIOUS
<1> QED BY <1>1, <1>2, <1>3, <1>4, LeaderStep

\* What is known of a node.
LEMMA LeaderContext ==
  ASSUME TypeInv, LeaderInv, NEW i \in Server
  PROVE  /\ NodeOK(i, node[i], disk[i].commit) /\ disk[i].commit \in Nat
         /\ node[i] \in Node /\ node[i].id = i /\ disk[i] \in Disk
         /\ KnowsLeader(i, node[i], elected) /\ msgs \in SUBSET Message
BY DEF TypeInv, TypeOK, LeaderInv, NodeOK, Disk

\* The actions of one node that touch neither its disk nor the network.
LEMMA LocalKnows ==
  ASSUME TypeInv, LeaderInv, NEW i \in Server,
         \/ Campaign(i)
         \/ LeaseExpires(i)
         \/ LeaderTick(i)
         \/ Beat(i)
         \/ \E v \in Value : Propose(i, v)
         \/ \E s \in Server : TransferLeader(i, s)
         \/ \E s \in Server : Unreachable(i, s)
  PROVE  LeaderInv'
<1> DEFINE n == node[i]
           b == disk[i].commit
           E == elected
<1>1. NodeOK(i, n, b) /\ b \in Nat /\ n \in Node /\ n.id = i /\ KnowsLeader(i, n, E)
  BY LeaderContext
<1>2. \A x : SameLead(n, x) => KnowsLeader(i, x, E) BY <1>1, SameLeadKnows
<1>3. \A x : KnowsLeader(i, x, Seated(i, x, E)) /\ Become(i, x) /\ UNCHANGED <<disk, msgs>>
               => LeaderInv'
  BY BecomeKnows
<1>4. \A x : KnowsLeader(i, x, E) /\ Become(i, x) /\ UNCHANGED <<disk, msgs>> => LeaderInv'
  BY <1>3, SeatedKnows
<1> HIDE DEF b
<1>5. CASE Campaign(i)
  <2> DEFINE c == [n EXCEPT !.elapsed = FALSE]
  <2>1. NodeOK(i, c, b) /\ SameLead(n, c) BY <1>1, FieldsSameLead DEF NodeOK, Node
  <2>2. Become(i, Hup(c, FALSE)) /\ UNCHANGED <<disk, msgs>> BY <1>5 DEF Campaign
  <2> HIDE DEF c
  <2>3. KnowsLeader(i, c, E) BY <1>2, <2>1
  <2>4. KnowsLeader(i, Hup(c, FALSE), Seated(i, Hup(c, FALSE), E))
    BY <1>1, <2>1, <2>3, HupKnows
  <2> QED BY <1>3, <2>2, <2>4
<1>6. CASE LeaseExpires(i)
  <2> DEFINE c == [n EXCEPT !.elapsed = TRUE]
  <2>1. SameLead(n, c) BY <1>1, FieldsSameLead
  <2>2. node' = [node EXCEPT ![i] = c] /\ elected' = elected /\ UNCHANGED <<disk, msgs>>
    BY <1>6 DEF LeaseExpires
  <2> HIDE DEF c
  <2>3. KnowsLeader(i, c, elected') BY <1>2, <2>1, <2>2
  <2>4. elected \subseteq elected' /\ \A m \in msgs' : m \in msgs BY <2>2
  <2> QED BY <2>2, <2>3, <2>4, LeaderStep
<1>7. CASE LeaderTick(i)
  <2>1. KnowsLeader(i, LeaderTimeout(n), E) BY <1>1, <1>7, LeaderTimeoutKnows DEF LeaderTick
  <2> QED BY <1>4, <1>7, <2>1 DEF LeaderTick
<1>8. CASE Beat(i)
  <2>1. n.state = "leader" BY <1>8 DEF Beat
  <2>2. SameLead(n, BroadcastHeartbeat(n)) BY <1>1, <2>1, BroadcastHeartbeatSameLead
  <2> QED BY <1>2, <1>4, <1>8, <2>2 DEF Beat
<1>9. ASSUME NEW v \in Value, Propose(i, v) PROVE LeaderInv'
  <2> DEFINE m == ProposeMsg(i, n.leader_id, v)
  <2>1. n.state = "leader" => SameLead(n, HandlePropose(n, v)) BY <1>1, HandleProposeSameLead
  <2>2. Proper(n, m) BY DEF ProposeMsg, Msg, Proper, Replication, FromLeader
  <2> HIDE DEF m
  <2>3. SameLead(n, Send(n, m)) BY <1>1, <2>2, SendSameLead
  <2> QED BY <1>2, <1>4, <1>9, <2>1, <2>3 DEF Propose, m
<1>10. ASSUME NEW s \in Server, TransferLeader(i, s) PROVE LeaderInv'
  <2> DEFINE m == [Msg(n, "transfer_leader", n.leader_id) EXCEPT !.from = s]
             x == Send(n, m)
  <2>1. n.state = "leader" => SameLead(n, HandleTransferLeader(n, s))
    BY <1>1, HandleTransferLeaderSameLead
  <2>2. ASSUME n.leader_id # None PROVE KnowsLeader(i, x, E)
    <3>1. LeadMsg(m, E) BY <1>1, <2>2 DEF Msg, LeadMsg, Replication, FromLeader, KnowsLeader
    <3> HIDE DEF m
    <3>2. /\ x.term = n.term /\ x.state = n.state /\ x.leader_id = n.leader_id
          /\ x.messages = n.messages \cup {m} /\ x.prs = n.prs
      BY <1>1 DEF Send, Node
    <3> HIDE DEF x
    <3> QED BY <1>1, <3>1, <3>2 DEF KnowsLeader
  <2> HIDE DEF m
  <2> QED BY <1>2, <1>4, <1>10, <2>1, <2>2 DEF TransferLeader, m
<1>11. ASSUME NEW s \in Server, Unreachable(i, s) PROVE LeaderInv'
  <2> DEFINE pr == [n.prs[s] EXCEPT !.state = "probe", !.next_idx = n.prs[s].matched + 1,
                                    !.paused = FALSE, !.inflights = <<>>]
  <2>1. Become(i, [n EXCEPT !.prs[s] = pr]) /\ UNCHANGED <<disk, msgs>>
    BY <1>11 DEF Unreachable
  <2> HIDE DEF pr
  <2>a. n.state = "leader" BY <1>11 DEF Unreachable
  <2>2. SameLead(n, [n EXCEPT !.prs[s] = pr]) BY <1>1, <2>a DEF Node, SameLead
  <2> QED BY <1>2, <1>4, <2>1, <2>2
<1> QED BY <1>5, <1>6, <1>7, <1>8, <1>9, <1>10, <1>11

\* Every delivery of a message of the network.
LEMMA ReceiveKnows ==
  ASSUME TypeInv, LeaderInv, NEW m \in msgs, Receive(m)
  PROVE  LeaderInv'
<1> DEFINE i == m.to
           n == node[i]
           b == disk[i].commit
           o == Observed(m)
           E == elected
<1>1. m \in Message /\ i \in Server /\ m.from \in Server /\ m.term \in Nat
      /\ m.entries \in Seq(Entry) /\ LeadMsg(m, E)
  BY DEF TypeInv, TypeOK, Message, LeaderInv
<1>2. NodeOK(i, n, b) /\ b \in Nat /\ n \in Node /\ n.id = i /\ n.term \in Nat
      /\ KnowsLeader(i, n, E)
  BY <1>1, LeaderContext DEF NodeOK, Node
<1>3. NodeOK(i, o, b) /\ o = ObserveTerm(n, m) BY <1>1, <1>2, ObserveTermOK DEF Observed
<1>4. o \in Node /\ o.id = i BY <1>3 DEF NodeOK
<1>5. KnowsLeader(i, o, E)
  <2> HIDE DEF n, o, b, E
  <2> QED BY <1>1, <1>2, <1>3, ObserveTermKnows
<1>6. ASSUME Current(m), m.type \in FromLeader
      PROVE  m.term = o.term /\ m.from # i
  <2>1. m.term >= n.term /\ ~ KeepsTerm(m) BY <1>6 DEF Current, KeepsTerm, FromLeader
  <2>2. m.from # i BY <1>1, <1>6 DEF LeadMsg, Replication
  <2>3. CASE m.term <= n.term BY <1>1, <1>2, <1>3, <2>1, <2>2, <2>3 DEF ObserveTerm
  <2>4. CASE ~ (m.term <= n.term)
    <3> DEFINE f == BecomeFollower(n, m.term, m.from)
    <3>1. o = f BY <1>3, <1>6, <2>1, <2>4 DEF ObserveTerm, FromLeader
    <3>2. f.term = m.term BY <1>1, <1>2, BecomeFollowerTerm
    <3> QED BY <2>2, <3>1, <3>2
  <2> QED BY <2>3, <2>4
<1>7. m.type \in {"append_response", "heartbeat_response"} => m.from # i
  BY <1>1 DEF LeadMsg, Replication
<1>8. \A x : KnowsLeader(i, x, Seated(i, x, E)) /\ Become(i, x) /\ UNCHANGED <<disk, msgs>>
               => LeaderInv'
  BY <1>1, BecomeKnows
<1>9. \A x : KnowsLeader(i, x, Seated(i, x, E)) /\ Deliver(m, x) => LeaderInv'
  BY <1>8 DEF Deliver
<1>10. \A x : KnowsLeader(i, x, E) /\ Deliver(m, x) => LeaderInv' BY <1>9, SeatedKnows
<1>11. \A x : SameLead(o, x) => KnowsLeader(i, x, E) BY <1>1, <1>4, <1>5, SameLeadKnows
<1>12. \A x : SameLead(n, x) => KnowsLeader(i, x, E) BY <1>1, <1>2, SameLeadKnows
<1> HIDE DEF n, b, o, E
<1>13. CASE ReceiveStale(m)
  <2> DEFINE x == [n EXCEPT !.messages = n.messages \cup StaleReply(n, m)]
  <2>1. \A r \in StaleReply(n, m) : Proper(n, r)
    <3>1. m.type \in FromLeader => m.from # n.id BY <1>1, <1>2 DEF LeadMsg, Replication
    <3> QED BY <3>1 DEF StaleReply, Msg, Proper, Replication, FromLeader
  <2>2. SameLead(n, x) BY <1>2, <2>1 DEF SameLead, Node
  <2>3. Deliver(m, x) BY <1>13 DEF ReceiveStale, n
  <2> HIDE DEF x
  <2> QED BY <1>10, <1>12, <2>2, <2>3
<1> HIDE DEF i
<1>14. CASE ReceiveVoteRequest(m)
  <2>1. Deliver(m, HandleVoteRequest(o, m)) BY <1>14 DEF ReceiveVoteRequest, o
  <2>2. SameLead(o, HandleVoteRequest(o, m))
    BY <1>1, <1>2, <1>3, HandleVoteRequestSameLead
  <2> QED BY <1>10, <1>11, <2>1, <2>2
<1>15. CASE ReceiveVoteResponse(m)
  <2>1. Deliver(m, HandleVoteResponse(o, m)) BY <1>15 DEF ReceiveVoteResponse, o
  <2> DEFINE x == HandleVoteResponse(o, m)
  <2>2. KnowsLeader(i, x, Seated(i, x, E))
    BY <1>1, <1>2, <1>3, <1>5, HandleVoteResponseKnows
  <2> HIDE DEF x
  <2> QED BY <1>9, <2>1, <2>2 DEF x
<1>16. CASE ReceiveAppend(m)
  <2> DEFINE f == FollowLeader(o, m)
  <2>1. Current(m) /\ o.state # "leader" /\ m.type = "append"
        /\ Deliver(m, HandleAppendEntries(f, m))
    BY <1>16 DEF ReceiveAppend, o
  <2>2. NodeOK(i, f, b) BY <1>1, <1>2, <1>3, FollowLeaderOK
  <2>3. m.type \in FromLeader /\ m.to = i BY <2>1 DEF FromLeader, i
  <2>4. m.term = o.term /\ m.from # i BY <1>6, <2>1, <2>3
  <2>5. KnowsLeader(i, f, E) BY <1>1, <1>4, <1>5, <2>1, <2>3, <2>4, FollowLeaderKnows
  <2> HIDE DEF f
  <2>6. SameLead(f, HandleAppendEntries(f, m))
    BY <1>1, <1>2, <2>2, <2>4, HandleAppendEntriesSameLead
  <2>7. KnowsLeader(i, HandleAppendEntries(f, m), E)
    BY <1>1, <2>2, <2>5, <2>6, SameLeadKnows DEF NodeOK
  <2> QED BY <1>10, <2>1, <2>7
<1>17. CASE ReceiveHeartbeat(m)
  <2> DEFINE f == FollowLeader(o, m)
  <2>1. Current(m) /\ o.state # "leader" /\ m.type = "heartbeat"
        /\ Deliver(m, HandleHeartbeat(f, m))
    BY <1>17 DEF ReceiveHeartbeat, o
  <2>2. NodeOK(i, f, b) BY <1>1, <1>2, <1>3, FollowLeaderOK
  <2>3. m.type \in FromLeader /\ m.to = i BY <2>1 DEF FromLeader, i
  <2>4. m.term = o.term /\ m.from # i BY <1>6, <2>1, <2>3
  <2>5. KnowsLeader(i, f, E) BY <1>1, <1>4, <1>5, <2>1, <2>3, <2>4, FollowLeaderKnows
  <2> HIDE DEF f
  <2>6. SameLead(f, HandleHeartbeat(f, m))
    BY <1>1, <1>2, <2>2, <2>4, HandleHeartbeatSameLead
  <2>7. KnowsLeader(i, HandleHeartbeat(f, m), E)
    BY <1>1, <2>2, <2>5, <2>6, SameLeadKnows DEF NodeOK
  <2> QED BY <1>10, <2>1, <2>7
<1>18. CASE ReceiveAppendResponse(m)
  <2>1. m.type = "append_response"
        /\ Deliver(m, IF o.state = "leader" THEN HandleAppendResponse(o, m) ELSE o)
    BY <1>18 DEF ReceiveAppendResponse, o
  <2>2. o.state = "leader" => SameLead(o, HandleAppendResponse(o, m))
    BY <1>1, <1>2, <1>3, <1>7, <2>1, HandleAppendResponseSameLead
  <2> QED BY <1>5, <1>10, <1>11, <2>1, <2>2
<1>19. CASE ReceiveHeartbeatResponse(m)
  <2>1. m.type = "heartbeat_response"
        /\ Deliver(m, IF o.state = "leader" THEN HandleHeartbeatResponse(o, m) ELSE o)
    BY <1>19 DEF ReceiveHeartbeatResponse, o
  <2>2. o.state = "leader" => SameLead(o, HandleHeartbeatResponse(o, m))
    BY <1>1, <1>2, <1>3, <1>7, <2>1, HandleHeartbeatResponseSameLead
  <2> QED BY <1>5, <1>10, <1>11, <2>1, <2>2
<1>20. CASE ReceiveTimeoutNow(m)
  <2> DEFINE x == Hup(o, TRUE)
  <2>1. Deliver(m, IF o.state = "follower" THEN x ELSE o) BY <1>20 DEF ReceiveTimeoutNow, o
  <2>2. KnowsLeader(i, x, Seated(i, x, E)) BY <1>1, <1>2, <1>3, <1>5, HupKnows
  <2> HIDE DEF x
  <2> QED BY <1>5, <1>9, <1>10, <2>1, <2>2
<1>21. CASE ReceiveTransferLeader(m)
  <2>1. Deliver(m, IF o.state = "leader" THEN HandleTransferLeader(o, m.from) ELSE o)
    BY <1>21 DEF ReceiveTransferLeader, o
  <2>2. o.state = "leader" => SameLead(o, HandleTransferLeader(o, m.from))
    BY <1>1, <1>2, <1>3, HandleTransferLeaderSameLead
  <2> QED BY <1>5, <1>10, <1>11, <2>1, <2>2
<1>22. CASE ReceivePropose(m)
  <2> DEFINE f == [m EXCEPT !.to = n.leader_id]
             v == m.entries[1].val
  <2>1. m.entries # <<>> /\ UNCHANGED <<disk, msgs>> /\ m.type = "propose"
    BY <1>22 DEF ReceivePropose
  <2>2. v \in Value \cup {Noop}
    <3>1. 1 \in 1..Len(m.entries) BY <1>1, <2>1, LenProperties, EmptySeq
    <3>2. m.entries[1] \in Entry BY <1>1, <3>1, ElementOfSeq
    <3> QED BY <3>2 DEF Entry
  <2> HIDE DEF v
  <2>3. n.state = "leader" => SameLead(n, HandlePropose(n, v))
    BY <1>1, <1>2, <2>2, HandleProposeSameLead
  <2>4. Proper(n, f) BY <1>1, <2>1 DEF Proper, Replication, FromLeader, Message
  <2> HIDE DEF f
  <2>5. SameLead(n, Send(n, f)) BY <1>2, <2>4, SendSameLead
  <2>6. \A x : SameLead(n, x) /\ Become(i, x) => LeaderInv'
    BY <1>8, <1>12, <2>1, SeatedKnows
  <2>7. (n.state = "leader" /\ Become(i, HandlePropose(n, v))) \/ Become(i, Send(n, f))
    BY <1>22 DEF ReceivePropose, f, v, n, i
  <2> QED BY <2>3, <2>5, <2>6, <2>7
<1> QED
  BY <1>13, <1>14, <1>15, <1>16, <1>17, <1>18, <1>19, <1>20, <1>21, <1>22 DEF Receive

\* A Ready sends what its node knows.
LEMMA ReadyKnows ==
  ASSUME TypeInv, LeaderInv, NEW i \in Server, Ready(i)
  PROVE  LeaderInv'
<1> DEFINE n == node[i]
           q == [n EXCEPT !.messages = {}]
           p == OnPersistEntries(q)
           x == [p EXCEPT !.messages = {}]
           b == disk[i].commit
           E == elected
<1>1. NodeOK(i, n, b) /\ b \in Nat /\ n \in Node /\ n.id = i /\ KnowsLeader(i, n, E)
  BY LeaderContext
<1>2. /\ NodeOK(i, q, b) /\ q.id = i /\ q.term = n.term /\ q.state = n.state
      /\ q.leader_id = n.leader_id /\ q.messages = {} /\ q.prs = n.prs
  BY <1>1 DEF NodeOK, Node
<1>3. Transmit(n.messages \cup p.messages) /\ Become(i, x) BY DEF Ready
<1> HIDE DEF q
<1>4. KnowsLeader(i, q, E) BY <1>1, <1>2 DEF KnowsLeader
<1>5. SameLead(q, p) /\ p \in Node
  BY <1>1, <1>2, OnPersistEntriesSameLead, OnPersistEntriesOK DEF NodeOK
<1> HIDE DEF p
<1>6. KnowsLeader(i, p, E) BY <1>2, <1>4, <1>5, SameLeadKnows
<1>7. /\ x.term = p.term /\ x.state = p.state /\ x.leader_id = p.leader_id /\ x.messages = {}
      /\ x.prs = p.prs
  BY <1>5 DEF Node
<1> HIDE DEF x
<1>8. KnowsLeader(i, x, E) BY <1>6, <1>7 DEF KnowsLeader
<1>9. KnowsLeader(i, x, Seated(i, x, E)) BY <1>8, SeatedKnows
<1>10. elected' = Seated(i, x, elected) /\ node' = [node EXCEPT ![i] = x]
  BY <1>3 DEF Become, Seated
<1>11. elected \subseteq elected' BY <1>10 DEF Seated
<1>12. KnowsLeader(i, x, elected') BY <1>9, <1>10
<1>13. \A m \in n.messages \cup p.messages : LeadMsg(m, elected)
  BY <1>1, <1>6 DEF KnowsLeader
<1>14. \A m : LeadMsg(m, elected) => LeadMsg(m, elected')
  <2> DEFINE F == elected'
  <2>1. elected \subseteq F BY <1>11
  <2> HIDE DEF F
  <2>2. \A m : LeadMsg(m, elected) => LeadMsg(m, F) BY <2>1, KnowsMore
  <2> QED BY <2>2 DEF F
<1>15. \A m \in msgs' : m \in msgs \/ LeadMsg(m, elected')
  BY <1>3, <1>13, <1>14 DEF Transmit
<1> QED BY <1>10, <1>11, <1>12, <1>15, LeaderStep

\* A node that restarts knows no leader.
LEMMA CrashKnows ==
  ASSUME TypeInv, LeaderInv, NEW i \in Server,
         \/ Crash(i)
         \/ \E k \in 0..LastIndex(node[i].log) : CrashInAppend(i, k)
         \/ CrashBeforeAdvance(i)
  PROVE  LeaderInv'
<1>1. PICK d : RestartFrom(i, d) /\ (msgs' = msgs \/ Transmit(node[i].messages))
  BY DEF Crash, CrashInAppend, CrashBeforeAdvance
<1> DEFINE x == Restart(i, d)
<1>2. /\ x.leader_id = None /\ x.state = "follower" /\ x.messages = {}
      /\ x.prs = NoProgress
  BY DEF Restart
<1>3. node' = [node EXCEPT ![i] = x] /\ elected' = elected BY <1>1 DEF RestartFrom
<1> HIDE DEF x
<1>4. None # i BY RaftAssumption
<1>5. KnowsLeader(i, x, elected') BY <1>2, <1>4 DEF KnowsLeader
<1>6. \A m \in node[i].messages : LeadMsg(m, elected) BY LeaderContext DEF KnowsLeader
<1>7. \A m \in msgs' : m \in msgs \/ LeadMsg(m, elected') BY <1>1, <1>3, <1>6 DEF Transmit
<1>8. elected \subseteq elected' BY <1>3
<1> QED BY <1>3, <1>5, <1>7, <1>8, LeaderStep

\* Initially nobody knows a leader.
LEMMA LeaderInit == Init => LeaderInv
<1> SUFFICES ASSUME Init PROVE LeaderInv OBVIOUS
<1>1. \A i \in Server : node[i].messages = {} /\ node[i].state = "follower"
                        /\ node[i].leader_id = None /\ node[i].prs = NoProgress
  BY DEF Init, Restart
<1>2. msgs = {} BY DEF Init
<1>3. \A i \in Server : i # None BY RaftAssumption
<1> QED BY <1>1, <1>2, <1>3 DEF LeaderInv, KnowsLeader

\* Whoever is taken for a leader was elected in that term (becomeFollower and
\* becomeLeader of raft.zig, over the messages that name a leader).
THEOREM LeaderInvInductive == Spec => [](TypeInv /\ LeaderInv)
<1>1. Init => LeaderInv BY LeaderInit
<1>2. TypeInv /\ LeaderInv /\ [Next]_vars => LeaderInv'
  <2> SUFFICES ASSUME TypeInv, LeaderInv, [Next]_vars PROVE LeaderInv' OBVIOUS
  <2>1. ASSUME NEW i \in Server, Ready(i) PROVE LeaderInv' BY <2>1, ReadyKnows
  <2>2. ASSUME NEW m \in msgs, Receive(m) PROVE LeaderInv' BY <2>2, ReceiveKnows
  <2>3. CASE UNCHANGED vars BY <2>3 DEF vars, LeaderInv
  <2> QED BY <2>1, <2>2, <2>3, LocalKnows, CrashKnows DEF Next
<1> QED BY <1>1, <1>2, TypeInvInductive, PTL DEF Spec

(***************************************************************************)
(* Raft.send never panics on a transfer request that is forwarded again:   *)
(* the node it was sent to was elected in the term it was sent in, so in   *)
(* that term it never follows anybody, and in a later one it knows no      *)
(* leader when the request arrives.                                        *)
(***************************************************************************)
THEOREM TransferIsNeverForwardedTwiceAlways == Spec => []TransferIsNeverForwardedTwice
<1>1. TypeInv /\ LeaderInv /\ ElectionSafety => TransferIsNeverForwardedTwice
  <2> SUFFICES ASSUME TypeInv, LeaderInv, ElectionSafety,
                      NEW m \in msgs, m.type = "transfer_leader", Current(m),
                      Observed(m).state = "follower", Observed(m).leader_id # None
               PROVE  FALSE
    BY DEF TransferIsNeverForwardedTwice
  <2> DEFINE i == m.to
             n == node[i]
  <2>1. m \in Message /\ i \in Server /\ m.term \in Nat /\ LeadMsg(m, elected)
    BY DEF TypeInv, TypeOK, Message, LeaderInv
  <2>2. n \in Node /\ n.term \in Nat /\ KnowsLeader(i, n, elected)
    BY <2>1, LeaderContext DEF Node
  <2>3. m.term >= n.term /\ ~ KeepsTerm(m) BY DEF Current, KeepsTerm
  <2>4. CASE m.term <= n.term
    <3>1. Observed(m) = n /\ m.term = n.term BY <2>1, <2>2, <2>3, <2>4 DEF Observed, ObserveTerm
    <3>2. <<n.term, n.leader_id>> \in elected /\ n.leader_id # i BY <2>2, <3>1 DEF KnowsLeader
    <3>3. <<n.term, i>> \in elected BY <2>1, <3>1 DEF LeadMsg
    <3> QED BY <3>2, <3>3 DEF ElectionSafety
  <2>5. CASE ~ (m.term <= n.term)
    <3> DEFINE r == Reset(n, m.term)
    <3>1. Observed(m) = BecomeFollower(n, m.term, None)
      BY <2>3, <2>5 DEF Observed, ObserveTerm
    <3>2. "leader_id" \in DOMAIN r BY <2>2 DEF Reset, Node
    <3> HIDE DEF r
    <3>3. BecomeFollower(n, m.term, None).leader_id = None BY <3>2 DEF BecomeFollower, r
    <3> QED BY <3>1, <3>3
  <2> QED BY <2>4, <2>5
<1> QED BY <1>1, LeaderInvInductive, ElectionSafetyHolds, PTL

-----------------------------------------------------------------------------
(***************************************************************************)
(* The durable term and vote never run ahead of the node, and a vote of a  *)
(* term is never taken back in memory either.                              *)
(***************************************************************************)
Forward(n, n2) ==
  \/ n2.term > n.term
  \/ n2.term = n.term /\ n.vote \in {None, n2.vote}

Behind(d, n) ==
  \/ d.term < n.term
  \/ d.term = n.term /\ d.vote \in {None, n.vote}

HardInv == TypeInv /\ \A i \in Server : Behind(disk[i], node[i])

\* Going forward twice.
LEMMA ForwardTransitive ==
  ASSUME NEW n \in Node, NEW n2 \in Node, NEW n3 \in Node, Forward(n, n2), Forward(n2, n3)
  PROVE  Forward(n, n3)
BY DEF Forward, Node

\* What does not concern votes goes forward.
LEMMA QuietForward ==
  ASSUME NEW n, NEW n2, Quiet(n, n2)
  PROVE  Forward(n, n2)
BY DEF Quiet, Forward

\* A disk behind a node is behind what the node becomes.
LEMMA ForwardKeepsBehind ==
  ASSUME NEW d \in Disk, NEW n \in Node, NEW n2 \in Node, Behind(d, n), Forward(n, n2)
  PROVE  Behind(d, n2)
BY DEF Behind, Forward, Disk, Node

\* BecomeFollower goes forward.
LEMMA BecomeFollowerForward ==
  ASSUME NEW n \in Node, NEW t \in Nat, t >= n.term, NEW leader
  PROVE  Forward(n, BecomeFollower(n, t, leader))
<1> DEFINE r == Reset(n, t)
<1>1. r.term = t /\ r.vote = (IF n.term = t THEN n.vote ELSE None)
      /\ "term" \in DOMAIN r /\ "vote" \in DOMAIN r
  BY DEF Reset, Node
<1>2. BecomeFollower(n, t, leader) = [r EXCEPT !.leader_id = leader, !.state = "follower"]
  BY DEF BecomeFollower
<1> HIDE DEF r
<1> QED BY <1>1, <1>2 DEF Forward, Node

\* ObserveTerm goes forward.
LEMMA ObserveTermForward ==
  ASSUME NEW n \in Node, NEW m \in Message
  PROVE  Forward(n, ObserveTerm(n, m))
<1>1. m.term \in Nat /\ n.term \in Nat BY DEF Message, Node
<1>2. Forward(n, n) BY DEF Forward
<1> QED BY <1>1, <1>2, BecomeFollowerForward DEF ObserveTerm

\* FollowLeader goes forward.
LEMMA FollowLeaderForward ==
  ASSUME NEW n \in Node, NEW m \in Message, m.term >= n.term
  PROVE  Forward(n, FollowLeader(n, m))
<1>1. m.term \in Nat /\ n.term \in Nat BY DEF Message, Node
<1>2. Forward(n, [n EXCEPT !.elapsed = FALSE, !.leader_id = m.from]) BY DEF Forward, Node
<1> QED BY <1>1, <1>2, BecomeFollowerForward DEF FollowLeader

\* The record c a campaign starts from: the next term, a vote for itself.
StartsCampaign(n, c) ==
  /\ c.term = n.term + 1 /\ c.state = "candidate" /\ c.vote = n.id /\ c.id = n.id
  /\ c.log = n.log /\ c.committed = n.committed /\ c.persisted = n.persisted
  /\ c.messages = n.messages /\ c.prs = NoProgress
  /\ c.votes = [NoVotes EXCEPT ![n.id] = "yes"]

\* A campaign starts so.
LEMMA NewCandidate ==
  ASSUME NEW i \in Server, NEW b \in Nat, NEW n, NodeOK(i, n, b)
  PROVE  /\ NodeOK(i, RecordVote(BecomeCandidate(n), n.id, TRUE), b)
         /\ StartsCampaign(n, RecordVote(BecomeCandidate(n), n.id, TRUE))
<1> DEFINE r == Reset(n, n.term + 1)
           d == BecomeCandidate(n)
           c == RecordVote(d, n.id, TRUE)
<1>1. n \in Node /\ n.id = i /\ n.term + 1 \in Nat BY DEF NodeOK, Node
<1>2. NodeOK(i, c, b) BY <1>1, BecomeCandidateOK, RecordVoteOK
<1>3. /\ r.term = n.term + 1 /\ r.id = i /\ r.log = n.log /\ r.committed = n.committed
      /\ r.persisted = n.persisted /\ r.messages = n.messages /\ r.prs = NoProgress
      /\ r.votes = NoVotes /\ DOMAIN r = DOMAIN n
  BY <1>1 DEF Reset, Node
<1>4. d = [r EXCEPT !.vote = i, !.state = "candidate"] BY <1>1 DEF BecomeCandidate
<1>5. DOMAIN n = {"id", "term", "vote", "state", "leader_id", "lead_transferee", "elapsed",
                  "votes", "log", "committed", "persisted", "prs", "messages"}
  BY <1>1 DEF Node
<1> HIDE DEF r, d
<1>6. /\ d.term = n.term + 1 /\ d.id = i /\ d.log = n.log /\ d.committed = n.committed
      /\ d.persisted = n.persisted /\ d.messages = n.messages /\ d.prs = NoProgress
      /\ d.votes = NoVotes /\ d.vote = i /\ d.state = "candidate" /\ DOMAIN d = DOMAIN n
  BY <1>3, <1>4, <1>5
<1>7. c = [d EXCEPT !.votes[i] = "yes"] BY <1>1 DEF RecordVote
<1>8. c = [d EXCEPT !.votes = [NoVotes EXCEPT ![i] = "yes"]] BY <1>5, <1>6, <1>7
<1> HIDE DEF c
<1>9. StartsCampaign(n, c) BY <1>1, <1>5, <1>6, <1>8 DEF StartsCampaign
<1> QED BY <1>2, <1>9 DEF c, d

\* The record l a new leader starts from: one new entry, fresh Progress.
TakesOffice(n, l) ==
  /\ l.term = n.term /\ l.vote = n.vote /\ l.state = "leader" /\ l.id = n.id
  /\ l.log = Append(n.log, [term |-> n.term, val |-> Noop])
  /\ l.committed = n.committed /\ l.persisted = n.persisted
  /\ l.messages = n.messages /\ l.prs = LeaderProgress(n)

\* A leader starts so.
LEMMA NewLeader ==
  ASSUME NEW i \in Server, NEW b \in Nat, NEW n, NodeOK(i, n, b)
  PROVE  NodeOK(i, BecomeLeader(n), b) /\ TakesOffice(n, BecomeLeader(n))
<1> DEFINE l == BecomeLeader(n)
           r == Reset(n, n.term)
           d == [r EXCEPT !.leader_id = n.id, !.state = "leader", !.prs = LeaderProgress(n)]
<1>1. n \in Node /\ n.id = i /\ n.term \in Nat BY DEF NodeOK, Node
<1>2. NodeOK(i, l, b) BY BecomeLeaderOK
<1>3. /\ r.term = n.term /\ r.vote = n.vote /\ r.id = i /\ r.log = n.log
      /\ r.committed = n.committed /\ r.persisted = n.persisted
      /\ r.messages = n.messages /\ DOMAIN r = DOMAIN n
  BY <1>1 DEF Reset, Node
<1>5. DOMAIN n = {"id", "term", "vote", "state", "leader_id", "lead_transferee", "elapsed",
                  "votes", "log", "committed", "persisted", "prs", "messages"}
  BY <1>1 DEF Node
<1> HIDE DEF r
<1>6. /\ d.term = n.term /\ d.vote = n.vote /\ d.id = i /\ d.log = n.log
      /\ d.committed = n.committed /\ d.persisted = n.persisted
      /\ d.messages = n.messages /\ d.state = "leader" /\ d.prs = LeaderProgress(n)
      /\ DOMAIN d = DOMAIN n
  BY <1>3, <1>5
<1>7. l = AppendEntry(d, Noop) BY DEF BecomeLeader, r
<1> HIDE DEF d, l
<1>8. TakesOffice(n, l) BY <1>1, <1>5, <1>6, <1>7 DEF AppendEntry, TakesOffice
<1> QED BY <1>2, <1>8 DEF l

\* Every campaign goes forward, also one that wins at once.
LEMMA CampaignElectionForward ==
  ASSUME NEW i \in Server, NEW b \in Nat, NEW n, NodeOK(i, n, b), NEW force \in BOOLEAN
  PROVE  Forward(n, CampaignElection(n, force))
<1> DEFINE c == RecordVote(BecomeCandidate(n), n.id, TRUE)
           l == BecomeLeader(c)
<1>1. n.term \in Nat /\ n.id \in Server BY DEF NodeOK, Node
<1>2. NodeOK(i, c, b) /\ StartsCampaign(n, c) BY NewCandidate
<1> HIDE DEF c
<1>3. NodeOK(i, l, b) /\ TakesOffice(c, l) BY <1>2, NewLeader
<1> HIDE DEF l
<1>4. BroadcastAppend(l).term = l.term BY <1>3, BroadcastAppendQuiet DEF NodeOK, Quiet
<1>5. RequestVotes(c, "request_vote", c.term, force).term = c.term
  BY <1>2 DEF RequestVotes, NodeOK, Node
<1>6. CampaignElection(n, force).term = n.term + 1
  BY <1>2, <1>3, <1>4, <1>5 DEF CampaignElection, StartsCampaign, TakesOffice, c, l
<1> QED BY <1>1, <1>6 DEF Forward

\* The record c a pre-campaign starts from.
StartsPreCampaign(n, c) ==
  /\ c.term = n.term /\ c.state = "pre_candidate" /\ c.vote = n.vote /\ c.id = n.id
  /\ c.log = n.log /\ c.committed = n.committed /\ c.persisted = n.persisted
  /\ c.messages = n.messages /\ c.votes = [NoVotes EXCEPT ![n.id] = "yes"]

\* A pre-campaign starts so.
LEMMA NewPreCandidate ==
  ASSUME NEW i \in Server, NEW b \in Nat, NEW n, NodeOK(i, n, b)
  PROVE  /\ NodeOK(i, RecordVote(BecomePreCandidate(n), n.id, TRUE), b)
         /\ StartsPreCampaign(n, RecordVote(BecomePreCandidate(n), n.id, TRUE))
<1> DEFINE d == BecomePreCandidate(n)
           c == RecordVote(d, n.id, TRUE)
<1>1. n \in Node /\ n.id = i BY DEF NodeOK
<1>2. NodeOK(i, d, b) BY BecomePreCandidateOK
<1>3. NodeOK(i, c, b) BY <1>1, <1>2, RecordVoteOK
<1>4. /\ d.term = n.term /\ d.vote = n.vote /\ d.state = "pre_candidate" /\ d.id = i
      /\ d.log = n.log /\ d.committed = n.committed /\ d.persisted = n.persisted
      /\ d.messages = n.messages /\ d.votes = NoVotes /\ d \in Node
  BY <1>1, <1>2 DEF BecomePreCandidate, NodeOK, Node
<1> HIDE DEF d
<1>5. c = [d EXCEPT !.votes[i] = "yes"] BY <1>1 DEF RecordVote
<1>6. c = [d EXCEPT !.votes = [NoVotes EXCEPT ![i] = "yes"]] BY <1>4, <1>5 DEF Node
<1> HIDE DEF c
<1>7. StartsPreCampaign(n, c) BY <1>1, <1>4, <1>6 DEF Node, StartsPreCampaign
<1> QED BY <1>3, <1>7 DEF c, d

\* A node with nothing but more messages.
Queues(n, n2, new) ==
  /\ n2.term = n.term /\ n2.state = n.state /\ n2.vote = n.vote /\ n2.id = n.id
  /\ n2.log = n.log /\ n2.committed = n.committed /\ n2.persisted = n.persisted
  /\ n2.prs = n.prs /\ n2.votes = n.votes /\ n2.messages = n.messages \cup new

\* The requests of a campaign.
Requests(n, type, t, force) == {VoteRequest(n, type, t, s, force) : s \in Peers(n)}

\* RequestVotes only queues requests.
LEMMA RequestVotesQueues ==
  ASSUME NEW n \in Node, NEW type, NEW t, NEW force
  PROVE  Queues(n, RequestVotes(n, type, t, force), Requests(n, type, t, force))
BY DEF RequestVotes, Requests, Node, Queues

\* Send only queues its message.
LEMMA SendQueues ==
  ASSUME NEW n \in Node, NEW m
  PROVE  Queues(n, Send(n, m), {m})
BY DEF Send, Node, Queues

\* Starting any campaign goes forward.
LEMMA HupForward ==
  ASSUME NEW i \in Server, NEW b \in Nat, NEW n, NodeOK(i, n, b), NEW transfer \in BOOLEAN
  PROVE  Forward(n, Hup(n, transfer))
<1> DEFINE c == RecordVote(BecomePreCandidate(n), n.id, TRUE)
           p == RequestVotes(c, "request_pre_vote", c.term + 1, FALSE)
           e == CampaignElection(c, FALSE)
<1>1. NodeOK(i, c, b) /\ StartsPreCampaign(n, c) BY NewPreCandidate
<1>2. CampaignPreElection(n) \in {e, p} BY DEF CampaignPreElection
<1> HIDE DEF c
<1>3. p.term = c.term /\ p.vote = c.vote
  <2>1. c \in Node BY <1>1 DEF NodeOK
  <2>2. Queues(c, p, Requests(c, "request_pre_vote", c.term + 1, FALSE))
    BY <2>1, RequestVotesQueues
  <2> QED BY <2>2 DEF Queues
<1>4. Forward(c, e) BY <1>1, CampaignElectionForward
<1> HIDE DEF e, p
<1>5. Forward(n, e) /\ Forward(n, p) BY <1>1, <1>3, <1>4 DEF Forward, StartsPreCampaign
<1>6. Forward(n, n) BY DEF Forward
<1>7. \A f \in BOOLEAN : Forward(n, CampaignElection(n, f)) BY CampaignElectionForward
<1> QED BY <1>2, <1>5, <1>6, <1>7 DEF Hup

\* Counting an answer goes forward.
LEMMA PollForward ==
  ASSUME NEW i \in Server, NEW b \in Nat, NEW n, NodeOK(i, n, b),
         NEW from \in Server, NEW granted \in BOOLEAN
  PROVE  Forward(n, Poll(n, from, granted))
<1> DEFINE r == RecordVote(n, from, granted)
           l == BecomeLeader(r)
           f == BecomeFollower(r, r.term, None)
           c == CampaignElection(r, FALSE)
<1>1. NodeOK(i, r, b) BY RecordVoteOK
<1>2. r.term = n.term /\ r.vote = n.vote BY DEF RecordVote, NodeOK, Node
<1>3. r \in Node /\ r.term \in Nat BY <1>1 DEF NodeOK, Node
<1> HIDE DEF r
<1>4. Forward(r, f) /\ Forward(r, c) /\ Forward(r, r)
  <2>1. r.term >= r.term BY <1>3
  <2>2. Forward(r, f) BY <1>3, <2>1, BecomeFollowerForward
  <2>3. Forward(r, r) BY DEF Forward
  <2> QED BY <1>1, <2>2, <2>3, CampaignElectionForward
<1>5. NodeOK(i, l, b) /\ TakesOffice(r, l) BY <1>1, NewLeader
<1> HIDE DEF l, f, c
<1>6. Forward(r, BroadcastAppend(l))
  <2>1. Quiet(l, BroadcastAppend(l)) BY <1>5, BroadcastAppendQuiet DEF NodeOK
  <2> QED BY <1>5, <2>1 DEF Quiet, Forward, TakesOffice
<1>7. Tally(r) \in {"pending", "lost", "won"} BY DEF Tally, JointVoteResult
<1>8. Poll(n, from, granted) \in {r, f, c, BroadcastAppend(l)}
  BY <1>7 DEF Poll, r, f, c, l
<1> QED BY <1>2, <1>4, <1>6, <1>8 DEF Forward

\* Voting goes forward: a vote is cast only where there was none.
LEMMA VotingForward ==
  ASSUME NEW i \in Server, NEW b \in Nat, NEW n, NodeOK(i, n, b), NEW m \in Message,
         m.type = "request_vote" => m.term = n.term
  PROVE  /\ Forward(n, HandleVoteResponse(n, m))
         /\ m.type \in VoteRequestType => Forward(n, HandleVoteRequest(n, m))
<1>1. m.from \in Server /\ (~ m.reject) \in BOOLEAN /\ n \in Node BY DEF Message, NodeOK
<1>2. Forward(n, n) BY DEF Forward
<1>3. Forward(n, HandleVoteResponse(n, m))
  <2> DEFINE p == Poll(n, m.from, ~ m.reject)
  <2>1. Forward(n, p) /\ NodeOK(i, p, b) BY <1>1, PollForward, PollOK
  <2>2. HandleVoteResponse(n, m) \in {n, MaybeCommitByVote(p, m)} BY DEF HandleVoteResponse
  <2> HIDE DEF p
  <2>3. Quiet(p, MaybeCommitByVote(p, m)) BY <2>1, CommitQuiet DEF NodeOK
  <2>4. Forward(n, MaybeCommitByVote(p, m)) BY <2>1, <2>3 DEF Quiet, Forward
  <2> QED BY <1>2, <2>2, <2>4
<1>4. ASSUME m.type \in VoteRequestType PROVE Forward(n, HandleVoteRequest(n, m))
  <2> DEFINE resp == Msg(n, VoteRespType(m.type), m.from)
             yes  == [resp EXCEPT !.term = m.term]
             no   == [resp EXCEPT !.reject = TRUE, !.commit = n.committed,
                                  !.commit_term = TermAt(n.log, n.committed)]
             d    == Send(n, no)
             g    == Send(n, yes)
             v    == [g EXCEPT !.elapsed = FALSE, !.vote = m.from]
  <2>1. d.term = n.term /\ d.vote = n.vote /\ g.term = n.term /\ g.vote = n.vote
        /\ v.term = n.term /\ v.vote = m.from
    BY <1>1 DEF Send, Node
  <2>2. MaybeCommitByVote(d, m).term = n.term /\ MaybeCommitByVote(d, m).vote = n.vote
    BY <1>1 DEF MaybeCommitByVote, LogMaybeCommit, Send, Node
  <2>3. CASE GrantsVote(n, m) /\ m.type = "request_vote"
    <3>1. HandleVoteRequest(n, m) = v BY <2>3 DEF HandleVoteRequest
    <3>2. n.vote \in {m.from, None} BY <2>3 DEF GrantsVote, CanVote
    <3> QED BY <2>1, <3>1, <3>2 DEF Forward
  <2>4. CASE ~ (GrantsVote(n, m) /\ m.type = "request_vote")
    <3>1. HandleVoteRequest(n, m) \in {MaybeCommitByVote(d, m), g}
      BY <2>4 DEF HandleVoteRequest
    <3> HIDE DEF d, g
    <3> QED BY <2>1, <2>2, <3>1 DEF Forward
  <2> QED BY <2>3, <2>4
<1> QED BY <1>3, <1>4

\* Node i goes forward while its disk stays.
StepsForward(i) ==
  \E x \in Node : Forward(node[i], x) /\ node' = [node EXCEPT ![i] = x] /\ disk' = disk

\* The actions of one node that touch neither its disk nor the network.
LEMMA LocalForward ==
  ASSUME TypeInv, TypeInv', NEW i \in Server,
         \/ Campaign(i)
         \/ LeaseExpires(i)
         \/ LeaderTick(i)
         \/ Beat(i)
         \/ \E v \in Value : Propose(i, v)
         \/ \E s \in Server : TransferLeader(i, s)
         \/ \E s \in Server : Unreachable(i, s)
  PROVE  StepsForward(i)
<1> DEFINE n == node[i]
           b == disk[i].commit
<1>1. NodeOK(i, n, b) /\ b \in Nat /\ n \in Node /\ n.term \in Nat /\ n.term >= n.term
  BY DEF TypeInv, TypeOK, Disk, NodeOK, Node
<1>2. ASSUME NEW x, Forward(n, x), node' = [node EXCEPT ![i] = x], UNCHANGED <<disk, msgs>>
      PROVE  StepsForward(i)
  <2>1. node \in [Server -> Node] /\ node' \in [Server -> Node] BY DEF TypeInv, TypeOK
  <2>2. x = node'[i] BY <1>2, <2>1
  <2>3. x \in Node BY <2>1, <2>2
  <2> QED BY <1>2, <2>3 DEF StepsForward
<1>3. \A x : Quiet(n, x) => Forward(n, x) BY QuietForward
<1>4. \A x : Forward(n, x) /\ Become(i, x) /\ UNCHANGED <<disk, msgs>> => StepsForward(i)
  BY <1>2 DEF Become
<1> HIDE DEF b
<1>5. CASE Campaign(i)
  <2> DEFINE c == [n EXCEPT !.elapsed = FALSE]
  <2>1. NodeOK(i, c, b) /\ c.term = n.term /\ c.vote = n.vote BY <1>1 DEF NodeOK, Node
  <2>2. Become(i, Hup(c, FALSE)) /\ UNCHANGED <<disk, msgs>> BY <1>5 DEF Campaign
  <2> HIDE DEF c
  <2>3. Forward(c, Hup(c, FALSE)) BY <1>1, <2>1, HupForward
  <2>4. Forward(n, Hup(c, FALSE)) BY <2>1, <2>3 DEF Forward
  <2> QED BY <1>4, <2>2, <2>4
<1>6. CASE LeaseExpires(i)
  <2> DEFINE c == [n EXCEPT !.elapsed = TRUE]
  <2>1. Forward(n, c) BY <1>1 DEF Node, Forward
  <2>2. node' = [node EXCEPT ![i] = c] /\ UNCHANGED <<disk, msgs>>
    BY <1>6 DEF LeaseExpires
  <2> HIDE DEF c
  <2> QED BY <1>2, <2>1, <2>2
<1>7. CASE LeaderTick(i)
  <2> DEFINE w == [n EXCEPT !.lead_transferee = None]
             z == [NewWindow(n) EXCEPT !.elapsed = FALSE, !.lead_transferee = None]
             f == BecomeFollower(n, n.term, None)
  <2>1. Forward(n, w) BY <1>1 DEF Node, Forward
  <2>2. Forward(n, z) BY <1>1 DEF Node, Forward, NewWindow
  <2>3. Forward(n, f) BY <1>1, BecomeFollowerForward
  <2>4. LeaderTimeout(n) \in {w, z, f} BY DEF LeaderTimeout
  <2> HIDE DEF w, z, f
  <2>5. Forward(n, LeaderTimeout(n)) BY <2>1, <2>2, <2>3, <2>4
  <2> QED BY <1>4, <1>7, <2>5 DEF LeaderTick
<1>8. CASE Beat(i)
  <2>1. Quiet(n, BroadcastHeartbeat(n)) BY <1>1, BroadcastHeartbeatQuiet
  <2> QED BY <1>3, <1>4, <1>8, <2>1 DEF Beat
<1>9. ASSUME NEW v \in Value, Propose(i, v) PROVE StepsForward(i)
  <2> DEFINE m == ProposeMsg(i, n.leader_id, v)
  <2>1. Quiet(n, HandlePropose(n, v)) BY <1>1, HandleProposeQuiet
  <2>2. ~ IsVoting(m) BY DEF ProposeMsg, Msg, IsVoting, IsBallot, IsGrant, IsPreGrant
  <2> HIDE DEF m
  <2>3. Quiet(n, Send(n, m)) BY <1>1, <2>2, SendQuiet
  <2> QED BY <1>3, <1>4, <1>9, <2>1, <2>3 DEF Propose, m
<1>10. ASSUME NEW s \in Server, TransferLeader(i, s) PROVE StepsForward(i)
  <2> DEFINE m == [Msg(n, "transfer_leader", n.leader_id) EXCEPT !.from = s]
  <2>1. Quiet(n, HandleTransferLeader(n, s)) BY <1>1, HandleTransferLeaderQuiet
  <2>2. ~ IsVoting(m) BY DEF Msg, IsVoting, IsBallot, IsGrant, IsPreGrant
  <2> HIDE DEF m
  <2>3. Quiet(n, Send(n, m)) BY <1>1, <2>2, SendQuiet
  <2> QED BY <1>3, <1>4, <1>10, <2>1, <2>3 DEF TransferLeader, m
<1>11. ASSUME NEW s \in Server, Unreachable(i, s) PROVE StepsForward(i)
  <2> DEFINE pr == [n.prs[s] EXCEPT !.state = "probe", !.next_idx = n.prs[s].matched + 1,
                                    !.paused = FALSE, !.inflights = <<>>]
  <2>1. Become(i, [n EXCEPT !.prs[s] = pr]) /\ UNCHANGED <<disk, msgs>>
    BY <1>11 DEF Unreachable
  <2> HIDE DEF pr
  <2>2. Forward(n, [n EXCEPT !.prs[s] = pr]) BY <1>1 DEF Node, Forward
  <2> QED BY <1>4, <2>1, <2>2
<1> QED BY <1>5, <1>6, <1>7, <1>8, <1>9, <1>10, <1>11

\* Every delivery of a message of the network.
LEMMA ReceiveForward ==
  ASSUME TypeInv, TypeInv', NEW m \in msgs, Receive(m)
  PROVE  StepsForward(m.to)
<1> DEFINE i == m.to
           n == node[i]
           b == disk[i].commit
           o == Observed(m)
<1>1. m \in Message /\ i \in Server /\ m.from \in Server /\ m.term \in Nat
      /\ m.entries \in Seq(Entry)
  BY DEF TypeInv, TypeOK, Message
<1>2. NodeOK(i, n, b) /\ b \in Nat /\ n \in Node /\ n.term \in Nat
  BY <1>1 DEF TypeInv, TypeOK, Disk, NodeOK, Node
<1>3. NodeOK(i, o, b) /\ o \in Node
  <2>1. NodeOK(i, o, b) BY <1>1, <1>2, ObserveTermOK DEF Observed
  <2> QED BY <2>1 DEF NodeOK
<1>4. Forward(n, o) BY <1>1, <1>2, ObserveTermForward DEF Observed
<1>a. ASSUME Current(m)
      PROVE  m.term >= o.term /\ (~ KeepsTerm(m) => o.term = m.term)
  <2>1. m.term >= n.term BY <1>a DEF Current
  <2>2. o = ObserveTerm(n, m) BY DEF Observed
  <2> HIDE DEF o, n, i, b
  <2>3. \A l : BecomeFollower(n, m.term, l).term = m.term
    BY <1>2 DEF BecomeFollower, Reset, Node
  <2> QED BY <1>1, <1>2, <2>1, <2>2, <2>3 DEF ObserveTerm
<1>5. ASSUME NEW x, Forward(n, x), node' = [node EXCEPT ![i] = x], UNCHANGED <<disk, msgs>>
      PROVE  StepsForward(i)
  <2>1. node \in [Server -> Node] /\ node' \in [Server -> Node] BY DEF TypeInv, TypeOK
  <2>2. x = node'[i] BY <1>1, <1>5, <2>1
  <2>3. x \in Node BY <1>1, <2>1, <2>2
  <2> QED BY <1>5, <2>3 DEF StepsForward
<1>6. \A x : Forward(n, x) /\ Deliver(m, x) => StepsForward(i)
  BY <1>5 DEF Deliver, Become
<1>7. ASSUME NEW x, Forward(o, x), NodeOK(i, x, b) PROVE Forward(n, x)
  <2>1. x \in Node BY <1>7 DEF NodeOK
  <2> HIDE DEF n, o
  <2> QED BY <1>2, <1>3, <1>4, <1>7, <2>1, ForwardTransitive
<1> HIDE DEF n, b, o
<1>8. CASE ReceiveStale(m)
  <2> DEFINE x == [n EXCEPT !.messages = n.messages \cup StaleReply(n, m)]
  <2>2. Forward(n, x) BY <1>2 DEF Forward, Node
  <2>3. Deliver(m, x) BY <1>8 DEF ReceiveStale, n
  <2> HIDE DEF x
  <2> QED BY <1>6, <2>2, <2>3
<1> HIDE DEF i
<1>9. CASE ReceiveVoteRequest(m)
  <2>1. m.type \in VoteRequestType /\ Current(m) /\ Deliver(m, HandleVoteRequest(o, m))
    BY <1>9 DEF ReceiveVoteRequest, o
  <2>2. m.type = "request_vote" => m.term = o.term BY <1>a, <2>1 DEF KeepsTerm
  <2>3. Forward(o, HandleVoteRequest(o, m)) BY <1>1, <1>2, <1>3, <2>1, <2>2, VotingForward
  <2>4. NodeOK(i, HandleVoteRequest(o, m), b) BY <1>1, <1>2, <1>3, HandleVoteRequestOK
  <2> QED BY <1>6, <1>7, <2>1, <2>3, <2>4 DEF i
<1>10. CASE ReceiveVoteResponse(m)
  <2>1. Current(m) /\ Deliver(m, HandleVoteResponse(o, m))
        /\ m.type \in {"request_vote_response", "request_pre_vote_response"}
    BY <1>10 DEF ReceiveVoteResponse, o
  <2>2. m.type # "request_vote" BY <2>1
  <2>3. Forward(o, HandleVoteResponse(o, m)) BY <1>1, <1>2, <1>3, <2>2, VotingForward
  <2>4. NodeOK(i, HandleVoteResponse(o, m), b) BY <1>1, <1>2, <1>3, HandleVoteResponseOK
  <2> QED BY <1>6, <1>7, <2>1, <2>3, <2>4 DEF i
<1>b. ASSUME Current(m)
      PROVE  /\ NodeOK(i, FollowLeader(o, m), b) /\ Forward(n, FollowLeader(o, m))
             /\ \A x : Quiet(FollowLeader(o, m), x) => Forward(n, x)
  <2> DEFINE f == FollowLeader(o, m)
  <2>1. NodeOK(i, f, b) BY <1>1, <1>2, <1>3, FollowLeaderOK
  <2>2. Forward(o, f) BY <1>1, <1>3, <1>a, <1>b, FollowLeaderForward
  <2> HIDE DEF f
  <2>3. Forward(n, f) BY <1>7, <2>1, <2>2
  <2>4. \A x : Quiet(f, x) => Forward(n, x) BY <2>3 DEF Quiet, Forward
  <2> QED BY <2>1, <2>3, <2>4 DEF f
<1>c. \A x : Quiet(o, x) => Forward(n, x) BY <1>4 DEF Quiet, Forward
<1>11. CASE ReceiveAppend(m)
  <2> DEFINE f == FollowLeader(o, m)
  <2>1. Current(m) /\ Deliver(m, HandleAppendEntries(f, m)) BY <1>11 DEF ReceiveAppend, o
  <2>2. NodeOK(i, f, b) /\ \A x : Quiet(f, x) => Forward(n, x) BY <1>b, <2>1
  <2> HIDE DEF f
  <2>4. Quiet(f, HandleAppendEntries(f, m)) BY <1>1, <1>2, <2>2, HandleAppendEntriesQuiet
  <2> QED BY <1>6, <2>1, <2>2, <2>4 DEF i
<1>12. CASE ReceiveHeartbeat(m)
  <2> DEFINE f == FollowLeader(o, m)
  <2>1. Current(m) /\ Deliver(m, HandleHeartbeat(f, m)) BY <1>12 DEF ReceiveHeartbeat, o
  <2>2. NodeOK(i, f, b) /\ \A x : Quiet(f, x) => Forward(n, x) BY <1>b, <2>1
  <2> HIDE DEF f
  <2>4. Quiet(f, HandleHeartbeat(f, m)) BY <1>1, <1>2, <2>2, HandleHeartbeatQuiet
  <2> QED BY <1>6, <2>1, <2>2, <2>4 DEF i
<1>13. CASE ReceiveAppendResponse(m)
  <2>1. Deliver(m, IF o.state = "leader" THEN HandleAppendResponse(o, m) ELSE o)
    BY <1>13 DEF ReceiveAppendResponse, o
  <2>2. Quiet(o, HandleAppendResponse(o, m))
    BY <1>1, <1>2, <1>3, HandleAppendResponseQuiet
  <2> QED BY <1>4, <1>6, <1>c, <2>1, <2>2 DEF i
<1>14. CASE ReceiveHeartbeatResponse(m)
  <2>1. Deliver(m, IF o.state = "leader" THEN HandleHeartbeatResponse(o, m) ELSE o)
    BY <1>14 DEF ReceiveHeartbeatResponse, o
  <2>2. Quiet(o, HandleHeartbeatResponse(o, m))
    BY <1>1, <1>2, <1>3, HandleHeartbeatResponseQuiet
  <2> QED BY <1>4, <1>6, <1>c, <2>1, <2>2 DEF i
<1>15. CASE ReceiveTimeoutNow(m)
  <2>1. Deliver(m, IF o.state = "follower" THEN Hup(o, TRUE) ELSE o)
    BY <1>15 DEF ReceiveTimeoutNow, o
  <2>2. Forward(o, Hup(o, TRUE)) /\ NodeOK(i, Hup(o, TRUE), b)
    BY <1>1, <1>2, <1>3, HupForward, HupOK
  <2> QED BY <1>4, <1>6, <1>7, <2>1, <2>2 DEF i
<1>16. CASE ReceiveTransferLeader(m)
  <2>1. Deliver(m, IF o.state = "leader" THEN HandleTransferLeader(o, m.from) ELSE o)
    BY <1>16 DEF ReceiveTransferLeader, o
  <2>2. Quiet(o, HandleTransferLeader(o, m.from))
    BY <1>1, <1>2, <1>3, HandleTransferLeaderQuiet
  <2> QED BY <1>4, <1>6, <1>c, <2>1, <2>2 DEF i
<1>17. CASE ReceivePropose(m)
  <2> DEFINE f == [m EXCEPT !.to = n.leader_id]
             v == m.entries[1].val
  <2>1. m.entries # <<>> /\ UNCHANGED <<disk, msgs>> BY <1>17 DEF ReceivePropose
  <2>2. v \in Value \cup {Noop}
    <3>1. 1 \in 1..Len(m.entries) BY <1>1, <2>1, LenProperties, EmptySeq
    <3>2. m.entries[1] \in Entry BY <1>1, <3>1, ElementOfSeq
    <3> QED BY <3>2 DEF Entry
  <2> HIDE DEF v
  <2>3. Forward(n, HandlePropose(n, v)) BY <1>1, <1>2, <2>2, HandleProposeQuiet, QuietForward
  <2> HIDE DEF f
  <2>5. Forward(n, Send(n, f)) BY <1>2 DEF Send, Node, Forward
  <2>6. \A x : Forward(n, x) /\ Become(i, x) => StepsForward(i) BY <1>5, <2>1 DEF Become
  <2>7. Become(i, HandlePropose(n, v)) \/ Become(i, Send(n, f))
    BY <1>17 DEF ReceivePropose, f, v, n, i
  <2> QED BY <2>3, <2>5, <2>6, <2>7 DEF i
<1> QED
  BY <1>8, <1>9, <1>10, <1>11, <1>12, <1>13, <1>14, <1>15, <1>16, <1>17 DEF Receive

\* The invariant holds initially.
LEMMA HardInit == Init => HardInv
BY TypeInvInit DEF Init, HardInv, Behind, Restart

\* A step that moves one node forward keeps the disks behind.
LEMMA ForwardKeepsHard ==
  ASSUME HardInv, TypeInv', NEW i \in Server, StepsForward(i)
  PROVE  HardInv' /\ disk' = disk
<1>1. PICK x \in Node : Forward(node[i], x) /\ node' = [node EXCEPT ![i] = x] /\ disk' = disk
  BY DEF StepsForward
<1>2. node \in [Server -> Node] /\ disk \in [Server -> Disk] BY DEF HardInv, TypeInv, TypeOK
<1>3. ASSUME NEW j \in Server PROVE Behind(disk'[j], node'[j])
  <2>1. Behind(disk[j], node[j]) /\ disk[j] \in Disk /\ node[j] \in Node BY <1>2 DEF HardInv
  <2>2. CASE j = i
    <3>1. node'[j] = x BY <1>1, <1>2, <2>2
    <3> QED BY <1>1, <2>1, <2>2, <3>1, ForwardKeepsBehind
  <2>3. CASE j # i BY <1>1, <1>2, <2>1, <2>3
  <2> QED BY <2>2, <2>3
<1> QED BY <1>1, <1>3 DEF HardInv

\* What a step may do to the durable term and vote.
HardForward(d, d2) ==
  /\ d2.term >= d.term
  /\ (d2.term = d.term /\ d.vote # None) => d2.vote = d.vote

\* Writing the HardState of a node, or restarting from what the disk holds.
LEMMA DiskStepHard ==
  ASSUME HardInv, TypeInv', NEW i \in Server,
         \/ Ready(i)
         \/ Crash(i)
         \/ \E k \in 0..LastIndex(node[i].log) : CrashInAppend(i, k)
         \/ CrashBeforeAdvance(i)
  PROVE  /\ HardInv'
         /\ \A j \in Server : HardForward(disk[j], disk'[j])
<1> DEFINE n == node[i]
           b == disk[i].commit
<1>1. node \in [Server -> Node] /\ disk \in [Server -> Disk] BY DEF HardInv, TypeInv, TypeOK
<1>2. NodeOK(i, n, b) /\ b \in Nat /\ n \in Node /\ Behind(disk[i], n) /\ disk[i] \in Disk
  BY <1>1 DEF HardInv, TypeInv, Disk
<1>3. ASSUME NEW d, NEW x, node' = [node EXCEPT ![i] = x], disk' = [disk EXCEPT ![i] = d],
             x.term = d.term, x.vote = d.vote,
             \/ d.term = n.term /\ d.vote = n.vote
             \/ d.term = disk[i].term /\ d.vote = disk[i].vote
      PROVE  HardInv' /\ \A j \in Server : HardForward(disk[j], disk'[j])
  <2> HIDE DEF n, b
  <2>1. Behind(d, x) BY <1>3 DEF Behind
  <2>2. HardForward(disk[i], d) BY <1>2, <1>3 DEF HardForward, Behind, Node, Disk
  <2>3. ASSUME NEW j \in Server
        PROVE  Behind(disk'[j], node'[j]) /\ HardForward(disk[j], disk'[j])
    <3>1. CASE j = i BY <1>1, <1>3, <2>1, <2>2, <3>1
    <3>2. CASE j # i
      <4>1. disk'[j] = disk[j] /\ node'[j] = node[j] BY <1>1, <1>3, <3>2
      <4>2. disk[j].term \in Nat BY <1>1 DEF Disk
      <4> QED BY <4>1, <4>2 DEF HardInv, HardForward
    <3> QED BY <3>1, <3>2
  <2> QED BY <2>3 DEF HardInv
<1>4. CASE Ready(i)
  <2> DEFINE q == [n EXCEPT !.messages = {}]
             p == OnPersistEntries(q)
             x == [p EXCEPT !.messages = {}]
  <2>1. NodeOK(i, q, b) /\ q.term = n.term /\ q.vote = n.vote BY <1>2 DEF NodeOK, Node
  <2>2. PICK c : disk' = [disk EXCEPT ![i] = HardState(n, disk[i], c)] BY <1>4 DEF Ready
  <2>3. Become(i, x) BY <1>4 DEF Ready
  <2> HIDE DEF q
  <2>4. Quiet(q, p) /\ p \in Node
    BY <1>2, <2>1, OnPersistEntriesQuiet, OnPersistEntriesOK DEF NodeOK
  <2> HIDE DEF p
  <2>5. x.term = n.term /\ x.vote = n.vote BY <2>1, <2>4 DEF Quiet, Node
  <2>6. HardState(n, disk[i], c).term = n.term /\ HardState(n, disk[i], c).vote = n.vote
    BY <1>2 DEF HardState, Disk
  <2>7. node' = [node EXCEPT ![i] = x] BY <2>3 DEF Become
  <2> HIDE DEF x
  <2> QED BY <1>3, <2>2, <2>5, <2>6, <2>7
<1>5. ASSUME NEW d, RestartFrom(i, d),
             \/ d.term = n.term /\ d.vote = n.vote
             \/ d.term = disk[i].term /\ d.vote = disk[i].vote
      PROVE  HardInv' /\ \A j \in Server : HardForward(disk[j], disk'[j])
  <2>1. Restart(i, d).term = d.term /\ Restart(i, d).vote = d.vote BY DEF Restart
  <2> QED BY <1>3, <1>5, <2>1 DEF RestartFrom
<1>6. CASE Crash(i) BY <1>5, <1>6 DEF Crash
<1>7. ASSUME NEW k \in 0..LastIndex(node[i].log), CrashInAppend(i, k)
      PROVE  HardInv' /\ \A j \in Server : HardForward(disk[j], disk'[j])
  <2> DEFINE d == [disk[i] EXCEPT !.log = SubSeq(node[i].log, 1, k)]
  <2>1. d.term = disk[i].term /\ d.vote = disk[i].vote BY <1>2 DEF Disk
  <2>2. RestartFrom(i, d) BY <1>7 DEF CrashInAppend
  <2> HIDE DEF d
  <2> QED BY <1>5, <2>1, <2>2
<1>8. CASE CrashBeforeAdvance(i)
  <2> DEFINE d == HardState(node[i], disk[i], node[i].committed)
  <2>1. d.term = n.term /\ d.vote = n.vote BY <1>2 DEF HardState, Disk
  <2>2. RestartFrom(i, d) BY <1>8 DEF CrashBeforeAdvance
  <2> HIDE DEF d
  <2> QED BY <1>5, <2>1, <2>2
<1> QED BY <1>4, <1>6, <1>7, <1>8

\* Every step keeps the disks behind and moves HardState forward only.
LEMMA HardStep ==
  ASSUME HardInv, TypeInv', [Next]_vars
  PROVE  HardInv' /\ \A j \in Server : HardForward(disk[j], disk'[j])
<1>1. \A j \in Server : HardForward(disk[j], disk[j])
  <2>1. disk \in [Server -> Disk] BY DEF HardInv, TypeInv, TypeOK
  <2> QED BY <2>1 DEF HardForward, Disk
<1>2. TypeInv BY DEF HardInv
<1>3. ASSUME NEW i \in Server, StepsForward(i)
      PROVE  HardInv' /\ \A j \in Server : HardForward(disk[j], disk'[j])
  BY <1>1, <1>3, ForwardKeepsHard
<1>4. ASSUME NEW m \in msgs, Receive(m)
      PROVE  HardInv' /\ \A j \in Server : HardForward(disk[j], disk'[j])
  <2>1. m.to \in Server BY <1>2 DEF TypeInv, TypeOK, Message
  <2> QED BY <1>2, <1>3, <1>4, <2>1, ReceiveForward
<1>5. CASE UNCHANGED vars BY <1>1, <1>5 DEF vars, HardInv
<1>6. ASSUME NEW i \in Server,
             \/ Campaign(i)
             \/ LeaseExpires(i)
             \/ LeaderTick(i)
             \/ Beat(i)
             \/ \E v \in Value : Propose(i, v)
             \/ \E s \in Server : TransferLeader(i, s)
             \/ \E s \in Server : Unreachable(i, s)
      PROVE  HardInv' /\ \A j \in Server : HardForward(disk[j], disk'[j])
  BY <1>2, <1>3, <1>6, LocalForward
<1>7. ASSUME NEW i \in Server,
             \/ Ready(i)
             \/ Crash(i)
             \/ \E k \in 0..LastIndex(node[i].log) : CrashInAppend(i, k)
             \/ CrashBeforeAdvance(i)
      PROVE  HardInv' /\ \A j \in Server : HardForward(disk[j], disk'[j])
  BY <1>7, DiskStepHard
<1> QED BY <1>4, <1>5, <1>6, <1>7 DEF Next

\* The disks are behind the nodes in every reachable state.
THEOREM HardInvInductive == Spec => []HardInv
<1>1. Init => HardInv BY HardInit
<1>2. HardInv /\ TypeInv' /\ [Next]_vars => HardInv' BY HardStep
<1> QED BY <1>1, <1>2, TypeInvInductive, PTL DEF Spec

(***************************************************************************)
(* The HardState on disk only moves forward, whatever crashes in between:  *)
(* no step lowers the durable term, and none takes back or moves a vote    *)
(* that is durable (ready_processor.zig writes what raft.zig decided, and  *)
(* a restart loads exactly that).                                          *)
(***************************************************************************)
THEOREM VotesAreFinalHolds == Spec => VotesAreFinal
<1>1. HardInv /\ TypeInv' /\ [Next]_vars =>
        [\A i \in Server :
           /\ disk'[i].term >= disk[i].term
           /\ (disk'[i].term = disk[i].term /\ disk[i].vote # None)
                => disk'[i].vote = disk[i].vote]_vars
  BY HardStep DEF HardForward
<1> QED BY <1>1, HardInvInductive, TypeInvInductive, PTL DEF Spec, VotesAreFinal

-----------------------------------------------------------------------------
(***************************************************************************)
(* Logs.  Agree: two logs share their first k entries.  FromLeaders: every *)
(* entry of S, with all that precedes it, is in the history of its term.   *)
(***************************************************************************)
Agree(S, T, k) == k <= Len(S) /\ k <= Len(T) /\ \A h \in 1..k : S[h] = T[h]

FromLeaders(S, H) == \A k \in 1..Len(S) : Agree(S, H[S[k].term], k)

\* Somebody was elected in term t.
Led(t, E) == \E c \in Server : <<t, c>> \in E

(***************************************************************************)
(* The histories: H[t] is the last log of the leader of term t, empty when *)
(* there was none; its entries are of earlier leaders or its own.          *)
(***************************************************************************)
Histories(H, E) ==
  /\ H \in [Nat -> Seq(Entry)]
  /\ \A e \in E : e[1] > 0
  /\ \A t \in Nat :
       /\ FromLeaders(H[t], H)
       /\ \A k \in 1..Len(H[t]) : H[t][k].term <= t
       /\ H[t] # <<>> => Led(t, E)

\* An append is a piece of the log S; one that starts beyond the log is empty
\* and names term 0 as the term before it.
IsSlice(m, S) ==
  \/ m.index > 0 /\ m.log_term = 0 /\ m.entries = <<>>
  \/ /\ m.index + Len(m.entries) <= Len(S)
     /\ m.log_term = TermAt(S, m.index)
     /\ \A j \in 1..Len(m.entries) : m.entries[j] = S[m.index + j]

AppendOK(m, H, E) == m.type = "append" => Led(m.term, E) /\ IsSlice(m, H[m.term])

\* The histories only grow.
Extends(H, H2) == \A t \in Nat : Agree(H[t], H2[t], Len(H[t]))

\* Agreement of logs is symmetric and transitive, and holds of less.
LEMMA AgreeRules ==
  ASSUME NEW S, NEW T, NEW k
  PROVE  /\ Agree(S, T, k) => Agree(T, S, k)
         /\ \A U : Agree(S, T, k) /\ Agree(T, U, k) => Agree(S, U, k)
BY DEF Agree

\* Agreement up to k is agreement up to anything less.
LEMMA AgreeLess ==
  ASSUME NEW S \in Seq(Entry), NEW T \in Seq(Entry), NEW k \in Nat, NEW j \in Nat,
         Agree(S, T, k), j <= k
  PROVE  Agree(S, T, j)
<1>1. Len(S) \in Nat /\ Len(T) \in Nat BY LenProperties
<1> QED BY <1>1 DEF Agree

\* Logs from the same leaders that have one term at an index agree up to it.
LEMMA TermsMatch ==
  ASSUME NEW S, NEW T, NEW H, FromLeaders(S, H), FromLeaders(T, H),
         NEW k \in 1..Len(S), k \in 1..Len(T), S[k].term = T[k].term
  PROVE  Agree(S, T, k)
BY DEF FromLeaders, Agree

\* A log from leaders has no entry of term 0, and its terms do not decrease.
LEMMA TermsIncrease ==
  ASSUME NEW H, NEW E, Histories(H, E), NEW S \in Seq(Entry), FromLeaders(S, H)
  PROVE  /\ \A k \in 1..Len(S) : S[k].term > 0 /\ Led(S[k].term, E)
         /\ \A k \in 1..Len(S) : \A h \in 1..k : S[h].term <= S[k].term
<1> SUFFICES ASSUME NEW k \in 1..Len(S)
             PROVE  /\ S[k].term > 0 /\ Led(S[k].term, E)
                    /\ \A h \in 1..k : S[h].term <= S[k].term
  OBVIOUS
<1> DEFINE t == S[k].term
           L == H[t]
<1>1. t \in Nat
  <2>1. S[k] \in Entry BY ElementOfSeq
  <2> QED BY <2>1 DEF Entry
<1>2. Agree(S, L, k) BY DEF FromLeaders
<1>3. Len(L) >= k /\ k \in Nat /\ k > 0 /\ Len(S) \in Nat /\ Len(L) \in Nat
  <2>1. L \in Seq(Entry) /\ Len(S) \in Nat BY <1>1, LenProperties DEF Histories
  <2>2. Len(L) \in Nat BY <2>1, LenProperties
  <2> QED BY <1>2, <2>1, <2>2 DEF Agree
<1>4. L # <<>> BY <1>3, EmptySeq
<1>5. Led(t, E) BY <1>1, <1>4 DEF Histories
<1>6. t > 0 BY <1>5 DEF Led, Histories
<1>7. \A h \in 1..k : S[h].term <= t
  <2> SUFFICES ASSUME NEW h \in 1..k PROVE S[h].term <= t OBVIOUS
  <2>1. S[h] = L[h] /\ h \in 1..Len(L) BY <1>2, <1>3 DEF Agree
  <2> QED BY <1>1, <2>1 DEF Histories
<1> QED BY <1>5, <1>6, <1>7

\* What was from leaders stays so when the histories grow.
LEMMA ExtendsFromLeaders ==
  ASSUME NEW H \in [Nat -> Seq(Entry)], NEW H2 \in [Nat -> Seq(Entry)], Extends(H, H2),
         NEW S \in Seq(Entry), FromLeaders(S, H)
  PROVE  FromLeaders(S, H2)
<1> SUFFICES ASSUME NEW k \in 1..Len(S) PROVE Agree(S, H2[S[k].term], k)
  BY DEF FromLeaders
<1> DEFINE t == S[k].term
<1>1. t \in Nat
  <2>1. S[k] \in Entry BY ElementOfSeq
  <2> QED BY <2>1 DEF Entry
<1>2. Agree(S, H[t], k) BY DEF FromLeaders
<1>3. Agree(H[t], H2[t], Len(H[t])) BY <1>1 DEF Extends
<1>4. H[t] \in Seq(Entry) /\ H2[t] \in Seq(Entry) BY <1>1
<1>5. k \in Nat /\ Len(H[t]) \in Nat /\ k <= Len(H[t])
  <2>1. Len(S) \in Nat /\ Len(H[t]) \in Nat BY <1>4, LenProperties
  <2>2. k \in Nat BY <2>1
  <2>3. k <= Len(H[t]) BY <1>2 DEF Agree
  <2> QED BY <2>1, <2>2, <2>3
<1>6. Agree(H[t], H2[t], k) BY <1>3, <1>4, <1>5, AgreeLess
<1> QED BY <1>2, <1>6, AgreeRules

\* An append stays a piece of a history that grows.
LEMMA ExtendsSlice ==
  ASSUME NEW S \in Seq(Entry), NEW T \in Seq(Entry), Agree(S, T, Len(S)),
         NEW m \in Message, IsSlice(m, S)
  PROVE  IsSlice(m, T)
<1>1. /\ Len(S) \in Nat /\ Len(T) \in Nat /\ m.index \in Nat /\ Len(m.entries) \in Nat
  BY LenProperties DEF Message
<1>2. CASE m.index > 0 /\ m.log_term = 0 /\ m.entries = <<>> BY <1>2 DEF IsSlice
<1>3. CASE /\ m.index + Len(m.entries) <= Len(S)
           /\ m.log_term = TermAt(S, m.index)
           /\ \A j \in 1..Len(m.entries) : m.entries[j] = S[m.index + j]
  <2>1. Len(S) <= Len(T) /\ \A h \in 1..Len(S) : S[h] = T[h] BY DEF Agree
  <2>2. m.index + Len(m.entries) <= Len(T) BY <1>1, <1>3, <2>1
  <2>3. TermAt(S, m.index) = TermAt(T, m.index) BY <1>1, <1>3, <2>1 DEF TermAt
  <2>4. ASSUME NEW j \in 1..Len(m.entries) PROVE m.entries[j] = T[m.index + j]
    <3>1. m.index + j \in 1..Len(S) BY <1>1, <1>3
    <3> QED BY <1>3, <2>1, <3>1
  <2> QED BY <1>3, <2>2, <2>3, <2>4 DEF IsSlice
<1> QED BY <1>2, <1>3 DEF IsSlice

\* So do all appends, when the histories grow and more nodes have led.
LEMMA ExtendsAppends ==
  ASSUME NEW H \in [Nat -> Seq(Entry)], NEW H2 \in [Nat -> Seq(Entry)], Extends(H, H2),
         NEW E, NEW E2, E \subseteq E2, NEW m \in Message, AppendOK(m, H, E)
  PROVE  AppendOK(m, H2, E2)
<1>1. m.term \in Nat BY DEF Message
<1>2. Agree(H[m.term], H2[m.term], Len(H[m.term])) BY <1>1 DEF Extends
<1>3. H[m.term] \in Seq(Entry) /\ H2[m.term] \in Seq(Entry) BY <1>1
<1>4. Led(m.term, E) => Led(m.term, E2) BY DEF Led
<1> QED BY <1>2, <1>3, <1>4, ExtendsSlice DEF AppendOK

-----------------------------------------------------------------------------
(***************************************************************************)
(* The moves the handlers are made of.  Rest: what nearly every move       *)
(* leaves alone.                                                           *)
(***************************************************************************)
Rest(n, n2) ==
  /\ n2.id = n.id /\ n2.term = n.term /\ n2.vote = n.vote /\ n2.state = n.state
  /\ n2.log = n.log /\ n2.persisted = n.persisted

SameMatched(n, n2) == \A s \in Server : n2.prs[s].matched = n.prs[s].matched

\* An acknowledgement: a response that lets the leader count an index.
IsAck(m) == m.type = "append_response" /\ ~ m.reject /\ m.index > 0

\* A message that no other node learns a vote, an entry or a commit from.
Plain(m) ==
  /\ m.type \notin {"append", "heartbeat", "request_vote", "request_pre_vote"}
  /\ ~ IsGrant(m) /\ ~ IsAck(m)
  /\ m.type \in {"request_vote_response", "request_pre_vote_response"} => m.commit = 0

\* A message by which leader n replicates its log or its commit index.
Replicates(n, m) ==
  /\ n.state = "leader" /\ m.term = n.term /\ m.to \in Server
  /\ \/ m.type = "append" /\ IsSlice(m, n.log) /\ m.commit = n.committed
     \/ /\ m.type = "heartbeat" /\ m.commit <= n.committed
        /\ m.commit <= n.prs[m.to].matched

\* A node that sends, and changes nothing but its bookkeeping about peers.
Sends(n, n2) ==
  /\ Rest(n, n2) /\ SameMatched(n, n2) /\ n2.committed = n.committed
  /\ \A m \in n2.messages : m \in n.messages \/ Plain(m) \/ Replicates(n, m)

\* A node that commits up to k.
Commits(n, n2, k) ==
  Rest(n, n2) /\ n2.prs = n.prs /\ n2.messages = n.messages /\ n2.committed = k

\* Sending twice is sending.
LEMMA SendsTransitive ==
  ASSUME NEW n, NEW n2, NEW n3, Sends(n, n2), Sends(n2, n3)
  PROVE  Sends(n, n3)
<1>1. Rest(n, n3) /\ SameMatched(n, n3) /\ n3.committed = n.committed
  BY DEF Sends, Rest, SameMatched
<1>2. ASSUME NEW m \in n3.messages PROVE m \in n.messages \/ Plain(m) \/ Replicates(n, m)
  <2>1. CASE m \in n2.messages BY <2>1 DEF Sends
  <2>2. CASE Plain(m) BY <2>2
  <2>3. CASE Replicates(n2, m)
    <3>1. /\ n2.state = n.state /\ n2.term = n.term /\ n2.log = n.log
          /\ n2.committed = n.committed
      BY DEF Sends, Rest
    <3>2. CASE m.type = "append" BY <2>3, <3>1, <3>2 DEF Replicates
    <3>3. CASE m.type # "append"
      <4>1. m.type = "heartbeat" /\ n2.prs[m.to].matched = n.prs[m.to].matched
        BY <2>3, <3>3 DEF Replicates, Sends, SameMatched
      <4> QED BY <2>3, <3>1, <4>1 DEF Replicates
    <3> QED BY <3>2, <3>3
  <2> QED BY <2>1, <2>2, <2>3 DEF Sends
<1> QED BY <1>1, <1>2 DEF Sends

\* The append for index k is a piece of the leader's log.
LEMMA AppendMsgReplicates ==
  ASSUME NEW n \in Node, n.state = "leader", NEW to \in Server, NEW k \in Nat \ {0}
  PROVE  Replicates(n, AppendMsg(n, to, k))
<1> DEFINE m == AppendMsg(n, to, k)
           e == BatchEnd(n, k)
<1>1. n.log \in Seq(Entry) /\ Len(n.log) \in Nat BY LenProperties DEF Node
<1>2. k + MaxEntries - 1 \in Nat /\ k <= k + MaxEntries - 1 BY RaftAssumption
<1>3. e \in Nat /\ e <= Len(n.log) /\ e <= k + MaxEntries - 1
      /\ e \in {Len(n.log), k + MaxEntries - 1}
  BY <1>1, <1>2, MinMax DEF BatchEnd, LastIndex
<1>4. /\ m.type = "append" /\ m.term = n.term /\ m.to \in Server /\ m.index = k - 1 /\ m.commit = n.committed
      /\ m.log_term = TermAt(n.log, k - 1) /\ m.entries = SubSeq(n.log, k, e)
  BY DEF AppendMsg, Msg
<1> HIDE DEF m, e
<1>5. CASE k <= Len(n.log)
  <2>1. k <= e BY <1>1, <1>2, <1>3, <1>5
  <2>2. /\ Len(SubSeq(n.log, k, e)) = e - k + 1
        /\ \A j \in 1..(e - k + 1) : SubSeq(n.log, k, e)[j] = n.log[k + j - 1]
    <3>1. \A h \in k..e : n.log[h] \in Entry BY <1>1, <1>3, ElementOfSeq
    <3> QED BY <1>1, <1>3, <2>1, <3>1, SubSeqProperties
  <2>3. Len(m.entries) = e - k + 1 /\ m.index + Len(m.entries) <= Len(n.log)
    BY <1>3, <1>4, <2>2
  <2>4. \A j \in 1..Len(m.entries) : m.entries[j] = n.log[m.index + j]
    <3> SUFFICES ASSUME NEW j \in 1..Len(m.entries) PROVE m.entries[j] = n.log[m.index + j]
      OBVIOUS
    <3>1. j \in 1..(e - k + 1) BY <2>3
    <3>2. m.index + j = k + j - 1 /\ j \in Nat BY <1>3, <1>4, <3>1
    <3> QED BY <1>4, <2>2, <3>1, <3>2
  <2>5. IsSlice(m, n.log) BY <1>4, <2>3, <2>4 DEF IsSlice
  <2> QED BY <1>4, <2>5 DEF Replicates, m
<1>6. CASE k > Len(n.log)
  <2>1. m.entries = <<>> BY <1>1, <1>3, <1>4, <1>6, SubSeqProperties, EmptySeq
  <2>2. Len(m.entries) = 0 BY <2>1
  <2>3. CASE k = Len(n.log) + 1
    <3>1. m.index + Len(m.entries) <= Len(n.log) BY <1>1, <1>4, <2>2, <2>3
    <3>2. \A j \in 1..Len(m.entries) : m.entries[j] = n.log[m.index + j] BY <2>2
    <3>3. IsSlice(m, n.log) BY <1>4, <3>1, <3>2 DEF IsSlice
    <3> QED BY <1>4, <3>3 DEF Replicates, m
  <2>4. CASE k # Len(n.log) + 1
    <3>1. k - 1 > 0 /\ ~ (k - 1 \in 1..Len(n.log)) BY <1>1, <1>6, <2>4
    <3>2. m.log_term = 0 /\ m.index > 0 BY <1>4, <3>1 DEF TermAt
    <3>3. IsSlice(m, n.log) BY <2>1, <3>2 DEF IsSlice
    <3> QED BY <1>4, <3>3 DEF Replicates, m
  <2> QED BY <2>3, <2>4
<1> QED BY <1>1, <1>5, <1>6

\* So are all appends of a send.
LEMMA AppendsReplicate ==
  ASSUME NEW n \in Node, n.state = "leader", NEW to \in Server
  PROVE  /\ \A c \in Nat : \A m \in AppendMsgs(n, to, c) : Replicates(n, m)
         /\ \A limit \in Nat : SoundProgress(n.prs[to])
              => SendCount(n, n.prs[to], limit) \in Nat
         /\ SoundProgress(n.prs[to])
              => \A m \in AppendsTo(n, to) : Replicates(n, m)
<1>1. n.prs[to] \in Progress /\ n.prs[to].next_idx \in Nat \ {0} BY DEF Node, Progress
<1>2. ASSUME NEW c \in Nat, NEW m \in AppendMsgs(n, to, c) PROVE Replicates(n, m)
  <2>1. PICK j \in 0..(c - 1) : m = AppendMsg(n, to, n.prs[to].next_idx + j * MaxEntries)
    BY DEF AppendMsgs
  <2>2. j * MaxEntries \in Nat BY RaftAssumption
  <2>3. n.prs[to].next_idx + j * MaxEntries \in Nat \ {0} BY <1>1, <2>2
  <2> QED BY <2>1, <2>3, AppendMsgReplicates
<1>3. ASSUME NEW limit \in Nat, SoundProgress(n.prs[to])
      PROVE  SendCount(n, n.prs[to], limit) \in Nat
  BY <1>1, <1>3, SendCountOK
<1>4. ASSUME SoundProgress(n.prs[to]), NEW m \in AppendsTo(n, to)
      PROVE  Replicates(n, m)
  <2>1. SendCount(n, n.prs[to], 1) \in Nat BY <1>3, <1>4
  <2> QED BY <1>1, <1>2, <1>4, <2>1, AppendMsgReplicates DEF AppendsTo
<1> QED BY <1>2, <1>3, <1>4

\* Sending entries leaves the matched index alone.
LEMMA AfterSendMatched ==
  ASSUME NEW n \in Node, NEW pr \in Progress, NEW c
  PROVE  AfterSend(n, pr, c).matched = pr.matched
BY DEF AfterSend, Progress

\* SendAppend sends.
LEMMA SendAppendSends ==
  ASSUME NEW i \in Server, NEW b \in Nat, NEW n, NodeOK(i, n, b), n.state = "leader",
         NEW to \in Server
  PROVE  Sends(n, SendAppend(n, to))
<1> DEFINE new == AppendsTo(n, to)
           pr2 == AfterSend(n, n.prs[to], SendCount(n, n.prs[to], 1))
           n2 == SendAppend(n, to)
<1>1. n \in Node /\ n.prs[to] \in Progress /\ SoundProgress(n.prs[to])
  BY DEF NodeOK, Node
<1>2. \A m \in new : Replicates(n, m) BY <1>1, AppendsReplicate
<1>3. pr2.matched = n.prs[to].matched BY <1>1, AfterSendMatched
<1>4. n2 = [n EXCEPT !.prs[to] = pr2, !.messages = n.messages \cup new] BY DEF SendAppend
<1> HIDE DEF new, pr2, n2
<1>5. Rest(n, n2) /\ n2.committed = n.committed /\ n2.messages = n.messages \cup new
      /\ n2.prs = [n.prs EXCEPT ![to] = pr2]
  BY <1>1, <1>4 DEF Rest, Node
<1>6. SameMatched(n, n2)
  <2>1. DOMAIN n.prs = Server BY <1>1 DEF Node
  <2> QED BY <1>3, <1>5, <2>1 DEF SameMatched
<1> QED BY <1>2, <1>5, <1>6 DEF Sends, n2

\* SendAppendAggressively sends.
LEMMA SendAppendAggressivelySends ==
  ASSUME NEW i \in Server, NEW b \in Nat, NEW n, NodeOK(i, n, b), n.state = "leader",
         NEW to \in Server
  PROVE  Sends(n, SendAppendAggressively(n, to))
<1> DEFINE c == SendCount(n, n.prs[to], MaxInflight)
           new == AppendMsgs(n, to, c)
           pr2 == AfterSend(n, n.prs[to], c)
           n2 == SendAppendAggressively(n, to)
<1>1. n \in Node /\ n.prs[to] \in Progress /\ SoundProgress(n.prs[to])
  BY DEF NodeOK, Node
<1>2. \A m \in new : Replicates(n, m)
  <2>1. c \in Nat BY <1>1, RaftAssumption, AppendsReplicate
  <2> QED BY <1>1, <2>1, AppendsReplicate
<1>3. pr2.matched = n.prs[to].matched BY <1>1, AfterSendMatched
<1>4. n2 = [n EXCEPT !.prs[to] = pr2, !.messages = n.messages \cup new]
  BY DEF SendAppendAggressively
<1> HIDE DEF new, pr2, n2
<1>5. Rest(n, n2) /\ n2.committed = n.committed /\ n2.messages = n.messages \cup new
      /\ n2.prs = [n.prs EXCEPT ![to] = pr2]
  BY <1>1, <1>4 DEF Rest, Node
<1>6. SameMatched(n, n2)
  <2>1. DOMAIN n.prs = Server BY <1>1 DEF Node
  <2> QED BY <1>3, <1>5, <2>1 DEF SameMatched
<1> QED BY <1>2, <1>5, <1>6 DEF Sends, n2

\* BroadcastAppend sends.
LEMMA BroadcastAppendSends ==
  ASSUME NEW i \in Server, NEW b \in Nat, NEW n, NodeOK(i, n, b), n.state = "leader"
  PROVE  Sends(n, BroadcastAppend(n))
<1> DEFINE new == UNION {AppendsTo(n, s) : s \in Peers(n)}
           after(s) == AfterSend(n, n.prs[s], SendCount(n, n.prs[s], 1))
           prs2 == [s \in Server |-> IF s = n.id THEN n.prs[s] ELSE after(s)]
           n2 == BroadcastAppend(n)
<1>1. n \in Node /\ \A s \in Server : /\ n.prs[s] \in Progress
                                      /\ SoundProgress(n.prs[s])
  BY DEF NodeOK, Node
<1>2. \A m \in new : Replicates(n, m) BY <1>1, AppendsReplicate DEF Peers
<1>3. \A s \in Server : prs2[s].matched = n.prs[s].matched
  <2>1. \A s \in Server : after(s).matched = n.prs[s].matched BY <1>1, AfterSendMatched
  <2> QED BY <2>1
<1>4. n2 = [n EXCEPT !.prs = prs2, !.messages = n.messages \cup new] BY DEF BroadcastAppend
<1> HIDE DEF new, prs2, n2
<1>5. Rest(n, n2) /\ n2.committed = n.committed /\ n2.messages = n.messages \cup new
      /\ n2.prs = prs2
  BY <1>1, <1>4 DEF Rest, Node
<1>6. SameMatched(n, n2) BY <1>3, <1>5 DEF SameMatched
<1> QED BY <1>2, <1>5, <1>6 DEF Sends, n2

\* Queueing a plain message sends.
LEMMA PlainSends ==
  ASSUME NEW n \in Node, NEW m, Plain(m)
  PROVE  Sends(n, Send(n, m))
<1>1. Queues(n, Send(n, m), {m}) BY SendQueues
<1> QED BY <1>1 DEF Queues, Sends, Rest, SameMatched, Send, Node

\* Bookkeeping that leaves the matched indexes alone sends (nothing).
LEMMA BookkeepingSends ==
  ASSUME NEW n \in Node, NEW prs2, \A s \in Server : prs2[s].matched = n.prs[s].matched
  PROVE  /\ Sends(n, [n EXCEPT !.prs = prs2])
         /\ \A e, l : Sends(n, [n EXCEPT !.elapsed = e, !.lead_transferee = l])
         /\ \A e, l : Sends(n, [n EXCEPT !.elapsed = e, !.leader_id = l])
         /\ \A e : Sends(n, [n EXCEPT !.elapsed = e])
         /\ \A l : Sends(n, [n EXCEPT !.lead_transferee = l])
BY DEF Sends, Rest, SameMatched, Node

\* Changing one Progress, its matched index aside, sends (nothing).
LEMMA OneProgressSends ==
  ASSUME NEW n \in Node, NEW s \in Server, NEW pr, pr.matched = n.prs[s].matched
  PROVE  Sends(n, [n EXCEPT !.prs[s] = pr])
<1>1. [n EXCEPT !.prs[s] = pr] = [n EXCEPT !.prs = [n.prs EXCEPT ![s] = pr]] BY DEF Node
<1>2. \A r \in Server : [n.prs EXCEPT ![s] = pr][r].matched = n.prs[r].matched
  BY DEF Node
<1> QED BY <1>1, <1>2, BookkeepingSends

\* SendTimeoutNow sends.
LEMMA SendTimeoutNowSends ==
  ASSUME NEW n \in Node, NEW to
  PROVE  Sends(n, SendTimeoutNow(n, to))
<1>1. Plain(Msg(n, "timeout_now", to)) BY DEF Plain, Msg, IsGrant, IsAck
<1> QED BY <1>1, PlainSends DEF SendTimeoutNow

\* HandleTransferLeader sends.
LEMMA HandleTransferLeaderSends ==
  ASSUME NEW i \in Server, NEW b \in Nat, NEW n, NodeOK(i, n, b), n.state = "leader",
         NEW to \in Server
  PROVE  Sends(n, HandleTransferLeader(n, to))
<1> DEFINE t == [n EXCEPT !.elapsed = FALSE, !.lead_transferee = to]
           z == [n EXCEPT !.lead_transferee = None]
<1>1. n \in Node /\ NodeOK(i, t, b) /\ t.state = "leader" BY DEF NodeOK, Node
<1>2. Sends(n, t) /\ Sends(n, z) /\ Sends(n, n) BY <1>1 DEF Sends, Rest, SameMatched, Node
<1>3. HandleTransferLeader(n, to) \in {n, z, SendTimeoutNow(t, to), SendAppend(t, to)}
  BY DEF HandleTransferLeader
<1> HIDE DEF t, z
<1>4. t \in Node BY <1>1 DEF NodeOK
<1>5. Sends(t, SendTimeoutNow(t, to)) /\ Sends(t, SendAppend(t, to))
  BY <1>1, <1>4, SendTimeoutNowSends, SendAppendSends
<1> QED BY <1>2, <1>3, <1>5, SendsTransitive

\* BroadcastHeartbeat sends.
LEMMA BroadcastHeartbeatSends ==
  ASSUME NEW n \in Node, n.state = "leader"
  PROVE  Sends(n, BroadcastHeartbeat(n))
<1> DEFINE beat(s) == [Msg(n, "heartbeat", s) EXCEPT
                         !.commit = MinOf(n.prs[s].matched, n.committed)]
           new == {beat(s) : s \in Peers(n)}
           n2 == BroadcastHeartbeat(n)
<1>1. ASSUME NEW s \in Server PROVE Replicates(n, beat(s))
  <2>1. n.prs[s].matched \in Nat /\ n.committed \in Nat BY DEF Node, Progress
  <2>2. /\ MinOf(n.prs[s].matched, n.committed) <= n.prs[s].matched
        /\ MinOf(n.prs[s].matched, n.committed) <= n.committed
    BY <2>1, MinMax
  <2> QED BY <2>2 DEF Replicates, Msg
<1>2. \A m \in new : Replicates(n, m) BY <1>1 DEF Peers
<1> HIDE DEF new
<1>3. n2 = [n EXCEPT !.messages = n.messages \cup new] BY DEF BroadcastHeartbeat, new
<1>4. Rest(n, n2) /\ n2.committed = n.committed /\ n2.messages = n.messages \cup new
      /\ n2.prs = n.prs
  BY <1>3 DEF Rest, Node
<1> QED BY <1>2, <1>4 DEF Sends, SameMatched

\* HandleHeartbeatResponse sends.
LEMMA HandleHeartbeatResponseSends ==
  ASSUME NEW i \in Server, NEW b \in Nat, NEW n, NodeOK(i, n, b), n.state = "leader",
         NEW m \in Message
  PROVE  Sends(n, HandleHeartbeatResponse(n, m))
<1> DEFINE pr == n.prs[m.from]
           q  == IF pr.state = "replicate" /\ IsPaused(pr)
                   THEN FreeTo(pr.inflights, Head(pr.inflights)) ELSE pr.inflights
           p2 == [pr EXCEPT !.recent_active = TRUE, !.paused = FALSE, !.inflights = q]
           h  == [n EXCEPT !.prs[m.from] = p2]
<1>1. n \in Node /\ m.from \in Server /\ pr \in Progress /\ pr.inflights \in Seq(Nat)
      /\ SoundProgress(pr)
  BY DEF NodeOK, Node, Message, Progress
<1>3. p2 \in Progress /\ SoundProgress(p2) /\ p2.matched = pr.matched BY <1>1, BeatSound
<1>4. HandleHeartbeatResponse(n, m) \in {h, SendAppend(h, m.from)}
  BY DEF HandleHeartbeatResponse, q
<1> HIDE DEF p2
<1>5. NodeOK(i, h, b) BY <1>1, <1>3, OneProgressOK
<1>6. Sends(n, h) BY <1>1, <1>3, OneProgressSends
<1> HIDE DEF h
<1>7. h.state = "leader" BY <1>6 DEF Sends, Rest
<1>8. Sends(h, SendAppend(h, m.from)) BY <1>1, <1>5, <1>7, SendAppendSends
<1> QED BY <1>4, <1>6, <1>8, SendsTransitive

-----------------------------------------------------------------------------
(***************************************************************************)
(* A candidate i that cannot win term t: some quorum has moved past t      *)
(* without having voted for it.  A torn append may leave a node with       *)
(* entries of a later term than it knows of; if it campaigns, it is so.    *)
(***************************************************************************)
Hopeless(i, t, D, M) ==
  \E Q \in SUBSET Server :
    /\ IsQuorum(Incoming, Outgoing, Q)
    /\ \A s \in Q : s # i /\ D[s].term > t /\ ~ HasGrant(s, i, t, M)

(***************************************************************************)
(* What holds of the log of node i with state n: it is made of histories,  *)
(* unsent appends are pieces of histories, unsent ballots are not older    *)
(* than the disk, a leader's log is the history of its term, and a         *)
(* candidate has not led its term and has no hope if its log is of a later *)
(* one.                                                                    *)
(***************************************************************************)
NodeLogs(i, n, H, D, M, E) ==
  /\ FromLeaders(n.log, H)
  /\ \A m \in n.messages : AppendOK(m, H, E)
  /\ \A m \in n.messages : IsBallot(m) => m.term >= D[i].term
  /\ n.state = "leader" => n.log = H[n.term] /\ <<n.term, i>> \in E
  /\ n.state = "candidate" =>
       /\ n.term > 0 /\ <<n.term, i>> \notin E
       /\ (\E k \in 1..Len(n.log) : n.log[k].term > n.term) => Hopeless(i, n.term, D, M)

\* What a node that becomes n writes into the histories and the elections.
Writes(H, n) == IF n.state = "leader" THEN [H EXCEPT ![n.term] = n.log] ELSE H
Records(E, i, n) == IF n.state = "leader" THEN E \cup {<<n.term, i>>} ELSE E

\* A node that ends a step as n keeps logs in order.
Ends(i, n, H, D, M, E) ==
  /\ Extends(H, Writes(H, n))
  /\ Histories(Writes(H, n), Records(E, i, n))
  /\ NodeLogs(i, n, Writes(H, n), D, M, Records(E, i, n))

\* A change that concerns neither log nor role, but for sending.
LogQuiet(n, n2) ==
  /\ n2.term = n.term /\ n2.state = n.state /\ n2.log = n.log
  /\ \A m \in n2.messages :
       \/ m \in n.messages
       \/ m.type # "append" /\ ~ IsBallot(m)
       \/ m.type = "append" /\ n.state = "leader" /\ m.term = n.term /\ IsSlice(m, n.log)

\* A change to a role without power, possibly in a later term.
Downs(n, n2) ==
  /\ StepDown(n, n2)
  /\ n2.id = n.id /\ n2.log = n.log /\ n2.committed = n.committed
  /\ n2.persisted = n.persisted

\* Sending and committing are quiet.
LEMMA QuietMoves ==
  ASSUME NEW n, NEW n2
  PROVE  /\ Sends(n, n2) => LogQuiet(n, n2)
         /\ \A k : Commits(n, n2, k) => LogQuiet(n, n2)
<1>1. \A m : Plain(m) => m.type # "append" /\ ~ IsBallot(m) BY DEF Plain, IsBallot
<1>2. \A m : Replicates(n, m) =>
        \/ m.type # "append" /\ ~ IsBallot(m)
        \/ m.type = "append" /\ n.state = "leader" /\ m.term = n.term /\ IsSlice(m, n.log)
  BY DEF Replicates, IsBallot, IsGrant
<1>3. Sends(n, n2) => LogQuiet(n, n2) BY <1>1, <1>2 DEF Sends, Rest, LogQuiet
<1>4. \A k : Commits(n, n2, k) => LogQuiet(n, n2) BY DEF Commits, Rest, LogQuiet
<1> QED BY <1>3, <1>4

\* Two quiet changes make one.
LEMMA LogQuietTransitive ==
  ASSUME NEW n, NEW n2, NEW n3, LogQuiet(n, n2), LogQuiet(n2, n3)
  PROVE  LogQuiet(n, n3)
BY DEF LogQuiet

\* What is quiet keeps the logs in order.
LEMMA QuietKeepsLogs ==
  ASSUME NEW i \in Server, NEW n, NEW n2, NEW H, NEW D, NEW M, NEW E,
         NodeLogs(i, n, H, D, M, E), LogQuiet(n, n2)
  PROVE  NodeLogs(i, n2, H, D, M, E)
<1>1. n2.term = n.term /\ n2.state = n.state /\ n2.log = n.log BY DEF LogQuiet
<1>2. ASSUME NEW m \in n2.messages PROVE AppendOK(m, H, E)
  <2>1. CASE m \in n.messages BY <2>1 DEF NodeLogs
  <2>2. CASE m.type # "append" BY <2>2 DEF AppendOK
  <2>3. CASE m.type = "append" /\ n.state = "leader" /\ m.term = n.term /\ IsSlice(m, n.log)
    BY <2>3 DEF NodeLogs, AppendOK, Led
  <2> QED BY <2>1, <2>2, <2>3 DEF LogQuiet
<1>3. \A m \in n2.messages : IsBallot(m) => m \in n.messages
  BY DEF LogQuiet, IsBallot, IsGrant
<1> QED BY <1>1, <1>2, <1>3 DEF NodeLogs

\* So does leaving a role.
LEMMA DownKeepsLogs ==
  ASSUME NEW i \in Server, NEW n, NEW n2, NEW H, NEW D, NEW M, NEW E,
         NodeLogs(i, n, H, D, M, E), Downs(n, n2)
  PROVE  NodeLogs(i, n2, H, D, M, E)
BY DEF NodeLogs, Downs, StepDown

\* A node whose state is in order ends a step.
LEMMA NoWriteEnds ==
  ASSUME NEW i \in Server, NEW n \in Node, NEW H, NEW D, NEW M, NEW E,
         Histories(H, E), NodeLogs(i, n, H, D, M, E)
  PROVE  Ends(i, n, H, D, M, E) /\ Writes(H, n) = H /\ Records(E, i, n) = E
<1>1. n.term \in Nat /\ H \in [Nat -> Seq(Entry)] BY DEF Node, Histories
<1>2. Writes(H, n) = H /\ Records(E, i, n) = E BY <1>1 DEF Writes, Records, NodeLogs
<1>3. Extends(H, H)
  <2> SUFFICES ASSUME NEW t \in Nat PROVE Agree(H[t], H[t], Len(H[t])) BY DEF Extends
  <2>1. H[t] \in Seq(Entry) BY <1>1
  <2>2. Len(H[t]) \in Nat BY <2>1, LenProperties
  <2> QED BY <2>2 DEF Agree
<1> QED BY <1>2, <1>3 DEF Ends

\* A node that ends a step may then do quiet things.
LEMMA QuietKeepsEnds ==
  ASSUME NEW i \in Server, NEW n, NEW n2, NEW H, NEW D, NEW M, NEW E,
         Ends(i, n, H, D, M, E), LogQuiet(n, n2)
  PROVE  Ends(i, n2, H, D, M, E)
<1>1. Writes(H, n2) = Writes(H, n) /\ Records(E, i, n2) = Records(E, i, n)
  BY DEF LogQuiet, Writes, Records
<1>2. NodeLogs(i, n2, Writes(H, n), D, M, Records(E, i, n))
  BY QuietKeepsLogs DEF Ends
<1> QED BY <1>1, <1>2 DEF Ends

\* A leader of term t whose log is S and one new entry of t, where S is from
\* leaders of terms up to t and contains what the history of t already has.
LEMMA LeaderWrites ==
  ASSUME NEW H, NEW E, Histories(H, E), NEW i \in Server, NEW n2 \in Node,
         n2.state = "leader", n2.term > 0, NEW S \in Seq(Entry), FromLeaders(S, H),
         Agree(H[n2.term], S, Len(H[n2.term])),
         \A k \in 1..Len(S) : S[k].term <= n2.term,
         NEW v \in Value \cup {Noop}, n2.log = Append(S, [term |-> n2.term, val |-> v])
  PROVE  /\ Extends(H, Writes(H, n2))
         /\ Histories(Writes(H, n2), Records(E, i, n2))
         /\ FromLeaders(n2.log, Writes(H, n2))
<1> DEFINE t == n2.term
           L == n2.log
           G == Writes(H, n2)
           F == Records(E, i, n2)
           e == [term |-> t, val |-> v]
<1>1. t \in Nat /\ H \in [Nat -> Seq(Entry)] /\ L \in Seq(Entry) /\ e \in Entry
  BY DEF Node, Histories, Entry
<1>2. G = [H EXCEPT ![t] = L] /\ F = E \cup {<<t, i>>} BY DEF Writes, Records
<1>3. G \in [Nat -> Seq(Entry)] /\ G[t] = L /\ \A u \in Nat : u # t => G[u] = H[u]
  BY <1>1, <1>2
<1>4. /\ Len(S) \in Nat /\ Len(L) = Len(S) + 1 /\ L[Len(S) + 1] = e
      /\ \A h \in 1..Len(S) : L[h] = S[h]
  BY <1>1, LenProperties, AppendProperties
<1> HIDE DEF t, L, G, F, e
<1>5. Extends(H, G)
  <2> SUFFICES ASSUME NEW u \in Nat PROVE Agree(H[u], G[u], Len(H[u])) BY DEF Extends
  <2>1. H[u] \in Seq(Entry) BY <1>1
  <2>2. Len(H[u]) \in Nat BY <2>1, LenProperties
  <2>3. CASE u # t
    <3>1. G[u] = H[u] BY <1>3, <2>3
    <3> QED BY <2>2, <3>1 DEF Agree
  <2>4. CASE u = t
    <3>1. Agree(H[u], S, Len(H[u])) BY <2>4 DEF t
    <3>2. Agree(H[u], L, Len(H[u])) BY <1>4, <2>2, <3>1 DEF Agree
    <3> QED BY <1>3, <2>4, <3>2
  <2> QED BY <2>3, <2>4
<1>6. FromLeaders(S, G) BY <1>1, <1>3, <1>5, ExtendsFromLeaders
<1>7. FromLeaders(L, G)
  <2> SUFFICES ASSUME NEW k \in 1..Len(L) PROVE Agree(L, G[L[k].term], k)
    BY DEF FromLeaders
  <2>1. CASE k = Len(S) + 1
    <3>1. L[k].term = t BY <1>4, <2>1 DEF e
    <3>2. G[L[k].term] = L BY <1>3, <3>1
    <3>3. k <= Len(L) BY <1>4, <2>1
    <3> QED BY <3>2, <3>3 DEF Agree
  <2>2. CASE k # Len(S) + 1
    <3>1. k \in 1..Len(S) /\ L[k] = S[k] BY <1>4, <2>2
    <3>2. Agree(S, G[S[k].term], k) BY <1>6, <3>1 DEF FromLeaders
    <3>3. Agree(L, S, k) BY <1>4, <3>1 DEF Agree
    <3> QED BY <3>1, <3>2, <3>3, AgreeRules
  <2> QED BY <2>1, <2>2
<1>8. Histories(G, F)
  <2>1. ASSUME NEW f \in F PROVE f[1] > 0
    <3>1. CASE f \in E BY <3>1 DEF Histories
    <3>2. CASE f = <<t, i>> BY <3>2 DEF t
    <3> QED BY <1>2, <3>1, <3>2
  <2>2. ASSUME NEW u \in Nat
        PROVE  /\ FromLeaders(G[u], G)
               /\ \A k \in 1..Len(G[u]) : G[u][k].term <= u
               /\ G[u] # <<>> => Led(u, F)
    <3>1. CASE u = t
      <4>1. G[u] = L /\ Led(u, F) BY <1>2, <1>3, <3>1 DEF Led
      <4>2. ASSUME NEW k \in 1..Len(L) PROVE L[k].term <= t
        <5>1. CASE k = Len(S) + 1 BY <1>1, <1>4, <5>1 DEF e
        <5>2. CASE k # Len(S) + 1
          <6>1. k \in 1..Len(S) /\ L[k] = S[k] BY <1>4, <5>2
          <6> QED BY <6>1 DEF t
        <5> QED BY <5>1, <5>2
      <4> QED BY <1>7, <3>1, <4>1, <4>2
    <3>2. CASE u # t
      <4>1. G[u] = H[u] /\ H[u] \in Seq(Entry) BY <1>1, <1>3, <3>2
      <4>2. FromLeaders(H[u], G) BY <1>1, <1>3, <1>5, <4>1, ExtendsFromLeaders DEF Histories
      <4>3. Led(u, E) => Led(u, F) BY <1>2 DEF Led
      <4> QED BY <4>1, <4>2, <4>3 DEF Histories
    <3> QED BY <3>1, <3>2
  <2> QED BY <1>3, <2>1, <2>2 DEF Histories
<1> QED BY <1>5, <1>7, <1>8 DEF G, F, L, t

\* A leader that appends ends a step in order.
LEMMA AppendEnds ==
  ASSUME NEW i \in Server, NEW n \in Node, NEW n2 \in Node, NEW H, NEW D, NEW M, NEW E,
         Histories(H, E), NodeLogs(i, n, H, D, M, E), n.state = "leader",
         NEW v \in Value \cup {Noop}, n2.log = Append(n.log, [term |-> n.term, val |-> v]),
         n2.term = n.term, n2.state = n.state, n2.messages = n.messages
  PROVE  Ends(i, n2, H, D, M, E)
<1> DEFINE G == Writes(H, n2)
           F == Records(E, i, n2)
           t == n.term
<1>1. t \in Nat /\ H \in [Nat -> Seq(Entry)] /\ n.log \in Seq(Entry) BY DEF Node, Histories
<1>2. n.log = H[t] /\ <<t, i>> \in E /\ FromLeaders(n.log, H) BY DEF NodeLogs
<1>3. t > 0 BY <1>2 DEF Histories
<1>4. \A k \in 1..Len(n.log) : n.log[k].term <= t BY <1>1, <1>2 DEF Histories
<1>5. Agree(H[t], n.log, Len(H[t]))
  <2>1. Len(n.log) \in Nat BY <1>1, LenProperties
  <2> QED BY <1>2, <2>1 DEF Agree
<1>6. Extends(H, G) /\ Histories(G, F) /\ FromLeaders(n2.log, G)
  BY <1>1, <1>2, <1>3, <1>4, <1>5, LeaderWrites
<1>7. G = [H EXCEPT ![t] = n2.log] /\ F = E \cup {<<t, i>>} BY DEF Writes, Records
<1> HIDE DEF G, F
<1>8. \A m \in n2.messages : AppendOK(m, G, F)
  <2>1. G \in [Nat -> Seq(Entry)] BY <1>6 DEF Histories
  <2>2. \A m \in n2.messages : m \in Message /\ AppendOK(m, H, E) BY DEF Node, NodeLogs
  <2>3. E \subseteq F BY <1>7
  <2>4. \A m \in Message : AppendOK(m, H, E) => AppendOK(m, G, F)
    BY <1>1, <1>6, <2>1, <2>3, ExtendsAppends
  <2> QED BY <2>2, <2>4
<1>9. n2.log = G[t] /\ <<t, i>> \in F BY <1>1, <1>7
<1>10. NodeLogs(i, n2, G, D, M, F) BY <1>6, <1>8, <1>9 DEF NodeLogs
<1> QED BY <1>6, <1>10 DEF Ends, G, F

\* A candidate with a quorum of grants is not hopeless.
LEMMA WinnerHasHope ==
  ASSUME NEW i \in Server, NEW t, NEW D, NEW M, NEW Y \in SUBSET Server,
         IsQuorum(Incoming, Outgoing, Y), \A s \in Y : s = i \/ HasGrant(s, i, t, M)
  PROVE  ~ Hopeless(i, t, D, M)
<1> SUFFICES ASSUME Hopeless(i, t, D, M) PROVE FALSE OBVIOUS
<1>1. PICK Q \in SUBSET Server :
        /\ IsQuorum(Incoming, Outgoing, Q)
        /\ \A s \in Q : s # i /\ D[s].term > t /\ ~ HasGrant(s, i, t, M)
  BY DEF Hopeless
<1>2. IsFiniteSet(Incoming) /\ IsFiniteSet(Outgoing) /\ Incoming \cup Outgoing # {}
  <2>1. Incoming \subseteq Server /\ Outgoing \subseteq Server BY RaftAssumption
  <2> QED BY <2>1, RaftAssumption, FS_Subset
<1>3. PICK s \in Q : s \in Y BY <1>1, <1>2, QuorumsMeet
<1> QED BY <1>1, <1>3

\* A candidate of a term nobody led, with a quorum, takes office in order.
LEMMA ElectedEnds ==
  ASSUME NEW i \in Server, NEW n \in Node, NEW n2 \in Node, NEW H, NEW D, NEW M, NEW E,
         Histories(H, E), NodeLogs(i, n, H, D, M, E), n.state = "candidate",
         ~ Led(n.term, E), NEW Y \in SUBSET Server, IsQuorum(Incoming, Outgoing, Y),
         \A s \in Y : s = i \/ HasGrant(s, i, n.term, M), TakesOffice(n, n2)
  PROVE  Ends(i, n2, H, D, M, E)
<1> DEFINE G == Writes(H, n2)
           F == Records(E, i, n2)
           t == n.term
<1>1. t \in Nat /\ H \in [Nat -> Seq(Entry)] /\ n.log \in Seq(Entry) BY DEF Node, Histories
<1>2. /\ n2.term = t /\ n2.state = "leader" /\ n2.messages = n.messages
      /\ n2.log = Append(n.log, [term |-> t, val |-> Noop])
  BY DEF TakesOffice
<1>3. t > 0 /\ FromLeaders(n.log, H) BY DEF NodeLogs
<1>4. ASSUME NEW k \in 1..Len(n.log) PROVE n.log[k].term <= t
  <2> DEFINE u == n.log[k].term
  <2>1. ~ Hopeless(i, t, D, M) BY WinnerHasHope
  <2>2. ~ (u > t) BY <2>1 DEF NodeLogs
  <2>3. u \in Nat
    <3>1. n.log[k] \in Entry BY <1>1, ElementOfSeq
    <3> QED BY <3>1 DEF Entry
  <2>4. \A a, b \in Nat : ~ (a > b) => a <= b OBVIOUS
  <2>5. u <= t
    <3>1. t \in Nat BY <1>1
    <3> HIDE DEF u, t
    <3> QED BY <3>1, <2>2, <2>3, <2>4
  <2> QED BY <2>5 DEF u
<1>5. H[t] = <<>> BY <1>1 DEF Histories
<1>6. Agree(H[t], n.log, Len(H[t]))
  <2>1. Len(n.log) \in Nat BY <1>1, LenProperties
  <2>2. Len(H[t]) = 0 BY <1>5
  <2> QED BY <2>1, <2>2 DEF Agree
<1>7. Noop \in Value \cup {Noop} OBVIOUS
<1>8. Extends(H, G) /\ Histories(G, F) /\ FromLeaders(n2.log, G)
  BY <1>1, <1>2, <1>3, <1>4, <1>6, <1>7, LeaderWrites
<1>9. G = [H EXCEPT ![t] = n2.log] /\ F = E \cup {<<t, i>>} BY <1>2 DEF Writes, Records
<1> HIDE DEF G, F
<1>10. \A m \in n2.messages : AppendOK(m, G, F)
  <2>1. G \in [Nat -> Seq(Entry)] BY <1>8 DEF Histories
  <2>2. \A m \in n2.messages : m \in Message /\ AppendOK(m, H, E)
    BY <1>2 DEF Node, NodeLogs
  <2>3. E \subseteq F BY <1>9
  <2>4. \A m \in Message : AppendOK(m, H, E) => AppendOK(m, G, F)
    BY <1>1, <1>8, <2>1, <2>3, ExtendsAppends
  <2> QED BY <2>2, <2>4
<1>11. n2.log = G[t] /\ <<t, i>> \in F BY <1>1, <1>9
<1>12. NodeLogs(i, n2, G, D, M, F) BY <1>2, <1>8, <1>10, <1>11 DEF NodeLogs
<1> QED BY <1>8, <1>12 DEF Ends, G, F

-----------------------------------------------------------------------------
\* Where the entries of a piece after position x stand in a log that keeps its
\* first p entries, the piece's from the c-th on following them.
LEMMA TailPosition ==
  ASSUME NEW x \in Nat, NEW e \in Nat, NEW c \in 1..e, NEW p \in Nat, x + c = p + 1,
         NEW h \in 1..(x + e), h > p
  PROVE  /\ h \in p + 1 .. p + (e - c + 1)
         /\ h - p \in 1..(e - c + 1)
         /\ c + (h - p) - 1 \in 1..e /\ x + (c + (h - p) - 1) = h
OBVIOUS

-----------------------------------------------------------------------------
(***************************************************************************)
(* What accepting the piece m of the log L makes of the log of n: nothing, *)
(* if it holds the piece already; otherwise the prefix of L that ends with *)
(* the piece, replacing what followed the last agreement.                  *)
(***************************************************************************)
TakesSlice(n, n2, m, L) ==
  LET last == m.index + Len(m.entries) IN
  \/ n2 = n /\ Agree(n.log, L, last)
  \/ /\ n2.id = n.id /\ n2.term = n.term /\ n2.vote = n.vote /\ n2.state = n.state
     /\ n2.votes = n.votes /\ n2.prs = n.prs /\ n2.messages = n.messages
     /\ n2.committed = n.committed
     /\ Len(n2.log) = last /\ Agree(n2.log, L, last)
     /\ \E keep \in Nat :
          /\ m.index <= keep /\ keep < last /\ keep <= Len(n.log) /\ Agree(n.log, L, keep)
          /\ n2.persisted = MinOf(n.persisted, keep)
          /\ keep < Len(n.log) => n.log[keep + 1].term # L[keep + 1].term

\* LogAppend takes the piece of L it is given, after the terms matched.
LEMMA LogAppendTakes ==
  ASSUME NEW n \in Node, NEW m \in Message, NEW H, NEW E, Histories(H, E),
         FromLeaders(n.log, H), NEW L \in Seq(Entry), FromLeaders(L, H), IsSlice(m, L),
         MatchTerm(n.log, m.index, m.log_term)
  PROVE  TakesSlice(n, LogAppend(n, m), m, L)
<1> DEFINE last == m.index + Len(m.entries)
           S == n.log
           cs == Conflicts(S, m.index, m.entries)
           c == Least(cs)
           n2 == LogAppend(n, m)
<1>1. /\ S \in Seq(Entry) /\ m.entries \in Seq(Entry) /\ m.index \in Nat
      /\ Len(S) \in Nat /\ Len(L) \in Nat /\ Len(m.entries) \in Nat
  BY LenProperties DEF Node, Message
<1> HIDE DEF S
<1>2. m.index <= Len(S) /\ TermAt(S, m.index) = m.log_term
  BY DEF MatchTerm, LastIndex, S
<1>3. /\ last <= Len(L) /\ m.log_term = TermAt(L, m.index)
      /\ \A j \in 1..Len(m.entries) : m.entries[j] = L[m.index + j]
  <2>1. CASE m.index > 0 /\ m.log_term = 0 /\ m.entries = <<>>
    <3>1. m.index \in 1..Len(S) BY <1>1, <1>2, <2>1
    <3>2. S[m.index].term = 0 BY <1>2, <2>1, <3>1 DEF TermAt
    <3>3. S[m.index].term > 0 BY <1>1, <3>1, TermsIncrease DEF S
    <3> QED BY <3>2, <3>3
  <2> QED BY <2>1 DEF IsSlice
<1>4. last \in Nat /\ m.index <= last BY <1>1
<1>5. ASSUME NEW k \in Nat, m.index <= k, k <= last, k <= Len(S),
             k > m.index => S[k].term = m.entries[k - m.index].term
      PROVE  Agree(S, L, k)
  <2>1. CASE k = 0 BY <1>1, <2>1 DEF Agree
  <2>2. CASE k > 0
    <3>1. k \in 1..Len(S) /\ k \in 1..Len(L) BY <1>1, <1>3, <1>4, <1>5, <2>2
    <3>2. S[k].term = L[k].term
      <4>1. CASE k = m.index BY <1>2, <1>3, <3>1, <4>1 DEF TermAt
      <4>2. CASE k > m.index
        <5>1. k - m.index \in 1..Len(m.entries) /\ m.index + (k - m.index) = k
          BY <1>1, <1>5, <4>2
        <5>2. m.entries[k - m.index] = L[k] BY <1>3, <5>1
        <5> QED BY <1>5, <4>2, <5>2
      <4> QED BY <1>1, <1>5, <4>1, <4>2
    <3> QED BY <3>1, <3>2, TermsMatch DEF S
  <2> QED BY <1>5, <2>1, <2>2
<1>6. cs \in SUBSET Nat
      /\ \A j \in 1..Len(m.entries) : j \notin cs =>
           m.index + j <= Len(S) /\ TermAt(S, m.index + j) = m.entries[j].term
  BY <1>1 DEF Conflicts, MatchTerm, LastIndex
<1>7. CASE cs = {}
  <2>1. n2 = n BY <1>7 DEF LogAppend, S
  <2>2. Agree(S, L, last)
    <3>1. CASE m.entries = <<>> BY <1>1, <1>2, <1>4, <1>5, <3>1
    <3>2. CASE m.entries # <<>>
      <4>1. Len(m.entries) \in 1..Len(m.entries) BY <1>1, <3>2, EmptySeq
      <4>2. last <= Len(S) /\ TermAt(S, last) = m.entries[Len(m.entries)].term
        BY <1>6, <1>7, <4>1
      <4>3. last \in 1..Len(S) /\ last - m.index = Len(m.entries) BY <1>1, <4>1, <4>2
      <4>4. S[last].term = m.entries[last - m.index].term BY <4>2, <4>3 DEF TermAt
      <4> QED BY <1>4, <1>5, <4>2, <4>4
    <3> QED BY <3>1, <3>2
  <2> QED BY <2>1, <2>2 DEF TakesSlice, S
<1>8. CASE cs # {}
  <2> DEFINE keep == m.index + c - 1
             head == SubSeq(S, 1, keep)
             tail == SubSeq(m.entries, c, Len(m.entries))
  <2>1. c \in cs /\ \A j \in cs : c <= j BY <1>6, <1>8, LeastIsLeast
  <2>2. c \in 1..Len(m.entries) /\ ~ MatchTerm(S, m.index + c, m.entries[c].term)
    BY <2>1 DEF Conflicts
  <2>3. keep \in Nat /\ m.index <= keep /\ keep < last BY <1>1, <2>2
  <2>4. n2 = [n EXCEPT !.log = head \o tail, !.persisted = MinOf(n.persisted, keep)]
    BY <1>8 DEF LogAppend, S
  <2> HIDE DEF cs, c
  <2>5. keep <= Len(S) /\ (keep > m.index => S[keep].term = m.entries[keep - m.index].term)
    <3>1. CASE c = 1 BY <1>1, <1>2, <3>1
    <3>2. CASE c > 1
      <4>1. c - 1 \in 1..Len(m.entries) /\ c - 1 \notin cs BY <1>1, <2>1, <2>2, <3>2
      <4>2. m.index + (c - 1) = keep /\ keep - m.index = c - 1 BY <1>1, <2>2
      <4>3. keep <= Len(S) /\ TermAt(S, keep) = m.entries[c - 1].term BY <1>6, <4>1, <4>2
      <4>4. keep \in 1..Len(S) BY <1>1, <2>3, <3>2, <4>1, <4>3
      <4> QED BY <4>2, <4>3, <4>4 DEF TermAt
    <3> QED BY <1>1, <2>2, <3>1, <3>2
  <2> HIDE DEF keep
  <2>6. Agree(S, L, keep) BY <1>1, <1>4, <1>5, <2>3, <2>5
  <2>7. m.index + c = keep + 1 BY <1>1, <2>2 DEF keep
  <2>8. keep < Len(S) => S[keep + 1].term # L[keep + 1].term
    <3> SUFFICES ASSUME keep < Len(S) PROVE S[keep + 1].term # L[keep + 1].term OBVIOUS
    <3>1. keep + 1 <= Len(S) /\ keep + 1 \in 1..Len(S) BY <1>1, <2>3
    <3>2. TermAt(S, keep + 1) # m.entries[c].term
      BY <2>2, <2>7, <3>1 DEF MatchTerm, LastIndex
    <3>3. m.entries[c] = L[keep + 1] BY <1>3, <2>2, <2>7
    <3> QED BY <3>1, <3>2, <3>3 DEF TermAt
  <2>9. /\ head \in Seq(Entry) /\ Len(head) = keep
        /\ \A h \in 1..keep : head[h] = S[h]
    <3>1. \A h \in 1..keep : S[h] \in Entry BY <1>1, <2>3, <2>5, ElementOfSeq
    <3>2. head \in Seq(Entry) /\ Len(head) = keep BY <1>1, <2>3, <2>5, PrefixOK
    <3>3. \A h \in 1..keep : head[h] = S[h] BY <1>1, <2>3, <3>1, SubSeqProperties
    <3> QED BY <3>2, <3>3
  <2>10. /\ tail \in Seq(Entry) /\ Len(tail) = Len(m.entries) - c + 1
         /\ \A h \in 1..(Len(m.entries) - c + 1) : tail[h] = m.entries[c + h - 1]
    <3>1. \A h \in c..Len(m.entries) : m.entries[h] \in Entry BY <1>1, <2>2, ElementOfSeq
    <3>2. c \in Int /\ Len(m.entries) \in Int /\ c <= Len(m.entries) + 1 BY <1>1, <2>2
    <3> QED BY <3>1, <3>2, SubSeqProperties
  <2> HIDE DEF head, tail
  <2> DEFINE log2 == head \o tail
  <2>11. Len(log2) = last
    <3>1. Len(log2) = Len(head) + Len(tail) BY <2>9, <2>10, ConcatProperties
    <3>2. Len(log2) = keep + (Len(m.entries) - c + 1) BY <2>9, <2>10, <3>1
    <3>3. c \in Nat /\ Len(m.entries) \in Nat /\ m.index \in Nat BY <1>1, <2>2
    <3> HIDE DEF log2
    <3> QED BY <2>3, <2>7, <3>2, <3>3
  <2>12. ASSUME NEW h \in 1..last PROVE log2[h] = L[h]
    <3>0. h \in Nat BY <1>4
    <3>1. CASE h <= keep
      <4>1. h \in 1..Len(head) BY <2>3, <2>9, <3>1, <1>4
      <4>2. log2[h] = head[h] BY <2>9, <2>10, <4>1, ConcatProperties
      <4>3. h \in 1..keep BY <2>9, <4>1
      <4> QED BY <2>6, <2>9, <4>2, <4>3 DEF Agree
    <3>2. CASE h > keep
      <4> DEFINE j == h - keep
      <4>1. /\ h \in keep + 1 .. keep + (Len(m.entries) - c + 1)
            /\ j \in 1..(Len(m.entries) - c + 1)
            /\ c + j - 1 \in 1..Len(m.entries) /\ m.index + (c + j - 1) = h
        <5>1. m.index \in Nat /\ Len(m.entries) \in Nat /\ h \in 1..(m.index + Len(m.entries))
          BY <1>1
        <5> QED BY <2>2, <2>3, <2>7, <3>2, <5>1, TailPosition
      <4>2. log2[h] = tail[j]
        <5>1. h \in Len(head) + 1 .. Len(head) + Len(tail) BY <2>9, <2>10, <4>1
        <5>2. \A x \in 1..Len(head) + Len(tail) :
                log2[x] = IF x <= Len(head) THEN head[x] ELSE tail[x - Len(head)]
          BY <2>9, <2>10, ConcatProperties
        <5>3. Len(head) \in Nat /\ Len(tail) \in Nat /\ Len(head) = keep
          BY <2>9, <2>10, LenProperties
        <5>4. h \in 1..Len(head) + Len(tail) /\ ~ (h <= Len(head)) BY <5>1, <5>3
        <5> HIDE DEF log2
        <5> QED BY <5>2, <5>3, <5>4
      <4>4. tail[j] = m.entries[c + j - 1] BY <2>10, <4>1
      <4> DEFINE g == c + j - 1
      <4>5. g \in 1..Len(m.entries) /\ m.index + g = h BY <4>1
      <4>6. tail[j] = m.entries[g] BY <4>4
      <4> HIDE DEF g
      <4>7. m.entries[g] = L[h] BY <1>3, <4>5
      <4> QED BY <4>2, <4>6, <4>7
    <3> HIDE DEF log2
    <3> QED BY <2>3, <3>0, <3>1, <3>2
  <2> HIDE DEF log2
  <2>13. Agree(log2, L, last) BY <1>3, <1>4, <2>11, <2>12 DEF Agree
  <2>14. n2 = [n EXCEPT !.log = log2, !.persisted = MinOf(n.persisted, keep)]
    BY <2>4 DEF log2
  <2> HIDE DEF n2
  <2>15. /\ n2.id = n.id /\ n2.term = n.term /\ n2.vote = n.vote /\ n2.state = n.state
         /\ n2.votes = n.votes /\ n2.prs = n.prs /\ n2.messages = n.messages
         /\ n2.committed = n.committed /\ n2.log = log2
         /\ n2.persisted = MinOf(n.persisted, keep)
    BY <2>14 DEF Node
  <2>16. \E x \in Nat :
          /\ m.index <= x /\ x < last /\ x <= Len(n.log) /\ Agree(n.log, L, x)
          /\ n2.persisted = MinOf(n.persisted, x)
          /\ x < Len(n.log) => n.log[x + 1].term # L[x + 1].term
    BY <2>3, <2>5, <2>6, <2>8, <2>15 DEF S
  <2>17. Len(n2.log) = last /\ Agree(n2.log, L, last) BY <2>11, <2>13, <2>15
  <2> HIDE DEF last
  <2> QED BY <2>15, <2>16, <2>17 DEF TakesSlice, last, n2
<1> QED BY <1>7, <1>8

-----------------------------------------------------------------------------
(***************************************************************************)
(* Every step of a node is a chain of moves.  Besides Sends and Downs:     *)
(* asking for votes or pre-votes, granting one, answering with the commit  *)
(* index, learning a commit index, acknowledging, accepting entries,       *)
(* counting acknowledgements, taking office and proposing.  M is what the  *)
(* network holds.                                                          *)
(***************************************************************************)
\* What a request for votes says about its sender.
Carries(n, m) ==
  /\ m.from = n.id /\ m.index = Len(n.log) /\ m.log_term = LastTerm(n.log)
  /\ m.commit = n.committed /\ m.commit_term = TermAt(n.log, n.committed)

Asks(n, n2) ==
  /\ n2.id = n.id /\ n2.term = n.term + 1 /\ n2.vote = n.id /\ n2.state = "candidate"
  /\ n2.log = n.log /\ n2.committed = n.committed /\ n2.persisted = n.persisted
  /\ \A m \in n2.messages : \/ m \in n.messages
                            \/ m.type = "request_vote" /\ m.term = n2.term /\ Carries(n, m)

PreAsks(n, n2) ==
  /\ PreVote
  /\ n2.id = n.id /\ n2.term = n.term /\ n2.vote = n.vote /\ n2.state = "pre_candidate"
  /\ n2.log = n.log /\ n2.committed = n.committed /\ n2.persisted = n.persisted
  /\ \A m \in n2.messages : \/ m \in n.messages
                            \/ /\ m.type = "request_pre_vote" /\ m.term = n.term + 1
                               /\ Carries(n, m)

\* A vote for the sender of r.
Grants(n, n2, r) ==
  /\ r.type = "request_vote" /\ r.term = n.term /\ r.to = n.id
  /\ IsUpToDate(n.log, r.index, r.log_term)
  /\ n2.id = n.id /\ n2.term = n.term /\ n2.vote = r.from /\ n2.state = n.state
  /\ n2.log = n.log /\ n2.committed = n.committed /\ n2.persisted = n.persisted
  /\ n2.prs = n.prs
  /\ \A m \in n2.messages : \/ m \in n.messages
                            \/ /\ IsGrant(m) /\ m.from = n.id /\ m.to = r.from
                               /\ m.term = n.term /\ m.commit = 0

\* A refused vote, with the commit index.
Answers(n, n2) ==
  /\ Rest(n, n2) /\ n2.prs = n.prs /\ n2.committed = n.committed
  /\ \A m \in n2.messages :
       \/ m \in n.messages
       \/ /\ m.type \in {"request_vote_response", "request_pre_vote_response"} /\ m.reject
          /\ m.term = n.term /\ m.commit = n.committed
          /\ m.commit_term = TermAt(n.log, n.committed)

(***************************************************************************)
(* Vote traffic carries commit indexes.  A pre-vote request is refused in  *)
(* the receiver's own term, which may be far behind the sender's; the      *)
(* proofs about commits assume that no request brings a commit index the   *)
(* receiver can use from a sender in a later term.  (Without pre-vote      *)
(* there are no such requests.)                                            *)
(***************************************************************************)
CommitsCovered ==
  \A m \in msgs :
    (/\ m.type = "request_pre_vote" /\ m.commit > node[m.to].committed
     /\ MatchTerm(node[m.to].log, m.commit, m.commit_term))
       => m.term <= node[m.to].term + 1

\* The message m of the network says that k is committed.
Informs(n, m, k) ==
  /\ n.state # "leader" /\ m.commit = k
  /\ \/ m.type = "heartbeat" /\ m.term = n.term /\ m.to = n.id
     \/ /\ m.commit_term > 0 /\ MatchTerm(n.log, k, m.commit_term)
        /\ \/ m.type = "request_pre_vote" /\ (CommitsCovered => m.term <= n.term + 1)
           \/ m.type = "request_pre_vote_response" /\ ~ m.reject
           \/ /\ m.type \in {"request_vote", "request_vote_response",
                             "request_pre_vote_response"}
              /\ m.term <= n.term

Learns(n, n2, M) ==
  \E k \in Nat : /\ Commits(n, n2, k) /\ n.committed < k /\ k <= Len(n.log)
                 /\ \/ n.state = "leader" /\ CanCommit(n, k)
                    \/ \E m \in M : Informs(n, m, k)

\* An acknowledgement of everything up to k.
AckOf(n, m, k) ==
  /\ m.type = "append_response" /\ ~ m.reject /\ m.from = n.id /\ m.term = n.term
  /\ m.index = k

\* An append that ends before the commit index is acknowledged up to there.
Repeats(n, n2, M) ==
  /\ Rest(n, n2) /\ n2.prs = n.prs /\ n2.committed = n.committed /\ n.state # "leader"
  /\ \E m \in M : m.type = "append" /\ m.term = n.term
  /\ \A m \in n2.messages : m \in n.messages \/ AckOf(n, m, n.committed)

\* The append m is accepted.
Accepts(n, n2, m) ==
  /\ m.type = "append" /\ m.term = n.term /\ n.state = "follower"
  /\ n.committed <= m.index /\ MatchTerm(n.log, m.index, m.log_term)
  /\ n2.id = n.id /\ n2.term = n.term /\ n2.vote = n.vote /\ n2.state = n.state
  /\ n2.prs = n.prs
  /\ n2.log = LogAppend(n, m).log /\ n2.persisted = LogAppend(n, m).persisted
  /\ \/ n2.committed = n.committed
     \/ /\ n.committed < n2.committed /\ n2.committed <= m.commit
        /\ n2.committed <= m.index + Len(m.entries)
  /\ \A r \in n2.messages : r \in n.messages \/ AckOf(n, r, m.index + Len(m.entries))

\* A leader counts an acknowledgement, or what it has persisted itself.
Matches(n, n2, M) ==
  /\ Rest(n, n2) /\ n2.messages = n.messages /\ n2.committed = n.committed
  /\ n.state = "leader"
  /\ \A s \in Server :
       \/ n2.prs[s].matched = n.prs[s].matched
       \/ \E m \in M : /\ IsAck(m) /\ m.from = s /\ m.term = n.term
                       /\ n2.prs[s].matched = m.index
       \/ s = n.id /\ n2.prs[s].matched = n.persisted

\* A candidate with the votes of a quorum takes office.
WinsOffice(i, n, n2, M) ==
  /\ n.state = "candidate"
  /\ \E Y \in SUBSET Server : /\ IsQuorum(Incoming, Outgoing, Y)
                              /\ \A s \in Y : s = i \/ HasGrant(s, i, n.term, M)
  /\ \E l \in Node : TakesOffice(n, l) /\ Sends(l, n2)

\* A leader appends an entry.
Adds(n, a) ==
  /\ \E v \in Value \cup {Noop} : a.log = Append(n.log, [term |-> n.term, val |-> v])
  /\ a.id = n.id /\ a.term = n.term /\ a.vote = n.vote /\ a.state = n.state
  /\ a.committed = n.committed /\ a.persisted = n.persisted /\ a.prs = n.prs
  /\ a.messages = n.messages

Proposes(n, n2) ==
  n.state = "leader" /\ \E a \in Node : Adds(n, a) /\ Sends(a, n2)

\* One move, one that makes or extends a leader's log, and a chain of moves.
Move(i, b, n, n2, M) ==
  /\ NodeOK(i, n2, b)
  /\ \/ Sends(n, n2)
     \/ Downs(n, n2)
     \/ Asks(n, n2)
     \/ PreAsks(n, n2)
     \/ \E r \in M : Grants(n, n2, r)
     \/ Answers(n, n2)
     \/ Learns(n, n2, M)
     \/ Repeats(n, n2, M)
     \/ \E m \in M : Accepts(n, n2, m)
     \/ Matches(n, n2, M)

LeadMove(i, b, n, n2, M) ==
  NodeOK(i, n2, b) /\ (WinsOffice(i, n, n2, M) \/ Proposes(n, n2))

Chain(i, b, n, n2, M) ==
  \E x, y, z, w : /\ Move(i, b, n, x, M) /\ Move(i, b, x, y, M) /\ Move(i, b, y, z, M)
                  /\ Move(i, b, z, w, M)
                  /\ Move(i, b, w, n2, M) \/ LeadMove(i, b, w, n2, M)

\* Doing nothing is a move.
LEMMA NoMove ==
  ASSUME NEW i, NEW b, NEW n, NodeOK(i, n, b), NEW M
  PROVE  Move(i, b, n, n, M)
BY DEF Move, Sends, Rest, SameMatched

\* A chain may be shorter.
LEMMA ShortChain ==
  ASSUME NEW i, NEW b, NEW n, NodeOK(i, n, b), NEW M, NEW n2,
         Move(i, b, n, n2, M) \/ LeadMove(i, b, n, n2, M)
  PROVE  Chain(i, b, n, n2, M)
<1>1. Move(i, b, n, n, M) BY NoMove
<1> QED BY <1>1 DEF Chain

\* Sending that keeps the type is a move.
LEMMA SendsMove ==
  ASSUME NEW i, NEW b, NEW n, NEW n2, NodeOK(i, n2, b), Sends(n, n2), NEW M
  PROVE  Move(i, b, n, n2, M)
BY DEF Move

\* So is leaving a role.
LEMMA DownsMove ==
  ASSUME NEW i, NEW b, NEW n, NEW n2, NodeOK(i, n2, b), Downs(n, n2), NEW M
  PROVE  Move(i, b, n, n2, M)
BY DEF Move

\* BecomeFollower leaves a role.
LEMMA BecomeFollowerDowns ==
  ASSUME NEW n \in Node, NEW t \in Nat, t >= n.term, NEW leader
  PROVE  Downs(n, BecomeFollower(n, t, leader))
<1> DEFINE r == Reset(n, t)
           f == BecomeFollower(n, t, leader)
<1>1. /\ r.term = t /\ r.vote = (IF n.term = t THEN n.vote ELSE None) /\ r.id = n.id
      /\ r.log = n.log /\ r.committed = n.committed /\ r.persisted = n.persisted
      /\ r.messages = n.messages /\ DOMAIN r = DOMAIN n
  BY DEF Reset, Node
<1>2. f = [r EXCEPT !.leader_id = leader, !.state = "follower"] BY DEF BecomeFollower
<1>3. DOMAIN n = {"id", "term", "vote", "state", "leader_id", "lead_transferee", "elapsed",
                  "votes", "log", "committed", "persisted", "prs", "messages"}
  BY DEF Node
<1> HIDE DEF r, f
<1>4. /\ f.term = t /\ f.vote = (IF n.term = t THEN n.vote ELSE None) /\ f.id = n.id
      /\ f.log = n.log /\ f.committed = n.committed /\ f.persisted = n.persisted
      /\ f.messages = n.messages /\ f.state = "follower"
  BY <1>1, <1>2, <1>3
<1>5. Downs(n, f) BY <1>4 DEF Downs, StepDown
<1> QED BY <1>5 DEF f

\* ObserveTerm is a move.
LEMMA ObserveTermMoves ==
  ASSUME NEW i \in Server, NEW b \in Nat, NEW n, NodeOK(i, n, b), NEW m \in Message, NEW M
  PROVE  Move(i, b, n, ObserveTerm(n, m), M)
<1>1. m.term \in Nat /\ n.term \in Nat /\ n \in Node BY DEF Message, NodeOK, Node
<1>2. NodeOK(i, ObserveTerm(n, m), b) BY ObserveTermOK
<1>3. CASE m.term <= n.term \/ KeepsTerm(m) BY <1>3, NoMove DEF ObserveTerm
<1>4. CASE ~ (m.term <= n.term \/ KeepsTerm(m))
  <2>1. \A l : Downs(n, BecomeFollower(n, m.term, l)) BY <1>1, <1>4, BecomeFollowerDowns
  <2>2. Downs(n, ObserveTerm(n, m)) BY <1>4, <2>1 DEF ObserveTerm
  <2> QED BY <1>2, <2>2, DownsMove
<1> QED BY <1>3, <1>4

\* FollowLeader is a move, to a node that follows.
LEMMA FollowLeaderMoves ==
  ASSUME NEW i \in Server, NEW b \in Nat, NEW n, NodeOK(i, n, b), NEW m \in Message, NEW M,
         m.term = n.term, n.state # "leader"
  PROVE  /\ Move(i, b, n, FollowLeader(n, m), M)
         /\ FollowLeader(n, m).term = m.term /\ FollowLeader(n, m).state = "follower"
<1> DEFINE f == FollowLeader(n, m)
           g == [n EXCEPT !.elapsed = FALSE, !.leader_id = m.from]
           h == BecomeFollower(n, m.term, m.from)
<1>1. m.term \in Nat /\ n.term \in Nat /\ n \in Node BY DEF Message, NodeOK, Node
<1>2. NodeOK(i, f, b) BY FollowLeaderOK
<1>3. Downs(n, h) /\ h.term = m.term /\ h.state = "follower"
  BY <1>1, BecomeFollowerDowns, BecomeFollowerTerm
<1>4. Sends(n, g) /\ g.term = m.term /\ g.state = n.state
  BY <1>1 DEF Node, Sends, Rest, SameMatched
<1>5. f = h \/ (f = g /\ n.state = "follower")
  <2>1. n.state \in Role BY <1>1 DEF Node
  <2> QED BY <2>1 DEF FollowLeader, Role
<1> HIDE DEF f, g, h
<1>6. Move(i, b, n, f, M) BY <1>2, <1>3, <1>4, <1>5, DownsMove, SendsMove
<1> QED BY <1>3, <1>4, <1>5, <1>6 DEF f

\* One vote is no quorum among many.
LEMMA OneVoteLoses ==
  ASSUME Many, NEW i \in Server, NEW c, c.votes = [NoVotes EXCEPT ![i] = "yes"]
  PROVE  Tally(c) # "won"
<1>1. \A s \in Server : c.votes[s] = "yes" <=> s = i BY DEF NoVotes
<1>2. {s \in Server : c.votes[s] = "yes"} = {i} BY <1>1
<1>3. Tally(c) = "won" => IsQuorum(Incoming, Outgoing, {s \in Server : c.votes[s] = "yes"})
  BY TallyWon
<1>4. ~ IsQuorum(Incoming, Outgoing, {i}) BY OneIsNoQuorum DEF Many
<1> QED BY <1>2, <1>3, <1>4

\* The requests of a campaign tell about their sender.
LEMMA RequestsCarry ==
  ASSUME NEW n \in Node, NEW type, NEW t, NEW force, NEW m \in Requests(n, type, t, force)
  PROVE  m.type = type /\ m.term = t /\ Carries(n, m)
<1>1. PICK s : m = VoteRequest(n, type, t, s, force) BY DEF Requests
<1>2. /\ m.type = type /\ m.term = t /\ m.from = n.id /\ m.index = LastIndex(n.log)
      /\ m.log_term = LastTerm(n.log) /\ m.commit = n.committed
      /\ m.commit_term = TermAt(n.log, n.committed)
  BY <1>1 DEF VoteRequest, Msg
<1> QED BY <1>2 DEF Carries, LastIndex

\* Among many, a campaign asks.
LEMMA CampaignElectionAsks ==
  ASSUME Many, NEW i \in Server, NEW b \in Nat, NEW n, NodeOK(i, n, b), NEW force \in BOOLEAN
  PROVE  Asks(n, CampaignElection(n, force))
<1> DEFINE c == RecordVote(BecomeCandidate(n), n.id, TRUE)
           new == Requests(c, "request_vote", c.term, force)
           x == RequestVotes(c, "request_vote", c.term, force)
<1>1. n.id = i BY DEF NodeOK
<1>2. NodeOK(i, c, b) /\ StartsCampaign(n, c) BY NewCandidate
<1> HIDE DEF c
<1>3. c.votes = [NoVotes EXCEPT ![i] = "yes"] BY <1>1, <1>2 DEF StartsCampaign
<1>4. Tally(c) # "won" BY <1>3, OneVoteLoses
<1>5. CampaignElection(n, force) = x BY <1>4 DEF CampaignElection, c
<1>6. c \in Node BY <1>2 DEF NodeOK
<1>7. Queues(c, x, new) BY <1>6, RequestVotesQueues
<1>8. \A m \in new : m.type = "request_vote" /\ m.term = c.term /\ Carries(c, m)
  BY <1>6, RequestsCarry
<1> HIDE DEF new, x
<1>9. \A m \in new : Carries(n, m) BY <1>2, <1>8 DEF StartsCampaign, Carries
<1>10. Asks(n, x) BY <1>2, <1>7, <1>8, <1>9 DEF Asks, StartsCampaign, Queues
<1> QED BY <1>5, <1>10

\* Among many, a pre-campaign asks for pre-votes.
LEMMA CampaignPreElectionAsks ==
  ASSUME Many, PreVote, NEW i \in Server, NEW b \in Nat, NEW n, NodeOK(i, n, b)
  PROVE  PreAsks(n, CampaignPreElection(n))
<1> DEFINE c == RecordVote(BecomePreCandidate(n), n.id, TRUE)
           new == Requests(c, "request_pre_vote", c.term + 1, FALSE)
           x == RequestVotes(c, "request_pre_vote", c.term + 1, FALSE)
<1>1. n.id = i BY DEF NodeOK
<1>2. NodeOK(i, c, b) /\ StartsPreCampaign(n, c) BY NewPreCandidate
<1> HIDE DEF c
<1>3. c.votes = [NoVotes EXCEPT ![i] = "yes"] BY <1>1, <1>2 DEF StartsPreCampaign
<1>4. Tally(c) # "won" BY <1>3, OneVoteLoses
<1>5. CampaignPreElection(n) = x BY <1>4 DEF CampaignPreElection, c
<1>6. c \in Node BY <1>2 DEF NodeOK
<1>7. Queues(c, x, new) BY <1>6, RequestVotesQueues
<1>8. \A m \in new : m.type = "request_pre_vote" /\ m.term = c.term + 1 /\ Carries(c, m)
  BY <1>6, RequestsCarry
<1> HIDE DEF new, x
<1>9. \A m \in new : Carries(n, m) BY <1>2, <1>8 DEF StartsPreCampaign, Carries
<1>10. PreAsks(n, x) BY <1>2, <1>7, <1>8, <1>9 DEF PreAsks, StartsPreCampaign, Queues
<1> QED BY <1>5, <1>10

\* Among many, starting any campaign is a move.
LEMMA HupMoves ==
  ASSUME Many, NEW i \in Server, NEW b \in Nat, NEW n, NodeOK(i, n, b),
         NEW transfer \in BOOLEAN, NEW M
  PROVE  Move(i, b, n, Hup(n, transfer), M)
<1> DEFINE x == Hup(n, transfer)
<1>1. NodeOK(i, x, b) BY HupOK
<1>2. \A f \in BOOLEAN : Asks(n, CampaignElection(n, f)) BY CampaignElectionAsks
<1>3. PreVote => PreAsks(n, CampaignPreElection(n)) BY CampaignPreElectionAsks
<1>4. x = n \/ Asks(n, x) \/ PreAsks(n, x) BY <1>2, <1>3 DEF Hup
<1> HIDE DEF x
<1>5. x = n => Move(i, b, n, x, M) BY NoMove
<1>6. Move(i, b, n, x, M) BY <1>1, <1>4, <1>5 DEF Move
<1> QED BY <1>6 DEF x

\* Counting an answer: the node that has counted it, then a campaign's end.
LEMMA PollMoves ==
  ASSUME Many, NEW i \in Server, NEW b \in Nat, NEW n, NodeOK(i, n, b),
         NEW from \in Server, NEW granted \in BOOLEAN,
         NEW M \in SUBSET Message, NodeVotes(i, n, M),
         n.state \in {"pre_candidate", "candidate"},
         n.state = "candidate" /\ granted => HasGrant(from, i, n.term, M)
  PROVE  \E r : /\ Move(i, b, n, r, M)
                /\ \/ Move(i, b, r, Poll(n, from, granted), M)
                   \/ LeadMove(i, b, r, Poll(n, from, granted), M)
                      /\ Poll(n, from, granted).state = "leader"
<1> DEFINE r == RecordVote(n, from, granted)
           l == BecomeLeader(r)
           f == BecomeFollower(r, r.term, None)
           c == CampaignElection(r, FALSE)
           a == BroadcastAppend(l)
           p == Poll(n, from, granted)
           Y == {s \in Server : r.votes[s] = "yes"}
<1>1. NodeOK(i, r, b) /\ NodeOK(i, p, b) BY RecordVoteOK, PollOK
<1>2. n \in Node BY DEF NodeOK
<1>3. /\ Sends(n, r) /\ r.term = n.term /\ r.state = n.state
      /\ \A s \in Server : r.votes[s] = "yes" => n.votes[s] = "yes" \/ (s = from /\ granted)
  BY <1>2 DEF RecordVote, Node, Sends, Rest, SameMatched
<1>4. Tally(r) = "won" => IsQuorum(Incoming, Outgoing, Y) BY TallyWon
<1>5. Tally(r) \in {"pending", "lost", "won"} BY DEF Tally, JointVoteResult
<1>6. \/ p = r
      \/ p = f
      \/ Tally(r) = "won" /\ r.state = "pre_candidate" /\ p = c
      \/ Tally(r) = "won" /\ r.state # "pre_candidate" /\ p = a
  BY <1>5 DEF Poll
<1> HIDE DEF r, p
<1>7. Move(i, b, n, r, M) BY <1>1, <1>3, SendsMove
<1>8. CASE p = r BY <1>1, <1>7, <1>8, NoMove DEF p
<1>9. CASE p = f
  <2>1. r \in Node /\ r.term \in Nat /\ r.term >= r.term BY <1>1 DEF NodeOK, Node
  <2>2. Downs(r, f) BY <2>1, BecomeFollowerDowns
  <2>3. Move(i, b, r, p, M) BY <1>1, <1>9, <2>2, DownsMove
  <2> QED BY <1>7, <2>3 DEF p
<1>10. CASE Tally(r) = "won" /\ r.state = "pre_candidate" /\ p = c
  <2>1. Asks(r, c) BY <1>1, CampaignElectionAsks
  <2>2. Move(i, b, r, p, M) BY <1>1, <1>10, <2>1 DEF Move
  <2> QED BY <1>7, <2>2 DEF p
<1>11. CASE Tally(r) = "won" /\ r.state # "pre_candidate" /\ p = a
  <2>1. r.state = "candidate" /\ n.state = "candidate" BY <1>3, <1>11
  <2>2. ASSUME NEW s \in Y PROVE s = i \/ HasGrant(s, i, r.term, M)
    BY <1>3, <2>1 DEF NodeVotes
  <2>3. NodeOK(i, l, b) /\ TakesOffice(r, l) BY <1>1, NewLeader
  <2> HIDE DEF l
  <2>4. l.state = "leader" /\ l \in Node BY <2>3 DEF TakesOffice, NodeOK
  <2>5. Sends(l, a) BY <2>3, <2>4, BroadcastAppendSends
  <2>6. Y \in SUBSET Server OBVIOUS
  <2> HIDE DEF Y, a
  <2>7. WinsOffice(i, r, a, M)
    BY <1>4, <1>11, <2>1, <2>2, <2>3, <2>4, <2>5, <2>6 DEF WinsOffice
  <2>8. LeadMove(i, b, r, p, M) BY <1>1, <1>11, <2>7 DEF LeadMove
  <2>9. p.state = "leader" BY <1>11, <2>4, <2>5 DEF Sends, Rest
  <2> QED BY <1>7, <2>8, <2>9 DEF p
<1> QED BY <1>6, <1>8, <1>9, <1>10, <1>11

\* What a commit index in vote traffic needs to be of use.
Usable(n, m) ==
  \/ /\ m.type = "request_pre_vote"
     /\ (m.commit > n.committed /\ MatchTerm(n.log, m.commit, m.commit_term))
          => (CommitsCovered => m.term <= n.term + 1)
  \/ m.type = "request_pre_vote_response" /\ ~ m.reject
  \/ /\ m.type \in {"request_vote", "request_vote_response", "request_pre_vote_response"}
     /\ m.term <= n.term

\* Learning a commit index from vote traffic is a move.
LEMMA MaybeCommitByVoteMoves ==
  ASSUME NEW i \in Server, NEW b \in Nat, NEW n, NodeOK(i, n, b), NEW M \in SUBSET Message,
         NEW m \in M, Usable(n, m)
  PROVE  Move(i, b, n, MaybeCommitByVote(n, m), M)
<1> DEFINE x == MaybeCommitByVote(n, m)
           k == m.commit
<1>1. n \in Node /\ m \in Message /\ k \in Nat /\ m.commit_term \in Nat
  BY DEF NodeOK, Message
<1>2. NodeOK(i, x, b) BY <1>1, MaybeCommitByVoteOK
<1>3. CASE x = n BY <1>3, NoMove
<1>4. CASE x # n
  <2>1. /\ n.state # "leader" /\ m.commit_term # 0 /\ k > n.committed
        /\ MatchTerm(n.log, k, m.commit_term) /\ x = [n EXCEPT !.committed = k]
    BY <1>4 DEF MaybeCommitByVote, LogMaybeCommit
  <2> HIDE DEF x
  <2>2. Commits(n, x, k) BY <1>1, <2>1 DEF Commits, Rest, Node
  <2>3. m.commit_term > 0 /\ n.committed < k /\ k <= Len(n.log)
    BY <1>1, <2>1 DEF MatchTerm, LastIndex, Node
  <2>4. Informs(n, m, k) BY <2>1, <2>3 DEF Informs, Usable
  <2>5. Learns(n, x, M) BY <1>1, <2>2, <2>3, <2>4 DEF Learns
  <2> QED BY <1>2, <2>5 DEF Move, x
<1> QED BY <1>3, <1>4

\* A vote request is answered in two moves.
LEMMA HandleVoteRequestMoves ==
  ASSUME NEW i \in Server, NEW b \in Nat, NEW n, NodeOK(i, n, b), NEW M \in SUBSET Message,
         NEW m \in M, m.to = i, m.type \in VoteRequestType, Usable(n, m),
         m.type = "request_vote" => m.term = n.term
  PROVE  \E r : Move(i, b, n, r, M) /\ Move(i, b, r, HandleVoteRequest(n, m), M)
<1> DEFINE resp == Msg(n, VoteRespType(m.type), m.from)
           yes  == [resp EXCEPT !.term = m.term]
           no   == [resp EXCEPT !.reject = TRUE, !.commit = n.committed,
                                !.commit_term = TermAt(n.log, n.committed)]
           x    == HandleVoteRequest(n, m)
<1>1. n \in Node /\ n.id = i /\ m \in Message /\ m.from \in Server BY DEF NodeOK, Message
<1>2. NodeOK(i, x, b) BY <1>1, HandleVoteRequestOK
<1>3. ASSUME Move(i, b, n, x, M) PROVE \E r : Move(i, b, n, r, M) /\ Move(i, b, r, x, M)
  BY <1>2, <1>3, NoMove
<1>4. CASE ~ GrantsVote(n, m)
  <2> DEFINE d == Send(n, no)
  <2>1. /\ no.type \in {"request_vote_response", "request_pre_vote_response"} /\ no.reject
        /\ no.term = n.term /\ no.commit = n.committed
        /\ no.commit_term = TermAt(n.log, n.committed)
    BY DEF Msg, VoteRespType
  <2>2. x = MaybeCommitByVote(d, m) BY <1>4 DEF HandleVoteRequest
  <2>3. no \in Message
    <3>1. n.committed \in Nat /\ TermAt(n.log, n.committed) \in Nat
      BY <1>1, TermAtNat DEF Node
    <3>2. resp \in Message BY <1>1, MsgIsMessage DEF VoteRespType, MsgType
    <3> HIDE DEF resp
    <3> QED BY <3>1, <3>2 DEF Message
  <2> HIDE DEF no, x
  <2>4. NodeOK(i, d, b) BY <2>3, SendOK
  <2>5. d.log = n.log /\ d.committed = n.committed /\ d.term = n.term
    BY <1>1 DEF Send, Node
  <2>6. Queues(n, d, {no}) BY <1>1, SendQueues
  <2> HIDE DEF d
  <2>7. Answers(n, d) BY <2>1, <2>6 DEF Queues, Answers, Rest
  <2>8. Move(i, b, n, d, M) BY <2>4, <2>7 DEF Move
  <2>9. Usable(d, m) BY <2>5 DEF Usable
  <2>10. Move(i, b, d, x, M) BY <2>2, <2>4, <2>9, MaybeCommitByVoteMoves
  <2> QED BY <2>8, <2>10 DEF x
<1>5. CASE GrantsVote(n, m) /\ m.type = "request_pre_vote"
  <2>1. Plain(yes) BY <1>5 DEF Msg, VoteRespType, Plain, IsGrant, IsAck
  <2>2. x = Send(n, yes) BY <1>5 DEF HandleVoteRequest
  <2> HIDE DEF yes, x
  <2>3. Sends(n, x) BY <1>1, <2>1, <2>2, PlainSends
  <2>4. Move(i, b, n, x, M) BY <1>2, <2>3, SendsMove
  <2> QED BY <1>3, <2>4 DEF x
<1>6. CASE GrantsVote(n, m) /\ m.type = "request_vote"
  <2>1. IsGrant(yes) /\ yes.from = i /\ yes.to = m.from /\ yes.term = n.term /\ yes.commit = 0
    BY <1>1, <1>6 DEF Msg, VoteRespType, IsGrant
  <2>2. x = [Send(n, yes) EXCEPT !.elapsed = FALSE, !.vote = m.from]
    BY <1>6 DEF HandleVoteRequest
  <2>3. IsUpToDate(n.log, m.index, m.log_term) BY <1>6 DEF GrantsVote
  <2> HIDE DEF yes, x
  <2>4. /\ x.messages = n.messages \cup {yes} /\ x.vote = m.from /\ x.term = n.term
        /\ x.state = n.state /\ x.id = n.id /\ x.log = n.log /\ x.committed = n.committed
        /\ x.persisted = n.persisted /\ x.prs = n.prs
    BY <1>1, <2>2 DEF Send, Node
  <2>5. Grants(n, x, m) BY <1>1, <1>6, <2>1, <2>3, <2>4 DEF Grants
  <2>6. Move(i, b, n, x, M) BY <1>2, <2>5 DEF Move, x
  <2> QED BY <1>3, <2>6 DEF x
<1> QED BY <1>4, <1>5, <1>6 DEF VoteRequestType

\* A vote response is counted in three moves, of which the second may be the
\* last and make a leader.
LEMMA HandleVoteResponseMoves ==
  ASSUME Many, NEW i \in Server, NEW b \in Nat, NEW n, NodeOK(i, n, b),
         NEW M \in SUBSET Message, NodeVotes(i, n, M), NEW m \in M, m.to = i,
         m.type \in {"request_vote_response", "request_pre_vote_response"},
         ~ KeepsTerm(m) => m.term = n.term
  PROVE  \E r : /\ Move(i, b, n, r, M)
                /\ \/ \E p : /\ Move(i, b, r, p, M)
                             /\ Move(i, b, p, HandleVoteResponse(n, m), M)
                   \/ LeadMove(i, b, r, HandleVoteResponse(n, m), M)
<1> DEFINE p == Poll(n, m.from, ~ m.reject)
           x == HandleVoteResponse(n, m)
<1>1. m \in Message /\ m.from \in Server /\ (~ m.reject) \in BOOLEAN BY DEF Message
<1>2. CASE \/ n.state = "pre_candidate" /\ m.type = "request_pre_vote_response"
           \/ n.state = "candidate" /\ m.type = "request_vote_response"
  <2>1. n.state = "candidate" /\ ~ m.reject => HasGrant(m.from, i, n.term, M)
    BY <1>2 DEF HasGrant, IsGrant, KeepsTerm
  <2>2. n.state \in {"pre_candidate", "candidate"} BY <1>2
  <2>3. NodeOK(i, p, b) /\ Forward(n, p)
    <3>1. NodeOK(i, p, b) BY <1>1, PollOK
    <3>2. Forward(n, p) BY <1>1, PollForward
    <3> QED BY <3>1, <3>2
  <2>4. PICK r : /\ Move(i, b, n, r, M)
                 /\ \/ Move(i, b, r, p, M)
                    \/ LeadMove(i, b, r, p, M) /\ p.state = "leader"
    BY <1>1, <2>1, <2>2, PollMoves, ZenonT(30)
  <2>5. x = MaybeCommitByVote(p, m) BY <1>2 DEF HandleVoteResponse
  <2> HIDE DEF p, x
  <2>6. Usable(p, m)
    <3>1. n.term \in Nat /\ p.term \in Nat BY <2>3 DEF NodeOK, Node
    <3>2. n.term <= p.term BY <2>3, <3>1 DEF Forward
    <3> QED BY <3>1, <3>2 DEF Usable, KeepsTerm
  <2>7. Move(i, b, p, x, M) BY <2>3, <2>5, <2>6, MaybeCommitByVoteMoves
  <2>8. p.state = "leader" => x = p BY <2>5 DEF MaybeCommitByVote
  <2> QED BY <2>4, <2>7, <2>8 DEF x
<1>3. CASE ~ (\/ n.state = "pre_candidate" /\ m.type = "request_pre_vote_response"
              \/ n.state = "candidate" /\ m.type = "request_vote_response")
  <2>1. x = n BY <1>3 DEF HandleVoteResponse
  <2>2. Move(i, b, n, n, M) BY NoMove
  <2> QED BY <2>1, <2>2
<1> QED BY <1>2, <1>3

\* A heartbeat is handled in two moves.
LEMMA HandleHeartbeatMoves ==
  ASSUME NEW i \in Server, NEW b \in Nat, NEW n, NodeOK(i, n, b), NEW M \in SUBSET Message,
         NEW m \in M, m.type = "heartbeat", m.term = n.term, m.to = i, n.state # "leader"
  PROVE  \E r : Move(i, b, n, r, M) /\ Move(i, b, r, HandleHeartbeat(n, m), M)
<1> DEFINE k == m.commit
           c == CommitTo(n, k)
           a == Msg(n, "heartbeat_response", m.from)
           x == HandleHeartbeat(n, m)
<1>1. n \in Node /\ m \in Message /\ k \in Nat BY DEF NodeOK, Message
<1>2. NodeOK(i, c, b) /\ NodeOK(i, x, b) BY <1>1, CommitToOK, HandleHeartbeatOK
<1>3. Move(i, b, n, c, M)
  <2>1. CASE c = n BY <2>1, NoMove
  <2>2. CASE c # n
    <3>1. k > n.committed /\ k <= Len(n.log) /\ c = [n EXCEPT !.committed = k]
      BY <2>2 DEF CommitTo, LastIndex
    <3> HIDE DEF c
    <3>2. Commits(n, c, k) BY <1>1, <3>1 DEF Commits, Rest, Node
    <3>3. Informs(n, m, k) BY DEF Informs, NodeOK
    <3>4. n.committed < k BY <1>1, <3>1 DEF Node
    <3>5. Learns(n, c, M) BY <1>1, <3>1, <3>2, <3>3, <3>4 DEF Learns
    <3> QED BY <1>2, <3>5 DEF Move
  <2> QED BY <2>1, <2>2
<1>4. Plain(a) BY DEF Plain, Msg, IsGrant, IsAck
<1>5. x = Send(c, a) BY DEF HandleHeartbeat
<1> HIDE DEF c, a, x
<1>6. c \in Node BY <1>2 DEF NodeOK
<1>7. Sends(c, x) BY <1>4, <1>5, <1>6, PlainSends
<1>8. Move(i, b, c, x, M) BY <1>2, <1>7, SendsMove
<1> QED BY <1>3, <1>8 DEF x

\* An append is handled in one move.
LEMMA HandleAppendEntriesMoves ==
  ASSUME NEW i \in Server, NEW b \in Nat, NEW n, NodeOK(i, n, b), NEW M \in SUBSET Message,
         NEW m \in M, m.type = "append", m.term = n.term, n.state = "follower"
  PROVE  Move(i, b, n, HandleAppendEntries(n, m), M)
<1> DEFINE resp == Msg(n, "append_response", m.from)
           x    == HandleAppendEntries(n, m)
           last == m.index + Len(m.entries)
<1>1. /\ n \in Node /\ m \in Message /\ m.index \in Nat /\ n.committed \in Nat /\ n.id = i
      /\ last \in Nat /\ m.commit \in Nat
  <2>1. m \in Message OBVIOUS
  <2>2. m.entries \in Seq(Entry) /\ m.index \in Nat /\ m.commit \in Nat BY <2>1 DEF Message
  <2>3. Len(m.entries) \in Nat BY <2>2, LenProperties
  <2>4. last \in Nat BY <2>2, <2>3
  <2>5. n \in Node /\ n.id = i BY DEF NodeOK
  <2>6. n.committed \in Nat BY <2>5 DEF Node
  <2> HIDE DEF last
  <2> QED BY <2>1, <2>2, <2>4, <2>5, <2>6
<1>2. NodeOK(i, x, b) BY <1>1, HandleAppendEntriesOK
<1>3. CASE m.index < n.committed \/ AppendIsFatal(n, m) \/ ~ MatchTerm(n.log, m.index, m.log_term)
  <2> DEFINE hint == FindConflictByTerm(n.log, MinOf(m.index, LastIndex(n.log)), m.log_term)
             no   == [resp EXCEPT !.index = m.index, !.reject = TRUE, !.reject_hint = hint,
                                  !.log_term = TermAt(n.log, hint)]
             old  == [resp EXCEPT !.index = n.committed]
  <2>1. x = n \/ x = Send(n, old) \/ x = Send(n, no) BY <1>3 DEF HandleAppendEntries
  <2>2. AckOf(n, old, n.committed) /\ Plain(no) BY DEF AckOf, Msg, Plain, IsGrant, IsAck
  <2> HIDE DEF old, no, x
  <2>3. CASE x = n BY <2>3, NoMove DEF x
  <2>4. CASE x = Send(n, old)
    <3>1. Queues(n, x, {old}) BY <1>1, <2>4, SendQueues
    <3>2. Repeats(n, x, M) BY <2>2, <3>1 DEF Repeats, Queues, Rest
    <3> QED BY <1>2, <3>2 DEF Move, x
  <2>5. CASE x = Send(n, no)
    <3>1. Sends(n, x) BY <1>1, <2>2, <2>5, PlainSends
    <3> QED BY <1>2, <3>1, SendsMove DEF x
  <2> QED BY <2>1, <2>3, <2>4, <2>5
<1>4. CASE /\ ~ (m.index < n.committed) /\ ~ AppendIsFatal(n, m)
           /\ MatchTerm(n.log, m.index, m.log_term)
  <2> DEFINE l   == LogAppend(n, m)
             k   == MinOf(m.commit, last)
             c   == CommitTo(l, k)
             ack == [resp EXCEPT !.index = last]
  <2>1. x = Send(c, ack) BY <1>4 DEF HandleAppendEntries
  <2>2. AckOf(n, ack, last) BY DEF AckOf, Msg
  <2>3. n.committed <= m.index BY <1>1, <1>4
  <2>4. NodeOK(i, l, b) BY <1>1, <1>4, <2>3, LogAppendOK
  <2>5. k \in Nat /\ k <= m.commit /\ k <= last BY <1>1, MinMax
  <2>6. NodeOK(i, c, b) BY <2>4, <2>5, CommitToOK
  <2>7. /\ l.id = n.id /\ l.term = n.term /\ l.vote = n.vote /\ l.state = n.state
        /\ l.prs = n.prs /\ l.messages = n.messages /\ l.committed = n.committed
    BY <1>1 DEF LogAppend, Node
  <2> HIDE DEF l, k
  <2>8. l \in Node /\ c \in Node BY <2>4, <2>6 DEF NodeOK
  <2>9. /\ c.id = l.id /\ c.term = l.term /\ c.vote = l.vote /\ c.state = l.state
        /\ c.prs = l.prs /\ c.messages = l.messages /\ c.log = l.log
        /\ c.persisted = l.persisted
        /\ c.committed = l.committed \/ (l.committed < k /\ c.committed = k)
    BY <2>5, <2>8 DEF CommitTo, Node
  <2> HIDE DEF c, ack, x
  <2>10. Queues(c, x, {ack}) BY <2>1, <2>8, SendQueues
  <2>11. /\ n.committed < x.committed /\ x.committed <= m.commit /\ x.committed <= last
         \/ x.committed = n.committed
    BY <2>5, <2>7, <2>9, <2>10 DEF Queues
  <2>12. x.log = LogAppend(n, m).log /\ x.persisted = LogAppend(n, m).persisted
    BY <2>9, <2>10 DEF Queues, l
  <2>13. \A r \in x.messages : r \in n.messages \/ AckOf(n, r, m.index + Len(m.entries))
    BY <2>2, <2>7, <2>9, <2>10 DEF Queues
  <2>14. /\ x.id = n.id /\ x.term = n.term /\ x.vote = n.vote /\ x.state = n.state
         /\ x.prs = n.prs
    BY <2>7, <2>9, <2>10 DEF Queues
  <2>15. Accepts(n, x, m)
    BY <1>4, <2>3, <2>11, <2>12, <2>13, <2>14 DEF Accepts
  <2> QED BY <1>2, <2>15 DEF Move, x
<1> QED BY <1>3, <1>4

\* A leader's commit by counting is a move.
LEMMA MaybeCommitMoves ==
  ASSUME NEW i \in Server, NEW b \in Nat, NEW n, NodeOK(i, n, b), n.state = "leader",
         MayCommit(n), NEW M
  PROVE  /\ Learns(n, MaybeCommit(n), M) /\ Move(i, b, n, MaybeCommit(n), M)
         /\ MaybeCommit(n).state = "leader"
<1> DEFINE k == CHOOSE j \in 1..LastIndex(n.log) : CanCommit(n, j)
           x == MaybeCommit(n)
<1>1. n \in Node /\ Len(n.log) \in Nat BY LenProperties DEF NodeOK, Node
<1>2. NodeOK(i, x, b) BY MaybeCommitOK
<1>3. k \in 1..LastIndex(n.log) /\ CanCommit(n, k) BY DEF MayCommit
<1>4. x = [n EXCEPT !.committed = k] BY DEF MaybeCommit
<1> HIDE DEF k, x
<1>5. k \in Nat /\ k <= Len(n.log) BY <1>1, <1>3 DEF LastIndex
<1>6. n.committed < k BY <1>1, <1>3, <1>5 DEF CanCommit, Node
<1>7. Commits(n, x, k) BY <1>1, <1>4 DEF Commits, Rest, Node
<1>8. Learns(n, x, M) BY <1>3, <1>5, <1>6, <1>7 DEF Learns
<1>9. x.state = "leader" BY <1>7 DEF Commits, Rest
<1> QED BY <1>2, <1>8, <1>9 DEF Move, x

\* What acknowledgements and rejections do to the matched index.
LEMMA AckToMatched ==
  ASSUME NEW pr \in Progress, NEW k \in Nat, NEW m \in Message, NEW hint
  PROVE  /\ AckTo(pr, k).matched = IF k <= pr.matched THEN pr.matched ELSE k
         /\ DecTo(pr, m, hint).matched = pr.matched
BY DEF AckTo, DecTo, Progress

\* A leader handles an append response in four moves.
LEMMA HandleAppendResponseMoves ==
  ASSUME NEW i \in Server, NEW b \in Nat, NEW n, NodeOK(i, n, b), n.state = "leader",
         NEW M \in SUBSET Message, NEW m \in M, m.type = "append_response", m.term = n.term
  PROVE  \E x, y, z : /\ Move(i, b, n, x, M) /\ Move(i, b, x, y, M) /\ Move(i, b, y, z, M)
                      /\ Move(i, b, z, HandleAppendResponse(n, m), M)
<1> DEFINE hint  == IF m.reject /\ m.log_term > 0
                      THEN FindConflictByTerm(n.log, m.reject_hint, m.log_term)
                      ELSE m.reject_hint
           h     == [n.prs[m.from] EXCEPT !.recent_active = TRUE]
           heard == [n EXCEPT !.prs[m.from].recent_active = TRUE]
           pr    == heard.prs[m.from]
           ackpr == AckTo(pr, m.index)
           acked == [heard EXCEPT !.prs[m.from] = ackpr]
           decpr == DecTo(pr, m, hint)
           dec   == [heard EXCEPT !.prs[m.from] = decpr]
           c     == MaybeCommit(acked)
           sent  == IF MayCommit(acked) THEN BroadcastAppend(c)
                    ELSE IF IsPaused(pr) THEN SendAppend(acked, m.from)
                    ELSE acked
           final == SendAppendAggressively(sent, m.from)
           last  == SendTimeoutNow(final, m.from)
           back  == SendAppend(dec, m.from)
           res   == HandleAppendResponse(n, m)
<1>1. /\ n \in Node /\ n.log \in Seq(Entry) /\ m.from \in Server /\ m.index \in Nat
      /\ m.log_term \in Nat /\ m.reject_hint \in Nat /\ m \in Message
  BY DEF NodeOK, Node, Message
<1>2. hint \in Nat BY <1>1, FindConflictByTermNat
<1>3. h \in Progress /\ SoundProgress(h) /\ h.matched = n.prs[m.from].matched
  <2>1. n.prs[m.from] \in Progress /\ SoundProgress(n.prs[m.from])
    BY <1>1 DEF NodeOK, Node
  <2> QED BY <2>1, HeardSound
<1>4. heard = [n EXCEPT !.prs[m.from] = h] OBVIOUS
<1>5. \/ m.reject /\ res \in {heard, back}
      \/ ~ m.reject /\ m.index <= pr.matched /\ res = acked
      \/ ~ m.reject /\ ~ (m.index <= pr.matched) /\ res \in {final, last}
  BY DEF HandleAppendResponse
<1> HIDE DEF h, hint, heard, res
<1>6. NodeOK(i, heard, b) /\ Sends(n, heard) BY <1>1, <1>3, <1>4, OneProgressOK, OneProgressSends
<1>7. /\ heard \in Node /\ heard.state = "leader" /\ heard.term = n.term /\ pr \in Progress
      /\ SoundProgress(pr) /\ pr.matched \in Nat
  BY <1>1, <1>6 DEF NodeOK, Node, Progress, Sends, Rest
<1>8. pr = heard.prs[m.from] OBVIOUS
<1> HIDE DEF pr
<1>9. /\ ackpr \in Progress /\ SoundProgress(ackpr)
      /\ decpr \in Progress /\ SoundProgress(decpr)
  BY <1>1, <1>2, <1>7, AckToOK, DecToOK
<1>10. /\ ackpr.matched = IF m.index <= pr.matched THEN pr.matched ELSE m.index
       /\ decpr.matched = pr.matched
  BY <1>1, <1>7, AckToMatched
<1> HIDE DEF ackpr, decpr
<1>11. NodeOK(i, acked, b) /\ NodeOK(i, dec, b) BY <1>1, <1>6, <1>9, OneProgressOK
<1>12. Move(i, b, n, heard, M) BY <1>6, SendsMove
<1>13. \A y : NodeOK(i, y, b) => Move(i, b, y, y, M) BY NoMove
<1>14. CASE m.reject
  <2>1. Sends(heard, dec) BY <1>1, <1>7, <1>8, <1>10, OneProgressSends
  <2> HIDE DEF dec
  <2>2. dec.state = "leader" BY <1>7, <2>1 DEF Sends, Rest
  <2>3. Sends(dec, back) /\ NodeOK(i, back, b)
    BY <1>1, <1>11, <2>2, SendAppendSends, SendAppendOK
  <2> HIDE DEF back
  <2>4. Move(i, b, heard, dec, M) /\ Move(i, b, dec, back, M)
    BY <1>11, <2>1, <2>3, SendsMove
  <2>5. res \in {heard, back} BY <1>5, <1>14
  <2> QED BY <1>6, <1>12, <1>13, <2>3, <2>4, <2>5 DEF res
<1>15. CASE ~ m.reject /\ m.index <= pr.matched
  <2>1. Sends(heard, acked) BY <1>1, <1>7, <1>8, <1>10, <1>15, OneProgressSends
  <2>2. Move(i, b, heard, acked, M) BY <1>11, <2>1, SendsMove
  <2>3. res = acked BY <1>5, <1>15
  <2> HIDE DEF acked
  <2> QED BY <1>11, <1>12, <1>13, <2>2, <2>3 DEF res
<1>16. CASE ~ m.reject /\ ~ (m.index <= pr.matched)
  <2>1. IsAck(m) BY <1>1, <1>7, <1>16 DEF IsAck
  <2>2. /\ Rest(heard, acked) /\ acked.messages = heard.messages
        /\ acked.committed = heard.committed
        /\ acked.prs = [heard.prs EXCEPT ![m.from] = ackpr]
    BY <1>7 DEF Rest, Node
  <2> HIDE DEF acked
  <2>3. ASSUME NEW s \in Server
        PROVE  \/ acked.prs[s].matched = heard.prs[s].matched
               \/ m.from = s /\ acked.prs[s].matched = m.index
    <3>1. DOMAIN heard.prs = Server BY <1>7 DEF Node
    <3> QED BY <1>1, <1>10, <1>16, <2>2, <3>1
  <2>4. Matches(heard, acked, M) BY <1>7, <2>1, <2>2, <2>3 DEF Matches
  <2>5. Move(i, b, heard, acked, M) BY <1>11, <2>4 DEF Move
  <2>6. acked.state = "leader" BY <1>7, <2>2 DEF Rest
  <2>7. PICK y : /\ Move(i, b, acked, y, M) /\ NodeOK(i, y, b) /\ y.state = "leader"
                 /\ Sends(y, sent) /\ NodeOK(i, sent, b)
    <3>1. CASE MayCommit(acked)
      <4>1. Move(i, b, acked, c, M) /\ c.state = "leader" BY <1>11, <2>6, <3>1, MaybeCommitMoves
      <4>2. NodeOK(i, c, b) BY <4>1 DEF Move
      <4> HIDE DEF c
      <4>3. Sends(c, BroadcastAppend(c)) /\ NodeOK(i, BroadcastAppend(c), b)
        BY <4>1, <4>2, BroadcastAppendSends, BroadcastAppendOK
      <4> QED BY <3>1, <4>1, <4>2, <4>3
    <3>2. CASE ~ MayCommit(acked) /\ IsPaused(pr)
      <4>1. /\ Sends(acked, SendAppend(acked, m.from))
            /\ NodeOK(i, SendAppend(acked, m.from), b)
        BY <1>1, <1>11, <2>6, SendAppendSends, SendAppendOK
      <4> QED BY <1>11, <1>13, <2>6, <3>2, <4>1
    <3>3. CASE ~ MayCommit(acked) /\ ~ IsPaused(pr)
      <4>1. Sends(acked, acked) BY DEF Sends, Rest, SameMatched
      <4> QED BY <1>11, <1>13, <2>6, <3>3, <4>1
    <3> QED BY <3>1, <3>2, <3>3
  <2> HIDE DEF sent
  <2>8. sent.state = "leader" BY <2>7 DEF Sends, Rest
  <2>9. NodeOK(i, final, b) /\ Sends(sent, final)
    BY <1>1, <2>7, <2>8, SendAppendAggressivelyOK, SendAppendAggressivelySends
  <2> HIDE DEF final
  <2>10. final \in Node BY <2>9 DEF NodeOK
  <2>11. NodeOK(i, last, b) /\ Sends(final, last)
    BY <1>1, <2>9, <2>10, SendTimeoutNowOK, SendTimeoutNowSends
  <2> HIDE DEF last
  <2>12. res \in {final, last} BY <1>5, <1>16
  <2>13. Sends(y, final) BY <2>7, <2>9, SendsTransitive
  <2>14. Sends(y, last) BY <2>11, <2>13, SendsTransitive
  <2>15. NodeOK(i, res, b) /\ Sends(y, res) BY <2>9, <2>11, <2>12, <2>13, <2>14
  <2>16. Move(i, b, y, res, M) BY <2>15, SendsMove
  <2> QED BY <1>12, <2>5, <2>7, <2>16 DEF res
<1> QED BY <1>14, <1>15, <1>16

\* A proposal at a leader is nothing or a new entry.
LEMMA HandleProposeMoves ==
  ASSUME NEW i \in Server, NEW b \in Nat, NEW n, NodeOK(i, n, b), n.state = "leader",
         NEW v \in Value \cup {Noop}, NEW M
  PROVE  \/ Move(i, b, n, HandlePropose(n, v), M)
         \/ LeadMove(i, b, n, HandlePropose(n, v), M)
<1> DEFINE a == AppendEntry(n, v)
           x == BroadcastAppend(a)
<1>1. n \in Node BY DEF NodeOK
<1>2. NodeOK(i, a, b) BY AppendEntryOK
<1>3. Adds(n, a) BY <1>1 DEF AppendEntry, Adds, Node
<1> HIDE DEF a
<1>4. a \in Node /\ a.state = "leader" BY <1>2, <1>3 DEF NodeOK, Adds
<1>5. Sends(a, x) /\ NodeOK(i, x, b) BY <1>2, <1>4, BroadcastAppendSends, BroadcastAppendOK
<1>6. LeadMove(i, b, n, x, M) BY <1>3, <1>4, <1>5 DEF LeadMove, Proposes
<1>7. HandlePropose(n, v) \in {n, x} BY DEF HandlePropose, a
<1>8. Move(i, b, n, n, M) BY NoMove
<1> QED BY <1>6, <1>7, <1>8

-----------------------------------------------------------------------------
(***************************************************************************)
(* A step that leaves the disks and the network alone: a chain of moves of *)
(* node i, or a change of its bookkeeping.                                 *)
(***************************************************************************)
Runs(i) ==
  /\ UNCHANGED <<disk, msgs>>
  /\ \E x : \/ Chain(i, disk[i].commit, node[i], x, msgs) /\ Become(i, x)
            \/ /\ NodeOK(i, x, disk[i].commit) /\ Sends(node[i], x)
               /\ node' = [node EXCEPT ![i] = x] /\ UNCHANGED <<elected, decided>>

\* The actions of one node that touch neither its disk nor the network (a
\* campaign of a single server is won at once, and treated apart).
LEMMA LocalRuns ==
  ASSUME TypeInv, NEW i \in Server, Campaign(i) => Many,
         \/ Campaign(i)
         \/ LeaseExpires(i)
         \/ LeaderTick(i)
         \/ Beat(i)
         \/ \E v \in Value : Propose(i, v)
         \/ \E s \in Server : TransferLeader(i, s)
         \/ \E s \in Server : Unreachable(i, s)
  PROVE  Runs(i)
<1> DEFINE n == node[i]
           b == disk[i].commit
<1>1. NodeOK(i, n, b) /\ b \in Nat /\ n \in Node /\ n.term \in Nat
      /\ msgs \in SUBSET Message
  BY DEF TypeInv, TypeOK, NodeOK, Node, Disk
<1>2. \A x : Chain(i, b, n, x, msgs) /\ Become(i, x) /\ UNCHANGED <<disk, msgs>> => Runs(i)
  BY DEF Runs
<1>3. \A x : Move(i, b, n, x, msgs) \/ LeadMove(i, b, n, x, msgs) => Chain(i, b, n, x, msgs)
  BY <1>1, ShortChain
<1> HIDE DEF b
<1>4. \A x : NodeOK(i, x, b) /\ Sends(n, x) => Move(i, b, n, x, msgs) BY SendsMove
<1>5. CASE Campaign(i)
  <2> DEFINE c == [n EXCEPT !.elapsed = FALSE]
  <2>1. NodeOK(i, c, b) BY <1>1 DEF NodeOK, Node
  <2>2. Sends(n, c) BY <1>1 DEF Node, Sends, Rest, SameMatched
  <2>3. Become(i, Hup(c, FALSE)) /\ UNCHANGED <<disk, msgs>> BY <1>5 DEF Campaign
  <2> HIDE DEF c
  <2>4. Move(i, b, n, c, msgs) BY <1>4, <2>1, <2>2
  <2>5. Move(i, b, c, Hup(c, FALSE), msgs) BY <1>1, <1>5, <2>1, HupMoves
  <2>6. Move(i, b, n, n, msgs) BY <1>1, NoMove
  <2>7. Chain(i, b, n, Hup(c, FALSE), msgs) BY <2>4, <2>5, <2>6 DEF Chain
  <2> QED BY <1>2, <2>3, <2>7
<1>6. CASE LeaseExpires(i)
  <2> DEFINE c == [n EXCEPT !.elapsed = TRUE]
  <2>1. NodeOK(i, c, b) BY <1>1 DEF NodeOK, Node
  <2>2. Sends(n, c) BY <1>1 DEF Node, Sends, Rest, SameMatched
  <2>3. node' = [node EXCEPT ![i] = c] /\ UNCHANGED <<elected, decided, disk, msgs>>
    BY <1>6 DEF LeaseExpires
  <2> HIDE DEF c
  <2> QED BY <2>1, <2>2, <2>3 DEF Runs, b
<1>7. CASE LeaderTick(i)
  <2> DEFINE w == [n EXCEPT !.lead_transferee = None]
             z == [NewWindow(n) EXCEPT !.elapsed = FALSE, !.lead_transferee = None]
             f == BecomeFollower(n, n.term, None)
             x == LeaderTimeout(n)
  <2>1. Sends(n, w) BY <1>1 DEF Node, Sends, Rest, SameMatched
  <2>2. Sends(n, z)
    <3>1. z = [n EXCEPT !.prs = NewWindow(n).prs, !.elapsed = FALSE, !.lead_transferee = None]
      BY <1>1 DEF Node, NewWindow
    <3>2. ASSUME NEW s \in Server PROVE NewWindow(n).prs[s].matched = n.prs[s].matched
      <4>1. n.prs[s] \in Progress BY <1>1 DEF Node
      <4>2. NewWindow(n).prs[s] = [n.prs[s] EXCEPT !.recent_active = (s = n.id)]
        BY <1>1 DEF Node, NewWindow
      <4> QED BY <4>1, <4>2 DEF Progress
    <3>3. Rest(n, z) /\ z.committed = n.committed /\ z.messages = n.messages
          /\ z.prs = NewWindow(n).prs
      BY <1>1, <3>1 DEF Node, Rest
    <3> HIDE DEF z
    <3> QED BY <3>2, <3>3 DEF Sends, SameMatched
  <2>3. Downs(n, f) BY <1>1, BecomeFollowerDowns
  <2>4. x \in {w, z, f} BY DEF LeaderTimeout
  <2>5. NodeOK(i, x, b) BY <1>1, LeaderTimeoutOK
  <2>6. Become(i, x) /\ UNCHANGED <<disk, msgs>> BY <1>7 DEF LeaderTick
  <2> HIDE DEF w, z, f, x
  <2>7. Move(i, b, n, x, msgs) BY <1>4, <2>1, <2>2, <2>3, <2>4, <2>5, DownsMove
  <2> QED BY <1>2, <1>3, <2>6, <2>7
<1>8. CASE Beat(i)
  <2>1. Sends(n, BroadcastHeartbeat(n)) BY <1>1, <1>8, BroadcastHeartbeatSends DEF Beat
  <2>2. NodeOK(i, BroadcastHeartbeat(n), b) BY <1>1, BroadcastHeartbeatOK
  <2> QED BY <1>2, <1>3, <1>4, <1>8, <2>1, <2>2 DEF Beat
<1>9. ASSUME NEW v \in Value, Propose(i, v) PROVE Runs(i)
  <2> DEFINE m == ProposeMsg(i, n.leader_id, v)
  <2>1. UNCHANGED <<disk, msgs>> BY <1>9 DEF Propose
  <2>2. CASE n.state = "leader" /\ Become(i, HandlePropose(n, v))
    <3>1. \/ Move(i, b, n, HandlePropose(n, v), msgs)
          \/ LeadMove(i, b, n, HandlePropose(n, v), msgs)
      BY <1>1, <2>2, HandleProposeMoves
    <3> QED BY <1>2, <1>3, <2>1, <2>2, <3>1
  <2>3. CASE n.leader_id # None /\ Become(i, Send(n, m))
    <3>1. Plain(m) BY DEF ProposeMsg, Msg, Plain, IsGrant, IsAck
    <3>2. m \in Message
      <4>1. n.leader_id \in Server BY <1>1, <2>3 DEF Node
      <4>2. Msg(n, "propose", n.leader_id) \in Message
        BY <1>1, <4>1, MsgIsMessage DEF MsgType
      <4>3. <<[term |-> 0, val |-> v]>> \in Seq(Entry) BY DEF Entry
      <4> QED BY <4>2, <4>3 DEF ProposeMsg, Message
    <3> HIDE DEF m
    <3>3. Sends(n, Send(n, m)) BY <1>1, <3>1, PlainSends
    <3>4. NodeOK(i, Send(n, m), b) BY <1>1, <3>2, SendOK
    <3> QED BY <1>2, <1>3, <1>4, <2>1, <2>3, <3>3, <3>4
  <2> QED BY <1>9, <2>2, <2>3 DEF Propose
<1>10. ASSUME NEW s \in Server, TransferLeader(i, s) PROVE Runs(i)
  <2> DEFINE m == [Msg(n, "transfer_leader", n.leader_id) EXCEPT !.from = s]
             x == HandleTransferLeader(n, s)
  <2>1. UNCHANGED <<disk, msgs>> BY <1>10 DEF TransferLeader
  <2>2. CASE n.state = "leader" /\ Become(i, x)
    <3>1. Sends(n, x) BY <1>1, <2>2, HandleTransferLeaderSends
    <3>2. NodeOK(i, x, b) BY <1>1, HandleTransferLeaderOK
    <3> QED BY <1>2, <1>3, <1>4, <2>1, <2>2, <3>1, <3>2
  <2>3. CASE n.leader_id # None /\ Become(i, Send(n, m))
    <3>1. Plain(m) BY DEF Msg, Plain, IsGrant, IsAck
    <3>2. m \in Message
      <4>1. n.leader_id \in Server BY <1>1, <2>3 DEF Node
      <4>2. Msg(n, "transfer_leader", n.leader_id) \in Message
        BY <1>1, <4>1, MsgIsMessage DEF MsgType
      <4> QED BY <4>2 DEF Message
    <3> HIDE DEF m
    <3>3. Sends(n, Send(n, m)) BY <1>1, <3>1, PlainSends
    <3>4. NodeOK(i, Send(n, m), b) BY <1>1, <3>2, SendOK
    <3> QED BY <1>2, <1>3, <1>4, <2>1, <2>3, <3>3, <3>4
  <2> QED BY <1>10, <2>2, <2>3 DEF TransferLeader
<1>11. ASSUME NEW s \in Server, Unreachable(i, s) PROVE Runs(i)
  <2> DEFINE pr == [n.prs[s] EXCEPT !.state = "probe", !.next_idx = n.prs[s].matched + 1,
                                    !.paused = FALSE, !.inflights = <<>>]
             x  == [n EXCEPT !.prs[s] = pr]
  <2>1. Become(i, x) /\ UNCHANGED <<disk, msgs>> BY <1>11 DEF Unreachable
  <2>2. pr \in Progress /\ SoundProgress(pr) /\ pr.matched = n.prs[s].matched
    <3>1. n.prs[s] \in Progress BY <1>1 DEF Node
    <3>2. pr.matched = n.prs[s].matched BY <3>1 DEF Progress
    <3> QED BY <3>1, <3>2, ProbeSound
  <2> HIDE DEF pr
  <2>3. Sends(n, x) /\ NodeOK(i, x, b) BY <1>1, <2>2, OneProgressSends, OneProgressOK
  <2> QED BY <1>2, <1>3, <1>4, <2>1, <2>3
<1> QED BY <1>5, <1>6, <1>7, <1>8, <1>9, <1>10, <1>11

\* Every delivery of a message of the network.
LEMMA ReceiveRuns ==
  ASSUME Many, TypeInv, VotesAgree, NEW m \in msgs, Receive(m)
  PROVE  Runs(m.to)
<1> DEFINE i == m.to
           n == node[i]
           b == disk[i].commit
           o == Observed(m)
<1> SUFFICES Runs(i) OBVIOUS
<1>1. m \in Message /\ i \in Server /\ m.from \in Server /\ m.term \in Nat
      /\ m.entries \in Seq(Entry)
  BY DEF TypeInv, TypeOK, Message
<1>2. NodeOK(i, n, b) /\ b \in Nat /\ n \in Node /\ n.term \in Nat
      /\ msgs \in SUBSET Message /\ GrantsAsked(msgs) /\ NodeVotes(i, n, msgs)
  BY <1>1, Context DEF NodeOK, Node
<1>3. NodeOK(i, o, b) /\ Move(i, b, n, o, msgs)
  BY <1>1, <1>2, ObserveTermOK, ObserveTermMoves DEF Observed
<1>4. ASSUME Current(m)
      PROVE  /\ NodeVotes(i, o, msgs)
             /\ ~ KeepsTerm(m) => o.term = m.term
             /\ KeepsTerm(m) => o = n
  <2>1. m.term >= n.term BY <1>4 DEF Current
  <2>2. o = ObserveTerm(n, m) BY DEF Observed
  <2> HIDE DEF o, n, i, b
  <2>3. /\ NodeVotes(i, o, msgs)
        /\ ~ KeepsTerm(m) => o.term = m.term
    BY <1>1, <1>2, <2>1, <2>2, ObserveTermVotes
  <2>4. KeepsTerm(m) => o = n BY <2>2 DEF ObserveTerm
  <2> QED BY <2>3, <2>4
<1>5. \A x : Chain(i, b, n, x, msgs) /\ Become(i, x) /\ UNCHANGED <<disk, msgs>> => Runs(i)
  BY DEF Runs
<1>6. \A x : Chain(i, b, n, x, msgs) /\ Deliver(m, x) => Runs(i)
  BY <1>5 DEF Deliver
<1>7. \A x : Move(i, b, n, x, msgs) \/ LeadMove(i, b, n, x, msgs) => Chain(i, b, n, x, msgs)
  BY <1>1, <1>2, ShortChain
<1>8. \A x : NodeOK(i, x, b) => Move(i, b, x, x, msgs) BY NoMove
<1>9. \A x : Move(i, b, o, x, msgs) => Chain(i, b, n, x, msgs)
  <2> SUFFICES ASSUME NEW x, Move(i, b, o, x, msgs) PROVE Chain(i, b, n, x, msgs) OBVIOUS
  <2>1. Move(i, b, n, n, msgs) BY <1>2, <1>8
  <2> HIDE DEF o
  <2> QED BY <1>3, <2>1 DEF Chain
<1>10. \A x : NodeOK(i, x, b) /\ Sends(o, x) => Chain(i, b, n, x, msgs) BY <1>9, SendsMove
<1>11. \A x : NodeOK(i, x, b) /\ Sends(n, x) => Chain(i, b, n, x, msgs) BY <1>7, SendsMove
<1> HIDE DEF n, b, o
<1>12. CASE ReceiveStale(m)
  <2> DEFINE new == StaleReply(n, m)
             x == [n EXCEPT !.messages = n.messages \cup new]
  <2>1. \A r \in new : Plain(r)
    BY DEF StaleReply, Msg, Plain, IsGrant, IsAck
  <2>2. new \subseteq Message
    <3>1. \A t \in MsgType : Msg(n, t, m.from) \in Message BY <1>1, <1>2, MsgIsMessage
    <3>2. Msg(n, "append_response", m.from) \in Message BY <3>1 DEF MsgType
    <3>3. Msg(n, "request_pre_vote_response", m.from) \in Message BY <3>1 DEF MsgType
    <3>4. \A r \in Message : [r EXCEPT !.reject = TRUE] \in Message BY DEF Message
    <3> QED BY <3>2, <3>3, <3>4 DEF StaleReply
  <2>3. Deliver(m, x) BY <1>12 DEF ReceiveStale, n
  <2> HIDE DEF new
  <2>4. Sends(n, x) BY <1>2, <2>1 DEF Sends, Rest, SameMatched, Node
  <2>5. NodeOK(i, x, b) BY <1>2, <2>2 DEF NodeOK, Node
  <2> HIDE DEF x
  <2> QED BY <1>6, <1>11, <2>3, <2>4, <2>5
<1> HIDE DEF i
<1>13. CASE ReceiveVoteRequest(m)
  <2> DEFINE x == HandleVoteRequest(o, m)
  <2>1. m.type \in VoteRequestType /\ Current(m) /\ Deliver(m, x)
    BY <1>13 DEF ReceiveVoteRequest, o
  <2>2. m.type = "request_vote" => m.term = o.term BY <1>4, <2>1 DEF KeepsTerm
  <2>3. m.to = i BY DEF i
  <2>4. Usable(o, m)
    <3>1. CASE m.type = "request_pre_vote"
      <4>1. o = node[m.to] BY <1>4, <2>1, <3>1 DEF KeepsTerm, n, i
      <4> QED BY <3>1, <4>1 DEF Usable, CommitsCovered
    <3>2. CASE m.type = "request_vote"
      <4>1. m.term <= o.term BY <1>1, <2>2, <3>2
      <4> QED BY <3>2, <4>1 DEF Usable
    <3> QED BY <2>1, <3>1, <3>2 DEF VoteRequestType
  <2>5. PICK r : Move(i, b, o, r, msgs) /\ Move(i, b, r, x, msgs)
    BY <1>1, <1>2, <1>3, <2>1, <2>2, <2>3, <2>4, HandleVoteRequestMoves
  <2> HIDE DEF x
  <2>6. Move(i, b, n, n, msgs) BY <1>2, <1>8
  <2>7. Chain(i, b, n, x, msgs) BY <1>3, <2>5, <2>6 DEF Chain
  <2> QED BY <1>6, <2>1, <2>7
<1>14. CASE ReceiveVoteResponse(m)
  <2> DEFINE x == HandleVoteResponse(o, m)
  <2>1. m.type \in {"request_vote_response", "request_pre_vote_response"} /\ Current(m)
        /\ Deliver(m, x)
    BY <1>14 DEF ReceiveVoteResponse, o
  <2>2. m.to = i /\ NodeVotes(i, o, msgs) /\ (~ KeepsTerm(m) => m.term = o.term)
    BY <1>4, <2>1 DEF i
  <2>3. PICK r : /\ Move(i, b, o, r, msgs)
                 /\ \/ \E p : Move(i, b, r, p, msgs) /\ Move(i, b, p, x, msgs)
                    \/ LeadMove(i, b, r, x, msgs)
    BY <1>1, <1>2, <1>3, <2>1, <2>2, HandleVoteResponseMoves
  <2> HIDE DEF x
  <2>4. Move(i, b, n, n, msgs) BY <1>2, <1>8
  <2>5. Chain(i, b, n, x, msgs) BY <1>3, <2>3, <2>4 DEF Chain
  <2> QED BY <1>6, <2>1, <2>5
<1>15. CASE ReceiveAppend(m)
  <2> DEFINE f == FollowLeader(o, m)
             x == HandleAppendEntries(f, m)
  <2>1. m.type = "append" /\ Current(m) /\ o.state # "leader" /\ Deliver(m, x)
    BY <1>15 DEF ReceiveAppend, o
  <2>2. m.term = o.term BY <1>4, <2>1 DEF KeepsTerm
  <2>3. NodeOK(i, f, b) BY <1>1, <1>2, <1>3, FollowLeaderOK
  <2>4. Move(i, b, o, f, msgs) /\ f.term = m.term /\ f.state = "follower"
    BY <1>1, <1>2, <1>3, <2>1, <2>2, FollowLeaderMoves
  <2> HIDE DEF f
  <2>5. Move(i, b, f, x, msgs) BY <1>1, <1>2, <2>1, <2>3, <2>4, HandleAppendEntriesMoves
  <2> HIDE DEF x
  <2>6. Move(i, b, n, n, msgs) BY <1>2, <1>8
  <2>7. Chain(i, b, n, x, msgs) BY <1>3, <2>4, <2>5, <2>6 DEF Chain
  <2> QED BY <1>6, <2>1, <2>7
<1>16. CASE ReceiveHeartbeat(m)
  <2> DEFINE f == FollowLeader(o, m)
             x == HandleHeartbeat(f, m)
  <2>1. m.type = "heartbeat" /\ Current(m) /\ o.state # "leader" /\ Deliver(m, x)
    BY <1>16 DEF ReceiveHeartbeat, o
  <2>2. m.term = o.term BY <1>4, <2>1 DEF KeepsTerm
  <2>3. NodeOK(i, f, b) BY <1>1, <1>2, <1>3, FollowLeaderOK
  <2>4. Move(i, b, o, f, msgs) /\ f.term = m.term /\ f.state = "follower"
    BY <1>1, <1>2, <1>3, <2>1, <2>2, FollowLeaderMoves
  <2> HIDE DEF f
  <2>5. m.to = i BY DEF i
  <2>6. PICK c : Move(i, b, f, c, msgs) /\ Move(i, b, c, x, msgs)
    BY <1>1, <1>2, <2>1, <2>3, <2>4, <2>5, HandleHeartbeatMoves
  <2> HIDE DEF x
  <2>7. Move(i, b, n, n, msgs) BY <1>2, <1>8
  <2>8. Chain(i, b, n, x, msgs) BY <1>3, <2>4, <2>6, <2>7 DEF Chain
  <2> QED BY <1>6, <2>1, <2>8
<1>17. CASE ReceiveAppendResponse(m)
  <2> DEFINE x == HandleAppendResponse(o, m)
  <2>1. m.type = "append_response" /\ Current(m)
        /\ Deliver(m, IF o.state = "leader" THEN x ELSE o)
    BY <1>17 DEF ReceiveAppendResponse, o
  <2>2. m.term = o.term BY <1>4, <2>1 DEF KeepsTerm
  <2>3. CASE o.state = "leader"
    <3>1. PICK u, v, w : /\ Move(i, b, o, u, msgs) /\ Move(i, b, u, v, msgs)
                         /\ Move(i, b, v, w, msgs) /\ Move(i, b, w, x, msgs)
      BY <1>1, <1>2, <1>3, <2>1, <2>2, <2>3, HandleAppendResponseMoves
    <3> HIDE DEF x
    <3>2. Chain(i, b, n, x, msgs) BY <1>3, <3>1 DEF Chain
    <3> QED BY <1>6, <2>1, <2>3, <3>2
  <2>4. CASE o.state # "leader" BY <1>3, <1>6, <1>7, <2>1, <2>4
  <2> QED BY <2>3, <2>4
<1>18. CASE ReceiveHeartbeatResponse(m)
  <2> DEFINE x == HandleHeartbeatResponse(o, m)
  <2>1. Current(m) /\ Deliver(m, IF o.state = "leader" THEN x ELSE o)
    BY <1>18 DEF ReceiveHeartbeatResponse, o
  <2>2. CASE o.state = "leader"
    <3>1. Sends(o, x) /\ NodeOK(i, x, b)
      BY <1>1, <1>2, <1>3, <2>2, HandleHeartbeatResponseSends, HandleHeartbeatResponseOK
    <3> QED BY <1>6, <1>10, <2>1, <2>2, <3>1
  <2>3. CASE o.state # "leader" BY <1>3, <1>6, <1>7, <2>1, <2>3
  <2> QED BY <2>2, <2>3
<1>19. CASE ReceiveTimeoutNow(m)
  <2> DEFINE x == Hup(o, TRUE)
  <2>1. Deliver(m, IF o.state = "follower" THEN x ELSE o) BY <1>19 DEF ReceiveTimeoutNow, o
  <2>2. Move(i, b, o, x, msgs) BY <1>1, <1>2, <1>3, HupMoves
  <2> HIDE DEF x
  <2> QED BY <1>3, <1>6, <1>7, <1>9, <2>1, <2>2
<1>20. CASE ReceiveTransferLeader(m)
  <2> DEFINE x == HandleTransferLeader(o, m.from)
  <2>1. Deliver(m, IF o.state = "leader" THEN x ELSE o) BY <1>20 DEF ReceiveTransferLeader, o
  <2>2. CASE o.state = "leader"
    <3>1. Sends(o, x) /\ NodeOK(i, x, b)
      BY <1>1, <1>2, <1>3, <2>2, HandleTransferLeaderSends, HandleTransferLeaderOK
    <3> QED BY <1>6, <1>10, <2>1, <2>2, <3>1
  <2>3. CASE o.state # "leader" BY <1>3, <1>6, <1>7, <2>1, <2>3
  <2> QED BY <2>2, <2>3
<1>21. CASE ReceivePropose(m)
  <2> DEFINE f == [m EXCEPT !.to = n.leader_id]
             v == m.entries[1].val
             x == HandlePropose(n, v)
  <2>1. m.entries # <<>> /\ UNCHANGED <<disk, msgs>> /\ m.type = "propose"
    BY <1>21 DEF ReceivePropose
  <2>2. v \in Value \cup {Noop}
    <3>1. 1 \in 1..Len(m.entries) BY <1>1, <2>1, LenProperties, EmptySeq
    <3>2. m.entries[1] \in Entry BY <1>1, <3>1, ElementOfSeq
    <3> QED BY <3>2 DEF Entry
  <2>3. \/ n.state = "leader" /\ Become(i, x)
        \/ n.leader_id # None /\ Become(i, Send(n, f))
    BY <1>21 DEF ReceivePropose, n, i
  <2> HIDE DEF v
  <2>4. CASE n.state = "leader" /\ Become(i, x)
    <3>1. Move(i, b, n, x, msgs) \/ LeadMove(i, b, n, x, msgs)
      BY <1>1, <1>2, <2>2, <2>4, HandleProposeMoves
    <3> HIDE DEF x
    <3> QED BY <1>5, <1>7, <2>1, <2>4, <3>1
  <2>5. CASE n.leader_id # None /\ Become(i, Send(n, f))
    <3>1. f.type = "propose" /\ f \in Message
      <4>1. n.leader_id \in Server BY <1>2, <2>5 DEF Node
      <4> QED BY <1>1, <2>1, <4>1 DEF Message
    <3> HIDE DEF f
    <3>2. Plain(f) BY <3>1 DEF Plain, IsGrant, IsAck
    <3>3. Sends(n, Send(n, f)) /\ NodeOK(i, Send(n, f), b)
      BY <1>1, <1>2, <3>1, <3>2, PlainSends, SendOK
    <3> QED BY <1>5, <1>11, <2>1, <2>5, <3>3
  <2> QED BY <2>3, <2>4, <2>5
<1> QED
  BY <1>12, <1>13, <1>14, <1>15, <1>16, <1>17, <1>18, <1>19, <1>20, <1>21 DEF Receive

(***************************************************************************)
(* A Ready that was persisted: the node p that knows it, then a leader     *)
(* counts itself (a), may commit (c), and sends what that allows.          *)
(***************************************************************************)
Persists(i, b, n, n2, M) ==
  \E p, a, c :
    /\ NodeOK(i, p, b) /\ NodeOK(i, a, b) /\ NodeOK(i, c, b) /\ NodeOK(i, n2, b)
    /\ p = [n EXCEPT !.persisted = Len(n.log)]
    /\ a = p \/ Matches(p, a, M)
    /\ c = a \/ Learns(a, c, M)
    /\ Sends(c, n2)

\* OnPersistEntries does that.
LEMMA OnPersistEntriesPersists ==
  ASSUME NEW i \in Server, NEW b \in Nat, NEW n, NodeOK(i, n, b), NEW M
  PROVE  Persists(i, b, n, OnPersistEntries(n), M)
<1> DEFINE last == LastIndex(n.log)
           p == [n EXCEPT !.persisted = last]
           own == [n.prs[n.id] EXCEPT !.matched = last, !.next_idx = MaxOf(@, last + 1)]
           a == [p EXCEPT !.prs[n.id] = own]
           o == OnPersistEntries(n)
           c == MaybeCommit(a)
<1>1. /\ n \in Node /\ n.id = i /\ n.persisted \in Nat
      /\ last \in Nat /\ n.persisted <= last /\ b <= n.committed /\ n.committed <= last
      /\ n.committed \in Nat /\ last = Len(n.log)
  BY LenProperties DEF NodeOK, Node, LastIndex
<1> HIDE DEF last
<1>2. NodeOK(i, p, b)
  <2>1. p \in Node BY <1>1 DEF Node
  <2>2. /\ p.log = n.log /\ p.persisted = last /\ p.committed = n.committed
        /\ p.prs = n.prs /\ p.id = n.id
    BY <1>1 DEF Node
  <2> HIDE DEF p
  <2> QED BY <1>1, <2>1, <2>2 DEF NodeOK
<1>3. own \in Progress /\ SoundProgress(own) /\ own.matched = last
  <2>1. n.prs[n.id] \in Progress /\ SoundProgress(n.prs[n.id])
    BY <1>1 DEF NodeOK, Node
  <2> QED BY <1>1, <2>1, OwnSound
<1>4. n.persisted >= last => p = n BY <1>1 DEF Node
<1>5. \/ o = p
      \/ n.state = "leader" /\ o = a
      \/ n.state = "leader" /\ MayCommit(a) /\ o = BroadcastAppend(c)
  <2>1. a = [p EXCEPT !.prs[n.id].matched = last, !.prs[n.id].next_idx = MaxOf(@, last + 1)]
    BY <1>1 DEF Node, Progress
  <2> QED BY <1>4, <2>1 DEF OnPersistEntries, last
<1> HIDE DEF own
<1>6. NodeOK(i, a, b) BY <1>1, <1>2, <1>3, OneProgressOK
<1>7. n.state = "leader" => Matches(p, a, M) /\ a.state = "leader"
  <2> SUFFICES ASSUME n.state = "leader" PROVE Matches(p, a, M) /\ a.state = "leader"
    OBVIOUS
  <2>1. p \in Node /\ p.persisted = last /\ p.state = "leader" /\ p.id = i
    BY <1>1 DEF Node
  <2> HIDE DEF p
  <2>2. /\ a.id = p.id /\ a.term = p.term /\ a.vote = p.vote /\ a.state = p.state
        /\ a.log = p.log /\ a.persisted = p.persisted /\ a.messages = p.messages
        /\ a.committed = p.committed
        /\ \A s \in Server : a.prs[s] = IF s = n.id THEN own ELSE p.prs[s]
    BY <1>1, <2>1 DEF Node
  <2> HIDE DEF a
  <2>3. \A s \in Server : a.prs[s].matched = p.prs[s].matched
                          \/ (s = p.id /\ a.prs[s].matched = p.persisted)
    BY <1>1, <1>3, <2>1, <2>2
  <2>4. Matches(p, a, M) BY <2>1, <2>2, <2>3 DEF Matches, Rest
  <2> QED BY <2>1, <2>2, <2>4
<1>8. p = [n EXCEPT !.persisted = Len(n.log)] BY <1>1
<1> HIDE DEF a, p
<1>9. \A x : Sends(x, x) BY DEF Sends, Rest, SameMatched
<1>10. CASE o = p BY <1>2, <1>8, <1>9, <1>10 DEF Persists
<1>11. CASE n.state = "leader" /\ o = a
  BY <1>2, <1>6, <1>7, <1>8, <1>9, <1>11 DEF Persists
<1>12. CASE n.state = "leader" /\ MayCommit(a) /\ o = BroadcastAppend(c)
  <2>1. Matches(p, a, M) /\ a.state = "leader" BY <1>7, <1>12
  <2>2. Learns(a, c, M) /\ c.state = "leader" /\ NodeOK(i, c, b)
    BY <1>6, <1>12, <2>1, MaybeCommitMoves, MaybeCommitOK
  <2> HIDE DEF c
  <2>3. NodeOK(i, o, b) /\ Sends(c, o)
    BY <1>12, <2>2, BroadcastAppendOK, BroadcastAppendSends
  <2> HIDE DEF o
  <2> QED BY <1>2, <1>6, <1>8, <2>1, <2>2, <2>3 DEF Persists, o
<1> QED BY <1>5, <1>10, <1>11, <1>12

\* Persisting is quiet.
LEMMA PersistsIsQuiet ==
  ASSUME NEW i, NEW b, NEW n \in Node, NEW n2, NEW M, Persists(i, b, n, n2, M)
  PROVE  LogQuiet(n, n2)
<1>1. PICK p, a, c : /\ p = [n EXCEPT !.persisted = Len(n.log)]
                     /\ a = p \/ Matches(p, a, M)
                     /\ c = a \/ Learns(a, c, M)
                     /\ Sends(c, n2)
  BY DEF Persists
<1>2. LogQuiet(n, p) BY <1>1 DEF LogQuiet, Node
<1>3. LogQuiet(p, a) BY <1>1 DEF LogQuiet, Matches, Rest
<1>4. LogQuiet(a, c) BY <1>1, QuietMoves DEF LogQuiet, Learns
<1>5. LogQuiet(c, n2) BY <1>1, QuietMoves
<1> QED BY <1>2, <1>3, <1>4, <1>5, LogQuietTransitive
=============================================================================
