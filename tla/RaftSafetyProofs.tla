-------------------------- MODULE RaftSafetyProofs --------------------------
(***************************************************************************)
(* Log matching and state machine safety of Raft, for any number of        *)
(* servers, any (joint) configuration, any batching and any pattern of     *)
(* crashes (torn appends included), losses, duplicates and reorderings.    *)
(*                                                                         *)
(* For log matching every term gets a log: the log its leader had last.    *)
(* The histories of former leaders are not part of the state; the          *)
(* inductive invariant says that there is a function H from terms to logs  *)
(* such that every log, durable or not, is built from prefixes of H, every *)
(* append in flight is a slice of it, and a leader's log is H of its term. *)
(* A step extends H where a leader is elected or appends, and leaves the   *)
(* rest.                                                                   *)
(*                                                                         *)
(* What any node ever commits is a prefix of one log, later leaders have   *)
(* it, and a quorum has it on disk.                                        *)
(*                                                                         *)
(* The argument follows the durable acknowledgements.  A triple <<t, s, k>>*)
(* of the set A says that the disk of s once held the first k entries of   *)
(* the leader of term t while s was in term t.  An entry of term t is      *)
(* chosen when a quorum acknowledged it in t, and choosable while a quorum *)
(* did or still may.  Whatever is choosable is kept: the logs of all later *)
(* leaders agree with it.  This is inductive because a new leader has the  *)
(* votes of a quorum, one voter of which holds the choosable entry and     *)
(* found the candidate's log at least as up to date as its own.            *)
(*                                                                         *)
(* With pre-vote a node may learn a commit index from a term it has not    *)
(* reached, which breaks the argument and, in a long schedule, agreement   *)
(* itself; Covered excludes that step.  Without pre-vote nothing is        *)
(* assumed.  A single server elects itself without messages and is treated *)
(* apart.                                                                  *)
(*                                                                         *)
(* The last section proves the pre-vote gate: no node becomes a candidate  *)
(* of its own accord without the pre-votes of a quorum.                    *)
(***************************************************************************)
EXTENDS RaftElectionProofs

-----------------------------------------------------------------------------
(***************************************************************************)
(* Moves keep the logs in order.                                           *)
(***************************************************************************)
\* A prefix of a log from leaders is from leaders.
LEMMA PrefixFromLeaders ==
  ASSUME NEW H \in [Nat -> Seq(Entry)], NEW L \in Seq(Entry), NEW S \in Seq(Entry),
         FromLeaders(L, H), Agree(S, L, Len(S))
  PROVE  FromLeaders(S, H)
<1>1. Len(S) \in Nat /\ Len(L) \in Nat /\ Len(S) <= Len(L) BY LenProperties DEF Agree
<1> SUFFICES ASSUME NEW k \in 1..Len(S) PROVE Agree(S, H[S[k].term], k) BY DEF FromLeaders
<1>2. k \in Nat /\ k <= Len(S) /\ k \in 1..Len(L) BY <1>1
<1>3. S[k] = L[k] BY DEF Agree
<1>4. Agree(L, H[L[k].term], k) BY <1>2 DEF FromLeaders
<1>5. Agree(S, L, k) BY <1>1, <1>2, AgreeLess
<1> QED BY <1>3, <1>4, <1>5, AgreeRules

\* The servers as quorum sets.
LEMMA VotersFinite ==
  IsFiniteSet(Incoming) /\ IsFiniteSet(Outgoing) /\ Incoming \cup Outgoing # {}
<1>1. Incoming \subseteq Server /\ Outgoing \subseteq Server BY RaftAssumption
<1> QED BY <1>1, RaftAssumption, FS_Subset

\* Whoever was elected in v got a ballot from every member of a quorum, and
\* the disk of each knows of v.
LEMMA ElectedOnDisk ==
  ASSUME TypeInv, VotesAgree, NEW v \in Nat, Led(v, elected)
  PROVE  \E c \in Server : \E Q \in SUBSET Server :
           /\ <<v, c>> \in elected /\ IsQuorum(Incoming, Outgoing, Q)
           /\ \A s \in Q : disk[s].term >= v /\ s \in Backers(c, v, msgs)
<1>1. PICK c \in Server : <<v, c>> \in elected BY DEF Led
<1> DEFINE Q == Backers(c, v, msgs)
<1>2. IsQuorum(Incoming, Outgoing, Q)
  <2>1. <<v, c>>[1] = v /\ <<v, c>>[2] = c OBVIOUS
  <2> QED BY <1>1, <2>1 DEF VotesAgree, WonBy
<1>3. Q \in SUBSET Server BY DEF Backers
<1>4. ASSUME NEW s \in Q PROVE disk[s].term >= v
  <2>1. s \in Server /\ Bound(s, disk[s].term, disk[s].vote, msgs)
    BY <1>3 DEF VotesAgree
  <2>2. PICK m \in msgs : IsBallot(m) /\ m.from = s /\ m.term = v BY DEF Backers
  <2>3. disk[s].term \in Nat BY <2>1 DEF TypeInv, TypeOK, Disk
  <2> QED BY <2>1, <2>2, <2>3 DEF Bound
<1> QED BY <1>1, <1>2, <1>3, <1>4

\* A term beyond a node's own has no ballots of it and none for it.
LEMMA NoBallotsYet ==
  ASSUME Many, TypeInv, VotesAgree, NEW i \in Server, NEW u \in Nat, u > node[i].term
  PROVE  /\ Backers(i, u, msgs) = {}
         /\ \A c : i \notin Backers(c, u, msgs)
         /\ \A s \in Server : ~ HasGrant(s, i, u, msgs)
<1>1. Bound(i, node[i].term, node[i].vote, msgs) /\ node[i].term \in Nat
  <2>1. NodeVotes(i, node[i], msgs) BY DEF VotesAgree
  <2>2. node[i].term \in Nat BY DEF TypeInv, TypeOK, Node
  <2> QED BY <2>1, <2>2 DEF NodeVotes, Bound
<1>2. \A m \in msgs : IsBallot(m) /\ m.from = i => m.term # u BY <1>1 DEF Bound
<1>3. ~ HasRequest(i, u, msgs) BY <1>2 DEF HasRequest, IsBallot
<1>4. \A s \in Server : ~ HasGrant(s, i, u, msgs)
  BY <1>3 DEF HasGrant, VotesAgree, GrantsAsked
<1>5. ASSUME NEW s \in Backers(i, u, msgs) PROVE FALSE
  <2>1. PICK m \in msgs : IsBallot(m) /\ m.from = s /\ Choice(m) = i /\ m.term = u
    BY DEF Backers
  <2>2. CASE m.type = "request_vote" BY <1>2, <2>1, <2>2 DEF Choice
  <2>3. CASE m.type # "request_vote"
    BY <1>4, <2>1, <2>3 DEF Choice, IsBallot, HasGrant, Backers
  <2> QED BY <2>2, <2>3
<1>6. \A c : i \notin Backers(c, u, msgs) BY <1>2 DEF Backers
<1> QED BY <1>4, <1>5, <1>6

\* A node that starts a campaign has not led its term, and cannot win it if
\* there was already a leader of a later one.
LEMMA FreshTerm ==
  ASSUME Many, TypeInv, VotesAgree, NEW i \in Server, NEW u \in Nat, u > node[i].term
  PROVE  /\ <<u, i>> \notin elected
         /\ \A v \in Nat : v > u /\ Led(v, elected) => Hopeless(i, u, disk, msgs)
<1>1. node[i].term \in Nat BY DEF TypeInv, TypeOK, Node
<1>2. <<u, i>> \notin elected
  <2> SUFFICES ASSUME <<u, i>> \in elected PROVE FALSE OBVIOUS
  <2>1. <<u, i>>[1] = u /\ <<u, i>>[2] = i OBVIOUS
  <2>2. IsQuorum(Incoming, Outgoing, Backers(i, u, msgs))
    BY <2>1 DEF VotesAgree, WonBy
  <2>3. Backers(i, u, msgs) = {} BY NoBallotsYet
  <2> QED BY <2>2, <2>3, VotersFinite, QuorumsMeet
<1>3. ASSUME NEW v \in Nat, v > u, Led(v, elected) PROVE Hopeless(i, u, disk, msgs)
  <2>1. PICK c \in Server, Q \in SUBSET Server :
          /\ IsQuorum(Incoming, Outgoing, Q)
          /\ \A s \in Q : disk[s].term >= v /\ s \in Backers(c, v, msgs)
    BY <1>3, ElectedOnDisk
  <2>2. v > node[i].term BY <1>1, <1>3
  <2>3. i \notin Backers(c, v, msgs) BY <2>2, NoBallotsYet
  <2>4. ASSUME NEW s \in Q PROVE s # i /\ disk[s].term > u /\ ~ HasGrant(s, i, u, msgs)
    <3>1. disk[s].term \in Nat BY DEF TypeInv, TypeOK, Disk
    <3> QED BY <1>3, <2>1, <2>3, <3>1, NoBallotsYet
  <2> QED BY <2>1, <2>4 DEF Hopeless
<1> QED BY <1>2, <1>3

\* A candidate with the votes of a quorum is the only one to lead its term.
LEMMA WinnerLeadsAlone ==
  ASSUME Many, TypeInv, VotesAgree, NEW i \in Server, NEW t \in Nat, NEW Y \in SUBSET Server,
         IsQuorum(Incoming, Outgoing, Y), \A s \in Y : s = i \/ HasGrant(s, i, t, msgs),
         NEW c \in Server, <<t, c>> \in elected
  PROVE  c = i
<1>1. IsQuorum(Incoming, Outgoing, Backers(c, t, msgs))
  <2>1. <<t, c>>[1] = t /\ <<t, c>>[2] = c OBVIOUS
  <2> QED BY <2>1 DEF VotesAgree, WonBy
<1>2. PICK s \in Y : s \in Backers(c, t, msgs)
  BY <1>1, VotersFinite, QuorumsMeet
<1>3. \A r \in Server : OneChoice(r, msgs)
  <2>1. \A r \in Server : NodeVotes(r, node[r], msgs) BY DEF VotesAgree
  <2> QED BY <2>1 DEF NodeVotes, OneChoice
<1>4. PICK m \in msgs : IsBallot(m) /\ m.from = s /\ Choice(m) = c /\ m.term = t
  BY <1>2 DEF Backers
<1>5. CASE s # i
  <2>1. PICK g \in msgs : IsGrant(g) /\ g.from = s /\ g.to = i /\ g.term = t
    BY <1>5 DEF HasGrant
  <2>2. IsBallot(g) /\ Choice(g) = i BY <2>1 DEF IsBallot, IsGrant, Choice
  <2> QED BY <1>3, <1>4, <2>1, <2>2 DEF OneChoice
<1>6. CASE s = i
  <2>1. PICK r \in Y : r # i
    <3> SUFFICES ASSUME Y \subseteq {i} PROVE FALSE OBVIOUS
    <3>1. IsQuorum(Incoming, Outgoing, {i}) BY VotersFinite, QuorumMonotone
    <3> QED BY <3>1, OneIsNoQuorum DEF Many
  <2>2. HasRequest(i, t, msgs) BY <2>1 DEF HasGrant, VotesAgree, GrantsAsked
  <2>3. PICK q \in msgs : q.type = "request_vote" /\ q.from = i /\ q.term = t
    BY <2>2 DEF HasRequest
  <2>4. IsBallot(q) /\ Choice(q) = i BY <2>3 DEF IsBallot, Choice
  <2> QED BY <1>3, <1>4, <1>6, <2>3, <2>4 DEF OneChoice
<1> QED BY <1>5, <1>6

(***************************************************************************)
(* Node i in the middle of a step: its term is at least the one it started *)
(* from and its log is in order with respect to the rest of the system.    *)
(***************************************************************************)
Orderly(i, n, H) ==
  /\ NodeOK(i, n, disk[i].commit)
  /\ n.term >= node[i].term
  /\ NodeLogs(i, n, H, disk, msgs, elected)

\* No move lowers the term.
LEMMA MoveRaisesTerm ==
  ASSUME NEW i, NEW b, NEW n \in Node, NEW n2, NEW M, Move(i, b, n, n2, M)
  PROVE  n2.term >= n.term
<1>1. n.term \in Nat BY DEF Node
<1>2. CASE n2.term = n.term \/ n2.term = n.term + 1 BY <1>1, <1>2
<1>3. CASE Downs(n, n2) BY <1>3 DEF Downs, StepDown
<1> QED
  BY <1>2, <1>3 DEF Move, Sends, Rest, Asks, PreAsks, Grants, Answers, Learns, Commits,
                    Repeats, Accepts, Matches

\* Asking for votes keeps logs in order.
LEMMA AsksKeepsLogs ==
  ASSUME Many, HardInv, VotesAgree, NEW i \in Server, NEW n, NEW n2, NEW H,
         Histories(H, elected), Orderly(i, n, H), NodeOK(i, n2, disk[i].commit), Asks(n, n2)
  PROVE  NodeLogs(i, n2, H, disk, msgs, elected)
<1> DEFINE u == n2.term
<1>1. TypeInv BY DEF HardInv
<1>2. n.term \in Nat /\ u \in Nat /\ n.log \in Seq(Entry) /\ n2.log = n.log /\ u = n.term + 1
  BY DEF Orderly, NodeOK, Node, Asks
<1>3. node[i].term \in Nat /\ disk[i].term \in Nat BY <1>1 DEF TypeInv, TypeOK, Node, Disk
<1>4. disk[i].term <= node[i].term BY <1>3 DEF HardInv, Behind
<1>5. u > node[i].term /\ u > 0 /\ u >= disk[i].term BY <1>2, <1>3, <1>4 DEF Orderly
<1> HIDE DEF u
<1>6. <<u, i>> \notin elected BY <1>1, <1>2, <1>5, FreshTerm
<1>7. NodeLogs(i, n, H, disk, msgs, elected) BY DEF Orderly
<1>8. FromLeaders(n.log, H) BY <1>7 DEF NodeLogs
<1>9. ASSUME NEW k \in 1..Len(n.log), n.log[k].term > u PROVE Hopeless(i, u, disk, msgs)
  <2>1. Led(n.log[k].term, elected) BY <1>2, <1>8, TermsIncrease
  <2>2. n.log[k].term \in Nat
    <3>1. n.log[k] \in Entry BY <1>2, ElementOfSeq
    <3> QED BY <3>1 DEF Entry
  <2> QED BY <1>1, <1>2, <1>5, <1>9, <2>1, <2>2, FreshTerm
<1>10. ASSUME NEW m \in n2.messages
       PROVE  AppendOK(m, H, elected) /\ (IsBallot(m) => m.term >= disk[i].term)
  <2>1. CASE m \in n.messages BY <1>7, <2>1 DEF NodeLogs
  <2>2. CASE m.type = "request_vote" /\ m.term = u BY <1>5, <2>2 DEF AppendOK
  <2> QED BY <2>1, <2>2 DEF Asks, u
<1>11. n2.state = "candidate" BY DEF Asks
<1> QED BY <1>2, <1>5, <1>6, <1>8, <1>9, <1>10, <1>11 DEF NodeLogs, u

\* A move that keeps term, role and log, and sends neither appends nor
\* ballots older than the disk.
LEMMA SameLogKeepsLogs ==
  ASSUME NEW i, NEW n, NEW n2, NEW H, NEW D, NEW M, NEW E, NodeLogs(i, n, H, D, M, E),
         n2.log = n.log, n2.term = n.term,
         n2.state = n.state \/ n2.state \notin {"candidate", "leader"},
         \A m \in n2.messages : \/ m \in n.messages
                                \/ m.type # "append" /\ (IsBallot(m) => m.term >= D[i].term)
  PROVE  NodeLogs(i, n2, H, D, M, E)
<1>1. \A m \in n2.messages : AppendOK(m, H, E) /\ (IsBallot(m) => m.term >= D[i].term)
  BY DEF NodeLogs, AppendOK
<1> QED BY <1>1 DEF NodeLogs

\* Accepting entries keeps logs in order.
LEMMA AcceptsKeepsLogs ==
  ASSUME NEW i, NEW n \in Node, NEW n2 \in Node, NEW H, NEW D, NEW M, NEW E, Histories(H, E),
         NodeLogs(i, n, H, D, M, E), NEW m \in Message, AppendOK(m, H, E), Accepts(n, n2, m)
  PROVE  NodeLogs(i, n2, H, D, M, E)
<1> DEFINE L == H[n.term]
           a == LogAppend(n, m)
           last == m.index + Len(m.entries)
<1>1. /\ n.term \in Nat /\ H \in [Nat -> Seq(Entry)] /\ L \in Seq(Entry) /\ FromLeaders(L, H)
      /\ FromLeaders(n.log, H) /\ n.log \in Seq(Entry) /\ n2.log \in Seq(Entry)
      /\ \A k \in 1..Len(L) : L[k].term <= n.term
  BY DEF Node, Histories, NodeLogs
<1>2. IsSlice(m, L) /\ MatchTerm(n.log, m.index, m.log_term) /\ n2.log = a.log
      /\ n2.term = n.term /\ n2.state = n.state /\ n.state # "leader"
  BY DEF AppendOK, Accepts
<1> HIDE DEF L, a
<1>3. TakesSlice(n, a, m, L) BY <1>1, <1>2, LogAppendTakes DEF a
<1>4. n2.log = n.log \/ (Agree(n2.log, L, Len(n2.log)))
  BY <1>2, <1>3 DEF TakesSlice
<1>5. FromLeaders(n2.log, H) BY <1>1, <1>4, PrefixFromLeaders
<1>6. n2.log # n.log => \A k \in 1..Len(n2.log) : n2.log[k].term <= n.term
  <2> SUFFICES ASSUME n2.log # n.log, NEW k \in 1..Len(n2.log) PROVE n2.log[k].term <= n.term
    OBVIOUS
  <2>1. Len(n2.log) \in Nat /\ Len(L) \in Nat BY <1>1, LenProperties
  <2>2. n2.log[k] = L[k] /\ k \in 1..Len(L) BY <1>4, <2>1 DEF Agree
  <2> QED BY <1>1, <2>2
<1>7. ASSUME NEW k \in 1..Len(n2.log), n2.log[k].term > n.term PROVE n2.log = n.log
  <2> SUFFICES ASSUME n2.log # n.log PROVE FALSE OBVIOUS
  <2>1. n2.log[k] \in Entry BY <1>1, ElementOfSeq
  <2> DEFINE t == n2.log[k].term
  <2>2. t \in Nat BY <2>1 DEF Entry
  <2>3. t <= n.term /\ t > n.term BY <1>6, <1>7
  <2> HIDE DEF t
  <2> QED BY <1>1, <2>2, <2>3
<1>8. \A r \in n2.messages : AppendOK(r, H, E) /\ (IsBallot(r) => r.term >= D[i].term)
  <2>1. \A r \in n2.messages : r \in n.messages \/ r.type = "append_response"
    BY DEF Accepts, AckOf
  <2> QED BY <2>1 DEF NodeLogs, AppendOK, IsBallot, IsGrant
<1> QED BY <1>2, <1>5, <1>7, <1>8 DEF NodeLogs

\* Every move keeps a node orderly.
LEMMA MoveKeepsOrder ==
  ASSUME Many, HardInv, VotesAgree, NEW i \in Server, NEW n, NEW n2, NEW H,
         Histories(H, elected), \A m \in msgs : AppendOK(m, H, elected),
         Orderly(i, n, H), Move(i, disk[i].commit, n, n2, msgs)
  PROVE  Orderly(i, n2, H)
<1> DEFINE D == disk
           M == msgs
           E == elected
<1>1. TypeInv BY DEF HardInv
<1>2. NodeOK(i, n2, D[i].commit) BY DEF Move
<1>3. n \in Node /\ n2 \in Node /\ n.term \in Nat /\ n2.term \in Nat
  BY <1>2 DEF Orderly, NodeOK, Node
<1>4. n2.term >= node[i].term /\ n.term >= D[i].term
  <2>1. node[i].term \in Nat /\ D[i].term \in Nat BY <1>1 DEF TypeInv, TypeOK, Node, Disk
  <2>2. D[i].term <= node[i].term BY <2>1 DEF HardInv, Behind
  <2>3. n2.term >= n.term BY <1>3, MoveRaisesTerm
  <2> QED BY <1>3, <2>1, <2>2, <2>3 DEF Orderly
<1>5. NodeLogs(i, n, H, D, M, E) BY DEF Orderly
<1> SUFFICES NodeLogs(i, n2, H, D, M, E) BY <1>2, <1>4 DEF Orderly
<1>6. CASE Sends(n, n2) \/ Learns(n, n2, M)
  <2>1. LogQuiet(n, n2) BY <1>6, QuietMoves DEF Learns
  <2> QED BY <1>5, <2>1, QuietKeepsLogs
<1>7. CASE Downs(n, n2) BY <1>5, <1>7, DownKeepsLogs
<1>8. CASE Asks(n, n2) BY <1>2, <1>8, AsksKeepsLogs
<1> HIDE DEF D, M, E
<1>9. CASE PreAsks(n, n2)
  <2>1. \A m \in n2.messages : m \in n.messages \/ (m.type # "append" /\ ~ IsBallot(m))
    BY <1>9 DEF PreAsks, IsBallot, IsGrant
  <2> QED BY <1>5, <1>9, <2>1, SameLogKeepsLogs DEF PreAsks
<1>10. ASSUME NEW r \in M, Grants(n, n2, r) PROVE NodeLogs(i, n2, H, D, M, E)
  <2>1. \A m \in n2.messages : m \in n.messages
                               \/ (m.type # "append" /\ (IsBallot(m) => m.term >= D[i].term))
    BY <1>4, <1>10 DEF Grants, IsGrant
  <2> QED BY <1>5, <1>10, <2>1, SameLogKeepsLogs DEF Grants
<1>11. CASE Answers(n, n2) \/ Repeats(n, n2, M) \/ Matches(n, n2, M)
  <2>1. \A m \in n2.messages : m \in n.messages \/ (m.type # "append" /\ ~ IsBallot(m))
    BY <1>11 DEF Answers, Repeats, Matches, AckOf, IsBallot, IsGrant
  <2>2. n2.log = n.log /\ n2.term = n.term /\ n2.state = n.state
    BY <1>11 DEF Answers, Repeats, Matches, Rest
  <2> QED BY <1>5, <2>1, <2>2, SameLogKeepsLogs
<1>12. ASSUME NEW m \in M, Accepts(n, n2, m) PROVE NodeLogs(i, n2, H, D, M, E)
  <2>1. m \in Message BY <1>1 DEF TypeInv, TypeOK, M
  <2>2. AppendOK(m, H, E) /\ Histories(H, E) BY DEF M, E
  <2> QED BY <1>3, <1>5, <1>12, <2>1, <2>2, AcceptsKeepsLogs
<1>13. \/ Sends(n, n2) \/ Downs(n, n2) \/ Asks(n, n2) \/ PreAsks(n, n2)
       \/ (\E r \in M : Grants(n, n2, r)) \/ Answers(n, n2) \/ Learns(n, n2, M)
       \/ Repeats(n, n2, M) \/ (\E m \in M : Accepts(n, n2, m)) \/ Matches(n, n2, M)
  BY DEF Move, M
<1> QED BY <1>6, <1>7, <1>8, <1>9, <1>10, <1>11, <1>12, <1>13

\* A move that makes or extends a leader's log ends a step in order.
LEMMA LeadMoveEnds ==
  ASSUME Many, HardInv, VotesAgree, NEW i \in Server, NEW n, NEW n2, NEW H,
         Histories(H, elected), Orderly(i, n, H), LeadMove(i, disk[i].commit, n, n2, msgs)
  PROVE  Ends(i, n2, H, disk, msgs, elected)
<1>1. TypeInv BY DEF HardInv
<1>2. n \in Node /\ n2 \in Node /\ n.term \in Nat BY DEF Orderly, LeadMove, NodeOK, Node
<1>3. NodeLogs(i, n, H, disk, msgs, elected) BY DEF Orderly
<1>4. CASE WinsOffice(i, n, n2, msgs)
  <2>1. n.state = "candidate" BY <1>4 DEF WinsOffice
  <2>2. PICK Y \in SUBSET Server : /\ IsQuorum(Incoming, Outgoing, Y)
                                   /\ \A s \in Y : s = i \/ HasGrant(s, i, n.term, msgs)
    BY <1>4 DEF WinsOffice
  <2>3. PICK l \in Node : TakesOffice(n, l) /\ Sends(l, n2) BY <1>4 DEF WinsOffice
  <2>4. ~ Led(n.term, elected)
    <3> SUFFICES ASSUME NEW c \in Server, <<n.term, c>> \in elected PROVE FALSE BY DEF Led
    <3>1. c = i BY <1>1, <1>2, <2>2, WinnerLeadsAlone
    <3> QED BY <1>3, <2>1, <3>1 DEF NodeLogs
  <2>5. Ends(i, l, H, disk, msgs, elected)
    BY <1>2, <1>3, <2>1, <2>2, <2>3, <2>4, ElectedEnds
  <2>6. LogQuiet(l, n2) BY <2>3, QuietMoves
  <2> QED BY <2>5, <2>6, QuietKeepsEnds
<1>5. CASE Proposes(n, n2)
  <2>1. PICK a \in Node : Adds(n, a) /\ Sends(a, n2) BY <1>5 DEF Proposes
  <2>2. n.state = "leader" BY <1>5 DEF Proposes
  <2>3. PICK v \in Value \cup {Noop} : a.log = Append(n.log, [term |-> n.term, val |-> v])
    BY <2>1 DEF Adds
  <2>4. a.term = n.term /\ a.state = n.state /\ a.messages = n.messages BY <2>1 DEF Adds
  <2>5. Ends(i, a, H, disk, msgs, elected) BY <1>2, <1>3, <2>2, <2>3, <2>4, AppendEnds
  <2>6. LogQuiet(a, n2) BY <2>1, QuietMoves
  <2> QED BY <2>5, <2>6, QuietKeepsEnds
<1> QED BY <1>4, <1>5 DEF LeadMove

\* A chain of moves ends a step in order.
LEMMA ChainEnds ==
  ASSUME Many, HardInv, VotesAgree, NEW i \in Server, NEW x, NEW H,
         Histories(H, elected), \A m \in msgs : AppendOK(m, H, elected),
         NodeLogs(i, node[i], H, disk, msgs, elected),
         Chain(i, disk[i].commit, node[i], x, msgs)
  PROVE  Ends(i, x, H, disk, msgs, elected)
<1>1. TypeInv BY DEF HardInv
<1>2. Orderly(i, node[i], H)
  <2>1. NodeOK(i, node[i], disk[i].commit) /\ node[i].term \in Nat
    BY <1>1 DEF TypeInv, TypeOK, Node
  <2> QED BY <2>1 DEF Orderly
<1>3. \A n, n2 : Orderly(i, n, H) /\ Move(i, disk[i].commit, n, n2, msgs) => Orderly(i, n2, H)
  BY MoveKeepsOrder
<1>4. PICK u, v, y, w :
        /\ Move(i, disk[i].commit, node[i], u, msgs) /\ Move(i, disk[i].commit, u, v, msgs)
        /\ Move(i, disk[i].commit, v, y, msgs) /\ Move(i, disk[i].commit, y, w, msgs)
        /\ \/ Move(i, disk[i].commit, w, x, msgs)
           \/ LeadMove(i, disk[i].commit, w, x, msgs)
  BY DEF Chain
<1>5. Orderly(i, w, H) BY <1>2, <1>3, <1>4
<1>6. CASE Move(i, disk[i].commit, w, x, msgs)
  <2>1. Orderly(i, x, H) BY <1>3, <1>5, <1>6
  <2>2. x \in Node /\ NodeLogs(i, x, H, disk, msgs, elected) BY <2>1 DEF Orderly, NodeOK
  <2> QED BY <2>2, NoWriteEnds
<1>7. CASE LeadMove(i, disk[i].commit, w, x, msgs) BY <1>5, <1>7, LeadMoveEnds
<1> QED BY <1>4, <1>6, <1>7

-----------------------------------------------------------------------------
(***************************************************************************)
(* The logs of nodes N, disks D and messages M are made of the histories H *)
(* of the elected leaders E.                                               *)
(***************************************************************************)
Logs(H, N, D, M, E) ==
  /\ Histories(H, E)
  /\ \A i \in Server : NodeLogs(i, N[i], H, D, M, E) /\ FromLeaders(D[i].log, H)
  /\ \A m \in M : AppendOK(m, H, E)

\* Another node writes an extension of its history.
LEMMA OthersKeepLogs ==
  ASSUME NEW i \in Server, NEW j \in Server, j # i, NEW x \in Node, NEW n \in Node,
         NEW H, NEW D, NEW M, NEW E, Histories(H, E), Ends(i, x, H, D, M, E),
         NodeLogs(j, n, H, D, M, E),
         \A e, f \in Records(E, i, x) : e[1] = f[1] => e[2] = f[2]
  PROVE  NodeLogs(j, n, Writes(H, x), D, M, Records(E, i, x))
<1> DEFINE G == Writes(H, x)
           F == Records(E, i, x)
<1>1. Extends(H, G) /\ G \in [Nat -> Seq(Entry)] /\ H \in [Nat -> Seq(Entry)]
  BY DEF Ends, Histories
<1>2. E \subseteq F /\ \A e \in F : e \in E \/ (x.state = "leader" /\ e = <<x.term, i>>)
  BY DEF Records
<1>3. n.term \in Nat /\ x.term \in Nat /\ n.log \in Seq(Entry) BY DEF Node
<1>4. x.state = "leader" => G = [H EXCEPT ![x.term] = x.log] /\ <<x.term, i>> \in F
  BY DEF Writes, Records
<1>5. x.state # "leader" => G = H BY DEF Writes
<1> HIDE DEF G, F
<1>6. FromLeaders(n.log, G) BY <1>1, <1>3, ExtendsFromLeaders DEF NodeLogs
<1>7. \A m \in n.messages : AppendOK(m, G, F)
  <2>1. \A m \in n.messages : m \in Message /\ AppendOK(m, H, E) BY DEF Node, NodeLogs
  <2> QED BY <1>1, <1>2, <2>1, ExtendsAppends
<1>8. n.state = "leader" => n.log = G[n.term] /\ <<n.term, j>> \in F
  <2> SUFFICES ASSUME n.state = "leader" PROVE n.log = G[n.term] /\ <<n.term, j>> \in F
    OBVIOUS
  <2>1. n.log = H[n.term] /\ <<n.term, j>> \in E BY DEF NodeLogs
  <2>2. ASSUME x.state = "leader" PROVE n.term # x.term
    <3> SUFFICES ASSUME n.term = x.term PROVE FALSE OBVIOUS
    <3>1. <<n.term, j>> \in F /\ <<n.term, i>> \in F BY <1>2, <1>4, <2>1, <2>2
    <3>2. <<n.term, j>>[1] = <<n.term, i>>[1] OBVIOUS
    <3>3. <<n.term, j>>[2] = <<n.term, i>>[2] BY <3>1, <3>2 DEF F
    <3> QED BY <3>3
  <2>3. G[n.term] = H[n.term] BY <1>1, <1>3, <1>4, <1>5, <2>2
  <2> QED BY <1>2, <2>1, <2>3
<1>9. n.state = "candidate" => <<n.term, j>> \notin F
  BY <1>2 DEF NodeLogs
<1> QED BY <1>6, <1>7, <1>8, <1>9 DEF NodeLogs, G, F

\* A step of one node that leaves the disks and the network alone.
LEMMA RunsKeepLogs ==
  ASSUME Many, HardInv, VoteInv, VoteInv', NEW i \in Server, Runs(i), NEW H,
         Logs(H, node, disk, msgs, elected)
  PROVE  /\ Extends(H, Writes(H, node'[i]))
         /\ elected' = Records(elected, i, node'[i])
         /\ Logs(Writes(H, node'[i]), node', disk', msgs', elected')
<1>1. TypeInv /\ VotesAgree /\ node \in [Server -> Node] BY DEF HardInv, VoteInv, TypeInv, TypeOK
<1>2. UNCHANGED <<disk, msgs>> BY DEF Runs
<1>3. /\ Histories(H, elected) /\ \A m \in msgs : AppendOK(m, H, elected)
      /\ NodeLogs(i, node[i], H, disk, msgs, elected)
  BY DEF Logs
<1>4. PICK x : \/ Chain(i, disk[i].commit, node[i], x, msgs) /\ Become(i, x)
               \/ /\ NodeOK(i, x, disk[i].commit) /\ Sends(node[i], x)
                  /\ node' = [node EXCEPT ![i] = x] /\ UNCHANGED <<elected, decided>>
  BY DEF Runs
<1>5. /\ Ends(i, x, H, disk, msgs, elected) /\ node' = [node EXCEPT ![i] = x]
      /\ elected' = Records(elected, i, x) /\ x \in Node
  <2>1. CASE Chain(i, disk[i].commit, node[i], x, msgs) /\ Become(i, x)
    <3>1. Ends(i, x, H, disk, msgs, elected) BY <1>1, <1>3, <2>1, ChainEnds
    <3>2. x \in Node BY <2>1 DEF Chain, Move, LeadMove, NodeOK
    <3> QED BY <2>1, <3>1, <3>2 DEF Become, Records
  <2>2. CASE /\ NodeOK(i, x, disk[i].commit) /\ Sends(node[i], x)
             /\ node' = [node EXCEPT ![i] = x] /\ UNCHANGED <<elected, decided>>
    <3>1. LogQuiet(node[i], x) BY <2>2, QuietMoves
    <3>2. NodeLogs(i, x, H, disk, msgs, elected) BY <1>3, <3>1, QuietKeepsLogs
    <3>3. x \in Node BY <2>2 DEF NodeOK
    <3>4. Ends(i, x, H, disk, msgs, elected) /\ Records(elected, i, x) = elected
      BY <1>3, <3>2, <3>3, NoWriteEnds
    <3> QED BY <2>2, <3>3, <3>4
  <2> QED BY <1>4, <2>1, <2>2
<1>6. node'[i] = x /\ \A j \in Server : j # i => node'[j] = node[j] BY <1>1, <1>5
<1> DEFINE G == Writes(H, x)
           F == Records(elected, i, x)
<1>7. ElectionSafety' BY ElectsOne, PTL
<1>8. \A e, f \in F : e[1] = f[1] => e[2] = f[2] BY <1>5, <1>7 DEF ElectionSafety
<1>9. Extends(H, G) /\ Histories(G, F) /\ NodeLogs(i, x, G, disk, msgs, F)
  BY <1>5 DEF Ends
<1>10. ASSUME NEW j \in Server, j # i PROVE NodeLogs(j, node[j], G, disk, msgs, F)
  <2>1. node[j] \in Node /\ NodeLogs(j, node[j], H, disk, msgs, elected) BY <1>1 DEF Logs
  <2> QED BY <1>3, <1>5, <1>8, <1>10, <2>1, OthersKeepLogs
<1>11. H \in [Nat -> Seq(Entry)] /\ G \in [Nat -> Seq(Entry)] BY <1>3, <1>9 DEF Histories
<1>12. ASSUME NEW j \in Server PROVE FromLeaders(disk[j].log, G)
  <2>1. disk[j].log \in Seq(Entry) BY <1>1 DEF TypeInv, TypeOK, Disk
  <2>2. FromLeaders(disk[j].log, H) BY DEF Logs
  <2> QED BY <1>9, <1>11, <2>1, <2>2, ExtendsFromLeaders
<1>13. elected \subseteq F BY DEF Records
<1> HIDE DEF G, F
<1>14. ASSUME NEW m \in msgs PROVE AppendOK(m, G, F)
  <2>1. m \in Message BY <1>1 DEF TypeInv, TypeOK
  <2>2. AppendOK(m, H, elected) BY <1>3
  <2> QED BY <1>9, <1>11, <1>13, <2>1, <2>2, ExtendsAppends
<1>15. \A j \in Server : NodeLogs(j, node'[j], G, disk, msgs, F) BY <1>6, <1>9, <1>10
<1>16. elected' = F BY <1>5 DEF F
<1>17. Logs(G, node', disk', msgs', elected')
  BY <1>2, <1>9, <1>12, <1>14, <1>15, <1>16 DEF Logs
<1> QED BY <1>5, <1>6, <1>9, <1>17 DEF G

\* No new ballot gives hope to a candidate whose term the voters' disks have
\* left behind.
LEMMA HopelessStays ==
  ASSUME TypeInv, NEW i \in Server, NEW d, NEW M2,
         d.term \in Nat, d.term >= disk[i].term, msgs \subseteq M2,
         \A m \in M2 : IsBallot(m) => m \in msgs \/ (m.from = i /\ m.term >= disk[i].term),
         NEW c \in Server, NEW t \in Nat, Hopeless(c, t, disk, msgs)
  PROVE  Hopeless(c, t, [disk EXCEPT ![i] = d], M2)
<1>1. PICK Q \in SUBSET Server :
        /\ IsQuorum(Incoming, Outgoing, Q)
        /\ \A s \in Q : s # c /\ disk[s].term > t /\ ~ HasGrant(s, c, t, msgs)
  BY DEF Hopeless
<1> DEFINE D2 == [disk EXCEPT ![i] = d]
<1>2. disk \in [Server -> Disk] /\ \A s \in Server : disk[s].term \in Nat
  BY DEF TypeInv, TypeOK, Disk
<1>3. ASSUME NEW s \in Q PROVE s # c /\ D2[s].term > t /\ ~ HasGrant(s, c, t, M2)
  <2>1. D2[s].term > t BY <1>1, <1>2
  <2>2. ASSUME HasGrant(s, c, t, M2) PROVE FALSE
    <3>1. PICK g \in M2 : IsGrant(g) /\ g.from = s /\ g.to = c /\ g.term = t
      BY <2>2 DEF HasGrant
    <3>2. g \notin msgs BY <1>1, <3>1 DEF HasGrant
    <3>3. s = i /\ t >= disk[s].term BY <3>1, <3>2 DEF IsBallot
    <3> QED BY <1>1, <1>2, <3>3
  <2> QED BY <1>1, <2>1, <2>2
<1> QED BY <1>1, <1>3 DEF Hopeless

\* A step of node i that writes its disk and sends its messages.
LEMMA DiskStepKeepsLogs ==
  ASSUME HardInv, VotesAgree, NEW i \in Server, NEW H, Logs(H, node, disk, msgs, elected),
         NEW d, NEW x, NEW new,
         node' = [node EXCEPT ![i] = x], disk' = [disk EXCEPT ![i] = d],
         msgs' = msgs \/ msgs' = msgs \cup new, elected' = elected,
         d.term \in Nat, d.term >= disk[i].term, FromLeaders(d.log, H),
         \A m \in new : AppendOK(m, H, elected) /\ (IsBallot(m) => m \in node[i].messages),
         x.messages = {}, FromLeaders(x.log, H),
         x.state \in {"candidate", "leader"} => /\ x.state = node[i].state
                                                /\ x.term = node[i].term
                                                /\ x.log = node[i].log
  PROVE  Logs(H, node', disk', msgs', elected')
<1> DEFINE M2 == msgs'
<1>1. TypeInv /\ node \in [Server -> Node] /\ disk \in [Server -> Disk]
  BY DEF HardInv, TypeInv, TypeOK
<1>2. node'[i] = x /\ \A j \in Server : j # i => node'[j] = node[j] BY <1>1
<1>3. disk'[i] = d /\ \A j \in Server : j # i => disk'[j] = disk[j] BY <1>1
<1>4. NodeLogs(i, node[i], H, disk, msgs, elected) BY DEF Logs
<1>5. \A m \in node[i].messages : IsBallot(m) => m.from = i BY DEF VotesAgree, NodeVotes
<1>6. \A m \in M2 : IsBallot(m) => m \in msgs \/ (m.from = i /\ m.term >= disk[i].term)
  BY <1>4, <1>5 DEF NodeLogs
<1>7. msgs \subseteq M2 OBVIOUS
<1>8. ASSUME NEW c \in Server, NEW t \in Nat, Hopeless(c, t, disk, msgs)
      PROVE  Hopeless(c, t, disk', M2)
  BY <1>1, <1>6, <1>7, <1>8, HopelessStays
<1>9. \A m \in M2 : AppendOK(m, H, elected) BY DEF Logs
<1> HIDE DEF M2
<1>10. NodeLogs(i, x, H, disk', M2, elected)
  <2>1. node[i].term \in Nat BY <1>1 DEF Node
  <2> QED BY <1>4, <1>8, <2>1 DEF NodeLogs
<1>11. ASSUME NEW j \in Server, j # i PROVE NodeLogs(j, node[j], H, disk', M2, elected)
  <2>1. node[j].term \in Nat BY <1>1 DEF Node
  <2>2. NodeLogs(j, node[j], H, disk, msgs, elected) BY DEF Logs
  <2> QED BY <1>3, <1>8, <1>11, <2>1, <2>2 DEF NodeLogs
<1>12. \A j \in Server : NodeLogs(j, node'[j], H, disk', M2, elected)
  BY <1>2, <1>10, <1>11
<1>13. \A j \in Server : FromLeaders(disk'[j].log, H) BY <1>3 DEF Logs
<1> QED BY <1>9, <1>12, <1>13 DEF Logs, M2

\* A Ready: the log goes to disk as it is, and the messages leave.
LEMMA ReadyKeepsLogs ==
  ASSUME HardInv, VotesAgree, NEW i \in Server, Ready(i), NEW H,
         Logs(H, node, disk, msgs, elected)
  PROVE  Logs(H, node', disk', msgs', elected')
<1> DEFINE n == node[i]
           b == disk[i].commit
           q == [n EXCEPT !.messages = {}]
           p == OnPersistEntries(q)
           x == [p EXCEPT !.messages = {}]
           new == n.messages \cup p.messages
<1>1. TypeInv BY DEF HardInv
<1>2. /\ NodeOK(i, n, b) /\ b \in Nat /\ n \in Node /\ n.term \in Nat
      /\ disk[i] \in Disk /\ disk[i].term \in Nat
  BY <1>1 DEF TypeInv, TypeOK, NodeOK, Node, Disk
<1>3. /\ NodeOK(i, q, b) /\ q.term = n.term /\ q.state = n.state /\ q.log = n.log
      /\ q.messages = {} /\ q \in Node
  BY <1>2 DEF NodeOK, Node
<1>4. NodeLogs(i, n, H, disk, msgs, elected) BY DEF Logs
<1>5. NodeLogs(i, q, H, disk, msgs, elected) BY <1>3, <1>4 DEF NodeLogs
<1>6. PICK c : disk' = [disk EXCEPT ![i] = HardState(n, disk[i], c)] BY DEF Ready
<1>7. Transmit(new) /\ Become(i, x) BY DEF Ready
<1> DEFINE d == HardState(n, disk[i], c)
<1>8. d.term = n.term /\ d.log = n.log BY <1>2 DEF HardState, Disk
<1> HIDE DEF q, d
<1>9. LogQuiet(q, p) /\ p \in Node
  <2>1. Persists(i, b, q, p, {}) BY <1>2, <1>3, OnPersistEntriesPersists
  <2>2. p \in Node BY <2>1 DEF Persists, NodeOK
  <2> QED BY <1>3, <2>1, <2>2, PersistsIsQuiet
<1> HIDE DEF p
<1>10. NodeLogs(i, p, H, disk, msgs, elected) BY <1>5, <1>9, QuietKeepsLogs
<1>11. /\ x.messages = {} /\ x.state = n.state /\ x.term = n.term /\ x.log = n.log
  BY <1>3, <1>9 DEF LogQuiet, Node
<1>12. \A m \in new : AppendOK(m, H, elected) /\ (IsBallot(m) => m \in n.messages)
  <2>1. \A m \in p.messages : ~ IsBallot(m)
    BY <1>3, <1>9 DEF LogQuiet, IsBallot, IsGrant
  <2> QED BY <1>4, <1>10, <2>1 DEF NodeLogs
<1>13. d.term >= disk[i].term /\ d.term \in Nat
  <2>1. disk[i].term <= n.term BY <1>2 DEF HardInv, Behind
  <2> QED BY <1>2, <1>8, <2>1
<1>14. FromLeaders(n.log, H) BY <1>4 DEF NodeLogs
<1>15. elected' = elected /\ node' = [node EXCEPT ![i] = x]
  BY <1>4, <1>7, <1>11 DEF Become, NodeLogs
<1>16. msgs' = msgs \/ msgs' = msgs \cup new BY <1>7 DEF Transmit
<1> HIDE DEF x, new
<1>17. disk' = [disk EXCEPT ![i] = d] BY <1>6 DEF d
<1> QED BY <1>8, <1>11, <1>12, <1>13, <1>14, <1>15, <1>16, <1>17, DiskStepKeepsLogs

\* A crash: the node comes back with a prefix of its log, or with its old one.
LEMMA CrashKeepsLogs ==
  ASSUME HardInv, VotesAgree, NEW i \in Server, NEW H, Logs(H, node, disk, msgs, elected),
         \/ Crash(i)
         \/ \E k \in 0..LastIndex(node[i].log) : CrashInAppend(i, k)
         \/ CrashBeforeAdvance(i)
  PROVE  Logs(H, node', disk', msgs', elected')
<1> DEFINE n == node[i]
<1>1. TypeInv BY DEF HardInv
<1>2. /\ n \in Node /\ n.term \in Nat /\ n.log \in Seq(Entry)
      /\ disk[i] \in Disk /\ disk[i].term \in Nat
  BY <1>1 DEF TypeInv, TypeOK, Node, Disk
<1>3. FromLeaders(n.log, H) /\ FromLeaders(disk[i].log, H) /\ H \in [Nat -> Seq(Entry)]
      /\ \A m \in n.messages : AppendOK(m, H, elected)
  BY DEF Logs, NodeLogs, Histories
<1>4. disk[i].term <= n.term BY <1>2 DEF HardInv, Behind
<1>5. ASSUME NEW d, RestartFrom(i, d), d.term \in {disk[i].term, n.term}, FromLeaders(d.log, H),
             msgs' = msgs \/ msgs' = msgs \cup n.messages
      PROVE  Logs(H, node', disk', msgs', elected')
  <2> DEFINE x == Restart(i, d)
  <2>1. x.messages = {} /\ x.log = d.log /\ x.state = "follower" BY DEF Restart
  <2>2. node' = [node EXCEPT ![i] = x] /\ disk' = [disk EXCEPT ![i] = d] /\ elected' = elected
    BY <1>5 DEF RestartFrom
  <2>3. d.term \in Nat /\ d.term >= disk[i].term BY <1>2, <1>4, <1>5
  <2> HIDE DEF x
  <2> QED BY <1>3, <1>5, <2>1, <2>2, <2>3, DiskStepKeepsLogs
<1>6. CASE Crash(i) BY <1>3, <1>5, <1>6 DEF Crash
<1>7. ASSUME NEW k \in 0..LastIndex(n.log), CrashInAppend(i, k)
      PROVE  Logs(H, node', disk', msgs', elected')
  <2> DEFINE S == SubSeq(n.log, 1, k)
             d == [disk[i] EXCEPT !.log = S]
  <2>1. RestartFrom(i, d) /\ msgs' = msgs BY <1>7 DEF CrashInAppend
  <2>2. d.log = S /\ d.term = disk[i].term BY <1>2 DEF Disk
  <2>3. Len(n.log) \in Nat BY <1>2, LenProperties
  <2>4. k \in Nat /\ k <= Len(n.log) BY <2>3 DEF LastIndex
  <2>5. S \in Seq(Entry) /\ Len(S) = k BY <1>2, <2>4, PrefixOK
  <2>6. Agree(S, n.log, k)
    <3>1. \A j \in 1..k : S[j] = n.log[j] BY <1>2, <2>3, <2>4
    <3> QED BY <2>4, <2>5, <3>1 DEF Agree
  <2> HIDE DEF S, d
  <2>7. FromLeaders(S, H) BY <1>2, <1>3, <2>5, <2>6, PrefixFromLeaders
  <2> QED BY <1>5, <2>1, <2>2, <2>7
<1>8. CASE CrashBeforeAdvance(i)
  <2> DEFINE d == HardState(n, disk[i], n.committed)
  <2>1. d.term = n.term /\ d.log = n.log BY <1>2 DEF HardState, Disk
  <2>2. RestartFrom(i, d) /\ (msgs' = msgs \/ msgs' = msgs \cup n.messages)
    BY <1>8 DEF CrashBeforeAdvance, Transmit
  <2> HIDE DEF d
  <2> QED BY <1>3, <1>5, <2>1, <2>2
<1> QED BY <1>6, <1>7, <1>8

(***************************************************************************)
(* The inductive invariant for logs.  The histories are found, not stored: *)
(* they exist in every reachable state.                                    *)
(***************************************************************************)
LogInv == HardInv /\ VoteInv /\ (Many => \E H : Logs(H, node, disk, msgs, elected))

\* Initially every log is empty.
LEMMA LogsInit == Init => \E H : Logs(H, node, disk, msgs, elected)
<1> SUFFICES ASSUME Init PROVE \E H : Logs(H, node, disk, msgs, elected) OBVIOUS
<1> DEFINE H == [t \in Nat |-> <<>>]
<1>1. /\ msgs = {} /\ elected = {} /\ \A i \in Server : disk[i].log = <<>>
      /\ \A i \in Server : /\ node[i].log = <<>> /\ node[i].messages = {}
                           /\ node[i].state = "follower"
  BY DEF Init, Restart
<1>2. FromLeaders(<<>>, H) /\ \A t \in Nat : H[t] = <<>> BY DEF FromLeaders
<1>3. H \in [Nat -> Seq(Entry)] OBVIOUS
<1>4. Histories(H, elected) BY <1>1, <1>2, <1>3 DEF Histories
<1> HIDE DEF H
<1>5. ASSUME NEW i \in Server PROVE NodeLogs(i, node[i], H, disk, msgs, elected)
  BY <1>1, <1>2 DEF NodeLogs
<1>6. \A i \in Server : FromLeaders(disk[i].log, H) BY <1>1, <1>2
<1> QED BY <1>1, <1>4, <1>5, <1>6 DEF Logs

\* Every step keeps the logs made of histories.
LEMMA LogStep ==
  ASSUME Many, HardInv, VoteInv, VoteInv', [Next]_vars, NEW H,
         Logs(H, node, disk, msgs, elected)
  PROVE  \E G : Logs(G, node', disk', msgs', elected')
<1>1. TypeInv /\ VotesAgree BY DEF HardInv, VoteInv
<1>2. ASSUME NEW i \in Server, Runs(i) PROVE \E G : Logs(G, node', disk', msgs', elected')
  BY <1>2, RunsKeepLogs
<1>3. ASSUME NEW m \in msgs, Receive(m) PROVE \E G : Logs(G, node', disk', msgs', elected')
  <2>1. m.to \in Server BY <1>1 DEF TypeInv, TypeOK, Message
  <2> QED BY <1>1, <1>2, <1>3, <2>1, ReceiveRuns
<1>4. ASSUME NEW i \in Server,
             \/ Campaign(i)
             \/ LeaseExpires(i)
             \/ LeaderTick(i)
             \/ Beat(i)
             \/ \E v \in Value : Propose(i, v)
             \/ \E s \in Server : TransferLeader(i, s)
             \/ \E s \in Server : Unreachable(i, s)
      PROVE  \E G : Logs(G, node', disk', msgs', elected')
  BY <1>1, <1>2, <1>4, LocalRuns
<1>5. ASSUME NEW i \in Server,
             \/ Crash(i)
             \/ \E k \in 0..LastIndex(node[i].log) : CrashInAppend(i, k)
             \/ CrashBeforeAdvance(i)
      PROVE  \E G : Logs(G, node', disk', msgs', elected')
  BY <1>1, <1>5, CrashKeepsLogs
<1>6. ASSUME NEW i \in Server, Ready(i) PROVE \E G : Logs(G, node', disk', msgs', elected')
  BY <1>1, <1>6, ReadyKeepsLogs
<1>7. CASE UNCHANGED vars BY <1>7 DEF vars
<1> QED BY <1>3, <1>4, <1>5, <1>6, <1>7 DEF Next

\* In every reachable state the logs are made of the histories of leaders.
THEOREM LogInvInductive == Spec => []LogInv
<1>1. Init /\ HardInv /\ VoteInv => LogInv BY LogsInit DEF LogInv
<1>2. LogInv /\ HardInv' /\ VoteInv' /\ [Next]_vars => LogInv'
  <2> SUFFICES ASSUME LogInv, HardInv', VoteInv', [Next]_vars, Many
               PROVE  \E G : Logs(G, node', disk', msgs', elected')
    BY DEF LogInv, Many
  <2>1. PICK H : Logs(H, node, disk, msgs, elected) BY DEF LogInv
  <2> QED BY <2>1, LogStep DEF LogInv
<1> QED BY <1>1, <1>2, HardInvInductive, VoteInvInductive, PTL DEF Spec

(***************************************************************************)
(* Log matching: two nodes whose logs have an entry of the same index and  *)
(* term agree on everything up to it (raft.zig's appendEntry and the term  *)
(* match of RaftLog.maybeAppend), through any crashes, lost, duplicated or *)
(* reordered messages and torn appends.                                    *)
(***************************************************************************)
THEOREM LogMatchingHolds == Spec => []LogMatching
<1>1. LogInv => LogMatching
  <2> SUFFICES ASSUME LogInv, NEW i \in Server, NEW j \in Server,
                      NEW k \in 1..MinOf(Len(node[i].log), Len(node[j].log)),
                      node[i].log[k].term = node[j].log[k].term
               PROVE  \A h \in 1..k : node[i].log[h] = node[j].log[h]
    BY DEF LogMatching
  <2>1. CASE Many
    <3>1. PICK H : Logs(H, node, disk, msgs, elected) BY <2>1 DEF LogInv
    <3>2. FromLeaders(node[i].log, H) /\ FromLeaders(node[j].log, H)
      BY <3>1 DEF Logs, NodeLogs
    <3>3. node[i].log \in Seq(Entry) /\ node[j].log \in Seq(Entry)
      BY DEF LogInv, HardInv, TypeInv, TypeOK, Node
    <3>4. Len(node[i].log) \in Nat /\ Len(node[j].log) \in Nat BY <3>3, LenProperties
    <3>5. k \in 1..Len(node[i].log) /\ k \in 1..Len(node[j].log)
      BY <3>4 DEF MinOf
    <3>6. Agree(node[i].log, node[j].log, k) BY <3>2, <3>5, TermsMatch
    <3> QED BY <3>6 DEF Agree
  <2>2. CASE ~ Many
    <3>1. i = j BY <2>2 DEF Many
    <3> QED BY <3>1
  <2> QED BY <2>1, <2>2
<1> QED BY <1>1, LogInvInductive, PTL

-----------------------------------------------------------------------------
(***************************************************************************)
(* A single server is silent: it has no peers to send to, and while it     *)
(* follows it knows no leader to forward to.                               *)
(***************************************************************************)
Silent(n) == n.messages = {} /\ (n.state = "follower" => n.leader_id = None)

AloneInv == TypeInv /\ (~ Many => msgs = {} /\ \A i \in Server : Silent(node[i]))

\* What a single server does to peers it has not got.
LEMMA NoPeers ==
  ASSUME ~ Many, NEW i \in Server, NEW n \in Node, n.id = i
  PROVE  /\ Server = {i} /\ Peers(n) = {}
         /\ BroadcastAppend(n).messages = n.messages
         /\ BroadcastAppend(n).state = n.state /\ BroadcastAppend(n).leader_id = n.leader_id
         /\ BroadcastHeartbeat(n).messages = n.messages
         /\ BroadcastHeartbeat(n).state = n.state
         /\ BroadcastHeartbeat(n).leader_id = n.leader_id
         /\ \A type, t, force : RequestVotes(n, type, t, force) = n
<1>1. Server = {i} BY DEF Many
<1>2. Peers(n) = {} BY <1>1 DEF Peers
<1>3. UNION {AppendsTo(n, s) : s \in Peers(n)} = {} BY <1>2
<1>4. /\ BroadcastAppend(n).messages = n.messages
      /\ BroadcastAppend(n).state = n.state /\ BroadcastAppend(n).leader_id = n.leader_id
  <2> DEFINE A == UNION {AppendsTo(n, s) : s \in Peers(n)}
  <2>1. BroadcastAppend(n) =
          [n EXCEPT !.prs = [s \in Server |-> IF s = n.id THEN n.prs[s]
                               ELSE AfterSend(n, n.prs[s], SendCount(n, n.prs[s], 1))],
                    !.messages = n.messages \cup A]
    BY DEF BroadcastAppend
  <2>2. A = {} BY <1>3
  <2> HIDE DEF A
  <2> QED BY <2>1, <2>2 DEF Node
<1>5. /\ BroadcastHeartbeat(n).messages = n.messages
      /\ BroadcastHeartbeat(n).state = n.state
      /\ BroadcastHeartbeat(n).leader_id = n.leader_id
  BY <1>2 DEF BroadcastHeartbeat, Node
<1>6. ASSUME NEW type, NEW t, NEW force PROVE RequestVotes(n, type, t, force) = n
  <2> DEFINE R == {VoteRequest(n, type, t, s, force) : s \in Peers(n)}
  <2>1. R = {} BY <1>2
  <2>2. RequestVotes(n, type, t, force) = [n EXCEPT !.messages = n.messages \cup R]
    BY DEF RequestVotes
  <2> HIDE DEF R
  <2> QED BY <2>1, <2>2 DEF Node
<1> QED BY <1>1, <1>2, <1>4, <1>5, <1>6

\* A campaign of a single server is silent.
LEMMA HupSilent ==
  ASSUME ~ Many, NEW i \in Server, NEW b \in Nat, NEW n, NodeOK(i, n, b), Silent(n)
  PROVE  Silent(Hup(n, FALSE))
<1>1. ASSUME NEW x, NodeOK(i, x, b), x.messages = {} PROVE Silent(CampaignElection(x, FALSE))
  <2> DEFINE c == RecordVote(BecomeCandidate(x), x.id, TRUE)
             l == BecomeLeader(c)
  <2>1. x \in Node BY <1>1 DEF NodeOK
  <2>2. StartsCampaign(x, c) /\ NodeOK(i, c, b) BY <1>1, NewCandidate
  <2>3. CampaignElection(x, FALSE) \in
          {BroadcastAppend(l), RequestVotes(c, "request_vote", c.term, FALSE)}
    BY DEF CampaignElection
  <2> HIDE DEF c
  <2>4. TakesOffice(c, l) /\ NodeOK(i, l, b) BY <2>2, NewLeader
  <2> HIDE DEF l
  <2>5. /\ c.messages = {} /\ c.state = "candidate" /\ c \in Node /\ c.id = i
        /\ l.messages = {} /\ l.state = "leader" /\ l \in Node /\ l.id = i
    BY <1>1, <2>2, <2>4 DEF StartsCampaign, TakesOffice, NodeOK
  <2>6. RequestVotes(c, "request_vote", c.term, FALSE) = c
    <3>1. \A type, t, force : RequestVotes(c, type, t, force) = c BY <2>5, NoPeers
    <3> QED BY <3>1, Zenon
  <2>7. BroadcastAppend(l).messages = {} /\ BroadcastAppend(l).state = "leader"
    BY <2>5, NoPeers
  <2> QED BY <2>3, <2>5, <2>6, <2>7 DEF Silent
<1> DEFINE c == RecordVote(BecomePreCandidate(n), n.id, TRUE)
<1>2. StartsPreCampaign(n, c) /\ NodeOK(i, c, b) BY NewPreCandidate
<1>3. CampaignPreElection(n) \in
        {CampaignElection(c, FALSE), RequestVotes(c, "request_pre_vote", c.term + 1, FALSE)}
  BY DEF CampaignPreElection
<1> HIDE DEF c
<1>4. c.messages = {} /\ c.state = "pre_candidate" /\ c \in Node /\ c.id = i
  BY <1>2 DEF StartsPreCampaign, NodeOK, Silent
<1>5. RequestVotes(c, "request_pre_vote", c.term + 1, FALSE) = c BY <1>4, NoPeers
<1>6. Silent(c) BY <1>4 DEF Silent
<1>7. Silent(CampaignElection(c, FALSE)) BY <1>1, <1>2, <1>4
<1>8. Silent(CampaignPreElection(n)) BY <1>3, <1>5, <1>6, <1>7
<1>9. Silent(CampaignElection(n, FALSE)) BY <1>1 DEF Silent
<1> QED BY <1>8, <1>9 DEF Hup

\* Persisting, on a single server, sends nothing.
LEMMA PersistSilent ==
  ASSUME ~ Many, NEW i \in Server, NEW b \in Nat, NEW n, NodeOK(i, n, b), Silent(n)
  PROVE  OnPersistEntries(n) \in Node /\ Silent(OnPersistEntries(n))
<1> DEFINE last == LastIndex(n.log)
           p == [n EXCEPT !.persisted = last]
           own == [n.prs[n.id] EXCEPT !.matched = last, !.next_idx = MaxOf(@, last + 1)]
           a == [p EXCEPT !.prs[n.id] = own]
           c == MaybeCommit(a)
           o == OnPersistEntries(n)
<1>1. n \in Node /\ n.id = i BY DEF NodeOK
<1>2. o \in Node BY OnPersistEntriesOK DEF NodeOK
<1>3. \/ o = n
      \/ o = p
      \/ n.state = "leader" /\ o = a
      \/ n.state = "leader" /\ MayCommit(a) /\ o = BroadcastAppend(c)
  <2>1. a = [p EXCEPT !.prs[n.id].matched = last, !.prs[n.id].next_idx = MaxOf(@, last + 1)]
    BY <1>1 DEF Node, Progress
  <2> QED BY <2>1 DEF OnPersistEntries
<1>4. Silent(p) /\ p.messages = {} BY <1>1 DEF Silent, Node
<1>5. Silent(a) /\ a.messages = {} /\ a.state = n.state /\ a.id = i /\ DOMAIN a = DOMAIN n
  BY <1>1 DEF Silent, Node
<1> HIDE DEF a, p
<1>6. /\ c.messages = {} /\ c.state = n.state /\ c.id = i /\ DOMAIN c = DOMAIN n
  BY <1>5 DEF MaybeCommit, Node
<1>7. o = BroadcastAppend(c) => o.messages = {} /\ o.state = n.state
  <2> HIDE DEF c
  <2>1. Peers(c) = {} BY <1>1, <1>6 DEF Many, Peers
  <2> DEFINE A == UNION {AppendsTo(c, s) : s \in Peers(c)}
  <2>2. BroadcastAppend(c) =
          [c EXCEPT !.prs = [s \in Server |-> IF s = c.id THEN c.prs[s]
                               ELSE AfterSend(c, c.prs[s], SendCount(c, c.prs[s], 1))],
                    !.messages = c.messages \cup A]
    BY DEF BroadcastAppend
  <2>3. A = {} BY <2>1
  <2>4. "messages" \in DOMAIN c /\ "state" \in DOMAIN c BY <1>1, <1>6 DEF Node
  <2> HIDE DEF A
  <2> QED BY <1>6, <2>2, <2>3, <2>4
<1>8. n.state = "leader" /\ o = BroadcastAppend(c) => Silent(o)
  <2> HIDE DEF o
  <2> QED BY <1>7 DEF Silent
<1> QED BY <1>2, <1>3, <1>4, <1>5, <1>8

\* Every step of a single server is silent.
LEMMA AloneStep ==
  ASSUME AloneInv, TypeInv', ~ Many, [Next]_vars
  PROVE  msgs' = {} /\ \A i \in Server : Silent(node'[i])
<1>1. TypeInv /\ msgs = {} /\ node \in [Server -> Node]
  BY DEF AloneInv, TypeInv, TypeOK
<1>2. ASSUME NEW i \in Server, NEW x, Silent(x), node' = [node EXCEPT ![i] = x], msgs' = {}
      PROVE  msgs' = {} /\ \A j \in Server : Silent(node'[j])
  BY <1>1, <1>2 DEF AloneInv
<1>3. ASSUME NEW i \in Server, NEW x, Silent(x), Become(i, x), UNCHANGED <<disk, msgs>>
      PROVE  msgs' = {} /\ \A j \in Server : Silent(node'[j])
  BY <1>1, <1>2, <1>3 DEF Become
<1>4. CASE UNCHANGED vars BY <1>1, <1>4 DEF vars, AloneInv
<1>5. ASSUME NEW i \in Server
      PROVE  LET n == node[i] IN
             /\ n \in Node /\ n.id = i /\ NodeOK(i, n, disk[i].commit) /\ disk[i].commit \in Nat
             /\ Silent(n) /\ Server = {i} /\ n.messages = {}
  BY <1>1, <1>5 DEF AloneInv, TypeInv, TypeOK, NodeOK, Disk, Many, Silent
<1>6. ASSUME NEW i \in Server, Campaign(i)
      PROVE  msgs' = {} /\ \A j \in Server : Silent(node'[j])
  <2> DEFINE n == node[i]
             c == [n EXCEPT !.elapsed = FALSE]
  <2>1. NodeOK(i, c, disk[i].commit) /\ Silent(c)
    <3>1. n \in Node /\ NodeOK(i, n, disk[i].commit) /\ Silent(n) BY <1>5
    <3> HIDE DEF n
    <3>2. /\ c \in Node /\ c.id = n.id /\ c.committed = n.committed /\ c.log = n.log
          /\ c.persisted = n.persisted /\ c.prs = n.prs /\ c.messages = n.messages
          /\ c.state = n.state /\ c.leader_id = n.leader_id
      BY <3>1 DEF Node
    <3> HIDE DEF c
    <3> QED BY <3>1, <3>2 DEF NodeOK, Silent
  <2>2. Become(i, Hup(c, FALSE)) /\ UNCHANGED <<disk, msgs>> BY <1>6 DEF Campaign
  <2> HIDE DEF c
  <2>3. Silent(Hup(c, FALSE)) BY <1>5, <2>1, HupSilent
  <2> QED BY <1>3, <2>2, <2>3
<1>7. ASSUME NEW i \in Server, LeaseExpires(i)
      PROVE  msgs' = {} /\ \A j \in Server : Silent(node'[j])
  <2> DEFINE c == [node[i] EXCEPT !.elapsed = TRUE]
  <2>1. Silent(c) BY <1>5 DEF Node, Silent
  <2>2. node' = [node EXCEPT ![i] = c] /\ msgs' = msgs BY <1>7 DEF LeaseExpires
  <2> QED BY <1>1, <1>2, <2>1, <2>2
<1>8. ASSUME NEW i \in Server, LeaderTick(i)
      PROVE  msgs' = {} /\ \A j \in Server : Silent(node'[j])
  <2> DEFINE n == node[i]
             w == [n EXCEPT !.lead_transferee = None]
             z == [NewWindow(n) EXCEPT !.elapsed = FALSE, !.lead_transferee = None]
             f == BecomeFollower(n, n.term, None)
  <2>1. n.state = "leader" /\ Become(i, LeaderTimeout(n)) /\ UNCHANGED <<disk, msgs>>
    BY <1>8 DEF LeaderTick
  <2>2. Silent(w) BY <1>5 DEF Node, Silent
  <2>3. Silent(z) BY <1>5 DEF Node, Silent, NewWindow
  <2>4. Silent(f) BY <1>5 DEF Node, Silent, BecomeFollower, Reset
  <2>5. LeaderTimeout(n) \in {w, z, f} BY DEF LeaderTimeout
  <2> HIDE DEF w, z, f
  <2>6. Silent(LeaderTimeout(n)) BY <2>2, <2>3, <2>4, <2>5
  <2> QED BY <1>3, <2>1, <2>6
<1>9. ASSUME NEW i \in Server, Beat(i)
      PROVE  msgs' = {} /\ \A j \in Server : Silent(node'[j])
  <2>1. Silent(BroadcastHeartbeat(node[i])) BY <1>5, NoPeers DEF Silent
  <2> QED BY <1>3, <1>9, <2>1 DEF Beat
<1>10. ASSUME NEW i \in Server, NEW v \in Value, Propose(i, v)
       PROVE  msgs' = {} /\ \A j \in Server : Silent(node'[j])
  <2> DEFINE n == node[i]
             a == AppendEntry(n, v)
  <2>1. n.state = "leader" /\ Become(i, HandlePropose(n, v)) /\ UNCHANGED <<disk, msgs>>
    BY <1>5, <1>10 DEF Propose, Silent
  <2>2. a \in Node /\ a.id = i /\ a.messages = {} /\ a.state = "leader"
    <3>1. NodeOK(i, a, disk[i].commit) BY <1>5, AppendEntryOK
    <3>2. a.messages = {} /\ a.state = "leader" BY <1>5, <2>1 DEF AppendEntry, Node
    <3> QED BY <3>1, <3>2 DEF NodeOK
  <2> HIDE DEF a
  <2>3. Silent(BroadcastAppend(a)) BY <2>2, NoPeers DEF Silent
  <2>4. Silent(HandlePropose(n, v)) BY <1>5, <2>3 DEF HandlePropose, a
  <2> QED BY <1>3, <2>1, <2>4
<1>11. ASSUME NEW i \in Server, NEW s \in Server, TransferLeader(i, s)
       PROVE  msgs' = {} /\ \A j \in Server : Silent(node'[j])
  <2> DEFINE n == node[i]
             c == [n EXCEPT !.lead_transferee = None]
  <2>1. /\ n.state = "leader" /\ Become(i, HandleTransferLeader(n, s))
        /\ UNCHANGED <<disk, msgs>> /\ s = n.id
    BY <1>5, <1>11 DEF TransferLeader, Silent
  <2>2. HandleTransferLeader(n, s) \in {n, c} BY <2>1 DEF HandleTransferLeader
  <2>3. Silent(c) BY <1>5 DEF Silent, Node
  <2> HIDE DEF c
  <2>4. Silent(HandleTransferLeader(n, s)) BY <1>5, <2>2, <2>3
  <2> QED BY <1>3, <2>1, <2>4
<1>12. ASSUME NEW i \in Server, NEW s \in Server, Unreachable(i, s)
       PROVE  msgs' = {} /\ \A j \in Server : Silent(node'[j])
  BY <1>5, <1>12 DEF Unreachable
<1>13. ASSUME NEW i \in Server, Ready(i)
       PROVE  msgs' = {} /\ \A j \in Server : Silent(node'[j])
  <2> DEFINE n == node[i]
             q == [n EXCEPT !.messages = {}]
             p == OnPersistEntries(q)
             x == [p EXCEPT !.messages = {}]
             b == disk[i].commit
  <2>1. q = n BY <1>5 DEF Node
  <2>2. Transmit(n.messages \cup p.messages) /\ Become(i, x) BY <1>13 DEF Ready
  <2> HIDE DEF q
  <2>3. p \in Node /\ Silent(p) BY <1>5, <2>1, PersistSilent
  <2> HIDE DEF p
  <2>4. Silent(x) BY <2>3 DEF Silent, Node
  <2>5. msgs' = {} BY <1>1, <1>5, <2>2, <2>3 DEF Transmit, Silent
  <2>6. node' = [node EXCEPT ![i] = x] BY <2>2 DEF Become
  <2> HIDE DEF x
  <2> QED BY <1>1, <1>2, <2>4, <2>5, <2>6
<1>14. ASSUME NEW i \in Server, NEW d, RestartFrom(i, d), msgs' = {}
       PROVE  msgs' = {} /\ \A j \in Server : Silent(node'[j])
  <2>1. Silent(Restart(i, d)) BY DEF Restart, Silent
  <2> QED BY <1>1, <1>2, <1>14, <2>1 DEF RestartFrom
<1>15. ASSUME NEW i \in Server,
              \/ Crash(i)
              \/ \E k \in 0..LastIndex(node[i].log) : CrashInAppend(i, k)
              \/ CrashBeforeAdvance(i)
       PROVE  msgs' = {} /\ \A j \in Server : Silent(node'[j])
  <2>1. msgs' = {} BY <1>1, <1>5, <1>15 DEF Crash, CrashInAppend, CrashBeforeAdvance, Transmit
  <2>2. \E d : RestartFrom(i, d) BY <1>15 DEF Crash, CrashInAppend, CrashBeforeAdvance
  <2> QED BY <1>14, <2>1, <2>2
<1>16. ~ \E m \in msgs : Receive(m) BY <1>1
<1> QED
  BY <1>4, <1>6, <1>7, <1>8, <1>9, <1>10, <1>11, <1>12, <1>13, <1>15, <1>16 DEF Next

\* In every reachable state a single server is silent.
LEMMA AloneInvInductive == Spec => []AloneInv
<1>1. Init /\ TypeInv => AloneInv BY DEF Init, AloneInv, Silent, Restart
<1>2. AloneInv /\ TypeInv' /\ [Next]_vars => AloneInv'
  <2> SUFFICES ASSUME AloneInv, TypeInv', [Next]_vars PROVE AloneInv' OBVIOUS
  <2>1. ~ Many => msgs' = {} /\ \A i \in Server : Silent(node'[i]) BY AloneStep
  <2> QED BY <2>1 DEF AloneInv, Silent, Many
<1> QED BY <1>1, <1>2, TypeInvInductive, PTL DEF Spec

\* No append the network holds is fatal to a node that takes it.
LEMMA AppendsAreSound ==
  ASSUME TypeInv, NEW H, Logs(H, node, disk, msgs, elected), NEW m \in msgs,
         m.type = "append", AppendIsFatal(Observed(m), m)
  PROVE  FALSE
<1> DEFINE n == Observed(m)
           cs == Conflicts(n.log, m.index, m.entries)
           c == Least(cs)
           L == H[m.term]
           terms(j) == IF j = 0 THEN m.log_term ELSE m.entries[j].term
<1>1. /\ m \in Message /\ m.index \in Nat /\ m.entries \in Seq(Entry) /\ m.term \in Nat
      /\ Len(m.entries) \in Nat
  BY LenProperties DEF TypeInv, TypeOK, Message
<1>2. n.committed = node[m.to].committed /\ n.committed \in Nat
  <2>1. node[m.to] \in Node BY <1>1 DEF TypeInv, TypeOK, Message
  <2> QED BY <2>1 DEF Observed, ObserveTerm, BecomeFollower, Reset, Node
<1>3. /\ m.index >= n.committed /\ cs # {}
      /\ \/ m.index + c <= n.committed
         \/ \E j \in c..Len(m.entries) : terms(j - 1) > terms(j)
  BY DEF AppendIsFatal
<1> HIDE DEF n
<1>4. cs \subseteq 1..Len(m.entries) BY DEF Conflicts
<1>5. c \in cs /\ c \in Nat /\ c >= 1
  <2> HIDE DEF cs
  <2>1. cs \in SUBSET Nat BY <1>1, <1>4
  <2>2. c \in cs BY <1>3, <2>1, LeastIsLeast
  <2> HIDE DEF c
  <2>3. c \in 1..Len(m.entries) BY <1>4, <2>2
  <2> QED BY <1>1, <2>2, <2>3
<1> HIDE DEF cs, c
<1>6. PICK j \in c..Len(m.entries) : terms(j - 1) > terms(j) BY <1>1, <1>2, <1>3, <1>5
<1>7. j \in Nat /\ j >= 1 /\ j <= Len(m.entries) BY <1>1, <1>5
<1>8. Histories(H, elected) /\ AppendOK(m, H, elected) BY DEF Logs
<1>9. L \in Seq(Entry) /\ FromLeaders(L, H) BY <1>1, <1>8 DEF Histories
<1>10. /\ m.index + Len(m.entries) <= Len(L) /\ m.log_term = TermAt(L, m.index)
       /\ \A h \in 1..Len(m.entries) : m.entries[h] = L[m.index + h]
  <2>1. m.entries # <<>> BY <1>7, EmptySeq
  <2> QED BY <1>8, <2>1 DEF AppendOK, IsSlice
<1> HIDE DEF L
<1>11. Len(L) \in Nat BY <1>9, LenProperties
<1>12. \A k \in 1..Len(L) : L[k].term > 0 /\ L[k].term \in Nat
       /\ \A h \in 1..k : L[h].term <= L[k].term
  <2>1. \A k \in 1..Len(L) : L[k] \in Entry BY <1>9, ElementOfSeq
  <2> QED BY <1>8, <1>9, <2>1, TermsIncrease DEF Entry
<1>13. m.index + j \in 1..Len(L) /\ terms(j) = L[m.index + j].term
  BY <1>1, <1>7, <1>10, <1>11
<1>14. CASE j = 1
  <2>1. terms(j - 1) = TermAt(L, m.index) BY <1>10, <1>14
  <2>2. CASE m.index \in 1..Len(L)
    <3>1. terms(j - 1) = L[m.index].term /\ m.index \in 1..(m.index + j)
      BY <1>1, <1>14, <2>1, <2>2 DEF TermAt
    <3>2. L[m.index].term <= L[m.index + j].term BY <1>12, <1>13, <3>1
    <3> QED BY <1>6, <1>12, <1>13, <2>2, <3>1, <3>2
  <2>3. CASE m.index \notin 1..Len(L)
    <3>1. terms(j - 1) = 0 BY <2>1, <2>3 DEF TermAt
    <3> QED BY <1>6, <1>12, <1>13, <3>1
  <2> QED BY <2>2, <2>3
<1>15. CASE j > 1
  <2> DEFINE g == m.index + (j - 1)
  <2>1. j - 1 \in 1..Len(m.entries) /\ g \in 1..Len(L) /\ g \in 1..(m.index + j)
    BY <1>1, <1>7, <1>10, <1>11, <1>15
  <2>2. terms(j - 1) = L[g].term BY <1>7, <1>10, <1>15, <2>1
  <2>3. L[g].term <= L[m.index + j].term BY <1>12, <1>13, <2>1
  <2> QED BY <1>6, <1>12, <1>13, <2>1, <2>2, <2>3
<1> QED BY <1>7, <1>14, <1>15

(***************************************************************************)
(* No append that a node may be given makes RaftLog.maybeAppend fail with  *)
(* error.Fatal: whatever the network delivers, late or twice, never        *)
(* conflicts at or below the commit index and never has decreasing terms.  *)
(***************************************************************************)
THEOREM NoFatalAppendHolds == Spec => []NoFatalAppend
<1>1. LogInv /\ AloneInv => NoFatalAppend
  <2> SUFFICES ASSUME LogInv, AloneInv, NEW m \in msgs, m.type = "append",
                      AppendIsFatal(Observed(m), m)
               PROVE  FALSE
    BY DEF NoFatalAppend
  <2>1. Many BY DEF AloneInv
  <2>2. PICK H : Logs(H, node, disk, msgs, elected) BY <2>1 DEF LogInv
  <2> QED BY <2>2, AppendsAreSound DEF LogInv, HardInv
<1> QED BY <1>1, LogInvInductive, AloneInvInductive, PTL

-----------------------------------------------------------------------------
(***************************************************************************)
(* Acknowledgements.  HasAck: node s acknowledged index k to the leader of *)
(* term t.  InTerm: index k of that leader's log is an entry of its own.   *)
(***************************************************************************)
HasAck(t, s, k, A) == \E j \in Nat : <<t, s, j>> \in A /\ k <= j

Acked(t, s, k, A) == k = 0 \/ HasAck(t, s, k, A)

Holders(t, k, A) == {s \in Server : HasAck(t, s, k, A)}

InTerm(t, k, H) == k \in 1..Len(H[t]) /\ H[t][k].term = t

\* A quorum acknowledged the entry k of term t; or did, or still may.
Chosen(t, k, H, A) ==
  InTerm(t, k, H) /\ IsQuorum(Incoming, Outgoing, Holders(t, k, A))

Choosable(t, k, H, A, D) ==
  /\ InTerm(t, k, H)
  /\ IsQuorum(Incoming, Outgoing, Holders(t, k, A) \cup {s \in Server : D[s].term <= t})

\* Every later leader agrees with the leader of t up to k.
Kept(t, k, H, E) == \A v \in Nat : v > t /\ Led(v, E) => Agree(H[v], H[t], k)

\* The first k entries of S were chosen in a term up to t.
CommittedIn(S, k, t, H, A) ==
  \/ k = 0
  \/ \E u, j \in Nat : u <= t /\ k <= j /\ Chosen(u, j, H, A) /\ Agree(S, H[u], k)

(***************************************************************************)
(* What messages say about commits.  A commit index in vote traffic names  *)
(* the term of its entry, and was chosen in a term its sender knew.        *)
(***************************************************************************)
VoteType == {"request_vote", "request_pre_vote",
             "request_vote_response", "request_pre_vote_response"}

VoteCommitOK(m, H, A) ==
  (m.commit > 0 /\ m.commit_term > 0) =>
    /\ m.type = "request_pre_vote_response" => m.reject
    /\ \E u, j \in Nat :
         /\ u <= m.term /\ (m.type = "request_pre_vote" => u < m.term)
         /\ m.commit <= j /\ Chosen(u, j, H, A) /\ TermAt(H[u], m.commit) = m.commit_term

CommitOK(m, H, A) ==
  /\ m.type \in {"append", "heartbeat"} => CommittedIn(H[m.term], m.commit, m.term, H, A)
  /\ m.type = "heartbeat" => Acked(m.term, m.to, m.commit, A)
  /\ m.type \in VoteType => VoteCommitOK(m, H, A)
  /\ m.type = "request_pre_vote" => PreVote

(***************************************************************************)
(* What a vote for r stands for: node s acknowledged nothing that was kept *)
(* and that a log which ends like the candidate's could lack.  Q holds the *)
(* messages that s has not sent yet.                                       *)
(***************************************************************************)
Claimed(t, s, k, A, Q) ==
  \/ HasAck(t, s, k, A)
  \/ \E m \in Q : IsAck(m) /\ m.from = s /\ m.term = t /\ k <= m.index

Covers(r, t, k) == r.log_term > t \/ (r.log_term = t /\ r.index >= k)

GrantOK(g, Q, H, A, M, E) ==
  \E r \in M :
    /\ r.type = "request_vote" /\ r.from = g.to /\ r.term = g.term
    /\ \A t, k \in Nat :
         (t < g.term /\ InTerm(t, k, H) /\ Claimed(t, g.from, k, A, Q) /\ Kept(t, k, H, E))
           => Covers(r, t, k)

(***************************************************************************)
(* The parts of the invariant that concern node i with state n.            *)
(***************************************************************************)
\* It still has what it acknowledged, as far as that was kept, and on disk if
\* the acknowledgement may have left.
KeepsAcked(i, n, H, A, E) ==
  \A t, k \in Nat :
    (k > 0 /\ Claimed(t, i, k, A, n.messages) /\ Kept(t, k, H, E))
      => Agree(n.log, H[t], k) /\ (HasAck(t, i, k, A) => k <= n.persisted)

\* A leader counts only what was acknowledged; it acknowledges what it persists.
Counts(i, n, A) ==
  n.state = "leader" => /\ Acked(n.term, i, n.persisted, A)
                        /\ \A s \in Server : Acked(n.term, s, n.prs[s].matched, A)

\* A candidate's requests describe its log.
Requested(i, n, M) ==
  n.state = "candidate" =>
    \A r \in M \cup n.messages :
      (r.type = "request_vote" /\ r.from = i /\ r.term = n.term)
        => r.index = Len(n.log) /\ r.log_term = LastTerm(n.log)

\* Its unsent messages.
Outbox(i, n, H, A, D, M, E) ==
  \A m \in n.messages :
    /\ CommitOK(m, H, A)
    /\ IsAck(m) => /\ m.from = i /\ D[i].term <= m.term /\ m.term <= n.term
                   /\ Led(m.term, E) /\ m.index <= Len(H[m.term])
    /\ IsBallot(m) => m.term <= n.term
    /\ IsGrant(m) => m.from = i /\ GrantOK(m, n.messages, H, A, M, E)

SafeNode(i, n, H, A, D, M, E) ==
  /\ KeepsAcked(i, n, H, A, E)
  /\ Agree(n.log, D[i].log, n.persisted)
  /\ CommittedIn(n.log, n.committed, n.term, H, A)
  /\ Counts(i, n, A)
  /\ Requested(i, n, M)
  /\ Outbox(i, n, H, A, D, M, E)

(***************************************************************************)
(* The parts that concern the whole system.                                *)
(***************************************************************************)
\* Acknowledgements are to elected leaders, of entries they have, by nodes
\* whose disks know of the term.
Acks(H, A, D, E) ==
  \A t, j \in Nat : \A s \in Server :
    <<t, s, j>> \in A => D[s].term >= t /\ Led(t, E) /\ j <= Len(H[t])

\* What may still be chosen is kept.
Decisive(H, A, D, E) == \A t, k \in Nat : Choosable(t, k, H, A, D) => Kept(t, k, H, E)

\* What the network holds.
Traffic(H, A, M, E) ==
  \A m \in M : /\ CommitOK(m, H, A)
               /\ IsAck(m) => <<m.term, m.from, m.index>> \in A
               /\ IsGrant(m) => GrantOK(m, {}, H, A, M, E)

\* C is the decided log.
Safe(H, A, N, D, M, E, C) ==
  /\ Acks(H, A, D, E) /\ Decisive(H, A, D, E) /\ Traffic(H, A, M, E)
  /\ \A i \in Server : /\ SafeNode(i, N[i], H, A, D, M, E)
                       /\ CommittedIn(D[i].log, D[i].commit, D[i].term, H, A)
                       /\ N[i].committed <= Len(C)
  /\ \E t \in Nat : CommittedIn(C, Len(C), t, H, A)

-----------------------------------------------------------------------------
(***************************************************************************)
(* Commits.                                                                *)
(***************************************************************************)
\* Comparing numbers through a third.
LEMMA LeTransitive ==
  ASSUME NEW a \in Nat, NEW b \in Nat, NEW c \in Nat
  PROVE  /\ a <= b /\ b <= c => a <= c
         /\ a <= b /\ b < c => a < c
         /\ a < b /\ b <= c => a < c
         /\ a < b /\ b <= c + 1 => a <= c
OBVIOUS

\* Logs that agree up to k have the same entry and term there.
LEMMA AgreeAt ==
  ASSUME NEW S \in Seq(Entry), NEW T \in Seq(Entry), NEW k \in Nat, Agree(S, T, k)
  PROVE  /\ TermAt(S, k) = TermAt(T, k)
         /\ k > 0 => /\ S[k] = T[k] /\ k \in 1..Len(S) /\ k \in 1..Len(T)
                     /\ TermAt(S, k) = S[k].term
<1>1. Len(S) \in Nat /\ Len(T) \in Nat BY LenProperties
<1>2. k <= Len(S) /\ k <= Len(T) BY DEF Agree
<1>3. CASE k = 0
  <2>1. k \notin 1..Len(S) /\ k \notin 1..Len(T) BY <1>3
  <2> QED BY <1>3, <2>1 DEF TermAt
<1>4. CASE k # 0
  <2>1. k \in 1..Len(S) /\ k \in 1..Len(T) /\ k \in 1..k BY <1>1, <1>2, <1>4
  <2>2. S[k] = T[k] BY <2>1 DEF Agree
  <2> QED BY <2>1, <2>2 DEF TermAt
<1> QED BY <1>3, <1>4

\* An index with a term is in the log.
LEMMA TermAtIn ==
  ASSUME NEW S, NEW k, NEW t, TermAt(S, k) = t, t > 0
  PROVE  k \in 1..Len(S) /\ S[k].term = t
<1>1. CASE k \in 1..Len(S) BY <1>1 DEF TermAt
<1>2. CASE k \notin 1..Len(S)
  <2>1. t = 0 BY <1>2 DEF TermAt
  <2> QED BY <2>1
<1> QED BY <1>1, <1>2

\* The logs of the histories.
LEMMA HistoryLogs ==
  ASSUME NEW H, NEW E, Histories(H, E), NEW t \in Nat
  PROVE  /\ H[t] \in Seq(Entry) /\ Len(H[t]) \in Nat /\ FromLeaders(H[t], H)
         /\ \A k \in 1..Len(H[t]) : H[t][k].term <= t /\ H[t][k].term \in Nat
         /\ Len(H[t]) > 0 => Led(t, E)
<1>1. H[t] \in Seq(Entry) BY DEF Histories
<1>2. Len(H[t]) \in Nat BY <1>1, LenProperties
<1>3. \A k \in 1..Len(H[t]) : H[t][k].term \in Nat
  <2> SUFFICES ASSUME NEW k \in 1..Len(H[t]) PROVE H[t][k].term \in Nat OBVIOUS
  <2>1. H[t][k] \in Entry BY <1>1, ElementOfSeq
  <2> QED BY <2>1 DEF Entry
<1>4. Len(H[t]) > 0 => H[t] # <<>> BY <1>1, EmptySeq
<1> QED BY <1>1, <1>2, <1>3, <1>4 DEF Histories

\* Only leaders have entries of their term.
LEMMA InTermLed ==
  ASSUME NEW H, NEW E, Histories(H, E), NEW t \in Nat, NEW k \in Nat, InTerm(t, k, H)
  PROVE  Led(t, E) /\ k > 0 /\ k <= Len(H[t]) /\ H[t][k].term = t
<1>1. Len(H[t]) \in Nat BY HistoryLogs
<1>2. k > 0 /\ k <= Len(H[t]) /\ H[t][k].term = t BY <1>1 DEF InTerm
<1>3. Len(H[t]) > 0 BY <1>1, <1>2
<1> QED BY <1>2, <1>3, HistoryLogs

\* What a quorum acknowledged is choosable.
LEMMA ChosenIsChoosable ==
  ASSUME NEW t, NEW k, NEW H, NEW A, NEW D, Chosen(t, k, H, A)
  PROVE  Choosable(t, k, H, A, D)
<1> DEFINE S == Holders(t, k, A)
           T == S \cup {s \in Server : D[s].term <= t}
<1>1. (Incoming \cup Outgoing) \cap S \subseteq T OBVIOUS
<1>2. IsQuorum(Incoming, Outgoing, S) BY DEF Chosen
<1> HIDE DEF S, T
<1>3. IsQuorum(Incoming, Outgoing, T) BY <1>1, <1>2, VotersFinite, QuorumMonotone
<1> QED BY <1>3 DEF Choosable, Chosen, S, T

\* So it is kept.
LEMMA ChosenIsKept ==
  ASSUME NEW H, NEW A, NEW D, NEW E, Decisive(H, A, D, E), NEW t \in Nat, NEW k \in Nat,
         Chosen(t, k, H, A)
  PROVE  Kept(t, k, H, E)
BY ChosenIsChoosable DEF Decisive

\* Part of a committed log is committed, also in another log and later.
LEMMA CommittedLess ==
  ASSUME NEW H \in [Nat -> Seq(Entry)], NEW A, NEW S \in Seq(Entry), NEW T \in Seq(Entry),
         NEW k \in Nat, NEW j \in Nat, NEW t \in Nat, NEW v \in Nat, j <= k, t <= v,
         CommittedIn(S, k, t, H, A), Agree(T, S, j)
  PROVE  CommittedIn(T, j, v, H, A)
<1>1. CASE k = 0 BY <1>1 DEF CommittedIn
<1>2. CASE k # 0
  <2>1. PICK u \in Nat, l \in Nat : u <= t /\ k <= l /\ Chosen(u, l, H, A) /\ Agree(S, H[u], k)
    BY <1>2 DEF CommittedIn
  <2>2. H[u] \in Seq(Entry) BY <2>1
  <2>3. Agree(S, H[u], j) BY <2>1, <2>2, AgreeLess
  <2>4. Agree(T, H[u], j) BY <2>3, AgreeRules
  <2>5. u <= t /\ k <= l BY <2>1
  <2>6. u <= v BY <2>5
  <2>7. j <= l BY <2>5
  <2> QED BY <2>1, <2>4, <2>6, <2>7 DEF CommittedIn
<1> QED BY <1>1, <1>2

\* Later leaders have what is committed.
LEMMA CommittedInLeader ==
  ASSUME NEW H, NEW A, NEW D, NEW E, Histories(H, E), Decisive(H, A, D, E),
         NEW S \in Seq(Entry), NEW k \in Nat, NEW t \in Nat, CommittedIn(S, k, t, H, A),
         NEW v \in Nat, t <= v, Led(v, E)
  PROVE  Agree(S, H[v], k)
<1>1. /\ H \in [Nat -> Seq(Entry)] /\ H[v] \in Seq(Entry) /\ Len(H[v]) \in Nat
      /\ Len(S) \in Nat
  BY HistoryLogs, LenProperties DEF Histories
<1>2. CASE k = 0 BY <1>1, <1>2 DEF Agree
<1>3. CASE k # 0
  <2>1. PICK u \in Nat, l \in Nat : u <= t /\ k <= l /\ Chosen(u, l, H, A) /\ Agree(S, H[u], k)
    BY <1>3 DEF CommittedIn
  <2>2. CASE u = v BY <2>1, <2>2
  <2>3. CASE u # v
    <3>1. v > u BY <2>1, <2>3
    <3>2. Agree(H[v], H[u], l) BY <2>1, <3>1, ChosenIsKept DEF Kept
    <3>3. H[u] \in Seq(Entry) BY <1>1
    <3>4. Agree(H[v], H[u], k) BY <1>1, <2>1, <3>2, <3>3, AgreeLess
    <3> QED BY <2>1, <3>4, AgreeRules
  <2> QED BY <2>2, <2>3
<1> QED BY <1>2, <1>3

\* So what a leader has committed is kept.
LEMMA CommittedIsKept ==
  ASSUME NEW H, NEW A, NEW D, NEW E, Histories(H, E), Decisive(H, A, D, E),
         NEW k \in Nat, NEW t \in Nat, CommittedIn(H[t], k, t, H, A)
  PROVE  Kept(t, k, H, E)
<1> SUFFICES ASSUME NEW v \in Nat, v > t, Led(v, E) PROVE Agree(H[v], H[t], k) BY DEF Kept
<1>1. H[t] \in Seq(Entry) BY HistoryLogs
<1>2. Agree(H[t], H[v], k) BY <1>1, CommittedInLeader
<1> QED BY <1>2, AgreeRules

\* Two committed logs agree as far as the shorter goes.
LEMMA TwoCommitted ==
  ASSUME NEW H, NEW A, NEW D, NEW E, Histories(H, E), Decisive(H, A, D, E),
         NEW S \in Seq(Entry), NEW k \in Nat, NEW t \in Nat, CommittedIn(S, k, t, H, A),
         NEW T \in Seq(Entry), NEW l \in Nat, NEW v \in Nat, CommittedIn(T, l, v, H, A),
         k <= l
  PROVE  Agree(S, T, k)
<1>1. /\ H \in [Nat -> Seq(Entry)] /\ Len(T) \in Nat /\ Len(S) \in Nat
  BY LenProperties DEF Histories
<1>2. CASE k = 0 BY <1>1, <1>2 DEF Agree
<1>3. CASE k # 0
  <2>1. PICK u \in Nat, j \in Nat : u <= t /\ k <= j /\ Chosen(u, j, H, A) /\ Agree(S, H[u], k)
    BY <1>3 DEF CommittedIn
  <2>2. l # 0 BY <1>3
  <2>3. PICK w \in Nat, h \in Nat : w <= v /\ l <= h /\ Chosen(w, h, H, A) /\ Agree(T, H[w], l)
    BY <2>2 DEF CommittedIn
  <2>4. H[u] \in Seq(Entry) /\ H[w] \in Seq(Entry) BY <1>1
  <2>5. Agree(T, H[w], k) BY <2>3, <2>4, AgreeLess
  <2>6. Led(u, E) /\ Led(w, E) BY <2>1, <2>3, InTermLed DEF Chosen
  <2>7. CASE u = w BY <2>1, <2>5, <2>7, AgreeRules
  <2>8. CASE u < w
    <3>1. Agree(H[w], H[u], j) BY <2>1, <2>6, <2>8, ChosenIsKept DEF Kept
    <3>2. Agree(H[w], H[u], k) BY <2>1, <2>4, <3>1, AgreeLess
    <3> QED BY <2>1, <2>5, <3>2, AgreeRules
  <2>9. CASE w < u
    <3>1. Agree(H[u], H[w], h) BY <2>3, <2>6, <2>9, ChosenIsKept DEF Kept
    <3>2. k <= h BY <2>3
    <3>3. Agree(H[u], H[w], k) BY <2>3, <2>4, <3>1, <3>2, AgreeLess
    <3> QED BY <2>1, <2>5, <3>3, AgreeRules
  <2> QED BY <2>7, <2>8, <2>9
<1> QED BY <1>2, <1>3

-----------------------------------------------------------------------------
(***************************************************************************)
(* Growth.  Histories grow; those of terms that already had a leader only  *)
(* by entries of that term.                                                *)
(***************************************************************************)
Grows(H, H2, E) ==
  /\ Extends(H, H2)
  /\ \A t \in Nat : Led(t, E) =>
       \A k \in 1..Len(H2[t]) : k <= Len(H[t]) \/ H2[t][k].term = t

\* More is acknowledged when more acknowledgements are known.
LEMMA AcksGrow ==
  ASSUME NEW A, NEW B, A \subseteq B, NEW t, NEW k
  PROVE  /\ \A s : HasAck(t, s, k, A) => HasAck(t, s, k, B)
         /\ \A s : Acked(t, s, k, A) => Acked(t, s, k, B)
         /\ Holders(t, k, A) \subseteq Holders(t, k, B)
BY DEF HasAck, Acked, Holders

\* Less is acknowledged of more.
LEMMA AckedLess ==
  ASSUME NEW A, NEW t, NEW s, NEW k \in Nat, NEW j \in Nat, j <= k
  PROVE  /\ HasAck(t, s, k, A) => HasAck(t, s, j, A)
         /\ Acked(t, s, k, A) => Acked(t, s, j, A)
<1>1. ASSUME HasAck(t, s, k, A) PROVE HasAck(t, s, j, A)
  <2>1. PICK l \in Nat : <<t, s, l>> \in A /\ k <= l BY <1>1 DEF HasAck
  <2>2. j <= l BY <2>1
  <2> QED BY <2>1, <2>2 DEF HasAck
<1> QED BY <1>1 DEF Acked

\* Entries of a history stay where they are.
LEMMA ExtendsAgree ==
  ASSUME NEW H \in [Nat -> Seq(Entry)], NEW G \in [Nat -> Seq(Entry)], Extends(H, G),
         NEW t \in Nat, NEW k \in Nat, k <= Len(H[t])
  PROVE  Agree(G[t], H[t], k)
<1>1. H[t] \in Seq(Entry) /\ G[t] \in Seq(Entry) OBVIOUS
<1>2. Len(H[t]) \in Nat BY <1>1, LenProperties
<1>3. Agree(H[t], G[t], Len(H[t])) BY DEF Extends
<1>4. Agree(H[t], G[t], k) BY <1>1, <1>2, <1>3, AgreeLess
<1> QED BY <1>4, AgreeRules

\* What was chosen stays chosen.
LEMMA ChosenGrows ==
  ASSUME NEW H \in [Nat -> Seq(Entry)], NEW G \in [Nat -> Seq(Entry)], Extends(H, G),
         NEW A, NEW B, A \subseteq B, NEW t \in Nat, NEW k \in Nat, Chosen(t, k, H, A)
  PROVE  Chosen(t, k, G, B)
<1>1. H[t] \in Seq(Entry) /\ G[t] \in Seq(Entry) OBVIOUS
<1>2. Len(H[t]) \in Nat /\ Len(G[t]) \in Nat BY <1>1, LenProperties
<1>3. k \in 1..Len(H[t]) /\ H[t][k].term = t BY DEF Chosen, InTerm
<1>4. k <= Len(H[t]) /\ k > 0 BY <1>2, <1>3
<1>5. Agree(G[t], H[t], k) BY <1>4, ExtendsAgree
<1>6. G[t][k] = H[t][k] /\ k <= Len(G[t]) BY <1>4, <1>5 DEF Agree
<1>7. InTerm(t, k, G) BY <1>2, <1>3, <1>4, <1>6 DEF InTerm
<1>8. Holders(t, k, A) \subseteq Holders(t, k, B) BY AcksGrow
<1>9. IsQuorum(Incoming, Outgoing, Holders(t, k, B))
  BY <1>8, VotersFinite, QuorumMonotone DEF Chosen
<1> QED BY <1>7, <1>9 DEF Chosen

\* What was committed stays committed.
LEMMA CommittedGrows ==
  ASSUME NEW H \in [Nat -> Seq(Entry)], NEW G \in [Nat -> Seq(Entry)], Extends(H, G),
         NEW A, NEW B, A \subseteq B, NEW S \in Seq(Entry), NEW k \in Nat, NEW t \in Nat,
         CommittedIn(S, k, t, H, A)
  PROVE  CommittedIn(S, k, t, G, B)
<1>1. CASE k = 0 BY <1>1 DEF CommittedIn
<1>2. CASE k # 0
  <2>1. PICK u \in Nat, l \in Nat : u <= t /\ k <= l /\ Chosen(u, l, H, A) /\ Agree(S, H[u], k)
    BY <1>2 DEF CommittedIn
  <2>2. Chosen(u, l, G, B) BY <2>1, ChosenGrows
  <2>3. k <= Len(H[u]) BY <2>1 DEF Agree
  <2>4. Agree(G[u], H[u], k) BY <2>3, ExtendsAgree
  <2>5. Agree(S, G[u], k) BY <2>1, <2>4, AgreeRules
  <2> QED BY <2>1, <2>2, <2>5 DEF CommittedIn
<1> QED BY <1>1, <1>2

\* So it does in the log of the leader itself.
LEMMA LeaderCommittedGrows ==
  ASSUME NEW H \in [Nat -> Seq(Entry)], NEW G \in [Nat -> Seq(Entry)], Extends(H, G),
         NEW A, NEW B, A \subseteq B, NEW k \in Nat, NEW t \in Nat,
         CommittedIn(H[t], k, t, H, A)
  PROVE  CommittedIn(G[t], k, t, G, B)
<1>1. H[t] \in Seq(Entry) /\ G[t] \in Seq(Entry) OBVIOUS
<1>2. CASE k = 0 BY <1>2 DEF CommittedIn
<1>3. CASE k # 0
  <2>1. k <= Len(H[t]) BY <1>3 DEF CommittedIn, Agree
  <2>2. Agree(G[t], H[t], k) BY <2>1, ExtendsAgree
  <2>3. CommittedIn(H[t], k, t, G, B) BY <1>1, CommittedGrows
  <2>4. k <= k /\ t <= t OBVIOUS
  <2> QED BY <1>1, <2>2, <2>3, <2>4, CommittedLess
<1> QED BY <1>2, <1>3

\* What a message says about commits stays true.
LEMMA CommitOKGrows ==
  ASSUME NEW H \in [Nat -> Seq(Entry)], NEW G \in [Nat -> Seq(Entry)], Extends(H, G),
         NEW A, NEW B, A \subseteq B, NEW m \in Message, CommitOK(m, H, A)
  PROVE  CommitOK(m, G, B)
<1>1. m.term \in Nat /\ m.commit \in Nat BY DEF Message
<1>2. m.type \in {"append", "heartbeat"} => CommittedIn(G[m.term], m.commit, m.term, G, B)
  BY <1>1, LeaderCommittedGrows DEF CommitOK
<1>3. m.type = "heartbeat" => Acked(m.term, m.to, m.commit, B) BY AcksGrow DEF CommitOK
<1>4. ASSUME m.type \in VoteType, m.commit > 0, m.commit_term > 0
      PROVE  VoteCommitOK(m, G, B)
  <2>1. VoteCommitOK(m, H, A) BY <1>4 DEF CommitOK
  <2>2. PICK u \in Nat, j \in Nat :
         /\ u <= m.term /\ (m.type = "request_pre_vote" => u < m.term)
         /\ m.commit <= j /\ Chosen(u, j, H, A) /\ TermAt(H[u], m.commit) = m.commit_term
    BY <1>4, <2>1 DEF VoteCommitOK
  <2>3. Chosen(u, j, G, B) BY <2>2, ChosenGrows
  <2>4. H[u] \in Seq(Entry) /\ G[u] \in Seq(Entry) OBVIOUS
  <2>5. Len(H[u]) \in Nat /\ Len(G[u]) \in Nat BY <2>4, LenProperties
  <2>6. m.commit \in 1..Len(H[u]) BY <1>4, <2>2, TermAtIn
  <2>7. m.commit <= Len(H[u]) BY <2>5, <2>6
  <2>8. Agree(G[u], H[u], m.commit) BY <1>1, <2>7, ExtendsAgree
  <2>9. TermAt(G[u], m.commit) = m.commit_term BY <1>1, <2>2, <2>4, <2>8, AgreeAt
  <2> QED BY <2>1, <2>2, <2>3, <2>9 DEF VoteCommitOK
<1>5. m.type \in VoteType => VoteCommitOK(m, G, B) BY <1>4 DEF VoteCommitOK
<1> QED BY <1>2, <1>3, <1>5 DEF CommitOK

\* What is kept in grown histories was kept before.
LEMMA KeptBefore ==
  ASSUME NEW H, NEW E, Histories(H, E), NEW G, NEW F, Histories(G, F), Grows(H, G, E),
         E \subseteq F, NEW t \in Nat, NEW k \in Nat, k <= Len(H[t]), Kept(t, k, G, F)
  PROVE  Kept(t, k, H, E)
<1> SUFFICES ASSUME NEW v \in Nat, v > t, Led(v, E) PROVE Agree(H[v], H[t], k) BY DEF Kept
<1>1. /\ H \in [Nat -> Seq(Entry)] /\ G \in [Nat -> Seq(Entry)] /\ Extends(H, G)
  BY DEF Histories, Grows
<1>2. /\ Len(H[v]) \in Nat /\ Len(G[v]) \in Nat /\ Len(G[t]) \in Nat
      /\ \A h \in 1..Len(G[t]) : G[t][h].term <= t /\ G[t][h].term \in Nat
  BY HistoryLogs
<1>3. Led(v, F) BY DEF Led
<1>4. Agree(G[v], G[t], k) BY <1>3 DEF Kept
<1>5. k <= Len(H[v])
  <2> SUFFICES ASSUME k > Len(H[v]) PROVE FALSE BY <1>2
  <2>1. k <= Len(G[v]) /\ k <= Len(G[t]) BY <1>4 DEF Agree
  <2>2. k \in 1..Len(G[v]) /\ k \in 1..Len(G[t]) /\ k \in 1..k BY <1>2, <2>1
  <2>3. G[v][k].term = v BY <1>2, <2>2 DEF Grows
  <2>4. G[v][k] = G[t][k] BY <1>4, <2>2 DEF Agree
  <2>5. G[t][k].term <= t BY <1>2, <2>2
  <2> QED BY <2>3, <2>4, <2>5
<1>6. Agree(G[v], H[v], k) /\ Agree(G[t], H[t], k) BY <1>1, <1>5, ExtendsAgree
<1> QED BY <1>4, <1>6, AgreeRules

-----------------------------------------------------------------------------
(***************************************************************************)
(* A step of one node, as the others see it.                               *)
(***************************************************************************)
\* Claims are about entries of elected leaders.
LEMMA ClaimedLed ==
  ASSUME NEW H, NEW A, NEW D, NEW E, Histories(H, E), Acks(H, A, D, E), NEW s \in Server,
         NEW Q \in SUBSET Message,
         \A m \in Q : IsAck(m) => Led(m.term, E) /\ m.index <= Len(H[m.term]),
         NEW t \in Nat, NEW k \in Nat, Claimed(t, s, k, A, Q)
  PROVE  /\ Led(t, E) /\ k <= Len(H[t])
         /\ D[s].term >= t \/ \E m \in Q : IsAck(m) /\ m.from = s /\ m.term = t /\ k <= m.index
<1>1. Len(H[t]) \in Nat BY HistoryLogs
<1>2. CASE HasAck(t, s, k, A)
  <2>1. PICK j \in Nat : <<t, s, j>> \in A /\ k <= j BY <1>2 DEF HasAck
  <2>2. D[s].term >= t /\ Led(t, E) /\ j <= Len(H[t]) BY <2>1 DEF Acks
  <2>3. k <= Len(H[t]) BY <1>1, <2>1, <2>2
  <2> QED BY <2>2, <2>3
<1>3. CASE ~ HasAck(t, s, k, A)
  <2>1. PICK m \in Q : IsAck(m) /\ m.from = s /\ m.term = t /\ k <= m.index
    BY <1>3 DEF Claimed
  <2>2. Led(t, E) /\ m.index <= Len(H[t]) BY <2>1
  <2>3. m.index \in Nat BY DEF Message
  <2>4. k <= Len(H[t]) BY <1>1, <2>1, <2>2, <2>3
  <2> QED BY <2>1, <2>2, <2>4
<1> QED BY <1>2, <1>3

\* A vote stays justified while the voter acknowledges nothing of earlier terms.
LEMMA GrantStays ==
  ASSUME NEW H, NEW E, Histories(H, E), NEW G, NEW F, Histories(G, F), Grows(H, G, E),
         E \subseteq F, NEW A, NEW B, NEW M, NEW M2, M \subseteq M2, NEW Q, NEW Q2, NEW g,
         GrantOK(g, Q, H, A, M, E),
         \A t, k \in Nat : t < g.term /\ InTerm(t, k, G) /\ Claimed(t, g.from, k, B, Q2)
                             => Claimed(t, g.from, k, A, Q) /\ k <= Len(H[t])
  PROVE  GrantOK(g, Q2, G, B, M2, F)
<1>1. PICK r \in M :
        /\ r.type = "request_vote" /\ r.from = g.to /\ r.term = g.term
        /\ \A t, k \in Nat :
             (t < g.term /\ InTerm(t, k, H) /\ Claimed(t, g.from, k, A, Q) /\ Kept(t, k, H, E))
               => Covers(r, t, k)
  BY DEF GrantOK
<1>2. ASSUME NEW t \in Nat, NEW k \in Nat, t < g.term, InTerm(t, k, G),
             Claimed(t, g.from, k, B, Q2), Kept(t, k, G, F)
      PROVE  Covers(r, t, k)
  <2>1. Claimed(t, g.from, k, A, Q) /\ k <= Len(H[t]) BY <1>2
  <2>2. Kept(t, k, H, E) BY <1>2, <2>1, KeptBefore
  <2>3. H \in [Nat -> Seq(Entry)] /\ G \in [Nat -> Seq(Entry)] /\ Extends(H, G)
    BY DEF Histories, Grows
  <2>4. Agree(G[t], H[t], k) BY <2>1, <2>3, ExtendsAgree
  <2>5. k > 0 /\ G[t][k].term = t BY <1>2, InTermLed
  <2>6. H[t] \in Seq(Entry) /\ G[t] \in Seq(Entry) BY <2>3
  <2>7. G[t][k] = H[t][k] /\ k \in 1..Len(H[t]) BY <2>4, <2>5, <2>6, AgreeAt
  <2>8. InTerm(t, k, H) BY <2>5, <2>7 DEF InTerm
  <2> QED BY <1>1, <1>2, <2>1, <2>2, <2>8
<1>3. r \in M2 OBVIOUS
<1> QED BY <1>1, <1>2, <1>3 DEF GrantOK

\* A node that does not move, while others do.
LEMMA OthersSafe ==
  ASSUME NEW H, NEW E, Histories(H, E), NEW G, NEW F, Histories(G, F), Grows(H, G, E),
         E \subseteq F, NEW A, NEW B, A \subseteq B, NEW M, NEW M2, M \subseteq M2,
         NEW D, NEW D2, Acks(H, A, D, E), NEW j \in Server, NEW n \in Node,
         SafeNode(j, n, H, A, D, M, E), D2[j] = D[j],
         \A t, k \in Nat : HasAck(t, j, k, B) => HasAck(t, j, k, A),
         \A r \in M2 : r.type = "request_vote" /\ r.from = j => r \in M
  PROVE  SafeNode(j, n, G, B, D2, M2, F)
<1> DEFINE Q == n.messages
<1>1. Q \in SUBSET Message /\ n.log \in Seq(Entry) /\ n.committed \in Nat /\ n.term \in Nat
      /\ n.persisted \in Nat
  BY DEF Node
<1>2. H \in [Nat -> Seq(Entry)] /\ G \in [Nat -> Seq(Entry)] /\ Extends(H, G)
  BY DEF Histories, Grows
<1>3. Outbox(j, n, H, A, D, M, E) BY DEF SafeNode
<1>4. \A m \in Q : IsAck(m) => Led(m.term, E) /\ m.index <= Len(H[m.term])
  BY <1>3 DEF Outbox
<1> HIDE DEF Q
<1>5. ASSUME NEW t \in Nat, NEW k \in Nat, Claimed(t, j, k, B, Q)
      PROVE  Claimed(t, j, k, A, Q) /\ k <= Len(H[t])
  <2>1. Claimed(t, j, k, A, Q) BY <1>5 DEF Claimed
  <2> QED BY <1>1, <1>4, <2>1, ClaimedLed
<1>6. KeepsAcked(j, n, G, B, F)
  <2> SUFFICES ASSUME NEW t \in Nat, NEW k \in Nat, k > 0, Claimed(t, j, k, B, Q),
                      Kept(t, k, G, F)
               PROVE  Agree(n.log, G[t], k) /\ (HasAck(t, j, k, B) => k <= n.persisted)
    BY DEF KeepsAcked, Q
  <2>1. Claimed(t, j, k, A, Q) /\ k <= Len(H[t]) BY <1>5
  <2>2. Kept(t, k, H, E) BY <2>1, KeptBefore
  <2>3. Agree(n.log, H[t], k) /\ (HasAck(t, j, k, A) => k <= n.persisted)
    BY <2>1, <2>2 DEF SafeNode, KeepsAcked, Q
  <2>4. Agree(G[t], H[t], k) BY <1>2, <2>1, ExtendsAgree
  <2>5. Agree(n.log, G[t], k) BY <2>3, <2>4, AgreeRules
  <2> QED BY <2>3, <2>5
<1>7. CommittedIn(n.log, n.committed, n.term, G, B)
  BY <1>1, <1>2, CommittedGrows DEF SafeNode
<1>8. Counts(j, n, B) BY AcksGrow DEF SafeNode, Counts
<1>9. Requested(j, n, M2) BY DEF SafeNode, Requested
<1>10. ASSUME NEW m \in Q
       PROVE  /\ CommitOK(m, G, B)
              /\ IsAck(m) => /\ m.from = j /\ D2[j].term <= m.term /\ m.term <= n.term
                             /\ Led(m.term, F) /\ m.index <= Len(G[m.term])
              /\ IsBallot(m) => m.term <= n.term
              /\ IsGrant(m) => m.from = j /\ GrantOK(m, Q, G, B, M2, F)
  <2>1. m \in Message /\ m.term \in Nat /\ m.index \in Nat BY <1>1 DEF Message
  <2>2. CommitOK(m, G, B) BY <1>2, <1>3, <2>1, CommitOKGrows DEF Outbox, Q
  <2>3. IsAck(m) => /\ m.from = j /\ D2[j].term <= m.term /\ m.term <= n.term
                    /\ Led(m.term, F) /\ m.index <= Len(G[m.term])
    <3>1. Led(m.term, E) => Led(m.term, F) BY DEF Led
    <3>2. m.index <= Len(H[m.term]) => m.index <= Len(G[m.term])
      <4> SUFFICES ASSUME m.index <= Len(H[m.term]) PROVE m.index <= Len(G[m.term]) OBVIOUS
      <4>1. Agree(G[m.term], H[m.term], m.index) BY <1>2, <2>1, ExtendsAgree
      <4> QED BY <4>1 DEF Agree
    <3> QED BY <1>3, <3>1, <3>2 DEF Outbox, Q
  <2>4. ASSUME IsGrant(m) PROVE m.from = j /\ GrantOK(m, Q, G, B, M2, F)
    <3>1. m.from = j /\ GrantOK(m, Q, H, A, M, E) BY <1>3, <2>4 DEF Outbox, Q
    <3>2. \A t, k \in Nat : t < m.term /\ InTerm(t, k, G) /\ Claimed(t, m.from, k, B, Q)
                             => Claimed(t, m.from, k, A, Q) /\ k <= Len(H[t])
      BY <1>5, <3>1
    <3> QED BY <3>1, <3>2, GrantStays
  <2>5. IsBallot(m) => m.term <= n.term BY <1>3 DEF Outbox, Q
  <2> QED BY <2>2, <2>3, <2>4, <2>5
<1>11. Outbox(j, n, G, B, D2, M2, F) BY <1>10 DEF Outbox, Q
<1> QED BY <1>6, <1>7, <1>8, <1>9, <1>11 DEF SafeNode

-----------------------------------------------------------------------------
(***************************************************************************)
(* Moves of a node, with the rest of the system as it is.                  *)
(***************************************************************************)
World(H, A, D, M, E) ==
  /\ M \in SUBSET Message
  /\ Histories(H, E) /\ Acks(H, A, D, E) /\ Decisive(H, A, D, E) /\ Traffic(H, A, M, E)

\* A vote does not depend on acknowledgements of its own term or later ones.
LEMMA GrantSameAcks ==
  ASSUME NEW g, NEW Q, NEW Q2, NEW H, NEW A, NEW M, NEW E, GrantOK(g, Q, H, A, M, E),
         \A t, k \in Nat : t < g.term /\ Claimed(t, g.from, k, A, Q2)
                             => Claimed(t, g.from, k, A, Q)
  PROVE  GrantOK(g, Q2, H, A, M, E)
BY DEF GrantOK

\* A move that keeps the log and its marks, and acknowledges nothing.
LEMMA SameLogSafe ==
  ASSUME NEW H, NEW A, NEW D, NEW M, NEW E, World(H, A, D, M, E), NEW i \in Server,
         NEW n \in Node, SafeNode(i, n, H, A, D, M, E), NEW n2 \in Node,
         n2.log = n.log, n2.persisted = n.persisted, n2.committed = n.committed,
         n.term <= n2.term, Counts(i, n2, A), Requested(i, n2, M),
         \A m \in n2.messages :
           \/ m \in n.messages
           \/ /\ CommitOK(m, H, A) /\ ~ IsAck(m)
              /\ IsBallot(m) => m.term <= n2.term
              /\ IsGrant(m) => m.from = i /\ GrantOK(m, n.messages, H, A, M, E)
  PROVE  SafeNode(i, n2, H, A, D, M, E)
<1> DEFINE Q == n.messages
           Q2 == n2.messages
<1>1. /\ n.term \in Nat /\ n2.term \in Nat /\ n.log \in Seq(Entry) /\ n.committed \in Nat
      /\ Q \in SUBSET Message /\ H \in [Nat -> Seq(Entry)]
  BY DEF Node, World, Histories
<1>2. \A t, k \in Nat : \A s : Claimed(t, s, k, A, Q2) => Claimed(t, s, k, A, Q)
  BY DEF Claimed
<1> HIDE DEF Q, Q2
<1>3. KeepsAcked(i, n2, H, A, E) BY <1>2 DEF SafeNode, KeepsAcked, Q, Q2
<1>4. CommittedIn(n2.log, n2.committed, n2.term, H, A)
  <2>1. CommittedIn(n.log, n.committed, n.term, H, A) BY DEF SafeNode
  <2>2. \A u \in Nat : u <= n.term => u <= n2.term BY <1>1, LeTransitive
  <2> QED BY <2>1, <2>2 DEF CommittedIn
<1>5. Agree(n2.log, D[i].log, n2.persisted) BY DEF SafeNode
<1>6. Outbox(i, n, H, A, D, M, E) BY DEF SafeNode
<1>7. ASSUME NEW m \in Q2
      PROVE  /\ CommitOK(m, H, A)
             /\ IsAck(m) => /\ m.from = i /\ D[i].term <= m.term /\ m.term <= n2.term
                            /\ Led(m.term, E) /\ m.index <= Len(H[m.term])
             /\ IsBallot(m) => m.term <= n2.term
             /\ IsGrant(m) => m.from = i /\ GrantOK(m, Q2, H, A, M, E)
  <2>1. IsGrant(m) => m.from = i /\ GrantOK(m, Q, H, A, M, E)
    BY <1>6 DEF Outbox, Q, Q2
  <2>2. IsGrant(m) => GrantOK(m, Q2, H, A, M, E) BY <1>2, <2>1, GrantSameAcks
  <2>3. CASE m \in n.messages
    <3>1. m.term \in Nat BY <1>1, <2>3 DEF Message, Q
    <3>2. m.term <= n.term => m.term <= n2.term BY <1>1, <3>1, LeTransitive
    <3> QED BY <1>6, <2>1, <2>2, <2>3, <3>2 DEF Outbox
  <2>4. CASE m \notin n.messages BY <2>1, <2>2, <2>4 DEF Q2
  <2> QED BY <2>3, <2>4
<1>8. Outbox(i, n2, H, A, D, M, E) BY <1>7 DEF Outbox, Q2
<1> QED BY <1>3, <1>4, <1>5, <1>8 DEF SafeNode

\* A node without power counts nothing and has not asked for votes.
LEMMA PowerlessSafe ==
  ASSUME NEW n, NEW i, NEW A, NEW M
  PROVE  /\ n.state # "leader" => Counts(i, n, A)
         /\ n.state # "candidate" => Requested(i, n, M)
BY DEF Counts, Requested

\* The commit index of a node, told in vote traffic.
LEMMA TellsCommit ==
  ASSUME NEW H \in [Nat -> Seq(Entry)], NEW A, NEW S \in Seq(Entry), NEW k \in Nat,
         NEW t \in Nat, CommittedIn(S, k, t, H, A), NEW m \in Message,
         m.type \in VoteType, t <= m.term, m.commit = k, m.commit_term = TermAt(S, k),
         m.type = "request_pre_vote" => PreVote /\ t < m.term,
         m.type = "request_pre_vote_response" => m.reject
  PROVE  CommitOK(m, H, A) /\ ~ IsAck(m)
<1>1. m.term \in Nat BY DEF Message
<1>2. ASSUME m.commit > 0
      PROVE  \E u, j \in Nat :
               /\ u <= m.term /\ (m.type = "request_pre_vote" => u < m.term)
               /\ m.commit <= j /\ Chosen(u, j, H, A) /\ TermAt(H[u], m.commit) = m.commit_term
  <2>1. k # 0 BY <1>2
  <2>2. PICK u \in Nat, l \in Nat : u <= t /\ k <= l /\ Chosen(u, l, H, A) /\ Agree(S, H[u], k)
    BY <2>1 DEF CommittedIn
  <2>3. u <= m.term BY <1>1, <2>2, LeTransitive
  <2>4. m.type = "request_pre_vote" => u < m.term BY <1>1, <2>2, LeTransitive
  <2>5. H[u] \in Seq(Entry) BY <2>2
  <2>6. TermAt(H[u], k) = TermAt(S, k) BY <2>2, <2>5, AgreeAt
  <2> QED BY <2>2, <2>3, <2>4, <2>6
<1>3. VoteCommitOK(m, H, A) BY <1>2 DEF VoteCommitOK
<1>4. m.type \notin {"append", "heartbeat"} BY DEF VoteType
<1> QED BY <1>3, <1>4 DEF CommitOK, IsAck, VoteType

\* The log of n is made of histories, a leader's is the history of its term.
LogKnown(n, H) == FromLeaders(n.log, H) /\ (n.state = "leader" => n.log = H[n.term])

\* Sending.
LEMMA SendsSafe ==
  ASSUME NEW H, NEW A, NEW D, NEW M, NEW E, World(H, A, D, M, E), NEW i \in Server,
         NEW n \in Node, SafeNode(i, n, H, A, D, M, E), LogKnown(n, H),
         NEW n2 \in Node, Sends(n, n2)
  PROVE  SafeNode(i, n2, H, A, D, M, E)
<1>1. /\ n2.term = n.term /\ n2.state = n.state /\ n2.log = n.log
      /\ n2.persisted = n.persisted /\ n2.committed = n.committed
      /\ \A s \in Server : n2.prs[s].matched = n.prs[s].matched
  BY DEF Sends, Rest, SameMatched
<1>2. Counts(i, n2, A) BY <1>1 DEF SafeNode, Counts
<1>3. /\ n.term \in Nat /\ n2.messages \in SUBSET Message /\ n.log \in Seq(Entry)
      /\ n.committed \in Nat /\ \A s \in Server : n.prs[s].matched \in Nat
  BY DEF Node, Progress
<1>4. ASSUME NEW m \in n2.messages, m \notin n.messages
      PROVE  CommitOK(m, H, A) /\ ~ IsAck(m) /\ ~ IsBallot(m) /\ ~ IsGrant(m)
  <2>1. CASE Plain(m)
    <3>1. VoteCommitOK(m, H, A) \/ m.type \notin VoteType
      BY <2>1 DEF Plain, VoteCommitOK, VoteType
    <3>2. m.type \notin {"append", "heartbeat", "request_pre_vote"} BY <2>1 DEF Plain
    <3> QED BY <2>1, <3>1, <3>2 DEF Plain, CommitOK, IsBallot
  <2>2. CASE Replicates(n, m)
    <3>1. n.log = H[n.term] /\ n.state = "leader" /\ m.term = n.term /\ m.to \in Server
      BY <2>2 DEF LogKnown, Replicates
    <3>2. CommittedIn(n.log, n.committed, n.term, H, A) BY DEF SafeNode
    <3>3. m.commit <= n.committed /\ m.commit \in Nat
      BY <1>3, <2>2 DEF Replicates, Message
    <3>4. H \in [Nat -> Seq(Entry)] BY DEF World, Histories
    <3>5. Agree(n.log, n.log, m.commit)
      <4>1. Len(n.log) \in Nat BY <1>3, LenProperties
      <4>2. m.commit = 0 \/ m.commit <= Len(n.log)
        <5>1. n.committed = 0 \/ n.committed <= Len(n.log) BY <3>2 DEF CommittedIn, Agree
        <5> QED BY <1>3, <3>3, <4>1, <5>1
      <4> QED BY <3>3, <4>1, <4>2 DEF Agree
    <3>6. n.term <= n.term BY <1>3
    <3>7. CommittedIn(n.log, m.commit, n.term, H, A)
      BY <1>3, <3>2, <3>3, <3>4, <3>5, <3>6, CommittedLess
    <3>8. CommittedIn(H[m.term], m.commit, m.term, H, A) BY <3>1, <3>7
    <3>9. ASSUME m.type = "heartbeat" PROVE Acked(m.term, m.to, m.commit, A)
      <4>1. m.commit <= n.prs[m.to].matched BY <2>2, <3>9 DEF Replicates
      <4>2. Acked(n.term, m.to, n.prs[m.to].matched, A) BY <3>1 DEF SafeNode, Counts
      <4>3. n.prs[m.to].matched \in Nat BY <1>3, <3>1
      <4> QED BY <3>1, <3>3, <4>1, <4>2, <4>3, AckedLess
    <3>10. m.type \in {"append", "heartbeat"} BY <2>2 DEF Replicates
    <3> QED BY <3>8, <3>9, <3>10 DEF CommitOK, VoteType, IsAck, IsBallot, IsGrant
  <2> QED BY <1>4, <2>1, <2>2 DEF Sends
<1>5. Requested(i, n2, M)
  <2>1. \A r \in n2.messages : r.type = "request_vote" => r \in n.messages
    BY <1>4 DEF IsBallot
  <2> QED BY <1>1, <2>1 DEF SafeNode, Requested
<1>6. n.term <= n2.term BY <1>1, <1>3
<1> QED BY <1>1, <1>2, <1>4, <1>5, <1>6, SameLogSafe

\* Leaving a role.
LEMMA DownsSafe ==
  ASSUME NEW H, NEW A, NEW D, NEW M, NEW E, World(H, A, D, M, E), NEW i \in Server,
         NEW n \in Node, SafeNode(i, n, H, A, D, M, E), NEW n2 \in Node, Downs(n, n2)
  PROVE  SafeNode(i, n2, H, A, D, M, E)
<1>1. /\ n2.log = n.log /\ n2.persisted = n.persisted /\ n2.committed = n.committed
      /\ n2.state \notin {"candidate", "leader"} /\ n2.messages = n.messages
      /\ n.term <= n2.term
  <2>1. n.term \in Nat /\ n2.term \in Nat BY DEF Node
  <2> QED BY <2>1 DEF Downs, StepDown
<1>2. Counts(i, n2, A) /\ Requested(i, n2, M) BY <1>1, PowerlessSafe
<1> QED BY <1>1, <1>2, SameLogSafe

\* Asking for votes, in a term in which the node has not asked before.
LEMMA AsksSafe ==
  ASSUME NEW H, NEW A, NEW D, NEW M, NEW E, World(H, A, D, M, E), NEW i \in Server,
         NEW n \in Node, SafeNode(i, n, H, A, D, M, E), NEW n2 \in Node, Asks(n, n2),
         \A r \in M : r.type = "request_vote" /\ r.from = i => r.term # n2.term
  PROVE  SafeNode(i, n2, H, A, D, M, E)
<1>1. /\ n2.log = n.log /\ n2.persisted = n.persisted /\ n2.committed = n.committed
      /\ n2.state = "candidate" /\ n2.term = n.term + 1
  BY DEF Asks
<1>2. /\ n.term \in Nat /\ n2.term \in Nat /\ n2.messages \in SUBSET Message
      /\ n.messages \in SUBSET Message /\ n.log \in Seq(Entry) /\ n.committed \in Nat
  BY DEF Node
<1>3. n.term <= n2.term /\ n.term < n2.term BY <1>1, <1>2
<1>4. Counts(i, n2, A) BY <1>1, PowerlessSafe
<1>5. Requested(i, n2, M)
  <2> SUFFICES ASSUME NEW r \in M \cup n2.messages, r.type = "request_vote", r.from = i,
                      r.term = n2.term
               PROVE  r.index = Len(n2.log) /\ r.log_term = LastTerm(n2.log)
    BY DEF Requested
  <2>1. r \in n2.messages OBVIOUS
  <2>2. CASE r \in n.messages
    <3>1. r.term <= n.term BY <2>2 DEF SafeNode, Outbox, IsBallot
    <3> QED BY <1>2, <1>3, <3>1
  <2>3. CASE r \notin n.messages
    <3>1. Carries(n, r) BY <2>1, <2>3 DEF Asks
    <3> QED BY <1>1, <3>1 DEF Carries
  <2> QED BY <2>2, <2>3
<1>6. H \in [Nat -> Seq(Entry)] /\ CommittedIn(n.log, n.committed, n.term, H, A)
  BY DEF World, Histories, SafeNode
<1>7. ASSUME NEW m \in n2.messages, m \notin n.messages
      PROVE  CommitOK(m, H, A) /\ ~ IsAck(m) /\ m.term <= n2.term /\ ~ IsGrant(m)
  <2>1. m \in Message /\ m.type = "request_vote" /\ m.term = n2.term /\ Carries(n, m)
    BY <1>2, <1>7 DEF Asks
  <2>2. m.type \in VoteType BY <2>1 DEF VoteType
  <2>3. m.commit = n.committed /\ m.commit_term = TermAt(n.log, n.committed)
    BY <2>1 DEF Carries
  <2>4. n.term <= m.term /\ m.term <= n2.term BY <1>2, <1>3, <2>1
  <2>5. CommitOK(m, H, A) /\ ~ IsAck(m)
    BY <1>2, <1>6, <2>1, <2>2, <2>3, <2>4, TellsCommit
  <2> QED BY <2>1, <2>4, <2>5 DEF IsGrant
<1> QED BY <1>1, <1>3, <1>4, <1>5, <1>7, SameLogSafe

\* Asking for pre-votes.
LEMMA PreAsksSafe ==
  ASSUME NEW H, NEW A, NEW D, NEW M, NEW E, World(H, A, D, M, E), NEW i \in Server,
         NEW n \in Node, SafeNode(i, n, H, A, D, M, E), NEW n2 \in Node, PreAsks(n, n2)
  PROVE  SafeNode(i, n2, H, A, D, M, E)
<1>1. /\ n2.log = n.log /\ n2.persisted = n.persisted /\ n2.committed = n.committed
      /\ n2.state = "pre_candidate" /\ n2.term = n.term /\ PreVote
  BY DEF PreAsks
<1>2. /\ n.term \in Nat /\ n2.messages \in SUBSET Message
      /\ n.log \in Seq(Entry) /\ n.committed \in Nat
  BY DEF Node
<1>3. n.term <= n2.term BY <1>1, <1>2
<1>4. Counts(i, n2, A) /\ Requested(i, n2, M) BY <1>1, PowerlessSafe
<1>5. H \in [Nat -> Seq(Entry)] /\ CommittedIn(n.log, n.committed, n.term, H, A)
  BY DEF World, Histories, SafeNode
<1>6. ASSUME NEW m \in n2.messages, m \notin n.messages
      PROVE  CommitOK(m, H, A) /\ ~ IsAck(m) /\ ~ IsBallot(m)
  <2>1. m \in Message /\ m.type = "request_pre_vote" /\ m.term = n.term + 1 /\ Carries(n, m)
    BY <1>2, <1>6 DEF PreAsks
  <2>2. m.type \in VoteType BY <2>1 DEF VoteType
  <2>3. m.commit = n.committed /\ m.commit_term = TermAt(n.log, n.committed)
    BY <2>1 DEF Carries
  <2>4. n.term <= m.term /\ n.term < m.term BY <1>2, <2>1
  <2>5. CommitOK(m, H, A) /\ ~ IsAck(m)
    BY <1>1, <1>2, <1>5, <2>1, <2>2, <2>3, <2>4, TellsCommit
  <2> QED BY <2>1, <2>5 DEF IsBallot, IsGrant
<1>7. \A m \in n2.messages : m \in n.messages \/ (CommitOK(m, H, A) /\ ~ IsAck(m) /\ ~ IsBallot(m))
  BY <1>6
<1>8. \A m : IsGrant(m) => IsBallot(m) BY DEF IsBallot
<1> QED BY <1>1, <1>3, <1>4, <1>7, <1>8, SameLogSafe

\* Refusing a vote.
LEMMA AnswersSafe ==
  ASSUME NEW H, NEW A, NEW D, NEW M, NEW E, World(H, A, D, M, E), NEW i \in Server,
         NEW n \in Node, SafeNode(i, n, H, A, D, M, E), NEW n2 \in Node, Answers(n, n2)
  PROVE  SafeNode(i, n2, H, A, D, M, E)
<1>1. /\ n2.log = n.log /\ n2.persisted = n.persisted /\ n2.committed = n.committed
      /\ n2.state = n.state /\ n2.term = n.term /\ n2.prs = n.prs
  BY DEF Answers, Rest
<1>2. /\ n.term \in Nat /\ n2.messages \in SUBSET Message
      /\ n.log \in Seq(Entry) /\ n.committed \in Nat
  BY DEF Node
<1>3. n.term <= n2.term BY <1>1, <1>2
<1>4. Counts(i, n2, A) BY <1>1 DEF SafeNode, Counts
<1>5. H \in [Nat -> Seq(Entry)] /\ CommittedIn(n.log, n.committed, n.term, H, A)
  BY DEF World, Histories, SafeNode
<1>6. ASSUME NEW m \in n2.messages, m \notin n.messages
      PROVE  CommitOK(m, H, A) /\ ~ IsAck(m) /\ ~ IsBallot(m)
  <2>1. /\ m \in Message /\ m.reject /\ m.term = n.term
        /\ m.type \in {"request_vote_response", "request_pre_vote_response"}
        /\ m.commit = n.committed /\ m.commit_term = TermAt(n.log, n.committed)
    BY <1>2, <1>6 DEF Answers
  <2>2. m.type \in VoteType /\ m.type # "request_pre_vote" BY <2>1 DEF VoteType
  <2>3. n.term <= m.term BY <1>2, <2>1
  <2>4. CommitOK(m, H, A) /\ ~ IsAck(m)
    BY <1>2, <1>5, <2>1, <2>2, <2>3, TellsCommit
  <2> QED BY <2>1, <2>4 DEF IsBallot, IsGrant
<1>7. \A m \in n2.messages : m \in n.messages \/ (CommitOK(m, H, A) /\ ~ IsAck(m) /\ ~ IsBallot(m))
  BY <1>6
<1>8. \A m : IsGrant(m) => IsBallot(m) BY DEF IsBallot
<1>9. Requested(i, n2, M) BY <1>1, <1>7 DEF SafeNode, Requested, IsBallot
<1> QED BY <1>1, <1>3, <1>4, <1>7, <1>8, <1>9, SameLogSafe

\* A log that has the entry k of term t ends at or after it, and so does one
\* that is as up to date.
LEMMA UpToDateCovers ==
  ASSUME NEW H, NEW E, Histories(H, E), NEW S \in Seq(Entry), FromLeaders(S, H),
         NEW r \in Message, IsUpToDate(S, r.index, r.log_term), NEW t \in Nat, NEW k \in Nat,
         InTerm(t, k, H), Agree(S, H[t], k)
  PROVE  Covers(r, t, k)
<1>1. r.index \in Nat /\ r.log_term \in Nat /\ Len(S) \in Nat BY LenProperties DEF Message
<1>2. k > 0 /\ H[t][k].term = t BY InTermLed
<1>3. H[t] \in Seq(Entry) BY HistoryLogs
<1>4. S[k].term = t /\ k \in 1..Len(S) BY <1>2, <1>3, AgreeAt
<1> DEFINE p == Len(S)
<1>5. p \in 1..Len(S) /\ k \in 1..p /\ k <= p BY <1>1, <1>4
<1>6. S[p].term >= t
  <2>1. \A a \in 1..Len(S) : \A h \in 1..a : S[h].term <= S[a].term BY TermsIncrease
  <2>2. S[k].term <= S[p].term BY <1>5, <2>1
  <2>3. S[p].term \in Nat
    <3>1. S[p] \in Entry BY <1>5, ElementOfSeq
    <3> QED BY <3>1 DEF Entry
  <2> QED BY <1>4, <2>2, <2>3
<1>7. LastTerm(S) = S[p].term BY <1>5 DEF LastTerm, LastIndex, TermAt
<1>8. S[p].term \in Nat
  <2>1. S[p] \in Entry BY <1>5, ElementOfSeq
  <2> QED BY <2>1 DEF Entry
<1>9. CASE r.log_term > LastTerm(S)
  <2>1. r.log_term > t BY <1>1, <1>6, <1>7, <1>8, <1>9
  <2> QED BY <2>1 DEF Covers
<1>10. CASE r.log_term = LastTerm(S) /\ r.index >= Len(S)
  <2>1. r.index >= k BY <1>1, <1>5, <1>10
  <2>2. r.log_term > t \/ r.log_term = t BY <1>1, <1>6, <1>7, <1>8, <1>10
  <2> QED BY <2>1, <2>2 DEF Covers
<1> QED BY <1>9, <1>10 DEF IsUpToDate, LastIndex

\* Granting a vote.
LEMMA GrantsSafe ==
  ASSUME NEW H, NEW A, NEW D, NEW M, NEW E, World(H, A, D, M, E), NEW i \in Server,
         NEW n \in Node, n.id = i, SafeNode(i, n, H, A, D, M, E), FromLeaders(n.log, H),
         NEW n2 \in Node, NEW r \in M, Grants(n, n2, r)
  PROVE  SafeNode(i, n2, H, A, D, M, E)
<1> DEFINE Q == n.messages
<1>1. /\ n2.log = n.log /\ n2.persisted = n.persisted /\ n2.committed = n.committed
      /\ n2.state = n.state /\ n2.term = n.term /\ n2.prs = n.prs
  BY DEF Grants
<1>2. n.term \in Nat /\ n.log \in Seq(Entry) /\ r \in Message /\ Histories(H, E)
  BY DEF Node, World
<1>3. n.term <= n2.term BY <1>1, <1>2
<1>4. Counts(i, n2, A) BY <1>1 DEF SafeNode, Counts
<1>5. ASSUME NEW m \in n2.messages, m \notin Q
      PROVE  /\ CommitOK(m, H, A) /\ ~ IsAck(m) /\ m.term <= n2.term
             /\ m.type # "request_vote"
             /\ IsGrant(m) => m.from = i /\ GrantOK(m, Q, H, A, M, E)
  <2>1. IsGrant(m) /\ m.from = i /\ m.to = r.from /\ m.term = n.term /\ m.commit = 0
    BY <1>5 DEF Grants
  <2>2. CommitOK(m, H, A) /\ ~ IsAck(m) /\ m.type # "request_vote"
    BY <2>1 DEF IsGrant, CommitOK, VoteType, VoteCommitOK, IsAck
  <2>3. r.type = "request_vote" /\ r.term = n.term /\ IsUpToDate(n.log, r.index, r.log_term)
    BY DEF Grants
  <2>4. ASSUME NEW t \in Nat, NEW k \in Nat, InTerm(t, k, H), Claimed(t, i, k, A, Q),
               Kept(t, k, H, E)
        PROVE  Covers(r, t, k)
    <3>1. k > 0 BY <1>2, <2>4, InTermLed
    <3>2. Agree(n.log, H[t], k) BY <2>4, <3>1 DEF SafeNode, KeepsAcked
    <3> QED BY <1>2, <2>3, <2>4, <3>2, UpToDateCovers
  <2>5. GrantOK(m, Q, H, A, M, E) BY <2>1, <2>3, <2>4 DEF GrantOK
  <2> QED BY <1>1, <1>3, <2>1, <2>2, <2>5
<1>6. Requested(i, n2, M) BY <1>1, <1>5 DEF SafeNode, Requested
<1> QED BY <1>1, <1>3, <1>4, <1>5, <1>6, SameLogSafe

\* Counting acknowledgements.
LEMMA MatchesSafe ==
  ASSUME NEW H, NEW A, NEW D, NEW M, NEW E, World(H, A, D, M, E), NEW i \in Server,
         NEW n \in Node, n.id = i, SafeNode(i, n, H, A, D, M, E),
         NEW n2 \in Node, Matches(n, n2, M)
  PROVE  SafeNode(i, n2, H, A, D, M, E)
<1>1. /\ n2.log = n.log /\ n2.persisted = n.persisted /\ n2.committed = n.committed
      /\ n2.state = n.state /\ n2.term = n.term /\ n2.messages = n.messages
      /\ n.state = "leader"
  BY DEF Matches, Rest
<1>2. n.term \in Nat BY DEF Node
<1>3. n.term <= n2.term BY <1>1, <1>2
<1>4. ASSUME NEW s \in Server PROVE Acked(n.term, s, n2.prs[s].matched, A)
  <2>1. CASE n2.prs[s].matched = n.prs[s].matched BY <1>1, <2>1 DEF SafeNode, Counts
  <2>2. CASE \E m \in M : /\ IsAck(m) /\ m.from = s /\ m.term = n.term
                          /\ n2.prs[s].matched = m.index
    <3>1. PICK m \in M : /\ IsAck(m) /\ m.from = s /\ m.term = n.term
                         /\ n2.prs[s].matched = m.index
      BY <2>2
    <3>2. <<n.term, s, m.index>> \in A BY <3>1 DEF World, Traffic
    <3>3. m.index \in Nat BY DEF World, Message
    <3>4. m.index <= m.index BY <3>3
    <3> QED BY <3>1, <3>2, <3>3, <3>4 DEF Acked, HasAck
  <2>3. CASE s = n.id /\ n2.prs[s].matched = n.persisted
    BY <1>1, <2>3 DEF SafeNode, Counts
  <2> QED BY <2>1, <2>2, <2>3 DEF Matches
<1>5. Counts(i, n2, A) BY <1>1, <1>4 DEF SafeNode, Counts
<1>6. Requested(i, n2, M) BY <1>1, PowerlessSafe
<1> QED BY <1>1, <1>3, <1>5, <1>6, SameLogSafe

\* A move that changes the commit index, and nothing else.
LEMMA CommitsSafe ==
  ASSUME NEW H, NEW A, NEW D, NEW M, NEW E, NEW i \in Server,
         NEW n \in Node, SafeNode(i, n, H, A, D, M, E),
         NEW n2 \in Node, NEW k \in Nat, Commits(n, n2, k), CommittedIn(n.log, k, n.term, H, A)
  PROVE  SafeNode(i, n2, H, A, D, M, E)
<1>1. /\ n2.log = n.log /\ n2.persisted = n.persisted /\ n2.committed = k
      /\ n2.state = n.state /\ n2.term = n.term /\ n2.messages = n.messages /\ n2.prs = n.prs
  BY DEF Commits, Rest
<1>2. KeepsAcked(i, n2, H, A, E) BY <1>1 DEF SafeNode, KeepsAcked
<1>3. Counts(i, n2, A) /\ Requested(i, n2, M) BY <1>1 DEF SafeNode, Counts, Requested
<1>4. Outbox(i, n2, H, A, D, M, E) BY <1>1 DEF SafeNode, Outbox
<1> QED BY <1>1, <1>2, <1>3, <1>4 DEF SafeNode

\* What a leader may commit is chosen.
LEMMA CanCommitChosen ==
  ASSUME NEW H, NEW E, Histories(H, E), NEW A, NEW i \in Server, NEW n \in Node,
         n.state = "leader", n.log = H[n.term], Counts(i, n, A), NEW k \in 1..Len(n.log),
         CanCommit(n, k)
  PROVE  Chosen(n.term, k, H, A)
<1> DEFINE match == [s \in Server |-> n.prs[s].matched]
           S == AckedBy(Incoming \cup Outgoing, match, k)
<1>1. n.term \in Nat /\ n.log \in Seq(Entry) /\ \A s \in Server : n.prs[s].matched \in Nat
  BY DEF Node, Progress
<1>2. Len(n.log) \in Nat BY <1>1, LenProperties
<1>3. k \in Nat /\ k > 0 BY <1>2
<1>4. InTerm(n.term, k, H) BY DEF CanCommit, TermAt, InTerm
<1>5. IsQuorum(Incoming, Outgoing, S) BY DEF CanCommit, IsQuorumIndex
<1>6. ASSUME NEW s \in S PROVE s \in Holders(n.term, k, A)
  <2>1. s \in Server BY RaftAssumption DEF AckedBy
  <2>2. n.prs[s].matched >= k BY <2>1 DEF AckedBy
  <2>3. n.prs[s].matched \in Nat BY <1>1, <2>1
  <2>4. HasAck(n.term, s, n.prs[s].matched, A)
    <3>1. n.prs[s].matched # 0 BY <1>3, <2>2, <2>3
    <3> QED BY <2>1, <3>1 DEF Counts, Acked
  <2>5. k <= n.prs[s].matched BY <1>3, <2>2, <2>3
  <2>6. HasAck(n.term, s, k, A) BY <1>3, <2>3, <2>4, <2>5, AckedLess
  <2> QED BY <2>1, <2>6 DEF Holders
<1> HIDE DEF S
<1>7. IsQuorum(Incoming, Outgoing, Holders(n.term, k, A))
  BY <1>5, <1>6, VotersFinite, QuorumMonotone
<1> QED BY <1>4, <1>7 DEF Chosen

\* Learning a commit index, by counting or from a message.
LEMMA LearnsSafe ==
  ASSUME NEW H, NEW A, NEW D, NEW M, NEW E, World(H, A, D, M, E), NEW i \in Server,
         NEW n \in Node, n.id = i, SafeNode(i, n, H, A, D, M, E), LogKnown(n, H),
         PreVote => CommitsCovered, NEW n2 \in Node, Learns(n, n2, M)
  PROVE  SafeNode(i, n2, H, A, D, M, E)
<1>1. /\ n.term \in Nat /\ n.log \in Seq(Entry) /\ n.committed \in Nat
      /\ H \in [Nat -> Seq(Entry)] /\ Histories(H, E) /\ Decisive(H, A, D, E)
      /\ FromLeaders(n.log, H)
  BY DEF Node, World, Histories, LogKnown
<1>2. Len(n.log) \in Nat BY <1>1, LenProperties
<1>3. PICK k \in Nat : /\ Commits(n, n2, k) /\ n.committed < k /\ k <= Len(n.log)
                       /\ \/ n.state = "leader" /\ CanCommit(n, k)
                          \/ \E m \in M : Informs(n, m, k)
  BY DEF Learns
<1>4. k > 0 /\ k \in 1..Len(n.log)
  <2>1. n.committed \in Nat /\ n.committed < k /\ k <= Len(n.log) BY <1>1, <1>3
  <2> QED BY <1>2, <2>1
<1>5. CASE n.state = "leader" /\ CanCommit(n, k)
  <2>1. n.log = H[n.term] BY <1>5 DEF LogKnown
  <2>2. Chosen(n.term, k, H, A) BY <1>1, <1>4, <1>5, <2>1, CanCommitChosen DEF SafeNode
  <2>3. Agree(n.log, H[n.term], k) BY <1>2, <1>3, <2>1 DEF Agree
  <2>4. n.term <= n.term /\ k <= k BY <1>1
  <2>5. CommittedIn(n.log, k, n.term, H, A) BY <1>1, <2>2, <2>3, <2>4 DEF CommittedIn
  <2> QED BY <1>3, <2>5, CommitsSafe
<1>6. ASSUME NEW m \in M, Informs(n, m, k) PROVE CommittedIn(n.log, k, n.term, H, A)
  <2>1. CommitOK(m, H, A) /\ m \in Message BY DEF World, Traffic
  <2>2. m.commit = k /\ m.commit_term \in Nat /\ m.term \in Nat
    BY <1>6, <2>1 DEF Informs, Message
  <2>3. CASE m.type = "heartbeat" /\ m.term = n.term /\ m.to = n.id
    <3>1. CommittedIn(H[n.term], k, n.term, H, A) /\ Acked(n.term, i, k, A)
      BY <2>1, <2>2, <2>3 DEF CommitOK
    <3>2. Kept(n.term, k, H, E) BY <1>1, <3>1, CommittedIsKept
    <3>3. Claimed(n.term, i, k, A, n.messages) BY <1>4, <3>1 DEF Acked, Claimed
    <3>4. Agree(n.log, H[n.term], k)
      <4>1. KeepsAcked(i, n, H, A, E) BY DEF SafeNode
      <4> QED BY <1>1, <1>4, <3>2, <3>3, <4>1 DEF KeepsAcked
    <3>5. H[n.term] \in Seq(Entry) /\ k <= k /\ n.term <= n.term
      <4>1. H[n.term] \in Seq(Entry) BY <1>1
      <4>2. n.term \in Nat BY <1>1
      <4>3. \A a \in Nat : a <= a OBVIOUS
      <4> QED BY <4>1, <4>2, <4>3
    <3> QED BY <1>1, <3>1, <3>4, <3>5, CommittedLess
  <2>4. CASE /\ m.commit_term > 0 /\ MatchTerm(n.log, k, m.commit_term)
             /\ \/ m.type = "request_pre_vote" /\ (CommitsCovered => m.term <= n.term + 1)
                \/ m.type = "request_pre_vote_response" /\ ~ m.reject
                \/ /\ m.type \in {"request_vote", "request_vote_response",
                                  "request_pre_vote_response"}
                   /\ m.term <= n.term
    <3>1. m.type \in VoteType BY <2>4 DEF VoteType
    <3>2. VoteCommitOK(m, H, A) BY <2>1, <3>1 DEF CommitOK
    <3>3. PICK u \in Nat, j \in Nat :
             /\ u <= m.term /\ (m.type = "request_pre_vote" => u < m.term)
             /\ k <= j /\ Chosen(u, j, H, A) /\ TermAt(H[u], k) = m.commit_term
      BY <1>4, <2>2, <2>4, <3>2 DEF VoteCommitOK
    <3>4. u <= n.term
      <4>1. CASE m.type = "request_pre_vote"
        <5>1. m.term <= n.term + 1 BY <2>1, <2>4, <4>1 DEF CommitOK
        <5>2. u < m.term BY <3>3, <4>1
        <5> QED BY <1>1, <2>2, <5>1, <5>2, LeTransitive
      <4>2. CASE m.type # "request_pre_vote"
        <5>1. ~ (m.type = "request_pre_vote_response" /\ ~ m.reject)
          BY <1>4, <2>2, <2>4, <3>2 DEF VoteCommitOK
        <5>2. m.term <= n.term BY <2>4, <4>2, <5>1
        <5> QED BY <1>1, <2>2, <3>3, <5>2, LeTransitive
      <4> QED BY <4>1, <4>2
    <3>5. k \in 1..Len(H[u]) /\ H[u][k].term = m.commit_term
      BY <2>4, <3>3, TermAtIn
    <3>6. n.log[k].term = m.commit_term BY <1>4, <2>4 DEF MatchTerm, TermAt
    <3>7. FromLeaders(H[u], H) BY <1>1, HistoryLogs
    <3>8. Agree(n.log, H[u], k) BY <1>1, <1>4, <3>5, <3>6, <3>7, TermsMatch
    <3> QED BY <3>3, <3>4, <3>8 DEF CommittedIn
  <2> QED BY <1>6, <2>3, <2>4 DEF Informs
<1> QED BY <1>3, <1>5, <1>6, CommitsSafe

\* Acknowledgements in the node's own term, of entries it has.
LEMMA NewAcksSafe ==
  ASSUME NEW H, NEW A, NEW D, NEW M, NEW E, World(H, A, D, M, E), NEW i \in Server,
         NEW n \in Node, n.id = i, D[i].term <= n.term, Led(n.term, E),
         Outbox(i, n, H, A, D, M, E), NEW n2 \in Node, n2.term = n.term,
         NEW last \in Nat, last <= Len(H[n.term]),
         \A m \in n2.messages : m \in n.messages \/ AckOf(n, m, last)
  PROVE  /\ Outbox(i, n2, H, A, D, M, E)
         /\ \A t, k \in Nat : Claimed(t, i, k, A, n2.messages) =>
              Claimed(t, i, k, A, n.messages) \/ (t = n.term /\ k <= last)
<1> DEFINE Q == n.messages
           Q2 == n2.messages
<1>1. n.term \in Nat /\ Q \in SUBSET Message /\ Q2 \in SUBSET Message BY DEF Node
<1>2. \A t, k \in Nat : Claimed(t, i, k, A, Q2) =>
        Claimed(t, i, k, A, Q) \/ (t = n.term /\ k <= last)
  BY DEF Claimed, AckOf
<1> HIDE DEF Q, Q2
<1>3. ASSUME NEW m \in Q2
      PROVE  /\ CommitOK(m, H, A)
             /\ IsAck(m) => /\ m.from = i /\ D[i].term <= m.term /\ m.term <= n2.term
                            /\ Led(m.term, E) /\ m.index <= Len(H[m.term])
             /\ IsBallot(m) => m.term <= n2.term
             /\ IsGrant(m) => m.from = i /\ GrantOK(m, Q2, H, A, M, E)
  <2>1. CASE m \in Q
    <3>1. ASSUME IsGrant(m) PROVE GrantOK(m, Q2, H, A, M, E)
      <4>1. m.from = i /\ GrantOK(m, Q, H, A, M, E) /\ m.term <= n.term
        BY <2>1, <3>1 DEF Outbox, Q, IsBallot
      <4>2. m.term \in Nat BY <1>1, <2>1 DEF Message
      <4>3. \A t \in Nat : t < m.term => t # n.term BY <1>1, <4>1, <4>2
      <4> QED BY <1>2, <4>1, <4>3, GrantSameAcks
    <3> QED BY <2>1, <3>1 DEF Outbox, Q
  <2>2. CASE m \notin Q
    <3>1. AckOf(n, m, last) BY <2>2 DEF Q, Q2
    <3>2. m.type = "append_response" /\ m.from = i /\ m.term = n.term /\ m.index = last
      BY <3>1 DEF AckOf
    <3>3. m.term <= n2.term BY <1>1, <3>2
    <3> QED BY <3>2, <3>3 DEF CommitOK, VoteType, IsBallot, IsGrant
  <2> QED BY <2>1, <2>2
<1>4. Outbox(i, n2, H, A, D, M, E) BY <1>3 DEF Outbox, Q2
<1> QED BY <1>2, <1>4 DEF Q, Q2

\* Acknowledging the commit index.
LEMMA RepeatsSafe ==
  ASSUME NEW H, NEW A, NEW D, NEW M, NEW E, World(H, A, D, M, E), NEW i \in Server,
         NEW n \in Node, n.id = i, SafeNode(i, n, H, A, D, M, E), D[i].term <= n.term,
         \A m \in M : AppendOK(m, H, E), NEW n2 \in Node, Repeats(n, n2, M)
  PROVE  SafeNode(i, n2, H, A, D, M, E)
<1> DEFINE t == n.term
           c == n.committed
<1>1. /\ n2.log = n.log /\ n2.persisted = n.persisted /\ n2.committed = n.committed
      /\ n2.state = n.state /\ n2.term = n.term /\ n2.prs = n.prs /\ n.state # "leader"
  BY DEF Repeats, Rest
<1>2. /\ t \in Nat /\ c \in Nat /\ n.log \in Seq(Entry) /\ Histories(H, E)
      /\ Decisive(H, A, D, E)
  BY DEF Node, World
<1>3. Led(t, E) BY DEF Repeats, AppendOK
<1>4. H[t] \in Seq(Entry) BY <1>2, HistoryLogs
<1>5. Agree(n.log, H[t], c)
  <2>1. t <= t BY <1>2
  <2> QED BY <1>2, <1>3, <2>1, CommittedInLeader DEF SafeNode
<1>6. c <= Len(H[t]) BY <1>5 DEF Agree
<1>7. \A m \in n2.messages : m \in n.messages \/ AckOf(n, m, c) BY DEF Repeats
<1> HIDE DEF t, c
<1>8. /\ Outbox(i, n2, H, A, D, M, E)
      /\ \A u, k \in Nat : Claimed(u, i, k, A, n2.messages) =>
              Claimed(u, i, k, A, n.messages) \/ (u = t /\ k <= c)
  BY <1>1, <1>2, <1>3, <1>6, <1>7, NewAcksSafe DEF SafeNode, t
<1>9. KeepsAcked(i, n2, H, A, E)
  <2> SUFFICES ASSUME NEW u \in Nat, NEW k \in Nat, k > 0, Claimed(u, i, k, A, n2.messages),
                      Kept(u, k, H, E)
               PROVE  Agree(n.log, H[u], k) /\ (HasAck(u, i, k, A) => k <= n.persisted)
    BY <1>1 DEF KeepsAcked
  <2>1. CASE Claimed(u, i, k, A, n.messages) BY <2>1 DEF SafeNode, KeepsAcked
  <2>2. CASE ~ Claimed(u, i, k, A, n.messages)
    <3>1. u = t /\ k <= c BY <1>8, <2>2
    <3>2. Agree(n.log, H[t], k) BY <1>2, <1>4, <1>5, <3>1, AgreeLess
    <3>3. ~ HasAck(u, i, k, A) BY <2>2 DEF Claimed
    <3> QED BY <3>1, <3>2, <3>3
  <2> QED BY <2>1, <2>2
<1>10. \A r \in n2.messages : r.type = "request_vote" => r \in n.messages
  BY <1>7 DEF AckOf
<1>11. Counts(i, n2, A) /\ Requested(i, n2, M)
  BY <1>1, <1>10 DEF SafeNode, Counts, Requested
<1> QED BY <1>1, <1>8, <1>9, <1>11 DEF SafeNode

\* A log that agrees with L exactly up to keep has nothing more in common.
LEMMA CommonPart ==
  ASSUME NEW S \in Seq(Entry), NEW L \in Seq(Entry), NEW keep \in Nat,
         keep < Len(S) => S[keep + 1].term # L[keep + 1].term,
         NEW k \in Nat, Agree(S, L, k)
  PROVE  k <= keep
<1> SUFFICES ASSUME k > keep PROVE FALSE OBVIOUS
<1>1. Len(S) \in Nat BY LenProperties
<1>2. k <= Len(S) BY DEF Agree
<1>3. keep < Len(S) /\ keep + 1 \in 1..k BY <1>1, <1>2
<1>4. S[keep + 1] = L[keep + 1] BY <1>3 DEF Agree
<1> QED BY <1>3, <1>4

\* Accepting a piece of L keeps what the log had in common with L, also on disk.
LEMMA TakesSliceKeeps ==
  ASSUME NEW n \in Node, n.persisted <= Len(n.log), NEW a \in Node, NEW m \in Message,
         NEW L \in Seq(Entry), TakesSlice(n, a, m, L)
  PROVE  /\ \A k \in Nat : Agree(n.log, L, k) =>
              Agree(a.log, n.log, k) /\ (k <= n.persisted => k <= a.persisted)
         /\ Agree(a.log, L, m.index + Len(m.entries)) /\ Agree(n.log, L, m.index)
         /\ Agree(a.log, n.log, a.persisted) /\ a.persisted <= n.persisted
<1> DEFINE last == m.index + Len(m.entries)
<1>1. /\ n.log \in Seq(Entry) /\ a.log \in Seq(Entry) /\ n.persisted \in Nat
      /\ a.persisted \in Nat /\ m.index \in Nat /\ m.entries \in Seq(Entry)
  BY DEF Node, Message
<1>2. Len(n.log) \in Nat /\ Len(m.entries) \in Nat BY <1>1, LenProperties
<1>3. last \in Nat /\ m.index <= last BY <1>1, <1>2
<1>4. CASE a = n /\ Agree(n.log, L, last)
  <2>1. \A k \in Nat : Agree(n.log, L, k) => Agree(n.log, n.log, k) BY DEF Agree
  <2>2. Agree(n.log, L, m.index) BY <1>1, <1>3, <1>4, AgreeLess
  <2>3. Agree(n.log, n.log, n.persisted) /\ n.persisted <= n.persisted BY <1>1 DEF Agree
  <2> QED BY <1>4, <2>1, <2>2, <2>3
<1>5. CASE ~ (a = n /\ Agree(n.log, L, last))
  <2> HIDE DEF last
  <2>1. Agree(a.log, L, last) BY <1>5 DEF TakesSlice, last
  <2>2. PICK keep \in Nat :
          /\ m.index <= keep /\ keep < last /\ keep <= Len(n.log) /\ Agree(n.log, L, keep)
          /\ a.persisted = MinOf(n.persisted, keep)
          /\ keep < Len(n.log) => n.log[keep + 1].term # L[keep + 1].term
    BY <1>5 DEF TakesSlice, last
  <2>3. keep <= last BY <1>3, <2>2
  <2>4. Agree(a.log, L, keep) BY <1>1, <1>3, <2>1, <2>3, AgreeLess
  <2>5. Agree(a.log, n.log, keep) BY <2>2, <2>4, AgreeRules
  <2>6. /\ a.persisted <= n.persisted /\ a.persisted <= keep
        /\ \A k \in Nat : k <= n.persisted /\ k <= keep => k <= a.persisted
    BY <1>1, <2>2 DEF MinOf
  <2>7. Agree(a.log, n.log, a.persisted) BY <1>1, <2>5, <2>6, AgreeLess
  <2>8. Agree(n.log, L, m.index) BY <1>1, <2>2, AgreeLess
  <2>9. ASSUME NEW k \in Nat, Agree(n.log, L, k)
        PROVE  Agree(a.log, n.log, k) /\ (k <= n.persisted => k <= a.persisted)
    <3>1. k <= keep BY <1>1, <2>2, <2>9, CommonPart
    <3>2. Agree(a.log, n.log, k) BY <1>1, <2>5, <3>1, AgreeLess
    <3> QED BY <2>6, <3>1, <3>2
  <2> QED BY <2>1, <2>6, <2>7, <2>8, <2>9 DEF last
<1> QED BY <1>4, <1>5

\* Accepting entries: what was acknowledged and kept is in the leader's log,
\* so it is not replaced.
LEMMA AcceptsSafe ==
  ASSUME NEW H, NEW A, NEW D, NEW M, NEW E, World(H, A, D, M, E), NEW i \in Server,
         NEW n \in Node, n.id = i, n.persisted <= Len(n.log), SafeNode(i, n, H, A, D, M, E),
         FromLeaders(n.log, H), D[i].term \in Nat, D[i].log \in Seq(Entry),
         D[i].term <= n.term,
         NEW m \in M, AppendOK(m, H, E), NEW n2 \in Node, Accepts(n, n2, m)
  PROVE  SafeNode(i, n2, H, A, D, M, E)
<1> DEFINE t == n.term
           L == H[t]
           a == LogAppend(n, m)
           last == m.index + Len(m.entries)
<1>1. /\ t \in Nat /\ n.committed \in Nat /\ n.log \in Seq(Entry) /\ n.persisted \in Nat
      /\ n2.log \in Seq(Entry) /\ n2.persisted \in Nat /\ n2.committed \in Nat
      /\ n.messages \in SUBSET Message
      /\ Histories(H, E) /\ Decisive(H, A, D, E) /\ Acks(H, A, D, E)
      /\ m \in Message /\ m.index \in Nat /\ m.commit \in Nat /\ m.entries \in Seq(Entry)
  BY DEF Node, World, Message
<1>2. /\ L \in Seq(Entry) /\ FromLeaders(L, H) /\ H \in [Nat -> Seq(Entry)]
      /\ Len(m.entries) \in Nat /\ last \in Nat
  <2>1. L \in Seq(Entry) /\ FromLeaders(L, H) BY <1>1, HistoryLogs
  <2>2. Len(m.entries) \in Nat BY <1>1, LenProperties
  <2>3. last \in Nat BY <1>1, <2>2
  <2> QED BY <1>1, <2>1, <2>2, <2>3 DEF Histories
<1>3. /\ m.type = "append" /\ m.term = t /\ n.committed <= m.index
      /\ MatchTerm(n.log, m.index, m.log_term)
      /\ n2.log = a.log /\ n2.persisted = a.persisted
      /\ n2.term = t /\ n2.state = n.state /\ n2.prs = n.prs /\ n.state = "follower"
      /\ \A r \in n2.messages : r \in n.messages \/ AckOf(n, r, last)
  BY DEF Accepts
<1>4. Led(t, E) /\ IsSlice(m, L) BY <1>3 DEF AppendOK
<1> HIDE DEF t, L, a, last
<1>5. TakesSlice(n, a, m, L) BY <1>1, <1>2, <1>3, <1>4, LogAppendTakes DEF a
<1>6. a \in Node
  <2>1. a = n \/ a = [n EXCEPT !.log = a.log, !.persisted = a.persisted]
    BY DEF a, LogAppend, Node
  <2>2. [n EXCEPT !.log = n2.log, !.persisted = n2.persisted] \in Node BY <1>1 DEF Node
  <2> QED BY <1>3, <2>1, <2>2
<1>7. /\ \A k \in Nat : Agree(n.log, L, k) =>
           Agree(n2.log, n.log, k) /\ (k <= n.persisted => k <= n2.persisted)
      /\ Agree(n2.log, L, last) /\ Agree(n.log, L, m.index)
      /\ Agree(n2.log, n.log, n2.persisted) /\ n2.persisted <= n.persisted
  BY <1>1, <1>2, <1>3, <1>5, <1>6, TakesSliceKeeps DEF last
<1>8. Agree(n2.log, D[i].log, n2.persisted)
  <2>1. Agree(n.log, D[i].log, n.persisted) BY DEF SafeNode
  <2>2. Agree(n.log, D[i].log, n2.persisted) BY <1>1, <1>7, <2>1, AgreeLess
  <2> QED BY <1>7, <2>2, AgreeRules
<1>9. last <= Len(L) BY <1>7 DEF Agree
<1>10. /\ Outbox(i, n2, H, A, D, M, E)
       /\ \A u, k \in Nat : Claimed(u, i, k, A, n2.messages) =>
               Claimed(u, i, k, A, n.messages) \/ (u = t /\ k <= last)
  BY <1>1, <1>2, <1>3, <1>4, <1>9, NewAcksSafe DEF SafeNode, t, L
<1>11. KeepsAcked(i, n2, H, A, E)
  <2> SUFFICES ASSUME NEW u \in Nat, NEW k \in Nat, k > 0, Claimed(u, i, k, A, n2.messages),
                      Kept(u, k, H, E)
               PROVE  Agree(n2.log, H[u], k) /\ (HasAck(u, i, k, A) => k <= n2.persisted)
    BY DEF KeepsAcked
  <2>1. CASE Claimed(u, i, k, A, n.messages)
    <3>1. Agree(n.log, H[u], k) /\ (HasAck(u, i, k, A) => k <= n.persisted)
      BY <2>1 DEF SafeNode, KeepsAcked
    <3>2. u <= t
      <4>1. Outbox(i, n, H, A, D, M, E) BY DEF SafeNode
      <4>2. \A q \in n.messages : IsAck(q) => Led(q.term, E) /\ q.index <= Len(H[q.term])
        BY <4>1 DEF Outbox
      <4>3. D[i].term >= u \/ \E q \in n.messages : IsAck(q) /\ q.term = u
        <5>1. n.messages \in SUBSET Message /\ Histories(H, E) /\ Acks(H, A, D, E) BY <1>1
        <5> QED BY <2>1, <4>2, <5>1, ClaimedLed
      <4>4. CASE D[i].term >= u BY <1>1, <4>4 DEF t
      <4>5. CASE \E q \in n.messages : IsAck(q) /\ q.term = u BY <4>1, <4>5 DEF Outbox, t
      <4> QED BY <4>3, <4>4, <4>5
    <3>3. Agree(L, H[u], k)
      <4>1. CASE u = t
        <5>1. H[u] = L BY <4>1 DEF L
        <5> QED BY <3>1, <5>1 DEF Agree
      <4>2. CASE u # t BY <1>1, <1>4, <3>2, <4>2 DEF Kept, L
      <4> QED BY <4>1, <4>2
    <3>4. Agree(n.log, L, k) BY <3>1, <3>3, AgreeRules
    <3>5. Agree(n2.log, n.log, k) /\ (k <= n.persisted => k <= n2.persisted) BY <1>7, <3>4
    <3> QED BY <3>1, <3>5, AgreeRules
  <2>2. CASE ~ Claimed(u, i, k, A, n.messages)
    <3>1. u = t /\ k <= last BY <1>10, <2>2
    <3>2. Agree(n2.log, L, k) BY <1>1, <1>2, <1>7, <3>1, AgreeLess
    <3>3. ~ HasAck(u, i, k, A) BY <2>2 DEF Claimed
    <3> QED BY <3>1, <3>2, <3>3 DEF L
  <2> QED BY <2>1, <2>2
<1>12. CommittedIn(n2.log, n2.committed, n2.term, H, A)
  <2>1. t <= t BY <1>1
  <2>2. CASE n2.committed = n.committed
    <3>1. Agree(n.log, L, n.committed) BY <1>1, <1>2, <1>3, <1>7, AgreeLess
    <3>2. Agree(n2.log, n.log, n.committed) BY <1>1, <1>7, <3>1
    <3>3. n.committed <= n.committed BY <1>1
    <3>4. CommittedIn(n.log, n.committed, t, H, A) BY DEF SafeNode, t
    <3>5. CommittedIn(n2.log, n.committed, t, H, A)
      BY <1>1, <1>2, <2>1, <3>2, <3>3, <3>4, CommittedLess
    <3> QED BY <1>3, <2>2, <3>5
  <2>3. CASE n2.committed <= m.commit /\ n2.committed <= last
    <3>1. CommittedIn(L, m.commit, t, H, A)
      <4>1. CommitOK(m, H, A) BY DEF World, Traffic
      <4> QED BY <1>3, <4>1 DEF CommitOK, L
    <3>2. Agree(n2.log, L, n2.committed) BY <1>1, <1>2, <1>7, <2>3, AgreeLess
    <3>3. CommittedIn(n2.log, n2.committed, t, H, A)
      BY <1>1, <1>2, <2>1, <2>3, <3>1, <3>2, CommittedLess
    <3> QED BY <1>3, <3>3
  <2> QED BY <2>2, <2>3 DEF Accepts, last
<1>13. Counts(i, n2, A) /\ Requested(i, n2, M) BY <1>3, PowerlessSafe
<1> QED BY <1>8, <1>10, <1>11, <1>12, <1>13 DEF SafeNode

\* Every move keeps a node safe.
LEMMA MoveKeepsSafe ==
  ASSUME Many, HardInv, VotesAgree, NEW i \in Server, NEW n, NEW n2, NEW H, NEW A,
         World(H, A, disk, msgs, elected), \A m \in msgs : AppendOK(m, H, elected),
         PreVote => CommitsCovered, Orderly(i, n, H),
         SafeNode(i, n, H, A, disk, msgs, elected), Move(i, disk[i].commit, n, n2, msgs)
  PROVE  SafeNode(i, n2, H, A, disk, msgs, elected)
<1> DEFINE D == disk
           M == msgs
           E == elected
<1>1. TypeInv BY DEF HardInv
<1>2. NodeOK(i, n, D[i].commit) /\ NodeOK(i, n2, D[i].commit) BY DEF Move, Orderly
<1>3. /\ n \in Node /\ n2 \in Node /\ n.term \in Nat /\ n2.term \in Nat /\ n.id = i
      /\ n.persisted <= Len(n.log)
  BY <1>2 DEF NodeOK, Node
<1>4. D[i].term \in Nat /\ D[i].log \in Seq(Entry) /\ node[i].term \in Nat
  BY <1>1 DEF TypeInv, TypeOK, Node, Disk
<1>5. D[i].term <= n.term
  <2>1. D[i].term <= node[i].term BY <1>4 DEF HardInv, Behind
  <2> QED BY <1>3, <1>4, <2>1 DEF Orderly
<1>6. LogKnown(n, H) /\ FromLeaders(n.log, H) BY DEF Orderly, NodeLogs, LogKnown
<1>7. World(H, A, D, M, E) /\ SafeNode(i, n, H, A, D, M, E) OBVIOUS
<1> SUFFICES SafeNode(i, n2, H, A, D, M, E) OBVIOUS
<1>8. CASE Asks(n, n2)
  <2>1. n2.term > node[i].term BY <1>3, <1>4, <1>8 DEF Asks, Orderly
  <2>2. \A r \in M : r.type = "request_vote" /\ r.from = i => r.term # n2.term
    <3>1. NodeVotes(i, node[i], msgs) BY DEF VotesAgree
    <3>2. Bound(i, node[i].term, node[i].vote, msgs) BY <3>1 DEF NodeVotes, Bound
    <3>3. \A r \in M : IsBallot(r) /\ r.from = i => r.term # n2.term
      BY <1>3, <1>4, <2>1, <3>2 DEF Bound
    <3> QED BY <3>3 DEF IsBallot
  <2> QED BY <1>3, <1>7, <1>8, <2>2, AsksSafe
<1>9. \A m \in M : AppendOK(m, H, E) OBVIOUS
<1> HIDE DEF D, M, E
<1>10. CASE Sends(n, n2) BY <1>3, <1>6, <1>7, <1>10, SendsSafe
<1>11. CASE Downs(n, n2) BY <1>3, <1>7, <1>11, DownsSafe
<1>12. CASE PreAsks(n, n2) BY <1>3, <1>7, <1>12, PreAsksSafe
<1>13. CASE \E r \in M : Grants(n, n2, r) BY <1>3, <1>6, <1>7, <1>13, GrantsSafe
<1>14. CASE Answers(n, n2) BY <1>3, <1>7, <1>14, AnswersSafe
<1>15. CASE Learns(n, n2, M) BY <1>3, <1>6, <1>7, <1>15, LearnsSafe
<1>16. CASE Repeats(n, n2, M) BY <1>3, <1>5, <1>7, <1>9, <1>16, RepeatsSafe
<1>17. CASE \E m \in M : Accepts(n, n2, m)
  BY <1>3, <1>4, <1>5, <1>6, <1>7, <1>9, <1>17, AcceptsSafe
<1>18. CASE Matches(n, n2, M) BY <1>3, <1>7, <1>18, MatchesSafe
<1>19. \/ Sends(n, n2) \/ Downs(n, n2) \/ Asks(n, n2) \/ PreAsks(n, n2)
       \/ (\E r \in M : Grants(n, n2, r)) \/ Answers(n, n2) \/ Learns(n, n2, M)
       \/ Repeats(n, n2, M) \/ (\E m \in M : Accepts(n, n2, m)) \/ Matches(n, n2, M)
  BY DEF Move, M
<1> QED BY <1>8, <1>10, <1>11, <1>12, <1>13, <1>14, <1>15, <1>16, <1>17, <1>18, <1>19 DEF D, M, E

-----------------------------------------------------------------------------
(***************************************************************************)
(* New leaders and new entries.                                            *)
(***************************************************************************)
\* The votes that elect a candidate are on disk.
LEMMA VotersOnDisk ==
  ASSUME Many, TypeInv, VotesAgree, NEW i \in Server, NEW t \in Nat, NEW Y \in SUBSET Server,
         IsQuorum(Incoming, Outgoing, Y), \A s \in Y : s = i \/ HasGrant(s, i, t, msgs)
  PROVE  disk[i].term >= t /\ \A s \in Y : disk[s].term >= t
<1>1. PICK r \in Y : r # i
  <2> SUFFICES ASSUME Y \subseteq {i} PROVE FALSE OBVIOUS
  <2>1. IsQuorum(Incoming, Outgoing, {i}) BY VotersFinite, QuorumMonotone
  <2> QED BY <2>1, OneIsNoQuorum DEF Many
<1>2. HasRequest(i, t, msgs) BY <1>1 DEF HasGrant, VotesAgree, GrantsAsked
<1>3. ASSUME NEW s \in Server, NEW m \in msgs, IsBallot(m), m.from = s, m.term = t
      PROVE  disk[s].term >= t
  <2>1. Bound(s, disk[s].term, disk[s].vote, msgs) BY DEF VotesAgree
  <2>2. disk[s].term \in Nat BY DEF TypeInv, TypeOK, Disk
  <2> QED BY <1>3, <2>1, <2>2 DEF Bound
<1>4. disk[i].term >= t BY <1>2, <1>3 DEF HasRequest, IsBallot
<1>5. ASSUME NEW s \in Y, s # i PROVE disk[s].term >= t
  <2>1. PICK g \in msgs : IsGrant(g) /\ g.from = s /\ g.term = t BY <1>5 DEF HasGrant
  <2> QED BY <1>3, <2>1 DEF IsBallot
<1> QED BY <1>4, <1>5

\* What is choosable though nobody acknowledged it has no later leader yet.
LEMMA NobodyLater ==
  ASSUME TypeInv, VotesAgree, NEW t \in Nat, NEW k, NEW H, NEW A,
         Choosable(t, k, H, A, disk), \A s \in Server : ~ HasAck(t, s, k, A),
         NEW v \in Nat, v > t
  PROVE  ~ Led(v, elected)
<1> SUFFICES ASSUME Led(v, elected) PROVE FALSE OBVIOUS
<1> DEFINE T == Holders(t, k, A) \cup {s \in Server : disk[s].term <= t}
<1>1. PICK Q \in SUBSET Server : /\ IsQuorum(Incoming, Outgoing, Q)
                                 /\ \A s \in Q : disk[s].term >= v
  BY ElectedOnDisk
<1>2. IsQuorum(Incoming, Outgoing, T) BY DEF Choosable
<1>3. PICK s \in T : s \in Q BY <1>1, <1>2, VotersFinite, QuorumsMeet
<1>4. disk[s].term <= t /\ s \in Server BY <1>3 DEF Holders
<1>5. disk[s].term \in Nat BY <1>4 DEF TypeInv, TypeOK, Disk
<1> QED BY <1>1, <1>3, <1>4, <1>5

\* A candidate whose log covers what was kept has it.
LEMMA CoveredIsThere ==
  ASSUME NEW H, NEW E, Histories(H, E), NEW S \in Seq(Entry), FromLeaders(S, H), NEW r,
         r.index = Len(S), r.log_term = LastTerm(S), NEW t \in Nat, NEW k \in Nat,
         InTerm(t, k, H), Kept(t, k, H, E), Covers(r, t, k)
  PROVE  Agree(S, H[t], k)
<1> DEFINE p == Len(S)
           w == LastTerm(S)
<1>1. p \in Nat BY LenProperties
<1>2. k > 0 /\ k <= Len(H[t]) BY InTermLed
<1>3. w > t \/ (w = t /\ p >= k) BY DEF Covers
<1>4. w \in Nat BY <1>1, TermAtNat DEF LastTerm, LastIndex
<1>5. p # 0
  <2> SUFFICES ASSUME p = 0 PROVE FALSE OBVIOUS
  <2>1. p \notin 1..Len(S) OBVIOUS
  <2>2. w = 0 BY <2>1 DEF LastTerm, LastIndex, TermAt
  <2> QED BY <1>2, <1>3, <2>2
<1>6. p \in 1..Len(S) BY <1>1, <1>5
<1>7. w = S[p].term BY <1>6 DEF LastTerm, LastIndex, TermAt
<1>8. Agree(S, H[w], p) /\ Led(w, E) BY <1>6, <1>7, TermsIncrease DEF FromLeaders
<1>9. H[w] \in Seq(Entry) /\ H[t] \in Seq(Entry) BY <1>4, HistoryLogs
<1> HIDE DEF p, w
<1>10. CASE w = t /\ p >= k
  <2>1. k <= p BY <1>1, <1>10
  <2> QED BY <1>1, <1>8, <1>9, <1>10, <2>1, AgreeLess
<1>11. CASE w > t
  <2>1. Agree(H[w], H[t], k) BY <1>4, <1>8, <1>11 DEF Kept
  <2>2. k <= p
    <3> SUFFICES ASSUME p < k PROVE FALSE BY <1>1
    <3>1. p <= k BY <1>1
    <3>2. Agree(H[w], H[t], p) BY <1>1, <1>9, <2>1, <3>1, AgreeLess
    <3>3. p > 0 BY <1>1, <1>5
    <3>4. H[w][p] = H[t][p] /\ p \in 1..Len(H[t]) BY <1>1, <1>9, <3>2, <3>3, AgreeAt
    <3>5. S[p] = H[w][p] BY <1>1, <1>8, <1>9, <3>3, AgreeAt
    <3>6. H[t][p].term <= t BY <3>4, HistoryLogs
    <3>7. w <= t BY <1>7, <3>4, <3>5, <3>6
    <3> QED BY <1>4, <1>11, <3>7
  <2>3. Agree(S, H[w], k) BY <1>1, <1>8, <1>9, <2>2, AgreeLess
  <2> QED BY <2>1, <2>3, AgreeRules
<1> QED BY <1>3, <1>10, <1>11

\* Nothing grows into itself.
LEMMA GrowsSelf ==
  ASSUME NEW H, NEW E, Histories(H, E)
  PROVE  Extends(H, H) /\ Grows(H, H, E) /\ H \in [Nat -> Seq(Entry)]
<1>1. H \in [Nat -> Seq(Entry)] BY DEF Histories
<1>2. \A t \in Nat : Len(H[t]) \in Nat BY HistoryLogs
<1>3. Extends(H, H) BY <1>2 DEF Extends, Agree
<1>4. Grows(H, H, E) BY <1>2, <1>3 DEF Grows
<1> QED BY <1>1, <1>3, <1>4

\* What the network holds stays justified when node i acknowledges more, of
\* terms its disk has not left behind.
LEMMA TrafficGrows ==
  ASSUME TypeInv, VotesAgree, NEW i \in Server, NEW H, Histories(H, elected), NEW G, NEW F,
         Histories(G, F), Grows(H, G, elected), elected \subseteq F, NEW A, NEW B,
         A \subseteq B, Acks(H, A, disk, elected), Traffic(H, A, msgs, elected),
         \A t, k \in Nat : \A s : HasAck(t, s, k, B) =>
           HasAck(t, s, k, A) \/ (s = i /\ t >= disk[i].term),
         NEW M2, msgs \subseteq M2, NEW m \in msgs
  PROVE  /\ CommitOK(m, G, B)
         /\ IsAck(m) => <<m.term, m.from, m.index>> \in B
         /\ IsGrant(m) => GrantOK(m, {}, G, B, M2, F)
<1> DEFINE E == elected
           M == msgs
<1>1. /\ m \in Message /\ m.term \in Nat /\ m.from \in Server /\ disk[i].term \in Nat
  BY DEF TypeInv, TypeOK, Message, Disk
<1>2. H \in [Nat -> Seq(Entry)] /\ G \in [Nat -> Seq(Entry)] /\ Extends(H, G)
  BY DEF Histories, Grows
<1>3. CommitOK(m, G, B) BY <1>1, <1>2, CommitOKGrows DEF Traffic
<1>4. IsAck(m) => <<m.term, m.from, m.index>> \in B BY DEF Traffic
<1>5. ASSUME IsGrant(m) PROVE GrantOK(m, {}, G, B, M2, F)
  <2>1. GrantOK(m, {}, H, A, M, E) BY <1>5 DEF Traffic
  <2>2. Bound(m.from, disk[m.from].term, disk[m.from].vote, msgs) BY <1>1 DEF VotesAgree
  <2>3. disk[m.from].term \in Nat BY <1>1 DEF TypeInv, TypeOK, Disk
  <2>4. m.term <= disk[m.from].term BY <1>1, <1>5, <2>2, <2>3 DEF Bound, IsBallot
  <2>5. ASSUME NEW t \in Nat, NEW k \in Nat, t < m.term, Claimed(t, m.from, k, B, {})
        PROVE  Claimed(t, m.from, k, A, {}) /\ k <= Len(H[t])
    <3>1. HasAck(t, m.from, k, B) BY <2>5 DEF Claimed
    <3>2. HasAck(t, m.from, k, A) \/ (m.from = i /\ t >= disk[i].term) BY <3>1
    <3>3. HasAck(t, m.from, k, A)
      <4> SUFFICES ASSUME m.from = i, t >= disk[i].term PROVE FALSE BY <3>2
      <4> QED BY <1>1, <2>4, <2>5
    <3>4. Claimed(t, m.from, k, A, {}) BY <3>3 DEF Claimed
    <3> QED BY <1>1, <3>4, ClaimedLed
  <2> HIDE DEF E, M
  <2>6. Histories(H, E) /\ Grows(H, G, E) /\ E \subseteq F /\ M \subseteq M2 BY DEF E, M
  <2> QED BY <2>1, <2>5, <2>6, GrantStays
<1> QED BY <1>3, <1>4, <1>5

\* A leader whose log was extended, and who acknowledges what it had persisted.
LEMMA ExtendedLogSafe ==
  ASSUME NEW H, NEW A, NEW B, NEW D, NEW M, NEW E, Histories(H, E), Acks(H, A, D, E),
         A \subseteq B, NEW i \in Server, NEW n \in Node, n.persisted <= Len(n.log),
         n.committed <= Len(n.log), SafeNode(i, n, H, A, D, M, E), NEW l \in Node,
         l.state = "leader", l.term = n.term, l.log = H[n.term],
         Agree(l.log, n.log, Len(n.log)), l.persisted = n.persisted,
         l.committed = n.committed, l.messages = n.messages, Counts(i, l, B),
         \A u, k \in Nat : HasAck(u, i, k, B) =>
           HasAck(u, i, k, A) \/ (u = n.term /\ k <= n.persisted)
  PROVE  SafeNode(i, l, H, B, D, M, E)
<1> DEFINE Q == n.messages
<1>1. /\ n.term \in Nat /\ n.log \in Seq(Entry) /\ l.log \in Seq(Entry) /\ n.persisted \in Nat
      /\ n.committed \in Nat /\ Q \in SUBSET Message
  BY DEF Node
<1>2. Len(n.log) \in Nat BY <1>1, LenProperties
<1>3. H \in [Nat -> Seq(Entry)] /\ Extends(H, H) /\ Grows(H, H, E) BY GrowsSelf
<1>4. Outbox(i, n, H, A, D, M, E) BY DEF SafeNode
<1> HIDE DEF Q
<1>5. \A u, k \in Nat : Claimed(u, i, k, B, Q) =>
        Claimed(u, i, k, A, Q) \/ (u = n.term /\ k <= n.persisted)
  BY DEF Claimed
<1>6. KeepsAcked(i, l, H, B, E)
  <2> SUFFICES ASSUME NEW u \in Nat, NEW k \in Nat, k > 0, Claimed(u, i, k, B, Q),
                      Kept(u, k, H, E)
               PROVE  Agree(l.log, H[u], k) /\ (HasAck(u, i, k, B) => k <= l.persisted)
    BY DEF KeepsAcked, Q
  <2>1. HasAck(u, i, k, A) => k <= n.persisted
    BY DEF SafeNode, KeepsAcked, Claimed
  <2>2. HasAck(u, i, k, B) => k <= l.persisted BY <2>1
  <2>3. CASE Claimed(u, i, k, A, Q)
    <3>1. Agree(n.log, H[u], k) BY <2>3 DEF SafeNode, KeepsAcked, Q
    <3>2. k <= Len(n.log) BY <3>1 DEF Agree
    <3>3. Agree(l.log, n.log, k) BY <1>1, <1>2, <3>2, AgreeLess
    <3>4. Agree(l.log, H[u], k) BY <3>1, <3>3, AgreeRules
    <3> QED BY <2>2, <3>4
  <2>4. CASE ~ Claimed(u, i, k, A, Q)
    <3>1. u = n.term /\ k <= n.persisted BY <1>5, <2>4
    <3>2. k <= Len(n.log) BY <1>1, <1>2, <3>1
    <3>3. Agree(l.log, n.log, k) BY <1>1, <1>2, <3>2, AgreeLess
    <3>4. Agree(l.log, l.log, k) BY <3>3 DEF Agree
    <3> QED BY <2>2, <3>1, <3>4
  <2> QED BY <2>3, <2>4
<1>7. Agree(l.log, D[i].log, l.persisted)
  <2>1. Agree(l.log, n.log, n.persisted) BY <1>1, <1>2, AgreeLess
  <2> QED BY <2>1, AgreeRules DEF SafeNode
<1>8. CommittedIn(l.log, l.committed, l.term, H, B)
  <2>1. CommittedIn(n.log, n.committed, n.term, H, A) BY DEF SafeNode
  <2>2. CommittedIn(n.log, n.committed, n.term, H, B) BY <1>1, <1>3, <2>1, CommittedGrows
  <2>3. Agree(l.log, n.log, n.committed) BY <1>1, <1>2, AgreeLess
  <2>4. n.committed <= n.committed /\ n.term <= n.term BY <1>1
  <2>5. CommittedIn(l.log, n.committed, n.term, H, B)
    BY <1>1, <1>3, <2>2, <2>3, <2>4, CommittedLess
  <2> QED BY <2>5
<1>9. Requested(i, l, M) BY PowerlessSafe
<1>10. ASSUME NEW m \in Q
       PROVE  /\ CommitOK(m, H, B)
              /\ IsGrant(m) => m.from = i /\ GrantOK(m, Q, H, B, M, E)
  <2>1. m \in Message /\ m.term \in Nat BY <1>1 DEF Message
  <2>2. CommitOK(m, H, B) BY <1>3, <1>4, <2>1, CommitOKGrows DEF Outbox, Q
  <2>3. ASSUME IsGrant(m) PROVE m.from = i /\ GrantOK(m, Q, H, B, M, E)
    <3>1. m.from = i /\ GrantOK(m, Q, H, A, M, E) /\ m.term <= n.term
      BY <1>4, <2>3 DEF Outbox, Q, IsBallot
    <3>2. \A q \in Q : IsAck(q) => Led(q.term, E) /\ q.index <= Len(H[q.term])
      BY <1>4 DEF Outbox, Q
    <3>3. ASSUME NEW u \in Nat, NEW k \in Nat, u < m.term, Claimed(u, m.from, k, B, Q)
          PROVE  Claimed(u, m.from, k, A, Q) /\ k <= Len(H[u])
      <4>1. u # n.term BY <1>1, <2>1, <3>1, <3>3
      <4>2. Claimed(u, i, k, A, Q) BY <1>5, <3>1, <3>3, <4>1
      <4>3. k <= Len(H[u]) BY <1>1, <3>2, <4>2, ClaimedLed
      <4> QED BY <3>1, <4>2, <4>3
    <3>4. E \subseteq E /\ M \subseteq M OBVIOUS
    <3> QED BY <1>3, <3>1, <3>3, <3>4, GrantStays
  <2> QED BY <2>2, <2>3
<1>11. Outbox(i, l, H, B, D, M, E) BY <1>4, <1>10 DEF Outbox, Q
<1> QED BY <1>6, <1>7, <1>8, <1>9, <1>11 DEF SafeNode

(***************************************************************************)
(* What node i leaves behind when it becomes x: histories, elections and   *)
(* acknowledgements B in order, and nobody but i acknowledged more.        *)
(***************************************************************************)
Advances(i, x, H, A, B) ==
  /\ A \subseteq B /\ Grows(H, Writes(H, x), elected)
  /\ \A t, k \in Nat : \A s : HasAck(t, s, k, B) => HasAck(t, s, k, A) \/ s = i
  /\ World(Writes(H, x), B, disk, msgs, Records(elected, i, x))
  /\ SafeNode(i, x, Writes(H, x), B, disk, msgs, Records(elected, i, x))

\* A leader's log with a new entry, where the log has all that was choosable
\* in earlier terms, and B adds what a new leader had persisted.
LEMMA EntrySafe ==
  ASSUME Many, HardInv, VotesAgree, NEW i \in Server, NEW n \in Node, NEW l \in Node,
         NEW H, NEW A, NEW B, World(H, A, disk, msgs, elected), Orderly(i, n, H),
         SafeNode(i, n, H, A, disk, msgs, elected), Ends(i, l, H, disk, msgs, elected),
         l.state = "leader", l.term = n.term, l.persisted = n.persisted,
         l.committed = n.committed, l.messages = n.messages,
         NEW v \in Value \cup {Noop}, l.log = Append(n.log, [term |-> n.term, val |-> v]),
         A \subseteq B, \A a \in B : a \in A \/ a = <<n.term, i, n.persisted>>,
         disk[i].term >= n.term, Counts(i, l, B),
         Led(n.term, elected) => n.log = H[n.term] /\ B = A,
         \A u, k \in Nat : u < n.term /\ Choosable(u, k, H, A, disk) => Agree(n.log, H[u], k)
  PROVE  Advances(i, l, H, A, B)
<1> DEFINE t == n.term
           L == l.log
           G == Writes(H, l)
           F == Records(elected, i, l)
           E == elected
           D == disk
           M == msgs
<1>1. TypeInv BY DEF HardInv
<1>2. /\ t \in Nat /\ n.log \in Seq(Entry) /\ L \in Seq(Entry) /\ n.persisted \in Nat
      /\ n.persisted <= Len(n.log) /\ n.committed <= Len(n.log)
  BY DEF Orderly, NodeOK, Node
<1>3. /\ Histories(H, E) /\ Acks(H, A, D, E) /\ Decisive(H, A, D, E) /\ Traffic(H, A, M, E)
      /\ H \in [Nat -> Seq(Entry)] /\ M \in SUBSET Message
  BY DEF World, Histories
<1>4. /\ Extends(H, G) /\ Histories(G, F) /\ NodeLogs(i, l, G, D, M, F)
      /\ G \in [Nat -> Seq(Entry)]
  BY DEF Ends, Histories
<1>5. G = [H EXCEPT ![t] = L] /\ F = E \cup {<<t, i>>} BY DEF Writes, Records
<1>6. G[t] = L /\ \A u \in Nat : u # t => G[u] = H[u] BY <1>2, <1>3, <1>5
<1>7. /\ Len(n.log) \in Nat /\ Len(L) = Len(n.log) + 1 /\ L[Len(n.log) + 1].term = t
      /\ \A h \in 1..Len(n.log) : L[h] = n.log[h]
  <2>1. [term |-> t, val |-> v] \in Entry BY <1>2 DEF Entry
  <2> QED BY <1>2, <2>1, LenProperties, AppendProperties
<1>8. D[i].term \in Nat /\ D[i].term >= t /\ D[i].term <= t
  <2>1. D[i].term \in Nat /\ node[i].term \in Nat BY <1>1 DEF TypeInv, TypeOK, Node, Disk
  <2>2. D[i].term <= node[i].term BY <2>1 DEF HardInv, Behind
  <2> QED BY <1>2, <2>1, <2>2 DEF Orderly
<1>9. /\ Led(t, E) => n.log = H[t] /\ B = A
      /\ \A a \in B : a \in A \/ a = <<t, i, n.persisted>>
      /\ \A u, k \in Nat : u < t /\ Choosable(u, k, H, A, D) => Agree(n.log, H[u], k)
      /\ FromLeaders(n.log, H) /\ Counts(i, l, B) /\ SafeNode(i, n, H, A, D, M, E)
  BY DEF Orderly, NodeLogs
<1>10. \A u \in Nat : Led(u, F) => Led(u, E) \/ u = t BY <1>5 DEF Led
<1>11. E \subseteq F BY <1>5
<1>12. l.term = t /\ l.log = L /\ l.state = "leader" OBVIOUS
<1> SUFFICES /\ Grows(H, G, E) /\ Acks(G, B, D, F) /\ Decisive(G, B, D, F)
             /\ Traffic(G, B, M, F) /\ SafeNode(i, l, G, B, D, M, F)
             /\ \A u, k \in Nat : \A s : HasAck(u, s, k, B) => HasAck(u, s, k, A) \/ s = i
  BY <1>3, <1>4 DEF Advances, World
<1> HIDE DEF t, L, G, F, E, D, M
<1>13. Agree(L, n.log, Len(n.log)) BY <1>7 DEF Agree
<1>14. Grows(H, G, E)
  <2> SUFFICES ASSUME NEW u \in Nat, Led(u, E), NEW k \in 1..Len(G[u])
               PROVE  k <= Len(H[u]) \/ G[u][k].term = u
    BY <1>4 DEF Grows
  <2>1. CASE u = t
    <3>1. H[u] = n.log /\ G[u] = L BY <1>6, <1>9, <2>1
    <3>2. k <= Len(n.log) \/ k = Len(n.log) + 1 BY <1>7, <3>1
    <3> QED BY <1>7, <2>1, <3>1, <3>2
  <2>2. CASE u # t
    <3>1. G[u] = H[u] BY <1>6, <2>2
    <3>2. Len(H[u]) \in Nat BY <1>3, HistoryLogs
    <3> QED BY <3>1, <3>2
  <2> QED BY <2>1, <2>2
<1>15. ASSUME NEW u \in Nat, NEW k \in Nat, NEW s, HasAck(u, s, k, B)
       PROVE  HasAck(u, s, k, A) \/ (s = i /\ u = t /\ k <= n.persisted /\ ~ Led(t, E))
  <2>1. PICK j \in Nat : <<u, s, j>> \in B /\ k <= j BY <1>15 DEF HasAck
  <2>2. CASE <<u, s, j>> \in A BY <2>1, <2>2 DEF HasAck
  <2>3. CASE <<u, s, j>> \notin A
    <3>1. <<u, s, j>> = <<t, i, n.persisted>> BY <1>9, <2>1, <2>3
    <3>2. u = t /\ s = i /\ j = n.persisted BY <3>1
    <3> QED BY <1>9, <2>1, <2>3, <3>2
  <2> QED BY <2>2, <2>3
<1>16. Acks(G, B, D, F)
  <2> SUFFICES ASSUME NEW u \in Nat, NEW j \in Nat, NEW s \in Server, <<u, s, j>> \in B
               PROVE  D[s].term >= u /\ Led(u, F) /\ j <= Len(G[u])
    BY DEF Acks
  <2>1. CASE <<u, s, j>> \in A
    <3>1. D[s].term >= u /\ Led(u, E) /\ j <= Len(H[u]) BY <1>3, <2>1 DEF Acks
    <3>2. Led(u, F) BY <1>11, <3>1 DEF Led
    <3>3. Agree(G[u], H[u], j) BY <1>3, <1>4, <3>1, ExtendsAgree
    <3> QED BY <3>1, <3>2, <3>3 DEF Agree
  <2>2. CASE <<u, s, j>> \notin A
    <3>1. <<u, s, j>> = <<t, i, n.persisted>> BY <1>9, <2>2
    <3>2. u = t /\ s = i /\ j = n.persisted BY <3>1
    <3>3. Led(u, F) BY <1>5, <3>2 DEF Led
    <3>4. j <= Len(G[u]) BY <1>2, <1>6, <1>7, <3>2
    <3> QED BY <1>8, <3>2, <3>3, <3>4
  <2> QED BY <2>1, <2>2
<1>17. Decisive(G, B, D, F)
  <2> SUFFICES ASSUME NEW u \in Nat, NEW k \in Nat, Choosable(u, k, G, B, D),
                      NEW w \in Nat, w > u, Led(w, F)
               PROVE  Agree(G[w], G[u], k)
    BY DEF Decisive, Kept
  <2>1. InTerm(u, k, G) /\ IsQuorum(Incoming, Outgoing,
                              Holders(u, k, B) \cup {s \in Server : D[s].term <= u})
    BY DEF Choosable
  <2>2. k > 0 /\ k <= Len(G[u]) /\ G[u][k].term = u
    <3>1. InTerm(u, k, G) BY <2>1
    <3>2. Histories(G, F) BY <1>4
    <3> QED BY <3>1, <3>2, InTermLed
  <2>3. ASSUME G[u] = H[u], u = t => Led(t, E) PROVE Agree(G[w], G[u], k)
    <3>1. \A s : HasAck(u, s, k, B) => HasAck(u, s, k, A) BY <1>15, <2>3
    <3>2. Holders(u, k, B) = Holders(u, k, A) BY <3>1, AcksGrow DEF Holders
    <3>3. Choosable(u, k, H, A, D) BY <2>1, <2>3, <3>2 DEF Choosable, InTerm
    <3>4. Kept(u, k, H, E) BY <1>3, <3>3 DEF Decisive
    <3>5. CASE w = t
      <4>1. Agree(n.log, H[u], k) BY <1>9, <3>3, <3>5
      <4>2. k <= Len(n.log) BY <4>1 DEF Agree
      <4>3. Agree(L, n.log, k) BY <1>2, <1>7, <1>13, <4>2, AgreeLess
      <4>4. Agree(L, H[u], k) BY <4>1, <4>3, AgreeRules
      <4> QED BY <1>6, <2>3, <3>5, <4>4
    <3>6. CASE w # t
      <4>1. Led(w, E) BY <1>10, <3>6
      <4>2. Agree(H[w], H[u], k) BY <3>4, <4>1 DEF Kept
      <4> QED BY <1>6, <2>3, <3>6, <4>2
    <3> QED BY <3>5, <3>6
  <2>4. CASE u # t BY <1>6, <2>3, <2>4
  <2>5. CASE u = t
    <3> DEFINE p == Len(n.log) + 1
    <3>1. k <= Len(n.log) \/ k = p BY <1>6, <1>7, <2>2, <2>5
    <3>2. w # t /\ Led(w, E) BY <1>2, <1>10, <2>5
    <3>3. CASE k = p
      <4>1. \A s \in Server : ~ HasAck(u, s, k, B)
        <5> SUFFICES ASSUME NEW s \in Server, HasAck(u, s, k, B) PROVE FALSE OBVIOUS
        <5>1. CASE HasAck(u, s, k, A)
          <6>1. PICK j \in Nat : <<u, s, j>> \in A /\ k <= j BY <5>1 DEF HasAck
          <6>2. Led(u, E) /\ j <= Len(H[u]) BY <1>3, <6>1 DEF Acks
          <6>3. j <= Len(n.log) BY <1>9, <2>5, <6>2
          <6> QED BY <1>7, <3>3, <6>1, <6>3
        <5>2. CASE k <= n.persisted BY <1>2, <1>7, <3>3, <5>2
        <5> QED BY <1>15, <5>1, <5>2
      <4>2. Choosable(u, k, G, B, disk) BY DEF D
      <4>3. ~ Led(w, elected) BY <1>1, <4>1, <4>2, NobodyLater
      <4> QED BY <3>2, <4>3 DEF E
    <3>4. CASE k <= Len(n.log)
      <4>1. k \in 1..Len(n.log) BY <1>7, <2>2, <3>4
      <4>2. n.log[k].term = t BY <1>6, <1>7, <2>2, <2>5, <4>1
      <4>3. Led(t, E) BY <1>2, <1>3, <1>9, <4>1, <4>2, TermsIncrease
      <4>4. n.log = H[t] /\ B = A BY <1>9, <4>3
      <4>5. Holders(u, k, B) = Holders(u, k, A) BY <4>4
      <4>6. InTerm(u, k, H) BY <2>5, <4>1, <4>2, <4>4 DEF InTerm
      <4>7. Choosable(u, k, H, A, D) BY <2>1, <4>5, <4>6 DEF Choosable
      <4>8. Agree(H[w], H[u], k) BY <1>3, <3>2, <4>7 DEF Decisive, Kept
      <4>9. Agree(L, n.log, k) BY <1>2, <1>7, <1>13, <3>4, AgreeLess
      <4>10. Agree(H[w], L, k) BY <2>5, <4>4, <4>8, <4>9, AgreeRules
      <4> QED BY <1>6, <2>5, <3>2, <4>10
    <3> QED BY <3>1, <3>3, <3>4
  <2> QED BY <2>4, <2>5
<1>18. \A u, k \in Nat : \A s : HasAck(u, s, k, B) =>
         HasAck(u, s, k, A) \/ (s = i /\ u >= disk[i].term)
  BY <1>2, <1>8, <1>15 DEF D
<1>19. Traffic(G, B, M, F)
  <2>1. /\ Histories(H, elected) /\ Grows(H, G, elected) /\ elected \subseteq F
        /\ Acks(H, A, disk, elected) /\ Traffic(H, A, msgs, elected)
    BY <1>3, <1>11, <1>14 DEF E, D, M
  <2>2. ASSUME NEW m \in M
        PROVE  /\ CommitOK(m, G, B)
               /\ IsAck(m) => <<m.term, m.from, m.index>> \in B
               /\ IsGrant(m) => GrantOK(m, {}, G, B, M, F)
    <3>1. m \in msgs /\ msgs \subseteq M BY DEF M
    <3> QED BY <1>1, <1>4, <1>18, <2>1, <3>1, TrafficGrows
  <2> QED BY <2>2 DEF Traffic
<1>20. SafeNode(i, n, G, A, D, M, F)
  <2>1. A \subseteq A /\ M \subseteq M /\ D[i] = D[i] OBVIOUS
  <2> QED BY <1>3, <1>4, <1>9, <1>11, <1>14, <2>1, OthersSafe, ZenonT(30)
<1>21. SafeNode(i, l, G, B, D, M, F)
  <2>1. Acks(G, A, D, F)
    <3>1. \A u, j \in Nat : \A s \in Server : <<u, s, j>> \in A => <<u, s, j>> \in B OBVIOUS
    <3> QED BY <1>16, <3>1 DEF Acks
  <2>2. l.log = G[n.term] /\ Agree(l.log, n.log, Len(n.log))
    BY <1>6, <1>12, <1>13 DEF t
  <2>3. \A u, k \in Nat : HasAck(u, i, k, B) =>
           HasAck(u, i, k, A) \/ (u = n.term /\ k <= n.persisted)
    BY <1>15 DEF t
  <2> QED BY <1>2, <1>4, <1>9, <1>20, <2>1, <2>2, <2>3, ExtendedLogSafe
<1> QED BY <1>14, <1>15, <1>16, <1>17, <1>19, <1>21

\* An elected leader's own disk knows of its term.
LEMMA LeaderOnDisk ==
  ASSUME Many, TypeInv, VotesAgree, NEW i \in Server, NEW t \in Nat, <<t, i>> \in elected
  PROVE  disk[i].term >= t
<1> DEFINE Y == Backers(i, t, msgs)
<1>1. IsQuorum(Incoming, Outgoing, Y)
  <2>1. <<t, i>>[1] = t /\ <<t, i>>[2] = i OBVIOUS
  <2> QED BY <2>1 DEF VotesAgree, WonBy
<1>2. Y \in SUBSET Server BY DEF Backers
<1>3. ASSUME NEW s \in Y, s # i PROVE HasGrant(s, i, t, msgs)
  <2>1. PICK m \in msgs : IsBallot(m) /\ m.from = s /\ Choice(m) = i /\ m.term = t
    BY DEF Backers
  <2>2. m.type # "request_vote" BY <1>3, <2>1 DEF Choice
  <2>3. IsGrant(m) /\ m.to = i BY <2>1, <2>2 DEF IsBallot, Choice
  <2> QED BY <2>1, <2>3 DEF HasGrant
<1> HIDE DEF Y
<1> QED BY <1>1, <1>2, <1>3, VotersOnDisk

\* A candidate with the votes of a quorum has what was choosable in earlier
\* terms: one of its voters holds it.
LEMMA WinnerHasChoosable ==
  ASSUME Many, TypeInv, VotesAgree, NEW i \in Server, NEW n \in Node, n.state = "candidate",
         NEW H, NEW A, World(H, A, disk, msgs, elected), FromLeaders(n.log, H),
         SafeNode(i, n, H, A, disk, msgs, elected), NEW Y \in SUBSET Server,
         IsQuorum(Incoming, Outgoing, Y),
         \A s \in Y : s = i \/ HasGrant(s, i, n.term, msgs),
         NEW u \in Nat, NEW k \in Nat, u < n.term, Choosable(u, k, H, A, disk)
  PROVE  Agree(n.log, H[u], k)
<1> DEFINE T == Holders(u, k, A) \cup {s \in Server : disk[s].term <= u}
           E == elected
           M == msgs
<1>1. n.term \in Nat /\ n.log \in Seq(Entry) BY DEF Node
<1>2. \A s \in Y : disk[s].term >= n.term BY <1>1, VotersOnDisk
<1>3. /\ Histories(H, E) /\ Decisive(H, A, disk, E) /\ Traffic(H, A, M, E) BY DEF World
<1>4. Kept(u, k, H, E) /\ InTerm(u, k, H) BY <1>3 DEF Decisive, Choosable
<1>5. k > 0 BY <1>3, <1>4, InTermLed
<1>6. PICK s \in T : s \in Y
  <2>1. IsQuorum(Incoming, Outgoing, T) BY DEF Choosable
  <2> QED BY <2>1, VotersFinite, QuorumsMeet
<1>7. s \in Server /\ HasAck(u, s, k, A)
  <2>1. s \in Server BY <1>6
  <2>2. disk[s].term \in Nat BY <2>1 DEF TypeInv, TypeOK, Disk
  <2>3. disk[s].term >= n.term BY <1>2, <1>6
  <2>4. ~ (disk[s].term <= u) BY <1>1, <2>2, <2>3
  <2> QED BY <1>6, <2>1, <2>4 DEF Holders
<1>8. CASE s = i
  <2>1. Claimed(u, i, k, A, n.messages) BY <1>7, <1>8 DEF Claimed
  <2> QED BY <1>4, <1>5, <2>1 DEF SafeNode, KeepsAcked
<1>9. CASE s # i
  <2>1. PICK g \in M : IsGrant(g) /\ g.from = s /\ g.to = i /\ g.term = n.term
    BY <1>6, <1>9 DEF HasGrant
  <2>2. GrantOK(g, {}, H, A, M, E) BY <1>3, <2>1 DEF Traffic
  <2>3. PICK r \in M :
          /\ r.type = "request_vote" /\ r.from = g.to /\ r.term = g.term
          /\ \A t, h \in Nat :
               (t < g.term /\ InTerm(t, h, H) /\ Claimed(t, g.from, h, A, {}) /\ Kept(t, h, H, E))
                 => Covers(r, t, h)
    BY <2>2 DEF GrantOK
  <2>4. Claimed(u, g.from, k, A, {}) BY <1>7, <2>1 DEF Claimed
  <2>5. Covers(r, u, k) BY <1>4, <2>1, <2>3, <2>4
  <2>6. r.index = Len(n.log) /\ r.log_term = LastTerm(n.log)
    BY <2>1, <2>3 DEF SafeNode, Requested
  <2> QED BY <1>1, <1>3, <1>4, <2>5, <2>6, CoveredIsThere
<1> QED BY <1>8, <1>9

\* Sending after that.
LEMMA AdvancesSends ==
  ASSUME NEW i \in Server, NEW l \in Node, NEW H, NEW A, NEW B, Advances(i, l, H, A, B),
         Ends(i, l, H, disk, msgs, elected), NEW n2 \in Node, Sends(l, n2)
  PROVE  Advances(i, n2, H, A, B)
<1> DEFINE G == Writes(H, l)
           F == Records(elected, i, l)
<1>1. Writes(H, n2) = G /\ Records(elected, i, n2) = F
  BY DEF Sends, Rest, Writes, Records
<1>2. /\ World(G, B, disk, msgs, F) /\ SafeNode(i, l, G, B, disk, msgs, F)
      /\ LogKnown(l, G)
  BY DEF Advances, Ends, NodeLogs, LogKnown
<1> HIDE DEF G, F
<1>3. SafeNode(i, n2, G, B, disk, msgs, F) BY <1>2, SendsSafe
<1> QED BY <1>1, <1>3 DEF Advances, G, F

\* A move that makes or extends a leader's log.
LEMMA LeadMoveAdvances ==
  ASSUME Many, HardInv, VotesAgree, NEW i \in Server, NEW n, NEW n2, NEW H, NEW A,
         World(H, A, disk, msgs, elected), Orderly(i, n, H),
         SafeNode(i, n, H, A, disk, msgs, elected), LeadMove(i, disk[i].commit, n, n2, msgs)
  PROVE  \E B : Advances(i, n2, H, A, B)
<1> DEFINE t == n.term
<1>1. TypeInv BY DEF HardInv
<1>2. /\ n \in Node /\ n2 \in Node /\ t \in Nat /\ n.id = i /\ n.persisted \in Nat
      /\ Histories(H, elected)
  BY DEF Orderly, LeadMove, NodeOK, Node, World
<1>3. NodeLogs(i, n, H, disk, msgs, elected) /\ FromLeaders(n.log, H) BY DEF Orderly, NodeLogs
<1>4. CASE WinsOffice(i, n, n2, msgs)
  <2>1. n.state = "candidate" BY <1>4 DEF WinsOffice
  <2>2. PICK Y \in SUBSET Server : /\ IsQuorum(Incoming, Outgoing, Y)
                                   /\ \A s \in Y : s = i \/ HasGrant(s, i, t, msgs)
    BY <1>4 DEF WinsOffice
  <2>3. PICK l \in Node : TakesOffice(n, l) /\ Sends(l, n2) BY <1>4 DEF WinsOffice
  <2>4. ~ Led(t, elected)
    <3> SUFFICES ASSUME NEW c \in Server, <<t, c>> \in elected PROVE FALSE BY DEF Led
    <3>1. c = i BY <1>1, <1>2, <2>2, WinnerLeadsAlone
    <3> QED BY <1>3, <2>1, <3>1 DEF NodeLogs
  <2>5. Ends(i, l, H, disk, msgs, elected)
    BY <1>2, <1>3, <2>1, <2>2, <2>3, <2>4, ElectedEnds
  <2> DEFINE B == A \cup {<<t, i, n.persisted>>}
  <2>6. disk[i].term >= t BY <1>1, <1>2, <2>2, VotersOnDisk
  <2>7. Counts(i, l, B)
    <3>1. l.term = t /\ l.persisted = n.persisted /\ l.prs = LeaderProgress(n)
      BY <2>3 DEF TakesOffice
    <3>2. HasAck(t, i, n.persisted, B)
      <4>1. n.persisted <= n.persisted /\ <<t, i, n.persisted>> \in B BY <1>2
      <4> QED BY <1>2, <4>1 DEF HasAck
    <3> HIDE DEF B
    <3>3. \A s \in Server : l.prs[s].matched = IF s = i THEN n.persisted ELSE 0
      BY <1>2, <3>1 DEF LeaderProgress, NoProgress
    <3> QED BY <3>1, <3>2, <3>3 DEF Counts, Acked
  <2>8. \A u, k \in Nat : u < t /\ Choosable(u, k, H, A, disk) => Agree(n.log, H[u], k)
    BY <1>1, <1>2, <1>3, <2>1, <2>2, WinnerHasChoosable
  <2>9. A \subseteq B /\ \A a \in B : a \in A \/ a = <<t, i, n.persisted>> OBVIOUS
  <2>10. Noop \in Value \cup {Noop} OBVIOUS
  <2> HIDE DEF B
  <2>11. Advances(i, l, H, A, B)
    BY <1>2, <2>3, <2>4, <2>5, <2>6, <2>7, <2>8, <2>9, <2>10, EntrySafe DEF TakesOffice
  <2>12. Advances(i, n2, H, A, B) BY <1>2, <2>3, <2>5, <2>11, AdvancesSends
  <2> QED BY <2>12
<1>5. CASE Proposes(n, n2)
  <2>1. PICK a \in Node : Adds(n, a) /\ Sends(a, n2) BY <1>5 DEF Proposes
  <2>2. n.state = "leader" BY <1>5 DEF Proposes
  <2>3. PICK v \in Value \cup {Noop} : a.log = Append(n.log, [term |-> n.term, val |-> v])
    BY <2>1 DEF Adds
  <2>4. /\ a.term = n.term /\ a.state = n.state /\ a.messages = n.messages
        /\ a.persisted = n.persisted /\ a.committed = n.committed /\ a.prs = n.prs
    BY <2>1 DEF Adds
  <2>5. Ends(i, a, H, disk, msgs, elected) BY <1>2, <1>3, <2>2, <2>3, <2>4, AppendEnds
  <2>6. n.log = H[t] /\ <<t, i>> \in elected BY <1>3, <2>2 DEF NodeLogs
  <2>7. disk[i].term >= t BY <1>1, <1>2, <2>6, LeaderOnDisk
  <2>8. Counts(i, a, A) BY <2>2, <2>4 DEF SafeNode, Counts
  <2>9. ASSUME NEW u \in Nat, NEW k \in Nat, u < t, Choosable(u, k, H, A, disk)
        PROVE  Agree(n.log, H[u], k)
    <3>1. Led(t, elected) /\ t > u BY <1>2, <2>6, <2>9 DEF Led
    <3>2. Kept(u, k, H, elected) BY <2>9 DEF World, Decisive
    <3> QED BY <1>2, <2>6, <3>1, <3>2 DEF Kept
  <2>10. A \subseteq A /\ a.state = "leader" BY <2>2, <2>4
  <2>11. Advances(i, a, H, A, A)
    BY <1>2, <2>3, <2>4, <2>5, <2>6, <2>7, <2>8, <2>9, <2>10, EntrySafe
  <2>12. Advances(i, n2, H, A, A) BY <1>2, <2>1, <2>5, <2>11, AdvancesSends
  <2> QED BY <2>12
<1> QED BY <1>4, <1>5 DEF LeadMove

\* A chain of moves.
LEMMA ChainAdvances ==
  ASSUME Many, HardInv, VotesAgree, NEW i \in Server, NEW x, NEW H, NEW A,
         PreVote => CommitsCovered, World(H, A, disk, msgs, elected),
         \A m \in msgs : AppendOK(m, H, elected),
         NodeLogs(i, node[i], H, disk, msgs, elected),
         SafeNode(i, node[i], H, A, disk, msgs, elected),
         Chain(i, disk[i].commit, node[i], x, msgs)
  PROVE  \E B : Advances(i, x, H, A, B)
<1> DEFINE Fine(n) == Orderly(i, n, H) /\ SafeNode(i, n, H, A, disk, msgs, elected)
           Step(n, n2) == Move(i, disk[i].commit, n, n2, msgs)
<1>1. TypeInv /\ Histories(H, elected) BY DEF HardInv, World
<1>2. Fine(node[i])
  <2>1. NodeOK(i, node[i], disk[i].commit) /\ node[i].term \in Nat
    BY <1>1 DEF TypeInv, TypeOK, Node
  <2> QED BY <2>1 DEF Orderly
<1>3. \A n, n2 : Fine(n) /\ Step(n, n2) => Fine(n2) BY <1>1, MoveKeepsOrder, MoveKeepsSafe
<1>4. PICK u, v, y, w : /\ Step(node[i], u) /\ Step(u, v) /\ Step(v, y) /\ Step(y, w)
                        /\ Step(w, x) \/ LeadMove(i, disk[i].commit, w, x, msgs)
  BY DEF Chain
<1>5. Fine(w)
  <2> HIDE DEF Fine, Step
  <2> QED BY <1>2, <1>3, <1>4
<1>6. CASE Step(w, x)
  <2>1. Fine(x) BY <1>3, <1>5, <1>6
  <2>2. x \in Node /\ NodeLogs(i, x, H, disk, msgs, elected) BY <2>1 DEF Orderly, NodeOK
  <2>3. Writes(H, x) = H /\ Records(elected, i, x) = elected BY <1>1, <2>2, NoWriteEnds
  <2>4. Grows(H, H, elected) BY <1>1, GrowsSelf
  <2>5. Advances(i, x, H, A, A) BY <2>1, <2>3, <2>4 DEF Advances
  <2> QED BY <2>5
<1>7. CASE LeadMove(i, disk[i].commit, w, x, msgs) BY <1>5, <1>7, LeadMoveAdvances
<1> QED BY <1>4, <1>6, <1>7

-----------------------------------------------------------------------------
(***************************************************************************)
(* Steps of the system.                                                    *)
(***************************************************************************)
\* A prefix agrees with its log.
LEMMA PrefixAgrees ==
  ASSUME NEW L \in Seq(Entry), NEW k \in Nat, k <= Len(L)
  PROVE  /\ SubSeq(L, 1, k) \in Seq(Entry) /\ Len(SubSeq(L, 1, k)) = k
         /\ Agree(SubSeq(L, 1, k), L, k)
<1> DEFINE S == SubSeq(L, 1, k)
<1>1. Len(L) \in Nat BY LenProperties
<1>2. S \in Seq(Entry) /\ Len(S) = k BY PrefixOK
<1>3. \A j \in 1..k : S[j] = L[j] BY <1>1
<1> HIDE DEF S
<1>4. k <= k OBVIOUS
<1>5. Agree(S, L, k) BY <1>2, <1>3, <1>4 DEF Agree
<1> QED BY <1>2, <1>5 DEF S

\* What Become records as decided is committed.
LEMMA DecidedGrows ==
  ASSUME NEW G \in [Nat -> Seq(Entry)], NEW B, NEW L \in Seq(Entry), NEW k \in Nat,
         NEW v \in Nat, k <= Len(L), CommittedIn(L, k, v, G, B), NEW C \in Seq(Entry),
         NEW t \in Nat, CommittedIn(C, Len(C), t, G, B), NEW C2,
         C2 = IF k > Len(C) THEN SubSeq(L, 1, k) ELSE C
  PROVE  /\ k <= Len(C2) /\ Len(C) <= Len(C2)
         /\ \E u \in Nat : CommittedIn(C2, Len(C2), u, G, B)
<1> DEFINE S == SubSeq(L, 1, k)
<1>1. Len(L) \in Nat /\ Len(C) \in Nat BY LenProperties
<1>2. CASE k > Len(C)
  <2>1. S \in Seq(Entry) /\ Len(S) = k BY PrefixAgrees
  <2>2. Agree(S, L, k) BY PrefixAgrees
  <2>3. C2 = S BY <1>2
  <2> HIDE DEF S
  <2>4. k <= k /\ v <= v OBVIOUS
  <2>5. CommittedIn(S, k, v, G, B) BY <2>1, <2>2, <2>4, CommittedLess
  <2>6. k <= Len(C2) /\ Len(C) <= Len(C2) BY <1>1, <1>2, <2>1, <2>3
  <2> QED BY <2>1, <2>3, <2>5, <2>6
<1>3. CASE ~ (k > Len(C))
  <2>1. C2 = C BY <1>3
  <2>2. k <= Len(C) /\ Len(C) <= Len(C) BY <1>1, <1>3
  <2> QED BY <2>1, <2>2
<1> QED BY <1>2, <1>3

\* A step of one node that leaves the disks and the network alone.
LEMMA RunsKeepSafe ==
  ASSUME Many, HardInv, VoteInv, VoteInv', NEW i \in Server, Runs(i),
         PreVote => CommitsCovered, NEW H, NEW A, Logs(H, node, disk, msgs, elected),
         Safe(H, A, node, disk, msgs, elected, decided)
  PROVE  \E G, B : /\ Logs(G, node', disk', msgs', elected')
                   /\ Safe(G, B, node', disk', msgs', elected', decided')
<1>1. /\ TypeInv /\ VotesAgree /\ node \in [Server -> Node] /\ disk \in [Server -> Disk]
      /\ msgs \in SUBSET Message /\ decided \in Seq(Entry)
  BY DEF HardInv, VoteInv, TypeInv, TypeOK
<1>2. UNCHANGED <<disk, msgs>> BY DEF Runs
<1>3. /\ Histories(H, elected) /\ \A m \in msgs : AppendOK(m, H, elected)
      /\ NodeLogs(i, node[i], H, disk, msgs, elected)
  BY DEF Logs
<1>4. /\ World(H, A, disk, msgs, elected) /\ SafeNode(i, node[i], H, A, disk, msgs, elected)
  BY <1>1, <1>3 DEF Safe, World
<1> DEFINE x == node'[i]
           G == Writes(H, x)
           F == Records(elected, i, x)
<1>5. elected' = F /\ Logs(G, node', disk', msgs', elected') BY RunsKeepLogs
<1>6. PICK y : \/ Chain(i, disk[i].commit, node[i], y, msgs) /\ Become(i, y)
               \/ /\ NodeOK(i, y, disk[i].commit) /\ Sends(node[i], y)
                  /\ node' = [node EXCEPT ![i] = y] /\ UNCHANGED <<elected, decided>>
  BY DEF Runs
<1>7. x = y /\ \A j \in Server : j # i => node'[j] = node[j] BY <1>1, <1>6 DEF Become
<1>8. NodeOK(i, x, disk[i].commit) BY <1>6, <1>7 DEF Chain, Move, LeadMove
<1>9. x \in Node /\ x.committed <= Len(x.log) /\ x.committed \in Nat
  BY <1>8 DEF NodeOK, Node
<1>10. \E B : Advances(i, x, H, A, B)
  <2>1. CASE Chain(i, disk[i].commit, node[i], y, msgs)
    BY <1>1, <1>3, <1>4, <1>7, <2>1, ChainAdvances
  <2>2. CASE Sends(node[i], y)
    <3>1. Sends(node[i], x) BY <1>7, <2>2
    <3>2. LogQuiet(node[i], x) BY <3>1, QuietMoves
    <3>3. node[i] \in Node /\ LogKnown(node[i], H) BY <1>1, <1>3 DEF NodeLogs, LogKnown
    <3> HIDE DEF x
    <3>4. NodeLogs(i, x, H, disk, msgs, elected) BY <1>3, <3>2, QuietKeepsLogs
    <3>5. Writes(H, x) = H /\ Records(elected, i, x) = elected
      BY <1>3, <1>9, <3>4, NoWriteEnds
    <3>6. SafeNode(i, x, H, A, disk, msgs, elected)
      BY <1>3, <1>4, <1>9, <3>1, <3>3, SendsSafe
    <3>7. Grows(H, H, elected) BY <1>3, GrowsSelf
    <3>8. Advances(i, x, H, A, A) BY <1>4, <3>5, <3>6, <3>7 DEF Advances
    <3> QED BY <3>8
  <2> QED BY <1>6, <2>1, <2>2
<1>11. PICK B : Advances(i, x, H, A, B) BY <1>10
<1>12. /\ A \subseteq B /\ Grows(H, G, elected) /\ World(G, B, disk, msgs, F)
       /\ SafeNode(i, x, G, B, disk, msgs, F)
       /\ \A t, k \in Nat : \A s : HasAck(t, s, k, B) => HasAck(t, s, k, A) \/ s = i
  BY <1>11 DEF Advances
<1>13. elected \subseteq F BY DEF Records
<1>14. decided' = decided \/ decided' = IF x.committed > Len(decided)
                                          THEN SubSeq(x.log, 1, x.committed) ELSE decided
  BY <1>6, <1>7 DEF Become
<1>15. decided' = decided => x.committed <= Len(decided)
  <2>1. CASE Become(i, y)
    <3>1. Len(decided) \in Nat BY <1>1, LenProperties
    <3>2. Len(SubSeq(x.log, 1, x.committed)) = x.committed
      <4>1. x.log \in Seq(Entry) BY <1>9 DEF Node
      <4> QED BY <1>9, <4>1, PrefixOK
    <3>3. decided' = IF x.committed > Len(decided)
                       THEN SubSeq(x.log, 1, x.committed) ELSE decided
      BY <1>7, <2>1 DEF Become
    <3> HIDE DEF x
    <3> QED BY <1>9, <3>1, <3>2, <3>3
  <2>2. CASE Sends(node[i], y)
    <3>1. x.committed = node[i].committed BY <1>7, <2>2 DEF Sends
    <3> QED BY <3>1 DEF Safe
  <2> QED BY <1>6, <2>1, <2>2
<1> HIDE DEF x, G, F
<1>16. H \in [Nat -> Seq(Entry)] /\ G \in [Nat -> Seq(Entry)] /\ Extends(H, G) /\ Histories(G, F)
  BY <1>3, <1>12 DEF World, Histories, Grows
<1>17. ASSUME NEW j \in Server PROVE SafeNode(j, node'[j], G, B, disk, msgs, F)
  <2>1. CASE j = i BY <1>12, <2>1 DEF x
  <2>2. CASE j # i
    <3>1. node'[j] = node[j] /\ node[j] \in Node BY <1>1, <1>7, <2>2
    <3>2. SafeNode(j, node[j], H, A, disk, msgs, elected) BY DEF Safe
    <3>3. \A t, k \in Nat : HasAck(t, j, k, B) => HasAck(t, j, k, A) BY <1>12, <2>2
    <3>4. msgs \subseteq msgs /\ disk[j] = disk[j] /\ Acks(H, A, disk, elected)
      BY <1>4 DEF World
    <3>5. SafeNode(j, node[j], G, B, disk, msgs, F)
      BY <1>3, <1>12, <1>13, <1>16, <3>1, <3>2, <3>3, <3>4, OthersSafe
    <3> QED BY <3>1, <3>5
  <2> QED BY <2>1, <2>2
<1>18. ASSUME NEW j \in Server PROVE CommittedIn(disk[j].log, disk[j].commit, disk[j].term, G, B)
  <2>1. disk[j].log \in Seq(Entry) /\ disk[j].commit \in Nat /\ disk[j].term \in Nat
    BY <1>1 DEF Disk
  <2>2. CommittedIn(disk[j].log, disk[j].commit, disk[j].term, H, A) BY DEF Safe
  <2>3. \A S \in Seq(Entry) : \A k, t \in Nat :
          CommittedIn(S, k, t, H, A) => CommittedIn(S, k, t, G, B)
    BY <1>12, <1>16, CommittedGrows
  <2> QED BY <2>1, <2>2, <2>3
<1>19. PICK t \in Nat : CommittedIn(decided, Len(decided), t, G, B)
  <2>1. PICK t \in Nat : CommittedIn(decided, Len(decided), t, H, A) BY DEF Safe
  <2>2. Len(decided) \in Nat BY <1>1, LenProperties
  <2>3. CommittedIn(decided, Len(decided), t, G, B)
    BY <1>1, <1>12, <1>16, <2>1, <2>2, CommittedGrows
  <2> QED BY <2>3
<1>20. /\ x.committed <= Len(decided') /\ Len(decided) <= Len(decided')
       /\ \E u \in Nat : CommittedIn(decided', Len(decided'), u, G, B)
  <2>1. CASE decided' = decided
    <3>1. Len(decided) \in Nat BY <1>1, LenProperties
    <3> QED BY <1>15, <1>19, <2>1, <3>1
  <2>2. CASE decided' # decided
    <3>1. CommittedIn(x.log, x.committed, x.term, G, B) BY <1>12 DEF SafeNode
    <3>2. x.log \in Seq(Entry) /\ x.term \in Nat BY <1>9 DEF Node
    <3> QED BY <1>1, <1>9, <1>14, <1>16, <1>19, <2>2, <3>1, <3>2, DecidedGrows
  <2> QED BY <2>1, <2>2
<1>21. ASSUME NEW j \in Server PROVE node'[j].committed <= Len(decided')
  <2>1. CASE j = i BY <1>20, <2>1 DEF x
  <2>2. CASE j # i
    <3>1. node'[j] = node[j] /\ node[j].committed <= Len(decided) BY <1>7, <2>2 DEF Safe
    <3>2. node[j].committed \in Nat BY <1>1 DEF Node
    <3>3. Len(decided) \in Nat BY <1>1, LenProperties
    <3>4. Len(decided') \in Nat
      <4>1. decided' \in Seq(Entry)
        <5>1. x.log \in Seq(Entry) BY <1>9 DEF Node
        <5>2. SubSeq(x.log, 1, x.committed) \in Seq(Entry) BY <1>9, <5>1, PrefixOK
        <5> QED BY <1>1, <1>14, <5>2
      <4> QED BY <4>1, LenProperties
    <3> QED BY <1>20, <3>1, <3>2, <3>3, <3>4, LeTransitive
  <2> QED BY <2>1, <2>2
<1>22. Safe(G, B, node', disk, msgs, F, decided')
  BY <1>12, <1>17, <1>18, <1>20, <1>21 DEF Safe, World
<1>23. Safe(G, B, node', disk', msgs', elected', decided')
  <2>1. disk' = disk /\ msgs' = msgs /\ elected' = F BY <1>2, <1>5
  <2> QED BY <1>22, <2>1
<1> QED BY <1>5, <1>23

\* A step of node i that writes its disk or sends, put together.
LEMMA DiskStepSafe ==
  ASSUME TypeInv, NEW i \in Server, NEW H, NEW A, NEW B, Histories(H, elected),
         Safe(H, A, node, disk, msgs, elected, decided), NEW x, NEW d, NEW M2, NEW C2,
         A \subseteq B, \A t, k \in Nat : \A s : HasAck(t, s, k, B) => HasAck(t, s, k, A) \/ s = i,
         msgs \subseteq M2, \A r \in M2 : r.type = "request_vote" => r \in msgs \/ r.from = i,
         LET D2 == [disk EXCEPT ![i] = d] IN
           /\ Acks(H, B, D2, elected) /\ Decisive(H, B, D2, elected)
           /\ Traffic(H, B, M2, elected) /\ SafeNode(i, x, H, B, D2, M2, elected),
         CommittedIn(d.log, d.commit, d.term, H, B),
         C2 \in Seq(Entry), x.committed <= Len(C2), Len(decided) <= Len(C2),
         \E t \in Nat : CommittedIn(C2, Len(C2), t, H, B)
  PROVE  Safe(H, B, [node EXCEPT ![i] = x], [disk EXCEPT ![i] = d], M2, elected, C2)
<1> DEFINE N2 == [node EXCEPT ![i] = x]
           D2 == [disk EXCEPT ![i] = d]
           E == elected
<1>1. /\ node \in [Server -> Node] /\ disk \in [Server -> Disk] /\ decided \in Seq(Entry)
  BY DEF TypeInv, TypeOK
<1>2. /\ N2[i] = x /\ \A j \in Server : j # i => N2[j] = node[j]
      /\ D2[i] = d /\ \A j \in Server : j # i => D2[j] = disk[j]
  BY <1>1
<1>3. Extends(H, H) /\ Grows(H, H, E) /\ H \in [Nat -> Seq(Entry)] BY GrowsSelf
<1>4. Len(C2) \in Nat /\ Len(decided) \in Nat BY <1>1, LenProperties
<1>5. /\ Acks(H, B, D2, E) /\ Decisive(H, B, D2, E) /\ Traffic(H, B, M2, E)
      /\ SafeNode(i, x, H, B, D2, M2, E)
  OBVIOUS
<1> SUFFICES Safe(H, B, N2, D2, M2, E, C2) OBVIOUS
<1> HIDE DEF N2, D2
<1>6. ASSUME NEW j \in Server, j # i
      PROVE  /\ SafeNode(j, N2[j], H, B, D2, M2, E)
             /\ CommittedIn(D2[j].log, D2[j].commit, D2[j].term, H, B)
             /\ N2[j].committed <= Len(C2)
  <2>1. N2[j] = node[j] /\ node[j] \in Node /\ D2[j] = disk[j] BY <1>1, <1>2, <1>6
  <2>2. /\ SafeNode(j, node[j], H, A, disk, msgs, E)
        /\ CommittedIn(disk[j].log, disk[j].commit, disk[j].term, H, A)
        /\ node[j].committed <= Len(decided) /\ Acks(H, A, disk, E)
    BY DEF Safe
  <2>3. \A t, k \in Nat : HasAck(t, j, k, B) => HasAck(t, j, k, A) BY <1>6
  <2>4. \A r \in M2 : r.type = "request_vote" /\ r.from = j => r \in msgs BY <1>6
  <2>5. SafeNode(j, node[j], H, B, D2, M2, E)
    BY <1>3, <2>1, <2>2, <2>3, <2>4, OthersSafe, ZenonT(30)
  <2>6. disk[j].log \in Seq(Entry) /\ disk[j].commit \in Nat /\ disk[j].term \in Nat
    BY <1>1 DEF Disk
  <2>7. \A S \in Seq(Entry) : \A k, t \in Nat :
          CommittedIn(S, k, t, H, A) => CommittedIn(S, k, t, H, B)
    BY <1>3, CommittedGrows
  <2>8. CommittedIn(disk[j].log, disk[j].commit, disk[j].term, H, B) BY <2>2, <2>6, <2>7
  <2>9. node[j].committed \in Nat BY <2>1 DEF Node
  <2>10. node[j].committed <= Len(C2) BY <1>4, <2>2, <2>9, LeTransitive
  <2> QED BY <2>1, <2>5, <2>8, <2>10
<1>7. \A j \in Server : /\ SafeNode(j, N2[j], H, B, D2, M2, E)
                        /\ CommittedIn(D2[j].log, D2[j].commit, D2[j].term, H, B)
                        /\ N2[j].committed <= Len(C2)
  BY <1>2, <1>5, <1>6
<1> QED BY <1>5, <1>7 DEF Safe

(***************************************************************************)
(* The acknowledgements that leave node i when its state n is on disk: the *)
(* ones it has queued, and a leader's own.                                 *)
(***************************************************************************)
Flushed(i, n, A) ==
  A \cup {<<m.term, i, m.index>> : m \in {q \in n.messages : IsAck(q)}}
    \cup (IF n.state = "leader" THEN {<<n.term, i, Len(n.log)>>} ELSE {})

\* What they are about.
LEMMA FlushedAcks ==
  ASSUME NEW H, NEW A, NEW E, NEW D, NEW M, NEW i \in Server, NEW n \in Node,
         Outbox(i, n, H, A, D, M, E), D[i].term <= n.term,
         NEW t \in Nat, NEW k \in Nat, NEW s, HasAck(t, s, k, Flushed(i, n, A))
  PROVE  \/ HasAck(t, s, k, A)
         \/ /\ s = i /\ t >= D[i].term /\ t <= n.term
            /\ \/ Claimed(t, i, k, A, n.messages)
               \/ n.state = "leader" /\ t = n.term /\ k <= Len(n.log)
<1>1. PICK j \in Nat : <<t, s, j>> \in Flushed(i, n, A) /\ k <= j BY DEF HasAck
<1>2. n.term \in Nat BY DEF Node
<1>3. CASE <<t, s, j>> \in A BY <1>1, <1>3 DEF HasAck
<1>4. CASE \E m \in n.messages : IsAck(m) /\ <<t, s, j>> = <<m.term, i, m.index>>
  <2>1. PICK m \in n.messages : IsAck(m) /\ <<t, s, j>> = <<m.term, i, m.index>> BY <1>4
  <2>2. t = m.term /\ s = i /\ j = m.index BY <2>1
  <2>3. m.from = i /\ D[i].term <= m.term /\ m.term <= n.term BY <2>1 DEF Outbox
  <2>4. k <= m.index BY <1>1, <2>2
  <2>5. Claimed(t, i, k, A, n.messages) BY <2>1, <2>2, <2>3, <2>4 DEF Claimed
  <2>6. t >= D[i].term BY <2>2, <2>3
  <2> QED BY <2>2, <2>3, <2>5, <2>6
<1>5. CASE n.state = "leader" /\ <<t, s, j>> = <<n.term, i, Len(n.log)>>
  <2>1. t = n.term /\ s = i /\ j = Len(n.log) BY <1>5
  <2> QED BY <1>1, <1>2, <1>5, <2>1
<1> QED BY <1>1, <1>3, <1>4, <1>5 DEF Flushed

\* What may be chosen after a flush could be chosen before, so it is kept.
LEMMA FlushWorld ==
  ASSUME Many, HardInv, VotesAgree, NEW i \in Server, NEW H, NEW A,
         World(H, A, disk, msgs, elected), SafeNode(i, node[i], H, A, disk, msgs, elected),
         LogKnown(node[i], H), NodeLogs(i, node[i], H, disk, msgs, elected),
         NEW d, d.term = node[i].term,
         NEW M2, M2 = msgs \/ M2 = msgs \cup node[i].messages
  PROVE  World(H, Flushed(i, node[i], A), [disk EXCEPT ![i] = d], M2, elected)
<1> DEFINE n == node[i]
           B == Flushed(i, n, A)
           D2 == [disk EXCEPT ![i] = d]
           E == elected
           Q == n.messages
<1>1. /\ TypeInv /\ disk \in [Server -> Disk] /\ n \in Node /\ msgs \in SUBSET Message
      /\ Q \in SUBSET Message
  BY DEF HardInv, TypeInv, TypeOK, Node
<1>2. /\ n.term \in Nat /\ n.log \in Seq(Entry) /\ disk[i].term <= n.term
      /\ \A s \in Server : disk[s].term \in Nat
  <2>1. /\ n.term \in Nat /\ n.log \in Seq(Entry) /\ \A s \in Server : disk[s].term \in Nat
    BY <1>1 DEF Node, Disk
  <2> QED BY <2>1 DEF HardInv, Behind
<1>3. D2[i] = d /\ \A s \in Server : s # i => D2[s] = disk[s] BY <1>1
<1>4. /\ Histories(H, E) /\ Acks(H, A, disk, E) /\ Decisive(H, A, disk, E)
      /\ Traffic(H, A, msgs, E)
  BY DEF World
<1>5. Outbox(i, n, H, A, disk, msgs, E) BY DEF SafeNode
<1>6. n.state = "leader" => n.log = H[n.term] /\ Led(n.term, E)
  BY DEF NodeLogs, Led
<1>7. /\ A \subseteq B /\ \A m \in Q : IsAck(m) => <<m.term, i, m.index>> \in B
  BY DEF Flushed
<1>8. \A a \in B : \/ a \in A
                   \/ \E m \in Q : IsAck(m) /\ a = <<m.term, i, m.index>>
                   \/ n.state = "leader" /\ a = <<n.term, i, Len(n.log)>>
  BY DEF Flushed
<1>9. \A t, k \in Nat : \A s : HasAck(t, s, k, B) =>
         \/ HasAck(t, s, k, A)
         \/ /\ s = i /\ t >= disk[i].term /\ t <= n.term
            /\ \/ Claimed(t, i, k, A, Q)
               \/ n.state = "leader" /\ t = n.term /\ k <= Len(n.log)
  BY <1>1, <1>2, <1>5, FlushedAcks
<1>10. d.term = n.term OBVIOUS
<1>11. M2 = msgs \/ M2 = msgs \cup Q OBVIOUS
<1>12. M2 \in SUBSET Message /\ msgs \subseteq M2 BY <1>1
<1> SUFFICES World(H, B, D2, M2, E) OBVIOUS
<1> HIDE DEF n, B, D2, Q
<1>13. Acks(H, B, D2, E)
  <2> SUFFICES ASSUME NEW t \in Nat, NEW j \in Nat, NEW s \in Server, <<t, s, j>> \in B
               PROVE  D2[s].term >= t /\ Led(t, E) /\ j <= Len(H[t])
    BY DEF Acks
  <2>1. D2[s].term >= disk[s].term /\ D2[s].term \in Nat BY <1>2, <1>3, <1>10
  <2>2. CASE <<t, s, j>> \in A
    <3>1. disk[s].term >= t /\ Led(t, E) /\ j <= Len(H[t]) BY <1>4, <2>2 DEF Acks
    <3>2. D2[s].term >= t BY <1>2, <2>1, <3>1
    <3> QED BY <3>1, <3>2
  <2>3. CASE \E m \in Q : IsAck(m) /\ <<t, s, j>> = <<m.term, i, m.index>>
    <3>1. PICK m \in Q : IsAck(m) /\ <<t, s, j>> = <<m.term, i, m.index>> BY <2>3
    <3>2. t = m.term /\ s = i /\ j = m.index BY <3>1
    <3>3. m.term <= n.term /\ Led(m.term, E) /\ m.index <= Len(H[m.term])
      BY <1>5, <3>1 DEF Outbox, Q
    <3>4. D2[s].term >= t BY <1>2, <1>3, <1>10, <3>2, <3>3
    <3> QED BY <3>2, <3>3, <3>4
  <2>4. CASE n.state = "leader" /\ <<t, s, j>> = <<n.term, i, Len(n.log)>>
    <3>1. t = n.term /\ s = i /\ j = Len(n.log) BY <2>4
    <3>2. Len(n.log) \in Nat BY <1>2, LenProperties
    <3>3. j <= Len(H[t]) BY <1>6, <2>4, <3>1, <3>2
    <3>4. D2[s].term >= t BY <1>2, <1>3, <1>10, <3>1
    <3> QED BY <1>6, <2>4, <3>1, <3>3, <3>4
  <2> QED BY <1>8, <2>2, <2>3, <2>4
<1>14. Decisive(H, B, D2, E)
  <2> SUFFICES ASSUME NEW t \in Nat, NEW k \in Nat, Choosable(t, k, H, B, D2)
               PROVE  Kept(t, k, H, E)
    BY DEF Decisive
  <2> DEFINE T == Holders(t, k, A) \cup {s \in Server : disk[s].term <= t}
             T2 == Holders(t, k, B) \cup {s \in Server : D2[s].term <= t}
  <2>1. T2 \subseteq T
    <3> SUFFICES ASSUME NEW s \in T2 PROVE s \in T OBVIOUS
    <3>1. s \in Server BY DEF Holders
    <3>2. CASE HasAck(t, s, k, B)
      <4>1. HasAck(t, s, k, A) \/ disk[s].term <= t BY <1>2, <1>9, <3>2
      <4> QED BY <3>1, <4>1 DEF Holders
    <3>3. CASE D2[s].term <= t
      <4>1. disk[s].term <= t BY <1>2, <1>3, <1>10, <3>1, <3>3
      <4> QED BY <3>1, <4>1
    <3> QED BY <3>2, <3>3 DEF Holders
  <2>2. IsQuorum(Incoming, Outgoing, T2) BY DEF Choosable
  <2> HIDE DEF T, T2
  <2>3. (Incoming \cup Outgoing) \cap T2 \subseteq T BY <2>1
  <2>4. IsQuorum(Incoming, Outgoing, T) BY <2>2, <2>3, VotersFinite, QuorumMonotone
  <2>5. Choosable(t, k, H, A, disk) BY <2>4 DEF Choosable, T
  <2> QED BY <1>4, <2>5 DEF Decisive
<1>15. Extends(H, H) /\ Grows(H, H, E) /\ H \in [Nat -> Seq(Entry)] BY <1>4, GrowsSelf
<1>16. ASSUME NEW m \in msgs
       PROVE  /\ CommitOK(m, H, B)
              /\ IsAck(m) => <<m.term, m.from, m.index>> \in B
              /\ IsGrant(m) => GrantOK(m, {}, H, B, M2, E)
  <2>1. \A t, k \in Nat : \A s : HasAck(t, s, k, B) =>
           HasAck(t, s, k, A) \/ (s = i /\ t >= disk[i].term)
    BY <1>9
  <2> QED BY <1>1, <1>4, <1>7, <1>12, <1>15, <2>1, TrafficGrows
<1>17. ASSUME NEW m \in Q
       PROVE  /\ CommitOK(m, H, B)
              /\ IsAck(m) => <<m.term, m.from, m.index>> \in B
              /\ IsGrant(m) => GrantOK(m, {}, H, B, M2, E)
  <2>1. m \in Message /\ m.term \in Nat BY <1>1 DEF Message
  <2>2. CommitOK(m, H, A) BY <1>5 DEF Outbox, Q
  <2>3. CommitOK(m, H, B) BY <1>7, <1>15, <2>1, <2>2, CommitOKGrows
  <2>4. IsAck(m) => m.from = i BY <1>5 DEF Outbox, Q
  <2>5. ASSUME IsGrant(m) PROVE GrantOK(m, {}, H, B, M2, E)
    <3>1. m.from = i /\ GrantOK(m, Q, H, A, msgs, E) /\ m.term <= n.term
      BY <1>5, <2>5 DEF Outbox, Q, IsBallot
    <3>2. \A q \in Q : IsAck(q) => Led(q.term, E) /\ q.index <= Len(H[q.term])
      BY <1>5 DEF Outbox, Q
    <3>3. ASSUME NEW t \in Nat, NEW k \in Nat, t < m.term, Claimed(t, m.from, k, B, {})
          PROVE  Claimed(t, m.from, k, A, Q) /\ k <= Len(H[t])
      <4>1. HasAck(t, i, k, B) BY <3>1, <3>3 DEF Claimed
      <4>2. t # n.term BY <1>2, <2>1, <3>1, <3>3
      <4>3. Claimed(t, i, k, A, Q) BY <1>9, <4>1, <4>2 DEF Claimed
      <4>4. k <= Len(H[t]) BY <1>1, <1>4, <3>2, <4>3, ClaimedLed
      <4> QED BY <3>1, <4>3, <4>4
    <3>4. E \subseteq E OBVIOUS
    <3> QED BY <1>4, <1>12, <1>15, <3>1, <3>3, <3>4, GrantStays
  <2> QED BY <1>7, <2>3, <2>4, <2>5
<1>18. Traffic(H, B, M2, E) BY <1>11, <1>16, <1>17 DEF Traffic
<1> QED BY <1>4, <1>12, <1>13, <1>14, <1>18 DEF World

\* The node whose state is on disk.
LEMMA FlushNode ==
  ASSUME Many, HardInv, VotesAgree, NEW i \in Server, NEW H, NEW A,
         World(H, A, disk, msgs, elected), SafeNode(i, node[i], H, A, disk, msgs, elected),
         LogKnown(node[i], H), NodeLogs(i, node[i], H, disk, msgs, elected),
         NEW d, d.term = node[i].term, d.log = node[i].log,
         NEW M2, M2 = msgs \/ M2 = msgs \cup node[i].messages, NEW x \in Node,
         x.log = node[i].log, x.term = node[i].term, x.committed = node[i].committed,
         x.persisted = Len(node[i].log), x.messages = {},
         x.state = "follower" \/ (x.state = node[i].state /\ x.prs = node[i].prs)
  PROVE  SafeNode(i, x, H, Flushed(i, node[i], A), [disk EXCEPT ![i] = d], M2, elected)
<1> DEFINE n == node[i]
           B == Flushed(i, n, A)
           D2 == [disk EXCEPT ![i] = d]
           E == elected
           Q == n.messages
<1>1. /\ TypeInv /\ disk \in [Server -> Disk] /\ n \in Node /\ Q \in SUBSET Message
  BY DEF HardInv, TypeInv, TypeOK, Node
<1>2. /\ n.term \in Nat /\ n.log \in Seq(Entry) /\ n.committed \in Nat
      /\ disk[i].term <= n.term /\ Len(n.log) \in Nat
  <2>1. /\ n.term \in Nat /\ n.log \in Seq(Entry) /\ n.committed \in Nat /\ disk[i].term \in Nat
    BY <1>1 DEF Node, Disk
  <2>2. Len(n.log) \in Nat BY <2>1, LenProperties
  <2> QED BY <2>1, <2>2 DEF HardInv, Behind
<1>3. D2[i] = d BY <1>1
<1>4. Histories(H, E) BY DEF World
<1>5. SafeNode(i, n, H, A, disk, msgs, E) OBVIOUS
<1>6. n.state = "leader" => n.log = H[n.term] BY DEF LogKnown
<1>7. A \subseteq B /\ (n.state = "leader" => <<n.term, i, Len(n.log)>> \in B) BY DEF Flushed
<1>8. \A t, k \in Nat : HasAck(t, i, k, B) =>
         \/ HasAck(t, i, k, A)
         \/ Claimed(t, i, k, A, Q)
         \/ n.state = "leader" /\ t = n.term /\ k <= Len(n.log)
  BY <1>1, <1>2, <1>5, FlushedAcks DEF SafeNode
<1>9. M2 = msgs \/ M2 = msgs \cup Q OBVIOUS
<1>10. /\ x.log = n.log /\ x.term = n.term /\ x.committed = n.committed
       /\ x.persisted = Len(n.log) /\ x.messages = {} /\ d.log = n.log
       /\ x.state = "follower" \/ (x.state = n.state /\ x.prs = n.prs)
  OBVIOUS
<1> SUFFICES SafeNode(i, x, H, B, D2, M2, E) OBVIOUS
<1> HIDE DEF n, B, D2, Q
<1>11. KeepsAcked(i, x, H, B, E)
  <2> SUFFICES ASSUME NEW t \in Nat, NEW k \in Nat, k > 0, Claimed(t, i, k, B, {}),
                      Kept(t, k, H, E)
               PROVE  Agree(n.log, H[t], k) /\ k <= Len(n.log)
    BY <1>10 DEF KeepsAcked
  <2>1. HasAck(t, i, k, B) BY DEF Claimed
  <2>2. CASE Claimed(t, i, k, A, Q)
    <3>1. Agree(n.log, H[t], k) BY <1>5, <2>2 DEF SafeNode, KeepsAcked, Q
    <3> QED BY <3>1 DEF Agree
  <2>3. CASE n.state = "leader" /\ t = n.term /\ k <= Len(n.log)
    BY <1>6, <2>3 DEF Agree
  <2> QED BY <1>8, <2>1, <2>2, <2>3 DEF Claimed
<1>12. Agree(x.log, D2[i].log, x.persisted)
  <2>1. Len(n.log) <= Len(n.log) BY <1>2
  <2> QED BY <1>3, <1>10, <2>1 DEF Agree
<1>13. CommittedIn(x.log, x.committed, x.term, H, B)
  <2>1. CommittedIn(n.log, n.committed, n.term, H, A) BY <1>5 DEF SafeNode
  <2>2. Extends(H, H) /\ H \in [Nat -> Seq(Entry)] BY <1>4, GrowsSelf
  <2>3. CommittedIn(n.log, n.committed, n.term, H, B)
    BY <1>2, <1>7, <2>1, <2>2, CommittedGrows
  <2> QED BY <1>10, <2>3
<1>14. Counts(i, x, B)
  <2> SUFFICES ASSUME x.state = "leader"
               PROVE  /\ Acked(n.term, i, Len(n.log), B)
                      /\ \A s \in Server : Acked(n.term, s, n.prs[s].matched, B)
    BY <1>10 DEF Counts
  <2>1. n.state = "leader" BY <1>10
  <2>2. Len(n.log) <= Len(n.log) BY <1>2
  <2>3. Acked(n.term, i, Len(n.log), B) BY <1>2, <1>7, <2>1, <2>2 DEF Acked, HasAck
  <2>4. \A s \in Server : Acked(n.term, s, n.prs[s].matched, A)
    BY <1>5, <2>1 DEF SafeNode, Counts
  <2>5. \A s \in Server : Acked(n.term, s, n.prs[s].matched, B) BY <1>7, <2>4, AcksGrow
  <2> QED BY <2>3, <2>5
<1>15. Requested(i, x, M2)
  <2>1. Requested(i, n, msgs) BY <1>5 DEF SafeNode
  <2>2. M2 \subseteq msgs \cup Q BY <1>9
  <2> QED BY <1>10, <2>1, <2>2 DEF Requested, Q
<1>16. Outbox(i, x, H, B, D2, M2, E) BY <1>10 DEF Outbox
<1> QED BY <1>11, <1>12, <1>13, <1>14, <1>15, <1>16 DEF SafeNode

\* A restart from d, which has at least what was persisted, in the old term.
LEMMA RestartSafe ==
  ASSUME HardInv, NEW i \in Server, NEW H, NEW A, Logs(H, node, disk, msgs, elected),
         Safe(H, A, node, disk, msgs, elected, decided), NEW d \in Disk,
         d.term = disk[i].term, d.commit = disk[i].commit,
         Agree(d.log, node[i].log, node[i].persisted)
  PROVE  Safe(H, A, [node EXCEPT ![i] = Restart(i, d)], [disk EXCEPT ![i] = d], msgs,
              elected, decided)
<1> DEFINE n == node[i]
           x == Restart(i, d)
           D2 == [disk EXCEPT ![i] = d]
           E == elected
           b == d.commit
<1>1. /\ TypeInv /\ disk \in [Server -> Disk] /\ n \in Node /\ decided \in Seq(Entry)
      /\ NodeOK(i, n, disk[i].commit)
  BY DEF HardInv, TypeInv, TypeOK
<1>2. /\ n.log \in Seq(Entry) /\ n.persisted \in Nat /\ n.committed \in Nat
      /\ d.log \in Seq(Entry) /\ b \in Nat /\ d.term \in Nat
      /\ b <= n.persisted /\ b <= n.committed /\ n.persisted <= Len(d.log)
      /\ disk[i].log \in Seq(Entry)
  <2>1. b <= n.persisted /\ b <= n.committed BY <1>1 DEF NodeOK
  <2>2. n.persisted <= Len(d.log) BY DEF Agree
  <2> QED BY <1>1, <2>1, <2>2 DEF Node, Disk
<1>3. D2[i] = d /\ \A s \in Server : D2[s].term = disk[s].term BY <1>1
<1>4. Histories(H, E) /\ H \in [Nat -> Seq(Entry)] BY DEF Logs, Histories
<1>5. /\ Acks(H, A, disk, E) /\ Decisive(H, A, disk, E) /\ Traffic(H, A, msgs, E)
      /\ SafeNode(i, n, H, A, disk, msgs, E) /\ n.committed <= Len(decided)
      /\ CommittedIn(disk[i].log, disk[i].commit, disk[i].term, H, A)
      /\ \E t \in Nat : CommittedIn(decided, Len(decided), t, H, A)
  BY DEF Safe
<1>6. /\ x.log = d.log /\ x.committed = b /\ x.persisted = Len(d.log) /\ x.messages = {}
      /\ x.term = d.term /\ x.state = "follower"
  BY DEF Restart, LastIndex
<1>7. Agree(d.log, n.log, n.persisted) OBVIOUS
<1> HIDE DEF x, D2, n
<1>8. Acks(H, A, D2, E) BY <1>3, <1>5 DEF Acks
<1>9. Decisive(H, A, D2, E)
  <2>1. \A t, k : Choosable(t, k, H, A, D2) => Choosable(t, k, H, A, disk)
    <3> SUFFICES ASSUME NEW t, NEW k, Choosable(t, k, H, A, D2)
                 PROVE  Choosable(t, k, H, A, disk)
      OBVIOUS
    <3>1. {s \in Server : D2[s].term <= t} = {s \in Server : disk[s].term <= t} BY <1>3
    <3> QED BY <3>1 DEF Choosable
  <2> QED BY <1>5, <2>1 DEF Decisive
<1>10. KeepsAcked(i, x, H, A, E)
  <2> SUFFICES ASSUME NEW t \in Nat, NEW k \in Nat, k > 0, Claimed(t, i, k, A, {}),
                      Kept(t, k, H, E)
               PROVE  Agree(d.log, H[t], k) /\ k <= Len(d.log)
    BY <1>6 DEF KeepsAcked
  <2>1. HasAck(t, i, k, A) BY DEF Claimed
  <2>2. Claimed(t, i, k, A, n.messages) BY <2>1 DEF Claimed
  <2>3. Agree(n.log, H[t], k) /\ k <= n.persisted
    BY <1>5, <2>1, <2>2 DEF SafeNode, KeepsAcked
  <2>4. Agree(d.log, n.log, k) BY <1>2, <1>7, <2>3, AgreeLess
  <2>5. Agree(d.log, H[t], k) BY <2>3, <2>4, AgreeRules
  <2> QED BY <2>5 DEF Agree
<1>11. Agree(x.log, D2[i].log, x.persisted)
  <2>1. Len(d.log) \in Nat BY <1>2, LenProperties
  <2> QED BY <1>3, <1>6, <2>1 DEF Agree
<1>12. CommittedIn(d.log, b, d.term, H, A)
  <2>1. Agree(n.log, disk[i].log, n.persisted) BY <1>5 DEF SafeNode
  <2>2. Agree(d.log, disk[i].log, n.persisted) BY <1>7, <2>1, AgreeRules
  <2>3. Agree(d.log, disk[i].log, b) BY <1>2, <2>2, AgreeLess
  <2>4. b <= b /\ d.term <= d.term BY <1>2
  <2>5. CommittedIn(disk[i].log, b, d.term, H, A) BY <1>5
  <2> QED BY <1>2, <1>4, <2>3, <2>4, <2>5, CommittedLess
<1>13. Counts(i, x, A) /\ Requested(i, x, msgs) BY <1>6, PowerlessSafe
<1>14. Outbox(i, x, H, A, D2, msgs, E) BY <1>6 DEF Outbox
<1>15. SafeNode(i, x, H, A, D2, msgs, E)
  BY <1>6, <1>10, <1>11, <1>12, <1>13, <1>14 DEF SafeNode
<1>16. x.committed <= Len(decided) /\ Len(decided) <= Len(decided)
  <2>1. Len(decided) \in Nat BY <1>1, LenProperties
  <2> QED BY <1>2, <1>5, <1>6, <2>1, LeTransitive
<1> QED BY <1>1, <1>4, <1>5, <1>8, <1>9, <1>12, <1>15, <1>16, DiskStepSafe DEF x, D2

\* Crashes.
LEMMA CrashKeepsSafe ==
  ASSUME Many, HardInv, VotesAgree, NEW i \in Server, NEW H, NEW A,
         Logs(H, node, disk, msgs, elected), Safe(H, A, node, disk, msgs, elected, decided),
         \/ Crash(i)
         \/ \E k \in 0..LastIndex(node[i].log) : CrashInAppend(i, k)
         \/ CrashBeforeAdvance(i)
  PROVE  \E B : Safe(H, B, node', disk', msgs', elected', decided')
<1> DEFINE n == node[i]
<1>1. TypeInv /\ msgs \in SUBSET Message BY DEF HardInv, TypeInv, TypeOK
<1>2. /\ n \in Node /\ n.term \in Nat /\ n.log \in Seq(Entry) /\ n.persisted \in Nat
      /\ n.committed \in Nat /\ n.vote \in Server \cup {None} /\ NodeOK(i, n, disk[i].commit)
      /\ disk[i] \in Disk /\ n.persisted <= Len(n.log) /\ n.committed <= Len(n.log)
  BY <1>1 DEF TypeInv, TypeOK, NodeOK, Node, Disk
<1>3. SafeNode(i, n, H, A, disk, msgs, elected) BY DEF Safe
<1>4. ASSUME NEW d \in Disk, RestartFrom(i, d), UNCHANGED msgs, d.term = disk[i].term,
             d.commit = disk[i].commit, Agree(d.log, n.log, n.persisted)
      PROVE  \E B : Safe(H, B, node', disk', msgs', elected', decided')
  <2>1. Safe(H, A, [node EXCEPT ![i] = Restart(i, d)], [disk EXCEPT ![i] = d], msgs,
             elected, decided)
    BY <1>4, RestartSafe
  <2>2. /\ node' = [node EXCEPT ![i] = Restart(i, d)] /\ disk' = [disk EXCEPT ![i] = d]
        /\ msgs' = msgs /\ elected' = elected /\ decided' = decided
    BY <1>4 DEF RestartFrom
  <2>3. Safe(H, A, node', disk', msgs', elected', decided') BY <2>1, <2>2
  <2> QED BY <2>3
<1>5. CASE Crash(i)
  <2>1. Agree(disk[i].log, n.log, n.persisted) BY <1>3, AgreeRules DEF SafeNode
  <2> QED BY <1>2, <1>4, <1>5, <2>1 DEF Crash
<1>6. ASSUME NEW k \in 0..LastIndex(n.log), CrashInAppend(i, k)
      PROVE  \E B : Safe(H, B, node', disk', msgs', elected', decided')
  <2> DEFINE S == SubSeq(n.log, 1, k)
             d == [disk[i] EXCEPT !.log = S]
  <2>1. RestartFrom(i, d) /\ UNCHANGED msgs /\ n.persisted <= k BY <1>6 DEF CrashInAppend
  <2>2. Len(n.log) \in Nat BY <1>2, LenProperties
  <2>3. k \in Nat /\ k <= Len(n.log) BY <2>2 DEF LastIndex
  <2>4. S \in Seq(Entry) /\ Agree(S, n.log, k) BY <1>2, <2>3, PrefixAgrees
  <2> HIDE DEF S
  <2>5. Agree(S, n.log, n.persisted) BY <1>2, <2>1, <2>3, <2>4, AgreeLess
  <2>6. d \in Disk /\ d.log = S /\ d.term = disk[i].term /\ d.commit = disk[i].commit
    BY <1>2, <2>4 DEF Disk
  <2> HIDE DEF d
  <2> QED BY <1>4, <2>1, <2>5, <2>6
<1>7. CASE CrashBeforeAdvance(i)
  <2> DEFINE d == HardState(n, disk[i], n.committed)
             x == Restart(i, d)
             B == Flushed(i, n, A)
             D2 == [disk EXCEPT ![i] = d]
             M2 == msgs'
             E == elected
  <2>1. d \in Disk /\ d.term = n.term /\ d.log = n.log /\ d.commit = n.committed
    BY <1>2 DEF HardState, Disk
  <2>2. RestartFrom(i, d) /\ (M2 = msgs \/ M2 = msgs \cup n.messages)
    BY <1>7 DEF CrashBeforeAdvance, Transmit
  <2>3. /\ node' = [node EXCEPT ![i] = x] /\ disk' = D2 /\ elected' = E /\ decided' = decided
    BY <2>2 DEF RestartFrom
  <2>4. x \in Node
    <3>1. d.commit <= Len(d.log) BY <1>2, <2>1
    <3> HIDE DEF d
    <3> QED BY <2>1, <3>1, RestartOK DEF NodeOK
  <2>5. /\ x.log = n.log /\ x.term = n.term /\ x.committed = n.committed
        /\ x.persisted = Len(n.log) /\ x.messages = {} /\ x.state = "follower"
    BY <2>1 DEF Restart, LastIndex
  <2>6. World(H, A, disk, msgs, E) BY <1>1 DEF Safe, World, Logs
  <2>7. NodeLogs(i, n, H, disk, msgs, E) /\ LogKnown(n, H) BY DEF Logs, NodeLogs, LogKnown
  <2> HIDE DEF x, d, M2
  <2>8. World(H, B, D2, M2, E) BY <1>3, <2>1, <2>2, <2>6, <2>7, FlushWorld
  <2>9. SafeNode(i, x, H, B, D2, M2, E)
    BY <1>3, <2>1, <2>2, <2>4, <2>5, <2>6, <2>7, FlushNode
  <2>10. A \subseteq B BY DEF Flushed
  <2>11. \A t, k \in Nat : \A s : HasAck(t, s, k, B) => HasAck(t, s, k, A) \/ s = i
    <3>1. disk[i].term <= n.term
      <4>1. disk[i].term \in Nat BY <1>2 DEF Disk
      <4> QED BY <1>2, <4>1 DEF HardInv, Behind
    <3> QED BY <1>2, <1>3, <3>1, FlushedAcks DEF SafeNode
  <2>12. msgs \subseteq M2 /\ \A r \in M2 : r.type = "request_vote" => r \in msgs \/ r.from = i
    <3>1. \A r \in n.messages : r.type = "request_vote" => r.from = i
      BY DEF VotesAgree, NodeVotes, IsBallot
    <3> QED BY <2>2, <3>1
  <2> HIDE DEF B, E
  <2>13. CommittedIn(d.log, d.commit, d.term, H, B)
    BY <2>1, <2>5, <2>9 DEF SafeNode
  <2>14. decided \in Seq(Entry) BY <1>1 DEF TypeInv, TypeOK
  <2>15. Len(decided) \in Nat BY <2>14, LenProperties
  <2>16. x.committed <= Len(decided) /\ Len(decided) <= Len(decided)
    BY <2>5, <2>15 DEF Safe
  <2>17. \E t \in Nat : CommittedIn(decided, Len(decided), t, H, B)
    <3>1. PICK t \in Nat : CommittedIn(decided, Len(decided), t, H, A) BY DEF Safe
    <3>2. Extends(H, H) /\ H \in [Nat -> Seq(Entry)] BY GrowsSelf DEF Logs
    <3>3. CommittedIn(decided, Len(decided), t, H, B)
      BY <2>10, <2>14, <2>15, <3>1, <3>2, CommittedGrows
    <3> QED BY <3>3
  <2>18. Safe(H, B, [node EXCEPT ![i] = x], D2, M2, elected, decided)
    <3>1. Histories(H, elected) BY DEF Logs
    <3> QED BY <1>1, <2>8, <2>9, <2>10, <2>11, <2>12, <2>13, <2>14, <2>16, <2>17, <3>1,
               DiskStepSafe DEF World, E
  <2>19. Safe(H, B, node', disk', msgs', elected', decided') BY <2>3, <2>18 DEF M2, E
  <2> QED BY <2>19
<1> QED BY <1>5, <1>6, <1>7

\* What a node does after its state reached the disk.
LEMMA PersistsSafe ==
  ASSUME NEW H, NEW A, NEW D, NEW M, NEW E, World(H, A, D, M, E), NEW i \in Server,
         PreVote => CommitsCovered,
         NEW q \in Node, q.id = i, q.messages = {}, LogKnown(q, H),
         SafeNode(i, q, H, A, D, M, E), NEW a \in Node, a = q \/ Matches(q, a, {}),
         NEW c \in Node, c = a \/ Learns(a, c, {}), NEW p \in Node, Sends(c, p)
  PROVE  /\ SafeNode(i, p, H, A, D, M, E) /\ p.log = q.log /\ p.term = q.term
         /\ \A m \in p.messages : CommitOK(m, H, A) /\ ~ IsAck(m) /\ ~ IsBallot(m)
<1>1. Matches(q, a, {}) => Matches(q, a, M) BY DEF Matches
<1>2. /\ a.id = i /\ LogKnown(a, H) /\ a.messages = {} /\ a.log = q.log /\ a.term = q.term
  BY DEF Matches, Rest, LogKnown
<1>3. SafeNode(i, a, H, A, D, M, E)
  <2>1. CASE a = q BY <2>1
  <2>2. CASE Matches(q, a, M) BY <2>2, MatchesSafe
  <2> QED BY <1>1, <2>1, <2>2
<1>4. Learns(a, c, {}) => Learns(a, c, M) BY DEF Learns
<1>5. /\ c.id = i /\ LogKnown(c, H) /\ c.messages = {} /\ c.log = q.log /\ c.term = q.term
  <2>1. CASE c = a BY <1>2, <2>1
  <2>2. CASE Learns(a, c, {}) BY <1>2, <2>2 DEF Learns, Commits, Rest, LogKnown
  <2> QED BY <2>1, <2>2
<1>6. SafeNode(i, c, H, A, D, M, E)
  <2>1. CASE c = a BY <1>3, <2>1
  <2>2. CASE Learns(a, c, M) BY <1>2, <1>3, <2>2, LearnsSafe
  <2> QED BY <1>4, <2>1, <2>2
<1>7. SafeNode(i, p, H, A, D, M, E) BY <1>5, <1>6, SendsSafe
<1>8. \A m \in p.messages : Plain(m) \/ Replicates(c, m) BY <1>5 DEF Sends
<1>9. \A m \in p.messages : ~ IsAck(m) /\ ~ IsBallot(m)
  BY <1>8 DEF Plain, Replicates, IsAck, IsBallot, IsGrant
<1>10. \A m \in p.messages : CommitOK(m, H, A) BY <1>7 DEF SafeNode, Outbox
<1>11. p.log = q.log /\ p.term = q.term BY <1>5 DEF Sends, Rest
<1> QED BY <1>7, <1>9, <1>10, <1>11

\* Its messages leave.
LEMMA SentSafe ==
  ASSUME NEW H, NEW A, NEW D, NEW M, NEW E, World(H, A, D, M, E), NEW i \in Server,
         NEW p \in Node, SafeNode(i, p, H, A, D, M, E),
         \A m \in p.messages : CommitOK(m, H, A) /\ ~ IsAck(m) /\ ~ IsBallot(m),
         NEW M2, M2 = M \/ M2 = M \cup p.messages, NEW z \in Node,
         z = [p EXCEPT !.messages = {}]
  PROVE  World(H, A, D, M2, E) /\ SafeNode(i, z, H, A, D, M2, E)
<1>1. /\ M \subseteq M2 /\ M \in SUBSET Message /\ p.messages \in SUBSET Message
      /\ M2 \in SUBSET Message
  BY DEF World, Node
<1>2. Histories(H, E) /\ Acks(H, A, D, E) /\ Decisive(H, A, D, E) /\ Traffic(H, A, M, E)
  BY DEF World
<1>3. Traffic(H, A, M2, E)
  <2> SUFFICES ASSUME NEW m \in M2
               PROVE  /\ CommitOK(m, H, A)
                      /\ IsAck(m) => <<m.term, m.from, m.index>> \in A
                      /\ IsGrant(m) => GrantOK(m, {}, H, A, M2, E)
    BY DEF Traffic
  <2>1. CASE m \in M
    <3>1. /\ CommitOK(m, H, A) /\ (IsAck(m) => <<m.term, m.from, m.index>> \in A)
          /\ IsGrant(m) => GrantOK(m, {}, H, A, M, E)
      BY <1>2, <2>1 DEF Traffic
    <3>2. GrantOK(m, {}, H, A, M, E) => GrantOK(m, {}, H, A, M2, E) BY <1>1 DEF GrantOK
    <3> QED BY <3>1, <3>2
  <2>2. CASE m \in p.messages BY <2>2 DEF IsBallot
  <2> QED BY <2>1, <2>2
<1>4. World(H, A, D, M2, E) BY <1>1, <1>2, <1>3 DEF World
<1>5. /\ z.log = p.log /\ z.persisted = p.persisted /\ z.committed = p.committed
      /\ z.term = p.term /\ z.state = p.state /\ z.prs = p.prs /\ z.messages = {}
  BY DEF Node
<1>6. p.term <= z.term
  <2>1. p.term \in Nat BY DEF Node
  <2> QED BY <1>5, <2>1
<1>7. Counts(i, z, A) BY <1>5 DEF SafeNode, Counts
<1>8. Requested(i, z, M) BY <1>5 DEF SafeNode, Requested
<1>9. SafeNode(i, z, H, A, D, M, E) BY <1>5, <1>6, <1>7, <1>8, SameLogSafe
<1>10. \A r \in M2 : r.type = "request_vote" /\ r.from = i => r \in M BY DEF IsBallot
<1>11. Grows(H, H, E) BY <1>2, GrowsSelf
<1>12. A \subseteq A /\ E \subseteq E /\ D[i] = D[i] OBVIOUS
<1>13. SafeNode(i, z, H, A, D, M2, E)
  BY <1>1, <1>2, <1>9, <1>10, <1>11, <1>12, OthersSafe
<1> QED BY <1>4, <1>13

\* A Ready: the state goes to disk, its messages leave, and what the persisted
\* entries allow is committed.
LEMMA ReadyKeepsSafe ==
  ASSUME Many, HardInv, VotesAgree, NEW i \in Server, Ready(i), PreVote => CommitsCovered,
         NEW H, NEW A, Logs(H, node, disk, msgs, elected),
         Safe(H, A, node, disk, msgs, elected, decided)
  PROVE  \E B : Safe(H, B, node', disk', msgs', elected', decided')
<1> DEFINE n == node[i]
           b == disk[i].commit
           q == [n EXCEPT !.messages = {}]
           p == OnPersistEntries(q)
           x == [p EXCEPT !.messages = {}]
           B == Flushed(i, n, A)
           E == elected
<1>1. /\ TypeInv /\ msgs \in SUBSET Message /\ decided \in Seq(Entry)
  BY DEF HardInv, TypeInv, TypeOK
<1>2. /\ n \in Node /\ n.term \in Nat /\ n.log \in Seq(Entry) /\ n.persisted \in Nat
      /\ n.committed \in Nat /\ NodeOK(i, n, b) /\ disk[i] \in Disk /\ b \in Nat
      /\ disk[i].term \in Nat /\ disk[i].log \in Seq(Entry) /\ b <= n.persisted
      /\ n.committed <= Len(n.log)
  BY <1>1 DEF TypeInv, TypeOK, NodeOK, Node, Disk
<1>3. disk[i].term <= n.term BY <1>2 DEF HardInv, Behind
<1>4. /\ NodeOK(i, q, b) /\ q.term = n.term /\ q.state = n.state /\ q.log = n.log
      /\ q.messages = {} /\ q \in Node /\ q.prs = n.prs /\ q.committed = n.committed
      /\ q.id = i
  BY <1>2 DEF NodeOK, Node
<1>5. PICK c \in {p.committed, n.committed, disk[i].commit} :
        disk' = [disk EXCEPT ![i] = HardState(n, disk[i], c)]
  BY DEF Ready
<1>6. Transmit(n.messages \cup p.messages) /\ Become(i, x) BY DEF Ready
<1> DEFINE d == HardState(n, disk[i], c)
           D2 == [disk EXCEPT ![i] = d]
           M2 == msgs'
           M1 == IF M2 = msgs THEN msgs ELSE msgs \cup n.messages
<1>7. d.term = n.term /\ d.log = n.log /\ d.commit = c BY <1>2 DEF HardState, Disk
<1>8. M2 = msgs \/ M2 = msgs \cup n.messages \cup p.messages BY <1>6 DEF Transmit
<1>9. /\ M1 = msgs \/ M1 = msgs \cup n.messages
      /\ M2 = M1 \/ M2 = M1 \cup p.messages
  BY <1>8
<1> HIDE DEF q, d, M1, M2
<1>10. Persists(i, b, q, p, {}) BY <1>2, <1>4, OnPersistEntriesPersists
<1> HIDE DEF p
<1>11. PICK p0, a, e :
         /\ NodeOK(i, p0, b) /\ NodeOK(i, a, b) /\ NodeOK(i, e, b) /\ NodeOK(i, p, b)
         /\ p0 = [q EXCEPT !.persisted = Len(q.log)]
         /\ a = p0 \/ Matches(p0, a, {})
         /\ e = a \/ Learns(a, e, {})
         /\ Sends(e, p)
  BY <1>10 DEF Persists
<1>12. p0 \in Node /\ a \in Node /\ e \in Node /\ p \in Node BY <1>11 DEF NodeOK
<1>13. /\ p0.log = n.log /\ p0.term = n.term /\ p0.committed = n.committed
       /\ p0.persisted = Len(n.log) /\ p0.messages = {} /\ p0.id = i
       /\ p0.state = n.state /\ p0.prs = n.prs
  BY <1>4, <1>11 DEF Node
<1>14. World(H, A, disk, msgs, E) /\ SafeNode(i, n, H, A, disk, msgs, E)
  BY <1>1 DEF Safe, World, Logs
<1>15. NodeLogs(i, n, H, disk, msgs, E) /\ LogKnown(n, H) BY DEF Logs, NodeLogs, LogKnown
<1>16. World(H, B, D2, M1, E) BY <1>7, <1>9, <1>14, <1>15, FlushWorld
<1>17. SafeNode(i, p0, H, B, D2, M1, E)
  BY <1>7, <1>9, <1>12, <1>13, <1>14, <1>15, FlushNode
<1>18. A \subseteq B BY DEF Flushed
<1>19. \A t, k \in Nat : \A s : HasAck(t, s, k, B) => HasAck(t, s, k, A) \/ s = i
  BY <1>2, <1>3, <1>14, FlushedAcks DEF SafeNode
<1> HIDE DEF B, D2, E
<1>20. LogKnown(p0, H) BY <1>13, <1>15 DEF LogKnown
<1>21. /\ SafeNode(i, p, H, B, D2, M1, E) /\ p.log = p0.log /\ p.term = p0.term
       /\ \A m \in p.messages : CommitOK(m, H, B) /\ ~ IsAck(m) /\ ~ IsBallot(m)
  <2>1. p0.id = i /\ p0.messages = {} BY <1>13
  <2>2. a = p0 \/ Matches(p0, a, {}) BY <1>11
  <2>3. e = a \/ Learns(a, e, {}) BY <1>11
  <2>4. Sends(e, p) BY <1>11
  <2> HIDE DEF x
  <2> QED BY <1>12, <1>16, <1>17, <1>20, <2>1, <2>2, <2>3, <2>4, PersistsSafe
<1>22. x \in Node /\ x.committed = p.committed /\ x.log = p.log /\ x.term = p.term
       /\ x.state = p.state
  BY <1>12 DEF Node
<1>23. World(H, B, D2, M2, E) /\ SafeNode(i, x, H, B, D2, M2, E)
  BY <1>9, <1>12, <1>16, <1>21, <1>22, SentSafe
<1>24. Histories(H, elected) /\ H \in [Nat -> Seq(Entry)] /\ Extends(H, H)
  BY GrowsSelf DEF Logs
<1>25. \A S \in Seq(Entry) : \A k, t \in Nat :
          CommittedIn(S, k, t, H, A) => CommittedIn(S, k, t, H, B)
  BY <1>18, <1>24, CommittedGrows
<1>26. CommittedIn(p.log, p.committed, p.term, H, B) BY <1>21 DEF SafeNode
<1>27. CommittedIn(n.log, c, n.term, H, B)
  <2>1. CASE c = p.committed BY <1>13, <1>21, <1>26, <2>1
  <2>2. CASE c = n.committed
    <3>1. CommittedIn(n.log, n.committed, n.term, H, A) BY <1>14 DEF SafeNode
    <3> QED BY <1>2, <1>25, <2>2, <3>1
  <2>3. CASE c = b
    <3>1. CommittedIn(disk[i].log, b, disk[i].term, H, A) BY DEF Safe
    <3>2. CommittedIn(disk[i].log, b, disk[i].term, H, B) BY <1>2, <1>25, <3>1
    <3>3. Agree(n.log, disk[i].log, n.persisted) BY <1>14 DEF SafeNode
    <3>4. Agree(n.log, disk[i].log, b) BY <1>2, <3>3, AgreeLess
    <3>5. \A S, T \in Seq(Entry) : \A k, t, v \in Nat :
            t <= v /\ CommittedIn(S, k, t, H, B) /\ Agree(T, S, k) => CommittedIn(T, k, v, H, B)
      <4> SUFFICES ASSUME NEW S \in Seq(Entry), NEW T \in Seq(Entry), NEW k \in Nat,
                          NEW t \in Nat, NEW v \in Nat, t <= v, CommittedIn(S, k, t, H, B),
                          Agree(T, S, k)
                   PROVE  CommittedIn(T, k, v, H, B)
        OBVIOUS
      <4>1. k <= k OBVIOUS
      <4> QED BY <1>24, <4>1, CommittedLess
    <3>6. CommittedIn(n.log, b, n.term, H, B) BY <1>2, <1>3, <3>2, <3>4, <3>5
    <3> QED BY <2>3, <3>6
  <2> QED BY <2>1, <2>2, <2>3
<1>28. CommittedIn(d.log, d.commit, d.term, H, B) BY <1>7, <1>27
<1>29. msgs \subseteq M2 /\ \A r \in M2 : r.type = "request_vote" => r \in msgs \/ r.from = i
  <2>1. \A r \in n.messages : r.type = "request_vote" => r.from = i
    BY DEF VotesAgree, NodeVotes, IsBallot
  <2>2. \A r \in p.messages : r.type # "request_vote" BY <1>21 DEF IsBallot
  <2> QED BY <1>8, <2>1, <2>2
<1>30. /\ node' = [node EXCEPT ![i] = x] /\ elected' = elected /\ disk' = D2
       /\ decided' = IF x.committed > Len(decided)
                       THEN SubSeq(x.log, 1, x.committed) ELSE decided
  <2>1. x.state = n.state /\ x.term = n.term
    <3>1. a.state = p0.state BY <1>11 DEF Matches, Rest
    <3>2. e.state = a.state BY <1>11 DEF Learns, Commits, Rest
    <3>3. p.state = e.state BY <1>11 DEF Sends, Rest
    <3> QED BY <1>13, <1>21, <1>22, <3>1, <3>2, <3>3
  <2>2. n.state = "leader" => <<n.term, i>> \in elected BY <1>15 DEF NodeLogs, E
  <2> QED BY <1>5, <1>6, <2>1, <2>2 DEF Become, D2, d
<1>31. x.log \in Seq(Entry) /\ x.committed \in Nat /\ x.term \in Nat /\ x.committed <= Len(x.log)
  BY <1>11, <1>22 DEF NodeOK, Node
<1>32. CommittedIn(x.log, x.committed, x.term, H, B) BY <1>22, <1>26
<1>33. PICK t \in Nat : CommittedIn(decided, Len(decided), t, H, B)
  <2>1. PICK t \in Nat : CommittedIn(decided, Len(decided), t, H, A) BY DEF Safe
  <2>2. Len(decided) \in Nat BY <1>1, LenProperties
  <2> QED BY <1>1, <1>25, <2>1, <2>2
<1> HIDE DEF x
<1>34. decided' \in Seq(Entry)
  <2>1. SubSeq(x.log, 1, x.committed) \in Seq(Entry) BY <1>31, PrefixAgrees
  <2> QED BY <1>1, <1>30, <2>1
<1>35. /\ x.committed <= Len(decided') /\ Len(decided) <= Len(decided')
       /\ \E u \in Nat : CommittedIn(decided', Len(decided'), u, H, B)
  BY <1>1, <1>24, <1>30, <1>31, <1>32, <1>33, DecidedGrows
<1>36. Safe(H, B, [node EXCEPT ![i] = x], [disk EXCEPT ![i] = d], M2, elected, decided')
  <2> DEFINE C2 == decided'
  <2>1. /\ C2 \in Seq(Entry) /\ x.committed <= Len(C2) /\ Len(decided) <= Len(C2)
        /\ \E u \in Nat : CommittedIn(C2, Len(C2), u, H, B)
    BY <1>34, <1>35
  <2>2. /\ Acks(H, B, D2, E) /\ Decisive(H, B, D2, E) /\ Traffic(H, B, M2, E)
    BY <1>23 DEF World
  <2> HIDE DEF C2
  <2>3. Safe(H, B, [node EXCEPT ![i] = x], [disk EXCEPT ![i] = d], M2, elected, C2)
    BY <1>1, <1>18, <1>19, <1>23, <1>24, <1>28, <1>29, <2>1, <2>2, DiskStepSafe DEF E, D2
  <2> QED BY <2>3 DEF C2
<1>37. Safe(H, B, node', disk', msgs', elected', decided') BY <1>30, <1>36 DEF M2, D2
<1> QED BY <1>37

-----------------------------------------------------------------------------
(***************************************************************************)
(* The inductive invariant.  Like the histories, the acknowledgements are  *)
(* found, not stored.  Covered is the one thing that is assumed, and only  *)
(* with pre-vote: the network never holds a pre-vote request, taken or not *)
(* in the end, whose commit index its receiver could use and whose sender  *)
(* is in a later term than the receiver.                                   *)
(***************************************************************************)
Covered == PreVote => CommitsCovered

SafetyInv ==
  /\ LogInv
  /\ Many => \E H, A : /\ Logs(H, node, disk, msgs, elected)
                       /\ Safe(H, A, node, disk, msgs, elected, decided)

\* Initially nothing is acknowledged and nothing is committed.
LEMMA SafetyInit ==
  ASSUME Init, TypeInv, NEW H, Logs(H, node, disk, msgs, elected)
  PROVE  Safe(H, {}, node, disk, msgs, elected, decided)
<1>1. /\ msgs = {} /\ elected = {} /\ decided = <<>>
      /\ \A i \in Server : disk[i].log = <<>> /\ disk[i].commit = 0
      /\ \A i \in Server : /\ node[i].log = <<>> /\ node[i].messages = {} /\ node[i].committed = 0
                           /\ node[i].persisted = 0 /\ node[i].state = "follower"
  BY DEF Init, Restart, LastIndex
<1>2. Acks(H, {}, disk, elected) BY DEF Acks
<1>3. Decisive(H, {}, disk, elected)
  <2>1. Histories(H, elected) BY DEF Logs
  <2>2. ~ \E t \in Nat : Led(t, elected) BY <1>1 DEF Led
  <2>3. \A t, k \in Nat : ~ InTerm(t, k, H) BY <2>1, <2>2, InTermLed
  <2> QED BY <2>3 DEF Decisive, Choosable
<1>4. Traffic(H, {}, msgs, elected) BY <1>1 DEF Traffic
<1>5. ASSUME NEW i \in Server PROVE SafeNode(i, node[i], H, {}, disk, msgs, elected)
  <2>1. KeepsAcked(i, node[i], H, {}, elected)
    BY <1>1 DEF KeepsAcked, Claimed, HasAck
  <2>2. Agree(node[i].log, disk[i].log, node[i].persisted) BY <1>1 DEF Agree
  <2>3. CommittedIn(node[i].log, node[i].committed, node[i].term, H, {})
    BY <1>1 DEF CommittedIn
  <2>4. Counts(i, node[i], {}) /\ Requested(i, node[i], msgs) BY <1>1, PowerlessSafe
  <2>5. Outbox(i, node[i], H, {}, disk, msgs, elected) BY <1>1 DEF Outbox
  <2> QED BY <2>1, <2>2, <2>3, <2>4, <2>5 DEF SafeNode
<1>6. ASSUME NEW i \in Server
      PROVE  /\ CommittedIn(disk[i].log, disk[i].commit, disk[i].term, H, {})
             /\ node[i].committed <= Len(decided)
  BY <1>1 DEF CommittedIn
<1>7. \E t \in Nat : CommittedIn(decided, Len(decided), t, H, {})
  <2>1. CommittedIn(decided, Len(decided), 0, H, {}) BY <1>1 DEF CommittedIn
  <2> QED BY <2>1
<1> QED BY <1>2, <1>3, <1>4, <1>5, <1>6, <1>7 DEF Safe

\* Every step keeps it.
LEMMA SafetyStep ==
  ASSUME Many, HardInv, VoteInv, VoteInv', Covered, [Next]_vars, NEW H, NEW A,
         Logs(H, node, disk, msgs, elected), Safe(H, A, node, disk, msgs, elected, decided)
  PROVE  \E G, B : /\ Logs(G, node', disk', msgs', elected')
                   /\ Safe(G, B, node', disk', msgs', elected', decided')
<1> DEFINE Goal == \E G, B : /\ Logs(G, node', disk', msgs', elected')
                             /\ Safe(G, B, node', disk', msgs', elected', decided')
<1>1. TypeInv /\ VotesAgree /\ (PreVote => CommitsCovered) BY DEF HardInv, VoteInv, Covered
<1>2. ASSUME NEW i \in Server, Runs(i) PROVE Goal BY <1>1, <1>2, RunsKeepSafe
<1>3. ASSUME NEW m \in msgs, Receive(m) PROVE Goal
  <2>1. m.to \in Server BY <1>1 DEF TypeInv, TypeOK, Message
  <2> HIDE DEF Goal
  <2> QED BY <1>1, <1>2, <1>3, <2>1, ReceiveRuns
<1>4. ASSUME NEW i \in Server,
             \/ Campaign(i)
             \/ LeaseExpires(i)
             \/ LeaderTick(i)
             \/ Beat(i)
             \/ \E v \in Value : Propose(i, v)
             \/ \E s \in Server : TransferLeader(i, s)
             \/ \E s \in Server : Unreachable(i, s)
      PROVE  Goal
  <2> HIDE DEF Goal
  <2> QED BY <1>1, <1>2, <1>4, LocalRuns
<1>5. ASSUME NEW i \in Server,
             \/ Crash(i)
             \/ \E k \in 0..LastIndex(node[i].log) : CrashInAppend(i, k)
             \/ CrashBeforeAdvance(i)
      PROVE  Goal
  <2>1. Logs(H, node', disk', msgs', elected') BY <1>1, <1>5, CrashKeepsLogs
  <2>2. \E B : Safe(H, B, node', disk', msgs', elected', decided')
    BY <1>1, <1>5, CrashKeepsSafe
  <2> QED BY <2>1, <2>2
<1>6. ASSUME NEW i \in Server, Ready(i) PROVE Goal
  <2>1. Logs(H, node', disk', msgs', elected') BY <1>1, <1>6, ReadyKeepsLogs
  <2>2. \E B : Safe(H, B, node', disk', msgs', elected', decided')
    BY <1>1, <1>6, ReadyKeepsSafe
  <2> QED BY <2>1, <2>2
<1>7. ASSUME UNCHANGED vars PROVE Goal
  <2>1. /\ node' = node /\ disk' = disk /\ msgs' = msgs /\ elected' = elected
        /\ decided' = decided
    BY <1>7 DEF vars
  <2> QED BY <2>1
<1> HIDE DEF Goal
<1>8. Goal BY <1>3, <1>4, <1>5, <1>6, <1>7 DEF Next
<1> QED BY <1>8 DEF Goal

\* In every reachable state what may still be chosen is kept.
THEOREM SafetyInvInductive == Spec /\ []Covered => []SafetyInv
<1>1. Init /\ LogInv => SafetyInv
  <2> SUFFICES ASSUME Init, LogInv, Many
               PROVE  \E H, A : /\ Logs(H, node, disk, msgs, elected)
                                /\ Safe(H, A, node, disk, msgs, elected, decided)
    BY DEF SafetyInv
  <2>1. PICK H : Logs(H, node, disk, msgs, elected) BY DEF LogInv
  <2>2. TypeInv BY DEF LogInv, HardInv
  <2> QED BY <2>1, <2>2, SafetyInit
<1>2. SafetyInv /\ LogInv' /\ Covered /\ [Next]_vars => SafetyInv'
  <2> SUFFICES ASSUME SafetyInv, LogInv', Covered, [Next]_vars, Many
               PROVE  \E G, B : /\ Logs(G, node', disk', msgs', elected')
                                /\ Safe(G, B, node', disk', msgs', elected', decided')
    BY DEF SafetyInv, Many
  <2>1. PICK H, A : /\ Logs(H, node, disk, msgs, elected)
                    /\ Safe(H, A, node, disk, msgs, elected, decided)
    BY DEF SafetyInv
  <2>2. HardInv /\ VoteInv /\ VoteInv' BY DEF SafetyInv, LogInv
  <2> QED BY <2>1, <2>2, SafetyStep
<1> QED BY <1>1, <1>2, LogInvInductive, PTL DEF Spec

-----------------------------------------------------------------------------
(***************************************************************************)
(* What the invariant means.                                               *)
(***************************************************************************)
\* What two nodes commit agrees, with what was decided as well.
LEMMA SafeAgreement ==
  ASSUME TypeInv, NEW H, NEW A, Logs(H, node, disk, msgs, elected),
         Safe(H, A, node, disk, msgs, elected, decided)
  PROVE  Agreement
<1> SUFFICES ASSUME NEW i \in Server
             PROVE  IsPrefix(SubSeq(node[i].log, 1, node[i].committed), decided)
  BY DEF Agreement
<1> DEFINE n == node[i]
           k == n.committed
           S == SubSeq(n.log, 1, k)
<1>1. /\ n.log \in Seq(Entry) /\ k \in Nat /\ n.term \in Nat /\ k <= Len(n.log)
      /\ decided \in Seq(Entry)
  BY DEF TypeInv, TypeOK, NodeOK, Node
<1>2. Len(decided) \in Nat BY <1>1, LenProperties
<1>3. Histories(H, elected) /\ Decisive(H, A, disk, elected) BY DEF Logs, Safe
<1>4. CommittedIn(n.log, k, n.term, H, A) /\ k <= Len(decided) BY DEF Safe, SafeNode
<1>5. PICK t \in Nat : CommittedIn(decided, Len(decided), t, H, A) BY DEF Safe
<1>6. \A L \in Seq(Entry) : \A h, v \in Nat :
        CommittedIn(L, h, v, H, A) /\ h <= Len(decided) => Agree(L, decided, h)
  BY <1>1, <1>2, <1>3, <1>5, TwoCommitted
<1>7. Agree(n.log, decided, k) BY <1>1, <1>4, <1>6
<1>8. Agree(S, n.log, k) /\ Len(S) = k BY <1>1, PrefixAgrees
<1> HIDE DEF S, k
<1>9. Agree(S, decided, k) BY <1>7, <1>8, AgreeRules
<1>10. IsPrefix(S, decided) BY <1>8, <1>9 DEF Agree, IsPrefix
<1> QED BY <1>10 DEF S, k

\* Quorums have members.
LEMMA QuorumNotEmpty ==
  ASSUME NEW S, IsQuorum(Incoming, Outgoing, S)
  PROVE  \E s \in S : s \in S
<1>1. Incoming \cup Outgoing # {} BY RaftAssumption
<1>2. S \cap S # {} BY <1>1, VotersFinite, QuorumsMeet
<1> QED BY <1>2

\* A leader whose term is the latest has everything decided.
LEMMA SafeLeaderCompleteness ==
  ASSUME HardInv, NEW H, NEW A, Logs(H, node, disk, msgs, elected),
         Safe(H, A, node, disk, msgs, elected, decided)
  PROVE  LeaderCompleteness
<1> SUFFICES ASSUME NEW i \in Server, node[i].state = "leader",
                    \A j \in Server : node[j].term <= node[i].term
             PROVE  IsPrefix(decided, node[i].log)
  BY DEF LeaderCompleteness
<1> DEFINE v == node[i].term
           C == decided
<1>1. /\ TypeInv /\ v \in Nat /\ C \in Seq(Entry) /\ node \in [Server -> Node]
      /\ disk \in [Server -> Disk]
  BY DEF HardInv, TypeInv, TypeOK, Node
<1>2. Len(C) \in Nat BY <1>1, LenProperties
<1>3. /\ Histories(H, elected) /\ Decisive(H, A, disk, elected) /\ Acks(H, A, disk, elected)
  BY DEF Logs, Safe
<1>4. node[i].log = H[v] /\ Led(v, elected) BY DEF Logs, NodeLogs, Led
<1>5. PICK t \in Nat : CommittedIn(C, Len(C), t, H, A) BY DEF Safe
<1>6. CommittedIn(C, Len(C), v, H, A)
  <2>1. CASE Len(C) = 0 BY <2>1 DEF CommittedIn
  <2>2. CASE Len(C) # 0
    <3>1. PICK u \in Nat, j \in Nat : /\ u <= t /\ Len(C) <= j /\ Chosen(u, j, H, A)
                                      /\ Agree(C, H[u], Len(C))
      BY <1>5, <2>2 DEF CommittedIn
    <3>2. IsQuorum(Incoming, Outgoing, Holders(u, j, A)) BY <3>1 DEF Chosen
    <3>3. PICK s \in Holders(u, j, A) : TRUE BY <3>2, QuorumNotEmpty
    <3>4. s \in Server /\ HasAck(u, s, j, A) BY <3>3 DEF Holders
    <3>5. disk[s].term >= u BY <1>3, <3>4 DEF HasAck, Acks
    <3>6. /\ disk[s].term <= node[s].term /\ node[s].term <= v /\ disk[s].term \in Nat
          /\ node[s].term \in Nat
      <4>1. disk[s].term \in Nat /\ node[s].term \in Nat BY <1>1, <3>4 DEF Disk, Node
      <4> QED BY <3>4, <4>1 DEF HardInv, Behind
    <3> HIDE DEF v
    <3>7. u <= v BY <1>1, <3>5, <3>6
    <3> HIDE DEF C
    <3> QED BY <3>1, <3>7 DEF CommittedIn
  <2> QED BY <2>1, <2>2
<1> HIDE DEF C, v
<1>7. v <= v BY <1>1
<1>8. Agree(C, H[v], Len(C)) BY <1>1, <1>2, <1>3, <1>4, <1>6, <1>7, CommittedInLeader
<1>9. IsPrefix(C, H[v]) BY <1>8 DEF Agree, IsPrefix
<1> QED BY <1>4, <1>9 DEF C

\* A node that acknowledged what is kept has it on disk.
LEMMA AckedOnDisk ==
  ASSUME TypeInv, NEW H, NEW A, Logs(H, node, disk, msgs, elected),
         Safe(H, A, node, disk, msgs, elected, decided), NEW s \in Server,
         NEW u \in Nat, NEW j \in Nat, j > 0, HasAck(u, s, j, A), Kept(u, j, H, elected)
  PROVE  Agree(disk[s].log, H[u], j)
<1> DEFINE n == node[s]
<1>1. /\ n.log \in Seq(Entry) /\ disk[s].log \in Seq(Entry) /\ n.persisted \in Nat
  BY DEF TypeInv, TypeOK, Node, Disk
<1>2. KeepsAcked(s, n, H, A, elected) /\ Agree(n.log, disk[s].log, n.persisted)
  BY DEF Safe, SafeNode
<1>3. Claimed(u, s, j, A, n.messages) BY DEF Claimed
<1>4. Agree(n.log, H[u], j) /\ j <= n.persisted BY <1>2, <1>3 DEF KeepsAcked
<1>5. Agree(n.log, disk[s].log, j)
  <2> HIDE DEF n
  <2> QED BY <1>1, <1>2, <1>4, AgreeLess
<1> QED BY <1>4, <1>5, AgreeRules

\* What is committed is on the disks of a quorum.
LEMMA SafeDurable ==
  ASSUME TypeInv, NEW H, NEW A, Logs(H, node, disk, msgs, elected),
         Safe(H, A, node, disk, msgs, elected, decided)
  PROVE  CommittedIsDurable
<1> SUFFICES ASSUME NEW i \in Server, NEW k \in 1..node[i].committed
             PROVE  IsQuorum(Incoming, Outgoing,
                      {s \in Server : /\ Len(disk[s].log) >= k
                                      /\ disk[s].log[k] = node[i].log[k]})
  BY DEF CommittedIsDurable
<1> DEFINE n == node[i]
           c == n.committed
           T == {s \in Server : Len(disk[s].log) >= k /\ disk[s].log[k] = n.log[k]}
<1>1. /\ c \in Nat /\ n.term \in Nat /\ \A s \in Server : disk[s].log \in Seq(Entry)
  BY DEF TypeInv, TypeOK, Node, Disk
<1>2. k \in Nat /\ k > 0 /\ k <= c BY <1>1
<1>3. c # 0 BY <1>1, <1>2
<1>4. CommittedIn(n.log, c, n.term, H, A) BY DEF Safe, SafeNode
<1>5. PICK u \in Nat, j \in Nat : c <= j /\ Chosen(u, j, H, A) /\ Agree(n.log, H[u], c)
  BY <1>3, <1>4 DEF CommittedIn
<1>6. Histories(H, elected) /\ Decisive(H, A, disk, elected) BY DEF Logs, Safe
<1>7. Kept(u, j, H, elected) BY <1>5, <1>6, ChosenIsKept
<1>8. j > 0 /\ k <= j BY <1>1, <1>2, <1>5
<1>9. n.log[k] = H[u][k]
  <2>1. k \in 1..c BY <1>1, <1>2
  <2> QED BY <1>5, <2>1 DEF Agree
<1>10. ASSUME NEW s \in Holders(u, j, A) PROVE s \in T
  <2>1. s \in Server /\ HasAck(u, s, j, A) BY DEF Holders
  <2>2. Agree(disk[s].log, H[u], j) BY <1>5, <1>7, <1>8, <2>1, AckedOnDisk
  <2>3. Len(disk[s].log) \in Nat BY <1>1, <2>1, LenProperties
  <2>4. k \in 1..j /\ j <= Len(disk[s].log) BY <1>2, <1>8, <2>2 DEF Agree
  <2>5. disk[s].log[k] = H[u][k] BY <2>2, <2>4 DEF Agree
  <2>6. Len(disk[s].log) >= k BY <1>2, <1>8, <2>3, <2>4
  <2> QED BY <1>9, <2>1, <2>5, <2>6
<1>11. IsQuorum(Incoming, Outgoing, Holders(u, j, A)) BY <1>5 DEF Chosen
<1> HIDE DEF T
<1>12. (Incoming \cup Outgoing) \cap Holders(u, j, A) \subseteq T BY <1>10
<1>13. IsQuorum(Incoming, Outgoing, T) BY <1>11, <1>12, VotersFinite, QuorumMonotone
<1> QED BY <1>13 DEF T

\* What the latest leader counts is on the disk it counts it of.
LEMMA SafeMatched ==
  ASSUME TypeInv, NEW H, NEW A, Logs(H, node, disk, msgs, elected),
         Safe(H, A, node, disk, msgs, elected, decided)
  PROVE  MatchedIsDurable
<1> SUFFICES ASSUME NEW i \in Server, NEW s \in Server, node[i].state = "leader",
                    \A e \in elected : e[1] <= node[i].term
             PROVE  IsPrefix(SubSeq(node[i].log, 1, node[i].prs[s].matched), disk[s].log)
  BY DEF MatchedIsDurable
<1> DEFINE n == node[i]
           k == n.prs[s].matched
           S == SubSeq(n.log, 1, k)
           t == n.term
<1>1. /\ n \in Node /\ n.log \in Seq(Entry) /\ t \in Nat /\ disk[s].log \in Seq(Entry)
  BY DEF TypeInv, TypeOK, Node, Disk
<1>2. k \in Nat BY <1>1 DEF Node, Progress
<1>3. n.log = H[t] BY DEF Logs, NodeLogs
<1>4. Len(n.log) \in Nat /\ Len(disk[s].log) \in Nat BY <1>1, LenProperties
<1>5. Acked(t, s, k, A) BY DEF Safe, SafeNode, Counts
<1>6. Kept(t, k, H, elected)
  <2>1. \A v \in Nat : v > t => ~ Led(v, elected)
    <3> SUFFICES ASSUME NEW v \in Nat, v > t, NEW c \in Server, <<v, c>> \in elected PROVE FALSE
      BY DEF Led
    <3>1. v <= t OBVIOUS
    <3> HIDE DEF t
    <3> QED BY <1>1, <3>1
  <2> QED BY <2>1 DEF Kept
<1> HIDE DEF k, t
<1>7. Agree(disk[s].log, n.log, k)
  <2>1. CASE k = 0 BY <1>4, <2>1 DEF Agree
  <2>2. CASE k # 0
    <3>1. HasAck(t, s, k, A) /\ k > 0 BY <1>2, <1>5, <2>2 DEF Acked
    <3> QED BY <1>1, <1>2, <1>3, <1>6, <3>1, AckedOnDisk
  <2> QED BY <2>1, <2>2
<1>8. k <= Len(n.log) BY <1>7 DEF Agree
<1>9. Agree(S, n.log, k) /\ Len(S) = k
  <2> HIDE DEF n
  <2> QED BY <1>1, <1>2, <1>8, PrefixAgrees
<1> HIDE DEF S
<1>10. Agree(S, disk[s].log, k) BY <1>7, <1>9, AgreeRules
<1>11. IsPrefix(S, disk[s].log) BY <1>9, <1>10 DEF Agree, IsPrefix
<1> QED BY <1>11 DEF S, k

-----------------------------------------------------------------------------
(***************************************************************************)
(* A single server.  It counts what it persisted, so what it commits is on *)
(* its disk.  C is the decided log.                                        *)
(***************************************************************************)
SoloNode(i, n, d, C) ==
  /\ Agree(n.log, d.log, n.persisted)
  /\ Agree(C, n.log, Len(C)) /\ Len(C) <= n.persisted /\ n.committed <= n.persisted
  /\ n.state = "leader" => n.prs[i].matched <= n.persisted

SoloInv ==
  /\ TypeInv /\ AloneInv
  /\ ~ Many => \A i \in Server : /\ SoloNode(i, node[i], disk[i], decided)
                                 /\ node[i].committed <= Len(decided)

\* A change of a log that keeps what it has.
LEMMA SoloKeeps ==
  ASSUME NEW i, NEW n, NEW x, NEW d, NEW C \in Seq(Entry), SoloNode(i, n, d, C),
         n.log \in Seq(Entry), x.log \in Seq(Entry), n.persisted \in Nat, d.log \in Seq(Entry),
         Agree(x.log, n.log, n.persisted), x.persisted = n.persisted,
         x.committed = n.committed, x.state = "leader" => x.prs[i].matched <= x.persisted
  PROVE  SoloNode(i, x, d, C)
<1>1. Len(C) \in Nat BY LenProperties
<1>2. Len(C) <= n.persisted /\ Agree(C, n.log, Len(C)) BY DEF SoloNode
<1>3. Agree(x.log, n.log, Len(C)) BY <1>1, <1>2, AgreeLess
<1>4. Agree(C, x.log, Len(C)) BY <1>2, <1>3, AgreeRules
<1>5. Agree(x.log, d.log, n.persisted) BY AgreeRules DEF SoloNode
<1> QED BY <1>4, <1>5 DEF SoloNode

\* An appended entry is such a change.
LEMMA SoloAppend ==
  ASSUME NEW S \in Seq(Entry), NEW e \in Entry, NEW k \in Nat, k <= Len(S)
  PROVE  Agree(Append(S, e), S, k)
<1>1. Len(S) \in Nat BY LenProperties
<1>2. Len(Append(S, e)) = Len(S) + 1 /\ \A j \in 1..Len(S) : Append(S, e)[j] = S[j]
  BY AppendProperties
<1>3. \A j \in 1..k : j \in 1..Len(S) BY <1>1
<1>4. k <= Len(S) + 1 BY <1>1
<1> QED BY <1>2, <1>3, <1>4 DEF Agree

\* A single server commits only what it counts of itself.
LEMMA SoloCommit ==
  ASSUME ~ Many, NEW i \in Server, NEW n, NEW k, CanCommit(n, k)
  PROVE  n.prs[i].matched >= k
<1> DEFINE match == [s \in Server |-> n.prs[s].matched]
           S == AckedBy(Incoming \cup Outgoing, match, k)
<1>1. Server = {i} BY DEF Many
<1>2. IsQuorum(Incoming, Outgoing, S) BY DEF CanCommit, IsQuorumIndex
<1>3. \A s \in S : s \in Server /\ match[s] >= k BY RaftAssumption DEF AckedBy
<1> HIDE DEF S
<1>4. PICK s \in S : TRUE BY <1>2, QuorumNotEmpty
<1>5. s = i /\ match[s] >= k BY <1>1, <1>3, <1>4
<1> QED BY <1>5

\* The moves of a single server.
LEMMA SoloMove ==
  ASSUME ~ Many, NEW i \in Server, NEW b, NEW n, NodeOK(i, n, b), NEW x, NEW d \in Disk,
         NEW C \in Seq(Entry), SoloNode(i, n, d, C), Move(i, b, n, x, {})
  PROVE  SoloNode(i, x, d, C) /\ NodeOK(i, x, b)
<1>1. /\ NodeOK(i, x, b) /\ n \in Node /\ x \in Node /\ n.log \in Seq(Entry)
      /\ x.log \in Seq(Entry) /\ n.persisted \in Nat /\ d.log \in Seq(Entry) /\ n.id = i
      /\ n.persisted <= Len(n.log) /\ n.prs[i].matched \in Nat /\ x.prs[i].matched \in Nat
  BY DEF Move, NodeOK, Node, Disk, Progress
<1> SUFFICES SoloNode(i, x, d, C) BY <1>1
<1>2. Agree(n.log, n.log, n.persisted) BY <1>1 DEF Agree
<1>3. n.state = "leader" => n.prs[i].matched <= n.persisted BY DEF SoloNode
<1>4. ASSUME x.log = n.log, x.persisted = n.persisted, x.committed = n.committed,
             x.state = "leader" => x.prs[i].matched <= n.persisted
      PROVE  SoloNode(i, x, d, C)
  BY <1>1, <1>2, <1>4, SoloKeeps
<1>5. CASE Sends(n, x)
  <2>1. /\ x.log = n.log /\ x.persisted = n.persisted /\ x.committed = n.committed
        /\ x.state = n.state /\ x.prs[i].matched = n.prs[i].matched
    BY <1>5 DEF Sends, Rest, SameMatched
  <2> QED BY <1>3, <1>4, <2>1
<1>6. CASE Downs(n, x)
  <2>1. /\ x.log = n.log /\ x.persisted = n.persisted /\ x.committed = n.committed
        /\ x.state # "leader"
    BY <1>6 DEF Downs, StepDown
  <2> QED BY <1>4, <2>1
<1>7. CASE Asks(n, x) \/ PreAsks(n, x)
  <2>1. /\ x.log = n.log /\ x.persisted = n.persisted /\ x.committed = n.committed
        /\ x.state # "leader"
    BY <1>7 DEF Asks, PreAsks
  <2> QED BY <1>4, <2>1
<1>8. CASE Answers(n, x)
  <2>1. /\ x.log = n.log /\ x.persisted = n.persisted /\ x.committed = n.committed
        /\ x.state = n.state /\ x.prs = n.prs
    BY <1>8 DEF Answers, Rest
  <2> QED BY <1>3, <1>4, <2>1
<1>9. CASE Learns(n, x, {})
  <2>1. PICK k \in Nat : Commits(n, x, k) /\ n.state = "leader" /\ CanCommit(n, k)
    BY <1>9 DEF Learns
  <2>2. /\ x.log = n.log /\ x.persisted = n.persisted /\ x.committed = k
        /\ x.state = n.state /\ x.prs = n.prs
    BY <2>1 DEF Commits, Rest
  <2>3. n.prs[i].matched >= k BY <2>1, SoloCommit
  <2>4. k <= n.persisted BY <1>1, <1>3, <2>1, <2>3
  <2> QED BY <1>3, <2>2, <2>4 DEF SoloNode
<1>10. CASE Matches(n, x, {})
  <2>1. /\ x.log = n.log /\ x.persisted = n.persisted /\ x.committed = n.committed
        /\ x.state = n.state /\ x.prs[i].matched \in {n.prs[i].matched, n.persisted}
    BY <1>10 DEF Matches, Rest
  <2>2. n.persisted <= n.persisted BY <1>1
  <2> QED BY <1>3, <1>4, <2>1, <2>2
<1>11. CASE Repeats(n, x, {}) BY <1>11 DEF Repeats
<1> QED BY <1>1, <1>5, <1>6, <1>7, <1>8, <1>9, <1>10, <1>11 DEF Move

\* It wins an election, or adds an entry.
LEMMA SoloLead ==
  ASSUME ~ Many, NEW i \in Server, NEW b, NEW n, NodeOK(i, n, b), NEW x, NodeOK(i, x, b),
         NEW d \in Disk, NEW C \in Seq(Entry), SoloNode(i, n, d, C),
         \E l \in Node : (TakesOffice(n, l) \/ (n.state = "leader" /\ Adds(n, l))) /\ Sends(l, x)
  PROVE  SoloNode(i, x, d, C)
<1>1. PICK l \in Node : (TakesOffice(n, l) \/ (n.state = "leader" /\ Adds(n, l))) /\ Sends(l, x)
  OBVIOUS
<1>2. /\ n \in Node /\ x \in Node /\ n.log \in Seq(Entry) /\ n.term \in Nat
      /\ x.log \in Seq(Entry) /\ n.persisted \in Nat /\ d.log \in Seq(Entry) /\ n.id = i
      /\ n.persisted <= Len(n.log) /\ n.persisted <= n.persisted
  <2>1. n.persisted \in Nat BY DEF NodeOK, Node
  <2>2. n.persisted <= n.persisted BY <2>1
  <2> QED BY <2>1, <2>2 DEF NodeOK, Node, Disk
<1>3. PICK v \in Value \cup {Noop} : l.log = Append(n.log, [term |-> n.term, val |-> v])
  BY <1>1 DEF TakesOffice, Adds
<1>4. [term |-> n.term, val |-> v] \in Entry BY <1>2 DEF Entry
<1>5. Agree(l.log, n.log, n.persisted) BY <1>2, <1>3, <1>4, SoloAppend
<1>6. /\ x.log = l.log /\ x.persisted = l.persisted /\ x.committed = l.committed
      /\ x.prs[i].matched = l.prs[i].matched
  BY <1>1 DEF Sends, Rest, SameMatched
<1>7. l.persisted = n.persisted /\ l.committed = n.committed BY <1>1 DEF TakesOffice, Adds
<1>8. l.prs[i].matched <= n.persisted
  <2>1. CASE TakesOffice(n, l)
    <3>1. l.prs = LeaderProgress(n) BY <2>1 DEF TakesOffice
    <3>2. l.prs[i].matched = n.persisted BY <1>2, <3>1 DEF LeaderProgress
    <3> QED BY <1>2, <3>2
  <2>2. CASE n.state = "leader" /\ Adds(n, l) BY <2>2 DEF Adds, SoloNode
  <2> QED BY <1>1, <2>1, <2>2
<1> QED BY <1>2, <1>5, <1>6, <1>7, <1>8, SoloKeeps

\* A campaign of a single server: it is won at once.
LEMMA SoloCampaign ==
  ASSUME ~ Many, NEW i \in Server, NEW b \in Nat, NEW n, NodeOK(i, n, b), NEW d \in Disk,
         NEW C \in Seq(Entry), SoloNode(i, n, d, C)
  PROVE  SoloNode(i, Hup(n, FALSE), d, C)
<1>1. ASSUME NEW x, NodeOK(i, x, b), SoloNode(i, x, d, C), NEW y, NodeOK(i, y, b),
             y.log = x.log, y.persisted = x.persisted, y.committed = x.committed,
             y.state # "leader"
      PROVE  SoloNode(i, y, d, C)
  <2>1. /\ x.log \in Seq(Entry) /\ x.persisted \in Nat /\ d.log \in Seq(Entry)
        /\ x.persisted <= Len(x.log)
    BY <1>1 DEF NodeOK, Node, Disk
  <2>2. Agree(y.log, x.log, x.persisted) BY <1>1, <2>1 DEF Agree
  <2> QED BY <1>1, <2>1, <2>2, SoloKeeps
<1>2. ASSUME NEW x, NodeOK(i, x, b), SoloNode(i, x, d, C)
      PROVE  SoloNode(i, CampaignElection(x, FALSE), d, C)
  <2> DEFINE c == RecordVote(BecomeCandidate(x), x.id, TRUE)
             l == BecomeLeader(c)
             y == BroadcastAppend(l)
  <2>1. StartsCampaign(x, c) /\ NodeOK(i, c, b) BY <1>2, NewCandidate
  <2>2. CampaignElection(x, FALSE) \in {y, RequestVotes(c, "request_vote", c.term, FALSE)}
    BY DEF CampaignElection
  <2> HIDE DEF c
  <2>3. TakesOffice(c, l) /\ NodeOK(i, l, b) BY <2>1, NewLeader
  <2> HIDE DEF l
  <2>4. c \in Node /\ c.id = i /\ l \in Node /\ l.state = "leader"
    BY <2>1, <2>3 DEF TakesOffice, NodeOK
  <2>5. SoloNode(i, c, d, C)
    <3>1. /\ c.log = x.log /\ c.persisted = x.persisted /\ c.committed = x.committed
          /\ c.state # "leader"
      BY <2>1 DEF StartsCampaign
    <3> QED BY <1>1, <1>2, <2>1, <3>1
  <2>6. RequestVotes(c, "request_vote", c.term, FALSE) = c
    <3>1. \A type, t, force : RequestVotes(c, type, t, force) = c BY <2>4, NoPeers
    <3> QED BY <3>1, Zenon
  <2>7. Sends(l, y) /\ NodeOK(i, y, b)
    BY <2>3, <2>4, BroadcastAppendSends, BroadcastAppendOK
  <2> HIDE DEF y
  <2>8. SoloNode(i, y, d, C) BY <2>1, <2>3, <2>4, <2>5, <2>7, SoloLead
  <2> QED BY <2>2, <2>5, <2>6, <2>8
<1> DEFINE c == RecordVote(BecomePreCandidate(n), n.id, TRUE)
<1>3. StartsPreCampaign(n, c) /\ NodeOK(i, c, b) BY NewPreCandidate
<1>4. CampaignPreElection(n) \in
        {CampaignElection(c, FALSE), RequestVotes(c, "request_pre_vote", c.term + 1, FALSE)}
  BY DEF CampaignPreElection
<1> HIDE DEF c
<1>5. c \in Node /\ c.id = i BY <1>3 DEF NodeOK
<1>6. SoloNode(i, c, d, C)
  <2>1. /\ c.log = n.log /\ c.persisted = n.persisted /\ c.committed = n.committed
        /\ c.state # "leader"
    BY <1>3 DEF StartsPreCampaign
  <2> QED BY <1>1, <1>3, <2>1
<1>7. RequestVotes(c, "request_pre_vote", c.term + 1, FALSE) = c BY <1>5, NoPeers
<1>8. SoloNode(i, CampaignElection(c, FALSE), d, C) BY <1>2, <1>3, <1>6
<1>9. SoloNode(i, CampaignPreElection(n), d, C) BY <1>4, <1>6, <1>7, <1>8
<1>10. SoloNode(i, CampaignElection(n, FALSE), d, C) BY <1>2
<1> QED BY <1>9, <1>10 DEF Hup

\* What is decided is on disk.
LEMMA SoloDecides ==
  ASSUME NEW i, NEW x \in Node, x.persisted <= Len(x.log), NEW d, NEW C \in Seq(Entry),
         SoloNode(i, x, d, C), NEW C2,
         C2 = IF x.committed > Len(C) THEN SubSeq(x.log, 1, x.committed) ELSE C
  PROVE  SoloNode(i, x, d, C2) /\ x.committed <= Len(C2)
<1>1. Len(C) \in Nat BY LenProperties
<1>2. x.log \in Seq(Entry) /\ x.committed \in Nat /\ x.persisted \in Nat BY DEF Node
<1>3. Len(x.log) \in Nat /\ x.committed <= x.persisted BY <1>2, LenProperties DEF SoloNode
<1>4. x.committed <= Len(x.log) BY <1>2, <1>3
<1>5. CASE x.committed > Len(C)
  <2> DEFINE S == SubSeq(x.log, 1, x.committed)
  <2>1. Len(S) = x.committed /\ Agree(S, x.log, x.committed) BY <1>2, <1>4, PrefixAgrees
  <2>2. C2 = S BY <1>5
  <2>3. x.committed <= x.committed BY <1>2
  <2> HIDE DEF S
  <2> QED BY <1>3, <2>1, <2>2, <2>3 DEF SoloNode
<1>6. CASE ~ (x.committed > Len(C))
  <2>1. C2 = C /\ x.committed <= Len(C) BY <1>1, <1>2, <1>6
  <2> QED BY <2>1
<1> QED BY <1>5, <1>6

\* A restart of a single server.
LEMMA SoloRestart ==
  ASSUME NEW i \in Server, NEW n \in Node, NEW d \in Disk, NEW C \in Seq(Entry),
         Agree(C, n.log, Len(C)), Len(C) <= n.persisted, Agree(d.log, n.log, n.persisted),
         d.commit <= Len(d.log)
  PROVE  SoloNode(i, Restart(i, d), d, C)
<1> DEFINE x == Restart(i, d)
<1>1. /\ x.log = d.log /\ x.committed = d.commit /\ x.persisted = Len(d.log)
      /\ x.state = "follower"
  BY DEF Restart, LastIndex
<1>2. n.log \in Seq(Entry) /\ d.log \in Seq(Entry) /\ n.persisted \in Nat BY DEF Node, Disk
<1>3. Len(d.log) \in Nat /\ Len(C) \in Nat BY <1>2, LenProperties
<1>4. Agree(d.log, n.log, Len(C)) BY <1>2, <1>3, AgreeLess
<1>5. Agree(C, d.log, Len(C)) BY <1>4, AgreeRules
<1>6. Agree(d.log, d.log, Len(d.log)) BY <1>3 DEF Agree
<1>7. Len(C) <= Len(d.log) BY <1>5 DEF Agree
<1> HIDE DEF x
<1>8. SoloNode(i, x, d, C) BY <1>1, <1>5, <1>6, <1>7 DEF SoloNode
<1> QED BY <1>8 DEF x

\* Every step of a single server.
LEMMA SoloStep ==
  ASSUME SoloInv, ~ Many, [Next]_vars
  PROVE  \A i \in Server : /\ SoloNode(i, node'[i], disk'[i], decided')
                           /\ node'[i].committed <= Len(decided')
<1> DEFINE Goal == \A i \in Server : /\ SoloNode(i, node'[i], disk'[i], decided')
                                     /\ node'[i].committed <= Len(decided')
<1>1. /\ TypeInv /\ msgs = {} /\ node \in [Server -> Node] /\ disk \in [Server -> Disk]
      /\ decided \in Seq(Entry)
  BY DEF SoloInv, AloneInv, TypeInv, TypeOK
<1>2. ASSUME NEW i \in Server
      PROVE  /\ Server = {i} /\ NodeOK(i, node[i], disk[i].commit) /\ disk[i] \in Disk
             /\ disk[i].commit \in Nat /\ SoloNode(i, node[i], disk[i], decided)
             /\ node[i].committed <= Len(decided) /\ node[i].messages = {} /\ node[i] \in Node
             /\ disk[i].commit <= Len(disk[i].log)
  BY <1>1, <1>2 DEF SoloInv, AloneInv, Silent, Many, TypeInv, TypeOK, NodeOK, Disk, RestartInRange
<1>3. ASSUME NEW i \in Server, NEW x, NodeOK(i, x, disk[i].commit), NEW d,
             SoloNode(i, x, d, decided), disk' = [disk EXCEPT ![i] = d], Become(i, x)
      PROVE  Goal
  <2>1. node'[i] = x /\ disk'[i] = d /\ Server = {i} BY <1>1, <1>2, <1>3 DEF Become
  <2>2. decided' = IF x.committed > Len(decided)
                     THEN SubSeq(x.log, 1, x.committed) ELSE decided
    BY <1>3 DEF Become
  <2>3. x \in Node /\ x.persisted <= Len(x.log) BY <1>3 DEF NodeOK
  <2>4. SoloNode(i, x, d, decided') /\ x.committed <= Len(decided')
    BY <1>1, <1>3, <2>2, <2>3, SoloDecides
  <2> QED BY <2>1, <2>4
<1>4. ASSUME NEW i \in Server, disk' = disk PROVE disk' = [disk EXCEPT ![i] = disk[i]]
  BY <1>1, <1>4
<1>5. ASSUME NEW i \in Server, Campaign(i) PROVE Goal
  <2> DEFINE n == node[i]
             c == [n EXCEPT !.elapsed = FALSE]
             b == disk[i].commit
             x == Hup(c, FALSE)
  <2>1. /\ n \in Node /\ NodeOK(i, n, b) /\ b \in Nat /\ disk[i] \in Disk
        /\ SoloNode(i, n, disk[i], decided)
    BY <1>2
  <2>2. Become(i, x) /\ disk' = disk BY <1>5 DEF Campaign
  <2>3. /\ c \in Node /\ c.id = n.id /\ c.committed = n.committed /\ c.log = n.log
        /\ c.persisted = n.persisted /\ c.prs = n.prs /\ c.state = n.state
    <3> HIDE DEF n
    <3> QED BY <2>1 DEF Node
  <2> HIDE DEF c
  <2>4. NodeOK(i, c, b) BY <2>1, <2>3 DEF NodeOK
  <2>5. SoloNode(i, c, disk[i], decided) BY <2>1, <2>3 DEF SoloNode
  <2>6. SoloNode(i, x, disk[i], decided) /\ NodeOK(i, x, b)
    BY <1>1, <2>1, <2>4, <2>5, SoloCampaign, HupOK
  <2> HIDE DEF Goal, x
  <2> QED BY <1>3, <1>4, <2>2, <2>6
<1>6. ASSUME NEW i \in Server, Runs(i) PROVE Goal
  <2> DEFINE n == node[i]
             b == disk[i].commit
             d == disk[i]
             C == decided
  <2>1. NodeOK(i, n, b) /\ d \in Disk /\ SoloNode(i, n, d, C) /\ C \in Seq(Entry)
    BY <1>1, <1>2
  <2>2. PICK x : \/ Chain(i, b, n, x, {}) /\ Become(i, x)
                 \/ /\ NodeOK(i, x, b) /\ Sends(n, x)
                    /\ node' = [node EXCEPT ![i] = x] /\ UNCHANGED <<elected, decided>>
    BY <1>1, <1>6 DEF Runs
  <2>3. disk' = disk BY <1>6 DEF Runs
  <2>4. CASE Chain(i, b, n, x, {}) /\ Become(i, x)
    <3>1. PICK p, q, r, s : /\ Move(i, b, n, p, {}) /\ Move(i, b, p, q, {})
                            /\ Move(i, b, q, r, {}) /\ Move(i, b, r, s, {})
                            /\ Move(i, b, s, x, {}) \/ LeadMove(i, b, s, x, {})
      BY <2>4 DEF Chain
    <3>2. \A y, z : NodeOK(i, y, b) /\ SoloNode(i, y, d, C) /\ Move(i, b, y, z, {})
                      => NodeOK(i, z, b) /\ SoloNode(i, z, d, C)
      BY <2>1, SoloMove
    <3> HIDE DEF n, d, C, b
    <3>3. NodeOK(i, s, b) /\ SoloNode(i, s, d, C) BY <2>1, <3>1, <3>2
    <3>4. NodeOK(i, x, b) /\ SoloNode(i, x, d, C)
      <4>1. CASE Move(i, b, s, x, {}) BY <3>2, <3>3, <4>1
      <4>2. CASE LeadMove(i, b, s, x, {})
        <5>1. NodeOK(i, x, b) BY <4>2 DEF LeadMove
        <5>2. \E l \in Node : /\ TakesOffice(s, l) \/ (s.state = "leader" /\ Adds(s, l))
                              /\ Sends(l, x)
          BY <4>2 DEF LeadMove, WinsOffice, Proposes
        <5> QED BY <2>1, <3>3, <5>1, <5>2, SoloLead
      <4> QED BY <3>1, <4>1, <4>2
    <3> HIDE DEF Goal
    <3> QED BY <1>3, <1>4, <2>3, <2>4, <3>4 DEF d, C, b
  <2>5. CASE /\ NodeOK(i, x, b) /\ Sends(n, x)
             /\ node' = [node EXCEPT ![i] = x] /\ UNCHANGED <<elected, decided>>
    <3>1. Move(i, b, n, x, {}) BY <2>5 DEF Move
    <3>2. SoloNode(i, x, d, C) BY <2>1, <3>1, SoloMove
    <3>3. x.committed = n.committed BY <2>5 DEF Sends
    <3>4. node'[i] = x /\ disk'[i] = d /\ decided' = C BY <1>1, <2>3, <2>5
    <3>5. Server = {i} /\ n.committed <= Len(C) BY <1>2
    <3> QED BY <3>2, <3>3, <3>4, <3>5
  <2> QED BY <2>2, <2>4, <2>5
<1>7. ASSUME NEW i \in Server,
             \/ LeaseExpires(i)
             \/ LeaderTick(i)
             \/ Beat(i)
             \/ \E v \in Value : Propose(i, v)
             \/ \E s \in Server : TransferLeader(i, s)
             \/ \E s \in Server : Unreachable(i, s)
      PROVE  Goal
  <2> HIDE DEF Goal
  <2>1. CASE Campaign(i) BY <1>5, <2>1
  <2>2. CASE ~ Campaign(i)
    <3>1. Runs(i) BY <1>1, <1>7, <2>2, LocalRuns
    <3> QED BY <1>6, <3>1
  <2> QED BY <2>1, <2>2
<1>8. ASSUME NEW i \in Server, Ready(i) PROVE Goal
  <2> DEFINE n == node[i]
             b == disk[i].commit
             q == [n EXCEPT !.messages = {}]
             p == OnPersistEntries(q)
             x == [p EXCEPT !.messages = {}]
             C == decided
  <2>1. /\ NodeOK(i, n, b) /\ b \in Nat /\ disk[i] \in Disk /\ SoloNode(i, n, disk[i], C)
        /\ C \in Seq(Entry) /\ n \in Node /\ n.messages = {}
    BY <1>1, <1>2
  <2>2. q = n BY <2>1 DEF Node
  <2>3. PICK c \in {p.committed, n.committed, b} :
          disk' = [disk EXCEPT ![i] = HardState(n, disk[i], c)]
    BY <1>8 DEF Ready
  <2>4. Become(i, x) BY <1>8 DEF Ready
  <2> DEFINE d == HardState(n, disk[i], c)
  <2> HIDE DEF q
  <2>5. Persists(i, b, n, p, {}) BY <2>1, <2>2, OnPersistEntriesPersists
  <2> HIDE DEF p
  <2>6. PICK p0, a, e :
          /\ NodeOK(i, p0, b) /\ NodeOK(i, a, b) /\ NodeOK(i, e, b) /\ NodeOK(i, p, b)
          /\ p0 = [n EXCEPT !.persisted = Len(n.log)]
          /\ a = p0 \/ Matches(p0, a, {})
          /\ e = a \/ Learns(a, e, {})
          /\ Sends(e, p)
    BY <2>5 DEF Persists
  <2>7. /\ n.log \in Seq(Entry) /\ n.committed \in Nat /\ p.committed \in Nat /\ p \in Node
        /\ n.persisted \in Nat /\ n.persisted <= Len(n.log)
    BY <2>1, <2>6 DEF NodeOK, Node
  <2>8. Len(n.log) \in Nat /\ Len(C) \in Nat BY <2>1, <2>7, LenProperties
  <2>9. d \in Disk /\ d.log = n.log
    <3>1. c \in Nat BY <2>1, <2>3, <2>7
    <3>2. n.term \in Nat /\ n.vote \in Server \cup {None} BY <2>1 DEF Node
    <3> HIDE DEF n
    <3> QED BY <2>1, <2>7, <3>1, <3>2 DEF HardState, Disk
  <2>10. SoloNode(i, p0, d, C)
    <3>1. /\ p0.log = n.log /\ p0.persisted = Len(n.log) /\ p0.committed = n.committed
          /\ p0.state = n.state /\ p0.prs = n.prs
      <4> HIDE DEF n
      <4> QED BY <2>1, <2>6 DEF Node
    <3>2. Agree(n.log, n.log, Len(n.log)) BY <2>8 DEF Agree
    <3>3. /\ Agree(C, n.log, Len(C)) /\ Len(C) <= n.persisted /\ n.committed <= n.persisted
          /\ n.state = "leader" => n.prs[i].matched <= n.persisted
      BY <2>1 DEF SoloNode
    <3>4. n.prs[i].matched \in Nat BY <2>1 DEF Node, Progress
    <3> HIDE DEF n, d, C
    <3>5. Len(C) <= Len(n.log) /\ n.committed <= Len(n.log) BY <2>7, <2>8, <3>3, LeTransitive
    <3>6. n.state = "leader" => n.prs[i].matched <= Len(n.log)
      BY <2>7, <2>8, <3>3, <3>4, LeTransitive
    <3> QED BY <2>9, <3>1, <3>2, <3>3, <3>5, <3>6 DEF SoloNode
  <2> HIDE DEF n, d, C, b
  <2>11. \A y, z : NodeOK(i, y, b) /\ SoloNode(i, y, d, C) /\ Move(i, b, y, z, {})
                     => NodeOK(i, z, b) /\ SoloNode(i, z, d, C)
    BY <2>1, <2>9, SoloMove
  <2>12. SoloNode(i, a, d, C)
    <3>1. a = p0 \/ Move(i, b, p0, a, {}) BY <2>6 DEF Move
    <3> QED BY <2>6, <2>10, <2>11, <3>1
  <2>13. SoloNode(i, e, d, C)
    <3>1. e = a \/ Move(i, b, a, e, {}) BY <2>6 DEF Move
    <3> QED BY <2>6, <2>11, <2>12, <3>1
  <2>14. SoloNode(i, p, d, C)
    <3>1. Move(i, b, e, p, {}) BY <2>6 DEF Move
    <3> QED BY <2>6, <2>11, <2>13, <3>1
  <2>15. /\ x \in Node /\ x.log = p.log /\ x.persisted = p.persisted /\ x.prs = p.prs
         /\ x.committed = p.committed /\ x.state = p.state /\ x.id = p.id
    BY <2>7 DEF Node
  <2> HIDE DEF x
  <2>16. NodeOK(i, x, b) BY <2>6, <2>15 DEF NodeOK
  <2>17. SoloNode(i, x, d, C) BY <2>14, <2>15 DEF SoloNode
  <2>18. disk' = [disk EXCEPT ![i] = d] BY <2>3 DEF d, n
  <2> HIDE DEF Goal
  <2> QED BY <1>3, <2>4, <2>16, <2>17, <2>18 DEF C, b
<1>9. ASSUME NEW i \in Server, NEW d \in Disk, RestartFrom(i, d), d.commit <= Len(d.log),
             Agree(d.log, node[i].log, node[i].persisted), d.commit <= node[i].committed
      PROVE  Goal
  <2>1. /\ node'[i] = Restart(i, d) /\ disk'[i] = d /\ decided' = decided /\ Server = {i}
    BY <1>1, <1>2, <1>9 DEF RestartFrom
  <2>2. /\ Agree(decided, node[i].log, Len(decided)) /\ Len(decided) <= node[i].persisted
        /\ node[i] \in Node
    BY <1>2 DEF SoloNode
  <2>3. SoloNode(i, Restart(i, d), d, decided) BY <1>1, <1>9, <2>2, SoloRestart
  <2>4. Restart(i, d).committed = d.commit BY DEF Restart
  <2>5. d.commit <= Len(decided)
    <3>1. d.commit \in Nat /\ node[i].committed \in Nat BY <2>2 DEF Disk, Node
    <3>2. Len(decided) \in Nat BY <1>1, LenProperties
    <3> QED BY <1>2, <1>9, <3>1, <3>2, LeTransitive
  <2> QED BY <2>1, <2>3, <2>4, <2>5
<1>10. ASSUME NEW i \in Server,
              \/ Crash(i)
              \/ \E k \in 0..LastIndex(node[i].log) : CrashInAppend(i, k)
              \/ CrashBeforeAdvance(i)
       PROVE  Goal
  <2> DEFINE n == node[i]
  <2>1. /\ n \in Node /\ NodeOK(i, n, disk[i].commit) /\ disk[i] \in Disk
        /\ SoloNode(i, n, disk[i], decided) /\ disk[i].commit <= Len(disk[i].log)
        /\ disk[i].commit \in Nat
    BY <1>2
  <2>2. /\ n.log \in Seq(Entry) /\ n.persisted \in Nat /\ n.committed \in Nat
        /\ n.persisted <= Len(n.log) /\ n.committed <= Len(n.log)
        /\ disk[i].commit <= n.committed /\ disk[i].commit <= n.persisted
    BY <2>1 DEF NodeOK, Node
  <2>3. Len(n.log) \in Nat BY <2>2, LenProperties
  <2> HIDE DEF Goal
  <2>4. CASE Crash(i)
    <3>1. Agree(disk[i].log, n.log, n.persisted) BY <2>1, AgreeRules DEF SoloNode
    <3> QED BY <1>9, <2>1, <2>2, <2>4, <3>1 DEF Crash
  <2>5. ASSUME NEW k \in 0..LastIndex(n.log), CrashInAppend(i, k) PROVE Goal
    <3> DEFINE S == SubSeq(n.log, 1, k)
               d == [disk[i] EXCEPT !.log = S]
    <3>1. RestartFrom(i, d) /\ n.persisted <= k BY <2>5 DEF CrashInAppend
    <3>2. k \in Nat /\ k <= Len(n.log) BY <2>3 DEF LastIndex
    <3>3. S \in Seq(Entry) /\ Agree(S, n.log, k) /\ Len(S) = k BY <2>2, <3>2, PrefixAgrees
    <3> HIDE DEF S
    <3>4. Agree(S, n.log, n.persisted) BY <2>2, <3>1, <3>2, <3>3, AgreeLess
    <3>5. d \in Disk /\ d.log = S /\ d.commit = disk[i].commit BY <2>1, <3>3 DEF Disk
    <3>6. disk[i].commit <= Len(S) BY <2>1, <2>2, <3>1, <3>2, <3>3, LeTransitive
    <3> HIDE DEF d
    <3> QED BY <1>9, <2>2, <3>1, <3>4, <3>5, <3>6
  <2>6. CASE CrashBeforeAdvance(i)
    <3> DEFINE d == HardState(n, disk[i], n.committed)
    <3>1. RestartFrom(i, d) BY <2>6 DEF CrashBeforeAdvance
    <3>2. d \in Disk /\ d.log = n.log /\ d.commit = n.committed
      <4>1. n.term \in Nat /\ n.vote \in Server \cup {None} BY <2>1 DEF Node
      <4> HIDE DEF n
      <4> QED BY <2>1, <2>2, <4>1 DEF HardState, Disk
    <3>3. Agree(n.log, n.log, n.persisted) /\ n.committed <= n.committed
      BY <2>2 DEF Agree
    <3> HIDE DEF d
    <3> QED BY <1>9, <2>2, <3>1, <3>2, <3>3
  <2> QED BY <1>10, <2>4, <2>5, <2>6
<1>11. ASSUME UNCHANGED vars PROVE Goal BY <1>2, <1>11 DEF vars
<1>12. ~ \E m \in msgs : Receive(m) BY <1>1
<1> HIDE DEF Goal
<1>13. Goal BY <1>5, <1>7, <1>8, <1>10, <1>11, <1>12 DEF Next
<1> QED BY <1>13 DEF Goal

\* What a single server commits stays on its disk.
LEMMA SoloInvInductive == Spec => []SoloInv
<1>1. Init /\ TypeInv /\ AloneInv => SoloInv
  <2> SUFFICES ASSUME Init, TypeInv, AloneInv, NEW i \in Server
               PROVE  /\ SoloNode(i, node[i], disk[i], decided)
                      /\ node[i].committed <= Len(decided)
    BY DEF SoloInv
  <2>1. /\ decided = <<>> /\ disk[i].log = <<>> /\ node[i].log = <<>> /\ node[i].committed = 0
        /\ node[i].persisted = 0 /\ node[i].state = "follower"
    BY DEF Init, Restart, LastIndex
  <2> QED BY <2>1 DEF SoloNode, Agree
<1>2. SoloInv /\ TypeInv' /\ AloneInv' /\ [Next]_vars => SoloInv'
  BY SoloStep DEF SoloInv, Many
<1>3. Spec => []TypeInv BY HardInvInductive, PTL DEF HardInv
<1> QED BY <1>1, <1>2, <1>3, AloneInvInductive, PTL DEF Spec

\* All servers are a quorum.
LEMMA EveryoneIsQuorum == IsQuorum(Incoming, Outgoing, Server)
<1>1. ASSUME NEW V \in SUBSET Server PROVE IsMajorityOf(V, Server)
  <2>1. IsFiniteSet(V) BY RaftAssumption, FS_Subset
  <2>2. V \cap Server = V OBVIOUS
  <2>3. Cardinality(V) \in Nat BY <2>1, FS_CardinalityType
  <2>4. V # {} => Cardinality(V) > 0
    <3>1. Cardinality(V) = 0 <=> V = {} BY <2>1, FS_EmptySet
    <3> QED BY <2>3, <3>1
  <2>5. ASSUME NEW c \in Nat, c > 0 PROVE c >= Majority(c) BY <2>5 DEF Majority
  <2>6. V # {} => Cardinality(V) >= Majority(Cardinality(V)) BY <2>3, <2>4, <2>5
  <2> QED BY <2>2, <2>6 DEF IsMajorityOf
<1>2. Incoming \in SUBSET Server /\ Outgoing \in SUBSET Server BY RaftAssumption
<1> QED BY <1>1, <1>2 DEF IsQuorum

-----------------------------------------------------------------------------
(***************************************************************************)
(* The terms of a single server's log.  Its own vote is a quorum, so it is *)
(* elected at once and never steps down: it leads at most one term above   *)
(* the one on its disk.  A torn append may leave entries of that term under*)
(* the old HardState.                                                      *)
(***************************************************************************)
InOrder(S, t) ==
  /\ \A k \in 2..Len(S) : S[k - 1].term <= S[k].term
  /\ \A k \in 1..Len(S) : S[k].term <= t

SoloTerms(n, d) ==
  /\ InOrder(n.log, d.term + 1) /\ InOrder(d.log, d.term + 1)
  /\ n.state = "leader" => InOrder(n.log, n.term) /\ n.term \in {d.term, d.term + 1}
  /\ n.state # "leader" => n.term = d.term

SoloTermsInv == ~ Many => \A i \in Server : SoloTerms(node[i], disk[i])

\* The terms stay in order in a prefix, under a later term, and when an entry
\* of the latest term is appended.
LEMMA InOrderRules ==
  ASSUME NEW S \in Seq(Entry), NEW t \in Nat, InOrder(S, t)
  PROVE  /\ \A u \in Nat : t <= u => InOrder(S, u)
         /\ \A k \in Nat : k <= Len(S) => InOrder(SubSeq(S, 1, k), t)
         /\ \A v : InOrder(Append(S, [term |-> t, val |-> v]), t)
<1>1. /\ Len(S) \in Nat
      /\ \A k \in 1..Len(S) : S[k] \in Entry /\ S[k].term \in Nat /\ S[k].term <= t
      /\ \A k \in 2..Len(S) : S[k - 1].term <= S[k].term
  <2>1. Len(S) \in Nat BY LenProperties
  <2>2. \A k \in 1..Len(S) : S[k] \in Entry BY ElementOfSeq
  <2> QED BY <2>1, <2>2 DEF InOrder, Entry
<1>2. ASSUME NEW u \in Nat, t <= u PROVE InOrder(S, u)
  <2>1. \A k \in 1..Len(S) : S[k].term <= u BY <1>1, <1>2
  <2> QED BY <1>1, <2>1 DEF InOrder
<1>3. ASSUME NEW k \in Nat, k <= Len(S) PROVE InOrder(SubSeq(S, 1, k), t)
  <2> DEFINE P == SubSeq(S, 1, k)
  <2>1. Len(P) = k /\ \A j \in 1..k : P[j] = S[j] BY <1>3, PrefixAgrees DEF Agree
  <2> HIDE DEF P
  <2>2. \A j \in 1..k : j \in 1..Len(S) BY <1>1, <1>3
  <2>3. \A j \in 2..k : j \in 2..Len(S) /\ j \in 1..k /\ j - 1 \in 1..k BY <1>1, <1>3
  <2>4. InOrder(P, t) BY <1>1, <2>1, <2>2, <2>3 DEF InOrder
  <2> QED BY <2>4 DEF P
<1>4. ASSUME NEW v PROVE InOrder(Append(S, [term |-> t, val |-> v]), t)
  <2> DEFINE e == [term |-> t, val |-> v]
             L == Len(S)
             P == Append(S, e)
  <2>1. /\ Len(P) = L + 1 /\ P[L + 1].term = t
        /\ \A j \in 1..L : P[j] = S[j]
    <3>1. e.term = t OBVIOUS
    <3>2. Len(Append(S, e)) = Len(S) + 1 /\ Append(S, e)[Len(S) + 1] = e BY <1>1
    <3>3. \A j \in 1..Len(S) : Append(S, e)[j] = S[j] BY <1>1
    <3> HIDE DEF e
    <3> QED BY <3>1, <3>2, <3>3
  <2>2. \A j \in 1..L : P[j].term <= t /\ P[j].term \in Nat BY <1>1, <2>1
  <2> HIDE DEF P
  <2>3. ASSUME NEW j \in 2..Len(P) PROVE P[j - 1].term <= P[j].term
    <3>1. CASE j = L + 1
      <4>1. j - 1 \in 1..L BY <1>1, <2>1, <2>3, <3>1
      <4> QED BY <2>1, <2>2, <3>1, <4>1
    <3>2. CASE j # L + 1
      <4>1. j \in 2..L /\ j \in 1..L /\ j - 1 \in 1..L BY <1>1, <2>1, <2>3, <3>2
      <4> QED BY <1>1, <2>1, <4>1
    <3> QED BY <3>1, <3>2
  <2>4. ASSUME NEW j \in 1..Len(P) PROVE P[j].term <= t
    <3>1. j = L + 1 \/ j \in 1..L BY <1>1, <2>1, <2>4
    <3>2. t <= t OBVIOUS
    <3> QED BY <2>1, <2>2, <3>1, <3>2
  <2>5. InOrder(P, t) BY <2>3, <2>4 DEF InOrder
  <2> QED BY <2>5 DEF P
<1> QED BY <1>2, <1>3, <1>4

\* A single server's vote for itself wins, and its own presence is a quorum.
LEMMA SoloWins ==
  ASSUME ~ Many, NEW i \in Server
  PROVE  /\ \A c : c.votes[i] = "yes" => Tally(c) = "won"
         /\ \A S : i \in S => HasQuorum(Incoming, Outgoing, S)
<1>1. Server = {i} BY DEF Many
<1>2. IsFiniteSet(Incoming) /\ IsFiniteSet(Outgoing) /\ Incoming \cup Outgoing = Server
  <2>1. Incoming \subseteq Server /\ Outgoing \subseteq Server BY RaftAssumption
  <2> QED BY <2>1, RaftAssumption, FS_Subset
<1>3. ASSUME NEW f, f[i] = "yes" PROVE JointVoteResult(Incoming, Outgoing, f) = "won"
  <2>1. {s \in Incoming \cup Outgoing : f[s] = "yes"} = Server BY <1>1, <1>2, <1>3
  <2> QED BY <1>2, <2>1, WonByQuorum, EveryoneIsQuorum
<1>4. ASSUME NEW S, i \in S PROVE HasQuorum(Incoming, Outgoing, S)
  <2> DEFINE f == [s \in Incoming \cup Outgoing |-> IF s \in S THEN "yes" ELSE "no"]
  <2>1. f[i] = "yes" BY <1>2, <1>4
  <2> HIDE DEF f
  <2>2. JointVoteResult(Incoming, Outgoing, f) = "won" BY <1>3, <2>1
  <2> QED BY <2>2 DEF HasQuorum, f
<1> QED BY <1>3, <1>4 DEF Tally

\* A campaign of a single server is won at once, one term later.
LEMMA SoloElected ==
  ASSUME ~ Many, NEW i \in Server, NEW b \in Nat, NEW n, NodeOK(i, n, b),
         NEW d \in Disk, n.state # "leader", SoloTerms(n, d)
  PROVE  SoloTerms(Hup(n, FALSE), d)
<1>1. n \in Node /\ n.id = i /\ n.term = d.term /\ d.term \in Nat /\ InOrder(n.log, d.term + 1)
      /\ InOrder(d.log, d.term + 1)
  BY DEF NodeOK, SoloTerms, Disk
<1>2. ASSUME NEW x, NodeOK(i, x, b), x.term = d.term, x.log = n.log
      PROVE  SoloTerms(CampaignElection(x, FALSE), d)
  <2> DEFINE c == RecordVote(BecomeCandidate(x), x.id, TRUE)
             l == BecomeLeader(c)
             y == BroadcastAppend(l)
  <2>1. StartsCampaign(x, c) /\ NodeOK(i, c, b) BY <1>2, NewCandidate
  <2>2. x.id = i BY <1>2 DEF NodeOK
  <2>3. CampaignElection(x, FALSE) = IF Tally(c) = "won" THEN y
                                     ELSE RequestVotes(c, "request_vote", c.term, FALSE)
    BY DEF CampaignElection
  <2> HIDE DEF c
  <2>4. c.votes[i] = "yes" BY <2>1, <2>2 DEF StartsCampaign, NoVotes
  <2>5. CampaignElection(x, FALSE) = y BY <2>3, <2>4, SoloWins
  <2>6. TakesOffice(c, l) /\ NodeOK(i, l, b) BY <2>1, NewLeader
  <2> HIDE DEF l
  <2>7. l.state = "leader" BY <2>6 DEF TakesOffice
  <2>8. Sends(l, y) BY <2>6, <2>7, BroadcastAppendSends
  <2> HIDE DEF y
  <2>9. /\ y.state = "leader" /\ y.term = d.term + 1
        /\ y.log = Append(n.log, [term |-> d.term + 1, val |-> Noop])
    BY <1>2, <2>1, <2>6, <2>8 DEF Sends, Rest, TakesOffice, StartsCampaign
  <2>10. n.log \in Seq(Entry) /\ d.term + 1 \in Nat BY <1>1 DEF Node
  <2>11. InOrder(y.log, d.term + 1) BY <1>1, <2>9, <2>10, InOrderRules
  <2> QED BY <1>1, <2>5, <2>9, <2>11 DEF SoloTerms
<1> DEFINE c == RecordVote(BecomePreCandidate(n), n.id, TRUE)
<1>3. StartsPreCampaign(n, c) /\ NodeOK(i, c, b) BY NewPreCandidate
<1>4. CampaignPreElection(n) =
        IF Tally(c) = "won" THEN CampaignElection(c, FALSE)
        ELSE RequestVotes(c, "request_pre_vote", c.term + 1, FALSE)
  BY DEF CampaignPreElection
<1> HIDE DEF c
<1>5. c.votes[i] = "yes" /\ c.term = d.term /\ c.log = n.log
  BY <1>1, <1>3 DEF StartsPreCampaign, NoVotes
<1>6. CampaignPreElection(n) = CampaignElection(c, FALSE) BY <1>4, <1>5, SoloWins
<1>7. SoloTerms(CampaignPreElection(n), d) BY <1>2, <1>3, <1>5, <1>6
<1>8. SoloTerms(CampaignElection(n, FALSE), d) BY <1>1, <1>2
<1> QED BY <1>7, <1>8 DEF Hup

\* Every step of a single server keeps the terms in order.
LEMMA SoloTermsStep ==
  ASSUME TypeInv, AloneInv, SoloTermsInv, ~ Many, [Next]_vars
  PROVE  \A i \in Server : SoloTerms(node'[i], disk'[i])
<1> DEFINE Goal == \A i \in Server : SoloTerms(node'[i], disk'[i])
<1>1. /\ msgs = {} /\ node \in [Server -> Node] /\ disk \in [Server -> Disk]
  BY DEF AloneInv, TypeInv, TypeOK
<1>2. ASSUME NEW i \in Server
      PROVE  /\ Server = {i} /\ NodeOK(i, node[i], disk[i].commit) /\ disk[i] \in Disk
             /\ disk[i].commit \in Nat /\ SoloTerms(node[i], disk[i]) /\ node[i] \in Node
             /\ node[i].id = i /\ node[i].log \in Seq(Entry) /\ node[i].term \in Nat
             /\ disk[i].term \in Nat /\ disk[i].term + 1 \in Nat /\ Silent(node[i])
  BY <1>1, <1>2 DEF SoloTermsInv, AloneInv, Many, TypeInv, NodeOK, Node, Disk
<1>3. ASSUME NEW i \in Server, NEW x, NEW d, SoloTerms(x, d),
             node' = [node EXCEPT ![i] = x], disk' = [disk EXCEPT ![i] = d]
      PROVE  Goal
  <2>1. node'[i] = x /\ disk'[i] = d /\ Server = {i} BY <1>1, <1>2, <1>3
  <2> QED BY <1>3, <2>1
<1>4. ASSUME NEW i \in Server, NEW x, SoloTerms(x, disk[i]), node' = [node EXCEPT ![i] = x],
             disk' = disk
      PROVE  Goal
  <2>1. disk' = [disk EXCEPT ![i] = disk[i]] BY <1>1, <1>4
  <2> HIDE DEF Goal
  <2> QED BY <1>3, <1>4, <2>1
<1>5. ASSUME NEW i \in Server, NEW x, Rest(node[i], x), node' = [node EXCEPT ![i] = x],
             disk' = disk
      PROVE  Goal
  <2>1. SoloTerms(x, disk[i]) BY <1>2, <1>5 DEF SoloTerms, Rest
  <2> HIDE DEF Goal
  <2> QED BY <1>4, <1>5, <2>1
<1> HIDE DEF Goal
<1>6. ASSUME NEW i \in Server, Campaign(i) PROVE Goal
  <2> DEFINE n == node[i]
             c == [n EXCEPT !.elapsed = FALSE]
             x == Hup(c, FALSE)
  <2>1. /\ n \in Node /\ NodeOK(i, n, disk[i].commit) /\ SoloTerms(n, disk[i])
        /\ n.state # "leader"
    BY <1>2, <1>6 DEF Campaign
  <2>2. node' = [node EXCEPT ![i] = x] /\ disk' = disk BY <1>6 DEF Campaign, Become
  <2>3. /\ c \in Node /\ c.id = n.id /\ c.committed = n.committed /\ c.log = n.log
        /\ c.persisted = n.persisted /\ c.prs = n.prs /\ c.state = n.state
        /\ c.term = n.term
    <3> HIDE DEF n
    <3> QED BY <2>1 DEF Node
  <2> HIDE DEF c
  <2>4. NodeOK(i, c, disk[i].commit) BY <2>1, <2>3 DEF NodeOK
  <2>5. SoloTerms(c, disk[i]) BY <2>1, <2>3 DEF SoloTerms
  <2>6. SoloTerms(x, disk[i]) BY <1>2, <2>1, <2>3, <2>4, <2>5, SoloElected
  <2> HIDE DEF x
  <2> QED BY <1>4, <2>2, <2>6
<1>7. ASSUME NEW i \in Server, LeaseExpires(i) PROVE Goal
  <2> DEFINE x == [node[i] EXCEPT !.elapsed = TRUE]
  <2>1. node' = [node EXCEPT ![i] = x] /\ disk' = disk BY <1>7 DEF LeaseExpires
  <2>2. Rest(node[i], x) BY <1>2 DEF Rest, Node
  <2> HIDE DEF x
  <2> QED BY <1>5, <2>1, <2>2
<1>8. ASSUME NEW i \in Server, LeaderTick(i) PROVE Goal
  <2> DEFINE n == node[i]
             active == {n.id} \cup {s \in Server : n.prs[s].recent_active}
             w == [n EXCEPT !.lead_transferee = None]
             z == [NewWindow(n) EXCEPT !.elapsed = FALSE, !.lead_transferee = None]
             x == LeaderTimeout(n)
  <2>1. node' = [node EXCEPT ![i] = x] /\ disk' = disk BY <1>8 DEF LeaderTick, Become
  <2>2. n \in Node /\ i \in active BY <1>2
  <2>3. HasQuorum(Incoming, Outgoing, active)
    <3> HIDE DEF active
    <3> QED BY <2>2, SoloWins
  <2>4. x \in {w, z} BY <2>3 DEF LeaderTimeout
  <2> HIDE DEF n
  <2>5. Rest(n, w) BY <2>2 DEF Rest, Node
  <2>6. Rest(n, z) BY <2>2 DEF Rest, Node, NewWindow
  <2> HIDE DEF x, w, z
  <2>7. Rest(n, x) BY <2>4, <2>5, <2>6
  <2> QED BY <1>5, <2>1, <2>7 DEF n
<1>9. ASSUME NEW i \in Server, Beat(i) PROVE Goal
  <2> DEFINE x == BroadcastHeartbeat(node[i])
  <2>1. node' = [node EXCEPT ![i] = x] /\ disk' = disk /\ node[i].state = "leader"
    BY <1>9 DEF Beat, Become
  <2>2. Rest(node[i], x) BY <1>2, <2>1, BroadcastHeartbeatSends DEF Sends
  <2> HIDE DEF x
  <2> QED BY <1>5, <2>1, <2>2
<1>10. ASSUME NEW i \in Server, NEW v \in Value, Propose(i, v) PROVE Goal
  <2> DEFINE n == node[i]
             a == AppendEntry(n, v)
             y == BroadcastAppend(a)
             x == HandlePropose(n, v)
             d == disk[i]
  <2>1. n.state = "leader" /\ node' = [node EXCEPT ![i] = x] /\ disk' = disk
    BY <1>2, <1>10 DEF Propose, Become, Silent
  <2>2. /\ NodeOK(i, n, d.commit) /\ d.commit \in Nat /\ n \in Node /\ SoloTerms(n, d)
        /\ n.log \in Seq(Entry) /\ n.term \in Nat /\ d.term \in Nat /\ d.term + 1 \in Nat
    BY <1>2
  <2>3. x \in {n, y} BY DEF HandlePropose
  <2>4. NodeOK(i, a, d.commit) BY <2>2, AppendEntryOK
  <2>5. /\ a.log = Append(n.log, [term |-> n.term, val |-> v]) /\ a.term = n.term
        /\ a.state = n.state
    <3> HIDE DEF n
    <3> QED BY <2>2 DEF AppendEntry, Node
  <2> HIDE DEF a
  <2>6. Sends(a, y) BY <2>1, <2>2, <2>4, <2>5, BroadcastAppendSends
  <2>7. y.log = a.log /\ y.term = n.term /\ y.state = "leader"
    BY <2>1, <2>5, <2>6 DEF Sends, Rest
  <2> HIDE DEF n, y, x, d
  <2>8. /\ InOrder(n.log, n.term) /\ n.term \in {d.term, d.term + 1}
        /\ InOrder(d.log, d.term + 1)
    BY <2>1, <2>2 DEF SoloTerms
  <2>9. InOrder(y.log, n.term) /\ y.log \in Seq(Entry)
    <3>1. [term |-> n.term, val |-> v] \in Entry BY <2>2 DEF Entry
    <3>2. y.log \in Seq(Entry) BY <2>2, <2>5, <2>7, <3>1, AppendProperties
    <3>3. InOrder(y.log, n.term) BY <2>2, <2>5, <2>7, <2>8, InOrderRules
    <3> QED BY <3>2, <3>3
  <2>10. n.term <= d.term + 1 BY <2>2, <2>8
  <2>11. InOrder(y.log, d.term + 1) BY <2>2, <2>9, <2>10, InOrderRules
  <2>12. SoloTerms(y, d) BY <2>7, <2>8, <2>9, <2>11 DEF SoloTerms
  <2>13. SoloTerms(x, d) BY <2>2, <2>3, <2>12
  <2> QED BY <1>4, <2>1, <2>13 DEF d
<1>11. ASSUME NEW i \in Server, NEW s \in Server, TransferLeader(i, s) PROVE Goal
  <2> DEFINE x == HandleTransferLeader(node[i], s)
  <2>1. node' = [node EXCEPT ![i] = x] /\ disk' = disk /\ node[i].state = "leader"
    BY <1>2, <1>11 DEF TransferLeader, Become, Silent
  <2>2. Sends(node[i], x) BY <1>2, <2>1, HandleTransferLeaderSends
  <2> HIDE DEF x
  <2> QED BY <1>5, <2>1, <2>2 DEF Sends
<1>12. ASSUME NEW i \in Server, NEW s \in Server, Unreachable(i, s) PROVE Goal
  BY <1>2, <1>12 DEF Unreachable
<1>13. ASSUME NEW i \in Server, Ready(i) PROVE Goal
  <2> DEFINE n == node[i]
             q == [n EXCEPT !.messages = {}]
             p == OnPersistEntries(q)
             x == [p EXCEPT !.messages = {}]
  <2>1. n \in Node /\ NodeOK(i, n, disk[i].commit) /\ n.messages = {} /\ disk[i].commit \in Nat
    BY <1>2 DEF Silent
  <2>2. q = n
    <3> HIDE DEF n
    <3> QED BY <2>1 DEF Node
  <2>3. PICK c : disk' = [disk EXCEPT ![i] = HardState(n, disk[i], c)] BY <1>13 DEF Ready
  <2> DEFINE d == HardState(n, disk[i], c)
  <2>4. node' = [node EXCEPT ![i] = x] BY <1>13 DEF Ready, Become
  <2> HIDE DEF q
  <2>5. Persists(i, disk[i].commit, n, p, {}) BY <2>1, <2>2, OnPersistEntriesPersists
  <2> HIDE DEF p
  <2>6. /\ p.term = n.term /\ p.log = n.log /\ p.state = n.state /\ p \in Node
    <3>1. PICK p0, a, e :
            /\ NodeOK(i, p, disk[i].commit)
            /\ p0 = [n EXCEPT !.persisted = Len(n.log)]
            /\ a = p0 \/ Matches(p0, a, {})
            /\ e = a \/ Learns(a, e, {})
            /\ Sends(e, p)
      BY <2>5 DEF Persists
    <3>2. p0.term = n.term /\ p0.log = n.log /\ p0.state = n.state
      <4> HIDE DEF n
      <4> QED BY <2>1, <3>1 DEF Node
    <3>3. a.term = n.term /\ a.log = n.log /\ a.state = n.state
      BY <3>1, <3>2 DEF Matches, Rest
    <3>4. e.term = n.term /\ e.log = n.log /\ e.state = n.state
      BY <3>1, <3>3 DEF Learns, Commits, Rest
    <3> QED BY <3>1, <3>4 DEF Sends, Rest, NodeOK
  <2>7. x.term = n.term /\ x.log = n.log /\ x.state = n.state BY <2>6 DEF Node
  <2>8. d.term = n.term /\ d.log = n.log
    <3>1. disk[i] \in Disk BY <1>2
    <3> HIDE DEF n
    <3> QED BY <3>1 DEF HardState, Disk
  <2> HIDE DEF x, d
  <2>9. InOrder(n.log, n.term + 1)
    <3>1. CASE n.state = "leader"
      <4>1. InOrder(n.log, n.term) BY <1>2, <3>1 DEF SoloTerms
      <4>2. n.log \in Seq(Entry) /\ n.term \in Nat /\ n.term + 1 \in Nat /\ n.term <= n.term + 1
        BY <1>2
      <4> HIDE DEF n
      <4> QED BY <4>1, <4>2, InOrderRules
    <3>2. CASE n.state # "leader" BY <1>2, <3>2 DEF SoloTerms
    <3> QED BY <3>1, <3>2
  <2>10. n.state = "leader" => InOrder(n.log, n.term) BY <1>2 DEF SoloTerms
  <2>11. SoloTerms(x, d) BY <2>7, <2>8, <2>9, <2>10 DEF SoloTerms
  <2> QED BY <1>3, <2>3, <2>4, <2>11 DEF d
<1>14. ASSUME NEW i \in Server, NEW d, RestartFrom(i, d), InOrder(d.log, d.term + 1) PROVE Goal
  <2> DEFINE x == Restart(i, d)
  <2>1. node' = [node EXCEPT ![i] = x] /\ disk' = [disk EXCEPT ![i] = d] BY <1>14 DEF RestartFrom
  <2>2. x.term = d.term /\ x.log = d.log /\ x.state = "follower" BY DEF Restart
  <2> HIDE DEF x
  <2>3. SoloTerms(x, d) BY <1>14, <2>2 DEF SoloTerms
  <2> QED BY <1>3, <2>1, <2>3
<1>15. ASSUME NEW i \in Server, Crash(i) PROVE Goal
  <2>1. InOrder(disk[i].log, disk[i].term + 1) BY <1>2 DEF SoloTerms
  <2> QED BY <1>14, <1>15, <2>1 DEF Crash
<1>16. ASSUME NEW i \in Server, NEW k \in 0..LastIndex(node[i].log), CrashInAppend(i, k)
       PROVE  Goal
  <2> DEFINE S == SubSeq(node[i].log, 1, k)
             d == [disk[i] EXCEPT !.log = S]
  <2>1. RestartFrom(i, d) BY <1>16 DEF CrashInAppend
  <2>2. k \in Nat /\ k <= Len(node[i].log)
    <3>1. Len(node[i].log) \in Nat BY <1>2, LenProperties
    <3> QED BY <3>1 DEF LastIndex
  <2>3. InOrder(node[i].log, disk[i].term + 1) BY <1>2 DEF SoloTerms
  <2>4. InOrder(S, disk[i].term + 1) BY <1>2, <2>2, <2>3, InOrderRules
  <2> HIDE DEF S
  <2>5. d.log = S /\ d.term = disk[i].term BY <1>2 DEF Disk
  <2> HIDE DEF d
  <2> QED BY <1>14, <2>1, <2>4, <2>5
<1>17. ASSUME NEW i \in Server, CrashBeforeAdvance(i) PROVE Goal
  <2> DEFINE n == node[i]
             d == HardState(n, disk[i], n.committed)
  <2>1. RestartFrom(i, d) BY <1>17 DEF CrashBeforeAdvance
  <2>2. d.term = n.term /\ d.log = n.log
    <3>1. disk[i] \in Disk BY <1>2
    <3> HIDE DEF n
    <3> QED BY <3>1 DEF HardState, Disk
  <2> HIDE DEF d
  <2>3. InOrder(n.log, n.term + 1)
    <3>1. CASE n.state = "leader"
      <4>1. InOrder(n.log, n.term) BY <1>2, <3>1 DEF SoloTerms
      <4>2. n.log \in Seq(Entry) /\ n.term \in Nat /\ n.term + 1 \in Nat /\ n.term <= n.term + 1
        BY <1>2
      <4> HIDE DEF n
      <4> QED BY <4>1, <4>2, InOrderRules
    <3>2. CASE n.state # "leader" BY <1>2, <3>2 DEF SoloTerms
    <3> QED BY <3>1, <3>2
  <2> QED BY <1>14, <2>1, <2>2, <2>3
<1>18. ASSUME UNCHANGED vars PROVE Goal BY <1>2, <1>18 DEF vars, Goal
<1>19. ~ \E m \in msgs : Receive(m) BY <1>1
<1>20. Goal
  BY <1>6, <1>7, <1>8, <1>9, <1>10, <1>11, <1>12, <1>13, <1>15, <1>16, <1>17, <1>18, <1>19
     DEF Next
<1> QED BY <1>20 DEF Goal

\* A single server's terms are in order.
LEMMA SoloTermsInductive == Spec => []SoloTermsInv
<1>1. Init => SoloTermsInv
  <2> SUFFICES ASSUME Init, NEW i \in Server PROVE SoloTerms(node[i], disk[i])
    BY DEF SoloTermsInv
  <2>1. /\ disk[i].log = <<>> /\ node[i].log = <<>> /\ disk[i].term = 0 /\ node[i].term = 0
        /\ node[i].state = "follower"
    BY DEF Init, Restart
  <2> QED BY <2>1 DEF SoloTerms, InOrder
<1>2. TypeInv /\ AloneInv /\ SoloTermsInv /\ [Next]_vars => SoloTermsInv'
  BY SoloTermsStep DEF SoloTermsInv, Many
<1>3. Spec => []TypeInv BY HardInvInductive, PTL DEF HardInv
<1> QED BY <1>1, <1>2, <1>3, AloneInvInductive, PTL DEF Spec

\* The same four properties for a single server.
LEMMA SoloIsSafe ==
  ASSUME SoloInv, ~ Many
  PROVE  Agreement /\ LeaderCompleteness /\ CommittedIsDurable /\ MatchedIsDurable
<1>1. ASSUME NEW i \in Server
      PROVE  LET n == node[i] IN
             /\ Server = {i} /\ SoloNode(i, n, disk[i], decided)
             /\ n.committed <= Len(decided) /\ n \in Node /\ n.log \in Seq(Entry)
             /\ n.committed \in Nat /\ n.persisted \in Nat /\ n.persisted <= Len(n.log)
             /\ disk[i].log \in Seq(Entry) /\ decided \in Seq(Entry)
             /\ n.prs[i].matched \in Nat
  BY <1>1 DEF SoloInv, TypeInv, TypeOK, NodeOK, Node, Disk, Progress, Many
<1>2. ASSUME NEW L \in Seq(Entry), NEW k \in Nat, NEW T, Agree(L, T, k)
      PROVE  IsPrefix(SubSeq(L, 1, k), T)
  <2> DEFINE S == SubSeq(L, 1, k)
  <2>1. k <= Len(L) BY <1>2 DEF Agree
  <2>2. Agree(S, L, k) /\ Len(S) = k BY <2>1, PrefixAgrees
  <2> HIDE DEF S
  <2>3. Agree(S, T, k) BY <1>2, <2>2, AgreeRules
  <2>4. IsPrefix(S, T) BY <2>2, <2>3 DEF Agree, IsPrefix
  <2> QED BY <2>4 DEF S
<1>3. Agreement
  <2> SUFFICES ASSUME NEW i \in Server
               PROVE  IsPrefix(SubSeq(node[i].log, 1, node[i].committed), decided)
    BY DEF Agreement
  <2> DEFINE L == node[i].log
             k == node[i].committed
             C == decided
  <2>1. L \in Seq(Entry) /\ C \in Seq(Entry) /\ k \in Nat /\ k <= Len(C) BY <1>1
  <2>2. Agree(C, L, Len(C)) BY <1>1 DEF SoloNode
  <2> HIDE DEF L, k, C
  <2>3. Len(C) \in Nat BY <2>1, LenProperties
  <2>4. Agree(C, L, k) BY <2>1, <2>2, <2>3, AgreeLess
  <2>5. Agree(L, C, k) BY <2>4, AgreeRules
  <2>6. IsPrefix(SubSeq(L, 1, k), C) BY <1>2, <2>1, <2>5
  <2> QED BY <2>6 DEF L, k, C
<1>4. LeaderCompleteness
  <2> SUFFICES ASSUME NEW i \in Server PROVE IsPrefix(decided, node[i].log)
    BY DEF LeaderCompleteness
  <2>1. Agree(decided, node[i].log, Len(decided)) BY <1>1 DEF SoloNode
  <2> QED BY <2>1 DEF Agree, IsPrefix
<1>5. CommittedIsDurable
  <2> SUFFICES ASSUME NEW i \in Server, NEW k \in 1..node[i].committed
               PROVE  IsQuorum(Incoming, Outgoing,
                        {s \in Server : /\ Len(disk[s].log) >= k
                                        /\ disk[s].log[k] = node[i].log[k]})
    BY DEF CommittedIsDurable
  <2> DEFINE L == node[i].log
             T == disk[i].log
             p == node[i].persisted
             c == node[i].committed
  <2>1. /\ Agree(L, T, p) /\ c <= p /\ p \in Nat /\ c \in Nat /\ T \in Seq(Entry)
        /\ Server = {i}
    BY <1>1 DEF SoloNode
  <2>2. k \in 1..c OBVIOUS
  <2> HIDE DEF L, T, p, c
  <2>3. Len(T) \in Nat BY <2>1, LenProperties
  <2>4. k \in 1..p /\ Len(T) >= k BY <2>1, <2>2, <2>3 DEF Agree
  <2>5. T[k] = L[k] BY <2>1, <2>4 DEF Agree
  <2>6. {s \in Server : /\ Len(disk[s].log) >= k /\ disk[s].log[k] = node[i].log[k]} = Server
    BY <2>1, <2>4, <2>5 DEF L, T
  <2> QED BY <2>6, EveryoneIsQuorum
<1>6. MatchedIsDurable
  <2> SUFFICES ASSUME NEW i \in Server, NEW s \in Server, node[i].state = "leader"
               PROVE  IsPrefix(SubSeq(node[i].log, 1, node[i].prs[s].matched), disk[s].log)
    BY DEF MatchedIsDurable
  <2> DEFINE L == node[i].log
             T == disk[i].log
             k == node[i].prs[i].matched
             p == node[i].persisted
  <2>1. /\ Agree(L, T, p) /\ k <= p /\ k \in Nat /\ p \in Nat /\ L \in Seq(Entry)
        /\ T \in Seq(Entry) /\ s = i
    BY <1>1 DEF SoloNode
  <2> HIDE DEF L, T, k, p
  <2>2. Agree(L, T, k) BY <2>1, AgreeLess
  <2>3. IsPrefix(SubSeq(L, 1, k), T) BY <1>2, <2>1, <2>2
  <2> QED BY <2>1, <2>3 DEF L, T, k
<1> QED BY <1>3, <1>4, <1>5, <1>6

-----------------------------------------------------------------------------
(***************************************************************************)
(* The theorems, for any servers, quorums (joint ones too), values and     *)
(* bounds, through crashes at any point of the Ready cycle, torn appends,  *)
(* and lost, late, duplicated and reordered messages.                      *)
(***************************************************************************)
\* The invariant gives all four properties at once.
LEMMA SafetyMeans ==
  SafetyInv /\ SoloInv => Agreement /\ LeaderCompleteness /\ CommittedIsDurable /\ MatchedIsDurable
<1> SUFFICES ASSUME SafetyInv, SoloInv
             PROVE  Agreement /\ LeaderCompleteness /\ CommittedIsDurable /\ MatchedIsDurable
  OBVIOUS
<1>1. HardInv /\ TypeInv BY DEF SafetyInv, LogInv, HardInv
<1>2. CASE Many
  <2>1. PICK H, A : /\ Logs(H, node, disk, msgs, elected)
                    /\ Safe(H, A, node, disk, msgs, elected, decided)
    BY <1>2 DEF SafetyInv
  <2> QED BY <1>1, <2>1, SafeAgreement, SafeLeaderCompleteness, SafeDurable, SafeMatched
<1>3. CASE ~ Many BY <1>3, SoloIsSafe
<1> QED BY <1>2, <1>3

(***************************************************************************)
(* State machine safety: whatever RawNode hands out as committed on any    *)
(* node, before or after crashes, is a prefix of one decided log.          *)
(***************************************************************************)
THEOREM AgreementHolds == Spec /\ []Covered => []Agreement
BY SafetyMeans, SafetyInvInductive, SoloInvInductive, PTL

(***************************************************************************)
(* Leader completeness: the up-to-date check of handleVoteRequest lets no  *)
(* candidate win that lacks a decided entry, so a leader of the latest     *)
(* term has them all.                                                      *)
(***************************************************************************)
THEOREM LeaderCompletenessHolds == Spec /\ []Covered => []LeaderCompleteness
BY SafetyMeans, SafetyInvInductive, SoloInvInductive, PTL

(***************************************************************************)
(* Durability: Raft.maybeCommit counts only what a quorum has synced, so   *)
(* every committed entry is on the disks of a quorum, and stays there when *)
(* nodes crash in the middle of overwriting their logs.                    *)
(***************************************************************************)
THEOREM CommittedIsDurableHolds == Spec /\ []Covered => []CommittedIsDurable
BY SafetyMeans, SafetyInvInductive, SoloInvInductive, PTL

(***************************************************************************)
(* Progress is honest: what the latest leader has as matched for a peer is *)
(* on that peer's disk, whatever stale or repeated append_responses came.  *)
(***************************************************************************)
THEOREM MatchedIsDurableHolds == Spec /\ []Covered => []MatchedIsDurable
BY SafetyMeans, SafetyInvInductive, SoloInvInductive, PTL

\* A leader of several servers has matched no index beyond its log.
LEMMA SafeMatchedBound ==
  ASSUME TypeInv, NEW H, NEW A, Logs(H, node, disk, msgs, elected),
         Safe(H, A, node, disk, msgs, elected, decided),
         NEW i \in Server, NEW s \in Server, node[i].state = "leader"
  PROVE  node[i].prs[s].matched <= Len(node[i].log)
<1> DEFINE n == node[i]
           k == n.prs[s].matched
           t == n.term
<1>1. n \in Node /\ n.log \in Seq(Entry) /\ t \in Nat BY DEF TypeInv, TypeOK, Node
<1>2. k \in Nat /\ Len(n.log) \in Nat BY <1>1, LenProperties DEF Node, Progress
<1>3. n.log = H[t] BY DEF Logs, NodeLogs
<1>4. Acked(t, s, k, A) BY DEF Safe, SafeNode, Counts
<1> HIDE DEF k, t
<1>5. CASE k = 0
  <2> HIDE DEF n
  <2>1. k <= Len(n.log) BY <1>2, <1>5
  <2> QED BY <2>1 DEF k, n
<1>6. CASE HasAck(t, s, k, A)
  <2>1. PICK j \in Nat : <<t, s, j>> \in A /\ k <= j BY <1>6 DEF HasAck
  <2>2. j <= Len(n.log) BY <1>1, <1>3, <2>1 DEF Safe, Acks
  <2> HIDE DEF n
  <2>3. k <= Len(n.log) BY <1>2, <2>1, <2>2, LeTransitive
  <2> QED BY <2>3 DEF k, n
<1> QED BY <1>4, <1>5, <1>6 DEF Acked

\* What the invariants say of one node is what invariant.checkRaft asserts.
LEMMA NodeChecks ==
  ASSUME NEW i \in Server, NEW b, NodeOK(i, node[i], b), KnowsLeader(i, node[i], elected),
         \A k \in 2..Len(node[i].log) : node[i].log[k - 1].term <= node[i].log[k].term,
         node[i].state = "leader" =>
           \A s \in Server : node[i].prs[s].matched <= Len(node[i].log)
  PROVE  LET n == node[i] IN
         /\ n.committed <= LastIndex(n.log)
         /\ n.persisted <= LastIndex(n.log)
         /\ \A k \in 2..LastIndex(n.log) : n.log[k - 1].term <= n.log[k].term
         /\ n.state = "leader" => n.leader_id = n.id
         /\ n.state \in {"candidate", "pre_candidate"} => n.leader_id = None
         /\ \A s \in Server :
              /\ n.prs[s].next_idx > n.prs[s].matched
              /\ n.prs[s].matched <= LastIndex(n.log)
              /\ Len(n.prs[s].inflights) <= MaxInflight
              /\ n.prs[s].state # "replicate" => n.prs[s].inflights = <<>>
              /\ \A j \in 2..Len(n.prs[s].inflights) :
                   n.prs[s].inflights[j - 1] < n.prs[s].inflights[j]
<1> DEFINE n == node[i]
<1>1. n \in Node /\ n.id = i /\ n.committed <= Len(n.log) /\ n.persisted <= Len(n.log)
  BY DEF NodeOK
<1>2. /\ n.state = "leader" => n.leader_id = n.id
      /\ n.state \in {"candidate", "pre_candidate"} => n.leader_id = None
      /\ n.state # "leader" => n.prs = NoProgress
  BY <1>1 DEF KnowsLeader
<1>3. ASSUME NEW s \in Server
      PROVE  /\ n.prs[s].next_idx > n.prs[s].matched
             /\ n.prs[s].matched <= Len(n.log)
             /\ Len(n.prs[s].inflights) <= MaxInflight
             /\ n.prs[s].state # "replicate" => n.prs[s].inflights = <<>>
             /\ \A j \in 2..Len(n.prs[s].inflights) :
                  n.prs[s].inflights[j - 1] < n.prs[s].inflights[j]
  <2>1. /\ SoundProgress(n.prs[s]) /\ n.prs[s].matched \in Nat /\ n.prs[s].next_idx \in Nat
        /\ n.log \in Seq(Entry) /\ n.prs[s].state \in {"probe", "replicate"}
    BY <1>1 DEF NodeOK, Node, Progress
  <2>2. Len(n.log) \in Nat BY <2>1, LenProperties
  <2>3. n.prs[s].matched <= Len(n.log)
    <3>1. CASE n.state = "leader" BY <3>1
    <3>2. CASE n.state # "leader"
      <4>1. n.prs[s].matched = 0 BY <1>2, <3>2 DEF NoProgress
      <4> HIDE DEF n
      <4> QED BY <2>2, <4>1
    <3> QED BY <3>1, <3>2
  <2> HIDE DEF n
  <2>4. n.prs[s].next_idx > n.prs[s].matched BY <2>1 DEF SoundProgress
  <2>5. /\ Len(n.prs[s].inflights) <= MaxInflight
        /\ \A j \in 2..Len(n.prs[s].inflights) :
             n.prs[s].inflights[j - 1] < n.prs[s].inflights[j]
    BY <2>1 DEF SoundProgress, Rising
  <2>6. n.prs[s].state # "replicate" => n.prs[s].inflights = <<>> BY <2>1 DEF SoundProgress
  <2> QED BY <2>3, <2>4, <2>5, <2>6
<1> QED BY <1>1, <1>2, <1>3 DEF LastIndex

\* The invariants give all of invariant.checkRaft.
LEMMA ChecksMean ==
  ASSUME SafetyInv, SoloInv, SoloTermsInv, LeaderInv
  PROVE  CheckRaft
<1>1. TypeInv BY DEF SafetyInv, LogInv, HardInv
<1>2. ASSUME NEW i \in Server
      PROVE  /\ NodeOK(i, node[i], disk[i].commit) /\ KnowsLeader(i, node[i], elected)
             /\ node[i].log \in Seq(Entry) /\ Len(node[i].log) \in Nat
             /\ node[i].persisted \in Nat /\ node[i].persisted <= Len(node[i].log)
             /\ node[i].prs[i].matched \in Nat
  <2>1. NodeOK(i, node[i], disk[i].commit) /\ KnowsLeader(i, node[i], elected)
    BY <1>1, <1>2 DEF TypeInv, LeaderInv
  <2>2. /\ node[i].log \in Seq(Entry) /\ node[i].persisted \in Nat
        /\ node[i].persisted <= Len(node[i].log) /\ node[i].prs[i].matched \in Nat
    BY <2>1 DEF NodeOK, Node, Progress
  <2> QED BY <2>1, <2>2, LenProperties
<1>3. ASSUME NEW i \in Server
      PROVE  /\ \A k \in 2..Len(node[i].log) : node[i].log[k - 1].term <= node[i].log[k].term
             /\ node[i].state = "leader" =>
                  \A s \in Server : node[i].prs[s].matched <= Len(node[i].log)
  <2>1. CASE Many
    <3>1. PICK H, A : /\ Logs(H, node, disk, msgs, elected)
                      /\ Safe(H, A, node, disk, msgs, elected, decided)
      BY <2>1 DEF SafetyInv
    <3>2. Histories(H, elected) /\ FromLeaders(node[i].log, H) BY <3>1 DEF Logs, NodeLogs
    <3>3. \A k \in 1..Len(node[i].log) : \A h \in 1..k : node[i].log[h].term <= node[i].log[k].term
      BY <1>2, <3>2, TermsIncrease
    <3>4. \A k \in 2..Len(node[i].log) : k \in 1..Len(node[i].log) /\ k - 1 \in 1..k BY <1>2
    <3> QED BY <1>1, <3>1, <3>3, <3>4, SafeMatchedBound
  <2>2. CASE ~ Many
    <3>1. Server = {i} BY <2>2 DEF Many
    <3>2. \A k \in 2..Len(node[i].log) : node[i].log[k - 1].term <= node[i].log[k].term
      BY <2>2 DEF SoloTermsInv, SoloTerms, InOrder
    <3>3. node[i].state = "leader" => node[i].prs[i].matched <= node[i].persisted
      BY <2>2 DEF SoloInv, SoloNode
    <3>4. node[i].state = "leader" => node[i].prs[i].matched <= Len(node[i].log)
      BY <1>2, <3>3, LeTransitive
    <3> QED BY <3>1, <3>2, <3>4
  <2> QED BY <2>1, <2>2
<1> QED BY <1>2, <1>3, NodeChecks DEF CheckRaft

(***************************************************************************)
(* The runtime assertions of invariant.checkRaft that are about this state *)
(* never fail, on any node: indexes within the log, terms in order, the    *)
(* leader a role implies, and a sound Progress of every peer, with nothing *)
(* in flight unless it is replicating.                                     *)
(***************************************************************************)
THEOREM CheckRaftHolds == Spec /\ []Covered => []CheckRaft
<1>1. SafetyInv /\ SoloInv /\ SoloTermsInv /\ LeaderInv => CheckRaft BY ChecksMean
<1> QED
  BY <1>1, SafetyInvInductive, SoloInvInductive, SoloTermsInductive, LeaderInvInductive, PTL

(***************************************************************************)
(* Without pre-vote nothing is assumed.                                    *)
(***************************************************************************)
THEOREM SafetyWithoutPreVote ==
  ~ PreVote /\ Spec
    => []Agreement /\ []LeaderCompleteness /\ []CommittedIsDurable /\ []MatchedIsDurable
       /\ []CheckRaft
<1>1. ~ PreVote => Covered BY DEF Covered
<1>2. ~ PreVote => (~ PreVote)' OBVIOUS
<1>3. ~ PreVote => []Covered BY <1>1, <1>2, PTL
<1> QED BY <1>3, AgreementHolds, LeaderCompletenessHolds, CommittedIsDurableHolds,
           MatchedIsDurableHolds, CheckRaftHolds, PTL

-----------------------------------------------------------------------------
(***************************************************************************)
(* Pre-votes.  A pre-vote request asks for the term after the sender's and *)
(* a granted answer repeats the term asked for, so neither is ever more    *)
(* than one term ahead of the disk of the node that asked; a node drops    *)
(* the answers of earlier terms.  Hence whoever a pre-candidate counts has *)
(* answered for its present term or the next one.                          *)
(***************************************************************************)
HasPreGrant(s, i, t, M) ==
  \E g \in M : IsPreGrant(g) /\ g.from = s /\ g.to = i /\ g.term \in {t, t + 1}

\* The pre-vote traffic in M is at most one term ahead of the asking disk.
AskedNext(M, D) ==
  \A m \in M : /\ m.type = "request_pre_vote" => m.term <= D[m.from].term + 1
               /\ IsPreGrant(m) => m.term <= D[m.to].term + 1

NodeGate(i, n, M, D) ==
  /\ \A m \in n.messages : m.type = "request_pre_vote" => m.from = i /\ m.term <= n.term + 1
  /\ \A m \in n.messages : IsPreGrant(m) => m.term <= D[m.to].term + 1
  /\ n.state = "pre_candidate" =>
       \A s \in Server : n.votes[s] = "yes" => s = i \/ HasPreGrant(s, i, n.term, M)

PreVotesAgree == AskedNext(msgs, disk) /\ \A i \in Server : NodeGate(i, node[i], msgs, disk)

GateInv == HardInv /\ (Many => PreVotesAgree)

\* What a step of node i from n to n2 may do: a candidate that was none asks
\* in the name of a leader or has the pre-votes of a quorum.
Gated(i, n, n2) ==
  (PreVote /\ n.state # "candidate" /\ n2.state = "candidate"
     /\ ~ \E m \in n2.messages : m.force)
  => PreVoteGranted(i, n2.term)

\* Node n2 of i is in order and was reached in order.
Passes(i, n, n2) == NodeGate(i, n2, msgs, disk) /\ Gated(i, n, n2)

\* A node that stays in its role, or leaves it, passes.
LEMMA QuietPasses ==
  ASSUME NEW i, NEW n, NEW n2, NEW n3, Passes(i, n, n2), Quiet(n2, n3),
         n2.state = "candidate" => n.state = "candidate"
  PROVE  Passes(i, n, n3)
<1>1. /\ n3.term = n2.term /\ n3.state = n2.state /\ n3.votes = n2.votes
      /\ \A m \in n3.messages : IsVoting(m) => m \in n2.messages
  BY DEF Quiet
<1>2. \A m : m.type = "request_pre_vote" \/ IsPreGrant(m) => IsVoting(m) BY DEF IsVoting
<1>3. NodeGate(i, n3, msgs, disk) BY <1>1, <1>2 DEF Passes, NodeGate
<1>4. Gated(i, n, n3) BY <1>1 DEF Gated
<1> QED BY <1>3, <1>4 DEF Passes

\* A follower with the same messages and no earlier term passes.
LEMMA FollowerPasses ==
  ASSUME NEW i \in Server, NEW n \in Node, NEW o \in Node, NEW t \in Nat, t >= o.term,
         NEW leader, Passes(i, n, o)
  PROVE  /\ Passes(i, n, BecomeFollower(o, t, leader))
         /\ BecomeFollower(o, t, leader).state = "follower"
<1> DEFINE f == BecomeFollower(o, t, leader)
<1>1. Downs(o, f) /\ f.term = t /\ f.state = "follower"
  BY BecomeFollowerDowns, BecomeFollowerTerm
<1> HIDE DEF f
<1>2. f.messages = o.messages BY <1>1 DEF Downs, StepDown
<1>3. \A m \in o.messages : m.term \in Nat BY DEF Node, Message
<1>4. o.term \in Nat BY DEF Node
<1>5. \A m \in f.messages : m.type = "request_pre_vote" => m.from = i /\ m.term <= o.term + 1
  BY <1>2 DEF Passes, NodeGate
<1>6. \A m \in f.messages : m.type = "request_pre_vote" => m.from = i /\ m.term <= f.term + 1
  BY <1>1, <1>2, <1>3, <1>4, <1>5
<1>7. NodeGate(i, f, msgs, disk) BY <1>1, <1>2, <1>6 DEF Passes, NodeGate
<1>8. Gated(i, n, f) BY <1>1 DEF Gated
<1> QED BY <1>1, <1>7, <1>8 DEF Passes, f

\* Observing a term leaves the node alone or makes it a follower.
LEMMA ObserveTermPasses ==
  ASSUME NEW i \in Server, NEW n \in Node, NEW m \in Message, Passes(i, n, n)
  PROVE  /\ Passes(i, n, ObserveTerm(n, m))
         /\ ObserveTerm(n, m) = n \/ ObserveTerm(n, m).state = "follower"
<1>1. m.term \in Nat /\ n.term \in Nat BY DEF Message, Node
<1>2. CASE m.term <= n.term \/ KeepsTerm(m) BY <1>2 DEF ObserveTerm
<1>3. CASE ~ (m.term <= n.term \/ KeepsTerm(m))
  <2>1. m.term >= n.term BY <1>1, <1>3
  <2>2. \A l : Passes(i, n, BecomeFollower(n, m.term, l))
               /\ BecomeFollower(n, m.term, l).state = "follower"
    BY <1>1, <2>1, FollowerPasses
  <2> QED BY <1>3, <2>2 DEF ObserveTerm
<1> QED BY <1>2, <1>3

\* Among many, a campaign asks, and says so when a leader wanted it.
LEMMA CampaignPasses ==
  ASSUME Many, NEW i \in Server, NEW b \in Nat, NEW n, NodeOK(i, n, b), NEW force \in BOOLEAN,
         NodeGate(i, n, msgs, disk)
  PROVE  /\ NodeGate(i, CampaignElection(n, force), msgs, disk)
         /\ CampaignElection(n, force).term = n.term + 1
         /\ force => \E m \in CampaignElection(n, force).messages : m.force
<1> DEFINE c == RecordVote(BecomeCandidate(n), n.id, TRUE)
           x == RequestVotes(c, "request_vote", c.term, force)
           e == CampaignElection(n, force)
<1>1. n \in Node /\ n.id = i /\ n.term \in Nat BY DEF NodeOK, Node
<1>2. Asks(n, e) BY CampaignElectionAsks
<1>3. NodeOK(i, c, b) /\ StartsCampaign(n, c) BY NewCandidate
<1>4. e \in {x, BroadcastAppend(BecomeLeader(c))} BY DEF CampaignElection
<1> HIDE DEF c
<1>5. c.votes = [NoVotes EXCEPT ![i] = "yes"] BY <1>1, <1>3 DEF StartsCampaign
<1>6. Tally(c) # "won" BY <1>5, OneVoteLoses
<1>7. e = x BY <1>6 DEF CampaignElection, c
<1>8. c \in Node /\ c.id = i BY <1>1, <1>3 DEF NodeOK
<1>9. force => \E m \in x.messages : m.force
  <2>1. PICK s \in Server : s # i BY DEF Many
  <2> DEFINE m == VoteRequest(c, "request_vote", c.term, s, force)
  <2>2. s \in Peers(c) BY <1>8, <2>1 DEF Peers
  <2>3. m.force = force BY DEF VoteRequest, Msg
  <2>4. Queues(c, x, Requests(c, "request_vote", c.term, force)) BY <1>8, RequestVotesQueues
  <2>5. m \in x.messages BY <2>2, <2>4 DEF Queues, Requests
  <2> HIDE DEF m, x
  <2> QED BY <2>3, <2>5
<1> HIDE DEF e, x
<1>10. e.term = n.term + 1 /\ e.state = "candidate" BY <1>2 DEF Asks
<1>11. \A m \in e.messages : m \in n.messages \/ m.type = "request_vote" BY <1>2 DEF Asks
<1>12. \A m : m.type = "request_vote" => m.type # "request_pre_vote" /\ ~ IsPreGrant(m)
  BY DEF IsPreGrant
<1>13. \A m \in n.messages : m.term \in Nat BY <1>1 DEF Node, Message
<1>14. \A m \in n.messages : m.type = "request_pre_vote" => m.from = i /\ m.term <= n.term + 1
  BY DEF NodeGate
<1>15. \A m \in n.messages : m.type = "request_pre_vote" => m.from = i /\ m.term <= n.term + 1 + 1
  BY <1>1, <1>13, <1>14
<1>16. NodeGate(i, e, msgs, disk)
  BY <1>10, <1>11, <1>12, <1>15 DEF NodeGate
<1> QED BY <1>7, <1>9, <1>10, <1>16 DEF e

\* Among many, a pre-campaign only counts itself.
LEMMA PreCampaignPasses ==
  ASSUME Many, NEW i \in Server, NEW b \in Nat, NEW n, NodeOK(i, n, b),
         NodeGate(i, n, msgs, disk)
  PROVE  /\ NodeGate(i, CampaignPreElection(n), msgs, disk)
         /\ CampaignPreElection(n).state = "pre_candidate"
<1> DEFINE c == RecordVote(BecomePreCandidate(n), n.id, TRUE)
           new == Requests(c, "request_pre_vote", c.term + 1, FALSE)
           x == RequestVotes(c, "request_pre_vote", c.term + 1, FALSE)
<1>1. n \in Node /\ n.id = i /\ n.term \in Nat BY DEF NodeOK, Node
<1>2. NodeOK(i, c, b) /\ StartsPreCampaign(n, c) BY NewPreCandidate
<1> HIDE DEF c
<1>3. c.votes = [NoVotes EXCEPT ![i] = "yes"] BY <1>1, <1>2 DEF StartsPreCampaign
<1>4. Tally(c) # "won" BY <1>3, OneVoteLoses
<1>5. CampaignPreElection(n) = x BY <1>4 DEF CampaignPreElection, c
<1>6. c \in Node /\ c.id = i BY <1>1, <1>2 DEF NodeOK
<1>7. Queues(c, x, new) BY <1>6, RequestVotesQueues
<1>8. \A m \in new : m.type = "request_pre_vote" /\ m.term = c.term + 1 /\ m.from = i
  <2>1. \A m \in new : m.type = "request_pre_vote" /\ m.term = c.term + 1 /\ Carries(c, m)
    BY <1>6, RequestsCarry
  <2> QED BY <1>6, <2>1 DEF Carries
<1> HIDE DEF new, x
<1>9. c.term = n.term /\ c.messages = n.messages /\ c.state = "pre_candidate"
  BY <1>2 DEF StartsPreCampaign
<1>10. x.term = n.term /\ x.state = "pre_candidate" /\ x.messages = n.messages \cup new
       /\ x.votes = [NoVotes EXCEPT ![i] = "yes"]
  BY <1>3, <1>7, <1>9 DEF Queues
<1>11. \A s \in Server : x.votes[s] = "yes" => s = i BY <1>10 DEF NoVotes
<1>12. \A m \in new : ~ IsPreGrant(m) /\ m.from = i /\ m.term <= n.term + 1
  BY <1>1, <1>8, <1>9 DEF IsPreGrant
<1>13. NodeGate(i, x, msgs, disk) BY <1>10, <1>11, <1>12 DEF NodeGate
<1> QED BY <1>5, <1>10, <1>13

\* A quorum of pre-votes for the term or the one before it opens the gate.
LEMMA QuorumOpensGate ==
  ASSUME NEW i \in Server, NEW r, r.term \in Nat, Tally(r) = "won",
         \A s \in Server : r.votes[s] = "yes" => s = i \/ HasPreGrant(s, i, r.term, msgs)
  PROVE  PreVoteGranted(i, r.term + 1)
<1> DEFINE Y == {s \in Server : r.votes[s] = "yes"}
           t == r.term + 1
           G == {s \in Server :
                   \E m \in msgs : /\ m.type = "request_pre_vote_response"
                                   /\ m.from = s /\ m.to = i /\ ~ m.reject
                                   /\ m.term \in {t - 1, t}}
<1>1. IsFiniteSet(Incoming) /\ IsFiniteSet(Outgoing)
  <2>1. Incoming \subseteq Server /\ Outgoing \subseteq Server BY RaftAssumption
  <2> QED BY <2>1, RaftAssumption, FS_Subset
<1>2. IsQuorum(Incoming, Outgoing, Y) BY TallyWon
<1>3. t - 1 = r.term /\ t = r.term + 1 OBVIOUS
<1> HIDE DEF t
<1>4. \A s \in Server : HasPreGrant(s, i, r.term, msgs) => s \in G
  BY <1>3 DEF HasPreGrant, IsPreGrant
<1>5. Y \subseteq {i} \cup G BY <1>4
<1>6. IsQuorum(Incoming, Outgoing, {i} \cup G)
  <2> HIDE DEF Y, G
  <2> QED BY <1>1, <1>2, <1>5, QuorumMonotone
<1> QED BY <1>6 DEF PreVoteGranted, G, t

\* Counting an answer: a pre-candidate that wins has a quorum of them.
LEMMA PollPasses ==
  ASSUME Many, NEW i \in Server, NEW b \in Nat, NEW n, NodeOK(i, n, b),
         NEW from \in Server, NEW granted \in BOOLEAN, NodeGate(i, n, msgs, disk),
         n.state \in {"pre_candidate", "candidate"},
         n.state = "pre_candidate" /\ granted => HasPreGrant(from, i, n.term, msgs)
  PROVE  /\ Passes(i, n, Poll(n, from, granted))
         /\ Poll(n, from, granted).state = "candidate" =>
              n.state = "candidate" \/ PreVoteGranted(i, Poll(n, from, granted).term)
<1> DEFINE r == RecordVote(n, from, granted)
           l == BecomeLeader(r)
           f == BecomeFollower(r, r.term, None)
           c == CampaignElection(r, FALSE)
           a == BroadcastAppend(l)
           p == Poll(n, from, granted)
<1>1. NodeOK(i, r, b) BY RecordVoteOK
<1>2. n \in Node BY DEF NodeOK
<1>3. /\ r.term = n.term /\ r.state = n.state /\ r.messages = n.messages
      /\ \A s \in Server : r.votes[s] = "yes" => n.votes[s] = "yes" \/ (s = from /\ granted)
  BY <1>2 DEF RecordVote, Node
<1>4. Tally(r) \in {"pending", "lost", "won"} BY DEF Tally, JointVoteResult
<1>5. \/ p = r
      \/ p = f
      \/ Tally(r) = "won" /\ r.state = "pre_candidate" /\ p = c
      \/ Tally(r) = "won" /\ r.state # "pre_candidate" /\ p = a
  BY <1>4 DEF Poll
<1> HIDE DEF r, p
<1>6. r.state = "pre_candidate" =>
        \A s \in Server : r.votes[s] = "yes" => s = i \/ HasPreGrant(s, i, r.term, msgs)
  BY <1>3 DEF NodeGate
<1>7. NodeGate(i, r, msgs, disk) BY <1>3, <1>6 DEF NodeGate
<1>8. r \in Node /\ r.term \in Nat /\ r.term >= r.term BY <1>1 DEF NodeOK, Node
<1>9. Passes(i, n, r) /\ (r.state = "candidate" => n.state = "candidate")
  BY <1>3, <1>7 DEF Passes, Gated
<1>10. CASE p = r BY <1>9, <1>10 DEF p
<1>11. CASE p = f
  <2>1. Passes(i, n, f) /\ f.state = "follower" BY <1>2, <1>8, <1>9, FollowerPasses
  <2> QED BY <1>11, <2>1 DEF p
<1>12. CASE Tally(r) = "won" /\ r.state = "pre_candidate" /\ p = c
  <2>1. NodeGate(i, c, msgs, disk) /\ c.term = r.term + 1 BY <1>1, <1>7, CampaignPasses
  <2>2. PreVoteGranted(i, r.term + 1) BY <1>6, <1>8, <1>12, QuorumOpensGate
  <2> HIDE DEF c
  <2>3. Passes(i, n, c) BY <2>1, <2>2 DEF Passes, Gated
  <2> QED BY <1>12, <2>1, <2>2, <2>3 DEF p
<1>13. CASE Tally(r) = "won" /\ r.state # "pre_candidate" /\ p = a
  <2>1. NodeOK(i, l, b) /\ TakesOffice(r, l) BY <1>1, NewLeader
  <2> HIDE DEF l
  <2>2. Quiet(l, a) BY <2>1, BroadcastAppendQuiet DEF NodeOK
  <2>3. l.term = r.term /\ l.state = "leader" /\ l.messages = r.messages
    BY <2>1 DEF TakesOffice
  <2>4. Passes(i, n, l) BY <1>7, <2>3 DEF Passes, NodeGate, Gated
  <2> HIDE DEF a
  <2>5. Passes(i, n, a) /\ a.state = "leader" BY <2>2, <2>3, <2>4, QuietPasses DEF Quiet
  <2> QED BY <1>13, <2>5 DEF p
<1> QED BY <1>5, <1>10, <1>11, <1>12, <1>13

\* A pre-candidate counts only answers for its term or the next.
LEMMA HandleVoteResponsePasses ==
  ASSUME Many, NEW i \in Server, NEW b \in Nat, NEW n, NodeOK(i, n, b),
         NodeGate(i, n, msgs, disk), NEW m \in msgs, m \in Message, m.to = i,
         IsPreGrant(m) => m.term \in {n.term, n.term + 1}
  PROVE  Passes(i, n, HandleVoteResponse(n, m))
<1> DEFINE p == Poll(n, m.from, ~ m.reject)
           x == MaybeCommitByVote(p, m)
<1>1. m.from \in Server /\ (~ m.reject) \in BOOLEAN BY DEF Message
<1>2. CASE \/ n.state = "pre_candidate" /\ m.type = "request_pre_vote_response"
           \/ n.state = "candidate" /\ m.type = "request_vote_response"
  <2>1. n.state = "pre_candidate" /\ ~ m.reject => HasPreGrant(m.from, i, n.term, msgs)
    BY <1>2 DEF HasPreGrant, IsPreGrant
  <2>2. n.state \in {"pre_candidate", "candidate"} BY <1>2
  <2>3. /\ Passes(i, n, p)
        /\ p.state = "candidate" => n.state = "candidate" \/ PreVoteGranted(i, p.term)
    BY <1>1, <2>1, <2>2, PollPasses
  <2>4. NodeOK(i, p, b) BY <1>1, PollOK
  <2>5. HandleVoteResponse(n, m) = x BY <1>2 DEF HandleVoteResponse
  <2> HIDE DEF p
  <2>6. Quiet(p, x) BY <2>4, CommitQuiet DEF NodeOK
  <2> HIDE DEF x
  <2>7. x.term = p.term /\ x.state = p.state BY <2>6 DEF Quiet
  <2>8. Gated(i, n, x) BY <2>3, <2>7 DEF Gated
  <2>9. Passes(i, p, p) BY <2>3 DEF Passes, Gated
  <2>10. Passes(i, p, x) BY <2>6, <2>9, QuietPasses
  <2> QED BY <2>5, <2>8, <2>10 DEF Passes
<1>3. CASE ~ (\/ n.state = "pre_candidate" /\ m.type = "request_pre_vote_response"
              \/ n.state = "candidate" /\ m.type = "request_vote_response")
  BY <1>3 DEF HandleVoteResponse, Passes, Gated
<1> QED BY <1>2, <1>3

\* A pre-vote is granted for the term asked for.
LEMMA HandleVoteRequestPasses ==
  ASSUME NEW i \in Server, NEW b \in Nat, NEW n, NodeOK(i, n, b),
         NodeGate(i, n, msgs, disk), NEW m \in msgs, m \in Message,
         m.type \in VoteRequestType, AskedNext(msgs, disk)
  PROVE  /\ NodeGate(i, HandleVoteRequest(n, m), msgs, disk)
         /\ HandleVoteRequest(n, m).state = n.state
<1> DEFINE resp == Msg(n, VoteRespType(m.type), m.from)
           yes  == [resp EXCEPT !.term = m.term]
           no   == [resp EXCEPT !.reject = TRUE, !.commit = n.committed,
                                !.commit_term = TermAt(n.log, n.committed)]
           h    == HandleVoteRequest(n, m)
<1>1. n \in Node /\ n.id = i /\ m.from \in Server BY DEF NodeOK, Message
<1>2. CASE ~ GrantsVote(n, m)
  <2> DEFINE d == Send(n, no)
             x == MaybeCommitByVote(d, m)
  <2>1. ~ IsVoting(no)
    BY DEF Msg, VoteRespType, IsVoting, IsBallot, IsGrant, IsPreGrant
  <2>2. h = x BY <1>2 DEF HandleVoteRequest
  <2>3. d \in Node /\ Quiet(n, d)
    <3>1. no \in Message
      <4>1. n.committed \in Nat /\ TermAt(n.log, n.committed) \in Nat
        BY <1>1, TermAtNat DEF Node
      <4>2. resp \in Message BY <1>1, MsgIsMessage DEF VoteRespType, MsgType
      <4> HIDE DEF resp
      <4> QED BY <4>1, <4>2 DEF Message
    <3> HIDE DEF no
    <3> QED BY <1>1, <2>1, <3>1, SendQuiet, SendOK DEF NodeOK
  <2> HIDE DEF d
  <2>4. Quiet(n, x) BY <2>3, CommitQuiet, QuietTransitive
  <2> HIDE DEF x, h
  <2>5. Passes(i, n, n) BY DEF Passes, Gated
  <2>6. Passes(i, n, x) BY <2>4, <2>5, QuietPasses
  <2> QED BY <2>2, <2>4, <2>6 DEF Passes, Quiet, h
<1>3. CASE GrantsVote(n, m)
  <2>1. /\ h.term = n.term /\ h.state = n.state /\ h.votes = n.votes
        /\ h.messages = n.messages \cup {yes}
    BY <1>1, <1>3 DEF HandleVoteRequest, Send, Node
  <2>2. yes.type # "request_pre_vote" /\ yes.term = m.term /\ yes.to = m.from
        /\ (IsPreGrant(yes) => m.type = "request_pre_vote")
    <3>1. yes.type = VoteRespType(m.type) /\ yes.term = m.term /\ yes.to = m.from
      BY DEF Msg
    <3> HIDE DEF yes
    <3> QED BY <3>1 DEF VoteRespType, IsPreGrant, VoteRequestType
  <2> HIDE DEF yes, h
  <2>3. IsPreGrant(yes) => yes.term <= disk[yes.to].term + 1 BY <2>2 DEF AskedNext
  <2>4. NodeGate(i, h, msgs, disk) BY <2>1, <2>2, <2>3 DEF NodeGate
  <2> QED BY <2>1, <2>4 DEF h
<1> QED BY <1>2, <1>3

-----------------------------------------------------------------------------
\* Node i takes a step that passes; its disk and the network stay.
StepPasses(i) ==
  /\ UNCHANGED <<disk, msgs>>
  /\ \E x : Passes(i, node[i], x) /\ node' = [node EXCEPT ![i] = x]

\* What the steps below start from.
LEMMA GateContext ==
  ASSUME HardInv, PreVotesAgree, NEW i \in Server
  PROVE  /\ NodeOK(i, node[i], disk[i].commit) /\ disk[i].commit \in Nat
         /\ node \in [Server -> Node] /\ disk \in [Server -> Disk]
         /\ msgs \in SUBSET Message /\ node[i] \in Node /\ node[i].term \in Nat
         /\ Passes(i, node[i], node[i]) /\ disk[i].term \in Nat
         /\ disk[i].term <= node[i].term
<1>1. TypeInv /\ Behind(disk[i], node[i]) /\ NodeGate(i, node[i], msgs, disk)
  BY DEF HardInv, PreVotesAgree
<1>2. /\ NodeOK(i, node[i], disk[i].commit)
      /\ node \in [Server -> Node] /\ disk \in [Server -> Disk] /\ msgs \in SUBSET Message
  BY <1>1 DEF TypeInv, TypeOK
<1>3. node[i] \in Node /\ node[i].term \in Nat /\ disk[i].term \in Nat /\ disk[i].commit \in Nat
  BY <1>2 DEF Node, Disk
<1>4. disk[i].term <= node[i].term BY <1>1, <1>3 DEF Behind
<1>5. Passes(i, node[i], node[i]) BY <1>1 DEF Passes, Gated
<1> QED BY <1>2, <1>3, <1>4, <1>5

\* The actions of one node that touch neither its disk nor the network.
LEMMA LocalPasses ==
  ASSUME Many, HardInv, PreVotesAgree, NEW i \in Server,
         \/ Campaign(i)
         \/ LeaseExpires(i)
         \/ LeaderTick(i)
         \/ Beat(i)
         \/ \E v \in Value : Propose(i, v)
         \/ \E s \in Server : TransferLeader(i, s)
         \/ \E s \in Server : Unreachable(i, s)
  PROVE  StepPasses(i)
<1> DEFINE n == node[i]
           b == disk[i].commit
<1>1. NodeOK(i, n, b) /\ b \in Nat /\ n \in Node /\ n.term \in Nat /\ n.term >= n.term
      /\ Passes(i, n, n)
  BY GateContext
<1>2. \A x : Passes(i, n, x) /\ node' = [node EXCEPT ![i] = x] /\ UNCHANGED <<disk, msgs>>
        => StepPasses(i)
  BY DEF StepPasses
<1>3. \A x : Quiet(n, x) => Passes(i, n, x) BY <1>1, QuietPasses
<1>4. \A x : Passes(i, n, x) /\ Become(i, x) /\ UNCHANGED <<disk, msgs>> => StepPasses(i)
  BY <1>2 DEF Become
<1> HIDE DEF b
<1>5. CASE Campaign(i)
  <2> DEFINE c == [n EXCEPT !.elapsed = FALSE]
  <2>1. NodeOK(i, c, b) /\ Quiet(n, c) BY <1>1 DEF NodeOK, Node, Quiet
  <2>2. Become(i, Hup(c, FALSE)) /\ UNCHANGED <<disk, msgs>> BY <1>5 DEF Campaign
  <2> HIDE DEF c
  <2>3. Passes(i, n, c) BY <1>3, <2>1
  <2>4. NodeGate(i, c, msgs, disk) BY <2>3 DEF Passes
  <2>5. PreVote => Passes(i, n, CampaignPreElection(c))
    BY <1>1, <2>1, <2>4, PreCampaignPasses DEF Passes, Gated
  <2>6. ~ PreVote => Passes(i, n, CampaignElection(c, FALSE))
    <3>1. NodeGate(i, CampaignElection(c, FALSE), msgs, disk)
      BY <1>1, <2>1, <2>4, CampaignPasses
    <3> QED BY <3>1 DEF Passes, Gated
  <2>7. Passes(i, n, Hup(c, FALSE)) BY <2>3, <2>5, <2>6 DEF Hup
  <2> QED BY <1>4, <2>2, <2>7
<1>6. CASE LeaseExpires(i)
  <2> DEFINE c == [n EXCEPT !.elapsed = TRUE]
  <2>1. Quiet(n, c) BY <1>1 DEF NodeOK, Node, Quiet
  <2>2. node' = [node EXCEPT ![i] = c] /\ UNCHANGED <<disk, msgs>>
    BY <1>6 DEF LeaseExpires
  <2> HIDE DEF c
  <2> QED BY <1>2, <1>3, <2>1, <2>2
<1>7. CASE LeaderTick(i)
  <2> DEFINE w == [n EXCEPT !.lead_transferee = None]
             z == [NewWindow(n) EXCEPT !.elapsed = FALSE, !.lead_transferee = None]
             f == BecomeFollower(n, n.term, None)
  <2>1. Quiet(n, w) BY <1>1 DEF Node, Quiet
  <2>2. Quiet(n, z) BY <1>1 DEF Node, Quiet, NewWindow
  <2>3. Passes(i, n, f) BY <1>1, FollowerPasses
  <2>4. LeaderTimeout(n) \in {w, z, f} BY DEF LeaderTimeout
  <2> HIDE DEF w, z, f
  <2>5. Passes(i, n, LeaderTimeout(n)) BY <1>3, <2>1, <2>2, <2>3, <2>4
  <2> QED BY <1>4, <1>7, <2>5 DEF LeaderTick
<1>8. CASE Beat(i)
  <2>1. Quiet(n, BroadcastHeartbeat(n)) BY <1>1, BroadcastHeartbeatQuiet
  <2> QED BY <1>3, <1>4, <1>8, <2>1 DEF Beat
<1>9. ASSUME NEW v \in Value, Propose(i, v) PROVE StepPasses(i)
  <2> DEFINE m == ProposeMsg(i, n.leader_id, v)
  <2>1. Quiet(n, HandlePropose(n, v)) BY <1>1, HandleProposeQuiet
  <2>2. ~ IsVoting(m) BY DEF ProposeMsg, Msg, IsVoting, IsBallot, IsGrant, IsPreGrant
  <2> HIDE DEF m
  <2>3. Quiet(n, Send(n, m)) BY <1>1, <2>2, SendQuiet
  <2> QED BY <1>3, <1>4, <1>9, <2>1, <2>3 DEF Propose, m
<1>10. ASSUME NEW s \in Server, TransferLeader(i, s) PROVE StepPasses(i)
  <2> DEFINE m == [Msg(n, "transfer_leader", n.leader_id) EXCEPT !.from = s]
  <2>1. Quiet(n, HandleTransferLeader(n, s)) BY <1>1, HandleTransferLeaderQuiet
  <2>2. ~ IsVoting(m) BY DEF Msg, IsVoting, IsBallot, IsGrant, IsPreGrant
  <2> HIDE DEF m
  <2>3. Quiet(n, Send(n, m)) BY <1>1, <2>2, SendQuiet
  <2> QED BY <1>3, <1>4, <1>10, <2>1, <2>3 DEF TransferLeader, m
<1>11. ASSUME NEW s \in Server, Unreachable(i, s) PROVE StepPasses(i)
  <2> DEFINE pr == [n.prs[s] EXCEPT !.state = "probe", !.next_idx = n.prs[s].matched + 1,
                                    !.paused = FALSE, !.inflights = <<>>]
  <2>1. Become(i, [n EXCEPT !.prs[s] = pr]) /\ UNCHANGED <<disk, msgs>>
    BY <1>11 DEF Unreachable
  <2> HIDE DEF pr
  <2>2. Quiet(n, [n EXCEPT !.prs[s] = pr]) BY <1>1 DEF Node, Quiet
  <2> QED BY <1>3, <1>4, <2>1, <2>2
<1> QED BY <1>5, <1>6, <1>7, <1>8, <1>9, <1>10, <1>11

\* Every delivery of a message of the network.
LEMMA ReceivePasses ==
  ASSUME Many, HardInv, PreVotesAgree, NEW m \in msgs, Receive(m)
  PROVE  StepPasses(m.to)
<1> DEFINE i == m.to
           n == node[i]
           b == disk[i].commit
           o == Observed(m)
<1>1. m \in Message /\ i \in Server /\ m.from \in Server /\ m.term \in Nat
      /\ m.entries \in Seq(Entry)
  BY DEF HardInv, TypeInv, TypeOK, Message
<1>2. NodeOK(i, n, b) /\ b \in Nat /\ n \in Node /\ n.term \in Nat
      /\ msgs \in SUBSET Message /\ Passes(i, n, n)
      /\ disk[i].term \in Nat /\ disk[i].term <= n.term
  BY <1>1, GateContext
<1>3. NodeOK(i, o, b) BY <1>1, <1>2, ObserveTermOK DEF Observed
<1>4. Passes(i, n, o) /\ (o = n \/ o.state = "follower")
  BY <1>1, <1>2, ObserveTermPasses DEF Observed
<1>5. \A x : Passes(i, n, x) /\ Become(i, x) /\ UNCHANGED <<disk, msgs>> => StepPasses(i)
  BY DEF StepPasses, Become
<1>6. \A x : Passes(i, n, x) /\ Deliver(m, x) => StepPasses(i)
  BY <1>5 DEF Deliver
<1>7. o.state = "candidate" => n.state = "candidate" BY <1>4
<1>8. \A x : Quiet(o, x) => Passes(i, n, x) BY <1>4, <1>7, QuietPasses
<1>9. NodeGate(i, o, msgs, disk) BY <1>4 DEF Passes
<1>a. \A x : Passes(i, o, x) => Passes(i, n, x)
  <2>1. CASE o = n BY <2>1
  <2>2. CASE o.state = "follower" /\ n.state # "candidate"
    BY <2>2 DEF Passes, Gated
  <2>3. CASE n.state = "candidate" BY <2>3 DEF Passes, Gated
  <2> QED BY <1>4, <2>1, <2>2, <2>3
<1>b. ASSUME Current(m)
      PROVE  /\ NodeOK(i, FollowLeader(o, m), b)
             /\ \A x : Quiet(FollowLeader(o, m), x) => Passes(i, n, x)
  <2> DEFINE f == FollowLeader(o, m)
             g == [o EXCEPT !.elapsed = FALSE, !.leader_id = m.from]
  <2>1. NodeOK(i, f, b) BY <1>1, <1>2, <1>3, FollowLeaderOK
  <2>2. o \in Node BY <1>3 DEF NodeOK
  <2>3. m.term >= o.term
    <3>1. m.term >= n.term BY <1>b DEF Current
    <3>2. o = ObserveTerm(n, m) BY DEF Observed
    <3> HIDE DEF o, n, i, b
    <3>3. \A l : BecomeFollower(n, m.term, l).term = m.term
      BY <1>1, <1>2, BecomeFollowerTerm
    <3> QED BY <1>1, <1>2, <3>1, <3>2, <3>3 DEF ObserveTerm
  <2>4. Passes(i, n, BecomeFollower(o, m.term, m.from))
        /\ BecomeFollower(o, m.term, m.from).state = "follower"
    BY <1>1, <1>2, <1>4, <2>2, <2>3, FollowerPasses
  <2>5. Quiet(o, g) BY <2>2 DEF Quiet, Node
  <2>6. Passes(i, n, g) /\ g.state = o.state BY <1>8, <2>5 DEF Quiet
  <2>7. f \in {g, BecomeFollower(o, m.term, m.from)} BY DEF FollowLeader
  <2> HIDE DEF f, g
  <2>8. Passes(i, n, f) /\ (f.state = "candidate" => n.state = "candidate")
    BY <1>7, <2>4, <2>6, <2>7
  <2>9. \A x : Quiet(f, x) => Passes(i, n, x) BY <2>8, QuietPasses
  <2> QED BY <2>1, <2>9 DEF f
<1> HIDE DEF n, b, o
<1>10. CASE ReceiveStale(m)
  <2> DEFINE x == [n EXCEPT !.messages = n.messages \cup StaleReply(n, m)]
  <2>1. \A r \in StaleReply(n, m) : ~ IsVoting(r)
    BY DEF StaleReply, Msg, IsVoting, IsBallot, IsGrant, IsPreGrant
  <2>2. Quiet(n, x) BY <1>2, <2>1 DEF Quiet, Node
  <2>3. Deliver(m, x) BY <1>10 DEF ReceiveStale, n
  <2> HIDE DEF x
  <2>4. Passes(i, n, x) BY <1>2, <2>2, QuietPasses
  <2> QED BY <1>6, <2>3, <2>4
<1> HIDE DEF i
<1>11. CASE ReceiveVoteRequest(m)
  <2> DEFINE x == HandleVoteRequest(o, m)
  <2>1. m.type \in VoteRequestType /\ Deliver(m, x) BY <1>11 DEF ReceiveVoteRequest, o
  <2>2. AskedNext(msgs, disk) BY DEF PreVotesAgree
  <2>3. NodeGate(i, x, msgs, disk) /\ x.state = o.state
    BY <1>1, <1>2, <1>3, <1>9, <2>1, <2>2, HandleVoteRequestPasses
  <2> HIDE DEF x
  <2>4. Passes(i, n, x) BY <1>7, <2>3 DEF Passes, Gated
  <2> QED BY <1>6, <2>1, <2>4 DEF i
<1>12. CASE ReceiveVoteResponse(m)
  <2> DEFINE x == HandleVoteResponse(o, m)
  <2>1. Current(m) /\ Deliver(m, x) BY <1>12 DEF ReceiveVoteResponse, o
  <2>2. m.to = i BY DEF i
  <2>3. IsPreGrant(m) => m.term \in {o.term, o.term + 1}
    <3> SUFFICES ASSUME IsPreGrant(m) PROVE m.term \in {o.term, o.term + 1} OBVIOUS
    <3>1. o = n BY DEF IsPreGrant, KeepsTerm, ObserveTerm, Observed, o, n, i
    <3>2. m.term >= n.term BY <2>1 DEF Current, n, i
    <3>3. m.term <= disk[i].term + 1 BY <2>2 DEF PreVotesAgree, AskedNext
    <3>4. m.term \in {n.term, n.term + 1} BY <1>1, <1>2, <3>2, <3>3
    <3> QED BY <3>1, <3>4
  <2>4. Passes(i, o, x)
    BY <1>1, <1>2, <1>3, <1>9, <2>2, <2>3, HandleVoteResponsePasses
  <2> HIDE DEF x
  <2> QED BY <1>6, <1>a, <2>1, <2>4 DEF i
<1>13. CASE ReceiveAppend(m)
  <2> DEFINE f == FollowLeader(o, m)
  <2>1. Current(m) /\ Deliver(m, HandleAppendEntries(f, m)) BY <1>13 DEF ReceiveAppend, o
  <2>2. NodeOK(i, f, b) /\ \A x : Quiet(f, x) => Passes(i, n, x) BY <1>b, <2>1
  <2> HIDE DEF f
  <2>3. Quiet(f, HandleAppendEntries(f, m)) BY <1>1, <1>2, <2>2, HandleAppendEntriesQuiet
  <2> QED BY <1>6, <2>1, <2>2, <2>3 DEF i
<1>14. CASE ReceiveHeartbeat(m)
  <2> DEFINE f == FollowLeader(o, m)
  <2>1. Current(m) /\ Deliver(m, HandleHeartbeat(f, m)) BY <1>14 DEF ReceiveHeartbeat, o
  <2>2. NodeOK(i, f, b) /\ \A x : Quiet(f, x) => Passes(i, n, x) BY <1>b, <2>1
  <2> HIDE DEF f
  <2>3. Quiet(f, HandleHeartbeat(f, m)) BY <1>1, <1>2, <2>2, HandleHeartbeatQuiet
  <2> QED BY <1>6, <2>1, <2>2, <2>3 DEF i
<1>15. CASE ReceiveAppendResponse(m)
  <2>1. Deliver(m, IF o.state = "leader" THEN HandleAppendResponse(o, m) ELSE o)
    BY <1>15 DEF ReceiveAppendResponse, o
  <2>2. Quiet(o, HandleAppendResponse(o, m))
    BY <1>1, <1>2, <1>3, HandleAppendResponseQuiet
  <2> QED BY <1>4, <1>6, <1>8, <2>1, <2>2 DEF i
<1>16. CASE ReceiveHeartbeatResponse(m)
  <2>1. Deliver(m, IF o.state = "leader" THEN HandleHeartbeatResponse(o, m) ELSE o)
    BY <1>16 DEF ReceiveHeartbeatResponse, o
  <2>2. Quiet(o, HandleHeartbeatResponse(o, m))
    BY <1>1, <1>2, <1>3, HandleHeartbeatResponseQuiet
  <2> QED BY <1>4, <1>6, <1>8, <2>1, <2>2 DEF i
<1>17. CASE ReceiveTimeoutNow(m)
  <2>1. Deliver(m, IF o.state = "follower" THEN Hup(o, TRUE) ELSE o)
    BY <1>17 DEF ReceiveTimeoutNow, o
  <2>2. Passes(i, n, CampaignElection(o, TRUE))
    <3>1. /\ NodeGate(i, CampaignElection(o, TRUE), msgs, disk)
          /\ \E r \in CampaignElection(o, TRUE).messages : r.force
      BY <1>1, <1>2, <1>3, <1>9, CampaignPasses
    <3> QED BY <3>1 DEF Passes, Gated
  <2>3. Passes(i, n, Hup(o, TRUE)) BY <1>4, <2>2 DEF Hup
  <2> QED BY <1>4, <1>6, <2>1, <2>3 DEF i
<1>18. CASE ReceiveTransferLeader(m)
  <2>1. Deliver(m, IF o.state = "leader" THEN HandleTransferLeader(o, m.from) ELSE o)
    BY <1>18 DEF ReceiveTransferLeader, o
  <2>2. Quiet(o, HandleTransferLeader(o, m.from))
    BY <1>1, <1>2, <1>3, HandleTransferLeaderQuiet
  <2> QED BY <1>4, <1>6, <1>8, <2>1, <2>2 DEF i
<1>19. CASE ReceivePropose(m)
  <2> DEFINE f == [m EXCEPT !.to = n.leader_id]
             v == m.entries[1].val
  <2>1. m.entries # <<>> /\ UNCHANGED <<disk, msgs>> /\ m.type = "propose"
    BY <1>19 DEF ReceivePropose
  <2>2. v \in Value \cup {Noop}
    <3>1. 1 \in 1..Len(m.entries) BY <1>1, <2>1, LenProperties, EmptySeq
    <3>2. m.entries[1] \in Entry BY <1>1, <3>1, ElementOfSeq
    <3> QED BY <3>2 DEF Entry
  <2> HIDE DEF v
  <2>3. Quiet(n, HandlePropose(n, v)) BY <1>1, <1>2, <2>2, HandleProposeQuiet
  <2>4. ~ IsVoting(f) BY <1>1, <2>1 DEF IsVoting, IsBallot, IsGrant, IsPreGrant, Message
  <2> HIDE DEF f
  <2>5. Quiet(n, Send(n, f)) BY <1>2, <2>4, SendQuiet
  <2>6. \A x : Quiet(n, x) => Passes(i, n, x) BY <1>2, QuietPasses
  <2>7. Become(i, HandlePropose(n, v)) \/ Become(i, Send(n, f))
    BY <1>19 DEF ReceivePropose, f, v, n, i
  <2> QED BY <1>5, <2>1, <2>3, <2>5, <2>6, <2>7 DEF i
<1> QED
  BY <1>10, <1>11, <1>12, <1>13, <1>14, <1>15, <1>16, <1>17, <1>18, <1>19 DEF Receive

\* A step that passes keeps the pre-votes in order, and the gate.
LEMMA StepKeepsGate ==
  ASSUME HardInv, PreVotesAgree, NEW i \in Server, StepPasses(i)
  PROVE  PreVotesAgree' /\ \A j \in Server : Gated(j, node[j], node'[j])
<1>1. PICK x : Passes(i, node[i], x) /\ node' = [node EXCEPT ![i] = x]
  BY DEF StepPasses
<1>2. disk' = disk /\ msgs' = msgs BY DEF StepPasses
<1>3. node \in [Server -> Node] BY DEF HardInv, TypeInv, TypeOK
<1>4. node'[i] = x /\ \A j \in Server : j # i => node'[j] = node[j] BY <1>1, <1>3
<1>5. \A j \in Server : NodeGate(j, node'[j], msgs, disk)
  BY <1>1, <1>4 DEF Passes, PreVotesAgree
<1>6. \A j \in Server : Gated(j, node[j], node[j]) BY DEF Gated
<1>7. \A j \in Server : Gated(j, node[j], node'[j]) BY <1>1, <1>4, <1>6 DEF Passes
<1>8. AskedNext(msgs, disk) BY DEF PreVotesAgree
<1> QED BY <1>2, <1>5, <1>7, <1>8 DEF PreVotesAgree

\* Node i sends its messages once its term is on disk, or forgets them.
LEMMA TransmitKeepsGate ==
  ASSUME HardInv, PreVotesAgree, NEW i \in Server, NEW n2, NEW d, NEW new,
         \A m \in new : IsVoting(m) => m \in node[i].messages,
         msgs \subseteq msgs', msgs' \subseteq msgs \cup new,
         node' = [node EXCEPT ![i] = n2], disk' = [disk EXCEPT ![i] = d],
         new = {} \/ d.term = node[i].term,
         \A j \in Server : HardForward(disk[j], disk'[j]),
         TypeInv', n2.messages = {},
         n2.state \in {"pre_candidate", "candidate"} =>
           /\ n2.state = node[i].state /\ n2.votes = node[i].votes /\ n2.term = node[i].term
  PROVE  PreVotesAgree' /\ \A j \in Server : Gated(j, node[j], node'[j])
<1> DEFINE n == node[i]
           M == msgs
           M2 == msgs'
           D == disk
           D2 == disk'
<1>1. /\ node \in [Server -> Node] /\ D \in [Server -> Disk] /\ D2 \in [Server -> Disk]
      /\ M \in SUBSET Message /\ M2 \in SUBSET Message /\ n \in Node
      /\ AskedNext(M, D) /\ \A j \in Server : NodeGate(j, node[j], M, D)
  BY DEF HardInv, TypeInv, TypeOK, PreVotesAgree
<1>2. node'[i] = n2 /\ D2[i] = d /\ \A j \in Server : j # i => node'[j] = node[j]
  BY <1>1
<1>3. \A j \in Server : D[j].term <= D2[j].term /\ D[j].term \in Nat /\ D2[j].term \in Nat
  <2>1. \A j \in Server : D[j].term \in Nat /\ D2[j].term \in Nat BY <1>1 DEF Disk
  <2>2. \A j \in Server : D2[j].term >= D[j].term BY DEF HardForward
  <2> QED BY <2>1, <2>2
<1>4. \A m \in M2 : IsVoting(m) => m \in M \/ (m \in n.messages /\ d.term = n.term)
  OBVIOUS
<1>5. M \subseteq M2 OBVIOUS
<1>6. \A m \in Message : m.term \in Nat /\ m.from \in Server /\ m.to \in Server BY DEF Message
<1>7. \A m : m.type = "request_pre_vote" \/ IsPreGrant(m) => IsVoting(m) BY DEF IsVoting
<1>8. NodeGate(i, n, M, D) BY <1>1
<1>9. n.messages \subseteq Message /\ n.term \in Nat BY <1>1 DEF Node
<1>10. n2.messages = {} /\ (n2.state \in {"pre_candidate", "candidate"} =>
         n2.state = n.state /\ n2.votes = n.votes /\ n2.term = n.term)
  OBVIOUS
<1> HIDE DEF n, M, M2, D, D2
<1>11. ASSUME NEW m \in Message, NEW j \in Server, m.term <= D[j].term + 1
       PROVE  m.term <= D2[j].term + 1
  BY ONLY <1>3, <1>6, <1>11
<1>12. AskedNext(M2, D2)
  <2> SUFFICES ASSUME NEW m \in M2
               PROVE  /\ m.type = "request_pre_vote" => m.term <= D2[m.from].term + 1
                      /\ IsPreGrant(m) => m.term <= D2[m.to].term + 1
    BY DEF AskedNext
  <2>1. m \in Message /\ m.from \in Server /\ m.to \in Server BY <1>1, <1>6
  <2>2. ASSUME m.type = "request_pre_vote" PROVE m.term <= D2[m.from].term + 1
    <3>1. CASE m \in M
      <4>1. m.term <= D[m.from].term + 1 BY <1>1, <2>2, <3>1 DEF AskedNext
      <4> QED BY <1>11, <2>1, <4>1
    <3>2. CASE m \in n.messages /\ d.term = n.term
      <4>1. m.from = i /\ m.term <= n.term + 1 BY <1>8, <2>2, <3>2 DEF NodeGate
      <4> QED BY <1>2, <3>2, <4>1
    <3> QED BY <1>4, <1>7, <2>2, <3>1, <3>2
  <2>3. ASSUME IsPreGrant(m) PROVE m.term <= D2[m.to].term + 1
    <3>1. m \in M \/ m \in n.messages BY <1>4, <1>7, <2>3
    <3>2. m.term <= D[m.to].term + 1 BY <1>1, <1>8, <2>3, <3>1 DEF AskedNext, NodeGate
    <3> QED BY <1>11, <2>1, <3>2
  <2> QED BY <2>2, <2>3
<1>13. \A s, c, t : HasPreGrant(s, c, t, M) => HasPreGrant(s, c, t, M2)
  BY <1>5 DEF HasPreGrant
<1>14. NodeGate(i, n2, M2, D2) BY <1>8, <1>10, <1>13 DEF NodeGate
<1>15. ASSUME NEW j \in Server PROVE NodeGate(j, node[j], M2, D2)
  <2>1. NodeGate(j, node[j], M, D) /\ node[j] \in Node BY <1>1
  <2>2. node[j].messages \subseteq Message BY <2>1 DEF Node
  <2>3. \A m \in node[j].messages : IsPreGrant(m) => m.term <= D2[m.to].term + 1
    BY <1>6, <1>11, <2>1, <2>2 DEF NodeGate
  <2> QED BY <1>13, <2>1, <2>3 DEF NodeGate
<1>16. \A j \in Server : NodeGate(j, node'[j], M2, D2) BY <1>2, <1>14, <1>15
<1>17. ASSUME NEW j \in Server PROVE Gated(j, node[j], node'[j])
  <2>1. CASE j = i
    <3>1. node'[j] = n2 /\ node[j] = n BY <1>2, <2>1 DEF n
    <3> QED BY <1>10, <3>1 DEF Gated
  <2>2. CASE j # i BY <1>2, <2>2 DEF Gated
  <2> QED BY <2>1, <2>2
<1> QED BY <1>12, <1>16, <1>17 DEF PreVotesAgree, M2, D2

\* A Ready, and a crash at any of its points.
LEMMA DiskStepKeepsGate ==
  ASSUME HardInv, PreVotesAgree, TypeInv', NEW i \in Server,
         \/ Ready(i)
         \/ Crash(i)
         \/ \E k \in 0..LastIndex(node[i].log) : CrashInAppend(i, k)
         \/ CrashBeforeAdvance(i)
  PROVE  PreVotesAgree' /\ \A j \in Server : Gated(j, node[j], node'[j])
<1> DEFINE n == node[i]
           b == disk[i].commit
<1>1. NodeOK(i, n, b) /\ b \in Nat /\ n \in Node /\ disk \in [Server -> Disk]
  BY GateContext
<1>2. \A j \in Server : HardForward(disk[j], disk'[j]) BY DiskStepHard
<1>3. \A new : Transmit(new) => msgs \subseteq msgs' /\ msgs' \subseteq msgs \cup new
  BY DEF Transmit
<1>4. CASE Ready(i)
  <2> DEFINE q == [n EXCEPT !.messages = {}]
             p == OnPersistEntries(q)
             x == [p EXCEPT !.messages = {}]
             new == n.messages \cup p.messages
  <2>1. /\ NodeOK(i, q, b) /\ q.term = n.term /\ q.state = n.state /\ q.votes = n.votes
        /\ q.messages = {}
    BY <1>1 DEF NodeOK, Node
  <2>2. PICK c : disk' = [disk EXCEPT ![i] = HardState(n, disk[i], c)] BY <1>4 DEF Ready
  <2>3. Become(i, x) /\ Transmit(new) BY <1>4 DEF Ready
  <2> HIDE DEF q
  <2>4. Quiet(q, p) /\ p \in Node
    BY <1>1, <2>1, OnPersistEntriesQuiet, OnPersistEntriesOK DEF NodeOK
  <2> HIDE DEF p
  <2>5. x.term = n.term /\ x.state = n.state /\ x.votes = n.votes /\ x.messages = {}
    BY <2>1, <2>4 DEF Quiet, Node
  <2>6. HardState(n, disk[i], c).term = n.term BY <1>1 DEF HardState, Disk
  <2>7. node' = [node EXCEPT ![i] = x] BY <2>3 DEF Become
  <2>8. \A m \in new : IsVoting(m) => m \in n.messages BY <2>1, <2>4 DEF Quiet
  <2> DEFINE d == HardState(n, disk[i], c)
  <2>9. msgs \subseteq msgs' /\ msgs' \subseteq msgs \cup new BY <1>3, <2>3
  <2>10. disk' = [disk EXCEPT ![i] = d] /\ d.term = n.term BY <2>2, <2>6
  <2> HIDE DEF x, d, new
  <2> QED BY <1>2, <2>5, <2>7, <2>8, <2>9, <2>10, TransmitKeepsGate
<1>5. ASSUME NEW d, NEW new, RestartFrom(i, d), new \subseteq n.messages,
             new = {} \/ d.term = n.term,
             msgs \subseteq msgs', msgs' \subseteq msgs \cup new
      PROVE  PreVotesAgree' /\ \A j \in Server : Gated(j, node[j], node'[j])
  <2> DEFINE x == Restart(i, d)
  <2>1. x.messages = {} /\ x.state = "follower" BY DEF Restart
  <2>2. node' = [node EXCEPT ![i] = x] /\ disk' = [disk EXCEPT ![i] = d]
    BY <1>5 DEF RestartFrom
  <2> HIDE DEF x
  <2>3. x.state \notin {"pre_candidate", "candidate"} BY <2>1
  <2>4. \A m \in new : IsVoting(m) => m \in node[i].messages BY <1>5
  <2> QED BY <1>2, <1>5, <2>1, <2>2, <2>3, <2>4, TransmitKeepsGate
<1>6. ASSUME NEW d, RestartFrom(i, d), UNCHANGED msgs
      PROVE  PreVotesAgree' /\ \A j \in Server : Gated(j, node[j], node'[j])
  <2>1. PICK new : new = {} OBVIOUS
  <2>2. new \subseteq n.messages /\ msgs \subseteq msgs' /\ msgs' \subseteq msgs \cup new
    BY <1>6, <2>1
  <2> QED BY <1>5, <1>6, <2>1, <2>2
<1>7. ASSUME Crash(i) \/ \E k \in 0..LastIndex(node[i].log) : CrashInAppend(i, k)
      PROVE  PreVotesAgree' /\ \A j \in Server : Gated(j, node[j], node'[j])
  <2>1. \E d : RestartFrom(i, d) /\ UNCHANGED msgs BY <1>7 DEF Crash, CrashInAppend
  <2> QED BY <1>6, <2>1
<1>8. CASE CrashBeforeAdvance(i)
  <2> DEFINE d == HardState(node[i], disk[i], node[i].committed)
  <2>1. d.term = n.term BY <1>1 DEF HardState, Disk
  <2>2. RestartFrom(i, d) /\ Transmit(n.messages) BY <1>8 DEF CrashBeforeAdvance
  <2>3. msgs \subseteq msgs' /\ msgs' \subseteq msgs \cup n.messages BY <1>3, <2>2
  <2> HIDE DEF d
  <2> QED BY <1>5, <2>1, <2>2, <2>3
<1> QED BY <1>4, <1>7, <1>8

\* No pre-vote is asked for initially.
LEMMA GateInit == Init => PreVotesAgree
<1> SUFFICES ASSUME Init PROVE PreVotesAgree OBVIOUS
<1>1. \A i \in Server : node[i].messages = {} /\ node[i].state = "follower"
  BY DEF Init, Restart
<1>2. msgs = {} BY DEF Init
<1> QED BY <1>1, <1>2 DEF PreVotesAgree, NodeGate, AskedNext

\* Every step among many keeps the pre-votes in order, and the gate.
LEMMA GateStep ==
  ASSUME Many, HardInv, TypeInv', PreVotesAgree, [Next]_vars
  PROVE  PreVotesAgree' /\ \A j \in Server : Gated(j, node[j], node'[j])
<1> DEFINE Goal == PreVotesAgree' /\ \A j \in Server : Gated(j, node[j], node'[j])
<1>1. ASSUME NEW i \in Server, StepPasses(i) PROVE Goal BY <1>1, StepKeepsGate
<1>2. ASSUME NEW m \in msgs, Receive(m) PROVE Goal
  <2>1. m.to \in Server BY DEF HardInv, TypeInv, TypeOK, Message
  <2>2. StepPasses(m.to) BY <1>2, ReceivePasses
  <2> QED BY <1>1, <2>1, <2>2
<1>3. CASE UNCHANGED vars
  <2>1. node' = node /\ disk' = disk /\ msgs' = msgs BY <1>3 DEF vars
  <2> QED BY <2>1 DEF PreVotesAgree, Gated
<1>4. ASSUME NEW i \in Server,
             \/ Campaign(i)
             \/ LeaseExpires(i)
             \/ LeaderTick(i)
             \/ Beat(i)
             \/ \E v \in Value : Propose(i, v)
             \/ \E s \in Server : TransferLeader(i, s)
             \/ \E s \in Server : Unreachable(i, s)
      PROVE  Goal
  <2>1. StepPasses(i) BY <1>4, LocalPasses
  <2> QED BY <1>1, <2>1
<1>5. ASSUME NEW i \in Server,
             \/ Ready(i)
             \/ Crash(i)
             \/ \E k \in 0..LastIndex(node[i].log) : CrashInAppend(i, k)
             \/ CrashBeforeAdvance(i)
      PROVE  Goal
  BY <1>5, DiskStepKeepsGate
<1> QED BY <1>2, <1>3, <1>4, <1>5 DEF Next

\* A single server is a quorum by itself.
LEMMA AloneIsGranted ==
  ASSUME ~ Many, NEW i \in Server, NEW t
  PROVE  PreVoteGranted(i, t)
<1> DEFINE G == {s \in Server :
                   \E m \in msgs : /\ m.type = "request_pre_vote_response"
                                   /\ m.from = s /\ m.to = i /\ ~ m.reject
                                   /\ m.term \in {t - 1, t}}
<1>1. Server = {i} BY DEF Many
<1>2. {i} \cup G = {i} BY <1>1
<1>3. Incoming = {i} /\ Outgoing \in {{}, {i}} BY <1>1, RaftAssumption
<1>4. IsQuorum(Incoming, Outgoing, {i})
  <2>1. Cardinality({i}) = 1 BY FS_Singleton
  <2>2. {i} \cap {i} = {i} OBVIOUS
  <2>3. Cardinality({i} \cap {i}) >= Majority(Cardinality({i})) BY <2>1, <2>2 DEF Majority
  <2>4. IsMajorityOf({i}, {i}) /\ IsMajorityOf({}, {i}) BY <2>3 DEF IsMajorityOf
  <2> QED BY <1>3, <2>4 DEF IsQuorum
<1> HIDE DEF G
<1> QED BY <1>2, <1>4 DEF PreVoteGranted, G

\* Hence the gate holds of every step, also of a single server.
LEMMA GateAlways ==
  ASSUME GateInv, TypeInv', [Next]_vars
  PROVE  \A i \in Server : Gated(i, node[i], node'[i])
<1>1. CASE Many BY <1>1, GateStep DEF GateInv
<1>2. CASE ~ Many BY <1>2, AloneIsGranted DEF Gated
<1> QED BY <1>1, <1>2

\* The pre-votes are in order in every reachable state.
THEOREM GateInvInductive == Spec => []GateInv
<1>1. Init => GateInv BY HardInit, GateInit DEF GateInv
<1>2. GateInv /\ TypeInv' /\ [Next]_vars => GateInv'
  <2> SUFFICES ASSUME GateInv, TypeInv', [Next]_vars PROVE GateInv' OBVIOUS
  <2>1. HardInv' BY HardStep DEF GateInv
  <2>2. Many => PreVotesAgree' BY GateStep DEF GateInv
  <2> QED BY <2>1, <2>2 DEF GateInv, Many
<1> QED BY <1>1, <1>2, TypeInvInductive, PTL DEF Spec

(***************************************************************************)
(* With pre-vote a node disturbs the cluster by an election of its own     *)
(* accord only when a quorum would vote for it: whenever a step makes it a *)
(* candidate and the leader did not ask for that (campaign(.transfer)),    *)
(* the network holds granted answers of a quorum for the new term or the   *)
(* one before.  No crash, restart, duplicate or delayed answer gets around *)
(* that (raft.zig campaign, poll, stepCandidate).                          *)
(***************************************************************************)
THEOREM PreVoteGateHolds == Spec => PreVoteGate
<1>1. GateInv /\ TypeInv' /\ [Next]_vars =>
        [\A i \in Server :
           (PreVote /\ node[i].state # "candidate" /\ node'[i].state = "candidate"
             /\ ~ \E m \in node'[i].messages : m.force)
           => PreVoteGranted(i, node'[i].term)]_vars
  BY GateAlways DEF Gated
<1> QED BY <1>1, GateInvInductive, TypeInvInductive, PTL DEF Spec, PreVoteGate
=============================================================================
