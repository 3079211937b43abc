-------------------------------- MODULE Raft --------------------------------
(***************************************************************************)
(* The consensus core of raftz: raft.zig (elections with pre-vote, lease   *)
(* and leader transfer; replication; commit), raft_log.zig, progress.zig   *)
(* and the synchronous Ready cycle of ready_processor.zig that makes state *)
(* durable before it lets messages out, over a network that may lose,      *)
(* duplicate and reorder messages and nodes that may crash at any point of *)
(* the Ready cycle.                                                        *)
(*                                                                         *)
(* A node is a record (struct Raft); the handlers of raft.zig are          *)
(* operators from a node to a node, composed as the code composes calls.   *)
(* An action applies one handler to one node.  The configuration is fixed  *)
(* and may be joint; the log is never compacted.                           *)
(***************************************************************************)
EXTENDS QuorumConf, TLC

CONSTANTS
  Server,        \* node ids
  None,          \* invalid_id
  Incoming,      \* conf.voters.incoming
  Outgoing,      \* conf.voters.outgoing, empty outside a joint configuration
  Value,         \* payloads a client may propose
  Noop,          \* payload of the entry a new leader appends
  Priority,      \* Raft.priority of every node
  PreVote,       \* Config.pre_vote
  CheckQuorum,   \* Config.check_quorum
  MaxEntries,    \* entries that fit max_size_per_message
  MaxInflight,   \* Config.max_inflight_messages
  Batching,      \* Config.transport_poll_budget > 1: several inputs per Ready
  MaxMsgs,       \* messages the network holds; more are lost
  Budget         \* how often each kind of external event may happen

Event == {"campaign", "crash", "propose", "beat", "transfer", "unreachable", "tick"}

ASSUME RaftAssumption ==
  /\ IsFiniteSet(Server)
  /\ None \notin Server
  /\ Incoming \cup Outgoing = Server
  /\ Incoming # {}
  /\ Noop \notin Value
  /\ Priority \in [Server -> Int]
  /\ PreVote \in BOOLEAN
  /\ CheckQuorum \in BOOLEAN
  /\ Batching \in BOOLEAN
  /\ MaxEntries \in Nat \ {0}
  /\ MaxInflight \in Nat \ {0}
  /\ MaxMsgs \in Nat
  /\ Budget \in [Event -> Nat]

VARIABLES
  node,    \* node[i]: the volatile state of node i and its unsent messages
  disk,    \* disk[i]: what the storage of node i returns after a restart
  msgs,    \* messages handed to the transport; they stay, so any of them may
           \* be delivered late, twice or never
  elected, \* history: the pairs <<term, node>> that became leader
  decided, \* history: the longest committed prefix any node has ever had
  budget   \* remaining external events

vars == <<node, disk, msgs, elected, decided, budget>>

(***************************************************************************)
(* Data.                                                                   *)
(***************************************************************************)
Role == {"follower", "pre_candidate", "candidate", "leader"}
Entry == [term : Nat, val : Value \cup {Noop}]

MsgType == {"request_vote", "request_vote_response",
            "request_pre_vote", "request_pre_vote_response",
            "append", "append_response", "heartbeat", "heartbeat_response",
            "timeout_now", "transfer_leader", "propose"}

Message == [type : MsgType, from : Server, to : Server, term : Nat,
            index : Nat, log_term : Nat, commit : Nat, commit_term : Nat,
            reject : BOOLEAN, reject_hint : Nat, entries : Seq(Entry),
            force : BOOLEAN]

Progress == [matched : Nat, next_idx : Nat \ {0}, state : {"probe", "replicate"},
             paused : BOOLEAN, recent_active : BOOLEAN, inflights : Seq(Nat)]

Node == [id : Server, term : Nat, vote : Server \cup {None}, state : Role,
         leader_id : Server \cup {None}, lead_transferee : Server \cup {None},
         elapsed : BOOLEAN,            \* election_elapsed >= election_timeout
         votes : [Server -> VoteValue],
         log : Seq(Entry), committed : Nat, persisted : Nat,
         prs : [Server -> Progress],
         messages : SUBSET Message]

Disk == [term : Nat, vote : Server \cup {None}, commit : Nat, log : Seq(Entry)]

\* A Message with every field but the four at its default; the term is the
\* one Raft.send stamps.
Msg(n, type, to) ==
  [type |-> type, from |-> n.id, to |-> to, term |-> n.term,
   index |-> 0, log_term |-> 0, commit |-> 0, commit_term |-> 0,
   reject |-> FALSE, reject_hint |-> 0, entries |-> <<>>, force |-> FALSE]

\* Raft.send: queue the message; a Ready will carry it out.  The panic on a
\* vote message of term 0 is left out, so the model has the behaviours after
\* it as well: a node still in term 0 gets there when it refuses a pre-vote,
\* which takes a priority above the sender's.
Send(n, m) == [n EXCEPT !.messages = @ \cup {m}]

Peers(n) == Server \ {n.id}

(***************************************************************************)
(* raft_log.zig, for a log that starts at index 1.                         *)
(***************************************************************************)
LastIndex(log) == Len(log)

\* RaftLog.term: 0 outside the log.
TermAt(log, k) == IF k \in 1..Len(log) THEN log[k].term ELSE 0

LastTerm(log) == TermAt(log, LastIndex(log))

\* Mutant: compares positions only.
MatchTermByIndex(log, k, t) == k <= LastIndex(log)

MatchTerm(log, k, t) == k <= LastIndex(log) /\ TermAt(log, k) = t

IsUpToDate(log, lastIndex, t) ==
  \/ t > LastTerm(log)
  \/ t = LastTerm(log) /\ lastIndex >= LastIndex(log)

\* findConflictByTerm: the last index at most k whose term is at most t (its
\* backwards walk ends at index 0, whose term is 0).
FindConflictByTerm(log, k, t) ==
  IF k > LastIndex(log) THEN k
  ELSE CHOOSE j \in 0..k : /\ TermAt(log, j) <= t
                           /\ \A h \in (j + 1)..k : TermAt(log, h) > t

\* The offsets in a batch after index k whose term differs from the log.
Conflicts(log, k, ents) ==
  {j \in 1..Len(ents) : ~ MatchTerm(log, k + j, ents[j].term)}

\* RaftLog.maybeCommit and commitTo: only forward, only on a term match.
LogMaybeCommit(n, k, t) ==
  IF k > n.committed /\ MatchTerm(n.log, k, t) THEN [n EXCEPT !.committed = k] ELSE n

CommitTo(n, k) ==
  IF k > n.committed /\ k <= LastIndex(n.log) THEN [n EXCEPT !.committed = k] ELSE n

(***************************************************************************)
(* Role changes.  Progress is read only while leading, and Raft.reset      *)
(* rebuilds it on every role change; the model builds it in BecomeLeader   *)
(* and keeps NoProgress otherwise.                                         *)
(***************************************************************************)
NoProgress ==
  [s \in Server |-> [matched |-> 0, next_idx |-> 1, state |-> "probe",
                     paused |-> FALSE, recent_active |-> FALSE, inflights |-> <<>>]]

NoVotes == [s \in Server |-> "missing"]

\* Raft.reset.
Reset(n, t) ==
  [n EXCEPT !.term = t,
            !.vote = IF n.term = t THEN n.vote ELSE None,
            !.leader_id = None, !.lead_transferee = None, !.elapsed = FALSE,
            !.votes = NoVotes, !.prs = NoProgress]

BecomeFollower(n, t, leader) ==
  [Reset(n, t) EXCEPT !.leader_id = leader, !.state = "follower"]

BecomePreCandidate(n) ==
  [n EXCEPT !.state = "pre_candidate", !.votes = NoVotes, !.leader_id = None]

BecomeCandidate(n) ==
  [Reset(n, n.term + 1) EXCEPT !.vote = n.id, !.state = "candidate"]

\* Mutant: the entry keeps the term it was proposed with.
AppendEntryUnstamped(n, val) ==
  [n EXCEPT !.log = Append(@, [term |-> 0, val |-> val])]

\* Raft.appendEntry of one entry.
AppendEntry(n, val) ==
  [n EXCEPT !.log = Append(@, [term |-> n.term, val |-> val])]

\* The Progress a leader starts with: its own counts what it has persisted.
LeaderProgress(n) ==
  [s \in Server |->
     IF s = n.id
       THEN [matched |-> n.persisted, next_idx |-> n.persisted + 1,
             state |-> "replicate", paused |-> FALSE, recent_active |-> FALSE,
             inflights |-> <<>>]
       ELSE [NoProgress[s] EXCEPT !.next_idx = LastIndex(n.log) + 1]]

BecomeLeader(n) ==
  AppendEntry([Reset(n, n.term) EXCEPT !.leader_id = n.id, !.state = "leader",
                                       !.prs = LeaderProgress(n)], Noop)

(***************************************************************************)
(* Sending entries (maybeSendAppend, prepareSendEntries, updateState).     *)
(***************************************************************************)
IsPaused(pr) == IF pr.state = "probe" THEN pr.paused
                                      ELSE Len(pr.inflights) = MaxInflight

\* The index of the last entry of a message that starts at k.
BatchEnd(n, k) == MinOf(LastIndex(n.log), k + MaxEntries - 1)

\* Mutant: the previous index is off by one.
AppendMsgOneLower(n, to, k) ==
  [Msg(n, "append", to) EXCEPT
     !.index = k - 2, !.log_term = TermAt(n.log, k - 2), !.commit = n.committed,
     !.entries = SubSeq(n.log, k, BatchEnd(n, k))]

AppendMsg(n, to, k) ==
  [Msg(n, "append", to) EXCEPT
     !.index = k - 1, !.log_term = TermAt(n.log, k - 1), !.commit = n.committed,
     !.entries = SubSeq(n.log, k, BatchEnd(n, k))]

\* Mutant: the window is not consulted.
SendCountWithoutWindow(n, pr, limit) ==
  IF pr.next_idx > LastIndex(n.log) THEN 0
  ELSE MinOf(limit, (LastIndex(n.log) + MaxEntries - pr.next_idx) \div MaxEntries)

\* How many messages the follower's window lets out now: maybeSendAppend
\* sends one (empty if nothing is new and allowEmpty), sendAppendAggressively
\* repeats it while there are entries and room.
SendCount(n, pr, limit) ==
  LET batches == (LastIndex(n.log) + MaxEntries - pr.next_idx) \div MaxEntries
      room    == IF pr.state = "probe" THEN 1 ELSE MaxInflight - Len(pr.inflights)
  IN  IF IsPaused(pr) \/ pr.next_idx > LastIndex(n.log) THEN 0
      ELSE MinOf(limit, MinOf(batches, room))

\* The Progress after c messages with entries left.
AfterSend(n, pr, c) ==
  IF c = 0 THEN pr
  ELSE IF pr.state = "probe" THEN [pr EXCEPT !.paused = TRUE]
  ELSE LET last(j) == BatchEnd(n, pr.next_idx + (j - 1) * MaxEntries)
       IN  [pr EXCEPT !.next_idx = last(c) + 1,
                      !.inflights = @ \o [j \in 1..c |-> last(j)]]

AppendMsgs(n, to, c) ==
  {AppendMsg(n, to, n.prs[to].next_idx + j * MaxEntries) : j \in 0..(c - 1)}

\* sendAppend: at most one message, empty if there is nothing to send.
AppendsTo(n, to) ==
  LET pr == n.prs[to] IN
  IF ~ IsPaused(pr) /\ pr.next_idx > LastIndex(n.log)
    THEN {AppendMsg(n, to, pr.next_idx)}
    ELSE AppendMsgs(n, to, SendCount(n, pr, 1))

SendAppend(n, to) ==
  [n EXCEPT !.prs[to] = AfterSend(n, @, SendCount(n, @, 1)),
            !.messages = @ \cup AppendsTo(n, to)]

BroadcastAppend(n) ==
  [n EXCEPT !.prs = [s \in Server |-> IF s = n.id THEN @[s]
                                      ELSE AfterSend(n, @[s], SendCount(n, @[s], 1))],
            !.messages = @ \cup UNION {AppendsTo(n, s) : s \in Peers(n)}]

SendAppendAggressively(n, to) ==
  LET c == SendCount(n, n.prs[to], MaxInflight) IN
  [n EXCEPT !.prs[to] = AfterSend(n, @, c),
            !.messages = @ \cup AppendMsgs(n, to, c)]

\* Mutant: an entry of an earlier term may be committed by counting.
CanCommitAnyTerm(n, k) ==
  /\ k > n.committed
  /\ IsQuorumIndex(Incoming, Outgoing, [s \in Server |-> n.prs[s].matched], k)

\* Mutant: the outgoing half of a joint configuration is forgotten.
CanCommitIncomingOnly(n, k) ==
  /\ k > n.committed
  /\ TermAt(n.log, k) = n.term
  /\ IsQuorumIndex(Incoming, {}, [s \in Server |-> n.prs[s].matched], k)

\* Raft.maybeCommit: the quorum index, if its entry is of the current term.
CanCommit(n, k) ==
  /\ k > n.committed
  /\ TermAt(n.log, k) = n.term
  /\ IsQuorumIndex(Incoming, Outgoing, [s \in Server |-> n.prs[s].matched], k)

MayCommit(n) == \E k \in 1..LastIndex(n.log) : CanCommit(n, k)

MaybeCommit(n) ==
  IF MayCommit(n)
    THEN [n EXCEPT !.committed = CHOOSE k \in 1..LastIndex(n.log) : CanCommit(n, k)]
    ELSE n

(***************************************************************************)
(* Elections (hup, campaign, poll).                                        *)
(***************************************************************************)
RecordVote(n, from, granted) ==
  [n EXCEPT !.votes[from] = IF granted THEN "yes" ELSE "no"]

Tally(n) == JointVoteResult(Incoming, Outgoing, n.votes)

\* The requests campaign sends to every other voter.
VoteRequest(n, type, t, to, force) ==
  [Msg(n, type, to) EXCEPT
     !.term = t, !.index = LastIndex(n.log), !.log_term = LastTerm(n.log),
     !.commit = n.committed, !.commit_term = TermAt(n.log, n.committed),
     !.force = force]

RequestVotes(n, type, t, force) ==
  [n EXCEPT !.messages = @ \cup {VoteRequest(n, type, t, s, force) : s \in Peers(n)}]

\* campaign(.election) and campaign(.transfer).
CampaignElection(n, force) ==
  LET c == RecordVote(BecomeCandidate(n), n.id, TRUE)
  IN  IF Tally(c) = "won" THEN BroadcastAppend(BecomeLeader(c))
      ELSE RequestVotes(c, "request_vote", c.term, force)

\* campaign(.pre_election).
CampaignPreElection(n) ==
  LET c == RecordVote(BecomePreCandidate(n), n.id, TRUE)
  IN  IF Tally(c) = "won" THEN CampaignElection(c, FALSE)
      ELSE RequestVotes(c, "request_pre_vote", c.term + 1, FALSE)

\* Raft.hup: a leader ignores it.
Hup(n, transfer) ==
  IF n.state = "leader" THEN n
  ELSE IF transfer THEN CampaignElection(n, TRUE)
  ELSE IF PreVote THEN CampaignPreElection(n)
  ELSE CampaignElection(n, FALSE)

\* Raft.poll.
Poll(n, from, granted) ==
  LET r == RecordVote(n, from, granted)
  IN  CASE Tally(r) = "pending" -> r
        [] Tally(r) = "lost"    -> BecomeFollower(r, r.term, None)
        [] Tally(r) = "won"     -> IF r.state = "pre_candidate"
                                     THEN CampaignElection(r, FALSE)
                                     ELSE BroadcastAppend(BecomeLeader(r))

\* Raft.maybeCommitByVote: vote traffic carries commit information.
MaybeCommitByVote(n, m) ==
  IF m.commit = 0 \/ m.commit_term = 0 \/ n.state = "leader" THEN n
  ELSE LogMaybeCommit(n, m.commit, m.commit_term)

(***************************************************************************)
(* The first half of Raft.step: comparing terms.                           *)
(***************************************************************************)
VoteRequestType == {"request_vote", "request_pre_vote"}

\* A follower that recently heard from a leader ignores vote requests of a
\* higher term, unless the leader itself asked for the election.
InLease(n, m) ==
  /\ m.type \in VoteRequestType
  /\ m.term > n.term
  /\ ~ m.force
  /\ CheckQuorum /\ n.leader_id # None /\ ~ n.elapsed

KeepsTerm(m) ==
  \/ m.type = "request_pre_vote"
  \/ m.type = "request_pre_vote_response" /\ ~ m.reject

ObserveTerm(n, m) ==
  IF m.term <= n.term \/ KeepsTerm(m) THEN n
  ELSE BecomeFollower(n, m.term,
                      IF m.type \in {"append", "heartbeat"} THEN m.from ELSE None)

\* The answer to a message of an older term.
StaleReply(n, m) ==
  IF m.type \in {"append", "heartbeat"} /\ (CheckQuorum \/ PreVote)
    THEN {Msg(n, "append_response", m.from)}
  ELSE IF m.type = "request_pre_vote"
    THEN {[Msg(n, "request_pre_vote_response", m.from) EXCEPT !.reject = TRUE]}
  ELSE {}

(***************************************************************************)
(* Message handlers.                                                       *)
(***************************************************************************)
\* Mutant: an earlier vote of the term does not bind.
CanVoteAgain(n, m) == n.leader_id = None \/ m.term > n.term

CanVote(n, m) ==
  \/ n.vote = m.from
  \/ n.vote = None /\ n.leader_id = None
  \/ m.type = "request_pre_vote" /\ m.term > n.term

GrantsVote(n, m) ==
  /\ CanVote(n, m)
  /\ IsUpToDate(n.log, m.index, m.log_term)
  /\ m.index > LastIndex(n.log) \/ Priority[n.id] <= Priority[m.from]

VoteRespType(type) == IF type = "request_vote" THEN "request_vote_response"
                                               ELSE "request_pre_vote_response"

HandleVoteRequest(n, m) ==
  LET resp == Msg(n, VoteRespType(m.type), m.from) IN
  IF GrantsVote(n, m)
    THEN LET g == Send(n, [resp EXCEPT !.term = m.term])
         IN  IF m.type = "request_vote"
               THEN [g EXCEPT !.elapsed = FALSE, !.vote = m.from] ELSE g
    ELSE MaybeCommitByVote(
           Send(n, [resp EXCEPT !.reject = TRUE, !.commit = n.committed,
                                !.commit_term = TermAt(n.log, n.committed)]), m)

\* Mutant: a rejection counts as a grant.
HandleVoteResponseAsGrant(n, m) ==
  IF \/ n.state = "pre_candidate" /\ m.type = "request_pre_vote_response"
     \/ n.state = "candidate" /\ m.type = "request_vote_response"
    THEN MaybeCommitByVote(Poll(n, m.from, TRUE), m)
    ELSE n

\* stepCandidate: only answers to the running campaign's kind count.
HandleVoteResponse(n, m) ==
  IF \/ n.state = "pre_candidate" /\ m.type = "request_pre_vote_response"
     \/ n.state = "candidate" /\ m.type = "request_vote_response"
    THEN MaybeCommitByVote(Poll(n, m.from, ~ m.reject), m)
    ELSE n

\* A follower or candidate accepting its leader's message.
FollowLeader(n, m) ==
  IF n.state \in {"pre_candidate", "candidate"}
    THEN BecomeFollower(n, m.term, m.from)
    ELSE [n EXCEPT !.elapsed = FALSE, !.leader_id = m.from]

\* What makes RaftLog.maybeAppend return error.Fatal: a conflict at or below
\* the commit index, or a batch whose terms decrease.
AppendIsFatal(n, m) ==
  /\ m.index >= n.committed
  /\ MatchTerm(n.log, m.index, m.log_term)
  /\ LET cs == Conflicts(n.log, m.index, m.entries)
         terms(j) == IF j = 0 THEN m.log_term ELSE m.entries[j].term
     IN  /\ cs # {}
         /\ \/ m.index + Least(cs) <= n.committed
            \/ \E j \in Least(cs)..Len(m.entries) : terms(j - 1) > terms(j)

\* RaftLog.maybeAppend after the term matched: keep everything before the
\* first conflict, then take the batch.
LogAppend(n, m) ==
  LET cs == Conflicts(n.log, m.index, m.entries)
      c  == Least(cs)
  IN  IF cs = {} THEN n
      ELSE [n EXCEPT
              !.log = SubSeq(@, 1, m.index + c - 1)
                        \o SubSeq(m.entries, c, Len(m.entries)),
              !.persisted = MinOf(@, m.index + c - 1)]

HandleAppendEntries(n, m) ==
  LET resp    == Msg(n, "append_response", m.from)
      lastNew == m.index + Len(m.entries)
      probe   == MinOf(m.index, LastIndex(n.log))
      hint    == FindConflictByTerm(n.log, probe, m.log_term)
  IN  CASE m.index < n.committed ->
             Send(n, [resp EXCEPT !.index = n.committed])
        [] AppendIsFatal(n, m) -> n
        [] ~ MatchTerm(n.log, m.index, m.log_term) ->
             Send(n, [resp EXCEPT !.index = m.index, !.reject = TRUE,
                                  !.reject_hint = hint,
                                  !.log_term = TermAt(n.log, hint)])
        [] OTHER ->
             Send(CommitTo(LogAppend(n, m), MinOf(m.commit, lastNew)),
                  [resp EXCEPT !.index = lastNew])

\* Progress.maybeDecTo and the switch back to probing; a stale rejection
\* (one the Progress has already moved past) changes nothing.
IsStaleReject(pr, m) == IF pr.state = "replicate" THEN m.index <= pr.matched
                                                  ELSE pr.next_idx - 1 # m.index

DecTo(pr, m, hint) ==
  IF pr.state = "replicate"
    THEN [pr EXCEPT !.next_idx = pr.matched + 1, !.state = "probe",
                    !.paused = FALSE, !.inflights = <<>>]
    ELSE [pr EXCEPT !.next_idx = MaxOf(MinOf(m.index, hint + 1), pr.matched + 1),
                    !.paused = FALSE]

\* Inflights.freeTo: the indexes are increasing, so those up to k are a prefix.
FreeTo(inflights, k) ==
  LET freed == Cardinality({j \in 1..Len(inflights) : inflights[j] <= k})
  IN  SubSeq(inflights, freed + 1, Len(inflights))

\* Progress.maybeUpdate, then becomeReplicate or inflights.freeTo.
AckTo(pr, k) ==
  LET next == MaxOf(pr.next_idx, k + 1) IN
  IF k <= pr.matched THEN [pr EXCEPT !.next_idx = next]
  ELSE IF pr.state = "probe"
    THEN [pr EXCEPT !.matched = k, !.next_idx = k + 1, !.state = "replicate",
                    !.paused = FALSE, !.inflights = <<>>]
    ELSE [pr EXCEPT !.matched = k, !.next_idx = next, !.paused = FALSE,
                    !.inflights = FreeTo(@, k)]

SendTimeoutNow(n, to) == Send(n, Msg(n, "timeout_now", to))

HandleAppendResponse(n, m) ==
  LET hint  == IF m.reject /\ m.log_term > 0
                 THEN FindConflictByTerm(n.log, m.reject_hint, m.log_term)
                 ELSE m.reject_hint
      heard == [n EXCEPT !.prs[m.from].recent_active = TRUE]
      pr    == heard.prs[m.from]
      acked == [heard EXCEPT !.prs[m.from] = AckTo(@, m.index)]
      sent  == IF MayCommit(acked) THEN BroadcastAppend(MaybeCommit(acked))
               ELSE IF IsPaused(pr) THEN SendAppend(acked, m.from)
               ELSE acked
      final == SendAppendAggressively(sent, m.from)
  IN  IF m.reject
        THEN IF IsStaleReject(pr, m) THEN heard
             ELSE SendAppend([heard EXCEPT !.prs[m.from] = DecTo(@, m, hint)], m.from)
      ELSE IF m.index <= pr.matched THEN acked
      ELSE IF /\ n.lead_transferee = m.from
              /\ final.prs[m.from].matched = LastIndex(n.log)
        THEN SendTimeoutNow(final, m.from)
      ELSE final

HandleHeartbeat(n, m) ==
  Send(CommitTo(n, m.commit), Msg(n, "heartbeat_response", m.from))

HandleHeartbeatResponse(n, m) ==
  LET pr == n.prs[m.from]
      h  == [n EXCEPT !.prs[m.from] =
               [pr EXCEPT !.recent_active = TRUE, !.paused = FALSE,
                          !.inflights = IF pr.state = "replicate" /\ IsPaused(pr)
                                          THEN FreeTo(@, Head(@)) ELSE @]]
  IN  IF pr.matched < LastIndex(n.log) THEN SendAppend(h, m.from) ELSE h

\* handleTransferLeader on the leader: `to` is the wanted leader.
HandleTransferLeader(n, to) ==
  LET t == [n EXCEPT !.elapsed = FALSE, !.lead_transferee = to]
  IN  IF n.lead_transferee = to THEN n
      ELSE IF to = n.id THEN [n EXCEPT !.lead_transferee = None]
      ELSE IF n.prs[to].matched = LastIndex(n.log) THEN SendTimeoutNow(t, to)
      ELSE SendAppend(t, to)

\* stepLeader(.propose): refused during a transfer.
HandlePropose(n, val) ==
  IF n.lead_transferee # None THEN n ELSE BroadcastAppend(AppendEntry(n, val))

(***************************************************************************)
(* Storage: what a restart loads, and what becomes of a persisted log.     *)
(***************************************************************************)
\* Mutant: loadState forgets the vote.
RestartWithoutVote(i, d) ==
  [id |-> i, term |-> d.term, vote |-> None, state |-> "follower",
   leader_id |-> None, lead_transferee |-> None, elapsed |-> FALSE,
   votes |-> NoVotes, log |-> d.log, committed |-> d.commit,
   persisted |-> LastIndex(d.log), prs |-> NoProgress, messages |-> {}]

\* Raft.init, RaftLog.init and loadState.
Restart(i, d) ==
  [id |-> i, term |-> d.term, vote |-> d.vote, state |-> "follower",
   leader_id |-> None, lead_transferee |-> None, elapsed |-> FALSE,
   votes |-> NoVotes, log |-> d.log, committed |-> d.commit,
   persisted |-> LastIndex(d.log), prs |-> NoProgress, messages |-> {}]

\* Raft.onPersistEntries: a leader now counts its own log.
OnPersistEntries(n) ==
  LET last == LastIndex(n.log)
      p    == [n EXCEPT !.persisted = last]
      a    == [p EXCEPT !.prs[n.id].matched = last,
                        !.prs[n.id].next_idx = MaxOf(@, last + 1)]
  IN  IF n.persisted >= last THEN n
      ELSE IF n.state # "leader" \/ n.prs[n.id].matched >= last THEN p
      ELSE IF MayCommit(a) THEN BroadcastAppend(MaybeCommit(a))
      ELSE a

\* RawNode.getReady: what forces a sync before messages may leave.
MustSync(n, d) == n.term # d.term \/ n.vote # d.vote \/ n.persisted < LastIndex(n.log)

HasReady(n, d) == n.messages # {} \/ n.committed # d.commit \/ MustSync(n, d)

\* Mutant: the entries are not saved.
HardStateWithoutEntries(n, d, commit) == [d EXCEPT !.term = n.term, !.vote = n.vote,
                                                   !.commit = commit]

HardState(n, d, commit) == [d EXCEPT !.term = n.term, !.vote = n.vote,
                                     !.commit = commit, !.log = n.log]

-----------------------------------------------------------------------------
(***************************************************************************)
(* Actions.                                                                *)
(***************************************************************************)
Init ==
  LET empty == [term |-> 0, vote |-> None, commit |-> 0, log |-> <<>>] IN
  /\ disk = [i \in Server |-> empty]
  /\ node = [i \in Server |-> Restart(i, empty)]
  /\ msgs = {}
  /\ elected = {}
  /\ decided = <<>>
  /\ budget = Budget

Spend(e) == budget[e] > 0 /\ budget' = [budget EXCEPT ![e] = @ - 1]

\* Node i becomes n; the histories record a new leader and new commits.
Become(i, n) ==
  /\ node' = [node EXCEPT ![i] = n]
  /\ elected' = IF n.state = "leader" THEN elected \cup {<<n.term, i>>} ELSE elected
  /\ decided' = IF n.committed > Len(decided)
                  THEN SubSeq(n.log, 1, n.committed) ELSE decided

(***************************************************************************)
(* With a poll budget of one a node processes its Ready before its next    *)
(* input.  A Ready then changes only its own node and adds messages, so    *)
(* nothing is lost by letting no other node move in between.               *)
(***************************************************************************)
Idle == Batching \/ \A i \in Server : node[i].messages = {} /\ ~ MustSync(node[i], disk[i])

\* tickElection reaching the randomized timeout, or RawNode.campaign.
Campaign(i) ==
  /\ Idle
  /\ node[i].state # "leader"
  /\ Spend("campaign")
  /\ Become(i, Hup([node[i] EXCEPT !.elapsed = FALSE], FALSE))
  /\ UNCHANGED <<disk, msgs>>

\* election_elapsed reaches election_timeout: the lease on the leader ends.
\* Only the lease reads it, so it matters only with check-quorum.
LeaseExpires(i) ==
  /\ Idle
  /\ CheckQuorum /\ node[i].leader_id # None /\ ~ node[i].elapsed
  /\ node' = [node EXCEPT ![i].elapsed = TRUE]
  /\ UNCHANGED <<disk, msgs, elected, decided, budget>>

\* quorumRecentlyActive starts a new window for every other peer.
NewWindow(n) ==
  [n EXCEPT !.prs = [s \in Server |-> [@[s] EXCEPT !.recent_active = (s = n.id)]]]

\* Mutant: a leader without a quorum steps down but still names itself leader.
LeaderTimeoutKeepsLeader(n) ==
  LET active == {n.id} \cup {s \in Server : n.prs[s].recent_active}
  IN  IF ~ CheckQuorum THEN [n EXCEPT !.lead_transferee = None]
      ELSE IF ~ HasQuorum(Incoming, Outgoing, active)
        THEN BecomeFollower(n, n.term, n.id)
      ELSE [NewWindow(n) EXCEPT !.elapsed = FALSE, !.lead_transferee = None]

\* tickHeartbeat at the (randomized) election timeout of a leader.
LeaderTimeout(n) ==
  LET active == {n.id} \cup {s \in Server : n.prs[s].recent_active}
  IN  IF ~ CheckQuorum THEN [n EXCEPT !.lead_transferee = None]
      ELSE IF ~ HasQuorum(Incoming, Outgoing, active)
        THEN BecomeFollower(n, n.term, None)
      ELSE [NewWindow(n) EXCEPT !.elapsed = FALSE, !.lead_transferee = None]

LeaderTick(i) ==
  /\ Idle
  /\ node[i].state = "leader"
  /\ CheckQuorum => node[i].elapsed
  /\ Spend("tick")
  /\ Become(i, LeaderTimeout(node[i]))
  /\ UNCHANGED <<disk, msgs>>

\* tickHeartbeat at the heartbeat timeout: broadcastHeartbeat.
BroadcastHeartbeat(n) ==
  [n EXCEPT !.messages = @ \cup
     {[Msg(n, "heartbeat", s) EXCEPT
         !.commit = MinOf(n.prs[s].matched, n.committed)] : s \in Peers(n)}]

Beat(i) ==
  /\ Idle
  /\ node[i].state = "leader"
  /\ Spend("beat")
  /\ Become(i, BroadcastHeartbeat(node[i]))
  /\ UNCHANGED <<disk, msgs>>

\* A proposal at a leader is appended, at a follower forwarded to its leader.
ProposeMsg(i, to, val) ==
  [Msg(node[i], "propose", to) EXCEPT !.term = 0,
                                      !.entries = <<[term |-> 0, val |-> val]>>]

Propose(i, val) ==
  /\ Idle
  /\ Spend("propose")
  /\ \/ /\ node[i].state = "leader"
        /\ Become(i, HandlePropose(node[i], val))
     \/ /\ node[i].state = "follower" /\ node[i].leader_id # None
        /\ Become(i, Send(node[i], ProposeMsg(i, node[i].leader_id, val)))
  /\ UNCHANGED <<disk, msgs>>

\* RawNode.transferLeader; a follower forwards the wish in the name of the
\* wanted leader.
TransferLeader(i, to) ==
  /\ Idle
  /\ Spend("transfer")
  /\ \/ /\ node[i].state = "leader"
        /\ Become(i, HandleTransferLeader(node[i], to))
     \/ /\ node[i].state = "follower" /\ node[i].leader_id # None
        /\ Become(i, Send(node[i], [Msg(node[i], "transfer_leader", node[i].leader_id)
                                      EXCEPT !.from = to]))
  /\ UNCHANGED <<disk, msgs>>

\* handleUnreachable: the transport reports a lost peer.
Unreachable(i, s) ==
  /\ Idle
  /\ node[i].state = "leader" /\ s # i /\ node[i].prs[s].state = "replicate"
  /\ Spend("unreachable")
  /\ Become(i, [node[i] EXCEPT !.prs[s] =
                  [@ EXCEPT !.state = "probe", !.next_idx = node[i].prs[s].matched + 1,
                            !.paused = FALSE, !.inflights = <<>>]])
  /\ UNCHANGED <<disk, msgs>>

(***************************************************************************)
(* Deliveries: RawNode.step for one message of the network.                *)
(***************************************************************************)
Deliver(m, n) == Idle /\ Become(m.to, n) /\ UNCHANGED <<disk, msgs, budget>>

Current(m) == m.term >= node[m.to].term /\ ~ InLease(node[m.to], m)

Observed(m) == ObserveTerm(node[m.to], m)

\* A message of an older term is answered or dropped.
ReceiveStale(m) ==
  /\ 0 < m.term /\ m.term < node[m.to].term
  /\ StaleReply(node[m.to], m) # {}
  /\ Deliver(m, [node[m.to] EXCEPT !.messages = @ \cup StaleReply(node[m.to], m)])

ReceiveVoteRequest(m) ==
  /\ m.type \in VoteRequestType /\ Current(m)
  /\ Deliver(m, HandleVoteRequest(Observed(m), m))

ReceiveVoteResponse(m) ==
  /\ m.type \in {"request_vote_response", "request_pre_vote_response"} /\ Current(m)
  /\ Deliver(m, HandleVoteResponse(Observed(m), m))

ReceiveAppend(m) ==
  /\ m.type = "append" /\ Current(m) /\ Observed(m).state # "leader"
  /\ Deliver(m, HandleAppendEntries(FollowLeader(Observed(m), m), m))

ReceiveHeartbeat(m) ==
  /\ m.type = "heartbeat" /\ Current(m) /\ Observed(m).state # "leader"
  /\ Deliver(m, HandleHeartbeat(FollowLeader(Observed(m), m), m))

\* Responses matter to a leader; anyone else only learns the term.
ReceiveAppendResponse(m) ==
  /\ m.type = "append_response" /\ Current(m)
  /\ LET n == Observed(m) IN
     Deliver(m, IF n.state = "leader" THEN HandleAppendResponse(n, m) ELSE n)

ReceiveHeartbeatResponse(m) ==
  /\ m.type = "heartbeat_response" /\ Current(m)
  /\ LET n == Observed(m) IN
     Deliver(m, IF n.state = "leader" THEN HandleHeartbeatResponse(n, m) ELSE n)

ReceiveTimeoutNow(m) ==
  /\ m.type = "timeout_now" /\ Current(m)
  /\ LET n == Observed(m) IN
     Deliver(m, IF n.state = "follower" THEN Hup(n, TRUE) ELSE n)

\* A follower with a leader would forward the message again; see
\* TransferIsNeverForwardedTwice.
ReceiveTransferLeader(m) ==
  /\ m.type = "transfer_leader" /\ Current(m)
  /\ LET n == Observed(m) IN
     Deliver(m, IF n.state = "leader" THEN HandleTransferLeader(n, m.from) ELSE n)

\* A forwarded proposal carries no term; it counts as another proposal.  (An
\* empty one would panic in stepLeader; nothing sends one.)
ReceivePropose(m) ==
  /\ Idle
  /\ m.type = "propose" /\ m.entries # <<>>
  /\ Spend("propose")
  /\ LET n == node[m.to] IN
     \/ /\ n.state = "leader"
        /\ Become(m.to, HandlePropose(n, m.entries[1].val))
     \/ /\ n.state = "follower" /\ n.leader_id # None
        /\ Become(m.to, Send(n, [m EXCEPT !.to = n.leader_id]))
  /\ UNCHANGED <<disk, msgs>>

Receive(m) ==
  \/ ReceiveStale(m)
  \/ ReceiveVoteRequest(m)
  \/ ReceiveVoteResponse(m)
  \/ ReceiveAppend(m)
  \/ ReceiveAppendResponse(m)
  \/ ReceiveHeartbeat(m)
  \/ ReceiveHeartbeatResponse(m)
  \/ ReceiveTimeoutNow(m)
  \/ ReceiveTransferLeader(m)
  \/ ReceivePropose(m)

(***************************************************************************)
(* The synchronous Ready cycle (processStepSync): entries, HardState, sync,*)
(* messages, advance, and the messages and commit that advancing unlocks.  *)
(* A commit-only HardState is written without a sync and may not survive.  *)
(***************************************************************************)
\* The transport is best effort: beyond MaxMsgs messages it drops what it is
\* given.
Transmit(new) ==
  msgs' = IF Cardinality(msgs \cup new) <= MaxMsgs THEN msgs \cup new ELSE msgs

\* One Ready.  The second HardState of a step is synced, so a commit that
\* advancing unlocked is durable; p is the node after advance.
Ready(i) ==
  LET n == node[i]
      p == OnPersistEntries([n EXCEPT !.messages = {}])
  IN  /\ HasReady(n, disk[i])
      /\ \E c \in IF p.committed > n.committed THEN {p.committed}
                  ELSE IF MustSync(n, disk[i]) THEN {n.committed}
                  ELSE {n.committed, disk[i].commit} :
           disk' = [disk EXCEPT ![i] = HardState(n, @, c)]
      /\ Transmit(n.messages \cup p.messages)
      /\ Become(i, [p EXCEPT !.messages = {}])
      /\ UNCHANGED budget

\* The process dies and restarts from d.
RestartFrom(i, d) ==
  /\ Spend("crash")
  /\ disk' = [disk EXCEPT ![i] = d]
  /\ node' = [node EXCEPT ![i] = Restart(i, d)]
  /\ UNCHANGED <<elected, decided>>

\* Before anything of the next Ready reached the disk.
Crash(i) == RestartFrom(i, disk[i]) /\ UNCHANGED msgs

\* While the entries of a Ready are written: the entries already persisted
\* and not overwritten survive, and any part of the new ones.
CrashInAppend(i, k) ==
  /\ node[i].persisted < LastIndex(node[i].log)
  /\ node[i].persisted <= k
  /\ RestartFrom(i, [disk[i] EXCEPT !.log = SubSeq(node[i].log, 1, k)])
  /\ UNCHANGED msgs

\* After the sync and the messages, before the Ready is advanced.
CrashBeforeAdvance(i) ==
  /\ MustSync(node[i], disk[i])
  /\ RestartFrom(i, HardState(node[i], disk[i], node[i].committed))
  /\ Transmit(node[i].messages)

Next ==
  \/ \E i \in Server :
       \/ Campaign(i)
       \/ LeaseExpires(i)
       \/ LeaderTick(i)
       \/ Beat(i)
       \/ \E v \in Value : Propose(i, v)
       \/ \E s \in Server : TransferLeader(i, s)
       \/ \E s \in Server : Unreachable(i, s)
       \/ Ready(i)
       \/ Crash(i)
       \/ \E k \in 0..LastIndex(node[i].log) : CrashInAppend(i, k)
       \/ CrashBeforeAdvance(i)
  \/ \E m \in msgs : Receive(m)

Spec == Init /\ [][Next]_vars

-----------------------------------------------------------------------------
(***************************************************************************)
(* Properties.                                                             *)
(***************************************************************************)
\* Every variable stays within its type.
TypeOK ==
  /\ node \in [Server -> Node]
  /\ disk \in [Server -> Disk]
  /\ msgs \subseteq Message
  /\ elected \subseteq Nat \X Server
  /\ decided \in Seq(Entry)
  /\ budget \in [Event -> Nat]

(***************************************************************************)
(* At most one node ever leads a term, also across crashes of voters and   *)
(* of former leaders: a vote leaves a node only after it is on disk.       *)
(***************************************************************************)
ElectionSafety == \A e, f \in elected : e[1] = f[1] => e[2] = f[2]

IsPrefix(s, t) == Len(s) <= Len(t) /\ \A k \in 1..Len(s) : s[k] = t[k]

(***************************************************************************)
(* State machine safety: whatever any node has ever reported as committed, *)
(* before or after crashes, is a prefix of one decided log.                *)
(***************************************************************************)
Agreement ==
  \A i \in Server : IsPrefix(SubSeq(node[i].log, 1, node[i].committed), decided)

(***************************************************************************)
(* Log matching: two nodes with an entry of the same index and term agree  *)
(* on everything up to it, payloads included.                              *)
(***************************************************************************)
LogMatching ==
  \A i, j \in Server :
    \A k \in 1..MinOf(Len(node[i].log), Len(node[j].log)) :
      node[i].log[k].term = node[j].log[k].term
        => \A h \in 1..k : node[i].log[h] = node[j].log[h]

(***************************************************************************)
(* A committed entry is on the disks of a quorum: commit never counts the  *)
(* leader's unsynced tail or an acknowledgement that outran its sync.      *)
(***************************************************************************)
CommittedIsDurable ==
  \A i \in Server : \A k \in 1..node[i].committed :
    IsQuorum(Incoming, Outgoing,
             {s \in Server : Len(disk[s].log) >= k /\ disk[s].log[k] = node[i].log[k]})

(***************************************************************************)
(* A leader never lacks a decided entry of an earlier term: only elections *)
(* that the up-to-date check allowed are won.                              *)
(***************************************************************************)
LeaderCompleteness ==
  \A i \in Server :
    (node[i].state = "leader" /\ \A j \in Server : node[j].term <= node[i].term)
      => IsPrefix(decided, node[i].log)

(***************************************************************************)
(* No deliverable append makes RaftLog.maybeAppend fail with error.Fatal   *)
(* (a conflict at or below the commit index, a term regression), which     *)
(* would stop the node.                                                    *)
(***************************************************************************)
NoFatalAppend ==
  \A m \in msgs : (m.type = "append" /\ Current(m)) => ~ AppendIsFatal(Observed(m), m)

(***************************************************************************)
(* A restart never panics in loadState: the durable commit index is within *)
(* the durable log at every point of the Ready cycle where a crash can     *)
(* happen.                                                                 *)
(***************************************************************************)
RestartInRange == \A i \in Server : disk[i].commit <= Len(disk[i].log)

(***************************************************************************)
(* What the latest leader believes matched is on the follower's disk and   *)
(* equal to its own log: stale, duplicated and reordered responses never   *)
(* inflate Progress, and no crash takes back what was acknowledged.        *)
(***************************************************************************)
MatchedIsDurable ==
  \A i, s \in Server :
    (node[i].state = "leader" /\ \A e \in elected : e[1] <= node[i].term) =>
      IsPrefix(SubSeq(node[i].log, 1, node[i].prs[s].matched), disk[s].log)

(***************************************************************************)
(* What invariant.zig asserts after every step (checkRaft), for the state  *)
(* this module has: index bounds, roles and leader ids, Progress and its   *)
(* window (validInflights).  checkRaft does not compare the terms of the   *)
(* log; that they are in order is what RaftLog and the appends rely on.    *)
(***************************************************************************)
CheckRaft ==
  \A i \in Server : LET n == node[i] IN
    /\ n.committed <= LastIndex(n.log)
    /\ n.persisted <= LastIndex(n.log)
    /\ \A k \in 2..LastIndex(n.log) : n.log[k - 1].term <= n.log[k].term
    /\ n.state = "leader" => n.leader_id = n.id
    /\ n.state \in {"candidate", "pre_candidate"} => n.leader_id = None
    /\ \A s \in Server :
         /\ n.prs[s].next_idx > n.prs[s].matched
         /\ n.prs[s].matched <= LastIndex(n.log)
         /\ Len(n.prs[s].inflights) <= MaxInflight
         /\ n.prs[s].state # "replicate" => n.prs[s].inflights = <<>>
         /\ \A j \in 2..Len(n.prs[s].inflights) :
              n.prs[s].inflights[j - 1] < n.prs[s].inflights[j]

(***************************************************************************)
(* Raft.send panics on a non-vote message that already has a term; a       *)
(* forwarded transfer_leader has one.  No transfer request reaches a       *)
(* follower that would forward it a second time.                           *)
(***************************************************************************)
TransferIsNeverForwardedTwice ==
  \A m \in msgs : (m.type = "transfer_leader" /\ Current(m)) =>
    ~ (Observed(m).state = "follower" /\ Observed(m).leader_id # None)

(***************************************************************************)
(* The HardState on disk only moves forward: the term never decreases and  *)
(* the vote of a term, once durable, is never taken back or moved.         *)
(***************************************************************************)
VotesAreFinal ==
  [][\A i \in Server :
       /\ disk'[i].term >= disk[i].term
       /\ (disk'[i].term = disk[i].term /\ disk[i].vote # None)
            => disk'[i].vote = disk[i].vote]_vars

(***************************************************************************)
(* With pre-vote, a node starts an election on its own only after a quorum *)
(* answered a pre-vote of its for this term or the one before (a delayed   *)
(* answer of the previous pre-campaign still counts).                      *)
(***************************************************************************)
PreVoteGranted(i, t) ==
  IsQuorum(Incoming, Outgoing,
           {i} \cup {s \in Server :
              \E m \in msgs : /\ m.type = "request_pre_vote_response"
                              /\ m.from = s /\ m.to = i /\ ~ m.reject
                              /\ m.term \in {t - 1, t}})

PreVoteGate ==
  [][\A i \in Server :
       (PreVote /\ node[i].state # "candidate" /\ node'[i].state = "candidate"
         /\ ~ \E m \in node'[i].messages : m.force)
       => PreVoteGranted(i, node'[i].term)]_vars
=============================================================================
