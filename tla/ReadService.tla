---------------------------- MODULE ReadService ----------------------------
(***************************************************************************)
(* Linearizable reads: the ReadIndex protocol of raft.zig and read_only.zig *)
(* with quorum confirmation (ReadOnlyOption.safe), the read side of        *)
(* proposal_tracker.zig, and the steps of ready_processor.zig that apply   *)
(* entries and complete reads.                                             *)
(*                                                                         *)
(* Elections and replication are abstract: what module Raft shows of them  *)
(* (one leader per term, a leader has every committed entry) is assumed    *)
(* here.  The log is the sequence of the terms of its committed entries; a *)
(* candidate behaves in every read handler as a follower that has no       *)
(* leader, and is one.  Heartbeats and answers are never taken from the    *)
(* network: they may be lost, late or delivered again.  A request is       *)
(* delivered at most once: ReadOnly forgets a context it has released, and *)
(* would queue a repeated request behind newer ones.                       *)
(***************************************************************************)
EXTENDS Integers, Sequences, FiniteSets, FiniteSetsExt, SequencesExt

CONSTANTS Server,      \* voters
          Request,     \* request contexts: each is used once (IncarnationsAreFresh of Wal)
          None,        \* invalid_id
          MaxTerm,     \* largest term
          MaxLog,      \* largest index
          MaxEvents    \* reads, restarts, lost quorums and timeouts in a behaviour

ASSUME ReadAssumption ==
  /\ IsFiniteSet(Server) /\ Cardinality(Server) > 1 /\ None \notin Server
  /\ {MaxTerm, MaxLog} \subseteq Nat \ {0} /\ MaxEvents \in Nat

VARIABLES term, role, lead,   \* of each server
          log,                \* terms of the committed entries
          commit, applied,    \* indexes each server knows of and has applied
          queue, postponed,   \* read_only.queue with pending; pending_read_index_messages
          states,             \* read_states not yet in a Ready
          prev,               \* prev_role of the ReadyProcessor
          read,               \* each request, as its tracker and its client see it
          net,                \* messages sent
          shown,              \* history: largest index a server has applied, and a client may have seen
          events              \* of the bounded events, how many so far

consensus == <<term, role, lead, log>>
vars == <<consensus, commit, applied, queue, postponed, states, prev, read, net, shown, events>>

IsMajority(S) == 2 * Cardinality(S) > Cardinality(Server)

ReadIndexMsg(from, to, ctx) == [type |-> "read_index", from |-> from, to |-> to, ctx |-> ctx]
ReadIndexResp(from, to, ctx, t, index) ==
  [type |-> "read_index_resp", from |-> from, to |-> to, ctx |-> ctx, term |-> t, index |-> index]
Heartbeat(from, to, ctx, t) ==
  [type |-> "heartbeat", from |-> from, to |-> to, ctx |-> ctx, term |-> t]
HeartbeatResponse(from, to, ctx, t) ==
  [type |-> "heartbeat_response", from |-> from, to |-> to, ctx |-> ctx, term |-> t]

\* A request the tracker does not hold: not yet made, failed, or completed
\* with the index its client then sees.
Untracked(state, need, seen) ==
  [state |-> state, home |-> None, ready |-> 0, need |-> need, seen |-> seen]

Failed == Untracked("failed", 0, 0)

\* A cluster after its first election and commit.
Init ==
  /\ \E n \in Server :
       /\ role = [m \in Server |-> IF m = n THEN "leader" ELSE "follower"]
       /\ lead = [m \in Server |-> n]
  /\ term = [n \in Server |-> 1]
  /\ log = <<1>>
  /\ commit = [n \in Server |-> 1]
  /\ applied = [n \in Server |-> 1]
  /\ queue = [n \in Server |-> <<>>]
  /\ postponed = [n \in Server |-> <<>>]
  /\ states = [n \in Server |-> {}]
  /\ prev = role
  /\ read = [r \in Request |-> Untracked("idle", 0, 0)]
  /\ net = {}
  /\ shown = 1
  /\ events = 0

----------------------------------------------------------------------------
(* Elections, replication and restarts, as far as reads depend on them. *)

Event == events < MaxEvents /\ events' = events + 1

\* reset, for the servers of S: a new term or role serves no earlier request.
Reset(S) ==
  /\ queue' = [n \in Server |-> IF n \in S THEN <<>> ELSE queue[n]]
  /\ postponed' = [n \in Server |-> IF n \in S THEN <<>> ELSE postponed[n]]

\* Messages to the servers of S that step does not ignore once they are in
\* term t; the others are dropped.
Current(messages, S, t) ==
  {m \in messages : m.to \in S /\ m.type # "read_index" => m.term >= t}

\* becomeFollower, for the servers of S
BecomeFollower(S, t, leader) ==
  /\ term' = [n \in Server |-> IF n \in S THEN t ELSE term[n]]
  /\ role' = [n \in Server |-> IF n \in S THEN "follower" ELSE role[n]]
  /\ lead' = [n \in Server |-> IF n \in S THEN leader ELSE lead[n]]
  /\ Reset(S)

\* campaign and becomeLeader: a quorum grants n its vote for a new term.
Elect(n, Q, t) ==
  /\ n \in Q
  /\ IsMajority(Q)
  /\ \A m \in Q : term[m] < t
  /\ term' = [m \in Server |-> IF m \in Q THEN t ELSE term[m]]
  /\ role' = [m \in Server |-> IF m = n THEN "leader" ELSE IF m \in Q THEN "follower" ELSE role[m]]
  /\ lead' = [m \in Server |-> IF m = n THEN n ELSE IF m \in Q THEN None ELSE lead[m]]
  /\ Reset(Q)
  /\ net' = Current(net, Q, t)
  /\ UNCHANGED <<log, commit, applied, states, prev, read, events, shown>>

\* A leader without an active quorum steps down (check_quorum).
StepDown(n) ==
  /\ role[n] = "leader"
  /\ Event
  /\ BecomeFollower({n}, term[n], None)
  /\ UNCHANGED <<log, commit, applied, states, prev, read, net, shown>>

\* handleAppendEntries of the servers of Q in one step: they store the next
\* entry of leader n and follow it.  The entry is committed, though n may not
\* know yet (LeaderCommits).
Replicate(n, Q) ==
  /\ role[n] = "leader"
  /\ n \in Q
  /\ IsMajority(Q)
  /\ \A m \in Q : term[m] <= term[n]
  /\ Len(log) < MaxLog
  /\ log' = Append(log, term[n])
  /\ term' = [m \in Server |-> IF m \in Q THEN term[n] ELSE term[m]]
  /\ role' = [m \in Server |-> IF m \in Q \ {n} THEN "follower" ELSE role[m]]
  /\ lead' = [m \in Server |-> IF m \in Q THEN n ELSE lead[m]]
  /\ Reset({m \in Q : term[m] < term[n]})
  /\ net' = Current(net, Q, term[n])
  /\ UNCHANGED <<commit, applied, states, prev, read, events, shown>>

\* A follower hears of a commit its leader knows of.
LearnCommit(m) ==
  /\ role[m] = "follower"
  /\ lead[m] # None
  /\ term[lead[m]] = term[m]
  /\ commit[m] < commit[lead[m]]
  /\ commit' = [commit EXCEPT ![m] = @ + 1]
  /\ UNCHANGED <<consensus, applied, queue, postponed, states, prev, read, net, events, shown>>

\* The process restarts: the reads it tracked are gone, and it may have to
\* learn again what is committed and apply it again.
Restart(n) ==
  /\ Event
  /\ role' = [role EXCEPT ![n] = "follower"]
  /\ lead' = [lead EXCEPT ![n] = None]
  /\ Reset({n})
  /\ states' = [states EXCEPT ![n] = {}]
  /\ prev' = [prev EXCEPT ![n] = "follower"]
  /\ \E a \in 1 .. applied[n] : \E c \in a .. commit[n] :
       applied' = [applied EXCEPT ![n] = a] /\ commit' = [commit EXCEPT ![n] = c]
  /\ read' = [r \in Request |-> IF read[r].home = n THEN Failed ELSE read[r]]
  /\ UNCHANGED <<term, log, net, shown>>

----------------------------------------------------------------------------
(* ReadIndex. *)

\* A plausible slip: a leader serves before it has committed in its term.
CommitToAnyTerm(n) == TRUE

\* commitToCurrentTerm
CommitToCurrentTerm(n) == log[commit[n]] = term[n]

\* ReadOnly.addRequest
AddRequest(q, index, m, n) ==
  IF \E i \in DOMAIN q : q[i].ctx = m.ctx THEN q
  ELSE Append(q, [ctx |-> m.ctx, from |-> m.from, index |-> index, acks |-> {n}])

\* serveReadIndex of one message after the other, as releasePendingReadIndexMessages does
AddRequests(q, index, ms, n) ==
  LET added[i \in 0 .. Len(ms)] ==
        IF i = 0 THEN q ELSE AddRequest(added[i - 1], index, ms[i], n)
  IN  added[Len(ms)]

\* broadcastHeartbeatWithCtx; periodic heartbeats carry the context of the last
\* request and repeat these
Heartbeats(n, ctx) == {Heartbeat(n, to, ctx, term[n]) : to \in Server \ {n}}

\* step of a read_index message, which carries no term: a leader queues or
\* postpones it, a follower passes it to its leader, a server without leader
\* drops it.
StepReadIndex(n, m) ==
  LET rest == net \ {m}
  IN CASE role[n] = "leader" /\ CommitToCurrentTerm(n) ->
            /\ queue' = [queue EXCEPT ![n] = AddRequest(@, commit[n], m, n)]
            /\ net' = rest \cup Heartbeats(n, m.ctx)
            /\ UNCHANGED postponed
       [] role[n] = "leader" /\ ~CommitToCurrentTerm(n) ->
            /\ postponed' = [postponed EXCEPT ![n] = Append(@, m)]
            /\ net' = rest
            /\ UNCHANGED queue
       [] role[n] = "follower" ->
            /\ net' = IF lead[n] = None THEN rest ELSE rest \cup {[m EXCEPT !.to = lead[n]]}
            /\ UNCHANGED <<queue, postponed>>

\* drainIngress: trackRead, then RawNode.readIndex
RequestRead(r, n) ==
  /\ read[r].state = "idle"
  /\ Event
  /\ read' = [read EXCEPT ![r] = [@ EXCEPT !.state = "pending", !.home = n, !.need = shown]]
  /\ StepReadIndex(n, ReadIndexMsg(n, n, r))
  /\ UNCHANGED <<consensus, commit, applied, states, prev, shown>>

HandleReadIndex(n, m) ==
  /\ m.type = "read_index" /\ m.to = n
  /\ StepReadIndex(n, m)
  /\ UNCHANGED <<consensus, commit, applied, states, prev, read, events, shown>>

\* maybeCommit of the leader: it learns that entries of its term are committed
\* and serves what it postponed (releasePendingReadIndexMessages).
LeaderCommits(n, index) ==
  /\ role[n] = "leader"
  /\ index > commit[n]
  /\ log[index] = term[n]
  /\ commit' = [commit EXCEPT ![n] = index]
  /\ queue' = [queue EXCEPT ![n] = AddRequests(@, index, postponed[n], n)]
  /\ net' = net \cup UNION {Heartbeats(n, m.ctx) : m \in ToSet(postponed[n])}
  /\ postponed' = [postponed EXCEPT ![n] = <<>>]
  /\ UNCHANGED <<consensus, applied, states, prev, read, events, shown>>

\* step and handleHeartbeat; the commit index it carries is LearnCommit
HandleHeartbeat(n, m) ==
  /\ m.type = "heartbeat" /\ m.to = n
  /\ term[n] <= m.term
  /\ IF term[n] < m.term THEN BecomeFollower({n}, m.term, m.from)
     ELSE lead' = [lead EXCEPT ![n] = m.from] /\ UNCHANGED <<term, role, queue, postponed>>
  /\ net' = Current(net, {n}, m.term) \cup {HeartbeatResponse(n, m.from, m.ctx, m.term)}
  /\ UNCHANGED <<log, commit, applied, states, prev, read, events, shown>>

\* ReadOnly.recvACK
RecvACK(q, from, ctx) ==
  [i \in DOMAIN q |-> IF q[i].ctx = ctx THEN [q[i] EXCEPT !.acks = @ \cup {from}] ELSE q[i]]

\* hasQuorum
HasQuorum(acks) == IsMajority(acks)

\* handleHeartbeatResponse: with a quorum behind a request, it and all before
\* it are released (ReadOnly.advance, handleReadyReadIndex).
HandleHeartbeatResponse(n, m) ==
  /\ m.type = "heartbeat_response" /\ m.to = n
  /\ role[n] = "leader"
  /\ term[n] = m.term
  /\ \E i \in DOMAIN queue[n] :
       LET acked == RecvACK(queue[n], m.from, m.ctx)
           released == IF HasQuorum(acked[i].acks) THEN SubSeq(acked, 1, i) ELSE <<>>
           local == {s \in ToSet(released) : s.from = n}
       IN /\ acked[i].ctx = m.ctx
          /\ queue' = [queue EXCEPT ![n] = SubSeq(acked, Len(released) + 1, Len(acked))]
          /\ states' = [states EXCEPT ![n] =
                          @ \cup {[ctx |-> s.ctx, index |-> s.index] : s \in local}]
          /\ net' = net \cup {ReadIndexResp(n, s.from, s.ctx, term[n], s.index) :
                                s \in ToSet(released) \ local}
  /\ UNCHANGED <<consensus, commit, applied, postponed, prev, read, events, shown>>

\* step and stepFollower of a read_index_resp, whose entry the follower may
\* have (it then learns that it is committed) or not
HandleReadIndexResp(n, m) ==
  /\ m.type = "read_index_resp" /\ m.to = n
  /\ term[n] <= m.term
  /\ IF term[n] < m.term
       THEN /\ BecomeFollower({n}, m.term, None)
            /\ net' = Current(net, {n}, m.term)
            /\ UNCHANGED <<states, commit>>
       ELSE /\ role[n] = "follower" /\ lead[n] = m.from
            /\ states' = [states EXCEPT ![n] = @ \cup {[ctx |-> m.ctx, index |-> m.index]}]
            /\ \/ UNCHANGED commit
               \/ /\ log[m.index] = m.term /\ m.index > commit[n]
                  /\ commit' = [commit EXCEPT ![n] = m.index]
            /\ UNCHANGED <<term, role, lead, queue, postponed, net>>
  /\ UNCHANGED <<log, applied, prev, read, events, shown>>

----------------------------------------------------------------------------
(* The ReadyProcessor and the tracker. *)

\* markReadReady, for every read state of the Ready
Marked(r, n) ==
  Max({read[r].ready} \cup {s.index : s \in {s \in states[n] : s.ctx = r}})

\* completeReadyReads: what is ready at or below the applied index
IsReady(ready, index) == ready # 0 /\ ready <= index

\* One Ready of n: a lost leadership fails the tracked reads
\* (checkLeadershipChange), the committed entries are applied one by one, each
\* completing the reads that waited for it (applyCommittedEntries), then come
\* those the Ready brought (completeReads).
ProcessReady(n) ==
  LET lost == prev[n] = "leader" /\ role[n] # "leader"
      index == commit[n]
  IN /\ prev[n] # role[n] \/ index > applied[n] \/ states[n] # {}
     /\ prev' = [prev EXCEPT ![n] = role[n]]
     /\ applied' = [applied EXCEPT ![n] = index]
     /\ shown' = Max({shown, index})
     /\ states' = [states EXCEPT ![n] = {}]
     /\ read' = [r \in Request |->
                   IF read[r].home # n THEN read[r]
                   ELSE IF lost THEN Failed
                   ELSE IF IsReady(read[r].ready, index)
                     THEN Untracked("ok", read[r].need, read[r].ready)
                   ELSE IF IsReady(Marked(r, n), index)
                     THEN Untracked("ok", read[r].need, index)
                   ELSE [read[r] EXCEPT !.ready = Marked(r, n)]]
     /\ UNCHANGED <<consensus, commit, queue, postponed, net, events>>

\* expireTimeouts
Expire(r) ==
  /\ read[r].state = "pending"
  /\ Event
  /\ read' = [read EXCEPT ![r] = Failed]
  /\ UNCHANGED <<consensus, commit, applied, queue, postponed, states, prev, net, shown>>

Next ==
  \/ \E n \in Server, Q \in SUBSET Server, t \in 1 .. MaxTerm : Elect(n, Q, t)
  \/ \E n \in Server : StepDown(n) \/ LearnCommit(n) \/ Restart(n) \/ ProcessReady(n)
  \/ \E n \in Server, Q \in SUBSET Server : Replicate(n, Q)
  \/ \E n \in Server, i \in 1 .. Len(log) : LeaderCommits(n, i)
  \/ \E n \in Server, r \in Request : RequestRead(r, n)
  \/ \E r \in Request : Expire(r)
  \/ \E m \in net :
       \/ HandleReadIndex(m.to, m)
       \/ HandleHeartbeat(m.to, m)
       \/ HandleHeartbeatResponse(m.to, m)
       \/ HandleReadIndexResp(m.to, m)

Spec == Init /\ [][Next]_vars

----------------------------------------------------------------------------
(* Properties. *)

\* A read that succeeds shows a state at least as new as any client had seen
\* anywhere when it was requested: through deposed leaders, leaders that have
\* not caught up with what is committed, late and repeated confirmations,
\* forwarding and restarts (Raft.serveReadIndex, ReadOnly, completeReadyReads).
ReadsAreLinearizable ==
  \A r \in Request : read[r].state = "ok" => read[r].seen >= read[r].need
============================================================================
