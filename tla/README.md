# raftz: TLA+ models, model checking and proofs

raftz is a Raft library in Zig: a deterministic consensus core (`Raft`, driven
through `RawNode`), a `ReadyProcessor` that carries out what the core asks for
(persist, sync, send, apply), a `Raftor` event loop around it, a write-ahead
log, transports, and a host that runs many groups in one process. Beside it,
`formal/` holds Python scripts that check traces and client histories of a
running cluster with TLC. This directory holds TLA+ models of the consensus
core, the write-ahead log, linearizable reads and the scripts, the TLC
configurations that check them, and machine-checked proofs (TLAPS). Paths of
Zig files below are relative to the library's `src/`, those of Python files to
the repository.

## 1. Inventory

| Component (source) | State | Operations | What is hard about it | What makes it correct |
|---|---|---|---|---|
| Quorums (`majority_conf`, `joint_conf`, `ack_indexer`) | voter sets | vote tally, committed index | decided before all votes are in; two halves of a joint configuration; group commit on an array with ties | tallies are exact; commit index = largest index on a quorum |
| Progress tracker (`progress_tracker`, `tracker_conf`) | votes, Progress per peer, configuration | `recordVote`, `maxCommittedIndex`, `quorumRecentlyActive`, `applyConf` | activity is cleared by looking at it | one vote per voter and campaign; no false quorum |
| Elections (`raft.zig`: `step`, `campaign`, `poll`, `handleVoteRequest`) | term, vote, role, leader, lease | tick, vote and pre-vote traffic, transfer | stale and repeated answers, crashes between vote and answer | one leader per term, durable votes final |
| Replication (`raft.zig`, `progress`, `inflights`) | log, commit, Progress | append, heartbeat, their answers, unreachable | reordering, conflict hints, flow control | log matching, leader completeness, matched = durable |
| Log (`raft_log`, `unstable_log`) | entries, committed, persisted, applied, offset | append, commit, slice, persist, restore | the unstable tail is replaced while being flushed | a persist notice never covers replaced entries |
| RawNode / Ready (`raw_node`) | previous hard/soft state, records | `getReady`, `advance`, `onPersistReady` | async Readies overlap | what a Ready promises is durable before it is sent |
| ReadyProcessor (`ready_processor`) | phase, pending Ready | one phase per step, sync and async | crash or I/O error between phases | order of persist, sync, send, apply |
| ReadIndex (`read_only`, `raft.zig`) | queue of reads and acks | request, ack, advance | a deposed leader | linearizable reads |
| Membership changes (`conf_changer`, `conf_restore`, `raft.zig`) | incoming/outgoing/learners | simple, enter/leave joint, restore | auto-leave from the apply path | adjacent configurations' quorums meet |
| Snapshots (`raft.zig`, `raft_log`, `wal/snapshot_store`) | unstable snapshot, Progress snapshot state | send, restore, request, report | races with appends and compaction | never undo a commit |
| Write-ahead log (`wal.zig`, `wal/*`) | segments, index, metadata | append, truncate, roll, compact, sync, recover | crash between any two writes | recovery returns what was synced |
| Raftor (`raftor`, `proposal_queue`, `proposal_tracker`, `request_context`) | queues, tracked requests, life-cycle flags | propose, read, tick, poll, stop | callbacks re-enter, stop races the loop | each request completes exactly once |
| Cluster membership (`cluster_membership`) | versioned member registry | encode, apply, restore | carried in conf-change entries | same registry on every node |
| Multi-Raft (`multi_raft*`, `migration_intent_store`) | groups, wake queue, migrations | drive, create, remove, migrate | fairness, crash in a migration | no lost wake-up, at most one owner |
| Transports (`rpc/*`, `loopback_*`, `transport`) | mailboxes, peers | push, pop, connect, drop | limits, peer life cycle | bounded, best effort |
| Conformance scripts (`formal/check.py`, `trace_check.py`, `read_trace_check.py`, `read_index_check.py`) | tool cache, trace file, a TLC subprocess and its log | prepare, load, project, run TLC, judge, self-test | TLC fails, hangs or is killed; another shell replaces the tools; a self-test that tests nothing | a pass is earned, a rejection is the model's |
| Register histories (`formal/history_check.py`) | operations, a search frontier, a witness | extract, validate, search, replay, negate | pending writes, real time, cumulative completions, damaged witnesses | the verdict is linearizability |
| Codec, fs, errors, metrics, config | none or trivial | conversions | byte layouts | not modelled |

Calls go down (`Raftor` → `ReadyProcessor` → `RawNode` → `Raft` → `RaftLog`,
`ProgressTracker`); results come back as a `Ready` (entries, hard state,
messages, committed entries) that the processor carries out and then
advances. Nodes interact only by messages; a node and its former self only
through storage. The hazards, each at its line, are listed in `PROJECT.json`.

## 2. Modules

| Module | Models | Uses |
|---|---|---|
| `QuorumConf` | `majority_conf.zig`, `joint_conf.zig`: pure operators and the reference definitions of a quorum and a quorum index | |
| `QuorumTracker` | `ProgressTracker`'s votes, acknowledgements and commit groups, as a state machine over any configuration | `QuorumConf` |
| `Raft` | the consensus core, the synchronous Ready cycle, storage, network, crashes | `QuorumConf` |
| `InflightWindow` | what `inflights.zig` promises: a bounded FIFO | |
| `Inflights` | `inflights.zig`: the ring buffer, shown to implement `InflightWindow` | `InflightWindow` |
| `ReadService` | ReadIndex from the client's request to its answer, over an abstract consensus | |
| `WalFiles` | the log's directory: file system calls and what a crash may undo | |
| `Wal` | `wal.zig`: every storage operation as its sequence of calls, recovery, crashes | `WalFiles` |
| `RegisterHistory` | `history_check.py`: extraction, validation, the search, replay and witness files, as operators | |
| `HistoryCheck` | the life of one trace through it | `RegisterHistory` |
| `TraceFile` | the rows of trace files, their loaders, projection and mutations | |
| `TlcProcess` | the TLC subprocess as the scripts rely on it (external) | |
| `Conformance` | the scripts: commands, jobs, stages, verdicts, the tool cache | `TraceFile`, `TlcProcess`, `RegisterHistory` |
| `MCQuorumTracker`, `MCRaft`, `MCInflights`, `MCReadService`, `MCWal`, `MCHistoryCheck`, `MCConformance` | small instances | |
| `QuorumConfProofs`, `TrackerProofs`, `RaftElectionProofs`, `RaftSafetyProofs`, `ReadServiceProofs`, `HistoryProofs`, `ConformanceProofs`, `WalProofs` | theorems; `TrackerProofs` is about `QuorumTracker` and `Inflights`; `RaftSafetyProofs` extends `RaftElectionProofs` | |

### QuorumConf and QuorumTracker

`MajorityVoteResult`, `JointVoteResult`, `MajorityCommittedIndex` and
`JointCommittedIndex` follow the code: the committed index is read from the
array of acknowledged indices sorted in descending order, at position
`majority - 1`. The code's sort leaves the order of equal indices open, which
group commit can observe (groups are looked up in array order), so the models
quantify over every sorted order (`SortedOrders`). `IsQuorum` and
`IsQuorumIndex` say what these functions are for without arrays or counters.
`QuorumTracker` fixes a configuration and `group_commit` at the start and then
records votes (a second answer overwrites the first, as a map's `put` does),
raises acknowledged indices (`Progress.maybeUpdate`) and assigns commit groups.

### InflightWindow and Inflights

`InflightWindow` is a FIFO with a bound: what is in flight to a follower, and
the capacity last asked for. `Inflights` is the code: `start`, `count`, the
written slots of `buffer`, the memory it holds (`allocated`, the ArrayList's
capacity), `capacity` and the deferred `incoming_capacity`. Each branch of
`setCapacity` is an action. The refinement mapping reads the ring from `start`
and takes as bound the deferred capacity if there is one: a shrink is deferred
inside, but visible at once through `full`. `Progress` adds increasing indexes,
which is a guard of `add`; a failed allocation leaves everything as it was,
except in `freeTo`, where it leaves the buffer freed (`Release`). `setCapacity`
is exported by the library (`root.zig`) and called only by its users.

### Raft

State:

* `node[i]`: the `Raft` struct: id, term, vote, role, `leader_id`,
  `lead_transferee`, the log with `committed` and `persisted`, the votes of the
  running campaign, a Progress per peer (`prs`) and the queued `messages`.
  `elapsed` says whether `election_elapsed` has reached `election_timeout`;
  only the lease and the leader's quorum check read it.
* `disk[i]`: what survives: `HardState` and the log.
* `msgs`: every message ever sent. A delivery does not remove it, so a message
  may arrive late, repeatedly, out of order, or never.
* `elected`, `decided`: histories, read by properties only.
* `budget`: how many external events of each kind may still happen.

Each handler is an operator from a node to a node (`HandleAppendEntries`,
`HandleVoteRequest`, `Poll`...), with the source's name; each action applies
the whole of it. Inputs: `Campaign` (the election timeout, or
`RawNode.campaign`), `LeaseExpires`, `LeaderTick` (check-quorum and the abort
of a transfer), `Beat`, `Propose`, `TransferLeader`, `Unreachable`, and one
action per message type under `Receive`. `Ready` is `processStepSync` from
`getReady` to `advance`: entries, hard state, sync, messages, advance, the hard
state and messages that advancing unlocks. Crashes come before anything was
written (`Crash`), inside the append with any part of the new entries on disk
(`CrashInAppend`), and after the sync and the sends (`CrashBeforeAdvance`).

Points where the model takes a decision worth knowing:

* A Ready that changes only the commit index is written without a sync
  (`must_sync` is false): `Ready` may keep either the old or the new commit.
* `CrashInAppend` leaves entries on disk whose term exceeds the stored term;
  this is a state the code can restart in.
* Progress exists while a node leads. `Raft.reset` rebuilds it at every role
  change and nothing reads it otherwise. `Progress.committed_index` is never
  read and is left out.
* With `Batching = FALSE` a node finishes its Ready before anybody takes the
  next input (a poll budget of one). A Ready changes one node and adds
  messages, so it commutes with other nodes' inputs, and nothing but
  intermediate states is lost. `Batching = TRUE` lets inputs pile up.
* `MaxMsgs` is the size at which the network starts to drop what it is given;
  a real transport may do so at any time.
* A forwarded `transfer_leader` carries a term. Forwarding it again would
  panic in `Raft.send`; `ReceiveTransferLeader` leaves that branch out and
  `TransferIsNeverForwardedTwice` shows it is not reachable.
* `maybeAppend`'s "conflict at or below commit" branch is behind
  `handleAppendEntries`' own test on the commit index, so what `NoFatalAppend`
  really excludes is a batch whose terms decrease.
* Answers to an earlier pre-vote round of the previous term still count
  (`stepCandidate` does not tie an answer to a round). `PreVoteGate` states
  exactly this much.
* The leader's quorum check runs at the randomized timeout, its lease ends at
  the plain one: a leader can be out of its own lease.

### ReadService

Consensus is abstract: `Elect` (a quorum moves to a new term behind a leader),
`Replicate` (a quorum stores the leader's next entry: it is committed, though
nobody may know), `LearnCommit`, `StepDown`, `Restart`. What module `Raft` shows
of the real one is assumed: one leader per term, committed entries stay. A
candidate treats reads as a follower without leader does, and is one.

Reads are the code: `StepReadIndex` (serve, postpone, forward or drop),
`LeaderCommits` (a commit of the leader's term serves what was postponed),
`HandleHeartbeat`, `HandleHeartbeatResponse` (acknowledgements, quorum, release
of the whole prefix of the queue), `HandleReadIndexResp`, and the processor's
and the tracker's part: a lost leadership fails tracked reads, applied entries
and then the read states of a Ready complete them, timeouts expire them.
`shown` is the largest index any server has applied: what a client may have
seen. Heartbeats and answers stay in `net` for ever, so they may be late or
repeated. A request is delivered at most once (see section 4). Contexts are
never reused, which is `IncarnationsAreFresh` of `Wal`. Left out: lease-based
reads, the singleton shortcut, learners, the asynchronous Ready pipeline.

### WalFiles and Wal

A storage operation is the struct as it leaves it and the file system calls it
makes, in the code's order; the calls are then made one by one (`Step`), and
the process may crash before any of them (`Crash`). File data is durable after
`syncFile`, a created or removed name after `syncDir`; a crash keeps any prefix
of the unsynced records of a file, perhaps with a torn record behind it, may
lose an unsynced header, and undoes each unsynced name on its own. Saving the
metadata or a snapshot (temporary file, sync, rename, directory sync) is one
call, because a crash inside leaves the old file or the new one; so is a
truncation with the sync that follows it at once.

`Open` is `WAL.open` with `recover`: `Opens` are the checks that can fail,
`Recovered` the struct it builds, `Opened` the calls it makes (torn tails,
first metadata, compacted segments). An entry is its term, a HardState the
commit index and a stamp for the rest, and every record takes one unit of
`segment_size`. A segment header's `first_index` is dropped: it is only read
from a directory that holds nothing else. `Compact` and the snapshot operations
take the indexes their callers in the core may pass (at most `commit + 1`, at
most, or at or above, the commit index; `restoreSnapshot` lets a snapshot at the
commit index through if the node asked for one). `AppendEntries` takes batches of
one term; the code takes any, and the conflict is found in the same way. Histories: `promise` is the state at the last
return that vouches for it, `past` what the log has been since, `floor` the
lowest index overwritten since, `issued` the incarnations handed out. Not
modelled: records of configuration and membership, their migration, I/O and
allocation errors, `close`.

### RegisterHistory and HistoryCheck

A trace event carries, for every node, all reads it has completed and all
writes it has proposed so far. `Extract` turns one event into invocations and
returns and says whether the code's requirements hold; `ValidHistory`,
`Linearize`, `Replay`, `VerifyWitness` are the functions and the TLC model the
script generates. `HistoryCheck` lets a cluster write any trace: reads return
any value, and one event may show completions no correct program shows
(`Forged`). Then come validation, the search level by level, the report with
its replayed witness, and the two mutations of `negatives`. The encoding of
values is the constant `Hex`, an injection; identities keep their kind, as the
prefixed ids of the code do.

### TraceFile, TlcProcess and Conformance

An invocation of a script is a list of jobs, a job a pipeline of stages (load,
translate, compare digests, run TLC) and an expectation (accepted, rejected by
the model, malformed, linearizable, refuted). `Jobs` lists them for every
command of the five scripts. A stage that runs TLC starts a subprocess about
which a truth is chosen (the model holds, holds in its only state, violates an
invariant, deadlocks, or cannot be run); it prints its log line by line and exits, is killed at any
point, or hangs until the timeout. The verdict operators (`CheckVerdict`,
`ProfileVerdict`, `ConsensusVerdict`, `ReadVerdict`, `HistoryVerdict`) look only
at the exit code and the log, as the code does; `facts` remembers the truths,
for the properties alone. The jars are a cache other shells may be filling with
`check.py prepare`, at every interleaving. What an event says about nodes and
messages is abstracted: translation and TLC succeed or fail, a mutation of an
event's content leaves its row as it is (that the payload mutations need logs of
three entries is therefore not in the model), and the reasons the code attaches
to a refused witness are one reason. TLC dumps a witness when it prints a trace.

## 3. Runs

| Run | Instance | Properties |
|---|---|---|
| `quorum` | all simple and joint configurations of 4 servers: each vote missing, yes or no; indices to 2, 2 commit groups and none | `VoteResultIsExact`, `NoTwoWinners`, `CommittedIndexIsQuorumIndex`, `GroupCommitIsLargest`, `AcksRaiseCommit` |
| `inflights` | capacities 0 to 4, indexes 1 to 7 | `RingIsSound`, `FullIsExact`, `ImplementsWindow` |
| `raft_election` | 3 servers from the empty cluster, 2 campaigns, a crash | `TypeOK`, `ElectionSafety`, `VotesAreFinal` |
| `raft_handover` | 3 servers under a leader, pre-vote and check-quorum, a campaign, a transfer, a leader timeout | `TransferIsNeverForwardedTwice`, `PreVoteGate` |
| `raft_overtake` | 3 servers, logs diverged over terms 2 and 3, 2 campaigns | `Agreement`, `LogMatching`, `LeaderCompleteness`, `NoFatalAppend`, `MatchedIsDurable` |
| `raft_pipeline` | 2 servers under a leader, inputs pile up between Readies; 2 proposals and a crash with either a heartbeat and an unreachable report or a campaign | `CommittedIsDurable`, `RestartInRange`, `CheckRaft` |
| `raft_joint` | incoming {s1, s2}, outgoing {s3}; 2 campaigns, a proposal, a crash | `ElectionSafety`, `CommittedIsDurable` |
| `read_service` | 3 servers, 2 reads, 2 terms, 2 entries, 2 of: read, restart, lost quorum, timeout | `ReadsAreLinearizable` |
| `wal` | 2 records per segment, 3 indexes, 2 terms, batches of 3, 4 operations, 2 crashes | `RecoveryKeepsPromise`, `RecoveredLogIsOneLog`, `RefusalLosesNothing`, `IndexLocatesEntries`, `IncarnationsAreFresh` |
| `wal_overwrite` | the same with one crash; a violation is expected | `SuffixOverwriteSurvivesCrash` |
| `history` | 2 nodes, 3 identities, 3 values, 3 operations (2 with a forged completion) | `VerdictIsExact`, `ForgedTracesAreRefused`, `ReplayIsExact`, `DamagedWitnessIsRefused`, `NegativesAreRefuted` |
| `conformance` | every command, 4 traces, 2 jars, 2 preparing shells beside `single` | `PassIsEarned`, `RejectionIsSemantic`, `SelfTestsHold`, `OnlyPinnedToolsRun`, `PinnedStaysPinned`, `EveryInvocationEnds` |

What they show:

* `VoteResultIsExact`: a result announced early is what every completion of
  the missing votes gives, and a pending one could still go both ways.
  `NoTwoWinners`: two candidates cannot both collect a winning set from voters
  who vote once.
* `CommittedIndexIsQuorumIndex`, `GroupCommitIsLargest`, `AcksRaiseCommit`: the
  array arithmetic is the quorum definition; with group commit the result is
  the largest index at most the quorum index held by two groups (where there
  are two), whatever the sort did with ties; acknowledgements never lower it.
* `ImplementsWindow`: the ring never loses, doubles or reorders an index, through
  any sequence of adds, frees, resets and resizes, and `freeFirstOne` frees
  exactly one. `RingIsSound`: its assertions hold and its unchecked append has
  room. `FullIsExact`: `full` answers for the capacity last asked for.
* `ElectionSafety`, `VotesAreFinal`, `PreVoteGate`,
  `TransferIsNeverForwardedTwice`: elections.
* `Agreement`, `LogMatching`, `LeaderCompleteness`, `CommittedIsDurable`,
  `MatchedIsDurable`, `NoFatalAppend`: replication. `CommittedIsDurable` is the
  one that ties commit to the disks of a quorum rather than to what a leader
  believes.
  `MatchedIsDurable` is about the latest leader. For an older one it is false: a
  follower that was overwriting its log for a newer leader may crash inside the
  append and restart with the new entries under the old term
  (`CrashInAppend`), which a leader of that old term believes to match. The
  attempt to prove the property without this restriction showed it.
* `RestartInRange`: `loadState` cannot panic. `CheckRaft`: the runtime
  assertions of `invariant.zig` on the modelled state, and the order of the
  terms in a log, which `checkRaft` does not look at. The window of
  `raft_pipeline` has one place, so that it fills: that two indexes in flight
  are in order is shown by `CheckRaftHolds` (and for the ring by
  `ImplementsWindow`), not by this run.
* `ReadsAreLinearizable`: a read that succeeds shows a state at least as new as
  anything applied anywhere when it was requested, through deposed leaders,
  leaders that have not yet committed in their term, late confirmations,
  forwarding and restarts.
* `RecoveryKeepsPromise`: wherever a crash fell, a directory that opens gives
  back every entry and HardState the last `sync`, compaction or snapshot
  vouched for, except what was overwritten later. `RecoveredLogIsOneLog`: it
  never joins a part of a replaced suffix to its replacement.
  `RefusalLosesNothing`: a directory `open` refuses still holds all that was
  promised; dropping its newest segments or naming its oldest segment in the
  metadata makes it open. `IndexLocatesEntries`: the in-memory index points at
  each entry's record, so that the next truncation cuts where it should.
  `IncarnationsAreFresh`: no incarnation is handed out twice.
* `VerdictIsExact`: `check` says linearizable exactly for the histories for
  which an order exists, by a definition that shares nothing with the search.
  `ReplayIsExact`: the independent replay accepts exactly these orders, among
  all sequences of known and unknown ids. `DamagedWitnessIsRefused`,
  `ForgedTracesAreRefused`: one change to a witness file, or an impossible
  completion in a trace, is noticed. `NegativesAreRefuted`: both mutations make
  any accepted history non-linearizable, so the self-test cannot fail by itself.
* `PassIsEarned`: exit status 0 means every job's TLC runs went to their end with
  the claimed result. `RejectionIsSemantic`: a trace is rejected only because
  the model refuses it. `SelfTestsHold`: the scripts' own negatives are refused
  where they should be; the one exception is the mutation that deletes the only
  proposal of a trace, which the loader refuses before the model sees it.
  `OnlyPinnedToolsRun`, `PinnedStaysPinned`: digests are compared before TLC
  starts and concurrent preparation cannot put anything else in their place.
  `EveryInvocationEnds`: even if TLC hangs.

Bounds. Seven indexes wrap a ring of four without emptying it. Two campaigns give two rival candidates or two successive leaders; with
the diverged start of `raft_overtake` they add up to five terms, enough for an
entry of an old term to be replicated by a later leader and then threatened
(the Figure 8 history needs no more). One crash at every point of a Ready is
enough to lose whatever was not synced; a second one repeats the argument on
another node, which symmetry covers. `MaxEntries` and `MaxInflight` of 1 or 2
reach a full window, a split batch and a conflict inside a batch. `DivergedInit`
and `LedInit` are states the system reaches with several elections, taken as
starts to spend the budget past them. The runs of `Raft` have their deadlock
check off because the budgets run out and the cluster then falls silent; so do
those of `ReadService` and `Wal`, and in `HistoryCheck` and `Conformance` a
script that has ended has no further step.

Two reads and two terms give a deposed leader with an older and a newer read in
its queue, which is what the prefix release and late answers are about. Two
records per segment and three indexes make a log span two segments, so that an
overwrite meets segments behind the cut; four operations fit an append, a sync,
an overwrite or compaction and one more after it, and the second crash falls
into the recovery from the first. Three operations of which two may be writes
give overlapping writes, a pending one and a read that observes their order;
two nodes give completions by the wrong one. Every mutation applies to the first
trace; its second campaign is there so that renaming the first leaves one, and
only the unknown kind can be what refuses the file. Another trace has a single
proposal, another no message to change, and the last one reads. Concurrent preparation is
checked beside one command because every command compares and starts its tools
in the same way (`Classpath`, `Launch`). A history limit of 3 (16 in the code)
and a row limit of 20 (1002) are reached from below only in length.

Every property has a mutant, an operator that changes one mapped definition as
a plausible bug would (the vote not restored, the log matched by position only,
entries not saved before the hard state, a half of a joint configuration
forgotten); TLC finds the property violated.

Fairness: `Conformance` assumes weak fairness of `Script` (a sequential program
keeps running) and of `Expire` (the timeout given to `subprocess.run` fires if
the child has not ended by then). Nothing is assumed of TLC, which may hang, nor
of the other shells. All other properties are safety properties, and `Spec` is
`Init /\ [][Next]_vars`.

## 4. Findings

* **Overwriting a suffix that spans segments** (run `wal_overwrite`).
  `truncateSuffixFrom` cuts and syncs the segment with the first conflicting
  entry (`wal.zig:1053`) and then unlinks the segments behind it. A crash in
  between leaves later segments whose entries do not follow: `recover` meets
  `error.Fatal` from `insertAssumeCapacity` (`wal/wal_index.zig:30`) and the log
  never opens again. The test "WAL suffix overwrite survives every structural
  crash point" (`tests/vopr/wal_fs_adapter.zig:376`) runs with one segment. No
  promised entry is lost (`RefusalLosesNothing`).
* **A first segment that is gone.** `cleanupCompactedSegments`, called at
  recovery (`wal.zig:615`) and in the early returns of `compact`
  (`wal.zig:914-921`), unlinks segments below the first live entry without
  rewriting the metadata, whose `first_segment_id` may name one of them; the
  next `open` reports `MetadataCorrupt` (`wal.zig:508`). It is among the
  refusals `RefusalLosesNothing` describes.
* **A segment without header.** A segment's header is synced with the next sync
  of its file, but its name may survive a crash before that; `open` then refuses
  the directory (`wal/segment.zig:71`). Also described by
  `RefusalLosesNothing`.
* **A request delivered twice.** `ReadOnly.addRequest` ignores a repeated context
  only while it is pending (`read_only.zig:84`). If a transport delivered a
  forwarded `read_index` again after its release, a deposed leader would queue
  it behind a newer read, and a late heartbeat answer of the old round would
  release both: a stale read. With that delivery allowed in `ReadService`,
  `ReadsAreLinearizable` fails; the bundled transports deliver a request at most
  once, and so does the model.

* **A commit index from a later term** (pre-vote only). A refused pre-vote request
  still hands its commit index to the receiver (`raft.zig:592`,
  `raft.zig:912`), and its sender may be in a later term than the receiver, which
  stays in its own. Every other commit index comes in the receiver's term or
  moves it to the sender's. The proof of `Agreement` failed here, and the
  schedule it failed on is a behaviour of `Raft` with seven servers, replayed
  step by step with TLC (it is outside the bounds of the runs):
  1. `c` leads term 1 and writes entries 1 and 2; `f` and `g` get entry 1. `c`
     restarts and is a candidate of term 2; `f` and others grant it their votes,
     and the answers are delayed.
  2. `b`, whose log is empty, leads term 3 with the votes of three empty logs; its
     append of another entry 1 to `f` is delayed. `g` leads term 4, and commits
     entry 1 with one of its own. `b` follows it, learns that entry 1 is
     committed, and asks for pre-votes.
  3. `c`, still in term 2, refuses, but takes over commit index 1. Then the votes
     arrive: `c` leads term 2, knowing a commit that term 2 does not imply.
  4. `f` acknowledges entry 2 to `c`, and its own commit index, written without
     a sync, is lost in a crash. The delayed append of term 3 overwrites entry
     1; a crash inside it leaves the new entry under the old term 2.
  5. `c`'s heartbeat has the commit index 1, which `c` knows to be matched: `f`
     commits an entry that is not the committed one.

  The hypothesis `Covered` of the theorems excludes every state in which the
  network holds a request as in step 3: a pre-vote request from a later term
  than its receiver's, with a commit index the receiver could use, whether or
  not it is ever taken.
* **Refusing a pre-vote in term 0.** `Raft.send` panics on a vote message whose
  term is 0 (`raft.zig:1400`), and `handleVoteRequest` refuses with the node's
  own term (`raft.zig:587`). In a new cluster with pre-vote, a node whose
  priority was raised with `setPriority` refuses the first pre-vote of a peer
  of lower priority (`raft.zig:567`) while it is in term 0, and panics. TLC
  finds the message in five states of a two-server instance with unequal
  priorities. The model sends it, so the theorems, which are stated for every
  `Priority`, hold of the behaviours before the panic too; the runs have equal
  priorities and do not get there. (`Config.priority` is never read:
  `Raft.init` starts with 0, `raft.zig:267`.)

## 5. Proofs

The theorems hold for every value of the constants that meets the named
assumptions `TrackerAssumption`, `WalAssumption` (positive bounds), `InflightsAssumption` (capacities and indexes are
natural numbers), `ReadAssumption` (at least two servers: a single one answers
without asking anybody) and `RaftAssumption`: a finite set of servers,
which are the voters of the (joint) configuration, a non-empty incoming half,
`None` not a server, positive batch and window sizes, natural budgets;
`HexAssumption`: the encoding of values is an injection that keeps the empty
one.

* `QuorumConfProofs`. `QuorumsMeet`: two quorums of one configuration share a
  server, by cardinality in one half. `WonByQuorum`: a tally is won exactly by a
  quorum of grants; `LostWithoutQuorum`, `QuorumMonotone` complete the picture.
  For the committed index: the `q`-th index of a descending order is at least `k`
  exactly when `q` voters acknowledged `k` (`OrderCounts`, by counting the
  voters before and from position `q`), so what one half answers is the largest
  index it allows (`HalfAllows`), with the scan for a second commit group
  treated case by case (`MajorityCommits`), and the joint answer the smaller of
  the two (`JointCommits`).
* `TrackerProofs`, quorums. `TrackerTypeOK`; every property of `QuorumTracker` in
  every state, from the lemmas above and the type invariant:
  `VoteResultIsExactAlways`, `NoTwoWinnersAlways`,
  `CommittedIndexIsQuorumIndexAlways`, `GroupCommitIsLargestAlways`, and
  `AcksRaiseCommitAlways`, because a half allows no less when more is
  acknowledged (`AllowsMonotone`).
* `TrackerProofs`, windows. `RingImplementsWindow`: `RingSpec` implies the window's
  specification. The mapping needs `RingInv`: the slots in use are written (a
  wrapped ring has all its slots written, one that has not wrapped at least up
  to the end of what is in flight), memory covers the capacity once any is held,
  a deferred shrink is below the capacity and only pending while something is in
  flight, and the indexes increase from `start` (without which `freeFirstOne`
  could free several). One lemma per action proves both that it keeps `RingInv`
  and that it is a step of the window. `RingAlwaysSound`, `FullAlwaysExact`
  follow from the same invariant.
* `RaftElectionProofs`, types. `RaftTypeOK` and `RestartAlwaysInRange`. The type invariant
  alone is not inductive: a commit index taken over from a message, or the
  batch an append overwrites, stays in range only together with the bounds on
  the node's own indices. `TypeInv` adds `NodeOK`: `committed` and `persisted`
  within the log, neither below the durable commit index (so no overwriting
  ever reaches it), and a sound `Progress` of every peer (`SoundProgress`: the
  next index above the matched one, no more in flight than the window, its
  indexes increasing and below the next one, nothing in flight to a probed
  peer; the last two are what keeps the window increasing when batches are
  added after a probe succeeded or the peer is made probing again). One lemma per handler
  shows that it keeps `NodeOK`; the theorem combines them per action.
* `RaftElectionProofs`, elections. `ElectionSafetyHolds`. A ballot is a request for votes
  (the candidate's vote for itself) or a granted answer. `VoteInv` says: every
  ballot of a server is *bound* to its term and vote: it is of an earlier term,
  or of this term and for this vote, and so it is, for ballots already on the
  network, with the term and vote on disk; two ballots of one server and term
  name one candidate (`OneChoice`); a granted answer was asked for
  (`GrantsAsked`); a candidate counts only votes granted to it; and every
  leader and every pair in `elected` has the ballots of a quorum on the network
  (`WonBy`). Two leaders of a term then have a
  common voter (`QuorumsMeet`) with two ballots of that term, which must agree.
  That a ballot is durable when it leaves is where the order in
  `processStepSync` enters (`TransmitVotes`): a queued ballot is bound to the
  volatile state only, and `Ready` writes that state before it sends. Handlers
  that create no ballot and move terms only forward share one lemma each
  (`Quiet`, `StepDown`). A single-server configuration wins without sending a
  request and is treated apart.

  `TransferIsNeverForwardedTwiceAlways`. `Raft.send` would panic if a follower
  passed on a transfer request that already carries a term. `LeaderInv` says that
  whomever a node takes for its leader was elected in its term, that a leader and
  only a leader names itself and keeps `Progress`, that appends and heartbeats come from the elected
  leader of their term, that no replication message goes back to its sender, and
  that a forwarded transfer request is addressed to the leader elected in its
  term. When it arrives in that term its receiver cannot be a follower of another
  node, by election safety. The difficult step is a restart of that leader: it
  comes back as a follower that knows no leader, and must not learn of one from
  its own old appends.

  `VotesAreFinalHolds`: the durable term and vote are behind the node's
  (`HardInv`), every handler moves a node *forward* (to a later term, or within
  its term from no vote to one), and a Ready or a crash inside one writes the
  node's pair or leaves the old one.

* `RaftSafetyProofs`, logs. `LogMatchingHolds`, `NoFatalAppendHolds`: log matching is
  not inductive, because logs of former leaders, which appends in flight still
  quote, are nowhere in the state. The invariant `LogInv` says that some
  function `H` gives every term the log its leader had last (`Histories`), that
  every log, in memory, on disk or in `H`,
  is *from leaders* (its part up to any entry of term `t` is a prefix of `H[t]`:
  `FromLeaders`), that every append is a slice of `H` of its term (`IsSlice`),
  and that a leader's log is `H` of its own term (`NodeLogs`). A step extends `H` at the term of an
  elected or appending leader; election safety says that nobody else relies on
  that term. Conflict resolution, probing, torn appends and restarts all cut or
  join logs from leaders, which one set of lemmas covers.
* `RaftSafetyProofs`, commits. `AgreementHolds`, `LeaderCompletenessHolds`,
  `CommittedIsDurableHolds`, `MatchedIsDurableHolds`, `CheckRaftHolds`.
  `SafetyInv` adds a second
  thing that is found rather than stored: a set `A` of acknowledgements
  `<<t, s, k>>`, "the disk of `s` held the first `k` entries of `H[t]` while
  `s` was in term `t`". An entry of term `t` is *chosen* when a quorum
  acknowledged it in `t`, and *choosable* when a quorum did or is still in a
  durable term up to `t`. The invariant (`Safe`):
  - what is choosable is kept: every leader of a later term has it (`Decisive`);
  - a node still has, and on disk, what it acknowledged, as far as that was kept
    (`KeepsAcked`): only leaders that lack an entry overwrite it;
  - a leader counts only what was acknowledged (`Counts`), and every commit index
    in a node, in a message or on a disk is covered by an entry chosen in a term
    up to its own (`CommittedIn`, `CommitOK`);
  - a granted vote answers a request whose log covers everything its voter had
    acknowledged before and that was kept (`GrantOK`).

  The step that matters is an election: choosable entries of term `t` have a
  quorum of holders or of nodes still in `t`, the winner has a quorum of ballots
  of a later term, the common voter holds the entry and found the winner's log
  no older, so the winner's last term is at least `t`, and log matching or the
  induction over earlier leaders puts the entry into its log. Durability enters
  as in elections: `Ready` writes before it sends, and a torn append that has
  not reached the sync has acknowledged nothing. A cluster of one server has no
  messages and needs none of this; `SoloInv` treats it apart.

  `CheckRaftHolds` collects what the other invariants say about one node:
  indexes and windows from `NodeOK`, the leader a role implies from `LeaderInv`,
  terms in order from `FromLeaders`, and `matched` within the log because it was
  acknowledged (`Acks`). For a single server the order of terms needs an
  invariant of its own (`SoloTerms`): it is elected at once and never steps down,
  so it leads at most one term above the one on its disk, and a torn append can
  leave entries of that term, but of no later one, under the old HardState.

  These five theorems have the hypothesis `[]Covered`: with pre-vote, the network
  never holds a request of a sender in a later term than the receiver's with a
  commit index the receiver could use, be it taken or not. Without it `Agreement` is false (section 4, "A commit index from a later
  term"). It is vacuous without pre-vote (the library's default), and
  `SafetyWithoutPreVote` states the five properties for that case without any
  hypothesis. Elections, log matching and `NoFatalAppend` need no hypothesis in
  either case.

* `RaftSafetyProofs`, pre-votes. `PreVoteGateHolds`, with no hypothesis. An answer is
  not tied to the round that asked for it, so a grant may arrive after crashes,
  restarts and later rounds, and the question is how old it can be. `GateInv`
  says that grants, and requests once they left the node, are at most one term
  ahead of the *disk* of the node that asked (before that, of its term): a crash brings back nothing
  older, and a grant that is counted is therefore of the node's term or of the
  next (`HasPreGrant`; `stepCandidate` drops the lower ones). A pre-candidate's
  votes are such grants and its own, so the quorum it wins with is the one
  `PreVoteGate` asks for. That requests stay one term ahead rests on every
  message waiting for the HardState of its Ready; `HardInv` supplies it.

* `ReadServiceProofs`. `ReadsLinearizable`. That a completed read is new enough is
  decided when a request is queued, long before it is released, by a leader that
  may not know it is deposed. `ReadInv` therefore says:
  - `Consensus`: terms in the log increase, a majority reached the term of every
    entry and of every leader, one leader per term;
  - `Indexes`: every index anybody knows, from applied entries to answers under
    way, is `Sound`: committed, and known to the *latest* leader (one whose term
    no majority has left) if it is of that leader's term;
  - `Confirmed`: the `Voice` of a queued request are the servers not beyond the
    leader's term, and those that confirmed, in the queue or on the network, this
    request or one queued behind it. If the voice is a majority, the request's
    index covers everything shown before the request was made. When it is queued
    this holds because the voice is then only the servers not beyond the term,
    so the leader is the latest; afterwards the voice never grows;
  - `Once`, `Unheard`: a request is in one place and nobody confirms it before it
    is queued; `Released`: what was released is new enough.

  A release needs a majority of acknowledgements for a request, which is part of
  the voice of everything queued before it. `LeaderCommits` queues all postponed
  requests in a loop (`AddRequests`, a recursive function): what it computes is
  proved from the least counterexample (`LeastExists`).

* `HistoryProofs`. All five properties of `HistoryCheck`, for histories of every
  length, any number of nodes, identities and values.
  - `VerdictExact`: `SearchInv` says that the frontier at depth `d` is the set
    of all *valid* orders of length `d` (distinct candidates, real-time
    predecessors before, reads equal to the register before them). A
    linearization in the sense of `Explains` is a complete valid order
    (`LinearizationIsValid`, `ValidIsLinearization`), all its beginnings are
    valid (`BeginningValid`), so the search cannot miss it, and a frontier that
    runs empty refutes. The value of the register after `k` operations is a
    recursive function; that it exists and is the last value written is shown
    from the least counterexample (`FollowsExists`, `ValuesLastWrite`).
  - `ReplayExact`: identities are unique in a valid history, so a sequence of
    them names one sequence of positions, and each requirement of `replay` at a
    position is one of `Explains` there. `DamagedRefused` needs only what
    `verify_witness` itself guarantees about any file it accepts
    (`VerifiedWitness`), given that each changed file still is one
    (`DamagedFiles`).
  - `NegativesRefuted`: the mutated read comes, by real time, before every write
    (and shows a written value), or after one (and shows the initial value, which
    no write has).
  - `ForgedRefused`: `TraceInv` relates what each node has shown so far to the
    history extracted from it: the returns shown are exactly the completed
    operations the node owns, each once and with the recorded result. A legal
    event keeps this and is plausible; for each of the four ways to forge, an
    event that is plausible is shown to be legal (`AppendedLegal`,
    `WithdrawnLegal`, `RevaluedLegal`, `RemarkedLegal`).
* `ConformanceProofs`. `PassIsEarnedHolds`, `RejectionIsSemanticHolds`,
  `OnlyPinnedToolsHold`, `PinnedStaysPinnedHolds`, for any traces, jars and shells,
  from one invariant, `ScriptInv`:
  - `Pins`: what is left of a pipeline still compares the jars before its first TLC
    stage (`Guarded`), or all jars are pinned; no shell ever takes a pinned one
    away, so the comparison is not stale when TLC starts;
  - `Process`: the lines logged so far, and those still to come, are `Honest`: a
    violation or a deadlock in the log is the model's; the exit code is that of
    the model or of a kill. Wherever a run is cut off, this is enough for every
    verdict (`StageVerdictSound`, `HistoryVerdictSound`);
  - `Judged`: the stages the facts are about and the TLC stages left in the
    pipeline are together those of the job, and every fact supports it
    (`OnTrack`): no stage is skipped. An exception or a history verdict is what
    it says;
  - `Honoured`: the jobs finished so far were.
* `WalProofs`. `IncarnationsAlwaysFresh`, for segments, records, operations and
  crashes of any number. `IncarnationInv` says that the numbers handed out increase
  and that none is above the number in the metadata file, which only a save of
  metadata changes and no crash takes back. While the process runs, the struct's
  number is the file's, or a save of it is still among the calls to come; a
  reservation that has not returned holds a number above all that were handed out.
  Most calls do not touch the metadata file (`Plain`); an operation whose calls save
  only the number its struct has is `Quiet`, and every operation but the reservation
  is. `append` writes its records in a loop (`WriteRecords`), which is followed from
  its least counterexample (`LoopSteps`).

  `IndexAlwaysLocates`. The index is only right once an operation's calls are all
  made, so `LocateInv` looks ahead: the struct describes (`Matches`) the directory
  that the calls in `todo` lead to (`Reaches`, `Leads`), and every directory on the
  way has its segment headers (`Sound`). `Matches` is stronger than the property: the places
  of the entries are also in file order (`Precedes`), without which
  `truncateSuffixFrom`, which removes everything behind a place, would take entries
  before it too. Calls that write no record only remove segments (`Tidy`, `Removed`),
  which is what sync, compaction, snapshots and cleanup are made of; a write, a
  truncation and a new segment change the records of one (`Alters`). A crash leaves a well formed
  directory with settled names (`CrashWhole`); recovery lists its entries in file
  order (`ScannedIs`, from `InOrderLists`: a finite set under a strict order has one
  member of each rank) and its struct matches the repaired directory
  (`RecoveredMatches`).

  `RecoveryAlwaysKeepsPromise`, `RecoveredLogAlwaysOneLog`. What a crash may leave is
  decided by every call of an operation, not by its end, so `PromiseInv` speaks of
  all directories on the way. Such a directory is `Trusty` for two structs, `w0` and
  the struct the operation leaves: every entry of `w0` up to the last promised index
  that was not overwritten is at its place, synced, under a durable name, in a
  segment recovery reads (`Vows`); recovery finds no entries but those of `w0`, or no
  entries but those of the new struct (`Tells`), never a mixture; and the saved
  HardState was one of the WAL since the promise. While the process runs
  (`Promising`), the calls of `todo` lead through such directories only (`Goes`), and
  the last of them `Fits` the struct and is trusty for the struct alone, so that the
  next operation may start from it; a return that vouches is reached only in a
  directory at rest (`Still`), with the HardState saved. Each operation is a
  composition of calls with a lemma each: those that write no record spare what is
  promised (`Spares`, `Mild`), a sync of everything brings the directory to rest
  (`FlushRests`), a save of metadata moves the start of the log only over entries that
  are there (`SaveRests`, `FirstSegmentIs`), a cut takes only what is overwritten
  (`Cuts`), a write adds behind what is promised (`Adds`). A crash keeps a directory
  trusty (`CrashKeepsTrusty`). Recovery reads all the entries of the segments from the
  saved one on (`ScanAll`, `RecoveredReads`), hence gives back what `Vows` lists, and
  nothing that `Tells` excludes (`RecoveredKeeps`); its own repair, first save and
  cleanup keep what it read (`OpenedGoes`).

Only model-checked: `SelfTestsHold` (it evaluates the scripts' own
test data) and `RefusalLosesNothing` (of a directory `open` refuses; `Trusty` says what
it holds, not which repair opens it). Out of the prover's reach, and left to TLC:
liveness under fairness (`EveryInvocationEnds`) and `ENABLED`. Induction over data
is available only through least counterexamples of first-order statements: the
proofs above use it for the register, the search and the loops that queue requests
and write records, and
nothing is proved about RECURSIVE operators.

## 6. Not modelled yet, and the plan

In order:

1. Proofs: that a directory `Wal` refuses has lost nothing.
2. `RaftLog`: unstable buffer, persist notices, snapshots and compaction, with
   the asynchronous Ready pipeline (`RawNode` records, `onPersistReady`).
3. `ConfChange` on top of the core, with the configuration algebra
   (`conf_changer`, `conf_restore`) as operators checked against a reference.
4. `Raftor`: proposal queue and tracker, callbacks, stop and terminal errors;
   exactly-once completion, and liveness of accepted requests.
5. `MultiRaft`: wake queue, driving, migrations and their intents; mailboxes.
6. Liveness of replication and elections under fair delivery and ticks.

Left out for good: byte formats (`codec`, `crc32c`), the content of trace events
(`instructions`, `observe` in `formal/`, a translation into another model's
actions), sockets (`rpc` below the mailboxes), metrics, logging and profiling.
Inside the core, `batch_append`, `skip_broadcast_commit`, learners, snapshots,
uncommitted-size limits and group commit inside `Raft` are not
part of the present model.
