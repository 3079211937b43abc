-------------------------------- MODULE Wal --------------------------------
(***************************************************************************)
(* The write-ahead log, wal.zig: a log of entries in segment files, a      *)
(* HardState, snapshots and incarnation numbers kept by a metadata file,   *)
(* and recovery.  The process makes one file system call at a time and may *)
(* crash before any of them; wal.open then reads what the crash left.      *)
(*                                                                         *)
(* An entry is its term (terms tell entries of one index apart) and takes  *)
(* as much room as a HardState record; a HardState is the commit index and *)
(* a stamp for term and vote.  A segment header's first_index is not kept: *)
(* it is read only from a directory that holds nothing else.               *)
(***************************************************************************)
EXTENDS WalFiles

CONSTANTS SegmentRecords,  \* records that fit into segment_size
          MaxIndex,        \* largest entry index
          MaxTerm,         \* largest entry term
          MaxBatch,        \* entries per append
          MaxOps,          \* storage operations in a behaviour
          MaxCrashes       \* crashes in a behaviour

ASSUME WalAssumption ==
  {SegmentRecords, MaxIndex, MaxTerm, MaxBatch, MaxOps, MaxCrashes} \subseteq Nat \ {0}

VARIABLES disk,     \* the directory
          wal,      \* the WAL struct while the process runs
          phase,    \* down, open, or refused: recovery failed
          op,       \* the operation that runs or ran last
          todo,     \* its file system calls still to be made
          promise,  \* history: the state at the last return that vouches for it
          past,     \* history: logs and HardStates since then
          floor,    \* history: lowest index overwritten since then
          issued,   \* history: incarnations handed out
          budget    \* operations and crashes that may still happen

vars == <<disk, wal, phase, op, todo, promise, past, floor, issued, budget>>

----------------------------------------------------------------------------
(* The struct and what is computed from it. *)

Entry(index, term) == [kind |-> "entry", index |-> index, term |-> term]
HardStateRecord == [kind |-> "hard_state"]

NoWal == [first |-> 1]

\* lastIndex
LastIndex(w) == IF w.log = <<>> THEN Max({w.snap, w.first - 1}) ELSE w.first + Len(w.log) - 1

\* wal_index.lookup
Lookup(w, index) == w.at[index - w.first + 1]

\* firstSegmentIdFor, and the test of cleanupCompactedSegments
FirstSegmentIdFor(w, first) ==
  IF first <= LastIndex(w) THEN Lookup(w, first).seg ELSE Max(w.segs)

MetadataOf(w, first, seg) ==
  [first |-> first, seg |-> seg, hs |-> w.hs, snap |-> w.snap, incarnation |-> w.incarnation]

\* A plausible slip: the directory is not synced.
SyncFilesOnly(w) ==
  LET ids == Ascending(w.segs) IN [i \in DOMAIN ids |-> SyncFile(ids[i])]

\* SegmentManager.syncAll
SyncAll(w) ==
  LET ids == Ascending(w.segs)
  IN [i \in DOMAIN ids |-> SyncFile(ids[i])] \o IF w.dirDirty THEN <<SyncDir>> ELSE <<>>

\* SegmentManager.removeSegmentsBefore, removeSegmentsAfter
UnlinkBefore(ids, seg) ==
  LET old == Ascending({id \in ids : id < seg}) IN [i \in DOMAIN old |-> Unlink(old[i])]
UnlinkAfter(ids, seg) ==
  LET later == Reverse(Ascending({id \in ids : id > seg})) IN [i \in DOMAIN later |-> Unlink(later[i])]

\* The struct with the segments a removal leaves and a dirty directory if it
\* removed any.
Keeping(w, ids) == [w EXCEPT !.segs = ids, !.dirDirty = @ \/ ids # w.segs]

Synced(w) == [w EXCEPT !.dirDirty = FALSE]

----------------------------------------------------------------------------
(* Writing. *)

\* writeRecord: roll to a new segment if the current one is full; the struct
\* and the calls so far are in acc.
WriteRecord(acc, record) ==
  LET w == acc.wal
      current == Max(w.segs)
      rolls == w.used + 1 > SegmentRecords /\ w.used > 0
      target == IF rolls THEN current + 1 ELSE current
      placed == [w EXCEPT !.segs = @ \cup {target},
                          !.dirDirty = @ \/ rolls,
                          !.used = IF rolls THEN 1 ELSE @ + 1]
  IN [wal |-> IF record.kind = "entry"
                THEN [placed EXCEPT !.log = Append(@, record.term),
                                    !.at = Append(@, [seg |-> target, pos |-> placed.used])]
                ELSE placed,
      calls |-> acc.calls
                  \o (IF rolls THEN <<SyncFile(current), Create(target)>> ELSE <<>>)
                  \o <<Write(target, record)>>]

\* The loop of append over its new records.
WriteRecords(base, records) ==
  LET acc[k \in 0 .. Len(records)] ==
        IF k = 0 THEN base ELSE WriteRecord(acc[k - 1], records[k])
  IN acc[Len(records)]

\* A plausible slip: the removals are left to the next sync.
TruncateWithoutDirSync(w, index) ==
  LET location == Lookup(w, index)
      left == Keeping(w, {id \in w.segs : id <= location.seg})
  IN [wal |-> [left EXCEPT !.log = SubSeq(@, 1, index - w.first),
                           !.at = SubSeq(@, 1, index - w.first),
                           !.used = location.pos - 1],
      calls |-> <<Truncate(location.seg, location.pos - 1)>> \o UnlinkAfter(w.segs, location.seg)]

\* truncateSuffixFrom
TruncateSuffixFrom(w, index) ==
  LET location == Lookup(w, index)
      left == Keeping(w, {id \in w.segs : id <= location.seg})
  IN [wal |-> [Synced(left) EXCEPT !.log = SubSeq(@, 1, index - w.first),
                                   !.at = SubSeq(@, 1, index - w.first),
                                   !.used = location.pos - 1],
      calls |-> <<Truncate(location.seg, location.pos - 1)>>
                  \o UnlinkAfter(w.segs, location.seg) \o SyncAll(left)]

\* cleanupCompactedSegments
Cleanup(w) ==
  LET seg == IF w.log # <<>> THEN Lookup(w, w.first).seg ELSE Max(w.segs)
      left == Keeping(w, {id \in w.segs : id >= seg})
  IN [wal |-> Synced(left), calls |-> UnlinkBefore(w.segs, seg) \o SyncAll(left)]

\* A plausible slip: the index keeps the places of dropped entries.
CompactEntriesOnly(w, index) ==
  [w EXCEPT !.first = index, !.log = SubSeq(@, index - w.first + 1, Len(@))]

\* compactMemory
CompactMemory(w, index) ==
  [w EXCEPT !.first = index,
            !.log = SubSeq(@, index - w.first + 1, Len(@)),
            !.at = SubSeq(@, index - w.first + 1, Len(@))]

----------------------------------------------------------------------------
(* recover: what wal.open makes of a directory. *)

\* The order of places: by segment, then by position.
Precedes(p, q) == p.seg < q.seg \/ (p.seg = q.seg /\ p.pos < q.pos)

\* Entries of the segments from metadata.first_segment_id on, in file order,
\* with their places; older ones than first_index are skipped.
Scanned(files, first, seg) ==
  LET places == UNION {{[seg |-> id, pos |-> p] : p \in DOMAIN files[id].body} :
                         id \in {i \in DOMAIN files : i >= seg}}
      At(p) == files[p.seg].body[p.pos]
      wanted == {p \in places : At(p).kind = "entry" /\ At(p).index >= first}
      order == InOrder(wanted, {q \in wanted \X wanted : Precedes(q[1], q[2])})
  IN [i \in DOMAIN order |-> [seg |-> order[i].seg, pos |-> order[i].pos, record |-> At(order[i])]]

\* open creates the first segment of a directory that has none.
Segments(d) == IF d.files = <<>> THEN [id \in {1} |-> FileSynced(NewFile)] ELSE d.files

\* The recovered struct, before cleanupCompactedSegments.
Recovered(d) ==
  IF d.metadata = NoMetadata
    THEN [first |-> 1, log |-> <<>>, at |-> <<>>, hs |-> [stamp |-> 0, commit |-> 0],
          snap |-> 0, incarnation |-> 0, dirty |-> TRUE,
          segs |-> {1}, used |-> 0, dirDirty |-> d.files = <<>>]
    ELSE LET m == d.metadata
             files == Segments(d)
             entries == Scanned(files, m.first, m.seg)
         IN [first |-> m.first,
             log |-> [i \in DOMAIN entries |-> entries[i].record.term],
             at |-> [i \in DOMAIN entries |-> [seg |-> entries[i].seg, pos |-> entries[i].pos]],
             hs |-> m.hs, snap |-> m.snap, incarnation |-> m.incarnation, dirty |-> FALSE,
             segs |-> DOMAIN files,
             used |-> Len(files[Max(DOMAIN files)].body), dirDirty |-> d.files = <<>>]

\* scanDirectory, load and the checks of recover, in any order: they only read
\* (a torn tail is cut before the last check, which does not look at it).  A
\* directory without metadata must be as the first open made it.
Opens(d) ==
  LET files == Segments(d)
      m == d.metadata
      ids == DOMAIN files
  IN /\ \A id \in ids : files[id].header = "durable"
     /\ IF m = NoMetadata
          THEN ids = {1} /\ files[1].body = <<>> /\ ~files[1].torn
          ELSE /\ m.seg \in ids
               /\ m.snap > 0 => m.snap \in d.snapshots
               /\ \A id \in ids : files[id].torn /\ id >= m.seg => id = Max(ids)
               /\ LET entries == Scanned(files, m.first, m.seg)
                  IN /\ \A i \in DOMAIN entries : entries[i].record.index = m.first + i - 1
                     /\ LastIndex(Recovered(d)) >= m.hs.commit

\* The calls of open: create the first segment, repair a torn tail, then save
\* first metadata or remove compacted segments.
Repair(d) ==
  LET last == Max(DOMAIN d.files)
  IN IF d.files = <<>> THEN <<Create(1)>>
     ELSE IF d.files[last].torn THEN <<Truncate(last, Len(d.files[last].body))>> ELSE <<>>

Opened(d) ==
  LET w == Recovered(d)
  IN IF w.dirty
       THEN [wal |-> [Synced(w) EXCEPT !.dirty = FALSE],
             calls |-> Repair(d) \o SyncAll(w)
                         \o <<SaveMetadata(MetadataOf(w, w.first, FirstSegmentIdFor(w, w.first)))>>]
       ELSE LET c == Cleanup(w)
            IN IF w.first > 1 THEN [wal |-> c.wal, calls |-> Repair(d) \o c.calls]
               ELSE [wal |-> w, calls |-> Repair(d)]

----------------------------------------------------------------------------
(* The process. *)

\* The log from index 1, compacted entries as 0.
LogOf(w) == [i \in 1 .. w.first - 1 |-> 0] \o w.log

StateOf(w) == [log |-> LogOf(w), hs |-> w.hs]

NoFloor == MaxIndex + 1

Init ==
  /\ disk = EmptyDisk
  /\ wal = NoWal
  /\ phase = "down"
  /\ op = "none"
  /\ todo = <<>>
  /\ promise = [log |-> <<>>, hs |-> [stamp |-> 0, commit |-> 0]]
  /\ past = {promise}
  /\ floor = NoFloor
  /\ issued = <<>>
  /\ budget = [ops |-> MaxOps, crashes |-> MaxCrashes]

\* WAL.open; what it finds has survived a crash and is durable.
Open ==
  /\ phase = "down"
  /\ IF Opens(disk)
       THEN LET opened == Opened(disk)
            IN /\ phase' = "open"
               /\ op' = "open"
               /\ wal' = opened.wal
               /\ todo' = opened.calls
               /\ promise' = StateOf(opened.wal)
               /\ past' = {promise'}
               /\ floor' = NoFloor
       ELSE /\ phase' = "refused"
            /\ UNCHANGED <<op, wal, todo, promise, past, floor>>
  /\ UNCHANGED <<disk, issued, budget>>

\* An operation starts: the struct as it leaves it, its calls, and whether
\* its return vouches for what is then on disk.
Start(name, result, vouches) ==
  /\ phase = "open"
  /\ todo = <<>>
  /\ budget.ops > 0
  /\ budget' = [budget EXCEPT !.ops = @ - 1]
  /\ op' = name
  /\ wal' = result.wal
  /\ todo' = result.calls \o IF vouches THEN <<Call("return", 0, 0)>> ELSE <<>>
  /\ past' = past \cup {StateOf(result.wal)}
  /\ UNCHANGED <<disk, phase, promise, issued>>

Lower(index) == floor' = Min({floor, index})

\* append: entries that are already there are skipped; from the first that
\* differs on, the suffix is replaced.  A conflict at or below the commit
\* index is refused.  The batches enumerated are of one term.
AppendEntries(index, n, term) ==
  LET batch == [i \in 1 .. n |-> Entry(index + i - 1, term)]
      Same(e) == e.index <= LastIndex(wal) /\ wal.log[e.index - wal.first + 1] = e.term
      skip == Max({k \in 0 .. n : \A i \in 1 .. k : Same(batch[i])})
      new == SubSeq(batch, skip + 1, n)
      conflict == new[1].index <= LastIndex(wal)
      base == IF conflict THEN TruncateSuffixFrom(wal, new[1].index)
              ELSE [wal |-> wal, calls |-> <<>>]
  IN /\ phase = "open"
     /\ index >= wal.first
     /\ index <= LastIndex(wal) + 1
     /\ index > wal.first => term >= wal.log[index - wal.first]
     /\ new # <<>>
     /\ new[1].index > wal.hs.commit
     /\ Start(IF conflict THEN "overwrite" ELSE "append", WriteRecords(base, new), FALSE)
     /\ IF conflict THEN Lower(new[1].index) ELSE UNCHANGED floor

\* saveHardState
SaveHardState(commit) ==
  /\ phase = "open"
  /\ commit >= wal.hs.commit
  /\ commit <= LastIndex(wal)
  /\ LET written == WriteRecord([wal |-> wal, calls |-> <<>>], HardStateRecord)
     IN Start("saveHardState",
              [written EXCEPT !.wal.hs = [stamp |-> @.stamp + 1, commit |-> commit],
                              !.wal.dirty = TRUE], FALSE)
  /\ UNCHANGED floor

\* persistMetadata, with the struct as it is to be saved
Persist(w, first) == <<SaveMetadata(MetadataOf(w, first, FirstSegmentIdFor(w, first)))>>

\* A plausible slip: the metadata is saved before the segments are synced.
MetadataBeforeSegments(w) == Persist(w, w.first) \o SyncAll(w)

\* sync, with a HardState to save
SegmentsBeforeMetadata(w) == SyncAll(w) \o Persist(w, w.first)

Sync ==
  /\ phase = "open"
  /\ Start("sync",
           [wal |-> [Synced(wal) EXCEPT !.dirty = FALSE],
            calls |-> IF wal.dirty THEN SegmentsBeforeMetadata(wal) ELSE SyncAll(wal)], TRUE)
  /\ UNCHANGED floor

\* A plausible slip: the number is kept in memory until the next save.
ReserveInMemory ==
  /\ phase = "open"
  /\ LET next == [wal EXCEPT !.incarnation = @ + 1, !.dirty = TRUE]
     IN Start("reserve", [wal |-> Synced(next), calls |-> SyncAll(wal)], TRUE)
  /\ UNCHANGED floor

\* reserveIncarnation
ReserveIncarnation ==
  /\ phase = "open"
  /\ LET next == [wal EXCEPT !.incarnation = @ + 1]
     IN Start("reserve", [wal |-> [Synced(next) EXCEPT !.dirty = FALSE],
                          calls |-> SyncAll(wal) \o Persist(next, wal.first)], TRUE)
  /\ UNCHANGED floor

\* compact: with nothing to drop it still removes segments, and does not
\* save metadata.
Compact(index) ==
  /\ phase = "open"
  /\ index <= wal.hs.commit + 1
  /\ IF wal.log = <<>> \/ index <= wal.first
       THEN Start("compact", Cleanup(wal), FALSE)
       ELSE LET c == Cleanup([CompactMemory(Synced(wal), index) EXCEPT !.dirty = FALSE])
            IN Start("compact",
                     [wal |-> c.wal, calls |-> SyncAll(wal) \o Persist(wal, index) \o c.calls], TRUE)
  /\ UNCHANGED floor

\* removeOldSnapshot
RemoveOldSnapshot == IF wal.snap > 0 THEN <<RemoveSnapshot(wal.snap)>> ELSE <<>>

\* applyLocalSnapshot: a snapshot of applied entries the log still has
ApplyLocalSnapshot(index) ==
  /\ phase = "open"
  /\ index > wal.snap
  /\ index >= wal.first
  /\ index <= wal.hs.commit
  /\ LET snapped == [Synced(wal) EXCEPT !.snap = index, !.dirty = FALSE]
         c == Cleanup(CompactMemory(snapped, index + 1))
     IN Start("localSnapshot",
              [wal |-> c.wal,
               calls |-> SyncAll(wal) \o <<SaveSnapshot(index)>>
                           \o <<SaveMetadata(MetadataOf(snapped, index + 1, FirstSegmentIdFor(wal, index + 1)))>>
                           \o c.calls \o RemoveOldSnapshot], TRUE)
  /\ UNCHANGED floor

\* applySnapshot: a leader's snapshot replaces the log; a new segment starts
\* it.  restoreSnapshot lets none below the commit index through, and one at
\* it only if the node asked for a snapshot.
ApplySnapshot(index) ==
  /\ phase = "open"
  /\ index > wal.snap
  /\ index >= wal.hs.commit
  /\ LET seg == Max(wal.segs) + 1
         rolled == [wal EXCEPT !.segs = @ \cup {seg}, !.used = 0, !.dirDirty = TRUE]
         reset == [Synced(rolled) EXCEPT !.first = index + 1, !.log = <<>>, !.at = <<>>,
                                         !.hs.commit = index, !.snap = index, !.dirty = FALSE]
         left == Keeping(reset, {seg})
     IN Start("snapshot",
              [wal |-> Synced(left),
               calls |-> <<SyncFile(seg - 1), Create(seg)>> \o SyncAll(rolled)
                           \o <<SaveSnapshot(index), SaveMetadata(MetadataOf(reset, index + 1, seg))>>
                           \o UnlinkBefore(wal.segs, seg) \o SyncAll(left) \o RemoveOldSnapshot], TRUE)
  /\ Lower(index + 1)

\* The next file system call; a return that vouches for the state is where the
\* histories start anew.
Step ==
  /\ todo # <<>>
  /\ todo' = Tail(todo)
  /\ disk' = Done(disk, Head(todo))
  /\ IF Head(todo).do = "return"
       THEN /\ promise' = StateOf(wal)
            /\ past' = {promise'}
            /\ floor' = NoFloor
            /\ issued' = IF op = "reserve" THEN Append(issued, wal.incarnation) ELSE issued
       ELSE UNCHANGED <<promise, past, floor, issued>>
  /\ UNCHANGED <<wal, phase, op, budget>>

\* The process or the machine stops; the histories remain.
Crash ==
  /\ phase = "open"
  /\ budget.crashes > 0
  /\ budget' = [budget EXCEPT !.crashes = @ - 1]
  /\ disk' \in Crashes(disk)
  /\ phase' = "down"
  /\ wal' = NoWal
  /\ op' = IF todo = <<>> THEN "none" ELSE op
  /\ todo' = <<>>
  /\ UNCHANGED <<promise, past, floor, issued>>

Index == 1 .. MaxIndex

Next ==
  \/ Open \/ Step \/ Crash \/ Sync \/ ReserveIncarnation
  \/ \E i \in Index, n \in 1 .. MaxBatch, t \in 1 .. MaxTerm :
       i + n - 1 <= MaxIndex /\ AppendEntries(i, n, t)
  \/ \E i \in Index : SaveHardState(i) \/ Compact(i + 1) \/ ApplyLocalSnapshot(i) \/ ApplySnapshot(i)

Spec == Init /\ [][Next]_vars

----------------------------------------------------------------------------
(* Properties. *)

\* What open would recover from d has every promised entry that was neither
\* overwritten nor compacted since, and a HardState saved at the promise or
\* after it.
KeepsPromise(d) ==
  LET r == Recovered(d)
  IN /\ \A i \in r.first .. Min({Len(promise.log), floor - 1}) :
          i <= r.first - 1 + Len(r.log) /\ r.log[i - r.first + 1] = promise.log[i]
     /\ r.hs \in {p.hs : p \in past}

\* Wherever the process crashed, a directory that opens gives back what the
\* last sync, compaction or snapshot returned for: no entry it covered is lost
\* except to a later overwrite, no HardState falls behind it (wal.sync,
\* wal.recover).
RecoveryKeepsPromise == phase = "down" /\ Opens(disk) => KeepsPromise(disk)

\* A recovered log is a prefix of a log the WAL really had since the last
\* promise, never entries of an overwritten suffix behind entries of its
\* replacement (wal.truncateSuffixFrom, wal.recover).
RecoveredLogIsOneLog ==
  phase = "down" /\ Opens(disk) =>
    LET r == LogOf(Recovered(disk))
    IN \E p \in past : \A i \in Recovered(disk).first .. Len(r) : i <= Len(p.log) /\ r[i] = p.log[i]

\* The directory with the segments above k removed and the name of a removed
\* first segment replaced by that of the oldest one.
Mended(d, k) ==
  LET ids == {id \in DOMAIN d.files : id <= k}
  IN [d EXCEPT !.files = [id \in ids |-> d.files[id]],
               !.metadata = IF @ = NoMetadata \/ @.seg \in ids THEN @
                            ELSE [@ EXCEPT !.seg = IF ids = {} THEN 1 ELSE Min(ids)]]

\* A directory that is refused (a segment without header, entries of an
\* interrupted removal, a first segment that is gone) has lost nothing: it
\* opens and keeps the promise once the newest segments are dropped or the
\* first segment is named anew.
RefusalLosesNothing ==
  phase = "refused" =>
    \E k \in DOMAIN disk.files \cup {0} :
      Opens(Mended(disk, k)) /\ KeepsPromise(Mended(disk, k))

\* The in-memory index finds every entry where truncateSuffixFrom will cut, over
\* any rolls, truncations, compactions and recoveries (wal_index.zig).
IndexLocatesEntries ==
  phase = "open" /\ todo = <<>> =>
    /\ \A i \in DOMAIN wal.log :
         LET place == wal.at[i]
         IN /\ place.seg \in wal.segs
            /\ disk.files[place.seg].body[place.pos] = Entry(wal.first + i - 1, wal.log[i])
    /\ wal.segs = Listed(disk.files)
    /\ wal.used = Len(disk.files[Max(wal.segs)].body)

\* No incarnation is handed out twice, whatever a crash undid
\* (wal.reserveIncarnation): request contexts of two lives of a node differ.
IncarnationsAreFresh == IsInjective(issued)

\* What tests/vopr/wal_fs_adapter.zig says of append: the overwriting of a
\* suffix of a synced log (nothing happened since the last promise but the
\* overwriting, and every segment has its header) survives every crash point.
SuffixOverwriteSurvivesCrash ==
  /\ op = "overwrite"
  /\ Cardinality(past \ {promise}) = 1
  /\ \A id \in DOMAIN disk.files : disk.files[id].header = "durable"
  => phase # "refused"
============================================================================
