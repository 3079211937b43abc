------------------------------ MODULE WalFiles ------------------------------
(***************************************************************************)
(* The directory of a write-ahead log as wal/segment.zig,                  *)
(* wal/segment_manager.zig, wal/metadata_store.zig and                     *)
(* wal/snapshot_store.zig use it: segment files, the metadata file and     *)
(* snapshot files, and what of them a crash may lose.  Data is durable     *)
(* after syncFile, a name (created or removed) after syncDir.              *)
(*                                                                         *)
(* A storage operation is the sequence of calls it makes; Done is the      *)
(* directory after one of them.  Metadata and snapshots are written to a   *)
(* temporary file, synced, renamed and the directory synced: a crash       *)
(* inside leaves the old file or the new one, so each is one call.  So are *)
(* a truncation and the sync that follows it at once.                      *)
(***************************************************************************)
EXTENDS Integers, Sequences, FiniteSets, FiniteSetsExt, SequencesExt

\* The members of S as a sequence in the order of the relation R, and a set of
\* numbers from the lowest on.
InOrder(S, R) ==
  [i \in 1 .. Cardinality(S) |-> CHOOSE x \in S : Cardinality({y \in S : <<y, x>> \in R}) = i - 1]
Ascending(ids) == InOrder(ids, {p \in ids \X ids : p[1] < p[2]})

\* A call: what, on which segment, with which argument.
Call(do, id, arg) == [do |-> do, id |-> id, arg |-> arg]

Create(id) == Call("create", id, 0)
Write(id, record) == Call("write", id, record)
Truncate(id, length) == Call("truncate", id, length)
SyncFile(id) == Call("syncFile", id, 0)
SyncDir == Call("syncDir", 0, 0)
Unlink(id) == Call("unlink", id, 0)
SaveMetadata(metadata) == Call("metadata", 0, metadata)
SaveSnapshot(index) == Call("snapshot", 0, index)
RemoveSnapshot(index) == Call("removeSnapshot", 0, index)

\* A segment file: whether its name is as the directory last synced it,
\* whether the header is durable (or lost in a crash), the records, how many
\* of them are durable, and whether bytes of a torn record follow them.
NewFile == [name |-> "new", header |-> "written", body |-> <<>>, synced |-> 0, torn |-> FALSE]

NoMetadata == [first |-> 0]

EmptyDisk == [files |-> <<>>, metadata |-> NoMetadata, snapshots |-> {}]

Listed(files) == {id \in DOMAIN files : files[id].name # "unlinked"}

DirectorySynced(files) ==
  [id \in Listed(files) |-> [files[id] EXCEPT !.name = "durable"]]

FileSynced(file) ==
  [file EXCEPT !.header = "durable", !.synced = Len(file.body)]

\* A file cut to its first n records, and synced.
Shortened(file, n) ==
  FileSynced([file EXCEPT !.body = SubSeq(@, 1, n), !.torn = FALSE])

\* The directory after a call.
Done(disk, c) ==
  CASE c.do = "create" ->
         [disk EXCEPT !.files = [id \in DOMAIN @ \cup {c.id} |-> IF id = c.id THEN NewFile ELSE @[id]]]
    [] c.do = "write" -> [disk EXCEPT !.files[c.id].body = Append(@, c.arg)]
    [] c.do = "truncate" -> [disk EXCEPT !.files[c.id] = Shortened(@, c.arg)]
    [] c.do = "syncFile" -> [disk EXCEPT !.files[c.id] = FileSynced(@)]
    [] c.do = "syncDir" -> [disk EXCEPT !.files = DirectorySynced(@)]
    [] c.do = "unlink" -> [disk EXCEPT !.files[c.id].name = "unlinked"]
    [] c.do = "metadata" -> [disk EXCEPT !.files = DirectorySynced(@), !.metadata = c.arg]
    [] c.do = "snapshot" -> [disk EXCEPT !.files = DirectorySynced(@), !.snapshots = @ \cup {c.arg}]
    [] c.do = "removeSnapshot" -> [disk EXCEPT !.files = DirectorySynced(@), !.snapshots = @ \ {c.arg}]
    [] OTHER -> disk

----------------------------------------------------------------------------
(* Crashes. *)

\* What a file may be after a crash: an unsynced header may be missing, and
\* of the unsynced records any prefix is left, followed perhaps by a part of
\* the next one.
Survivals(file) ==
  {[name |-> "durable", header |-> h, body |-> SubSeq(file.body, 1, k), synced |-> k, torn |-> t] :
     h \in IF file.header = "written" THEN {"durable", "missing"} ELSE {file.header},
     k \in file.synced .. Len(file.body),
     t \in IF file.torn THEN {TRUE} ELSE BOOLEAN}

Survives(file) ==
  {f \in Survivals(file) : /\ f.torn /\ ~file.torn => Len(f.body) < Len(file.body)
                           /\ f.header = "missing" => f.body = <<>> /\ ~f.torn}

\* A created name or a removal the directory was not synced for is undone or
\* not, each file for itself.
Crashes(disk) ==
  LET May(id) == Survives(disk.files[id])
      Unsure == {id \in DOMAIN disk.files : disk.files[id].name # "durable"}
      Fixed(id) == Cardinality(May(id)) = 1
      Kept(ids) ==
        LET open == {id \in ids : ~Fixed(id)}
            ways == {w \in [open -> UNION {May(id) : id \in open}] : \A id \in open : w[id] \in May(id)}
        IN {[id \in ids |-> IF Fixed(id) THEN CHOOSE f \in May(id) : TRUE ELSE w[id]] : w \in ways}
  IN {[disk EXCEPT !.files = files] :
        files \in UNION {Kept(DOMAIN disk.files \ lost) : lost \in SUBSET Unsure}}
=============================================================================
