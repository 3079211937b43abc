----------------------------- MODULE TraceFile -----------------------------
(***************************************************************************)
(* The trace files of formal/trace_check.py and formal/read_trace_check.py *)
(* as the loaders see them: a header row, numbered event rows and a        *)
(* terminal row that repeats their number.  A row is [kind, n], n being    *)
(* the version of a header, the sequence number of an event or the count   *)
(* of a terminal row; a file may end in the middle of its last row.  What  *)
(* an event says about nodes and messages is abstracted.                   *)
(***************************************************************************)
EXTENDS Integers, Sequences, FiniteSets, SequencesExt

CONSTANT RowLimit   \* rows a trace may have (1002 in the code)

Events == {"init", "campaign", "propose", "beat", "receive", "ready", "persist",
           "advance", "release", "restart", "drop", "duplicate", "end"}

ReadEvents == {"read", "read_ready", "apply", "complete_reads"}

CoreVersion == 1
ContextVersion == 2
ReadVersion == 4

Kinds(rows) == {r.kind : r \in ToSet(rows)}

EventRows(file) == SubSeq(file.rows, 2, Len(file.rows) - 1)

\* write_events: events are numbered afresh, so a moved or a deleted one
\* leaves no gap.
WriteEvents(version, kinds) ==
  [rows |-> <<[kind |-> "header", n |-> version]>> \o
            [i \in DOMAIN kinds |-> [kind |-> kinds[i], n |-> i - 1]] \o
            <<[kind |-> "terminal", n |-> Len(kinds)]>>,
   torn |-> FALSE]

\* What both loaders require of the rows before they look into the events.
Framed(file, versions) ==
  LET rows == file.rows
      events == EventRows(file)
  IN /\ rows # <<>> /\ ~file.torn
     /\ Len(rows) \in 4..RowLimit
     /\ rows[1].kind = "header" /\ rows[1].n \in versions
     /\ Last(rows) = [kind |-> "terminal", n |-> Len(events)]
     /\ \A i \in DOMAIN events :
          /\ events[i].n = i - 1
          /\ (events[i].kind = "init") = (i = 1)
          /\ (events[i].kind = "end") = (i = Len(events))

\* Mutant: unknown events are let through.
LoadAnyKind(file) ==
  /\ Framed(file, {CoreVersion, ContextVersion})
  /\ {"campaign", "propose"} \subseteq Kinds(EventRows(file))

\* trace_check.load
Load(file) ==
  /\ Framed(file, {CoreVersion, ContextVersion})
  /\ Kinds(EventRows(file)) \subseteq Events
  /\ {"campaign", "propose"} \subseteq Kinds(EventRows(file))

\* read_trace_check.load
LoadRead(file) ==
  /\ Framed(file, {ReadVersion})
  /\ Kinds(EventRows(file)) \subseteq (Events \cup ReadEvents) \ {"restart"}
  /\ {"read", "complete_reads"} \subseteq Kinds(EventRows(file))

\* project: to the consensus model a read is a heartbeat round and the other
\* read events show an unchanged node.
ProjectKind(kind) ==
  IF kind \notin ReadEvents THEN kind
  ELSE IF kind = "read" THEN "beat" ELSE "ready"

Project(file) ==
  WriteEvents(ContextVersion, [i \in DOMAIN EventRows(file) |-> ProjectKind(EventRows(file)[i].kind)])

(***************************************************************************)
(* trace_check.negatives: the nine semantic mutations keep the file well   *)
(* formed (three of them move or delete an event, the others only change   *)
(* what an event says), the five structural ones do not.                   *)
(***************************************************************************)
SemanticMutations ==
  <<"term", "vote", "committed-payload", "committed-identity", "durable-payload",
    "release-before-persist", "ack-before-persist", "missing-operation", "message-causality">>

StructuralMutations == <<"empty", "truncated-line", "missing-terminal", "unsupported", "suffix">>

FirstOf(kinds, kind, after) ==
  LET at == {i \in DOMAIN kinds : i > after /\ kinds[i] = kind}
  IN IF at = {} THEN 0 ELSE CHOOSE i \in at : \A j \in at : i <= j

\* The first wanted event after a persist moves in front of it.
MoveBefore(kinds, start, end) ==
  InsertAt(RemoveAt(kinds, end), start, kinds[end])

\* The results a mutation may have; none when the trace lacks the events it
\* needs and the script ends with a StopIteration.  Which persist makes a
\* leader's log durable, and how many entries the logs of the last event
\* have (the payload mutations need three), is not in the model.
Mutated(name, kinds) ==
  LET persists == {i \in DOMAIN kinds : kinds[i] = "persist"}
      Moves(starts, wanted) ==
        {MoveBefore(kinds, s, FirstOf(kinds, wanted, s)) :
           s \in {t \in starts : FirstOf(kinds, wanted, t) # 0}}
      operation == FirstOf(kinds, "propose", 0)
  IN CASE name = "release-before-persist" ->
            Moves(persists \cap {FirstOf(kinds, "persist", 0)}, "release")
       [] name = "ack-before-persist" -> Moves(persists, "advance")
       [] name = "missing-operation" ->
            IF operation = 0 THEN {} ELSE {RemoveAt(kinds, operation)}
       [] name = "message-causality" ->
            IF FirstOf(kinds, "receive", 0) = 0 THEN {} ELSE {kinds}
       [] OTHER -> {kinds}

Malformed(name, file) ==
  LET kinds == [i \in DOMAIN EventRows(file) |-> EventRows(file)[i].kind]
  IN CASE name = "empty" -> [rows |-> <<>>, torn |-> FALSE]
       [] name = "truncated-line" -> [file EXCEPT !.torn = TRUE]
       [] name = "missing-terminal" -> [file EXCEPT !.rows = Front(@)]
       [] name = "unsupported" ->
            WriteEvents(file.rows[1].n, [kinds EXCEPT ![FirstOf(kinds, "campaign", 0)] = "transfer"])
       [] name = "suffix" -> [file EXCEPT !.rows = Append(@, [kind |-> "none", n |-> 0])]
=============================================================================
