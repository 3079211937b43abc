---------------------------- MODULE HistoryCheck ----------------------------
(***************************************************************************)
(* The life of one trace in formal/history_check.py: a cluster writes      *)
(* events, extract turns them into a history, TLC searches it for a        *)
(* linearization, the witness is replayed, and a history that has one is   *)
(* mutated twice (negatives) and searched again.                           *)
(*                                                                         *)
(* The traced program is not trusted: a read may return any value, and one *)
(* event may show completions no correct program would show.               *)
(***************************************************************************)
EXTENDS RegisterHistory

CONSTANTS Context,       \* client identities in a trace
          MaxOps,        \* operations in a trace
          MaxForgedOps   \* operations in a trace that shows a forged completion

VARIABLES now,           \* sequence number of the next event
          shown,         \* reads field of the last event
          extracted,     \* what extract has built so far
          faulty,        \* the trace shows an impossible completion
          phase,         \* trace, search, linearizable, refuted, refused
          frontier,      \* orders at the depth TLC has reached
          witness,       \* the order TLC reported
          negative       \* none, or the mutation under test

vars == <<now, shown, extracted, faulty, phase, frontier, witness, negative>>

operations == extracted.operations

Init ==
  /\ now = 0 /\ shown = NothingShown /\ extracted = NothingExtracted
  /\ faulty = FALSE /\ phase = "trace"
  /\ frontier = {} /\ witness = <<>> /\ negative = "none"

----------------------------------------------------------------------------
(* The trace. *)

Event(kind, n, c, v, reads) ==
  [kind |-> kind, seq |-> now, node |-> n, context |-> c, value |-> v, reads |-> reads]

Observe(e, fault) ==
  /\ phase = "trace"
  /\ now' = now + 1
  /\ shown' = e.reads
  /\ extracted' = Extract(extracted, e)
  /\ faulty' = fault
  /\ phase' = IF extracted'.ok THEN "trace" ELSE "refused"
  /\ UNCHANGED <<frontier, witness, negative>>

Used(kind) == {c \in Context : <<kind, c>> \in Ids(operations)}

\* A client asks node n to read, or to write v, under an identity.
InvokeRead(n, c) ==
  /\ Len(operations) < MaxOps
  /\ Observe(Event("read", n, c, "", shown), c \in Used("read"))

Propose(n, c, v) ==
  /\ Len(operations) < MaxOps
  /\ v # ""
  /\ Observe(Event("propose", n, c, v,
                   [shown EXCEPT ![n].writes = Append(@, [context |-> c, completed |-> 0])]),
             c \in Used("write"))

\* Positions of the operations of one kind that node n still owes an answer.
Owed(n, kind) ==
  {i \in DOMAIN operations : /\ extracted.owners[i] = n
                             /\ operations[i].kind = kind /\ ~Done(operations[i])}

ContextOf(i) == operations[i].id[2]

\* The proposal callbacks fire while entries are applied, several at once.
Apply(n, is) ==
  /\ is # {} /\ is \subseteq Owed(n, "write")
  /\ Observe(Event("apply", n, "", "",
                   [shown EXCEPT ![n].writes =
                      [k \in DOMAIN @ |-> IF @[k].context \in {ContextOf(i) : i \in is}
                                          THEN [@[k] EXCEPT !.completed = 1] ELSE @[k]]]),
             FALSE)

\* A confirmed read returns; which value is up to the traced program.
CompleteRead(n, i, v) ==
  /\ i \in Owed(n, "read")
  /\ Observe(Event("complete_reads", n, "", "",
                   [shown EXCEPT ![n].completed =
                      Append(@, [context |-> ContextOf(i), value |-> v])]),
             FALSE)

\* Completions a correct program never shows: of an operation the node does
\* not owe, outside the callback, twice, with another result, or withdrawn.
Forged(n) ==
  {[shown[n] EXCEPT !.completed = Append(@, [context |-> c, value |-> v])] :
     c \in Context, v \in Text} \cup
  {[shown[n] EXCEPT !.completed = RemoveAt(@, k)] : k \in DOMAIN shown[n].completed} \cup
  {[shown[n] EXCEPT !.completed[k].value = v] :
     k \in DOMAIN shown[n].completed, v \in Text} \cup
  {[shown[n] EXCEPT !.writes[k].completed = d] : k \in DOMAIN shown[n].writes, d \in 0..2}

\* The only changes an event may show: new reads under complete_reads, new
\* writes under apply, each once and by the node that owes it.
Legal(kind, n, state) ==
  \/ state = shown[n]
  \/ /\ kind = "complete_reads"
     /\ \E i \in Owed(n, "read"), v \in Text :
          state = [shown[n] EXCEPT !.completed =
                     Append(@, [context |-> ContextOf(i), value |-> v])]
  \/ /\ kind = "apply"
     /\ \E i \in Owed(n, "write"), k \in DOMAIN shown[n].writes :
          /\ shown[n].writes[k].context = ContextOf(i)
          /\ state = [shown[n] EXCEPT !.writes[k].completed = 1]

Forge(kind, n, state) ==
  /\ Len(operations) <= MaxForgedOps
  /\ ~Legal(kind, n, state)
  /\ Observe(Event(kind, n, "", "", [shown EXCEPT ![n] = state]), TRUE)

----------------------------------------------------------------------------
(* check: validation, the search, the verdict and the replay. *)

End ==
  /\ phase = "trace"
  /\ phase' = IF ValidHistory(operations) THEN "search" ELSE "refused"
  /\ frontier' = {<<>>}
  /\ UNCHANGED <<now, shown, extracted, faulty, witness, negative>>

Explore ==
  /\ phase = "search"
  /\ ~\E o \in frontier : Complete(operations, o)
  /\ frontier' = UNION {Linearize(operations, o) : o \in frontier}
  /\ phase' = IF frontier' = {} THEN "refuted" ELSE "search"
  /\ UNCHANGED <<now, shown, extracted, faulty, witness, negative>>

Report(o) ==
  /\ phase = "search"
  /\ o \in frontier /\ Complete(operations, o)
  /\ witness' = o
  /\ phase' = IF VerifyWitness(operations, RawWitness(operations, o))
              THEN "linearizable" ELSE "refused"
  /\ UNCHANGED <<now, shown, extracted, faulty, frontier, negative>>

----------------------------------------------------------------------------
(* negatives: a read that returned before any write was invoked gets the   *)
(* first written value, one invoked after a write returned the initial one.*)

Writes == {i \in DOMAIN operations : operations[i].kind = "write"}

CompletedReads == {i \in DOMAIN operations : operations[i].kind = "read" /\ Done(operations[i])}

\* Mutant: before some write instead of before all.
EarlyForSome ==
  {i \in CompletedReads : \E w \in Writes : operations[i].returned < operations[w].invoked}

Early ==
  {i \in CompletedReads : \A w \in Writes : operations[i].returned < operations[w].invoked}

Late ==
  {i \in CompletedReads :
     \E w \in Writes : Done(operations[w]) /\ operations[w].returned < operations[i].invoked}

\* The first such read gets the value of the first write, or the initial one.
Mutation(name) ==
  LET target == operations[Min(IF name = "future-value" THEN Early ELSE Late)]
      value == IF name = "future-value" THEN operations[Min(Writes)].value ELSE ""
  IN [i \in DOMAIN operations |-> IF operations[i].id = target.id
                                  THEN [operations[i] EXCEPT !.result = value]
                                  ELSE operations[i]]

\* The function picks both reads before it checks either mutation.
Negate(name) ==
  /\ phase = "linearizable" /\ negative = "none"
  /\ Writes # {} /\ Early # {} /\ Late # {}
  /\ negative' = name
  /\ extracted' = [extracted EXCEPT !.operations = Mutation(name)]
  /\ phase' = IF ValidHistory(Mutation(name)) THEN "search" ELSE "refused"
  /\ frontier' = {<<>>} /\ witness' = <<>>
  /\ UNCHANGED <<now, shown, faulty>>

Next ==
  \/ \E n \in Node, c \in Context :
       InvokeRead(n, c) \/ \E v \in Text : Propose(n, c, v)
  \/ \E n \in Node : \E is \in SUBSET Owed(n, "write") : Apply(n, is)
  \/ \E n \in Node, v \in Text : \E i \in Owed(n, "read") : CompleteRead(n, i, v)
  \/ \E kind \in {"ready", "apply", "complete_reads"}, n \in Node :
       \E state \in Forged(n) : Forge(kind, n, state)
  \/ End \/ Explore
  \/ \E o \in frontier : Report(o)
  \/ \E name \in {"future-value", "stale-value"} : Negate(name)

Spec == Init /\ [][Next]_vars

----------------------------------------------------------------------------
(* Properties. *)

(***************************************************************************)
(* What linearizable means, independently of the search: some pending      *)
(* writes are added to the completed operations and all are put in an      *)
(* order that no pair violates in real time and in which every read        *)
(* returns the last value written before it.                               *)
(***************************************************************************)
LastWrite(history, order, k) ==
  {j \in 1..(k - 1) : /\ history[order[j]].kind = "write"
                      /\ \A l \in (j + 1)..(k - 1) : history[order[l]].kind # "write"}

Explains(history, order) ==
  LET op(k) == history[order[k]]
      last(k) == LastWrite(history, order, k)
  IN /\ Completed(history) \subseteq ToSet(order)
     /\ IsInjective(order)
     /\ \A k \in DOMAIN order : Done(op(k)) \/ op(k).kind = "write"
     /\ \A k, l \in DOMAIN order : k < l => ~(Done(op(l)) /\ op(l).returned < op(k).invoked)
     /\ \A k \in DOMAIN order : op(k).kind = "read" =>
          op(k).result = IF last(k) = {} THEN "" ELSE op(CHOOSE j \in last(k) : TRUE).value

PendingWrites(history) ==
  {i \in DOMAIN history : history[i].kind = "write" /\ ~Done(history[i])}

HasLinearization(history) ==
  \E extra \in SUBSET PendingWrites(history) :
    \E order \in SetToSeqs(Completed(history) \cup extra) : Explains(history, order)

\* check returns True exactly for the histories that are linearizable: the
\* search prunes by predecessors and by the register's value, stops at the
\* first complete order and takes pending writes or leaves them.
VerdictIsExact ==
  phase \in {"linearizable", "refuted"} => (phase = "linearizable") = HasLinearization(operations)

\* extract refuses a trace exactly when it repeats an identity or shows a
\* completion outside its callback, by another node, twice, with a second
\* result, of an operation never invoked, or takes one back.
ForgedTracesAreRefused == extracted.ok = ~faulty

\* replay, whose only knowledge is the history, accepts a sequence of ids
\* exactly when it linearizes the history; repeated and unknown ids included.
ReplayIsExact ==
  (phase = "search" /\ frontier = {<<>>}) =>
    LET Position(id) == CHOOSE i \in DOMAIN operations : operations[i].id = id
        orders == SeqOf(Ids(operations) \cup {<<"read", "unknown">>}, Len(operations))
    IN \A order \in orders :
         Replay(operations, order) =
           /\ ToSet(order) \subseteq Ids(operations)
           /\ Explains(operations, [k \in DOMAIN order |-> Position(order[k])])

\* Witness files that differ from the one TLC wrote in one place: another
\* final value, another selection, one state less, another operation in a
\* transition, another register value in a state.
EndValue(raw, v) ==
  LET n == Len(raw.states)
  IN [raw EXCEPT !.states[n].value = v, !.actions[n - 1].to.value = v]

Selection(raw, p, s) == [raw EXCEPT !.states[p].done = s, !.actions[p - 1].to.done = s]

CutShort(raw) == [states |-> Front(raw.states), actions |-> Front(raw.actions)]

OtherOperation(raw, p, i) == [raw EXCEPT !.actions[p].i = i]

OtherValue(raw, p, v) == [raw EXCEPT !.states[p].value = v]

Damaged(raw) ==
  LET n == Len(raw.states)
  IN {EndValue(raw, Hex[t]) : t \in Text} \cup {CutShort(raw)} \cup
     {OtherOperation(raw, p, i) : p \in DOMAIN raw.actions, i \in DOMAIN operations} \cup
     {OtherValue(raw, p, Hex[t]) : p \in 1..n, t \in Text} \cup
     {Selection(raw, p, Append(raw.states[p].done, i)) : p \in 2..n, i \in DOMAIN operations} \cup
     {Selection(raw, p, Tail(raw.states[p].done)) : p \in 2..n}

\* A damaged witness file is refused unless what it describes is itself a
\* linearization with the register values it claims.
DamagedWitnessIsRefused ==
  phase = "linearizable" =>
    \A raw \in Damaged(RawWitness(operations, witness)) :
      VerifyWitness(operations, raw) =>
        LET order == [p \in DOMAIN raw.actions |-> raw.actions[p].i]
        IN /\ Explains(operations, order)
           /\ [p \in DOMAIN raw.states |-> raw.states[p].value] = Values(operations, order)

\* Both mutations of negatives make every accepted history non-linearizable
\* and still valid input, so "Unexpectedly linearizable" is never raised.
NegativesAreRefuted == negative # "none" => phase \in {"search", "refuted"}
=============================================================================
