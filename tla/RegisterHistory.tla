-------------------------- MODULE RegisterHistory --------------------------
(***************************************************************************)
(* The register histories of formal/history_check.py: how client           *)
(* operations are extracted from a trace of a running cluster, which       *)
(* histories are accepted as input, the search for a linearization and the *)
(* replay of the witness it returns.                                       *)
(*                                                                         *)
(* A trace event is a record                                               *)
(*   [kind, seq, node, context, value, reads]                              *)
(* whose reads field shows, for every node, the reads it has completed and *)
(* the writes it has proposed so far.                                      *)
(***************************************************************************)
EXTENDS Integers, Sequences, FiniteSets, SequencesExt

CONSTANTS Node,          \* nodes of the traced cluster
          Text,          \* register values in a trace, the empty one included
          Hex,           \* trace_check.payload: the encoding of each value
          HistoryLimit   \* operations a history may hold (16 in the code)

ASSUME HexAssumption ==
  /\ DOMAIN Hex = Text /\ IsInjective(Hex)
  /\ "" \in Text /\ Hex[""] = ""

Pending == -1

Done(op) == op.returned # Pending

Ids(operations) == {op.id : op \in ToSet(operations)}

\* validate_history
ValidHistory(operations) ==
  /\ Len(operations) \in 1..HistoryLimit
  /\ Cardinality(Ids(operations)) = Len(operations)
  /\ \A op \in ToSet(operations) :
       /\ op.kind \in {"read", "write"}
       /\ Done(op) => op.returned >= op.invoked
       /\ op.kind = "read" => op.value = ""
       /\ op.kind = "write" => op.result = ""
       /\ ~Done(op) => op.result = ""
  /\ \E op \in ToSet(operations) : Done(op)

(***************************************************************************)
(* extract: one trace event.  The accumulator holds the operations in the  *)
(* order of their invocation, the node that owns each, and whether no      *)
(* requirement has failed so far.                                          *)
(***************************************************************************)
NothingExtracted == [operations |-> <<>>, owners |-> <<>>, ok |-> TRUE]

NothingShown == [n \in Node |-> [completed |-> <<>>, writes |-> <<>>]]

\* The operation an event invokes, its identity being unique in the history.
ExtractInvocation(x, e) ==
  IF e.kind \notin {"read", "propose"} THEN x
  ELSE LET kind == IF e.kind = "propose" THEN "write" ELSE "read"
           op == [id |-> <<kind, e.context>>, kind |-> kind,
                  value |-> IF kind = "write" THEN Hex[e.value] ELSE "",
                  result |-> "", invoked |-> e.seq, returned |-> Pending]
       IN [operations |-> Append(x.operations, op),
           owners |-> Append(x.owners, e.node),
           ok |-> x.ok /\ op.id \notin Ids(x.operations)]

\* What a node's state shows as returned: its reads and its completed writes.
CompletedWrites(state) == {i \in DOMAIN state.writes : state.writes[i].completed = 1}

Returns(state) ==
  {[id |-> <<"read", state.completed[i].context>>, value |-> state.completed[i].value] :
     i \in DOMAIN state.completed} \cup
  {[id |-> <<"write", state.writes[i].context>>, value |-> ""] : i \in CompletedWrites(state)}

\* No identity is shown as returned twice.
ReturnsOnce(state) ==
  /\ \A i, j \in DOMAIN state.completed :
       state.completed[i].context = state.completed[j].context => i = j
  /\ \A i, j \in CompletedWrites(state) :
       state.writes[i].context = state.writes[j].context => i = j

Callback(kind) == IF kind = "write" THEN "apply" ELSE "complete_reads"

\* Mutant: a completion may disappear again.
ForgetfulReturns(x, e, n) ==
  LET returns == Returns(e.reads[n])
  IN /\ \A w \in ToSet(e.reads[n].writes) : w.completed \in {0, 1}
     /\ ReturnsOnce(e.reads[n])
     /\ \A r \in returns : \E i \in DOMAIN x.operations :
          /\ x.operations[i].id = r.id /\ x.owners[i] = n
          /\ IF Done(x.operations[i]) THEN x.operations[i].result = Hex[r.value]
             ELSE e.kind = Callback(x.operations[i].kind)

\* The requirements on what node n shows after event e.
PlausibleReturns(x, e, n) ==
  LET returns == Returns(e.reads[n])
      shown == {r.id : r \in returns}
  IN /\ \A w \in ToSet(e.reads[n].writes) : w.completed \in {0, 1}
     /\ ReturnsOnce(e.reads[n])
     /\ \A r \in returns : \E i \in DOMAIN x.operations :
          /\ x.operations[i].id = r.id /\ x.owners[i] = n
          /\ IF Done(x.operations[i]) THEN x.operations[i].result = Hex[r.value]
             ELSE e.kind = Callback(x.operations[i].kind)
     /\ \A i \in DOMAIN x.operations :
          x.owners[i] = n /\ Done(x.operations[i]) => x.operations[i].id \in shown

\* The operations whose return event e shows first.
ExtractReturns(x, e) ==
  LET Shows(i, r) == r.id = x.operations[i].id
  IN [x EXCEPT
       !.operations =
         [i \in DOMAIN @ |->
            LET returns == {r \in Returns(e.reads[x.owners[i]]) : Shows(i, r)}
            IN IF Done(@[i]) \/ returns = {} THEN @[i]
               ELSE [@[i] EXCEPT !.returned = e.seq,
                                 !.result = Hex[(CHOOSE r \in returns : TRUE).value]]],
       !.ok = @ /\ \A n \in Node : PlausibleReturns(x, e, n)]

Extract(x, e) == ExtractReturns(ExtractInvocation(x, e), e)

(***************************************************************************)
(* The search TLC performs on models/RaftzRegisterHistory.tla, level by    *)
(* level: an order of operation indices is extended by an operation whose  *)
(* real-time predecessors are all in it and, if it is a read, whose result *)
(* is the register's value.                                                *)
(***************************************************************************)
Completed(operations) == {i \in DOMAIN operations : Done(operations[i])}

\* Mutant: a pending write never takes effect.
CandidatesCompleted(operations) == Completed(operations)

Candidates(operations) ==
  Completed(operations) \cup {i \in DOMAIN operations : operations[i].kind = "write"}

Predecessors(operations, i) ==
  {j \in Completed(operations) : operations[j].returned < operations[i].invoked}

\* The register before the first and after each of a sequence of operations.
RegisterValues(done) ==
  LET value[k \in 1..(Len(done) + 1)] ==
        IF k = 1 THEN ""
        ELSE IF done[k - 1].kind = "write" THEN done[k - 1].value ELSE value[k - 1]
  IN value

Values(operations, order) == RegisterValues([k \in DOMAIN order |-> operations[order[k]]])

Linearize(operations, order) ==
  {Append(order, i) : i \in
     {j \in Candidates(operations) \ ToSet(order) :
        /\ Predecessors(operations, j) \subseteq ToSet(order)
        /\ \/ operations[j].kind = "write"
           \/ operations[j].result = Last(Values(operations, order))}}

\* NoLinearization is violated: every completed operation is in the order.
Complete(operations, order) == Completed(operations) \subseteq ToSet(order)

\* The states TLC visits up to and including a depth.
Reached(operations, depth) ==
  FoldLeft(LAMBDA seen, k : seen \cup UNION {Linearize(operations, o) : o \in seen},
           {<<>>}, [k \in 1..depth |-> k])

Linearizations(operations) ==
  {o \in Reached(operations, Len(operations)) : Complete(operations, o)}

(***************************************************************************)
(* replay: the witness, as a sequence of operation ids, checked again      *)
(* without TLC.                                                            *)
(***************************************************************************)
ById(operations, id) == CHOOSE op \in ToSet(operations) : op.id = id

ReplayedValues(operations, order) ==
  RegisterValues([k \in DOMAIN order |-> ById(operations, order[k])])

\* Mutant: the replay forgets real time.
ReplayStepUntimed(operations, order, k) ==
  LET op == ById(operations, order[k])
  IN /\ order[k] \in Ids(operations) \ {order[j] : j \in 1..(k - 1)}
     /\ Done(op) \/ op.kind = "write"
     /\ op.kind = "read" =>
          op.result = ReplayedValues(operations, SubSeq(order, 1, k - 1))[k]

ReplayStep(operations, order, k) ==
  LET op == ById(operations, order[k])
      earlier == {order[j] : j \in 1..(k - 1)}
  IN /\ order[k] \in Ids(operations) \ earlier
     /\ Done(op) \/ op.kind = "write"
     /\ \A other \in ToSet(operations) :
          Done(other) /\ other.returned < op.invoked => other.id \in earlier
     /\ op.kind = "read" =>
          op.result = ReplayedValues(operations, SubSeq(order, 1, k - 1))[k]

Replay(operations, order) ==
  /\ ValidHistory(operations)
  /\ Len(order) <= Len(operations)
  /\ ToSet(order) \subseteq Ids(operations)
  /\ \A k \in DOMAIN order : ReplayStep(operations, order, k)
  /\ \A op \in ToSet(operations) : Done(op) => op.id \in ToSet(order)

(***************************************************************************)
(* verify_witness: the counterexample TLC dumps is a sequence of numbered  *)
(* states [num, done, value] and the transitions [from, i, name, to]       *)
(* between them; done lists operation indices.                             *)
(***************************************************************************)
RawWitness(operations, order) ==
  LET values == Values(operations, order)
      states == [p \in 1..(Len(order) + 1) |->
                   [num |-> p, done |-> SubSeq(order, 1, p - 1), value |-> values[p]]]
  IN [states |-> states,
      actions |-> [p \in DOMAIN order |-> [from |-> states[p], i |-> order[p],
                                           name |-> "Linearize", to |-> states[p + 1]]]]

Added(raw, p) == ToSet(raw.states[p].done) \ ToSet(raw.states[p - 1].done)

WitnessShape(operations, raw) ==
  /\ Len(raw.states) \in 2..(Len(operations) + 1)
  /\ Len(raw.actions) = Len(raw.states) - 1
  /\ \A p \in DOMAIN raw.states :
       /\ raw.states[p].num = p
       /\ ToSet(raw.states[p].done) \subseteq DOMAIN operations
       /\ Cardinality(ToSet(raw.states[p].done)) = Len(raw.states[p].done)
  /\ raw.states[1].done = <<>> /\ raw.states[1].value = ""

WitnessEdge(raw, p) ==
  LET edge == raw.actions[p - 1]
  IN /\ ToSet(raw.states[p - 1].done) \subseteq ToSet(raw.states[p].done)
     /\ Cardinality(Added(raw, p)) = 1
     /\ edge.from = raw.states[p - 1] /\ edge.to = raw.states[p]
     /\ edge.name = "Linearize" /\ edge.i \in Added(raw, p)

WitnessOrder(operations, raw) ==
  [p \in 1..(Len(raw.states) - 1) |->
     operations[CHOOSE i \in Added(raw, p + 1) : TRUE].id]

\* Mutant: the register values in the witness are not compared.
VerifyWitnessOrder(operations, raw) ==
  /\ WitnessShape(operations, raw)
  /\ \A p \in 2..Len(raw.states) : WitnessEdge(raw, p)
  /\ Replay(operations, WitnessOrder(operations, raw))

VerifyWitness(operations, raw) ==
  /\ WitnessShape(operations, raw)
  /\ \A p \in 2..Len(raw.states) : WitnessEdge(raw, p)
  /\ Replay(operations, WitnessOrder(operations, raw))
  /\ [p \in DOMAIN raw.states |-> raw.states[p].value]
       = ReplayedValues(operations, WitnessOrder(operations, raw))
=============================================================================
