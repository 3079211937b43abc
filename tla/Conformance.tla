---------------------------- MODULE Conformance ----------------------------
(***************************************************************************)
(* The conformance scripts of formal/: check.py, trace_check.py,           *)
(* read_trace_check.py, read_index_check.py and history_check.py.  An      *)
(* invocation is a list of jobs; a job is a pipeline of stages, most of    *)
(* which run TLC as a subprocess and read a verdict off its exit code and  *)
(* its log, and an expectation: that a trace is accepted, that a mutated   *)
(* one is rejected by the model, that a broken file is not even loaded.    *)
(* The jars TLC runs from are a cache that another invocation may be       *)
(* filling (check.py prepare).                                             *)
(***************************************************************************)
EXTENDS TraceFile, TlcProcess, RegisterHistory

CONSTANTS Tool,          \* jars of tools.lock.json
          Traces,        \* event kinds of the traces given to the scripts
          Shell,         \* shells in which check.py prepare runs
          Concurrent     \* scripts beside which they do

VARIABLES script,        \* the invocation
          todo,          \* its jobs that are not finished
          pc,            \* stages of the first one that are not finished
          verdict,       \* how that job ended, or none
          input,         \* the trace file of the command line
          file,          \* the trace file of the job
          history,       \* the register history of the job
          checked,       \* jars whose digest classpath has compared
          tlc,           \* the subprocess
          facts,         \* what the job's TLC runs were really about
          earned,        \* every finished job met its expectation in truth
          exit,          \* exit status, or running
          cache,         \* content of each jar
          fetch          \* the concurrent prepares

scriptVars == <<script, todo, pc, verdict, input, file, history, checked, facts, earned, exit>>
vars == <<scriptVars, tlc, cache, fetch>>

----------------------------------------------------------------------------
(* Jobs and scripts. *)

Job(pipe, want, name) == [pipe |-> pipe, want |-> want, name |-> name]

\* trace_check.validate, read_trace_check.validate, history_check.check
CorePipe == <<"load", "instructions", "classpath", "consensus">>
ReadPipe == <<"load_read", "classpath", "load_projection", "instructions", "classpath",
              "consensus", "read", "extract", "validate_history", "classpath", "history">>
HistoryPipe == <<"validate_history", "classpath", "history">>

TlcStages == {"model", "simulate", "profile", "consensus", "read", "history"}

Each(pipe, want, names) == [i \in DOMAIN names |-> Job(pipe, want, names[i])]

\* read_index_check.PROFILES: the invariant a weakened model must violate.
Profiles == <<"single", "safe", "no-current-term", "no-quorum", "no-apply",
              "completion-witness", "batch-witness">>

Expected(profile) ==
  CASE profile \in {"single", "safe"} -> NoInvariant
    [] profile \in {"no-current-term", "no-quorum"} -> "ReadIndexSafety"
    [] profile = "no-apply" -> "AppliedBarrier"
    [] profile = "completion-witness" -> "NoCompletedRead"
    [] profile = "batch-witness" -> "NoBatchedRelease"

ReadMutations ==
  <<"premature-ready", "forged-ack", "wrong-context", "wrong-index", "early-callback",
    "duplicate-callback", "apply-ahead", "heartbeat-commit", "wrong-register",
    "wrong-read-value", "early-write-callback">>
IdentityMutations ==
  <<"proposal-id-substitution", "wrong-write-callback", "duplicate-write-callback",
    "log-context-substitution">>
StaleMutations == <<"stale-ack", "revived-read", "unconfirmed-callback">>

\* history_check.regressions: histories with their verdict.
Op(name, kind, invoked, returned, value, result) ==
  [id |-> <<kind, name>>, kind |-> kind, invoked |-> invoked, returned |-> returned,
   value |-> value, result |-> result]

Cases ==
  [initial_read |-> <<Op("r", "read", 0, 1, "", "")>>,
   overlapping_orders |-> <<Op("a", "write", 0, 5, "A", ""), Op("b", "write", 1, 5, "B", ""),
                            Op("ra", "read", 2, 3, "", "A"), Op("rb", "read", 6, 7, "", "B")>>,
   pending_write |-> <<Op("w", "write", 0, Pending, "A", ""), Op("r", "read", 1, 2, "", "A")>>,
   future_pending_write |-> <<Op("r", "read", 0, 1, "", "A"), Op("w", "write", 2, Pending, "A", "")>>,
   unwritten_value |-> <<Op("r", "read", 0, 1, "", "ghost")>>,
   stale_read |-> <<Op("w", "write", 0, 1, "A", ""), Op("r", "read", 2, 3, "", "")>>,
   repeated_values |-> <<Op("a", "write", 0, 1, "A", ""), Op("b", "write", 2, 3, "A", ""),
                         Op("r", "read", 4, 5, "", "A")>>,
   pending_read |-> <<Op("w", "write", 0, 1, "A", ""), Op("r", "read", 2, Pending, "", "")>>]

Regressions ==
  <<Job(HistoryPipe, "linearizable", "initial_read"),
    Job(HistoryPipe, "linearizable", "overlapping_orders"),
    Job(HistoryPipe, "linearizable", "pending_write"),
    Job(HistoryPipe, "refuted", "future_pending_write"),
    Job(HistoryPipe, "refuted", "unwritten_value"),
    Job(HistoryPipe, "refuted", "stale_read"),
    Job(HistoryPipe, "linearizable", "repeated_values"),
    Job(HistoryPipe, "linearizable", "pending_read")>>

ValidateCore == <<Job(CorePipe, "accept", "trace")>>
ValidateRead == <<Job(ReadPipe, "accept", "trace")>>

\* The main functions.
Jobs ==
  [verify |-> <<>>,
   single |-> <<Job(<<"classpath", "model">>, "accept", "single")>>,
   smoke |-> <<Job(<<"classpath", "model">>, "accept", "single"),
               Job(<<"classpath", "simulate">>, "accept", "smoke")>>,
   model |-> <<Job(<<"classpath", "model">>, "accept", "model")>>,
   read_index |-> Each(<<"classpath", "profile">>, "accept", Profiles),
   trace |-> ValidateCore,
   trace_negatives |-> ValidateCore \o Each(CorePipe, "reject", SemanticMutations)
                         \o Each(<<"load">>, "malformed", StructuralMutations),
   read_trace |-> ValidateRead,
   read_negatives |-> ValidateRead \o Each(ReadPipe, "reject", ReadMutations)
                        \o Each(HistoryPipe, "refuted", <<"future-value", "stale-value">>)
                        \o Regressions,
   read_identity |-> ValidateRead \o Each(ReadPipe, "reject", IdentityMutations),
   read_stale |-> ValidateRead \o Each(ReadPipe, "reject", StaleMutations),
   history |-> <<Job(HistoryPipe, "linearizable", "input")>>]


\* A history nobody completed anything in is not accepted as input.
Histories == {Cases[c] : c \in DOMAIN Cases} \cup {<<Op("w", "write", 0, Pending, "A", "")>>}

----------------------------------------------------------------------------
(* Verdicts on an exit code and a log. *)

Printed(tag) == Line(tag) \in ToSet(tlc.log)
Violations == {l \in ToSet(tlc.log) : l[1] = "violated"}
Violated(invariant) == Violations = {<<"violated", invariant>>}

\* check.check
CheckVerdict(stage) ==
  IF /\ tlc.code = 0
     /\ IF stage = "simulate" THEN Printed("traces") /\ Printed("seed") ELSE Printed("finished")
  THEN "ok" ELSE "RuntimeError"

\* read_index_check.validate_result
ProfileVerdict(profile) ==
  IF IF Expected(profile) # NoInvariant
     THEN /\ tlc.code = 12 /\ Violated(Expected(profile))
          /\ Printed("behavior") /\ Printed("state2")
     ELSE /\ tlc.code = 0 /\ Violations = {}
          /\ Printed("finished") /\ Printed("queue_empty") /\ Printed("several_states")
  THEN "ok" ELSE "RuntimeError"

\* Mutant: the marker alone counts as completion.
MarkerSeen == Printed("marker")

\* trace_check.completed
CompletedTrace ==
  tlc.code = 0 /\ Printed("marker") /\ Printed("finished") /\ Printed("queue_empty")

\* Mutant: every failing run rejects the trace.
FailureRejects ==
  IF CompletedTrace THEN "ok" ELSE IF tlc.code # 0 THEN "ConformanceError" ELSE "RuntimeError"

\* trace_check.validate: a rejection must come from the model.
ConsensusVerdict ==
  IF CompletedTrace THEN "ok"
  ELSE IF tlc.code # 0 /\ (Printed("deadlock") \/ Violations # {})
       THEN "ConformanceError" ELSE "RuntimeError"

\* read_trace_check.validate
ReadVerdict ==
  IF CompletedTrace THEN "ok"
  ELSE IF \/ tlc.code = 11 /\ Printed("deadlock")
          \/ tlc.code = 12 /\ Violated("ReadBarrierInv")
       THEN "ConformanceError" ELSE "RuntimeError"

\* history_check.verdict
HistoryVerdict ==
  CASE /\ tlc.code = 12 /\ Violated("NoLinearization") /\ Printed("marker")
       /\ Printed("behavior") /\ Printed("state2") -> "linearizable"
    [] /\ tlc.code = 0 /\ Violations = {} /\ Printed("finished")
       /\ ~Printed("marker") /\ Printed("queue_empty") -> "refuted"
    [] OTHER -> "RuntimeError"

\* witness_negatives: whether a mutation of the witness is accepted.
AcceptsMutation(order) ==
  LET raw == RawWitness(history, order)
      n == Len(raw.states)
      ids == [k \in DOMAIN order |-> history[order[k]].id]
  IN \/ VerifyWitness(history, [raw EXCEPT !.states[n].value = "unwritten",
                                           !.actions[n - 1].to.value = "unwritten"])
     \/ VerifyWitness(history, [states |-> Front(raw.states), actions |-> Front(raw.actions)])
     \/ Replay(history, Reverse(ids))
     \/ Replay(history, Append(Front(ids), ids[1]))

----------------------------------------------------------------------------
(* The steps of a script. *)

NoTlc == [state |-> "none", truth |-> Truth("holds", NoInvariant, FALSE),
          log |-> <<>>, rest |-> <<>>, code |-> 0]

\* The trace files a script may be given; the others take none.
Inputs(name) ==
  LET versions == CASE name \in {"trace", "trace_negatives"} -> {ContextVersion, ReadVersion}
                    [] name \in {"read_trace", "read_negatives", "read_identity", "read_stale"} ->
                         {ReadVersion}
                    [] OTHER -> {}
      files == {WriteEvents(v, t) : v \in versions, t \in Traces}
  IN IF versions = {} THEN {[rows |-> <<>>, torn |-> FALSE]}
     ELSE files \cup {Malformed(m, f) : m \in ToSet(StructuralMutations), f \in files}

Init ==
  /\ script \in DOMAIN Jobs
  /\ todo = Jobs[script] /\ pc = <<>> /\ verdict = "none"
  /\ input \in Inputs(script) /\ file = input
  /\ history = <<>> /\ checked = {} /\ tlc = NoTlc
  /\ facts = {} /\ earned = TRUE /\ exit = "starting"
  /\ cache \in [Tool -> {"absent", "other", "pinned"}]
  /\ fetch = [p \in Shell |-> [state |-> "idle", todo |-> Tool, temp |-> "none"]]

\* Every main function but that of history_check compares the vendored
\* specifications with their manifest first.
VerifyUpstream(pristine) ==
  /\ exit = "starting"
  /\ exit' = IF script = "history" \/ pristine THEN "running" ELSE "failed"
  /\ UNCHANGED <<script, todo, pc, verdict, input, file, history, checked, facts, earned,
                 tlc, cache, fetch>>

CurrentJob == Head(todo)

\* The files a job may work on; none when a mutation does not apply.
JobFiles ==
  LET kinds == [i \in DOMAIN EventRows(input) |-> EventRows(input)[i].kind]
  IN CASE CurrentJob.want = "malformed" -> {Malformed(CurrentJob.name, input)}
       [] CurrentJob.want = "reject" /\ CurrentJob.pipe = CorePipe ->
            {WriteEvents(input.rows[1].n, k) : k \in Mutated(CurrentJob.name, kinds)}
       [] OTHER -> {input}

JobHistories ==
  IF CurrentJob.name \in DOMAIN Cases THEN {Cases[CurrentJob.name]}
  ELSE IF CurrentJob.pipe = HistoryPipe THEN Histories ELSE {<<>>}

BeginJob ==
  /\ exit = "running" /\ todo # <<>> /\ pc = <<>> /\ verdict = "none"
  /\ IF JobFiles = {} THEN /\ exit' = "failed"
                           /\ UNCHANGED <<pc, file, history>>
     ELSE /\ file' \in JobFiles /\ history' \in JobHistories
          /\ pc' = CurrentJob.pipe /\ exit' = exit
  /\ facts' = {} /\ checked' = {}
  /\ UNCHANGED <<script, todo, verdict, input, earned, tlc, cache, fetch>>

\* The stage succeeded; the last one makes the job return.
Pass == /\ pc' = Tail(pc)
        /\ verdict' = IF Len(pc) = 1 THEN "returned" ELSE "none"

\* The stage ended the job: with an exception, or with a history verdict.
Stop(v) == pc' = <<>> /\ verdict' = v

AtStage(stages) ==
  exit = "running" /\ pc # <<>> /\ tlc.state = "none" /\ Head(pc) \in stages

LoadStage ==
  /\ AtStage({"load", "load_read", "load_projection"})
  /\ IF CASE Head(pc) = "load" -> Load(file)
          [] Head(pc) = "load_read" -> LoadRead(file)
          [] Head(pc) = "load_projection" -> Load(Project(file))
     THEN Pass ELSE Stop("Malformed")
  /\ UNCHANGED <<script, todo, input, file, history, checked, facts, earned, exit, tlc, cache, fetch>>

\* instructions and extract may find a trace they cannot translate.
Translate ==
  /\ AtStage({"instructions", "extract"})
  /\ \/ Stop("ValueError") /\ UNCHANGED history
     \/ Pass /\ IF Head(pc) = "extract" THEN history' \in Histories ELSE UNCHANGED history
  /\ UNCHANGED <<script, todo, input, file, checked, facts, earned, exit, tlc, cache, fetch>>

ValidateHistory ==
  /\ AtStage({"validate_history"})
  /\ IF ValidHistory(history) THEN Pass ELSE Stop("ValueError")
  /\ UNCHANGED <<script, todo, input, file, history, checked, facts, earned, exit, tlc, cache, fetch>>

\* check.classpath compares the digest of one jar after the other.
Classpath(t) ==
  /\ AtStage({"classpath"})
  /\ t \in Tool \ checked
  /\ IF cache[t] # "pinned" THEN Stop("RuntimeError") /\ checked' = {}
     ELSE IF checked \cup {t} = Tool THEN Pass /\ checked' = {}
     ELSE checked' = checked \cup {t} /\ UNCHANGED <<pc, verdict>>
  /\ UNCHANGED <<script, todo, input, file, history, facts, earned, exit, tlc, cache, fetch>>

\* What the model TLC is started on may really be.
Truths(stage) ==
  LET Unmarked(r) == Truth(r, NoInvariant, FALSE)
  IN {Unmarked("broken")} \cup
     CASE stage \in {"model", "simulate"} ->
            {Unmarked("holds"), Unmarked("deadlock"), Truth("violated", "LogInv", FALSE)}
       [] stage = "profile" ->
            {Unmarked("holds"), Unmarked("trivial")} \cup
            {Truth("violated", i, FALSE) : i \in {Expected(p) : p \in ToSet(Profiles)} \ {NoInvariant}}
       [] stage = "consensus" ->
            {Truth("holds", NoInvariant, TRUE), Unmarked("deadlock")} \cup
            {Truth("violated", "LogInv", m) : m \in BOOLEAN}
       [] stage = "read" ->
            {Truth("holds", NoInvariant, TRUE), Unmarked("deadlock")} \cup
            {Truth("violated", "ReadBarrierInv", m) : m \in BOOLEAN}
       [] stage = "history" ->
            IF Linearizations(history) # {} THEN {Truth("violated", "NoLinearization", TRUE)}
            ELSE {Unmarked("holds")}

Launch ==
  /\ AtStage(TlcStages)
  /\ \E truth \in Truths(Head(pc)) :
       tlc' = [state |-> "running", truth |-> truth, log |-> <<>>,
               rest |-> FullLog(truth, Head(pc) = "simulate"), code |-> 0]
  /\ UNCHANGED <<scriptVars, cache, fetch>>

\* TLC's own steps: it prints, it exits, it is killed.
Emit ==
  /\ tlc.state = "running" /\ tlc.rest # <<>>
  /\ tlc' = [tlc EXCEPT !.log = Append(@, Head(tlc.rest)), !.rest = Tail(@)]
  /\ UNCHANGED <<scriptVars, cache, fetch>>

Exit ==
  /\ tlc.state = "running" /\ tlc.rest = <<>>
  /\ tlc' = [tlc EXCEPT !.state = "exited", !.code = ExitCode(tlc.truth)]
  /\ UNCHANGED <<scriptVars, cache, fetch>>

Kill ==
  /\ tlc.state = "running"
  /\ tlc' = [tlc EXCEPT !.state = "exited", !.code = Killed]
  /\ UNCHANGED <<scriptVars, cache, fetch>>

\* Mutant: the timeout is not passed on.
NeverExpire == FALSE /\ UNCHANGED vars

\* subprocess.run kills a child that outlives the timeout and raises.
Expire ==
  /\ tlc.state = "running"
  /\ tlc' = NoTlc
  /\ Stop("RuntimeError")
  /\ UNCHANGED <<script, todo, input, file, history, checked, facts, earned, exit, cache, fetch>>

\* TLC dumps a trace (witness.raw.json) exactly when it prints one.
WitnessExists == Printed("behavior")

\* The verdict of a history, after its witness was verified; a refuted one
\* must not have any.
HistoryStop(v) ==
  IF v = "linearizable"
  THEN \E order \in Linearizations(history) :
         IF ~VerifyWitness(history, RawWitness(history, order)) THEN Stop("ValueError")
         ELSE IF CurrentJob.pipe = ReadPipe THEN Pass
         ELSE IF CurrentJob.name = "overlapping_orders" /\ AcceptsMutation(order)
              THEN Stop("AcceptedMutation") ELSE Stop("linearizable")
  ELSE IF v = "refuted" /\ WitnessExists THEN Stop("ValueError")
  ELSE Stop(IF v = "refuted" /\ CurrentJob.pipe = ReadPipe THEN "ConformanceError" ELSE v)

Judge ==
  /\ tlc.state = "exited"
  /\ LET stage == Head(pc)
         v == CASE stage \in {"model", "simulate"} -> CheckVerdict(stage)
                [] stage = "profile" -> ProfileVerdict(CurrentJob.name)
                [] stage = "consensus" -> ConsensusVerdict
                [] stage = "read" -> ReadVerdict
                [] stage = "history" -> HistoryVerdict
     IN IF stage = "history" THEN HistoryStop(v) ELSE IF v = "ok" THEN Pass ELSE Stop(v)
  /\ facts' = facts \cup {[stage |-> Head(pc), result |-> tlc.truth.result,
                           invariant |-> tlc.truth.invariant]}
  /\ tlc' = NoTlc
  /\ UNCHANGED <<script, todo, input, file, history, checked, earned, exit, cache, fetch>>

\* What a job raised or returned against what its caller expects.
Meets(job, v) ==
  v = CASE job.want = "accept" -> "returned"
        [] job.want = "reject" -> "ConformanceError"
        [] job.want = "malformed" -> "Malformed"
        [] OTHER -> job.want

(***************************************************************************)
(* Whether the job deserved it, judged by what TLC was really run on: an   *)
(* accepted trace needs every stage of its pipeline to hold, a rejected    *)
(* one a stage whose model really refuses it.                              *)
(***************************************************************************)
Supports(f, job) ==
  CASE f.stage = "profile" -> IF Expected(job.name) = NoInvariant THEN f.result = "holds"
                              ELSE f.invariant = Expected(job.name)
    [] f.stage = "history" -> f.result = "violated"
    [] OTHER -> f.result = "holds"

Rejects(f) ==
  IF f.stage = "history" THEN f.result = "holds" ELSE f.result \in {"violated", "deadlock"}

Deserved(job) ==
  CASE job.want = "accept" ->
         /\ ToSet(job.pipe) \cap TlcStages = {f.stage : f \in facts}
         /\ \A f \in facts : Supports(f, job)
    [] job.want = "reject" -> \E f \in facts : Rejects(f)
    [] job.want = "malformed" -> ~Load(file)
    [] job.want = "linearizable" -> Linearizations(history) # {}
    [] job.want = "refuted" -> Linearizations(history) = {}

FinishJob ==
  /\ exit = "running" /\ verdict # "none"
  /\ exit' = IF Meets(CurrentJob, verdict) THEN exit ELSE "failed"
  /\ earned' = (earned /\ Deserved(CurrentJob))
  /\ todo' = Tail(todo) /\ verdict' = "none" /\ facts' = {}
  /\ UNCHANGED <<script, pc, input, file, history, checked, tlc, cache, fetch>>

Succeed ==
  /\ exit = "running" /\ todo = <<>>
  /\ exit' = "passed"
  /\ UNCHANGED <<script, todo, pc, verdict, input, file, history, checked, facts, earned,
                 tlc, cache, fetch>>

Script == \/ \E pristine \in BOOLEAN : VerifyUpstream(pristine)
          \/ BeginJob \/ LoadStage \/ Translate \/ ValidateHistory
          \/ \E t \in Tool : Classpath(t)
          \/ Launch \/ Judge \/ FinishJob \/ Succeed

----------------------------------------------------------------------------
(* check.prepare in other shells: each jar that is missing or changed is   *)
(* downloaded to a temporary directory, compared with its pinned digest    *)
(* and moved over the cached one; a shell may be closed at any moment.     *)

FetchOnly == UNCHANGED <<scriptVars, tlc>>

FetchStart(p) ==
  /\ script \in Concurrent /\ fetch[p].state = "idle"
  /\ fetch' = [fetch EXCEPT ![p].state = "look"]
  /\ UNCHANGED cache /\ FetchOnly

FetchLook(p, t) ==
  /\ fetch[p].state = "look" /\ t \in fetch[p].todo
  /\ fetch' = IF cache[t] = "pinned" THEN [fetch EXCEPT ![p].todo = @ \ {t}]
              ELSE [fetch EXCEPT ![p].state = t, ![p].temp = "partial"]
  /\ UNCHANGED cache /\ FetchOnly

FetchDownload(p, content) ==
  /\ fetch[p].temp = "partial"
  /\ fetch' = [fetch EXCEPT ![p].temp = content]
  /\ UNCHANGED cache /\ FetchOnly

\* Mutant: a download is moved into place before its digest is compared.
FetchReplaceUnchecked(p, t) ==
  /\ fetch[p].state = t /\ fetch[p].temp \in {"pinned", "other"}
  /\ cache' = [cache EXCEPT ![t] = fetch[p].temp]
  /\ fetch' = [fetch EXCEPT ![p] = [state |-> "look", todo |-> fetch[p].todo \ {t}, temp |-> "none"]]
  /\ FetchOnly

FetchReplace(p, t) ==
  /\ fetch[p].state = t /\ fetch[p].temp = "pinned"
  /\ cache' = [cache EXCEPT ![t] = "pinned"]
  /\ fetch' = [fetch EXCEPT ![p] = [state |-> "look", todo |-> fetch[p].todo \ {t}, temp |-> "none"]]
  /\ FetchOnly

\* All jars are there, a download failed or had another digest, or the
\* shell was closed.
FetchEnd(p) ==
  /\ fetch[p].state \notin {"idle", "ended"}
  /\ fetch' = [fetch EXCEPT ![p] = [state |-> "ended", todo |-> {}, temp |-> "none"]]
  /\ UNCHANGED cache /\ FetchOnly

Fetch == \E p \in Shell :
  \/ FetchStart(p) \/ FetchEnd(p)
  \/ \E t \in Tool : FetchLook(p, t) \/ FetchReplace(p, t)
  \/ \E content \in {"pinned", "other"} : FetchDownload(p, content)

Next == Script \/ Emit \/ Exit \/ Kill \/ Expire \/ Fetch

(***************************************************************************)
(* The scripts are sequential programs that keep running, and the timeout  *)
(* of subprocess.run fires if TLC has not ended by then.  Nothing is       *)
(* assumed of TLC, which may hang, nor of the other shell.                 *)
(***************************************************************************)
Spec == Init /\ [][Next]_vars /\ WF_vars(Script) /\ WF_vars(Expire)

----------------------------------------------------------------------------
(* Properties. *)

\* "NOT a pass": a script exits successfully only if every trace, model and
\* profile it reports on was really checked to the end with the result it
\* claims; a killed, truncated, timed-out or broken run never counts.
PassIsEarned == exit = "passed" => earned /\ todo = <<>>

\* "Semantic negatives must fail through the model, not parser/tool
\* failures": a ConformanceError is only raised when some stage's model
\* really refuses the trace.
RejectionIsSemantic == verdict = "ConformanceError" => \E f \in facts : Rejects(f)

\* The scripts' own tests never fail by themselves: every malformed file is
\* refused, every regression history gets its verdict, every mutated witness
\* is refused, and a mutated trace still loads (so that the model is what
\* judges it) unless the mutation deleted its only proposal.  A mutation of
\* what an event says, as all those of read_trace_check are, leaves the rows
\* as they were; there this is a statement about the input alone.
SelfTestsHold ==
  (verdict # "none" /\ todo # <<>>) =>
    /\ CurrentJob.want = "malformed" => verdict = "Malformed"
    /\ CurrentJob.name \in DOMAIN Cases => verdict \in {CurrentJob.want, "RuntimeError"}
    /\ CurrentJob.want = "reject" /\ verdict = "Malformed" =>
         /\ CurrentJob.name = "missing-operation"
         /\ Cardinality({i \in DOMAIN input.rows : input.rows[i].kind = "propose"}) = 1

\* TLC only ever runs from the pinned jars, and they stay pinned while it
\* runs, whatever a concurrent prepare does in between.
OnlyPinnedToolsRun == tlc.state = "running" => \A t \in Tool : cache[t] = "pinned"

\* A verified jar is never replaced by another content, not even for the
\* time of a download.
PinnedStaysPinned == [][\A t \in Tool : cache[t] = "pinned" => cache'[t] = "pinned"]_cache

\* Every invocation ends, even if TLC hangs.
EveryInvocationEnds == <>(exit \in {"passed", "failed"})
=============================================================================
