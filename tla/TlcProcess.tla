----------------------------- MODULE TlcProcess -----------------------------
(***************************************************************************)
(* The TLC subprocess as the scripts in formal/ see it: lines appended to  *)
(* a log, then an exit code.  TLC itself is not part of the repository;    *)
(* this module states what the scripts rely on.  A log line is <<tag,      *)
(* argument>>; only the lines some script looks for are kept.              *)
(*                                                                         *)
(* A run is described by what the model really is, [result, invariant,     *)
(* marked]: it holds, has a single state in which everything holds         *)
(* (trivial), violates an invariant, deadlocks, or TLC cannot run it       *)
(* (broken).  marked says that the model printed its completion marker     *)
(* before the run ended.                                                   *)
(***************************************************************************)
EXTENDS Integers, Sequences

Results == {"holds", "trivial", "violated", "deadlock", "broken"}

NoInvariant == "none"

Truth(result, invariant, marked) ==
  [result |-> result, invariant |-> invariant, marked |-> marked]

Line(tag) == <<tag, "">>

Marker(truth) == IF truth.marked THEN <<Line("marker")>> ELSE <<>>

\* A state graph in which the error is in the initial state has no State 2.
ErrorTrace == <<Line("behavior"), Line("state2"), Line("states_left")>>

\* Everything the run prints, in order.
FullLog(truth, simulate) ==
  CASE truth.result = "holds" /\ simulate -> <<Line("seed"), Line("traces")>>
    [] truth.result = "holds" /\ ~simulate ->
         Marker(truth) \o <<Line("finished"), Line("queue_empty"), Line("several_states")>>
    [] truth.result = "trivial" -> Marker(truth) \o <<Line("finished"), Line("queue_empty")>>
    [] truth.result = "violated" ->
         Marker(truth) \o <<<<"violated", truth.invariant>>>> \o ErrorTrace
    [] truth.result = "deadlock" -> <<Line("deadlock")>> \o ErrorTrace
    [] truth.result = "broken" -> <<Line("tool_error")>>

Killed == -9

ExitCode(truth) ==
  CASE truth.result \in {"holds", "trivial"} -> 0
    [] truth.result = "deadlock" -> 11
    [] truth.result = "violated" -> 12
    [] truth.result = "broken" -> 150
=============================================================================
