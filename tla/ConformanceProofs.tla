-------------------------- MODULE ConformanceProofs --------------------------
(***************************************************************************)
(* The conformance scripts, for any traces, tools and shells: TLC only     *)
(* runs from pinned jars, a rejection comes from a model that rejects, and *)
(* a script that exits successfully has earned it.                         *)
(*                                                                         *)
(* The argument follows one job through its pipeline.  What is left of the *)
(* pipeline either still compares the jars before it runs TLC, or they are *)
(* pinned for good; the TLC stages done are the ones the facts are about;  *)
(* and a log says nothing that is not true of the model TLC was run on,    *)
(* however early the run was cut off.                                      *)
(***************************************************************************)
EXTENDS Conformance, SequenceTheorems, TLAPS

Stage == {"load", "load_read", "load_projection", "instructions", "classpath", "extract",
          "validate_history"} \cup TlcStages

Pipes == {<<"load">>, CorePipe, ReadPipe, HistoryPipe,
          <<"classpath", "model">>, <<"classpath", "simulate">>, <<"classpath", "profile">>}

Wants == {"accept", "reject", "malformed", "linearizable", "refuted"}

\* A job of some script: only files are expected to be malformed.
IsJob(j) ==
  /\ j.pipe \in Pipes /\ j.want \in Wants
  /\ j.want = "malformed" => j.pipe = <<"load">>

Names ==
  {"single", "smoke", "model", "trace", "input"}
    \cup ToSet(Profiles) \cup ToSet(SemanticMutations) \cup ToSet(StructuralMutations)
    \cup ToSet(ReadMutations) \cup ToSet(IdentityMutations) \cup ToSet(StaleMutations)
    \cup {"future-value", "stale-value"} \cup DOMAIN Cases

JobSet == {j \in {Job(p, w, s) : p \in Pipes, w \in Wants, s \in Names} : IsJob(j)}

\* TLC is not run before the jars have been compared.
Guarded(p) ==
  \A k \in 1..Len(p) : p[k] \in TlcStages => \E j \in 1..(k - 1) : p[j] = "classpath"

AllPinned == \A t \in Tool : cache[t] = "pinned"

-----------------------------------------------------------------------------
(***************************************************************************)
(* Pipelines.                                                              *)
(***************************************************************************)
\* Every pipeline is a sequence of stages that compares the jars first.
LEMMA PipeStages ==
  ASSUME NEW p \in Pipes
  PROVE  p \in Seq(Stage) /\ p # <<>> /\ Guarded(p)
<1>1. CASE p = <<"load">> BY <1>1 DEF Stage, TlcStages, Guarded
<1>2. CASE p = CorePipe BY <1>2 DEF Stage, TlcStages, Guarded, CorePipe
<1>3. CASE p = ReadPipe BY <1>3 DEF Stage, TlcStages, Guarded, ReadPipe
<1>4. CASE p = HistoryPipe BY <1>4 DEF Stage, TlcStages, Guarded, HistoryPipe
<1>5. CASE p = <<"classpath", "model">> BY <1>5 DEF Stage, TlcStages, Guarded
<1>6. CASE p = <<"classpath", "simulate">> BY <1>6 DEF Stage, TlcStages, Guarded
<1>7. CASE p = <<"classpath", "profile">> BY <1>7 DEF Stage, TlcStages, Guarded
<1> QED BY <1>1, <1>2, <1>3, <1>4, <1>5, <1>6, <1>7 DEF Pipes

\* The first stage and the others.
LEMMA HeadAndTail ==
  ASSUME NEW S, NEW p \in Seq(S), p # <<>>
  PROVE  /\ Head(p) \in S /\ Tail(p) \in Seq(S) /\ Len(p) \in Nat /\ Len(p) > 0
         /\ Len(Tail(p)) = Len(p) - 1 /\ Head(p) = p[1]
         /\ \A k \in 1..(Len(p) - 1) : Tail(p)[k] = p[k + 1]
         /\ ToSet(p) = {Head(p)} \cup ToSet(Tail(p))
         /\ Len(p) = 1 <=> Tail(p) = <<>>
<1>1. Len(p) \in Nat /\ DOMAIN p = 1..Len(p) BY LenProperties
<1>2. /\ Head(p) \in S /\ Tail(p) \in Seq(S) /\ Head(p) = p[1] /\ Len(Tail(p)) = Len(p) - 1
      /\ \A k \in 1..(Len(p) - 1) : Tail(p)[k] = p[k + 1]
  BY HeadTailProperties
<1>3. Len(p) > 0 BY <1>1, EmptySeq
<1>4. DOMAIN Tail(p) = 1..(Len(p) - 1) BY <1>2, LenProperties
<1>5. ASSUME NEW x PROVE x \in ToSet(p) <=> x = Head(p) \/ x \in ToSet(Tail(p))
  <2>1. x \in ToSet(p) <=> \E k \in 1..Len(p) : x = p[k] BY <1>1 DEF ToSet
  <2>2. x \in ToSet(Tail(p)) <=> \E k \in 1..(Len(p) - 1) : x = p[k + 1]
    BY <1>2, <1>4 DEF ToSet
  <2>3. \A k \in 1..Len(p) : k = 1 \/ (k - 1 \in 1..(Len(p) - 1) /\ (k - 1) + 1 = k) BY <1>1
  <2>4. \A k \in 1..(Len(p) - 1) : k + 1 \in 1..Len(p) BY <1>1
  <2>5. 1 \in 1..Len(p) BY <1>1, <1>3
  <2> QED BY <1>2, <2>1, <2>2, <2>3, <2>4, <2>5
<1>6. Len(p) = 1 <=> Tail(p) = <<>>
  <2>1. Tail(p) = <<>> <=> Len(Tail(p)) = 0 BY <1>2, EmptySeq
  <2> QED BY <1>1, <1>2, <2>1
<1> QED BY <1>1, <1>2, <1>3, <1>5, <1>6

\* Without its first stage, unless that compares the jars, a pipeline still
\* compares them first.
LEMMA GuardedTail ==
  ASSUME NEW p \in Seq(Stage), p # <<>>, Guarded(p), Head(p) # "classpath"
  PROVE  Guarded(Tail(p))
<1>1. /\ Len(p) \in Nat /\ Len(Tail(p)) = Len(p) - 1 /\ Head(p) = p[1]
      /\ \A k \in 1..(Len(p) - 1) : Tail(p)[k] = p[k + 1]
  BY HeadAndTail
<1>2. ASSUME NEW k \in 1..(Len(p) - 1), Tail(p)[k] \in TlcStages
      PROVE  \E j \in 1..(k - 1) : Tail(p)[j] = "classpath"
  <2>1. k + 1 \in 1..Len(p) /\ (k + 1) - 1 = k BY <1>1
  <2>2. PICK j \in 1..k : p[j] = "classpath" BY <1>1, <1>2, <2>1 DEF Guarded
  <2>3. j # 1 BY <1>1, <2>2
  <2>4. j - 1 \in 1..(k - 1) /\ (j - 1) + 1 = j /\ j - 1 \in 1..(Len(p) - 1) BY <1>1, <2>3
  <2> QED BY <1>1, <2>2, <2>4
<1> QED BY <1>1, <1>2 DEF Guarded

LEMMA GuardedHead ==
  ASSUME NEW p \in Seq(Stage), p # <<>>, Guarded(p)
  PROVE  Head(p) \notin TlcStages
<1>1. Len(p) \in Nat /\ Len(p) > 0 /\ Head(p) = p[1] BY HeadAndTail
<1>2. 1 \in 1..Len(p) /\ 1..(1 - 1) = {} BY <1>1
<1> QED BY <1>1, <1>2 DEF Guarded

-----------------------------------------------------------------------------
(***************************************************************************)
(* Jobs.                                                                   *)
(***************************************************************************)
LEMMA JobFields ==
  ASSUME NEW p, NEW w, NEW s
  PROVE  Job(p, w, s).pipe = p /\ Job(p, w, s).want = w /\ Job(p, w, s).name = s
BY DEF Job

LEMMA IsJobSet ==
  ASSUME NEW p \in Pipes, NEW w \in Wants, NEW s \in Names, w = "malformed" => p = <<"load">>
  PROVE  Job(p, w, s) \in JobSet
<1>1. IsJob(Job(p, w, s))
  <2> DEFINE j == Job(p, w, s)
  <2>1. j.pipe = p /\ j.want = w BY JobFields
  <2> HIDE DEF j
  <2>2. IsJob(j) BY <2>1 DEF IsJob
  <2> QED BY <2>2 DEF j
<1> HIDE DEF IsJob
<1> QED BY <1>1 DEF JobSet

LEMMA EachIsJobs ==
  ASSUME NEW p \in Pipes, NEW w \in Wants, w = "malformed" => p = <<"load">>,
         NEW names, NEW N \in Nat, DOMAIN names = 1..N, ToSet(names) \subseteq Names
  PROVE  Each(p, w, names) \in Seq(JobSet)
<1>1. \A i \in 1..N : names[i] \in Names BY DEF ToSet
<1>2. \A i \in 1..N : Job(p, w, names[i]) \in JobSet BY <1>1, IsJobSet
<1>3. Each(p, w, names) = [i \in 1..N |-> Job(p, w, names[i])] BY DEF Each
<1>4. Each(p, w, names) \in [1..N -> JobSet] BY <1>2, <1>3
<1> QED BY ONLY <1>4, N \in Nat

LEMMA JobsJoin ==
  ASSUME NEW a \in Seq(JobSet), NEW b \in Seq(JobSet)
  PROVE  a \o b \in Seq(JobSet)
BY ConcatProperties

LEMMA OneJob ==
  ASSUME NEW j \in JobSet
  PROVE  <<j>> \in Seq(JobSet)
OBVIOUS

LEMMA TwoJobs ==
  ASSUME NEW i \in JobSet, NEW j \in JobSet
  PROVE  <<i, j>> \in Seq(JobSet)
OBVIOUS

\* The names of a list of mutations or profiles.
Listed(names) == (\E N \in Nat : DOMAIN names = 1..N) /\ ToSet(names) \subseteq Names

LEMMA ListedNames ==
  /\ Listed(Profiles) /\ Listed(SemanticMutations) /\ Listed(StructuralMutations)
  /\ Listed(ReadMutations) /\ Listed(IdentityMutations) /\ Listed(StaleMutations)
  /\ Listed(<<"future-value", "stale-value">>)
<1>1. DOMAIN Profiles = 1..7 BY DEF Profiles
<1>2. \E N \in Nat : DOMAIN SemanticMutations = 1..N BY DEF SemanticMutations
<1>3. \E N \in Nat : DOMAIN StructuralMutations = 1..N BY DEF StructuralMutations
<1>4. DOMAIN ReadMutations = 1..11 BY DEF ReadMutations
<1>5. DOMAIN IdentityMutations = 1..4 BY DEF IdentityMutations
<1>6. DOMAIN StaleMutations = 1..3 BY DEF StaleMutations
<1>7. /\ ToSet(Profiles) \subseteq Names /\ ToSet(SemanticMutations) \subseteq Names
      /\ ToSet(StructuralMutations) \subseteq Names /\ ToSet(ReadMutations) \subseteq Names
      /\ ToSet(IdentityMutations) \subseteq Names /\ ToSet(StaleMutations) \subseteq Names
  BY Zenon DEF Names
<1>8. Listed(<<"future-value", "stale-value">>)
  <2> DEFINE q == <<"future-value", "stale-value">>
  <2>1. DOMAIN q = 1..2 /\ q[1] = "future-value" /\ q[2] = "stale-value" OBVIOUS
  <2>2. q[1] \in Names /\ q[2] \in Names BY <2>1 DEF Names
  <2> HIDE DEF q
  <2>3. Listed(q) BY <2>1, <2>2 DEF Listed, ToSet
  <2> QED BY <2>3 DEF q
<1>9. 7 \in Nat /\ 11 \in Nat /\ 4 \in Nat /\ 3 \in Nat OBVIOUS
<1>10. Listed(Profiles) BY <1>1, <1>7, <1>9 DEF Listed
<1>11. Listed(SemanticMutations) BY <1>2, <1>7 DEF Listed
<1>12. Listed(StructuralMutations) BY <1>3, <1>7 DEF Listed
<1>13. Listed(ReadMutations) BY <1>4, <1>7, <1>9 DEF Listed
<1>14. Listed(IdentityMutations) BY <1>5, <1>7, <1>9 DEF Listed
<1>15. Listed(StaleMutations) BY <1>6, <1>7, <1>9 DEF Listed
<1> QED BY <1>8, <1>10, <1>11, <1>12, <1>13, <1>14, <1>15

\* Every script is a list of such jobs.
LEMMA ScriptJobs ==
  ASSUME NEW s \in DOMAIN Jobs
  PROVE  Jobs[s] \in Seq(JobSet)
<1> DEFINE m == <<"classpath", "model">>
           sim == <<"classpath", "simulate">>
           prof == <<"classpath", "profile">>
           ld == <<"load">>
           two == <<"future-value", "stale-value">>
<1>1. /\ CorePipe \in Pipes /\ ReadPipe \in Pipes /\ HistoryPipe \in Pipes /\ ld \in Pipes
      /\ m \in Pipes /\ sim \in Pipes /\ prof \in Pipes
  BY DEF Pipes
<1>2. /\ "accept" \in Wants /\ "reject" \in Wants /\ "malformed" \in Wants
      /\ "linearizable" \in Wants /\ "refuted" \in Wants
  BY DEF Wants
<1> DEFINE Simple(p, w) == \A n \in Names : Job(p, w, n) \in JobSet
           Many(p, w) == \A names : Listed(names) => Each(p, w, names) \in Seq(JobSet)
<1>3. ASSUME NEW p \in Pipes, NEW w \in Wants, w = "malformed" => p = ld
      PROVE  Simple(p, w) /\ Many(p, w)
  <2>1. Simple(p, w) BY <1>3, IsJobSet
  <2>2. ASSUME NEW names, Listed(names) PROVE Each(p, w, names) \in Seq(JobSet)
    <3>1. PICK N \in Nat : DOMAIN names = 1..N BY <2>2 DEF Listed
    <3>2. ToSet(names) \subseteq Names BY <2>2 DEF Listed
    <3> QED BY <1>3, <3>1, <3>2, EachIsJobs
  <2> QED BY <2>1, <2>2
<1>4. Many(ld, "malformed") BY <1>1, <1>2, <1>3
<1> HIDE DEF m, sim, prof, ld, Simple, Many
<1>5. /\ Simple(m, "accept") /\ Simple(sim, "accept") /\ Many(prof, "accept")
      /\ Simple(CorePipe, "accept") /\ Simple(ReadPipe, "accept")
      /\ Many(CorePipe, "reject") /\ Many(ReadPipe, "reject") /\ Many(HistoryPipe, "refuted")
      /\ Simple(HistoryPipe, "linearizable") /\ Simple(HistoryPipe, "refuted")
  BY <1>1, <1>2, <1>3
<1>6. /\ "single" \in Names /\ "smoke" \in Names /\ "model" \in Names /\ "trace" \in Names
      /\ "input" \in Names
  BY DEF Names
<1>7. /\ "initial_read" \in Names /\ "overlapping_orders" \in Names /\ "pending_write" \in Names
      /\ "future_pending_write" \in Names /\ "unwritten_value" \in Names /\ "stale_read" \in Names
      /\ "repeated_values" \in Names /\ "pending_read" \in Names
  <2>1. /\ "initial_read" \in DOMAIN Cases /\ "overlapping_orders" \in DOMAIN Cases
        /\ "pending_write" \in DOMAIN Cases /\ "future_pending_write" \in DOMAIN Cases
        /\ "unwritten_value" \in DOMAIN Cases /\ "stale_read" \in DOMAIN Cases
        /\ "repeated_values" \in DOMAIN Cases /\ "pending_read" \in DOMAIN Cases
    BY DEF Cases
  <2> QED BY <2>1, Zenon DEF Names
<1> DEFINE a1 == Job(m, "accept", "single")
           a2 == Job(sim, "accept", "smoke")
           a3 == Job(m, "accept", "model")
           a4 == Job(HistoryPipe, "linearizable", "input")
           a5 == Job(CorePipe, "accept", "trace")
           a6 == Job(ReadPipe, "accept", "trace")
           e1 == Each(prof, "accept", Profiles)
           e2 == Each(CorePipe, "reject", SemanticMutations)
           e3 == Each(ld, "malformed", StructuralMutations)
           e4 == Each(ReadPipe, "reject", ReadMutations)
           e5 == Each(ReadPipe, "reject", IdentityMutations)
           e6 == Each(ReadPipe, "reject", StaleMutations)
           e7 == Each(HistoryPipe, "refuted", two)
<1>8. a1 \in JobSet /\ a2 \in JobSet /\ a3 \in JobSet /\ a4 \in JobSet /\ a5 \in JobSet /\ a6 \in JobSet
  BY <1>5, <1>6, Zenon DEF Simple
<1>9. /\ e1 \in Seq(JobSet) /\ e2 \in Seq(JobSet) /\ e3 \in Seq(JobSet) /\ e4 \in Seq(JobSet)
      /\ e5 \in Seq(JobSet) /\ e6 \in Seq(JobSet) /\ e7 \in Seq(JobSet)
  BY <1>4, <1>5, ListedNames, Zenon DEF Many
<1>10. Regressions \in Seq(JobSet)
  <2> DEFINE j1 == Job(HistoryPipe, "linearizable", "initial_read")
             j2 == Job(HistoryPipe, "linearizable", "overlapping_orders")
             j3 == Job(HistoryPipe, "linearizable", "pending_write")
             j4 == Job(HistoryPipe, "refuted", "future_pending_write")
             j5 == Job(HistoryPipe, "refuted", "unwritten_value")
             j6 == Job(HistoryPipe, "refuted", "stale_read")
             j7 == Job(HistoryPipe, "linearizable", "repeated_values")
             j8 == Job(HistoryPipe, "linearizable", "pending_read")
  <2>2. /\ j1 \in JobSet /\ j2 \in JobSet /\ j3 \in JobSet /\ j4 \in JobSet
        /\ j5 \in JobSet /\ j6 \in JobSet /\ j7 \in JobSet /\ j8 \in JobSet
    BY <1>5, <1>7, Zenon DEF Simple
  <2>3. Regressions = <<j1, j2, j3, j4, j5, j6, j7, j8>> BY DEF Regressions
  <2> HIDE DEF j1, j2, j3, j4, j5, j6, j7, j8
  <2> QED BY ONLY <2>2, <2>3
<1>11. ValidateCore = <<a5>> /\ ValidateRead = <<a6>> BY DEF ValidateCore, ValidateRead
<1>12. /\ Jobs["verify"] = <<>> /\ Jobs["single"] = <<a1>> /\ Jobs["smoke"] = <<a1, a2>>
       /\ Jobs["model"] = <<a3>> /\ Jobs["read_index"] = e1 /\ Jobs["trace"] = ValidateCore
       /\ Jobs["trace_negatives"] = ValidateCore \o e2 \o e3
       /\ Jobs["read_trace"] = ValidateRead
       /\ Jobs["read_negatives"] = ValidateRead \o e4 \o e7 \o Regressions
       /\ Jobs["read_identity"] = ValidateRead \o e5
       /\ Jobs["read_stale"] = ValidateRead \o e6
       /\ Jobs["history"] = <<a4>>
  BY DEF Jobs, m, sim, prof, ld
<1>13. s \in {"verify", "single", "smoke", "model", "read_index", "trace", "trace_negatives",
              "read_trace", "read_negatives", "read_identity", "read_stale", "history"}
  BY DEF Jobs
<1> HIDE DEF a1, a2, a3, a4, a5, a6, e1, e2, e3, e4, e5, e6, e7
<1>14. ValidateCore \in Seq(JobSet) /\ ValidateRead \in Seq(JobSet) BY <1>8, <1>11, OneJob
<1>15. <<>> \in Seq(JobSet) OBVIOUS
<1>16. /\ <<a1>> \in Seq(JobSet) /\ <<a1, a2>> \in Seq(JobSet) /\ <<a3>> \in Seq(JobSet)
       /\ <<a4>> \in Seq(JobSet)
  BY <1>8, OneJob, TwoJobs
<1>17. (ValidateCore \o e2) \o e3 \in Seq(JobSet) BY <1>9, <1>14, JobsJoin
<1>18. ((ValidateRead \o e4) \o e7) \o Regressions \in Seq(JobSet) BY <1>9, <1>10, <1>14, JobsJoin
<1>19. ValidateRead \o e5 \in Seq(JobSet) /\ ValidateRead \o e6 \in Seq(JobSet)
  BY <1>9, <1>14, JobsJoin
<1> QED BY <1>9, <1>12, <1>13, <1>14, <1>15, <1>16, <1>17, <1>18, <1>19, Zenon

-----------------------------------------------------------------------------
(***************************************************************************)
(* The subprocess.  Whatever part of its log is read, and however the run  *)
(* ended, the lines that a verdict depends on are true of the model.       *)
(***************************************************************************)
Honest(truth) ==
  {Line(t) : t \in {"marker", "behavior", "state2", "states_left", "seed", "traces", "finished",
                    "queue_empty", "tool_error"}}
    \cup (IF truth.result = "violated" THEN {<<"violated", truth.invariant>>} ELSE {})
    \cup (IF truth.result = "deadlock" THEN {Line("deadlock")} ELSE {})
    \cup (IF truth.result = "holds" THEN {Line("several_states")} ELSE {})

LEMMA MarkerHonest ==
  ASSUME NEW truth
  PROVE  Marker(truth) \in Seq(Honest(truth))
<1> DEFINE H == Honest(truth)
           l == Line("marker")
<1>1. l \in H BY Zenon DEF Honest
<1> HIDE DEF H, l
<1>2. <<l>> \in Seq(H) /\ <<>> \in Seq(H) BY <1>1
<1> QED BY <1>2 DEF Marker, H, l

LEMMA ErrorTraceHonest ==
  ASSUME NEW truth
  PROVE  ErrorTrace \in Seq(Honest(truth))
<1> DEFINE H == Honest(truth)
           a == Line("behavior")
           b == Line("state2")
           c == Line("states_left")
<1>1. a \in H /\ b \in H /\ c \in H BY Zenon DEF Honest
<1>2. ErrorTrace = <<a, b, c>> BY DEF ErrorTrace
<1> HIDE DEF H, a, b, c
<1>3. <<a, b, c>> \in Seq(H) BY <1>1
<1> QED BY <1>2, <1>3 DEF H

\* Everything a run prints is honest.
LEMMA FullLogHonest ==
  ASSUME NEW truth, truth.result \in Results, NEW simulate \in BOOLEAN
  PROVE  FullLog(truth, simulate) \in Seq(Honest(truth))
<1> DEFINE H == Honest(truth)
           s == <<Line("seed"), Line("traces")>>
           f == <<Line("finished"), Line("queue_empty"), Line("several_states")>>
           o == <<Line("finished"), Line("queue_empty")>>
           v == <<<<"violated", truth.invariant>>>>
           d == <<Line("deadlock")>>
           b == <<Line("tool_error")>>
           M == Marker(truth)
           T == ErrorTrace
<1>1. M \in Seq(H) /\ T \in Seq(H) BY MarkerHonest, ErrorTraceHonest
<1>2. /\ Line("seed") \in H /\ Line("traces") \in H /\ Line("finished") \in H
      /\ Line("queue_empty") \in H /\ Line("tool_error") \in H
  BY Zenon DEF Honest
<1>3. truth.result = "violated" => <<"violated", truth.invariant>> \in H BY Zenon DEF Honest
<1>4. /\ truth.result = "deadlock" => Line("deadlock") \in H
      /\ truth.result = "holds" => Line("several_states") \in H
  BY Zenon DEF Honest
<1> HIDE DEF H
<1>5. s \in Seq(H) /\ o \in Seq(H) /\ b \in Seq(H)
  <2> HIDE DEF Line
  <2> QED BY <1>2
<1>6. truth.result = "violated" => v \in Seq(H) BY <1>3
<1>7. /\ truth.result = "deadlock" => d \in Seq(H)
      /\ truth.result = "holds" => f \in Seq(H)
  <2> HIDE DEF Line
  <2> QED BY <1>2, <1>4
<1>8. FullLog(truth, simulate) =
        CASE truth.result = "holds" /\ simulate -> s
          [] truth.result = "holds" /\ ~simulate -> M \o f
          [] truth.result = "trivial" -> M \o o
          [] truth.result = "violated" -> M \o v \o T
          [] truth.result = "deadlock" -> d \o T
          [] truth.result = "broken" -> b
  BY Zenon DEF FullLog
<1> DEFINE L == FullLog(truth, simulate)
<1> HIDE DEF s, f, o, v, d, b, M, T, L
<1>9. CASE truth.result = "holds" /\ simulate
  <2>1. L = s BY <1>8, <1>9 DEF L
  <2> QED BY <1>5, <2>1 DEF H, L
<1>10. CASE truth.result = "holds" /\ ~simulate
  <2>1. L = M \o f BY <1>8, <1>10 DEF L
  <2>2. M \o f \in Seq(H) BY <1>1, <1>7, <1>10, ConcatProperties
  <2> QED BY <2>1, <2>2 DEF H, L
<1>11. CASE truth.result = "violated"
  <2>1. L = (M \o v) \o T BY <1>8, <1>11 DEF L
  <2>2. M \o v \in Seq(H) BY <1>1, <1>6, <1>11, ConcatProperties
  <2>3. (M \o v) \o T \in Seq(H) BY <1>1, <2>2, ConcatProperties
  <2> QED BY <2>1, <2>3 DEF H, L
<1>12. CASE truth.result = "deadlock"
  <2>1. L = d \o T BY <1>8, <1>12 DEF L
  <2>2. d \o T \in Seq(H) BY <1>1, <1>7, <1>12, ConcatProperties
  <2> QED BY <2>1, <2>2 DEF H, L
<1>13. CASE truth.result = "broken"
  <2>1. L = b BY <1>8, <1>13 DEF L
  <2> QED BY <1>5, <2>1 DEF H, L
<1>14. CASE truth.result = "trivial"
  <2>1. L = M \o o BY <1>8, <1>14 DEF L
  <2>2. M \o o \in Seq(H) BY <1>1, <1>5, ConcatProperties
  <2> QED BY <2>1, <2>2 DEF H, L
<1> QED BY <1>9, <1>10, <1>11, <1>12, <1>13, <1>14 DEF Results

\* A violation it shows is the model's.
LEMMA HonestViolation ==
  ASSUME NEW truth, NEW l \in Honest(truth), l[1] = "violated"
  PROVE  truth.result = "violated" /\ l = <<"violated", truth.invariant>>
<1> DEFINE Tags == {"marker", "behavior", "state2", "states_left", "seed", "traces", "finished",
                    "queue_empty", "tool_error"}
<1>1. \/ \E t \in Tags : l = Line(t)
      \/ truth.result = "violated" /\ l = <<"violated", truth.invariant>>
      \/ l = Line("deadlock") \/ l = Line("several_states")
  BY Zenon DEF Honest
<1>2. \A t : Line(t)[1] = t BY DEF Line
<1>3. "violated" \notin Tags OBVIOUS
<1> HIDE DEF Tags, Line
<1>4. \A t \in Tags : l # Line(t) BY <1>2, <1>3
<1>5. l # Line("deadlock") /\ l # Line("several_states") BY <1>2
<1> QED BY <1>1, <1>4, <1>5

LEMMA HonestDeadlock ==
  ASSUME NEW truth, Line("deadlock") \in Honest(truth)
  PROVE  truth.result = "deadlock"
BY DEF Honest, Line

LEMMA HonestSeveral ==
  ASSUME NEW truth, Line("several_states") \in Honest(truth)
  PROVE  truth.result = "holds"
BY DEF Honest, Line

\* What TLC may be run on at a stage, as far as the verdicts tell.
Possible(truth, stage, h) ==
  /\ truth.result \in Results
  /\ truth.result = "trivial" => stage = "profile"
  /\ stage = "history" => /\ truth.result = "violated" => Linearizations(h) # {}
                          /\ truth.result = "holds" => Linearizations(h) = {}

LEMMA TruthFields ==
  ASSUME NEW r, NEW i, NEW m
  PROVE  Truth(r, i, m).result = r /\ Truth(r, i, m).invariant = i
BY DEF Truth

LEMMA TruthsPossible ==
  ASSUME NEW stage \in TlcStages, NEW truth \in Truths(stage)
  PROVE  Possible(truth, stage, history)
<1> DEFINE R == {"holds", "violated", "deadlock", "broken"}
           P == R \cup IF stage = "profile" THEN {"trivial"} ELSE {}
           U(r) == Truth(r, NoInvariant, FALSE)
           None == Linearizations(history) # {}
<1>1. \A r, i, m : Truth(r, i, m).result = r BY TruthFields
<1>2. CASE stage # "history"
  <2>1. \E r \in P : \E i, m : truth = Truth(r, i, m)
    BY <1>2 DEF Truths, TlcStages
  <2> QED BY <1>1, <1>2, <2>1 DEF Possible, Results
<1>3. CASE stage = "history"
  <2>1. Truths(stage) = {U("broken")} \cup
          (IF None THEN {Truth("violated", "NoLinearization", TRUE)} ELSE {U("holds")})
    BY <1>3 DEF Truths
  <2>2. \/ truth = U("broken")
        \/ None /\ truth = Truth("violated", "NoLinearization", TRUE)
        \/ ~None /\ truth = U("holds")
    BY <2>1
  <2>3. \/ truth.result = "broken"
        \/ None /\ truth.result = "violated"
        \/ ~None /\ truth.result = "holds"
    <3>1. /\ U("broken").result = "broken" /\ U("holds").result = "holds"
          /\ Truth("violated", "NoLinearization", TRUE).result = "violated"
      BY <1>1
    <3> DEFINE t1 == U("broken")
               t2 == Truth("violated", "NoLinearization", TRUE)
               t3 == U("holds")
    <3> HIDE DEF t1, t2, t3, U, None
    <3>2. truth = t1 \/ (None /\ truth = t2) \/ (~None /\ truth = t3) BY <2>2 DEF t1, t2, t3
    <3>3. t1.result = "broken" /\ t2.result = "violated" /\ t3.result = "holds"
      BY <3>1 DEF t1, t2, t3
    <3> QED BY <3>2, <3>3
  <2> QED BY <2>3 DEF Possible, Results
<1> QED BY <1>2, <1>3

-----------------------------------------------------------------------------
(***************************************************************************)
(* The inductive invariant.                                                *)
(***************************************************************************)
\* A job is under way or waits for its caller.
Shape ==
  /\ todo \in Seq(JobSet) /\ pc \in Seq(Stage)
  /\ verdict # "none" => pc = <<>> /\ todo # <<>>
  /\ pc # <<>> => todo # <<>>
  /\ tlc.state # "none" => pc # <<>> /\ Head(pc) \in TlcStages

\* The jars are still to be compared before TLC runs, or they are pinned.
Pins ==
  /\ cache \in [Tool -> {"absent", "other", "pinned"}]
  /\ checked \subseteq Tool /\ \A t \in checked : cache[t] = "pinned"
  /\ Guarded(pc) \/ AllPinned

Run(state, truth, log, rest, code) ==
  [state |-> state, truth |-> truth, log |-> log, rest |-> rest, code |-> code]

\* The subprocess was started on a model of its stage and logs honestly.
Process ==
  /\ tlc = Run(tlc.state, tlc.truth, tlc.log, tlc.rest, tlc.code)
  /\ tlc.state \in {"none", "running", "exited"}
  /\ tlc.state # "none" => /\ Possible(tlc.truth, Head(pc), history)
                           /\ tlc.log \in Seq(Honest(tlc.truth))
                           /\ tlc.rest \in Seq(Honest(tlc.truth))
  /\ tlc.state = "exited" => tlc.code \in {ExitCode(tlc.truth), Killed}

\* The TLC stages of a pipeline, and those the facts are about.
TlcOf(p) == ToSet(p) \cap TlcStages
StagesOf(F) == {f.stage : f \in F}

\* Nothing was skipped so far: the stages done and the stages left are the
\* job's, and every one done supports the job.
OnTrack(F, p, job) ==
  StagesOf(F) \cup TlcOf(p) = TlcOf(job.pipe) /\ \A f \in F : Supports(f, job)

\* A verdict is what it says.
Judged ==
  /\ pc # <<>> /\ Head(todo).want = "malformed" => pc = <<"load">>
  /\ verdict = "Malformed" /\ Head(todo).want = "malformed" => ~Load(file)
  /\ verdict = "linearizable" => Linearizations(history) # {}
  /\ verdict = "refuted" => Linearizations(history) = {}
  /\ verdict = "ConformanceError" => \E f \in facts : Rejects(f)
  /\ (pc # <<>> \/ verdict = "returned") /\ Head(todo).want = "accept" =>
       OnTrack(facts, pc, Head(todo))

\* The jobs that are finished deserved what they got.
Honoured == (exit # "failed" => earned = TRUE) /\ (exit = "passed" => todo = <<>>)

ScriptInv == Shape /\ Pins /\ Process /\ Judged /\ Honoured

THEOREM ScriptInit == Init => ScriptInv
<1> SUFFICES ASSUME Init PROVE ScriptInv OBVIOUS
<1>1. todo \in Seq(JobSet) BY ScriptJobs, Zenon DEF Init
<1>2. pc = <<>> /\ verdict = "none" /\ tlc = NoTlc /\ checked = {} /\ earned = TRUE /\ exit = "starting"
      /\ cache \in [Tool -> {"absent", "other", "pinned"}]
  BY DEF Init
<1>3. tlc.state = "none" /\ tlc = Run(tlc.state, tlc.truth, tlc.log, tlc.rest, tlc.code)
  BY <1>2 DEF NoTlc, Run
<1>4. pc \in Seq(Stage) BY <1>2
<1>5. Shape BY <1>1, <1>2, <1>3, <1>4 DEF Shape
<1>6. Guarded(pc) BY <1>2 DEF Guarded
<1>7. Pins BY <1>2, <1>6 DEF Pins
<1>8. Process BY <1>3 DEF Process
<1>9. Judged BY <1>2 DEF Judged
<1>10. Honoured BY <1>2 DEF Honoured
<1> QED BY <1>5, <1>7, <1>8, <1>9, <1>10 DEF ScriptInv

-----------------------------------------------------------------------------
(***************************************************************************)
(* Steps that do not run TLC.                                              *)
(***************************************************************************)
\* A stage that is not a TLC stage succeeds.
LEMMA PassKeeps ==
  ASSUME ScriptInv, pc # <<>>, tlc.state = "none", Head(pc) \notin TlcStages, Pass,
         Guarded(Tail(pc)) \/ AllPinned, checked' \subseteq Tool, \A t \in checked' : cache[t] = "pinned",
         UNCHANGED <<todo, facts, earned, exit, tlc, cache>>
  PROVE  ScriptInv'
<1> USE DEF ScriptInv
<1>1. pc' = Tail(pc) /\ verdict' = (IF Len(pc) = 1 THEN "returned" ELSE "none") BY DEF Pass
<1>2. /\ Tail(pc) \in Seq(Stage) /\ ToSet(pc) = {Head(pc)} \cup ToSet(Tail(pc))
      /\ Len(pc) = 1 <=> Tail(pc) = <<>>
  BY HeadAndTail DEF Shape
<1>3. verdict' # "none" => pc' = <<>> BY <1>1, <1>2
<1>4. verdict' \in {"returned", "none"} BY <1>1
<1>5. todo # <<>> /\ todo' = todo BY DEF Shape
<1>6. Shape'
  <2>1. tlc'.state = "none" OBVIOUS
  <2> QED BY <1>1, <1>2, <1>3, <1>5, <2>1 DEF Shape
<1>7. Pins'
  <2>1. AllPinned <=> AllPinned' BY DEF AllPinned
  <2>2. Guarded(pc)' <=> Guarded(Tail(pc)) BY <1>1 DEF Guarded
  <2> QED BY <2>1, <2>2 DEF Pins
<1>8. Process' BY DEF Process
<1>9. Judged'
  <2>1. TlcOf(pc) = TlcOf(Tail(pc)) BY <1>2 DEF TlcOf
  <2>2. Head(todo).want = "accept" => OnTrack(facts, Tail(pc), Head(todo))
    BY <2>1 DEF Judged, OnTrack
  <2>3. Head(todo).want = "malformed" => pc' = <<>>
    <3>1. Head(todo).want = "malformed" => Len(pc) = 1 BY DEF Judged
    <3> QED BY <1>1, <1>2, <3>1
  <2> QED BY <1>1, <1>4, <1>5, <2>2, <2>3 DEF Judged
<1>10. Honoured' BY DEF Honoured
<1> QED BY <1>6, <1>7, <1>8, <1>9, <1>10

\* A stage ends the job with an exception that shows nothing about a model.
LEMMA StopKeeps ==
  ASSUME ScriptInv, pc # <<>>, NEW v \in {"Malformed", "ValueError", "RuntimeError", "AcceptedMutation"},
         Stop(v), v = "Malformed" /\ Head(todo).want = "malformed" => ~Load(file'),
         tlc'.state = "none", tlc' = Run(tlc'.state, tlc'.truth, tlc'.log, tlc'.rest, tlc'.code),
         checked' \subseteq Tool, \A t \in checked' : cache[t] = "pinned",
         UNCHANGED <<todo, earned, exit, cache>>
  PROVE  ScriptInv'
<1> USE DEF ScriptInv
<1>1. pc' = <<>> /\ verdict' = v BY DEF Stop
<1>2. todo # <<>> BY DEF Shape
<1>3. pc' \in Seq(Stage) BY <1>1
<1>4. Shape' BY <1>1, <1>2, <1>3 DEF Shape
<1>5. Guarded(pc)' BY <1>1 DEF Guarded
<1>6. Pins' BY <1>5 DEF Pins
<1>7. Process' BY DEF Process
<1>8. Judged' BY <1>1 DEF Judged
<1>9. Honoured' BY DEF Honoured
<1> QED BY <1>4, <1>6, <1>7, <1>8, <1>9

LEMMA LoadKeeps == ASSUME ScriptInv, LoadStage PROVE ScriptInv'
<1> DEFINE ok == CASE Head(pc) = "load" -> Load(file)
                   [] Head(pc) = "load_read" -> LoadRead(file)
                   [] Head(pc) = "load_projection" -> Load(Project(file))
<1>1. /\ pc # <<>> /\ tlc.state = "none" /\ Head(pc) \in {"load", "load_read", "load_projection"}
      /\ IF ok THEN Pass ELSE Stop("Malformed")
      /\ UNCHANGED <<todo, file, checked, facts, earned, exit, tlc, cache>>
  BY DEF LoadStage, AtStage
<1>2. Head(pc) \notin TlcStages /\ Head(pc) # "classpath" BY <1>1 DEF TlcStages
<1>3. checked' \subseteq Tool /\ \A t \in checked' : cache[t] = "pinned" BY <1>1 DEF ScriptInv, Pins
<1>4. CASE ok
  <2>1. Pass BY <1>1, <1>4
  <2>2. Guarded(Tail(pc)) \/ AllPinned BY <1>1, <1>2, GuardedTail DEF ScriptInv, Pins, Shape
  <2> QED BY <1>1, <1>2, <1>3, <2>1, <2>2, PassKeeps
<1>5. CASE ~ok
  <2>1. Stop("Malformed") BY <1>1, <1>5
  <2>2. Head(todo).want = "malformed" => ~Load(file')
    <3>1. ASSUME Head(todo).want = "malformed" PROVE Head(pc) = "load"
      <4>1. pc = <<"load">> BY <1>1, <3>1 DEF ScriptInv, Judged
      <4> QED BY <4>1
    <3>2. ASSUME Head(pc) = "load" PROVE ~Load(file) BY <1>5, <3>2
    <3> QED BY <1>1, <3>1, <3>2
  <2>3. /\ tlc'.state = "none"
        /\ tlc' = Run(tlc'.state, tlc'.truth, tlc'.log, tlc'.rest, tlc'.code)
    BY <1>1 DEF ScriptInv, Process
  <2> QED BY <1>1, <1>3, <2>1, <2>2, <2>3, StopKeeps
<1> QED BY <1>4, <1>5

LEMMA TranslateKeeps == ASSUME ScriptInv, Translate PROVE ScriptInv'
<1>1. /\ pc # <<>> /\ tlc.state = "none" /\ Head(pc) \in {"instructions", "extract"}
      /\ Stop("ValueError") \/ Pass
      /\ UNCHANGED <<todo, checked, facts, earned, exit, tlc, cache>>
  BY DEF Translate, AtStage
<1>2. Head(pc) \notin TlcStages /\ Head(pc) # "classpath" BY <1>1 DEF TlcStages
<1>3. checked' \subseteq Tool /\ \A t \in checked' : cache[t] = "pinned" BY <1>1 DEF ScriptInv, Pins
<1>4. CASE Pass
  <2>1. Guarded(Tail(pc)) \/ AllPinned BY <1>1, <1>2, GuardedTail DEF ScriptInv, Pins, Shape
  <2> QED BY <1>1, <1>2, <1>3, <1>4, <2>1, PassKeeps
<1>5. CASE Stop("ValueError")
  <2>1. /\ tlc'.state = "none"
        /\ tlc' = Run(tlc'.state, tlc'.truth, tlc'.log, tlc'.rest, tlc'.code)
    BY <1>1 DEF ScriptInv, Process
  <2> QED BY <1>1, <1>3, <1>5, <2>1, StopKeeps
<1> QED BY <1>1, <1>4, <1>5

LEMMA ValidateKeeps == ASSUME ScriptInv, ValidateHistory PROVE ScriptInv'
<1>1. /\ pc # <<>> /\ tlc.state = "none" /\ Head(pc) \in {"validate_history"}
      /\ Stop("ValueError") \/ Pass
      /\ UNCHANGED <<todo, checked, facts, earned, exit, tlc, cache>>
  BY DEF ValidateHistory, AtStage
<1>2. Head(pc) \notin TlcStages /\ Head(pc) # "classpath" BY <1>1 DEF TlcStages
<1>3. checked' \subseteq Tool /\ \A t \in checked' : cache[t] = "pinned" BY <1>1 DEF ScriptInv, Pins
<1>4. CASE Pass
  <2>1. Guarded(Tail(pc)) \/ AllPinned BY <1>1, <1>2, GuardedTail DEF ScriptInv, Pins, Shape
  <2> QED BY <1>1, <1>2, <1>3, <1>4, <2>1, PassKeeps
<1>5. CASE Stop("ValueError")
  <2>1. /\ tlc'.state = "none"
        /\ tlc' = Run(tlc'.state, tlc'.truth, tlc'.log, tlc'.rest, tlc'.code)
    BY <1>1 DEF ScriptInv, Process
  <2> QED BY <1>1, <1>3, <1>5, <2>1, StopKeeps
<1> QED BY <1>1, <1>4, <1>5

\* The last jar compared makes all of them pinned, and pinned jars stay so.
LEMMA ClasspathKeeps == ASSUME ScriptInv, NEW t \in Tool, Classpath(t) PROVE ScriptInv'
<1>1. /\ pc # <<>> /\ tlc.state = "none" /\ Head(pc) \in {"classpath"}
      /\ IF cache[t] # "pinned" THEN Stop("RuntimeError") /\ checked' = {}
         ELSE IF checked \cup {t} = Tool THEN Pass /\ checked' = {}
         ELSE checked' = checked \cup {t} /\ UNCHANGED <<pc, verdict>>
      /\ UNCHANGED <<todo, file, history, facts, earned, exit, tlc, cache>>
  BY DEF Classpath, AtStage
<1>2. Head(pc) \notin TlcStages BY <1>1 DEF TlcStages
<1>3. checked \subseteq Tool /\ \A u \in checked : cache[u] = "pinned" BY DEF ScriptInv, Pins
<1>4. CASE cache[t] # "pinned"
  <2>1. Stop("RuntimeError") /\ checked' = {} BY <1>1, <1>4
  <2>2. /\ tlc'.state = "none"
        /\ tlc' = Run(tlc'.state, tlc'.truth, tlc'.log, tlc'.rest, tlc'.code)
    BY <1>1 DEF ScriptInv, Process
  <2> QED BY <1>1, <2>1, <2>2, StopKeeps
<1>5. CASE cache[t] = "pinned" /\ checked \cup {t} = Tool
  <2>1. Pass /\ checked' = {} BY <1>1, <1>5
  <2>2. AllPinned BY <1>3, <1>5 DEF AllPinned
  <2> QED BY <1>1, <1>2, <2>1, <2>2, PassKeeps
<1>6. CASE cache[t] = "pinned" /\ checked \cup {t} # Tool
  <2>1. checked' = checked \cup {t} /\ UNCHANGED <<pc, verdict>> BY <1>1, <1>6
  <2>2. checked' \subseteq Tool /\ \A u \in checked' : cache[u] = "pinned" BY <1>3, <1>6, <2>1
  <2>3. Shape' BY <1>1, <2>1 DEF ScriptInv, Shape
  <2>4. Pins'
    <3>1. Guarded(pc)' <=> Guarded(pc) BY <2>1 DEF Guarded
    <3>2. AllPinned' <=> AllPinned BY <1>1 DEF AllPinned
    <3> QED BY <1>1, <2>2, <3>1, <3>2 DEF ScriptInv, Pins
  <2>5. Process' BY <1>1, <2>1 DEF ScriptInv, Process
  <2>6. Judged' BY <1>1, <2>1 DEF ScriptInv, Judged
  <2>7. Honoured' BY <1>1 DEF ScriptInv, Honoured
  <2> QED BY <2>3, <2>4, <2>5, <2>6, <2>7 DEF ScriptInv
<1> QED BY <1>4, <1>5, <1>6

LEMMA UpstreamKeeps ==
  ASSUME ScriptInv, NEW pristine \in BOOLEAN, VerifyUpstream(pristine)
  PROVE  ScriptInv'
<1>1. exit = "starting" /\ exit' \in {"running", "failed"} BY DEF VerifyUpstream
<1>2. UNCHANGED <<todo, pc, verdict, file, history, checked, facts, earned, tlc, cache>>
  BY DEF VerifyUpstream
<1>3. Shape' BY <1>2 DEF ScriptInv, Shape
<1>4. Pins' BY <1>2 DEF ScriptInv, Pins, Guarded, AllPinned
<1>5. Process' BY <1>2 DEF ScriptInv, Process
<1>6. Judged' BY <1>2 DEF ScriptInv, Judged
<1>7. Honoured' BY <1>1, <1>2 DEF ScriptInv, Honoured
<1> QED BY <1>3, <1>4, <1>5, <1>6, <1>7 DEF ScriptInv

LEMMA SucceedKeeps == ASSUME ScriptInv, Succeed PROVE ScriptInv'
<1>1. exit = "running" /\ exit' = "passed" /\ todo = <<>> BY DEF Succeed
<1>2. UNCHANGED <<todo, pc, verdict, file, history, checked, facts, earned, tlc, cache>>
  BY DEF Succeed
<1>3. Shape' BY <1>2 DEF ScriptInv, Shape
<1>4. Pins' BY <1>2 DEF ScriptInv, Pins, Guarded, AllPinned
<1>5. Process' BY <1>2 DEF ScriptInv, Process
<1>6. Judged' BY <1>2 DEF ScriptInv, Judged
<1>7. Honoured' BY <1>1, <1>2 DEF ScriptInv, Honoured
<1> QED BY <1>3, <1>4, <1>5, <1>6, <1>7 DEF ScriptInv

LEMMA JobSetFields ==
  ASSUME NEW j \in JobSet
  PROVE  IsJob(j)
<1> DEFINE S == {Job(p, w, s) : p \in Pipes, w \in Wants, s \in Names}
<1>1. JobSet = {i \in S : IsJob(i)} BY DEF JobSet
<1> HIDE DEF S, JobSet, IsJob
<1> QED BY <1>1

\* A job starts on track: nothing is done and its whole pipeline is left.
LEMMA BeginKeeps == ASSUME ScriptInv, BeginJob PROVE ScriptInv'
<1>1. /\ exit = "running" /\ todo # <<>> /\ pc = <<>> /\ verdict = "none"
      /\ facts' = {} /\ checked' = {}
      /\ UNCHANGED <<todo, verdict, earned, tlc, cache>>
  BY DEF BeginJob
<1>2. tlc.state = "none" BY <1>1 DEF ScriptInv, Shape
<1> DEFINE job == Head(todo)
<1>3. job \in JobSet BY <1>1, HeadAndTail DEF ScriptInv, Shape
<1>4. job.pipe \in Pipes /\ (job.want = "malformed" => job.pipe = <<"load">>)
  BY <1>3, JobSetFields DEF IsJob
<1>5. \/ exit' = "failed" /\ pc' = pc
      \/ exit' = exit /\ pc' = job.pipe
  <2> HIDE DEF JobFiles, JobHistories
  <2> QED BY DEF BeginJob, CurrentJob
<1> HIDE DEF job
<1>6. Process' BY <1>1, <1>2 DEF ScriptInv, Process
<1>7. Honoured' BY <1>1, <1>5 DEF ScriptInv, Honoured
<1>8. CASE pc' = pc
  <2>1. Shape' BY <1>1, <1>8 DEF ScriptInv, Shape
  <2>2. Pins'
    <3>1. Guarded(pc)' <=> Guarded(pc) BY <1>8 DEF Guarded
    <3>2. AllPinned' <=> AllPinned BY <1>1 DEF AllPinned
    <3> QED BY <1>1, <3>1, <3>2 DEF ScriptInv, Pins
  <2>3. Judged' BY <1>1, <1>8 DEF Judged
  <2> QED BY <1>6, <1>7, <2>1, <2>2, <2>3 DEF ScriptInv
<1>9. CASE pc' = job.pipe
  <2>1. pc' \in Seq(Stage) /\ Guarded(job.pipe) BY <1>4, <1>9, PipeStages
  <2>2. Shape' BY <1>1, <1>2, <2>1 DEF ScriptInv, Shape
  <2>3. Guarded(pc)' BY <1>9, <2>1 DEF Guarded
  <2>4. Pins' BY <1>1, <2>3 DEF ScriptInv, Pins
  <2>5. OnTrack({}, job.pipe, job) BY DEF OnTrack, StagesOf
  <2>6. Judged'
    <3>1. facts' = {} /\ pc' = job.pipe /\ Head(todo') = job /\ verdict' = "none"
      BY <1>1, <1>9 DEF job
    <3>2. OnTrack(facts', pc', Head(todo')) BY <2>5, <3>1
    <3>3. Head(todo').want = "malformed" => pc' = <<"load">> BY <1>4, <3>1
    <3> QED BY <3>1, <3>2, <3>3 DEF Judged
  <2> QED BY <1>6, <1>7, <2>2, <2>4, <2>6 DEF ScriptInv
<1> QED BY <1>5, <1>8, <1>9

\* A caller that is content got what the job deserves.
LEMMA ContentDeserved ==
  ASSUME ScriptInv, verdict # "none", Meets(Head(todo), verdict)
  PROVE  Deserved(Head(todo))
<1> DEFINE job == Head(todo)
<1>1. todo # <<>> /\ pc = <<>> BY DEF ScriptInv, Shape
<1>2. job \in JobSet BY <1>1, HeadAndTail DEF ScriptInv, Shape
<1>3. job.want \in Wants BY <1>2, JobSetFields DEF IsJob
<1>4. TlcOf(pc) = {} BY <1>1 DEF TlcOf, ToSet
<1>5. /\ verdict = "Malformed" /\ job.want = "malformed" => ~Load(file)
      /\ verdict = "linearizable" => Linearizations(history) # {}
      /\ verdict = "refuted" => Linearizations(history) = {}
      /\ verdict = "ConformanceError" => \E f \in facts : Rejects(f)
      /\ verdict = "returned" /\ job.want = "accept" => OnTrack(facts, pc, job)
  BY DEF ScriptInv, Judged
<1> HIDE DEF job
<1>6. Meets(job, verdict) BY DEF job
<1>7. CASE job.want = "accept"
  <2>1. verdict = "returned" BY <1>6, <1>7 DEF Meets
  <2>2. OnTrack(facts, pc, job) BY <1>5, <1>7, <2>1
  <2>3. ToSet(job.pipe) \cap TlcStages = {f.stage : f \in facts}
    BY <1>4, <2>2 DEF OnTrack, TlcOf, StagesOf
  <2>4. \A f \in facts : Supports(f, job) BY <2>2 DEF OnTrack
  <2>5. Deserved(job) BY <1>7, <2>3, <2>4 DEF Deserved
  <2> QED BY <2>5 DEF job
<1>8. CASE job.want = "reject"
  <2>1. verdict = "ConformanceError" BY <1>6, <1>8 DEF Meets
  <2>2. Deserved(job) BY <1>5, <1>8, <2>1 DEF Deserved
  <2> QED BY <2>2 DEF job
<1>9. CASE job.want = "malformed"
  <2>1. verdict = "Malformed" BY <1>6, <1>9 DEF Meets
  <2>2. Deserved(job) BY <1>5, <1>9, <2>1 DEF Deserved
  <2> QED BY <2>2 DEF job
<1>10. CASE job.want = "linearizable"
  <2>1. verdict = "linearizable" BY <1>6, <1>10 DEF Meets
  <2>2. Deserved(job) BY <1>5, <1>10, <2>1 DEF Deserved
  <2> QED BY <2>2 DEF job
<1>11. CASE job.want = "refuted"
  <2>1. verdict = "refuted" BY <1>6, <1>11 DEF Meets
  <2>2. Deserved(job) BY <1>5, <1>11, <2>1 DEF Deserved
  <2> QED BY <2>2 DEF job
<1> QED BY <1>3, <1>7, <1>8, <1>9, <1>10, <1>11 DEF Wants

LEMMA FinishKeeps == ASSUME ScriptInv, FinishJob PROVE ScriptInv'
<1>1. /\ exit = "running" /\ verdict # "none"
      /\ exit' = IF Meets(Head(todo), verdict) THEN exit ELSE "failed"
      /\ earned' = (earned /\ Deserved(Head(todo)))
      /\ todo' = Tail(todo) /\ verdict' = "none" /\ facts' = {}
      /\ UNCHANGED <<pc, file, history, checked, tlc, cache>>
  BY DEF FinishJob, CurrentJob
<1>2. todo # <<>> /\ pc = <<>> BY <1>1 DEF ScriptInv, Shape
<1>3. tlc.state = "none" BY <1>2 DEF ScriptInv, Shape
<1>4. Tail(todo) \in Seq(JobSet) BY <1>2, HeadAndTail DEF ScriptInv, Shape
<1>5. Shape' BY <1>1, <1>2, <1>3, <1>4 DEF ScriptInv, Shape
<1>6. Pins' BY <1>1 DEF ScriptInv, Pins, Guarded, AllPinned
<1>7. Process' BY <1>1, <1>3 DEF ScriptInv, Process
<1>8. Judged' BY <1>1, <1>2 DEF Judged
<1>9. exit' = "failed" \/ (exit' = "running" /\ Deserved(Head(todo)))
  BY <1>1, ContentDeserved
<1>10. earned = TRUE BY <1>1 DEF ScriptInv, Honoured
<1>11. Deserved(Head(todo)) => earned' = TRUE BY <1>1, <1>10, Zenon
<1>12. Honoured' BY <1>9, <1>11 DEF Honoured
<1> QED BY <1>5, <1>6, <1>7, <1>8, <1>12 DEF ScriptInv

-----------------------------------------------------------------------------
(***************************************************************************)
(* TLC's steps.                                                            *)
(***************************************************************************)
LEMMA RunFields ==
  ASSUME NEW s, NEW t, NEW l, NEW r, NEW c
  PROVE  /\ Run(s, t, l, r, c).state = s /\ Run(s, t, l, r, c).truth = t
         /\ Run(s, t, l, r, c).log = l /\ Run(s, t, l, r, c).rest = r
         /\ Run(s, t, l, r, c).code = c
BY DEF Run

\* Only the subprocess moves.
LEMMA ProcessMoves ==
  ASSUME ScriptInv, tlc'.state # "none" => pc # <<>> /\ Head(pc) \in TlcStages, Process',
         UNCHANGED <<scriptVars, cache>>
  PROVE  ScriptInv'
<1>1. UNCHANGED <<todo, pc, verdict, file, history, checked, facts, earned, exit, cache>>
  BY DEF scriptVars
<1>2. Shape' BY <1>1 DEF ScriptInv, Shape
<1>3. Pins' BY <1>1 DEF ScriptInv, Pins, Guarded, AllPinned
<1>4. Judged' BY <1>1 DEF ScriptInv, Judged
<1>5. Honoured' BY <1>1 DEF ScriptInv, Honoured
<1> QED BY <1>2, <1>3, <1>4, <1>5 DEF ScriptInv

LEMMA LaunchKeeps == ASSUME ScriptInv, Launch PROVE ScriptInv'
<1>1. pc # <<>> /\ Head(pc) \in TlcStages /\ UNCHANGED <<scriptVars, cache>>
  BY DEF Launch, AtStage
<1>2. PICK truth \in Truths(Head(pc)) :
        tlc' = Run("running", truth, <<>>, FullLog(truth, Head(pc) = "simulate"), 0)
  BY DEF Launch, Run
<1> DEFINE L == FullLog(truth, Head(pc) = "simulate")
<1>3. Possible(truth, Head(pc), history) BY <1>1, <1>2, TruthsPossible
<1>4. truth.result \in Results BY <1>3 DEF Possible
<1>5. L \in Seq(Honest(truth)) BY <1>4, FullLogHonest
<1>6. <<>> \in Seq(Honest(truth)) OBVIOUS
<1> HIDE DEF L
<1>7. tlc' = Run("running", truth, <<>>, L, 0) BY <1>2 DEF L
<1>8. /\ tlc'.state = "running" /\ tlc'.truth = truth /\ tlc'.log = <<>> /\ tlc'.rest = L
      /\ tlc'.code = 0
  BY <1>7, RunFields
<1>9. pc' = pc /\ history' = history BY <1>1 DEF scriptVars
<1>10. Process' BY <1>3, <1>5, <1>6, <1>7, <1>8, <1>9 DEF Process
<1> QED BY <1>1, <1>10, ProcessMoves

LEMMA EmitKeeps == ASSUME ScriptInv, Emit PROVE ScriptInv'
<1>1. /\ tlc.state = "running" /\ tlc.rest # <<>> /\ UNCHANGED <<scriptVars, cache>>
      /\ tlc' = [tlc EXCEPT !.log = Append(@, Head(tlc.rest)), !.rest = Tail(@)]
  BY DEF Emit
<1>2. pc # <<>> /\ Head(pc) \in TlcStages BY <1>1 DEF ScriptInv, Shape
<1>3. /\ tlc = Run(tlc.state, tlc.truth, tlc.log, tlc.rest, tlc.code)
      /\ Possible(tlc.truth, Head(pc), history)
      /\ tlc.log \in Seq(Honest(tlc.truth)) /\ tlc.rest \in Seq(Honest(tlc.truth))
  BY <1>1 DEF ScriptInv, Process
<1> DEFINE l == Append(tlc.log, Head(tlc.rest))
           r == Tail(tlc.rest)
<1>4. l \in Seq(Honest(tlc.truth)) /\ r \in Seq(Honest(tlc.truth))
  <2>1. Head(tlc.rest) \in Honest(tlc.truth) /\ r \in Seq(Honest(tlc.truth)) BY <1>1, <1>3, HeadAndTail
  <2> QED BY <1>3, <2>1, AppendProperties
<1>5. tlc' = [tlc EXCEPT !.log = l, !.rest = r] BY <1>1
<1> HIDE DEF l, r
<1>6. tlc' = Run(tlc.state, tlc.truth, l, r, tlc.code) BY <1>3, <1>5 DEF Run
<1>7. /\ tlc'.state = "running" /\ tlc'.truth = tlc.truth /\ tlc'.log = l /\ tlc'.rest = r
      /\ tlc'.code = tlc.code
  <2>1. tlc.state = "running" BY <1>1
  <2> QED BY ONLY <1>6, <2>1, RunFields
<1>8. pc' = pc /\ history' = history BY <1>1 DEF scriptVars
<1>9. Process' BY <1>1, <1>3, <1>4, <1>6, <1>7, <1>8 DEF Process
<1> QED BY <1>1, <1>2, <1>9, ProcessMoves

\* It ends, by itself or killed.
LEMMA EndKeeps ==
  ASSUME ScriptInv, tlc.state = "running", NEW c \in {ExitCode(tlc.truth), Killed},
         tlc' = [tlc EXCEPT !.state = "exited", !.code = c], UNCHANGED <<scriptVars, cache>>
  PROVE  ScriptInv'
<1>1. pc # <<>> /\ Head(pc) \in TlcStages BY DEF ScriptInv, Shape
<1>2. /\ tlc = Run(tlc.state, tlc.truth, tlc.log, tlc.rest, tlc.code)
      /\ Possible(tlc.truth, Head(pc), history)
      /\ tlc.log \in Seq(Honest(tlc.truth)) /\ tlc.rest \in Seq(Honest(tlc.truth))
  BY DEF ScriptInv, Process
<1>3. tlc' = Run("exited", tlc.truth, tlc.log, tlc.rest, c) BY <1>2 DEF Run
<1>4. /\ tlc'.state = "exited" /\ tlc'.truth = tlc.truth /\ tlc'.log = tlc.log
      /\ tlc'.rest = tlc.rest /\ tlc'.code = c
  BY <1>3, RunFields
<1>5. pc' = pc /\ history' = history BY DEF scriptVars
<1>6. Process' BY <1>2, <1>3, <1>4, <1>5 DEF Process
<1> QED BY <1>1, <1>6, ProcessMoves

LEMMA ExitKeeps == ASSUME ScriptInv, Exit PROVE ScriptInv'
BY EndKeeps, Zenon DEF Exit

LEMMA KillKeeps == ASSUME ScriptInv, Kill PROVE ScriptInv'
BY EndKeeps, Zenon DEF Kill

LEMMA NoTlcShape ==
  /\ NoTlc.state = "none"
  /\ NoTlc = Run(NoTlc.state, NoTlc.truth, NoTlc.log, NoTlc.rest, NoTlc.code)
BY DEF NoTlc, Run

LEMMA ExpireKeeps == ASSUME ScriptInv, Expire PROVE ScriptInv'
<1>1. /\ tlc.state = "running" /\ tlc' = NoTlc /\ Stop("RuntimeError")
      /\ UNCHANGED <<todo, file, history, checked, facts, earned, exit, cache>>
  BY DEF Expire
<1>2. pc # <<>> BY <1>1 DEF ScriptInv, Shape
<1>3. tlc'.state = "none" /\ tlc' = Run(tlc'.state, tlc'.truth, tlc'.log, tlc'.rest, tlc'.code)
  BY <1>1, NoTlcShape
<1>4. checked' \subseteq Tool /\ \A t \in checked' : cache[t] = "pinned" BY <1>1 DEF ScriptInv, Pins
<1> QED BY <1>1, <1>2, <1>3, <1>4, StopKeeps

-----------------------------------------------------------------------------
(***************************************************************************)
(* The other shells: a jar is only ever replaced by the pinned one.        *)
(***************************************************************************)
LEMMA FetchCache ==
  ASSUME Fetch
  PROVE  /\ UNCHANGED <<scriptVars, tlc>>
         /\ cache' = cache \/ \E t \in Tool : cache' = [cache EXCEPT ![t] = "pinned"]
<1>1. PICK p \in Shell :
        \/ FetchStart(p) \/ FetchEnd(p)
        \/ \E t \in Tool : FetchLook(p, t) \/ FetchReplace(p, t)
        \/ \E content \in {"pinned", "other"} : FetchDownload(p, content)
  BY DEF Fetch
<1>2. CASE FetchStart(p) BY <1>2 DEF FetchStart, FetchOnly
<1>3. CASE FetchEnd(p) BY <1>3 DEF FetchEnd, FetchOnly
<1>4. ASSUME NEW t \in Tool, FetchLook(p, t) PROVE UNCHANGED <<scriptVars, tlc, cache>>
  BY <1>4 DEF FetchLook, FetchOnly
<1>5. ASSUME NEW t \in Tool, FetchReplace(p, t)
      PROVE  UNCHANGED <<scriptVars, tlc>> /\ cache' = [cache EXCEPT ![t] = "pinned"]
  BY <1>5 DEF FetchReplace, FetchOnly
<1>6. ASSUME NEW content, FetchDownload(p, content) PROVE UNCHANGED <<scriptVars, tlc, cache>>
  BY <1>6 DEF FetchDownload, FetchOnly
<1> QED BY <1>1, <1>2, <1>3, <1>4, <1>5, <1>6

LEMMA FetchPins ==
  ASSUME Pins, Fetch
  PROVE  /\ cache' \in [Tool -> {"absent", "other", "pinned"}]
         /\ \A t \in Tool : cache[t] = "pinned" => cache'[t] = "pinned"
BY FetchCache DEF Pins

LEMMA FetchKeeps == ASSUME ScriptInv, Fetch PROVE ScriptInv'
<1>1. UNCHANGED <<todo, pc, verdict, file, history, checked, facts, earned, exit, tlc>>
  BY FetchCache DEF scriptVars
<1>2. /\ cache' \in [Tool -> {"absent", "other", "pinned"}]
      /\ \A t \in Tool : cache[t] = "pinned" => cache'[t] = "pinned"
  BY FetchPins DEF ScriptInv
<1>3. Shape' BY <1>1 DEF ScriptInv, Shape
<1>4. Pins'
  <2>1. AllPinned => AllPinned' BY <1>2 DEF AllPinned
  <2>2. Guarded(pc)' <=> Guarded(pc) BY <1>1 DEF Guarded
  <2> QED BY <1>1, <1>2, <2>1, <2>2 DEF ScriptInv, Pins
<1>5. Process' BY <1>1 DEF ScriptInv, Process
<1>6. Judged' BY <1>1 DEF ScriptInv, Judged
<1>7. Honoured' BY <1>1 DEF ScriptInv, Honoured
<1> QED BY <1>3, <1>4, <1>5, <1>6, <1>7 DEF ScriptInv

-----------------------------------------------------------------------------
(***************************************************************************)
(* Reading a verdict off an exit code and a log.                           *)
(***************************************************************************)
Fact(stage, truth) ==
  [stage |-> stage, result |-> truth.result, invariant |-> truth.invariant]

LEMMA FactFields ==
  ASSUME NEW s, NEW t
  PROVE  Fact(s, t).stage = s /\ Fact(s, t).result = t.result /\ Fact(s, t).invariant = t.invariant
BY DEF Fact

\* The code tells the result, unless the run was killed.
LEMMA CodeTells ==
  ASSUME NEW t, t.result \in Results, NEW c \in {ExitCode(t), Killed}
  PROVE  /\ c = 0 => t.result \in {"holds", "trivial"}
         /\ c = 11 => t.result = "deadlock"
         /\ c = 12 => t.result = "violated"
<1>1. CASE t.result = "holds" BY <1>1 DEF ExitCode, Killed
<1>2. CASE t.result = "deadlock" BY <1>2 DEF ExitCode, Killed
<1>3. CASE t.result = "violated" BY <1>3 DEF ExitCode, Killed
<1>4. CASE t.result = "broken" BY <1>4 DEF ExitCode, Killed
<1>5. CASE t.result = "trivial" BY <1>5 DEF ExitCode, Killed
<1> QED BY <1>1, <1>2, <1>3, <1>4, <1>5 DEF Results

\* The lines that were read are honest.
LEMMA LogTells ==
  ASSUME tlc.log \in Seq(Honest(tlc.truth))
  PROVE  /\ Violations # {} => tlc.truth.result = "violated"
         /\ Printed("deadlock") => tlc.truth.result = "deadlock"
         /\ Printed("several_states") => tlc.truth.result = "holds"
         /\ \A i : Violated(i) => tlc.truth.invariant = i
<1>1. \A l \in ToSet(tlc.log) : l \in Honest(tlc.truth)
  <2>1. \A k \in 1..Len(tlc.log) : tlc.log[k] \in Honest(tlc.truth) BY ElementOfSeq
  <2>2. DOMAIN tlc.log = 1..Len(tlc.log) BY LenProperties
  <2> QED BY <2>1, <2>2 DEF ToSet
<1>2. \A l \in Violations : tlc.truth.result = "violated" /\ l = <<"violated", tlc.truth.invariant>>
  BY <1>1, HonestViolation DEF Violations
<1>3. /\ Printed("deadlock") => tlc.truth.result = "deadlock"
      /\ Printed("several_states") => tlc.truth.result = "holds"
  BY <1>1, HonestDeadlock, HonestSeveral DEF Printed
<1>4. ASSUME NEW i, Violated(i) PROVE tlc.truth.invariant = i
  <2>1. <<"violated", i>> \in Violations BY <1>4 DEF Violated
  <2>2. <<"violated", i>> = <<"violated", tlc.truth.invariant>> BY <1>2, <2>1
  <2> QED BY <2>2
<1> QED BY <1>2, <1>3, <1>4

\* The verdict on a stage other than the history's.
StageVerdict(stage) ==
  CASE stage \in {"model", "simulate"} -> CheckVerdict(stage)
    [] stage = "profile" -> ProfileVerdict(Head(todo).name)
    [] stage = "consensus" -> ConsensusVerdict
    [] stage = "read" -> ReadVerdict

\* A stage that is passed supports its job; a model that is blamed rejects.
LEMMA StageVerdictSound ==
  ASSUME tlc.log \in Seq(Honest(tlc.truth)), tlc.truth.result \in Results,
         tlc.code \in {ExitCode(tlc.truth), Killed},
         NEW stage \in TlcStages, stage # "history",
         tlc.truth.result = "trivial" => stage = "profile"
  PROVE  /\ StageVerdict(stage) \in {"ok", "RuntimeError", "ConformanceError"}
         /\ StageVerdict(stage) = "ok" => Supports(Fact(stage, tlc.truth), Head(todo))
         /\ StageVerdict(stage) = "ConformanceError" => Rejects(Fact(stage, tlc.truth))
<1> DEFINE f == Fact(stage, tlc.truth)
           r == tlc.truth.result
           job == Head(todo)
           v == StageVerdict(stage)
<1>1. f.stage = stage /\ f.result = r /\ f.invariant = tlc.truth.invariant BY FactFields
<1>2. /\ tlc.code = 0 /\ stage # "profile" => r = "holds"
      /\ tlc.code = 11 => r = "deadlock"
      /\ tlc.code = 12 => r = "violated"
  BY CodeTells
<1>3. /\ Violations # {} => r = "violated"
      /\ Printed("deadlock") => r = "deadlock"
      /\ Printed("several_states") => r = "holds"
      /\ \A i : Violated(i) => tlc.truth.invariant = i
  BY LogTells
<1> HIDE DEF f, r, job
<1>4. r \in {"violated", "deadlock"} => Rejects(f) BY <1>1 DEF Rejects
<1>5. r = "holds" /\ stage # "profile" => Supports(f, job) BY <1>1 DEF Supports
<1>6. CASE stage \in {"model", "simulate"}
  <2>1. v = CheckVerdict(stage) BY <1>6 DEF StageVerdict
  <2>2. v \in {"ok", "RuntimeError"} /\ (v = "ok" => tlc.code = 0) BY <2>1 DEF CheckVerdict
  <2>3. v = "ok" => Supports(f, job) BY <1>2, <1>5, <1>6, <2>2
  <2> QED BY <2>2, <2>3 DEF f, job
<1>7. CASE stage = "profile"
  <2> DEFINE e == Expected(job.name)
  <2>1. v = ProfileVerdict(job.name) BY <1>7 DEF StageVerdict, job
  <2>2. /\ v \in {"ok", "RuntimeError"}
        /\ v = "ok" /\ e # NoInvariant => Violated(e)
        /\ v = "ok" /\ e = NoInvariant => Printed("several_states")
    BY <2>1 DEF ProfileVerdict
  <2>3. e # NoInvariant /\ f.invariant = e => Supports(f, job) BY <1>1, <1>7 DEF Supports
  <2>4. e = NoInvariant /\ f.result = "holds" => Supports(f, job) BY <1>1, <1>7 DEF Supports
  <2> HIDE DEF e, v
  <2>5. v = "ok" => Supports(f, job) BY <1>1, <1>2, <1>3, <2>2, <2>3, <2>4
  <2> QED BY <2>2, <2>5 DEF f, job, v
<1>8. CASE stage = "consensus"
  <2>1. v = ConsensusVerdict BY <1>8 DEF StageVerdict
  <2>2. /\ v \in {"ok", "RuntimeError", "ConformanceError"}
        /\ v = "ok" => tlc.code = 0
        /\ v = "ConformanceError" => Printed("deadlock") \/ Violations # {}
    BY <2>1 DEF ConsensusVerdict, CompletedTrace
  <2>3. v = "ok" => Supports(f, job) BY <1>2, <1>5, <1>8, <2>2
  <2>4. v = "ConformanceError" => Rejects(f) BY <1>3, <1>4, <2>2
  <2> QED BY <2>2, <2>3, <2>4 DEF f, job
<1>9. CASE stage = "read"
  <2>1. v = ReadVerdict BY <1>9 DEF StageVerdict
  <2>2. /\ v \in {"ok", "RuntimeError", "ConformanceError"}
        /\ v = "ok" => tlc.code = 0
        /\ v = "ConformanceError" => tlc.code = 11 \/ tlc.code = 12
    BY <2>1 DEF ReadVerdict, CompletedTrace
  <2>3. v = "ok" => Supports(f, job) BY <1>2, <1>5, <1>9, <2>2
  <2>4. v = "ConformanceError" => Rejects(f) BY <1>2, <1>4, <2>2
  <2> QED BY <2>2, <2>3, <2>4 DEF f, job
<1> QED BY <1>6, <1>7, <1>8, <1>9 DEF TlcStages

\* The history's: a witness is only claimed of a history that has one, a
\* refutation only of a history that has none.
LEMMA HistoryVerdictSound ==
  ASSUME Possible(tlc.truth, "history", history), tlc.code \in {ExitCode(tlc.truth), Killed}
  PROVE  /\ HistoryVerdict \in {"linearizable", "refuted", "RuntimeError"}
         /\ HistoryVerdict = "linearizable" => tlc.truth.result = "violated"
         /\ HistoryVerdict = "refuted" =>
              tlc.truth.result = "holds" /\ Linearizations(history) = {}
<1>1. /\ tlc.code = 0 => tlc.truth.result = "holds"
      /\ tlc.code = 12 => tlc.truth.result = "violated"
  BY CodeTells DEF Possible
<1>2. /\ HistoryVerdict \in {"linearizable", "refuted", "RuntimeError"}
      /\ HistoryVerdict = "linearizable" => tlc.code = 12
      /\ HistoryVerdict = "refuted" => tlc.code = 0
  BY DEF HistoryVerdict
<1>3. tlc.truth.result = "holds" => Linearizations(history) = {} BY DEF Possible
<1> QED BY <1>1, <1>2, <1>3

\* A TLC stage is passed, and its fact supports the job.
LEMMA JudgePasses ==
  ASSUME ScriptInv, tlc.state = "exited", tlc' = NoTlc, Pass,
         Supports(Fact(Head(pc), tlc.truth), Head(todo)),
         facts' = facts \cup {Fact(Head(pc), tlc.truth)},
         UNCHANGED <<todo, file, history, checked, earned, exit, cache>>
  PROVE  ScriptInv'
<1> DEFINE f == Fact(Head(pc), tlc.truth)
<1>1. pc # <<>> /\ Head(pc) \in TlcStages BY DEF ScriptInv, Shape
<1>2. pc' = Tail(pc) /\ verdict' = (IF Len(pc) = 1 THEN "returned" ELSE "none") BY DEF Pass
<1>3. /\ Tail(pc) \in Seq(Stage) /\ ToSet(pc) = {Head(pc)} \cup ToSet(Tail(pc))
      /\ Len(pc) = 1 <=> Tail(pc) = <<>>
  BY <1>1, HeadAndTail DEF ScriptInv, Shape
<1>4. verdict' # "none" => pc' = <<>> BY <1>2, <1>3
<1>5. verdict' \in {"returned", "none"} BY <1>2
<1>6. todo # <<>> /\ todo' = todo BY <1>1 DEF ScriptInv, Shape
<1>7. tlc'.state = "none" /\ tlc' = Run(tlc'.state, tlc'.truth, tlc'.log, tlc'.rest, tlc'.code)
  BY NoTlcShape
<1>8. Shape' BY <1>2, <1>3, <1>4, <1>6, <1>7 DEF ScriptInv, Shape
<1>9. Pins'
  <2>1. AllPinned BY <1>1, GuardedHead DEF ScriptInv, Shape, Pins
  <2>2. AllPinned' BY <2>1 DEF AllPinned
  <2> QED BY <2>2 DEF ScriptInv, Pins
<1>10. Process' BY <1>7 DEF Process
<1>11. Judged'
  <2>1. TlcOf(pc) = {Head(pc)} \cup TlcOf(Tail(pc)) BY <1>1, <1>3 DEF TlcOf
  <2>2. f.stage = Head(pc) BY FactFields
  <2> HIDE DEF f
  <2>3. facts' = facts \cup {f} /\ Supports(f, Head(todo)) BY DEF f
  <2>4. StagesOf(facts') = StagesOf(facts) \cup {Head(pc)} BY <2>2, <2>3 DEF StagesOf
  <2>5. ASSUME Head(todo).want = "accept" PROVE OnTrack(facts', Tail(pc), Head(todo))
    <3>1. OnTrack(facts, pc, Head(todo)) BY <1>1, <2>5 DEF ScriptInv, Judged
    <3>2. StagesOf(facts') \cup TlcOf(Tail(pc)) = TlcOf(Head(todo).pipe)
      BY <2>1, <2>4, <3>1 DEF OnTrack
    <3>3. \A g \in facts' : Supports(g, Head(todo)) BY <2>3, <3>1 DEF OnTrack
    <3> QED BY <3>2, <3>3 DEF OnTrack
  <2>6. Head(todo).want # "malformed"
    <3>1. ASSUME Head(todo).want = "malformed" PROVE FALSE
      <4>1. pc = <<"load">> BY <1>1, <3>1 DEF ScriptInv, Judged
      <4>2. Head(pc) = "load" BY <4>1
      <4> QED BY <1>1, <4>2 DEF TlcStages
    <3> QED BY <3>1
  <2> QED BY <1>2, <1>5, <1>6, <2>5, <2>6 DEF Judged
<1>12. Honoured' BY DEF ScriptInv, Honoured
<1> QED BY <1>8, <1>9, <1>10, <1>11, <1>12 DEF ScriptInv

\* A TLC stage ends the job with a verdict that is true.
LEMMA JudgeStops ==
  ASSUME ScriptInv, tlc.state = "exited", tlc' = NoTlc, NEW v, Stop(v),
         v \notin {"none", "Malformed", "returned"},
         v = "linearizable" => Linearizations(history) # {},
         v = "refuted" => Linearizations(history) = {},
         v = "ConformanceError" => Rejects(Fact(Head(pc), tlc.truth)),
         facts' = facts \cup {Fact(Head(pc), tlc.truth)},
         UNCHANGED <<todo, file, history, checked, earned, exit, cache>>
  PROVE  ScriptInv'
<1> DEFINE f == Fact(Head(pc), tlc.truth)
<1>1. pc # <<>> BY DEF ScriptInv, Shape
<1>2. pc' = <<>> /\ verdict' = v BY DEF Stop
<1>3. todo # <<>> /\ todo' = todo BY <1>1 DEF ScriptInv, Shape
<1>4. tlc'.state = "none" /\ tlc' = Run(tlc'.state, tlc'.truth, tlc'.log, tlc'.rest, tlc'.code)
  BY NoTlcShape
<1>5. pc' \in Seq(Stage) BY <1>2
<1>6. Shape' BY <1>2, <1>3, <1>4, <1>5 DEF ScriptInv, Shape
<1>7. Guarded(pc)' BY <1>2 DEF Guarded
<1>8. Pins' BY <1>7 DEF ScriptInv, Pins
<1>9. Process' BY <1>4 DEF Process
<1>10. v = "ConformanceError" => \E g \in facts' : Rejects(g)
  <2> HIDE DEF Rejects, Fact
  <2> QED OBVIOUS
<1>11. Judged' BY <1>2, <1>10 DEF Judged
<1>12. Honoured' BY DEF ScriptInv, Honoured
<1> QED BY <1>6, <1>8, <1>9, <1>11, <1>12 DEF ScriptInv

LEMMA JudgeKeeps == ASSUME ScriptInv, Judge PROVE ScriptInv'
<1> DEFINE stage == Head(pc)
           f == Fact(stage, tlc.truth)
<1>1. /\ tlc.state = "exited" /\ tlc' = NoTlc /\ facts' = facts \cup {f}
      /\ UNCHANGED <<todo, file, history, checked, earned, exit, cache>>
  BY DEF Judge, Fact
<1>2. stage \in TlcStages BY <1>1 DEF ScriptInv, Shape
<1>3. /\ Possible(tlc.truth, stage, history) /\ tlc.log \in Seq(Honest(tlc.truth))
      /\ tlc.code \in {ExitCode(tlc.truth), Killed}
  BY <1>1 DEF ScriptInv, Process
<1>4. CASE stage # "history"
  <2> DEFINE v == StageVerdict(stage)
  <2>1. IF v = "ok" THEN Pass ELSE Stop(v)
    <3>1. v = CASE stage \in {"model", "simulate"} -> CheckVerdict(stage)
                [] stage = "profile" -> ProfileVerdict(CurrentJob.name)
                [] stage = "consensus" -> ConsensusVerdict
                [] stage = "read" -> ReadVerdict
                [] stage = "history" -> HistoryVerdict
      <4> HIDE DEF CheckVerdict, ProfileVerdict, ConsensusVerdict, ReadVerdict, HistoryVerdict
      <4> QED BY <1>2, <1>4 DEF StageVerdict, TlcStages, CurrentJob
    <3> HIDE DEF v
    <3> QED BY <1>4, <3>1 DEF Judge
  <2>2. /\ v \in {"ok", "RuntimeError", "ConformanceError"}
        /\ v = "ok" => Supports(f, Head(todo))
        /\ v = "ConformanceError" => Rejects(f)
    BY <1>2, <1>3, <1>4, StageVerdictSound DEF Possible
  <2> HIDE DEF v
  <2>3. CASE v = "ok"
    <3>1. Pass /\ Supports(f, Head(todo)) BY <2>1, <2>2, <2>3
    <3> QED BY <1>1, <3>1, JudgePasses
  <2>4. CASE v # "ok"
    <3>1. Stop(v) BY <2>1, <2>4
    <3>2. v \notin {"none", "Malformed", "returned", "linearizable", "refuted"} BY <2>2, <2>4
    <3> QED BY <1>1, <2>2, <3>1, <3>2, JudgeStops
  <2> QED BY <2>3, <2>4
<1>5. CASE stage = "history"
  <2> DEFINE v == HistoryVerdict
  <2>1. HistoryStop(v)
    <3> HIDE DEF HistoryStop, HistoryVerdict
    <3> QED BY <1>5 DEF Judge
  <2>2. /\ v \in {"linearizable", "refuted", "RuntimeError"}
        /\ v = "linearizable" => tlc.truth.result = "violated"
        /\ v = "refuted" => tlc.truth.result = "holds" /\ Linearizations(history) = {}
    BY <1>3, <1>5, HistoryVerdictSound
  <2> HIDE DEF v
  <2>3. f.stage = "history" /\ f.result = tlc.truth.result BY <1>5, FactFields
  <2>4. tlc.truth.result = "violated" => Supports(f, Head(todo))
    <3> HIDE DEF f
    <3> QED BY <2>3 DEF Supports
  <2>5. tlc.truth.result = "holds" => Rejects(f)
    <3> HIDE DEF f
    <3> QED BY <2>3 DEF Rejects
  <2>6. CASE v = "linearizable"
    <3>1. PICK order \in Linearizations(history) :
            IF ~VerifyWitness(history, RawWitness(history, order)) THEN Stop("ValueError")
            ELSE IF CurrentJob.pipe = ReadPipe THEN Pass
            ELSE IF CurrentJob.name = "overlapping_orders" /\ AcceptsMutation(order)
                 THEN Stop("AcceptedMutation") ELSE Stop("linearizable")
      BY <2>1, <2>6 DEF HistoryStop
    <3>2. Stop("ValueError") \/ Pass \/ Stop("AcceptedMutation") \/ Stop("linearizable")
      BY <3>1
    <3>3. Linearizations(history) # {} BY <3>1
    <3>4. CASE Pass
      <4>1. Supports(f, Head(todo)) BY <2>2, <2>4, <2>6
      <4> QED BY <1>1, <3>4, <4>1, JudgePasses
    <3>5. CASE Stop("ValueError") BY <1>1, <3>5, JudgeStops
    <3>6. CASE Stop("AcceptedMutation") BY <1>1, <3>6, JudgeStops
    <3>7. CASE Stop("linearizable") BY <1>1, <3>3, <3>7, JudgeStops
    <3> QED BY <3>2, <3>4, <3>5, <3>6, <3>7
  <2>7. CASE v # "linearizable"
    <3>1. IF v = "refuted" /\ WitnessExists THEN Stop("ValueError")
          ELSE Stop(IF v = "refuted" /\ CurrentJob.pipe = ReadPipe THEN "ConformanceError" ELSE v)
      BY <2>1, <2>7 DEF HistoryStop
    <3>2. \/ Stop("ValueError")
          \/ v = "refuted" /\ (Stop("ConformanceError") \/ Stop("refuted"))
          \/ v = "RuntimeError" /\ Stop("RuntimeError")
      BY <2>2, <2>7, <3>1
    <3>3. CASE Stop("ValueError") BY <1>1, <3>3, JudgeStops
    <3>4. CASE v = "refuted" /\ Stop("ConformanceError")
      <4>1. Rejects(f) BY <2>2, <2>5, <3>4
      <4> QED BY <1>1, <3>4, <4>1, JudgeStops
    <3>5. CASE v = "refuted" /\ Stop("refuted")
      <4>1. Linearizations(history) = {} BY <2>2, <3>5
      <4> QED BY <1>1, <3>5, <4>1, JudgeStops
    <3>6. CASE Stop("RuntimeError") BY <1>1, <3>6, JudgeStops
    <3> QED BY <3>2, <3>3, <3>4, <3>5, <3>6
  <2> QED BY <2>6, <2>7
<1> QED BY <1>4, <1>5

-----------------------------------------------------------------------------
(***************************************************************************)
(* The theorems.                                                           *)
(***************************************************************************)
\* Every step of the scripts, of TLC and of the other shells keeps the
\* invariant.
THEOREM ScriptInvInductive == Spec => []ScriptInv
<1>1. ASSUME ScriptInv, [Next]_vars PROVE ScriptInv'
  <2>1. CASE Script
    <3>1. ASSUME NEW pristine \in BOOLEAN, VerifyUpstream(pristine) PROVE ScriptInv'
      BY <1>1, <3>1, UpstreamKeeps
    <3>2. ASSUME NEW t \in Tool, Classpath(t) PROVE ScriptInv'
      BY <1>1, <3>2, ClasspathKeeps
    <3> QED BY <1>1, <2>1, <3>1, <3>2, BeginKeeps, LoadKeeps, TranslateKeeps, ValidateKeeps,
               LaunchKeeps, JudgeKeeps, FinishKeeps, SucceedKeeps DEF Script
  <2>2. CASE UNCHANGED vars
    <3>1. UNCHANGED <<todo, pc, verdict, file, history, checked, facts, earned, exit, tlc, cache>>
      BY <2>2 DEF vars, scriptVars
    <3>2. Shape' BY <1>1, <3>1 DEF ScriptInv, Shape
    <3>3. Pins' BY <1>1, <3>1 DEF ScriptInv, Pins, Guarded, AllPinned
    <3>4. Process' BY <1>1, <3>1 DEF ScriptInv, Process
    <3>5. Judged' BY <1>1, <3>1 DEF ScriptInv, Judged
    <3>6. Honoured' BY <1>1, <3>1 DEF ScriptInv, Honoured
    <3> QED BY <3>2, <3>3, <3>4, <3>5, <3>6 DEF ScriptInv
  <2> QED BY <1>1, <2>1, <2>2, EmitKeeps, ExitKeeps, KillKeeps, ExpireKeeps, FetchKeeps DEF Next
<1>2. Init => ScriptInv BY ScriptInit
<1> QED BY <1>1, <1>2, PTL DEF Spec

\* Whatever prepares run beside a script, TLC only runs while every jar on
\* its class path has its pinned content.
THEOREM OnlyPinnedToolsHold == Spec => []OnlyPinnedToolsRun
<1>1. ScriptInv => OnlyPinnedToolsRun
  <2> SUFFICES ASSUME ScriptInv, tlc.state = "running" PROVE AllPinned
    BY DEF OnlyPinnedToolsRun, AllPinned
  <2>1. pc \in Seq(Stage) /\ pc # <<>> /\ Head(pc) \in TlcStages BY DEF ScriptInv, Shape
  <2>2. ~Guarded(pc) BY <2>1, GuardedHead
  <2> QED BY <2>2 DEF ScriptInv, Pins
<1> QED BY <1>1, ScriptInvInductive, PTL

\* A jar that has its pinned content keeps it: prepare moves a download over
\* it only after comparing the digest.
THEOREM PinnedStaysPinnedHolds == Spec => PinnedStaysPinned
<1>1. ASSUME ScriptInv, [Next]_vars
      PROVE  [\A t \in Tool : cache[t] = "pinned" => cache'[t] = "pinned"]_cache
  <2>1. CASE Fetch BY <1>1, <2>1, FetchPins DEF ScriptInv
  <2>2. CASE Script
    <3>1. UNCHANGED cache
      BY <2>2 DEF Script, VerifyUpstream, BeginJob, LoadStage, Translate, ValidateHistory,
                  Classpath, Launch, Judge, FinishJob, Succeed
    <3> QED BY <3>1
  <2>3. CASE Emit \/ Exit \/ Kill \/ Expire BY <2>3 DEF Emit, Exit, Kill, Expire
  <2>4. CASE UNCHANGED vars BY <2>4 DEF vars
  <2> QED BY <1>1, <2>1, <2>2, <2>3, <2>4 DEF Next
<1> QED BY <1>1, ScriptInvInductive, PTL DEF Spec, PinnedStaysPinned

\* A trace is only called non-conforming when the model TLC was run on
\* really refuses it: no crash, kill, timeout or broken tool is taken for a
\* rejection.
THEOREM RejectionIsSemanticHolds == Spec => []RejectionIsSemantic
<1>1. ScriptInv => RejectionIsSemantic BY DEF ScriptInv, Judged, RejectionIsSemantic
<1> QED BY <1>1, ScriptInvInductive, PTL

\* A script that exits successfully has finished all of its jobs, and each
\* one deserved what its caller made of it.
THEOREM PassIsEarnedHolds == Spec => []PassIsEarned
<1>1. ScriptInv => PassIsEarned BY DEF ScriptInv, Honoured, PassIsEarned
<1> QED BY <1>1, ScriptInvInductive, PTL
=============================================================================
