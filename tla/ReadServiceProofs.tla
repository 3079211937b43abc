-------------------------- MODULE ReadServiceProofs --------------------------
(***************************************************************************)
(* Linearizable reads of ReadService, for any number of servers, requests, *)
(* terms and entries.                                                      *)
(*                                                                         *)
(* A leader that has committed in its term knows everything that is        *)
(* committed, unless a later leader was elected.  A request it queues then *)
(* has an index that is new enough, or a majority of the servers is in a   *)
(* later term and will never confirm a heartbeat sent for this request or  *)
(* one queued after it.  The servers that may still do so, or did, are the *)
(* request's voice; only a request whose voice is a majority can be        *)
(* released.                                                               *)
(***************************************************************************)
EXTENDS ReadService, FiniteSetTheorems, SequenceTheorems, WellFoundedInduction, TLAPS

-----------------------------------------------------------------------------
(***************************************************************************)
(* Types.                                                                  *)
(***************************************************************************)
Role == {"leader", "follower"}

ReadRequest == [type : {"read_index"}, from : Server, to : Server, ctx : Request]
ReadAnswer ==
  [type : {"read_index_resp"}, from : Server, to : Server, ctx : Request, term : Nat, index : Nat]
Beat ==
  [type : {"heartbeat", "heartbeat_response"}, from : Server, to : Server, ctx : Request,
   term : Nat]
Message == ReadRequest \cup ReadAnswer \cup Beat

Status == [ctx : Request, from : Server, index : Nat, acks : SUBSET Server]
ReadState == [ctx : Request, index : Nat]
Read == [state : {"idle", "pending", "failed", "ok"}, home : Server \cup {None},
         ready : Nat, need : Nat, seen : Nat]

\* Every variable stays within its type.
TypeOK ==
  /\ term \in [Server -> Nat] /\ role \in [Server -> Role]
  /\ lead \in [Server -> Server \cup {None}]
  /\ log \in Seq(Nat)
  /\ commit \in [Server -> Nat] /\ applied \in [Server -> Nat]
  /\ queue \in [Server -> Seq(Status)] /\ postponed \in [Server -> Seq(ReadRequest)]
  /\ states \in [Server -> SUBSET ReadState]
  /\ prev \in [Server -> Role]
  /\ read \in [Request -> Read]
  /\ net \in SUBSET Message
  /\ shown \in Nat /\ events \in Nat

-----------------------------------------------------------------------------
(***************************************************************************)
(* Consensus.                                                              *)
(***************************************************************************)
\* The servers that may still support leader n, or a leader of term t.
UpTo(t) == {s \in Server : term[s] <= t}
From(t) == {s \in Server : term[s] >= t}

\* No leader later than n has been elected.
Latest(n) == role[n] = "leader" /\ IsMajority(UpTo(term[n]))

\* Index k of the log is committed, and a latest leader knows so if it is of
\* the leader's term.
Sound(k) ==
  /\ k \in 1..Len(log)
  /\ \A n \in Server : Latest(n) /\ log[k] >= term[n] => k <= commit[n]

Consensus ==
  /\ \A i, j \in 1..Len(log) : i <= j => log[i] <= log[j]
  /\ \A k \in 1..Len(log) : IsMajority(From(log[k]))
  /\ \A n \in Server : role[n] = "leader" => IsMajority(From(term[n]))
  /\ \A n, m \in Server :
       (role[n] = "leader" /\ role[m] = "leader" /\ term[n] = term[m]) => n = m

\* Every index somebody knows or has heard of is sound.
Indexes ==
  /\ Sound(shown)
  /\ \A n \in Server :
       /\ Sound(commit[n])
       /\ \A i \in 1..Len(queue[n]) : Sound(queue[n][i].index)
       /\ \A s \in states[n] : Sound(s.index)
  /\ \A m \in net : m.type = "read_index_resp" => Sound(m.index)

-----------------------------------------------------------------------------
(***************************************************************************)
(* Reads.                                                                  *)
(***************************************************************************)
Confirms(m, n, ctx) ==
  m.type = "heartbeat_response" /\ m.to = n /\ m.term = term[n] /\ m.ctx = ctx

\* The servers that have confirmed, or may still confirm, that n led after it
\* queued its i-th request.
Voice(n, i) ==
  {s \in Server :
     \/ term[s] <= term[n]
     \/ \E j \in i..Len(queue[n]) :
          \/ s \in queue[n][j].acks
          \/ \E m \in net : m.from = s /\ Confirms(m, n, queue[n][j].ctx)}

Confirmed ==
  \A n \in Server : role[n] = "leader" =>
    \A i \in 1..Len(queue[n]) :
      IsMajority(Voice(n, i)) => queue[n][i].index >= read[queue[n][i].ctx].need

\* A request on its way to a leader: in the network or postponed.
Underway(r) ==
  \/ \E m \in net : m.type = "read_index" /\ m.ctx = r
  \/ \E n \in Server : \E i \in 1..Len(postponed[n]) : postponed[n][i].ctx = r

\* ... once only, and not yet queued by anybody.
Once ==
  /\ \A m, l \in net :
       (m.type = "read_index" /\ l.type = "read_index" /\ m.ctx = l.ctx) => m = l
  /\ \A m \in net : m.type = "read_index" =>
       \A n \in Server : \A i \in 1..Len(postponed[n]) : postponed[n][i].ctx # m.ctx
  /\ \A n, l \in Server : \A i \in 1..Len(postponed[n]) : \A j \in 1..Len(postponed[l]) :
       postponed[n][i].ctx = postponed[l][j].ctx => n = l /\ i = j
  /\ \A m \in net : m.type \in {"heartbeat", "heartbeat_response"} => ~ Underway(m.ctx)

\* Nobody has heard of a request that was not made.
Unheard ==
  \A r \in Request : read[r].state = "idle" =>
    /\ read[r].home = None /\ read[r].ready = 0
    /\ ~ Underway(r)
    /\ \A m \in net : m.ctx # r
    /\ \A n \in Server : /\ \A i \in 1..Len(queue[n]) : queue[n][i].ctx # r
                         /\ \A s \in states[n] : s.ctx # r

\* What was released is new enough.
Released ==
  /\ \A n \in Server : \A s \in states[n] : s.index >= read[s.ctx].need
  /\ \A m \in net : m.type = "read_index_resp" => m.index >= read[m.ctx].need
  /\ \A r \in Request :
       /\ read[r].need <= shown
       /\ read[r].ready # 0 => read[r].ready >= read[r].need
       /\ read[r].state = "ok" => read[r].seen >= read[r].need

ReadInv == TypeOK /\ Consensus /\ Indexes /\ Confirmed /\ Once /\ Unheard /\ Released

-----------------------------------------------------------------------------
(***************************************************************************)
(* Majorities.                                                             *)
(***************************************************************************)
\* Two majorities of the servers meet.
LEMMA MajoritiesMeet ==
  ASSUME NEW S \in SUBSET Server, NEW T \in SUBSET Server, IsMajority(S), IsMajority(T)
  PROVE  S \cap T # {}
<1>1. IsFiniteSet(Server) BY ReadAssumption
<1>2. /\ Cardinality(Server) \in Nat /\ Cardinality(S) \in Nat /\ Cardinality(T) \in Nat
  BY <1>1, FS_CardinalityType, FS_Subset
<1>3. Cardinality(S) + Cardinality(T) > Cardinality(Server) BY <1>2 DEF IsMajority
<1> QED BY <1>1, <1>3, FS_MajoritiesIntersect

\* More servers than a majority are a majority.
LEMMA MajorityGrows ==
  ASSUME NEW S \in SUBSET Server, NEW T \in SUBSET Server, S \subseteq T, IsMajority(S)
  PROVE  IsMajority(T)
<1>1. IsFiniteSet(Server) /\ IsFiniteSet(T) BY ReadAssumption, FS_Subset
<1>2. /\ Cardinality(Server) \in Nat /\ Cardinality(S) \in Nat /\ Cardinality(T) \in Nat
      /\ Cardinality(S) <= Cardinality(T)
  BY <1>1, FS_CardinalityType, FS_Subset
<1> QED BY <1>2 DEF IsMajority

\* A larger index than a sound one is needed for an unsound one.
LEMMA SoundBelow ==
  ASSUME TypeOK, Consensus, NEW k \in Nat, NEW j \in Nat, Sound(k), 1 <= j, j <= k
  PROVE  Sound(j)
<1>1. Len(log) \in Nat /\ k \in 1..Len(log) /\ j \in 1..Len(log)
  <2>1. Len(log) \in Nat BY LenProperties DEF TypeOK
  <2> QED BY <2>1 DEF Sound
<1>2. log[j] <= log[k] BY <1>1 DEF Consensus
<1>3. log[j] \in Nat /\ log[k] \in Nat BY <1>1, ElementOfSeq DEF TypeOK
<1>4. ASSUME NEW n \in Server, Latest(n), log[j] >= term[n] PROVE j <= commit[n]
  <2>1. term[n] \in Nat /\ commit[n] \in Nat BY DEF TypeOK
  <2>2. log[k] >= term[n] BY <1>2, <1>3, <1>4, <2>1
  <2>3. k <= commit[n] BY <1>4, <2>2 DEF Sound
  <2> QED BY <2>1, <2>3
<1> QED BY <1>1, <1>4 DEF Sound

\* The latest leader, once it commits index i of its term, knows every sound
\* index: a later one would be of a later term.
LEMMA LatestKnows ==
  ASSUME TypeOK, Consensus, NEW n \in Server, Latest(n), NEW i \in 1 .. Len(log),
         log[i] = term[n], commit[n] <= i, NEW k \in Nat, Sound(k)
  PROVE  k <= i
<1>1. Len(log) \in Nat /\ k \in 1..Len(log) /\ i \in Nat /\ commit[n] \in Nat
  <2>1. Len(log) \in Nat /\ commit[n] \in Nat BY LenProperties DEF TypeOK
  <2> QED BY <2>1 DEF Sound
<1>2. log[k] \in Nat /\ log[i] \in Nat BY <1>1, ElementOfSeq DEF TypeOK
<1>3. CASE log[k] >= term[n]
  <2>1. k <= commit[n] BY <1>3 DEF Sound
  <2> QED BY <1>1, <2>1
<1>4. CASE ~ (log[k] >= term[n])
  <2> SUFFICES ASSUME ~ (k <= i) PROVE FALSE OBVIOUS
  <2>1. i <= k BY <1>1
  <2>2. log[i] <= log[k] BY <1>1, <2>1 DEF Consensus
  <2> QED BY <1>2, <1>4, <2>2
<1> QED BY <1>3, <1>4

-----------------------------------------------------------------------------
(***************************************************************************)
(* The loop of releasePendingReadIndexMessages.  Both facts about it are   *)
(* shown at the first turn of the loop that could break them.              *)
(***************************************************************************)
\* A non-empty set of numbers has a least one.
LEMMA LeastExists ==
  ASSUME NEW S \in SUBSET Nat, S # {}
  PROVE  \E x \in S : \A y \in S : x <= y
<1>1. PICK x \in S : \A y \in S : ~ (<<y, x>> \in OpToRel(<, Nat))
  BY NatLessThanWellFounded, WFMin
<1>2. \A y \in S : ~ (y < x) BY <1>1 DEF OpToRel
<1> QED BY <1>2

\* f counts the loop over ms up to N.
Counts(f, N, q, index, ms, n) ==
  f = [i \in 0 .. N |-> IF i = 0 THEN q ELSE AddRequest(f[i - 1], index, ms[i], n)]

\* Such an f exists.
LEMMA LoopCounts ==
  ASSUME NEW q, NEW index, NEW ms, NEW n
  PROVE  \A N \in Nat : \E f : Counts(f, N, q, index, ms, n)
<1> DEFINE S == {N \in Nat : ~ \E f : Counts(f, N, q, index, ms, n)}
<1> SUFFICES ASSUME S # {} PROVE FALSE OBVIOUS
<1>1. PICK N \in S : \A M \in S : N <= M
  <2>1. S \in SUBSET Nat OBVIOUS
  <2> HIDE DEF S
  <2> QED BY <2>1, LeastExists
<1>2. N \in Nat /\ ~ \E f : Counts(f, N, q, index, ms, n) OBVIOUS
<1>3. CASE N = 0
  <2> DEFINE f == [i \in 0 .. 0 |-> q]
  <2>1. Counts(f, 0, q, index, ms, n) BY DEF Counts
  <2> QED BY <1>2, <1>3, <2>1
<1>4. CASE N # 0
  <2>1. N - 1 \in Nat /\ ~ (N <= N - 1) BY <1>2, <1>4
  <2>2. N - 1 \notin S BY <1>1, <2>1
  <2>3. PICK g : Counts(g, N - 1, q, index, ms, n) BY <2>1, <2>2
  <2> DEFINE f == [i \in 0 .. N |-> IF i = N THEN AddRequest(g[N - 1], index, ms[N], n) ELSE g[i]]
             h == [i \in 0 .. N |-> IF i = 0 THEN q ELSE AddRequest(f[i - 1], index, ms[i], n)]
  <2>4. \A i \in 0 .. (N - 1) : g[i] = IF i = 0 THEN q ELSE AddRequest(g[i - 1], index, ms[i], n)
    BY <2>1, <2>3 DEF Counts
  <2>5. ASSUME NEW i \in 0 .. N PROVE f[i] = h[i]
    <3>1. CASE i = 0
      <4>1. i \in 0 .. (N - 1) /\ i # N BY <1>2, <1>4, <3>1
      <4> QED BY <2>4, <3>1, <4>1
    <3>2. CASE i # 0 /\ i # N
      <4>1. i \in 0 .. (N - 1) /\ i - 1 \in 0 .. N /\ i - 1 # N BY <1>2, <3>2
      <4>2. f[i] = g[i] /\ f[i - 1] = g[i - 1] BY <3>2, <4>1
      <4>3. h[i] = AddRequest(f[i - 1], index, ms[i], n) BY <3>2
      <4> HIDE DEF f, h
      <4> QED BY <2>4, <3>2, <4>1, <4>2, <4>3
    <3>3. CASE i = N /\ i # 0
      <4>1. i - 1 \in 0 .. N /\ i - 1 # N BY <1>2, <3>3
      <4>2. f[i] = AddRequest(g[i - 1], index, ms[i], n) /\ f[i - 1] = g[i - 1] BY <3>3, <4>1
      <4>3. h[i] = AddRequest(f[i - 1], index, ms[i], n) BY <3>3
      <4> HIDE DEF f, h
      <4> QED BY <4>2, <4>3
    <3> QED BY <3>1, <3>2, <3>3
  <2>6. f = h BY <2>5
  <2>7. Counts(f, N, q, index, ms, n) BY <2>6 DEF Counts
  <2> QED BY <1>2, <2>7
<1> QED BY <1>3, <1>4

\* What serving requests of ms with an index appends to the queue q.
Served(n, index, m, s) ==
  s = [ctx |-> m.ctx, from |-> m.from, index |-> index, acks |-> {n}]

Serves(n, index, ms, k, q, q2) ==
  /\ q2 \in Seq(Status)
  /\ Len(q) <= Len(q2)
  /\ \A i \in 1 .. Len(q) : q2[i] = q[i]
  /\ \A i \in 1 .. Len(q2) : i > Len(q) =>
       \E j \in 1 .. k : Served(n, index, ms[j], q2[i])

\* One turn of the loop.
LEMMA AddRequestServes ==
  ASSUME NEW n \in Server, NEW index \in Nat, NEW ms \in Seq(ReadRequest), NEW k \in 1 .. Len(ms),
         NEW q \in Seq(Status), NEW q2, Serves(n, index, ms, k - 1, q, q2)
  PROVE  Serves(n, index, ms, k, q, AddRequest(q2, index, ms[k], n))
<1> DEFINE m == ms[k]
           e == [ctx |-> m.ctx, from |-> m.from, index |-> index, acks |-> {n}]
           q3 == AddRequest(q2, index, m, n)
<1>1. m \in ReadRequest /\ e \in Status /\ Len(ms) \in Nat
  <2>1. m \in ReadRequest /\ Len(ms) \in Nat BY ElementOfSeq, LenProperties
  <2> QED BY <2>1 DEF ReadRequest, Status
<1>2. q2 \in Seq(Status) /\ Len(q2) \in Nat /\ Len(q) \in Nat BY LenProperties DEF Serves
<1>3. \A i \in 1 .. Len(q2) : i > Len(q) => \E j \in 1 .. k : Served(n, index, ms[j], q2[i])
  BY <1>1 DEF Serves
<1>4. CASE q3 = q2 BY <1>3, <1>4 DEF Serves
<1>5. CASE q3 = Append(q2, e)
  <2>1. q3 \in Seq(Status) /\ Len(q3) = Len(q2) + 1
    BY <1>1, <1>2, <1>5, AppendProperties
  <2>2. (\A i \in 1 .. Len(q2) : q3[i] = q2[i]) /\ q3[Len(q2) + 1] = e
    BY <1>1, <1>2, <1>5, AppendProperties
  <2>3. Served(n, index, ms[k], q3[Len(q2) + 1]) BY <2>2 DEF Served
  <2> HIDE DEF q3, e
  <2>4. \A i \in 1 .. Len(q3) : i > Len(q) => \E j \in 1 .. k : Served(n, index, ms[j], q3[i])
    <3> SUFFICES ASSUME NEW i \in 1 .. Len(q3), i > Len(q)
                 PROVE  \E j \in 1 .. k : Served(n, index, ms[j], q3[i])
      OBVIOUS
    <3>1. CASE i \in 1 .. Len(q2) BY <1>3, <2>2, <3>1
    <3>2. CASE i = Len(q2) + 1
      <4>1. k \in 1 .. k BY <1>1
      <4> QED BY <2>3, <3>2, <4>1
    <3> QED BY <1>2, <2>1, <3>1, <3>2
  <2>5. Len(q) <= Len(q2) /\ \A i \in 1 .. Len(q) : q2[i] = q[i] BY DEF Serves
  <2>6. \A i \in 1 .. Len(q) : q3[i] = q[i] BY <1>2, <2>2, <2>5
  <2>7. Len(q) <= Len(q3) BY <1>2, <2>1, <2>5
  <2> QED BY <2>1, <2>4, <2>6, <2>7 DEF Serves, q3
<1> QED BY <1>4, <1>5 DEF AddRequest

\* The whole loop.
LEMMA AddRequestsServes ==
  ASSUME NEW n \in Server, NEW index \in Nat, NEW ms \in Seq(ReadRequest), NEW q \in Seq(Status)
  PROVE  Serves(n, index, ms, Len(ms), q, AddRequests(q, index, ms, n))
<1> DEFINE N == Len(ms)
           f == CHOOSE f : f = [i \in 0 .. N |-> IF i = 0 THEN q ELSE AddRequest(f[i - 1], index, ms[i], n)]
<1>1. N \in Nat BY LenProperties
<1>2. AddRequests(q, index, ms, n) = f[N] BY DEF AddRequests
<1>3. \E g : Counts(g, N, q, index, ms, n) BY <1>1, LoopCounts
<1>4. f = [i \in 0 .. N |-> IF i = 0 THEN q ELSE AddRequest(f[i - 1], index, ms[i], n)]
  BY <1>3 DEF Counts
<1> HIDE DEF f
<1> DEFINE S == {k \in Nat : k <= N /\ ~ Serves(n, index, ms, k, q, f[k])}
<1>5. S = {}
  <2> SUFFICES ASSUME S # {} PROVE FALSE OBVIOUS
  <2>1. PICK k \in S : \A j \in S : k <= j
    <3>1. S \in SUBSET Nat OBVIOUS
    <3> HIDE DEF S
    <3> QED BY <3>1, LeastExists
  <2>2. k \in Nat /\ k <= N /\ ~ Serves(n, index, ms, k, q, f[k]) OBVIOUS
  <2>3. CASE k = 0
    <3>1. f[k] = q BY <1>1, <1>4, <2>3
    <3>2. Serves(n, index, ms, k, q, q)
      <4>1. Len(q) \in Nat BY LenProperties
      <4> QED BY <4>1 DEF Serves
    <3> QED BY <2>2, <3>1, <3>2
  <2>4. CASE k # 0
    <3>1. k - 1 \in Nat /\ k - 1 <= N /\ ~ (k <= k - 1) /\ k \in 1 .. N BY <1>1, <2>2, <2>4
    <3>2. Serves(n, index, ms, k - 1, q, f[k - 1]) BY <2>1, <3>1
    <3>3. f[k] = AddRequest(f[k - 1], index, ms[k], n) BY <1>1, <1>4, <3>1
    <3>4. Serves(n, index, ms, k, q, AddRequest(f[k - 1], index, ms[k], n))
      BY <3>1, <3>2, AddRequestServes
    <3> QED BY <2>2, <3>3, <3>4
  <2> QED BY <2>3, <2>4
<1>6. Serves(n, index, ms, N, q, f[N])
  <2>1. N \notin S BY <1>5
  <2> QED BY <1>1, <2>1
<1> QED BY <1>2, <1>6

-----------------------------------------------------------------------------
(***************************************************************************)
(* Types.                                                                  *)
(***************************************************************************)
\* A sequence given by its elements.
LEMMA FunctionIsSeq ==
  ASSUME NEW S, NEW n \in Nat, NEW f \in [1 .. n -> S]
  PROVE  f \in Seq(S) /\ Len(f) = n
OBVIOUS

\* ReadOnly.recvACK adds a server to the acknowledgements of one request.
LEMMA RecvACKAdds ==
  ASSUME NEW q \in Seq(Status), NEW from \in Server, NEW ctx
  PROVE  LET a == RecvACK(q, from, ctx)
         IN  /\ a \in Seq(Status) /\ Len(a) = Len(q)
             /\ \A i \in 1 .. Len(q) :
                  /\ a[i].ctx = q[i].ctx /\ a[i].from = q[i].from /\ a[i].index = q[i].index
                  /\ \/ a[i].acks = q[i].acks
                     \/ q[i].ctx = ctx /\ a[i].acks = q[i].acks \cup {from}
<1> DEFINE a == RecvACK(q, from, ctx)
<1>1. Len(q) \in Nat /\ DOMAIN q = 1 .. Len(q) BY LenProperties
<1>2. \A i \in 1 .. Len(q) : q[i] \in Status BY ElementOfSeq
<1>3. a = [i \in 1 .. Len(q) |-> IF q[i].ctx = ctx THEN [q[i] EXCEPT !.acks = @ \cup {from}] ELSE q[i]]
  BY <1>1 DEF RecvACK
<1>4. ASSUME NEW i \in 1 .. Len(q)
      PROVE  /\ a[i] \in Status
             /\ a[i].ctx = q[i].ctx /\ a[i].from = q[i].from /\ a[i].index = q[i].index
             /\ \/ a[i].acks = q[i].acks
                \/ q[i].ctx = ctx /\ a[i].acks = q[i].acks \cup {from}
  <2>1. a[i] = IF q[i].ctx = ctx THEN [q[i] EXCEPT !.acks = @ \cup {from}] ELSE q[i] BY <1>3
  <2> HIDE DEF a
  <2>2. q[i] \in Status BY <1>2
  <2> QED BY <2>1, <2>2 DEF Status
<1> HIDE DEF a
<1>5. a \in [1 .. Len(q) -> Status] BY <1>3, <1>4
<1>6. a \in Seq(Status) /\ Len(a) = Len(q) BY <1>1, <1>5, FunctionIsSeq
<1> QED BY <1>4, <1>6 DEF a

\* The initial state.
LEMMA TypeInit == Init => TypeOK
<1> SUFFICES ASSUME Init PROVE TypeOK OBVIOUS
<1>1. PICK n \in Server : /\ role = [m \in Server |-> IF m = n THEN "leader" ELSE "follower"]
                          /\ lead = [m \in Server |-> n]
  BY DEF Init
<1>2. role \in [Server -> Role] /\ prev \in [Server -> Role] /\ lead \in [Server -> Server \cup {None}]
  BY <1>1 DEF Init, Role
<1>3. log \in Seq(Nat) /\ queue \in [Server -> Seq(Status)] /\ postponed \in [Server -> Seq(ReadRequest)]
  BY DEF Init
<1>4. read \in [Request -> Read] BY DEF Init, Untracked, Read
<1> QED BY <1>2, <1>3, <1>4 DEF Init, TypeOK

\* A request that is stepped is queued, postponed, passed on or dropped.
LEMMA StepReadIndexTypes ==
  ASSUME TypeOK, NEW n \in Server, NEW m \in ReadRequest, StepReadIndex(n, m)
  PROVE  /\ queue' \in [Server -> Seq(Status)] /\ postponed' \in [Server -> Seq(ReadRequest)]
         /\ net' \in SUBSET Message
<1>1. /\ queue[n] \in Seq(Status) /\ postponed[n] \in Seq(ReadRequest) /\ commit[n] \in Nat
      /\ role[n] \in Role /\ lead[n] \in Server \cup {None}
  BY DEF TypeOK
<1>2. CASE role[n] = "leader" /\ CommitToCurrentTerm(n)
  <2>1. /\ queue' = [queue EXCEPT ![n] = AddRequest(queue[n], commit[n], m, n)]
        /\ net' = (net \ {m}) \cup Heartbeats(n, m.ctx)
        /\ postponed' = postponed
    BY <1>2 DEF StepReadIndex
  <2>2. AddRequest(queue[n], commit[n], m, n) \in Seq(Status)
    <3>1. [ctx |-> m.ctx, from |-> m.from, index |-> commit[n], acks |-> {n}] \in Status
      BY <1>1 DEF ReadRequest, Status
    <3> QED BY <1>1, <3>1, AppendProperties DEF AddRequest
  <2>3. Heartbeats(n, m.ctx) \in SUBSET Message
    BY DEF Heartbeats, Heartbeat, Message, Beat, ReadRequest, TypeOK
  <2> QED BY <2>1, <2>2, <2>3 DEF TypeOK
<1>3. CASE role[n] = "leader" /\ ~ CommitToCurrentTerm(n)
  <2>1. /\ postponed' = [postponed EXCEPT ![n] = Append(postponed[n], m)]
        /\ net' = net \ {m} /\ queue' = queue
    BY <1>3 DEF StepReadIndex
  <2>2. Append(postponed[n], m) \in Seq(ReadRequest) BY <1>1, AppendProperties
  <2> QED BY <2>1, <2>2 DEF TypeOK
<1>4. CASE role[n] = "follower"
  <2>1. /\ net' = IF lead[n] = None THEN net \ {m} ELSE (net \ {m}) \cup {[m EXCEPT !.to = lead[n]]}
        /\ queue' = queue /\ postponed' = postponed
    BY <1>4 DEF StepReadIndex
  <2>2. lead[n] # None => [m EXCEPT !.to = lead[n]] \in Message
    BY <1>1 DEF ReadRequest, Message
  <2> QED BY <2>1, <2>2 DEF TypeOK
<1> QED BY <1>1, <1>2, <1>3, <1>4 DEF Role

\* Raft.reset forgets requests.
LEMMA ResetTypes ==
  ASSUME TypeOK, NEW S, Reset(S)
  PROVE  queue' \in [Server -> Seq(Status)] /\ postponed' \in [Server -> Seq(ReadRequest)]
BY DEF TypeOK, Reset

\* What releases requests keeps the types.
LEMMA ReleaseTypes ==
  ASSUME TypeOK, NEW n \in Server, NEW m \in net, HandleHeartbeatResponse(n, m)
  PROVE  /\ queue' \in [Server -> Seq(Status)] /\ states' \in [Server -> SUBSET ReadState]
         /\ net' \in SUBSET Message
<1> DEFINE q == queue[n]
           acked == RecvACK(q, m.from, m.ctx)
           R(i) == IF HasQuorum(acked[i].acks) THEN SubSeq(acked, 1, i) ELSE <<>>
           L(i) == {s \in ToSet(R(i)) : s.from = n}
<1>1. PICK i \in DOMAIN q :
        /\ queue' = [queue EXCEPT ![n] = SubSeq(acked, Len(R(i)) + 1, Len(acked))]
        /\ states' = [states EXCEPT ![n] = @ \cup {[ctx |-> s.ctx, index |-> s.index] : s \in L(i)}]
        /\ net' = net \cup {ReadIndexResp(n, s.from, s.ctx, term[n], s.index) :
                              s \in ToSet(R(i)) \ L(i)}
  BY DEF HandleHeartbeatResponse
<1>2. m.from \in Server BY DEF TypeOK, Message, ReadRequest, ReadAnswer, Beat
<1>3. q \in Seq(Status) /\ Len(q) \in Nat /\ i \in 1 .. Len(q) BY LenProperties DEF TypeOK
<1>4. acked \in Seq(Status) /\ Len(acked) = Len(q) BY <1>2, <1>3, RecvACKAdds
<1> HIDE DEF q, acked
<1>5. \A j \in 1 .. Len(acked) : acked[j] \in Status BY <1>4, ElementOfSeq
<1>6. R(i) \in Seq(Status) /\ Len(R(i)) \in Nat
  <2>1. SubSeq(acked, 1, i) \in Seq(Status)
    <3>1. \A j \in 1 .. i : acked[j] \in Status BY <1>3, <1>4, <1>5
    <3> QED BY <1>3, <3>1, SubSeqProperties
  <2>2. R(i) \in Seq(Status) BY <2>1
  <2> QED BY <2>2, LenProperties
<1> DEFINE r == R(i)
<1> HIDE DEF R
<1>7. SubSeq(acked, Len(r) + 1, Len(acked)) \in Seq(Status)
  <2>1. \A j \in (Len(r) + 1) .. Len(acked) : acked[j] \in Status BY <1>3, <1>4, <1>5, <1>6
  <2> QED BY <1>3, <1>4, <1>6, <2>1, SubSeqProperties
<1>8. \A s \in ToSet(r) : s \in Status
  <2>1. DOMAIN r = 1 .. Len(r) BY <1>6, LenProperties
  <2>2. \A j \in 1 .. Len(r) : r[j] \in Status BY <1>6, ElementOfSeq
  <2> QED BY <2>1, <2>2 DEF ToSet
<1>9. queue' \in [Server -> Seq(Status)] BY <1>1, <1>7 DEF TypeOK
<1>10. states' \in [Server -> SUBSET ReadState]
  <2>1. {[ctx |-> s.ctx, index |-> s.index] : s \in L(i)} \in SUBSET ReadState
    BY <1>8 DEF Status, ReadState
  <2> HIDE DEF L
  <2> QED BY <1>1, <2>1 DEF TypeOK
<1>11. net' \in SUBSET Message
  <2>1. \A s \in ToSet(r) : ReadIndexResp(n, s.from, s.ctx, term[n], s.index) \in Message
    BY <1>8 DEF Status, ReadIndexResp, Message, ReadAnswer, TypeOK
  <2>2. net \in SUBSET Message BY DEF TypeOK
  <2> QED BY <1>1, <2>1, <2>2
<1> QED BY <1>9, <1>10, <1>11

\* Reads fail, succeed and become ready.
LEMMA ReadTypes ==
  /\ Failed \in Read
  /\ \A need, seen \in Nat : Untracked("ok", need, seen) \in Read
BY DEF Failed, Untracked, Read

\* The largest index is one of them.
LEMMA MaxIsElement ==
  ASSUME NEW b \in Nat, NEW S \in SUBSET (0 .. b), S # {}
  PROVE  Max(S) \in S /\ \A y \in S : y <= Max(S)
<1> DEFINE T == {k \in Nat : \A y \in S : y <= k}
<1>1. b \in T OBVIOUS
<1>2. PICK x \in T : \A k \in T : x <= k
  <2>1. T \in SUBSET Nat /\ T # {} BY <1>1
  <2> HIDE DEF T
  <2> QED BY <2>1, LeastExists
<1>3. x \in S
  <2> SUFFICES ASSUME x \notin S PROVE FALSE OBVIOUS
  <2>1. \A y \in S : y <= x - 1 BY <1>2
  <2>2. PICK y \in S : TRUE OBVIOUS
  <2>3. x - 1 \in T BY <1>2, <2>1, <2>2
  <2> QED BY <1>2, <2>3
<1>4. \A y \in S : x >= y BY <1>2
<1> DEFINE P(z) == \A y \in S : z >= y
<1>5. \E z \in S : P(z) BY <1>3, <1>4
<1>6. Max(S) = CHOOSE z \in S : P(z) BY DEF Max
<1>7. Max(S) \in S /\ P(Max(S)) BY <1>5, <1>6
<1> QED BY <1>7

\* markReadReady takes an index from the Ready, or leaves what was marked.
LEMMA MarkedIs ==
  ASSUME TypeOK, Indexes, NEW n \in Server, NEW r \in Request
  PROVE  /\ Marked(r, n) \in Nat
         /\ \/ Marked(r, n) = read[r].ready
            \/ \E s \in states[n] : s.ctx = r /\ Marked(r, n) = s.index
<1> DEFINE T == {s.index : s \in {s \in states[n] : s.ctx = r}}
           S == {read[r].ready} \cup T
           b == read[r].ready + Len(log)
<1>1. read[r].ready \in Nat /\ Len(log) \in Nat BY LenProperties DEF TypeOK, Read
<1>2. \A s \in states[n] : s.index \in 1 .. Len(log) BY DEF Indexes, Sound
<1>3. \A x \in T : x \in 0 .. b BY <1>1, <1>2
<1>4. S \in SUBSET (0 .. b) /\ b \in Nat /\ S # {} BY <1>1, <1>3
<1>5. Marked(r, n) = Max(S) BY DEF Marked
<1>6. Max(S) \in S
  <2> HIDE DEF S, b
  <2> QED BY <1>4, MaxIsElement
<1>7. Marked(r, n) = read[r].ready \/ Marked(r, n) \in T BY <1>5, <1>6
<1>8. Marked(r, n) \in 0 .. b
  <2> HIDE DEF S, b
  <2> QED BY <1>4, <1>5, <1>6
<1>9. Marked(r, n) \in Nat
  <2> HIDE DEF b
  <2> QED BY <1>4, <1>8
<1>10. Marked(r, n) \in T => \E s \in states[n] : s.ctx = r /\ Marked(r, n) = s.index OBVIOUS
<1> HIDE DEF T
<1> QED BY <1>7, <1>9, <1>10

\* Every step keeps the types.
LEMMA TypeStep ==
  ASSUME TypeOK, Indexes, [Next]_vars
  PROVE  TypeOK'
<1>1. ASSUME NEW n \in Server, NEW Q \in SUBSET Server, NEW t \in 1 .. MaxTerm, Elect(n, Q, t)
      PROVE  TypeOK'
  <2>1. Reset(Q) BY <1>1 DEF Elect
  <2>2. queue' \in [Server -> Seq(Status)] /\ postponed' \in [Server -> Seq(ReadRequest)]
    BY <2>1, ResetTypes
  <2>3. t \in Nat BY ReadAssumption
  <2>4. term' \in [Server -> Nat] /\ role' \in [Server -> Role] /\ lead' \in [Server -> Server \cup {None}]
    BY <1>1, <2>3 DEF Elect, TypeOK, Role
  <2>5. net' \in SUBSET Message BY <1>1 DEF Elect, Current, TypeOK
  <2> QED BY <1>1, <2>2, <2>4, <2>5 DEF Elect, TypeOK
<1>2. ASSUME NEW S \in SUBSET Server, NEW t \in Nat, NEW l \in Server \cup {None},
             BecomeFollower(S, t, l)
      PROVE  /\ queue' \in [Server -> Seq(Status)] /\ postponed' \in [Server -> Seq(ReadRequest)]
             /\ term' \in [Server -> Nat] /\ role' \in [Server -> Role]
             /\ lead' \in [Server -> Server \cup {None}]
  <2>1. Reset(S) BY <1>2 DEF BecomeFollower
  <2>2. queue' \in [Server -> Seq(Status)] /\ postponed' \in [Server -> Seq(ReadRequest)]
    BY <2>1, ResetTypes
  <2> QED BY <1>2, <2>2 DEF BecomeFollower, TypeOK, Role
<1>3. ASSUME NEW n \in Server, StepDown(n) PROVE TypeOK'
  <2>1. BecomeFollower({n}, term[n], None) /\ term[n] \in Nat BY <1>3 DEF StepDown, TypeOK
  <2>2. {n} \in SUBSET Server /\ None \in Server \cup {None} OBVIOUS
  <2>3. /\ queue' \in [Server -> Seq(Status)] /\ postponed' \in [Server -> Seq(ReadRequest)]
        /\ term' \in [Server -> Nat] /\ role' \in [Server -> Role]
        /\ lead' \in [Server -> Server \cup {None}]
    BY <1>2, <2>1, <2>2
  <2> QED BY <1>3, <2>3 DEF StepDown, Event, TypeOK
<1>4. ASSUME NEW n \in Server, NEW Q \in SUBSET Server, Replicate(n, Q) PROVE TypeOK'
  <2>1. Reset({m \in Q : term[m] < term[n]}) BY <1>4 DEF Replicate
  <2>2. queue' \in [Server -> Seq(Status)] /\ postponed' \in [Server -> Seq(ReadRequest)]
    BY <2>1, ResetTypes
  <2>3. term' \in [Server -> Nat] /\ role' \in [Server -> Role] /\ lead' \in [Server -> Server \cup {None}]
    BY <1>4 DEF Replicate, TypeOK, Role
  <2>4. net' \in SUBSET Message BY <1>4 DEF Replicate, Current, TypeOK
  <2>5. log' \in Seq(Nat) BY <1>4, AppendProperties DEF Replicate, TypeOK
  <2> QED BY <1>4, <2>2, <2>3, <2>4, <2>5 DEF Replicate, TypeOK
<1>5. ASSUME NEW n \in Server, LearnCommit(n) PROVE TypeOK'
  BY <1>5 DEF LearnCommit, TypeOK, consensus
<1>6. ASSUME NEW n \in Server, Restart(n) PROVE TypeOK'
  <2>1. Reset({n}) BY <1>6 DEF Restart
  <2>2. queue' \in [Server -> Seq(Status)] /\ postponed' \in [Server -> Seq(ReadRequest)]
    BY <2>1, ResetTypes
  <2>3. PICK a \in 1 .. applied[n] : \E c \in a .. commit[n] :
          applied' = [applied EXCEPT ![n] = a] /\ commit' = [commit EXCEPT ![n] = c]
    BY <1>6 DEF Restart
  <2>4. PICK c \in a .. commit[n] :
          applied' = [applied EXCEPT ![n] = a] /\ commit' = [commit EXCEPT ![n] = c]
    BY <2>3
  <2>5. applied[n] \in Nat /\ commit[n] \in Nat BY DEF TypeOK
  <2>6. a \in Nat /\ c \in Nat BY <2>5
  <2>7. read' \in [Request -> Read] BY <1>6, ReadTypes DEF Restart, TypeOK
  <2>8. /\ role' \in [Server -> Role] /\ lead' \in [Server -> Server \cup {None}]
        /\ prev' \in [Server -> Role] /\ states' \in [Server -> SUBSET ReadState] /\ events' \in Nat
    BY <1>6 DEF Restart, TypeOK, Event, Role
  <2> QED BY <1>6, <2>2, <2>4, <2>6, <2>7, <2>8 DEF Restart, TypeOK
<1>7. ASSUME NEW n \in Server, ProcessReady(n) PROVE TypeOK'
  <2>1. commit[n] \in Nat /\ shown \in Nat /\ role[n] \in Role BY DEF TypeOK
  <2>2. Max({shown, commit[n]}) \in Nat
    <3>1. {shown, commit[n]} \in SUBSET (0 .. (shown + commit[n])) /\ shown + commit[n] \in Nat
      BY <2>1
    <3>2. Max({shown, commit[n]}) \in {shown, commit[n]} BY <3>1, MaxIsElement
    <3> QED BY <2>1, <3>2
  <2>3. ASSUME NEW r \in Request PROVE read'[r] \in Read
    <3>1. read[r] \in Read BY DEF TypeOK
    <3>2. Marked(r, n) \in Nat BY MarkedIs
    <3>3. [read[r] EXCEPT !.ready = Marked(r, n)] \in Read BY <3>1, <3>2 DEF Read
    <3>4. read[r].need \in Nat /\ read[r].ready \in Nat BY <3>1 DEF Read
    <3>5. Untracked("ok", read[r].need, read[r].ready) \in Read BY <3>4, ReadTypes
    <3>6. Untracked("ok", read[r].need, commit[n]) \in Read BY <2>1, <3>4, ReadTypes
    <3> QED BY <1>7, <3>1, <3>3, <3>5, <3>6, ReadTypes DEF ProcessReady
  <2>4. read' \in [Request -> Read]
    <3>1. read' = [r \in Request |-> read'[r]] BY <1>7 DEF ProcessReady
    <3> QED BY <2>3, <3>1
  <2>5. /\ prev' \in [Server -> Role] /\ applied' \in [Server -> Nat] /\ shown' \in Nat
        /\ states' \in [Server -> SUBSET ReadState]
    BY <1>7, <2>1, <2>2 DEF ProcessReady, TypeOK
  <2> QED BY <1>7, <2>4, <2>5 DEF ProcessReady, TypeOK, consensus
<1>8. ASSUME NEW n \in Server, NEW i \in 1 .. Len(log), LeaderCommits(n, i) PROVE TypeOK'
  <2> DEFINE ms == postponed[n]
  <2>1. Len(log) \in Nat /\ i \in Nat /\ ms \in Seq(ReadRequest) /\ queue[n] \in Seq(Status)
    <3>1. Len(log) \in Nat BY LenProperties DEF TypeOK
    <3> QED BY <3>1 DEF TypeOK
  <2>2. AddRequests(queue[n], i, ms, n) \in Seq(Status)
    BY <2>1, AddRequestsServes DEF Serves
  <2>3. \A m \in ToSet(ms) : Heartbeats(n, m.ctx) \in SUBSET Message
    <3>1. DOMAIN ms = 1 .. Len(ms) BY <2>1, LenProperties
    <3>2. \A m \in ToSet(ms) : m \in ReadRequest BY <2>1, <3>1, ElementOfSeq DEF ToSet
    <3>3. term[n] \in Nat BY DEF TypeOK
    <3>4. \A c \in Request : \A to \in Server : Heartbeat(n, to, c, term[n]) \in Message
      BY <3>3 DEF Heartbeat, Message, Beat
    <3>5. \A c \in Request : Heartbeats(n, c) \in SUBSET Message BY <3>4 DEF Heartbeats
    <3> QED BY <3>2, <3>5 DEF ReadRequest
  <2>4. net' \in SUBSET Message BY <1>8, <2>3 DEF LeaderCommits, TypeOK
  <2>5. queue' \in [Server -> Seq(Status)] BY <1>8, <2>2 DEF LeaderCommits, TypeOK
  <2>6. commit' \in [Server -> Nat] /\ postponed' \in [Server -> Seq(ReadRequest)]
    BY <1>8, <2>1 DEF LeaderCommits, TypeOK
  <2> QED BY <1>8, <2>4, <2>5, <2>6 DEF LeaderCommits, TypeOK, consensus
<1>9. ASSUME NEW n \in Server, NEW r \in Request, RequestRead(r, n) PROVE TypeOK'
  <2>1. ReadIndexMsg(n, n, r) \in ReadRequest BY DEF ReadIndexMsg, ReadRequest
  <2>2. StepReadIndex(n, ReadIndexMsg(n, n, r)) BY <1>9 DEF RequestRead
  <2>3. /\ queue' \in [Server -> Seq(Status)] /\ postponed' \in [Server -> Seq(ReadRequest)]
        /\ net' \in SUBSET Message
    BY <2>1, <2>2, StepReadIndexTypes
  <2>4. read' \in [Request -> Read] BY <1>9 DEF RequestRead, TypeOK, Read
  <2> QED BY <1>9, <2>3, <2>4 DEF RequestRead, Event, TypeOK, consensus
<1>10. ASSUME NEW r \in Request, Expire(r) PROVE TypeOK'
  BY <1>10, ReadTypes DEF Expire, Event, TypeOK, consensus
<1>11. ASSUME NEW m \in net, HandleReadIndex(m.to, m) PROVE TypeOK'
  <2>1. m \in ReadRequest /\ m.to \in Server
    BY <1>11 DEF HandleReadIndex, TypeOK, Message, ReadRequest, ReadAnswer, Beat
  <2>2. StepReadIndex(m.to, m) BY <1>11 DEF HandleReadIndex
  <2>3. /\ queue' \in [Server -> Seq(Status)] /\ postponed' \in [Server -> Seq(ReadRequest)]
        /\ net' \in SUBSET Message
    BY <2>1, <2>2, StepReadIndexTypes
  <2> QED BY <1>11, <2>3 DEF HandleReadIndex, TypeOK, consensus
<1>12. ASSUME NEW m \in net, HandleHeartbeat(m.to, m) PROVE TypeOK'
  <2>1. m \in Beat /\ m.to \in Server /\ m.from \in Server /\ m.term \in Nat /\ m.ctx \in Request
    BY <1>12 DEF HandleHeartbeat, TypeOK, Message, ReadRequest, ReadAnswer, Beat
  <2>2. net' \in SUBSET Message
    <3>1. HeartbeatResponse(m.to, m.from, m.ctx, m.term) \in Message
      BY <2>1 DEF HeartbeatResponse, Message, Beat
    <3> QED BY <1>12, <3>1 DEF HandleHeartbeat, Current, TypeOK
  <2>3. CASE term[m.to] < m.term
    <3>1. BecomeFollower({m.to}, m.term, m.from) BY <1>12, <2>3 DEF HandleHeartbeat
    <3>2. {m.to} \in SUBSET Server BY <2>1
    <3> QED BY <1>2, <1>12, <2>1, <2>2, <3>1, <3>2 DEF HandleHeartbeat, TypeOK
  <2>4. CASE ~ (term[m.to] < m.term)
    <3>1. lead' \in [Server -> Server \cup {None}] BY <1>12, <2>1, <2>4 DEF HandleHeartbeat, TypeOK
    <3> QED BY <1>12, <2>2, <2>4, <3>1 DEF HandleHeartbeat, TypeOK
  <2> QED BY <2>3, <2>4
<1>13. ASSUME NEW m \in net, HandleHeartbeatResponse(m.to, m) PROVE TypeOK'
  <2>1. m.to \in Server BY DEF TypeOK, Message, ReadRequest, ReadAnswer, Beat
  <2>2. /\ queue' \in [Server -> Seq(Status)] /\ states' \in [Server -> SUBSET ReadState]
        /\ net' \in SUBSET Message
    BY <1>13, <2>1, ReleaseTypes
  <2> QED BY <1>13, <2>2 DEF HandleHeartbeatResponse, TypeOK, consensus
<1>14. ASSUME NEW m \in net, HandleReadIndexResp(m.to, m) PROVE TypeOK'
  <2>1. m \in ReadAnswer /\ m.to \in Server /\ m.term \in Nat /\ m.index \in Nat /\ m.ctx \in Request
    BY <1>14 DEF HandleReadIndexResp, TypeOK, Message, ReadRequest, ReadAnswer, Beat
  <2>2. CASE term[m.to] < m.term
    <3>1. BecomeFollower({m.to}, m.term, None) /\ net' = Current(net, {m.to}, m.term)
      BY <1>14, <2>2 DEF HandleReadIndexResp
    <3>2. {m.to} \in SUBSET Server /\ None \in Server \cup {None} BY <2>1
    <3>3. net' \in SUBSET Message BY <3>1 DEF Current, TypeOK
    <3>4. /\ queue' \in [Server -> Seq(Status)] /\ postponed' \in [Server -> Seq(ReadRequest)]
          /\ term' \in [Server -> Nat] /\ role' \in [Server -> Role]
          /\ lead' \in [Server -> Server \cup {None}]
      BY <1>2, <2>1, <3>1, <3>2
    <3>5. UNCHANGED <<states, commit, log, applied, prev, read, events, shown>>
      BY <1>14, <2>2 DEF HandleReadIndexResp
    <3> QED BY <3>3, <3>4, <3>5 DEF TypeOK
  <2>3. CASE ~ (term[m.to] < m.term)
    <3>1. [ctx |-> m.ctx, index |-> m.index] \in ReadState BY <2>1 DEF ReadState
    <3>2. states' \in [Server -> SUBSET ReadState]
      <4>1. states' = [states EXCEPT ![m.to] = states[m.to] \cup {[ctx |-> m.ctx, index |-> m.index]}]
        BY <1>14, <2>3 DEF HandleReadIndexResp
      <4>2. states \in [Server -> SUBSET ReadState] BY DEF TypeOK
      <4> QED BY <2>1, <3>1, <4>1, <4>2
    <3>3. commit' \in [Server -> Nat]
      <4>1. commit' = commit \/ commit' = [commit EXCEPT ![m.to] = m.index]
        BY <1>14, <2>3 DEF HandleReadIndexResp
      <4>2. commit \in [Server -> Nat] BY DEF TypeOK
      <4> QED BY <2>1, <4>1, <4>2
    <3>4. UNCHANGED <<term, role, lead, queue, postponed, net, log, applied, prev, read, events, shown>>
      BY <1>14, <2>3 DEF HandleReadIndexResp
    <3> QED BY <3>2, <3>3, <3>4 DEF TypeOK
  <2> QED BY <2>2, <2>3
<1>15. CASE UNCHANGED vars BY <1>15 DEF vars, consensus, TypeOK
<1> QED BY <1>1, <1>3, <1>4, <1>5, <1>6, <1>7, <1>8, <1>9, <1>10, <1>11, <1>12, <1>13, <1>14,
           <1>15 DEF Next

-----------------------------------------------------------------------------
(***************************************************************************)
(* Consensus.                                                              *)
(***************************************************************************)
\* Terms grow, and leaders are of the term they were, and know what they knew.
NoNewLeader ==
  /\ \A s \in Server : term[s] <= term'[s]
  /\ \A n \in Server : role'[n] = "leader" =>
       role[n] = "leader" /\ term'[n] = term[n] /\ commit[n] <= commit'[n]

\* Majorities in a term stay so.
LEMMA FromGrows ==
  ASSUME TypeOK, TypeOK', NEW t \in Nat, \A s \in Server : term[s] <= term'[s],
         IsMajority(From(t))
  PROVE  IsMajority({s \in Server : term'[s] >= t})
<1> DEFINE S == {s \in Server : term[s] >= t}
           T == {s \in Server : term'[s] >= t}
<1>1. \A s \in Server : term[s] \in Nat /\ term'[s] \in Nat BY DEF TypeOK
<1>2. S \subseteq T BY <1>1
<1>3. IsMajority(S) BY DEF From
<1>4. S \in SUBSET Server /\ T \in SUBSET Server OBVIOUS
<1> HIDE DEF S
<1>5. IsMajority(T)
  <2> HIDE DEF T
  <2> QED BY <1>2, <1>3, <1>4, MajorityGrows
<1> QED BY <1>5

\* A latest leader that was leader before was a latest leader before.
LEMMA LatestBefore ==
  ASSUME TypeOK, TypeOK', NEW n \in Server, role[n] = "leader", term'[n] = term[n],
         \A s \in Server : term[s] <= term'[s], Latest(n)'
  PROVE  Latest(n)
<1> DEFINE S == {s \in Server : term'[s] <= term[n]}
           T == {s \in Server : term[s] <= term[n]}
<1>1. \A s \in Server : term[s] \in Nat /\ term'[s] \in Nat BY DEF TypeOK
<1>2. S \subseteq T BY <1>1
<1>3. IsMajority(S) BY DEF Latest, UpTo
<1>4. S \in SUBSET Server /\ T \in SUBSET Server OBVIOUS
<1>5. IsMajority(T)
  <2> HIDE DEF S, T
  <2> QED BY <1>2, <1>3, <1>4, MajorityGrows
<1> QED BY <1>5 DEF Latest, UpTo

\* Without a new leader, leaders stay unique and sound indexes sound.
LEMMA SoundStays ==
  ASSUME TypeOK, TypeOK', Consensus, NoNewLeader, Len(log) <= Len(log'),
         \A k \in 1 .. Len(log) : log'[k] = log[k]
  PROVE  /\ \A n \in Server : role'[n] = "leader" => IsMajority(From(term[n]))'
         /\ \A n, m \in Server :
              (role'[n] = "leader" /\ role'[m] = "leader" /\ term'[n] = term'[m]) => n = m
         /\ \A k \in Nat : Sound(k) => Sound(k)'
<1>1. ASSUME NEW n \in Server, role'[n] = "leader" PROVE IsMajority(From(term[n]))'
  <2>1. role[n] = "leader" /\ term'[n] = term[n] /\ term[n] \in Nat BY <1>1 DEF NoNewLeader, TypeOK
  <2>2. IsMajority(From(term[n])) BY <2>1 DEF Consensus
  <2>3. IsMajority({s \in Server : term'[s] >= term[n]}) BY <2>1, <2>2, FromGrows DEF NoNewLeader
  <2> QED BY <2>1, <2>3 DEF From
<1>2. ASSUME NEW n \in Server, NEW m \in Server, role'[n] = "leader", role'[m] = "leader",
             term'[n] = term'[m]
      PROVE  n = m
  BY <1>2 DEF NoNewLeader, Consensus
<1>3. ASSUME NEW k \in Nat, Sound(k) PROVE Sound(k)'
  <2>1. Len(log) \in Nat /\ Len(log') \in Nat BY LenProperties DEF TypeOK
  <2>2. k \in 1 .. Len(log) /\ k \in 1 .. Len(log') /\ log'[k] = log[k]
    <3>1. k \in 1 .. Len(log) BY <1>3 DEF Sound
    <3> QED BY <2>1, <3>1
  <2>3. ASSUME NEW n \in Server, Latest(n)', log'[k] >= term'[n] PROVE k <= commit'[n]
    <3>1. role'[n] = "leader" BY <2>3 DEF Latest
    <3>2. role[n] = "leader" /\ term'[n] = term[n] /\ commit[n] <= commit'[n]
      BY <3>1 DEF NoNewLeader
    <3>3. Latest(n) BY <2>3, <3>2, LatestBefore DEF NoNewLeader
    <3>4. log[k] >= term[n] BY <2>2, <2>3, <3>2
    <3>5. k <= commit[n] BY <1>3, <3>3, <3>4 DEF Sound
    <3>6. commit[n] \in Nat /\ commit'[n] \in Nat BY DEF TypeOK
    <3> QED BY <3>2, <3>5, <3>6
  <2> QED BY <2>2, <2>3 DEF Sound
<1> QED BY <1>1, <1>2, <1>3

\* ... and so do the log's entries when the log is unchanged.
LEMMA CalmConsensus ==
  ASSUME TypeOK, TypeOK', Consensus, NoNewLeader, log' = log
  PROVE  Consensus' /\ \A k \in Nat : Sound(k) => Sound(k)'
<1>1. Len(log) \in Nat BY LenProperties DEF TypeOK
<1>2. /\ \A n \in Server : role'[n] = "leader" => IsMajority(From(term[n]))'
      /\ \A n, m \in Server :
           (role'[n] = "leader" /\ role'[m] = "leader" /\ term'[n] = term'[m]) => n = m
      /\ \A k \in Nat : Sound(k) => Sound(k)'
  BY <1>1, SoundStays
<1>3. ASSUME NEW k \in 1 .. Len(log) PROVE IsMajority(From(log[k]))'
  <2>1. log[k] \in Nat BY ElementOfSeq DEF TypeOK
  <2>2. IsMajority(From(log[k])) BY DEF Consensus
  <2>3. IsMajority({s \in Server : term'[s] >= log[k]}) BY <2>1, <2>2, FromGrows DEF NoNewLeader
  <2> QED BY <2>3 DEF From
<1>4. \A i, j \in 1 .. Len(log') : i <= j => log'[i] <= log'[j] BY DEF Consensus
<1>5. Consensus' BY <1>2, <1>3, <1>4 DEF Consensus
<1> QED BY <1>2, <1>5

\* campaign and becomeLeader: the quorum that elects a leader knows every term
\* that has committed an entry or elected a leader.
LEMMA ElectConsensus ==
  ASSUME TypeOK, TypeOK', Consensus, NEW n \in Server, NEW Q \in SUBSET Server,
         NEW t \in Nat, Elect(n, Q, t)
  PROVE  Consensus' /\ \A k \in Nat : Sound(k) => Sound(k)'
<1>1. /\ n \in Q /\ IsMajority(Q) /\ (\A m \in Q : term[m] < t) /\ log' = log /\ commit' = commit
      /\ term' = [m \in Server |-> IF m \in Q THEN t ELSE term[m]]
      /\ role' = [m \in Server |-> IF m = n THEN "leader" ELSE IF m \in Q THEN "follower" ELSE role[m]]
  BY DEF Elect
<1>2. \A s \in Server : term[s] \in Nat /\ term'[s] \in Nat BY DEF TypeOK
<1>3. \A s \in Server : term[s] <= term'[s] BY <1>1, <1>2
<1>4. \A u \in Nat : IsMajority(From(u)) => u < t
  <2> SUFFICES ASSUME NEW u \in Nat, IsMajority(From(u)) PROVE u < t OBVIOUS
  <2>1. From(u) \in SUBSET Server BY DEF From
  <2>2. PICK s \in From(u) \cap Q : TRUE BY <1>1, <2>1, MajoritiesMeet
  <2>3. s \in Server /\ term[s] >= u /\ term[s] < t BY <1>1, <2>2 DEF From
  <2> QED BY <1>2, <2>3
<1>5. Len(log) \in Nat BY LenProperties DEF TypeOK
<1>6. \A k \in 1 .. Len(log) : log[k] \in Nat /\ log[k] < t
  <2>1. \A k \in 1 .. Len(log) : log[k] \in Nat BY ElementOfSeq DEF TypeOK
  <2> QED BY <1>4, <2>1 DEF Consensus
<1>7. \A m \in Server : role'[m] = "leader" /\ m # n => role[m] = "leader" /\ term'[m] = term[m]
  BY <1>1
<1>8. \A m \in Server : role[m] = "leader" => term[m] < t BY <1>2, <1>4 DEF Consensus
<1>9. term'[n] = t BY <1>1
<1>10. IsMajority({s \in Server : term'[s] >= t})
  <2> DEFINE T == {s \in Server : term'[s] >= t}
  <2>1. Q \subseteq T BY <1>1, <1>2
  <2>2. T \in SUBSET Server OBVIOUS
  <2>3. IsMajority(T)
    <3> HIDE DEF T
    <3> QED BY <1>1, <2>1, <2>2, MajorityGrows
  <2> QED BY <2>3
<1>11. ASSUME NEW m \in Server, role'[m] = "leader" PROVE IsMajority(From(term[m]))'
  <2>1. CASE m = n BY <1>9, <1>10, <2>1 DEF From
  <2>2. CASE m # n
    <3>1. role[m] = "leader" /\ term'[m] = term[m] /\ term[m] \in Nat BY <1>2, <1>7, <1>11, <2>2
    <3>2. IsMajority(From(term[m])) BY <3>1 DEF Consensus
    <3>3. IsMajority({s \in Server : term'[s] >= term[m]}) BY <1>3, <3>1, <3>2, FromGrows
    <3> QED BY <3>1, <3>3 DEF From
  <2> QED BY <2>1, <2>2
<1>12. ASSUME NEW m \in Server, NEW l \in Server, role'[m] = "leader", role'[l] = "leader",
              term'[m] = term'[l]
       PROVE  m = l
  <2>1. CASE m = n /\ l # n BY <1>2, <1>7, <1>8, <1>9, <1>12, <2>1
  <2>2. CASE l = n /\ m # n BY <1>2, <1>7, <1>8, <1>9, <1>12, <2>2
  <2>3. CASE l # n /\ m # n BY <1>7, <1>12, <2>3 DEF Consensus
  <2> QED BY <2>1, <2>2, <2>3
<1>13. ASSUME NEW k \in 1 .. Len(log) PROVE IsMajority(From(log[k]))'
  <2>1. IsMajority(From(log[k])) /\ log[k] \in Nat BY <1>6 DEF Consensus
  <2>2. IsMajority({s \in Server : term'[s] >= log[k]}) BY <1>3, <2>1, FromGrows
  <2> QED BY <1>1, <2>2 DEF From
<1>14. \A i, j \in 1 .. Len(log') : i <= j => log'[i] <= log'[j] BY <1>1 DEF Consensus
<1>15. Consensus' BY <1>1, <1>11, <1>12, <1>13, <1>14 DEF Consensus
<1>16. ASSUME NEW k \in Nat, Sound(k) PROVE Sound(k)'
  <2>1. k \in 1 .. Len(log) BY <1>16 DEF Sound
  <2>2. ASSUME NEW m \in Server, Latest(m)', log'[k] >= term'[m] PROVE k <= commit'[m]
    <3>1. role'[m] = "leader" BY <2>2 DEF Latest
    <3>2. CASE m = n
      <4>1. log[k] >= t BY <1>1, <1>9, <2>2, <3>2
      <4> QED BY <1>6, <2>1, <4>1
    <3>3. CASE m # n
      <4>1. role[m] = "leader" /\ term'[m] = term[m] BY <1>7, <3>1, <3>3
      <4>2. Latest(m) BY <1>3, <2>2, <4>1, LatestBefore
      <4>3. log[k] >= term[m] BY <1>1, <2>2, <4>1
      <4> QED BY <1>1, <1>16, <4>2, <4>3 DEF Sound
    <3> QED BY <3>2, <3>3
  <2> QED BY <1>1, <2>1, <2>2 DEF Sound
<1> QED BY <1>15, <1>16

\* An entry is replicated: the quorum that stores it is in its term, which is
\* no earlier than that of an entry another quorum stored.
LEMMA ReplicateConsensus ==
  ASSUME TypeOK, TypeOK', Consensus, NEW n \in Server, NEW Q \in SUBSET Server, Replicate(n, Q)
  PROVE  Consensus' /\ \A k \in Nat : Sound(k) => Sound(k)'
<1>1. /\ n \in Q /\ IsMajority(Q) /\ (\A m \in Q : term[m] <= term[n]) /\ commit' = commit
      /\ role[n] = "leader" /\ log' = Append(log, term[n])
      /\ term' = [m \in Server |-> IF m \in Q THEN term[n] ELSE term[m]]
      /\ role' = [m \in Server |-> IF m \in Q \ {n} THEN "follower" ELSE role[m]]
  BY DEF Replicate
<1>2. \A s \in Server : term[s] \in Nat /\ term'[s] \in Nat /\ commit[s] \in Nat BY DEF TypeOK
<1>3. \A s \in Server : term[s] <= term'[s] BY <1>1, <1>2
<1>4. NoNewLeader
  <2>1. \A m \in Server : role'[m] = "leader" => role[m] = "leader" /\ term'[m] = term[m] BY <1>1
  <2>2. \A m \in Server : commit[m] <= commit'[m] BY <1>1, <1>2
  <2> QED BY <1>3, <2>1, <2>2 DEF NoNewLeader
<1> DEFINE L == Len(log)
<1>5. /\ log \in Seq(Nat) /\ L \in Nat /\ term[n] \in Nat /\ Len(log') = L + 1 /\ log'[L + 1] = term[n]
      /\ \A k \in 1 .. L : log'[k] = log[k]
  <2>1. log \in Seq(Nat) /\ term[n] \in Nat BY DEF TypeOK
  <2> QED BY <1>1, <2>1, LenProperties, AppendProperties
<1>6. \A k \in 1 .. L : log[k] \in Nat BY <1>5, ElementOfSeq
<1> HIDE DEF L
<1>7. /\ \A m \in Server : role'[m] = "leader" => IsMajority(From(term[m]))'
      /\ \A m, l \in Server :
           (role'[m] = "leader" /\ role'[l] = "leader" /\ term'[m] = term'[l]) => m = l
      /\ \A k \in Nat : Sound(k) => Sound(k)'
  <2>1. Len(log) <= Len(log') BY <1>5 DEF L
  <2> QED BY <1>4, <1>5, <2>1, SoundStays DEF L
<1>8. ASSUME NEW k \in 1 .. L PROVE IsMajority(From(log[k])) /\ log[k] <= term[n]
  <2>1. IsMajority(From(log[k])) /\ From(log[k]) \in SUBSET Server BY DEF Consensus, From, L
  <2>2. PICK s \in From(log[k]) \cap Q : TRUE BY <1>1, <2>1, MajoritiesMeet
  <2>3. s \in Server /\ term[s] >= log[k] /\ term[s] <= term[n] BY <1>1, <2>2 DEF From
  <2>4. log[k] <= term[n] BY <1>2, <1>5, <1>6, <2>3
  <2> QED BY <2>1, <2>4
<1>9. \A i, j \in 1 .. Len(log') : i <= j => log'[i] <= log'[j]
  <2> SUFFICES ASSUME NEW i \in 1 .. (L + 1), NEW j \in 1 .. (L + 1), i <= j
               PROVE  log'[i] <= log'[j]
    BY <1>5
  <2>1. CASE j = L + 1
    <3>1. CASE i = L + 1 BY <1>5, <2>1, <3>1
    <3>2. CASE i \in 1 .. L BY <1>5, <1>8, <2>1, <3>2
    <3> QED BY <1>5, <3>1, <3>2
  <2>2. CASE j \in 1 .. L
    <3>1. i \in 1 .. L BY <1>5, <2>2
    <3>2. log[i] <= log[j] BY <2>2, <3>1 DEF Consensus, L
    <3> QED BY <1>5, <2>2, <3>1, <3>2
  <2> QED BY <1>5, <2>1, <2>2
<1>10. ASSUME NEW k \in 1 .. Len(log') PROVE IsMajority(From(log[k]))'
  <2>1. CASE k = L + 1
    <3> DEFINE T == {s \in Server : term'[s] >= term[n]}
    <3>1. Q \subseteq T /\ T \in SUBSET Server BY <1>1, <1>2
    <3>2. IsMajority(T)
      <4> HIDE DEF T
      <4> QED BY <1>1, <3>1, MajorityGrows
    <3> QED BY <1>5, <2>1, <3>2 DEF From
  <2>2. CASE k \in 1 .. L
    <3>1. IsMajority(From(log[k])) /\ log[k] \in Nat BY <1>6, <1>8, <2>2
    <3>2. IsMajority({s \in Server : term'[s] >= log[k]}) BY <1>3, <3>1, FromGrows
    <3> QED BY <1>5, <2>2, <3>2 DEF From
  <2> QED BY <1>5, <2>1, <2>2
<1>11. Consensus' BY <1>7, <1>9, <1>10 DEF Consensus
<1> QED BY <1>7, <1>11

\* Every step keeps what is sound.
LEMMA ConsensusStep ==
  ASSUME TypeOK, TypeOK', Consensus, [Next]_vars
  PROVE  Consensus' /\ \A k \in Nat : Sound(k) => Sound(k)'
<1>1. \A s \in Server : term[s] \in Nat /\ commit[s] \in Nat BY DEF TypeOK
<1>2. ASSUME NEW n \in Server, NEW t \in Nat, NEW l, term[n] <= t, BecomeFollower({n}, t, l),
             commit' = commit
      PROVE  NoNewLeader
  <2>1. /\ term' = [m \in Server |-> IF m \in {n} THEN t ELSE term[m]]
        /\ role' = [m \in Server |-> IF m \in {n} THEN "follower" ELSE role[m]]
    BY <1>2 DEF BecomeFollower
  <2> QED BY <1>1, <1>2, <2>1 DEF NoNewLeader
<1>3. ASSUME UNCHANGED <<term, role, commit>> PROVE NoNewLeader BY <1>1, <1>3 DEF NoNewLeader
<1>4. ASSUME NEW n \in Server, NEW Q \in SUBSET Server, NEW t \in 1 .. MaxTerm, Elect(n, Q, t)
      PROVE  Consensus' /\ \A k \in Nat : Sound(k) => Sound(k)'
  <2>1. t \in Nat BY ReadAssumption
  <2> QED BY <1>4, <2>1, ElectConsensus
<1>5. ASSUME NEW n \in Server, NEW Q \in SUBSET Server, Replicate(n, Q)
      PROVE  Consensus' /\ \A k \in Nat : Sound(k) => Sound(k)'
  BY <1>5, ReplicateConsensus
<1>6. ASSUME NEW n \in Server, StepDown(n) PROVE log' = log /\ NoNewLeader
  <2>1. BecomeFollower({n}, term[n], None) /\ commit' = commit /\ log' = log BY <1>6 DEF StepDown
  <2>2. term[n] <= term[n] BY <1>1
  <2> QED BY <1>1, <1>2, <2>1, <2>2
<1>7. ASSUME NEW n \in Server, LearnCommit(n) PROVE log' = log /\ NoNewLeader
  <2>1. /\ role[n] = "follower" /\ commit' = [commit EXCEPT ![n] = commit[n] + 1]
        /\ UNCHANGED <<term, role, log>>
    BY <1>7 DEF LearnCommit, consensus
  <2>2. commit \in [Server -> Nat] BY DEF TypeOK
  <2> QED BY <1>1, <2>1, <2>2 DEF NoNewLeader
<1>8. ASSUME NEW n \in Server, Restart(n) PROVE log' = log /\ NoNewLeader
  <2>1. role' = [role EXCEPT ![n] = "follower"] /\ UNCHANGED <<term, log>> BY <1>8 DEF Restart
  <2>2. \A m \in Server : m # n => commit'[m] = commit[m]
    <3>1. \E c : commit' = [commit EXCEPT ![n] = c] BY <1>8 DEF Restart
    <3> QED BY <3>1 DEF TypeOK
  <2>3. role'[n] = "follower" /\ \A m \in Server : m # n => role'[m] = role[m] BY <2>1 DEF TypeOK
  <2> QED BY <1>1, <2>1, <2>2, <2>3 DEF NoNewLeader
<1>9. ASSUME NEW n \in Server, ProcessReady(n) PROVE log' = log /\ NoNewLeader
  BY <1>3, <1>9 DEF ProcessReady, consensus
<1>10. ASSUME NEW n \in Server, NEW i \in 1 .. Len(log), LeaderCommits(n, i)
       PROVE  log' = log /\ NoNewLeader
  <2>1. /\ i > commit[n] /\ commit' = [commit EXCEPT ![n] = i] /\ UNCHANGED <<term, role, log>>
    BY <1>10 DEF LeaderCommits, consensus
  <2>2. commit \in [Server -> Nat] /\ i \in Nat BY DEF TypeOK
  <2> QED BY <1>1, <2>1, <2>2 DEF NoNewLeader
<1>11. ASSUME NEW n \in Server, NEW r \in Request, RequestRead(r, n) PROVE log' = log /\ NoNewLeader
  BY <1>3, <1>11 DEF RequestRead, consensus
<1>12. ASSUME NEW r \in Request, Expire(r) PROVE log' = log /\ NoNewLeader
  BY <1>3, <1>12 DEF Expire, consensus
<1>13. ASSUME NEW m \in net, HandleReadIndex(m.to, m) PROVE log' = log /\ NoNewLeader
  BY <1>3, <1>13 DEF HandleReadIndex, consensus
<1>14. ASSUME NEW m \in net, HandleHeartbeat(m.to, m) PROVE log' = log /\ NoNewLeader
  <2>1. m.to \in Server /\ m.term \in Nat
    BY <1>14 DEF HandleHeartbeat, TypeOK, Message, ReadRequest, ReadAnswer, Beat
  <2>2. log' = log /\ commit' = commit /\ term[m.to] <= m.term BY <1>14 DEF HandleHeartbeat
  <2>3. CASE term[m.to] < m.term
    <3>1. BecomeFollower({m.to}, m.term, m.from) BY <1>14, <2>3 DEF HandleHeartbeat
    <3> QED BY <1>2, <2>1, <2>2, <3>1
  <2>4. CASE ~ (term[m.to] < m.term)
    <3>1. UNCHANGED <<term, role>> BY <1>14, <2>4 DEF HandleHeartbeat
    <3> QED BY <1>3, <2>2, <3>1
  <2> QED BY <2>3, <2>4
<1>15. ASSUME NEW m \in net, HandleHeartbeatResponse(m.to, m) PROVE log' = log /\ NoNewLeader
  BY <1>3, <1>15 DEF HandleHeartbeatResponse, consensus
<1>16. ASSUME NEW m \in net, HandleReadIndexResp(m.to, m) PROVE log' = log /\ NoNewLeader
  <2>1. m.to \in Server /\ m.term \in Nat /\ m.index \in Nat
    BY <1>16 DEF HandleReadIndexResp, TypeOK, Message, ReadRequest, ReadAnswer, Beat
  <2>2. log' = log /\ term[m.to] <= m.term BY <1>16 DEF HandleReadIndexResp
  <2>3. CASE term[m.to] < m.term
    <3>1. BecomeFollower({m.to}, m.term, None) /\ commit' = commit
      BY <1>16, <2>3 DEF HandleReadIndexResp
    <3> QED BY <1>2, <2>1, <2>2, <3>1
  <2>4. CASE ~ (term[m.to] < m.term)
    <3>1. UNCHANGED <<term, role>> /\ role[m.to] = "follower" BY <1>16, <2>4 DEF HandleReadIndexResp
    <3>2. commit' = commit \/ commit' = [commit EXCEPT ![m.to] = m.index]
      BY <1>16, <2>4 DEF HandleReadIndexResp
    <3>3. commit \in [Server -> Nat] BY DEF TypeOK
    <3>4. \A s \in Server : s # m.to => commit'[s] = commit[s] BY <3>2, <3>3
    <3> QED BY <1>1, <2>2, <3>1, <3>4 DEF NoNewLeader
  <2> QED BY <2>3, <2>4
<1>17. CASE UNCHANGED vars BY <1>3, <1>17, CalmConsensus DEF vars, consensus
<1>18. log' = log /\ NoNewLeader => Consensus' /\ \A k \in Nat : Sound(k) => Sound(k)'
  BY CalmConsensus
<1> QED BY <1>4, <1>5, <1>6, <1>7, <1>8, <1>9, <1>10, <1>11, <1>12, <1>13, <1>14, <1>15, <1>16,
           <1>17, <1>18 DEF Next

-----------------------------------------------------------------------------
(***************************************************************************)
(* What the handlers do to the queues.                                     *)
(***************************************************************************)
\* Raft.reset keeps a queue or empties it.
LEMMA ResetForgets ==
  ASSUME TypeOK, NEW S, Reset(S), NEW n \in Server
  PROVE  /\ queue'[n] = queue[n] \/ queue'[n] = <<>>
         /\ postponed'[n] = postponed[n] \/ postponed'[n] = <<>>
         /\ n \in S => queue'[n] = <<>> /\ postponed'[n] = <<>>
         /\ n \notin S => queue'[n] = queue[n] /\ postponed'[n] = postponed[n]
BY DEF Reset

\* Leader n serves requests ms with index i, of its term.
ServesAll(n, i, ms) ==
  /\ role[n] = "leader" /\ i \in 1 .. Len(log) /\ log[i] = term[n] /\ commit[n] <= i
  /\ Serves(n, i, ms, Len(ms), queue[n], queue'[n])
  /\ \A l \in Server : l # n => queue'[l] = queue[l]
  /\ UNCHANGED <<consensus, shown>>

\* Raft.stepReadIndex serves a request, postpones it, or passes it on.
LEMMA StepReadIndexCases ==
  ASSUME TypeOK, Indexes, NEW n \in Server, NEW m \in ReadRequest, StepReadIndex(n, m),
         UNCHANGED <<consensus, shown>>
  PROVE  \/ /\ ServesAll(n, commit[n], <<m>>)
            /\ net' = (net \ {m}) \cup Heartbeats(n, m.ctx) /\ postponed' = postponed
         \/ /\ postponed' = [postponed EXCEPT ![n] = Append(postponed[n], m)]
            /\ net' = net \ {m} /\ queue' = queue
         \/ /\ \/ net' = net \ {m}
               \/ lead[n] \in Server /\ net' = (net \ {m}) \cup {[m EXCEPT !.to = lead[n]]}
            /\ queue' = queue /\ postponed' = postponed
<1>1. /\ queue[n] \in Seq(Status) /\ commit[n] \in Nat /\ role[n] \in Role
      /\ lead[n] \in Server \cup {None}
  BY DEF TypeOK
<1>2. CASE role[n] = "leader" /\ CommitToCurrentTerm(n)
  <2>1. /\ queue' = [queue EXCEPT ![n] = AddRequest(queue[n], commit[n], m, n)]
        /\ net' = (net \ {m}) \cup Heartbeats(n, m.ctx)
        /\ postponed' = postponed
    BY <1>2 DEF StepReadIndex
  <2> DEFINE ms == <<m>>
  <2>2. ms \in Seq(ReadRequest) /\ Len(ms) = 1 /\ ms[1] = m OBVIOUS
  <2> HIDE DEF ms
  <2>3. Serves(n, commit[n], ms, 0, queue[n], queue[n])
    <3>1. Len(queue[n]) \in Nat BY <1>1, LenProperties
    <3> QED BY <1>1, <3>1 DEF Serves
  <2>4. Serves(n, commit[n], ms, 1, queue[n], AddRequest(queue[n], commit[n], ms[1], n))
    <3>1. 1 \in 1 .. Len(ms) /\ 1 - 1 = 0 BY <2>2
    <3>2. Serves(n, commit[n], ms, 1 - 1, queue[n], queue[n]) BY <2>3, <3>1
    <3> QED BY <1>1, <2>2, <3>1, <3>2, AddRequestServes
  <2>5. queue'[n] = AddRequest(queue[n], commit[n], m, n) /\ \A l \in Server : l # n => queue'[l] = queue[l]
    BY <2>1 DEF TypeOK
  <2>6. Serves(n, commit[n], ms, Len(ms), queue[n], queue'[n]) BY <2>2, <2>4, <2>5
  <2>7. commit[n] \in 1 .. Len(log) /\ log[commit[n]] = term[n] /\ commit[n] <= commit[n]
    BY <1>1, <1>2 DEF Indexes, Sound, CommitToCurrentTerm
  <2>8. ServesAll(n, commit[n], ms) BY <1>2, <2>5, <2>6, <2>7 DEF ServesAll
  <2> QED BY <2>1, <2>8 DEF ms
<1>3. CASE role[n] = "leader" /\ ~ CommitToCurrentTerm(n) BY <1>3 DEF StepReadIndex
<1>4. CASE role[n] = "follower" BY <1>1, <1>4 DEF StepReadIndex
<1> QED BY <1>1, <1>2, <1>3, <1>4 DEF Role

\* Raft.maybeCommit serves all that was postponed.
LEMMA LeaderCommitsServes ==
  ASSUME TypeOK, NEW n \in Server, NEW i \in 1 .. Len(log), LeaderCommits(n, i)
  PROVE  ServesAll(n, i, postponed[n])
<1>1. /\ role[n] = "leader" /\ i > commit[n] /\ log[i] = term[n] /\ UNCHANGED <<consensus, shown>>
      /\ queue' = [queue EXCEPT ![n] = AddRequests(queue[n], i, postponed[n], n)]
  BY DEF LeaderCommits
<1>2. /\ Len(log) \in Nat /\ i \in Nat /\ commit[n] \in Nat
      /\ postponed[n] \in Seq(ReadRequest) /\ queue[n] \in Seq(Status)
  <2>1. Len(log) \in Nat BY LenProperties DEF TypeOK
  <2> QED BY <2>1 DEF TypeOK
<1>3. queue'[n] = AddRequests(queue[n], i, postponed[n], n) /\ \A l \in Server : l # n => queue'[l] = queue[l]
  BY <1>1 DEF TypeOK
<1>4. Serves(n, i, postponed[n], Len(postponed[n]), queue[n], queue'[n])
  BY <1>2, <1>3, AddRequestsServes
<1>5. commit[n] <= i BY <1>1, <1>2
<1> QED BY <1>1, <1>3, <1>4, <1>5 DEF ServesAll

\* The first k requests of queue q are released.
Releases(n, m, k, q, q2) ==
  /\ k \in 0 .. Len(q) /\ Len(q2) = Len(q) - k
  /\ \A j \in 1 .. Len(q2) :
       /\ q2[j].ctx = q[j + k].ctx /\ q2[j].index = q[j + k].index
       /\ \A s \in q2[j].acks : s \in q[j + k].acks \/ (s = m.from /\ q[j + k].ctx = m.ctx)
  /\ k # 0 => q[k].ctx = m.ctx /\ IsMajority(q[k].acks \cup {m.from})
  /\ \A s \in states'[n] :
       s \in states[n] \/ \E j \in 1 .. k : s.ctx = q[j].ctx /\ s.index = q[j].index
  /\ \A l \in net' : l \in net \/
       (l.type = "read_index_resp" /\ \E j \in 1 .. k : l.ctx = q[j].ctx /\ l.index = q[j].index)

\* Raft.handleHeartbeatResponse, ReadOnly.advance.
LEMMA ReleasesFirst ==
  ASSUME TypeOK, NEW n \in Server, NEW m \in net, HandleHeartbeatResponse(n, m)
  PROVE  /\ \E k \in Nat : Releases(n, m, k, queue[n], queue'[n])
         /\ \A l \in Server : l # n => queue'[l] = queue[l] /\ states'[l] = states[l]
<1> DEFINE q == queue[n]
           acked == RecvACK(q, m.from, m.ctx)
           R(i) == IF HasQuorum(acked[i].acks) THEN SubSeq(acked, 1, i) ELSE <<>>
           L(i) == {s \in ToSet(R(i)) : s.from = n}
<1>1. PICK i \in DOMAIN q :
        /\ acked[i].ctx = m.ctx
        /\ queue' = [queue EXCEPT ![n] = SubSeq(acked, Len(R(i)) + 1, Len(acked))]
        /\ states' = [states EXCEPT ![n] = @ \cup {[ctx |-> s.ctx, index |-> s.index] : s \in L(i)}]
        /\ net' = net \cup {ReadIndexResp(n, s.from, s.ctx, term[n], s.index) :
                              s \in ToSet(R(i)) \ L(i)}
  BY DEF HandleHeartbeatResponse
<1>2. m.from \in Server BY DEF TypeOK, Message, ReadRequest, ReadAnswer, Beat
<1>3. q \in Seq(Status) /\ Len(q) \in Nat /\ i \in 1 .. Len(q) BY LenProperties DEF TypeOK
<1>4. /\ acked \in Seq(Status) /\ Len(acked) = Len(q)
      /\ \A j \in 1 .. Len(q) :
           /\ acked[j].ctx = q[j].ctx /\ acked[j].index = q[j].index
           /\ \/ acked[j].acks = q[j].acks
              \/ q[j].ctx = m.ctx /\ acked[j].acks = q[j].acks \cup {m.from}
  BY <1>2, <1>3, RecvACKAdds
<1>5. \A j \in 1 .. Len(q) : acked[j] \in Status /\ q[j] \in Status BY <1>3, <1>4, ElementOfSeq
<1>6. \A l \in Server : l # n => queue'[l] = queue[l] /\ states'[l] = states[l]
  BY <1>1 DEF TypeOK
<1> DEFINE r == R(i)
           rest == SubSeq(acked, Len(r) + 1, Len(acked))
<1>7. queue'[n] = rest BY <1>1 DEF TypeOK
<1>8. states'[n] = states[n] \cup {[ctx |-> s.ctx, index |-> s.index] : s \in L(i)} BY <1>1 DEF TypeOK
<1> HIDE DEF q, acked
<1>9. PICK k \in Nat : /\ k \in 0 .. Len(q) /\ r \in Seq(Status) /\ Len(r) = k
                       /\ \A j \in 1 .. k : r[j] = acked[j]
                       /\ k # 0 => k = i /\ IsMajority(acked[i].acks)
  <2>1. CASE ~ HasQuorum(acked[i].acks)
    <3>1. r = <<>> BY <2>1
    <3> HIDE DEF r
    <3>2. r \in Seq(Status) /\ Len(r) = 0 BY <3>1
    <3>3. 0 \in 0 .. Len(q) /\ \A j \in 1 .. 0 : r[j] = acked[j] BY <1>3
    <3> QED BY <3>2, <3>3
  <2>2. CASE HasQuorum(acked[i].acks)
    <3>1. r = SubSeq(acked, 1, i) BY <2>2
    <3>2. \A j \in 1 .. i : acked[j] \in Status BY <1>3, <1>5
    <3>3. r \in Seq(Status) /\ Len(r) = i /\ \A j \in 1 .. i : r[j] = acked[j]
      BY <1>3, <1>4, <3>1, <3>2, SubSeqProperties
    <3>4. i \in Nat /\ i \in 0 .. Len(q) BY <1>3
    <3> HIDE DEF r
    <3> QED BY <2>2, <3>3, <3>4 DEF HasQuorum
  <2> QED BY <2>1, <2>2
<1>10. ASSUME NEW s \in ToSet(r)
       PROVE  \E j \in 1 .. k : s.ctx = q[j].ctx /\ s.index = q[j].index
  <2>1. DOMAIN r = 1 .. k BY <1>9, LenProperties
  <2>2. PICK j \in 1 .. k : s = r[j] BY <2>1 DEF ToSet
  <2>3. s = acked[j] /\ j \in 1 .. Len(q) BY <1>3, <1>9, <2>2
  <2> QED BY <1>4, <2>2, <2>3
<1> HIDE DEF r
<1>11. ASSUME NEW s \in states'[n]
       PROVE  s \in states[n] \/ \E j \in 1 .. k : s.ctx = q[j].ctx /\ s.index = q[j].index
  <2>1. CASE s \in states[n] BY <2>1
  <2>2. CASE s \notin states[n]
    <3>1. PICK u \in L(i) : s = [ctx |-> u.ctx, index |-> u.index] BY <1>8, <2>2
    <3>2. u \in ToSet(r) BY <3>1 DEF r
    <3> HIDE DEF L
    <3> QED BY <1>10, <3>1, <3>2
  <2> QED BY <2>1, <2>2
<1>12. ASSUME NEW l \in net', l \notin net
       PROVE  /\ l.type = "read_index_resp"
              /\ \E j \in 1 .. k : l.ctx = q[j].ctx /\ l.index = q[j].index
  <2>1. PICK u \in ToSet(R(i)) : l = ReadIndexResp(n, u.from, u.ctx, term[n], u.index)
    BY <1>1, <1>12
  <2>2. u \in ToSet(r) BY <2>1 DEF r
  <2>3. l.type = "read_index_resp" /\ l.ctx = u.ctx /\ l.index = u.index BY <2>1 DEF ReadIndexResp
  <2> QED BY <1>10, <2>2, <2>3
<1>13. k # 0 => q[k].ctx = m.ctx /\ IsMajority(q[k].acks \cup {m.from})
  <2> SUFFICES ASSUME k # 0 PROVE q[k].ctx = m.ctx /\ IsMajority(q[k].acks \cup {m.from}) OBVIOUS
  <2>1. k = i /\ IsMajority(acked[i].acks) BY <1>9
  <2>2. q[i].ctx = m.ctx BY <1>1, <1>3, <1>4
  <2>3. acked[i].acks \subseteq q[i].acks \cup {m.from} BY <1>3, <1>4
  <2>4. acked[i].acks \in SUBSET Server /\ q[i].acks \cup {m.from} \in SUBSET Server
    BY <1>2, <1>3, <1>5 DEF Status
  <2>5. IsMajority(q[i].acks \cup {m.from}) BY <2>1, <2>3, <2>4, MajorityGrows
  <2> QED BY <2>1, <2>2, <2>5
<1>14. /\ Len(rest) = Len(q) - k
       /\ \A j \in 1 .. Len(rest) : rest[j] = acked[j + k]
  <2>1. \A j \in (k + 1) .. Len(acked) : acked[j] \in Status BY <1>3, <1>4, <1>5, <1>9
  <2>2. rest = SubSeq(acked, k + 1, Len(acked)) BY <1>9
  <2>3. CASE k + 1 <= Len(acked)
    <3>1. Len(rest) = Len(q) - k BY <1>3, <1>4, <1>9, <2>1, <2>2, <2>3, SubSeqProperties
    <3>2. \A j \in 1 .. Len(rest) : rest[j] = acked[(k + 1) + j - 1]
      BY <1>3, <1>4, <1>9, <2>1, <2>2, <2>3, SubSeqProperties
    <3>3. \A j \in 1 .. Len(rest) : (k + 1) + j - 1 = j + k BY <1>3, <1>9, <3>1
    <3> QED BY <3>1, <3>2, <3>3
  <2>4. CASE ~ (k + 1 <= Len(acked))
    <3>1. Len(acked) = k BY <1>3, <1>4, <1>9, <2>4
    <3>2. Len(rest) = 0 BY <1>3, <1>4, <1>9, <2>1, <2>2, <3>1, SubSeqProperties
    <3> QED BY <1>4, <3>1, <3>2
  <2> QED BY <2>3, <2>4
<1> HIDE DEF rest
<1>15. ASSUME NEW j \in 1 .. Len(rest)
       PROVE  /\ rest[j].ctx = q[j + k].ctx /\ rest[j].index = q[j + k].index
              /\ \A s \in rest[j].acks : s \in q[j + k].acks \/ (s = m.from /\ q[j + k].ctx = m.ctx)
  <2>1. j + k \in 1 .. Len(q) BY <1>3, <1>9, <1>14
  <2>2. rest[j] = acked[j + k] BY <1>14
  <2> QED BY <1>4, <2>1, <2>2
<1>16. Releases(n, m, k, q, rest) BY <1>9, <1>11, <1>12, <1>13, <1>14, <1>15 DEF Releases
<1> QED BY <1>6, <1>7, <1>9, <1>16 DEF q

-----------------------------------------------------------------------------
(***************************************************************************)
(* Indexes.                                                                *)
(***************************************************************************)
\* An index that was sound is sound, in every place that had it.
LEMMA IndexesFrom ==
  ASSUME TypeOK, TypeOK', Indexes, \A k \in Nat : Sound(k) => Sound(k)',
         Sound(shown'),
         \A n \in Server : Sound(commit'[n]) \/ Sound(commit[n])',
         \A n \in Server : \A i \in 1 .. Len(queue'[n]) :
           \/ Sound(queue[n][i].index)'
           \/ \E j \in 1 .. Len(queue[n]) : queue'[n][i].index = queue[n][j].index,
         \A n \in Server : \A s \in states'[n] : Sound(s.index),
         \A m \in net' : m.type = "read_index_resp" => Sound(m.index)
  PROVE  Indexes'
<1>1. shown' \in Nat /\ \A n \in Server : commit'[n] \in Nat BY DEF TypeOK
<1>2. Sound(shown)' BY <1>1
<1>3. \A n \in Server : Sound(commit[n])' BY <1>1
<1>4. ASSUME NEW n \in Server, NEW i \in 1 .. Len(queue'[n]) PROVE Sound(queue[n][i].index)'
  <2>1. CASE Sound(queue[n][i].index)' BY <2>1
  <2>2. CASE \E j \in 1 .. Len(queue[n]) : queue'[n][i].index = queue[n][j].index
    <3>1. PICK j \in 1 .. Len(queue[n]) : queue'[n][i].index = queue[n][j].index BY <2>2
    <3>2. Sound(queue[n][j].index) BY DEF Indexes
    <3>3. queue[n][j].index \in Nat
      <4>1. queue[n] \in Seq(Status) BY DEF TypeOK
      <4>2. queue[n][j] \in Status BY <4>1, ElementOfSeq
      <4> QED BY <4>2 DEF Status
    <3>4. Sound(queue'[n][i].index) /\ queue'[n][i].index \in Nat BY <3>1, <3>2, <3>3
    <3> QED BY <3>4
  <2> QED BY <2>1, <2>2
<1>5. ASSUME NEW n \in Server, NEW s \in states'[n] PROVE Sound(s.index)'
  <2>1. s.index \in Nat BY DEF TypeOK, ReadState
  <2> QED BY <2>1
<1>6. ASSUME NEW m \in net', m.type = "read_index_resp" PROVE Sound(m.index)'
  <2>1. m.index \in Nat BY <1>6 DEF TypeOK, Message, ReadRequest, ReadAnswer, Beat
  <2> QED BY <1>6, <2>1
<1> QED BY <1>2, <1>3, <1>4, <1>5, <1>6 DEF Indexes

\* Every step keeps the indexes sound.
LEMMA IndexesStep ==
  ASSUME TypeOK, TypeOK', Consensus, Indexes, \A k \in Nat : Sound(k) => Sound(k)', [Next]_vars
  PROVE  Indexes'
<1>1. /\ Sound(shown)
      /\ \A n \in Server : /\ Sound(commit[n])
                           /\ \A i \in 1 .. Len(queue[n]) : Sound(queue[n][i].index)
                           /\ \A s \in states[n] : Sound(s.index)
      /\ \A m \in net : m.type = "read_index_resp" => Sound(m.index)
  BY DEF Indexes
<1> DEFINE QueueFrom == \A n \in Server : queue'[n] = queue[n] \/ queue'[n] = <<>>
           Answers == \A m \in net' : m.type = "read_index_resp" => m \in net
<1>2. ASSUME QueueFrom
      PROVE  \A n \in Server : \A i \in 1 .. Len(queue'[n]) :
               \/ Sound(queue[n][i].index)'
               \/ \E j \in 1 .. Len(queue[n]) : queue'[n][i].index = queue[n][j].index
  <2> SUFFICES ASSUME NEW n \in Server, NEW i \in 1 .. Len(queue'[n])
               PROVE  \E j \in 1 .. Len(queue[n]) : queue'[n][i].index = queue[n][j].index
    OBVIOUS
  <2>1. CASE queue'[n] = queue[n] BY <2>1
  <2>2. CASE queue'[n] = <<>>
    <3>1. Len(queue'[n]) = 0 BY <2>2
    <3> QED BY <3>1
  <2> QED BY <1>2, <2>1, <2>2
<1>3. ASSUME shown' = shown, commit' = commit, states' = states, QueueFrom, Answers
      PROVE  Indexes'
  <2>1. \A n \in Server : Sound(commit'[n]) BY <1>1, <1>3
  <2>2. \A n \in Server : \A s \in states'[n] : Sound(s.index) BY <1>1, <1>3
  <2>3. \A m \in net' : m.type = "read_index_resp" => Sound(m.index) BY <1>1, <1>3
  <2>4. Sound(shown') BY <1>1, <1>3
  <2> QED BY <1>2, <1>3, <2>1, <2>2, <2>3, <2>4, IndexesFrom
<1>4. ASSUME NEW S, Reset(S) PROVE QueueFrom BY <1>4, ResetForgets
<1>5. ASSUME NEW S, NEW t, NEW l, BecomeFollower(S, t, l) PROVE QueueFrom
  BY <1>4, <1>5 DEF BecomeFollower
<1>6. ASSUME queue' = queue PROVE QueueFrom BY <1>6
<1>7. ASSUME NEW S, NEW t, net' = Current(net, S, t) PROVE Answers BY <1>7 DEF Current
<1>8. ASSUME NEW n \in Server, NEW i, NEW ms, ServesAll(n, i, ms), Sound(i)'
      PROVE  \A l \in Server : \A j \in 1 .. Len(queue'[l]) :
               \/ Sound(queue[l][j].index)'
               \/ \E h \in 1 .. Len(queue[l]) : queue'[l][j].index = queue[l][h].index
  <2> SUFFICES ASSUME NEW l \in Server, NEW j \in 1 .. Len(queue'[l])
               PROVE  \/ Sound(queue[l][j].index)'
                      \/ \E h \in 1 .. Len(queue[l]) : queue'[l][j].index = queue[l][h].index
    OBVIOUS
  <2>1. CASE l # n BY <1>8, <2>1 DEF ServesAll
  <2>2. CASE l = n
    <3>1. Serves(n, i, ms, Len(ms), queue[n], queue'[n]) BY <1>8 DEF ServesAll
    <3>2. Len(queue[n]) \in Nat /\ Len(queue'[n]) \in Nat BY LenProperties DEF TypeOK
    <3>3. CASE j <= Len(queue[n])
      <4>1. j \in 1 .. Len(queue[n]) BY <2>2, <3>2, <3>3
      <4>2. queue'[n][j] = queue[n][j] BY <3>1, <4>1 DEF Serves
      <4> QED BY <2>2, <4>1, <4>2
    <3>4. CASE ~ (j <= Len(queue[n]))
      <4>1. j \in 1 .. Len(queue'[n]) /\ j > Len(queue[n]) BY <2>2, <3>2, <3>4
      <4>2. PICK h \in 1 .. Len(ms) : Served(n, i, ms[h], queue'[n][j]) BY <3>1, <4>1 DEF Serves
      <4>3. queue'[n][j].index = i BY <4>2 DEF Served
      <4>4. Sound(queue[n][j].index)' BY <1>8, <4>3
      <4> QED BY <2>2, <4>4
    <3> QED BY <3>3, <3>4
  <2> QED BY <2>1, <2>2
<1> HIDE DEF QueueFrom, Answers
<1>9. ASSUME NEW n \in Server, NEW Q \in SUBSET Server, NEW t \in 1 .. MaxTerm, Elect(n, Q, t)
      PROVE  Indexes'
  BY <1>3, <1>4, <1>7, <1>9 DEF Elect
<1>10. ASSUME NEW n \in Server, StepDown(n) PROVE Indexes'
  <2>1. Answers BY <1>10 DEF StepDown, Answers
  <2> QED BY <1>3, <1>5, <1>10, <2>1 DEF StepDown
<1>11. ASSUME NEW n \in Server, NEW Q \in SUBSET Server, Replicate(n, Q) PROVE Indexes'
  BY <1>3, <1>4, <1>7, <1>11 DEF Replicate
<1>12. ASSUME NEW r \in Request, Expire(r) PROVE Indexes'
  <2>1. Answers BY <1>12 DEF Expire, Answers
  <2> QED BY <1>3, <1>6, <1>12, <2>1 DEF Expire
<1>13. ASSUME NEW n \in Server, LearnCommit(n) PROVE Indexes'
  <2>1. /\ commit' = [commit EXCEPT ![n] = commit[n] + 1] /\ lead[n] # None
        /\ commit[n] < commit[lead[n]]
        /\ UNCHANGED <<shown, queue, states, net>>
    BY <1>13 DEF LearnCommit
  <2>2. lead[n] \in Server /\ commit \in [Server -> Nat] BY <2>1 DEF TypeOK
  <2>3. commit[n] + 1 \in Nat /\ 1 <= commit[n] + 1 /\ commit[n] + 1 <= commit[lead[n]]
        /\ commit[lead[n]] \in Nat
    BY <2>1, <2>2
  <2>4. Sound(commit[n] + 1) BY <1>1, <2>2, <2>3, SoundBelow
  <2>5. \A l \in Server : commit'[l] = commit[l] \/ commit'[l] = commit[n] + 1 BY <2>1, <2>2
  <2>6. \A l \in Server : Sound(commit'[l]) BY <1>1, <2>4, <2>5
  <2>7. QueueFrom BY <1>6, <2>1
  <2>8. Sound(shown') BY <1>1, <2>1
  <2> QED BY <1>1, <1>2, <2>1, <2>6, <2>7, <2>8, IndexesFrom
<1>14. ASSUME NEW n \in Server, Restart(n) PROVE Indexes'
  <2>1. PICK a \in 1 .. applied[n] : \E c \in a .. commit[n] : commit' = [commit EXCEPT ![n] = c]
    BY <1>14 DEF Restart
  <2>2. PICK c \in a .. commit[n] : commit' = [commit EXCEPT ![n] = c] BY <2>1
  <2>3. applied[n] \in Nat /\ commit[n] \in Nat /\ commit \in [Server -> Nat] BY DEF TypeOK
  <2>4. c \in Nat /\ 1 <= c /\ c <= commit[n] BY <2>3
  <2>5. Sound(c) BY <1>1, <2>3, <2>4, SoundBelow
  <2>6. \A l \in Server : commit'[l] = commit[l] \/ commit'[l] = c BY <2>2, <2>3
  <2>7. \A l \in Server : Sound(commit'[l]) BY <1>1, <2>5, <2>6
  <2>8. QueueFrom BY <1>4, <1>14 DEF Restart
  <2>9. states' = [states EXCEPT ![n] = {}] /\ shown' = shown /\ net' = net BY <1>14 DEF Restart
  <2>10. \A l \in Server : states'[l] = states[l] \/ states'[l] = {} BY <2>9 DEF TypeOK
  <2>11. \A l \in Server : \A s \in states'[l] : Sound(s.index) BY <1>1, <2>10
  <2>12. Sound(shown') /\ \A m \in net' : m.type = "read_index_resp" => Sound(m.index) BY <1>1, <2>9
  <2> QED BY <1>2, <2>7, <2>8, <2>11, <2>12, IndexesFrom
<1>15. ASSUME NEW n \in Server, ProcessReady(n) PROVE Indexes'
  <2>1. /\ shown' = Max({shown, commit[n]}) /\ states' = [states EXCEPT ![n] = {}]
        /\ UNCHANGED <<commit, queue, net>>
    BY <1>15 DEF ProcessReady
  <2>2. shown' \in {shown, commit[n]}
    <3>1. shown \in Nat /\ commit[n] \in Nat BY DEF TypeOK
    <3>2. {shown, commit[n]} \in SUBSET (0 .. (shown + commit[n])) /\ shown + commit[n] \in Nat
      BY <3>1
    <3> QED BY <2>1, <3>2, MaxIsElement
  <2>3. Sound(shown') BY <1>1, <2>2
  <2>4. \A l \in Server : states'[l] = states[l] \/ states'[l] = {} BY <2>1 DEF TypeOK
  <2>5. \A l \in Server : \A s \in states'[l] : Sound(s.index) BY <1>1, <2>4
  <2>6. \A m \in net' : m.type = "read_index_resp" => Sound(m.index) BY <1>1, <2>1
  <2>7. \A l \in Server : Sound(commit'[l]) BY <1>1, <2>1
  <2>8. QueueFrom BY <1>6, <2>1
  <2> QED BY <1>2, <2>3, <2>5, <2>6, <2>7, <2>8, IndexesFrom
<1>16. ASSUME NEW n \in Server, NEW m \in ReadRequest, StepReadIndex(n, m),
              UNCHANGED <<consensus, commit, states, shown>>
       PROVE  Indexes'
  <2>1. Answers
    <3>1. \A l \in net' : l \in net \/ l \in Heartbeats(n, m.ctx) \/ l = [m EXCEPT !.to = lead[n]]
      <4> DEFINE e == [m EXCEPT !.to = lead[n]]
      <4>1. UNCHANGED <<consensus, shown>> BY <1>16
      <4>2. net' \in {(net \ {m}) \cup Heartbeats(n, m.ctx), net \ {m}, (net \ {m}) \cup {e}}
        BY <1>16, <4>1, StepReadIndexCases
      <4> HIDE DEF e
      <4>3. \A l \in net' : l \in net \/ l \in Heartbeats(n, m.ctx) \/ l = e BY <4>2
      <4> QED BY <4>3 DEF e
    <3>2. \A l \in Heartbeats(n, m.ctx) : l.type = "heartbeat" BY DEF Heartbeats, Heartbeat
    <3>3. [m EXCEPT !.to = lead[n]].type = "read_index" BY DEF ReadRequest
    <3> QED BY <3>1, <3>2, <3>3 DEF Answers
  <2>2. CASE ServesAll(n, commit[n], <<m>>)
    <3>1. Sound(shown') /\ (\A l \in Server : Sound(commit'[l]))
          /\ (\A l \in Server : \A s \in states'[l] : Sound(s.index))
      BY <1>1, <1>16
    <3>2. \A l \in net' : l.type = "read_index_resp" => Sound(l.index) BY <1>1, <2>1 DEF Answers
    <3>3. \A l \in Server : \A j \in 1 .. Len(queue'[l]) :
            \/ Sound(queue[l][j].index)'
            \/ \E h \in 1 .. Len(queue[l]) : queue'[l][j].index = queue[l][h].index
      <4>1. PICK c \in Nat : c = commit[n] BY DEF TypeOK
      <4>2. ServesAll(n, c, <<m>>) /\ Sound(c) BY <1>1, <2>2, <4>1
      <4>3. Sound(c)' BY <4>2
      <4> QED BY <1>8, <4>2, <4>3
    <3> QED BY <3>1, <3>2, <3>3, IndexesFrom
  <2>3. CASE queue' = queue BY <1>3, <1>6, <1>16, <2>1, <2>3
  <2>4. UNCHANGED <<consensus, shown>> BY <1>16
  <2> QED BY <1>16, <2>2, <2>3, <2>4, StepReadIndexCases
<1>17. ASSUME NEW n \in Server, NEW r \in Request, RequestRead(r, n) PROVE Indexes'
  <2>1. ReadIndexMsg(n, n, r) \in ReadRequest BY DEF ReadIndexMsg, ReadRequest
  <2> QED BY <1>16, <1>17, <2>1 DEF RequestRead
<1>18. ASSUME NEW m \in net, HandleReadIndex(m.to, m) PROVE Indexes'
  <2>1. m \in ReadRequest /\ m.to \in Server
    BY <1>18 DEF HandleReadIndex, TypeOK, Message, ReadRequest, ReadAnswer, Beat
  <2> QED BY <1>16, <1>18, <2>1 DEF HandleReadIndex
<1>19. ASSUME NEW n \in Server, NEW i \in 1 .. Len(log), LeaderCommits(n, i) PROVE Indexes'
  <2>1. /\ role[n] = "leader" /\ log[i] = term[n] /\ commit' = [commit EXCEPT ![n] = i]
        /\ UNCHANGED <<consensus, states, shown>> /\ UNCHANGED <<term, role, log>>
        /\ net' = net \cup UNION {Heartbeats(n, m.ctx) : m \in ToSet(postponed[n])}
    BY <1>19 DEF LeaderCommits, consensus
  <2>2. commit'[n] = i /\ \A l \in Server : l # n => commit'[l] = commit[l] BY <2>1 DEF TypeOK
  <2>3. \A s \in Server : term[s] \in Nat BY DEF TypeOK
  <2>4. i \in Nat /\ i <= i
    <3>1. Len(log) \in Nat BY LenProperties DEF TypeOK
    <3> QED BY <3>1
  <2>5. ASSUME NEW l \in Server, Latest(l), log[i] >= term[l] PROVE l = n
    <3>1. IsMajority(UpTo(term[l])) /\ IsMajority(From(term[n])) /\ role[l] = "leader"
      BY <2>1, <2>5 DEF Latest, Consensus
    <3>2. UpTo(term[l]) \in SUBSET Server /\ From(term[n]) \in SUBSET Server BY DEF UpTo, From
    <3>3. PICK s \in UpTo(term[l]) \cap From(term[n]) : TRUE BY <3>1, <3>2, MajoritiesMeet
    <3>4. s \in Server /\ term[s] <= term[l] /\ term[s] >= term[n] BY <3>3 DEF UpTo, From
    <3>5. term[l] = term[n] BY <2>1, <2>3, <2>5, <3>4
    <3> QED BY <2>1, <3>1, <3>5 DEF Consensus
  <2>6. Sound(i)'
    <3> SUFFICES ASSUME NEW l \in Server, Latest(l)', log'[i] >= term'[l] PROVE i <= commit'[l]
      BY <2>1 DEF Sound
    <3>1. Latest(l) BY <2>1 DEF Latest, UpTo
    <3>2. l = n BY <2>1, <2>5, <3>1
    <3> QED BY <2>2, <2>4, <3>2
  <2>7. \A l \in Server : Sound(commit'[l]) \/ Sound(commit[l])' BY <1>1, <2>2, <2>6
  <2>8. \A l \in Server : \A j \in 1 .. Len(queue'[l]) :
          \/ Sound(queue[l][j].index)'
          \/ \E h \in 1 .. Len(queue[l]) : queue'[l][j].index = queue[l][h].index
    BY <1>8, <1>19, <2>6, LeaderCommitsServes
  <2>9. \A l \in net' : l.type = "read_index_resp" => Sound(l.index)
    <3>1. \A c : \A l \in Heartbeats(n, c) : l.type = "heartbeat" BY DEF Heartbeats, Heartbeat
    <3>2. \A l \in net' : l \in net \/ \E m \in ToSet(postponed[n]) : l \in Heartbeats(n, m.ctx)
      BY <2>1
    <3> QED BY <1>1, <3>1, <3>2
  <2>10. Sound(shown') /\ \A l \in Server : \A s \in states'[l] : Sound(s.index) BY <1>1, <2>1
  <2> QED BY <2>7, <2>8, <2>9, <2>10, IndexesFrom
<1>20. ASSUME NEW m \in net, HandleHeartbeat(m.to, m) PROVE Indexes'
  <2>1. Answers BY <1>20 DEF HandleHeartbeat, Answers, Current, HeartbeatResponse
  <2>2. QueueFrom
    <3>1. CASE term[m.to] < m.term BY <1>5, <1>20, <3>1 DEF HandleHeartbeat
    <3>2. CASE ~ (term[m.to] < m.term) BY <1>6, <1>20, <3>2 DEF HandleHeartbeat
    <3> QED BY <3>1, <3>2
  <2> QED BY <1>3, <1>20, <2>1, <2>2 DEF HandleHeartbeat
<1>21. ASSUME NEW m \in net, HandleHeartbeatResponse(m.to, m) PROVE Indexes'
  <2> DEFINE n == m.to
             q == queue[n]
             q2 == queue'[n]
  <2>1. n \in Server BY DEF TypeOK, Message, ReadRequest, ReadAnswer, Beat
  <2>2. /\ \E k \in Nat : Releases(n, m, k, q, q2)
        /\ \A l \in Server : l # n => queue'[l] = queue[l] /\ states'[l] = states[l]
    BY <1>21, <2>1, ReleasesFirst
  <2>3. PICK k \in Nat : Releases(n, m, k, q, q2) BY <2>2
  <2>4. Len(q) \in Nat BY <2>1, LenProperties DEF TypeOK
  <2>5. \A j \in 1 .. Len(q) : Sound(q[j].index) BY <1>1, <2>1
  <2>6. k \in 0 .. Len(q) /\ Len(q2) = Len(q) - k BY <2>3 DEF Releases
  <2> HIDE DEF n, q, q2
  <2>7. \A j \in 1 .. Len(q2) : \E h \in 1 .. Len(q) : q2[j].index = q[h].index
    <3> SUFFICES ASSUME NEW j \in 1 .. Len(q2) PROVE \E h \in 1 .. Len(q) : q2[j].index = q[h].index
      OBVIOUS
    <3>1. j + k \in 1 .. Len(q) BY <2>4, <2>6
    <3>2. q2[j].index = q[j + k].index BY <2>3 DEF Releases
    <3> QED BY <3>1, <3>2
  <2>8. \A l \in Server : \A j \in 1 .. Len(queue'[l]) :
          \/ Sound(queue[l][j].index)'
          \/ \E h \in 1 .. Len(queue[l]) : queue'[l][j].index = queue[l][h].index
    BY <2>2, <2>7 DEF q, q2
  <2>9. \A j \in 1 .. k : Sound(q[j].index) BY <2>4, <2>5, <2>6
  <2>10. \A s \in states'[n] : Sound(s.index) BY <1>1, <2>1, <2>3, <2>9 DEF Releases
  <2>11. \A l \in Server : \A s \in states'[l] : Sound(s.index) BY <1>1, <2>2, <2>10
  <2>12. \A l \in net' : l.type = "read_index_resp" => Sound(l.index)
    BY <1>1, <2>3, <2>9 DEF Releases
  <2>13. commit' = commit /\ shown' = shown BY <1>21 DEF HandleHeartbeatResponse
  <2>14. Sound(shown') /\ \A l \in Server : Sound(commit'[l]) BY <1>1, <2>13
  <2> QED BY <2>8, <2>11, <2>12, <2>14, IndexesFrom
<1>22. ASSUME NEW m \in net, HandleReadIndexResp(m.to, m) PROVE Indexes'
  <2>1. Sound(m.index) /\ m.to \in Server
    BY <1>1, <1>22 DEF HandleReadIndexResp, TypeOK, Message, ReadRequest, ReadAnswer, Beat
  <2>2. CASE term[m.to] < m.term
    <3>1. QueueFrom /\ Answers BY <1>5, <1>7, <1>22, <2>2 DEF HandleReadIndexResp
    <3> QED BY <1>3, <1>22, <2>2, <3>1 DEF HandleReadIndexResp
  <2>3. CASE ~ (term[m.to] < m.term)
    <3>1. UNCHANGED <<queue, net, shown>> BY <1>22, <2>3 DEF HandleReadIndexResp
    <3>2. states' = [states EXCEPT ![m.to] = states[m.to] \cup {[ctx |-> m.ctx, index |-> m.index]}]
      BY <1>22, <2>3 DEF HandleReadIndexResp
    <3>3. commit' = commit \/ commit' = [commit EXCEPT ![m.to] = m.index]
      BY <1>22, <2>3 DEF HandleReadIndexResp
    <3>4. \A l \in Server : commit'[l] = commit[l] \/ commit'[l] = m.index BY <3>3 DEF TypeOK
    <3>5. \A l \in Server : \A s \in states'[l] : s \in states[l] \/ s.index = m.index
      <4> DEFINE e == [ctx |-> m.ctx, index |-> m.index]
      <4>1. e.index = m.index OBVIOUS
      <4> HIDE DEF e
      <4>2. states' = [states EXCEPT ![m.to] = states[m.to] \cup {e}] BY <3>2 DEF e
      <4>3. \A l \in Server : \A s \in states'[l] : s \in states[l] \/ s = e BY <4>2 DEF TypeOK
      <4> QED BY <4>1, <4>3
    <3>6. \A l \in Server : Sound(commit'[l]) BY <1>1, <2>1, <3>4
    <3>7. \A l \in Server : \A s \in states'[l] : Sound(s.index) BY <1>1, <2>1, <3>5
    <3>8. Sound(shown') /\ \A l \in net' : l.type = "read_index_resp" => Sound(l.index)
      BY <1>1, <3>1
    <3>9. QueueFrom BY <1>6, <3>1
    <3> QED BY <1>2, <3>6, <3>7, <3>8, <3>9, IndexesFrom
  <2> QED BY <2>2, <2>3
<1>23. CASE UNCHANGED vars
  <2>1. Answers BY <1>23 DEF vars, Answers
  <2> QED BY <1>3, <1>6, <1>23, <2>1 DEF vars
<1> QED BY <1>9, <1>10, <1>11, <1>12, <1>13, <1>14, <1>15, <1>17, <1>18, <1>19, <1>20, <1>21, <1>22,
           <1>23 DEF Next

-----------------------------------------------------------------------------
(***************************************************************************)
(* Confirmations.                                                          *)
(***************************************************************************)
\* Terms only grow.
TermsGrow == \A s \in Server : term[s] <= term'[s]

\* A voice that gains nobody was a majority if it is one.
LEMMA VoiceShrinks ==
  ASSUME TypeOK, TypeOK', TermsGrow, NEW n \in Server, term'[n] = term[n], NEW i \in Nat, NEW h \in Nat,
         \A j \in h .. Len(queue'[n]) : \A s \in queue'[n][j].acks : s \in Voice(n, i),
         \A j \in h .. Len(queue'[n]) : \A m \in net' :
           (/\ m.type = "heartbeat_response" /\ m.to = n /\ m.term = term'[n]
            /\ m.ctx = queue'[n][j].ctx) => m.from \in Voice(n, i),
         IsMajority(Voice(n, h))'
  PROVE  IsMajority(Voice(n, i))
<1> DEFINE V == {s \in Server :
                   \/ term'[s] <= term'[n]
                   \/ \E j \in h .. Len(queue'[n]) :
                        \/ s \in queue'[n][j].acks
                        \/ \E m \in net' :
                             m.from = s /\ /\ m.type = "heartbeat_response" /\ m.to = n /\ m.term = term'[n]
                                           /\ m.ctx = queue'[n][j].ctx}
<1>1. IsMajority(V) BY DEF Voice, Confirms
<1>2. V \in SUBSET Server OBVIOUS
<1>3. Voice(n, i) \in SUBSET Server BY DEF Voice
<1>4. ASSUME NEW s \in V PROVE s \in Voice(n, i)
  <2>1. CASE term'[s] <= term'[n]
    <3>1. s \in Server /\ term[s] \in Nat /\ term'[s] \in Nat /\ term[n] \in Nat BY DEF TypeOK
    <3>2. term[s] <= term[n] BY <2>1, <3>1 DEF TermsGrow
    <3> QED BY <3>1, <3>2 DEF Voice
  <2>2. CASE \E j \in h .. Len(queue'[n]) : s \in queue'[n][j].acks BY <2>2
  <2>3. CASE \E j \in h .. Len(queue'[n]) : \E m \in net' :
               m.from = s /\ /\ m.type = "heartbeat_response" /\ m.to = n /\ m.term = term'[n]
                             /\ m.ctx = queue'[n][j].ctx
    BY <2>3
  <2> QED BY <2>1, <2>2, <2>3
<1>5. V \subseteq Voice(n, i) BY <1>4
<1> HIDE DEF V
<1> QED BY <1>1, <1>2, <1>3, <1>5, MajorityGrows

\* Whoever is in the voice of a request that is queued.
LEMMA VoiceHas ==
  ASSUME TypeOK, NEW n \in Server, NEW i \in 1 .. Len(queue[n]), NEW j \in i .. Len(queue[n]),
         NEW s \in Server,
         \/ s \in queue[n][j].acks
         \/ \E m \in net : m.from = s /\ Confirms(m, n, queue[n][j].ctx)
  PROVE  s \in Voice(n, i)
BY DEF Voice

\* A server that is not ahead of a leader is in the voice of its requests.
LEMMA VoiceHasBehind ==
  ASSUME NEW n \in Server, NEW i, NEW s \in Server, term[s] <= term[n]
  PROVE  s \in Voice(n, i)
BY DEF Voice

\* Steps that queue and release nothing: a confirmation that is sent comes
\* from a server that was not ahead of its leader.
LEMMA CalmConfirmed ==
  ASSUME TypeOK, TypeOK', Confirmed, TermsGrow,
         \A n \in Server : role'[n] = "leader" /\ queue'[n] # <<>> =>
           role[n] = "leader" /\ term'[n] = term[n] /\ queue'[n] = queue[n],
         \A n \in Server : \A i \in 1 .. Len(queue[n]) :
           read'[queue[n][i].ctx].need <= read[queue[n][i].ctx].need,
         \A m \in net' : m.type = "heartbeat_response" => m \in net \/ term'[m.from] <= m.term
  PROVE  Confirmed'
<1> SUFFICES ASSUME NEW n \in Server, role'[n] = "leader", NEW i \in 1 .. Len(queue'[n]),
                    IsMajority(Voice(n, i))'
             PROVE  queue'[n][i].index >= read'[queue'[n][i].ctx].need
  BY DEF Confirmed
<1>1. queue'[n] # <<>>
  <2> SUFFICES ASSUME queue'[n] = <<>> PROVE FALSE OBVIOUS
  <2>1. Len(queue'[n]) = 0 OBVIOUS
  <2> QED BY <2>1
<1>2. role[n] = "leader" /\ term'[n] = term[n] /\ queue'[n] = queue[n] BY <1>1
<1>3. i \in 1 .. Len(queue[n]) /\ Len(queue[n]) \in Nat /\ i \in Nat BY <1>2, LenProperties DEF TypeOK
<1>4. \A j \in i .. Len(queue[n]) : queue[n][j] \in Status
  <2>1. queue[n] \in Seq(Status) BY DEF TypeOK
  <2>2. \A j \in 1 .. Len(queue[n]) : queue[n][j] \in Status BY <2>1, ElementOfSeq
  <2> QED BY <1>3, <2>2
<1>5. \A j \in i .. Len(queue'[n]) : \A s \in queue'[n][j].acks : s \in Voice(n, i)
  BY <1>2, <1>3, <1>4, VoiceHas DEF Status
<1>6. ASSUME NEW j \in i .. Len(queue'[n]), NEW m \in net', m.type = "heartbeat_response", m.to = n,
             m.term = term'[n], m.ctx = queue'[n][j].ctx
      PROVE  m.from \in Voice(n, i)
  <2>1. m.from \in Server BY DEF TypeOK, Message, ReadRequest, ReadAnswer, Beat
  <2>2. CASE m \in net
    <3>1. Confirms(m, n, queue[n][j].ctx) BY <1>2, <1>6 DEF Confirms
    <3> QED BY <1>2, <1>3, <2>1, <2>2, <3>1, VoiceHas
  <2>3. CASE term'[m.from] <= m.term
    <3>1. term[m.from] \in Nat /\ term'[m.from] \in Nat /\ term[n] \in Nat BY <2>1 DEF TypeOK
    <3>2. term[m.from] <= term[n] BY <1>2, <1>6, <2>1, <2>3, <3>1 DEF TermsGrow
    <3> QED BY <2>1, <3>2, VoiceHasBehind
  <2> QED BY <1>6, <2>2, <2>3
<1>7. IsMajority(Voice(n, i)) BY <1>2, <1>3, <1>5, <1>6, VoiceShrinks
<1>8. queue[n][i].index >= read[queue[n][i].ctx].need BY <1>2, <1>3, <1>7 DEF Confirmed
<1>9. read'[queue[n][i].ctx].need <= read[queue[n][i].ctx].need BY <1>3
<1>10. /\ queue[n][i].index \in Nat /\ read[queue[n][i].ctx].need \in Nat
       /\ read'[queue[n][i].ctx].need \in Nat
  <2>1. i \in i .. Len(queue[n]) BY <1>3
  <2>2. queue[n][i] \in Status BY <1>4, <2>1
  <2>3. queue[n][i].ctx \in Request /\ queue[n][i].index \in Nat BY <2>2 DEF Status
  <2>4. \A c \in Request : read[c] \in Read /\ read'[c] \in Read BY DEF TypeOK
  <2> QED BY <2>3, <2>4 DEF Read
<1> QED BY <1>2, <1>8, <1>9, <1>10

\* Nobody has confirmed request r, and nobody needs to know of more than shown.
Fresh(r) ==
  /\ r \in Request
  /\ read'[r].need <= shown
  /\ \A m \in net' : m.type = "heartbeat_response" => m.ctx # r

\* Requests that are queued: their leader knows of all that was shown, or is
\* not the latest leader, and a majority will not confirm them.
LEMMA ServedConfirmed ==
  ASSUME TypeOK, TypeOK', Consensus, Indexes, Confirmed, NEW n \in Server, NEW i \in Nat, NEW ms,
         ServesAll(n, i, ms), \A j \in 1 .. Len(ms) : Fresh(ms[j].ctx),
         \A l \in Server : \A j \in 1 .. Len(queue[l]) :
           read'[queue[l][j].ctx].need <= read[queue[l][j].ctx].need,
         \A m \in net' : m.type = "heartbeat_response" => m \in net
  PROVE  Confirmed'
<1>1. /\ role[n] = "leader" /\ i \in 1 .. Len(log) /\ log[i] = term[n] /\ commit[n] <= i
      /\ Serves(n, i, ms, Len(ms), queue[n], queue'[n])
      /\ (\A l \in Server : l # n => queue'[l] = queue[l])
      /\ UNCHANGED <<term, role, log, shown>>
  BY DEF ServesAll, consensus
<1>2. \A s \in Server : term[s] \in Nat BY DEF TypeOK
<1>3. TermsGrow BY <1>1, <1>2 DEF TermsGrow
<1>4. \A l \in Server : /\ Len(queue[l]) \in Nat /\ Len(queue'[l]) \in Nat
                        /\ \A j \in 1 .. Len(queue[l]) : queue[l][j] \in Status
                        /\ \A j \in 1 .. Len(queue'[l]) : queue'[l][j] \in Status
  <2> SUFFICES ASSUME NEW l \in Server
               PROVE  /\ Len(queue[l]) \in Nat /\ Len(queue'[l]) \in Nat
                      /\ \A j \in 1 .. Len(queue[l]) : queue[l][j] \in Status
                      /\ \A j \in 1 .. Len(queue'[l]) : queue'[l][j] \in Status
    OBVIOUS
  <2>1. queue[l] \in Seq(Status) /\ queue'[l] \in Seq(Status) BY DEF TypeOK
  <2> QED BY <2>1, LenProperties, ElementOfSeq
<1>5. ASSUME NEW j \in 1 .. Len(queue'[n]), j > Len(queue[n])
      PROVE  /\ queue'[n][j].index = i /\ queue'[n][j].acks = {n} /\ Fresh(queue'[n][j].ctx)
  <2>1. PICK h \in 1 .. Len(ms) : Served(n, i, ms[h], queue'[n][j]) BY <1>1, <1>5 DEF Serves
  <2>2. queue'[n][j].index = i /\ queue'[n][j].acks = {n} /\ queue'[n][j].ctx = ms[h].ctx
    BY <2>1 DEF Served
  <2> QED BY <2>1, <2>2
<1>6. \A j \in 1 .. Len(queue[n]) : queue'[n][j] = queue[n][j] BY <1>1 DEF Serves
<1> SUFFICES ASSUME NEW l \in Server, role'[l] = "leader", NEW h \in 1 .. Len(queue'[l]),
                    IsMajority(Voice(l, h))'
             PROVE  queue'[l][h].index >= read'[queue'[l][h].ctx].need
  BY DEF Confirmed
<1>7. h \in Nat /\ role[l] = "leader" /\ term'[l] = term[l] BY <1>1, <1>4
<1>8. CASE l = n /\ h > Len(queue[n])
  <2> DEFINE V == {s \in Server :
                     \/ term'[s] <= term'[n]
                     \/ \E j \in h .. Len(queue'[n]) :
                          \/ s \in queue'[n][j].acks
                          \/ \E m \in net' :
                               m.from = s /\ /\ m.type = "heartbeat_response" /\ m.to = n /\ m.term = term'[n]
                                             /\ m.ctx = queue'[n][j].ctx}
  <2>1. IsMajority(V) BY <1>8 DEF Voice, Confirms
  <2>2. V \subseteq UpTo(term[n])
    <3> SUFFICES ASSUME NEW s \in V PROVE s \in UpTo(term[n]) OBVIOUS
    <3>1. s \in Server OBVIOUS
    <3>2. CASE term'[s] <= term'[n] BY <1>1, <3>1, <3>2 DEF UpTo
    <3>3. ASSUME NEW j \in h .. Len(queue'[n]), s \in queue'[n][j].acks PROVE s \in UpTo(term[n])
      <4>1. j \in 1 .. Len(queue'[n]) /\ j > Len(queue[n]) BY <1>4, <1>7, <1>8
      <4>2. s = n BY <1>5, <3>3, <4>1
      <4> QED BY <1>2, <4>2 DEF UpTo
    <3>4. ASSUME NEW j \in h .. Len(queue'[n]), NEW m \in net', m.type = "heartbeat_response",
                 m.ctx = queue'[n][j].ctx
          PROVE  FALSE
      <4>1. j \in 1 .. Len(queue'[n]) /\ j > Len(queue[n]) BY <1>4, <1>7, <1>8
      <4> QED BY <1>5, <3>4, <4>1 DEF Fresh
    <3> QED BY <3>2, <3>3, <3>4
  <2>3. V \in SUBSET Server /\ UpTo(term[n]) \in SUBSET Server BY DEF UpTo
  <2> HIDE DEF V
  <2>4. Latest(n) BY <1>1, <2>1, <2>2, <2>3, MajorityGrows DEF Latest
  <2>5. Sound(shown) /\ shown \in Nat BY DEF Indexes, TypeOK
  <2>6. shown <= i BY <1>1, <2>4, <2>5, LatestKnows
  <2>7. queue'[n][h].index = i /\ Fresh(queue'[n][h].ctx) BY <1>5, <1>8
  <2>8. read'[queue'[n][h].ctx].need <= shown BY <2>7 DEF Fresh
  <2>9. read'[queue'[n][h].ctx].need \in Nat
    <3>1. queue'[n][h].ctx \in Request BY <2>7 DEF Fresh
    <3>2. read'[queue'[n][h].ctx] \in Read BY <3>1 DEF TypeOK
    <3> QED BY <3>2 DEF Read
  <2> QED BY <1>8, <2>5, <2>6, <2>7, <2>8, <2>9
<1>9. CASE l # n \/ h <= Len(queue[n])
  <2>1. h \in 1 .. Len(queue[l]) /\ queue'[l][h] = queue[l][h]
    <3>1. CASE l # n
      <4>1. queue'[l] = queue[l] BY <1>1, <3>1
      <4> QED BY <4>1
    <3>2. CASE l = n /\ h <= Len(queue[n])
      <4>1. h \in 1 .. Len(queue[n]) BY <1>4, <1>7, <3>2
      <4> QED BY <1>6, <3>2, <4>1
    <3> QED BY <1>9, <3>1, <3>2
  <2>2. ASSUME NEW j \in h .. Len(queue'[l])
        PROVE  \/ j \in h .. Len(queue[l]) /\ queue'[l][j] = queue[l][j]
               \/ l = n /\ j \in 1 .. Len(queue'[n]) /\ j > Len(queue[n])
    <3>1. CASE l # n
      <4>1. queue'[l] = queue[l] BY <1>1, <3>1
      <4> QED BY <4>1
    <3>2. CASE l = n /\ j <= Len(queue[n])
      <4>1. j \in 1 .. Len(queue[n]) /\ j \in h .. Len(queue[n]) BY <1>4, <1>7, <3>2
      <4> QED BY <1>6, <3>2, <4>1
    <3>3. CASE l = n /\ ~ (j <= Len(queue[n])) BY <1>4, <1>7, <3>3
    <3> QED BY <3>1, <3>2, <3>3
  <2>3. ASSUME NEW j \in h .. Len(queue'[l]), NEW s \in queue'[l][j].acks PROVE s \in Voice(l, h)
    <3>1. CASE j \in h .. Len(queue[l]) /\ queue'[l][j] = queue[l][j]
      <4>1. j \in 1 .. Len(queue[l]) BY <1>4, <1>7, <3>1
      <4>2. s \in Server BY <1>4, <3>1, <4>1, <2>3 DEF Status
      <4> QED BY <2>1, <2>3, <3>1, <4>2, VoiceHas
    <3>2. CASE l = n /\ j \in 1 .. Len(queue'[n]) /\ j > Len(queue[n])
      <4>1. s = n BY <1>5, <2>3, <3>2
      <4>2. term[n] <= term[n] BY <1>2
      <4> QED BY <3>2, <4>1, <4>2, VoiceHasBehind
    <3> QED BY <2>2, <3>1, <3>2
  <2>4. ASSUME NEW j \in h .. Len(queue'[l]), NEW m \in net', m.type = "heartbeat_response", m.to = l,
               m.term = term'[l], m.ctx = queue'[l][j].ctx
        PROVE  m.from \in Voice(l, h)
    <3>1. m.from \in Server /\ m \in net BY <2>4 DEF TypeOK, Message, ReadRequest, ReadAnswer, Beat
    <3>2. CASE j \in h .. Len(queue[l]) /\ queue'[l][j] = queue[l][j]
      <4>1. Confirms(m, l, queue[l][j].ctx) BY <1>7, <2>4, <3>2 DEF Confirms
      <4> QED BY <2>1, <3>1, <3>2, <4>1, VoiceHas
    <3>3. CASE l = n /\ j \in 1 .. Len(queue'[n]) /\ j > Len(queue[n])
      BY <1>5, <2>4, <3>3 DEF Fresh
    <3> QED BY <2>2, <3>2, <3>3
  <2>5. IsMajority(Voice(l, h)) BY <1>3, <1>7, <2>3, <2>4, VoiceShrinks
  <2>6. queue[l][h].index >= read[queue[l][h].ctx].need BY <1>7, <2>1, <2>5 DEF Confirmed
  <2>7. read'[queue[l][h].ctx].need <= read[queue[l][h].ctx].need BY <2>1
  <2>8. /\ queue[l][h].index \in Nat /\ read[queue[l][h].ctx].need \in Nat
        /\ read'[queue[l][h].ctx].need \in Nat
    <3>1. queue[l][h] \in Status BY <1>4, <2>1
    <3>2. queue[l][h].ctx \in Request /\ queue[l][h].index \in Nat BY <3>1 DEF Status
    <3>3. \A c \in Request : read[c] \in Read /\ read'[c] \in Read BY DEF TypeOK
    <3> QED BY <3>2, <3>3 DEF Read
  <2> QED BY <2>1, <2>6, <2>7, <2>8
<1> QED BY <1>4, <1>7, <1>8, <1>9

\* What is released was confirmed by a majority, all in its voice.
LEMMA ReleasedAreNew ==
  ASSUME TypeOK, Confirmed, NEW n \in Server, NEW m \in net, HandleHeartbeatResponse(n, m),
         NEW k \in Nat, Releases(n, m, k, queue[n], queue'[n]), NEW j \in 1 .. k
  PROVE  queue[n][j].index >= read[queue[n][j].ctx].need
<1>1. /\ m.type = "heartbeat_response" /\ m.to = n /\ role[n] = "leader" /\ m.term = term[n]
  BY DEF HandleHeartbeatResponse
<1>2. queue[n] \in Seq(Status) /\ Len(queue[n]) \in Nat BY LenProperties DEF TypeOK
<1>3. /\ k \in 1 .. Len(queue[n]) /\ j \in 1 .. Len(queue[n]) /\ k \in j .. Len(queue[n])
      /\ queue[n][k].ctx = m.ctx /\ IsMajority(queue[n][k].acks \cup {m.from})
  <2>1. k \in 0 .. Len(queue[n]) /\ k # 0 BY DEF Releases
  <2> QED BY <1>2, <2>1 DEF Releases
<1>4. queue[n][k] \in Status BY <1>2, <1>3, ElementOfSeq
<1>5. m.from \in Server BY DEF TypeOK, Message, ReadRequest, ReadAnswer, Beat
<1> DEFINE A == queue[n][k].acks \cup {m.from}
<1>6. A \in SUBSET Server BY <1>4, <1>5 DEF Status
<1>7. Confirms(m, n, queue[n][k].ctx) BY <1>1, <1>3 DEF Confirms
<1>8. ASSUME NEW s \in A PROVE s \in Voice(n, j) BY <1>3, <1>6, <1>7, VoiceHas
<1>9. A \subseteq Voice(n, j) /\ Voice(n, j) \in SUBSET Server BY <1>8 DEF Voice
<1>10. IsMajority(A) BY <1>3
<1> HIDE DEF A
<1>11. IsMajority(Voice(n, j)) BY <1>6, <1>9, <1>10, MajorityGrows
<1> QED BY <1>1, <1>3, <1>11 DEF Confirmed

\* Raft.handleHeartbeatResponse leaves requests with the voices they had.
LEMMA ReleasedConfirmed ==
  ASSUME TypeOK, TypeOK', Confirmed, NEW n \in Server, NEW m \in net, HandleHeartbeatResponse(n, m)
  PROVE  Confirmed'
<1>1. /\ m.type = "heartbeat_response" /\ m.to = n /\ role[n] = "leader" /\ m.term = term[n]
      /\ UNCHANGED <<term, role, read>>
  BY DEF HandleHeartbeatResponse, consensus
<1>2. /\ \E k \in Nat : Releases(n, m, k, queue[n], queue'[n])
      /\ \A l \in Server : l # n => queue'[l] = queue[l]
  BY ReleasesFirst
<1>3. PICK k \in Nat : Releases(n, m, k, queue[n], queue'[n]) BY <1>2
<1>4. TermsGrow
  <2>1. \A s \in Server : term[s] \in Nat BY DEF TypeOK
  <2> QED BY <1>1, <2>1 DEF TermsGrow
<1>5. \A l \in net' : l.type = "heartbeat_response" => l \in net BY <1>3 DEF Releases
<1>6. \A l \in Server : /\ Len(queue[l]) \in Nat /\ Len(queue'[l]) \in Nat
                        /\ \A j \in 1 .. Len(queue[l]) : queue[l][j] \in Status
                        /\ \A j \in 1 .. Len(queue'[l]) : queue'[l][j] \in Status
  <2> SUFFICES ASSUME NEW l \in Server
               PROVE  /\ Len(queue[l]) \in Nat /\ Len(queue'[l]) \in Nat
                      /\ \A j \in 1 .. Len(queue[l]) : queue[l][j] \in Status
                      /\ \A j \in 1 .. Len(queue'[l]) : queue'[l][j] \in Status
    OBVIOUS
  <2>1. queue[l] \in Seq(Status) /\ queue'[l] \in Seq(Status) BY DEF TypeOK
  <2> QED BY <2>1, LenProperties, ElementOfSeq
<1> DEFINE Shift(l) == IF l = n THEN k ELSE 0
<1>7. ASSUME NEW l \in Server
      PROVE  /\ Shift(l) \in 0 .. Len(queue[l]) /\ Len(queue'[l]) = Len(queue[l]) - Shift(l)
             /\ \A j \in 1 .. Len(queue'[l]) :
                  /\ queue'[l][j].ctx = queue[l][j + Shift(l)].ctx
                  /\ queue'[l][j].index = queue[l][j + Shift(l)].index
                  /\ \A s \in queue'[l][j].acks :
                       \/ s \in queue[l][j + Shift(l)].acks
                       \/ l = n /\ s = m.from /\ queue[l][j + Shift(l)].ctx = m.ctx
  <2>1. CASE l = n
    <3>1. Shift(l) = k BY <2>1
    <3> HIDE DEF Shift
    <3> QED BY <1>3, <2>1, <3>1 DEF Releases
  <2>2. CASE l # n
    <3>1. Shift(l) = 0 /\ queue'[l] = queue[l] BY <1>2, <2>2
    <3>2. \A j \in 1 .. Len(queue[l]) : j + 0 = j BY <1>6
    <3> HIDE DEF Shift
    <3> QED BY <1>6, <3>1, <3>2
  <2> QED BY <2>1, <2>2
<1> SUFFICES ASSUME NEW l \in Server, role'[l] = "leader", NEW h \in 1 .. Len(queue'[l]),
                    IsMajority(Voice(l, h))'
             PROVE  queue'[l][h].index >= read'[queue'[l][h].ctx].need
  BY DEF Confirmed
<1> DEFINE d == Shift(l)
<1>8. d \in Nat /\ d \in 0 .. Len(queue[l]) BY <1>6, <1>7
<1> HIDE DEF Shift
<1>9. Len(queue'[l]) = Len(queue[l]) - d BY <1>7
<1>10. ASSUME NEW j \in h .. Len(queue'[l])
       PROVE  /\ j \in 1 .. Len(queue'[l]) /\ j + d \in (h + d) .. Len(queue[l])
              /\ j + d \in 1 .. Len(queue[l])
  <2> HIDE DEF d
  <2> QED BY <1>6, <1>8, <1>9
<1>11. h \in Nat /\ h + d \in Nat /\ h + d \in 1 .. Len(queue[l])
  <2> HIDE DEF d
  <2> QED BY <1>6, <1>8, <1>9
<1>12. ASSUME NEW j \in h .. Len(queue'[l]), NEW s \in queue'[l][j].acks PROVE s \in Voice(l, h + d)
  <2>1. /\ j \in 1 .. Len(queue'[l]) /\ j + d \in (h + d) .. Len(queue[l])
        /\ j + d \in 1 .. Len(queue[l])
    BY <1>10
  <2>2. s \in Server BY <1>6, <1>12, <2>1 DEF Status
  <2>3. \/ s \in queue[l][j + d].acks
        \/ l = n /\ s = m.from /\ queue[l][j + d].ctx = m.ctx
    BY <1>7, <1>12, <2>1
  <2>4. l = n /\ s = m.from /\ queue[l][j + d].ctx = m.ctx =>
          m.from = s /\ Confirms(m, l, queue[l][j + d].ctx)
    BY <1>1 DEF Confirms
  <2> HIDE DEF d
  <2> QED BY <1>11, <2>1, <2>2, <2>3, <2>4, VoiceHas
<1>13. ASSUME NEW j \in h .. Len(queue'[l]), NEW c \in net', c.type = "heartbeat_response", c.to = l,
              c.term = term'[l], c.ctx = queue'[l][j].ctx
       PROVE  c.from \in Voice(l, h + d)
  <2>1. /\ j \in 1 .. Len(queue'[l]) /\ j + d \in (h + d) .. Len(queue[l])
    BY <1>10
  <2>2. c.from \in Server /\ c \in net BY <1>5, <1>13 DEF TypeOK, Message, ReadRequest, ReadAnswer, Beat
  <2>3. queue'[l][j].ctx = queue[l][j + d].ctx BY <1>7, <2>1
  <2>4. Confirms(c, l, queue[l][j + d].ctx) BY <1>1, <1>13, <2>3 DEF Confirms
  <2> HIDE DEF d
  <2> QED BY <1>11, <2>1, <2>2, <2>4, VoiceHas
<1>14. queue'[l][h].index = queue[l][h + d].index /\ queue'[l][h].ctx = queue[l][h + d].ctx BY <1>7
<1> HIDE DEF d
<1>15. IsMajority(Voice(l, h + d))
  <2>1. term'[l] = term[l] BY <1>1
  <2> QED BY <1>4, <1>11, <1>12, <1>13, <2>1, VoiceShrinks
<1>16. queue[l][h + d].index >= read[queue[l][h + d].ctx].need
  BY <1>1, <1>11, <1>15 DEF Confirmed
<1> QED BY <1>1, <1>14, <1>16

\* Terms only grow.
LEMMA TermsGrowStep ==
  ASSUME TypeOK, [Next]_vars
  PROVE  TermsGrow
<1>1. \A s \in Server : term[s] \in Nat BY DEF TypeOK
<1>2. ASSUME NEW Q \in SUBSET Server, NEW t \in Nat, \A s \in Q : term[s] <= t,
             term' = [s \in Server |-> IF s \in Q THEN t ELSE term[s]]
      PROVE  TermsGrow
  BY <1>1, <1>2 DEF TermsGrow
<1>3. ASSUME term' = term PROVE TermsGrow BY <1>1, <1>3 DEF TermsGrow
<1>4. ASSUME NEW n \in Server, NEW Q \in SUBSET Server, NEW t \in 1 .. MaxTerm, Elect(n, Q, t)
      PROVE  TermsGrow
  <2>1. t \in Nat BY ReadAssumption
  <2>2. \A s \in Q : term[s] <= t BY <1>1, <1>4, <2>1 DEF Elect
  <2> QED BY <1>2, <1>4, <2>1, <2>2 DEF Elect
<1>5. ASSUME NEW n \in Server, NEW t \in Nat, NEW l, term[n] <= t, BecomeFollower({n}, t, l)
      PROVE  TermsGrow
  <2>1. {n} \in SUBSET Server OBVIOUS
  <2> QED BY <1>2, <1>5, <2>1 DEF BecomeFollower
<1>6. ASSUME NEW n \in Server, NEW Q \in SUBSET Server, Replicate(n, Q) PROVE TermsGrow
  BY <1>1, <1>2, <1>6 DEF Replicate
<1>7. ASSUME NEW n \in Server, StepDown(n) PROVE TermsGrow
  <2>1. term[n] <= term[n] /\ term[n] \in Nat BY <1>1
  <2> QED BY <1>5, <1>7, <2>1 DEF StepDown
<1>8. ASSUME NEW n \in Server, LearnCommit(n) \/ Restart(n) \/ ProcessReady(n) PROVE TermsGrow
  BY <1>3, <1>8 DEF LearnCommit, Restart, ProcessReady, consensus
<1>9. ASSUME NEW n \in Server, NEW i \in 1 .. Len(log), LeaderCommits(n, i) PROVE TermsGrow
  BY <1>3, <1>9 DEF LeaderCommits, consensus
<1>10. ASSUME NEW n \in Server, NEW r \in Request, RequestRead(r, n) PROVE TermsGrow
  BY <1>3, <1>10 DEF RequestRead, consensus
<1>11. ASSUME NEW r \in Request, Expire(r) PROVE TermsGrow BY <1>3, <1>11 DEF Expire, consensus
<1>12. ASSUME NEW m \in net, HandleReadIndex(m.to, m) \/ HandleHeartbeatResponse(m.to, m)
       PROVE  TermsGrow
  BY <1>3, <1>12 DEF HandleReadIndex, HandleHeartbeatResponse, consensus
<1>13. ASSUME NEW m \in net, HandleHeartbeat(m.to, m) PROVE TermsGrow
  <2>1. m.to \in Server /\ m.term \in Nat /\ term[m.to] <= m.term
    BY <1>13 DEF HandleHeartbeat, TypeOK, Message, ReadRequest, ReadAnswer, Beat
  <2>2. CASE term[m.to] < m.term BY <1>5, <1>13, <2>1, <2>2 DEF HandleHeartbeat
  <2>3. CASE ~ (term[m.to] < m.term) BY <1>3, <1>13, <2>3 DEF HandleHeartbeat
  <2> QED BY <2>2, <2>3
<1>14. ASSUME NEW m \in net, HandleReadIndexResp(m.to, m) PROVE TermsGrow
  <2>1. m.to \in Server /\ m.term \in Nat /\ term[m.to] <= m.term
    BY <1>14 DEF HandleReadIndexResp, TypeOK, Message, ReadRequest, ReadAnswer, Beat
  <2>2. CASE term[m.to] < m.term BY <1>5, <1>14, <2>1, <2>2 DEF HandleReadIndexResp
  <2>3. CASE ~ (term[m.to] < m.term) BY <1>3, <1>14, <2>3 DEF HandleReadIndexResp
  <2> QED BY <2>2, <2>3
<1>15. CASE UNCHANGED vars BY <1>3, <1>15 DEF vars, consensus
<1> QED BY <1>4, <1>6, <1>7, <1>8, <1>9, <1>10, <1>11, <1>12, <1>13, <1>14, <1>15 DEF Next

\* No read needs more than it did, and none is made again.
ReadsKept ==
  \A r \in Request : /\ read'[r].need <= read[r].need
                     /\ read'[r].state = "idle" =>
                          read[r].state = "idle" /\ (read[r].home = None => read'[r] = read[r])

\* ... in every step that requests none.
LEMMA ReadsKeptWhen ==
  ASSUME TypeOK, \/ read' = read
                 \/ \E n \in Server : Restart(n) \/ ProcessReady(n)
                 \/ \E r \in Request : Expire(r)
  PROVE  ReadsKept
<1>1. \A r \in Request : read[r] \in Read /\ read[r].need \in Nat BY DEF TypeOK, Read
<1>2. Failed.need = 0 /\ Failed.state = "failed" BY DEF Failed, Untracked
<1>3. CASE read' = read BY <1>1, <1>3 DEF ReadsKept
<1>4. ASSUME NEW n \in Server, Restart(n) PROVE ReadsKept
  <2> SUFFICES ASSUME NEW r \in Request
               PROVE  /\ read'[r].need <= read[r].need
                      /\ read'[r].state = "idle" =>
                           read[r].state = "idle" /\ (read[r].home = None => read'[r] = read[r])
    BY DEF ReadsKept
  <2>1. read'[r] = Failed \/ read'[r] = read[r] BY <1>4 DEF Restart
  <2> QED BY <1>1, <1>2, <2>1
<1>5. ASSUME NEW n \in Server, ProcessReady(n) PROVE ReadsKept
  <2> SUFFICES ASSUME NEW r \in Request
               PROVE  /\ read'[r].need <= read[r].need
                      /\ read'[r].state = "idle" =>
                           read[r].state = "idle" /\ (read[r].home = None => read'[r] = read[r])
    BY DEF ReadsKept
  <2> DEFINE a == Untracked("ok", read[r].need, read[r].ready)
             b == Untracked("ok", read[r].need, commit[n])
             c == [read[r] EXCEPT !.ready = Marked(r, n)]
  <2>1. a.need = read[r].need /\ a.state = "ok" /\ b.need = read[r].need /\ b.state = "ok"
    BY DEF Untracked
  <2>2. c.need = read[r].need /\ c.state = read[r].state BY <1>1 DEF Read
  <2> HIDE DEF a, b, c
  <2>3. read'[r] \in {Failed, read[r], a, b, c} BY <1>5 DEF ProcessReady, a, b, c
  <2>4. read[r].home = None => read'[r] = read[r]
    <3>1. read[r].home # n => read'[r] = read[r] BY <1>5 DEF ProcessReady
    <3> QED BY <3>1, ReadAssumption
  <2> QED BY <1>1, <1>2, <2>1, <2>2, <2>3, <2>4
<1>6. ASSUME NEW r \in Request, Expire(r) PROVE ReadsKept
  <2> SUFFICES ASSUME NEW u \in Request
               PROVE  /\ read'[u].need <= read[u].need
                      /\ read'[u].state = "idle" =>
                           read[u].state = "idle" /\ (read[u].home = None => read'[u] = read[u])
    BY DEF ReadsKept
  <2>1. read'[u] = Failed \/ read'[u] = read[u] BY <1>6 DEF Expire, TypeOK
  <2> QED BY <1>1, <1>2, <2>1
<1> QED BY <1>3, <1>4, <1>5, <1>6

\* RawNode.readIndex makes one read, of which nobody has heard.
LEMMA ReadRequested ==
  ASSUME TypeOK, NEW n \in Server, NEW r \in Request, RequestRead(r, n)
  PROVE  /\ read[r].state = "idle" /\ read'[r].state = "pending" /\ read'[r].need = shown
         /\ read'[r].ready = read[r].ready
         /\ \A u \in Request : u # r => read'[u] = read[u]
<1>1. read' = [read EXCEPT ![r] = [read[r] EXCEPT !.state = "pending", !.home = n, !.need = shown]]
  BY DEF RequestRead
<1>2. read[r] \in Read /\ read \in [Request -> Read] BY DEF TypeOK
<1> DEFINE e == [read[r] EXCEPT !.state = "pending", !.home = n, !.need = shown]
<1>3. e.state = "pending" /\ e.need = shown /\ e.ready = read[r].ready BY <1>2 DEF Read
<1>4. read[r].state = "idle" BY DEF RequestRead
<1> HIDE DEF e
<1>5. read' = [read EXCEPT ![r] = e] BY <1>1 DEF e
<1> QED BY <1>2, <1>3, <1>4, <1>5

\* Message m is all there is of its request, confirmations included.
Sole(m) ==
  /\ \A l \in net : l.type = "read_index" /\ l.ctx = m.ctx => l = m
  /\ \A n \in Server : \A i \in 1 .. Len(postponed[n]) : postponed[n][i].ctx # m.ctx
  /\ \A l \in net : l.type \in {"heartbeat", "heartbeat_response"} => l.ctx # m.ctx

\* A request that is delivered, and one that is made.
LEMMA SoleMessage ==
  ASSUME Once, NEW m \in net, m.type = "read_index"
  PROVE  Sole(m)
<1>1. Underway(m.ctx) BY DEF Underway
<1> QED BY <1>1 DEF Once, Sole

LEMMA SoleRequest ==
  ASSUME Unheard, NEW n \in Server, NEW r \in Request, read[r].state = "idle"
  PROVE  Sole(ReadIndexMsg(n, n, r))
<1>1. ReadIndexMsg(n, n, r).ctx = r BY DEF ReadIndexMsg
<1>2. ~ Underway(r) /\ \A l \in net : l.ctx # r BY DEF Unheard
<1>3. \A l \in Server : \A i \in 1 .. Len(postponed[l]) : postponed[l][i].ctx # r BY <1>2 DEF Underway
<1> QED BY <1>1, <1>2, <1>3 DEF Sole

\* Raft.stepReadIndex: what it sends confirms nothing.
LEMMA StepReadIndexConfirmed ==
  ASSUME TypeOK, TypeOK', Consensus, Indexes, Confirmed, NEW n \in Server, NEW m \in ReadRequest,
         Sole(m), StepReadIndex(n, m), UNCHANGED <<consensus, shown>>, read'[m.ctx].need <= shown,
         \A l \in Server : \A j \in 1 .. Len(queue[l]) :
           read'[queue[l][j].ctx].need <= read[queue[l][j].ctx].need
  PROVE  Confirmed'
<1>1. \A l \in net' : l.type = "heartbeat_response" => l \in net
  <2> DEFINE e == [m EXCEPT !.to = lead[n]]
  <2>1. net' \in {(net \ {m}) \cup Heartbeats(n, m.ctx), net \ {m}, (net \ {m}) \cup {e}}
    BY StepReadIndexCases
  <2>2. \A l \in Heartbeats(n, m.ctx) : l.type = "heartbeat" BY DEF Heartbeats, Heartbeat
  <2>3. e.type = "read_index" BY DEF ReadRequest
  <2> HIDE DEF e
  <2> QED BY <2>1, <2>2, <2>3
<1>2. CASE ServesAll(n, commit[n], <<m>>)
  <2> DEFINE ms == <<m>>
  <2>1. Len(ms) = 1 /\ ms[1] = m OBVIOUS
  <2>2. Fresh(m.ctx)
    <3>1. m.ctx \in Request BY DEF ReadRequest
    <3> QED BY <1>1, <3>1 DEF Fresh, Sole
  <2> HIDE DEF ms
  <2>3. \A j \in 1 .. Len(ms) : Fresh(ms[j].ctx) BY <2>1, <2>2
  <2>4. commit[n] \in Nat BY DEF TypeOK
  <2>5. ServesAll(n, commit[n], ms) BY <1>2 DEF ms
  <2> QED BY <1>1, <2>3, <2>4, <2>5, ServedConfirmed
<1>3. CASE queue' = queue
  <2>1. term' = term /\ role' = role BY DEF consensus
  <2>2. TermsGrow BY <2>1 DEF TermsGrow, TypeOK
  <2> QED BY <1>1, <1>3, <2>1, <2>2, CalmConfirmed
<1> QED BY <1>2, <1>3, StepReadIndexCases

\* Every step keeps requests confirmed.
LEMMA ConfirmedStep ==
  ASSUME TypeOK, TypeOK', Consensus, Indexes, Confirmed, Once, Unheard, Released, [Next]_vars
  PROVE  Confirmed'
<1>1. TermsGrow BY TermsGrowStep
<1>2. \A l \in Server : \A j \in 1 .. Len(queue[l]) : queue[l][j].ctx \in Request
  <2> SUFFICES ASSUME NEW l \in Server, NEW j \in 1 .. Len(queue[l]) PROVE queue[l][j].ctx \in Request
    OBVIOUS
  <2>1. queue[l] \in Seq(Status) BY DEF TypeOK
  <2>2. queue[l][j] \in Status BY <2>1, ElementOfSeq
  <2> QED BY <2>2 DEF Status
<1> DEFINE Needs == \A l \in Server : \A j \in 1 .. Len(queue[l]) :
                      read'[queue[l][j].ctx].need <= read[queue[l][j].ctx].need
           Leads == \A n \in Server : role'[n] = "leader" /\ queue'[n] # <<>> =>
                      role[n] = "leader" /\ term'[n] = term[n] /\ queue'[n] = queue[n]
           Beats == \A m \in net' : m.type = "heartbeat_response" => m \in net \/ term'[m.from] <= m.term
<1>3. ASSUME ReadsKept PROVE Needs BY <1>2, <1>3 DEF ReadsKept
<1>4. ASSUME ReadsKept, Leads, Beats PROVE Confirmed'
  <2>1. Needs BY <1>3, <1>4
  <2> QED BY <1>1, <1>4, <2>1, CalmConfirmed
<1>5. ASSUME NEW S, NEW t, net' = Current(net, S, t) PROVE Beats BY <1>5 DEF Current
<1>6. ASSUME net' = net PROVE Beats BY <1>6
<1>7. ASSUME UNCHANGED <<term, role, queue>> PROVE Leads BY <1>7
<1>8. ASSUME NEW n \in Server, NEW t, NEW l, BecomeFollower({n}, t, l) PROVE Leads
  <2>1. /\ term' = [m \in Server |-> IF m \in {n} THEN t ELSE term[m]]
        /\ role' = [m \in Server |-> IF m \in {n} THEN "follower" ELSE role[m]]
        /\ queue' = [m \in Server |-> IF m \in {n} THEN <<>> ELSE queue[m]]
    BY <1>8 DEF BecomeFollower, Reset
  <2> QED BY <2>1
<1>9. ASSUME NEW n \in Server, NEW Q \in SUBSET Server, NEW t \in 1 .. MaxTerm, Elect(n, Q, t)
      PROVE  Confirmed'
  <2>1. Beats BY <1>5, <1>9 DEF Elect
  <2>2. /\ n \in Q
        /\ term' = [m \in Server |-> IF m \in Q THEN t ELSE term[m]]
        /\ role' = [m \in Server |-> IF m = n THEN "leader" ELSE IF m \in Q THEN "follower" ELSE role[m]]
        /\ queue' = [m \in Server |-> IF m \in Q THEN <<>> ELSE queue[m]]
    BY <1>9 DEF Elect, Reset
  <2>3. Leads BY <2>2
  <2>4. ReadsKept BY <1>9, ReadsKeptWhen DEF Elect
  <2> QED BY <1>4, <2>1, <2>3, <2>4
<1>10. ASSUME NEW n \in Server, StepDown(n) PROVE Confirmed'
  <2>1. Beats /\ Leads BY <1>6, <1>8, <1>10 DEF StepDown
  <2>2. ReadsKept BY <1>10, ReadsKeptWhen DEF StepDown
  <2> QED BY <1>4, <2>1, <2>2
<1>11. ASSUME NEW n \in Server, NEW Q \in SUBSET Server, Replicate(n, Q) PROVE Confirmed'
  <2>1. Beats BY <1>5, <1>11 DEF Replicate
  <2>2. /\ n \in Q /\ (\A m \in Q : term[m] <= term[n])
        /\ term' = [m \in Server |-> IF m \in Q THEN term[n] ELSE term[m]]
        /\ role' = [m \in Server |-> IF m \in Q \ {n} THEN "follower" ELSE role[m]]
        /\ queue' = [m \in Server |-> IF m \in {l \in Q : term[l] < term[n]} THEN <<>> ELSE queue[m]]
    BY <1>11 DEF Replicate, Reset
  <2>3. \A m \in Server : role'[m] = "leader" => role[m] = "leader" /\ term'[m] = term[m]
    BY <2>2
  <2>4. \A m \in Server : queue'[m] # <<>> => queue'[m] = queue[m] BY <2>2
  <2>5. Leads BY <2>3, <2>4
  <2>6. ReadsKept BY <1>11, ReadsKeptWhen DEF Replicate
  <2> QED BY <1>4, <2>1, <2>5, <2>6
<1>12. ASSUME NEW n \in Server, LearnCommit(n) PROVE Confirmed'
  <2>1. Beats /\ Leads BY <1>6, <1>7, <1>12 DEF LearnCommit, consensus
  <2>2. ReadsKept BY <1>12, ReadsKeptWhen DEF LearnCommit
  <2> QED BY <1>4, <2>1, <2>2
<1>13. ASSUME NEW n \in Server, Restart(n) PROVE Confirmed'
  <2>1. /\ role' = [role EXCEPT ![n] = "follower"] /\ term' = term /\ net' = net
        /\ queue' = [m \in Server |-> IF m \in {n} THEN <<>> ELSE queue[m]]
    BY <1>13 DEF Restart, Reset
  <2>2. Leads BY <2>1 DEF TypeOK
  <2>3. Beats BY <1>6, <2>1
  <2>4. ReadsKept BY <1>13, ReadsKeptWhen
  <2> QED BY <1>4, <2>2, <2>3, <2>4
<1>14. ASSUME NEW n \in Server, ProcessReady(n) PROVE Confirmed'
  <2>1. Beats /\ Leads BY <1>6, <1>7, <1>14 DEF ProcessReady, consensus
  <2>2. ReadsKept BY <1>14, ReadsKeptWhen
  <2> QED BY <1>4, <2>1, <2>2
<1>15. ASSUME NEW r \in Request, Expire(r) PROVE Confirmed'
  <2>1. Beats /\ Leads BY <1>6, <1>7, <1>15 DEF Expire, consensus
  <2>2. ReadsKept BY <1>15, ReadsKeptWhen
  <2> QED BY <1>4, <2>1, <2>2
<1>16. ASSUME NEW n \in Server, NEW i \in 1 .. Len(log), LeaderCommits(n, i) PROVE Confirmed'
  <2>1. i \in Nat
    <3>1. Len(log) \in Nat BY LenProperties DEF TypeOK
    <3> QED BY <3>1
  <2>2. ServesAll(n, i, postponed[n]) BY <1>16, LeaderCommitsServes
  <2>3. /\ read' = read
        /\ net' = net \cup UNION {Heartbeats(n, m.ctx) : m \in ToSet(postponed[n])}
    BY <1>16 DEF LeaderCommits
  <2>4. \A l \in net' : l.type = "heartbeat_response" => l \in net
    <3>1. \A c : \A l \in Heartbeats(n, c) : l.type = "heartbeat" BY DEF Heartbeats, Heartbeat
    <3>2. \A l \in net' : l \in net \/ \E m \in ToSet(postponed[n]) : l \in Heartbeats(n, m.ctx)
      BY <2>3
    <3> QED BY <3>1, <3>2
  <2>5. ASSUME NEW j \in 1 .. Len(postponed[n]) PROVE Fresh(postponed[n][j].ctx)
    <3>1. postponed[n] \in Seq(ReadRequest) BY DEF TypeOK
    <3>2. postponed[n][j] \in ReadRequest BY <3>1, ElementOfSeq
    <3>3. postponed[n][j].ctx \in Request BY <3>2 DEF ReadRequest
    <3>4. Underway(postponed[n][j].ctx) BY DEF Underway
    <3>5. \A m \in net : m.type = "heartbeat_response" => m.ctx # postponed[n][j].ctx
      BY <3>4 DEF Once
    <3>6. read'[postponed[n][j].ctx].need <= shown BY <2>3, <3>3 DEF Released
    <3> QED BY <2>4, <3>3, <3>5, <3>6 DEF Fresh
  <2>6. Needs
    <3>1. ReadsKept BY <2>3, ReadsKeptWhen
    <3> QED BY <1>3, <3>1
  <2> QED BY <2>1, <2>2, <2>4, <2>5, <2>6, ServedConfirmed
<1>17. ASSUME NEW n \in Server, NEW r \in Request, RequestRead(r, n) PROVE Confirmed'
  <2> DEFINE m == ReadIndexMsg(n, n, r)
  <2>1. m \in ReadRequest /\ m.ctx = r BY DEF ReadIndexMsg, ReadRequest
  <2>2. /\ read[r].state = "idle" /\ read'[r].need = shown
        /\ \A u \in Request : u # r => read'[u] = read[u]
    BY <1>17, ReadRequested
  <2>3. Sole(m) BY <2>2, SoleRequest
  <2>4. StepReadIndex(n, m) /\ UNCHANGED <<consensus, shown>> BY <1>17 DEF RequestRead
  <2>5. \A u \in Request : read[u].need \in Nat /\ shown \in Nat BY DEF TypeOK, Read
  <2>6. Needs
    <3> SUFFICES ASSUME NEW l \in Server, NEW j \in 1 .. Len(queue[l])
                 PROVE  read'[queue[l][j].ctx].need <= read[queue[l][j].ctx].need
      OBVIOUS
    <3>1. queue[l][j].ctx # r BY <2>2 DEF Unheard
    <3> QED BY <1>2, <2>2, <2>5, <3>1
  <2>7. read'[m.ctx].need <= shown BY <2>1, <2>2, <2>5
  <2> HIDE DEF m
  <2> QED BY <2>1, <2>3, <2>4, <2>6, <2>7, StepReadIndexConfirmed
<1>18. ASSUME NEW m \in net, HandleReadIndex(m.to, m) PROVE Confirmed'
  <2>1. m \in ReadRequest /\ m.to \in Server /\ m.type = "read_index" /\ m.ctx \in Request
    BY <1>18 DEF HandleReadIndex, TypeOK, Message, ReadRequest, ReadAnswer, Beat
  <2>2. Sole(m) BY <2>1, SoleMessage
  <2>3. StepReadIndex(m.to, m) /\ read' = read /\ UNCHANGED <<consensus, shown>>
    BY <1>18 DEF HandleReadIndex
  <2>4. Needs
    <3>1. ReadsKept BY <2>3, ReadsKeptWhen
    <3> QED BY <1>3, <3>1
  <2>5. read'[m.ctx].need <= shown BY <2>1, <2>3 DEF Released
  <2> QED BY <2>1, <2>2, <2>3, <2>4, <2>5, StepReadIndexConfirmed
<1>19. ASSUME NEW m \in net, HandleHeartbeat(m.to, m) PROVE Confirmed'
  <2>1. m.to \in Server /\ m.term \in Nat /\ term[m.to] <= m.term
    BY <1>19 DEF HandleHeartbeat, TypeOK, Message, ReadRequest, ReadAnswer, Beat
  <2>2. Leads /\ term'[m.to] = m.term
    <3>1. CASE term[m.to] < m.term
      <4>1. BecomeFollower({m.to}, m.term, m.from) BY <1>19, <3>1 DEF HandleHeartbeat
      <4>2. term'[m.to] = m.term BY <2>1, <4>1 DEF BecomeFollower
      <4> QED BY <1>8, <2>1, <4>1, <4>2
    <3>2. CASE ~ (term[m.to] < m.term)
      <4>1. UNCHANGED <<term, role, queue>> BY <1>19, <3>2 DEF HandleHeartbeat
      <4>2. term[m.to] \in Nat BY <2>1 DEF TypeOK
      <4>3. term'[m.to] = m.term BY <2>1, <3>2, <4>1, <4>2
      <4> QED BY <1>7, <4>1, <4>3
    <3> QED BY <3>1, <3>2
  <2>3. Beats
    <3> DEFINE e == HeartbeatResponse(m.to, m.from, m.ctx, m.term)
    <3>1. e.from = m.to /\ e.term = m.term BY DEF HeartbeatResponse
    <3>2. net' = Current(net, {m.to}, m.term) \cup {e} BY <1>19 DEF HandleHeartbeat
    <3> HIDE DEF e
    <3>3. \A l \in net' : l \in net \/ l = e BY <3>2 DEF Current
    <3>4. m.term <= m.term BY <2>1
    <3> QED BY <2>2, <3>1, <3>3, <3>4
  <2>4. ReadsKept BY <1>19, ReadsKeptWhen DEF HandleHeartbeat
  <2> QED BY <1>4, <2>2, <2>3, <2>4
<1>20. ASSUME NEW m \in net, HandleHeartbeatResponse(m.to, m) PROVE Confirmed'
  <2>1. m.to \in Server BY DEF TypeOK, Message, ReadRequest, ReadAnswer, Beat
  <2> QED BY <1>20, <2>1, ReleasedConfirmed
<1>21. ASSUME NEW m \in net, HandleReadIndexResp(m.to, m) PROVE Confirmed'
  <2>1. m.to \in Server BY DEF TypeOK, Message, ReadRequest, ReadAnswer, Beat
  <2>2. ReadsKept BY <1>21, ReadsKeptWhen DEF HandleReadIndexResp
  <2>3. CASE term[m.to] < m.term
    <3>1. Leads /\ Beats BY <1>5, <1>8, <1>21, <2>1, <2>3 DEF HandleReadIndexResp
    <3> QED BY <1>4, <2>2, <3>1
  <2>4. CASE ~ (term[m.to] < m.term)
    <3>1. Leads /\ Beats BY <1>6, <1>7, <1>21, <2>4 DEF HandleReadIndexResp
    <3> QED BY <1>4, <2>2, <3>1
  <2> QED BY <2>3, <2>4
<1>22. CASE UNCHANGED vars
  <2>1. Beats /\ Leads BY <1>6, <1>7, <1>22 DEF vars, consensus
  <2>2. ReadsKept BY <1>22, ReadsKeptWhen DEF vars
  <2> QED BY <1>4, <2>1, <2>2
<1> QED BY <1>9, <1>10, <1>11, <1>12, <1>13, <1>14, <1>15, <1>16, <1>17, <1>18, <1>19, <1>20, <1>21,
           <1>22 DEF Next

-----------------------------------------------------------------------------
(***************************************************************************)
(* Requests.                                                               *)
(***************************************************************************)
IsBeat(m) == m.type \in {"heartbeat", "heartbeat_response"}

\* Servers forget requests they postponed, or remember them.
PostponedStay ==
  \A n \in Server : \A i \in 1 .. Len(postponed'[n]) :
    i \in 1 .. Len(postponed[n]) /\ postponed'[n][i] = postponed[n][i]

LEMMA PostponedStayWhen ==
  ASSUME \A n \in Server : postponed'[n] = postponed[n] \/ postponed'[n] = <<>>
  PROVE  PostponedStay
<1> SUFFICES ASSUME NEW n \in Server, NEW i \in 1 .. Len(postponed'[n])
             PROVE  i \in 1 .. Len(postponed[n]) /\ postponed'[n][i] = postponed[n][i]
  BY DEF PostponedStay
<1>1. CASE postponed'[n] = postponed[n] BY <1>1
<1>2. CASE postponed'[n] = <<>>
  <2>1. Len(postponed'[n]) = 0 BY <1>2
  <2> QED BY <2>1
<1> QED BY <1>1, <1>2

\* Steps that send no request.
LEMMA OnceStays ==
  ASSUME Once, PostponedStay, \A m \in net' : m.type = "read_index" => m \in net,
         \A m \in net' : IsBeat(m) =>
           (\E l \in net : IsBeat(l) /\ l.ctx = m.ctx) \/ ~ Underway(m.ctx)'
  PROVE  Once'
<1>1. ASSUME NEW r, Underway(r)' PROVE Underway(r)
  <2>1. CASE \E m \in net' : m.type = "read_index" /\ m.ctx = r BY <2>1 DEF Underway
  <2>2. CASE \E n \in Server : \E i \in 1 .. Len(postponed'[n]) : postponed'[n][i].ctx = r
    BY <2>2 DEF Underway, PostponedStay
  <2> QED BY <1>1, <2>1, <2>2 DEF Underway
<1>2. \A m, l \in net' :
        (m.type = "read_index" /\ l.type = "read_index" /\ m.ctx = l.ctx) => m = l
  BY DEF Once
<1>3. \A m \in net' : m.type = "read_index" =>
        \A n \in Server : \A i \in 1 .. Len(postponed'[n]) : postponed'[n][i].ctx # m.ctx
  BY DEF Once, PostponedStay
<1>4. \A n, l \in Server : \A i \in 1 .. Len(postponed'[n]) : \A j \in 1 .. Len(postponed'[l]) :
        postponed'[n][i].ctx = postponed'[l][j].ctx => n = l /\ i = j
  <2> SUFFICES ASSUME NEW n \in Server, NEW l \in Server, NEW i \in 1 .. Len(postponed'[n]),
                      NEW j \in 1 .. Len(postponed'[l]), postponed'[n][i].ctx = postponed'[l][j].ctx
               PROVE  n = l /\ i = j
    OBVIOUS
  <2>1. /\ i \in 1 .. Len(postponed[n]) /\ postponed'[n][i] = postponed[n][i]
        /\ j \in 1 .. Len(postponed[l]) /\ postponed'[l][j] = postponed[l][j]
    BY DEF PostponedStay
  <2>2. postponed[n][i].ctx = postponed[l][j].ctx BY <2>1
  <2> QED BY <2>1, <2>2 DEF Once
<1>5. ASSUME NEW m \in net', m.type \in {"heartbeat", "heartbeat_response"} PROVE ~ Underway(m.ctx)'
  <2> SUFFICES ASSUME Underway(m.ctx)' PROVE FALSE OBVIOUS
  <2>1. PICK l \in net : IsBeat(l) /\ l.ctx = m.ctx BY <1>5 DEF IsBeat
  <2>2. Underway(m.ctx) BY <1>1
  <2>3. ~ Underway(l.ctx) BY <2>1 DEF Once, IsBeat
  <2> QED BY <2>1, <2>2, <2>3
<1> QED BY <1>2, <1>3, <1>4, <1>5 DEF Once

\* A request passed on from one server to the next.
LEMMA OncePassed ==
  ASSUME Once, NEW m, NEW e, Sole(m), e.type = "read_index", e.ctx = m.ctx,
         net' = (net \ {m}) \cup {e}, postponed' = postponed
  PROVE  Once'
<1>1. \A l \in net' : l = e \/ (l \in net /\ l # m) BY DEF Sole
<1>2. ASSUME NEW l \in net', l.type = "read_index", l.ctx = m.ctx PROVE l = e
  BY <1>1, <1>2 DEF Sole
<1>3. \A k, l \in net' :
        (k.type = "read_index" /\ l.type = "read_index" /\ k.ctx = l.ctx) => k = l
  <2> SUFFICES ASSUME NEW k \in net', NEW l \in net', k.type = "read_index", l.type = "read_index",
                      k.ctx = l.ctx
               PROVE  k = l
    OBVIOUS
  <2>1. CASE k = e \/ l = e BY <1>2, <2>1
  <2>2. CASE k # e /\ l # e BY <1>1, <2>2 DEF Once
  <2> QED BY <2>1, <2>2
<1>4. \A l \in net' : l.type = "read_index" =>
        \A n \in Server : \A i \in 1 .. Len(postponed'[n]) : postponed'[n][i].ctx # l.ctx
  BY <1>1 DEF Once, Sole
<1>5. \A n, l \in Server : \A i \in 1 .. Len(postponed'[n]) : \A j \in 1 .. Len(postponed'[l]) :
        postponed'[n][i].ctx = postponed'[l][j].ctx => n = l /\ i = j
  BY DEF Once
<1>6. ASSUME NEW l \in net', l.type \in {"heartbeat", "heartbeat_response"} PROVE ~ Underway(l.ctx)'
  <2>1. l \in net /\ l.ctx # m.ctx BY <1>1, <1>6 DEF Sole
  <2>2. ~ Underway(l.ctx) BY <1>6, <2>1 DEF Once
  <2>3. \A k \in net' : k.type = "read_index" /\ k.ctx = l.ctx => k \in net BY <1>1, <2>1
  <2> QED BY <2>2, <2>3 DEF Underway
<1> QED BY <1>3, <1>4, <1>5, <1>6 DEF Once

\* A request postponed.
LEMMA OncePostponed ==
  ASSUME TypeOK, Once, NEW n \in Server, NEW m \in ReadRequest, Sole(m), net' = net \ {m},
         postponed' = [postponed EXCEPT ![n] = Append(postponed[n], m)]
  PROVE  Once'
<1> DEFINE L == Len(postponed[n])
<1>1. postponed[n] \in Seq(ReadRequest) /\ L \in Nat BY LenProperties DEF TypeOK
<1>2. /\ postponed'[n] = Append(postponed[n], m)
      /\ \A l \in Server : l # n => postponed'[l] = postponed[l]
  BY DEF TypeOK
<1>3. /\ Len(postponed'[n]) = L + 1 /\ postponed'[n][L + 1] = m
      /\ \A i \in 1 .. L : postponed'[n][i] = postponed[n][i]
  BY <1>1, <1>2, AppendProperties
<1> HIDE DEF L
<1>4. ASSUME NEW l \in Server, NEW i \in 1 .. Len(postponed'[l])
      PROVE  \/ i \in 1 .. Len(postponed[l]) /\ postponed'[l][i] = postponed[l][i]
             \/ l = n /\ i = L + 1 /\ postponed'[l][i] = m
  <2>1. CASE l # n BY <1>2, <2>1
  <2>2. CASE l = n
    <3>1. i \in 1 .. L \/ i = L + 1 BY <1>1, <1>3, <2>2
    <3> QED BY <1>3, <2>2, <3>1 DEF L
  <2> QED BY <2>1, <2>2
<1>5. \A k, l \in net' :
        (k.type = "read_index" /\ l.type = "read_index" /\ k.ctx = l.ctx) => k = l
  BY DEF Once
<1>6. ASSUME NEW k \in net', k.type = "read_index", NEW l \in Server, NEW i \in 1 .. Len(postponed'[l])
      PROVE  postponed'[l][i].ctx # k.ctx
  <2>1. k \in net /\ k # m OBVIOUS
  <2>2. CASE i \in 1 .. Len(postponed[l]) /\ postponed'[l][i] = postponed[l][i]
    BY <1>6, <2>1, <2>2 DEF Once
  <2>3. CASE postponed'[l][i] = m BY <1>6, <2>1, <2>3 DEF Sole
  <2> QED BY <1>4, <2>2, <2>3
<1>7. ASSUME NEW h \in Server, NEW l \in Server, NEW i \in 1 .. Len(postponed'[h]),
             NEW j \in 1 .. Len(postponed'[l]), postponed'[h][i].ctx = postponed'[l][j].ctx
      PROVE  h = l /\ i = j
  <2>1. \/ i \in 1 .. Len(postponed[h]) /\ postponed'[h][i] = postponed[h][i]
        \/ h = n /\ i = L + 1 /\ postponed'[h][i] = m
    BY <1>4
  <2>2. \/ j \in 1 .. Len(postponed[l]) /\ postponed'[l][j] = postponed[l][j]
        \/ l = n /\ j = L + 1 /\ postponed'[l][j] = m
    BY <1>4
  <2>3. \A x \in Server : \A y \in 1 .. Len(postponed[x]) : postponed[x][y].ctx # m.ctx BY DEF Sole
  <2> QED BY <1>7, <2>1, <2>2, <2>3 DEF Once
<1>8. ASSUME NEW l \in net', l.type \in {"heartbeat", "heartbeat_response"} PROVE ~ Underway(l.ctx)'
  <2>1. l \in net /\ l.ctx # m.ctx BY <1>8 DEF Sole
  <2>2. ~ Underway(l.ctx) BY <1>8, <2>1 DEF Once
  <2>3. \A x \in Server : \A i \in 1 .. Len(postponed'[x]) : postponed'[x][i].ctx # l.ctx
    BY <1>4, <2>1, <2>2 DEF Underway
  <2> QED BY <2>2, <2>3 DEF Underway
<1> QED BY <1>5, <1>6, <1>7, <1>8 DEF Once

\* Raft.stepReadIndex.
LEMMA StepReadIndexOnce ==
  ASSUME TypeOK, Indexes, Once, NEW n \in Server, NEW m \in ReadRequest, Sole(m),
         StepReadIndex(n, m), UNCHANGED <<consensus, shown>>
  PROVE  Once'
<1> DEFINE e == [m EXCEPT !.to = lead[n]]
<1>1. e.type = "read_index" /\ e.ctx = m.ctx /\ m.type = "read_index" BY DEF ReadRequest
<1>2. \A l \in Heartbeats(n, m.ctx) : l.type = "heartbeat" /\ l.ctx = m.ctx
  BY DEF Heartbeats, Heartbeat
<1>3. \/ net' = (net \ {m}) \cup Heartbeats(n, m.ctx) /\ postponed' = postponed
      \/ net' = net \ {m} /\ postponed' = [postponed EXCEPT ![n] = Append(postponed[n], m)]
      \/ net' = net \ {m} /\ postponed' = postponed
      \/ net' = (net \ {m}) \cup {e} /\ postponed' = postponed
  BY StepReadIndexCases
<1> HIDE DEF e
<1>4. CASE net' = (net \ {m}) \cup Heartbeats(n, m.ctx) /\ postponed' = postponed
  <2>1. PostponedStay BY <1>4, PostponedStayWhen
  <2>2. \A l \in net' : l.type = "read_index" => l \in net /\ l # m BY <1>2, <1>4
  <2>3. ~ Underway(m.ctx)'
    <3>1. \A l \in net' : l.type = "read_index" => l.ctx # m.ctx BY <2>2 DEF Sole
    <3>2. \A l \in Server : \A i \in 1 .. Len(postponed'[l]) : postponed'[l][i].ctx # m.ctx
      BY <1>4 DEF Sole
    <3> QED BY <3>1, <3>2 DEF Underway
  <2>4. ASSUME NEW l \in net', IsBeat(l)
        PROVE  (\E k \in net : IsBeat(k) /\ k.ctx = l.ctx) \/ ~ Underway(l.ctx)'
    <3>1. CASE l \in net BY <2>4, <3>1
    <3>2. CASE l \in Heartbeats(n, m.ctx)
      <4>1. l.ctx = m.ctx BY <1>2, <3>2
      <4> QED BY <2>3, <4>1
    <3> QED BY <1>4, <3>1, <3>2
  <2> QED BY <2>1, <2>2, <2>4, OnceStays
<1>5. CASE net' = net \ {m} /\ postponed' = postponed
  <2>1. PostponedStay BY <1>5, PostponedStayWhen
  <2> QED BY <1>5, <2>1, OnceStays
<1>6. CASE net' = net \ {m} /\ postponed' = [postponed EXCEPT ![n] = Append(postponed[n], m)]
  BY <1>6, OncePostponed
<1>7. CASE net' = (net \ {m}) \cup {e} /\ postponed' = postponed BY <1>1, <1>7, OncePassed
<1> QED BY <1>3, <1>4, <1>5, <1>6, <1>7

\* Every step keeps requests apart.
LEMMA OnceStep ==
  ASSUME TypeOK, Indexes, Once, Unheard, [Next]_vars
  PROVE  Once'
<1> DEFINE Requests == \A m \in net' : m.type = "read_index" => m \in net
           Beats == \A m \in net' : IsBeat(m) =>
                      (\E l \in net : IsBeat(l) /\ l.ctx = m.ctx) \/ ~ Underway(m.ctx)'
<1>1. ASSUME PostponedStay, Requests, Beats PROVE Once' BY <1>1, OnceStays
<1>2. ASSUME NEW S, NEW t, net' = Current(net, S, t) \/ net' = net PROVE Requests /\ Beats
  BY <1>2 DEF Current
<1>3. ASSUME NEW S, Reset(S) PROVE PostponedStay BY <1>3, ResetForgets, PostponedStayWhen
<1>4. ASSUME postponed' = postponed PROVE PostponedStay BY <1>4, PostponedStayWhen
<1>5. ASSUME NEW n, NEW t, NEW l, BecomeFollower({n}, t, l) PROVE PostponedStay
  BY <1>3, <1>5 DEF BecomeFollower
<1> HIDE DEF Requests, Beats
<1>6. ASSUME NEW n \in Server, NEW Q \in SUBSET Server, NEW t \in 1 .. MaxTerm, Elect(n, Q, t)
      PROVE  Once'
  <2>1. net' = Current(net, Q, t) /\ Reset(Q) BY <1>6 DEF Elect
  <2> QED BY <1>1, <1>2, <1>3, <2>1
<1>7. ASSUME NEW n \in Server, StepDown(n) PROVE Once'
  <2>1. net' = net /\ BecomeFollower({n}, term[n], None) BY <1>7 DEF StepDown
  <2> QED BY <1>1, <1>2, <1>5, <2>1
<1>8. ASSUME NEW n \in Server, NEW Q \in SUBSET Server, Replicate(n, Q) PROVE Once'
  <2>1. net' = Current(net, Q, term[n]) /\ Reset({m \in Q : term[m] < term[n]})
    BY <1>8 DEF Replicate
  <2> QED BY <1>1, <1>2, <1>3, <2>1
<1>9. ASSUME NEW n \in Server, LearnCommit(n) \/ ProcessReady(n) PROVE Once'
  <2>1. net' = net /\ postponed' = postponed BY <1>9 DEF LearnCommit, ProcessReady
  <2> QED BY <1>1, <1>2, <1>4, <2>1
<1>10. ASSUME NEW n \in Server, Restart(n) PROVE Once'
  <2>1. net' = net /\ Reset({n}) BY <1>10 DEF Restart
  <2> QED BY <1>1, <1>2, <1>3, <2>1
<1>11. ASSUME NEW r \in Request, Expire(r) PROVE Once'
  <2>1. net' = net /\ postponed' = postponed BY <1>11 DEF Expire
  <2> QED BY <1>1, <1>2, <1>4, <2>1
<1>12. ASSUME NEW n \in Server, NEW i \in 1 .. Len(log), LeaderCommits(n, i) PROVE Once'
  <2>1. /\ net' = net \cup UNION {Heartbeats(n, m.ctx) : m \in ToSet(postponed[n])}
        /\ postponed' = [postponed EXCEPT ![n] = <<>>]
    BY <1>12 DEF LeaderCommits
  <2>2. postponed'[n] = <<>> /\ \A l \in Server : l # n => postponed'[l] = postponed[l]
    BY <2>1 DEF TypeOK
  <2>3. PostponedStay BY <2>2, PostponedStayWhen
  <2>4. \A c : \A l \in Heartbeats(n, c) : l.type = "heartbeat" /\ l.ctx = c
    BY DEF Heartbeats, Heartbeat
  <2>5. \A l \in net' : l \in net \/ \E m \in ToSet(postponed[n]) : l \in Heartbeats(n, m.ctx)
    BY <2>1
  <2>6. Requests BY <2>4, <2>5 DEF Requests
  <2>7. ASSUME NEW j \in 1 .. Len(postponed[n]), NEW c, c = postponed[n][j].ctx
        PROVE  ~ Underway(c)'
    <3>1. \A l \in net' : l.type = "read_index" => l.ctx # c BY <2>6, <2>7 DEF Once, Requests
    <3>2. ASSUME NEW l \in Server, NEW h \in 1 .. Len(postponed'[l])
          PROVE  postponed'[l][h].ctx # c
      <4>1. CASE l = n
        <5>1. Len(postponed'[l]) = 0 BY <2>2, <4>1
        <5> QED BY <5>1
      <4>2. CASE l # n BY <2>2, <2>7, <4>2 DEF Once
      <4> QED BY <4>1, <4>2
    <3> QED BY <3>1, <3>2 DEF Underway
  <2>8. Beats
    <3> SUFFICES ASSUME NEW l \in net', IsBeat(l)
                 PROVE  (\E k \in net : IsBeat(k) /\ k.ctx = l.ctx) \/ ~ Underway(l.ctx)'
      BY DEF Beats
    <3>1. CASE l \in net BY <3>1
    <3>2. CASE l \notin net
      <4>1. PICK m \in ToSet(postponed[n]) : l \in Heartbeats(n, m.ctx) BY <2>5, <3>2
      <4>2. DOMAIN postponed[n] = 1 .. Len(postponed[n]) BY LenProperties DEF TypeOK
      <4>3. PICK j \in 1 .. Len(postponed[n]) : m = postponed[n][j] BY <4>1, <4>2 DEF ToSet
      <4>4. l.ctx = postponed[n][j].ctx BY <2>4, <4>1, <4>3
      <4> QED BY <2>7, <4>4
    <3> QED BY <3>1, <3>2
  <2> QED BY <1>1, <2>3, <2>6, <2>8
<1>13. ASSUME NEW n \in Server, NEW r \in Request, RequestRead(r, n) PROVE Once'
  <2>1. ReadIndexMsg(n, n, r) \in ReadRequest BY DEF ReadIndexMsg, ReadRequest
  <2>2. /\ StepReadIndex(n, ReadIndexMsg(n, n, r)) /\ UNCHANGED <<consensus, shown>>
        /\ read[r].state = "idle"
    BY <1>13 DEF RequestRead
  <2>3. Sole(ReadIndexMsg(n, n, r)) BY <2>2, SoleRequest
  <2> QED BY <2>1, <2>2, <2>3, StepReadIndexOnce
<1>14. ASSUME NEW m \in net, HandleReadIndex(m.to, m) PROVE Once'
  <2>1. m \in ReadRequest /\ m.to \in Server /\ m.type = "read_index"
    BY <1>14 DEF HandleReadIndex, TypeOK, Message, ReadRequest, ReadAnswer, Beat
  <2>2. StepReadIndex(m.to, m) /\ UNCHANGED <<consensus, shown>> BY <1>14 DEF HandleReadIndex
  <2>3. Sole(m) BY <2>1, SoleMessage
  <2> QED BY <2>1, <2>2, <2>3, StepReadIndexOnce
<1>15. ASSUME NEW m \in net, HandleHeartbeat(m.to, m) PROVE Once'
  <2> DEFINE e == HeartbeatResponse(m.to, m.from, m.ctx, m.term)
  <2>1. e.type = "heartbeat_response" /\ e.ctx = m.ctx BY DEF HeartbeatResponse
  <2>2. net' = Current(net, {m.to}, m.term) \cup {e} /\ m.type = "heartbeat"
    BY <1>15 DEF HandleHeartbeat
  <2> HIDE DEF e
  <2>3. \A l \in net' : l \in net \/ l = e BY <2>2 DEF Current
  <2>4. Requests BY <2>1, <2>3 DEF Requests
  <2>5. IsBeat(m) BY <2>2 DEF IsBeat
  <2>6. Beats BY <2>1, <2>3, <2>5 DEF Beats
  <2>7. PostponedStay
    <3>1. CASE term[m.to] < m.term BY <1>5, <1>15, <3>1 DEF HandleHeartbeat
    <3>2. CASE ~ (term[m.to] < m.term) BY <1>4, <1>15, <3>2 DEF HandleHeartbeat
    <3> QED BY <3>1, <3>2
  <2> QED BY <1>1, <2>4, <2>6, <2>7
<1>16. ASSUME NEW m \in net, HandleHeartbeatResponse(m.to, m) PROVE Once'
  <2>1. m.to \in Server BY DEF TypeOK, Message, ReadRequest, ReadAnswer, Beat
  <2>2. PICK k \in Nat : Releases(m.to, m, k, queue[m.to], queue'[m.to])
    BY <1>16, <2>1, ReleasesFirst
  <2>3. \A l \in net' : l \in net \/ l.type = "read_index_resp" BY <2>2 DEF Releases
  <2>4. Requests BY <2>3 DEF Requests
  <2>5. Beats BY <2>3 DEF Beats, IsBeat
  <2>6. PostponedStay BY <1>4, <1>16 DEF HandleHeartbeatResponse
  <2> QED BY <1>1, <2>4, <2>5, <2>6
<1>17. ASSUME NEW m \in net, HandleReadIndexResp(m.to, m) PROVE Once'
  <2>1. CASE term[m.to] < m.term
    <3>1. net' = Current(net, {m.to}, m.term) /\ BecomeFollower({m.to}, m.term, None)
      BY <1>17, <2>1 DEF HandleReadIndexResp
    <3> QED BY <1>1, <1>2, <1>5, <3>1
  <2>2. CASE ~ (term[m.to] < m.term)
    <3>1. net' = net /\ postponed' = postponed BY <1>17, <2>2 DEF HandleReadIndexResp
    <3> QED BY <1>1, <1>2, <1>4, <3>1
  <2> QED BY <2>1, <2>2
<1>18. CASE UNCHANGED vars
  <2>1. net' = net /\ postponed' = postponed BY <1>18 DEF vars
  <2> QED BY <1>1, <1>2, <1>4, <2>1
<1> QED BY <1>6, <1>7, <1>8, <1>9, <1>10, <1>11, <1>12, <1>13, <1>14, <1>15, <1>16, <1>17, <1>18
        DEF Next

\* Somebody has heard of request r.
Heard(r) ==
  \/ Underway(r)
  \/ \E m \in net : m.ctx = r
  \/ \E n \in Server : \/ \E i \in 1 .. Len(queue[n]) : queue[n][i].ctx = r
                       \/ \E s \in states[n] : s.ctx = r

\* ... or it has been made by now.
Known(r) == Heard(r) \/ (r \in Request => read'[r].state # "idle")

\* Nobody hears of a request that is not made.
LEMMA UnheardStays ==
  ASSUME Unheard,
         \A r \in Request : read'[r].state = "idle" =>
           read[r].state = "idle" /\ (read[r].home = None => read'[r] = read[r]),
         \A m \in net' : Known(m.ctx),
         \A n \in Server : \A i \in 1 .. Len(postponed'[n]) : Known(postponed'[n][i].ctx),
         \A n \in Server : \A i \in 1 .. Len(queue'[n]) : Known(queue'[n][i].ctx),
         \A n \in Server : \A s \in states'[n] : Known(s.ctx)
  PROVE  Unheard'
<1> SUFFICES ASSUME NEW r \in Request, read'[r].state = "idle"
             PROVE  /\ read'[r].home = None /\ read'[r].ready = 0
                    /\ ~ Underway(r)'
                    /\ \A m \in net' : m.ctx # r
                    /\ \A n \in Server : /\ \A i \in 1 .. Len(queue'[n]) : queue'[n][i].ctx # r
                                         /\ \A s \in states'[n] : s.ctx # r
  BY DEF Unheard
<1>1. ~ Known(r)
  <2>1. ~ Heard(r) BY DEF Unheard, Heard
  <2> QED BY <2>1 DEF Known
<1>2. \A m \in net' : m.ctx # r BY <1>1
<1>3. \A n \in Server : \A i \in 1 .. Len(postponed'[n]) : postponed'[n][i].ctx # r BY <1>1
<1>4. \A n \in Server : \A i \in 1 .. Len(queue'[n]) : queue'[n][i].ctx # r BY <1>1
<1>5. \A n \in Server : \A s \in states'[n] : s.ctx # r BY <1>1
<1>6. read'[r].home = None /\ read'[r].ready = 0 BY DEF Unheard
<1> QED BY <1>2, <1>3, <1>4, <1>5, <1>6 DEF Underway

\* Every step keeps unmade requests unheard of.
LEMMA UnheardStep ==
  ASSUME TypeOK, Indexes, Unheard, [Next]_vars
  PROVE  Unheard'
<1> DEFINE Idle == \A r \in Request : read'[r].state = "idle" =>
                     read[r].state = "idle" /\ (read[r].home = None => read'[r] = read[r])
           OfNet == \A m \in net' : Known(m.ctx)
           OfPostponed == \A n \in Server : \A i \in 1 .. Len(postponed'[n]) : Known(postponed'[n][i].ctx)
           OfQueue == \A n \in Server : \A i \in 1 .. Len(queue'[n]) : Known(queue'[n][i].ctx)
           OfStates == \A n \in Server : \A s \in states'[n] : Known(s.ctx)
<1>1. ASSUME Idle, OfNet, OfPostponed, OfQueue, OfStates PROVE Unheard' BY <1>1, UnheardStays
<1>2. /\ \A m \in net : Known(m.ctx)
      /\ \A n \in Server : \A i \in 1 .. Len(postponed[n]) : Known(postponed[n][i].ctx)
      /\ \A n \in Server : \A i \in 1 .. Len(queue[n]) : Known(queue[n][i].ctx)
      /\ \A n \in Server : \A s \in states[n] : Known(s.ctx)
  BY DEF Known, Heard, Underway
<1>3. ASSUME NEW S, NEW t, net' = Current(net, S, t) \/ net' = net PROVE OfNet
  BY <1>2, <1>3 DEF Current
<1>4. ASSUME PostponedStay PROVE OfPostponed BY <1>2, <1>4 DEF PostponedStay
<1>5. ASSUME \A n \in Server : queue'[n] = queue[n] \/ queue'[n] = <<>> PROVE OfQueue
  <2> SUFFICES ASSUME NEW n \in Server, NEW i \in 1 .. Len(queue'[n]) PROVE Known(queue'[n][i].ctx)
    OBVIOUS
  <2>1. CASE queue'[n] = queue[n] BY <1>2, <2>1
  <2>2. CASE queue'[n] = <<>>
    <3>1. Len(queue'[n]) = 0 BY <2>2
    <3> QED BY <3>1
  <2> QED BY <1>5, <2>1, <2>2
<1>6. ASSUME \A n \in Server : states'[n] = states[n] \/ states'[n] = {} PROVE OfStates BY <1>2, <1>6
<1>7. ASSUME ReadsKept PROVE Idle BY <1>7 DEF ReadsKept
<1>8. ASSUME NEW S, Reset(S) PROVE OfPostponed /\ OfQueue
  <2>1. PostponedStay BY <1>8, ResetForgets, PostponedStayWhen
  <2>2. OfQueue BY <1>5, <1>8, ResetForgets
  <2> QED BY <1>4, <2>1, <2>2
<1>9. ASSUME NEW S, NEW t, NEW l, BecomeFollower(S, t, l) PROVE OfPostponed /\ OfQueue
  BY <1>8, <1>9 DEF BecomeFollower
<1>10. ASSUME postponed' = postponed PROVE OfPostponed BY <1>2, <1>10
<1>11. ASSUME queue' = queue PROVE OfQueue BY <1>5, <1>11
<1>12. ASSUME states' = states PROVE OfStates BY <1>6, <1>12
<1>13. ASSUME NEW n \in Server, NEW i, NEW ms, ServesAll(n, i, ms),
              \A j \in 1 .. Len(ms) : Known(ms[j].ctx)
       PROVE  OfQueue
  <2> SUFFICES ASSUME NEW l \in Server, NEW j \in 1 .. Len(queue'[l]) PROVE Known(queue'[l][j].ctx)
    OBVIOUS
  <2>1. CASE l # n BY <1>2, <1>13, <2>1 DEF ServesAll
  <2>2. CASE l = n
    <3>1. Serves(n, i, ms, Len(ms), queue[n], queue'[n]) BY <1>13 DEF ServesAll
    <3>2. Len(queue[n]) \in Nat /\ queue'[n] \in Seq(Status) BY <3>1, LenProperties DEF TypeOK, Serves
    <3>3. Len(queue'[n]) \in Nat BY <3>2, LenProperties
    <3>4. CASE j <= Len(queue[n])
      <4>1. j \in 1 .. Len(queue[n]) BY <2>2, <3>2, <3>3, <3>4
      <4>2. queue'[n][j] = queue[n][j] BY <3>1, <4>1 DEF Serves
      <4> QED BY <1>2, <2>2, <4>1, <4>2
    <3>5. CASE ~ (j <= Len(queue[n]))
      <4>1. j \in 1 .. Len(queue'[n]) /\ j > Len(queue[n]) BY <2>2, <3>2, <3>3, <3>5
      <4>2. PICK h \in 1 .. Len(ms) : Served(n, i, ms[h], queue'[n][j]) BY <3>1, <4>1 DEF Serves
      <4>3. queue'[n][j].ctx = ms[h].ctx BY <4>2 DEF Served
      <4> QED BY <1>13, <2>2, <4>2, <4>3
    <3> QED BY <3>4, <3>5
  <2> QED BY <2>1, <2>2
<1>14. ASSUME NEW n \in Server, NEW m \in ReadRequest, StepReadIndex(n, m), Known(m.ctx),
              UNCHANGED <<consensus, shown>>
       PROVE  OfNet /\ OfPostponed /\ OfQueue
  <2> DEFINE e == [m EXCEPT !.to = lead[n]]
  <2>1. e.ctx = m.ctx BY DEF ReadRequest
  <2>2. \A l \in Heartbeats(n, m.ctx) : l.ctx = m.ctx BY DEF Heartbeats, Heartbeat
  <2>3. /\ net' \in {(net \ {m}) \cup Heartbeats(n, m.ctx), net \ {m}, (net \ {m}) \cup {e}}
        /\ postponed' \in {postponed, [postponed EXCEPT ![n] = Append(postponed[n], m)]}
        /\ queue' = queue \/ ServesAll(n, commit[n], <<m>>)
    BY <1>14, StepReadIndexCases
  <2> HIDE DEF e
  <2>4. OfNet
    <3>1. \A l \in net' : l \in net \/ l.ctx = m.ctx BY <2>1, <2>2, <2>3
    <3> QED BY <1>2, <1>14, <3>1
  <2>5. OfPostponed
    <3>1. CASE postponed' = postponed BY <1>10, <3>1
    <3>2. CASE postponed' = [postponed EXCEPT ![n] = Append(postponed[n], m)]
      <4>1. postponed[n] \in Seq(ReadRequest) /\ Len(postponed[n]) \in Nat BY LenProperties DEF TypeOK
      <4>2. postponed'[n] = Append(postponed[n], m) /\ \A l \in Server : l # n => postponed'[l] = postponed[l]
        BY <3>2 DEF TypeOK
      <4>3. /\ Len(postponed'[n]) = Len(postponed[n]) + 1 /\ postponed'[n][Len(postponed[n]) + 1] = m
            /\ \A i \in 1 .. Len(postponed[n]) : postponed'[n][i] = postponed[n][i]
        BY <4>1, <4>2, AppendProperties
      <4>4. ASSUME NEW l \in Server, NEW i \in 1 .. Len(postponed'[l]) PROVE Known(postponed'[l][i].ctx)
        <5>1. CASE l # n BY <1>2, <4>2, <5>1
        <5>2. CASE l = n
          <6>1. i \in 1 .. Len(postponed[n]) \/ i = Len(postponed[n]) + 1 BY <4>1, <4>3, <5>2
          <6> QED BY <1>2, <1>14, <4>3, <5>2, <6>1
        <5> QED BY <5>1, <5>2
      <4> QED BY <4>4
    <3> QED BY <2>3, <3>1, <3>2
  <2>6. OfQueue
    <3>1. CASE queue' = queue BY <1>11, <3>1
    <3>2. CASE ServesAll(n, commit[n], <<m>>)
      <4> DEFINE ms == <<m>>
      <4>1. Len(ms) = 1 /\ ms[1] = m /\ ServesAll(n, commit[n], ms) BY <3>2
      <4> HIDE DEF ms
      <4>2. \A j \in 1 .. Len(ms) : Known(ms[j].ctx) BY <1>14, <4>1
      <4> QED BY <1>13, <4>1, <4>2
    <3> QED BY <2>3, <3>1, <3>2
  <2> QED BY <2>4, <2>5, <2>6
<1> HIDE DEF Idle, OfNet, OfPostponed, OfQueue, OfStates
<1>15. ASSUME NEW n \in Server, NEW Q \in SUBSET Server, NEW t \in 1 .. MaxTerm, Elect(n, Q, t)
       PROVE  Unheard'
  <2>1. ReadsKept BY <1>15, ReadsKeptWhen DEF Elect
  <2>2. OfNet /\ OfPostponed /\ OfQueue /\ OfStates BY <1>3, <1>8, <1>12, <1>15 DEF Elect
  <2> QED BY <1>1, <1>7, <2>1, <2>2
<1>16. ASSUME NEW n \in Server, StepDown(n) PROVE Unheard'
  <2>1. ReadsKept BY <1>16, ReadsKeptWhen DEF StepDown
  <2>2. OfNet /\ OfPostponed /\ OfQueue /\ OfStates BY <1>3, <1>9, <1>12, <1>16 DEF StepDown
  <2> QED BY <1>1, <1>7, <2>1, <2>2
<1>17. ASSUME NEW n \in Server, NEW Q \in SUBSET Server, Replicate(n, Q) PROVE Unheard'
  <2>1. ReadsKept BY <1>17, ReadsKeptWhen DEF Replicate
  <2>2. OfNet /\ OfPostponed /\ OfQueue /\ OfStates BY <1>3, <1>8, <1>12, <1>17 DEF Replicate
  <2> QED BY <1>1, <1>7, <2>1, <2>2
<1>18. ASSUME NEW n \in Server, LearnCommit(n) PROVE Unheard'
  <2>1. ReadsKept BY <1>18, ReadsKeptWhen DEF LearnCommit
  <2>2. OfNet /\ OfPostponed /\ OfQueue /\ OfStates
    BY <1>3, <1>10, <1>11, <1>12, <1>18 DEF LearnCommit
  <2> QED BY <1>1, <1>7, <2>1, <2>2
<1>19. ASSUME NEW n \in Server, Restart(n) PROVE Unheard'
  <2>1. ReadsKept BY <1>19, ReadsKeptWhen
  <2>2. states' = [states EXCEPT ![n] = {}] BY <1>19 DEF Restart
  <2>3. \A l \in Server : states'[l] = states[l] \/ states'[l] = {} BY <2>2 DEF TypeOK
  <2>4. OfNet /\ OfPostponed /\ OfQueue BY <1>3, <1>8, <1>19 DEF Restart
  <2> QED BY <1>1, <1>6, <1>7, <2>1, <2>3, <2>4
<1>20. ASSUME NEW n \in Server, ProcessReady(n) PROVE Unheard'
  <2>1. ReadsKept BY <1>20, ReadsKeptWhen
  <2>2. states' = [states EXCEPT ![n] = {}] BY <1>20 DEF ProcessReady
  <2>3. \A l \in Server : states'[l] = states[l] \/ states'[l] = {} BY <2>2 DEF TypeOK
  <2>4. OfNet /\ OfPostponed /\ OfQueue BY <1>3, <1>10, <1>11, <1>20 DEF ProcessReady
  <2> QED BY <1>1, <1>6, <1>7, <2>1, <2>3, <2>4
<1>21. ASSUME NEW r \in Request, Expire(r) PROVE Unheard'
  <2>1. ReadsKept BY <1>21, ReadsKeptWhen
  <2>2. OfNet /\ OfPostponed /\ OfQueue /\ OfStates
    BY <1>3, <1>10, <1>11, <1>12, <1>21 DEF Expire
  <2> QED BY <1>1, <1>7, <2>1, <2>2
<1>22. ASSUME NEW n \in Server, NEW i \in 1 .. Len(log), LeaderCommits(n, i) PROVE Unheard'
  <2>1. ReadsKept BY <1>22, ReadsKeptWhen DEF LeaderCommits
  <2>2. /\ net' = net \cup UNION {Heartbeats(n, m.ctx) : m \in ToSet(postponed[n])}
        /\ postponed' = [postponed EXCEPT ![n] = <<>>]
    BY <1>22 DEF LeaderCommits
  <2>3. \A l \in Server : postponed'[l] = postponed[l] \/ postponed'[l] = <<>> BY <2>2 DEF TypeOK
  <2>4. OfPostponed BY <1>4, <2>3, PostponedStayWhen
  <2>5. OfQueue BY <1>2, <1>13, <1>22, LeaderCommitsServes
  <2>6. OfNet
    <3>1. \A c : \A l \in Heartbeats(n, c) : l.ctx = c BY DEF Heartbeats, Heartbeat
    <3>2. \A l \in net' : l \in net \/ \E m \in ToSet(postponed[n]) : l \in Heartbeats(n, m.ctx)
      BY <2>2
    <3>3. DOMAIN postponed[n] = 1 .. Len(postponed[n]) BY LenProperties DEF TypeOK
    <3>4. \A m \in ToSet(postponed[n]) : \E j \in 1 .. Len(postponed[n]) : m = postponed[n][j]
      BY <3>3 DEF ToSet
    <3>5. \A m \in ToSet(postponed[n]) : Known(m.ctx) BY <1>2, <3>4
    <3> QED BY <1>2, <3>1, <3>2, <3>5 DEF OfNet
  <2>7. OfStates BY <1>12, <1>22 DEF LeaderCommits
  <2> QED BY <1>1, <1>7, <2>1, <2>4, <2>5, <2>6, <2>7
<1>23. ASSUME NEW n \in Server, NEW r \in Request, RequestRead(r, n) PROVE Unheard'
  <2> DEFINE m == ReadIndexMsg(n, n, r)
  <2>1. m \in ReadRequest /\ m.ctx = r BY DEF ReadIndexMsg, ReadRequest
  <2>2. /\ read[r].state = "idle" /\ read'[r].state = "pending"
        /\ \A u \in Request : u # r => read'[u] = read[u]
    BY <1>23, ReadRequested
  <2>3. Idle BY <2>2 DEF Idle
  <2>4. Known(m.ctx) BY <2>1, <2>2 DEF Known
  <2>5. StepReadIndex(n, m) /\ UNCHANGED <<consensus, shown>> /\ states' = states
    BY <1>23 DEF RequestRead
  <2> HIDE DEF m
  <2> QED BY <1>1, <1>12, <1>14, <2>1, <2>3, <2>4, <2>5
<1>24. ASSUME NEW m \in net, HandleReadIndex(m.to, m) PROVE Unheard'
  <2>1. m \in ReadRequest /\ m.to \in Server
    BY <1>24 DEF HandleReadIndex, TypeOK, Message, ReadRequest, ReadAnswer, Beat
  <2>2. StepReadIndex(m.to, m) /\ UNCHANGED <<consensus, shown>> /\ states' = states /\ read' = read
    BY <1>24 DEF HandleReadIndex
  <2>3. Known(m.ctx) BY <1>2
  <2>4. ReadsKept BY <2>2, ReadsKeptWhen
  <2> QED BY <1>1, <1>7, <1>12, <1>14, <2>1, <2>2, <2>3, <2>4
<1>25. ASSUME NEW m \in net, HandleHeartbeat(m.to, m) PROVE Unheard'
  <2> DEFINE e == HeartbeatResponse(m.to, m.from, m.ctx, m.term)
  <2>1. e.ctx = m.ctx BY DEF HeartbeatResponse
  <2>2. net' = Current(net, {m.to}, m.term) \cup {e} /\ states' = states BY <1>25 DEF HandleHeartbeat
  <2> HIDE DEF e
  <2>3. \A l \in net' : l \in net \/ l = e BY <2>2 DEF Current
  <2>4. OfNet BY <1>2, <2>1, <2>3 DEF OfNet
  <2>5. OfPostponed /\ OfQueue
    <3>1. CASE term[m.to] < m.term BY <1>9, <1>25, <3>1 DEF HandleHeartbeat
    <3>2. CASE ~ (term[m.to] < m.term) BY <1>10, <1>11, <1>25, <3>2 DEF HandleHeartbeat
    <3> QED BY <3>1, <3>2
  <2>6. ReadsKept BY <1>25, ReadsKeptWhen DEF HandleHeartbeat
  <2> QED BY <1>1, <1>7, <1>12, <2>2, <2>4, <2>5, <2>6
<1>26. ASSUME NEW m \in net, HandleHeartbeatResponse(m.to, m) PROVE Unheard'
  <2>1. m.to \in Server BY DEF TypeOK, Message, ReadRequest, ReadAnswer, Beat
  <2>2. PICK k \in Nat : Releases(m.to, m, k, queue[m.to], queue'[m.to])
    BY <1>26, <2>1, ReleasesFirst
  <2>3. \A l \in Server : l # m.to => queue'[l] = queue[l] /\ states'[l] = states[l]
    BY <1>26, <2>1, ReleasesFirst
  <2> DEFINE q == queue[m.to]
             q2 == queue'[m.to]
  <2>4. Len(q) \in Nat /\ k \in 0 .. Len(q) /\ Len(q2) = Len(q) - k
    BY <2>1, <2>2, LenProperties DEF TypeOK, Releases
  <2>5. \A j \in 1 .. Len(q) : Known(q[j].ctx) BY <1>2, <2>1
  <2>6. \A j \in 1 .. Len(q2) : q2[j].ctx = q[j + k].ctx BY <2>2 DEF Releases
  <2>7. /\ \A s \in states'[m.to] : s \in states[m.to] \/ \E j \in 1 .. k : s.ctx = q[j].ctx
        /\ \A l \in net' : l \in net \/ \E j \in 1 .. k : l.ctx = q[j].ctx
    BY <2>2 DEF Releases
  <2> HIDE DEF q, q2
  <2>8. \A j \in 1 .. k : Known(q[j].ctx) BY <2>4, <2>5
  <2>9. \A j \in 1 .. Len(q2) : Known(q2[j].ctx)
    <3> SUFFICES ASSUME NEW j \in 1 .. Len(q2) PROVE Known(q2[j].ctx) OBVIOUS
    <3>1. j + k \in 1 .. Len(q) BY <2>4
    <3> QED BY <2>5, <2>6, <3>1
  <2>10. OfQueue BY <1>2, <2>3, <2>9 DEF OfQueue, q2
  <2>11. OfStates BY <1>2, <2>1, <2>3, <2>7, <2>8 DEF OfStates
  <2>12. OfNet BY <1>2, <2>7, <2>8 DEF OfNet
  <2>13. OfPostponed BY <1>10, <1>26 DEF HandleHeartbeatResponse
  <2>14. ReadsKept BY <1>26, ReadsKeptWhen DEF HandleHeartbeatResponse
  <2> QED BY <1>1, <1>7, <2>10, <2>11, <2>12, <2>13, <2>14
<1>27. ASSUME NEW m \in net, HandleReadIndexResp(m.to, m) PROVE Unheard'
  <2>1. ReadsKept BY <1>27, ReadsKeptWhen DEF HandleReadIndexResp
  <2>2. CASE term[m.to] < m.term
    <3>1. OfNet /\ OfPostponed /\ OfQueue /\ OfStates
      BY <1>3, <1>9, <1>12, <1>27, <2>2 DEF HandleReadIndexResp
    <3> QED BY <1>1, <1>7, <2>1, <3>1
  <2>3. CASE ~ (term[m.to] < m.term)
    <3>1. OfNet /\ OfPostponed /\ OfQueue
      BY <1>3, <1>10, <1>11, <1>27, <2>3 DEF HandleReadIndexResp
    <3> DEFINE e == [ctx |-> m.ctx, index |-> m.index]
    <3>2. e.ctx = m.ctx OBVIOUS
    <3>3. states' = [states EXCEPT ![m.to] = states[m.to] \cup {e}]
      BY <1>27, <2>3 DEF HandleReadIndexResp
    <3> HIDE DEF e
    <3>4. \A l \in Server : \A s \in states'[l] : s \in states[l] \/ s = e BY <3>3 DEF TypeOK
    <3>5. OfStates BY <1>2, <3>2, <3>4 DEF OfStates
    <3> QED BY <1>1, <1>7, <2>1, <3>1, <3>5
  <2> QED BY <2>2, <2>3
<1>28. CASE UNCHANGED vars
  <2>1. ReadsKept BY <1>28, ReadsKeptWhen DEF vars
  <2>2. OfNet /\ OfPostponed /\ OfQueue /\ OfStates BY <1>3, <1>10, <1>11, <1>12, <1>28 DEF vars
  <2> QED BY <1>1, <1>7, <2>1, <2>2
<1> QED BY <1>15, <1>16, <1>17, <1>18, <1>19, <1>20, <1>21, <1>22, <1>23, <1>24, <1>25, <1>26, <1>27,
           <1>28 DEF Next

-----------------------------------------------------------------------------
(***************************************************************************)
(* What was released.                                                      *)
(***************************************************************************)
\* A read that waits or succeeded is as new as it needs to be.
NewEnough(d) ==
  /\ d.ready # 0 => d.ready >= d.need
  /\ d.state = "ok" => d.seen >= d.need

\* Every step releases only what is new enough.
LEMMA ReleasedStep ==
  ASSUME TypeOK, TypeOK', Indexes, Confirmed, Unheard, Released, [Next]_vars
  PROVE  Released'
<1>1. /\ \A n \in Server : \A s \in states[n] : s.index >= read[s.ctx].need
      /\ \A m \in net : m.type = "read_index_resp" => m.index >= read[m.ctx].need
      /\ \A r \in Request : read[r].need <= shown /\ NewEnough(read[r])
  BY DEF Released, NewEnough
<1>2. /\ \A r \in Request : /\ read[r].need \in Nat /\ read'[r].need \in Nat /\ read[r].ready \in Nat
                            /\ read[r] \in Read
      /\ shown \in Nat /\ shown' \in Nat
  BY DEF TypeOK, Read
<1>3. /\ \A n \in Server : \A s \in states'[n] : s.ctx \in Request /\ s.index \in Nat
      /\ \A m \in net' : m.type = "read_index_resp" => m.ctx \in Request /\ m.index \in Nat
  <2>1. \A n \in Server : \A s \in states'[n] : s.ctx \in Request /\ s.index \in Nat
    BY DEF TypeOK, ReadState
  <2>2. \A m \in net' : m.type = "read_index_resp" => m.ctx \in Request /\ m.index \in Nat
    BY DEF TypeOK, Message, ReadRequest, ReadAnswer, Beat
  <2> QED BY <2>1, <2>2
<1> DEFINE OfStates == \A n \in Server : \A s \in states'[n] : s.index >= read[s.ctx].need
           OfNet == \A m \in net' : m.type = "read_index_resp" => m.index >= read[m.ctx].need
           OfReads == \A r \in Request : NewEnough(read'[r])
<1>4. ASSUME ReadsKept, shown <= shown', OfStates, OfNet, OfReads PROVE Released'
  <2>1. \A r \in Request : read'[r].need <= shown'
    <3> SUFFICES ASSUME NEW r \in Request PROVE read'[r].need <= shown' OBVIOUS
    <3>1. read'[r].need <= read[r].need /\ read[r].need <= shown BY <1>1, <1>4 DEF ReadsKept
    <3> QED BY <1>2, <1>4, <3>1
  <2>2. ASSUME NEW n \in Server, NEW s \in states'[n] PROVE s.index >= read'[s.ctx].need
    <3>1. s.index >= read[s.ctx].need BY <1>4
    <3>2. read'[s.ctx].need <= read[s.ctx].need BY <1>3, <1>4 DEF ReadsKept
    <3>3. s.index \in Nat /\ read[s.ctx].need \in Nat /\ read'[s.ctx].need \in Nat BY <1>2, <1>3
    <3> QED BY <3>1, <3>2, <3>3
  <2>3. ASSUME NEW m \in net', m.type = "read_index_resp" PROVE m.index >= read'[m.ctx].need
    <3>1. m.index >= read[m.ctx].need BY <1>4, <2>3
    <3>2. read'[m.ctx].need <= read[m.ctx].need BY <1>3, <1>4, <2>3 DEF ReadsKept
    <3>3. m.index \in Nat /\ read[m.ctx].need \in Nat /\ read'[m.ctx].need \in Nat BY <1>2, <1>3, <2>3
    <3> QED BY <3>1, <3>2, <3>3
  <2> QED BY <1>4, <2>1, <2>2, <2>3 DEF Released, NewEnough
<1>5. ASSUME NEW S, NEW t, net' = Current(net, S, t) \/ net' = net PROVE OfNet
  BY <1>1, <1>5 DEF Current
<1>6. ASSUME \A n \in Server : states'[n] = states[n] \/ states'[n] = {} PROVE OfStates BY <1>1, <1>6
<1>7. ASSUME states' = states PROVE OfStates BY <1>6, <1>7
<1>8. ASSUME read' = read PROVE OfReads /\ ReadsKept BY <1>1, <1>8, ReadsKeptWhen
<1>9. ASSUME shown' = shown PROVE shown <= shown' BY <1>2, <1>9
<1>10. NewEnough(Failed) BY DEF NewEnough, Failed, Untracked
<1>11. ASSUME NEW n \in Server, NEW m \in ReadRequest, StepReadIndex(n, m),
              UNCHANGED <<consensus, shown>>
       PROVE  \A l \in net' : l.type = "read_index_resp" => l \in net
  <2> DEFINE e == [m EXCEPT !.to = lead[n]]
  <2>1. e.type = "read_index" BY DEF ReadRequest
  <2>2. \A l \in Heartbeats(n, m.ctx) : l.type = "heartbeat" BY DEF Heartbeats, Heartbeat
  <2>3. net' \in {(net \ {m}) \cup Heartbeats(n, m.ctx), net \ {m}, (net \ {m}) \cup {e}}
    BY <1>11, StepReadIndexCases
  <2> HIDE DEF e
  <2> QED BY <2>1, <2>2, <2>3
<1> HIDE DEF OfStates, OfNet, OfReads
<1>12. ASSUME NEW n \in Server, NEW Q \in SUBSET Server, NEW t \in 1 .. MaxTerm, Elect(n, Q, t)
       PROVE  Released'
  BY <1>4, <1>5, <1>7, <1>8, <1>9, <1>12 DEF Elect
<1>13. ASSUME NEW n \in Server, StepDown(n) PROVE Released'
  BY <1>4, <1>5, <1>7, <1>8, <1>9, <1>13 DEF StepDown
<1>14. ASSUME NEW n \in Server, NEW Q \in SUBSET Server, Replicate(n, Q) PROVE Released'
  BY <1>4, <1>5, <1>7, <1>8, <1>9, <1>14 DEF Replicate
<1>15. ASSUME NEW n \in Server, LearnCommit(n) PROVE Released'
  BY <1>4, <1>5, <1>7, <1>8, <1>9, <1>15 DEF LearnCommit
<1>16. ASSUME NEW n \in Server, Restart(n) PROVE Released'
  <2>1. ReadsKept BY <1>16, ReadsKeptWhen
  <2>2. states' = [states EXCEPT ![n] = {}] /\ net' = net /\ shown' = shown BY <1>16 DEF Restart
  <2>3. \A l \in Server : states'[l] = states[l] \/ states'[l] = {} BY <2>2 DEF TypeOK
  <2>4. \A r \in Request : read'[r] = Failed \/ read'[r] = read[r] BY <1>16 DEF Restart
  <2>5. OfReads BY <1>1, <1>10, <2>4 DEF OfReads
  <2> QED BY <1>4, <1>5, <1>6, <1>9, <2>1, <2>2, <2>3, <2>5
<1>17. ASSUME NEW r \in Request, Expire(r) PROVE Released'
  <2>1. ReadsKept BY <1>17, ReadsKeptWhen
  <2>2. UNCHANGED <<states, net, shown>> BY <1>17 DEF Expire
  <2>3. \A u \in Request : read'[u] = Failed \/ read'[u] = read[u] BY <1>17 DEF Expire, TypeOK
  <2>4. OfReads BY <1>1, <1>10, <2>3 DEF OfReads
  <2> QED BY <1>4, <1>5, <1>7, <1>9, <2>1, <2>2, <2>4
<1>18. ASSUME NEW n \in Server, ProcessReady(n) PROVE Released'
  <2>1. ReadsKept BY <1>18, ReadsKeptWhen
  <2>2. /\ states' = [states EXCEPT ![n] = {}] /\ net' = net /\ shown' = Max({shown, commit[n]})
    BY <1>18 DEF ProcessReady
  <2>3. \A l \in Server : states'[l] = states[l] \/ states'[l] = {} BY <2>2 DEF TypeOK
  <2>4. shown <= shown'
    <3>1. commit[n] \in Nat BY DEF TypeOK
    <3>2. {shown, commit[n]} \in SUBSET (0 .. (shown + commit[n])) /\ shown + commit[n] \in Nat
      BY <1>2, <3>1
    <3> QED BY <2>2, <3>2, MaxIsElement
  <2>5. ASSUME NEW r \in Request PROVE NewEnough(read'[r])
    <3> DEFINE x == Marked(r, n)
               a == Untracked("ok", read[r].need, read[r].ready)
               b == Untracked("ok", read[r].need, commit[n])
               c == [read[r] EXCEPT !.ready = x]
    <3>1. x \in Nat /\ (x # 0 => x >= read[r].need)
      <4>1. /\ x \in Nat
            /\ \/ x = read[r].ready
               \/ \E s \in states[n] : s.ctx = r /\ x = s.index
        BY MarkedIs
      <4> HIDE DEF x
      <4> QED BY <1>1, <4>1 DEF NewEnough
    <3>2. commit[n] \in Nat /\ read[r].need \in Nat /\ read[r].ready \in Nat BY <1>2 DEF TypeOK
    <3>3. IsReady(read[r].ready, commit[n]) => NewEnough(a)
      BY <1>1 DEF IsReady, NewEnough, Untracked
    <3>4. IsReady(x, commit[n]) => NewEnough(b)
      <4>1. b.ready = 0 /\ b.seen = commit[n] /\ b.need = read[r].need BY DEF Untracked
      <4> HIDE DEF x, b
      <4>2. IsReady(x, commit[n]) => commit[n] >= read[r].need BY <3>1, <3>2 DEF IsReady
      <4> QED BY <4>1, <4>2 DEF NewEnough
    <3>5. NewEnough(c)
      <4>1. c.ready = x /\ c.need = read[r].need /\ c.state = read[r].state /\ c.seen = read[r].seen
        BY <1>2 DEF Read
      <4>2. read[r].state = "ok" => read[r].seen >= read[r].need BY <1>1 DEF NewEnough
      <4> HIDE DEF x, c
      <4> QED BY <3>1, <4>1, <4>2 DEF NewEnough
    <3>6. \/ read'[r] \in {Failed, read[r], c}
          \/ IsReady(read[r].ready, commit[n]) /\ read'[r] = a
          \/ IsReady(x, commit[n]) /\ read'[r] = b
      BY <1>18 DEF ProcessReady
    <3> HIDE DEF x, a, b, c
    <3> QED BY <1>1, <1>10, <3>3, <3>4, <3>5, <3>6
  <2>6. OfReads BY <2>5 DEF OfReads
  <2> QED BY <1>4, <1>5, <1>6, <2>1, <2>2, <2>3, <2>4, <2>6
<1>19. ASSUME NEW n \in Server, NEW i \in 1 .. Len(log), LeaderCommits(n, i) PROVE Released'
  <2>1. /\ UNCHANGED <<states, read, shown>>
        /\ net' = net \cup UNION {Heartbeats(n, m.ctx) : m \in ToSet(postponed[n])}
    BY <1>19 DEF LeaderCommits
  <2>2. OfNet
    <3>1. \A c : \A l \in Heartbeats(n, c) : l.type = "heartbeat" BY DEF Heartbeats, Heartbeat
    <3>2. \A l \in net' : l \in net \/ \E m \in ToSet(postponed[n]) : l \in Heartbeats(n, m.ctx)
      BY <2>1
    <3> QED BY <1>1, <3>1, <3>2 DEF OfNet
  <2> QED BY <1>4, <1>7, <1>8, <1>9, <2>1, <2>2
<1>20. ASSUME NEW n \in Server, NEW r \in Request, RequestRead(r, n) PROVE Released'
  <2> DEFINE m == ReadIndexMsg(n, n, r)
  <2>1. m \in ReadRequest BY DEF ReadIndexMsg, ReadRequest
  <2>2. /\ read[r].state = "idle" /\ read'[r].state = "pending" /\ read'[r].need = shown
        /\ read'[r].ready = read[r].ready
        /\ \A u \in Request : u # r => read'[u] = read[u]
    BY <1>20, ReadRequested
  <2>3. StepReadIndex(n, m) /\ UNCHANGED <<consensus, shown>> /\ states' = states
    BY <1>20 DEF RequestRead
  <2> HIDE DEF m
  <2>4. \A l \in net' : l.type = "read_index_resp" => l \in net BY <1>11, <2>1, <2>3
  <2>5. /\ \A l \in net : l.ctx # r
        /\ \A l \in Server : \A s \in states[l] : s.ctx # r
    BY <2>2 DEF Unheard
  <2>6. ASSUME NEW l \in Server, NEW s \in states'[l] PROVE s.index >= read'[s.ctx].need
    <3>1. s \in states[l] /\ s.ctx # r /\ s.ctx \in Request BY <1>3, <2>3, <2>5
    <3> QED BY <1>1, <2>2, <3>1
  <2>7. ASSUME NEW l \in net', l.type = "read_index_resp" PROVE l.index >= read'[l.ctx].need
    <3>1. l \in net /\ l.ctx # r /\ l.ctx \in Request BY <1>3, <2>4, <2>5, <2>7
    <3> QED BY <1>1, <2>2, <2>7, <3>1
  <2>8. ASSUME NEW u \in Request PROVE read'[u].need <= shown' /\ NewEnough(read'[u])
    <3>1. CASE u # r BY <1>1, <2>2, <2>3, <3>1
    <3>2. CASE u = r
      <4>1. read'[u].need <= shown' BY <1>2, <2>2, <2>3, <3>2
      <4>2. read[r].ready = 0 BY <2>2 DEF Unheard
      <4> QED BY <2>2, <3>2, <4>1, <4>2 DEF NewEnough
    <3> QED BY <3>1, <3>2
  <2> QED BY <2>6, <2>7, <2>8 DEF Released, NewEnough
<1>21. ASSUME NEW m \in net, HandleReadIndex(m.to, m) PROVE Released'
  <2>1. m \in ReadRequest /\ m.to \in Server
    BY <1>21 DEF HandleReadIndex, TypeOK, Message, ReadRequest, ReadAnswer, Beat
  <2>2. /\ StepReadIndex(m.to, m) /\ UNCHANGED <<consensus, shown>>
        /\ UNCHANGED <<states, read, shown>>
    BY <1>21 DEF HandleReadIndex
  <2>3. OfNet BY <1>1, <1>11, <2>1, <2>2 DEF OfNet
  <2> QED BY <1>4, <1>7, <1>8, <1>9, <2>2, <2>3
<1>22. ASSUME NEW m \in net, HandleHeartbeat(m.to, m) PROVE Released'
  <2>1. UNCHANGED <<states, read, shown>> BY <1>22 DEF HandleHeartbeat
  <2>2. OfNet
    <3> DEFINE e == HeartbeatResponse(m.to, m.from, m.ctx, m.term)
    <3>1. e.type = "heartbeat_response" BY DEF HeartbeatResponse
    <3>2. net' = Current(net, {m.to}, m.term) \cup {e} BY <1>22 DEF HandleHeartbeat
    <3> HIDE DEF e
    <3> QED BY <1>1, <3>1, <3>2 DEF OfNet, Current
  <2> QED BY <1>4, <1>7, <1>8, <1>9, <2>1, <2>2
<1>23. ASSUME NEW m \in net, HandleHeartbeatResponse(m.to, m) PROVE Released'
  <2>1. m.to \in Server BY DEF TypeOK, Message, ReadRequest, ReadAnswer, Beat
  <2>2. PICK k \in Nat : Releases(m.to, m, k, queue[m.to], queue'[m.to])
    BY <1>23, <2>1, ReleasesFirst
  <2>3. \A l \in Server : l # m.to => states'[l] = states[l] BY <1>23, <2>1, ReleasesFirst
  <2> DEFINE q == queue[m.to]
  <2>4. \A j \in 1 .. k : q[j].index >= read[q[j].ctx].need BY <1>23, <2>1, <2>2, ReleasedAreNew
  <2>5. /\ \A s \in states'[m.to] :
             s \in states[m.to] \/ \E j \in 1 .. k : s.ctx = q[j].ctx /\ s.index = q[j].index
        /\ \A l \in net' :
             l \in net \/ \E j \in 1 .. k : l.ctx = q[j].ctx /\ l.index = q[j].index
    BY <2>2 DEF Releases
  <2> HIDE DEF q
  <2>6. \A s \in states'[m.to] : s.index >= read[s.ctx].need BY <1>1, <2>1, <2>4, <2>5
  <2>7. OfStates BY <1>1, <2>3, <2>6 DEF OfStates
  <2>8. OfNet BY <1>1, <2>4, <2>5 DEF OfNet
  <2>9. UNCHANGED <<read, shown>> BY <1>23 DEF HandleHeartbeatResponse
  <2> QED BY <1>4, <1>8, <1>9, <2>7, <2>8, <2>9
<1>24. ASSUME NEW m \in net, HandleReadIndexResp(m.to, m) PROVE Released'
  <2>1. UNCHANGED <<read, shown>> /\ m.type = "read_index_resp" BY <1>24 DEF HandleReadIndexResp
  <2>2. CASE term[m.to] < m.term
    <3>1. OfNet /\ OfStates BY <1>5, <1>7, <1>24, <2>2 DEF HandleReadIndexResp
    <3> QED BY <1>4, <1>8, <1>9, <2>1, <3>1
  <2>3. CASE ~ (term[m.to] < m.term)
    <3> DEFINE e == [ctx |-> m.ctx, index |-> m.index]
    <3>1. e.ctx = m.ctx /\ e.index = m.index OBVIOUS
    <3>2. states' = [states EXCEPT ![m.to] = states[m.to] \cup {e}] /\ net' = net
      BY <1>24, <2>3 DEF HandleReadIndexResp
    <3> HIDE DEF e
    <3>3. \A l \in Server : \A s \in states'[l] : s \in states[l] \/ s = e BY <3>2 DEF TypeOK
    <3>4. e.index >= read[e.ctx].need BY <1>1, <2>1, <3>1
    <3>5. OfStates BY <1>1, <3>3, <3>4 DEF OfStates
    <3> QED BY <1>4, <1>5, <1>8, <1>9, <2>1, <3>2, <3>5
  <2> QED BY <2>2, <2>3
<1>25. CASE UNCHANGED vars BY <1>4, <1>5, <1>7, <1>8, <1>9, <1>25 DEF vars
<1> QED BY <1>12, <1>13, <1>14, <1>15, <1>16, <1>17, <1>18, <1>19, <1>20, <1>21, <1>22, <1>23, <1>24,
           <1>25 DEF Next

-----------------------------------------------------------------------------
(***************************************************************************)
(* The invariant.                                                          *)
(***************************************************************************)
\* A cluster after its first election and commit.
LEMMA ReadInvInit == Init => ReadInv
<1> SUFFICES ASSUME Init PROVE ReadInv OBVIOUS
<1>1. TypeOK BY TypeInit
<1>2. PICK n \in Server : role = [m \in Server |-> IF m = n THEN "leader" ELSE "follower"]
  BY DEF Init
<1>3. /\ term = [m \in Server |-> 1] /\ log = <<1>> /\ commit = [m \in Server |-> 1]
      /\ queue = [m \in Server |-> <<>>] /\ postponed = [m \in Server |-> <<>>]
      /\ states = [m \in Server |-> {}] /\ net = {} /\ shown = 1
      /\ read = [r \in Request |-> Untracked("idle", 0, 0)]
  BY DEF Init
<1>4. Len(log) = 1 /\ log[1] = 1 BY <1>3
<1>5. \A m \in Server : Len(queue[m]) = 0 /\ Len(postponed[m]) = 0 BY <1>3
<1>6. \A m \in Server : role[m] = "leader" => m = n BY <1>2
<1>7. IsMajority(Server)
  <2>1. Cardinality(Server) \in Nat BY ReadAssumption, FS_CardinalityType
  <2> QED BY <2>1, ReadAssumption DEF IsMajority
<1>8. From(1) = Server BY <1>3 DEF From
<1>9. Consensus
  <2>1. \A i, j \in 1 .. Len(log) : i <= j => log[i] <= log[j] BY <1>4
  <2>2. \A k \in 1 .. Len(log) : IsMajority(From(log[k]))
    <3>1. \A k \in 1 .. Len(log) : log[k] = 1 BY <1>4
    <3> QED BY <1>7, <1>8, <3>1
  <2>3. \A m \in Server : role[m] = "leader" => IsMajority(From(term[m]))
    <3>1. \A m \in Server : term[m] = 1 BY <1>3
    <3> QED BY <1>7, <1>8, <3>1
  <2> QED BY <1>6, <2>1, <2>2, <2>3 DEF Consensus
<1>10. Sound(1)
  <2>1. \A m \in Server : commit[m] = 1 BY <1>3
  <2> QED BY <1>4, <2>1 DEF Sound
<1>11. Indexes
  <2>1. Sound(shown) /\ \A m \in Server : Sound(commit[m]) BY <1>3, <1>10
  <2>2. \A m \in Server : states[m] = {} BY <1>3
  <2> QED BY <1>3, <1>5, <2>1, <2>2 DEF Indexes
<1>12. Confirmed BY <1>5 DEF Confirmed
<1>13. Once BY <1>3, <1>5 DEF Once
<1>14. \A r \in Request : /\ read[r].home = None /\ read[r].ready = 0 /\ read[r].need = 0
                          /\ read[r].state = "idle"
  BY <1>3 DEF Untracked
<1>15. Unheard
  <2>1. \A r \in Request : ~ Underway(r) BY <1>3, <1>5 DEF Underway
  <2>2. \A m \in Server : states[m] = {} BY <1>3
  <2> QED BY <1>3, <1>5, <1>14, <2>1, <2>2 DEF Unheard
<1>16. Released
  <2>1. \A m \in Server : states[m] = {} BY <1>3
  <2> QED BY <1>3, <1>14, <2>1 DEF Released
<1> QED BY <1>1, <1>9, <1>11, <1>12, <1>13, <1>15, <1>16 DEF ReadInv

\* Every step keeps the invariant.
LEMMA ReadInvStep == ReadInv /\ [Next]_vars => ReadInv'
<1> SUFFICES ASSUME ReadInv, [Next]_vars PROVE ReadInv' OBVIOUS
<1>1. TypeOK /\ Consensus /\ Indexes /\ Confirmed /\ Once /\ Unheard /\ Released BY DEF ReadInv
<1>2. TypeOK' BY <1>1, TypeStep
<1>3. Consensus' /\ \A k \in Nat : Sound(k) => Sound(k)' BY <1>1, <1>2, ConsensusStep
<1>4. Indexes' BY <1>1, <1>2, <1>3, IndexesStep
<1>5. Confirmed' BY <1>1, <1>2, ConfirmedStep
<1>6. Once' BY <1>1, OnceStep
<1>7. Unheard' BY <1>1, UnheardStep
<1>8. Released' BY <1>1, <1>2, ReleasedStep
<1> QED BY <1>2, <1>3, <1>4, <1>5, <1>6, <1>7, <1>8 DEF ReadInv

\* The types, what servers know of the log, and what confirms a request stay
\* as they should in every behaviour.
THEOREM ReadInvInductive == Spec => []ReadInv
<1>1. Init => ReadInv BY ReadInvInit
<1>2. ReadInv /\ [Next]_vars => ReadInv' BY ReadInvStep
<1> QED BY <1>1, <1>2, PTL DEF Spec

\* A read that succeeds shows a state at least as new as any client had seen
\* anywhere when it was requested, whatever leaders are elected or deposed,
\* messages lost, late or repeated, and servers restarted in between
\* (Raft.serveReadIndex, ReadOnly, completeReadyReads).
THEOREM ReadsLinearizable == Spec => []ReadsAreLinearizable
<1>1. ReadInv => ReadsAreLinearizable BY DEF ReadInv, Released, ReadsAreLinearizable
<1> QED BY <1>1, ReadInvInductive, PTL
=============================================================================
