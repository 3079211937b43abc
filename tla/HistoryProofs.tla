--------------------------- MODULE HistoryProofs ---------------------------
(***************************************************************************)
(* The register history checker of formal/history_check.py decides          *)
(* linearizability exactly, for histories of every length.                 *)
(***************************************************************************)
EXTENDS HistoryCheck, FiniteSetTheorems, SequenceTheorems, WellFoundedInduction, TLAPS

-----------------------------------------------------------------------------
(***************************************************************************)
(* Numbers and the register.                                               *)
(***************************************************************************)
\* A non-empty set of numbers has a least one.
LEMMA LeastExists ==
  ASSUME NEW S \in SUBSET Nat, S # {}
  PROVE  \E x \in S : \A y \in S : x <= y
<1>1. PICK x \in S : \A y \in S : ~ (<<y, x>> \in OpToRel(<, Nat))
  BY NatLessThanWellFounded, WFMin
<1>2. \A y \in S : ~ (y < x) BY <1>1 DEF OpToRel
<1> QED BY <1>2

\* f follows the register over u up to position N.
Follows(f, N, u) ==
  f = [k \in 1..N |-> IF k = 1 THEN ""
                      ELSE IF u[k - 1].kind = "write" THEN u[k - 1].value ELSE f[k - 1]]

\* Such an f exists: otherwise there is a first N without one.
LEMMA FollowsExists ==
  ASSUME NEW u
  PROVE  \A N \in Nat : \E f : Follows(f, N, u)
<1> DEFINE S == {N \in Nat : ~ \E f : Follows(f, N, u)}
           Next1(x, k) == IF k = 1 THEN ""
                          ELSE IF u[k - 1].kind = "write" THEN u[k - 1].value ELSE x
<1> SUFFICES ASSUME S # {} PROVE FALSE OBVIOUS
<1>1. PICK N \in S : \A M \in S : N <= M
  <2>1. S \in SUBSET Nat OBVIOUS
  <2> HIDE DEF S
  <2> QED BY <2>1, LeastExists
<1>2. N \in Nat /\ ~ \E f : Follows(f, N, u) OBVIOUS
<1>3. CASE N = 0
  <2> DEFINE f == [k \in 1..0 |-> ""]
  <2>0. 1..0 = {} OBVIOUS
  <2>1. Follows(f, 0, u) BY <2>0 DEF Follows
  <2> QED BY <1>2, <1>3, <2>1
<1>4. CASE N # 0
  <2>1. N - 1 \in Nat /\ ~ (N <= N - 1) BY <1>2, <1>4
  <2>2. N - 1 \notin S BY <1>1, <2>1
  <2>3. PICK g : Follows(g, N - 1, u) BY <2>1, <2>2
  <2>4. g = [k \in 1..(N - 1) |-> Next1(g[k - 1], k)] BY <2>3 DEF Follows
  <2> DEFINE f == [k \in 1..N |-> IF k = N THEN Next1(g[N - 1], N) ELSE g[k]]
             h == [k \in 1..N |-> Next1(f[k - 1], k)]
  <2>5. ASSUME NEW k \in 1..N PROVE f[k] = h[k]
    <3>1. CASE k = 1 /\ k # N
      <4>1. k \in 1..(N - 1) BY <1>2, <3>1
      <4> QED BY <2>4, <3>1, <4>1
    <3>2. CASE k = 1 /\ k = N BY <3>2
    <3>3. CASE k # 1 /\ k # N
      <4>1. k \in 1..(N - 1) /\ k - 1 \in 1..N /\ k - 1 # N BY <1>2, <3>3
      <4>2. f[k] = g[k] /\ f[k - 1] = g[k - 1] BY <3>3, <4>1
      <4>3. h[k] = Next1(f[k - 1], k) OBVIOUS
      <4>4. g[k] = Next1(g[k - 1], k) BY <2>4, <4>1
      <4> HIDE DEF f, h, Next1
      <4> QED BY <4>2, <4>3, <4>4
    <3>4. CASE k # 1 /\ k = N
      <4>1. k - 1 \in 1..N /\ k - 1 # N BY <1>2, <3>4
      <4>2. f[k] = Next1(g[k - 1], k) /\ f[k - 1] = g[k - 1] BY <3>4, <4>1
      <4>3. h[k] = Next1(f[k - 1], k) OBVIOUS
      <4> HIDE DEF f, h, Next1
      <4> QED BY <4>2, <4>3
    <3> QED BY <3>1, <3>2, <3>3, <3>4
  <2>6. f = h BY <2>5
  <2>7. Follows(f, N, u) BY <2>6 DEF Follows
  <2> QED BY <1>2, <2>7
<1> QED BY <1>3, <1>4

\* The register starts empty and holds what a write left in it.
LEMMA RegisterSteps ==
  ASSUME NEW S, NEW u \in Seq(S)
  PROVE  /\ Len(u) \in Nat /\ DOMAIN RegisterValues(u) = 1..(Len(u) + 1)
         /\ Len(RegisterValues(u)) = Len(u) + 1
         /\ RegisterValues(u) = [k \in 1..(Len(u) + 1) |-> RegisterValues(u)[k]]
         /\ RegisterValues(u)[1] = ""
         /\ \A k \in 1..Len(u) :
              RegisterValues(u)[k + 1] =
                IF u[k].kind = "write" THEN u[k].value ELSE RegisterValues(u)[k]
<1> DEFINE N == Len(u) + 1
           f == CHOOSE f : f = [k \in 1..N |->
                  IF k = 1 THEN "" ELSE IF u[k - 1].kind = "write" THEN u[k - 1].value ELSE f[k - 1]]
<1>1. Len(u) \in Nat /\ N \in Nat BY LenProperties
<1>2. RegisterValues(u) = f BY DEF RegisterValues
<1>3. \E g : Follows(g, N, u) BY <1>1, FollowsExists
<1>4. f = [k \in 1..N |->
             IF k = 1 THEN "" ELSE IF u[k - 1].kind = "write" THEN u[k - 1].value ELSE f[k - 1]]
  BY <1>3 DEF Follows
<1> HIDE DEF f
<1>5. f[1] = "" /\ DOMAIN f = 1..N
  <2>1. 1 \in 1..N BY <1>1
  <2>2. DOMAIN f = 1..N BY <1>4
  <2> QED BY <1>4, <2>1, <2>2
<1>6. ASSUME NEW k \in 1..Len(u)
      PROVE  f[k + 1] = IF u[k].kind = "write" THEN u[k].value ELSE f[k]
  <2>1. k + 1 \in 1..N /\ k + 1 # 1 /\ (k + 1) - 1 = k BY <1>1
  <2> QED BY <1>4, <2>1
<1>7. f = [k \in 1..N |-> f[k]] BY <1>4
<1>8. Len(f) = N
  <2> DEFINE R == {f[k] : k \in 1..N}
  <2>1. f \in [1..N -> R] BY <1>7
  <2> QED BY <1>1, <2>1
<1> QED BY <1>1, <1>2, <1>5, <1>6, <1>7, <1>8

\* Two sequences that agree up to n give the register the same values.
LEMMA RegisterPrefix ==
  ASSUME NEW S, NEW u \in Seq(S), NEW v \in Seq(S), NEW n \in Nat, n <= Len(u), n <= Len(v),
         \A k \in 1..n : u[k] = v[k]
  PROVE  \A k \in 1..(n + 1) : RegisterValues(u)[k] = RegisterValues(v)[k]
<1> DEFINE a == RegisterValues(u)
           b == RegisterValues(v)
           T == {k \in 1..(n + 1) : a[k] # b[k]}
<1>1. Len(u) \in Nat /\ Len(v) \in Nat BY LenProperties
<1>2. a[1] = "" /\ \A k \in 1..Len(u) : a[k + 1] = IF u[k].kind = "write" THEN u[k].value ELSE a[k]
  BY RegisterSteps
<1>3. b[1] = "" /\ \A k \in 1..Len(v) : b[k + 1] = IF v[k].kind = "write" THEN v[k].value ELSE b[k]
  BY RegisterSteps
<1> HIDE DEF a, b
<1> SUFFICES ASSUME T # {} PROVE FALSE BY DEF a, b
<1>4. PICK k \in T : \A j \in T : k <= j
  <2>1. T \in SUBSET Nat OBVIOUS
  <2> HIDE DEF T
  <2> QED BY <2>1, LeastExists
<1>5. k \in 1..(n + 1) /\ a[k] # b[k] OBVIOUS
<1>6. k # 1 BY <1>2, <1>3, <1>5
<1>7. PICK j \in 1..n : k = j + 1
  <2>1. k - 1 \in 1..n /\ k = (k - 1) + 1 BY <1>5, <1>6
  <2> QED BY <2>1
<1>8. j \notin T BY <1>4, <1>7
<1>9. a[j] = b[j] BY <1>7, <1>8
<1>10. u[j] = v[j] /\ j \in 1..Len(u) /\ j \in 1..Len(v) BY <1>1, <1>7
<1> QED BY <1>2, <1>3, <1>5, <1>7, <1>9, <1>10

-----------------------------------------------------------------------------
(***************************************************************************)
(* Orders of the operations of a history.                                  *)
(***************************************************************************)
Encoded == {Hex[t] : t \in Text}

Operation == [id : {"read", "write"} \X Context, kind : {"read", "write"},
              value : Encoded, result : Encoded, invoked : Nat, returned : Nat \cup {Pending}]

\* Where the search may put an operation: what comes before it in real time is
\* already there, and a read finds its result in the register.
Placed(ops, o, k) ==
  /\ o[k] \in Candidates(ops)
  /\ \A p \in Predecessors(ops, o[k]) : \E j \in 1..(k - 1) : o[j] = p
  /\ ops[o[k]].kind = "write" \/ ops[o[k]].result = Values(ops, o)[k]

ValidOrder(ops, o) ==
  /\ o \in Seq(DOMAIN ops)
  /\ \A j, k \in 1..Len(o) : o[j] = o[k] => j = k
  /\ \A k \in 1..Len(o) : Placed(ops, o, k)

\* The operations an order lists.
LEMMA Listing ==
  ASSUME NEW ops \in Seq(Operation), NEW o \in Seq(DOMAIN ops)
  PROVE  LET u == [k \in DOMAIN o |-> ops[o[k]]]
         IN  /\ u \in Seq(Operation) /\ Len(u) = Len(o)
             /\ \A k \in 1..Len(o) : u[k] = ops[o[k]]
<1> DEFINE u == [k \in DOMAIN o |-> ops[o[k]]]
<1>1. DOMAIN o = 1..Len(o) /\ Len(o) \in Nat BY LenProperties
<1>2. ASSUME NEW k \in 1..Len(o) PROVE ops[o[k]] \in Operation
  <2>1. o[k] \in DOMAIN ops BY ElementOfSeq
  <2>2. DOMAIN ops = 1..Len(ops) BY LenProperties
  <2> QED BY <2>1, <2>2, ElementOfSeq
<1>3. u \in [1..Len(o) -> Operation] BY <1>1, <1>2
<1>4. u \in Seq(Operation) /\ Len(u) = Len(o) BY <1>1, <1>3
<1> QED BY <1>1, <1>4

\* The register over an order.
LEMMA ValuesStep ==
  ASSUME NEW ops \in Seq(Operation), NEW o \in Seq(DOMAIN ops)
  PROVE  /\ Len(o) \in Nat /\ DOMAIN Values(ops, o) = 1..(Len(o) + 1)
         /\ Len(Values(ops, o)) = Len(o) + 1
         /\ Values(ops, o) = [k \in 1..(Len(o) + 1) |-> Values(ops, o)[k]]
         /\ Values(ops, o)[1] = ""
         /\ \A k \in 1..Len(o) :
              Values(ops, o)[k + 1] =
                IF ops[o[k]].kind = "write" THEN ops[o[k]].value ELSE Values(ops, o)[k]
<1> DEFINE u == [k \in DOMAIN o |-> ops[o[k]]]
<1>1. u \in Seq(Operation) /\ Len(u) = Len(o) /\ \A k \in 1..Len(o) : u[k] = ops[o[k]]
  BY Listing
<1>2. Values(ops, o) = RegisterValues(u) BY DEF Values
<1> HIDE DEF u
<1>3. /\ Len(u) \in Nat /\ DOMAIN RegisterValues(u) = 1..(Len(u) + 1)
      /\ Len(RegisterValues(u)) = Len(u) + 1
      /\ RegisterValues(u) = [k \in 1..(Len(u) + 1) |-> RegisterValues(u)[k]]
      /\ RegisterValues(u)[1] = ""
      /\ \A k \in 1..Len(u) :
           RegisterValues(u)[k + 1] =
             IF u[k].kind = "write" THEN u[k].value ELSE RegisterValues(u)[k]
  BY <1>1, RegisterSteps
<1> QED BY <1>1, <1>2, <1>3

\* The register before position k depends on what comes before k only.
LEMMA ValuesPrefix ==
  ASSUME NEW ops \in Seq(Operation), NEW o \in Seq(DOMAIN ops), NEW o2 \in Seq(DOMAIN ops),
         NEW n \in Nat, n <= Len(o), n <= Len(o2), \A k \in 1..n : o[k] = o2[k]
  PROVE  \A k \in 1..(n + 1) : Values(ops, o)[k] = Values(ops, o2)[k]
<1> DEFINE u == [k \in DOMAIN o |-> ops[o[k]]]
           v == [k \in DOMAIN o2 |-> ops[o2[k]]]
<1>1. u \in Seq(Operation) /\ Len(u) = Len(o) /\ \A k \in 1..Len(o) : u[k] = ops[o[k]]
  BY Listing
<1>2. v \in Seq(Operation) /\ Len(v) = Len(o2) /\ \A k \in 1..Len(o2) : v[k] = ops[o2[k]]
  BY Listing
<1>3. Values(ops, o) = RegisterValues(u) /\ Values(ops, o2) = RegisterValues(v) BY DEF Values
<1>4. Len(o) \in Nat /\ Len(o2) \in Nat BY LenProperties
<1> HIDE DEF u, v
<1>5. \A k \in 1..n : k \in 1..Len(o) /\ k \in 1..Len(o2) BY <1>4
<1>6. \A k \in 1..n : u[k] = v[k] BY <1>1, <1>2, <1>5
<1>7. n <= Len(u) /\ n <= Len(v) BY <1>1, <1>2
<1>8. \A k \in 1..(n + 1) : RegisterValues(u)[k] = RegisterValues(v)[k]
  <2>1. u \in Seq(Operation) /\ v \in Seq(Operation) BY <1>1, <1>2
  <2> QED BY ONLY n \in Nat, <2>1, <1>6, <1>7, RegisterPrefix
<1> QED BY <1>3, <1>8

\* The register holds the value of the last write before a position, if any.
LEMMA ValuesLastWrite ==
  ASSUME NEW ops \in Seq(Operation), NEW o \in Seq(DOMAIN ops)
  PROVE  \A k \in 1..(Len(o) + 1) :
           \/ LastWrite(ops, o, k) = {} /\ Values(ops, o)[k] = ""
           \/ \E j \in 1..(k - 1) : /\ LastWrite(ops, o, k) = {j}
                                   /\ Values(ops, o)[k] = ops[o[j]].value
<1> DEFINE V == Values(ops, o)
           Good(k) == \/ LastWrite(ops, o, k) = {} /\ V[k] = ""
                      \/ \E j \in 1..(k - 1) : LastWrite(ops, o, k) = {j} /\ V[k] = ops[o[j]].value
           T == {k \in 1..(Len(o) + 1) : ~ Good(k)}
<1>0. Len(o) \in Nat BY LenProperties
<1>1. /\ V[1] = ""
      /\ \A k \in 1..Len(o) : V[k + 1] = IF ops[o[k]].kind = "write" THEN ops[o[k]].value ELSE V[k]
  BY ValuesStep
<1> HIDE DEF V
<1>2. Good(1)
  <2>1. LastWrite(ops, o, 1) = {} BY DEF LastWrite
  <2> QED BY <1>1, <2>1
<1>3. ASSUME NEW k \in 1..Len(o), Good(k) PROVE Good(k + 1)
  <2>1. CASE ops[o[k]].kind = "write"
    <3>1. LastWrite(ops, o, k + 1) = {k}
      <4>1. k \in LastWrite(ops, o, k + 1) BY <1>0, <2>1 DEF LastWrite
      <4>2. ASSUME NEW j \in LastWrite(ops, o, k + 1) PROVE j = k
        <5>1. j \in 1..k /\ \A l \in (j + 1)..k : ops[o[l]].kind # "write" BY <1>0 DEF LastWrite
        <5> QED BY <1>0, <2>1, <5>1
      <4> QED BY <4>1, <4>2
    <3>2. V[k + 1] = ops[o[k]].value BY <1>1, <2>1
    <3>3. k \in 1..((k + 1) - 1) BY <1>0
    <3> QED BY <3>1, <3>2, <3>3
  <2>2. CASE ops[o[k]].kind # "write"
    <3>1. LastWrite(ops, o, k + 1) = LastWrite(ops, o, k)
      <4>1. ASSUME NEW j \in LastWrite(ops, o, k + 1) PROVE j \in LastWrite(ops, o, k)
        <5>1. /\ j \in 1..k /\ ops[o[j]].kind = "write"
              /\ \A l \in (j + 1)..k : ops[o[l]].kind # "write"
          BY <1>0 DEF LastWrite
        <5>2. j # k BY <2>2, <5>1
        <5>3. j \in 1..(k - 1) /\ \A l \in (j + 1)..(k - 1) : l \in (j + 1)..k BY <1>0, <5>1, <5>2
        <5> QED BY <5>1, <5>3 DEF LastWrite
      <4>2. ASSUME NEW j \in LastWrite(ops, o, k) PROVE j \in LastWrite(ops, o, k + 1)
        <5>1. /\ j \in 1..(k - 1) /\ ops[o[j]].kind = "write"
              /\ \A l \in (j + 1)..(k - 1) : ops[o[l]].kind # "write"
          BY <1>0 DEF LastWrite
        <5>2. (k + 1) - 1 = k /\ j \in 1..k /\ \A l \in (j + 1)..k : l = k \/ l \in (j + 1)..(k - 1)
          BY <1>0, <5>1
        <5>3. \A l \in (j + 1)..k : ops[o[l]].kind # "write" BY <2>2, <5>1, <5>2
        <5> QED BY <5>1, <5>2, <5>3 DEF LastWrite
      <4> QED BY <4>1, <4>2
    <3>2. V[k + 1] = V[k] BY <1>1, <2>2
    <3>3. \A j \in 1..(k - 1) : j \in 1..((k + 1) - 1) BY <1>0
    <3> QED BY <1>3, <3>1, <3>2, <3>3
  <2> QED BY <2>1, <2>2
<1> HIDE DEF Good
<1>4. T = {}
  <2> SUFFICES ASSUME T # {} PROVE FALSE OBVIOUS
  <2>1. PICK k \in T : \A j \in T : k <= j
    <3>1. T \in SUBSET Nat BY <1>0
    <3> HIDE DEF T
    <3> QED BY <3>1, LeastExists
  <2>2. k \in 1..(Len(o) + 1) /\ ~ Good(k) OBVIOUS
  <2>3. k # 1 BY <1>2, <2>2
  <2>4. k - 1 \in 1..Len(o) /\ k - 1 \in 1..(Len(o) + 1) /\ ~ (k <= k - 1) /\ (k - 1) + 1 = k
    BY <1>0, <2>2, <2>3
  <2>5. k - 1 \notin T BY <2>1, <2>4
  <2>6. Good(k - 1) BY <2>4, <2>5
  <2> QED BY <1>3, <2>2, <2>4, <2>6
<1> QED BY <1>4 DEF Good, V

-----------------------------------------------------------------------------
(***************************************************************************)
(* The search visits exactly the valid orders.                             *)
(***************************************************************************)
\* The only valid order of length 0 is the empty one.
LEMMA EmptyOrder ==
  ASSUME NEW ops \in Seq(Operation)
  PROVE  /\ ValidOrder(ops, <<>>)
         /\ \A o : ValidOrder(ops, o) /\ Len(o) = 0 => o = <<>>
<1>1. ValidOrder(ops, <<>>)
  <2>1. <<>> \in Seq(DOMAIN ops) /\ Len(<<>>) = 0 /\ 1..0 = {} OBVIOUS
  <2> QED BY <2>1 DEF ValidOrder
<1>2. ASSUME NEW o, ValidOrder(ops, o), Len(o) = 0 PROVE o = <<>>
  <2>1. o \in Seq(DOMAIN ops) BY <1>2 DEF ValidOrder
  <2> QED BY <1>2, <2>1, EmptySeq
<1> QED BY <1>1, <1>2

\* One more operation.
LEMMA LinearizeExtends ==
  ASSUME NEW ops \in Seq(Operation), NEW o, ValidOrder(ops, o), NEW o2 \in Linearize(ops, o)
  PROVE  ValidOrder(ops, o2) /\ Len(o2) = Len(o) + 1
<1>1. o \in Seq(DOMAIN ops) /\ Len(o) \in Nat /\ DOMAIN o = 1..Len(o)
  BY LenProperties DEF ValidOrder
<1>2. PICK i \in Candidates(ops) \ ToSet(o) :
        /\ o2 = Append(o, i)
        /\ Predecessors(ops, i) \subseteq ToSet(o)
        /\ ops[i].kind = "write" \/ ops[i].result = Last(Values(ops, o))
  BY DEF Linearize
<1>3. i \in DOMAIN ops BY DEF Candidates, Completed
<1>4. /\ o2 \in Seq(DOMAIN ops) /\ Len(o2) = Len(o) + 1
      /\ \A k \in 1..Len(o) : o2[k] = o[k]
      /\ o2[Len(o) + 1] = i
  BY <1>1, <1>2, <1>3, AppendProperties
<1>5. \A k \in 1..(Len(o) + 1) : Values(ops, o)[k] = Values(ops, o2)[k]
  <2>1. Len(o) <= Len(o) /\ Len(o) <= Len(o2) /\ \A k \in 1..Len(o) : o[k] = o2[k] BY <1>1, <1>4
  <2>2. o \in Seq(DOMAIN ops) /\ o2 \in Seq(DOMAIN ops) /\ Len(o) \in Nat BY <1>1, <1>4
  <2> QED BY ONLY ops \in Seq(Operation), <2>1, <2>2, ValuesPrefix
<1>6. Last(Values(ops, o)) = Values(ops, o2)[Len(o) + 1]
  <2>1. Len(Values(ops, o)) = Len(o) + 1 BY <1>1, ValuesStep
  <2>2. Last(Values(ops, o)) = Values(ops, o)[Len(o) + 1] BY <2>1 DEF Last
  <2>3. Len(o) + 1 \in 1..(Len(o) + 1) BY <1>1
  <2> QED BY <1>5, <2>2, <2>3
<1>7. \A k \in 1..Len(o2) : k \in 1..Len(o) \/ k = Len(o) + 1 BY <1>1, <1>4
<1>8. \A x \in ToSet(o) : \E k \in 1..Len(o) : o[k] = x BY <1>1 DEF ToSet
<1>9. \A k \in 1..Len(o) : o[k] \in ToSet(o) BY <1>1 DEF ToSet
<1>10. ASSUME NEW j \in 1..Len(o2), NEW k \in 1..Len(o2), o2[j] = o2[k] PROVE j = k
  <2>1. \A a, b \in 1..Len(o) : o[a] = o[b] => a = b BY DEF ValidOrder
  <2>2. \A a \in 1..Len(o) : o[a] # i BY <1>2, <1>9
  <2> QED BY <1>4, <1>7, <1>10, <2>1, <2>2
<1>11. ASSUME NEW k \in 1..Len(o2) PROVE Placed(ops, o2, k)
  <2>1. CASE k \in 1..Len(o)
    <3>1. Placed(ops, o, k) BY <2>1 DEF ValidOrder
    <3>2. o2[k] = o[k] BY <1>4, <2>1
    <3>3. k \in 1..(Len(o) + 1) BY <1>1, <2>1
    <3>4. Values(ops, o2)[k] = Values(ops, o)[k] BY <1>5, <3>3
    <3>5. \A j \in 1..(k - 1) : j \in 1..Len(o) BY <1>1, <2>1
    <3>6. \A j \in 1..(k - 1) : o2[j] = o[j] BY <1>4, <3>5
    <3> QED BY <3>1, <3>2, <3>4, <3>6 DEF Placed
  <2>2. CASE k = Len(o) + 1
    <3>1. o2[k] = i BY <1>4, <2>2
    <3>2. k - 1 = Len(o) BY <1>1, <2>2
    <3>3. \A p \in Predecessors(ops, i) : \E j \in 1..Len(o) : o2[j] = p
      BY <1>2, <1>4, <1>8
    <3> QED BY <1>2, <1>6, <2>2, <3>1, <3>2, <3>3 DEF Placed
  <2> QED BY <1>7, <2>1, <2>2
<1> QED BY <1>4, <1>10, <1>11 DEF ValidOrder

\* Every beginning of a valid order is one.
LEMMA BeginningValid ==
  ASSUME NEW ops \in Seq(Operation), NEW o, ValidOrder(ops, o), NEW n \in Nat, n <= Len(o)
  PROVE  ValidOrder(ops, SubSeq(o, 1, n)) /\ Len(SubSeq(o, 1, n)) = n
<1> DEFINE p == SubSeq(o, 1, n)
<1>1. o \in Seq(DOMAIN ops) /\ Len(o) \in Nat BY LenProperties DEF ValidOrder
<1>2. p \in Seq(DOMAIN ops) /\ Len(p) = n /\ \A k \in 1..n : p[k] = o[k]
  <2>1. \A k \in 1..n : k \in 1..Len(o) /\ o[k] \in DOMAIN ops BY <1>1, ElementOfSeq
  <2>2. p = [k \in 1..n |-> o[k]] BY <1>1
  <2>3. p \in [1..n -> DOMAIN ops] BY <2>1, <2>2
  <2> HIDE DEF p
  <2> QED BY <2>2, <2>3
<1> HIDE DEF p
<1>3. \A k \in 1..(n + 1) : Values(ops, p)[k] = Values(ops, o)[k]
  <2>1. n <= Len(p) BY <1>2
  <2>2. p \in Seq(DOMAIN ops) /\ o \in Seq(DOMAIN ops) /\ \A k \in 1..n : p[k] = o[k] BY <1>1, <1>2
  <2> QED BY ONLY ops \in Seq(Operation), n \in Nat, n <= Len(o), <2>1, <2>2, ValuesPrefix
<1>4. \A k \in 1..n : k \in 1..Len(o) BY <1>1
<1>5. ASSUME NEW j \in 1..n, NEW k \in 1..n, p[j] = p[k] PROVE j = k
  BY <1>2, <1>4, <1>5 DEF ValidOrder
<1>6. ASSUME NEW k \in 1..n PROVE Placed(ops, p, k)
  <2>1. Placed(ops, o, k) BY <1>4 DEF ValidOrder
  <2>2. k \in 1..(n + 1) /\ \A j \in 1..(k - 1) : j \in 1..n OBVIOUS
  <2>3. p[k] = o[k] /\ Values(ops, p)[k] = Values(ops, o)[k] /\ \A j \in 1..(k - 1) : p[j] = o[j]
    BY <1>2, <1>3, <2>2
  <2> QED BY <2>1, <2>3 DEF Placed
<1>7. ValidOrder(ops, p) BY <1>2, <1>5, <1>6 DEF ValidOrder
<1> QED BY <1>2, <1>7 DEF p

\* A valid order is found from its beginning.
LEMMA BeginningExtends ==
  ASSUME NEW ops \in Seq(Operation), NEW o2, ValidOrder(ops, o2),
         NEW n \in Nat, Len(o2) = n + 1
  PROVE  o2 \in Linearize(ops, SubSeq(o2, 1, n))
<1> DEFINE o == SubSeq(o2, 1, n)
           i == o2[n + 1]
<1>1. o2 \in Seq(DOMAIN ops) BY DEF ValidOrder
<1>2. ValidOrder(ops, o) /\ Len(o) = n BY BeginningValid
<1>3. o \in Seq(DOMAIN ops) /\ DOMAIN o = 1..n BY <1>2, LenProperties DEF ValidOrder
<1>4. \A k \in 1..n : o[k] = o2[k] BY <1>1
<1>5. o2 = Append(o, i)
  <2>1. n + 1 \in 1..Len(o2) BY <1>1
  <2>2. i \in DOMAIN ops BY <1>1, <2>1, ElementOfSeq
  <2>3. /\ Append(o, i) \in Seq(DOMAIN ops) /\ Len(Append(o, i)) = n + 1
        /\ \A k \in 1..n : Append(o, i)[k] = o[k]
        /\ Append(o, i)[n + 1] = i
    <3> HIDE DEF o, i
    <3> QED BY <1>2, <1>3, <2>2, AppendProperties
  <2>4. \A k \in 1..(n + 1) : k \in 1..n \/ k = n + 1 OBVIOUS
  <2>5. \A k \in 1..(n + 1) : Append(o, i)[k] = o2[k] BY <1>4, <2>3, <2>4
  <2> HIDE DEF o, i
  <2> QED BY <1>1, <2>3, <2>5, SeqEqual
<1>6. Placed(ops, o2, n + 1)
  <2>1. n + 1 \in 1..Len(o2) OBVIOUS
  <2> QED BY <2>1 DEF ValidOrder
<1>7. i \notin ToSet(o)
  <2> SUFFICES ASSUME NEW k \in 1..n, o[k] = i PROVE FALSE BY <1>3 DEF ToSet
  <2>1. o2[k] = o2[n + 1] /\ k \in 1..Len(o2) /\ n + 1 \in 1..Len(o2) BY <1>4
  <2>2. k = n + 1 BY <2>1 DEF ValidOrder
  <2> QED BY <2>2
<1>8. Predecessors(ops, i) \subseteq ToSet(o)
  <2>1. (n + 1) - 1 = n OBVIOUS
  <2>2. \A p \in Predecessors(ops, i) : \E j \in 1..n : o2[j] = p BY <1>6, <2>1 DEF Placed
  <2>3. \A j \in 1..n : o2[j] \in ToSet(o) BY <1>3, <1>4 DEF ToSet
  <2> QED BY <2>2, <2>3
<1>9. ops[i].kind = "write" \/ ops[i].result = Last(Values(ops, o))
  <2>1. Len(Values(ops, o)) = n + 1 BY <1>2, <1>3, ValuesStep
  <2>2. Last(Values(ops, o)) = Values(ops, o)[n + 1] BY <2>1 DEF Last
  <2>3. \A k \in 1..(n + 1) : Values(ops, o)[k] = Values(ops, o2)[k]
    <3>1. n <= Len(o) /\ n <= Len(o2) BY <1>2
    <3>2. o \in Seq(DOMAIN ops) /\ \A k \in 1..n : o[k] = o2[k] BY <1>3, <1>4
    <3> QED BY ONLY ops \in Seq(Operation), n \in Nat, <1>1, <3>1, <3>2, ValuesPrefix
  <2>4. Values(ops, o)[n + 1] = Values(ops, o2)[n + 1]
    <3>1. n + 1 \in 1..(n + 1) OBVIOUS
    <3> QED BY <2>3, <3>1
  <2> QED BY <1>6, <2>2, <2>4 DEF Placed
<1>10. i \in Candidates(ops) BY <1>6 DEF Placed
<1> HIDE DEF o, i
<1>11. o2 \in Linearize(ops, o) BY <1>5, <1>7, <1>8, <1>9, <1>10 DEF Linearize
<1> QED BY <1>11 DEF o

-----------------------------------------------------------------------------
(***************************************************************************)
(* A complete valid order is a linearization, and the other way round.     *)
(***************************************************************************)
\* No operation returned before it was invoked.
Ordered(ops) == \A i \in DOMAIN ops : Done(ops[i]) => ops[i].returned >= ops[i].invoked

\* Explains, with the register in place of the last write.
ExplainsBy(ops, o) ==
  /\ Completed(ops) \subseteq ToSet(o)
  /\ \A j, k \in 1..Len(o) : o[j] = o[k] => j = k
  /\ \A k \in 1..Len(o) : Done(ops[o[k]]) \/ ops[o[k]].kind = "write"
  /\ \A k, l \in 1..Len(o) : k < l => ~(Done(ops[o[l]]) /\ ops[o[l]].returned < ops[o[k]].invoked)
  /\ \A k \in 1..Len(o) : ops[o[k]].kind = "read" => ops[o[k]].result = Values(ops, o)[k]

LEMMA ExplainsByRegister ==
  ASSUME NEW ops \in Seq(Operation), NEW o \in Seq(DOMAIN ops)
  PROVE  Explains(ops, o) <=> ExplainsBy(ops, o)
<1> DEFINE L(k) == LastWrite(ops, o, k)
           W(k) == IF L(k) = {} THEN "" ELSE ops[o[CHOOSE j \in L(k) : TRUE]].value
<1>1. Len(o) \in Nat /\ DOMAIN o = 1..Len(o) BY LenProperties
<1>2. ASSUME NEW k \in 1..Len(o) PROVE W(k) = Values(ops, o)[k]
  <2>1. k \in 1..(Len(o) + 1) BY <1>1
  <2>2. \/ L(k) = {} /\ Values(ops, o)[k] = ""
        \/ \E j \in 1..(k - 1) : L(k) = {j} /\ Values(ops, o)[k] = ops[o[j]].value
    BY <2>1, ValuesLastWrite
  <2> HIDE DEF L
  <2>3. CASE L(k) = {} /\ Values(ops, o)[k] = "" BY <2>3
  <2>4. CASE \E j \in 1..(k - 1) : L(k) = {j} /\ Values(ops, o)[k] = ops[o[j]].value
    <3>1. PICK j \in 1..(k - 1) : L(k) = {j} /\ Values(ops, o)[k] = ops[o[j]].value BY <2>4
    <3>2. (CHOOSE x \in L(k) : TRUE) = j BY <3>1
    <3> QED BY <3>1, <3>2
  <2> QED BY <2>2, <2>3, <2>4
<1>3. Explains(ops, o) <=>
        /\ Completed(ops) \subseteq ToSet(o)
        /\ IsInjective(o)
        /\ \A k \in DOMAIN o : Done(ops[o[k]]) \/ ops[o[k]].kind = "write"
        /\ \A k, l \in DOMAIN o : k < l => ~(Done(ops[o[l]]) /\ ops[o[l]].returned < ops[o[k]].invoked)
        /\ \A k \in DOMAIN o : ops[o[k]].kind = "read" => ops[o[k]].result = W(k)
  BY DEF Explains
<1>4. IsInjective(o) <=> \A j, k \in 1..Len(o) : o[j] = o[k] => j = k
  BY <1>1 DEF IsInjective
<1> HIDE DEF W
<1> QED BY <1>1, <1>2, <1>3, <1>4 DEF ExplainsBy

\* The operations of an order, one by one.
LEMMA OrderOperations ==
  ASSUME NEW ops \in Seq(Operation), NEW o \in Seq(DOMAIN ops)
  PROVE  /\ Len(o) \in Nat /\ DOMAIN o = 1..Len(o)
         /\ \A k \in 1..Len(o) : o[k] \in DOMAIN ops /\ ops[o[k]] \in Operation
         /\ \A x : x \in ToSet(o) <=> \E k \in 1..Len(o) : o[k] = x
<1>1. Len(o) \in Nat /\ DOMAIN o = 1..Len(o) /\ DOMAIN ops = 1..Len(ops) BY LenProperties
<1>2. ASSUME NEW k \in 1..Len(o) PROVE o[k] \in DOMAIN ops /\ ops[o[k]] \in Operation
  <2>1. o[k] \in DOMAIN ops BY ElementOfSeq
  <2> QED BY <1>1, <2>1, ElementOfSeq
<1>3. \A x : x \in ToSet(o) <=> \E k \in 1..Len(o) : o[k] = x BY <1>1 DEF ToSet
<1> QED BY <1>1, <1>2, <1>3

LEMMA ValidIsLinearization ==
  ASSUME NEW ops \in Seq(Operation), NEW o, ValidOrder(ops, o), Complete(ops, o)
  PROVE  ExplainsBy(ops, o)
<1>1. o \in Seq(DOMAIN ops) BY DEF ValidOrder
<1>2. /\ Len(o) \in Nat /\ DOMAIN o = 1..Len(o)
      /\ \A k \in 1..Len(o) : o[k] \in DOMAIN ops /\ ops[o[k]] \in Operation
  BY <1>1, OrderOperations
<1>3. Completed(ops) \subseteq ToSet(o) BY DEF Complete
<1>4. \A j, k \in 1..Len(o) : o[j] = o[k] => j = k BY DEF ValidOrder
<1>5. \A k \in 1..Len(o) : Placed(ops, o, k) BY DEF ValidOrder
<1>6. \A k \in 1..Len(o) : Done(ops[o[k]]) \/ ops[o[k]].kind = "write"
  BY <1>2, <1>5 DEF Placed, Candidates, Completed
<1>7. ASSUME NEW k \in 1..Len(o), NEW l \in 1..Len(o), k < l,
             Done(ops[o[l]]), ops[o[l]].returned < ops[o[k]].invoked
      PROVE  FALSE
  <2>1. o[l] \in Predecessors(ops, o[k]) BY <1>2, <1>7 DEF Predecessors, Completed
  <2>2. PICK j \in 1..(k - 1) : o[j] = o[l] BY <1>5, <2>1 DEF Placed
  <2>3. j \in 1..Len(o) /\ j # l BY <1>2, <1>7
  <2> QED BY <1>4, <2>2, <2>3
<1>8. \A k \in 1..Len(o) : ops[o[k]].kind = "read" => ops[o[k]].result = Values(ops, o)[k]
  BY <1>5 DEF Placed
<1> QED BY <1>3, <1>4, <1>6, <1>7, <1>8 DEF ExplainsBy

LEMMA LinearizationIsValid ==
  ASSUME NEW ops \in Seq(Operation), Ordered(ops), NEW o \in Seq(DOMAIN ops), ExplainsBy(ops, o)
  PROVE  ValidOrder(ops, o) /\ Complete(ops, o)
<1>1. /\ Len(o) \in Nat /\ DOMAIN o = 1..Len(o)
      /\ \A k \in 1..Len(o) : o[k] \in DOMAIN ops /\ ops[o[k]] \in Operation
      /\ \A x : x \in ToSet(o) <=> \E k \in 1..Len(o) : o[k] = x
  BY OrderOperations
<1>2. Complete(ops, o) BY DEF ExplainsBy, Complete
<1>3. \A j, k \in 1..Len(o) : o[j] = o[k] => j = k BY DEF ExplainsBy
<1>4. ASSUME NEW k \in 1..Len(o) PROVE Placed(ops, o, k)
  <2>1. o[k] \in DOMAIN ops /\ ops[o[k]] \in Operation BY <1>1
  <2>2. o[k] \in Candidates(ops) BY <2>1 DEF ExplainsBy, Candidates, Completed
  <2>3. ASSUME NEW p \in Predecessors(ops, o[k]) PROVE \E j \in 1..(k - 1) : o[j] = p
    <3>1. p \in Completed(ops) /\ ops[p].returned < ops[o[k]].invoked BY DEF Predecessors
    <3>2. p \in ToSet(o) BY <3>1 DEF ExplainsBy
    <3>3. PICK l \in 1..Len(o) : o[l] = p BY <1>1, <3>2
    <3>4. Done(ops[o[l]]) /\ ops[o[l]].returned < ops[o[k]].invoked BY <3>1, <3>3 DEF Completed
    <3>5. ~ (k < l) BY <3>4 DEF ExplainsBy
    <3>6. k # l
      <4>1. ops[o[k]].returned \in Int /\ ops[o[k]].invoked \in Int
        BY <2>1 DEF Operation, Pending
      <4>2. Done(ops[o[k]]) => ops[o[k]].returned >= ops[o[k]].invoked BY <2>1 DEF Ordered
      <4> QED BY <3>4, <4>1, <4>2
    <3>7. l \in 1..(k - 1) BY <1>1, <3>5, <3>6
    <3> QED BY <3>3, <3>7
  <2>4. ops[o[k]].kind = "write" \/ ops[o[k]].result = Values(ops, o)[k]
    BY <2>1 DEF ExplainsBy, Operation
  <2> QED BY <2>2, <2>3, <2>4 DEF Placed
<1> QED BY <1>2, <1>3, <1>4 DEF ValidOrder

\* An order without repetition lists as many operations as it is long.
LEMMA OrderCardinality ==
  ASSUME NEW ops \in Seq(Operation), NEW o \in Seq(DOMAIN ops),
         \A j, k \in 1..Len(o) : o[j] = o[k] => j = k
  PROVE  Cardinality(ToSet(o)) = Len(o)
<1>1. /\ Len(o) \in Nat /\ DOMAIN o = 1..Len(o)
      /\ \A x : x \in ToSet(o) <=> \E k \in 1..Len(o) : o[k] = x
  BY OrderOperations
<1>2. o \in [1..Len(o) -> ToSet(o)] BY <1>1
<1>3. o \in Bijection(1..Len(o), ToSet(o))
  BY <1>1, <1>2 DEF Bijection, Injection, Surjection, IsInjective
<1>4. IsFiniteSet(1..Len(o)) /\ Cardinality(1..Len(o)) = Len(o)
  <2>1. \A n \in Nat : IsFiniteSet(1..n) /\ Cardinality(1..n) = n BY FS_Interval
  <2>2. Len(o) \in Nat BY <1>1
  <2> QED BY <2>1, <2>2
<1>5. ExistsBijection(1..Len(o), ToSet(o)) BY <1>3 DEF ExistsBijection
<1> QED BY <1>4, <1>5, FS_Bijection

\* HasLinearization is what the search looks for.
LEMMA LinearizableIsFindable ==
  ASSUME NEW ops \in Seq(Operation), Ordered(ops)
  PROVE  HasLinearization(ops) <=> \E o : ValidOrder(ops, o) /\ Complete(ops, o)
<1>0. Completed(ops) \subseteq DOMAIN ops /\ PendingWrites(ops) \subseteq DOMAIN ops
      /\ DOMAIN ops = 1..Len(ops) /\ Len(ops) \in Nat
  BY LenProperties DEF Completed, PendingWrites
<1>1. ASSUME HasLinearization(ops) PROVE \E o : ValidOrder(ops, o) /\ Complete(ops, o)
  <2>1. PICK extra \in SUBSET PendingWrites(ops) :
          \E o \in SetToSeqs(Completed(ops) \cup extra) : Explains(ops, o)
    BY <1>1 DEF HasLinearization
  <2> DEFINE S == Completed(ops) \cup extra
  <2>2. PICK o \in SetToSeqs(S) : Explains(ops, o) BY <2>1
  <2>3. S \subseteq 1..Len(ops) BY <1>0
  <2>4. IsFiniteSet(S)
    <3>1. IsFiniteSet(1..Len(ops)) BY <1>0, FS_Interval
    <3> HIDE DEF S
    <3> QED BY <2>3, <3>1, FS_Subset
  <2>5. Cardinality(S) \in Nat BY <2>4, FS_CardinalityType
  <2>6. o \in [1..Cardinality(S) -> S] BY DEF SetToSeqs
  <2> HIDE DEF S
  <2>7. o \in [1..Cardinality(S) -> DOMAIN ops] BY <1>0, <2>3, <2>6
  <2>8. o \in Seq(DOMAIN ops) BY <2>5, <2>7
  <2>9. ExplainsBy(ops, o) BY <2>2, <2>8, ExplainsByRegister
  <2> QED BY <2>8, <2>9, LinearizationIsValid
<1>2. ASSUME NEW o, ValidOrder(ops, o), Complete(ops, o) PROVE HasLinearization(ops)
  <2>1. o \in Seq(DOMAIN ops) /\ \A j, k \in 1..Len(o) : o[j] = o[k] => j = k
    BY <1>2 DEF ValidOrder
  <2>2. /\ Len(o) \in Nat /\ DOMAIN o = 1..Len(o)
        /\ \A k \in 1..Len(o) : o[k] \in DOMAIN ops /\ ops[o[k]] \in Operation
        /\ \A x : x \in ToSet(o) <=> \E k \in 1..Len(o) : o[k] = x
    BY <2>1, OrderOperations
  <2>3. ExplainsBy(ops, o) BY <1>2, ValidIsLinearization
  <2>4. Explains(ops, o) BY <2>1, <2>3, ExplainsByRegister
  <2> DEFINE extra == ToSet(o) \ Completed(ops)
  <2>5. extra \in SUBSET PendingWrites(ops)
    <3> SUFFICES ASSUME NEW k \in 1..Len(o), o[k] \notin Completed(ops)
                 PROVE  o[k] \in PendingWrites(ops)
      BY <2>2
    <3>1. o[k] \in DOMAIN ops BY <2>2
    <3> QED BY <2>3, <3>1 DEF ExplainsBy, Completed, PendingWrites
  <2>6. Completed(ops) \cup extra = ToSet(o) BY <2>3 DEF ExplainsBy
  <2>7. Cardinality(ToSet(o)) = Len(o) BY <2>1, OrderCardinality
  <2>8. o \in [1..Len(o) -> ToSet(o)]
    <3>1. o = [k \in 1..Len(o) |-> o[k]] BY <2>1
    <3> QED BY <2>2, <3>1
  <2>9. o \in SetToSeqs(ToSet(o))
    <3>1. \A i, j \in 1..Len(o) : i # j => o[i] # o[j] BY <2>1
    <3> QED BY <2>7, <2>8, <3>1 DEF SetToSeqs
  <2> HIDE DEF extra
  <2> QED BY <2>4, <2>5, <2>6, <2>9 DEF HasLinearization
<1> QED BY <1>1, <1>2

-----------------------------------------------------------------------------
(***************************************************************************)
(* What extract builds.                                                    *)
(***************************************************************************)
Shown == [completed : Seq([context : Context, value : Text]),
          writes : Seq([context : Context, completed : 0..2])]

Extraction == [operations : Seq(Operation), owners : Seq(Node), ok : BOOLEAN]

\* Every operation has an owner, an identity of its kind and, if it is a
\* write, a value that is not the initial one.
WellFormed(x) ==
  /\ x \in Extraction /\ Len(x.owners) = Len(x.operations)
  /\ \A i \in DOMAIN x.operations :
       /\ x.operations[i].id[1] = x.operations[i].kind
       /\ x.operations[i].kind = "write" => x.operations[i].value # ""

\* An event as the trace may hold it.
IsEvent(e) ==
  /\ e.seq \in Nat /\ e.node \in Node /\ e.reads \in [Node -> Shown]
  /\ e.kind \in {"read", "propose"} => e.context \in Context
  /\ e.kind = "propose" => e.value \in Text /\ e.value # ""

\* A value other than the initial one is not encoded as the initial one.
LEMMA EncodedValue ==
  /\ "" \in Encoded
  /\ \A t \in Text : Hex[t] \in Encoded
  /\ \A t \in Text : t # "" => Hex[t] # ""
  /\ \A s, t \in Text : Hex[s] = Hex[t] => s = t
BY HexAssumption DEF Encoded, IsInjective

\* The positions of a well-formed extraction.
LEMMA ExtractionPositions ==
  ASSUME NEW x, WellFormed(x)
  PROVE  /\ x.operations \in Seq(Operation) /\ x.owners \in Seq(Node) /\ x.ok \in BOOLEAN
         /\ x = [operations |-> x.operations, owners |-> x.owners, ok |-> x.ok]
         /\ Len(x.operations) \in Nat
         /\ DOMAIN x.operations = 1..Len(x.operations)
         /\ DOMAIN x.owners = DOMAIN x.operations
         /\ \A i \in DOMAIN x.operations : x.operations[i] \in Operation /\ x.owners[i] \in Node
<1>1. /\ x.operations \in Seq(Operation) /\ x.owners \in Seq(Node) /\ x.ok \in BOOLEAN
      /\ x = [operations |-> x.operations, owners |-> x.owners, ok |-> x.ok]
  BY DEF WellFormed, Extraction
<1>2. Len(x.operations) \in Nat /\ DOMAIN x.operations = 1..Len(x.operations)
  BY <1>1, LenProperties
<1>3. DOMAIN x.owners = DOMAIN x.operations BY <1>1, <1>2, LenProperties DEF WellFormed
<1>4. \A i \in DOMAIN x.operations : x.operations[i] \in Operation BY <1>1, <1>2, ElementOfSeq
<1>5. \A i \in DOMAIN x.operations : x.owners[i] \in Node
  <2>1. DOMAIN x.owners = 1..Len(x.owners) BY <1>1, LenProperties
  <2> QED BY <1>1, <1>3, <2>1, ElementOfSeq
<1> QED BY <1>1, <1>2, <1>3, <1>4, <1>5

\* The operation an event invokes, and the extraction with it.
Invoked(e) ==
  LET kind == IF e.kind = "propose" THEN "write" ELSE "read"
  IN [id |-> <<kind, e.context>>, kind |-> kind,
      value |-> IF kind = "write" THEN Hex[e.value] ELSE "",
      result |-> "", invoked |-> e.seq, returned |-> Pending]

LEMMA InvocationAppends ==
  ASSUME NEW x, WellFormed(x), NEW e, IsEvent(e), e.kind \in {"read", "propose"}
  PROVE  LET y == ExtractInvocation(x, e)
         IN  /\ y.operations = Append(x.operations, Invoked(e))
             /\ y.owners = Append(x.owners, e.node)
             /\ y.ok = (x.ok /\ Invoked(e).id \notin Ids(x.operations))
             /\ y = [operations |-> y.operations, owners |-> y.owners, ok |-> y.ok]
             /\ Invoked(e) \in Operation /\ Invoked(e).id[1] = Invoked(e).kind
             /\ Invoked(e).kind = "write" => Invoked(e).value # ""
<1> DEFINE y == ExtractInvocation(x, e)
           op == Invoked(e)
<1>1. /\ y.operations = Append(x.operations, op)
      /\ y.owners = Append(x.owners, e.node)
      /\ y.ok = (x.ok /\ op.id \notin Ids(x.operations))
      /\ y = [operations |-> y.operations, owners |-> y.owners, ok |-> y.ok]
  <2>1. y = [operations |-> Append(x.operations, op), owners |-> Append(x.owners, e.node),
             ok |-> x.ok /\ op.id \notin Ids(x.operations)]
    BY DEF ExtractInvocation, Invoked
  <2> HIDE DEF y, op
  <2> QED BY <2>1
<1>2. e.seq \in Nat /\ e.context \in Context BY DEF IsEvent
<1>3. CASE e.kind = "propose"
  <2>1. Hex[e.value] \in Encoded /\ Hex[e.value] # "" BY <1>3, EncodedValue DEF IsEvent
  <2>2. op = [id |-> <<"write", e.context>>, kind |-> "write", value |-> Hex[e.value],
              result |-> "", invoked |-> e.seq, returned |-> Pending]
    BY <1>3 DEF Invoked
  <2>3. op \in Operation /\ op.id[1] = op.kind
    <3>1. /\ <<"write", e.context>> \in {"read", "write"} \X Context
          /\ <<"write", e.context>>[1] = "write"
      BY <1>2
    <3> DEFINE id == <<"write", e.context>>
    <3> HIDE DEF id, op
    <3>3. op = [id |-> id, kind |-> "write", value |-> Hex[e.value],
                result |-> "", invoked |-> e.seq, returned |-> Pending]
      BY <2>2 DEF id
    <3>2. op.id = id /\ op.kind = "write" BY <3>3
    <3>4. op \in Operation BY <1>2, <2>1, <3>1, <3>3, EncodedValue DEF Operation, id
    <3> QED BY <3>1, <3>2, <3>4 DEF id, op
  <2> HIDE DEF op
  <2>4. op.value # "" BY <2>1, <2>2
  <2> QED BY <1>1, <2>3, <2>4 DEF op
<1>4. CASE e.kind = "read"
  <2>2. op = [id |-> <<"read", e.context>>, kind |-> "read", value |-> "",
              result |-> "", invoked |-> e.seq, returned |-> Pending]
    BY <1>4 DEF Invoked
  <2>3. op \in Operation /\ op.id[1] = op.kind
    <3>1. /\ <<"read", e.context>> \in {"read", "write"} \X Context
          /\ <<"read", e.context>>[1] = "read"
      BY <1>2
    <3> DEFINE id == <<"read", e.context>>
    <3> HIDE DEF id, op
    <3>3. op = [id |-> id, kind |-> "read", value |-> "",
                result |-> "", invoked |-> e.seq, returned |-> Pending]
      BY <2>2 DEF id
    <3>2. op.id = id /\ op.kind = "read" BY <3>3
    <3>4. op \in Operation BY <1>2, <3>1, <3>3, EncodedValue DEF Operation, id
    <3> QED BY <3>1, <3>2, <3>4 DEF id, op
  <2> HIDE DEF op
  <2>4. op.kind # "write" BY <2>2
  <2> QED BY <1>1, <2>3, <2>4 DEF op
<1> QED BY <1>3, <1>4

LEMMA InvocationWellFormed ==
  ASSUME NEW x, WellFormed(x), NEW e, IsEvent(e)
  PROVE  WellFormed(ExtractInvocation(x, e))
<1> DEFINE y == ExtractInvocation(x, e)
           op == Invoked(e)
<1>1. CASE e.kind \notin {"read", "propose"} BY <1>1 DEF ExtractInvocation
<1>2. CASE e.kind \in {"read", "propose"}
  <2>1. /\ x.operations \in Seq(Operation) /\ x.owners \in Seq(Node) /\ x.ok \in BOOLEAN
        /\ Len(x.operations) \in Nat /\ DOMAIN x.operations = 1..Len(x.operations)
        /\ Len(x.owners) = Len(x.operations)
    BY ExtractionPositions DEF WellFormed
  <2>2. /\ y.operations = Append(x.operations, op)
        /\ y.owners = Append(x.owners, e.node)
        /\ y.ok = (x.ok /\ op.id \notin Ids(x.operations))
        /\ y = [operations |-> y.operations, owners |-> y.owners, ok |-> y.ok]
        /\ op \in Operation /\ op.id[1] = op.kind
        /\ op.kind = "write" => op.value # ""
    BY <1>2, InvocationAppends
  <2>3. e.node \in Node BY DEF IsEvent
  <2> HIDE DEF y, op
  <2>4. /\ y.operations \in Seq(Operation) /\ Len(y.operations) = Len(x.operations) + 1
        /\ \A i \in 1..Len(x.operations) : y.operations[i] = x.operations[i]
        /\ y.operations[Len(x.operations) + 1] = op
    <3>1. op \in Operation /\ x.operations \in Seq(Operation) BY <2>1, <2>2
    <3>2. /\ Append(x.operations, op) \in Seq(Operation)
          /\ Len(Append(x.operations, op)) = Len(x.operations) + 1
          /\ \A i \in 1..Len(x.operations) : Append(x.operations, op)[i] = x.operations[i]
          /\ Append(x.operations, op)[Len(x.operations) + 1] = op
      BY ONLY <3>1, AppendProperties
    <3> QED BY <2>2, <3>2
  <2>5. y.owners \in Seq(Node) /\ Len(y.owners) = Len(x.operations) + 1
    <3>1. x.owners \in Seq(Node) BY <2>1
    <3>2. /\ Append(x.owners, e.node) \in Seq(Node)
          /\ Len(Append(x.owners, e.node)) = Len(x.owners) + 1
      BY ONLY <2>3, <3>1, AppendProperties
    <3> QED BY <2>1, <2>2, <3>2
  <2>6. y.ok \in BOOLEAN BY <2>2
  <2>7. y \in Extraction
    <3>1. [operations |-> y.operations, owners |-> y.owners, ok |-> y.ok] \in Extraction
      BY <2>4, <2>5, <2>6 DEF Extraction
    <3> QED BY <2>2, <3>1
  <2>8. ASSUME NEW i \in DOMAIN y.operations
        PROVE  /\ y.operations[i].id[1] = y.operations[i].kind
               /\ y.operations[i].kind = "write" => y.operations[i].value # ""
    <3>1. DOMAIN y.operations = 1..Len(y.operations) BY <2>4, LenProperties
    <3>2. i \in 1..Len(x.operations) \/ i = Len(x.operations) + 1 BY <2>1, <2>4, <3>1
    <3>3. CASE i \in 1..Len(x.operations) BY <2>1, <2>4, <3>3 DEF WellFormed
    <3>4. CASE i = Len(x.operations) + 1 BY <2>2, <2>4, <3>4
    <3> QED BY <3>2, <3>3, <3>4
  <2>9. WellFormed(y) BY <2>4, <2>5, <2>7, <2>8 DEF WellFormed
  <2> QED BY <2>9 DEF y
<1> QED BY <1>1, <1>2

\* What a node may show as returned.
LEMMA ReturnTypes ==
  ASSUME NEW state \in Shown, NEW r \in Returns(state)
  PROVE  /\ r = [id |-> r.id, value |-> r.value] /\ r.value \in Text
         /\ r.id \in {"read", "write"} \X Context
         /\ r.id[1] = "write" => r.value = ""
<1>1. /\ state.completed \in Seq([context : Context, value : Text])
      /\ state.writes \in Seq([context : Context, completed : 0..2])
  BY DEF Shown
<1>2. CASE \E i \in DOMAIN state.completed :
             r = [id |-> <<"read", state.completed[i].context>>, value |-> state.completed[i].value]
  <2>1. PICK i \in DOMAIN state.completed :
          r = [id |-> <<"read", state.completed[i].context>>, value |-> state.completed[i].value]
    BY <1>2
  <2>2. DOMAIN state.completed = 1..Len(state.completed) BY <1>1, LenProperties
  <2>3. state.completed[i] \in [context : Context, value : Text] BY <1>1, <2>2, ElementOfSeq
  <2> DEFINE c == state.completed[i].context
             v == state.completed[i].value
  <2>4. c \in Context /\ v \in Text BY <2>3
  <2>5. r = [id |-> <<"read", c>>, value |-> v] BY <2>1
  <2> HIDE DEF c, v
  <2>6. <<"read", c>> \in {"read", "write"} \X Context /\ <<"read", c>>[1] = "read" BY <2>4
  <2> QED BY <2>4, <2>5, <2>6
<1>3. CASE \E i \in CompletedWrites(state) :
             r = [id |-> <<"write", state.writes[i].context>>, value |-> ""]
  <2>1. PICK i \in DOMAIN state.writes :
          r = [id |-> <<"write", state.writes[i].context>>, value |-> ""]
    BY <1>3 DEF CompletedWrites
  <2>2. DOMAIN state.writes = 1..Len(state.writes) BY <1>1, LenProperties
  <2>3. state.writes[i] \in [context : Context, completed : 0..2] BY <1>1, <2>2, ElementOfSeq
  <2> DEFINE c == state.writes[i].context
  <2>4. c \in Context BY <2>3
  <2>5. r = [id |-> <<"write", c>>, value |-> ""] BY <2>1
  <2> HIDE DEF c
  <2>6. <<"write", c>> \in {"read", "write"} \X Context BY <2>4
  <2>7. "" \in Text BY HexAssumption
  <2> QED BY <2>5, <2>6, <2>7
<1> QED BY <1>2, <1>3 DEF Returns

\* An operation after an event has shown its return, if it has.
Answered(x, e, i) ==
  LET returns == {r \in Returns(e.reads[x.owners[i]]) : r.id = x.operations[i].id}
  IN IF Done(x.operations[i]) \/ returns = {} THEN x.operations[i]
     ELSE [x.operations[i] EXCEPT !.returned = e.seq,
                                  !.result = Hex[(CHOOSE r \in returns : TRUE).value]]

LEMMA AnsweredTypes ==
  ASSUME NEW x, WellFormed(x), NEW e, IsEvent(e), NEW i \in DOMAIN x.operations
  PROVE  /\ Answered(x, e, i) \in Operation
         /\ Answered(x, e, i).id = x.operations[i].id
         /\ Answered(x, e, i).kind = x.operations[i].kind
         /\ Answered(x, e, i).value = x.operations[i].value
         /\ Answered(x, e, i).invoked = x.operations[i].invoked
         /\ \/ Answered(x, e, i) = x.operations[i]
            \/ \E r \in Returns(e.reads[x.owners[i]]) :
                 /\ ~Done(x.operations[i]) /\ r.id = x.operations[i].id
                 /\ Answered(x, e, i).returned = e.seq
                 /\ Answered(x, e, i).result = Hex[r.value]
<1> DEFINE op == x.operations[i]
           R == {r \in Returns(e.reads[x.owners[i]]) : r.id = op.id}
           c == CHOOSE r \in R : TRUE
<1>1. op \in Operation /\ x.owners[i] \in Node BY ExtractionPositions
<1>2. e.seq \in Nat /\ e.reads[x.owners[i]] \in Shown BY <1>1 DEF IsEvent
<1>3. Answered(x, e, i) =
        IF Done(op) \/ R = {} THEN op
        ELSE [op EXCEPT !.returned = e.seq, !.result = Hex[c.value]]
  BY DEF Answered
<1>4. CASE Done(op) \/ R = {} BY <1>1, <1>3, <1>4
<1>5. CASE ~(Done(op) \/ R = {})
  <2>1. c \in R BY <1>5
  <2>2. c.value \in Text BY <1>2, <2>1, ReturnTypes
  <2>3. Hex[c.value] \in Encoded BY <2>2, EncodedValue
  <2> DEFINE h == Hex[c.value]
             a == [op EXCEPT !.returned = e.seq, !.result = h]
  <2>4. Answered(x, e, i) = a BY <1>3, <1>5
  <2>5. /\ a \in Operation /\ a.id = op.id /\ a.kind = op.kind /\ a.value = op.value
        /\ a.invoked = op.invoked /\ a.returned = e.seq /\ a.result = h
    <3>1. h \in Encoded BY <2>3
    <3> HIDE DEF h, op
    <3> QED BY <1>1, <1>2, <3>1 DEF Operation
  <2> HIDE DEF a
  <2> QED BY <1>5, <2>1, <2>4, <2>5
<1> QED BY <1>4, <1>5

LEMMA ReturnsAnswer ==
  ASSUME NEW x, WellFormed(x), NEW e, IsEvent(e)
  PROVE  LET z == ExtractReturns(x, e)
         IN  /\ WellFormed(z)
             /\ z.owners = x.owners
             /\ z.ok = (x.ok /\ \A n \in Node : PlausibleReturns(x, e, n))
             /\ DOMAIN z.operations = DOMAIN x.operations
             /\ \A i \in DOMAIN x.operations : z.operations[i] = Answered(x, e, i)
<1> DEFINE z == ExtractReturns(x, e)
           ops == [i \in DOMAIN x.operations |-> Answered(x, e, i)]
           ok == x.ok /\ \A n \in Node : PlausibleReturns(x, e, n)
<1>1. /\ x.operations \in Seq(Operation) /\ x.owners \in Seq(Node)
      /\ x = [operations |-> x.operations, owners |-> x.owners, ok |-> x.ok]
      /\ Len(x.operations) \in Nat /\ DOMAIN x.operations = 1..Len(x.operations)
      /\ x.ok \in BOOLEAN
  BY ExtractionPositions
<1>2. z = [x EXCEPT !.operations = ops, !.ok = ok] BY DEF ExtractReturns, Answered
<1>3. ops \in Seq(Operation) /\ Len(ops) = Len(x.operations)
  <2>1. ops \in [1..Len(x.operations) -> Operation]
    BY <1>1, AnsweredTypes
  <2> HIDE DEF ops
  <2> QED BY <1>1, <2>1
<1>4. ok \in BOOLEAN OBVIOUS
<1>5. DOMAIN ops = DOMAIN x.operations /\ \A i \in DOMAIN x.operations : ops[i] = Answered(x, e, i)
  OBVIOUS
<1> HIDE DEF ops, ok, z
<1>6. z = [operations |-> ops, owners |-> x.owners, ok |-> ok] BY <1>1, <1>2
<1>7. z.operations = ops /\ z.owners = x.owners /\ z.ok = ok BY <1>6
<1>8. z \in Extraction BY <1>1, <1>3, <1>4, <1>6 DEF Extraction
<1>9. Len(z.owners) = Len(z.operations) BY <1>3, <1>7 DEF WellFormed
<1>10. \A i \in DOMAIN z.operations :
         /\ z.operations[i].id[1] = z.operations[i].kind
         /\ z.operations[i].kind = "write" => z.operations[i].value # ""
  <2>1. \A i \in DOMAIN x.operations :
          /\ Answered(x, e, i).id = x.operations[i].id
          /\ Answered(x, e, i).kind = x.operations[i].kind
          /\ Answered(x, e, i).value = x.operations[i].value
    BY AnsweredTypes
  <2>2. \A i \in DOMAIN x.operations :
          /\ x.operations[i].id[1] = x.operations[i].kind
          /\ x.operations[i].kind = "write" => x.operations[i].value # ""
    BY DEF WellFormed
  <2> QED BY <1>5, <1>7, <2>1, <2>2
<1>11. WellFormed(z) BY <1>8, <1>9, <1>10 DEF WellFormed
<1> QED BY <1>5, <1>7, <1>11 DEF z, ok

LEMMA ExtractWellFormed ==
  ASSUME NEW x, WellFormed(x), NEW e, IsEvent(e)
  PROVE  WellFormed(Extract(x, e))
<1>1. WellFormed(ExtractInvocation(x, e)) BY InvocationWellFormed
<1> DEFINE y == ExtractInvocation(x, e)
<1> HIDE DEF y
<1>2. WellFormed(ExtractReturns(y, e)) BY <1>1, ReturnsAnswer DEF y
<1> QED BY <1>2 DEF Extract, y

-----------------------------------------------------------------------------
(***************************************************************************)
(* Types.                                                                  *)
(***************************************************************************)
Phase == {"trace", "search", "linearizable", "refuted", "refused"}

HistoryTypeOK ==
  /\ now \in Nat /\ shown \in [Node -> Shown] /\ WellFormed(extracted)
  /\ faulty \in BOOLEAN /\ phase \in Phase
  /\ negative \in {"none", "future-value", "stale-value"}

\* What the type invariant says of the operations.
LEMMA OperationTypes ==
  ASSUME HistoryTypeOK
  PROVE  /\ operations \in Seq(Operation) /\ Len(operations) \in Nat
         /\ DOMAIN operations = 1..Len(operations)
         /\ \A i \in DOMAIN operations :
              /\ operations[i] \in Operation /\ extracted.owners[i] \in Node
              /\ operations[i].id[1] = operations[i].kind
              /\ operations[i].id[2] \in Context
              /\ operations[i].kind = "write" => operations[i].value # ""
<1> DEFINE x == extracted
<1>1. WellFormed(x) BY DEF HistoryTypeOK
<1> HIDE DEF x
<1>2. /\ x.operations \in Seq(Operation) /\ Len(x.operations) \in Nat
      /\ DOMAIN x.operations = 1..Len(x.operations)
      /\ \A i \in DOMAIN x.operations : x.operations[i] \in Operation /\ x.owners[i] \in Node
  BY <1>1, ExtractionPositions
<1>3. \A i \in DOMAIN x.operations :
        /\ x.operations[i].id[1] = x.operations[i].kind
        /\ x.operations[i].kind = "write" => x.operations[i].value # ""
  BY <1>1 DEF WellFormed
<1>4. \A op \in Operation : op.id[2] \in Context
  <2> SUFFICES ASSUME NEW op \in Operation PROVE op.id[2] \in Context OBVIOUS
  <2>1. op.id \in {"read", "write"} \X Context BY DEF Operation
  <2> QED BY <2>1
<1> QED BY <1>2, <1>3, <1>4 DEF operations, x

\* An event is observed.
LEMMA ObserveTypes ==
  ASSUME HistoryTypeOK, NEW e, IsEvent(e), NEW fault \in BOOLEAN, Observe(e, fault)
  PROVE  HistoryTypeOK'
<1>1. now' \in Nat BY DEF HistoryTypeOK, Observe
<1>2. shown' \in [Node -> Shown] BY DEF Observe, IsEvent
<1>3. WellFormed(extracted')
  <2>1. WellFormed(extracted) /\ extracted' = Extract(extracted, e) BY DEF HistoryTypeOK, Observe
  <2> QED BY <2>1, ExtractWellFormed
<1>4. faulty' \in BOOLEAN /\ phase' \in Phase /\ negative' = negative BY DEF Observe, Phase
<1> QED BY <1>1, <1>2, <1>3, <1>4 DEF HistoryTypeOK

\* The event a client's request or a callback writes.
LEMMA EventTypes ==
  ASSUME HistoryTypeOK, NEW kind, NEW n \in Node, NEW c, NEW v, NEW state \in Shown,
         kind \in {"read", "propose"} => c \in Context,
         kind = "propose" => v \in Text /\ v # "",
         NEW reads, reads = [shown EXCEPT ![n] = state]
  PROVE  IsEvent(Event(kind, n, c, v, reads))
<1> DEFINE e == Event(kind, n, c, v, reads)
<1>1. /\ e.kind = kind /\ e.seq = now /\ e.node = n /\ e.context = c /\ e.value = v
      /\ e.reads = reads
  BY DEF Event
<1>2. now \in Nat /\ shown \in [Node -> Shown] BY DEF HistoryTypeOK
<1>3. reads \in [Node -> Shown] BY <1>2
<1> HIDE DEF e
<1>4. IsEvent(e) BY <1>1, <1>2, <1>3 DEF IsEvent
<1> QED BY <1>4 DEF e

\* One node's state in what is shown.
LEMMA ShownTypes ==
  ASSUME HistoryTypeOK, NEW n \in Node
  PROVE  /\ shown[n] \in Shown
         /\ shown[n].completed \in Seq([context : Context, value : Text])
         /\ shown[n].writes \in Seq([context : Context, completed : 0..2])
         /\ shown[n] = [completed |-> shown[n].completed, writes |-> shown[n].writes]
         /\ [shown EXCEPT ![n] = shown[n]] = shown
<1>1. shown[n] \in Shown BY DEF HistoryTypeOK
<1>2. [shown EXCEPT ![n] = shown[n]] = shown BY DEF HistoryTypeOK
<1> DEFINE s == shown[n]
<1> HIDE DEF s
<1>3. /\ s.completed \in Seq([context : Context, value : Text])
      /\ s.writes \in Seq([context : Context, completed : 0..2])
      /\ s = [completed |-> s.completed, writes |-> s.writes]
  BY <1>1 DEF Shown, s
<1> QED BY <1>1, <1>2, <1>3 DEF s

\* An event after which node n shows a state.
Traced(kind, n, c, v, state, fault) ==
  Observe(Event(kind, n, c, v, [shown EXCEPT ![n] = state]), fault)

LEMMA InvokeReadTraced ==
  ASSUME HistoryTypeOK, NEW n \in Node, NEW c \in Context, InvokeRead(n, c)
  PROVE  Traced("read", n, c, "", shown[n], c \in Used("read"))
<1>1. [shown EXCEPT ![n] = shown[n]] = shown BY ShownTypes
<1> QED BY <1>1 DEF InvokeRead, Traced

\* The proposal's entry among the writes node n shows.
Proposed(n, c) ==
  [completed |-> shown[n].completed,
   writes |-> Append(shown[n].writes, [context |-> c, completed |-> 0])]

LEMMA ProposeTraced ==
  ASSUME HistoryTypeOK, NEW n \in Node, NEW c \in Context, NEW v \in Text, Propose(n, c, v)
  PROVE  Proposed(n, c) \in Shown /\ v # ""
         /\ Traced("propose", n, c, v, Proposed(n, c), c \in Used("write"))
<1> DEFINE s == shown[n]
           w == Append(s.writes, [context |-> c, completed |-> 0])
<1>0. shown \in [Node -> Shown] BY DEF HistoryTypeOK
<1>1. /\ s.completed \in Seq([context : Context, value : Text])
      /\ s.writes \in Seq([context : Context, completed : 0..2])
      /\ s = [completed |-> s.completed, writes |-> s.writes]
  BY ShownTypes
<1>2. w \in Seq([context : Context, completed : 0..2])
  <2>1. [context |-> c, completed |-> 0] \in [context : Context, completed : 0..2] OBVIOUS
  <2> HIDE DEF s
  <2> QED BY <1>1, <2>1, AppendProperties
<1>3. [shown EXCEPT ![n].writes = Append(@, [context |-> c, completed |-> 0])]
        = [shown EXCEPT ![n] = [s EXCEPT !.writes = w]]
  BY <1>0
<1> HIDE DEF w
<1>4. [s EXCEPT !.writes = w] = [completed |-> s.completed, writes |-> w]
  <2> HIDE DEF s
  <2> QED BY <1>1
<1>5. Proposed(n, c) = [s EXCEPT !.writes = w] BY <1>4 DEF Proposed, w
<1>6. Proposed(n, c) \in Shown
  <2> HIDE DEF s
  <2> QED BY <1>1, <1>2, <1>4, <1>5 DEF Shown
<1>7. /\ v # ""
      /\ Observe(Event("propose", n, c, v,
                       [shown EXCEPT ![n].writes = Append(@, [context |-> c, completed |-> 0])]),
                 c \in Used("write"))
  BY DEF Propose
<1> QED BY <1>3, <1>5, <1>6, <1>7 DEF Traced

\* The writes of a batch, among those node n shows.
AppliedWrites(n, is) ==
  [completed |-> shown[n].completed,
   writes |-> [k \in DOMAIN shown[n].writes |->
                 IF shown[n].writes[k].context \in {ContextOf(i) : i \in is}
                 THEN [shown[n].writes[k] EXCEPT !.completed = 1] ELSE shown[n].writes[k]]]

LEMMA ApplyTraced ==
  ASSUME HistoryTypeOK, NEW n \in Node, NEW is, Apply(n, is)
  PROVE  AppliedWrites(n, is) \in Shown /\ Traced("apply", n, "", "", AppliedWrites(n, is), FALSE)
<1> DEFINE s == shown[n]
           W == [context : Context, completed : 0..2]
           w == [k \in DOMAIN s.writes |->
                   IF s.writes[k].context \in {ContextOf(i) : i \in is}
                   THEN [s.writes[k] EXCEPT !.completed = 1] ELSE s.writes[k]]
<1>0. shown \in [Node -> Shown] BY DEF HistoryTypeOK
<1>1. /\ s.completed \in Seq([context : Context, value : Text])
      /\ s.writes \in Seq(W)
      /\ s = [completed |-> s.completed, writes |-> s.writes]
  BY ShownTypes
<1>2. w \in Seq(W)
  <2>1. DOMAIN s.writes = 1..Len(s.writes) /\ Len(s.writes) \in Nat BY <1>1, LenProperties
  <2>2. \A k \in 1..Len(s.writes) : s.writes[k] \in W
    <3> HIDE DEF W, s
    <3> QED BY <1>1, ElementOfSeq
  <2>3. \A r \in W : [r EXCEPT !.completed = 1] \in W OBVIOUS
  <2>4. w \in [1..Len(s.writes) -> W]
    <3> HIDE DEF W, s
    <3> QED BY <2>1, <2>2, <2>3
  <2> HIDE DEF w, W, s
  <2> QED BY <2>1, <2>4
<1>3. [shown EXCEPT ![n].writes =
         [k \in DOMAIN @ |-> IF @[k].context \in {ContextOf(i) : i \in is}
                             THEN [@[k] EXCEPT !.completed = 1] ELSE @[k]]]
        = [shown EXCEPT ![n] = [s EXCEPT !.writes = w]]
  BY <1>0
<1>5. AppliedWrites(n, is) = [completed |-> s.completed, writes |-> w] BY DEF AppliedWrites
<1>7. Observe(Event("apply", n, "", "",
                    [shown EXCEPT ![n].writes =
                       [k \in DOMAIN @ |-> IF @[k].context \in {ContextOf(i) : i \in is}
                                           THEN [@[k] EXCEPT !.completed = 1] ELSE @[k]]]), FALSE)
  BY DEF Apply
<1>8. Observe(Event("apply", n, "", "", [shown EXCEPT ![n] = [s EXCEPT !.writes = w]]), FALSE)
  BY <1>3, <1>7
<1> HIDE DEF w
<1>4. [s EXCEPT !.writes = w] = [completed |-> s.completed, writes |-> w]
  <2> HIDE DEF s
  <2> QED BY <1>1
<1>6. AppliedWrites(n, is) \in Shown
  <2> HIDE DEF s
  <2> QED BY <1>1, <1>2, <1>5 DEF Shown
<1> QED BY <1>4, <1>5, <1>6, <1>8 DEF Traced

\* The read's entry among those node n shows as completed.
ReadShown(n, c, v) ==
  [completed |-> Append(shown[n].completed, [context |-> c, value |-> v]),
   writes |-> shown[n].writes]

LEMMA ReadShownTypes ==
  ASSUME HistoryTypeOK, NEW n \in Node, NEW c \in Context, NEW v \in Text
  PROVE  /\ ReadShown(n, c, v) \in Shown
         /\ [shown[n] EXCEPT !.completed = Append(@, [context |-> c, value |-> v])]
              = ReadShown(n, c, v)
<1> DEFINE s == shown[n]
           R == [context : Context, value : Text]
           r == [context |-> c, value |-> v]
<1>1. /\ s.completed \in Seq(R) /\ s.writes \in Seq([context : Context, completed : 0..2])
      /\ s = [completed |-> s.completed, writes |-> s.writes]
  BY ShownTypes
<1>2. Append(s.completed, r) \in Seq(R)
  <2>1. r \in R OBVIOUS
  <2> HIDE DEF s, r, R
  <2> QED BY <1>1, <2>1, AppendProperties
<1>3. ReadShown(n, c, v) = [completed |-> Append(s.completed, r), writes |-> s.writes]
  BY DEF ReadShown
<1> DEFINE a == Append(s.completed, r)
<1>4. a \in Seq(R) /\ ReadShown(n, c, v) = [completed |-> a, writes |-> s.writes] BY <1>2, <1>3
<1>5. [s EXCEPT !.completed = Append(@, r)] = [s EXCEPT !.completed = a] OBVIOUS
<1> HIDE DEF a, s
<1>6. [s EXCEPT !.completed = a] = [completed |-> a, writes |-> s.writes] BY <1>1
<1>7. ReadShown(n, c, v) \in Shown BY <1>1, <1>4 DEF Shown
<1> QED BY <1>4, <1>5, <1>6, <1>7 DEF s

LEMMA CompleteReadTraced ==
  ASSUME HistoryTypeOK, NEW n \in Node, NEW v \in Text, NEW i \in Owed(n, "read"),
         CompleteRead(n, i, v)
  PROVE  /\ ContextOf(i) \in Context /\ ReadShown(n, ContextOf(i), v) \in Shown
         /\ Traced("complete_reads", n, "", "", ReadShown(n, ContextOf(i), v), FALSE)
<1> DEFINE c == ContextOf(i)
           r == [context |-> c, value |-> v]
<1>0. shown \in [Node -> Shown] BY DEF HistoryTypeOK
<1>1. c \in Context BY OperationTypes DEF Owed, ContextOf
<1>2. /\ ReadShown(n, c, v) \in Shown
      /\ [shown[n] EXCEPT !.completed = Append(@, r)] = ReadShown(n, c, v)
  BY <1>1, ReadShownTypes
<1>3. Observe(Event("complete_reads", n, "", "", [shown EXCEPT ![n].completed = Append(@, r)]), FALSE)
  BY DEF CompleteRead
<1>4. [shown EXCEPT ![n].completed = Append(@, r)]
        = [shown EXCEPT ![n] = [shown[n] EXCEPT !.completed = Append(@, r)]]
  BY <1>0
<1> QED BY <1>1, <1>2, <1>3, <1>4 DEF Traced

\* A read withdrawn, a read with another value, a write with another mark.
Withdrawn(n, k) ==
  [completed |-> RemoveAt(shown[n].completed, k), writes |-> shown[n].writes]

Revalued(n, k, v) ==
  [completed |-> [shown[n].completed EXCEPT ![k] =
                    [context |-> shown[n].completed[k].context, value |-> v]],
   writes |-> shown[n].writes]

Remarked(n, k, d) ==
  [completed |-> shown[n].completed,
   writes |-> [shown[n].writes EXCEPT ![k] =
                 [context |-> shown[n].writes[k].context, completed |-> d]]]

\* A sequence without its element k: the others move up.
LEMMA RemoveAtProperties ==
  ASSUME NEW S, NEW s \in Seq(S), NEW k \in 1..Len(s)
  PROVE  /\ RemoveAt(s, k) \in Seq(S) /\ Len(RemoveAt(s, k)) = Len(s) - 1
         /\ \A j \in 1..(Len(s) - 1) : RemoveAt(s, k)[j] = IF j < k THEN s[j] ELSE s[j + 1]
<1> DEFINE a == SubSeq(s, 1, k - 1)
           b == SubSeq(s, k + 1, Len(s))
<1>1. Len(s) \in Nat /\ k \in Nat /\ k - 1 \in Nat /\ Len(s) - k \in Nat BY LenProperties
<1>2. a \in Seq(S) /\ Len(a) = k - 1 /\ \A j \in 1..(k - 1) : a[j] = s[j]
  <2>1. a = [j \in 1..(k - 1) |-> s[j]] BY <1>1
  <2>2. \A j \in 1..(k - 1) : j \in 1..Len(s) BY <1>1
  <2>3. \A j \in 1..(k - 1) : s[j] \in S BY <2>2, ElementOfSeq
  <2>4. a \in [1..(k - 1) -> S] BY <2>1, <2>3
  <2> HIDE DEF a
  <2> QED BY <1>1, <2>1, <2>4
<1>3. b \in Seq(S) /\ Len(b) = Len(s) - k /\ \A j \in 1..(Len(s) - k) : b[j] = s[j + k]
  <2>1. b = [j \in 1..(Len(s) - k) |-> s[j + k]]
    <3>1. b = [j \in 1..(1 + Len(s) - (k + 1)) |-> s[(k + 1) + j - 1]] BY <1>1 DEF SubSeq
    <3>2. 1 + Len(s) - (k + 1) = Len(s) - k /\ \A j \in 1..(Len(s) - k) : (k + 1) + j - 1 = j + k
      BY <1>1
    <3> HIDE DEF b
    <3> QED BY <3>1, <3>2
  <2>2. \A j \in 1..(Len(s) - k) : j + k \in 1..Len(s) BY <1>1
  <2>3. \A j \in 1..(Len(s) - k) : s[j + k] \in S BY <2>2, ElementOfSeq
  <2>4. b \in [1..(Len(s) - k) -> S] BY <2>1, <2>3
  <2> HIDE DEF b
  <2> QED BY <1>1, <2>1, <2>4
<1>4. RemoveAt(s, k) = a \o b BY DEF RemoveAt
<1> HIDE DEF a, b
<1>5. /\ a \o b \in Seq(S) /\ Len(a \o b) = Len(a) + Len(b)
      /\ \A j \in 1..(Len(a) + Len(b)) : (a \o b)[j] = IF j <= Len(a) THEN a[j] ELSE b[j - Len(a)]
  BY <1>2, <1>3, ConcatProperties
<1>6. Len(a) + Len(b) = Len(s) - 1 BY <1>1, <1>2, <1>3
<1>7. ASSUME NEW j \in 1..(Len(s) - 1)
      PROVE  (a \o b)[j] = IF j < k THEN s[j] ELSE s[j + 1]
  <2>1. j \in 1..(Len(a) + Len(b)) BY <1>6
  <2>2. CASE j < k
    <3>1. j <= Len(a) /\ j \in 1..(k - 1) BY <1>1, <1>2, <2>2
    <3> QED BY <1>2, <1>5, <2>1, <2>2, <3>1
  <2>3. CASE ~ (j < k)
    <3>1. ~ (j <= Len(a)) /\ j - Len(a) \in 1..(Len(s) - k) /\ (j - Len(a)) + k = j + 1
      BY <1>1, <1>2, <2>3
    <3> QED BY <1>3, <1>5, <2>1, <2>3, <3>1
  <2> QED BY <2>2, <2>3
<1> QED BY <1>4, <1>5, <1>6, <1>7

LEMMA ForgedStates ==
  ASSUME HistoryTypeOK, NEW n \in Node, NEW state \in Forged(n)
  PROVE  /\ state \in Shown
         /\ \/ \E c \in Context, v \in Text : state = ReadShown(n, c, v)
            \/ \E k \in 1..Len(shown[n].completed) : state = Withdrawn(n, k)
            \/ \E k \in 1..Len(shown[n].completed), v \in Text : state = Revalued(n, k, v)
            \/ \E k \in 1..Len(shown[n].writes), d \in 0..2 : state = Remarked(n, k, d)
<1> DEFINE s == shown[n]
           R == [context : Context, value : Text]
           W == [context : Context, completed : 0..2]
           C == s.completed
           w == s.writes
<1>1. C \in Seq(R) /\ w \in Seq(W) /\ s = [completed |-> C, writes |-> w] BY ShownTypes
<1>2. /\ DOMAIN C = 1..Len(C) /\ Len(C) \in Nat /\ DOMAIN w = 1..Len(w) /\ Len(w) \in Nat
      /\ \A k \in 1..Len(C) : C[k] \in R
      /\ \A k \in 1..Len(w) : w[k] \in W
  <2> HIDE DEF C, w, R, W
  <2> QED BY <1>1, LenProperties, ElementOfSeq
<1>3. CASE \E c \in Context, v \in Text :
             state = [s EXCEPT !.completed = Append(@, [context |-> c, value |-> v])]
  BY <1>3, ReadShownTypes
<1>4. CASE \E k \in DOMAIN C : state = [s EXCEPT !.completed = RemoveAt(@, k)]
  <2>1. PICK k \in DOMAIN C : state = [s EXCEPT !.completed = RemoveAt(@, k)] BY <1>4
  <2> DEFINE a == RemoveAt(C, k)
  <2>2. state = [s EXCEPT !.completed = a] BY <2>1
  <2>3. k \in 1..Len(C) BY <1>2
  <2>4. a \in Seq(R)
    <3> HIDE DEF C, R
    <3> QED BY <1>1, <2>3, RemoveAtProperties
  <2>5. Withdrawn(n, k) = [completed |-> a, writes |-> w] BY DEF Withdrawn
  <2> HIDE DEF a, C, w, s
  <2>6. state = [completed |-> a, writes |-> w] BY <1>1, <2>2
  <2>7. state \in Shown BY <1>1, <2>4, <2>6 DEF Shown
  <2> QED BY <2>3, <2>5, <2>6, <2>7 DEF C, s
<1>5. CASE \E k \in DOMAIN C, v \in Text : state = [s EXCEPT !.completed[k].value = v]
  <2>1. PICK k \in DOMAIN C, v \in Text : state = [s EXCEPT !.completed[k].value = v] BY <1>5
  <2> DEFINE r == [context |-> C[k].context, value |-> v]
             a == [C EXCEPT ![k] = r]
  <2>2. k \in 1..Len(C) BY <1>2
  <2>3. [C[k] EXCEPT !.value = v] = r /\ r \in R BY <1>2, <2>2
  <2>4. state = [s EXCEPT !.completed = [C EXCEPT ![k] = [C[k] EXCEPT !.value = v]]] BY <2>1
  <2>5. state = [s EXCEPT !.completed = a] BY <2>3, <2>4
  <2>6. a \in Seq(R)
    <3> HIDE DEF r, R, C
    <3> QED BY <1>1, <2>2, <2>3, ExceptSeq
  <2>7. Revalued(n, k, v) = [completed |-> a, writes |-> w] BY DEF Revalued
  <2> HIDE DEF a, C, w, s
  <2>8. state = [completed |-> a, writes |-> w] BY <1>1, <2>5
  <2>9. state \in Shown BY <1>1, <2>6, <2>8 DEF Shown
  <2> QED BY <2>2, <2>7, <2>8, <2>9 DEF C, s
<1>6. CASE \E k \in DOMAIN w, d \in 0..2 : state = [s EXCEPT !.writes[k].completed = d]
  <2>1. PICK k \in DOMAIN w, d \in 0..2 : state = [s EXCEPT !.writes[k].completed = d] BY <1>6
  <2> DEFINE r == [context |-> w[k].context, completed |-> d]
             a == [w EXCEPT ![k] = r]
  <2>2. k \in 1..Len(w) BY <1>2
  <2>3. [w[k] EXCEPT !.completed = d] = r /\ r \in W BY <1>2, <2>2
  <2>4. state = [s EXCEPT !.writes = [w EXCEPT ![k] = [w[k] EXCEPT !.completed = d]]] BY <2>1
  <2>5. state = [s EXCEPT !.writes = a] BY <2>3, <2>4
  <2>6. a \in Seq(W)
    <3> HIDE DEF r, W, w
    <3> QED BY <1>1, <2>2, <2>3, ExceptSeq
  <2>7. Remarked(n, k, d) = [completed |-> C, writes |-> a] BY DEF Remarked
  <2> HIDE DEF a, C, w, s
  <2>8. state = [completed |-> C, writes |-> a] BY <1>1, <2>5
  <2>9. state \in Shown BY <1>1, <2>6, <2>8 DEF Shown
  <2> QED BY <2>2, <2>7, <2>8, <2>9 DEF w, s
<1>8. \/ \E c \in Context, v \in Text :
           state = [s EXCEPT !.completed = Append(@, [context |-> c, value |-> v])]
      \/ \E k \in DOMAIN C : state = [s EXCEPT !.completed = RemoveAt(@, k)]
      \/ \E k \in DOMAIN C, v \in Text : state = [s EXCEPT !.completed[k].value = v]
      \/ \E k \in DOMAIN w, d \in 0..2 : state = [s EXCEPT !.writes[k].completed = d]
  <2> DEFINE A(c, v) == [s EXCEPT !.completed = Append(@, [context |-> c, value |-> v])]
             B(k) == [s EXCEPT !.completed = RemoveAt(@, k)]
             D(k, v) == [s EXCEPT !.completed[k].value = v]
             E(k, d) == [s EXCEPT !.writes[k].completed = d]
  <2>1. Forged(n) = {A(c, v) : c \in Context, v \in Text} \cup {B(k) : k \in DOMAIN C}
                      \cup {D(k, v) : k \in DOMAIN C, v \in Text}
                      \cup {E(k, d) : k \in DOMAIN w, d \in 0..2}
    BY DEF Forged
  <2>2. \/ \E c \in Context, v \in Text : state = A(c, v)
        \/ \E k \in DOMAIN C : state = B(k)
        \/ \E k \in DOMAIN C, v \in Text : state = D(k, v)
        \/ \E k \in DOMAIN w, d \in 0..2 : state = E(k, d)
    <3> HIDE DEF A, B, D, E, C, w
    <3> QED BY <2>1
  <2> QED BY <2>2
<1> QED BY <1>3, <1>4, <1>5, <1>6, <1>8

\* The read a mutation changes, and the result it gets.
Target(name) == Min(IF name = "future-value" THEN Early ELSE Late)

Planted(name) == IF name = "future-value" THEN operations[Min(Writes)].value ELSE ""

LEMMA MutationTypes ==
  ASSUME HistoryTypeOK, NEW name \in {"future-value", "stale-value"},
         Writes # {}, Early # {}, Late # {}
  PROVE  /\ Target(name) \in CompletedReads
         /\ name = "future-value" => Target(name) \in Early /\ Planted(name) # ""
         /\ name # "future-value" => Target(name) \in Late /\ Planted(name) = ""
         /\ Mutation(name) \in Seq(Operation) /\ Len(Mutation(name)) = Len(operations)
         /\ DOMAIN Mutation(name) = DOMAIN operations
         /\ \A i \in DOMAIN operations :
              /\ Mutation(name)[i].id = operations[i].id
              /\ Mutation(name)[i].kind = operations[i].kind
              /\ Mutation(name)[i].value = operations[i].value
              /\ Mutation(name)[i].invoked = operations[i].invoked
              /\ Mutation(name)[i].returned = operations[i].returned
              /\ Mutation(name)[i].result = IF operations[i].id = operations[Target(name)].id
                                            THEN Planted(name) ELSE operations[i].result
<1> DEFINE T == IF name = "future-value" THEN Early ELSE Late
           t == Target(name)
           v == Planted(name)
           ops == operations
           M == Mutation(name)
<1>1. /\ ops \in Seq(Operation) /\ Len(ops) \in Nat /\ DOMAIN ops = 1..Len(ops)
      /\ \A i \in DOMAIN ops : ops[i] \in Operation
      /\ \A i \in DOMAIN ops : ops[i].kind = "write" => ops[i].value # ""
  BY OperationTypes
<1>2. \A S \in SUBSET Nat : S # {} => Min(S) \in S BY LeastExists DEF Min
<1>3. /\ Early \subseteq CompletedReads /\ Late \subseteq CompletedReads
      /\ CompletedReads \subseteq DOMAIN ops /\ Writes \subseteq DOMAIN ops
      /\ DOMAIN ops \subseteq Nat
  <2>1. Early \subseteq CompletedReads /\ Late \subseteq CompletedReads BY DEF Early, Late
  <2>2. CompletedReads \subseteq DOMAIN ops /\ Writes \subseteq DOMAIN ops
    BY DEF CompletedReads, Writes
  <2>3. DOMAIN ops \subseteq Nat
    <3>1. DOMAIN ops = 1..Len(ops) BY <1>1
    <3> QED BY ONLY <3>1
  <2> QED BY <2>1, <2>2, <2>3
<1>4. t \in T /\ T \subseteq CompletedReads
  <2>1. T # {} /\ T \subseteq CompletedReads BY <1>3
  <2>2. T \in SUBSET Nat BY <1>3, <2>1
  <2>3. t = Min(T) BY DEF Target
  <2> HIDE DEF T, t
  <2> QED BY <1>2, <2>1, <2>2, <2>3
<1>5. Min(Writes) \in Writes BY <1>2, <1>3
<1>6. v \in Encoded /\ (name = "future-value" => v # "") /\ (name # "future-value" => v = "")
  <2>1. Min(Writes) \in DOMAIN ops /\ ops[Min(Writes)].kind = "write" BY <1>5 DEF Writes
  <2>2. ops[Min(Writes)].value \in Encoded /\ ops[Min(Writes)].value # ""
    BY <1>1, <2>1 DEF Operation
  <2> QED BY <2>2, EncodedValue DEF Planted
<1>7. M = [i \in DOMAIN ops |-> IF ops[i].id = ops[t].id THEN [ops[i] EXCEPT !.result = v]
                                ELSE ops[i]]
  BY DEF Mutation, Target, Planted
<1> HIDE DEF M, t, v, ops
<1>8. ASSUME NEW i \in DOMAIN ops
      PROVE  /\ M[i] \in Operation
             /\ M[i].id = ops[i].id /\ M[i].kind = ops[i].kind /\ M[i].value = ops[i].value
             /\ M[i].invoked = ops[i].invoked /\ M[i].returned = ops[i].returned
             /\ M[i].result = IF ops[i].id = ops[t].id THEN v ELSE ops[i].result
  <2> DEFINE op == ops[i]
             a == [op EXCEPT !.result = v]
  <2>1. M[i] = IF op.id = ops[t].id THEN a ELSE op BY <1>7
  <2>2. op \in Operation BY <1>1
  <2> HIDE DEF op
  <2>3. /\ a \in Operation /\ a.id = op.id /\ a.kind = op.kind /\ a.value = op.value
        /\ a.invoked = op.invoked /\ a.returned = op.returned /\ a.result = v
    BY <1>6, <2>2 DEF Operation
  <2> HIDE DEF a
  <2> QED BY <2>1, <2>2, <2>3 DEF op
<1>9. DOMAIN M = DOMAIN ops BY <1>7
<1>10. M \in Seq(Operation) /\ Len(M) = Len(ops)
  <2>1. M = [i \in 1..Len(ops) |-> M[i]] BY <1>1, <1>7
  <2>2. M \in [1..Len(ops) -> Operation] BY <1>1, <1>8, <2>1
  <2>3. Len(ops) \in Nat BY <1>1
  <2> QED BY ONLY <2>2, <2>3
<1>11. /\ name = "future-value" => t \in Early /\ v # ""
       /\ name # "future-value" => t \in Late /\ v = ""
  BY <1>4, <1>6
<1> QED BY <1>4, <1>8, <1>9, <1>10, <1>11 DEF M, t, v, ops

\* What a step of the trace does: an event, with the state one node shows.
Step(kind, n, c, v, state, fault) ==
  /\ n \in Node /\ state \in Shown /\ fault \in BOOLEAN
  /\ kind \in {"read", "propose"} => c \in Context
  /\ kind = "propose" => v \in Text /\ v # ""
  /\ Traced(kind, n, c, v, state, fault)

LEMMA StepTypes ==
  ASSUME HistoryTypeOK, NEW kind, NEW n, NEW c, NEW v, NEW state, NEW fault,
         Step(kind, n, c, v, state, fault)
  PROVE  HistoryTypeOK'
<1> DEFINE reads == [shown EXCEPT ![n] = state]
           e == Event(kind, n, c, v, reads)
<1>1. n \in Node /\ state \in Shown /\ fault \in BOOLEAN BY DEF Step
<1>2. /\ kind \in {"read", "propose"} => c \in Context
      /\ kind = "propose" => v \in Text /\ v # ""
  BY DEF Step
<1>3. IsEvent(e)
  <2>1. reads = [shown EXCEPT ![n] = state] OBVIOUS
  <2> HIDE DEF reads
  <2> QED BY <1>1, <1>2, <2>1, EventTypes
<1>4. Observe(e, fault) BY DEF Step, Traced
<1> HIDE DEF e
<1> QED BY <1>1, <1>3, <1>4, ObserveTypes

\* Every step of the trace is such an event.
LEMMA TraceSteps ==
  ASSUME HistoryTypeOK, NEW n \in Node
  PROVE  /\ \A c \in Context : InvokeRead(n, c) =>
              Step("read", n, c, "", shown[n], c \in Used("read"))
         /\ \A c \in Context, v \in Text : Propose(n, c, v) =>
              Step("propose", n, c, v, Proposed(n, c), c \in Used("write"))
         /\ \A is : Apply(n, is) => Step("apply", n, "", "", AppliedWrites(n, is), FALSE)
         /\ \A v \in Text, i \in Owed(n, "read") : CompleteRead(n, i, v) =>
              Step("complete_reads", n, "", "", ReadShown(n, ContextOf(i), v), FALSE)
         /\ \A kind \in {"ready", "apply", "complete_reads"}, state \in Forged(n) :
              Forge(kind, n, state) => Step(kind, n, "", "", state, TRUE)
<1>1. ASSUME NEW c \in Context, InvokeRead(n, c)
      PROVE  Step("read", n, c, "", shown[n], c \in Used("read"))
  <2>1. Traced("read", n, c, "", shown[n], c \in Used("read")) BY <1>1, InvokeReadTraced
  <2>2. shown[n] \in Shown BY ShownTypes
  <2> DEFINE f == c \in Used("read")
  <2>3. f \in BOOLEAN OBVIOUS
  <2> HIDE DEF f
  <2>4. Step("read", n, c, "", shown[n], f) BY <2>1, <2>2, <2>3 DEF Step, f
  <2> QED BY <2>4 DEF f
<1>2. ASSUME NEW c \in Context, NEW v \in Text, Propose(n, c, v)
      PROVE  Step("propose", n, c, v, Proposed(n, c), c \in Used("write"))
  <2>1. /\ Proposed(n, c) \in Shown /\ v # ""
        /\ Traced("propose", n, c, v, Proposed(n, c), c \in Used("write"))
    BY <1>2, ProposeTraced
  <2> DEFINE f == c \in Used("write")
  <2>3. f \in BOOLEAN OBVIOUS
  <2> HIDE DEF f
  <2>4. Step("propose", n, c, v, Proposed(n, c), f) BY <2>1, <2>3 DEF Step, f
  <2> QED BY <2>4 DEF f
<1>3. ASSUME NEW is, Apply(n, is)
      PROVE  Step("apply", n, "", "", AppliedWrites(n, is), FALSE)
  BY <1>3, ApplyTraced DEF Step
<1>4. ASSUME NEW v \in Text, NEW i \in Owed(n, "read"), CompleteRead(n, i, v)
      PROVE  Step("complete_reads", n, "", "", ReadShown(n, ContextOf(i), v), FALSE)
  BY <1>4, CompleteReadTraced DEF Step
<1>5. ASSUME NEW kind \in {"ready", "apply", "complete_reads"}, NEW state \in Forged(n),
             Forge(kind, n, state)
      PROVE  Step(kind, n, "", "", state, TRUE)
  BY <1>5, ForgedStates DEF Step, Forge, Traced
<1> QED BY <1>1, <1>2, <1>3, <1>4, <1>5

\* A step of the trace, or one of the others.
LEMMA NextSteps ==
  ASSUME HistoryTypeOK, [Next]_vars
  PROVE  \/ \E kind, n, c, v, state, fault : Step(kind, n, c, v, state, fault)
         \/ End \/ Explore \/ (\E o \in frontier : Report(o))
         \/ \E name \in {"future-value", "stale-value"} : Negate(name)
         \/ UNCHANGED vars
<1>1. ASSUME NEW n \in Node, NEW c \in Context, InvokeRead(n, c)
      PROVE  \E kind, m, d, v, state, fault : Step(kind, m, d, v, state, fault)
  <2>1. Step("read", n, c, "", shown[n], c \in Used("read")) BY <1>1, TraceSteps
  <2> QED BY <2>1
<1>2. ASSUME NEW n \in Node, NEW c \in Context, NEW v \in Text, Propose(n, c, v)
      PROVE  \E kind, m, d, u, state, fault : Step(kind, m, d, u, state, fault)
  <2>1. Step("propose", n, c, v, Proposed(n, c), c \in Used("write")) BY <1>2, TraceSteps
  <2> QED BY <2>1
<1>3. ASSUME NEW n \in Node, NEW is, Apply(n, is)
      PROVE  \E kind, m, c, v, state, fault : Step(kind, m, c, v, state, fault)
  <2>1. Step("apply", n, "", "", AppliedWrites(n, is), FALSE) BY <1>3, TraceSteps
  <2> QED BY <2>1
<1>4. ASSUME NEW n \in Node, NEW v \in Text, NEW i \in Owed(n, "read"), CompleteRead(n, i, v)
      PROVE  \E kind, m, c, u, state, fault : Step(kind, m, c, u, state, fault)
  <2>1. Step("complete_reads", n, "", "", ReadShown(n, ContextOf(i), v), FALSE)
    BY <1>4, TraceSteps
  <2> QED BY <2>1
<1>5. ASSUME NEW kind \in {"ready", "apply", "complete_reads"}, NEW n \in Node,
             NEW state \in Forged(n), Forge(kind, n, state)
      PROVE  \E k, m, c, v, s, fault : Step(k, m, c, v, s, fault)
  <2>1. Step(kind, n, "", "", state, TRUE) BY <1>5, TraceSteps
  <2> QED BY <2>1
<1> QED BY <1>1, <1>2, <1>3, <1>4, <1>5 DEF Next

\* The types hold: every event extract reads leaves a well-formed extraction.
THEOREM HistoryTypesHold == Spec => []HistoryTypeOK
<1>1. Init => HistoryTypeOK
  <2> SUFFICES ASSUME Init PROVE HistoryTypeOK OBVIOUS
  <2>1. shown \in [Node -> Shown] BY DEF Init, NothingShown, Shown
  <2>2. WellFormed(extracted)
    <3>1. extracted = [operations |-> <<>>, owners |-> <<>>, ok |-> TRUE]
      BY DEF Init, NothingExtracted
    <3>2. extracted \in Extraction BY <3>1 DEF Extraction
    <3>3. extracted.operations = <<>> /\ extracted.owners = <<>> BY <3>1
    <3>4. DOMAIN extracted.operations = {} BY <3>3
    <3> QED BY <3>2, <3>3, <3>4 DEF WellFormed
  <2> QED BY <2>1, <2>2 DEF HistoryTypeOK, Init, Phase
<1>2. HistoryTypeOK /\ [Next]_vars => HistoryTypeOK'
  <2> SUFFICES ASSUME HistoryTypeOK, [Next]_vars PROVE HistoryTypeOK' OBVIOUS
  <2>1. CASE \E kind, n, c, v, state, fault : Step(kind, n, c, v, state, fault)
    BY <2>1, StepTypes
  <2>2. CASE End BY <2>2 DEF HistoryTypeOK, End, Phase
  <2>3. CASE Explore BY <2>3 DEF HistoryTypeOK, Explore, Phase
  <2>4. CASE \E o \in frontier : Report(o) BY <2>4 DEF HistoryTypeOK, Report, Phase
  <2>5. ASSUME NEW name \in {"future-value", "stale-value"}, Negate(name) PROVE HistoryTypeOK'
    <3>1. Writes # {} /\ Early # {} /\ Late # {} BY <2>5 DEF Negate
    <3> DEFINE M == Mutation(name)
               x == extracted
               y == [x EXCEPT !.operations = M]
    <3>2. /\ M \in Seq(Operation) /\ Len(M) = Len(operations) /\ DOMAIN M = DOMAIN operations
          /\ \A i \in DOMAIN operations :
               /\ M[i].id = operations[i].id /\ M[i].kind = operations[i].kind
               /\ M[i].value = operations[i].value
      BY <3>1, MutationTypes
    <3>3. \A i \in DOMAIN operations :
            /\ operations[i].id[1] = operations[i].kind
            /\ operations[i].kind = "write" => operations[i].value # ""
      BY OperationTypes
    <3>4. extracted' = y BY <2>5 DEF Negate
    <3>5. x \in Extraction /\ Len(x.owners) = Len(operations)
      BY DEF HistoryTypeOK, WellFormed, operations
    <3> HIDE DEF M, x
    <3>6. y \in Extraction /\ y.operations = M /\ y.owners = x.owners BY <3>2, <3>5 DEF Extraction
    <3> HIDE DEF y
    <3>7. \A i \in DOMAIN M : M[i].id[1] = M[i].kind /\ (M[i].kind = "write" => M[i].value # "")
      BY <3>2, <3>3
    <3>8. WellFormed(y) BY <3>2, <3>5, <3>6, <3>7 DEF WellFormed
    <3> QED BY <2>5, <3>4, <3>8 DEF HistoryTypeOK, Negate, Phase
  <2>6. CASE UNCHANGED vars BY <2>6 DEF HistoryTypeOK, vars
  <2> QED BY <2>1, <2>2, <2>3, <2>4, <2>5, <2>6, NextSteps
<1> QED BY <1>1, <1>2, PTL DEF Spec

-----------------------------------------------------------------------------
(***************************************************************************)
(* The verdict.                                                            *)
(***************************************************************************)
\* The valid orders of one length.
Level(ops, d) == {o \in Seq(DOMAIN ops) : ValidOrder(ops, o) /\ Len(o) = d}

\* The search has come to depth d and found nothing on the way.
SearchedTo(ops, orders, d) ==
  /\ orders = Level(ops, d)
  /\ \A o : ValidOrder(ops, o) /\ Len(o) < d => ~Complete(ops, o)

SearchInv ==
  /\ phase \in {"search", "linearizable", "refuted"} => ValidHistory(operations)
  /\ phase = "search" => \E d \in Nat : SearchedTo(operations, frontier, d)
  /\ phase = "linearizable" => ValidOrder(operations, witness) /\ Complete(operations, witness)
  /\ phase = "refuted" => \A o : ValidOrder(operations, o) => ~Complete(operations, o)

LEMMA FirstLevel ==
  ASSUME NEW ops \in Seq(Operation)
  PROVE  SearchedTo(ops, {<<>>}, 0)
<1>1. ValidOrder(ops, <<>>) /\ \A o : ValidOrder(ops, o) /\ Len(o) = 0 => o = <<>> BY EmptyOrder
<1>2. <<>> \in Seq(DOMAIN ops) /\ Len(<<>>) = 0 OBVIOUS
<1>3. {<<>>} = Level(ops, 0) BY <1>1, <1>2 DEF Level
<1>4. ASSUME NEW o, ValidOrder(ops, o) PROVE ~ (Len(o) < 0)
  <2>1. Len(o) \in Nat BY <1>4, LenProperties DEF ValidOrder
  <2> QED BY <2>1
<1> QED BY <1>3, <1>4 DEF SearchedTo

LEMMA NextLevel ==
  ASSUME NEW ops \in Seq(Operation), NEW d \in Nat
  PROVE  UNION {Linearize(ops, o) : o \in Level(ops, d)} = Level(ops, d + 1)
<1>1. ASSUME NEW o \in Level(ops, d), NEW o2 \in Linearize(ops, o) PROVE o2 \in Level(ops, d + 1)
  <2>1. ValidOrder(ops, o) /\ Len(o) = d BY DEF Level
  <2>2. ValidOrder(ops, o2) /\ Len(o2) = Len(o) + 1 BY <2>1, LinearizeExtends
  <2> QED BY <2>1, <2>2 DEF Level, ValidOrder
<1>2. ASSUME NEW o2 \in Level(ops, d + 1)
      PROVE  \E o \in Level(ops, d) : o2 \in Linearize(ops, o)
  <2>1. ValidOrder(ops, o2) /\ Len(o2) = d + 1 /\ d <= Len(o2) BY DEF Level
  <2>2. ValidOrder(ops, SubSeq(o2, 1, d)) /\ Len(SubSeq(o2, 1, d)) = d BY <2>1, BeginningValid
  <2>3. SubSeq(o2, 1, d) \in Level(ops, d) BY <2>2 DEF Level, ValidOrder
  <2>4. o2 \in Linearize(ops, SubSeq(o2, 1, d)) BY <2>1, BeginningExtends
  <2> QED BY <2>3, <2>4
<1> QED BY <1>1, <1>2

\* The search goes one level down.
LEMMA SearchDescends ==
  ASSUME NEW ops \in Seq(Operation), NEW orders, NEW d \in Nat, SearchedTo(ops, orders, d),
         ~ \E o \in orders : Complete(ops, o)
  PROVE  SearchedTo(ops, UNION {Linearize(ops, o) : o \in orders}, d + 1)
<1>1. UNION {Linearize(ops, o) : o \in orders} = Level(ops, d + 1) BY NextLevel DEF SearchedTo
<1>2. ASSUME NEW o, ValidOrder(ops, o), Len(o) < d + 1 PROVE ~Complete(ops, o)
  <2>1. o \in Seq(DOMAIN ops) /\ Len(o) \in Nat BY <1>2, LenProperties DEF ValidOrder
  <2>2. Len(o) < d \/ Len(o) = d BY <1>2, <2>1
  <2>3. CASE Len(o) < d BY <1>2, <2>3 DEF SearchedTo
  <2>4. CASE Len(o) = d
    <3>1. o \in orders BY <1>2, <2>1, <2>4 DEF SearchedTo, Level
    <3> QED BY <3>1
  <2> QED BY <2>2, <2>3, <2>4
<1> QED BY <1>1, <1>2 DEF SearchedTo

\* When a level is empty there is nothing below it.
LEMMA SearchEnds ==
  ASSUME NEW ops \in Seq(Operation), NEW d \in Nat, SearchedTo(ops, {}, d)
  PROVE  \A o : ValidOrder(ops, o) => ~Complete(ops, o)
<1> SUFFICES ASSUME NEW o, ValidOrder(ops, o) PROVE ~Complete(ops, o) OBVIOUS
<1>1. Len(o) \in Nat BY LenProperties DEF ValidOrder
<1>2. CASE Len(o) < d BY <1>2 DEF SearchedTo
<1>3. CASE ~ (Len(o) < d)
  <2>1. d <= Len(o) BY <1>1, <1>3
  <2>2. ValidOrder(ops, SubSeq(o, 1, d)) /\ Len(SubSeq(o, 1, d)) = d BY <2>1, BeginningValid
  <2>3. SubSeq(o, 1, d) \in Level(ops, d) BY <2>2 DEF Level, ValidOrder
  <2> QED BY <2>3 DEF SearchedTo
<1> QED BY <1>2, <1>3

LEMMA ValidIsOrdered ==
  ASSUME NEW ops, ValidHistory(ops)
  PROVE  Ordered(ops)
<1>1. \A op \in ToSet(ops) : Done(op) => op.returned >= op.invoked BY DEF ValidHistory
<1> QED BY <1>1 DEF Ordered, ToSet

LEMMA SearchInvHolds == Spec => []SearchInv
<1>1. Init => SearchInv BY DEF Init, SearchInv
<1>2. HistoryTypeOK /\ SearchInv /\ [Next]_vars => SearchInv'
  <2> SUFFICES ASSUME HistoryTypeOK, SearchInv, [Next]_vars PROVE SearchInv' OBVIOUS
  <2>0. operations \in Seq(Operation) BY OperationTypes
  <2>1. CASE \E kind, n, c, v, state, fault : Step(kind, n, c, v, state, fault)
    <3>1. phase' \in {"trace", "refused"} BY <2>1 DEF Step, Traced, Observe
    <3> QED BY <3>1 DEF SearchInv
  <2>2. CASE End
    <3>1. /\ phase' = IF ValidHistory(operations) THEN "search" ELSE "refused"
          /\ frontier' = {<<>>} /\ operations' = operations
      BY <2>2 DEF End, operations
    <3>2. SearchedTo(operations, {<<>>}, 0) BY <2>0, FirstLevel
    <3> QED BY <3>1, <3>2 DEF SearchInv
  <2>3. CASE Explore
    <3>1. /\ phase = "search" /\ ~ \E o \in frontier : Complete(operations, o)
          /\ frontier' = UNION {Linearize(operations, o) : o \in frontier}
          /\ phase' = IF frontier' = {} THEN "refuted" ELSE "search"
          /\ operations' = operations
      BY <2>3 DEF Explore, operations
    <3>2. PICK d \in Nat : SearchedTo(operations, frontier, d) BY <3>1 DEF SearchInv
    <3>3. SearchedTo(operations, UNION {Linearize(operations, o) : o \in frontier}, d + 1)
      BY <2>0, <3>1, <3>2, SearchDescends
    <3>4. SearchedTo(operations, frontier', d + 1) BY <3>1, <3>3
    <3>5. CASE frontier' = {}
      <4>1. \A o : ValidOrder(operations, o) => ~Complete(operations, o)
        BY <2>0, <3>4, <3>5, SearchEnds
      <4> QED BY <3>1, <3>5, <4>1 DEF SearchInv
    <3>6. CASE frontier' # {}
      <4>1. d + 1 \in Nat /\ phase' = "search" BY <3>1, <3>6
      <4>2. \E e \in Nat : SearchedTo(operations, frontier', e) BY <3>4, <4>1
      <4> QED BY <3>1, <4>1, <4>2 DEF SearchInv
    <3> QED BY <3>5, <3>6
  <2>4. ASSUME NEW o \in frontier, Report(o) PROVE SearchInv'
    <3>1. /\ phase = "search" /\ Complete(operations, o) /\ phase' \in {"linearizable", "refused"}
          /\ operations' = operations /\ witness' = o
      BY <2>4 DEF Report, operations
    <3>2. PICK d \in Nat : SearchedTo(operations, frontier, d) BY <3>1 DEF SearchInv
    <3>3. ValidOrder(operations, o) BY <3>2 DEF SearchedTo, Level
    <3> QED BY <3>1, <3>3 DEF SearchInv
  <2>5. ASSUME NEW name \in {"future-value", "stale-value"}, Negate(name) PROVE SearchInv'
    <3>1. Writes # {} /\ Early # {} /\ Late # {} BY <2>5 DEF Negate
    <3> DEFINE M == Mutation(name)
    <3>2. M \in Seq(Operation) BY <3>1, MutationTypes
    <3>3. /\ phase' = IF ValidHistory(M) THEN "search" ELSE "refused"
          /\ frontier' = {<<>>} /\ extracted' = [extracted EXCEPT !.operations = M]
      BY <2>5 DEF Negate
    <3>4. extracted \in Extraction BY DEF HistoryTypeOK, WellFormed
    <3> HIDE DEF M
    <3>5. extracted'.operations = M BY <3>3, <3>4 DEF Extraction
    <3>6. operations' = M BY <3>5 DEF operations
    <3>7. SearchedTo(M, {<<>>}, 0) BY <3>2, FirstLevel
    <3> QED BY <3>3, <3>6, <3>7 DEF SearchInv
  <2>6. CASE UNCHANGED vars BY <2>6 DEF SearchInv, vars, operations
  <2> QED BY <2>1, <2>2, <2>3, <2>4, <2>5, <2>6, NextSteps
<1> QED BY <1>1, <1>2, HistoryTypesHold, PTL DEF Spec

\* The verdict of check is exact for histories of every length: it accepts the
\* linearizable ones and no others.
THEOREM VerdictExact == Spec => []VerdictIsExact
<1>1. HistoryTypeOK /\ SearchInv => VerdictIsExact
  <2> SUFFICES ASSUME HistoryTypeOK, SearchInv, phase \in {"linearizable", "refuted"}
               PROVE  (phase = "linearizable") = HasLinearization(operations)
    BY DEF VerdictIsExact
  <2>1. operations \in Seq(Operation) BY OperationTypes
  <2>2. Ordered(operations) BY ValidIsOrdered DEF SearchInv
  <2>3. HasLinearization(operations) <=>
          \E o : ValidOrder(operations, o) /\ Complete(operations, o)
    BY <2>1, <2>2, LinearizableIsFindable
  <2>4. HasLinearization(operations) \in BOOLEAN BY DEF HasLinearization
  <2>5. CASE phase = "linearizable" BY <2>3, <2>4, <2>5 DEF SearchInv
  <2>6. CASE phase = "refuted" BY <2>3, <2>4, <2>6 DEF SearchInv
  <2> QED BY <2>5, <2>6
<1> QED BY <1>1, HistoryTypesHold, SearchInvHolds, PTL

-----------------------------------------------------------------------------
(***************************************************************************)
(* The mutations of negatives.                                             *)
(***************************************************************************)
\* Two operations of a valid history have different identities.
LEMMA UniqueIds ==
  ASSUME NEW ops \in Seq(Operation), Cardinality(Ids(ops)) = Len(ops)
  PROVE  \A i, j \in DOMAIN ops : ops[i].id = ops[j].id => i = j
<1> DEFINE N == Len(ops)
           f == [i \in 1..N |-> ops[i].id]
<1>1. N \in Nat /\ DOMAIN ops = 1..N BY LenProperties
<1>2. Ids(ops) = {ops[i].id : i \in 1..N} BY <1>1 DEF Ids, ToSet
<1>3. f \in Surjection(1..N, Ids(ops)) BY <1>2 DEF Surjection
<1>4. IsFiniteSet(1..N) /\ Cardinality(1..N) = N
  <2>1. \A n \in Nat : IsFiniteSet(1..n) /\ Cardinality(1..n) = n BY ONLY FS_Interval
  <2> QED BY <1>1, <2>1
<1>5. f \in Injection(1..N, Ids(ops))
  <2> HIDE DEF f
  <2> QED BY <1>3, <1>4, FS_SurjSameCardinalityImpliesInj
<1>6. \A i, j \in 1..N : f[i] = f[j] => i = j BY <1>5 DEF Injection, IsInjective
<1> QED BY <1>1, <1>6

\* A position with a write before it has a last one.
LEMMA LastWriteExists ==
  ASSUME NEW ops, NEW o, NEW k \in Nat, NEW w \in 1..(k - 1), ops[o[w]].kind = "write"
  PROVE  LastWrite(ops, o, k) # {}
<1> DEFINE S == {m \in 1..(k - 1) : ops[o[k - m]].kind = "write"}
<1>1. k - w \in 1..(k - 1) /\ k - (k - w) = w OBVIOUS
<1>2. k - w \in S BY <1>1
<1>3. PICK m \in S : \A x \in S : m <= x
  <2>1. S \in SUBSET Nat OBVIOUS
  <2>2. S # {} BY <1>2
  <2> HIDE DEF S
  <2> QED BY <2>1, <2>2, LeastExists
<1>4. m \in 1..(k - 1) /\ ops[o[k - m]].kind = "write" OBVIOUS
<1>5. k - m \in 1..(k - 1) BY <1>4
<1>6. ASSUME NEW l \in ((k - m) + 1)..(k - 1) PROVE ops[o[l]].kind # "write"
  <2>1. k - l \in 1..(k - 1) /\ k - (k - l) = l /\ ~ (m <= k - l) BY <1>4
  <2>2. k - l \notin S BY <1>3, <2>1
  <2> QED BY <2>1, <2>2
<1>7. k - m \in LastWrite(ops, o, k) BY <1>4, <1>5, <1>6 DEF LastWrite
<1> QED BY <1>7

\* Positions below a position.
LEMMA Below ==
  ASSUME NEW n \in Nat, NEW k \in 1..n
  PROVE  /\ k \in Nat /\ k \in 1..(n + 1)
         /\ \A j \in 1..(k - 1) : /\ j \in 1..n /\ j # k
                                 /\ \A l \in 1..(j - 1) : l \in 1..n /\ l # k
OBVIOUS

\* A completed read that found a value before any write was invoked.
LEMMA FutureValueRefuted ==
  ASSUME NEW ops \in Seq(Operation), NEW t \in Completed(ops), ops[t].kind = "read",
         ops[t].result # "",
         \A w \in DOMAIN ops : ops[w].kind = "write" => ops[t].returned < ops[w].invoked,
         NEW o, ValidOrder(ops, o)
  PROVE  ~Complete(ops, o)
<1> SUFFICES ASSUME Complete(ops, o) PROVE FALSE OBVIOUS
<1>1. o \in Seq(DOMAIN ops) BY DEF ValidOrder
<1>2. /\ Len(o) \in Nat /\ DOMAIN o = 1..Len(o)
      /\ \A k \in 1..Len(o) : o[k] \in DOMAIN ops
      /\ \A x : x \in ToSet(o) <=> \E k \in 1..Len(o) : o[k] = x
  BY <1>1, OrderOperations
<1>3. PICK k \in 1..Len(o) : o[k] = t BY <1>2 DEF Complete
<1>4. Placed(ops, o, k) BY DEF ValidOrder
<1>5. Values(ops, o)[k] # ""
  <2>1. ops[t].kind # "write" OBVIOUS
  <2> QED BY <1>3, <1>4, <2>1 DEF Placed
<1>6. Len(o) \in Nat BY <1>2
<1>7. PICK j \in 1..(k - 1) : LastWrite(ops, o, k) = {j}
  <2>1. k \in 1..(Len(o) + 1) BY ONLY <1>6, k \in 1..Len(o), Below
  <2>2. \/ LastWrite(ops, o, k) = {} /\ Values(ops, o)[k] = ""
        \/ \E j \in 1..(k - 1) : /\ LastWrite(ops, o, k) = {j}
                                /\ Values(ops, o)[k] = ops[o[j]].value
    BY ONLY <1>1, <2>1, ops \in Seq(Operation), ValuesLastWrite
  <2> QED BY <1>5, <2>2
<1>8. ops[o[j]].kind = "write" BY <1>7 DEF LastWrite
<1>9. j \in 1..Len(o) BY ONLY <1>6, k \in 1..Len(o), j \in 1..(k - 1), Below
<1>10. t \in Predecessors(ops, o[j]) BY <1>2, <1>8, <1>9 DEF Predecessors
<1>11. Placed(ops, o, j) BY <1>9 DEF ValidOrder
<1>12. PICK l \in 1..(j - 1) : o[l] = t BY <1>10, <1>11 DEF Placed
<1>13. l \in 1..Len(o) /\ l # k
  BY ONLY <1>6, k \in 1..Len(o), j \in 1..(k - 1), l \in 1..(j - 1), Below
<1> QED BY <1>3, <1>12, <1>13 DEF ValidOrder

\* A completed read that found the initial value after a write had returned.
LEMMA StaleValueRefuted ==
  ASSUME NEW ops \in Seq(Operation), NEW t \in Completed(ops), ops[t].kind = "read",
         ops[t].result = "",
         \A i \in DOMAIN ops : ops[i].kind = "write" => ops[i].value # "",
         NEW w \in Completed(ops), ops[w].kind = "write", ops[w].returned < ops[t].invoked,
         NEW o, ValidOrder(ops, o)
  PROVE  ~Complete(ops, o)
<1> SUFFICES ASSUME Complete(ops, o) PROVE FALSE OBVIOUS
<1>1. o \in Seq(DOMAIN ops) BY DEF ValidOrder
<1>2. /\ Len(o) \in Nat /\ DOMAIN o = 1..Len(o)
      /\ \A k \in 1..Len(o) : o[k] \in DOMAIN ops
      /\ \A x : x \in ToSet(o) <=> \E k \in 1..Len(o) : o[k] = x
  BY <1>1, OrderOperations
<1>3. PICK k \in 1..Len(o) : o[k] = t BY <1>2 DEF Complete
<1>4. Placed(ops, o, k) BY DEF ValidOrder
<1>5. Values(ops, o)[k] = ""
  <2>1. ops[t].kind # "write" OBVIOUS
  <2> QED BY <1>3, <1>4, <2>1 DEF Placed
<1>6. w \in Predecessors(ops, t) BY DEF Predecessors
<1>7. PICK j \in 1..(k - 1) : o[j] = w BY <1>3, <1>4, <1>6 DEF Placed
<1>8. k \in 1..(Len(o) + 1) /\ k \in Nat
  <2>1. Len(o) \in Nat BY <1>2
  <2> QED BY ONLY <2>1, k \in 1..Len(o), Below
<1>9. LastWrite(ops, o, k) # {} BY <1>7, <1>8, LastWriteExists
<1>10. PICK m \in 1..(k - 1) : /\ LastWrite(ops, o, k) = {m}
                               /\ Values(ops, o)[k] = ops[o[m]].value
  BY <1>1, <1>8, <1>9, ValuesLastWrite
<1>11. ops[o[m]].kind = "write" BY <1>10 DEF LastWrite
<1>12. m \in 1..Len(o)
  <2>1. Len(o) \in Nat BY <1>2
  <2> QED BY ONLY <2>1, k \in 1..Len(o), m \in 1..(k - 1), Below
<1>13. o[m] \in DOMAIN ops BY <1>2, <1>12
<1> QED BY <1>5, <1>10, <1>11, <1>13

\* Either mutation of a valid history is valid and not linearizable.
LEMMA MutationRefuted ==
  ASSUME HistoryTypeOK, ValidHistory(operations), NEW name \in {"future-value", "stale-value"},
         Writes # {}, Early # {}, Late # {}
  PROVE  /\ ValidHistory(Mutation(name))
         /\ \A o : ValidOrder(Mutation(name), o) => ~Complete(Mutation(name), o)
<1> DEFINE M == Mutation(name)
           t == Target(name)
           v == Planted(name)
           ops == operations
<1>1. /\ t \in CompletedReads
      /\ name = "future-value" => t \in Early /\ v # ""
      /\ name # "future-value" => t \in Late /\ v = ""
      /\ M \in Seq(Operation) /\ Len(M) = Len(ops) /\ DOMAIN M = DOMAIN ops
      /\ \A i \in DOMAIN ops :
           /\ M[i].id = ops[i].id /\ M[i].kind = ops[i].kind /\ M[i].value = ops[i].value
           /\ M[i].invoked = ops[i].invoked /\ M[i].returned = ops[i].returned
           /\ M[i].result = IF ops[i].id = ops[t].id THEN v ELSE ops[i].result
  BY MutationTypes
<1>2. /\ ops \in Seq(Operation) /\ DOMAIN ops = 1..Len(ops)
      /\ \A i \in DOMAIN ops : ops[i].kind = "write" => ops[i].value # ""
  BY OperationTypes
<1>3. t \in DOMAIN ops /\ ops[t].kind = "read" /\ Done(ops[t]) BY <1>1 DEF CompletedReads
<1>4. \A i \in DOMAIN ops : ops[i].id = ops[t].id => i = t
  BY <1>2, <1>3, UniqueIds DEF ValidHistory
<1>5. name = "future-value" =>
        \A w \in DOMAIN ops : ops[w].kind = "write" => ops[t].returned < ops[w].invoked
  BY <1>1 DEF Early, Writes
<1>6. name # "future-value" =>
        \E w \in DOMAIN ops : /\ ops[w].kind = "write" /\ Done(ops[w])
                              /\ ops[w].returned < ops[t].invoked
  BY <1>1 DEF Late, Writes
<1>7. /\ Len(ops) \in 1..HistoryLimit /\ Cardinality(Ids(ops)) = Len(ops)
      /\ \A op \in ToSet(ops) :
           /\ op.kind \in {"read", "write"} /\ (Done(op) => op.returned >= op.invoked)
           /\ (op.kind = "read" => op.value = "") /\ (op.kind = "write" => op.result = "")
           /\ (~Done(op) => op.result = "")
  BY DEF ValidHistory
<1> HIDE DEF M, t, v, ops
<1>8. ValidHistory(M)
  <2>1. Ids(M) = Ids(ops)
    <3>1. Ids(M) = {M[i].id : i \in DOMAIN M} /\ Ids(ops) = {ops[i].id : i \in DOMAIN ops}
      BY DEF Ids, ToSet
    <3>2. DOMAIN M = DOMAIN ops /\ \A i \in DOMAIN ops : M[i].id = ops[i].id BY <1>1
    <3> QED BY ONLY <3>1, <3>2
  <2>2. \A i \in DOMAIN ops :
          /\ ops[i].kind \in {"read", "write"}
          /\ (Done(ops[i]) => ops[i].returned >= ops[i].invoked)
          /\ (ops[i].kind = "read" => ops[i].value = "")
          /\ (ops[i].kind = "write" => ops[i].result = "") /\ (~Done(ops[i]) => ops[i].result = "")
    BY <1>7 DEF ToSet
  <2>3. \A i \in DOMAIN ops : Done(M[i]) <=> Done(ops[i]) BY <1>1 DEF Done
  <2>4. \A i \in DOMAIN ops : M[i].result = IF i = t THEN v ELSE ops[i].result BY <1>1, <1>4
  <2>5. ASSUME NEW i \in DOMAIN ops
        PROVE  /\ M[i].kind \in {"read", "write"}
               /\ (Done(M[i]) => M[i].returned >= M[i].invoked)
               /\ (M[i].kind = "read" => M[i].value = "")
               /\ (M[i].kind = "write" => M[i].result = "") /\ (~Done(M[i]) => M[i].result = "")
    <3>1. /\ M[i].kind = ops[i].kind /\ M[i].value = ops[i].value
          /\ M[i].invoked = ops[i].invoked /\ M[i].returned = ops[i].returned
      BY <1>1
    <3>2. CASE i = t
      <4>1. M[i].kind = "read" /\ Done(M[i]) BY <1>3, <2>3, <3>1, <3>2
      <4> QED BY <2>2, <2>3, <3>1, <4>1
    <3>3. CASE i # t
      <4>1. M[i].result = ops[i].result BY <2>4, <3>3
      <4> QED BY <2>2, <2>3, <3>1, <4>1
    <3> QED BY <3>2, <3>3
  <2>6. ASSUME NEW op \in ToSet(M)
        PROVE  /\ op.kind \in {"read", "write"} /\ (Done(op) => op.returned >= op.invoked)
               /\ (op.kind = "read" => op.value = "") /\ (op.kind = "write" => op.result = "")
               /\ (~Done(op) => op.result = "")
    <3>1. PICK i \in DOMAIN ops : op = M[i] BY <1>1 DEF ToSet
    <3> QED BY <2>5, <3>1
  <2>7. \E op \in ToSet(M) : Done(op)
    <3>1. M[t] \in ToSet(M) /\ Done(M[t]) BY <1>1, <1>3, <2>3 DEF ToSet
    <3> QED BY <3>1
  <2> QED BY <1>1, <1>7, <2>1, <2>6, <2>7 DEF ValidHistory
<1>9. t \in Completed(M) /\ M[t].kind = "read" /\ M[t].result = v
  BY <1>1, <1>3 DEF Completed, Done
<1>10. \A i \in DOMAIN M : M[i].kind = "write" => M[i].value # "" BY <1>1, <1>2
<1>11. CASE name = "future-value"
  <2>1. \A w \in DOMAIN M : M[w].kind = "write" => M[t].returned < M[w].invoked
    BY <1>1, <1>3, <1>5, <1>11
  <2>2. M[t].result # "" BY <1>1, <1>9, <1>11
  <2>3. M \in Seq(Operation) BY <1>1
  <2>4. \A o : ValidOrder(M, o) => ~Complete(M, o)
    BY ONLY <1>9, <2>1, <2>2, <2>3, FutureValueRefuted
  <2> QED BY <1>8, <2>4 DEF M
<1>12. CASE name # "future-value"
  <2>1. PICK w \in DOMAIN ops : /\ ops[w].kind = "write" /\ Done(ops[w])
                                /\ ops[w].returned < ops[t].invoked
    BY <1>6, <1>12
  <2>2. w \in Completed(M) /\ M[w].kind = "write" /\ M[w].returned < M[t].invoked
    BY <1>1, <1>3, <2>1 DEF Completed, Done
  <2>3. M \in Seq(Operation) /\ M[t].result = "" BY <1>1, <1>9, <1>12
  <2>4. \A o : ValidOrder(M, o) => ~Complete(M, o)
    BY ONLY <1>9, <1>10, <2>2, <2>3, StaleValueRefuted
  <2> QED BY <1>8, <2>4 DEF M
<1> QED BY <1>11, <1>12

\* While a mutation is searched nothing can be found.
NegativeInv ==
  negative # "none" =>
    /\ phase \in {"search", "refuted"}
    /\ \A o : ValidOrder(operations, o) => ~Complete(operations, o)

\* negatives never finds a mutation linearizable, whatever the history.
THEOREM NegativesRefuted == Spec => []NegativesAreRefuted
<1>1. Init => NegativeInv BY DEF Init, NegativeInv
<1>2. HistoryTypeOK /\ SearchInv /\ NegativeInv /\ [Next]_vars => NegativeInv'
  <2> SUFFICES ASSUME HistoryTypeOK, SearchInv, NegativeInv, [Next]_vars PROVE NegativeInv'
    OBVIOUS
  <2>1. CASE \E kind, n, c, v, state, fault : Step(kind, n, c, v, state, fault)
    <3>1. phase = "trace" /\ negative' = negative BY <2>1 DEF Step, Traced, Observe
    <3> QED BY <3>1 DEF NegativeInv
  <2>2. CASE End
    <3>1. phase = "trace" /\ negative' = negative BY <2>2 DEF End
    <3> QED BY <3>1 DEF NegativeInv
  <2>3. CASE Explore
    <3>1. phase' \in {"search", "refuted"} /\ negative' = negative /\ operations' = operations
      BY <2>3 DEF Explore, operations
    <3> QED BY <3>1 DEF NegativeInv
  <2>4. ASSUME NEW o \in frontier, Report(o) PROVE NegativeInv'
    <3>1. phase = "search" /\ Complete(operations, o) /\ negative' = negative
      BY <2>4 DEF Report
    <3>2. PICK d \in Nat : SearchedTo(operations, frontier, d) BY <3>1 DEF SearchInv
    <3>3. ValidOrder(operations, o) BY <3>2 DEF SearchedTo, Level
    <3>4. negative = "none" BY <3>1, <3>3 DEF NegativeInv
    <3> QED BY <3>1, <3>4 DEF NegativeInv
  <2>5. ASSUME NEW name \in {"future-value", "stale-value"}, Negate(name) PROVE NegativeInv'
    <3>1. Writes # {} /\ Early # {} /\ Late # {} /\ phase = "linearizable" BY <2>5 DEF Negate
    <3> DEFINE M == Mutation(name)
    <3>2. ValidHistory(M) /\ \A o : ValidOrder(M, o) => ~Complete(M, o)
      BY <3>1, MutationRefuted DEF SearchInv
    <3>3. /\ phase' = IF ValidHistory(M) THEN "search" ELSE "refused"
          /\ extracted' = [extracted EXCEPT !.operations = M]
      BY <2>5 DEF Negate
    <3>4. extracted \in Extraction BY DEF HistoryTypeOK, WellFormed
    <3> HIDE DEF M
    <3>5. extracted'.operations = M BY <3>3, <3>4 DEF Extraction
    <3>6. operations' = M BY <3>5 DEF operations
    <3> QED BY <3>2, <3>3, <3>6 DEF NegativeInv
  <2>6. CASE UNCHANGED vars BY <2>6 DEF NegativeInv, vars, operations
  <2> QED BY <2>1, <2>2, <2>3, <2>4, <2>5, <2>6, NextSteps
<1>3. NegativeInv => NegativesAreRefuted BY DEF NegativeInv, NegativesAreRefuted
<1> QED BY <1>1, <1>2, <1>3, HistoryTypesHold, SearchInvHolds, PTL DEF Spec

-----------------------------------------------------------------------------
(***************************************************************************)
(* The replay of a witness.                                                *)
(***************************************************************************)
\* order names the operations at the positions pos.
Naming(ops, order, pos) ==
  /\ pos \in Seq(DOMAIN ops) /\ order \in Seq(Ids(ops)) /\ Len(order) = Len(pos)
  /\ \A k \in 1..Len(pos) : order[k] = ops[pos[k]].id

LEMMA NamingDomains ==
  ASSUME NEW ops \in Seq(Operation), NEW order, NEW pos, Naming(ops, order, pos)
  PROVE  /\ pos \in Seq(DOMAIN ops) /\ order \in Seq(Ids(ops))
         /\ Len(pos) \in Nat /\ Len(order) = Len(pos)
         /\ DOMAIN pos = 1..Len(pos) /\ DOMAIN order = 1..Len(pos)
         /\ \A k \in 1..Len(pos) : pos[k] \in DOMAIN ops /\ ops[pos[k]] \in Operation
         /\ \A k \in 1..Len(pos) : order[k] = ops[pos[k]].id
         /\ \A x : x \in ToSet(pos) <=> \E k \in 1..Len(pos) : pos[k] = x
         /\ \A x : x \in ToSet(order) <=> \E k \in 1..Len(pos) : order[k] = x
<1>1. /\ pos \in Seq(DOMAIN ops) /\ order \in Seq(Ids(ops)) /\ Len(order) = Len(pos)
      /\ \A k \in 1..Len(pos) : order[k] = ops[pos[k]].id
  BY DEF Naming
<1>2. /\ Len(pos) \in Nat /\ DOMAIN pos = 1..Len(pos)
      /\ \A k \in 1..Len(pos) : pos[k] \in DOMAIN ops /\ ops[pos[k]] \in Operation
      /\ \A x : x \in ToSet(pos) <=> \E k \in 1..Len(pos) : pos[k] = x
  BY <1>1, OrderOperations
<1>3. DOMAIN order = 1..Len(pos) BY <1>1, LenProperties
<1>4. \A x : x \in ToSet(order) <=> \E k \in 1..Len(pos) : order[k] = x BY <1>3 DEF ToSet
<1> QED BY <1>1, <1>2, <1>3, <1>4

LEMMA NamedOperation ==
  ASSUME NEW ops \in Seq(Operation), ValidHistory(ops), NEW i \in DOMAIN ops
  PROVE  ById(ops, ops[i].id) = ops[i]
<1>1. \A a, b \in DOMAIN ops : ops[a].id = ops[b].id => a = b BY UniqueIds DEF ValidHistory
<1>2. ops[i] \in ToSet(ops) BY DEF ToSet
<1>3. \A op \in ToSet(ops) : op.id = ops[i].id => op = ops[i] BY <1>1 DEF ToSet
<1> QED BY <1>2, <1>3 DEF ById

LEMMA NamedValues ==
  ASSUME NEW ops \in Seq(Operation), ValidHistory(ops), NEW order, NEW pos, Naming(ops, order, pos)
  PROVE  ReplayedValues(ops, order) = Values(ops, pos)
<1>1. DOMAIN pos = DOMAIN order BY NamingDomains
<1>2. ASSUME NEW k \in DOMAIN order PROVE ById(ops, order[k]) = ops[pos[k]]
  <2>1. k \in 1..Len(pos) BY NamingDomains
  <2>2. pos[k] \in DOMAIN ops /\ order[k] = ops[pos[k]].id BY <2>1, NamingDomains
  <2> QED BY <2>2, NamedOperation
<1>3. [k \in DOMAIN order |-> ById(ops, order[k])] = [k \in DOMAIN pos |-> ops[pos[k]]]
  BY <1>1, <1>2
<1> QED BY <1>3 DEF ReplayedValues, Values

\* The register the replay finds before step k.
LEMMA NamedPrefix ==
  ASSUME NEW ops \in Seq(Operation), ValidHistory(ops), NEW order, NEW pos, Naming(ops, order, pos),
         NEW k \in 1..Len(pos)
  PROVE  ReplayedValues(ops, SubSeq(order, 1, k - 1))[k] = Values(ops, pos)[k]
<1> DEFINE n == k - 1
           a == SubSeq(order, 1, n)
           p == SubSeq(pos, 1, n)
<1>1. /\ pos \in Seq(DOMAIN ops) /\ order \in Seq(Ids(ops))
      /\ Len(pos) \in Nat /\ Len(order) = Len(pos)
      /\ \A j \in 1..Len(pos) : order[j] = ops[pos[j]].id
  BY NamingDomains
<1>2. n \in Nat /\ n <= Len(pos) /\ \A j \in 1..n : j \in 1..Len(pos)
  <2>1. Len(pos) \in Nat BY <1>1
  <2> QED BY ONLY <2>1, k \in 1..Len(pos)
<1>3. p \in Seq(DOMAIN ops) /\ Len(p) = n /\ \A j \in 1..n : p[j] = pos[j]
  <2>1. \A j \in 1..n : pos[j] \in DOMAIN ops BY <1>1, <1>2, ElementOfSeq
  <2>2. p = [j \in 1..n |-> pos[j]] BY <1>1, <1>2 DEF SubSeq
  <2>3. p \in [1..n -> DOMAIN ops] BY <2>1, <2>2
  <2> HIDE DEF p, n
  <2> QED BY <1>2, <2>2, <2>3
<1>4. a \in Seq(Ids(ops)) /\ Len(a) = n /\ \A j \in 1..n : a[j] = order[j]
  <2>1. \A j \in 1..n : order[j] \in Ids(ops) BY <1>1, <1>2, ElementOfSeq
  <2>2. a = [j \in 1..n |-> order[j]] BY <1>1, <1>2 DEF SubSeq
  <2>3. a \in [1..n -> Ids(ops)] BY <2>1, <2>2
  <2> HIDE DEF a, n
  <2> QED BY <1>2, <2>2, <2>3
<1> HIDE DEF a, p
<1>5. Naming(ops, a, p)
  <2>1. \A j \in 1..n : a[j] = ops[p[j]].id BY <1>1, <1>2, <1>3, <1>4
  <2> QED BY <1>3, <1>4, <2>1 DEF Naming
<1>6. ReplayedValues(ops, a) = Values(ops, p) BY <1>5, NamedValues
<1>7. \A j \in 1..(n + 1) : Values(ops, p)[j] = Values(ops, pos)[j]
  <2>1. n <= Len(p) BY <1>2, <1>3
  <2>2. n \in Nat /\ n <= Len(pos) /\ p \in Seq(DOMAIN ops) /\ pos \in Seq(DOMAIN ops)
        /\ \A j \in 1..n : p[j] = pos[j]
    BY <1>1, <1>2, <1>3
  <2> HIDE DEF n
  <2> QED BY ONLY ops \in Seq(Operation), <2>1, <2>2, ValuesPrefix
<1>8. k \in 1..(n + 1)
  <2>1. Len(pos) \in Nat BY <1>1
  <2> QED BY ONLY <2>1, k \in 1..Len(pos)
<1> QED BY <1>6, <1>7, <1>8 DEF a

\* One step of the replay is one step of the search.
LEMMA ReplayPlaces ==
  ASSUME NEW ops \in Seq(Operation), ValidHistory(ops), NEW order, NEW pos, Naming(ops, order, pos),
         NEW k \in 1..Len(pos)
  PROVE  ReplayStep(ops, order, k) <=>
           Placed(ops, pos, k) /\ \A j \in 1..(k - 1) : pos[j] # pos[k]
<1> DEFINE op == ops[pos[k]]
           earlier == {order[j] : j \in 1..(k - 1)}
<1>0. \A j \in 1..(k - 1) : j \in 1..Len(pos)
  <2>1. Len(pos) \in Nat BY NamingDomains
  <2> QED BY ONLY <2>1, k \in 1..Len(pos), Below
<1>1. /\ pos[k] \in DOMAIN ops /\ op \in Operation /\ order[k] = op.id
      /\ \A j \in 1..(k - 1) : pos[j] \in DOMAIN ops /\ order[j] = ops[pos[j]].id
  BY <1>0, NamingDomains
<1>2. \A a, b \in DOMAIN ops : ops[a].id = ops[b].id => a = b BY UniqueIds DEF ValidHistory
<1>3. ById(ops, order[k]) = op BY <1>1, NamedOperation
<1>4. \A i \in DOMAIN ops : ops[i].id \in earlier <=> \E j \in 1..(k - 1) : pos[j] = i
  <2>1. \A x : x \in earlier <=> \E j \in 1..(k - 1) : order[j] = x OBVIOUS
  <2>2. \A i \in DOMAIN ops, j \in 1..(k - 1) : order[j] = ops[i].id <=> pos[j] = i BY <1>1, <1>2
  <2> HIDE DEF earlier
  <2> QED BY <2>1, <2>2
<1>5. order[k] \in Ids(ops) \ earlier <=> \A j \in 1..(k - 1) : pos[j] # pos[k]
  <2>1. op.id \in Ids(ops) BY <1>1 DEF Ids, ToSet
  <2> HIDE DEF earlier
  <2> QED BY <1>1, <1>4, <2>1
<1>6. (Done(op) \/ op.kind = "write") <=> pos[k] \in Candidates(ops)
  BY <1>1 DEF Candidates, Completed
<1>7. (\A other \in ToSet(ops) : Done(other) /\ other.returned < op.invoked => other.id \in earlier)
        <=> \A p \in Predecessors(ops, pos[k]) : \E j \in 1..(k - 1) : pos[j] = p
  <2>1. \A i : i \in Predecessors(ops, pos[k]) <=>
                 i \in DOMAIN ops /\ Done(ops[i]) /\ ops[i].returned < op.invoked
    BY DEF Predecessors, Completed
  <2>2. (\A other \in ToSet(ops) : Done(other) /\ other.returned < op.invoked => other.id \in earlier)
          <=> \A i \in DOMAIN ops : Done(ops[i]) /\ ops[i].returned < op.invoked => ops[i].id \in earlier
    <3> HIDE DEF op, earlier
    <3> QED BY DEF ToSet
  <2> HIDE DEF op, earlier
  <2> QED BY <1>4, <2>1, <2>2
<1>8. (op.kind = "read" => op.result = ReplayedValues(ops, SubSeq(order, 1, k - 1))[k])
        <=> (op.kind = "write" \/ op.result = Values(ops, pos)[k])
  <2>1. ReplayedValues(ops, SubSeq(order, 1, k - 1))[k] = Values(ops, pos)[k] BY NamedPrefix
  <2>2. op.kind \in {"read", "write"} BY <1>1 DEF Operation
  <2> HIDE DEF op
  <2> QED BY <2>1, <2>2
<1>9. ReplayStep(ops, order, k) <=>
        /\ order[k] \in Ids(ops) \ earlier
        /\ Done(op) \/ op.kind = "write"
        /\ \A other \in ToSet(ops) : Done(other) /\ other.returned < op.invoked => other.id \in earlier
        /\ op.kind = "read" => op.result = ReplayedValues(ops, SubSeq(order, 1, k - 1))[k]
  BY <1>3 DEF ReplayStep
<1>10. Placed(ops, pos, k) <=>
         /\ pos[k] \in Candidates(ops)
         /\ \A p \in Predecessors(ops, pos[k]) : \E j \in 1..(k - 1) : pos[j] = p
         /\ op.kind = "write" \/ op.result = Values(ops, pos)[k]
  BY DEF Placed
<1> HIDE DEF op, earlier
<1> QED BY <1>5, <1>6, <1>7, <1>8, <1>9, <1>10

\* The replay accepts the names of a linearization and no others.
LEMMA ReplayDecides ==
  ASSUME NEW ops \in Seq(Operation), ValidHistory(ops), NEW order, NEW pos, Naming(ops, order, pos),
         Len(order) <= Len(ops)
  PROVE  Replay(ops, order) <=> Explains(ops, pos)
<1> DEFINE N == Len(pos)
<1>1. /\ pos \in Seq(DOMAIN ops) /\ N \in Nat /\ DOMAIN order = 1..N /\ DOMAIN pos = 1..N
      /\ \A k \in 1..N : pos[k] \in DOMAIN ops /\ order[k] = ops[pos[k]].id
      /\ \A x : x \in ToSet(pos) <=> \E k \in 1..N : pos[k] = x
      /\ \A x : x \in ToSet(order) <=> \E k \in 1..N : order[k] = x
  BY NamingDomains
<1>2. ToSet(order) \subseteq Ids(ops) BY <1>1 DEF Ids, ToSet
<1>3. (\A j, k \in 1..N : pos[j] = pos[k] => j = k)
        <=> \A k \in 1..N : \A j \in 1..(k - 1) : pos[j] # pos[k]
  <2>1. ASSUME \A j, k \in 1..N : pos[j] = pos[k] => j = k, NEW k \in 1..N, NEW j \in 1..(k - 1)
        PROVE  pos[j] # pos[k]
    <3>1. j \in 1..N /\ j # k BY <1>1, Below
    <3> QED BY <2>1, <3>1
  <2>2. ASSUME \A k \in 1..N : \A j \in 1..(k - 1) : pos[j] # pos[k],
               NEW j \in 1..N, NEW k \in 1..N, pos[j] = pos[k]
        PROVE  j = k
    <3>1. j = k \/ j \in 1..(k - 1) \/ k \in 1..(j - 1) BY <1>1
    <3> QED BY <2>2, <3>1
  <2> QED BY <2>1, <2>2
<1>4. (\A k \in 1..N : ReplayStep(ops, order, k)) <=> ValidOrder(ops, pos)
  <2>1. \A k \in 1..N : ReplayStep(ops, order, k) <=>
          Placed(ops, pos, k) /\ \A j \in 1..(k - 1) : pos[j] # pos[k]
    BY ReplayPlaces
  <2>2. ValidOrder(ops, pos) <=>
          (\A j, k \in 1..N : pos[j] = pos[k] => j = k) /\ \A k \in 1..N : Placed(ops, pos, k)
    BY <1>1 DEF ValidOrder
  <2> QED BY <1>3, <2>1, <2>2
<1>5. (\A op \in ToSet(ops) : Done(op) => op.id \in ToSet(order)) <=> Complete(ops, pos)
  <2>1. \A a, b \in DOMAIN ops : ops[a].id = ops[b].id => a = b BY UniqueIds DEF ValidHistory
  <2>2. \A i \in DOMAIN ops : ops[i].id \in ToSet(order) <=> i \in ToSet(pos) BY <1>1, <2>1
  <2>3. (\A op \in ToSet(ops) : Done(op) => op.id \in ToSet(order))
          <=> \A i \in DOMAIN ops : Done(ops[i]) => ops[i].id \in ToSet(order)
    <3>1. \A op : op \in ToSet(ops) <=> \E i \in DOMAIN ops : op = ops[i] BY DEF ToSet
    <3> QED BY <3>1
  <2> QED BY <2>2, <2>3 DEF Complete, Completed
<1>6. Replay(ops, order) <=> ValidOrder(ops, pos) /\ Complete(ops, pos)
  BY <1>1, <1>2, <1>4, <1>5 DEF Replay
<1>7. Ordered(ops) BY ValidIsOrdered
<1>8. ValidOrder(ops, pos) /\ Complete(ops, pos) <=> ExplainsBy(ops, pos)
  BY <1>1, <1>7, ValidIsLinearization, LinearizationIsValid
<1>9. Explains(ops, pos) <=> ExplainsBy(ops, pos) BY <1>1, ExplainsByRegister
<1> QED BY <1>6, <1>8, <1>9

\* replay accepts exactly the linearizations of a history, by their names.
THEOREM ReplayExact == Spec => []ReplayIsExact
<1>1. HistoryTypeOK /\ SearchInv => ReplayIsExact
  <2> DEFINE ops == operations
             Position(id) == CHOOSE i \in DOMAIN ops : ops[i].id = id
             ids == Ids(ops) \cup {<<"read", "unknown">>}
             Pos(order) == [k \in DOMAIN order |-> Position(order[k])]
  <2> SUFFICES ASSUME HistoryTypeOK, SearchInv, phase = "search",
                      NEW order \in SeqOf(ids, Len(ops))
               PROVE  Replay(ops, order) =
                        (ToSet(order) \subseteq Ids(ops) /\ Explains(ops, Pos(order)))
    BY DEF ReplayIsExact
  <2>1. ops \in Seq(Operation) /\ Len(ops) \in Nat BY OperationTypes
  <2>2. ValidHistory(ops) BY DEF SearchInv
  <2> HIDE DEF ops, ids
  <2>3. PICK m \in 0..Len(ops) : order \in [1..m -> ids] BY DEF SeqOf
  <2>4. m \in Nat /\ m <= Len(ops) BY <2>1
  <2>5. order \in Seq(ids) /\ Len(order) = m /\ DOMAIN order = 1..m BY <2>3, <2>4
  <2>6. Replay(ops, order) \in BOOLEAN BY DEF Replay
  <2>7. CASE ~ (ToSet(order) \subseteq Ids(ops))
    <3>1. ~ Replay(ops, order) BY <2>7 DEF Replay
    <3> QED BY <2>6, <2>7, <3>1
  <2>8. CASE ToSet(order) \subseteq Ids(ops)
    <3> DEFINE pos == Pos(order)
    <3>1. ASSUME NEW k \in 1..m
          PROVE  pos[k] \in DOMAIN ops /\ order[k] = ops[pos[k]].id /\ order[k] \in Ids(ops)
      <4>1. order[k] \in Ids(ops) BY <2>5, <2>8 DEF ToSet
      <4>2. \E i \in DOMAIN ops : ops[i].id = order[k] BY <4>1 DEF Ids, ToSet
      <4>3. pos[k] = Position(order[k]) BY <2>5
      <4>4. Position(order[k]) \in DOMAIN ops /\ ops[Position(order[k])].id = order[k] BY <4>2
      <4> QED BY <4>1, <4>3, <4>4
    <3>2. pos \in [1..m -> DOMAIN ops]
      <4>1. pos = [k \in 1..m |-> pos[k]] BY <2>5
      <4> HIDE DEF pos
      <4> QED BY <3>1, <4>1
    <3> HIDE DEF pos
    <3>3. pos \in Seq(DOMAIN ops) /\ Len(pos) = m BY <2>4, <3>2
    <3>4. order \in Seq(Ids(ops))
      <4>1. order = [k \in 1..m |-> order[k]] BY <2>3
      <4>2. order \in [1..m -> Ids(ops)] BY <3>1, <4>1
      <4> QED BY <2>4, <4>2
    <3>5. Naming(ops, order, pos) BY <2>5, <3>1, <3>3, <3>4 DEF Naming
    <3>6. Len(order) <= Len(ops) BY <2>4, <2>5
    <3>7. Replay(ops, order) <=> Explains(ops, pos) BY <2>1, <2>2, <3>5, <3>6, ReplayDecides
    <3> QED BY <2>6, <2>8, <3>7 DEF pos
  <2> QED BY <2>7, <2>8
<1> QED BY <1>1, HistoryTypesHold, SearchInvHolds, PTL

-----------------------------------------------------------------------------
(***************************************************************************)
(* Damaged witness files.                                                  *)
(***************************************************************************)
\* A file whose states and transitions are numbered from 1.
Numbered(s) == \E n \in Nat : DOMAIN s = 1..n /\ Len(s) = n

IsFile(raw) == Numbered(raw.states) /\ Numbered(raw.actions)

\* What verify_witness accepts describes a linearization and its values.
LEMMA VerifiedWitness ==
  ASSUME NEW ops \in Seq(Operation), NEW raw, IsFile(raw), VerifyWitness(ops, raw)
  PROVE  LET order == [p \in DOMAIN raw.actions |-> raw.actions[p].i]
         IN  /\ Explains(ops, order)
             /\ [p \in DOMAIN raw.states |-> raw.states[p].value] = Values(ops, order)
<1> DEFINE order == [p \in DOMAIN raw.actions |-> raw.actions[p].i]
           names == WitnessOrder(ops, raw)
           N == Len(raw.states) - 1
<1>1. /\ WitnessShape(ops, raw) /\ \A p \in 2..Len(raw.states) : WitnessEdge(raw, p)
      /\ Replay(ops, names)
      /\ [p \in DOMAIN raw.states |-> raw.states[p].value] = ReplayedValues(ops, names)
  BY DEF VerifyWitness
<1>2. ValidHistory(ops) /\ Len(names) <= Len(ops) BY <1>1 DEF Replay
<1>3. /\ Len(raw.states) \in Nat /\ DOMAIN raw.states = 1..Len(raw.states)
      /\ Len(raw.actions) \in Nat /\ DOMAIN raw.actions = 1..Len(raw.actions)
  BY DEF IsFile, Numbered
<1>4. Len(raw.actions) = N /\ 2 <= Len(raw.states)
  <2>1. Len(raw.states) \in 2..(Len(ops) + 1) /\ Len(raw.actions) = Len(raw.states) - 1
    BY <1>1 DEF WitnessShape
  <2> QED BY <1>3, <2>1
<1>5. N \in Nat /\ \A p \in 1..N : p + 1 \in 2..Len(raw.states) /\ (p + 1) - 1 = p
  BY <1>3, <1>4
<1>6. ASSUME NEW p \in 1..N
      PROVE  /\ order[p] \in DOMAIN ops
             /\ (CHOOSE i \in Added(raw, p + 1) : TRUE) = order[p]
  <2> DEFINE A == Added(raw, p + 1)
  <2>1. WitnessEdge(raw, p + 1) /\ (p + 1) - 1 = p BY <1>1, <1>5
  <2>2. Cardinality(A) = 1 /\ raw.actions[p].i \in A BY <2>1 DEF WitnessEdge
  <2>3. p + 1 \in DOMAIN raw.states BY <1>3, <1>4, <1>5
  <2>4. A \subseteq DOMAIN ops BY <1>1, <2>3 DEF Added, WitnessShape
  <2>5. order[p] = raw.actions[p].i BY <1>3, <1>4
  <2>6. IsFiniteSet(A)
    <3>1. DOMAIN ops = 1..Len(ops) /\ Len(ops) \in Nat BY LenProperties
    <3>2. IsFiniteSet(DOMAIN ops)
      <4>1. \A n \in Nat : IsFiniteSet(1..n) BY ONLY FS_Interval
      <4> QED BY <3>1, <4>1
    <3> HIDE DEF A
    <3> QED BY <2>4, <3>2, FS_Subset
  <2> HIDE DEF A
  <2>7. \E x : A = {x} BY <2>2, <2>6, FS_Singleton
  <2>8. PICK x : A = {x} BY <2>7
  <2>9. (CHOOSE i \in A : TRUE) = x BY <2>8
  <2>10. order[p] = x BY <2>2, <2>5, <2>8
  <2> QED BY <2>2, <2>4, <2>5, <2>9, <2>10 DEF A
<1>7. order \in Seq(DOMAIN ops) /\ Len(order) = N
  <2>1. order = [p \in 1..N |-> order[p]] BY <1>3, <1>4
  <2>2. order \in [1..N -> DOMAIN ops]
    <3> HIDE DEF order
    <3> QED BY <1>6, <2>1
  <2> HIDE DEF order, N
  <2> QED BY <1>5, <2>2
<1>8. names = [p \in 1..N |-> ops[order[p]].id]
  <2> DEFINE c(p) == CHOOSE i \in Added(raw, p + 1) : TRUE
  <2>1. names = [p \in 1..N |-> ops[c(p)].id] BY DEF WitnessOrder
  <2>2. \A p \in 1..N : c(p) = order[p] BY <1>6
  <2> HIDE DEF names, N, order, c
  <2> QED BY <2>1, <2>2
<1> HIDE DEF order, names, N
<1>9. names \in Seq(Ids(ops)) /\ Len(names) = N /\ \A p \in 1..N : names[p] = ops[order[p]].id
  <2>1. \A p \in 1..N : ops[order[p]].id \in Ids(ops) BY <1>6 DEF Ids, ToSet
  <2>2. names \in [1..N -> Ids(ops)] BY <1>8, <2>1
  <2> QED BY <1>5, <1>8, <2>2
<1>10. Naming(ops, names, order) BY <1>7, <1>9 DEF Naming
<1>11. Explains(ops, order) BY <1>1, <1>2, <1>10, ReplayDecides
<1>12. ReplayedValues(ops, names) = Values(ops, order) BY <1>2, <1>10, NamedValues
<1> QED BY <1>1, <1>11, <1>12 DEF order

\* The file TLC writes, and every file damaged in one place, is numbered.
LEMMA ExceptNumbered ==
  ASSUME NEW s, Numbered(s), NEW p, NEW v
  PROVE  Numbered([s EXCEPT ![p] = v])
<1> DEFINE t == [s EXCEPT ![p] = v]
<1>1. PICK n \in Nat : DOMAIN s = 1..n /\ Len(s) = n BY DEF Numbered
<1>2. DOMAIN t = 1..n BY <1>1
<1>3. t = [k \in 1..n |-> t[k]] BY <1>1
<1>4. t \in [1..n -> {t[k] : k \in 1..n}] BY <1>3
<1> HIDE DEF t
<1>5. Len(t) = n BY <1>4
<1>6. Numbered(t) BY <1>2, <1>5 DEF Numbered
<1> QED BY <1>6 DEF t

LEMMA FrontNumbered ==
  ASSUME NEW s, Numbered(s)
  PROVE  Numbered(Front(s))
<1>1. PICK n \in Nat : DOMAIN s = 1..n /\ Len(s) = n BY DEF Numbered
<1> DEFINE t == Front(s)
           m == IF n = 0 THEN 0 ELSE n - 1
<1>2. m \in Nat BY <1>1
<1>3. t = SubSeq(s, 1, n - 1) BY <1>1 DEF Front
<1>4. t = [k \in 1..(1 + (n - 1) - 1) |-> s[1 + k - 1]] BY <1>3 DEF SubSeq
<1>5. 1..(1 + (n - 1) - 1) = 1..m BY <1>1
<1>6. t \in [1..m -> {t[k] : k \in 1..m}] BY <1>4, <1>5
<1> HIDE DEF t, m
<1>7. DOMAIN t = 1..m /\ Len(t) = m BY <1>2, <1>6
<1>8. Numbered(t) BY <1>2, <1>7 DEF Numbered
<1> QED BY <1>8 DEF t

\* A file with one of its two lists replaced.
LEMMA FileExcept ==
  ASSUME NEW raw, raw = [states |-> raw.states, actions |-> raw.actions], IsFile(raw),
         NEW s, Numbered(s), NEW a, Numbered(a)
  PROVE  /\ IsFile([raw EXCEPT !.states = s]) /\ IsFile([raw EXCEPT !.actions = a])
         /\ IsFile([raw EXCEPT !.states = s, !.actions = a])
         /\ IsFile([states |-> s, actions |-> a])
<1>1. /\ [raw EXCEPT !.states = s].states = s /\ [raw EXCEPT !.states = s].actions = raw.actions
      /\ [raw EXCEPT !.actions = a].states = raw.states /\ [raw EXCEPT !.actions = a].actions = a
      /\ [raw EXCEPT !.states = s, !.actions = a].states = s
      /\ [raw EXCEPT !.states = s, !.actions = a].actions = a
      /\ [states |-> s, actions |-> a].states = s /\ [states |-> s, actions |-> a].actions = a
  OBVIOUS
<1>2. Numbered(raw.states) /\ Numbered(raw.actions) BY DEF IsFile
<1> QED BY <1>1, <1>2 DEF IsFile

LEMMA DamagedFiles ==
  ASSUME NEW raw, raw = [states |-> raw.states, actions |-> raw.actions], IsFile(raw),
         NEW damaged \in Damaged(raw)
  PROVE  IsFile(damaged)
<1> DEFINE S == raw.states
           A == raw.actions
           n == Len(S)
<1>1. Numbered(S) /\ Numbered(A) BY DEF IsFile
<1>2. \A p, v : Numbered([S EXCEPT ![p] = v]) /\ Numbered([A EXCEPT ![p] = v])
  BY <1>1, ExceptNumbered
<1>3. Numbered(Front(S)) /\ Numbered(Front(A)) BY <1>1, FrontNumbered
<1>4. \A v : IsFile(EndValue(raw, v))
  <2> SUFFICES ASSUME NEW v PROVE IsFile(EndValue(raw, v)) OBVIOUS
  <2> DEFINE s == [S EXCEPT ![n] = [S[n] EXCEPT !.value = v]]
             a == [A EXCEPT ![n - 1] = [A[n - 1] EXCEPT !.to.value = v]]
  <2>1. Numbered(s) /\ Numbered(a) BY <1>2
  <2>3. EndValue(raw, v) = [raw EXCEPT !.states = s, !.actions = a] BY DEF EndValue
  <2> HIDE DEF s, a
  <2>2. IsFile([raw EXCEPT !.states = s, !.actions = a]) BY <2>1, FileExcept
  <2> QED BY <2>2, <2>3
<1>5. \A p, x : IsFile(Selection(raw, p, x))
  <2> SUFFICES ASSUME NEW p, NEW x PROVE IsFile(Selection(raw, p, x)) OBVIOUS
  <2> DEFINE s == [S EXCEPT ![p] = [S[p] EXCEPT !.done = x]]
             a == [A EXCEPT ![p - 1] = [A[p - 1] EXCEPT !.to.done = x]]
  <2>1. Numbered(s) /\ Numbered(a) BY <1>2
  <2>3. Selection(raw, p, x) = [raw EXCEPT !.states = s, !.actions = a] BY DEF Selection
  <2> HIDE DEF s, a
  <2>2. IsFile([raw EXCEPT !.states = s, !.actions = a]) BY <2>1, FileExcept
  <2> QED BY <2>2, <2>3
<1>6. IsFile(CutShort(raw)) BY <1>3, FileExcept DEF CutShort
<1>7. \A p, i : IsFile(OtherOperation(raw, p, i))
  <2> SUFFICES ASSUME NEW p, NEW i PROVE IsFile(OtherOperation(raw, p, i)) OBVIOUS
  <2> DEFINE a == [A EXCEPT ![p] = [A[p] EXCEPT !.i = i]]
  <2>1. Numbered(a) BY <1>2
  <2>3. OtherOperation(raw, p, i) = [raw EXCEPT !.actions = a] BY DEF OtherOperation
  <2> HIDE DEF a
  <2>2. IsFile([raw EXCEPT !.actions = a]) BY <1>1, <2>1, FileExcept
  <2> QED BY <2>2, <2>3
<1>8. \A p, v : IsFile(OtherValue(raw, p, v))
  <2> SUFFICES ASSUME NEW p, NEW v PROVE IsFile(OtherValue(raw, p, v)) OBVIOUS
  <2> DEFINE s == [S EXCEPT ![p] = [S[p] EXCEPT !.value = v]]
  <2>1. Numbered(s) BY <1>2
  <2>3. OtherValue(raw, p, v) = [raw EXCEPT !.states = s] BY DEF OtherValue
  <2> HIDE DEF s
  <2>2. IsFile([raw EXCEPT !.states = s]) BY <1>1, <2>1, FileExcept
  <2> QED BY <2>2, <2>3
<1> QED BY <1>4, <1>5, <1>6, <1>7, <1>8 DEF Damaged

LEMMA RawWitnessFile ==
  ASSUME NEW ops \in Seq(Operation), NEW o \in Seq(DOMAIN ops)
  PROVE  LET raw == RawWitness(ops, o)
         IN  raw = [states |-> raw.states, actions |-> raw.actions] /\ IsFile(raw)
<1> DEFINE raw == RawWitness(ops, o)
           S == [p \in 1..(Len(o) + 1) |->
                   [num |-> p, done |-> SubSeq(o, 1, p - 1), value |-> Values(ops, o)[p]]]
           A == [p \in DOMAIN o |-> [from |-> S[p], i |-> o[p], name |-> "Linearize", to |-> S[p + 1]]]
<1>1. Len(o) \in Nat /\ DOMAIN o = 1..Len(o) BY LenProperties
<1>2. raw = [states |-> S, actions |-> A] BY DEF RawWitness
<1>3. Numbered(S)
  <2>1. S \in [1..(Len(o) + 1) -> {S[p] : p \in 1..(Len(o) + 1)}] OBVIOUS
  <2> HIDE DEF S
  <2>2. DOMAIN S = 1..(Len(o) + 1) /\ Len(S) = Len(o) + 1 BY <1>1, <2>1
  <2>3. Len(o) + 1 \in Nat BY <1>1
  <2> QED BY <2>2, <2>3 DEF Numbered
<1>4. Numbered(A)
  <2>1. A \in [1..Len(o) -> {A[p] : p \in 1..Len(o)}]
    <3> HIDE DEF S
    <3> QED BY <1>1
  <2> HIDE DEF A
  <2>2. DOMAIN A = 1..Len(o) /\ Len(A) = Len(o) BY <1>1, <2>1
  <2> QED BY <1>1, <2>2 DEF Numbered
<1> HIDE DEF S, A
<1>5. raw.states = S /\ raw.actions = A BY <1>2
<1> QED BY <1>2, <1>3, <1>4, <1>5 DEF IsFile

\* A damaged witness file that verify_witness lets pass still describes a
\* linearization with the values it claims.
THEOREM DamagedRefused == Spec => []DamagedWitnessIsRefused
<1>1. HistoryTypeOK /\ SearchInv => DamagedWitnessIsRefused
  <2> DEFINE raw0 == RawWitness(operations, witness)
  <2> SUFFICES ASSUME HistoryTypeOK, SearchInv, phase = "linearizable",
                      NEW raw \in Damaged(raw0), VerifyWitness(operations, raw)
               PROVE  LET order == [p \in DOMAIN raw.actions |-> raw.actions[p].i]
                      IN  /\ Explains(operations, order)
                          /\ [p \in DOMAIN raw.states |-> raw.states[p].value]
                               = Values(operations, order)
    BY DEF DamagedWitnessIsRefused
  <2>1. operations \in Seq(Operation) BY OperationTypes
  <2>2. witness \in Seq(DOMAIN operations) BY DEF SearchInv, ValidOrder
  <2>3. raw0 = [states |-> raw0.states, actions |-> raw0.actions] /\ IsFile(raw0)
    BY <2>1, <2>2, RawWitnessFile
  <2> HIDE DEF raw0
  <2>4. IsFile(raw) BY <2>3, DamagedFiles
  <2> QED BY <2>1, <2>4, VerifiedWitness
<1> QED BY <1>1, HistoryTypesHold, SearchInvHolds, PTL

-----------------------------------------------------------------------------
(***************************************************************************)
(* Forged traces.                                                          *)
(***************************************************************************)
Distinct(x) ==
  \A i, j \in DOMAIN x.operations : x.operations[i].id = x.operations[j].id => i = j

\* A node shows as returned what extract knows to have returned there.
Agrees(state, x, m) ==
  /\ \A w \in ToSet(state.writes) : w.completed \in {0, 1}
  /\ ReturnsOnce(state)
  /\ \A r \in Returns(state) : \E i \in DOMAIN x.operations :
       /\ x.operations[i].id = r.id /\ x.owners[i] = m
       /\ Done(x.operations[i]) /\ x.operations[i].result = Hex[r.value]
  /\ \A i \in DOMAIN x.operations :
       x.owners[i] = m /\ Done(x.operations[i]) =>
         \E r \in Returns(state) : r.id = x.operations[i].id

\* The writes a node shows have been proposed, each once.
Tracked(state, x) ==
  /\ \A j, k \in DOMAIN state.writes : state.writes[j].context = state.writes[k].context => j = k
  /\ \A k \in DOMAIN state.writes : <<"write", state.writes[k].context>> \in Ids(x.operations)

Consistent(sh, x) ==
  Distinct(x) /\ \A m \in Node : Agrees(sh[m], x, m) /\ Tracked(sh[m], x)

\* An identity shown as returned is shown with one value.
LEMMA ReturnedOnce ==
  ASSUME NEW state \in Shown, ReturnsOnce(state),
         NEW r \in Returns(state), NEW s \in Returns(state), r.id = s.id
  PROVE  r = s
<1> DEFINE Read(i) == [id |-> <<"read", state.completed[i].context>>, value |-> state.completed[i].value]
           Write(i) == [id |-> <<"write", state.writes[i].context>>, value |-> ""]
<1>1. \A x \in Returns(state) : \/ \E i \in DOMAIN state.completed : x = Read(i)
                                \/ \E i \in CompletedWrites(state) : x = Write(i)
  BY DEF Returns
<1>2. \A i, j : Read(i).id # Write(j).id OBVIOUS
<1>3. ASSUME NEW i \in DOMAIN state.completed, NEW j \in DOMAIN state.completed, Read(i).id = Read(j).id
      PROVE  Read(i) = Read(j)
  <2>1. state.completed[i].context = state.completed[j].context BY <1>3
  <2>2. i = j BY <2>1 DEF ReturnsOnce
  <2> QED BY <2>2
<1>4. ASSUME NEW i \in CompletedWrites(state), NEW j \in CompletedWrites(state),
             Write(i).id = Write(j).id
      PROVE  Write(i) = Write(j)
  BY <1>4
<1> HIDE DEF Read, Write
<1> QED BY <1>1, <1>2, <1>3, <1>4

\* What extract requires of a node.
LEMMA PlausibleParts ==
  ASSUME NEW x, NEW e, NEW m
  PROVE  PlausibleReturns(x, e, m) <=>
           /\ \A w \in ToSet(e.reads[m].writes) : w.completed \in {0, 1}
           /\ ReturnsOnce(e.reads[m])
           /\ \A r \in Returns(e.reads[m]) : \E i \in DOMAIN x.operations :
                /\ x.operations[i].id = r.id /\ x.owners[i] = m
                /\ Done(x.operations[i]) => x.operations[i].result = Hex[r.value]
                /\ ~Done(x.operations[i]) => e.kind = Callback(x.operations[i].kind)
           /\ \A i \in DOMAIN x.operations :
                x.owners[i] = m /\ Done(x.operations[i]) =>
                  \E r \in Returns(e.reads[m]) : r.id = x.operations[i].id
BY DEF PlausibleReturns

\* An event that passes leaves every node in agreement.
LEMMA PlausibleAgrees ==
  ASSUME NEW x, WellFormed(x), Distinct(x), NEW e, IsEvent(e),
         \A n \in Node : PlausibleReturns(x, e, n)
  PROVE  /\ Distinct(ExtractReturns(x, e))
         /\ \A m \in Node : Agrees(e.reads[m], ExtractReturns(x, e), m)
<1> DEFINE z == ExtractReturns(x, e)
<1>1. /\ z.owners = x.owners /\ DOMAIN z.operations = DOMAIN x.operations
      /\ \A i \in DOMAIN x.operations : z.operations[i] = Answered(x, e, i)
  BY ReturnsAnswer
<1> HIDE DEF z
<1>2. \A i \in DOMAIN x.operations : x.owners[i] \in Node BY ExtractionPositions
<1>3. \A i \in DOMAIN x.operations : z.operations[i].id = x.operations[i].id
  BY <1>1, AnsweredTypes
<1>4. Distinct(z) BY <1>1, <1>3 DEF Distinct
<1>5. e.seq # Pending
  <2>1. e.seq \in Nat BY DEF IsEvent
  <2> QED BY ONLY <2>1 DEF Pending
<1>6. ASSUME NEW i \in DOMAIN x.operations
      PROVE  \/ z.operations[i] = x.operations[i]
             \/ \E r \in Returns(e.reads[x.owners[i]]) :
                  /\ r.id = x.operations[i].id
                  /\ Done(z.operations[i]) /\ z.operations[i].result = Hex[r.value]
  BY <1>1, <1>5, AnsweredTypes DEF Done
<1>7. ASSUME NEW m \in Node PROVE Agrees(e.reads[m], z, m)
  <2> DEFINE s == e.reads[m]
  <2>0. s \in Shown BY DEF IsEvent
  <2>1. /\ \A w \in ToSet(s.writes) : w.completed \in {0, 1}
        /\ ReturnsOnce(s)
        /\ \A r \in Returns(s) : \E i \in DOMAIN x.operations :
             /\ x.operations[i].id = r.id /\ x.owners[i] = m
             /\ Done(x.operations[i]) => x.operations[i].result = Hex[r.value]
        /\ \A i \in DOMAIN x.operations :
             x.owners[i] = m /\ Done(x.operations[i]) =>
               \E r \in Returns(s) : r.id = x.operations[i].id
    BY PlausibleParts
  <2> HIDE DEF s
  <2>2. ASSUME NEW r \in Returns(s)
        PROVE  \E i \in DOMAIN z.operations :
                 /\ z.operations[i].id = r.id /\ z.owners[i] = m
                 /\ Done(z.operations[i]) /\ z.operations[i].result = Hex[r.value]
    <3>1. PICK i \in DOMAIN x.operations :
            /\ x.operations[i].id = r.id /\ x.owners[i] = m
            /\ Done(x.operations[i]) => x.operations[i].result = Hex[r.value]
      BY <2>1
    <3>2. z.operations[i].id = r.id /\ z.owners[i] = m /\ i \in DOMAIN z.operations
      BY <1>1, <1>3, <3>1
    <3>3. CASE Done(x.operations[i])
      <4>1. z.operations[i] = x.operations[i] BY <1>1, <3>3 DEF Answered
      <4> QED BY <3>1, <3>2, <3>3, <4>1
    <3>4. CASE ~Done(x.operations[i])
      <4>1. r \in {q \in Returns(e.reads[x.owners[i]]) : q.id = x.operations[i].id} BY <3>1 DEF s
      <4> DEFINE R == {q \in Returns(e.reads[x.owners[i]]) : q.id = x.operations[i].id}
                 c == CHOOSE q \in R : TRUE
      <4>2. R # {} /\ c \in R BY <4>1
      <4>3. c = r
        <5>1. c \in Returns(s) /\ c.id = r.id BY <3>1, <4>2 DEF s
        <5> HIDE DEF c
        <5> QED BY <2>0, <2>1, <5>1, ReturnedOnce
      <4>4. z.operations[i] = [x.operations[i] EXCEPT !.returned = e.seq, !.result = Hex[c.value]]
        BY <1>1, <3>4, <4>2 DEF Answered
      <4> HIDE DEF R, c
      <4>5. x.operations[i] \in Operation BY ExtractionPositions
      <4>6. z.operations[i].returned = e.seq /\ z.operations[i].result = Hex[r.value]
        BY <4>3, <4>4, <4>5 DEF Operation
      <4>7. Done(z.operations[i]) BY <1>5, <4>6 DEF Done
      <4> QED BY <3>2, <4>6, <4>7
    <3> QED BY <3>3, <3>4
  <2>3. ASSUME NEW i \in DOMAIN z.operations, z.owners[i] = m, Done(z.operations[i])
        PROVE  \E r \in Returns(s) : r.id = z.operations[i].id
    <3>1. i \in DOMAIN x.operations /\ x.owners[i] = m BY <1>1, <2>3
    <3>2. CASE z.operations[i] = x.operations[i]
      <4>1. Done(x.operations[i]) BY <2>3, <3>2
      <4> QED BY <2>1, <3>1, <3>2, <4>1
    <3>3. CASE z.operations[i] # x.operations[i]
      <4>1. \E r \in Returns(e.reads[x.owners[i]]) : r.id = x.operations[i].id BY <1>6, <3>1, <3>3
      <4> QED BY <1>3, <3>1, <4>1 DEF s
    <3> QED BY <3>2, <3>3
  <2>4. Agrees(s, z, m) BY <2>1, <2>2, <2>3 DEF Agrees
  <2> QED BY <2>4 DEF s
<1> QED BY <1>4, <1>7 DEF z

\* y is x, possibly with one more pending operation.
Extends(x, y) ==
  /\ DOMAIN x.operations \subseteq DOMAIN y.operations
  /\ \A i \in DOMAIN x.operations : y.operations[i] = x.operations[i] /\ y.owners[i] = x.owners[i]
  /\ \A i \in DOMAIN y.operations : Done(y.operations[i]) => i \in DOMAIN x.operations

\* A node that shows the same returns passes.
LEMMA SameReturnsPlausible ==
  ASSUME NEW state, NEW x, NEW y, NEW m, Agrees(state, x, m), Extends(x, y), NEW e,
         \A w \in ToSet(e.reads[m].writes) : w.completed \in {0, 1},
         ReturnsOnce(e.reads[m]), Returns(e.reads[m]) = Returns(state)
  PROVE  PlausibleReturns(y, e, m)
<1>1. ASSUME NEW r \in Returns(e.reads[m])
      PROVE  \E i \in DOMAIN y.operations :
               /\ y.operations[i].id = r.id /\ y.owners[i] = m
               /\ Done(y.operations[i]) => y.operations[i].result = Hex[r.value]
               /\ ~Done(y.operations[i]) => e.kind = Callback(y.operations[i].kind)
  <2>1. PICK i \in DOMAIN x.operations :
          /\ x.operations[i].id = r.id /\ x.owners[i] = m
          /\ Done(x.operations[i]) /\ x.operations[i].result = Hex[r.value]
    BY DEF Agrees
  <2>2. /\ i \in DOMAIN y.operations /\ y.operations[i] = x.operations[i]
        /\ y.owners[i] = x.owners[i]
    BY DEF Extends
  <2> QED BY <2>1, <2>2
<1>2. ASSUME NEW i \in DOMAIN y.operations, y.owners[i] = m, Done(y.operations[i])
      PROVE  \E r \in Returns(e.reads[m]) : r.id = y.operations[i].id
  BY <1>2 DEF Extends, Agrees
<1> QED BY <1>1, <1>2, PlausibleParts

\* An event that shows no return passes if its identity is fresh.
LEMMA ExtendsItself ==
  ASSUME NEW x
  PROVE  Extends(x, x)
BY DEF Extends

LEMMA InvocationExtends ==
  ASSUME NEW x, WellFormed(x), Distinct(x), NEW e, IsEvent(e), e.kind \in {"read", "propose"},
         Invoked(e).id \notin Ids(x.operations)
  PROVE  LET y == ExtractInvocation(x, e)
         IN  Extends(x, y) /\ Distinct(y) /\ y.ok = x.ok /\ Invoked(e).id \in Ids(y.operations)
             /\ Ids(x.operations) \subseteq Ids(y.operations)
<1> DEFINE y == ExtractInvocation(x, e)
           op == Invoked(e)
           N == Len(x.operations)
<1>1. /\ y.operations = Append(x.operations, op) /\ y.owners = Append(x.owners, e.node)
      /\ y.ok = (x.ok /\ op.id \notin Ids(x.operations))
      /\ op \in Operation
  BY InvocationAppends
<1>2. /\ x.operations \in Seq(Operation) /\ x.owners \in Seq(Node) /\ N \in Nat
      /\ DOMAIN x.operations = 1..N /\ Len(x.owners) = N /\ x.ok \in BOOLEAN
  BY ExtractionPositions DEF WellFormed
<1>3. ~Done(op) BY DEF Invoked, Done
<1> HIDE DEF op, y
<1>4. /\ DOMAIN y.operations = 1..(N + 1)
      /\ \A i \in 1..N : y.operations[i] = x.operations[i]
      /\ y.operations[N + 1] = op
  <2>1. op \in Operation /\ x.operations \in Seq(Operation) BY <1>1, <1>2
  <2>2. /\ Append(x.operations, op) \in Seq(Operation)
        /\ Len(Append(x.operations, op)) = Len(x.operations) + 1
        /\ \A i \in 1..Len(x.operations) : Append(x.operations, op)[i] = x.operations[i]
        /\ Append(x.operations, op)[Len(x.operations) + 1] = op
    BY ONLY <2>1, AppendProperties
  <2>3. DOMAIN Append(x.operations, op) = 1..Len(Append(x.operations, op)) BY <2>2, LenProperties
  <2> QED BY <1>1, <2>2, <2>3
<1>5. \A i \in 1..N : y.owners[i] = x.owners[i]
  <2>1. x.owners \in Seq(Node) /\ e.node \in Node BY <1>2 DEF IsEvent
  <2>2. \A i \in 1..Len(x.owners) : Append(x.owners, e.node)[i] = x.owners[i]
    BY ONLY <2>1, AppendProperties
  <2> QED BY <1>1, <1>2, <2>2
<1>6. \A i \in 1..(N + 1) : i \in 1..N \/ i = N + 1
  <2>1. N \in Nat BY <1>2
  <2> HIDE DEF N
  <2> QED BY ONLY <2>1
<1>7. \A i \in 1..N : i \in 1..(N + 1)
  <2>1. N \in Nat BY <1>2
  <2> HIDE DEF N
  <2> QED BY ONLY <2>1
<1>8. N + 1 \in 1..(N + 1)
  <2>1. N \in Nat BY <1>2
  <2> HIDE DEF N
  <2> QED BY ONLY <2>1
<1> HIDE DEF N
<1>9. Extends(x, y) BY <1>2, <1>3, <1>4, <1>5, <1>6, <1>7 DEF Extends
<1>10. \A i \in 1..N : x.operations[i].id # op.id BY <1>2 DEF Ids, ToSet, op
<1>11. ASSUME NEW i \in 1..(N + 1), NEW j \in 1..(N + 1), y.operations[i].id = y.operations[j].id
       PROVE  i = j
  <2>1. CASE i \in 1..N /\ j \in 1..N BY <1>2, <1>4, <1>11, <2>1 DEF Distinct
  <2>2. CASE i \in 1..N /\ j = N + 1 BY <1>4, <1>10, <1>11, <2>2
  <2>3. CASE i = N + 1 /\ j \in 1..N BY <1>4, <1>10, <1>11, <2>3
  <2> QED BY <1>6, <2>1, <2>2, <2>3
<1>12. Distinct(y) BY <1>4, <1>11 DEF Distinct
<1>13. op.id \in Ids(y.operations) BY <1>4, <1>8 DEF Ids, ToSet
<1>14. Ids(x.operations) \subseteq Ids(y.operations)
  <2>1. \A i \in 1..N : x.operations[i].id \in Ids(y.operations)
    BY <1>4, <1>7 DEF Ids, ToSet
  <2> QED BY <1>2, <2>1 DEF Ids, ToSet
<1>15. y.ok = x.ok BY <1>1, <1>2 DEF op
<1> QED BY <1>9, <1>12, <1>13, <1>14, <1>15 DEF y, op

\* The identities extract knows never change.
LEMMA ReturnsKeepIds ==
  ASSUME NEW x, WellFormed(x), NEW e, IsEvent(e)
  PROVE  Ids(ExtractReturns(x, e).operations) = Ids(x.operations)
<1> DEFINE z == ExtractReturns(x, e)
<1>1. /\ DOMAIN z.operations = DOMAIN x.operations
      /\ \A i \in DOMAIN x.operations : z.operations[i] = Answered(x, e, i)
  BY ReturnsAnswer
<1> HIDE DEF z
<1>2. \A i \in DOMAIN x.operations : z.operations[i].id = x.operations[i].id
  BY <1>1, AnsweredTypes
<1>3. Ids(z.operations) = {z.operations[i].id : i \in DOMAIN z.operations}
      /\ Ids(x.operations) = {x.operations[i].id : i \in DOMAIN x.operations}
  BY DEF Ids, ToSet
<1>4. Ids(z.operations) = Ids(x.operations) BY ONLY <1>1, <1>2, <1>3
<1> QED BY <1>4 DEF z

EventOf(kind, n, c, v, state) == Event(kind, n, c, v, [shown EXCEPT ![n] = state])

LEMMA StepEvent ==
  ASSUME HistoryTypeOK, NEW kind, NEW n, NEW c, NEW v, NEW state, NEW fault,
         Step(kind, n, c, v, state, fault), NEW e, e = EventOf(kind, n, c, v, state)
  PROVE  /\ IsEvent(e) /\ n \in Node /\ state \in Shown
         /\ e.kind = kind /\ e.node = n /\ e.context = c /\ e.value = v
         /\ e.reads[n] = state /\ \A m \in Node \ {n} : e.reads[m] = shown[m]
         /\ phase = "trace" /\ faulty' = fault /\ shown' = e.reads
         /\ extracted' = ExtractReturns(ExtractInvocation(extracted, e), e)
         /\ phase' = IF extracted'.ok THEN "trace" ELSE "refused"
         /\ WellFormed(extracted) /\ WellFormed(ExtractInvocation(extracted, e))
<1> DEFINE reads == [shown EXCEPT ![n] = state]
<1>1. n \in Node /\ state \in Shown /\ shown \in [Node -> Shown] /\ WellFormed(extracted)
  BY DEF Step, HistoryTypeOK
<1>2. /\ kind \in {"read", "propose"} => c \in Context
      /\ kind = "propose" => v \in Text /\ v # ""
  BY DEF Step
<1>3. reads[n] = state /\ \A m \in Node \ {n} : reads[m] = shown[m] BY <1>1
<1>4. e = Event(kind, n, c, v, reads) BY DEF EventOf
<1>5. reads = [shown EXCEPT ![n] = state] OBVIOUS
<1>6. Observe(Event(kind, n, c, v, reads), fault) BY DEF Step, Traced
<1> HIDE DEF reads
<1>7. IsEvent(e) BY <1>1, <1>2, <1>4, <1>5, EventTypes
<1>8. e.kind = kind /\ e.node = n /\ e.context = c /\ e.value = v /\ e.reads = reads
  BY <1>4 DEF Event
<1>9. Observe(e, fault) BY <1>4, <1>6
<1>10. WellFormed(ExtractInvocation(extracted, e)) BY <1>1, <1>7, InvocationWellFormed
<1>11. /\ phase = "trace" /\ faulty' = fault /\ shown' = e.reads
       /\ extracted' = ExtractReturns(ExtractInvocation(extracted, e), e)
       /\ phase' = IF extracted'.ok THEN "trace" ELSE "refused"
  BY <1>9 DEF Observe, Extract
<1> QED BY <1>1, <1>3, <1>7, <1>8, <1>10, <1>11

\* An event that fails one requirement is refused.
LEMMA StepRefused ==
  ASSUME HistoryTypeOK, NEW kind, NEW n, NEW c, NEW v, NEW state, NEW fault,
         Step(kind, n, c, v, state, fault), NEW e, e = EventOf(kind, n, c, v, state),
         \/ ~ ExtractInvocation(extracted, e).ok
         \/ ~ PlausibleReturns(ExtractInvocation(extracted, e), e, n)
  PROVE  extracted'.ok = FALSE /\ phase' = "refused" /\ faulty' = fault
<1> DEFINE y == ExtractInvocation(extracted, e)
<1>1. /\ IsEvent(e) /\ WellFormed(y) /\ n \in Node /\ faulty' = fault
      /\ extracted' = ExtractReturns(y, e)
      /\ phase' = IF extracted'.ok THEN "trace" ELSE "refused"
  BY StepEvent
<1>2. ~ y.ok \/ ~ PlausibleReturns(y, e, n) OBVIOUS
<1> HIDE DEF y
<1>3. extracted'.ok = (y.ok /\ \A m \in Node : PlausibleReturns(y, e, m)) BY <1>1, ReturnsAnswer
<1> QED BY <1>1, <1>2, <1>3

\* An event whose identity is fresh and whose node passes is accepted.
LEMMA StepAccepted ==
  ASSUME HistoryTypeOK, Consistent(shown, extracted),
         NEW kind, NEW n, NEW c, NEW v, NEW state, NEW fault,
         Step(kind, n, c, v, state, fault), NEW e, e = EventOf(kind, n, c, v, state),
         NEW y, y = ExtractInvocation(extracted, e),
         Extends(extracted, y), Distinct(y), y.ok = TRUE, Ids(extracted.operations) \subseteq Ids(y.operations),
         PlausibleReturns(y, e, n), Tracked(state, y)
  PROVE  extracted'.ok = TRUE /\ phase' = "trace" /\ faulty' = fault /\ Consistent(shown', extracted')
<1>1. /\ IsEvent(e) /\ WellFormed(y) /\ n \in Node /\ faulty' = fault
      /\ extracted' = ExtractReturns(y, e) /\ shown' = e.reads
      /\ phase' = IF extracted'.ok THEN "trace" ELSE "refused"
      /\ e.reads[n] = state /\ \A m \in Node \ {n} : e.reads[m] = shown[m]
  BY StepEvent
<1>2. ASSUME NEW m \in Node PROVE PlausibleReturns(y, e, m)
  <2>1. CASE m = n BY <2>1
  <2>2. CASE m # n
    <3>1. e.reads[m] = shown[m] BY <1>1, <2>2
    <3>2. Agrees(shown[m], extracted, m) BY DEF Consistent
    <3>3. /\ \A w \in ToSet(e.reads[m].writes) : w.completed \in {0, 1}
          /\ ReturnsOnce(e.reads[m]) /\ Returns(e.reads[m]) = Returns(shown[m])
      BY <3>1, <3>2 DEF Agrees
    <3> QED BY <3>2, <3>3, SameReturnsPlausible
  <2> QED BY <2>1, <2>2
<1>3. extracted'.ok = TRUE
  <2>1. extracted'.ok = (y.ok /\ \A m \in Node : PlausibleReturns(y, e, m)) BY <1>1, ReturnsAnswer
  <2> QED BY <1>2, <2>1
<1>4. Distinct(extracted') /\ \A m \in Node : Agrees(e.reads[m], extracted', m)
  BY <1>1, <1>2, PlausibleAgrees
<1>5. Ids(extracted'.operations) = Ids(y.operations) BY <1>1, ReturnsKeepIds
<1>6. ASSUME NEW m \in Node PROVE Tracked(e.reads[m], extracted')
  <2>1. CASE m = n BY <1>1, <1>5, <2>1 DEF Tracked
  <2>2. CASE m # n
    <3>1. e.reads[m] = shown[m] /\ Tracked(shown[m], extracted) BY <1>1, <2>2 DEF Consistent
    <3> QED BY <1>5, <3>1 DEF Tracked
  <2> QED BY <2>1, <2>2
<1> QED BY <1>1, <1>3, <1>4, <1>6 DEF Consistent

\* The trace so far is forged exactly when extract has refused it.
TraceInv ==
  /\ extracted.ok = ~faulty
  /\ phase = "trace" => extracted.ok = TRUE /\ Consistent(shown, extracted)

\* A client asks for a read.
LEMMA InvokeReadTrace ==
  ASSUME HistoryTypeOK, TraceInv, NEW n \in Node, NEW c \in Context, InvokeRead(n, c)
  PROVE  TraceInv'
<1> DEFINE f == c \in Used("read")
           s == shown[n]
           u == ""
           e == EventOf("read", n, c, u, s)
           y == ExtractInvocation(extracted, e)
<1>1. Step("read", n, c, u, s, f) BY TraceSteps
<1>2. e = EventOf("read", n, c, u, s) /\ s = shown[n] OBVIOUS
<1>3. f <=> <<"read", c>> \in Ids(extracted.operations) BY DEF Used, operations
<1>4. y = ExtractInvocation(extracted, e) /\ f \in BOOLEAN OBVIOUS
<1> HIDE DEF f, s, u, e, y
<1>5. /\ IsEvent(e) /\ e.kind = "read" /\ e.context = c /\ e.reads[n] = s
      /\ WellFormed(extracted) /\ phase = "trace"
  BY <1>1, <1>2, StepEvent
<1>6. extracted.ok = TRUE /\ Consistent(shown, extracted) BY <1>5 DEF TraceInv
<1>7. Invoked(e).id = <<"read", c>> BY <1>5 DEF Invoked
<1>8. CASE f
  <2>1. ~ y.ok BY <1>3, <1>4, <1>5, <1>7, <1>8, InvocationAppends
  <2>2. extracted'.ok = FALSE /\ phase' = "refused" /\ faulty' = f
    BY <1>1, <1>2, <1>4, <2>1, StepRefused
  <2> QED BY <1>8, <2>2 DEF TraceInv
<1>9. CASE ~f
  <2>0. Invoked(e).id \notin Ids(extracted.operations) BY <1>3, <1>7, <1>9
  <2>1. /\ Extends(extracted, y) /\ Distinct(y) /\ y.ok = TRUE
        /\ Ids(extracted.operations) \subseteq Ids(y.operations)
    BY <1>4, <1>5, <1>6, <2>0, InvocationExtends DEF Consistent
  <2>2. Agrees(shown[n], extracted, n) /\ Tracked(shown[n], extracted) BY <1>6 DEF Consistent
  <2>3. PlausibleReturns(y, e, n)
    <3>1. /\ \A w \in ToSet(e.reads[n].writes) : w.completed \in {0, 1}
          /\ ReturnsOnce(e.reads[n]) /\ Returns(e.reads[n]) = Returns(shown[n])
      BY <1>2, <1>5, <2>2 DEF Agrees
    <3> QED BY <2>1, <2>2, <3>1, SameReturnsPlausible
  <2>4. Tracked(s, y) BY <1>2, <2>1, <2>2 DEF Tracked
  <2>5. extracted'.ok = TRUE /\ phase' = "trace" /\ faulty' = f /\ Consistent(shown', extracted')
    BY <1>1, <1>2, <1>4, <1>6, <2>1, <2>3, <2>4, StepAccepted
  <2>6. faulty' = FALSE BY <1>4, <1>9, <2>5
  <2> QED BY <2>5, <2>6 DEF TraceInv
<1> QED BY <1>8, <1>9

\* One entry of a node's state, as a return.
ReadReturn(state, k) ==
  [id |-> <<"read", state.completed[k].context>>, value |-> state.completed[k].value]

WriteReturn(state, k) == [id |-> <<"write", state.writes[k].context>>, value |-> ""]

LEMMA ReturnMembers ==
  ASSUME NEW state
  PROVE  /\ \A k \in DOMAIN state.completed : ReadReturn(state, k) \in Returns(state)
         /\ \A k \in CompletedWrites(state) : WriteReturn(state, k) \in Returns(state)
         /\ \A r \in Returns(state) : \/ \E k \in DOMAIN state.completed : r = ReadReturn(state, k)
                                      \/ \E k \in CompletedWrites(state) : r = WriteReturn(state, k)
<1>1. Returns(state) = {ReadReturn(state, k) : k \in DOMAIN state.completed} \cup
                       {WriteReturn(state, k) : k \in CompletedWrites(state)}
  BY DEF Returns, ReadReturn, WriteReturn
<1> QED BY ONLY <1>1

LEMMA ReturnFields ==
  ASSUME NEW state, NEW k
  PROVE  /\ ReadReturn(state, k).id = <<"read", state.completed[k].context>>
         /\ ReadReturn(state, k).value = state.completed[k].value
         /\ WriteReturn(state, k).id = <<"write", state.writes[k].context>>
         /\ WriteReturn(state, k).value = ""
BY DEF ReadReturn, WriteReturn

\* The reads and the writes a state shows as returned.
LEMMA ShownReads ==
  ASSUME NEW state, NEW c, NEW r \in Returns(state), r.id = <<"read", c>>
  PROVE  \E k \in DOMAIN state.completed :
           state.completed[k].context = c /\ r = ReadReturn(state, k)
<1>1. \A a, b : <<"read", a>> # <<"write", b>> /\ (<<"read", a>> = <<"read", b>> => a = b) OBVIOUS
<1>2. \A k : /\ ReadReturn(state, k).id = <<"read", state.completed[k].context>>
             /\ WriteReturn(state, k).id = <<"write", state.writes[k].context>>
  BY ONLY ReturnFields
<1>3. \/ \E k \in DOMAIN state.completed : r = ReadReturn(state, k)
      \/ \E k \in CompletedWrites(state) : r = WriteReturn(state, k)
  BY ReturnMembers
<1> QED BY ONLY <1>1, <1>2, <1>3, r.id = <<"read", c>>

LEMMA ShownWrites ==
  ASSUME NEW state, NEW c, NEW r \in Returns(state), r.id = <<"write", c>>
  PROVE  \E k \in CompletedWrites(state) : state.writes[k].context = c
<1>1. \A a, b : <<"read", a>> # <<"write", b>> /\ (<<"write", a>> = <<"write", b>> => a = b) OBVIOUS
<1>2. \A k : /\ ReadReturn(state, k).id = <<"read", state.completed[k].context>>
             /\ WriteReturn(state, k).id = <<"write", state.writes[k].context>>
  BY ONLY ReturnFields
<1>3. \/ \E k \in DOMAIN state.completed : r = ReadReturn(state, k)
      \/ \E k \in CompletedWrites(state) : r = WriteReturn(state, k)
  BY ReturnMembers
<1> QED BY ONLY <1>1, <1>2, <1>3, r.id = <<"write", c>>

\* What a node shows, as the operations extract has.
IsReturned(x, m, id, v) ==
  \E i \in DOMAIN x.operations :
    /\ x.operations[i].id = id /\ x.owners[i] = m
    /\ Done(x.operations[i]) /\ x.operations[i].result = Hex[v]

LEMMA AgreedRead ==
  ASSUME NEW state, NEW x, NEW m, Agrees(state, x, m), NEW k \in DOMAIN state.completed
  PROVE  IsReturned(x, m, <<"read", state.completed[k].context>>, state.completed[k].value)
<1>1. \A r \in Returns(state) : IsReturned(x, m, r.id, r.value) BY DEF Agrees, IsReturned
<1>2. ReadReturn(state, k) \in Returns(state) BY ReturnMembers
<1>3. /\ ReadReturn(state, k).id = <<"read", state.completed[k].context>>
      /\ ReadReturn(state, k).value = state.completed[k].value
  BY ONLY ReturnFields
<1>4. IsReturned(x, m, ReadReturn(state, k).id, ReadReturn(state, k).value) BY ONLY <1>1, <1>2
<1> QED BY ONLY <1>3, <1>4

LEMMA AgreedWrite ==
  ASSUME NEW state, NEW x, NEW m, Agrees(state, x, m), NEW k \in CompletedWrites(state)
  PROVE  IsReturned(x, m, <<"write", state.writes[k].context>>, "")
<1>1. \A r \in Returns(state) : IsReturned(x, m, r.id, r.value) BY DEF Agrees, IsReturned
<1>2. WriteReturn(state, k) \in Returns(state) BY ReturnMembers
<1>3. /\ WriteReturn(state, k).id = <<"write", state.writes[k].context>>
      /\ WriteReturn(state, k).value = ""
  BY ONLY ReturnFields
<1>4. IsReturned(x, m, WriteReturn(state, k).id, WriteReturn(state, k).value) BY ONLY <1>1, <1>2
<1> QED BY ONLY <1>3, <1>4

LEMMA AgreedDone ==
  ASSUME NEW state, NEW x, NEW m, Agrees(state, x, m), NEW i \in DOMAIN x.operations, NEW c,
         x.owners[i] = m, Done(x.operations[i])
  PROVE  /\ x.operations[i].id = <<"read", c>> =>
              \E k \in DOMAIN state.completed : state.completed[k].context = c
         /\ x.operations[i].id = <<"write", c>> =>
              \E k \in CompletedWrites(state) : state.writes[k].context = c
<1>1. PICK r \in Returns(state) : r.id = x.operations[i].id BY DEF Agrees
<1>2. ASSUME x.operations[i].id = <<"read", c>>
      PROVE  \E k \in DOMAIN state.completed : state.completed[k].context = c
  BY <1>1, <1>2, ShownReads
<1>3. ASSUME x.operations[i].id = <<"write", c>>
      PROVE  \E k \in CompletedWrites(state) : state.writes[k].context = c
  BY <1>1, <1>3, ShownWrites
<1> QED BY <1>2, <1>3

\* The same, of a state that passes.
MayReturn(x, e, m, id, v) ==
  \E i \in DOMAIN x.operations :
    /\ x.operations[i].id = id /\ x.owners[i] = m
    /\ Done(x.operations[i]) => x.operations[i].result = Hex[v]
    /\ ~Done(x.operations[i]) => e.kind = Callback(x.operations[i].kind)

LEMMA PlausibleRead ==
  ASSUME NEW x, NEW e, NEW m, PlausibleReturns(x, e, m), NEW state, e.reads[m] = state,
         NEW k \in DOMAIN state.completed
  PROVE  MayReturn(x, e, m, <<"read", state.completed[k].context>>, state.completed[k].value)
<1>1. \A r \in Returns(state) : MayReturn(x, e, m, r.id, r.value) BY PlausibleParts DEF MayReturn
<1>2. ReadReturn(state, k) \in Returns(state) BY ReturnMembers
<1>3. /\ ReadReturn(state, k).id = <<"read", state.completed[k].context>>
      /\ ReadReturn(state, k).value = state.completed[k].value
  BY ONLY ReturnFields
<1>4. MayReturn(x, e, m, ReadReturn(state, k).id, ReadReturn(state, k).value) BY ONLY <1>1, <1>2
<1> QED BY ONLY <1>3, <1>4

LEMMA PlausibleWrite ==
  ASSUME NEW x, NEW e, NEW m, PlausibleReturns(x, e, m), NEW state, e.reads[m] = state,
         NEW k \in CompletedWrites(state)
  PROVE  MayReturn(x, e, m, <<"write", state.writes[k].context>>, "")
<1>1. \A r \in Returns(state) : MayReturn(x, e, m, r.id, r.value) BY PlausibleParts DEF MayReturn
<1>2. WriteReturn(state, k) \in Returns(state) BY ReturnMembers
<1>3. /\ WriteReturn(state, k).id = <<"write", state.writes[k].context>>
      /\ WriteReturn(state, k).value = ""
  BY ONLY ReturnFields
<1>4. MayReturn(x, e, m, WriteReturn(state, k).id, WriteReturn(state, k).value) BY ONLY <1>1, <1>2
<1> QED BY ONLY <1>3, <1>4

LEMMA PlausibleDone ==
  ASSUME NEW x, NEW e, NEW m, PlausibleReturns(x, e, m), NEW state, e.reads[m] = state,
         NEW i \in DOMAIN x.operations, NEW c, x.owners[i] = m, Done(x.operations[i])
  PROVE  /\ x.operations[i].id = <<"read", c>> =>
              \E k \in DOMAIN state.completed : state.completed[k].context = c
         /\ x.operations[i].id = <<"write", c>> =>
              \E k \in CompletedWrites(state) : state.writes[k].context = c
<1>1. PICK r \in Returns(state) : r.id = x.operations[i].id BY PlausibleParts
<1>2. ASSUME x.operations[i].id = <<"read", c>>
      PROVE  \E k \in DOMAIN state.completed : state.completed[k].context = c
  BY <1>1, <1>2, ShownReads
<1>3. ASSUME x.operations[i].id = <<"write", c>>
      PROVE  \E k \in CompletedWrites(state) : state.writes[k].context = c
  BY <1>1, <1>3, ShownWrites
<1> QED BY <1>2, <1>3

\* What a proposal adds is not shown as returned.
LEMMA ProposedReturns ==
  ASSUME HistoryTypeOK, NEW n \in Node, NEW c \in Context,
         \A w \in ToSet(shown[n].writes) : w.completed \in {0, 1}, ReturnsOnce(shown[n])
  PROVE  /\ Returns(Proposed(n, c)) = Returns(shown[n])
         /\ ReturnsOnce(Proposed(n, c))
         /\ \A w \in ToSet(Proposed(n, c).writes) : w.completed \in {0, 1}
         /\ DOMAIN Proposed(n, c).writes = DOMAIN shown[n].writes \cup {Len(shown[n].writes) + 1}
         /\ \A k \in DOMAIN shown[n].writes : Proposed(n, c).writes[k] = shown[n].writes[k]
         /\ Proposed(n, c).writes[Len(shown[n].writes) + 1].context = c
         /\ Len(shown[n].writes) + 1 \notin DOMAIN shown[n].writes
<1> DEFINE s == shown[n]
           t == Proposed(n, c)
           N == Len(s.writes)
           W == [context : Context, completed : 0..2]
           w == [context |-> c, completed |-> 0]
<1>1. s.writes \in Seq(W) BY ShownTypes
<1>2. N \in Nat /\ DOMAIN s.writes = 1..N BY <1>1, LenProperties
<1>3. w \in W /\ w.completed = 0 /\ w.context = c OBVIOUS
<1>4. t.writes = Append(s.writes, w) /\ t.completed = s.completed BY DEF Proposed
<1> HIDE DEF s, t, w, W
<1>5. /\ Append(s.writes, w) \in Seq(W) /\ Len(Append(s.writes, w)) = N + 1
      /\ \A k \in 1..N : Append(s.writes, w)[k] = s.writes[k]
      /\ Append(s.writes, w)[N + 1] = w
  BY <1>1, <1>3, AppendProperties
<1>6. DOMAIN t.writes = 1..(N + 1) BY <1>4, <1>5, LenProperties
<1>7. 1..(N + 1) = 1..N \cup {N + 1} /\ N + 1 \notin 1..N
  <2>1. N \in Nat BY <1>2
  <2> HIDE DEF N
  <2> QED BY ONLY <2>1
<1> HIDE DEF N
<1>8. /\ DOMAIN t.writes = DOMAIN s.writes \cup {N + 1} /\ N + 1 \notin DOMAIN s.writes
      /\ \A k \in DOMAIN s.writes : t.writes[k] = s.writes[k]
      /\ t.writes[N + 1] = w
  BY <1>2, <1>4, <1>5, <1>6, <1>7
<1>9. CompletedWrites(t) = CompletedWrites(s)
  BY <1>3, <1>8 DEF CompletedWrites
<1>10. CompletedWrites(s) \subseteq DOMAIN s.writes BY DEF CompletedWrites
<1>11. Returns(t) = Returns(s)
  <2>1. \A k : ReadReturn(t, k) = ReadReturn(s, k) BY <1>4 DEF ReadReturn
  <2>2. \A k \in CompletedWrites(s) : WriteReturn(t, k) = WriteReturn(s, k)
    BY <1>8, <1>10 DEF WriteReturn
  <2>3. DOMAIN t.completed = DOMAIN s.completed BY <1>4
  <2>4. \A r : r \in Returns(t) <=> r \in Returns(s)
    BY ONLY <1>9, <2>1, <2>2, <2>3, ReturnMembers
  <2> QED BY ONLY <2>4
<1>12. ReturnsOnce(t)
  <2>1. ReturnsOnce(s) BY DEF s
  <2> QED BY <1>4, <1>8, <1>9, <1>10, <2>1 DEF ReturnsOnce
<1>13. \A u \in ToSet(t.writes) : u.completed \in {0, 1}
  <2>1. \A k \in DOMAIN s.writes : s.writes[k].completed \in {0, 1} BY DEF ToSet, s
  <2>2. \A k \in DOMAIN t.writes : t.writes[k].completed \in {0, 1} BY <1>3, <1>8, <2>1
  <2> QED BY <2>2 DEF ToSet
<1> QED BY <1>3, <1>8, <1>11, <1>12, <1>13 DEF s, t, N

\* A client proposes a write.
LEMMA ProposeTrace ==
  ASSUME HistoryTypeOK, TraceInv, NEW n \in Node, NEW c \in Context, NEW v \in Text,
         Propose(n, c, v)
  PROVE  TraceInv'
<1> DEFINE f == c \in Used("write")
           t == Proposed(n, c)
           e == EventOf("propose", n, c, v, t)
           y == ExtractInvocation(extracted, e)
<1>1. Step("propose", n, c, v, t, f) BY TraceSteps
<1>2. e = EventOf("propose", n, c, v, t) OBVIOUS
<1>3. f <=> <<"write", c>> \in Ids(extracted.operations) BY DEF Used, operations
<1>4. y = ExtractInvocation(extracted, e) /\ f \in BOOLEAN OBVIOUS
<1> HIDE DEF f, e, y
<1>5. /\ IsEvent(e) /\ e.kind = "propose" /\ e.context = c /\ e.reads[n] = t
      /\ WellFormed(extracted) /\ phase = "trace"
  BY <1>1, <1>2, StepEvent
<1>6. extracted.ok = TRUE /\ Consistent(shown, extracted) BY <1>5 DEF TraceInv
<1>7. Invoked(e).id = <<"write", c>> BY <1>5 DEF Invoked
<1>8. CASE f
  <2>1. ~ y.ok BY <1>3, <1>4, <1>5, <1>7, <1>8, InvocationAppends
  <2>2. extracted'.ok = FALSE /\ phase' = "refused" /\ faulty' = f
    BY <1>1, <1>2, <1>4, <2>1, StepRefused
  <2> QED BY <1>8, <2>2 DEF TraceInv
<1>9. CASE ~f
  <2>0. Invoked(e).id \notin Ids(extracted.operations) BY <1>3, <1>7, <1>9
  <2>1. /\ Extends(extracted, y) /\ Distinct(y) /\ y.ok = TRUE
        /\ Ids(extracted.operations) \subseteq Ids(y.operations)
        /\ <<"write", c>> \in Ids(y.operations)
    BY <1>4, <1>5, <1>6, <1>7, <2>0, InvocationExtends DEF Consistent
  <2>2. Agrees(shown[n], extracted, n) /\ Tracked(shown[n], extracted) BY <1>6 DEF Consistent
  <2> DEFINE W == shown[n].writes
             N == Len(shown[n].writes)
  <2>3. /\ Returns(t) = Returns(shown[n]) /\ ReturnsOnce(t)
        /\ \A w \in ToSet(t.writes) : w.completed \in {0, 1}
        /\ DOMAIN t.writes = DOMAIN W \cup {N + 1}
        /\ \A k \in DOMAIN W : t.writes[k] = W[k]
        /\ t.writes[N + 1].context = c
        /\ N + 1 \notin DOMAIN W
    BY <2>2, ProposedReturns DEF Agrees
  <2> HIDE DEF t, N
  <2>4. PlausibleReturns(y, e, n)
    <3>1. /\ \A w \in ToSet(e.reads[n].writes) : w.completed \in {0, 1}
          /\ ReturnsOnce(e.reads[n]) /\ Returns(e.reads[n]) = Returns(shown[n])
      BY <1>5, <2>3
    <3> QED BY <2>1, <2>2, <3>1, SameReturnsPlausible
  <2>5. Tracked(t, y)
    <3>0. /\ \A j, k \in DOMAIN W : W[j].context = W[k].context => j = k
          /\ \A k \in DOMAIN W : <<"write", W[k].context>> \in Ids(extracted.operations)
      BY <2>2 DEF Tracked
    <3> HIDE DEF W
    <3>1. \A k \in DOMAIN W : W[k].context # c BY <1>3, <1>9, <3>0
    <3>2. \A j, k \in DOMAIN t.writes : t.writes[j].context = t.writes[k].context => j = k
      BY <2>3, <3>0, <3>1
    <3>3. \A k \in DOMAIN t.writes : <<"write", t.writes[k].context>> \in Ids(y.operations)
      BY <2>1, <2>3, <3>0
    <3> QED BY <3>2, <3>3 DEF Tracked
  <2>6. extracted'.ok = TRUE /\ phase' = "trace" /\ faulty' = f /\ Consistent(shown', extracted')
    BY <1>1, <1>2, <1>4, <1>6, <2>1, <2>4, <2>5, StepAccepted
  <2>7. faulty' = FALSE BY <1>4, <1>9, <2>6
  <2> QED BY <2>6, <2>7 DEF TraceInv
<1> QED BY <1>8, <1>9

\* A node that shows more passes if it owes what it adds, in the callback.
LEMMA GrownPlausible ==
  ASSUME NEW s, NEW t, NEW x, NEW m, Agrees(s, x, m), NEW e, e.reads[m] = t,
         \A w \in ToSet(t.writes) : w.completed \in {0, 1}, ReturnsOnce(t),
         Returns(s) \subseteq Returns(t),
         \A r \in Returns(t) : r \in Returns(s) \/
           \E i \in DOMAIN x.operations :
             /\ x.operations[i].id = r.id /\ x.owners[i] = m
             /\ ~Done(x.operations[i]) /\ e.kind = Callback(x.operations[i].kind)
  PROVE  PlausibleReturns(x, e, m)
<1>1. ASSUME NEW r \in Returns(t)
      PROVE  \E i \in DOMAIN x.operations :
               /\ x.operations[i].id = r.id /\ x.owners[i] = m
               /\ Done(x.operations[i]) => x.operations[i].result = Hex[r.value]
               /\ ~Done(x.operations[i]) => e.kind = Callback(x.operations[i].kind)
  <2>1. CASE r \in Returns(s)
    <3>1. PICK i \in DOMAIN x.operations :
            /\ x.operations[i].id = r.id /\ x.owners[i] = m
            /\ Done(x.operations[i]) /\ x.operations[i].result = Hex[r.value]
      BY <2>1 DEF Agrees
    <3> QED BY <3>1
  <2>2. CASE r \notin Returns(s)
    <3>1. PICK i \in DOMAIN x.operations :
            /\ x.operations[i].id = r.id /\ x.owners[i] = m
            /\ ~Done(x.operations[i]) /\ e.kind = Callback(x.operations[i].kind)
      BY <2>2
    <3> QED BY <3>1
  <2> QED BY <2>1, <2>2
<1>2. ASSUME NEW i \in DOMAIN x.operations, x.owners[i] = m, Done(x.operations[i])
      PROVE  \E r \in Returns(t) : r.id = x.operations[i].id
  BY <1>2 DEF Agrees
<1> QED BY <1>1, <1>2, PlausibleParts

\* What a node owes is pending under the identity it will show.
LEMMA OwedOperation ==
  ASSUME HistoryTypeOK, NEW n \in Node, NEW kind \in {"read", "write"}, NEW i \in Owed(n, kind)
  PROVE  /\ i \in DOMAIN extracted.operations /\ extracted.owners[i] = n
         /\ extracted.operations[i].id = <<kind, ContextOf(i)>>
         /\ extracted.operations[i].kind = kind /\ ~Done(extracted.operations[i])
         /\ ContextOf(i) \in Context
<1>1. /\ i \in DOMAIN operations /\ extracted.owners[i] = n
      /\ operations[i].kind = kind /\ ~Done(operations[i])
  BY DEF Owed
<1>2. /\ operations[i] \in Operation /\ operations[i].id[1] = operations[i].kind
      /\ operations[i].id[2] \in Context
  BY <1>1, OperationTypes
<1> DEFINE d == operations[i].id
<1>3. d \in {"read", "write"} \X Context BY <1>2 DEF Operation
<1>4. d[1] = kind /\ d[2] = ContextOf(i) BY <1>1, <1>2 DEF ContextOf
<1> HIDE DEF d
<1>5. d = <<d[1], d[2]>> BY <1>3
<1>6. d = <<kind, ContextOf(i)>> BY <1>4, <1>5
<1>7. operations[i].id = <<kind, ContextOf(i)>> BY <1>6 DEF d
<1> QED BY <1>1, <1>2, <1>7 DEF operations, ContextOf

\* A read added to those a node shows.
LEMMA ReadAppended ==
  ASSUME HistoryTypeOK, NEW n \in Node, NEW c \in Context, NEW v \in Text
  PROVE  /\ ReadShown(n, c, v).writes = shown[n].writes
         /\ DOMAIN ReadShown(n, c, v).completed
              = DOMAIN shown[n].completed \cup {Len(shown[n].completed) + 1}
         /\ \A k \in DOMAIN shown[n].completed :
              ReadShown(n, c, v).completed[k] = shown[n].completed[k]
         /\ ReadShown(n, c, v).completed[Len(shown[n].completed) + 1].context = c
         /\ ReadShown(n, c, v).completed[Len(shown[n].completed) + 1].value = v
         /\ Len(shown[n].completed) + 1 \notin DOMAIN shown[n].completed
<1> DEFINE C == shown[n].completed
           R == [context : Context, value : Text]
           r == [context |-> c, value |-> v]
           N == Len(C)
<1>1. C \in Seq(R) BY ShownTypes
<1>2. r \in R /\ r.context = c /\ r.value = v OBVIOUS
<1>3. ReadShown(n, c, v).completed = Append(C, r) /\ ReadShown(n, c, v).writes = shown[n].writes
  BY DEF ReadShown
<1> HIDE DEF C, R, r
<1>4. N \in Nat /\ DOMAIN C = 1..N BY <1>1, LenProperties
<1>5. /\ Append(C, r) \in Seq(R) /\ Len(Append(C, r)) = N + 1
      /\ \A k \in 1..N : Append(C, r)[k] = C[k]
      /\ Append(C, r)[N + 1] = r
  BY ONLY <1>1, <1>2, AppendProperties
<1>6. DOMAIN Append(C, r) = 1..(N + 1) BY <1>5, LenProperties
<1>7. 1..(N + 1) = 1..N \cup {N + 1} /\ N + 1 \notin 1..N
  <2>1. N \in Nat BY <1>4
  <2> HIDE DEF N
  <2> QED BY ONLY <2>1
<1> HIDE DEF N
<1> QED BY <1>2, <1>3, <1>4, <1>5, <1>6, <1>7 DEF N, C

\* A confirmed read returns.
LEMMA CompleteReadTrace ==
  ASSUME HistoryTypeOK, TraceInv, NEW n \in Node, NEW v \in Text, NEW i \in Owed(n, "read"),
         CompleteRead(n, i, v)
  PROVE  TraceInv'
<1> DEFINE c == ContextOf(i)
           none == ""
           f == FALSE
           s == shown[n]
           t == ReadShown(n, c, v)
           e == EventOf("complete_reads", n, none, none, t)
           y == ExtractInvocation(extracted, e)
           x == extracted
           N == Len(s.completed)
<1>1. Step("complete_reads", n, none, none, t, f) BY TraceSteps
<1>0. ~f OBVIOUS
<1>2. e = EventOf("complete_reads", n, none, none, t) /\ y = ExtractInvocation(extracted, e) OBVIOUS
<1>3. /\ i \in DOMAIN x.operations /\ x.owners[i] = n
      /\ x.operations[i].id = <<"read", c>> /\ x.operations[i].kind = "read"
      /\ ~Done(x.operations[i]) /\ c \in Context
  BY OwedOperation
<1>4. /\ t.writes = s.writes
      /\ DOMAIN t.completed = DOMAIN s.completed \cup {N + 1}
      /\ \A k \in DOMAIN s.completed : t.completed[k] = s.completed[k]
      /\ t.completed[N + 1].context = c /\ N + 1 \notin DOMAIN s.completed
  BY <1>3, ReadAppended
<1> HIDE DEF c, none, f, s, t, e, y, N
<1>5. /\ IsEvent(e) /\ e.kind = "complete_reads" /\ e.reads[n] = t /\ phase = "trace"
      /\ faulty' = f
  BY <1>1, <1>2, StepEvent
<1>6. x.ok = TRUE /\ Consistent(shown, x) BY <1>5 DEF TraceInv
<1>7. y = x BY <1>2, <1>5 DEF ExtractInvocation
<1>8. Agrees(s, x, n) /\ Tracked(s, x) /\ Distinct(x) BY <1>6 DEF Consistent, s
<1>9. /\ \A w \in ToSet(s.writes) : w.completed \in {0, 1}
      /\ ReturnsOnce(s)
  BY <1>8 DEF Agrees
<1>10. \A k \in DOMAIN s.completed : s.completed[k].context # c
  <2> SUFFICES ASSUME NEW k \in DOMAIN s.completed, s.completed[k].context = c PROVE FALSE OBVIOUS
  <2>1. IsReturned(x, n, <<"read", c>>, s.completed[k].value) BY <1>8, AgreedRead
  <2>2. PICK j \in DOMAIN x.operations :
          x.operations[j].id = <<"read", c>> /\ Done(x.operations[j])
    BY <2>1 DEF IsReturned
  <2> QED BY <1>3, <1>8, <2>2 DEF Distinct
<1>11. CompletedWrites(t) = CompletedWrites(s) BY <1>4 DEF CompletedWrites
<1>12. ReturnsOnce(t)
  <2>1. \A j, k \in DOMAIN s.completed :
          s.completed[j].context = s.completed[k].context => j = k
    BY <1>9 DEF ReturnsOnce
  <2>2. \A j, k \in DOMAIN t.completed :
          t.completed[j].context = t.completed[k].context => j = k
    BY <1>4, <1>10, <2>1
  <2>3. \A j, k \in CompletedWrites(t) : t.writes[j].context = t.writes[k].context => j = k
    BY <1>4, <1>9, <1>11 DEF ReturnsOnce
  <2> QED BY <2>2, <2>3 DEF ReturnsOnce
<1>13. /\ \A k \in DOMAIN s.completed : ReadReturn(t, k) = ReadReturn(s, k)
       /\ \A k \in CompletedWrites(s) : WriteReturn(t, k) = WriteReturn(s, k)
  BY <1>4 DEF ReadReturn, WriteReturn
<1>14. Returns(s) \subseteq Returns(t)
  <2>1. DOMAIN s.completed \subseteq DOMAIN t.completed BY <1>4
  <2> QED BY ONLY <1>11, <1>13, <2>1, ReturnMembers
<1>15. ReadReturn(t, N + 1).id = <<"read", c>> BY <1>4 DEF ReadReturn
<1>16. \A r \in Returns(t) : r \in Returns(s) \/ r = ReadReturn(t, N + 1)
  <2>1. \A k \in DOMAIN t.completed : k \in DOMAIN s.completed \/ k = N + 1 BY <1>4
  <2> QED BY ONLY <1>11, <1>13, <2>1, ReturnMembers
<1>17. e.kind = Callback(x.operations[i].kind) BY <1>3, <1>5 DEF Callback
<1>18. PlausibleReturns(x, e, n)
  <2>1. \A r \in Returns(t) : r \in Returns(s) \/
          \E j \in DOMAIN x.operations :
            /\ x.operations[j].id = r.id /\ x.owners[j] = n
            /\ ~Done(x.operations[j]) /\ e.kind = Callback(x.operations[j].kind)
    BY <1>3, <1>15, <1>16, <1>17
  <2>2. \A w \in ToSet(t.writes) : w.completed \in {0, 1} BY <1>4, <1>9
  <2> HIDE DEF x
  <2> QED BY ONLY <1>5, <1>8, <1>12, <1>14, <2>1, <2>2, GrownPlausible
<1>19. Tracked(t, x) BY <1>4, <1>8 DEF Tracked
<1>20. Extends(x, x) BY ExtendsItself
<1>21. extracted'.ok = TRUE /\ phase' = "trace" /\ Consistent(shown', extracted')
  BY <1>1, <1>2, <1>6, <1>7, <1>8, <1>18, <1>19, <1>20, StepAccepted
<1> QED BY <1>0, <1>5, <1>21 DEF TraceInv

\* The writes of a batch are marked, the others are left alone.
LEMMA AppliedEntries ==
  ASSUME HistoryTypeOK, NEW n \in Node, NEW is
  PROVE  /\ AppliedWrites(n, is).completed = shown[n].completed
         /\ DOMAIN AppliedWrites(n, is).writes = DOMAIN shown[n].writes
         /\ \A k \in DOMAIN shown[n].writes :
              /\ AppliedWrites(n, is).writes[k].context = shown[n].writes[k].context
              /\ \/ /\ \E i \in is : shown[n].writes[k].context = ContextOf(i)
                    /\ AppliedWrites(n, is).writes[k].completed = 1
                 \/ AppliedWrites(n, is).writes[k] = shown[n].writes[k]
<1> DEFINE w == shown[n].writes
           B == {ContextOf(i) : i \in is}
           a == [k \in DOMAIN w |-> IF w[k].context \in B THEN [w[k] EXCEPT !.completed = 1] ELSE w[k]]
<1>1. AppliedWrites(n, is) = [completed |-> shown[n].completed, writes |-> a] BY DEF AppliedWrites
<1>2. \A k \in DOMAIN w : w[k] \in [context : Context, completed : 0..2]
  <2>1. w \in Seq([context : Context, completed : 0..2]) BY ShownTypes
  <2> HIDE DEF w
  <2> QED BY <2>1, LenProperties, ElementOfSeq
<1>3. DOMAIN a = DOMAIN w
      /\ \A k \in DOMAIN w : a[k] = IF w[k].context \in B THEN [w[k] EXCEPT !.completed = 1] ELSE w[k]
  <2> HIDE DEF w, B
  <2> QED OBVIOUS
<1>4. \A k \in DOMAIN w : w[k].context \in B => \E i \in is : w[k].context = ContextOf(i)
  <2> HIDE DEF w
  <2> QED OBVIOUS
<1> HIDE DEF a, B
<1>5. ASSUME NEW k \in DOMAIN w
      PROVE  /\ a[k].context = w[k].context
             /\ \/ (\E i \in is : w[k].context = ContextOf(i)) /\ a[k].completed = 1
                \/ a[k] = w[k]
  <2> HIDE DEF w
  <2>1. CASE w[k].context \in B
    <3>1. a[k] = [w[k] EXCEPT !.completed = 1] BY <1>3, <2>1
    <3>2. a[k].context = w[k].context /\ a[k].completed = 1 BY <1>2, <3>1
    <3> QED BY <1>4, <2>1, <3>2
  <2>2. CASE w[k].context \notin B BY <1>3, <2>2
  <2> QED BY <2>1, <2>2
<1>6. AppliedWrites(n, is).completed = shown[n].completed /\ AppliedWrites(n, is).writes = a
  BY <1>1
<1> QED BY <1>3, <1>5, <1>6

\* The proposal callbacks fire.
LEMMA ApplyTrace ==
  ASSUME HistoryTypeOK, TraceInv, NEW n \in Node, NEW is, Apply(n, is)
  PROVE  TraceInv'
<1> DEFINE none == ""
           f == FALSE
           s == shown[n]
           t == AppliedWrites(n, is)
           e == EventOf("apply", n, none, none, t)
           y == ExtractInvocation(extracted, e)
           x == extracted
<1>0. ~f OBVIOUS
<1>1. Step("apply", n, none, none, t, f) BY TraceSteps
<1>2. e = EventOf("apply", n, none, none, t) /\ y = ExtractInvocation(extracted, e) OBVIOUS
<1>3. ASSUME NEW i \in is
      PROVE  /\ i \in DOMAIN x.operations /\ x.owners[i] = n
             /\ x.operations[i].id = <<"write", ContextOf(i)>> /\ x.operations[i].kind = "write"
             /\ ~Done(x.operations[i])
  <2>1. i \in Owed(n, "write") BY DEF Apply
  <2> QED BY <2>1, OwedOperation
<1>4. /\ t.completed = s.completed /\ DOMAIN t.writes = DOMAIN s.writes
      /\ \A k \in DOMAIN s.writes :
           /\ t.writes[k].context = s.writes[k].context
           /\ \/ (\E i \in is : s.writes[k].context = ContextOf(i)) /\ t.writes[k].completed = 1
              \/ t.writes[k] = s.writes[k]
  BY AppliedEntries
<1> HIDE DEF none, f, s, t, e, y
<1>5. /\ IsEvent(e) /\ e.kind = "apply" /\ e.reads[n] = t /\ phase = "trace"
      /\ faulty' = f
  BY <1>1, <1>2, StepEvent
<1>6. x.ok = TRUE /\ Consistent(shown, x) BY <1>5 DEF TraceInv
<1>7. y = x BY <1>2, <1>5 DEF ExtractInvocation
<1>8. Agrees(s, x, n) /\ Tracked(s, x) /\ Distinct(x) BY <1>6 DEF Consistent, s
<1>9. /\ \A k \in DOMAIN s.writes : s.writes[k].completed \in {0, 1}
      /\ ReturnsOnce(s)
  BY <1>8 DEF Agrees, ToSet
<1>10. \A k \in DOMAIN t.writes : t.writes[k].completed \in {0, 1} BY <1>4, <1>9
<1>11. \A j, k \in DOMAIN t.writes : t.writes[j].context = t.writes[k].context => j = k
  BY <1>4, <1>8 DEF Tracked
<1>12. CompletedWrites(s) \subseteq CompletedWrites(t)
       /\ CompletedWrites(t) \subseteq DOMAIN s.writes /\ CompletedWrites(s) \subseteq DOMAIN s.writes
  BY <1>4 DEF CompletedWrites
<1>13. ReturnsOnce(t)
  <2>1. \A j, k \in DOMAIN t.completed :
          t.completed[j].context = t.completed[k].context => j = k
    BY <1>4, <1>9 DEF ReturnsOnce
  <2> QED BY <1>4, <1>11, <1>12, <2>1 DEF ReturnsOnce
<1>14. /\ \A k : ReadReturn(t, k) = ReadReturn(s, k)
       /\ \A k \in DOMAIN s.writes : WriteReturn(t, k) = WriteReturn(s, k)
  BY <1>4 DEF ReadReturn, WriteReturn
<1>15. DOMAIN t.completed = DOMAIN s.completed BY <1>4
<1>16. Returns(s) \subseteq Returns(t)
  BY ONLY <1>12, <1>14, <1>15, ReturnMembers
<1>17. ASSUME NEW r \in Returns(t), r \notin Returns(s)
       PROVE  \E i \in DOMAIN x.operations :
                /\ x.operations[i].id = r.id /\ x.owners[i] = n
                /\ ~Done(x.operations[i]) /\ e.kind = Callback(x.operations[i].kind)
  <2>1. PICK k \in CompletedWrites(t) : r = WriteReturn(t, k) /\ k \notin CompletedWrites(s)
    BY ONLY <1>12, <1>14, <1>15, <1>17, ReturnMembers
  <2>2. k \in DOMAIN s.writes /\ t.writes[k] # s.writes[k]
    BY <1>12, <2>1 DEF CompletedWrites
  <2>3. PICK i \in is : s.writes[k].context = ContextOf(i) BY <1>4, <2>2
  <2>4. WriteReturn(t, k).id = <<"write", t.writes[k].context>> BY DEF WriteReturn
  <2>5. r.id = <<"write", ContextOf(i)>> BY <1>4, <2>1, <2>2, <2>3, <2>4
  <2>6. e.kind = Callback(x.operations[i].kind) BY <1>3, <1>5 DEF Callback
  <2> QED BY <1>3, <2>5, <2>6
<1>18. PlausibleReturns(x, e, n)
  <2>1. \A r \in Returns(t) : r \in Returns(s) \/
          \E j \in DOMAIN x.operations :
            /\ x.operations[j].id = r.id /\ x.owners[j] = n
            /\ ~Done(x.operations[j]) /\ e.kind = Callback(x.operations[j].kind)
    BY <1>17
  <2>2. \A w \in ToSet(t.writes) : w.completed \in {0, 1} BY <1>10 DEF ToSet
  <2> HIDE DEF x
  <2> QED BY ONLY <1>5, <1>8, <1>13, <1>16, <2>1, <2>2, GrownPlausible
<1>19. Tracked(t, x) BY <1>4, <1>8 DEF Tracked
<1>20. Extends(x, x) BY ExtendsItself
<1>21. extracted'.ok = TRUE /\ phase' = "trace" /\ Consistent(shown', extracted')
  BY <1>1, <1>2, <1>6, <1>7, <1>8, <1>18, <1>19, <1>20, StepAccepted
<1> QED BY <1>0, <1>5, <1>21 DEF TraceInv

\* An operation extract has under an identity: what the node owes, or done.
LEMMA KnownOperation ==
  ASSUME HistoryTypeOK, NEW n \in Node, NEW kind \in {"read", "write"}, NEW c,
         NEW i \in DOMAIN extracted.operations, extracted.operations[i].id = <<kind, c>>,
         extracted.owners[i] = n, ~Done(extracted.operations[i])
  PROVE  i \in Owed(n, kind) /\ ContextOf(i) = c /\ extracted.operations[i].kind = kind
<1>1. operations[i].id[1] = operations[i].kind BY OperationTypes DEF operations
<1>2. operations[i].id = <<kind, c>> BY DEF operations
<1> DEFINE d == operations[i].id
<1>3. d = <<kind, c>> BY <1>2
<1> HIDE DEF d
<1>4. d[1] = kind /\ d[2] = c BY <1>3
<1>5. operations[i].kind = kind /\ ContextOf(i) = c BY <1>1, <1>4 DEF d, ContextOf
<1> QED BY <1>5 DEF Owed, operations

ShowsWrite(state, c) == \E k \in CompletedWrites(state) : state.writes[k].context = c

LEMMA PlausibleDoneWrite ==
  ASSUME NEW x, NEW e, NEW m, PlausibleReturns(x, e, m), NEW state, e.reads[m] = state,
         NEW i \in DOMAIN x.operations, NEW c, x.owners[i] = m, Done(x.operations[i]),
         x.operations[i].id = <<"write", c>>
  PROVE  ShowsWrite(state, c)
BY PlausibleDone DEF ShowsWrite

ShowsRead(state, c) == \E k \in DOMAIN state.completed : state.completed[k].context = c

LEMMA PlausibleDoneRead ==
  ASSUME NEW x, NEW e, NEW m, PlausibleReturns(x, e, m), NEW state, e.reads[m] = state,
         NEW i \in DOMAIN x.operations, NEW c, x.owners[i] = m, Done(x.operations[i]),
         x.operations[i].id = <<"read", c>>
  PROVE  ShowsRead(state, c)
BY PlausibleDone DEF ShowsRead

\* A forged event that passes is one a correct program writes: a read added,
LEMMA AppendedLegal ==
  ASSUME HistoryTypeOK, Consistent(shown, extracted), NEW n \in Node, NEW c \in Context,
         NEW v \in Text, NEW e, e.reads[n] = ReadShown(n, c, v), PlausibleReturns(extracted, e, n)
  PROVE  Legal(e.kind, n, ReadShown(n, c, v))
<1> DEFINE s == shown[n]
           t == ReadShown(n, c, v)
           x == extracted
           N == Len(s.completed)
<1>1. /\ DOMAIN t.completed = DOMAIN s.completed \cup {N + 1}
      /\ \A k \in DOMAIN s.completed : t.completed[k] = s.completed[k]
      /\ t.completed[N + 1].context = c /\ t.completed[N + 1].value = v
      /\ N + 1 \notin DOMAIN s.completed
  BY ReadAppended
<1>2. t = [shown[n] EXCEPT !.completed = Append(@, [context |-> c, value |-> v])]
  BY ReadShownTypes
<1>3. Agrees(s, x, n) /\ Distinct(x) /\ e.reads[n] = t BY DEF Consistent
<1>4. ReturnsOnce(t) BY PlausibleParts
<1> HIDE DEF s, t, x, N
<1>5. MayReturn(x, e, n, <<"read", c>>, v)
  <2>1. N + 1 \in DOMAIN t.completed BY <1>1
  <2>2. PlausibleReturns(x, e, n) BY DEF x
  <2>3. MayReturn(x, e, n, <<"read", t.completed[N + 1].context>>, t.completed[N + 1].value)
    BY ONLY <1>3, <2>1, <2>2, PlausibleRead
  <2> QED BY <1>1, <2>3
<1>6. PICK i \in DOMAIN x.operations :
        /\ x.operations[i].id = <<"read", c>> /\ x.owners[i] = n
        /\ ~Done(x.operations[i]) => e.kind = Callback(x.operations[i].kind)
  BY <1>5 DEF MayReturn
<1>7. ~Done(x.operations[i])
  <2> SUFFICES ASSUME Done(x.operations[i]) PROVE FALSE OBVIOUS
  <2>1. PICK k \in DOMAIN s.completed : s.completed[k].context = c BY <1>3, <1>6, AgreedDone
  <2>2. k \in DOMAIN t.completed /\ N + 1 \in DOMAIN t.completed
        /\ t.completed[k].context = t.completed[N + 1].context
    BY <1>1, <2>1
  <2>3. k = N + 1 BY <1>4, <2>2 DEF ReturnsOnce
  <2> QED BY <1>1, <2>3
<1>8. i \in Owed(n, "read") /\ ContextOf(i) = c /\ x.operations[i].kind = "read"
  BY <1>6, <1>7, KnownOperation DEF x
<1>9. e.kind = "complete_reads" BY <1>6, <1>7, <1>8 DEF Callback
<1>10. t = [shown[n] EXCEPT !.completed = Append(@, [context |-> ContextOf(i), value |-> v])]
  BY <1>2, <1>8
<1>11. Legal(e.kind, n, t) BY <1>8, <1>9, <1>10 DEF Legal
<1> QED BY <1>11 DEF t

\* a read withdrawn,
LEMMA WithdrawnLegal ==
  ASSUME HistoryTypeOK, Consistent(shown, extracted), NEW n \in Node,
         NEW k \in 1..Len(shown[n].completed), NEW e, e.reads[n] = Withdrawn(n, k),
         PlausibleReturns(extracted, e, n)
  PROVE  FALSE
<1> DEFINE s == shown[n]
           t == Withdrawn(n, k)
           x == extracted
           C == s.completed
           N == Len(C)
           R == [context : Context, value : Text]
           c == C[k].context
<1>1. C \in Seq(R) BY ShownTypes
<1>2. t.completed = RemoveAt(C, k) BY DEF Withdrawn
<1>3. Agrees(s, x, n) /\ Distinct(x) /\ e.reads[n] = t BY DEF Consistent
<1>4. \A j, l \in DOMAIN C : C[j].context = C[l].context => j = l
  BY <1>3 DEF Agrees, ReturnsOnce
<1>5. k \in 1..N /\ c = C[k].context /\ C = s.completed OBVIOUS
<1> HIDE DEF C, R, s, t, x, c
<1>6. N \in Nat /\ DOMAIN C = 1..N BY <1>1, LenProperties
<1>7. /\ RemoveAt(C, k) \in Seq(R) /\ Len(RemoveAt(C, k)) = N - 1
      /\ \A j \in 1..(N - 1) : RemoveAt(C, k)[j] = IF j < k THEN C[j] ELSE C[j + 1]
  BY ONLY <1>1, <1>5, RemoveAtProperties
<1>8. DOMAIN RemoveAt(C, k) = 1..(N - 1) BY <1>7, LenProperties
<1>9. IsReturned(x, n, <<"read", c>>, C[k].value)
  <2>1. k \in DOMAIN s.completed BY <1>5, <1>6
  <2>2. IsReturned(x, n, <<"read", s.completed[k].context>>, s.completed[k].value)
    BY ONLY <1>3, <2>1, AgreedRead
  <2> QED BY <1>5, <2>2
<1>10. PICK i \in DOMAIN x.operations :
         x.operations[i].id = <<"read", c>> /\ x.owners[i] = n /\ Done(x.operations[i])
  BY <1>9 DEF IsReturned
<1>11. PICK j \in DOMAIN t.completed : t.completed[j].context = c
  <2>1. PlausibleReturns(x, e, n) BY DEF x
  <2>2. ShowsRead(t, c) BY <1>3, <1>10, <2>1, PlausibleDoneRead
  <2> QED BY <2>2 DEF ShowsRead
<1>12. j \in 1..(N - 1) /\ RemoveAt(C, k)[j].context = c BY <1>2, <1>8, <1>11
<1>13. \E l \in 1..N : l # k /\ RemoveAt(C, k)[j] = C[l]
  <2>1. N \in Nat /\ k \in 1..N /\ j \in 1..(N - 1) BY <1>5, <1>6, <1>12
  <2> HIDE DEF N
  <2>2. CASE j < k
    <3>1. j \in 1..N /\ j # k BY ONLY <2>1, <2>2
    <3> QED BY <1>7, <1>12, <2>2, <3>1
  <2>3. CASE ~ (j < k)
    <3>1. j + 1 \in 1..N /\ j + 1 # k BY ONLY <2>1, <2>3
    <3> QED BY <1>7, <1>12, <2>3, <3>1
  <2> QED BY <2>2, <2>3
<1> QED BY <1>4, <1>5, <1>6, <1>12, <1>13

\* a read with another value,
LEMMA RevaluedLegal ==
  ASSUME HistoryTypeOK, Consistent(shown, extracted), NEW n \in Node,
         NEW k \in 1..Len(shown[n].completed), NEW v \in Text, NEW e,
         e.reads[n] = Revalued(n, k, v), PlausibleReturns(extracted, e, n)
  PROVE  Legal(e.kind, n, Revalued(n, k, v))
<1> DEFINE s == shown[n]
           t == Revalued(n, k, v)
           x == extracted
           C == s.completed
           R == [context : Context, value : Text]
           c == C[k].context
           u == C[k].value
           r == [context |-> c, value |-> v]
<1>1. C \in Seq(R) /\ s = [completed |-> C, writes |-> s.writes] BY ShownTypes
<1>2. t = [completed |-> [C EXCEPT ![k] = r], writes |-> s.writes] BY DEF Revalued
<1>3. Agrees(s, x, n) /\ Distinct(x) /\ e.reads[n] = t BY DEF Consistent
<1>4. k \in 1..Len(C) /\ C = s.completed /\ c = C[k].context /\ u = C[k].value
      /\ r.context = c /\ r.value = v
  OBVIOUS
<1>5. PlausibleReturns(x, e, n) OBVIOUS
<1> HIDE DEF C, s, t, x
<1>6. k \in DOMAIN C /\ C[k] \in R
  <2> HIDE DEF R
  <2> QED BY <1>1, <1>4, LenProperties, ElementOfSeq
<1>7. u \in Text /\ C[k] = [context |-> c, value |-> u] BY <1>6
<1> HIDE DEF c, u, R, r
<1>8. k \in DOMAIN t.completed /\ t.completed[k] = r
  <2>1. t.completed = [C EXCEPT ![k] = r] BY <1>2
  <2> QED BY <1>6, <2>1
<1>9. IsReturned(x, n, <<"read", c>>, u)
  <2>1. k \in DOMAIN s.completed BY <1>4, <1>6
  <2>2. IsReturned(x, n, <<"read", s.completed[k].context>>, s.completed[k].value)
    BY ONLY <1>3, <2>1, AgreedRead
  <2> QED BY <1>4, <2>2
<1>10. MayReturn(x, e, n, <<"read", c>>, v)
  <2>1. MayReturn(x, e, n, <<"read", t.completed[k].context>>, t.completed[k].value)
    BY ONLY <1>3, <1>5, <1>8, PlausibleRead
  <2> QED BY <1>4, <1>8, <2>1
<1>11. Hex[u] = Hex[v]
  <2>1. PICK i \in DOMAIN x.operations :
          /\ x.operations[i].id = <<"read", c>>
          /\ Done(x.operations[i]) /\ x.operations[i].result = Hex[u]
    BY <1>9 DEF IsReturned
  <2>2. PICK j \in DOMAIN x.operations :
          /\ x.operations[j].id = <<"read", c>>
          /\ Done(x.operations[j]) => x.operations[j].result = Hex[v]
    BY <1>10 DEF MayReturn
  <2>3. i = j BY <1>3, <2>1, <2>2 DEF Distinct
  <2> QED BY <2>1, <2>2, <2>3
<1>12. u = v BY <1>7, <1>11, EncodedValue
<1>13. r = C[k] BY <1>7, <1>12 DEF r
<1>14. [C EXCEPT ![k] = r] = C
  <2>1. C = [j \in DOMAIN C |-> C[j]]
    <3>1. Len(C) \in Nat /\ DOMAIN C = 1..Len(C) BY <1>1, LenProperties
    <3> QED BY <1>1
  <2> QED BY <1>13, <2>1
<1>15. t = s BY <1>1, <1>2, <1>14
<1> QED BY <1>15 DEF Legal, s, t

\* a write with another mark.
LEMMA RemarkedLegal ==
  ASSUME HistoryTypeOK, Consistent(shown, extracted), NEW n \in Node,
         NEW k \in 1..Len(shown[n].writes), NEW d \in 0..2, NEW e,
         e.reads[n] = Remarked(n, k, d), PlausibleReturns(extracted, e, n)
  PROVE  Legal(e.kind, n, Remarked(n, k, d))
<1> DEFINE s == shown[n]
           t == Remarked(n, k, d)
           x == extracted
           w == s.writes
           W == [context : Context, completed : 0..2]
           c == w[k].context
           u == w[k].completed
           r == [context |-> c, completed |-> d]
<1>1. w \in Seq(W) /\ s = [completed |-> s.completed, writes |-> w] BY ShownTypes
<1>2. t = [completed |-> s.completed, writes |-> [w EXCEPT ![k] = r]] BY DEF Remarked
<1>3. Agrees(s, x, n) /\ Tracked(s, x) /\ Distinct(x) /\ e.reads[n] = t BY DEF Consistent
<1>4. k \in 1..Len(w) /\ w = s.writes /\ c = w[k].context /\ u = w[k].completed
      /\ r.context = c /\ r.completed = d
  OBVIOUS
<1>5. PlausibleReturns(x, e, n) OBVIOUS
<1>s. s = shown[n] OBVIOUS
<1> HIDE DEF w, s, t, x
<1>6. k \in DOMAIN w /\ w[k] \in W
  <2> HIDE DEF W
  <2> QED BY <1>1, <1>4, LenProperties, ElementOfSeq
<1>7. w[k] = [context |-> c, completed |-> u] BY <1>6
<1>8. [w[k] EXCEPT !.completed = d] = r BY <1>7
<1> HIDE DEF c, u, W, r
<1>9. /\ DOMAIN t.writes = DOMAIN w /\ t.writes[k] = r
      /\ \A j \in DOMAIN w : j # k => t.writes[j] = w[j]
  <2>1. t.writes = [w EXCEPT ![k] = r] BY <1>2
  <2> QED BY <1>6, <2>1
<1>10. u \in {0, 1} /\ d \in {0, 1}
  <2>1. w[k].completed \in {0, 1} BY <1>3, <1>4, <1>6 DEF Agrees, ToSet
  <2>2. \A j \in ToSet(t.writes) : j.completed \in {0, 1} BY <1>3, <1>5, PlausibleParts
  <2>3. t.writes[k] \in ToSet(t.writes) BY <1>6, <1>9 DEF ToSet
  <2> QED BY <1>4, <1>9, <2>1, <2>2, <2>3
<1>11. \A j, l \in DOMAIN w : w[j].context = w[l].context => j = l BY <1>3, <1>4 DEF Tracked
<1>12. CASE d = u
  <2>1. r = w[k] BY <1>7, <1>12 DEF r
  <2>2. [w EXCEPT ![k] = r] = w
    <3>1. w = [j \in DOMAIN w |-> w[j]]
      <4>1. Len(w) \in Nat /\ DOMAIN w = 1..Len(w) BY <1>1, LenProperties
      <4> QED BY <1>1
    <3> QED BY <2>1, <3>1
  <2>3. t = s BY <1>1, <1>2, <2>2
  <2> QED BY <2>3 DEF Legal, s, t
<1>13. CASE u = 1 /\ d = 0
  <2>1. k \in CompletedWrites(s) BY <1>4, <1>6, <1>13 DEF CompletedWrites
  <2>2. IsReturned(x, n, <<"write", s.writes[k].context>>, "") BY ONLY <1>3, <2>1, AgreedWrite
  <2>3. PICK i \in DOMAIN x.operations :
          x.operations[i].id = <<"write", c>> /\ x.owners[i] = n /\ Done(x.operations[i])
    BY <1>4, <2>2 DEF IsReturned
  <2>4. PICK j \in CompletedWrites(t) : t.writes[j].context = c
    <3>1. ShowsWrite(t, c) BY <1>3, <1>5, <2>3, PlausibleDoneWrite
    <3> QED BY <3>1 DEF ShowsWrite
  <2>5. j \in DOMAIN w /\ t.writes[j].completed = 1 BY <1>9 DEF CompletedWrites
  <2>6. j # k BY <1>4, <1>9, <1>13, <2>5
  <2>7. w[j].context = c BY <1>9, <2>4, <2>5, <2>6
  <2> QED BY <1>4, <1>6, <1>11, <2>5, <2>6, <2>7
<1>14. CASE u = 0 /\ d = 1
  <2>1. k \in CompletedWrites(t) BY <1>4, <1>6, <1>9, <1>14 DEF CompletedWrites
  <2>2. MayReturn(x, e, n, <<"write", t.writes[k].context>>, "")
    BY ONLY <1>3, <1>5, <2>1, PlausibleWrite
  <2>3. PICK i \in DOMAIN x.operations :
          /\ x.operations[i].id = <<"write", c>> /\ x.owners[i] = n
          /\ ~Done(x.operations[i]) => e.kind = Callback(x.operations[i].kind)
    BY <1>4, <1>9, <2>2 DEF MayReturn
  <2>4. ~Done(x.operations[i])
    <3> SUFFICES ASSUME Done(x.operations[i]) PROVE FALSE OBVIOUS
    <3>1. PICK j \in CompletedWrites(s) : s.writes[j].context = c BY <1>3, <2>3, AgreedDone
    <3>2. j \in DOMAIN w /\ w[j].completed = 1 /\ w[j].context = c
      BY <1>4, <3>1 DEF CompletedWrites
    <3>3. j = k
      <4>1. k \in DOMAIN w /\ w[k].context = c BY <1>4, <1>6
      <4> QED BY ONLY <1>11, <3>2, <4>1
    <3>4. w[k].completed = 0 BY <1>4, <1>14
    <3> QED BY ONLY <3>2, <3>3, <3>4
  <2>5. i \in Owed(n, "write") /\ ContextOf(i) = c /\ x.operations[i].kind = "write"
    BY <2>3, <2>4, KnownOperation DEF x
  <2>6. e.kind = "apply" BY <2>3, <2>4, <2>5 DEF Callback
  <2>7. t = [s EXCEPT !.writes[k].completed = 1]
    <3>1. [w EXCEPT ![k].completed = 1] = [w EXCEPT ![k] = r] BY <1>8, <1>14
    <3>2. [s EXCEPT !.writes[k].completed = 1] = [s EXCEPT !.writes = [w EXCEPT ![k].completed = 1]]
      BY <1>4
    <3> DEFINE a == [w EXCEPT ![k] = r]
    <3>3. [s EXCEPT !.writes[k].completed = 1] = [s EXCEPT !.writes = a] BY <3>1, <3>2
    <3>4. t = [completed |-> s.completed, writes |-> a] BY <1>2
    <3> HIDE DEF a
    <3>5. [s EXCEPT !.writes = a] = [completed |-> s.completed, writes |-> a] BY <1>1
    <3> QED BY <3>3, <3>4, <3>5
  <2>8. k \in DOMAIN s.writes /\ s.writes[k].context = ContextOf(i) BY <1>4, <1>6, <2>5
  <2>9. Legal(e.kind, n, t) BY <1>s, <2>5, <2>6, <2>7, <2>8 DEF Legal
  <2> QED BY <2>9 DEF t
<1> QED BY <1>10, <1>12, <1>13, <1>14

\* The traced program shows what a correct one never does: extract notices.
LEMMA ForgeTrace ==
  ASSUME HistoryTypeOK, TraceInv, NEW kind \in {"ready", "apply", "complete_reads"},
         NEW n \in Node, NEW state \in Forged(n), Forge(kind, n, state)
  PROVE  TraceInv'
<1> DEFINE none == ""
           f == TRUE
           e == EventOf(kind, n, none, none, state)
<1>0. f OBVIOUS
<1>1. Step(kind, n, none, none, state, f) BY TraceSteps
<1>2. e = EventOf(kind, n, none, none, state) OBVIOUS
<1>3. ~Legal(kind, n, state) BY DEF Forge
<1> HIDE DEF none, f, e
<1>4. IsEvent(e) /\ e.kind = kind /\ e.reads[n] = state /\ phase = "trace" BY <1>1, <1>2, StepEvent
<1>5. Consistent(shown, extracted) BY <1>4 DEF TraceInv
<1>6. ExtractInvocation(extracted, e) = extracted BY <1>4 DEF ExtractInvocation
<1>7. ~PlausibleReturns(extracted, e, n)
  <2> SUFFICES ASSUME PlausibleReturns(extracted, e, n) PROVE Legal(kind, n, state) BY <1>3
  <2>1. CASE \E c \in Context, v \in Text : state = ReadShown(n, c, v)
    BY <1>4, <1>5, <2>1, AppendedLegal
  <2>2. CASE \E k \in 1..Len(shown[n].completed) : state = Withdrawn(n, k)
    BY <1>4, <1>5, <2>2, WithdrawnLegal
  <2>3. CASE \E k \in 1..Len(shown[n].completed), v \in Text : state = Revalued(n, k, v)
    BY <1>4, <1>5, <2>3, RevaluedLegal
  <2>4. CASE \E k \in 1..Len(shown[n].writes), d \in 0..2 : state = Remarked(n, k, d)
    BY <1>4, <1>5, <2>4, RemarkedLegal
  <2> QED BY <2>1, <2>2, <2>3, <2>4, ForgedStates
<1>8. extracted'.ok = FALSE /\ phase' = "refused" /\ faulty' = f
  BY <1>1, <1>2, <1>6, <1>7, StepRefused
<1> QED BY <1>0, <1>8 DEF TraceInv

\* extract refuses exactly the traces that repeat an identity or show a
\* completion outside its callback, by another node, twice, with a second
\* result, of an operation never invoked, or take one back.
THEOREM ForgedRefused == Spec => []ForgedTracesAreRefused
<1>1. Init => TraceInv
  <2> SUFFICES ASSUME Init PROVE TraceInv OBVIOUS
  <2>1. extracted = [operations |-> <<>>, owners |-> <<>>, ok |-> TRUE]
    BY DEF Init, NothingExtracted
  <2>2. extracted.operations = <<>> /\ extracted.ok = TRUE BY <2>1
  <2>3. DOMAIN extracted.operations = {} BY <2>2
  <2>4. ASSUME NEW m \in Node PROVE Agrees(shown[m], extracted, m) /\ Tracked(shown[m], extracted)
    <3>1. shown[m] = [completed |-> <<>>, writes |-> <<>>] BY DEF Init, NothingShown
    <3> DEFINE s == shown[m]
    <3>2. s.completed = <<>> /\ s.writes = <<>> BY <3>1
    <3> HIDE DEF s
    <3>3. DOMAIN s.completed = {} /\ DOMAIN s.writes = {} BY <3>2
    <3>4. CompletedWrites(s) = {} BY <3>3 DEF CompletedWrites
    <3>5. Returns(s) = {} BY ONLY <3>3, <3>4, ReturnMembers
    <3>6. ReturnsOnce(s) BY <3>3, <3>4 DEF ReturnsOnce
    <3>7. ToSet(s.writes) = {} BY <3>3 DEF ToSet
    <3>8. Agrees(s, extracted, m) /\ Tracked(s, extracted)
      BY <2>3, <3>3, <3>5, <3>6, <3>7 DEF Agrees, Tracked
    <3> QED BY <3>8 DEF s
  <2>5. Consistent(shown, extracted) BY <2>3, <2>4 DEF Consistent, Distinct
  <2> QED BY <2>2, <2>5 DEF TraceInv, Init
<1>2. HistoryTypeOK /\ TraceInv /\ [Next]_vars => TraceInv'
  <2> SUFFICES ASSUME HistoryTypeOK, TraceInv, [Next]_vars PROVE TraceInv' OBVIOUS
  <2>1. ASSUME NEW n \in Node, NEW c \in Context, InvokeRead(n, c) PROVE TraceInv'
    BY <2>1, InvokeReadTrace
  <2>2. ASSUME NEW n \in Node, NEW c \in Context, NEW v \in Text, Propose(n, c, v) PROVE TraceInv'
    BY <2>2, ProposeTrace
  <2>3. ASSUME NEW n \in Node, NEW is, Apply(n, is) PROVE TraceInv' BY <2>3, ApplyTrace
  <2>4. ASSUME NEW n \in Node, NEW v \in Text, NEW i \in Owed(n, "read"), CompleteRead(n, i, v)
        PROVE  TraceInv'
    BY <2>4, CompleteReadTrace
  <2>5. ASSUME NEW kind \in {"ready", "apply", "complete_reads"}, NEW n \in Node,
               NEW state \in Forged(n), Forge(kind, n, state)
        PROVE  TraceInv'
    BY <2>5, ForgeTrace
  <2>6. CASE End BY <2>6 DEF TraceInv, End
  <2>7. CASE Explore BY <2>7 DEF TraceInv, Explore
  <2>8. CASE \E o \in frontier : Report(o) BY <2>8 DEF TraceInv, Report
  <2>9. ASSUME NEW name \in {"future-value", "stale-value"}, Negate(name) PROVE TraceInv'
    <3>1. extracted \in Extraction BY DEF HistoryTypeOK, WellFormed
    <3>2. extracted' = [extracted EXCEPT !.operations = Mutation(name)] BY <2>9 DEF Negate
    <3>3. extracted'.ok = extracted.ok BY <3>1, <3>2 DEF Extraction
    <3>4. phase' # "trace" /\ faulty' = faulty BY <2>9 DEF Negate
    <3> QED BY <3>3, <3>4 DEF TraceInv
  <2>10. CASE UNCHANGED vars BY <2>10 DEF TraceInv, vars
  <2> QED BY <2>1, <2>2, <2>3, <2>4, <2>5, <2>6, <2>7, <2>8, <2>9, <2>10 DEF Next
<1>3. TraceInv => ForgedTracesAreRefused BY DEF TraceInv, ForgedTracesAreRefused
<1> QED BY <1>1, <1>2, <1>3, HistoryTypesHold, PTL DEF Spec
=============================================================================
