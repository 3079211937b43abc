----------------------------- MODULE WalProofs -----------------------------
(***************************************************************************)
(* What the write-ahead log guarantees for any sizes of segments, batches  *)
(* and logs, any number of operations and any crashes.                     *)
(***************************************************************************)
EXTENDS Wal, FiniteSetTheorems, SequenceTheorems, WellFoundedInduction, TLAPS

-----------------------------------------------------------------------------
(***************************************************************************)
(* Sequences of calls.                                                     *)
(***************************************************************************)
IsSeq(s) == \E S : s \in Seq(S)

\* Joining two sequences gives a sequence of their elements.
LEMMA Joined ==
  ASSUME NEW s, NEW t, IsSeq(s), IsSeq(t)
  PROVE  /\ IsSeq(s \o t) /\ Len(s) \in Nat /\ Len(t) \in Nat /\ Len(s \o t) = Len(s) + Len(t)
         /\ \A i \in 1 .. Len(s) : (s \o t)[i] = s[i]
         /\ \A i \in (Len(s) + 1) .. (Len(s) + Len(t)) : (s \o t)[i] = t[i - Len(s)]
<1>1. PICK S : s \in Seq(S) BY DEF IsSeq
<1>2. PICK T : t \in Seq(T) BY DEF IsSeq
<1> DEFINE U == S \cup T
<1>3. s \in Seq(U) /\ t \in Seq(U) BY <1>1, <1>2
<1> HIDE DEF U
<1>4. s \o t \in Seq(U) BY <1>3
<1> QED BY <1>3, <1>4 DEF IsSeq

\* A function on an initial segment of the numbers is a sequence.
LEMMA ListIsSeq ==
  ASSUME NEW n \in Nat, NEW f, DOMAIN f = 1 .. n, f = [i \in 1 .. n |-> f[i]]
  PROVE  IsSeq(f) /\ Len(f) = n
<1> DEFINE S == {f[i] : i \in 1 .. n}
<1>1. f \in [1 .. n -> S] OBVIOUS
<1> HIDE DEF S
<1>2. f \in Seq(S) BY <1>1
<1>3. Len(f) = n BY <1>1, <1>2
<1> QED BY <1>2, <1>3 DEF IsSeq

\* No call of s saves metadata or returns to the caller.
Plain(s) ==
  /\ IsSeq(s)
  /\ \A i \in 1 .. Len(s) : s[i].do # "metadata" /\ s[i].do # "return"

LEMMA PlainNone == Plain(<<>>)
<1>1. <<>> \in Seq({}) /\ Len(<<>>) = 0 OBVIOUS
<1> QED BY <1>1 DEF Plain, IsSeq

LEMMA PlainOne ==
  ASSUME NEW c, c.do # "metadata", c.do # "return" PROVE Plain(<<c>>)
<1> DEFINE s == <<c>>
<1>1. s \in Seq({c}) /\ Len(s) = 1 /\ s[1] = c OBVIOUS
<1> HIDE DEF s
<1>2. IsSeq(s) BY <1>1 DEF IsSeq
<1>3. \A i \in 1 .. Len(s) : s[i] = c BY <1>1
<1>4. Plain(s) BY <1>2, <1>3 DEF Plain
<1> QED BY <1>4 DEF s

LEMMA PlainTwo ==
  ASSUME NEW c, c.do # "metadata", c.do # "return", NEW d, d.do # "metadata", d.do # "return"
  PROVE  Plain(<<c, d>>)
<1> DEFINE s == <<c, d>>
<1>1. s \in Seq({c, d}) /\ Len(s) = 2 /\ s[1] = c /\ s[2] = d OBVIOUS
<1> HIDE DEF s
<1>2. IsSeq(s) BY <1>1 DEF IsSeq
<1>3. \A i \in 1 .. Len(s) : s[i] = c \/ s[i] = d BY <1>1
<1>4. Plain(s) BY <1>2, <1>3 DEF Plain
<1> QED BY <1>4 DEF s

LEMMA PlainJoined ==
  ASSUME NEW s, NEW t, Plain(s), Plain(t) PROVE Plain(s \o t)
<1>1. IsSeq(s) /\ IsSeq(t) BY DEF Plain
<1> DEFINE u == s \o t
<1>2. /\ IsSeq(u) /\ Len(s) \in Nat /\ Len(t) \in Nat /\ Len(u) = Len(s) + Len(t)
      /\ \A i \in 1 .. Len(s) : u[i] = s[i]
      /\ \A i \in (Len(s) + 1) .. (Len(s) + Len(t)) : u[i] = t[i - Len(s)]
  BY <1>1, Joined
<1> HIDE DEF u
<1>3. ASSUME NEW i \in 1 .. Len(u) PROVE u[i].do # "metadata" /\ u[i].do # "return"
  <2>1. CASE i <= Len(s)
    <3>1. i \in 1 .. Len(s) BY <1>2, <2>1
    <3> QED BY <1>2, <3>1 DEF Plain
  <2>2. CASE i > Len(s)
    <3>1. i \in (Len(s) + 1) .. (Len(s) + Len(t)) /\ i - Len(s) \in 1 .. Len(t) BY <1>2, <2>2
    <3> QED BY <1>2, <3>1 DEF Plain
  <2> QED BY <1>2, <2>1, <2>2
<1>4. Plain(u) BY <1>2, <1>3 DEF Plain
<1> QED BY <1>4 DEF u

\* The calls a call makes are told apart by what they do.
LEMMA PlainCalls ==
  ASSUME NEW id, NEW arg
  PROVE  /\ SyncFile(id).do # "metadata" /\ SyncFile(id).do # "return"
         /\ Unlink(id).do # "metadata" /\ Unlink(id).do # "return"
         /\ Create(id).do # "metadata" /\ Create(id).do # "return"
         /\ Write(id, arg).do # "metadata" /\ Write(id, arg).do # "return"
         /\ Truncate(id, arg).do # "metadata" /\ Truncate(id, arg).do # "return"
         /\ SyncDir.do # "metadata" /\ SyncDir.do # "return"
         /\ SaveSnapshot(arg).do # "metadata" /\ SaveSnapshot(arg).do # "return"
         /\ RemoveSnapshot(arg).do # "metadata" /\ RemoveSnapshot(arg).do # "return"
BY DEF SyncFile, Unlink, Create, Write, Truncate, SyncDir, SaveSnapshot, RemoveSnapshot, Call

\* The ids of finitely many segments are a sequence.
LEMMA AscendingIsSeq ==
  ASSUME NEW ids, IsFiniteSet(ids)
  PROVE  Cardinality(ids) \in Nat /\ DOMAIN Ascending(ids) = 1 .. Cardinality(ids)
         /\ IsSeq(Ascending(ids)) /\ Len(Ascending(ids)) = Cardinality(ids)
<1>1. Cardinality(ids) \in Nat BY FS_CardinalityType
<1> DEFINE a == Ascending(ids)
           n == Cardinality(ids)
           R == {p \in ids \X ids : p[1] < p[2]}
           e(i) == CHOOSE x \in ids : Cardinality({y \in ids : <<y, x>> \in R}) = i - 1
<1>a. a = [i \in 1 .. n |-> e(i)] BY DEF Ascending, InOrder
<1> HIDE DEF a, e, R, n
<1>2. DOMAIN a = 1 .. n /\ a = [i \in 1 .. n |-> a[i]] BY <1>a
<1>b. n \in Nat BY <1>1 DEF n
<1>3. IsSeq(a) /\ Len(a) = n BY <1>b, <1>2, ListIsSeq
<1> QED BY <1>1, <1>2, <1>3 DEF a, n

\* syncAll neither saves metadata nor returns.
LEMMA SyncAllPlain ==
  ASSUME NEW w, IsFiniteSet(w.segs) PROVE Plain(SyncAll(w))
<1> DEFINE ids == Ascending(w.segs)
           n == Cardinality(w.segs)
           files == [i \in DOMAIN ids |-> SyncFile(ids[i])]
           dir == IF w.dirDirty THEN <<SyncDir>> ELSE <<>>
<1>1. n \in Nat /\ DOMAIN ids = 1 .. n BY AscendingIsSeq
<1>2. DOMAIN files = 1 .. n /\ files = [i \in 1 .. n |-> files[i]] BY <1>1
<1>3. \A i \in 1 .. n : files[i] = SyncFile(ids[i]) BY <1>1
<1> HIDE DEF files, ids, n
<1>4. IsSeq(files) /\ Len(files) = n BY <1>1, <1>2, ListIsSeq
<1>5. Plain(files) BY <1>3, <1>4, PlainCalls DEF Plain
<1>6. Plain(dir) BY PlainNone, PlainOne, PlainCalls
<1> HIDE DEF dir
<1>7. Plain(files \o dir) BY <1>5, <1>6, PlainJoined
<1>8. SyncAll(w) = files \o dir BY DEF SyncAll, files, dir, ids
<1> QED BY <1>7, <1>8

\* Nor does a removal of segments.
LEMMA UnlinkBeforePlain ==
  ASSUME NEW ids, IsFiniteSet(ids), NEW seg PROVE Plain(UnlinkBefore(ids, seg))
<1> DEFINE gone == {id \in ids : id < seg}
           old == Ascending(gone)
           n == Cardinality(gone)
           u == [i \in DOMAIN old |-> Unlink(old[i])]
<1>1. IsFiniteSet(gone) BY FS_Subset, gone \subseteq ids
<1> HIDE DEF gone
<1>2. n \in Nat /\ DOMAIN old = 1 .. n BY <1>1, AscendingIsSeq
<1>3. DOMAIN u = 1 .. n /\ u = [i \in 1 .. n |-> u[i]] BY <1>2
<1>4. \A i \in 1 .. n : u[i] = Unlink(old[i]) BY <1>2
<1> HIDE DEF u, old, n
<1>5. IsSeq(u) /\ Len(u) = n BY <1>2, <1>3, ListIsSeq
<1>6. Plain(u) BY <1>4, <1>5, PlainCalls DEF Plain
<1> QED BY <1>6 DEF UnlinkBefore, u, old, gone

LEMMA UnlinkAfterPlain ==
  ASSUME NEW ids, IsFiniteSet(ids), NEW seg PROVE Plain(UnlinkAfter(ids, seg))
<1> DEFINE gone == {id \in ids : id > seg}
           a == Ascending(gone)
           later == Reverse(a)
           n == Cardinality(gone)
           u == [i \in DOMAIN later |-> Unlink(later[i])]
<1>1. IsFiniteSet(gone) BY FS_Subset, gone \subseteq ids
<1> HIDE DEF gone
<1>2. n \in Nat /\ Len(a) = n BY <1>1, AscendingIsSeq
<1> HIDE DEF a, n
<1>3. DOMAIN later = 1 .. n BY <1>2 DEF Reverse
<1> HIDE DEF later
<1>4. DOMAIN u = 1 .. n /\ u = [i \in 1 .. n |-> u[i]] BY <1>3
<1>5. \A i \in 1 .. n : u[i] = Unlink(later[i]) BY <1>3
<1> HIDE DEF u
<1>6. IsSeq(u) /\ Len(u) = n BY <1>2, <1>4, ListIsSeq
<1>7. Plain(u) BY <1>5, <1>6, PlainCalls DEF Plain
<1> QED BY <1>7 DEF UnlinkAfter, u, later, a, gone

-----------------------------------------------------------------------------
(***************************************************************************)
(* Operations keep the incarnation of the struct.                          *)
(***************************************************************************)
Fit(w) ==
  /\ "segs" \in DOMAIN w /\ "incarnation" \in DOMAIN w
  /\ IsFiniteSet(w.segs) /\ w.incarnation \in Nat

\* w2 is fit and of the incarnation of w.
Same(w, w2) == Fit(w2) /\ w2.incarnation = w.incarnation

\* An operation on w that keeps it and makes plain calls.
Harmless(w, result) == Same(w, result.wal) /\ Plain(result.calls)

LEMMA SyncedSame ==
  ASSUME NEW w, Fit(w) PROVE Same(w, Synced(w)) /\ Synced(w).segs = w.segs
BY DEF Synced, Same, Fit

LEMMA DirtySame ==
  ASSUME NEW w, Fit(w), NEW b
  PROVE  Same(w, [w EXCEPT !.dirty = b]) /\ [w EXCEPT !.dirty = b].segs = w.segs
BY DEF Same, Fit

LEMMA KeepingSame ==
  ASSUME NEW w, Fit(w), NEW ids, ids \subseteq w.segs
  PROVE  Same(w, Keeping(w, ids)) /\ Keeping(w, ids).segs = ids
<1>1. IsFiniteSet(ids) BY FS_Subset DEF Fit
<1> QED BY <1>1 DEF Keeping, Same, Fit

LEMMA SameTransitive ==
  ASSUME NEW u, NEW v, NEW w, Same(u, v), Same(v, w) PROVE Same(u, w)
BY DEF Same

\* writeRecord.
LEMMA WriteRecordHarmless ==
  ASSUME NEW w, NEW acc, Harmless(w, acc), NEW record
  PROVE  Harmless(w, WriteRecord(acc, record))
<1> DEFINE v == acc.wal
           current == Max(v.segs)
           rolls == v.used + 1 > SegmentRecords /\ v.used > 0
           target == IF rolls THEN current + 1 ELSE current
           placed == [v EXCEPT !.segs = @ \cup {target},
                               !.dirDirty = @ \/ rolls,
                               !.used = IF rolls THEN 1 ELSE @ + 1]
           place == [seg |-> target, pos |-> placed.used]
           written == IF record.kind = "entry"
                        THEN [placed EXCEPT !.log = Append(@, record.term), !.at = Append(@, place)]
                        ELSE placed
           roll == IF rolls THEN <<SyncFile(current), Create(target)>> ELSE <<>>
           calls == acc.calls \o roll \o <<Write(target, record)>>
<1>1. WriteRecord(acc, record) = [wal |-> written, calls |-> calls] BY DEF WriteRecord
<1>2. Fit(v) /\ v.incarnation = w.incarnation /\ Plain(acc.calls) BY DEF Harmless, Same
<1>3. IsFiniteSet(v.segs \cup {target}) BY <1>2, FS_AddElement DEF Fit
<1> HIDE DEF target, rolls, current, v
<1>4. Same(w, placed) BY <1>2, <1>3 DEF Same, Fit
<1> HIDE DEF placed, place
<1>5. Same(w, written) BY <1>4 DEF Same, Fit
<1>6. Plain(roll)
  <2>1. Plain(<<SyncFile(current), Create(target)>>) BY PlainTwo, PlainCalls
  <2> QED BY <2>1, PlainNone
<1>7. Plain(<<Write(target, record)>>) BY PlainOne, PlainCalls
<1> HIDE DEF roll
<1>8. Plain(acc.calls \o roll) BY <1>2, <1>6, PlainJoined
<1>9. Plain(calls) BY <1>7, <1>8, PlainJoined
<1> HIDE DEF written, calls
<1> QED BY <1>1, <1>5, <1>9 DEF Harmless

\* f is the loop of append up to record N.
Loops(f, N, base, records) ==
  f = [k \in 0 .. N |-> IF k = 0 THEN base ELSE WriteRecord(f[k - 1], records[k])]

LEMMA LeastExists ==
  ASSUME NEW S \in SUBSET Nat, S # {}
  PROVE  \E x \in S : \A y \in S : x <= y
<1>1. PICK x \in S : \A y \in S : ~ (<<y, x>> \in OpToRel(<, Nat))
  BY NatLessThanWellFounded, WFMin
<1>2. \A y \in S : ~ (y < x) BY <1>1 DEF OpToRel
<1> QED BY <1>2

\* Such an f exists: otherwise there is a first N without one.
LEMMA LoopExists ==
  ASSUME NEW base, NEW records
  PROVE  \A N \in Nat : \E f : Loops(f, N, base, records)
<1> DEFINE S == {N \in Nat : ~ \E f : Loops(f, N, base, records)}
           Next1(x, k) == IF k = 0 THEN base ELSE WriteRecord(x, records[k])
<1> SUFFICES ASSUME S # {} PROVE FALSE OBVIOUS
<1>1. PICK N \in S : \A M \in S : N <= M
  <2>1. S \in SUBSET Nat OBVIOUS
  <2> HIDE DEF S
  <2> QED BY <2>1, LeastExists
<1>2. N \in Nat /\ ~ \E f : Loops(f, N, base, records) OBVIOUS
<1>3. CASE N = 0
  <2> DEFINE f == [k \in 0 .. 0 |-> base]
  <2>1. f = [k \in 0 .. 0 |-> IF k = 0 THEN base ELSE WriteRecord(f[k - 1], records[k])] OBVIOUS
  <2>2. Loops(f, 0, base, records) BY <2>1 DEF Loops
  <2> QED BY <1>2, <1>3, <2>2
<1>4. CASE N # 0
  <2>1. N - 1 \in Nat /\ ~ (N <= N - 1) BY <1>2, <1>4
  <2>2. N - 1 \notin S BY <1>1, <2>1
  <2>3. PICK g : Loops(g, N - 1, base, records) BY <2>1, <2>2
  <2>4. g = [k \in 0 .. (N - 1) |-> Next1(g[k - 1], k)] BY <2>3 DEF Loops
  <2> DEFINE f == [k \in 0 .. N |-> IF k = N THEN Next1(g[N - 1], N) ELSE g[k]]
             h == [k \in 0 .. N |-> Next1(f[k - 1], k)]
  <2>5. ASSUME NEW k \in 0 .. N PROVE f[k] = h[k]
    <3>1. CASE k = 0
      <4>1. k \in 0 .. (N - 1) /\ k # N BY <1>2, <1>4, <3>1
      <4>2. f[k] = g[k] BY <4>1
      <4>3. g[k] = Next1(g[k - 1], k) BY <2>4, <4>1
      <4> QED BY <3>1, <4>2, <4>3
    <3>2. CASE k # 0 /\ k # N
      <4>1. k \in 0 .. (N - 1) /\ k - 1 \in 0 .. N /\ k - 1 # N BY <1>2, <3>2
      <4>2. f[k] = g[k] /\ f[k - 1] = g[k - 1] BY <3>2, <4>1
      <4>3. h[k] = Next1(f[k - 1], k) OBVIOUS
      <4>4. g[k] = Next1(g[k - 1], k) BY <2>4, <4>1
      <4> HIDE DEF f, h, Next1
      <4> QED BY <4>2, <4>3, <4>4
    <3>3. CASE k # 0 /\ k = N
      <4>1. k - 1 \in 0 .. N /\ k - 1 # N BY <1>2, <3>3
      <4>2. f[k] = Next1(g[k - 1], k) /\ f[k - 1] = g[k - 1] BY <3>3, <4>1
      <4>3. h[k] = Next1(f[k - 1], k) OBVIOUS
      <4> HIDE DEF f, h, Next1
      <4> QED BY <4>2, <4>3
    <3> QED BY <3>1, <3>2, <3>3
  <2>6. f = h
    <3>1. DOMAIN f = 0 .. N /\ DOMAIN h = 0 .. N OBVIOUS
    <3>2. f = [k \in 0 .. N |-> f[k]] /\ h = [k \in 0 .. N |-> h[k]] OBVIOUS
    <3> HIDE DEF f, h
    <3> QED BY <2>5, <3>2
  <2>7. Loops(f, N, base, records)
    <3>1. h = [k \in 0 .. N |-> IF k = 0 THEN base ELSE WriteRecord(f[k - 1], records[k])] OBVIOUS
    <3> HIDE DEF f, h
    <3> QED BY <2>6, <3>1 DEF Loops
  <2> QED BY <1>2, <2>7
<1> QED BY <1>3, <1>4

\* The loop of append, record by record.
LEMMA LoopSteps ==
  ASSUME NEW base, NEW records, Len(records) \in Nat
  PROVE  \E f : /\ f[0] = base
                /\ \A k \in 1 .. Len(records) : f[k] = WriteRecord(f[k - 1], records[k])
                /\ WriteRecords(base, records) = f[Len(records)]
<1> DEFINE N == Len(records)
           f == CHOOSE f : f = [k \in 0 .. N |-> IF k = 0 THEN base ELSE WriteRecord(f[k - 1], records[k])]
<1>1. WriteRecords(base, records) = f[N] BY DEF WriteRecords
<1>2. \E g : Loops(g, N, base, records) BY LoopExists
<1>3. f = [k \in 0 .. N |-> IF k = 0 THEN base ELSE WriteRecord(f[k - 1], records[k])]
  BY <1>2 DEF Loops
<1> HIDE DEF f
<1>4. f[0] = base
  <2>1. 0 \in 0 .. N OBVIOUS
  <2> QED BY <1>3, <2>1
<1>5. ASSUME NEW k \in 1 .. N PROVE f[k] = WriteRecord(f[k - 1], records[k])
  <2>1. k \in 0 .. N /\ k # 0 OBVIOUS
  <2> QED BY <1>3, <2>1
<1> QED BY <1>1, <1>4, <1>5

LEMMA WriteRecordsHarmless ==
  ASSUME NEW w, NEW base, Harmless(w, base), NEW records, Len(records) \in Nat
  PROVE  Harmless(w, WriteRecords(base, records))
<1>1. PICK f : /\ f[0] = base
               /\ \A k \in 1 .. Len(records) : f[k] = WriteRecord(f[k - 1], records[k])
               /\ WriteRecords(base, records) = f[Len(records)]
  BY LoopSteps
<1> DEFINE N == Len(records)
           S == {k \in 0 .. N : ~ Harmless(w, f[k])}
<1> SUFFICES ASSUME S # {} PROVE FALSE BY <1>1
<1>2. PICK k \in S : \A j \in S : k <= j
  <2>1. S \in SUBSET Nat OBVIOUS
  <2> HIDE DEF S
  <2> QED BY <2>1, LeastExists
<1>3. k \in 0 .. N /\ ~ Harmless(w, f[k]) OBVIOUS
<1>4. k # 0 BY <1>1, <1>3
<1>5. k \in 1 .. N /\ k - 1 \in 0 .. N /\ ~ (k <= k - 1) BY <1>3, <1>4
<1>6. Harmless(w, f[k - 1]) BY <1>2, <1>5
<1>7. f[k] = WriteRecord(f[k - 1], records[k]) BY <1>1, <1>5
<1> QED BY <1>3, <1>6, <1>7, WriteRecordHarmless

\* truncateSuffixFrom.
LEMMA TruncateHarmless ==
  ASSUME NEW w, Fit(w), NEW index
  PROVE  Harmless(w, TruncateSuffixFrom(w, index))
<1> DEFINE location == Lookup(w, index)
           kept == {id \in w.segs : id <= location.seg}
           left == Keeping(w, kept)
           cut == <<Truncate(location.seg, location.pos - 1)>>
           away == UnlinkAfter(w.segs, location.seg)
           result == [Synced(left) EXCEPT !.log = SubSeq(@, 1, index - w.first),
                                          !.at = SubSeq(@, 1, index - w.first),
                                          !.used = location.pos - 1]
<1>1. TruncateSuffixFrom(w, index) = [wal |-> result, calls |-> cut \o away \o SyncAll(left)]
  BY DEF TruncateSuffixFrom
<1>2. kept \subseteq w.segs OBVIOUS
<1> HIDE DEF kept, location
<1>3. Same(w, left) BY <1>2, KeepingSame
<1> HIDE DEF left
<1>4. Same(left, Synced(left)) BY <1>3, SyncedSame DEF Same
<1>5. Same(w, Synced(left)) BY <1>3, <1>4, SameTransitive
<1>6. Same(w, result) BY <1>5 DEF Same, Fit
<1>7. Plain(SyncAll(left)) BY <1>3, SyncAllPlain DEF Same, Fit
<1>8. Plain(cut) BY PlainOne, PlainCalls
<1>9. Plain(away) BY UnlinkAfterPlain DEF Fit
<1> HIDE DEF cut, away, result
<1>10. Plain(cut \o away) BY <1>8, <1>9, PlainJoined
<1>11. Plain(cut \o away \o SyncAll(left)) BY <1>7, <1>10, PlainJoined
<1> QED BY <1>1, <1>6, <1>11 DEF Harmless

\* cleanupCompactedSegments.
LEMMA CleanupHarmless ==
  ASSUME NEW w, Fit(w)
  PROVE  Harmless(w, Cleanup(w))
<1> DEFINE seg == IF w.log # <<>> THEN Lookup(w, w.first).seg ELSE Max(w.segs)
           kept == {id \in w.segs : id >= seg}
           left == Keeping(w, kept)
           away == UnlinkBefore(w.segs, seg)
<1>1. Cleanup(w) = [wal |-> Synced(left), calls |-> away \o SyncAll(left)] BY DEF Cleanup
<1>2. kept \subseteq w.segs OBVIOUS
<1> HIDE DEF kept, seg
<1>3. Same(w, left) BY <1>2, KeepingSame
<1> HIDE DEF left
<1>4. Same(left, Synced(left)) BY <1>3, SyncedSame DEF Same
<1>5. Same(w, Synced(left)) BY <1>3, <1>4, SameTransitive
<1>6. Plain(SyncAll(left)) BY <1>3, SyncAllPlain DEF Same, Fit
<1>7. Plain(away) BY UnlinkBeforePlain DEF Fit
<1> HIDE DEF away
<1>8. Plain(away \o SyncAll(left)) BY <1>6, <1>7, PlainJoined
<1> QED BY <1>1, <1>5, <1>8 DEF Harmless

\* compactMemory.
LEMMA CompactMemorySame ==
  ASSUME NEW w, Fit(w), NEW index
  PROVE  Same(w, CompactMemory(w, index))
BY DEF CompactMemory, Same, Fit

-----------------------------------------------------------------------------
(***************************************************************************)
(* Saving the incarnation.                                                 *)
(***************************************************************************)
\* The incarnation a metadata file holds.
Number(m) == IF m = NoMetadata THEN 0 ELSE m.incarnation

\* Every save of s is of incarnation n, and only its last call may return.
Saves(s, n) ==
  /\ IsSeq(s)
  /\ \A i \in 1 .. Len(s) : /\ s[i].do = "metadata" => Number(s[i].arg) = n
                            /\ s[i].do = "return" => i = Len(s)

SavesSome(s) == \E i \in 1 .. Len(s) : s[i].do = "metadata"

LEMMA MetadataNumber ==
  ASSUME NEW w, NEW first, NEW seg
  PROVE  Number(MetadataOf(w, first, seg)) = w.incarnation
<1> DEFINE m == MetadataOf(w, first, seg)
<1>1. "seg" \in DOMAIN m /\ m.incarnation = w.incarnation BY DEF MetadataOf
<1>2. "seg" \notin DOMAIN NoMetadata BY DEF NoMetadata
<1> HIDE DEF m
<1>3. m # NoMetadata BY <1>1, <1>2
<1>4. Number(m) = w.incarnation BY <1>1, <1>3 DEF Number
<1> QED BY <1>4 DEF m

\* Calls before or between saves.
Quiet(s, n) ==
  /\ IsSeq(s)
  /\ \A i \in 1 .. Len(s) : /\ s[i].do = "metadata" => Number(s[i].arg) = n
                            /\ s[i].do # "return"

LEMMA PlainIsQuiet ==
  ASSUME NEW s, Plain(s), NEW n PROVE Quiet(s, n)
BY DEF Plain, Quiet

LEMMA SaveIsQuiet ==
  ASSUME NEW m
  PROVE  Quiet(<<SaveMetadata(m)>>, Number(m)) /\ SavesSome(<<SaveMetadata(m)>>)
<1> DEFINE c == SaveMetadata(m)
           s == <<c>>
<1>1. c.do = "metadata" /\ c.arg = m BY DEF SaveMetadata, Call
<1> HIDE DEF c
<1>2. s \in Seq({c}) /\ Len(s) = 1 /\ s[1] = c OBVIOUS
<1> HIDE DEF s
<1>3. IsSeq(s) BY <1>2 DEF IsSeq
<1>4. \A i \in 1 .. Len(s) : s[i] = c BY <1>2
<1>5. 1 \in 1 .. Len(s) BY <1>2
<1>6. Quiet(s, Number(m)) BY <1>1, <1>3, <1>4 DEF Quiet
<1>7. SavesSome(s) BY <1>1, <1>2, <1>5 DEF SavesSome
<1> QED BY <1>6, <1>7 DEF s, c

LEMMA QuietJoined ==
  ASSUME NEW n, NEW s, NEW t, Quiet(s, n), Quiet(t, n)
  PROVE  Quiet(s \o t, n) /\ (SavesSome(t) => SavesSome(s \o t))
<1>1. IsSeq(s) /\ IsSeq(t) BY DEF Quiet
<1> DEFINE u == s \o t
<1>2. /\ IsSeq(u) /\ Len(s) \in Nat /\ Len(t) \in Nat /\ Len(u) = Len(s) + Len(t)
      /\ \A i \in 1 .. Len(s) : u[i] = s[i]
      /\ \A i \in (Len(s) + 1) .. (Len(s) + Len(t)) : u[i] = t[i - Len(s)]
  BY <1>1, Joined
<1> HIDE DEF u
<1>3. ASSUME NEW i \in 1 .. Len(u)
      PROVE  (u[i].do = "metadata" => Number(u[i].arg) = n) /\ u[i].do # "return"
  <2>1. CASE i <= Len(s)
    <3>1. i \in 1 .. Len(s) BY <1>2, <2>1
    <3> QED BY <1>2, <3>1 DEF Quiet
  <2>2. CASE i > Len(s)
    <3>1. i \in (Len(s) + 1) .. (Len(s) + Len(t)) /\ i - Len(s) \in 1 .. Len(t) BY <1>2, <2>2
    <3> QED BY <1>2, <3>1 DEF Quiet
  <2> QED BY <1>2, <2>1, <2>2
<1>4. Quiet(u, n) BY <1>2, <1>3 DEF Quiet
<1>5. ASSUME SavesSome(t) PROVE SavesSome(u)
  <2>1. PICK i \in 1 .. Len(t) : t[i].do = "metadata" BY <1>5 DEF SavesSome
  <2>2. i + Len(s) \in 1 .. Len(u) /\ i + Len(s) \in (Len(s) + 1) .. (Len(s) + Len(t))
        /\ (i + Len(s)) - Len(s) = i
    BY <1>2
  <2>3. u[i + Len(s)] = t[i] BY <1>2, <2>2
  <2> QED BY <2>1, <2>2, <2>3 DEF SavesSome
<1> QED BY <1>4, <1>5 DEF u

\* Calls that end with a return or without one.
LEMMA QuietReturns ==
  ASSUME NEW n, NEW s, Quiet(s, n), NEW vouches
  PROVE  LET t == s \o IF vouches THEN <<Call("return", 0, 0)>> ELSE <<>>
         IN Saves(t, n) /\ (SavesSome(s) => SavesSome(t))
<1> DEFINE c == Call("return", 0, 0)
           r == IF vouches THEN <<c>> ELSE <<>>
           u == s \o r
<1>1. c.do = "return" BY DEF Call
<1> HIDE DEF c
<1>2. IsSeq(r) /\ (r = <<>> \/ (Len(r) = 1 /\ r[1] = c))
  <2>1. <<c>> \in Seq({c}) /\ Len(<<c>>) = 1 /\ <<c>>[1] = c /\ <<>> \in Seq({c}) OBVIOUS
  <2> QED BY <2>1 DEF IsSeq
<1>3. Len(<<>>) = 0 OBVIOUS
<1> HIDE DEF r
<1>4. /\ IsSeq(u) /\ Len(s) \in Nat /\ Len(r) \in Nat /\ Len(u) = Len(s) + Len(r)
      /\ \A i \in 1 .. Len(s) : u[i] = s[i]
      /\ \A i \in (Len(s) + 1) .. (Len(s) + Len(r)) : u[i] = r[i - Len(s)]
  BY <1>2, Joined DEF Quiet
<1> HIDE DEF u
<1>5. ASSUME NEW i \in 1 .. Len(u)
      PROVE  /\ u[i].do = "metadata" => Number(u[i].arg) = n
             /\ u[i].do = "return" => i = Len(u)
  <2>1. CASE i <= Len(s)
    <3>1. i \in 1 .. Len(s) BY <1>4, <2>1
    <3> QED BY <1>4, <3>1 DEF Quiet
  <2>2. CASE i > Len(s)
    <3>1. r # <<>> BY <1>3, <1>4, <2>2
    <3>2. Len(r) = 1 /\ r[1] = c BY <1>2, <3>1
    <3>3. i = Len(u) /\ i \in (Len(s) + 1) .. (Len(s) + Len(r)) /\ i - Len(s) = 1 BY <1>4, <2>2, <3>2
    <3>4. u[i] = c BY <1>4, <3>2, <3>3
    <3> QED BY <1>1, <3>3, <3>4
  <2> QED BY <1>4, <2>1, <2>2
<1>6. Saves(u, n) BY <1>4, <1>5 DEF Saves
<1>7. ASSUME SavesSome(s) PROVE SavesSome(u)
  <2>1. PICK i \in 1 .. Len(s) : s[i].do = "metadata" BY <1>7 DEF SavesSome
  <2>2. i \in 1 .. Len(u) BY <1>4
  <2> QED BY <1>4, <2>1, <2>2 DEF SavesSome
<1> QED BY <1>6, <1>7 DEF u, r, c

-----------------------------------------------------------------------------
(***************************************************************************)
(* The directory.                                                          *)
(***************************************************************************)
Sane(d) ==
  /\ {"files", "metadata", "snapshots"} \subseteq DOMAIN d
  /\ IsFiniteSet(DOMAIN d.files)
  /\ Number(d.metadata) \in Nat

\* Changing the files of a directory keeps its metadata.
LEMMA FilesChange ==
  ASSUME NEW d, Sane(d), NEW files, IsFiniteSet(DOMAIN files)
  PROVE  Sane([d EXCEPT !.files = files]) /\ [d EXCEPT !.files = files].metadata = d.metadata
BY DEF Sane

LEMMA ListedFinite ==
  ASSUME NEW files, IsFiniteSet(DOMAIN files)
  PROVE  IsFiniteSet(DOMAIN DirectorySynced(files))
<1>1. DOMAIN DirectorySynced(files) = Listed(files) BY DEF DirectorySynced
<1>2. Listed(files) \subseteq DOMAIN files BY DEF Listed
<1> QED BY <1>1, <1>2, FS_Subset

\* Only a save of metadata changes the metadata.
LEMMA DoneSane ==
  ASSUME NEW d, Sane(d), NEW c, c.do = "metadata" => Number(c.arg) \in Nat
  PROVE  /\ Sane(Done(d, c))
         /\ Done(d, c).metadata = IF c.do = "metadata" THEN c.arg ELSE d.metadata
<1>0. IsFiniteSet(DOMAIN d.files) /\ IsFiniteSet(DOMAIN DirectorySynced(d.files))
  BY ListedFinite DEF Sane
<1>1. CASE c.do = "create"
  <2> DEFINE files == [id \in DOMAIN d.files \cup {c.id} |-> IF id = c.id THEN NewFile ELSE d.files[id]]
  <2>1. Done(d, c) = [d EXCEPT !.files = files] BY <1>1 DEF Done
  <2>2. DOMAIN files = DOMAIN d.files \cup {c.id} OBVIOUS
  <2> HIDE DEF files
  <2>3. IsFiniteSet(DOMAIN files) BY <1>0, <2>2, FS_AddElement
  <2> QED BY <1>1, <2>1, <2>3, FilesChange
<1>2. CASE c.do = "write"
  <2> DEFINE files == [d.files EXCEPT ![c.id].body = Append(@, c.arg)]
  <2>1. Done(d, c) = [d EXCEPT !.files = files] BY <1>2 DEF Done
  <2>2. DOMAIN files = DOMAIN d.files OBVIOUS
  <2> HIDE DEF files
  <2> QED BY <1>0, <1>2, <2>1, <2>2, FilesChange
<1>3. CASE c.do = "truncate"
  <2> DEFINE files == [d.files EXCEPT ![c.id] = Shortened(@, c.arg)]
  <2>1. Done(d, c) = [d EXCEPT !.files = files] BY <1>3 DEF Done
  <2>2. DOMAIN files = DOMAIN d.files OBVIOUS
  <2> HIDE DEF files
  <2> QED BY <1>0, <1>3, <2>1, <2>2, FilesChange
<1>4. CASE c.do = "syncFile"
  <2> DEFINE files == [d.files EXCEPT ![c.id] = FileSynced(@)]
  <2>1. Done(d, c) = [d EXCEPT !.files = files] BY <1>4 DEF Done
  <2>2. DOMAIN files = DOMAIN d.files OBVIOUS
  <2> HIDE DEF files
  <2> QED BY <1>0, <1>4, <2>1, <2>2, FilesChange
<1>5. CASE c.do = "syncDir"
  <2>1. Done(d, c) = [d EXCEPT !.files = DirectorySynced(d.files)] BY <1>5 DEF Done
  <2> QED BY <1>0, <1>5, <2>1, FilesChange
<1>6. CASE c.do = "unlink"
  <2> DEFINE files == [d.files EXCEPT ![c.id].name = "unlinked"]
  <2>1. Done(d, c) = [d EXCEPT !.files = files] BY <1>6 DEF Done
  <2>2. DOMAIN files = DOMAIN d.files OBVIOUS
  <2> HIDE DEF files
  <2> QED BY <1>0, <1>6, <2>1, <2>2, FilesChange
<1>7. CASE c.do = "metadata"
  <2> DEFINE e == [d EXCEPT !.files = DirectorySynced(d.files)]
  <2>1. Done(d, c) = [e EXCEPT !.metadata = c.arg] BY <1>7 DEF Done
  <2>2. Sane(e) BY <1>0, FilesChange
  <2> HIDE DEF e
  <2> QED BY <1>7, <2>1, <2>2 DEF Sane
<1>8. CASE c.do = "snapshot"
  <2> DEFINE e == [d EXCEPT !.files = DirectorySynced(d.files)]
  <2>1. Done(d, c) = [e EXCEPT !.snapshots = @ \cup {c.arg}] BY <1>8 DEF Done
  <2>2. Sane(e) /\ e.metadata = d.metadata BY <1>0, FilesChange
  <2> HIDE DEF e
  <2> QED BY <1>8, <2>1, <2>2 DEF Sane
<1>9. CASE c.do = "removeSnapshot"
  <2> DEFINE e == [d EXCEPT !.files = DirectorySynced(d.files)]
  <2>1. Done(d, c) = [e EXCEPT !.snapshots = @ \ {c.arg}] BY <1>9 DEF Done
  <2>2. Sane(e) /\ e.metadata = d.metadata BY <1>0, FilesChange
  <2> HIDE DEF e
  <2> QED BY <1>9, <2>1, <2>2 DEF Sane
<1>10. CASE c.do \notin {"create", "write", "truncate", "syncFile", "syncDir", "unlink",
                         "metadata", "snapshot", "removeSnapshot"}
  <2>1. Done(d, c) = d BY <1>10 DEF Done
  <2> QED BY <1>10, <2>1
<1> QED BY <1>1, <1>2, <1>3, <1>4, <1>5, <1>6, <1>7, <1>8, <1>9, <1>10

\* A crash does not touch the metadata either.
LEMMA CrashSane ==
  ASSUME NEW d, Sane(d), NEW e \in Crashes(d)
  PROVE  Sane(e) /\ e.metadata = d.metadata
<1> DEFINE May(id) == Survives(d.files[id])
           Unsure == {id \in DOMAIN d.files : d.files[id].name # "durable"}
           Fixed(id) == Cardinality(May(id)) = 1
           Ways(ids) == {w \in [{id \in ids : ~Fixed(id)} -> UNION {May(id) : id \in {i \in ids : ~Fixed(i)}}] :
                           \A id \in {i \in ids : ~Fixed(i)} : w[id] \in May(id)}
           Kept(ids) == {[id \in ids |-> IF Fixed(id) THEN CHOOSE f \in May(id) : TRUE ELSE w[id]] : w \in Ways(ids)}
           All == UNION {Kept(DOMAIN d.files \ lost) : lost \in SUBSET Unsure}
<1>a. Crashes(d) = {[d EXCEPT !.files = files] : files \in All} BY DEF Crashes
<1> HIDE DEF All
<1>b. PICK files \in All : e = [d EXCEPT !.files = files] BY <1>a
<1>c. PICK lost \in SUBSET Unsure : files \in Kept(DOMAIN d.files \ lost) BY <1>b DEF All
<1>d. DOMAIN files = DOMAIN d.files \ lost
  <2> DEFINE ids == DOMAIN d.files \ lost
  <2> HIDE DEF ids, May, Fixed, Ways
  <2>1. files \in Kept(ids) BY <1>c DEF ids
  <2> QED BY <2>1 DEF ids
<1>1. e = [d EXCEPT !.files = files] /\ DOMAIN files \subseteq DOMAIN d.files BY <1>b, <1>d
<1>2. IsFiniteSet(DOMAIN files) BY <1>1, FS_Subset DEF Sane
<1> QED BY <1>1, <1>2, FilesChange

\* What open finds has the incarnation of the metadata.
LEMMA RecoveredFit ==
  ASSUME NEW d, Sane(d)
  PROVE  Fit(Recovered(d)) /\ Recovered(d).incarnation = Number(d.metadata)
<1>1. CASE d.metadata = NoMetadata
  <2>1. IsFiniteSet({1}) BY FS_Singleton
  <2> QED BY <1>1, <2>1 DEF Recovered, Fit, Number
<1>2. CASE d.metadata # NoMetadata
  <2>1. IsFiniteSet(DOMAIN Segments(d))
    <3>1. CASE d.files = <<>>
      <4>1. DOMAIN Segments(d) = {1} BY <3>1 DEF Segments
      <4> QED BY <4>1, FS_Singleton
    <3>2. CASE d.files # <<>> BY <3>2 DEF Segments, Sane
    <3> QED BY <3>1, <3>2
  <2>2. Number(d.metadata) = d.metadata.incarnation BY <1>2 DEF Number
  <2> QED BY <1>2, <2>1, <2>2 DEF Recovered, Fit, Sane
<1> QED BY <1>1, <1>2

LEMMA OpenedQuiet ==
  ASSUME NEW d, Sane(d)
  PROVE  /\ Fit(Opened(d).wal) /\ Opened(d).wal.incarnation = Number(d.metadata)
         /\ Quiet(Opened(d).calls, Number(d.metadata))
<1> DEFINE w == Recovered(d)
           n == Number(d.metadata)
           m == MetadataOf(w, w.first, FirstSegmentIdFor(w, w.first))
           c == Cleanup(w)
<1>1. Fit(w) /\ w.incarnation = n BY RecoveredFit
<1>2. Plain(Repair(d)) BY PlainNone, PlainOne, PlainCalls DEF Repair
<1>3. CASE w.dirty
  <2>1. Opened(d) = [wal |-> [Synced(w) EXCEPT !.dirty = FALSE],
                     calls |-> Repair(d) \o SyncAll(w) \o <<SaveMetadata(m)>>]
    BY <1>3 DEF Opened
  <2>2. Number(m) = n BY <1>1, MetadataNumber
  <2> HIDE DEF w, n, m
  <2>3. Same(w, Synced(w)) BY <1>1, SyncedSame
  <2>4. Same(Synced(w), [Synced(w) EXCEPT !.dirty = FALSE]) BY <2>3, DirtySame DEF Same
  <2>5. Plain(Repair(d) \o SyncAll(w)) BY <1>1, <1>2, SyncAllPlain, PlainJoined DEF Fit
  <2>6. Quiet(Repair(d) \o SyncAll(w), n) BY <2>5, PlainIsQuiet
  <2>7. Quiet(<<SaveMetadata(m)>>, n) BY <2>2, SaveIsQuiet
  <2>8. Quiet(Repair(d) \o SyncAll(w) \o <<SaveMetadata(m)>>, n) BY <2>6, <2>7, QuietJoined
  <2>9. Same(w, [Synced(w) EXCEPT !.dirty = FALSE]) BY <2>3, <2>4, SameTransitive
  <2>10. Opened(d).wal = [Synced(w) EXCEPT !.dirty = FALSE]
         /\ Opened(d).calls = Repair(d) \o SyncAll(w) \o <<SaveMetadata(m)>>
    BY <2>1
  <2> QED BY <1>1, <2>8, <2>9, <2>10 DEF Same, n
<1>4. CASE ~ w.dirty
  <2>1. Harmless(w, c) BY <1>1, CleanupHarmless
  <2>2. Opened(d) = IF w.first > 1 THEN [wal |-> c.wal, calls |-> Repair(d) \o c.calls]
                    ELSE [wal |-> w, calls |-> Repair(d)]
    BY <1>4 DEF Opened
  <2> HIDE DEF w, n, c
  <2>3. Plain(Repair(d) \o c.calls) BY <1>2, <2>1, PlainJoined DEF Harmless
  <2>4. Quiet(Repair(d) \o c.calls, n) /\ Quiet(Repair(d), n) BY <1>2, <2>3, PlainIsQuiet
  <2> QED BY <1>1, <2>1, <2>2, <2>4 DEF Harmless, Same, n
<1> QED BY <1>3, <1>4

-----------------------------------------------------------------------------
(***************************************************************************)
(* Incarnations.  What was handed out is on disk: numbers only grow, and   *)
(* none is above that of the metadata file, which no crash takes back.     *)
(* While the process runs the struct has the number of the file, or a save *)
(* of its own is still to come; and a reservation that has not returned    *)
(* holds a number above all that were handed out.                          *)
(***************************************************************************)
HandedOut(n) ==
  /\ IsSeq(issued)
  /\ \A i \in 1 .. Len(issued) : issued[i] \in Nat /\ issued[i] <= n
  /\ \A i, j \in 1 .. Len(issued) : i < j => issued[i] < issued[j]

Running ==
  /\ Fit(wal)
  /\ Saves(todo, wal.incarnation)
  /\ Number(disk.metadata) <= wal.incarnation
  /\ Number(disk.metadata) = wal.incarnation \/ SavesSome(todo)
  /\ op = "reserve" /\ todo # <<>> =>
       \A i \in 1 .. Len(issued) : issued[i] < wal.incarnation

IncarnationInv ==
  /\ Sane(disk)
  /\ HandedOut(Number(disk.metadata))
  /\ phase = "open" => Running
  /\ phase # "open" => todo = <<>>

LEMMA IncarnationStart ==
  ASSUME Init PROVE IncarnationInv
<1>1. disk = EmptyDisk /\ phase = "down" /\ todo = <<>> /\ issued = <<>> BY DEF Init
<1>2. Number(disk.metadata) = 0 BY <1>1 DEF EmptyDisk, Number
<1>3. DOMAIN disk.files = {}
  <2>1. disk.files = <<>> BY <1>1 DEF EmptyDisk
  <2>2. DOMAIN <<>> = {} OBVIOUS
  <2> QED BY <2>1, <2>2
<1>4. Sane(disk)
  <2>1. {"files", "metadata", "snapshots"} \subseteq DOMAIN disk BY <1>1 DEF EmptyDisk
  <2> QED BY <1>2, <1>3, <2>1, FS_EmptySet DEF Sane
<1>5. HandedOut(0)
  <2>1. issued \in Seq({}) /\ Len(issued) = 0 BY <1>1
  <2> QED BY <2>1 DEF HandedOut, IsSeq
<1> QED BY <1>1, <1>2, <1>4, <1>5 DEF IncarnationInv

\* An operation starts: it keeps the number, or reserves the next one and
\* saves it.
LEMMA StartKeeps ==
  ASSUME IncarnationInv, NEW name, NEW result, NEW vouches, Start(name, result, vouches),
         Fit(result.wal), Quiet(result.calls, result.wal.incarnation),
         \/ name # "reserve" /\ result.wal.incarnation = wal.incarnation
         \/ result.wal.incarnation = wal.incarnation + 1 /\ SavesSome(result.calls)
  PROVE  IncarnationInv'
<1>1. /\ phase = "open" /\ todo = <<>> /\ phase' = "open" /\ op' = name /\ wal' = result.wal
      /\ todo' = result.calls \o IF vouches THEN <<Call("return", 0, 0)>> ELSE <<>>
      /\ disk' = disk /\ issued' = issued
  BY DEF Start
<1>2. Running BY <1>1 DEF IncarnationInv
<1> DEFINE n == wal.incarnation
           n2 == result.wal.incarnation
<1>3. n \in Nat /\ n2 \in Nat BY <1>2 DEF Running, Fit
<1>4. ~ SavesSome(todo)
  <2>1. Len(<<>>) = 0 OBVIOUS
  <2> QED BY <1>1, <2>1 DEF SavesSome
<1>5. Number(disk.metadata) = n BY <1>2, <1>4 DEF Running
<1>6. Saves(todo', n2) /\ (SavesSome(result.calls) => SavesSome(todo'))
  <2> DEFINE t == result.calls \o IF vouches THEN <<Call("return", 0, 0)>> ELSE <<>>
  <2>1. Saves(t, n2) /\ (SavesSome(result.calls) => SavesSome(t)) BY QuietReturns
  <2> QED BY <1>1, <2>1
<1>7. Saves(todo, wal.incarnation)' BY <1>1, <1>6 DEF Saves
<1>8. SavesSome(todo)' <=> SavesSome(todo') BY DEF SavesSome
<1>9. Fit(wal)' BY <1>1 DEF Fit
<1>10. \A i \in 1 .. Len(issued) : issued[i] \in Nat /\ issued[i] <= n BY <1>5 DEF IncarnationInv, HandedOut
<1>11. Running'
  <2>1. CASE name # "reserve" /\ n2 = n
    BY <1>1, <1>3, <1>5, <1>7, <1>9, <2>1 DEF Running, Number
  <2>2. CASE n2 = n + 1 /\ SavesSome(result.calls)
    <3>1. \A i \in 1 .. Len(issued) : issued[i] < n2 BY <1>3, <1>10, <2>2
    <3>2. (\A i \in 1 .. Len(issued) : issued[i] < wal.incarnation)' BY <1>1, <3>1
    <3>3. SavesSome(todo)' BY <1>6, <1>8, <2>2
    <3>4. n <= n2 BY <1>3, <2>2
    <3>5. (Number(disk.metadata) <= wal.incarnation)' BY <1>1, <1>5, <3>4 DEF Number
    <3> QED BY <1>7, <1>9, <3>2, <3>3, <3>5 DEF Running
  <2> QED BY <2>1, <2>2
<1>12. Sane(disk)' /\ HandedOut(Number(disk.metadata))'
  BY <1>1 DEF IncarnationInv, Sane, HandedOut, Number, IsSeq
<1> QED BY <1>1, <1>11, <1>12 DEF IncarnationInv

\* A call is made.
LEMMA StepKeeps ==
  ASSUME IncarnationInv, Step
  PROVE  IncarnationInv'
<1> DEFINE c == Head(todo)
           n == wal.incarnation
<1>1. /\ todo # <<>> /\ todo' = Tail(todo) /\ disk' = Done(disk, c)
      /\ wal' = wal /\ phase' = phase /\ op' = op
  BY DEF Step
<1>2. phase = "open" /\ Running BY <1>1 DEF IncarnationInv
<1>3. n \in Nat /\ Saves(todo, n) BY <1>2 DEF Running, Fit
<1>4. PICK S : todo \in Seq(S) BY <1>3 DEF Saves, IsSeq
<1>5. /\ Len(todo) \in Nat /\ Len(todo) > 0 /\ c = todo[1] /\ Tail(todo) \in Seq(S)
      /\ Len(Tail(todo)) = Len(todo) - 1
      /\ \A i \in 1 .. Len(Tail(todo)) : Tail(todo)[i] = todo[i + 1]
  BY <1>1, <1>4
<1>6. 1 \in 1 .. Len(todo) BY <1>5
<1>7. (c.do = "metadata" => Number(c.arg) = n) /\ (c.do = "return" => Len(todo) = 1)
  BY <1>3, <1>5, <1>6 DEF Saves
<1>8. /\ Sane(disk')
      /\ disk'.metadata = IF c.do = "metadata" THEN c.arg ELSE disk.metadata
  <2>1. c.do = "metadata" => Number(c.arg) \in Nat BY <1>3, <1>7
  <2>2. Sane(disk) BY DEF IncarnationInv
  <2> HIDE DEF c
  <2> QED BY <1>1, <2>1, <2>2, DoneSane
<1> DEFINE old == Number(disk.metadata)
           new == Number(disk'.metadata)
<1>9. old \in Nat /\ old <= n BY <1>2 DEF Running, IncarnationInv, Sane
<1>10. (c.do = "metadata" => new = n) /\ (c.do # "metadata" => new = old) BY <1>7, <1>8
<1>11. new \in Nat /\ old <= new /\ new <= n BY <1>3, <1>9, <1>10
<1>12. Saves(Tail(todo), n)
  <2>1. IsSeq(Tail(todo)) BY <1>5 DEF IsSeq
  <2>2. ASSUME NEW i \in 1 .. Len(Tail(todo))
        PROVE  /\ Tail(todo)[i].do = "metadata" => Number(Tail(todo)[i].arg) = n
               /\ Tail(todo)[i].do = "return" => i = Len(Tail(todo))
    <3>1. i + 1 \in 1 .. Len(todo) /\ Tail(todo)[i] = todo[i + 1] BY <1>5
    <3>2. /\ todo[i + 1].do = "metadata" => Number(todo[i + 1].arg) = n
          /\ todo[i + 1].do = "return" => i + 1 = Len(todo)
      BY <1>3, <3>1 DEF Saves
    <3>3. i + 1 = Len(todo) => i = Len(Tail(todo)) BY <1>5
    <3> QED BY <3>1, <3>2, <3>3
  <2> QED BY <2>1, <2>2 DEF Saves
<1>13. new = n \/ SavesSome(Tail(todo))
  <2>1. CASE c.do = "metadata" BY <1>10, <2>1
  <2>2. CASE c.do # "metadata" /\ old # n
    <3>1. SavesSome(todo) BY <1>2, <2>2 DEF Running
    <3>2. PICK i \in 1 .. Len(todo) : todo[i].do = "metadata" BY <3>1 DEF SavesSome
    <3>3. i # 1 BY <1>5, <2>2, <3>2
    <3>4. i - 1 \in 1 .. Len(Tail(todo)) /\ (i - 1) + 1 = i BY <1>5, <3>3
    <3>5. Tail(todo)[i - 1] = todo[i] BY <1>5, <3>4
    <3> QED BY <3>2, <3>4, <3>5 DEF SavesSome
  <2> QED BY <1>10, <2>1, <2>2
<1>14. Saves(todo, wal.incarnation)' BY <1>1, <1>12 DEF Saves
<1>15. (Number(disk.metadata))' = new BY DEF Number
<1>16. Fit(wal)' BY <1>1, <1>2 DEF Running, Fit
<1>17. SavesSome(todo)' <=> SavesSome(Tail(todo)) BY <1>1 DEF SavesSome
<1>18. Sane(disk)' BY <1>8 DEF Sane
<1>19. HandedOut(old) BY DEF IncarnationInv
<1>20. CASE c.do = "return" /\ op = "reserve"
  <2>1. issued' = Append(issued, n) BY <1>20 DEF Step
  <2>2. new = n
    <3>1. Len(Tail(todo)) = 0 BY <1>5, <1>7, <1>20
    <3>2. ~ SavesSome(Tail(todo)) BY <3>1 DEF SavesSome
    <3> QED BY <1>13, <3>2
  <2>3. todo' = <<>>
    <3>1. Len(Tail(todo)) = 0 BY <1>5, <1>7, <1>20
    <3> QED BY <1>1, <1>5, <3>1
  <2>4. \A i \in 1 .. Len(issued) : issued[i] \in Nat /\ issued[i] < n
    BY <1>1, <1>2, <1>19, <1>20 DEF Running, HandedOut
  <2>5. PICK T : issued \in Seq(T) BY <1>19 DEF HandedOut, IsSeq
  <2> DEFINE U == T \cup {n}
  <2>6. issued \in Seq(U) /\ n \in U BY <2>5
  <2> HIDE DEF U
  <2>7. /\ issued' \in Seq(U) /\ Len(issued) \in Nat /\ Len(issued') = Len(issued) + 1
        /\ \A i \in 1 .. Len(issued) : issued'[i] = issued[i]
        /\ issued'[Len(issued) + 1] = n
    BY <2>1, <2>6
  <2>8. \A i \in 1 .. Len(issued') : issued'[i] \in Nat /\ issued'[i] <= n
    BY <1>3, <2>4, <2>7
  <2>9. ASSUME NEW i \in 1 .. Len(issued'), NEW j \in 1 .. Len(issued'), i < j
        PROVE  issued'[i] < issued'[j]
    <3>1. i \in 1 .. Len(issued) BY <2>7, <2>9
    <3>2. CASE j = Len(issued) + 1 BY <2>4, <2>7, <3>1, <3>2
    <3>3. CASE j # Len(issued) + 1
      <4>1. j \in 1 .. Len(issued) BY <2>7, <3>3
      <4>2. issued[i] < issued[j] BY <1>19, <2>9, <3>1, <4>1 DEF HandedOut
      <4> QED BY <2>7, <3>1, <4>1, <4>2
    <3> QED BY <3>2, <3>3
  <2>10. HandedOut(Number(disk.metadata))'
    BY <1>15, <2>2, <2>7, <2>8, <2>9 DEF HandedOut, IsSeq
  <2>11. Running'
    BY <1>1, <1>11, <1>14, <1>15, <1>16, <2>2, <2>3 DEF Running
  <2> QED BY <1>1, <1>2, <1>18, <2>10, <2>11 DEF IncarnationInv
<1>21. CASE ~ (c.do = "return" /\ op = "reserve")
  <2>1. issued' = issued BY <1>21 DEF Step
  <2>2. HandedOut(Number(disk.metadata))'
    <3>1. \A i \in 1 .. Len(issued) : issued[i] \in Nat /\ issued[i] <= new
      BY <1>9, <1>11, <1>19 DEF HandedOut
    <3> QED BY <1>15, <1>19, <2>1, <3>1 DEF HandedOut, IsSeq
  <2>3. Running'
    <3>1. (op = "reserve" /\ todo # <<>> => \A i \in 1 .. Len(issued) : issued[i] < wal.incarnation)'
      BY <1>1, <1>2, <2>1 DEF Running
    <3>2. (Number(disk.metadata) <= wal.incarnation)' BY <1>1, <1>11, <1>15
    <3>3. (Number(disk.metadata) = wal.incarnation \/ SavesSome(todo))' BY <1>1, <1>13, <1>15, <1>17
    <3> QED BY <1>14, <1>16, <3>1, <3>2, <3>3 DEF Running
  <2> QED BY <1>1, <1>2, <1>18, <2>2, <2>3 DEF IncarnationInv
<1> QED BY <1>20, <1>21

LEMMA OpenKeeps ==
  ASSUME IncarnationInv, Open
  PROVE  IncarnationInv'
<1>1. disk' = disk /\ issued' = issued /\ phase = "down" BY DEF Open
<1>2. Sane(disk)' /\ HandedOut(Number(disk.metadata))'
  BY <1>1 DEF IncarnationInv, Sane, HandedOut, Number, IsSeq
<1>3. CASE Opens(disk)
  <2> DEFINE n == Number(disk.metadata)
  <2>1. phase' = "open" /\ op' = "open" /\ wal' = Opened(disk).wal /\ todo' = Opened(disk).calls
    BY <1>3 DEF Open
  <2>2. Sane(disk) BY DEF IncarnationInv
  <2>3. /\ Fit(Opened(disk).wal) /\ Opened(disk).wal.incarnation = n
        /\ Quiet(Opened(disk).calls, n)
    BY <2>2, OpenedQuiet
  <2>4. Saves(Opened(disk).calls, n) BY <2>3 DEF Quiet, Saves
  <2>5. n \in Nat BY <2>2 DEF Sane
  <2>6. Fit(wal)' BY <2>1, <2>3 DEF Fit
  <2>7. Saves(todo, wal.incarnation)' BY <2>1, <2>3, <2>4 DEF Saves
  <2>8. (Number(disk.metadata) = wal.incarnation)' BY <1>1, <2>1, <2>3 DEF Number
  <2>9. (Number(disk.metadata) <= wal.incarnation)' BY <1>1, <2>1, <2>3, <2>5 DEF Number
  <2>10. Running' BY <2>1, <2>6, <2>7, <2>8, <2>9 DEF Running
  <2> QED BY <1>2, <2>1, <2>10 DEF IncarnationInv
<1>4. CASE ~ Opens(disk)
  <2>1. phase' = "refused" /\ todo' = todo BY <1>4 DEF Open
  <2> QED BY <1>1, <1>2, <2>1 DEF IncarnationInv
<1> QED BY <1>3, <1>4

LEMMA CrashKeeps ==
  ASSUME IncarnationInv, Crash
  PROVE  IncarnationInv'
<1>1. disk' \in Crashes(disk) /\ issued' = issued /\ phase' = "down" /\ todo' = <<>> BY DEF Crash
<1>2. Sane(disk) BY DEF IncarnationInv
<1>3. Sane(disk') /\ disk'.metadata = disk.metadata BY <1>1, <1>2, CrashSane
<1>4. Sane(disk)' BY <1>3 DEF Sane
<1>5. HandedOut(Number(disk.metadata))' BY <1>1, <1>3 DEF IncarnationInv, HandedOut, Number, IsSeq
<1> QED BY <1>1, <1>4, <1>5 DEF IncarnationInv

-----------------------------------------------------------------------------
(***************************************************************************)
(* The operations.                                                         *)
(***************************************************************************)
\* What an operation that keeps the number has to make of the struct.
LEMMA HarmlessStart ==
  ASSUME IncarnationInv, NEW name, NEW result, NEW vouches, Start(name, result, vouches),
         name # "reserve", Harmless(wal, result)
  PROVE  IncarnationInv'
<1>1. Fit(result.wal) /\ result.wal.incarnation = wal.incarnation BY DEF Harmless, Same
<1>2. Quiet(result.calls, result.wal.incarnation) BY PlainIsQuiet DEF Harmless
<1> QED BY <1>1, <1>2, StartKeeps

\* The struct is fit while the process runs.
LEMMA OpenIsFit ==
  ASSUME IncarnationInv, phase = "open" PROVE Fit(wal)
BY DEF IncarnationInv, Running

LEMMA MaxOfPrefix ==
  ASSUME NEW n \in Nat, NEW K, K \subseteq 0 .. n, 0 \in K
  PROVE  Max(K) \in 0 .. n
<1> DEFINE D == {n - k : k \in K}
<1>1. D \in SUBSET Nat /\ D # {} OBVIOUS
<1> HIDE DEF D
<1>2. PICK x \in D : \A y \in D : x <= y BY <1>1, LeastExists
<1>3. PICK k \in K : x = n - k BY <1>2 DEF D
<1>4. ASSUME NEW j \in K PROVE k >= j
  <2>1. n - j \in D BY DEF D
  <2>2. n - k <= n - j BY <1>2, <1>3, <2>1
  <2> QED BY <2>2
<1>5. \E m \in K : \A j \in K : m >= j BY <1>4
<1>6. Max(K) \in K BY <1>5 DEF Max
<1> QED BY <1>6

LEMMA AppendKeeps ==
  ASSUME IncarnationInv, NEW index \in Nat, NEW n \in Nat, NEW term, AppendEntries(index, n, term)
  PROVE  IncarnationInv'
<1> DEFINE batch == [i \in 1 .. n |-> Entry(index + i - 1, term)]
           Agrees(e) == e.index <= LastIndex(wal) /\ wal.log[e.index - wal.first + 1] = e.term
           K == {k \in 0 .. n : \A i \in 1 .. k : Agrees(batch[i])}
           skip == Max(K)
           new == SubSeq(batch, skip + 1, n)
           conflict == new[1].index <= LastIndex(wal)
           base == IF conflict THEN TruncateSuffixFrom(wal, new[1].index)
                   ELSE [wal |-> wal, calls |-> <<>>]
           name == IF conflict THEN "overwrite" ELSE "append"
<1>1. phase = "open" /\ Start(name, WriteRecords(base, new), FALSE) BY DEF AppendEntries
<1>2. Fit(wal) BY <1>1, OpenIsFit
<1>3. Harmless(wal, base)
  <2>1. CASE conflict BY <1>2, <2>1, TruncateHarmless
  <2>2. CASE ~ conflict
    <3>1. base = [wal |-> wal, calls |-> <<>>] BY <2>2
    <3> HIDE DEF base
    <3> QED BY <1>2, <3>1, PlainNone DEF Harmless, Same
  <2> QED BY <2>1, <2>2
<1>4. skip \in 0 .. n
  <2>1. K \subseteq 0 .. n /\ 0 \in K OBVIOUS
  <2> HIDE DEF K
  <2> QED BY <2>1, MaxOfPrefix
<1>5. Len(new) \in Nat
  <2>1. batch = [i \in 1 .. n |-> batch[i]] /\ DOMAIN batch = 1 .. n OBVIOUS
  <2> HIDE DEF batch, skip
  <2>2. IsSeq(batch) /\ Len(batch) = n BY <2>1, ListIsSeq
  <2>3. PICK S : batch \in Seq(S) BY <2>2 DEF IsSeq
  <2>4. new \in Seq(S) BY <1>4, <2>2, <2>3
  <2> QED BY <2>4
<1> HIDE DEF new, base, conflict
<1>6. Harmless(wal, WriteRecords(base, new)) BY <1>3, <1>5, WriteRecordsHarmless
<1>7. name # "reserve" OBVIOUS
<1> QED BY <1>1, <1>6, <1>7, HarmlessStart

LEMMA HardStateKeeps ==
  ASSUME IncarnationInv, NEW commit, SaveHardState(commit)
  PROVE  IncarnationInv'
<1> DEFINE written == WriteRecord([wal |-> wal, calls |-> <<>>], HardStateRecord)
           result == [written EXCEPT !.wal.hs = [stamp |-> @.stamp + 1, commit |-> commit],
                                     !.wal.dirty = TRUE]
<1>1. phase = "open" /\ Start("saveHardState", result, FALSE) BY DEF SaveHardState
<1>2. Fit(wal) BY <1>1, OpenIsFit
<1>3. Harmless(wal, [wal |-> wal, calls |-> <<>>]) BY <1>2, PlainNone DEF Harmless, Same
<1>4. Harmless(wal, written) BY <1>3, WriteRecordHarmless
<1>5. DOMAIN written = {"wal", "calls"} BY DEF WriteRecord
<1> DEFINE hs == [stamp |-> written.wal.hs.stamp + 1, commit |-> commit]
<1>6. result.calls = written.calls /\ result.wal = [written.wal EXCEPT !.hs = hs, !.dirty = TRUE]
  <2> HIDE DEF written
  <2> QED BY <1>5
<1> HIDE DEF written, hs
<1>7. Same(wal, [written.wal EXCEPT !.hs = hs, !.dirty = TRUE])
  BY <1>4 DEF Harmless, Same, Fit
<1> HIDE DEF result
<1>8. Harmless(wal, result) BY <1>4, <1>6, <1>7 DEF Harmless
<1> QED BY <1>1, <1>8, HarmlessStart

\* persistMetadata saves the number of the struct.
LEMMA PersistQuiet ==
  ASSUME NEW w, NEW first
  PROVE  Quiet(Persist(w, first), w.incarnation) /\ SavesSome(Persist(w, first))
<1> DEFINE m == MetadataOf(w, first, FirstSegmentIdFor(w, first))
<1>1. Number(m) = w.incarnation BY MetadataNumber
<1>2. Persist(w, first) = <<SaveMetadata(m)>> BY DEF Persist
<1> HIDE DEF m
<1> QED BY <1>1, <1>2, SaveIsQuiet

LEMMA SyncKeeps ==
  ASSUME IncarnationInv, Sync
  PROVE  IncarnationInv'
<1> DEFINE w2 == [Synced(wal) EXCEPT !.dirty = FALSE]
           calls == IF wal.dirty THEN SegmentsBeforeMetadata(wal) ELSE SyncAll(wal)
           result == [wal |-> w2, calls |-> calls]
           n == wal.incarnation
<1>1. phase = "open" /\ Start("sync", result, TRUE) BY DEF Sync
<1>2. Fit(wal) BY <1>1, OpenIsFit
<1>3. Same(wal, Synced(wal)) BY <1>2, SyncedSame
<1>4. Same(Synced(wal), w2) BY <1>3, DirtySame DEF Same
<1>5. Same(wal, w2) BY <1>3, <1>4, SameTransitive
<1>6. Quiet(SyncAll(wal), n) BY <1>2, SyncAllPlain, PlainIsQuiet DEF Fit
<1>7. Quiet(Persist(wal, wal.first), n) BY PersistQuiet
<1>8. Quiet(SegmentsBeforeMetadata(wal), n) BY <1>6, <1>7, QuietJoined DEF SegmentsBeforeMetadata
<1>9. Quiet(calls, n) BY <1>6, <1>8
<1>10. result.wal = w2 /\ result.calls = calls OBVIOUS
<1> HIDE DEF w2, calls, result
<1>11. Fit(result.wal) /\ result.wal.incarnation = n BY <1>5, <1>10 DEF Same
<1>12. Quiet(result.calls, result.wal.incarnation) BY <1>9, <1>10, <1>11
<1>13. "sync" # "reserve" OBVIOUS
<1> QED BY <1>1, <1>11, <1>12, <1>13, StartKeeps

\* reserveIncarnation saves the next number before it returns.
LEMMA ReserveKeeps ==
  ASSUME IncarnationInv, ReserveIncarnation
  PROVE  IncarnationInv'
<1> DEFINE next == [wal EXCEPT !.incarnation = @ + 1]
           w2 == [Synced(next) EXCEPT !.dirty = FALSE]
           calls == SyncAll(wal) \o Persist(next, wal.first)
           result == [wal |-> w2, calls |-> calls]
           n == wal.incarnation
<1>1. phase = "open" /\ Start("reserve", result, TRUE) BY DEF ReserveIncarnation
<1>2. Fit(wal) BY <1>1, OpenIsFit
<1>3. Fit(next) /\ next.incarnation = n + 1 BY <1>2 DEF Fit
<1> HIDE DEF next
<1>4. Same(next, Synced(next)) BY <1>3, SyncedSame
<1>5. Same(Synced(next), w2) BY <1>4, DirtySame DEF Same
<1>6. Same(next, w2) BY <1>4, <1>5, SameTransitive
<1>7. Quiet(SyncAll(wal), n + 1) BY <1>2, SyncAllPlain, PlainIsQuiet DEF Fit
<1>8. Quiet(Persist(next, wal.first), n + 1) /\ SavesSome(Persist(next, wal.first))
  BY <1>3, PersistQuiet
<1>9. Quiet(calls, n + 1) /\ SavesSome(calls) BY <1>7, <1>8, QuietJoined
<1>10. result.wal = w2 /\ result.calls = calls OBVIOUS
<1> HIDE DEF w2, calls, result
<1>11. Fit(result.wal) /\ result.wal.incarnation = n + 1 BY <1>3, <1>6, <1>10 DEF Same
<1>12. Quiet(result.calls, result.wal.incarnation) /\ SavesSome(result.calls) BY <1>9, <1>10, <1>11
<1> QED BY <1>1, <1>11, <1>12, StartKeeps

LEMMA CompactKeeps ==
  ASSUME IncarnationInv, NEW index, Compact(index)
  PROVE  IncarnationInv'
<1>0. phase = "open" BY DEF Compact
<1>1. Fit(wal) BY <1>0, OpenIsFit
<1>2. CASE wal.log = <<>> \/ index <= wal.first
  <2>1. Start("compact", Cleanup(wal), FALSE) BY <1>2 DEF Compact
  <2>2. Harmless(wal, Cleanup(wal)) BY <1>1, CleanupHarmless
  <2>3. "compact" # "reserve" OBVIOUS
  <2> QED BY <2>1, <2>2, <2>3, HarmlessStart
<1>3. CASE ~ (wal.log = <<>> \/ index <= wal.first)
  <2> DEFINE short == CompactMemory(Synced(wal), index)
             w2 == [short EXCEPT !.dirty = FALSE]
             c == Cleanup(w2)
             calls == SyncAll(wal) \o Persist(wal, index) \o c.calls
             result == [wal |-> c.wal, calls |-> calls]
             n == wal.incarnation
  <2>1. Start("compact", result, TRUE) BY <1>3 DEF Compact
  <2>2. Same(wal, Synced(wal)) BY <1>1, SyncedSame
  <2>3. Same(Synced(wal), short) BY <2>2, CompactMemorySame DEF Same
  <2> HIDE DEF short
  <2>4. Same(short, w2) BY <2>3, DirtySame DEF Same
  <2> HIDE DEF w2
  <2>5. Harmless(w2, c) BY <2>4, CleanupHarmless DEF Same
  <2> HIDE DEF c
  <2>6. Fit(c.wal) /\ c.wal.incarnation = n /\ Plain(c.calls)
    BY <2>2, <2>3, <2>4, <2>5 DEF Harmless, Same
  <2>7. Quiet(SyncAll(wal), n) BY <1>1, SyncAllPlain, PlainIsQuiet DEF Fit
  <2>8. Quiet(Persist(wal, index), n) BY PersistQuiet
  <2>9. Quiet(SyncAll(wal) \o Persist(wal, index), n) BY <2>7, <2>8, QuietJoined
  <2>10. Quiet(c.calls, n) BY <2>6, PlainIsQuiet
  <2>11. Quiet(calls, n) BY <2>9, <2>10, QuietJoined
  <2>12. result.wal = c.wal /\ result.calls = calls OBVIOUS
  <2> HIDE DEF calls, result
  <2>13. Fit(result.wal) /\ result.wal.incarnation = n /\ Quiet(result.calls, result.wal.incarnation)
    BY <2>6, <2>11, <2>12
  <2>14. "compact" # "reserve" OBVIOUS
  <2> QED BY <2>1, <2>13, <2>14, StartKeeps
<1> QED BY <1>2, <1>3

LEMMA RemoveOldPlain == Plain(RemoveOldSnapshot)
BY PlainNone, PlainOne, PlainCalls DEF RemoveOldSnapshot

LEMMA LocalSnapshotKeeps ==
  ASSUME IncarnationInv, NEW index, ApplyLocalSnapshot(index)
  PROVE  IncarnationInv'
<1> DEFINE snapped == [Synced(wal) EXCEPT !.snap = index, !.dirty = FALSE]
           short == CompactMemory(snapped, index + 1)
           c == Cleanup(short)
           m == MetadataOf(snapped, index + 1, FirstSegmentIdFor(wal, index + 1))
           calls == SyncAll(wal) \o <<SaveSnapshot(index)>> \o <<SaveMetadata(m)>>
                      \o c.calls \o RemoveOldSnapshot
           result == [wal |-> c.wal, calls |-> calls]
           n == wal.incarnation
<1>1. phase = "open" /\ Start("localSnapshot", result, TRUE) BY DEF ApplyLocalSnapshot
<1>2. Fit(wal) BY <1>1, OpenIsFit
<1>3. Same(wal, Synced(wal)) BY <1>2, SyncedSame
<1>4. Same(wal, snapped) BY <1>3 DEF Same, Fit
<1>5. Number(m) = n BY <1>4, MetadataNumber DEF Same
<1> HIDE DEF snapped, m
<1>6. Same(snapped, short) BY <1>4, CompactMemorySame DEF Same
<1> HIDE DEF short
<1>7. Harmless(short, c) BY <1>6, CleanupHarmless DEF Same
<1> HIDE DEF c
<1>8. Fit(c.wal) /\ c.wal.incarnation = n /\ Plain(c.calls) BY <1>4, <1>6, <1>7 DEF Harmless, Same
<1>9. Plain(<<SaveSnapshot(index)>>) BY PlainOne, PlainCalls
<1>10. Plain(SyncAll(wal)) BY <1>2, SyncAllPlain DEF Fit
<1>11. Quiet(SyncAll(wal) \o <<SaveSnapshot(index)>>, n) BY <1>9, <1>10, PlainJoined, PlainIsQuiet
<1>12. Quiet(<<SaveMetadata(m)>>, n) BY <1>5, SaveIsQuiet
<1>13. Quiet(SyncAll(wal) \o <<SaveSnapshot(index)>> \o <<SaveMetadata(m)>>, n)
  BY <1>11, <1>12, QuietJoined
<1>14. Quiet(c.calls, n) /\ Quiet(RemoveOldSnapshot, n) BY <1>8, RemoveOldPlain, PlainIsQuiet
<1>15. Quiet(SyncAll(wal) \o <<SaveSnapshot(index)>> \o <<SaveMetadata(m)>> \o c.calls, n)
  BY <1>13, <1>14, QuietJoined
<1>16. Quiet(calls, n) BY <1>14, <1>15, QuietJoined
<1>17. result.wal = c.wal /\ result.calls = calls OBVIOUS
<1> HIDE DEF calls, result
<1>18. Fit(result.wal) /\ result.wal.incarnation = n /\ Quiet(result.calls, result.wal.incarnation)
  BY <1>8, <1>16, <1>17
<1>19. "localSnapshot" # "reserve" OBVIOUS
<1> QED BY <1>1, <1>18, <1>19, StartKeeps

LEMMA SnapshotKeeps ==
  ASSUME IncarnationInv, NEW index, ApplySnapshot(index)
  PROVE  IncarnationInv'
<1> DEFINE seg == Max(wal.segs) + 1
           rolled == [wal EXCEPT !.segs = @ \cup {seg}, !.used = 0, !.dirDirty = TRUE]
           reset == [Synced(rolled) EXCEPT !.first = index + 1, !.log = <<>>, !.at = <<>>,
                                           !.hs.commit = index, !.snap = index, !.dirty = FALSE]
           left == Keeping(reset, {seg})
           roll == <<SyncFile(seg - 1), Create(seg)>>
           m == MetadataOf(reset, index + 1, seg)
           saves == <<SaveSnapshot(index), SaveMetadata(m)>>
           away == UnlinkBefore(wal.segs, seg)
           calls == roll \o SyncAll(rolled) \o saves \o away \o SyncAll(left) \o RemoveOldSnapshot
           result == [wal |-> Synced(left), calls |-> calls]
           n == wal.incarnation
<1>1. phase = "open" /\ Start("snapshot", result, TRUE) BY DEF ApplySnapshot
<1>2. Fit(wal) BY <1>1, OpenIsFit
<1> HIDE DEF seg
<1>3. IsFiniteSet(wal.segs \cup {seg}) BY <1>2, FS_AddElement DEF Fit
<1>4. Same(wal, rolled) /\ seg \in rolled.segs BY <1>2, <1>3 DEF Same, Fit
<1> HIDE DEF rolled
<1>5. Same(rolled, Synced(rolled)) /\ Synced(rolled).segs = rolled.segs BY <1>4, SyncedSame DEF Same
<1>6. Same(rolled, reset) /\ reset.segs = rolled.segs BY <1>5 DEF Same, Fit
<1>7. Number(m) = n BY <1>4, <1>6, MetadataNumber DEF Same
<1> HIDE DEF reset, m
<1>8. Same(reset, left) BY <1>4, <1>6, KeepingSame DEF Same
<1> HIDE DEF left
<1>9. Same(left, Synced(left)) BY <1>8, SyncedSame DEF Same
<1>10. Fit(Synced(left)) /\ Synced(left).incarnation = n BY <1>4, <1>6, <1>8, <1>9 DEF Same
<1>11. Plain(roll) BY PlainTwo, PlainCalls
<1>12. Plain(SyncAll(rolled)) /\ Plain(SyncAll(left)) BY <1>4, <1>8, SyncAllPlain DEF Same, Fit
<1>13. Plain(away) BY <1>2, UnlinkBeforePlain DEF Fit
<1>14. Quiet(saves, n)
  <2> DEFINE a == SaveSnapshot(index)
             b == SaveMetadata(m)
             s == <<a, b>>
  <2>1. a.do # "metadata" /\ a.do # "return" BY PlainCalls
  <2>2. b.do = "metadata" /\ b.arg = m BY DEF SaveMetadata, Call
  <2> HIDE DEF a, b
  <2>3. s \in Seq({a, b}) /\ Len(s) = 2 /\ s[1] = a /\ s[2] = b OBVIOUS
  <2> HIDE DEF s
  <2>4. \A i \in 1 .. Len(s) : s[i] = a \/ s[i] = b BY <2>3
  <2>5. IsSeq(s) BY <2>3 DEF IsSeq
  <2>6. Quiet(s, n) BY <1>7, <2>1, <2>2, <2>4, <2>5 DEF Quiet
  <2> QED BY <2>6 DEF s, a, b
<1> HIDE DEF roll, saves, away
<1>15. Quiet(roll \o SyncAll(rolled), n) BY <1>11, <1>12, PlainJoined, PlainIsQuiet
<1>16. Quiet(roll \o SyncAll(rolled) \o saves, n) BY <1>14, <1>15, QuietJoined
<1>17. Quiet(away, n) /\ Quiet(SyncAll(left), n) /\ Quiet(RemoveOldSnapshot, n)
  BY <1>12, <1>13, RemoveOldPlain, PlainIsQuiet
<1>18. Quiet(roll \o SyncAll(rolled) \o saves \o away, n) BY <1>16, <1>17, QuietJoined
<1>19. Quiet(roll \o SyncAll(rolled) \o saves \o away \o SyncAll(left), n) BY <1>17, <1>18, QuietJoined
<1>20. Quiet(calls, n) BY <1>17, <1>19, QuietJoined
<1>21. result.wal = Synced(left) /\ result.calls = calls OBVIOUS
<1> HIDE DEF calls, result
<1>22. Fit(result.wal) /\ result.wal.incarnation = n /\ Quiet(result.calls, result.wal.incarnation)
  BY <1>10, <1>20, <1>21
<1>23. "snapshot" # "reserve" OBVIOUS
<1> QED BY <1>1, <1>22, <1>23, StartKeeps

\* Every step keeps the order of the incarnations.
LEMMA IncarnationStep ==
  ASSUME IncarnationInv, [Next]_vars
  PROVE  IncarnationInv'
<1>1. ASSUME NEW i \in Index, NEW n \in 1 .. MaxBatch, NEW t \in 1 .. MaxTerm, AppendEntries(i, n, t)
      PROVE  IncarnationInv'
  <2>1. MaxIndex \in Nat /\ MaxBatch \in Nat BY WalAssumption
  <2>2. i \in Nat /\ n \in Nat BY <2>1 DEF Index
  <2> QED BY <1>1, <2>2, AppendKeeps
<1>2. ASSUME UNCHANGED vars PROVE IncarnationInv'
  BY <1>2 DEF vars, IncarnationInv, Running, HandedOut, Sane, Fit, Saves, SavesSome, IsSeq, Number
<1> QED
  BY <1>1, <1>2, OpenKeeps, StepKeeps, CrashKeeps, SyncKeeps, ReserveKeeps, HardStateKeeps,
     CompactKeeps, LocalSnapshotKeeps, SnapshotKeeps
  DEF Next

\* The incarnations handed out are on disk and in order in every reachable
\* state.
THEOREM IncarnationInvInductive == Spec => []IncarnationInv
<1>1. Init => IncarnationInv BY IncarnationStart
<1>2. IncarnationInv /\ [Next]_vars => IncarnationInv' BY IncarnationStep
<1> QED BY <1>1, <1>2, PTL DEF Spec

(***************************************************************************)
(* reserveIncarnation never hands out a number twice, whatever crashes     *)
(* came between: the number is in the metadata file before it returns, and *)
(* no later save, recovery or crash puts an older one there.               *)
(***************************************************************************)
THEOREM IncarnationsAlwaysFresh == Spec => []IncarnationsAreFresh
<1>1. IncarnationInv => IncarnationsAreFresh
  <2> SUFFICES ASSUME IncarnationInv PROVE IncarnationsAreFresh OBVIOUS
  <2>1. HandedOut(Number(disk.metadata)) BY DEF IncarnationInv
  <2>2. PICK S : issued \in Seq(S) BY <2>1 DEF HandedOut, IsSeq
  <2>3. DOMAIN issued = 1 .. Len(issued) /\ Len(issued) \in Nat BY <2>2
  <2>4. ASSUME NEW a \in DOMAIN issued, NEW b \in DOMAIN issued, issued[a] = issued[b]
        PROVE  a = b
    <3>1. a \in 1 .. Len(issued) /\ b \in 1 .. Len(issued) BY <2>3
    <3>2. issued[a] \in Nat /\ issued[b] \in Nat BY <2>1, <3>1 DEF HandedOut
    <3>3. ~ (a < b) /\ ~ (b < a) BY <2>1, <2>4, <3>1, <3>2 DEF HandedOut
    <3> QED BY <2>3, <3>1, <3>3
  <2> QED BY <2>4 DEF IncarnationsAreFresh, IsInjective
<1> QED BY <1>1, IncarnationInvInductive, PTL

-----------------------------------------------------------------------------
(***************************************************************************)
(* A finite set in the order of a relation.                                *)
(***************************************************************************)
StrictOrder(S, R) ==
  /\ \A x \in S : <<x, x>> \notin R
  /\ \A x, y, z \in S : <<x, y>> \in R /\ <<y, z>> \in R => <<x, z>> \in R
  /\ \A x, y \in S : x = y \/ <<x, y>> \in R \/ <<y, x>> \in R

\* The members before x, and how many they are.
Below(S, R, x) == {y \in S : <<y, x>> \in R}
Rank(S, R, x) == Cardinality(Below(S, R, x))

LEMMA RankGrows ==
  ASSUME NEW S, IsFiniteSet(S), NEW R, StrictOrder(S, R)
  PROVE  /\ \A x \in S : Rank(S, R, x) \in 0 .. (Cardinality(S) - 1)
         /\ \A x, y \in S : <<x, y>> \in R => Rank(S, R, x) < Rank(S, R, y)
<1>0. Cardinality(S) \in Nat BY FS_CardinalityType
<1>1. ASSUME NEW x \in S
      PROVE  IsFiniteSet(Below(S, R, x)) /\ Rank(S, R, x) \in 0 .. (Cardinality(S) - 1)
  <2> DEFINE B == Below(S, R, x)
  <2>1. B \in SUBSET S /\ x \notin B BY DEF Below, StrictOrder
  <2> HIDE DEF B
  <2>2. IsFiniteSet(B) /\ Cardinality(B) <= Cardinality(S) /\ Cardinality(S) # Cardinality(B)
    BY <2>1, FS_Subset
  <2>3. Cardinality(B) \in Nat BY <2>2, FS_CardinalityType
  <2>4. Cardinality(B) \in 0 .. (Cardinality(S) - 1) BY <1>0, <2>2, <2>3
  <2> QED BY <2>2, <2>4 DEF Rank, B
<1>2. ASSUME NEW x \in S, NEW y \in S, <<x, y>> \in R PROVE Rank(S, R, x) < Rank(S, R, y)
  <2> DEFINE B == Below(S, R, x)
             C == Below(S, R, y)
  <2>1. B \in SUBSET C /\ x \in C /\ x \notin B BY <1>2 DEF Below, StrictOrder
  <2>2. IsFiniteSet(B) /\ IsFiniteSet(C) BY <1>1
  <2> HIDE DEF B, C
  <2>3. Cardinality(B) <= Cardinality(C) /\ Cardinality(B) # Cardinality(C) BY <2>1, <2>2, FS_Subset
  <2>4. Cardinality(B) \in Nat /\ Cardinality(C) \in Nat BY <2>2, FS_CardinalityType
  <2>5. Cardinality(B) < Cardinality(C) BY <2>3, <2>4
  <2> QED BY <2>5 DEF Rank, B, C
<1> QED BY <1>1, <1>2

\* Every rank is taken: the ranks are as many as the members.
LEMMA RankTaken ==
  ASSUME NEW S, IsFiniteSet(S), NEW R, StrictOrder(S, R), NEW k \in 0 .. (Cardinality(S) - 1)
  PROVE  \E x \in S : Rank(S, R, x) = k
<1> DEFINE n == Cardinality(S)
           T == 0 .. (n - 1)
           r == [x \in S |-> Rank(S, R, x)]
<1>0. n \in Nat BY FS_CardinalityType
<1>1. n - 1 \in Int /\ n > 0 BY <1>0
<1> HIDE DEF n
<1>2. IsFiniteSet(T) /\ Cardinality(T) = n BY <1>0, <1>1, FS_Interval
<1>3. r \in [S -> T] BY RankGrows DEF n
<1>4. ASSUME NEW x \in S, NEW y \in S, r[x] = r[y] PROVE x = y
  <2>1. Rank(S, R, x) = Rank(S, R, y) BY <1>4
  <2>2. Rank(S, R, x) \in T /\ Rank(S, R, y) \in T BY RankGrows DEF n
  <2>3. ~ (Rank(S, R, x) < Rank(S, R, y)) /\ ~ (Rank(S, R, y) < Rank(S, R, x)) BY <1>0, <2>1, <2>2
  <2>4. <<x, y>> \notin R /\ <<y, x>> \notin R BY <2>3, RankGrows
  <2> QED BY <2>4 DEF StrictOrder
<1> HIDE DEF T
<1>5. r \in Injection(S, T) BY <1>3, <1>4 DEF Injection, IsInjective
<1>6. r \in Surjection(S, T) BY <1>2, <1>5, FS_Injection DEF n
<1>7. k \in T BY DEF T, n
<1> QED BY <1>6, <1>7 DEF Surjection

\* InOrder lists the members, each once, in order.
LEMMA InOrderLists ==
  ASSUME NEW S, IsFiniteSet(S), NEW R, StrictOrder(S, R)
  PROVE  LET f == InOrder(S, R)
         IN /\ Cardinality(S) \in Nat /\ DOMAIN f = 1 .. Cardinality(S)
            /\ IsSeq(f) /\ Len(f) = Cardinality(S)
            /\ \A i \in 1 .. Cardinality(S) : f[i] \in S
            /\ \A x \in S : \E i \in 1 .. Cardinality(S) : f[i] = x
            /\ \A i, j \in 1 .. Cardinality(S) : i < j => <<f[i], f[j]>> \in R
<1> DEFINE n == Cardinality(S)
           e(i) == CHOOSE x \in S : Rank(S, R, x) = i - 1
           f == InOrder(S, R)
<1>0. n \in Nat BY FS_CardinalityType
<1>1. f = [i \in 1 .. n |-> e(i)] BY DEF InOrder, Rank, Below
<1>2. ASSUME NEW i \in 1 .. n PROVE e(i) \in S /\ Rank(S, R, e(i)) = i - 1
  <2>1. i - 1 \in 0 .. (n - 1) BY <1>0
  <2>2. \E x \in S : Rank(S, R, x) = i - 1 BY <2>1, RankTaken
  <2> QED BY <2>2
<1> HIDE DEF e, f
<1>3. DOMAIN f = 1 .. n /\ f = [i \in 1 .. n |-> f[i]] BY <1>1
<1>4. \A i \in 1 .. n : f[i] \in S /\ Rank(S, R, f[i]) = i - 1 BY <1>1, <1>2
<1>5. ASSUME NEW x \in S PROVE \E i \in 1 .. n : f[i] = x
  <2> DEFINE k == Rank(S, R, x) + 1
  <2>1. Rank(S, R, x) \in 0 .. (n - 1) BY RankGrows
  <2>2. k \in 1 .. n /\ k - 1 = Rank(S, R, x) BY <1>0, <2>1
  <2> HIDE DEF k
  <2>3. f[k] \in S /\ Rank(S, R, f[k]) = Rank(S, R, x) BY <1>4, <2>2
  <2>4. ~ (Rank(S, R, f[k]) < Rank(S, R, x)) /\ ~ (Rank(S, R, x) < Rank(S, R, f[k])) BY <1>0, <2>1, <2>3
  <2>5. <<f[k], x>> \notin R /\ <<x, f[k]>> \notin R BY <2>3, <2>4, RankGrows
  <2>6. f[k] = x BY <2>3, <2>5 DEF StrictOrder
  <2> QED BY <2>2, <2>6
<1>6. ASSUME NEW i \in 1 .. n, NEW j \in 1 .. n, i < j PROVE <<f[i], f[j]>> \in R
  <2>1. f[i] \in S /\ f[j] \in S /\ Rank(S, R, f[i]) = i - 1 /\ Rank(S, R, f[j]) = j - 1 BY <1>4
  <2>2. ~ (Rank(S, R, f[j]) < Rank(S, R, f[i])) /\ Rank(S, R, f[j]) # Rank(S, R, f[i])
    BY <1>0, <1>6, <2>1
  <2>3. <<f[j], f[i]>> \notin R /\ f[i] # f[j] BY <2>1, <2>2, RankGrows
  <2> QED BY <2>1, <2>3 DEF StrictOrder
<1> HIDE DEF n
<1>7. IsSeq(f) /\ Len(f) = n BY <1>0, <1>3, ListIsSeq
<1> QED BY <1>0, <1>3, <1>4, <1>5, <1>6, <1>7 DEF f, n

\* A finite set of numbers, from the lowest on.
LEMMA AscendingLists ==
  ASSUME NEW ids, IsFiniteSet(ids), ids \subseteq Nat
  PROVE  LET f == Ascending(ids)
         IN /\ Cardinality(ids) \in Nat /\ DOMAIN f = 1 .. Cardinality(ids)
            /\ IsSeq(f) /\ Len(f) = Cardinality(ids)
            /\ \A i \in 1 .. Cardinality(ids) : f[i] \in ids
            /\ \A x \in ids : \E i \in 1 .. Cardinality(ids) : f[i] = x
<1> DEFINE R == {p \in ids \X ids : p[1] < p[2]}
<1>1. \A x, y \in ids : <<x, y>> \in R <=> x < y OBVIOUS
<1> HIDE DEF R
<1>2. StrictOrder(ids, R) BY <1>1 DEF StrictOrder
<1>3. Ascending(ids) = InOrder(ids, R) BY DEF Ascending, R
<1> QED BY <1>2, <1>3, InOrderLists

-----------------------------------------------------------------------------
(***************************************************************************)
(* Directories in order.                                                   *)
(***************************************************************************)
IsRecord(r) == r = HardStateRecord \/ \E i \in Nat : \E t : r = Entry(i, t)

IsFile(f) ==
  /\ DOMAIN f = {"name", "header", "body", "synced", "torn"}
  /\ IsSeq(f.body) /\ \A p \in 1 .. Len(f.body) : IsRecord(f.body[p])
  /\ f.synced \in 0 .. Len(f.body)
  /\ f.header \in {"written", "durable", "missing"}
  /\ f.torn \in BOOLEAN

\* A saved snapshot lies before the log.
IsMetadata(m) ==
  m = NoMetadata \/ (m.first \in Nat /\ m.snap \in Nat /\ m.snap < m.first)

Whole(d) ==
  /\ {"files", "metadata", "snapshots"} \subseteq DOMAIN d
  /\ IsFiniteSet(DOMAIN d.files) /\ DOMAIN d.files \subseteq Nat
  /\ \A id \in DOMAIN d.files : IsFile(d.files[id])
  /\ IsMetadata(d.metadata)

\* The directory of a running process: every segment has its header.
Sound(d) == Whole(d) /\ \A id \in DOMAIN d.files : d.files[id].header # "missing"

-----------------------------------------------------------------------------
(***************************************************************************)
(* Making the calls of a list.                                             *)
(***************************************************************************)
\* The directories on the way through the first n calls of s.
Passing(f, d, s, n) ==
  f[0] = d /\ \A k \in 1 .. n : f[k] = Done(f[k - 1], s[k])

\* Making the calls of s in directory d leads to e, by directories of S only.
Within(d, s, e, S) ==
  \E f : /\ Passing(f, d, s, Len(s))
         /\ f[Len(s)] = e
         /\ \A k \in 0 .. Len(s) : f[k] \in S

\* It leads there, and every directory on the way is sound.
Reaches(d, s, e) == \E S : Within(d, s, e, S) /\ \A x \in S : Sound(x)

\* Every list of calls leads somewhere.
LEMMA PathExists ==
  ASSUME NEW d, NEW s, IsSeq(s)
  PROVE  \E f : Passing(f, d, s, Len(s))
<1>0. Len(s) \in Nat BY LenProperties DEF IsSeq
<1> DEFINE S == {N \in Nat : ~ \E f : Passing(f, d, s, N)}
<1>1. S = {}
  <2> SUFFICES ASSUME S # {} PROVE FALSE OBVIOUS
  <2>1. PICK N \in S : \A M \in S : N <= M
    <3>1. S \in SUBSET Nat OBVIOUS
    <3> HIDE DEF S
    <3> QED BY <3>1, LeastExists
  <2>2. N \in Nat /\ ~ \E f : Passing(f, d, s, N) OBVIOUS
  <2>3. CASE N = 0
    <3> DEFINE f == [k \in {0} |-> d]
    <3>1. f[0] = d OBVIOUS
    <3>2. 1 .. 0 = {} OBVIOUS
    <3> HIDE DEF f
    <3>3. Passing(f, d, s, 0) BY <3>1, <3>2 DEF Passing
    <3> QED BY <2>2, <2>3, <3>3
  <2>4. CASE N # 0
    <3>1. N - 1 \in Nat /\ ~ (N <= N - 1) BY <2>2, <2>4
    <3>2. N - 1 \notin S BY <2>1, <3>1
    <3>3. PICK g : Passing(g, d, s, N - 1) BY <3>1, <3>2
    <3> DEFINE last == Done(g[N - 1], s[N])
               f == [k \in 0 .. N |-> IF k = N THEN last ELSE g[k]]
    <3>4. \A k \in 0 .. (N - 1) : f[k] = g[k] BY <2>2
    <3>5. f[N] = last BY <2>2
    <3> HIDE DEF f
    <3>6. f[0] = d
      <4>1. 0 \in 0 .. (N - 1) BY <3>1
      <4> QED BY <3>3, <3>4, <4>1 DEF Passing
    <3>7. ASSUME NEW k \in 1 .. N PROVE f[k] = Done(f[k - 1], s[k])
      <4>1. k - 1 \in 0 .. (N - 1) BY <2>2
      <4>2. CASE k = N BY <3>4, <3>5, <4>1, <4>2
      <4>3. CASE k # N
        <5>1. k \in 1 .. (N - 1) /\ k \in 0 .. (N - 1) BY <2>2, <4>3
        <5>2. g[k] = Done(g[k - 1], s[k]) BY <3>3, <5>1 DEF Passing
        <5> QED BY <3>4, <4>1, <5>1, <5>2
      <4> QED BY <4>2, <4>3
    <3>8. Passing(f, d, s, N) BY <3>6, <3>7 DEF Passing
    <3> QED BY <2>2, <3>8
  <2> QED BY <2>3, <2>4
<1> QED BY <1>0, <1>1

LEMMA WithinNone ==
  ASSUME NEW d, NEW e, NEW S
  PROVE  Within(d, <<>>, e, S) <=> e = d /\ d \in S
<1>1. Len(<<>>) = 0 /\ 1 .. 0 = {} OBVIOUS
<1>a. \A k \in 0 .. 0 : k = 0 OBVIOUS
<1>b. 0 \in 0 .. 0 OBVIOUS
<1>2. ASSUME Within(d, <<>>, e, S) PROVE e = d /\ d \in S BY <1>1, <1>2, <1>b DEF Within, Passing
<1>3. ASSUME e = d, d \in S PROVE Within(d, <<>>, e, S)
  <2> DEFINE f == [k \in {0} |-> d]
  <2>1. f[0] = d OBVIOUS
  <2> HIDE DEF f
  <2>2. Passing(f, d, <<>>, 0) BY <1>1, <2>1 DEF Passing
  <2> QED BY <1>1, <1>3, <1>a, <2>1, <2>2 DEF Within
<1> QED BY <1>2, <1>3

LEMMA WithinOne ==
  ASSUME NEW d, NEW c PROVE Within(d, <<c>>, Done(d, c), {d, Done(d, c)})
<1> DEFINE s == <<c>>
<1>1. Len(s) = 1 /\ s[1] = c OBVIOUS
<1> HIDE DEF s
<1> DEFINE f == [k \in 0 .. 1 |-> IF k = 0 THEN d ELSE Done(d, c)]
<1>2. f[0] = d /\ f[1] = Done(d, c) OBVIOUS
<1> HIDE DEF f
<1>3. \A k \in 1 .. 1 : k = 1 /\ k - 1 = 0 OBVIOUS
<1>4. Passing(f, d, s, 1) BY <1>1, <1>2, <1>3 DEF Passing
<1>a. \A k \in 0 .. 1 : k = 0 \/ k = 1 OBVIOUS
<1>b. \A k \in 0 .. 1 : f[k] \in {d, Done(d, c)} BY <1>2, <1>a
<1>5. Within(d, s, Done(d, c), {d, Done(d, c)}) BY <1>1, <1>2, <1>4, <1>b DEF Within
<1> QED BY <1>5 DEF s

\* After the first call the rest is left.
LEMMA WithinRest ==
  ASSUME NEW d, NEW s, IsSeq(s), s # <<>>, NEW e, NEW X, Within(d, s, e, X)
  PROVE  Within(Done(d, Head(s)), Tail(s), e, X) /\ Done(d, Head(s)) \in X
<1>1. PICK S : s \in Seq(S) BY DEF IsSeq
<1> DEFINE n == Len(s)
           t == Tail(s)
<1>2. /\ n \in Nat /\ n > 0 /\ Head(s) = s[1] /\ Len(t) = n - 1
      /\ \A i \in 1 .. (n - 1) : t[i] = s[i + 1]
  BY <1>1
<1>3. PICK f : Passing(f, d, s, n) /\ f[n] = e /\ \A k \in 0 .. n : f[k] \in X BY DEF Within
<1> HIDE DEF n, t
<1> DEFINE g == [k \in 0 .. (n - 1) |-> f[k + 1]]
<1>4. \A k \in 0 .. (n - 1) : g[k] = f[k + 1] OBVIOUS
<1> HIDE DEF g
<1>5. g[0] = Done(d, s[1])
  <2>1. 0 \in 0 .. (n - 1) /\ 1 \in 1 .. n /\ 0 + 1 = 1 /\ 1 - 1 = 0 BY <1>2
  <2>2. f[1] = Done(f[0], s[1]) BY <1>3, <2>1 DEF Passing
  <2> QED BY <1>3, <1>4, <2>1, <2>2 DEF Passing
<1>6. ASSUME NEW k \in 1 .. (n - 1) PROVE g[k] = Done(g[k - 1], t[k])
  <2>1. k \in 0 .. (n - 1) /\ k - 1 \in 0 .. (n - 1) /\ (k - 1) + 1 = k /\ k + 1 \in 1 .. n
        /\ (k + 1) - 1 = k
    BY <1>2
  <2>2. f[k + 1] = Done(f[k], s[k + 1]) BY <1>3, <2>1 DEF Passing
  <2> QED BY <1>2, <1>4, <2>1, <2>2
<1>7. g[n - 1] = e
  <2>1. n - 1 \in 0 .. (n - 1) /\ (n - 1) + 1 = n BY <1>2
  <2> QED BY <1>3, <1>4, <2>1
<1>8. Passing(g, Done(d, s[1]), t, n - 1) BY <1>5, <1>6 DEF Passing
<1>a. ASSUME NEW k \in 0 .. (n - 1) PROVE g[k] \in X
  <2>1. k + 1 \in 0 .. n BY <1>2
  <2> QED BY <1>3, <1>4, <2>1
<1>b. Done(d, s[1]) \in X
  <2>1. 0 \in 0 .. (n - 1) BY <1>2
  <2> QED BY <1>5, <1>a, <2>1
<1>9. Within(Done(d, s[1]), t, e, X) BY <1>2, <1>7, <1>8, <1>a DEF Within
<1> QED BY <1>2, <1>9, <1>b DEF t

\* One list after another.
LEMMA WithinJoined ==
  ASSUME NEW d, NEW s, NEW e, NEW t, NEW g, IsSeq(s), IsSeq(t), NEW X, NEW Y,
         Within(d, s, e, X), Within(e, t, g, Y)
  PROVE  Within(d, s \o t, g, X \cup Y)
<1> DEFINE u == s \o t
           m == Len(s)
           n == Len(t)
<1>1. /\ m \in Nat /\ n \in Nat /\ Len(u) = m + n
      /\ \A i \in 1 .. m : u[i] = s[i]
      /\ \A i \in (m + 1) .. (m + n) : u[i] = t[i - m]
  BY Joined
<1>2. PICK f : Passing(f, d, s, m) /\ f[m] = e /\ \A k \in 0 .. m : f[k] \in X BY DEF Within
<1>3. PICK h : Passing(h, e, t, n) /\ h[n] = g /\ \A k \in 0 .. n : h[k] \in Y BY DEF Within
<1> HIDE DEF u, m, n
<1> DEFINE r == [k \in 0 .. (m + n) |-> IF k <= m THEN f[k] ELSE h[k - m]]
<1>4. \A k \in 0 .. (m + n) : r[k] = IF k <= m THEN f[k] ELSE h[k - m] OBVIOUS
<1> HIDE DEF r
<1>5. r[0] = d
  <2>1. 0 \in 0 .. (m + n) /\ 0 <= m BY <1>1
  <2> QED BY <1>2, <1>4, <2>1 DEF Passing
<1>6. ASSUME NEW k \in 1 .. (m + n) PROVE r[k] = Done(r[k - 1], u[k])
  <2>0. k \in 0 .. (m + n) /\ k - 1 \in 0 .. (m + n) BY <1>1
  <2>1. CASE k <= m
    <3>1. k \in 1 .. m /\ k - 1 <= m BY <1>1, <2>1
    <3>2. f[k] = Done(f[k - 1], s[k]) BY <1>2, <3>1 DEF Passing
    <3> QED BY <1>1, <1>4, <2>0, <2>1, <3>1, <3>2
  <2>2. CASE k = m + 1
    <3>1. 1 \in 1 .. n /\ k - m = 1 /\ k - 1 = m /\ ~ (k <= m) /\ k - 1 <= m /\ 1 - 1 = 0
          /\ k \in (m + 1) .. (m + n)
      BY <1>1, <2>2
    <3>2. h[1] = Done(h[0], t[1]) BY <1>3, <3>1 DEF Passing
    <3>3. h[0] = f[m] BY <1>2, <1>3 DEF Passing
    <3>4. r[k] = h[1] /\ r[k - 1] = f[m] /\ u[k] = t[1] BY <1>1, <1>4, <2>0, <3>1
    <3> QED BY <3>2, <3>3, <3>4
  <2>3. CASE k > m + 1
    <3>1. k - m \in 1 .. n /\ ~ (k <= m) /\ ~ (k - 1 <= m) /\ (k - 1) - m = (k - m) - 1
          /\ k \in (m + 1) .. (m + n)
      BY <1>1, <2>3
    <3>2. h[k - m] = Done(h[(k - m) - 1], t[k - m]) BY <1>3, <3>1 DEF Passing
    <3>3. r[k] = h[k - m] /\ r[k - 1] = h[(k - m) - 1] /\ u[k] = t[k - m] BY <1>1, <1>4, <2>0, <3>1
    <3> QED BY <3>2, <3>3
  <2> QED BY <1>1, <2>1, <2>2, <2>3
<1>7. r[m + n] = g
  <2>0. m + n \in 0 .. (m + n) BY <1>1
  <2>1. CASE n = 0
    <3>1. m + n <= m /\ m + n = m BY <1>1, <2>1
    <3>2. r[m + n] = f[m] BY <1>4, <2>0, <3>1
    <3> QED BY <1>2, <1>3, <2>1, <3>2 DEF Passing
  <2>2. CASE n # 0
    <3>1. ~ (m + n <= m) /\ (m + n) - m = n BY <1>1, <2>2
    <3> QED BY <1>3, <1>4, <2>0, <3>1
  <2> QED BY <2>1, <2>2
<1>8. Passing(r, d, u, m + n) BY <1>5, <1>6 DEF Passing
<1>a. ASSUME NEW k \in 0 .. (m + n) PROVE r[k] \in X \cup Y
  <2>1. CASE k <= m
    <3>1. k \in 0 .. m BY <1>1, <2>1
    <3> QED BY <1>2, <1>4, <2>1, <3>1
  <2>2. CASE ~ (k <= m)
    <3>1. k - m \in 0 .. n BY <1>1, <2>2
    <3> QED BY <1>3, <1>4, <2>2, <3>1
  <2> QED BY <2>1, <2>2
<1>9. Within(d, u, g, X \cup Y) BY <1>1, <1>7, <1>8, <1>a DEF Within
<1> QED BY <1>9 DEF u

\* Calls lead to one directory.
LEMMA WithinUnique ==
  ASSUME NEW d, NEW s, IsSeq(s), NEW e, NEW g, NEW X, NEW Y, Within(d, s, e, X), Within(d, s, g, Y)
  PROVE  e = g
<1> DEFINE n == Len(s)
<1>0. n \in Nat BY LenProperties DEF IsSeq
<1>1. PICK f : Passing(f, d, s, n) /\ f[n] = e BY DEF Within
<1>2. PICK h : Passing(h, d, s, n) /\ h[n] = g BY DEF Within
<1> HIDE DEF n
<1> DEFINE S == {k \in 0 .. n : f[k] # h[k]}
<1>3. S = {}
  <2> SUFFICES ASSUME S # {} PROVE FALSE OBVIOUS
  <2>1. PICK k \in S : \A j \in S : k <= j
    <3>1. S \in SUBSET Nat OBVIOUS
    <3> HIDE DEF S
    <3> QED BY <3>1, LeastExists
  <2>2. k \in 0 .. n /\ f[k] # h[k] OBVIOUS
  <2>3. k # 0 BY <1>1, <1>2, <2>2 DEF Passing
  <2>4. k \in 1 .. n /\ k - 1 \in 0 .. n /\ ~ (k <= k - 1) BY <1>0, <2>2, <2>3
  <2>5. f[k - 1] = h[k - 1] BY <2>1, <2>4
  <2>6. f[k] = Done(f[k - 1], s[k]) /\ h[k] = Done(h[k - 1], s[k]) BY <1>1, <1>2, <2>4 DEF Passing
  <2> QED BY <2>2, <2>5, <2>6
<1>4. n \in 0 .. n BY <1>0
<1> QED BY <1>1, <1>2, <1>3, <1>4

\* The same for sound directories.
LEMMA ReachesNone ==
  ASSUME NEW d, NEW e
  PROVE  Reaches(d, <<>>, e) <=> e = d /\ Sound(d)
<1>1. ASSUME Reaches(d, <<>>, e) PROVE e = d /\ Sound(d) BY <1>1, WithinNone DEF Reaches
<1>2. ASSUME e = d, Sound(d) PROVE Reaches(d, <<>>, e)
  <2>1. Within(d, <<>>, e, {d}) BY <1>2, WithinNone
  <2> QED BY <1>2, <2>1 DEF Reaches
<1> QED BY <1>1, <1>2

LEMMA ReachesOne ==
  ASSUME NEW d, Sound(d), NEW c, Sound(Done(d, c))
  PROVE  Reaches(d, <<c>>, Done(d, c))
<1>1. Within(d, <<c>>, Done(d, c), {d, Done(d, c)}) BY WithinOne
<1>2. \A x \in {d, Done(d, c)} : Sound(x) OBVIOUS
<1> QED BY <1>1, <1>2 DEF Reaches

LEMMA ReachesRest ==
  ASSUME NEW d, NEW s, IsSeq(s), s # <<>>, NEW e, Reaches(d, s, e)
  PROVE  Reaches(Done(d, Head(s)), Tail(s), e) /\ Sound(Done(d, Head(s)))
<1>1. PICK X : Within(d, s, e, X) /\ \A x \in X : Sound(x) BY DEF Reaches
<1>2. Within(Done(d, Head(s)), Tail(s), e, X) /\ Done(d, Head(s)) \in X BY <1>1, WithinRest
<1> QED BY <1>1, <1>2 DEF Reaches

LEMMA ReachesJoined ==
  ASSUME NEW d, NEW s, NEW e, NEW t, NEW g, IsSeq(s), IsSeq(t), Reaches(d, s, e), Reaches(e, t, g)
  PROVE  Reaches(d, s \o t, g)
<1>1. PICK X : Within(d, s, e, X) /\ \A x \in X : Sound(x) BY DEF Reaches
<1>2. PICK Y : Within(e, t, g, Y) /\ \A x \in Y : Sound(x) BY DEF Reaches
<1>3. Within(d, s \o t, g, X \cup Y) BY <1>1, <1>2, WithinJoined
<1>4. \A x \in X \cup Y : Sound(x) BY <1>1, <1>2
<1> QED BY <1>3, <1>4 DEF Reaches

-----------------------------------------------------------------------------
(***************************************************************************)
(* Calls that write no record: they only remove segments.                  *)
(***************************************************************************)
TidyCall(c) ==
  /\ c.do \in {"syncFile", "syncDir", "unlink", "metadata", "snapshot", "removeSnapshot", "return"}
  /\ c.do = "metadata" => IsMetadata(c.arg)

Gone(c) == IF c.do = "unlink" THEN {c.id} ELSE {}

\* e has the segments of d without those in G, with the same records.
Trims(d, e, G) ==
  /\ Listed(e.files) = Listed(d.files) \ G
  /\ \A id \in Listed(e.files) : e.files[id].body = d.files[id].body

LEMMA TrimsTwice ==
  ASSUME NEW d, NEW e, NEW g, NEW G, NEW H, Trims(d, e, G), Trims(e, g, H)
  PROVE  Trims(d, g, G \cup H)
BY DEF Trims

LEMMA FileSyncedIs ==
  ASSUME NEW f, IsFile(f)
  PROVE  /\ IsFile(FileSynced(f)) /\ FileSynced(f).body = f.body /\ FileSynced(f).name = f.name
         /\ FileSynced(f).header = "durable"
<1> DEFINE g == FileSynced(f)
<1>1. /\ DOMAIN g = DOMAIN f /\ g.body = f.body /\ g.name = f.name /\ g.header = "durable"
      /\ g.synced = Len(f.body) /\ g.torn = f.torn
  BY DEF FileSynced, IsFile
<1>2. Len(f.body) \in Nat BY LenProperties DEF IsFile, IsSeq
<1>3. Len(f.body) \in 0 .. Len(f.body) BY <1>2
<1> HIDE DEF g
<1>4. IsFile(g) BY <1>1, <1>3 DEF IsFile
<1> QED BY <1>1, <1>4 DEF g

\* Other files for a sound directory.
Filled(files) ==
  /\ IsFiniteSet(DOMAIN files) /\ DOMAIN files \subseteq Nat
  /\ \A id \in DOMAIN files : IsFile(files[id]) /\ files[id].header # "missing"

LEMMA RefilledIsSound ==
  ASSUME NEW d, Sound(d), NEW files, Filled(files)
  PROVE  LET e == [d EXCEPT !.files = files]
         IN Sound(e) /\ e.files = files /\ e.metadata = d.metadata
<1> DEFINE e == [d EXCEPT !.files = files]
<1>1. e.files = files /\ e.metadata = d.metadata /\ DOMAIN e = DOMAIN d BY DEF Sound, Whole
<1> HIDE DEF e
<1>2. Sound(e) BY <1>1 DEF Sound, Whole, Filled
<1> QED BY <1>1, <1>2 DEF e

LEMMA DirectorySyncedIs ==
  ASSUME NEW d, Sound(d)
  PROVE  LET files == DirectorySynced(d.files)
         IN /\ Filled(files) /\ DOMAIN files = Listed(d.files) /\ Listed(files) = Listed(d.files)
            /\ \A id \in Listed(d.files) : files[id].body = d.files[id].body
<1> DEFINE files == DirectorySynced(d.files)
<1>1. DOMAIN files = Listed(d.files) BY DEF DirectorySynced
<1>2. \A id \in Listed(d.files) : files[id] = [d.files[id] EXCEPT !.name = "durable"]
  BY DEF DirectorySynced
<1>3. Listed(d.files) \subseteq DOMAIN d.files BY DEF Listed
<1> HIDE DEF files
<1>4. ASSUME NEW id \in Listed(d.files)
      PROVE  /\ IsFile(files[id]) /\ files[id].header # "missing" /\ files[id].name = "durable"
             /\ files[id].body = d.files[id].body
  <2> DEFINE f == d.files[id]
             g == files[id]
  <2>1. IsFile(f) /\ f.header # "missing" BY <1>3 DEF Sound, Whole
  <2>2. g = [f EXCEPT !.name = "durable"] BY <1>2
  <2> HIDE DEF f, g
  <2>3. /\ DOMAIN g = DOMAIN f /\ g.body = f.body /\ g.synced = f.synced /\ g.header = f.header
        /\ g.torn = f.torn /\ g.name = "durable"
    BY <2>1, <2>2 DEF IsFile
  <2>4. IsFile(g) BY <2>1, <2>3 DEF IsFile
  <2> QED BY <2>1, <2>3, <2>4 DEF f, g
<1>5. Listed(files) = Listed(d.files)
  <2>1. "durable" # "unlinked" OBVIOUS
  <2> QED BY <1>1, <1>4, <2>1 DEF Listed
<1>6. IsFiniteSet(DOMAIN files) /\ DOMAIN files \subseteq Nat
  BY <1>1, <1>3, FS_Subset DEF Sound, Whole
<1>7. Filled(files) BY <1>1, <1>4, <1>6 DEF Filled
<1> QED BY <1>1, <1>4, <1>5, <1>7 DEF files

\* One file of a sound directory is changed, if it is there.
LEMMA ChangedIsFilled ==
  ASSUME NEW d, Sound(d), NEW id, NEW g, id \in DOMAIN d.files => IsFile(g) /\ g.header # "missing"
  PROVE  LET files == [d.files EXCEPT ![id] = g]
         IN /\ Filled(files) /\ DOMAIN files = DOMAIN d.files
            /\ id \in DOMAIN d.files => files[id] = g
            /\ \A j \in DOMAIN d.files : j # id => files[j] = d.files[j]
<1> DEFINE files == [d.files EXCEPT ![id] = g]
<1>1. /\ DOMAIN files = DOMAIN d.files
      /\ id \in DOMAIN d.files => files[id] = g
      /\ \A j \in DOMAIN d.files : j # id => files[j] = d.files[j]
  OBVIOUS
<1> HIDE DEF files
<1>2. Filled(files) BY <1>1 DEF Filled, Sound, Whole
<1> QED BY <1>1, <1>2 DEF files

LEMMA SoundIsFilled ==
  ASSUME NEW d, Sound(d) PROVE Filled(d.files)
BY DEF Sound, Whole, Filled

\* One such call.
LEMMA TidyCallTrims ==
  ASSUME NEW d, Sound(d), NEW c, TidyCall(c)
  PROVE  Sound(Done(d, c)) /\ Trims(d, Done(d, c), Gone(c))
<1> DEFINE synced == DirectorySynced(d.files)
<1>1. CASE c.do = "syncFile"
  <2> DEFINE g == FileSynced(d.files[c.id])
             files == [d.files EXCEPT ![c.id] = g]
  <2>1. Done(d, c) = [d EXCEPT !.files = files] BY <1>1 DEF Done
  <2>2. c.id \in DOMAIN d.files =>
          IsFile(g) /\ g.header # "missing" /\ g.name = d.files[c.id].name /\ g.body = d.files[c.id].body
    BY FileSyncedIs DEF Sound, Whole
  <2> HIDE DEF g
  <2>3. /\ Filled(files) /\ DOMAIN files = DOMAIN d.files
        /\ c.id \in DOMAIN d.files => files[c.id] = g
        /\ \A j \in DOMAIN d.files : j # c.id => files[j] = d.files[j]
    BY <2>2, ChangedIsFilled
  <2> HIDE DEF files
  <2>4. Sound(Done(d, c)) /\ Done(d, c).files = files BY <2>1, <2>3, RefilledIsSound
  <2>5. \A j \in DOMAIN d.files : files[j].name = d.files[j].name /\ files[j].body = d.files[j].body
    BY <2>2, <2>3
  <2>6. Listed(files) = Listed(d.files) BY <2>3, <2>5 DEF Listed
  <2>7. Gone(c) = {} BY <1>1 DEF Gone
  <2> QED BY <2>4, <2>5, <2>6, <2>7 DEF Trims, Listed
<1>2. CASE c.do = "unlink"
  <2> DEFINE g == [d.files[c.id] EXCEPT !.name = "unlinked"]
             files == [d.files EXCEPT ![c.id] = g]
  <2>1. Done(d, c) = [d EXCEPT !.files = files] BY <1>2 DEF Done
  <2>2. ASSUME c.id \in DOMAIN d.files
        PROVE  IsFile(g) /\ g.header # "missing" /\ g.name = "unlinked"
    <3> DEFINE f == d.files[c.id]
    <3>1. IsFile(f) /\ f.header # "missing" BY <2>2 DEF Sound, Whole
    <3> HIDE DEF f
    <3>2. /\ DOMAIN g = DOMAIN f /\ g.body = f.body /\ g.synced = f.synced /\ g.header = f.header
          /\ g.torn = f.torn /\ g.name = "unlinked"
      BY <3>1 DEF IsFile, f
    <3> HIDE DEF g
    <3> QED BY <3>1, <3>2 DEF IsFile
  <2> HIDE DEF g
  <2>3. /\ Filled(files) /\ DOMAIN files = DOMAIN d.files
        /\ c.id \in DOMAIN d.files => files[c.id] = g
        /\ \A j \in DOMAIN d.files : j # c.id => files[j] = d.files[j]
    BY <2>2, ChangedIsFilled
  <2> HIDE DEF files
  <2>4. Sound(Done(d, c)) /\ Done(d, c).files = files BY <2>1, <2>3, RefilledIsSound
  <2>5. Listed(files) = Listed(d.files) \ {c.id} BY <2>2, <2>3 DEF Listed
  <2>6. \A j \in Listed(files) : files[j].body = d.files[j].body BY <2>3, <2>5 DEF Listed
  <2>7. Gone(c) = {c.id} BY <1>2 DEF Gone
  <2> QED BY <2>4, <2>5, <2>6, <2>7 DEF Trims
<1>3. CASE c.do = "return"
  <2>1. Done(d, c) = d /\ Gone(c) = {} BY <1>3 DEF Done, Gone
  <2> QED BY <2>1 DEF Trims
<1>4. CASE c.do \in {"syncDir", "metadata", "snapshot", "removeSnapshot"}
  <2>1. /\ Filled(synced) /\ Listed(synced) = Listed(d.files)
        /\ \A id \in Listed(d.files) : synced[id].body = d.files[id].body
    BY DirectorySyncedIs
  <2> HIDE DEF synced
  <2> DEFINE e == [d EXCEPT !.files = synced]
  <2>2. Sound(e) /\ e.files = synced BY <2>1, RefilledIsSound
  <2>3. CASE c.do = "syncDir"
    <3>1. Done(d, c) = e BY <2>3 DEF Done, synced
    <3>2. Gone(c) = {} BY <2>3 DEF Gone
    <3> QED BY <2>1, <2>2, <3>1, <3>2 DEF Trims
  <2>4. CASE c.do = "metadata"
    <3>1. Done(d, c) = [e EXCEPT !.metadata = c.arg] BY <2>4 DEF Done, synced
    <3> HIDE DEF e
    <3>2. Gone(c) = {} /\ IsMetadata(c.arg) BY <2>4 DEF Gone, TidyCall
    <3>3. /\ Done(d, c).files = synced /\ Done(d, c).metadata = c.arg /\ DOMAIN Done(d, c) = DOMAIN e
      BY <2>2, <3>1 DEF Sound, Whole
    <3>4. Sound(Done(d, c)) BY <2>2, <3>2, <3>3 DEF Sound, Whole
    <3> QED BY <2>1, <3>2, <3>3, <3>4 DEF Trims
  <2>5. CASE c.do = "snapshot"
    <3>1. Done(d, c) = [e EXCEPT !.snapshots = @ \cup {c.arg}] BY <2>5 DEF Done, synced
    <3> HIDE DEF e
    <3>2. Gone(c) = {} BY <2>5 DEF Gone
    <3>3. /\ Done(d, c).files = synced /\ Done(d, c).metadata = e.metadata /\ DOMAIN Done(d, c) = DOMAIN e
      BY <2>2, <3>1 DEF Sound, Whole
    <3>4. Sound(Done(d, c)) BY <2>2, <3>2, <3>3 DEF Sound, Whole
    <3> QED BY <2>1, <3>2, <3>3, <3>4 DEF Trims
  <2>6. CASE c.do = "removeSnapshot"
    <3>1. Done(d, c) = [e EXCEPT !.snapshots = @ \ {c.arg}] BY <2>6 DEF Done, synced
    <3> HIDE DEF e
    <3>2. Gone(c) = {} BY <2>6 DEF Gone
    <3>3. /\ Done(d, c).files = synced /\ Done(d, c).metadata = e.metadata /\ DOMAIN Done(d, c) = DOMAIN e
      BY <2>2, <3>1 DEF Sound, Whole
    <3>4. Sound(Done(d, c)) BY <2>2, <3>2, <3>3 DEF Sound, Whole
    <3> QED BY <2>1, <3>2, <3>3, <3>4 DEF Trims
  <2> QED BY <1>4, <2>3, <2>4, <2>5, <2>6
<1> QED BY <1>1, <1>2, <1>3, <1>4 DEF TidyCall

\* A list of them.
Tidy(s) == IsSeq(s) /\ \A i \in 1 .. Len(s) : TidyCall(s[i])

RemovedUpTo(s, k) == UNION {Gone(s[i]) : i \in 1 .. k}
Removed(s) == RemovedUpTo(s, Len(s))

LEMMA TidyRun ==
  ASSUME NEW d, Sound(d), NEW s, Tidy(s)
  PROVE  \E e : Reaches(d, s, e) /\ Sound(e) /\ Trims(d, e, Removed(s))
<1> DEFINE n == Len(s)
<1>0. n \in Nat BY LenProperties DEF Tidy, IsSeq
<1>1. PICK f : Passing(f, d, s, n) BY PathExists DEF Tidy
<1> HIDE DEF n
<1> DEFINE P(k) == Sound(f[k]) /\ Trims(d, f[k], RemovedUpTo(s, k))
           S == {k \in 0 .. n : ~ P(k)}
<1>2. S = {}
  <2> SUFFICES ASSUME S # {} PROVE FALSE OBVIOUS
  <2>1. PICK k \in S : \A j \in S : k <= j
    <3>1. S \in SUBSET Nat OBVIOUS
    <3> HIDE DEF S
    <3> QED BY <3>1, LeastExists
  <2>2. k \in 0 .. n /\ ~ P(k) OBVIOUS
  <2>3. k # 0
    <3>1. f[0] = d BY <1>1 DEF Passing
    <3>2. RemovedUpTo(s, 0) = {}
      <4>1. 1 .. 0 = {} OBVIOUS
      <4> QED BY <4>1 DEF RemovedUpTo
    <3>3. P(0) BY <3>1, <3>2 DEF Trims
    <3> QED BY <2>2, <3>3
  <2>4. k \in 1 .. n /\ k - 1 \in 0 .. n /\ ~ (k <= k - 1) BY <1>0, <2>2, <2>3
  <2>5. P(k - 1) BY <2>1, <2>4
  <2>6. f[k] = Done(f[k - 1], s[k]) BY <1>1, <2>4 DEF Passing
  <2>7. TidyCall(s[k]) BY <2>4 DEF Tidy, n
  <2> DEFINE G == RemovedUpTo(s, k - 1)
  <2>8. Sound(f[k]) /\ Trims(f[k - 1], f[k], Gone(s[k])) BY <2>5, <2>6, <2>7, TidyCallTrims
  <2>9. Trims(d, f[k], G \cup Gone(s[k])) BY <2>5, <2>8, TrimsTwice
  <2>10. RemovedUpTo(s, k) = G \cup Gone(s[k])
    <3>1. 1 .. k = (1 .. (k - 1)) \cup {k} BY <1>0, <2>4
    <3> QED BY <3>1 DEF RemovedUpTo
  <2>11. P(k) BY <2>8, <2>9, <2>10
  <2> QED BY <2>2, <2>11
<1>3. \A k \in 0 .. n : P(k) BY <1>2
<1>4. n \in 0 .. n BY <1>0
<1>5. Reaches(d, s, f[n])
  <2> DEFINE X == {f[k] : k \in 0 .. n}
  <2>1. (\A k \in 0 .. n : f[k] \in X) /\ \A x \in X : Sound(x) BY <1>3
  <2> HIDE DEF X
  <2>2. Within(d, s, f[n], X) BY <1>1, <2>1 DEF Within, n
  <2> QED BY <2>1, <2>2 DEF Reaches
<1>6. Sound(f[n]) /\ Trims(d, f[n], Removed(s)) BY <1>3, <1>4 DEF Removed, n
<1> QED BY <1>5, <1>6

LEMMA TidyNone == Tidy(<<>>) /\ Removed(<<>>) = {}
<1>1. <<>> \in Seq({}) /\ Len(<<>>) = 0 /\ 1 .. 0 = {} OBVIOUS
<1> QED BY <1>1 DEF Tidy, Removed, RemovedUpTo, IsSeq

LEMMA TidyOne ==
  ASSUME NEW c, TidyCall(c) PROVE Tidy(<<c>>) /\ Removed(<<c>>) = Gone(c)
<1> DEFINE s == <<c>>
<1>1. s \in Seq({c}) /\ Len(s) = 1 /\ s[1] = c /\ 1 .. 1 = {1} OBVIOUS
<1> HIDE DEF s
<1>2. Tidy(s) BY <1>1 DEF Tidy, IsSeq
<1>3. Removed(s) = Gone(c) BY <1>1 DEF Removed, RemovedUpTo
<1> QED BY <1>2, <1>3 DEF s

LEMMA TidyJoined ==
  ASSUME NEW s, NEW t, Tidy(s), Tidy(t)
  PROVE  Tidy(s \o t) /\ Removed(s \o t) = Removed(s) \cup Removed(t)
<1> DEFINE u == s \o t
           m == Len(s)
           n == Len(t)
<1>1. /\ IsSeq(u) /\ m \in Nat /\ n \in Nat /\ Len(u) = m + n
      /\ \A i \in 1 .. m : u[i] = s[i]
      /\ \A i \in (m + 1) .. (m + n) : u[i] = t[i - m]
  BY Joined DEF Tidy
<1> HIDE DEF u, m, n
<1>2. ASSUME NEW i \in 1 .. (m + n)
      PROVE  \/ i \in 1 .. m /\ u[i] = s[i]
             \/ i - m \in 1 .. n /\ u[i] = t[i - m]
  <2>1. CASE i <= m
    <3>1. i \in 1 .. m BY <1>1, <2>1
    <3> QED BY <1>1, <3>1
  <2>2. CASE ~ (i <= m)
    <3>1. i \in (m + 1) .. (m + n) /\ i - m \in 1 .. n BY <1>1, <2>2
    <3> QED BY <1>1, <3>1
  <2> QED BY <2>1, <2>2
<1>3. \A i \in 1 .. (m + n) : TidyCall(u[i]) BY <1>2 DEF Tidy, m, n
<1>4. Tidy(u) BY <1>1, <1>3 DEF Tidy
<1>5. \A i \in 1 .. m : i \in 1 .. (m + n) /\ u[i] = s[i] BY <1>1
<1>6. ASSUME NEW i \in 1 .. n PROVE i + m \in 1 .. (m + n) /\ u[i + m] = t[i]
  <2>1. i + m \in (m + 1) .. (m + n) /\ (i + m) - m = i /\ i + m \in 1 .. (m + n) BY <1>1
  <2> QED BY <1>1, <2>1
<1> DEFINE A == {Gone(s[i]) : i \in 1 .. m}
           B == {Gone(t[i]) : i \in 1 .. n}
           C == {Gone(u[i]) : i \in 1 .. (m + n)}
<1>7. C \subseteq A \cup B BY <1>2
<1>8. A \subseteq C /\ B \subseteq C BY <1>5, <1>6
<1>9. Removed(s) = UNION A /\ Removed(t) = UNION B /\ Removed(u) = UNION C
  BY <1>1 DEF Removed, RemovedUpTo, m, n
<1> HIDE DEF A, B, C
<1>10. Removed(u) = Removed(s) \cup Removed(t) BY <1>7, <1>8, <1>9
<1> QED BY <1>4, <1>10 DEF u

\* The largest of a finite set of numbers.
LEMMA MaxIs ==
  ASSUME NEW S, IsFiniteSet(S), S \subseteq Nat, S # {}
  PROVE  Max(S) \in S /\ \A x \in S : x <= Max(S)
<1> DEFINE R == {p \in S \X S : p[1] < p[2]}
           n == Cardinality(S)
           f == InOrder(S, R)
<1>1. \A x, y \in S : <<x, y>> \in R <=> x < y OBVIOUS
<1> HIDE DEF R
<1>2. StrictOrder(S, R) BY <1>1 DEF StrictOrder
<1>3. /\ n \in Nat
      /\ \A i \in 1 .. n : f[i] \in S
      /\ \A x \in S : \E i \in 1 .. n : f[i] = x
      /\ \A i, j \in 1 .. n : i < j => <<f[i], f[j]>> \in R
  BY <1>2, InOrderLists
<1> HIDE DEF f, n
<1>4. n \in 1 .. n
  <2>1. PICK x \in S : TRUE OBVIOUS
  <2>2. PICK i \in 1 .. n : f[i] = x BY <1>3, <2>1
  <2> QED BY <1>3, <2>2
<1>5. f[n] \in S BY <1>3, <1>4
<1>6. ASSUME NEW x \in S PROVE f[n] >= x
  <2>1. PICK i \in 1 .. n : f[i] = x BY <1>3
  <2>2. CASE i = n BY <1>5, <2>1, <2>2
  <2>3. CASE i # n
    <3>1. i < n BY <1>3, <2>1, <2>3
    <3>2. x < f[n] BY <1>1, <1>3, <1>4, <1>5, <2>1, <3>1
    <3>3. x \in Nat /\ f[n] \in Nat BY <1>5
    <3> HIDE DEF R
    <3> QED BY <3>2, <3>3
  <2> QED BY <2>2, <2>3
<1>7. \E m \in S : \A x \in S : m >= x BY <1>5, <1>6
<1>8. Max(S) \in S /\ \A x \in S : Max(S) >= x BY <1>7 DEF Max
<1> QED BY <1>8

LEMMA SyncAllTidy ==
  ASSUME NEW w, IsFiniteSet(w.segs)
  PROVE  Tidy(SyncAll(w)) /\ Removed(SyncAll(w)) = {}
<1> DEFINE ids == Ascending(w.segs)
           n == Cardinality(w.segs)
           files == [i \in DOMAIN ids |-> SyncFile(ids[i])]
           dir == IF w.dirDirty THEN <<SyncDir>> ELSE <<>>
<1>1. n \in Nat /\ DOMAIN ids = 1 .. n BY AscendingIsSeq
<1>2. DOMAIN files = 1 .. n /\ files = [i \in 1 .. n |-> files[i]] BY <1>1
<1>3. \A i \in 1 .. n : files[i] = SyncFile(ids[i]) BY <1>1
<1> HIDE DEF files, ids, n
<1>4. IsSeq(files) /\ Len(files) = n BY <1>1, <1>2, ListIsSeq
<1>5. \A id : TidyCall(SyncFile(id)) /\ Gone(SyncFile(id)) = {} BY DEF TidyCall, Gone, SyncFile, Call
<1>6. TidyCall(SyncDir) /\ Gone(SyncDir) = {} BY DEF TidyCall, Gone, SyncDir, Call
<1>7. Tidy(files) BY <1>3, <1>4, <1>5 DEF Tidy
<1>8. Removed(files) = {} BY <1>3, <1>4, <1>5 DEF Removed, RemovedUpTo
<1>9. Tidy(dir) /\ Removed(dir) = {} BY <1>6, TidyNone, TidyOne
<1> HIDE DEF dir
<1>10. Tidy(files \o dir) /\ Removed(files \o dir) = {} BY <1>7, <1>8, <1>9, TidyJoined
<1>11. SyncAll(w) = files \o dir BY DEF SyncAll, files, dir, ids
<1> QED BY <1>10, <1>11

\* A list of removals.
LEMMA UnlinksTidy ==
  ASSUME NEW n \in Nat, NEW f
  PROVE  LET u == [i \in 1 .. n |-> Unlink(f[i])]
         IN Tidy(u) /\ Removed(u) = {f[i] : i \in 1 .. n}
<1> DEFINE u == [i \in 1 .. n |-> Unlink(f[i])]
           ids == {f[i] : i \in 1 .. n}
<1>1. DOMAIN u = 1 .. n /\ u = [i \in 1 .. n |-> u[i]] /\ \A i \in 1 .. n : u[i] = Unlink(f[i]) OBVIOUS
<1> HIDE DEF u
<1>2. IsSeq(u) /\ Len(u) = n BY <1>1, ListIsSeq
<1>3. \A id : TidyCall(Unlink(id)) /\ Gone(Unlink(id)) = {id} BY DEF TidyCall, Gone, Unlink, Call
<1>4. Tidy(u) BY <1>1, <1>2, <1>3 DEF Tidy
<1>5. \A i \in 1 .. n : Gone(u[i]) = {f[i]} BY <1>1, <1>3
<1>6. Removed(u) = UNION {Gone(u[i]) : i \in 1 .. n} BY <1>2 DEF Removed, RemovedUpTo
<1>7. ASSUME NEW x \in Removed(u) PROVE x \in ids
  <2>1. PICK i \in 1 .. n : x \in Gone(u[i]) BY <1>6
  <2> QED BY <1>5, <2>1
<1>8. ASSUME NEW x \in ids PROVE x \in Removed(u)
  <2>1. PICK i \in 1 .. n : f[i] = x OBVIOUS
  <2>2. x \in Gone(u[i]) BY <1>5, <2>1
  <2> QED BY <1>6, <2>2
<1> HIDE DEF ids
<1>9. Removed(u) = ids BY <1>7, <1>8
<1> QED BY <1>4, <1>9 DEF u, ids

LEMMA UnlinkBeforeTidy ==
  ASSUME NEW ids, IsFiniteSet(ids), ids \subseteq Nat, NEW seg
  PROVE  Tidy(UnlinkBefore(ids, seg)) /\ Removed(UnlinkBefore(ids, seg)) = {id \in ids : id < seg}
<1> DEFINE gone == {id \in ids : id < seg}
           f == Ascending(gone)
           n == Cardinality(gone)
<1>0. UnlinkBefore(ids, seg) = [i \in DOMAIN f |-> Unlink(f[i])] BY DEF UnlinkBefore
<1>1. gone \subseteq ids OBVIOUS
<1> HIDE DEF gone
<1>2. IsFiniteSet(gone) /\ gone \subseteq Nat BY <1>1, FS_Subset
<1>3. /\ n \in Nat /\ DOMAIN f = 1 .. n
      /\ \A i \in 1 .. n : f[i] \in gone
      /\ \A x \in gone : \E i \in 1 .. n : f[i] = x
  BY <1>2, AscendingLists
<1> HIDE DEF f, n
<1> DEFINE u == [i \in 1 .. n |-> Unlink(f[i])]
<1>4. UnlinkBefore(ids, seg) = u BY <1>0, <1>3
<1>5. Tidy(u) /\ Removed(u) = {f[i] : i \in 1 .. n}
  <2>1. n \in Nat BY <1>3
  <2> QED BY <2>1, UnlinksTidy
<1> HIDE DEF u
<1>6. {f[i] : i \in 1 .. n} = gone BY <1>3
<1>7. Tidy(u) /\ Removed(u) = gone BY <1>5, <1>6
<1> QED BY <1>4, <1>7 DEF gone

LEMMA UnlinkAfterTidy ==
  ASSUME NEW ids, IsFiniteSet(ids), ids \subseteq Nat, NEW seg
  PROVE  Tidy(UnlinkAfter(ids, seg)) /\ Removed(UnlinkAfter(ids, seg)) = {id \in ids : id > seg}
<1> DEFINE gone == {id \in ids : id > seg}
           f == Ascending(gone)
           g == Reverse(f)
           n == Cardinality(gone)
<1>0. UnlinkAfter(ids, seg) = [i \in DOMAIN g |-> Unlink(g[i])] BY DEF UnlinkAfter
<1>1. gone \subseteq ids OBVIOUS
<1> HIDE DEF gone
<1>2. IsFiniteSet(gone) /\ gone \subseteq Nat BY <1>1, FS_Subset
<1>3. /\ n \in Nat /\ Len(f) = n
      /\ \A i \in 1 .. n : f[i] \in gone
      /\ \A x \in gone : \E i \in 1 .. n : f[i] = x
  BY <1>2, AscendingLists
<1> HIDE DEF f, n
<1>4. DOMAIN g = 1 .. n /\ \A i \in 1 .. n : g[i] = f[(n - i) + 1] BY <1>3 DEF Reverse
<1> HIDE DEF g
<1>5. \A i \in 1 .. n : (n - i) + 1 \in 1 .. n /\ (n - ((n - i) + 1)) + 1 = i BY <1>3
<1>6. \A i \in 1 .. n : g[i] \in gone BY <1>3, <1>4, <1>5
<1>7. ASSUME NEW x \in gone PROVE \E i \in 1 .. n : g[i] = x
  <2>1. PICK i \in 1 .. n : f[i] = x BY <1>3
  <2>2. g[(n - i) + 1] = x BY <1>4, <1>5, <2>1
  <2> QED BY <1>5, <2>2
<1> DEFINE u == [i \in 1 .. n |-> Unlink(g[i])]
<1>8. UnlinkAfter(ids, seg) = u BY <1>0, <1>4
<1>9. Tidy(u) /\ Removed(u) = {g[i] : i \in 1 .. n}
  <2>1. n \in Nat BY <1>3
  <2> QED BY <2>1, UnlinksTidy
<1> HIDE DEF u
<1>10. {g[i] : i \in 1 .. n} = gone BY <1>6, <1>7
<1>11. Tidy(u) /\ Removed(u) = gone BY <1>9, <1>10
<1> QED BY <1>8, <1>11 DEF gone

\* A save of metadata.
LEMMA SaveTidy ==
  ASSUME NEW w, NEW first \in Nat, w.snap \in Nat, w.snap < first, NEW seg
  PROVE  LET s == <<SaveMetadata(MetadataOf(w, first, seg))>>
         IN Tidy(s) /\ Removed(s) = {}
<1> DEFINE m == MetadataOf(w, first, seg)
           c == SaveMetadata(m)
<1>1. IsMetadata(m) BY DEF IsMetadata, MetadataOf
<1> HIDE DEF m
<1>2. TidyCall(c) /\ Gone(c) = {} BY <1>1 DEF TidyCall, Gone, SaveMetadata, Call
<1> HIDE DEF c
<1>3. Tidy(<<c>>) /\ Removed(<<c>>) = {} BY <1>2, TidyOne
<1> QED BY <1>3 DEF c, m

LEMMA PersistTidy ==
  ASSUME NEW w, NEW first \in Nat, w.snap \in Nat, w.snap < first
  PROVE  Tidy(Persist(w, first)) /\ Removed(Persist(w, first)) = {}
BY SaveTidy DEF Persist

LEMMA SnapshotsTidy ==
  ASSUME NEW index
  PROVE  /\ Tidy(<<SaveSnapshot(index)>>) /\ Removed(<<SaveSnapshot(index)>>) = {}
         /\ Tidy(RemoveOldSnapshot) /\ Removed(RemoveOldSnapshot) = {}
<1>1. \A i : /\ TidyCall(SaveSnapshot(i)) /\ Gone(SaveSnapshot(i)) = {}
             /\ TidyCall(RemoveSnapshot(i)) /\ Gone(RemoveSnapshot(i)) = {}
  BY DEF TidyCall, Gone, SaveSnapshot, RemoveSnapshot, Call
<1>2. Tidy(<<SaveSnapshot(index)>>) /\ Removed(<<SaveSnapshot(index)>>) = {} BY <1>1, TidyOne
<1>3. \A i : Tidy(<<RemoveSnapshot(i)>>) /\ Removed(<<RemoveSnapshot(i)>>) = {} BY <1>1, TidyOne
<1>4. Tidy(RemoveOldSnapshot) /\ Removed(RemoveOldSnapshot) = {}
  BY <1>3, TidyNone DEF RemoveOldSnapshot
<1> QED BY <1>2, <1>4

-----------------------------------------------------------------------------
(***************************************************************************)
(* Calls that change the records of one segment.                           *)
(***************************************************************************)
\* e has segment id with the given records, and otherwise the segments of d.
Alters(d, e, id, body) ==
  /\ Listed(e.files) = Listed(d.files) \cup {id}
  /\ e.files[id].body = body
  /\ \A j \in Listed(d.files) : j # id => e.files[j].body = d.files[j].body

\* A file with other records.
LEMMA RewrittenIs ==
  ASSUME NEW f, IsFile(f), f.header # "missing", NEW b, IsSeq(b), \A p \in 1 .. Len(b) : IsRecord(b[p]),
         Len(f.body) <= Len(b)
  PROVE  LET g == [f EXCEPT !.body = b]
         IN IsFile(g) /\ g.body = b /\ g.name = f.name /\ g.header # "missing"
<1> DEFINE g == [f EXCEPT !.body = b]
<1>1. /\ DOMAIN g = DOMAIN f /\ g.body = b /\ g.name = f.name /\ g.header = f.header
      /\ g.synced = f.synced /\ g.torn = f.torn
  BY DEF IsFile
<1>2. Len(f.body) \in Nat /\ Len(b) \in Nat BY LenProperties DEF IsFile, IsSeq
<1>3. f.synced \in 0 .. Len(b) BY <1>2 DEF IsFile
<1> HIDE DEF g
<1>4. IsFile(g) BY <1>1, <1>3 DEF IsFile
<1> QED BY <1>1, <1>4 DEF g

LEMMA WriteAlters ==
  ASSUME NEW d, Sound(d), NEW id \in Listed(d.files), NEW r, IsRecord(r)
  PROVE  LET e == Done(d, Write(id, r))
         IN Sound(e) /\ Alters(d, e, id, Append(d.files[id].body, r))
<1> DEFINE c == Write(id, r)
           f == d.files[id]
           b == Append(f.body, r)
           g == [f EXCEPT !.body = b]
           files == [d.files EXCEPT ![id] = g]
           e == Done(d, c)
<1>0. id \in DOMAIN d.files BY DEF Listed
<1>1. c.do = "write" /\ c.id = id /\ c.arg = r BY DEF Write, Call
<1>2. e = [d EXCEPT !.files = files]
  <2> HIDE DEF c
  <2>1. Done(d, c) = [d EXCEPT !.files[c.id].body = Append(@, c.arg)] BY <1>1 DEF Done
  <2>2. [d EXCEPT !.files[c.id].body = Append(@, c.arg)] = [d EXCEPT !.files = files] BY <1>1
  <2> QED BY <2>1, <2>2
<1>3. IsFile(f) /\ f.header # "missing" BY <1>0 DEF Sound, Whole
<1>4. PICK S : f.body \in Seq(S) BY <1>3 DEF IsFile, IsSeq
<1> HIDE DEF f
<1>5. f.body \in Seq(S \cup {r}) BY <1>4
<1>6. /\ b \in Seq(S \cup {r}) /\ Len(b) = Len(f.body) + 1 /\ Len(f.body) \in Nat
      /\ b[Len(f.body) + 1] = r /\ \A p \in 1 .. Len(f.body) : b[p] = f.body[p]
  BY <1>5
<1> HIDE DEF b
<1>7. ASSUME NEW p \in 1 .. Len(b) PROVE IsRecord(b[p])
  <2>1. CASE p = Len(b) BY <1>6, <2>1
  <2>2. CASE p # Len(b)
    <3>1. p \in 1 .. Len(f.body) BY <1>6, <2>2
    <3> QED BY <1>3, <1>6, <3>1 DEF IsFile
  <2> QED BY <2>1, <2>2
<1>8. IsSeq(b) BY <1>6 DEF IsSeq
<1>9. Len(f.body) <= Len(b) BY <1>6
<1>10. IsFile(g) /\ g.body = b /\ g.name = f.name /\ g.header # "missing"
  BY <1>3, <1>7, <1>8, <1>9, RewrittenIs
<1> HIDE DEF g
<1>11. /\ Filled(files) /\ DOMAIN files = DOMAIN d.files /\ files[id] = g
       /\ \A j \in DOMAIN d.files : j # id => files[j] = d.files[j]
  BY <1>0, <1>10, ChangedIsFilled
<1> HIDE DEF files
<1>12. Sound(e) /\ e.files = files BY <1>2, <1>11, RefilledIsSound
<1> HIDE DEF e
<1>13. \A j \in DOMAIN d.files : files[j].name = d.files[j].name BY <1>10, <1>11 DEF f
<1>14. Listed(files) = Listed(d.files) BY <1>11, <1>13 DEF Listed
<1>15. Alters(d, e, id, b) BY <1>10, <1>11, <1>12, <1>14 DEF Alters, Listed
<1> QED BY <1>12, <1>15 DEF e, b, f, c

\* The first records of a sequence of records.
LEMMA CutIs ==
  ASSUME NEW b, IsSeq(b), \A p \in 1 .. Len(b) : IsRecord(b[p]), NEW n \in 0 .. Len(b)
  PROVE  LET s == SubSeq(b, 1, n)
         IN /\ IsSeq(s) /\ Len(s) = n /\ \A p \in 1 .. n : s[p] = b[p] /\ IsRecord(s[p])
<1>1. PICK S : b \in Seq(S) BY DEF IsSeq
<1>2. Len(b) \in Nat BY <1>1
<1>3. /\ SubSeq(b, 1, n) \in Seq(S) /\ Len(SubSeq(b, 1, n)) = n
      /\ \A p \in 1 .. n : SubSeq(b, 1, n)[p] = b[p]
  BY <1>1, <1>2
<1>4. \A p \in 1 .. n : p \in 1 .. Len(b) BY <1>2
<1> QED BY <1>3, <1>4 DEF IsSeq

LEMMA TruncateAlters ==
  ASSUME NEW d, Sound(d), NEW id \in Listed(d.files), NEW n \in 0 .. Len(d.files[id].body)
  PROVE  LET e == Done(d, Truncate(id, n))
         IN Sound(e) /\ Alters(d, e, id, SubSeq(d.files[id].body, 1, n))
<1> DEFINE c == Truncate(id, n)
           f == d.files[id]
           b == SubSeq(f.body, 1, n)
           h == [f EXCEPT !.body = b, !.torn = FALSE]
           g == FileSynced(h)
           files == [d.files EXCEPT ![id] = g]
           e == Done(d, c)
<1>0. id \in DOMAIN d.files BY DEF Listed
<1>1. c.do = "truncate" /\ c.id = id /\ c.arg = n BY DEF Truncate, Call
<1>2. e = [d EXCEPT !.files = files]
  <2> HIDE DEF c
  <2>1. Done(d, c) = [d EXCEPT !.files[c.id] = Shortened(@, c.arg)] BY <1>1 DEF Done
  <2>2. Shortened(f, n) = g BY DEF Shortened
  <2> HIDE DEF g
  <2>3. [d EXCEPT !.files[c.id] = Shortened(@, c.arg)] = [d EXCEPT !.files = files] BY <1>1, <2>2
  <2> QED BY <2>1, <2>3
<1>3. IsFile(f) BY <1>0 DEF Sound, Whole
<1>4. IsSeq(b) /\ Len(b) = n /\ \A p \in 1 .. n : IsRecord(b[p])
  BY <1>3, CutIs DEF IsFile
<1> HIDE DEF f, b
<1>5. /\ DOMAIN h = DOMAIN f /\ h.body = b /\ h.name = f.name /\ h.torn = FALSE
  BY <1>3 DEF IsFile
<1>6. /\ DOMAIN g = DOMAIN h /\ g.body = b /\ g.name = f.name /\ g.header = "durable"
      /\ g.synced = Len(b) /\ g.torn = FALSE
  BY <1>3, <1>5 DEF FileSynced, IsFile
<1> HIDE DEF h, g
<1>7. n \in Nat /\ Len(b) \in 0 .. Len(b) BY <1>4
<1>8. IsFile(g) BY <1>3, <1>4, <1>5, <1>6, <1>7 DEF IsFile
<1>11. /\ Filled(files) /\ DOMAIN files = DOMAIN d.files /\ files[id] = g
       /\ \A j \in DOMAIN d.files : j # id => files[j] = d.files[j]
  BY <1>0, <1>6, <1>8, ChangedIsFilled
<1> HIDE DEF files
<1>12. Sound(e) /\ e.files = files BY <1>2, <1>11, RefilledIsSound
<1> HIDE DEF e
<1>13. \A j \in DOMAIN d.files : files[j].name = d.files[j].name BY <1>6, <1>11 DEF f
<1>14. Listed(files) = Listed(d.files) BY <1>11, <1>13 DEF Listed
<1>15. Alters(d, e, id, b) BY <1>6, <1>11, <1>12, <1>14 DEF Alters, Listed
<1> QED BY <1>12, <1>15 DEF e, b, f, c

LEMMA CreateAlters ==
  ASSUME NEW d, Sound(d), NEW id \in Nat
  PROVE  LET e == Done(d, Create(id))
         IN Sound(e) /\ Alters(d, e, id, <<>>)
<1> DEFINE c == Create(id)
           files == [j \in DOMAIN d.files \cup {id} |-> IF j = id THEN NewFile ELSE d.files[j]]
           e == Done(d, c)
<1>1. c.do = "create" /\ c.id = id BY DEF Create, Call
<1>2. e = [d EXCEPT !.files = files]
  <2> HIDE DEF c
  <2> QED BY <1>1 DEF Done
<1>3. IsFile(NewFile) /\ NewFile.header # "missing" /\ NewFile.name = "new" /\ NewFile.body = <<>>
  <2>1. <<>> \in Seq({}) /\ Len(<<>>) = 0 /\ 0 \in 0 .. 0 /\ 1 .. 0 = {} OBVIOUS
  <2> QED BY <2>1 DEF IsFile, NewFile, IsSeq
<1>4. /\ DOMAIN files = DOMAIN d.files \cup {id} /\ files[id] = NewFile
      /\ \A j \in DOMAIN d.files : j # id => files[j] = d.files[j]
  OBVIOUS
<1> HIDE DEF files
<1>5. IsFiniteSet(DOMAIN files) BY <1>4, FS_AddElement DEF Sound, Whole
<1>6. Filled(files) BY <1>3, <1>4, <1>5 DEF Filled, Sound, Whole
<1>7. Sound(e) /\ e.files = files BY <1>2, <1>6, RefilledIsSound
<1> HIDE DEF e
<1>8. Listed(files) = Listed(d.files) \cup {id}
  <2>1. NewFile.name # "unlinked" BY <1>3
  <2> QED BY <1>4, <2>1 DEF Listed
<1>9. Alters(d, e, id, <<>>) BY <1>3, <1>4, <1>7, <1>8 DEF Alters, Listed
<1> QED BY <1>7, <1>9 DEF e, c

-----------------------------------------------------------------------------
(***************************************************************************)
(* The struct and the directory.                                           *)
(***************************************************************************)
Struct(w) ==
  /\ DOMAIN w = {"first", "log", "at", "hs", "snap", "incarnation", "dirty", "segs", "used", "dirDirty"}
  /\ w.first \in Nat /\ w.snap \in Nat /\ w.snap < w.first
  /\ IsSeq(w.log) /\ IsSeq(w.at) /\ Len(w.at) = Len(w.log)
  /\ IsFiniteSet(w.segs) /\ w.segs \subseteq Nat /\ w.segs # {}

\* The record at place p of the directory.
Holds(d, p, r) ==
  /\ p.seg \in Listed(d.files)
  /\ p.pos \in 1 .. Len(d.files[p.seg].body)
  /\ d.files[p.seg].body[p.pos] = r

\* Every entry of w is where its index says, and the places are in order.
Finds(w, d) ==
  /\ \A i \in 1 .. Len(w.log) : Holds(d, w.at[i], Entry(w.first + i - 1, w.log[i]))
  /\ \A i, j \in 1 .. Len(w.log) : i < j => Precedes(w.at[i], w.at[j])

\* w describes directory d.
Matches(w, d) ==
  /\ Sound(d) /\ Struct(w)
  /\ w.segs = Listed(d.files)
  /\ w.used = Len(d.files[Max(w.segs)].body)
  /\ Finds(w, d)

\* Once the calls of s are made in directory d, w describes it.
Leads(d, s, w) == IsSeq(s) /\ \E e : Reaches(d, s, e) /\ Matches(w, e)

LEMMA LeadsJoined ==
  ASSUME NEW d, NEW s, IsSeq(s), NEW e, Reaches(d, s, e), NEW t, NEW w, Leads(e, t, w)
  PROVE  Leads(d, s \o t, w)
<1>1. IsSeq(t) BY DEF Leads
<1>2. PICK g : Reaches(e, t, g) /\ Matches(w, g) BY DEF Leads
<1>3. Reaches(d, s \o t, g) BY <1>1, <1>2, ReachesJoined
<1>4. IsSeq(s \o t) BY <1>1, Joined
<1> QED BY <1>2, <1>3, <1>4 DEF Leads

\* The log of w2 is that of w.
Alike(w, w2) == Struct(w2) /\ w2.first = w.first /\ w2.log = w.log /\ w2.at = w.at

\* Calls that only remove segments.
LEMMA TidyLeads ==
  ASSUME NEW w, NEW d, Matches(w, d), NEW s, Tidy(s), NEW w2, Alike(w, w2),
         w2.segs = w.segs \ Removed(s), w2.used = w.used, Max(w.segs) \notin Removed(s),
         \A i \in 1 .. Len(w.log) : w.at[i].seg \notin Removed(s)
  PROVE  Leads(d, s, w2)
<1>1. Sound(d) /\ Struct(w) /\ Struct(w2) BY DEF Matches, Alike
<1>2. PICK e : Reaches(d, s, e) /\ Sound(e) /\ Trims(d, e, Removed(s)) BY <1>1, TidyRun
<1>3. w2.segs = Listed(e.files) BY <1>2 DEF Trims, Matches
<1>4. Max(w2.segs) = Max(w.segs)
  <2>1. Max(w.segs) \in w.segs /\ \A x \in w.segs : x <= Max(w.segs) BY <1>1, MaxIs DEF Struct
  <2>2. Max(w2.segs) \in w2.segs /\ \A x \in w2.segs : x <= Max(w2.segs) BY <1>1, MaxIs DEF Struct
  <2>3. Max(w.segs) \in w2.segs /\ Max(w2.segs) \in w.segs BY <2>1, <2>2
  <2>4. Max(w.segs) <= Max(w2.segs) /\ Max(w2.segs) <= Max(w.segs) BY <2>1, <2>2, <2>3
  <2>5. Max(w.segs) \in Nat /\ Max(w2.segs) \in Nat BY <1>1, <2>1, <2>2 DEF Struct
  <2> QED BY <2>4, <2>5
<1>5. \A id \in w2.segs : e.files[id].body = d.files[id].body BY <1>2, <1>3 DEF Trims
<1>6. Max(w2.segs) \in w2.segs BY <1>1, MaxIs DEF Struct
<1>7. w2.used = Len(e.files[Max(w2.segs)].body) BY <1>4, <1>5, <1>6 DEF Matches
<1>8. w2.first = w.first /\ w2.log = w.log /\ w2.at = w.at BY DEF Alike
<1>9. ASSUME NEW i \in 1 .. Len(w.log)
      PROVE  Holds(e, w.at[i], Entry(w.first + i - 1, w.log[i]))
  <2> DEFINE p == w.at[i]
             r == Entry(w.first + i - 1, w.log[i])
  <2>1. Holds(d, p, r) BY DEF Matches, Finds
  <2>2. p.seg \notin Removed(s) OBVIOUS
  <2> HIDE DEF p, r
  <2>3. p.seg \in w2.segs BY <2>1, <2>2 DEF Holds, Matches
  <2>4. Holds(e, p, r) BY <1>3, <1>5, <2>1, <2>3 DEF Holds
  <2> QED BY <2>4 DEF p, r
<1>10. \A i, j \in 1 .. Len(w.log) : i < j => Precedes(w.at[i], w.at[j]) BY DEF Matches, Finds
<1>11. Finds(w2, e) BY <1>8, <1>9, <1>10 DEF Finds
<1>12. Matches(w2, e) BY <1>1, <1>2, <1>3, <1>7, <1>11 DEF Matches
<1>13. IsSeq(s) BY DEF Tidy
<1> QED BY <1>2, <1>12, <1>13 DEF Leads

\* Calls that remove nothing.
LEMMA CalmLeads ==
  ASSUME NEW w, NEW d, Matches(w, d), NEW s, Tidy(s), Removed(s) = {}, NEW w2, Alike(w, w2),
         w2.segs = w.segs, w2.used = w.used
  PROVE  Leads(d, s, w2)
BY TidyLeads

\* cleanupCompactedSegments keeps the segments of the log.
LEMMA CleanupTidy ==
  ASSUME NEW w, Struct(w)
  PROVE  LET seg == IF w.log # <<>> THEN Lookup(w, w.first).seg ELSE Max(w.segs)
         IN /\ Tidy(Cleanup(w).calls) /\ Removed(Cleanup(w).calls) = {id \in w.segs : id < seg}
            /\ Cleanup(w).wal = Synced(Keeping(w, {id \in w.segs : id >= seg}))
<1> DEFINE seg == IF w.log # <<>> THEN Lookup(w, w.first).seg ELSE Max(w.segs)
           kept == {id \in w.segs : id >= seg}
           left == Keeping(w, kept)
           away == UnlinkBefore(w.segs, seg)
<1>1. Cleanup(w) = [wal |-> Synced(left), calls |-> away \o SyncAll(left)] BY DEF Cleanup
<1>2. kept \subseteq w.segs OBVIOUS
<1> HIDE DEF seg
<1>3. Tidy(away) /\ Removed(away) = {id \in w.segs : id < seg} BY UnlinkBeforeTidy DEF Struct
<1> HIDE DEF kept
<1>4. left.segs = kept BY DEF Keeping, Struct
<1>5. IsFiniteSet(left.segs) BY <1>2, <1>4, FS_Subset DEF Struct
<1> HIDE DEF left
<1>6. Tidy(SyncAll(left)) /\ Removed(SyncAll(left)) = {} BY <1>5, SyncAllTidy
<1> HIDE DEF away
<1>7. Tidy(away \o SyncAll(left)) /\ Removed(away \o SyncAll(left)) = {id \in w.segs : id < seg}
  BY <1>3, <1>6, TidyJoined
<1>8. Cleanup(w).calls = away \o SyncAll(left) /\ Cleanup(w).wal = Synced(left) BY <1>1
<1> QED BY <1>7, <1>8 DEF left, kept, seg

LEMMA CleanupLeads ==
  ASSUME NEW w, NEW d, Matches(w, d), NEW s, Tidy(s), Removed(s) = Removed(Cleanup(w).calls)
  PROVE  Leads(d, s, Cleanup(w).wal)
<1> DEFINE seg == IF w.log # <<>> THEN Lookup(w, w.first).seg ELSE Max(w.segs)
           kept == {id \in w.segs : id >= seg}
           gone == {id \in w.segs : id < seg}
           w2 == Synced(Keeping(w, kept))
<1>0. Struct(w) /\ Sound(d) BY DEF Matches
<1>1. Removed(s) = gone /\ Cleanup(w).wal = w2 BY <1>0, CleanupTidy
<1>2. Max(w.segs) \in w.segs /\ \A x \in w.segs : x <= Max(w.segs) BY <1>0, MaxIs DEF Struct
<1>3. PICK S : w.log \in Seq(S) BY <1>0 DEF Struct, IsSeq
<1>4. seg \in w.segs /\ \A i \in 1 .. Len(w.log) : w.at[i].seg \in w.segs /\ w.at[i].seg >= seg
  <2>0. \A i \in 1 .. Len(w.log) : w.at[i].seg \in w.segs BY DEF Matches, Finds, Holds
  <2>1. CASE w.log = <<>>
    <3>1. 1 .. Len(w.log) = {} /\ seg = Max(w.segs) BY <2>1
    <3> QED BY <1>2, <3>1
  <2>2. CASE w.log # <<>>
    <3>1. Len(w.log) \in Nat /\ Len(w.log) # 0 BY <1>3, <2>2
    <3>2. seg = w.at[1].seg
      <4>1. (w.first - w.first) + 1 = 1 BY <1>0 DEF Struct
      <4> QED BY <2>2, <4>1 DEF Lookup
    <3>3. 1 \in 1 .. Len(w.log) BY <3>1
    <3>4. ASSUME NEW i \in 1 .. Len(w.log) PROVE w.at[i].seg >= seg
      <4>1. w.at[i].seg \in Nat /\ w.at[1].seg \in Nat BY <1>0, <2>0, <3>3 DEF Struct
      <4>2. CASE i = 1 BY <3>2, <4>1, <4>2
      <4>3. CASE i # 1
        <5>1. 1 < i BY <3>1, <4>3
        <5>2. Precedes(w.at[1], w.at[i]) BY <3>3, <5>1 DEF Matches, Finds
        <5> QED BY <3>2, <4>1, <5>2 DEF Precedes
      <4> QED BY <4>2, <4>3
    <3> QED BY <2>0, <3>2, <3>3, <3>4
  <2> QED BY <2>1, <2>2
<1> HIDE DEF seg
<1>5. seg \in Nat /\ w.segs \subseteq Nat BY <1>0, <1>4 DEF Struct
<1>6. kept = w.segs \ gone BY <1>5
<1>7. Max(w.segs) \notin gone BY <1>2, <1>4, <1>5
<1>8. ASSUME NEW i \in 1 .. Len(w.log) PROVE w.at[i].seg \notin gone BY <1>4, <1>5
<1>9. kept \subseteq Nat /\ kept # {} /\ IsFiniteSet(kept)
  <2>1. kept \subseteq w.segs /\ seg \in kept BY <1>4, <1>5
  <2> HIDE DEF kept
  <2> QED BY <1>0, <1>5, <2>1, FS_Subset DEF Struct
<1> HIDE DEF kept, gone
<1>10. /\ w2.first = w.first /\ w2.log = w.log /\ w2.at = w.at /\ w2.snap = w.snap /\ w2.used = w.used
       /\ w2.segs = kept /\ DOMAIN w2 = DOMAIN w
  BY <1>0 DEF Synced, Keeping, Struct
<1> HIDE DEF w2
<1>11. Alike(w, w2) BY <1>0, <1>9, <1>10 DEF Alike, Struct
<1>12. w2.segs = w.segs \ Removed(s) /\ Max(w.segs) \notin Removed(s) BY <1>1, <1>6, <1>7, <1>10
<1>13. \A i \in 1 .. Len(w.log) : w.at[i].seg \notin Removed(s) BY <1>1, <1>8
<1>14. Leads(d, s, w2) BY <1>10, <1>11, <1>12, <1>13, TidyLeads
<1> QED BY <1>1, <1>14

\* t is s from its m-th element on.
RestOf(t, s, m) ==
  /\ IsSeq(t) /\ Len(s) \in Nat
  /\ Len(t) = IF m <= Len(s) THEN Len(s) - m + 1 ELSE 0
  /\ \A i \in 1 .. Len(t) : (i + m) - 1 \in 1 .. Len(s) /\ t[i] = s[(i + m) - 1]

LEMMA SuffixIs ==
  ASSUME NEW s, IsSeq(s), NEW m \in Nat, m >= 1
  PROVE  RestOf(SubSeq(s, m, Len(s)), s, m)
<1>1. PICK S : s \in Seq(S) BY DEF IsSeq
<1> DEFINE t == SubSeq(s, m, Len(s))
           n == Len(s)
<1>2. n \in Nat BY <1>1
<1>3. t \in Seq(S)
  BY <1>1, <1>2, SubSeqProperties
<1>4. Len(t) = IF m <= n THEN n - m + 1 ELSE 0 BY <1>1, <1>2, SubSeqProperties
<1>5. ASSUME NEW i \in 1 .. Len(t) PROVE (i + m) - 1 \in 1 .. n /\ t[i] = s[(i + m) - 1]
  <2>1. m <= n /\ i \in 1 .. (n - m + 1) BY <1>2, <1>4
  <2>2. (i + m) - 1 \in 1 .. n /\ (i + m) - 1 = (m + i) - 1 BY <1>2, <2>1
  <2>3. t[i] = s[(m + i) - 1] BY <1>1, <1>2, <2>1, SubSeqProperties
  <2> QED BY <2>2, <2>3
<1> HIDE DEF t
<1>6. RestOf(t, s, m) BY <1>2, <1>3, <1>4, <1>5 DEF IsSeq, RestOf
<1> QED BY <1>6 DEF t

\* compactMemory: dropping the first entries.
LEMMA CompactMatches ==
  ASSUME NEW w, NEW d, Matches(w, d), NEW index \in Nat, index >= w.first, NEW w2,
         DOMAIN w2 = DOMAIN w, w2.first = index, w2.snap \in Nat, w2.snap < index,
         w2.log = SubSeq(w.log, index - w.first + 1, Len(w.log)),
         w2.at = SubSeq(w.at, index - w.first + 1, Len(w.at)),
         w2.segs = w.segs, w2.used = w.used
  PROVE  Matches(w2, d)
<1> DEFINE m == index - w.first + 1
           n == Len(w2.log)
<1>0. Struct(w) BY DEF Matches
<1>1. m \in Nat /\ m >= 1 /\ w.first \in Nat BY <1>0 DEF Struct
<1>a. IsSeq(w.log) /\ IsSeq(w.at) BY <1>0 DEF Struct
<1>b. w2.log = SubSeq(w.log, m, Len(w.log)) /\ w2.at = SubSeq(w.at, m, Len(w.at)) OBVIOUS
<1> HIDE DEF m
<1>c. /\ RestOf(SubSeq(w.log, m, Len(w.log)), w.log, m)
      /\ RestOf(SubSeq(w.at, m, Len(w.at)), w.at, m)
  BY <1>1, <1>a, SuffixIs
<1>d. RestOf(w2.log, w.log, m) /\ RestOf(w2.at, w.at, m) BY <1>b, <1>c
<1>2. /\ IsSeq(w2.log) /\ Len(w.log) \in Nat
      /\ n = IF m <= Len(w.log) THEN Len(w.log) - m + 1 ELSE 0
      /\ \A i \in 1 .. n : (i + m) - 1 \in 1 .. Len(w.log) /\ w2.log[i] = w.log[(i + m) - 1]
  BY <1>d DEF RestOf
<1>3. /\ IsSeq(w2.at) /\ Len(w2.at) = IF m <= Len(w.at) THEN Len(w.at) - m + 1 ELSE 0
      /\ \A i \in 1 .. Len(w2.at) : w2.at[i] = w.at[(i + m) - 1]
  BY <1>d DEF RestOf
<1>4. Len(w2.at) = n BY <1>0, <1>2, <1>3 DEF Struct
<1>5. n \in Nat
  <2>1. PICK S : w2.log \in Seq(S) BY <1>2 DEF IsSeq
  <2> QED BY <2>1, LenProperties
<1>6. \A i \in 1 .. n : index + i - 1 = w.first + ((i + m) - 1) - 1
  <2>1. \A a \in Nat : \A i \in Nat : index + i - 1 = a + ((i + (index - a + 1)) - 1) - 1 OBVIOUS
  <2>2. \A i \in 1 .. n : i \in Nat BY <1>5
  <2> HIDE DEF n
  <2> QED BY <1>1, <2>1, <2>2 DEF m
<1> HIDE DEF m, n
<1>7. ASSUME NEW i \in 1 .. n PROVE Holds(d, w2.at[i], Entry(w2.first + i - 1, w2.log[i]))
  <2>1. (i + m) - 1 \in 1 .. Len(w.log) /\ w2.log[i] = w.log[(i + m) - 1] BY <1>2
  <2>2. w2.at[i] = w.at[(i + m) - 1] BY <1>3, <1>4
  <2>3. w2.first + i - 1 = w.first + ((i + m) - 1) - 1 BY <1>6
  <2> DEFINE k == (i + m) - 1
  <2> HIDE DEF k
  <2>4. Holds(d, w.at[k], Entry(w.first + k - 1, w.log[k])) BY <2>1 DEF Matches, Finds, k
  <2> QED BY <2>1, <2>2, <2>3, <2>4 DEF k
<1>8. ASSUME NEW i \in 1 .. n, NEW j \in 1 .. n, i < j PROVE Precedes(w2.at[i], w2.at[j])
  <2>1. (i + m) - 1 \in 1 .. Len(w.log) /\ (j + m) - 1 \in 1 .. Len(w.log) BY <1>2
  <2>2. w2.at[i] = w.at[(i + m) - 1] /\ w2.at[j] = w.at[(j + m) - 1] BY <1>3, <1>4
  <2>3. (i + m) - 1 < (j + m) - 1 BY <1>1, <1>5, <1>8
  <2> QED BY <2>1, <2>2, <2>3 DEF Matches, Finds
<1>9. Finds(w2, d) BY <1>7, <1>8 DEF Finds, n
<1>10. Struct(w2) BY <1>0, <1>2, <1>3, <1>4 DEF Struct, n
<1> QED BY <1>9, <1>10 DEF Matches

\* A struct without entries.
LEMMA EmptiedMatches ==
  ASSUME NEW w, NEW d, Matches(w, d), NEW w2, DOMAIN w2 = DOMAIN w,
         w2.first \in Nat, w2.snap \in Nat, w2.snap < w2.first,
         w2.log = <<>>, w2.at = <<>>, w2.segs = w.segs, w2.used = w.used
  PROVE  Matches(w2, d)
<1>1. IsSeq(<<>>) /\ Len(<<>>) = 0 /\ 1 .. 0 = {}
  <2>1. <<>> \in Seq({}) /\ Len(<<>>) = 0 /\ 1 .. 0 = {} OBVIOUS
  <2> QED BY <2>1 DEF IsSeq
<1>2. Struct(w2) BY <1>1 DEF Struct, Matches
<1>3. Finds(w2, d) BY <1>1 DEF Finds
<1> QED BY <1>2, <1>3 DEF Matches

\* lastIndex.
LEMMA LastIs ==
  ASSUME NEW w, Struct(w)
  PROVE  Len(w.log) \in Nat /\ LastIndex(w) = w.first + Len(w.log) - 1
<1>1. PICK S : w.log \in Seq(S) BY DEF Struct, IsSeq
<1>2. Len(w.log) \in Nat /\ (w.log = <<>> <=> Len(w.log) = 0) BY <1>1
<1>3. w.first \in Nat /\ w.snap \in Nat /\ w.snap < w.first BY DEF Struct
<1>4. CASE w.log # <<>> BY <1>2, <1>4 DEF LastIndex
<1>5. CASE w.log = <<>>
  <2> DEFINE T == {w.snap, w.first - 1}
  <2>1. w.first - 1 \in T /\ \A x \in T : w.first - 1 >= x BY <1>3
  <2>2. T \subseteq Int BY <1>3
  <2>3. \A x \in T : (\A y \in T : x >= y) => x = w.first - 1
    <3>1. ASSUME NEW x \in T, \A y \in T : x >= y PROVE x = w.first - 1
      <4>1. x >= w.first - 1 /\ w.first - 1 >= x /\ x \in Int /\ w.first - 1 \in Int BY <2>1, <2>2, <3>1
      <4> QED BY <4>1
    <3> QED BY <3>1
  <2> HIDE DEF T
  <2>4. Max(T) = w.first - 1 BY <2>1, <2>3 DEF Max
  <2>5. LastIndex(w) = Max(T) BY <1>5 DEF LastIndex, T
  <2>6. w.first + 0 - 1 = w.first - 1 BY <1>3
  <2> QED BY <1>2, <1>5, <2>4, <2>5, <2>6
<1> QED BY <1>2, <1>4, <1>5

-----------------------------------------------------------------------------
(***************************************************************************)
(* Writing records.                                                        *)
(***************************************************************************)
LEMMA TwoCalls ==
  ASSUME NEW a, NEW b
  PROVE  IsSeq(<<a>>) /\ IsSeq(<<b>>) /\ IsSeq(<<a, b>>) /\ <<a>> \o <<b>> = <<a, b>>
<1>1. <<a>> \in Seq({a}) /\ <<b>> \in Seq({b}) OBVIOUS
<1>2. <<a, b>> \in Seq({a, b}) OBVIOUS
<1>3. <<a>> \o <<b>> = <<a, b>>
  <2> DEFINE S == {a, b}
             s == <<a>> \o <<b>>
             t == <<a, b>>
  <2>1. <<a>> \in Seq(S) /\ <<b>> \in Seq(S) /\ Len(<<a>>) = 1 /\ Len(<<b>>) = 1 OBVIOUS
  <2>2. t \in Seq(S) /\ Len(t) = 2 /\ t[1] = a /\ t[2] = b OBVIOUS
  <2> HIDE DEF S
  <2>3. s \in Seq(S) /\ Len(s) = 2 /\ s[1] = a /\ s[2] = b BY <2>1
  <2> HIDE DEF s, t
  <2>4. \A i \in 1 .. 2 : i = 1 \/ i = 2 OBVIOUS
  <2>5. \A i \in 1 .. Len(s) : s[i] = t[i] BY <2>2, <2>3, <2>4
  <2>6. Len(s) = Len(t) BY <2>2, <2>3
  <2>7. s = t BY <2>2, <2>3, <2>5, <2>6, SeqEqual
  <2> QED BY <2>7 DEF s, t
<1> QED BY <1>1, <1>2, <1>3 DEF IsSeq

\* Places of d that e holds too.
LEMMA HoldsKept ==
  ASSUME NEW d, NEW e, NEW p, NEW r, Holds(d, p, r), p.seg \in Listed(e.files),
         e.files[p.seg].body = d.files[p.seg].body
  PROVE  Holds(e, p, r)
BY DEF Holds

LEMMA AboveMax ==
  ASSUME NEW w, Struct(w)
  PROVE  /\ Max(w.segs) \in w.segs /\ Max(w.segs) \in Nat /\ \A x \in w.segs : x <= Max(w.segs)
         /\ Max(w.segs) + 1 \in Nat /\ Max(w.segs) + 1 \notin w.segs
         /\ Max(w.segs \cup {Max(w.segs) + 1}) = Max(w.segs) + 1
         /\ IsFiniteSet(w.segs \cup {Max(w.segs) + 1}) /\ w.segs \cup {Max(w.segs) + 1} \subseteq Nat
<1> DEFINE m == Max(w.segs)
           T == w.segs \cup {m + 1}
<1>1. m \in w.segs /\ \A x \in w.segs : x <= m BY MaxIs DEF Struct
<1>2. m \in Nat BY <1>1 DEF Struct
<1> HIDE DEF m
<1>3. m + 1 \in Nat /\ m + 1 \notin w.segs BY <1>1, <1>2
<1>4. IsFiniteSet(T) BY FS_AddElement DEF Struct
<1>5. T \subseteq Nat /\ T # {} BY <1>3 DEF Struct
<1>6. Max(T) \in T /\ \A x \in T : x <= Max(T) BY <1>4, <1>5, MaxIs
<1>7. Max(T) = m + 1
  <2>1. Max(T) \in Nat /\ m + 1 <= Max(T) BY <1>5, <1>6
  <2>2. Max(T) \in w.segs => Max(T) <= m BY <1>1
  <2> QED BY <1>2, <1>6, <2>1, <2>2
<1> QED BY <1>1, <1>2, <1>3, <1>4, <1>5, <1>7 DEF m

\* rollToNew.
LEMMA RollLeads ==
  ASSUME NEW w, NEW d, Matches(w, d), NEW w2, Alike(w, w2),
         w2.segs = w.segs \cup {Max(w.segs) + 1}, w2.used = 0
  PROVE  Leads(d, <<SyncFile(Max(w.segs)), Create(Max(w.segs) + 1)>>, w2)
<1> DEFINE m == Max(w.segs)
           a == SyncFile(m)
           b == Create(m + 1)
           e == Done(d, a)
           g == Done(e, b)
<1>1. Sound(d) /\ Struct(w) /\ Struct(w2) BY DEF Matches, Alike
<1>2. /\ m \in w.segs /\ m \in Nat /\ m + 1 \in Nat /\ m + 1 \notin w.segs
      /\ Max(w2.segs) = m + 1
  BY <1>1, AboveMax
<1>3. TidyCall(a) /\ Gone(a) = {} BY DEF TidyCall, Gone, SyncFile, Call
<1>4. Sound(e) /\ Trims(d, e, {})
  <2> HIDE DEF a
  <2> QED BY <1>1, <1>3, TidyCallTrims
<1>5. Listed(e.files) = w.segs /\ \A id \in w.segs : e.files[id].body = d.files[id].body
  BY <1>4 DEF Trims, Matches
<1>6. Reaches(d, <<a>>, e) BY <1>1, <1>4, ReachesOne
<1> HIDE DEF e, a, m
<1>7. Sound(g) /\ Alters(e, g, m + 1, <<>>) BY <1>2, <1>4, CreateAlters
<1>8. Reaches(e, <<b>>, g) BY <1>4, <1>7, ReachesOne
<1> HIDE DEF g, b
<1>9. IsSeq(<<a>>) /\ IsSeq(<<b>>) /\ IsSeq(<<a, b>>) /\ <<a>> \o <<b>> = <<a, b>> BY TwoCalls
<1>10. Reaches(d, <<a, b>>, g)
  <2>1. Reaches(d, <<a>> \o <<b>>, g) BY <1>6, <1>8, <1>9, ReachesJoined
  <2> QED BY <1>9, <2>1
<1>11. Listed(g.files) = w2.segs /\ g.files[m + 1].body = <<>> BY <1>5, <1>7 DEF Alters, m
<1>12. \A id \in w.segs : id \in Listed(g.files) /\ g.files[id].body = d.files[id].body
  BY <1>2, <1>5, <1>7 DEF Alters
<1>13. w2.used = Len(g.files[Max(w2.segs)].body)
  <2>1. Len(<<>>) = 0 OBVIOUS
  <2> QED BY <1>2, <1>11, <2>1
<1>14. w2.first = w.first /\ w2.log = w.log /\ w2.at = w.at BY DEF Alike
<1>15. ASSUME NEW i \in 1 .. Len(w.log)
       PROVE  Holds(g, w.at[i], Entry(w.first + i - 1, w.log[i]))
  <2>1. Holds(d, w.at[i], Entry(w.first + i - 1, w.log[i])) BY DEF Matches, Finds
  <2>2. w.at[i].seg \in w.segs BY <2>1 DEF Holds, Matches
  <2> QED BY <1>12, <2>1, <2>2, HoldsKept
<1>16. \A i, j \in 1 .. Len(w.log) : i < j => Precedes(w.at[i], w.at[j]) BY DEF Matches, Finds
<1>17. Finds(w2, g) BY <1>14, <1>15, <1>16 DEF Finds
<1>18. Matches(w2, g) BY <1>1, <1>7, <1>11, <1>13, <1>17 DEF Matches
<1>19. Leads(d, <<a, b>>, w2) BY <1>9, <1>10, <1>18 DEF Leads
<1> QED BY <1>19 DEF a, b, m

\* A record at the end of the last segment.
LEMMA WriteAtEnd ==
  ASSUME NEW w, NEW d, Matches(w, d), NEW r, IsRecord(r), NEW m, m = Max(w.segs)
  PROVE  LET c == Write(m, r)
             e == Done(d, c)
         IN /\ IsSeq(<<c>>) /\ Reaches(d, <<c>>, e) /\ Sound(e)
            /\ Listed(e.files) = w.segs /\ w.used \in Nat
            /\ Len(e.files[m].body) = w.used + 1 /\ e.files[m].body[w.used + 1] = r
            /\ \A p, x : Holds(d, p, x) => Holds(e, p, x)
<1> DEFINE c == Write(m, r)
           e == Done(d, c)
           b == d.files[m].body
           q == Append(b, r)
<1>1. Sound(d) /\ Struct(w) BY DEF Matches
<1>2. m \in w.segs /\ m \in Listed(d.files) BY <1>1, AboveMax DEF Matches
<1>3. Sound(e) /\ Alters(d, e, m, q) BY <1>1, <1>2, WriteAlters
<1>4. Reaches(d, <<c>>, e) BY <1>1, <1>3, ReachesOne
<1>5. IsSeq(b) /\ w.used = Len(b)
  <2>1. m \in DOMAIN d.files BY <1>2 DEF Listed
  <2> QED BY <1>1, <2>1 DEF Sound, Whole, IsFile, Matches
<1> HIDE DEF e, c
<1>6. Listed(e.files) = w.segs /\ e.files[m].body = q BY <1>2, <1>3 DEF Alters, Matches
<1>7. /\ Len(b) \in Nat /\ Len(q) = Len(b) + 1 /\ q[Len(b) + 1] = r
      /\ \A p \in 1 .. Len(b) : p \in 1 .. Len(q) /\ q[p] = b[p]
  <2>1. PICK S : b \in Seq(S) BY <1>5 DEF IsSeq
  <2>2. b \in Seq(S \cup {r}) BY <2>1
  <2> HIDE DEF b
  <2> QED BY <2>2
<1> HIDE DEF q
<1>9. ASSUME NEW p, NEW x, Holds(d, p, x) PROVE Holds(e, p, x)
  <2>1. p.seg \in w.segs BY <1>9 DEF Holds, Matches
  <2>2. CASE p.seg = m
    <3>1. p.pos \in 1 .. Len(b) /\ b[p.pos] = x BY <1>9, <2>2 DEF Holds
    <3>2. e.files[p.seg].body = q BY <1>6, <2>2
    <3> HIDE DEF b
    <3>3. p.pos \in 1 .. Len(q) /\ q[p.pos] = x BY <1>7, <3>1
    <3> QED BY <1>6, <2>1, <3>2, <3>3 DEF Holds
  <2>3. CASE p.seg # m
    <3>1. e.files[p.seg].body = d.files[p.seg].body BY <1>3, <1>9, <2>3 DEF Alters, Holds
    <3> QED BY <1>6, <1>9, <2>1, <3>1, HoldsKept
  <2> QED BY <2>2, <2>3
<1>10. IsSeq(<<c>>)
  <2>1. <<c>> \in Seq({c}) OBVIOUS
  <2> QED BY <2>1 DEF IsSeq
<1> QED BY <1>3, <1>4, <1>5, <1>6, <1>7, <1>9, <1>10 DEF e, c

\* A record that is no entry.
LEMMA WriteOtherLeads ==
  ASSUME NEW w, NEW d, Matches(w, d), NEW r, IsRecord(r), NEW w2, Alike(w, w2),
         w2.segs = w.segs, w2.used = w.used + 1
  PROVE  Leads(d, <<Write(Max(w.segs), r)>>, w2)
<1> DEFINE m == Max(w.segs)
           c == Write(m, r)
           e == Done(d, c)
<1>1. /\ IsSeq(<<c>>) /\ Reaches(d, <<c>>, e) /\ Sound(e)
      /\ Listed(e.files) = w.segs
      /\ Len(e.files[m].body) = w.used + 1
      /\ \A p, x : Holds(d, p, x) => Holds(e, p, x)
  BY WriteAtEnd
<1> HIDE DEF e, c
<1>2. w2.first = w.first /\ w2.log = w.log /\ w2.at = w.at /\ Struct(w2) BY DEF Alike
<1>3. Finds(w2, e) BY <1>1, <1>2 DEF Matches, Finds
<1>4. w2.used = Len(e.files[Max(w2.segs)].body) BY <1>1
<1>5. Matches(w2, e) BY <1>1, <1>2, <1>3, <1>4 DEF Matches
<1> QED BY <1>1, <1>5 DEF Leads, c

\* The next entry.
LEMMA WriteEntryLeads ==
  ASSUME NEW w, NEW d, Matches(w, d), NEW t, NEW w2, DOMAIN w2 = DOMAIN w,
         w2.first = w.first, w2.snap = w.snap, w2.segs = w.segs, w2.used = w.used + 1,
         w2.log = Append(w.log, t),
         w2.at = Append(w.at, [seg |-> Max(w.segs), pos |-> w.used + 1])
  PROVE  /\ Leads(d, <<Write(Max(w.segs), Entry(w.first + Len(w.log), t))>>, w2)
         /\ Struct(w2) /\ Len(w2.log) = Len(w.log) + 1
<1> DEFINE m == Max(w.segs)
           n == Len(w.log)
           r == Entry(w.first + n, t)
           place == [seg |-> m, pos |-> w.used + 1]
           c == Write(m, r)
           e == Done(d, c)
<1>1. Struct(w) BY DEF Matches
<1>2. n \in Nat /\ w.first \in Nat /\ Len(w.at) = n BY <1>1, LastIs DEF Struct
<1>3. IsRecord(r)
  <2>1. w.first + n \in Nat BY <1>2
  <2> HIDE DEF n
  <2> QED BY <2>1 DEF IsRecord
<1> HIDE DEF r
<1>4. /\ IsSeq(<<c>>) /\ Reaches(d, <<c>>, e) /\ Sound(e)
      /\ Listed(e.files) = w.segs /\ w.used \in Nat
      /\ Len(e.files[m].body) = w.used + 1 /\ e.files[m].body[w.used + 1] = r
      /\ \A p, x : Holds(d, p, x) => Holds(e, p, x)
  BY <1>3, WriteAtEnd
<1> HIDE DEF e, c
<1>5. m \in w.segs /\ m \in Nat /\ \A x \in w.segs : x <= m BY <1>1, AboveMax
<1>6. place.seg = m /\ place.pos = w.used + 1 OBVIOUS
<1> HIDE DEF place, m
<1>7. Holds(e, place, r)
  <2>1. w.used + 1 \in 1 .. (w.used + 1) BY <1>4
  <2> QED BY <1>4, <1>5, <1>6, <2>1 DEF Holds
<1>8. /\ IsSeq(w2.log) /\ Len(w2.log) = n + 1 /\ w2.log[n + 1] = t
      /\ \A i \in 1 .. n : w2.log[i] = w.log[i]
  <2>1. PICK S : w.log \in Seq(S) BY <1>1 DEF Struct, IsSeq
  <2>2. w.log \in Seq(S \cup {t}) /\ t \in S \cup {t} BY <2>1
  <2>3. w2.log \in Seq(S \cup {t}) BY <2>2, AppendProperties
  <2> QED BY <2>2, <2>3, AppendProperties DEF IsSeq
<1>9. /\ IsSeq(w2.at) /\ Len(w2.at) = n + 1 /\ w2.at[n + 1] = place
      /\ \A i \in 1 .. n : w2.at[i] = w.at[i]
  <2>0. w2.at = Append(w.at, place) BY DEF place, m
  <2>1. PICK S : w.at \in Seq(S) BY <1>1 DEF Struct, IsSeq
  <2>2. w.at \in Seq(S \cup {place}) /\ place \in S \cup {place} BY <2>1
  <2>3. w2.at \in Seq(S \cup {place}) BY <2>0, <2>2, AppendProperties
  <2> QED BY <1>2, <2>0, <2>2, <2>3, AppendProperties DEF IsSeq
<1>10. Struct(w2) BY <1>1, <1>8, <1>9 DEF Struct
<1> HIDE DEF n
<1>11. ASSUME NEW i \in 1 .. (n + 1) PROVE Holds(e, w2.at[i], Entry(w2.first + i - 1, w2.log[i]))
  <2>1. CASE i = n + 1
    <3>1. w2.first + i - 1 = w.first + n BY <1>2, <2>1
    <3> QED BY <1>7, <1>8, <1>9, <2>1, <3>1 DEF r
  <2>2. CASE i # n + 1
    <3>1. i \in 1 .. n BY <1>2, <2>2
    <3>2. Holds(d, w.at[i], Entry(w.first + i - 1, w.log[i])) BY <3>1 DEF Matches, Finds, n
    <3>3. Holds(e, w.at[i], Entry(w.first + i - 1, w.log[i])) BY <1>4, <3>2
    <3> QED BY <1>8, <1>9, <3>1, <3>3
  <2> QED BY <2>1, <2>2
<1>12. ASSUME NEW i \in 1 .. (n + 1), NEW j \in 1 .. (n + 1), i < j PROVE Precedes(w2.at[i], w2.at[j])
  <2>0. i \in 1 .. n BY <1>2, <1>12
  <2>1. CASE j = n + 1
    <3> DEFINE p == w.at[i]
    <3>1. Holds(d, p, Entry(w.first + i - 1, w.log[i])) BY <2>0 DEF Matches, Finds, n
    <3>2. p.seg \in w.segs /\ p.pos \in 1 .. Len(d.files[p.seg].body) BY <3>1 DEF Holds, Matches
    <3>3. Len(d.files[m].body) = w.used BY DEF Matches, m
    <3>4. w2.at[i] = p /\ w2.at[j] = place BY <1>9, <2>0, <2>1
    <3> HIDE DEF p
    <3>5. p.seg \in Nat /\ p.seg <= m BY <1>1, <1>5, <3>2 DEF Struct
    <3>6. p.seg = m => p.pos < w.used + 1 BY <1>4, <3>2, <3>3
    <3>7. p.seg < m \/ p.seg = m BY <1>5, <3>5
    <3>8. Precedes(p, place) BY <1>6, <3>6, <3>7 DEF Precedes
    <3> QED BY <3>4, <3>8
  <2>2. CASE j # n + 1
    <3>1. j \in 1 .. n BY <1>2, <2>2
    <3>2. Precedes(w.at[i], w.at[j]) BY <1>12, <2>0, <3>1 DEF Matches, Finds, n
    <3> QED BY <1>9, <2>0, <3>1, <3>2
  <2> QED BY <2>1, <2>2
<1>13. Finds(w2, e) BY <1>8, <1>11, <1>12 DEF Finds
<1>14. w2.used = Len(e.files[Max(w2.segs)].body) BY <1>4 DEF m
<1>15. Matches(w2, e) BY <1>4, <1>10, <1>13, <1>14 DEF Matches
<1>16. Leads(d, <<c>>, w2) BY <1>4, <1>15 DEF Leads
<1> QED BY <1>8, <1>10, <1>16 DEF c, m, r, n

\* writeRecord.
LEMMA WriteRecordLeads ==
  ASSUME NEW d, NEW acc, Leads(d, acc.calls, acc.wal), NEW r, IsRecord(r),
         r.kind = "entry" => r = Entry(acc.wal.first + Len(acc.wal.log), r.term)
  PROVE  LET next == WriteRecord(acc, r)
         IN /\ Leads(d, next.calls, next.wal) /\ next.wal.first = acc.wal.first
            /\ r.kind = "entry" => Len(next.wal.log) = Len(acc.wal.log) + 1
<1> DEFINE v == acc.wal
           current == Max(v.segs)
           rolls == v.used + 1 > SegmentRecords /\ v.used > 0
           target == IF rolls THEN current + 1 ELSE current
           placed == [v EXCEPT !.segs = @ \cup {target},
                               !.dirDirty = @ \/ rolls,
                               !.used = IF rolls THEN 1 ELSE @ + 1]
           place == [seg |-> target, pos |-> placed.used]
           written == IF r.kind = "entry"
                        THEN [placed EXCEPT !.log = Append(@, r.term), !.at = Append(@, place)]
                        ELSE placed
           roll == IF rolls THEN <<SyncFile(current), Create(target)>> ELSE <<>>
           last == <<Write(target, r)>>
           calls == acc.calls \o roll \o last
           mid == [v EXCEPT !.segs = @ \cup {target}, !.used = IF rolls THEN 0 ELSE @]
<1>1. WriteRecord(acc, r) = [wal |-> written, calls |-> calls] BY DEF WriteRecord
<1>2. IsSeq(acc.calls) BY DEF Leads
<1>3. PICK e : Reaches(d, acc.calls, e) /\ Matches(v, e) BY DEF Leads
<1>4. Struct(v) BY <1>3 DEF Matches
<1> HIDE DEF v
<1>5. /\ current \in v.segs /\ Max(v.segs \cup {current + 1}) = current + 1
      /\ IsFiniteSet(v.segs \cup {current + 1}) /\ v.segs \cup {current + 1} \subseteq Nat
  BY <1>4, AboveMax
<1> HIDE DEF rolls
<1>6. /\ DOMAIN mid = DOMAIN v /\ mid.first = v.first /\ mid.log = v.log /\ mid.at = v.at
      /\ mid.snap = v.snap /\ mid.segs = v.segs \cup {target} /\ mid.used = IF rolls THEN 0 ELSE v.used
  <2> HIDE DEF target
  <2> QED BY <1>4 DEF Struct
<1>7. /\ DOMAIN placed = DOMAIN v /\ placed.first = v.first /\ placed.log = v.log /\ placed.at = v.at
      /\ placed.snap = v.snap /\ placed.segs = v.segs \cup {target}
      /\ placed.used = IF rolls THEN 1 ELSE v.used + 1
  <2> HIDE DEF target
  <2> QED BY <1>4 DEF Struct
<1> HIDE DEF mid, placed
<1>8. placed.used = mid.used + 1 BY <1>6, <1>7
<1>9. Leads(e, roll, mid) /\ Max(mid.segs) = target /\ Struct(mid)
  <2>1. CASE rolls
    <3>1. target = current + 1 BY <2>1
    <3>2. mid.segs = v.segs \cup {current + 1} /\ mid.used = 0 BY <1>6, <2>1, <3>1
    <3>3. Struct(mid) BY <1>4, <1>5, <1>6, <3>2 DEF Struct
    <3>4. Alike(v, mid) BY <1>6, <3>3 DEF Alike
    <3>5. Leads(e, <<SyncFile(current), Create(current + 1)>>, mid) BY <1>3, <3>2, <3>4, RollLeads
    <3>6. roll = <<SyncFile(current), Create(current + 1)>> BY <2>1, <3>1
    <3> QED BY <1>5, <3>1, <3>2, <3>3, <3>5, <3>6
  <2>2. CASE ~ rolls
    <3>1. target = current /\ roll = <<>> BY <2>2
    <3>2. mid.segs = v.segs /\ mid.used = v.used BY <1>5, <1>6, <2>2, <3>1
    <3>3. Struct(mid) BY <1>4, <1>6, <3>2 DEF Struct
    <3>4. Alike(v, mid) BY <1>6, <3>3 DEF Alike
    <3>5. Leads(e, <<>>, mid) BY <1>3, <3>2, <3>4, CalmLeads, TidyNone
    <3> QED BY <3>1, <3>2, <3>3, <3>5
  <2> QED BY <2>1, <2>2
<1>10. IsSeq(roll) BY <1>9 DEF Leads
<1>11. PICK g : Reaches(e, roll, g) /\ Matches(mid, g) BY <1>9 DEF Leads
<1> HIDE DEF roll, target
<1>12. Reaches(d, acc.calls \o roll, g) /\ IsSeq(acc.calls \o roll)
  BY <1>2, <1>3, <1>10, <1>11, ReachesJoined, Joined
<1>13. /\ Leads(g, last, written) /\ written.first = v.first
       /\ r.kind = "entry" => Len(written.log) = Len(v.log) + 1
  <2>1. CASE r.kind = "entry"
    <3>1. /\ DOMAIN written = DOMAIN mid /\ written.first = mid.first /\ written.snap = mid.snap
          /\ written.segs = mid.segs /\ written.used = mid.used + 1
          /\ written.log = Append(mid.log, r.term) /\ written.at = Append(mid.at, place)
      <4> HIDE DEF place
      <4> QED BY <1>4, <1>6, <1>7, <1>8, <2>1 DEF Struct
    <3>2. place = [seg |-> Max(mid.segs), pos |-> mid.used + 1] BY <1>8, <1>9
    <3> HIDE DEF written, place
    <3>3. /\ Leads(g, <<Write(Max(mid.segs), Entry(mid.first + Len(mid.log), r.term))>>, written)
          /\ Len(written.log) = Len(mid.log) + 1
      BY <1>11, <3>1, <3>2, WriteEntryLeads
    <3>4. r = Entry(mid.first + Len(mid.log), r.term) BY <1>6, <2>1 DEF v
    <3> QED BY <1>6, <1>9, <3>1, <3>3, <3>4
  <2>2. CASE r.kind # "entry"
    <3>1. written = placed BY <2>2
    <3>2. Struct(placed) BY <1>6, <1>7, <1>9 DEF Struct
    <3>3. Alike(mid, placed) BY <1>6, <1>7, <3>2 DEF Alike
    <3>4. placed.segs = mid.segs BY <1>6, <1>7
    <3>5. Leads(g, <<Write(Max(mid.segs), r)>>, placed) BY <1>8, <1>11, <3>3, <3>4, WriteOtherLeads
    <3> HIDE DEF written
    <3> QED BY <1>7, <1>9, <2>2, <3>1, <3>5
  <2> QED BY <2>1, <2>2
<1> HIDE DEF written, last
<1>14. Leads(d, (acc.calls \o roll) \o last, written) BY <1>12, <1>13, LeadsJoined
<1>15. calls = (acc.calls \o roll) \o last OBVIOUS
<1> HIDE DEF calls
<1> QED BY <1>1, <1>13, <1>14, <1>15 DEF v

\* The records are entries from index x on.
EntriesFrom(records, x) ==
  \A k \in 1 .. Len(records) : \E t : records[k] = Entry(x + k - 1, t)

\* The loop of append, over entries that follow the log.
LEMMA WriteRecordsLead ==
  ASSUME NEW d, NEW base, Leads(d, base.calls, base.wal), NEW records, Len(records) \in Nat,
         EntriesFrom(records, base.wal.first + Len(base.wal.log))
  PROVE  LET done == WriteRecords(base, records) IN Leads(d, done.calls, done.wal)
<1> DEFINE N == Len(records)
           w == base.wal
           n == Len(w.log)
           P(acc, k) == /\ Leads(d, acc.calls, acc.wal) /\ acc.wal.first = w.first
                        /\ Len(acc.wal.log) = n + k
<1>1. PICK f : /\ f[0] = base
               /\ \A k \in 1 .. N : f[k] = WriteRecord(f[k - 1], records[k])
               /\ WriteRecords(base, records) = f[N]
  BY LoopSteps
<1>0. Struct(w) BY DEF Leads, Matches
<1>2. n \in Nat /\ w.first \in Nat BY <1>0, LastIs DEF Struct
<1> HIDE DEF w, n
<1> DEFINE S == {k \in 0 .. N : ~ P(f[k], k)}
<1> SUFFICES ASSUME S # {} PROVE FALSE
  <2>1. N \in 0 .. N OBVIOUS
  <2> HIDE DEF N
  <2> QED BY <1>1, <2>1
<1>3. PICK k \in S : \A j \in S : k <= j
  <2>1. S \in SUBSET Nat OBVIOUS
  <2> HIDE DEF S
  <2> QED BY <2>1, LeastExists
<1>4. k \in 0 .. N /\ ~ P(f[k], k) OBVIOUS
<1>5. k # 0
  <2>1. P(f[0], 0) BY <1>1, <1>2 DEF w, n
  <2> QED BY <1>4, <2>1
<1>6. k \in 1 .. N /\ k - 1 \in 0 .. N /\ ~ (k <= k - 1) /\ k - 1 \in Nat BY <1>4, <1>5
<1>7. P(f[k - 1], k - 1) BY <1>3, <1>6
<1>8. f[k] = WriteRecord(f[k - 1], records[k]) BY <1>1, <1>6
<1> DEFINE acc == f[k - 1]
           r == records[k]
<1>9. PICK t : r = Entry(w.first + n + k - 1, t) BY <1>6 DEF w, n, EntriesFrom
<1>10. /\ Leads(d, acc.calls, acc.wal) /\ acc.wal.first = w.first /\ Len(acc.wal.log) = n + (k - 1) BY <1>7
<1> HIDE DEF acc, r
<1>11. w.first + n + k - 1 = w.first + (n + (k - 1)) /\ w.first + n + k - 1 \in Nat BY <1>2, <1>6
<1> DEFINE x == w.first + n + k - 1
<1> HIDE DEF x
<1>12. r = Entry(x, t) /\ x = acc.wal.first + Len(acc.wal.log) /\ x \in Nat BY <1>9, <1>10, <1>11 DEF x
<1>13. IsRecord(r) /\ r.kind = "entry" /\ r.term = t BY <1>12 DEF IsRecord, Entry
<1>14. r = Entry(acc.wal.first + Len(acc.wal.log), r.term) BY <1>12, <1>13
<1> DEFINE next == WriteRecord(acc, r)
<1>15. /\ Leads(d, next.calls, next.wal) /\ next.wal.first = acc.wal.first
       /\ Len(next.wal.log) = Len(acc.wal.log) + 1
  BY <1>10, <1>13, <1>14, WriteRecordLeads
<1>16. f[k] = next BY <1>8 DEF acc, r
<1> HIDE DEF next
<1>17. Len(next.wal.log) = n + k
  <2>1. Len(next.wal.log) = (n + (k - 1)) + 1 BY <1>10, <1>15
  <2> QED BY <1>2, <1>6, <2>1
<1>18. P(f[k], k) BY <1>10, <1>15, <1>16, <1>17
<1> QED BY <1>4, <1>18

\* t is s up to its n-th element.
IsCut(t, s, n) == IsSeq(t) /\ Len(t) = n /\ \A i \in 1 .. n : t[i] = s[i]

LEMMA PrefixIs ==
  ASSUME NEW s, IsSeq(s), NEW n \in 0 .. Len(s)
  PROVE  IsCut(SubSeq(s, 1, n), s, n)
<1>1. PICK S : s \in Seq(S) BY DEF IsSeq
<1>2. Len(s) \in Nat BY <1>1
<1>3. SubSeq(s, 1, n) \in Seq(S) /\ Len(SubSeq(s, 1, n)) = n /\ \A i \in 1 .. n : SubSeq(s, 1, n)[i] = s[i]
  BY <1>1, <1>2
<1> DEFINE t == SubSeq(s, 1, n)
<1> HIDE DEF t
<1>4. IsCut(t, s, n) BY <1>3 DEF IsSeq, IsCut, t
<1> QED BY <1>4 DEF t

\* truncateSuffixFrom.
LEMMA TruncateLeads ==
  ASSUME NEW w, NEW d, Matches(w, d), NEW index \in Nat, w.first <= index, index <= LastIndex(w)
  PROVE  LET result == TruncateSuffixFrom(w, index)
         IN /\ Leads(d, result.calls, result.wal) /\ result.wal.first = w.first
            /\ Len(result.wal.log) = index - w.first
<1> DEFINE p == Lookup(w, index)
           n == index - w.first
           k == n + 1
           kept == {id \in w.segs : id <= p.seg}
           gone == {id \in w.segs : id > p.seg}
           left == Keeping(w, kept)
           c == Truncate(p.seg, p.pos - 1)
           away == UnlinkAfter(w.segs, p.seg)
           sync == SyncAll(left)
           w2 == [Synced(left) EXCEPT !.log = SubSeq(@, 1, n),
                                      !.at = SubSeq(@, 1, n),
                                      !.used = p.pos - 1]
           e == Done(d, c)
           b == d.files[p.seg].body
<1>1. TruncateSuffixFrom(w, index) = [wal |-> w2, calls |-> <<c>> \o away \o sync]
  BY DEF TruncateSuffixFrom
<1>2. Sound(d) /\ Struct(w) BY DEF Matches
<1>3. n \in Nat /\ n \in 0 .. Len(w.log) /\ k \in 1 .. Len(w.log) /\ Len(w.log) \in Nat
      /\ \A i \in 1 .. n : i \in 1 .. Len(w.log) /\ i < k
  BY <1>2, LastIs DEF Struct
<1>4. p = w.at[k] BY DEF Lookup
<1> HIDE DEF p, n
<1>5. \E x : Holds(d, p, x) BY <1>3, <1>4 DEF Matches, Finds
<1>6. p.seg \in w.segs /\ p.seg \in Listed(d.files) /\ p.pos \in 1 .. Len(b) BY <1>5 DEF Holds, Matches
<1>7. IsSeq(b) /\ Len(b) \in Nat
  <2>1. p.seg \in DOMAIN d.files BY <1>6 DEF Listed
  <2>2. IsSeq(b) BY <1>2, <2>1 DEF Sound, Whole, IsFile
  <2> QED BY <2>2, LenProperties DEF IsSeq
<1>8. p.pos - 1 \in 0 .. Len(b) /\ p.pos - 1 \in Nat /\ p.pos \in Nat BY <1>6, <1>7
<1>9. Sound(e) /\ Alters(d, e, p.seg, SubSeq(b, 1, p.pos - 1)) BY <1>2, <1>6, <1>8, TruncateAlters
<1>10. Reaches(d, <<c>>, e) BY <1>2, <1>9, ReachesOne
<1>11. IsSeq(<<c>>) BY TwoCalls
<1> HIDE DEF e, c
<1>12. Tidy(away) /\ Removed(away) = gone BY <1>2, UnlinkAfterTidy DEF Struct
<1>13. PICK g : Reaches(e, away, g) /\ Sound(g) /\ Trims(e, g, gone) BY <1>9, <1>12, TidyRun
<1>14. kept \subseteq w.segs /\ p.seg \in kept /\ p.seg \in Nat /\ \A x \in kept : x <= p.seg
  BY <1>2, <1>6 DEF Struct
<1>15. w.segs \ gone = kept
  <2>1. \A x \in w.segs : x \in Nat BY <1>2 DEF Struct
  <2> QED BY <1>14, <2>1
<1> HIDE DEF kept, gone
<1>16. IsFiniteSet(kept) /\ kept \subseteq Nat /\ kept # {} BY <1>2, <1>14, FS_Subset DEF Struct
<1>17. left.segs = kept BY <1>2 DEF Keeping, Struct
<1>18. Tidy(sync) /\ Removed(sync) = {} BY <1>16, <1>17, SyncAllTidy
<1>19. /\ DOMAIN w2 = DOMAIN w /\ w2.first = w.first /\ w2.snap = w.snap /\ w2.segs = kept
       /\ w2.used = p.pos - 1 /\ w2.log = SubSeq(w.log, 1, n) /\ w2.at = SubSeq(w.at, 1, n)
  BY <1>2 DEF Synced, Keeping, Struct
<1> HIDE DEF left, sync, away, w2
<1>20. PICK h : Reaches(g, sync, h) /\ Sound(h) /\ Trims(g, h, {}) BY <1>13, <1>18, TidyRun
<1>21. Trims(e, h, gone)
  <2>1. Trims(e, h, gone \cup {}) BY <1>13, <1>20, TrimsTwice
  <2>2. gone \cup {} = gone OBVIOUS
  <2> QED BY <2>1, <2>2
<1>22. IsSeq(away) /\ IsSeq(sync) BY <1>12, <1>18 DEF Tidy
<1>23. Reaches(d, <<c>> \o away, g) /\ IsSeq(<<c>> \o away) BY <1>10, <1>11, <1>13, <1>22, ReachesJoined, Joined
<1>24. Reaches(d, (<<c>> \o away) \o sync, h) /\ IsSeq((<<c>> \o away) \o sync)
  BY <1>20, <1>22, <1>23, ReachesJoined, Joined
<1>25. Listed(h.files) = kept /\ \A id \in kept : h.files[id].body = e.files[id].body
  <2>1. Listed(e.files) = w.segs BY <1>6, <1>9 DEF Alters, Matches
  <2> QED BY <1>15, <1>21, <2>1 DEF Trims
<1>26. h.files[p.seg].body = SubSeq(b, 1, p.pos - 1)
       /\ \A id \in kept : id # p.seg => h.files[id].body = d.files[id].body
  BY <1>9, <1>14, <1>25 DEF Alters, Matches
<1> DEFINE s == SubSeq(b, 1, p.pos - 1)
<1>a. IsCut(s, b, p.pos - 1) BY <1>7, <1>8, PrefixIs
<1> HIDE DEF s
<1>27. Len(s) = p.pos - 1 /\ \A i \in 1 .. (p.pos - 1) : s[i] = b[i] BY <1>a DEF IsCut
<1>b. IsSeq(w.log) /\ n \in 0 .. Len(w.log) /\ IsSeq(w.at) /\ n \in 0 .. Len(w.at) BY <1>2, <1>3 DEF Struct
<1>c. IsCut(SubSeq(w.log, 1, n), w.log, n) /\ IsCut(SubSeq(w.at, 1, n), w.at, n) BY <1>b, PrefixIs
<1>d. IsCut(w2.log, w.log, n) /\ IsCut(w2.at, w.at, n) BY <1>19, <1>c
<1>28. IsSeq(w2.log) /\ Len(w2.log) = n /\ \A i \in 1 .. n : w2.log[i] = w.log[i] BY <1>d DEF IsCut
<1>29. IsSeq(w2.at) /\ Len(w2.at) = n /\ \A i \in 1 .. n : w2.at[i] = w.at[i] BY <1>d DEF IsCut
<1>30. Struct(w2) BY <1>2, <1>16, <1>19, <1>28, <1>29 DEF Struct
<1>31. Max(w2.segs) = p.seg
  <2>1. Max(kept) \in kept /\ \A x \in kept : x <= Max(kept) BY <1>16, MaxIs
  <2>2. Max(kept) \in Nat /\ Max(kept) <= p.seg /\ p.seg <= Max(kept) BY <1>14, <1>16, <2>1
  <2> QED BY <1>14, <1>19, <2>2
<1>32. w2.used = Len(h.files[Max(w2.segs)].body) BY <1>19, <1>26, <1>27, <1>31 DEF s
<1>33. ASSUME NEW i \in 1 .. n PROVE Holds(h, w2.at[i], Entry(w2.first + i - 1, w2.log[i]))
  <2> DEFINE q == w.at[i]
             r == Entry(w.first + i - 1, w.log[i])
  <2>1. Holds(d, q, r) BY <1>3 DEF Matches, Finds
  <2>2. Precedes(q, p) BY <1>3, <1>4 DEF Matches, Finds
  <2>3. w2.at[i] = q /\ Entry(w2.first + i - 1, w2.log[i]) = r BY <1>19, <1>28, <1>29
  <2> HIDE DEF q, r
  <2>4. q.seg \in w.segs /\ q.seg \in Nat /\ q.pos \in 1 .. Len(d.files[q.seg].body)
    BY <1>2, <2>1 DEF Holds, Matches, Struct
  <2>5. q.seg <= p.seg BY <1>14, <2>2, <2>4 DEF Precedes
  <2>6. q.seg \in kept BY <2>4, <2>5 DEF kept
  <2>7. CASE q.seg # p.seg
    <3>1. h.files[q.seg].body = d.files[q.seg].body BY <1>26, <2>6, <2>7
    <3>2. Holds(h, q, r) BY <1>25, <2>1, <2>6, <3>1, HoldsKept
    <3> QED BY <2>3, <3>2
  <2>8. CASE q.seg = p.seg
    <3>1. q.pos < p.pos
      <4>1. ~ (q.seg < p.seg) BY <1>14, <2>8
      <4> QED BY <2>2, <4>1 DEF Precedes
    <3>2. q.pos \in 1 .. Len(b) /\ b[q.pos] = r BY <2>1, <2>8 DEF Holds
    <3> HIDE DEF b
    <3>3. q.pos \in 1 .. (p.pos - 1) BY <1>7, <1>8, <3>1, <3>2
    <3>4. s[q.pos] = r /\ Len(s) = p.pos - 1 BY <1>27, <3>2, <3>3
    <3>5. h.files[q.seg].body = s BY <1>26, <2>8 DEF s
    <3>6. Holds(h, q, r) BY <1>25, <2>6, <3>3, <3>4, <3>5 DEF Holds
    <3> QED BY <2>3, <3>6
  <2> QED BY <2>7, <2>8
<1>34. ASSUME NEW i \in 1 .. n, NEW j \in 1 .. n, i < j PROVE Precedes(w2.at[i], w2.at[j])
  <2>1. Precedes(w.at[i], w.at[j]) BY <1>3, <1>34 DEF Matches, Finds
  <2> QED BY <1>29, <2>1
<1>35. Finds(w2, h) BY <1>28, <1>33, <1>34 DEF Finds
<1>36. w2.segs = Listed(h.files) BY <1>19, <1>25
<1>37. Matches(w2, h) BY <1>20, <1>30, <1>32, <1>35, <1>36 DEF Matches
<1> DEFINE calls == (<<c>> \o away) \o sync
<1> HIDE DEF calls
<1>38. Leads(d, calls, w2) BY <1>24, <1>37 DEF Leads, calls
<1>39. TruncateSuffixFrom(w, index).wal = w2 /\ TruncateSuffixFrom(w, index).calls = calls BY <1>1 DEF calls
<1>40. w2.first = w.first /\ Len(w2.log) = index - w.first BY <1>19, <1>28 DEF n
<1> QED BY <1>38, <1>39, <1>40

-----------------------------------------------------------------------------
(***************************************************************************)
(* The index: what every step keeps.                                       *)
(***************************************************************************)
\* The directory is well formed; while the process runs, the struct describes
\* what the directory will be once the calls still to come are made.
LocateInv ==
  /\ Whole(disk)
  /\ phase = "down" => \A id \in DOMAIN disk.files : disk.files[id].name = "durable"
  /\ phase # "open" => todo = <<>>
  /\ phase = "open" => Leads(disk, todo, wal)

LEMMA MatchesNow ==
  ASSUME LocateInv, phase = "open", todo = <<>> PROVE Matches(wal, disk) /\ Struct(wal)
<1>1. Leads(disk, <<>>, wal) BY DEF LocateInv
<1>2. PICK e : Reaches(disk, <<>>, e) /\ Matches(wal, e) BY <1>1 DEF Leads
<1>3. e = disk BY <1>2, ReachesNone
<1> QED BY <1>2, <1>3 DEF Matches

LEMMA AlikeItself ==
  ASSUME NEW w, Struct(w) PROVE Alike(w, w)
BY DEF Alike

LEMMA LeadsNowhere ==
  ASSUME NEW w, NEW d, Matches(w, d) PROVE Leads(d, <<>>, w)
<1>1. Alike(w, w) BY AlikeItself DEF Matches
<1> QED BY <1>1, TidyNone, CalmLeads

\* A return at the end.
LEMMA LeadsReturn ==
  ASSUME NEW d, NEW s, NEW w, Leads(d, s, w), NEW vouches
  PROVE  Leads(d, s \o IF vouches THEN <<Call("return", 0, 0)>> ELSE <<>>, w)
<1> DEFINE c == Call("return", 0, 0)
           t == IF vouches THEN <<c>> ELSE <<>>
<1>1. PICK e : Reaches(d, s, e) /\ Matches(w, e) BY DEF Leads
<1>2. TidyCall(c) /\ Gone(c) = {} BY DEF TidyCall, Gone, Call
<1> HIDE DEF c
<1>3. Tidy(<<c>>) /\ Removed(<<c>>) = {} BY <1>2, TidyOne
<1>4. Tidy(t) /\ Removed(t) = {} BY <1>3, TidyNone
<1> HIDE DEF t
<1>5. Alike(w, w) BY <1>1, AlikeItself DEF Matches
<1>6. Leads(e, t, w) BY <1>1, <1>4, <1>5, CalmLeads
<1>7. IsSeq(s) BY DEF Leads
<1>8. Leads(d, s \o t, w) BY <1>1, <1>6, <1>7, LeadsJoined
<1> QED BY <1>8 DEF t, c

LEMMA StartLocates ==
  ASSUME LocateInv, NEW name, NEW result, NEW vouches, Start(name, result, vouches),
         Leads(disk, result.calls, result.wal)
  PROVE  LocateInv'
<1>1. /\ phase' = "open" /\ wal' = result.wal /\ disk' = disk
      /\ todo' = result.calls \o IF vouches THEN <<Call("return", 0, 0)>> ELSE <<>>
  BY DEF Start
<1>2. Leads(disk, result.calls \o IF vouches THEN <<Call("return", 0, 0)>> ELSE <<>>, result.wal)
  BY LeadsReturn
<1>3. Leads(disk', todo', wal') BY <1>1, <1>2
<1>4. Whole(disk') BY <1>1 DEF LocateInv
<1> QED BY <1>1, <1>3, <1>4 DEF LocateInv

\* A call is made.
LEMMA StepLocates ==
  ASSUME LocateInv, Step PROVE LocateInv'
<1>1. todo # <<>> /\ todo' = Tail(todo) /\ disk' = Done(disk, Head(todo)) /\ wal' = wal /\ phase' = phase
  BY DEF Step
<1>2. phase = "open" BY <1>1 DEF LocateInv
<1>3. IsSeq(todo) BY <1>2 DEF LocateInv, Leads
<1>4. PICK e : Reaches(disk, todo, e) /\ Matches(wal, e) BY <1>2 DEF LocateInv, Leads
<1>5. Reaches(Done(disk, Head(todo)), Tail(todo), e) /\ Sound(Done(disk, Head(todo)))
  BY <1>1, <1>3, <1>4, ReachesRest
<1>6. IsSeq(Tail(todo))
  <2>1. PICK S : todo \in Seq(S) BY <1>3 DEF IsSeq
  <2>2. Tail(todo) \in Seq(S) BY <1>1, <2>1
  <2> QED BY <2>2 DEF IsSeq
<1>7. Leads(Done(disk, Head(todo)), Tail(todo), wal) BY <1>4, <1>5, <1>6 DEF Leads
<1>8. Leads(disk', todo', wal') BY <1>1, <1>7
<1>9. Whole(disk') BY <1>1, <1>5 DEF Sound
<1> QED BY <1>1, <1>2, <1>8, <1>9 DEF LocateInv

\* What sync and saves of metadata do to the struct.
LEMMA SyncedAlike ==
  ASSUME NEW w, Struct(w), NEW b
  PROVE  LET w2 == [Synced(w) EXCEPT !.dirty = b]
         IN Alike(w, w2) /\ w2.segs = w.segs /\ w2.used = w.used
<1> DEFINE w2 == [Synced(w) EXCEPT !.dirty = b]
<1>1. /\ DOMAIN w2 = DOMAIN w /\ w2.first = w.first /\ w2.log = w.log /\ w2.at = w.at
      /\ w2.snap = w.snap /\ w2.segs = w.segs /\ w2.used = w.used
  BY DEF Synced, Struct
<1> HIDE DEF w2
<1>2. Struct(w2) BY <1>1 DEF Struct
<1>3. Alike(w, w2) BY <1>1, <1>2 DEF Alike
<1> QED BY <1>1, <1>3 DEF w2

LEMMA SyncLocates ==
  ASSUME LocateInv, Sync PROVE LocateInv'
<1> DEFINE w2 == [Synced(wal) EXCEPT !.dirty = FALSE]
           calls == IF wal.dirty THEN SegmentsBeforeMetadata(wal) ELSE SyncAll(wal)
           result == [wal |-> w2, calls |-> calls]
<1>1. phase = "open" /\ todo = <<>> /\ Start("sync", result, TRUE) BY DEF Sync, Start
<1>2. Matches(wal, disk) /\ Struct(wal) BY <1>1, MatchesNow
<1>3. Alike(wal, w2) /\ w2.segs = wal.segs /\ w2.used = wal.used BY <1>2, SyncedAlike
<1>4. Tidy(SyncAll(wal)) /\ Removed(SyncAll(wal)) = {} BY <1>2, SyncAllTidy DEF Struct
<1>5. Tidy(Persist(wal, wal.first)) /\ Removed(Persist(wal, wal.first)) = {} BY <1>2, PersistTidy DEF Struct
<1>6. Tidy(SegmentsBeforeMetadata(wal)) /\ Removed(SegmentsBeforeMetadata(wal)) = {}
  BY <1>4, <1>5, TidyJoined DEF SegmentsBeforeMetadata
<1>7. Tidy(calls) /\ Removed(calls) = {} BY <1>4, <1>6
<1>8. result.wal = w2 /\ result.calls = calls OBVIOUS
<1> HIDE DEF w2, calls, result
<1>9. Leads(disk, calls, w2) BY <1>2, <1>3, <1>7, CalmLeads
<1> QED BY <1>1, <1>8, <1>9, StartLocates

LEMMA ReserveLocates ==
  ASSUME LocateInv, ReserveIncarnation PROVE LocateInv'
<1> DEFINE next == [wal EXCEPT !.incarnation = @ + 1]
           w2 == [Synced(next) EXCEPT !.dirty = FALSE]
           calls == SyncAll(wal) \o Persist(next, wal.first)
           result == [wal |-> w2, calls |-> calls]
<1>1. phase = "open" /\ todo = <<>> /\ Start("reserve", result, TRUE) BY DEF ReserveIncarnation, Start
<1>2. Matches(wal, disk) /\ Struct(wal) BY <1>1, MatchesNow
<1>3. /\ DOMAIN next = DOMAIN wal /\ next.first = wal.first /\ next.log = wal.log /\ next.at = wal.at
      /\ next.snap = wal.snap /\ next.segs = wal.segs /\ next.used = wal.used
  BY <1>2 DEF Struct
<1> HIDE DEF next
<1>4. Struct(next) BY <1>2, <1>3 DEF Struct
<1>5. Alike(next, w2) /\ w2.segs = next.segs /\ w2.used = next.used BY <1>4, SyncedAlike
<1> HIDE DEF w2
<1>6. Alike(wal, w2) BY <1>3, <1>5 DEF Alike
<1>7. Tidy(SyncAll(wal)) /\ Removed(SyncAll(wal)) = {} BY <1>2, SyncAllTidy DEF Struct
<1>8. wal.first \in Nat /\ next.snap \in Nat /\ next.snap < wal.first BY <1>2, <1>3 DEF Struct
<1>9. Tidy(Persist(next, wal.first)) /\ Removed(Persist(next, wal.first)) = {} BY <1>8, PersistTidy
<1>10. Tidy(calls) /\ Removed(calls) = {} BY <1>7, <1>9, TidyJoined
<1>11. result.wal = w2 /\ result.calls = calls OBVIOUS
<1> HIDE DEF calls, result
<1>12. Leads(disk, calls, w2) BY <1>2, <1>3, <1>5, <1>6, <1>10, CalmLeads
<1> QED BY <1>1, <1>11, <1>12, StartLocates

LEMMA HardStateLocates ==
  ASSUME LocateInv, NEW commit, SaveHardState(commit) PROVE LocateInv'
<1> DEFINE acc == [wal |-> wal, calls |-> <<>>]
           written == WriteRecord(acc, HardStateRecord)
           result == [written EXCEPT !.wal.hs = [stamp |-> @.stamp + 1, commit |-> commit],
                                     !.wal.dirty = TRUE]
<1>1. phase = "open" /\ todo = <<>> /\ Start("saveHardState", result, FALSE) BY DEF SaveHardState, Start
<1>2. Matches(wal, disk) /\ Struct(wal) BY <1>1, MatchesNow
<1>3. acc.wal = wal /\ acc.calls = <<>> OBVIOUS
<1>4. DOMAIN written = {"wal", "calls"} BY DEF WriteRecord
<1> HIDE DEF acc
<1>5. Leads(disk, acc.calls, acc.wal) BY <1>2, <1>3, LeadsNowhere
<1>6. IsRecord(HardStateRecord) /\ HardStateRecord.kind # "entry" BY DEF IsRecord, HardStateRecord
<1>7. Leads(disk, written.calls, written.wal) BY <1>5, <1>6, WriteRecordLeads
<1> HIDE DEF written
<1> DEFINE hs == [stamp |-> written.wal.hs.stamp + 1, commit |-> commit]
           v == written.wal
           w2 == [v EXCEPT !.hs = hs, !.dirty = TRUE]
<1>8. result.calls = written.calls /\ result.wal = w2 BY <1>4
<1> HIDE DEF hs, v
<1>9. PICK e : Reaches(disk, written.calls, e) /\ Matches(v, e) BY <1>7 DEF Leads, v
<1>10. /\ DOMAIN w2 = DOMAIN v /\ w2.first = v.first /\ w2.log = v.log /\ w2.at = v.at
       /\ w2.snap = v.snap /\ w2.segs = v.segs /\ w2.used = v.used
  BY <1>9 DEF Struct, Matches
<1> HIDE DEF w2
<1>11. Matches(w2, e) BY <1>9, <1>10 DEF Matches, Struct, Finds
<1>12. Leads(disk, written.calls, w2) BY <1>7, <1>9, <1>11 DEF Leads
<1> HIDE DEF result
<1> QED BY <1>1, <1>8, <1>12, StartLocates

\* append: the new entries from index x on are written, after a truncation or
\* where the log ends.
Appending(x, base, new, name) ==
  /\ Start(name, WriteRecords(base, new), FALSE) /\ Len(new) \in Nat
  /\ EntriesFrom(new, x) /\ x \in Nat /\ x = base.wal.first + Len(base.wal.log)
  /\ \/ /\ wal.first <= x /\ x <= LastIndex(wal)
        /\ base = TruncateSuffixFrom(wal, x) /\ floor' = Min({floor, x})
     \/ base = [wal |-> wal, calls |-> <<>>] /\ floor' = floor

LEMMA AppendIs ==
  ASSUME LocateInv, NEW index \in Nat, NEW n \in Nat, NEW term, AppendEntries(index, n, term)
  PROVE  \E x, base, new, name : Appending(x, base, new, name)
<1> DEFINE batch == [i \in 1 .. n |-> Entry(index + i - 1, term)]
           last == LastIndex(wal)
           Agrees(e) == e.index <= LastIndex(wal) /\ wal.log[e.index - wal.first + 1] = e.term
           K == {k \in 0 .. n : \A i \in 1 .. k : Agrees(batch[i])}
           skip == Max(K)
           new == SubSeq(batch, skip + 1, n)
           conflict == new[1].index <= LastIndex(wal)
           base == IF conflict THEN TruncateSuffixFrom(wal, new[1].index)
                   ELSE [wal |-> wal, calls |-> <<>>]
           name == IF conflict THEN "overwrite" ELSE "append"
           x == index + skip
<1>1. /\ phase = "open" /\ Start(name, WriteRecords(base, new), FALSE) /\ new # <<>>
      /\ index >= wal.first /\ index <= last + 1
      /\ IF conflict THEN floor' = Min({floor, new[1].index}) ELSE floor' = floor
  BY DEF AppendEntries, Lower
<1>2. todo = <<>> BY <1>1 DEF Start
<1>3. Matches(wal, disk) /\ Struct(wal) BY <1>1, <1>2, MatchesNow
<1>4. Len(wal.log) \in Nat /\ last = wal.first + Len(wal.log) - 1 /\ wal.first \in Nat
  BY <1>3, LastIs DEF Struct
<1>5. skip \in 0 .. n /\ \A i \in 1 .. skip : batch[i].index <= last
  <2>1. K \subseteq 0 .. n /\ 0 \in K OBVIOUS
  <2>2. \A k \in K : \A i \in 1 .. k : batch[i].index <= last OBVIOUS
  <2> HIDE DEF K
  <2>3. IsFiniteSet(0 .. n) BY FS_Interval
  <2>4. IsFiniteSet(K) BY <2>1, <2>3, FS_Subset
  <2>5. 0 .. n \subseteq Nat OBVIOUS
  <2>6. K \subseteq Nat /\ K # {} BY <2>1, <2>5
  <2>7. Max(K) \in K BY <2>4, <2>6, MaxIs
  <2> QED BY <2>1, <2>2, <2>7
<1>6. /\ DOMAIN batch = 1 .. n /\ batch = [i \in 1 .. n |-> batch[i]]
      /\ \A i \in 1 .. n : batch[i] = Entry(index + i - 1, term)
  OBVIOUS
<1> HIDE DEF batch, skip, last
<1>7. IsSeq(batch) /\ Len(batch) = n BY <1>6, ListIsSeq
<1>8. RestOf(new, batch, skip + 1)
  <2>1. skip + 1 \in Nat /\ skip + 1 >= 1 BY <1>5
  <2>2. RestOf(SubSeq(batch, skip + 1, Len(batch)), batch, skip + 1) BY <1>7, <2>1, SuffixIs
  <2> QED BY <1>7, <2>2
<1> HIDE DEF new, K
<1>9. /\ IsSeq(new) /\ Len(new) = IF skip + 1 <= n THEN n - (skip + 1) + 1 ELSE 0
      /\ \A i \in 1 .. Len(new) : (i + (skip + 1)) - 1 \in 1 .. n /\ new[i] = batch[(i + (skip + 1)) - 1]
  BY <1>7, <1>8 DEF RestOf
<1>10. Len(new) \in Nat /\ 1 \in 1 .. Len(new)
  <2>1. PICK S : new \in Seq(S) BY <1>9 DEF IsSeq
  <2>2. Len(new) \in Nat /\ Len(new) # 0 BY <1>1, <2>1
  <2> QED BY <2>2
<1>11. x \in Nat /\ x >= wal.first /\ x <= last + 1
  <2>1. x \in Nat /\ x >= wal.first BY <1>1, <1>4, <1>5
  <2>2. CASE skip = 0 BY <1>1, <1>4, <2>1, <2>2
  <2>3. CASE skip # 0
    <3>1. skip \in 1 .. skip /\ skip \in 1 .. n BY <1>5, <2>3
    <3>2. batch[skip] = Entry(index + skip - 1, term) /\ batch[skip].index <= last BY <1>5, <1>6, <3>1
    <3>3. index + skip - 1 <= last BY <3>2 DEF Entry
    <3> QED BY <1>4, <1>5, <2>1, <3>3
  <2> QED BY <2>2, <2>3
<1>12. ASSUME NEW k \in 1 .. Len(new) PROVE new[k] = Entry(x + k - 1, term)
  <2>1. (k + (skip + 1)) - 1 \in 1 .. n /\ new[k] = batch[(k + (skip + 1)) - 1] BY <1>9
  <2>2. index + ((k + (skip + 1)) - 1) - 1 = x + k - 1 BY <1>5, <1>10
  <2> DEFINE j == (k + (skip + 1)) - 1
  <2> HIDE DEF j, x
  <2>3. new[k] = batch[j] /\ j \in 1 .. n /\ index + j - 1 = x + k - 1 BY <2>1, <2>2 DEF j
  <2> QED BY <1>6, <2>3
<1>13. new[1].index = x
  <2>1. x + 1 - 1 = x BY <1>11
  <2>2. new[1] = Entry(x, term) BY <1>10, <1>12, <2>1
  <2> HIDE DEF x
  <2> QED BY <2>2 DEF Entry
<1> HIDE DEF x
<1>14. /\ x = base.wal.first + Len(base.wal.log)
       /\ \/ x <= last /\ base = TruncateSuffixFrom(wal, x) /\ floor' = Min({floor, x})
          \/ base = [wal |-> wal, calls |-> <<>>] /\ floor' = floor
  <2>1. CASE conflict
    <3>1. x <= last BY <1>13, <2>1 DEF last
    <3>2. base = TruncateSuffixFrom(wal, x) BY <1>13, <2>1
    <3>a. floor' = Min({floor, x}) BY <1>1, <1>13, <2>1
    <3> HIDE DEF base
    <3>3. base.wal.first = wal.first /\ Len(base.wal.log) = x - wal.first
      BY <1>3, <1>4, <1>11, <3>1, <3>2, TruncateLeads DEF last
    <3>4. x = wal.first + (x - wal.first) BY <1>4, <1>11
    <3> QED BY <3>1, <3>2, <3>3, <3>4, <3>a
  <2>2. CASE ~ conflict
    <3>1. ~ (x <= last) BY <1>13, <2>2 DEF last
    <3>2. base = [wal |-> wal, calls |-> <<>>] BY <2>2
    <3>a. floor' = floor BY <1>1, <2>2
    <3>3. base.wal = wal /\ base.calls = <<>> BY <3>2
    <3> HIDE DEF base
    <3>5. x = wal.first + Len(wal.log) BY <1>4, <1>11, <3>1
    <3> QED BY <3>2, <3>3, <3>5, <3>a
  <2> QED BY <2>1, <2>2
<1>15. EntriesFrom(new, x) BY <1>12 DEF EntriesFrom
<1> HIDE DEF base, conflict, name
<1>16. Appending(x, base, new, name) BY <1>1, <1>10, <1>11, <1>14, <1>15 DEF Appending, last
<1> QED BY <1>16

LEMMA AppendLocates ==
  ASSUME LocateInv, NEW index \in Nat, NEW n \in Nat, NEW term, AppendEntries(index, n, term)
  PROVE  LocateInv'
<1>1. PICK x, base, new, name : Appending(x, base, new, name) BY AppendIs
<1> DEFINE result == WriteRecords(base, new)
<1>2. /\ Start(name, result, FALSE) /\ Len(new) \in Nat /\ EntriesFrom(new, x)
      /\ x = base.wal.first + Len(base.wal.log) /\ x \in Nat
  BY <1>1 DEF Appending
<1>3. Matches(wal, disk)
  <2>1. phase = "open" /\ todo = <<>> BY <1>2 DEF Start
  <2> QED BY <2>1, MatchesNow
<1>4. Leads(disk, base.calls, base.wal)
  <2>1. CASE base = [wal |-> wal, calls |-> <<>>]
    <3>1. base.wal = wal /\ base.calls = <<>> BY <2>1
    <3> QED BY <1>3, <3>1, LeadsNowhere
  <2>2. CASE wal.first <= x /\ x <= LastIndex(wal) /\ base = TruncateSuffixFrom(wal, x)
    BY <1>2, <1>3, <2>2, TruncateLeads
  <2> QED BY <1>1, <2>1, <2>2 DEF Appending
<1>5. Leads(disk, result.calls, result.wal) BY <1>2, <1>4, WriteRecordsLead
<1> HIDE DEF result
<1> QED BY <1>2, <1>5, StartLocates

LEMMA CompactLocates ==
  ASSUME LocateInv, NEW index \in Nat, Compact(index) PROVE LocateInv'
<1>0. phase = "open" /\ todo = <<>> BY DEF Compact, Start
<1>1. Matches(wal, disk) /\ Struct(wal) BY <1>0, MatchesNow
<1>2. CASE wal.log = <<>> \/ index <= wal.first
  <2>1. Start("compact", Cleanup(wal), FALSE) BY <1>2 DEF Compact
  <2>2. Tidy(Cleanup(wal).calls) BY <1>1, CleanupTidy
  <2>3. Leads(disk, Cleanup(wal).calls, Cleanup(wal).wal) BY <1>1, <2>2, CleanupLeads
  <2> QED BY <2>1, <2>3, StartLocates
<1>3. CASE ~ (wal.log = <<>> \/ index <= wal.first)
  <2> DEFINE w2 == [CompactMemory(Synced(wal), index) EXCEPT !.dirty = FALSE]
             c == Cleanup(w2)
             calls == SyncAll(wal) \o Persist(wal, index) \o c.calls
             result == [wal |-> c.wal, calls |-> calls]
  <2>1. Start("compact", result, TRUE) BY <1>3 DEF Compact
  <2>2. wal.first \in Nat /\ wal.snap \in Nat /\ wal.snap < wal.first /\ index >= wal.first /\ wal.snap < index
    BY <1>1, <1>3 DEF Struct
  <2>3. /\ DOMAIN w2 = DOMAIN wal /\ w2.first = index /\ w2.snap = wal.snap
        /\ w2.log = SubSeq(wal.log, index - wal.first + 1, Len(wal.log))
        /\ w2.at = SubSeq(wal.at, index - wal.first + 1, Len(wal.at))
        /\ w2.segs = wal.segs /\ w2.used = wal.used
    BY <1>1 DEF Synced, CompactMemory, Struct
  <2> HIDE DEF w2
  <2>4. Matches(w2, disk) BY <1>1, <2>2, <2>3, CompactMatches
  <2>5. Struct(w2) BY <2>4 DEF Matches
  <2>6. Tidy(c.calls) BY <2>5, CleanupTidy
  <2>7. Tidy(SyncAll(wal)) /\ Removed(SyncAll(wal)) = {} BY <1>1, SyncAllTidy DEF Struct
  <2>8. Tidy(Persist(wal, index)) /\ Removed(Persist(wal, index)) = {} BY <2>2, PersistTidy
  <2>9. Tidy(SyncAll(wal) \o Persist(wal, index)) /\ Removed(SyncAll(wal) \o Persist(wal, index)) = {}
    BY <2>7, <2>8, TidyJoined
  <2>10. Tidy(calls) /\ Removed(calls) = Removed(c.calls) BY <2>6, <2>9, TidyJoined
  <2>11. result.wal = c.wal /\ result.calls = calls OBVIOUS
  <2> HIDE DEF calls, result
  <2>12. Leads(disk, calls, c.wal) BY <2>4, <2>10, CleanupLeads
  <2> HIDE DEF c
  <2> QED BY <2>1, <2>11, <2>12, StartLocates
<1> QED BY <1>2, <1>3

LEMMA LocalSnapshotLocates ==
  ASSUME LocateInv, NEW index \in Nat, ApplyLocalSnapshot(index) PROVE LocateInv'
<1> DEFINE snapped == [Synced(wal) EXCEPT !.snap = index, !.dirty = FALSE]
           w2 == CompactMemory(snapped, index + 1)
           c == Cleanup(w2)
           save == <<SaveMetadata(MetadataOf(snapped, index + 1, FirstSegmentIdFor(wal, index + 1)))>>
           calls == SyncAll(wal) \o <<SaveSnapshot(index)>> \o save \o c.calls \o RemoveOldSnapshot
           result == [wal |-> c.wal, calls |-> calls]
<1>1. /\ phase = "open" /\ todo = <<>> /\ index >= wal.first /\ Start("localSnapshot", result, TRUE)
  BY DEF ApplyLocalSnapshot, Start
<1>2. Matches(wal, disk) /\ Struct(wal) BY <1>1, MatchesNow
<1>3. /\ DOMAIN snapped = DOMAIN wal /\ snapped.first = wal.first /\ snapped.snap = index
      /\ snapped.log = wal.log /\ snapped.at = wal.at /\ snapped.segs = wal.segs /\ snapped.used = wal.used
  BY <1>2 DEF Synced, Struct
<1>4. wal.first \in Nat /\ index + 1 \in Nat /\ index + 1 >= wal.first /\ index < index + 1
  BY <1>1, <1>2 DEF Struct
<1> HIDE DEF snapped
<1>5. Tidy(save) /\ Removed(save) = {} BY <1>3, <1>4, SaveTidy
<1>6. /\ DOMAIN w2 = DOMAIN wal /\ w2.first = index + 1 /\ w2.snap = index
      /\ w2.log = SubSeq(wal.log, (index + 1) - wal.first + 1, Len(wal.log))
      /\ w2.at = SubSeq(wal.at, (index + 1) - wal.first + 1, Len(wal.at))
      /\ w2.segs = wal.segs /\ w2.used = wal.used
  BY <1>2, <1>3 DEF CompactMemory, Struct
<1> HIDE DEF w2, save
<1>7. Matches(w2, disk)
  <2> DEFINE next == index + 1
  <2> HIDE DEF next
  <2>1. next \in Nat /\ next >= wal.first /\ w2.first = next /\ w2.snap \in Nat /\ w2.snap < next
    BY <1>4, <1>6 DEF next
  <2>2. /\ w2.log = SubSeq(wal.log, next - wal.first + 1, Len(wal.log))
        /\ w2.at = SubSeq(wal.at, next - wal.first + 1, Len(wal.at))
    BY <1>6 DEF next
  <2> QED BY <1>2, <1>6, <2>1, <2>2, CompactMatches
<1>8. Struct(w2) BY <1>7 DEF Matches
<1>9. Tidy(c.calls) BY <1>8, CleanupTidy
<1>10. Tidy(SyncAll(wal)) /\ Removed(SyncAll(wal)) = {} BY <1>2, SyncAllTidy DEF Struct
<1> DEFINE a == SyncAll(wal)
           b == <<SaveSnapshot(index)>>
           r == RemoveOldSnapshot
<1>11. Tidy(b) /\ Removed(b) = {} /\ Tidy(r) /\ Removed(r) = {} BY SnapshotsTidy
<1> HIDE DEF a, b, r
<1>12. Tidy(a \o b) /\ Removed(a \o b) = {} BY <1>10, <1>11, TidyJoined DEF a
<1>13. Tidy(a \o b \o save) /\ Removed(a \o b \o save) = {} BY <1>5, <1>12, TidyJoined
<1>14. Tidy(a \o b \o save \o c.calls) /\ Removed(a \o b \o save \o c.calls) = Removed(c.calls)
  BY <1>9, <1>13, TidyJoined
<1>15. Tidy(a \o b \o save \o c.calls \o r) /\ Removed(a \o b \o save \o c.calls \o r) = Removed(c.calls)
  BY <1>11, <1>14, TidyJoined
<1>16. Tidy(calls) /\ Removed(calls) = Removed(c.calls) BY <1>15 DEF a, b, r
<1>17. result.wal = c.wal /\ result.calls = calls OBVIOUS
<1> HIDE DEF calls, result
<1>18. Leads(disk, calls, c.wal) BY <1>7, <1>16, CleanupLeads
<1> HIDE DEF c
<1> QED BY <1>1, <1>17, <1>18, StartLocates

\* Calls that only remove segments, after others.
LEMMA LeadsTidily ==
  ASSUME NEW d, NEW s, NEW w, Leads(d, s, w), NEW t, Tidy(t), NEW w2, Alike(w, w2),
         w2.segs = w.segs \ Removed(t), w2.used = w.used, Max(w.segs) \notin Removed(t),
         \A i \in 1 .. Len(w.log) : w.at[i].seg \notin Removed(t)
  PROVE  Leads(d, s \o t, w2)
<1>1. IsSeq(s) /\ \E e : Reaches(d, s, e) /\ Matches(w, e) BY DEF Leads
<1>2. PICK e : Reaches(d, s, e) /\ Matches(w, e) BY <1>1
<1>3. Leads(e, t, w2) BY <1>2, TidyLeads
<1> QED BY <1>1, <1>2, <1>3, LeadsJoined

LEMMA LeadsCalmly ==
  ASSUME NEW d, NEW s, NEW w, Leads(d, s, w), NEW t, Tidy(t), Removed(t) = {}
  PROVE  Leads(d, s \o t, w)
<1>1. Struct(w) BY DEF Leads, Matches
<1> QED BY <1>1, AlikeItself, LeadsTidily

LEMMA SnapshotLocates ==
  ASSUME LocateInv, NEW index \in Nat, ApplySnapshot(index) PROVE LocateInv'
<1> DEFINE top == Max(wal.segs)
           seg == top + 1
           rolled == [wal EXCEPT !.segs = @ \cup {seg}, !.used = 0, !.dirDirty = TRUE]
           reset == [Synced(rolled) EXCEPT !.first = index + 1, !.log = <<>>, !.at = <<>>,
                                           !.hs.commit = index, !.snap = index, !.dirty = FALSE]
           left == Keeping(reset, {seg})
           roll == <<SyncFile(seg - 1), Create(seg)>>
           a == SaveSnapshot(index)
           b == SaveMetadata(MetadataOf(reset, index + 1, seg))
           saves == <<a, b>>
           away == UnlinkBefore(wal.segs, seg)
           calls == roll \o SyncAll(rolled) \o saves \o away \o SyncAll(left) \o RemoveOldSnapshot
           w2 == Synced(left)
           result == [wal |-> w2, calls |-> calls]
<1>1. phase = "open" /\ todo = <<>> /\ Start("snapshot", result, TRUE) BY DEF ApplySnapshot, Start
<1>2. Matches(wal, disk) /\ Struct(wal) BY <1>1, MatchesNow
<1>3. /\ top \in Nat /\ \A x \in wal.segs : x <= top
      /\ seg \in Nat /\ seg \notin wal.segs /\ Max(wal.segs \cup {seg}) = seg
      /\ IsFiniteSet(wal.segs \cup {seg}) /\ wal.segs \cup {seg} \subseteq Nat
  BY <1>2, AboveMax
<1>4. seg - 1 = top /\ (\A x \in wal.segs : x < seg) /\ index + 1 \in Nat /\ index < index + 1
  BY <1>2, <1>3 DEF Struct
<1>5. roll = <<SyncFile(top), Create(top + 1)>> BY <1>4
<1> HIDE DEF roll
<1>6. DOMAIN rolled = DOMAIN wal /\ rolled.segs = wal.segs \cup {seg} /\ rolled.used = 0
  BY <1>2 DEF Struct
<1> HIDE DEF rolled
<1>7. DOMAIN Synced(rolled) = DOMAIN wal /\ Synced(rolled).segs = rolled.segs /\ Synced(rolled).used = 0
  BY <1>2, <1>6 DEF Synced, Struct
<1>8. /\ DOMAIN reset = DOMAIN wal /\ reset.first = index + 1 /\ reset.log = <<>> /\ reset.at = <<>>
      /\ reset.snap = index /\ reset.segs = wal.segs \cup {seg} /\ reset.used = 0
  BY <1>2, <1>6, <1>7 DEF Struct
<1> HIDE DEF reset, seg
<1>9. Struct(reset)
  <2>1. IsSeq(<<>>) BY TidyNone DEF Tidy
  <2> QED BY <1>2, <1>3, <1>4, <1>8, <2>1 DEF Struct
<1> DEFINE w0 == [reset EXCEPT !.segs = wal.segs, !.used = wal.used]
<1>10. /\ DOMAIN w0 = DOMAIN wal /\ w0.first = index + 1 /\ w0.log = <<>> /\ w0.at = <<>>
       /\ w0.snap = index /\ w0.segs = wal.segs /\ w0.used = wal.used
  BY <1>2, <1>8 DEF Struct
<1> HIDE DEF w0
<1>11. Matches(w0, disk) BY <1>2, <1>4, <1>10, EmptiedMatches
<1>12. Alike(w0, reset) BY <1>8, <1>9, <1>10 DEF Alike
<1>13. Leads(disk, roll, reset)
  <2>1. reset.segs = w0.segs \cup {Max(w0.segs) + 1} BY <1>8, <1>10 DEF seg
  <2>2. Leads(disk, <<SyncFile(Max(w0.segs)), Create(Max(w0.segs) + 1)>>, reset)
    BY <1>8, <1>11, <1>12, <2>1, RollLeads
  <2> QED BY <1>5, <1>10, <2>2
<1>14. Tidy(SyncAll(rolled)) /\ Removed(SyncAll(rolled)) = {} BY <1>3, <1>6, SyncAllTidy
<1>15. Tidy(saves) /\ Removed(saves) = {}
  <2>1. Tidy(<<a>>) /\ Removed(<<a>>) = {} BY SnapshotsTidy
  <2>2. Tidy(<<b>>) /\ Removed(<<b>>) = {} BY <1>4, <1>8, SaveTidy
  <2> HIDE DEF a, b
  <2>3. <<a>> \o <<b>> = saves BY TwoCalls
  <2>4. Tidy(<<a>> \o <<b>>) /\ Removed(<<a>> \o <<b>>) = {} BY <2>1, <2>2, TidyJoined
  <2> QED BY <2>3, <2>4
<1>16. Tidy(away) /\ Removed(away) = wal.segs
  <2>1. Tidy(away) /\ Removed(away) = {id \in wal.segs : id < seg} BY <1>2, UnlinkBeforeTidy DEF Struct
  <2> QED BY <1>4, <2>1
<1>17. /\ DOMAIN left = DOMAIN wal /\ left.first = index + 1 /\ left.log = <<>> /\ left.at = <<>>
       /\ left.snap = index /\ left.segs = {seg} /\ left.used = 0
  BY <1>2, <1>8 DEF Keeping, Struct
<1> HIDE DEF left
<1>18. /\ DOMAIN w2 = DOMAIN wal /\ w2.first = index + 1 /\ w2.log = <<>> /\ w2.at = <<>>
       /\ w2.snap = index /\ w2.segs = {seg} /\ w2.used = 0
  BY <1>2, <1>17 DEF Synced, Struct
<1>19. IsFiniteSet({seg}) BY FS_Singleton
<1>20. Tidy(SyncAll(left)) /\ Removed(SyncAll(left)) = {} BY <1>17, <1>19, SyncAllTidy
<1> HIDE DEF w2, saves, away
<1>21. Alike(reset, w2)
  <2>1. Struct(w2) BY <1>3, <1>9, <1>8, <1>18, <1>19 DEF Struct
  <2> QED BY <1>8, <1>18, <2>1 DEF Alike
<1>22. Leads(disk, roll \o SyncAll(rolled), reset) BY <1>13, <1>14, LeadsCalmly
<1>23. Leads(disk, roll \o SyncAll(rolled) \o saves, reset) BY <1>15, <1>22, LeadsCalmly
<1>24. Leads(disk, roll \o SyncAll(rolled) \o saves \o away, w2)
  <2>1. w2.segs = reset.segs \ Removed(away) BY <1>3, <1>8, <1>16, <1>18
  <2>2. w2.used = reset.used /\ Max(reset.segs) \notin Removed(away) BY <1>3, <1>8, <1>16, <1>18
  <2>3. \A i \in 1 .. Len(reset.log) : FALSE
    <3>1. Len(reset.log) = 0 BY <1>8
    <3> QED BY <3>1
  <2>4. \A i \in 1 .. Len(reset.log) : reset.at[i].seg \notin Removed(away) BY <2>3
  <2> QED BY <1>16, <1>21, <1>23, <2>1, <2>2, <2>4, LeadsTidily
<1>25. Leads(disk, roll \o SyncAll(rolled) \o saves \o away \o SyncAll(left), w2)
  BY <1>20, <1>24, LeadsCalmly
<1>26. Tidy(RemoveOldSnapshot) /\ Removed(RemoveOldSnapshot) = {} BY SnapshotsTidy
<1>27. Leads(disk, calls, w2) BY <1>25, <1>26, LeadsCalmly
<1>28. result.wal = w2 /\ result.calls = calls OBVIOUS
<1> HIDE DEF calls, result
<1> QED BY <1>1, <1>27, <1>28, StartLocates

-----------------------------------------------------------------------------
(***************************************************************************)
(* Crashes: what is left of a sound directory is well formed.              *)
(***************************************************************************)
\* g has the synced records of f, perhaps some that follow, and all are synced.
Remains(f, g) ==
  /\ Len(g.body) \in f.synced .. Len(f.body) /\ g.synced = Len(g.body)
  /\ \A p \in 1 .. Len(g.body) : g.body[p] = f.body[p]

\* A file as a crash leaves it.
Left(h, b, k, t) == [name |-> "durable", header |-> h, body |-> SubSeq(b, 1, k), synced |-> k, torn |-> t]

LEMMA LeftIs ==
  ASSUME NEW h \in {"durable", "missing"}, NEW b, IsSeq(b), \A p \in 1 .. Len(b) : IsRecord(b[p]),
         NEW k \in 0 .. Len(b), NEW t \in BOOLEAN
  PROVE  LET f == Left(h, b, k, t)
         IN /\ IsFile(f) /\ f.name = "durable"
            /\ f.synced = k /\ Len(f.body) = k /\ \A p \in 1 .. k : f.body[p] = b[p]
<1> DEFINE s == SubSeq(b, 1, k)
           f == [name |-> "durable", header |-> h, body |-> s, synced |-> k, torn |-> t]
<1>1. IsSeq(s) /\ Len(s) = k /\ \A p \in 1 .. k : s[p] = b[p] /\ IsRecord(s[p]) BY CutIs
<1>2. k \in Nat
  <2>1. PICK S : b \in Seq(S) BY DEF IsSeq
  <2> QED BY <2>1
<1> HIDE DEF s
<1>3. /\ DOMAIN f = {"name", "header", "body", "synced", "torn"}
      /\ f.name = "durable" /\ f.header = h /\ f.body = s /\ f.synced = k /\ f.torn = t
  OBVIOUS
<1> HIDE DEF f
<1>4. IsFile(f)
  <2>1. k \in 0 .. k BY <1>2
  <2>2. f.header \in {"written", "durable", "missing"} BY <1>3
  <2> QED BY <1>1, <1>3, <2>1, <2>2 DEF IsFile
<1>5. f.synced = k /\ Len(f.body) = k /\ \A p \in 1 .. k : f.body[p] = b[p] BY <1>1, <1>3
<1> QED BY <1>3, <1>4, <1>5 DEF Left, f, s

LEMMA SurvivesIs ==
  ASSUME NEW f, IsFile(f), f.header # "missing"
  PROVE  (\A g \in Survives(f) : IsFile(g) /\ g.name = "durable" /\ Remains(f, g)) /\ Survives(f) # {}
<1> DEFINE H == IF f.header = "written" THEN {"durable", "missing"} ELSE {f.header}
           T == IF f.torn THEN {TRUE} ELSE BOOLEAN
           K == f.synced .. Len(f.body)
<1>1. Survivals(f) = {Left(h, f.body, k, t) : h \in H, k \in K, t \in T} BY DEF Survivals, Left
<1>2. /\ IsSeq(f.body) /\ (\A p \in 1 .. Len(f.body) : IsRecord(f.body[p]))
      /\ f.synced \in 0 .. Len(f.body) /\ f.header \in {"written", "durable"} /\ f.torn \in BOOLEAN
  BY DEF IsFile
<1>3. Len(f.body) \in Nat
  <2>1. PICK S : f.body \in Seq(S) BY <1>2 DEF IsSeq
  <2> QED BY <2>1
<1>4. H \subseteq {"durable", "missing"} /\ "durable" \in H BY <1>2
<1>5. T \subseteq BOOLEAN /\ f.torn \in T BY <1>2
<1>6. K \subseteq 0 .. Len(f.body) /\ Len(f.body) \in K BY <1>2, <1>3
<1> HIDE DEF H, T, K
<1>7. ASSUME NEW g \in Survives(f) PROVE IsFile(g) /\ g.name = "durable" /\ Remains(f, g)
  <2>1. g \in Survivals(f) BY DEF Survives
  <2>2. PICK h \in H, k \in K, t \in T : g = Left(h, f.body, k, t) BY <1>1, <2>1
  <2>3. /\ IsFile(g) /\ g.name = "durable"
        /\ g.synced = k /\ Len(g.body) = k /\ \A p \in 1 .. k : g.body[p] = f.body[p]
    BY <1>2, <1>4, <1>5, <1>6, <2>2, LeftIs
  <2>4. k \in f.synced .. Len(f.body) BY DEF K
  <2> QED BY <2>3, <2>4 DEF Remains
<1>8. Survives(f) # {}
  <2> DEFINE g == Left("durable", f.body, Len(f.body), f.torn)
  <2>1. g \in Survivals(f) BY <1>1, <1>4, <1>5, <1>6
  <2>2. g.header = "durable" /\ g.torn = f.torn BY DEF Left
  <2> HIDE DEF g
  <2>3. g \in Survives(f) BY <2>1, <2>2 DEF Survives
  <2> QED BY <2>3
<1> QED BY <1>7, <1>8

LEMMA CrashWhole ==
  ASSUME NEW d, Sound(d), NEW e \in Crashes(d)
  PROVE  /\ Whole(e) /\ e.metadata = d.metadata
         /\ \A id \in DOMAIN e.files : /\ e.files[id].name = "durable"
                                       /\ id \in DOMAIN d.files /\ Remains(d.files[id], e.files[id])
         /\ \A id \in DOMAIN d.files : d.files[id].name = "durable" => id \in DOMAIN e.files
<1> DEFINE May(id) == Survives(d.files[id])
           Unsure == {id \in DOMAIN d.files : d.files[id].name # "durable"}
           Fixed(id) == Cardinality(May(id)) = 1
           Ways(ids) == {w \in [{id \in ids : ~Fixed(id)} -> UNION {May(id) : id \in {i \in ids : ~Fixed(i)}}] :
                           \A id \in {i \in ids : ~Fixed(i)} : w[id] \in May(id)}
           Kept(ids) == {[id \in ids |-> IF Fixed(id) THEN CHOOSE f \in May(id) : TRUE ELSE w[id]] : w \in Ways(ids)}
           All == UNION {Kept(DOMAIN d.files \ lost) : lost \in SUBSET Unsure}
<1>1. Crashes(d) = {[d EXCEPT !.files = files] : files \in All} BY DEF Crashes
<1> HIDE DEF All
<1>2. PICK files \in All : e = [d EXCEPT !.files = files] BY <1>1
<1>3. PICK lost \in SUBSET Unsure : files \in Kept(DOMAIN d.files \ lost) BY <1>2 DEF All
<1>4. \A id \in DOMAIN d.files :
        (\A g \in May(id) : IsFile(g) /\ g.name = "durable" /\ Remains(d.files[id], g)) /\ May(id) # {}
  BY SurvivesIs DEF Sound, Whole
<1> DEFINE ids == DOMAIN d.files \ lost
<1>5. /\ files \in Kept(ids) /\ ids \subseteq DOMAIN d.files
      /\ \A id \in DOMAIN d.files : d.files[id].name = "durable" => id \in ids
  BY <1>3
<1> HIDE DEF ids
<1>6. DOMAIN files = ids /\ \A id \in ids : files[id] \in May(id)
  <2> HIDE DEF May
  <2>1. PICK w \in Ways(ids) : files = [id \in ids |-> IF Fixed(id) THEN CHOOSE f \in May(id) : TRUE ELSE w[id]]
    BY <1>5
  <2>2. \A id \in ids : ~Fixed(id) => w[id] \in May(id) BY <2>1
  <2> HIDE DEF Fixed, Ways
  <2>3. ASSUME NEW id \in ids PROVE files[id] \in May(id)
    <3>1. \E f \in May(id) : TRUE BY <1>4, <1>5
    <3>2. (CHOOSE f \in May(id) : TRUE) \in May(id) BY <3>1
    <3> QED BY <2>1, <2>2, <3>2
  <2> QED BY <2>1, <2>3
<1> HIDE DEF May
<1>7. \A id \in DOMAIN files : IsFile(files[id]) /\ files[id].name = "durable" /\ Remains(d.files[id], files[id])
  BY <1>4, <1>5, <1>6
<1>8. IsFiniteSet(DOMAIN files) /\ DOMAIN files \subseteq Nat BY <1>5, <1>6, FS_Subset DEF Sound, Whole
<1>9. e.files = files /\ e.metadata = d.metadata /\ DOMAIN e = DOMAIN d BY <1>2 DEF Sound, Whole
<1> QED BY <1>5, <1>6, <1>7, <1>8, <1>9 DEF Sound, Whole

LEMMA LeadsFromSound ==
  ASSUME NEW d, NEW s, NEW w, Leads(d, s, w) PROVE Sound(d)
<1>1. IsSeq(s) /\ \E e : Reaches(d, s, e) BY DEF Leads
<1>2. Len(s) \in Nat
  <2>1. PICK S : s \in Seq(S) BY <1>1 DEF IsSeq
  <2> QED BY <2>1
<1>3. PICK f : f[0] = d /\ \A k \in 0 .. Len(s) : Sound(f[k]) BY <1>1 DEF Reaches, Within, Passing
<1> QED BY <1>2, <1>3

LEMMA CrashLocates ==
  ASSUME LocateInv, Crash PROVE LocateInv'
<1>1. phase = "open" /\ disk' \in Crashes(disk) /\ phase' = "down" /\ todo' = <<>> BY DEF Crash
<1>2. Sound(disk) BY <1>1, LeadsFromSound DEF LocateInv
<1>3. Whole(disk') /\ \A id \in DOMAIN disk'.files : disk'.files[id].name = "durable" BY <1>1, <1>2, CrashWhole
<1> QED BY <1>1, <1>3 DEF LocateInv

LEMMA LocateStart ==
  ASSUME Init PROVE LocateInv
<1>1. disk = EmptyDisk /\ phase = "down" /\ todo = <<>> BY DEF Init
<1>2. disk.files = <<>> /\ disk.metadata = NoMetadata /\ DOMAIN disk = {"files", "metadata", "snapshots"}
  BY <1>1 DEF EmptyDisk
<1>3. DOMAIN disk.files = {} BY <1>2
<1>4. IsFiniteSet(DOMAIN disk.files) BY <1>3, FS_EmptySet
<1>5. Whole(disk) BY <1>2, <1>3, <1>4 DEF Whole, IsMetadata
<1> QED BY <1>1, <1>3, <1>5 DEF LocateInv

-----------------------------------------------------------------------------
(***************************************************************************)
(* Recovery: the entries of a directory, in the order of their places.     *)
(***************************************************************************)
LEMMA ImageFinite ==
  ASSUME NEW S, IsFiniteSet(S), NEW f, DOMAIN f = S, f = [x \in S |-> f[x]]
  PROVE  IsFiniteSet({f[x] : x \in S})
<1> DEFINE T == {f[x] : x \in S}
<1>1. f \in [S -> T] BY Zenon
<1>2. \A t \in T : \E x \in S : f[x] = t OBVIOUS
<1>3. f \in Surjection(S, T) BY <1>1, <1>2 DEF Surjection
<1> HIDE DEF T
<1>4. IsFiniteSet(T) BY <1>3, FS_Surjection
<1> QED BY <1>4 DEF T

\* The files of a directory.
Store(files) ==
  /\ IsFiniteSet(DOMAIN files) /\ DOMAIN files \subseteq Nat
  /\ \A id \in DOMAIN files : IsFile(files[id])

\* The places of the segment files from seg on.
PlacesIn(files, id) == {[seg |-> id, pos |-> p] : p \in DOMAIN files[id].body}
Places(files, seg) == UNION {PlacesIn(files, id) : id \in {i \in DOMAIN files : i >= seg}}

LEMMA PlacesAre ==
  ASSUME NEW files, Store(files), NEW seg
  PROVE  /\ IsFiniteSet(Places(files, seg))
         /\ \A p \in Places(files, seg) :
              /\ p = [seg |-> p.seg, pos |-> p.pos]
              /\ p.seg \in DOMAIN files /\ p.pos \in 1 .. Len(files[p.seg].body)
              /\ p.seg \in Nat /\ p.pos \in Nat /\ p.seg >= seg
         /\ \A id \in DOMAIN files : \A p \in 1 .. Len(files[id].body) :
              id >= seg => [seg |-> id, pos |-> p] \in Places(files, seg)
<1> DEFINE I == {i \in DOMAIN files : i >= seg}
           S == {PlacesIn(files, id) : id \in I}
<1>1. I \in SUBSET DOMAIN files OBVIOUS
<1> HIDE DEF I
<1>2. IsFiniteSet(I) BY <1>1, FS_Subset DEF Store
<1>3. ASSUME NEW id \in I
      PROVE  DOMAIN files[id].body = 1 .. Len(files[id].body) /\ Len(files[id].body) \in Nat /\ id \in Nat
  <2>1. IsSeq(files[id].body) BY <1>1 DEF Store, IsFile
  <2>2. PICK E : files[id].body \in Seq(E) BY <2>1 DEF IsSeq
  <2>3. id \in Nat BY <1>1 DEF Store
  <2> QED BY <2>2, <2>3
<1>4. IsFiniteSet(S)
  <2> DEFINE f == [id \in I |-> PlacesIn(files, id)]
  <2>1. DOMAIN f = I /\ f = [x \in I |-> f[x]] OBVIOUS
  <2>2. S = {f[x] : x \in I} OBVIOUS
  <2> HIDE DEF f, S
  <2> QED BY <1>2, <2>1, <2>2, ImageFinite
<1>5. ASSUME NEW id \in I PROVE IsFiniteSet(PlacesIn(files, id))
  <2> DEFINE n == Len(files[id].body)
             J == 1 .. n
             f == [p \in J |-> [seg |-> id, pos |-> p]]
  <2>1. n \in Int /\ 1 \in Int BY <1>3
  <2>2. DOMAIN f = J /\ f = [x \in J |-> f[x]] OBVIOUS
  <2>3. PlacesIn(files, id) = {f[x] : x \in J} BY <1>3 DEF PlacesIn
  <2> HIDE DEF f, n
  <2>4. IsFiniteSet(J) BY <2>1, FS_Interval
  <2> HIDE DEF J
  <2>5. IsFiniteSet({f[x] : x \in J}) BY <2>2, <2>4, ImageFinite
  <2> QED BY <2>3, <2>5
<1>6. IsFiniteSet(UNION S)
  <2>1. \A T \in S : IsFiniteSet(T) BY <1>5
  <2> HIDE DEF S
  <2> QED BY <1>4, <2>1, FS_UNION
<1>7. Places(files, seg) = UNION S BY DEF Places, I
<1>8. ASSUME NEW p \in UNION S
      PROVE  /\ p = [seg |-> p.seg, pos |-> p.pos]
             /\ p.seg \in DOMAIN files /\ p.pos \in 1 .. Len(files[p.seg].body)
             /\ p.seg \in Nat /\ p.pos \in Nat /\ p.seg >= seg
  <2>1. PICK id \in I : p \in PlacesIn(files, id) OBVIOUS
  <2>2. PICK q \in DOMAIN files[id].body : p = [seg |-> id, pos |-> q] BY <2>1 DEF PlacesIn
  <2>3. q \in 1 .. Len(files[id].body) /\ q \in Nat /\ id \in Nat BY <1>3, <2>2
  <2>4. p.seg = id /\ p.pos = q BY <2>2
  <2>5. id >= seg BY DEF I
  <2> QED BY <1>1, <2>2, <2>3, <2>4, <2>5
<1>9. ASSUME NEW id \in DOMAIN files, NEW p \in 1 .. Len(files[id].body), id >= seg
      PROVE  [seg |-> id, pos |-> p] \in UNION S
  <2>1. id \in I BY <1>9 DEF I
  <2>2. [seg |-> id, pos |-> p] \in PlacesIn(files, id) BY <1>3, <2>1 DEF PlacesIn
  <2> QED BY <2>1, <2>2
<1> HIDE DEF S
<1> QED BY <1>6, <1>7, <1>8, <1>9

\* recover finds entries in the order of their places, each with its record.
ScanOf(entries, files) ==
  /\ IsSeq(entries) /\ DOMAIN entries = 1 .. Len(entries) /\ Len(entries) \in Nat
  /\ \A i \in 1 .. Len(entries) :
       /\ entries[i].seg \in DOMAIN files
       /\ entries[i].pos \in 1 .. Len(files[entries[i].seg].body)
       /\ files[entries[i].seg].body[entries[i].pos] = entries[i].record
       /\ entries[i].record.kind = "entry"
  /\ \A i, j \in 1 .. Len(entries) : i < j => Precedes(entries[i], entries[j])

\* It finds every entry from index first on in the segments from seg on.
ScanAll(entries, files, first, seg) ==
  /\ \A i \in 1 .. Len(entries) : entries[i].seg >= seg /\ entries[i].record.index >= first
  /\ \A id \in DOMAIN files : \A p \in 1 .. Len(files[id].body) :
       id >= seg /\ files[id].body[p].kind = "entry" /\ files[id].body[p].index >= first =>
         \E i \in 1 .. Len(entries) : entries[i].seg = id /\ entries[i].pos = p

LEMMA ScannedIs ==
  ASSUME NEW files, Store(files), NEW first, NEW seg
  PROVE  ScanOf(Scanned(files, first, seg), files) /\ ScanAll(Scanned(files, first, seg), files, first, seg)
<1> DEFINE places == Places(files, seg)
           At(p) == files[p.seg].body[p.pos]
           wanted == {p \in places : At(p).kind = "entry" /\ At(p).index >= first}
           R == {q \in wanted \X wanted : Precedes(q[1], q[2])}
           order == InOrder(wanted, R)
           n == Cardinality(wanted)
           entries == [i \in DOMAIN order |-> [seg |-> order[i].seg, pos |-> order[i].pos, record |-> At(order[i])]]
<1>1. Scanned(files, first, seg) = entries BY DEF Scanned, Places, PlacesIn
<1>2. /\ IsFiniteSet(places)
      /\ \A p \in places : /\ p = [seg |-> p.seg, pos |-> p.pos]
                           /\ p.seg \in DOMAIN files /\ p.pos \in 1 .. Len(files[p.seg].body)
                           /\ p.seg \in Nat /\ p.pos \in Nat /\ p.seg >= seg
      /\ \A id \in DOMAIN files : \A p \in 1 .. Len(files[id].body) : id >= seg => [seg |-> id, pos |-> p] \in places
  BY PlacesAre
<1> HIDE DEF places
<1>3. wanted \in SUBSET places /\ \A p \in wanted : At(p).kind = "entry" /\ At(p).index >= first OBVIOUS
<1>a. \A p \in places : At(p).kind = "entry" /\ At(p).index >= first => p \in wanted OBVIOUS
<1> HIDE DEF wanted
<1>4. IsFiniteSet(wanted) BY <1>2, <1>3, FS_Subset
<1>5. \A x, y \in wanted : <<x, y>> \in R <=> Precedes(x, y) OBVIOUS
<1> HIDE DEF R
<1>6. StrictOrder(wanted, R)
  <2>1. \A x \in wanted : ~ Precedes(x, x) BY <1>2, <1>3 DEF Precedes
  <2>2. \A x, y, z \in wanted : Precedes(x, y) /\ Precedes(y, z) => Precedes(x, z)
    BY <1>2, <1>3 DEF Precedes
  <2>3. ASSUME NEW x \in wanted, NEW y \in wanted PROVE x = y \/ Precedes(x, y) \/ Precedes(y, x)
    <3>1. CASE x.seg = y.seg /\ x.pos = y.pos BY <1>2, <1>3, <3>1
    <3>2. CASE ~ (x.seg = y.seg /\ x.pos = y.pos)
      <4>1. x.seg \in Nat /\ y.seg \in Nat /\ x.pos \in Nat /\ y.pos \in Nat BY <1>2, <1>3
      <4> QED BY <3>2, <4>1 DEF Precedes
    <3> QED BY <3>1, <3>2
  <2> QED BY <1>5, <2>1, <2>2, <2>3 DEF StrictOrder
<1>7. /\ n \in Nat /\ DOMAIN order = 1 .. n
      /\ \A i \in 1 .. n : order[i] \in wanted
      /\ \A x \in wanted : \E i \in 1 .. n : order[i] = x
      /\ \A i, j \in 1 .. n : i < j => <<order[i], order[j]>> \in R
  BY <1>4, <1>6, InOrderLists
<1> HIDE DEF order, n
<1>8. DOMAIN entries = 1 .. n /\ entries = [i \in 1 .. n |-> entries[i]] BY <1>7
<1>9. \A i \in 1 .. n : /\ entries[i].seg = order[i].seg /\ entries[i].pos = order[i].pos
                        /\ entries[i].record = At(order[i])
  BY <1>7
<1> HIDE DEF entries
<1>10. IsSeq(entries) /\ Len(entries) = n BY <1>7, <1>8, ListIsSeq
<1>11. \A i \in 1 .. n : /\ order[i].seg \in DOMAIN files /\ order[i].pos \in 1 .. Len(files[order[i].seg].body)
                         /\ At(order[i]).kind = "entry"
  BY <1>2, <1>3, <1>7
<1>12. \A i \in 1 .. n : /\ entries[i].seg \in DOMAIN files
                         /\ entries[i].pos \in 1 .. Len(files[entries[i].seg].body)
                         /\ files[entries[i].seg].body[entries[i].pos] = entries[i].record
                         /\ entries[i].record.kind = "entry"
  BY <1>9, <1>11
<1>13. ASSUME NEW i \in 1 .. n, NEW j \in 1 .. n, i < j PROVE Precedes(entries[i], entries[j])
  <2>1. Precedes(order[i], order[j]) BY <1>5, <1>7, <1>13
  <2> QED BY <1>9, <2>1 DEF Precedes
<1>14. ScanOf(entries, files) BY <1>7, <1>8, <1>10, <1>12, <1>13 DEF ScanOf
<1>15. \A i \in 1 .. n : entries[i].seg >= seg /\ entries[i].record.index >= first BY <1>2, <1>3, <1>7, <1>9
<1>16. ASSUME NEW id \in DOMAIN files, NEW p \in 1 .. Len(files[id].body),
              id >= seg, files[id].body[p].kind = "entry", files[id].body[p].index >= first
       PROVE  \E i \in 1 .. n : entries[i].seg = id /\ entries[i].pos = p
  <2> DEFINE q == [seg |-> id, pos |-> p]
  <2>1. q \in places /\ q.seg = id /\ q.pos = p BY <1>2, <1>16
  <2> HIDE DEF q
  <2>2. q \in wanted BY <1>16, <1>a, <2>1
  <2>3. PICK i \in 1 .. n : order[i] = q BY <1>7, <2>2
  <2> QED BY <1>9, <2>1, <2>3
<1>17. ScanAll(entries, files, first, seg) BY <1>10, <1>15, <1>16 DEF ScanAll
<1> QED BY <1>1, <1>14, <1>17

\* Directory e has the segments of files, with the same records.
Shows(e, files) ==
  /\ Sound(e) /\ Listed(e.files) = DOMAIN files
  /\ \A id \in DOMAIN files : e.files[id].body = files[id].body

\* Recovery starts from a directory whose names are as they were last synced.
Settled(d) == Whole(d) /\ \A id \in DOMAIN d.files : d.files[id].name = "durable"

LEMMA SegmentsAre ==
  ASSUME NEW d, Settled(d), Opens(d)
  PROVE  /\ Sound(d) /\ Listed(d.files) = DOMAIN d.files
         /\ Store(Segments(d)) /\ DOMAIN Segments(d) # {}
         /\ d.files = <<>> => DOMAIN Segments(d) = {1} /\ Segments(d)[1].body = <<>>
         /\ d.files # <<>> => Segments(d) = d.files
<1>1. d.files # <<>> => Segments(d) = d.files BY DEF Segments
<1>2. \A id \in DOMAIN Segments(d) : Segments(d)[id].header = "durable" BY DEF Opens
<1>3. ASSUME d.files = <<>> PROVE DOMAIN Segments(d) = {1} /\ Segments(d)[1] = FileSynced(NewFile)
  BY <1>3 DEF Segments
<1>4. IsFile(FileSynced(NewFile)) /\ FileSynced(NewFile).body = <<>>
  <2>1. IsSeq(<<>>) /\ Len(<<>>) = 0 BY TidyNone DEF Tidy
  <2>2. IsFile(NewFile) /\ NewFile.body = <<>> BY <2>1 DEF NewFile, IsFile
  <2> QED BY <2>2, FileSyncedIs
<1>5. Sound(d)
  <2>1. CASE d.files = <<>>
    <3>1. DOMAIN d.files = {} BY <2>1
    <3> QED BY <3>1 DEF Settled, Sound
  <2>2. CASE d.files # <<>>
    <3>1. \A id \in DOMAIN d.files : d.files[id].header = "durable" BY <1>1, <1>2, <2>2
    <3> QED BY <3>1 DEF Settled, Sound
  <2> QED BY <2>1, <2>2
<1>6. Listed(d.files) = DOMAIN d.files BY DEF Listed, Settled
<1>7. DOMAIN Segments(d) # {} BY DEF Opens
<1>8. Store(Segments(d))
  <2>1. CASE d.files = <<>>
    <3>1. IsFiniteSet({1}) BY FS_Singleton
    <3> QED BY <1>3, <1>4, <2>1, <3>1 DEF Store
  <2>2. CASE d.files # <<>> BY <1>1, <2>2 DEF Store, Settled, Whole
  <2> QED BY <2>1, <2>2
<1> QED BY <1>1, <1>3, <1>4, <1>5, <1>6, <1>7, <1>8

\* A sequence up to its last element.
LEMMA WholeCut ==
  ASSUME NEW b, IsSeq(b) PROVE SubSeq(b, 1, Len(b)) = b /\ Len(b) \in 0 .. Len(b)
<1>1. PICK S : b \in Seq(S) BY DEF IsSeq
<1> QED BY <1>1

\* open makes the first segment, or cuts a torn tail: the records stay.
LEMMA RepairReaches ==
  ASSUME NEW d, Settled(d), Opens(d)
  PROVE  IsSeq(Repair(d)) /\ \E e : Reaches(d, Repair(d), e) /\ Shows(e, Segments(d))
<1> DEFINE last == Max(DOMAIN d.files)
<1>1. Sound(d) /\ Listed(d.files) = DOMAIN d.files /\ DOMAIN Segments(d) # {} BY SegmentsAre
<1>2. CASE d.files = <<>>
  <2> DEFINE e == Done(d, Create(1))
  <2>1. Repair(d) = <<Create(1)>> BY <1>2 DEF Repair
  <2>2. Sound(e) /\ Alters(d, e, 1, <<>>) BY <1>1, CreateAlters
  <2>3. Reaches(d, <<Create(1)>>, e) BY <1>1, <2>2, ReachesOne
  <2> HIDE DEF e
  <2>4. DOMAIN d.files = {} BY <1>2
  <2>5. Listed(e.files) = {1} /\ e.files[1].body = <<>> BY <1>1, <2>2, <2>4 DEF Alters
  <2>6. DOMAIN Segments(d) = {1} /\ Segments(d)[1].body = <<>> BY <1>2, SegmentsAre
  <2>7. Shows(e, Segments(d)) BY <2>2, <2>5, <2>6 DEF Shows
  <2>8. IsSeq(<<Create(1)>>) BY TwoCalls
  <2> QED BY <2>1, <2>3, <2>7, <2>8
<1>3. CASE d.files # <<>>
  <2>1. Segments(d) = d.files BY <1>3, SegmentsAre
  <2>2. last \in DOMAIN d.files BY <1>1, <2>1, MaxIs DEF Sound, Whole
  <2>3. Shows(d, d.files) BY <1>1 DEF Shows
  <2> DEFINE b == d.files[last].body
             c == Truncate(last, Len(b))
  <2>4. Repair(d) = IF d.files[last].torn THEN <<c>> ELSE <<>> BY <1>3 DEF Repair
  <2> HIDE DEF last
  <2>5. CASE ~ d.files[last].torn
    <3>1. Repair(d) = <<>> BY <2>4, <2>5
    <3>2. Reaches(d, <<>>, d) BY <1>1, ReachesNone
    <3>3. IsSeq(<<>>) BY TidyNone DEF Tidy
    <3> QED BY <2>1, <2>3, <3>1, <3>2, <3>3
  <2>6. CASE d.files[last].torn
    <3> DEFINE e == Done(d, c)
    <3>1. Repair(d) = <<c>> BY <2>4, <2>6
    <3>2. IsSeq(b) BY <1>1, <2>2 DEF Sound, Whole, IsFile
    <3>3. SubSeq(b, 1, Len(b)) = b /\ Len(b) \in 0 .. Len(b) BY <3>2, WholeCut
    <3>4. Sound(e) /\ Alters(d, e, last, SubSeq(b, 1, Len(b))) BY <1>1, <2>2, <3>3, TruncateAlters
    <3>5. Alters(d, e, last, b) BY <3>3, <3>4
    <3>6. Reaches(d, <<c>>, e) BY <1>1, <3>4, ReachesOne
    <3>7. IsSeq(<<c>>) BY TwoCalls
    <3> HIDE DEF e, c
    <3>8. Shows(e, d.files) BY <1>1, <2>2, <3>4, <3>5 DEF Alters, Shows
    <3> QED BY <2>1, <3>1, <3>6, <3>7, <3>8
  <2> QED BY <2>5, <2>6
<1> QED BY <1>2, <1>3

\* The struct that recover makes describes the repaired directory.
LEMMA RecoveredMatches ==
  ASSUME NEW d, Settled(d), Opens(d), NEW e, Shows(e, Segments(d))
  PROVE  Matches(Recovered(d), e)
<1> DEFINE w == Recovered(d)
           files == Segments(d)
           m == d.metadata
<1>1. Store(files) /\ DOMAIN files # {} BY SegmentsAre
<1>2. Max(DOMAIN files) \in DOMAIN files BY <1>1, MaxIs DEF Store
<1>3. CASE m = NoMetadata
  <2>1. /\ DOMAIN w = {"first", "log", "at", "hs", "snap", "incarnation", "dirty", "segs", "used", "dirDirty"}
        /\ w.first = 1 /\ w.snap = 0 /\ w.log = <<>> /\ w.at = <<>> /\ w.segs = {1} /\ w.used = 0
    BY <1>3 DEF Recovered
  <2>2. DOMAIN files = {1} /\ files[1].body = <<>> BY <1>3 DEF Opens
  <2> HIDE DEF w, files
  <2>3. IsSeq(<<>>) /\ Len(<<>>) = 0 BY TidyNone DEF Tidy
  <2>4. IsFiniteSet({1}) BY FS_Singleton
  <2>5. Struct(w) BY <2>1, <2>3, <2>4 DEF Struct
  <2>6. Max({1}) = 1 BY <2>4, MaxIs
  <2>7. Finds(w, e)
    <3>1. Len(w.log) = 0 BY <2>1
    <3> QED BY <3>1 DEF Finds
  <2>8. Sound(e) /\ w.segs = Listed(e.files) /\ e.files[1].body = <<>> BY <2>1, <2>2 DEF Shows, files
  <2>9. w.used = Len(e.files[Max(w.segs)].body) BY <2>1, <2>3, <2>6, <2>8
  <2> QED BY <2>5, <2>7, <2>8, <2>9 DEF Matches, w
<1>4. CASE m # NoMetadata
  <2> DEFINE entries == Scanned(files, m.first, m.seg)
             n == Len(entries)
  <2>1. w = [first |-> m.first,
             log |-> [i \in DOMAIN entries |-> entries[i].record.term],
             at |-> [i \in DOMAIN entries |-> [seg |-> entries[i].seg, pos |-> entries[i].pos]],
             hs |-> m.hs, snap |-> m.snap, incarnation |-> m.incarnation, dirty |-> FALSE,
             segs |-> DOMAIN files,
             used |-> Len(files[Max(DOMAIN files)].body), dirDirty |-> d.files = <<>>]
    BY <1>4 DEF Recovered
  <2>2. \A i \in DOMAIN entries : entries[i].record.index = m.first + i - 1 BY <1>4 DEF Opens
  <2>3. ScanOf(entries, files) BY <1>1, ScannedIs
  <2> HIDE DEF entries
  <2>4. /\ DOMAIN w = {"first", "log", "at", "hs", "snap", "incarnation", "dirty", "segs", "used", "dirDirty"}
        /\ w.first = m.first /\ w.snap = m.snap
        /\ w.log = [i \in DOMAIN entries |-> entries[i].record.term]
        /\ w.at = [i \in DOMAIN entries |-> [seg |-> entries[i].seg, pos |-> entries[i].pos]]
        /\ w.segs = DOMAIN files /\ w.used = Len(files[Max(DOMAIN files)].body)
    BY <2>1
  <2> HIDE DEF w
  <2>5. n \in Nat /\ DOMAIN entries = 1 .. n BY <2>3 DEF ScanOf
  <2>6. w.first \in Nat /\ w.snap \in Nat /\ w.snap < w.first BY <1>4, <2>4 DEF Settled, Whole, IsMetadata
  <2> DEFINE log == w.log
             at == w.at
  <2>7. /\ DOMAIN log = 1 .. n /\ log = [i \in 1 .. n |-> log[i]]
        /\ DOMAIN at = 1 .. n /\ at = [i \in 1 .. n |-> at[i]]
        /\ \A i \in 1 .. n : /\ log[i] = entries[i].record.term
                             /\ at[i].seg = entries[i].seg /\ at[i].pos = entries[i].pos
    BY <2>4, <2>5
  <2> HIDE DEF n, log, at
  <2>8. IsSeq(log) /\ Len(log) = n /\ IsSeq(at) /\ Len(at) = n BY <2>5, <2>7, ListIsSeq
  <2>9. Struct(w) BY <1>1, <2>4, <2>6, <2>8 DEF Struct, Store, log, at
  <2>10. ASSUME NEW i \in 1 .. n PROVE Holds(e, at[i], Entry(w.first + i - 1, log[i]))
    <3> DEFINE r == entries[i].record
               s == entries[i].seg
               p == entries[i].pos
               body == files[s].body
    <3>1. s \in DOMAIN files /\ p \in 1 .. Len(body) /\ body[p] = r /\ r.kind = "entry"
      BY <2>3 DEF ScanOf, n
    <3>2. r.index = w.first + i - 1 BY <2>2, <2>4, <2>5
    <3>3. e.files[s].body = body /\ s \in Listed(e.files) BY <3>1 DEF Shows
    <3>4. IsRecord(r) BY <1>1, <3>1 DEF Store, IsFile
    <3>5. log[i] = r.term /\ at[i].seg = s /\ at[i].pos = p BY <2>7
    <3> HIDE DEF r, s, p, body
    <3>6. r # HardStateRecord BY <3>1 DEF HardStateRecord
    <3>7. r = Entry(r.index, r.term) BY <3>4, <3>6 DEF IsRecord, Entry
    <3>8. r = Entry(w.first + i - 1, log[i]) BY <3>2, <3>5, <3>7
    <3> QED BY <3>1, <3>3, <3>5, <3>8 DEF Holds
  <2>11. ASSUME NEW i \in 1 .. n, NEW j \in 1 .. n, i < j PROVE Precedes(at[i], at[j])
    <3>1. Precedes(entries[i], entries[j]) BY <2>3, <2>11 DEF ScanOf, n
    <3> QED BY <2>7, <3>1 DEF Precedes
  <2>12. Finds(w, e) BY <2>8, <2>10, <2>11 DEF Finds, log, at
  <2>13. w.used = Len(e.files[Max(w.segs)].body)
    <3> DEFINE k == Max(DOMAIN files)
    <3>1. e.files[k].body = files[k].body BY <1>2 DEF Shows
    <3> QED BY <2>4, <3>1
  <2>14. Sound(e) /\ w.segs = Listed(e.files) BY <2>4 DEF Shows
  <2> QED BY <2>9, <2>12, <2>13, <2>14 DEF Matches, w
<1> QED BY <1>3, <1>4

LEMMA OpenedLeads ==
  ASSUME NEW d, Settled(d), Opens(d)
  PROVE  Leads(d, Opened(d).calls, Opened(d).wal)
<1> DEFINE w == Recovered(d)
           m == MetadataOf(w, w.first, FirstSegmentIdFor(w, w.first))
           c == Cleanup(w)
           r == Repair(d)
<1>1. IsSeq(r) /\ \E e : Reaches(d, r, e) /\ Shows(e, Segments(d)) BY RepairReaches
<1>2. PICK e : Reaches(d, r, e) /\ Shows(e, Segments(d)) BY <1>1
<1>3. Matches(w, e) BY <1>2, RecoveredMatches
<1>4. Struct(w) BY <1>3 DEF Matches
<1>5. Leads(d, r, w) BY <1>1, <1>2, <1>3 DEF Leads
<1>6. CASE w.dirty
  <2> DEFINE w2 == [Synced(w) EXCEPT !.dirty = FALSE]
             save == <<SaveMetadata(m)>>
  <2>1. Opened(d) = [wal |-> w2, calls |-> r \o SyncAll(w) \o save] BY <1>6 DEF Opened
  <2>2. Tidy(save) /\ Removed(save) = {} BY <1>4, SaveTidy DEF Struct
  <2>3. Tidy(SyncAll(w)) /\ Removed(SyncAll(w)) = {} BY <1>4, SyncAllTidy DEF Struct
  <2>4. Alike(w, w2) /\ w2.segs = w.segs /\ w2.used = w.used BY <1>4, SyncedAlike
  <2> HIDE DEF w, w2, save, r
  <2>5. Leads(d, r \o SyncAll(w), w) BY <1>5, <2>3, LeadsCalmly
  <2>6. Leads(d, r \o SyncAll(w) \o save, w2) BY <2>2, <2>4, <2>5, LeadsTidily
  <2>7. Opened(d).wal = w2 /\ Opened(d).calls = r \o SyncAll(w) \o save BY <2>1
  <2> QED BY <2>6, <2>7
<1>7. CASE ~ w.dirty
  <2>1. Opened(d) = IF w.first > 1 THEN [wal |-> c.wal, calls |-> r \o c.calls]
                    ELSE [wal |-> w, calls |-> r]
    BY <1>7 DEF Opened
  <2> HIDE DEF w, r
  <2>2. Tidy(c.calls) BY <1>4, CleanupTidy
  <2>3. Leads(e, c.calls, c.wal) BY <1>3, <2>2, CleanupLeads
  <2> HIDE DEF c
  <2>4. Leads(d, r \o c.calls, c.wal) BY <1>1, <1>2, <2>3, LeadsJoined
  <2> QED BY <1>5, <2>1, <2>4
<1> QED BY <1>6, <1>7

LEMMA OpenLocates ==
  ASSUME LocateInv, Open PROVE LocateInv'
<1>1. phase = "down" /\ disk' = disk BY DEF Open
<1>2. Settled(disk) /\ Whole(disk) /\ todo = <<>> BY <1>1 DEF LocateInv, Settled
<1>3. CASE Opens(disk)
  <2>1. phase' = "open" /\ wal' = Opened(disk).wal /\ todo' = Opened(disk).calls BY <1>3 DEF Open
  <2>2. Leads(disk, Opened(disk).calls, Opened(disk).wal) BY <1>2, <1>3, OpenedLeads
  <2>3. Leads(disk', todo', wal') BY <1>1, <2>1, <2>2
  <2>4. Whole(disk') BY <1>1, <1>2
  <2> QED BY <2>1, <2>3, <2>4 DEF LocateInv
<1>4. CASE ~ Opens(disk)
  <2>1. phase' = "refused" /\ todo' = todo BY <1>4 DEF Open
  <2>2. Whole(disk') BY <1>1, <1>2
  <2> QED BY <1>2, <2>1, <2>2 DEF LocateInv
<1> QED BY <1>3, <1>4

\* Every step keeps the struct in step with the directory.
LEMMA LocateStep ==
  ASSUME LocateInv, [Next]_vars
  PROVE  LocateInv'
<1>0. MaxIndex \in Nat /\ MaxBatch \in Nat BY WalAssumption
<1>1. ASSUME NEW i \in Index, NEW n \in 1 .. MaxBatch, NEW t \in 1 .. MaxTerm, AppendEntries(i, n, t)
      PROVE  LocateInv'
  <2>1. i \in Nat /\ n \in Nat BY <1>0 DEF Index
  <2> QED BY <1>1, <2>1, AppendLocates
<1>2. ASSUME NEW i \in Index, SaveHardState(i) \/ Compact(i + 1) \/ ApplyLocalSnapshot(i) \/ ApplySnapshot(i)
      PROVE  LocateInv'
  <2>1. i \in Nat /\ i + 1 \in Nat BY <1>0 DEF Index
  <2> QED BY <1>2, <2>1, HardStateLocates, CompactLocates, LocalSnapshotLocates, SnapshotLocates
<1>3. ASSUME UNCHANGED vars PROVE LocateInv'
  <2>1. disk' = disk /\ wal' = wal /\ phase' = phase /\ todo' = todo BY <1>3 DEF vars
  <2>2. Leads(disk', todo', wal') <=> Leads(disk, todo, wal) BY <2>1
  <2>3. Whole(disk') BY <2>1 DEF LocateInv
  <2> QED BY <2>1, <2>2, <2>3 DEF LocateInv
<1> QED
  BY <1>1, <1>2, <1>3, OpenLocates, StepLocates, CrashLocates, SyncLocates, ReserveLocates DEF Next

\* The struct describes the directory as the calls still to come will leave
\* it, in every reachable state: every append, roll, truncation, compaction,
\* snapshot and recovery leaves the index of wal_index.zig with the place of
\* each entry, in file order.
THEOREM LocateInvInductive == Spec => []LocateInv
<1>1. Init => LocateInv BY LocateStart
<1>2. LocateInv /\ [Next]_vars => LocateInv' BY LocateStep
<1> QED BY <1>1, <1>2, PTL DEF Spec

(***************************************************************************)
(* Between two operations the index finds every entry of the log where     *)
(* truncateSuffixFrom would cut, in a segment that is there, and the       *)
(* length of the current segment is right (wal_index.zig): for any segment *)
(* size, after any rolls, truncations, compactions and recoveries.         *)
(***************************************************************************)
THEOREM IndexAlwaysLocates == Spec => []IndexLocatesEntries
<1>1. ASSUME LocateInv PROVE IndexLocatesEntries
  <2>1. SUFFICES ASSUME phase = "open", todo = <<>>
                 PROVE  /\ \A i \in DOMAIN wal.log :
                             LET place == wal.at[i]
                             IN /\ place.seg \in wal.segs
                                /\ disk.files[place.seg].body[place.pos] = Entry(wal.first + i - 1, wal.log[i])
                        /\ wal.segs = Listed(disk.files)
                        /\ wal.used = Len(disk.files[Max(wal.segs)].body)
    BY DEF IndexLocatesEntries
  <2>2. Matches(wal, disk) /\ Struct(wal) BY <1>1, <2>1, MatchesNow
  <2>3. DOMAIN wal.log = 1 .. Len(wal.log)
    <3>1. PICK S : wal.log \in Seq(S) BY <2>2 DEF Struct, IsSeq
    <3> QED BY <3>1
  <2>4. wal.segs = Listed(disk.files) /\ wal.used = Len(disk.files[Max(wal.segs)].body) BY <2>2 DEF Matches
  <2>5. \A i \in 1 .. Len(wal.log) : Holds(disk, wal.at[i], Entry(wal.first + i - 1, wal.log[i]))
    BY <2>2 DEF Matches, Finds
  <2>6. \A i \in DOMAIN wal.log :
           /\ wal.at[i].seg \in wal.segs
           /\ disk.files[wal.at[i].seg].body[wal.at[i].pos] = Entry(wal.first + i - 1, wal.log[i])
    BY <2>3, <2>4, <2>5 DEF Holds
  <2> QED BY <2>4, <2>6
<1> QED BY <1>1, LocateInvInductive, PTL

-----------------------------------------------------------------------------
(***************************************************************************)
(* What a crash may not take.  Meta(d) is the metadata recovery starts     *)
(* from, w the struct before or after an operation.                        *)
(***************************************************************************)
Meta(d) ==
  IF d.metadata = NoMetadata THEN [first |-> 1, seg |-> 1, hs |-> [stamp |-> 0, commit |-> 0]] ELSE d.metadata

\* The record at place p survives every crash.
Fast(d, p) ==
  /\ p.seg \in DOMAIN d.files
  /\ d.files[p.seg].name = "durable"
  /\ p.pos \in 1 .. d.files[p.seg].synced

At(d, p) == d.files[p.seg].body[p.pos]

\* Recovery from d finds the entries of w up to index top.
Vows(w, d, top) ==
  \A j \in 1 .. Len(w.log) :
    w.first + j - 1 >= Meta(d).first /\ w.first + j - 1 <= top =>
      /\ Fast(d, w.at[j])
      /\ w.at[j].seg >= Meta(d).seg
      /\ At(d, w.at[j]) = Entry(w.first + j - 1, w.log[j])

\* Recovery from d reads the record at position p of segment id as an entry.
Wanted(d, id, p) ==
  /\ id \in DOMAIN d.files
  /\ p \in 1 .. Len(d.files[id].body)
  /\ id >= Meta(d).seg
  /\ d.files[id].body[p].kind = "entry"
  /\ d.files[id].body[p].index >= Meta(d).first

\* Entry r is in the log of w, at position p of segment id.
Lists(w, id, p, r) ==
  \E j \in 1 .. Len(w.log) :
    w.at[j].seg = id /\ w.at[j].pos = p /\ r = Entry(w.first + j - 1, w.log[j])

\* Recovery from d reads entries of w only.
Tells(w, d) == \A id, p : Wanted(d, id, p) => Lists(w, id, p, d.files[id].body[p])

\* Recovery from d gives the entries of w0 up to index top, no entries but
\* those of w0 or those of w1, and a HardState of H.
Trusty(d, w0, w1, top, H) ==
  /\ Struct(w0) /\ Struct(w1)
  /\ Meta(d).seg \in Nat
  /\ Meta(d).hs \in H
  /\ Meta(d).first <= top => w0.first <= Meta(d).first
  /\ Vows(w0, d, top)
  /\ Tells(w0, d) \/ Tells(w1, d)

\* The records of e are those of d, or fewer.
Fewer(d, e) ==
  \A id \in DOMAIN e.files : \A p \in 1 .. Len(e.files[id].body) :
    /\ id \in DOMAIN d.files /\ p \in 1 .. Len(d.files[id].body)
    /\ e.files[id].body[p] = d.files[id].body[p]

\* What is at place p is as safe in e as in d.
Safer(d, e, p) == Fast(d, p) => Fast(e, p) /\ At(e, p) = At(d, p)

LEMMA MetaIs ==
  ASSUME NEW d, Whole(d) PROVE Meta(d).first \in Nat
BY DEF Whole, IsMetadata, Meta

LEMMA EntryIndex ==
  ASSUME NEW r, IsRecord(r), r.kind = "entry" PROVE r.index \in Nat /\ r = Entry(r.index, r.term)
BY DEF IsRecord, HardStateRecord, Entry

LEMMA TellsFewer ==
  ASSUME NEW d, Whole(d), NEW e, Whole(e), Fewer(d, e), Meta(d).seg \in Nat, Meta(e).seg \in Nat,
         Meta(d).first <= Meta(e).first, Meta(d).seg <= Meta(e).seg, NEW w, Tells(w, d)
  PROVE  Tells(w, e)
<1> SUFFICES ASSUME NEW id, NEW p, Wanted(e, id, p) PROVE Lists(w, id, p, e.files[id].body[p]) BY DEF Tells
<1> DEFINE r == e.files[id].body[p]
<1>1. /\ id \in DOMAIN e.files /\ p \in 1 .. Len(e.files[id].body) /\ id >= Meta(e).seg
      /\ r.kind = "entry" /\ r.index >= Meta(e).first
  BY DEF Wanted
<1>2. id \in DOMAIN d.files /\ p \in 1 .. Len(d.files[id].body) /\ r = d.files[id].body[p] BY <1>1 DEF Fewer
<1>3. id \in Nat /\ IsRecord(r) BY <1>1 DEF Whole, IsFile
<1>4. r.index \in Nat BY <1>1, <1>3, EntryIndex
<1>5. Meta(d).first \in Nat /\ Meta(e).first \in Nat BY MetaIs
<1> DEFINE x == r.index
           a == Meta(d).first
           b == Meta(e).first
           k == Meta(d).seg
           l == Meta(e).seg
<1> HIDE DEF r
<1>6. r.index >= Meta(d).first /\ id >= Meta(d).seg
  <2>1. x \in Nat /\ a \in Nat /\ b \in Nat /\ k \in Nat /\ l \in Nat /\ x >= b /\ a <= b /\ id >= l /\ k <= l
    BY <1>1, <1>4, <1>5
  <2> HIDE DEF x, a, b, k, l
  <2>2. x >= a /\ id >= k BY <1>3, <2>1
  <2> QED BY <2>2 DEF x, a, k
<1>7. Wanted(d, id, p) BY <1>1, <1>2, <1>6 DEF Wanted
<1> QED BY <1>2, <1>7 DEF Tells, r

\* Calls that keep what is promised keep a directory trusty.
LEMMA TrustyKept ==
  ASSUME NEW d, Whole(d), NEW e, Whole(e), NEW w0, NEW w1, NEW top \in Int, NEW H,
         Trusty(d, w0, w1, top, H), Fewer(d, e),
         Meta(d).first <= Meta(e).first, Meta(e).seg \in Nat, Meta(d).seg <= Meta(e).seg, Meta(e).hs \in H,
         \A j \in 1 .. Len(w0.log) :
           w0.first + j - 1 >= Meta(e).first /\ w0.first + j - 1 <= top =>
             Safer(d, e, w0.at[j]) /\ w0.at[j].seg >= Meta(e).seg
  PROVE  Trusty(e, w0, w1, top, H)
<1>1. Meta(d).first \in Nat /\ Meta(e).first \in Nat BY MetaIs
<1>2. Struct(w0) /\ Struct(w1) /\ w0.first \in Nat /\ Meta(d).seg \in Nat BY DEF Trusty, Struct
<1>3. Meta(e).first <= top => w0.first <= Meta(e).first BY <1>1, <1>2 DEF Trusty
<1>4. Tells(w0, e) \/ Tells(w1, e) BY <1>2, TellsFewer DEF Trusty
<1>5. ASSUME NEW j \in 1 .. Len(w0.log), w0.first + j - 1 >= Meta(e).first, w0.first + j - 1 <= top
      PROVE  /\ Fast(e, w0.at[j]) /\ w0.at[j].seg >= Meta(e).seg
             /\ At(e, w0.at[j]) = Entry(w0.first + j - 1, w0.log[j])
  <2> DEFINE i == w0.first + j - 1
  <2>0. j \in Int
    <3>1. Len(w0.log) \in Nat BY <1>2, LastIs
    <3> QED BY <3>1
  <2>1. i >= Meta(d).first BY <1>1, <1>2, <1>5, <2>0
  <2>2. Fast(d, w0.at[j]) /\ At(d, w0.at[j]) = Entry(i, w0.log[j]) BY <1>5, <2>1 DEF Trusty, Vows
  <2>3. Safer(d, e, w0.at[j]) /\ w0.at[j].seg >= Meta(e).seg BY <1>5
  <2> QED BY <2>2, <2>3 DEF Safer
<1>6. Vows(w0, e, top) BY <1>5 DEF Vows
<1> QED BY <1>2, <1>3, <1>4, <1>6 DEF Trusty

-----------------------------------------------------------------------------
(***************************************************************************)
(* Calls that write no record, once more: what they leave durable.         *)
(***************************************************************************)
\* e has files of d with the same records, at least as many of them synced,
\* and every file of d with a durable name that is not in G.
Spares(d, e, G) ==
  /\ DOMAIN e.files \subseteq DOMAIN d.files
  /\ \A id \in DOMAIN e.files : /\ e.files[id].body = d.files[id].body
                                /\ e.files[id].synced >= d.files[id].synced
                                /\ d.files[id].name = "unlinked" => e.files[id].name = "unlinked"
  /\ \A id \in DOMAIN d.files : id \notin G /\ d.files[id].name = "durable" =>
       id \in DOMAIN e.files /\ e.files[id].name = "durable"

LEMMA SyncedNat ==
  ASSUME NEW d, Whole(d), NEW id \in DOMAIN d.files
  PROVE  /\ Len(d.files[id].body) \in Nat /\ d.files[id].synced \in Nat
         /\ d.files[id].synced <= Len(d.files[id].body)
<1>1. IsSeq(d.files[id].body) /\ d.files[id].synced \in 0 .. Len(d.files[id].body) BY DEF Whole, IsFile
<1>2. PICK S : d.files[id].body \in Seq(S) BY <1>1 DEF IsSeq
<1>3. Len(d.files[id].body) \in Nat BY <1>2
<1> QED BY <1>1, <1>3

LEMMA SparesItself ==
  ASSUME NEW d, Whole(d), NEW G PROVE Spares(d, d, G)
<1>1. \A id \in DOMAIN d.files : d.files[id].synced >= d.files[id].synced BY SyncedNat
<1> QED BY <1>1 DEF Spares

LEMMA SparesTwice ==
  ASSUME NEW d, Whole(d), NEW e, Whole(e), NEW g, Whole(g), NEW G, Spares(d, e, G), Spares(e, g, G)
  PROVE  Spares(d, g, G)
<1>1. DOMAIN g.files \subseteq DOMAIN d.files BY DEF Spares
<1>2. ASSUME NEW id \in DOMAIN g.files
      PROVE  /\ g.files[id].body = d.files[id].body /\ g.files[id].synced >= d.files[id].synced
             /\ d.files[id].name = "unlinked" => g.files[id].name = "unlinked"
  <2>1. id \in DOMAIN e.files /\ id \in DOMAIN d.files BY DEF Spares
  <2> DEFINE a == d.files[id].synced
             b == e.files[id].synced
             c == g.files[id].synced
  <2>2. a \in Nat /\ b \in Nat /\ c \in Nat BY <2>1, SyncedNat
  <2>3. c >= b /\ b >= a BY <2>1 DEF Spares
  <2> HIDE DEF a, b, c
  <2>4. c >= a BY <2>2, <2>3
  <2> QED BY <2>1, <2>4 DEF Spares, a, c
<1>3. \A id \in DOMAIN d.files : id \notin G /\ d.files[id].name = "durable" =>
        id \in DOMAIN g.files /\ g.files[id].name = "durable"
  BY DEF Spares
<1> QED BY <1>1, <1>2, <1>3 DEF Spares

LEMMA SparesMore ==
  ASSUME NEW d, NEW e, NEW G, Spares(d, e, G), NEW G2, G \subseteq G2 PROVE Spares(d, e, G2)
BY DEF Spares

\* Such a directory has no other records, and what was safe outside G is.
LEMMA SparesKeeps ==
  ASSUME NEW d, Whole(d), NEW e, Whole(e), NEW G, Spares(d, e, G)
  PROVE  Fewer(d, e) /\ \A p : p.seg \notin G => Safer(d, e, p)
<1>1. Fewer(d, e) BY DEF Fewer, Spares
<1>2. ASSUME NEW p, p.seg \notin G, Fast(d, p) PROVE Fast(e, p) /\ At(e, p) = At(d, p)
  <2> DEFINE id == p.seg
             a == d.files[id].synced
             b == e.files[id].synced
  <2>1. id \in DOMAIN d.files /\ d.files[id].name = "durable" /\ p.pos \in 1 .. a BY <1>2 DEF Fast
  <2>2. id \in DOMAIN e.files /\ e.files[id].name = "durable" BY <1>2, <2>1 DEF Spares
  <2>3. b >= a /\ e.files[id].body = d.files[id].body BY <2>2 DEF Spares
  <2>4. a \in Nat /\ b \in Nat BY <2>1, <2>2, SyncedNat
  <2> HIDE DEF a, b
  <2>5. p.pos \in 1 .. b BY <2>1, <2>3, <2>4
  <2> QED BY <2>2, <2>3, <2>5 DEF Fast, At, b
<1> QED BY <1>1, <1>2 DEF Safer

MildCall(c, G) ==
  /\ c.do \in {"syncFile", "syncDir", "unlink", "snapshot", "removeSnapshot", "return"}
  /\ c.do = "unlink" => c.id \in G

\* A sync of the directory.
LEMMA DirectorySyncedSpares ==
  ASSUME NEW d, Sound(d), NEW e, e.files = DirectorySynced(d.files), NEW G
  PROVE  Spares(d, e, G) /\ \A id \in DOMAIN e.files : e.files[id].name = "durable"
<1>1. DOMAIN e.files = Listed(d.files) /\ \A id \in Listed(d.files) : e.files[id] = [d.files[id] EXCEPT !.name = "durable"]
  BY DEF DirectorySynced
<1>2. Listed(d.files) \subseteq DOMAIN d.files /\ \A id \in Listed(d.files) : d.files[id].name # "unlinked" BY DEF Listed
<1>3. ASSUME NEW id \in Listed(d.files)
      PROVE  /\ e.files[id].body = d.files[id].body /\ e.files[id].synced = d.files[id].synced
             /\ e.files[id].name = "durable" /\ d.files[id].synced \in Nat
  <2>1. DOMAIN d.files[id] = {"name", "header", "body", "synced", "torn"} BY <1>2 DEF Sound, Whole, IsFile
  <2>2. d.files[id].synced \in Nat BY <1>2, SyncedNat DEF Sound
  <2> QED BY <1>1, <2>1, <2>2
<1>4. \A id \in DOMAIN d.files : d.files[id].name = "durable" => id \in Listed(d.files) BY DEF Listed
<1>5. \A id \in Listed(d.files) : e.files[id].synced >= d.files[id].synced BY <1>3
<1> QED BY <1>1, <1>2, <1>3, <1>4, <1>5 DEF Spares

LEMMA MildCallSpares ==
  ASSUME NEW d, Sound(d), NEW c, NEW G, MildCall(c, G)
  PROVE  LET e == Done(d, c) IN Sound(e) /\ Spares(d, e, G) /\ e.metadata = d.metadata
<1> DEFINE e == Done(d, c)
<1>1. TidyCall(c) BY DEF TidyCall, MildCall
<1>2. Sound(e) BY <1>1, TidyCallTrims
<1>3. {"files", "metadata", "snapshots"} \subseteq DOMAIN d BY DEF Sound, Whole
<1>4. CASE c.do = "syncFile"
  <2> DEFINE f == d.files[c.id]
             g == FileSynced(f)
             files == [d.files EXCEPT ![c.id] = g]
  <2>1. e = [d EXCEPT !.files = files] BY <1>4 DEF Done
  <2>2. e.files = files /\ e.metadata = d.metadata BY <1>3, <2>1
  <2>3. ASSUME NEW id \in DOMAIN d.files
        PROVE  /\ files[id].body = d.files[id].body /\ files[id].synced >= d.files[id].synced
               /\ files[id].name = d.files[id].name
    <3>1. d.files[id].synced \in Nat /\ d.files[id].synced <= Len(d.files[id].body)
          /\ Len(d.files[id].body) \in Nat
      BY SyncedNat DEF Sound
    <3>2. CASE id = c.id
      <4>1. DOMAIN f = {"name", "header", "body", "synced", "torn"} BY <3>2 DEF Sound, Whole, IsFile
      <4>2. g.body = f.body /\ g.name = f.name /\ g.synced = Len(f.body) BY <4>1 DEF FileSynced
      <4>3. files[id] = g BY <3>2
      <4> QED BY <3>1, <3>2, <4>2, <4>3
    <3>3. CASE id # c.id
      <4>1. files[id] = d.files[id] BY <3>3
      <4> QED BY <3>1, <4>1
    <3> QED BY <3>2, <3>3
  <2>4. DOMAIN files = DOMAIN d.files OBVIOUS
  <2> HIDE DEF files, e
  <2> QED BY <1>2, <2>2, <2>3, <2>4 DEF Spares, e
<1>5. CASE c.do = "unlink"
  <2> DEFINE f == d.files[c.id]
             g == [f EXCEPT !.name = "unlinked"]
             files == [d.files EXCEPT ![c.id] = g]
  <2>1. e = [d EXCEPT !.files = files] BY <1>5 DEF Done
  <2>2. e.files = files /\ e.metadata = d.metadata BY <1>3, <2>1
  <2>3. ASSUME NEW id \in DOMAIN d.files
        PROVE  /\ files[id].body = d.files[id].body /\ files[id].synced >= d.files[id].synced
               /\ id # c.id => files[id].name = d.files[id].name
               /\ id = c.id => files[id].name = "unlinked"
    <3>1. d.files[id].synced \in Nat BY SyncedNat DEF Sound
    <3>2. CASE id = c.id
      <4>1. DOMAIN f = {"name", "header", "body", "synced", "torn"} BY <3>2 DEF Sound, Whole, IsFile
      <4>2. g.body = f.body /\ g.synced = f.synced /\ g.name = "unlinked" BY <4>1
      <4>3. files[id] = g BY <3>2
      <4> HIDE DEF g, files
      <4> QED BY <3>1, <3>2, <4>2, <4>3
    <3>3. CASE id # c.id
      <4>1. files[id] = d.files[id] BY <3>3
      <4> QED BY <3>1, <4>1
    <3> QED BY <3>2, <3>3
  <2>4. DOMAIN files = DOMAIN d.files OBVIOUS
  <2>5. c.id \in G BY <1>5 DEF MildCall
  <2> HIDE DEF files, e
  <2> QED BY <1>2, <2>2, <2>3, <2>4, <2>5 DEF Spares, e
<1>6. CASE c.do = "return"
  <2>1. e = d BY <1>6 DEF Done
  <2> QED BY <1>2, <2>1, SparesItself DEF Sound
<1>7. CASE c.do \in {"syncDir", "snapshot", "removeSnapshot"}
  <2>1. e.files = DirectorySynced(d.files) /\ e.metadata = d.metadata BY <1>3, <1>7 DEF Done
  <2> QED BY <1>2, <2>1, DirectorySyncedSpares
<1> QED BY <1>4, <1>5, <1>6, <1>7 DEF MildCall

\* A list of such calls.
Mild(s, G) == IsSeq(s) /\ \A i \in 1 .. Len(s) : MildCall(s[i], G)

\* The directories on the way.
MildPath(f, d, s, G) ==
  /\ Passing(f, d, s, Len(s))
  /\ \A k \in 0 .. Len(s) : /\ Sound(f[k]) /\ f[k].metadata = d.metadata
                            /\ Spares(d, f[k], G) /\ Spares(f[k], f[Len(s)], G)

LEMMA MildPathExists ==
  ASSUME NEW d, Sound(d), NEW s, NEW G, Mild(s, G)
  PROVE  \E f : MildPath(f, d, s, G)
<1> DEFINE n == Len(s)
<1>0. n \in Nat BY LenProperties DEF Mild, IsSeq
<1>1. PICK f : Passing(f, d, s, n) BY PathExists DEF Mild
<1> HIDE DEF n
<1>2. f[0] = d BY <1>1 DEF Passing
<1> DEFINE P(k) == Sound(f[k]) /\ f[k].metadata = d.metadata /\ \A j \in 0 .. k : Spares(f[j], f[k], G)
           S == {k \in 0 .. n : ~ P(k)}
<1>3. S = {}
  <2> SUFFICES ASSUME S # {} PROVE FALSE OBVIOUS
  <2>1. PICK k \in S : \A j \in S : k <= j
    <3>1. S \in SUBSET Nat OBVIOUS
    <3> HIDE DEF S
    <3> QED BY <3>1, LeastExists
  <2>2. k \in 0 .. n /\ ~ P(k) OBVIOUS
  <2>3. k # 0
    <3>1. \A j \in 0 .. 0 : j = 0 OBVIOUS
    <3>2. Spares(d, d, G) BY SparesItself DEF Sound
    <3>3. P(0) BY <1>2, <3>1, <3>2
    <3> QED BY <2>2, <3>3
  <2>4. k \in 1 .. n /\ k - 1 \in 0 .. n /\ ~ (k <= k - 1) BY <1>0, <2>2, <2>3
  <2>5. P(k - 1) BY <2>1, <2>4
  <2>6. f[k] = Done(f[k - 1], s[k]) BY <1>1, <2>4 DEF Passing
  <2>7. MildCall(s[k], G) BY <2>4 DEF Mild, n
  <2>8. Sound(f[k]) /\ Spares(f[k - 1], f[k], G) /\ f[k].metadata = f[k - 1].metadata
    BY <2>5, <2>6, <2>7, MildCallSpares
  <2>9. ASSUME NEW j \in 0 .. k PROVE Spares(f[j], f[k], G)
    <3>1. CASE j = k BY <2>8, <3>1, SparesItself DEF Sound
    <3>2. CASE j # k
      <4>1. j \in 0 .. (k - 1) /\ j \in 0 .. n /\ ~ (k <= j) BY <1>0, <2>4, <3>2
      <4>2. Spares(f[j], f[k - 1], G) BY <2>5, <4>1
      <4>3. P(j) BY <2>1, <4>1
      <4> QED BY <2>5, <2>8, <4>2, <4>3, SparesTwice DEF Sound
    <3> QED BY <3>1, <3>2
  <2>10. P(k) BY <2>5, <2>8, <2>9
  <2> QED BY <2>2, <2>10
<1>4. \A k \in 0 .. n : P(k) BY <1>3
<1>5. n \in 0 .. n /\ \A k \in 0 .. n : 0 \in 0 .. k BY <1>0
<1>6. \A k \in 0 .. n : /\ Sound(f[k]) /\ f[k].metadata = d.metadata
                        /\ Spares(d, f[k], G) /\ Spares(f[k], f[n], G)
  BY <1>2, <1>4, <1>5
<1> QED BY <1>1, <1>6 DEF MildPath, n

\* Making the calls of s in directory d leads to e, and recovery from every
\* directory on the way is as Trusty says.
Goes(d, s, e, w0, w1, top, H) ==
  \E X : Within(d, s, e, X) /\ \A x \in X : Sound(x) /\ Trusty(x, w0, w1, top, H)

\* No entry of w that is promised lies in a segment of G.
Apart(w, d, top, G) ==
  \A j \in 1 .. Len(w.log) :
    w.first + j - 1 >= Meta(d).first /\ w.first + j - 1 <= top => w.at[j].seg \notin G

LEMMA SparesTrusty ==
  ASSUME NEW d, Sound(d), NEW e, Sound(e), NEW w0, NEW w1, NEW top \in Int, NEW H, NEW G,
         Trusty(d, w0, w1, top, H), Spares(d, e, G), e.metadata = d.metadata, Apart(w0, d, top, G)
  PROVE  Trusty(e, w0, w1, top, H)
<1>1. Whole(d) /\ Whole(e) BY DEF Sound
<1>2. Fewer(d, e) /\ \A p : p.seg \notin G => Safer(d, e, p) BY <1>1, SparesKeeps
<1>3. Meta(e) = Meta(d) /\ Meta(d).first \in Nat /\ Meta(d).seg \in Nat /\ Meta(d).hs \in H
  BY <1>1, MetaIs DEF Meta, Trusty
<1>4. Meta(d).first <= Meta(d).first /\ Meta(d).seg <= Meta(d).seg BY <1>3
<1>5. \A j \in 1 .. Len(w0.log) :
        w0.first + j - 1 >= Meta(e).first /\ w0.first + j - 1 <= top =>
          Safer(d, e, w0.at[j]) /\ w0.at[j].seg >= Meta(e).seg
  BY <1>2, <1>3 DEF Apart, Trusty, Vows
<1> QED BY <1>1, <1>2, <1>3, <1>4, <1>5, TrustyKept

LEMMA MildGoes ==
  ASSUME NEW d, NEW s, NEW G, NEW f, MildPath(f, d, s, G), IsSeq(s), NEW w0, NEW w1, NEW top \in Int, NEW H,
         Sound(d), Trusty(d, w0, w1, top, H), Apart(w0, d, top, G)
  PROVE  Goes(d, s, f[Len(s)], w0, w1, top, H)
<1> DEFINE n == Len(s)
           X == {f[k] : k \in 0 .. n}
<1>1. \A x \in X : Sound(x) /\ Trusty(x, w0, w1, top, H)
  <2>1. SUFFICES ASSUME NEW k \in 0 .. n PROVE Sound(f[k]) /\ Trusty(f[k], w0, w1, top, H) OBVIOUS
  <2>2. Sound(f[k]) /\ f[k].metadata = d.metadata /\ Spares(d, f[k], G) BY DEF MildPath
  <2> QED BY <2>2, SparesTrusty
<1>2. \A k \in 0 .. n : f[k] \in X OBVIOUS
<1> HIDE DEF X
<1>3. Within(d, s, f[n], X) BY <1>2 DEF Within, MildPath
<1> QED BY <1>1, <1>3 DEF Goes

LEMMA GoesNone ==
  ASSUME NEW d, NEW e, NEW w0, NEW w1, NEW top, NEW H
  PROVE  Goes(d, <<>>, e, w0, w1, top, H) <=> e = d /\ Sound(d) /\ Trusty(d, w0, w1, top, H)
<1>1. ASSUME Goes(d, <<>>, e, w0, w1, top, H) PROVE e = d /\ Sound(d) /\ Trusty(d, w0, w1, top, H)
  BY <1>1, WithinNone DEF Goes
<1>2. ASSUME e = d, Sound(d), Trusty(d, w0, w1, top, H) PROVE Goes(d, <<>>, e, w0, w1, top, H)
  <2>1. Within(d, <<>>, e, {d}) BY <1>2, WithinNone
  <2> QED BY <1>2, <2>1 DEF Goes
<1> QED BY <1>1, <1>2

LEMMA GoesOne ==
  ASSUME NEW d, NEW c, NEW w0, NEW w1, NEW top, NEW H, Sound(d), Trusty(d, w0, w1, top, H),
         Sound(Done(d, c)), Trusty(Done(d, c), w0, w1, top, H)
  PROVE  Goes(d, <<c>>, Done(d, c), w0, w1, top, H) /\ IsSeq(<<c>>)
<1>1. Within(d, <<c>>, Done(d, c), {d, Done(d, c)}) BY WithinOne
<1>2. \A x \in {d, Done(d, c)} : Sound(x) /\ Trusty(x, w0, w1, top, H) OBVIOUS
<1>3. IsSeq(<<c>>) BY TwoCalls
<1> QED BY <1>1, <1>2, <1>3 DEF Goes

LEMMA GoesRest ==
  ASSUME NEW d, NEW s, IsSeq(s), s # <<>>, NEW e, NEW w0, NEW w1, NEW top, NEW H, Goes(d, s, e, w0, w1, top, H)
  PROVE  Goes(Done(d, Head(s)), Tail(s), e, w0, w1, top, H)
<1>1. PICK X : Within(d, s, e, X) /\ \A x \in X : Sound(x) /\ Trusty(x, w0, w1, top, H) BY DEF Goes
<1>2. Within(Done(d, Head(s)), Tail(s), e, X) BY <1>1, WithinRest
<1> QED BY <1>1, <1>2 DEF Goes

LEMMA GoesJoined ==
  ASSUME NEW d, NEW s, NEW e, NEW t, NEW g, IsSeq(s), IsSeq(t), NEW w0, NEW w1, NEW top, NEW H,
         Goes(d, s, e, w0, w1, top, H), Goes(e, t, g, w0, w1, top, H)
  PROVE  Goes(d, s \o t, g, w0, w1, top, H) /\ IsSeq(s \o t)
<1>1. PICK X : Within(d, s, e, X) /\ \A x \in X : Sound(x) /\ Trusty(x, w0, w1, top, H) BY DEF Goes
<1>2. PICK Y : Within(e, t, g, Y) /\ \A x \in Y : Sound(x) /\ Trusty(x, w0, w1, top, H) BY DEF Goes
<1>3. Within(d, s \o t, g, X \cup Y) BY <1>1, <1>2, WithinJoined
<1>4. \A x \in X \cup Y : Sound(x) /\ Trusty(x, w0, w1, top, H) BY <1>1, <1>2
<1>5. IsSeq(s \o t) BY Joined
<1> QED BY <1>3, <1>4, <1>5 DEF Goes

\* Both ends are directories on the way.
LEMMA GoesEnds ==
  ASSUME NEW d, NEW s, NEW e, IsSeq(s), NEW w0, NEW w1, NEW top, NEW H, Goes(d, s, e, w0, w1, top, H)
  PROVE  /\ Sound(d) /\ Trusty(d, w0, w1, top, H)
         /\ Sound(e) /\ Trusty(e, w0, w1, top, H)
<1>1. PICK X : Within(d, s, e, X) /\ \A x \in X : Sound(x) /\ Trusty(x, w0, w1, top, H) BY DEF Goes
<1>2. PICK f : Passing(f, d, s, Len(s)) /\ f[Len(s)] = e /\ \A k \in 0 .. Len(s) : f[k] \in X BY <1>1 DEF Within
<1>3. Len(s) \in Nat BY LenProperties DEF IsSeq
<1>4. 0 \in 0 .. Len(s) /\ Len(s) \in 0 .. Len(s) BY <1>3
<1>5. d \in X /\ e \in X BY <1>2, <1>4 DEF Passing
<1> QED BY <1>1, <1>5

\* The directory the calls lead to is the one that the struct describes.
LEMMA GoesMatches ==
  ASSUME NEW d, NEW s, NEW e, NEW w0, NEW w1, NEW top, NEW H, Goes(d, s, e, w0, w1, top, H),
         NEW w, Leads(d, s, w)
  PROVE  Matches(w, e)
<1>1. PICK X : Within(d, s, e, X) BY DEF Goes
<1>2. IsSeq(s) BY DEF Leads
<1>3. PICK g : Reaches(d, s, g) /\ Matches(w, g) BY DEF Leads
<1>4. PICK Y : Within(d, s, g, Y) BY <1>3 DEF Reaches
<1>5. e = g BY <1>1, <1>2, <1>4, WithinUnique
<1> QED BY <1>3, <1>5

\* The log of w2 starts with that of w.
Extends(w, w2) ==
  /\ Struct(w2) /\ w2.first = w.first
  /\ \A j \in 1 .. Len(w.log) : j \in 1 .. Len(w2.log) /\ w2.log[j] = w.log[j] /\ w2.at[j] = w.at[j]

LEMMA TellsMore ==
  ASSUME NEW w, NEW w2, Extends(w, w2), NEW d, Tells(w, d) PROVE Tells(w2, d)
<1> SUFFICES ASSUME NEW id, NEW p, Wanted(d, id, p) PROVE Lists(w2, id, p, d.files[id].body[p]) BY DEF Tells
<1> DEFINE r == d.files[id].body[p]
<1>1. Lists(w, id, p, r) BY DEF Tells
<1> HIDE DEF r
<1>2. PICK j \in 1 .. Len(w.log) : w.at[j].seg = id /\ w.at[j].pos = p /\ r = Entry(w.first + j - 1, w.log[j])
  BY <1>1 DEF Lists
<1>3. j \in 1 .. Len(w2.log) /\ w2.log[j] = w.log[j] /\ w2.at[j] = w.at[j] /\ w2.first = w.first
  BY <1>2 DEF Extends
<1>4. Lists(w2, id, p, r) BY <1>2, <1>3 DEF Lists
<1> QED BY <1>4 DEF r

LEMMA ExtendsTwice ==
  ASSUME NEW w, NEW w2, NEW w3, Extends(w, w2), Extends(w2, w3) PROVE Extends(w, w3)
BY DEF Extends

LEMMA ExtendsItself ==
  ASSUME NEW w, Struct(w) PROVE Extends(w, w)
BY DEF Extends

LEMMA TrustyMore ==
  ASSUME NEW d, NEW w0, NEW w1, NEW top, NEW H, Trusty(d, w0, w1, top, H), NEW w2, Extends(w1, w2)
  PROVE  Trusty(d, w0, w2, top, H)
<1>1. Struct(w2) BY DEF Extends
<1>2. Tells(w0, d) \/ Tells(w2, d) BY TellsMore DEF Trusty
<1> QED BY <1>1, <1>2 DEF Trusty

LEMMA GoesMore ==
  ASSUME NEW d, NEW s, NEW e, NEW w0, NEW w1, NEW top, NEW H, Goes(d, s, e, w0, w1, top, H), NEW w2, Extends(w1, w2)
  PROVE  Goes(d, s, e, w0, w2, top, H)
<1>1. PICK X : Within(d, s, e, X) /\ \A x \in X : Sound(x) /\ Trusty(x, w0, w1, top, H) BY DEF Goes
<1>2. \A x \in X : Trusty(x, w0, w2, top, H) BY <1>1, TrustyMore
<1> QED BY <1>1, <1>2 DEF Goes

\* Less is promised, or more HardStates are allowed.
LEMMA TrustyEase ==
  ASSUME NEW d, Sound(d), NEW w0, NEW w1, NEW top \in Int, NEW H, Trusty(d, w0, w1, top, H), Tells(w0, d),
         NEW w2, Struct(w2), NEW top2 \in Int, top2 <= top, NEW H2, H \subseteq H2
  PROVE  Trusty(d, w0, w2, top2, H2)
<1>1. Meta(d).first \in Nat BY MetaIs DEF Sound
<1>2. Struct(w0) /\ w0.first \in Nat /\ Len(w0.log) \in Nat /\ Meta(d).seg \in Nat /\ Meta(d).hs \in H2
  BY LastIs DEF Trusty, Struct
<1>3. Meta(d).first <= top2 => w0.first <= Meta(d).first BY <1>1, <1>2 DEF Trusty
<1>4. ASSUME NEW j \in 1 .. Len(w0.log), w0.first + j - 1 >= Meta(d).first, w0.first + j - 1 <= top2
      PROVE  Fast(d, w0.at[j]) /\ w0.at[j].seg >= Meta(d).seg /\ At(d, w0.at[j]) = Entry(w0.first + j - 1, w0.log[j])
  <2>1. w0.first + j - 1 <= top BY <1>2, <1>4
  <2> QED BY <1>4, <2>1 DEF Trusty, Vows
<1>5. Vows(w0, d, top2) BY <1>4 DEF Vows
<1> QED BY <1>2, <1>3, <1>5 DEF Trusty

-----------------------------------------------------------------------------
(***************************************************************************)
(* A directory at rest: a crash takes nothing of it.                       *)
(***************************************************************************)
Still(d) ==
  \A id \in DOMAIN d.files : d.files[id].name = "durable" /\ d.files[id].synced = Len(d.files[id].body)

LEMMA SyncFileIs ==
  ASSUME NEW d, Sound(d), NEW id
  PROVE  LET e == Done(d, SyncFile(id))
         IN id \in DOMAIN e.files => e.files[id].synced = Len(e.files[id].body)
<1> DEFINE c == SyncFile(id)
           f == d.files[id]
           g == FileSynced(f)
           files == [d.files EXCEPT ![id] = g]
           e == Done(d, c)
<1>1. c.do = "syncFile" /\ c.id = id BY DEF SyncFile, Call
<1>2. {"files", "metadata", "snapshots"} \subseteq DOMAIN d BY DEF Sound, Whole
<1>3. e = [d EXCEPT !.files = files]
  <2> HIDE DEF c
  <2> QED BY <1>1 DEF Done
<1>4. e.files = files BY <1>2, <1>3
<1> HIDE DEF e
<1>5. ASSUME id \in DOMAIN files PROVE files[id].synced = Len(files[id].body)
  <2>1. id \in DOMAIN d.files BY <1>5
  <2>2. DOMAIN f = {"name", "header", "body", "synced", "torn"} BY <2>1 DEF Sound, Whole, IsFile
  <2>3. g.body = f.body /\ g.synced = Len(f.body) BY <2>2 DEF FileSynced
  <2>4. files[id] = g BY <2>1
  <2> HIDE DEF files, g, f
  <2> QED BY <2>3, <2>4
<1> QED BY <1>4, <1>5 DEF e, c

\* syncAll: every file and, if a name changed, the directory.
LEMMA SyncAllStill ==
  ASSUME NEW d, Sound(d), NEW w, IsFiniteSet(w.segs), w.segs \subseteq Nat, Listed(d.files) \subseteq w.segs,
         w.dirDirty \/ \A id \in DOMAIN d.files : d.files[id].name = "durable"
  PROVE  IsSeq(SyncAll(w)) /\ \E f : MildPath(f, d, SyncAll(w), {}) /\ Still(f[Len(SyncAll(w))])
<1> DEFINE ids == Ascending(w.segs)
           n == Cardinality(w.segs)
           files == [i \in DOMAIN ids |-> SyncFile(ids[i])]
           dir == IF w.dirDirty THEN <<SyncDir>> ELSE <<>>
           s == files \o dir
<1>1. /\ n \in Nat /\ DOMAIN ids = 1 .. n
      /\ \A x \in w.segs : \E i \in 1 .. n : ids[i] = x
  BY AscendingLists
<1>2. DOMAIN files = 1 .. n /\ files = [i \in 1 .. n |-> files[i]] BY <1>1
<1>3. \A i \in 1 .. n : files[i] = SyncFile(ids[i]) BY <1>1
<1>4. SyncAll(w) = s BY DEF SyncAll
<1> HIDE DEF files, ids, n
<1>5. IsSeq(files) /\ Len(files) = n BY <1>1, <1>2, ListIsSeq
<1>6. IsSeq(dir) /\ (w.dirDirty => Len(dir) = 1 /\ dir[1] = SyncDir) /\ (~ w.dirDirty => Len(dir) = 0)
  <2>1. IsSeq(<<>>) /\ Len(<<>>) = 0 BY TidyNone DEF Tidy
  <2>2. IsSeq(<<SyncDir>>) BY TwoCalls
  <2>3. Len(<<SyncDir>>) = 1 /\ <<SyncDir>>[1] = SyncDir OBVIOUS
  <2> QED BY <2>1, <2>2, <2>3
<1> DEFINE m == Len(dir)
<1> HIDE DEF dir
<1>7. /\ IsSeq(s) /\ m \in Nat /\ Len(s) = n + m
      /\ \A i \in 1 .. n : s[i] = files[i]
      /\ \A i \in (n + 1) .. (n + m) : s[i] = dir[i - n]
  BY <1>5, <1>6, Joined
<1> HIDE DEF s, m
<1>8. ASSUME NEW i \in 1 .. Len(s) PROVE MildCall(s[i], {})
  <2>1. \A id : MildCall(SyncFile(id), {}) BY DEF MildCall, SyncFile, Call
  <2>2. MildCall(SyncDir, {}) BY DEF MildCall, SyncDir, Call
  <2>3. CASE i <= n
    <3>1. i \in 1 .. n BY <1>1, <1>7, <2>3
    <3> QED BY <1>3, <1>7, <2>1, <3>1
  <2>4. CASE ~ (i <= n)
    <3>1. i \in (n + 1) .. (n + m) /\ m # 0 BY <1>1, <1>7, <2>4
    <3>2. w.dirDirty /\ m = 1 BY <1>6, <3>1 DEF m
    <3>3. i - n = 1 BY <1>1, <1>7, <3>1, <3>2
    <3> QED BY <1>6, <1>7, <2>2, <3>1, <3>2, <3>3
  <2> QED BY <2>3, <2>4
<1>9. Mild(s, {}) BY <1>7, <1>8 DEF Mild
<1>10. PICK f : MildPath(f, d, s, {}) BY <1>9, MildPathExists
<1> DEFINE N == Len(s)
           e == f[N]
<1>11. /\ Passing(f, d, s, N)
       /\ \A k \in 0 .. N : Sound(f[k]) /\ Spares(d, f[k], {}) /\ Spares(f[k], e, {})
  BY <1>10 DEF MildPath
<1>12. N \in Nat /\ N = n + m BY <1>1, <1>7
<1> HIDE DEF N
<1>13. Sound(e) /\ Spares(d, e, {})
  <2>1. N \in 0 .. N BY <1>12
  <2> QED BY <1>11, <2>1
<1>14. ASSUME NEW id \in DOMAIN e.files PROVE e.files[id].name = "durable"
  <2>1. CASE w.dirDirty
    <3>1. m = 1 /\ dir[1] = SyncDir BY <1>6, <2>1 DEF m
    <3>2. N \in 1 .. N /\ N - 1 \in 0 .. N /\ N \in (n + 1) .. (n + m) /\ N - n = 1 BY <1>1, <1>12, <3>1
    <3>3. s[N] = SyncDir BY <1>7, <3>1, <3>2
    <3>4. e = Done(f[N - 1], SyncDir) BY <1>11, <3>2, <3>3 DEF Passing
    <3>5. Sound(f[N - 1]) BY <1>11, <3>2
    <3>6. {"files", "metadata", "snapshots"} \subseteq DOMAIN f[N - 1] BY <3>5 DEF Sound, Whole
    <3>7. SyncDir.do = "syncDir" BY DEF SyncDir, Call
    <3> DEFINE x == f[N - 1]
    <3> HIDE DEF e, x
    <3>8. e.files = DirectorySynced(x.files) BY <3>4, <3>6, <3>7 DEF Done, x
    <3> QED BY <3>5, <3>8, DirectorySyncedSpares DEF x
  <2>2. CASE ~ w.dirDirty BY <1>13, <2>2 DEF Spares
  <2> QED BY <2>1, <2>2
<1>15. ASSUME NEW id \in DOMAIN e.files PROVE e.files[id].synced = Len(e.files[id].body)
  <2>1. id \in DOMAIN d.files /\ d.files[id].name # "unlinked"
    <3>1. e.files[id].name # "unlinked" BY <1>14
    <3> QED BY <1>13, <3>1 DEF Spares
  <2>2. id \in w.segs BY <2>1 DEF Listed
  <2>3. PICK k \in 1 .. n : ids[k] = id BY <1>1, <2>2
  <2>4. k \in 1 .. N /\ k - 1 \in 0 .. N /\ k \in 0 .. N BY <1>1, <1>7, <1>12
  <2>5. f[k] = Done(f[k - 1], SyncFile(id)) BY <1>3, <1>7, <1>11, <2>3, <2>4 DEF Passing
  <2>6. Sound(f[k - 1]) /\ Sound(f[k]) /\ Spares(f[k], e, {}) BY <1>11, <2>4
  <2> DEFINE x == f[k]
             a == x.files[id].synced
             b == e.files[id].synced
             l == Len(e.files[id].body)
  <2>7. id \in DOMAIN x.files /\ b >= a /\ e.files[id].body = x.files[id].body BY <2>6 DEF Spares
  <2>8. a = Len(x.files[id].body) BY <2>5, <2>6, <2>7, SyncFileIs
  <2>9. a = l BY <2>7, <2>8
  <2>10. l \in Nat /\ b \in Nat /\ b <= l BY <1>13, SyncedNat DEF Sound
  <2> HIDE DEF a, b, l
  <2>11. b = l BY <2>7, <2>9, <2>10
  <2> QED BY <2>11 DEF b, l
<1>16. Still(e) BY <1>14, <1>15 DEF Still
<1> QED BY <1>4, <1>7, <1>10, <1>16 DEF N

\* w and the directory fit together between two operations: the metadata
\* starts the log where w does, at a segment that is not after it; the
\* directory was synced unless w says otherwise.
Fits(w, d) ==
  /\ Meta(d).first = w.first
  /\ Meta(d).seg \in Nat /\ Meta(d).seg <= Max(w.segs)
  /\ \A j \in 1 .. Len(w.log) : Meta(d).seg <= w.at[j].seg
  /\ ~ w.dirty => Meta(d).hs = w.hs
  /\ ~ w.dirDirty => \A id \in DOMAIN d.files : d.files[id].name = "durable"
  /\ \A id \in DOMAIN d.files : d.files[id].name # "unlinked"
  /\ Tells(w, d)

LEMMA StillFits ==
  ASSUME NEW w, NEW d, Still(d), Meta(d).first = w.first, Meta(d).seg \in Nat, Meta(d).seg <= Max(w.segs),
         \A j \in 1 .. Len(w.log) : Meta(d).seg <= w.at[j].seg,
         ~ w.dirty => Meta(d).hs = w.hs, Tells(w, d)
  PROVE  Fits(w, d)
<1>1. "durable" # "unlinked" OBVIOUS
<1> QED BY <1>1 DEF Still, Fits

\* Then the directory gives back the log of w.
LEMMA StillTrusty ==
  ASSUME NEW w, NEW d, Matches(w, d), Still(d), Fits(w, d), NEW H, Meta(d).hs \in H, NEW top
  PROVE  Trusty(d, w, w, top, H)
<1>1. Struct(w) /\ Sound(d) BY DEF Matches
<1>2. w.first \in Nat /\ Meta(d).first = w.first BY <1>1 DEF Struct, Fits
<1>3. ASSUME NEW j \in 1 .. Len(w.log)
      PROVE  Fast(d, w.at[j]) /\ At(d, w.at[j]) = Entry(w.first + j - 1, w.log[j])
  <2> DEFINE p == w.at[j]
             r == Entry(w.first + j - 1, w.log[j])
  <2>1. Holds(d, p, r) BY DEF Matches, Finds
  <2> HIDE DEF p, r
  <2>2. p.seg \in DOMAIN d.files BY <2>1 DEF Holds, Listed
  <2>3. d.files[p.seg].name = "durable" /\ d.files[p.seg].synced = Len(d.files[p.seg].body) BY <2>2 DEF Still
  <2>4. Fast(d, p) /\ At(d, p) = r BY <2>1, <2>2, <2>3 DEF Holds, Fast, At
  <2> QED BY <2>4 DEF p, r
<1>4. ASSUME NEW j \in 1 .. Len(w.log) PROVE w.at[j].seg >= Meta(d).seg
  <2>1. w.at[j].seg \in Nat
    <3>1. w.at[j].seg \in DOMAIN d.files BY <1>3 DEF Fast
    <3> QED BY <1>1, <3>1 DEF Sound, Whole
  <2>2. Meta(d).seg \in Nat /\ Meta(d).seg <= w.at[j].seg BY DEF Fits
  <2> QED BY <2>1, <2>2
<1>5. Vows(w, d, top) BY <1>3, <1>4 DEF Vows
<1>6. Meta(d).first <= top => w.first <= Meta(d).first BY <1>2
<1> QED BY <1>1, <1>5, <1>6 DEF Trusty, Fits

LEMMA FewerTwice ==
  ASSUME NEW d, NEW e, NEW g, Fewer(d, e), Fewer(e, g) PROVE Fewer(d, g)
BY DEF Fewer

LEMMA StillSpared ==
  ASSUME NEW d, Sound(d), Still(d), NEW e, Sound(e), Spares(d, e, {}) PROVE Still(e)
<1> SUFFICES ASSUME NEW id \in DOMAIN e.files
             PROVE  e.files[id].name = "durable" /\ e.files[id].synced = Len(e.files[id].body)
  BY DEF Still
<1> DEFINE a == d.files[id].synced
           b == e.files[id].synced
           l == Len(e.files[id].body)
<1>1. id \in DOMAIN d.files /\ b >= a /\ e.files[id].body = d.files[id].body BY DEF Spares
<1>2. d.files[id].name = "durable" /\ a = l BY <1>1 DEF Still
<1>3. b \in Nat /\ l \in Nat /\ b <= l BY SyncedNat DEF Sound
<1>4. e.files[id].name = "durable" BY <1>1, <1>2 DEF Spares
<1> HIDE DEF a, b, l
<1>5. b = l BY <1>1, <1>2, <1>3
<1> QED BY <1>4, <1>5 DEF b, l

\* The calls of s lead to a directory at rest, with no other files or records.
Rests(d, s, e, w0, w1, top, H) ==
  /\ IsSeq(s) /\ Goes(d, s, e, w0, w1, top, H) /\ Still(e)
  /\ Fewer(d, e) /\ DOMAIN e.files \subseteq DOMAIN d.files

LEMMA RestsJoined ==
  ASSUME NEW d, NEW s, NEW e, NEW t, NEW g, NEW w0, NEW w1, NEW top, NEW H,
         Rests(d, s, e, w0, w1, top, H), Rests(e, t, g, w0, w1, top, H)
  PROVE  Rests(d, s \o t, g, w0, w1, top, H)
<1>1. Goes(d, s \o t, g, w0, w1, top, H) /\ IsSeq(s \o t) BY GoesJoined DEF Rests
<1>2. Fewer(d, g) BY FewerTwice DEF Rests
<1> QED BY <1>1, <1>2 DEF Rests

\* After other calls.
LEMMA GoesThenRests ==
  ASSUME NEW d, NEW s, IsSeq(s), NEW e, NEW t, NEW g, NEW w0, NEW w1, NEW top, NEW H,
         Goes(d, s, e, w0, w1, top, H), Fewer(d, e), DOMAIN e.files \subseteq DOMAIN d.files,
         Rests(e, t, g, w0, w1, top, H)
  PROVE  Rests(d, s \o t, g, w0, w1, top, H)
<1>1. Goes(d, s \o t, g, w0, w1, top, H) /\ IsSeq(s \o t) BY GoesJoined DEF Rests
<1>2. Fewer(d, g) BY FewerTwice DEF Rests
<1> QED BY <1>1, <1>2 DEF Rests

LEMMA ApartNone ==
  ASSUME NEW w, NEW d, NEW top PROVE Apart(w, d, top, {})
BY DEF Apart

\* syncAll.
LEMMA FlushRests ==
  ASSUME NEW d, Sound(d), NEW w, IsFiniteSet(w.segs), w.segs \subseteq Nat, Listed(d.files) \subseteq w.segs,
         w.dirDirty \/ \A id \in DOMAIN d.files : d.files[id].name = "durable",
         NEW w0, NEW w1, NEW top \in Int, NEW H, Trusty(d, w0, w1, top, H)
  PROVE  \E e : Rests(d, SyncAll(w), e, w0, w1, top, H) /\ e.metadata = d.metadata
<1> DEFINE s == SyncAll(w)
<1>1. IsSeq(s) BY SyncAllStill
<1>2. PICK f : MildPath(f, d, s, {}) /\ Still(f[Len(s)]) BY SyncAllStill
<1> DEFINE e == f[Len(s)]
<1> HIDE DEF s
<1>3. Apart(w0, d, top, {}) BY ApartNone
<1>4. Goes(d, s, e, w0, w1, top, H) BY <1>1, <1>2, <1>3, MildGoes
<1>5. Len(s) \in Nat BY <1>1, LenProperties DEF IsSeq
<1>6. Len(s) \in 0 .. Len(s) BY <1>5
<1>7. Sound(e) /\ e.metadata = d.metadata /\ Spares(d, e, {}) BY <1>2, <1>6 DEF MildPath
<1>8. Fewer(d, e) BY <1>7, SparesKeeps DEF Sound
<1>9. DOMAIN e.files \subseteq DOMAIN d.files BY <1>7 DEF Spares
<1> HIDE DEF e
<1>10. Rests(d, s, e, w0, w1, top, H) BY <1>1, <1>2, <1>4, <1>8, <1>9 DEF Rests, e
<1> QED BY <1>7, <1>10 DEF s

\* Calls that neither write nor remove a segment.
LEMMA MildRests ==
  ASSUME NEW d, Sound(d), Still(d), NEW s, Mild(s, {}),
         NEW w0, NEW w1, NEW top \in Int, NEW H, Trusty(d, w0, w1, top, H)
  PROVE  \E e : Rests(d, s, e, w0, w1, top, H) /\ e.metadata = d.metadata
<1>1. IsSeq(s) BY DEF Mild
<1>2. PICK f : MildPath(f, d, s, {}) BY MildPathExists
<1> DEFINE e == f[Len(s)]
<1>3. Apart(w0, d, top, {}) BY ApartNone
<1>4. Goes(d, s, e, w0, w1, top, H) BY <1>1, <1>2, <1>3, MildGoes
<1>5. Len(s) \in Nat BY <1>1, LenProperties DEF IsSeq
<1>6. Len(s) \in 0 .. Len(s) BY <1>5
<1>7. Sound(e) /\ e.metadata = d.metadata /\ Spares(d, e, {}) BY <1>2, <1>6 DEF MildPath
<1>8. Fewer(d, e) BY <1>7, SparesKeeps DEF Sound
<1>9. DOMAIN e.files \subseteq DOMAIN d.files BY <1>7 DEF Spares
<1>10. Still(e) BY <1>7, StillSpared
<1> HIDE DEF e
<1>11. Rests(d, s, e, w0, w1, top, H) BY <1>1, <1>4, <1>8, <1>9, <1>10 DEF Rests
<1> QED BY <1>7, <1>11

\* Tidy calls that save nothing are mild.
LEMMA TidyIsMild ==
  ASSUME NEW s, Tidy(s), Plain(s) PROVE Mild(s, Removed(s))
<1> SUFFICES ASSUME NEW i \in 1 .. Len(s) PROVE MildCall(s[i], Removed(s)) BY DEF Mild, Tidy
<1>1. TidyCall(s[i]) /\ s[i].do # "metadata" BY DEF Tidy, Plain
<1>2. ASSUME s[i].do = "unlink" PROVE s[i].id \in Removed(s)
  <2>1. Gone(s[i]) = {s[i].id} BY <1>2 DEF Gone
  <2> QED BY <2>1 DEF Removed, RemovedUpTo
<1> QED BY <1>1, <1>2 DEF TidyCall, MildCall

\* Removals, then syncAll.
LEMMA RemoveRests ==
  ASSUME NEW d, Sound(d), NEW s, Tidy(s), Plain(s), NEW G, Removed(s) = G,
         NEW w, IsFiniteSet(w.segs), w.segs \subseteq Nat, Listed(d.files) \ G \subseteq w.segs,
         w.dirDirty \/ (G = {} /\ \A id \in DOMAIN d.files : d.files[id].name = "durable"),
         NEW w0, NEW w1, NEW top \in Int, NEW H, Trusty(d, w0, w1, top, H), Apart(w0, d, top, G)
  PROVE  \E e : Rests(d, s \o SyncAll(w), e, w0, w1, top, H) /\ e.metadata = d.metadata
<1>1. Mild(s, G) /\ IsSeq(s) BY TidyIsMild DEF Mild
<1>2. PICK f : MildPath(f, d, s, G) BY <1>1, MildPathExists
<1> DEFINE e == f[Len(s)]
<1>4. Goes(d, s, e, w0, w1, top, H) BY <1>1, <1>2, MildGoes
<1>5. Len(s) \in Nat BY <1>1, LenProperties DEF IsSeq
<1>6. Len(s) \in 0 .. Len(s) BY <1>5
<1>7. Sound(e) /\ e.metadata = d.metadata /\ Spares(d, e, G) BY <1>2, <1>6 DEF MildPath
<1>8. Fewer(d, e) BY <1>7, SparesKeeps DEF Sound
<1>9. DOMAIN e.files \subseteq DOMAIN d.files BY <1>7 DEF Spares
<1> HIDE DEF e
<1>10. Listed(e.files) = Listed(d.files) \ G
  <2>1. PICK g : Reaches(d, s, g) /\ Trims(d, g, G) BY TidyRun
  <2>2. PICK Y : Within(d, s, g, Y) BY <2>1 DEF Reaches
  <2>3. PICK X : Within(d, s, e, X) BY <1>4 DEF Goes
  <2>4. e = g BY <1>1, <2>2, <2>3, WithinUnique
  <2> QED BY <2>1, <2>4 DEF Trims
<1>11. w.dirDirty \/ \A id \in DOMAIN e.files : e.files[id].name = "durable"
  <2>1. CASE w.dirDirty BY <2>1
  <2>2. CASE G = {} /\ \A id \in DOMAIN d.files : d.files[id].name = "durable" BY <1>7, <1>9, <2>2 DEF Spares
  <2> QED BY <2>1, <2>2
<1>12. Trusty(e, w0, w1, top, H) BY <1>1, <1>4, GoesEnds
<1>13. PICK g : Rests(e, SyncAll(w), g, w0, w1, top, H) /\ g.metadata = e.metadata
  BY <1>7, <1>10, <1>11, <1>12, FlushRests
<1>14. Rests(d, s \o SyncAll(w), g, w0, w1, top, H) BY <1>1, <1>4, <1>8, <1>9, <1>13, GoesThenRests
<1> QED BY <1>7, <1>13, <1>14

\* cleanupCompactedSegments.
LEMMA CleanupRests ==
  ASSUME NEW w, Struct(w), NEW d, Sound(d), Listed(d.files) \subseteq w.segs,
         w.dirDirty \/ \A id \in DOMAIN d.files : d.files[id].name = "durable",
         NEW seg, seg = IF w.log # <<>> THEN Lookup(w, w.first).seg ELSE Max(w.segs), seg \in Nat,
         NEW w0, NEW w1, NEW top \in Int, NEW H, Trusty(d, w0, w1, top, H),
         Apart(w0, d, top, {id \in w.segs : id < seg})
  PROVE  \E e : Rests(d, Cleanup(w).calls, e, w0, w1, top, H) /\ e.metadata = d.metadata
<1> DEFINE kept == {id \in w.segs : id >= seg}
           G == {id \in w.segs : id < seg}
           left == Keeping(w, kept)
           away == UnlinkBefore(w.segs, seg)
<1>1. Cleanup(w) = [wal |-> Synced(left), calls |-> away \o SyncAll(left)] BY DEF Cleanup
<1>2. kept \subseteq w.segs /\ kept = w.segs \ G BY DEF Struct
<1>3. Tidy(away) /\ Removed(away) = G BY UnlinkBeforeTidy DEF Struct
<1>4. Plain(away) BY UnlinkBeforePlain DEF Struct
<1>5. (kept = w.segs => G = {}) BY DEF Struct
<1> HIDE DEF kept, G
<1>6. left.segs = kept /\ left.dirDirty = (w.dirDirty \/ kept # w.segs) BY DEF Keeping, Struct
<1>7. IsFiniteSet(left.segs) /\ left.segs \subseteq Nat BY <1>2, <1>6, FS_Subset DEF Struct
<1>8. Listed(d.files) \ G \subseteq left.segs BY <1>2, <1>6
<1>9. left.dirDirty \/ (G = {} /\ \A id \in DOMAIN d.files : d.files[id].name = "durable") BY <1>5, <1>6
<1>10. Apart(w0, d, top, G) BY DEF G
<1>11. Cleanup(w).calls = away \o SyncAll(left) BY <1>1
<1> HIDE DEF left, away
<1>12. PICK e : Rests(d, away \o SyncAll(left), e, w0, w1, top, H) /\ e.metadata = d.metadata
  BY <1>3, <1>4, <1>7, <1>8, <1>9, <1>10, RemoveRests
<1> QED BY <1>11, <1>12

\* A save of metadata in a directory at rest.
LEMMA SaveIs ==
  ASSUME NEW d, Sound(d), Still(d), NEW m, IsMetadata(m), m # NoMetadata
  PROVE  LET e == Done(d, SaveMetadata(m))
         IN Sound(e) /\ Still(e) /\ Spares(d, e, {}) /\ Meta(e) = m
<1> DEFINE c == SaveMetadata(m)
           e == Done(d, c)
<1>1. c.do = "metadata" /\ c.arg = m BY DEF SaveMetadata, Call
<1>2. {"files", "metadata", "snapshots"} \subseteq DOMAIN d BY DEF Sound, Whole
<1> HIDE DEF c
<1>3. e = [d EXCEPT !.files = DirectorySynced(@), !.metadata = m] BY <1>1 DEF Done
<1>4. e.files = DirectorySynced(d.files) /\ e.metadata = m BY <1>2, <1>3
<1>5. TidyCall(c) BY <1>1 DEF TidyCall
<1>6. Sound(e) BY <1>5, TidyCallTrims
<1> HIDE DEF e
<1>7. Spares(d, e, {}) BY <1>4, DirectorySyncedSpares
<1>8. Still(e) BY <1>6, <1>7, StillSpared
<1>9. Meta(e) = m BY <1>4 DEF Meta
<1> QED BY <1>6, <1>7, <1>8, <1>9 DEF e, c

LEMMA SaveRests ==
  ASSUME NEW d, Sound(d), Still(d), NEW m, IsMetadata(m), m # NoMetadata,
         NEW w0, NEW w1, NEW top \in Int, NEW H, Trusty(d, w0, w1, top, H),
         Meta(d).first <= m.first, m.seg \in Nat, Meta(d).seg <= m.seg, m.hs \in H,
         \A j \in 1 .. Len(w0.log) :
           w0.first + j - 1 >= m.first /\ w0.first + j - 1 <= top => w0.at[j].seg >= m.seg
  PROVE  \E e : Rests(d, <<SaveMetadata(m)>>, e, w0, w1, top, H) /\ Meta(e) = m
<1> DEFINE e == Done(d, SaveMetadata(m))
<1>1. Sound(e) /\ Still(e) /\ Spares(d, e, {}) /\ Meta(e) = m BY SaveIs
<1> HIDE DEF e
<1>2. Whole(d) /\ Whole(e) BY <1>1 DEF Sound
<1>3. Fewer(d, e) /\ \A p : p.seg \notin {} => Safer(d, e, p) BY <1>1, <1>2, SparesKeeps
<1>4. \A j \in 1 .. Len(w0.log) :
        w0.first + j - 1 >= Meta(e).first /\ w0.first + j - 1 <= top =>
          Safer(d, e, w0.at[j]) /\ w0.at[j].seg >= Meta(e).seg
  BY <1>1, <1>3
<1>5. Trusty(e, w0, w1, top, H) BY <1>1, <1>2, <1>3, <1>4, TrustyKept
<1>6. Goes(d, <<SaveMetadata(m)>>, e, w0, w1, top, H) /\ IsSeq(<<SaveMetadata(m)>>)
  BY <1>1, <1>5, GoesOne DEF e
<1>7. DOMAIN e.files \subseteq DOMAIN d.files BY <1>1 DEF Spares
<1>8. Rests(d, <<SaveMetadata(m)>>, e, w0, w1, top, H) BY <1>1, <1>3, <1>6, <1>7 DEF Rests
<1> QED BY <1>1, <1>8

\* The segment from which recovery is to read the log from index on.
LEMMA FirstSegmentIs ==
  ASSUME NEW w, NEW d, Matches(w, d), NEW index \in Nat, index >= w.first
  PROVE  LET seg == FirstSegmentIdFor(w, index)
         IN /\ seg \in Nat /\ seg <= Max(w.segs)
            /\ \A j \in 1 .. Len(w.log) : w.first + j - 1 >= index => w.at[j].seg >= seg
            /\ Fits(w, d) => Meta(d).seg <= seg
<1> DEFINE seg == FirstSegmentIdFor(w, index)
           n == Len(w.log)
           k == index - w.first + 1
<1>1. Struct(w) BY DEF Matches
<1>2. n \in Nat /\ LastIndex(w) = w.first + n - 1 /\ w.first \in Nat BY <1>1, LastIs DEF Struct
<1>3. Max(w.segs) \in w.segs /\ Max(w.segs) \in Nat /\ \A x \in w.segs : x <= Max(w.segs) BY <1>1, AboveMax
<1>4. \A j \in 1 .. n : w.at[j].seg \in w.segs /\ w.at[j].seg \in Nat
  BY <1>1 DEF Matches, Finds, Holds, Struct
<1>5. CASE index <= LastIndex(w)
  <2>1. k \in 1 .. n BY <1>2, <1>5
  <2>2. seg = w.at[k].seg BY <1>5 DEF FirstSegmentIdFor, Lookup
  <2>3. ASSUME NEW j \in 1 .. n, w.first + j - 1 >= index PROVE w.at[j].seg >= seg
    <3>1. j = k \/ k < j BY <1>2, <2>1, <2>3
    <3>2. CASE j = k BY <1>4, <2>1, <2>2, <3>2
    <3>3. CASE k < j
      <4>1. Precedes(w.at[k], w.at[j]) BY <2>1, <3>3 DEF Matches, Finds
      <4>2. w.at[k].seg \in Nat /\ w.at[j].seg \in Nat BY <1>4, <2>1
      <4> QED BY <2>2, <4>1, <4>2 DEF Precedes
    <3> QED BY <3>1, <3>2, <3>3
  <2>4. seg \in Nat /\ seg <= Max(w.segs) BY <1>3, <1>4, <2>1, <2>2
  <2>5. Fits(w, d) => Meta(d).seg <= seg BY <2>1, <2>2 DEF Fits
  <2> QED BY <2>3, <2>4, <2>5
<1>6. CASE ~ (index <= LastIndex(w))
  <2>1. seg = Max(w.segs) BY <1>6 DEF FirstSegmentIdFor
  <2>2. \A j \in 1 .. n : ~ (w.first + j - 1 >= index) BY <1>2, <1>6
  <2>3. Fits(w, d) => Meta(d).seg <= seg BY <2>1 DEF Fits
  <2> QED BY <1>3, <2>1, <2>2, <2>3
<1> QED BY <1>5, <1>6

\* A save after other calls, of the log of w from index on.
LEMMA SaveAfter ==
  ASSUME NEW w, NEW d, Matches(w, d), Fits(w, d), NEW s, NEW e, NEW w1, NEW top \in Int, NEW H,
         Rests(d, s, e, w, w1, top, H), e.metadata = d.metadata,
         NEW index \in Nat, index >= w.first,
         NEW m, IsMetadata(m), m # NoMetadata, m.first = index, m.seg = FirstSegmentIdFor(w, index), m.hs \in H
  PROVE  \E g : Rests(d, s \o <<SaveMetadata(m)>>, g, w, w1, top, H) /\ Meta(g) = m
<1>1. Sound(e) /\ Trusty(e, w, w1, top, H) /\ Still(e) BY GoesEnds DEF Rests
<1>2. Meta(e) = Meta(d) BY DEF Meta
<1>3. /\ m.seg \in Nat /\ Meta(d).seg <= m.seg
      /\ \A j \in 1 .. Len(w.log) : w.first + j - 1 >= index => w.at[j].seg >= m.seg
  BY FirstSegmentIs
<1>4. Meta(d).first = w.first /\ w.first \in Nat BY DEF Fits, Matches, Struct
<1>5. Meta(e).first <= m.first BY <1>2, <1>4
<1>6. PICK g : Rests(e, <<SaveMetadata(m)>>, g, w, w1, top, H) /\ Meta(g) = m
  BY <1>1, <1>2, <1>3, <1>5, SaveRests
<1>7. Rests(d, s \o <<SaveMetadata(m)>>, g, w, w1, top, H) BY <1>6, RestsJoined
<1> QED BY <1>6, <1>7

LEMMA MetadataIs ==
  ASSUME NEW w, NEW first \in Nat, w.snap \in Nat, w.snap < first, NEW seg
  PROVE  LET m == MetadataOf(w, first, seg)
         IN IsMetadata(m) /\ m # NoMetadata /\ m.first = first /\ m.seg = seg /\ m.hs = w.hs
<1> DEFINE m == MetadataOf(w, first, seg)
<1>1. m.first = first /\ m.seg = seg /\ m.hs = w.hs /\ m.snap = w.snap /\ "seg" \in DOMAIN m BY DEF MetadataOf
<1>2. "seg" \notin DOMAIN NoMetadata BY DEF NoMetadata
<1> HIDE DEF m
<1>3. m # NoMetadata BY <1>1, <1>2
<1>4. IsMetadata(m) BY <1>1 DEF IsMetadata
<1> QED BY <1>1, <1>3, <1>4 DEF m

\* What a directory at rest tells after such calls.
LEMMA RestsTell ==
  ASSUME NEW d, NEW s, NEW e, NEW w0, NEW w1, NEW top, NEW H, Rests(d, s, e, w0, w1, top, H),
         NEW w, Tells(w, d), Meta(d).first <= Meta(e).first, Meta(d).seg <= Meta(e).seg
  PROVE  Tells(w, e)
<1>1. Sound(d) /\ Sound(e) /\ Trusty(d, w0, w1, top, H) /\ Trusty(e, w0, w1, top, H) BY GoesEnds DEF Rests
<1>2. Fewer(d, e) BY DEF Rests
<1>3. Meta(d).seg \in Nat /\ Meta(e).seg \in Nat BY <1>1 DEF Trusty
<1> QED BY <1>1, <1>2, <1>3, TellsFewer DEF Sound

-----------------------------------------------------------------------------
(***************************************************************************)
(* The promise: what every step keeps.                                     *)
(***************************************************************************)
\* The log from index 1.
LEMMA LogIs ==
  ASSUME NEW w, Struct(w)
  PROVE  /\ Len(LogOf(w)) \in Nat /\ Len(LogOf(w)) = w.first - 1 + Len(w.log)
         /\ \A i \in w.first .. Len(LogOf(w)) : LogOf(w)[i] = w.log[i - w.first + 1]
<1> DEFINE m == w.first - 1
           z == [i \in 1 .. m |-> 0]
           n == Len(w.log)
<1>1. w.first \in Nat /\ m \in Nat /\ IsSeq(w.log) BY DEF Struct
<1>2. n \in Nat BY LastIs
<1>3. DOMAIN z = 1 .. m /\ z = [i \in 1 .. m |-> z[i]] OBVIOUS
<1>4. LogOf(w) = z \o w.log BY DEF LogOf
<1>5. w.first = m + 1 BY <1>1
<1> HIDE DEF z, m
<1>6. IsSeq(z) /\ Len(z) = m BY <1>1, <1>3, ListIsSeq
<1>7. /\ Len(z \o w.log) = m + n
      /\ \A i \in (m + 1) .. (m + n) : (z \o w.log)[i] = w.log[i - m]
  BY <1>1, <1>6, Joined
<1> HIDE DEF n
<1>8. \A i \in w.first .. (m + n) : i \in (m + 1) .. (m + n) /\ i - m = i - w.first + 1 BY <1>1, <1>2, <1>5
<1>9. \A i \in w.first .. (m + n) : LogOf(w)[i] = w.log[i - w.first + 1]
  <2>1. \A i \in w.first .. (m + n) : LogOf(w)[i] = w.log[i - m] BY <1>4, <1>7, <1>8
  <2> QED BY <1>8, <2>1
<1>10. Len(LogOf(w)) = m + n /\ m + n \in Nat BY <1>1, <1>2, <1>4, <1>7
<1> QED BY <1>9, <1>10 DEF m, n

LEMMA StateIs ==
  ASSUME NEW w PROVE StateOf(w).log = LogOf(w) /\ StateOf(w).hs = w.hs
BY DEF StateOf

LEMMA StateSame ==
  ASSUME NEW w, NEW w2, w2.first = w.first, w2.log = w.log, w2.hs = w.hs PROVE StateOf(w2) = StateOf(w)
BY DEF StateOf, LogOf

\* The log of w has the entries of P up to index top.
Trusted(w, P, top) ==
  /\ top <= w.first - 1 + Len(w.log)
  /\ \A i \in w.first .. top : w.log[i - w.first + 1] = P[i]

\* The last promised index that was not overwritten.
TopOf(P, lowest) == Min({Len(P), lowest - 1})

HardStates(S) == {p.hs : p \in S}

\* w keeps the promise, and was the state of the WAL since.
Backed(w, P, top, S) == Trusted(w, P, top) /\ StateOf(w) \in S

\* The process runs: recovery would give back the promise, from here and from
\* every directory that the calls s lead through.
Promising(d, s, w, P, top, S) ==
  \E w0, e : /\ Backed(w0, P, top, S) /\ Backed(w, P, top, S)
             /\ Goes(d, s, e, w0, w, top, HardStates(S))
             /\ Fits(w, e) /\ Trusty(e, w, w, top, HardStates(S))
             /\ (\E i \in 1 .. Len(s) : s[i].do = "return") => Still(e) /\ ~ w.dirty

\* The process crashed: recovery will give it back.
Surviving(d, P, top, S) ==
  /\ Still(d)
  /\ \E w0, w1 : /\ Backed(w0, P, top, S) /\ StateOf(w1) \in S
                 /\ Trusty(d, w0, w1, top, HardStates(S))

PromiseInv ==
  /\ Len(promise.log) \in Nat /\ floor \in Int
  /\ phase = "down" => Surviving(disk, promise.log, TopOf(promise.log, floor), past)
  /\ phase = "open" => Promising(disk, todo, wal, promise.log, TopOf(promise.log, floor), past)

LEMMA MinOfTwo ==
  ASSUME NEW a \in Int, NEW b \in Int
  PROVE  Min({a, b}) \in Int /\ Min({a, b}) <= a /\ Min({a, b}) <= b /\ (Min({a, b}) = a \/ Min({a, b}) = b)
<1> DEFINE T == {a, b}
<1>1. \E x \in T : \A y \in T : x <= y OBVIOUS
<1>2. Min(T) \in T /\ \A y \in T : Min(T) <= y
  <2> HIDE DEF T
  <2> QED BY <1>1 DEF Min
<1> QED BY <1>2

LEMMA TopIs ==
  ASSUME NEW P, Len(P) \in Nat, NEW f \in Int
  PROVE  /\ TopOf(P, f) \in Int /\ TopOf(P, f) <= Len(P) /\ TopOf(P, f) <= f - 1
         /\ \A g \in Int : g <= f => TopOf(P, g) <= TopOf(P, f)
<1>1. \A g \in Int : /\ TopOf(P, g) \in Int /\ TopOf(P, g) <= Len(P) /\ TopOf(P, g) <= g - 1
                     /\ (TopOf(P, g) = Len(P) \/ TopOf(P, g) = g - 1)
  <2> TAKE g \in Int
  <2> DEFINE a == Len(P)
             b == g - 1
  <2>1. a \in Int /\ b \in Int OBVIOUS
  <2>2. TopOf(P, g) = Min({a, b}) BY DEF TopOf
  <2> HIDE DEF a, b
  <2>3. Min({a, b}) \in Int /\ Min({a, b}) <= a /\ Min({a, b}) <= b /\ (Min({a, b}) = a \/ Min({a, b}) = b)
    BY <2>1, MinOfTwo
  <2> QED BY <2>2, <2>3 DEF a, b
<1>2. ASSUME NEW g \in Int, g <= f PROVE TopOf(P, g) <= TopOf(P, f)
  <2> DEFINE a == TopOf(P, g)
             b == TopOf(P, f)
             l == Len(P)
  <2>1. a \in Int /\ b \in Int /\ a <= l /\ a <= g - 1 /\ (b = l \/ b = f - 1) BY <1>1
  <2> HIDE DEF a, b, l
  <2>2. a <= b BY <1>2, <2>1
  <2> QED BY <2>2 DEF a, b
<1> QED BY <1>1, <1>2

\* Less is promised, or more happened since.
LEMMA BackedEase ==
  ASSUME NEW w, NEW P, NEW top \in Int, NEW S, Backed(w, P, top, S), Struct(w),
         NEW top2 \in Int, top2 <= top, NEW S2, S \subseteq S2
  PROVE  Backed(w, P, top2, S2)
<1>1. w.first \in Nat /\ Len(w.log) \in Nat BY LastIs DEF Struct
<1>2. top2 <= w.first - 1 + Len(w.log) BY <1>1 DEF Backed, Trusted
<1>3. \A i \in w.first .. top2 : i \in w.first .. top BY <1>1
<1>4. Trusted(w, P, top2) BY <1>2, <1>3 DEF Backed, Trusted
<1> QED BY <1>4 DEF Backed

\* Between two operations.
LEMMA Idle ==
  ASSUME LocateInv, PromiseInv, phase = "open", todo = <<>>
  PROVE  LET top == TopOf(promise.log, floor)
         IN /\ Matches(wal, disk) /\ Struct(wal) /\ Sound(disk) /\ Fits(wal, disk)
            /\ top \in Int /\ Trusty(disk, wal, wal, top, HardStates(past)) /\ Tells(wal, disk)
            /\ Backed(wal, promise.log, top, past)
            /\ Listed(disk.files) = wal.segs /\ DOMAIN disk.files = wal.segs
            /\ wal.hs \in HardStates(past)
<1> DEFINE top == TopOf(promise.log, floor)
<1>1. Matches(wal, disk) /\ Struct(wal) BY MatchesNow
<1>2. Sound(disk) /\ Listed(disk.files) = wal.segs BY <1>1 DEF Matches
<1>3. top \in Int BY TopIs DEF PromiseInv
<1> HIDE DEF top
<1>4. Promising(disk, <<>>, wal, promise.log, top, past) BY DEF PromiseInv, top
<1>5. PICK w0, e : /\ Backed(wal, promise.log, top, past)
                   /\ Goes(disk, <<>>, e, w0, wal, top, HardStates(past))
                   /\ Fits(wal, e) /\ Trusty(e, wal, wal, top, HardStates(past))
  BY <1>4 DEF Promising
<1>6. e = disk BY <1>5, GoesNone
<1>7. Fits(wal, disk) /\ Trusty(disk, wal, wal, top, HardStates(past)) BY <1>5, <1>6
<1>8. Tells(wal, disk) BY <1>7 DEF Fits
<1>9. DOMAIN disk.files = Listed(disk.files) BY <1>7 DEF Fits, Listed
<1>10. wal.hs \in HardStates(past)
  <2>1. StateOf(wal) \in past /\ StateOf(wal).hs = wal.hs BY <1>5, StateIs DEF Backed
  <2> QED BY <2>1 DEF HardStates
<1> QED BY <1>1, <1>2, <1>3, <1>5, <1>7, <1>8, <1>9, <1>10 DEF top

\* A return leaves the directory as it is.
LEMMA ReturnIs ==
  ASSUME NEW d PROVE Done(d, Call("return", 0, 0)) = d
<1> DEFINE c == Call("return", 0, 0)
<1>1. c.do = "return" BY DEF Call
<1> HIDE DEF c
<1>2. Done(d, c) = d BY <1>1 DEF Done
<1> QED BY <1>2 DEF c

LEMMA GoesReturn ==
  ASSUME NEW d, NEW s, IsSeq(s), NEW e, NEW w0, NEW w1, NEW top, NEW H, Goes(d, s, e, w0, w1, top, H), NEW vouches
  PROVE  Goes(d, s \o IF vouches THEN <<Call("return", 0, 0)>> ELSE <<>>, e, w0, w1, top, H)
<1> DEFINE c == Call("return", 0, 0)
           t == IF vouches THEN <<c>> ELSE <<>>
<1>1. Sound(e) /\ Trusty(e, w0, w1, top, H) BY GoesEnds
<1>2. Done(e, c) = e BY ReturnIs
<1> HIDE DEF c
<1>3. Goes(e, <<c>>, e, w0, w1, top, H) /\ IsSeq(<<c>>)
  <2>1. Goes(e, <<c>>, Done(e, c), w0, w1, top, H) /\ IsSeq(<<c>>) BY <1>1, <1>2, GoesOne
  <2> QED BY <1>2, <2>1
<1>4. Goes(e, <<>>, e, w0, w1, top, H) /\ IsSeq(<<>>) BY <1>1, GoesNone, TidyNone DEF Tidy
<1>5. Goes(e, t, e, w0, w1, top, H) /\ IsSeq(t) BY <1>3, <1>4
<1> HIDE DEF t
<1>6. Goes(d, s \o t, e, w0, w1, top, H) BY <1>5, GoesJoined
<1> QED BY <1>6 DEF t, c

LEMMA HardStatesMore ==
  ASSUME NEW S, NEW S2, S \subseteq S2 PROVE HardStates(S) \subseteq HardStates(S2)
BY DEF HardStates

\* An operation starts: what is to be shown of the calls it makes.
LEMMA StartPromises ==
  ASSUME LocateInv, LocateInv', PromiseInv, NEW name, NEW result, NEW vouches, Start(name, result, vouches),
         floor' \in Int, floor' <= floor,
         NEW top, top = TopOf(promise.log, floor'),
         NEW H, H = HardStates(past \cup {StateOf(result.wal)}),
         NEW e, IsSeq(result.calls), Goes(disk, result.calls, e, wal, result.wal, top, H),
         Fits(result.wal, e), Trusted(result.wal, promise.log, top),
         Still(e) \/ Trusty(e, result.wal, result.wal, top, H),
         vouches => Still(e) /\ ~ result.wal.dirty,
         ~ vouches => Plain(result.calls)
  PROVE  PromiseInv'
<1> DEFINE w == result.wal
           t == IF vouches THEN <<Call("return", 0, 0)>> ELSE <<>>
           s == result.calls
           S == past \cup {StateOf(w)}
           old == TopOf(promise.log, floor)
<1>1. /\ phase = "open" /\ todo = <<>> /\ phase' = "open" /\ wal' = w /\ disk' = disk /\ todo' = s \o t
      /\ past' = S /\ promise' = promise
  BY DEF Start
<1>2. Len(promise.log) \in Nat /\ floor \in Int BY DEF PromiseInv
<1>3. Struct(wal) /\ old \in Int /\ Backed(wal, promise.log, old, past) BY <1>1, Idle
<1>4. top \in Int /\ top <= old BY <1>2, TopIs
<1>5. Goes(disk, s \o t, e, wal, w, top, H) BY GoesReturn
<1> HIDE DEF w, t, s, S, old
<1>6. Leads(disk', todo', wal') BY <1>1 DEF LocateInv
<1>7. Leads(disk, s \o t, w) BY <1>1, <1>6
<1>8. Matches(w, e) BY <1>5, <1>7, GoesMatches
<1>9. Trusty(e, w, w, top, H)
  <2>1. CASE Trusty(e, w, w, top, H) BY <2>1
  <2>2. CASE Still(e)
    <3>1. Trusty(e, wal, w, top, H) BY GoesEnds DEF w
    <3>2. Meta(e).hs \in H BY <3>1 DEF Trusty
    <3> QED BY <1>8, <2>2, <3>2, StillTrusty DEF w
  <2> QED BY <2>1, <2>2 DEF w
<1>10. Backed(wal, promise.log, top, S)
  <2>1. past \subseteq S BY DEF S
  <2> QED BY <1>3, <1>4, <2>1, BackedEase
<1>11. Backed(w, promise.log, top, S)
  <2>1. StateOf(w) \in S BY DEF S
  <2> QED BY <2>1 DEF Backed, w
<1>12. ASSUME NEW i \in 1 .. Len(s \o t), (s \o t)[i].do = "return" PROVE Still(e) /\ ~ w.dirty
  <2>1. CASE vouches BY <2>1 DEF w
  <2>2. CASE ~ vouches
    <3>1. t = <<>> /\ IsSeq(<<>>) /\ Len(<<>>) = 0 BY <2>2, TidyNone DEF t, Tidy
    <3>2. IsSeq(s) BY DEF s
    <3>3. Len(s) \in Nat BY <3>2, LenProperties DEF IsSeq
    <3>4. Len(s \o t) = Len(s) /\ \A k \in 1 .. Len(s) : (s \o t)[k] = s[k] BY <3>1, <3>2, <3>3, Joined
    <3>5. Plain(s) BY <2>2 DEF s
    <3> QED BY <1>12, <3>4, <3>5 DEF Plain
  <2> QED BY <2>1, <2>2
<1>13. H = HardStates(S) BY DEF S, w
<1>14. Fits(w, e) BY DEF w
<1>15. Promising(disk, s \o t, w, promise.log, top, S)
  BY <1>5, <1>9, <1>10, <1>11, <1>12, <1>13, <1>14 DEF Promising
<1>16. Promising(disk', todo', wal', promise'.log, TopOf(promise'.log, floor'), past') BY <1>1, <1>15
<1> QED BY <1>1, <1>2, <1>16 DEF PromiseInv

LEMMA AlikeExtends ==
  ASSUME NEW w, NEW w2, Alike(w, w2) PROVE Extends(w, w2)
BY DEF Alike, Extends

LEMMA AlikeTrusted ==
  ASSUME NEW w, NEW w2, w2.first = w.first, w2.log = w.log, NEW P, NEW top, Trusted(w, P, top)
  PROVE  Trusted(w2, P, top)
BY DEF Trusted

\* A struct with the same log fits where the other did, at rest.
LEMMA AlikeFits ==
  ASSUME NEW w, NEW d, Fits(w, d), NEW s, NEW e, NEW w0, NEW w1, NEW top, NEW H, Rests(d, s, e, w0, w1, top, H),
         w.first \in Nat, Meta(e).first = w.first, Meta(d).seg <= Meta(e).seg, Meta(e).seg \in Nat,
         \A j \in 1 .. Len(w.log) : Meta(e).seg <= w.at[j].seg,
         NEW w2, Alike(w, w2), Meta(e).seg <= Max(w2.segs), ~ w2.dirty => Meta(e).hs = w2.hs
  PROVE  Fits(w2, e)
<1>1. Still(e) BY DEF Rests
<1>2. Meta(d).first = w.first /\ Tells(w, d) BY DEF Fits
<1>3. Meta(d).first <= Meta(e).first BY <1>2
<1>4. Tells(w, e) BY <1>2, <1>3, RestsTell
<1>5. Tells(w2, e) BY <1>4, AlikeExtends, TellsMore
<1>6. w2.first = w.first /\ w2.log = w.log /\ w2.at = w.at BY DEF Alike
<1> QED BY <1>1, <1>5, <1>6, StillFits

\* What the operation starts from, in the terms of StartPromises.
LEMMA Ready ==
  ASSUME LocateInv, PromiseInv, phase = "open", todo = <<>>, NEW lowest \in Int, lowest <= floor,
         NEW w2, Struct(w2), NEW top, top = TopOf(promise.log, lowest),
         NEW H, H = HardStates(past \cup {StateOf(w2)})
  PROVE  /\ Matches(wal, disk) /\ Struct(wal) /\ Sound(disk) /\ Fits(wal, disk) /\ Tells(wal, disk)
         /\ Listed(disk.files) = wal.segs /\ DOMAIN disk.files = wal.segs
         /\ top \in Int /\ Trusty(disk, wal, w2, top, H) /\ Trusted(wal, promise.log, top)
         /\ wal.hs \in H /\ w2.hs \in H
         /\ wal.dirDirty \/ \A id \in DOMAIN disk.files : disk.files[id].name = "durable"
<1> DEFINE old == TopOf(promise.log, floor)
<1>1. /\ Matches(wal, disk) /\ Struct(wal) /\ Sound(disk) /\ Fits(wal, disk)
      /\ old \in Int /\ Trusty(disk, wal, wal, old, HardStates(past)) /\ Tells(wal, disk)
      /\ Backed(wal, promise.log, old, past)
      /\ Listed(disk.files) = wal.segs /\ DOMAIN disk.files = wal.segs
      /\ wal.hs \in HardStates(past)
  BY Idle
<1>2. Len(promise.log) \in Nat /\ floor \in Int BY DEF PromiseInv
<1>3. top \in Int /\ top <= old BY <1>2, TopIs
<1> HIDE DEF old
<1>4. HardStates(past) \subseteq H BY HardStatesMore
<1>5. Trusty(disk, wal, w2, top, H) BY <1>1, <1>3, <1>4, TrustyEase
<1>6. Trusted(wal, promise.log, top)
  <2>1. past \subseteq past OBVIOUS
  <2>2. Backed(wal, promise.log, top, past) BY <1>1, <1>3, <2>1, BackedEase
  <2> QED BY <2>2 DEF Backed
<1>7. w2.hs \in H
  <2>1. StateOf(w2).hs = w2.hs BY StateIs
  <2> QED BY <2>1 DEF HardStates
<1>8. wal.dirDirty \/ \A id \in DOMAIN disk.files : disk.files[id].name = "durable" BY <1>1 DEF Fits
<1> QED BY <1>1, <1>3, <1>4, <1>5, <1>6, <1>7, <1>8

\* syncAll at the start of an operation.
LEMMA FlushFirst ==
  ASSUME LocateInv, PromiseInv, phase = "open", todo = <<>>, NEW w2, NEW top \in Int, NEW H,
         Matches(wal, disk), Trusty(disk, wal, w2, top, H), Listed(disk.files) = wal.segs,
         wal.dirDirty \/ \A id \in DOMAIN disk.files : disk.files[id].name = "durable"
  PROVE  \E e : Rests(disk, SyncAll(wal), e, wal, w2, top, H) /\ e.metadata = disk.metadata
<1>1. Struct(wal) /\ Sound(disk) BY DEF Matches
<1>2. IsFiniteSet(wal.segs) /\ wal.segs \subseteq Nat BY <1>1 DEF Struct
<1> QED BY <1>1, <1>2, FlushRests

\* A save of the log as it is.
LEMMA SaveThere ==
  ASSUME NEW w, NEW d, Matches(w, d), Fits(w, d), NEW w2, Alike(w, w2), w2.segs = w.segs, w2.hs = w.hs,
         NEW m, IsMetadata(m), m # NoMetadata, m.first = w.first, m.hs = w.hs, m.seg = FirstSegmentIdFor(w, w.first),
         NEW top \in Int, NEW H, Trusty(d, w, w2, top, H), w.hs \in H, Listed(d.files) = w.segs,
         w.dirDirty \/ \A id \in DOMAIN d.files : d.files[id].name = "durable"
  PROVE  \E e : Rests(d, SyncAll(w) \o <<SaveMetadata(m)>>, e, w, w2, top, H) /\ Fits(w2, e)
<1>1. Struct(w) /\ Sound(d) BY DEF Matches
<1>2. IsFiniteSet(w.segs) /\ w.segs \subseteq Nat /\ Listed(d.files) \subseteq w.segs BY <1>1 DEF Struct
<1>4. PICK e : Rests(d, SyncAll(w), e, w, w2, top, H) /\ e.metadata = d.metadata BY <1>1, <1>2, FlushRests
<1>5. w.first \in Nat /\ w.first >= w.first BY <1>1 DEF Struct
<1>6. PICK g : Rests(d, SyncAll(w) \o <<SaveMetadata(m)>>, g, w, w2, top, H) /\ Meta(g) = m
  BY <1>4, <1>5, SaveAfter
<1>7. /\ m.seg \in Nat /\ m.seg <= Max(w.segs) /\ Meta(d).seg <= m.seg
      /\ \A j \in 1 .. Len(w.log) : w.first + j - 1 >= w.first => w.at[j].seg >= m.seg
  BY <1>5, FirstSegmentIs
<1>8. ASSUME NEW j \in 1 .. Len(w.log) PROVE m.seg <= w.at[j].seg
  <2>1. Len(w.log) \in Nat BY <1>1, LastIs
  <2>2. w.at[j].seg >= m.seg BY <1>5, <1>7, <2>1
  <2> QED BY <2>2
<1>9. Fits(w2, g) BY <1>5, <1>6, <1>7, <1>8, AlikeFits
<1> QED BY <1>6, <1>9

LEMMA SaveInPlace ==
  ASSUME LocateInv, PromiseInv, phase = "open", todo = <<>>,
         NEW w2, Alike(wal, w2), w2.segs = wal.segs, w2.hs = wal.hs,
         NEW m, IsMetadata(m), m # NoMetadata, m.first = wal.first, m.hs = wal.hs,
         m.seg = FirstSegmentIdFor(wal, wal.first),
         NEW top, top = TopOf(promise.log, floor), NEW H, H = HardStates(past \cup {StateOf(w2)})
  PROVE  \E e : /\ Rests(disk, SyncAll(wal) \o <<SaveMetadata(m)>>, e, wal, w2, top, H)
                /\ Fits(w2, e)
<1>1. Struct(w2) BY DEF Alike
<1>2. floor \in Int /\ floor <= floor BY DEF PromiseInv
<1>3. /\ Matches(wal, disk) /\ Struct(wal) /\ Fits(wal, disk) /\ Listed(disk.files) = wal.segs
      /\ top \in Int /\ Trusty(disk, wal, w2, top, H) /\ wal.hs \in H
      /\ wal.dirDirty \/ \A id \in DOMAIN disk.files : disk.files[id].name = "durable"
  BY <1>1, <1>2, Ready
<1> QED BY <1>3, SaveThere

LEMMA SyncPromises ==
  ASSUME LocateInv, LocateInv', PromiseInv, Sync PROVE PromiseInv'
<1> DEFINE w2 == [Synced(wal) EXCEPT !.dirty = FALSE]
           m == MetadataOf(wal, wal.first, FirstSegmentIdFor(wal, wal.first))
           calls == IF wal.dirty THEN SegmentsBeforeMetadata(wal) ELSE SyncAll(wal)
           result == [wal |-> w2, calls |-> calls]
           top == TopOf(promise.log, floor)
           H == HardStates(past \cup {StateOf(w2)})
<1>1. phase = "open" /\ todo = <<>> /\ Start("sync", result, TRUE) /\ floor' = floor BY DEF Sync, Start
<1>2. Matches(wal, disk) /\ Struct(wal) BY <1>1, MatchesNow
<1>3. Alike(wal, w2) /\ w2.segs = wal.segs /\ w2.used = wal.used BY <1>2, SyncedAlike
<1>4. w2.hs = wal.hs /\ ~ w2.dirty BY <1>2 DEF Synced, Struct
<1>5. result.wal = w2 /\ result.calls = calls OBVIOUS
<1>6. SegmentsBeforeMetadata(wal) = SyncAll(wal) \o <<SaveMetadata(m)>> BY DEF SegmentsBeforeMetadata, Persist
<1>7. IsMetadata(m) /\ m # NoMetadata /\ m.first = wal.first /\ m.hs = wal.hs /\ m.seg = FirstSegmentIdFor(wal, wal.first)
  BY <1>2, MetadataIs DEF Struct
<1>8. floor \in Int /\ floor <= floor BY DEF PromiseInv
<1> HIDE DEF w2, m, result, top, H
<1>9. \E e : Rests(disk, calls, e, wal, w2, top, H) /\ Fits(w2, e)
  <2>1. CASE wal.dirty
    <3>1. PICK e : Rests(disk, SyncAll(wal) \o <<SaveMetadata(m)>>, e, wal, w2, top, H) /\ Fits(w2, e)
      BY <1>1, <1>3, <1>4, <1>7, SaveInPlace DEF top, H
    <3>2. calls = SyncAll(wal) \o <<SaveMetadata(m)>> BY <1>6, <2>1
    <3> HIDE DEF calls
    <3> QED BY <3>1, <3>2
  <2>2. CASE ~ wal.dirty
    <3>1. Struct(w2) BY <1>3 DEF Alike
    <3>2. /\ Fits(wal, disk) /\ Listed(disk.files) = wal.segs
          /\ top \in Int /\ Trusty(disk, wal, w2, top, H) /\ wal.hs \in H
          /\ wal.dirDirty \/ \A id \in DOMAIN disk.files : disk.files[id].name = "durable"
      BY <1>1, <1>8, <3>1, Ready DEF top, H
    <3>3. PICK e : Rests(disk, SyncAll(wal), e, wal, w2, top, H) /\ e.metadata = disk.metadata
      BY <1>1, <1>2, <3>2, FlushFirst
    <3>4. Meta(e) = Meta(disk) BY <3>3 DEF Meta
    <3>5. /\ Meta(e).first = wal.first /\ Meta(e).seg \in Nat /\ Meta(e).seg <= Max(wal.segs) /\ Meta(e).hs = w2.hs
          /\ \A j \in 1 .. Len(wal.log) : Meta(e).seg <= wal.at[j].seg
      BY <1>4, <2>2, <3>2, <3>4 DEF Fits
    <3>6. wal.first \in Nat /\ Meta(disk).seg <= Meta(e).seg BY <1>2, <3>4, <3>5 DEF Struct
    <3>7. Fits(w2, e) BY <1>3, <3>2, <3>3, <3>5, <3>6, AlikeFits
    <3>8. calls = SyncAll(wal) BY <2>2
    <3> HIDE DEF calls
    <3> QED BY <3>3, <3>7, <3>8
  <2> QED BY <2>1, <2>2
<1> HIDE DEF calls
<1>10. PICK e : Rests(disk, calls, e, wal, w2, top, H) /\ Fits(w2, e) BY <1>9
<1>11. Trusted(w2, promise.log, top)
  <2>1. Struct(w2) BY <1>3 DEF Alike
  <2>2. Trusted(wal, promise.log, top) BY <1>1, <1>8, <2>1, Ready DEF top, H
  <2> QED BY <1>3, <2>2, AlikeTrusted DEF Alike
<1>12. IsSeq(calls) /\ Goes(disk, calls, e, wal, w2, top, H) /\ Still(e) BY <1>10 DEF Rests
<1>13. top = TopOf(promise.log, floor') /\ H = HardStates(past \cup {StateOf(result.wal)}) /\ floor' \in Int /\ floor' <= floor
  BY <1>1, <1>5, <1>8 DEF top, H
<1>14. TRUE => Still(e) /\ ~ result.wal.dirty BY <1>4, <1>5, <1>12
<1> QED BY <1>1, <1>4, <1>5, <1>10, <1>11, <1>12, <1>13, <1>14, StartPromises

LEMMA ReservePromises ==
  ASSUME LocateInv, LocateInv', PromiseInv, ReserveIncarnation PROVE PromiseInv'
<1> DEFINE next == [wal EXCEPT !.incarnation = @ + 1]
           w2 == [Synced(next) EXCEPT !.dirty = FALSE]
           m == MetadataOf(next, wal.first, FirstSegmentIdFor(next, wal.first))
           calls == SyncAll(wal) \o Persist(next, wal.first)
           result == [wal |-> w2, calls |-> calls]
           top == TopOf(promise.log, floor)
           H == HardStates(past \cup {StateOf(w2)})
<1>1. phase = "open" /\ todo = <<>> /\ Start("reserve", result, TRUE) /\ floor' = floor
  BY DEF ReserveIncarnation, Start
<1>2. Matches(wal, disk) /\ Struct(wal) BY <1>1, MatchesNow
<1>3. /\ DOMAIN next = DOMAIN wal /\ next.first = wal.first /\ next.log = wal.log /\ next.at = wal.at
      /\ next.snap = wal.snap /\ next.segs = wal.segs /\ next.hs = wal.hs
  BY <1>2 DEF Struct
<1> HIDE DEF next
<1>4. Struct(next) BY <1>2, <1>3 DEF Struct
<1>5. Alike(next, w2) /\ w2.segs = next.segs BY <1>4, SyncedAlike
<1>6. w2.hs = wal.hs /\ ~ w2.dirty BY <1>3, <1>4 DEF Synced, Struct
<1>7. result.wal = w2 /\ result.calls = calls OBVIOUS
<1>8. calls = SyncAll(wal) \o <<SaveMetadata(m)>> BY DEF Persist
<1>9. FirstSegmentIdFor(next, wal.first) = FirstSegmentIdFor(wal, wal.first)
  BY <1>3 DEF FirstSegmentIdFor, LastIndex, Lookup
<1>10. wal.first \in Nat /\ next.snap \in Nat /\ next.snap < wal.first BY <1>2, <1>3 DEF Struct
<1>11. IsMetadata(m) /\ m # NoMetadata /\ m.first = wal.first /\ m.hs = wal.hs /\ m.seg = FirstSegmentIdFor(wal, wal.first)
  BY <1>3, <1>9, <1>10, MetadataIs
<1> HIDE DEF w2, m, result, top, H, calls
<1>12. Alike(wal, w2) /\ w2.segs = wal.segs BY <1>3, <1>5 DEF Alike
<1>13. PICK e : Rests(disk, calls, e, wal, w2, top, H) /\ Fits(w2, e)
  BY <1>1, <1>6, <1>8, <1>11, <1>12, SaveInPlace DEF top, H
<1>14. floor \in Int /\ floor <= floor BY DEF PromiseInv
<1>15. Trusted(w2, promise.log, top)
  <2>1. Struct(w2) BY <1>12 DEF Alike
  <2>2. Trusted(wal, promise.log, top) BY <1>1, <1>14, <2>1, Ready DEF top, H
  <2> QED BY <1>12, <2>2, AlikeTrusted DEF Alike
<1>16. IsSeq(calls) /\ Goes(disk, calls, e, wal, w2, top, H) /\ Still(e) BY <1>13 DEF Rests
<1>17. top = TopOf(promise.log, floor') /\ H = HardStates(past \cup {StateOf(result.wal)}) /\ floor' \in Int /\ floor' <= floor
  BY <1>1, <1>7, <1>14 DEF top, H
<1>18. TRUE => Still(e) /\ ~ result.wal.dirty BY <1>6, <1>7, <1>16
<1> QED BY <1>1, <1>7, <1>13, <1>15, <1>16, <1>17, <1>18, StartPromises

\* cleanupCompactedSegments keeps the segments from that of the first entry on.
LEMMA CleanupKeeps ==
  ASSUME NEW w, NEW d, Matches(w, d)
  PROVE  LET seg == IF w.log # <<>> THEN Lookup(w, w.first).seg ELSE Max(w.segs)
             w2 == Cleanup(w).wal
         IN /\ seg \in Nat /\ \A j \in 1 .. Len(w.log) : w.at[j].seg \in Nat /\ w.at[j].seg >= seg
            /\ Alike(w, w2) /\ w2.hs = w.hs /\ w2.dirty = w.dirty /\ Max(w2.segs) = Max(w.segs)
<1> DEFINE seg == IF w.log # <<>> THEN Lookup(w, w.first).seg ELSE Max(w.segs)
           kept == {id \in w.segs : id >= seg}
           w2 == Synced(Keeping(w, kept))
<1>0. Struct(w) /\ Sound(d) BY DEF Matches
<1>1. Cleanup(w).wal = w2 BY <1>0, CleanupTidy
<1>2. Max(w.segs) \in w.segs /\ \A x \in w.segs : x <= Max(w.segs) BY <1>0, MaxIs DEF Struct
<1>3. PICK S : w.log \in Seq(S) BY <1>0 DEF Struct, IsSeq
<1>4. seg \in w.segs /\ \A i \in 1 .. Len(w.log) : w.at[i].seg \in w.segs /\ w.at[i].seg >= seg
  <2>0. \A i \in 1 .. Len(w.log) : w.at[i].seg \in w.segs BY DEF Matches, Finds, Holds
  <2>1. CASE w.log = <<>>
    <3>1. 1 .. Len(w.log) = {} /\ seg = Max(w.segs) BY <2>1
    <3> QED BY <1>2, <3>1
  <2>2. CASE w.log # <<>>
    <3>1. Len(w.log) \in Nat /\ Len(w.log) # 0 BY <1>3, <2>2
    <3>2. seg = w.at[1].seg
      <4>1. (w.first - w.first) + 1 = 1 BY <1>0 DEF Struct
      <4> QED BY <2>2, <4>1 DEF Lookup
    <3>3. 1 \in 1 .. Len(w.log) BY <3>1
    <3>4. ASSUME NEW i \in 1 .. Len(w.log) PROVE w.at[i].seg >= seg
      <4>1. w.at[i].seg \in Nat /\ w.at[1].seg \in Nat BY <1>0, <2>0, <3>3 DEF Struct
      <4>2. CASE i = 1 BY <3>2, <4>1, <4>2
      <4>3. CASE i # 1
        <5>1. 1 < i BY <3>1, <4>3
        <5>2. Precedes(w.at[1], w.at[i]) BY <3>3, <5>1 DEF Matches, Finds
        <5> QED BY <3>2, <4>1, <5>2 DEF Precedes
      <4> QED BY <4>2, <4>3
    <3> QED BY <2>0, <3>2, <3>3, <3>4
  <2> QED BY <2>1, <2>2
<1> HIDE DEF seg
<1>5. seg \in Nat /\ w.segs \subseteq Nat BY <1>0, <1>4 DEF Struct
<1>6. kept \subseteq w.segs /\ Max(w.segs) \in kept BY <1>2, <1>4, <1>5
<1>7. kept \subseteq Nat /\ kept # {} /\ IsFiniteSet(kept)
  <2> HIDE DEF kept
  <2> QED BY <1>0, <1>5, <1>6, FS_Subset DEF Struct
<1> HIDE DEF kept
<1>8. Max(kept) \in kept /\ \A x \in kept : x <= Max(kept) BY <1>7, MaxIs
<1>9. Max(kept) = Max(w.segs)
  <2> DEFINE a == Max(kept)
             b == Max(w.segs)
  <2>1. a \in Nat /\ b \in Nat /\ a <= b /\ b <= a BY <1>2, <1>5, <1>6, <1>7, <1>8
  <2> HIDE DEF a, b
  <2>2. a = b BY <2>1
  <2> QED BY <2>2 DEF a, b
<1>10. /\ w2.first = w.first /\ w2.log = w.log /\ w2.at = w.at /\ w2.snap = w.snap
       /\ w2.hs = w.hs /\ w2.dirty = w.dirty /\ w2.segs = kept /\ DOMAIN w2 = DOMAIN w
  BY <1>0 DEF Synced, Keeping, Struct
<1> HIDE DEF w2
<1>11. Alike(w, w2) BY <1>0, <1>7, <1>10 DEF Alike, Struct
<1>12. Max(w2.segs) = Max(w.segs) BY <1>9, <1>10
<1>13. \A j \in 1 .. Len(w.log) : w.at[j].seg \in Nat /\ w.at[j].seg >= seg BY <1>4, <1>5
<1> QED BY <1>1, <1>5, <1>10, <1>11, <1>12, <1>13 DEF seg

\* The log of w2 is that of w without its first k entries.
Drops(w, w2, k) ==
  /\ Struct(w2) /\ k \in Nat /\ w2.first = w.first + k
  /\ \A i \in 1 .. Len(w2.log) : i + k \in 1 .. Len(w.log) /\ w2.log[i] = w.log[i + k] /\ w2.at[i] = w.at[i + k]
  /\ \A j \in 1 .. Len(w.log) : j > k => j - k \in 1 .. Len(w2.log)

LEMMA CompactDrops ==
  ASSUME NEW w, NEW d, Matches(w, d), NEW index \in Nat, index >= w.first, NEW w2,
         DOMAIN w2 = DOMAIN w, w2.first = index, w2.snap \in Nat, w2.snap < index,
         w2.log = SubSeq(w.log, index - w.first + 1, Len(w.log)),
         w2.at = SubSeq(w.at, index - w.first + 1, Len(w.at)),
         w2.segs = w.segs, w2.used = w.used
  PROVE  Drops(w, w2, index - w.first)
<1> DEFINE m == index - w.first + 1
           k == index - w.first
           n == Len(w2.log)
           l == Len(w.log)
<1>0. Struct(w) BY DEF Matches
<1>1. m \in Nat /\ m >= 1 /\ w.first \in Nat /\ k \in Nat /\ m = k + 1 /\ index = w.first + k BY <1>0 DEF Struct
<1>2. IsSeq(w.log) /\ IsSeq(w.at) /\ Len(w.at) = l BY <1>0 DEF Struct
<1>3. w2.log = SubSeq(w.log, m, Len(w.log)) /\ w2.at = SubSeq(w.at, m, Len(w.at)) OBVIOUS
<1>4. Matches(w2, d) BY CompactMatches
<1>5. Struct(w2) /\ Len(w2.at) = n BY <1>4 DEF Matches, Struct
<1> HIDE DEF m, k
<1>6. /\ RestOf(SubSeq(w.log, m, Len(w.log)), w.log, m)
      /\ RestOf(SubSeq(w.at, m, Len(w.at)), w.at, m)
  BY <1>1, <1>2, SuffixIs
<1>7. RestOf(w2.log, w.log, m) /\ RestOf(w2.at, w.at, m) BY <1>3, <1>6
<1>8. /\ l \in Nat /\ n = IF m <= l THEN l - m + 1 ELSE 0
      /\ \A i \in 1 .. n : (i + m) - 1 \in 1 .. l /\ w2.log[i] = w.log[(i + m) - 1]
  BY <1>7 DEF RestOf
<1>9. \A i \in 1 .. n : w2.at[i] = w.at[(i + m) - 1] BY <1>5, <1>7 DEF RestOf
<1> HIDE DEF n, l
<1>10. n \in Nat BY <1>1, <1>8
<1>11. \A i \in 1 .. n : (i + m) - 1 = i + k BY <1>1, <1>10
<1>12. \A i \in 1 .. n : i + k \in 1 .. l /\ w2.log[i] = w.log[i + k] /\ w2.at[i] = w.at[i + k]
  BY <1>8, <1>9, <1>11
<1>13. ASSUME NEW j \in 1 .. l, j > k PROVE j - k \in 1 .. n BY <1>1, <1>8, <1>10, <1>13
<1>14. Drops(w, w2, k) BY <1>1, <1>5, <1>12, <1>13 DEF Drops, n, l
<1> QED BY <1>14 DEF k

\* Recovery does not read the entries that were dropped.
LEMMA DropsTells ==
  ASSUME NEW w, Struct(w), NEW w2, NEW k, Drops(w, w2, k), NEW d, Tells(w, d), Meta(d).first = w2.first
  PROVE  Tells(w2, d)
<1> SUFFICES ASSUME NEW id, NEW p, Wanted(d, id, p) PROVE Lists(w2, id, p, d.files[id].body[p]) BY DEF Tells
<1> DEFINE r == d.files[id].body[p]
<1>1. Lists(w, id, p, r) /\ r.index >= w2.first BY DEF Tells, Wanted
<1> HIDE DEF r
<1>2. PICK j \in 1 .. Len(w.log) : w.at[j].seg = id /\ w.at[j].pos = p /\ r = Entry(w.first + j - 1, w.log[j])
  BY <1>1 DEF Lists
<1>3. k \in Nat /\ w2.first = w.first + k /\ w.first \in Nat /\ Len(w.log) \in Nat BY LastIs DEF Drops, Struct
<1>4. r.index = w.first + j - 1 BY <1>2 DEF Entry
<1>5. j > k BY <1>1, <1>3, <1>4
<1> DEFINE i == j - k
<1>6. i \in 1 .. Len(w2.log) BY <1>5 DEF Drops
<1>7. i + k = j /\ w2.first + i - 1 = w.first + j - 1 BY <1>3
<1> HIDE DEF i
<1>8. w2.log[i] = w.log[i + k] /\ w2.at[i] = w.at[i + k] BY <1>6 DEF Drops
<1>9. Lists(w2, id, p, r) BY <1>2, <1>6, <1>7, <1>8 DEF Lists
<1> QED BY <1>9 DEF r

LEMMA DropsTrusted ==
  ASSUME NEW w, Struct(w), NEW w2, NEW k, Drops(w, w2, k), NEW P, NEW top \in Int, Trusted(w, P, top)
  PROVE  Trusted(w2, P, top)
<1> DEFINE n == Len(w2.log)
           l == Len(w.log)
           a == w.first
<1>1. k \in Nat /\ w2.first = a + k /\ a \in Nat /\ l \in Nat /\ n \in Nat BY LastIs DEF Drops, Struct
<1>2. top <= a - 1 + l BY DEF Trusted
<1>3. \A j \in 1 .. l : j > k => j - k \in 1 .. n BY DEF Drops
<1>4. ASSUME NEW i \in w2.first .. top PROVE w2.log[i - w2.first + 1] = P[i]
  <2> DEFINE x == i - w2.first + 1
             y == i - a + 1
  <2>a. i \in Int /\ i >= a + k /\ i <= top BY <1>1, <1>4
  <2>b. w2.first \in Nat BY <1>1
  <2>1. x \in Nat /\ y \in 1 .. l /\ y > k /\ y - k = x /\ x + k = y /\ i \in a .. top
    <3> DEFINE b == w2.first
    <3>1. b = a + k /\ b \in Nat /\ x = i - b + 1 BY <1>1
    <3> HIDE DEF l, a, b, x
    <3>2. x \in Nat /\ y - k = x /\ x + k = y BY <1>1, <2>a, <3>1
    <3>3. y \in 1 .. l /\ y > k /\ i \in a .. top BY <1>1, <1>2, <2>a
    <3> QED BY <3>2, <3>3
  <2> HIDE DEF x
  <2>2. x \in 1 .. n BY <1>3, <2>1
  <2>3. w2.log[x] = w.log[x + k] BY <2>2 DEF Drops
  <2>4. w.log[y] = P[i] BY <2>1 DEF Trusted
  <2>5. w2.log[x] = P[i]
    <3> HIDE DEF y
    <3> QED BY <2>1, <2>3, <2>4
  <2> QED BY <2>5 DEF x
<1> HIDE DEF n, l, a
<1>5. top <= w2.first - 1 + n
  <2>1. CASE l > k
    <3>1. l \in 1 .. l BY <1>1, <2>1
    <3>2. l - k \in 1 .. n BY <1>3, <2>1, <3>1
    <3> QED BY <1>1, <1>2, <3>2
  <2>2. CASE ~ (l > k) BY <1>1, <1>2, <2>2
  <2> QED BY <2>1, <2>2
<1> QED BY <1>4, <1>5 DEF Trusted, n

\* cleanupCompactedSegments in a directory at rest.
LEMMA CleanupAfter ==
  ASSUME NEW w, Struct(w), NEW seg, seg = IF w.log # <<>> THEN Lookup(w, w.first).seg ELSE Max(w.segs), seg \in Nat,
         NEW G, G = {id \in w.segs : id < seg},
         NEW d, NEW s, NEW g, NEW w0, NEW w1, NEW top \in Int, NEW H, Rests(d, s, g, w0, w1, top, H),
         DOMAIN d.files \subseteq w.segs, Apart(w0, g, top, G)
  PROVE  \E e : Rests(d, s \o Cleanup(w).calls, e, w0, w1, top, H) /\ e.metadata = g.metadata
<1>1. Sound(g) /\ Trusty(g, w0, w1, top, H) /\ Still(g) BY GoesEnds DEF Rests
<1>2. Listed(g.files) \subseteq w.segs BY DEF Rests, Listed
<1>3. \A id \in DOMAIN g.files : g.files[id].name = "durable" BY <1>1 DEF Still
<1>4. PICK e : Rests(g, Cleanup(w).calls, e, w0, w1, top, H) /\ e.metadata = g.metadata
  BY <1>1, <1>2, <1>3, CleanupRests
<1>5. Rests(d, s \o Cleanup(w).calls, e, w0, w1, top, H) BY <1>4, RestsJoined
<1> QED BY <1>4, <1>5

LEMMA Gap == \A a, b \in Nat : b >= a => b - a \in Nat /\ a + (b - a) = b
OBVIOUS

\* The log is saved from index on, then the segments before are removed.
LEMMA DropRests ==
  ASSUME NEW w, NEW d, Matches(w, d), Fits(w, d), DOMAIN d.files = w.segs,
         NEW index \in Nat, index >= w.first, NEW w2,
         DOMAIN w2 = DOMAIN w, w2.first = index, w2.snap \in Nat, w2.snap < index,
         w2.log = SubSeq(w.log, index - w.first + 1, Len(w.log)),
         w2.at = SubSeq(w.at, index - w.first + 1, Len(w.at)),
         w2.segs = w.segs, w2.used = w.used,
         NEW s, NEW g, NEW top \in Int, NEW H, NEW w3, w3 = Cleanup(w2).wal, Rests(d, s, g, w, w3, top, H),
         Meta(g).first = index, Meta(g).seg = FirstSegmentIdFor(w, index), Meta(g).hs = w2.hs
  PROVE  \E e : Rests(d, s \o Cleanup(w2).calls, e, w, w3, top, H) /\ Fits(w3, e)
<1> DEFINE seg == IF w2.log # <<>> THEN Lookup(w2, w2.first).seg ELSE Max(w2.segs)
           G == {id \in w2.segs : id < seg}
           k == index - w.first
<1>1. Struct(w) /\ Sound(d) BY DEF Matches
<1>2. Matches(w2, d) BY CompactMatches
<1>3. Drops(w, w2, k) BY CompactDrops
<1>4. Struct(w2) BY <1>2 DEF Matches
<1>5. /\ seg \in Nat /\ \A j \in 1 .. Len(w2.log) : w2.at[j].seg \in Nat /\ w2.at[j].seg >= seg
      /\ Alike(w2, w3) /\ w3.hs = w2.hs /\ Max(w3.segs) = Max(w2.segs)
  BY <1>2, CleanupKeeps
<1>6. Sound(g) /\ Trusty(g, w, w3, top, H) /\ Still(g) BY GoesEnds DEF Rests
<1>7. k \in Nat /\ w.first + k = index /\ w.first \in Nat /\ Len(w.log) \in Nat /\ Len(w2.log) \in Nat
  <2>1. w.first \in Nat BY <1>1 DEF Struct
  <2>2. Len(w.log) \in Nat /\ Len(w2.log) \in Nat BY <1>1, <1>4, LastIs
  <2>3. k \in Nat /\ w.first + k = index BY <2>1, Gap, Zenon
  <2> QED BY <2>1, <2>2, <2>3, Zenon
<1> HIDE DEF k
<1>8. Apart(w, g, top, G)
  <2>1. ASSUME NEW j \in 1 .. Len(w.log), w.first + j - 1 >= index PROVE w.at[j].seg \notin G
    <3>1. j > k /\ (j - k) + k = j BY <1>7, <2>1
    <3>2. j - k \in 1 .. Len(w2.log) BY <1>3, <3>1 DEF Drops
    <3>3. w2.at[j - k] = w.at[j] BY <1>3, <3>1, <3>2 DEF Drops
    <3>4. w.at[j].seg \in Nat /\ w.at[j].seg >= seg BY <1>5, <3>2, <3>3
    <3> HIDE DEF seg
    <3> QED BY <1>5, <3>4
  <2> QED BY <2>1 DEF Apart
<1>a. seg = IF w2.log # <<>> THEN Lookup(w2, w2.first).seg ELSE Max(w2.segs) OBVIOUS
<1> HIDE DEF seg
<1>9. G = {id \in w2.segs : id < seg} /\ DOMAIN d.files \subseteq w2.segs OBVIOUS
<1> HIDE DEF G
<1>10. \E e : Rests(d, s \o Cleanup(w2).calls, e, w, w3, top, H) /\ e.metadata = g.metadata
  BY ONLY top \in Int, <1>4, <1>5, <1>8, <1>9, <1>a, Rests(d, s, g, w, w3, top, H), CleanupAfter
<1>11. PICK e : Rests(d, s \o Cleanup(w2).calls, e, w, w3, top, H) /\ e.metadata = g.metadata BY <1>10
<1>12. Rests(d, s \o Cleanup(w2).calls, e, w, w3, top, H) BY <1>11
<1>13. Meta(e) = Meta(g) BY <1>11 DEF Meta
<1>14. LET t == FirstSegmentIdFor(w, index)
       IN /\ t \in Nat /\ t <= Max(w.segs)
          /\ \A j \in 1 .. Len(w.log) : w.first + j - 1 >= index => w.at[j].seg >= t
          /\ Meta(d).seg <= t
  BY FirstSegmentIs
<1>15. /\ Meta(e).seg \in Nat /\ Meta(e).seg <= Max(w3.segs) /\ Meta(d).seg <= Meta(e).seg
       /\ \A j \in 1 .. Len(w.log) : w.first + j - 1 >= index => w.at[j].seg >= Meta(e).seg
  BY <1>5, <1>13, <1>14
<1>16. ASSUME NEW j \in 1 .. Len(w3.log) PROVE Meta(e).seg <= w3.at[j].seg
  <2>1. j \in 1 .. Len(w2.log) /\ w3.at[j] = w2.at[j] BY <1>5 DEF Alike
  <2>2. j + k \in 1 .. Len(w.log) /\ w2.at[j] = w.at[j + k] BY <1>3, <2>1 DEF Drops
  <2>3. w.first + (j + k) - 1 >= index BY <1>7, <2>1
  <2>4. w.at[j + k].seg >= Meta(e).seg BY <1>15, <2>2, <2>3
  <2>5. w2.at[j].seg \in Nat BY <1>5, <2>1
  <2> QED BY <1>15, <2>1, <2>2, <2>4, <2>5
<1>17. Tells(w3, e)
  <2>1. Meta(d).first = w.first /\ Tells(w, d) BY DEF Fits
  <2>2. Meta(d).first <= Meta(e).first BY <1>13, <2>1
  <2>3. Tells(w, e) BY <1>12, <1>15, <2>1, <2>2, RestsTell
  <2>4. Tells(w2, e) BY <1>1, <1>3, <1>13, <2>3, DropsTells
  <2> QED BY <1>5, <2>4, AlikeExtends, TellsMore
<1>18. Still(e) BY <1>12 DEF Rests
<1>19. Meta(e).first = w3.first /\ Meta(e).hs = w3.hs BY <1>5, <1>13 DEF Alike
<1>20. Fits(w3, e) BY <1>15, <1>16, <1>17, <1>18, <1>19, StillFits
<1> QED BY <1>12, <1>20

LEMMA CompactPromises ==
  ASSUME IncarnationInv, LocateInv, LocateInv', PromiseInv, NEW index \in Nat, Compact(index) PROVE PromiseInv'
<1>0. phase = "open" /\ todo = <<>> /\ floor' = floor BY DEF Compact, Start
<1>1. Matches(wal, disk) /\ Struct(wal) BY <1>0, MatchesNow
<1> DEFINE top == TopOf(promise.log, floor)
<1>2. floor \in Int /\ floor <= floor BY DEF PromiseInv
<1>3. CASE wal.log = <<>> \/ index <= wal.first
  <2> DEFINE w2 == Cleanup(wal).wal
             calls == Cleanup(wal).calls
             seg == IF wal.log # <<>> THEN Lookup(wal, wal.first).seg ELSE Max(wal.segs)
             G == {id \in wal.segs : id < seg}
             H == HardStates(past \cup {StateOf(w2)})
  <2>1. Start("compact", Cleanup(wal), FALSE) BY <1>3 DEF Compact
  <2>2. /\ seg \in Nat /\ \A j \in 1 .. Len(wal.log) : wal.at[j].seg \in Nat /\ wal.at[j].seg >= seg
        /\ Alike(wal, w2) /\ w2.hs = wal.hs /\ w2.dirty = wal.dirty /\ Max(w2.segs) = Max(wal.segs)
    BY <1>1, CleanupKeeps
  <2>3. Struct(w2) BY <2>2 DEF Alike
  <2>4. /\ Sound(disk) /\ Fits(wal, disk) /\ Listed(disk.files) = wal.segs
        /\ top \in Int /\ Trusty(disk, wal, w2, top, H) /\ Trusted(wal, promise.log, top)
        /\ wal.dirDirty \/ \A id \in DOMAIN disk.files : disk.files[id].name = "durable"
    BY <1>0, <1>2, <2>3, Ready
  <2>5. Apart(wal, disk, top, G)
    <3>1. ASSUME NEW j \in 1 .. Len(wal.log) PROVE wal.at[j].seg \notin G
      <4>1. wal.at[j].seg \in Nat /\ wal.at[j].seg >= seg BY <2>2
      <4> HIDE DEF seg
      <4> QED BY <2>2, <4>1
    <3> QED BY <3>1 DEF Apart
  <2>6. PICK e : Rests(disk, calls, e, wal, w2, top, H) /\ e.metadata = disk.metadata
    BY <1>1, <2>2, <2>4, <2>5, CleanupRests
  <2>7. Meta(e) = Meta(disk) BY <2>6 DEF Meta
  <2>8. /\ Meta(e).first = wal.first /\ Meta(e).seg \in Nat /\ Meta(e).seg <= Max(w2.segs)
        /\ ~ w2.dirty => Meta(e).hs = w2.hs
        /\ \A j \in 1 .. Len(wal.log) : Meta(e).seg <= wal.at[j].seg
    BY <2>2, <2>4, <2>7 DEF Fits
  <2>9. wal.first \in Nat /\ Meta(disk).seg <= Meta(e).seg BY <1>1, <2>7, <2>8 DEF Struct
  <2>10. Fits(w2, e) BY <2>2, <2>4, <2>6, <2>8, <2>9, AlikeFits
  <2>11. Trusted(w2, promise.log, top) BY <2>2, <2>4, AlikeTrusted DEF Alike
  <2>12. IsSeq(calls) /\ Goes(disk, calls, e, wal, w2, top, H) /\ Still(e) BY <2>6 DEF Rests
  <2>13. ~ FALSE => Plain(calls)
    <3>1. Harmless(wal, Cleanup(wal)) BY <1>0, OpenIsFit, CleanupHarmless
    <3> QED BY <3>1 DEF Harmless
  <2>14. top = TopOf(promise.log, floor') /\ floor' \in Int /\ floor' <= floor BY <1>0, <1>2
  <2> HIDE DEF top
  <2> QED BY <2>1, <2>10, <2>11, <2>12, <2>13, <2>14, StartPromises
<1>4. CASE ~ (wal.log = <<>> \/ index <= wal.first)
  <2> DEFINE w2 == [CompactMemory(Synced(wal), index) EXCEPT !.dirty = FALSE]
             w3 == Cleanup(w2).wal
             m == MetadataOf(wal, index, FirstSegmentIdFor(wal, index))
             calls == SyncAll(wal) \o Persist(wal, index) \o Cleanup(w2).calls
             result == [wal |-> w3, calls |-> calls]
             H == HardStates(past \cup {StateOf(w3)})
  <2>1. Start("compact", result, TRUE) BY <1>4 DEF Compact
  <2>2. wal.first \in Nat /\ wal.snap \in Nat /\ wal.snap < wal.first /\ index >= wal.first /\ wal.snap < index
    BY <1>1, <1>4 DEF Struct
  <2>3. /\ DOMAIN w2 = DOMAIN wal /\ w2.first = index /\ w2.snap = wal.snap
        /\ w2.log = SubSeq(wal.log, index - wal.first + 1, Len(wal.log))
        /\ w2.at = SubSeq(wal.at, index - wal.first + 1, Len(wal.at))
        /\ w2.segs = wal.segs /\ w2.used = wal.used /\ w2.hs = wal.hs /\ ~ w2.dirty
    BY <1>1 DEF Synced, CompactMemory, Struct
  <2>4. Persist(wal, index) = <<SaveMetadata(m)>> BY DEF Persist
  <2> HIDE DEF w2
  <2>5. Matches(w2, disk) BY <1>1, <2>2, <2>3, CompactMatches
  <2>6. Alike(w2, w3) /\ w3.hs = w2.hs /\ w3.dirty = w2.dirty BY <2>5, CleanupKeeps
  <2>7. Struct(w3) BY <2>6 DEF Alike
  <2>8. /\ Fits(wal, disk) /\ Listed(disk.files) = wal.segs /\ DOMAIN disk.files = wal.segs
        /\ top \in Int /\ Trusty(disk, wal, w3, top, H) /\ Trusted(wal, promise.log, top) /\ wal.hs \in H
        /\ wal.dirDirty \/ \A id \in DOMAIN disk.files : disk.files[id].name = "durable"
    BY <1>0, <1>2, <2>7, Ready
  <2>9. result.wal = w3 /\ result.calls = calls OBVIOUS
  <2>10. H = HardStates(past \cup {StateOf(result.wal)}) BY <2>9
  <2>11. IsMetadata(m) /\ m # NoMetadata /\ m.first = index /\ m.hs = wal.hs /\ m.seg = FirstSegmentIdFor(wal, index)
    BY <2>2, MetadataIs
  <2>12. top = TopOf(promise.log, floor') /\ floor' \in Int /\ floor' <= floor BY <1>0, <1>2
  <2>13. calls = (SyncAll(wal) \o <<SaveMetadata(m)>>) \o Cleanup(w2).calls BY <2>4
  <2>14. w3 = Cleanup(w2).wal OBVIOUS
  <2> HIDE DEF m, calls, result, H, top, w3
  <2>15. PICK e : Rests(disk, SyncAll(wal), e, wal, w3, top, H) /\ e.metadata = disk.metadata
    BY <1>0, <1>1, <2>8, FlushFirst
  <2>16. PICK g : Rests(disk, SyncAll(wal) \o <<SaveMetadata(m)>>, g, wal, w3, top, H) /\ Meta(g) = m
    BY <1>1, <2>2, <2>8, <2>11, <2>15, SaveAfter
  <2>17. Meta(g).first = index /\ Meta(g).seg = FirstSegmentIdFor(wal, index) /\ Meta(g).hs = w2.hs
    BY <2>3, <2>11, <2>16
  <2>18. w2.snap \in Nat /\ w2.snap < index BY <2>2, <2>3
  <2>19. PICK f : Rests(disk, calls, f, wal, w3, top, H) /\ Fits(w3, f)
    BY <1>1, <2>2, <2>3, <2>8, <2>13, <2>14, <2>16, <2>17, <2>18, DropRests
  <2>20. Trusted(w3, promise.log, top)
    <3>1. Drops(wal, w2, index - wal.first) BY <1>1, <2>2, <2>3, <2>18, CompactDrops
    <3>2. Trusted(w2, promise.log, top) BY <1>1, <2>8, <3>1, DropsTrusted
    <3> QED BY <2>6, <3>2, AlikeTrusted DEF Alike
  <2>21. IsSeq(calls) /\ Goes(disk, calls, f, wal, w3, top, H) /\ Still(f) BY <2>19 DEF Rests
  <2>22. TRUE => Still(f) /\ ~ result.wal.dirty BY <2>3, <2>6, <2>9, <2>21
  <2> QED BY <2>1, <2>9, <2>10, <2>12, <2>19, <2>20, <2>21, <2>22, StartPromises
<1> QED BY <1>3, <1>4

LEMMA MildOne ==
  ASSUME NEW c, NEW G, MildCall(c, G) PROVE Mild(<<c>>, G)
<1> DEFINE s == <<c>>
<1>1. IsSeq(s) BY TwoCalls
<1>2. Len(s) = 1 /\ s[1] = c OBVIOUS
<1> HIDE DEF s
<1>3. \A i \in 1 .. Len(s) : s[i] = c BY <1>2
<1>4. Mild(s, G) BY <1>1, <1>3 DEF Mild
<1> QED BY <1>4 DEF s

LEMMA MildNone ==
  ASSUME NEW G PROVE Mild(<<>>, G)
<1>1. IsSeq(<<>>) /\ Len(<<>>) = 0 /\ 1 .. 0 = {} BY TidyNone DEF Tidy
<1> QED BY <1>1 DEF Mild

LEMMA SnapshotsMild ==
  /\ \A index : Mild(<<SaveSnapshot(index)>>, {})
  /\ Mild(RemoveOldSnapshot, {})
<1>1. \A index : MildCall(SaveSnapshot(index), {}) BY DEF MildCall, SaveSnapshot, Call
<1>2. \A index : MildCall(RemoveSnapshot(index), {}) BY DEF MildCall, RemoveSnapshot, Call
<1>3. Mild(RemoveOldSnapshot, {}) BY <1>2, MildOne, MildNone DEF RemoveOldSnapshot
<1> QED BY <1>1, <1>3, MildOne

\* Such calls after others.
LEMMA MildAfter ==
  ASSUME NEW d, NEW s, NEW e, NEW w0, NEW w1, NEW top \in Int, NEW H, Rests(d, s, e, w0, w1, top, H),
         NEW t, Mild(t, {})
  PROVE  \E g : /\ Rests(d, s \o t, g, w0, w1, top, H) /\ g.metadata = e.metadata
                /\ \A w : w.first \in Nat /\ Struct(w) /\ Fits(w, e) => Fits(w, g)
<1>1. Sound(e) /\ Trusty(e, w0, w1, top, H) /\ Still(e) BY GoesEnds DEF Rests
<1>2. PICK g : Rests(e, t, g, w0, w1, top, H) /\ g.metadata = e.metadata BY <1>1, MildRests
<1>3. Rests(d, s \o t, g, w0, w1, top, H) BY <1>2, RestsJoined
<1>4. Meta(g) = Meta(e) BY <1>2 DEF Meta
<1>5. ASSUME NEW w, w.first \in Nat, Struct(w), Fits(w, e) PROVE Fits(w, g)
  <2>1. /\ Meta(g).first = w.first /\ Meta(g).seg \in Nat /\ Meta(g).seg <= Max(w.segs)
        /\ ~ w.dirty => Meta(g).hs = w.hs
        /\ \A j \in 1 .. Len(w.log) : Meta(g).seg <= w.at[j].seg
    BY <1>4, <1>5 DEF Fits
  <2>2. Meta(e).seg <= Meta(g).seg BY <1>4, <2>1
  <2>3. Alike(w, w) BY <1>5, AlikeItself
  <2> QED BY <1>2, <1>5, <2>1, <2>2, <2>3, AlikeFits
<1> QED BY <1>2, <1>3, <1>5

LEMMA LocalSnapshotPromises ==
  ASSUME LocateInv, LocateInv', PromiseInv, NEW index \in Nat, ApplyLocalSnapshot(index) PROVE PromiseInv'
<1> DEFINE snapped == [Synced(wal) EXCEPT !.snap = index, !.dirty = FALSE]
           next == index + 1
           w2 == CompactMemory(snapped, next)
           w3 == Cleanup(w2).wal
           m == MetadataOf(snapped, next, FirstSegmentIdFor(wal, next))
           calls == SyncAll(wal) \o <<SaveSnapshot(index)>> \o <<SaveMetadata(m)>> \o Cleanup(w2).calls \o RemoveOldSnapshot
           result == [wal |-> w3, calls |-> calls]
           top == TopOf(promise.log, floor)
           H == HardStates(past \cup {StateOf(w3)})
<1>1. /\ phase = "open" /\ todo = <<>> /\ index >= wal.first /\ Start("localSnapshot", result, TRUE) /\ floor' = floor
  BY DEF ApplyLocalSnapshot, Start
<1>2. Matches(wal, disk) /\ Struct(wal) BY <1>1, MatchesNow
<1>3. /\ DOMAIN snapped = DOMAIN wal /\ snapped.first = wal.first /\ snapped.snap = index
      /\ snapped.log = wal.log /\ snapped.at = wal.at /\ snapped.segs = wal.segs /\ snapped.used = wal.used
      /\ snapped.hs = wal.hs /\ ~ snapped.dirty
  BY <1>2 DEF Synced, Struct
<1>4. wal.first \in Nat /\ next \in Nat /\ next >= wal.first /\ index < next
  BY <1>1, <1>2 DEF Struct
<1> HIDE DEF snapped, next
<1>5. /\ DOMAIN w2 = DOMAIN wal /\ w2.first = next /\ w2.snap \in Nat /\ w2.snap < next
      /\ w2.log = SubSeq(wal.log, next - wal.first + 1, Len(wal.log))
      /\ w2.at = SubSeq(wal.at, next - wal.first + 1, Len(wal.at))
      /\ w2.segs = wal.segs /\ w2.used = wal.used /\ w2.hs = wal.hs /\ ~ w2.dirty
  BY <1>2, <1>3, <1>4 DEF CompactMemory, Struct
<1> HIDE DEF w2
<1>6. Matches(w2, disk) BY <1>2, <1>4, <1>5, CompactMatches
<1>7. Alike(w2, w3) /\ w3.hs = w2.hs /\ w3.dirty = w2.dirty BY <1>6, CleanupKeeps
<1>8. Struct(w3) BY <1>7 DEF Alike
<1>9. floor \in Int /\ floor <= floor BY DEF PromiseInv
<1>10. /\ Fits(wal, disk) /\ Listed(disk.files) = wal.segs /\ DOMAIN disk.files = wal.segs
       /\ top \in Int /\ Trusty(disk, wal, w3, top, H) /\ Trusted(wal, promise.log, top) /\ wal.hs \in H
       /\ wal.dirDirty \/ \A id \in DOMAIN disk.files : disk.files[id].name = "durable"
  BY <1>1, <1>8, <1>9, Ready
<1>11. result.wal = w3 /\ result.calls = calls OBVIOUS
<1>12. H = HardStates(past \cup {StateOf(result.wal)}) BY <1>11
<1>13. IsMetadata(m) /\ m # NoMetadata /\ m.first = next /\ m.hs = wal.hs /\ m.seg = FirstSegmentIdFor(wal, next)
  BY <1>3, <1>4, MetadataIs
<1>14. top = TopOf(promise.log, floor') /\ floor' \in Int /\ floor' <= floor BY <1>1, <1>9
<1>15. w3 = Cleanup(w2).wal OBVIOUS
<1> DEFINE a == SyncAll(wal)
           b == <<SaveSnapshot(index)>>
           c == <<SaveMetadata(m)>>
           u == Cleanup(w2).calls
           r == RemoveOldSnapshot
<1>16. calls = a \o b \o c \o u \o r OBVIOUS
<1>17. Mild(b, {}) /\ Mild(r, {}) BY SnapshotsMild
<1> HIDE DEF m, calls, result, H, top, w3
<1>18. PICK e : Rests(disk, a, e, wal, w3, top, H) /\ e.metadata = disk.metadata
  BY <1>1, <1>2, <1>10, FlushFirst
<1> HIDE DEF a, b, r
<1>19. PICK f : Rests(disk, a \o b, f, wal, w3, top, H) /\ f.metadata = e.metadata
  BY <1>10, <1>17, <1>18, MildAfter
<1>20. PICK g : Rests(disk, a \o b \o c, g, wal, w3, top, H) /\ Meta(g) = m
  BY <1>2, <1>4, <1>10, <1>13, <1>18, <1>19, SaveAfter
<1>21. Meta(g).first = next /\ Meta(g).seg = FirstSegmentIdFor(wal, next) /\ Meta(g).hs = w2.hs
  BY <1>5, <1>13, <1>20
<1> HIDE DEF c
<1>22. PICK x : Rests(disk, a \o b \o c \o u, x, wal, w3, top, H) /\ Fits(w3, x)
  BY <1>2, <1>4, <1>5, <1>10, <1>15, <1>20, <1>21, DropRests
<1> HIDE DEF u
<1>23. w3.first \in Nat BY <1>8 DEF Struct
<1>24. PICK y : Rests(disk, a \o b \o c \o u \o r, y, wal, w3, top, H) /\ Fits(w3, y)
  BY <1>8, <1>10, <1>17, <1>22, <1>23, MildAfter
<1>25. Trusted(w3, promise.log, top)
  <2>1. Drops(wal, w2, next - wal.first) BY <1>2, <1>4, <1>5, CompactDrops
  <2>2. Trusted(w2, promise.log, top) BY <1>2, <1>10, <2>1, DropsTrusted
  <2> QED BY <1>7, <2>2, AlikeTrusted DEF Alike
<1>26. IsSeq(calls) /\ Goes(disk, calls, y, wal, w3, top, H) /\ Still(y) BY <1>16, <1>24 DEF Rests
<1>27. TRUE => Still(y) /\ ~ result.wal.dirty BY <1>5, <1>7, <1>11, <1>26
<1> QED BY <1>1, <1>11, <1>12, <1>14, <1>24, <1>25, <1>26, <1>27, StartPromises

LEMMA Regrouped ==
  ASSUME NEW a, NEW b, NEW c, IsSeq(a), IsSeq(b), IsSeq(c) PROVE (a \o b) \o c = a \o (b \o c)
<1>1. PICK R : a \in Seq(R) BY DEF IsSeq
<1>2. PICK S : b \in Seq(S) BY DEF IsSeq
<1>3. PICK T : c \in Seq(T) BY DEF IsSeq
<1> DEFINE U == R \cup S \cup T
<1>4. a \in Seq(U) /\ b \in Seq(U) /\ c \in Seq(U) BY <1>1, <1>2, <1>3
<1> HIDE DEF U
<1> QED BY <1>4, ConcatAssociative

\* The same metadata, no other records, and what is promised as safe as it was.
LEMMA SaferTrusty ==
  ASSUME NEW x, Sound(x), NEW e, Sound(e), e.metadata = x.metadata, NEW w0, NEW w1, NEW top \in Int, NEW H,
         Trusty(x, w0, w1, top, H), Fewer(x, e), \A j \in 1 .. Len(w0.log) : Safer(x, e, w0.at[j])
  PROVE  Trusty(e, w0, w1, top, H)
<1>1. Whole(x) /\ Whole(e) BY DEF Sound
<1>2. Meta(e) = Meta(x) /\ Meta(x).first \in Nat /\ Meta(x).seg \in Nat /\ Meta(x).hs \in H
  BY <1>1, MetaIs DEF Meta, Trusty
<1>3. Meta(x).first <= Meta(e).first /\ Meta(x).seg <= Meta(e).seg BY <1>2
<1>4. \A j \in 1 .. Len(w0.log) :
        w0.first + j - 1 >= Meta(e).first /\ w0.first + j - 1 <= top =>
          Safer(x, e, w0.at[j]) /\ w0.at[j].seg >= Meta(e).seg
  BY <1>2 DEF Trusty, Vows
<1> QED BY <1>1, <1>2, <1>3, <1>4, TrustyKept

\* The directory with a new segment.
LEMMA CreateIs ==
  ASSUME NEW d, Sound(d), NEW id \in Nat, id \notin DOMAIN d.files
  PROVE  LET e == Done(d, Create(id))
         IN /\ Sound(e) /\ e.metadata = d.metadata /\ DOMAIN e.files = DOMAIN d.files \cup {id}
            /\ e.files[id] = NewFile /\ \A j \in DOMAIN d.files : e.files[j] = d.files[j]
<1> DEFINE c == Create(id)
           files == [j \in DOMAIN d.files \cup {id} |-> IF j = id THEN NewFile ELSE d.files[j]]
           e == Done(d, c)
<1>1. c.do = "create" /\ c.id = id BY DEF Create, Call
<1>2. e = [d EXCEPT !.files = files]
  <2> HIDE DEF c
  <2> QED BY <1>1 DEF Done
<1>3. {"files", "metadata", "snapshots"} \subseteq DOMAIN d BY DEF Sound, Whole
<1>4. DOMAIN files = DOMAIN d.files \cup {id} /\ files[id] = NewFile /\ \A j \in DOMAIN d.files : files[j] = d.files[j]
  OBVIOUS
<1> HIDE DEF files
<1>5. e.files = files /\ e.metadata = d.metadata BY <1>2, <1>3
<1>6. Sound(e) BY CreateAlters
<1> HIDE DEF e
<1> QED BY <1>4, <1>5, <1>6 DEF e, c

LEMMA CreateGoes ==
  ASSUME NEW x, Sound(x), NEW id \in Nat, id \notin DOMAIN x.files,
         NEW w0, NEW w1, NEW top \in Int, NEW H, Trusty(x, w0, w1, top, H)
  PROVE  LET e == Done(x, Create(id))
         IN Goes(x, <<Create(id)>>, e, w0, w1, top, H) /\ IsSeq(<<Create(id)>>) /\ Fewer(x, e)
<1> DEFINE b == Create(id)
           e == Done(x, b)
<1>1. /\ Sound(e) /\ e.metadata = x.metadata /\ DOMAIN e.files = DOMAIN x.files \cup {id}
      /\ e.files[id] = NewFile /\ \A j \in DOMAIN x.files : e.files[j] = x.files[j]
  BY CreateIs
<1>2. NewFile.body = <<>> /\ Len(<<>>) = 0 BY DEF NewFile
<1> HIDE DEF b, e
<1>3. Fewer(x, e)
  <2> SUFFICES ASSUME NEW j \in DOMAIN e.files, NEW p \in 1 .. Len(e.files[j].body)
               PROVE  /\ j \in DOMAIN x.files /\ p \in 1 .. Len(x.files[j].body)
                      /\ e.files[j].body[p] = x.files[j].body[p]
    BY DEF Fewer
  <2>1. j # id
    <3>1. CASE j = id
      <4>1. 1 .. Len(e.files[j].body) = {} BY <1>1, <1>2, <3>1
      <4> QED BY <4>1
    <3> QED BY <3>1
  <2>2. j \in DOMAIN x.files /\ e.files[j] = x.files[j] BY <1>1, <2>1
  <2> QED BY <2>2
<1>4. \A p : Safer(x, e, p) BY <1>1 DEF Safer, Fast, At
<1>5. Trusty(e, w0, w1, top, H) BY <1>1, <1>3, <1>4, SaferTrusty
<1>6. Goes(x, <<b>>, e, w0, w1, top, H) /\ IsSeq(<<b>>) BY <1>1, <1>5, GoesOne DEF e
<1> QED BY <1>3, <1>6 DEF e, b

\* e is d with the empty segment id.
Grown(d, e, id) ==
  /\ Sound(e) /\ Fewer(d, e) /\ e.metadata = d.metadata
  /\ DOMAIN e.files \subseteq DOMAIN d.files \cup {id}
  /\ Listed(e.files) = Listed(d.files) \cup {id}
  /\ e.files[id].body = <<>>

\* rollToNew.
LEMMA RollGoes ==
  ASSUME NEW d, Sound(d), NEW old, NEW id \in Nat, id \notin DOMAIN d.files,
         NEW w0, NEW w1, NEW top \in Int, NEW H, Trusty(d, w0, w1, top, H)
  PROVE  \E e : Goes(d, <<SyncFile(old), Create(id)>>, e, w0, w1, top, H) /\ Grown(d, e, id)
<1> DEFINE a == SyncFile(old)
           b == Create(id)
           x == Done(d, a)
           e == Done(x, b)
<1>1. MildCall(a, {}) BY DEF MildCall, SyncFile, Call
<1>2. TidyCall(a) /\ Gone(a) = {} BY DEF TidyCall, Gone, SyncFile, Call
<1> HIDE DEF a
<1>3. Sound(x) /\ Spares(d, x, {}) /\ x.metadata = d.metadata BY <1>1, MildCallSpares
<1>4. Trims(d, x, {}) BY <1>2, TidyCallTrims
<1>5. Apart(w0, d, top, {}) BY ApartNone
<1>6. Trusty(x, w0, w1, top, H) BY <1>3, <1>5, SparesTrusty
<1>7. Goes(d, <<a>>, x, w0, w1, top, H) /\ IsSeq(<<a>>) BY <1>3, <1>6, GoesOne
<1>8. DOMAIN x.files \subseteq DOMAIN d.files BY <1>3 DEF Spares
<1>9. id \notin DOMAIN x.files BY <1>8
<1> HIDE DEF x
<1>10. /\ Sound(e) /\ e.metadata = x.metadata /\ DOMAIN e.files = DOMAIN x.files \cup {id}
       /\ e.files[id] = NewFile /\ \A j \in DOMAIN x.files : e.files[j] = x.files[j]
  BY <1>3, <1>9, CreateIs
<1>11. NewFile.body = <<>> /\ NewFile.name # "unlinked" /\ Len(<<>>) = 0 BY DEF NewFile
<1> HIDE DEF b, e
<1>12. Goes(x, <<b>>, e, w0, w1, top, H) /\ IsSeq(<<b>>) /\ Fewer(x, e) BY <1>3, <1>6, <1>9, CreateGoes DEF b, e
<1>16. Goes(d, <<a, b>>, e, w0, w1, top, H)
  <2>1. Goes(d, <<a>> \o <<b>>, e, w0, w1, top, H) BY <1>7, <1>12, GoesJoined
  <2>2. <<a>> \o <<b>> = <<a, b>> BY TwoCalls
  <2> QED BY <2>1, <2>2
<1>17. Listed(x.files) = Listed(d.files) BY <1>4 DEF Trims
<1>18. Listed(e.files) = Listed(d.files) \cup {id}
  <2>1. Listed(e.files) = Listed(x.files) \cup {id} BY <1>10, <1>11 DEF Listed
  <2> QED BY <1>17, <2>1
<1>19. Fewer(d, e)
  <2>1. Fewer(d, x) BY <1>3, SparesKeeps DEF Sound
  <2> QED BY <1>12, <2>1, FewerTwice
<1>20. Grown(d, e, id) BY <1>3, <1>8, <1>10, <1>11, <1>18, <1>19 DEF Grown
<1> QED BY <1>16, <1>20 DEF a, b

Associate(a, b, c) == (a \o b) \o c = a \o (b \o c)
SixTied(a, b, c, d, e, f) == a \o ((b \o c) \o ((d \o e) \o f)) = a \o b \o c \o d \o e \o f

LEMMA Associates ==
  ASSUME NEW a, NEW b, NEW c, IsSeq(a), IsSeq(b), IsSeq(c) PROVE Associate(a, b, c)
BY Regrouped DEF Associate

LEMMA SixParts ==
  ASSUME NEW a, NEW b, NEW c, NEW d, NEW e, NEW f, IsSeq(a), IsSeq(b), IsSeq(c), IsSeq(d), IsSeq(e), IsSeq(f)
  PROVE  SixTied(a, b, c, d, e, f)
<1> DEFINE bc == b \o c
           de == d \o e
           def == de \o f
           abc == a \o bc
<1>1. IsSeq(bc) /\ IsSeq(de) BY Joined
<1>2. IsSeq(def) /\ IsSeq(abc) BY <1>1, Joined
<1>3. Associate(a, b, c) BY Associates
<1> HIDE DEF bc, de, def, abc
<1>4. Associate(abc, d, e) /\ Associate(abc, de, f) /\ Associate(a, bc, def) BY <1>1, <1>2, Associates
<1>5. abc = (a \o b) \o c BY <1>3, Zenon DEF Associate, abc, bc
<1>6. (abc \o d) \o e = abc \o de BY <1>4, Zenon DEF Associate, de
<1>7. (abc \o de) \o f = abc \o def BY <1>4, Zenon DEF Associate, def
<1>8. abc \o def = a \o (bc \o def) BY <1>4, Zenon DEF Associate, abc
<1>9. a \o (bc \o def) = ((abc \o d) \o e) \o f BY <1>6, <1>7, <1>8, Zenon
<1>10. a \o (bc \o def) = ((((a \o b) \o c) \o d) \o e) \o f BY <1>5, <1>9, Zenon
<1> QED BY <1>10, Zenon DEF bc, def, de, SixTied

\* The log starts anew in the empty segment seg.
LEMMA SaveEmpty ==
  ASSUME NEW d, NEW s, NEW e, NEW w, NEW w2, NEW top \in Int, NEW H, Rests(d, s, e, w, w2, top, H),
         Struct(w), NEW m, IsMetadata(m), m # NoMetadata, m.seg \in Nat, m.first \in Nat, m.hs \in H, top < m.first,
         \A id \in DOMAIN d.files : id < m.seg \/ id = m.seg,
         m.seg \in DOMAIN d.files => d.files[m.seg].body = <<>>
  PROVE  \E g : Rests(d, s \o <<SaveMetadata(m)>>, g, w, w2, top, H) /\ g.metadata = m /\ Tells(w2, g)
<1> DEFINE g == Done(e, SaveMetadata(m))
<1>1. Sound(e) /\ Trusty(e, w, w2, top, H) /\ Still(e) /\ Sound(d) BY GoesEnds DEF Rests
<1>2. Sound(g) /\ Still(g) /\ Spares(e, g, {}) /\ Meta(g) = m BY <1>1, SaveIs
<1>3. g.metadata = m
  <2> DEFINE c == SaveMetadata(m)
  <2>1. c.do = "metadata" /\ c.arg = m BY DEF SaveMetadata, Call
  <2>2. {"files", "metadata", "snapshots"} \subseteq DOMAIN e BY <1>1 DEF Sound, Whole
  <2> HIDE DEF c
  <2>3. Done(e, c) = [e EXCEPT !.files = DirectorySynced(@), !.metadata = m] BY <2>1 DEF Done
  <2>4. Done(e, c).metadata = m BY <2>2, <2>3
  <2> QED BY <2>4 DEF c
<1> HIDE DEF g
<1>4. Fewer(e, g) /\ DOMAIN g.files \subseteq DOMAIN e.files BY <1>1, <1>2, SparesKeeps DEF Sound, Spares
<1>5. Fewer(d, g) /\ DOMAIN g.files \subseteq DOMAIN d.files BY <1>4, FewerTwice DEF Rests
<1>6. Tells(w2, g)
  <2> SUFFICES ASSUME NEW id, NEW p, Wanted(g, id, p) PROVE FALSE BY DEF Tells
  <2>1. id \in DOMAIN g.files /\ p \in 1 .. Len(g.files[id].body) /\ id >= m.seg BY <1>2 DEF Wanted
  <2>2. id \in DOMAIN d.files /\ p \in 1 .. Len(d.files[id].body) BY <1>5, <2>1 DEF Fewer
  <2>3. id \in Nat BY <1>1, <2>2 DEF Sound, Whole
  <2>4. id = m.seg BY <2>1, <2>2, <2>3
  <2>5. Len(<<>>) = 0 /\ 1 .. 0 = {} OBVIOUS
  <2> QED BY <2>2, <2>4, <2>5
<1>7. Trusty(g, w, w2, top, H)
  <2>1. Len(w.log) \in Nat /\ w.first \in Nat BY LastIs DEF Struct
  <2>2. \A j \in 1 .. Len(w.log) : ~ (w.first + j - 1 >= m.first /\ w.first + j - 1 <= top) BY <2>1
  <2>3. Vows(w, g, top) BY <1>2, <2>2 DEF Vows
  <2>4. ~ (m.first <= top) OBVIOUS
  <2>5. Struct(w2) BY <1>1 DEF Trusty
  <2> QED BY <1>2, <1>6, <2>3, <2>4, <2>5 DEF Trusty
<1>8. Goes(e, <<SaveMetadata(m)>>, g, w, w2, top, H) /\ IsSeq(<<SaveMetadata(m)>>) BY <1>1, <1>2, <1>7, GoesOne DEF g
<1>9. Rests(e, <<SaveMetadata(m)>>, g, w, w2, top, H) BY <1>2, <1>4, <1>8 DEF Rests
<1>10. Rests(d, s \o <<SaveMetadata(m)>>, g, w, w2, top, H) BY <1>9, RestsJoined
<1> QED BY <1>3, <1>6, <1>10

LEMMA SnapshotPromises ==
  ASSUME LocateInv, LocateInv', PromiseInv, NEW index \in Nat, ApplySnapshot(index) PROVE PromiseInv'
<1> DEFINE seg == Max(wal.segs) + 1
           next == index + 1
           rolled == [wal EXCEPT !.segs = @ \cup {seg}, !.used = 0, !.dirDirty = TRUE]
           reset == [Synced(rolled) EXCEPT !.first = next, !.log = <<>>, !.at = <<>>,
                                           !.hs.commit = index, !.snap = index, !.dirty = FALSE]
           left == Keeping(reset, {seg})
           m == MetadataOf(reset, next, seg)
           roll == <<SyncFile(seg - 1), Create(seg)>>
           sv == SaveSnapshot(index)
           sm == SaveMetadata(m)
           saves == <<sv, sm>>
           away == UnlinkBefore(wal.segs, seg)
           a == SyncAll(rolled)
           l == SyncAll(left)
           r == RemoveOldSnapshot
           calls == roll \o a \o saves \o away \o l \o r
           w2 == Synced(left)
           result == [wal |-> w2, calls |-> calls]
           top == TopOf(promise.log, floor')
           H == HardStates(past \cup {StateOf(w2)})
<1>1. phase = "open" /\ todo = <<>> /\ Start("snapshot", result, TRUE) /\ floor' = Min({floor, next})
  BY DEF ApplySnapshot, Start, Lower
<1>2. Matches(wal, disk) /\ Struct(wal) BY <1>1, MatchesNow
<1>3. /\ Max(wal.segs) \in Nat /\ \A x \in wal.segs : x <= Max(wal.segs)
      /\ seg \in Nat /\ seg \notin wal.segs
      /\ IsFiniteSet(wal.segs \cup {seg}) /\ wal.segs \cup {seg} \subseteq Nat
  BY <1>2, AboveMax
<1>4. (\A x \in wal.segs : x < seg) /\ next \in Nat /\ index < next /\ index = next - 1 /\ next \in Int
  BY <1>2, <1>3 DEF Struct
<1> HIDE DEF next
<1>5. floor \in Int /\ Len(promise.log) \in Nat BY DEF PromiseInv
<1>6. floor' \in Int /\ floor' <= floor /\ floor' <= next BY <1>1, <1>4, <1>5, MinOfTwo
<1>7. top \in Int /\ top <= floor' - 1 BY <1>5, <1>6, TopIs
<1>8. top < next /\ top <= index BY <1>4, <1>6, <1>7
<1>9. DOMAIN rolled = DOMAIN wal /\ rolled.segs = wal.segs \cup {seg} /\ rolled.used = 0 /\ rolled.dirDirty
  BY <1>2 DEF Struct
<1> HIDE DEF rolled
<1>10. DOMAIN Synced(rolled) = DOMAIN wal /\ Synced(rolled).segs = rolled.segs /\ Synced(rolled).used = 0
  BY <1>2, <1>9 DEF Synced, Struct
<1>11. /\ DOMAIN reset = DOMAIN wal /\ reset.first = next /\ reset.log = <<>> /\ reset.at = <<>>
       /\ reset.snap = index /\ reset.segs = wal.segs \cup {seg} /\ reset.used = 0 /\ ~ reset.dirty
  BY <1>2, <1>9, <1>10 DEF Struct
<1> HIDE DEF reset, seg
<1>12. /\ DOMAIN left = DOMAIN wal /\ left.first = next /\ left.log = <<>> /\ left.at = <<>>
       /\ left.snap = index /\ left.segs = {seg} /\ left.used = 0 /\ left.hs = reset.hs /\ ~ left.dirty
       /\ left.dirDirty = (reset.dirDirty \/ {seg} # reset.segs)
  BY <1>2, <1>11 DEF Keeping, Struct
<1>13. left.dirDirty
  <2>1. {seg} # reset.segs BY <1>2, <1>3, <1>11 DEF Struct
  <2> QED BY <1>12, <2>1
<1> HIDE DEF left
<1>14. /\ DOMAIN w2 = DOMAIN wal /\ w2.first = next /\ w2.log = <<>> /\ w2.at = <<>>
       /\ w2.snap = index /\ w2.segs = {seg} /\ w2.hs = reset.hs /\ ~ w2.dirty
  BY <1>2, <1>12 DEF Synced, Struct
<1>15. IsFiniteSet({seg}) BY FS_Singleton
<1>16. IsSeq(<<>>) /\ Len(<<>>) = 0 /\ 1 .. 0 = {} BY TidyNone DEF Tidy
<1>17. IsMetadata(m) /\ m # NoMetadata /\ m.first = next /\ m.seg = seg /\ m.hs = reset.hs
  BY <1>4, <1>11, MetadataIs
<1>18. result.wal = w2 /\ result.calls = calls OBVIOUS
<1> HIDE DEF w2, m
<1>19. Struct(w2) BY <1>2, <1>3, <1>4, <1>14, <1>15, <1>16 DEF Struct
<1>20. /\ Sound(disk) /\ Listed(disk.files) = wal.segs /\ DOMAIN disk.files = wal.segs
       /\ Trusty(disk, wal, w2, top, H) /\ w2.hs \in H
  BY <1>1, <1>6, <1>19, Ready
<1>21. H = HardStates(past \cup {StateOf(result.wal)}) BY <1>18
<1>22. calls = roll \o a \o saves \o away \o l \o r OBVIOUS
<1>23. Tidy(away) /\ Removed(away) = wal.segs /\ Plain(away)
  <2>1. Tidy(away) /\ Removed(away) = {id \in wal.segs : id < seg} BY <1>2, UnlinkBeforeTidy DEF Struct
  <2>2. Plain(away) BY <1>2, UnlinkBeforePlain DEF Struct
  <2> QED BY <1>4, <2>1, <2>2
<1>24. Mild(<<sv>>, {}) /\ Mild(r, {}) BY SnapshotsMild
<1>25. top = TopOf(promise.log, floor') OBVIOUS
<1> HIDE DEF result, H, top, calls, sv, r, away
<1>26. PICK x : Goes(disk, roll, x, wal, w2, top, H) /\ Grown(disk, x, seg)
  BY <1>3, <1>7, <1>20, RollGoes
<1>27. IsSeq(roll) BY TwoCalls
<1> HIDE DEF roll
<1>28. Sound(x) /\ Trusty(x, wal, w2, top, H) BY <1>26, <1>27, GoesEnds
<1>29. Listed(x.files) \subseteq rolled.segs BY <1>9, <1>20, <1>26 DEF Grown
<1>30. PICK y : Rests(x, a, y, wal, w2, top, H) BY <1>3, <1>7, <1>9, <1>28, <1>29, FlushRests
<1>31. IsSeq(a) BY <1>30 DEF Rests
<1> HIDE DEF a
<1>32. PICK z : Rests(x, a \o <<sv>>, z, wal, w2, top, H) BY <1>7, <1>24, <1>30, MildAfter
<1>33. \A id \in DOMAIN x.files : id < m.seg \/ id = m.seg BY <1>4, <1>17, <1>20, <1>26 DEF Grown
<1>34. x.files[m.seg].body = <<>> BY <1>17, <1>26 DEF Grown
<1>35. m.seg \in Nat /\ m.first \in Nat /\ m.hs \in H /\ top < m.first BY <1>3, <1>4, <1>8, <1>14, <1>17, <1>20
<1>36. PICK u : Rests(x, (a \o <<sv>>) \o <<sm>>, u, wal, w2, top, H) /\ u.metadata = m /\ Tells(w2, u)
  BY <1>2, <1>7, <1>17, <1>32, <1>33, <1>34, <1>35, SaveEmpty
<1> HIDE DEF sm
<1>37. (a \o <<sv>>) \o <<sm>> = a \o saves /\ IsSeq(saves)
  <2>1. IsSeq(<<sv>>) /\ IsSeq(<<sm>>) /\ <<sv>> \o <<sm>> = saves /\ IsSeq(saves) BY TwoCalls
  <2>2. (a \o <<sv>>) \o <<sm>> = a \o (<<sv>> \o <<sm>>) BY <1>31, <2>1, Regrouped
  <2> QED BY <2>1, <2>2
<1>38. Rests(x, a \o saves, u, wal, w2, top, H) BY <1>36, <1>37
<1> HIDE DEF saves
<1>39. Sound(u) /\ Trusty(u, wal, w2, top, H) BY <1>38, GoesEnds DEF Rests
<1>40. Meta(u) = m BY <1>17, <1>36 DEF Meta
<1>41. Apart(wal, u, top, wal.segs)
  <2>1. Len(wal.log) \in Nat /\ wal.first \in Nat BY <1>2, LastIs DEF Struct
  <2>2. \A j \in 1 .. Len(wal.log) : ~ (wal.first + j - 1 >= next /\ wal.first + j - 1 <= top) BY <1>4, <1>7, <1>8, <2>1
  <2> QED BY <1>17, <1>40, <2>2 DEF Apart
<1>42. Listed(u.files) \ wal.segs \subseteq left.segs
  <2>1. DOMAIN u.files \subseteq DOMAIN x.files BY <1>38 DEF Rests
  <2>2. DOMAIN u.files \subseteq wal.segs \cup {seg} BY <1>20, <1>26, <2>1 DEF Grown
  <2> QED BY <1>12, <2>2 DEF Listed
<1>43. IsFiniteSet(left.segs) /\ left.segs \subseteq Nat BY <1>3, <1>12, <1>15
<1>44. PICK v : Rests(u, away \o l, v, wal, w2, top, H) /\ v.metadata = u.metadata
  BY <1>7, <1>13, <1>23, <1>39, <1>41, <1>42, <1>43, RemoveRests
<1>45. PICK t : Rests(u, (away \o l) \o r, t, wal, w2, top, H) /\ t.metadata = v.metadata
  BY <1>7, <1>24, <1>44, MildAfter
<1>46. Rests(x, (a \o saves) \o ((away \o l) \o r), t, wal, w2, top, H) BY <1>38, <1>45, RestsJoined
<1>47. IsSeq(away) /\ IsSeq(l) /\ IsSeq(r)
  <2>1. Tidy(l) BY <1>43, SyncAllTidy
  <2> QED BY <1>23, <1>24, <2>1 DEF Tidy, Mild
<1> HIDE DEF l
<1>48. roll \o ((a \o saves) \o ((away \o l) \o r)) = calls
  <2>1. SixTied(roll, a, saves, away, l, r) BY <1>27, <1>31, <1>37, <1>47, SixParts
  <2> QED BY <1>22, <2>1, Zenon DEF SixTied
<1>49. Goes(disk, calls, t, wal, w2, top, H) /\ IsSeq(calls)
  <2>1. /\ Goes(disk, roll \o ((a \o saves) \o ((away \o l) \o r)), t, wal, w2, top, H)
        /\ IsSeq(roll \o ((a \o saves) \o ((away \o l) \o r)))
    BY <1>26, <1>27, <1>46, GoesJoined DEF Rests
  <2> QED BY <1>48, <2>1
<1>50. Still(t) BY <1>45 DEF Rests
<1>51. Meta(t) = m BY <1>17, <1>36, <1>44, <1>45 DEF Meta
<1>52. Tells(w2, t)
  <2>1. Meta(u).first <= Meta(t).first /\ Meta(u).seg <= Meta(t).seg BY <1>35, <1>40, <1>51
  <2> QED BY <1>36, <1>45, <2>1, RestsTell
<1>53. Meta(t).seg <= Max(w2.segs)
  <2>1. w2.segs = {seg} BY <1>14
  <2>2. Max(w2.segs) \in w2.segs BY <1>3, <1>15, <2>1, MaxIs
  <2> QED BY <1>3, <1>17, <1>51, <2>1, <2>2
<1>54. \A j \in 1 .. Len(w2.log) : FALSE BY <1>14, <1>16
<1>55. Fits(w2, t) BY <1>14, <1>17, <1>35, <1>50, <1>51, <1>52, <1>53, <1>54, StillFits
<1>56. Trusted(w2, promise.log, top)
  <2>1. Len(w2.log) = 0 BY <1>14, <1>16
  <2>2. top <= w2.first - 1 + 0 BY <1>4, <1>7, <1>8, <1>14
  <2>3. \A i \in w2.first .. top : FALSE BY <1>4, <1>7, <1>8, <1>14
  <2> QED BY <2>1, <2>2, <2>3 DEF Trusted
<1>57. TRUE => Still(t) /\ ~ result.wal.dirty BY <1>14, <1>18, <1>50
<1> QED BY <1>1, <1>6, <1>18, <1>21, <1>25, <1>49, <1>50, <1>55, <1>56, <1>57, StartPromises

-----------------------------------------------------------------------------
(***************************************************************************)
(* The promise while records are written.                                  *)
(***************************************************************************)
\* e is d with the record r at the end of segment id, unsynced.
Adds(d, e, id, r) ==
  /\ Sound(e) /\ e.metadata = d.metadata /\ DOMAIN e.files = DOMAIN d.files /\ id \in DOMAIN d.files
  /\ \A j \in DOMAIN d.files : e.files[j].name = d.files[j].name /\ e.files[j].synced = d.files[j].synced
  /\ \A j \in DOMAIN d.files : j # id => e.files[j].body = d.files[j].body
  /\ Len(d.files[id].body) \in Nat /\ Len(e.files[id].body) = Len(d.files[id].body) + 1
  /\ e.files[id].body[Len(d.files[id].body) + 1] = r
  /\ \A p \in 1 .. Len(d.files[id].body) : e.files[id].body[p] = d.files[id].body[p]

LEMMA WriteAdds ==
  ASSUME NEW d, Sound(d), NEW id \in Listed(d.files), NEW r, IsRecord(r)
  PROVE  Adds(d, Done(d, Write(id, r)), id, r)
<1> DEFINE c == Write(id, r)
           f == d.files[id]
           b == Append(f.body, r)
           g == [f EXCEPT !.body = b]
           files == [d.files EXCEPT ![id] = g]
           e == Done(d, c)
<1>0. id \in DOMAIN d.files BY DEF Listed
<1>1. c.do = "write" /\ c.id = id /\ c.arg = r BY DEF Write, Call
<1>2. e = [d EXCEPT !.files = files]
  <2> HIDE DEF c
  <2>1. Done(d, c) = [d EXCEPT !.files[c.id].body = Append(@, c.arg)] BY <1>1 DEF Done
  <2>2. [d EXCEPT !.files[c.id].body = Append(@, c.arg)] = [d EXCEPT !.files = files] BY <1>1
  <2> QED BY <2>1, <2>2
<1>3. Sound(e) BY WriteAlters
<1>4. {"files", "metadata", "snapshots"} \subseteq DOMAIN d /\ IsFile(f) BY <1>0 DEF Sound, Whole
<1>5. e.files = files /\ e.metadata = d.metadata
  <2> HIDE DEF files, e
  <2> QED BY <1>2, <1>4
<1>6. DOMAIN files = DOMAIN d.files /\ files[id] = g /\ \A j \in DOMAIN d.files : j # id => files[j] = d.files[j]
  <2> HIDE DEF g
  <2> QED BY <1>0
<1>7. g.body = b /\ g.name = f.name /\ g.synced = f.synced
  <2> HIDE DEF b, f
  <2> QED BY <1>4 DEF IsFile
<1>8. PICK S : f.body \in Seq(S) BY <1>4 DEF IsFile, IsSeq
<1> HIDE DEF e, files, g
<1>9. /\ Len(f.body) \in Nat /\ Len(b) = Len(f.body) + 1 /\ b[Len(f.body) + 1] = r
      /\ \A p \in 1 .. Len(f.body) : b[p] = f.body[p]
  <2> HIDE DEF f
  <2>1. f.body \in Seq(S \cup {r}) BY <1>8
  <2> QED BY <2>1
<1> HIDE DEF b
<1>10. \A j \in DOMAIN d.files : files[j].name = d.files[j].name /\ files[j].synced = d.files[j].synced
  BY <1>6, <1>7 DEF f
<1>11. Adds(d, e, id, r) BY <1>0, <1>3, <1>5, <1>6, <1>7, <1>9, <1>10 DEF Adds, f
<1> QED BY <1>11 DEF e, c

\* A record is appended: what was safe is, and nothing else is read but it.
LEMMA AddsKeeps ==
  ASSUME NEW d, Sound(d), NEW e, NEW id, NEW r, Adds(d, e, id, r)
  PROVE  \A p : Safer(d, e, p)
<1> SUFFICES ASSUME NEW p, Fast(d, p) PROVE Fast(e, p) /\ At(e, p) = At(d, p) BY DEF Safer
<1> DEFINE s == p.seg
           b == d.files[s].body
<1>1. s \in DOMAIN d.files /\ d.files[s].name = "durable" /\ p.pos \in 1 .. d.files[s].synced BY DEF Fast
<1>2. Len(b) \in Nat /\ d.files[s].synced \in Nat /\ d.files[s].synced <= Len(b) BY <1>1, SyncedNat DEF Sound
<1>3. p.pos \in 1 .. Len(b) BY <1>1, <1>2
<1>4. s \in DOMAIN e.files /\ e.files[s].name = "durable" /\ e.files[s].synced = d.files[s].synced
  BY <1>1 DEF Adds
<1>5. e.files[s].body[p.pos] = b[p.pos]
  <2>1. CASE s = id BY <1>3, <2>1 DEF Adds
  <2>2. CASE s # id BY <1>1, <2>2 DEF Adds
  <2> QED BY <2>1, <2>2
<1> QED BY <1>1, <1>4, <1>5 DEF Fast, At

LEMMA AddsTells ==
  ASSUME NEW d, NEW e, NEW id, NEW r, Adds(d, e, id, r), NEW w, Tells(w, d),
         r.kind = "entry" => Lists(w, id, Len(d.files[id].body) + 1, r)
  PROVE  Tells(w, e)
<1> SUFFICES ASSUME NEW j, NEW p, Wanted(e, j, p) PROVE Lists(w, j, p, e.files[j].body[p]) BY DEF Tells
<1>1. Meta(e) = Meta(d) BY DEF Adds, Meta
<1>2. j \in DOMAIN d.files /\ p \in 1 .. Len(e.files[j].body) BY DEF Wanted, Adds
<1>3. CASE p \in 1 .. Len(d.files[j].body)
  <2>1. e.files[j].body[p] = d.files[j].body[p]
    <3>1. CASE j = id BY <1>3, <3>1 DEF Adds
    <3>2. CASE j # id BY <1>2, <3>2 DEF Adds
    <3> QED BY <3>1, <3>2
  <2>2. Wanted(d, j, p) BY <1>1, <1>2, <1>3, <2>1 DEF Wanted
  <2> QED BY <2>1, <2>2 DEF Tells
<1>4. CASE p \notin 1 .. Len(d.files[j].body)
  <2>1. j = id BY <1>2, <1>4 DEF Adds
  <2> DEFINE n == Len(d.files[id].body)
  <2>2. n \in Nat /\ Len(e.files[id].body) = n + 1 /\ e.files[id].body[n + 1] = r BY DEF Adds
  <2>3. p \in 1 .. (n + 1) /\ p \notin 1 .. n BY <1>2, <1>4, <2>1, <2>2
  <2> HIDE DEF n
  <2>4. p = n + 1 BY <2>2, <2>3
  <2>5. e.files[j].body[p] = r BY <2>1, <2>2, <2>4
  <2>6. r.kind = "entry" BY <2>5 DEF Wanted
  <2> QED BY <2>1, <2>4, <2>5, <2>6 DEF n
<1> QED BY <1>3, <1>4

\* A record at the end of the last segment of w, which makes w2 of it.
LEMMA WriteGoes ==
  ASSUME NEW w, NEW d, Matches(w, d), Fits(w, d), NEW w0, NEW top \in Int, NEW H, Trusty(d, w0, w, top, H),
         NEW r, IsRecord(r), NEW m, m = Max(w.segs), NEW w2, Extends(w, w2), w2.segs = w.segs,
         w2.dirty = w.dirty, w2.hs = w.hs, w2.dirDirty = w.dirDirty,
         r.kind = "entry" => Lists(w2, m, w.used + 1, r),
         \A j \in 1 .. Len(w2.log) : j \in 1 .. Len(w.log) \/ w2.at[j].seg = m
  PROVE  LET e == Done(d, Write(m, r))
         IN /\ Goes(d, <<Write(m, r)>>, e, w0, w2, top, H) /\ IsSeq(<<Write(m, r)>>)
            /\ Fits(w2, e)
<1> DEFINE e == Done(d, Write(m, r))
<1>1. Sound(d) /\ Struct(w) /\ w.used = Len(d.files[m].body) BY DEF Matches
<1>2. m \in Listed(d.files) BY <1>1, AboveMax DEF Matches
<1>3. Adds(d, e, m, r) BY <1>1, <1>2, WriteAdds
<1> HIDE DEF e
<1>4. Meta(e) = Meta(d) /\ Sound(e) BY <1>3 DEF Adds, Meta
<1>5. Tells(w2, d) BY TellsMore DEF Fits
<1>6. Tells(w2, e) BY <1>1, <1>3, <1>5, AddsTells
<1>7. Trusty(d, w0, w2, top, H) BY TrustyMore
<1>8. Vows(w0, e, top)
  <2>1. \A p : Safer(d, e, p) BY <1>1, <1>3, AddsKeeps
  <2>2. Vows(w0, d, top) BY <1>7 DEF Trusty
  <2> QED BY <1>4, <2>1, <2>2 DEF Vows, Safer
<1>9. Trusty(e, w0, w2, top, H) BY <1>4, <1>6, <1>7, <1>8 DEF Trusty
<1>10. Goes(d, <<Write(m, r)>>, e, w0, w2, top, H) /\ IsSeq(<<Write(m, r)>>) BY <1>1, <1>4, <1>7, <1>9, GoesOne DEF e
<1>11. Fits(w2, e)
  <2>1. w2.first = w.first /\ \A j \in 1 .. Len(w.log) : w2.at[j] = w.at[j] BY DEF Extends
  <2>2. Meta(e).first = w2.first /\ Meta(e).seg \in Nat /\ Meta(e).seg <= Max(w2.segs) BY <1>4, <2>1 DEF Fits
  <2>3. \A j \in 1 .. Len(w2.log) : Meta(e).seg <= w2.at[j].seg BY <1>4, <2>1 DEF Fits
  <2>4. ~ w2.dirty => Meta(e).hs = w2.hs BY <1>4 DEF Fits
  <2>5. ~ w2.dirDirty => \A id \in DOMAIN e.files : e.files[id].name = "durable" BY <1>3 DEF Fits, Adds
  <2>6. \A id \in DOMAIN e.files : e.files[id].name # "unlinked" BY <1>3 DEF Fits, Adds
  <2> QED BY <1>6, <2>2, <2>3, <2>4, <2>5, <2>6 DEF Fits
<1> QED BY <1>10, <1>11 DEF e

\* The calls of acc lead to e, which the struct of acc describes.
Writes(d, acc, e, w0, top, H) ==
  /\ IsSeq(acc.calls) /\ Goes(d, acc.calls, e, w0, acc.wal, top, H)
  /\ Matches(acc.wal, e) /\ Fits(acc.wal, e)

\* rollToNew, which makes w2 of w.
LEMMA RollFits ==
  ASSUME NEW w, NEW d, Matches(w, d), Fits(w, d), NEW w0, NEW top \in Int, NEW H, Trusty(d, w0, w, top, H),
         NEW w2, Alike(w, w2), w2.segs = w.segs \cup {Max(w.segs) + 1}, w2.used = 0, w2.dirDirty,
         w2.dirty = w.dirty, w2.hs = w.hs
  PROVE  LET s == <<SyncFile(Max(w.segs)), Create(Max(w.segs) + 1)>>
         IN IsSeq(s) /\ \E e : Goes(d, s, e, w0, w2, top, H) /\ Matches(w2, e) /\ Fits(w2, e)
<1> DEFINE m == Max(w.segs)
           id == m + 1
           s == <<SyncFile(m), Create(id)>>
<1>1. Sound(d) /\ Struct(w) /\ w.segs = Listed(d.files) BY DEF Matches
<1>a. m \in Nat /\ id \in Nat /\ id \notin w.segs /\ Max(w.segs \cup {id}) = id BY <1>1, AboveMax
<1>b. m <= id BY <1>a
<1>2. m \in Nat /\ id \in Nat /\ id \notin w.segs /\ m <= id /\ Max(w.segs \cup {id}) = id BY <1>a, <1>b
<1>3. DOMAIN d.files = w.segs BY <1>1 DEF Fits, Listed
<1>4. Leads(d, s, w2) BY RollLeads
<1>5. IsSeq(s) BY TwoCalls
<1> HIDE DEF id, m
<1>6. PICK e : Goes(d, s, e, w0, w, top, H) /\ Grown(d, e, id) BY <1>1, <1>2, <1>3, RollGoes
<1> HIDE DEF s
<1>7. Extends(w, w2) BY AlikeExtends
<1>8. Goes(d, s, e, w0, w2, top, H) BY <1>6, <1>7, GoesMore
<1>9. Matches(w2, e) BY <1>4, <1>8, GoesMatches
<1>10. Meta(e) = Meta(d) BY <1>6 DEF Grown, Meta
<1>11. Meta(d).first \in Nat /\ Meta(d).seg \in Nat BY <1>1, MetaIs DEF Fits, Sound
<1>12. Tells(w, e)
  <2>1. Meta(d).first <= Meta(e).first /\ Meta(d).seg <= Meta(e).seg /\ Meta(e).seg \in Nat BY <1>10, <1>11
  <2>2. Whole(d) /\ Whole(e) /\ Fewer(d, e) /\ Tells(w, d) BY <1>1, <1>6 DEF Sound, Grown, Fits
  <2> QED BY <1>11, <2>1, <2>2, TellsFewer
<1>13. Tells(w2, e) BY <1>7, <1>12, TellsMore
<1>14. \A j \in DOMAIN e.files : e.files[j].name # "unlinked"
  <2>1. DOMAIN e.files \subseteq Listed(e.files) BY <1>1, <1>3, <1>6 DEF Grown
  <2> QED BY <2>1 DEF Listed
<1>15. Meta(e).seg <= Max(w2.segs)
  <2>1. Max(w2.segs) = id BY <1>2 DEF id, m
  <2>2. Meta(e).seg <= m BY <1>10 DEF Fits, m
  <2> QED BY <1>2, <1>10, <1>11, <2>1, <2>2
<1>16. Meta(e).first = w2.first /\ Meta(e).seg \in Nat BY <1>10 DEF Fits, Alike
<1>17. \A j \in 1 .. Len(w2.log) : Meta(e).seg <= w2.at[j].seg BY <1>10 DEF Fits, Alike
<1>18. ~ w2.dirty => Meta(e).hs = w2.hs BY <1>10 DEF Fits
<1>19. Fits(w2, e) BY <1>13, <1>14, <1>15, <1>16, <1>17, <1>18 DEF Fits
<1> QED BY <1>5, <1>8, <1>9, <1>19 DEF s, id, m

\* The log and the index with one entry more: term t at place p.
Longer(w, w2, t, p) == w2.first = w.first /\ w2.log = Append(w.log, t) /\ w2.at = Append(w.at, p)

LEMMA LongerIs ==
  ASSUME NEW w, Struct(w), NEW w2, Struct(w2), NEW t, NEW p, NEW m, NEW k, p.seg = m, p.pos = k, Longer(w, w2, t, p)
  PROVE  /\ Extends(w, w2) /\ Lists(w2, m, k, Entry(w.first + Len(w.log), t))
         /\ \A j \in 1 .. Len(w2.log) : j \in 1 .. Len(w.log) \/ w2.at[j].seg = m
<1>0. w2.first = w.first /\ w2.log = Append(w.log, t) /\ w2.at = Append(w.at, p) BY DEF Longer
<1> DEFINE n == Len(w.log)
<1>1. p.seg = m /\ p.pos = k OBVIOUS
<1>2. n \in Nat /\ Len(w2.log) = n + 1 /\ w2.log[n + 1] = t /\ \A j \in 1 .. n : w2.log[j] = w.log[j]
  <2>1. PICK S : w.log \in Seq(S) BY DEF Struct, IsSeq
  <2>2. w.log \in Seq(S \cup {t}) BY <2>1
  <2> QED BY <1>0, <2>2
<1>3. w2.at[n + 1] = p /\ \A j \in 1 .. n : w2.at[j] = w.at[j]
  <2>1. PICK S : w.at \in Seq(S) BY DEF Struct, IsSeq
  <2>2. w.at \in Seq(S \cup {p}) /\ Len(w.at) = n BY <2>1 DEF Struct
  <2>3. w2.at = Append(w.at, p) BY <1>0
  <2> HIDE DEF n
  <2> QED BY <1>2, <2>2, <2>3
<1> HIDE DEF n
<1>4. /\ n + 1 \in 1 .. Len(w2.log) /\ \A j \in 1 .. n : j \in 1 .. Len(w2.log)
      /\ \A j \in 1 .. Len(w2.log) : j \in 1 .. n \/ j = n + 1
  BY <1>2
<1>5. Extends(w, w2) BY <1>0, <1>2, <1>3, <1>4 DEF Extends, n
<1>6. w.first \in Nat BY DEF Struct
<1>7. w.first + n = w2.first + (n + 1) - 1 BY <1>0, <1>2, <1>6
<1>8. Lists(w2, m, k, Entry(w.first + n, t))
  <2>1. w2.at[n + 1].seg = m /\ w2.at[n + 1].pos = k BY <1>1, <1>3
  <2>2. Entry(w.first + n, t) = Entry(w2.first + (n + 1) - 1, w2.log[n + 1]) BY <1>2, <1>7
  <2> QED BY <1>4, <2>1, <2>2 DEF Lists
<1> QED BY <1>1, <1>3, <1>4, <1>5, <1>8 DEF n

\* writeRecord.
LEMMA WriteRecordGoes ==
  ASSUME NEW d, NEW acc, NEW e, NEW w0, NEW top \in Int, NEW H, Writes(d, acc, e, w0, top, H), NEW r, IsRecord(r),
         r.kind = "entry" => r = Entry(acc.wal.first + Len(acc.wal.log), r.term)
  PROVE  LET next == WriteRecord(acc, r)
         IN /\ \E g : Writes(d, next, g, w0, top, H)
            /\ Extends(acc.wal, next.wal)
            /\ next.wal.hs = acc.wal.hs
<1> DEFINE v == acc.wal
           current == Max(v.segs)
           rolls == v.used + 1 > SegmentRecords /\ v.used > 0
           target == IF rolls THEN current + 1 ELSE current
           placed == [v EXCEPT !.segs = @ \cup {target},
                               !.dirDirty = @ \/ rolls,
                               !.used = IF rolls THEN 1 ELSE @ + 1]
           place == [seg |-> target, pos |-> placed.used]
           written == IF r.kind = "entry"
                        THEN [placed EXCEPT !.log = Append(@, r.term), !.at = Append(@, place)]
                        ELSE placed
           roll == IF rolls THEN <<SyncFile(current), Create(target)>> ELSE <<>>
           last == <<Write(target, r)>>
           calls == acc.calls \o roll \o last
           mid == [placed EXCEPT !.used = IF rolls THEN 0 ELSE v.used]
<1>1. WriteRecord(acc, r) = [wal |-> written, calls |-> calls] BY DEF WriteRecord
<1>2. IsSeq(acc.calls) /\ Goes(d, acc.calls, e, w0, v, top, H) /\ Matches(v, e) /\ Fits(v, e) BY DEF Writes
<1>3. Trusty(e, w0, v, top, H) BY <1>2, GoesEnds
<1>4. Struct(v) BY <1>2 DEF Matches
<1>0. r.kind = "entry" => r = Entry(v.first + Len(v.log), r.term) OBVIOUS
<1> HIDE DEF v
<1>5. /\ current \in v.segs /\ Max(v.segs \cup {current + 1}) = current + 1
      /\ IsFiniteSet(v.segs \cup {current + 1}) /\ v.segs \cup {current + 1} \subseteq Nat
  BY <1>4, AboveMax
<1> HIDE DEF rolls
<1>7. /\ DOMAIN placed = DOMAIN v /\ placed.first = v.first /\ placed.log = v.log /\ placed.at = v.at
      /\ placed.snap = v.snap /\ placed.segs = v.segs \cup {target}
      /\ placed.used = IF rolls THEN 1 ELSE v.used + 1
      /\ placed.hs = v.hs /\ placed.dirty = v.dirty /\ placed.dirDirty = (v.dirDirty \/ rolls)
  <2> HIDE DEF target
  <2> QED BY <1>4 DEF Struct
<1> HIDE DEF placed
<1>6. /\ DOMAIN mid = DOMAIN v /\ mid.first = v.first /\ mid.log = v.log /\ mid.at = v.at
      /\ mid.snap = v.snap /\ mid.segs = v.segs \cup {target} /\ mid.used = IF rolls THEN 0 ELSE v.used
      /\ mid.hs = v.hs /\ mid.dirty = v.dirty /\ mid.dirDirty = placed.dirDirty
  BY <1>4, <1>7 DEF Struct
<1> HIDE DEF mid
<1>8. placed.used = mid.used + 1 BY <1>6, <1>7
<1>9. /\ IsSeq(roll) /\ Max(mid.segs) = target /\ Struct(mid) /\ Alike(v, mid)
      /\ \E x : Goes(e, roll, x, w0, mid, top, H) /\ Matches(mid, x) /\ Fits(mid, x)
  <2>1. CASE rolls
    <3>1. target = current + 1 BY <2>1
    <3>2. mid.segs = v.segs \cup {current + 1} /\ mid.used = 0 BY <1>6, <2>1, <3>1
    <3>3. Struct(mid) BY <1>4, <1>5, <1>6, <3>2 DEF Struct
    <3>4. Alike(v, mid) BY <1>6, <3>3 DEF Alike
    <3>5. mid.dirDirty BY <1>6, <1>7, <2>1
    <3>6. roll = <<SyncFile(current), Create(current + 1)>> BY <2>1, <3>1
    <3>7. IsSeq(roll) /\ \E x : Goes(e, roll, x, w0, mid, top, H) /\ Matches(mid, x) /\ Fits(mid, x)
      BY <1>2, <1>3, <1>6, <3>2, <3>4, <3>5, <3>6, RollFits
    <3> QED BY <1>5, <3>1, <3>2, <3>3, <3>4, <3>7
  <2>2. CASE ~ rolls
    <3>1. target = current /\ roll = <<>> BY <2>2
    <3>2. mid.segs = v.segs /\ mid.used = v.used BY <1>5, <1>6, <2>2, <3>1
    <3>3. Struct(mid) BY <1>4, <1>6, <3>2 DEF Struct
    <3>4. Alike(v, mid) BY <1>6, <3>3 DEF Alike
    <3>5. IsSeq(<<>>) BY TidyNone DEF Tidy
    <3>6. Extends(v, mid) BY <3>4, AlikeExtends
    <3>7. Sound(e) /\ Trusty(e, w0, mid, top, H) BY <1>2, <1>3, <3>6, TrustyMore DEF Matches
    <3>8. Goes(e, <<>>, e, w0, mid, top, H) BY <3>7, GoesNone
    <3>9. Leads(e, <<>>, mid) BY <1>2, <3>2, <3>4, CalmLeads, TidyNone
    <3>10. Matches(mid, e) BY <3>8, <3>9, GoesMatches
    <3>11. Tells(mid, e) BY <1>2, <3>6, TellsMore DEF Fits
    <3>12. ~ mid.dirDirty => ~ v.dirDirty BY <1>6, <1>7
    <3>13. Fits(mid, e) BY <1>2, <1>6, <3>2, <3>11, <3>12 DEF Fits
    <3> QED BY <3>1, <3>2, <3>3, <3>4, <3>5, <3>8, <3>10, <3>13
  <2> QED BY <2>1, <2>2
<1>11. PICK x : Goes(e, roll, x, w0, mid, top, H) /\ Matches(mid, x) /\ Fits(mid, x) BY <1>9
<1> HIDE DEF roll, target
<1>12. Trusty(x, w0, mid, top, H) BY <1>9, <1>11, GoesEnds
<1>13. /\ Leads(x, last, written) /\ Struct(written) /\ Extends(mid, written)
       /\ written.segs = mid.segs /\ written.dirty = mid.dirty /\ written.hs = mid.hs /\ written.dirDirty = mid.dirDirty
       /\ r.kind = "entry" => Lists(written, target, mid.used + 1, r)
       /\ \A j \in 1 .. Len(written.log) : j \in 1 .. Len(mid.log) \/ written.at[j].seg = target
  <2>1. CASE r.kind = "entry"
    <3>1. /\ DOMAIN written = DOMAIN mid /\ written.first = mid.first /\ written.snap = mid.snap
          /\ written.segs = mid.segs /\ written.used = mid.used + 1
          /\ written.log = Append(mid.log, r.term) /\ written.at = Append(mid.at, place)
          /\ written.hs = mid.hs /\ written.dirty = mid.dirty /\ written.dirDirty = mid.dirDirty
      <4> HIDE DEF place
      <4> QED BY <1>4, <1>6, <1>7, <1>8, <2>1 DEF Struct
    <3>2. place = [seg |-> target, pos |-> mid.used + 1] BY <1>8
    <3>a. place = [seg |-> Max(mid.segs), pos |-> mid.used + 1] BY <1>9, <3>2
    <3> HIDE DEF written, place
    <3>3. /\ Leads(x, <<Write(Max(mid.segs), Entry(mid.first + Len(mid.log), r.term))>>, written)
          /\ Struct(written)
      BY <1>11, <3>1, <3>a, WriteEntryLeads
    <3>4. r = Entry(mid.first + Len(mid.log), r.term) BY <1>0, <1>6, <2>1
    <3>b. place.seg = target /\ place.pos = mid.used + 1 BY <3>2
    <3>c. Longer(mid, written, r.term, place) BY <3>1 DEF Longer
    <3>5. /\ Extends(mid, written) /\ Lists(written, target, mid.used + 1, Entry(mid.first + Len(mid.log), r.term))
          /\ \A j \in 1 .. Len(written.log) : j \in 1 .. Len(mid.log) \/ written.at[j].seg = target
      BY <1>9, <3>3, <3>b, <3>c, LongerIs
    <3> QED BY <1>9, <3>1, <3>3, <3>4, <3>5
  <2>2. CASE r.kind # "entry"
    <3>1. written = placed BY <2>2
    <3>2. Struct(placed) BY <1>6, <1>7, <1>9 DEF Struct
    <3>3. Alike(mid, placed) BY <1>6, <1>7, <3>2 DEF Alike
    <3>4. placed.segs = mid.segs /\ placed.log = mid.log BY <1>6, <1>7
    <3>5. Leads(x, <<Write(Max(mid.segs), r)>>, placed) BY <1>8, <1>11, <3>3, <3>4, WriteOtherLeads
    <3>6. Extends(mid, placed) BY <3>3, AlikeExtends
    <3> HIDE DEF written
    <3> QED BY <1>6, <1>7, <1>9, <2>2, <3>1, <3>2, <3>4, <3>5, <3>6
  <2> QED BY <2>1, <2>2
<1> HIDE DEF written
<1> DEFINE g == Done(x, Write(target, r))
<1>14. Goes(x, last, g, w0, written, top, H) /\ IsSeq(last) /\ Fits(written, g)
  BY <1>9, <1>11, <1>12, <1>13, WriteGoes
<1> HIDE DEF last, g
<1>15. Matches(written, g) BY <1>13, <1>14, GoesMatches
<1>16. Extends(v, written) BY <1>9, <1>13, AlikeExtends, ExtendsTwice
<1>17. Goes(d, acc.calls, e, w0, written, top, H) BY <1>2, <1>16, GoesMore
<1>18. Goes(e, roll, x, w0, written, top, H) BY <1>11, <1>13, GoesMore
<1>19. Goes(d, acc.calls \o roll, x, w0, written, top, H) /\ IsSeq(acc.calls \o roll)
  BY <1>2, <1>9, <1>17, <1>18, GoesJoined
<1>20. Goes(d, (acc.calls \o roll) \o last, g, w0, written, top, H) /\ IsSeq((acc.calls \o roll) \o last)
  BY <1>14, <1>19, GoesJoined
<1>21. calls = (acc.calls \o roll) \o last OBVIOUS
<1> HIDE DEF calls
<1>22. written.hs = v.hs BY <1>6, <1>13
<1> DEFINE next == [wal |-> written, calls |-> calls]
<1>23. next.wal = written /\ next.calls = calls OBVIOUS
<1> HIDE DEF next
<1>24. Writes(d, next, g, w0, top, H) BY <1>14, <1>15, <1>20, <1>21, <1>23 DEF Writes
<1>25. WriteRecord(acc, r) = next BY <1>1 DEF next
<1> QED BY <1>16, <1>22, <1>23, <1>24, <1>25 DEF v

LEMMA WritesLeads ==
  ASSUME NEW d, NEW acc, NEW e, NEW w0, NEW top, NEW H, Writes(d, acc, e, w0, top, H)
  PROVE  Leads(d, acc.calls, acc.wal)
<1>1. Reaches(d, acc.calls, e) BY DEF Writes, Goes, Reaches
<1> QED BY <1>1 DEF Writes, Leads

\* The loop of append, over entries that follow the log.
LEMMA WriteRecordsGo ==
  ASSUME NEW d, NEW base, NEW e, NEW w0, NEW top \in Int, NEW H, Writes(d, base, e, w0, top, H),
         NEW records, Len(records) \in Nat, EntriesFrom(records, base.wal.first + Len(base.wal.log))
  PROVE  LET done == WriteRecords(base, records)
         IN (\E g : Writes(d, done, g, w0, top, H)) /\ Extends(base.wal, done.wal)
<1> DEFINE N == Len(records)
           w == base.wal
           n == Len(w.log)
           P(acc, k) == /\ \E g : Writes(d, acc, g, w0, top, H)
                        /\ Extends(w, acc.wal) /\ Len(acc.wal.log) = n + k
<1>1. PICK f : /\ f[0] = base
               /\ \A k \in 1 .. N : f[k] = WriteRecord(f[k - 1], records[k])
               /\ WriteRecords(base, records) = f[N]
  BY LoopSteps
<1>0. Struct(w) BY DEF Writes, Matches
<1>2. n \in Nat /\ w.first \in Nat BY <1>0, LastIs DEF Struct
<1> HIDE DEF w, n
<1> DEFINE S == {k \in 0 .. N : ~ P(f[k], k)}
<1> SUFFICES ASSUME S # {} PROVE FALSE
  <2>1. N \in 0 .. N OBVIOUS
  <2> HIDE DEF N
  <2> QED BY <1>1, <2>1 DEF w
<1>3. PICK k \in S : \A j \in S : k <= j
  <2>1. S \in SUBSET Nat OBVIOUS
  <2> HIDE DEF S
  <2> QED BY <2>1, LeastExists
<1>4. k \in 0 .. N /\ ~ P(f[k], k) OBVIOUS
<1>5. k # 0
  <2>1. Extends(w, w) BY <1>0, ExtendsItself
  <2>2. P(f[0], 0) BY <1>1, <1>2, <2>1 DEF w, n
  <2> QED BY <1>4, <2>2
<1>6. k \in 1 .. N /\ k - 1 \in 0 .. N /\ ~ (k <= k - 1) /\ k - 1 \in Nat BY <1>4, <1>5
<1>7. P(f[k - 1], k - 1) BY <1>3, <1>6
<1>8. f[k] = WriteRecord(f[k - 1], records[k]) BY <1>1, <1>6
<1> DEFINE acc == f[k - 1]
           r == records[k]
<1>9. PICK t : r = Entry(w.first + n + k - 1, t) BY <1>6 DEF w, n, EntriesFrom
<1>10. Extends(w, acc.wal) /\ Len(acc.wal.log) = n + (k - 1) BY <1>7
<1>a. PICK g : Writes(d, acc, g, w0, top, H) BY <1>7
<1> HIDE DEF acc, r
<1>b. acc.wal.first = w.first BY <1>10 DEF Extends
<1>11. w.first + n + k - 1 = w.first + (n + (k - 1)) /\ w.first + n + k - 1 \in Nat
  <2>1. \A a, b, c \in Nat : c - 1 \in Nat => a + b + c - 1 = a + (b + (c - 1)) /\ a + b + c - 1 \in Nat OBVIOUS
  <2>2. k \in Nat BY <1>6
  <2> QED BY ONLY <1>2, <1>6, <2>1, <2>2
<1> DEFINE x == w.first + n + k - 1
<1> HIDE DEF x
<1>12. r = Entry(x, t) /\ x = acc.wal.first + Len(acc.wal.log) /\ x \in Nat BY <1>9, <1>10, <1>11, <1>b DEF x
<1>13. IsRecord(r) /\ r.kind = "entry" /\ r.term = t BY <1>12 DEF IsRecord, Entry
<1>14. r = Entry(acc.wal.first + Len(acc.wal.log), r.term) BY <1>12, <1>13
<1> DEFINE next == WriteRecord(acc, r)
<1>15. (\E h : Writes(d, next, h, w0, top, H)) /\ Extends(acc.wal, next.wal)
  BY <1>13, <1>14, <1>a, WriteRecordGoes
<1>c. Leads(d, acc.calls, acc.wal) BY <1>a, WritesLeads
<1>d. Len(next.wal.log) = Len(acc.wal.log) + 1 BY <1>13, <1>14, <1>c, WriteRecordLeads
<1>16. f[k] = next BY <1>8 DEF acc, r
<1> HIDE DEF next
<1>17. Len(next.wal.log) = n + k
  <2>1. Len(next.wal.log) = (n + (k - 1)) + 1 BY <1>10, <1>d
  <2> QED BY <1>2, <1>6, <2>1
<1>18. Extends(w, next.wal) BY <1>10, <1>15, ExtendsTwice
<1>19. P(f[k], k) BY <1>15, <1>16, <1>17, <1>18
<1> QED BY <1>4, <1>19

\* Another struct tells what the directory holds.
LEMMA TrustyTold ==
  ASSUME NEW d, NEW w0, NEW w1, NEW top, NEW H, Trusty(d, w0, w1, top, H), NEW w, Struct(w), Tells(w, d)
  PROVE  Trusty(d, w0, w, top, H)
BY DEF Trusty

\* w2 has the entries of w up to index top, where w has them.
Shares(w, w2, top) ==
  /\ Struct(w2) /\ w2.first = w.first /\ top <= w2.first - 1 + Len(w2.log)
  /\ \A j \in 1 .. Len(w2.log) : w2.first + j - 1 <= top =>
       j \in 1 .. Len(w.log) /\ w2.log[j] = w.log[j] /\ w2.at[j] = w.at[j]

\* Then it keeps the promise that w kept.
LEMMA SharesPromise ==
  ASSUME NEW w, NEW w2, NEW top \in Int, Shares(w, w2, top), NEW e, NEW H, Trusty(e, w, w2, top, H), Tells(w2, e),
         NEW P, Trusted(w, P, top)
  PROVE  Trusty(e, w2, w2, top, H) /\ Trusted(w2, P, top)
<1>1. Vows(w2, e, top) BY DEF Shares, Trusty, Vows
<1>2. Trusty(e, w2, w2, top, H) BY <1>1 DEF Shares, Trusty
<1>3. w2.first \in Nat /\ Len(w2.log) \in Nat BY LastIs DEF Shares, Struct
<1>4. ASSUME NEW i \in w2.first .. top PROVE w2.log[i - w2.first + 1] = P[i]
  <2> DEFINE j == i - w2.first + 1
  <2>1. top <= w2.first - 1 + Len(w2.log) BY DEF Shares
  <2>2. j \in 1 .. Len(w2.log) /\ w2.first + j - 1 = i /\ i <= top BY <1>3, <2>1
  <2> HIDE DEF j
  <2>3. w2.first + j - 1 <= top BY <2>2
  <2>4. w2.log[j] = w.log[j] BY <2>2, <2>3 DEF Shares
  <2>5. w.log[j] = P[i] BY DEF Shares, Trusted, j
  <2> QED BY <2>4, <2>5 DEF j
<1> QED BY <1>2, <1>4 DEF Trusted, Shares

LEMMA ExtendsShares ==
  ASSUME NEW w, NEW w2, Extends(w, w2), Struct(w), NEW top \in Int, NEW P, Trusted(w, P, top)
  PROVE  Shares(w, w2, top)
<1>1. w.first \in Nat /\ Len(w.log) \in Nat /\ Len(w2.log) \in Nat BY LastIs DEF Extends, Struct
<1>2. Len(w.log) <= Len(w2.log)
  <2>1. CASE Len(w.log) = 0 BY <1>1, <2>1
  <2>2. CASE Len(w.log) # 0
    <3>1. Len(w.log) \in 1 .. Len(w.log) BY <1>1, <2>2
    <3>2. Len(w.log) \in 1 .. Len(w2.log) BY <3>1 DEF Extends
    <3> QED BY <1>1, <3>2
  <2> QED BY <2>1, <2>2
<1>3. w2.first = w.first /\ Struct(w2) /\ top <= w.first - 1 + Len(w.log) BY DEF Extends, Trusted
<1>4. top <= w2.first - 1 + Len(w2.log) BY <1>1, <1>2, <1>3
<1>5. ASSUME NEW j \in 1 .. Len(w2.log), w2.first + j - 1 <= top
      PROVE  j \in 1 .. Len(w.log) /\ w2.log[j] = w.log[j] /\ w2.at[j] = w.at[j]
  <2>1. j \in 1 .. Len(w.log) BY <1>1, <1>3, <1>5
  <2> QED BY <2>1 DEF Extends
<1> QED BY <1>3, <1>4, <1>5 DEF Shares

LEMMA HardStatePromises ==
  ASSUME IncarnationInv, LocateInv, LocateInv', PromiseInv, NEW commit, SaveHardState(commit) PROVE PromiseInv'
<1> DEFINE acc == [wal |-> wal, calls |-> <<>>]
           written == WriteRecord(acc, HardStateRecord)
           result == [written EXCEPT !.wal.hs = [stamp |-> @.stamp + 1, commit |-> commit],
                                     !.wal.dirty = TRUE]
<1>1. phase = "open" /\ todo = <<>> /\ Start("saveHardState", result, FALSE) /\ floor' = floor
  BY DEF SaveHardState, Start
<1>2. Matches(wal, disk) /\ Struct(wal) BY <1>1, MatchesNow
<1>3. acc.wal = wal /\ acc.calls = <<>> OBVIOUS
<1>4. DOMAIN written = {"wal", "calls"} BY DEF WriteRecord
<1>5. Plain(written.calls)
  <2>1. Fit(wal) BY <1>1, OpenIsFit
  <2>2. Harmless(wal, acc) BY <2>1, PlainNone DEF Harmless, Same
  <2>3. Harmless(wal, written) BY <2>2, WriteRecordHarmless
  <2> QED BY <2>3 DEF Harmless
<1> HIDE DEF acc
<1>6. IsRecord(HardStateRecord) /\ HardStateRecord.kind # "entry" BY DEF IsRecord, HardStateRecord
<1>7. Leads(disk, written.calls, written.wal)
  <2>1. Leads(disk, acc.calls, acc.wal) BY <1>2, <1>3, LeadsNowhere
  <2> QED BY <1>6, <2>1, WriteRecordLeads
<1> DEFINE hs == [stamp |-> written.wal.hs.stamp + 1, commit |-> commit]
           v == written.wal
           w2 == [v EXCEPT !.hs = hs, !.dirty = TRUE]
<1>8. result.calls = written.calls /\ result.wal = w2
  <2> HIDE DEF written
  <2> QED BY <1>4
<1> HIDE DEF hs
<1>9. Struct(v) BY <1>7 DEF Leads, Matches
<1> HIDE DEF written
<1>10. /\ DOMAIN w2 = DOMAIN v /\ w2.first = v.first /\ w2.log = v.log /\ w2.at = v.at
       /\ w2.snap = v.snap /\ w2.segs = v.segs /\ w2.used = v.used /\ w2.dirDirty = v.dirDirty /\ w2.dirty
  BY <1>9 DEF Struct
<1> HIDE DEF w2, v
<1>11. Struct(w2) /\ Alike(v, w2) BY <1>9, <1>10 DEF Struct, Alike
<1> DEFINE top == TopOf(promise.log, floor')
           H == HardStates(past \cup {StateOf(result.wal)})
<1>12. top = TopOf(promise.log, floor') /\ H = HardStates(past \cup {StateOf(result.wal)}) OBVIOUS
<1>13. floor' \in Int /\ floor' <= floor BY <1>1 DEF PromiseInv
<1> HIDE DEF result, top, H
<1>14. H = HardStates(past \cup {StateOf(w2)}) BY <1>8, <1>12
<1>15. /\ Sound(disk) /\ Fits(wal, disk) /\ Tells(wal, disk)
       /\ top \in Int /\ Trusty(disk, wal, w2, top, H) /\ Trusted(wal, promise.log, top)
  BY <1>1, <1>11, <1>12, <1>13, <1>14, Ready
<1>16. Trusty(disk, wal, wal, top, H) BY <1>2, <1>15, TrustyTold
<1>17. Writes(disk, acc, disk, wal, top, H)
  <2>1. IsSeq(<<>>) BY TidyNone DEF Tidy
  <2>2. Goes(disk, <<>>, disk, wal, wal, top, H) BY <1>15, <1>16, GoesNone
  <2> QED BY <1>2, <1>3, <1>15, <2>1, <2>2 DEF Writes
<1>18. (\E e : Writes(disk, written, e, wal, top, H)) /\ Extends(wal, v)
  BY <1>3, <1>6, <1>15, <1>17, WriteRecordGoes DEF written, v
<1>19. PICK e : Writes(disk, written, e, wal, top, H) BY <1>18
<1>20. IsSeq(written.calls) /\ Goes(disk, written.calls, e, wal, v, top, H) /\ Fits(v, e) BY <1>19 DEF Writes, v
<1>21. Extends(v, w2) /\ Extends(wal, w2) BY <1>11, <1>18, AlikeExtends, ExtendsTwice
<1>22. Goes(disk, written.calls, e, wal, w2, top, H) BY <1>20, <1>21, GoesMore
<1>23. Tells(w2, e) BY <1>20, <1>21, TellsMore DEF Fits
<1>24. Fits(w2, e) BY <1>10, <1>20, <1>23 DEF Fits
<1>25. Trusty(e, wal, w2, top, H) BY <1>20, <1>22, GoesEnds
<1>26. Shares(wal, w2, top) BY <1>2, <1>15, <1>21, ExtendsShares
<1>27. Trusty(e, w2, w2, top, H) /\ Trusted(w2, promise.log, top) BY <1>15, <1>23, <1>25, <1>26, SharesPromise
<1>28. Plain(result.calls) /\ IsSeq(result.calls) /\ Goes(disk, result.calls, e, wal, result.wal, top, H)
  BY <1>5, <1>8, <1>20, <1>22
<1>29. FALSE => Still(e) /\ ~ result.wal.dirty OBVIOUS
<1> QED BY <1>1, <1>8, <1>12, <1>13, <1>24, <1>27, <1>28, <1>29, StartPromises

\* e is d with segment id cut to its first n records, which are synced.
Cuts(d, e, id, n) ==
  /\ Sound(e) /\ e.metadata = d.metadata /\ DOMAIN e.files = DOMAIN d.files /\ id \in DOMAIN d.files
  /\ \A j \in DOMAIN d.files : e.files[j].name = d.files[j].name
  /\ \A j \in DOMAIN d.files : j # id => e.files[j].body = d.files[j].body /\ e.files[j].synced = d.files[j].synced
  /\ n \in 0 .. Len(d.files[id].body) /\ Len(d.files[id].body) \in Nat
  /\ Len(e.files[id].body) = n /\ e.files[id].synced = n
  /\ \A p \in 1 .. n : e.files[id].body[p] = d.files[id].body[p]

LEMMA TruncateCuts ==
  ASSUME NEW d, Sound(d), NEW id \in Listed(d.files), NEW n \in 0 .. Len(d.files[id].body)
  PROVE  Cuts(d, Done(d, Truncate(id, n)), id, n)
<1> DEFINE c == Truncate(id, n)
           f == d.files[id]
           b == SubSeq(f.body, 1, n)
           h == [f EXCEPT !.body = b, !.torn = FALSE]
           g == FileSynced(h)
           files == [d.files EXCEPT ![id] = g]
           e == Done(d, c)
<1>0. id \in DOMAIN d.files BY DEF Listed
<1>1. c.do = "truncate" /\ c.id = id /\ c.arg = n BY DEF Truncate, Call
<1>2. e = [d EXCEPT !.files = files]
  <2> HIDE DEF c
  <2>1. Done(d, c) = [d EXCEPT !.files[c.id] = Shortened(@, c.arg)] BY <1>1 DEF Done
  <2>2. Shortened(f, n) = g BY DEF Shortened
  <2> HIDE DEF g
  <2>3. [d EXCEPT !.files[c.id] = Shortened(@, c.arg)] = [d EXCEPT !.files = files] BY <1>1, <2>2
  <2> QED BY <2>1, <2>3
<1>3. Sound(e) BY TruncateAlters
<1>4. {"files", "metadata", "snapshots"} \subseteq DOMAIN d /\ IsFile(f) BY <1>0 DEF Sound, Whole
<1>5. e.files = files /\ e.metadata = d.metadata
  <2> HIDE DEF files, e
  <2> QED BY <1>2, <1>4
<1>6. Len(b) = n /\ \A p \in 1 .. n : b[p] = f.body[p] BY <1>4, CutIs DEF IsFile
<1>7. Len(f.body) \in Nat BY <1>4, LenProperties DEF IsFile, IsSeq
<1>8. DOMAIN files = DOMAIN d.files /\ files[id] = g /\ \A j \in DOMAIN d.files : j # id => files[j] = d.files[j]
  <2> HIDE DEF g
  <2> QED BY <1>0
<1> HIDE DEF e, files, f, b
<1>9. DOMAIN h = DOMAIN f /\ h.body = b /\ h.name = f.name BY <1>4 DEF IsFile
<1>10. g.body = b /\ g.name = f.name /\ g.synced = Len(b) BY <1>4, <1>9 DEF FileSynced, IsFile
<1> HIDE DEF g, h
<1>11. \A j \in DOMAIN d.files : files[j].name = d.files[j].name BY <1>8, <1>10 DEF f
<1>12. /\ Len(d.files[id].body) \in Nat /\ files[id].body = b /\ files[id].synced = n
       /\ \A p \in 1 .. n : b[p] = d.files[id].body[p]
  BY <1>6, <1>7, <1>8, <1>10 DEF f
<1>13. Cuts(d, e, id, n) BY <1>0, <1>3, <1>5, <1>6, <1>8, <1>11, <1>12 DEF Cuts
<1> QED BY <1>13 DEF e, c

LEMMA CutsFewer ==
  ASSUME NEW d, NEW e, NEW id, NEW n, Cuts(d, e, id, n) PROVE Fewer(d, e)
<1> SUFFICES ASSUME NEW j \in DOMAIN e.files, NEW p \in 1 .. Len(e.files[j].body)
             PROVE  /\ j \in DOMAIN d.files /\ p \in 1 .. Len(d.files[j].body)
                    /\ e.files[j].body[p] = d.files[j].body[p]
  BY DEF Fewer
<1>1. j \in DOMAIN d.files BY DEF Cuts
<1>2. CASE j # id BY <1>1, <1>2 DEF Cuts
<1>3. CASE j = id
  <2>1. p \in 1 .. n /\ n \in 0 .. Len(d.files[j].body) /\ Len(d.files[j].body) \in Nat BY <1>3 DEF Cuts
  <2>2. p \in 1 .. Len(d.files[j].body) BY <2>1
  <2> QED BY <1>1, <1>3, <2>1, <2>2 DEF Cuts
<1> QED BY <1>2, <1>3

\* What lies before the cut is as safe as it was.
LEMMA CutsSafer ==
  ASSUME NEW d, NEW e, NEW id \in Nat, NEW n, Cuts(d, e, id, n), NEW q, q.seg \in Nat, q.seg = id => q.pos \in 1 .. n
  PROVE  Safer(d, e, q)
<1> SUFFICES ASSUME Fast(d, q) PROVE Fast(e, q) /\ At(e, q) = At(d, q) BY DEF Safer
<1>1. q.seg \in DOMAIN d.files /\ d.files[q.seg].name = "durable" /\ q.pos \in 1 .. d.files[q.seg].synced BY DEF Fast
<1>2. q.seg \in DOMAIN e.files /\ e.files[q.seg].name = "durable" BY <1>1 DEF Cuts
<1>3. CASE q.seg = id BY <1>2, <1>3 DEF Cuts, Fast, At
<1>4. CASE q.seg # id BY <1>1, <1>2, <1>4 DEF Cuts, Fast, At
<1> QED BY <1>3, <1>4

\* The struct that truncateSuffixFrom leaves: the entries before index, and the
\* segments up to the one that had it.
Cropped(w, w2, index) ==
  /\ Struct(w2) /\ w2.first = w.first /\ Len(w2.log) = index - w.first
  /\ \A j \in 1 .. Len(w2.log) : j \in 1 .. Len(w.log) /\ w2.log[j] = w.log[j] /\ w2.at[j] = w.at[j]
  /\ w2.hs = w.hs /\ w2.dirty = w.dirty

LEMMA CroppedIs ==
  ASSUME NEW w, NEW d, Matches(w, d), NEW index \in Nat, w.first <= index, index <= LastIndex(w)
  PROVE  LET w2 == TruncateSuffixFrom(w, index).wal
             p == Lookup(w, index)
         IN /\ Cropped(w, w2, index)
            /\ w2.segs = {id \in w.segs : id <= p.seg} /\ Max(w2.segs) = p.seg /\ w2.used = p.pos - 1
<1> DEFINE p == Lookup(w, index)
           n == index - w.first
           kept == {id \in w.segs : id <= p.seg}
           left == Keeping(w, kept)
           w2 == [Synced(left) EXCEPT !.log = SubSeq(@, 1, n),
                                      !.at = SubSeq(@, 1, n),
                                      !.used = p.pos - 1]
           result == TruncateSuffixFrom(w, index)
<1>1. result.wal = w2 BY DEF TruncateSuffixFrom
<1>2. Struct(w) BY DEF Matches
<1>3. n \in Nat /\ n \in 0 .. Len(w.log) /\ n + 1 \in 1 .. Len(w.log) /\ Len(w.log) \in Nat
      /\ \A i \in 1 .. n : i \in 1 .. Len(w.log)
  BY <1>2, LastIs DEF Struct
<1>4. p = w.at[n + 1] BY DEF Lookup
<1>5. Leads(d, result.calls, result.wal) BY TruncateLeads
<1> HIDE DEF p, n, kept
<1>6. /\ w2.first = w.first /\ w2.segs = kept /\ w2.hs = w.hs /\ w2.dirty = w.dirty
      /\ w2.used = p.pos - 1 /\ w2.log = SubSeq(w.log, 1, n) /\ w2.at = SubSeq(w.at, 1, n)
  BY <1>2 DEF Synced, Keeping, Struct
<1> HIDE DEF w2, result
<1>7. Struct(w2) BY <1>1, <1>5 DEF Leads, Matches
<1>8. IsSeq(w.log) /\ n \in 0 .. Len(w.log) /\ IsSeq(w.at) /\ n \in 0 .. Len(w.at) BY <1>2, <1>3 DEF Struct
<1>9. IsCut(SubSeq(w.log, 1, n), w.log, n) /\ IsCut(SubSeq(w.at, 1, n), w.at, n) BY <1>8, PrefixIs
<1>10. IsCut(w2.log, w.log, n) /\ IsCut(w2.at, w.at, n) BY <1>6, <1>9
<1>11. Len(w2.log) = n /\ \A i \in 1 .. n : w2.log[i] = w.log[i] /\ w2.at[i] = w.at[i] BY <1>10 DEF IsCut
<1>12. Cropped(w, w2, index) BY <1>3, <1>6, <1>7, <1>11 DEF Cropped, n
<1>13. Max(w2.segs) = p.seg
  <2>1. \E x : Holds(d, p, x) BY <1>3, <1>4 DEF Matches, Finds
  <2>2. p.seg \in w.segs BY <2>1 DEF Holds, Matches
  <2>3. p.seg \in kept /\ p.seg \in Nat /\ \A x \in kept : x <= p.seg BY <1>2, <2>2 DEF kept, Struct
  <2>4. IsFiniteSet(kept) /\ kept \subseteq Nat /\ kept # {} BY <1>6, <1>7 DEF Struct
  <2>5. Max(kept) \in kept /\ \A x \in kept : x <= Max(kept) BY <2>4, MaxIs
  <2>6. Max(kept) \in Nat /\ Max(kept) <= p.seg /\ p.seg <= Max(kept) BY <2>3, <2>4, <2>5
  <2> QED BY <1>6, <2>3, <2>6
<1> QED BY <1>1, <1>6, <1>12, <1>13 DEF result, p, kept

\* Recovery does not read what was cut off.
LEMMA CroppedTells ==
  ASSUME NEW w, NEW d, Matches(w, d), NEW index \in Nat, w.first <= index, index <= LastIndex(w),
         NEW w2, w2 = TruncateSuffixFrom(w, index).wal, NEW g, Matches(w2, g), Still(g), Tells(w, g)
  PROVE  Tells(w2, g)
<1> DEFINE p == Lookup(w, index)
           n == index - w.first
           k == n + 1
<1>1. /\ Cropped(w, w2, index)
      /\ w2.segs = {id \in w.segs : id <= p.seg} /\ Max(w2.segs) = p.seg /\ w2.used = p.pos - 1
  BY CroppedIs
<1>2. Struct(w) /\ Sound(g) BY DEF Matches
<1>3. n \in Nat /\ k \in 1 .. Len(w.log) /\ Len(w.log) \in Nat BY <1>2, LastIs DEF Struct
<1>4. p = w.at[k] BY DEF Lookup
<1>5. \E x : Holds(d, p, x) BY <1>3, <1>4 DEF Matches, Finds
<1> HIDE DEF p
<1>6. p.seg \in Nat /\ p.pos \in Nat
  <2>1. p.seg \in w.segs /\ p.seg \in DOMAIN d.files /\ p.pos \in 1 .. Len(d.files[p.seg].body)
    BY <1>5 DEF Holds, Matches, Listed
  <2>2. Len(d.files[p.seg].body) \in Nat BY <2>1, SyncedNat DEF Matches, Sound
  <2> QED BY <1>2, <2>1, <2>2 DEF Struct
<1> SUFFICES ASSUME NEW id, NEW pos, Wanted(g, id, pos) PROVE Lists(w2, id, pos, g.files[id].body[pos]) BY DEF Tells
<1>7. Lists(w, id, pos, g.files[id].body[pos]) BY DEF Tells
<1>8. PICK j \in 1 .. Len(w.log) : /\ w.at[j].seg = id /\ w.at[j].pos = pos
                                   /\ g.files[id].body[pos] = Entry(w.first + j - 1, w.log[j])
  BY <1>7 DEF Lists
<1>9. id \in DOMAIN g.files /\ pos \in 1 .. Len(g.files[id].body) BY DEF Wanted
<1>10. id \in w2.segs /\ id <= p.seg /\ id \in Nat
  <2>1. id \in Listed(g.files) BY <1>9 DEF Still, Listed
  <2> QED BY <1>1, <1>2, <2>1 DEF Matches, Struct
<1>11. id = p.seg => pos \in Nat /\ pos < p.pos
  <2> SUFFICES ASSUME id = p.seg PROVE pos \in Nat /\ pos < p.pos OBVIOUS
  <2>1. Len(g.files[id].body) = p.pos - 1 BY <1>1 DEF Matches
  <2> QED BY <1>6, <1>9, <2>1
<1>12. ~ (j >= k)
  <2> SUFFICES ASSUME j >= k PROVE FALSE OBVIOUS
  <2>1. CASE j = k BY <1>4, <1>6, <1>8, <1>11, <2>1
  <2>2. CASE j # k
    <3>1. k < j BY <1>3, <2>2
    <3>2. Precedes(p, w.at[j]) BY <1>3, <1>4, <3>1 DEF Matches, Finds
    <3> QED BY <1>6, <1>8, <1>10, <1>11, <3>2 DEF Precedes
  <2> QED BY <2>1, <2>2
<1>13. j \in 1 .. n BY <1>3, <1>12
<1>14. j \in 1 .. Len(w2.log) /\ w2.log[j] = w.log[j] /\ w2.at[j] = w.at[j] /\ w2.first = w.first
  BY <1>1, <1>13 DEF Cropped
<1> QED BY <1>8, <1>14 DEF Lists

\* truncateSuffixFrom, when nothing from index on is promised.
LEMMA TruncateWrites ==
  ASSUME NEW w, NEW d, Matches(w, d), Fits(w, d), NEW index \in Nat, w.first <= index, index <= LastIndex(w),
         NEW top \in Int, top < index, NEW H, Trusty(d, w, w, top, H)
  PROVE  LET result == TruncateSuffixFrom(w, index) IN \E g : Writes(d, result, g, w, top, H)
<1> DEFINE result == TruncateSuffixFrom(w, index)
           w2 == result.wal
           p == Lookup(w, index)
           n == index - w.first
           k == n + 1
           kept == {id \in w.segs : id <= p.seg}
           gone == {id \in w.segs : id > p.seg}
           left == Keeping(w, kept)
           c == Truncate(p.seg, p.pos - 1)
           away == UnlinkAfter(w.segs, p.seg)
           sync == SyncAll(left)
           e == Done(d, c)
           b == d.files[p.seg].body
<1>1. result.calls = <<c>> \o away \o sync BY DEF TruncateSuffixFrom
<1>2. Sound(d) /\ Struct(w) /\ w.segs = Listed(d.files) BY DEF Matches
<1>3. /\ n \in Nat /\ k \in 1 .. Len(w.log) /\ Len(w.log) \in Nat /\ w.first \in Nat
      /\ \A i \in 1 .. Len(w.log) : w.first + i - 1 <= top => i < k
  BY <1>2, LastIs DEF Struct
<1>4. p = w.at[k] BY DEF Lookup
<1>5. /\ Cropped(w, w2, index) /\ w2.segs = kept /\ Max(w2.segs) = p.seg /\ w2.used = p.pos - 1
  BY CroppedIs
<1>6. Leads(d, result.calls, w2) BY TruncateLeads
<1> HIDE DEF p, n, result
<1>7. \E x : Holds(d, p, x) BY <1>3, <1>4 DEF Matches, Finds
<1>8. p.seg \in w.segs /\ p.seg \in DOMAIN d.files /\ p.seg \in Nat /\ p.pos \in 1 .. Len(b)
  BY <1>2, <1>7 DEF Holds, Matches, Listed, Struct
<1>9. Len(b) \in Nat BY <1>2, <1>8, SyncedNat DEF Sound
<1>10. p.pos - 1 \in 0 .. Len(b) /\ p.pos \in Nat BY <1>8, <1>9
<1>11. Cuts(d, e, p.seg, p.pos - 1) BY <1>2, <1>8, <1>10, TruncateCuts
<1>12. Struct(w2) /\ w2.first = w.first BY <1>5 DEF Cropped
<1> HIDE DEF e, w2, b
<1>a. Fewer(d, e) BY <1>11, CutsFewer
<1>13. Meta(e) = Meta(d) /\ Sound(e) /\ Fewer(d, e) BY <1>11, <1>a DEF Cuts, Meta
<1>14. Meta(d).first \in Nat /\ Meta(d).seg \in Nat BY <1>2, MetaIs DEF Fits, Sound
<1>15. Trusty(d, w, w2, top, H)
  <2>1. top <= top /\ H \subseteq H /\ Tells(w, d) BY DEF Fits
  <2> QED BY <1>2, <1>12, <2>1, TrustyEase
<1>16. ASSUME NEW j \in 1 .. Len(w.log), w.first + j - 1 <= top
       PROVE  Safer(d, e, w.at[j]) /\ w.at[j].seg \in Nat /\ w.at[j].seg <= p.seg
  <2> DEFINE q == w.at[j]
  <2>1. j < k BY <1>3, <1>16
  <2>2. Precedes(q, p) BY <1>3, <1>4, <2>1 DEF Matches, Finds
  <2>3. \E x : Holds(d, q, x) BY DEF Matches, Finds
  <2> HIDE DEF q
  <2>4. q.seg \in w.segs /\ q.seg \in Nat /\ q.seg \in DOMAIN d.files /\ q.pos \in 1 .. Len(d.files[q.seg].body)
    BY <1>2, <2>3 DEF Holds, Listed, Struct
  <2>5. Len(d.files[q.seg].body) \in Nat BY <1>2, <2>4, SyncedNat DEF Sound
  <2>6. q.pos \in Nat /\ q.pos >= 1 BY <2>4, <2>5
  <2>7. q.seg = p.seg => q.pos \in 1 .. (p.pos - 1)
    <3> SUFFICES ASSUME q.seg = p.seg PROVE q.pos \in 1 .. (p.pos - 1) OBVIOUS
    <3>1. q.pos < p.pos BY <1>8, <2>2 DEF Precedes
    <3> QED BY <1>10, <2>6, <3>1
  <2>8. Safer(d, e, q) BY <1>8, <1>11, <2>4, <2>7, CutsSafer
  <2>9. q.seg <= p.seg BY <1>8, <2>2, <2>4 DEF Precedes
  <2> QED BY <2>4, <2>8, <2>9 DEF q
<1>17. Trusty(e, w, w2, top, H)
  <2>1. \A j \in 1 .. Len(w.log) :
           w.first + j - 1 >= Meta(e).first /\ w.first + j - 1 <= top =>
             Safer(d, e, w.at[j]) /\ w.at[j].seg >= Meta(e).seg
    BY <1>13, <1>14, <1>16 DEF Fits
  <2>2. Meta(d).first <= Meta(e).first /\ Meta(e).seg \in Nat /\ Meta(d).seg <= Meta(e).seg BY <1>13, <1>14
  <2>3. Meta(e).hs \in H BY <1>13, <1>15 DEF Trusty
  <2> QED BY <1>2, <1>13, <1>15, <2>1, <2>2, <2>3, TrustyKept DEF Sound
<1>18. Goes(d, <<c>>, e, w, w2, top, H) /\ IsSeq(<<c>>) BY <1>2, <1>13, <1>15, <1>17, GoesOne DEF e
<1> HIDE DEF c
<1>19. Tidy(away) /\ Removed(away) = gone /\ Plain(away) BY <1>2, UnlinkAfterTidy, UnlinkAfterPlain DEF Struct
<1>20. w.segs \ gone = kept
  <2>1. \A x \in w.segs : x \in Nat BY <1>2 DEF Struct
  <2> QED BY <1>8, <2>1
<1> HIDE DEF kept, gone
<1>21. IsFiniteSet(kept) /\ kept \subseteq Nat BY <1>5, <1>12 DEF Struct
<1>22. left.segs = kept /\ (w.dirDirty \/ kept # w.segs => left.dirDirty) BY <1>2 DEF Keeping, Struct
<1>23. Listed(e.files) = w.segs BY <1>2, <1>11 DEF Cuts, Listed
<1>24. left.dirDirty \/ (gone = {} /\ \A id \in DOMAIN e.files : e.files[id].name = "durable")
  <2> SUFFICES ASSUME ~ left.dirDirty PROVE gone = {} /\ \A id \in DOMAIN e.files : e.files[id].name = "durable"
    OBVIOUS
  <2>1. kept = w.segs /\ ~ w.dirDirty BY <1>22
  <2>2. gone \subseteq w.segs BY DEF gone
  <2>3. gone = {} BY <1>20, <2>1, <2>2
  <2> QED BY <1>11, <2>1, <2>3 DEF Fits, Cuts
<1>25. Apart(w, e, top, gone) BY <1>8, <1>16 DEF Apart, gone
<1> HIDE DEF left, away
<1>b. /\ Listed(e.files) \ gone \subseteq left.segs /\ IsFiniteSet(left.segs) /\ left.segs \subseteq Nat
  BY <1>20, <1>21, <1>22, <1>23
<1>26. PICK g : Rests(e, away \o sync, g, w, w2, top, H) /\ g.metadata = e.metadata
  BY <1>13, <1>17, <1>19, <1>24, <1>25, <1>b, RemoveRests
<1>27. IsSeq(away) /\ IsSeq(sync) BY <1>19, <1>21, <1>22, SyncAllTidy DEF Tidy
<1> HIDE DEF sync
<1>28. Goes(d, <<c>> \o (away \o sync), g, w, w2, top, H) /\ IsSeq(<<c>> \o (away \o sync))
  BY <1>18, <1>26, GoesJoined DEF Rests
<1>29. Associate(<<c>>, away, sync) BY <1>18, <1>27, Associates
<1>30. result.calls = <<c>> \o (away \o sync) BY <1>1, <1>29, Zenon DEF Associate
<1>31. Goes(d, result.calls, g, w, w2, top, H) /\ IsSeq(result.calls) BY <1>28, <1>30
<1>32. Matches(w2, g) BY <1>6, <1>31, GoesMatches
<1>33. Meta(g) = Meta(d) BY <1>13, <1>26 DEF Meta
<1>34. Still(g) BY <1>26 DEF Rests
<1>35. Tells(w, g)
  <2>1. Meta(d).first <= Meta(e).first /\ Meta(d).seg <= Meta(e).seg /\ Meta(e).seg \in Nat
        /\ Meta(e).first <= Meta(g).first /\ Meta(e).seg <= Meta(g).seg
    BY <1>13, <1>14, <1>33
  <2>2. Tells(w, d) BY DEF Fits
  <2>3. Tells(w, e) BY <1>2, <1>13, <1>14, <2>1, <2>2, TellsFewer DEF Sound
  <2> QED BY <1>26, <2>1, <2>3, RestsTell
<1>36. Tells(w2, g) BY <1>32, <1>34, <1>35, CroppedTells DEF w2, result
<1>37. Meta(g).seg <= Max(w2.segs) BY <1>3, <1>4, <1>5, <1>33 DEF Fits
<1>38. Meta(g).first = w2.first /\ Meta(g).seg \in Nat BY <1>12, <1>33 DEF Fits
<1>39. \A j \in 1 .. Len(w2.log) : Meta(g).seg <= w2.at[j].seg BY <1>5, <1>33 DEF Fits, Cropped
<1>40. ~ w2.dirty => Meta(g).hs = w2.hs BY <1>5, <1>33 DEF Fits, Cropped
<1>41. Fits(w2, g) BY <1>34, <1>36, <1>37, <1>38, <1>39, <1>40, StillFits
<1>42. Writes(d, result, g, w, top, H) BY <1>31, <1>32, <1>41 DEF Writes, w2
<1> QED BY <1>42 DEF result

LEMMA AppendPromises ==
  ASSUME IncarnationInv, LocateInv, LocateInv', PromiseInv,
         NEW index \in Nat, NEW n \in Nat, NEW term, AppendEntries(index, n, term)
  PROVE  PromiseInv'
<1>1. PICK x, base, new, name : Appending(x, base, new, name) BY AppendIs
<1> DEFINE result == WriteRecords(base, new)
           w2 == result.wal
<1>2. /\ Start(name, result, FALSE) /\ Len(new) \in Nat /\ EntriesFrom(new, x)
      /\ x = base.wal.first + Len(base.wal.log) /\ x \in Nat
  BY <1>1 DEF Appending
<1>3. phase = "open" /\ todo = <<>> BY <1>2 DEF Start
<1>4. Matches(wal, disk) /\ Struct(wal) BY <1>3, MatchesNow
<1> DEFINE Cutting == /\ wal.first <= x /\ x <= LastIndex(wal)
                      /\ base = TruncateSuffixFrom(wal, x) /\ floor' = Min({floor, x})
           Growing == base = [wal |-> wal, calls |-> <<>>] /\ floor' = floor
<1>5. Cutting \/ Growing BY <1>1 DEF Appending
<1>6. Growing => base.wal = wal /\ base.calls = <<>> OBVIOUS
<1>7. Leads(disk, base.calls, base.wal)
  <2>1. CASE Growing
    <3>1. base.wal = wal /\ base.calls = <<>> BY <1>6, <2>1
    <3> QED BY <1>4, <3>1, LeadsNowhere
  <2>2. CASE Cutting BY <1>2, <1>4, <2>2, TruncateLeads
  <2> QED BY <1>5, <2>1, <2>2
<1>8. Struct(w2)
  <2>1. Leads(disk, result.calls, result.wal) BY <1>2, <1>7, WriteRecordsLead
  <2> QED BY <2>1 DEF Leads, Matches
<1>9. Plain(result.calls)
  <2>1. Fit(wal) BY <1>3, OpenIsFit
  <2>2. Harmless(wal, base)
    <3>1. CASE Growing BY <1>6, <2>1, <3>1, PlainNone DEF Harmless, Same
    <3>2. CASE Cutting BY <2>1, <3>2, TruncateHarmless
    <3> QED BY <1>5, <3>1, <3>2
  <2>3. Harmless(wal, result) BY <1>2, <2>2, WriteRecordsHarmless
  <2> QED BY <2>3 DEF Harmless
<1>10. floor \in Int /\ Len(promise.log) \in Nat BY DEF PromiseInv
<1>11. floor' \in Int /\ floor' <= floor /\ (Cutting => floor' <= x)
  <2>1. CASE Growing /\ ~ Cutting BY <1>10, <2>1
  <2>2. CASE Cutting
    <3>1. x \in Int BY <1>2
    <3> QED BY <1>10, <2>2, <3>1, MinOfTwo
  <2> QED BY <1>5, <2>1, <2>2
<1> DEFINE top == TopOf(promise.log, floor')
           H == HardStates(past \cup {StateOf(w2)})
<1>12. top \in Int /\ (Cutting => top < x)
  <2>1. top \in Int /\ top <= floor' - 1 BY <1>10, <1>11, TopIs
  <2>2. ASSUME Cutting PROVE top < x
    <3> DEFINE f == floor'
    <3>1. f <= x /\ f \in Int /\ top \in Int /\ top <= f - 1 /\ x \in Nat BY <1>2, <1>11, <2>1, <2>2
    <3> HIDE DEF top, f
    <3> QED BY ONLY <3>1
  <2> QED BY <2>1, <2>2
<1>13. H = HardStates(past \cup {StateOf(result.wal)}) /\ top = TopOf(promise.log, floor') OBVIOUS
<1> HIDE DEF top, H, w2
<1>14. H = HardStates(past \cup {StateOf(w2)}) BY <1>13 DEF w2
<1>15. /\ Sound(disk) /\ Fits(wal, disk) /\ Tells(wal, disk)
       /\ Trusty(disk, wal, w2, top, H) /\ Trusted(wal, promise.log, top)
  BY <1>3, <1>8, <1>11, <1>13, <1>14, Ready
<1>16. Trusty(disk, wal, wal, top, H) BY <1>4, <1>15, TrustyTold
<1>17. \E d : Writes(disk, base, d, wal, top, H)
  <2>1. CASE Growing
    <3>1. base.wal = wal /\ base.calls = <<>> BY <1>6, <2>1
    <3>2. IsSeq(<<>>) BY TidyNone DEF Tidy
    <3>3. Goes(disk, <<>>, disk, wal, wal, top, H) BY <1>15, <1>16, GoesNone
    <3> HIDE DEF Growing
    <3> QED BY <1>4, <1>15, <3>1, <3>2, <3>3 DEF Writes
  <2>2. CASE Cutting BY <1>2, <1>4, <1>12, <1>15, <1>16, <2>2, TruncateWrites
  <2> QED BY <1>5, <2>1, <2>2
<1>18. PICK d : Writes(disk, base, d, wal, top, H) BY <1>17
<1>19. (\E e : Writes(disk, result, e, wal, top, H)) /\ Extends(base.wal, w2)
  BY <1>2, <1>12, <1>18, WriteRecordsGo DEF w2
<1>20. PICK e : Writes(disk, result, e, wal, top, H) BY <1>19
<1>21. /\ IsSeq(result.calls) /\ Goes(disk, result.calls, e, wal, w2, top, H) /\ Fits(w2, e) /\ Tells(w2, e)
  BY <1>20 DEF Writes, Fits, w2
<1>22. Trusty(e, wal, w2, top, H) BY <1>21, GoesEnds
<1>23. Shares(wal, w2, top)
  <2>1. CASE Growing BY <1>4, <1>6, <1>12, <1>15, <1>19, <2>1, ExtendsShares
  <2>2. CASE Cutting
    <3>1. Cropped(wal, base.wal, x) BY <1>2, <1>4, <2>2, CroppedIs
    <3> DEFINE v == base.wal
               m == Len(v.log)
    <3>2. Struct(v) /\ v.first = wal.first BY <3>1 DEF Cropped
    <3>3. m \in Nat /\ Len(w2.log) \in Nat /\ v.first \in Nat BY <1>8, <3>2, LastIs DEF Struct
    <3>4. top < v.first + m BY <1>2, <1>12, <2>2
    <3>5. w2.first = v.first /\ \A j \in 1 .. m : j \in 1 .. Len(w2.log) /\ w2.log[j] = v.log[j] /\ w2.at[j] = v.at[j]
      BY <1>19 DEF Extends
    <3>6. m <= Len(w2.log)
      <4>1. CASE m = 0 BY <3>3, <4>1
      <4>2. CASE m # 0
        <5>1. m \in 1 .. m BY <3>3, <4>2
        <5>2. m \in 1 .. Len(w2.log) BY <3>5, <5>1
        <5> HIDE DEF m
        <5> QED BY <3>3, <5>2
      <4> QED BY <4>1, <4>2
    <3>7. \A j \in 1 .. m : j \in 1 .. Len(wal.log) /\ v.log[j] = wal.log[j] /\ v.at[j] = wal.at[j]
      BY <3>1 DEF Cropped
    <3> HIDE DEF m, v, Cutting
    <3>8. top <= w2.first - 1 + Len(w2.log) BY <1>12, <3>3, <3>4, <3>5, <3>6
    <3>9. \A j \in 1 .. Len(w2.log) : w2.first + j - 1 <= top => j \in 1 .. m BY <1>12, <3>3, <3>4, <3>5
    <3> QED BY <1>8, <3>2, <3>5, <3>7, <3>8, <3>9 DEF Shares
  <2> QED BY <1>5, <2>1, <2>2
<1>24. Trusty(e, w2, w2, top, H) /\ Trusted(w2, promise.log, top)
  BY <1>12, <1>15, <1>21, <1>22, <1>23, SharesPromise
<1>25. FALSE => Still(e) /\ ~ result.wal.dirty OBVIOUS
<1>26. w2 = result.wal BY DEF w2
<1> HIDE DEF result
<1> QED BY <1>2, <1>9, <1>11, <1>13, <1>21, <1>24, <1>25, <1>26, StartPromises

-----------------------------------------------------------------------------
(***************************************************************************)
(* The promise over calls and crashes.                                     *)
(***************************************************************************)
LEMMA CrashKeepsTrusty ==
  ASSUME NEW d, Sound(d), NEW e \in Crashes(d), NEW w0, NEW w1, NEW top \in Int, NEW H, Trusty(d, w0, w1, top, H)
  PROVE  Still(e) /\ Trusty(e, w0, w1, top, H)
<1>1. /\ Whole(e) /\ e.metadata = d.metadata
      /\ \A id \in DOMAIN e.files : /\ e.files[id].name = "durable"
                                    /\ id \in DOMAIN d.files /\ Remains(d.files[id], e.files[id])
      /\ \A id \in DOMAIN d.files : d.files[id].name = "durable" => id \in DOMAIN e.files
  BY CrashWhole
<1>2. Still(e) BY <1>1 DEF Still, Remains
<1>3. \A id \in DOMAIN e.files : /\ Len(d.files[id].body) \in Nat /\ d.files[id].synced \in Nat
                                 /\ Len(e.files[id].body) \in Nat
                                 /\ d.files[id].synced <= Len(e.files[id].body)
                                 /\ Len(e.files[id].body) <= Len(d.files[id].body)
  <2> SUFFICES ASSUME NEW id \in DOMAIN e.files
               PROVE  /\ Len(d.files[id].body) \in Nat /\ d.files[id].synced \in Nat
                      /\ Len(e.files[id].body) \in Nat
                      /\ d.files[id].synced <= Len(e.files[id].body)
                      /\ Len(e.files[id].body) <= Len(d.files[id].body)
    OBVIOUS
  <2>1. Len(d.files[id].body) \in Nat /\ d.files[id].synced \in Nat BY <1>1, SyncedNat DEF Sound
  <2>2. Len(e.files[id].body) \in Nat BY <1>1, SyncedNat
  <2>3. Len(e.files[id].body) \in d.files[id].synced .. Len(d.files[id].body) BY <1>1 DEF Remains
  <2> QED BY <2>1, <2>2, <2>3
<1>4. Fewer(d, e)
  <2> SUFFICES ASSUME NEW id \in DOMAIN e.files, NEW p \in 1 .. Len(e.files[id].body)
               PROVE  /\ id \in DOMAIN d.files /\ p \in 1 .. Len(d.files[id].body)
                      /\ e.files[id].body[p] = d.files[id].body[p]
    BY DEF Fewer
  <2>1. p \in 1 .. Len(d.files[id].body) BY <1>3
  <2> QED BY <1>1, <2>1 DEF Remains
<1>5. ASSUME NEW p PROVE Safer(d, e, p)
  <2> SUFFICES ASSUME Fast(d, p) PROVE Fast(e, p) /\ At(e, p) = At(d, p) BY DEF Safer
  <2>1. p.seg \in DOMAIN d.files /\ d.files[p.seg].name = "durable" /\ p.pos \in 1 .. d.files[p.seg].synced
    BY DEF Fast
  <2>2. p.seg \in DOMAIN e.files /\ e.files[p.seg].name = "durable" /\ Remains(d.files[p.seg], e.files[p.seg])
    BY <1>1, <2>1
  <2>3. p.pos \in 1 .. Len(e.files[p.seg].body) BY <1>3, <2>1, <2>2
  <2> QED BY <2>2, <2>3 DEF Fast, At, Remains
<1>6. Meta(e) = Meta(d) BY <1>1 DEF Meta
<1>7. Meta(d).first \in Nat /\ Meta(d).seg \in Nat /\ Meta(d).hs \in H /\ Vows(w0, d, top) BY MetaIs DEF Sound, Trusty
<1>8. \A j \in 1 .. Len(w0.log) :
         w0.first + j - 1 >= Meta(e).first /\ w0.first + j - 1 <= top =>
           Safer(d, e, w0.at[j]) /\ w0.at[j].seg >= Meta(e).seg
  BY <1>5, <1>6, <1>7 DEF Vows
<1>9. Meta(d).first <= Meta(e).first /\ Meta(d).seg <= Meta(e).seg /\ Meta(e).seg \in Nat /\ Meta(e).hs \in H
  BY <1>6, <1>7
<1>10. Trusty(e, w0, w1, top, H) BY <1>1, <1>4, <1>8, <1>9, TrustyKept DEF Sound
<1> QED BY <1>2, <1>10

LEMMA CrashPromises ==
  ASSUME LocateInv, PromiseInv, Crash PROVE PromiseInv'
<1> DEFINE P == promise.log
           top == TopOf(P, floor)
           H == HardStates(past)
<1>1. /\ phase = "open" /\ disk' \in Crashes(disk) /\ phase' = "down"
      /\ promise' = promise /\ past' = past /\ floor' = floor
  BY DEF Crash
<1>2. Len(P) \in Nat /\ floor \in Int BY DEF PromiseInv
<1>3. top \in Int BY <1>2, TopIs
<1>4. PICK w0, e : /\ Backed(w0, P, top, past) /\ Backed(wal, P, top, past)
                   /\ Goes(disk, todo, e, w0, wal, top, H)
  BY <1>1 DEF PromiseInv, Promising
<1>5. IsSeq(todo) BY <1>1 DEF LocateInv, Leads
<1>6. Sound(disk) /\ Trusty(disk, w0, wal, top, H) BY <1>4, <1>5, GoesEnds
<1>7. Still(disk') /\ Trusty(disk', w0, wal, top, H) BY <1>1, <1>3, <1>6, CrashKeepsTrusty
<1>8. StateOf(wal) \in past BY <1>4 DEF Backed
<1>9. Surviving(disk', P, top, past) BY <1>4, <1>7, <1>8 DEF Surviving
<1>10. Surviving(disk', promise'.log, TopOf(promise'.log, floor'), past') BY <1>1, <1>9
<1>11. Len(promise'.log) \in Nat /\ floor' \in Int BY <1>1, <1>2
<1>12. phase' = "down" /\ phase' # "open" BY <1>1
<1> QED BY <1>10, <1>11, <1>12 DEF PromiseInv

\* A struct keeps its own log.
LEMMA OwnPromise ==
  ASSUME NEW w, Struct(w), NEW P, P = LogOf(w), NEW S, StateOf(w) \in S
  PROVE  LET top == TopOf(P, NoFloor)
         IN Len(P) \in Nat /\ NoFloor \in Int /\ top \in Int /\ Backed(w, P, top, S)
<1> DEFINE top == TopOf(P, NoFloor)
<1>1. NoFloor \in Int BY WalAssumption DEF NoFloor
<1>2. Len(P) \in Nat /\ Len(P) = w.first - 1 + Len(w.log) /\ \A i \in w.first .. Len(P) : P[i] = w.log[i - w.first + 1]
  BY LogIs
<1>3. top \in Int /\ top <= Len(P) BY <1>1, <1>2, TopIs
<1>4. w.first \in Nat BY DEF Struct
<1> HIDE DEF top
<1>5. top <= w.first - 1 + Len(w.log) BY <1>2, <1>3
<1>6. \A i \in w.first .. top : i \in w.first .. Len(P) BY <1>2, <1>3, <1>4
<1>7. Trusted(w, P, top) BY <1>2, <1>5, <1>6 DEF Trusted
<1> QED BY <1>1, <1>2, <1>3, <1>7 DEF Backed, top

\* The process runs between two operations and vouches for what is on disk.
LEMMA VouchPromises ==
  ASSUME NEW w, NEW d, Matches(w, d), Still(d), Fits(w, d), ~ w.dirty, NEW S, S = {StateOf(w)}
  PROVE  Promising(d, <<>>, w, LogOf(w), TopOf(LogOf(w), NoFloor), S)
<1> DEFINE P == LogOf(w)
           top == TopOf(P, NoFloor)
           H == HardStates(S)
<1>1. Struct(w) /\ Sound(d) BY DEF Matches
<1>2. StateOf(w) \in S OBVIOUS
<1>3. top \in Int /\ Backed(w, P, top, S) BY <1>1, <1>2, OwnPromise
<1>4. Meta(d).hs \in H
  <2>1. Meta(d).hs = w.hs /\ StateOf(w).hs = w.hs BY StateIs DEF Fits
  <2> QED BY <1>2, <2>1 DEF HardStates
<1> HIDE DEF P, top, H
<1>5. Trusty(d, w, w, top, H) BY <1>4, StillTrusty
<1>6. Goes(d, <<>>, d, w, w, top, H) BY <1>1, <1>5, GoesNone
<1>7. ~ \E i \in 1 .. Len(<<>>) : <<>>[i].do = "return"
  <2>1. 1 .. Len(<<>>) = {} OBVIOUS
  <2> QED BY <2>1
<1>8. Promising(d, <<>>, w, P, top, S) BY <1>3, <1>5, <1>6, <1>7 DEF Promising, H
<1> QED BY <1>8 DEF top, P

LEMMA StepPromises ==
  ASSUME IncarnationInv, LocateInv, LocateInv', PromiseInv, Step PROVE PromiseInv'
<1> DEFINE c == Head(todo)
           P == promise.log
           top == TopOf(P, floor)
           H == HardStates(past)
<1>1. /\ todo # <<>> /\ todo' = Tail(todo) /\ disk' = Done(disk, c) /\ wal' = wal /\ phase' = phase
  BY DEF Step
<1>2. phase = "open" BY <1>1 DEF LocateInv
<1>3. IsSeq(todo) /\ Leads(disk', todo', wal) BY <1>1, <1>2 DEF LocateInv, Leads
<1>4. PICK S : todo \in Seq(S) BY <1>3 DEF IsSeq
<1>5. /\ Len(todo) \in Nat /\ Len(todo) > 0 /\ c = todo[1] /\ Len(Tail(todo)) = Len(todo) - 1 /\ Tail(todo) \in Seq(S)
      /\ \A i \in 1 .. Len(Tail(todo)) : i + 1 \in 1 .. Len(todo) /\ Tail(todo)[i] = todo[i + 1]
  BY <1>1, <1>4
<1>6. Len(P) \in Nat /\ floor \in Int BY DEF PromiseInv
<1>7. PICK w0, e : /\ Backed(w0, P, top, past) /\ Backed(wal, P, top, past)
                   /\ Goes(disk, todo, e, w0, wal, top, H)
                   /\ Fits(wal, e) /\ Trusty(e, wal, wal, top, H)
                   /\ (\E i \in 1 .. Len(todo) : todo[i].do = "return") => Still(e) /\ ~ wal.dirty
  BY <1>2 DEF PromiseInv, Promising
<1>8. Goes(disk', todo', e, w0, wal, top, H) BY <1>1, <1>3, <1>7, GoesRest
<1>9. CASE c.do = "return"
  <2>1. promise' = StateOf(wal) /\ past' = {promise'} /\ floor' = NoFloor BY <1>9 DEF Step
  <2>2. 1 \in 1 .. Len(todo) /\ todo[1].do = "return" BY <1>5, <1>9
  <2>3. Len(todo) = 1 BY <1>2, <2>2 DEF IncarnationInv, Running, Saves
  <2>4. todo' = <<>> BY <1>1, <1>5, <2>3
  <2>5. e = disk' BY <1>8, <2>4, GoesNone
  <2>6. Still(e) /\ ~ wal.dirty BY <1>7, <2>2
  <2>7. Matches(wal, e) BY <1>3, <1>8, GoesMatches
  <2>8. Promising(e, <<>>, wal, LogOf(wal), TopOf(LogOf(wal), NoFloor), {StateOf(wal)}) BY <1>7, <2>6, <2>7, VouchPromises
  <2>9. promise'.log = LogOf(wal) BY <2>1, StateIs
  <2>10. Promising(disk', todo', wal', promise'.log, TopOf(promise'.log, floor'), past')
    BY <1>1, <2>1, <2>4, <2>5, <2>8, <2>9
  <2>11. Len(promise'.log) \in Nat /\ floor' \in Int
    <3>1. Struct(wal) BY <2>7 DEF Matches
    <3>2. NoFloor \in Int BY WalAssumption DEF NoFloor
    <3> QED BY <2>1, <2>9, <3>1, <3>2, LogIs
  <2> QED BY <1>1, <1>2, <2>10, <2>11 DEF PromiseInv
<1>10. CASE c.do # "return"
  <2>1. promise' = promise /\ past' = past /\ floor' = floor BY <1>10 DEF Step
  <2>2. (\E i \in 1 .. Len(todo') : todo'[i].do = "return") => Still(e) /\ ~ wal.dirty BY <1>1, <1>5, <1>7
  <2>3. Promising(disk', todo', wal, P, top, past) BY <1>7, <1>8, <2>2 DEF Promising
  <2>4. Promising(disk', todo', wal', promise'.log, TopOf(promise'.log, floor'), past') BY <1>1, <2>1, <2>3
  <2> QED BY <1>1, <1>2, <1>6, <2>1, <2>4 DEF PromiseInv
<1> QED BY <1>9, <1>10

-----------------------------------------------------------------------------
(***************************************************************************)
(* Recovery keeps the promise, and makes one of its own.                   *)
(***************************************************************************)
\* Every entry of w is in a segment of files from seg on, at its place, and w
\* has every entry from its first index on of these segments.
Reads(w, files, seg) ==
  /\ \A j \in 1 .. Len(w.log) :
       /\ w.at[j].seg \in DOMAIN files /\ w.at[j].seg >= seg
       /\ w.at[j].pos \in 1 .. Len(files[w.at[j].seg].body)
       /\ files[w.at[j].seg].body[w.at[j].pos] = Entry(w.first + j - 1, w.log[j])
  /\ \A id \in DOMAIN files : \A p \in 1 .. Len(files[id].body) :
       id >= seg /\ files[id].body[p].kind = "entry" /\ files[id].body[p].index >= w.first =>
         Lists(w, id, p, files[id].body[p])

\* recover reads the whole log.
LEMMA RecoveredReads ==
  ASSUME NEW d, Settled(d), Opens(d)
  PROVE  LET w == Recovered(d)
         IN /\ Struct(w) /\ w.first = Meta(d).first /\ w.hs = Meta(d).hs /\ w.segs = DOMAIN Segments(d)
            /\ Meta(d).seg \in DOMAIN Segments(d) /\ Meta(d).seg \in Nat
            /\ w.dirDirty <=> d.files = <<>>
            /\ w.dirty <=> d.metadata = NoMetadata
            /\ Reads(w, Segments(d), Meta(d).seg)
<1> DEFINE w == Recovered(d)
           files == Segments(d)
           m == d.metadata
           seg == Meta(d).seg
<1>1. Store(files) BY SegmentsAre
<1>2. PICK e : Shows(e, files) BY RepairReaches
<1>3. Matches(w, e) BY <1>2, RecoveredMatches
<1>4. Struct(w) /\ Finds(w, e) BY <1>3 DEF Matches
<1>5. \A j \in 1 .. Len(w.log) :
        /\ w.at[j].seg \in DOMAIN files /\ w.at[j].pos \in 1 .. Len(files[w.at[j].seg].body)
        /\ files[w.at[j].seg].body[w.at[j].pos] = Entry(w.first + j - 1, w.log[j])
  <2> HIDE DEF w, files
  <2> QED BY <1>2, <1>4 DEF Finds, Holds, Shows
<1>6. CASE m = NoMetadata
  <2>1. /\ w.first = 1 /\ w.hs = [stamp |-> 0, commit |-> 0] /\ w.segs = {1} /\ w.log = <<>>
        /\ w.dirDirty = (d.files = <<>>) /\ w.dirty = TRUE
    BY <1>6 DEF Recovered
  <2>2. Meta(d).first = 1 /\ seg = 1 /\ Meta(d).hs = [stamp |-> 0, commit |-> 0] BY <1>6 DEF Meta
  <2>3. DOMAIN files = {1} /\ files[1].body = <<>> BY <1>6 DEF Opens
  <2> HIDE DEF w, files, seg
  <2>4. Reads(w, files, seg) BY <2>1, <2>3 DEF Reads
  <2>5. w.dirty <=> m = NoMetadata BY <1>6, <2>1
  <2>6. w.dirDirty <=> d.files = <<>> BY <2>1
  <2>7. seg \in DOMAIN files /\ seg \in Nat /\ w.segs = DOMAIN files BY <2>1, <2>2, <2>3
  <2> QED BY <1>4, <2>1, <2>2, <2>4, <2>5, <2>6, <2>7 DEF w, files, seg
<1>7. CASE m # NoMetadata
  <2> DEFINE entries == Scanned(files, m.first, m.seg)
             n == Len(entries)
  <2>1. /\ w.first = m.first /\ w.hs = m.hs /\ w.segs = DOMAIN files
        /\ w.log = [i \in DOMAIN entries |-> entries[i].record.term]
        /\ w.at = [i \in DOMAIN entries |-> [seg |-> entries[i].seg, pos |-> entries[i].pos]]
        /\ w.dirDirty = (d.files = <<>>) /\ w.dirty = FALSE
    BY <1>7 DEF Recovered
  <2>2. m.seg \in DOMAIN files BY <1>7 DEF Opens
  <2>3. ScanOf(entries, files) /\ ScanAll(entries, files, m.first, m.seg) BY <1>1, ScannedIs
  <2>4. Meta(d) = m BY <1>7 DEF Meta
  <2> HIDE DEF w, files, entries
  <2>5. n \in Nat /\ DOMAIN entries = 1 .. n BY <2>3 DEF ScanOf
  <2> DEFINE log == w.log
  <2>6. DOMAIN log = 1 .. n /\ log = [i \in 1 .. n |-> log[i]] BY <2>1, <2>5
  <2>7. \A i \in 1 .. n : w.at[i].seg = entries[i].seg /\ w.at[i].pos = entries[i].pos BY <2>1, <2>5
  <2> HIDE DEF log, n
  <2>8. Len(w.log) = n BY <2>5, <2>6, ListIsSeq DEF log
  <2>9. \A j \in 1 .. n : w.at[j].seg >= m.seg BY <2>3, <2>7 DEF ScanAll, n
  <2>10. ASSUME NEW id \in DOMAIN files, NEW p \in 1 .. Len(files[id].body),
                id >= m.seg, files[id].body[p].kind = "entry", files[id].body[p].index >= w.first
         PROVE  Lists(w, id, p, files[id].body[p])
    <3>1. PICK i \in 1 .. n : entries[i].seg = id /\ entries[i].pos = p BY <2>1, <2>3, <2>10 DEF ScanAll, n
    <3>2. w.at[i].seg = id /\ w.at[i].pos = p BY <2>7, <3>1
    <3>3. i \in 1 .. Len(w.log) BY <2>8
    <3>4. files[id].body[p] = Entry(w.first + i - 1, w.log[i]) BY <1>5, <3>2, <3>3
    <3> QED BY <3>2, <3>3, <3>4 DEF Lists
  <2>11. Reads(w, files, seg) BY <1>5, <2>4, <2>8, <2>9, <2>10 DEF Reads
  <2>12. m.seg \in Nat BY <1>1, <2>2 DEF Store
  <2>13. w.dirty <=> m = NoMetadata BY <1>7, <2>1
  <2>14. w.dirDirty <=> d.files = <<>> BY <2>1
  <2> QED BY <1>4, <2>1, <2>2, <2>4, <2>11, <2>12, <2>13, <2>14 DEF w, files
<1> QED BY <1>6, <1>7

LEMMA EntriesDiffer ==
  ASSUME NEW i, NEW t, NEW j, NEW u, Entry(i, t) = Entry(j, u)
  PROVE  i = j /\ t = u /\ Entry(i, t).kind = "entry" /\ Entry(i, t).index = i
<1>1. Entry(i, t).index = i /\ Entry(i, t).term = t /\ Entry(i, t).kind = "entry" BY DEF Entry
<1>2. Entry(j, u).index = j /\ Entry(j, u).term = u BY DEF Entry
<1> QED BY <1>1, <1>2

\* The records are those of the files that are there.
LEMMA SegmentsHold ==
  ASSUME NEW d, Settled(d), Opens(d)
  PROVE  LET files == Segments(d)
         IN /\ \A id \in DOMAIN files : \A p \in 1 .. Len(files[id].body) :
                 id \in DOMAIN d.files /\ files[id] = d.files[id]
            /\ \A id \in DOMAIN d.files : id \in DOMAIN files /\ files[id] = d.files[id]
<1> DEFINE files == Segments(d)
<1>1. CASE d.files = <<>>
  <2>1. DOMAIN files = {1} /\ files[1].body = <<>> /\ DOMAIN d.files = {} BY <1>1, SegmentsAre
  <2> HIDE DEF files
  <2>2. \A id \in DOMAIN files : Len(files[id].body) = 0 BY <2>1
  <2> QED BY <2>1, <2>2 DEF files
<1>2. CASE d.files # <<>>
  <2>1. files = d.files BY <1>2, SegmentsAre
  <2> QED BY <2>1
<1> QED BY <1>1, <1>2

\* What recovery gives back of a trusty directory.
GivesBack(r, P, top, S) ==
  /\ \A i \in r.first .. top : i <= r.first - 1 + Len(r.log) /\ r.log[i - r.first + 1] = P[i]
  /\ r.hs \in HardStates(S)
  /\ \E q \in S : \A i \in r.first .. Len(LogOf(r)) : i <= Len(q.log) /\ LogOf(r)[i] = q.log[i]

LEMMA RecoveredKeeps ==
  ASSUME NEW d, Settled(d), Opens(d), NEW w0, NEW w1, NEW P, NEW top \in Int, NEW S,
         Backed(w0, P, top, S), StateOf(w1) \in S, Trusty(d, w0, w1, top, HardStates(S))
  PROVE  GivesBack(Recovered(d), P, top, S)
<1> DEFINE r == Recovered(d)
           files == Segments(d)
           m == Meta(d)
<1>1. Struct(r) /\ r.first = m.first /\ r.hs = m.hs /\ Reads(r, files, m.seg) BY RecoveredReads
<1>2. r.first \in Nat /\ Len(r.log) \in Nat BY <1>1, LastIs DEF Struct
<1>3. \A id \in DOMAIN files : \A p \in 1 .. Len(files[id].body) : id \in DOMAIN d.files /\ files[id] = d.files[id]
  BY SegmentsHold
<1>4. d.files # <<>> => files = d.files BY SegmentsAre
<1>5. r.hs \in HardStates(S) /\ Struct(w0) /\ Struct(w1) BY <1>1 DEF Trusty
<1> HIDE DEF r, files
<1>6. ASSUME NEW i \in r.first .. top PROVE i <= r.first - 1 + Len(r.log) /\ r.log[i - r.first + 1] = P[i]
  <2> DEFINE j == i - w0.first + 1
             q == w0.at[j]
             id == q.seg
             p == q.pos
  <2>1. m.first <= top /\ w0.first \in Nat /\ Len(w0.log) \in Nat BY <1>1, <1>2, <1>5, <1>6, LastIs DEF Struct
  <2>2. w0.first <= m.first BY <2>1 DEF Trusty
  <2>3. top <= w0.first - 1 + Len(w0.log) /\ \A k \in w0.first .. top : w0.log[k - w0.first + 1] = P[k]
    BY DEF Backed, Trusted
  <2>4. i \in Nat /\ i \in w0.first .. top /\ j \in 1 .. Len(w0.log) /\ w0.first + j - 1 = i
    <3> DEFINE a == w0.first
               b == r.first
               n == Len(w0.log)
    <3>1. a \in Nat /\ b \in Nat /\ n \in Nat /\ a <= b /\ top <= a - 1 + n /\ i \in b .. top /\ top \in Int
      BY <1>1, <1>2, <1>6, <2>1, <2>2, <2>3
    <3> HIDE DEF a, b, n
    <3>2. i \in Nat /\ i \in a .. top /\ i - a + 1 \in 1 .. n /\ a + (i - a + 1) - 1 = i BY ONLY <3>1
    <3> QED BY <3>2 DEF a, n
  <2>5. w0.log[j] = P[i] BY <2>3, <2>4
  <2> HIDE DEF j
  <2>6. Fast(d, q) /\ id >= m.seg /\ At(d, q) = Entry(i, P[i])
    <3>1. w0.first + j - 1 >= m.first /\ w0.first + j - 1 <= top BY <1>1, <2>4, <1>6
    <3>2. Vows(w0, d, top) BY DEF Trusty
    <3> QED BY <2>4, <2>5, <3>1, <3>2 DEF Vows
  <2>7. id \in DOMAIN d.files /\ p \in 1 .. d.files[id].synced BY <2>6 DEF Fast
  <2>8. d.files # <<>> BY <2>7
  <2>9. Len(d.files[id].body) \in Nat /\ d.files[id].synced \in Nat /\ d.files[id].synced <= Len(d.files[id].body)
    BY <2>7, SyncedNat DEF Settled
  <2>10. p \in 1 .. Len(d.files[id].body)
    <3> DEFINE a == d.files[id].synced
               n == Len(d.files[id].body)
    <3>1. a \in Nat /\ n \in Nat /\ a <= n /\ p \in 1 .. a BY <2>7, <2>9
    <3> HIDE DEF a, n, p
    <3>2. p \in 1 .. n BY ONLY <3>1
    <3> QED BY <3>2 DEF n
  <2>11. d.files[id].body[p] = Entry(i, P[i]) BY <2>6 DEF At
  <2> HIDE DEF p, id
  <2>12. Entry(i, P[i]).kind = "entry" /\ Entry(i, P[i]).index = i BY EntriesDiffer
  <2>13. Lists(r, id, p, Entry(i, P[i]))
    <3>1. i >= r.first BY <1>2, <1>6
    <3>2. files = d.files BY <1>4, <2>8
    <3> QED BY <1>1, <2>6, <2>7, <2>10, <2>11, <2>12, <3>1, <3>2 DEF Reads
  <2>14. PICK k \in 1 .. Len(r.log) : Entry(i, P[i]) = Entry(r.first + k - 1, r.log[k]) BY <2>13 DEF Lists
  <2>15. i = r.first + k - 1 /\ P[i] = r.log[k] BY <2>14, EntriesDiffer
  <2>16. i - r.first + 1 = k /\ i <= r.first - 1 + Len(r.log) BY <1>2, <2>15
  <2> QED BY <2>15, <2>16
<1>7. ASSUME NEW w, Struct(w), StateOf(w) \in S, Tells(w, d)
      PROVE  \E q \in S : \A i \in r.first .. Len(LogOf(r)) : i <= Len(q.log) /\ LogOf(r)[i] = q.log[i]
  <2>1. StateOf(w).log = LogOf(w) BY StateIs
  <2>2. /\ Len(LogOf(r)) \in Nat /\ Len(LogOf(r)) = r.first - 1 + Len(r.log)
        /\ \A i \in r.first .. Len(LogOf(r)) : LogOf(r)[i] = r.log[i - r.first + 1]
    BY <1>1, LogIs
  <2>3. /\ Len(LogOf(w)) \in Nat /\ Len(LogOf(w)) = w.first - 1 + Len(w.log)
        /\ \A i \in w.first .. Len(LogOf(w)) : LogOf(w)[i] = w.log[i - w.first + 1]
    BY <1>7, LogIs
  <2>4. w.first \in Nat /\ Len(w.log) \in Nat BY <1>7, LastIs DEF Struct
  <2>5. ASSUME NEW i \in r.first .. Len(LogOf(r)) PROVE i <= Len(LogOf(w)) /\ LogOf(r)[i] = LogOf(w)[i]
    <3> DEFINE j == i - r.first + 1
               id == r.at[j].seg
               p == r.at[j].pos
               t == LogOf(r)[i]
    <3>1. i \in Nat /\ i >= r.first /\ j \in 1 .. Len(r.log) /\ r.first + j - 1 = i BY <1>2, <2>2, <2>5
    <3>2. t = r.log[j] BY <2>2, <2>5
    <3> HIDE DEF j, t
    <3>3. /\ id \in DOMAIN files /\ id >= m.seg /\ p \in 1 .. Len(files[id].body)
          /\ files[id].body[p] = Entry(i, t)
      BY <1>1, <3>1, <3>2 DEF Reads
    <3> HIDE DEF id, p
    <3>4. id \in DOMAIN d.files /\ files[id] = d.files[id] BY <1>3, <3>3
    <3>5. Entry(i, t).kind = "entry" /\ Entry(i, t).index = i BY EntriesDiffer
    <3>6. Wanted(d, id, p) BY <1>1, <3>1, <3>3, <3>4, <3>5 DEF Wanted
    <3>7. Lists(w, id, p, Entry(i, t)) BY <1>7, <3>3, <3>4, <3>6 DEF Tells
    <3>8. PICK k \in 1 .. Len(w.log) : Entry(i, t) = Entry(w.first + k - 1, w.log[k]) BY <3>7 DEF Lists
    <3>9. i = w.first + k - 1 /\ t = w.log[k] BY <3>8, EntriesDiffer
    <3>10. i - w.first + 1 = k /\ i \in w.first .. Len(LogOf(w)) BY <2>3, <2>4, <3>9
    <3>11. LogOf(w)[i] = t BY <2>3, <3>9, <3>10
    <3> QED BY <2>3, <3>10, <3>11 DEF t
  <2> QED BY <1>7, <2>1, <2>5
<1>8. \E q \in S : \A i \in r.first .. Len(LogOf(r)) : i <= Len(q.log) /\ LogOf(r)[i] = q.log[i]
  <2>1. StateOf(w0) \in S BY DEF Backed
  <2>2. Tells(w0, d) \/ Tells(w1, d) BY DEF Trusty
  <2> QED BY <1>5, <1>7, <2>1, <2>2
<1> QED BY <1>5, <1>6, <1>8 DEF r, GivesBack

\* Recovery from a directory at rest gives the log that recover read.
LEMMA RecoveredTrusty ==
  ASSUME NEW d, Settled(d), Opens(d), Still(d), NEW top \in Int, NEW H, Recovered(d).hs \in H
  PROVE  Trusty(d, Recovered(d), Recovered(d), top, H) /\ Tells(Recovered(d), d)
<1> DEFINE w == Recovered(d)
           files == Segments(d)
           m == Meta(d)
<1>1. Struct(w) /\ w.first = m.first /\ w.hs = m.hs /\ m.seg \in Nat /\ Reads(w, files, m.seg) BY RecoveredReads
<1>2. /\ \A id \in DOMAIN files : \A p \in 1 .. Len(files[id].body) : id \in DOMAIN d.files /\ files[id] = d.files[id]
      /\ \A id \in DOMAIN d.files : id \in DOMAIN files /\ files[id] = d.files[id]
  BY SegmentsHold
<1>3. w.first \in Nat BY <1>1 DEF Struct
<1>4. w.hs \in H OBVIOUS
<1> HIDE DEF w, files
<1>5. Tells(w, d) BY <1>1, <1>2 DEF Tells, Wanted, Reads
<1>6. Vows(w, d, top)
  <2>1. ASSUME NEW j \in 1 .. Len(w.log)
        PROVE  /\ Fast(d, w.at[j]) /\ w.at[j].seg >= m.seg
               /\ At(d, w.at[j]) = Entry(w.first + j - 1, w.log[j])
    <3>1. /\ w.at[j].seg \in DOMAIN files /\ w.at[j].seg >= m.seg
          /\ w.at[j].pos \in 1 .. Len(files[w.at[j].seg].body)
          /\ files[w.at[j].seg].body[w.at[j].pos] = Entry(w.first + j - 1, w.log[j])
      BY <1>1 DEF Reads
    <3>2. w.at[j].seg \in DOMAIN d.files /\ files[w.at[j].seg] = d.files[w.at[j].seg] BY <1>2, <3>1
    <3> QED BY <3>1, <3>2 DEF Fast, At, Still
  <2> QED BY <2>1 DEF Vows
<1>7. m.first <= top => w.first <= m.first BY <1>1, <1>3
<1>8. Trusty(d, w, w, top, H) BY <1>1, <1>4, <1>5, <1>6, <1>7 DEF Trusty
<1> QED BY <1>5, <1>8 DEF w

\* open makes the first segment, or cuts a torn tail.
LEMMA RepairGoes ==
  ASSUME NEW d, Settled(d), Opens(d), Still(d), NEW top \in Int, NEW H, Recovered(d).hs \in H
  PROVE  LET w == Recovered(d)
         IN /\ IsSeq(Repair(d))
            /\ \E e : /\ Goes(d, Repair(d), e, w, w, top, H) /\ Fits(w, e) /\ Matches(w, e)
                      /\ e.metadata = d.metadata
<1> DEFINE w == Recovered(d)
           r == Repair(d)
           files == Segments(d)
<1>1. IsSeq(r) /\ \E e : Reaches(d, r, e) /\ Shows(e, files) BY RepairReaches
<1>2. Leads(d, r, w) BY <1>1, RecoveredMatches DEF Leads
<1>3. Trusty(d, w, w, top, H) /\ Tells(w, d) BY RecoveredTrusty
<1>4. /\ Struct(w) /\ w.first = Meta(d).first /\ w.hs = Meta(d).hs /\ w.segs = DOMAIN files
      /\ Meta(d).seg \in w.segs /\ Meta(d).seg \in Nat /\ Reads(w, files, Meta(d).seg)
      /\ w.dirDirty <=> d.files = <<>>
  BY RecoveredReads
<1>5. Sound(d) /\ Listed(d.files) = DOMAIN d.files /\ (d.files # <<>> => files = d.files) BY SegmentsAre
<1>6. Meta(d).seg <= Max(w.segs) BY <1>4, MaxIs DEF Struct
<1>7. Repair(d) = IF d.files = <<>> THEN <<Create(1)>>
                  ELSE IF d.files[Max(DOMAIN d.files)].torn
                         THEN <<Truncate(Max(DOMAIN d.files), Len(d.files[Max(DOMAIN d.files)].body))>> ELSE <<>>
  BY DEF Repair
<1> HIDE DEF w, files, r
<1>8. ASSUME NEW e, Goes(d, r, e, w, w, top, H), Fewer(d, e), e.metadata = d.metadata,
             \A id \in DOMAIN e.files : e.files[id].name # "unlinked",
             d.files = <<>> \/ \A id \in DOMAIN e.files : e.files[id].name = "durable"
      PROVE  Fits(w, e) /\ Matches(w, e)
  <2>1. Matches(w, e) BY <1>2, <1>8, GoesMatches
  <2>2. Meta(e) = Meta(d) /\ Whole(d) /\ Whole(e) BY <1>5, <1>8, <2>1 DEF Meta, Matches, Sound
  <2>3. Meta(d).first <= Meta(e).first /\ Meta(d).seg <= Meta(e).seg /\ Meta(e).seg \in Nat
    BY <1>4, <2>2, MetaIs
  <2>4. Tells(w, e) BY <1>3, <1>4, <1>8, <2>2, <2>3, TellsFewer
  <2>5. \A j \in 1 .. Len(w.log) : Meta(e).seg <= w.at[j].seg BY <1>4, <2>2 DEF Reads
  <2> QED BY <1>4, <1>6, <1>8, <2>1, <2>2, <2>4, <2>5 DEF Fits
<1>9. CASE d.files = <<>>
  <2> DEFINE e == Done(d, Create(1))
  <2>1. DOMAIN d.files = {} /\ r = <<Create(1)>> BY <1>7, <1>9 DEF r
  <2>2. Goes(d, <<Create(1)>>, e, w, w, top, H) /\ Fewer(d, e) BY <1>3, <1>5, <2>1, CreateGoes
  <2>3. e.metadata = d.metadata /\ DOMAIN e.files = {1} /\ e.files[1] = NewFile BY <1>5, <2>1, CreateIs
  <2> HIDE DEF e
  <2>4. \A id \in DOMAIN e.files : e.files[id].name # "unlinked" BY <2>3 DEF NewFile
  <2>5. Goes(d, r, e, w, w, top, H) BY <2>1, <2>2
  <2> QED BY <1>1, <1>8, <1>9, <2>2, <2>3, <2>4, <2>5 DEF r, w
<1>10. CASE d.files # <<>>
  <2> DEFINE last == Max(DOMAIN d.files)
             n == Len(d.files[last].body)
             c == Truncate(last, n)
             e == Done(d, c)
  <2>1. DOMAIN d.files # {} BY <1>4, <1>5, <1>10
  <2>2. last \in DOMAIN d.files /\ last \in Nat BY <1>5, <2>1, MaxIs DEF Sound, Whole
  <2>3. CASE ~ d.files[last].torn
    <3>1. r = <<>> BY <1>7, <1>10, <2>3 DEF r
    <3>2. Goes(d, <<>>, d, w, w, top, H) BY <1>3, <1>5, GoesNone
    <3>3. Fewer(d, d) BY DEF Fewer
    <3>4. \A id \in DOMAIN d.files : d.files[id].name = "durable" BY DEF Settled
    <3> QED BY <1>1, <1>8, <3>1, <3>2, <3>3, <3>4 DEF r, w
  <2>4. CASE d.files[last].torn
    <3>1. r = <<c>> BY <1>7, <1>10, <2>4 DEF r
    <3> HIDE DEF last
    <3>2. n \in 0 .. n /\ n \in Nat
      <4>1. n \in Nat BY <1>5, <2>2, SyncedNat DEF Sound
      <4> QED BY <4>1
    <3>3. Cuts(d, e, last, n) BY <1>5, <2>2, <3>2, TruncateCuts
    <3> HIDE DEF e
    <3>a. Fewer(d, e) BY <3>3, CutsFewer
    <3>4. Fewer(d, e) /\ Sound(e) /\ e.metadata = d.metadata BY <3>3, <3>a DEF Cuts
    <3>5. ASSUME NEW j \in 1 .. Len(w.log) PROVE Safer(d, e, w.at[j])
      <4>1. w.at[j].seg \in DOMAIN d.files /\ w.at[j].pos \in 1 .. Len(d.files[w.at[j].seg].body)
        BY <1>4, <1>5, <1>10 DEF Reads
      <4>2. w.at[j].seg \in Nat BY <1>5, <4>1 DEF Sound, Whole
      <4> QED BY <2>2, <3>3, <4>1, <4>2, CutsSafer
    <3>6. Trusty(e, w, w, top, H) BY <1>3, <1>5, <3>4, <3>5, SaferTrusty
    <3>7. Goes(d, <<c>>, e, w, w, top, H) BY <1>3, <1>5, <3>4, <3>6, GoesOne DEF e
    <3>8. \A id \in DOMAIN e.files : e.files[id].name = "durable" BY <3>3 DEF Cuts, Settled
    <3>9. Goes(d, r, e, w, w, top, H) BY <3>1, <3>7
    <3> QED BY <1>1, <1>8, <3>4, <3>8, <3>9 DEF r, w
  <2> QED BY <2>3, <2>4
<1> QED BY <1>9, <1>10

\* The calls of open keep the log that recover read.
LEMMA OpenedGoes ==
  ASSUME NEW d, Settled(d), Opens(d), Still(d), NEW top \in Int, NEW H, Recovered(d).hs \in H
  PROVE  LET w == Recovered(d)
             w2 == Opened(d).wal
         IN /\ Alike(w, w2) /\ w2.hs = w.hs
            /\ \E e : /\ Goes(d, Opened(d).calls, e, w, w2, top, H)
                      /\ Fits(w2, e) /\ Trusty(e, w2, w2, top, H)
<1> DEFINE w == Recovered(d)
           r == Repair(d)
           w2 == Opened(d).wal
           calls == Opened(d).calls
           c == Cleanup(w)
           m == MetadataOf(w, w.first, FirstSegmentIdFor(w, w.first))
           save == <<SaveMetadata(m)>>
<1>1. IsSeq(r) BY RepairGoes
<1>2. PICK e : Goes(d, r, e, w, w, top, H) /\ Fits(w, e) /\ Matches(w, e) /\ e.metadata = d.metadata BY RepairGoes
<1>3. Struct(w) /\ Sound(e) /\ w.segs = Listed(e.files) BY <1>2 DEF Matches
<1>4. Leads(d, calls, w2) BY OpenedLeads
<1>5. w.dirDirty \/ \A id \in DOMAIN e.files : e.files[id].name = "durable" BY <1>2 DEF Fits
<1>6. w.hs \in H OBVIOUS
<1>7. Opened(d) = IF w.dirty THEN [wal |-> [Synced(w) EXCEPT !.dirty = FALSE], calls |-> r \o SyncAll(w) \o save]
                  ELSE IF w.first > 1 THEN [wal |-> c.wal, calls |-> r \o c.calls] ELSE [wal |-> w, calls |-> r]
  BY DEF Opened
<1> HIDE DEF w, r
<1>8. ASSUME Alike(w, w2) PROVE Goes(d, r, e, w, w2, top, H) /\ Trusty(e, w, w2, top, H)
  <2>1. Extends(w, w2) BY <1>8, AlikeExtends
  <2>2. Goes(d, r, e, w, w2, top, H) BY <1>2, <2>1, GoesMore
  <2> QED BY <1>1, <2>2, GoesEnds
\* At rest in the end.
<1>9. ASSUME Alike(w, w2), w2.hs = w.hs, NEW s, NEW g, Rests(e, s, g, w, w2, top, H), Fits(w2, g), calls = r \o s
      PROVE  Goes(d, calls, g, w, w2, top, H) /\ Trusty(g, w2, w2, top, H)
  <2>1. IsSeq(s) /\ Goes(e, s, g, w, w2, top, H) /\ Still(g) BY <1>9 DEF Rests
  <2>2. Goes(d, r \o s, g, w, w2, top, H) BY <1>1, <1>8, <1>9, <2>1, GoesJoined
  <2>3. Goes(d, calls, g, w, w2, top, H) BY <1>9, <2>2
  <2>4. Matches(w2, g) BY <1>4, <2>3, GoesMatches
  <2>5. Meta(g).hs \in H
    <3>1. Trusty(g, w, w2, top, H) BY <2>1, GoesEnds
    <3> QED BY <3>1 DEF Trusty
  <2> QED BY <1>9, <2>1, <2>3, <2>4, <2>5, StillTrusty
<1>10. CASE w.dirty
  <2>1. w2 = [Synced(w) EXCEPT !.dirty = FALSE] /\ calls = r \o SyncAll(w) \o save BY <1>7, <1>10
  <2>2. Alike(w, w2) /\ w2.segs = w.segs BY <1>3, <2>1, SyncedAlike
  <2>3. w2.hs = w.hs BY <1>3, <2>1 DEF Synced, Struct
  <2>4. w.first \in Nat /\ w.snap \in Nat /\ w.snap < w.first BY <1>3 DEF Struct
  <2>5. IsMetadata(m) /\ m # NoMetadata /\ m.first = w.first /\ m.hs = w.hs /\ m.seg = FirstSegmentIdFor(w, w.first)
    BY <2>4, MetadataIs
  <2> HIDE DEF m, w2, calls
  <2>6. Trusty(e, w, w2, top, H) BY <1>8, <2>2
  <2>7. PICK g : Rests(e, SyncAll(w) \o <<SaveMetadata(m)>>, g, w, w2, top, H) /\ Fits(w2, g)
    BY <1>2, <1>3, <1>5, <1>6, <2>2, <2>3, <2>5, <2>6, SaveThere
  <2>8. calls = r \o (SyncAll(w) \o save)
    <3>1. IsSeq(SyncAll(w)) BY <1>3, SyncAllTidy DEF Struct, Tidy
    <3>2. IsSeq(save) BY TwoCalls
    <3> HIDE DEF save
    <3>3. Associate(r, SyncAll(w), save) BY <1>1, <3>1, <3>2, Associates
    <3> QED BY <2>1, <3>3, Zenon DEF Associate
  <2>9. Goes(d, calls, g, w, w2, top, H) /\ Trusty(g, w2, w2, top, H) BY <1>9, <2>2, <2>3, <2>7, <2>8
  <2> QED BY <2>2, <2>3, <2>7, <2>9 DEF w, w2, calls
<1>11. CASE ~ w.dirty /\ w.first > 1
  <2> DEFINE seg == IF w.log # <<>> THEN Lookup(w, w.first).seg ELSE Max(w.segs)
             G == {id \in w.segs : id < seg}
  <2>1. w2 = c.wal /\ calls = r \o c.calls BY <1>7, <1>11
  <2>2. /\ seg \in Nat /\ \A j \in 1 .. Len(w.log) : w.at[j].seg \in Nat /\ w.at[j].seg >= seg
        /\ Alike(w, w2) /\ w2.hs = w.hs /\ w2.dirty = w.dirty /\ Max(w2.segs) = Max(w.segs)
    BY <1>2, <2>1, CleanupKeeps
  <2>3. Trusty(e, w, w2, top, H) BY <1>8, <2>2
  <2> HIDE DEF w2, calls
  <2>4. Apart(w, e, top, G)
    <3>1. ASSUME NEW j \in 1 .. Len(w.log) PROVE w.at[j].seg \notin G
      <4>1. w.at[j].seg \in Nat /\ w.at[j].seg >= seg BY <2>2
      <4> HIDE DEF seg
      <4> QED BY <2>2, <4>1
    <3> QED BY <3>1 DEF Apart
  <2>5. PICK g : Rests(e, c.calls, g, w, w2, top, H) /\ g.metadata = e.metadata
    BY <1>3, <1>5, <2>2, <2>3, <2>4, CleanupRests
  <2>6. Meta(g) = Meta(e) BY <2>5 DEF Meta
  <2>7. /\ Meta(g).first = w.first /\ Meta(g).seg \in Nat /\ Meta(g).seg <= Max(w2.segs)
        /\ ~ w2.dirty => Meta(g).hs = w2.hs
        /\ \A j \in 1 .. Len(w.log) : Meta(g).seg <= w.at[j].seg
    BY <1>2, <2>2, <2>6 DEF Fits
  <2>8. w.first \in Nat /\ Meta(e).seg <= Meta(g).seg BY <1>3, <2>6, <2>7 DEF Struct
  <2>9. Fits(w2, g) BY <1>2, <2>2, <2>5, <2>7, <2>8, AlikeFits
  <2>10. Goes(d, calls, g, w, w2, top, H) /\ Trusty(g, w2, w2, top, H) BY <1>9, <2>1, <2>2, <2>5, <2>9
  <2> QED BY <2>2, <2>9, <2>10 DEF w, w2, calls
<1>12. CASE ~ w.dirty /\ ~ w.first > 1
  <2>1. w2 = w /\ calls = r BY <1>7, <1>12
  <2> HIDE DEF w2, calls
  <2>2. Alike(w, w2) BY <1>3, <2>1, AlikeItself
  <2>3. Trusty(e, w, w, top, H) BY <1>1, <1>2, GoesEnds
  <2>4. Fits(w2, e) /\ Trusty(e, w2, w2, top, H) /\ Goes(d, calls, e, w, w2, top, H) /\ w2.hs = w.hs
    BY <1>2, <2>1, <2>3
  <2> QED BY <2>2, <2>4 DEF w, w2, calls
<1> QED BY <1>10, <1>11, <1>12

LEMMA OpenPromises ==
  ASSUME IncarnationInv, LocateInv, PromiseInv, Open PROVE PromiseInv'
<1> DEFINE w == Recovered(disk)
           w2 == Opened(disk).wal
           calls == Opened(disk).calls
           P == LogOf(w2)
           top == TopOf(P, NoFloor)
           S == {StateOf(w2)}
           H == HardStates(S)
<1>1. phase = "down" /\ disk' = disk BY DEF Open
<1>2. Settled(disk) /\ Still(disk) BY <1>1 DEF LocateInv, Settled, PromiseInv, Surviving
<1>3. CASE Opens(disk)
  <2>1. /\ phase' = "open" /\ wal' = w2 /\ todo' = calls /\ promise' = StateOf(w2)
        /\ past' = S /\ floor' = NoFloor
    BY <1>3 DEF Open
  <2>2. Alike(w, w2) /\ w2.hs = w.hs
    <3> DEFINE T == {w.hs}
    <3>1. 0 \in Int /\ w.hs \in T OBVIOUS
    <3> HIDE DEF T
    <3> QED BY <1>2, <1>3, <3>1, OpenedGoes
  <2>3. Struct(w) /\ Struct(w2) /\ StateOf(w) = StateOf(w2)
    <3>1. Struct(w) BY <1>2, <1>3, RecoveredReads
    <3>2. w.first = w2.first /\ w.log = w2.log /\ w.hs = w2.hs BY <2>2 DEF Alike
    <3> HIDE DEF w, w2
    <3> QED BY <2>2, <3>1, <3>2, StateSame DEF Alike
  <2>4. P = LogOf(w) /\ StateOf(w2).log = P BY <2>3, StateIs
  <2>5. StateOf(w) \in S /\ StateOf(w2) \in S /\ w.hs \in H BY <2>2, <2>3, StateIs DEF HardStates
  <2>6. P = LogOf(w2) /\ top = TopOf(P, NoFloor) OBVIOUS
  <2> HIDE DEF w, P, S, top, H
  <2>7. /\ Len(P) \in Nat /\ NoFloor \in Int /\ top \in Int
        /\ Backed(w2, P, top, S) /\ Backed(w, P, top, S)
    BY <2>3, <2>4, <2>5, <2>6, OwnPromise
  <2>8. PICK e : Goes(disk, calls, e, w, w2, top, H) /\ Fits(w2, e) /\ Trusty(e, w2, w2, top, H)
    BY <1>2, <1>3, <2>5, <2>7, OpenedGoes DEF w
  <2>9. ~ \E i \in 1 .. Len(calls) : calls[i].do = "return" BY OpenedQuiet DEF IncarnationInv, Quiet
  <2> HIDE DEF w2, calls
  <2>10. Promising(disk, calls, w2, P, top, S) BY <2>7, <2>8, <2>9 DEF Promising, H
  <2>11. promise'.log = P BY <2>1, <2>4
  <2>12. Promising(disk', todo', wal', promise'.log, TopOf(promise'.log, floor'), past')
    BY <1>1, <2>1, <2>6, <2>10, <2>11
  <2>13. Len(promise'.log) \in Nat /\ floor' \in Int BY <2>1, <2>7, <2>11
  <2> QED BY <2>1, <2>12, <2>13 DEF PromiseInv
<1>4. CASE ~ Opens(disk) BY <1>4 DEF Open, PromiseInv
<1> QED BY <1>3, <1>4

LEMMA PromiseStart ==
  ASSUME Init PROVE PromiseInv
<1> DEFINE w == Recovered(disk)
           P == promise.log
           top == TopOf(P, NoFloor)
<1>1. /\ disk = EmptyDisk /\ phase = "down" /\ floor = NoFloor /\ past = {promise}
      /\ promise = [log |-> <<>>, hs |-> [stamp |-> 0, commit |-> 0]]
  BY DEF Init
<1>2. disk.files = <<>> /\ disk.metadata = NoMetadata BY <1>1 DEF EmptyDisk
<1>3. DOMAIN disk.files = {} BY <1>2
<1>4. Settled(disk) /\ Still(disk)
  <2>1. Whole(disk) BY LocateStart DEF LocateInv
  <2> QED BY <1>3, <2>1 DEF Settled, Still
<1>5. Opens(disk)
  <2> DEFINE f == FileSynced(NewFile)
  <2>1. f.header = "durable" /\ f.body = <<>> /\ f.torn = FALSE BY DEF FileSynced, NewFile
  <2> HIDE DEF f
  <2>2. Segments(disk) = [id \in {1} |-> f] BY <1>2 DEF Segments, f
  <2> QED BY <1>2, <2>1, <2>2 DEF Opens
<1>6. w.first = 1 /\ w.log = <<>> /\ w.hs = [stamp |-> 0, commit |-> 0] BY <1>2 DEF Recovered
<1>7. Struct(w) BY <1>4, <1>5, RecoveredReads
<1> HIDE DEF w
<1>8. StateOf(w) = promise
  <2>1. [i \in 1 .. 1 - 1 |-> 0] = <<>> OBVIOUS
  <2>2. LogOf(w) = <<>> BY <1>6, <2>1 DEF LogOf
  <2> QED BY <1>1, <1>6, <2>2 DEF StateOf
<1>9. P = LogOf(w) /\ StateOf(w) \in past /\ w.hs \in HardStates(past) BY <1>1, <1>8, StateIs DEF HardStates
<1> HIDE DEF P
<1>10. Len(P) \in Nat /\ NoFloor \in Int /\ top \in Int /\ Backed(w, P, top, past) BY <1>7, <1>9, OwnPromise
<1> HIDE DEF top
<1>11. Trusty(disk, w, w, top, HardStates(past)) BY <1>4, <1>5, <1>9, <1>10, RecoveredTrusty DEF w
<1>12. Surviving(disk, P, top, past) BY <1>4, <1>9, <1>10, <1>11 DEF Surviving
<1> QED BY <1>1, <1>10, <1>12 DEF PromiseInv, P, top

LEMMA PromiseStep ==
  ASSUME IncarnationInv, LocateInv, LocateInv', PromiseInv, [Next]_vars
  PROVE  PromiseInv'
<1>0. MaxIndex \in Nat /\ MaxBatch \in Nat BY WalAssumption
<1>1. ASSUME NEW i \in Index, NEW n \in 1 .. MaxBatch, NEW t \in 1 .. MaxTerm, AppendEntries(i, n, t)
      PROVE  PromiseInv'
  <2>1. i \in Nat /\ n \in Nat BY <1>0 DEF Index
  <2> QED BY <1>1, <2>1, AppendPromises
<1>2. ASSUME NEW i \in Index, SaveHardState(i) \/ Compact(i + 1) \/ ApplyLocalSnapshot(i) \/ ApplySnapshot(i)
      PROVE  PromiseInv'
  <2>1. i \in Nat /\ i + 1 \in Nat BY <1>0 DEF Index
  <2> QED BY <1>2, <2>1, HardStatePromises, CompactPromises, LocalSnapshotPromises, SnapshotPromises
<1>3. ASSUME UNCHANGED vars PROVE PromiseInv'
  BY <1>3 DEF vars, PromiseInv
<1> QED
  BY <1>1, <1>2, <1>3, OpenPromises, StepPromises, CrashPromises, SyncPromises, ReservePromises DEF Next

LEMMA RecoveredSafe ==
  ASSUME LocateInv, PromiseInv, phase = "down", Opens(disk) PROVE KeepsPromise(disk) /\ RecoveredLogIsOneLog
<1> DEFINE P == promise.log
           top == TopOf(P, floor)
<1>1. Settled(disk) /\ Surviving(disk, P, top, past) BY DEF LocateInv, Settled, PromiseInv
<1>2. PICK w0, w1 : Backed(w0, P, top, past) /\ StateOf(w1) \in past /\ Trusty(disk, w0, w1, top, HardStates(past))
  BY <1>1 DEF Surviving
<1>3. top \in Int BY TopIs DEF PromiseInv
<1>4. top = Min({Len(promise.log), floor - 1}) BY DEF TopOf
<1> HIDE DEF top
<1>5. GivesBack(Recovered(disk), P, top, past) BY <1>1, <1>2, <1>3, RecoveredKeeps
<1>6. KeepsPromise(disk) BY <1>4, <1>5 DEF KeepsPromise, HardStates, GivesBack
<1>7. RecoveredLogIsOneLog BY <1>5 DEF RecoveredLogIsOneLog, GivesBack
<1> QED BY <1>6, <1>7

\* From every directory a crash may leave, at any call of any operation of the
\* WAL, recovery gives back what was promised, and one log.
THEOREM PromiseInvInductive == Spec => []PromiseInv
<1>1. Init => PromiseInv BY PromiseStart
<1>2. IncarnationInv /\ LocateInv /\ LocateInv' /\ PromiseInv /\ [Next]_vars => PromiseInv' BY PromiseStep
<1> QED BY <1>1, <1>2, IncarnationInvInductive, LocateInvInductive, PTL DEF Spec

\* What open would recover after a crash, at any call of any operation, has all
\* that the last sync, compaction or snapshot returned for, except what was
\* overwritten or compacted since, and no older HardState (wal.sync, wal.recover).
THEOREM RecoveryAlwaysKeepsPromise == Spec => []RecoveryKeepsPromise
<1>1. LocateInv /\ PromiseInv => RecoveryKeepsPromise
  <2> SUFFICES ASSUME LocateInv, PromiseInv, phase = "down", Opens(disk) PROVE KeepsPromise(disk)
    BY DEF RecoveryKeepsPromise
  <2> QED BY RecoveredSafe
<1> QED BY <1>1, LocateInvInductive, PromiseInvInductive, PTL

\* The log it recovers is a prefix of one the WAL had since, never entries of an
\* overwritten suffix behind their replacement (wal.truncateSuffixFrom).
THEOREM RecoveredLogAlwaysOneLog == Spec => []RecoveredLogIsOneLog
<1>1. LocateInv /\ PromiseInv => RecoveredLogIsOneLog
  <2> SUFFICES ASSUME LocateInv, PromiseInv, phase = "down", Opens(disk) PROVE RecoveredLogIsOneLog
    BY DEF RecoveredLogIsOneLog
  <2> QED BY RecoveredSafe
<1> QED BY <1>1, LocateInvInductive, PromiseInvInductive, PTL
=============================================================================
