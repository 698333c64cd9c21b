-------------------------- MODULE StandaloneProofs --------------------------
(***************************************************************************)
(* The components that share nothing with the event queue and with each    *)
(* other: what the window of traces answers, what the state machine of the *)
(* kernel and its agents keep to, and what an epoch that passed has done,  *)
(* for every value of their constants.                                     *)
(***************************************************************************)
EXTENDS TraceWindow, Kernel, Epoch, TLAPS, SequenceTheorems, FiniteSetTheorems,
        WellFoundedInduction

-----------------------------------------------------------------------------
(* Functions by recursion over the naturals *)

\* A non-empty set of naturals has a least element.
LEMMA LeastNat ==
    ASSUME NEW S, S \subseteq Nat, S # {}
    PROVE  \E m \in S : \A x \in S : m <= x
<1>1. PICK m \in S : \A y \in S : ~ (<<y, m>> \in OpToRel(<, Nat))
  BY NatLessThanWellFounded, WFMin, Zenon
<1>2. ASSUME NEW y \in S PROVE m <= y
  <2>1. y \in Nat /\ m \in Nat
    OBVIOUS
  <2>2. y < m => <<y, m>> \in OpToRel(<, Nat)
    BY <2>1 DEF OpToRel
  <2>3. ~ (y < m)
    BY <2>2, <1>1, Zenon
  <2> QED  BY <2>1, <2>3
<1> QED  BY <1>2

\* f begins with base and goes on by the functions of fs.
Recurses(f, base, fs, n) ==
    /\ f[0] = base
    /\ \A i \in 1..n : f[i] = fs[i][f[i - 1]]

LEMMA RecursionExists ==
    ASSUME NEW S, NEW base \in S, NEW n \in Nat, NEW fs \in [1..n -> [S -> S]]
    PROVE  \E f \in [0..n -> S] : Recurses(f, base, fs, n)
<1> DEFINE Bad == {k \in 0..n : ~ \E f \in [0..k -> S] : Recurses(f, base, fs, k)}
<1> SUFFICES ASSUME Bad # {} PROVE FALSE
  OBVIOUS
<1>1. PICK m \in Bad : \A k \in Bad : m <= k
  <2>1. Bad \subseteq Nat
    OBVIOUS
  <2> QED  BY <2>1, LeastNat
<1>2. m # 0
  <2> DEFINE f == [i \in 0..0 |-> base]
  <2>1. f \in [0..0 -> S] /\ Recurses(f, base, fs, 0)
    BY DEF Recurses
  <2> QED  BY <2>1
<1>3. m \in 1..n /\ m - 1 \in 0..n /\ m - 1 \notin Bad
  <2>1. m \in 0..n
    OBVIOUS
  <2>2. m \in 1..n /\ m - 1 \in 0..n /\ ~ (m <= m - 1)
    BY <1>2, <2>1
  <2> HIDE DEF Bad
  <2> QED  BY <1>1, <2>2
<1>4. PICK f \in [0..(m - 1) -> S] : Recurses(f, base, fs, m - 1)
  BY <1>3
<1> DEFINE g == [i \in 0..m |-> IF i = m THEN fs[m][f[m - 1]] ELSE f[i]]
<1>5. g[0] = base
  BY <1>3, <1>4 DEF Recurses
<1>6. g[m] = fs[m][f[m - 1]] /\ \A i \in 0..(m - 1) : g[i] = f[i]
  BY <1>3
<1>7. fs[m][f[m - 1]] \in S
  <2>1. f[m - 1] \in S /\ fs[m] \in [S -> S]
    BY <1>3, <1>4
  <2> QED  BY <2>1
<1>8. g \in [0..m -> S]
  <2>1. ASSUME NEW i \in 0..m PROVE (IF i = m THEN fs[m][f[m - 1]] ELSE f[i]) \in S
    <3>1. CASE i = m
      BY <3>1, <1>7
    <3>2. CASE i # m
      <4>1. i \in 0..(m - 1)
        BY <3>2, <1>3
      <4> QED  BY <3>2, <4>1, <1>4
    <3> QED  BY <3>1, <3>2
  <2> QED  BY <2>1
<1>9. ASSUME NEW i \in 1..m PROVE g[i] = fs[i][g[i - 1]]
  <2>1. i - 1 \in 0..(m - 1) /\ (i # m => i \in 1..(m - 1) /\ i \in 0..(m - 1))
    BY <1>3
  <2>2. g[i - 1] = f[i - 1]
    BY <2>1, <1>6
  <2>3. CASE i = m
    BY <2>2, <2>3, <1>6
  <2>4. CASE i # m
    <3>1. f[i] = fs[i][f[i - 1]]
      BY <2>1, <2>4, <1>4 DEF Recurses
    <3> QED  BY <2>1, <2>2, <2>4, <3>1, <1>6
  <2> QED  BY <2>3, <2>4
<1> HIDE DEF g
<1>10. Recurses(g, base, fs, m)
  BY <1>5, <1>9 DEF Recurses
<1> QED  BY <1>8, <1>10

-----------------------------------------------------------------------------
(* Trace window: the inductive invariant *)

\* The archive is one segment that holds the traces of past, or nothing.
OneSegment(segments, past) ==
    \/ segments = <<>> /\ past = <<>>
    \/ \E seg : segments = <<seg>> /\ seg.traces = past /\ past # <<>>

\* The traces appended are those of the archive and then those of the window.
Splits(past) ==
    /\ OneSegment(archived, past)
    /\ archived_total = Len(past)
    /\ appended = past \o active

WInv ==
    /\ active \in Seq(Trace)
    /\ total_count = Len(appended)
    /\ \E past \in Seq(Trace) : Splits(past)

-----------------------------------------------------------------------------
(* Trace window: the archive *)

\* Archiving a trace extends the one segment, and pruning leaves it: there is
\* never a second one, so the limit on segments is never reached.
LEMMA ArchiveExtends ==
    ASSUME NEW past \in Seq(Trace), OneSegment(archived, past), NEW t \in Trace
    PROVE  OneSegment(PruneArchived(Archive(t)), Append(past, t))
<1>1. PICK seg : /\ BuildSegment(archived, t) = <<seg>>
                 /\ seg.traces = Append(past, t)
                 /\ \E a, b, c, d : seg = CompressedSegment(a, b, c, d)
  <2>1. CASE archived = <<>>
    <3>1. past = <<>>
      BY <2>1 DEF OneSegment
    <3>2. Append(past, t) = <<t>>
      BY <3>1
    <3> QED  BY <2>1, <3>2 DEF BuildSegment, CompressedSegment
  <2>2. CASE archived # <<>>
    <3>1. PICK old : archived = <<old>> /\ old.traces = past
      BY <2>2 DEF OneSegment
    <3>2. Last(archived) = old /\ Front(archived) = <<>>
      BY <3>1 DEF Last, Front
    <3> DEFINE new == CompressedSegment(old.start_cycle, old.count + 1,
                                        Append(past, t), old.integrity_hash)
    <3>3. BuildSegment(archived, t) = <<new>>
      BY <2>2, <3>1, <3>2 DEF BuildSegment
    <3>4. new.traces = Append(past, t)
      BY DEF CompressedSegment
    <3> QED  BY <3>3, <3>4
  <2> QED  BY <2>1, <2>2
<1>2. PICK new : FinalizeSegment(<<seg>>) = <<new>> /\ new.traces = seg.traces
  <2>1. Last(<<seg>>) = seg /\ Front(<<seg>>) = <<>>
    BY DEF Last, Front
  <2>2. [seg EXCEPT !.integrity_hash = Digest(seg.traces)].traces = seg.traces
    BY <1>1 DEF CompressedSegment
  <2> DEFINE sealed == [seg EXCEPT !.integrity_hash = Digest(seg.traces)]
  <2>3. FinalizeSegment(<<seg>>) \in {<<seg>>, <<sealed>>}
    <3>1. Append(<<>>, sealed) = <<sealed>>
      OBVIOUS
    <3> HIDE DEF sealed
    <3>2. FinalizeSegment(<<seg>>) = IF seg.count < SegmentSize THEN <<seg>>
                                     ELSE Append(<<>>, sealed)
      BY <2>1 DEF FinalizeSegment, sealed
    <3> QED  BY <3>1, <3>2
  <2> QED  BY <2>2, <2>3
<1>3. PruneArchived(<<new>>) = <<new>>
  <2>1. MaxArchivedSegments \in Nat \ {0} /\ Len(<<new>>) = 1
    BY ArchiveAssumption
  <2> QED  BY <2>1 DEF PruneArchived
<1>4. Append(past, t) # <<>>
  BY AppendProperties
<1> QED  BY <1>1, <1>2, <1>3, <1>4 DEF OneSegment, Archive

LEMMA PruneKeeps ==
    ASSUME NEW past, OneSegment(archived, past)
    PROVE  PruneArchived(archived) = archived
<1>1. MaxArchivedSegments \in Nat \ {0}
  BY ArchiveAssumption
<1>2. PICK n \in {0, 1} : Len(archived) = n
  BY DEF OneSegment
<1>3. n <= MaxArchivedSegments
  BY <1>1
<1> QED  BY <1>2, <1>3 DEF PruneArchived

-----------------------------------------------------------------------------
(* Trace window: the steps *)

LEMMA AppendKeepsWInv ==
    ASSUME WInv, NEW t \in Trace, AppendTrace(t)
    PROVE  WInv'
<1>1. PICK past \in Seq(Trace) : Splits(past)
  BY DEF WInv
<1>2. /\ active \in Seq(Trace) /\ Len(active) \in Nat /\ Len(past) \in Nat
      /\ past \o active \in Seq(Trace)
      /\ MaxActive \in Nat \ {0}
  BY LenProperties, ConcatProperties, WindowAssumption DEF WInv
<1>3. total_count' = Len(appended') /\ appended' = Append(past \o active, t)
  <2>1. Len(Append(past \o active, t)) = Len(past \o active) + 1
    BY <1>2, AppendProperties
  <2> QED  BY <1>1, <2>1 DEF WInv, Splits, AppendTrace
<1>4. CASE Len(active) >= MaxActive
  <2>1. active # <<>>
    BY <1>2, <1>4
  <2> DEFINE h == Head(active)
             rest == Tail(active)
  <2>2. /\ h \in Trace /\ rest \in Seq(Trace) /\ active = <<h>> \o rest
        /\ <<h>> \in Seq(Trace)
    <3>1. h \in Trace /\ rest \in Seq(Trace) /\ Len(rest) = Len(active) - 1
      BY <1>2, <2>1, HeadTailProperties
    <3>2. <<h>> \in Seq(Trace) /\ Len(<<h>>) = 1 /\ <<h>>[1] = h
      BY <3>1
    <3>3. /\ <<h>> \o rest \in Seq(Trace) /\ Len(<<h>> \o rest) = Len(active)
          /\ \A i \in 1..Len(active) : (<<h>> \o rest)[i] =
                IF i <= 1 THEN h ELSE rest[i - 1]
      BY <1>2, <3>1, <3>2, ConcatProperties
    <3>4. \A i \in 1..Len(active) : (<<h>> \o rest)[i] = active[i]
      <4>1. \A i \in 1..Len(rest) : rest[i] = active[i + 1]
        BY <1>2, <2>1, HeadTailProperties
      <4>2. h = active[1]
        BY <1>2, <2>1
      <4> QED  BY <1>2, <3>1, <3>3, <4>1, <4>2
    <3>5. <<h>> \o rest = active
      BY <1>2, <3>3, <3>4, SeqEqual
    <3> QED  BY <3>1, <3>2, <3>5
  <2>3. OneSegment(archived', Append(past, h))
    BY <1>1, <1>4, <2>2, ArchiveExtends DEF Splits, AppendTrace
  <2>4. /\ Append(past, h) \in Seq(Trace) /\ Append(past, h) = past \o <<h>>
        /\ Len(Append(past, h)) = Len(past) + 1
    BY <2>2, AppendProperties, AppendIsConcat
  <2>5. archived_total' = Len(Append(past, h)) /\ active' = Append(rest, t)
    BY <1>1, <1>4, <2>4 DEF Splits, AppendTrace
  <2>6. active' \in Seq(Trace)
    BY <2>2, <2>5, AppendProperties
  <2>7. appended' = Append(past, h) \o active'
    <3>1. <<t>> \in Seq(Trace)
      OBVIOUS
    <3>2. appended' = (past \o active) \o <<t>> /\ active' = rest \o <<t>>
      BY <1>2, <1>3, <2>2, <2>5, AppendIsConcat
    <3>3. past \o active = Append(past, h) \o rest
      BY <2>2, <2>4, ConcatAssociative
    <3>4. (Append(past, h) \o rest) \o <<t>> = Append(past, h) \o (rest \o <<t>>)
      BY <2>2, <2>4, <3>1, ConcatAssociative
    <3> QED  BY <3>2, <3>3, <3>4
  <2> HIDE DEF h, rest
  <2> QED  BY <1>3, <2>3, <2>4, <2>5, <2>6, <2>7 DEF WInv, Splits
<1>5. CASE ~ (Len(active) >= MaxActive)
  <2>1. /\ active' = Append(active, t) /\ archived_total' = archived_total
        /\ archived' = archived
    BY <1>1, <1>5, PruneKeeps DEF AppendTrace, Splits
  <2>2. active' \in Seq(Trace)
    BY <1>2, <2>1, AppendProperties
  <2>3. appended' = past \o active'
    <3>1. <<t>> \in Seq(Trace)
      OBVIOUS
    <3>2. appended' = (past \o active) \o <<t>> /\ active' = active \o <<t>>
      BY <1>2, <1>3, <2>1, AppendIsConcat
    <3> QED  BY <1>2, <3>1, <3>2, ConcatAssociative
  <2> QED  BY <1>1, <1>3, <2>1, <2>2, <2>3 DEF WInv, Splits
<1> QED  BY <1>4, <1>5

\* The window holds what WInv says in every reachable state.
THEOREM WindowInvariance == Spec => []WInv
<1>1. Init => WInv
  <2> SUFFICES ASSUME Init PROVE WInv
    OBVIOUS
  <2>1. <<>> \in Seq(Trace) /\ Len(<<>>) = 0 /\ <<>> \o <<>> = <<>>
    BY EmptySeq, ConcatEmptySeq
  <2> QED  BY <2>1 DEF Init, WInv, Splits, OneSegment
<1>2. WInv /\ [Next]_vars => WInv'
  <2> SUFFICES ASSUME WInv, [Next]_vars PROVE WInv'
    OBVIOUS
  <2>1. CASE Clear
    <3>1. <<>> \in Seq(Trace) /\ Len(<<>>) = 0 /\ <<>> \o <<>> = <<>>
      BY EmptySeq, ConcatEmptySeq
    <3> QED  BY <2>1, <3>1 DEF Clear, WInv, Splits, OneSegment
  <2>2. ASSUME NEW t \in Trace, AppendTrace(t) PROVE WInv'
    BY <2>2, AppendKeepsWInv
  <2>3. CASE UNCHANGED vars
    BY <2>3 DEF vars, WInv, Splits, OneSegment
  <2> QED  BY <2>1, <2>2, <2>3 DEF Next
<1> QED  BY <1>1, <1>2, PTL DEF Spec

-----------------------------------------------------------------------------
(* Trace window: reading *)

\* All traces: the ones of the segment, or none, and those of the window.
LEMMA AllTracesAppended ==
    ASSUME WInv
    PROVE  AllTraces = appended
<1>1. PICK past \in Seq(Trace) : Splits(past)
  BY DEF WInv
<1> DEFINE parts == [i \in 1..Len(archived) |-> archived[i].traces]
<1>2. FlattenSeq(parts) = past
  <2>1. CASE archived = <<>>
    <3>1. past = <<>>
      BY <1>1, <2>1 DEF OneSegment, Splits
    <3>2. parts = <<>> /\ Len(parts) = 0
      BY <2>1
    <3> HIDE DEF parts
    <3> QED  BY <3>1, <3>2 DEF FlattenSeq
  <2>2. CASE archived # <<>>
    <3>1. PICK seg : archived = <<seg>> /\ seg.traces = past
      BY <1>1, <2>2 DEF OneSegment, Splits
    <3>2. parts = <<past>> /\ Len(parts) = 1 /\ parts[1] = past
      BY <3>1
    <3> HIDE DEF parts
    <3> DEFINE Flattens(f) ==
                   f = [i \in 1..1 |-> IF i = 1 THEN parts[i] ELSE f[i - 1] \o parts[i]]
    <3>3. Flattens([i \in 1..1 |-> parts[i]])
      OBVIOUS
    <3>4. \A f : Flattens(f) => f[1] = parts[1]
      OBVIOUS
    <3>5. FlattenSeq(parts) = (CHOOSE f : Flattens(f))[1]
      BY <3>2 DEF FlattenSeq
    <3> HIDE DEF Flattens
    <3>6. Flattens(CHOOSE f : Flattens(f))
      BY <3>3
    <3> QED  BY <3>2, <3>4, <3>5, <3>6
  <2> QED  BY <2>1, <2>2
<1> QED  BY <1>1, <1>2 DEF AllTraces, Splits

LEMMA FloorDivOne ==
    ASSUME NEW x \in Int
    PROVE  FloorDiv(x, 1) = x
BY DEF FloorDiv

\* A slice of a list with step 1 is a subsequence.
LEMMA StepOneSlice ==
    ASSUME NEW T, NEW s \in Seq(T), NEW start \in Int, NEW stop \in Int,
           NEW lo, lo = Clamp(start, 0, Len(s), Len(s)),
           NEW hi, hi = Clamp(stop, 0, Len(s), Len(s))
    PROVE  PySlice(s, start, stop, 1) = SubSeq(s, lo + 1, hi)
<1>1. Len(s) \in Nat
  BY LenProperties
<1>2. lo \in Nat /\ hi \in Nat
  BY <1>1 DEF Clamp
<1> DEFINE count == -FloorDiv(lo - hi, 1)
<1>3. PySlice(s, start, stop, 1) = [i \in 1..count |-> s[lo + (i - 1) * 1 + 1]]
  BY DEF PySlice
<1>4. count = hi - lo
  <2>1. FloorDiv(lo - hi, 1) = lo - hi
    BY <1>2, FloorDivOne
  <2> QED  BY <1>2, <2>1
<1> HIDE DEF count
<1>5. SubSeq(s, lo + 1, hi) = [i \in 1..(hi - (lo + 1) + 1) |-> s[(lo + 1) + i - 1]]
  BY <1>2
<1>6. hi - (lo + 1) + 1 = hi - lo
  BY <1>2
<1>7. \A i \in 1..(hi - lo) : lo + (i - 1) * 1 + 1 = (lo + 1) + i - 1
  BY <1>2
<1> QED  BY <1>3, <1>4, <1>5, <1>6, <1>7

\* A slice that starts in the window, read off the window alone.
LEMMA SlicesAgree ==
    ASSUME WInv, NEW start \in Int, NEW stop \in Int,
           start <= total_count + 1, stop <= total_count + 1
    PROVE  GetSlice(start, stop, 1) = PySlice(appended, start, stop, 1)
<1>1. PICK past \in Seq(Trace) : Splits(past)
  BY DEF WInv
<1> DEFINE n == Len(appended)
           a == Len(past)
           from == Negative(start)
           upto == Negative(stop)
           end == IF (from - a) + (upto - from) < Len(active)
                  THEN (from - a) + (upto - from) ELSE Len(active)
           lo == Clamp(start, 0, n, n)
           hi == Clamp(stop, 0, n, n)
<1>2. /\ active \in Seq(Trace) /\ Len(active) \in Nat /\ a \in Nat
      /\ n = a + Len(active) /\ n \in Nat /\ total_count = n
      /\ \A i \in 1..Len(active) : appended[a + i] = active[i]
  <2>1. active \in Seq(Trace) /\ Len(active) \in Nat /\ a \in Nat
    BY LenProperties DEF WInv
  <2>2. n = a + Len(active) /\ \A i \in 1..n : appended[i] =
              IF i <= a THEN past[i] ELSE active[i - a]
    BY <1>1, <2>1, ConcatProperties DEF Splits
  <2>3. ASSUME NEW i \in 1..Len(active) PROVE appended[a + i] = active[i]
    <3>1. a + i \in 1..n /\ ~ (a + i <= a) /\ (a + i) - a = i
      BY <2>1, <2>2
    <3> QED  BY <2>2, <3>1
  <2>4. n = a + Len(active) /\ n \in Nat
    BY <2>1, <2>2
  <2>5. total_count = n
    BY DEF WInv
  <2> HIDE DEF n, a
  <2> QED  BY <2>1, <2>3, <2>4, <2>5
<1>3. ActiveStart = a
  BY <1>2 DEF ActiveStart
<1>4. /\ from \in Nat /\ upto \in Nat /\ lo \in 0..n /\ hi \in 0..n
      /\ from <= n => lo = from
      /\ from > n => lo = n
      /\ upto <= n => hi = upto
      /\ upto > n => hi = n
  <2> HIDE DEF n, a
  <2> QED  BY <1>2 DEF Negative, Clamp
<1>5. GetSlice(start, stop, 1) = IF from >= a THEN SubSeq(active, from - a + 1, end)
                                 ELSE PySlice(AllTraces, start, stop, 1)
  <2>1. FloorDiv(upto - from, 1) = upto - from
    <3>1. from \in Int /\ upto \in Int
      BY <1>4
    <3> HIDE DEF from, upto
    <3> QED  BY <3>1, FloorDivOne
  <2> QED  BY <1>3, <2>1 DEF GetSlice
<1>6. PySlice(appended, start, stop, 1) = SubSeq(appended, lo + 1, hi)
  <2>1. appended \in Seq(Trace)
    BY <1>1, ConcatProperties DEF WInv, Splits
  <2> QED  BY <2>1, StepOneSlice
<1> HIDE DEF n, from, upto, lo, hi, a
<1>7. CASE from < a
  <2>1. ~ (from >= a)
    BY <1>2, <1>4, <1>7
  <2> QED  BY <1>5, <2>1, AllTracesAppended
<1>8. CASE from > n
  <2>1. from >= a /\ from - a + 1 \in Int /\ end \in Int /\ end < from - a + 1
    BY <1>2, <1>4, <1>8
  <2>2. lo + 1 \in Int /\ hi \in Int /\ hi < lo + 1
    BY <1>2, <1>4, <1>8
  <2>3. SubSeq(active, from - a + 1, end) = <<>>
    BY <2>1, SubSeqEmpty
  <2>4. SubSeq(appended, lo + 1, hi) = <<>>
    BY <2>2, SubSeqEmpty
  <2> QED  BY <1>5, <1>6, <2>1, <2>3, <2>4
<1>9. CASE from >= a /\ from <= n
  <2>1. /\ lo = from /\ end = hi - a /\ from - a + 1 \in Int /\ lo + 1 \in Int
        /\ hi \in Int /\ end \in Int
    BY <1>2, <1>4, <1>9
  <2> HIDE DEF end
  <2> DEFINE A == SubSeq(active, from - a + 1, end)
             B == SubSeq(appended, lo + 1, hi)
  <2>2. \A i \in (from - a + 1)..end : active[i] \in Trace
    <3>1. ASSUME NEW i \in (from - a + 1)..end PROVE i \in 1..Len(active)
      BY <1>2, <1>4, <1>9, <2>1
    <3> QED  BY <1>2, <3>1, ElementOfSeq
  <2>3. /\ A \in Seq(Trace)
        /\ Len(A) = IF from - a + 1 <= end THEN end - (from - a + 1) + 1 ELSE 0
        /\ \A i \in 1..(end - (from - a + 1) + 1) : A[i] = active[(from - a + 1) + i - 1]
    BY <2>1, <2>2, SubSeqProperties
  <2>4. \A i \in (lo + 1)..hi : appended[i] \in Trace
    <3>1. ASSUME NEW i \in (lo + 1)..hi
          PROVE  i - a \in 1..Len(active) /\ appended[i] = active[i - a]
      <4>1. i - a \in 1..Len(active) /\ a + (i - a) = i
        BY <1>2, <1>4, <1>9, <2>1
      <4> QED  BY <1>2, <4>1
    <3> QED  BY <1>2, <3>1, ElementOfSeq
  <2>5. /\ B \in Seq(Trace)
        /\ Len(B) = IF lo + 1 <= hi THEN hi - (lo + 1) + 1 ELSE 0
        /\ \A i \in 1..(hi - (lo + 1) + 1) : B[i] = appended[(lo + 1) + i - 1]
    BY <2>1, <2>4, SubSeqProperties
  <2> HIDE DEF A, B
  <2>6. Len(A) = Len(B)
    BY <1>2, <1>4, <2>1, <2>3, <2>5
  <2>7. ASSUME NEW i \in 1..Len(A) PROVE A[i] = B[i]
    <3>1. /\ i \in Int
          /\ i \in 1..(end - (from - a + 1) + 1) /\ i \in 1..(hi - (lo + 1) + 1)
      BY <1>2, <1>4, <2>1, <2>3
    <3> DEFINE k == from - a + i
    <3>2. /\ k = (from - a + 1) + i - 1 /\ a + k = (lo + 1) + i - 1
          /\ k \in 1..Len(active)
      BY <1>2, <1>4, <1>9, <2>1, <3>1
    <3> HIDE DEF k
    <3>3. A[i] = active[k]
      BY <2>3, <3>1, <3>2
    <3>4. B[i] = appended[a + k]
      BY <2>5, <3>1, <3>2
    <3> QED  BY <1>2, <3>2, <3>3, <3>4
  <2>8. A = B
    BY <2>3, <2>5, <2>6, <2>7, SeqEqual
  <2> QED  BY <1>5, <1>6, <1>9, <2>8 DEF A, B
<1> QED  BY <1>2, <1>4, <1>7, <1>8, <1>9

LEMMA IndicesAgree ==
    ASSUME WInv, NEW key \in Int
    PROVE  GetIndex(key) = PyIndex(appended,
                                   IF key < -total_count THEN total_count + key ELSE key)
<1>1. PICK past \in Seq(Trace) : Splits(past)
  BY DEF WInv
<1> DEFINE n == Len(appended)
           a == Len(past)
           k == IF key < 0 THEN total_count + key ELSE key
<1>2. /\ active \in Seq(Trace) /\ Len(active) \in Nat /\ a \in Nat
      /\ n = a + Len(active) /\ n \in Nat /\ total_count = n
      /\ \A i \in 1..n : appended[i] = IF i <= a THEN past[i] ELSE active[i - a]
  <2>1. active \in Seq(Trace) /\ Len(active) \in Nat /\ a \in Nat
    BY LenProperties DEF WInv
  <2>2. n = a + Len(active) /\ \A i \in 1..n : appended[i] =
              IF i <= a THEN past[i] ELSE active[i - a]
    BY <1>1, <2>1, ConcatProperties DEF Splits
  <2> QED  BY <2>1, <2>2 DEF WInv
<1>3. GetIndex(key) = IF k < a THEN PyIndex(appended, k) ELSE PyIndex(active, k - a)
  BY <1>1, AllTracesAppended DEF GetIndex, Splits
<1> DEFINE wrapped == IF key < -total_count THEN total_count + key ELSE key
<1>4. k \in Int /\ wrapped \in Int
  <2> HIDE DEF n, a
  <2> QED  BY <1>2
\* The list reads an index and its count from the end alike.
<1>5. PyIndex(appended, wrapped) = PyIndex(appended, k)
  <2>1. CASE key < -total_count \/ key >= 0
    <3>1. wrapped = k
      <4> HIDE DEF n, a
      <4> QED  BY <1>2, <2>1
    <3> QED  BY <3>1
  <2>2. CASE ~ (key < -total_count) /\ key < 0
    <3>1. wrapped = key /\ k = n + key /\ -n <= key /\ key < 0
      <4> HIDE DEF n, a
      <4> QED  BY <1>2, <2>2
    <3>2. /\ ~ (key < -n) /\ ~ (key >= n) /\ key < 0
          /\ ~ (n + key < -n) /\ ~ (n + key >= n) /\ ~ (n + key < 0)
      <4> HIDE DEF n, a, k, wrapped
      <4> QED  BY <1>2, <3>1
    <3> HIDE DEF k, wrapped
    <3>3. PyIndex(appended, key) = appended[n + key + 1]
      BY <3>2 DEF PyIndex
    <3>4. PyIndex(appended, n + key) = appended[n + key + 1]
      BY <3>2 DEF PyIndex
    <3> QED  BY <3>1, <3>3, <3>4
  <2> QED  BY <1>2, <2>1, <2>2
<1> HIDE DEF k, wrapped, a
<1>6. ASSUME ~ (k < a) PROVE PyIndex(active, k - a) = PyIndex(appended, k)
  <2>1. CASE k >= n
    <3>1. k - a >= Len(active)
      BY <1>2, <1>4, <2>1
    <3> QED  BY <2>1, <3>1 DEF PyIndex
  <2>2. CASE ~ (k >= n)
    <3>1. /\ ~ (k - a >= Len(active)) /\ ~ (k - a < -Len(active)) /\ ~ (k - a < 0)
          /\ ~ (k < -n) /\ ~ (k < 0)
          /\ k + 1 \in 1..n /\ ~ (k + 1 <= a) /\ (k + 1) - a = k - a + 1
      <4> HIDE DEF n
      <4> QED  BY <1>2, <1>4, <1>6, <2>2
    <3>2. appended[k + 1] = active[k - a + 1]
      BY <1>2, <3>1
    <3>3. PyIndex(active, k - a) = active[k - a + 1]
      BY <3>1 DEF PyIndex
    <3>4. PyIndex(appended, k) = appended[k + 1]
      BY <2>2, <3>1 DEF PyIndex
    <3> QED  BY <3>2, <3>3, <3>4
  <2> QED  BY <2>1, <2>2
<1> QED  BY <1>3, <1>5, <1>6 DEF wrapped

\* OBS-BOUND-001: whatever the limits, the window reads as the list of all the
\* traces appended since it was made or cleared: whole, by index, and by slices
\* of stride 1 or of any stride from before the hot window.  The two departures of
\* the code from a list are stated with the property.
THEOREM ReadsLikeAList == Spec => []ReadsAsList
<1>1. WInv => ReadsAsList
  <2> SUFFICES ASSUME WInv PROVE ReadsAsList
    OBVIOUS
  <2>1. AllTraces = appended /\ total_count = Len(appended)
    BY AllTracesAppended DEF WInv
  <2>2. total_count \in Int
    <3>1. PICK past \in Seq(Trace) : Splits(past)
      BY DEF WInv
    <3>2. appended \in Seq(Trace)
      BY <3>1, ConcatProperties DEF WInv, Splits
    <3> QED  BY <2>1, <3>2, LenProperties
  <2>3. ASSUME NEW start \in -(total_count + 1)..(total_count + 1),
               NEW stop \in -(total_count + 1)..(total_count + 1),
               NEW stride \in -(total_count + 1)..(total_count + 1),
               stride = 1 \/ (stride # 0 /\ Negative(start) < ActiveStart)
        PROVE  GetSlice(start, stop, stride) = PySlice(appended, start, stop, stride)
    <3>1. /\ start \in Int /\ stop \in Int
          /\ start <= total_count + 1 /\ stop <= total_count + 1
      BY <2>2
    <3>2. CASE stride = 1
      BY <3>1, <3>2, SlicesAgree
    <3>3. CASE Negative(start) < ActiveStart
      <4>1. Len(active) \in Int
        BY LenProperties DEF WInv
      <4>2. ~ (Negative(start) >= ActiveStart)
        BY <2>2, <3>1, <3>3, <4>1 DEF Negative, ActiveStart
      <4> QED  BY <2>1, <4>2 DEF GetSlice
    <3> QED  BY <2>3, <3>2, <3>3
  <2>4. ASSUME NEW k \in -(2 * total_count + 1)..(2 * total_count + 1)
        PROVE  GetIndex(k) = PyIndex(appended,
                                     IF k < -total_count THEN total_count + k ELSE k)
    <3>1. k \in Int
      BY <2>2
    <3> QED  BY <3>1, IndicesAgree
  <2> QED  BY <2>1, <2>3, <2>4 DEF ReadsAsList
<1> QED  BY <1>1, WindowInvariance, PTL

-----------------------------------------------------------------------------
(* Kernel: tasks and agents *)

Task == [agent : Agent, status : {"running", "completed", "failed"}]

AgentsTyped ==
    /\ tasks \in Seq(Task)
    /\ agents \in [Agent -> [status : {"IDLE", "ACTIVATED", "COMPLETED"}, task : Nat]]

\* Nothing makes an agent IDLE again, so an agent is given one task for ever.
OneTaskEach ==
    /\ \A i, j \in 1..Len(tasks) : tasks[i].agent = tasks[j].agent => i = j
    /\ \A i \in 1..Len(tasks) : agents[tasks[i].agent].status # "IDLE"

KInv == AgentsTyped /\ OneTaskEach /\ TaskHoldsAgent

\* A finite set has a sequence of its elements in which none is twice.
LEMMA SetAsSequence ==
    ASSUME NEW S, IsFiniteSet(S)
    PROVE  SetToSeq(S) \in Seq(S) /\ IsInjective(SetToSeq(S))
<1>1. Cardinality(S) \in Nat /\ ExistsBijection(1..Cardinality(S), S)
  BY FS_CardinalityType
<1>2. PICK b : b \in Bijection(1..Cardinality(S), S)
  BY <1>1 DEF ExistsBijection
<1>3. b \in [1..Cardinality(S) -> S] /\ IsInjective(b)
  BY <1>2 DEF Bijection, Injection
<1>4. SetToSeq(S) \in [1..Cardinality(S) -> S] /\ IsInjective(SetToSeq(S))
  BY <1>3, Zenon DEF SetToSeq
<1> QED  BY <1>1, <1>4

\* Dispatching to idle agents, to none of them twice.
LEMMA DispatchKeeps ==
    ASSUME KInv, NEW names \in Seq(Available), IsInjective(names), Dispatch(names)
    PROVE  KInv'
<1> DEFINE n == Len(names)
           k == Len(tasks)
           new == [i \in 1..n |-> [agent |-> names[i], status |-> "running"]]
<1>1. n \in Nat /\ k \in Nat /\ DOMAIN names = 1..n /\ tasks \in Seq(Task)
  BY LenProperties DEF KInv, AgentsTyped
<1>2. \A i \in 1..n : names[i] \in Available
  BY ElementOfSeq
<1>3. \A i \in 1..n : names[i] \in Agent /\ agents[names[i]].status = "IDLE"
  BY <1>2 DEF Available
<1>4. \A i, j \in 1..n : names[i] = names[j] => i = j
  BY <1>1 DEF IsInjective
<1>5. new \in Seq(Task) /\ Len(new) = n
  BY <1>1, <1>3 DEF Task
<1>6. tasks' = tasks \o new
  BY <1>1 DEF Dispatch
<1>7. tasks' \in Seq(Task) /\ Len(tasks') = k + n
  BY <1>1, <1>5, <1>6, ConcatProperties
<1>8. ASSUME NEW i \in 1..k PROVE tasks'[i] = tasks[i]
  BY <1>1, <1>5, <1>6, ConcatProperties
<1>9. ASSUME NEW i \in (k + 1)..(k + n)
      PROVE  i - k \in 1..n /\ tasks'[i].agent = names[i - k]
  <2>1. i - k \in 1..n
    BY <1>1
  <2>2. tasks'[i] = new[i - k]
    BY <1>1, <1>5, <1>6, ConcatProperties
  <2> QED  BY <2>1, <2>2
<1>10. ToSet(names) = {names[i] : i \in 1..n}
  BY <1>1 DEF ToSet
<1>11. ASSUME NEW i \in 1..n
       PROVE  agents'[names[i]] = [status |-> "ACTIVATED", task |-> k + i]
  <2>1. names[i] \in Agent /\ names[i] \in ToSet(names)
    BY <1>3, <1>10
  <2>2. agents'[names[i]] =
          [status |-> "ACTIVATED",
           task |-> k + CHOOSE j \in 1..n : names[j] = names[i]]
    BY <2>1, <1>1 DEF Dispatch
  <2> DEFINE c == CHOOSE j \in 1..n : names[j] = names[i]
  <2>3. c \in 1..n /\ names[c] = names[i]
    BY Zenon
  <2>4. c = i
    BY <2>3, <1>4, Zenon
  <2> QED  BY <2>2, <2>4
<1>12. ASSUME NEW a \in Agent, a \notin ToSet(names) PROVE agents'[a] = agents[a]
  BY <1>12 DEF Dispatch
<1>13. DOMAIN agents' = Agent /\ agents' = [a \in Agent |-> agents'[a]]
  BY DEF Dispatch
<1>14. ASSUME NEW a \in Agent
       PROVE  agents'[a] \in [status : {"IDLE", "ACTIVATED", "COMPLETED"}, task : Nat]
  <2>1. CASE a \in ToSet(names)
    <3>1. PICK i \in 1..n : a = names[i]
      BY <2>1, <1>10
    <3>2. k + i \in Nat
      BY <1>1
    <3>3. agents'[names[i]] = [status |-> "ACTIVATED", task |-> k + i]
      BY <1>11
    <3> HIDE DEF k
    <3> QED  BY <3>1, <3>2, <3>3
  <2>2. CASE a \notin ToSet(names)
    BY <2>2, <1>12 DEF KInv, AgentsTyped
  <2> QED  BY <2>1, <2>2
<1>15. AgentsTyped'
  BY <1>7, <1>13, <1>14 DEF AgentsTyped
<1>16. \A i \in 1..k : tasks[i].agent \in Agent /\ tasks[i].agent \notin ToSet(names)
  <2> SUFFICES ASSUME NEW i \in 1..k
               PROVE  tasks[i].agent \in Agent /\ tasks[i].agent \notin ToSet(names)
    OBVIOUS
  <2>1. tasks[i] \in Task
    BY <1>1, ElementOfSeq
  <2>2. agents[tasks[i].agent].status # "IDLE"
    BY DEF KInv, OneTaskEach
  <2> QED  BY <2>1, <2>2, <1>3, <1>10 DEF Task
<1>17. \A i \in 1..(k + n) : i \in 1..k \/ i \in (k + 1)..(k + n)
  BY <1>1
<1>18. ASSUME NEW i \in 1..(k + n), NEW j \in 1..(k + n), tasks'[i].agent = tasks'[j].agent
       PROVE  i = j
  <2>1. CASE i \in 1..k /\ j \in 1..k
    BY <2>1, <1>8, <1>18 DEF KInv, OneTaskEach
  <2>2. CASE i \in (k + 1)..(k + n) /\ j \in (k + 1)..(k + n)
    <3>1. names[i - k] = names[j - k] /\ i - k \in 1..n /\ j - k \in 1..n
      BY <2>2, <1>9, <1>18
    <3>2. i - k = j - k
      BY <3>1, <1>4
    <3> QED  BY <3>2, <1>1
  <2>3. CASE i \in 1..k /\ j \in (k + 1)..(k + n)
    <3>1. tasks[i].agent = names[j - k] /\ j - k \in 1..n
      BY <2>3, <1>8, <1>9, <1>18
    <3> QED  BY <3>1, <1>10, <1>16, <2>3
  <2>4. CASE i \in (k + 1)..(k + n) /\ j \in 1..k
    <3>1. tasks[j].agent = names[i - k] /\ i - k \in 1..n
      BY <2>4, <1>8, <1>9, <1>18
    <3> QED  BY <3>1, <1>10, <1>16, <2>4
  <2> QED  BY <2>1, <2>2, <2>3, <2>4, <1>17
<1>19. ASSUME NEW i \in 1..(k + n) PROVE agents'[tasks'[i].agent].status # "IDLE"
  <2>1. CASE i \in 1..k
    BY <2>1, <1>8, <1>12, <1>16 DEF KInv, OneTaskEach
  <2>2. CASE i \in (k + 1)..(k + n)
    <3>1. tasks'[i].agent = names[i - k] /\ i - k \in 1..n
      BY <2>2, <1>9
    <3>2. agents'[names[i - k]] = [status |-> "ACTIVATED", task |-> k + (i - k)]
      BY <3>1, <1>11
    <3> QED  BY <3>1, <3>2
  <2> QED  BY <2>1, <2>2, <1>17
<1>20. OneTaskEach'
  BY <1>7, <1>18, <1>19 DEF OneTaskEach
<1>21. ASSUME NEW i \in 1..(k + n), tasks'[i].status = "running"
       PROVE  agents'[tasks'[i].agent] = [status |-> "ACTIVATED", task |-> i]
  <2>1. CASE i \in 1..k
    BY <2>1, <1>1, <1>8, <1>12, <1>16, <1>21 DEF KInv, TaskHoldsAgent
  <2>2. CASE i \in (k + 1)..(k + n)
    <3>1. k + (i - k) = i
      BY <1>1
    <3>2. tasks'[i].agent = names[i - k] /\ i - k \in 1..n
      BY <2>2, <1>9
    <3>3. agents'[names[i - k]] = [status |-> "ACTIVATED", task |-> k + (i - k)]
      BY <3>2, <1>11
    <3> QED  BY <3>1, <3>2, <3>3
  <2> QED  BY <2>1, <2>2, <1>17
<1>22. DOMAIN tasks' = 1..(k + n)
  BY <1>7
<1>23. TaskHoldsAgent'
  BY <1>21, <1>22 DEF TaskHoldsAgent
<1> QED  BY <1>15, <1>20, <1>23 DEF KInv

\* The end of a task, whichever, disturbs the agent of no other one.
LEMMA TaskEndKeeps ==
    ASSUME KInv, NEW i \in DOMAIN tasks, CompleteTask(i) \/ FailTask(i)
    PROVE  KInv'
<1> DEFINE k == Len(tasks)
<1>1. k \in Nat /\ DOMAIN tasks = 1..k /\ tasks \in Seq(Task) /\ i \in 1..k
  BY LenProperties DEF KInv, AgentsTyped
<1>2. \A j \in 1..k : tasks[j] \in Task
  BY <1>1, ElementOfSeq
<1>3. PICK s \in {"completed", "failed"} : tasks' = [tasks EXCEPT ![i].status = s]
  BY DEF CompleteTask, FailTask
<1>4. tasks' = [tasks EXCEPT ![i] = [tasks[i] EXCEPT !.status = s]]
  BY <1>1, <1>3
<1>5. [tasks[i] EXCEPT !.status = s] \in Task
  BY <1>1, <1>2 DEF Task
<1>6. tasks' \in Seq(Task) /\ Len(tasks') = k /\ DOMAIN tasks' = 1..k
  BY <1>1, <1>4, <1>5, ExceptSeq
<1>7. \A j \in 1..k : tasks'[j].agent = tasks[j].agent /\ (j # i => tasks'[j] = tasks[j])
  BY <1>1, <1>2, <1>4 DEF Task
<1>8. tasks'[i].status = s
  BY <1>1, <1>2, <1>4 DEF Task
<1>9. \A j \in 1..k : tasks[j].agent \in Agent
  BY <1>2 DEF Task
<1>10. /\ agents' \in [Agent -> [status : {"IDLE", "ACTIVATED", "COMPLETED"}, task : Nat]]
       /\ agents'[tasks[i].agent].status # "IDLE"
       /\ \A a \in Agent : a # tasks[i].agent => agents'[a] = agents[a]
  <2>1. CASE CompleteTask(i)
    BY <2>1, <1>1, <1>9 DEF CompleteTask, KInv, AgentsTyped
  <2>2. CASE FailTask(i)
    BY <2>2, <1>1, <1>9 DEF FailTask, KInv, AgentsTyped, OneTaskEach
  <2> QED  BY <2>1, <2>2
<1>11. AgentsTyped'
  BY <1>6, <1>10 DEF AgentsTyped
<1>12. \A j, l \in 1..k : tasks[j].agent = tasks[l].agent => j = l
  BY DEF KInv, OneTaskEach
<1>13. ASSUME NEW j \in 1..k PROVE agents'[tasks'[j].agent].status # "IDLE"
  BY <1>7, <1>9, <1>10, <1>12, <1>1 DEF KInv, OneTaskEach
<1>14. OneTaskEach'
  BY <1>6, <1>7, <1>12, <1>13 DEF OneTaskEach
<1>15. ASSUME NEW j \in 1..k, tasks'[j].status = "running"
       PROVE  agents'[tasks'[j].agent] = [status |-> "ACTIVATED", task |-> j]
  <2>1. j # i
    BY <1>8, <1>15
  <2>2. tasks'[j] = tasks[j] /\ tasks[j].agent # tasks[i].agent
    BY <2>1, <1>1, <1>7, <1>12
  <2> QED  BY <2>2, <1>1, <1>9, <1>10, <1>15 DEF KInv, TaskHoldsAgent
<1>16. TaskHoldsAgent'
  BY <1>6, <1>15 DEF TaskHoldsAgent
<1> QED  BY <1>11, <1>14, <1>16 DEF KInv

\* An event on the bus changes the agents by a dispatch or not at all.
LEMMA HandleKeeps ==
    ASSUME KInv, NEW event, Handle(event)
    PROVE  KInv'
<1>1. ASSUME UNCHANGED <<tasks, agents>> PROVE KInv'
  BY <1>1 DEF KInv, AgentsTyped, OneTaskEach, TaskHoldsAgent
<1>2. CASE HandlePlan(event)
  <2>1. Available \in SUBSET Agent /\ IsFiniteSet(Agent)
    BY AgentAssumption DEF Available, Agent
  <2>2. IsFiniteSet(Available)
    BY <2>1, FS_Subset
  <2> QED  BY <1>2, <2>2, SetAsSequence, DispatchKeeps DEF HandlePlan, ProcessGraph
<1>3. CASE HandleDispatch(event)
  <2>1. ProcessEvent(event.detail)
    BY <1>3 DEF HandleDispatch
  <2>2. ASSUME NEW a \in Route(event.detail), Dispatch(<<a>>) PROVE KInv'
    <3>1. <<a>> \in Seq(Available) /\ IsInjective(<<a>>)
      BY <2>2 DEF Route, IsInjective
    <3> QED  BY <3>1, <2>2, DispatchKeeps
  <2> QED  BY <2>1, <2>2, <1>1 DEF ProcessEvent
<1>4. HandlePlan(event) \/ HandleDispatch(event) \/ UNCHANGED <<tasks, agents>>
  BY DEF Handle, HandleBlocked, HandleRefusedPlan, HandleTransition,
         HandleObservation, HandleSystemEvent, HandleOther, layers
<1> QED  BY <1>1, <1>2, <1>3, <1>4

\* An agent is given one task in its life, and the one that is still running is
\* the one it is activated on.
THEOREM AgentInvariance == KSpec => []KInv
<1>1. KInit => KInv
  BY DEF KInit, KInv, AgentsTyped, OneTaskEach, TaskHoldsAgent, IdleAgent
<1>2. KInv /\ [KNext]_kvars => KInv'
  <2> SUFFICES ASSUME KInv, [KNext]_kvars PROVE KInv'
    OBVIOUS
  <2>1. ASSUME UNCHANGED <<tasks, agents>> PROVE KInv'
    BY <2>1 DEF KInv, AgentsTyped, OneTaskEach, TaskHoldsAgent
  <2>2. CASE BuildPlan \/ Start \/ Stop \/ Submit \/ Linger \/ UNCHANGED kvars
    BY <2>1, <2>2 DEF BuildPlan, Start, Stop, Submit, Linger, kvars, layers
  <2>3. CASE Tick
    BY <2>3, HandleKeeps DEF Tick
  <2>4. CASE \E i \in DOMAIN tasks : CompleteTask(i) \/ FailTask(i)
    BY <2>4, TaskEndKeeps
  <2> QED  BY <2>2, <2>3, <2>4 DEF KNext
<1> QED  BY <1>1, <1>2, PTL DEF KSpec

\* No sequence of dispatches, completions and failures takes the agent from a
\* task that is running or gives it to another one.
THEOREM RunningTaskHoldsAgent == KSpec => []TaskHoldsAgent
<1>1. KInv => TaskHoldsAgent
  BY DEF KInv
<1> QED  BY <1>1, AgentInvariance, PTL

-----------------------------------------------------------------------------
(* Kernel: the state machine *)

AContext == [state : RuntimeState, expired : BOOLEAN]

AnEvent == [category : Categories, priority : Priorities \cup {"MEDIUM", "LOW"},
            lawful : BOOLEAN,
            detail : RuntimeState \cup {""} \cup UNION {Capability[a] : a \in Agent}]

KTyped == state \in RuntimeState /\ expired \in BOOLEAN /\ bus \in Seq(AnEvent)

States == {"IDLE", "PLANNING", "EXECUTING", "VERIFYING", "RECOVERING", "FAILED", "COMPLETED"}

LEMMA RuntimeStates == RuntimeState = States
  BY DEF RuntimeState, TransitionMatrix, States

LEMMA TransitionTyped ==
    ASSUME NEW c \in AContext, NEW target
    PROVE  Transition(c, target) \in AContext
<1>1. \A s \in States : TransitionMatrix[s] \subseteq States
  BY DEF TransitionMatrix, States
<1>2. c.state \in States
  BY RuntimeStates DEF AContext
<1>3. target \in TransitionMatrix[c.state] => target \in RuntimeState
  BY <1>1, <1>2, RuntimeStates
<1> QED  BY <1>3 DEF Transition, AContext

\* The function by which Through is defined.
Chains(c, targets) ==
    c = [i \in 0..Len(targets) |->
            IF i = 0 THEN Context ELSE Transition(c[i - 1], targets[i])]

LEMMA ThroughIs ==
    ASSUME Context \in AContext, NEW S, NEW targets \in Seq(S)
    PROVE  \E c \in [0..Len(targets) -> AContext] :
              /\ Through(targets) = c[Len(targets)]
              /\ c[0] = Context
              /\ \A i \in 1..Len(targets) : c[i] = Transition(c[i - 1], targets[i])
<1> DEFINE n == Len(targets)
           fs == [i \in 1..n |-> [x \in AContext |-> Transition(x, targets[i])]]
<1>1. n \in Nat
  BY LenProperties
<1>2. fs \in [1..n -> [AContext -> AContext]]
  BY TransitionTyped
<1>3. PICK f \in [0..n -> AContext] : Recurses(f, Context, fs, n)
  <2> HIDE DEF fs, n
  <2> QED  BY <1>1, <1>2, RecursionExists
<1>4. ASSUME NEW i \in 1..n PROVE f[i] = Transition(f[i - 1], targets[i])
  <2>1. i - 1 \in 0..n
    BY <1>1
  <2>2. f[i - 1] \in AContext
    BY <2>1, <1>3
  <2>3. f[i] = fs[i][f[i - 1]]
    BY <1>3 DEF Recurses
  <2> QED  BY <2>2, <2>3
<1>5. ASSUME NEW i \in 0..n
      PROVE  f[i] = IF i = 0 THEN Context ELSE Transition(f[i - 1], targets[i])
  <2>1. i # 0 => i \in 1..n
    BY <1>1
  <2> QED  BY <2>1, <1>3, <1>4 DEF Recurses
<1>6. f = [i \in 0..n |-> IF i = 0 THEN Context ELSE Transition(f[i - 1], targets[i])]
  <2>1. f = [i \in 0..n |-> f[i]]
    BY <1>3
  <2> HIDE DEF n
  <2> QED  BY <1>5, <2>1
<1>7. Chains(f, targets)
  BY <1>6 DEF Chains
<1> DEFINE c == CHOOSE g : Chains(g, targets)
<1>8. Chains(c, targets)
  BY <1>7, Zenon
<1>9. Through(targets) = c[n]
  BY DEF Through, Chains
<1> HIDE DEF c
<1>10. c = [i \in 0..n |-> IF i = 0 THEN Context ELSE Transition(c[i - 1], targets[i])]
  BY <1>8 DEF Chains
<1>11. c[0] = Context
  BY <1>1, <1>10
<1>12. ASSUME NEW i \in 1..n PROVE c[i] = Transition(c[i - 1], targets[i])
  <2>1. i \in 0..n /\ i # 0
    BY <1>1
  <2> HIDE DEF n
  <2> QED  BY <1>10, <2>1
<1>13. c \in [0..n -> AContext]
  <2> DEFINE Bad == {k \in 0..n : c[k] \notin AContext}
  <2>1. ASSUME Bad # {} PROVE FALSE
    <3>1. PICK m \in Bad : \A k \in Bad : m <= k
      <4>1. Bad \subseteq Nat
        BY <1>1
      <4> QED  BY <2>1, <4>1, LeastNat
    <3>2. m \in 0..n /\ m # 0
      BY <1>11
    <3>3. m \in 1..n /\ m - 1 \in 0..n /\ ~ (m <= m - 1)
      BY <3>2, <1>1
    <3>4. m - 1 \notin Bad
      <4> HIDE DEF Bad
      <4> QED  BY <3>1, <3>3
    <3>5. c[m - 1] \in AContext
      BY <3>3, <3>4
    <3>6. c[m] \in AContext
      BY <3>3, <3>5, <1>12, TransitionTyped
    <3> QED  BY <3>6
  <2>2. \A k \in 0..n : c[k] \in AContext
    BY <2>1
  <2> HIDE DEF n
  <2> QED  BY <2>2, <1>10
<1> QED  BY <1>9, <1>11, <1>12, <1>13


LEMMA PublishTyped ==
    ASSUME KTyped, NEW event \in AnEvent, Publish(event)
    PROVE  bus' \in Seq(AnEvent) /\ Len(bus') = Len(bus) + 1
<1>1. bus \in Seq(AnEvent) /\ bus' = Append(bus, event)
  BY DEF KTyped, Publish
<1> QED  BY <1>1, AppendProperties

\* What handling an event leaves of the state machine.
LEMMA HandleTyped ==
    ASSUME KTyped, NEW event, Handle(event)
    PROVE  state' \in RuntimeState /\ expired' \in BOOLEAN
<1>1. Context \in AContext
  BY DEF KTyped, Context, AContext
<1>2. ASSUME NEW c \in AContext, MoveTo(c) PROVE state' \in RuntimeState /\ expired' \in BOOLEAN
  BY <1>2 DEF MoveTo, AContext
<1>3. ASSUME NEW targets \in Seq(States) PROVE Through(targets) \in AContext
  <2>1. Len(targets) \in 0..Len(targets)
    BY LenProperties
  <2> QED  BY <2>1, <1>1, ThroughIs
<1>4. CASE HandleRefusedPlan(event)
  <2>1. <<"PLANNING", "FAILED">> \in Seq(States)
    BY DEF States
  <2> QED  BY <1>2, <1>3, <1>4, <2>1 DEF HandleRefusedPlan
<1>5. CASE HandlePlan(event)
  <2>1. <<"PLANNING", "EXECUTING", "VERIFYING", "COMPLETED">> \in Seq(States)
    BY DEF States
  <2> QED  BY <1>2, <1>3, <1>5, <2>1 DEF HandlePlan
<1>6. CASE HandleTransition(event)
  <2> DEFINE c == IF event.detail \in RuntimeState
                  THEN Transition(Context, event.detail) ELSE Context
  <2>1. c \in AContext
    BY <1>1, TransitionTyped
  <2>2. MoveTo(c)
    BY <1>6 DEF HandleTransition
  <2> HIDE DEF c
  <2> QED  BY <1>2, <2>1, <2>2
<1>7. CASE UNCHANGED <<state, expired>>
  BY <1>7 DEF KTyped
<1>8. \/ HandleRefusedPlan(event) \/ HandlePlan(event) \/ HandleTransition(event)
      \/ UNCHANGED <<state, expired>>
  BY DEF Handle, HandleBlocked, HandleDispatch, HandleObservation, HandleSystemEvent, HandleOther
<1> QED  BY <1>4, <1>5, <1>6, <1>7, <1>8

\* The state machine is always in one of its states, and the bus holds events.
THEOREM KernelTypes == KSpec => []KTyped
<1>1. KInit => KTyped
  <2>1. "IDLE" \in RuntimeState
    BY RuntimeStates DEF States
  <2>2. <<>> \in Seq(AnEvent)
    BY EmptySeq
  <2> QED  BY <2>1, <2>2 DEF KInit, KTyped
<1>2. KTyped /\ [KNext]_kvars => KTyped'
  <2> SUFFICES ASSUME KTyped, [KNext]_kvars PROVE KTyped'
    OBVIOUS
  <2>1. ASSUME UNCHANGED <<state, expired>>, NEW event \in AnEvent, Publish(event) PROVE KTyped'
    BY <2>1, PublishTyped DEF KTyped
  <2>2. BootEvent \in AnEvent /\ Unlawful \in AnEvent
    BY DEF BootEvent, Unlawful, Event, AnEvent, Categories
  <2>3. CASE Start \/ Stop
    BY <2>1, <2>2, <2>3 DEF Start, Stop
  <2>4. CASE Submit
    <3>1. ASSUME NEW c \in Categories, NEW p \in Priorities, NEW d \in Details(c)
          PROVE  Event(c, p, TRUE, d) \in AnEvent
      <4>1. d \in RuntimeState \cup {""} \cup UNION {Capability[a] : a \in Agent}
        BY DEF Details
      <4> QED  BY <4>1 DEF Event, AnEvent
    <3>2. CASE Publish(Unlawful)
      BY <2>1, <2>2, <2>4, <3>2 DEF Submit
    <3>3. CASE \E c \in Categories, p \in Priorities :
                  \E d \in Details(c) : Publish(Event(c, p, TRUE, d))
      BY <2>1, <2>4, <3>1, <3>3 DEF Submit
    <3> QED  BY <2>4, <3>2, <3>3 DEF Submit
  <2>5. CASE Tick
    <3>1. bus' \in Seq(AnEvent)
      BY <2>5, HeadTailProperties DEF Tick, KTyped
    <3> QED  BY <2>5, <3>1, HandleTyped DEF Tick, KTyped
  <2>6. CASE Linger
    BY <2>6 DEF Linger, KTyped, engine
  <2>7. CASE \/ BuildPlan \/ UNCHANGED kvars
             \/ \E i \in DOMAIN tasks : CompleteTask(i) \/ FailTask(i)
    BY <2>7 DEF BuildPlan, CompleteTask, FailTask, KTyped, kvars, engine
  <2> QED  BY <2>3, <2>4, <2>5, <2>6, <2>7 DEF KNext
<1> QED  BY <1>1, <1>2, PTL DEF KSpec

\* c may be anywhere on the way of a plan from state `from' to state `to'.
Moves(from, target, to) ==
    \A c \in AContext : c.state = from /\ ~c.expired
        => Transition(c, target).state = to /\ ~Transition(c, target).expired

\* Each transition of a plan, from each state.
LEMMA PlanMoves ==
    /\ Moves("IDLE", "PLANNING", "PLANNING") /\ Moves("PLANNING", "PLANNING", "PLANNING")
    /\ Moves("EXECUTING", "PLANNING", "EXECUTING") /\ Moves("VERIFYING", "PLANNING", "VERIFYING")
    /\ Moves("RECOVERING", "PLANNING", "PLANNING") /\ Moves("COMPLETED", "PLANNING", "COMPLETED")
    /\ Moves("PLANNING", "EXECUTING", "EXECUTING") /\ Moves("EXECUTING", "EXECUTING", "EXECUTING")
    /\ Moves("VERIFYING", "EXECUTING", "VERIFYING") /\ Moves("COMPLETED", "EXECUTING", "COMPLETED")
    /\ Moves("EXECUTING", "VERIFYING", "VERIFYING") /\ Moves("VERIFYING", "VERIFYING", "VERIFYING")
    /\ Moves("COMPLETED", "VERIFYING", "COMPLETED")
    /\ Moves("VERIFYING", "COMPLETED", "COMPLETED") /\ Moves("COMPLETED", "COMPLETED", "COMPLETED")
    /\ \A t \in {"PLANNING", "EXECUTING", "VERIFYING", "COMPLETED"} : Moves("FAILED", t, "FAILED")
  BY DEF Moves, Transition, TransitionMatrix, AContext

\* A plan takes the machine to COMPLETED, unless it has failed or timed out.
LEMMA PlanThrough ==
    ASSUME KTyped, MoveTo(Through(<<"PLANNING", "EXECUTING", "VERIFYING", "COMPLETED">>))
    PROVE  IF state = "FAILED" \/ expired THEN state' = state ELSE state' = "COMPLETED"
<1> DEFINE targets == <<"PLANNING", "EXECUTING", "VERIFYING", "COMPLETED">>
<1>1. Context \in AContext
  BY DEF KTyped, Context, AContext
<1>2. targets \in Seq(States) /\ Len(targets) = 4
  BY DEF States
<1>3. PICK c \in [0..4 -> AContext] :
         /\ Through(targets) = c[4]
         /\ c[0] = Context
         /\ \A i \in 1..4 : c[i] = Transition(c[i - 1], targets[i])
  <2> HIDE DEF targets
  <2>1. \E c \in [0..Len(targets) -> AContext] :
           /\ Through(targets) = c[Len(targets)]
           /\ c[0] = Context
           /\ \A i \in 1..Len(targets) : c[i] = Transition(c[i - 1], targets[i])
    BY <1>1, <1>2, ThroughIs
  <2>2. Len(targets) = 4
    BY <1>2
  <2> QED  BY <2>1, <2>2
<1>4. /\ c[1] = Transition(c[0], "PLANNING") /\ c[2] = Transition(c[1], "EXECUTING")
      /\ c[3] = Transition(c[2], "VERIFYING") /\ c[4] = Transition(c[3], "COMPLETED")
  BY <1>3
<1>5. c[0] \in AContext /\ c[1] \in AContext /\ c[2] \in AContext /\ c[3] \in AContext
  BY <1>3
<1>6. c[0].state = state /\ c[0].expired = expired /\ state' = c[4].state
  BY <1>3 DEF MoveTo, Context
<1>7. CASE expired
  <2>1. \A x \in AContext, t \in States : x.expired => Transition(x, t) = x
    BY DEF Transition
  <2>2. ASSUME NEW x \in AContext, x.expired, NEW y, NEW t \in States, y = Transition(x, t)
        PROVE  y = x
    BY <2>1, <2>2
  <2>3. c[0].expired
    BY <1>6, <1>7
  <2>4. "PLANNING" \in States /\ "EXECUTING" \in States /\ "VERIFYING" \in States
        /\ "COMPLETED" \in States
    BY DEF States
  <2>5. c[1] = c[0]
    <3>1. Transition(c[0], "PLANNING") = c[0]
      BY <1>5, <2>1, <2>3, <2>4
    <3> QED  BY <1>4, <3>1
  <2>6. c[2] = c[0]
    BY <1>4, <1>5, <2>2, <2>3, <2>4, <2>5
  <2>7. c[3] = c[0]
    BY <1>4, <1>5, <2>2, <2>3, <2>4, <2>6
  <2>8. c[4] = c[0]
    BY <1>4, <1>5, <2>2, <2>3, <2>4, <2>7
  <2> QED  BY <1>6, <1>7, <2>8
<1>8. CASE state = "FAILED" /\ ~expired
  <2>1. \A t \in {"PLANNING", "EXECUTING", "VERIFYING", "COMPLETED"} : Moves("FAILED", t, "FAILED")
    BY PlanMoves
  <2>2. c[1].state = "FAILED" /\ ~c[1].expired
    BY <1>4, <1>5, <1>6, <1>8, <2>1 DEF Moves
  <2>3. c[2].state = "FAILED" /\ ~c[2].expired
    BY <1>4, <1>5, <2>1, <2>2 DEF Moves
  <2>4. c[3].state = "FAILED" /\ ~c[3].expired
    BY <1>4, <1>5, <2>1, <2>3 DEF Moves
  <2>5. c[4].state = "FAILED"
    BY <1>4, <1>5, <2>1, <2>4 DEF Moves
  <2> QED  BY <1>6, <1>8, <2>5
<1>9. CASE state \in {"IDLE", "PLANNING", "EXECUTING", "VERIFYING", "RECOVERING", "COMPLETED"} /\ ~expired
  <2>1. c[1].state \in {"PLANNING", "EXECUTING", "VERIFYING", "COMPLETED"} /\ ~c[1].expired
    BY <1>4, <1>5, <1>6, <1>9, PlanMoves DEF Moves
  <2>2. c[2].state \in {"EXECUTING", "VERIFYING", "COMPLETED"} /\ ~c[2].expired
    BY <1>4, <1>5, <2>1, PlanMoves DEF Moves
  <2>3. c[3].state \in {"VERIFYING", "COMPLETED"} /\ ~c[3].expired
    BY <1>4, <1>5, <2>2, PlanMoves DEF Moves
  <2>4. c[4].state = "COMPLETED"
    BY <1>4, <1>5, <2>3, PlanMoves DEF Moves
  <2> QED  BY <1>6, <1>9, <2>4
<1> QED  BY <1>7, <1>8, <1>9, RuntimeStates DEF KTyped, States

\* Only a tick takes an event from the bus.
LEMMA OnlyTickTakes ==
    ASSUME KTyped, [KNext]_kvars, Len(bus') < Len(bus)
    PROVE  Tick
<1>1. bus \in Seq(AnEvent) /\ Len(bus) \in Nat
  BY LenProperties DEF KTyped
<1>2. bus' # bus
  BY <1>1
<1>3. ASSUME NEW event, Publish(event) PROVE FALSE
  <2>1. Len(Append(bus, event)) = Len(bus) + 1
    BY <1>1
  <2> QED  BY <2>1, <1>1, <1>3 DEF Publish
<1> QED  BY <1>2, <1>3 DEF KNext, BuildPlan, Start, Stop, Submit, Linger, CompleteTask, FailTask,
           kvars, engine

\* Whatever sequence of events, recoveries and timeouts came before, a plan that
\* ran leaves the machine in COMPLETED, though the answers of its transitions are
\* ignored; only FAILED and a state that had timed out it cannot leave.
THEOREM PlansComplete == KSpec => PlanEndsCompleted
<1>1. KTyped /\ [KNext]_kvars
        => (PlanRan => IF state = "FAILED" \/ expired THEN state' = state
                       ELSE state' = "COMPLETED")
  <2> SUFFICES ASSUME KTyped, [KNext]_kvars, PlanRan
               PROVE  IF state = "FAILED" \/ expired THEN state' = state
                      ELSE state' = "COMPLETED"
    OBVIOUS
  <2>1. Tick
    BY OnlyTickTakes DEF PlanRan
  <2>2. Handle(bus[1]) /\ bus[1].category = "EXECUTION_PLAN" /\ ~Blocked(bus[1]) /\ Validates(plan)
    BY <2>1 DEF Tick, PlanRan
  <2>3. HandlePlan(bus[1])
    BY <2>2 DEF Handle, HandleBlocked, HandleRefusedPlan, HandleDispatch, HandleTransition,
                HandleObservation, HandleSystemEvent, HandleOther
  <2> QED  BY <2>3, PlanThrough DEF HandlePlan
<1> QED  BY <1>1, KernelTypes, PTL DEF KSpec, PlanEndsCompleted

-----------------------------------------------------------------------------
(* Kernel: the graph of a plan *)

\* A graph as a client builds it: both ends of an edge are nodes.
WellFormed(g) ==
    /\ g.order \in Seq(Nodes(g)) /\ IsInjective(g.order)
    /\ g.edges \in Seq(Nodes(g) \X Nodes(g))

\* A schedule of the graph: no node twice, every node later than all it
\* depends on, and what is left out depends on something left out.
Schedules(g, batches) ==
    /\ batches \in Seq(SUBSET Nodes(g))
    /\ \A i, j \in DOMAIN batches : i # j => batches[i] \cap batches[j] = {}
    /\ \A j \in DOMAIN batches : \A n \in batches[j], m \in Nodes(g) :
          Edge(g, m, n) => \E i \in DOMAIN batches : i < j /\ m \in batches[i]
    /\ \A n \in Nodes(g) :
          \/ \E j \in DOMAIN batches : n \in batches[j]
          \/ \E m \in Nodes(g) : /\ Edge(g, m, n)
                                 /\ \A j \in DOMAIN batches : m \notin batches[j]

\* What a turn of the loop keeps.
BatchState(g) ==
    [remaining : SUBSET Nodes(g), degree : [Nodes(g) -> Int],
     batches : Seq(SUBSET Nodes(g))]

EdgesCounted(g, s) ==
    \A n \in s.remaining : s.degree[n] = Cardinality(EdgesInto(g, s.remaining, n))

Scheduled(g, s) ==
    /\ \A i, j \in DOMAIN s.batches : i # j => s.batches[i] \cap s.batches[j] = {}
    /\ \A j \in DOMAIN s.batches : \A n \in s.batches[j], m \in Nodes(g) :
          Edge(g, m, n) => \E i \in DOMAIN s.batches : i < j /\ m \in s.batches[i]
    /\ \A n \in Nodes(g) :
          n \in s.remaining <=> \A j \in DOMAIN s.batches : n \notin s.batches[j]

Ready(s) == {n \in s.remaining : s.degree[n] = 0}

\* A graph has finitely many nodes, no more than its list of them is long.
LEMMA NodesFinite ==
    ASSUME NEW g, WellFormed(g)
    PROVE  /\ IsFiniteSet(Nodes(g)) /\ Cardinality(Nodes(g)) \in Nat
           /\ Cardinality(Nodes(g)) <= Len(g.order)
           /\ \A S \in SUBSET Nodes(g) : IsFiniteSet(S) /\ Cardinality(S) \in Nat
<1> DEFINE n == Len(g.order)
<1>1. n \in Nat /\ DOMAIN g.order = 1..n /\ g.order \in [1..n -> Nodes(g)]
  BY LenProperties DEF WellFormed
<1>2. IsFiniteSet(1..n) /\ Cardinality(1..n) = n
  <2> HIDE DEF n
  <2>1. IsFiniteSet(1..n) /\ Cardinality(1..n) = IF 1 <= n THEN n - 1 + 1 ELSE 0
    BY <1>1, FS_Interval
  <2> QED  BY <1>1, <2>1
<1>3. g.order \in Surjection(1..n, Nodes(g))
  BY <1>1 DEF Surjection, Nodes, ToSet
<1> HIDE DEF n
<1>4. IsFiniteSet(Nodes(g)) /\ Cardinality(Nodes(g)) <= n
  BY <1>2, <1>3, FS_Surjection
<1>5. ASSUME NEW S \in SUBSET Nodes(g) PROVE IsFiniteSet(S) /\ Cardinality(S) \in Nat
  BY <1>4, FS_Subset, FS_CardinalityType
<1>6. Cardinality(Nodes(g)) \in Nat
  BY <1>4, FS_CardinalityType
<1> QED  BY <1>4, <1>5, <1>6 DEF n

\* A graph has finitely many edges, those given twice counted twice.
LEMMA EdgesFinite ==
    ASSUME NEW g, WellFormed(g)
    PROVE  IsFiniteSet(DOMAIN g.edges)
<1>1. DOMAIN g.edges = 1..Len(g.edges) /\ Len(g.edges) \in Nat
  BY LenProperties DEF WellFormed
<1>2. IsFiniteSet(1..Len(g.edges))
  BY <1>1, FS_Interval
<1> QED  BY <1>1, <1>2

\* The edges into a node are finitely many, and split with their sources.
LEMMA EdgesSplit ==
    ASSUME NEW g, WellFormed(g), NEW S, NEW B, B \subseteq S, NEW n
    PROVE  /\ Cardinality(EdgesInto(g, S, n)) \in Nat
           /\ Cardinality(EdgesInto(g, B, n)) \in Nat
           /\ Cardinality(EdgesInto(g, S \ B, n))
                = Cardinality(EdgesInto(g, S, n)) - Cardinality(EdgesInto(g, B, n))
           /\ Cardinality(EdgesInto(g, S, n)) = 0 => EdgesInto(g, S, n) = {}
<1> DEFINE E == EdgesInto(g, S, n)
           F == EdgesInto(g, B, n)
           G == EdgesInto(g, S \ B, n)
<1>1. IsFiniteSet(DOMAIN g.edges)
  BY EdgesFinite
<1>2. E \subseteq DOMAIN g.edges /\ F \subseteq E /\ G = E \ F /\ E \cap F = F
  BY DEF EdgesInto
<1> HIDE DEF E, F, G
<1>3. IsFiniteSet(E)
  BY <1>1, <1>2, FS_Subset
<1>4. IsFiniteSet(F)
  BY <1>3, <1>2, FS_Subset
<1>5. Cardinality(E \ F) = Cardinality(E) - Cardinality(E \cap F)
  BY <1>3, FS_Difference
<1>6. Cardinality(E) \in Nat /\ Cardinality(F) \in Nat
  BY <1>3, <1>4, FS_CardinalityType
<1>7. Cardinality(E) = 0 => E = {}
  BY <1>3, FS_EmptySet
<1> QED  BY <1>2, <1>5, <1>6, <1>7 DEF E, F, G

\* Edges as positions of the list, and as pairs of nodes.
LEMMA EdgeFrom ==
    ASSUME NEW g, WellFormed(g), NEW S, NEW m, NEW n
    PROVE  /\ Edge(g, m, n) /\ m \in S => EdgesInto(g, S, n) # {}
           /\ EdgesInto(g, S, n) # {} => \E k \in S : Edge(g, k, n)
           /\ Edge(g, m, n) => m \in Nodes(g) /\ n \in Nodes(g)
<1>1. \A i \in DOMAIN g.edges : g.edges[i] \in Nodes(g) \X Nodes(g)
  BY ElementOfSeq, LenProperties DEF WellFormed
<1>2. \A i \in DOMAIN g.edges : g.edges[i] = <<g.edges[i][1], g.edges[i][2]>>
  BY <1>1
<1>3. Edge(g, m, n) /\ m \in S => EdgesInto(g, S, n) # {}
  BY DEF Edge, EdgesInto
<1>4. ASSUME EdgesInto(g, S, n) # {} PROVE \E k \in S : Edge(g, k, n)
  <2>1. PICK i \in DOMAIN g.edges : g.edges[i][1] \in S /\ g.edges[i][2] = n
    BY <1>4 DEF EdgesInto
  <2>2. g.edges[i] = <<g.edges[i][1], n>>
    BY <1>2, <2>1
  <2>3. Edge(g, g.edges[i][1], n)
    BY <2>2 DEF Edge
  <2> QED  BY <2>1, <2>3
<1>5. ASSUME Edge(g, m, n) PROVE m \in Nodes(g) /\ n \in Nodes(g)
  <2>1. PICK i \in DOMAIN g.edges : g.edges[i] = <<m, n>>
    BY <1>5 DEF Edge
  <2>2. <<m, n>> \in Nodes(g) \X Nodes(g)
    BY <2>1, <1>1
  <2> QED  BY <2>2
<1> QED  BY <1>3, <1>4, <1>5

-----------------------------------------------------------------------------
(* Kernel: parallel_safe_batches *)

\* A turn of the loop takes what is ready, if anything is.
LEMMA BatchTaken ==
    ASSUME NEW g, WellFormed(g), NEW s \in BatchState(g), EdgesCounted(g, s), Scheduled(g, s)
    PROVE  LET t == NextBatch(g, s)
           IN  /\ t \in BatchState(g) /\ EdgesCounted(g, t) /\ Scheduled(g, t)
               /\ IF Ready(s) = {} THEN t = s
                  ELSE Cardinality(t.remaining) < Cardinality(s.remaining)
<1> DEFINE N == Nodes(g)
           B == Ready(s)
           rest == s.remaining \ B
           lost(n) == Cardinality(EdgesInto(g, B, n))
           degree == [n \in N |-> IF n \in rest THEN s.degree[n] - lost(n) ELSE s.degree[n]]
           batches == Append(s.batches, B)
           t == NextBatch(g, s)
<1>1. s.remaining \in SUBSET N /\ s.degree \in [N -> Int] /\ s.batches \in Seq(SUBSET N)
  BY DEF BatchState
<1>2. B \subseteq s.remaining /\ B \in SUBSET N /\ rest \in SUBSET N
  BY <1>1 DEF Ready
<1>3. CASE B = {}
  <2>1. t = s
    BY <1>3 DEF NextBatch, Ready
  <2> QED  BY <1>3, <2>1
<1>4. CASE B # {}
  <2>1. t = [remaining |-> rest, degree |-> degree, batches |-> batches]
    BY <1>4, Zenon DEF NextBatch, Ready
  <2>2. \A n \in rest : /\ lost(n) \in Nat
                        /\ Cardinality(EdgesInto(g, rest, n))
                             = Cardinality(EdgesInto(g, s.remaining, n)) - lost(n)
    <3>1. ASSUME NEW S, NEW n, B \subseteq S
          PROVE  /\ Cardinality(EdgesInto(g, B, n)) \in Nat
                 /\ Cardinality(EdgesInto(g, S \ B, n))
                      = Cardinality(EdgesInto(g, S, n)) - Cardinality(EdgesInto(g, B, n))
      <4> HIDE DEF B
      <4> QED  BY <3>1, EdgesSplit
    <3> HIDE DEF B
    <3> QED  BY <1>2, <3>1, Zenon
  <2>3. degree \in [N -> Int]
    <3>1. ASSUME NEW n \in N
          PROVE  (IF n \in rest THEN s.degree[n] - lost(n) ELSE s.degree[n]) \in Int
      <4> HIDE DEF rest, lost
      <4> QED  BY <1>1, <2>2
    <3> QED  BY <3>1
  <2>4. batches \in Seq(SUBSET N) /\ Len(batches) = Len(s.batches) + 1
        /\ batches[Len(s.batches) + 1] = B /\ Len(s.batches) \in Nat
        /\ DOMAIN s.batches = 1..Len(s.batches) /\ DOMAIN batches = 1..Len(batches)
        /\ \A i \in DOMAIN s.batches : batches[i] = s.batches[i]
    <3> HIDE DEF B, N
    <3> QED  BY <1>1, <1>2, AppendProperties, LenProperties
  <2>5. t.remaining = rest /\ t.degree = degree /\ t.batches = batches
    BY <2>1
  <2>6. t \in BatchState(g)
    BY <1>2, <2>1, <2>3, <2>4 DEF BatchState
  <2>7. \A n \in rest : degree[n] = Cardinality(EdgesInto(g, rest, n))
    <3>1. ASSUME NEW n \in rest PROVE degree[n] = Cardinality(EdgesInto(g, rest, n))
      <4>1. degree[n] = s.degree[n] - lost(n)
        BY <1>2
      <4>2. s.degree[n] = Cardinality(EdgesInto(g, s.remaining, n))
        BY DEF EdgesCounted
      <4> HIDE DEF rest, degree, lost
      <4> QED  BY <2>2, <4>1, <4>2
    <3> QED  BY <3>1
  <2>8. EdgesCounted(g, t)
    BY <2>5, <2>7, Zenon DEF EdgesCounted
  <2>9. Cardinality(t.remaining) < Cardinality(s.remaining)
    <3>1. IsFiniteSet(s.remaining) /\ Cardinality(s.remaining) \in Nat
      BY <1>1, NodesFinite
    <3>2. rest \subseteq s.remaining /\ rest # s.remaining
      BY <1>2, <1>4
    <3> HIDE DEF rest
    <3>3. Cardinality(rest) \in Nat /\ Cardinality(rest) < Cardinality(s.remaining)
      BY <3>1, <3>2, FS_Subset, FS_CardinalityType
    <3> QED  BY <3>3, <2>5
  <2> DEFINE D == DOMAIN s.batches
             last == Len(s.batches) + 1
  <2>10. DOMAIN batches = D \cup {last} /\ last \notin D /\ D \subseteq Nat /\ last \in Nat
         /\ \A i \in D : i < last
    BY <2>4
  <2>11. \A n \in N : n \in s.remaining <=> \A j \in D : n \notin s.batches[j]
    BY DEF Scheduled
  <2>12. /\ \A j \in D : batches[j] = s.batches[j] /\ batches[j] \cap s.remaining = {}
         /\ batches[last] = B
    <3>1. \A j \in D : s.batches[j] \in SUBSET N
      BY <1>1, ElementOfSeq, LenProperties
    <3> HIDE DEF batches, B, N
    <3>2. ASSUME NEW j \in D PROVE s.batches[j] \cap s.remaining = {}
      BY <3>1, <2>11
    <3>3. \A j \in D : batches[j] = s.batches[j] /\ batches[last] = B
      BY <2>4
    <3> QED  BY <3>2, <3>3, <2>4
  <2> HIDE DEF batches, D, last
  <2>13. ASSUME NEW i \in DOMAIN batches, NEW j \in DOMAIN batches, i # j
         PROVE  batches[i] \cap batches[j] = {}
    <3>1. CASE i \in D /\ j \in D
      <4>1. s.batches[i] \cap s.batches[j] = {}
        BY <3>1, <2>13 DEF Scheduled, D
      <4> QED  BY <3>1, <4>1, <2>12
    <3>2. CASE i = last \/ j = last
      <4> HIDE DEF B
      <4> QED  BY <3>2, <2>13, <2>10, <2>12, <1>2
    <3> QED  BY <3>1, <3>2, <2>10
  <2>14. ASSUME NEW j \in DOMAIN batches, NEW n \in batches[j], NEW m \in N, Edge(g, m, n)
         PROVE  \E i \in DOMAIN batches : i < j /\ m \in batches[i]
    <3>1. CASE j \in D
      <4>1. n \in s.batches[j]
        BY <3>1, <2>12
      <4>2. PICK i \in D : i < j /\ m \in s.batches[i]
        BY <3>1, <4>1, <2>14 DEF Scheduled, D
      <4> QED  BY <4>2, <2>10, <2>12
    <3>2. CASE j = last
      <4>1. n \in s.remaining /\ s.degree[n] = 0
        BY <3>2, <2>12 DEF Ready
      <4>2. EdgesInto(g, s.remaining, n) = {}
        BY <4>1, EdgesSplit DEF EdgesCounted
      <4>3. m \notin s.remaining
        BY <4>2, <2>14, EdgeFrom
      <4>4. PICK i \in D : m \in s.batches[i]
        BY <4>3, <2>11
      <4> QED  BY <3>2, <4>4, <2>10, <2>12
    <3> QED  BY <3>1, <3>2, <2>10
  <2>15. ASSUME NEW n \in N
         PROVE  n \in rest <=> \A j \in DOMAIN batches : n \notin batches[j]
    <3> HIDE DEF B
    <3>1. n \in rest <=> n \in s.remaining /\ n \notin B
      OBVIOUS
    <3>2. (\A j \in DOMAIN batches : n \notin batches[j])
             <=> (\A j \in D : n \notin s.batches[j]) /\ n \notin B
      BY <2>10, <2>12
    <3> QED  BY <3>1, <3>2, <2>11
  <2>16. Scheduled(g, t)
    <3> HIDE DEF rest, t
    <3>1. \A i, j \in DOMAIN batches : i # j => batches[i] \cap batches[j] = {}
      BY <2>13
    <3>2. \A j \in DOMAIN batches : \A n \in batches[j], m \in N :
             Edge(g, m, n) => \E i \in DOMAIN batches : i < j /\ m \in batches[i]
      BY <2>14
    <3>3. \A n \in N : n \in rest <=> \A j \in DOMAIN batches : n \notin batches[j]
      BY <2>15
    <3>4. t.batches = batches /\ t.remaining = rest
      BY <2>5
    <3> QED  BY <3>1, <3>2, <3>3, <3>4 DEF Scheduled
  <2> QED  BY <1>4, <2>6, <2>8, <2>9, <2>16
<1> QED  BY <1>3, <1>4

\* The states in which the loop of parallel_safe_batches may be.
BatchStates(g) == {s \in BatchState(g) : EdgesCounted(g, s) /\ Scheduled(g, s)}

FirstState(g) ==
    [remaining |-> Nodes(g), degree |-> InDegree(g), batches |-> <<>>]

\* The function by which ParallelSafeBatches is defined.
TakesBatches(f, g) ==
    f = [k \in 0..Len(g.order) |->
            IF k = 0 THEN FirstState(g) ELSE NextBatch(g, f[k - 1])]

\* Before the first batch all edges count.
LEMMA FirstBatchState ==
    ASSUME NEW g, WellFormed(g)
    PROVE  FirstState(g) \in BatchStates(g)
<1> DEFINE s == FirstState(g)
<1>1. \A n \in Nodes(g) : Cardinality(EdgesInto(g, Nodes(g), n)) \in Nat
  BY EdgesSplit
<1>2. InDegree(g) \in [Nodes(g) -> Int]
  BY <1>1 DEF InDegree
<1>3. s.remaining = Nodes(g) /\ s.degree = InDegree(g) /\ s.batches = <<>>
  BY DEF FirstState
<1>4. <<>> \in Seq(SUBSET Nodes(g)) /\ DOMAIN <<>> = {}
  BY EmptySeq
<1>5. s \in BatchState(g)
  BY <1>2, <1>4 DEF BatchState, FirstState
<1>6. EdgesCounted(g, s)
  BY <1>3 DEF EdgesCounted, InDegree
<1>7. Scheduled(g, s)
  BY <1>3, <1>4 DEF Scheduled
<1> QED  BY <1>5, <1>6, <1>7 DEF BatchStates

\* The loop over the batches is defined.
LEMMA TakesBatchesExists ==
    ASSUME NEW g, WellFormed(g)
    PROVE  \E f : TakesBatches(f, g)
<1> DEFINE n == Len(g.order)
           S == BatchStates(g)
           fs == [k \in 1..n |-> [s \in S |-> NextBatch(g, s)]]
<1>1. n \in Nat
  BY LenProperties DEF WellFormed
<1>2. \A s \in S : NextBatch(g, s) \in S
  BY BatchTaken DEF BatchStates
<1> HIDE DEF n, S
<1>3. fs \in [1..n -> [S -> S]]
  BY <1>2
<1>4. PICK f \in [0..n -> S] : Recurses(f, FirstState(g), fs, n)
  <2>1. FirstState(g) \in S
    BY FirstBatchState DEF S
  <2> HIDE DEF fs
  <2> QED  BY <1>1, <1>3, <2>1, RecursionExists
<1>5. ASSUME NEW k \in 0..n
      PROVE  f[k] = IF k = 0 THEN FirstState(g) ELSE NextBatch(g, f[k - 1])
  <2>1. CASE k = 0
    BY <2>1, <1>4 DEF Recurses
  <2>2. CASE k # 0
    <3>1. k \in 1..n /\ k - 1 \in 0..n
      BY <2>2, <1>1
    <3>2. f[k - 1] \in S /\ f[k] = fs[k][f[k - 1]]
      BY <3>1, <1>4 DEF Recurses
    <3> QED  BY <2>2, <3>1, <3>2
  <2> QED  BY <2>1, <2>2
<1>6. f = [k \in 0..n |-> f[k]]
  BY <1>4
<1>7. f = [k \in 0..n |-> IF k = 0 THEN FirstState(g) ELSE NextBatch(g, f[k - 1])]
  BY <1>5, <1>6
<1>8. TakesBatches(f, g)
  BY <1>7 DEF TakesBatches, n
<1> QED  BY <1>8

\* parallel_safe_batches schedules a graph, whatever its edges are.
LEMMA BatchesSchedule ==
    ASSUME NEW g, WellFormed(g)
    PROVE  Schedules(g, ParallelSafeBatches(g))
<1> DEFINE n == Len(g.order)
           f == CHOOSE h : TakesBatches(h, g)
           Fewer(k) == Ready(f[k]) = {} \/ Cardinality(f[k].remaining) <= n - k
           Bad == {k \in 0..n : ~ (f[k] \in BatchStates(g) /\ Fewer(k))}
<1>1. n \in Nat
  BY LenProperties DEF WellFormed
<1>2. TakesBatches(f, g)
  BY TakesBatchesExists, Zenon
<1>3. ParallelSafeBatches(g) = f[n].batches
  BY Zenon DEF ParallelSafeBatches, TakesBatches, FirstState
<1> HIDE DEF f
<1>4. \A k \in 0..n : f[k] = IF k = 0 THEN FirstState(g) ELSE NextBatch(g, f[k - 1])
  BY <1>2 DEF TakesBatches
<1>5. Bad = {}
  <2> SUFFICES ASSUME Bad # {} PROVE FALSE
    OBVIOUS
  <2>1. PICK m \in Bad : \A k \in Bad : m <= k
    <3>1. Bad \subseteq Nat
      BY <1>1
    <3> QED  BY <3>1, LeastNat
  <2>2. CASE m = 0
    <3>1. f[0] = FirstState(g)
      BY <1>1, <1>4
    <3>2. f[0] \in BatchStates(g)
      BY <3>1, FirstBatchState
    <3>3. f[0].remaining = Nodes(g)
      BY <3>1 DEF FirstState
    <3>4. Cardinality(f[0].remaining) <= n - 0
      BY <1>1, <3>3, NodesFinite
    <3> QED  BY <2>2, <3>2, <3>4
  <2>3. CASE m # 0
    <3>1. m \in 0..n /\ m - 1 \in 0..n /\ ~ (m <= m - 1)
      BY <1>1, <2>3
    <3>2. m - 1 \notin Bad
      <4> HIDE DEF Bad
      <4> QED  BY <2>1, <3>1
    <3>3. f[m - 1] \in BatchStates(g) /\ Fewer(m - 1)
      BY <3>1, <3>2
    <3>4. f[m] = NextBatch(g, f[m - 1])
      BY <1>4, <2>3, <3>1
    <3> HIDE DEF Bad
    <3>5. /\ f[m] \in BatchStates(g)
          /\ IF Ready(f[m - 1]) = {} THEN f[m] = f[m - 1]
             ELSE Cardinality(f[m].remaining) < Cardinality(f[m - 1].remaining)
      BY <3>3, <3>4, BatchTaken DEF BatchStates
    <3>6. Fewer(m)
      <4>1. CASE Ready(f[m - 1]) = {}
        BY <3>5, <4>1
      <4>2. CASE Ready(f[m - 1]) # {}
        <5>1. Cardinality(f[m - 1].remaining) <= n - (m - 1)
          BY <3>3, <4>2
        <5>2. f[m - 1].remaining \in SUBSET Nodes(g) /\ f[m].remaining \in SUBSET Nodes(g)
          BY <3>3, <3>5 DEF BatchStates, BatchState
        <5>3. Cardinality(f[m - 1].remaining) \in Nat /\ Cardinality(f[m].remaining) \in Nat
          BY <5>2, NodesFinite
        <5>4. Cardinality(f[m].remaining) < Cardinality(f[m - 1].remaining)
          BY <3>5, <4>2
        <5>5. Cardinality(f[m].remaining) <= n - m
          BY <1>1, <3>1, <5>1, <5>3, <5>4
        <5> QED  BY <5>5
      <4> QED  BY <4>1, <4>2
    <3> HIDE DEF Fewer
    <3> QED  BY <2>1, <3>5, <3>6 DEF Bad
  <2> QED  BY <2>2, <2>3
<1> DEFINE s == f[n]
<1>6. s \in BatchStates(g) /\ Fewer(n)
  BY <1>1, <1>5
<1>7. s \in BatchState(g) /\ EdgesCounted(g, s) /\ Scheduled(g, s)
  BY <1>6 DEF BatchStates
<1>8. ASSUME NEW x \in s.remaining
      PROVE  \E m \in s.remaining : Edge(g, m, x)
  <2>1. s.remaining \in SUBSET Nodes(g)
    BY <1>7 DEF BatchState
  <2>2. IsFiniteSet(s.remaining) /\ Cardinality(s.remaining) \in Nat
    BY <2>1, NodesFinite
  <2>3. Cardinality(s.remaining) # 0
    BY <2>2, FS_EmptySet
  <2>4. Ready(s) = {}
    <3> HIDE DEF s
    <3>1. Ready(s) = {} \/ Cardinality(s.remaining) <= n - n
      BY <1>6 DEF s
    <3> QED  BY <1>1, <2>2, <2>3, <3>1
  <2>5. s.degree[x] # 0
    BY <2>4 DEF Ready
  <2>6. Cardinality(EdgesInto(g, s.remaining, x)) # 0
    BY <2>5, <1>7 DEF EdgesCounted
  <2>7. EdgesInto(g, s.remaining, x) # {}
    BY <2>6, FS_EmptySet
  <2> QED  BY <2>7, EdgeFrom
<1> HIDE DEF s
<1>9. \A x \in Nodes(g) :
         \/ \E j \in DOMAIN s.batches : x \in s.batches[j]
         \/ \E m \in Nodes(g) : /\ Edge(g, m, x)
                                /\ \A j \in DOMAIN s.batches : m \notin s.batches[j]
  <2>1. s.remaining \in SUBSET Nodes(g)
    BY <1>7 DEF BatchState
  <2>2. \A x \in Nodes(g) :
           x \in s.remaining <=> \A j \in DOMAIN s.batches : x \notin s.batches[j]
    BY <1>7 DEF Scheduled
  <2> QED  BY <2>1, <2>2, <1>8
<1>10. Schedules(g, s.batches)
  BY <1>7, <1>9 DEF Schedules, Scheduled, BatchState
<1> QED  BY <1>3, <1>10 DEF s

-----------------------------------------------------------------------------
(* Kernel: cycles and what they lead to *)

\* A walk that comes twice to the same node leads to n.
OnCycle(g, n) ==
    \E p \in Seq(Nodes(g)) :
        /\ IsPath(g, p)
        /\ p # <<>> /\ p[Len(p)] = n
        /\ \E i, j \in DOMAIN p : i < j /\ p[i] = p[j]

\* Nothing that a cycle leads to can be scheduled.
LEMMA CyclesStayOut ==
    ASSUME NEW g, WellFormed(g), NEW b, Schedules(g, b), NEW j0 \in DOMAIN b,
           NEW n \in b[j0]
    PROVE  ~ OnCycle(g, n)
<1> SUFFICES ASSUME NEW p \in Seq(Nodes(g)), IsPath(g, p), p # <<>>, p[Len(p)] = n,
                    NEW i0 \in DOMAIN p, NEW i1 \in DOMAIN p, i0 < i1, p[i0] = p[i1]
             PROVE  FALSE
  BY DEF OnCycle
<1> DEFINE l == Len(p)
           at == [i \in 1..l |-> CHOOSE j \in DOMAIN b : p[i] \in b[j]]
           In(i) == \E j \in DOMAIN b : p[i] \in b[j]
<1>1. l \in Nat /\ DOMAIN p = 1..l /\ l # 0
  BY LenProperties, EmptySeq
<1>2. \A i \in 1..l : p[i] \in Nodes(g)
  BY <1>1, ElementOfSeq
<1>3. \A i \in 1..l : i + 1 \in 1..l => Edge(g, p[i], p[i + 1])
  BY <1>1 DEF IsPath
<1>4. DOMAIN b \subseteq Nat
  BY LenProperties DEF Schedules
<1>5. ASSUME NEW i \in 1..l, i + 1 \in 1..l, NEW j \in DOMAIN b, p[i + 1] \in b[j]
      PROVE  \E k \in DOMAIN b : k < j /\ p[i] \in b[k]
  BY <1>2, <1>3, <1>5 DEF Schedules
<1>6. \A i \in 1..l : In(i)
  <2> DEFINE Bad == {k \in 0..(l - 1) : ~ In(l - k)}
  <2>1. ASSUME Bad # {} PROVE FALSE
    <3>1. PICK m \in Bad : \A k \in Bad : m <= k
      <4>1. Bad \subseteq Nat
        BY <1>1
      <4> QED  BY <2>1, <4>1, LeastNat
    <3>2. m \in 0..(l - 1) /\ ~ In(l - m)
      OBVIOUS
    <3>3. m # 0
      <4>1. In(l)
        OBVIOUS
      <4>2. l - 0 = l
        BY <1>1
      <4> QED  BY <3>2, <4>1, <4>2
    <3>4. /\ m - 1 \in 0..(l - 1) /\ ~ (m <= m - 1)
          /\ l - m \in 1..l /\ (l - m) + 1 \in 1..l /\ l - (m - 1) = (l - m) + 1
      BY <1>1, <3>2, <3>3
    <3>5. m - 1 \notin Bad
      <4> HIDE DEF Bad
      <4> QED  BY <3>1, <3>4
    <3>6. In((l - m) + 1)
      BY <3>4, <3>5
    <3> QED  BY <3>2, <3>4, <3>6, <1>5
  <2>2. ASSUME NEW i \in 1..l PROVE In(i)
    <3>1. l - i \in 0..(l - 1) /\ l - (l - i) = i
      BY <1>1
    <3>2. l - i \notin Bad
      BY <2>1
    <3> HIDE DEF In
    <3> QED  BY <3>1, <3>2
  <2> QED  BY <2>2
<1>7. \A i \in 1..l : at[i] \in DOMAIN b /\ p[i] \in b[at[i]]
  BY <1>6
<1> HIDE DEF at
<1>8. ASSUME NEW i \in 1..l, i + 1 \in 1..l PROVE at[i] < at[i + 1]
  <2>1. PICK k \in DOMAIN b : k < at[i + 1] /\ p[i] \in b[k]
    BY <1>5, <1>7, <1>8
  <2>2. k = at[i]
    BY <1>7, <2>1 DEF Schedules
  <2> QED  BY <2>1, <2>2
<1>9. \A d \in 1..(l - i0) : at[i0] < at[i0 + d]
  <2> DEFINE Bad == {d \in 1..(l - i0) : ~ (at[i0] < at[i0 + d])}
  <2>1. ASSUME Bad # {} PROVE FALSE
    <3>1. PICK m \in Bad : \A k \in Bad : m <= k
      <4>1. Bad \subseteq Nat
        BY <1>1
      <4> QED  BY <2>1, <4>1, LeastNat
    <3>2. /\ i0 \in 1..l /\ m \in Nat /\ m >= 1 /\ ~ (m <= m - 1)
          /\ i0 + m \in 1..l /\ i0 + (m - 1) \in 1..l /\ (i0 + (m - 1)) + 1 = i0 + m
          /\ m # 1 => m - 1 \in 1..(l - i0)
      BY <1>1
    <3>3. at[i0 + (m - 1)] < at[i0 + m]
      <4>1. (i0 + (m - 1)) + 1 \in 1..l
        BY <3>2
      <4> QED  BY <3>2, <4>1, <1>8
    <3>4. m # 1
      <4>1. i0 + (1 - 1) = i0
        BY <3>2
      <4> QED  BY <3>3, <4>1
    <3>5. m - 1 \notin Bad
      <4> HIDE DEF Bad
      <4> QED  BY <3>1, <3>2
    <3>6. at[i0] < at[i0 + (m - 1)]
      BY <3>2, <3>4, <3>5
    <3>7. at[i0] \in Nat /\ at[i0 + (m - 1)] \in Nat /\ at[i0 + m] \in Nat
      BY <3>2, <1>4, <1>7
    <3>8. at[i0] < at[i0 + m]
      BY <3>3, <3>6, <3>7
    <3> QED  BY <3>8
  <2> QED  BY <2>1
<1>10. i1 - i0 \in 1..(l - i0) /\ i0 + (i1 - i0) = i1 /\ i0 \in 1..l /\ i1 \in 1..l
  BY <1>1
<1>11. at[i0] < at[i1]
  BY <1>9, <1>10
<1>12. at[i0] = at[i1]
  BY <1>7, <1>10 DEF Schedules
<1>13. at[i0] \in Nat
  BY <1>4, <1>7, <1>10
<1> QED  BY <1>11, <1>12, <1>13

\* What is left out depends on a cycle.
LEMMA LeftOutOnCycle ==
    ASSUME NEW g, WellFormed(g), NEW b, Schedules(g, b), NEW n \in Nodes(g),
           \A j \in DOMAIN b : n \notin b[j]
    PROVE  OnCycle(g, n)
<1> DEFINE N == Nodes(g)
           L == {x \in N : \A j \in DOMAIN b : x \notin b[j]}
           c == Cardinality(N)
           before == [x \in L |-> CHOOSE m \in L : Edge(g, m, x)]
           fs == [i \in 1..c |-> before]
<1>1. \A x \in L : \E m \in L : Edge(g, m, x)
  BY DEF Schedules
<1>2. n \in L
  OBVIOUS
<1>3. c \in Nat /\ IsFiniteSet(N)
  BY NodesFinite
<1>4. before \in [L -> L] /\ \A x \in L : Edge(g, before[x], x)
  <2> HIDE DEF L
  <2> QED  BY <1>1
<1>5. L \subseteq N
  OBVIOUS
<1> HIDE DEF L, before, c
<1>6. fs \in [1..c -> [L -> L]]
  BY <1>4
<1>7. PICK w \in [0..c -> L] : Recurses(w, n, fs, c)
  <2> HIDE DEF fs
  <2> QED  BY <1>2, <1>3, <1>6, RecursionExists
<1>8. \A i \in 1..c : w[i] = before[w[i - 1]]
  BY <1>7 DEF Recurses
<1> DEFINE p == [t \in 1..(c + 1) |-> w[(c + 1) - t]]
<1>9. \A t \in 1..(c + 1) : (c + 1) - t \in 0..c
  BY <1>3
<1>10. p \in [1..(c + 1) -> N]
  BY <1>5, <1>7, <1>9
<1>11. p \in Seq(N) /\ Len(p) = c + 1 /\ DOMAIN p = 1..(c + 1)
  <2>1. c + 1 \in Nat
    BY <1>3
  <2>2. p \in Seq(N)
    <3> HIDE DEF p
    <3> QED  BY <1>10, <2>1, SeqDef
  <2>3. DOMAIN p = 1..(c + 1)
    OBVIOUS
  <2> HIDE DEF p
  <2>4. Len(p) = c + 1
    BY <2>1, <2>2, <2>3, LenProperties
  <2> QED  BY <2>2, <2>3, <2>4
<1>12. IsPath(g, p)
  <2>1. ASSUME NEW t \in 1..((c + 1) - 1) PROVE Edge(g, p[t], p[t + 1])
    <3>1. /\ t \in 1..(c + 1) /\ t + 1 \in 1..(c + 1) /\ (c + 1) - t \in 1..c
          /\ (c + 1) - (t + 1) = ((c + 1) - t) - 1 /\ (c + 1) - (t + 1) \in 0..c
      BY <1>3
    <3>2. p[t] = w[(c + 1) - t] /\ p[t + 1] = w[(c + 1) - (t + 1)]
      BY <3>1
    <3> HIDE DEF p
    <3>3. p[t] = before[p[t + 1]] /\ p[t + 1] \in L
      BY <3>1, <3>2, <1>7, <1>8
    <3> QED  BY <3>3, <1>4
  <2> HIDE DEF p
  <2> QED  BY <2>1, <1>11 DEF IsPath
<1>13. p[c + 1] = n
  <2>1. c + 1 \in 1..(c + 1) /\ (c + 1) - (c + 1) = 0
    BY <1>3
  <2>2. w[0] = n
    BY <1>7 DEF Recurses
  <2> QED  BY <2>1, <2>2
<1>14. \E i, j \in 1..(c + 1) : i # j /\ p[i] = p[j]
  <2>1. c + 1 \in Nat /\ c < c + 1
    BY <1>3
  <2>2. IsFiniteSet(1..(c + 1)) /\ Cardinality(1..(c + 1)) = c + 1
    <3>1. 1 <= c + 1
      BY <1>3
    <3> QED  BY <2>1, <3>1, FS_Interval
  <2>3. Cardinality(N) < Cardinality(1..(c + 1))
    BY <2>1, <2>2 DEF c
  <2> HIDE DEF p, N
  <2> QED  BY <1>3, <1>10, <2>2, <2>3, FS_PigeonHole
<1>15. PICK i, j \in 1..(c + 1) : i # j /\ p[i] = p[j]
  BY <1>14
<1> HIDE DEF p
<1>16. \E x, y \in 1..(c + 1) : x < y /\ p[x] = p[y]
  <2>1. i < j \/ j < i
    BY <1>3, <1>15
  <2> QED  BY <2>1, <1>15
<1>17. p # <<>>
  BY <1>3, <1>11, EmptySeq
<1> QED  BY <1>11, <1>12, <1>13, <1>16, <1>17 DEF OnCycle

-----------------------------------------------------------------------------
(* Folds as functions on sets of positions *)

\* A non-empty set of positions has a last one.
LEMMA LastPosition ==
    ASSUME NEW n \in Nat, NEW S, S \subseteq 1..n, S # {}
    PROVE  Max(S) \in S /\ \A y \in S : Max(S) >= y
<1> DEFINE Above == {k \in 0..n : \A x \in S : x <= k}
<1>1. n \in Above /\ Above \subseteq Nat
  OBVIOUS
<1>2. PICK m \in Above : \A k \in Above : m <= k
  <2> HIDE DEF Above
  <2> QED  BY <1>1, LeastNat
<1>3. m \in S
  <2> SUFFICES ASSUME m \notin S PROVE FALSE
    OBVIOUS
  <2>1. ASSUME NEW x \in S PROVE x <= m - 1 /\ 1 <= m
    BY <1>2, <2>1
  <2>2. PICK y \in S : TRUE
    OBVIOUS
  <2>3. m - 1 \in 0..n /\ m \in Nat
    BY <2>1, <2>2, <1>2
  <2>4. m - 1 \in Above
    BY <2>1, <2>3
  <2> QED  BY <2>3, <2>4, <1>2
<1>4. \A y \in S : m >= y
  BY <1>2
<1> QED  BY <1>3, <1>4 DEF Max

\* Without its greatest position a set of positions ends earlier.
LEMMA BelowGreatest ==
    ASSUME NEW m \in Nat, NEW T, T \subseteq 1..m, T # {}
    PROVE  Max(T) \in T /\ Max(T) \in 1..m /\ T \ {Max(T)} \in SUBSET (1..(m - 1))
<1>1. Max(T) \in T /\ \A y \in T : Max(T) >= y
  BY LastPosition
<1>2. ASSUME NEW y \in T \ {Max(T)} PROVE y \in 1..(m - 1)
  <2>1. y \in 1..m /\ Max(T) \in 1..m /\ Max(T) >= y /\ y # Max(T)
    BY <1>1
  <2> QED  BY <2>1
<1> QED  BY <1>1, <1>2

Folds(it, base, fs, n) ==
    \A T \in SUBSET (1..n) : it[T] = IF T = {} THEN base ELSE fs[Max(T)][it[T \ {Max(T)}]]

\* A fold of a sequence from its left takes a function on sets of positions,
\* which exists if it stays within a type.
LEMMA FoldExists ==
    ASSUME NEW S, NEW base \in S, NEW n \in Nat, NEW fs \in [1..n -> [S -> S]]
    PROVE  \E it \in [SUBSET (1..n) -> S] : Folds(it, base, fs, n)
<1> DEFINE turn(T, x) == IF T = {} THEN base ELSE fs[Max(T)][x]
           Upto(it, k) == \A T \in SUBSET (1..k) : it[T] = turn(T, it[T \ {Max(T)}])
           Bad == {k \in 0..n : ~ \E it \in [SUBSET (1..k) -> S] : Upto(it, k)}
<1>1. Bad = {}
  <2> SUFFICES ASSUME Bad # {} PROVE FALSE
    OBVIOUS
  <2>1. PICK m \in Bad : \A k \in Bad : m <= k
    <3>1. Bad \subseteq Nat
      OBVIOUS
    <3> HIDE DEF Bad
    <3> QED  BY <3>1, LeastNat
  <2>2. m # 0
    <3> DEFINE it == [T \in SUBSET (1..0) |-> base]
    <3>1. ASSUME NEW T \in SUBSET (1..0) PROVE it[T] = turn(T, it[T \ {Max(T)}])
      <4>1. T = {}
        OBVIOUS
      <4> QED  BY <4>1
    <3>2. it \in [SUBSET (1..0) -> S]
      OBVIOUS
    <3> HIDE DEF it, turn
    <3>3. Upto(it, 0)
      BY <3>1
    <3> HIDE DEF Upto
    <3> QED  BY <3>2, <3>3
  <2>3. m \in 1..n /\ m - 1 \in 0..n /\ m - 1 \notin Bad
    <3>1. m \in 0..n
      OBVIOUS
    <3>2. m \in 1..n /\ m - 1 \in 0..n /\ ~ (m <= m - 1)
      BY <2>2, <3>1
    <3> HIDE DEF Bad
    <3> QED  BY <2>1, <3>2
  <2>4. PICK f \in [SUBSET (1..(m - 1)) -> S] : Upto(f, m - 1)
    <3> HIDE DEF Upto
    <3> QED  BY <2>3
  <2>5. ASSUME NEW T \in SUBSET (1..m)
        PROVE  T \ {Max(T)} \in SUBSET (1..(m - 1)) /\ (T # {} => Max(T) \in 1..m)
    <3>1. CASE T = {}
      BY <3>1
    <3>2. CASE T # {}
      <4>1. m \in Nat /\ T \subseteq 1..m
        BY <2>3
      <4> QED  BY <3>2, <4>1, BelowGreatest
    <3> QED  BY <3>1, <3>2
  <2>6. ASSUME NEW T \in SUBSET (1..m), NEW x \in S PROVE turn(T, x) \in S
    <3>1. CASE T = {}
      BY <3>1
    <3>2. CASE T # {}
      <4>1. Max(T) \in 1..n
        <5>1. Max(T) \in 1..m
          BY <3>2, <2>5
        <5> QED  BY <5>1, <2>3
      <4>2. fs[Max(T)] \in [S -> S]
        BY <4>1
      <4> QED  BY <3>2, <4>2
    <3> QED  BY <3>1, <3>2
  <2> HIDE DEF turn
  <2> DEFINE g == [T \in SUBSET (1..m) |-> IF T \in SUBSET (1..(m - 1)) THEN f[T]
                                           ELSE turn(T, f[T \ {Max(T)}])]
  <2>7. g \in [SUBSET (1..m) -> S]
    <3>1. ASSUME NEW T \in SUBSET (1..m)
          PROVE  (IF T \in SUBSET (1..(m - 1)) THEN f[T] ELSE turn(T, f[T \ {Max(T)}])) \in S
      <4>1. f[T \ {Max(T)}] \in S
        BY <2>4, <2>5
      <4>2. turn(T, f[T \ {Max(T)}]) \in S
        BY <4>1, <2>6
      <4> QED  BY <4>2, <2>4
    <3> QED  BY <3>1
  <2>8. ASSUME NEW T \in SUBSET (1..m) PROVE g[T] = turn(T, g[T \ {Max(T)}])
    <3> DEFINE rest == T \ {Max(T)}
    <3>1. rest \in SUBSET (1..(m - 1))
      BY <2>5
    <3>2. rest \in SUBSET (1..m)
      OBVIOUS
    <3> HIDE DEF rest
    <3>3. g[rest] = f[rest]
      BY <3>1, <3>2
    <3>4. CASE T \in SUBSET (1..(m - 1))
      <4>1. f[T] = turn(T, f[T \ {Max(T)}])
        BY <3>4, <2>4
      <4>2. g[T] = f[T]
        BY <3>4
      <4> HIDE DEF g
      <4> QED  BY <4>1, <4>2, <3>3 DEF rest
    <3>5. CASE T \notin SUBSET (1..(m - 1))
      <4>2. g[T] = turn(T, f[T \ {Max(T)}])
        BY <3>5
      <4> HIDE DEF g
      <4> QED  BY <4>2, <3>3 DEF rest
    <3> QED  BY <3>4, <3>5
  <2> HIDE DEF g
  <2>9. Upto(g, m)
    BY <2>8
  <2> HIDE DEF Upto
  <2> QED  BY <2>7, <2>9
<1>2. n \in 0..n
  OBVIOUS
<1>3. \E f \in [SUBSET (1..n) -> S] : Upto(f, n)
  <2> HIDE DEF Upto
  <2>1. n \notin Bad
    <3> HIDE DEF Bad
    <3> QED  BY <1>1
  <2> QED  BY <2>1, <1>2
<1> QED  BY <1>3, Zenon DEF Folds

\* The sets of positions a fold goes through.
LEMMA UptoPosition ==
    ASSUME NEW n \in Nat, NEW k \in 1..n
    PROVE  /\ 1..k \in SUBSET (1..n) /\ 1..k # {} /\ Max(1..k) = k
           /\ (1..k) \ {Max(1..k)} = 1..(k - 1)
<1>1. 1..k \in SUBSET (1..n) /\ 1..k # {} /\ k \in 1..k /\ k \in Nat
  OBVIOUS
<1>2. Max(1..k) \in 1..k /\ \A y \in 1..k : Max(1..k) >= y
  BY <1>1, LastPosition
<1>3. Max(1..k) = k
  BY <1>1, <1>2
<1>4. (1..k) \ {k} = 1..(k - 1)
  OBVIOUS
<1> QED  BY <1>1, <1>3, <1>4

-----------------------------------------------------------------------------
(* Kernel: what topological_sort keeps *)

SortState(g) ==
    [queue : Seq(Nodes(g)), degree : [Nodes(g) -> Int], sorted : Seq(Nodes(g))]

\* What is queued are nodes.
LEMMA EnqueueTyped ==
    ASSUME NEW S, NEW degree, NEW q \in Seq(S), NEW n \in S
    PROVE  Enqueue(degree, q, n) \in Seq(S)
<1>1. Append(q, n) \in Seq(S)
  BY AppendProperties
<1> QED  BY <1>1 DEF Enqueue

\* Taking an edge away leaves a state of the sort.
LEMMA RelaxedTyped ==
    ASSUME NEW g, NEW s \in SortState(g), NEW n, NEW edge \in Nodes(g) \X Nodes(g)
    PROVE  Relaxed(s, edge, n) \in SortState(g)
<1> DEFINE degree == [s.degree EXCEPT ![edge[2]] = @ - 1]
           queue == Enqueue(degree, s.queue, edge[2])
<1>1. s.queue \in Seq(Nodes(g)) /\ s.degree \in [Nodes(g) -> Int] /\ edge[2] \in Nodes(g)
  BY DEF SortState
<1>2. degree \in [Nodes(g) -> Int]
  BY <1>1
<1>3. queue \in Seq(Nodes(g))
  <2> HIDE DEF degree
  <2> QED  BY <1>1, EnqueueTyped
<1>4. Relaxed(s, edge, n) = IF edge[1] # n THEN s
                            ELSE [s EXCEPT !.degree = degree, !.queue = queue]
  BY DEF Relaxed
<1> HIDE DEF degree, queue
<1> QED  BY <1>2, <1>3, <1>4 DEF SortState

\* The functions by which the folds are defined.
Relaxes(it, g, s, n) ==
    it = [T \in SUBSET (DOMAIN g.edges) |->
             IF T = {} THEN s ELSE Relaxed(it[T \ {Max(T)}], g.edges[Max(T)], n)]

Queues(it, g, degree) ==
    it = [T \in SUBSET (DOMAIN g.order) |->
             IF T = {} THEN <<>> ELSE Enqueue(degree, it[T \ {Max(T)}], g.order[Max(T)])]

\* The edges are taken away one after the other.
LEMMA RelaxIs ==
    ASSUME NEW g, WellFormed(g), NEW s \in SortState(g), NEW n
    PROVE  \E r : /\ r[0] = s /\ Relax(g, s, n) = r[Len(g.edges)]
                  /\ \A k \in 1..Len(g.edges) : r[k] = Relaxed(r[k - 1], g.edges[k], n)
<1> DEFINE l == Len(g.edges)
           S == SortState(g)
           fs == [k \in 1..l |-> [x \in S |-> Relaxed(x, g.edges[k], n)]]
<1>1. l \in Nat /\ DOMAIN g.edges = 1..l /\ \A k \in 1..l : g.edges[k] \in Nodes(g) \X Nodes(g)
  BY LenProperties, ElementOfSeq DEF WellFormed
<1> HIDE DEF l
<1>2. fs \in [1..l -> [S -> S]]
  BY <1>1, RelaxedTyped
<1>3. PICK f \in [SUBSET (1..l) -> S] : Folds(f, s, fs, l)
  <2>1. s \in S
    OBVIOUS
  <2> HIDE DEF S, fs
  <2> QED  BY <1>1, <1>2, <2>1, FoldExists
<1>4. ASSUME NEW T \in SUBSET (1..l)
      PROVE  f[T] = IF T = {} THEN s ELSE Relaxed(f[T \ {Max(T)}], g.edges[Max(T)], n)
  <2>1. T # {} => Max(T) \in 1..l
    <3>1. T \subseteq 1..l
      OBVIOUS
    <3> QED  BY <1>1, <3>1, BelowGreatest
  <2>2. f[T \ {Max(T)}] \in S
    OBVIOUS
  <2> HIDE DEF S
  <2>3. T # {} => fs[Max(T)][f[T \ {Max(T)}]] = Relaxed(f[T \ {Max(T)}], g.edges[Max(T)], n)
    BY <2>1, <2>2
  <2> HIDE DEF fs
  <2> QED  BY <1>3, <2>3 DEF Folds
<1>5. f = [T \in SUBSET (1..l) |-> f[T]]
  <2> HIDE DEF S
  <2> QED  OBVIOUS
<1>6. f = [T \in SUBSET (1..l) |->
             IF T = {} THEN s ELSE Relaxed(f[T \ {Max(T)}], g.edges[Max(T)], n)]
  BY <1>4, <1>5
<1>7. Relaxes(f, g, s, n)
  BY <1>1, <1>6 DEF Relaxes
<1> DEFINE it == CHOOSE h : Relaxes(h, g, s, n)
<1>8. Relaxes(it, g, s, n)
  BY <1>7, Zenon
<1>9. Relax(g, s, n) = it[DOMAIN g.edges]
  BY Zenon DEF Relax, FoldLeft, MapThenFoldSet, Relaxes
<1> HIDE DEF it
<1>10. \A T \in SUBSET (1..l) :
          it[T] = IF T = {} THEN s ELSE Relaxed(it[T \ {Max(T)}], g.edges[Max(T)], n)
  BY <1>1, <1>8, Zenon DEF Relaxes
<1> DEFINE r == [k \in 0..l |-> it[1..k]]
<1>11. r[0] = s
  <2>1. it[{}] = s
    BY <1>10
  <2>2. 1..0 = {} /\ 0 \in 0..l
    BY <1>1
  <2> QED  BY <2>1, <2>2
<1>12. r[l] = Relax(g, s, n)
  <2>1. l \in 0..l
    BY <1>1
  <2> QED  BY <1>1, <1>9, <2>1
<1>13. ASSUME NEW k \in 1..l PROVE r[k] = Relaxed(r[k - 1], g.edges[k], n)
  <2>1. k \in 0..l /\ k - 1 \in 0..l
    BY <1>1
  <2>2. r[k] = it[1..k] /\ r[k - 1] = it[1..(k - 1)]
    BY <2>1
  <2>3. it[1..k] = Relaxed(it[(1..k) \ {Max(1..k)}], g.edges[Max(1..k)], n)
    BY <1>1, <1>10, UptoPosition
  <2>4. Max(1..k) = k /\ (1..k) \ {Max(1..k)} = 1..(k - 1)
    BY <1>1, UptoPosition
  <2> HIDE DEF r
  <2> QED  BY <2>2, <2>3, <2>4
<1> HIDE DEF r
<1> QED  BY <1>11, <1>12, <1>13 DEF l

\* The first queue.
FirstQueue(g, degree) ==
    FoldLeft(LAMBDA q, n : Enqueue(degree, q, n), <<>>, g.order)

\* The first queue, node by node.
LEMMA FirstQueueIs ==
    ASSUME NEW g, WellFormed(g), NEW degree
    PROVE  \E r : /\ r[0] = <<>> /\ FirstQueue(g, degree) = r[Len(g.order)]
                  /\ \A k \in 1..Len(g.order) : r[k] = Enqueue(degree, r[k - 1], g.order[k])
<1> DEFINE l == Len(g.order)
           S == Seq(Nodes(g))
           fs == [k \in 1..l |-> [x \in S |-> Enqueue(degree, x, g.order[k])]]
<1>1. l \in Nat /\ DOMAIN g.order = 1..l /\ \A k \in 1..l : g.order[k] \in Nodes(g)
  BY LenProperties, ElementOfSeq DEF WellFormed
<1> HIDE DEF l
<1>2. fs \in [1..l -> [S -> S]]
  BY <1>1, EnqueueTyped
<1>3. PICK f \in [SUBSET (1..l) -> S] : Folds(f, <<>>, fs, l)
  <2>1. <<>> \in S
    BY EmptySeq
  <2> HIDE DEF S, fs
  <2> QED  BY <1>1, <1>2, <2>1, FoldExists
<1>4. ASSUME NEW T \in SUBSET (1..l)
      PROVE  f[T] = IF T = {} THEN <<>> ELSE Enqueue(degree, f[T \ {Max(T)}], g.order[Max(T)])
  <2>1. T # {} => Max(T) \in 1..l
    <3>1. T \subseteq 1..l
      OBVIOUS
    <3> QED  BY <1>1, <3>1, BelowGreatest
  <2>2. f[T \ {Max(T)}] \in S
    OBVIOUS
  <2> HIDE DEF S
  <2>3. T # {} => fs[Max(T)][f[T \ {Max(T)}]] = Enqueue(degree, f[T \ {Max(T)}], g.order[Max(T)])
    BY <2>1, <2>2
  <2> HIDE DEF fs
  <2> QED  BY <1>3, <2>3 DEF Folds
<1>5. f = [T \in SUBSET (1..l) |-> f[T]]
  <2> HIDE DEF S
  <2> QED  OBVIOUS
<1>6. f = [T \in SUBSET (1..l) |->
             IF T = {} THEN <<>> ELSE Enqueue(degree, f[T \ {Max(T)}], g.order[Max(T)])]
  BY <1>4, <1>5
<1>7. Queues(f, g, degree)
  BY <1>1, <1>6 DEF Queues
<1> DEFINE it == CHOOSE h : Queues(h, g, degree)
<1>8. Queues(it, g, degree)
  BY <1>7, Zenon
<1>9. FirstQueue(g, degree) = it[DOMAIN g.order]
  BY Zenon DEF FirstQueue, FoldLeft, MapThenFoldSet, Queues
<1> HIDE DEF it
<1>10. \A T \in SUBSET (1..l) :
          it[T] = IF T = {} THEN <<>> ELSE Enqueue(degree, it[T \ {Max(T)}], g.order[Max(T)])
  BY <1>1, <1>8, Zenon DEF Queues
<1> DEFINE r == [k \in 0..l |-> it[1..k]]
<1>11. r[0] = <<>>
  <2>1. it[{}] = <<>>
    BY <1>10
  <2>2. 1..0 = {} /\ 0 \in 0..l
    BY <1>1
  <2> QED  BY <2>1, <2>2
<1>12. r[l] = FirstQueue(g, degree)
  <2>1. l \in 0..l
    BY <1>1
  <2> QED  BY <1>1, <1>9, <2>1
<1>13. ASSUME NEW k \in 1..l PROVE r[k] = Enqueue(degree, r[k - 1], g.order[k])
  <2>1. k \in 0..l /\ k - 1 \in 0..l
    BY <1>1
  <2>2. r[k] = it[1..k] /\ r[k - 1] = it[1..(k - 1)]
    BY <2>1
  <2>3. it[1..k] = Enqueue(degree, it[(1..k) \ {Max(1..k)}], g.order[Max(1..k)])
    BY <1>1, <1>10, UptoPosition
  <2>4. Max(1..k) = k /\ (1..k) \ {Max(1..k)} = 1..(k - 1)
    BY <1>1, UptoPosition
  <2> HIDE DEF r
  <2> QED  BY <2>2, <2>3, <2>4
<1> HIDE DEF r
<1> QED  BY <1>11, <1>12, <1>13 DEF l

\* A degree is the number of edges from nodes not in out.
Waits(g, out, degree) ==
    \A x \in Nodes(g) : degree[x] = Cardinality(EdgesInto(g, Nodes(g) \ out, x))

\* The edges into x that are still counted: out has been relaxed, and n for
\* the first k edges.
Open(g, out, n, k, x) ==
    {i \in DOMAIN g.edges : /\ g.edges[i][2] = x
                            /\ g.edges[i][1] \notin out
                            /\ ~ (g.edges[i][1] = n /\ i <= k)}

\* Queued are the nodes with nothing left to wait for that are not sorted, once.
QueueFits(g, out, queue, degree) ==
    /\ IsInjective(queue)
    /\ ToSet(queue) \cap out = {}
    /\ \A x \in Nodes(g) : x \in out \cup ToSet(queue) <=> degree[x] = 0

\* The degrees are the numbers of these edges.
Counts(g, out, n, k, degree) ==
    \A x \in Nodes(g) : degree[x] = Cardinality(Open(g, out, n, k, x))

SortFits(g, out, n, k, s) ==
    /\ s \in SortState(g)
    /\ Counts(g, out, n, k, s.degree)
    /\ QueueFits(g, out \cup {n}, s.queue, s.degree)

\* A sequence without repetitions gets a new member at its end.
LEMMA AppendOnce ==
    ASSUME NEW S, NEW q \in Seq(S), NEW x \in S, IsInjective(q), x \notin ToSet(q)
    PROVE  /\ Append(q, x) \in Seq(S) /\ IsInjective(Append(q, x))
           /\ ToSet(Append(q, x)) = ToSet(q) \cup {x}
<1> DEFINE r == Append(q, x)
           l == Len(q)
<1>1. /\ r \in Seq(S) /\ l \in Nat /\ DOMAIN q = 1..l /\ DOMAIN r = 1..(l + 1)
      /\ \A i \in 1..l : r[i] = q[i]
      /\ r[l + 1] = x
  BY AppendProperties, LenProperties
<1> HIDE DEF r, l
<1>2. 1..(l + 1) = (1..l) \cup {l + 1} /\ l + 1 \notin 1..l
  BY <1>1
<1>3. ToSet(r) = ToSet(q) \cup {x}
  BY <1>1, <1>2 DEF ToSet
<1>4. \A i \in 1..l : q[i] # x
  BY <1>1 DEF ToSet
<1>5. IsInjective(r)
  BY <1>1, <1>2, <1>4 DEF IsInjective
<1> QED  BY <1>1, <1>3, <1>5 DEF r

\* The edges that still wait are finitely many.
LEMMA OpenTyped ==
    ASSUME NEW g, WellFormed(g), NEW out, NEW n, NEW k, NEW x
    PROVE  /\ IsFiniteSet(Open(g, out, n, k, x))
           /\ Cardinality(Open(g, out, n, k, x)) \in Nat
<1>1. IsFiniteSet(DOMAIN g.edges)
  BY EdgesFinite
<1>2. Open(g, out, n, k, x) \subseteq DOMAIN g.edges
  BY DEF Open
<1> QED  BY <1>1, <1>2, FS_Subset, FS_CardinalityType

\* One edge more.
LEMMA RelaxedFits ==
    ASSUME NEW g, WellFormed(g), NEW s, NEW out, NEW n, n \notin out,
           NEW k \in 1..Len(g.edges), NEW j, j = k - 1,
           SortFits(g, out, n, j, s),
           NEW t, t = Relaxed(s, g.edges[k], n)
    PROVE  SortFits(g, out, n, k, t) /\ t.sorted = s.sorted
<1> USE DEF SortFits
<1> DEFINE N == Nodes(g)
           e == g.edges[k]
           y == e[2]
<1>1. Len(g.edges) \in Nat /\ DOMAIN g.edges = 1..Len(g.edges) /\ e \in N \X N /\ y \in N
  BY LenProperties, ElementOfSeq DEF WellFormed
<1>2. s.queue \in Seq(N) /\ s.degree \in [N -> Int] /\ s.sorted \in Seq(N)
  BY DEF SortState
<1>3. t \in SortState(g)
  BY <1>1, RelaxedTyped
<1>4. \A i \in DOMAIN g.edges : i <= k <=> i <= j \/ i = k
  BY <1>1
<1>5. CASE e[1] # n
  <2>1. t = s
    BY <1>5 DEF Relaxed
  <2>2. \A x \in N : Open(g, out, n, k, x) = Open(g, out, n, j, x)
    BY <1>4, <1>5 DEF Open
  <2> QED  BY <1>3, <2>1, <2>2 DEF Counts
<1>6. CASE e[1] = n
  <2> DEFINE degree == [s.degree EXCEPT ![y] = @ - 1]
             queue == Enqueue(degree, s.queue, y)
  <2>1. t = [s EXCEPT !.degree = degree, !.queue = queue]
    BY <1>6 DEF Relaxed
  <2>2. t.degree = degree /\ t.queue = queue /\ t.sorted = s.sorted
    BY <2>1 DEF SortState
  <2>3. degree \in [N -> Int] /\ degree[y] = s.degree[y] - 1
        /\ \A x \in N : x # y => degree[x] = s.degree[x]
    BY <1>1, <1>2
  <2> HIDE DEF degree, queue
  <2>4. ASSUME NEW x \in N, x # y PROVE Open(g, out, n, k, x) = Open(g, out, n, j, x)
    BY <1>4, <2>4 DEF Open
  <2>5. /\ k \in Open(g, out, n, j, y)
        /\ Open(g, out, n, k, y) = Open(g, out, n, j, y) \ {k}
    BY <1>1, <1>4, <1>6 DEF Open
  <2>6. /\ Cardinality(Open(g, out, n, k, y)) = Cardinality(Open(g, out, n, j, y)) - 1
        /\ Cardinality(Open(g, out, n, j, y)) # 0
    <3> DEFINE O == Open(g, out, n, j, y)
    <3>1. IsFiniteSet(O) /\ Cardinality(O) \in Nat
      BY OpenTyped
    <3> HIDE DEF O
    <3>2. k \in O /\ Open(g, out, n, k, y) = O \ {k}
      BY <2>5 DEF O
    <3>3. Cardinality(O \ {k}) = Cardinality(O) - 1
      BY <3>1, <3>2, FS_RemoveElement
    <3>4. Cardinality(O) # 0
      BY <3>1, <3>2, FS_EmptySet
    <3> QED  BY <3>2, <3>3, <3>4 DEF O
  <2>7. \A x \in N : degree[x] = Cardinality(Open(g, out, n, k, x))
    <3>1. ASSUME NEW x \in N PROVE degree[x] = Cardinality(Open(g, out, n, k, x))
      <4>1. CASE x = y
        BY <4>1, <2>3, <2>6 DEF Counts
      <4>2. CASE x # y
        BY <4>2, <2>3, <2>4 DEF Counts
      <4> QED  BY <4>1, <4>2
    <3> QED  BY <3>1
  <2>8. s.degree[y] # 0
    BY <1>1, <2>6 DEF Counts
  <2>9. y \notin out \cup {n} /\ y \notin ToSet(s.queue)
    BY <1>1, <2>8 DEF QueueFits
  <2>10. QueueFits(g, out \cup {n}, queue, degree)
    <3>1. CASE degree[y] = 0
      <4>1. queue = Append(s.queue, y)
        BY <3>1 DEF queue, Enqueue
      <4>2. IsInjective(queue) /\ ToSet(queue) = ToSet(s.queue) \cup {y}
        <5>1. IsInjective(s.queue)
          BY DEF QueueFits
        <5> QED  BY <4>1, <5>1, <1>1, <1>2, <2>9, AppendOnce
      <4>3. ASSUME NEW x \in N
            PROVE  x \in (out \cup {n}) \cup ToSet(queue) <=> degree[x] = 0
        <5>1. x \in (out \cup {n}) \cup ToSet(s.queue) <=> s.degree[x] = 0
          BY DEF QueueFits
        <5>2. CASE x = y
          BY <5>2, <3>1, <4>2
        <5>3. CASE x # y
          BY <5>1, <5>3, <2>3, <4>2
        <5> QED  BY <5>2, <5>3
      <4>4. ToSet(queue) \cap (out \cup {n}) = {}
        <5>1. ToSet(s.queue) \cap (out \cup {n}) = {}
          BY DEF QueueFits
        <5> QED  BY <5>1, <4>2, <2>9
      <4> QED  BY <4>2, <4>3, <4>4 DEF QueueFits
    <3>2. CASE degree[y] # 0
      <4>1. queue = s.queue
        BY <3>2 DEF queue, Enqueue
      <4>2. ASSUME NEW x \in N
            PROVE  x \in (out \cup {n}) \cup ToSet(queue) <=> degree[x] = 0
        <5>1. x \in (out \cup {n}) \cup ToSet(s.queue) <=> s.degree[x] = 0
          BY DEF QueueFits
        <5>2. CASE x = y
          BY <5>2, <3>2, <4>1, <2>9
        <5>3. CASE x # y
          BY <5>1, <5>3, <2>3, <4>1
        <5> QED  BY <5>2, <5>3
      <4> QED  BY <4>1, <4>2 DEF QueueFits
    <3> QED  BY <3>1, <3>2
  <2> QED  BY <1>3, <2>2, <2>7, <2>10 DEF Counts
<1> QED  BY <1>5, <1>6

\* All edges of n.
LEMMA RelaxFits ==
    ASSUME NEW g, WellFormed(g), NEW s \in SortState(g), NEW out, NEW n, n \notin out,
           Waits(g, out, s.degree),
           QueueFits(g, out \cup {n}, s.queue, s.degree)
    PROVE  /\ Relax(g, s, n) \in SortState(g) /\ Relax(g, s, n).sorted = s.sorted
           /\ Waits(g, out \cup {n}, Relax(g, s, n).degree)
           /\ QueueFits(g, out \cup {n}, Relax(g, s, n).queue, Relax(g, s, n).degree)
<1> DEFINE l == Len(g.edges)
           N == Nodes(g)
<1>1. l \in Nat /\ DOMAIN g.edges = 1..l /\ \A i \in 1..l : g.edges[i] \in N \X N
  BY LenProperties, ElementOfSeq DEF WellFormed
<1>2. PICK r : /\ r[0] = s /\ Relax(g, s, n) = r[Len(g.edges)]
               /\ \A k \in 1..Len(g.edges) : r[k] = Relaxed(r[k - 1], g.edges[k], n)
  BY RelaxIs
<1> DEFINE Fits(k) == SortFits(g, out, n, k, r[k]) /\ r[k].sorted = s.sorted
           Bad == {k \in 0..l : ~ Fits(k)}
<1>3. Fits(0)
  <2>1. \A x \in N : Open(g, out, n, 0, x) = EdgesInto(g, N \ out, x)
    BY <1>1 DEF Open, EdgesInto
  <2> QED  BY <1>2, <2>1 DEF Counts, SortFits, Waits
<1>4. ASSUME NEW k \in 1..l, Fits(k - 1) PROVE Fits(k)
  <2>1. r[k] = Relaxed(r[k - 1], g.edges[k], n)
    BY <1>2
  <2> DEFINE j == k - 1
  <2>2. SortFits(g, out, n, j, r[j]) /\ r[j].sorted = s.sorted /\ j = k - 1
    BY <1>4
  <2>3. r[k] = Relaxed(r[j], g.edges[k], n)
    BY <2>1
  <2> HIDE DEF j
  <2>4. SortFits(g, out, n, k, r[k]) /\ r[k].sorted = r[j].sorted
    BY <2>2, <2>3, RelaxedFits
  <2> QED  BY <2>2, <2>4
<1> HIDE DEF Fits
<1>5. Bad = {}
  <2> SUFFICES ASSUME Bad # {} PROVE FALSE
    OBVIOUS
  <2>1. PICK m \in Bad : \A k \in Bad : m <= k
    <3>1. Bad \subseteq Nat
      BY <1>1
    <3> QED  BY <3>1, LeastNat
  <2>2. m \in 1..l /\ m - 1 \in 0..l /\ ~ (m <= m - 1)
    <3>1. m \in 0..l /\ m # 0
      BY <1>3
    <3> QED  BY <3>1, <1>1
  <2>3. m - 1 \notin Bad
    <3> HIDE DEF Bad
    <3> QED  BY <2>1, <2>2
  <2>4. Fits(m - 1)
    BY <2>2, <2>3
  <2> QED  BY <2>2, <2>4, <1>4
<1>6. Fits(l)
  <2>1. l \in 0..l
    BY <1>1
  <2> QED  BY <1>5, <2>1
<1>7. \A x \in N : Open(g, out, n, l, x) = EdgesInto(g, N \ (out \cup {n}), x)
  BY <1>1 DEF Open, EdgesInto
<1> QED  BY <1>2, <1>6, <1>7 DEF Fits, Counts, SortFits, Waits

\* A sequence without repetitions loses its first member.
LEMMA TakenOnce ==
    ASSUME NEW S, NEW q \in Seq(S), q # <<>>, IsInjective(q)
    PROVE  /\ Head(q) \in S /\ Tail(q) \in Seq(S) /\ IsInjective(Tail(q))
           /\ ToSet(q) = ToSet(Tail(q)) \cup {Head(q)} /\ Head(q) \notin ToSet(Tail(q))
<1> DEFINE l == Len(q)
           t == Tail(q)
<1>1. l \in Nat /\ l # 0 /\ DOMAIN q = 1..l
  BY LenProperties, EmptySeq
<1>2. /\ t \in Seq(S) /\ Len(t) = l - 1 /\ DOMAIN t = 1..(l - 1) /\ Head(q) = q[1] /\ Head(q) \in S
      /\ \A i \in 1..(l - 1) : t[i] = q[i + 1]
  BY HeadTailProperties, LenProperties
<1> HIDE DEF l, t
<1>3. \A i \in 1..(l - 1) : i + 1 \in 1..l /\ i + 1 # 1
  BY <1>1
<1>4. \A i \in 1..l : i = 1 \/ (i - 1 \in 1..(l - 1) /\ (i - 1) + 1 = i)
  BY <1>1
<1>5. 1 \in 1..l
  BY <1>1
<1>6. IsInjective(t)
  BY <1>1, <1>2, <1>3 DEF IsInjective
<1>7. q[1] \notin ToSet(t)
  BY <1>1, <1>2, <1>3, <1>5 DEF ToSet, IsInjective
<1>8. ToSet(q) = ToSet(t) \cup {q[1]}
  <2>1. ASSUME NEW x \in ToSet(q) PROVE x \in ToSet(t) \cup {q[1]}
    <3>1. PICK i \in 1..l : x = q[i]
      BY <1>1 DEF ToSet
    <3>2. CASE i = 1
      BY <3>1, <3>2
    <3>3. CASE i # 1
      <4>1. i - 1 \in 1..(l - 1) /\ t[i - 1] = x
        BY <1>2, <1>4, <3>1, <3>3
      <4> QED  BY <4>1, <1>2 DEF ToSet
    <3> QED  BY <3>2, <3>3
  <2>2. ToSet(t) \subseteq ToSet(q)
    BY <1>1, <1>2, <1>3 DEF ToSet
  <2>3. q[1] \in ToSet(q)
    BY <1>1, <1>5 DEF ToSet
  <2> QED  BY <2>1, <2>2, <2>3
<1> QED  BY <1>2, <1>6, <1>7, <1>8 DEF t

\* Every node is behind all it depends on.
Ordered(g, sorted) ==
    \A j \in DOMAIN sorted, m \in Nodes(g) :
        Edge(g, m, sorted[j]) => \E i \in DOMAIN sorted : i < j /\ sorted[i] = m

SortSound(g, s) ==
    /\ s \in SortState(g)
    /\ IsInjective(s.sorted) /\ Ordered(g, s.sorted)
    /\ Waits(g, ToSet(s.sorted), s.degree)
    /\ QueueFits(g, ToSet(s.sorted), s.queue, s.degree)

\* A turn of the sort takes one node from the queue, or the queue is empty.
LEMMA SortNextSound ==
    ASSUME NEW g, WellFormed(g), NEW s, SortSound(g, s)
    PROVE  LET t == SortNext(g, s)
           IN  /\ SortSound(g, t)
               /\ IF s.queue = <<>> THEN t = s ELSE Len(t.sorted) = Len(s.sorted) + 1
<1> DEFINE t == SortNext(g, s)
           N == Nodes(g)
           n == Head(s.queue)
           out == ToSet(s.sorted)
           u == [s EXCEPT !.queue = Tail(@), !.sorted = Append(@, n)]
<1>1. s.queue \in Seq(N) /\ s.degree \in [N -> Int] /\ s.sorted \in Seq(N) /\ s \in SortState(g)
  BY DEF SortSound, SortState
<1>2. CASE s.queue = <<>>
  <2>1. t = s
    BY <1>2 DEF SortNext
  <2> QED  BY <1>2, <2>1
<1>3. CASE s.queue # <<>>
  <2>1. t = Relax(g, u, n)
    BY <1>3 DEF SortNext
  <2>2. IsInjective(s.queue) /\ ToSet(s.queue) \cap out = {}
    BY DEF SortSound, QueueFits
  <2>3. /\ n \in N /\ Tail(s.queue) \in Seq(N) /\ IsInjective(Tail(s.queue))
        /\ ToSet(s.queue) = ToSet(Tail(s.queue)) \cup {n} /\ n \notin ToSet(Tail(s.queue))
    BY <1>1, <1>3, <2>2, TakenOnce
  <2>4. n \notin out
    BY <2>2, <2>3
  <2>5. IsInjective(s.sorted)
    BY DEF SortSound
  <2>6. /\ Append(s.sorted, n) \in Seq(N) /\ IsInjective(Append(s.sorted, n))
        /\ ToSet(Append(s.sorted, n)) = out \cup {n}
    <3> HIDE DEF n, N
    <3> QED  BY <1>1, <2>3, <2>4, <2>5, AppendOnce
  <2> HIDE DEF n
  <2>7. u \in SortState(g) /\ u.queue = Tail(s.queue) /\ u.degree = s.degree
        /\ u.sorted = Append(s.sorted, n)
    BY <1>1, <2>3, <2>6 DEF SortState
  <2> HIDE DEF u, t
  <2>8. Waits(g, out, u.degree)
    BY <2>7 DEF SortSound
  <2>9. QueueFits(g, out \cup {n}, u.queue, u.degree)
    <3>1. ToSet(u.queue) \cap (out \cup {n}) = {}
      BY <2>2, <2>3, <2>7
    <3>2. \A x \in N : x \in (out \cup {n}) \cup ToSet(u.queue) <=> u.degree[x] = 0
      <4>1. \A x \in N : x \in out \cup ToSet(s.queue) <=> s.degree[x] = 0
        BY DEF SortSound, QueueFits
      <4> HIDE DEF N, out
      <4> QED  BY <4>1, <2>3, <2>7
    <3>3. IsInjective(u.queue)
      BY <2>3, <2>7
    <3> QED  BY <3>1, <3>2, <3>3 DEF QueueFits
  <2> HIDE DEF out
  <2>10. /\ t \in SortState(g) /\ t.sorted = u.sorted
         /\ Waits(g, out \cup {n}, t.degree)
         /\ QueueFits(g, out \cup {n}, t.queue, t.degree)
    BY <2>1, <2>4, <2>7, <2>8, <2>9, RelaxFits
  <2>11. ToSet(t.sorted) = out \cup {n} /\ t.sorted = Append(s.sorted, n)
    BY <2>6, <2>7, <2>10
  <2>12. Ordered(g, t.sorted)
    <3> DEFINE l == Len(s.sorted)
               r == t.sorted
    <3>1. /\ l \in Nat /\ DOMAIN s.sorted = 1..l /\ DOMAIN r = 1..(l + 1)
          /\ \A i \in 1..l : r[i] = s.sorted[i]
          /\ r[l + 1] = n
      BY <1>1, <2>3, <2>11, AppendProperties, LenProperties
    <3> HIDE DEF l, r
    <3>2. \A i \in 1..l : i \in 1..(l + 1) /\ i < l + 1
      BY <3>1
    <3>3. \A i \in 1..(l + 1) : i \in 1..l \/ i = l + 1
      BY <3>1
    <3>4. ASSUME NEW j \in DOMAIN r, NEW m \in N, Edge(g, m, r[j])
          PROVE  \E i \in DOMAIN r : i < j /\ r[i] = m
      <4>1. CASE j \in 1..l
        <5>1. Edge(g, m, s.sorted[j])
          BY <3>1, <3>4, <4>1
        <5>2. PICK i \in DOMAIN s.sorted : i < j /\ s.sorted[i] = m
          BY <3>1, <4>1, <5>1 DEF SortSound, Ordered
        <5> QED  BY <5>2, <3>1, <3>2
      <4>2. CASE j = l + 1
        <5>1. Edge(g, m, n)
          BY <3>1, <3>4, <4>2
        <5>2. s.degree[n] = 0
          <6>1. n \in out \cup ToSet(s.queue)
            BY <2>3
          <6> QED  BY <6>1, <2>3 DEF SortSound, QueueFits, out
        <5>3. Cardinality(EdgesInto(g, N \ out, n)) = 0
          BY <5>2, <2>3 DEF SortSound, Waits, out
        <5>4. EdgesInto(g, N \ out, n) = {}
          BY <5>3, EdgesSplit
        <5>5. m \in out
          BY <5>1, <5>4, EdgeFrom
        <5>6. PICK i \in 1..l : s.sorted[i] = m
          BY <5>5, <3>1 DEF out, ToSet
        <5> QED  BY <5>6, <4>2, <3>1, <3>2
      <4> QED  BY <3>1, <3>3, <4>1, <4>2
    <3>5. Ordered(g, r)
      BY <3>4 DEF Ordered
    <3> QED  BY <3>5 DEF r
  <2>13. SortSound(g, t)
    <3>1. IsInjective(t.sorted)
      BY <2>6, <2>11
    <3> QED  BY <2>10, <2>11, <2>12, <3>1 DEF SortSound
  <2>14. Len(t.sorted) = Len(s.sorted) + 1
    BY <1>1, <2>3, <2>11, AppendProperties
  <2> QED  BY <1>3, <2>13, <2>14 DEF t
<1> QED  BY <1>2, <1>3

FirstSort(g) ==
    [queue |-> FirstQueue(g, InDegree(g)), degree |-> InDegree(g), sorted |-> <<>>]

\* At first no edge is taken away, and what has none is queued.
LEMMA FirstSortSound ==
    ASSUME NEW g, WellFormed(g)
    PROVE  SortSound(g, FirstSort(g))
<1> DEFINE l == Len(g.order)
           N == Nodes(g)
           degree == InDegree(g)
<1>1. /\ l \in Nat /\ DOMAIN g.order = 1..l /\ \A k \in 1..l : g.order[k] \in N
      /\ N = {g.order[k] : k \in 1..l}
      /\ \A i, j \in 1..l : g.order[i] = g.order[j] => i = j
  <2>1. g.order \in Seq(N) /\ IsInjective(g.order)
    BY DEF WellFormed
  <2>2. l \in Nat /\ DOMAIN g.order = 1..l /\ \A k \in 1..l : g.order[k] \in N
    <3> HIDE DEF N
    <3> QED  BY <2>1, LenProperties, ElementOfSeq
  <2> HIDE DEF l
  <2>3. N = {g.order[k] : k \in 1..l}
    BY <2>2 DEF Nodes, ToSet
  <2>4. \A i, j \in 1..l : g.order[i] = g.order[j] => i = j
    BY <2>1, <2>2 DEF IsInjective
  <2> QED  BY <2>2, <2>3, <2>4
<1>2. PICK r : /\ r[0] = <<>> /\ FirstQueue(g, degree) = r[Len(g.order)]
               /\ \A k \in 1..Len(g.order) : r[k] = Enqueue(degree, r[k - 1], g.order[k])
  BY FirstQueueIs
<1>3. degree \in [N -> Int]
  <2>1. \A x \in N : Cardinality(EdgesInto(g, N, x)) \in Nat
    BY EdgesSplit
  <2> QED  BY <2>1 DEF InDegree
<1> HIDE DEF l, N, degree
<1> DEFINE Q(k) == {g.order[i] : i \in {j \in 1..k : degree[g.order[j]] = 0}}
           Fits(k) == r[k] \in Seq(N) /\ IsInjective(r[k]) /\ ToSet(r[k]) = Q(k)
           Bad == {k \in 0..l : ~ Fits(k)}
<1>4. Fits(0)
  <2>1. <<>> \in Seq(N) /\ IsInjective(<<>>) /\ ToSet(<<>>) = {}
    BY EmptySeq DEF IsInjective, ToSet
  <2>2. Q(0) = {}
    OBVIOUS
  <2> QED  BY <1>2, <2>1, <2>2
<1>5. ASSUME NEW k \in 1..l, Fits(k - 1) PROVE Fits(k)
  <2> DEFINE x == g.order[k]
             q == r[k - 1]
  <2>1. r[k] = Enqueue(degree, q, x)
    BY <1>2 DEF l
  <2>2. x \in N /\ q \in Seq(N) /\ IsInjective(q) /\ ToSet(q) = Q(k - 1)
    BY <1>1, <1>5
  <2>3. \A i \in 1..k : i \in 1..(k - 1) \/ i = k
    BY <1>1
  <2>4. \A i \in 1..(k - 1) : i \in 1..k /\ i # k /\ i \in 1..l /\ k \in 1..l /\ k \in 1..k
    BY <1>1
  <2>5. k \in 1..k
    BY <1>1
  <2>6. Q(k) = Q(k - 1) \cup (IF degree[x] = 0 THEN {x} ELSE {})
    BY <2>3, <2>4, <2>5
  <2>7. x \notin Q(k - 1)
    BY <1>1, <2>4
  <2> HIDE DEF Q
  <2>8. CASE degree[x] = 0
    <3>1. r[k] = Append(q, x)
      BY <2>1, <2>8 DEF Enqueue
    <3> HIDE DEF x, q
    <3>2. r[k] \in Seq(N) /\ IsInjective(r[k]) /\ ToSet(r[k]) = Q(k - 1) \cup {x}
      BY <2>2, <2>7, <3>1, AppendOnce
    <3> QED  BY <2>6, <2>8, <3>2
  <2>9. CASE degree[x] # 0
    <3>1. r[k] = q
      BY <2>1, <2>9 DEF Enqueue
    <3> QED  BY <2>2, <2>6, <2>9, <3>1
  <2> QED  BY <2>8, <2>9
<1> HIDE DEF Fits
<1>6. Bad = {}
  <2> SUFFICES ASSUME Bad # {} PROVE FALSE
    OBVIOUS
  <2>1. PICK m \in Bad : \A k \in Bad : m <= k
    <3>1. Bad \subseteq Nat
      BY <1>1
    <3> QED  BY <3>1, LeastNat
  <2>2. m \in 1..l /\ m - 1 \in 0..l /\ ~ (m <= m - 1)
    <3>1. m \in 0..l /\ m # 0
      BY <1>4
    <3> QED  BY <3>1, <1>1
  <2>3. m - 1 \notin Bad
    <3> HIDE DEF Bad
    <3> QED  BY <2>1, <2>2
  <2>4. Fits(m - 1)
    BY <2>2, <2>3
  <2> QED  BY <2>2, <2>4, <1>5
<1>7. Fits(l)
  <2>1. l \in 0..l
    BY <1>1
  <2> QED  BY <1>6, <2>1
<1> DEFINE s == FirstSort(g)
           queue == FirstQueue(g, degree)
<1>8. queue \in Seq(N) /\ IsInjective(queue) /\ ToSet(queue) = Q(l)
  BY <1>2, <1>7 DEF Fits, l
<1>9. Q(l) = {x \in N : degree[x] = 0}
  BY <1>1
<1>10. s = [queue |-> queue, degree |-> degree, sorted |-> <<>>]
  BY DEF FirstSort, degree
<1> HIDE DEF queue, Q, s
<1>11. /\ s.queue = queue /\ s.degree = degree /\ s.sorted = <<>>
       /\ ToSet(<<>>) = {} /\ DOMAIN <<>> = {} /\ <<>> \in Seq(N)
  BY <1>10, EmptySeq DEF ToSet
<1>12. s \in SortState(g)
  BY <1>3, <1>8, <1>10, <1>11 DEF SortState, N
<1>13. IsInjective(s.sorted) /\ Ordered(g, s.sorted)
  BY <1>11 DEF IsInjective, Ordered
<1>14. Waits(g, ToSet(s.sorted), s.degree)
  <2>1. N \ {} = N
    OBVIOUS
  <2>2. \A x \in N : degree[x] = Cardinality(EdgesInto(g, N, x))
    BY DEF degree, InDegree, N
  <2> QED  BY <1>11, <2>1, <2>2 DEF Waits, N
<1>15. QueueFits(g, ToSet(s.sorted), s.queue, s.degree)
  <2>1. ToSet(queue) = {x \in N : degree[x] = 0}
    BY <1>8, <1>9
  <2>2. ToSet(s.queue) \cap ToSet(s.sorted) = {}
    BY <1>11
  <2>3. \A x \in Nodes(g) : x \in ToSet(s.sorted) \cup ToSet(s.queue) <=> s.degree[x] = 0
    BY <1>11, <2>1 DEF N
  <2> QED  BY <1>8, <1>11, <2>2, <2>3 DEF QueueFits
<1> QED  BY <1>12, <1>13, <1>14, <1>15 DEF SortSound, s

\* The function by which TopologicalSort is defined.
Sorting(f, g) ==
    f = [k \in 0..Len(g.order) |->
            IF k = 0 THEN FirstSort(g) ELSE SortNext(g, f[k - 1])]

\* The loop of the sort is defined.
LEMMA SortingExists ==
    ASSUME NEW g, WellFormed(g)
    PROVE  \E f : Sorting(f, g)
<1> DEFINE n == Len(g.order)
           S == {s \in SortState(g) : SortSound(g, s)}
           fs == [k \in 1..n |-> [s \in S |-> SortNext(g, s)]]
<1>1. n \in Nat
  BY LenProperties DEF WellFormed
<1>2. \A s \in S : SortNext(g, s) \in S
  BY SortNextSound DEF SortSound
<1>3. FirstSort(g) \in S
  BY FirstSortSound DEF SortSound
<1> HIDE DEF n, S
<1>4. fs \in [1..n -> [S -> S]]
  BY <1>2
<1>5. PICK f \in [0..n -> S] : Recurses(f, FirstSort(g), fs, n)
  <2> HIDE DEF fs
  <2> QED  BY <1>1, <1>3, <1>4, RecursionExists
<1>6. ASSUME NEW k \in 0..n
      PROVE  f[k] = IF k = 0 THEN FirstSort(g) ELSE SortNext(g, f[k - 1])
  <2>1. CASE k = 0
    BY <2>1, <1>5 DEF Recurses
  <2>2. CASE k # 0
    <3>1. k \in 1..n /\ k - 1 \in 0..n
      BY <2>2, <1>1
    <3>2. f[k - 1] \in S /\ f[k] = fs[k][f[k - 1]]
      BY <3>1, <1>5 DEF Recurses
    <3> QED  BY <2>2, <3>1, <3>2
  <2> QED  BY <2>1, <2>2
<1>7. f = [k \in 0..n |-> f[k]]
  BY <1>5
<1>8. f = [k \in 0..n |-> IF k = 0 THEN FirstSort(g) ELSE SortNext(g, f[k - 1])]
  BY <1>6, <1>7
<1>9. Sorting(f, g)
  BY <1>8 DEF Sorting, n
<1> QED  BY <1>9

\* As many members as positions, if none is there twice.
LEMMA MembersCounted ==
    ASSUME NEW S, NEW q \in Seq(S), IsInjective(q)
    PROVE  IsFiniteSet(ToSet(q)) /\ Cardinality(ToSet(q)) = Len(q)
<1> DEFINE l == Len(q)
<1>1. l \in Nat /\ DOMAIN q = 1..l
  BY LenProperties
<1>2. IsFiniteSet(1..l) /\ Cardinality(1..l) = l
  BY <1>1, FS_Interval
<1>3. q \in [1..l -> S]
  BY <1>1, LenProperties
<1> HIDE DEF l
<1>4. q \in [1..l -> ToSet(q)] /\ ToSet(q) = {q[i] : i \in 1..l}
  BY <1>1, <1>3 DEF ToSet
<1>5. q \in Surjection(1..l, ToSet(q)) /\ q \in Injection(1..l, ToSet(q))
  BY <1>1, <1>4 DEF Surjection, Injection, IsInjective
<1>6. IsFiniteSet(ToSet(q)) /\ (Cardinality(ToSet(q)) = Cardinality(1..l))
  BY <1>2, <1>5, FS_Surjection
<1> QED  BY <1>2, <1>6 DEF l

\* Each node a batch of its own.
OneByOne(sorted) == [i \in DOMAIN sorted |-> {sorted[i]}]

\* topological_sort gives a schedule, of all nodes unless it raises.
LEMMA SortSchedules ==
    ASSUME NEW g, WellFormed(g)
    PROVE  LET sorted == TopologicalSort(g)
           IN  /\ sorted \in Seq(Nodes(g)) /\ IsInjective(sorted)
               /\ Schedules(g, OneByOne(sorted))
               /\ Sorts(g) <=> ToSet(sorted) = Nodes(g)
<1> DEFINE n == Len(g.order)
           N == Nodes(g)
           f == CHOOSE h : Sorting(h, g)
           Turned(k) == f[k].queue = <<>> \/ Len(f[k].sorted) = k
           Bad == {k \in 0..n : ~ (SortSound(g, f[k]) /\ Turned(k))}
<1>1. n \in Nat
  BY LenProperties DEF WellFormed
<1>2. Sorting(f, g)
  BY SortingExists, Zenon
<1>3. TopologicalSort(g) = f[n].sorted
  BY Zenon DEF TopologicalSort, Sorting, FirstSort, FirstQueue
<1> HIDE DEF f
<1>4. \A k \in 0..n : f[k] = IF k = 0 THEN FirstSort(g) ELSE SortNext(g, f[k - 1])
  BY <1>2 DEF Sorting
<1>5. Bad = {}
  <2> SUFFICES ASSUME Bad # {} PROVE FALSE
    OBVIOUS
  <2>1. PICK m \in Bad : \A k \in Bad : m <= k
    <3>1. Bad \subseteq Nat
      BY <1>1
    <3> QED  BY <3>1, LeastNat
  <2>2. CASE m = 0
    <3>1. f[0] = FirstSort(g)
      BY <1>1, <1>4
    <3>2. SortSound(g, f[0])
      BY <3>1, FirstSortSound
    <3>3. f[0].sorted = <<>>
      BY <3>1 DEF FirstSort
    <3>4. Len(f[0].sorted) = 0
      BY <3>3
    <3> QED  BY <2>2, <3>2, <3>4
  <2>3. CASE m # 0
    <3>1. m \in 0..n /\ m - 1 \in 0..n /\ ~ (m <= m - 1) /\ (m - 1) + 1 = m
      BY <1>1, <2>3
    <3>2. m - 1 \notin Bad
      <4> HIDE DEF Bad
      <4> QED  BY <2>1, <3>1
    <3>3. SortSound(g, f[m - 1]) /\ Turned(m - 1)
      BY <3>1, <3>2
    <3>4. f[m] = SortNext(g, f[m - 1])
      BY <1>4, <2>3, <3>1
    <3> HIDE DEF Bad
    <3>5. /\ SortSound(g, f[m])
          /\ IF f[m - 1].queue = <<>> THEN f[m] = f[m - 1]
             ELSE Len(f[m].sorted) = Len(f[m - 1].sorted) + 1
      BY <3>3, <3>4, SortNextSound
    <3>6. Turned(m)
      <4>1. CASE f[m - 1].queue = <<>>
        BY <3>5, <4>1
      <4>2. CASE f[m - 1].queue # <<>>
        BY <3>1, <3>3, <3>5, <4>2
      <4> QED  BY <4>1, <4>2
    <3> HIDE DEF Turned
    <3> QED  BY <2>1, <3>5, <3>6 DEF Bad
  <2> QED  BY <2>2, <2>3
<1> DEFINE s == f[n]
           sorted == s.sorted
           out == ToSet(sorted)
<1>6. SortSound(g, s) /\ (s.queue = <<>> \/ Len(sorted) = n)
  BY <1>1, <1>5
<1> HIDE DEF s
<1>7. /\ s.queue \in Seq(N) /\ s.degree \in [N -> Int] /\ sorted \in Seq(N)
      /\ IsInjective(sorted) /\ Ordered(g, sorted)
      /\ Waits(g, out, s.degree)
      /\ QueueFits(g, out, s.queue, s.degree)
  BY <1>6 DEF SortSound, SortState
<1> HIDE DEF sorted
<1>8. IsFiniteSet(N) /\ Cardinality(N) = n
  <2>1. g.order \in Seq(N) /\ IsInjective(g.order)
    BY DEF WellFormed
  <2> QED  BY <2>1, MembersCounted DEF Nodes
<1>9. IsFiniteSet(out) /\ Cardinality(out) = Len(sorted)
  BY <1>7, MembersCounted
<1>10. /\ Len(sorted) \in Nat /\ DOMAIN sorted = 1..Len(sorted)
       /\ \A i \in DOMAIN sorted : sorted[i] \in N
       /\ out = {sorted[i] : i \in DOMAIN sorted} /\ out \subseteq N
  <2>1. /\ Len(sorted) \in Nat /\ DOMAIN sorted = 1..Len(sorted)
        /\ \A i \in DOMAIN sorted : sorted[i] \in N
    BY <1>7, LenProperties, ElementOfSeq
  <2>2. out = {sorted[i] : i \in DOMAIN sorted}
    BY DEF ToSet
  <2> QED  BY <2>1, <2>2
<1> HIDE DEF out
<1>11. Len(sorted) = n <=> out = N
  BY <1>8, <1>9, <1>10, FS_Subset
<1>12. ToSet(s.queue) = {}
  <2>1. CASE s.queue = <<>>
    BY <2>1 DEF ToSet
  <2>2. CASE Len(sorted) = n
    <3>1. out = N /\ ToSet(s.queue) \cap out = {}
      BY <2>2, <1>7, <1>11 DEF QueueFits
    <3>2. ToSet(s.queue) \subseteq N
      BY <1>7, LenProperties, ElementOfSeq DEF ToSet
    <3> QED  BY <3>1, <3>2
  <2> QED  BY <2>1, <2>2, <1>6 DEF sorted
<1> DEFINE b == OneByOne(sorted)
<1>13. /\ DOMAIN b = DOMAIN sorted /\ \A i \in DOMAIN b : b[i] = {sorted[i]}
       /\ b \in Seq(SUBSET N)
  <2>1. DOMAIN b = 1..Len(sorted) /\ \A i \in DOMAIN b : b[i] = {sorted[i]}
    BY <1>10 DEF OneByOne
  <2>2. b \in [1..Len(sorted) -> SUBSET N]
    BY <1>10 DEF OneByOne
  <2> HIDE DEF b
  <2> QED  BY <1>10, <2>1, <2>2, SeqDef
<1> HIDE DEF b
<1>14. ASSUME NEW x \in N, x \notin out
       PROVE  \E m \in N \ out : Edge(g, m, x)
  <2>1. s.degree[x] # 0
    BY <1>7, <1>12, <1>14 DEF QueueFits
  <2>2. Cardinality(EdgesInto(g, N \ out, x)) # 0
    BY <2>1, <1>7 DEF Waits
  <2>3. EdgesInto(g, N \ out, x) # {}
    BY <2>2, FS_EmptySet
  <2> QED  BY <2>3, EdgeFrom
<1>15. Schedules(g, b)
  <2>1. ASSUME NEW i \in DOMAIN b, NEW j \in DOMAIN b, i # j PROVE b[i] \cap b[j] = {}
    BY <1>7, <1>13, <2>1 DEF IsInjective
  <2>2. ASSUME NEW j \in DOMAIN b, NEW x \in b[j], NEW m \in N, Edge(g, m, x)
        PROVE  \E i \in DOMAIN b : i < j /\ m \in b[i]
    <3>1. x = sorted[j]
      BY <1>13
    <3>2. PICK i \in DOMAIN sorted : i < j /\ sorted[i] = m
      BY <3>1, <2>2, <1>7, <1>13 DEF Ordered
    <3> QED  BY <3>2, <1>13
  <2>3. \A x : x \in out <=> \E j \in DOMAIN b : x \in b[j]
    BY <1>10, <1>13
  <2>4. ASSUME NEW x \in N
        PROVE  \/ \E j \in DOMAIN b : x \in b[j]
               \/ \E m \in N : Edge(g, m, x) /\ \A j \in DOMAIN b : m \notin b[j]
    BY <2>3, <1>14
  <2> QED  BY <1>13, <2>1, <2>2, <2>4 DEF Schedules
<1>16. Sorts(g) <=> Len(sorted) = n
  BY <1>3 DEF Sorts, sorted, s
<1> QED  BY <1>3, <1>7, <1>11, <1>15, <1>16 DEF b, out, sorted, s

-----------------------------------------------------------------------------
(* Kernel: every plan is ordered *)

\* topological_sort raises exactly if some node is on a cycle or behind one;
\* it and parallel_safe_batches order the others, each after all it depends on.
OrdersPlan(g) ==
    LET sorted == TopologicalSort(g)
        batches == ParallelSafeBatches(g)
    IN  /\ Sorts(g) <=> \A n \in Nodes(g) : ~ OnCycle(g, n)
        /\ ToSet(sorted) = {n \in Nodes(g) : ~ OnCycle(g, n)}
        /\ UNION ToSet(batches) = ToSet(sorted)
        /\ \A i, j \in DOMAIN sorted : Edge(g, sorted[i], sorted[j]) => i < j
        /\ \A i, j \in DOMAIN batches : \A m \in batches[i], n \in batches[j] :
              Edge(g, m, n) => i < j

\* What is scheduled is what no cycle leads to.
LEMMA ScheduledIs ==
    ASSUME NEW g, WellFormed(g), NEW b, Schedules(g, b)
    PROVE  /\ UNION {b[i] : i \in DOMAIN b} = {n \in Nodes(g) : ~ OnCycle(g, n)}
           /\ \A i, j \in DOMAIN b : \A m \in b[i], n \in b[j] : Edge(g, m, n) => i < j
<1>1. \A i \in DOMAIN b : b[i] \subseteq Nodes(g)
  BY ElementOfSeq, LenProperties DEF Schedules
<1>2. ASSUME NEW i \in DOMAIN b, NEW n \in b[i] PROVE n \in Nodes(g) /\ ~ OnCycle(g, n)
  BY <1>1, CyclesStayOut
<1>3. ASSUME NEW n \in Nodes(g), ~ OnCycle(g, n) PROVE \E i \in DOMAIN b : n \in b[i]
  BY <1>3, LeftOutOnCycle
<1>4. ASSUME NEW i \in DOMAIN b, NEW j \in DOMAIN b, NEW m \in b[i], NEW n \in b[j],
             Edge(g, m, n)
      PROVE  i < j
  <2>1. PICK k \in DOMAIN b : k < j /\ m \in b[k]
    BY <1>1, <1>4 DEF Schedules
  <2>2. k = i
    BY <2>1 DEF Schedules
  <2> QED  BY <2>1, <2>2
<1> QED  BY <1>2, <1>3, <1>4

\* The sort and the batches order what no cycle leads to, and that alone.
LEMMA PlanOrdered ==
    ASSUME NEW g, WellFormed(g)
    PROVE  OrdersPlan(g)
<1> DEFINE sorted == TopologicalSort(g)
           batches == ParallelSafeBatches(g)
           b == OneByOne(sorted)
           Free == {n \in Nodes(g) : ~ OnCycle(g, n)}
<1>1. /\ sorted \in Seq(Nodes(g)) /\ Schedules(g, b)
      /\ Sorts(g) <=> ToSet(sorted) = Nodes(g)
  BY SortSchedules
<1>2. Schedules(g, batches)
  BY BatchesSchedule
<1> HIDE DEF sorted, batches
<1>3. /\ UNION {b[i] : i \in DOMAIN b} = Free
      /\ \A i, j \in DOMAIN b : \A m \in b[i], n \in b[j] : Edge(g, m, n) => i < j
  <2> HIDE DEF b
  <2> QED  BY <1>1, ScheduledIs
<1>4. /\ UNION {batches[i] : i \in DOMAIN batches} = Free
      /\ \A i, j \in DOMAIN batches : \A m \in batches[i], n \in batches[j] :
            Edge(g, m, n) => i < j
  BY <1>2, ScheduledIs
<1>5. DOMAIN b = DOMAIN sorted /\ \A i \in DOMAIN sorted : b[i] = {sorted[i]}
  BY DEF OneByOne
<1> HIDE DEF b
<1>6. ToSet(sorted) = Free
  <2>1. ToSet(sorted) = {sorted[i] : i \in DOMAIN sorted}
    BY DEF ToSet
  <2> HIDE DEF Free
  <2> QED  BY <1>3, <1>5, <2>1
<1>7. UNION ToSet(batches) = Free
  <2>1. ToSet(batches) = {batches[i] : i \in DOMAIN batches}
    BY DEF ToSet
  <2> QED  BY <1>4, <2>1
<1>8. \A i, j \in DOMAIN sorted : Edge(g, sorted[i], sorted[j]) => i < j
  BY <1>3, <1>5
<1>9. Sorts(g) <=> \A n \in Nodes(g) : ~ OnCycle(g, n)
  BY <1>1, <1>6
<1> QED  BY <1>4, <1>6, <1>7, <1>8, <1>9 DEF OrdersPlan, sorted, batches

\* The client's plan is such a graph, in which every node has a number.
PlanTyped ==
    /\ plan \in [order : Seq(Nat), mutable : SUBSET Nat, edges : Seq(Nat \X Nat)]
    /\ WellFormed(plan)

\* A node under a new id comes last, one under a known id stays in its place.
LEMMA AddNodeKeeps ==
    ASSUME PlanTyped, NEW n \in Nat, NEW mutable
    PROVE  LET g == AddNode(plan, n, mutable)
           IN  /\ g \in [order : Seq(Nat), mutable : SUBSET Nat, edges : Seq(Nat \X Nat)]
               /\ WellFormed(g)
<1> DEFINE g == AddNode(plan, n, mutable)
           order == IF n \in Nodes(plan) THEN plan.order ELSE Append(plan.order, n)
           changed == IF mutable THEN plan.mutable \cup {n} ELSE plan.mutable \ {n}
<1>1. /\ plan.order \in Seq(Nat) /\ plan.mutable \in SUBSET Nat /\ plan.edges \in Seq(Nat \X Nat)
      /\ plan.order \in Seq(Nodes(plan)) /\ IsInjective(plan.order)
      /\ plan.edges \in Seq(Nodes(plan) \X Nodes(plan))
  BY DEF PlanTyped, WellFormed
<1>2. g = [order |-> order, mutable |-> changed, edges |-> plan.edges]
  <2>1. g = [plan EXCEPT !.order = order, !.mutable = changed]
    BY Zenon DEF AddNode
  <2> HIDE DEF g, order, changed
  <2> QED  BY <2>1 DEF PlanTyped
<1>3. /\ order \in Seq(Nat) /\ IsInjective(order)
      /\ ToSet(order) = Nodes(plan) \cup {n}
  <2>1. CASE n \in Nodes(plan)
    <3>1. order = plan.order /\ ToSet(order) = Nodes(plan)
      BY <2>1 DEF Nodes
    <3> QED  BY <1>1, <2>1, <3>1
  <2>2. CASE n \notin Nodes(plan)
    <3>1. order = Append(plan.order, n)
      BY <2>2
    <3>2. n \notin ToSet(plan.order) /\ ToSet(plan.order) = Nodes(plan)
      BY <2>2 DEF Nodes
    <3> HIDE DEF order
    <3> QED  BY <1>1, <3>1, <3>2, AppendOnce
  <2> QED  BY <2>1, <2>2
<1>4. changed \in SUBSET Nat
  BY <1>1
<1> HIDE DEF order, changed, g
<1>5. g.order = order /\ g.edges = plan.edges /\ Nodes(g) = ToSet(order)
  BY <1>2 DEF Nodes
<1>6. order \in Seq(ToSet(order))
  <2>1. Len(order) \in Nat /\ DOMAIN order = 1..Len(order) /\ order \in [1..Len(order) -> Nat]
    BY <1>3, LenProperties
  <2>2. order \in [1..Len(order) -> ToSet(order)]
    BY <2>1 DEF ToSet
  <2> QED  BY <2>1, <2>2, SeqDef
<1>7. plan.edges \in Seq(ToSet(order) \X ToSet(order))
  <2>1. Nodes(plan) \X Nodes(plan) \subseteq ToSet(order) \X ToSet(order)
    BY <1>3
  <2>2. /\ Len(plan.edges) \in Nat
        /\ plan.edges \in [1..Len(plan.edges) -> Nodes(plan) \X Nodes(plan)]
    BY <1>1, LenProperties
  <2>3. plan.edges \in [1..Len(plan.edges) -> ToSet(order) \X ToSet(order)]
    BY <2>1, <2>2
  <2> QED  BY <2>2, <2>3, SeqDef
<1>8. g \in [order : Seq(Nat), mutable : SUBSET Nat, edges : Seq(Nat \X Nat)]
  BY <1>1, <1>2, <1>3, <1>4
<1> QED  BY <1>3, <1>5, <1>6, <1>7, <1>8 DEF WellFormed, g

\* Both ends of an edge are nodes.
LEMMA AddEdgeKeeps ==
    ASSUME PlanTyped, NEW a \in Nodes(plan), NEW b \in Nodes(plan)
    PROVE  LET g == AddEdge(plan, a, b)
           IN  /\ g \in [order : Seq(Nat), mutable : SUBSET Nat, edges : Seq(Nat \X Nat)]
               /\ WellFormed(g)
<1> DEFINE g == AddEdge(plan, a, b)
           edges == Append(plan.edges, <<a, b>>)
           P == Nodes(plan) \X Nodes(plan)
<1>1. /\ plan.order \in Seq(Nat) /\ plan.mutable \in SUBSET Nat /\ plan.edges \in Seq(Nat \X Nat)
      /\ plan.order \in Seq(Nodes(plan)) /\ IsInjective(plan.order)
      /\ plan.edges \in Seq(P)
  BY DEF PlanTyped, WellFormed
<1>2. g = [order |-> plan.order, mutable |-> plan.mutable, edges |-> edges]
  <2>1. g = [plan EXCEPT !.edges = edges]
    BY Zenon DEF AddEdge
  <2> HIDE DEF g, edges
  <2> QED  BY <2>1 DEF PlanTyped
<1>3. Nodes(plan) \subseteq Nat
  BY <1>1, LenProperties, ElementOfSeq DEF Nodes, ToSet
<1>4. edges \in Seq(P) /\ edges \in Seq(Nat \X Nat)
  <2>1. <<a, b>> \in P /\ <<a, b>> \in Nat \X Nat
    BY <1>3
  <2> HIDE DEF P
  <2> QED  BY <1>1, <2>1, AppendProperties
<1> HIDE DEF edges, g
<1>5. g.order = plan.order /\ g.edges = edges /\ Nodes(g) = Nodes(plan)
  BY <1>2 DEF Nodes
<1>6. g \in [order : Seq(Nat), mutable : SUBSET Nat, edges : Seq(Nat \X Nat)]
  BY <1>1, <1>2, <1>4
<1> QED  BY <1>1, <1>4, <1>5, <1>6 DEF WellFormed, g

\* For any limits of the plan, whatever a client builds can be ordered, or is
\* refused for a cycle.
THEOREM PlansOrdered == KSpec => [](PlanTyped /\ OrdersPlan(plan))
<1>1. KInit => PlanTyped
  <2> SUFFICES ASSUME KInit PROVE PlanTyped
    OBVIOUS
  <2>1. plan = [order |-> <<>>, mutable |-> {}, edges |-> <<>>]
    BY DEF KInit, EmptyGraph
  <2>2. \A S : <<>> \in Seq(S) /\ IsInjective(<<>>)
    BY EmptySeq DEF IsInjective
  <2>3. plan.order = <<>> /\ plan.edges = <<>>
    BY <2>1
  <2>4. WellFormed(plan)
    BY <2>2, <2>3 DEF WellFormed
  <2>5. plan \in [order : Seq(Nat), mutable : SUBSET Nat, edges : Seq(Nat \X Nat)]
    BY <2>1, <2>2
  <2> QED  BY <2>4, <2>5 DEF PlanTyped
<1>2. PlanTyped /\ [KNext]_kvars => PlanTyped'
  <2> SUFFICES ASSUME PlanTyped, [KNext]_kvars PROVE PlanTyped'
    OBVIOUS
  <2>1. CASE BuildPlan
    <3>1. CASE \E n \in 1..Len(plan.order) + 1, mutable \in BOOLEAN :
                  plan' = AddNode(plan, n, mutable)
      <4>1. PICK n \in 1..Len(plan.order) + 1, mutable \in BOOLEAN :
               plan' = AddNode(plan, n, mutable)
        BY <3>1
      <4>2. n \in Nat
        OBVIOUS
      <4> QED  BY <4>1, <4>2, AddNodeKeeps DEF PlanTyped
    <3>2. CASE \E a, b \in Nodes(plan) : plan' = AddEdge(plan, a, b)
      BY <3>2, AddEdgeKeeps DEF PlanTyped
    <3> QED  BY <2>1, <3>1, <3>2 DEF BuildPlan
  <2>2. CASE UNCHANGED plan
    BY <2>2 DEF PlanTyped
  <2>3. BuildPlan \/ UNCHANGED plan
    BY DEF KNext, kvars, engine, Start, Tick, Stop, Submit, Linger, CompleteTask, FailTask
  <2> QED  BY <2>1, <2>2, <2>3
<1>3. PlanTyped => OrdersPlan(plan)
  BY PlanOrdered DEF PlanTyped
<1> QED  BY <1>1, <1>2, <1>3, PTL DEF KSpec

-----------------------------------------------------------------------------
(* Kernel: one search of detect_cycles *)

SearchState(g) ==
    [visited : [Nodes(g) -> 0..2], path : Seq(Nodes(g)), cycles : Seq(Seq(Nodes(g)))]

\* A search comes back to the path it started from.
Searches(g) ==
    {d \in [Nodes(g) -> [Search(g) -> Search(g)]] :
        \A s \in Search(g), n \in Nodes(g) : d[n][s].path = s.path}

\* The states of a search, as a record and a condition.
LEMMA SearchIs ==
    ASSUME NEW g, NEW s
    PROVE  s \in Search(g) <=>
              /\ s \in SearchState(g)
              /\ \A n \in Nodes(g) : s.visited[n] = 1 => n \in ToSet(s.path)
BY DEF Search, SearchState

\* A closed walk from a node that is on the path.
LEMMA CycleToIs ==
    ASSUME NEW S, NEW path \in Seq(S), NEW next \in ToSet(path)
    PROVE  /\ CycleTo(path, next) \in Seq(S)
           /\ \E i \in 1..Len(path) :
                 LET c == CycleTo(path, next)
                 IN  /\ Len(c) = Len(path) - i + 2 /\ Len(c) > 1
                     /\ \A j \in 1..(Len(c) - 1) : c[j] = path[i + (j - 1)]
                     /\ c[1] = next /\ c[Len(c)] = next
<1> DEFINE l == Len(path)
           i == CHOOSE k \in DOMAIN path : path[k] = next
           part == SubSeq(path, i, l)
           c == part \o <<next>>
<1>1. l \in Nat /\ DOMAIN path = 1..l /\ \A k \in 1..l : path[k] \in S
  BY LenProperties, ElementOfSeq
<1>2. i \in 1..l /\ path[i] = next
  <2>1. \E k \in DOMAIN path : path[k] = next
    BY DEF ToSet
  <2> QED  BY <1>1, <2>1
<1> HIDE DEF i, l
<1>3. next \in S
  BY <1>1, <1>2
<1>4. /\ part \in Seq(S) /\ Len(part) = l - i + 1
      /\ \A j \in 1..(l - i + 1) : part[j] = path[i + j - 1]
  BY <1>1, <1>2, SubSeqProperties DEF l
<1> HIDE DEF part
<1>5. <<next>> \in Seq(S) /\ Len(<<next>>) = 1 /\ <<next>>[1] = next
  BY <1>3
<1>6. /\ c \in Seq(S) /\ Len(c) = (l - i + 1) + 1
      /\ \A j \in 1..(l - i + 1) : c[j] = part[j]
      /\ c[(l - i + 1) + 1] = next
  <2>1. /\ c \in Seq(S) /\ Len(c) = Len(part) + Len(<<next>>)
        /\ \A j \in 1..(Len(part) + Len(<<next>>)) :
              c[j] = IF j <= Len(part) THEN part[j] ELSE <<next>>[j - Len(part)]
    BY <1>4, <1>5, ConcatProperties
  <2> HIDE DEF c
  <2>2. l - i + 1 \in Nat
    BY <1>1, <1>2
  <2>3. \A j \in 1..((l - i + 1) + 1) :
           c[j] = IF j <= l - i + 1 THEN part[j] ELSE <<next>>[j - (l - i + 1)]
    BY <1>4, <1>5, <2>1
  <2>4. c[(l - i + 1) + 1] = <<next>>[1]
    <3>1. (l - i + 1) + 1 \in 1..((l - i + 1) + 1) /\ ~ ((l - i + 1) + 1 <= l - i + 1)
          /\ ((l - i + 1) + 1) - (l - i + 1) = 1
      BY <2>2
    <3> QED  BY <2>3, <3>1
  <2>5. \A j \in 1..(l - i + 1) : c[j] = part[j]
    BY <2>2, <2>3
  <2> QED  BY <1>4, <1>5, <2>1, <2>4, <2>5
<1>7. CycleTo(path, next) = c
  BY DEF CycleTo, c, part, i, l
<1> HIDE DEF c
<1>8. Len(c) = l - i + 2 /\ Len(c) > 1 /\ Len(c) - 1 = l - i + 1
  BY <1>1, <1>2, <1>6
<1>9. \A j \in 1..(Len(c) - 1) : c[j] = path[i + (j - 1)]
  <2>1. ASSUME NEW j \in 1..(l - i + 1) PROVE c[j] = path[i + (j - 1)]
    <3>1. i + j - 1 = i + (j - 1)
      BY <1>1, <1>2
    <3> QED  BY <1>4, <1>6, <3>1
  <2> QED  BY <1>8, <2>1
<1>10. c[1] = next
  <2>1. 1 \in 1..(Len(c) - 1) /\ i + (1 - 1) = i
    BY <1>1, <1>2, <1>8
  <2> QED  BY <1>2, <1>9, <2>1
<1>11. c[Len(c)] = next
  <2>1. Len(c) = (l - i + 1) + 1
    BY <1>6
  <2> QED  BY <2>1, <1>6
<1> QED  BY <1>2, <1>6, <1>7, <1>8, <1>9, <1>10, <1>11 DEF l

\* Following an edge leaves the path as it was.
LEMMA VisitTyped ==
    ASSUME NEW g, NEW d \in Searches(g), NEW s \in Search(g),
           NEW edge \in Nodes(g) \X Nodes(g), NEW n
    PROVE  Visit(d, s, edge, n) \in Search(g) /\ Visit(d, s, edge, n).path = s.path
<1> DEFINE next == edge[2]
           t == Visit(d, s, edge, n)
           c == CycleTo(s.path, next)
<1>1. next \in Nodes(g)
  OBVIOUS
<1>2. s \in SearchState(g) /\ \A x \in Nodes(g) : s.visited[x] = 1 => x \in ToSet(s.path)
  BY SearchIs
<1>3. CASE edge[1] # n \/ s.visited[next] = 2
  BY <1>3 DEF Visit
<1>4. CASE ~ (edge[1] # n \/ s.visited[next] = 2) /\ s.visited[next] = 1
  <2>1. t = [s EXCEPT !.cycles = Append(@, c)]
    BY <1>4 DEF Visit
  <2>2. c \in Seq(Nodes(g))
    <3>1. s.path \in Seq(Nodes(g)) /\ next \in ToSet(s.path)
      BY <1>1, <1>2, <1>4 DEF SearchState
    <3> HIDE DEF next
    <3> QED  BY <3>1, CycleToIs
  <2> HIDE DEF c, t
  <2>3. Append(s.cycles, c) \in Seq(Seq(Nodes(g)))
    <3>1. s.cycles \in Seq(Seq(Nodes(g)))
      BY <1>2 DEF SearchState
    <3> QED  BY <2>2, <3>1, AppendProperties
  <2>4. t \in SearchState(g) /\ t.path = s.path /\ t.visited = s.visited
    BY <1>2, <2>1, <2>3 DEF SearchState
  <2> QED  BY <1>2, <2>4, SearchIs DEF t
<1>5. CASE ~ (edge[1] # n \/ s.visited[next] = 2) /\ s.visited[next] # 1
  <2>1. t = d[next][s]
    BY <1>5 DEF Visit
  <2> HIDE DEF t, next
  <2>2. t \in Search(g) /\ t.path = s.path
    BY <1>1, <2>1 DEF Searches
  <2> QED  BY <2>2 DEF t
<1> QED  BY <1>3, <1>4, <1>5

\* A search enters its node, and leaves it.
Entered(s, n) == [s EXCEPT !.visited[n] = 1, !.path = Append(@, n)]

Left(s, n) == [s EXCEPT !.visited[n] = 2, !.path = Front(@)]

\* What the path gets at its end can be taken from it again.
LEMMA AppendFront ==
    ASSUME NEW S, NEW q \in Seq(S), NEW x \in S
    PROVE  /\ Append(q, x) \in Seq(S) /\ Front(Append(q, x)) = q
           /\ ToSet(Append(q, x)) = ToSet(q) \cup {x}
           /\ Len(Append(q, x)) = Len(q) + 1
           /\ \A i \in 1..Len(q) : Append(q, x)[i] = q[i]
           /\ Append(q, x)[Len(q) + 1] = x
<1> DEFINE p == Append(q, x)
           l == Len(q)
<1>1. l \in Nat /\ DOMAIN q = 1..l
  BY LenProperties
<1>2. /\ p \in Seq(S) /\ Len(p) = l + 1 /\ DOMAIN p = 1..(l + 1)
      /\ \A i \in 1..l : p[i] = q[i]
      /\ p[l + 1] = x
  <2>1. p \in Seq(S) /\ Len(p) = l + 1 /\ \A i \in 1..l : p[i] = q[i]
    BY AppendProperties
  <2>2. p[l + 1] = x
    BY AppendProperties
  <2> HIDE DEF p
  <2> QED  BY <2>1, <2>2, LenProperties
<1> HIDE DEF p
<1>3. Front(p) = q
  <2>1. Front(p) = SubSeq(p, 1, l)
    BY <1>1, <1>2 DEF Front
  <2>2. /\ SubSeq(p, 1, l) \in Seq(S) /\ Len(SubSeq(p, 1, l)) = l
        /\ \A i \in 1..l : SubSeq(p, 1, l)[i] = p[i]
    <3>1. 1 \in 1..(l + 1) /\ l \in 0..(l + 1) /\ (IF 1 <= l THEN l - 1 + 1 ELSE 0) = l
      BY <1>1
    <3>2. CASE l = 0
      BY <1>2, <3>2
    <3>3. CASE l # 0
      <4>1. /\ 1 \in 1..Len(p) /\ l \in 1..Len(p)
            /\ l - 1 + 1 = l /\ 1 <= l
        BY <1>1, <1>2, <3>3
      <4>2. /\ SubSeq(p, 1, l) \in Seq(S) /\ Len(SubSeq(p, 1, l)) = l - 1 + 1
            /\ \A i \in 1..(l - 1 + 1) : SubSeq(p, 1, l)[i] = p[1 + i - 1]
        BY <1>2, <4>1, SubSeqProperties
      <4>3. \A i \in 1..l : 1 + i - 1 = i
        BY <1>1
      <4> QED  BY <4>1, <4>2, <4>3
    <3> QED  BY <3>2, <3>3
  <2>3. SubSeq(p, 1, l) = q
    <3> DEFINE u == SubSeq(p, 1, l)
    <3>1. u \in Seq(S) /\ Len(u) = Len(q) /\ \A i \in 1..Len(u) : u[i] = q[i]
      BY <1>2, <2>2
    <3> HIDE DEF u
    <3>2. u = q
      BY <3>1, SeqEqual
    <3> QED  BY <3>2 DEF u
  <2> QED  BY <2>1, <2>3
<1>4. ToSet(p) = ToSet(q) \cup {x}
  BY <1>1, <1>2 DEF ToSet
<1> QED  BY <1>2, <1>3, <1>4 DEF p, l

\* Entering a node colours it and puts it on the path.
LEMMA EnteredIs ==
    ASSUME NEW g, NEW s \in Search(g), NEW n \in Nodes(g)
    PROVE  /\ Entered(s, n) \in Search(g)
           /\ Entered(s, n).path = Append(s.path, n)
           /\ Entered(s, n).cycles = s.cycles
           /\ \A x \in Nodes(g) :
                 Entered(s, n).visited[x] = IF x = n THEN 1 ELSE s.visited[x]
<1> DEFINE t == Entered(s, n)
<1>1. s \in SearchState(g) /\ \A x \in Nodes(g) : s.visited[x] = 1 => x \in ToSet(s.path)
  BY SearchIs
<1>2. t = [s EXCEPT !.visited = [@ EXCEPT ![n] = 1], !.path = Append(@, n)]
  BY <1>1 DEF Entered, SearchState
<1>3. /\ Append(s.path, n) \in Seq(Nodes(g))
      /\ ToSet(Append(s.path, n)) = ToSet(s.path) \cup {n}
  BY <1>1, AppendFront DEF SearchState
<1> HIDE DEF t
<1>4. /\ t \in SearchState(g) /\ t.path = Append(s.path, n) /\ t.cycles = s.cycles
      /\ t.visited = [s.visited EXCEPT ![n] = 1]
  <2> DEFINE path == Append(s.path, n)
             visited == [s.visited EXCEPT ![n] = 1]
  <2>1. visited \in [Nodes(g) -> 0..2] /\ path \in Seq(Nodes(g))
    BY <1>1, <1>3 DEF SearchState
  <2>2. t = [s EXCEPT !.visited = visited, !.path = path]
    BY <1>2, Zenon
  <2> HIDE DEF visited, path
  <2>3. t = [visited |-> visited, path |-> path, cycles |-> s.cycles]
    BY <1>1, <2>2 DEF SearchState
  <2>4. t \in SearchState(g) /\ t.path = path /\ t.cycles = s.cycles /\ t.visited = visited
    BY <1>1, <2>1, <2>3 DEF SearchState
  <2> QED  BY <2>4 DEF visited, path
<1>5. \A x \in Nodes(g) : t.visited[x] = 1 => x \in ToSet(t.path)
  BY <1>1, <1>3, <1>4 DEF SearchState
<1>6. \A x \in Nodes(g) : t.visited[x] = IF x = n THEN 1 ELSE s.visited[x]
  BY <1>1, <1>4 DEF SearchState
<1>7. t \in Search(g)
  BY <1>4, <1>5, SearchIs
<1> QED  BY <1>4, <1>6, <1>7 DEF t

\* Leaving a node that is done takes it from the path.
LEMMA LeftIs ==
    ASSUME NEW g, NEW t \in Search(g), NEW n \in Nodes(g), NEW path \in Seq(Nodes(g)),
           t.path = Append(path, n)
    PROVE  /\ Left(t, n) \in Search(g)
           /\ Left(t, n).path = path
           /\ Left(t, n).cycles = t.cycles
           /\ \A x \in Nodes(g) :
                 Left(t, n).visited[x] = IF x = n THEN 2 ELSE t.visited[x]
<1> DEFINE u == Left(t, n)
<1>1. t \in SearchState(g) /\ \A x \in Nodes(g) : t.visited[x] = 1 => x \in ToSet(t.path)
  BY SearchIs
<1>2. u = [t EXCEPT !.visited = [@ EXCEPT ![n] = 2], !.path = Front(@)]
  BY <1>1 DEF Left, SearchState
<1>3. /\ Front(t.path) = path
      /\ ToSet(t.path) = ToSet(path) \cup {n}
  BY AppendFront
<1> HIDE DEF u
<1>4. /\ u \in SearchState(g) /\ u.path = path /\ u.cycles = t.cycles
      /\ u.visited = [t.visited EXCEPT ![n] = 2]
  <2> DEFINE visited == [t.visited EXCEPT ![n] = 2]
  <2>1. visited \in [Nodes(g) -> 0..2]
    BY <1>1 DEF SearchState
  <2>2. u = [t EXCEPT !.visited = visited, !.path = path]
    BY <1>2, <1>3, Zenon
  <2> HIDE DEF visited
  <2>3. u = [visited |-> visited, path |-> path, cycles |-> t.cycles]
    BY <1>1, <2>2 DEF SearchState
  <2>4. u \in SearchState(g) /\ u.path = path /\ u.cycles = t.cycles /\ u.visited = visited
    BY <1>1, <2>1, <2>3 DEF SearchState
  <2> QED  BY <2>4 DEF visited
<1>5. \A x \in Nodes(g) : u.visited[x] = 1 => x \in ToSet(u.path)
  BY <1>1, <1>3, <1>4 DEF SearchState
<1>6. \A x \in Nodes(g) : u.visited[x] = IF x = n THEN 2 ELSE t.visited[x]
  BY <1>1, <1>4 DEF SearchState
<1>7. u \in Search(g)
  BY <1>4, <1>5, SearchIs
<1> QED  BY <1>4, <1>6, <1>7 DEF u

\* The function by which the fold over the edges is defined.
Visits(it, g, d, s, n) ==
    it = [T \in SUBSET (DOMAIN g.edges) |->
             IF T = {} THEN s ELSE Visit(d, it[T \ {Max(T)}], g.edges[Max(T)], n)]

\* A search follows the edges of its node one after the other.
LEMMA SearchFromIs ==
    ASSUME NEW g, WellFormed(g), NEW d \in Searches(g), NEW s \in Search(g), NEW n \in Nodes(g)
    PROVE  \E r : /\ r[0] = Entered(s, n)
                  /\ SearchFrom(g, d)[n][s] = Left(r[Len(g.edges)], n)
                  /\ \A k \in 0..Len(g.edges) :
                        r[k] \in Search(g) /\ r[k].path = Append(s.path, n)
                  /\ \A k \in 1..Len(g.edges) : r[k] = Visit(d, r[k - 1], g.edges[k], n)
<1> DEFINE l == Len(g.edges)
           S == {t \in Search(g) : t.path = Append(s.path, n)}
           e == Entered(s, n)
           fs == [k \in 1..l |-> [x \in S |-> Visit(d, x, g.edges[k], n)]]
<1>1. l \in Nat /\ DOMAIN g.edges = 1..l /\ \A k \in 1..l : g.edges[k] \in Nodes(g) \X Nodes(g)
  BY LenProperties, ElementOfSeq DEF WellFormed
<1> HIDE DEF l
<1>2. fs \in [1..l -> [S -> S]]
  BY <1>1, VisitTyped
<1>0. e \in S
  <2>1. e \in Search(g) /\ e.path = Append(s.path, n)
    <3>1. \A t \in Search(g) : \A x \in Nodes(g) :
             Entered(t, x) \in Search(g) /\ Entered(t, x).path = Append(t.path, x)
      BY EnteredIs
    <3> QED  BY <3>1
  <2> HIDE DEF e
  <2> QED  BY <2>1
<1> HIDE DEF e
<1>3. PICK f \in [SUBSET (1..l) -> S] : Folds(f, e, fs, l)
  <2> HIDE DEF S, fs
  <2> QED  BY <1>0, <1>1, <1>2, FoldExists
<1>4. ASSUME NEW T \in SUBSET (1..l)
      PROVE  f[T] = IF T = {} THEN e ELSE Visit(d, f[T \ {Max(T)}], g.edges[Max(T)], n)
  <2>1. T # {} => Max(T) \in 1..l
    <3>1. T \subseteq 1..l
      OBVIOUS
    <3> QED  BY <1>1, <3>1, BelowGreatest
  <2>2. f[T \ {Max(T)}] \in S
    OBVIOUS
  <2> HIDE DEF S
  <2>3. T # {} => fs[Max(T)][f[T \ {Max(T)}]] = Visit(d, f[T \ {Max(T)}], g.edges[Max(T)], n)
    BY <2>1, <2>2
  <2> HIDE DEF fs
  <2> QED  BY <1>3, <2>3 DEF Folds
<1>5. f = [T \in SUBSET (1..l) |-> f[T]]
  <2> HIDE DEF S
  <2> QED  OBVIOUS
<1>6. f = [T \in SUBSET (1..l) |->
             IF T = {} THEN e ELSE Visit(d, f[T \ {Max(T)}], g.edges[Max(T)], n)]
  BY <1>4, <1>5
<1>7. Visits(f, g, d, e, n)
  BY <1>1, <1>6 DEF Visits
<1> DEFINE it == CHOOSE h : Visits(h, g, d, e, n)
<1>8. Visits(it, g, d, e, n)
  BY <1>7, Zenon
<1>9. FoldLeft(LAMBDA t, edge : Visit(d, t, edge, n), e, g.edges) = it[DOMAIN g.edges]
  BY Zenon DEF FoldLeft, MapThenFoldSet, Visits
<1> HIDE DEF it
<1>10. \A T \in SUBSET (1..l) :
          it[T] = IF T = {} THEN e ELSE Visit(d, it[T \ {Max(T)}], g.edges[Max(T)], n)
  BY <1>1, <1>8, Zenon DEF Visits
<1> DEFINE r == [k \in 0..l |-> it[1..k]]
<1>11. r[0] = e
  <2>1. it[{}] = e
    BY <1>10
  <2>2. 1..0 = {} /\ 0 \in 0..l
    BY <1>1
  <2> QED  BY <2>1, <2>2
<1>12. r[l] = it[DOMAIN g.edges]
  <2>1. l \in 0..l
    BY <1>1
  <2> QED  BY <1>1, <2>1
<1>13. ASSUME NEW k \in 1..l PROVE r[k] = Visit(d, r[k - 1], g.edges[k], n)
  <2>1. k \in 0..l /\ k - 1 \in 0..l
    BY <1>1
  <2>2. r[k] = it[1..k] /\ r[k - 1] = it[1..(k - 1)]
    BY <2>1
  <2>3. it[1..k] = Visit(d, it[(1..k) \ {Max(1..k)}], g.edges[Max(1..k)], n)
    BY <1>1, <1>10, UptoPosition
  <2>4. Max(1..k) = k /\ (1..k) \ {Max(1..k)} = 1..(k - 1)
    BY <1>1, UptoPosition
  <2> HIDE DEF r
  <2> QED  BY <2>2, <2>3, <2>4
<1> HIDE DEF r
<1>14. \A k \in 0..l : r[k] \in S
  <2> DEFINE Bad == {k \in 0..l : r[k] \notin S}
  <2> SUFFICES ASSUME Bad # {} PROVE FALSE
    OBVIOUS
  <2>1. PICK m \in Bad : \A k \in Bad : m <= k
    <3>1. Bad \subseteq Nat
      BY <1>1
    <3> HIDE DEF Bad
    <3> QED  BY <3>1, LeastNat
  <2>2. m \in 1..l /\ m - 1 \in 0..l /\ ~ (m <= m - 1)
    <3>1. m \in 0..l /\ m # 0
      BY <1>0, <1>11
    <3> QED  BY <3>1, <1>1
  <2>3. m - 1 \notin Bad
    <3> HIDE DEF Bad
    <3> QED  BY <2>1, <2>2
  <2>4. r[m - 1] \in S /\ r[m] \notin S
    <3> HIDE DEF S
    <3> QED  BY <2>2, <2>3
  <2>5. r[m] \in S
    <3> DEFINE j == m - 1
    <3>1. r[m] = Visit(d, r[j], g.edges[m], n) /\ r[j] \in S
      BY <2>2, <2>4, <1>13
    <3> HIDE DEF j
    <3>2. r[j] \in Search(g) /\ r[j].path = Append(s.path, n) /\ g.edges[m] \in Nodes(g) \X Nodes(g)
      BY <1>1, <2>2, <3>1
    <3>3. r[m] \in Search(g) /\ r[m].path = r[j].path
      BY <3>1, <3>2, VisitTyped
    <3> QED  BY <3>2, <3>3
  <2> QED  BY <2>4, <2>5
<1>15. SearchFrom(g, d)[n][s] = Left(r[l], n)
  <2>1. SearchFrom(g, d)[n][s]
          = Left(FoldLeft(LAMBDA t, edge : Visit(d, t, edge, n), e, g.edges), n)
    BY Zenon DEF SearchFrom, Left, Entered, e
  <2> QED  BY <1>9, <1>12, <2>1
<1> QED  BY <1>11, <1>13, <1>14, <1>15 DEF l, e

\* One level more of nesting is a search again.
LEMMA SearchFromTyped ==
    ASSUME NEW g, WellFormed(g), NEW d \in Searches(g)
    PROVE  SearchFrom(g, d) \in Searches(g)
<1> DEFINE h == SearchFrom(g, d)
<1>1. ASSUME NEW n \in Nodes(g), NEW s \in Search(g)
      PROVE  h[n][s] \in Search(g) /\ h[n][s].path = s.path
  <2>1. PICK r : /\ r[0] = Entered(s, n)
                 /\ h[n][s] = Left(r[Len(g.edges)], n)
                 /\ \A k \in 0..Len(g.edges) :
                       r[k] \in Search(g) /\ r[k].path = Append(s.path, n)
                 /\ \A k \in 1..Len(g.edges) : r[k] = Visit(d, r[k - 1], g.edges[k], n)
    BY SearchFromIs
  <2>2. Len(g.edges) \in 0..Len(g.edges)
    BY LenProperties DEF WellFormed
  <2>3. s.path \in Seq(Nodes(g))
    BY SearchIs DEF SearchState
  <2> HIDE DEF h
  <2> DEFINE t == r[Len(g.edges)]
  <2>4. h[n][s] = Left(t, n) /\ t \in Search(g) /\ t.path = Append(s.path, n)
    BY <2>1, <2>2
  <2> HIDE DEF t
  <2>5. Left(t, n) \in Search(g) /\ Left(t, n).path = s.path
    <3>1. \A path \in Seq(Nodes(g)) : t.path = Append(path, n) =>
             Left(t, n) \in Search(g) /\ Left(t, n).path = path
      BY <2>4, LeftIs
    <3> QED  BY <2>3, <2>4, <3>1
  <2> QED  BY <2>4, <2>5
<1>2. h = [n \in Nodes(g) |-> [s \in Search(g) |-> h[n][s]]]
  BY DEF SearchFrom
<1> HIDE DEF h
<1>3. h \in [Nodes(g) -> [Search(g) -> Search(g)]]
  BY <1>1, <1>2
<1>4. h \in Searches(g)
  BY <1>1, <1>3 DEF Searches
<1> QED  BY <1>4 DEF h

-----------------------------------------------------------------------------
(* Kernel: what a search finds *)

\* A walk that ends where it began.
Closed(g, c) == Len(c) > 1 /\ c[1] = c[Len(c)] /\ IsPath(g, c)

\* No edge leaves S, and along the edges of S ranks fall.
Ranked(g, S) ==
    \E top \in Nat, rank \in [Nodes(g) -> Nat] :
        \A a \in S : /\ rank[a] < top
                     /\ \A b \in Nodes(g) : Edge(g, a, b) => b \in S /\ rank[b] < rank[a]

Coloured(g, s, colour) == {x \in Nodes(g) : s.visited[x] = colour}

\* What is reported is a cycle, and while none is, what is done has no cycle.
SearchSound(g, s) ==
    /\ \A i \in DOMAIN s.cycles : Closed(g, s.cycles[i])
    /\ s.cycles = <<>> => Ranked(g, Coloured(g, s, 2))

\* From s to t new nodes are done, and no other changes.
Goes(g, s, t) ==
    /\ \A x \in Nodes(g) : /\ s.visited[x] # 0 => t.visited[x] = s.visited[x]
                           /\ s.visited[x] = 0 => t.visited[x] # 1
    /\ t.cycles = <<>> => s.cycles = <<>>

\* A search begins, with at most k new nodes.
Starts(g, s, n, k) ==
    /\ s.visited[n] = 0
    /\ Cardinality(Coloured(g, s, 0)) <= k
    /\ SearchSound(g, s)
    /\ IsPath(g, Append(s.path, n))

Finds(g, d, k) ==
    \A s \in Search(g), n \in Nodes(g) :
        Starts(g, s, n, k) =>
            /\ SearchSound(g, d[n][s])
            /\ Goes(g, s, d[n][s])
            /\ d[n][s].visited[n] = 2

\* The path of s ends with n.
EndsWith(g, s, n) ==
    /\ IsPath(g, s.path)
    /\ \E l \in Nat : l >= 1 /\ Len(s.path) = l /\ s.path[l] = n

\* The colours of one search after another.
LEMMA GoesOn ==
    ASSUME NEW g, NEW s, NEW t, NEW u, Goes(g, s, t), Goes(g, t, u)
    PROVE  Goes(g, s, u)
<1>1. ASSUME NEW x \in Nodes(g)
      PROVE  /\ s.visited[x] # 0 => u.visited[x] = s.visited[x]
             /\ s.visited[x] = 0 => u.visited[x] # 1
  <2>1. /\ s.visited[x] # 0 => t.visited[x] = s.visited[x]
        /\ s.visited[x] = 0 => t.visited[x] # 1
    BY DEF Goes
  <2>2. /\ t.visited[x] # 0 => u.visited[x] = t.visited[x]
        /\ t.visited[x] = 0 => u.visited[x] # 1
    BY DEF Goes
  <2> QED  BY <2>1, <2>2
<1> QED  BY <1>1 DEF Goes

\* No search makes a node new again.
LEMMA FewerNew ==
    ASSUME NEW g, WellFormed(g), NEW s, NEW t, Goes(g, s, t)
    PROVE  /\ Cardinality(Coloured(g, s, 0)) \in Nat /\ Cardinality(Coloured(g, t, 0)) \in Nat
           /\ Cardinality(Coloured(g, t, 0)) <= Cardinality(Coloured(g, s, 0))
<1> DEFINE S == Coloured(g, s, 0)
           T == Coloured(g, t, 0)
<1>1. S \in SUBSET Nodes(g) /\ T \in SUBSET Nodes(g)
  BY DEF Coloured
<1>2. T \subseteq S
  BY DEF Coloured, Goes
<1> HIDE DEF S, T
<1>3. IsFiniteSet(S) /\ Cardinality(S) \in Nat /\ Cardinality(T) \in Nat
  BY <1>1, NodesFinite
<1>4. Cardinality(T) <= Cardinality(S)
  BY <1>2, <1>3, FS_Subset
<1> QED  BY <1>3, <1>4 DEF S, T

\* The cycle that an edge to the path closes.
LEMMA CycleCloses ==
    ASSUME NEW g, NEW s \in Search(g), NEW n, EndsWith(g, s, n),
           NEW next \in Nodes(g), Edge(g, n, next), s.visited[next] = 1
    PROVE  Closed(g, CycleTo(s.path, next)) /\ CycleTo(s.path, next) \in Seq(Nodes(g))
<1> DEFINE path == s.path
           c == CycleTo(path, next)
<1>1. path \in Seq(Nodes(g)) /\ next \in ToSet(path)
  BY SearchIs DEF SearchState
<1>2. IsPath(g, path)
  BY DEF EndsWith
<1>3. PICK l \in Nat : l >= 1 /\ Len(path) = l /\ path[l] = n
  BY DEF EndsWith
<1> HIDE DEF path
<1>4. c \in Seq(Nodes(g))
  BY <1>1, CycleToIs
<1>5. PICK i \in 1..Len(path) :
         /\ Len(c) = Len(path) - i + 2 /\ Len(c) > 1
         /\ \A j \in 1..(Len(c) - 1) : c[j] = path[i + (j - 1)]
         /\ c[1] = next /\ c[Len(c)] = next
  BY <1>1, CycleToIs
<1> HIDE DEF c
<1>6. ASSUME NEW j \in 1..(Len(c) - 1) PROVE Edge(g, c[j], c[j + 1])
  <2>1. /\ i \in 1..l /\ Len(c) = l - i + 2 /\ j \in 1..(l - i + 1)
        /\ c[j] = path[i + (j - 1)]
    BY <1>3, <1>5
  <2>2. CASE j = l - i + 1
    <3>1. i + (j - 1) = l /\ j + 1 = Len(c)
      BY <2>1, <2>2, <1>3
    <3> QED  BY <2>1, <3>1, <1>3, <1>5
  <2>3. CASE j # l - i + 1
    <3>1. /\ j + 1 \in 1..(Len(c) - 1) /\ (j + 1) - 1 = j
          /\ i + (j - 1) \in 1..(l - 1) /\ (i + (j - 1)) + 1 = i + j
      BY <2>1, <2>3, <1>3
    <3>2. c[j + 1] = path[i + ((j + 1) - 1)]
      BY <3>1, <1>5
    <3>3. c[j + 1] = path[i + j]
      BY <3>1, <3>2
    <3>4. Edge(g, path[i + (j - 1)], path[i + j])
      <4> DEFINE h == i + (j - 1)
      <4>1. h \in 1..(l - 1) /\ h + 1 = i + j
        BY <3>1
      <4>2. Edge(g, path[h], path[h + 1])
        BY <4>1, <1>2, <1>3 DEF IsPath
      <4> QED  BY <4>1, <4>2
    <3> QED  BY <2>1, <3>3, <3>4
  <2> QED  BY <2>2, <2>3
<1>7. Closed(g, c)
  BY <1>5, <1>6 DEF Closed, IsPath
<1> QED  BY <1>4, <1>7 DEF c, path

\* A walk goes on along an edge.
LEMMA PathGoesOn ==
    ASSUME NEW g, NEW S, NEW path \in Seq(S), NEW n, IsPath(g, path),
           NEW l \in Nat, l >= 1, Len(path) = l, path[l] = n,
           NEW next \in S, Edge(g, n, next)
    PROVE  IsPath(g, Append(path, next))
<1> DEFINE p == Append(path, next)
<1>1. Len(p) = l + 1 /\ (\A i \in 1..l : p[i] = path[i]) /\ p[l + 1] = next
  BY AppendFront
<1> HIDE DEF p
<1>2. ASSUME NEW i \in 1..(Len(p) - 1) PROVE Edge(g, p[i], p[i + 1])
  <2>1. i \in 1..l
    BY <1>1
  <2>2. CASE i = l
    BY <2>2, <1>1
  <2>3. CASE i # l
    <3>1. i \in 1..(Len(path) - 1) /\ i + 1 \in 1..l
      BY <2>1, <2>3
    <3>2. Edge(g, path[i], path[i + 1])
      BY <3>1 DEF IsPath
    <3> QED  BY <2>1, <3>1, <3>2, <1>1
  <2> QED  BY <2>2, <2>3
<1> QED  BY <1>2 DEF IsPath, p

\* What following an edge of n does.
LEMMA VisitFinds ==
    ASSUME NEW g, WellFormed(g), NEW k, NEW d \in Searches(g), Finds(g, d, k),
           NEW s \in Search(g), SearchSound(g, s), Cardinality(Coloured(g, s, 0)) <= k,
           NEW i \in DOMAIN g.edges, NEW n \in Nodes(g), EndsWith(g, s, n)
    PROVE  /\ SearchSound(g, Visit(d, s, g.edges[i], n))
           /\ Goes(g, s, Visit(d, s, g.edges[i], n))
           /\ g.edges[i][1] = n /\ Visit(d, s, g.edges[i], n).cycles = <<>> =>
                 Visit(d, s, g.edges[i], n).visited[g.edges[i][2]] = 2
<1> DEFINE edge == g.edges[i]
           next == edge[2]
           t == Visit(d, s, edge, n)
<1>1. edge \in Nodes(g) \X Nodes(g)
  BY ElementOfSeq, LenProperties DEF WellFormed
<1>2. next \in Nodes(g) /\ (edge[1] = n => Edge(g, n, next))
  BY <1>1 DEF Edge
<1>3. /\ s \in SearchState(g) /\ s.visited[next] \in 0..2
      /\ s.path \in Seq(Nodes(g)) /\ s.cycles \in Seq(Seq(Nodes(g)))
  BY <1>2, SearchIs DEF SearchState
<1> HIDE DEF next
<1>4. Goes(g, s, s)
  BY DEF Goes
<1>5. CASE edge[1] # n \/ s.visited[next] = 2
  <2>1. t = s
    BY <1>5 DEF Visit, next
  <2> QED  BY <2>1, <1>4, <1>5 DEF next
<1>6. CASE edge[1] = n /\ s.visited[next] = 1
  <2> DEFINE c == CycleTo(s.path, next)
  <2>1. t = [s EXCEPT !.cycles = Append(@, c)]
    BY <1>6 DEF Visit, next
  <2>2. Closed(g, c) /\ c \in Seq(Nodes(g))
    BY <1>2, <1>6, CycleCloses
  <2> HIDE DEF c, t
  <2>3. t.visited = s.visited /\ t.cycles = Append(s.cycles, c)
    BY <1>3, <2>1 DEF SearchState
  <2>4. /\ Len(t.cycles) = Len(s.cycles) + 1 /\ Len(s.cycles) \in Nat
        /\ DOMAIN s.cycles = 1..Len(s.cycles) /\ DOMAIN t.cycles = 1..Len(t.cycles)
        /\ \A j \in 1..Len(s.cycles) : t.cycles[j] = s.cycles[j]
        /\ t.cycles[Len(s.cycles) + 1] = c
    <3>1. Append(s.cycles, c) \in Seq(Seq(Nodes(g)))
      BY <1>3, <2>2, AppendProperties
    <3> QED  BY <1>3, <2>2, <2>3, <3>1, AppendProperties, LenProperties
  <2>5. t.cycles # <<>>
    BY <2>4, EmptySeq
  <2>6. \A j \in DOMAIN t.cycles : Closed(g, t.cycles[j])
    BY <2>2, <2>4 DEF SearchSound
  <2>7. SearchSound(g, t) /\ Goes(g, s, t)
    BY <2>3, <2>5, <2>6 DEF SearchSound, Goes
  <2> QED  BY <2>5, <2>7 DEF t
<1>7. CASE edge[1] = n /\ s.visited[next] = 0
  <2>1. t = d[next][s]
    BY <1>7 DEF Visit, next
  <2>2. IsPath(g, Append(s.path, next))
    BY <1>2, <1>3, <1>7, PathGoesOn DEF EndsWith
  <2>3. Starts(g, s, next, k)
    BY <2>2, <1>7 DEF Starts
  <2> HIDE DEF t
  <2>4. SearchSound(g, t) /\ Goes(g, s, t) /\ t.visited[next] = 2
    BY <2>1, <2>3, <1>2 DEF Finds
  <2> QED  BY <2>4 DEF t, next
<1> QED  BY <1>3, <1>5, <1>6, <1>7

\* What is done while a node follows its edges: the first k of them.
FollowsEdges(g, s, n, k, t) ==
    /\ SearchSound(g, t)
    /\ Goes(g, Entered(s, n), t)
    /\ t.cycles = <<>> =>
          \A i \in 1..k : g.edges[i][1] = n => t.visited[g.edges[i][2]] = 2

\* A node whose edges all lead to ranked nodes is ranked above them.
LEMMA RankedOnce ==
    ASSUME NEW g, NEW S, S \subseteq Nodes(g), Ranked(g, S), NEW n \in Nodes(g),
           \A b \in Nodes(g) : Edge(g, n, b) => b \in S, n \notin S
    PROVE  Ranked(g, S \cup {n})
<1>1. PICK top \in Nat, rank \in [Nodes(g) -> Nat] :
         \A a \in S : /\ rank[a] < top
                      /\ \A b \in Nodes(g) : Edge(g, a, b) => b \in S /\ rank[b] < rank[a]
  BY DEF Ranked
<1> DEFINE r == [rank EXCEPT ![n] = top]
<1>2. r \in [Nodes(g) -> Nat] /\ r[n] = top /\ \A b \in Nodes(g) : b # n => r[b] = rank[b]
  BY <1>1
<1> HIDE DEF r
<1>3. ASSUME NEW a \in S \cup {n}
      PROVE  /\ r[a] < top + 1
             /\ \A b \in Nodes(g) : Edge(g, a, b) => b \in S \cup {n} /\ r[b] < r[a]
  <2>1. CASE a = n
    <3>1. r[a] < top + 1
      BY <2>1, <1>2
    <3>2. ASSUME NEW b \in Nodes(g), Edge(g, a, b) PROVE b \in S \cup {n} /\ r[b] < r[a]
      <4>1. b \in S /\ b # n
        BY <2>1, <3>2
      <4>2. rank[b] < top /\ r[b] = rank[b]
        BY <4>1, <1>1, <1>2
      <4> QED  BY <4>1, <4>2, <2>1, <1>2
    <3> QED  BY <3>1, <3>2
  <2>2. CASE a # n
    <3>1. a \in S /\ a \in Nodes(g)
      BY <2>2
    <3>2. r[a] = rank[a] /\ rank[a] < top /\ rank[a] \in Nat
      BY <3>1, <2>2, <1>1, <1>2
    <3>3. ASSUME NEW b \in Nodes(g), Edge(g, a, b) PROVE b \in S \cup {n} /\ r[b] < r[a]
      <4>1. b \in S /\ rank[b] < rank[a]
        BY <3>1, <3>3, <1>1
      <4>2. b # n /\ r[b] = rank[b]
        BY <4>1, <1>2
      <4> QED  BY <4>1, <4>2, <3>2
    <3>4. r[a] < top + 1
      BY <3>2
    <3> QED  BY <3>3, <3>4
  <2> QED  BY <2>1, <2>2
<1> QED  BY <1>2, <1>3 DEF Ranked

\* What the searches from its successors do decides what a search does.
LEMMA SearchFromFinds ==
    ASSUME NEW g, WellFormed(g), NEW k \in Nat, NEW d \in Searches(g), Finds(g, d, k),
           NEW s \in Search(g), NEW n \in Nodes(g), Starts(g, s, n, k + 1)
    PROVE  /\ SearchSound(g, SearchFrom(g, d)[n][s])
           /\ Goes(g, s, SearchFrom(g, d)[n][s])
           /\ SearchFrom(g, d)[n][s].visited[n] = 2
<1> DEFINE l == Len(g.edges)
           e == Entered(s, n)
           N == Nodes(g)
<1>1. l \in Nat /\ DOMAIN g.edges = 1..l /\ \A i \in 1..l : g.edges[i] \in N \X N
  BY LenProperties, ElementOfSeq DEF WellFormed
<1>2. PICK r : /\ r[0] = e
               /\ SearchFrom(g, d)[n][s] = Left(r[l], n)
               /\ \A j \in 0..l : r[j] \in Search(g) /\ r[j].path = Append(s.path, n)
               /\ \A j \in 1..l : r[j] = Visit(d, r[j - 1], g.edges[j], n)
  BY SearchFromIs
<1> HIDE DEF l
<1>3. s \in SearchState(g) /\ s.path \in Seq(N) /\ s.visited \in [N -> 0..2]
  BY SearchIs DEF SearchState
<1>4. /\ s.visited[n] = 0 /\ SearchSound(g, s) /\ IsPath(g, Append(s.path, n))
      /\ Cardinality(Coloured(g, s, 0)) <= k + 1
  BY DEF Starts
<1>5. /\ e \in Search(g) /\ e.path = Append(s.path, n) /\ e.cycles = s.cycles
      /\ \A x \in N : e.visited[x] = IF x = n THEN 1 ELSE s.visited[x]
  BY EnteredIs
<1>6. Goes(g, e, e) /\ SearchSound(g, e)
  <2> HIDE DEF e
  <2>1. Coloured(g, e, 2) = Coloured(g, s, 2)
    BY <1>4, <1>5 DEF Coloured
  <2> QED  BY <2>1, <1>4, <1>5 DEF SearchSound, Goes
<1>7. Cardinality(Coloured(g, e, 0)) <= k
  <2> DEFINE W == Coloured(g, s, 0)
  <2> HIDE DEF e
  <2>1. Coloured(g, e, 0) = W \ {n} /\ n \in W /\ W \in SUBSET N
    BY <1>4, <1>5 DEF Coloured
  <2> HIDE DEF W
  <2>2. IsFiniteSet(W) /\ Cardinality(W) \in Nat
    BY <2>1, NodesFinite
  <2>3. Cardinality(W \ {n}) = Cardinality(W) - 1
    BY <2>1, <2>2, FS_RemoveElement
  <2>4. Cardinality(W) <= k + 1
    BY <1>4 DEF W
  <2> QED  BY <2>1, <2>2, <2>3, <2>4
<1> HIDE DEF e
<1>8. \A j \in 0..l : EndsWith(g, r[j], n)
  <2>1. LET p == Append(s.path, n)
        IN  Len(p) = Len(s.path) + 1 /\ p[Len(s.path) + 1] = n /\ Len(s.path) \in Nat
    BY <1>3, AppendFront, LenProperties
  <2>2. \E m \in Nat : m >= 1 /\ Len(Append(s.path, n)) = m /\ Append(s.path, n)[m] = n
    BY <2>1
  <2> QED  BY <1>2, <1>4, <2>2 DEF EndsWith
<1> DEFINE Fits(j) == FollowsEdges(g, s, n, j, r[j])
           Bad == {j \in 0..l : ~ Fits(j)}
<1>9. Fits(0)
  BY <1>2, <1>6 DEF FollowsEdges, e
<1>10. ASSUME NEW j \in 1..l, Fits(j - 1) PROVE Fits(j)
  <2> DEFINE h == j - 1
             t == r[h]
             u == r[j]
             next == g.edges[j][2]
  <2>1. h \in 0..l /\ h \in Nat /\ j = h + 1
    BY <1>1
  <2>2. /\ t \in Search(g) /\ EndsWith(g, t, n) /\ FollowsEdges(g, s, n, h, t)
        /\ u = Visit(d, t, g.edges[j], n)
    BY <2>1, <1>2, <1>8, <1>10
  <2> HIDE DEF h, t, u
  <2>3. SearchSound(g, t) /\ Goes(g, e, t)
    BY <2>2 DEF FollowsEdges, e
  <2>4. Cardinality(Coloured(g, t, 0)) <= k
    <3>1. /\ Cardinality(Coloured(g, e, 0)) \in Nat /\ Cardinality(Coloured(g, t, 0)) \in Nat
          /\ Cardinality(Coloured(g, t, 0)) <= Cardinality(Coloured(g, e, 0))
      BY <2>3, FewerNew
    <3> QED  BY <3>1, <1>7
  <2>5. j \in DOMAIN g.edges
    BY <1>1
  <2>6. /\ SearchSound(g, u) /\ Goes(g, t, u)
        /\ g.edges[j][1] = n /\ u.cycles = <<>> => u.visited[next] = 2
    BY <2>2, <2>3, <2>4, <2>5, VisitFinds
  <2>7. Goes(g, e, u)
    BY <2>3, <2>6, GoesOn
  <2>8. ASSUME u.cycles = <<>>, NEW i \in 1..j, g.edges[i][1] = n
        PROVE  u.visited[g.edges[i][2]] = 2
    <3>1. CASE i = j
      BY <3>1, <2>6, <2>8 DEF next
    <3>2. CASE i # j
      <4>1. i \in 1..h /\ i \in 1..l
        BY <1>1, <2>1, <3>2
      <4>2. t.cycles = <<>>
        BY <2>6, <2>8 DEF Goes
      <4>3. t.visited[g.edges[i][2]] = 2
        BY <4>1, <4>2, <2>2, <2>8 DEF FollowsEdges
      <4>4. g.edges[i][2] \in N
        BY <4>1, <1>1
      <4> QED  BY <4>3, <4>4, <2>6 DEF Goes
    <3> QED  BY <3>1, <3>2
  <2>9. FollowsEdges(g, s, n, j, u)
    BY <2>6, <2>7, <2>8 DEF FollowsEdges, e
  <2> QED  BY <2>9 DEF u
<1> HIDE DEF Fits
<1>11. Bad = {}
  <2> SUFFICES ASSUME Bad # {} PROVE FALSE
    OBVIOUS
  <2>1. PICK m \in Bad : \A j \in Bad : m <= j
    <3>1. Bad \subseteq Nat
      BY <1>1
    <3> QED  BY <3>1, LeastNat
  <2>2. m \in 1..l /\ m - 1 \in 0..l /\ ~ (m <= m - 1)
    <3>1. m \in 0..l /\ m # 0
      BY <1>9
    <3> QED  BY <3>1, <1>1
  <2>3. m - 1 \notin Bad
    <3> HIDE DEF Bad
    <3> QED  BY <2>1, <2>2
  <2>4. Fits(m - 1)
    BY <2>2, <2>3
  <2> QED  BY <2>2, <2>4, <1>10
<1> DEFINE t == r[l]
           u == Left(t, n)
<1>12. t \in Search(g) /\ t.path = Append(s.path, n) /\ FollowsEdges(g, s, n, l, t)
  <2>1. l \in 0..l
    BY <1>1
  <2> QED  BY <2>1, <1>2, <1>11 DEF Fits
<1> HIDE DEF t
<1>13. /\ u.cycles = t.cycles
       /\ \A x \in N : u.visited[x] = IF x = n THEN 2 ELSE t.visited[x]
  BY <1>3, <1>12, LeftIs
<1>14. t \in SearchState(g) /\ t.visited \in [N -> 0..2]
  BY <1>12, SearchIs DEF SearchState
<1>15. /\ SearchSound(g, t) /\ Goes(g, e, t)
       /\ t.cycles = <<>> =>
             \A i \in 1..l : g.edges[i][1] = n => t.visited[g.edges[i][2]] = 2
  BY <1>12 DEF FollowsEdges, e
<1> HIDE DEF u
<1>16. ASSUME u.cycles = <<>> PROVE Ranked(g, Coloured(g, u, 2))
  <2> DEFINE S == Coloured(g, t, 2)
  <2>1. Ranked(g, S)
    BY <1>13, <1>15, <1>16 DEF SearchSound
  <2>2. t.visited[n] = 1
    BY <1>5, <1>15 DEF Goes
  <2>3. S \subseteq Nodes(g) /\ n \notin S /\ Coloured(g, u, 2) = S \cup {n}
    BY <1>13, <2>2 DEF Coloured
  <2>4. ASSUME NEW b \in N, Edge(g, n, b) PROVE b \in S
    <3>1. PICK i \in DOMAIN g.edges : g.edges[i] = <<n, b>>
      BY <2>4 DEF Edge
    <3>2. t.visited[b] = 2
      BY <3>1, <1>1, <1>13, <1>15, <1>16
    <3> QED  BY <3>2 DEF Coloured
  <2> HIDE DEF S
  <2>5. Ranked(g, S \cup {n})
    BY <2>1, <2>3, <2>4, RankedOnce
  <2> QED  BY <2>3, <2>5
<1>17. SearchSound(g, u)
  BY <1>13, <1>15, <1>16 DEF SearchSound
<1>18. Goes(g, s, u)
  <2>1. ASSUME NEW x \in N
        PROVE  /\ s.visited[x] # 0 => u.visited[x] = s.visited[x]
               /\ s.visited[x] = 0 => u.visited[x] # 1
    <3>1. CASE x = n
      BY <3>1, <1>4, <1>13
    <3>2. CASE x # n
      <4>1. e.visited[x] = s.visited[x] /\ u.visited[x] = t.visited[x]
        BY <3>2, <1>5, <1>13
      <4> QED  BY <4>1, <1>15 DEF Goes
    <3> QED  BY <3>1, <3>2
  <2>2. u.cycles = <<>> => s.cycles = <<>>
    BY <1>5, <1>13, <1>15 DEF Goes
  <2> QED  BY <2>1, <2>2 DEF Goes
<1>19. u.visited[n] = 2
  BY <1>13
<1> QED  BY <1>2, <1>17, <1>18, <1>19 DEF t, u

-----------------------------------------------------------------------------
(* Kernel: detect_cycles *)

Unsearched(g) == [visited |-> [n \in Nodes(g) |-> 0], path |-> <<>>, cycles |-> <<>>]

\* The functions by which DetectCycles is defined.
Deepens(f, g) ==
    f = [k \in 0..Len(g.order) |->
            IF k = 0 THEN [n \in Nodes(g) |-> [s \in Search(g) |-> s]]
            ELSE SearchFrom(g, f[k - 1])]

From(d, s, n) == IF s.visited[n] = 0 THEN d[n][s] ELSE s

SearchesAll(it, g, d) ==
    it = [T \in SUBSET (DOMAIN g.order) |->
             IF T = {} THEN Unsearched(g) ELSE From(d, it[T \ {Max(T)}], g.order[Max(T)])]

\* The search that is as deep as there are nodes finds what there is.
LEMMA DeepestFinds ==
    ASSUME NEW g, WellFormed(g)
    PROVE  /\ \E f : Deepens(f, g)
           /\ \A f : Deepens(f, g) =>
                 f[Len(g.order)] \in Searches(g) /\ Finds(g, f[Len(g.order)], Len(g.order))
<1> DEFINE l == Len(g.order)
           S == Searches(g)
           base == [n \in Nodes(g) |-> [s \in Search(g) |-> s]]
           fs == [k \in 1..l |-> [d \in S |-> SearchFrom(g, d)]]
<1>1. l \in Nat
  BY LenProperties DEF WellFormed
<1>2. base \in S
  BY DEF Searches
<1>3. fs \in [1..l -> [S -> S]]
  BY SearchFromTyped
<1> HIDE DEF l
<1>4. \E f : Deepens(f, g)
  <2> HIDE DEF S, base
  <2>1. PICK f \in [0..l -> S] : Recurses(f, base, fs, l)
    <3> HIDE DEF fs
    <3> QED  BY <1>1, <1>2, <1>3, RecursionExists
  <2>2. ASSUME NEW k \in 0..l
        PROVE  f[k] = IF k = 0 THEN base ELSE SearchFrom(g, f[k - 1])
    <3>1. CASE k = 0
      BY <2>1, <3>1 DEF Recurses
    <3>2. CASE k # 0
      <4>1. k \in 1..l /\ k - 1 \in 0..l
        BY <3>2, <1>1
      <4>2. f[k - 1] \in S /\ f[k] = fs[k][f[k - 1]]
        BY <4>1, <2>1 DEF Recurses
      <4> QED  BY <3>2, <4>1, <4>2
    <3> QED  BY <3>1, <3>2
  <2>3. f = [k \in 0..l |-> IF k = 0 THEN base ELSE SearchFrom(g, f[k - 1])]
    BY <2>1, <2>2
  <2>4. Deepens(f, g)
    BY <2>3 DEF Deepens, l, base
  <2> QED  BY <2>4
<1>5. ASSUME NEW f, Deepens(f, g) PROVE f[l] \in S /\ Finds(g, f[l], l)
  <2> HIDE DEF fs
  <2>1. \A k \in 0..l : f[k] = IF k = 0 THEN base ELSE SearchFrom(g, f[k - 1])
    BY <1>5 DEF Deepens, l
  <2> DEFINE Fits(k) == f[k] \in S /\ Finds(g, f[k], k)
             Bad == {k \in 0..l : ~ Fits(k)}
  <2>2. Fits(0)
    <3>1. f[0] = base
      BY <1>1, <2>1
    <3>2. ASSUME NEW s \in Search(g), NEW n \in Nodes(g), Starts(g, s, n, 0) PROVE FALSE
      <4> DEFINE W == Coloured(g, s, 0)
      <4>1. n \in W /\ W \in SUBSET Nodes(g) /\ Cardinality(W) <= 0
        BY <3>2 DEF Starts, Coloured
      <4> HIDE DEF W
      <4>2. IsFiniteSet(W) /\ Cardinality(W) \in Nat
        BY <4>1, NodesFinite
      <4>3. Cardinality(W) = 0
        BY <4>1, <4>2
      <4> QED  BY <4>1, <4>2, <4>3, FS_EmptySet
    <3>3. Finds(g, f[0], 0)
      BY <3>2 DEF Finds
    <3> QED  BY <1>2, <3>1, <3>3
  <2>3. ASSUME NEW k \in 1..l, Fits(k - 1) PROVE Fits(k)
    <3> DEFINE h == k - 1
               d == f[h]
    <3>1. h \in Nat /\ h + 1 = k /\ k \in 0..l /\ k # 0
      BY <1>1
    <3>2. f[k] = SearchFrom(g, d) /\ d \in Searches(g) /\ Finds(g, d, h)
      BY <2>1, <2>3, <3>1
    <3> HIDE DEF h, d
    <3>3. SearchFrom(g, d) \in Searches(g)
      BY <3>2, SearchFromTyped
    <3>4. ASSUME NEW s \in Search(g), NEW n \in Nodes(g), Starts(g, s, n, k)
          PROVE  /\ SearchSound(g, SearchFrom(g, d)[n][s])
                 /\ Goes(g, s, SearchFrom(g, d)[n][s])
                 /\ SearchFrom(g, d)[n][s].visited[n] = 2
      <4>1. Starts(g, s, n, h + 1)
        BY <3>1, <3>4
      <4> QED  BY <3>1, <3>2, <4>1, SearchFromFinds
    <3>5. Finds(g, SearchFrom(g, d), k)
      BY <3>4 DEF Finds
    <3> QED  BY <3>2, <3>3, <3>5
  <2> HIDE DEF Fits
  <2>4. Bad = {}
    <3> SUFFICES ASSUME Bad # {} PROVE FALSE
      OBVIOUS
    <3>1. PICK m \in Bad : \A j \in Bad : m <= j
      <4>1. Bad \subseteq Nat
        BY <1>1
      <4> QED  BY <4>1, LeastNat
    <3>2. m \in 1..l /\ m - 1 \in 0..l /\ ~ (m <= m - 1)
      <4>1. m \in 0..l /\ m # 0
        BY <2>2
      <4> QED  BY <4>1, <1>1
    <3>3. m - 1 \notin Bad
      <4> HIDE DEF Bad
      <4> QED  BY <3>1, <3>2
    <3>4. Fits(m - 1)
      BY <3>2, <3>3
    <3> QED  BY <3>2, <3>4, <2>3
  <2>5. Fits(l)
    <3>1. l \in 0..l
      BY <1>1
    <3> QED  BY <3>1, <2>4
  <2> QED  BY <2>5 DEF Fits
<1> QED  BY <1>4, <1>5 DEF l

\* Between two searches there is no path.
AtRest(g, s) ==
    /\ s \in Search(g) /\ s.path = <<>>
    /\ SearchSound(g, s)

\* The search from one of the nodes leaves nothing on the path.
LEMMA FromRests ==
    ASSUME NEW g, WellFormed(g), NEW l \in Nat, Cardinality(Nodes(g)) <= l,
           NEW d \in Searches(g), Finds(g, d, l),
           NEW s, AtRest(g, s), NEW n \in Nodes(g)
    PROVE  /\ AtRest(g, From(d, s, n)) /\ Goes(g, s, From(d, s, n))
           /\ From(d, s, n).visited[n] = 2
<1>1. s \in Search(g) /\ s.path = <<>> /\ SearchSound(g, s)
  BY DEF AtRest
<1>2. s \in SearchState(g) /\ s.visited[n] \in 0..2 /\ s.visited[n] # 1
  <2>1. ToSet(<<>>) = {}
    BY DEF ToSet
  <2> QED  BY <1>1, <2>1, SearchIs DEF SearchState
<1>3. CASE s.visited[n] # 0
  <2>1. Goes(g, s, s)
    BY DEF Goes
  <2> QED  BY <1>2, <1>3, <2>1 DEF From
<1>4. CASE s.visited[n] = 0
  <2> DEFINE t == d[n][s]
  <2>1. From(d, s, n) = t /\ t \in Search(g) /\ t.path = s.path
    BY <1>1, <1>4 DEF From, Searches
  <2>2. Cardinality(Coloured(g, s, 0)) <= l
    <3>1. Coloured(g, s, 0) \subseteq Nodes(g)
      BY DEF Coloured
    <3>2. IsFiniteSet(Nodes(g)) /\ Cardinality(Nodes(g)) \in Nat
      BY NodesFinite
    <3>3. /\ Cardinality(Coloured(g, s, 0)) <= Cardinality(Nodes(g))
          /\ Cardinality(Coloured(g, s, 0)) \in Nat
      BY <3>1, <3>2, FS_Subset, FS_CardinalityType
    <3> QED  BY <3>2, <3>3
  <2>3. IsPath(g, Append(s.path, n))
    <3>1. Append(<<>>, n) = <<n>> /\ Len(<<n>>) = 1
      OBVIOUS
    <3> QED  BY <1>1, <3>1 DEF IsPath
  <2>4. Starts(g, s, n, l)
    BY <1>1, <1>4, <2>2, <2>3 DEF Starts
  <2> HIDE DEF t
  <2>5. SearchSound(g, t) /\ Goes(g, s, t) /\ t.visited[n] = 2
    BY <1>1, <2>4 DEF Finds, t
  <2> QED  BY <1>1, <2>1, <2>5 DEF AtRest
<1> QED  BY <1>3, <1>4

\* Along a walk of ranked nodes the ranks fall.
LEMMA RanksFall ==
    ASSUME NEW g, Ranked(g, Nodes(g)), NEW p \in Seq(Nodes(g)), IsPath(g, p),
           NEW i \in DOMAIN p, NEW j \in DOMAIN p, i < j
    PROVE  p[i] # p[j]
<1>1. PICK top \in Nat, rank \in [Nodes(g) -> Nat] :
         \A a, b \in Nodes(g) : Edge(g, a, b) => rank[b] < rank[a]
  BY DEF Ranked
<1> DEFINE l == Len(p)
           Bad == {m \in i..l : m # i /\ ~ (rank[p[m]] < rank[p[i]])}
<1>2. l \in Nat /\ DOMAIN p = 1..l /\ \A m \in 1..l : p[m] \in Nodes(g)
  BY LenProperties, ElementOfSeq
<1>3. i \in 1..l /\ j \in 1..l
  BY <1>2
<1>4. Bad = {}
  <2> SUFFICES ASSUME Bad # {} PROVE FALSE
    OBVIOUS
  <2>1. PICK m \in Bad : \A k \in Bad : m <= k
    <3>1. Bad \subseteq Nat
      BY <1>2, <1>3
    <3> HIDE DEF Bad
    <3> QED  BY <3>1, LeastNat
  <2> DEFINE h == m - 1
  <2>2. h \in i..l /\ h \in 1..(l - 1) /\ m = h + 1 /\ m \in 1..l /\ ~ (m <= h)
    BY <1>2, <1>3
  <2>3. h \notin Bad
    <3> HIDE DEF Bad
    <3> QED  BY <2>1, <2>2
  <2>4. ~ (rank[p[m]] < rank[p[i]])
    OBVIOUS
  <2>5. h # i => rank[p[h]] < rank[p[i]]
    BY <2>2, <2>3
  <2> HIDE DEF Bad, h
  <2>6. rank[p[m]] < rank[p[h]]
    <3>1. Edge(g, p[h], p[h + 1])
      BY <2>2 DEF IsPath
    <3>2. p[h] \in Nodes(g) /\ p[m] \in Nodes(g)
      BY <1>2, <2>2
    <3> QED  BY <1>1, <2>2, <3>1, <3>2
  <2>7. rank[p[m]] \in Nat /\ rank[p[h]] \in Nat /\ rank[p[i]] \in Nat
    BY <1>1, <1>2, <1>3, <2>2
  <2>8. CASE h = i
    BY <2>4, <2>6, <2>8
  <2>9. CASE h # i
    BY <2>4, <2>5, <2>6, <2>7, <2>9
  <2> QED  BY <2>8, <2>9
<1>5. rank[p[j]] < rank[p[i]]
  <2>1. j \in i..l /\ j # i
    BY <1>2, <1>3
  <2> QED  BY <2>1, <1>4
<1>6. rank[p[i]] \in Nat
  BY <1>1, <1>2, <1>3
<1> QED  BY <1>5, <1>6

\* Before the first search no node is coloured.
LEMMA RestsAtFirst ==
    ASSUME NEW g
    PROVE  AtRest(g, Unsearched(g))
<1> DEFINE s == Unsearched(g)
<1>1. s \in SearchState(g) /\ s.path = <<>> /\ s.cycles = <<>> /\ \A x \in Nodes(g) : s.visited[x] = 0
  <2>1. <<>> \in Seq(Nodes(g)) /\ <<>> \in Seq(Seq(Nodes(g)))
    BY EmptySeq
  <2> QED  BY <2>1 DEF Unsearched, SearchState
<1> HIDE DEF s
<1>2. s \in Search(g)
  BY <1>1, SearchIs
<1>3. Ranked(g, Coloured(g, s, 2))
  <2>1. Coloured(g, s, 2) = {}
    BY <1>1 DEF Coloured
  <2>2. 0 \in Nat /\ [x \in Nodes(g) |-> 0] \in [Nodes(g) -> Nat]
    OBVIOUS
  <2> QED  BY <2>1, <2>2 DEF Ranked
<1>4. DOMAIN <<>> = {}
  OBVIOUS
<1>5. AtRest(g, s)
  BY <1>1, <1>2, <1>3, <1>4 DEF AtRest, SearchSound
<1> QED  BY <1>5 DEF s

\* detect_cycles starts a search from each node in turn.
LEMMA SearchesAllNodes ==
    ASSUME NEW g, WellFormed(g), NEW d \in Searches(g), Finds(g, d, Len(g.order)),
           NEW it, SearchesAll(it, g, d)
    PROVE  /\ AtRest(g, it[DOMAIN g.order])
           /\ \A n \in Nodes(g) : it[DOMAIN g.order].visited[n] = 2
<1> DEFINE l == Len(g.order)
<1>1. l \in Nat /\ DOMAIN g.order = 1..l /\ \A k \in 1..l : g.order[k] \in Nodes(g)
  BY LenProperties, ElementOfSeq DEF WellFormed
<1>2. Cardinality(Nodes(g)) <= l /\ Finds(g, d, l)
  BY NodesFinite
<1> HIDE DEF l
<1>3. \A T \in SUBSET (1..l) :
          it[T] = IF T = {} THEN Unsearched(g) ELSE From(d, it[T \ {Max(T)}], g.order[Max(T)])
  BY <1>1, Zenon DEF SearchesAll
<1> DEFINE Done(k) == /\ AtRest(g, it[1..k])
                      /\ \A i \in 1..k : it[1..k].visited[g.order[i]] = 2
           Bad == {k \in 0..l : ~ Done(k)}
<1>4. Done(0)
  <2>1. it[{}] = Unsearched(g) /\ 1..0 = {}
    <3>1. {} \in SUBSET (1..l) /\ 1..0 = {}
      OBVIOUS
    <3> QED  BY <1>3, <3>1
  <2> QED  BY <2>1, RestsAtFirst
<1>5. ASSUME NEW k \in 1..l, Done(k - 1) PROVE Done(k)
  <2> DEFINE h == k - 1
             s == it[1..h]
             t == it[1..k]
             n == g.order[k]
  <2>1. t = From(d, s, n)
    <3>1. it[1..k] = From(d, it[(1..k) \ {Max(1..k)}], g.order[Max(1..k)])
      BY <1>1, <1>3, UptoPosition
    <3>2. Max(1..k) = k /\ (1..k) \ {Max(1..k)} = 1..(k - 1)
      BY <1>1, UptoPosition
    <3> QED  BY <3>1, <3>2
  <2>2. k = h + 1 /\ h \in Nat /\ n \in Nodes(g)
    BY <1>1
  <2>3. AtRest(g, s) /\ \A i \in 1..h : s.visited[g.order[i]] = 2
    BY <1>5
  <2> HIDE DEF h, s, n
  <2>4. AtRest(g, t) /\ Goes(g, s, t) /\ t.visited[n] = 2
    BY <2>1, <2>2, <2>3, <1>1, <1>2, FromRests
  <2> HIDE DEF t
  <2>5. ASSUME NEW i \in 1..k PROVE t.visited[g.order[i]] = 2
    <3>1. CASE i = k
      BY <3>1, <2>4 DEF n
    <3>2. CASE i # k
      <4>1. i \in 1..h /\ i \in 1..l
        BY <3>2, <2>2, <1>1
      <4> QED  BY <4>1, <2>3, <2>4, <1>1 DEF Goes
    <3> QED  BY <3>1, <3>2
  <2> QED  BY <2>4, <2>5 DEF t
<1> HIDE DEF Done
<1>6. Bad = {}
  <2> SUFFICES ASSUME Bad # {} PROVE FALSE
    OBVIOUS
  <2>1. PICK m \in Bad : \A j \in Bad : m <= j
    <3>1. Bad \subseteq Nat
      BY <1>1
    <3> QED  BY <3>1, LeastNat
  <2>2. m \in 1..l /\ m - 1 \in 0..l /\ ~ (m <= m - 1)
    <3>1. m \in 0..l /\ m # 0
      BY <1>4
    <3> QED  BY <3>1, <1>1
  <2>3. m - 1 \notin Bad
    <3> HIDE DEF Bad
    <3> QED  BY <2>1, <2>2
  <2>4. Done(m - 1)
    BY <2>2, <2>3
  <2> QED  BY <2>2, <2>4, <1>5
<1>7. Done(l)
  <2>1. l \in 0..l
    BY <1>1
  <2> QED  BY <1>6, <2>1
<1>8. \A n \in Nodes(g) : \E i \in 1..l : n = g.order[i]
  BY <1>1 DEF Nodes, ToSet
<1> QED  BY <1>1, <1>7, <1>8 DEF Done

\* detect_cycles reports cycles only, and one if there is any.
LEMMA CyclesDetected ==
    ASSUME NEW g, WellFormed(g)
    PROVE  /\ DetectCycles(g) \in Seq(Seq(Nodes(g)))
           /\ \A i \in DOMAIN DetectCycles(g) : Closed(g, DetectCycles(g)[i])
           /\ DetectCycles(g) = <<>> <=> \A n \in Nodes(g) : ~ OnCycle(g, n)
<1> DEFINE l == Len(g.order)
           dfs == CHOOSE f : Deepens(f, g)
           d == dfs[l]
           it == CHOOSE h : SearchesAll(h, g, d)
           s == it[DOMAIN g.order]
           S == {t \in Search(g) : AtRest(g, t)}
           fs == [k \in 1..l |-> [t \in S |-> From(d, t, g.order[k])]]
<1>1. l \in Nat /\ DOMAIN g.order = 1..l /\ \A k \in 1..l : g.order[k] \in Nodes(g)
  BY LenProperties, ElementOfSeq DEF WellFormed
<1>2. Deepens(dfs, g)
  BY DeepestFinds, Zenon
<1>3. d \in Searches(g) /\ Finds(g, d, l)
  <2> HIDE DEF dfs
  <2> QED  BY <1>2, DeepestFinds
<1>4. DetectCycles(g) = s.cycles
  BY Zenon DEF DetectCycles, FoldLeft, MapThenFoldSet, SearchesAll, From, Unsearched, Deepens
<1>5. fs \in [1..l -> [S -> S]]
  <2> HIDE DEF d
  <2>1. ASSUME NEW k \in 1..l, NEW t \in S PROVE From(d, t, g.order[k]) \in S
    <3>1. AtRest(g, t) /\ g.order[k] \in Nodes(g) /\ Cardinality(Nodes(g)) <= l
      BY <1>1, NodesFinite
    <3>2. AtRest(g, From(d, t, g.order[k]))
      <4> HIDE DEF l
      <4> QED  BY <1>1, <1>3, <3>1, FromRests
    <3> QED  BY <3>2 DEF AtRest
  <2> QED  BY <2>1
<1> HIDE DEF d, l
<1>6. Unsearched(g) \in S
  BY RestsAtFirst DEF AtRest
<1>7. PICK f \in [SUBSET (1..l) -> S] : Folds(f, Unsearched(g), fs, l)
  <2> HIDE DEF S, fs
  <2> QED  BY <1>1, <1>5, <1>6, FoldExists
<1>8. ASSUME NEW T \in SUBSET (1..l)
      PROVE  f[T] = IF T = {} THEN Unsearched(g) ELSE From(d, f[T \ {Max(T)}], g.order[Max(T)])
  <2>1. T # {} => Max(T) \in 1..l
    <3>1. T \subseteq 1..l
      OBVIOUS
    <3> QED  BY <1>1, <3>1, BelowGreatest
  <2>2. f[T \ {Max(T)}] \in S
    OBVIOUS
  <2> HIDE DEF S
  <2>3. T # {} => fs[Max(T)][f[T \ {Max(T)}]] = From(d, f[T \ {Max(T)}], g.order[Max(T)])
    BY <2>1, <2>2
  <2> HIDE DEF fs
  <2> QED  BY <1>7, <2>3 DEF Folds
<1>9. f = [T \in SUBSET (1..l) |-> f[T]]
  <2> HIDE DEF S
  <2> QED  OBVIOUS
<1>10. f = [T \in SUBSET (1..l) |->
              IF T = {} THEN Unsearched(g) ELSE From(d, f[T \ {Max(T)}], g.order[Max(T)])]
  BY <1>8, <1>9
<1>11. SearchesAll(f, g, d)
  BY <1>1, <1>10 DEF SearchesAll
<1>12. SearchesAll(it, g, d)
  BY <1>11, Zenon
<1> HIDE DEF it
<1>13. AtRest(g, s) /\ \A n \in Nodes(g) : s.visited[n] = 2
  BY <1>3, <1>12, SearchesAllNodes DEF l
<1> HIDE DEF s
<1>14. s.cycles \in Seq(Seq(Nodes(g))) /\ SearchSound(g, s)
  BY <1>13, SearchIs DEF AtRest, SearchState
<1>15. \A i \in DOMAIN s.cycles : Closed(g, s.cycles[i])
  BY <1>14 DEF SearchSound
<1>16. ASSUME s.cycles = <<>>, NEW n \in Nodes(g) PROVE ~ OnCycle(g, n)
  <2>1. Coloured(g, s, 2) = Nodes(g)
    BY <1>13 DEF Coloured
  <2>2. Ranked(g, Nodes(g))
    BY <1>14, <1>16, <2>1 DEF SearchSound
  <2> QED  BY <2>2, RanksFall DEF OnCycle
<1>17. ASSUME s.cycles # <<>> PROVE \E n \in Nodes(g) : OnCycle(g, n)
  <2>1. PICK i \in DOMAIN s.cycles : TRUE
    <3>1. /\ Len(s.cycles) \in Nat /\ DOMAIN s.cycles = 1..Len(s.cycles)
          /\ Len(s.cycles) # 0
      BY <1>14, <1>17, EmptySeq, LenProperties
    <3>2. 1 \in DOMAIN s.cycles
      BY <3>1
    <3> QED  BY <3>2, Zenon
  <2> DEFINE c == s.cycles[i]
  <2>2. c \in Seq(Nodes(g)) /\ Closed(g, c)
    BY <1>14, <1>15, ElementOfSeq, LenProperties
  <2> HIDE DEF c
  <2>3. /\ Len(c) \in Nat /\ Len(c) > 1 /\ DOMAIN c = 1..Len(c) /\ c[1] = c[Len(c)]
        /\ c[Len(c)] \in Nodes(g) /\ c # <<>> /\ IsPath(g, c)
    BY <2>2, LenProperties, ElementOfSeq, EmptySeq DEF Closed
  <2>4. 1 \in DOMAIN c /\ Len(c) \in DOMAIN c /\ 1 < Len(c)
    BY <2>3
  <2>5. OnCycle(g, c[Len(c)])
    BY <2>2, <2>3, <2>4 DEF OnCycle
  <2> QED  BY <2>3, <2>5
<1> QED  BY <1>4, <1>14, <1>15, <1>16, <1>17

-----------------------------------------------------------------------------
(* Kernel: reachability *)

\* A walk with at least one edge.
Leads(g, m, n) ==
    \E p \in Seq(Nodes(g)) : /\ IsPath(g, p) /\ Len(p) > 1
                             /\ p[1] = m /\ p[Len(p)] = n

\* A walk that goes one edge further.
LEMMA WalkOn ==
    ASSUME NEW g, NEW p \in Seq(Nodes(g)), IsPath(g, p), Len(p) >= 1,
           NEW n \in Nodes(g), Edge(g, p[Len(p)], n)
    PROVE  /\ Append(p, n) \in Seq(Nodes(g)) /\ IsPath(g, Append(p, n))
           /\ Len(Append(p, n)) > 1 /\ Append(p, n) # <<>>
           /\ \A i \in DOMAIN p : i \in DOMAIN Append(p, n) /\ Append(p, n)[i] = p[i]
           /\ Append(p, n)[1] = p[1] /\ Append(p, n)[Len(Append(p, n))] = n
<1> DEFINE l == Len(p)
           q == Append(p, n)
<1>1. l \in Nat /\ l >= 1 /\ DOMAIN p = 1..l
  BY LenProperties
<1>2. q \in Seq(Nodes(g)) /\ Len(q) = l + 1 /\ (\A i \in 1..l : q[i] = p[i]) /\ q[l + 1] = n
  BY AppendFront
<1>3. IsPath(g, q)
  BY <1>1, PathGoesOn
<1>4. DOMAIN q = 1..(l + 1) /\ q # <<>>
  BY <1>2, LenProperties, EmptySeq
<1> HIDE DEF l, q
<1>5. Len(q) > 1 /\ 1 \in 1..l /\ \A i \in 1..l : i \in 1..(l + 1)
  BY <1>1, <1>2
<1> QED  BY <1>1, <1>2, <1>3, <1>4, <1>5 DEF l, q

\* To be in every closed set is to be at the end of a walk.
LEMMA ReachesIs ==
    ASSUME NEW g, NEW m \in Nodes(g), NEW n \in Nodes(g)
    PROVE  Reaches(g, m, n) <=> Leads(g, m, n)
<1> DEFINE N == Nodes(g)
           Shut(S) == \A a \in S \cup {m}, b \in N : Edge(g, a, b) => b \in S
<1>1. ASSUME Leads(g, m, n), NEW S \in SUBSET N, Shut(S) PROVE n \in S
  <2>1. PICK p \in Seq(N) : IsPath(g, p) /\ Len(p) > 1 /\ p[1] = m /\ p[Len(p)] = n
    BY <1>1 DEF Leads
  <2> DEFINE l == Len(p)
             Bad == {k \in 2..l : p[k] \notin S}
  <2>2. l \in Nat /\ l > 1 /\ \A k \in 1..l : p[k] \in N
    BY <2>1, LenProperties, ElementOfSeq
  <2>3. Bad = {}
    <3> SUFFICES ASSUME Bad # {} PROVE FALSE
      OBVIOUS
    <3>1. PICK k \in Bad : \A j \in Bad : k <= j
      <4>1. Bad \subseteq Nat
        BY <2>2
      <4> HIDE DEF Bad
      <4> QED  BY <4>1, LeastNat
    <3> DEFINE h == k - 1
    <3>2. h \in 1..(l - 1) /\ h \in 1..l /\ k = h + 1 /\ k \in 1..l /\ ~ (k <= h) /\ (h # 1 => h \in 2..l)
      BY <2>2
    <3>3. h \notin Bad
      <4> HIDE DEF Bad
      <4> QED  BY <3>1, <3>2
    <3>4. p[h] \in S \cup {m}
      BY <2>1, <3>2, <3>3
    <3>5. p[k] \notin S
      OBVIOUS
    <3> HIDE DEF h, Bad
    <3>6. Edge(g, p[h], p[k])
      BY <2>1, <3>2 DEF IsPath
    <3>7. p[k] \in N
      BY <2>2, <3>2
    <3> QED  BY <1>1, <3>4, <3>5, <3>6, <3>7
  <2>4. l \in 2..l
    BY <2>2
  <2> QED  BY <2>1, <2>3, <2>4
<1>2. ASSUME Reaches(g, m, n) PROVE Leads(g, m, n)
  <2> DEFINE S == {x \in N : Leads(g, m, x)}
  <2>1. ASSUME NEW a \in S \cup {m}, NEW b \in N, Edge(g, a, b) PROVE Leads(g, m, b)
    <3>1. CASE a = m
      <4> DEFINE p == <<m, b>>
      <4>1. p \in Seq(N) /\ Len(p) = 2 /\ p[1] = m /\ p[2] = b
        OBVIOUS
      <4> HIDE DEF p
      <4>2. IsPath(g, p)
        BY <4>1, <3>1, <2>1 DEF IsPath
      <4>3. Len(p) > 1 /\ p[Len(p)] = b
        BY <4>1
      <4> QED  BY <4>1, <4>2, <4>3 DEF Leads
    <3>2. CASE a \in S
      <4>1. PICK p \in Seq(N) : IsPath(g, p) /\ Len(p) > 1 /\ p[1] = m /\ p[Len(p)] = a
        BY <3>2 DEF Leads
      <4>2. Len(p) >= 1 /\ Edge(g, p[Len(p)], b)
        BY <4>1, <2>1, LenProperties
      <4> DEFINE q == Append(p, b)
      <4>3. q \in Seq(N) /\ IsPath(g, q) /\ Len(q) > 1 /\ q[1] = p[1] /\ q[Len(q)] = b
        BY <4>1, <4>2, WalkOn
      <4> HIDE DEF q
      <4> QED  BY <4>1, <4>3 DEF Leads
    <3> QED  BY <3>1, <3>2
  <2>2. S \in SUBSET N /\ Shut(S)
    BY <2>1
  <2>3. n \in S
    <3> HIDE DEF S
    <3> QED  BY <1>2, <2>2 DEF Reaches
  <2> QED  BY <2>3
<1> QED  BY <1>1, <1>2 DEF Reaches

\* What a cycle leads to, in both ways to say it.
LEMMA OnCycleIs ==
    ASSUME NEW g
    PROVE  /\ \A n \in Nodes(g) :
                 OnCycle(g, n) <=>
                     \E m \in Nodes(g) : Reaches(g, m, m) /\ Reaches(g, m, n)
           /\ IsAcyclic(g) <=> \A n \in Nodes(g) : ~ OnCycle(g, n)
<1> DEFINE N == Nodes(g)
<1>1. ASSUME NEW n \in N, OnCycle(g, n)
      PROVE  \E m \in N : Reaches(g, m, m) /\ Reaches(g, m, n)
  <2>1. PICK p \in Seq(N) : /\ IsPath(g, p)
                            /\ p # <<>> /\ p[Len(p)] = n
                            /\ \E i, j \in DOMAIN p : i < j /\ p[i] = p[j]
    BY <1>1 DEF OnCycle
  <2>2. PICK i, j \in DOMAIN p : i < j /\ p[i] = p[j]
    BY <2>1
  <2> DEFINE l == Len(p)
             m == p[i]
  <2>3. /\ l \in Nat /\ DOMAIN p = 1..l /\ (\A k \in 1..l : p[k] \in N)
        /\ i \in 1..l /\ j \in 1..l
    BY LenProperties, ElementOfSeq
  <2>4. ASSUME NEW k \in 1..l, i < k PROVE Leads(g, m, p[k])
    <3> DEFINE q == SubSeq(p, i, k)
    <3>1. q \in Seq(N) /\ Len(q) = k - i + 1 /\ \A h \in 1..(k - i + 1) : q[h] = p[i + h - 1]
      <4>1. i <= k
        BY <2>3, <2>4
      <4> QED  BY <2>3, <4>1, SubSeqProperties
    <3> HIDE DEF q
    <3>2. Len(q) > 1 /\ Len(q) - 1 = k - i
      BY <2>3, <2>4, <3>1
    <3>3. ASSUME NEW h \in 1..(k - i) PROVE Edge(g, q[h], q[h + 1])
      <4> DEFINE x == i + h - 1
      <4>1. /\ x \in 1..(l - 1) /\ h \in 1..(k - i + 1) /\ h + 1 \in 1..(k - i + 1)
            /\ i + (h + 1) - 1 = x + 1
        BY <2>3, <2>4
      <4>2. q[h] = p[x] /\ q[h + 1] = p[x + 1]
        BY <3>1, <4>1
      <4> HIDE DEF x
      <4> QED  BY <2>1, <4>1, <4>2 DEF IsPath
    <3>4. IsPath(g, q)
      BY <3>2, <3>3 DEF IsPath
    <3>5. q[1] = m
      <4>1. 1 \in 1..(k - i + 1) /\ i + 1 - 1 = i
        BY <2>3, <2>4
      <4> QED  BY <3>1, <4>1
    <3>6. q[Len(q)] = p[k]
      <4>1. k - i + 1 \in 1..(k - i + 1) /\ i + (k - i + 1) - 1 = k
        BY <2>3, <2>4
      <4> QED  BY <3>1, <4>1
    <3> QED  BY <3>1, <3>2, <3>4, <3>5, <3>6 DEF Leads
  <2>5. Leads(g, m, m) /\ Leads(g, m, n)
    <3>1. j \in 1..l /\ i < j /\ l \in 1..l /\ i < l
      BY <2>2, <2>3
    <3> HIDE DEF m
    <3>2. Leads(g, m, p[j]) /\ Leads(g, m, p[l])
      BY <2>4, <3>1
    <3> QED  BY <3>2, <2>1, <2>2 DEF m
  <2>6. m \in N
    BY <2>3
  <2> HIDE DEF m
  <2> QED  BY <2>5, <2>6, ReachesIs
<1>2. ASSUME NEW m \in N, Reaches(g, m, m) PROVE OnCycle(g, m)
  <2>1. Leads(g, m, m)
    BY <1>2, ReachesIs
  <2>2. PICK p \in Seq(N) : IsPath(g, p) /\ Len(p) > 1 /\ p[1] = m /\ p[Len(p)] = m
    BY <2>1 DEF Leads
  <2>3. Len(p) \in Nat /\ DOMAIN p = 1..Len(p) /\ p # <<>>
    BY <2>2, LenProperties, EmptySeq
  <2>4. 1 \in DOMAIN p /\ Len(p) \in DOMAIN p /\ 1 < Len(p)
    BY <2>2, <2>3
  <2> QED  BY <2>2, <2>3, <2>4 DEF OnCycle
<1>3. ASSUME NEW a \in N, OnCycle(g, a), NEW b \in N, Edge(g, a, b) PROVE OnCycle(g, b)
  <2>1. PICK p \in Seq(N) : /\ IsPath(g, p)
                            /\ p # <<>> /\ p[Len(p)] = a
                            /\ \E i, j \in DOMAIN p : i < j /\ p[i] = p[j]
    BY <1>3 DEF OnCycle
  <2>2. Len(p) >= 1
    BY <2>1, EmptySeq
  <2> DEFINE q == Append(p, b)
  <2>3. /\ q \in Seq(N) /\ IsPath(g, q) /\ q # <<>> /\ q[Len(q)] = b
        /\ \A i \in DOMAIN p : i \in DOMAIN q /\ q[i] = p[i]
    BY <1>3, <2>1, <2>2, WalkOn
  <2> HIDE DEF q
  <2>4. \E i, j \in DOMAIN q : i < j /\ q[i] = q[j]
    BY <2>1, <2>3
  <2> QED  BY <2>3, <2>4 DEF OnCycle
<1>4. ASSUME NEW m \in N, NEW n \in N, Reaches(g, m, m), Reaches(g, m, n)
      PROVE  OnCycle(g, n)
  <2> DEFINE S == {x \in N : OnCycle(g, x)}
  <2>1. S \in SUBSET N /\ m \in S
    BY <1>2, <1>4
  <2>2. \A a \in S \cup {m}, b \in N : Edge(g, a, b) => b \in S
    BY <1>3, <2>1
  <2>3. n \in S
    <3> HIDE DEF S
    <3> QED  BY <1>4, <2>1, <2>2 DEF Reaches
  <2> QED  BY <2>3
<1>5. \A n \in N : OnCycle(g, n) <=> \E m \in N : Reaches(g, m, m) /\ Reaches(g, m, n)
  BY <1>1, <1>4
<1>6. IsAcyclic(g) <=> \A n \in N : ~ OnCycle(g, n)
  BY <1>1, <1>2 DEF IsAcyclic
<1> QED  BY <1>5, <1>6

-----------------------------------------------------------------------------
(* Kernel: no batch comes late *)

\* No batch is empty, and every node after the first batch waited for one of
\* the batch before its own.
Tight(g, batches) ==
    \A j \in DOMAIN batches :
        /\ batches[j] # {}
        /\ j > 1 => \A n \in batches[j] : \E m \in batches[j - 1] : Edge(g, m, n)

\* What is ready waited for one of the last batch.
TightSoFar(g, s) ==
    /\ Tight(g, s.batches)
    /\ Len(s.batches) >= 1 =>
          \A n \in Ready(s) : \E m \in s.batches[Len(s.batches)] : Edge(g, m, n)

\* What becomes ready with a batch waited for one of that batch.
LEMMA TightOn ==
    ASSUME NEW g, WellFormed(g), NEW s \in BatchState(g), EdgesCounted(g, s), TightSoFar(g, s)
    PROVE  TightSoFar(g, NextBatch(g, s))
<1> DEFINE N == Nodes(g)
           B == Ready(s)
           rest == s.remaining \ B
           lost(n) == Cardinality(EdgesInto(g, B, n))
           degree == [n \in N |-> IF n \in rest THEN s.degree[n] - lost(n) ELSE s.degree[n]]
           batches == Append(s.batches, B)
           t == NextBatch(g, s)
<1>1. s.remaining \in SUBSET N /\ s.degree \in [N -> Int] /\ s.batches \in Seq(SUBSET N)
  BY DEF BatchState
<1>2. B \subseteq s.remaining /\ B \in SUBSET N /\ rest \in SUBSET N
  BY <1>1 DEF Ready
<1>3. CASE B = {}
  <2>1. t = s
    BY <1>3 DEF NextBatch, Ready
  <2> QED  BY <2>1
<1>4. CASE B # {}
  <2>1. t = [remaining |-> rest, degree |-> degree, batches |-> batches]
    BY <1>4, Zenon DEF NextBatch, Ready
  <2>2. t.remaining = rest /\ t.degree = degree /\ t.batches = batches
    BY <2>1
  <2>3. /\ Len(batches) = Len(s.batches) + 1 /\ Len(s.batches) \in Nat
        /\ batches[Len(s.batches) + 1] = B
        /\ DOMAIN s.batches = 1..Len(s.batches) /\ DOMAIN batches = 1..Len(batches)
        /\ \A i \in DOMAIN s.batches : batches[i] = s.batches[i]
    <3> HIDE DEF B, N
    <3>1. batches \in Seq(SUBSET N)
      BY <1>1, <1>2, AppendProperties
    <3> QED  BY <1>1, <1>2, <3>1, AppendProperties, LenProperties
  <2>4. ASSUME NEW n \in Ready(t) PROVE \E m \in B : Edge(g, m, n)
    <3>1. n \in rest /\ degree[n] = 0
      BY <2>2 DEF Ready
    <3>2. degree[n] = s.degree[n] - lost(n)
      BY <3>1, <1>2
    <3>3. s.degree[n] # 0 /\ s.degree[n] \in Int
      BY <3>1, <1>1, <1>2 DEF Ready
    <3>4. lost(n) \in Nat
      <4> HIDE DEF B
      <4>1. B \subseteq B
        OBVIOUS
      <4> QED  BY <4>1, EdgesSplit
    <3> HIDE DEF degree, rest
    <3>5. lost(n) # 0
      BY <3>1, <3>2, <3>3, <3>4
    <3> HIDE DEF B
    <3>6. EdgesInto(g, B, n) # {}
      BY <3>5, FS_EmptySet
    <3> QED  BY <3>6, EdgeFrom
  <2> DEFINE l == Len(s.batches)
  <2> HIDE DEF batches, t, B, degree, rest
  <2>5. ASSUME NEW j \in DOMAIN batches
        PROVE  /\ batches[j] # {}
               /\ j > 1 => \A n \in batches[j] : \E m \in batches[j - 1] : Edge(g, m, n)
    <3>1. CASE j \in DOMAIN s.batches
      <4>1. batches[j] = s.batches[j] /\ (j > 1 => batches[j - 1] = s.batches[j - 1])
        BY <3>1, <2>3
      <4> QED  BY <3>1, <4>1 DEF TightSoFar, Tight
    <3>2. CASE j \notin DOMAIN s.batches
      <4>1. j = l + 1 /\ batches[j] = B
        BY <3>2, <2>3
      <4>2. ASSUME j > 1, NEW n \in batches[j] PROVE \E m \in batches[j - 1] : Edge(g, m, n)
        <5>1. l >= 1 /\ l \in DOMAIN s.batches /\ j - 1 = l
          BY <4>1, <4>2, <2>3
        <5>2. \E m \in s.batches[l] : Edge(g, m, n)
          BY <4>1, <4>2, <5>1 DEF TightSoFar, B
        <5> QED  BY <5>1, <5>2, <2>3
      <4> QED  BY <1>4, <4>1, <4>2
    <3> QED  BY <3>1, <3>2
  <2>6. Tight(g, batches)
    BY <2>5 DEF Tight
  <2> QED  BY <2>2, <2>3, <2>4, <2>6 DEF TightSoFar, t
<1> QED  BY <1>3, <1>4

\* Every node of a batch depends on one of the batch before.
LEMMA BatchesTight ==
    ASSUME NEW g, WellFormed(g)
    PROVE  Tight(g, ParallelSafeBatches(g))
<1> DEFINE n == Len(g.order)
           f == CHOOSE h : TakesBatches(h, g)
           Fits(k) == f[k] \in BatchStates(g) /\ TightSoFar(g, f[k])
           Bad == {k \in 0..n : ~ Fits(k)}
<1>1. n \in Nat
  BY LenProperties DEF WellFormed
<1>2. TakesBatches(f, g)
  BY TakesBatchesExists, Zenon
<1>3. ParallelSafeBatches(g) = f[n].batches
  BY Zenon DEF ParallelSafeBatches, TakesBatches, FirstState
<1> HIDE DEF f
<1>4. \A k \in 0..n : f[k] = IF k = 0 THEN FirstState(g) ELSE NextBatch(g, f[k - 1])
  BY <1>2 DEF TakesBatches
<1>5. Fits(0)
  <2>1. f[0] = FirstState(g)
    BY <1>1, <1>4
  <2>2. f[0] \in BatchStates(g)
    BY <2>1, FirstBatchState
  <2>3. f[0].batches = <<>> /\ Len(<<>>) = 0 /\ DOMAIN <<>> = {}
    BY <2>1 DEF FirstState
  <2> QED  BY <2>2, <2>3 DEF TightSoFar, Tight
<1>6. ASSUME NEW k \in 1..n, Fits(k - 1) PROVE Fits(k)
  <2> DEFINE s == f[k - 1]
  <2>1. f[k] = NextBatch(g, s)
    BY <1>1, <1>4
  <2>2. s \in BatchState(g) /\ EdgesCounted(g, s) /\ Scheduled(g, s) /\ TightSoFar(g, s)
    BY <1>6 DEF BatchStates
  <2> HIDE DEF s
  <2>3. f[k] \in BatchStates(g)
    BY <2>1, <2>2, BatchTaken DEF BatchStates
  <2>4. TightSoFar(g, f[k])
    BY <2>1, <2>2, TightOn
  <2> QED  BY <2>3, <2>4
<1> HIDE DEF Fits
<1>7. Bad = {}
  <2> SUFFICES ASSUME Bad # {} PROVE FALSE
    OBVIOUS
  <2>1. PICK m \in Bad : \A j \in Bad : m <= j
    <3>1. Bad \subseteq Nat
      BY <1>1
    <3> QED  BY <3>1, LeastNat
  <2>2. m \in 1..n /\ m - 1 \in 0..n /\ ~ (m <= m - 1)
    <3>1. m \in 0..n /\ m # 0
      BY <1>5
    <3> QED  BY <3>1, <1>1
  <2>3. m - 1 \notin Bad
    <3> HIDE DEF Bad
    <3> QED  BY <2>1, <2>2
  <2>4. Fits(m - 1)
    BY <2>2, <2>3
  <2> QED  BY <2>2, <2>4, <1>6
<1>8. Fits(n)
  <2>1. n \in 0..n
    BY <1>1
  <2> QED  BY <1>7, <2>1
<1> QED  BY <1>3, <1>8 DEF Fits, TightSoFar

-----------------------------------------------------------------------------
(* Kernel: the longest paths *)

Answer(g) == [len : Nat, next : Seq(Nodes(g))]

\* A longest path from n, or its first step: longer than from any dependent.
Longest(g, h, v, n) ==
    /\ v.len >= 1
    /\ \A m \in Nodes(g) : Edge(g, n, m) => v.len >= h[m].len + 1
    /\ \/ v.len = 1 /\ v.next = <<>>
       \/ \E m \in Nodes(g) : Edge(g, n, m) /\ v.next = <<m>> /\ v.len = h[m].len + 1

\* The same of the first k edges.
LongestOf(g, h, v, n, k) ==
    /\ v.len >= 1
    /\ \A i \in 1..k : g.edges[i][1] = n => v.len >= h[g.edges[i][2]].len + 1
    /\ \/ v.len = 1 /\ v.next = <<>>
       \/ \E m \in Nodes(g) : Edge(g, n, m) /\ v.next = <<m>> /\ v.len = h[m].len + 1

Alone == [len |-> 1, next |-> <<>>]

\* The function by which the fold over the edges is defined.
Lengthens(it, g, h, n) ==
    it = [T \in SUBSET (DOMAIN g.edges) |->
             IF T = {} THEN Alone ELSE Longer(h, it[T \ {Max(T)}], g.edges[Max(T)], n)]

\* An answer stays an answer with one edge more.
LEMMA LongerTyped ==
    ASSUME NEW g, NEW h \in [Nodes(g) -> Answer(g)], NEW v \in Answer(g),
           NEW edge \in Nodes(g) \X Nodes(g), NEW n
    PROVE  Longer(h, v, edge, n) \in Answer(g)
<1> DEFINE m == edge[2]
<1>1. m \in Nodes(g) /\ h[m] \in Answer(g)
  OBVIOUS
<1>2. h[m].len + 1 \in Nat /\ <<m>> \in Seq(Nodes(g))
  BY <1>1 DEF Answer
<1>3. [len |-> h[m].len + 1, next |-> <<m>>] \in Answer(g)
  BY <1>2 DEF Answer
<1> QED  BY <1>3 DEF Longer

\* With one edge more it is the longest of one edge more.
LEMMA LongerLongest ==
    ASSUME NEW g, WellFormed(g), NEW h \in [Nodes(g) -> Answer(g)], NEW v \in Answer(g),
           NEW n, NEW j \in Nat, NEW k, k = j + 1, LongestOf(g, h, v, n, j),
           k \in DOMAIN g.edges
    PROVE  LongestOf(g, h, Longer(h, v, g.edges[k], n), n, k)
<1> DEFINE edge == g.edges[k]
           m == edge[2]
           u == Longer(h, v, edge, n)
<1>1. m \in Nodes(g) /\ h[m] \in Answer(g) /\ h[m].len \in Nat /\ v.len \in Nat
  <2>1. edge \in Nodes(g) \X Nodes(g)
    BY ElementOfSeq, LenProperties DEF WellFormed
  <2> HIDE DEF edge
  <2>2. m \in Nodes(g)
    BY <2>1
  <2> QED  BY <2>2 DEF Answer
<1>2. CASE edge[1] = n /\ h[m].len + 1 > v.len
  <2>1. u = [len |-> h[m].len + 1, next |-> <<m>>]
    BY <1>2 DEF Longer
  <2>2. u.len = h[m].len + 1 /\ u.next = <<m>>
    BY <2>1
  <2>3. Edge(g, n, m)
    <3>1. edge \in Nodes(g) \X Nodes(g)
      BY ElementOfSeq, LenProperties DEF WellFormed
    <3>2. edge = <<n, m>>
      BY <1>2, <3>1
    <3> QED  BY <3>2 DEF Edge
  <2> HIDE DEF u
  <2>4. ASSUME NEW i \in 1..k, g.edges[i][1] = n PROVE u.len >= h[g.edges[i][2]].len + 1
    <3>1. CASE i = k
      BY <3>1, <2>2, <1>1
    <3>2. CASE i # k
      <4>1. i \in 1..j
        BY <3>2
      <4>2. v.len >= h[g.edges[i][2]].len + 1
        BY <4>1, <2>4 DEF LongestOf
      <4>3. h[g.edges[i][2]].len \in Nat
        <5>1. i \in DOMAIN g.edges
          BY <4>1, LenProperties DEF WellFormed
        <5>2. g.edges[i] \in Nodes(g) \X Nodes(g)
          BY <5>1, ElementOfSeq, LenProperties DEF WellFormed
        <5>3. g.edges[i][2] \in Nodes(g)
          BY <5>2
        <5> QED  BY <5>3 DEF Answer
      <4> DEFINE d == h[g.edges[i][2]].len
                 c == h[m].len
      <4>4. d \in Nat /\ c \in Nat /\ v.len \in Nat /\ v.len >= d + 1 /\ c + 1 > v.len /\ u.len = c + 1
        BY <4>2, <4>3, <2>2, <1>1, <1>2
      <4> HIDE DEF d, c
      <4>5. u.len >= d + 1
        BY <4>4
      <4> QED  BY <4>5 DEF d
    <3> QED  BY <3>1, <3>2
  <2> QED  BY <1>1, <2>2, <2>3, <2>4 DEF LongestOf, u
<1>3. CASE ~ (edge[1] = n /\ h[m].len + 1 > v.len)
  <2>1. u = v
    BY <1>3 DEF Longer
  <2>2. ASSUME NEW i \in 1..k, g.edges[i][1] = n PROVE v.len >= h[g.edges[i][2]].len + 1
    <3>1. CASE i = k
      BY <3>1, <2>2, <1>1, <1>3
    <3>2. CASE i # k
      <4>1. i \in 1..j
        BY <3>2
      <4> QED  BY <4>1, <2>2 DEF LongestOf
    <3> QED  BY <3>1, <3>2
  <2> HIDE DEF u
  <2>3. LongestOf(g, h, v, n, k)
    BY <2>2 DEF LongestOf
  <2> QED  BY <2>1, <2>3 DEF u
<1> QED  BY <1>2, <1>3

\* What longest answers, given what it answers for the dependents.
LEMMA LongestFromIs ==
    ASSUME NEW g, WellFormed(g), NEW h \in [Nodes(g) -> Answer(g)], NEW n \in Nodes(g)
    PROVE  /\ LongestFrom(g, h)[n] \in Answer(g)
           /\ Longest(g, h, LongestFrom(g, h)[n], n)
<1> DEFINE l == Len(g.edges)
           S == Answer(g)
           fs == [k \in 1..l |-> [v \in S |-> Longer(h, v, g.edges[k], n)]]
<1>1. l \in Nat /\ DOMAIN g.edges = 1..l /\ \A k \in 1..l : g.edges[k] \in Nodes(g) \X Nodes(g)
  BY LenProperties, ElementOfSeq DEF WellFormed
<1> HIDE DEF l
<1>2. fs \in [1..l -> [S -> S]]
  BY <1>1, LongerTyped
<1>0. Alone \in S
  <2>1. <<>> \in Seq(Nodes(g))
    BY EmptySeq
  <2> QED  BY <2>1 DEF Alone, Answer
<1>3. PICK f \in [SUBSET (1..l) -> S] : Folds(f, Alone, fs, l)
  <2> HIDE DEF S, fs
  <2> QED  BY <1>0, <1>1, <1>2, FoldExists
<1>4. ASSUME NEW T \in SUBSET (1..l)
      PROVE  f[T] = IF T = {} THEN Alone ELSE Longer(h, f[T \ {Max(T)}], g.edges[Max(T)], n)
  <2>1. T # {} => Max(T) \in 1..l
    <3>1. T \subseteq 1..l
      OBVIOUS
    <3> QED  BY <1>1, <3>1, BelowGreatest
  <2>2. f[T \ {Max(T)}] \in S
    OBVIOUS
  <2> HIDE DEF S
  <2>3. T # {} => fs[Max(T)][f[T \ {Max(T)}]] = Longer(h, f[T \ {Max(T)}], g.edges[Max(T)], n)
    BY <2>1, <2>2
  <2> HIDE DEF fs
  <2> QED  BY <1>3, <2>3 DEF Folds
<1>5. f = [T \in SUBSET (1..l) |-> f[T]]
  <2> HIDE DEF S
  <2> QED  OBVIOUS
<1>6. f = [T \in SUBSET (1..l) |->
             IF T = {} THEN Alone ELSE Longer(h, f[T \ {Max(T)}], g.edges[Max(T)], n)]
  BY <1>4, <1>5
<1>7. Lengthens(f, g, h, n)
  BY <1>1, <1>6 DEF Lengthens
<1> DEFINE it == CHOOSE w : Lengthens(w, g, h, n)
<1>8. Lengthens(it, g, h, n)
  BY <1>7, Zenon
<1>9. LongestFrom(g, h)[n] = it[DOMAIN g.edges]
  BY Zenon DEF LongestFrom, FoldLeft, MapThenFoldSet, Lengthens, Alone
<1> HIDE DEF it
<1>10. \A T \in SUBSET (1..l) :
          it[T] = IF T = {} THEN Alone ELSE Longer(h, it[T \ {Max(T)}], g.edges[Max(T)], n)
  BY <1>1, <1>8, Zenon DEF Lengthens
<1> DEFINE Fits(k) == it[1..k] \in S /\ LongestOf(g, h, it[1..k], n, k)
           Bad == {k \in 0..l : ~ Fits(k)}
<1>11. Fits(0)
  <2>1. it[{}] = Alone /\ 1..0 = {}
    <3>1. {} \in SUBSET (1..l) /\ 1..0 = {}
      OBVIOUS
    <3> QED  BY <1>10, <3>1
  <2>2. Alone.len = 1 /\ Alone.next = <<>>
    BY DEF Alone
  <2>3. LongestOf(g, h, Alone, n, 0)
    BY <2>2 DEF LongestOf
  <2> QED  BY <1>0, <2>1, <2>3
<1>12. ASSUME NEW k \in 1..l, Fits(k - 1) PROVE Fits(k)
  <2> DEFINE j == k - 1
             v == it[1..j]
  <2>1. it[1..k] = Longer(h, v, g.edges[k], n)
    <3>1. it[1..k] = Longer(h, it[(1..k) \ {Max(1..k)}], g.edges[Max(1..k)], n)
      BY <1>1, <1>10, UptoPosition
    <3>2. Max(1..k) = k /\ (1..k) \ {Max(1..k)} = 1..(k - 1)
      BY <1>1, UptoPosition
    <3> QED  BY <3>1, <3>2
  <2>2. j \in Nat /\ k = j + 1 /\ v \in Answer(g) /\ LongestOf(g, h, v, n, j)
    BY <1>1, <1>12
  <2>3. k \in DOMAIN g.edges /\ g.edges[k] \in Nodes(g) \X Nodes(g)
    BY <1>1
  <2> HIDE DEF j, v
  <2>4. Longer(h, v, g.edges[k], n) \in Answer(g)
    BY <2>2, <2>3, LongerTyped
  <2>5. LongestOf(g, h, Longer(h, v, g.edges[k], n), n, k)
    BY <2>2, <2>3, LongerLongest
  <2> QED  BY <2>1, <2>4, <2>5
<1> HIDE DEF Fits
<1>13. Bad = {}
  <2> SUFFICES ASSUME Bad # {} PROVE FALSE
    OBVIOUS
  <2>1. PICK m \in Bad : \A j \in Bad : m <= j
    <3>1. Bad \subseteq Nat
      BY <1>1
    <3> QED  BY <3>1, LeastNat
  <2>2. m \in 1..l /\ m - 1 \in 0..l /\ ~ (m <= m - 1)
    <3>1. m \in 0..l /\ m # 0
      BY <1>11
    <3> QED  BY <3>1, <1>1
  <2>3. m - 1 \notin Bad
    <3> HIDE DEF Bad
    <3> QED  BY <2>1, <2>2
  <2>4. Fits(m - 1)
    BY <2>2, <2>3
  <2> QED  BY <2>2, <2>4, <1>12
<1> DEFINE v == LongestFrom(g, h)[n]
<1>14. v \in Answer(g) /\ LongestOf(g, h, v, n, l)
  <2>1. l \in 0..l
    BY <1>1
  <2> QED  BY <2>1, <1>1, <1>9, <1>13 DEF Fits
<1> HIDE DEF v
<1>15. ASSUME NEW m \in Nodes(g), Edge(g, n, m) PROVE v.len >= h[m].len + 1
  <2>1. PICK i \in 1..l : g.edges[i] = <<n, m>>
    BY <1>1, <1>15 DEF Edge
  <2> QED  BY <2>1, <1>14 DEF LongestOf
<1>16. Longest(g, h, v, n)
  BY <1>14, <1>15 DEF Longest, LongestOf
<1> QED  BY <1>14, <1>16 DEF v

Answers(g) == [Nodes(g) -> Answer(g)]

\* The function by which CriticalPath tells the longest paths.
Lengthening(f, g) ==
    f = [k \in 0..Len(g.order) |->
            IF k = 0 THEN [n \in Nodes(g) |-> Alone] ELSE LongestFrom(g, f[k - 1])]

\* What longest answers in the end: no dependent is overlooked.
Settled(g, memo) ==
    memo \in Answers(g) /\ \A n \in Nodes(g) : Longest(g, memo, memo[n], n)

\* A schedule of every node in tight batches.
Complete(g, b) ==
    /\ Schedules(g, b) /\ Tight(g, b)
    /\ \A n \in Nodes(g) : \E j \in DOMAIN b : n \in b[j]

\* One level more of recursion gives answers again.
LEMMA LongestFromTyped ==
    ASSUME NEW g, WellFormed(g), NEW h \in Answers(g)
    PROVE  LongestFrom(g, h) \in Answers(g)
<1> DEFINE w == LongestFrom(g, h)
<1>1. \A n \in Nodes(g) : w[n] \in Answer(g)
  BY LongestFromIs DEF Answers
<1>2. w = [n \in Nodes(g) |-> w[n]]
  BY DEF LongestFrom
<1> HIDE DEF w
<1>3. w \in Answers(g)
  BY <1>1, <1>2 DEF Answers
<1> QED  BY <1>3 DEF w

\* The recursion of longest is defined, level by level.
LEMMA LengtheningExists ==
    ASSUME NEW g, WellFormed(g)
    PROVE  /\ \E f : Lengthening(f, g)
           /\ \A f : Lengthening(f, g) => \A k \in 0..Len(g.order) : f[k] \in Answers(g)
<1> DEFINE l == Len(g.order)
           S == Answers(g)
           base == [n \in Nodes(g) |-> Alone]
           fs == [k \in 1..l |-> [h \in S |-> LongestFrom(g, h)]]
<1>1. l \in Nat
  BY LenProperties DEF WellFormed
<1>2. base \in S
  <2>1. <<>> \in Seq(Nodes(g))
    BY EmptySeq
  <2>2. Alone \in Answer(g)
    BY <2>1 DEF Alone, Answer
  <2> QED  BY <2>2 DEF Answers
<1>3. fs \in [1..l -> [S -> S]]
  BY LongestFromTyped
<1> HIDE DEF l
<1>4. \E f : Lengthening(f, g)
  <2> HIDE DEF S, base
  <2>1. PICK f \in [0..l -> S] : Recurses(f, base, fs, l)
    <3> HIDE DEF fs
    <3> QED  BY <1>1, <1>2, <1>3, RecursionExists
  <2>2. ASSUME NEW k \in 0..l
        PROVE  f[k] = IF k = 0 THEN base ELSE LongestFrom(g, f[k - 1])
    <3>1. CASE k = 0
      BY <2>1, <3>1 DEF Recurses
    <3>2. CASE k # 0
      <4>1. k \in 1..l /\ k - 1 \in 0..l
        BY <3>2, <1>1
      <4>2. f[k - 1] \in S /\ f[k] = fs[k][f[k - 1]]
        BY <4>1, <2>1 DEF Recurses
      <4> QED  BY <3>2, <4>1, <4>2
    <3> QED  BY <3>1, <3>2
  <2>3. f = [k \in 0..l |-> IF k = 0 THEN base ELSE LongestFrom(g, f[k - 1])]
    BY <2>1, <2>2
  <2>4. Lengthening(f, g)
    BY <2>3 DEF Lengthening, l, base
  <2> QED  BY <2>4
<1>5. ASSUME NEW f, Lengthening(f, g) PROVE \A k \in 0..l : f[k] \in S
  <2> HIDE DEF fs
  <2>1. \A k \in 0..l : f[k] = IF k = 0 THEN base ELSE LongestFrom(g, f[k - 1])
    BY <1>5 DEF Lengthening, l
  <2> DEFINE Bad == {k \in 0..l : f[k] \notin S}
  <2> SUFFICES ASSUME Bad # {} PROVE FALSE
    OBVIOUS
  <2>2. PICK m \in Bad : \A j \in Bad : m <= j
    <3>1. Bad \subseteq Nat
      BY <1>1
    <3> HIDE DEF Bad
    <3> QED  BY <3>1, LeastNat
  <2>3. m \in 1..l /\ m - 1 \in 0..l /\ ~ (m <= m - 1) /\ m \in 0..l /\ m # 0
    <3>1. f[0] = base
      BY <1>1, <2>1
    <3>2. m \in 0..l /\ m # 0
      BY <1>2, <3>1
    <3> QED  BY <3>2, <1>1
  <2>4. m - 1 \notin Bad
    <3> HIDE DEF Bad
    <3> QED  BY <2>2, <2>3
  <2>5. f[m - 1] \in S /\ f[m] \notin S
    <3> HIDE DEF S
    <3> QED  BY <2>3, <2>4
  <2> DEFINE h == f[m - 1]
  <2>6. f[m] = LongestFrom(g, h)
    BY <2>1, <2>3
  <2>7. h \in Answers(g)
    BY <2>5
  <2> HIDE DEF h
  <2>8. LongestFrom(g, h) \in Answers(g)
    BY <2>7, LongestFromTyped
  <2> QED  BY <2>5, <2>6, <2>8
<1> QED  BY <1>4, <1>5 DEF l

\* Two answers from the same lengths are as long.
LEMMA SameLength ==
    ASSUME NEW g, NEW h \in Answers(g), NEW i \in Answers(g),
           NEW v \in Answer(g), NEW u \in Answer(g), NEW n,
           Longest(g, h, v, n), Longest(g, i, u, n),
           \A m \in Nodes(g) : Edge(g, n, m) => h[m].len = i[m].len
    PROVE  v.len = u.len
<1>1. v.len \in Nat /\ u.len \in Nat
  BY DEF Answer
<1>2. v.len <= u.len
  <2>1. CASE v.len = 1
    BY <1>1, <2>1 DEF Longest
  <2>2. CASE v.len # 1
    <3>1. PICK m \in Nodes(g) : Edge(g, n, m) /\ v.len = h[m].len + 1
      BY <2>2 DEF Longest
    <3>2. u.len >= i[m].len + 1 /\ h[m].len = i[m].len
      BY <3>1 DEF Longest
    <3> QED  BY <1>1, <3>1, <3>2
  <2> QED  BY <2>1, <2>2
<1>3. u.len <= v.len
  <2>1. CASE u.len = 1
    BY <1>1, <2>1 DEF Longest
  <2>2. CASE u.len # 1
    <3>1. PICK m \in Nodes(g) : Edge(g, n, m) /\ u.len = i[m].len + 1
      BY <2>2 DEF Longest
    <3>2. v.len >= h[m].len + 1 /\ h[m].len = i[m].len
      BY <3>1 DEF Longest
    <3> QED  BY <1>1, <3>1, <3>2
  <2> QED  BY <2>1, <2>2
<1> QED  BY <1>1, <1>2, <1>3

\* Where a node is in a complete schedule.
LEMMA PlaceIs ==
    ASSUME NEW g, WellFormed(g), NEW b, Complete(g, b)
    PROVE  \E place \in [Nodes(g) -> 1..Len(b)] :
              /\ \A n \in Nodes(g) : n \in b[place[n]]
              /\ \A m, n \in Nodes(g) : Edge(g, m, n) => place[m] < place[n]
<1> DEFINE place == [n \in Nodes(g) |-> CHOOSE j \in DOMAIN b : n \in b[j]]
<1>1. DOMAIN b = 1..Len(b)
  BY LenProperties DEF Complete, Schedules
<1>2. \A n \in Nodes(g) : place[n] \in DOMAIN b /\ n \in b[place[n]]
  BY DEF Complete
<1>3. place \in [Nodes(g) -> 1..Len(b)]
  BY <1>1, <1>2
<1> HIDE DEF place
<1>4. ASSUME NEW m \in Nodes(g), NEW n \in Nodes(g), Edge(g, m, n) PROVE place[m] < place[n]
  <2>1. PICK i \in DOMAIN b : i < place[n] /\ m \in b[i]
    BY <1>2, <1>4 DEF Complete, Schedules
  <2>2. i = place[m]
    BY <1>2, <2>1 DEF Complete, Schedules
  <2> QED  BY <2>1, <2>2
<1> QED  BY <1>2, <1>3, <1>4

\* There are no more batches than nodes.
LEMMA FewBatches ==
    ASSUME NEW g, WellFormed(g), NEW b, Complete(g, b)
    PROVE  Len(b) \in Nat /\ DOMAIN b = 1..Len(b) /\ Len(b) <= Len(g.order)
<1> DEFINE l == Len(b)
           member == [j \in 1..l |-> CHOOSE n \in b[j] : TRUE]
<1>1. l \in Nat /\ DOMAIN b = 1..l /\ \A j \in 1..l : b[j] \in SUBSET Nodes(g)
  BY LenProperties, ElementOfSeq DEF Complete, Schedules
<1>2. \A j \in 1..l : b[j] # {}
  BY <1>1 DEF Complete, Tight
<1> HIDE DEF l
<1>3. \A j \in 1..l : member[j] \in b[j]
  BY <1>2
<1>4. member \in [1..l -> Nodes(g)]
  BY <1>1, <1>3
<1> HIDE DEF member
<1>5. ASSUME NEW i \in 1..l, NEW j \in 1..l, member[i] = member[j] PROVE i = j
  BY <1>1, <1>3, <1>5 DEF Complete, Schedules
<1>6. member \in Injection(1..l, Nodes(g))
  BY <1>4, <1>5 DEF Injection, IsInjective
<1>7. IsFiniteSet(Nodes(g)) /\ Cardinality(Nodes(g)) \in Nat /\ Cardinality(Nodes(g)) <= Len(g.order)
  BY NodesFinite
<1>8. Cardinality(1..l) <= Cardinality(Nodes(g))
  BY <1>6, <1>7, FS_Injection
<1>9. Cardinality(1..l) = l
  <2>1. Cardinality(1..l) = IF 1 <= l THEN l - 1 + 1 ELSE 0
    BY <1>1, FS_Interval
  <2> QED  BY <1>1, <2>1
<1>10. Len(g.order) \in Nat
  BY LenProperties DEF WellFormed
<1> QED  BY <1>1, <1>7, <1>8, <1>9, <1>10 DEF l

\* After as many rounds as there are nodes nothing changes any more.
LEMMA LengthsSettle ==
    ASSUME NEW g, WellFormed(g), NEW b, Complete(g, b), g.order # <<>>,
           NEW f, Lengthening(f, g)
    PROVE  Settled(g, f[Len(g.order)])
<1> DEFINE l == Len(g.order)
           N == Nodes(g)
           nb == Len(b)
<1>1. l \in Nat /\ l >= 1
  BY EmptySeq, LenProperties DEF WellFormed
<1>2. nb \in Nat /\ nb <= l
  BY FewBatches
<1>3. PICK place \in [N -> 1..nb] :
         \A m, n \in N : Edge(g, m, n) => place[m] < place[n]
  BY PlaceIs
<1>4. \A k \in 0..l : f[k] \in Answers(g)
  BY LengtheningExists
<1> HIDE DEF l, nb
<1>5. /\ f[0] = [n \in N |-> Alone]
      /\ \A k \in 1..l : f[k] = LongestFrom(g, f[k - 1])
  <2>1. \A k \in 0..l : f[k] = IF k = 0 THEN [n \in N |-> Alone] ELSE LongestFrom(g, f[k - 1])
    BY DEF Lengthening, l
  <2>2. 0 \in 0..l /\ \A k \in 1..l : k \in 0..l /\ k # 0
    BY <1>1
  <2> QED  BY <2>1, <2>2
<1>6. ASSUME NEW k \in 1..l, NEW n \in N
      PROVE  /\ f[k] \in Answers(g) /\ f[k - 1] \in Answers(g)
             /\ f[k][n] \in Answer(g) /\ Longest(g, f[k - 1], f[k][n], n)
  <2> DEFINE h == f[k - 1]
  <2>1. k \in 0..l /\ k - 1 \in 0..l
    BY <1>1
  <2>2. f[k] = LongestFrom(g, h) /\ h \in Answers(g)
    BY <2>1, <1>4, <1>5
  <2>3. f[k] \in Answers(g)
    BY <2>1, <1>4
  <2> HIDE DEF h
  <2>4. h \in [N -> Answer(g)]
    BY <2>2 DEF Answers
  <2>5. LongestFrom(g, h)[n] \in Answer(g) /\ Longest(g, h, LongestFrom(g, h)[n], n)
    BY <2>4, LongestFromIs
  <2> QED  BY <2>2, <2>3, <2>5 DEF h
<1> DEFINE Same(k) == \A n \in N : place[n] >= nb - k + 1 => f[k][n].len = f[k - 1][n].len
           Bad == {k \in 1..l : ~ Same(k)}
<1>7. Same(1)
  <2>1. ASSUME NEW n \in N, place[n] >= nb - 1 + 1 PROVE f[1][n].len = f[0][n].len
    <3>1. 1 \in 1..l
      BY <1>1
    <3>2. Longest(g, f[1 - 1], f[1][n], n)
      BY <3>1, <1>6
    <3>3. ASSUME NEW m \in N, Edge(g, n, m) PROVE FALSE
      <4>1. place[n] < place[m] /\ place[m] \in 1..nb /\ place[n] \in 1..nb
        BY <1>3, <3>3
      <4> QED  BY <4>1, <2>1, <1>2
    <3>4. f[1][n].len = 1
      BY <3>2, <3>3 DEF Longest
    <3>5. f[0][n].len = 1
      BY <1>5 DEF Alone
    <3> QED  BY <3>4, <3>5
  <2> QED  BY <2>1
<1>8. ASSUME NEW k \in 2..l, Same(k - 1) PROVE Same(k)
  <2> DEFINE j == k - 1
  <2>1. j \in 1..l /\ k \in 1..l /\ j \in Nat /\ k = j + 1
    BY <1>1
  <2>2. Same(j)
    BY <1>8
  <2> HIDE DEF j
  <2>3. ASSUME NEW n \in N, place[n] >= nb - k + 1 PROVE f[k][n].len = f[j][n].len
    <3>1. /\ f[k][n] \in Answer(g) /\ Longest(g, f[j], f[k][n], n) /\ f[j] \in Answers(g)
      <4>1. Longest(g, f[k - 1], f[k][n], n) /\ f[k][n] \in Answer(g) /\ f[k - 1] \in Answers(g)
        BY <2>1, <1>6
      <4>2. k - 1 = j
        BY <2>1
      <4> QED  BY <4>1, <4>2
    <3>2. f[j][n] \in Answer(g) /\ Longest(g, f[j - 1], f[j][n], n) /\ f[j - 1] \in Answers(g)
      BY <2>1, <1>6
    <3>3. ASSUME NEW m \in N, Edge(g, n, m) PROVE f[j][m].len = f[j - 1][m].len
      <4>1. place[n] < place[m] /\ place[m] \in 1..nb /\ place[n] \in 1..nb
        BY <1>3, <3>3
      <4>2. place[m] >= nb - j + 1
        BY <4>1, <2>1, <2>3, <1>2
      <4> QED  BY <4>2, <2>2
    <3> DEFINE h == f[j]
               i == f[j - 1]
               v == f[k][n]
               u == f[j][n]
    <3>4. /\ h \in Answers(g) /\ i \in Answers(g) /\ v \in Answer(g) /\ u \in Answer(g)
          /\ Longest(g, h, v, n) /\ Longest(g, i, u, n)
          /\ \A m \in Nodes(g) : Edge(g, n, m) => h[m].len = i[m].len
      BY <3>1, <3>2, <3>3
    <3> HIDE DEF h, i, v, u
    <3>5. v.len = u.len
      BY <3>4, SameLength
    <3> QED  BY <3>5 DEF v, u
  <2> QED  BY <2>3 DEF j
<1> HIDE DEF Same
<1>9. Bad = {}
  <2> SUFFICES ASSUME Bad # {} PROVE FALSE
    OBVIOUS
  <2>1. PICK m \in Bad : \A j \in Bad : m <= j
    <3>1. Bad \subseteq Nat
      BY <1>1
    <3> QED  BY <3>1, LeastNat
  <2>2. m \in 2..l /\ m - 1 \in 1..l /\ ~ (m <= m - 1)
    <3>1. m \in 1..l /\ m # 1
      BY <1>7
    <3> QED  BY <3>1, <1>1
  <2>3. m - 1 \notin Bad
    <3> HIDE DEF Bad
    <3> QED  BY <2>1, <2>2
  <2>4. Same(m - 1)
    BY <2>2, <2>3
  <2> QED  BY <2>2, <2>4, <1>8
<1>10. l \in 1..l
  BY <1>1
<1>11. ASSUME NEW n \in N PROVE f[l][n].len = f[l - 1][n].len
  <2>1. Same(l)
    BY <1>9, <1>10
  <2>2. place[n] >= nb - l + 1
    BY <1>1, <1>2, <1>3
  <2> QED  BY <2>1, <2>2 DEF Same
<1>12. ASSUME NEW n \in N PROVE Longest(g, f[l], f[l][n], n)
  <2>1. Longest(g, f[l - 1], f[l][n], n)
    BY <1>6, <1>10
  <2> QED  BY <2>1, <1>11 DEF Longest
<1>13. f[l] \in Answers(g)
  <2>1. l \in 0..l
    BY <1>1
  <2> QED  BY <2>1, <1>4
<1> QED  BY <1>12, <1>13 DEF Settled, l

\* From a batch no path is longer than there are batches from it on, and from
\* each batch one is as long.
LEMMA LengthsAre ==
    ASSUME NEW g, WellFormed(g), NEW b, Complete(g, b), NEW memo, Settled(g, memo)
    PROVE  /\ \A n \in Nodes(g) : memo[n].len \in Nat /\ memo[n].len >= 1 /\ memo[n].len <= Len(b)
           /\ Len(b) >= 1 => \E n \in Nodes(g) : memo[n].len = Len(b)
<1> DEFINE N == Nodes(g)
           nb == Len(b)
<1>1. nb \in Nat /\ DOMAIN b = 1..nb
  BY FewBatches
<1>2. PICK place \in [N -> 1..nb] :
         /\ \A n \in N : n \in b[place[n]]
         /\ \A m, n \in N : Edge(g, m, n) => place[m] < place[n]
  BY PlaceIs
<1> HIDE DEF nb
<1>3. \A n \in N : memo[n].len \in Nat /\ memo[n].len >= 1 /\ place[n] \in 1..nb
  BY <1>2 DEF Settled, Answers, Answer, Longest
<1> DEFINE Short(k) == \A n \in N : nb - place[n] = k => memo[n].len <= k + 1
           Bad == {k \in Nat : ~ Short(k)}
<1>4. Bad = {}
  <2> SUFFICES ASSUME Bad # {} PROVE FALSE
    OBVIOUS
  <2>1. PICK k \in Bad : \A j \in Bad : k <= j
    <3>1. Bad \subseteq Nat
      OBVIOUS
    <3> HIDE DEF Bad
    <3> QED  BY <3>1, LeastNat
  <2>2. PICK n \in N : nb - place[n] = k /\ ~ (memo[n].len <= k + 1)
    OBVIOUS
  <2>3. k \in Nat
    OBVIOUS
  <2>4. PICK m \in N : Edge(g, n, m) /\ memo[n].len = memo[m].len + 1
    BY <1>3, <2>2, <2>3 DEF Settled, Longest
  <2> DEFINE j == nb - place[m]
  <2>5. j \in Nat /\ j < k
    <3>1. place[n] < place[m]
      BY <1>2, <2>4
    <3> QED  BY <3>1, <1>1, <1>3, <2>2
  <2>6. j \notin Bad
    <3> HIDE DEF Bad, j
    <3> QED  BY <2>1, <2>3, <2>5
  <2>7. memo[m].len <= j + 1
    BY <2>5, <2>6
  <2> HIDE DEF j, Bad
  <2> QED  BY <1>3, <2>2, <2>3, <2>4, <2>5, <2>7
<1>5. ASSUME NEW n \in N PROVE memo[n].len <= nb
  <2> DEFINE k == nb - place[n]
  <2>1. k \in Nat /\ k + 1 <= nb
    BY <1>1, <1>3
  <2>2. Short(k)
    <3> HIDE DEF Short, k
    <3> QED  BY <1>4, <2>1
  <2>3. memo[n].len <= k + 1
    BY <2>2
  <2> HIDE DEF k
  <2> QED  BY <1>1, <1>3, <2>1, <2>3
<1> DEFINE Long(k) == \E n \in b[nb - k] : memo[n].len >= k + 1
           Miss == {k \in 0..(nb - 1) : ~ Long(k)}
<1>6. \A j \in 1..nb : b[j] # {} /\ b[j] \in SUBSET N
  BY <1>1, ElementOfSeq DEF Complete, Schedules, Tight, nb
<1>7. ASSUME nb >= 1 PROVE Miss = {}
  <2> SUFFICES ASSUME Miss # {} PROVE FALSE
    OBVIOUS
  <2>1. PICK k \in Miss : \A j \in Miss : k <= j
    <3>1. Miss \subseteq Nat
      BY <1>1
    <3> HIDE DEF Miss
    <3> QED  BY <3>1, LeastNat
  <2>2. k \in 0..(nb - 1) /\ ~ Long(k)
    OBVIOUS
  <2>3. k # 0
    <3>1. PICK n \in b[nb] : TRUE
      BY <1>1, <1>6, <1>7
    <3>2. n \in N /\ nb - 0 = nb
      BY <1>1, <1>6, <1>7
    <3>3. Long(0)
      BY <3>1, <3>2, <1>3
    <3> QED  BY <2>2, <3>3
  <2> DEFINE j == k - 1
  <2>4. j \in 0..(nb - 1) /\ j \in Nat /\ k = j + 1 /\ ~ (k <= j) /\ k \in Nat
    BY <1>1, <2>2, <2>3
  <2>5. j \notin Miss
    <3> HIDE DEF Miss, j
    <3> QED  BY <2>1, <2>4
  <2>6. Long(j)
    BY <2>4, <2>5
  <2> HIDE DEF j, Miss
  <2>7. PICK n \in b[nb - j] : memo[n].len >= j + 1
    BY <2>6
  <2>8. nb - j \in 1..nb /\ nb - j > 1 /\ (nb - j) - 1 = nb - k /\ nb - k \in 1..nb
    BY <1>1, <2>2, <2>4
  <2>9. PICK m \in b[nb - k] : Edge(g, m, n)
    <3> DEFINE i == nb - j
    <3>1. i \in DOMAIN b /\ i > 1 /\ i - 1 = nb - k /\ n \in b[i]
      BY <1>1, <2>7, <2>8
    <3> HIDE DEF i
    <3>2. \E m \in b[i - 1] : Edge(g, m, n)
      BY <3>1 DEF Complete, Tight
    <3> QED  BY <3>1, <3>2
  <2>10. m \in N /\ n \in N
    BY <1>6, <2>7, <2>8, <2>9
  <2>11. memo[m].len >= memo[n].len + 1
    BY <2>9, <2>10 DEF Settled, Longest
  <2>12. memo[m].len >= k + 1
    BY <1>3, <2>4, <2>7, <2>10, <2>11
  <2> QED  BY <2>2, <2>9, <2>12
<1>8. ASSUME nb >= 1 PROVE \E n \in N : memo[n].len = nb
  <2>1. nb - 1 \in 0..(nb - 1) /\ nb - (nb - 1) = 1 /\ (nb - 1) + 1 = nb /\ 1 \in 1..nb
    BY <1>1, <1>8
  <2>2. Long(nb - 1)
    BY <1>7, <1>8, <2>1
  <2>3. PICK n \in b[1] : memo[n].len >= nb
    BY <2>1, <2>2
  <2>4. n \in N
    BY <1>6, <2>1
  <2>5. memo[n].len = nb
    BY <1>1, <1>3, <1>5, <2>3, <2>4
  <2> QED  BY <2>4, <2>5
<1> QED  BY <1>3, <1>5, <1>8 DEF nb

-----------------------------------------------------------------------------
(* Kernel: critical_path *)

\* The fold that picks the start of the critical path.
LaterStart(memo, a, n) == IF memo[n].len > memo[a].len THEN n ELSE a

PathStart(g, memo) == FoldLeft(LAMBDA a, n : LaterStart(memo, a, n), g.order[1], g.order)

\* The function by which that fold is defined.
Begins(it, g, memo) ==
    it = [T \in SUBSET (DOMAIN g.order) |->
             IF T = {} THEN g.order[1] ELSE LaterStart(memo, it[T \ {Max(T)}], g.order[Max(T)])]

\* The path starts where the longest one does.
LEMMA StartIs ==
    ASSUME NEW g, WellFormed(g), g.order # <<>>, NEW memo,
           \A n \in Nodes(g) : memo[n].len \in Nat
    PROVE  /\ PathStart(g, memo) \in Nodes(g)
           /\ \A n \in Nodes(g) : memo[n].len <= memo[PathStart(g, memo)].len
<1> DEFINE l == Len(g.order)
           S == Nodes(g)
           fs == [k \in 1..l |-> [a \in S |-> LaterStart(memo, a, g.order[k])]]
<1>1. l \in Nat /\ l >= 1 /\ DOMAIN g.order = 1..l /\ \A k \in 1..l : g.order[k] \in S
  BY LenProperties, ElementOfSeq, EmptySeq DEF WellFormed
<1> HIDE DEF l, S
<1>2. fs \in [1..l -> [S -> S]]
  BY <1>1 DEF LaterStart
<1>0. g.order[1] \in S
  BY <1>1
<1>3. PICK f \in [SUBSET (1..l) -> S] : Folds(f, g.order[1], fs, l)
  <2> HIDE DEF fs
  <2> QED  BY <1>0, <1>1, <1>2, FoldExists
<1>4. ASSUME NEW T \in SUBSET (1..l)
      PROVE  f[T] = IF T = {} THEN g.order[1] ELSE LaterStart(memo, f[T \ {Max(T)}], g.order[Max(T)])
  <2>1. T # {} => Max(T) \in 1..l
    <3>1. T \subseteq 1..l
      OBVIOUS
    <3> QED  BY <1>1, <3>1, BelowGreatest
  <2>2. f[T \ {Max(T)}] \in S
    OBVIOUS
  <2>3. T # {} => fs[Max(T)][f[T \ {Max(T)}]] = LaterStart(memo, f[T \ {Max(T)}], g.order[Max(T)])
    BY <2>1, <2>2
  <2> HIDE DEF fs
  <2> QED  BY <1>3, <2>3 DEF Folds
<1>5. f = [T \in SUBSET (1..l) |-> f[T]]
  OBVIOUS
<1>6. f = [T \in SUBSET (1..l) |->
             IF T = {} THEN g.order[1] ELSE LaterStart(memo, f[T \ {Max(T)}], g.order[Max(T)])]
  BY <1>4, <1>5
<1>7. Begins(f, g, memo)
  BY <1>1, <1>6 DEF Begins
<1> DEFINE it == CHOOSE w : Begins(w, g, memo)
<1>8. Begins(it, g, memo)
  BY <1>7, Zenon
<1>9. PathStart(g, memo) = it[DOMAIN g.order]
  BY Zenon DEF PathStart, FoldLeft, MapThenFoldSet, Begins
<1> HIDE DEF it
<1>10. \A T \in SUBSET (1..l) :
          it[T] = IF T = {} THEN g.order[1] ELSE LaterStart(memo, it[T \ {Max(T)}], g.order[Max(T)])
  BY <1>1, <1>8, Zenon DEF Begins
<1> DEFINE Fits(k) == /\ it[1..k] \in S
                      /\ \A i \in 1..k : memo[g.order[i]].len <= memo[it[1..k]].len
           Bad == {k \in 0..l : ~ Fits(k)}
<1>11. Fits(0)
  <2>1. it[{}] = g.order[1] /\ 1..0 = {}
    <3>1. {} \in SUBSET (1..l) /\ 1..0 = {}
      OBVIOUS
    <3> QED  BY <1>10, <3>1
  <2> QED  BY <1>0, <2>1
<1>12. ASSUME NEW k \in 1..l, Fits(k - 1) PROVE Fits(k)
  <2> DEFINE j == k - 1
             a == it[1..j]
             c == it[1..k]
  <2>1. c = LaterStart(memo, a, g.order[k])
    <3>1. it[1..k] = LaterStart(memo, it[(1..k) \ {Max(1..k)}], g.order[Max(1..k)])
      BY <1>1, <1>10, UptoPosition
    <3>2. Max(1..k) = k /\ (1..k) \ {Max(1..k)} = 1..(k - 1)
      BY <1>1, UptoPosition
    <3> QED  BY <3>1, <3>2
  <2>2. /\ j \in Nat /\ k = j + 1 /\ a \in S /\ g.order[k] \in S
        /\ \A i \in 1..j : memo[g.order[i]].len <= memo[a].len
    BY <1>1, <1>12
  <2> HIDE DEF j, a, c
  <2>3. /\ c \in S /\ memo[a].len <= memo[c].len /\ memo[g.order[k]].len <= memo[c].len
    BY <2>1, <2>2 DEF LaterStart, S
  <2>4. ASSUME NEW i \in 1..k PROVE memo[g.order[i]].len <= memo[c].len
    <3>1. CASE i = k
      BY <3>1, <2>3
    <3>2. CASE i # k
      <4>1. i \in 1..j /\ i \in 1..l
        BY <3>2, <2>2, <1>1
      <4>2. memo[g.order[i]].len \in Nat /\ memo[a].len \in Nat /\ memo[c].len \in Nat
        BY <4>1, <1>1, <2>2, <2>3 DEF S
      <4>3. memo[g.order[i]].len <= memo[a].len
        BY <4>1, <2>2
      <4> QED  BY <4>2, <4>3, <2>3
    <3> QED  BY <3>1, <3>2
  <2> QED  BY <2>3, <2>4 DEF c
<1> HIDE DEF Fits
<1>13. Bad = {}
  <2> SUFFICES ASSUME Bad # {} PROVE FALSE
    OBVIOUS
  <2>1. PICK m \in Bad : \A j \in Bad : m <= j
    <3>1. Bad \subseteq Nat
      BY <1>1
    <3> QED  BY <3>1, LeastNat
  <2>2. m \in 1..l /\ m - 1 \in 0..l /\ ~ (m <= m - 1)
    <3>1. m \in 0..l /\ m # 0
      BY <1>11
    <3> QED  BY <3>1, <1>1
  <2>3. m - 1 \notin Bad
    <3> HIDE DEF Bad
    <3> QED  BY <2>1, <2>2
  <2>4. Fits(m - 1)
    BY <2>2, <2>3
  <2> QED  BY <2>2, <2>4, <1>12
<1>14. Fits(l)
  <2>1. l \in 0..l
    BY <1>1
  <2> QED  BY <2>1, <1>13
<1>15. \A n \in S : \E i \in 1..l : n = g.order[i]
  BY <1>1 DEF S, Nodes, ToSet
<1> QED  BY <1>1, <1>9, <1>14, <1>15 DEF Fits, S

\* What following the longest path keeps, from a first node on.
Along(g, memo, s, p) ==
    /\ p \in Seq(Nodes(g)) /\ Len(p) >= 1 /\ IsPath(g, p)
    /\ memo[p[Len(p)]].len + Len(p) = memo[s].len + 1

\* One step along: a node more, of a length one less, or the end.
LEMMA FollowIs ==
    ASSUME NEW g, NEW memo, Settled(g, memo), NEW s \in Nodes(g), NEW p, Along(g, memo, s, p)
    PROVE  /\ Along(g, memo, s, Follow(memo, p))
           /\ \/ Follow(memo, p) = p /\ memo[p[Len(p)]].len = 1
              \/ Len(Follow(memo, p)) = Len(p) + 1
<1> DEFINE l == Len(p)
           n == p[l]
           q == Follow(memo, p)
<1>1. l \in Nat /\ l >= 1 /\ n \in Nodes(g) /\ p \in Seq(Nodes(g)) /\ IsPath(g, p)
  BY LenProperties, ElementOfSeq DEF Along
<1>2. memo[n] \in Answer(g) /\ memo[s] \in Answer(g) /\ Longest(g, memo, memo[n], n)
  BY <1>1 DEF Settled, Answers
<1>3. q = IF memo[n].next = <<>> THEN p ELSE Append(p, memo[n].next[1])
  BY DEF Follow, Last
<1> HIDE DEF l, n, q
<1>4. CASE memo[n].next = <<>>
  <2>1. memo[n].len = 1
    <3>1. \A m : <<m>> # <<>>
      OBVIOUS
    <3> QED  BY <1>2, <1>4, <3>1 DEF Longest
  <2> QED  BY <1>3, <1>4, <2>1 DEF q, n, l
<1>5. CASE memo[n].next # <<>>
  <2>1. PICK m \in Nodes(g) : Edge(g, n, m) /\ memo[n].next = <<m>> /\ memo[n].len = memo[m].len + 1
    BY <1>2, <1>5 DEF Longest
  <2>2. q = Append(p, m)
    BY <1>3, <1>5, <2>1
  <2>3. /\ q \in Seq(Nodes(g)) /\ Len(q) = l + 1 /\ q[l + 1] = m
    BY <1>1, <2>2, AppendFront DEF l
  <2>4. IsPath(g, q)
    BY <1>1, <2>1, <2>2, WalkOn DEF l, n
  <2>5. memo[m] \in Answer(g)
    BY DEF Settled, Answers
  <2>6. memo[m].len \in Nat /\ memo[s].len \in Nat /\ memo[n].len \in Nat
    BY <1>2, <2>5 DEF Answer
  <2>7. memo[n].len + l = memo[s].len + 1
    BY DEF Along, n, l
  <2>8. memo[q[Len(q)]].len + Len(q) = memo[s].len + 1 /\ Len(q) >= 1
    <3>1. q[Len(q)] = m
      BY <2>3
    <3>2. memo[m].len + (l + 1) = memo[s].len + 1
      <4>1. memo[n].len = memo[m].len + 1 /\ l \in Nat
        BY <1>1, <2>1
      <4> QED  BY <2>6, <2>7, <4>1
    <3> QED  BY <1>1, <2>3, <3>1, <3>2
  <2>9. Along(g, memo, s, q)
    BY <2>3, <2>4, <2>8 DEF Along
  <2> QED  BY <2>3, <2>9 DEF q, l
<1> QED  BY <1>4, <1>5

\* The function by which CriticalPath follows.
Following(f, g, memo) ==
    f = [k \in 0..Len(g.order) |->
            IF k = 0 THEN <<PathStart(g, memo)>> ELSE Follow(memo, f[k - 1])]

\* Following ends with as many nodes as the length at its start.
LEMMA FollowingEnds ==
    ASSUME NEW g, WellFormed(g), g.order # <<>>, NEW memo, Settled(g, memo),
           \A n \in Nodes(g) : memo[n].len >= 1 /\ memo[n].len <= Len(g.order)
    PROVE  /\ \E f : Following(f, g, memo)
           /\ \A f : Following(f, g, memo) =>
                 /\ IsPath(g, f[Len(g.order)])
                 /\ Len(f[Len(g.order)]) = memo[PathStart(g, memo)].len
<1> DEFINE l == Len(g.order)
           s == PathStart(g, memo)
           S == {p \in Seq(Nodes(g)) : Along(g, memo, s, p)}
           base == <<s>>
           fs == [k \in 1..l |-> [p \in S |-> Follow(memo, p)]]
<1>1. l \in Nat
  BY LenProperties DEF WellFormed
<1>2. \A n \in Nodes(g) : memo[n].len \in Nat
  BY DEF Settled, Answers, Answer
<1>3. s \in Nodes(g)
  BY <1>2, StartIs
<1> HIDE DEF s, l
<1>4. base \in S
  <2>1. base \in Seq(Nodes(g)) /\ Len(base) = 1 /\ base[1] = s
    BY <1>3
  <2> HIDE DEF base
  <2>2. IsPath(g, base)
    BY <2>1 DEF IsPath
  <2>3. memo[s].len \in Nat
    BY <1>2, <1>3
  <2>4. base[Len(base)] = s
    BY <2>1
  <2>5. Along(g, memo, s, base)
    BY <2>1, <2>2, <2>3, <2>4 DEF Along
  <2> QED  BY <2>1, <2>5
<1>5. fs \in [1..l -> [S -> S]]
  <2>1. ASSUME NEW p \in S PROVE Follow(memo, p) \in S
    <3>1. Along(g, memo, s, p)
      OBVIOUS
    <3>2. Along(g, memo, s, Follow(memo, p))
      BY <1>3, <3>1, FollowIs
    <3> QED  BY <3>2 DEF Along
  <2> QED  BY <2>1
<1>6. \E f : Following(f, g, memo)
  <2> HIDE DEF S, base
  <2>1. PICK f \in [0..l -> S] : Recurses(f, base, fs, l)
    <3> HIDE DEF fs
    <3> QED  BY <1>1, <1>4, <1>5, RecursionExists
  <2>2. ASSUME NEW k \in 0..l
        PROVE  f[k] = IF k = 0 THEN base ELSE Follow(memo, f[k - 1])
    <3>1. CASE k = 0
      BY <2>1, <3>1 DEF Recurses
    <3>2. CASE k # 0
      <4>1. k \in 1..l /\ k - 1 \in 0..l
        BY <3>2, <1>1
      <4>2. f[k - 1] \in S /\ f[k] = fs[k][f[k - 1]]
        BY <4>1, <2>1 DEF Recurses
      <4> QED  BY <3>2, <4>1, <4>2
    <3> QED  BY <3>1, <3>2
  <2>3. f = [k \in 0..l |-> IF k = 0 THEN base ELSE Follow(memo, f[k - 1])]
    BY <2>1, <2>2
  <2>4. Following(f, g, memo)
    BY <2>3 DEF Following, l, base, s
  <2> QED  BY <2>4
<1>7. ASSUME NEW f, Following(f, g, memo)
      PROVE  IsPath(g, f[l]) /\ Len(f[l]) = memo[s].len
  <2> HIDE DEF fs
  <2>1. \A k \in 0..l : f[k] = IF k = 0 THEN base ELSE Follow(memo, f[k - 1])
    BY <1>7 DEF Following, l, s
  <2> DEFINE End(p) == memo[p[Len(p)]].len
             Fits(k) == /\ Along(g, memo, s, f[k])
                        /\ End(f[k]) = 1 \/ Len(f[k]) = k + 1
             Bad == {k \in 0..l : ~ Fits(k)}
  <2>2. Fits(0)
    <3>1. f[0] = base
      BY <1>1, <2>1
    <3>2. Len(base) = 1
      OBVIOUS
    <3> HIDE DEF base
    <3> QED  BY <1>4, <3>1, <3>2
  <2> HIDE DEF base, S
  <2>3. ASSUME NEW k \in 1..l, Fits(k - 1) PROVE Fits(k)
    <3> DEFINE p == f[k - 1]
               q == f[k]
    <3>1. q = Follow(memo, p)
      BY <1>1, <2>1
    <3>2. Along(g, memo, s, p) /\ (End(p) = 1 \/ Len(p) = (k - 1) + 1)
      BY <2>3
    <3> HIDE DEF p, q
    <3>3. /\ Along(g, memo, s, q)
          /\ (q = p /\ End(p) = 1) \/ Len(q) = Len(p) + 1
      BY <1>3, <3>1, <3>2, FollowIs
    <3>4. End(q) = 1 \/ Len(q) = k + 1
      <4>1. CASE q = p /\ End(p) = 1
        BY <4>1
      <4>2. CASE Len(q) = Len(p) + 1 /\ Len(p) = (k - 1) + 1
        BY <4>2, <1>1
      <4>3. CASE Len(q) = Len(p) + 1 /\ End(p) = 1
        <5>1. /\ Len(p) \in Nat /\ Len(q) \in Nat /\ q[Len(q)] \in Nodes(g)
          BY <3>2, <3>3, LenProperties, ElementOfSeq DEF Along
        <5>2. End(q) \in Nat /\ End(q) >= 1 /\ memo[s].len \in Nat
          BY <1>2, <1>3, <5>1
        <5>3. End(q) + Len(q) = memo[s].len + 1 /\ End(p) + Len(p) = memo[s].len + 1
          BY <3>2, <3>3 DEF Along
        <5> HIDE DEF End
        <5> QED  BY <4>3, <5>1, <5>2, <5>3
      <4> HIDE DEF End
      <4> QED  BY <3>2, <3>3, <4>1, <4>2, <4>3
    <3> QED  BY <3>3, <3>4 DEF q
  <2> HIDE DEF Fits
  <2>4. Bad = {}
    <3> SUFFICES ASSUME Bad # {} PROVE FALSE
      OBVIOUS
    <3>1. PICK m \in Bad : \A j \in Bad : m <= j
      <4>1. Bad \subseteq Nat
        BY <1>1
      <4> QED  BY <4>1, LeastNat
    <3>2. m \in 1..l /\ m - 1 \in 0..l /\ ~ (m <= m - 1)
      <4>1. m \in 0..l /\ m # 0
        BY <2>2
      <4> QED  BY <4>1, <1>1
    <3>3. m - 1 \notin Bad
      <4> HIDE DEF Bad
      <4> QED  BY <3>1, <3>2
    <3>4. Fits(m - 1)
      BY <3>2, <3>3
    <3> QED  BY <3>2, <3>4, <2>3
  <2> DEFINE p == f[l]
  <2>5. Along(g, memo, s, p) /\ (End(p) = 1 \/ Len(p) = l + 1)
    <3>1. l \in 0..l
      BY <1>1
    <3> QED  BY <3>1, <2>4 DEF Fits
  <2> HIDE DEF p
  <2>6. Len(p) \in Nat /\ p[Len(p)] \in Nodes(g)
    BY <2>5, LenProperties, ElementOfSeq DEF Along
  <2>7. End(p) \in Nat /\ End(p) >= 1 /\ memo[s].len \in Nat /\ memo[s].len <= l
    BY <1>2, <1>3, <2>6 DEF l
  <2>8. End(p) + Len(p) = memo[s].len + 1
    BY <2>5 DEF Along
  <2> HIDE DEF End
  <2>9. Len(p) = memo[s].len
    BY <1>1, <2>5, <2>6, <2>7, <2>8
  <2>10. IsPath(g, p)
    BY <2>5 DEF Along
  <2> QED  BY <2>9, <2>10 DEF p
<1> QED  BY <1>6, <1>7 DEF l, s

-----------------------------------------------------------------------------
(* Kernel: the algorithms agree *)

\* A plan without cycles is scheduled whole.
LEMMA AllScheduled ==
    ASSUME NEW g, WellFormed(g), \A n \in Nodes(g) : ~ OnCycle(g, n)
    PROVE  Complete(g, ParallelSafeBatches(g))
<1> DEFINE b == ParallelSafeBatches(g)
<1>1. Schedules(g, b) /\ Tight(g, b)
  BY BatchesSchedule, BatchesTight
<1> HIDE DEF b
<1>2. UNION {b[i] : i \in DOMAIN b} = {n \in Nodes(g) : ~ OnCycle(g, n)}
  BY <1>1, ScheduledIs
<1>3. \A n \in Nodes(g) : \E j \in DOMAIN b : n \in b[j]
  BY <1>2
<1> QED  BY <1>1, <1>3 DEF Complete, b

\* The critical path is a path, one node for each batch.
LEMMA CriticalPathIs ==
    ASSUME NEW g, WellFormed(g), \A n \in Nodes(g) : ~ OnCycle(g, n)
    PROVE  /\ IsPath(g, CriticalPath(g))
           /\ Len(CriticalPath(g)) = Len(ParallelSafeBatches(g))
<1> DEFINE b == ParallelSafeBatches(g)
           l == Len(g.order)
<1>1. Complete(g, b)
  BY AllScheduled
<1> HIDE DEF b
<1>2. Len(b) \in Nat /\ DOMAIN b = 1..Len(b) /\ Len(b) <= l
  BY <1>1, FewBatches
<1>3. CASE g.order = <<>>
  <2>1. CriticalPath(g) = <<>>
    BY <1>3, Zenon DEF CriticalPath
  <2>2. Len(<<>>) = 0 /\ IsPath(g, <<>>)
    BY DEF IsPath
  <2>3. Len(b) = 0
    BY <1>2, <1>3
  <2> QED  BY <2>1, <2>2, <2>3 DEF b
<1>4. CASE g.order # <<>>
  <2> DEFINE longest == CHOOSE f : Lengthening(f, g)
             memo == longest[Len(g.order)]
             path == CHOOSE f : Following(f, g, memo)
  <2>1. Lengthening(longest, g)
    <3>1. \E f : Lengthening(f, g)
      BY LengtheningExists
    <3> QED  BY <3>1, Zenon
  <2>2. CriticalPath(g) = path[Len(g.order)]
    BY <1>4, Zenon DEF CriticalPath, Lengthening, Following, PathStart, LaterStart, Alone
  <2> HIDE DEF longest
  <2>3. Settled(g, memo)
    BY <1>1, <1>4, <2>1, LengthsSettle
  <2> HIDE DEF memo
  <2>4. /\ \A n \in Nodes(g) : memo[n].len \in Nat /\ memo[n].len >= 1 /\ memo[n].len <= Len(b)
        /\ Len(b) >= 1 => \E n \in Nodes(g) : memo[n].len = Len(b)
    BY <1>1, <2>3, LengthsAre
  <2>5. l \in Nat
    BY LenProperties DEF WellFormed
  <2>6. \A n \in Nodes(g) : memo[n].len >= 1 /\ memo[n].len <= Len(g.order)
    BY <1>2, <2>4, <2>5
  <2>7. /\ \E f : Following(f, g, memo)
        /\ \A f : Following(f, g, memo) =>
              /\ IsPath(g, f[Len(g.order)])
              /\ Len(f[Len(g.order)]) = memo[PathStart(g, memo)].len
    BY <1>4, <2>3, <2>6, FollowingEnds
  <2>8. Following(path, g, memo)
    BY <2>7, Zenon
  <2> HIDE DEF path
  <2>9. IsPath(g, CriticalPath(g)) /\ Len(CriticalPath(g)) = memo[PathStart(g, memo)].len
    BY <2>2, <2>7, <2>8
  <2>10. /\ PathStart(g, memo) \in Nodes(g)
         /\ \A n \in Nodes(g) : memo[n].len <= memo[PathStart(g, memo)].len
    BY <1>4, <2>4, StartIs
  <2> DEFINE top == memo[PathStart(g, memo)].len
  <2>11. top \in Nat /\ top >= 1 /\ top <= Len(b)
    BY <2>4, <2>10
  <2>12. Len(b) <= top
    <3>1. PICK n \in Nodes(g) : memo[n].len = Len(b)
      BY <1>2, <2>4, <2>11
    <3> QED  BY <2>10, <3>1
  <2>13. top = Len(b)
    <3>1. Len(b) \in Nat
      BY <1>2
    <3> DEFINE last == Len(b)
    <3>2. top \in Nat /\ last \in Nat /\ top <= last /\ last <= top
      BY <2>11, <2>12, <3>1
    <3> HIDE DEF top, last
    <3>3. top = last
      BY <3>2
    <3> QED  BY <3>3 DEF last
  <2> QED  BY <2>9, <2>13 DEF b
<1> QED  BY <1>3, <1>4

\* The algorithms agree on any graph whose edges lead from node to node.
LEMMA AlgorithmsAgree ==
    ASSUME NEW g, WellFormed(g)
    PROVE  CyclesAgree(g) /\ (IsAcyclic(g) => OrdersAgree(g))
<1> DEFINE found == DetectCycles(g)
           batches == ParallelSafeBatches(g)
           sorted == TopologicalSort(g)
           Free == {n \in Nodes(g) : ~ OnCycle(g, n)}
           Stuck(n) == \E m \in Nodes(g) : Reaches(g, m, m) /\ Reaches(g, m, n)
<1>1. /\ found \in Seq(Seq(Nodes(g)))
      /\ \A i \in DOMAIN found : Closed(g, found[i])
      /\ found = <<>> <=> \A n \in Nodes(g) : ~ OnCycle(g, n)
  BY CyclesDetected
<1>2. /\ \A n \in Nodes(g) : OnCycle(g, n) <=> Stuck(n)
      /\ IsAcyclic(g) <=> \A n \in Nodes(g) : ~ OnCycle(g, n)
  BY OnCycleIs
<1>3. OrdersPlan(g)
  BY PlanOrdered
<1>4. /\ Sorts(g) <=> \A n \in Nodes(g) : ~ OnCycle(g, n)
      /\ ToSet(sorted) = Free
      /\ UNION ToSet(batches) = ToSet(sorted)
      /\ \A i, j \in DOMAIN sorted : Edge(g, sorted[i], sorted[j]) => i < j
      /\ \A i, j \in DOMAIN batches : \A m \in batches[i], n \in batches[j] :
            Edge(g, m, n) => i < j
  BY <1>3 DEF OrdersPlan
<1> HIDE DEF found, batches, sorted
<1>5. ASSUME NEW c \in ToSet(found)
      PROVE  c[1] = Last(c) /\ Len(c) > 1 /\ IsPath(g, c)
  <2>1. PICK i \in DOMAIN found : c = found[i]
    BY DEF ToSet
  <2>2. Closed(g, c)
    BY <1>1, <2>1
  <2> QED  BY <2>2 DEF Closed, Last
<1>6. UNION ToSet(batches) = {n \in Nodes(g) : ~ Stuck(n)}
  <2> HIDE DEF Stuck
  <2> QED  BY <1>2, <1>4
<1>7. ASSUME NEW i \in DOMAIN batches, NEW j \in DOMAIN batches,
             NEW m \in Nodes(g), NEW n \in Nodes(g),
             m \in batches[i], n \in batches[j], Edge(g, m, n)
      PROVE  i < j
  BY <1>4, <1>7
<1>8. CyclesAgree(g)
  <2>1. IsAcyclic(g) <=> found = <<>>
    BY <1>1, <1>2
  <2>2. IsAcyclic(g) <=> Sorts(g)
    BY <1>2, <1>4
  <2> QED  BY <1>5, <1>6, <1>7, <2>1, <2>2, Zenon DEF CyclesAgree, found, batches
<1>9. ASSUME IsAcyclic(g) PROVE OrdersAgree(g)
  <2>1. \A n \in Nodes(g) : ~ OnCycle(g, n)
    BY <1>2, <1>9
  <2>2. ToSet(sorted) = Nodes(g)
    BY <1>4, <2>1
  <2>3. IsPath(g, CriticalPath(g)) /\ Len(CriticalPath(g)) = Len(batches)
    BY <2>1, CriticalPathIs DEF batches
  <2> QED  BY <1>4, <2>2, <2>3, Zenon DEF OrdersAgree, sorted, batches
<1> QED  BY <1>8, <1>9

\* On every plan that a client builds, the graph algorithms agree with each
\* other and with reachability: what validate accepts, topological_sort can
\* order, parallel_safe_batches can schedule, and critical_path ends on.
THEOREM GraphsAgree == KSpec => []GraphAlgorithmsAgree
<1>1. KSpec => []PlanTyped
  BY PlansOrdered, PTL
<1>2. PlanTyped => GraphAlgorithmsAgree
  BY AlgorithmsAgree DEF PlanTyped, GraphAlgorithmsAgree
<1> QED  BY <1>1, <1>2, PTL

-----------------------------------------------------------------------------
(* The newest of a sequence *)

Least(a, b) == IF a <= b THEN a ELSE b

LEMMA MaxOfTwo ==
    ASSUME NEW a \in Int, NEW b \in Int
    PROVE  Max({a, b}) = IF a >= b THEN a ELSE b
<1>1. PICK m \in {a, b} : \A y \in {a, b} : m >= y
  <2>1. CASE a >= b
    BY <2>1
  <2>2. CASE ~ (a >= b)
    BY <2>2
  <2> QED  BY <2>1, <2>2
<1>2. Max({a, b}) \in {a, b} /\ \A y \in {a, b} : Max({a, b}) >= y
  BY <1>1, Zenon DEF Max
<1> QED  BY <1>2

LEMMA MinOfTwo ==
    ASSUME NEW a \in Int, NEW b \in Int
    PROVE  Min({a, b}) = Least(a, b)
<1>1. PICK m \in {a, b} : \A y \in {a, b} : m <= y
  <2>1. CASE a <= b
    BY <2>1
  <2>2. CASE ~ (a <= b)
    BY <2>2
  <2> QED  BY <2>1, <2>2
<1>2. Min({a, b}) \in {a, b} /\ \A y \in {a, b} : Min({a, b}) <= y
  BY <1>1, Zenon DEF Min
<1> QED  BY <1>2 DEF Least

LEMMA NewestIs ==
    ASSUME NEW S, NEW s \in Seq(S), NEW n \in Nat
    PROVE  /\ Newest(n, s) \in Seq(S)
           /\ Len(Newest(n, s)) = Least(n, Len(s))
           /\ \A i \in 1..Least(n, Len(s)) :
                 Newest(n, s)[i] = s[Len(s) - Least(n, Len(s)) + i]
<1> DEFINE len == Len(s)
           k == Least(n, len)
           from == len - k + 1
<1>1. len \in Nat /\ \A i \in 1..len : s[i] \in S
  BY LenProperties, ElementOfSeq
<1>2. k \in Nat /\ from \in Int /\ from >= 1 /\ k <= len
  BY <1>1 DEF Least
<1>3. Max({1, len - n + 1}) = from
  <2>1. Max({1, len - n + 1}) = IF 1 >= len - n + 1 THEN 1 ELSE len - n + 1
    <3>1. 1 \in Int /\ len - n + 1 \in Int
      BY <1>1
    <3> HIDE DEF len
    <3> QED  BY <3>1, MaxOfTwo
  <2>2. CASE n <= len
    BY <2>1, <2>2, <1>1 DEF Least
  <2>3. CASE ~ (n <= len)
    BY <2>1, <2>3, <1>1 DEF Least
  <2> QED  BY <2>2, <2>3
<1>4. Newest(n, s) = SubSeq(s, from, len)
  BY <1>3 DEF Newest
<1>5. \A i \in from..len : s[i] \in S
  BY <1>1, <1>2
<1> HIDE DEF k, len
<1>6. /\ SubSeq(s, from, len) \in Seq(S)
      /\ Len(SubSeq(s, from, len)) = IF from <= len THEN len - from + 1 ELSE 0
      /\ \A i \in 1..(len - from + 1) : SubSeq(s, from, len)[i] = s[from + i - 1]
  BY <1>1, <1>2, <1>5, SubSeqProperties
<1>7. len - from + 1 = k /\ (IF from <= len THEN len - from + 1 ELSE 0) = k
  BY <1>1, <1>2
<1>8. \A i \in 1..k : from + i - 1 = len - k + i
  BY <1>1, <1>2
<1> HIDE DEF from
<1>9. \A i \in 1..k : SubSeq(s, from, len)[i] = s[len - k + i]
  BY <1>6, <1>7, <1>8
<1> QED  BY <1>4, <1>6, <1>7, <1>9 DEF k, len

\* To keep the newest of what was kept is to keep the newest of all.
LEMMA NewestOfNewest ==
    ASSUME NEW S, NEW s \in Seq(S), NEW x \in S, NEW n \in Nat
    PROVE  Newest(n, Append(Newest(n, s), x)) = Newest(n, Append(s, x))
<1> DEFINE t == Newest(n, s)
           k == Least(n, Len(s))
           l == Least(n, Len(s) + 1)
<1>1. Len(s) \in Nat
  BY LenProperties
<1>2. k \in Nat /\ k <= Len(s) /\ l \in Nat /\ l <= Len(s) + 1 /\ Least(n, k + 1) = l /\ l <= k + 1
  BY <1>1 DEF Least
<1>3. t \in Seq(S) /\ Len(t) = k /\ \A i \in 1..k : t[i] = s[Len(s) - k + i]
  BY NewestIs
<1> HIDE DEF t, k, l
<1>4. /\ Append(t, x) \in Seq(S) /\ Len(Append(t, x)) = k + 1
      /\ \A i \in 1..k : Append(t, x)[i] = t[i]
      /\ Append(t, x)[k + 1] = x
  BY <1>3, AppendProperties
<1>5. /\ Append(s, x) \in Seq(S) /\ Len(Append(s, x)) = Len(s) + 1
      /\ \A i \in 1..Len(s) : Append(s, x)[i] = s[i]
      /\ Append(s, x)[Len(s) + 1] = x
  BY AppendProperties
<1>6. /\ Newest(n, Append(t, x)) \in Seq(S) /\ Len(Newest(n, Append(t, x))) = l
      /\ \A i \in 1..l : Newest(n, Append(t, x))[i] = Append(t, x)[k + 1 - l + i]
  <2>1. Least(n, Len(Append(t, x))) = l
    BY <1>2, <1>4
  <2>2. /\ Newest(n, Append(t, x)) \in Seq(S)
        /\ Len(Newest(n, Append(t, x))) = Least(n, Len(Append(t, x)))
        /\ \A i \in 1..Least(n, Len(Append(t, x))) :
              Newest(n, Append(t, x))[i]
                = Append(t, x)[Len(Append(t, x)) - Least(n, Len(Append(t, x))) + i]
    BY <1>4, NewestIs
  <2>3. ASSUME NEW i \in 1..l
        PROVE  Newest(n, Append(t, x))[i] = Append(t, x)[k + 1 - l + i]
    <3> DEFINE at == Len(Append(t, x)) - Least(n, Len(Append(t, x))) + i
    <3>1. Newest(n, Append(t, x))[i] = Append(t, x)[at]
      BY <2>1, <2>2
    <3>2. at = k + 1 - l + i
      BY <2>1, <1>1, <1>2, <1>4
    <3> HIDE DEF at
    <3> QED  BY <3>1, <3>2
  <2> QED  BY <2>1, <2>2, <2>3
<1>7. /\ Newest(n, Append(s, x)) \in Seq(S) /\ Len(Newest(n, Append(s, x))) = l
      /\ \A i \in 1..l : Newest(n, Append(s, x))[i] = Append(s, x)[Len(s) + 1 - l + i]
  <2>1. Least(n, Len(Append(s, x))) = l
    BY <1>5 DEF l
  <2>2. /\ Newest(n, Append(s, x)) \in Seq(S)
        /\ Len(Newest(n, Append(s, x))) = Least(n, Len(Append(s, x)))
        /\ \A i \in 1..Least(n, Len(Append(s, x))) :
              Newest(n, Append(s, x))[i]
                = Append(s, x)[Len(Append(s, x)) - Least(n, Len(Append(s, x))) + i]
    BY <1>5, NewestIs
  <2>3. ASSUME NEW i \in 1..l
        PROVE  Newest(n, Append(s, x))[i] = Append(s, x)[Len(s) + 1 - l + i]
    <3> DEFINE at == Len(Append(s, x)) - Least(n, Len(Append(s, x))) + i
    <3>1. Newest(n, Append(s, x))[i] = Append(s, x)[at]
      BY <2>1, <2>2
    <3>2. at = Len(s) + 1 - l + i
      BY <2>1, <1>1, <1>2, <1>5
    <3> HIDE DEF at
    <3> QED  BY <3>1, <3>2
  <2> QED  BY <2>1, <2>2, <2>3
<1>8. ASSUME NEW i \in 1..l
      PROVE  Append(t, x)[k + 1 - l + i] = Append(s, x)[Len(s) + 1 - l + i]
  <2>1. CASE i = l
    <3>1. k + 1 - l + i = k + 1 /\ Len(s) + 1 - l + i = Len(s) + 1
      BY <2>1, <1>1, <1>2
    <3> QED  BY <3>1, <1>4, <1>5
  <2>2. CASE i # l
    <3>1. /\ k + 1 - l + i \in 1..k
          /\ Len(s) + 1 - l + i \in 1..Len(s)
          /\ Len(s) - k + (k + 1 - l + i) = Len(s) + 1 - l + i
      BY <2>2, <1>1, <1>2
    <3> QED  BY <3>1, <1>3, <1>4, <1>5
  <2> QED  BY <2>1, <2>2
<1>9. \A i \in 1..l : Newest(n, Append(t, x))[i] = Newest(n, Append(s, x))[i]
  BY <1>6, <1>7, <1>8
<1>10. Newest(n, Append(t, x)) = Newest(n, Append(s, x))
  BY <1>6, <1>7, <1>9, SeqEqual
<1> QED  BY <1>10 DEF t

\* The newest few of the newest many are the newest few of all.
LEMMA FewOfMany ==
    ASSUME NEW S, NEW s \in Seq(S), NEW n \in Nat, NEW m \in Nat, m <= n
    PROVE  Newest(m, Newest(n, s)) = Newest(m, s)
<1> DEFINE t == Newest(n, s)
           k == Least(n, Len(s))
           l == Least(m, Len(s))
<1>1. Len(s) \in Nat
  BY LenProperties
<1>2. k \in Nat /\ k <= Len(s) /\ l \in Nat /\ l <= k /\ Least(m, k) = l
  BY <1>1 DEF Least
<1>3. t \in Seq(S) /\ Len(t) = k /\ \A i \in 1..k : t[i] = s[Len(s) - k + i]
  BY NewestIs
<1>4. /\ Newest(m, s) \in Seq(S) /\ Len(Newest(m, s)) = l
      /\ \A i \in 1..l : Newest(m, s)[i] = s[Len(s) - l + i]
  BY NewestIs
<1> HIDE DEF t, k, l
<1>5. /\ Newest(m, t) \in Seq(S) /\ Len(Newest(m, t)) = l
      /\ \A i \in 1..l : Newest(m, t)[i] = t[k - l + i]
  <2>1. Least(m, Len(t)) = l /\ Len(t) = k
    BY <1>2, <1>3
  <2>2. /\ Newest(m, t) \in Seq(S) /\ Len(Newest(m, t)) = Least(m, Len(t))
        /\ \A i \in 1..Least(m, Len(t)) :
              Newest(m, t)[i] = t[Len(t) - Least(m, Len(t)) + i]
    BY <1>3, NewestIs
  <2> QED  BY <2>1, <2>2
<1>6. ASSUME NEW i \in 1..l PROVE Newest(m, t)[i] = Newest(m, s)[i]
  <2>1. k - l + i \in 1..k /\ Len(s) - k + (k - l + i) = Len(s) - l + i
    BY <1>1, <1>2
  <2> QED  BY <2>1, <1>3, <1>4, <1>5
<1>7. Newest(m, t) = Newest(m, s)
  BY <1>4, <1>5, <1>6, SeqEqual
<1> QED  BY <1>7 DEF t

-----------------------------------------------------------------------------
(* Division *)

LEMMA Quotient ==
    ASSUME NEW n \in Nat, NEW w \in Nat \ {0}
    PROVE  n \div w \in Nat /\ n % w \in 0..(w - 1) /\ n = (n \div w) * w + (n % w)
<1>1. n \div w \in Int /\ n % w \in Int
  OBVIOUS
<1>2. n = w * (n \div w) + (n % w)
  OBVIOUS
<1>3. 0 <= n % w /\ n % w < w
  OBVIOUS
<1>4. n \div w >= 0
  OBVIOUS
<1>5. w * (n \div w) = (n \div w) * w
  BY <1>1
<1> QED  BY <1>1, <1>2, <1>3, <1>4, <1>5

LEMMA QuotientIs ==
    ASSUME NEW n \in Nat, NEW w \in Nat \ {0}, NEW q \in Nat, q * w <= n, n < q * w + w
    PROVE  n \div w = q
  OBVIOUS

LEMMA Multiples ==
    ASSUME NEW p \in Nat, NEW q \in Nat, p <= q, NEW w \in Nat
    PROVE  p * w \in Nat /\ p * w <= q * w /\ (p + 1) * w = p * w + w
  OBVIOUS

\* Where the number of full stretches grows.
LEMMA NextQuotient ==
    ASSUME NEW n \in Nat, NEW w \in Nat \ {0}
    PROVE  IF (n + 1) % w = 0
           THEN (n + 1) \div w = n \div w + 1 /\ (n \div w) * w + w = n + 1
           ELSE (n + 1) \div w = n \div w
<1> DEFINE q == n \div w
           r == n % w
<1>1. q \in Nat /\ r \in 0..(w - 1) /\ n = q * w + r
  BY Quotient
<1>2. q * w \in Nat /\ (q + 1) * w = q * w + w
  BY <1>1, Multiples
<1> HIDE DEF q, r
<1>3. CASE r = w - 1
  <2>1. n + 1 = (q + 1) * w /\ q + 1 \in Nat
    BY <1>1, <1>2, <1>3
  <2>2. (n + 1) \div w = q + 1
    <3>1. (q + 1) * w <= n + 1 /\ n + 1 < (q + 1) * w + w
      BY <2>1, <1>1
    <3> QED  BY <3>1, <2>1, QuotientIs
  <2>3. (n + 1) % w = 0
    <3>1. (n + 1) = ((n + 1) \div w) * w + ((n + 1) % w) /\ (n + 1) % w \in 0..(w - 1)
      BY <1>1, Quotient
    <3>2. n + 1 = (q + 1) * w + ((n + 1) % w)
      BY <3>1, <2>2
    <3> QED  BY <3>1, <3>2, <2>1, <1>1, <1>2
  <2> QED  BY <2>1, <2>2, <2>3, <1>2 DEF q
<1>4. CASE r # w - 1
  <2>1. (n + 1) \div w = q
    <3>1. q * w <= n + 1 /\ n + 1 < q * w + w
      BY <1>1, <1>2, <1>4
    <3> QED  BY <3>1, <1>1, QuotientIs
  <2>2. (n + 1) % w # 0
    <3>1. (n + 1) = ((n + 1) \div w) * w + ((n + 1) % w)
      BY <1>1, Quotient
    <3>2. n + 1 = q * w + ((n + 1) % w)
      BY <3>1, <2>1
    <3> QED  BY <3>2, <1>1, <1>2, <1>4
  <2> QED  BY <2>1, <2>2 DEF q
<1> QED  BY <1>3, <1>4

-----------------------------------------------------------------------------
(* Epoch: the store *)

\* The aggregate of the stretch of snapshots that follows j others.
Stretch(snaps, j) ==
    Aggregate(SubSeq(snaps, j * WARM_INTERVAL + 1, j * WARM_INTERVAL + WARM_INTERVAL))

WarmOf(snaps) ==
    LET full == Len(snaps) \div WARM_INTERVAL
        kept == Min({full, WARM_MAX})
    IN  [i \in 1..kept |-> Stretch(snaps, full - kept + i - 1)]

Keeps(st, snaps) ==
    /\ st = [hot |-> Newest(HOT_MAX, snaps), warm |-> WarmOf(snaps), count |-> Len(snaps)]

LEMMA Sizes ==
    /\ WARM_INTERVAL \in Nat \ {0} /\ WARM_MAX \in Nat \ {0} /\ HysteresisMax \in Nat \ {0}
    /\ HOT_MAX \in Nat /\ WARM_INTERVAL <= HOT_MAX
  BY TelemetryAssumption

\* A full stretch stays what it is.
LEMMA StretchStays ==
    ASSUME NEW S, NEW s \in Seq(S), NEW x \in S, NEW j \in Nat,
           j * WARM_INTERVAL + WARM_INTERVAL <= Len(s)
    PROVE  Stretch(Append(s, x), j) = Stretch(s, j)
<1> DEFINE from == j * WARM_INTERVAL + 1
           to == j * WARM_INTERVAL + WARM_INTERVAL
<1>1. j * WARM_INTERVAL \in Nat
  BY Multiples, Sizes
<1>2. Len(s) \in Nat /\ from \in 1..Len(s) /\ to \in 1..Len(s)
  BY <1>1, Sizes
<1>3. Append(s, x) = s \o <<x>> /\ <<x>> \in Seq(S)
  BY AppendIsConcat
<1> HIDE DEF from, to
<1>4. SubSeq(Append(s, x), from, to) = SubSeq(s, from, to)
  BY <1>2, <1>3, SubSeqOfConcat1
<1> QED  BY <1>4 DEF Stretch, from, to

\* The newest snapshots are the stretch that has just become full.
LEMMA NewestStretch ==
    ASSUME NEW S, NEW s \in Seq(S), NEW j \in Nat, j * WARM_INTERVAL + WARM_INTERVAL = Len(s)
    PROVE  Aggregate(Newest(WARM_INTERVAL, s)) = Stretch(s, j)
<1> DEFINE m == j * WARM_INTERVAL
<1>1. m \in Nat
  BY Multiples, Sizes
<1> HIDE DEF m
<1>2. m + WARM_INTERVAL = Len(s)
  BY DEF m
<1>3. Len(s) - WARM_INTERVAL + 1 = m + 1 /\ m + 1 \in Int
  BY <1>1, <1>2, Sizes
<1>4. Max({1, m + 1}) = m + 1
  BY <1>1, MaxOfTwo
<1>5. Newest(WARM_INTERVAL, s) = SubSeq(s, m + 1, m + WARM_INTERVAL)
  BY <1>2, <1>3, <1>4 DEF Newest
<1> QED  BY <1>5 DEF Stretch, m

\* Recording a snapshot keeps the store what it is of all snapshots.
LEMMA RecordKeeps ==
    ASSUME NEW S, NEW s \in Seq(S), NEW x \in S, NEW st, Keeps(st, s)
    PROVE  Keeps(Record(st, x), Append(s, x))
<1> DEFINE w == WARM_INTERVAL
           n == Len(s)
           s1 == Append(s, x)
           q == n \div w
           added == [hot |-> Newest(HOT_MAX, s1), warm |-> WarmOf(s), count |-> n + 1]
           Kept(full) == Least(full, WARM_MAX)
           T == {Aggregate(t) : t \in Seq(S)}
<1>1. n \in Nat /\ q \in Nat /\ s1 \in Seq(S) /\ Len(s1) = n + 1 /\ q * w <= n
  <2>1. n \in Nat /\ s1 \in Seq(S) /\ Len(s1) = n + 1
    BY AppendProperties
  <2>2. q \in Nat /\ n % w \in Nat /\ n = q * w + (n % w)
    BY <2>1, Quotient, Sizes
  <2>3. q * w \in Nat
    BY <2>2, Multiples, Sizes
  <2> QED  BY <2>1, <2>2, <2>3
<1>2. [st EXCEPT !.hot = Newest(HOT_MAX, Append(@, x)), !.count = @ + 1] = added
  <2>1. Newest(HOT_MAX, Append(Newest(HOT_MAX, s), x)) = Newest(HOT_MAX, s1)
    BY NewestOfNewest, Sizes
  <2> DEFINE h == Newest(HOT_MAX, s)
             v == WarmOf(s)
  <2>2. st = [hot |-> h, warm |-> v, count |-> n]
    BY DEF Keeps
  <2> HIDE DEF h, v, n, s1
  <2>3. [st EXCEPT !.hot = Newest(HOT_MAX, Append(@, x)), !.count = @ + 1]
          = [hot |-> Newest(HOT_MAX, Append(h, x)), warm |-> v, count |-> n + 1]
    <3>1. st.hot = h /\ st.count = n
      BY <2>2
    <3>2. [st EXCEPT !.hot = Newest(HOT_MAX, Append(@, x)), !.count = @ + 1]
            = [st EXCEPT !.hot = Newest(HOT_MAX, Append(h, x)), !.count = n + 1]
      BY <3>1, Zenon
    <3> DEFINE g == Newest(HOT_MAX, Append(h, x))
               o == n + 1
    <3> HIDE DEF g, o
    <3>3. [st EXCEPT !.hot = g, !.count = o] = [hot |-> g, warm |-> v, count |-> o]
      <4> DEFINE a == [st EXCEPT !.hot = g]
      <4>1. a = [hot |-> g, warm |-> v, count |-> n]
        BY <2>2
      <4>2. [st EXCEPT !.hot = g, !.count = o] = [a EXCEPT !.count = o]
        BY <2>2
      <4> HIDE DEF a
      <4>3. [a EXCEPT !.count = o] = [hot |-> g, warm |-> v, count |-> o]
        BY <4>1
      <4> QED  BY <4>2, <4>3
    <3> QED  BY <3>2, <3>3 DEF g, o
  <2> QED  BY <2>1, <2>3 DEF h, v
<1>3. Record(st, x) = IF (n + 1) % w = 0 THEN Compress(added) ELSE added
  <2>1. added.count = n + 1
    OBVIOUS
  <2> HIDE DEF added
  <2> QED  BY <1>2, <2>1 DEF Record
<1>4. \A p \in Nat : p < q => Stretch(s1, p) = Stretch(s, p)
  <2> SUFFICES ASSUME NEW p \in Nat, p < q PROVE Stretch(s1, p) = Stretch(s, p)
    OBVIOUS
  <2>1. p + 1 \in Nat /\ p + 1 <= q
    BY <1>1
  <2>2. (p + 1) * w <= q * w /\ (p + 1) * w = p * w + w
    BY <2>1, <1>1, Multiples, Sizes
  <2>3. p * w + w <= n
    <3>1. p * w \in Nat /\ q * w \in Nat
      BY <1>1, Multiples, Sizes
    <3> QED  BY <2>2, <3>1, <1>1, Sizes
  <2> QED  BY <2>3, StretchStays
<1>5. ASSUME NEW full \in Nat
      PROVE  /\ Kept(full) \in Nat /\ Kept(full) <= full /\ Min({full, WARM_MAX}) = Kept(full)
  BY MinOfTwo, Sizes DEF Least
<1>6. WarmOf(s) = [i \in 1..Kept(q) |-> Stretch(s, q - Kept(q) + i - 1)]
  BY <1>1, <1>5 DEF WarmOf
<1>7. ASSUME NEW p \in Nat, (n + 1) \div w = p
      PROVE  WarmOf(s1) = [i \in 1..Kept(p) |-> Stretch(s1, p - Kept(p) + i - 1)]
  BY <1>1, <1>5, <1>7 DEF WarmOf
<1>8. CASE (n + 1) % w # 0
  <2>1. (n + 1) \div w = q
    BY <1>8, <1>1, NextQuotient, Sizes
  <2>2. \A i \in 1..Kept(q) : q - Kept(q) + i - 1 \in Nat /\ q - Kept(q) + i - 1 < q
    <3>1. q \in Nat /\ Kept(q) \in Nat /\ Kept(q) <= q
      BY <1>1, <1>5
    <3> HIDE DEF q, Kept
    <3> QED  BY <3>1
  <2> HIDE DEF q, s1, Kept
  <2>3. \A i \in 1..Kept(q) : Stretch(s1, q - Kept(q) + i - 1) = Stretch(s, q - Kept(q) + i - 1)
    BY <1>4, <2>2
  <2>4. WarmOf(s1) = WarmOf(s)
    BY <1>1, <1>6, <1>7, <2>1, <2>3
  <2> QED  BY <1>1, <1>3, <1>8, <2>4 DEF Keeps, s1
<1>9. CASE (n + 1) % w = 0
  <2> DEFINE old == WarmOf(s)
             new == Stretch(s1, q)
             k == Kept(q)
             l == Kept(q + 1)
  <2>1. (n + 1) \div w = q + 1 /\ q * w + w = n + 1
    BY <1>9, <1>1, NextQuotient, Sizes
  <2>2. Aggregate(Newest(w, Newest(HOT_MAX, s1))) = new
    <3>1. Newest(w, Newest(HOT_MAX, s1)) = Newest(w, s1)
      BY <1>1, FewOfMany, Sizes
    <3>2. Aggregate(Newest(w, s1)) = Stretch(s1, q)
      BY <1>1, <2>1, NewestStretch
    <3> QED  BY <3>1, <3>2
  <2>3. Record(st, x) = [added EXCEPT !.warm = Newest(WARM_MAX, Append(old, new))]
    BY <1>3, <1>9, <2>2 DEF Compress
  <2>4. /\ k \in Nat /\ l \in Nat /\ k <= q /\ l <= k + 1 /\ l <= q + 1
        /\ l = Least(WARM_MAX, k + 1) /\ q + 1 - l = q - k + (k + 1 - l)
    BY <1>1, Sizes DEF Least
  <2>5. \A S1 : \A f : f \in [1..k -> S1] => f \in Seq(S1) /\ Len(f) = k
    BY <2>4
  <2> DEFINE V == {Stretch(s, p) : p \in Nat} \cup {new}
  <2>6. old \in Seq(V) /\ Len(old) = k /\ \A i \in 1..k : old[i] = Stretch(s, q - k + i - 1)
    <3>1. \A i \in 1..k : q - k + i - 1 \in Nat
      BY <2>4, <1>1
    <3> HIDE DEF q, k
    <3>2. [i \in 1..k |-> Stretch(s, q - k + i - 1)] \in [1..k -> V]
      BY <3>1
    <3>3. old = [i \in 1..k |-> Stretch(s, q - k + i - 1)]
      BY <1>6 DEF k, q
    <3> QED  BY <2>5, <3>2, <3>3
  <2>7. new \in V
    OBVIOUS
  <2> HIDE DEF old, new, V, k, l, q, s1, Kept
  <2>8. /\ Append(old, new) \in Seq(V) /\ Len(Append(old, new)) = k + 1
        /\ \A i \in 1..k : Append(old, new)[i] = old[i]
        /\ Append(old, new)[k + 1] = new
    BY <2>6, <2>7, AppendProperties
  <2> DEFINE warm == Newest(WARM_MAX, Append(old, new))
  <2>9. Least(WARM_MAX, Len(Append(old, new))) = l
    BY <2>4, <2>8
  <2>10. /\ warm \in Seq(V) /\ Len(warm) = l
         /\ \A i \in 1..l : warm[i] = Append(old, new)[Len(Append(old, new)) - l + i]
    <3>1. /\ warm \in Seq(V) /\ Len(warm) = Least(WARM_MAX, Len(Append(old, new)))
          /\ \A i \in 1..Least(WARM_MAX, Len(Append(old, new))) :
                warm[i] = Append(old, new)[Len(Append(old, new))
                                             - Least(WARM_MAX, Len(Append(old, new))) + i]
      BY <2>8, NewestIs, Sizes
    <3> HIDE DEF warm
    <3> QED  BY <3>1, <2>9
  <2> HIDE DEF warm
  <2>15. q \in Nat
    BY <1>1
  <2>11. ASSUME NEW i \in 1..l PROVE warm[i] = Stretch(s1, q + 1 - l + i - 1)
    <3> DEFINE at == Len(Append(old, new)) - l + i
    <3>1. warm[i] = Append(old, new)[k + 1 - l + i]
      <4>1. warm[i] = Append(old, new)[at]
        BY <2>10
      <4>2. at = k + 1 - l + i
        BY <2>4, <2>8
      <4> HIDE DEF at
      <4> QED  BY <4>1, <4>2
    <3>2. CASE i = l
      <4>1. k + 1 - l + i = k + 1 /\ q + 1 - l + i - 1 = q
        BY <3>2, <2>4, <2>15
      <4> QED  BY <3>1, <4>1, <2>8 DEF new
    <3>3. CASE i # l
      <4> DEFINE p == q + 1 - l + i - 1
      <4>0. i \in Nat /\ i <= l - 1 /\ i >= 1
        BY <3>3, <2>4
      <4>1. /\ k + 1 - l + i \in 1..k
            /\ q - k + (k + 1 - l + i) - 1 = p
            /\ p \in Nat /\ p < q
        <5>1. k + 1 - l + i \in 1..k
          BY <4>0, <2>4, <2>15
        <5>2. q - k + (k + 1 - l + i) - 1 = p
          BY <4>0, <2>4, <2>15
        <5>3. p \in Nat /\ p < q
          BY <4>0, <2>4, <2>15
        <5> QED  BY <5>1, <5>2, <5>3
      <4>2. warm[i] = Stretch(s, p)
        BY <3>1, <4>1, <2>6, <2>8
      <4>3. Stretch(s1, p) = Stretch(s, p)
        BY <4>1, <1>4
      <4> QED  BY <4>2, <4>3
    <3> QED  BY <3>2, <3>3
  <2>12. warm = [i \in 1..l |-> Stretch(s1, q + 1 - l + i - 1)]
    <3>1. warm = [i \in 1..l |-> warm[i]]
      BY <2>10
    <3> QED  BY <3>1, <2>11
  <2>13. WarmOf(s1) = [i \in 1..l |-> Stretch(s1, q + 1 - l + i - 1)]
    <3>1. PICK p \in Nat : p = q + 1
      BY <2>15
    <3>2. l = Kept(p) /\ (n + 1) \div w = p
      BY <3>1, <2>1 DEF l
    <3>3. WarmOf(s1) = [i \in 1..Kept(p) |-> Stretch(s1, p - Kept(p) + i - 1)]
      BY <3>2, <1>7
    <3>4. \A i \in 1..l : p - l + i - 1 = q + 1 - l + i - 1
      BY <3>1, <2>4, <2>15
    <3> QED  BY <3>2, <3>3, <3>4
  <2>14. Record(st, x) = [hot |-> Newest(HOT_MAX, s1), warm |-> warm, count |-> n + 1]
    BY <2>3 DEF warm
  <2> QED  BY <2>12, <2>13, <2>14, <1>1 DEF Keeps, s1
<1> QED  BY <1>8, <1>9

-----------------------------------------------------------------------------
(* Epoch: probes and captures *)

Probe == {"epoch", "a", "b"}

AProbe == [calls : Nat, last : Nat \cup {NoScore}, prev : Nat \cup {NoScore},
           oscillations : Nat, improvement : Nat, degradation : Nat, compared : Nat]

ASnapshot == [cycle : Nat, governance : Nat, entropy : Nat, oscillations : Nat]

Caller == {"epoch", "runtime", "boot"}

ACapture == [snapshot : ASnapshot, probe : Probe, by : Caller]

\* The direction of the scores changes at the last of three.
Turns(a, b, c) == (b - a) * (c - b) < 0

\* What a capture of the score v makes of a probe q.
Observes(q, v, o) ==
    /\ o.last = v /\ o.prev = q.last
    /\ o.oscillations = q.oscillations + (IF /\ q.prev # NoScore /\ q.last # NoScore
                                             /\ Turns(q.prev, q.last, v) THEN 1 ELSE 0)
    /\ IF q.last = NoScore \/ q.compared >= HysteresisMax
       THEN o.improvement = q.improvement /\ o.degradation = q.degradation /\ o.compared = q.compared
       ELSE /\ o.improvement - o.degradation = (q.improvement - q.degradation) + (v - q.last)
            /\ o.compared = q.compared + 1

\* The oscillations do not depend on the calls.
LEMMA ObservedOscillations ==
    ASSUME NEW q \in AProbe, NEW v \in Nat
    PROVE  Observe(q, v).oscillations \in Nat
<1> DEFINE t == IF /\ q.prev # NoScore /\ q.last # NoScore
                   /\ (q.last - q.prev) * (v - q.last) < 0 THEN 1 ELSE 0
           o == ComputeOscillation(q, v)
           h == ComputeHysteresis(o, v)
<1>1. t \in Nat
  OBVIOUS
<1>2. o = [q EXCEPT !.oscillations = @ + t, !.prev = q.last]
  BY DEF ComputeOscillation
<1> HIDE DEF t
<1>3. o.oscillations \in Nat /\ DOMAIN o = DOMAIN q
  BY <1>1, <1>2 DEF AProbe
<1> HIDE DEF o
<1>4. h.oscillations = o.oscillations /\ DOMAIN h = DOMAIN q
  BY <1>3 DEF ComputeHysteresis, AProbe
<1>5. Observe(q, v) = [h EXCEPT !.last = v]
  BY DEF Observe, o
<1> HIDE DEF h
<1> QED  BY <1>3, <1>4, <1>5 DEF AProbe

LEMMA ObserveIs ==
    ASSUME NEW q \in AProbe, NEW v \in Nat
    PROVE  /\ Called(q) \in AProbe
           /\ Observe(Called(q), v) \in AProbe
           /\ Observes(q, v, Observe(Called(q), v))
<1> DEFINE t == IF /\ q.prev # NoScore /\ q.last # NoScore
                   /\ Turns(q.prev, q.last, v) THEN 1 ELSE 0
           c == Called(q)
           o == ComputeOscillation(c, v)
           h == ComputeHysteresis(o, v)
<1>1. t \in Nat
  OBVIOUS
<1>2. /\ c \in AProbe /\ c.last = q.last /\ c.prev = q.prev /\ c.oscillations = q.oscillations
      /\ c.improvement = q.improvement /\ c.degradation = q.degradation /\ c.compared = q.compared
  BY DEF Called, AProbe
<1>3. o = [c EXCEPT !.oscillations = @ + t, !.prev = c.last]
  BY <1>2 DEF ComputeOscillation, Turns
<1> HIDE DEF c, t
<1>4. /\ o \in AProbe /\ o.last = q.last /\ o.prev = q.last /\ o.oscillations = q.oscillations + t
      /\ o.improvement = q.improvement /\ o.degradation = q.degradation /\ o.compared = q.compared
  <2> DEFINE a == [c EXCEPT !.oscillations = @ + t]
  <2>1. o = [a EXCEPT !.prev = c.last]
    BY <1>3
  <2>2. /\ a \in AProbe /\ a.last = q.last /\ a.oscillations = q.oscillations + t
        /\ a.improvement = q.improvement /\ a.degradation = q.degradation
        /\ a.compared = q.compared
    BY <1>1, <1>2 DEF AProbe
  <2> HIDE DEF o, a
  <2>3. c.last \in Nat \cup {NoScore}
    BY <1>2 DEF AProbe
  <2> QED  BY <1>2, <2>1, <2>2, <2>3 DEF AProbe
<1> HIDE DEF o
<1>5. /\ h \in AProbe /\ h.prev = q.last /\ h.oscillations = q.oscillations + t
      /\ IF q.last = NoScore \/ q.compared >= HysteresisMax
         THEN h.improvement = q.improvement /\ h.degradation = q.degradation /\ h.compared = q.compared
         ELSE /\ h.improvement - h.degradation = (q.improvement - q.degradation) + (v - q.last)
              /\ h.compared = q.compared + 1
  <2>1. CASE q.last = NoScore \/ q.compared >= HysteresisMax
    <3>1. h = o
      BY <2>1, <1>4 DEF ComputeHysteresis
    <3> HIDE DEF h
    <3> QED  BY <3>1, <2>1, <1>4
  <2>2. CASE ~ (q.last = NoScore \/ q.compared >= HysteresisMax)
    <3> DEFINE up == Max({0, v - q.last})
               down == Max({0, q.last - v})
    <3>1. h = [o EXCEPT !.improvement = @ + up, !.degradation = @ + down, !.compared = @ + 1]
      BY <2>2, <1>4 DEF ComputeHysteresis
    <3>2. q.last \in Nat
      BY <2>2 DEF AProbe
    <3>3. v - q.last \in Int /\ q.last - v \in Int
      BY <3>2
    <3>4. up = (IF 0 >= v - q.last THEN 0 ELSE v - q.last)
          /\ down = (IF 0 >= q.last - v THEN 0 ELSE q.last - v)
      BY <3>3, MaxOfTwo
    <3>5. up \in Nat /\ down \in Nat /\ up - down = v - q.last
      <4> HIDE DEF up, down
      <4> QED  BY <3>2, <3>4
    <3> HIDE DEF up, down, h
    <3>6. /\ h \in AProbe /\ h.prev = o.prev /\ h.oscillations = o.oscillations
          /\ h.improvement = o.improvement + up /\ h.degradation = o.degradation + down
          /\ h.compared = o.compared + 1
      <4> DEFINE a == [o EXCEPT !.improvement = @ + up]
                 b == [a EXCEPT !.degradation = @ + down]
      <4>1. /\ a \in AProbe /\ a.prev = o.prev /\ a.oscillations = o.oscillations
            /\ a.improvement = o.improvement + up /\ a.degradation = o.degradation
            /\ a.compared = o.compared
        BY <3>5, <1>4 DEF AProbe
      <4> HIDE DEF a
      <4>2. /\ b \in AProbe /\ b.prev = o.prev /\ b.oscillations = o.oscillations
            /\ b.improvement = o.improvement + up /\ b.degradation = o.degradation + down
            /\ b.compared = o.compared
        BY <3>5, <4>1, <1>4 DEF AProbe
      <4>3. h = [b EXCEPT !.compared = @ + 1]
        BY <3>1 DEF a
      <4> HIDE DEF b
      <4> QED  BY <4>2, <4>3 DEF AProbe
    <3>7. q.improvement \in Nat /\ q.degradation \in Nat
      BY DEF AProbe
    <3>8. h.improvement - h.degradation = (q.improvement - q.degradation) + (v - q.last)
      BY <3>2, <3>5, <3>6, <3>7, <1>4
    <3> QED  BY <2>2, <3>6, <3>8, <1>4
  <2> QED  BY <2>1, <2>2
<1>6. Observe(c, v) = [h EXCEPT !.last = v]
  BY DEF Observe, h, o
<1> HIDE DEF h
<1>7. /\ Observe(c, v) \in AProbe /\ Observe(c, v).last = v /\ Observe(c, v).prev = h.prev
      /\ Observe(c, v).oscillations = h.oscillations
      /\ Observe(c, v).improvement = h.improvement
      /\ Observe(c, v).degradation = h.degradation
      /\ Observe(c, v).compared = h.compared
  BY <1>5, <1>6 DEF AProbe
<1>8. Observes(q, v, Observe(c, v))
  BY <1>5, <1>7 DEF Observes, t
<1> QED  BY <1>2, <1>7, <1>8 DEF c

ETyped ==
    /\ kind \in {"benchmark", "federated"} /\ chaos \in BOOLEAN /\ interval \in Intervals
    /\ ran \in Nat /\ cycles \in Nat
    /\ score \in [{"a", "b"} -> Scores \cup {NoScore}]
    /\ probes \in [Probe -> AProbe]
    /\ captured \in Seq(ACapture)

\* A call of a probe leaves everything as it was but for the count of its
\* calls, or it records a snapshot.
Skips(p) ==
    /\ probes' = [probes EXCEPT ![p] = Called(@)]
    /\ UNCHANGED <<store, captured>>

Takes(p, by, x) ==
    /\ probes' = [probes EXCEPT ![p] = Observe(Called(@), x.governance)]
    /\ store' = Record(store, x)
    /\ captured' = Append(captured, [snapshot |-> x, probe |-> p, by |-> by])

CallsProbe(p, by) == Skips(p) \/ \E x \in ASnapshot : Takes(p, by, x)

LEMMA CaptureIs ==
    ASSUME ETyped, NEW p \in Probe, NEW n \in {"a", "b"}, NEW cycle \in Nat,
           NEW history \in Scores \cup {NoScore}, NEW by, Capture(p, n, cycle, history, by)
    PROVE  CallsProbe(p, by) /\ score' \in [{"a", "b"} -> Scores \cup {NoScore}]
<1>1. CASE (probes[p].calls + 1) % IntervalOf(p) # 0
  BY <1>1 DEF Capture, CallsProbe, Skips, ETyped
<1>2. CASE ~ ((probes[p].calls + 1) % IntervalOf(p) # 0)
  <2> DEFINE seen == ExtractGovernanceScore(probes[p], history)
             x(e) == [cycle |-> cycle, governance |-> seen, entropy |-> e,
                      oscillations |-> Observe(probes[p], seen).oscillations]
  <2>1. PICK after \in Scores, entropy \in Entropies :
           /\ probes' = [probes EXCEPT ![p] = Observe(Called(@), seen)]
           /\ score' = [score EXCEPT ![n] = after]
           /\ store' = Record(store, x(entropy))
           /\ captured' = Append(captured, [snapshot |-> x(entropy), probe |-> p, by |-> by])
    BY <1>2 DEF Capture
  <2>2. probes[p] \in AProbe
    BY DEF ETyped
  <2>3. probes[p].last \in Nat \cup {NoScore}
    BY <2>2 DEF AProbe
  <2>4. Scores \subseteq Nat /\ Entropies \subseteq Nat
    BY EpochAssumption
  <2>5. seen \in Nat
    BY <2>3, <2>4 DEF ExtractGovernanceScore, NoScore
  <2>6. Observe(probes[p], seen).oscillations \in Nat
    BY <2>2, <2>5, ObservedOscillations
  <2> HIDE DEF seen
  <2>7. x(entropy) \in ASnapshot /\ x(entropy).governance = seen
    BY <2>4, <2>5, <2>6 DEF ASnapshot
  <2>8. CallsProbe(p, by)
    <3> DEFINE y == x(entropy)
    <3>1. y \in ASnapshot /\ y.governance = seen /\ store' = Record(store, y)
          /\ captured' = Append(captured, [snapshot |-> y, probe |-> p, by |-> by])
      BY <2>1, <2>7
    <3> HIDE DEF y
    <3>2. Takes(p, by, y)
      BY <2>1, <3>1 DEF Takes
    <3> QED  BY <3>1, <3>2 DEF CallsProbe
  <2>9. score' \in [{"a", "b"} -> Scores \cup {NoScore}]
    BY <2>1 DEF ETyped
  <2> QED  BY <2>8, <2>9
<1> QED  BY <1>1, <1>2

LEMMA CallsTyped ==
    ASSUME ETyped, NEW p \in Probe, NEW by \in Caller, CallsProbe(p, by)
    PROVE  probes' \in [Probe -> AProbe] /\ captured' \in Seq(ACapture)
<1>1. probes[p] \in AProbe /\ probes \in [Probe -> AProbe] /\ captured \in Seq(ACapture)
  BY DEF ETyped
<1>2. CASE Skips(p)
  <2>1. Called(probes[p]) \in AProbe
    <3>1. 0 \in Nat
      OBVIOUS
    <3> QED  BY <1>1, <3>1, ObserveIs
  <2> QED  BY <1>1, <1>2, <2>1 DEF Skips
<1>3. ASSUME NEW x \in ASnapshot, Takes(p, by, x)
      PROVE  probes' \in [Probe -> AProbe] /\ captured' \in Seq(ACapture)
  <2>1. x.governance \in Nat
    BY DEF ASnapshot
  <2>2. Observe(Called(probes[p]), x.governance) \in AProbe
    BY <1>1, <2>1, ObserveIs
  <2>3. [snapshot |-> x, probe |-> p, by |-> by] \in ACapture
    BY DEF ACapture
  <2>4. captured' \in Seq(ACapture)
    BY <1>1, <1>3, <2>3, AppendProperties DEF Takes
  <2> QED  BY <1>1, <1>3, <2>2, <2>4 DEF Takes
<1> QED  BY <1>2, <1>3 DEF CallsProbe

\* The cycle of a runtime calls a probe.
LEMMA NodeCycleIs ==
    ASSUME ETyped, NEW p \in Probe, NEW n \in {"a", "b"}, NEW cycle \in Nat, NEW by,
           NodeCycle(p, n, cycle, by)
    PROVE  CallsProbe(p, by) /\ score' \in [{"a", "b"} -> Scores \cup {NoScore}]
<1>1. PICK s \in Scores : Capture(p, n, cycle, Assessed(n, cycle, s), by)
  BY DEF NodeCycle
<1>2. Assessed(n, cycle, s) \in Scores \cup {NoScore}
  BY DEF Assessed, ETyped
<1> QED  BY <1>1, <1>2, CaptureIs

\* Every step of an epoch calls one probe or none.
Quiet == UNCHANGED <<probes, store, captured>>

Step == Quiet \/ \E p \in Probe, by \in Caller : CallsProbe(p, by)

LEMMA EpochStep ==
    ASSUME ETyped, [ENext]_evars
    PROVE  ETyped' /\ Step
<1>1. /\ kind \in {"benchmark", "federated"} /\ chaos \in BOOLEAN /\ interval \in Intervals
      /\ ran \in Nat /\ cycles \in Nat
      /\ score \in [{"a", "b"} -> Scores \cup {NoScore}]
  BY DEF ETyped
<1>2. "epoch" \in Probe /\ "a" \in Probe /\ "b" \in Probe
  BY DEF Probe
<1>3. "epoch" \in Caller /\ "runtime" \in Caller /\ "boot" \in Caller
  BY DEF Caller
<1>4. ASSUME NEW p \in Probe, NEW by \in Caller, CallsProbe(p, by),
             score' \in [{"a", "b"} -> Scores \cup {NoScore}],
             UNCHANGED config, ran' \in Nat, cycles' \in Nat
      PROVE  ETyped' /\ Step
  BY <1>1, <1>4, CallsTyped DEF ETyped, Step, config
<1>5. ASSUME Quiet, UNCHANGED config, score' \in [{"a", "b"} -> Scores \cup {NoScore}],
             ran' \in Nat, cycles' \in Nat
      PROVE  ETyped' /\ Step
  BY <1>5, <1>1 DEF ETyped, Step, Quiet, config
<1>6. CASE StartPhase
  <2>1. score' = (IF Fresh THEN [n \in {"a", "b"} |-> NoScore] ELSE score)
    BY <1>6 DEF StartPhase
  <2>2. score' \in [{"a", "b"} -> Scores \cup {NoScore}]
    BY <2>1, <1>1
  <2>3. Quiet /\ UNCHANGED config /\ ran' = 0 /\ cycles' = cycles
    BY <1>6 DEF StartPhase, Quiet
  <2> QED  BY <2>2, <2>3, <1>1, <1>5
<1>7. CASE PhaseCycle
  <2>1. cycles' \in Nat /\ ran' \in Nat
    BY <1>7, <1>1 DEF PhaseCycle, Counted
  <2> QED  BY <1>7, <1>2, <1>3, <1>4, <2>1, NodeCycleIs DEF PhaseCycle
<1>8. CASE SecondNode
  BY <1>8, <1>1, <1>2, <1>3, <1>4, NodeCycleIs DEF SecondNode
<1>9. CASE EpochCapture
  <2>1. score["a"] \in Scores \cup {NoScore}
    BY <1>1
  <2>2. Capture("epoch", "a", cycles, score["a"], "epoch") /\ UNCHANGED <<config, ran, cycles>>
    BY <1>9 DEF EpochCapture
  <2> QED  BY <1>1, <1>2, <1>3, <1>4, <2>1, <2>2, CaptureIs
<1>10. CASE BootCycle
  <2>1. cycles' \in Nat /\ ran' \in Nat /\ UNCHANGED config
    BY <1>10, <1>1 DEF BootCycle, Counted
  <2>2. CASE kind = "federated"
    <3>1. Quiet /\ score' = score
      BY <1>10, <2>2 DEF BootCycle, Quiet
    <3> QED  BY <1>1, <1>5, <2>1, <3>1
  <2>3. CASE kind # "federated"
    <3>1. NodeCycle("epoch", "a", ran', "boot")
      BY <1>10, <2>3 DEF BootCycle
    <3> QED  BY <1>2, <1>3, <1>4, <2>1, <3>1, NodeCycleIs
  <2> QED  BY <2>2, <2>3
<1>11. CASE ReplayCycle
  <2>1. cycles' \in Nat /\ ran' \in Nat
    BY <1>11, <1>1 DEF ReplayCycle, Counted
  <2> QED  BY <1>11, <1>2, <1>3, <1>4, <2>1, NodeCycleIs DEF ReplayCycle
<1>12. CASE ReplayPair
  BY <1>12, <1>1, <1>2, <1>3, <1>4, NodeCycleIs DEF ReplayPair
<1>13. CASE EndPhase \/ Abort \/ Finish \/ Crash \/ UNCHANGED evars
  <2>1. Quiet /\ UNCHANGED <<config, score, ran, cycles>>
    BY <1>13 DEF EndPhase, Abort, Finish, Crash, evars, Quiet, config
  <2> QED  BY <2>1, <1>1, <1>5
<1> QED  BY <1>6, <1>7, <1>8, <1>9, <1>10, <1>11, <1>12, <1>13 DEF ENext

\* Scores, probes and captures are of their types.
THEOREM EpochTypes == ESpec => []ETyped
<1>1. EInit => ETyped
  <2>1. NewProbe \in AProbe
    BY DEF NewProbe, AProbe
  <2>2. <<>> \in Seq(ACapture)
    BY EmptySeq
  <2> QED  BY <2>1, <2>2 DEF EInit, ETyped, Probe
<1> QED  BY <1>1, EpochStep, PTL DEF ESpec

-----------------------------------------------------------------------------
(* Epoch: what the store keeps of the captures *)

LEMMA SnapshotsTyped ==
    ASSUME NEW c \in Seq(ACapture)
    PROVE  /\ [i \in DOMAIN c |-> c[i].snapshot] \in Seq(ASnapshot)
           /\ Len([i \in DOMAIN c |-> c[i].snapshot]) = Len(c)
<1>1. Len(c) \in Nat /\ DOMAIN c = 1..Len(c)
  BY LenProperties
<1>2. \A i \in 1..Len(c) : c[i].snapshot \in ASnapshot
  <2> SUFFICES ASSUME NEW i \in 1..Len(c) PROVE c[i].snapshot \in ASnapshot
    OBVIOUS
  <2>1. c[i] \in ACapture
    BY <1>1
  <2> QED  BY <2>1 DEF ACapture
<1> QED  BY <1>1, <1>2

SnapshotsOf(c) == [i \in DOMAIN c |-> c[i].snapshot]

\* A capture adds its snapshot to the snapshots.
LEMMA SnapshotsGrow ==
    ASSUME NEW c \in Seq(ACapture), NEW x \in ACapture
    PROVE  SnapshotsOf(Append(c, x)) = Append(SnapshotsOf(c), x.snapshot)
<1> DEFINE d == Append(c, x)
           n == Len(c)
<1>1. /\ d \in Seq(ACapture) /\ Len(d) = n + 1 /\ n \in Nat
      /\ \A i \in 1..n : d[i] = c[i]
      /\ d[n + 1] = x
      /\ DOMAIN c = 1..n /\ DOMAIN d = 1..(n + 1)
  BY AppendProperties, LenProperties
<1> HIDE DEF d, n
<1>2. /\ SnapshotsOf(c) \in Seq(ASnapshot) /\ Len(SnapshotsOf(c)) = n
      /\ SnapshotsOf(d) \in Seq(ASnapshot) /\ Len(SnapshotsOf(d)) = n + 1
  BY <1>1, SnapshotsTyped DEF SnapshotsOf, n
<1>3. /\ \A i \in 1..n : SnapshotsOf(c)[i] = c[i].snapshot
      /\ \A i \in 1..(n + 1) : SnapshotsOf(d)[i] = d[i].snapshot
  BY <1>1 DEF SnapshotsOf
<1>4. x.snapshot \in ASnapshot
  BY DEF ACapture
<1> DEFINE s == Append(SnapshotsOf(c), x.snapshot)
<1>5. /\ s \in Seq(ASnapshot) /\ Len(s) = n + 1
      /\ \A i \in 1..n : s[i] = SnapshotsOf(c)[i]
      /\ s[n + 1] = x.snapshot
  BY <1>2, <1>4, AppendProperties
<1> HIDE DEF s
<1>6. ASSUME NEW i \in 1..(n + 1) PROVE SnapshotsOf(d)[i] = s[i]
  <2>1. CASE i \in 1..n
    BY <2>1, <1>1, <1>3, <1>5
  <2>2. CASE i = n + 1
    BY <2>2, <1>1, <1>3, <1>5
  <2>3. i \in 1..n \/ i = n + 1
    BY <1>1
  <2> QED  BY <2>1, <2>2, <2>3
<1>7. SnapshotsOf(d) = s
  BY <1>2, <1>5, <1>6, SeqEqual
<1> QED  BY <1>7 DEF s, d

SInv == ETyped /\ Keeps(store, Snapshots)

LEMMA InitSInv == EInit => SInv
<1> SUFFICES ASSUME EInit PROVE Keeps(store, Snapshots) /\ ETyped
  BY DEF SInv
<1>1. ETyped
  <2>1. NewProbe \in AProbe
    BY DEF NewProbe, AProbe
  <2>2. <<>> \in Seq(ACapture)
    BY EmptySeq
  <2> QED  BY <2>1, <2>2 DEF EInit, ETyped, Probe
<1>2. Snapshots = <<>>
  BY DEF EInit, Snapshots
<1>3. <<>> \in Seq(ASnapshot) /\ Len(<<>>) = 0
  BY EmptySeq
<1>4. Newest(HOT_MAX, <<>>) = <<>>
  <2>1. Least(HOT_MAX, 0) = 0
    BY Sizes DEF Least
  <2>2. Newest(HOT_MAX, <<>>) \in Seq(ASnapshot) /\ Len(Newest(HOT_MAX, <<>>)) = 0
    BY <1>3, <2>1, NewestIs, Sizes
  <2> QED  BY <2>2
<1>5. WarmOf(<<>>) = <<>>
  <2>1. 0 \div WARM_INTERVAL = 0
    <3>1. 0 * WARM_INTERVAL = 0
      BY Sizes
    <3> QED  BY <3>1, QuotientIs, Sizes
  <2>2. Min({0, WARM_MAX}) = 0
    BY MinOfTwo, Sizes DEF Least
  <2> DEFINE full == Len(<<>>) \div WARM_INTERVAL
             kept == Min({full, WARM_MAX})
             row(i) == Stretch(<<>>, full - kept + i - 1)
  <2>3. WarmOf(<<>>) = [i \in 1..kept |-> row(i)]
    BY DEF WarmOf
  <2>4. full = 0
    BY <1>3, <2>1
  <2>5. kept = 0
    <3> HIDE DEF full
    <3> QED  BY <2>2, <2>4
  <2> HIDE DEF full, kept, row
  <2> QED  BY <2>3, <2>5
<1> QED  BY <1>1, <1>2, <1>3, <1>4, <1>5 DEF EInit, NewStore, Keeps

LEMMA NextSInv == SInv /\ [ENext]_evars => SInv'
<1> SUFFICES ASSUME SInv, [ENext]_evars PROVE SInv'
  OBVIOUS
<1>1. ETyped /\ ETyped' /\ Step
  BY EpochStep DEF SInv
<1>2. CASE UNCHANGED <<store, captured>>
  BY <1>1, <1>2 DEF SInv, Snapshots
<1>3. ASSUME NEW p \in Probe, NEW by \in Caller, NEW x \in ASnapshot, Takes(p, by, x)
      PROVE  SInv'
  <2> DEFINE c == [snapshot |-> x, probe |-> p, by |-> by]
  <2>1. c \in ACapture /\ c.snapshot = x
    BY DEF ACapture
  <2>2. captured' = Append(captured, c)
    BY <1>3 DEF Takes
  <2> HIDE DEF c
  <2>3. Snapshots' = Append(Snapshots, x)
    <3>1. Snapshots = SnapshotsOf(captured) /\ Snapshots' = SnapshotsOf(captured')
      BY DEF Snapshots, SnapshotsOf
    <3>2. captured \in Seq(ACapture)
      BY <1>1 DEF ETyped
    <3>3. SnapshotsOf(Append(captured, c)) = Append(SnapshotsOf(captured), c.snapshot)
      BY <2>1, <3>2, SnapshotsGrow
    <3> QED  BY <2>1, <2>2, <3>1, <3>3
  <2>4. Keeps(Record(store, x), Append(Snapshots, x))
    <3>1. Snapshots \in Seq(ASnapshot)
      BY SnapshotsTyped DEF SInv, ETyped, Snapshots
    <3> QED  BY <3>1, RecordKeeps DEF SInv
  <2>5. Keeps(store', Snapshots')
    BY <1>3, <2>3, <2>4 DEF Takes
  <2> QED  BY <1>1, <2>5 DEF SInv
<1> QED  BY <1>1, <1>2, <1>3 DEF Step, Quiet, CallsProbe, Skips

\* The inductive invariant of the store holds of every behaviour of an epoch.
THEOREM StoreInvariance == ESpec => []SInv
  BY InitSInv, NextSInv, PTL DEF ESpec

\* The store keeps the newest captures of whatever probe, and its aggregates are
\* those of the full stretches before, none missed or told twice.
THEOREM WarmCovers == ESpec => []WarmCoversCaptures
<1>1. SInv => WarmCoversCaptures
  <2> SUFFICES ASSUME SInv PROVE WarmCoversCaptures
    OBVIOUS
  <2>1. store.hot = Newest(HOT_MAX, Snapshots) /\ store.warm = WarmOf(Snapshots)
    BY DEF SInv, Keeps
  <2>2. Len(Snapshots) = Len(captured)
    BY SnapshotsTyped DEF SInv, ETyped, Snapshots
  <2> QED  BY <2>1, <2>2 DEF WarmCoversCaptures, WarmOf, Stretch
<1> QED  BY <1>1, StoreInvariance, PTL

-----------------------------------------------------------------------------
(* Epoch: the captures that are picked out *)

\* The steps of the function by which Picked is defined.
Picking(S, caps, which) ==
    [i \in 1..Len(caps) |->
        [t \in Seq(S) |-> IF i \in which THEN Append(t, caps[i]) ELSE t]]

Picks(c, caps, which) ==
    c = [i \in 0..Len(caps) |->
            IF i = 0 THEN <<>>
            ELSE IF i \in which THEN Append(c[i - 1], caps[i]) ELSE c[i - 1]]

LEMMA PickedIs ==
    ASSUME NEW S, NEW caps \in Seq(S), NEW which
    PROVE  \E f \in [0..Len(caps) -> Seq(S)] :
              /\ Recurses(f, <<>>, Picking(S, caps, which), Len(caps))
              /\ Picked(caps, which) = f[Len(caps)]
<1> DEFINE n == Len(caps)
           pick == Picking(S, caps, which)
           next(i, t) == IF i \in which THEN Append(t, caps[i]) ELSE t
<1>1. n \in Nat /\ \A i \in 1..n : caps[i] \in S
  BY LenProperties, ElementOfSeq
<1>2. \A i \in 1..n : \A t \in Seq(S) : next(i, t) \in Seq(S)
  BY <1>1, AppendProperties
<1>3. \A i \in 1..n : \A t \in Seq(S) : pick[i][t] = next(i, t)
  BY DEF Picking
<1>4. pick \in [1..n -> [Seq(S) -> Seq(S)]]
  <2> HIDE DEF next
  <2>1. pick = [i \in 1..n |-> [t \in Seq(S) |-> next(i, t)]]
    BY DEF next, Picking
  <2> HIDE DEF pick
  <2> QED  BY <1>2, <2>1
<1>5. <<>> \in Seq(S)
  BY EmptySeq
<1>6. PICK f \in [0..n -> Seq(S)] : Recurses(f, <<>>, pick, n)
  <2> HIDE DEF pick, n
  <2> QED  BY <1>1, <1>4, <1>5, RecursionExists
<1> HIDE DEF pick
<1>7. ASSUME NEW i \in 1..n PROVE f[i] = next(i, f[i - 1])
  <2>1. i - 1 \in 0..n
    BY <1>1
  <2>2. f[i - 1] \in Seq(S)
    BY <2>1, <1>6
  <2>3. f[i] = pick[i][f[i - 1]]
    BY <1>6 DEF Recurses
  <2> HIDE DEF next
  <2> QED  BY <2>2, <2>3, <1>3
<1>8. Picks(f, caps, which)
  <2>1. ASSUME NEW i \in 0..n PROVE f[i] = IF i = 0 THEN <<>> ELSE next(i, f[i - 1])
    <3>1. i # 0 => i \in 1..n
      BY <1>1
    <3> HIDE DEF next
    <3> QED  BY <3>1, <1>6, <1>7 DEF Recurses
  <2>2. f = [i \in 0..n |-> f[i]]
    BY <1>6
  <2> HIDE DEF next, n
  <2>3. f = [i \in 0..n |-> IF i = 0 THEN <<>> ELSE next(i, f[i - 1])]
    BY <2>1, <2>2
  <2> QED  BY <2>3 DEF Picks, next, n
<1> DEFINE c == CHOOSE g : Picks(g, caps, which)
<1>9. Picks(c, caps, which)
  BY <1>8, Zenon
<1>10. Picked(caps, which) = c[n]
  BY DEF Picked, Picks
<1> HIDE DEF c
<1>11. c = [i \in 0..n |-> IF i = 0 THEN <<>> ELSE next(i, c[i - 1])]
  BY <1>9 DEF Picks
<1>12. c[0] = <<>> /\ \A i \in 1..n : c[i] = next(i, c[i - 1])
  <2>1. 0 \in 0..n /\ \A i \in 1..n : i \in 0..n /\ i # 0
    BY <1>1
  <2> HIDE DEF n, next
  <2> QED  BY <1>11, <2>1
<1> DEFINE Bad == {i \in 0..n : c[i] # f[i]}
<1>13. ASSUME Bad # {} PROVE FALSE
  <2>1. PICK m \in Bad : \A k \in Bad : m <= k
    <3>1. Bad \subseteq Nat
      BY <1>1
    <3> QED  BY <1>13, <3>1, LeastNat
  <2>2. m \in 0..n /\ m # 0
    BY <1>6, <1>12 DEF Recurses
  <2>3. m \in 1..n /\ m - 1 \in 0..n /\ ~ (m <= m - 1)
    BY <2>2, <1>1
  <2>4. m - 1 \notin Bad
    <3> HIDE DEF Bad
    <3> QED  BY <2>1, <2>3
  <2>5. c[m - 1] = f[m - 1]
    BY <2>3, <2>4
  <2> HIDE DEF next
  <2> QED  BY <2>3, <2>5, <1>7, <1>12
<1>14. c[n] = f[n]
  BY <1>1, <1>13
<1> QED  BY <1>6, <1>10, <1>14 DEF pick

\* One more capture is picked or not.
LEMMA PickedGrows ==
    ASSUME NEW S, NEW caps \in Seq(S), NEW x \in S, NEW w1, NEW w2,
           \A i \in 1..Len(caps) : i \in w1 <=> i \in w2
    PROVE  /\ Picked(caps, w1) \in Seq(S)
           /\ Picked(Append(caps, x), w2)
                = IF Len(caps) + 1 \in w2 THEN Append(Picked(caps, w1), x) ELSE Picked(caps, w1)
<1> DEFINE n == Len(caps)
           more == Append(caps, x)
<1>1. n \in Nat
  BY LenProperties
<1>2. /\ more \in Seq(S) /\ Len(more) = n + 1 /\ more[n + 1] = x
      /\ \A i \in 1..n : more[i] = caps[i]
  BY AppendProperties
<1>3. PICK f \in [0..n -> Seq(S)] :
         /\ Recurses(f, <<>>, Picking(S, caps, w1), n)
         /\ Picked(caps, w1) = f[n]
  BY PickedIs
<1> HIDE DEF more
<1>4. PICK g \in [0..(n + 1) -> Seq(S)] :
         /\ Recurses(g, <<>>, Picking(S, more, w2), n + 1)
         /\ Picked(more, w2) = g[n + 1]
  <2>1. \E g \in [0..Len(more) -> Seq(S)] :
           /\ Recurses(g, <<>>, Picking(S, more, w2), Len(more))
           /\ Picked(more, w2) = g[Len(more)]
    BY <1>2, PickedIs
  <2>2. Len(more) = n + 1
    BY <1>2
  <2> HIDE DEF n
  <2> QED  BY <2>1, <2>2
<1>5. ASSUME NEW i \in 1..n
      PROVE  f[i] = IF i \in w1 THEN Append(f[i - 1], caps[i]) ELSE f[i - 1]
  <2>1. i - 1 \in 0..n
    BY <1>1
  <2>2. f[i - 1] \in Seq(S)
    BY <2>1, <1>3
  <2>3. f[i] = Picking(S, caps, w1)[i][f[i - 1]]
    BY <1>3 DEF Recurses
  <2> QED  BY <2>2, <2>3 DEF Picking
<1>6. ASSUME NEW i \in 1..(n + 1)
      PROVE  g[i] = IF i \in w2 THEN Append(g[i - 1], more[i]) ELSE g[i - 1]
  <2>1. i - 1 \in 0..(n + 1) /\ i \in 1..Len(more)
    BY <1>1, <1>2
  <2>2. g[i - 1] \in Seq(S)
    BY <2>1, <1>4
  <2>3. g[i] = Picking(S, more, w2)[i][g[i - 1]]
    BY <1>4 DEF Recurses
  <2> QED  BY <2>1, <2>2, <2>3 DEF Picking
<1> DEFINE Bad == {i \in 0..n : f[i] # g[i]}
<1>7. ASSUME Bad # {} PROVE FALSE
  <2>1. PICK m \in Bad : \A k \in Bad : m <= k
    <3>1. Bad \subseteq Nat
      BY <1>1
    <3> QED  BY <1>7, <3>1, LeastNat
  <2>2. m \in 0..n /\ m # 0
    BY <1>3, <1>4 DEF Recurses
  <2>3. m \in 1..n /\ m \in 1..(n + 1) /\ m - 1 \in 0..n /\ ~ (m <= m - 1)
    BY <2>2, <1>1
  <2>4. m - 1 \notin Bad
    <3> HIDE DEF Bad
    <3> QED  BY <2>1, <2>3
  <2>5. f[m - 1] = g[m - 1] /\ more[m] = caps[m] /\ (m \in w1 <=> m \in w2)
    BY <2>3, <2>4, <1>2
  <2>6. f[m] = g[m]
    BY <2>3, <2>5, <1>5, <1>6
  <2> QED  BY <2>6
<1>8. f[n] = g[n] /\ f[n] \in Seq(S)
  BY <1>1, <1>3, <1>7
<1>9. g[n + 1] = IF n + 1 \in w2 THEN Append(g[n], x) ELSE g[n]
  <2>1. n + 1 \in 1..(n + 1) /\ n + 1 - 1 = n
    BY <1>1
  <2> QED  BY <2>1, <1>2, <1>6
<1> QED  BY <1>3, <1>4, <1>8, <1>9 DEF more

LEMMA PickedNone ==
    ASSUME NEW which
    PROVE  Picked(<<>>, which) = <<>>
<1>1. <<>> \in Seq(ACapture) /\ Len(<<>>) = 0
  BY EmptySeq
<1>2. PICK f : /\ Recurses(f, <<>>, Picking(ACapture, <<>>, which), Len(<<>>))
               /\ Picked(<<>>, which) = f[Len(<<>>)]
  BY <1>1, PickedIs
<1> QED  BY <1>1, <1>2 DEF Recurses

\* A capture joins those of its probe, and those the epoch checked if it is one.
LEMMA SeenGrows ==
    ASSUME ETyped, NEW c \in ACapture, captured' = Append(captured, c), NEW p
    PROVE  /\ SeenBy(p) \in Seq(ACapture)
           /\ SeenBy(p)' = IF c.probe = p THEN Append(SeenBy(p), c) ELSE SeenBy(p)
<1> DEFINE w1 == {i \in DOMAIN captured : captured[i].probe = p}
           w2 == {i \in DOMAIN captured' : captured'[i].probe = p}
           n == Len(captured)
<1>1. /\ captured \in Seq(ACapture) /\ n \in Nat /\ DOMAIN captured = 1..n
      /\ DOMAIN captured' = 1..(n + 1) /\ captured'[n + 1] = c
      /\ \A i \in 1..n : captured'[i] = captured[i]
  BY AppendProperties, LenProperties DEF ETyped
<1>2. \A i \in 1..n : i \in w1 <=> i \in w2
  BY <1>1
<1>3. n + 1 \in w2 <=> c.probe = p
  BY <1>1
<1> HIDE DEF w1, w2
<1>4. /\ Picked(captured, w1) \in Seq(ACapture)
      /\ Picked(Append(captured, c), w2)
           = IF n + 1 \in w2 THEN Append(Picked(captured, w1), c) ELSE Picked(captured, w1)
  BY <1>1, <1>2, PickedGrows
<1>5. SeenBy(p) = Picked(captured, w1) /\ SeenBy(p)' = Picked(captured', w2)
  BY DEF SeenBy, w1, w2
<1> QED  BY <1>3, <1>4, <1>5

LEMMA CheckedGrows ==
    ASSUME ETyped, NEW c \in ACapture, captured' = Append(captured, c)
    PROVE  /\ Checked \in Seq(ACapture)
           /\ Checked' = IF c.by = "epoch" THEN Append(Checked, c) ELSE Checked
<1> DEFINE w1 == {i \in DOMAIN captured : captured[i].by = "epoch"}
           w2 == {i \in DOMAIN captured' : captured'[i].by = "epoch"}
           n == Len(captured)
<1>1. /\ captured \in Seq(ACapture) /\ n \in Nat /\ DOMAIN captured = 1..n
      /\ DOMAIN captured' = 1..(n + 1) /\ captured'[n + 1] = c
      /\ \A i \in 1..n : captured'[i] = captured[i]
  BY AppendProperties, LenProperties DEF ETyped
<1>2. \A i \in 1..n : i \in w1 <=> i \in w2
  BY <1>1
<1>3. n + 1 \in w2 <=> c.by = "epoch"
  BY <1>1
<1> HIDE DEF w1, w2
<1>4. /\ Picked(captured, w1) \in Seq(ACapture)
      /\ Picked(Append(captured, c), w2)
           = IF n + 1 \in w2 THEN Append(Picked(captured, w1), c) ELSE Picked(captured, w1)
  BY <1>1, <1>2, PickedGrows
<1>5. Checked = Picked(captured, w1) /\ Checked' = Picked(captured', w2)
  BY DEF Checked, w1, w2
<1> QED  BY <1>3, <1>4, <1>5

-----------------------------------------------------------------------------
(* Epoch: what a probe says of the scores it captured *)

Score(s, i) == s[i].snapshot.governance

TurnsOf(s) == {i \in 3..Len(s) : Turns(Score(s, i - 2), Score(s, i - 1), Score(s, i))}

\* The captures the hysteresis is taken over.
Compared(s) == Least(Len(s), HysteresisMax + 1)

FollowsLast(q, s) ==
    IF s = <<>> THEN q.last = NoScore /\ q.prev = NoScore
    ELSE /\ q.last = Score(s, Len(s))
         /\ q.prev = IF Len(s) = 1 THEN NoScore ELSE Score(s, Len(s) - 1)

FollowsTurns(q, s) == q.oscillations = Cardinality(TurnsOf(s))

FollowsHysteresis(q, s) ==
    IF s = <<>> THEN q.improvement = 0 /\ q.degradation = 0 /\ q.compared = 0
    ELSE /\ q.compared = Compared(s) - 1
         /\ q.improvement - q.degradation = Score(s, Compared(s)) - Score(s, 1)

Follows(q, s) == FollowsLast(q, s) /\ FollowsTurns(q, s) /\ FollowsHysteresis(q, s)

LEMMA ScoresAre ==
    ASSUME NEW s \in Seq(ACapture)
    PROVE  Len(s) \in Nat /\ \A i \in 1..Len(s) : Score(s, i) \in Nat
<1>1. Len(s) \in Nat /\ \A i \in 1..Len(s) : s[i] \in ACapture
  BY LenProperties, ElementOfSeq
<1>2. \A c \in ACapture : c.snapshot.governance \in Nat
  BY DEF ACapture, ASnapshot
<1> QED  BY <1>1, <1>2 DEF Score

\* One capture more changes the direction once more, or not.
LEMMA TurnsGrow ==
    ASSUME NEW s \in Seq(ACapture), NEW t \in Seq(ACapture), NEW n \in Nat,
           Len(s) = n, Len(t) = n + 1,
           \A i \in 1..n : Score(t, i) = Score(s, i)
    PROVE  /\ Cardinality(TurnsOf(s)) \in Nat
           /\ Cardinality(TurnsOf(t)) = Cardinality(TurnsOf(s))
                + (IF n + 1 >= 3 /\ Turns(Score(t, n + 1 - 2), Score(t, n + 1 - 1), Score(t, n + 1))
                   THEN 1 ELSE 0)
<1>1. n \in Nat
  OBVIOUS
<1>2. IsFiniteSet(TurnsOf(s)) /\ TurnsOf(s) \subseteq 3..n
  <2>1. IsFiniteSet(3..n) /\ TurnsOf(s) \in SUBSET (3..n)
    BY <1>1, FS_Interval DEF TurnsOf
  <2> QED  BY <2>1, FS_Subset
<1>3. Cardinality(TurnsOf(s)) \in Nat
  BY <1>2, FS_CardinalityType
<1>4. \A i \in 3..n : Score(t, i) = Score(s, i) /\ Score(t, i - 1) = Score(s, i - 1)
                      /\ Score(t, i - 2) = Score(s, i - 2)
  BY <1>1
<1>5. CASE n + 1 >= 3 /\ Turns(Score(t, n + 1 - 2), Score(t, n + 1 - 1), Score(t, n + 1))
  <2>1. TurnsOf(t) = TurnsOf(s) \cup {n + 1}
    BY <1>1, <1>4, <1>5 DEF TurnsOf
  <2>2. n + 1 \notin TurnsOf(s)
    BY <1>1, <1>2
  <2>3. Cardinality(TurnsOf(s) \cup {n + 1}) = Cardinality(TurnsOf(s)) + 1
    BY <1>2, <2>2, FS_AddElement
  <2> QED  BY <1>3, <1>5, <2>1, <2>3
<1>6. CASE ~ (n + 1 >= 3 /\ Turns(Score(t, n + 1 - 2), Score(t, n + 1 - 1), Score(t, n + 1)))
  <2>1. TurnsOf(t) = TurnsOf(s)
    BY <1>1, <1>4, <1>6 DEF TurnsOf
  <2> QED  BY <1>3, <1>6, <2>1
<1> QED  BY <1>5, <1>6

\* A probe that follows the scores follows them when it captures one more.
LEMMA FollowsOn ==
    ASSUME NEW q \in AProbe, NEW s \in Seq(ACapture), NEW c \in ACapture, Follows(q, s),
           NEW o \in AProbe, Observes(q, c.snapshot.governance, o)
    PROVE  Follows(o, Append(s, c))
<1> DEFINE n == Len(s)
           t == Append(s, c)
           v == c.snapshot.governance
<1>1. /\ t \in Seq(ACapture) /\ t # <<>> /\ Len(t) = n + 1 /\ n \in Nat
      /\ \A i \in 1..n : Score(t, i) = Score(s, i) /\ Score(s, i) \in Nat
      /\ Score(t, n + 1) = v /\ v \in Nat
  <2>1. /\ t \in Seq(ACapture) /\ t # <<>> /\ Len(t) = n + 1 /\ n \in Nat
        /\ \A i \in 1..n : t[i] = s[i]
        /\ t[n + 1] = c
    BY AppendProperties, LenProperties
  <2>2. v \in Nat
    BY DEF ACapture, ASnapshot
  <2> QED  BY <2>1, <2>2, ScoresAre DEF Score
<1>2. /\ Cardinality(TurnsOf(s)) \in Nat
      /\ Cardinality(TurnsOf(t)) = Cardinality(TurnsOf(s))
           + (IF n + 1 >= 3 /\ Turns(Score(t, n + 1 - 2), Score(t, n + 1 - 1), Score(t, n + 1))
              THEN 1 ELSE 0)
  <2>1. Len(s) = n /\ Len(t) = n + 1 /\ \A i \in 1..n : Score(t, i) = Score(s, i)
    BY <1>1
  <2>2. t \in Seq(ACapture) /\ s \in Seq(ACapture) /\ n \in Nat
    BY <1>1
  <2> HIDE DEF t, n
  <2> QED  BY <2>1, <2>2, TurnsGrow
<1>3. n + 1 - 1 = n /\ n + 1 - 2 = n - 1
  BY <1>1
<1>4. n >= 1 <=> s # <<>>
  BY <1>1
<1> HIDE DEF t, n, v
<1>5. FollowsLast(o, t)
  <2>1. o.last = v /\ o.prev = q.last
    BY DEF Observes, v
  <2>2. q.last = (IF s = <<>> THEN NoScore ELSE Score(s, n))
    BY DEF Follows, FollowsLast, n
  <2>3. n >= 1 => Score(t, n) = Score(s, n)
    BY <1>1
  <2>4. s = <<>> <=> n + 1 = 1
    BY <1>1, <1>4
  <2> QED  BY <1>1, <1>3, <1>4, <2>1, <2>2, <2>3, <2>4 DEF FollowsLast
<1>6. FollowsTurns(o, t)
  <2>1. o.oscillations = q.oscillations + (IF /\ q.prev # NoScore /\ q.last # NoScore
                                              /\ Turns(q.prev, q.last, v) THEN 1 ELSE 0)
    BY DEF Observes, v
  <2>2. q.oscillations = Cardinality(TurnsOf(s))
    BY DEF Follows, FollowsTurns
  <2>3. CASE n >= 2
    <3>1. n \in 1..n /\ n - 1 \in 1..n
      BY <2>3, <1>1
    <3>2. q.last = Score(t, n) /\ q.prev = Score(t, n - 1)
      <4>1. s # <<>> /\ n # 1
        BY <2>3, <1>1, <1>4
      <4>2. q.last = Score(s, n) /\ q.prev = Score(s, n - 1)
        BY <4>1 DEF Follows, FollowsLast, n
      <4>3. Score(t, n) = Score(s, n) /\ Score(t, n - 1) = Score(s, n - 1)
        BY <3>1, <1>1
      <4> QED  BY <4>2, <4>3
    <3>3. q.last # NoScore /\ q.prev # NoScore
      BY <3>1, <3>2, <1>1 DEF NoScore
    <3>4. n + 1 >= 3
      BY <2>3, <1>1
    <3> QED  BY <2>1, <2>2, <3>2, <3>3, <3>4, <1>1, <1>2, <1>3 DEF FollowsTurns
  <2>4. CASE ~ (n >= 2)
    <3>1. q.prev = NoScore
      <4>1. s = <<>> \/ n = 1
        BY <2>4, <1>1, <1>4
      <4> QED  BY <4>1 DEF Follows, FollowsLast, n
    <3>2. ~ (n + 1 >= 3)
      BY <2>4, <1>1
    <3> QED  BY <2>1, <2>2, <3>1, <3>2, <1>2 DEF FollowsTurns
  <2> QED  BY <2>3, <2>4
<1>7. FollowsHysteresis(o, t)
  <2>1. IF q.last = NoScore \/ q.compared >= HysteresisMax
        THEN o.improvement = q.improvement /\ o.degradation = q.degradation /\ o.compared = q.compared
        ELSE /\ o.improvement - o.degradation = (q.improvement - q.degradation) + (v - q.last)
             /\ o.compared = q.compared + 1
    BY DEF Observes, v
  <2>2. Compared(t) = Least(n + 1, HysteresisMax + 1)
    BY <1>1 DEF Compared
  <2>3. HysteresisMax \in Nat \ {0}
    BY Sizes
  <2>4. q.improvement \in Nat /\ q.degradation \in Nat /\ o.improvement \in Nat /\ o.degradation \in Nat
    BY DEF AProbe
  <2>5. CASE s = <<>>
    <3>1. Compared(t) = 1 /\ n = 0
      BY <2>2, <2>3, <2>5, <1>1, <1>4 DEF Least
    <3>2. q.last = NoScore /\ q.improvement = 0 /\ q.degradation = 0 /\ q.compared = 0
      BY <2>5 DEF Follows, FollowsLast, FollowsHysteresis
    <3>3. Score(t, 1) \in Nat
      BY <3>1, <1>1
    <3> QED  BY <2>1, <3>1, <3>2, <3>3, <1>1 DEF FollowsHysteresis
  <2>6. CASE s # <<>>
    <3>1. /\ q.last = Score(s, n)
          /\ q.compared = Compared(s) - 1
          /\ q.improvement - q.degradation = Score(s, Compared(s)) - Score(s, 1)
          /\ Compared(s) = Least(n, HysteresisMax + 1)
      BY <2>6 DEF Follows, FollowsLast, FollowsHysteresis, Compared, n
    <3>2. n >= 1 /\ n \in 1..n /\ 1 \in 1..n
      BY <2>6, <1>1, <1>4
    <3>3. q.last \in Nat /\ q.last # NoScore /\ Score(s, 1) \in Nat /\ Score(t, 1) = Score(s, 1)
      BY <3>1, <3>2, <1>1 DEF NoScore
    <3>4. CASE n >= HysteresisMax + 1
      <4>1. Compared(s) = HysteresisMax + 1 /\ Compared(t) = HysteresisMax + 1
        BY <3>1, <3>4, <2>2, <2>3, <1>1 DEF Least
      <4>2. HysteresisMax + 1 \in 1..n
        BY <3>4, <2>3, <1>1
      <4>3. Score(t, HysteresisMax + 1) = Score(s, HysteresisMax + 1)
        BY <4>2, <1>1
      <4>4. q.compared >= HysteresisMax
        BY <3>1, <4>1, <2>3
      <4> QED  BY <2>1, <3>1, <3>3, <4>1, <4>3, <4>4, <1>1 DEF FollowsHysteresis
    <3>5. CASE ~ (n >= HysteresisMax + 1)
      <4>1. Compared(s) = n /\ Compared(t) = n + 1
        BY <3>1, <3>5, <2>2, <2>3, <1>1 DEF Least
      <4>2. ~ (q.compared >= HysteresisMax)
        BY <3>1, <3>5, <4>1, <2>3, <1>1
      <4>3. o.improvement - o.degradation = (q.improvement - q.degradation) + (v - q.last)
            /\ o.compared = q.compared + 1
        BY <2>1, <3>3, <4>2
      <4>4. o.compared = Compared(t) - 1
        BY <3>1, <4>1, <4>3, <1>1
      <4>5. o.improvement - o.degradation = v - Score(s, 1)
        BY <3>1, <3>3, <4>1, <4>3, <2>4, <1>1
      <4> QED  BY <3>3, <4>1, <4>4, <4>5, <1>1 DEF FollowsHysteresis
    <3> QED  BY <3>4, <3>5
  <2> QED  BY <2>5, <2>6
<1> QED  BY <1>5, <1>6, <1>7 DEF Follows, t

PInv == ETyped /\ \A p \in Probe : SeenBy(p) \in Seq(ACapture) /\ Follows(probes[p], SeenBy(p))

LEMMA InitPInv == EInit => PInv
<1> SUFFICES ASSUME EInit PROVE PInv
  OBVIOUS
<1>1. ETyped
  <2>1. NewProbe \in AProbe
    BY DEF NewProbe, AProbe
  <2>2. <<>> \in Seq(ACapture)
    BY EmptySeq
  <2> QED  BY <2>1, <2>2 DEF EInit, ETyped, Probe
<1>2. <<>> \in Seq(ACapture)
  BY EmptySeq
<1>3. Follows(NewProbe, <<>>)
  <2>1. TurnsOf(<<>>) = {}
    <3>1. Len(<<>>) = 0
      OBVIOUS
    <3> QED  BY <3>1 DEF TurnsOf
  <2>2. Cardinality({}) = 0
    BY FS_EmptySet
  <2> QED  BY <2>1, <2>2 DEF Follows, FollowsLast, FollowsTurns, FollowsHysteresis, NewProbe
<1>4. \A p \in Probe : SeenBy(p) = <<>>
  BY PickedNone DEF EInit, SeenBy
<1>5. \A p \in Probe : probes[p] = NewProbe
  BY DEF EInit, Probe
<1> QED  BY <1>1, <1>2, <1>3, <1>4, <1>5 DEF PInv

LEMMA NextPInv == PInv /\ [ENext]_evars => PInv'
<1> SUFFICES ASSUME PInv, [ENext]_evars PROVE PInv'
  OBVIOUS
<1>1. ETyped /\ ETyped' /\ Step
  BY EpochStep DEF PInv
<1>2. ASSUME UNCHANGED captured PROVE \A p \in Probe : SeenBy(p)' = SeenBy(p)
  BY <1>2 DEF SeenBy
<1>3. CASE Quiet
  BY <1>1, <1>2, <1>3 DEF PInv, Quiet
<1>4. ASSUME NEW p \in Probe, Skips(p) PROVE PInv'
  <2>1. Follows(Called(probes[p]), SeenBy(p))
    <3>1. probes[p] \in AProbe
      BY <1>1 DEF ETyped
    <3> DEFINE q == Called(probes[p])
    <3>2. /\ q.last = probes[p].last /\ q.prev = probes[p].prev
          /\ q.oscillations = probes[p].oscillations
          /\ q.improvement = probes[p].improvement /\ q.degradation = probes[p].degradation
          /\ q.compared = probes[p].compared
      BY <3>1 DEF Called, AProbe
    <3>3. Follows(probes[p], SeenBy(p))
      BY DEF PInv
    <3> HIDE DEF q
    <3>4. Follows(q, SeenBy(p))
      BY <3>2, <3>3 DEF Follows, FollowsLast, FollowsTurns, FollowsHysteresis
    <3> QED  BY <3>4 DEF q
  <2>2. \A r \in Probe : probes'[r] = IF r = p THEN Called(probes[p]) ELSE probes[r]
    BY <1>1, <1>4 DEF Skips, ETyped
  <2>3. \A r \in Probe : SeenBy(r)' = SeenBy(r)
    BY <1>2, <1>4 DEF Skips
  <2> QED  BY <1>1, <2>1, <2>2, <2>3 DEF PInv
<1>5. ASSUME NEW p \in Probe, NEW by \in Caller, NEW x \in ASnapshot, Takes(p, by, x)
      PROVE  PInv'
  <2> DEFINE c == [snapshot |-> x, probe |-> p, by |-> by]
             q == probes[p]
             o == Observe(Called(q), x.governance)
  <2>1. c \in ACapture /\ c.snapshot = x /\ c.probe = p
    BY DEF ACapture
  <2>2. captured' = Append(captured, c)
    BY <1>5 DEF Takes
  <2>3. q \in AProbe /\ x.governance \in Nat
    BY <1>1 DEF ETyped, ASnapshot
  <2>4. \A r \in Probe : probes'[r] = IF r = p THEN o ELSE probes[r]
    BY <1>1, <1>5 DEF Takes, ETyped
  <2>5. o \in AProbe /\ Observes(q, x.governance, o)
    BY <2>3, ObserveIs
  <2> HIDE DEF c, q, o
  <2>6. \A r \in Probe : SeenBy(r)' = IF r = p THEN Append(SeenBy(r), c) ELSE SeenBy(r)
    BY <1>1, <2>1, <2>2, SeenGrows
  <2>7. Follows(o, Append(SeenBy(p), c))
    <3>1. SeenBy(p) \in Seq(ACapture) /\ Follows(q, SeenBy(p))
      BY DEF PInv, q
    <3>2. Observes(q, c.snapshot.governance, o)
      BY <2>1, <2>5
    <3> QED  BY <2>1, <2>3, <2>5, <3>1, <3>2, FollowsOn
  <2>8. \A r \in Probe : SeenBy(r)' \in Seq(ACapture)
    BY <2>1, <2>6, AppendProperties DEF PInv
  <2>9. \A r \in Probe : Follows(probes'[r], SeenBy(r)')
    BY <2>4, <2>6, <2>7 DEF PInv
  <2> QED  BY <1>1, <2>8, <2>9 DEF PInv
<1> QED  BY <1>1, <1>3, <1>4, <1>5 DEF Step, CallsProbe

\* Each probe knows the last two scores it captured, how often their direction
\* has changed and how far the compared ones have moved.
THEOREM ProbeInvariance == ESpec => []PInv
  BY InitPInv, NextPInv, PTL DEF ESpec

\* What a probe reports is what the scores it captured say, whichever of the
\* runtimes it is handed to and whoever asks for the capture.
THEOREM ProbesFollowScores == ESpec => []ProbeFollowsScores
<1>1. PInv => ProbeFollowsScores
  <2> SUFFICES ASSUME PInv, NEW p \in Probe
               PROVE  LET seen == SeenBy(p)
                          g(i) == seen[i].snapshot.governance
                          last == Min({Len(seen), HysteresisMax + 1})
                      IN  /\ probes[p].oscillations =
                                Cardinality({i \in 3..Len(seen) :
                                               (g(i - 1) - g(i - 2)) * (g(i) - g(i - 1)) < 0})
                          /\ Len(seen) > 1
                                => Hysteresis(probes[p]) = Max({g(last) - g(1), g(1) - g(last)})
    <3>1. ASSUME PInv PROVE DOMAIN probes = Probe
      <4>1. probes \in [Probe -> AProbe]
        BY <3>1 DEF PInv, ETyped
      <4> QED  BY <4>1
    <3> QED  BY <3>1 DEF ProbeFollowsScores
  <2> DEFINE s == SeenBy(p)
             q == probes[p]
             last == Min({Len(s), HysteresisMax + 1})
  <2>1. s \in Seq(ACapture) /\ Follows(q, s) /\ q \in AProbe
    BY DEF PInv, ETyped
  <2>2. Len(s) \in Nat /\ \A i \in 1..Len(s) : Score(s, i) \in Nat
    BY <2>1, ScoresAre
  <2> HIDE DEF s, q
  <2>3. last = Compared(s)
    BY <2>2, MinOfTwo, Sizes DEF Compared
  <2>4. q.oscillations =
          Cardinality({i \in 3..Len(s) :
            (s[i - 1].snapshot.governance - s[i - 2].snapshot.governance)
              * (s[i].snapshot.governance - s[i - 1].snapshot.governance) < 0})
    BY <2>1 DEF Follows, FollowsTurns, TurnsOf, Turns, Score
  <2>5. ASSUME Len(s) > 1
        PROVE  Hysteresis(q) = Max({Score(s, last) - Score(s, 1), Score(s, 1) - Score(s, last)})
    <3>1. s # <<>> /\ Compared(s) \in 1..Len(s) /\ 1 \in 1..Len(s)
      BY <2>2, <2>5, Sizes DEF Compared, Least
    <3>2. q.improvement - q.degradation = Score(s, last) - Score(s, 1)
      BY <2>1, <2>3, <3>1 DEF Follows, FollowsHysteresis
    <3>3. q.improvement \in Nat /\ q.degradation \in Nat
      BY <2>1 DEF AProbe
    <3>4. Score(s, last) \in Nat /\ Score(s, 1) \in Nat
      BY <2>2, <2>3, <3>1
    <3>5. q.degradation - q.improvement = Score(s, 1) - Score(s, last)
      BY <3>2, <3>3, <3>4
    <3> QED  BY <3>2, <3>5 DEF Hysteresis
  <2> QED  BY <2>4, <2>5 DEF s, q, Score
<1> QED  BY <1>1, ProbeInvariance, PTL

-----------------------------------------------------------------------------
(* Epoch: where an epoch is in its plan *)

LEMMA PlanIs ==
    ASSUME chaos \in BOOLEAN
    PROVE  /\ Plan \in Seq(Phase) /\ Len(Plan) \in {6, 8}
           /\ \A i \in 1..Len(Plan) :
                 Plan[i] \in {"RECOVERY_BOOT", "REPLAY_VALIDATION"} <=> i > Len(Plan) - 2
           /\ \A i \in 2..Len(Plan) : Plan[i] \in PHASE_TRANSITIONS[Plan[i - 1]]
<1> DEFINE begin == <<"WARMUP", "STABILIZATION">>
           chaotic == IF chaos THEN <<"CHAOS", "RECOVERY">> ELSE <<>>
           end == <<"OBSERVATION", "SHUTDOWN", "RECOVERY_BOOT", "REPLAY_VALIDATION">>
           k == Len(chaotic)
<1>1. /\ begin \in Seq(Phase) /\ Len(begin) = 2
      /\ begin[1] = "WARMUP" /\ begin[2] = "STABILIZATION"
  BY DEF Phase
<1>2. /\ end \in Seq(Phase) /\ Len(end) = 4
      /\ end[1] = "OBSERVATION" /\ end[2] = "SHUTDOWN"
      /\ end[3] = "RECOVERY_BOOT" /\ end[4] = "REPLAY_VALIDATION"
  BY DEF Phase
<1>3. /\ chaotic \in Seq(Phase)
      /\ \/ k = 0
         \/ k = 2 /\ chaotic[1] = "CHAOS" /\ chaotic[2] = "RECOVERY"
  <2>1. <<"CHAOS", "RECOVERY">> \in Seq(Phase) /\ <<>> \in Seq(Phase)
    BY EmptySeq DEF Phase
  <2> QED  BY <2>1
<1>4. Plan = begin \o chaotic \o end
  BY DEF Plan
<1> HIDE DEF begin, chaotic, end, k
<1>5. /\ begin \o chaotic \in Seq(Phase) /\ Len(begin \o chaotic) = 2 + k
      /\ \A i \in 1..2 : (begin \o chaotic)[i] = begin[i]
      /\ \A i \in 1..k : (begin \o chaotic)[2 + i] = chaotic[i]
  BY <1>1, <1>3, ConcatProperties DEF k
<1>6. /\ Plan \in Seq(Phase) /\ Len(Plan) = 2 + k + 4
      /\ \A i \in 1..(2 + k) : Plan[i] = (begin \o chaotic)[i]
      /\ \A i \in 1..4 : Plan[2 + k + i] = end[i]
  <2>1. k \in Nat
    BY <1>3
  <2> DEFINE both == begin \o chaotic
  <2>2. both \in Seq(Phase) /\ Len(both) = 2 + k
    BY <1>5
  <2> HIDE DEF both
  <2>3. /\ both \o end \in Seq(Phase) /\ Len(both \o end) = Len(both) + Len(end)
        /\ \A i \in 1..(Len(both) + Len(end)) :
              (both \o end)[i] = IF i <= Len(both) THEN both[i] ELSE end[i - Len(both)]
    BY <1>2, <2>2, ConcatProperties
  <2>4. /\ both \o end \in Seq(Phase) /\ Len(both \o end) = 2 + k + 4
        /\ \A i \in 1..(2 + k + 4) :
              (both \o end)[i] = IF i <= 2 + k THEN both[i] ELSE end[i - (2 + k)]
    BY <1>2, <2>2, <2>3
  <2>5. ASSUME NEW i \in 1..4 PROVE (both \o end)[2 + k + i] = end[i]
    <3>1. /\ 2 + k + i \in 1..(2 + k + 4) /\ ~ (2 + k + i <= 2 + k)
          /\ (2 + k + i) - (2 + k) = i
      BY <2>1
    <3> QED  BY <2>4, <3>1
  <2>6. \A i \in 1..(2 + k) : (both \o end)[i] = both[i]
    BY <2>1, <2>4
  <2> QED  BY <1>4, <2>4, <2>5, <2>6 DEF both

<1>7. Plan[1] = "WARMUP" /\ Plan[2] = "STABILIZATION"
  BY <1>1, <1>3, <1>5, <1>6
<1>8. CASE k = 0
  <2>1. /\ Plan[3] = "OBSERVATION" /\ Plan[4] = "SHUTDOWN"
        /\ Plan[5] = "RECOVERY_BOOT" /\ Plan[6] = "REPLAY_VALIDATION"
    BY <1>2, <1>6, <1>8
  <2> QED  BY <1>6, <1>7, <1>8, <2>1 DEF PHASE_TRANSITIONS
<1>9. CASE k = 2 /\ chaotic[1] = "CHAOS" /\ chaotic[2] = "RECOVERY"
  <2>1. Plan[3] = "CHAOS" /\ Plan[4] = "RECOVERY"
    BY <1>5, <1>6, <1>9
  <2>2. /\ Plan[5] = "OBSERVATION" /\ Plan[6] = "SHUTDOWN"
        /\ Plan[7] = "RECOVERY_BOOT" /\ Plan[8] = "REPLAY_VALIDATION"
    BY <1>2, <1>6, <1>9
  <2> QED  BY <1>6, <1>7, <1>9, <2>1, <2>2 DEF PHASE_TRANSITIONS
<1> QED  BY <1>3, <1>8, <1>9

LEMMA LengthIs ==
    ASSUME NEW p \in Phase
    PROVE  Length(p) \in Nat
<1>1. Limit[p] \in Nat /\ BootMax \in Nat /\ ReplayMax \in Nat
  BY EpochAssumption
<1>2. Min({Limit[p], BootMax}) \in Nat /\ Min({Limit[p], ReplayMax}) \in Nat
  BY <1>1, MinOfTwo DEF Least
<1> QED  BY <1>1, <1>2 DEF Length

\* The cycle the phase before ended on.
Since(i) == IF i = 1 THEN 0 ELSE snapshots[i - 1].cycle

Position ==
    /\ phase \in 1..(Len(Plan) + 1)
    /\ step \in {"phase", "cycle", "second", "capture"}
    /\ snapshots \in Seq([phase : Phase, cycle : Nat]) /\ Len(snapshots) = phase - 1
    /\ step # "phase" => phase <= Len(Plan)
    /\ step = "capture" => phase <= Len(Plan) - 2
    /\ \A i \in 1..(phase - 1) : snapshots[i].phase = Plan[i]

OnTime ==
    /\ \A i \in 1..(phase - 1) : snapshots[i].cycle = Length(Plan[i]) + Since(i)
    /\ cycles = Since(phase) + (IF step = "phase" THEN 0 ELSE ran)
    /\ step # "phase" => ran <= Length(Now)

\* Only what passed is reported so.
Reported == \A r \in report : r.passed => ~aborted /\ phase > Len(Plan)

Placed == Position /\ (~aborted => OnTime) /\ Reported

LEMMA InitPlaced ==
    ASSUME EInit
    PROVE  Placed
<1>1. Plan \in Seq(Phase) /\ Len(Plan) \in {6, 8}
  BY PlanIs DEF EInit
<1>2. <<>> \in Seq([phase : Phase, cycle : Nat]) /\ Len(<<>>) = 0
  BY EmptySeq
<1>3. phase = 1 /\ step = "phase" /\ snapshots = <<>> /\ cycles = 0 /\ report = {}
  BY DEF EInit
<1>4. Position
  BY <1>1, <1>2, <1>3 DEF Position
<1>5. OnTime
  BY <1>3 DEF OnTime, Since
<1> QED  BY <1>3, <1>4, <1>5 DEF Placed, Reported

LEMMA NextPlaced ==
    ASSUME ETyped, Placed, [ENext]_evars
    PROVE  Placed'
<1> DEFINE N == Len(Plan)
<1>1. chaos \in BOOLEAN /\ ran \in Nat /\ cycles \in Nat
  BY DEF ETyped
<1>2. /\ Plan \in Seq(Phase) /\ N \in {6, 8}
      /\ \A i \in 1..N : Plan[i] \in Phase
      /\ \A i \in 1..N : Plan[i] \in {"RECOVERY_BOOT", "REPLAY_VALIDATION"} <=> i > N - 2
  <2>1. Plan \in Seq(Phase)
    BY <1>1, PlanIs
  <2> QED  BY <1>1, <2>1, PlanIs, ElementOfSeq
<1>3. Position /\ (~aborted => OnTime) /\ Reported
  BY DEF Placed
<1>4. /\ phase \in 1..(N + 1) /\ phase \in Nat
      /\ step \in {"phase", "cycle", "second", "capture"}
      /\ snapshots \in Seq([phase : Phase, cycle : Nat]) /\ Len(snapshots) = phase - 1
      /\ step # "phase" => phase <= N
      /\ step = "capture" => phase <= N - 2
  BY <1>2, <1>3 DEF Position
\* The plan and the lengths of its phases stay what they are.
<1>5. ASSUME UNCHANGED config
      PROVE  Plan' = Plan /\ \A p : Length(p)' = Length(p)
  BY <1>5 DEF Plan, Length, config
<1>6. UNCHANGED config
  BY DEF ENext, evars, config, StartPhase, PhaseCycle, SecondNode, EpochCapture, BootCycle,
         ReplayCycle, ReplayPair, EndPhase, Abort, Finish, Crash
<1>7. Plan' = Plan /\ N' = N /\ \A p : Length(p)' = Length(p)
  BY <1>5, <1>6
<1> HIDE DEF N
\* A step that goes on with the phase.
<1>8. ASSUME UNCHANGED <<phase, snapshots, report>>, report = {}, aborted => aborted',
             step' \in {"cycle", "second", "capture"}, phase <= N,
             step' = "capture" => phase <= N - 2,
             OnTime => /\ cycles' = Since(phase) + ran'
                       /\ ran' <= Length(Now)
      PROVE  Placed'
  <2>1. Position'
    BY <1>3, <1>4, <1>7, <1>8 DEF Position, N
  <2>2. \A i \in 1..phase : Since(i)' = Since(i)
    BY <1>8 DEF Since
  <2>3. phase \in 1..phase
    BY <1>4
  <2>4. ~aborted => OnTime'
    <3>1. Now' = Now
      BY <1>7, <1>8 DEF Now
    <3>2. ASSUME NEW i \in 1..(phase - 1), OnTime
          PROVE  snapshots'[i].cycle = Length(Plan[i])' + Since(i)'
      <4>1. i \in 1..phase
        BY <1>4
      <4>2. snapshots[i].cycle = Length(Plan[i]) + Since(i)
        BY <3>2 DEF OnTime
      <4> QED  BY <4>1, <4>2, <2>2, <1>7, <1>8
    <3>3. OnTime => cycles' = Since(phase)' + ran' /\ ran' <= Length(Now)'
      BY <1>7, <1>8, <2>2, <2>3, <3>1
    <3> QED  BY <1>3, <1>7, <1>8, <3>2, <3>3 DEF OnTime
  <2>5. Reported'
    BY <1>8 DEF Reported
  <2> QED  BY <1>8, <2>1, <2>4, <2>5 DEF Placed
<1>9. ASSUME phase <= N
      PROVE  /\ Now \in Phase /\ Length(Now) \in Nat
             /\ Fresh <=> phase > N - 2
  BY <1>2, <1>4, <1>9, LengthIs DEF Now, Fresh
<1>10. Since(phase) \in Nat
  <2>1. CASE phase = 1
    BY <2>1 DEF Since
  <2>2. CASE phase # 1
    <3>1. phase - 1 \in 1..Len(snapshots)
      BY <2>2, <1>4
    <3>2. snapshots[phase - 1] \in [phase : Phase, cycle : Nat]
      BY <3>1, <1>4, ElementOfSeq
    <3> QED  BY <2>2, <3>2 DEF Since
  <2> QED  BY <2>1, <2>2
\* The cycles are counted as they are run.
<1>11. ASSUME Iterates, Counted, OnTime
       PROVE  cycles' = Since(phase) + ran' /\ ran' <= Length(Now)
  <2>1. /\ step = "cycle" /\ ran < Length(Now)
        /\ cycles' = cycles + 1 /\ ran' = ran + 1
        /\ cycles = Since(phase) + ran
    BY <1>11 DEF Iterates, Counted, OnTime
  <2>2. Length(Now) \in Nat
    BY <2>1, <1>4, <1>9
  <2> QED  BY <2>1, <2>2, <1>1, <1>10
<1>12. ASSUME OnTime, step # "phase", UNCHANGED <<cycles, ran>>
       PROVE  cycles' = Since(phase) + ran' /\ ran' <= Length(Now)
  BY <1>12 DEF OnTime
<1>13. CASE StartPhase
  <2>1. /\ UNCHANGED <<phase, snapshots, report, aborted, cycles>> /\ report = {} /\ phase <= N
        /\ step = "phase" /\ step' = "cycle" /\ ran' = 0
    BY <1>13 DEF StartPhase, Running, N
  <2>2. OnTime => cycles' = Since(phase) + ran' /\ ran' <= Length(Now)
    BY <2>1, <1>9, <1>10 DEF OnTime
  <2> QED  BY <2>1, <2>2, <1>8
<1>14. CASE PhaseCycle
  <2>1. /\ UNCHANGED <<phase, snapshots, report, aborted>> /\ report = {} /\ step = "cycle"
        /\ step' \in {"second", "capture"} /\ ~Fresh /\ Iterates /\ Counted
    BY <1>14 DEF PhaseCycle, Iterates, Running
  <2>2. phase <= N - 2
    BY <2>1, <1>2, <1>4, <1>9
  <2> QED  BY <2>1, <2>2, <1>4, <1>8, <1>11
<1>15. CASE SecondNode
  <2>1. /\ UNCHANGED <<phase, snapshots, report, aborted, cycles, ran>> /\ report = {}
        /\ step = "second" /\ step' = "capture" /\ ~Fresh
    BY <1>15 DEF SecondNode, Running
  <2>2. phase <= N - 2
    BY <2>1, <1>2, <1>4, <1>9
  <2> QED  BY <2>1, <2>2, <1>4, <1>8, <1>12
<1>16. CASE EpochCapture
  <2>1. /\ UNCHANGED <<phase, snapshots, report, cycles, ran>> /\ report = {}
        /\ step = "capture" /\ step' = "cycle" /\ (aborted => aborted')
    BY <1>16 DEF EpochCapture, Running
  <2> QED  BY <2>1, <1>4, <1>8, <1>12
<1>17. CASE BootCycle
  <2>1. /\ UNCHANGED <<phase, snapshots, report, aborted, step>> /\ report = {} /\ step = "cycle"
        /\ Iterates /\ Counted
    BY <1>17 DEF BootCycle, Iterates, Running
  <2> QED  BY <2>1, <1>4, <1>8, <1>11
<1>18. CASE ReplayCycle
  <2>1. /\ UNCHANGED <<phase, snapshots, report, aborted>> /\ report = {} /\ step = "cycle"
        /\ step' = "second" /\ Iterates /\ Counted
    BY <1>18 DEF ReplayCycle, Iterates, Running
  <2> QED  BY <2>1, <1>4, <1>8, <1>11
<1>19. CASE ReplayPair
  <2>1. /\ UNCHANGED <<phase, snapshots, report, aborted, cycles, ran>> /\ report = {}
        /\ step = "second" /\ step' = "cycle"
    BY <1>19 DEF ReplayPair, Running
  <2> QED  BY <2>1, <1>4, <1>8, <1>12
\* The phase ends: it has run for its length, or the epoch is called off.
<1>20. CASE EndPhase
  <2> DEFINE snap == [phase |-> Now, cycle |-> cycles]
  <2>1. /\ report = {} /\ step = "cycle" /\ (aborted \/ ran >= Length(Now))
        /\ snapshots' = Append(snapshots, snap)
        /\ phase' = phase + 1 /\ step' = "phase" /\ UNCHANGED <<cycles, ran, aborted, report>>
    BY <1>20 DEF EndPhase, Running
  <2>2. phase <= N /\ Now \in Phase /\ Length(Now) \in Nat
    BY <2>1, <1>4, <1>9
  <2>3. snap \in [phase : Phase, cycle : Nat] /\ snap.phase = Plan[phase] /\ snap.cycle = cycles
    BY <2>2, <1>1 DEF Now
  <2> HIDE DEF snap
  <2>4. /\ snapshots' \in Seq([phase : Phase, cycle : Nat]) /\ Len(snapshots') = phase
        /\ \A i \in 1..(phase - 1) : snapshots'[i] = snapshots[i]
        /\ snapshots'[phase] = snap
    <3>1. /\ snapshots' \in Seq([phase : Phase, cycle : Nat])
          /\ Len(snapshots') = Len(snapshots) + 1
          /\ \A i \in 1..Len(snapshots) : snapshots'[i] = snapshots[i]
          /\ snapshots'[Len(snapshots) + 1] = snap
      BY <2>1, <2>3, <1>4, AppendProperties
    <3>2. Len(snapshots) = phase - 1 /\ Len(snapshots) + 1 = phase
      BY <1>4
    <3> QED  BY <3>1, <3>2
  <2>5. ASSUME NEW i \in 1..phase PROVE i \in 1..(phase - 1) \/ i = phase
    BY <1>4
  <2>6. \A i \in 1..phase : snapshots'[i].phase = Plan[i]
    <3>1. \A i \in 1..(phase - 1) : snapshots[i].phase = Plan[i]
      BY <1>3 DEF Position
    <3> QED  BY <2>3, <2>4, <2>5, <3>1
  <2>7. Position'
    <3>1. phase' - 1 = phase /\ phase' \in 1..(N + 1)
      BY <2>1, <2>2, <1>2, <1>4
    <3> QED  BY <2>1, <2>4, <2>6, <3>1, <1>7 DEF Position, N
  <2>8. ASSUME ~aborted PROVE OnTime'
    <3>1. OnTime /\ ran = Length(Now) /\ cycles = Since(phase) + ran
      <4>1. OnTime /\ ran >= Length(Now)
        BY <2>1, <2>8, <1>3
      <4>2. ran <= Length(Now) /\ cycles = Since(phase) + ran
        BY <2>1, <4>1 DEF OnTime
      <4> QED  BY <4>1, <4>2, <2>2, <1>1
    <3>2. ASSUME NEW i \in 1..phase PROVE Since(i)' = Since(i)
      <4>1. CASE i = 1
        BY <4>1 DEF Since
      <4>2. CASE i # 1
        <5>1. i - 1 \in 1..(phase - 1)
          BY <4>2, <1>4
        <5> QED  BY <4>2, <5>1, <2>4 DEF Since
      <4> QED  BY <4>1, <4>2
    <3>3. ASSUME NEW i \in 1..phase
          PROVE  snapshots'[i].cycle = Length(Plan[i])' + Since(i)'
      <4>1. CASE i \in 1..(phase - 1)
        <5>1. snapshots[i].cycle = Length(Plan[i]) + Since(i)
          BY <3>1, <4>1 DEF OnTime
        <5> QED  BY <5>1, <4>1, <3>2, <2>4, <1>7
      <4>2. CASE i = phase
        <5>1. snapshots'[phase].cycle = Length(Plan[phase]) + Since(phase)
          BY <3>1, <2>2, <2>3, <2>4, <1>1, <1>10 DEF Now
        <5> QED  BY <5>1, <4>2, <3>2, <1>7
      <4> QED  BY <4>1, <4>2, <2>5
    <3>4. Since(phase)' = cycles'
      <4>1. phase' # 1 /\ phase' - 1 = phase
        BY <2>1, <1>4
      <4> QED  BY <4>1, <2>1, <2>3, <2>4 DEF Since
    <3>5. phase' - 1 = phase
      BY <2>1, <1>4
    <3>6. \A i \in 1..(phase' - 1) : snapshots'[i].cycle = Length(Plan[i])' + Since(i)'
      BY <3>3, <3>5
    <3>7. cycles' = Since(phase)' + (IF step' = "phase" THEN 0 ELSE ran')
      BY <3>4, <2>1, <1>1
    <3> QED  BY <3>6, <3>7, <2>1 DEF OnTime
  <2> QED  BY <2>1, <2>7, <2>8 DEF Placed, Reported
<1>21. ASSUME UNCHANGED <<phase, snapshots, step>> PROVE Position'
  BY <1>3, <1>7, <1>21 DEF Position
<1>22. ASSUME UNCHANGED <<phase, snapshots, step, cycles, ran>>, OnTime PROVE OnTime'
  <2>1. Now' = Now /\ \A i : Since(i)' = Since(i)
    BY <1>7, <1>22 DEF Now, Since
  <2> QED  BY <1>7, <1>22, <2>1 DEF OnTime
<1>23. CASE Abort
  BY <1>3, <1>21, <1>23 DEF Abort, Running, Placed, Reported
<1>24. CASE Finish
  <2>1. /\ UNCHANGED <<phase, snapshots, step, cycles, ran, aborted>>
        /\ aborted \/ phase > Len(Plan)
        /\ \E c, d : report' = {[passed |-> EvaluatePassFail, captures |-> c, divergence |-> d]}
    BY <1>24 DEF Finish
  <2>2. Reported'
    <3> SUFFICES ASSUME NEW r \in report', r.passed PROVE ~aborted' /\ phase' > Len(Plan)'
      BY DEF Reported
    <3>1. EvaluatePassFail
      BY <2>1
    <3> QED  BY <2>1, <3>1, <1>7 DEF EvaluatePassFail
  <2> QED  BY <1>3, <1>21, <1>22, <2>1, <2>2 DEF Placed
<1>25. CASE Crash
  <2>1. /\ UNCHANGED <<phase, snapshots, step, cycles, ran, aborted>>
        /\ \A r \in report' : r.passed = FALSE
    BY <1>25 DEF Crash
  <2> QED  BY <1>3, <1>21, <1>22, <2>1 DEF Placed, Reported
<1>26. CASE UNCHANGED evars
  <2>1. UNCHANGED <<phase, snapshots, step, cycles, ran, aborted, report>>
    BY <1>26 DEF evars
  <2> QED  BY <1>3, <1>7, <1>21, <1>22, <2>1 DEF Placed, Reported
<1> QED  BY <1>13, <1>14, <1>15, <1>16, <1>17, <1>18, <1>19, <1>20, <1>23, <1>24, <1>25, <1>26
         DEF ENext

\* An epoch that is not called off has run each phase before its own for its
\* full length, one after another.
THEOREM EpochPlaced == ESpec => [](ETyped /\ Placed)
<1>1. EInit => ETyped /\ Placed
  <2>1. NewProbe \in AProbe
    BY DEF NewProbe, AProbe
  <2>2. <<>> \in Seq(ACapture)
    BY EmptySeq
  <2>3. EInit => ETyped
    BY <2>1, <2>2 DEF EInit, ETyped, Probe
  <2> QED  BY <2>3, InitPlaced
<1>2. (ETyped /\ Placed) /\ [ENext]_evars => (ETyped /\ Placed)'
  BY EpochStep, NextPlaced
<1> QED  BY <1>1, <1>2, PTL DEF ESpec

-----------------------------------------------------------------------------
(* Epoch: what the epoch compares *)

\* The j-th capture shows no velocity over its limit when it is compared.
Calm(c, j) ==
    LET a == c[Max({1, j - Window + 1})].snapshot
        b == c[j].snapshot
    IN  /\ ~Exceeds(a.entropy, b.entropy, a.cycle, b.cycle, 100 * EntropyRunaway)
        /\ ~Exceeds(a.oscillations, b.oscillations, a.cycle, b.cycle, OscillationExplosion)

LEMMA CalmFrom ==
    ASSUME NEW j \in Nat \ {0}
    PROVE  /\ Max({1, j - Window + 1}) = j - Least(Window, j) + 1
           /\ Max({1, j - Window + 1}) \in 1..j
<1>1. Window \in Nat \ {0}
  BY EpochAssumption
<1>2. 1 \in Int /\ j - Window + 1 \in Int
  BY <1>1
<1>3. Max({1, j - Window + 1}) = IF 1 >= j - Window + 1 THEN 1 ELSE j - Window + 1
  BY <1>2, MaxOfTwo
<1> QED  BY <1>1, <1>3 DEF Least

LEMMA CalmStays ==
    ASSUME NEW c \in Seq(ACapture), NEW x \in ACapture, NEW j \in 1..Len(c), Calm(c, j)
    PROVE  Calm(Append(c, x), j)
<1>1. \A i \in 1..Len(c) : Append(c, x)[i] = c[i]
  BY AppendProperties
<1> DEFINE from == Max({1, j - Window + 1})
<1>2. Len(c) \in Nat /\ j \in Nat \ {0} /\ j <= Len(c)
  BY LenProperties
<1>3. from \in 1..Len(c)
  <2>1. from \in 1..j
    BY <1>2, CalmFrom
  <2> HIDE DEF from
  <2> QED  BY <1>2, <2>1
<1>4. Append(c, x)[from] = c[from] /\ Append(c, x)[j] = c[j]
  <2> HIDE DEF from
  <2> QED  BY <1>1, <1>3
<1> QED  BY <1>4 DEF Calm

\* Nothing is found when what the tracker keeps is compared.
LEMMA CalmNewest ==
    ASSUME NEW t \in Seq(ACapture), NEW n \in Nat, Len(t) = n + 1,
           Panics(Newest(Window, SnapshotsOf(t))) = <<>>
    PROVE  Calm(t, n + 1)
<1> DEFINE m == n + 1
           s == SnapshotsOf(t)
           k == Least(Window, m)
           T == Newest(Window, s)
           a == T[1]
           b == T[Len(T)]
           over == Exceeds(a.oscillations, b.oscillations, a.cycle, b.cycle, OscillationExplosion)
           runs == Exceeds(a.entropy, b.entropy, a.cycle, b.cycle, 100 * EntropyRunaway)
<1>1. Window \in Nat \ {0} /\ m \in Nat \ {0}
  BY EpochAssumption
<1>2. s \in Seq(ASnapshot) /\ Len(s) = m /\ DOMAIN t = 1..m
  BY SnapshotsTyped, LenProperties DEF SnapshotsOf
<1>3. \A i \in 1..m : s[i] = t[i].snapshot
  BY <1>2 DEF SnapshotsOf
<1> HIDE DEF s, m
<1>4. k \in Nat \ {0} /\ k <= m
  BY <1>1 DEF Least
<1>5. Len(T) = k /\ \A i \in 1..k : T[i] = s[m - k + i]
  BY <1>1, <1>2, NewestIs
<1> HIDE DEF T, k
<1>6. a = s[m - k + 1] /\ b = s[m]
  <2>1. 1 \in 1..k /\ k \in 1..k /\ m - k + k = m
    BY <1>1, <1>4
  <2> QED  BY <1>5, <2>1
<1>7. ~over /\ ~runs
  <2> DEFINE u == IF over THEN <<"oscillation_explosion">> ELSE <<>>
             v == IF runs THEN <<"entropy_runaway">> ELSE <<>>
             PanicType == {"oscillation_explosion", "entropy_runaway"}
  <2>1. u \o v = <<>>
    BY DEF Panics, T, s
  <2>2. /\ u \in Seq(PanicType) /\ v \in Seq(PanicType)
        /\ over => Len(u) = 1
        /\ runs => Len(v) = 1
    <3>1. /\ <<"oscillation_explosion">> \in Seq(PanicType) /\ <<"entropy_runaway">> \in Seq(PanicType)
          /\ <<>> \in Seq(PanicType)
          /\ Len(<<"oscillation_explosion">>) = 1 /\ Len(<<"entropy_runaway">>) = 1
      BY EmptySeq
    <3> HIDE DEF over, runs
    <3> QED  BY <3>1
  <2> HIDE DEF u, v
  <2>3. Len(u) + Len(v) = 0
    <3>1. Len(u \o v) = Len(u) + Len(v)
      BY <2>2, ConcatProperties
    <3>2. Len(u \o v) = 0
      BY <2>1
    <3> QED  BY <3>1, <3>2
  <2>4. Len(u) \in Nat /\ Len(v) \in Nat
    BY <2>2, LenProperties
  <2>5. Len(u) # 1 /\ Len(v) # 1
    <3>1. ASSUME NEW i \in Nat, NEW j \in Nat, i + j = 0 PROVE i # 1 /\ j # 1
      BY <3>1
    <3> QED  BY <2>3, <2>4, <3>1
  <2> HIDE DEF over, runs
  <2> QED  BY <2>2, <2>5, Zenon
<1> DEFINE from == Max({1, m - Window + 1})
<1>8. from = m - k + 1 /\ from \in 1..m
  BY <1>1, CalmFrom DEF k
<1>9. m \in 1..m
  BY <1>1
<1> HIDE DEF from
<1>10. t[from].snapshot = a /\ t[m].snapshot = b
  BY <1>3, <1>6, <1>8, <1>9
<1> HIDE DEF a, b
<1>11. Calm(t, m)
  BY <1>7, <1>10 DEF Calm, from
<1> QED  BY <1>11 DEF m

LEMMA NewestLast ==
    ASSUME NEW S, NEW s \in Seq(S), NEW x \in S, NEW n \in Nat \ {0}
    PROVE  Newest(n, Append(s, x))[Len(Newest(n, Append(s, x)))] = x
<1> DEFINE t == Append(s, x)
           m == Len(t)
           k == Least(n, m)
<1>1. t \in Seq(S) /\ m \in Nat \ {0} /\ t[m] = x
  BY AppendProperties, LenProperties
<1> HIDE DEF t, m
<1>2. k \in Nat \ {0} /\ k <= m
  BY <1>1 DEF Least
<1>3. Len(Newest(n, t)) = k /\ \A i \in 1..k : Newest(n, t)[i] = t[m - k + i]
  BY <1>1, NewestIs DEF m
<1> HIDE DEF k
<1>4. k \in 1..k /\ m - k + k = m
  BY <1>1, <1>2
<1>5. Newest(n, t)[k] = t[m]
  BY <1>3, <1>4
<1>6. Newest(n, t)[Len(Newest(n, t))] = x
  BY <1>1, <1>3, <1>5
<1> QED  BY <1>6 DEF t

\* As long as the epoch compares its captures it tracks the newest of them.
Watched ==
    /\ phase <= Len(Plan) - 2 => tracker = Newest(Window, SnapshotsOf(Checked))
    /\ ~aborted => \A j \in DOMAIN Checked : Calm(Checked, j)

EpochInv == SInv /\ Placed /\ Watched

LEMMA InitWatched ==
    ASSUME EInit
    PROVE  Watched
<1>1. Checked = <<>>
  BY PickedNone DEF EInit, Checked
<1>2. <<>> \in Seq(ASnapshot) /\ Len(<<>>) = 0 /\ SnapshotsOf(<<>>) = <<>>
  BY EmptySeq DEF SnapshotsOf
<1>3. Window \in Nat /\ Least(Window, 0) = 0
  BY EpochAssumption DEF Least
<1>4. Newest(Window, <<>>) = <<>>
  <2>1. Newest(Window, <<>>) \in Seq(ASnapshot) /\ Len(Newest(Window, <<>>)) = 0
    BY <1>2, <1>3, NewestIs
  <2> QED  BY <2>1
<1>5. tracker = <<>>
  BY DEF EInit
<1> QED  BY <1>1, <1>2, <1>4, <1>5 DEF Watched

\* What others capture the epoch does not compare.
LEMMA OthersUnchecked ==
    ASSUME ETyped, NEW p \in Probe, NEW by \in Caller, by # "epoch", CallsProbe(p, by)
    PROVE  Checked' = Checked
<1>1. CASE Skips(p)
  BY <1>1 DEF Skips, Checked
<1>2. ASSUME NEW x \in ASnapshot, Takes(p, by, x) PROVE Checked' = Checked
  <2> DEFINE c == [snapshot |-> x, probe |-> p, by |-> by]
  <2>1. c \in ACapture /\ c.by = by
    BY DEF ACapture
  <2>2. captured' = Append(captured, c)
    BY <1>2 DEF Takes
  <2> HIDE DEF c
  <2> QED  BY <2>1, <2>2, CheckedGrows
<1> QED  BY <1>1, <1>2 DEF CallsProbe

\* The epoch's own capture is tracked and compared when it is one.
LEMMA CaptureWatched ==
    ASSUME SInv, SInv', EpochCapture, Watched, phase <= Len(Plan) - 2
    PROVE  /\ tracker' = Newest(Window, SnapshotsOf(Checked'))
           /\ ~aborted' => \A j \in DOMAIN Checked' : Calm(Checked', j)
<1>1. ETyped /\ store.count = Len(Snapshots) /\ store'.count = Len(Snapshots')
  BY DEF SInv, Keeps
<1>2. CallsProbe("epoch", "epoch")
  <2>1. "epoch" \in Probe /\ score["a"] \in Scores \cup {NoScore} /\ cycles \in Nat
    BY <1>1 DEF ETyped, Probe
  <2>2. Capture("epoch", "a", cycles, score["a"], "epoch")
    BY DEF EpochCapture
  <2> QED  BY <1>1, <2>1, <2>2, CaptureIs
<1>3. /\ tracker' = IF Taken THEN Track(tracker, Latest) ELSE tracker
      /\ aborted' = (aborted \/ (IF Taken THEN Panics(tracker') ELSE <<>>) # <<>>)
  BY DEF EpochCapture
<1>4. tracker = Newest(Window, SnapshotsOf(Checked))
  BY DEF Watched
<1>5. captured \in Seq(ACapture) /\ Len(captured) \in Nat
  BY <1>1, LenProperties DEF ETyped
<1>6. CASE Skips("epoch")
  <2>1. ~Taken /\ Checked' = Checked
    <3>1. store' = store /\ captured' = captured
      BY <1>6 DEF Skips
    <3>2. store.count \in Nat
      BY <1>1, <1>5, SnapshotsTyped DEF Snapshots
    <3> QED  BY <3>1, <3>2 DEF Taken, Checked
  <2>2. tracker' = tracker /\ (~aborted' => ~aborted)
    <3>1. aborted' = (aborted \/ <<>> # <<>>)
      BY <1>3, <2>1
    <3> QED  BY <1>3, <2>1, <3>1
  <2> QED  BY <1>4, <2>1, <2>2 DEF Watched
<1>7. ASSUME NEW x \in ASnapshot, Takes("epoch", "epoch", x)
      PROVE  /\ tracker' = Newest(Window, SnapshotsOf(Checked'))
             /\ ~aborted' => \A j \in DOMAIN Checked' : Calm(Checked', j)
  <2> DEFINE c == [snapshot |-> x, probe |-> "epoch", by |-> "epoch"]
  <2>1. c \in ACapture /\ c.by = "epoch" /\ c.snapshot = x
    BY DEF ACapture, Probe, Caller
  <2>2. captured' = Append(captured, c)
    BY <1>7 DEF Takes
  <2> HIDE DEF c
  <2>3. Checked \in Seq(ACapture) /\ Checked' = Append(Checked, c)
    BY <1>1, <2>1, <2>2, CheckedGrows
  <2>4. Snapshots' = Append(Snapshots, x) /\ Snapshots \in Seq(ASnapshot)
    <3>1. Snapshots = SnapshotsOf(captured) /\ Snapshots' = SnapshotsOf(captured')
      BY DEF Snapshots, SnapshotsOf
    <3>2. SnapshotsOf(Append(captured, c)) = Append(SnapshotsOf(captured), c.snapshot)
      BY <1>5, <2>1, SnapshotsGrow
    <3>3. Snapshots \in Seq(ASnapshot)
      BY <1>5, SnapshotsTyped DEF Snapshots
    <3> QED  BY <2>1, <2>2, <3>1, <3>2, <3>3
  <2>5. Taken
    <3>1. Len(Append(Snapshots, x)) = Len(Snapshots) + 1 /\ Len(Snapshots) \in Nat
      BY <2>4, AppendProperties, LenProperties
    <3> QED  BY <1>1, <2>4, <3>1 DEF Taken
  <2>6. Latest = x
    <3>1. store'.hot = Newest(HOT_MAX, Append(Snapshots, x))
      BY <2>4 DEF SInv, Keeps
    <3>2. HOT_MAX \in Nat \ {0}
      BY Sizes
    <3>3. Newest(HOT_MAX, Append(Snapshots, x))[Len(Newest(HOT_MAX, Append(Snapshots, x)))] = x
      BY <2>4, <3>2, NewestLast
    <3> QED  BY <3>1, <3>3 DEF Latest
  <2>7. tracker' = Newest(Window, SnapshotsOf(Checked'))
    <3>1. SnapshotsOf(Checked') = Append(SnapshotsOf(Checked), x)
      BY <2>1, <2>3, SnapshotsGrow
    <3>2. SnapshotsOf(Checked) \in Seq(ASnapshot) /\ Window \in Nat
      BY <2>3, SnapshotsTyped, EpochAssumption DEF SnapshotsOf
    <3>3. tracker' = Newest(Window, Append(tracker, x))
      BY <1>3, <2>5, <2>6 DEF Track
    <3>4. Newest(Window, Append(Newest(Window, SnapshotsOf(Checked)), x))
            = Newest(Window, Append(SnapshotsOf(Checked), x))
      BY <3>2, NewestOfNewest
    <3> QED  BY <1>4, <3>1, <3>3, <3>4
  <2>8. ASSUME ~aborted', NEW j \in DOMAIN Checked' PROVE Calm(Checked', j)
    <3> DEFINE n == Len(Checked)
               t == Append(Checked, c)
    <3>1. n \in Nat /\ t \in Seq(ACapture) /\ Len(t) = n + 1 /\ DOMAIN t = 1..(n + 1)
          /\ DOMAIN Checked = 1..n
      BY <2>1, <2>3, AppendProperties, LenProperties
    <3>2. ~aborted /\ Panics(tracker') = <<>>
      BY <1>3, <2>5, <2>8
    <3> HIDE DEF n, t
    <3>3. CASE j \in 1..n
      <4>1. Calm(Checked, j)
        BY <3>1, <3>2, <3>3 DEF Watched
      <4>2. Calm(Append(Checked, c), j)
        BY <2>1, <2>3, <3>3, <4>1, CalmStays DEF n
      <4> QED  BY <2>3, <4>2
    <3>4. CASE j = n + 1
      <4>1. Panics(Newest(Window, SnapshotsOf(t))) = <<>>
        BY <2>3, <2>7, <3>2 DEF t
      <4>2. Calm(t, n + 1)
        BY <3>1, <4>1, CalmNewest
      <4> QED  BY <2>3, <3>4, <4>2 DEF t
    <3>5. j \in 1..(n + 1)
      BY <2>3, <3>1 DEF t
    <3> QED  BY <3>1, <3>3, <3>4, <3>5
  <2> QED  BY <2>7, <2>8
<1> QED  BY <1>2, <1>6, <1>7 DEF CallsProbe

LEMMA NextEpochInv ==
    ASSUME EpochInv, [ENext]_evars
    PROVE  EpochInv'
<1>1. ETyped /\ SInv /\ SInv' /\ Placed /\ Placed' /\ Watched
  BY NextSInv, NextPlaced DEF EpochInv, SInv
<1> SUFFICES Watched'
  BY <1>1 DEF EpochInv
<1>2. chaos \in BOOLEAN /\ phase \in 1..(Len(Plan) + 1) /\ Len(Plan) \in {6, 8}
      /\ phase' \in 1..(Len(Plan)' + 1)
  BY <1>1, PlanIs DEF Placed, Position, ETyped
<1>3. UNCHANGED config
  BY DEF ENext, evars, config, StartPhase, PhaseCycle, SecondNode, EpochCapture, BootCycle,
         ReplayCycle, ReplayPair, EndPhase, Abort, Finish, Crash
<1>4. Plan' = Plan
  BY <1>3 DEF Plan, config
<1>5. "epoch" \in Probe /\ "a" \in Probe /\ "b" \in Probe
      /\ "runtime" \in Caller /\ "boot" \in Caller
  BY DEF Probe, Caller
<1>6. ran \in Nat /\ cycles \in Nat
  BY <1>1 DEF ETyped
\* A step that neither compares nor tracks.
<1>7. ASSUME Checked' = Checked, phase' \in {phase, phase + 1}, aborted => aborted',
             phase <= Len(Plan) - 2 => tracker' = tracker
      PROVE  Watched'
  <2>1. phase' <= Len(Plan) - 2 => phase <= Len(Plan) - 2
    BY <1>2, <1>7
  <2> QED  BY <1>1, <1>4, <1>7, <2>1 DEF Watched
<1>8. ASSUME UNCHANGED captured PROVE Checked' = Checked
  BY <1>8 DEF Checked
<1>9. CASE StartPhase \/ EndPhase \/ Abort \/ Finish \/ Crash \/ UNCHANGED evars
  <2>1. UNCHANGED <<captured, tracker>> /\ phase' \in {phase, phase + 1} /\ (aborted => aborted')
    BY <1>9 DEF StartPhase, EndPhase, Abort, Finish, Crash, evars
  <2> QED  BY <1>7, <1>8, <2>1
<1>10. CASE PhaseCycle
  <2>1. NodeCycle("epoch", "a", cycles', "runtime") /\ UNCHANGED <<phase, tracker, aborted>>
        /\ cycles' = cycles + 1
    BY <1>10 DEF PhaseCycle, Counted
  <2>2. CallsProbe("epoch", "runtime")
    BY <1>1, <1>5, <1>6, <2>1, NodeCycleIs
  <2> QED  BY <1>1, <1>5, <1>7, <2>1, <2>2, OthersUnchecked
<1>11. CASE SecondNode
  <2>1. NodeCycle("epoch", "b", cycles, "runtime") /\ UNCHANGED <<phase, tracker, aborted>>
    BY <1>11 DEF SecondNode
  <2>2. CallsProbe("epoch", "runtime")
    BY <1>1, <1>5, <1>6, <2>1, NodeCycleIs
  <2> QED  BY <1>1, <1>5, <1>7, <2>1, <2>2, OthersUnchecked
<1>12. CASE EpochCapture
  <2>1. phase <= Len(Plan) - 2
    BY <1>1, <1>12 DEF EpochCapture, Placed, Position
  <2> QED  BY <1>1, <1>12, <2>1, CaptureWatched DEF Watched
<1>13. CASE BootCycle
  <2>1. UNCHANGED <<phase, aborted>> /\ step = "cycle" /\ Now = "RECOVERY_BOOT" /\ ran' = ran + 1
    BY <1>13 DEF BootCycle, Iterates, Counted
  <2>2. ~ (phase <= Len(Plan) - 2)
    <3>1. phase \in 1..Len(Plan)
      BY <1>1, <1>2, <2>1 DEF Placed, Position
    <3> QED  BY <1>2, <2>1, <3>1, PlanIs DEF Now
  <2>3. Checked' = Checked
    <3>1. CASE kind = "federated"
      BY <1>8, <1>13, <3>1 DEF BootCycle
    <3>2. CASE kind # "federated"
      <4>1. NodeCycle("epoch", "a", ran', "boot")
        BY <1>13, <3>2 DEF BootCycle
      <4>2. CallsProbe("epoch", "boot")
        BY <1>1, <1>5, <1>6, <2>1, <4>1, NodeCycleIs
      <4> QED  BY <1>1, <1>5, <4>2, OthersUnchecked
    <3> QED  BY <3>1, <3>2
  <2> QED  BY <1>7, <2>1, <2>2, <2>3
<1>14. CASE ReplayCycle
  <2>1. NodeCycle("a", "a", ran', "runtime") /\ UNCHANGED <<phase, tracker, aborted>>
        /\ ran' = ran + 1
    BY <1>14 DEF ReplayCycle, Counted
  <2>2. CallsProbe("a", "runtime")
    BY <1>1, <1>5, <1>6, <2>1, NodeCycleIs
  <2> QED  BY <1>1, <1>5, <1>7, <2>1, <2>2, OthersUnchecked
<1>15. CASE ReplayPair
  <2>1. NodeCycle("b", "b", ran, "runtime") /\ UNCHANGED <<phase, tracker, aborted>>
    BY <1>15 DEF ReplayPair
  <2>2. CallsProbe("b", "runtime")
    BY <1>1, <1>5, <1>6, <2>1, NodeCycleIs
  <2> QED  BY <1>1, <1>5, <1>7, <2>1, <2>2, OthersUnchecked
<1> QED  BY <1>9, <1>10, <1>11, <1>12, <1>13, <1>14, <1>15 DEF ENext

\* An epoch keeps its store, runs its phases for their lengths and compares what
\* it captures with the oldest capture of its window.
THEOREM EpochInvariance == ESpec => []EpochInv
<1>1. EInit => EpochInv
  BY InitSInv, InitPlaced, InitWatched DEF EpochInv
<1>2. EpochInv /\ [ENext]_evars => EpochInv'
  BY NextEpochInv
<1> QED  BY <1>1, <1>2, PTL DEF ESpec

\* An epoch that passed was not called off, has run every phase of its plan for
\* its full length, and none of the captures it compared shows a velocity above
\* its limit.
THEOREM PassedEpochsEarnIt == ESpec => []PassedIsEarned
<1>1. EpochInv => PassedIsEarned
  <2> SUFFICES ASSUME EpochInv PROVE PassedIsEarned
    OBVIOUS
  <2>1. ETyped /\ Position /\ (~aborted => OnTime) /\ Reported /\ Watched
    BY DEF EpochInv, SInv, Placed
  <2>2. ASSUME NEW r \in report, r.passed
        PROVE  ~aborted /\ OnTime /\ phase - 1 = Len(Plan) /\ Len(snapshots) = Len(Plan)
    <3>1. ~aborted /\ phase > Len(Plan)
      BY <2>1, <2>2 DEF Reported
    <3>2. phase \in 1..(Len(Plan) + 1) /\ Len(Plan) \in {6, 8} /\ Len(snapshots) = phase - 1
      BY <2>1, PlanIs DEF Position, ETyped
    <3> QED  BY <2>1, <3>1, <3>2
  <2>3. ASSUME NEW r \in report, r.passed
        PROVE  [i \in DOMAIN snapshots |-> snapshots[i].phase] = Plan
    <3>1. Plan \in Seq(Phase) /\ DOMAIN Plan = 1..Len(Plan)
      BY <2>1, PlanIs, LenProperties DEF ETyped
    <3>2. DOMAIN snapshots = 1..Len(Plan)
      BY <2>1, <2>2, <2>3, LenProperties DEF Position
    <3>3. \A i \in 1..Len(Plan) : snapshots[i].phase = Plan[i]
      BY <2>1, <2>2, <2>3 DEF Position
    <3>4. Plan = [i \in 1..Len(Plan) |-> Plan[i]]
      BY <3>1
    <3> QED  BY <3>2, <3>3, <3>4
  <2>4. ASSUME NEW r \in report, r.passed, NEW i \in DOMAIN snapshots
        PROVE  /\ snapshots[i].cycle = Length(Plan[i]) + (IF i = 1 THEN 0 ELSE snapshots[i - 1].cycle)
               /\ i > 1 => Plan[i] \in PHASE_TRANSITIONS[Plan[i - 1]]
    <3>1. i \in 1..Len(Plan) /\ i \in 1..(phase - 1)
      BY <2>1, <2>2, <2>4, LenProperties DEF Position
    <3>2. snapshots[i].cycle = Length(Plan[i]) + Since(i)
      BY <2>2, <2>4, <3>1 DEF OnTime
    <3>3. i > 1 => i \in 2..Len(Plan)
      BY <3>1
    <3>4. i > 1 => Plan[i] \in PHASE_TRANSITIONS[Plan[i - 1]]
      BY <2>1, <3>3, PlanIs DEF ETyped
    <3> QED  BY <3>2, <3>4 DEF Since
  <2>5. ASSUME NEW r \in report, r.passed, NEW j \in DOMAIN Checked
        PROVE  Calm(Checked, j)
    BY <2>1, <2>2, <2>5 DEF Watched
  <2> QED  BY <2>2, <2>3, <2>4, <2>5 DEF PassedIsEarned, Calm
<1> QED  BY <1>1, EpochInvariance, PTL

=============================================================================
