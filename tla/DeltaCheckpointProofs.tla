----------------------- MODULE DeltaCheckpointProofs -----------------------
(***************************************************************************)
(* What the checkpoint manager can always load, for any interval between   *)
(* bases, any number of bases kept, of blocks and of crashes.              *)
(***************************************************************************)
EXTENDS DeltaCheckpoint, TLAPS, SequenceTheorems, WellFoundedInduction

-----------------------------------------------------------------------------
(* Joining a sequence of sequences *)

\* The function by which FlattenSeq is defined, on the first n sequences.
Flattens(f, seqs, n) ==
    f = [i \in 1..n |-> IF i = 1 THEN seqs[i] ELSE f[i - 1] \o seqs[i]]

\* A non-empty set of naturals has a least element.
LEMMA LeastNat ==
    ASSUME NEW S, S \subseteq Nat, S # {}
    PROVE  \E m \in S : \A x \in S : m <= x
<1>1. PICK m \in S : \A y \in S : ~ (<<y, m>> \in OpToRel(<, Nat))
  BY NatLessThanWellFounded, WFMin, Zenon
<1>2. ASSUME NEW y \in S PROVE m <= y
  <2>1. y \in Nat /\ m \in Nat
    OBVIOUS
  <2>2. y < m => <<y, m>> \in OpToRel(<, Nat)
    BY <2>1 DEF OpToRel
  <2>3. ~ (y < m)
    BY <2>2, <1>1, Zenon
  <2> QED  BY <2>1, <2>3
<1> QED  BY <1>2

\* There is such a function for every n, and its values are sequences ...
LEMMA FlattensExists ==
    ASSUME NEW S, NEW seqs \in Seq(Seq(S)), NEW n \in 0..Len(seqs)
    PROVE  \E f \in [1..n -> Seq(S)] : Flattens(f, seqs, n)
<1> DEFINE Bad == {k \in 0..Len(seqs) : ~ \E f \in [1..k -> Seq(S)] : Flattens(f, seqs, k)}
<1>1. Len(seqs) \in Nat
  BY LenProperties
<1> SUFFICES ASSUME Bad # {} PROVE FALSE
  OBVIOUS
<1>2. PICK m \in Bad : \A k \in Bad : m <= k
  <2>1. Bad \subseteq Nat
    BY <1>1
  <2> QED  BY <2>1, LeastNat
<1>3. m # 0
  <2>1. <<>> \in [1..0 -> Seq(S)] /\ Flattens(<<>>, seqs, 0)
    BY DEF Flattens
  <2> QED  BY <2>1
<1>4. m \in 1..Len(seqs) /\ m - 1 \in 0..Len(seqs) /\ m - 1 \notin Bad
  <2>1. m \in 0..Len(seqs)
    OBVIOUS
  <2>2. m \in 1..Len(seqs) /\ m - 1 \in 0..Len(seqs) /\ ~ (m <= m - 1)
    BY <1>1, <1>3, <2>1
  <2> HIDE DEF Bad
  <2> QED  BY <1>2, <2>2
<1>5. PICK f \in [1..(m - 1) -> Seq(S)] : Flattens(f, seqs, m - 1)
  BY <1>4
<1>6. seqs[m] \in Seq(S)
  BY <1>4, ElementOfSeq
<1> DEFINE last == IF m = 1 THEN seqs[m] ELSE f[m - 1] \o seqs[m]
           g == [i \in 1..m |-> IF i = m THEN last ELSE f[i]]
<1>7. last \in Seq(S)
  <2>1. CASE m = 1
    BY <1>6, <2>1
  <2>2. CASE m # 1
    <3>1. f[m - 1] \in Seq(S)
      BY <1>4, <2>2
    <3> QED  BY <1>6, <2>2, <3>1, ConcatProperties
  <2> QED  BY <2>1, <2>2
<1>8. g \in [1..m -> Seq(S)]
  <2> HIDE DEF last
  <2> QED  BY <1>4, <1>7
<1>9. Flattens(g, seqs, m)
  <2>1. ASSUME NEW i \in 1..m
        PROVE  g[i] = IF i = 1 THEN seqs[i] ELSE g[i - 1] \o seqs[i]
    <3>1. CASE i = m
      <4>1. m # 1 => g[m - 1] = f[m - 1]
        BY <1>4
      <4> QED  BY <3>1, <4>1
    <3>2. CASE i # m
      <4>1. i \in 1..(m - 1) /\ (i # 1 => i - 1 \in 1..(m - 1))
        BY <1>4, <3>2
      <4>2. f[i] = IF i = 1 THEN seqs[i] ELSE f[i - 1] \o seqs[i]
        BY <1>5, <4>1 DEF Flattens
      <4>3. g[i] = f[i] /\ (i # 1 => g[i - 1] = f[i - 1])
        BY <1>4, <3>2, <4>1
      <4> QED  BY <4>2, <4>3
    <3> QED  BY <3>1, <3>2
  <2> HIDE DEF g, last
  <2> QED  BY <1>8, <2>1 DEF Flattens
<1> QED  BY <1>2, <1>8, <1>9

\* ... and only one.
LEMMA FlattensUnique ==
    ASSUME NEW seqs, NEW n \in Nat, NEW f, NEW g,
           Flattens(f, seqs, n), Flattens(g, seqs, n), NEW i \in 1..n
    PROVE  f[i] = g[i]
<1> DEFINE Bad == {k \in 1..n : f[k] # g[k]}
<1> SUFFICES ASSUME Bad # {} PROVE FALSE
  OBVIOUS
<1>1. PICK m \in Bad : \A k \in Bad : m <= k
  <2>1. Bad \subseteq Nat
    OBVIOUS
  <2> QED  BY <2>1, LeastNat
<1>2. /\ f[m] = IF m = 1 THEN seqs[m] ELSE f[m - 1] \o seqs[m]
      /\ g[m] = IF m = 1 THEN seqs[m] ELSE g[m - 1] \o seqs[m]
  BY DEF Flattens
<1>3. m # 1 => m - 1 \in 1..n /\ m - 1 \notin Bad
  BY <1>1
<1> QED  BY <1>2, <1>3

\* So FlattenSeq is its last value.
LEMMA FlattenIs ==
    ASSUME NEW S, NEW seqs \in Seq(Seq(S)), seqs # <<>>,
           NEW f \in [1..Len(seqs) -> Seq(S)], Flattens(f, seqs, Len(seqs))
    PROVE  FlattenSeq(seqs) = f[Len(seqs)]
<1> DEFINE n == Len(seqs)
<1>1. n \in Nat /\ n # 0
  BY LenProperties, EmptySeq
<1> DEFINE c == CHOOSE h : Flattens(h, seqs, n)
<1>2. FlattenSeq(seqs) = c[n]
  BY <1>1 DEF FlattenSeq, Flattens
<1>3. Flattens(c, seqs, n)
  OBVIOUS
<1> HIDE DEF c
<1>4. c[n] = f[n]
  BY <1>1, <1>3, FlattensUnique
<1> QED  BY <1>2, <1>4

\* Joining sequences is associative: a predicate, so that the provers find the
\* instance.
Regroups(r, s, t) == r \o (s \o t) = (r \o s) \o t

LEMMA Regroup ==
    ASSUME NEW S, NEW r \in Seq(S), NEW s \in Seq(S), NEW t \in Seq(S)
    PROVE  Regroups(r, s, t)
BY ConcatAssociative DEF Regroups

\* Joining nothing gives nothing; one sequence more goes at the end.
LEMMA FlattenAppend ==
    ASSUME NEW S, NEW seqs \in Seq(Seq(S)), NEW s \in Seq(S)
    PROVE  /\ FlattenSeq(<<>>) = <<>>
           /\ FlattenSeq(seqs) \in Seq(S)
           /\ FlattenSeq(Append(seqs, s)) = FlattenSeq(seqs) \o s
<1> DEFINE n == Len(seqs)
           longer == Append(seqs, s)
<1>1. FlattenSeq(<<>>) = <<>>
  BY DEF FlattenSeq
<1>2. /\ n \in Nat
      /\ longer \in Seq(Seq(S)) /\ Len(longer) = n + 1 /\ longer # <<>>
      /\ \A i \in 1..n : longer[i] = seqs[i]
      /\ longer[n + 1] = s
  BY LenProperties, AppendProperties
<1>3. PICK f \in [1..n -> Seq(S)] : Flattens(f, seqs, n)
  <2>1. n \in 0..Len(seqs)
    BY <1>2
  <2> QED  BY <2>1, FlattensExists
<1>4. FlattenSeq(seqs) = IF n = 0 THEN <<>> ELSE f[n]
  <2>1. CASE seqs = <<>>
    BY <1>1, <2>1
  <2>2. CASE seqs # <<>>
    <3>1. n # 0
      BY <2>2, EmptySeq
    <3> QED  BY <1>3, <2>2, <3>1, FlattenIs
  <2> QED  BY <2>1, <2>2
<1>5. FlattenSeq(seqs) \in Seq(S)
  <2>1. CASE n = 0
    BY <1>4, <2>1, EmptySeq
  <2>2. CASE n # 0
    <3>1. n \in 1..n
      BY <1>2, <2>2
    <3> HIDE DEF n
    <3>2. f[n] \in Seq(S)
      BY <1>3, <3>1
    <3> QED  BY <1>4, <2>2, <3>2
  <2> QED  BY <2>1, <2>2
<1>6. PICK g \in [1..(n + 1) -> Seq(S)] : Flattens(g, longer, n + 1)
  <2>1. n + 1 \in 0..Len(longer)
    BY <1>2
  <2> HIDE DEF longer
  <2> QED  BY <1>2, <2>1, FlattensExists
<1>7. FlattenSeq(longer) = g[n + 1]
  <2> HIDE DEF longer
  <2> QED  BY <1>2, <1>6, FlattenIs
<1>8. g[n + 1] = IF n + 1 = 1 THEN s ELSE g[n] \o s
  <2>1. n + 1 \in 1..(n + 1) /\ (n + 1) - 1 = n
    BY <1>2
  <2> QED  BY <1>2, <1>6, <2>1 DEF Flattens
<1>9. n # 0 => g[n] = f[n]
  <2> DEFINE h == [i \in 1..n |-> g[i]]
  <2>1. ASSUME NEW i \in 1..n
        PROVE  h[i] = IF i = 1 THEN seqs[i] ELSE h[i - 1] \o seqs[i]
    <3>1. i \in 1..(n + 1) /\ (i # 1 => i - 1 \in 1..n)
      BY <1>2
    <3>2. g[i] = IF i = 1 THEN longer[i] ELSE g[i - 1] \o longer[i]
      BY <1>6, <3>1 DEF Flattens
    <3> QED  BY <1>2, <3>1, <3>2
  <2>2. Flattens(h, seqs, n)
    <3>1. h = [i \in 1..n |-> h[i]]
      OBVIOUS
    <3> HIDE DEF h
    <3> QED  BY <2>1, <3>1 DEF Flattens
  <2>3. n # 0 => n \in 1..n /\ h[n] = g[n]
    BY <1>2
  <2> HIDE DEF h
  <2> QED  BY <1>2, <1>3, <2>2, <2>3, FlattensUnique
<1>10. FlattenSeq(longer) = FlattenSeq(seqs) \o s
  <2>1. CASE n = 0
    BY <1>4, <1>7, <1>8, <2>1, ConcatEmptySeq
  <2>2. CASE n # 0
    <3>1. n + 1 # 1
      BY <1>2, <2>2
    <3> QED  BY <1>4, <1>7, <1>8, <1>9, <2>2, <3>1
  <2> QED  BY <2>1, <2>2
<1> QED  BY <1>1, <1>5, <1>10

-----------------------------------------------------------------------------
(* What a checkpoint reads as *)

Rising(s) == \A i, j \in 1..Len(s) : i < j => s[i] < s[j]

UpTo(s, n) == \A i \in 1..Len(s) : s[i] <= n

\* held is read back after n of the traces t of this process were saved, when
\* b blocks have run: it ends with those n, and what was not saved is newer.
Reads(held, t, n, b) ==
    /\ held \in Seq(Nat) /\ Rising(held) /\ UpTo(held, b)
    /\ \E past \in Seq(Nat) : held = past \o SubSeq(t, 1, n)
    /\ \A i \in 1..Len(held), j \in (n + 1)..Len(t) : held[i] < t[j]

\* One block more, of which the checkpoint fails.
LEMMA ReadsUnsaved ==
    ASSUME NEW b \in Nat, NEW t \in Seq(Nat), NEW n \in 0..Len(t), NEW held,
           Reads(held, t, n, b)
    PROVE  Reads(held, Append(t, b + 1), n, b + 1)
<1> DEFINE u == Append(t, b + 1)
<1>1. b + 1 \in Nat /\ Len(t) \in Nat /\ Len(held) \in Nat /\ n \in Nat
  BY LenProperties DEF Reads
<1>2. /\ u \in Seq(Nat) /\ Len(u) = Len(t) + 1 /\ u[Len(t) + 1] = b + 1
      /\ \A i \in 1..Len(t) : u[i] = t[i]
  BY <1>1, AppendProperties
<1> HIDE DEF u
<1>3. \A i \in 1..Len(held) : held[i] \in Nat /\ held[i] <= b
  BY <1>1, ElementOfSeq DEF Reads, UpTo
<1>4. SubSeq(u, 1, n) = SubSeq(t, 1, n)
  BY <1>1, <1>2
<1>5. UpTo(held, b + 1)
  BY <1>1, <1>3 DEF UpTo
<1>6. ASSUME NEW i \in 1..Len(held), NEW j \in (n + 1)..Len(u)
      PROVE  held[i] < u[j]
  <2>1. CASE j = Len(t) + 1
    BY <1>1, <1>2, <1>3, <2>1
  <2>2. CASE j # Len(t) + 1
    <3>1. j \in (n + 1)..Len(t) /\ j \in 1..Len(t)
      BY <1>1, <1>2, <2>2
    <3> QED  BY <1>2, <3>1 DEF Reads
  <2> QED  BY <2>1, <2>2
<1> QED  BY <1>4, <1>5, <1>6 DEF Reads, u

\* The traces that were not saved are saved in a delta.
LEMMA ReadsDelta ==
    ASSUME NEW b \in Nat, NEW t \in Seq(Nat), Rising(t), UpTo(t, b),
           NEW n \in 0..Len(t), NEW held, Reads(held, t, n, b)
    PROVE  /\ SubSeq(t, n + 1, Len(t)) \in Seq(Nat)
           /\ Reads(held \o SubSeq(t, n + 1, Len(t)), t, Len(t), b)
<1> DEFINE new == SubSeq(t, n + 1, Len(t))
           all == held \o new
<1>1. Len(t) \in Nat /\ Len(held) \in Nat /\ n \in Nat /\ held \in Seq(Nat)
  BY LenProperties DEF Reads
<1>2. \A i \in 1..Len(t) : t[i] \in Nat
  BY ElementOfSeq
<1>3. /\ new \in Seq(Nat) /\ Len(new) = Len(t) - n
      /\ \A i \in 1..Len(new) : new[i] = t[n + i]
  <2>1. /\ n + 1 \in Int /\ Len(t) \in Int
        /\ \A i \in (n + 1)..Len(t) : t[i] \in Nat
    BY <1>1, <1>2
  <2>2. /\ new \in Seq(Nat)
        /\ Len(new) = IF n + 1 <= Len(t) THEN Len(t) - (n + 1) + 1 ELSE 0
        /\ \A i \in 1..(Len(t) - (n + 1) + 1) : new[i] = t[(n + 1) + i - 1]
    BY <2>1, SubSeqProperties
  <2> HIDE DEF new
  <2>3. Len(new) = Len(t) - n
    <3>1. CASE n + 1 <= Len(t)
      BY <1>1, <2>2, <3>1
    <3>2. CASE ~ (n + 1 <= Len(t))
      <4>1. n = Len(t)
        BY <1>1, <3>2
      <4> QED  BY <1>1, <2>2, <3>2, <4>1
    <3> QED  BY <3>1, <3>2
  <2>4. ASSUME NEW i \in 1..Len(new) PROVE new[i] = t[n + i]
    <3>1. i \in 1..(Len(t) - (n + 1) + 1) /\ (n + 1) + i - 1 = n + i
      BY <1>1, <2>3
    <3> QED  BY <2>2, <3>1
  <2> QED  BY <2>2, <2>3, <2>4
<1>4. \E past \in Seq(Nat) : all = past \o SubSeq(t, 1, Len(t))
  <2>1. PICK past \in Seq(Nat) : held = past \o SubSeq(t, 1, n)
    BY DEF Reads
  <2>2. SubSeq(t, 1, n) \in Seq(Nat)
    <3>1. 1 \in Int /\ n \in Int /\ \A i \in 1..n : t[i] \in Nat
      BY <1>1, <1>2
    <3> QED  BY <3>1, SubSeqProperties
  <2>3. SubSeq(t, 1, n) \o new = SubSeq(t, 1, Len(t))
    <3>1. 1 \in 1..Len(t)+1 /\ n \in 1 - 1 .. Len(t) /\ Len(t) \in n .. Len(t)
      BY <1>1
    <3> QED  BY <3>1, ConcatAdjacentSubSeq
  <2> HIDE DEF new
  <2>4. all = past \o SubSeq(t, 1, Len(t))
    <3> DEFINE saved == SubSeq(t, 1, n)
    <3>1. saved \in Seq(Nat) /\ held = past \o saved
      BY <2>1, <2>2
    <3>2. saved \o new = SubSeq(t, 1, Len(t))
      BY <2>3
    <3> HIDE DEF saved
    <3>3. Regroups(past, saved, new)
      BY <1>3, <2>1, <3>1, Regroup, Zenon
    <3> QED  BY <3>1, <3>2, <3>3 DEF Regroups
  <2> QED  BY <2>4
<1> HIDE DEF new
<1>5. /\ all \in Seq(Nat) /\ Len(all) = Len(held) + Len(new)
      /\ \A i \in 1..(Len(held) + Len(new)) : all[i] =
            IF i <= Len(held) THEN held[i] ELSE new[i - Len(held)]
  BY <1>1, <1>3, ConcatProperties
<1> HIDE DEF all
<1>6. ASSUME NEW i \in 1..Len(all), Len(held) < i
      PROVE  /\ n + (i - Len(held)) \in (n + 1)..Len(t)
             /\ n + (i - Len(held)) \in 1..Len(t)
             /\ all[i] = t[n + (i - Len(held))]
  <2>1. /\ i - Len(held) \in 1..Len(new) /\ ~ (i <= Len(held))
        /\ i \in 1..(Len(held) + Len(new))
    BY <1>1, <1>3, <1>5, <1>6
  <2>2. all[i] = new[i - Len(held)]
    BY <1>5, <2>1
  <2>3. new[i - Len(held)] = t[n + (i - Len(held))]
    BY <1>3, <2>1
  <2> DEFINE k == i - Len(held)
  <2>4. k \in 1..(Len(t) - n) /\ all[i] = t[n + k]
    BY <1>3, <2>1, <2>2, <2>3
  <2> HIDE DEF k
  <2>5. n + k \in (n + 1)..Len(t) /\ n + k \in 1..Len(t)
    BY <1>1, <2>4
  <2> QED  BY <2>4, <2>5 DEF k
<1>7. ASSUME NEW i \in 1..Len(all), i <= Len(held)
      PROVE  i \in 1..Len(held) /\ all[i] = held[i]
  BY <1>1, <1>3, <1>5, <1>7
<1>8. UpTo(all, b)
  <2> SUFFICES ASSUME NEW i \in 1..Len(all) PROVE all[i] <= b
    BY DEF UpTo
  <2>1. CASE i <= Len(held)
    BY <1>7, <2>1 DEF Reads, UpTo
  <2>2. CASE Len(held) < i
    BY <1>6, <2>2 DEF UpTo
  <2> QED  BY <1>1, <1>3, <1>5, <2>1, <2>2
<1>9. Rising(all)
  <2> SUFFICES ASSUME NEW i \in 1..Len(all), NEW j \in 1..Len(all), i < j
               PROVE  all[i] < all[j]
    BY DEF Rising
  <2>1. i \in Int /\ j \in Int
    BY <1>1, <1>3, <1>5
  <2>2. CASE j <= Len(held)
    <3>1. i <= Len(held)
      BY <1>1, <2>1, <2>2
    <3> QED  BY <1>7, <2>2, <3>1 DEF Reads, Rising
  <2>3. CASE Len(held) < i
    <3>1. Len(held) < j /\ n + (i - Len(held)) < n + (j - Len(held))
      BY <1>1, <2>1, <2>3
    <3> QED  BY <1>6, <2>3, <3>1 DEF Rising
  <2>4. CASE i <= Len(held) /\ Len(held) < j
    BY <1>6, <1>7, <2>4 DEF Reads
  <2> QED  BY <1>1, <2>1, <2>2, <2>3, <2>4
<1>10. (Len(t) + 1)..Len(t) = {}
  BY <1>1
<1> QED  BY <1>3, <1>4, <1>5, <1>8, <1>9, <1>10 DEF Reads, all, new

\* A base: everything is saved.
LEMMA ReadsBase ==
    ASSUME NEW b \in Nat, NEW t \in Seq(Nat), Rising(t), UpTo(t, b)
    PROVE  Reads(t, t, Len(t), b)
<1>1. Len(t) \in Nat /\ (Len(t) + 1)..Len(t) = {}
  <2>1. Len(t) \in Nat
    BY LenProperties
  <2> QED  BY <2>1
<1>2. <<>> \in Seq(Nat) /\ t = <<>> \o SubSeq(t, 1, Len(t))
  BY EmptySeq, SubSeqFull, ConcatEmptySeq
<1> QED  BY <1>1, <1>2 DEF Reads

\* A crash: the next process has no traces.
LEMMA ReadsCrash ==
    ASSUME NEW b \in Nat, NEW c \in Nat, b <= c, NEW t, NEW n, NEW held,
           Reads(held, t, n, b)
    PROVE  Reads(held, <<>>, 0, c)
<1>1. held \in Seq(Nat) /\ Len(held) \in Nat /\ (0 + 1)..Len(<<>>) = {}
  <2>1. Len(<<>>) = 0
    OBVIOUS
  <2> QED  BY <2>1, LenProperties DEF Reads
<1>2. held = held \o SubSeq(<<>>, 1, 0)
  <2>1. SubSeq(<<>>, 1, 0) = <<>>
    BY SubSeqEmpty
  <2> QED  BY <1>1, <2>1, ConcatEmptySeq
<1>3. UpTo(held, c)
  <2>1. \A i \in 1..Len(held) : held[i] \in Nat /\ held[i] <= b
    BY <1>1, ElementOfSeq DEF Reads, UpTo
  <2> QED  BY <2>1 DEF UpTo
<1> QED  BY <1>1, <1>2, <1>3 DEF Reads

-----------------------------------------------------------------------------
(* The inductive invariant *)

Base == [base_id : Nat, cycle_count : Nat, score_count : Nat]

Delta == [delta_id : Nat, base_id : Nat, sequence_no : Nat,
          new_traces : Seq(Nat), new_scores : Seq(Nat)]

NewTraces(chain) == [i \in DOMAIN chain |-> chain[i].new_traces]

Loaded == base_files[LatestBase.base_id].traces \o FlattenSeq(NewTraces(Chain))

\* A readable bases.json says what memory says: both forget together.
Typed ==
    /\ block \in Nat /\ traces \in Seq(Nat) /\ scores \in Seq(Nat)
    /\ last_saved \in 0..Len(traces)
    /\ bases \in Seq(Base)
    /\ \A i \in 1..Len(bases) : bases[i].base_id <= block
    /\ metadata \in {Metadata(bases, deltas), Unreadable}

Ordered == Rising(traces) /\ UpTo(traces, block)

LatestKept == Loadable(base_files, LatestBase.base_id)

LatestReads ==
    /\ base_files[LatestBase.base_id].traces \in Seq(Nat)
    /\ Chain \in Seq(Delta)
    /\ Reads(Loaded, traces, last_saved, block)

\* What an interrupted clear removed is an old base, and does not come back.
Removed == cleared \subseteq 0..block /\ cleared \cap DOMAIN base_files = {}

Lost == LatestBase.base_id \in cleared

DInv == /\ Typed /\ Ordered /\ Removed
        /\ bases # <<>> => (Lost \/ (LatestKept /\ LatestReads))

LEMMA InitDInv == Init => DInv
<1> SUFFICES ASSUME Init PROVE DInv
  OBVIOUS
<1>1. <<>> \in Seq(Nat) /\ <<>> \in Seq(Base) /\ Len(<<>>) = 0
  BY EmptySeq
<1> QED  BY <1>1 DEF Init, DInv, Typed, Ordered, Removed, NoDeltas, Rising, UpTo

-----------------------------------------------------------------------------
(* The pieces of a step *)

\* The traces and the scores with those of one more block.
LEMMA BlockAdds ==
    ASSUME Typed, Ordered,
           NEW t \in {Append(traces, block + 1)}, NEW s \in {Assess(scores)}
    PROVE  /\ block + 1 \in Nat
           /\ t \in Seq(Nat) /\ Len(t) = Len(traces) + 1 /\ Len(traces) \in Nat
           /\ Rising(t) /\ UpTo(t, block + 1)
           /\ s \in Seq(Nat)
<1>1. /\ block \in Nat /\ block + 1 \in Nat /\ traces \in Seq(Nat) /\ Len(traces) \in Nat
      /\ scores \in Seq(Nat)
  BY LenProperties DEF Typed
<1>2. t = Append(traces, block + 1) /\ s = Assess(scores)
  OBVIOUS
<1>3. /\ t \in Seq(Nat) /\ Len(t) = Len(traces) + 1 /\ t[Len(traces) + 1] = block + 1
      /\ \A i \in 1..Len(traces) : t[i] = traces[i]
  BY <1>1, <1>2, AppendProperties
<1>4. \A i \in 1..Len(traces) : traces[i] \in Nat /\ traces[i] <= block
  BY <1>1, ElementOfSeq DEF Ordered, UpTo
<1>4a. ASSUME NEW i \in 1..Len(t) PROVE i \in 1..Len(traces) \/ i = Len(traces) + 1
  <2>1. Len(traces) \in Nat /\ Len(t) = Len(traces) + 1
    BY <1>1, <1>3
  <2> QED  BY <2>1
<1>5. UpTo(t, block + 1)
  <2> SUFFICES ASSUME NEW i \in 1..Len(t) PROVE t[i] <= block + 1
    BY DEF UpTo
  <2>1. CASE i = Len(traces) + 1
    BY <1>1, <1>3, <2>1
  <2>2. CASE i \in 1..Len(traces)
    <3>1. t[i] = traces[i] /\ traces[i] \in Nat /\ traces[i] <= block
      BY <1>3, <1>4, <2>2
    <3> QED  BY <1>1, <3>1
  <2> QED  BY <1>4a, <2>1, <2>2
<1>6. Rising(t)
  <2> SUFFICES ASSUME NEW i \in 1..Len(t), NEW j \in 1..Len(t), i < j
               PROVE  t[i] < t[j]
    BY DEF Rising
  <2>1. i \in 1..Len(traces)
    <3>1. (j \in 1..Len(traces) \/ j = Len(traces) + 1) /\ Len(traces) \in Nat
      BY <1>1, <1>4a
    <3>2. i \in 1..Len(traces) \/ i = Len(traces) + 1
      BY <1>4a
    <3> QED  BY <3>1, <3>2
  <2>2. CASE j = Len(traces) + 1
    <3>1. t[j] = block + 1 /\ t[i] = traces[i] /\ traces[i] \in Nat /\ traces[i] <= block
      BY <1>3, <1>4, <2>1, <2>2
    <3> QED  BY <1>1, <3>1
  <2>3. CASE j \in 1..Len(traces)
    BY <1>3, <2>1, <2>3 DEF Ordered, Rising
  <2> QED  BY <1>4a, <2>2, <2>3
<1>7. s \in Seq(Nat)
  <2> DEFINE grown == Append(scores, block + 1)
  <2>1. grown \in Seq(Nat) /\ grown # <<>>
    BY <1>1, AppendProperties
  <2>2. s = grown \/ s = Tail(grown)
    BY DEF Assess
  <2> HIDE DEF grown
  <2>3. Tail(grown) \in Seq(Nat)
    BY <2>1, HeadTailProperties
  <2> QED  BY <2>1, <2>2, <2>3
<1> QED  BY <1>1, <1>3, <1>5, <1>6, <1>7

\* The prune keeps the new base and the one before it.
LEMMA PruneKeepsNewest ==
    ASSUME Typed, NEW m \in Base, m.base_id = block + 1, NEW all \in {Append(bases, m)}
    PROVE  /\ PruneOldBases(all) \in Seq(Base)
           /\ PruneOldBases(all) # <<>> /\ Last(PruneOldBases(all)) = m
           /\ \A i \in 1..Len(PruneOldBases(all)) :
                  PruneOldBases(all)[i].base_id <= block + 1
           /\ block + 1 \notin PrunedIds(all)
           /\ bases # <<>> => LatestBase.base_id \notin PrunedIds(all)
<1> DEFINE n == Len(bases) + 1
           kept == PruneOldBases(all)
<1>1. bases \in Seq(Base) /\ Len(bases) \in Nat /\ n \in Nat /\ block \in Nat
  BY LenProperties DEF Typed
<1>2. all = Append(bases, m)
  OBVIOUS
<1>3. /\ all \in Seq(Base) /\ Len(all) = n /\ all[n] = m
      /\ \A i \in 1..Len(bases) : all[i] = bases[i]
  BY <1>1, <1>2, AppendProperties
<1>4. \A i \in 1..n : all[i] \in Base /\ all[i].base_id <= block + 1
  <2>1. \A i \in 1..Len(bases) : bases[i] \in Base /\ bases[i].base_id <= block
    BY <1>1, ElementOfSeq DEF Typed
  <2>2. ASSUME NEW i \in 1..Len(bases) PROVE all[i] \in Base /\ all[i].base_id <= block + 1
    <3>1. bases[i].base_id \in Nat
      BY <2>1 DEF Base
    <3> QED  BY <1>1, <1>3, <2>1, <3>1
  <2>3. m.base_id <= block + 1
    BY <1>1
  <2> QED  BY <1>1, <1>3, <2>2, <2>3
<1> HIDE DEF n
<1>5. PICK off \in Nat : /\ off < n
                         /\ bases # <<>> => off < n - 1
                         /\ kept \in Seq(Base) /\ Len(kept) = n - off
                         /\ \A i \in 1..(n - off) : kept[i] = all[off + i]
  <2>0. n # 0 /\ (bases # <<>> => n - 1 # 0)
    BY <1>1, EmptySeq DEF n
  <2>1. CASE n > MaxBases
    <3> DEFINE off == n - MaxBases
    <3>1. MaxBases \in Nat /\ MaxBases >= 2
      BY BasesAssumption
    <3>2. off \in Nat /\ off < n - 1 /\ off + 1 \in Int /\ n \in Int /\ n - off = MaxBases
      BY <1>1, <2>1, <3>1
    <3> HIDE DEF off
    <3>3. kept = SubSeq(all, off + 1, n)
      BY <1>3, <2>1 DEF PruneOldBases, off
    <3>4. \A i \in (off + 1)..n : all[i] \in Base
      BY <1>1, <1>4, <3>2
    <3>5. /\ kept \in Seq(Base)
          /\ Len(kept) = IF off + 1 <= n THEN n - (off + 1) + 1 ELSE 0
          /\ \A i \in 1..(n - (off + 1) + 1) : kept[i] = all[(off + 1) + i - 1]
      BY <3>2, <3>3, <3>4, SubSeqProperties
    <3> HIDE DEF kept
    <3>6. Len(kept) = n - off
      BY <1>1, <3>2, <3>5
    <3>7. ASSUME NEW i \in 1..(n - off) PROVE kept[i] = all[off + i]
      <4>1. i \in 1..(n - (off + 1) + 1) /\ (off + 1) + i - 1 = off + i
        BY <1>1, <3>2
      <4> QED  BY <3>5, <4>1
    <3>8. off \in Nat /\ off < n /\ (bases # <<>> => off < n - 1) /\ kept \in Seq(Base)
      BY <1>1, <3>2, <3>5
    <3> QED  BY <3>6, <3>7, <3>8
  <2>2. CASE ~ (n > MaxBases)
    <3>1. kept = all
      BY <1>3, <2>2 DEF PruneOldBases
    <3> HIDE DEF kept
    <3>2. 0 \in Nat /\ 0 < n /\ (bases # <<>> => 0 < n - 1) /\ n - 0 = n
      BY <1>1, <2>0
    <3>3. \A i \in 1..(n - 0) : kept[i] = all[0 + i]
      BY <1>1, <3>1
    <3> QED  BY <1>3, <3>1, <3>2, <3>3
  <2> QED  BY <2>1, <2>2
<1>6. DOMAIN kept = 1..Len(kept) /\ DOMAIN all = 1..n /\ Len(kept) \in Nat
  BY <1>3, <1>5, LenProperties
<1>7. kept # <<>> /\ Last(kept) = m /\ n - off \in DOMAIN kept /\ kept[n - off] = m
  <2>1. n - off \in 1..(n - off) /\ off + (n - off) = n
    BY <1>1, <1>5
  <2>2. kept[n - off] = m
    BY <1>3, <1>5, <2>1
  <2>3. kept # <<>>
    BY <1>5, <2>1
  <2> QED  BY <1>5, <1>6, <2>1, <2>2, <2>3 DEF Last
<1>8. \A i \in 1..Len(kept) : kept[i].base_id <= block + 1
  <2> SUFFICES ASSUME NEW i \in 1..Len(kept) PROVE kept[i].base_id <= block + 1
    OBVIOUS
  <2>1. i \in 1..(n - off) /\ off + i \in 1..n
    BY <1>1, <1>5
  <2> QED  BY <1>4, <1>5, <2>1
<1>9. bases # <<>> => \E i \in DOMAIN kept : kept[i] = LatestBase
  <2> SUFFICES ASSUME bases # <<>> PROVE \E i \in DOMAIN kept : kept[i] = LatestBase
    OBVIOUS
  <2>1. LatestBase = bases[n - 1] /\ n - 1 \in 1..Len(bases)
    <3>1. Len(bases) # 0
      BY <1>1, EmptySeq
    <3> QED  BY <1>1, <3>1 DEF LatestBase, Last, n
  <2> DEFINE i == n - 1 - off
  <2>2. i \in 1..(n - off) /\ off + i = n - 1
    BY <1>1, <1>5
  <2> HIDE DEF i
  <2>3. kept[i] = all[n - 1]
    BY <1>5, <2>2
  <2> QED  BY <1>3, <1>5, <1>6, <2>1, <2>2, <2>3
<1>10. \A i \in DOMAIN kept : kept[i].base_id \notin PrunedIds(all)
  BY DEF PrunedIds
<1> QED  BY <1>5, <1>7, <1>8, <1>9, <1>10

\* Whatever a save writes or prunes, the newest base keeps its file.
LEMMA FilesKeepLatest ==
    ASSUME Typed, bases # <<>>, LatestKept, NEW x,
           NEW m \in Base, m.base_id = block + 1,
           NEW files \in {base_files, With(base_files, block + 1, x),
                          Without(With(base_files, block + 1, x),
                                  PrunedIds(Append(bases, m)))}
    PROVE  /\ LatestBase.base_id \in DOMAIN files
           /\ files[LatestBase.base_id] = base_files[LatestBase.base_id]
<1> DEFINE id == LatestBase.base_id
           written == With(base_files, block + 1, x)
           gone == PrunedIds(Append(bases, m))
<1>1. id \in DOMAIN base_files /\ id # block + 1
  <2>1. id \in DOMAIN base_files
    BY DEF LatestKept, Loadable
  <2>2. Len(bases) \in 1..Len(bases)
    <3>1. Len(bases) \in Nat \ {0}
      BY EmptySeq DEF Typed
    <3> QED  BY <3>1
  <2>3. id \in Nat /\ id <= block
    <3>1. bases[Len(bases)] \in Base
      BY <2>2, ElementOfSeq DEF Typed
    <3> QED  BY <2>2, <3>1 DEF Typed, LatestBase, Last, Base
  <2> QED  BY <2>1, <2>3 DEF Typed
<1>2. id \in DOMAIN written /\ written[id] = base_files[id]
  BY <1>1 DEF With
<1>3. id \notin gone
  BY PruneKeepsNewest
<1>4. id \in DOMAIN Without(written, gone) /\ Without(written, gone)[id] = base_files[id]
  <2> HIDE DEF written, gone
  <2> QED  BY <1>2, <1>3 DEF Without
<1> QED  BY <1>1, <1>2, <1>4

\* So it reads as before while memory knows the same checkpoints.
LEMMA LatestUnchanged ==
    ASSUME bases # <<>>, LatestKept, bases' = bases, deltas' = deltas,
           LatestBase.base_id \in DOMAIN base_files',
           base_files'[LatestBase.base_id] = base_files[LatestBase.base_id]
    PROVE  LatestKept' /\ Chain' = Chain /\ Loaded' = Loaded /\ LatestBase' = LatestBase
<1>1. LatestBase' = LatestBase
  BY DEF LatestBase
<1>2. Chain' = Chain
  BY <1>1 DEF Chain
<1> QED  BY <1>1, <1>2 DEF LatestKept, Loadable, Loaded

\* A file a save writes is no file that is gone.
LEMMA RemovedStays ==
    ASSUME Removed, block \in Nat, block' \in {block, block + 1}, cleared' = cleared,
           NEW x, NEW S,
           base_files' \in {base_files, With(base_files, block + 1, x),
                            Without(With(base_files, block + 1, x), S)}
    PROVE  Removed'
<1>1. DOMAIN base_files' \subseteq DOMAIN base_files \cup {block + 1}
  BY DEF With, Without
<1>2. cleared \subseteq 0..block /\ cleared \cap DOMAIN base_files = {}
  BY DEF Removed
<1>3. block + 1 \notin 0..block /\ 0..block \subseteq 0..block'
  OBVIOUS
<1> QED  BY <1>1, <1>2, <1>3 DEF Removed

-----------------------------------------------------------------------------
(* The steps *)

\* A block whose checkpoint fails: memory and bases.json stay as they were.
LEMMA FailedSaveKeepsDInv ==
    ASSUME DInv, NewBlock, UNCHANGED <<bases, deltas, last_saved, metadata, cleared>>,
           NEW x, base_files' \in {base_files, With(base_files, block + 1, x)}
    PROVE  DInv'
<1>1. /\ Typed /\ Ordered /\ Removed
      /\ block' = block + 1 /\ traces' = Append(traces, block + 1)
      /\ scores' = Assess(scores)
  BY DEF DInv, NewBlock
<1>2. /\ block + 1 \in Nat /\ block \in Nat /\ traces \in Seq(Nat)
      /\ traces' \in Seq(Nat) /\ Len(traces') = Len(traces) + 1 /\ Len(traces) \in Nat
      /\ Rising(traces') /\ UpTo(traces', block + 1) /\ scores' \in Seq(Nat)
  BY <1>1, BlockAdds DEF Typed
<1>3. Typed'
  <2>1. \A i \in 1..Len(bases) : bases[i].base_id <= block + 1
    <3>1. \A i \in 1..Len(bases) : bases[i] \in Base
      BY <1>1, ElementOfSeq DEF Typed
    <3>2. \A i \in 1..Len(bases) : bases[i].base_id \in Nat
      BY <3>1 DEF Base
    <3> QED  BY <1>1, <1>2, <3>2 DEF Typed
  <2>2. last_saved \in 0..Len(traces')
    <3>1. last_saved \in 0..Len(traces)
      BY <1>1 DEF Typed
    <3> QED  BY <1>2, <3>1
  <2> QED  BY <1>1, <1>2, <2>1, <2>2 DEF Typed
<1>4. Ordered'
  BY <1>1, <1>2 DEF Ordered
<1>5. ASSUME bases # <<>>, ~Lost PROVE LatestKept' /\ LatestReads'
  <2>1. LatestKept /\ LatestReads
    BY <1>5 DEF DInv
  <2>2. /\ LatestBase.base_id \in DOMAIN base_files'
        /\ base_files'[LatestBase.base_id] = base_files[LatestBase.base_id]
    <3>1. PICK m \in Base : m.base_id = block + 1
      <4>1. [base_id |-> block + 1, cycle_count |-> 0, score_count |-> 0] \in Base
        BY <1>2 DEF Base
      <4> QED  BY <4>1
    <3> QED  BY <1>1, <1>5, <2>1, <3>1, FilesKeepLatest
  <2>3. LatestKept' /\ Chain' = Chain /\ Loaded' = Loaded /\ LatestBase' = LatestBase
    BY <1>5, <2>1, <2>2, LatestUnchanged
  <2>4. Reads(Loaded, traces', last_saved, block + 1)
    <3>1. last_saved \in 0..Len(traces) /\ Reads(Loaded, traces, last_saved, block)
      BY <1>1, <2>1 DEF Typed, LatestReads
    <3> HIDE DEF Loaded
    <3> QED  BY <1>1, <1>2, <3>1, ReadsUnsaved
  <2>5. /\ base_files'[LatestBase'.base_id].traces \in Seq(Nat)
        /\ Chain' \in Seq(Delta)
    BY <2>1, <2>2, <2>3 DEF LatestReads
  <2> QED  BY <1>1, <2>3, <2>4, <2>5 DEF LatestReads
<1>6. Removed' /\ Lost' = Lost
  <2>1. Removed'
    BY <1>1, <1>2, RemovedStays
  <2> QED  BY <2>1 DEF Lost, LatestBase
<1> QED  BY <1>3, <1>4, <1>5, <1>6 DEF DInv

\* The next process, whatever the crash left of the save it cut short.
LEMMA CrashKeepsDInv ==
    ASSUME DInv, NEW file \in {metadata, Unreadable}, NextProcess(file),
           cleared' = cleared, block' \in {block, block + 1}, NEW x, NEW m \in Base, m.base_id = block + 1,
           base_files' \in {base_files, With(base_files, block + 1, x),
                            Without(With(base_files, block + 1, x),
                                    PrunedIds(Append(bases, m)))}
    PROVE  DInv'
<1>1. /\ Typed /\ Ordered /\ Removed
      /\ block \in Nat /\ block' \in Nat /\ block <= block'
      /\ traces' = <<>> /\ scores' = <<>> /\ last_saved' = 0 /\ metadata' = file
      /\ bases' = file.bases /\ deltas' = file.deltas
  BY DEF DInv, Typed, NextProcess
<1>2. <<>> \in Seq(Nat) /\ <<>> \in Seq(Base) /\ Len(<<>>) = 0
  BY EmptySeq
<1>3. Ordered' /\ Removed'
  <2>1. Removed'
    BY <1>1, RemovedStays
  <2> QED  BY <1>1, <1>2, <2>1 DEF Ordered, Rising, UpTo
<1>4. CASE file = Unreadable
  <2>1. bases' = <<>> /\ metadata' = Unreadable
    BY <1>1, <1>4 DEF Unreadable
  <2>2. Typed'
    BY <1>1, <1>2, <2>1 DEF Typed
  <2> QED  BY <1>3, <2>1, <2>2 DEF DInv
<1>5. CASE file = Metadata(bases, deltas)
  <2>1. bases' = bases /\ deltas' = deltas /\ metadata' = Metadata(bases', deltas')
    BY <1>1, <1>5 DEF Metadata
  <2>2. Typed'
    <3>1. \A i \in 1..Len(bases) : bases[i] \in Base
      BY <1>1, ElementOfSeq DEF Typed
    <3>2. \A i \in 1..Len(bases) : bases[i].base_id \in Nat
      BY <3>1 DEF Base
    <3>3. \A i \in 1..Len(bases') : bases'[i].base_id <= block'
      BY <1>1, <2>1, <3>2 DEF Typed
    <3> QED  BY <1>1, <1>2, <2>1, <3>3 DEF Typed
  <2>3. ASSUME bases # <<>>, ~Lost PROVE LatestKept' /\ LatestReads'
    <3>1. LatestKept /\ LatestReads
      BY <2>3 DEF DInv
    <3>2. /\ LatestBase.base_id \in DOMAIN base_files'
          /\ base_files'[LatestBase.base_id] = base_files[LatestBase.base_id]
      BY <1>1, <2>3, <3>1, FilesKeepLatest
    <3>3. LatestKept' /\ Chain' = Chain /\ Loaded' = Loaded /\ LatestBase' = LatestBase
      BY <2>1, <2>3, <3>1, <3>2, LatestUnchanged
    <3>4. Reads(Loaded, <<>>, 0, block')
      BY <1>1, <3>1, ReadsCrash DEF LatestReads
    <3>5. /\ base_files'[LatestBase'.base_id].traces \in Seq(Nat)
          /\ Chain' \in Seq(Delta)
      BY <3>1, <3>2, <3>3 DEF LatestReads
    <3> QED  BY <1>1, <3>3, <3>4, <3>5 DEF LatestReads
  <2>4. Lost' = Lost
    BY <2>1 DEF Lost, LatestBase
  <2> QED  BY <1>3, <2>1, <2>2, <2>3, <2>4 DEF DInv
<1> QED  BY <1>1, <1>4, <1>5 DEF Typed

LEMMA SaveBaseKeepsDInv ==
    ASSUME DInv, SaveBase
    PROVE  DInv'
<1> DEFINE meta == BaseMeta(block + 1, traces', scores')
           all == Append(bases, meta)
           new == Snapshot(traces', scores')
<1>1. /\ Typed /\ Ordered /\ Removed /\ cleared' = cleared
      /\ block' = block + 1 /\ traces' = Append(traces, block + 1)
      /\ scores' = Assess(scores)
      /\ deltas' = NoDeltas /\ last_saved' = Len(traces')
      /\ bases' = PruneOldBases(all)
      /\ base_files' = Without(With(base_files, block + 1, new), PrunedIds(all))
      /\ metadata' \in {Metadata(bases', deltas'), Unreadable}
  BY DEF DInv, SaveBase, NewBlock, BasesWithNew, NewBaseFile, WriteMetadata
<1>2. /\ block + 1 \in Nat /\ traces' \in Seq(Nat) /\ Len(traces') \in Nat
      /\ Rising(traces') /\ UpTo(traces', block + 1)
      /\ scores' \in Seq(Nat) /\ Len(scores') \in Nat
  <2>1. /\ block + 1 \in Nat /\ traces' \in Seq(Nat)
        /\ Rising(traces') /\ UpTo(traces', block + 1) /\ scores' \in Seq(Nat)
    BY <1>1, BlockAdds
  <2> QED  BY <2>1, LenProperties
<1>3. meta \in Base /\ meta.base_id = block + 1
  BY <1>2 DEF BaseMeta, Base
<1>4. /\ bases' \in Seq(Base) /\ bases' # <<>> /\ Last(bases') = meta
      /\ \A i \in 1..Len(bases') : bases'[i].base_id <= block + 1
      /\ block + 1 \notin PrunedIds(all)
  <2> HIDE DEF meta
  <2> QED  BY <1>1, <1>3, PruneKeepsNewest
<1>5. LatestBase'.base_id = block + 1 /\ block + 1 \in DOMAIN base_files'
      /\ base_files'[block + 1] = new
  <2>1. LatestBase'.base_id = block + 1
    BY <1>3, <1>4 DEF LatestBase
  <2> DEFINE written == With(base_files, block + 1, new)
  <2>2. block + 1 \in DOMAIN written /\ written[block + 1] = new
    BY DEF With
  <2> HIDE DEF written, new, all
  <2>3. base_files' = Without(written, PrunedIds(all))
    BY <1>1 DEF written
  <2> QED  BY <1>4, <2>1, <2>2, <2>3 DEF Without
<1>6. new.traces = traces' /\ new.complete = TRUE
  BY DEF Snapshot
<1>7. Typed'
  <2>1. Len(traces') \in 0..Len(traces')
    BY <1>2
  <2> QED  BY <1>1, <1>2, <1>4, <2>1 DEF Typed
<1>8. Ordered'
  BY <1>1, <1>2 DEF Ordered
<1>9. Chain' = <<>> /\ Chain' \in Seq(Delta)
  <2>1. LatestBase'.base_id \notin DOMAIN deltas'
    BY <1>1 DEF NoDeltas
  <2> QED  BY <2>1, EmptySeq DEF Chain
<1> HIDE DEF new
<1>10. LatestKept'
  BY <1>5, <1>6 DEF LatestKept, Loadable
<1>11. Loaded' = traces'
  <2>1. NewTraces(<<>>) = <<>>
    BY DEF NewTraces
  <2>2. FlattenSeq(<<>>) = <<>>
    BY DEF FlattenSeq
  <2>3. Loaded' = traces' \o FlattenSeq(NewTraces(<<>>))
    BY <1>5, <1>6, <1>9 DEF Loaded
  <2> QED  BY <1>2, <2>1, <2>2, <2>3, ConcatEmptySeq
<1>12. Reads(traces', traces', Len(traces'), block + 1)
  BY <1>2, ReadsBase
<1>13. LatestReads'
  BY <1>1, <1>2, <1>5, <1>6, <1>9, <1>11, <1>12 DEF LatestReads
<1>14. Removed'
  BY <1>1, RemovedStays DEF Typed
<1> QED  BY <1>7, <1>8, <1>10, <1>13, <1>14 DEF DInv

\* The new traces of a chain with one delta more.
LEMMA ChainGrows ==
    ASSUME NEW chain \in Seq(Delta), NEW d \in Delta
    PROVE  /\ NewTraces(chain) \in Seq(Seq(Nat))
           /\ Append(chain, d) \in Seq(Delta)
           /\ NewTraces(Append(chain, d)) = Append(NewTraces(chain), d.new_traces)
<1> DEFINE n == Len(chain)
           longer == Append(chain, d)
           T == NewTraces(chain)
           U == NewTraces(longer)
<1>1. /\ n \in Nat /\ DOMAIN chain = 1..n
      /\ longer \in Seq(Delta) /\ Len(longer) = n + 1 /\ longer[n + 1] = d
      /\ \A i \in 1..n : longer[i] = chain[i]
  BY LenProperties, AppendProperties
<1>2. DOMAIN longer = 1..(n + 1)
  BY <1>1, LenProperties
<1> HIDE DEF n, longer
<1>3. \A i \in 1..n : chain[i].new_traces \in Seq(Nat)
  <2>1. \A i \in 1..n : chain[i] \in Delta
    BY ElementOfSeq DEF n
  <2> QED  BY <2>1 DEF Delta
<1>4. T \in [1..n -> Seq(Nat)] /\ \A i \in 1..n : T[i] = chain[i].new_traces
  BY <1>1, <1>3 DEF NewTraces
<1>5. U = [i \in 1..(n + 1) |-> longer[i].new_traces]
  BY <1>2 DEF NewTraces
<1>6. d.new_traces \in Seq(Nat)
  BY DEF Delta
<1>7. /\ U \in [1..(n + 1) -> Seq(Nat)]
      /\ \A i \in 1..n : U[i] = T[i]
      /\ U[n + 1] = d.new_traces
  <2>1. \A i \in 1..n : i \in 1..(n + 1)
    BY <1>1
  <2>2. n + 1 \in 1..(n + 1) /\ n + 1 \in Nat
    BY <1>1
  <2>3. \A i \in 1..n : U[i] = T[i]
    BY <1>1, <1>4, <1>5, <2>1
  <2>4. U[n + 1] = d.new_traces
    BY <1>1, <1>5, <2>2
  <2>5. \A i \in 1..(n + 1) : longer[i].new_traces \in Seq(Nat)
    <3>1. \A i \in 1..(n + 1) : i \in 1..n \/ i = n + 1
      BY <1>1
    <3> QED  BY <1>1, <1>3, <1>6, <3>1
  <2> QED  BY <1>5, <2>3, <2>4, <2>5
<1> HIDE DEF T, U
<1>8. T \in Seq(Seq(Nat)) /\ Len(T) = n /\ U \in Seq(Seq(Nat)) /\ Len(U) = n + 1
  <2>1. n + 1 \in Nat
    BY <1>1
  <2>2. T \in Seq(Seq(Nat)) /\ U \in Seq(Seq(Nat))
    BY <1>1, <1>4, <1>7, <2>1, SeqDef
  <2> QED  BY <1>1, <1>4, <1>7, <2>1, <2>2
<1>9. U = Append(T, d.new_traces)
  <2> DEFINE A == Append(T, d.new_traces)
  <2>1. /\ A \in Seq(Seq(Nat)) /\ Len(A) = n + 1 /\ A[n + 1] = d.new_traces
        /\ \A i \in 1..n : A[i] = T[i]
    BY <1>6, <1>8, AppendProperties
  <2> HIDE DEF A
  <2>2. ASSUME NEW i \in 1..Len(U) PROVE U[i] = A[i]
    <3>1. i \in 1..n \/ i = n + 1
      BY <1>1, <1>8
    <3> QED  BY <1>7, <2>1, <3>1
  <2>3. U = A
    BY <1>8, <2>1, <2>2, SeqEqual
  <2> QED  BY <2>3 DEF A
<1> QED  BY <1>1, <1>8, <1>9 DEF T, U, longer

\* A delta of a base that is there is read back with it.
LEMMA SaveDeltaReads ==
    ASSUME DInv, SaveDelta, ~Lost
    PROVE  LatestKept' /\ LatestReads'
<1> DEFINE id == LatestBase.base_id
           new == SubSeq(traces', last_saved + 1, Len(traces'))
<1>1. /\ Typed /\ Ordered
      /\ block' = block + 1 /\ traces' = Append(traces, block + 1)
      /\ scores' = Assess(scores) /\ last_saved' = Len(traces')
      /\ bases' = bases /\ base_files' = base_files
      /\ deltas' = With(deltas, id, Append(Chain, NewSegment))
      /\ metadata' \in {Metadata(bases', deltas'), Unreadable}
      /\ bases # <<>> /\ LatestKept /\ LatestReads
  BY DEF DInv, SaveDelta, NewBlock, ChainWithNew, WriteMetadata, ShouldWriteBase
<1>2. /\ block + 1 \in Nat /\ block \in Nat /\ traces' \in Seq(Nat)
      /\ Len(traces') = Len(traces) + 1 /\ Len(traces) \in Nat
      /\ Rising(traces') /\ UpTo(traces', block + 1)
      /\ scores' \in Seq(Nat) /\ Len(scores') \in Nat
  <2>1. /\ block + 1 \in Nat /\ block \in Nat /\ traces' \in Seq(Nat)
        /\ Len(traces') = Len(traces) + 1 /\ Len(traces) \in Nat
        /\ Rising(traces') /\ UpTo(traces', block + 1) /\ scores' \in Seq(Nat)
    BY <1>1, BlockAdds DEF Typed
  <2> QED  BY <2>1, LenProperties
<1>3. /\ Reads(Loaded, traces, last_saved, block)
      /\ last_saved \in 0..Len(traces) /\ last_saved \in 0..Len(traces')
  <2>1. last_saved \in 0..Len(traces)
    BY <1>1 DEF Typed
  <2>2. last_saved \in 0..Len(traces')
    BY <1>2, <2>1
  <2> QED  BY <1>1, <2>1, <2>2 DEF LatestReads
<1> DEFINE held == Loaded
<1>4. Reads(held, traces', last_saved, block + 1)
  <2> HIDE DEF held
  <2>1. Reads(held, traces, last_saved, block)
    BY <1>3 DEF held
  <2> QED  BY <1>1, <1>2, <1>3, <2>1, ReadsUnsaved DEF Typed
<1>5. new \in Seq(Nat) /\ Reads(held \o new, traces', Len(traces'), block + 1)
  <2> HIDE DEF held
  <2> QED  BY <1>2, <1>3, <1>4, ReadsDelta
<1>6. LatestBase \in Base /\ id \in Nat
  <2>1. Len(bases) \in 1..Len(bases)
    <3>1. Len(bases) \in Nat \ {0}
      BY <1>1, EmptySeq DEF Typed
    <3> QED  BY <3>1
  <2>2. bases[Len(bases)] \in Base
    BY <1>1, <2>1, ElementOfSeq DEF Typed
  <2>3. LatestBase \in Base
    BY <2>2 DEF LatestBase, Last
  <2> QED  BY <2>3 DEF Base
<1>7. Chain \in Seq(Delta) /\ Len(Chain) \in Nat
  BY <1>1, LenProperties DEF LatestReads
<1>8. NewSegment \in Delta /\ NewSegment.new_traces = new
  <2> DEFINE from == LatestBase.score_count
             tail == SubSeq(scores', from + 1, Len(scores'))
  <2>1. from \in Nat
    BY <1>6 DEF Base
  <2>2. tail \in Seq(Nat)
    <3>1. \A i \in 1..Len(scores') : scores'[i] \in Nat
      BY <1>2, ElementOfSeq
    <3>2. /\ from + 1 \in Int /\ Len(scores') \in Int
          /\ \A i \in (from + 1)..Len(scores') : scores'[i] \in Nat
      BY <1>2, <2>1, <3>1
    <3> QED  BY <3>2, SubSeqProperties
  <2>3. NextSequence \in Nat
    BY <1>7 DEF NextSequence
  <2>4. NewSegment = [delta_id |-> block + 1, base_id |-> id, sequence_no |-> NextSequence,
                      new_traces |-> new, new_scores |-> tail]
    BY DEF NewSegment, Segment
  <2> HIDE DEF tail, new, id
  <2> QED  BY <1>2, <1>5, <1>6, <2>2, <2>3, <2>4 DEF Delta
<1>9. LatestBase' = LatestBase /\ Chain' = Append(Chain, NewSegment)
  <2>1. LatestBase' = LatestBase
    BY <1>1 DEF LatestBase
  <2> DEFINE longer == Append(Chain, NewSegment)
  <2>2. id \in DOMAIN With(deltas, id, longer) /\ With(deltas, id, longer)[id] = longer
    <3> HIDE DEF longer
    <3> QED  BY DEF With
  <2>3. deltas' = With(deltas, id, longer)
    BY <1>1
  <2> HIDE DEF longer
  <2>4. id \in DOMAIN deltas' /\ deltas'[id] = longer
    BY <2>2, <2>3
  <2>5. Chain' = longer
    BY <2>1, <2>4 DEF Chain
  <2> QED  BY <2>1, <2>5 DEF longer
<1>10. LatestKept'
  BY <1>1, <1>9 DEF LatestKept, Loadable
<1> DEFINE first == base_files[id].traces
           parts == NewTraces(Chain)
<1>11. /\ parts \in Seq(Seq(Nat)) /\ Chain' \in Seq(Delta)
       /\ NewTraces(Chain') = Append(parts, new)
  <2>1. NewSegment \in Delta /\ NewSegment.new_traces = new
    BY <1>8
  <2> HIDE DEF new
  <2> QED  BY <1>7, <1>9, <2>1, ChainGrows
<1>12. Loaded' = held \o new
  <2>1. Loaded' = first \o FlattenSeq(NewTraces(Chain'))
    BY <1>1, <1>9 DEF Loaded
  <2>2. held = first \o FlattenSeq(parts)
    BY DEF Loaded
  <2>3. first \in Seq(Nat)
    BY <1>1 DEF LatestReads
  <2> HIDE DEF held, first, parts, new
  <2>4. parts \in Seq(Seq(Nat)) /\ new \in Seq(Nat)
    BY <1>5, <1>11
  <2> DEFINE joined == FlattenSeq(parts)
  <2>5. joined \in Seq(Nat) /\ FlattenSeq(Append(parts, new)) = joined \o new
    BY <2>4, FlattenAppend, Zenon
  <2> HIDE DEF joined
  <2>6. Regroups(first, joined, new)
    BY <2>3, <2>4, <2>5, Regroup, Zenon
  <2> QED  BY <1>11, <2>1, <2>2, <2>5, <2>6 DEF joined, Regroups
<1>13. LatestReads'
  <2>1. base_files'[LatestBase'.base_id].traces \in Seq(Nat)
    BY <1>1, <1>9 DEF LatestReads
  <2>2. Reads(Loaded', traces', last_saved', block')
    BY <1>1, <1>5, <1>12
  <2> QED  BY <1>11, <2>1, <2>2 DEF LatestReads
<1> QED  BY <1>10, <1>13

LEMMA SaveDeltaKeepsDInv ==
    ASSUME DInv, SaveDelta
    PROVE  DInv'
<1>1. /\ Typed /\ Ordered /\ Removed
      /\ block' = block + 1 /\ traces' = Append(traces, block + 1)
      /\ scores' = Assess(scores) /\ last_saved' = Len(traces')
      /\ bases' = bases /\ base_files' = base_files /\ cleared' = cleared
      /\ metadata' \in {Metadata(bases', deltas'), Unreadable}
  BY DEF DInv, SaveDelta, NewBlock, WriteMetadata
<1>2. /\ block + 1 \in Nat /\ block \in Nat /\ traces' \in Seq(Nat)
      /\ Len(traces') \in Nat
      /\ Rising(traces') /\ UpTo(traces', block + 1) /\ scores' \in Seq(Nat)
  <2>1. /\ block + 1 \in Nat /\ block \in Nat /\ traces' \in Seq(Nat)
        /\ Rising(traces') /\ UpTo(traces', block + 1) /\ scores' \in Seq(Nat)
    BY <1>1, BlockAdds DEF Typed
  <2> QED  BY <2>1, LenProperties
<1>3. Typed'
  <2>1. \A i \in 1..Len(bases) : bases[i].base_id <= block + 1
    <3>1. \A i \in 1..Len(bases) : bases[i] \in Base
      BY <1>1, ElementOfSeq DEF Typed
    <3>2. \A i \in 1..Len(bases) : bases[i].base_id \in Nat
      BY <3>1 DEF Base
    <3> QED  BY <1>1, <1>2, <3>2 DEF Typed
  <2>2. last_saved' \in 0..Len(traces')
    BY <1>1, <1>2
  <2> QED  BY <1>1, <1>2, <2>1, <2>2 DEF Typed
<1>4. Ordered'
  BY <1>1, <1>2 DEF Ordered
<1>5. Removed' /\ Lost' = Lost
  <2>1. Removed'
    BY <1>1, <1>2, RemovedStays
  <2> QED  BY <1>1, <2>1 DEF Lost, LatestBase
<1>6. ~Lost => (LatestKept' /\ LatestReads')
  BY SaveDeltaReads
<1> QED  BY <1>3, <1>4, <1>5, <1>6 DEF DInv

\* The next process after a clear that a crash cut short.
LEMMA CrashInClearKeepsDInv ==
    ASSUME DInv, CrashInClear
    PROVE  DInv'
<1>1. PICK n \in 0..Len(bases), file \in {metadata, Unreadable} :
          /\ base_files' = Without(base_files, BaseIds(n))
          /\ cleared' = cleared \cup BaseIds(n)
          /\ NextProcess(file)
  BY DEF CrashInClear
<1>2. /\ Typed /\ Ordered /\ Removed /\ block \in Nat /\ block' = block
      /\ traces' = <<>> /\ scores' = <<>> /\ last_saved' = 0 /\ metadata' = file
      /\ bases' = file.bases /\ deltas' = file.deltas
  BY <1>1 DEF DInv, Typed, NextProcess, CrashInClear
<1>3. <<>> \in Seq(Nat) /\ <<>> \in Seq(Base) /\ Len(<<>>) = 0
  BY EmptySeq
<1>4. Ordered'
  BY <1>2, <1>3 DEF Ordered, Rising, UpTo
<1>5. BaseIds(n) \subseteq 0..block
  <2>1. \A i \in 1..Len(bases) : bases[i] \in Base /\ bases[i].base_id <= block
    BY <1>2, ElementOfSeq DEF Typed
  <2>2. \A i \in 1..Len(bases) : bases[i].base_id \in 0..block
    BY <1>2, <2>1 DEF Base
  <2>3. 1..n \subseteq 1..Len(bases)
    <3>1. Len(bases) \in Nat
      BY <1>2, LenProperties DEF Typed
    <3> QED  BY <3>1
  <2> QED  BY <2>2, <2>3 DEF BaseIds
<1>6. Removed'
  <2> DEFINE ids == BaseIds(n)
  <2>1. base_files' = Without(base_files, ids) /\ cleared' = cleared \cup ids
    BY <1>1
  <2>2. ids \subseteq 0..block
    BY <1>5
  <2> HIDE DEF ids
  <2>3. DOMAIN base_files' = DOMAIN base_files \ ids
    BY <2>1 DEF Without
  <2> QED  BY <1>2, <2>1, <2>2, <2>3 DEF Removed
<1>7. CASE file = Unreadable
  <2>1. bases' = <<>> /\ metadata' = Unreadable
    BY <1>2, <1>7 DEF Unreadable
  <2>2. Typed'
    BY <1>2, <1>3, <2>1 DEF Typed
  <2> QED  BY <1>4, <1>6, <2>1, <2>2 DEF DInv
<1>8. CASE file = Metadata(bases, deltas)
  <2>1. bases' = bases /\ deltas' = deltas /\ metadata' = Metadata(bases', deltas')
    BY <1>2, <1>8 DEF Metadata
  <2>2. Typed'
    BY <1>2, <1>3, <2>1 DEF Typed
  <2>3. LatestBase' = LatestBase /\ Chain' = Chain
    BY <2>1 DEF LatestBase, Chain
  <2>4. ASSUME bases # <<>>, ~Lost' PROVE LatestKept' /\ LatestReads'
    <3> DEFINE id == LatestBase.base_id
               ids == BaseIds(n)
    <3>1. id \notin cleared /\ id \notin ids
      BY <1>1, <2>3, <2>4 DEF Lost
    <3>2. LatestKept /\ LatestReads
      BY <2>4, <3>1 DEF DInv, Lost
    <3>3. base_files' = Without(base_files, ids) /\ id \in DOMAIN base_files
      BY <1>1, <3>2 DEF LatestKept, Loadable
    <3>4. id \in DOMAIN base_files' /\ base_files'[id] = base_files[id]
      <4> HIDE DEF id, ids
      <4> QED  BY <3>1, <3>3 DEF Without
    <3>5. LatestKept' /\ Loaded' = Loaded
      BY <2>1, <2>4, <3>2, <3>4, LatestUnchanged
    <3>6. Reads(Loaded, <<>>, 0, block)
      BY <1>2, <3>2, ReadsCrash DEF LatestReads
    <3>7. /\ base_files'[LatestBase'.base_id].traces \in Seq(Nat)
          /\ Chain' \in Seq(Delta)
      BY <2>3, <3>2, <3>4 DEF LatestReads
    <3> QED  BY <1>2, <3>5, <3>6, <3>7 DEF LatestReads
  <2> QED  BY <1>4, <1>6, <2>1, <2>2, <2>4 DEF DInv
<1> QED  BY <1>2, <1>7, <1>8 DEF Typed

\* In every reachable state, the newest checkpoint can be loaded and reads as
\* it should, or an interrupted clear removed its file.
THEOREM CheckpointInvariance == Spec => []DInv
<1>1. DInv /\ [Next]_vars => DInv'
  <2> SUFFICES ASSUME DInv, [Next]_vars PROVE DInv'
    OBVIOUS
  <2>1. CASE SaveBase
    BY <2>1, SaveBaseKeepsDInv
  <2>2. CASE SaveBaseFails
    BY <2>2, FailedSaveKeepsDInv DEF SaveBaseFails
  <2>3. CASE SaveDelta
    BY <2>3, SaveDeltaKeepsDInv
  <2>4. CASE SaveDeltaFails
    BY <2>4, FailedSaveKeepsDInv DEF SaveDeltaFails
  <2>5. CASE Clear
    <3>1. <<>> \in Seq(Base) /\ Len(<<>>) = 0
      BY EmptySeq
    <3>2. DOMAIN base_files' \subseteq DOMAIN base_files
      <4> DEFINE ids == BaseIds(Len(bases))
      <4>1. base_files' = Without(base_files, ids)
        BY <2>5 DEF Clear
      <4> HIDE DEF ids
      <4> QED  BY <4>1 DEF Without
    <3>3. Removed'
      BY <2>5, <3>2 DEF Clear, DInv, Removed
    <3> QED  BY <2>5, <3>1, <3>3 DEF Clear, WriteMetadata, DInv, Typed, Ordered
  <2>6. PICK m \in Base : m = BaseMeta(block + 1, Append(traces, block + 1), Assess(scores))
    <3>1. Typed /\ Ordered
      BY DEF DInv
    <3> DEFINE t == Append(traces, block + 1)
               s == Assess(scores)
    <3>2. t \in Seq(Nat) /\ s \in Seq(Nat) /\ block + 1 \in Nat
      BY <3>1, BlockAdds
    <3>3. Len(t) \in Nat /\ Len(s) \in Nat
      BY <3>2, LenProperties
    <3> HIDE DEF t, s
    <3>4. BaseMeta(block + 1, t, s) \in Base
      BY <3>2, <3>3 DEF BaseMeta, Base
    <3> QED  BY <3>4 DEF t, s
  <2>7. m.base_id = block + 1
    BY <2>6 DEF BaseMeta
  <2>8. CASE Crash
    BY <2>7, <2>8, CrashKeepsDInv DEF Crash
  <2>9. CASE CrashInSaveBase
    <3> DEFINE grown == Append(traces, block + 1)
               new == Append(bases, m)
               written == With(base_files, block + 1, Snapshot(grown, Assess(scores)))
               pruned == Without(written, PrunedIds(new))
    <3>1. \/ base_files' = With(base_files, block + 1, Partial) /\ NextProcess(metadata)
          \/ base_files' = written /\ NextProcess(metadata)
          \/ base_files' = pruned /\ NextProcess(metadata)
          \/ base_files' = pruned /\ NextProcess(Unreadable)
      BY <2>6, <2>9 DEF CrashInSaveBase
    <3>2. block' = block + 1 /\ cleared' = cleared
      BY <2>9 DEF CrashInSaveBase
    <3>3. CASE base_files' = With(base_files, block + 1, Partial) /\ NextProcess(metadata)
      BY <2>7, <3>2, <3>3, CrashKeepsDInv
    <3>4. ASSUME NEW file \in {metadata, Unreadable}, NextProcess(file),
                 base_files' \in {written, pruned}
          PROVE  DInv'
      BY <2>7, <3>2, <3>4, CrashKeepsDInv
    <3> QED  BY <3>1, <3>3, <3>4
  <2>10. CASE CrashInSaveDelta
    <3>1. PICK file \in {metadata, Unreadable} : NextProcess(file)
      BY <2>10 DEF CrashInSaveDelta
    <3>2. block' = block + 1 /\ base_files' = base_files /\ cleared' = cleared
      BY <2>10 DEF CrashInSaveDelta
    <3> QED  BY <2>7, <3>1, <3>2, CrashKeepsDInv
  <2>11. CASE UNCHANGED vars
    <3>1. /\ block' = block /\ traces' = traces /\ scores' = scores /\ bases' = bases
          /\ deltas' = deltas /\ last_saved' = last_saved /\ base_files' = base_files
          /\ metadata' = metadata /\ cleared' = cleared
      BY <2>11 DEF vars, memory, disk
    <3> QED  BY <3>1 DEF DInv, Typed, Ordered, Removed, Lost, LatestKept, Loadable, LatestReads, Loaded,
                          Chain, LatestBase
  <2>12. CASE CrashInClear
    BY <2>12, CrashInClearKeepsDInv
  <2> QED  BY <2>1, <2>2, <2>3, <2>4, <2>5, <2>8, <2>9, <2>10, <2>11, <2>12 DEF Next
<1> QED  BY <1>1, InitDInv, PTL DEF Spec

\* The newest base that memory or a readable bases.json knows can be loaded,
\* whatever write fails or is cut short and whatever save prunes, unless a
\* clear that a crash interrupted removed its file.
THEOREM LastGoodCheckpoint == Spec => []LatestLoadable
<1>1. DInv => LatestLoadable
  <2> SUFFICES ASSUME DInv, NEW known \in {bases, metadata.bases}, known # <<>>
               PROVE  \/ Loadable(base_files, Last(known).base_id)
                      \/ Last(known).base_id \in cleared
    BY DEF LatestLoadable
  <2>1. known = bases
    <3>1. metadata.bases = bases \/ metadata.bases = <<>>
      BY DEF DInv, Typed, Metadata, Unreadable
    <3> QED  BY <3>1
  <2> QED  BY <2>1 DEF DInv, Lost, LatestKept, LatestBase
<1> QED  BY <1>1, CheckpointInvariance, PTL

\* A sequence ends with what was put at its end.
LEMMA ConcatHasSuffix ==
    ASSUME NEW S, NEW p \in Seq(S), NEW s \in Seq(S)
    PROVE  IsSuffix(s, p \o s)
<1> DEFINE all == p \o s
           n == Len(s)
           k == Len(p)
<1>1. /\ n \in Nat /\ k \in Nat /\ all \in Seq(S) /\ Len(all) = k + n
      /\ \A i \in 1..(k + n) : all[i] = IF i <= k THEN p[i] ELSE s[i - k]
  BY LenProperties, ConcatProperties
<1> HIDE DEF all, n, k
<1> DEFINE R == [i \in 1..n |-> s[(n - i) + 1]]
           A == [i \in 1..(k + n) |-> all[((k + n) - i) + 1]]
<1>2. Reverse(s) = R /\ Reverse(all) = A
  BY <1>1 DEF Reverse, n
<1>3. \A i \in 1..n : R[i] = A[i]
  <2> SUFFICES ASSUME NEW i \in 1..n PROVE R[i] = A[i]
    OBVIOUS
  <2> DEFINE j == ((k + n) - i) + 1
  <2>1. /\ j \in 1..(k + n) /\ ~ (j <= k) /\ j - k = (n - i) + 1 /\ i \in 1..(k + n)
    BY <1>1
  <2>2. A[i] = all[j] /\ R[i] = s[(n - i) + 1]
    BY <2>1
  <2> HIDE DEF j, A, R
  <2> QED  BY <1>1, <2>1, <2>2
<1>4. Len(R) = n /\ Len(A) = k + n
  BY <1>1
<1>5. SubSeq(R, 1, n) = SubSeq(A, 1, n)
  <2>1. SubSeq(R, 1, n) = [i \in 1..n |-> R[i]]
    BY <1>1
  <2>2. SubSeq(A, 1, n) = [i \in 1..n |-> A[i]]
    BY <1>1
  <2> HIDE DEF A, R
  <2> QED  BY <1>3, <2>1, <2>2
<1> HIDE DEF A, R
<1>6. IsPrefix(R, A)
  BY <1>1, <1>4, <1>5 DEF IsPrefix
<1> QED  BY <1>2, <1>6 DEF IsSuffix, all

\* Loading the newest checkpoint gives every trace saved by this process, in
\* order and after those of earlier processes, none twice.
THEOREM TracesSurvive == Spec => []TracesReconstructed
<1>1. DInv => TracesReconstructed
  <2> SUFFICES ASSUME DInv, bases # <<>>, LatestKept
               PROVE  /\ IsInjective(LoadLatest.traces)
                      /\ IsSuffix(SubSeq(traces, 1, last_saved), LoadLatest.traces)
    BY DEF TracesReconstructed, LatestKept
  <2>1. LoadLatest.traces = Loaded
    BY DEF LoadLatest, ApplyDeltas, Snapshot, Loaded, NewTraces
  <2>2. Reads(Loaded, traces, last_saved, block)
    <3>1. ~Lost
      BY DEF DInv, Removed, Lost, LatestKept, Loadable
    <3> QED  BY <3>1 DEF DInv, LatestReads
  <2> DEFINE held == Loaded
  <2> HIDE DEF held
  <2>3. Reads(held, traces, last_saved, block) /\ LoadLatest.traces = held
    BY <2>1, <2>2 DEF held
  <2>4. IsInjective(held)
    <3>1. held \in Seq(Nat) /\ Len(held) \in Nat /\ DOMAIN held = 1..Len(held)
      BY <2>3, LenProperties DEF Reads
    <3>2. \A i \in 1..Len(held) : held[i] \in Nat
      BY <3>1, ElementOfSeq
    <3> SUFFICES ASSUME NEW i \in 1..Len(held), NEW j \in 1..Len(held), i # j
                 PROVE  held[i] # held[j]
      BY <3>1 DEF IsInjective
    <3>3. i < j \/ j < i
      BY <3>1
    <3>4. held[i] < held[j] \/ held[j] < held[i]
      BY <2>3, <3>3 DEF Reads, Rising
    <3> QED  BY <3>2, <3>4
  <2>5. IsSuffix(SubSeq(traces, 1, last_saved), held)
    <3>1. PICK past \in Seq(Nat) : held = past \o SubSeq(traces, 1, last_saved)
      BY <2>3 DEF Reads
    <3>2. SubSeq(traces, 1, last_saved) \in Seq(Nat)
      <4>1. traces \in Seq(Nat) /\ Len(traces) \in Nat /\ last_saved \in 0..Len(traces)
        BY LenProperties DEF DInv, Typed
      <4>2. \A i \in 1..Len(traces) : traces[i] \in Nat
        BY <4>1, ElementOfSeq
      <4>3. 1 \in Int /\ last_saved \in Int /\ \A i \in 1..last_saved : traces[i] \in Nat
        BY <4>1, <4>2
      <4> QED  BY <4>3, SubSeqProperties
    <3> DEFINE saved == SubSeq(traces, 1, last_saved)
    <3> HIDE DEF saved
    <3>3. saved \in Seq(Nat) /\ held = past \o saved
      BY <3>1, <3>2 DEF saved
    <3>4. IsSuffix(saved, held)
      BY <3>3, ConcatHasSuffix
    <3> QED  BY <3>4 DEF saved
  <2> QED  BY <2>3, <2>4, <2>5
<1> QED  BY <1>1, CheckpointInvariance, PTL

=============================================================================
