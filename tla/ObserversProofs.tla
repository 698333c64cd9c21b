-------------------------- MODULE ObserversProofs --------------------------
(***************************************************************************)
(* What the observers of the runtime loop tell, for any traces, intervals, *)
(* limits and number of cycles.                                            *)
(***************************************************************************)
EXTENDS Observers, TLAPS, SequenceTheorems, FiniteSetTheorems, WellFoundedInduction

-----------------------------------------------------------------------------
(* Naturals, recursion and positions *)

\* A non-empty set of naturals has a least element.
LEMMA LeastNat ==
    ASSUME NEW S, S \subseteq Nat, S # {}
    PROVE  \E m \in S : \A x \in S : m <= x
<1>1. PICK m \in S : \A y \in S : ~ (<<y, m>> \in OpToRel(<, Nat))
  BY NatLessThanWellFounded, WFMin, Zenon
<1>2. ASSUME NEW y \in S PROVE m <= y
  <2>1. y \in Nat /\ m \in Nat
    OBVIOUS
  <2>2. y < m => <<y, m>> \in OpToRel(<, Nat)
    BY <2>1 DEF OpToRel
  <2>3. ~ (y < m)
    BY <2>2, <1>1, Zenon
  <2> QED  BY <2>1, <2>3
<1> QED  BY <1>2

\* f begins with base and goes on by the functions of fs.
Recurses(f, base, fs, n) ==
    /\ f[0] = base
    /\ \A i \in 1..n : f[i] = fs[i][f[i - 1]]

LEMMA RecursionExists ==
    ASSUME NEW S, NEW base \in S, NEW n \in Nat, NEW fs \in [1..n -> [S -> S]]
    PROVE  \E f \in [0..n -> S] : Recurses(f, base, fs, n)
<1> DEFINE Bad == {k \in 0..n : ~ \E f \in [0..k -> S] : Recurses(f, base, fs, k)}
<1> SUFFICES ASSUME Bad # {} PROVE FALSE
  OBVIOUS
<1>1. PICK m \in Bad : \A k \in Bad : m <= k
  <2>1. Bad \subseteq Nat
    OBVIOUS
  <2> QED  BY <2>1, LeastNat
<1>2. m # 0
  <2> DEFINE f == [i \in 0..0 |-> base]
  <2>1. f \in [0..0 -> S] /\ Recurses(f, base, fs, 0)
    BY DEF Recurses
  <2> QED  BY <2>1
<1>3. m \in 1..n /\ m - 1 \in 0..n /\ m - 1 \notin Bad
  <2>1. m \in 0..n
    OBVIOUS
  <2>2. m \in 1..n /\ m - 1 \in 0..n /\ ~ (m <= m - 1)
    BY <1>2, <2>1
  <2> HIDE DEF Bad
  <2> QED  BY <1>1, <2>2
<1>4. PICK f \in [0..(m - 1) -> S] : Recurses(f, base, fs, m - 1)
  BY <1>3
<1> DEFINE g == [i \in 0..m |-> IF i = m THEN fs[m][f[m - 1]] ELSE f[i]]
<1>5. g[0] = base
  BY <1>3, <1>4 DEF Recurses
<1>6. g[m] = fs[m][f[m - 1]] /\ \A i \in 0..(m - 1) : g[i] = f[i]
  BY <1>3
<1>7. fs[m][f[m - 1]] \in S
  <2>1. f[m - 1] \in S /\ fs[m] \in [S -> S]
    BY <1>3, <1>4
  <2> QED  BY <2>1
<1>8. g \in [0..m -> S]
  <2>1. ASSUME NEW i \in 0..m PROVE (IF i = m THEN fs[m][f[m - 1]] ELSE f[i]) \in S
    <3>1. CASE i = m
      BY <3>1, <1>7
    <3>2. CASE i # m
      <4>1. i \in 0..(m - 1)
        BY <3>2, <1>3
      <4> QED  BY <3>2, <4>1, <1>4
    <3> QED  BY <3>1, <3>2
  <2> QED  BY <2>1
<1>9. ASSUME NEW i \in 1..m PROVE g[i] = fs[i][g[i - 1]]
  <2>1. i - 1 \in 0..(m - 1) /\ (i # m => i \in 1..(m - 1) /\ i \in 0..(m - 1))
    BY <1>3
  <2>2. g[i - 1] = f[i - 1]
    BY <2>1, <1>6
  <2>3. CASE i = m
    BY <2>2, <2>3, <1>6
  <2>4. CASE i # m
    <3>1. f[i] = fs[i][f[i - 1]]
      BY <2>1, <2>4, <1>4 DEF Recurses
    <3> QED  BY <2>1, <2>2, <2>4, <3>1, <1>6
  <2> QED  BY <2>3, <2>4
<1> HIDE DEF g
<1>10. Recurses(g, base, fs, m)
  BY <1>5, <1>9 DEF Recurses
<1> QED  BY <1>8, <1>10

\* A non-empty set of positions has a last one.
LEMMA LastPosition ==
    ASSUME NEW n \in Nat, NEW S, S \subseteq 1..n, S # {}
    PROVE  Max(S) \in S /\ \A y \in S : Max(S) >= y
<1> DEFINE Above == {k \in 0..n : \A x \in S : x <= k}
<1>1. n \in Above /\ Above \subseteq Nat
  OBVIOUS
<1>2. PICK m \in Above : \A k \in Above : m <= k
  <2> HIDE DEF Above
  <2> QED  BY <1>1, LeastNat
<1>3. m \in S
  <2> SUFFICES ASSUME m \notin S PROVE FALSE
    OBVIOUS
  <2>1. ASSUME NEW x \in S PROVE x <= m - 1 /\ 1 <= m
    BY <1>2, <2>1
  <2>2. PICK y \in S : TRUE
    OBVIOUS
  <2>3. m - 1 \in 0..n /\ m \in Nat
    BY <2>1, <2>2, <1>2
  <2>4. m - 1 \in Above
    BY <2>1, <2>3
  <2> QED  BY <2>3, <2>4, <1>2
<1>4. \A y \in S : m >= y
  BY <1>2
<1> QED  BY <1>3, <1>4 DEF Max

\* Without its greatest position a set of positions ends earlier.
LEMMA BelowGreatest ==
    ASSUME NEW m \in Nat, NEW T, T \subseteq 1..m, T # {}
    PROVE  Max(T) \in T /\ Max(T) \in 1..m /\ T \ {Max(T)} \in SUBSET (1..(m - 1))
<1>1. Max(T) \in T /\ \A y \in T : Max(T) >= y
  BY LastPosition
<1>2. ASSUME NEW y \in T \ {Max(T)} PROVE y \in 1..(m - 1)
  <2>1. y \in 1..m /\ Max(T) \in 1..m /\ Max(T) >= y /\ y # Max(T)
    BY <1>1
  <2> QED  BY <2>1
<1> QED  BY <1>1, <1>2

\* What holds of no position, and of a set if it does without its greatest
\* position, holds of all.
LEMMA PositionInduction ==
    ASSUME NEW n \in Nat, NEW G, {} \in G,
           \A T \in SUBSET (1..n) : T # {} /\ T \ {Max(T)} \in G => T \in G
    PROVE  1..n \in G
<1> DEFINE Bad == {k \in 0..n : \E T \in SUBSET (1..k) : T \notin G}
<1>1. Bad = {}
  <2> SUFFICES ASSUME Bad # {} PROVE FALSE
    OBVIOUS
  <2>1. PICK m \in Bad : \A k \in Bad : m <= k
    <3>1. Bad \subseteq Nat
      OBVIOUS
    <3> HIDE DEF Bad
    <3> QED  BY <3>1, LeastNat
  <2>2. m \in 0..n
    OBVIOUS
  <2>3. PICK T \in SUBSET (1..m) : T \notin G
    OBVIOUS
  <2> HIDE DEF Bad
  <2>4. m \in Nat /\ T \subseteq 1..m /\ T # {} /\ T \in SUBSET (1..n)
    <3>1. T # {}
      BY <2>3, Zenon
    <3>2. m \in Nat /\ T \subseteq 1..m /\ T \subseteq 1..n
      BY <2>2
    <3> QED  BY <3>1, <3>2
  <2> DEFINE rest == T \ {Max(T)}
  <2>5. Max(T) \in 1..m /\ rest \in SUBSET (1..(m - 1))
    BY <2>4, BelowGreatest
  <2>6. rest \notin G
    BY <2>3, <2>4
  <2> HIDE DEF rest
  <2>7. m - 1 \in 0..n /\ ~ (m <= m - 1)
    BY <2>2, <2>5
  <2>8. m - 1 \in Bad
    BY <2>5, <2>6, <2>7 DEF Bad
  <2> QED  BY <2>1, <2>7, <2>8
<1>2. n \in 0..n /\ 1..n \in SUBSET (1..n)
  OBVIOUS
<1> QED  BY <1>1, <1>2

-----------------------------------------------------------------------------
(* The causal graph *)

\* What is due at a multiple of an interval that is itself a multiple.
LEMMA MultipleOfMultiple ==
    ASSUME NEW g \in Nat \ {0}, NEW k \in Nat \ {0}, NEW c \in Nat,
           k % g = 0, c % k = 0
    PROVE  c % g = 0
<1> DEFINE p == k \div g
           q == c \div k
           r == p * q
           d == c \div g
           m == c % g
<1>1. p \in Int /\ q \in Int /\ k = g * p /\ c = k * q
  OBVIOUS
<1>2. d \in Int /\ m \in Int /\ 0 <= m /\ m < g /\ c = g * d + m
  OBVIOUS
<1> HIDE DEF p, q, d, m
<1>3. r \in Int /\ c = g * r
  BY <1>1
<1> HIDE DEF r
<1> DEFINE e == r - d
<1>4. e \in Int /\ m = g * e
  BY <1>2, <1>3
<1> HIDE DEF e
<1>5. e >= 1 => g * e >= g
  BY <1>4
<1>6. e <= -1 => g * e < 0
  BY <1>4
<1>7. e = 0
  BY <1>2, <1>4, <1>5, <1>6
<1> QED  BY <1>4, <1>7 DEF m

CurrentGraph == count \in Nat /\ (count % GraphEvery = 0 => graph = Build(window))

\* The graph is rebuilt at a multiple of GraphEvery, and those who read it do
\* so only at such a cycle: what they read is the graph of that cycle's window.
THEOREM GraphCurrent == OSpec => []GraphIsCurrentWhenUsed
<1>1. OInit => CurrentGraph
  BY DEF OInit, CurrentGraph
<1>2. CurrentGraph /\ [ONext]_ovars => CurrentGraph'
  <2> SUFFICES ASSUME CurrentGraph, [ONext]_ovars PROVE CurrentGraph'
    OBVIOUS
  <2>1. ASSUME NEW t \in Trace, NEW failing \in Failing, FinalizeCycle(t, failing)
        PROVE  CurrentGraph'
    <3>1. count' = count + 1 /\ count' \in Nat
      BY <2>1 DEF FinalizeCycle, Append1, CurrentGraph
    <3>2. count' % GraphEvery = 0 => graph' = Build(window')
      BY <2>1 DEF FinalizeCycle, Rebuild, Due
    <3> QED  BY <3>1, <3>2 DEF CurrentGraph
  <2>2. CASE UNCHANGED ovars
    BY <2>2 DEF ovars, seen_of_loop, CurrentGraph
  <2> QED  BY <2>1, <2>2 DEF ONext
<1>3. CurrentGraph => GraphIsCurrentWhenUsed
  <2> SUFFICES ASSUME CurrentGraph,
                      NEW k \in {FeedbackEvery, CompressEvery, GovernEvery}, count % k = 0
               PROVE  graph = Build(window)
    BY DEF GraphIsCurrentWhenUsed
  <2>1. GraphEvery \in Nat \ {0} /\ k \in Nat \ {0} /\ k % GraphEvery = 0
    BY IntervalAssumption
  <2>2. count % GraphEvery = 0
    BY <2>1, MultipleOfMultiple DEF CurrentGraph
  <2> QED  BY <2>2 DEF CurrentGraph
<1> QED  BY <1>1, <1>2, <1>3, PTL DEF OSpec

-----------------------------------------------------------------------------
(* Windows and histories *)

LEMMA PositiveIs ==
    ASSUME NEW x \in Int
    PROVE  Positive(x) = IF x > 0 THEN x ELSE 0
<1> DEFINE m == IF x > 0 THEN x ELSE 0
<1>1. m \in {0, x} /\ \A y \in {0, x} : m >= y
  OBVIOUS
<1>2. \A n \in {0, x} : (\A y \in {0, x} : n >= y) => n = m
  OBVIOUS
<1> HIDE DEF m
<1>3. Max({0, x}) = m
  BY <1>1, <1>2 DEF Max
<1> QED  BY <1>3 DEF Positive, m

\* The last n of a sequence, counted from its end.
LEMMA LastOfProperties ==
    ASSUME NEW S, NEW s \in Seq(S), NEW n \in Nat
    PROVE  /\ LastOf(s, n) \in Seq(S)
           /\ Len(LastOf(s, n)) = IF Len(s) < n THEN Len(s) ELSE n
           /\ \A k \in Nat : k < Len(LastOf(s, n)) =>
                  LastOf(s, n)[Len(LastOf(s, n)) - k] = s[Len(s) - k]
<1> DEFINE l == Len(s)
           d == IF l - n > 0 THEN l - n ELSE 0
           r == LastOf(s, n)
<1>1. l \in Nat
  BY LenProperties
<1>2. d \in Nat /\ d <= l /\ l - d = (IF l < n THEN l ELSE n)
  <2> HIDE DEF l
  <2>1. CASE l < n
    BY <1>1, <2>1
  <2>2. CASE ~ (l < n)
    <3>1. l - n \in Nat /\ d = l - n
      BY <1>1, <2>2
    <3> QED  BY <1>1, <2>2, <3>1
  <2> QED  BY <2>1, <2>2
<1>3. r = SubSeq(s, d + 1, l)
  <2> HIDE DEF l
  <2>1. Positive(l - n) = d
    BY <1>1, PositiveIs
  <2> QED  BY <2>1 DEF LastOf, l
<1>4. \A i \in 1..l : s[i] \in S
  BY ElementOfSeq
<1> HIDE DEF d, l, r
<1>5. /\ r \in Seq(S)
      /\ Len(r) = IF d + 1 <= l THEN l - (d + 1) + 1 ELSE 0
      /\ \A i \in 1..(l - (d + 1) + 1) : r[i] = s[(d + 1) + i - 1]
  <2>1. d + 1 \in Int /\ l \in Int /\ \A i \in (d + 1)..l : s[i] \in S
    BY <1>1, <1>2, <1>4
  <2> QED  BY <1>3, <2>1, SubSeqProperties
<1>6. Len(r) = l - d
  BY <1>1, <1>2, <1>5
<1>7. ASSUME NEW k \in Nat, k < Len(r) PROVE r[Len(r) - k] = s[l - k]
  <2> DEFINE i == Len(r) - k
  <2>1. i \in 1..(l - (d + 1) + 1) /\ (d + 1) + i - 1 = l - k
    BY <1>1, <1>2, <1>6, <1>7
  <2> HIDE DEF i
  <2>2. r[i] = s[l - k]
    BY <1>5, <2>1
  <2> QED  BY <2>2 DEF i
<1> QED  BY <1>2, <1>5, <1>6, <1>7 DEF l, r

-----------------------------------------------------------------------------
(* The explanation of a failure and its signature *)

WindowTyped == window \in Seq(Trace)

LEMMA WindowOfTraces == OSpec => []WindowTyped
<1>1. OInit => WindowTyped
  BY EmptySeq DEF OInit, WindowTyped
<1>2. WindowTyped /\ [ONext]_ovars => WindowTyped'
  <2> USE DEF WindowTyped
  <2> SUFFICES ASSUME window \in Seq(Trace), [ONext]_ovars PROVE window' \in Seq(Trace)
    OBVIOUS
  <2>1. ASSUME NEW t \in Trace, NEW failing \in Failing, FinalizeCycle(t, failing)
        PROVE  window' \in Seq(Trace)
    <3>1. Append(window, t) \in Seq(Trace)
      BY AppendProperties
    <3>2. window' = LastOf(Append(window, t), MaxActive)
      BY <2>1 DEF FinalizeCycle, Append1
    <3> QED  BY <3>1, <3>2, HistoryAssumption, LastOfProperties
  <2>2. CASE UNCHANGED ovars
    BY <2>2 DEF ovars, seen_of_loop
  <2> QED  BY <2>1, <2>2 DEF ONext
<1> QED  BY <1>1, <1>2, PTL DEF OSpec

\* A trace of the loop: rejected by preflight, refused by P4, or executed.
LEMMA KindsOfTrace ==
    ASSUME NEW t \in Trace
    PROVE  /\ t.final = FinalStatus(t.verdict, t.exec)
           /\ \/ t.valid = FALSE /\ t.verdict = "BLOCKED_BY_PREFLIGHT" /\ t.exec = ""
              \/ t.valid = TRUE /\ t.verdict \in Refusals /\ t.exec = "FAILED"
              \/ t.valid = TRUE /\ t.verdict = "ALLOW" /\ t.exec \in {"SUCCESS", "FAILED"}
<1>1. PICK u \in Trace : t \in LoopTraces({u.event}, {u.risk}, {u.rule})
  BY TraceAssumption
<1> DEFINE E == {u.event}
           R == {u.risk}
           U == {u.rule}
<1>2. ASSUME NEW e, NEW r, t = Rejected(e, r)
      PROVE  /\ t.final = FinalStatus(t.verdict, t.exec)
             /\ t.valid = FALSE /\ t.verdict = "BLOCKED_BY_PREFLIGHT" /\ t.exec = ""
  BY <1>2 DEF Rejected, Normalize
<1>3. ASSUME NEW e, NEW v \in Refusals, NEW w, NEW r, t = Refused(e, v, w, r)
      PROVE  /\ t.final = FinalStatus(t.verdict, t.exec)
             /\ t.valid = TRUE /\ t.verdict \in Refusals /\ t.exec = "FAILED"
  BY <1>3 DEF Refused, Normalize
<1>4. ASSUME NEW e, NEW x \in {"SUCCESS", "FAILED"}, NEW r, t = Executed(e, x, r)
      PROVE  /\ t.final = FinalStatus(t.verdict, t.exec)
             /\ t.valid = TRUE /\ t.verdict = "ALLOW" /\ t.exec \in {"SUCCESS", "FAILED"}
  BY <1>4 DEF Executed, Normalize
<1> HIDE DEF E, R, U
<1>5. \/ \E e \in E, r \in R : t = Rejected(e, r)
      \/ \E e \in E, v \in Refusals, w \in U, r \in R : t = Refused(e, v, w, r)
      \/ \E e \in E, x \in {"SUCCESS", "FAILED"}, r \in R : t = Executed(e, x, r)
  <2>1. t \in LoopTraces(E, R, U)
    BY <1>1 DEF E, R, U
  <2> QED  BY <2>1 DEF LoopTraces
<1> QED  BY <1>2, <1>3, <1>4, <1>5

\* Sequences joined.
LEMMA Joined ==
    ASSUME NEW S, NEW s \in Seq(S), NEW r \in Seq(S)
    PROVE  /\ s \o r \in Seq(S)
           /\ Len(s \o r) = Len(s) + Len(r)
           /\ ToSet(s \o r) = ToSet(s) \cup ToSet(r)
<1> DEFINE q == s \o r
<1>1. /\ q \in Seq(S) /\ Len(q) = Len(s) + Len(r)
      /\ \A i \in 1..(Len(s) + Len(r)) : q[i] = IF i <= Len(s) THEN s[i] ELSE r[i - Len(s)]
  BY ConcatProperties
<1>2. /\ Len(s) \in Nat /\ Len(r) \in Nat
      /\ DOMAIN s = 1..Len(s) /\ DOMAIN r = 1..Len(r) /\ DOMAIN q = 1..(Len(s) + Len(r))
  BY <1>1, LenProperties
<1> HIDE DEF q
<1>3. ASSUME NEW x \in ToSet(q) PROVE x \in ToSet(s) \cup ToSet(r)
  <2>1. PICK i \in 1..(Len(s) + Len(r)) : x = q[i]
    BY <1>2 DEF ToSet
  <2>2. CASE i <= Len(s)
    <3>1. i \in DOMAIN s /\ x = s[i]
      BY <1>1, <1>2, <2>1, <2>2
    <3> QED  BY <3>1 DEF ToSet
  <2>3. CASE ~ (i <= Len(s))
    <3>1. i - Len(s) \in DOMAIN r /\ x = r[i - Len(s)]
      BY <1>1, <1>2, <2>1, <2>3
    <3> QED  BY <3>1 DEF ToSet
  <2> QED  BY <2>2, <2>3
<1>4. ASSUME NEW x \in ToSet(s) PROVE x \in ToSet(q)
  <2>1. PICK i \in 1..Len(s) : x = s[i]
    BY <1>2, <1>4 DEF ToSet
  <2>2. i \in DOMAIN q /\ x = q[i]
    BY <1>1, <1>2, <2>1
  <2> QED  BY <2>2 DEF ToSet
<1>5. ASSUME NEW x \in ToSet(r) PROVE x \in ToSet(q)
  <2>1. PICK i \in 1..Len(r) : x = r[i]
    BY <1>2, <1>5 DEF ToSet
  <2>2. i + Len(s) \in 1..(Len(s) + Len(r)) /\ ~ (i + Len(s) <= Len(s)) /\ (i + Len(s)) - Len(s) = i
    BY <1>2
  <2>3. i + Len(s) \in DOMAIN q /\ x = q[i + Len(s)]
    BY <1>1, <1>2, <2>1, <2>2
  <2> QED  BY <2>3 DEF ToSet
<1>6. ToSet(q) = ToSet(s) \cup ToSet(r)
  BY <1>3, <1>4, <1>5
<1> QED  BY <1>1, <1>6 DEF q

\* Sequences of words, empty or of one word.
LEMMA Words ==
    ASSUME NEW w \in STRING
    PROVE  /\ <<>> \in Seq(STRING) /\ Len(<<>>) = 0 /\ ToSet(<<>>) = {}
           /\ <<w>> \in Seq(STRING) /\ Len(<<w>>) = 1 /\ ToSet(<<w>>) = {w}
  BY DEF ToSet

LEMMA OneOf ==
    ASSUME NEW S, NEW w \in S
    PROVE  <<>> \in Seq(S) /\ <<w>> \in Seq(S) /\ ToSet(<<w>>) = {w}
  BY DEF ToSet

LEMMA TwoOf ==
    ASSUME NEW S, NEW v \in S, NEW w \in S
    PROVE  <<v, w>> \in Seq(S) /\ ToSet(<<v, w>>) = {v, w}
<1> DEFINE s == <<v, w>>
<1>1. s \in Seq(S)
  OBVIOUS
<1>2. DOMAIN s = 1..2 /\ s[1] = v /\ s[2] = w
  OBVIOUS
<1> HIDE DEF s
<1>3. ToSet(s) = {v, w}
  BY <1>2 DEF ToSet
<1> QED  BY <1>1, <1>3 DEF s

\* The flags of an explanation.
LEMMA Flags ==
    ASSUME NEW d \in BOOLEAN, NEW s \in BOOLEAN, NEW x
    PROVE  LET e == [denial |-> d, sandbox |-> s, chain |-> x]
           IN  (e.denial <=> d) /\ (e.sandbox <=> s) /\ e.chain = x
  OBVIOUS

LEMMA ExplanationFlags ==
    ASSUME NEW t
    PROVE  /\ Explanation(t).denial <=> t.verdict \in Refusals
           /\ Explanation(t).sandbox <=> t.verdict \notin Refusals /\ t.exec = "FAILED"
<1> DEFINE d == t.verdict \in Refusals
           s == t.verdict \notin Refusals /\ t.exec = "FAILED"
<1>1. PICK x : Explanation(t) = [denial |-> d, sandbox |-> s, chain |-> x]
  BY DEF Explanation
<1>2. d \in BOOLEAN /\ s \in BOOLEAN
  OBVIOUS
<1> HIDE DEF d, s
<1>3. (Explanation(t).denial <=> d) /\ (Explanation(t).sandbox <=> s)
  BY <1>1, <1>2, Flags
<1> QED  BY <1>3 DEF d, s

\* What a trace says in all these ways: ExplainedAlike, of one trace.
Alike(t) ==
    /\ IsFailure(t) <=> Explanation(t).chain # <<>>
    /\ IsFailure(t) /\ t.valid <=> Severity(t) = "critical"
    /\ Explanation(t).sandbox <=> "SANDBOX_FAILED" \in ToSet(TriggerChain(t))
    /\ Explanation(t).denial <=> \E v \in Refusals : P4Status[v] \in ToSet(TriggerChain(t))

LEMMA TraceExplainedAlike ==
    ASSUME NEW t \in Trace
    PROVE  Alike(t)
<1> DEFINE chain == Explanation(t).chain
           trigger == TriggerChain(t)
           Triggers == {"PREFLIGHT_PASS", "P4_ALLOW", "SANDBOX_FAILED"}
<1>0. /\ P4Status["ALLOW"] = "P4_ALLOW" /\ P4Status["BLOCK"] = "P4_BLOCK"
      /\ P4Status["DEFER"] = "P4_DEFER" /\ P4Status["REVIEW"] = "P4_REVIEW"
      /\ P4Status["BLOCKED_BY_PREFLIGHT"] = "P4_BLOCKED_BY_PREFLIGHT"
  BY DEF P4Status
<1>1. CASE t.valid = FALSE /\ t.verdict = "BLOCKED_BY_PREFLIGHT" /\ t.exec = ""
  <2>1. t.final = "P4_BLOCKED_BY_PREFLIGHT"
    BY <1>0, <1>1, KindsOfTrace DEF FinalStatus
  <2>2. Len(chain) = 1
    <3>1. chain = (<<>> \o <<"blocked">>) \o <<>>
      BY <1>1, <2>1 DEF Explanation, Refusals
    <3> HIDE DEF chain
    <3> QED  BY <3>1, Joined, Words
  <2>3. ToSet(trigger) = {"PREFLIGHT_BLOCK"}
    <3>1. trigger = <<"PREFLIGHT_BLOCK">>
      BY <1>1 DEF TriggerChain
    <3> HIDE DEF trigger
    <3> QED  BY <3>1 DEF ToSet
  <2>4. /\ ~ Explanation(t).sandbox
        /\ ~ Explanation(t).denial
    BY <1>1, ExplanationFlags DEF Refusals
  <2>5. IsFailure(t) = TRUE /\ Severity(t) = "low"
    BY <1>1, <2>1 DEF IsFailure, Severity
  <2> HIDE DEF chain, trigger
  <2>6. \A v \in Refusals : P4Status[v] \notin {"PREFLIGHT_BLOCK"}
    BY <1>0 DEF Refusals
  <2>7. chain # <<>>
    BY <2>2, Words
  <2> QED  BY <1>1, <2>3, <2>4, <2>5, <2>6, <2>7 DEF Alike, chain, trigger
<1>2. CASE t.valid = TRUE /\ t.verdict \in Refusals /\ t.exec = "FAILED"
  <2>1. t.final = "SANDBOX_FAILED"
    BY <1>2, KindsOfTrace DEF FinalStatus
  <2>2. Len(chain) = 2
    <3>1. chain = (<<"policy_denial">> \o <<>>) \o <<"failed">>
      BY <1>2, <2>1 DEF Explanation
    <3> HIDE DEF chain
    <3> QED  BY <3>1, Joined, Words
  <2>3. ToSet(trigger) = {"PREFLIGHT_PASS", P4Status[t.verdict]}
    <3>1. trigger = <<"PREFLIGHT_PASS", P4Status[t.verdict]>>
      BY <1>2 DEF TriggerChain
    <3> HIDE DEF trigger
    <3> QED  BY <3>1 DEF ToSet
  <2>4. /\ ~ Explanation(t).sandbox
        /\ Explanation(t).denial
    BY <1>2, ExplanationFlags DEF Refusals
  <2>5. IsFailure(t) = TRUE /\ Severity(t) = "critical"
    BY <1>2, <2>1 DEF IsFailure, Severity
  <2> HIDE DEF chain, trigger
  <2>6. "SANDBOX_FAILED" \notin {"PREFLIGHT_PASS", P4Status[t.verdict]}
    BY <1>0, <1>2 DEF Refusals
  <2>7. chain # <<>>
    BY <2>2, Words
  <2> QED  BY <1>2, <2>3, <2>4, <2>5, <2>6, <2>7 DEF Alike, chain, trigger
<1>3. CASE t.valid = TRUE /\ t.verdict = "ALLOW" /\ t.exec = "FAILED"
  <2>1. t.final = "SANDBOX_FAILED"
    BY <1>3, KindsOfTrace DEF FinalStatus
  <2>2. Len(chain) = 2
    <3>1. chain = (<<"execution_failure">> \o <<>>) \o <<"failed">>
      BY <1>3, <2>1 DEF Explanation, Refusals
    <3> HIDE DEF chain
    <3> QED  BY <3>1, Joined, Words
  <2>3. ToSet(trigger) = {"PREFLIGHT_PASS", "P4_ALLOW", "SANDBOX_FAILED"}
    <3> DEFINE first == <<"PREFLIGHT_PASS", "P4_ALLOW">>
               rest == <<"SANDBOX_FAILED">>
    <3>1. trigger = first \o rest
      BY <1>0, <1>3 DEF TriggerChain, Refusals
    <3>2. first \in Seq(Triggers) /\ ToSet(first) = {"PREFLIGHT_PASS", "P4_ALLOW"}
      BY TwoOf
    <3>3. rest \in Seq(Triggers) /\ ToSet(rest) = {"SANDBOX_FAILED"}
      BY DEF ToSet
    <3> HIDE DEF trigger, Triggers, first, rest
    <3>4. ToSet(trigger) = ToSet(first) \cup ToSet(rest)
      BY <3>1, <3>2, <3>3, Joined
    <3> QED  BY <3>2, <3>3, <3>4
  <2>4. /\ Explanation(t).sandbox
        /\ ~ Explanation(t).denial
    BY <1>3, ExplanationFlags DEF Refusals
  <2>5. IsFailure(t) = TRUE /\ Severity(t) = "critical"
    BY <1>3, <2>1 DEF IsFailure, Severity
  <2> HIDE DEF chain, trigger
  <2>6. \A v \in Refusals : P4Status[v] \notin {"PREFLIGHT_PASS", "P4_ALLOW", "SANDBOX_FAILED"}
    BY <1>0 DEF Refusals
  <2>7. chain # <<>>
    BY <2>2, Words
  <2> QED  BY <1>3, <2>3, <2>4, <2>5, <2>6, <2>7 DEF Alike, chain, trigger
<1>4. CASE t.valid = TRUE /\ t.verdict = "ALLOW" /\ t.exec = "SUCCESS"
  <2>1. t.final = "P4_ALLOW"
    BY <1>0, <1>4, KindsOfTrace DEF FinalStatus
  <2>2. Len(chain) = 0
    <3>1. chain = (<<>> \o <<>>) \o <<>>
      BY <1>4, <2>1 DEF Explanation, Refusals
    <3> HIDE DEF chain
    <3> QED  BY <3>1, Joined, Words
  <2>3. ToSet(trigger) = {"PREFLIGHT_PASS", "P4_ALLOW"}
    <3> DEFINE first == <<"PREFLIGHT_PASS", "P4_ALLOW">>
               rest == <<>>
    <3>1. trigger = first \o rest
      BY <1>0, <1>4 DEF TriggerChain, Refusals
    <3>2. first \in Seq(Triggers) /\ ToSet(first) = {"PREFLIGHT_PASS", "P4_ALLOW"}
      BY TwoOf
    <3>3. rest \in Seq(Triggers) /\ ToSet(rest) = {}
      BY DEF ToSet
    <3> HIDE DEF trigger, Triggers, first, rest
    <3>4. ToSet(trigger) = ToSet(first) \cup ToSet(rest)
      BY <3>1, <3>2, <3>3, Joined
    <3> QED  BY <3>2, <3>3, <3>4
  <2>4. /\ ~ Explanation(t).sandbox
        /\ ~ Explanation(t).denial
    BY <1>4, ExplanationFlags DEF Refusals
  <2>5. IsFailure(t) = FALSE /\ Severity(t) = "unknown"
    BY <1>4, <2>1 DEF IsFailure, Severity
  <2> HIDE DEF chain, trigger
  <2>6. \A v \in Refusals : P4Status[v] \notin {"PREFLIGHT_PASS", "P4_ALLOW"}
    BY <1>0 DEF Refusals
  <2> QED  BY <1>4, <2>2, <2>3, <2>4, <2>5, <2>6 DEF Alike, chain, trigger
<1> QED  BY <1>1, <1>2, <1>3, <1>4, KindsOfTrace

\* The signature of a failure and its explanation blame the same layer, for
\* every trace of every window.
THEOREM BlameTheSame == OSpec => []ExplainedAlike
<1>1. WindowTyped => ExplainedAlike
  <2> SUFFICES ASSUME window \in Seq(Trace), NEW i \in DOMAIN window
               PROVE  Alike(window[i])
    BY DEF ExplainedAlike, Alike, WindowTyped
  <2>1. window[i] \in Trace
    BY LenProperties, ElementOfSeq
  <2> QED  BY <2>1, TraceExplainedAlike
<1> QED  BY <1>1, WindowOfTraces, PTL

-----------------------------------------------------------------------------
(* The gradient of confidence *)

\* The readings that must agree before the gradient moves.
LEMMA ThresholdIs ==
    ASSUME NEW from \in Gradients, NEW to \in Gradients
    PROVE  Threshold(from, to) =
              IF to = "CRITICAL" \/ (from = "CRITICAL" /\ to = "LOW") THEN 1
              ELSE IF (from = "HIGH" /\ to = "LOW") \/ (from = "CRITICAL" /\ to = "HIGH") THEN 3
              ELSE 2
<1>1. /\ <<from, to>> = <<"CRITICAL", "LOW">> <=> from = "CRITICAL" /\ to = "LOW"
      /\ <<from, to>> \in {<<"HIGH", "LOW">>, <<"CRITICAL", "HIGH">>}
            <=> (from = "HIGH" /\ to = "LOW") \/ (from = "CRITICAL" /\ to = "HIGH")
  OBVIOUS
<1>2. CASE to = "CRITICAL" \/ (from = "CRITICAL" /\ to = "LOW")
  <2>1. ~ ((from = "HIGH" /\ to = "LOW") \/ (from = "CRITICAL" /\ to = "HIGH"))
    BY <1>2
  <2> QED  BY <1>1, <1>2, <2>1 DEF Threshold
<1>3. CASE (from = "HIGH" /\ to = "LOW") \/ (from = "CRITICAL" /\ to = "HIGH")
  BY <1>1, <1>3 DEF Threshold
<1>4. CASE /\ ~ (to = "CRITICAL" \/ (from = "CRITICAL" /\ to = "LOW"))
           /\ ~ ((from = "HIGH" /\ to = "LOW") \/ (from = "CRITICAL" /\ to = "HIGH"))
  BY <1>1, <1>4 DEF Threshold
<1> QED  BY <1>2, <1>3, <1>4

LEMMA Classified == \A score : Classify(score) \in Gradients
  BY DEF Classify, Gradients

Waiting(pending) == pending["HIGH"] + pending["MEDIUM"] + pending["LOW"] + pending["CRITICAL"]

GuardTyped(g) ==
    /\ g = [gradient |-> g.gradient, pending |-> g.pending]
    /\ g.gradient \in Gradients \cup {"none"}
    /\ g.pending \in [Gradients -> Nat]

\* No level waits for as many readings as it needs, the current one for none.
BelowThreshold(g) ==
    IF g.gradient = "none" THEN g.pending = NothingPending
    ELSE /\ g.pending[g.gradient] = 0
         /\ \A l \in Gradients : l # g.gradient => g.pending[l] < Threshold(g.gradient, l)

\* Every reading counted is among as many of the last scores as are counted.
InHistory(g, scores) ==
    /\ Waiting(g.pending) <= Len(scores)
    /\ \A l \in Gradients : g.pending[l] >= 1 =>
          \E k \in 0..Waiting(g.pending) - 1 : Classify(scores[Len(scores) - k]) = l

Watched(g, scores) == GuardTyped(g) /\ BelowThreshold(g) /\ InHistory(g, scores)

LEMMA NothingWaits ==
    /\ NothingPending \in [Gradients -> Nat]
    /\ \A l \in Gradients : NothingPending[l] = 0
    /\ Waiting(NothingPending) = 0
<1>1. NothingPending \in [Gradients -> Nat] /\ \A l \in Gradients : NothingPending[l] = 0
  BY DEF NothingPending
<1>2. {"HIGH", "MEDIUM", "LOW", "CRITICAL"} = Gradients
  BY DEF Gradients
<1> QED  BY <1>1, <1>2 DEF Waiting

\* At most three readings are counted at any time.
LEMMA FewWait ==
    ASSUME NEW g, GuardTyped(g), BelowThreshold(g)
    PROVE  Waiting(g.pending) \in 0..3
<1>1. CASE g.gradient = "none"
  BY <1>1, NothingWaits DEF BelowThreshold
<1>2. CASE g.gradient \in Gradients
  <2> DEFINE p == g.pending
             c == g.gradient
  <2>1. /\ p["HIGH"] \in Nat /\ p["MEDIUM"] \in Nat /\ p["LOW"] \in Nat /\ p["CRITICAL"] \in Nat
        /\ p[c] = 0
    BY <1>2 DEF GuardTyped, BelowThreshold, Gradients
  <2>2. \A l \in Gradients : l # c => p[l] < Threshold(c, l)
    BY <1>2 DEF BelowThreshold, Gradients
  <2> HIDE DEF p, c
  <2>3. c \in Gradients
    BY <1>2 DEF c
  <2>4. \A l \in Gradients : l # c =>
           p[l] < IF l = "CRITICAL" \/ (c = "CRITICAL" /\ l = "LOW") THEN 1
                  ELSE IF (c = "HIGH" /\ l = "LOW") \/ (c = "CRITICAL" /\ l = "HIGH") THEN 3
                  ELSE 2
    BY <2>2, <2>3, ThresholdIs
  <2>5. p["HIGH"] + p["MEDIUM"] + p["LOW"] + p["CRITICAL"] \in 0..3
    <3>1. CASE c = "HIGH"
      <4>1. p["HIGH"] = 0 /\ p["MEDIUM"] < 2 /\ p["LOW"] < 3 /\ p["CRITICAL"] < 1
        BY <2>1, <2>4, <3>1 DEF Gradients
      <4> QED  BY <2>1, <4>1
    <3>2. CASE c = "MEDIUM"
      <4>1. p["HIGH"] < 2 /\ p["MEDIUM"] = 0 /\ p["LOW"] < 2 /\ p["CRITICAL"] < 1
        BY <2>1, <2>4, <3>2 DEF Gradients
      <4> QED  BY <2>1, <4>1
    <3>3. CASE c = "LOW"
      <4>1. p["HIGH"] < 2 /\ p["MEDIUM"] < 2 /\ p["LOW"] = 0 /\ p["CRITICAL"] < 1
        BY <2>1, <2>4, <3>3 DEF Gradients
      <4> QED  BY <2>1, <4>1
    <3>4. CASE c = "CRITICAL"
      <4>1. p["HIGH"] < 3 /\ p["MEDIUM"] < 2 /\ p["LOW"] < 1 /\ p["CRITICAL"] = 0
        BY <2>1, <2>4, <3>4 DEF Gradients
      <4> QED  BY <2>1, <4>1
    <3> QED  BY <2>3, <3>1, <3>2, <3>3, <3>4 DEF Gradients
  <2> QED  BY <2>5 DEF Waiting, p
<1> QED  BY <1>1, <1>2 DEF GuardTyped

\* A history with a score more, cut at its limit of four or more.
Adds(new, S, scores, x) ==
    /\ new \in Seq(S)
    /\ Len(new) \in Nat /\ Len(new) >= 1 /\ new[Len(new)] = x
    /\ Len(new) = IF Len(scores) + 1 < History THEN Len(scores) + 1 ELSE History
    /\ \A k \in Nat : k < Len(scores) /\ k + 1 < Len(new) =>
           new[Len(new) - (k + 1)] = scores[Len(scores) - k]

LEMMA Remembered ==
    ASSUME NEW S, NEW scores \in Seq(S), NEW x \in S
    PROVE  Adds(Remember(scores, x, History), S, scores, x)
<1> DEFINE long == Append(scores, x)
           new == Remember(scores, x, History)
<1>1. /\ long \in Seq(S) /\ Len(long) = Len(scores) + 1
      /\ \A i \in 1..Len(scores) : long[i] = scores[i]
      /\ long[Len(scores) + 1] = x
  BY AppendProperties
<1>2. History \in Nat /\ History >= 4 /\ Len(scores) \in Nat
  BY HistoryAssumption, LenProperties
<1>3. new = LastOf(long, History)
  BY DEF Remember
<1> HIDE DEF long, new
<1>4. /\ new \in Seq(S)
      /\ Len(new) = IF Len(long) < History THEN Len(long) ELSE History
      /\ \A k \in Nat : k < Len(new) => new[Len(new) - k] = long[Len(long) - k]
  BY <1>1, <1>2, <1>3, LastOfProperties
<1>5. Len(new) \in Nat /\ Len(new) >= 1
  BY <1>1, <1>2, <1>4
<1>6. new[Len(new)] = x
  <2>1. new[Len(new) - 0] = long[Len(long) - 0]
    BY <1>4, <1>5
  <2>2. Len(new) - 0 = Len(new) /\ Len(long) - 0 = Len(scores) + 1
    BY <1>1, <1>2, <1>5
  <2> QED  BY <1>1, <2>1, <2>2
<1>7. ASSUME NEW k \in Nat, k < Len(scores), k + 1 < Len(new)
      PROVE  new[Len(new) - (k + 1)] = scores[Len(scores) - k]
  <2>1. k + 1 \in Nat
    OBVIOUS
  <2>2. new[Len(new) - (k + 1)] = long[Len(long) - (k + 1)]
    BY <1>4, <1>7, <2>1
  <2>3. Len(long) - (k + 1) = Len(scores) - k /\ Len(scores) - k \in 1..Len(scores)
    BY <1>1, <1>2, <1>7
  <2> QED  BY <1>1, <2>2, <2>3
<1> QED  BY <1>1, <1>4, <1>5, <1>6, <1>7 DEF Adds, new

LEMMA TwoMembers ==
    ASSUME NEW C, IsFiniteSet(C), NEW a \in C, NEW b \in C, a # b
    PROVE  2 <= Cardinality(C)
<1>1. IsFiniteSet({a}) /\ Cardinality({a}) = 1
  BY FS_Singleton
<1>2. Cardinality({a} \cup {b}) = 2
  BY <1>1, FS_AddElement
<1>3. Cardinality({a} \cup {b}) <= Cardinality(C)
  BY FS_Subset
<1>4. Cardinality(C) \in Nat
  BY FS_CardinalityType
<1> QED  BY <1>2, <1>3, <1>4

\* The score after which the guard moves to a level, or not.
LEMMA GuardStep ==
    ASSUME NEW g, NEW S, NEW scores \in Seq(S), Watched(g, scores), NEW x \in S,
           NEW g2 \in {Resolve(g, x)}, NEW new \in {Remember(scores, x, History)}
    PROVE  /\ Watched(g2, new)
           /\ g2.gradient # g.gradient /\ "CRITICAL" \notin {g.gradient, g2.gradient}
                  /\ g.gradient # "none"
              => 2 <= Cardinality({i \in DOMAIN LastOf(new, 4) : Classify(LastOf(new, 4)[i]) = g2.gradient})
<1> DEFINE d == Classify(x)
           c == g.gradient
           p == g.pending
           counted == [p EXCEPT ![d] = @ + 1]
           n == Waiting(p)
<1>1. g2 = Resolve(g, x) /\ new = Remember(scores, x, History)
  OBVIOUS
<1>2. d \in Gradients /\ c \in Gradients \cup {"none"} /\ p \in [Gradients -> Nat]
  BY Classified DEF Watched, GuardTyped
<1>3. /\ new \in Seq(S)
      /\ Len(new) \in Nat /\ Len(new) >= 1 /\ new[Len(new)] = x
      /\ Len(new) = IF Len(scores) + 1 < History THEN Len(scores) + 1 ELSE History
      /\ \A k \in Nat : k < Len(scores) /\ k + 1 < Len(new) =>
             new[Len(new) - (k + 1)] = scores[Len(scores) - k]
  <2>1. scores \in Seq(S) /\ x \in S
    OBVIOUS
  <2> HIDE DEF d, c, p, counted, n
  <2>2. Adds(new, S, scores, x)
    BY <1>1, <2>1, Remembered
  <2> QED  BY <2>2 DEF Adds
<1>4. n \in 0..3 /\ n <= Len(scores) /\ Len(scores) \in Nat
  BY FewWait, LenProperties DEF Watched, InHistory
<1>5. \A l \in Gradients : p[l] >= 1 =>
          \E k \in 0..n - 1 : Classify(scores[Len(scores) - k]) = l
  BY DEF Watched, InHistory
<1>6. g2 = IF c \in {"none", d} \/ counted[d] >= Threshold(c, d)
           THEN [gradient |-> d, pending |-> NothingPending]
           ELSE [g EXCEPT !.pending = counted]
  BY <1>1 DEF Resolve
<1>7. CASE c \in {"none", d} \/ counted[d] >= Threshold(c, d)
  <2>1. g2.gradient = d /\ g2.pending = NothingPending
        /\ g2 = [gradient |-> g2.gradient, pending |-> g2.pending]
    BY <1>6, <1>7
  <2>2. d # "none"
    BY <1>2 DEF Gradients
  <2>3. GuardTyped(g2)
    BY <1>2, <2>1, NothingWaits DEF GuardTyped
  <2>4. BelowThreshold(g2)
    <3>1. \A l \in Gradients : 0 < Threshold(d, l)
      BY <1>2, ThresholdIs
    <3>2. g2.pending[g2.gradient] = 0
      BY <1>2, <2>1, NothingWaits
    <3>3. \A l \in Gradients : l # g2.gradient => g2.pending[l] < Threshold(g2.gradient, l)
      BY <2>1, <3>1, NothingWaits
    <3> QED  BY <2>1, <2>2, <3>2, <3>3 DEF BelowThreshold
  <2>5. InHistory(g2, new)
    <3>1. Waiting(g2.pending) = 0 /\ \A l \in Gradients : ~ (g2.pending[l] >= 1)
      BY <2>1, NothingWaits
    <3> QED  BY <1>3, <3>1 DEF InHistory
  <2>6. ASSUME d # c, c # "CRITICAL", d # "CRITICAL", c # "none"
        PROVE  2 <= Cardinality({i \in DOMAIN LastOf(new, 4) : Classify(LastOf(new, 4)[i]) = d})
    <3> DEFINE last == LastOf(new, 4)
               agree == {i \in DOMAIN last : Classify(last[i]) = d}
    <3>1. c \in Gradients
      BY <1>2, <2>6
    <3>2. Threshold(c, d) \in Nat /\ Threshold(c, d) >= 2
      BY <1>2, <2>6, <3>1, ThresholdIs
    <3>3. counted[d] = p[d] + 1 /\ p[d] \in Nat
      BY <1>2
    <3>4. counted[d] >= Threshold(c, d)
      BY <1>7, <2>6
    <3> HIDE DEF counted, c
    <3>5. p[d] >= 1
      BY <3>2, <3>3, <3>4
    <3>6. PICK k \in 0..n - 1 : Classify(scores[Len(scores) - k]) = d
      BY <1>2, <1>5, <3>5
    <3> HIDE DEF n
    <3>7. k \in Nat /\ k <= 2 /\ k < Len(scores)
      BY <1>4, <3>6
    <3>8. k + 1 < Len(new)
      BY <1>3, <1>4, <3>7, HistoryAssumption
    <3>9. new[Len(new) - (k + 1)] = scores[Len(scores) - k]
      BY <1>3, <3>7, <3>8
    <3>10. /\ last \in Seq(S)
           /\ Len(last) = IF Len(new) < 4 THEN Len(new) ELSE 4
           /\ \A j \in Nat : j < Len(last) => last[Len(last) - j] = new[Len(new) - j]
      <4>1. new \in Seq(S) /\ 4 \in Nat
        BY <1>3
      <4> HIDE DEF d, c, counted, n
      <4> QED  BY <4>1, LastOfProperties
    <3>11. DOMAIN last = 1..Len(last) /\ Len(last) \in Nat
      BY <3>10, LenProperties
    <3> HIDE DEF last
    <3> DEFINE a == Len(last) - 0
               b == Len(last) - (k + 1)
    <3>12. 0 < Len(last) /\ k + 1 < Len(last) /\ k + 1 \in Nat
      BY <1>3, <3>7, <3>8, <3>10
    <3>13. last[a] = new[Len(new) - 0] /\ last[b] = new[Len(new) - (k + 1)]
      BY <3>10, <3>12
    <3>14. Len(new) - 0 = Len(new)
      BY <1>3
    <3>15. a \in 1..Len(last) /\ b \in 1..Len(last) /\ a # b
      <4>1. \A m \in Nat : 0 < m /\ k + 1 < m =>
               m - 0 \in 1..m /\ m - (k + 1) \in 1..m /\ m - 0 # m - (k + 1)
        BY <3>7
      <4> QED  BY <3>11, <3>12, <4>1
    <3> HIDE DEF a, b
    <3>16. Classify(last[a]) = d /\ Classify(last[b]) = d
      BY <1>3, <3>6, <3>9, <3>13, <3>14
    <3>17. a \in agree /\ b \in agree
      BY <3>11, <3>15, <3>16
    <3>18. IsFiniteSet(agree)
      <4>1. IsFiniteSet(1..Len(last)) /\ agree \in SUBSET (1..Len(last))
        BY <3>11, FS_Interval
      <4> QED  BY <4>1, FS_Subset
    <3> HIDE DEF agree
    <3>19. 2 <= Cardinality(agree)
      BY <3>15, <3>17, <3>18, TwoMembers
    <3> QED  BY <3>19 DEF agree, last
  <2> QED  BY <2>1, <2>3, <2>4, <2>5, <2>6 DEF Watched
<1>8. CASE ~ (c \in {"none", d} \/ counted[d] >= Threshold(c, d))
  <2>1. g2.gradient = c /\ g2.pending = counted
        /\ g2 = [gradient |-> g2.gradient, pending |-> g2.pending]
    <3>1. g2 = [g EXCEPT !.pending = counted] /\ g = [gradient |-> c, pending |-> p]
      BY <1>6, <1>8 DEF Watched, GuardTyped
    <3> HIDE DEF counted, c, p
    <3> QED  BY <3>1
  <2>2. /\ counted \in [Gradients -> Nat]
        /\ counted[d] = p[d] + 1 /\ p[d] \in Nat
        /\ \A l \in Gradients : l # d => counted[l] = p[l]
    BY <1>2
  <2>3. c \in Gradients /\ c # "none" /\ c # d
    BY <1>2, <1>8 DEF Gradients
  <2>4. GuardTyped(g2)
    BY <1>2, <2>1, <2>2 DEF GuardTyped
  <2>5. BelowThreshold(g2)
    <3>1. p[c] = 0 /\ \A l \in Gradients : l # c => p[l] < Threshold(c, l)
      BY <2>3 DEF Watched, BelowThreshold
    <3>2. Threshold(c, d) \in Nat /\ counted[d] \in Nat /\ ~ (counted[d] >= Threshold(c, d))
      BY <1>2, <1>8, <2>2, <2>3, ThresholdIs
    <3> HIDE DEF c, counted, p
    <3>3. counted[d] < Threshold(c, d)
      BY <3>2
    <3>4. counted[c] = 0
      BY <2>2, <2>3, <3>1
    <3>5. \A l \in Gradients : l # c => counted[l] < Threshold(c, l)
      BY <2>2, <3>1, <3>3
    <3> QED  BY <2>1, <2>3, <3>4, <3>5 DEF BelowThreshold
  <2>6. InHistory(g2, new)
    <3>1. Waiting(counted) = n + 1
      <4>1. /\ p["HIGH"] \in Nat /\ p["MEDIUM"] \in Nat /\ p["LOW"] \in Nat /\ p["CRITICAL"] \in Nat
            /\ d \in {"HIGH", "MEDIUM", "LOW", "CRITICAL"}
            /\ \A l \in {"HIGH", "MEDIUM", "LOW", "CRITICAL"} :
                  counted[l] = IF l = d THEN p[l] + 1 ELSE p[l]
        BY <1>2, <2>2 DEF Gradients
      <4> HIDE DEF counted, p, d
      <4>2. counted["HIGH"] + counted["MEDIUM"] + counted["LOW"] + counted["CRITICAL"]
               = p["HIGH"] + p["MEDIUM"] + p["LOW"] + p["CRITICAL"] + 1
        <5>1. CASE d = "HIGH"
          BY <4>1, <5>1
        <5>2. CASE d = "MEDIUM"
          BY <4>1, <5>2
        <5>3. CASE d = "LOW"
          <6>1. /\ counted["HIGH"] = p["HIGH"] /\ counted["MEDIUM"] = p["MEDIUM"]
                /\ counted["LOW"] = p["LOW"] + 1 /\ counted["CRITICAL"] = p["CRITICAL"]
            BY <4>1, <5>3
          <6>2. \A a, b, l, e \in Nat : a + b + (l + 1) + e = a + b + l + e + 1
            OBVIOUS
          <6>3. p["HIGH"] + p["MEDIUM"] + (p["LOW"] + 1) + p["CRITICAL"]
                   = p["HIGH"] + p["MEDIUM"] + p["LOW"] + p["CRITICAL"] + 1
            BY <4>1, <6>2
          <6> QED  BY <6>1, <6>3, Zenon
        <5>4. CASE d = "CRITICAL"
          BY <4>1, <5>4
        <5> QED  BY <4>1, <5>1, <5>2, <5>3, <5>4
      <4> QED  BY <4>2 DEF Waiting, n
    <3>2. Waiting(counted) \in 0..3
      BY <2>1, <2>4, <2>5, FewWait
    <3> HIDE DEF n
    <3>3. n + 1 <= Len(new)
      BY <1>3, <1>4, <3>1, <3>2, HistoryAssumption
    <3>4. ASSUME NEW l \in Gradients, counted[l] >= 1
          PROVE  \E k \in 0..(n + 1) - 1 : Classify(new[Len(new) - k]) = l
      <4>1. CASE l = d
        <5>1. Len(new) - 0 = Len(new) /\ 0 \in 0..(n + 1) - 1
          BY <1>3, <1>4
        <5>2. Classify(new[Len(new) - 0]) = l
          BY <1>3, <4>1, <5>1
        <5> QED  BY <5>1, <5>2
      <4>2. CASE l # d
        <5>1. p[l] >= 1
          BY <2>2, <3>4, <4>2
        <5>2. PICK k \in 0..n - 1 : Classify(scores[Len(scores) - k]) = l
          BY <1>5, <5>1 DEF n
        <5>3. k \in Nat /\ k < Len(scores)
          BY <1>4, <5>2
        <5>4. k + 1 < Len(new)
          BY <1>3, <1>4, <3>3, <5>2
        <5>5. new[Len(new) - (k + 1)] = scores[Len(scores) - k]
          BY <1>3, <5>3, <5>4
        <5>6. k + 1 \in 0..(n + 1) - 1
          BY <1>4, <5>2
        <5>7. Classify(new[Len(new) - (k + 1)]) = l
          BY <5>2, <5>5
        <5> QED  BY <5>6, <5>7
      <4> QED  BY <4>1, <4>2
    <3> QED  BY <2>1, <3>1, <3>3, <3>4 DEF InHistory
  <2> QED  BY <2>1, <2>4, <2>5, <2>6 DEF Watched
<1> QED  BY <1>7, <1>8

GuardInv == (\E S : confidence \in Seq(S)) /\ Watched(guard, confidence)

\* What a cycle does to the scores and the guard.
LEMMA Assured ==
    ASSUME GuardInv, [ONext]_ovars
    PROVE  \/ UNCHANGED <<confidence, guard>>
           \/ \E x : /\ confidence' = Remember(confidence, x, History)
                     /\ guard' = Resolve(guard, x)
<1>1. ASSUME NEW t \in Trace, NEW failing \in Failing, FinalizeCycle(t, failing)
      PROVE  \/ UNCHANGED <<confidence, guard>>
             \/ \E x : /\ confidence' = Remember(confidence, x, History)
                       /\ guard' = Resolve(guard, x)
  <2>1. Assure(count')
    BY <1>1 DEF FinalizeCycle
  <2>2. CASE Due(count', ConfidenceEvery)
    <3>1. PICK queue \in Queue :
             LET score == Confidence(LastOf(window', Recent), queue)
             IN  /\ confidence' = Remember(confidence, score, History)
                 /\ guard' = Resolve(guard, score)
      BY <2>1, <2>2 DEF Assure
    <3> QED  BY <3>1
  <2>3. CASE ~ Due(count', ConfidenceEvery)
    BY <2>1, <2>3 DEF Assure
  <2> QED  BY <2>2, <2>3
<1>2. CASE UNCHANGED ovars
  BY <1>2 DEF ovars, assessments
<1> QED  BY <1>1, <1>2 DEF ONext

LEMMA GuardInvStep ==
    ASSUME GuardInv, [ONext]_ovars
    PROVE  /\ GuardInv'
           /\ guard'.gradient # guard.gradient /\ "CRITICAL" \notin {guard.gradient, guard'.gradient}
                  /\ guard.gradient # "none"
              => 2 <= Cardinality({i \in DOMAIN LastOf(confidence', 4) :
                                      Classify(LastOf(confidence', 4)[i]) = guard'.gradient})
<1>1. CASE UNCHANGED <<confidence, guard>>
  BY <1>1 DEF GuardInv
<1>2. ASSUME NEW x, confidence' = Remember(confidence, x, History), guard' = Resolve(guard, x)
      PROVE  /\ GuardInv'
             /\ guard'.gradient # guard.gradient /\ "CRITICAL" \notin {guard.gradient, guard'.gradient}
                    /\ guard.gradient # "none"
                => 2 <= Cardinality({i \in DOMAIN LastOf(confidence', 4) :
                                        Classify(LastOf(confidence', 4)[i]) = guard'.gradient})
  <2>1. PICK T : confidence \in Seq(T)
    BY DEF GuardInv
  <2> DEFINE S == T \cup {x}
  <2>2. confidence \in Seq(S) /\ x \in S
    <3>1. \A i \in 1..Len(confidence) : confidence[i] \in S
      BY <2>1, ElementOfSeq
    <3> QED  BY <2>1, <3>1, LenProperties, SeqDef
  <2> HIDE DEF S
  <2>3. Watched(guard, confidence)
    BY DEF GuardInv
  <2>4. guard' \in {Resolve(guard, x)} /\ confidence' \in {Remember(confidence, x, History)}
    BY <1>2
  <2>5. /\ Watched(guard', confidence')
        /\ guard'.gradient # guard.gradient /\ "CRITICAL" \notin {guard.gradient, guard'.gradient}
               /\ guard.gradient # "none"
           => 2 <= Cardinality({i \in DOMAIN LastOf(confidence', 4) :
                                   Classify(LastOf(confidence', 4)[i]) = guard'.gradient})
    BY <2>2, <2>3, <2>4, GuardStep
  <2>6. confidence' \in Seq(S)
    <3>1. Adds(Remember(confidence, x, History), S, confidence, x)
      BY <2>2, Remembered
    <3> QED  BY <1>2, <3>1 DEF Adds
  <2> QED  BY <2>5, <2>6 DEF GuardInv
<1> QED  BY <1>1, <1>2, Assured

\* The gradient of confidence leaves a level that is not CRITICAL for another
\* such level only when two of the last four scores are of that level: at most
\* three readings are counted at a time, all of them among the last three.
THEOREM LevelsHold == OSpec => NoFlapping
<1>1. OInit => GuardInv
  <2> SUFFICES ASSUME OInit PROVE GuardInv
    OBVIOUS
  <2>1. confidence = <<>> /\ guard = [gradient |-> "none", pending |-> NothingPending]
    BY DEF OInit
  <2>2. confidence \in Seq({}) /\ Len(confidence) = 0
    BY <2>1, EmptySeq
  <2>3. GuardTyped(guard) /\ BelowThreshold(guard)
    BY <2>1, NothingWaits DEF GuardTyped, BelowThreshold
  <2>4. InHistory(guard, confidence)
    BY <2>1, <2>2, NothingWaits DEF InHistory
  <2> QED  BY <2>2, <2>3, <2>4 DEF GuardInv, Watched
<1>2. GuardInv /\ [ONext]_ovars => GuardInv'
  BY GuardInvStep
<1>3. GuardInv /\ [ONext]_ovars =>
         [guard'.gradient # guard.gradient /\ "CRITICAL" \notin {guard.gradient, guard'.gradient}
               /\ guard.gradient # "none"
            => 2 <= Cardinality({i \in DOMAIN LastOf(confidence', 4) :
                        Classify(LastOf(confidence', 4)[i]) = guard'.gradient})]_ovars
  BY GuardInvStep
<1> QED  BY <1>1, <1>2, <1>3, PTL DEF OSpec, NoFlapping

-----------------------------------------------------------------------------
(* The fingerprint tells every attempt *)

\* The function by which Attempts is defined.
Retells(f, s, e) ==
    f = [k \in 0..Len(s) |-> IF k = 0 THEN <<>>
                             ELSE IF s[k].event = e THEN Append(f[k - 1], Part(s[k]))
                             ELSE f[k - 1]]

LEMMA RetellsExists ==
    ASSUME NEW s, NEW e, NEW n \in Nat, Len(s) = n
    PROVE  \E f : Retells(f, s, e)
<1> DEFINE P == {Part(s[k]) : k \in 1..n}
           X == Seq(P)
           step(k, q) == IF s[k].event = e THEN Append(q, Part(s[k])) ELSE q
           fs == [k \in 1..n |-> [q \in X |-> step(k, q)]]
<1>1. <<>> \in X
  OBVIOUS
<1>2. fs \in [1..n -> [X -> X]]
  <2>1. ASSUME NEW k \in 1..n, NEW q \in X PROVE step(k, q) \in X
    <3>1. Part(s[k]) \in P
      OBVIOUS
    <3> HIDE DEF P
    <3>2. Append(q, Part(s[k])) \in Seq(P)
      BY <3>1, AppendProperties
    <3> QED  BY <3>2
  <2> HIDE DEF step, X
  <2> QED  BY <2>1
<1>3. ASSUME NEW k \in 1..n, NEW q \in X PROVE fs[k][q] = step(k, q)
  <2> HIDE DEF step
  <2> QED  OBVIOUS
<1> HIDE DEF X, fs
<1>4. PICK f \in [0..n -> X] : Recurses(f, <<>>, fs, n)
  BY <1>1, <1>2, RecursionExists
<1>5. ASSUME NEW k \in 0..n PROVE f[k] = IF k = 0 THEN <<>> ELSE step(k, f[k - 1])
  <2>1. CASE k = 0
    BY <2>1, <1>4 DEF Recurses
  <2>2. CASE k # 0
    <3>1. k \in 1..n /\ k - 1 \in 0..n
      BY <2>2
    <3>2. f[k] = fs[k][f[k - 1]] /\ f[k - 1] \in X
      BY <3>1, <1>4 DEF Recurses
    <3>3. f[k] = step(k, f[k - 1])
      BY <3>1, <3>2, <1>3
    <3> HIDE DEF step
    <3> QED  BY <3>3, <2>2
  <2> QED  BY <2>1, <2>2
<1>6. Retells(f, s, e)
  BY <1>4, <1>5 DEF Retells
<1> QED  BY <1>6

\* Two windows that differ in the outcome of one trace tell different attempts.
LEMMA OtherOutcomeTold ==
    ASSUME NEW n \in Nat, NEW s, DOMAIN s = 1..n, Len(s) = n, NEW i \in 1..n, NEW t,
           t.event = s[i].event, Part(t) # Part(s[i]),
           NEW r, r = [s EXCEPT ![i] = t], Len(r) = n
    PROVE  Attempts(s, t.event) # Attempts(r, t.event)
<1> DEFINE e == t.event
           f == CHOOSE h : Retells(h, s, e)
           g == CHOOSE h : Retells(h, r, e)
           P == {Part(s[k]) : k \in 1..n} \cup {Part(t)}
<1>1. Retells(f, s, e) /\ Retells(g, r, e)
  BY RetellsExists, Zenon
<1>2. Attempts(s, e) = f[n] /\ Attempts(r, e) = g[n]
  BY Zenon DEF Attempts, Retells
<1> HIDE DEF f, g
<1>3. ASSUME NEW k \in 1..n
      PROVE  /\ s[k].event = e => f[k] = Append(f[k - 1], Part(s[k])) /\ g[k] = Append(g[k - 1], Part(r[k]))
             /\ s[k].event # e => f[k] = f[k - 1] /\ g[k] = g[k - 1]
             /\ Part(s[k]) \in P /\ Part(r[k]) \in P
             /\ k = i => s[k].event = e /\ Part(s[k]) # Part(r[k])
  <2>1. k \in 0..n /\ k # 0
    OBVIOUS
  <2>2. /\ f[k] = IF s[k].event = e THEN Append(f[k - 1], Part(s[k])) ELSE f[k - 1]
        /\ g[k] = IF r[k].event = e THEN Append(g[k - 1], Part(r[k])) ELSE g[k - 1]
    <3>1. k \in 0..Len(s) /\ k \in 0..Len(r)
      BY <2>1
    <3>2. f[k] = IF k = 0 THEN <<>> ELSE IF s[k].event = e THEN Append(f[k - 1], Part(s[k])) ELSE f[k - 1]
      BY <3>1, <1>1, Zenon DEF Retells
    <3>3. g[k] = IF k = 0 THEN <<>> ELSE IF r[k].event = e THEN Append(g[k - 1], Part(r[k])) ELSE g[k - 1]
      BY <3>1, <1>1, Zenon DEF Retells
    <3> QED  BY <2>1, <3>2, <3>3
  <2>3. r[k] = IF k = i THEN t ELSE s[k]
    OBVIOUS
  <2>4. r[k].event = s[k].event /\ (k = i => s[k].event = e)
    BY <2>3
  <2>5. Part(s[k]) \in P /\ Part(r[k]) \in P /\ (k = i => Part(s[k]) # Part(r[k]))
    BY <2>3
  <2> QED  BY <2>2, <2>4, <2>5
<1>4. f[0] = <<>> /\ g[0] = <<>>
  <2>1. 0 \in 0..Len(s) /\ 0 \in 0..Len(r)
    OBVIOUS
  <2> QED  BY <2>1, <1>1, Zenon DEF Retells
<1> HIDE DEF P, e
<1> DEFINE Parallel(k) == /\ f[k] \in Seq(P) /\ g[k] \in Seq(P) /\ Len(f[k]) = Len(g[k])
                          /\ k >= i => \E j \in 1..Len(f[k]) : f[k][j] # g[k][j]
           Bad == {k \in 0..n : ~ Parallel(k)}
<1>5. Bad = {}
  <2> SUFFICES ASSUME Bad # {} PROVE FALSE
    OBVIOUS
  <2>1. Bad \subseteq Nat
    OBVIOUS
  <2>2. PICK m \in Bad : \A k \in Bad : m <= k
    <3> HIDE DEF Bad
    <3> QED  BY <2>1, LeastNat
  <2>3. m \in 0..n /\ ~ Parallel(m)
    OBVIOUS
  <2>4. m # 0
    <3> SUFFICES ASSUME m = 0 PROVE FALSE
      OBVIOUS
    <3>1. <<>> \in Seq(P) /\ ~ (0 >= i)
      OBVIOUS
    <3> QED  BY <3>1, <1>4, <2>3
  <2>5. m \in 1..n /\ m - 1 \in 0..n /\ ~ (m <= m - 1)
    BY <2>3, <2>4
  <2>6. m - 1 \notin Bad
    <3> HIDE DEF Bad
    <3> QED  BY <2>2, <2>5
  <2>7. Parallel(m - 1)
    BY <2>5, <2>6
  <2> HIDE DEF Bad
  <2>8. CASE s[m].event # e
    <3>1. f[m] = f[m - 1] /\ g[m] = g[m - 1] /\ m # i
      BY <2>5, <2>8, <1>3
    <3>2. m >= i => m - 1 >= i
      BY <3>1, <2>5
    <3>3. Parallel(m)
      BY <3>1, <3>2, <2>7
    <3> QED  BY <3>3, <2>3
  <2>9. CASE s[m].event = e
    <3> DEFINE a == f[m - 1]
               b == g[m - 1]
               l == Len(f[m - 1])
               x == Part(s[m])
               y == Part(r[m])
    <3>1. f[m] = Append(a, x) /\ g[m] = Append(b, y) /\ x \in P /\ y \in P /\ (m = i => x # y)
      BY <2>5, <2>9, <1>3
    <3>2. a \in Seq(P) /\ b \in Seq(P) /\ l \in Nat /\ Len(a) = l /\ Len(b) = l
      BY <2>7, LenProperties
    <3>3. m - 1 >= i => \E j \in 1..l : a[j] # b[j]
      BY <2>7
    <3> HIDE DEF a, b, l, x, y
    <3>4. /\ f[m] \in Seq(P) /\ Len(f[m]) = l + 1 /\ f[m][l + 1] = x
          /\ \A j \in 1..l : f[m][j] = a[j]
      BY <3>1, <3>2, AppendProperties
    <3>5. /\ g[m] \in Seq(P) /\ Len(g[m]) = l + 1 /\ g[m][l + 1] = y
          /\ \A j \in 1..l : g[m][j] = b[j]
      <4>1. g[m] = Append(b, y) /\ b \in Seq(P) /\ Len(b) = l /\ y \in P
        BY <3>1, <3>2
      <4> QED  BY <4>1, AppendProperties
    <3>6. l + 1 \in 1..l + 1 /\ \A j \in 1..l : j \in 1..l + 1
      BY <3>2
    <3>7. CASE m = i
      <4>1. f[m][l + 1] # g[m][l + 1]
        BY <3>1, <3>4, <3>5, <3>7
      <4>2. Parallel(m)
        BY <4>1, <3>4, <3>5, <3>6
      <4> QED  BY <4>2, <2>3
    <3>8. CASE m # i
      <4>1. m >= i => m - 1 >= i
        BY <3>8, <2>5
      <4>2. m >= i => \E j \in 1..l + 1 : f[m][j] # g[m][j]
        BY <4>1, <3>3, <3>4, <3>5, <3>6
      <4>3. Parallel(m)
        BY <4>2, <3>4, <3>5
      <4> QED  BY <4>3, <2>3
    <3> QED  BY <3>7, <3>8
  <2> QED  BY <2>8, <2>9
<1>6. n \in 0..n /\ n >= i
  OBVIOUS
<1>7. f[n] # g[n]
  BY <1>5, <1>6
<1> QED  BY <1>2, <1>7 DEF e

StageNames == {"host_event", "proposal", "decision", "execution", "blocked", "outcome"}

\* An event of a window has a host event in its graph.
LEMMA EventsAreInGraph ==
    ASSUME NEW s, NEW i \in DOMAIN s
    PROVE  s[i].event \in Events(Build(s))
<1> DEFINE t == s[i]
           n == <<t.event, "host_event">>
           a == <<"host_event">>
           b == IF t.valid THEN <<"proposal">> ELSE <<>>
           c == IF TakesBlockedPath(t) THEN <<"blocked">> ELSE <<"decision", "execution">>
           d == <<"outcome">>
<1>1. Stages(t) = ((a \o b) \o c) \o d
  BY DEF Stages
<1>2. /\ "host_event" \in StageNames /\ "proposal" \in StageNames /\ "blocked" \in StageNames
      /\ "decision" \in StageNames /\ "execution" \in StageNames /\ "outcome" \in StageNames
  BY DEF StageNames
<1>3. a \in Seq(StageNames) /\ d \in Seq(StageNames) /\ ToSet(a) = {"host_event"}
  BY <1>2, OneOf
<1>4. b \in Seq(StageNames)
  BY <1>2, OneOf
<1>5. c \in Seq(StageNames)
  <2>1. <<"decision", "execution">> \in Seq(StageNames)
    BY <1>2, TwoOf
  <2>2. <<"blocked">> \in Seq(StageNames)
    BY <1>2, OneOf
  <2> QED  BY <2>1, <2>2
<1> HIDE DEF a, b, c, d
<1>6. "host_event" \in ToSet(Stages(t))
  <2> DEFINE ab == a \o b
  <2>1. ab \in Seq(StageNames) /\ ToSet(ab) = ToSet(a) \cup ToSet(b)
    BY <1>3, <1>4, Joined
  <2> DEFINE abc == ab \o c
  <2> HIDE DEF ab
  <2>2. abc \in Seq(StageNames) /\ ToSet(abc) = ToSet(ab) \cup ToSet(c)
    BY <2>1, <1>5, Joined
  <2> DEFINE abcd == abc \o d
  <2> HIDE DEF abc
  <2>3. ToSet(abcd) = ToSet(abc) \cup ToSet(d)
    BY <2>2, <1>3, Joined
  <2>4. Stages(t) = abcd
    BY <1>1 DEF ab, abc
  <2> HIDE DEF abcd
  <2> QED  BY <1>3, <2>1, <2>2, <2>3, <2>4
<1>7. n \in NodesOf(t)
  BY <1>6 DEF NodesOf
<1>8. n \in DOMAIN Build(s).nodes
  BY <1>7 DEF Build
<1> QED  BY <1>8 DEF Events

\* The drift detector sees every other outcome of an event, in a window of any
\* traces and any length, an earlier attempt included.
THEOREM DriftIsSeen == OSpec => []DriftSeen
<1>1. WindowTyped => DriftSeen
  <2> SUFFICES ASSUME window \in Seq(Trace), NEW i \in DOMAIN window, NEW t \in Trace,
                      t.event = window[i].event, Part(t) # Part(window[i])
               PROVE  HasDrift(window, [window EXCEPT ![i] = t])
    BY DEF WindowTyped, DriftSeen
  <2> DEFINE n == Len(window)
             r == [window EXCEPT ![i] = t]
             e == t.event
  <2>1. n \in Nat /\ DOMAIN window = 1..n /\ i \in 1..n
    BY LenProperties
  <2>2. r \in Seq(Trace) /\ Len(r) = n
    OBVIOUS
  <2>3. Attempts(window, e) # Attempts(r, e)
    <3> HIDE DEF n
    <3> QED  BY <2>1, <2>2, OtherOutcomeTold DEF n
  <2>4. e \in Events(Build(window))
    BY EventsAreInGraph
  <2> HIDE DEF r, e
  <2>5. /\ Fingerprint(window).traces = [d \in Events(Build(window)) |-> Attempts(window, d)]
        /\ Fingerprint(r).traces = [d \in Events(Build(r)) |-> Attempts(r, d)]
    BY DEF Fingerprint
  <2>6. Fingerprint(window) # Fingerprint(r)
    <3> SUFFICES ASSUME Fingerprint(window) = Fingerprint(r) PROVE FALSE
      OBVIOUS
    <3>1. [d \in Events(Build(window)) |-> Attempts(window, d)]
            = [d \in Events(Build(r)) |-> Attempts(r, d)]
      BY <2>5
    <3>2. e \in Events(Build(r)) /\ Attempts(window, e) = Attempts(r, e)
      BY <3>1, <2>4, Zenon
    <3> QED  BY <3>2, <2>3
  <2> QED  BY <2>6 DEF HasDrift, r
<1> QED  BY <1>1, WindowOfTraces, PTL

-----------------------------------------------------------------------------
(* What the pattern miner stores *)

Digests(kind) ==
    /\ {"entry", "inserted", "order", "weight", "seen"} \subseteq DOMAIN kind
    /\ \A k \in DOMAIN kind.entry : \E x : k = Md5(x)

LEMMA AccessKeepsEntries ==
    ASSUME NEW kind, NEW key, Digests(kind)
    PROVE  Digests(RecordAccess(kind, key))
BY DEF RecordAccess, Digests

LEMMA LearnKeepsDigests ==
    ASSUME NEW kind, NEW x, NEW limit, Digests(kind)
    PROVE  Digests(Learn(kind, Md5(x), limit))
<1> DEFINE key == Md5(x)
           pushed == [kind EXCEPT !.seen = LastOf(Append(RemoveFirst(@, key), key), MaxSeen)]
<1>1. Digests(pushed) /\ pushed.entry = kind.entry
  BY DEF Digests
<1> HIDE DEF pushed
<1>2. ASSUME NEW more PROVE Digests(Again(pushed, key, more))
  <2> DEFINE again == [pushed EXCEPT !.entry[key] = [frequency |-> @.frequency + 1,
                                                    severity |-> @.severity + more]]
  <2>1. DOMAIN again = DOMAIN pushed /\ DOMAIN again.entry = DOMAIN pushed.entry
    BY <1>1 DEF Digests
  <2>2. Digests(again)
    BY <1>1, <2>1 DEF Digests
  <2> QED  BY <2>2, AccessKeepsEntries DEF Again
<1>3. Digests(Insert(pushed, key, limit))
  <2> DEFINE full == Len(pushed.order) >= limit
             evicted == IF full THEN {Select(pushed)} ELSE {}
             kept == IF full THEN RemoveFirst(pushed.order, Select(pushed)) ELSE pushed.order
             there == (DOMAIN pushed.entry \ evicted) \cup {key}
             f == [k \in there |-> IF k = key THEN [frequency |-> 1, severity |-> 1]
                                   ELSE pushed.entry[k]]
             o == Append(kept, key)
             i == IF full /\ policy = "fifo" THEN Inserted(pushed) ELSE pushed.inserted
             new == [pushed EXCEPT !.inserted = i, !.order = o, !.entry = f]
  <2>1. Insert(pushed, key, limit) = RecordAccess(new, key)
    BY <1>1, Zenon DEF Insert
  <2> HIDE DEF o, i
  <2>2. \A k \in there : \E y : k = Md5(y)
    BY <1>1 DEF Digests
  <2> HIDE DEF there
  <2>3. DOMAIN f = there
    OBVIOUS
  <2> HIDE DEF f
  <2>4. DOMAIN new = DOMAIN pushed /\ new.entry = f
    BY <1>1 DEF Digests
  <2> HIDE DEF new
  <2>5. Digests(new)
    BY <1>1, <2>2, <2>3, <2>4 DEF Digests
  <2> QED  BY <2>1, <2>5, AccessKeepsEntries
<1>4. Learn(kind, key, limit)
        \in {pushed, Again(pushed, key, kind.entry[key].severity), Again(pushed, key, 1),
             Insert(pushed, key, limit)}
  BY DEF Learn, pushed
<1> QED  BY <1>1, <1>2, <1>3, <1>4

\* The function by which the miner folds a sequence s, from its first n traces.
Mines(it, s, n) ==
    it = [T \in SUBSET (1..n) |->
             IF T = {} THEN patterns
             ELSE Learn(it[T \ {Max(T)}], Md5(Signature(s[Max(T)])), MaxPatterns)]

LEMMA MinesExists ==
    ASSUME NEW s, NEW n \in Nat
    PROVE  \E it : Mines(it, s, n)
<1> DEFINE step(T, kind) == IF T = {} THEN patterns
                            ELSE Learn(kind, Md5(Signature(s[Max(T)])), MaxPatterns)
           Upto(it, k) == \A T \in SUBSET (1..k) : it[T] = step(T, it[T \ {Max(T)}])
           Bad == {k \in 0..n : ~ \E it : Upto(it, k)}
<1>1. Bad = {}
  <2> SUFFICES ASSUME Bad # {} PROVE FALSE
    OBVIOUS
  <2>1. PICK m \in Bad : \A k \in Bad : m <= k
    <3>1. Bad \subseteq Nat
      OBVIOUS
    <3> HIDE DEF Bad
    <3> QED  BY <3>1, LeastNat
  <2>2. m # 0
    <3> DEFINE it == [T \in {{}} |-> patterns]
    <3>1. ASSUME NEW T \in SUBSET (1..0) PROVE it[T] = step(T, it[T \ {Max(T)}])
      <4>1. T = {}
        OBVIOUS
      <4> QED  BY <4>1
    <3> HIDE DEF it, step
    <3>2. Upto(it, 0)
      BY <3>1
    <3> HIDE DEF Upto
    <3> QED  BY <3>2
  <2>3. m \in 1..n /\ m - 1 \in 0..n /\ m - 1 \notin Bad
    <3>1. m \in 0..n
      OBVIOUS
    <3>2. m \in 1..n /\ m - 1 \in 0..n /\ ~ (m <= m - 1)
      BY <2>2, <3>1
    <3> HIDE DEF Bad
    <3> QED  BY <2>1, <3>2
  <2> HIDE DEF step
  <2>4. PICK f : Upto(f, m - 1)
    BY <2>3
  <2> DEFINE g == [T \in SUBSET (1..m) |-> IF T \in SUBSET (1..(m - 1)) THEN f[T]
                                           ELSE step(T, f[T \ {Max(T)}])]
  <2>5. ASSUME NEW T \in SUBSET (1..m) PROVE g[T] = step(T, g[T \ {Max(T)}])
    <3> DEFINE rest == T \ {Max(T)}
    <3>1. rest \in SUBSET (1..(m - 1))
      <4>1. CASE T = {}
        BY <4>1
      <4>2. CASE T # {}
        <5>1. m \in Nat /\ T \subseteq 1..m
          BY <2>3
        <5> QED  BY <4>2, <5>1, BelowGreatest
      <4> QED  BY <4>1, <4>2
    <3>2. rest \in SUBSET (1..m)
      OBVIOUS
    <3> HIDE DEF rest
    <3>3. g[rest] = f[rest]
      BY <3>1, <3>2
    <3>4. CASE T \in SUBSET (1..(m - 1))
      <4>1. f[T] = step(T, f[T \ {Max(T)}])
        BY <3>4, <2>4
      <4>2. g[T] = f[T]
        BY <3>4
      <4> HIDE DEF g
      <4> QED  BY <4>1, <4>2, <3>3 DEF rest
    <3>5. CASE T \notin SUBSET (1..(m - 1))
      <4>2. g[T] = step(T, f[T \ {Max(T)}])
        BY <3>5
      <4> HIDE DEF g
      <4> QED  BY <4>2, <3>3 DEF rest
    <3> QED  BY <3>4, <3>5
  <2> HIDE DEF g
  <2>6. Upto(g, m)
    BY <2>5
  <2> HIDE DEF Upto
  <2> QED  BY <2>6
<1>2. n \in 0..n
  OBVIOUS
<1>3. PICK f : Upto(f, n)
  <2> HIDE DEF Upto
  <2>1. n \notin Bad
    <3> HIDE DEF Bad
    <3> QED  BY <1>1
  <2> QED  BY <2>1, <1>2
<1> DEFINE it == [T \in SUBSET (1..n) |-> f[T]]
<1>4. ASSUME NEW T \in SUBSET (1..n) PROVE f[T] = step(T, it[T \ {Max(T)}])
  <2>1. T \ {Max(T)} \in SUBSET (1..n)
    OBVIOUS
  <2>2. it[T \ {Max(T)}] = f[T \ {Max(T)}]
    BY <2>1
  <2> HIDE DEF step, it
  <2> QED  BY <1>3, <2>2
<1> HIDE DEF step
<1>5. it = [T \in SUBSET (1..n) |-> step(T, it[T \ {Max(T)}])]
  BY <1>4
<1> HIDE DEF it
<1>6. Mines(it, s, n)
  BY <1>5 DEF Mines, step
<1> QED  BY <1>6

\* Whatever it mines, the miner stores digests.
LEMMA MiningKeepsDigests ==
    ASSUME NEW s, NEW n \in Nat, DOMAIN s = 1..n, Digests(patterns)
    PROVE  Digests(MinePatterns(s))
<1> DEFINE it == CHOOSE f : Mines(f, s, n)
<1>1. Mines(it, s, n)
  BY MinesExists, Zenon
<1>2. MinePatterns(s) = it[1..n]
  BY Zenon DEF MinePatterns, FoldLeft, MapThenFoldSet, Mines
<1> HIDE DEF it
<1>3. ASSUME NEW T \in SUBSET (1..n)
      PROVE  it[T] = IF T = {} THEN patterns
                     ELSE Learn(it[T \ {Max(T)}], Md5(Signature(s[Max(T)])), MaxPatterns)
  BY <1>1, Zenon DEF Mines
<1> DEFINE G == {T \in SUBSET (1..n) : Digests(it[T])}
<1>4. {} \in G
  BY <1>3
<1>5. ASSUME NEW T \in SUBSET (1..n), T # {}, T \ {Max(T)} \in G PROVE T \in G
  <2>1. it[T] = Learn(it[T \ {Max(T)}], Md5(Signature(s[Max(T)])), MaxPatterns)
    BY <1>3, <1>5
  <2>2. Digests(it[T])
    BY <1>5, <2>1, LearnKeepsDigests
  <2> QED  BY <2>2
<1> HIDE DEF G
<1>6. 1..n \in G
  BY <1>4, <1>5, PositionInduction
<1> QED  BY <1>2, <1>6 DEF G

-----------------------------------------------------------------------------
(* Sums, extrema and rates *)

\* The function by which the sum of a sequence s of length n is defined.
Sums(it, s, n) ==
    it = [T \in SUBSET (1..n) |-> IF T = {} THEN 0 ELSE it[T \ {Max(T)}] + s[Max(T)]]

LEMMA SumsExists ==
    ASSUME NEW s, NEW n \in Nat
    PROVE  \E it : Sums(it, s, n)
<1> DEFINE step(T, x) == IF T = {} THEN 0
                            ELSE x + s[Max(T)]
           Upto(it, k) == \A T \in SUBSET (1..k) : it[T] = step(T, it[T \ {Max(T)}])
           Bad == {k \in 0..n : ~ \E it : Upto(it, k)}
<1>1. Bad = {}
  <2> SUFFICES ASSUME Bad # {} PROVE FALSE
    OBVIOUS
  <2>1. PICK m \in Bad : \A k \in Bad : m <= k
    <3>1. Bad \subseteq Nat
      OBVIOUS
    <3> HIDE DEF Bad
    <3> QED  BY <3>1, LeastNat
  <2>2. m # 0
    <3> DEFINE it == [T \in {{}} |-> 0]
    <3>1. ASSUME NEW T \in SUBSET (1..0) PROVE it[T] = step(T, it[T \ {Max(T)}])
      <4>1. T = {}
        OBVIOUS
      <4> QED  BY <4>1
    <3> HIDE DEF it, step
    <3>2. Upto(it, 0)
      BY <3>1
    <3> HIDE DEF Upto
    <3> QED  BY <3>2
  <2>3. m \in 1..n /\ m - 1 \in 0..n /\ m - 1 \notin Bad
    <3>1. m \in 0..n
      OBVIOUS
    <3>2. m \in 1..n /\ m - 1 \in 0..n /\ ~ (m <= m - 1)
      BY <2>2, <3>1
    <3> HIDE DEF Bad
    <3> QED  BY <2>1, <3>2
  <2> HIDE DEF step
  <2>4. PICK f : Upto(f, m - 1)
    BY <2>3
  <2> DEFINE g == [T \in SUBSET (1..m) |-> IF T \in SUBSET (1..(m - 1)) THEN f[T]
                                           ELSE step(T, f[T \ {Max(T)}])]
  <2>5. ASSUME NEW T \in SUBSET (1..m) PROVE g[T] = step(T, g[T \ {Max(T)}])
    <3> DEFINE rest == T \ {Max(T)}
    <3>1. rest \in SUBSET (1..(m - 1))
      <4>1. CASE T = {}
        BY <4>1
      <4>2. CASE T # {}
        <5>1. m \in Nat /\ T \subseteq 1..m
          BY <2>3
        <5> QED  BY <4>2, <5>1, BelowGreatest
      <4> QED  BY <4>1, <4>2
    <3>2. rest \in SUBSET (1..m)
      OBVIOUS
    <3> HIDE DEF rest
    <3>3. g[rest] = f[rest]
      BY <3>1, <3>2
    <3>4. CASE T \in SUBSET (1..(m - 1))
      <4>1. f[T] = step(T, f[T \ {Max(T)}])
        BY <3>4, <2>4
      <4>2. g[T] = f[T]
        BY <3>4
      <4> HIDE DEF g
      <4> QED  BY <4>1, <4>2, <3>3 DEF rest
    <3>5. CASE T \notin SUBSET (1..(m - 1))
      <4>2. g[T] = step(T, f[T \ {Max(T)}])
        BY <3>5
      <4> HIDE DEF g
      <4> QED  BY <4>2, <3>3 DEF rest
    <3> QED  BY <3>4, <3>5
  <2> HIDE DEF g
  <2>6. Upto(g, m)
    BY <2>5
  <2> HIDE DEF Upto
  <2> QED  BY <2>6
<1>2. n \in 0..n
  OBVIOUS
<1>3. PICK f : Upto(f, n)
  <2> HIDE DEF Upto
  <2>1. n \notin Bad
    <3> HIDE DEF Bad
    <3> QED  BY <1>1
  <2> QED  BY <2>1, <1>2
<1> DEFINE it == [T \in SUBSET (1..n) |-> f[T]]
<1>4. ASSUME NEW T \in SUBSET (1..n) PROVE f[T] = step(T, it[T \ {Max(T)}])
  <2>1. T \ {Max(T)} \in SUBSET (1..n)
    OBVIOUS
  <2>2. it[T \ {Max(T)}] = f[T \ {Max(T)}]
    BY <2>1
  <2> HIDE DEF step, it
  <2> QED  BY <1>3, <2>2
<1> HIDE DEF step
<1>5. it = [T \in SUBSET (1..n) |-> step(T, it[T \ {Max(T)}])]
  BY <1>4
<1> HIDE DEF it
<1>6. Sums(it, s, n)
  BY <1>5 DEF Sums, step
<1> QED  BY <1>6

\* A sum of integers is an integer.
LEMMA TotalIsInt ==
    ASSUME NEW n \in Nat, NEW s \in [1..n -> Int]
    PROVE  Total(s) \in Int
<1> DEFINE it == CHOOSE f : Sums(f, s, n)
<1>1. Sums(it, s, n)
  BY SumsExists, Zenon
<1>2. Total(s) = it[1..n]
  <2>1. DOMAIN s = 1..n
    OBVIOUS
  <2> QED  BY <2>1, Zenon DEF Total, FoldLeft, MapThenFoldSet, Sums
<1> HIDE DEF it
<1>3. ASSUME NEW T \in SUBSET (1..n)
      PROVE  it[T] = IF T = {} THEN 0
                     ELSE it[T \ {Max(T)}] + s[Max(T)]
  BY <1>1, Zenon DEF Sums
<1> DEFINE G == {T \in SUBSET (1..n) : it[T] \in Int}
<1>4. {} \in G
  <2>1. it[{}] = 0
    BY <1>3
  <2>2. {} \in SUBSET (1..n) /\ 0 \in Int
    OBVIOUS
  <2> QED  BY <2>1, <2>2, Zenon
<1>5. ASSUME NEW T \in SUBSET (1..n), T # {}, T \ {Max(T)} \in G PROVE T \in G
  <2>1. it[T] = it[T \ {Max(T)}] + s[Max(T)]
    BY <1>3, <1>5
  <2>2. s[Max(T)] \in Int /\ it[T \ {Max(T)}] \in Int
    BY <1>5, BelowGreatest
  <2> DEFINE x == it[T \ {Max(T)}]
             y == s[Max(T)]
  <2> HIDE DEF x, y
  <2>3. x + y \in Int
    BY <2>2 DEF x, y
  <2>4. it[T] = x + y
    BY <2>1 DEF x, y
  <2> QED  BY <2>3, <2>4
<1> HIDE DEF G
<1>6. 1..n \in G
  BY <1>4, <1>5, PositionInduction
<1> QED  BY <1>2, <1>6 DEF G

\* What divides and multiplies keeps the order.
LEMMA DivisionKeepsOrder ==
    ASSUME NEW a \in Int, NEW b \in Int, NEW d \in Nat, d > 0, a <= b
    PROVE  a \div d \in Int /\ b \div d \in Int /\ a \div d <= b \div d
OBVIOUS

LEMMA ProductKeepsOrder ==
    ASSUME NEW a \in Int, NEW b \in Int, NEW d \in Nat, a <= b
    PROVE  a * d \in Int /\ b * d \in Int /\ a * d <= b * d
OBVIOUS

LEMMA RatioKeepsOrder ==
    ASSUME NEW a \in Nat, NEW b \in Nat, NEW d \in Nat, d > 0, a <= b
    PROVE  Ratio(a, d) \in Int /\ Ratio(b, d) \in Int /\ Ratio(a, d) <= Ratio(b, d)
<1>1. Scale * a \in Int /\ Scale * b \in Int /\ Scale * a <= Scale * b
  BY DEF Scale
<1> QED  BY <1>1, DivisionKeepsOrder DEF Ratio

\* The greatest and the least of two integers, and the greatest of five.
LEMMA AtMost1IsInt ==
    ASSUME NEW x \in Int
    PROVE  AtMost1(x) \in Int
<1> DEFINE m == IF x < Scale THEN x ELSE Scale
<1>1. m \in {Scale, x} /\ \A y \in {Scale, x} : m <= y
  BY DEF Scale
<1> HIDE DEF m
<1>2. AtMost1(x) \in {Scale, x}
  BY <1>1 DEF AtMost1, Min
<1> QED  BY <1>2 DEF Scale

LEMMA AtLeast1 ==
    ASSUME NEW x \in Nat
    PROVE  Max({1, x}) \in Nat /\ Max({1, x}) > 0
<1> DEFINE m == IF x < 1 THEN 1 ELSE x
<1>1. m \in {1, x} /\ \A y \in {1, x} : m >= y
  OBVIOUS
<1> HIDE DEF m
<1>2. Max({1, x}) \in {1, x} /\ Max({1, x}) >= 1
  BY <1>1 DEF Max
<1> QED  BY <1>2

LEMMA GreatestOfFive ==
    ASSUME NEW a \in Int, NEW b \in Int, NEW c \in Int, NEW d \in Int, NEW e \in Int
    PROVE  Max({a, b, c, d, e}) \in Int
<1>1. \E m \in {a, b, c, d, e} : \A y \in {a, b, c, d, e} : m >= y
  <2>1. PICK m \in {a, b} : m >= a /\ m >= b
    OBVIOUS
  <2>2. PICK k \in {m, c} : k >= m /\ k >= c
    OBVIOUS
  <2>3. PICK l \in {k, d} : l >= k /\ l >= d
    OBVIOUS
  <2>4. PICK o \in {l, e} : o >= l /\ o >= e
    OBVIOUS
  <2> QED  BY <2>1, <2>2, <2>3, <2>4
<1>2. Max({a, b, c, d, e}) \in {a, b, c, d, e}
  BY <1>1 DEF Max
<1> QED  BY <1>2

\* Positions of a sequence of length n are counted by 0 to n, and more of them
\* by no less.
LEMMA PositionsCount ==
    ASSUME NEW n \in Nat, NEW S, NEW R, S \subseteq R, R \subseteq 1..n
    PROVE  /\ Cardinality(S) \in Nat /\ Cardinality(R) \in Nat
           /\ Cardinality(S) <= Cardinality(R) /\ Cardinality(R) <= n
           /\ S # {} => Cardinality(S) > 0
<1>1. IsFiniteSet(1..n) /\ Cardinality(1..n) = n
  BY FS_Interval
<1>2. IsFiniteSet(R) /\ Cardinality(R) <= Cardinality(1..n)
  BY <1>1, FS_Subset
<1>3. IsFiniteSet(S) /\ Cardinality(S) <= Cardinality(R)
  BY <1>2, FS_Subset
<1>4. Cardinality(S) \in Nat /\ Cardinality(R) \in Nat
  BY <1>2, <1>3, FS_CardinalityType
<1>5. Cardinality(R) <= n
  BY <1>1, <1>2
<1>6. S # {} => Cardinality(S) > 0
  <2>1. Cardinality(S) = 0 => S = {}
    BY <1>3, FS_EmptySet
  <2> DEFINE c == Cardinality(S)
  <2>2. c \in Nat /\ (c # 0 => c > 0)
    <3>1. c \in Nat
      BY <1>4
    <3> HIDE DEF c
    <3> QED  BY <3>1
  <2> QED  BY <2>1, <2>2, Zenon
<1> QED  BY <1>3, <1>4, <1>5, <1>6

-----------------------------------------------------------------------------
(* A failure lowers the scores *)

Failed(s, n) == {j \in 1..n : s[j].exec = "FAILED"}
Drifted(s, n) == {j \in 1..n : Drifts(s[j])}

\* No signature is a digest, so that none is known and every one is new.
LEMMA RatesAre ==
    ASSUME NEW n \in Nat, n > 0, NEW s, DOMAIN s = 1..n, Len(s) = n,
           NEW known, \A k \in known : \E x : k = Md5(x)
    PROVE  StabilityWindow(s, known)
             = [failure_rate |-> Ratio(Cardinality(Failed(s, n)), n),
                drift_rate   |-> Ratio(Cardinality(Drifted(s, n)), n),
                repeat_rate  |-> 0, new_ratio |-> Scale]
<1> DEFINE signatures == {Signature(s[j]) : j \in DOMAIN s}
           f == [j \in 1..n |-> Signature(s[j])]
<1>1. ASSUME NEW j \in 1..n PROVE Signature(s[j]) \notin known
  <2>1. ASSUME NEW x PROVE Signature(s[j]) # Md5(x)
    <3>1. Len(Signature(s[j])) = 4 /\ Len(Md5(x)) = 2
      BY DEF Signature, Md5
    <3> QED  BY <3>1
  <2> QED  BY <2>1
<1>2. {j \in DOMAIN s : Signature(s[j]) \in known} = {}
  BY <1>1
<1>3. signatures \ known = signatures
  BY <1>1
<1>4. Cardinality(signatures) \in Nat /\ Cardinality(signatures) > 0
  <2>1. f \in Surjection(1..n, signatures)
    BY DEF Surjection
  <2>2. IsFiniteSet(1..n)
    BY FS_Interval
  <2>3. IsFiniteSet(signatures)
    <3> HIDE DEF f, signatures
    <3> QED  BY <2>1, <2>2, FS_Surjection
  <2>4. signatures # {}
    <3>1. 1 \in 1..n
      OBVIOUS
    <3> QED  BY <3>1
  <2> HIDE DEF signatures
  <2>5. Cardinality(signatures) \in Nat /\ (Cardinality(signatures) = 0 <=> signatures = {})
    BY <2>3, FS_CardinalityType, FS_EmptySet
  <2> QED  BY <2>4, <2>5
<1>5. Ratio(Cardinality({j \in DOMAIN s : Signature(s[j]) \in known}), Len(s)) = 0
  BY <1>2, FS_EmptySet DEF Ratio, Scale
<1>6. Ratio(Cardinality(signatures \ known), Cardinality(signatures)) = Scale
  <2> DEFINE c == Cardinality(signatures)
  <2> HIDE DEF c
  <2>1. c \in Nat /\ c > 0
    BY <1>4 DEF c
  <2>2. Ratio(c, c) = Scale
    BY <2>1 DEF Ratio, Scale
  <2> HIDE DEF signatures
  <2> QED  BY <2>2, <1>3 DEF c
<1>7. StabilityWindow(s, known)
        = [failure_rate |-> Ratio(Cardinality({j \in DOMAIN s : s[j].exec = "FAILED"}), Len(s)),
           drift_rate   |-> Ratio(Cardinality({j \in DOMAIN s : Drifts(s[j])}), Len(s)),
           repeat_rate  |-> Ratio(Cardinality({j \in DOMAIN s : Signature(s[j]) \in known}), Len(s)),
           new_ratio    |-> Ratio(Cardinality(signatures \ known), Cardinality(signatures))]
  BY Zenon DEF StabilityWindow
<1> QED  BY <1>5, <1>6, <1>7 DEF Failed, Drifted

\* r is s with a failure at i instead of a success.
FailsAt(r, s, i, n) ==
    /\ DOMAIN s = 1..n /\ Len(s) = n /\ DOMAIN r = 1..n /\ Len(r) = n
    /\ \A j \in 1..n : j # i => r[j] = s[j]
    /\ s[i].exec = "SUCCESS" /\ s[i].verdict = "ALLOW"
    /\ r[i].exec = "FAILED" /\ r[i].verdict = "ALLOW"
    /\ r[i].risk = s[i].risk /\ r[i].rule = s[i].rule

LEMMA StabilityFalls ==
    ASSUME NEW n \in Nat, NEW i \in 1..n, NEW s, NEW r, FailsAt(r, s, i, n),
           NEW known, \A k \in known : \E x : k = Md5(x)
    PROVE  StabilityScore(StabilityWindow(r, known), 0, Scale)
             <= StabilityScore(StabilityWindow(s, known), 0, Scale)
<1>1. Failed(s, n) \subseteq Failed(r, n) /\ Failed(r, n) \subseteq 1..n
  <2>1. ASSUME NEW j \in Failed(s, n) PROVE j \in Failed(r, n)
    <3>1. j \in 1..n /\ j # i
      BY DEF Failed, FailsAt
    <3> QED  BY <3>1 DEF Failed, FailsAt
  <2> QED  BY <2>1 DEF Failed
<1>2. Drifted(s, n) \subseteq Drifted(r, n) /\ Drifted(r, n) \subseteq 1..n
  <2>1. ASSUME NEW j \in Drifted(s, n) PROVE j \in Drifted(r, n)
    <3>1. CASE j = i
      <4>1. Drifts(r[i])
        BY DEF Drifts, FailsAt
      <4> QED  BY <3>1, <4>1 DEF Drifted
    <3>2. CASE j # i
      <4>1. r[j] = s[j] /\ j \in 1..n
        BY <3>2 DEF FailsAt, Drifted
      <4> QED  BY <4>1 DEF Drifted
    <3> QED  BY <3>1, <3>2
  <2> QED  BY <2>1 DEF Drifted
<1>3. n > 0
  OBVIOUS
<1> DEFINE f == Ratio(Cardinality(Failed(s, n)), n)
           g == Ratio(Cardinality(Failed(r, n)), n)
           d == Ratio(Cardinality(Drifted(s, n)), n)
           e == Ratio(Cardinality(Drifted(r, n)), n)
<1>4. f \in Int /\ g \in Int /\ f <= g
  <2>1. /\ Cardinality(Failed(s, n)) \in Nat /\ Cardinality(Failed(r, n)) \in Nat
        /\ Cardinality(Failed(s, n)) <= Cardinality(Failed(r, n))
    BY <1>1, PositionsCount
  <2> QED  BY <2>1, <1>3, RatioKeepsOrder
<1>5. d \in Int /\ e \in Int /\ d <= e
  <2>1. /\ Cardinality(Drifted(s, n)) \in Nat /\ Cardinality(Drifted(r, n)) \in Nat
        /\ Cardinality(Drifted(s, n)) <= Cardinality(Drifted(r, n))
    BY <1>2, PositionsCount
  <2> QED  BY <2>1, <1>3, RatioKeepsOrder
<1>6. /\ StabilityWindow(s, known)
           = [failure_rate |-> f, drift_rate |-> d, repeat_rate |-> 0, new_ratio |-> Scale]
      /\ StabilityWindow(r, known)
           = [failure_rate |-> g, drift_rate |-> e, repeat_rate |-> 0, new_ratio |-> Scale]
  BY <1>3, RatesAre DEF FailsAt
<1> HIDE DEF f, g, d, e
<1> DEFINE x(a, b) == 30 * (Scale - a) + 20 * (Scale - b) + 15 * 0 + 10 * Scale
                        + 10 * (Scale - Scale) + 15 * Scale
<1>7. /\ StabilityScore(StabilityWindow(s, known), 0, Scale) = x(f, d) \div 100
      /\ StabilityScore(StabilityWindow(r, known), 0, Scale) = x(g, e) \div 100
  BY <1>6 DEF StabilityScore, RegressionScore
<1>8. x(g, e) \in Int /\ x(f, d) \in Int /\ x(g, e) <= x(f, d)
  BY <1>4, <1>5 DEF Scale
<1> HIDE DEF x
<1> QED  BY <1>7, <1>8, DivisionKeepsOrder

\* The parts of the confidence that say nothing of the executions are integers,
\* and the same of both.
LEMMA SameCertainty ==
    ASSUME NEW n \in Nat, NEW i \in 1..n, NEW s, NEW r, FailsAt(r, s, i, n),
           \A j \in 1..n : s[j].risk \in Nat
    PROVE  RiskCertainty(s) \in Int /\ RiskCertainty(r) = RiskCertainty(s)
<1> DEFINE f == [j \in DOMAIN s |-> Distance(s[j].risk, 50)]
           g == [j \in DOMAIN r |-> Distance(r[j].risk, 50)]
<1>1. \A j \in 1..n : r[j].risk = s[j].risk
  BY DEF FailsAt
<1>2. g = f
  BY <1>1 DEF FailsAt
<1>3. f \in [1..n -> Int]
  <2>1. ASSUME NEW j \in 1..n PROVE Distance(s[j].risk, 50) \in Int
    <3>1. s[j].risk \in Nat
      OBVIOUS
    <3> QED  BY <3>1 DEF Distance
  <2> QED  BY <2>1 DEF FailsAt
<1>4. RiskCertainty(s) = AtMost1((200 * Total(f)) \div Len(s))
  BY Zenon DEF RiskCertainty
<1>5. RiskCertainty(r) = AtMost1((200 * Total(g)) \div Len(r))
  BY Zenon DEF RiskCertainty
<1> HIDE DEF f, g
<1>6. (200 * Total(f)) \div n \in Int
  <2>1. Total(f) \in Int
    BY <1>3, TotalIsInt
  <2> DEFINE t == Total(f)
  <2> HIDE DEF t
  <2>2. 200 * t \in Int /\ n > 0
    BY <2>1 DEF t
  <2> QED  BY <2>2, DivisionKeepsOrder DEF t
<1>7. Len(s) = n /\ Len(r) = n
  BY DEF FailsAt
<1> QED  BY <1>2, <1>4, <1>5, <1>6, <1>7, AtMost1IsInt

LEMMA SameClarity ==
    ASSUME NEW n \in Nat, NEW i \in 1..n, NEW s, NEW r, FailsAt(r, s, i, n)
    PROVE  VerdictClarity(s) \in Int /\ VerdictClarity(r) = VerdictClarity(s)
<1> DEFINE Of(q, v) == Ratio(Cardinality({j \in DOMAIN q : q[j].verdict = v}), Len(q))
<1>1. ASSUME NEW v PROVE Of(s, v) \in Int /\ Of(r, v) = Of(s, v)
  <2> DEFINE S == {j \in 1..n : s[j].verdict = v}
  <2>1. {j \in DOMAIN r : r[j].verdict = v} = S /\ {j \in DOMAIN s : s[j].verdict = v} = S
    BY DEF FailsAt
  <2>2. Cardinality(S) \in Nat
    <3>1. S \subseteq 1..n
      OBVIOUS
    <3> HIDE DEF S
    <3> QED  BY <3>1, PositionsCount
  <2> HIDE DEF S
  <2>3. n > 0
    OBVIOUS
  <2>4. Ratio(Cardinality(S), n) \in Int
    BY <2>2, <2>3, RatioKeepsOrder
  <2> QED  BY <2>1, <2>4 DEF FailsAt
<1>2. VerdictClarity(s) = Max({Of(s, v) : v \in Verdicts})
  BY Zenon DEF VerdictClarity
<1>3. VerdictClarity(r) = Max({Of(r, v) : v \in Verdicts})
  BY Zenon DEF VerdictClarity
<1> HIDE DEF Of
<1>4. {Of(r, v) : v \in Verdicts} = {Of(s, v) : v \in Verdicts}
  BY <1>1
<1>5. {Of(s, v) : v \in Verdicts}
        = {Of(s, "ALLOW"), Of(s, "BLOCK"), Of(s, "DEFER"), Of(s, "REVIEW"),
           Of(s, "BLOCKED_BY_PREFLIGHT")}
  BY DEF Verdicts
<1>6. VerdictClarity(s) \in Int
  <2> DEFINE a == Of(s, "ALLOW")
             b == Of(s, "BLOCK")
             c == Of(s, "DEFER")
             d == Of(s, "REVIEW")
             e == Of(s, "BLOCKED_BY_PREFLIGHT")
  <2>1. a \in Int /\ b \in Int /\ c \in Int /\ d \in Int /\ e \in Int
    BY <1>1
  <2>2. VerdictClarity(s) = Max({a, b, c, d, e})
    BY <1>2, <1>5
  <2> HIDE DEF a, b, c, d, e
  <2> QED  BY <2>1, <2>2, GreatestOfFive
<1> QED  BY <1>2, <1>3, <1>4, <1>6

LEMMA SameDecisions ==
    ASSUME NEW n \in Nat, NEW i \in 1..n, NEW s, NEW r, FailsAt(r, s, i, n),
           \A j \in 1..n : s[j].risk \in Nat
    PROVE  DecisionConfidence(s) \in Int /\ DecisionConfidence(r) = DecisionConfidence(s)
<1> DEFINE T == {j \in 1..n : s[j].rule # "none"}
<1>1. Triggered(s) = T /\ Triggered(r) = T /\ Len(s) = n /\ Len(r) = n
  BY DEF Triggered, FailsAt
<1>2. Cardinality(T) \in Nat
  <2>1. T \subseteq 1..n
    OBVIOUS
  <2> HIDE DEF T
  <2> QED  BY <2>1, PositionsCount
<1> HIDE DEF T
<1> DEFINE a == RiskCertainty(s)
           b == VerdictClarity(s)
           c == Ratio(Cardinality(T), n)
<1>3. a \in Int /\ RiskCertainty(r) = a
  BY SameCertainty
<1>4. b \in Int /\ VerdictClarity(r) = b
  BY SameClarity
<1>5. c \in Int
  <2>1. n > 0
    OBVIOUS
  <2> QED  BY <2>1, <1>2, RatioKeepsOrder
<1>6. /\ DecisionConfidence(s) = (50 * a + 30 * b + 20 * (Scale - c)) \div 100
      /\ DecisionConfidence(r) = (50 * a + 30 * b + 20 * (Scale - c)) \div 100
  BY <1>1, <1>3, <1>4 DEF DecisionConfidence
<1> HIDE DEF a, b, c
<1> QED  BY <1>3, <1>4, <1>5, <1>6 DEF Scale

LEMMA OperationalIsInt ==
    ASSUME NEW q \in Queue
    PROVE  OperationalConfidence(q) \in Int
<1>1. q.depth \in Nat /\ q.dead \in Nat /\ q.failed \in Nat /\ q.total \in Nat /\ q.latency \in Nat
  BY MeasureAssumption
<1> DEFINE top == Max({1, q.total})
           a == AtMost1(Ratio(q.depth, 100))
           b == AtMost1(Ratio(q.dead + q.failed, top))
<1>2. top \in Nat /\ top > 0
  BY <1>1, AtLeast1
<1> HIDE DEF top
<1>3. a \in Int
  BY <1>1, RatioKeepsOrder, AtMost1IsInt
<1>4. b \in Int
  BY <1>1, <1>2, RatioKeepsOrder, AtMost1IsInt
<1>5. OperationalConfidence(q)
        = (40 * (Scale - a) + 30 * (Scale - b) + 30 * q.latency) \div 100
  BY Zenon DEF OperationalConfidence, top
<1> HIDE DEF a, b
<1> QED  BY <1>1, <1>3, <1>4, <1>5 DEF Scale

LEMMA ExecutionFalls ==
    ASSUME NEW n \in Nat, NEW i \in 1..n, NEW s, NEW r, FailsAt(r, s, i, n)
    PROVE  /\ ExecutionConfidence(s) \in Int /\ ExecutionConfidence(r) \in Int
           /\ ExecutionConfidence(r) <= ExecutionConfidence(s)
<1> DEFINE A == {j \in 1..n : s[j].verdict = "ALLOW"}
           S == {j \in A : s[j].exec = "SUCCESS"}
           R == {j \in A : r[j].exec = "SUCCESS"}
           a == Cardinality(A)
           b == Cardinality(R)
           c == Cardinality(S)
<1>1. /\ {j \in DOMAIN s : s[j].verdict = "ALLOW"} = A
      /\ {j \in DOMAIN r : r[j].verdict = "ALLOW"} = A
  BY DEF FailsAt
<1>2. A # {} /\ A \subseteq 1..n
  BY DEF FailsAt
<1>3. R \subseteq S /\ S \subseteq 1..n
  <2>1. ASSUME NEW j \in R PROVE j \in S
    <3>1. j \in 1..n /\ j # i
      BY DEF FailsAt
    <3> QED  BY <3>1 DEF FailsAt
  <2> QED  BY <2>1
<1>4. Len(s) = n /\ Len(r) = n
  BY DEF FailsAt
<1>5. ExecutionConfidence(s) = (Scale * c * (n + a)) \div (2 * n * a)
  BY <1>1, <1>2, <1>4 DEF ExecutionConfidence
<1>6. ExecutionConfidence(r) = (Scale * b * (n + a)) \div (2 * n * a)
  BY <1>1, <1>2, <1>4 DEF ExecutionConfidence
<1>7. a \in Nat /\ a > 0
  <2> HIDE DEF A
  <2> QED  BY <1>2, PositionsCount
<1>8. b \in Nat /\ c \in Nat /\ b <= c
  <2> HIDE DEF R, S
  <2> QED  BY <1>3, PositionsCount
<1> HIDE DEF a, b, c
<1> DEFINE x == Scale * b
           y == Scale * c
           k == n + a
           d == 2 * n * a
<1>9. x \in Int /\ y \in Int /\ x <= y /\ k \in Nat
  BY <1>7, <1>8 DEF Scale
<1>10. d \in Nat /\ d > 0
  <2>1. n > 0 /\ 2 * n \in Nat /\ 2 * n > 0
    OBVIOUS
  <2> DEFINE m == 2 * n
  <2>2. m \in Nat /\ m > 0
    BY <2>1
  <2> HIDE DEF m
  <2>3. m * a \in Nat /\ m * a > 0
    BY <2>2, <1>7
  <2> QED  BY <2>3 DEF m
<1> HIDE DEF x, y, k, d
<1>11. x * k \in Int /\ y * k \in Int /\ x * k <= y * k
  BY <1>9, ProductKeepsOrder
<1>12. (x * k) \div d \in Int /\ (y * k) \div d \in Int /\ (x * k) \div d <= (y * k) \div d
  BY <1>10, <1>11, DivisionKeepsOrder
<1> QED  BY <1>5, <1>6, <1>12 DEF x, y, k, d

LEMMA ConfidenceFalls ==
    ASSUME NEW n \in Nat, NEW i \in 1..n, NEW s, NEW r, FailsAt(r, s, i, n),
           \A j \in 1..n : s[j].risk \in Nat, NEW q \in Queue
    PROVE  Confidence(r, q) <= Confidence(s, q)
<1> DEFINE d == DecisionConfidence(s)
           o == OperationalConfidence(q)
           x == ExecutionConfidence(r)
           y == ExecutionConfidence(s)
<1>1. d \in Int /\ DecisionConfidence(r) = d
  BY SameDecisions
<1>2. o \in Int
  BY OperationalIsInt
<1>3. x \in Int /\ y \in Int /\ x <= y
  BY ExecutionFalls
<1>4. /\ Confidence(r, q) = (40 * d + 30 * o + 30 * x) \div 100
      /\ Confidence(s, q) = (40 * d + 30 * o + 30 * y) \div 100
  BY <1>1, Zenon DEF Confidence
<1> HIDE DEF d, o, x, y
<1>5. /\ 40 * d + 30 * o + 30 * x \in Int /\ 40 * d + 30 * o + 30 * y \in Int
      /\ 40 * d + 30 * o + 30 * x <= 40 * d + 30 * o + 30 * y
  BY <1>1, <1>2, <1>3
<1> QED  BY <1>4, <1>5, DivisionKeepsOrder

\* A failure in the place of a success raises neither score, in a window of any
\* traces and any length, whatever the store knows.
THEOREM FailureCosts == OSpec => []FailureLowersScores
<1>1. OInit => Digests(patterns)
  BY DEF OInit, EmptyKind, Digests
<1>2. Digests(patterns) /\ WindowTyped' /\ [ONext]_ovars => Digests(patterns)'
  <2> SUFFICES ASSUME Digests(patterns), window' \in Seq(Trace), [ONext]_ovars
               PROVE  Digests(patterns')
    BY DEF WindowTyped, Digests
  <2>1. ASSUME NEW t \in Trace, NEW failing \in Failing, FinalizeCycle(t, failing)
        PROVE  Digests(patterns')
    <3> DEFINE traces == LastOf(window', CompressEvery)
    <3>1. CASE patterns' = MinePatterns(traces)
      <4>1. CompressEvery \in Nat
        BY IntervalAssumption
      <4>2. traces \in Seq(Trace)
        BY <4>1, LastOfProperties
      <4> HIDE DEF traces
      <4>3. Len(traces) \in Nat /\ DOMAIN traces = 1..Len(traces)
        BY <4>2, LenProperties
      <4> QED  BY <3>1, <4>3, MiningKeepsDigests
    <3>2. CASE patterns' = patterns
      BY <3>2
    <3> HIDE DEF traces
    <3> QED  BY <2>1, <3>1, <3>2 DEF FinalizeCycle, Compress, store, traces
  <2>2. CASE UNCHANGED ovars
    BY <2>2 DEF ovars, store
  <2> QED  BY <2>1, <2>2 DEF ONext
<1>3. WindowTyped /\ Digests(patterns) => FailureLowersScores
  <2> SUFFICES ASSUME window \in Seq(Trace), Digests(patterns),
                      NEW i \in DOMAIN window, window[i].exec = "SUCCESS"
               PROVE  LET t == window[i]
                          u == Normalize(t.event, t.valid, t.verdict, t.rule, "FAILED", t.risk)
                          worse == [window EXCEPT ![i] = u]
                          Score(w) == StabilityScore(StabilityWindow(w, DOMAIN patterns.entry), 0, Scale)
                      IN  /\ Score(worse) <= Score(window)
                          /\ \A q \in Queue : Confidence(worse, q) <= Confidence(window, q)
    BY Zenon DEF WindowTyped, FailureLowersScores
  <2> DEFINE t == window[i]
             u == Normalize(t.event, t.valid, t.verdict, t.rule, "FAILED", t.risk)
             r == [window EXCEPT ![i] = u]
             n == Len(window)
  <2>1. n \in Nat /\ DOMAIN window = 1..n /\ i \in 1..n
    BY LenProperties
  <2>2. \A j \in 1..n : window[j] \in Trace
    BY <2>1, ElementOfSeq
  <2>3. t.verdict = "ALLOW"
    BY <2>1, <2>2, KindsOfTrace
  <2>4. /\ u.exec = "FAILED" /\ u.verdict = t.verdict /\ u.risk = t.risk /\ u.rule = t.rule
    BY DEF Normalize
  <2> HIDE DEF u
  <2>5. DOMAIN r = 1..n /\ r[i] = u /\ \A j \in 1..n : j # i => r[j] = window[j]
    BY <2>1
  <2>6. Len(r) = n
    <3> HIDE DEF n
    <3>1. r \in Seq(Trace \cup {u})
      BY <2>1, <2>2 DEF n
    <3> QED  BY <2>1, <2>5, <3>1, LenProperties
  <2> HIDE DEF r, n
  <2>7. FailsAt(r, window, i, n)
    BY <2>1, <2>3, <2>4, <2>5, <2>6 DEF FailsAt, n
  <2>8. \A j \in 1..n : window[j].risk \in Nat
    BY <2>2, MeasureAssumption
  <2>9. \A k \in DOMAIN patterns.entry : \E x : k = Md5(x)
    BY DEF Digests
  <2>10. StabilityScore(StabilityWindow(r, DOMAIN patterns.entry), 0, Scale)
           <= StabilityScore(StabilityWindow(window, DOMAIN patterns.entry), 0, Scale)
    BY <2>1, <2>7, <2>9, StabilityFalls
  <2>11. ASSUME NEW q \in Queue PROVE Confidence(r, q) <= Confidence(window, q)
    BY <2>1, <2>7, <2>8, ConfidenceFalls
  <2> QED  BY <2>10, <2>11, Zenon DEF r, u
<1> QED  BY <1>1, <1>2, <1>3, WindowOfTraces, PTL DEF OSpec

-----------------------------------------------------------------------------
(* What leaves the store first *)

NoRepeats(s) == \A i, j \in DOMAIN s : s[i] = s[j] => i = j

\* Without its only occurrence of an element.
LEMMA Removed ==
    ASSUME NEW S, NEW s \in Seq(S), NoRepeats(s), NEW e, NEW r, r = RemoveFirst(s, e)
    PROVE  /\ r \in Seq(S) /\ NoRepeats(r) /\ ToSet(r) = ToSet(s) \ {e}
           /\ s # <<>> /\ e = s[1] => r = Tail(s)
<1> DEFINE n == Len(s)
<1>1. n \in Nat /\ DOMAIN s = 1..n
  BY LenProperties
<1>2. \A j \in 1..n : s[j] \in S
  BY ElementOfSeq
<1>3. s # <<>> => n > 0
  BY <1>1, EmptySeq
<1>4. CASE ~ \E i \in 1..n : s[i] = e
  <2>1. r = s
    BY <1>4 DEF RemoveFirst
  <2>2. e \notin ToSet(s)
    BY <1>1, <1>4 DEF ToSet
  <2>3. s # <<>> => 1 \in 1..n
    <3> HIDE DEF n
    <3> QED  BY <1>1, <1>3
  <2> QED  BY <1>4, <2>1, <2>2, <2>3
<1>5. ASSUME NEW k \in 1..n, s[k] = e
      PROVE  /\ r \in Seq(S) /\ NoRepeats(r) /\ ToSet(r) = ToSet(s) \ {e}
             /\ s # <<>> /\ e = s[1] => r = Tail(s)
  <2>1. {i \in 1..n : s[i] = e} = {k}
    BY <1>1, <1>5 DEF NoRepeats
  <2>2. Min({k}) = k
    <3>1. k \in {k} /\ \A y \in {k} : k <= y
      OBVIOUS
    <3> QED  BY <3>1 DEF Min
  <2>3. r = RemoveAt(s, SelectInSeq(s, LAMBDA v : v = e))
    BY <1>5, Zenon DEF RemoveFirst
  <2>4. SelectInSeq(s, LAMBDA v : v = e)
          = IF {i \in 1..n : s[i] = e} # {} THEN Min({i \in 1..n : s[i] = e}) ELSE 0
    BY Zenon DEF SelectInSeq
  <2>5. r = RemoveAt(s, k)
    BY <2>1, <2>2, <2>3, <2>4
  <2> DEFINE a == SubSeq(s, 1, k - 1)
             b == SubSeq(s, k + 1, n)
  <2>6. /\ a \in Seq(S) /\ Len(a) = k - 1
        /\ \A j \in 1..(k - 1) : a[j] = s[j]
    <3> HIDE DEF n
    <3>1. 1 \in Int /\ k - 1 \in Int /\ \A j \in 1..(k - 1) : s[j] \in S
      BY <1>1, <1>2
    <3>2. /\ a \in Seq(S) /\ Len(a) = IF 1 <= k - 1 THEN (k - 1) - 1 + 1 ELSE 0
          /\ \A j \in 1..((k - 1) - 1 + 1) : a[j] = s[1 + j - 1]
      BY <3>1, SubSeqProperties
    <3> HIDE DEF a
    <3> QED  BY <3>2, <1>1
  <2>7. /\ b \in Seq(S) /\ Len(b) = n - k
        /\ \A j \in 1..(n - k) : b[j] = s[k + j]
    <3> HIDE DEF n
    <3>1. k + 1 \in Int /\ n \in Int /\ \A j \in (k + 1)..n : s[j] \in S
      BY <1>1, <1>2
    <3>2. /\ b \in Seq(S) /\ Len(b) = IF k + 1 <= n THEN n - (k + 1) + 1 ELSE 0
          /\ \A j \in 1..(n - (k + 1) + 1) : b[j] = s[(k + 1) + j - 1]
      BY <3>1, SubSeqProperties
    <3> HIDE DEF b
    <3> QED  BY <3>2, <1>1
  <2>8. r = a \o b
    BY <2>5 DEF RemoveAt
  <2> HIDE DEF a, b, n
  <2>9. /\ r \in Seq(S) /\ Len(r) = n - 1
        /\ \A j \in 1..(n - 1) : r[j] = IF j < k THEN s[j] ELSE s[j + 1]
    <3>0. /\ r \in Seq(S) /\ Len(r) = Len(a) + Len(b)
          /\ \A j \in 1..(Len(a) + Len(b)) : r[j] = IF j <= Len(a) THEN a[j] ELSE b[j - Len(a)]
      <4>1. a \in Seq(S) /\ b \in Seq(S)
        BY <2>6, <2>7
      <4>2. /\ a \o b \in Seq(S) /\ Len(a \o b) = Len(a) + Len(b)
            /\ \A j \in 1..(Len(a) + Len(b)) :
                   (a \o b)[j] = IF j <= Len(a) THEN a[j] ELSE b[j - Len(a)]
        BY <4>1, ConcatProperties
      <4> QED  BY <2>8, <4>2
    <3>1. /\ r \in Seq(S) /\ Len(r) = (k - 1) + (n - k)
          /\ \A j \in 1..((k - 1) + (n - k)) : r[j] = IF j <= k - 1 THEN a[j] ELSE b[j - (k - 1)]
      BY <3>0, <2>6, <2>7
    <3>2. (k - 1) + (n - k) = n - 1
      BY <1>1
    <3>3. ASSUME NEW j \in 1..(n - 1) PROVE r[j] = IF j < k THEN s[j] ELSE s[j + 1]
      <4>1. CASE j < k
        BY <4>1, <3>1, <3>2, <2>6, <1>1
      <4>2. CASE ~ (j < k)
        <5>1. j - (k - 1) \in 1..(n - k) /\ k + (j - (k - 1)) = j + 1 /\ ~ (j <= k - 1)
          BY <4>2, <1>1
        <5> QED  BY <4>2, <5>1, <3>1, <3>2, <2>7
      <4> QED  BY <4>1, <4>2
    <3> QED  BY <3>1, <3>2, <3>3
  <2>10. DOMAIN r = 1..(n - 1)
    BY <2>9, LenProperties
  <2>11. NoRepeats(r)
    <3> SUFFICES ASSUME NEW i \in 1..(n - 1), NEW j \in 1..(n - 1), r[i] = r[j] PROVE i = j
      BY <2>10 DEF NoRepeats
    <3> DEFINE p(m) == IF m < k THEN m ELSE m + 1
    <3>1. /\ p(i) \in 1..n /\ p(j) \in 1..n /\ r[i] = s[p(i)] /\ r[j] = s[p(j)]
      BY <2>9, <1>1
    <3>2. p(i) = p(j)
      <4> HIDE DEF p
      <4> QED  BY <3>1, <1>1 DEF NoRepeats
    <3> QED  BY <3>2, <1>1
  <2>12. ASSUME NEW x \in ToSet(r) PROVE x \in ToSet(s) \ {e}
    <3>1. PICK j \in 1..(n - 1) : x = r[j]
      BY <2>10 DEF ToSet
    <3>2. PICK m \in 1..n : m # k /\ x = s[m]
      <4>1. CASE j < k
        BY <4>1, <3>1, <2>9, <1>1
      <4>2. CASE ~ (j < k)
        <5>1. j + 1 \in 1..n /\ j + 1 # k
          BY <4>2, <1>1
        <5> QED  BY <4>2, <5>1, <3>1, <2>9
      <4> QED  BY <4>1, <4>2
    <3>3. x # e
      BY <3>2, <1>1, <1>5 DEF NoRepeats
    <3> QED  BY <3>2, <3>3, <1>1 DEF ToSet
  <2>13. ASSUME NEW x \in ToSet(s) \ {e} PROVE x \in ToSet(r)
    <3>1. PICK m \in 1..n : m # k /\ x = s[m]
      BY <1>1, <1>5 DEF ToSet
    <3>2. CASE m < k
      <4>1. m \in 1..(n - 1)
        BY <3>2, <1>1
      <4> QED  BY <4>1, <3>1, <3>2, <2>9, <2>10 DEF ToSet
    <3>3. CASE m > k
      <4>1. m - 1 \in 1..(n - 1) /\ ~ (m - 1 < k) /\ (m - 1) + 1 = m
        BY <3>3, <1>1
      <4>2. r[m - 1] = s[m]
        BY <4>1, <2>9
      <4> QED  BY <4>1, <4>2, <3>1, <2>10 DEF ToSet
    <3> QED  BY <3>1, <3>2, <3>3, <1>1
  <2>14. ASSUME s # <<>>, e = s[1] PROVE r = Tail(s)
    <3>1. k = 1
      <4>1. 1 \in 1..n
        BY <1>1
      <4> QED  BY <4>1, <1>1, <1>5, <2>14 DEF NoRepeats
    <3>2. /\ Tail(s) \in Seq(S) /\ Len(Tail(s)) = n - 1
          /\ \A j \in 1..(n - 1) : Tail(s)[j] = s[j + 1]
      BY <2>14, HeadTailProperties DEF n
    <3>3. \A j \in 1..(n - 1) : r[j] = Tail(s)[j]
      BY <3>1, <3>2, <2>9
    <3> DEFINE t == Tail(s)
    <3> HIDE DEF t
    <3>4. t \in Seq(S) /\ r \in Seq(S) /\ Len(t) = Len(r) /\ \A j \in 1..Len(r) : r[j] = t[j]
      BY <3>2, <3>3, <2>9 DEF t
    <3> QED  BY <3>4, SeqEqual DEF t
  <2> QED  BY <2>9, <2>11, <2>12, <2>13, <2>14
<1> QED  BY <1>4, <1>5

\* A sequence without repetitions and one more element.
LEMMA Longer ==
    ASSUME NEW S, NEW s \in Seq(S), NoRepeats(s), NEW e \in S, e \notin ToSet(s)
    PROVE  /\ Append(s, e) \in Seq(S) /\ NoRepeats(Append(s, e))
           /\ ToSet(Append(s, e)) = ToSet(s) \cup {e}
<1> DEFINE n == Len(s)
           r == Append(s, e)
<1>1. n \in Nat /\ DOMAIN s = 1..n
  BY LenProperties
<1>2. /\ r \in Seq(S) /\ Len(r) = n + 1
      /\ \A i \in 1..n : r[i] = s[i]
      /\ r[n + 1] = e
  BY AppendProperties
<1>3. DOMAIN r = 1..(n + 1)
  BY <1>2, LenProperties
<1> HIDE DEF n, r
<1>4. ASSUME NEW i \in 1..(n + 1) PROVE (i \in 1..n /\ r[i] = s[i]) \/ (i = n + 1 /\ r[i] = e)
  BY <1>1, <1>2
<1>5. \A i \in 1..n : s[i] # e
  BY <1>1 DEF ToSet
<1>6. NoRepeats(r)
  BY <1>1, <1>3, <1>4, <1>5 DEF NoRepeats
<1>7. ASSUME NEW x \in ToSet(r) PROVE x \in ToSet(s) \cup {e}
  BY <1>1, <1>3, <1>4 DEF ToSet
<1>8. ASSUME NEW x \in ToSet(s) PROVE x \in ToSet(r)
  <2>1. PICK i \in 1..n : x = s[i]
    BY <1>1 DEF ToSet
  <2>2. i \in 1..(n + 1) /\ x = r[i]
    BY <2>1, <1>1, <1>2
  <2> QED  BY <2>2, <1>3 DEF ToSet
<1>9. e \in ToSet(r)
  <2>1. n + 1 \in 1..(n + 1)
    BY <1>1
  <2> QED  BY <2>1, <1>2, <1>3 DEF ToSet
<1> QED  BY <1>2, <1>6, <1>7, <1>8, <1>9 DEF r

\* There are no more positions than elements.
LEMMA FewPositions ==
    ASSUME NEW S, IsFiniteSet(S), NEW s \in Seq(S), NoRepeats(s)
    PROVE  Len(s) <= Cardinality(S)
<1> DEFINE n == Len(s)
<1>1. n \in Nat /\ s \in [1..n -> S] /\ DOMAIN s = 1..n
  BY LenProperties
<1> HIDE DEF n
<1>2. s \in Injection(1..n, S)
  BY <1>1 DEF Injection, IsInjective, NoRepeats
<1>3. Cardinality(1..n) <= Cardinality(S)
  BY <1>2, FS_Injection
<1>4. Cardinality(1..n) = n
  BY <1>1, FS_Interval
<1> QED  BY <1>3, <1>4 DEF n

Key == {Md5(Signature(t)) : t \in Trace}

LEMMA KeysAreFew == IsFiniteSet(Key) /\ Cardinality(Key) <= MaxSeen
<1> DEFINE signatures == {Signature(t) : t \in Trace}
           f == [g \in signatures |-> Md5(g)]
<1>1. IsFiniteSet(signatures) /\ Cardinality(signatures) <= MaxSeen
  BY SeenAssumption
<1>2. \A g \in signatures : Md5(g) \in Key
  BY DEF Key
<1>3. \A k \in Key : \E g \in signatures : Md5(g) = k
  BY DEF Key
<1> HIDE DEF signatures
<1>4. f \in Surjection(signatures, Key)
  BY <1>2, <1>3 DEF Surjection
<1> HIDE DEF f
<1>5. IsFiniteSet(Key) /\ Cardinality(Key) <= Cardinality(signatures)
  BY <1>1, <1>4, FS_Surjection
<1>6. Cardinality(Key) \in Nat /\ Cardinality(signatures) \in Nat /\ MaxSeen \in Nat
  BY <1>1, <1>5, FS_CardinalityType, SeenAssumption
<1> QED  BY <1>1, <1>5, <1>6

\* So many fit: no signature is ever forgotten.
LEMMA SeenForGood ==
    ASSUME NEW s \in Seq(Key), NoRepeats(s), NEW key \in Key,
           NEW r, r = LastOf(Append(RemoveFirst(s, key), key), MaxSeen)
    PROVE  r \in Seq(Key) /\ NoRepeats(r) /\ ToSet(r) = ToSet(s) \cup {key}
<1> DEFINE q == RemoveFirst(s, key)
           a == Append(q, key)
<1>1. q \in Seq(Key) /\ NoRepeats(q) /\ ToSet(q) = ToSet(s) \ {key}
  BY Removed
<1> HIDE DEF q
<1>2. q \in Seq(Key) /\ NoRepeats(q) /\ key \in Key /\ key \notin ToSet(q)
  BY <1>1
<1>3. a \in Seq(Key) /\ NoRepeats(a) /\ ToSet(a) = ToSet(q) \cup {key}
  BY <1>2, Longer, Zenon
<1> DEFINE n == Len(a)
<1> HIDE DEF a
<1>4. n \in Nat /\ n <= MaxSeen
  <2>1. n <= Cardinality(Key)
    BY <1>3, KeysAreFew, FewPositions
  <2>2. n \in Nat
    BY <1>3, LenProperties
  <2>3. Cardinality(Key) \in Nat /\ MaxSeen \in Nat /\ Cardinality(Key) <= MaxSeen
    BY KeysAreFew, FS_CardinalityType, SeenAssumption
  <2> HIDE DEF n
  <2> QED  BY <2>1, <2>2, <2>3
<1>5. Positive(n - MaxSeen) = 0
  <2>1. n - MaxSeen \in Int /\ ~ (n - MaxSeen > 0)
    BY <1>4, SeenAssumption
  <2> HIDE DEF n
  <2> QED  BY <2>1, PositiveIs
<1>6. r = SubSeq(a, 1, n)
  <2>1. r = SubSeq(a, Positive(n - MaxSeen) + 1, n)
    BY DEF LastOf, a, q
  <2> QED  BY <2>1, <1>5
<1>7. r = a
  BY <1>3, <1>6, SubSeqFull
<1> QED  BY <1>1, <1>3, <1>7

\* The keys of a store under FIFO: every one stored was seen, and the strategy
\* has them in the order of insertion, after at most one that has left.
Fifo(kind) ==
    /\ {"entry", "inserted", "order", "weight", "seen"} \subseteq DOMAIN kind
    /\ kind.order \in Seq(Key) /\ NoRepeats(kind.order)
    /\ kind.seen \in Seq(Key) /\ NoRepeats(kind.seen)
    /\ DOMAIN kind.entry = ToSet(kind.order)
    /\ ToSet(kind.order) \subseteq ToSet(kind.seen)
    /\ \/ kind.inserted = kind.order
       \/ \E gone \in ToSet(kind.seen) \ ToSet(kind.order) : kind.inserted = <<gone>> \o kind.order

\* Of the keys of base the first have left o and the others are its beginning.
LeftInOrder(base, o) ==
    \E d \in 0..Len(base) :
        /\ \A i \in 1..d : base[i] \notin ToSet(o)
        /\ \A i \in (d + 1)..Len(base) : i - d \in DOMAIN o /\ o[i - d] = base[i]

\* Without its head.
LEMMA Beheaded ==
    ASSUME NEW S, NEW s \in Seq(S), NoRepeats(s), s # <<>>
    PROVE  /\ Tail(s) \in Seq(S) /\ NoRepeats(Tail(s)) /\ ToSet(Tail(s)) = ToSet(s) \ {s[1]}
           /\ Len(s) \in Nat /\ Len(s) > 0 /\ Len(Tail(s)) = Len(s) - 1 /\ s[1] \in ToSet(s)
           /\ \A j \in 1..(Len(s) - 1) : Tail(s)[j] = s[j + 1]
           /\ RemoveFirst(s, s[1]) = Tail(s) /\ Head(s) = s[1]
<1>1. RemoveFirst(s, s[1]) = Tail(s)
  BY Removed
<1>2. NoRepeats(Tail(s)) /\ ToSet(Tail(s)) = ToSet(s) \ {s[1]}
  <2> DEFINE r == RemoveFirst(s, s[1])
  <2>1. NoRepeats(r) /\ ToSet(r) = ToSet(s) \ {s[1]}
    BY Removed
  <2> QED  BY <1>1, <2>1
<1>3. /\ Tail(s) \in Seq(S) /\ Len(Tail(s)) = Len(s) - 1 /\ Head(s) = s[1]
      /\ \A j \in 1..Len(Tail(s)) : Tail(s)[j] = s[j + 1]
  BY HeadTailProperties
<1>4. Len(s) \in Nat /\ Len(s) > 0 /\ DOMAIN s = 1..Len(s)
  BY EmptySeq, LenProperties
<1>5. s[1] \in ToSet(s)
  BY <1>4 DEF ToSet
<1> QED  BY <1>1, <1>2, <1>3, <1>4, <1>5

\* A key that was not in base enters behind what is left of it.
LEMMA Enters ==
    ASSUME NEW base \in Seq(Key), NEW o \in Seq(Key), LeftInOrder(base, o), NoRepeats(o),
           NEW key \in Key, key \notin ToSet(base), key \notin ToSet(o)
    PROVE  LeftInOrder(base, Append(o, key))
<1> DEFINE r == Append(o, key)
<1>1. PICK d \in 0..Len(base) :
          /\ \A i \in 1..d : base[i] \notin ToSet(o)
          /\ \A i \in (d + 1)..Len(base) : i - d \in DOMAIN o /\ o[i - d] = base[i]
  BY DEF LeftInOrder
<1>2. /\ Len(base) \in Nat /\ DOMAIN base = 1..Len(base)
      /\ Len(o) \in Nat /\ DOMAIN o = 1..Len(o)
  BY LenProperties
<1>3. ToSet(r) = ToSet(o) \cup {key}
  BY Longer, Zenon
<1>4. r \in Seq(Key) /\ Len(r) = Len(o) + 1 /\ \A i \in 1..Len(o) : r[i] = o[i]
  BY AppendProperties
<1>5. DOMAIN r = 1..(Len(o) + 1)
  BY <1>4, LenProperties
<1> HIDE DEF r
<1>6. ASSUME NEW i \in 1..d PROVE base[i] \notin ToSet(r)
  <2>1. i \in DOMAIN base
    BY <1>2
  <2>2. base[i] # key
    BY <2>1 DEF ToSet
  <2> QED  BY <1>1, <1>3, <2>2
<1>7. ASSUME NEW i \in (d + 1)..Len(base) PROVE i - d \in DOMAIN r /\ r[i - d] = base[i]
  <2>1. i - d \in 1..Len(o) /\ o[i - d] = base[i]
    BY <1>1, <1>2
  <2> QED  BY <2>1, <1>2, <1>4, <1>5
<1> QED  BY <1>6, <1>7 DEF LeftInOrder, r

\* The head leaves, which is the first that is left of base.
LEMMA Leaves ==
    ASSUME NEW base \in Seq(Key), NEW o \in Seq(Key), LeftInOrder(base, o),
           NoRepeats(o), o # <<>>
    PROVE  LeftInOrder(base, Tail(o))
<1> DEFINE r == Tail(o)
           n == Len(base)
           m == Len(o)
<1>1. PICK d \in 0..n :
          /\ \A i \in 1..d : base[i] \notin ToSet(o)
          /\ \A i \in (d + 1)..n : i - d \in DOMAIN o /\ o[i - d] = base[i]
  BY DEF LeftInOrder
<1>2. n \in Nat /\ DOMAIN o = 1..m
  BY LenProperties
<1>3. /\ r \in Seq(Key) /\ ToSet(r) = ToSet(o) \ {o[1]} /\ m \in Nat /\ m > 0 /\ Len(r) = m - 1
      /\ \A j \in 1..(m - 1) : r[j] = o[j + 1]
  BY Beheaded
<1>4. DOMAIN r = 1..(m - 1)
  BY <1>3, LenProperties
<1> HIDE DEF r, n, m
<1>5. ASSUME NEW i \in 1..d PROVE base[i] \notin ToSet(r)
  BY <1>1, <1>3
<1>6. CASE d = n
  <2>1. ~ \E i \in (d + 1)..n : TRUE
    BY <1>2, <1>6
  <2> QED  BY <1>5, <2>1 DEF LeftInOrder, r, n
<1>7. CASE d # n
  <2> DEFINE c == d + 1
  <2>1. c \in 0..n /\ c \in (d + 1)..n /\ c - d = 1
    BY <1>2, <1>7
  <2>2. o[1] = base[c]
    BY <1>1, <2>1
  <2>3. ASSUME NEW i \in 1..c PROVE base[i] \notin ToSet(r)
    <3>1. CASE i = c
      BY <3>1, <2>2, <1>3
    <3>2. CASE i # c
      <4>1. i \in 1..d
        BY <3>2, <2>1
      <4> QED  BY <4>1, <1>5
    <3> QED  BY <3>1, <3>2
  <2>4. ASSUME NEW i \in (c + 1)..n PROVE i - c \in DOMAIN r /\ r[i - c] = base[i]
    <3>1. i \in (d + 1)..n /\ i - c \in Int /\ (i - c) + 1 = i - d /\ i - c >= 1
      BY <1>2
    <3>2. i - d \in 1..m /\ o[i - d] = base[i]
      BY <1>1, <1>2, <3>1
    <3>3. i - c \in 1..(m - 1)
      BY <3>1, <3>2, <1>3
    <3>4. r[i - c] = o[(i - c) + 1]
      BY <3>3, <1>3
    <3> QED  BY <3>1, <3>2, <3>3, <3>4, <1>4
  <2> HIDE DEF c
  <2> QED  BY <2>1, <2>3, <2>4 DEF LeftInOrder, r, n
<1> QED  BY <1>6, <1>7

LEMMA AccessIs ==
    ASSUME NEW kind, NEW key,
           {"entry", "inserted", "order", "weight", "seen"} \subseteq DOMAIN kind,
           NEW r, r = RecordAccess(kind, key)
    PROVE  /\ DOMAIN r = DOMAIN kind /\ r.entry = kind.entry /\ r.order = kind.order
           /\ r.seen = kind.seen
           /\ r.inserted = IF key \in ToSet(kind.inserted) THEN kind.inserted
                           ELSE Append(kind.inserted, key)
BY DEF RecordAccess

\* What the strategy holds, and that its first stored key is the oldest.
LEMMA OldestFirst ==
    ASSUME NEW o \in Seq(Key), NEW V, ToSet(o) \subseteq V, NEW ins,
           \/ ins = o
           \/ \E gone \in V \ ToSet(o) : ins = <<gone>> \o o
    PROVE  /\ ToSet(o) \subseteq ToSet(ins) /\ ToSet(ins) \subseteq V
           /\ o # <<>> => (IF ins # <<>> /\ Head(ins) \in ToSet(o) THEN ins ELSE o) = o
<1>1. CASE ins = o
  <2>1. o # <<>> => Head(o) \in ToSet(o)
    <3>1. o # <<>> => Head(o) = o[1] /\ 1 \in DOMAIN o
      BY HeadTailProperties, EmptySeq, LenProperties
    <3> QED  BY <3>1 DEF ToSet
  <2> QED  BY <1>1, <2>1
<1>2. ASSUME NEW gone \in V \ ToSet(o), ins = <<gone>> \o o
      PROVE  /\ ToSet(o) \subseteq ToSet(ins) /\ ToSet(ins) \subseteq V
             /\ Head(ins) \notin ToSet(o)
  <2> DEFINE S == Key \cup {gone}
             g == <<gone>>
  <2>1. g \in Seq(S) /\ ToSet(g) = {gone} /\ Len(g) = 1 /\ g[1] = gone
    <3>1. gone \in S
      OBVIOUS
    <3> HIDE DEF S
    <3> QED  BY <3>1, OneOf
  <2>2. o \in Seq(S)
    BY SeqMonotonic
  <2> HIDE DEF S
  <2>3. ToSet(g \o o) = ToSet(g) \cup ToSet(o)
    <3> HIDE DEF g
    <3> QED  BY <2>1, <2>2, Joined
  <2>4. Head(ins) = gone
    <3> HIDE DEF g
    <3>1. /\ g \o o \in Seq(S) /\ Len(g \o o) = Len(g) + Len(o)
          /\ \A i \in 1..(Len(g) + Len(o)) :
                 (g \o o)[i] = IF i <= Len(g) THEN g[i] ELSE o[i - Len(g)]
      BY <2>1, <2>2, ConcatProperties
    <3>2. Len(o) \in Nat
      BY LenProperties
    <3>3. (g \o o)[1] = gone /\ Len(g \o o) > 0 /\ g \o o \in Seq(S)
      BY <2>1, <3>1, <3>2
    <3> DEFINE q == g \o o
    <3>4. q \in Seq(S) /\ q # <<>> /\ q[1] = gone
      BY <3>3, EmptySeq
    <3> HIDE DEF q
    <3>5. Head(q) = gone
      BY <3>4, HeadTailProperties
    <3> QED  BY <1>2, <3>5 DEF q, g
  <2> QED  BY <1>2, <2>1, <2>3, <2>4
<1> QED  BY <1>1, <1>2

LEMMA OneKeyMore ==
    \A s \in Seq(Key), key \in Key : NoRepeats(s) /\ key \notin ToSet(s) =>
        /\ Append(s, key) \in Seq(Key) /\ NoRepeats(Append(s, key))
        /\ ToSet(Append(s, key)) = ToSet(s) \cup {key}
BY Longer, Zenon

\* One element before a sequence.
LEMMA OneBefore ==
    ASSUME NEW S, NEW s \in Seq(S), NEW e \in S, NEW x
    PROVE  Append(<<x>> \o s, e) = <<x>> \o Append(s, e)
<1> DEFINE T == S \cup {x}
           g == <<x>>
           l == <<e>>
<1>1. g \in Seq(T) /\ l \in Seq(T) /\ s \in Seq(T)
  BY SeqMonotonic
<1>2. Append(s, e) = s \o l
  BY AppendIsConcat
<1>3. g \o s \in Seq(T)
  <2> HIDE DEF g
  <2> QED  BY <1>1, ConcatProperties
<1>4. Append(g \o s, e) = (g \o s) \o l
  <2> DEFINE q == g \o s
  <2> HIDE DEF q
  <2>1. q \in Seq(T) /\ e \in T
    BY <1>3 DEF q
  <2>2. Append(q, e) = q \o <<e>>
    BY <2>1, AppendIsConcat
  <2> QED  BY <2>2 DEF q
<1>5. (g \o s) \o l = g \o (s \o l)
  <2> HIDE DEF g, l
  <2> QED  BY <1>1, ConcatAssociative
<1> QED  BY <1>2, <1>4, <1>5

LEMMA HeadFirst ==
    ASSUME NEW S, NEW s \in Seq(S), s # <<>>
    PROVE  s = <<s[1]>> \o Tail(s)
<1>1. /\ Head(s) \in S /\ Tail(s) \in Seq(S) /\ Head(s) = s[1] /\ Len(Tail(s)) = Len(s) - 1
      /\ \A j \in 1..Len(Tail(s)) : Tail(s)[j] = s[j + 1]
  BY HeadTailProperties
<1>2. Len(s) \in Nat /\ Len(s) > 0
  BY EmptySeq, LenProperties
<1> DEFINE g == <<s[1]>>
           t == Tail(s)
<1>3. g \in Seq(S) /\ Len(g) = 1 /\ g[1] = s[1]
  BY <1>1
<1> HIDE DEF g, t
<1>4. t \in Seq(S) /\ Len(t) = Len(s) - 1 /\ \A j \in 1..(Len(s) - 1) : t[j] = s[j + 1]
  BY <1>1 DEF t
<1>5. /\ g \o t \in Seq(S) /\ Len(g \o t) = Len(g) + Len(t)
      /\ \A i \in 1..(Len(g) + Len(t)) : (g \o t)[i] = IF i <= Len(g) THEN g[i] ELSE t[i - Len(g)]
  <2>1. g \in Seq(S) /\ t \in Seq(S)
    BY <1>3, <1>4
  <2> QED  BY <2>1, ConcatProperties
<1> DEFINE q == g \o t
<1> HIDE DEF q
<1>6. q \in Seq(S) /\ Len(q) = Len(s)
  BY <1>2, <1>3, <1>4, <1>5 DEF q
<1>7. ASSUME NEW i \in 1..Len(s) PROVE q[i] = s[i]
  <2>1. CASE i = 1
    BY <2>1, <1>2, <1>3, <1>4, <1>5 DEF q
  <2>2. CASE i # 1
    <3>1. i - 1 \in 1..(Len(s) - 1) /\ (i - 1) + 1 = i /\ ~ (i <= 1)
      BY <2>2, <1>2
    <3>2. q[i] = t[i - 1]
      BY <3>1, <1>2, <1>3, <1>4, <1>5 DEF q
    <3> QED  BY <3>1, <3>2, <1>4
  <2> QED  BY <2>1, <2>2
<1>8. q = s
  BY <1>6, <1>7, SeqEqual
<1> QED  BY <1>8 DEF q, g, t

\* A new key comes last, and in a full store in the place of the first.
LEMMA InsertKeepsFifo ==
    ASSUME policy = "fifo", NEW kind, Fifo(kind), NEW key \in Key, key \in ToSet(kind.seen),
           key \notin ToSet(kind.order), ToSet(kind.inserted) \subseteq ToSet(kind.seen) \ {key},
           NEW base \in Seq(Key), LeftInOrder(base, kind.order), key \notin ToSet(base),
           NEW new, new = Insert(kind, key, MaxPatterns)
    PROVE  Fifo(new) /\ LeftInOrder(base, new.order) /\ new.seen = kind.seen
<1> DEFINE o == kind.order
           full == Len(o) >= MaxPatterns
           evicted == IF full THEN {Select(kind)} ELSE {}
           kept == IF full THEN RemoveFirst(o, Select(kind)) ELSE o
           q == Append(kept, key)
           f == [k \in (DOMAIN kind.entry \ evicted) \cup {key} |->
                    IF k = key THEN [frequency |-> 1, severity |-> 1] ELSE kind.entry[k]]
           ins == IF full THEN Inserted(kind) ELSE kind.inserted
           put == [kind EXCEPT !.inserted = ins, !.order = q, !.entry = f]
<1>1. new = RecordAccess(put, key)
  BY Zenon DEF Insert
<1>2. /\ o \in Seq(Key) /\ NoRepeats(o) /\ DOMAIN kind.entry = ToSet(o)
      /\ ToSet(o) \subseteq ToSet(kind.seen) /\ key \notin ToSet(o)
      /\ LeftInOrder(base, o)
      /\ {"entry", "inserted", "order", "weight", "seen"} \subseteq DOMAIN kind
  BY DEF Fifo
<1>3. DOMAIN put = DOMAIN kind /\ put.inserted = ins /\ put.order = q /\ put.entry = f
      /\ put.seen = kind.seen
  <2> HIDE DEF ins, q, f
  <2> QED  BY <1>2
<1>4. DOMAIN f = (DOMAIN kind.entry \ evicted) \cup {key}
  BY Zenon
<1> HIDE DEF f, put
<1>5. /\ DOMAIN new = DOMAIN kind /\ DOMAIN new.entry = (ToSet(o) \ evicted) \cup {key}
      /\ new.order = q /\ new.seen = kind.seen
      /\ new.inserted = IF key \in ToSet(ins) THEN ins ELSE Append(ins, key)
  <2> HIDE DEF ins, q, evicted
  <2> QED  BY <1>1, <1>2, <1>3, <1>4, AccessIs
<1>6. \/ kind.inserted = o
      \/ \E gone \in ToSet(kind.seen) \ ToSet(o) : kind.inserted = <<gone>> \o o
  BY DEF Fifo
<1>7. CASE ~ full
  <2>1. kept = o /\ evicted = {} /\ ins = kind.inserted
    BY <1>7
  <2> HIDE DEF full, kept, evicted, ins
  <2>2. q = Append(o, key)
    BY <2>1
  <2>3. q \in Seq(Key) /\ NoRepeats(q) /\ ToSet(q) = ToSet(o) \cup {key}
    <3>1. /\ Append(o, key) \in Seq(Key) /\ NoRepeats(Append(o, key))
          /\ ToSet(Append(o, key)) = ToSet(o) \cup {key}
      <4> HIDE DEF o
      <4>1. o \in Seq(Key) /\ NoRepeats(o) /\ key \in Key /\ key \notin ToSet(o)
        BY <1>2
      <4> QED  BY <4>1, OneKeyMore, Zenon
    <3> QED  BY <2>2, <3>1
  <2>4. LeftInOrder(base, q)
    <3>1. LeftInOrder(base, Append(o, key))
      BY <1>2, Enters, Zenon
    <3> QED  BY <2>2, <3>1
  <2>5. new.inserted = Append(kind.inserted, key)
    BY <1>5, <2>1
  <2>6. \/ new.inserted = q
        \/ \E gone \in ToSet(kind.seen) \ ToSet(q) : new.inserted = <<gone>> \o q
    <3>1. CASE kind.inserted = o
      BY <3>1, <2>2, <2>5
    <3>2. ASSUME NEW gone \in ToSet(kind.seen) \ ToSet(o), kind.inserted = <<gone>> \o o
          PROVE  gone \notin ToSet(q) /\ new.inserted = <<gone>> \o q
      <4>1. gone # key
        <5>1. <<gone>> \in Seq(Key \cup {gone}) /\ ToSet(<<gone>>) = {gone}
          BY OneOf
        <5>2. o \in Seq(Key \cup {gone})
          BY <1>2, SeqMonotonic
        <5> DEFINE g == <<gone>>
        <5>3. g \in Seq(Key \cup {gone}) /\ ToSet(g) = {gone}
          BY <5>1
        <5> HIDE DEF g
        <5>4. ToSet(g \o o) = ToSet(g) \cup ToSet(o)
          BY <5>2, <5>3, Joined
        <5>5. gone \in ToSet(kind.inserted)
          BY <5>3, <5>4, <3>2 DEF g
        <5> QED  BY <5>5
      <4>2. Append(<<gone>> \o o, key) = <<gone>> \o Append(o, key)
        BY <1>2, OneBefore
      <4> QED  BY <4>1, <4>2, <3>2, <2>2, <2>3, <2>5
    <3> QED  BY <3>1, <3>2, <1>6
  <2>7. DOMAIN new.entry = ToSet(q)
    BY <1>5, <2>1, <2>3
  <2> HIDE DEF q, o
  <2> QED  BY <1>2, <1>5, <2>3, <2>4, <2>6, <2>7 DEF Fifo
<1>8. CASE full
  <2>1. o # <<>>
    <3>1. MaxPatterns \in Nat /\ MaxPatterns > 0
      BY SeenAssumption
    <3>2. o = <<>> => Len(o) = 0
      BY EmptySeq
    <3> QED  BY <1>8, <3>1, <3>2
  <2>2. Inserted(kind) = o
    <3>1. Inserted(kind) = IF kind.inserted # <<>> /\ Head(kind.inserted) \in ToSet(o)
                           THEN kind.inserted ELSE o
      BY DEF Inserted
    <3> DEFINE had == kind.inserted
               V == ToSet(kind.seen)
    <3>2. o \in Seq(Key) /\ ToSet(o) \subseteq V
      BY <1>2
    <3>3. had = o \/ \E gone \in V \ ToSet(o) : had = <<gone>> \o o
      BY <1>6
    <3>4. Inserted(kind) = IF had # <<>> /\ Head(had) \in ToSet(o) THEN had ELSE o
      BY <3>1
    <3> HIDE DEF o, had, V
    <3>5. o # <<>> => (IF had # <<>> /\ Head(had) \in ToSet(o) THEN had ELSE o) = o
      BY <3>2, <3>3, OldestFirst, Zenon
    <3> QED  BY <2>1, <3>4, <3>5
  <2> DEFINE h == o[1]
             r == Tail(o)
  <2>3. /\ r \in Seq(Key) /\ NoRepeats(r) /\ ToSet(r) = ToSet(o) \ {h} /\ h \in ToSet(o)
        /\ RemoveFirst(o, h) = r /\ Head(o) = h
    BY <1>2, <2>1, Beheaded
  <2>4. Select(kind) = h
    BY <2>2, <2>3 DEF Select
  <2>5. kept = r /\ evicted = {h} /\ ins = o
    BY <1>8, <2>2, <2>3, <2>4
  <2> HIDE DEF full, kept, evicted, ins
  <2>6. q = Append(r, key)
    BY <2>5
  <2>7. q \in Seq(Key) /\ NoRepeats(q) /\ ToSet(q) = ToSet(r) \cup {key}
    <3> HIDE DEF r
    <3>1. key \notin ToSet(r)
      BY <1>2, <2>3
    <3>2. /\ Append(r, key) \in Seq(Key) /\ NoRepeats(Append(r, key))
          /\ ToSet(Append(r, key)) = ToSet(r) \cup {key}
      <4>1. r \in Seq(Key) /\ NoRepeats(r) /\ key \in Key /\ key \notin ToSet(r)
        BY <2>3, <3>1
      <4> QED  BY <4>1, OneKeyMore, Zenon
    <3> QED  BY <2>6, <3>2
  <2>8. LeftInOrder(base, q)
    <3>1. LeftInOrder(base, r)
      BY <1>2, <2>1, Leaves
    <3> HIDE DEF r
    <3>2. key \notin ToSet(r)
      BY <1>2, <2>3
    <3>3. LeftInOrder(base, Append(r, key))
      BY <2>3, <3>1, <3>2, Enters, Zenon
    <3> QED  BY <2>6, <3>3
  <2>9. new.inserted = Append(o, key)
    BY <1>2, <1>5, <2>5
  <2>10. Append(o, key) = <<h>> \o Append(r, key)
    <3>1. o = <<h>> \o r
      BY <1>2, <2>1, HeadFirst
    <3> HIDE DEF r, o, h
    <3>2. Append(<<h>> \o r, key) = <<h>> \o Append(r, key)
      BY <2>3, OneBefore
    <3> QED  BY <3>1, <3>2
  <2>11. h \in ToSet(kind.seen) /\ h \notin ToSet(q)
    BY <1>2, <2>3, <2>7
  <2>12. DOMAIN new.entry = ToSet(q)
    BY <1>5, <2>3, <2>5, <2>7
  <2>13. ToSet(q) \subseteq ToSet(kind.seen)
    BY <1>2, <2>3, <2>7
  <2>14. new.inserted = <<h>> \o q
    BY <2>6, <2>9, <2>10
  <2>15. kind.seen \in Seq(Key) /\ NoRepeats(kind.seen)
    BY DEF Fifo
  <2> HIDE DEF q, o, r, h
  <2> QED  BY <1>2, <1>5, <2>7, <2>8, <2>11, <2>12, <2>13, <2>14, <2>15 DEF Fifo
<1> QED  BY <1>7, <1>8

LEMMA LearnKeepsFifo ==
    ASSUME policy = "fifo", NEW kind, Fifo(kind), NEW key \in Key,
           NEW base \in Seq(Key), LeftInOrder(base, kind.order), ToSet(base) \subseteq ToSet(kind.seen),
           NEW new, new = Learn(kind, key, MaxPatterns)
    PROVE  /\ Fifo(new) /\ LeftInOrder(base, new.order) /\ ToSet(base) \subseteq ToSet(new.seen)
<1> DEFINE seen == LastOf(Append(RemoveFirst(kind.seen, key), key), MaxSeen)
           pushed == [kind EXCEPT !.seen = seen]
           o == kind.order
           ins == kind.inserted
           V == ToSet(kind.seen)
<1>1. /\ seen \in Seq(Key) /\ NoRepeats(seen) /\ ToSet(seen) = V \cup {key}
  <2>1. kind.seen \in Seq(Key) /\ NoRepeats(kind.seen)
    BY DEF Fifo
  <2> QED  BY <2>1, SeenForGood
<1> HIDE DEF seen
<1>2. /\ o \in Seq(Key) /\ NoRepeats(o) /\ DOMAIN kind.entry = ToSet(o) /\ ToSet(o) \subseteq V
      /\ {"entry", "inserted", "order", "weight", "seen"} \subseteq DOMAIN kind
      /\ ins = o \/ \E gone \in V \ ToSet(o) : ins = <<gone>> \o o
  BY DEF Fifo
<1>3. /\ DOMAIN pushed = DOMAIN kind /\ pushed.seen = seen /\ pushed.order = o
      /\ pushed.inserted = ins /\ pushed.entry = kind.entry
  BY <1>2
<1> HIDE DEF pushed, o, ins, V
<1>4. ToSet(o) \subseteq ToSet(ins) /\ ToSet(ins) \subseteq V
  BY <1>2, OldestFirst
<1>5. Fifo(pushed) /\ LeftInOrder(base, pushed.order) /\ ToSet(base) \subseteq ToSet(pushed.seen)
  <2>1. LeftInOrder(base, o) /\ ToSet(base) \subseteq V
    BY DEF o, V
  <2>2. ins = o \/ \E gone \in ToSet(seen) \ ToSet(o) : ins = <<gone>> \o o
    <3>1. ASSUME NEW gone \in V \ ToSet(o), ins = <<gone>> \o o
          PROVE  \E g \in ToSet(seen) \ ToSet(o) : ins = <<g>> \o o
      <4>1. gone \in ToSet(seen) \ ToSet(o)
        BY <1>1
      <4> QED  BY <3>1, <4>1
    <3> QED  BY <3>1, <1>2
  <2>3. ToSet(o) \subseteq ToSet(seen) /\ ToSet(base) \subseteq ToSet(seen)
    BY <1>1, <1>2, <2>1
  <2> QED  BY <1>1, <1>2, <1>3, <2>1, <2>2, <2>3 DEF Fifo
\* A key that is stored stays in its place.
<1>6. ASSUME key \in ToSet(o), NEW more
      PROVE  LET again == Again(pushed, key, more)
             IN  Fifo(again) /\ again.order = pushed.order /\ again.seen = pushed.seen
  <2> DEFINE put == [pushed EXCEPT !.entry[key] = [frequency |-> @.frequency + 1,
                                                  severity |-> @.severity + more]]
             again == Again(pushed, key, more)
  <2>1. /\ DOMAIN put = DOMAIN pushed /\ DOMAIN put.entry = DOMAIN pushed.entry
        /\ put.order = pushed.order /\ put.seen = pushed.seen /\ put.inserted = pushed.inserted
    BY <1>2, <1>3
  <2>2. again = RecordAccess(put, key)
    BY Zenon DEF Again
  <2> HIDE DEF put, again
  <2>3. {"entry", "inserted", "order", "weight", "seen"} \subseteq DOMAIN put
    BY <1>2, <1>3, <2>1
  <2>4. /\ DOMAIN again = DOMAIN put /\ again.entry = put.entry /\ again.order = put.order
        /\ again.seen = put.seen
        /\ again.inserted = IF key \in ToSet(put.inserted) THEN put.inserted
                            ELSE Append(put.inserted, key)
    BY <2>2, <2>3, AccessIs
  <2>5. again.inserted = pushed.inserted
    BY <1>3, <1>4, <1>6, <2>1, <2>4
  <2>6. /\ DOMAIN again = DOMAIN pushed /\ DOMAIN again.entry = DOMAIN pushed.entry
        /\ again.order = pushed.order /\ again.seen = pushed.seen
    BY <2>1, <2>4
  <2>7. Fifo(again)
    BY <1>5, <2>5, <2>6 DEF Fifo
  <2> QED  BY <2>6, <2>7 DEF again
<1>7. CASE key \in ToSet(o)
  <2>1. \E more : new = Again(pushed, key, more)
    <3>1. key \in DOMAIN kind.entry
      BY <1>2, <1>7
    <3>2. new \in {Again(pushed, key, kind.entry[key].severity), Again(pushed, key, 1)}
      BY <3>1 DEF Learn, pushed, seen
    <3> QED  BY <3>2
  <2> QED  BY <1>5, <1>6, <1>7, <2>1
<1>8. CASE key \notin ToSet(o) /\ key \in V
  <2>1. new = pushed
    BY <1>2, <1>8 DEF Learn, pushed, seen, V
  <2> QED  BY <1>5, <2>1
<1>9. CASE key \notin ToSet(o) /\ key \notin V
  <2>1. new = Insert(pushed, key, MaxPatterns)
    BY <1>2, <1>9 DEF Learn, pushed, seen, V
  <2>2. /\ key \in ToSet(pushed.seen) /\ key \notin ToSet(pushed.order)
        /\ ToSet(pushed.inserted) \subseteq ToSet(pushed.seen) \ {key}
    BY <1>1, <1>3, <1>4, <1>9
  <2>3. key \notin ToSet(base)
    BY <1>9 DEF V
  <2>4. Fifo(new) /\ LeftInOrder(base, new.order) /\ new.seen = pushed.seen
    BY <1>5, <2>1, <2>2, <2>3, InsertKeepsFifo
  <2> QED  BY <1>5, <2>4
<1> QED  BY <1>7, <1>8, <1>9

\* Whatever it mines, under FIFO the miner lets the oldest go first.
LEMMA MiningKeepsFifo ==
    ASSUME policy = "fifo", Fifo(patterns), NEW n \in Nat, NEW s, DOMAIN s = 1..n,
           \A j \in 1..n : s[j] \in Trace,
           NEW new, new = MinePatterns(s)
    PROVE  Fifo(new) /\ LeftInOrder(patterns.order, new.order)
<1> DEFINE it == CHOOSE f : Mines(f, s, n)
           base == patterns.order
           Good(kind) == /\ Fifo(kind) /\ LeftInOrder(base, kind.order)
                         /\ ToSet(base) \subseteq ToSet(kind.seen)
           G == {T \in SUBSET (1..n) : Good(it[T])}
<1>1. Mines(it, s, n)
  BY MinesExists, Zenon
<1>2. new = it[1..n]
  BY Zenon DEF MinePatterns, FoldLeft, MapThenFoldSet, Mines
<1> HIDE DEF it
<1>3. ASSUME NEW T \in SUBSET (1..n)
      PROVE  it[T] = IF T = {} THEN patterns
                     ELSE Learn(it[T \ {Max(T)}], Md5(Signature(s[Max(T)])), MaxPatterns)
  BY <1>1, Zenon DEF Mines
<1>4. base \in Seq(Key) /\ Good(patterns)
  <2>1. base \in Seq(Key) /\ Fifo(patterns) /\ ToSet(base) \subseteq ToSet(patterns.seen)
    BY DEF Fifo
  <2>2. LeftInOrder(base, base)
    <3> HIDE DEF base
    <3>1. Len(base) \in Nat /\ DOMAIN base = 1..Len(base)
      BY <2>1, LenProperties
    <3>2. \A i \in (0 + 1)..Len(base) : i - 0 \in DOMAIN base /\ base[i - 0] = base[i]
      BY <3>1
    <3>3. 0 \in 0..Len(base) /\ ~ \E i \in 1..0 : TRUE
      BY <3>1
    <3> QED  BY <3>2, <3>3 DEF LeftInOrder
  <2> QED  BY <2>1, <2>2
<1>5. {} \in G
  <2>1. {} \in SUBSET (1..n)
    OBVIOUS
  <2>2. it[{}] = patterns
    BY <2>1, <1>3
  <2> HIDE DEF Good
  <2> QED  BY <2>1, <2>2, <1>4
<1>6. ASSUME NEW T \in SUBSET (1..n), T # {}, T \ {Max(T)} \in G PROVE T \in G
  <2> DEFINE key == Md5(Signature(s[Max(T)]))
             rest == T \ {Max(T)}
  <2>1. Max(T) \in 1..n
    BY <1>6, BelowGreatest
  <2>2. key \in Key
    BY <2>1 DEF Key
  <2>3. it[T] = Learn(it[rest], key, MaxPatterns)
    BY <1>3, <1>6
  <2>4. Good(it[rest])
    BY <1>6
  <2> HIDE DEF key, rest, base
  <2>5. Good(it[T])
    BY <1>4, <2>2, <2>3, <2>4, LearnKeepsFifo
  <2> QED  BY <2>5
<1> HIDE DEF G
<1>7. 1..n \in G
  BY <1>5, <1>6, PositionInduction
<1> QED  BY <1>2, <1>7 DEF G

OrderKept == policy = "fifo" => Fifo(patterns)

\* Under FIFO the patterns leave in the order in which they came, from a store
\* of any size and in batches of any size: no signature is forgotten, so that
\* none comes back to a place it has lost.
THEOREM OldestLeavesFirst == OSpec => EvictsOldestFirst
<1>1. OInit => OrderKept
  <2> SUFFICES ASSUME OInit PROVE Fifo(patterns)
    BY DEF OrderKept
  <2>1. /\ patterns.order = <<>> /\ patterns.seen = <<>> /\ patterns.inserted = <<>>
        /\ DOMAIN patterns.entry = {}
        /\ {"entry", "inserted", "order", "weight", "seen"} \subseteq DOMAIN patterns
    BY DEF OInit, EmptyKind
  <2>2. <<>> \in Seq(Key) /\ ToSet(<<>>) = {} /\ NoRepeats(<<>>)
    BY EmptySeq DEF ToSet, NoRepeats
  <2> QED  BY <2>1, <2>2 DEF Fifo
<1>2. OrderKept /\ WindowTyped' /\ [ONext]_ovars
        => OrderKept' /\ [policy = "fifo" => \A i, j \in DOMAIN patterns.order :
                             i < j /\ patterns.order[j] \notin DOMAIN patterns'.entry
                                 => patterns.order[i] \notin DOMAIN patterns'.entry]_ovars
  <2> SUFFICES ASSUME OrderKept, window' \in Seq(Trace), [ONext]_ovars
               PROVE  /\ OrderKept'
                      /\ policy = "fifo" => \A i, j \in DOMAIN patterns.order :
                             i < j /\ patterns.order[j] \notin DOMAIN patterns'.entry
                                 => patterns.order[i] \notin DOMAIN patterns'.entry
    BY DEF WindowTyped
  <2>1. policy' = policy
    BY DEF ONext, FinalizeCycle, ovars
  <2> SUFFICES ASSUME policy = "fifo"
               PROVE  /\ Fifo(patterns')
                      /\ \A i, j \in DOMAIN patterns.order :
                             i < j /\ patterns.order[j] \notin DOMAIN patterns'.entry
                                 => patterns.order[i] \notin DOMAIN patterns'.entry
    BY <2>1 DEF OrderKept, Fifo
  <2>2. Fifo(patterns)
    BY DEF OrderKept
  <2>3. CASE patterns' = patterns
    BY <2>2, <2>3 DEF Fifo, ToSet
  <2>4. CASE patterns' = MinePatterns(LastOf(window', CompressEvery))
    <3> DEFINE traces == LastOf(window', CompressEvery)
               base == patterns.order
    <3>1. CompressEvery \in Nat
      BY IntervalAssumption
    <3>2. traces \in Seq(Trace)
      BY <3>1, LastOfProperties
    <3> HIDE DEF traces
    <3>3. /\ Len(traces) \in Nat /\ DOMAIN traces = 1..Len(traces)
          /\ \A j \in 1..Len(traces) : traces[j] \in Trace
      BY <3>2, LenProperties, ElementOfSeq
    <3>4. Fifo(patterns') /\ LeftInOrder(base, patterns'.order)
      <4>1. patterns' = MinePatterns(traces)
        BY <2>4 DEF traces
      <4> QED  BY <2>2, <3>3, <4>1, MiningKeepsFifo
    <3>5. base \in Seq(Key) /\ DOMAIN patterns'.entry = ToSet(patterns'.order)
      BY <2>2, <3>4 DEF Fifo
    <3> HIDE DEF base
    <3>6. Len(base) \in Nat /\ DOMAIN base = 1..Len(base)
      BY <3>5, LenProperties
    <3> DEFINE o == patterns'.order
    <3>7. PICK d \in 0..Len(base) :
              /\ \A i \in 1..d : base[i] \notin ToSet(o)
              /\ \A i \in (d + 1)..Len(base) : i - d \in DOMAIN o /\ o[i - d] = base[i]
      BY <3>4 DEF LeftInOrder
    <3> HIDE DEF o
    <3>8. ASSUME NEW i \in DOMAIN base, NEW j \in DOMAIN base, i < j, base[j] \notin ToSet(o)
          PROVE  base[i] \notin ToSet(o)
      <4>1. ~ (j \in (d + 1)..Len(base))
        BY <3>7, <3>8 DEF ToSet
      <4>2. i \in 1..d
        BY <3>6, <3>8, <4>1
      <4> QED  BY <4>2, <3>7
    <3> QED  BY <3>4, <3>5, <3>8 DEF o, base
  <2>5. patterns' = patterns \/ patterns' = MinePatterns(LastOf(window', CompressEvery))
    BY DEF ONext, FinalizeCycle, Compress, ovars, store
  <2> QED  BY <2>3, <2>4, <2>5
<1> QED  BY <1>1, <1>2, WindowOfTraces, PTL DEF OSpec, EvictsOldestFirst

-----------------------------------------------------------------------------
(* The shape of the graph *)

Passed == {"host_event", "proposal", "decision", "execution", "outcome"}

\* What follows what along the path of a trace that preflight passed or not.
Follows(valid) ==
    {<<"decision", "execution">>, <<"execution", "outcome">>}
    \cup (IF valid THEN {<<"host_event", "proposal">>, <<"proposal", "decision">>}
          ELSE {<<"host_event", "decision">>})

Link(e, p) == [source |-> <<e, p[1]>>, target |-> <<e, p[2]>>]

\* No trace of the loop takes the blocked path: its final status is never that of
\* a refusal.
LEMMA StagesAre ==
    ASSUME NEW t \in Trace
    PROVE  LET s == Stages(t)
           IN  /\ t.valid \in BOOLEAN /\ s \in Seq(StageNames)
               /\ t.valid => /\ Len(s) = 5 /\ s[1] = "host_event" /\ s[2] = "proposal"
                             /\ s[3] = "decision" /\ s[4] = "execution" /\ s[5] = "outcome"
               /\ ~t.valid => /\ Len(s) = 4 /\ s[1] = "host_event" /\ s[2] = "decision"
                              /\ s[3] = "execution" /\ s[4] = "outcome"
<1>1. t.valid \in BOOLEAN
  BY KindsOfTrace
<1>2. ~TakesBlockedPath(t)
  <2>0. /\ P4Status["ALLOW"] = "P4_ALLOW" /\ P4Status["BLOCK"] = "P4_BLOCK"
        /\ P4Status["DEFER"] = "P4_DEFER" /\ P4Status["REVIEW"] = "P4_REVIEW"
        /\ P4Status["BLOCKED_BY_PREFLIGHT"] = "P4_BLOCKED_BY_PREFLIGHT"
    BY DEF P4Status
  <2>1. CASE t.verdict = "BLOCKED_BY_PREFLIGHT" /\ t.exec = ""
    <3>1. t.final = "P4_BLOCKED_BY_PREFLIGHT"
      BY <2>0, <2>1, KindsOfTrace DEF FinalStatus
    <3> QED  BY <2>1, <3>1 DEF TakesBlockedPath, Refusals
  <2>2. CASE t.verdict \in Refusals /\ t.exec = "FAILED"
    <3>1. t.final = "SANDBOX_FAILED"
      BY <2>2, KindsOfTrace DEF FinalStatus
    <3>2. P4Status[t.verdict] # "SANDBOX_FAILED"
      BY <2>0, <2>2 DEF Refusals
    <3> QED  BY <3>1, <3>2 DEF TakesBlockedPath
  <2>3. CASE t.verdict = "ALLOW"
    <3>1. t.final \in {"P4_ALLOW", "SANDBOX_FAILED"}
      BY <2>0, <2>3, KindsOfTrace DEF FinalStatus
    <3> QED  BY <2>3, <3>1 DEF TakesBlockedPath, Refusals
  <2> QED  BY <2>1, <2>2, <2>3, KindsOfTrace
<1> DEFINE a == <<"host_event">>
           b == IF t.valid THEN <<"proposal">> ELSE <<>>
           c == <<"decision", "execution">>
           d == <<"outcome">>
           ab == a \o b
           abc == ab \o c
           abcd == abc \o d
<1>3. Stages(t) = abcd
  BY <1>2 DEF Stages
<1>4. /\ "host_event" \in StageNames /\ "proposal" \in StageNames /\ "decision" \in StageNames
      /\ "execution" \in StageNames /\ "outcome" \in StageNames
  BY DEF StageNames
<1>5. a \in Seq(StageNames) /\ c \in Seq(StageNames) /\ d \in Seq(StageNames)
  BY <1>4, OneOf, TwoOf
<1>6. /\ Len(a) = 1 /\ Len(c) = 2 /\ Len(d) = 1
      /\ a[1] = "host_event" /\ c[1] = "decision" /\ c[2] = "execution" /\ d[1] = "outcome"
  OBVIOUS
<1>7. CASE t.valid = TRUE
  <2>1. b \in Seq(StageNames) /\ Len(b) = 1 /\ b[1] = "proposal"
    <3>1. b = <<"proposal">>
      BY <1>7
    <3>2. <<"proposal">> \in Seq(StageNames)
      BY <1>4, OneOf
    <3> QED  BY <3>1, <3>2
  <2> HIDE DEF a, b, c, d
  <2>2. /\ ab \in Seq(StageNames) /\ Len(ab) = 2
        /\ ab[1] = a[1] /\ ab[2] = b[1]
    <3>1. /\ a \in Seq(StageNames) /\ b \in Seq(StageNames) /\ Len(a) = 1 /\ Len(b) = 1
      BY <1>5, <1>6, <2>1
    <3>2. /\ ab \in Seq(StageNames) /\ Len(ab) = Len(a) + Len(b)
          /\ \A i \in 1..(Len(a) + Len(b)) : ab[i] = IF i <= Len(a) THEN a[i] ELSE b[i - Len(a)]
      BY <3>1, ConcatProperties
    <3> HIDE DEF ab
    <3> QED  BY <3>1, <3>2
  <2> HIDE DEF ab
  <2>3. /\ abc \in Seq(StageNames) /\ Len(abc) = 4
        /\ abc[1] = ab[1] /\ abc[2] = ab[2] /\ abc[3] = c[1] /\ abc[4] = c[2]
    <3>1. /\ ab \in Seq(StageNames) /\ c \in Seq(StageNames) /\ Len(ab) = 2 /\ Len(c) = 2
      BY <1>5, <1>6, <2>2
    <3>2. /\ abc \in Seq(StageNames) /\ Len(abc) = Len(ab) + Len(c)
          /\ \A i \in 1..(Len(ab) + Len(c)) : abc[i] = IF i <= Len(ab) THEN ab[i] ELSE c[i - Len(ab)]
      BY <3>1, ConcatProperties
    <3> HIDE DEF abc
    <3> QED  BY <3>1, <3>2
  <2> HIDE DEF abc
  <2>4. /\ abcd \in Seq(StageNames) /\ Len(abcd) = 5
        /\ abcd[1] = abc[1] /\ abcd[2] = abc[2] /\ abcd[3] = abc[3] /\ abcd[4] = abc[4] /\ abcd[5] = d[1]
    <3>1. /\ abc \in Seq(StageNames) /\ d \in Seq(StageNames) /\ Len(abc) = 4 /\ Len(d) = 1
      BY <1>5, <1>6, <2>3
    <3>2. /\ abcd \in Seq(StageNames) /\ Len(abcd) = Len(abc) + Len(d)
          /\ \A i \in 1..(Len(abc) + Len(d)) : abcd[i] = IF i <= Len(abc) THEN abc[i] ELSE d[i - Len(abc)]
      BY <3>1, ConcatProperties
    <3> HIDE DEF abcd
    <3> QED  BY <3>1, <3>2
  <2> HIDE DEF abcd
  <2> QED  BY <1>3, <1>6, <1>7, <2>1, <2>2, <2>3, <2>4
<1>8. CASE t.valid = FALSE
  <2>1. b \in Seq(StageNames) /\ Len(b) = 0
    <3>1. b = <<>>
      BY <1>8
    <3>2. <<>> \in Seq(StageNames) /\ Len(<<>>) = 0
      BY EmptySeq
    <3> QED  BY <3>1, <3>2
  <2> HIDE DEF a, b, c, d
  <2>2. /\ ab \in Seq(StageNames) /\ Len(ab) = 1
        /\ ab[1] = a[1]
    <3>1. /\ a \in Seq(StageNames) /\ b \in Seq(StageNames) /\ Len(a) = 1 /\ Len(b) = 0
      BY <1>5, <1>6, <2>1
    <3>2. /\ ab \in Seq(StageNames) /\ Len(ab) = Len(a) + Len(b)
          /\ \A i \in 1..(Len(a) + Len(b)) : ab[i] = IF i <= Len(a) THEN a[i] ELSE b[i - Len(a)]
      BY <3>1, ConcatProperties
    <3> HIDE DEF ab
    <3> QED  BY <3>1, <3>2
  <2> HIDE DEF ab
  <2>3. /\ abc \in Seq(StageNames) /\ Len(abc) = 3
        /\ abc[1] = ab[1] /\ abc[2] = c[1] /\ abc[3] = c[2]
    <3>1. /\ ab \in Seq(StageNames) /\ c \in Seq(StageNames) /\ Len(ab) = 1 /\ Len(c) = 2
      BY <1>5, <1>6, <2>2
    <3>2. /\ abc \in Seq(StageNames) /\ Len(abc) = Len(ab) + Len(c)
          /\ \A i \in 1..(Len(ab) + Len(c)) : abc[i] = IF i <= Len(ab) THEN ab[i] ELSE c[i - Len(ab)]
      BY <3>1, ConcatProperties
    <3> HIDE DEF abc
    <3> QED  BY <3>1, <3>2
  <2> HIDE DEF abc
  <2>4. /\ abcd \in Seq(StageNames) /\ Len(abcd) = 4
        /\ abcd[1] = abc[1] /\ abcd[2] = abc[2] /\ abcd[3] = abc[3] /\ abcd[4] = d[1]
    <3>1. /\ abc \in Seq(StageNames) /\ d \in Seq(StageNames) /\ Len(abc) = 3 /\ Len(d) = 1
      BY <1>5, <1>6, <2>3
    <3>2. /\ abcd \in Seq(StageNames) /\ Len(abcd) = Len(abc) + Len(d)
          /\ \A i \in 1..(Len(abc) + Len(d)) : abcd[i] = IF i <= Len(abc) THEN abc[i] ELSE d[i - Len(abc)]
      BY <3>1, ConcatProperties
    <3> HIDE DEF abcd
    <3> QED  BY <3>1, <3>2
  <2> HIDE DEF abcd
  <2> QED  BY <1>3, <1>6, <1>8, <2>1, <2>2, <2>3, <2>4
<1> QED  BY <1>1, <1>7, <1>8

\* The nodes of a trace, its edges, and the parents it gives.
LEMMA NodesAre ==
    ASSUME NEW t \in Trace
    PROVE  NodesOf(t) = {<<t.event, s>> : s \in IF t.valid THEN Passed ELSE Passed \ {"proposal"}}
<1> DEFINE s == Stages(t)
<1>1. /\ t.valid \in BOOLEAN /\ DOMAIN s = 1..Len(s)
      /\ t.valid => /\ Len(s) = 5 /\ s[1] = "host_event" /\ s[2] = "proposal"
                    /\ s[3] = "decision" /\ s[4] = "execution" /\ s[5] = "outcome"
      /\ ~t.valid => /\ Len(s) = 4 /\ s[1] = "host_event" /\ s[2] = "decision"
                     /\ s[3] = "execution" /\ s[4] = "outcome"
  BY StagesAre, LenProperties
<1> HIDE DEF s
<1>2. ASSUME t.valid PROVE ToSet(s) = Passed
  BY <1>1, <1>2 DEF ToSet, Passed
<1>3. ASSUME ~t.valid PROVE ToSet(s) = Passed \ {"proposal"}
  BY <1>1, <1>3 DEF ToSet, Passed
<1> QED  BY <1>1, <1>2, <1>3 DEF NodesOf, s

\* The edges of a trace are one for each pair of stages that follow each other.
LEMMA LinksAre ==
    ASSUME NEW t \in Trace
    PROVE  /\ EdgesOf(t) \in Seq({Link(t.event, p) : p \in Follows(t.valid)})
           /\ ToSet(EdgesOf(t)) = {Link(t.event, p) : p \in Follows(t.valid)}
<1> DEFINE E == EdgesOf(t)
           L == {Link(t.event, p) : p \in Follows(t.valid)}
           s == Stages(t)
<1>1. CASE t.valid = TRUE
  <2>1. /\ Len(s) = 5
        /\ s[1] = "host_event"
        /\ s[2] = "proposal"
        /\ s[3] = "decision"
        /\ s[4] = "execution"
        /\ s[5] = "outcome"
    BY <1>1, StagesAre
  <2>2. E = [i \in 1..4 |-> [source |-> <<t.event, s[i]>>, target |-> <<t.event, s[i + 1]>>]]
    <3>1. Len(s) - 1 = 4
      BY <2>1
    <3> QED  BY <3>1, Zenon DEF EdgesOf
  <2> HIDE DEF s
  <2>3. /\ DOMAIN E = 1..4
        /\ E[1] = Link(t.event, <<"host_event", "proposal">>)
        /\ E[2] = Link(t.event, <<"proposal", "decision">>)
        /\ E[3] = Link(t.event, <<"decision", "execution">>)
        /\ E[4] = Link(t.event, <<"execution", "outcome">>)
    BY <2>1, <2>2 DEF Link
  <2>4. Follows(t.valid) = {<<"host_event", "proposal">>,
                            <<"proposal", "decision">>,
                            <<"decision", "execution">>,
                            <<"execution", "outcome">>}
    BY <1>1 DEF Follows
  <2>5. L = {E[1], E[2], E[3], E[4]}
    BY <2>3, <2>4, Zenon
  <2>6. E = [i \in 1..4 |-> E[i]]
    BY <2>2
  <2> HIDE DEF E, L
  <2>7. \A i \in 1..4 : E[i] \in L
    BY <2>5
  <2>8. E \in Seq(L)
    BY <2>6, <2>7
  <2>9. ToSet(E) = L
    BY <2>3, <2>5 DEF ToSet
  <2> QED  BY <2>8, <2>9 DEF E, L
<1>2. CASE t.valid = FALSE
  <2>1. /\ Len(s) = 4
        /\ s[1] = "host_event"
        /\ s[2] = "decision"
        /\ s[3] = "execution"
        /\ s[4] = "outcome"
    BY <1>2, StagesAre
  <2>2. E = [i \in 1..3 |-> [source |-> <<t.event, s[i]>>, target |-> <<t.event, s[i + 1]>>]]
    <3>1. Len(s) - 1 = 3
      BY <2>1
    <3> QED  BY <3>1, Zenon DEF EdgesOf
  <2> HIDE DEF s
  <2>3. /\ DOMAIN E = 1..3
        /\ E[1] = Link(t.event, <<"host_event", "decision">>)
        /\ E[2] = Link(t.event, <<"decision", "execution">>)
        /\ E[3] = Link(t.event, <<"execution", "outcome">>)
    BY <2>1, <2>2 DEF Link
  <2>4. Follows(t.valid) = {<<"host_event", "decision">>,
                            <<"decision", "execution">>,
                            <<"execution", "outcome">>}
    BY <1>2 DEF Follows
  <2>5. L = {E[1], E[2], E[3]}
    BY <2>3, <2>4, Zenon
  <2>6. E = [i \in 1..3 |-> E[i]]
    BY <2>2
  <2> HIDE DEF E, L
  <2>7. \A i \in 1..3 : E[i] \in L
    BY <2>5
  <2>8. E \in Seq(L)
    BY <2>6, <2>7
  <2>9. ToSet(E) = L
    BY <2>3, <2>5 DEF ToSet
  <2> QED  BY <2>8, <2>9 DEF E, L
<1>3. t.valid \in BOOLEAN
  BY StagesAre
<1> QED  BY <1>1, <1>2, <1>3

\* The function by which FlattenSeq is defined.
Flattens(f, seqs, n) ==
    f = [i \in 1..n |-> IF i = 1 THEN seqs[i] ELSE f[i - 1] \o seqs[i]]

\* Joining a sequence of sequences is defined.
LEMMA FlattensExists ==
    ASSUME NEW S, NEW seqs \in Seq(Seq(S)), NEW n \in Nat, n = Len(seqs)
    PROVE  \E f : Flattens(f, seqs, n)
<1> DEFINE fs == [i \in 1..n |-> [x \in Seq(S) |-> x \o seqs[i]]]
<1>1. \A i \in 1..n : seqs[i] \in Seq(S)
  BY ElementOfSeq
<1>2. fs \in [1..n -> [Seq(S) -> Seq(S)]]
  <2>1. ASSUME NEW i \in 1..n, NEW x \in Seq(S) PROVE x \o seqs[i] \in Seq(S)
    BY <1>1, ConcatProperties
  <2>2. ASSUME NEW i \in 1..n PROVE [x \in Seq(S) |-> x \o seqs[i]] \in [Seq(S) -> Seq(S)]
    BY <2>1
  <2> QED  BY <2>2
<1>3. ASSUME NEW i \in 1..n, NEW x \in Seq(S) PROVE fs[i][x] = x \o seqs[i]
  OBVIOUS
<1> HIDE DEF fs
<1>4. PICK f \in [0..n -> Seq(S)] : Recurses(f, <<>>, fs, n)
  <2>1. <<>> \in Seq(S)
    BY EmptySeq
  <2> QED  BY <1>2, <2>1, RecursionExists
<1> DEFINE g == [i \in 1..n |-> f[i]]
<1>5. ASSUME NEW i \in 1..n
      PROVE  g[i] = IF i = 1 THEN seqs[i] ELSE g[i - 1] \o seqs[i]
  <2>1. i - 1 \in 0..n /\ (i # 1 => i - 1 \in 1..n)
    OBVIOUS
  <2>2. f[i - 1] \in Seq(S)
    BY <2>1
  <2>3. f[i] = fs[i][f[i - 1]]
    BY <1>4 DEF Recurses
  <2>4. f[i] = f[i - 1] \o seqs[i]
    BY <1>3, <2>2, <2>3
  <2>5. CASE i = 1
    <3>1. f[i - 1] = <<>>
      BY <1>4, <2>5 DEF Recurses
    <3>2. <<>> \o seqs[i] = seqs[i]
      BY <1>1, ConcatEmptySeq
    <3> QED  BY <2>4, <2>5, <3>1, <3>2
  <2>6. CASE i # 1
    BY <2>1, <2>4, <2>6
  <2> QED  BY <2>5, <2>6
<1>6. g = [i \in 1..n |-> g[i]]
  OBVIOUS
<1> HIDE DEF g
<1>7. Flattens(g, seqs, n)
  BY <1>5, <1>6 DEF Flattens
<1> QED  BY <1>7

\* What is in the joined sequence is in one of them.
LEMMA MembersOfFlat ==
    ASSUME NEW S, NEW seqs \in Seq(Seq(S))
    PROVE  /\ FlattenSeq(seqs) \in Seq(S)
           /\ ToSet(FlattenSeq(seqs)) = UNION {ToSet(seqs[i]) : i \in DOMAIN seqs}
<1> DEFINE n == Len(seqs)
           c == CHOOSE f : Flattens(f, seqs, n)
           Joins(k) == /\ c[k] \in Seq(S)
                       /\ ToSet(c[k]) = UNION {ToSet(seqs[i]) : i \in 1..k}
           Bad == {k \in 1..n : ~Joins(k)}
<1>1. n \in Nat /\ DOMAIN seqs = 1..n
  BY LenProperties
<1>2. \A i \in 1..n : seqs[i] \in Seq(S)
  BY ElementOfSeq
<1>3. CASE n = 0
  <2>1. FlattenSeq(seqs) = seqs
    BY <1>3 DEF FlattenSeq
  <2>2. seqs = <<>> /\ seqs \in Seq(S)
    BY <1>3, EmptySeq
  <2>3. ToSet(seqs) = {} /\ DOMAIN seqs = {}
    BY <1>1, <1>3 DEF ToSet
  <2> QED  BY <2>1, <2>2, <2>3
<1>4. CASE n # 0
  <2>1. FlattenSeq(seqs) = c[n]
    BY <1>4 DEF FlattenSeq, Flattens
  <2>2. Flattens(c, seqs, n)
    <3> HIDE DEF n
    <3>1. \E f : Flattens(f, seqs, n)
      BY <1>1, FlattensExists DEF n
    <3> QED  BY <3>1, Zenon
  <2> HIDE DEF c
  <2>3. ASSUME NEW i \in 1..n
        PROVE  c[i] = IF i = 1 THEN seqs[i] ELSE c[i - 1] \o seqs[i]
    BY <2>2 DEF Flattens
  <2>4. Bad = {}
    <3> SUFFICES ASSUME Bad # {} PROVE FALSE
      OBVIOUS
    <3>1. PICK m \in Bad : \A k \in Bad : m <= k
      <4>1. Bad \subseteq Nat
        <5> HIDE DEF Joins
        <5> QED  BY <1>1
      <4> HIDE DEF Bad
      <4> QED  BY <4>1, LeastNat
    <3>2. m \in 1..n /\ ~Joins(m)
      OBVIOUS
    <3>3. CASE m = 1
      <4>1. c[m] = seqs[m]
        BY <2>3, <3>2, <3>3
      <4>2. 1..m = {m}
        BY <3>3
      <4> QED  BY <1>2, <3>2, <4>1, <4>2
    <3>4. CASE m # 1
      <4>1. m - 1 \in 1..n /\ ~(m <= m - 1)
        BY <1>1, <3>2, <3>4
      <4>2. Joins(m - 1)
        <5> HIDE DEF Joins
        <5> QED  BY <3>1, <4>1
      <4>3. c[m] = c[m - 1] \o seqs[m]
        BY <2>3, <3>2, <3>4
      <4>4. c[m - 1] \in Seq(S) /\ seqs[m] \in Seq(S)
        BY <1>2, <3>2, <4>2
      <4>5. c[m] \in Seq(S) /\ ToSet(c[m]) = ToSet(c[m - 1]) \cup ToSet(seqs[m])
        BY <4>3, <4>4, Joined
      <4>6. 1..m = (1..(m - 1)) \cup {m}
        BY <1>1, <3>2
      <4>7. UNION {ToSet(seqs[i]) : i \in 1..m} =
              (UNION {ToSet(seqs[i]) : i \in 1..(m - 1)}) \cup ToSet(seqs[m])
        BY <4>6, Zenon
      <4>8. Joins(m)
        BY <4>2, <4>5, <4>7
      <4> QED  BY <3>2, <4>8
    <3> QED  BY <3>3, <3>4
  <2>5. n \in 1..n
    BY <1>1, <1>4
  <2>6. Joins(n)
    <3> HIDE DEF Joins
    <3> QED  BY <2>4, <2>5
  <2> QED  BY <1>1, <2>1, <2>6
<1> QED  BY <1>3, <1>4

\* One edge more: its target is a child of its source, once.
Wired(kids, e, node) == IF e.source = node /\ e.target \notin ToSet(kids)
                        THEN Append(kids, e.target) ELSE kids

\* The function by which the children of a node are folded from the first n edges.
Wires(it, edges, node, n) ==
    it = [T \in SUBSET (1..n) |->
             IF T = {} THEN <<>>
             ELSE Wired(it[T \ {Max(T)}], edges[Max(T)], node)]

\* The fold that collects the children of a node is defined.
LEMMA WiresExist ==
    ASSUME NEW edges, NEW node, NEW n \in Nat
    PROVE  \E it : Wires(it, edges, node, n)
<1> DEFINE step(T, kids) == IF T = {} THEN <<>>
                            ELSE Wired(kids, edges[Max(T)], node)
           Upto(it, k) == \A T \in SUBSET (1..k) : it[T] = step(T, it[T \ {Max(T)}])
           Bad == {k \in 0..n : ~ \E it : Upto(it, k)}
<1>1. Bad = {}
  <2> SUFFICES ASSUME Bad # {} PROVE FALSE
    OBVIOUS
  <2>1. PICK m \in Bad : \A k \in Bad : m <= k
    <3>1. Bad \subseteq Nat
      OBVIOUS
    <3> HIDE DEF Bad
    <3> QED  BY <3>1, LeastNat
  <2>2. m # 0
    <3> DEFINE it == [T \in {{}} |-> <<>>]
    <3>1. ASSUME NEW T \in SUBSET (1..0) PROVE it[T] = step(T, it[T \ {Max(T)}])
      <4>1. T = {}
        OBVIOUS
      <4> QED  BY <4>1
    <3> HIDE DEF it, step
    <3>2. Upto(it, 0)
      BY <3>1
    <3> HIDE DEF Upto
    <3> QED  BY <3>2
  <2>3. m \in 1..n /\ m - 1 \in 0..n /\ m - 1 \notin Bad
    <3>1. m \in 0..n
      OBVIOUS
    <3>2. m \in 1..n /\ m - 1 \in 0..n /\ ~ (m <= m - 1)
      BY <2>2, <3>1
    <3> HIDE DEF Bad
    <3> QED  BY <2>1, <3>2
  <2> HIDE DEF step
  <2>4. PICK f : Upto(f, m - 1)
    BY <2>3
  <2> DEFINE g == [T \in SUBSET (1..m) |-> IF T \in SUBSET (1..(m - 1)) THEN f[T]
                                           ELSE step(T, f[T \ {Max(T)}])]
  <2>5. ASSUME NEW T \in SUBSET (1..m) PROVE g[T] = step(T, g[T \ {Max(T)}])
    <3> DEFINE rest == T \ {Max(T)}
    <3>1. rest \in SUBSET (1..(m - 1))
      <4>1. CASE T = {}
        BY <4>1
      <4>2. CASE T # {}
        <5>1. m \in Nat /\ T \subseteq 1..m
          BY <2>3
        <5> QED  BY <4>2, <5>1, BelowGreatest
      <4> QED  BY <4>1, <4>2
    <3>2. rest \in SUBSET (1..m)
      OBVIOUS
    <3> HIDE DEF rest
    <3>3. g[rest] = f[rest]
      BY <3>1, <3>2
    <3>4. CASE T \in SUBSET (1..(m - 1))
      <4>1. f[T] = step(T, f[T \ {Max(T)}])
        BY <3>4, <2>4
      <4>2. g[T] = f[T]
        BY <3>4
      <4> HIDE DEF g
      <4> QED  BY <4>1, <4>2, <3>3 DEF rest
    <3>5. CASE T \notin SUBSET (1..(m - 1))
      <4>2. g[T] = step(T, f[T \ {Max(T)}])
        BY <3>5
      <4> HIDE DEF g
      <4> QED  BY <4>2, <3>3 DEF rest
    <3> QED  BY <3>4, <3>5
  <2> HIDE DEF g
  <2>6. Upto(g, m)
    BY <2>5
  <2> HIDE DEF Upto
  <2> QED  BY <2>6
<1>2. n \in 0..n
  OBVIOUS
<1>3. PICK f : Upto(f, n)
  <2> HIDE DEF Upto
  <2>1. n \notin Bad
    <3> HIDE DEF Bad
    <3> QED  BY <1>1
  <2> QED  BY <2>1, <1>2
<1> DEFINE it == [T \in SUBSET (1..n) |-> f[T]]
<1>4. ASSUME NEW T \in SUBSET (1..n) PROVE f[T] = step(T, it[T \ {Max(T)}])
  <2>1. T \ {Max(T)} \in SUBSET (1..n)
    OBVIOUS
  <2>2. it[T \ {Max(T)}] = f[T \ {Max(T)}]
    BY <2>1
  <2> HIDE DEF step, it
  <2> QED  BY <1>3, <2>2
<1> HIDE DEF step
<1>5. it = [T \in SUBSET (1..n) |-> step(T, it[T \ {Max(T)}])]
  BY <1>4
<1> HIDE DEF it
<1>6. Wires(it, edges, node, n)
  BY <1>5 DEF Wires, step
<1> QED  BY <1>6

\* The targets of a node's edges, of those at the positions in T.
TargetsOf(edges, node, T) == {edges[i].target : i \in {j \in T : edges[j].source = node}}

\* The children of a node are the targets of its edges.
LEMMA ChildrenAre ==
    ASSUME NEW S, NEW edges, NEW n \in Nat, DOMAIN edges = 1..n,
           \A i \in 1..n : edges[i].target \in S,
           NEW node
    PROVE  /\ Wire(edges, node) \in Seq(S)
           /\ ToSet(Wire(edges, node)) = TargetsOf(edges, node, DOMAIN edges)
<1> DEFINE it == CHOOSE f : Wires(f, edges, node, n)
           Targets(T) == TargetsOf(edges, node, T)
<1>1. Wires(it, edges, node, n)
  BY WiresExist, Zenon
<1>2. Wire(edges, node) = it[1..n]
  BY Zenon DEF Wire, FoldLeft, MapThenFoldSet, Wires, Wired
<1> HIDE DEF it
<1>3. ASSUME NEW T \in SUBSET (1..n)
      PROVE  it[T] = IF T = {} THEN <<>> ELSE Wired(it[T \ {Max(T)}], edges[Max(T)], node)
  BY <1>1, Zenon DEF Wires
<1> DEFINE G == {T \in SUBSET (1..n) : it[T] \in Seq(S) /\ ToSet(it[T]) = Targets(T)}
<1>4. {} \in G
  <2>1. it[{}] = <<>>
    BY <1>3
  <2>2. <<>> \in Seq(S) /\ ToSet(<<>>) = {}
    BY EmptySeq DEF ToSet
  <2>3. Targets({}) = {}
    BY DEF TargetsOf
  <2> HIDE DEF Targets
  <2> QED  BY <2>1, <2>2, <2>3
<1>5. ASSUME NEW T \in SUBSET (1..n), T # {}, T \ {Max(T)} \in G PROVE T \in G
  <2> DEFINE m == Max(T)
             rest == T \ {m}
             e == edges[m]
             kids == it[rest]
  <2>1. m \in T /\ m \in 1..n
    <3>1. T \subseteq 1..n
      OBVIOUS
    <3> HIDE DEF m
    <3> QED  BY <1>5, <3>1, LastPosition DEF m
  <2>2. it[T] = Wired(kids, e, node)
    BY <1>3, <1>5
  <2>3. kids \in Seq(S) /\ ToSet(kids) = Targets(rest)
    BY <1>5
  <2> HIDE DEF m
  <2>4. T = rest \cup {m}
    BY <2>1
  <2> HIDE DEF rest, kids
  <2>5. Targets(T) = Targets(rest) \cup (IF e.source = node THEN {e.target} ELSE {})
    BY <2>4, Zenon DEF TargetsOf
  <2> HIDE DEF Targets
  <2>6. e.target \in S
    BY <2>1
  <2> HIDE DEF e
  <2>7. CASE e.source = node /\ e.target \notin ToSet(kids)
    <3>1. it[T] = Append(kids, e.target)
      BY <2>2, <2>7 DEF Wired
    <3>2. Append(kids, e.target) \in Seq(S)
      BY <2>3, <2>6, AppendProperties
    <3>3. ToSet(Append(kids, e.target)) = ToSet(kids) \cup {e.target}
      <4> DEFINE q == Append(kids, e.target)
                 l == Len(kids)
      <4>1. /\ l \in Nat /\ DOMAIN kids = 1..l /\ DOMAIN q = 1..(l + 1)
            /\ \A i \in 1..l : q[i] = kids[i]
            /\ q[l + 1] = e.target
        BY <2>3, <2>6, AppendProperties, LenProperties
      <4> HIDE DEF q, l
      <4>2. 1..(l + 1) = (1..l) \cup {l + 1}
        BY <4>1
      <4>3. ToSet(q) = ToSet(kids) \cup {e.target}
        BY <4>1, <4>2 DEF ToSet
      <4> QED  BY <4>3 DEF q
    <3> QED  BY <2>3, <2>5, <2>7, <3>1, <3>2, <3>3
  <2>8. CASE ~(e.source = node /\ e.target \notin ToSet(kids))
    <3>1. it[T] = kids
      BY <2>2, <2>8 DEF Wired
    <3>2. Targets(T) = Targets(rest)
      BY <2>3, <2>5, <2>8
    <3> QED  BY <2>3, <3>1, <3>2
  <2> QED  BY <2>7, <2>8
<1> HIDE DEF G, Targets
<1>6. 1..n \in G
  BY <1>4, <1>5, PositionInduction
<1>7. it[1..n] \in Seq(S) /\ ToSet(it[1..n]) = Targets(1..n)
  BY <1>6 DEF G
<1>8. Targets(1..n) = TargetsOf(edges, node, DOMAIN edges)
  BY DEF Targets
<1> QED  BY <1>2, <1>7, <1>8

\* What may follow a stage in the graph.
After == [host_event |-> {"proposal", "decision"}, proposal |-> {"decision"},
          decision |-> {"execution"}, execution |-> {"outcome"}, outcome |-> {}]

\* The stages that may follow each stage.
LEMMA AfterIs ==
    /\ After["host_event"] = {"proposal", "decision"} /\ After["proposal"] = {"decision"}
    /\ After["decision"] = {"execution"} /\ After["execution"] = {"outcome"}
    /\ After["outcome"] = {}
BY DEF After

\* The shape of the graph: from each node one goes on to the next stages of the
\* same event, down to the outcome, and each but a host event has its parent.
Shaped(g) ==
    /\ \A n \in DOMAIN g.nodes :
          /\ n = <<n[1], n[2]>> /\ n[2] \in Passed
          /\ Outgoing(g, n) \subseteq {<<n[1], s>> : s \in After[n[2]]}
          /\ Outgoing(g, n) \subseteq DOMAIN g.nodes
          /\ n[2] # "outcome" => Outgoing(g, n) # {}
          /\ g.nodes[n].children \in Seq(DOMAIN g.nodes)
          /\ ToSet(g.nodes[n].children) = Outgoing(g, n)
          /\ g.nodes[n].parent = <<>> <=> n[2] = "host_event"
          /\ n[2] # "host_event" => n \in Outgoing(g, g.nodes[n].parent)
    /\ \A i \in DOMAIN g.edges : g.edges[i].source \in DOMAIN g.nodes

\* Of the stages a trace passes each but the last goes on, and each but the
\* first is gone on to, the proposal only if preflight let it be made.
LEMMA FollowsAre ==
    ASSUME NEW valid \in BOOLEAN
    PROVE  /\ \A p \in Follows(valid) : /\ p = <<p[1], p[2]>>
                                        /\ p[1] \in Passed /\ p[2] \in After[p[1]]
                                        /\ ~valid => p[1] # "proposal" /\ p[2] # "proposal"
           /\ \A s \in Passed : (s = "proposal" => valid) /\ s # "outcome" =>
                  \E p \in Follows(valid) : p[1] = s
           /\ \A s \in Passed : (s = "proposal" => valid) /\ s # "host_event" =>
                  \E p \in Follows(valid) : p[2] = s
<1>1. CASE valid = TRUE
  <2>1. Follows(valid) = {<<"decision", "execution">>, <<"execution", "outcome">>,
                          <<"host_event", "proposal">>, <<"proposal", "decision">>}
    BY <1>1 DEF Follows
  <2>2. \A p \in Follows(valid) : p = <<p[1], p[2]>> /\ p[1] \in Passed /\ p[2] \in After[p[1]]
    BY <2>1, AfterIs DEF Passed
  <2>3. /\ \A s \in Passed : s # "outcome" => \E p \in Follows(valid) : p[1] = s
        /\ \A s \in Passed : s # "host_event" => \E p \in Follows(valid) : p[2] = s
    BY <2>1 DEF Passed
  <2> QED  BY <1>1, <2>2, <2>3
<1>2. CASE valid = FALSE
  <2>1. Follows(valid) = {<<"decision", "execution">>, <<"execution", "outcome">>,
                          <<"host_event", "decision">>}
    BY <1>2 DEF Follows
  <2>2. \A p \in Follows(valid) : p = <<p[1], p[2]>> /\ p[1] \in Passed /\ p[2] \in After[p[1]]
    BY <2>1, AfterIs DEF Passed
  <2>3. /\ \A s \in Passed : s # "proposal" /\ s # "outcome" => \E p \in Follows(valid) : p[1] = s
        /\ \A s \in Passed : s # "proposal" /\ s # "host_event" => \E p \in Follows(valid) : p[2] = s
    BY <2>1 DEF Passed
  <2>4. \A p \in Follows(valid) : p[1] # "proposal" /\ p[2] # "proposal"
    BY <2>1
  <2> QED  BY <1>2, <2>2, <2>3, <2>4
<1> QED  BY <1>1, <1>2

\* The parent of a node, as its trace has it.
LEMMA ParentIs ==
    ASSUME NEW t \in Trace, NEW n \in NodesOf(t)
    PROVE  /\ n[2] = "host_event" => Parent(t, n) = <<>>
           /\ n[2] # "host_event" =>
                 \E p \in Follows(t.valid) : Parent(t, n) = <<t.event, p[1]>> /\ p[2] = n[2]
<1> DEFINE s == Stages(t)
           j == CHOOSE k \in DOMAIN s : s[k] = n[2]
<1>1. /\ t.valid \in BOOLEAN /\ DOMAIN s = 1..Len(s)
      /\ t.valid => /\ Len(s) = 5 /\ s[1] = "host_event" /\ s[2] = "proposal"
                    /\ s[3] = "decision" /\ s[4] = "execution" /\ s[5] = "outcome"
      /\ ~t.valid => /\ Len(s) = 4 /\ s[1] = "host_event" /\ s[2] = "decision"
                     /\ s[3] = "execution" /\ s[4] = "outcome"
  BY StagesAre, LenProperties
<1>2. n[2] \in ToSet(s)
  BY DEF NodesOf
<1>3. j \in DOMAIN s /\ s[j] = n[2]
  <2>1. \E k \in DOMAIN s : s[k] = n[2]
    BY <1>2 DEF ToSet
  <2> HIDE DEF s
  <2> QED  BY <2>1
<1>4. Parent(t, n) = IF j = 1 THEN <<>> ELSE <<t.event, s[j - 1]>>
  BY DEF Parent
<1> HIDE DEF s, j
<1>5. CASE t.valid = TRUE
  <2>1. j \in 1..5
    BY <1>1, <1>3, <1>5
  <2>2. Follows(t.valid) = {<<"decision", "execution">>, <<"execution", "outcome">>,
                            <<"host_event", "proposal">>, <<"proposal", "decision">>}
    BY <1>5 DEF Follows
  <2>3. CASE j = 1
    BY <1>1, <1>3, <1>4, <1>5, <2>3
  <2>4. ASSUME j # 1 PROVE <<s[j - 1], s[j]>> \in Follows(t.valid) /\ s[j] # "host_event"
    <3>1. j \in {2, 3, 4, 5}
      BY <2>1, <2>4
    <3> QED  BY <1>1, <1>5, <2>2, <3>1
  <2>5. CASE j # 1
    BY <1>3, <1>4, <2>4, <2>5
  <2> QED  BY <2>3, <2>5
<1>6. CASE t.valid = FALSE
  <2>1. j \in 1..4
    BY <1>1, <1>3, <1>6
  <2>2. Follows(t.valid) = {<<"decision", "execution">>, <<"execution", "outcome">>,
                            <<"host_event", "decision">>}
    BY <1>6 DEF Follows
  <2>3. CASE j = 1
    BY <1>1, <1>3, <1>4, <1>6, <2>3
  <2>4. ASSUME j # 1 PROVE <<s[j - 1], s[j]>> \in Follows(t.valid) /\ s[j] # "host_event"
    <3>1. j \in {2, 3, 4}
      BY <2>1, <2>4
    <3> QED  BY <1>1, <1>6, <2>2, <3>1
  <2>5. CASE j # 1
    BY <1>3, <1>4, <2>4, <2>5
  <2> QED  BY <2>3, <2>5
<1> QED  BY <1>1, <1>5, <1>6

\* The last trace with a node is one of the window, and it has the node.
LEMMA WriterIs ==
    ASSUME NEW w \in Seq(Trace), NEW i \in DOMAIN w, NEW n \in NodesOf(w[i])
    PROVE  Writer(w, n) \in Trace /\ n \in NodesOf(Writer(w, n))
             /\ \E k \in DOMAIN w : w[k] = Writer(w, n)
<1> DEFINE K == {k \in DOMAIN w : n \in NodesOf(w[k])}
<1>1. Len(w) \in Nat /\ DOMAIN w = 1..Len(w)
  BY LenProperties
<1>2. K \subseteq 1..Len(w) /\ K # {}
  BY <1>1
<1> DEFINE m == Max(K)
<1>3. m \in K
  <2> HIDE DEF K
  <2> QED  BY <1>1, <1>2, LastPosition
<1>4. Writer(w, n) = w[m]
  BY DEF Writer
<1> HIDE DEF m
<1>5. m \in DOMAIN w /\ n \in NodesOf(w[m])
  BY <1>3
<1>6. w[m] \in Trace
  BY <1>1, <1>5, ElementOfSeq
<1> QED  BY <1>4, <1>5, <1>6

\* A trace of event e goes from one stage to the next.
Goes(w, e, p) == \E i \in DOMAIN w : w[i].event = e /\ p \in Follows(w[i].valid)

\* Whatever the traces of a window, the graph built of them has that shape.
LEMMA BuildIsShaped ==
    ASSUME NEW w \in Seq(Trace)
    PROVE  Shaped(Build(w))
<1> DEFINE g == Build(w)
           Has(n) == \E i \in DOMAIN w : n \in NodesOf(w[i])
           seqs == [i \in DOMAIN w |-> EdgesOf(w[i])]
<1>1. /\ DOMAIN w = 1..Len(w) /\ Len(w) \in Nat
      /\ \A i \in DOMAIN w : w[i] \in Trace /\ w[i].valid \in BOOLEAN
  BY LenProperties, ElementOfSeq, StagesAre
<1>2. g.edges = FlattenSeq(seqs)
  BY DEF Build
<1>3. DOMAIN g.nodes = UNION {NodesOf(w[i]) : i \in DOMAIN w}
  BY DEF Build
<1>4. ASSUME NEW n \in DOMAIN g.nodes
      PROVE  /\ g.nodes[n].parent = Parent(Writer(w, n), n)
             /\ g.nodes[n].children = Wire(g.edges, n)
  BY <1>4 DEF Build
<1> HIDE DEF g
<1>5. \A n : n \in DOMAIN g.nodes <=> Has(n)
  BY <1>3
<1>6. ASSUME NEW i \in DOMAIN w, NEW n \in NodesOf(w[i])
      PROVE  /\ n[1] = w[i].event /\ n = <<n[1], n[2]>> /\ n[2] \in Passed
             /\ n[2] = "proposal" => w[i].valid
  <2>1. w[i] \in Trace
    BY <1>1
  <2>2. n \in {<<w[i].event, s>> : s \in IF w[i].valid THEN Passed ELSE Passed \ {"proposal"}}
    BY <1>6, <2>1, NodesAre
  <2> QED  BY <2>2
<1>7. ASSUME NEW i \in DOMAIN w, NEW s \in Passed, s = "proposal" => w[i].valid
      PROVE  <<w[i].event, s>> \in NodesOf(w[i])
  BY <1>1, <1>7, NodesAre
<1>8. ASSUME NEW i \in DOMAIN w, NEW p \in Follows(w[i].valid)
      PROVE  /\ p = <<p[1], p[2]>> /\ p[1] \in Passed /\ p[2] \in Passed /\ p[2] \in After[p[1]]
             /\ <<w[i].event, p[1]>> \in NodesOf(w[i]) /\ <<w[i].event, p[2]>> \in NodesOf(w[i])
  <2>1. /\ p = <<p[1], p[2]>> /\ p[1] \in Passed /\ p[2] \in After[p[1]]
        /\ ~w[i].valid => p[1] # "proposal" /\ p[2] # "proposal"
    BY <1>1, FollowsAre
  <2>2. p[2] \in Passed
    BY <2>1, AfterIs DEF Passed
  <2>3. (p[1] = "proposal" => w[i].valid) /\ (p[2] = "proposal" => w[i].valid)
    BY <1>1, <2>1
  <2> QED  BY <1>7, <2>1, <2>2, <2>3
\* The edges.
<1> DEFINE Links == UNION {ToSet(EdgesOf(w[i])) : i \in DOMAIN w}
<1>9. g.edges \in Seq(Links) /\ ToSet(g.edges) = Links
  <2>1. ASSUME NEW i \in DOMAIN w PROVE EdgesOf(w[i]) \in Seq(Links)
    <3> DEFINE links == ToSet(EdgesOf(w[i]))
    <3>1. EdgesOf(w[i]) \in Seq(links)
      BY <1>1, LinksAre
    <3>2. links \subseteq Links
      OBVIOUS
    <3> HIDE DEF Links, links
    <3> QED  BY <3>1, <3>2
  <2>2. seqs \in Seq(Seq(Links)) /\ DOMAIN seqs = DOMAIN w
    <3> HIDE DEF Links
    <3> QED  BY <1>1, <2>1
  <2>3. \A i \in DOMAIN w : seqs[i] = EdgesOf(w[i])
    OBVIOUS
  <2> HIDE DEF Links, seqs
  <2>4. /\ FlattenSeq(seqs) \in Seq(Links)
        /\ ToSet(FlattenSeq(seqs)) = UNION {ToSet(seqs[i]) : i \in DOMAIN seqs}
    BY <2>2, MembersOfFlat
  <2>5. UNION {ToSet(seqs[i]) : i \in DOMAIN seqs} = Links
    BY <2>2, <2>3 DEF Links
  <2> QED  BY <1>2, <2>4, <2>5
<1> HIDE DEF seqs
<1>10. /\ \A k \in DOMAIN g.edges : \E e, p : Goes(w, e, p) /\ g.edges[k] = Link(e, p)
       /\ \A e, p : Goes(w, e, p) => \E k \in DOMAIN g.edges : g.edges[k] = Link(e, p)
  <2>1. \A i \in DOMAIN w : ToSet(EdgesOf(w[i])) = {Link(w[i].event, p) : p \in Follows(w[i].valid)}
    BY <1>1, LinksAre
  <2>2. ASSUME NEW k \in DOMAIN g.edges PROVE \E e, p : Goes(w, e, p) /\ g.edges[k] = Link(e, p)
    <3>1. g.edges[k] \in ToSet(g.edges)
      BY DEF ToSet
    <3>2. PICK i \in DOMAIN w : g.edges[k] \in ToSet(EdgesOf(w[i]))
      BY <1>9, <3>1
    <3>3. PICK p \in Follows(w[i].valid) : g.edges[k] = Link(w[i].event, p)
      BY <2>1, <3>2
    <3> QED  BY <3>3 DEF Goes
  <2>3. ASSUME NEW e, NEW p, Goes(w, e, p) PROVE \E k \in DOMAIN g.edges : g.edges[k] = Link(e, p)
    <3>1. PICK i \in DOMAIN w : w[i].event = e /\ p \in Follows(w[i].valid)
      BY <2>3 DEF Goes
    <3>2. Link(e, p) \in ToSet(EdgesOf(w[i]))
      BY <2>1, <3>1
    <3>3. Link(e, p) \in ToSet(g.edges)
      BY <1>9, <3>2
    <3> QED  BY <3>3 DEF ToSet
  <2> QED  BY <2>2, <2>3
<1>11. ASSUME NEW e, NEW p, Goes(w, e, p)
       PROVE  /\ Link(e, p).source = <<e, p[1]>> /\ Link(e, p).target = <<e, p[2]>>
              /\ p = <<p[1], p[2]>> /\ p[2] \in After[p[1]]
              /\ <<e, p[1]>> \in DOMAIN g.nodes /\ <<e, p[2]>> \in DOMAIN g.nodes
  <2>1. PICK i \in DOMAIN w : w[i].event = e /\ p \in Follows(w[i].valid)
    BY <1>11 DEF Goes
  <2>2. /\ p = <<p[1], p[2]>> /\ p[2] \in After[p[1]]
        /\ <<e, p[1]>> \in NodesOf(w[i]) /\ <<e, p[2]>> \in NodesOf(w[i])
    BY <1>8, <2>1
  <2> QED  BY <1>5, <2>2 DEF Link
<1>12. \A n, m : m \in Outgoing(g, n) <=> \E e, p : Goes(w, e, p) /\ n = <<e, p[1]>> /\ m = <<e, p[2]>>
  <2>1. ASSUME NEW n, NEW m \in Outgoing(g, n)
        PROVE  \E e, p : Goes(w, e, p) /\ n = <<e, p[1]>> /\ m = <<e, p[2]>>
    <3>1. PICK k \in DOMAIN g.edges : g.edges[k].source = n /\ m = g.edges[k].target
      BY DEF Outgoing
    <3>2. PICK e, p : Goes(w, e, p) /\ g.edges[k] = Link(e, p)
      BY <1>10
    <3> QED  BY <3>1, <3>2 DEF Link
  <2>2. ASSUME NEW e, NEW p, Goes(w, e, p) PROVE <<e, p[2]>> \in Outgoing(g, <<e, p[1]>>)
    <3>1. PICK k \in DOMAIN g.edges : g.edges[k] = Link(e, p)
      BY <1>10, <2>2
    <3>2. g.edges[k].source = <<e, p[1]>> /\ g.edges[k].target = <<e, p[2]>>
      BY <3>1 DEF Link
    <3> QED  BY <3>2 DEF Outgoing
  <2> QED  BY <2>1, <2>2
\* The nodes.
<1>13. ASSUME NEW n \in DOMAIN g.nodes
       PROVE  /\ n = <<n[1], n[2]>> /\ n[2] \in Passed
              /\ Outgoing(g, n) \subseteq {<<n[1], s>> : s \in After[n[2]]}
              /\ Outgoing(g, n) \subseteq DOMAIN g.nodes
              /\ n[2] # "outcome" => Outgoing(g, n) # {}
              /\ g.nodes[n].children \in Seq(DOMAIN g.nodes)
              /\ ToSet(g.nodes[n].children) = Outgoing(g, n)
              /\ g.nodes[n].parent = <<>> <=> n[2] = "host_event"
              /\ n[2] # "host_event" => n \in Outgoing(g, g.nodes[n].parent)
  <2>1. PICK i \in DOMAIN w : n \in NodesOf(w[i])
    BY <1>5
  <2>2. /\ n[1] = w[i].event /\ n = <<n[1], n[2]>> /\ n[2] \in Passed
        /\ n[2] = "proposal" => w[i].valid
    BY <1>6, <2>1
  <2>3. ASSUME NEW m \in Outgoing(g, n)
        PROVE  m \in {<<n[1], s>> : s \in After[n[2]]} /\ m \in DOMAIN g.nodes
    <3>1. PICK e, p : Goes(w, e, p) /\ n = <<e, p[1]>> /\ m = <<e, p[2]>>
      BY <1>12
    <3>2. p[2] \in After[p[1]] /\ m \in DOMAIN g.nodes
      BY <1>11, <3>1
    <3>3. n[1] = e /\ n[2] = p[1]
      BY <3>1
    <3> QED  BY <3>1, <3>2, <3>3
  <2>4. ASSUME n[2] # "outcome" PROVE Outgoing(g, n) # {}
    <3>1. PICK p \in Follows(w[i].valid) : p[1] = n[2]
      BY <1>1, <2>2, <2>4, FollowsAre
    <3>2. Goes(w, n[1], p) /\ n = <<n[1], p[1]>>
      BY <2>2, <3>1 DEF Goes
    <3>3. <<n[1], p[2]>> \in Outgoing(g, n)
      BY <1>12, <3>2
    <3> QED  BY <3>3
  <2>5. /\ g.nodes[n].children \in Seq(DOMAIN g.nodes)
        /\ ToSet(g.nodes[n].children) = Outgoing(g, n)
    <3>1. Len(g.edges) \in Nat /\ DOMAIN g.edges = 1..Len(g.edges)
      BY <1>9, LenProperties
    <3>2. \A k \in 1..Len(g.edges) : g.edges[k].target \in DOMAIN g.nodes
      <4>1. ASSUME NEW k \in DOMAIN g.edges PROVE g.edges[k].target \in DOMAIN g.nodes
        <5>1. PICK e, p : Goes(w, e, p) /\ g.edges[k] = Link(e, p)
          BY <1>10
        <5>2. g.edges[k].target = <<e, p[2]>>
          BY <5>1 DEF Link
        <5>3. <<e, p[2]>> \in DOMAIN g.nodes
          BY <1>11, <5>1
        <5> QED  BY <5>2, <5>3
      <4> QED  BY <3>1, <4>1
    <3> DEFINE l == Len(g.edges)
               edges == g.edges
               D == DOMAIN g.nodes
    <3> HIDE DEF l, edges, D
    <3>3. l \in Nat /\ DOMAIN edges = 1..l /\ \A k \in 1..l : edges[k].target \in D
      BY <3>1, <3>2 DEF l, edges, D
    <3>4. /\ Wire(edges, n) \in Seq(D)
          /\ ToSet(Wire(edges, n)) = TargetsOf(edges, n, DOMAIN edges)
      BY <3>3, ChildrenAre
    <3> QED  BY <1>4, <3>4 DEF Outgoing, TargetsOf, edges, D
  <2> DEFINE t == Writer(w, n)
  <2>6. t \in Trace /\ n \in NodesOf(t) /\ \E k \in DOMAIN w : w[k] = t
    BY <2>1, WriterIs
  <2>7. g.nodes[n].parent = Parent(t, n)
    BY <1>4
  <2> HIDE DEF t
  <2>8. CASE n[2] = "host_event"
    <3>1. g.nodes[n].parent = <<>>
      BY <2>6, <2>7, <2>8, ParentIs
    <3> QED  BY <2>2, <2>3, <2>4, <2>5, <2>8, <3>1
  <2>9. CASE n[2] # "host_event"
    <3>1. PICK p \in Follows(t.valid) : Parent(t, n) = <<t.event, p[1]>> /\ p[2] = n[2]
      BY <2>6, <2>9, ParentIs
    <3>2. n[1] = t.event
      BY <1>6, <2>6
    <3>3. Goes(w, n[1], p)
      BY <2>6, <3>1, <3>2 DEF Goes
    <3>4. n \in Outgoing(g, g.nodes[n].parent)
      <4>1. n = <<n[1], p[2]>> /\ g.nodes[n].parent = <<n[1], p[1]>>
        BY <2>2, <2>7, <3>1, <3>2
      <4> QED  BY <1>12, <3>3, <4>1
    <3>5. g.nodes[n].parent # <<>>
      BY <2>7, <3>1
    <3> QED  BY <2>2, <2>3, <2>4, <2>5, <2>9, <3>4, <3>5
  <2> QED  BY <2>8, <2>9
<1>14. \A k \in DOMAIN g.edges : g.edges[k].source \in DOMAIN g.nodes
  <2> SUFFICES ASSUME NEW k \in DOMAIN g.edges PROVE g.edges[k].source \in DOMAIN g.nodes
    OBVIOUS
  <2>1. PICK e, p : Goes(w, e, p) /\ g.edges[k] = Link(e, p)
    BY <1>10
  <2>2. g.edges[k].source = <<e, p[1]>>
    BY <2>1 DEF Link
  <2>3. <<e, p[1]>> \in DOMAIN g.nodes
    BY <1>11, <2>1
  <2> QED  BY <2>2, <2>3
<1> HIDE DEF Has
<1>15. Shaped(g)
  BY <1>13, <1>14 DEF Shaped
<1> QED  BY <1>15 DEF g

\* The first child of a node that is no outcome is of a next stage; an outcome
\* has no child.
LEMMA FirstChild ==
    ASSUME NEW g, Shaped(g), NEW n \in DOMAIN g.nodes
    PROVE  LET kids == g.nodes[n].children
           IN  /\ n[2] = "outcome" => kids = <<>>
               /\ n[2] # "outcome" => /\ kids # <<>>
                                      /\ Head(kids) \in ToSet(kids)
                                      /\ Head(kids) \in DOMAIN g.nodes
                                      /\ Head(kids)[2] \in After[n[2]]
<1> DEFINE kids == g.nodes[n].children
           D == DOMAIN g.nodes
           out == Outgoing(g, n)
<1>1. /\ kids \in Seq(D) /\ ToSet(kids) = out
      /\ out \subseteq {<<n[1], s>> : s \in After[n[2]]} /\ out \subseteq D
      /\ n[2] # "outcome" => out # {}
  BY DEF Shaped
<1> HIDE DEF kids, D, out
<1>2. Len(kids) \in Nat /\ DOMAIN kids = 1..Len(kids)
  BY <1>1, LenProperties
<1>3. CASE n[2] = "outcome"
  <2>1. out = {}
    BY <1>1, <1>3, AfterIs
  <2>2. Len(kids) = 0
    <3> SUFFICES ASSUME Len(kids) # 0 PROVE FALSE
      OBVIOUS
    <3>1. 1 \in DOMAIN kids
      BY <1>2
    <3>2. kids[1] \in ToSet(kids)
      BY <3>1 DEF ToSet
    <3> QED  BY <1>1, <2>1, <3>2
  <2>3. kids = <<>>
    BY <1>1, <2>2, EmptySeq
  <2> QED  BY <1>3, <2>3 DEF kids
<1>4. CASE n[2] # "outcome"
  <2>1. PICK m : m \in ToSet(kids)
    BY <1>1, <1>4
  <2>2. PICK i \in DOMAIN kids : m = kids[i]
    BY <2>1 DEF ToSet
  <2>3. 1 \in DOMAIN kids /\ kids # <<>>
    BY <1>1, <1>2, <2>2
  <2>4. Head(kids) = kids[1]
    BY <1>1, <2>3
  <2>5. Head(kids) \in ToSet(kids)
    BY <2>3, <2>4 DEF ToSet
  <2>6. Head(kids) \in D
    BY <1>1, <2>5
  <2>7. PICK s \in After[n[2]] : Head(kids) = <<n[1], s>>
    BY <1>1, <2>5
  <2>8. Head(kids)[2] \in After[n[2]]
    BY <2>7
  <2> QED  BY <1>4, <2>3, <2>5, <2>6, <2>8 DEF kids, D
<1> QED  BY <1>3, <1>4

\* The function by which traverse walks down a graph.
Walks(walk, g) ==
    walk = [m \in DOMAIN g.nodes |->
               IF g.nodes[m].children = <<>> THEN <<m>>
               ELSE <<m>> \o walk[Head(g.nodes[m].children)]]

\* It exists: it is told stage by stage, from the outcome up.
LEMMA WalksExist ==
    ASSUME NEW g, Shaped(g)
    PROVE  \E walk : Walks(walk, g)
<1> DEFINE D == DOMAIN g.nodes
           First(m) == Head(g.nodes[m].children)
           outcome == [m \in D |-> <<m>>]
           execution == [m \in D |-> <<m>> \o outcome[First(m)]]
           decision == [m \in D |-> <<m>> \o execution[First(m)]]
           proposal == [m \in D |-> <<m>> \o decision[First(m)]]
           event == [m \in D |-> <<m>> \o IF First(m)[2] = "proposal" THEN proposal[First(m)]
                                          ELSE decision[First(m)]]
           walk == [m \in D |-> IF m[2] = "outcome" THEN outcome[m]
                                ELSE IF m[2] = "execution" THEN execution[m]
                                ELSE IF m[2] = "decision" THEN decision[m]
                                ELSE IF m[2] = "proposal" THEN proposal[m]
                                ELSE event[m]]
<1>1. ASSUME NEW m \in D
      PROVE  /\ m[2] \in Passed
             /\ m[2] = "outcome" => g.nodes[m].children = <<>>
             /\ m[2] # "outcome" => /\ g.nodes[m].children # <<>>
                                    /\ First(m) \in D /\ First(m)[2] \in After[m[2]]
  BY FirstChild DEF Shaped
<1> HIDE DEF First
<1>2. ASSUME NEW m \in D
      PROVE  walk[m] = IF g.nodes[m].children = <<>> THEN <<m>> ELSE <<m>> \o walk[First(m)]
  <2> DEFINE c == First(m)
             kids == g.nodes[m].children
  <2> HIDE DEF D, outcome, execution, decision, proposal, event, walk, c, kids
  <2>1. \A x \in D : walk[x] = IF x[2] = "outcome" THEN outcome[x]
                               ELSE IF x[2] = "execution" THEN execution[x]
                               ELSE IF x[2] = "decision" THEN decision[x]
                               ELSE IF x[2] = "proposal" THEN proposal[x]
                               ELSE event[x]
    BY DEF walk
  <2>2. /\ outcome[m] = <<m>> /\ execution[m] = <<m>> \o outcome[c]
        /\ decision[m] = <<m>> \o execution[c] /\ proposal[m] = <<m>> \o decision[c]
        /\ event[m] = <<m>> \o IF c[2] = "proposal" THEN proposal[c] ELSE decision[c]
    BY DEF outcome, execution, decision, proposal, event, c
  <2>3. /\ m[2] \in Passed
        /\ m[2] = "outcome" => kids = <<>>
        /\ m[2] # "outcome" => kids # <<>> /\ c \in D /\ c[2] \in After[m[2]]
    BY <1>1 DEF c, kids
  <2>4. walk[m] = IF kids = <<>> THEN <<m>> ELSE <<m>> \o walk[c]
    <3>1. CASE m[2] = "outcome"
      BY <2>1, <2>2, <2>3, <3>1
    <3>2. CASE m[2] = "execution"
      BY <2>1, <2>2, <2>3, <3>2, AfterIs
    <3>3. CASE m[2] = "decision"
      BY <2>1, <2>2, <2>3, <3>3, AfterIs
    <3>4. CASE m[2] = "proposal"
      BY <2>1, <2>2, <2>3, <3>4, AfterIs
    <3>5. CASE m[2] = "host_event"
      <4>1. c \in D /\ kids # <<>> /\ c[2] \in {"proposal", "decision"}
        BY <2>3, <3>5, AfterIs
      <4>2. walk[m] = event[m]
        BY <2>1, <3>5
      <4>3. walk[c] = IF c[2] = "proposal" THEN proposal[c] ELSE decision[c]
        BY <2>1, <4>1
      <4> QED  BY <2>2, <4>1, <4>2, <4>3
    <3> QED  BY <2>3, <3>1, <3>2, <3>3, <3>4, <3>5 DEF Passed
  <2> QED  BY <2>4 DEF c, kids
<1>3. walk = [m \in D |-> walk[m]]
  <2> HIDE DEF outcome, execution, decision, proposal, event
  <2> QED  OBVIOUS
<1> HIDE DEF walk
<1>4. walk = [m \in D |-> IF g.nodes[m].children = <<>> THEN <<m>> ELSE <<m>> \o walk[First(m)]]
  BY <1>2, <1>3
<1>5. Walks(walk, g)
  BY <1>4, Zenon DEF Walks, First, D
<1> QED  BY <1>5

\* A path from a node and the path from its child end in the same node.
LEMMA LastOfLonger ==
    ASSUME NEW S, NEW x \in S, NEW s \in Seq(S), s # <<>>
    PROVE  /\ <<x>> \o s \in Seq(S) /\ <<x>> \o s # <<>>
           /\ Last(<<x>> \o s) = Last(s)
<1> DEFINE a == <<x>>
           l == Len(s)
           q == a \o s
<1>1. a \in Seq(S) /\ Len(a) = 1
  OBVIOUS
<1>2. l \in Nat /\ l # 0
  BY LenProperties, EmptySeq
<1> HIDE DEF a, l
<1>3. /\ q \in Seq(S) /\ Len(q) = 1 + l
      /\ \A i \in 1..(1 + l) : q[i] = IF i <= 1 THEN a[i] ELSE s[i - 1]
  BY <1>1, ConcatProperties DEF l
<1> HIDE DEF q
<1>4. 1 + l \in 1..(1 + l) /\ ~(1 + l <= 1) /\ (1 + l) - 1 = l
  BY <1>2
<1>5. q[1 + l] = s[l]
  BY <1>3, <1>4
<1>6. Last(q) = Last(s)
  BY <1>3, <1>5 DEF Last, l
<1>7. q # <<>>
  BY <1>2, <1>3
<1> QED  BY <1>3, <1>6, <1>7 DEF q, a

\* From a host event both walks come to the outcome.
LEMMA WalksReachOutcome ==
    ASSUME NEW g, Shaped(g), NEW n \in OfType(g, "host_event")
    PROVE  Last(Traverse(g, n))[2] = "outcome"
<1> DEFINE walk == CHOOSE f : Walks(f, g)
           D == DOMAIN g.nodes
           First(m) == Head(g.nodes[m].children)
           Ends(m) == walk[m] \in Seq(D) /\ walk[m] # <<>> /\ Last(walk[m])[2] = "outcome"
<1>1. Walks(walk, g)
  BY WalksExist, Zenon
<1>2. Traverse(g, n) = walk[n]
  BY Zenon DEF Traverse, Walks
<1> HIDE DEF walk
<1>3. ASSUME NEW m \in D
      PROVE  walk[m] = IF g.nodes[m].children = <<>> THEN <<m>> ELSE <<m>> \o walk[First(m)]
  BY <1>1 DEF Walks
<1>4. ASSUME NEW m \in D
      PROVE  /\ m[2] = "outcome" => g.nodes[m].children = <<>>
             /\ m[2] # "outcome" => /\ g.nodes[m].children # <<>>
                                    /\ First(m) \in D /\ First(m)[2] \in After[m[2]]
  BY FirstChild
<1> HIDE DEF First, D
<1>5. ASSUME NEW m \in D, m[2] = "outcome" PROVE Ends(m)
  <2>1. walk[m] = <<m>>
    BY <1>3, <1>4, <1>5
  <2>2. <<m>> \in Seq(D) /\ <<m>> # <<>> /\ Last(<<m>>) = m
    BY DEF Last
  <2> QED  BY <1>5, <2>1, <2>2
<1>6. ASSUME NEW m \in D, m[2] # "outcome", Ends(First(m)) PROVE Ends(m)
  <2>1. walk[m] = <<m>> \o walk[First(m)]
    BY <1>3, <1>4, <1>6
  <2>2. walk[First(m)] \in Seq(D) /\ walk[First(m)] # <<>>
    BY <1>6
  <2>3. /\ <<m>> \o walk[First(m)] \in Seq(D) /\ <<m>> \o walk[First(m)] # <<>>
        /\ Last(<<m>> \o walk[First(m)]) = Last(walk[First(m)])
    BY <2>2, LastOfLonger
  <2> QED  BY <1>6, <2>1, <2>3
<1> HIDE DEF Ends
<1>7. \A m \in D : m[2] = "execution" => Ends(m)
  BY <1>4, <1>5, <1>6, AfterIs
<1>8. \A m \in D : m[2] = "decision" => Ends(m)
  BY <1>4, <1>6, <1>7, AfterIs
<1>9. \A m \in D : m[2] = "proposal" => Ends(m)
  BY <1>4, <1>6, <1>8, AfterIs
<1>10. \A m \in D : m[2] = "host_event" => Ends(m)
  <2> SUFFICES ASSUME NEW m \in D, m[2] = "host_event" PROVE Ends(m)
    OBVIOUS
  <2>1. First(m) \in D /\ First(m)[2] \in {"proposal", "decision"} /\ m[2] # "outcome"
    BY <1>4, AfterIs
  <2>2. Ends(First(m))
    BY <1>8, <1>9, <2>1
  <2> QED  BY <1>6, <2>1, <2>2
<1>11. n \in D /\ n[2] = "host_event"
  BY DEF OfType, D
<1>12. Ends(n)
  BY <1>10, <1>11
<1> QED  BY <1>2, <1>12 DEF Ends

\* The function by which the depth-first search finds an outcome.
Finds(found, g) ==
    found = [m \in DOMAIN g.nodes |->
                m[2] = "outcome" \/ \E c \in ToSet(g.nodes[m].children) : found[c]]

\* The search for an outcome goes down the first children.
LEMMA SearchFindsOutcome ==
    ASSUME NEW g, Shaped(g), NEW n \in OfType(g, "host_event")
    PROVE  FindsOutcome(g, n)
<1> DEFINE D == DOMAIN g.nodes
           First(m) == Head(g.nodes[m].children)
           found == CHOOSE f : Finds(f, g)
           all == [m \in D |-> TRUE]
<1>1. ASSUME NEW m \in D, m[2] # "outcome"
      PROVE  /\ First(m) \in ToSet(g.nodes[m].children) /\ First(m) \in D
             /\ First(m)[2] \in After[m[2]]
  BY <1>1, FirstChild
<1> HIDE DEF First
<1>2. \E f : Finds(f, g)
  <2>1. ASSUME NEW m \in D
        PROVE  TRUE <=> m[2] = "outcome" \/ \E c \in ToSet(g.nodes[m].children) : all[c]
    <3>1. CASE m[2] = "outcome"
      BY <3>1
    <3>2. CASE m[2] # "outcome"
      <4>1. First(m) \in ToSet(g.nodes[m].children) /\ First(m) \in D
        BY <1>1, <3>2
      <4>2. all[First(m)]
        BY <4>1
      <4> QED  BY <4>1, <4>2
    <3> QED  BY <3>1, <3>2
  <2>2. [m \in D |-> TRUE]
          = [m \in D |-> m[2] = "outcome" \/ \E c \in ToSet(g.nodes[m].children) : all[c]]
    <3> HIDE DEF all
    <3> QED  BY <2>1, Zenon
  <2>3. Finds(all, g)
    BY <2>2, Zenon DEF Finds
  <2> QED  BY <2>3
<1>3. Finds(found, g)
  BY <1>2, Zenon
<1>4. FindsOutcome(g, n) = found[n]
  BY Zenon DEF FindsOutcome, Finds
<1> HIDE DEF found
<1>5. ASSUME NEW m \in D
      PROVE  found[m] = (m[2] = "outcome" \/ \E c \in ToSet(g.nodes[m].children) : found[c])
  BY <1>3, Zenon DEF Finds
<1>6. ASSUME NEW m \in D, m[2] = "outcome" PROVE found[m]
  BY <1>5, <1>6, Zenon
<1>7. ASSUME NEW m \in D, m[2] # "outcome", found[First(m)] PROVE found[m]
  <2>1. First(m) \in ToSet(g.nodes[m].children)
    BY <1>1, <1>7
  <2> QED  BY <1>5, <1>7, <2>1, Zenon
<1> HIDE DEF D
<1>8. \A m \in D : m[2] = "execution" => found[m]
  BY <1>1, <1>6, <1>7, AfterIs
<1>9. \A m \in D : m[2] = "decision" => found[m]
  BY <1>1, <1>7, <1>8, AfterIs
<1>10. \A m \in D : m[2] = "proposal" => found[m]
  BY <1>1, <1>7, <1>9, AfterIs
<1>11. \A m \in D : m[2] = "host_event" => found[m]
  BY <1>1, <1>7, <1>9, <1>10, AfterIs
<1>12. n \in D /\ n[2] = "host_event"
  BY DEF OfType, D
<1> QED  BY <1>4, <1>11, <1>12

\* What validate says of a graph of that shape: no orphan, no missing edge, none
\* that leads back, and an impossible transition only past a proposal.
LEMMA ShapedIsValid ==
    ASSUME NEW g, Shaped(g)
    PROVE  /\ Orphans(g) = {} /\ MissingEdges(g) = {} /\ Backward(g) = {}
           /\ CriticalEvents(g) =
                 {n[1] : n \in {m \in OfType(g, "host_event") :
                                   <<m[1], "decision">> \in Outgoing(g, m)}}
<1> DEFINE D == DOMAIN g.nodes
<1>1. ASSUME NEW n \in D
      PROVE  /\ n = <<n[1], n[2]>> /\ n[2] \in Passed
             /\ Outgoing(g, n) \subseteq {<<n[1], s>> : s \in After[n[2]]}
             /\ n[2] # "outcome" => Outgoing(g, n) # {}
             /\ g.nodes[n].parent = <<>> <=> n[2] = "host_event"
             /\ n[2] # "host_event" => n \in Outgoing(g, g.nodes[n].parent)
  BY <1>1 DEF Shaped
<1>2. ASSUME NEW i \in DOMAIN g.edges
      PROVE  /\ g.edges[i].source \in D /\ g.edges[i].target \in Outgoing(g, g.edges[i].source)
             /\ g.edges[i].source[2] \in Passed
             /\ g.edges[i].target[2] \in After[g.edges[i].source[2]]
             /\ g.edges[i].target = <<g.edges[i].source[1], g.edges[i].target[2]>>
  <2> DEFINE a == g.edges[i].source
             b == g.edges[i].target
  <2>1. a \in D
    BY DEF Shaped
  <2>2. b \in Outgoing(g, a)
    BY DEF Outgoing
  <2> HIDE DEF a, b
  <2>3. PICK s \in After[a[2]] : b = <<a[1], s>>
    BY <1>1, <2>1, <2>2
  <2>4. b[2] = s
    BY <2>3
  <2>5. a[2] \in Passed
    BY <1>1, <2>1
  <2> QED  BY <2>1, <2>2, <2>3, <2>4, <2>5 DEF a, b
<1>3. Orphans(g) = {}
  <2> SUFFICES ASSUME NEW n \in Orphans(g) PROVE FALSE
    OBVIOUS
  <2>1. n \in D /\ g.nodes[n].parent # <<>> /\ ~Connects(g, n)
    BY DEF Orphans, Roots
  <2>2. n \in Outgoing(g, g.nodes[n].parent)
    BY <1>1, <2>1
  <2>3. PICK i \in DOMAIN g.edges : n = g.edges[i].target
    BY <2>2 DEF Outgoing
  <2> QED  BY <2>1, <2>3 DEF Connects
<1>4. MissingEdges(g) = {}
  <2> SUFFICES ASSUME NEW n \in MissingEdges(g) PROVE FALSE
    OBVIOUS
  <2>1. /\ n \in D
        /\ \/ g.nodes[n].parent # <<>> /\ n \notin Outgoing(g, g.nodes[n].parent)
           \/ n[2] # "outcome" /\ Outgoing(g, n) = {}
    BY DEF MissingEdges
  <2> QED  BY <1>1, <2>1
<1> HIDE DEF D
<1>5. Backward(g) = {}
  <2> DEFINE rank == [host_event |-> 0, proposal |-> 1, decision |-> 2, blocked |-> 2,
                      execution |-> 3, outcome |-> 4]
  <2>1. /\ rank["host_event"] = 0 /\ rank["proposal"] = 1 /\ rank["decision"] = 2
        /\ rank["execution"] = 3 /\ rank["outcome"] = 4
    OBVIOUS
  <2>2. Backward(g) = {i \in DOMAIN g.edges :
                          rank[g.edges[i].source[2]] >= rank[g.edges[i].target[2]]}
    BY DEF Backward
  <2> HIDE DEF rank
  <2>3. \A s \in Passed : \A r \in After[s] : rank[s] \in Nat /\ rank[r] \in Nat /\ rank[s] < rank[r]
    BY <2>1, AfterIs DEF Passed
  <2>4. ASSUME NEW i \in DOMAIN g.edges
        PROVE  ~(rank[g.edges[i].source[2]] >= rank[g.edges[i].target[2]])
    <3> DEFINE s == g.edges[i].source[2]
               r == g.edges[i].target[2]
    <3>1. s \in Passed /\ r \in After[s]
      BY <1>2
    <3> HIDE DEF s, r
    <3>2. rank[s] \in Nat /\ rank[r] \in Nat /\ rank[s] < rank[r]
      BY <2>3, <3>1
    <3>3. ~(rank[s] >= rank[r])
      BY <3>2
    <3> QED  BY <3>3 DEF s, r
  <2> QED  BY <2>2, <2>4
<1>6. \A s \in Passed : \A r \in After[s] :
          r \notin ValidTransition[s] <=> s = "host_event" /\ r = "decision"
  <2>1. /\ ValidTransition["host_event"] = {"proposal", "blocked"}
        /\ ValidTransition["proposal"] = {"decision", "blocked"}
        /\ ValidTransition["decision"] = {"execution", "blocked"}
        /\ ValidTransition["execution"] = {"outcome"}
    BY DEF ValidTransition
  <2> QED  BY <2>1, AfterIs DEF Passed
<1>7. ASSUME NEW i \in DOMAIN g.edges
      PROVE  i \in Impossible(g) <=> /\ g.edges[i].source[2] = "host_event"
                                     /\ g.edges[i].target[2] = "decision"
  <2>1. i \in Impossible(g) <=>
            g.edges[i].target[2] \notin ValidTransition[g.edges[i].source[2]]
    BY DEF Impossible
  <2>2. g.edges[i].source[2] \in Passed /\ g.edges[i].target[2] \in After[g.edges[i].source[2]]
    BY <1>2
  <2> QED  BY <1>6, <2>1, <2>2
<1> DEFINE Skipping == {m \in OfType(g, "host_event") : <<m[1], "decision">> \in Outgoing(g, m)}
<1>8. ASSUME NEW e \in CriticalEvents(g) PROVE \E n \in Skipping : e = n[1]
  <2>1. PICK i \in Impossible(g) : e = g.edges[i].source[1]
    BY DEF CriticalEvents
  <2>2. i \in DOMAIN g.edges
    BY DEF Impossible
  <2> DEFINE a == g.edges[i].source
             b == g.edges[i].target
  <2>3. a[2] = "host_event" /\ b[2] = "decision"
    BY <1>7, <2>1, <2>2
  <2>4. a \in D /\ b \in Outgoing(g, a) /\ b = <<a[1], b[2]>>
    BY <1>2, <2>2
  <2>5. e = a[1]
    BY <2>1
  <2> HIDE DEF a, b
  <2>6. a \in OfType(g, "host_event")
    BY <2>3, <2>4 DEF OfType, D
  <2>7. <<a[1], "decision">> \in Outgoing(g, a)
    BY <2>3, <2>4
  <2> QED  BY <2>5, <2>6, <2>7
<1>9. ASSUME NEW n \in Skipping PROVE n[1] \in CriticalEvents(g)
  <2>1. n \in D /\ n[2] = "host_event" /\ <<n[1], "decision">> \in Outgoing(g, n)
    BY DEF OfType, D
  <2>2. PICK i \in DOMAIN g.edges : g.edges[i].source = n /\ g.edges[i].target = <<n[1], "decision">>
    BY <2>1 DEF Outgoing
  <2>3. i \in Impossible(g)
    BY <1>7, <2>1, <2>2
  <2> QED  BY <2>2, <2>3 DEF CriticalEvents
<1>10. CriticalEvents(g) = {n[1] : n \in Skipping}
  <2> HIDE DEF Skipping
  <2> QED  BY <1>8, <1>9
<1> QED  BY <1>3, <1>4, <1>5, <1>10

\* The graph is always that of some window, if not of the present one.
GraphBuilt == \E w \in Seq(Trace) : graph = Build(w)

\* From every host event of the graph both walks come to the outcome, and it has
\* no orphan, no missing edge and none that leads back, for any traces of any
\* number of events and attempts; what is reported as impossible are the events
\* that preflight rejected.
THEOREM GraphsAreSound == OSpec => []GraphIsSound
<1>1. OInit => GraphBuilt
  BY EmptySeq DEF OInit, GraphBuilt
<1>2. GraphBuilt /\ WindowTyped' /\ [ONext]_ovars => GraphBuilt'
  <2> SUFFICES ASSUME GraphBuilt, window' \in Seq(Trace), [ONext]_ovars PROVE GraphBuilt'
    BY DEF WindowTyped
  <2>1. ASSUME NEW t \in Trace, NEW failing \in Failing, FinalizeCycle(t, failing)
        PROVE  graph' = Build(window') \/ graph' = graph
    BY <2>1 DEF FinalizeCycle, Rebuild
  <2>2. UNCHANGED ovars => graph' = graph
    BY DEF ovars, seen_of_loop
  <2>3. graph' = Build(window') \/ graph' = graph
    BY <2>1, <2>2 DEF ONext
  <2> QED  BY <2>3 DEF GraphBuilt
<1>3. GraphBuilt => GraphIsSound
  <2> SUFFICES ASSUME GraphBuilt PROVE GraphIsSound
    OBVIOUS
  <2>1. Shaped(graph)
    BY BuildIsShaped DEF GraphBuilt
  <2>2. \A n \in OfType(graph, "host_event") :
            Last(Traverse(graph, n))[2] = "outcome" /\ FindsOutcome(graph, n)
    BY <2>1, WalksReachOutcome, SearchFindsOutcome
  <2> QED  BY <2>1, <2>2, ShapedIsValid DEF GraphIsSound
<1> QED  BY <1>1, <1>2, <1>3, WindowOfTraces, PTL DEF OSpec

=============================================================================
