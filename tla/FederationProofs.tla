-------------------------- MODULE FederationProofs --------------------------
(***************************************************************************)
(* What the nodes of a federation may rely on, for any versions, scores    *)
(* and metrics, however often they register and tick.                      *)
(***************************************************************************)
EXTENDS Federation, TLAPS, SequenceTheorems, FiniteSetTheorems, WellFoundedInduction

-----------------------------------------------------------------------------
(* The thresholds of the governance *)

\* A new value of a threshold: within the limit of the old one, and at the limit
\* only where the top of the scale falls by it.
Moved(x, v) ==
    /\ x \in 0..Full
    /\ v - x \in -MAX_DELTA..MAX_DELTA
    /\ v - x \in {-MAX_DELTA, MAX_DELTA} => v >= Full - 5 /\ x = v - MAX_DELTA

LEMMA TenthsBounds ==
    ASSUME NEW v \in 0..Full
    PROVE  /\ Tenths(v, 9) \in 0..v
           /\ v - 1000 <= Tenths(v, 9)
           /\ v - 1000 = Tenths(v, 9) => v >= 9995
           /\ Tenths(v, 11) \in v..v + 1000
           /\ v + 1000 = Tenths(v, 11) => v >= 9995
<1>1. v \in Int /\ 0 <= v /\ v <= 10000
  BY DEF Full
<1>2. ASSUME NEW c \in {4, 5}
      PROVE  LET less == (9 * v + c) \div 10
                 more == (11 * v + c) \div 10
             IN  /\ less \in 0..v
                 /\ v - 1000 <= less
                 /\ v - 1000 = less => v >= 9995
                 /\ more \in v..v + 1000
                 /\ v + 1000 = more => v >= 9995
  BY <1>1
<1>3. PICK c \in {4, 5} : Tenths(v, 9) = (9 * v + c) \div 10
  BY DEF Tenths
<1>4. PICK d \in {4, 5} : Tenths(v, 11) = (11 * v + d) \div 10
  BY DEF Tenths
<1> QED  BY <1>2, <1>3, <1>4

\* A threshold moves by a tenth of the scale at most and stays on the scale.
LEMMA ClampBounds ==
    ASSUME NEW v \in 0..Full, NEW drift
    PROVE  Moved(ClampChange(v, drift), v)
<1> DEFINE more == Tenths(v, 11)
           less == Tenths(v, 9)
<1>1. v \in Int /\ 0 <= v /\ v <= 10000
  BY DEF Full
<1>2. more \in Int /\ v <= more /\ more <= v + 1000 /\ (v + 1000 = more => v >= 9995)
  BY <1>1, TenthsBounds
<1>3. /\ less \in Int /\ 0 <= less /\ less <= v /\ v - 1000 <= less
      /\ v - 1000 = less => v >= 9995
  BY <1>1, TenthsBounds
<1>4. ClampChange(v, drift) = IF 2 * drift > Full THEN Lesser(Full, more) ELSE less
  BY DEF ClampChange
<1> HIDE DEF more, less
<1>5. Moved(less, v)
  <2>1. less \in 0..10000
    BY <1>1, <1>3
  <2>2. v - less \in Int /\ 0 <= v - less /\ v - less <= 1000
    BY <1>1, <1>3
  <2>3. v - less \in -1000..1000 /\ v - less # -1000
    BY <2>2
  <2>4. ASSUME v - less = 1000
        PROVE  v >= 9995 /\ less = v - 1000
    BY <1>1, <1>3, <2>4
  <2>5. v - less \in {-1000, 1000} => v >= 10000 - 5 /\ less = v - 1000
    BY <2>3, <2>4
  <2> QED  BY <2>1, <2>3, <2>5 DEF Moved, Full, MAX_DELTA
<1>6. Moved(Lesser(Full, more), v)
  BY <1>1, <1>2 DEF Moved, Lesser, Full, MAX_DELTA
<1> QED  BY <1>4, <1>5, <1>6

\* It keeps its order with another that moves the same way.
LEMMA ClampMonotone ==
    ASSUME NEW v \in 0..Full, NEW w \in 0..Full, v <= w, NEW drift
    PROVE  ClampChange(v, drift) <= ClampChange(w, drift)
<1>1. v \in Int /\ w \in Int /\ Full \in Int
  BY DEF Full
<1>2. ASSUME NEW n \in {9, 11}
      PROVE  /\ Tenths(v, n) \in Int /\ Tenths(w, n) \in Int
             /\ Tenths(v, n) <= Tenths(w, n)
  <2>1. PICK c \in {4, 5} : Tenths(v, n) = (n * v + c) \div 10
    BY DEF Tenths
  <2>2. PICK d \in {4, 5} : Tenths(w, n) = (n * w + d) \div 10
    BY DEF Tenths
  <2>3. /\ (n * v + c) \div 10 \in Int
        /\ (n * w + d) \div 10 \in Int
    BY <1>1
  <2>4. CASE v = w
    BY <2>1, <2>3, <2>4
  <2>5. CASE v < w
    <3>1. \/ n = 9 /\ 9 * v + 9 <= 9 * w
          \/ n = 11 /\ 11 * v + 11 <= 11 * w
      BY <2>5, <1>1
    <3>2. (n * v + c) \div 10 <= (n * w + d) \div 10
      BY <3>1, <1>1
    <3> QED  BY <3>2, <2>1, <2>2, <2>3
  <2> QED  BY <2>4, <2>5, <1>1
<1>3. Tenths(v, 9) <= Tenths(w, 9)
  BY <1>2
<1>4. /\ Tenths(v, 11) \in Int /\ Tenths(w, 11) \in Int
      /\ Tenths(v, 11) <= Tenths(w, 11)
  BY <1>2
<1>5. Lesser(Full, Tenths(v, 11)) <= Lesser(Full, Tenths(w, 11))
  BY <1>1, <1>4 DEF Lesser
<1> QED  BY <1>3, <1>5 DEF ClampChange

OnScale(state) == state \in [Thresholds -> 0..Full]

\* The step of the engine from a state: how the guard takes it.
Taken(state, m) ==
    LET proposed == Evolve(state, m)
    IN  IF Balanced(state)
        THEN /\ Balanced(proposed)
             /\ \/ Approve(state, proposed)
                \/ \E f \in Thresholds : /\ state[f] >= Full - 5
                                         /\ proposed[f] = state[f] - MAX_DELTA
        ELSE Approve(state, proposed) =>
                 proposed.stability_threshold = proposed.confidence_threshold

LEMMA EvolveMoves ==
    ASSUME NEW state, OnScale(state), NEW m
    PROVE  /\ OnScale(Evolve(state, m))
           /\ \A f \in Thresholds : Moved(Evolve(state, m)[f], state[f])
           /\ Balanced(state) => Balanced(Evolve(state, m))
           /\ ~Balanced(state) =>
                  Evolve(state, m).confidence_threshold <= Evolve(state, m).stability_threshold
<1> DEFINE evolved == [f \in Thresholds |-> ClampChange(state[f], m.drift)]
           s == state["stability_threshold"]
           c == state["confidence_threshold"]
<1>1. \A f \in Thresholds : state[f] \in 0..Full
  BY DEF OnScale
<1>2. "stability_threshold" \in Thresholds /\ "confidence_threshold" \in Thresholds
  BY DEF Thresholds
<1>3. s \in 0..Full /\ c \in 0..Full
  BY <1>1, <1>2
<1>4. s <= c \/ c <= s
  <2>1. \A a, b \in 0..Full : a <= b \/ b <= a
    BY DEF Full
  <2> HIDE DEF s, c
  <2> QED  BY <1>3, <2>1
<1>5. Balanced(state) <=> s <= c
  BY DEF Balanced
<1>6. CASE Evolve(state, m) = state
  <2>1. ASSUME NEW v \in 0..Full PROVE Moved(v, v)
    BY DEF Moved, Full, MAX_DELTA
  <2>2. \A f \in Thresholds : Moved(state[f], state[f])
    BY <1>1, <2>1
  <2> QED  BY <1>4, <1>5, <1>6, <2>2
<1>7. CASE Evolve(state, m) = evolved
  <2>1. ASSUME NEW f \in Thresholds
        PROVE  /\ evolved[f] = ClampChange(state[f], m.drift)
               /\ Moved(evolved[f], state[f])
               /\ evolved[f] \in 0..Full
    <3>1. evolved[f] = ClampChange(state[f], m.drift)
      OBVIOUS
    <3>2. Moved(ClampChange(state[f], m.drift), state[f])
      BY <1>1, ClampBounds
    <3> QED  BY <3>1, <3>2 DEF Moved
  <2>2. OnScale(evolved)
    BY <2>1 DEF OnScale
  <2>3. /\ evolved["stability_threshold"] = ClampChange(s, m.drift)
        /\ evolved["confidence_threshold"] = ClampChange(c, m.drift)
    BY <2>1, <1>2
  <2> HIDE DEF evolved, s, c
  <2>4. s <= c => evolved["stability_threshold"] <= evolved["confidence_threshold"]
    BY <1>3, <2>3, ClampMonotone
  <2>5. c <= s => evolved["confidence_threshold"] <= evolved["stability_threshold"]
    BY <1>3, <2>3, ClampMonotone
  <2>6. Balanced(evolved) <=> evolved["stability_threshold"] <= evolved["confidence_threshold"]
    BY DEF Balanced
  <2> QED  BY <1>4, <1>5, <1>7, <2>1, <2>2, <2>4, <2>5, <2>6
<1> QED  BY <1>6, <1>7 DEF Evolve

LEMMA EvolveTaken ==
    ASSUME NEW state, OnScale(state), NEW m
    PROVE  Taken(state, m)
<1> DEFINE proposed == Evolve(state, m)
<1>1. /\ OnScale(proposed)
      /\ \A f \in Thresholds : Moved(proposed[f], state[f])
      /\ Balanced(state) => Balanced(proposed)
      /\ ~Balanced(state) => proposed.confidence_threshold <= proposed.stability_threshold
  BY EvolveMoves
<1>2. \A f \in Thresholds : proposed[f] \in 0..Full /\ state[f] \in 0..Full
  BY <1>1 DEF OnScale
<1> HIDE DEF proposed
<1>3. ASSUME Balanced(state),
             \A f \in Thresholds : ~ (/\ state[f] >= Full - 5
                                      /\ proposed[f] = state[f] - MAX_DELTA)
      PROVE  Approve(state, proposed)
  <2>1. ASSUME NEW f \in Thresholds PROVE InLimit(state[f], proposed[f])
    <3>1. /\ state[f] - proposed[f] \in -MAX_DELTA..MAX_DELTA
          /\ state[f] - proposed[f] \notin {-MAX_DELTA, MAX_DELTA}
      BY <1>1, <1>3 DEF Moved
    <3>2. <<state[f], proposed[f]>> \notin OverLimit
      BY <3>1, OverLimitAssumption
    <3> QED  BY <3>1, <3>2 DEF InLimit
  <2> QED  BY <1>1, <1>2, <1>3, <2>1 DEF Approve
<1>4. ASSUME ~Balanced(state), Approve(state, proposed)
      PROVE  proposed.stability_threshold = proposed.confidence_threshold
  <2>1. /\ proposed["stability_threshold"] \in 0..Full
        /\ proposed["confidence_threshold"] \in 0..Full
    BY <1>2 DEF Thresholds
  <2>2. /\ proposed["stability_threshold"] <= proposed["confidence_threshold"]
        /\ proposed["confidence_threshold"] <= proposed["stability_threshold"]
    BY <1>1, <1>4 DEF Approve, Balanced
  <2>3. \A a, b \in 0..Full : a <= b /\ b <= a => a = b
    BY DEF Full
  <2> QED  BY <2>1, <2>2, <2>3, Zenon
<1> QED  BY <1>1, <1>3, <1>4 DEF Taken, proposed

\* Whatever the thresholds a loop is made with, the metrics and the number of
\* ticks: the guard refuses a step from balanced thresholds only where one at the
\* very top falls by the limit, and lets no unbalanced ones through.
THEOREM StepsApproved == FSpec => []EvolutionApproved
<1> DEFINE Inv == OnScale(governance)
<1>1. FInit => Inv
  BY FederationAssumption DEF FInit, OnScale
<1>2. Inv /\ [FNext]_fvars => Inv'
  <2> SUFFICES ASSUME OnScale(governance), [FNext]_fvars PROVE OnScale(governance')
    BY DEF OnScale
  <2>1. ASSUME NEW m \in Metrics, GovernanceTick(m) PROVE OnScale(governance')
    BY <2>1, EvolveMoves DEF GovernanceTick, Tick
  <2>2. CASE UNCHANGED governance
    BY <2>2
  <2> QED  BY <2>1, <2>2 DEF FNext, Register, BuildProposal, Vote, RecordTrace, fvars
<1>3. Inv => EvolutionApproved
  <2> SUFFICES ASSUME OnScale(governance) PROVE EvolutionApproved
    OBVIOUS
  <2>1. \A m \in Metrics : Taken(governance, Evaluate(m))
    BY EvolveTaken
  <2> QED  BY <2>1 DEF EvolutionApproved, Taken
<1> QED  BY <1>1, <1>2, <1>3, PTL DEF FSpec

-----------------------------------------------------------------------------
(* The lineage of a version *)

\* A non-empty set of naturals has a least element.
LEMMA LeastNat ==
    ASSUME NEW S, S \subseteq Nat, S # {}
    PROVE  \E m \in S : \A x \in S : m <= x
<1>1. PICK m \in S : \A y \in S : ~ (<<y, m>> \in OpToRel(<, Nat))
  BY NatLessThanWellFounded, WFMin, Zenon
<1>2. ASSUME NEW y \in S PROVE m <= y
  <2>1. y \in Nat /\ m \in Nat
    OBVIOUS
  <2>2. y < m => <<y, m>> \in OpToRel(<, Nat)
    BY <2>1 DEF OpToRel
  <2>3. ~ (y < m)
    BY <2>2, <1>1, Zenon
  <2> QED  BY <2>1, <2>3
<1> QED  BY <1>2

\* f begins with base and goes on by the functions of fs.
Recurses(f, base, fs, n) ==
    /\ f[0] = base
    /\ \A i \in 1..n : f[i] = fs[i][f[i - 1]]

LEMMA RecursionExists ==
    ASSUME NEW S, NEW base \in S, NEW n \in Nat, NEW fs \in [1..n -> [S -> S]]
    PROVE  \E f \in [0..n -> S] : Recurses(f, base, fs, n)
<1> DEFINE Bad == {k \in 0..n : ~ \E f \in [0..k -> S] : Recurses(f, base, fs, k)}
<1> SUFFICES ASSUME Bad # {} PROVE FALSE
  OBVIOUS
<1>1. PICK m \in Bad : \A k \in Bad : m <= k
  <2>1. Bad \subseteq Nat
    OBVIOUS
  <2> QED  BY <2>1, LeastNat
<1>2. m # 0
  <2> DEFINE f == [i \in 0..0 |-> base]
  <2>1. f \in [0..0 -> S] /\ Recurses(f, base, fs, 0)
    BY DEF Recurses
  <2> QED  BY <2>1
<1>3. m \in 1..n /\ m - 1 \in 0..n /\ m - 1 \notin Bad
  <2>1. m \in 0..n
    OBVIOUS
  <2>2. m \in 1..n /\ m - 1 \in 0..n /\ ~ (m <= m - 1)
    BY <1>2, <2>1
  <2> HIDE DEF Bad
  <2> QED  BY <1>1, <2>2
<1>4. PICK f \in [0..(m - 1) -> S] : Recurses(f, base, fs, m - 1)
  BY <1>3
<1> DEFINE g == [i \in 0..m |-> IF i = m THEN fs[m][f[m - 1]] ELSE f[i]]
<1>5. g[0] = base
  BY <1>3, <1>4 DEF Recurses
<1>6. g[m] = fs[m][f[m - 1]] /\ \A i \in 0..(m - 1) : g[i] = f[i]
  BY <1>3
<1>7. fs[m][f[m - 1]] \in S
  <2>1. f[m - 1] \in S /\ fs[m] \in [S -> S]
    BY <1>3, <1>4
  <2> QED  BY <2>1
<1>8. g \in [0..m -> S]
  <2>1. ASSUME NEW i \in 0..m PROVE (IF i = m THEN fs[m][f[m - 1]] ELSE f[i]) \in S
    <3>1. CASE i = m
      BY <3>1, <1>7
    <3>2. CASE i # m
      <4>1. i \in 0..(m - 1)
        BY <3>2, <1>3
      <4> QED  BY <3>2, <4>1, <1>4
    <3> QED  BY <3>1, <3>2
  <2> QED  BY <2>1
<1>9. ASSUME NEW i \in 1..m PROVE g[i] = fs[i][g[i - 1]]
  <2>1. i - 1 \in 0..(m - 1) /\ (i # m => i \in 1..(m - 1) /\ i \in 0..(m - 1))
    BY <1>3
  <2>2. g[i - 1] = f[i - 1]
    BY <2>1, <1>6
  <2>3. CASE i = m
    BY <2>2, <2>3, <1>6
  <2>4. CASE i # m
    <3>1. f[i] = fs[i][f[i - 1]]
      BY <2>1, <2>4, <1>4 DEF Recurses
    <3> QED  BY <2>1, <2>2, <2>4, <3>1, <1>6
  <2> QED  BY <2>3, <2>4
<1> HIDE DEF g
<1>10. Recurses(g, base, fs, m)
  BY <1>5, <1>9 DEF Recurses
<1> QED  BY <1>8, <1>10

\* The function by which Lineage is defined, up to n steps.
Climbs(up, g, top) ==
    up = [n \in 0..top |->
             [u \in DOMAIN g |->
                IF n = 0 \/ g[u] = <<>> \/ g[u][1] \notin DOMAIN g THEN <<u>>
                ELSE <<u>> \o up[n - 1][g[u][1]]]]

\* There is such a function for any number of steps.
LEMMA ClimbsExists ==
    ASSUME NEW g, NEW top \in Nat
    PROVE  \E up : Climbs(up, g, top)
<1> DEFINE Bad == {k \in 0..top : ~ \E up : Climbs(up, g, k)}
           Row(n, below) ==
               [u \in DOMAIN g |->
                  IF n = 0 \/ g[u] = <<>> \/ g[u][1] \notin DOMAIN g THEN <<u>>
                  ELSE <<u>> \o below[g[u][1]]]
<1> SUFFICES ASSUME Bad # {} PROVE FALSE
  OBVIOUS
<1>1. PICK m \in Bad : \A k \in Bad : m <= k
  <2>1. Bad \subseteq Nat
    OBVIOUS
  <2> QED  BY <2>1, LeastNat
<1>2. m # 0
  <2> DEFINE up == [n \in 0..0 |-> [u \in DOMAIN g |-> <<u>>]]
  <2>1. Climbs(up, g, 0)
    BY DEF Climbs
  <2> QED  BY <2>1
<1>3. m \in 1..top /\ m - 1 \in 0..top /\ m - 1 \notin Bad
  <2>1. m \in 0..top
    OBVIOUS
  <2>2. m \in 1..top /\ m - 1 \in 0..top /\ ~ (m <= m - 1)
    BY <1>2, <2>1
  <2> HIDE DEF Bad
  <2> QED  BY <1>1, <2>2
<1>4. PICK f : Climbs(f, g, m - 1)
  BY <1>3
<1> DEFINE up == [n \in 0..m |-> IF n = m THEN Row(m, f[m - 1]) ELSE f[n]]
<1>5. ASSUME NEW n \in 0..m PROVE up[n] = Row(n, up[n - 1])
  <2>1. CASE n = m
    <3>1. m - 1 \in 0..m /\ m - 1 # m
      BY <1>3
    <3>2. up[m] = Row(m, f[m - 1]) /\ up[m - 1] = f[m - 1]
      BY <1>3, <3>1
    <3> HIDE DEF up, Row
    <3> QED  BY <2>1, <3>2
  <2>2. CASE n # m
    <3>1. n \in 0..(m - 1)
      BY <1>3, <2>2
    <3>2. up[n] = f[n] /\ (n # 0 => up[n - 1] = f[n - 1])
      BY <1>3, <2>2
    <3>3. f[n] = Row(n, f[n - 1])
      BY <1>4, <3>1 DEF Climbs
    <3>4. CASE n = 0
      <4>1. Row(n, f[n - 1]) = Row(n, up[n - 1])
        BY <3>4
      <4> HIDE DEF up, Row
      <4> QED  BY <3>2, <3>3, <4>1
    <3>5. CASE n # 0
      <4> HIDE DEF up, Row
      <4> QED  BY <3>2, <3>3, <3>5
    <3> QED  BY <3>4, <3>5
  <2> QED  BY <2>1, <2>2
<1>6. up = [n \in 0..m |-> Row(n, up[n - 1])]
  <2>1. up = [n \in 0..m |-> up[n]]
    OBVIOUS
  <2> HIDE DEF up, Row
  <2> QED  BY <1>5, <2>1
<1>7. Climbs(up, g, m)
  <2> HIDE DEF up
  <2> QED  BY <1>6 DEF Climbs
<1> QED  BY <1>7

\* A line goes from a version to its first parent, and so on to a root.
IsLine(g, line, u) ==
    /\ line \in Seq(DOMAIN g)
    /\ Len(line) \in Nat \ {0}
    /\ line[1] = u
    /\ g[line[Len(line)]] = <<>>
    /\ \A i \in 1..(Len(line) - 1) : g[line[i]] # <<>> /\ g[line[i]][1] = line[i + 1]

\* The ranks show that no version comes before its first parent.
Ranks(g, rank) ==
    /\ rank \in [DOMAIN g -> Nat]
    /\ \A u \in DOMAIN g : g[u] # <<>> =>
          /\ 1 \in DOMAIN g[u]
          /\ g[u][1] \in DOMAIN g
          /\ rank[g[u][1]] < rank[u]

LEMMA LineGrows ==
    ASSUME NEW g, NEW u \in DOMAIN g, NEW w \in DOMAIN g, NEW line, IsLine(g, line, w),
           g[u] # <<>>, g[u][1] = w
    PROVE  IsLine(g, <<u>> \o line, u)
<1> DEFINE n == Len(line)
           longer == <<u>> \o line
<1>1. line \in Seq(DOMAIN g) /\ n \in Nat \ {0}
  BY DEF IsLine
<1>2. <<u>> \in Seq(DOMAIN g) /\ Len(<<u>>) = 1 /\ <<u>>[1] = u
  BY SMT
<1>3. /\ longer \in Seq(DOMAIN g)
      /\ Len(longer) = 1 + n
      /\ \A i \in 1..(1 + n) : longer[i] = IF i <= 1 THEN <<u>>[i] ELSE line[i - 1]
  <2>1. /\ longer \in Seq(DOMAIN g)
        /\ Len(longer) = Len(<<u>>) + Len(line)
        /\ \A i \in 1..(Len(<<u>>) + Len(line)) :
               longer[i] = IF i <= Len(<<u>>) THEN <<u>>[i] ELSE line[i - Len(<<u>>)]
    BY <1>1, <1>2, ConcatProperties
  <2> QED  BY <1>2, <2>1
<1> HIDE DEF longer
<1>4. longer[1] = u
  BY <1>1, <1>2, <1>3
<1>5. ASSUME NEW i \in 1..n PROVE longer[i + 1] = line[i]
  <2>1. i + 1 \in 1..(1 + n) /\ ~ (i + 1 <= 1) /\ (i + 1) - 1 = i
    BY <1>1
  <2> QED  BY <1>3, <2>1
<1>6. longer[Len(longer)] = line[n]
  <2>1. n \in 1..n /\ 1 + n = n + 1
    BY <1>1
  <2> QED  BY <1>3, <1>5, <2>1
<1>7. ASSUME NEW i \in 1..(Len(longer) - 1)
      PROVE  g[longer[i]] # <<>> /\ g[longer[i]][1] = longer[i + 1]
  <2>1. i \in 1..n
    BY <1>1, <1>3
  <2>2. longer[i + 1] = line[i]
    BY <1>5, <2>1
  <2>3. CASE i = 1
    BY <1>4, <2>2, <2>3 DEF IsLine
  <2>4. CASE i # 1
    <3>1. i - 1 \in 1..n /\ i - 1 \in 1..(n - 1) /\ (i - 1) + 1 = i
      BY <1>1, <2>1, <2>4
    <3>2. longer[i] = line[i - 1]
      BY <1>5, <3>1
    <3>3. g[line[i - 1]] # <<>> /\ g[line[i - 1]][1] = line[i]
      BY <3>1 DEF IsLine
    <3> QED  BY <2>2, <3>2, <3>3
  <2> QED  BY <2>3, <2>4
<1>8. Len(longer) \in Nat \ {0}
  BY <1>1, <1>3
<1>9. g[line[n]] = <<>>
  BY DEF IsLine
<1> QED  BY <1>3, <1>4, <1>6, <1>7, <1>8, <1>9 DEF IsLine, longer

\* As many steps as the rank of a version reach a root.
LEMMA ClimbsToRoot ==
    ASSUME NEW g, NEW top \in Nat, NEW up, Climbs(up, g, top), NEW rank, Ranks(g, rank),
           NEW v \in DOMAIN g, rank[v] <= top
    PROVE  IsLine(g, up[top][v], v)
<1> DEFINE Bad == {n \in 0..top : \E u \in DOMAIN g : rank[u] <= n /\ ~ IsLine(g, up[n][u], u)}
<1>1. top \in 0..top
  OBVIOUS
<1> SUFFICES ASSUME Bad # {} PROVE FALSE
  BY <1>1
<1>2. PICK m \in Bad : \A k \in Bad : m <= k
  <2>1. Bad \subseteq Nat
    OBVIOUS
  <2> QED  BY <2>1, LeastNat
<1>3. m \in 0..top
  OBVIOUS
<1>4. PICK u \in DOMAIN g : rank[u] <= m /\ ~ IsLine(g, up[m][u], u)
  OBVIOUS
<1>5. up[m][u] = IF m = 0 \/ g[u] = <<>> \/ g[u][1] \notin DOMAIN g THEN <<u>>
                 ELSE <<u>> \o up[m - 1][g[u][1]]
  <2> DEFINE row(n) ==
                 [x \in DOMAIN g |->
                    IF n = 0 \/ g[x] = <<>> \/ g[x][1] \notin DOMAIN g THEN <<x>>
                    ELSE <<x>> \o up[n - 1][g[x][1]]]
  <2>1. up = [n \in 0..top |-> row(n)]
    BY DEF Climbs
  <2>2. row(m)[u] = IF m = 0 \/ g[u] = <<>> \/ g[u][1] \notin DOMAIN g THEN <<u>>
                    ELSE <<u>> \o up[m - 1][g[u][1]]
    OBVIOUS
  <2> HIDE DEF row
  <2>3. up[m] = row(m)
    BY <1>3, <2>1
  <2> QED  BY <2>2, <2>3
<1>6. CASE g[u] = <<>>
  <2>1. up[m][u] = <<u>>
    BY <1>5, <1>6
  <2>2. <<u>> \in Seq(DOMAIN g) /\ Len(<<u>>) = 1 /\ <<u>>[1] = u
    BY SMT
  <2>3. \A i \in 1..(Len(<<u>>) - 1) : FALSE
    BY <2>2
  <2>4. IsLine(g, <<u>>, u)
    BY <1>6, <2>2, <2>3 DEF IsLine
  <2> QED  BY <1>4, <2>1, <2>4
<1>7. CASE g[u] # <<>>
  <2> DEFINE w == g[u][1]
  <2>1. w \in DOMAIN g /\ rank[w] < rank[u]
    BY <1>7 DEF Ranks
  <2>2. rank[w] \in Nat /\ rank[u] \in Nat
    BY <2>1 DEF Ranks
  <2>3. m # 0 /\ m - 1 \in 0..top /\ rank[w] <= m - 1 /\ ~ (m <= m - 1)
    BY <1>3, <1>4, <2>1, <2>2
  <2>4. m - 1 \notin Bad
    <3> HIDE DEF Bad
    <3> QED  BY <1>2, <2>3
  <2>5. IsLine(g, up[m - 1][w], w)
    BY <2>1, <2>3, <2>4
  <2>6. up[m][u] = <<u>> \o up[m - 1][w]
    BY <1>5, <1>7, <2>1, <2>3
  <2>7. IsLine(g, <<u>> \o up[m - 1][w], u)
    BY <1>7, <2>1, <2>5, LineGrows
  <2> QED  BY <1>4, <2>6, <2>7
<1> QED  BY <1>6, <1>7

\* No version was registered before its first parent: the number of versions
\* then registered is its rank.
WellRanked(g) ==
    /\ IsFiniteSet(DOMAIN g)
    /\ \E rank : /\ Ranks(g, rank)
                 /\ \A u \in DOMAIN g : rank[u] < Cardinality(DOMAIN g)

\* Every version of such a graph has its lineage, which ends at a root.
LEMMA LineageIs ==
    ASSUME NEW g, WellRanked(g), NEW v \in DOMAIN g
    PROVE  IsLine(g, Lineage(g, v), v)
<1> DEFINE top == Cardinality(DOMAIN g)
           c == CHOOSE up : Climbs(up, g, top)
<1>1. top \in Nat
  BY FS_CardinalityType DEF WellRanked
<1>2. Climbs(c, g, top)
  <2> HIDE DEF top
  <2> QED  BY <1>1, ClimbsExists
<1>3. Lineage(g, v) = c[top][v]
  BY DEF Lineage, Climbs
<1> HIDE DEF c
<1>4. PICK rank : Ranks(g, rank) /\ rank[v] < top
  BY DEF WellRanked
<1>5. rank[v] <= top
  <2>1. rank[v] \in Nat
    BY <1>4 DEF Ranks
  <2> HIDE DEF top
  <2> QED  BY <1>1, <1>4, <2>1
<1> HIDE DEF top
<1> QED  BY <1>1, <1>2, <1>3, <1>4, <1>5, ClimbsToRoot

-----------------------------------------------------------------------------
(* Transitions and migrations *)

LEMMA NoOrphans == ASSUME NEW g, WellRanked(g) PROVE DetectOrphans(g) = {}
<1>1. ASSUME NEW v \in DOMAIN g PROVE HasLineageToRoot(g, v)
  BY LineageIs DEF HasLineageToRoot, IsLine, Last
<1> QED  BY <1>1 DEF DetectOrphans

LEMMA ReasonsAreRules ==
    ASSUME NEW g, WellRanked(g), NEW from, NEW to
    PROVE  BreakingReasons(g, from, to) = {} <=> IsAllowedTransition(g, from, to)
<1>1. ASSUME IsAllowedTransition(g, from, to) PROVE BreakingReasons(g, from, to) = {}
  <2>1. to \in DOMAIN g /\ NoJump(from, to) /\ IsValidTransition(g, from, to)
    BY <1>1 DEF IsAllowedTransition, IsValidTransition
  <2>2. HasLineageToRoot(g, to)
    BY <2>1, NoOrphans DEF DetectOrphans
  <2> QED  BY <2>1, <2>2 DEF BreakingReasons
<1>2. ASSUME BreakingReasons(g, from, to) = {} PROVE IsAllowedTransition(g, from, to)
  BY <1>2 DEF BreakingReasons, IsAllowedTransition
<1> QED  BY <1>1, <1>2

LEMMA RulesGiveADirection ==
    ASSUME NEW from \in Versions, NEW to \in Versions, NoJump(from, to)
    PROVE  IsBackwardCompatible(from, to) \/ IsForwardCompatible(from, to)
<1>1. from[2] \in Nat /\ to[2] \in Nat
  BY FederationAssumption
<1>2. to[2] >= from[2] \/ to[2] <= from[2]
  BY <1>1
<1> QED  BY <1>2 DEF IsBackwardCompatible, IsForwardCompatible

\* The path of a migration goes down the lineage from one of its versions.
LEMMA PathGoesDown ==
    ASSUME NEW g, WellRanked(g), NEW from, NEW to, IsSupported(g, from, to)
    PROVE  LET up == Lineage(g, to)
               path == Path(g, from, to)
           IN  /\ IsLine(g, up, to)
               /\ up \in Seq(DOMAIN g) /\ Len(up) \in Nat \ {0}
               /\ \E c \in 1..Len(up) : /\ path = [i \in 1..c |-> up[(c - i) + 1]]
                                        /\ Len(path) = c
<1> DEFINE up == Lineage(g, to)
           c == CHOOSE i \in DOMAIN up : up[i] = from
           path == Path(g, from, to)
<1>1. from \in ToSet(GetAncestors(g, to))
  BY DEF IsSupported
<1>2. PICK a \in DOMAIN GetAncestors(g, to) : GetAncestors(g, to)[a] = from
  BY <1>1 DEF ToSet
<1>3. to \in DOMAIN g
  <2> SUFFICES ASSUME to \notin DOMAIN g PROVE FALSE
    OBVIOUS
  <2>1. Lineage(g, to) = <<>>
    BY DEF Lineage
  <2>2. GetAncestors(g, to) = <<>>
    BY <2>1 DEF GetAncestors
  <2> QED  BY <1>2, <2>2
<1>4. IsLine(g, up, to)
  BY <1>3, LineageIs
<1>5. up \in Seq(DOMAIN g) /\ Len(up) \in Nat \ {0} /\ DOMAIN up = 1..Len(up) /\ up # <<>>
  <2> HIDE DEF up
  <2>1. up \in Seq(DOMAIN g) /\ Len(up) \in Nat \ {0}
    BY <1>4 DEF IsLine
  <2> QED  BY <2>1, LenProperties, EmptySeq
<1>6. c \in 1..Len(up) /\ up[c] = from
  <2>1. GetAncestors(g, to) = Tail(up)
    BY <1>5 DEF GetAncestors
  <2> HIDE DEF up
  <2>2. /\ Tail(up) \in Seq(DOMAIN g) /\ Len(Tail(up)) = Len(up) - 1
        /\ \A i \in 1..Len(Tail(up)) : Tail(up)[i] = up[i + 1]
    BY <1>5, HeadTailProperties
  <2>3. a \in 1..(Len(up) - 1) /\ Tail(up)[a] = from
    BY <1>2, <2>1, <2>2, LenProperties
  <2>4. a + 1 \in 1..Len(up) /\ up[a + 1] = from
    BY <1>5, <2>2, <2>3
  <2> QED  BY <1>5, <2>4
<1> DEFINE part == SubSeq(up, 1, c)
<1>7. Len(part) = c /\ \A i \in 1..c : part[i] = up[i]
  <2>1. \A i \in 1..c : up[i] \in DOMAIN g
    <3> HIDE DEF up, c
    <3> QED  BY <1>5, <1>6, ElementOfSeq
  <2> HIDE DEF up, c
  <2>2. 1 \in Int /\ c \in Int /\ 1 <= c /\ c - 1 + 1 = c
    BY <1>5, <1>6
  <2>3. /\ Len(part) = IF 1 <= c THEN c - 1 + 1 ELSE 0
        /\ \A i \in 1..(c - 1 + 1) : part[i] = up[1 + i - 1]
    BY <2>1, <2>2, SubSeqProperties
  <2> HIDE DEF part
  <2>4. ASSUME NEW i \in 1..c PROVE part[i] = up[i]
    <3>1. 1 + i - 1 = i
      OBVIOUS
    <3> QED  BY <2>2, <2>3, <3>1
  <2> QED  BY <2>2, <2>3, <2>4
<1>8. path = [i \in 1..c |-> up[(c - i) + 1]]
  <2>1. path = Reverse(part)
    BY DEF Path
  <2> HIDE DEF up, c, part, path
  <2>2. path = [i \in 1..c |-> part[(c - i) + 1]]
    BY <1>7, <2>1 DEF Reverse
  <2>3. \A i \in 1..c : (c - i) + 1 \in 1..c
    BY <1>5, <1>6
  <2> QED  BY <1>7, <2>2, <2>3
<1> HIDE DEF part
<1>9. Len(path) = c
  <2> HIDE DEF up, c, path
  <2>1. c \in Nat
    BY <1>5, <1>6
  <2> QED  BY <1>8, <2>1, SMT
<1> HIDE DEF up, c, path
<1>10. up \in Seq(DOMAIN g) /\ Len(up) \in Nat \ {0}
  BY <1>5
<1>11. \E d \in 1..Len(up) : path = [i \in 1..d |-> up[(d - i) + 1]] /\ Len(path) = d
  BY <1>6, <1>8, <1>9
<1> QED  BY <1>4, <1>10, <1>11 DEF up, path

\* A migration has a number of steps.
LEMMA StepsAreCounted ==
    ASSUME NEW g, WellRanked(g), NEW from, NEW to, IsSupported(g, from, to)
    PROVE  Len(Steps(g, from, to)) \in Nat
<1> DEFINE path == Path(g, from, to)
<1>1. PICK c \in 1..Len(Lineage(g, to)) : Len(path) = c
  BY PathGoesDown
<1>2. Len(Lineage(g, to)) \in Nat
  BY PathGoesDown
<1>3. Steps(g, from, to) = [i \in 1..Len(path) - 1 |-> <<path[i], path[i + 1]>>]
  BY DEF Steps
<1> HIDE DEF path
<1>4. Len(path) - 1 \in Nat
  BY <1>1, <1>2
<1> QED  BY <1>3, <1>4

\* Each step of a migration goes from a first parent to its child.
LEMMA StepsAreTransitions ==
    ASSUME NEW g, WellRanked(g), NEW from, NEW to, IsSupported(g, from, to),
           NEW step \in ToSet(Steps(g, from, to))
    PROVE  IsAllowedTransition(g, step[1], step[2])
<1> DEFINE up == Lineage(g, to)
           path == Path(g, from, to)
<1>1. \A i \in 1..Len(path) - 1 : NoJump(path[i], path[i + 1])
  BY DEF IsSupported
<1>2. IsLine(g, up, to)
  BY PathGoesDown
<1>3. up \in Seq(DOMAIN g) /\ Len(up) \in Nat \ {0}
  BY PathGoesDown
<1>4. PICK c \in 1..Len(up) : path = [i \in 1..c |-> up[(c - i) + 1]] /\ Len(path) = c
  BY PathGoesDown
<1>5. PICK i \in 1..(c - 1) : step = <<path[i], path[i + 1]>>
  <2>1. Steps(g, from, to) = [i \in 1..Len(path) - 1 |-> <<path[i], path[i + 1]>>]
    BY DEF Steps
  <2> HIDE DEF up, path
  <2>2. Len(path) - 1 = c - 1
    BY <1>4
  <2>3. Steps(g, from, to) = [i \in 1..(c - 1) |-> <<path[i], path[i + 1]>>]
    BY <2>1, <2>2
  <2>4. PICK i \in DOMAIN Steps(g, from, to) : step = Steps(g, from, to)[i]
    BY Zenon DEF ToSet
  <2>5. i \in 1..(c - 1) /\ step = <<path[i], path[i + 1]>>
    BY <2>3, <2>4
  <2> QED  BY <2>5
<1> DEFINE j == c - i
<1>6. /\ j \in 1..(Len(up) - 1)
       /\ step[1] = up[j + 1] /\ step[2] = up[j]
       /\ NoJump(step[1], step[2])
  <2> HIDE DEF up, path
  <2>1. c \in 1..Len(up) /\ Len(up) \in Nat
    BY <1>3, <1>4
  <2>2. /\ j \in 1..(Len(up) - 1)
        /\ i \in 1..c /\ i + 1 \in 1..c
        /\ (c - i) + 1 = j + 1 /\ (c - (i + 1)) + 1 = j
    BY <2>1
  <2>3. path[i] = up[j + 1] /\ path[i + 1] = up[j]
    BY <1>4, <2>2
  <2>4. NoJump(path[i], path[i + 1])
    BY <1>1, <1>4
  <2> QED  BY <1>5, <2>2, <2>3, <2>4
<1> HIDE DEF up, path, j
<1>7. up[j] \in DOMAIN g /\ up[j + 1] \in DOMAIN g
  <2>1. j \in 1..Len(up) /\ j + 1 \in 1..Len(up)
    BY <1>3, <1>6
  <2> QED  BY <1>3, <2>1, ElementOfSeq
<1>8. up[j + 1] \in ToSet(g[up[j]])
  <2>1. g[up[j]] # <<>> /\ g[up[j]][1] = up[j + 1]
    BY <1>2, <1>6 DEF IsLine
  <2>2. 1 \in DOMAIN g[up[j]]
    BY <1>7, <2>1 DEF WellRanked, Ranks
  <2> QED  BY <2>1, <2>2 DEF ToSet
<1> QED  BY <1>6, <1>7, <1>8 DEF IsAllowedTransition, IsValidTransition

-----------------------------------------------------------------------------
(* The invariant of the lineage graph *)

LEMMA RegisterRanked ==
    ASSUME NEW g, WellRanked(g), NEW v, NEW parents \in Parents
    PROVE  WellRanked(RegisterNode(g, v, parents))
<1> DEFINE h == [u \in DOMAIN g \cup {v} |-> IF u = v THEN parents ELSE g[u]]
           size == Cardinality(DOMAIN g)
<1>1. CASE ~ MayRegister(g, v, parents)
  BY <1>1 DEF RegisterNode
<1>2. CASE MayRegister(g, v, parents)
  <2>1. RegisterNode(g, v, parents) = h /\ v \notin DOMAIN g /\ ToSet(parents) \subseteq DOMAIN g
    BY <1>2 DEF RegisterNode, MayRegister
  <2>2. /\ size \in Nat
        /\ IsFiniteSet(DOMAIN g \cup {v}) /\ Cardinality(DOMAIN g \cup {v}) = size + 1
    BY <2>1, FS_CardinalityType, FS_AddElement DEF WellRanked
  <2>3. PICK rank : Ranks(g, rank) /\ \A u \in DOMAIN g : rank[u] < size
    BY DEF WellRanked
  <2>4. \A u \in DOMAIN g : rank[u] \in Nat
    BY <2>3 DEF Ranks
  <2> HIDE DEF size
  <2> DEFINE later == [u \in DOMAIN g \cup {v} |-> IF u = v THEN size ELSE rank[u]]
  <2>5. parents # <<>> => 1 \in DOMAIN parents /\ parents[1] \in DOMAIN g
    <3>1. parents # <<>> => 1 \in DOMAIN parents
      BY DEF Parents
    <3> QED  BY <2>1, <3>1 DEF ToSet
  <2>6. DOMAIN h = DOMAIN g \cup {v} /\ h[v] = parents
    OBVIOUS
  <2>7. \A u \in DOMAIN g : h[u] = g[u] /\ later[u] = rank[u] /\ later[v] = size
    BY <2>1
  <2>8. later \in [DOMAIN g \cup {v} -> Nat]
    BY <2>2, <2>4
  <2>9. \A u \in DOMAIN g \cup {v} : later[u] < size + 1
    BY <2>2, <2>3, <2>4
  <2> HIDE DEF h, later
  <2>10. ASSUME NEW u \in DOMAIN h, h[u] # <<>>
         PROVE  1 \in DOMAIN h[u] /\ h[u][1] \in DOMAIN h /\ later[h[u][1]] < later[u]
    <3>1. CASE u = v
      <4>1. 1 \in DOMAIN parents /\ parents[1] \in DOMAIN g
        BY <2>5, <2>6, <2>10, <3>1
      <4>2. later[parents[1]] < size /\ later[v] = size
        BY <2>3, <2>7, <4>1
      <4> QED  BY <2>6, <3>1, <4>1, <4>2
    <3>2. CASE u # v
      <4>1. u \in DOMAIN g /\ h[u] = g[u] /\ later[u] = rank[u]
        BY <2>6, <2>7, <3>2
      <4>2. 1 \in DOMAIN g[u] /\ g[u][1] \in DOMAIN g /\ rank[g[u][1]] < rank[u]
        BY <2>3, <2>10, <4>1 DEF Ranks
      <4>3. later[g[u][1]] = rank[g[u][1]]
        BY <2>7, <4>2
      <4> QED  BY <2>6, <4>1, <4>2, <4>3
    <3> QED  BY <3>1, <3>2
  <2>11. Ranks(h, later)
    BY <2>6, <2>8, <2>10 DEF Ranks
  <2> QED  BY <2>1, <2>2, <2>6, <2>9, <2>11 DEF WellRanked
<1> QED  BY <1>1, <1>2

LEMMA EmptyRanked == WellRanked(EmptyGraph)
<1>1. DOMAIN EmptyGraph = {}
  BY DEF EmptyGraph
<1>2. IsFiniteSet({})
  BY FS_EmptySet
<1>3. Ranks(EmptyGraph, EmptyGraph)
  BY <1>1 DEF Ranks, EmptyGraph
<1> QED  BY <1>1, <1>2, <1>3 DEF WellRanked

\* However the versions are registered, in any number: none is cut off from a
\* root, a supported migration takes allowed transitions only, and the detector
\* of breaking changes and the rules say the same of any two versions.
THEOREM LineageIsLegal == FSpec => []PathsAreLegal
<1> DEFINE Inv == WellRanked(graph)
<1>1. FInit => Inv
  BY EmptyRanked DEF FInit
<1>2. Inv /\ [FNext]_fvars => Inv'
  <2> SUFFICES ASSUME WellRanked(graph), [FNext]_fvars PROVE WellRanked(graph')
    OBVIOUS
  <2>1. ASSUME NEW v \in Versions, NEW parents \in Parents, Register(v, parents)
        PROVE  WellRanked(graph')
    BY <2>1, RegisterRanked DEF Register
  <2>2. CASE UNCHANGED graph
    BY <2>2
  <2> QED  BY <2>1, <2>2 DEF FNext, BuildProposal, Vote, RecordTrace, GovernanceTick, fvars
<1>3. Inv => PathsAreLegal
  <2> SUFFICES ASSUME WellRanked(graph) PROVE PathsAreLegal
    OBVIOUS
  <2>1. ASSUME NEW from \in Versions, NEW to \in Versions, IsAllowedTransition(graph, from, to)
        PROVE  IsBackwardCompatible(from, to) \/ IsForwardCompatible(from, to)
    BY <2>1, RulesGiveADirection DEF IsAllowedTransition
  <2> QED  BY <2>1, NoOrphans, ReasonsAreRules, StepsAreTransitions DEF PathsAreLegal
<1> QED  BY <1>1, <1>2, <1>3, PTL DEF FSpec

-----------------------------------------------------------------------------
(* The timeline of a history *)

Traces == [event : Events, session : FedNodes, sequence : Nat, status : Statuses]

\* Of the traces at two positions the first goes before the second: by session
\* and number, and of two that tie the one given first.
Goes(t, i, j) == Earlier(t[i], t[j]) \/ (i < j /\ ~Earlier(t[j], t[i]))

\* The positions whose traces go before that of i, and how many they are.
Ahead(t, i) == {j \in DOMAIN t : j # i /\ Goes(t, j, i)}
Place(t, i) == Cardinality(Ahead(t, i))

LEMMA TraceNumbers ==
    ASSUME NEW t \in Seq(Traces), NEW i \in DOMAIN t
    PROVE  t[i] \in Traces /\ t[i].session \in Nat /\ t[i].sequence \in Nat
<1>1. t[i] \in Traces
  OBVIOUS
<1>2. t[i].session \in FedNodes /\ t[i].sequence \in Nat
  BY <1>1 DEF Traces
<1> QED  BY <1>1, <1>2, FederationAssumption

\* Positions come one before the other.
LEMMA GoesOrders ==
    ASSUME NEW t \in Seq(Traces)
    PROVE  /\ \A i \in DOMAIN t : ~Goes(t, i, i)
           /\ \A i, j \in DOMAIN t : Goes(t, i, j) => ~Goes(t, j, i)
           /\ \A i, j \in DOMAIN t : i # j => Goes(t, i, j) \/ Goes(t, j, i)
           /\ \A i, j, k \in DOMAIN t : Goes(t, i, j) /\ Goes(t, j, k) => Goes(t, i, k)
<1>1. ASSUME NEW i \in DOMAIN t PROVE i \in Nat /\ t[i].session \in Nat /\ t[i].sequence \in Nat
  BY TraceNumbers
<1> DEFINE s(i) == t[i].session
           q(i) == t[i].sequence
<1>2. ASSUME NEW i \in DOMAIN t, NEW j \in DOMAIN t
      PROVE  Goes(t, i, j) <=> \/ s(i) < s(j)
                               \/ s(i) = s(j) /\ q(i) < q(j)
                               \/ s(i) = s(j) /\ q(i) = q(j) /\ i < j
  BY <1>1 DEF Goes, Earlier
<1>3. \A i \in DOMAIN t : i \in Nat /\ s(i) \in Nat /\ q(i) \in Nat
  BY <1>1
<1> HIDE DEF s, q
<1>4. \A i \in DOMAIN t : ~Goes(t, i, i)
  BY <1>2, <1>3
<1>5. \A i, j \in DOMAIN t : Goes(t, i, j) => ~Goes(t, j, i)
  BY <1>2, <1>3
<1>6. \A i, j \in DOMAIN t : i # j => Goes(t, i, j) \/ Goes(t, j, i)
  BY <1>2, <1>3
<1>7. \A i, j, k \in DOMAIN t : Goes(t, i, j) /\ Goes(t, j, k) => Goes(t, i, k)
  BY <1>2, <1>3
<1> QED  BY <1>4, <1>5, <1>6, <1>7

LEMMA Ranges ==
    ASSUME NEW n \in Nat
    PROVE  /\ IsFiniteSet(1..n) /\ Cardinality(1..n) = n
           /\ IsFiniteSet(0..n - 1) /\ Cardinality(0..n - 1) = n
  BY FS_Interval

\* Each place of a history belongs to one position, in the order they go.
LEMMA PlacesAreTaken ==
    ASSUME NEW t \in Seq(Traces), NEW n \in Nat, n = Len(t)
    PROVE  /\ \A i \in 1..n : Place(t, i) \in Nat /\ IsFiniteSet(Ahead(t, i))
           /\ \A i, j \in 1..n : Goes(t, i, j) => Place(t, i) < Place(t, j)
           /\ \A i, j \in 1..n : Place(t, i) = Place(t, j) => i = j
           /\ \A k \in 1..n : \E i \in 1..n : Place(t, i) = k - 1
<1>0. DOMAIN t = 1..n
  OBVIOUS
<1> DEFINE P == 1..n
<1>1. IsFiniteSet(P) /\ Cardinality(P) = n
  BY Ranges
<1>2. IsFiniteSet(0..n - 1) /\ Cardinality(0..n - 1) = n
  BY Ranges
<1>3. \A k \in 1..n : k - 1 \in 0..n - 1
  OBVIOUS
<1>4. DOMAIN t = P
  BY <1>0
<1> HIDE DEF P
<1>5. ASSUME NEW i \in P PROVE Place(t, i) \in 0..n - 1 /\ IsFiniteSet(Ahead(t, i))
  <2>1. Ahead(t, i) \in SUBSET (P \ {i})
    BY <1>4 DEF Ahead
  <2>2. IsFiniteSet(P \ {i}) /\ Cardinality(P \ {i}) = n - 1
    BY <1>1, FS_RemoveElement
  <2>3. IsFiniteSet(Ahead(t, i)) /\ Place(t, i) <= n - 1
    BY <2>1, <2>2, FS_Subset DEF Place
  <2>4. Place(t, i) \in Nat
    BY <2>3, FS_CardinalityType DEF Place
  <2> QED  BY <2>3, <2>4
<1>6. ASSUME NEW i \in P, NEW j \in P, Goes(t, i, j)
      PROVE  Place(t, i) < Place(t, j)
  <2>1. Ahead(t, i) \in SUBSET Ahead(t, j)
    BY <1>4, <1>6, GoesOrders DEF Ahead
  <2>2. i \in Ahead(t, j) /\ i \notin Ahead(t, i)
    BY <1>4, <1>6, GoesOrders DEF Ahead
  <2>3. IsFiniteSet(Ahead(t, j))
    BY <1>5
  <2>4. Place(t, i) <= Place(t, j) /\ Place(t, i) # Place(t, j)
    BY <2>1, <2>2, <2>3, FS_Subset DEF Place
  <2>5. Place(t, i) \in Int /\ Place(t, j) \in Int
    BY <1>5
  <2> QED  BY <2>4, <2>5
<1>7. ASSUME NEW i \in P, NEW j \in P, Place(t, i) = Place(t, j) PROVE i = j
  <2> SUFFICES ASSUME i # j PROVE FALSE
    OBVIOUS
  <2>1. Goes(t, i, j) \/ Goes(t, j, i)
    BY <1>4, GoesOrders
  <2>2. Place(t, i) < Place(t, j) \/ Place(t, j) < Place(t, i)
    BY <2>1, <1>6
  <2>3. Place(t, i) \in Int
    BY <1>5
  <2> QED  BY <2>2, <2>3, <1>7
<1> DEFINE at == [i \in P |-> Place(t, i)]
<1>8. at \in Injection(P, 0..n - 1)
  BY <1>5, <1>7 DEF Injection, IsInjective
<1>9. at \in Surjection(P, 0..n - 1)
  BY <1>1, <1>2, <1>8, FS_Injection
<1>10. ASSUME NEW k \in 0..n - 1 PROVE \E i \in P : Place(t, i) = k
  BY <1>9 DEF Surjection
<1>11. \A i \in P : Place(t, i) \in Nat /\ IsFiniteSet(Ahead(t, i))
  BY <1>5
<1> QED  BY <1>3, <1>6, <1>7, <1>10, <1>11 DEF P

\* The position whose trace has a place, and the line the traces make.
At(t, k) == CHOOSE i \in DOMAIN t : Place(t, i) = k - 1

LEMMA TimelineAt ==
    ASSUME NEW t \in Seq(Traces), NEW n \in Nat, n = Len(t)
    PROVE  /\ Timeline(t) = [k \in 1..n |-> t[At(t, k)]]
           /\ \A k \in 1..n : At(t, k) \in 1..n /\ Place(t, At(t, k)) = k - 1
           /\ \A k \in 1..n - 1 : ~Earlier(Timeline(t)[k + 1], Timeline(t)[k])
<1>0. DOMAIN t = 1..n
  OBVIOUS
<1> DEFINE Precedes(i, j) == \/ Earlier(t[i], t[j])
                             \/ i < j /\ ~Earlier(t[j], t[i])
           Rank(i) == Cardinality({j \in DOMAIN t : j # i /\ Precedes(j, i)})
<1>1. Timeline(t) = [k \in DOMAIN t |-> t[CHOOSE i \in DOMAIN t : Rank(i) = k - 1]]
  BY Zenon DEF Timeline
<1>2. ASSUME NEW i PROVE Rank(i) = Place(t, i)
  BY Zenon DEF Place, Ahead, Goes
<1> HIDE DEF Rank
<1>3. \A k : (CHOOSE i \in DOMAIN t : Rank(i) = k - 1) = At(t, k)
  BY <1>2 DEF At
<1>4. Timeline(t) = [k \in 1..n |-> t[At(t, k)]]
  BY <1>0, <1>1, <1>3
<1>5. ASSUME NEW k \in 1..n PROVE At(t, k) \in 1..n /\ Place(t, At(t, k)) = k - 1
  <2>1. \E i \in DOMAIN t : Place(t, i) = k - 1
    BY <1>0, PlacesAreTaken
  <2>2. At(t, k) \in DOMAIN t /\ Place(t, At(t, k)) = k - 1
    BY <2>1 DEF At
  <2> QED  BY <2>2, <1>0
<1>6. ASSUME NEW k \in 1..n - 1 PROVE ~Earlier(Timeline(t)[k + 1], Timeline(t)[k])
  <2> SUFFICES ASSUME Earlier(Timeline(t)[k + 1], Timeline(t)[k]) PROVE FALSE
    OBVIOUS
  <2>1. k \in 1..n /\ k + 1 \in 1..n /\ k \in Int
    OBVIOUS
  <2>2. Goes(t, At(t, k + 1), At(t, k))
    BY <2>1, <1>4 DEF Goes
  <2>3. /\ At(t, k) \in 1..n /\ Place(t, At(t, k)) = k - 1
        /\ At(t, k + 1) \in 1..n /\ Place(t, At(t, k + 1)) = k + 1 - 1
    BY <2>1, <1>5
  <2>4. Place(t, At(t, k + 1)) < Place(t, At(t, k))
    BY <2>2, <2>3, PlacesAreTaken
  <2> QED  BY <2>1, <2>3, <2>4
<1> QED  BY <1>4, <1>5, <1>6

\* A reordering has the same traces.
LEMMA ReorderedTraces ==
    ASSUME NEW n \in Nat, history \in Seq(Traces), n = Len(history), NEW p \in Reorderings
    PROVE  /\ p \in [1..n -> 1..n]
           /\ \A i, j \in 1..n : p[i] = p[j] => i = j
           /\ \A j \in 1..n : \E i \in 1..n : p[i] = j
           /\ Reordered(p) \in Seq(Traces) /\ Len(Reordered(p)) = n
           /\ \A i \in 1..n : Reordered(p)[i] = history[p[i]]
           /\ ToSet(Reordered(p)) = ToSet(history)
<1>1. DOMAIN history = 1..n
  OBVIOUS
<1>2. p \in [1..n -> 1..n] /\ \A i, j \in 1..n : p[i] = p[j] => i = j
  BY <1>1 DEF Reorderings, IsInjective
<1>3. IsFiniteSet(1..n)
  BY FS_Interval
<1>4. p \in Injection(1..n, 1..n)
  BY <1>2 DEF Injection, IsInjective
<1>5. p \in Surjection(1..n, 1..n)
  BY <1>3, <1>4, FS_Injection
<1>6. \A j \in 1..n : \E i \in 1..n : p[i] = j
  BY <1>5 DEF Surjection
<1>7. Reordered(p) = [i \in 1..n |-> history[p[i]]]
  BY <1>1 DEF Reordered
<1>8. \A i \in 1..n : history[i] \in Traces
  OBVIOUS
<1>9. Reordered(p) \in [1..n -> Traces]
  BY <1>2, <1>7, <1>8
<1>10. Reordered(p) \in Seq(Traces) /\ Len(Reordered(p)) = n
  BY <1>9
<1>11. /\ \A i \in 1..n : Reordered(p)[i] = history[p[i]]
       /\ DOMAIN Reordered(p) = 1..n
  BY <1>7
<1>12. ToSet(Reordered(p)) \subseteq ToSet(history)
  BY <1>1, <1>2, <1>11 DEF ToSet
<1>13. ToSet(history) \subseteq ToSet(Reordered(p))
  <2> SUFFICES ASSUME NEW x \in ToSet(history) PROVE x \in ToSet(Reordered(p))
    OBVIOUS
  <2>1. PICK j \in 1..n : history[j] = x
    BY <1>1 DEF ToSet
  <2>2. PICK i \in 1..n : p[i] = j
    BY <1>6
  <2>3. Reordered(p)[i] = x
    BY <1>11, <2>1, <2>2
  <2> QED  BY <1>11, <2>3 DEF ToSet
<1> QED  BY <1>2, <1>6, <1>10, <1>11, <1>12, <1>13

\* It makes the same line if it keeps the order of ties.
LEMMA OneLine ==
    ASSUME NEW n \in Nat, history \in Seq(Traces), n = Len(history), NEW p \in Reorderings,
           KeepsTies(p)
    PROVE  Timeline(Reordered(p)) = Timeline(history)
<1> DEFINE t == Reordered(p)
<1>1. /\ p \in [1..n -> 1..n]
      /\ \A i, j \in 1..n : p[i] = p[j] => i = j
      /\ \A j \in 1..n : \E i \in 1..n : p[i] = j
      /\ t \in Seq(Traces) /\ Len(t) = n
      /\ \A i \in 1..n : t[i] = history[p[i]]
  BY ReorderedTraces
<1>2. DOMAIN t = 1..n /\ DOMAIN history = 1..n
  BY <1>1
<1>3. \A i, j \in 1..n : i < j /\ Tie(history[p[i]], history[p[j]]) => p[i] < p[j]
  BY <1>2 DEF KeepsTies
<1> HIDE DEF t
<1>4. ASSUME NEW i \in 1..n, NEW j \in 1..n
      PROVE  Goes(t, i, j) <=> Goes(history, p[i], p[j])
  <2>1. t[i] = history[p[i]] /\ t[j] = history[p[j]] /\ p[i] \in 1..n /\ p[j] \in 1..n
    BY <1>1
  <2> DEFINE x == history[p[i]]
             y == history[p[j]]
  <2>2. x.session \in Nat /\ x.sequence \in Nat /\ y.session \in Nat /\ y.sequence \in Nat
    BY <2>1, <1>2, TraceNumbers
  <2>3. i < j /\ Tie(x, y) => p[i] < p[j]
    BY <1>3
  <2>4. j < i /\ Tie(y, x) => p[j] < p[i]
    BY <1>3
  <2>5. i = j <=> p[i] = p[j]
    BY <1>1
  <2>6. Goes(t, i, j) <=> Earlier(x, y) \/ (i < j /\ ~Earlier(y, x))
    BY <2>1 DEF Goes
  <2>7. Goes(history, p[i], p[j]) <=> Earlier(x, y) \/ (p[i] < p[j] /\ ~Earlier(y, x))
    BY DEF Goes
  <2> HIDE DEF x, y
  <2>8. CASE Earlier(x, y) \/ Earlier(y, x)
    BY <2>6, <2>7, <2>8, <2>2 DEF Earlier
  <2>9. CASE ~Earlier(x, y) /\ ~Earlier(y, x)
    <3>1. Tie(x, y) /\ Tie(y, x)
      BY <2>2, <2>9 DEF Earlier, Tie
    <3>2. i < j <=> p[i] < p[j]
      BY <3>1, <2>1, <2>3, <2>4, <2>5
    <3> QED  BY <3>2, <2>6, <2>7, <2>9
  <2> QED  BY <2>8, <2>9
<1>5. ASSUME NEW i \in 1..n PROVE Place(t, i) = Place(history, p[i])
  <2>0. p[i] \in 1..n
    BY <1>1
  <2>1. ASSUME NEW j \in 1..n PROVE j \in Ahead(t, i) <=> p[j] \in Ahead(history, p[i])
    <3>1. p[j] \in 1..n /\ (p[j] = p[i] <=> j = i)
      BY <1>1
    <3> QED  BY <3>1, <1>2, <1>4 DEF Ahead
  <2>2. Ahead(t, i) \subseteq 1..n /\ Ahead(history, p[i]) \subseteq 1..n
    BY <1>2 DEF Ahead
  <2> DEFINE to == [j \in Ahead(t, i) |-> p[j]]
  <2>3. to \in [Ahead(t, i) -> Ahead(history, p[i])]
    BY <2>1, <2>2
  <2>4. to \in Injection(Ahead(t, i), Ahead(history, p[i]))
    BY <2>2, <2>3, <1>1 DEF Injection, IsInjective
  <2>5. ASSUME NEW m \in Ahead(history, p[i]) PROVE \E j \in Ahead(t, i) : to[j] = m
    <3>1. PICK j \in 1..n : p[j] = m
      BY <2>2, <1>1
    <3> QED  BY <3>1, <2>1
  <2>6. to \in Surjection(Ahead(t, i), Ahead(history, p[i]))
    BY <2>3, <2>5 DEF Surjection
  <2>7. IsFiniteSet(Ahead(history, p[i]))
    BY <2>0, PlacesAreTaken
  <2> QED  BY <2>4, <2>6, <2>7, FS_Injection DEF Place
<1>6. /\ Timeline(t) = [k \in 1..n |-> t[At(t, k)]]
      /\ \A k \in 1..n : At(t, k) \in 1..n /\ Place(t, At(t, k)) = k - 1
  BY <1>1, TimelineAt
<1>7. /\ Timeline(history) = [k \in 1..n |-> history[At(history, k)]]
      /\ \A k \in 1..n : At(history, k) \in 1..n /\ Place(history, At(history, k)) = k - 1
  BY TimelineAt
<1>8. ASSUME NEW k \in 1..n PROVE t[At(t, k)] = history[At(history, k)]
  <2>1. At(t, k) \in 1..n /\ p[At(t, k)] \in 1..n /\ Place(history, p[At(t, k)]) = k - 1
    BY <1>1, <1>5, <1>6
  <2>2. \A i, j \in 1..n : Place(history, i) = Place(history, j) => i = j
    BY PlacesAreTaken
  <2>3. At(history, k) \in 1..n /\ Place(history, At(history, k)) = k - 1
    BY <1>7
  <2>4. p[At(t, k)] = At(history, k)
    BY <2>1, <2>2, <2>3
  <2> QED  BY <2>1, <2>4, <1>1
<1>9. Timeline(t) = Timeline(history)
  BY <1>6, <1>7, <1>8
<1> QED  BY <1>9 DEF t

\* An order of a finite set lists it.
LEMMA OrderLists ==
    ASSUME NEW U, IsFiniteSet(U), NEW n \in Nat, Cardinality(U) = n, NEW o \in SetToSeqs(U)
    PROVE  /\ o \in [1..n -> U]
           /\ \A i, j \in 1..n : i # j => o[i] # o[j]
           /\ \A u \in U : \E i \in 1..n : o[i] = u
           /\ ToSet(o) = U
<1>1. /\ o \in [1..n -> U]
      /\ \A i, j \in 1..n : i # j => o[i] # o[j]
  BY DEF SetToSeqs
<1>2. IsFiniteSet(1..n) /\ Cardinality(1..n) = n
  BY FS_Interval
<1>3. o \in Injection(1..n, U)
  BY <1>1 DEF Injection, IsInjective
<1>4. o \in Surjection(1..n, U)
  BY <1>2, <1>3, FS_Injection
<1>5. \A u \in U : \E i \in 1..n : o[i] = u
  BY <1>4 DEF Surjection
<1>6. ToSet(o) = U
  BY <1>1, <1>5 DEF ToSet
<1> QED  BY <1>1, <1>5, <1>6

\* A non-empty set of positions has a last one.
LEMMA LastPosition ==
    ASSUME NEW n \in Nat, NEW S, S \subseteq 1..n, S # {}
    PROVE  Max(S) \in S
<1> DEFINE Above == {k \in 0..n : \A x \in S : x <= k}
<1>1. n \in Above /\ Above \subseteq Nat
  OBVIOUS
<1>2. PICK m \in Above : \A k \in Above : m <= k
  <2> HIDE DEF Above
  <2> QED  BY <1>1, LeastNat
<1>3. m \in S
  <2> SUFFICES ASSUME m \notin S PROVE FALSE
    OBVIOUS
  <2>1. ASSUME NEW x \in S PROVE x <= m - 1 /\ 1 <= m
    BY <1>2, <2>1
  <2>2. PICK y \in S : TRUE
    OBVIOUS
  <2>3. m - 1 \in 0..n /\ m \in Nat
    BY <2>1, <2>2, <1>2
  <2>4. m - 1 \in Above
    BY <2>1, <2>3
  <2> QED  BY <2>3, <2>4, <1>2
<1>4. \A y \in S : m >= y
  BY <1>2
<1> QED  BY <1>3, <1>4 DEF Max

\* What a rewind of any order of a history gives.
LEMMA RewindsToPrefix == ASSUME history \in Seq(Traces) PROVE RewindIsPrefix
<1> DEFINE n == Len(history)
           U == ToSet(history)
<1>1. n \in Nat /\ DOMAIN history = 1..n /\ history \in [1..n -> U]
  BY DEF ToSet
<1> SUFFICES ASSUME NEW p \in Reorderings
             PROVE  LET traces == Reordered(p)
                        line == Timeline(traces)
                    IN  /\ \A k \in 1..n - 1 : ~Earlier(line[k + 1], line[k])
                        /\ \A time \in 0..n - 1 :
                            LET back == Rewind(time, traces)
                            IN  /\ Len(back) = time + 1
                                /\ \A k \in DOMAIN back : back[k].event = line[k].event
                                /\ IsInjective([i \in DOMAIN history |-> history[i].event]) =>
                                       back = SubSeq(line, 1, time + 1)
                        /\ KeepsTies(p) => /\ ReplayHash(traces) = ReplayHash(history)
                                           /\ SameHistory(history, traces)
  BY DEF RewindIsPrefix
<1> DEFINE traces == Reordered(p)
           line == Timeline(traces)
<1>2. /\ traces \in Seq(Traces) /\ Len(traces) = n /\ DOMAIN traces = 1..n
      /\ ToSet(traces) = U
  <2>1. traces \in Seq(Traces) /\ Len(traces) = n /\ ToSet(traces) = U
    BY <1>1, ReorderedTraces
  <2> HIDE DEF n, traces, U
  <2> QED  BY <2>1
<1>3. /\ line = [k \in 1..n |-> traces[At(traces, k)]]
      /\ \A k \in 1..n : At(traces, k) \in 1..n
      /\ \A k \in 1..n - 1 : ~Earlier(line[k + 1], line[k])
  BY <1>1, <1>2, TimelineAt
<1>4. ASSUME NEW k \in 1..n PROVE line[k] \in U
  BY <1>2, <1>3 DEF ToSet
<1>5. DOMAIN line = 1..n /\ line \in Seq(U) /\ Len(line) = n
  BY <1>1, <1>3, <1>4
<1>6. KeepsTies(p) => line = Timeline(history)
  BY <1>1, OneLine
<1> HIDE DEF n, U, traces, line
<1>7. KeepsTies(p) => ReplayHash(traces) = ReplayHash(history) /\ SameHistory(history, traces)
  BY <1>2, <1>6 DEF ReplayHash, SameHistory, U, line
<1>8. ASSUME NEW t \in U PROVE TraceOf(traces, t.event) \in U /\ TraceOf(traces, t.event).event = t.event
  <2> DEFINE S == {i \in DOMAIN traces : traces[i].event = t.event}
  <2>1. PICK i \in 1..n : traces[i] = t
    BY <1>2 DEF ToSet
  <2>2. S \subseteq 1..n /\ S # {}
    BY <2>1, <1>2
  <2>3. Max(S) \in S
    BY <2>2, <1>1, LastPosition
  <2>4. TraceOf(traces, t.event) = traces[Max(S)]
    BY DEF TraceOf
  <2> QED  BY <2>3, <2>4, <1>2 DEF ToSet
<1>9. ASSUME NEW time \in 0..n - 1
      PROVE  /\ Len(Rewind(time, traces)) = time + 1
             /\ \A k \in DOMAIN Rewind(time, traces) :
                    Rewind(time, traces)[k].event = line[k].event
             /\ IsInjective([i \in DOMAIN history |-> history[i].event]) =>
                    Rewind(time, traces) = SubSeq(line, 1, time + 1)
  <2> DEFINE back == Rewind(time, traces)
  <2>1. time + 1 \in Nat /\ time + 1 <= n
    BY <1>1
  <2>2. Min({time + 1, n}) = time + 1
    BY <2>1, <1>1 DEF Min
  <2>3. back = [k \in 1..time + 1 |-> TraceOf(traces, line[k].event)]
    BY <2>2, <1>5 DEF Rewind, line
  <2> HIDE DEF back
  <2>4. ASSUME NEW k \in 1..time + 1 PROVE k \in 1..n /\ line[k] \in U
    BY <2>1, <1>1, <1>4
  <2>5. back \in Seq(U) /\ Len(back) = time + 1 /\ DOMAIN back = 1..time + 1
    BY <2>1, <2>3, <2>4, <1>8
  <2>6. ASSUME NEW k \in 1..time + 1 PROVE back[k].event = line[k].event
    BY <2>3, <2>4, <1>8
  <2>7. ASSUME IsInjective([i \in DOMAIN history |-> history[i].event])
        PROVE  back = SubSeq(line, 1, time + 1)
    <3>1. ASSUME NEW t \in U, NEW u \in U, t.event = u.event PROVE t = u
      <4>1. PICK i \in 1..n : history[i] = t
        BY <1>1 DEF ToSet, U
      <4>2. PICK j \in 1..n : history[j] = u
        BY <1>1 DEF ToSet, U
      <4> QED  BY <4>1, <4>2, <3>1, <2>7, <1>1 DEF IsInjective
    <3>2. SubSeq(line, 1, time + 1) = [k \in 1..time + 1 |-> line[k]]
      BY <1>5, <2>1, SubSeqProperties
    <3>3. ASSUME NEW k \in 1..time + 1 PROVE TraceOf(traces, line[k].event) = line[k]
      BY <2>4, <1>8, <3>1
    <3> QED  BY <3>2, <3>3, <2>3
  <2> QED  BY <2>5, <2>6, <2>7 DEF back
<1> QED  BY <1>3, <1>7, <1>9 DEF traces, line

\* Of a history of any length, in any order the traces are given in and whatever
\* numbers they carry, a rewind gives the beginning of a timeline in order; two
\* orders that keep the traces which tie as they were replay to one hash.
THEOREM HistoryRewinds == FSpec => []RewindIsPrefix
<1> DEFINE Inv == history \in Seq(Traces)
<1>1. FInit => Inv
  BY DEF FInit
<1>2. Inv /\ [FNext]_fvars => Inv'
  <2> SUFFICES ASSUME history \in Seq(Traces), [FNext]_fvars PROVE history' \in Seq(Traces)
    OBVIOUS
  <2>1. ASSUME NEW s \in FedNodes, NEW e \in Events, NEW m \in Numbers, NEW status \in Statuses,
               RecordTrace(s, e, m, status)
        PROVE  history' \in Seq(Traces)
    <3>1. m \in Nat
      BY FederationAssumption
    <3>2. [event |-> e, session |-> s, sequence |-> m, status |-> status] \in Traces
      BY <3>1 DEF Traces
    <3> QED  BY <2>1, <3>2, AppendProperties DEF RecordTrace
  <2>2. CASE UNCHANGED history
    BY <2>2
  <2> QED  BY <2>1, <2>2 DEF FNext, Register, BuildProposal, Vote, GovernanceTick, fvars
<1>3. Inv => RewindIsPrefix
  BY RewindsToPrefix
<1> QED  BY <1>1, <1>2, <1>3, PTL DEF FSpec

-----------------------------------------------------------------------------
(* Sums over a finite set, and the greatest of a list of integers *)

Pick(T) == CHOOSE x \in T : TRUE

\* The function by which a sum of f over subsets of S is defined.
Sums(it, f, S) ==
    it = [T \in SUBSET S |-> IF T = {} THEN 0 ELSE f[Pick(T)] + it[T \ {Pick(T)}]]

LEMMA SumIsInt ==
    ASSUME NEW S, IsFiniteSet(S), NEW f \in [S -> Int]
    PROVE  /\ \E it : Sums(it, f, S)
           /\ \A it : Sums(it, f, S) => it[S] \in Int
<1> DEFINE n == Cardinality(S)
<1>1. n \in Nat
  BY FS_CardinalityType
<1>2. ASSUME NEW T \in SUBSET S
      PROVE  /\ IsFiniteSet(T) /\ Cardinality(T) \in 0..n
             /\ T = {} => Cardinality(T) = 0
             /\ T # {} => /\ Pick(T) \in T /\ f[Pick(T)] \in Int
                          /\ T \ {Pick(T)} \in SUBSET S
                          /\ Cardinality(T) \in 1..n
                          /\ Cardinality(T \ {Pick(T)}) = Cardinality(T) - 1
  <2>1. IsFiniteSet(T) /\ Cardinality(T) <= n
    BY FS_Subset
  <2>2. Cardinality(T) \in Nat /\ (Cardinality(T) = 0 <=> T = {})
    BY <2>1, FS_CardinalityType, FS_EmptySet
  <2>3. CASE T = {}
    BY <2>1, <2>2, <2>3, <1>1
  <2>4. CASE T # {}
    <3>1. Pick(T) \in T
      BY <2>4 DEF Pick
    <3>2. f[Pick(T)] \in Int
      BY <3>1
    <3>3. Cardinality(T \ {Pick(T)}) = Cardinality(T) - 1
      BY <3>1, <2>1, FS_RemoveElement
    <3> HIDE DEF n
    <3> QED  BY <3>1, <3>2, <3>3, <2>1, <2>2, <2>4, <1>1
  <2> QED  BY <2>3, <2>4
<1> HIDE DEF n
<1>3. \E it : Sums(it, f, S)
  <2> DEFINE X == [SUBSET S -> Int]
             base == [T \in SUBSET S |-> 0]
             step == [F \in X |-> [T \in SUBSET S |->
                         IF T = {} THEN 0 ELSE f[Pick(T)] + F[T \ {Pick(T)}]]]
             fs == [i \in 1..n |-> step]
  <2>1. base \in X
    OBVIOUS
  <2>2. step \in [X -> X]
    <3>1. ASSUME NEW F \in X, NEW T \in SUBSET S
          PROVE  (IF T = {} THEN 0 ELSE f[Pick(T)] + F[T \ {Pick(T)}]) \in Int
      <4>1. CASE T = {}
        BY <4>1
      <4>2. CASE T # {}
        <5>1. F[T \ {Pick(T)}] \in Int /\ f[Pick(T)] \in Int
          BY <4>2, <1>2
        <5> QED  BY <4>2, <5>1
      <4> QED  BY <4>1, <4>2
    <3> QED  BY <3>1
  <2>3. fs \in [1..n -> [X -> X]]
    BY <2>2
  <2>4. ASSUME NEW i \in 1..n, NEW F \in X, NEW T \in SUBSET S
        PROVE  fs[i][F][T] = IF T = {} THEN 0 ELSE f[Pick(T)] + F[T \ {Pick(T)}]
    OBVIOUS
  <2>5. base[{}] = 0
    OBVIOUS
  <2> HIDE DEF X, base, step, fs
  <2>6. PICK F \in [0..n -> X] : Recurses(F, base, fs, n)
    BY <2>1, <2>3, <1>1, RecursionExists
  <2> DEFINE it == [T \in SUBSET S |-> F[Cardinality(T)][T]]
  <2>7. ASSUME NEW T \in SUBSET S
        PROVE  F[Cardinality(T)][T] = IF T = {} THEN 0 ELSE f[Pick(T)] + it[T \ {Pick(T)}]
    <3>1. CASE T = {}
      <4>1. F[0] = base
        BY <2>6 DEF Recurses
      <4> QED  BY <3>1, <4>1, <2>5, <1>2
    <3>2. CASE T # {}
      <4> DEFINE m == Cardinality(T)
                 rest == T \ {Pick(T)}
      <4>1. m \in 1..n /\ m - 1 \in 0..n /\ rest \in SUBSET S /\ Cardinality(rest) = m - 1
        <5>1. m \in 1..n /\ rest \in SUBSET S /\ Cardinality(rest) = m - 1
          BY <3>2, <1>2
        <5> HIDE DEF m
        <5> QED  BY <5>1, <1>1
      <4>2. F[m] = fs[m][F[m - 1]] /\ F[m - 1] \in X
        BY <4>1, <2>6 DEF Recurses
      <4>3. it[rest] = F[m - 1][rest]
        BY <4>1
      <4> HIDE DEF m, it
      <4>4. F[m][T] = f[Pick(T)] + F[m - 1][rest]
        <5>1. F[m][T] = fs[m][F[m - 1]][T]
          BY <4>2
        <5>2. fs[m][F[m - 1]][T]
                = IF T = {} THEN 0 ELSE f[Pick(T)] + F[m - 1][T \ {Pick(T)}]
          BY <4>1, <4>2, <2>4
        <5> QED  BY <5>1, <5>2, <3>2
      <4> QED  BY <4>3, <4>4, <3>2 DEF m
    <3> QED  BY <3>1, <3>2
  <2>8. Sums(it, f, S)
    BY <2>7 DEF Sums
  <2> QED  BY <2>8
<1>4. ASSUME NEW it, Sums(it, f, S) PROVE it[S] \in Int
  <2> DEFINE Bad == {k \in 0..n : \E T \in SUBSET S : Cardinality(T) = k /\ it[T] \notin Int}
  <2>1. ASSUME NEW T \in SUBSET S
        PROVE  it[T] = IF T = {} THEN 0 ELSE f[Pick(T)] + it[T \ {Pick(T)}]
    BY <1>4, Zenon DEF Sums
  <2>2. Bad = {}
    <3> SUFFICES ASSUME Bad # {} PROVE FALSE
      OBVIOUS
    <3>1. Bad \subseteq Nat
      OBVIOUS
    <3>2. PICK m \in Bad : \A k \in Bad : m <= k
      <4> HIDE DEF Bad
      <4> QED  BY <3>1, LeastNat
    <3>3. PICK T \in SUBSET S : Cardinality(T) = m /\ it[T] \notin Int
      OBVIOUS
    <3>4. T # {}
      <4>1. {} \in SUBSET S
        OBVIOUS
      <4>2. it[{}] = 0
        BY <4>1, <2>1
      <4> HIDE DEF Bad
      <4>3. 0 \in Int
        OBVIOUS
      <4> QED  BY <4>2, <4>3, <3>3, Zenon
    <3> DEFINE rest == T \ {Pick(T)}
    <3>5. rest \in SUBSET S /\ Cardinality(rest) = m - 1 /\ m \in 1..n /\ f[Pick(T)] \in Int
      BY <3>3, <3>4, <1>2
    <3>6. it[T] = f[Pick(T)] + it[rest]
      BY <3>4, <2>1
    <3> HIDE DEF rest
    <3>7. it[rest] \notin Int
      BY <3>3, <3>5, <3>6
    <3>8. m - 1 \in 0..n
      BY <3>5, <1>1
    <3>9. m - 1 \in Bad
      BY <3>5, <3>7, <3>8
    <3>10. m \in Int /\ ~ (m <= m - 1)
      BY <3>5
    <3> QED  BY <3>2, <3>9, <3>10
  <2>3. S \in SUBSET S /\ n \in 0..n
    BY <1>1
  <2> QED  BY <2>2, <2>3 DEF n
<1> QED  BY <1>3, <1>4

LEMMA Greatest ==
    ASSUME NEW n \in Nat \ {0}, NEW f \in [1..n -> Int]
    PROVE  \E i \in 1..n : \A j \in 1..n : f[i] >= f[j]
<1> DEFINE Bad == {k \in 1..n : ~ \E i \in 1..k : \A j \in 1..k : f[i] >= f[j]}
<1>1. n \in 1..n
  OBVIOUS
<1> SUFFICES ASSUME Bad # {} PROVE FALSE
  BY <1>1
<1>2. PICK m \in Bad : \A k \in Bad : m <= k
  <2>1. Bad \subseteq Nat
    OBVIOUS
  <2> HIDE DEF Bad
  <2> QED  BY <2>1, LeastNat
<1>3. m \in 1..n /\ ~ \E i \in 1..m : \A j \in 1..m : f[i] >= f[j]
  OBVIOUS
<1>4. m # 1
  <2> SUFFICES ASSUME m = 1 PROVE FALSE
    OBVIOUS
  <2>1. f[1] \in Int /\ f[1] >= f[1] /\ \A j \in 1..1 : j = 1
    OBVIOUS
  <2> QED  BY <2>1, <1>3
<1>5. m - 1 \in 1..n /\ ~ (m <= m - 1)
  BY <1>3, <1>4
<1>6. m - 1 \notin Bad
  <2> HIDE DEF Bad
  <2> QED  BY <1>2, <1>5
<1>7. PICK i \in 1..m - 1 : \A j \in 1..m - 1 : f[i] >= f[j]
  BY <1>5, <1>6
<1> HIDE DEF Bad
<1>8. f[i] \in Int /\ f[m] \in Int /\ i \in 1..m /\ m \in 1..m
  BY <1>3, <1>7
<1>9. ASSUME NEW j \in 1..m PROVE (j \in 1..m - 1 \/ j = m) /\ f[j] \in Int
  BY <1>3
<1>10. CASE f[i] >= f[m]
  BY <1>3, <1>7, <1>8, <1>9, <1>10
<1>11. CASE f[m] > f[i]
  <2>1. ASSUME NEW j \in 1..m PROVE f[m] >= f[j]
    BY <1>7, <1>8, <1>9, <1>11
  <2> QED  BY <2>1, <1>3, <1>8
<1> QED  BY <1>8, <1>10, <1>11

-----------------------------------------------------------------------------
(* What a vote reads of the proposals *)

Ballot == [node : FedNodes, version : Versions, stability : Nat, confidence : Nat]

\* The proposals of a vote, one of each node.
Electorate(P) ==
    /\ IsFiniteSet(P) /\ P \subseteq Ballot
    /\ \A p, q \in P : p.node = q.node => p = q

\* The sums over a group, and over the versions, that means and costs are made of.
WeightSum(g, cur, G) ==
    (CHOOSE it : it = [T \in SUBSET G |-> IF T = {} THEN 0
                         ELSE Weight(g, cur, Pick(T)) + it[T \ {Pick(T)}]])[G]
StabilitySum(G) ==
    (CHOOSE it : it = [T \in SUBSET G |-> IF T = {} THEN 0
                         ELSE Pick(T).stability + it[T \ {Pick(T)}]])[G]
CostOf(g, u, v) ==
    IF u = v \/ IsBackwardCompatible(u, v) THEN 0
    ELSE IF IsSupported(g, u, v) THEN Len(Steps(g, u, v))
    ELSE 10
CostSum(g, v, G) ==
    (CHOOSE it : it = [T \in SUBSET G |-> IF T = {} THEN 0
                         ELSE CostOf(g, Pick(T), v) + it[T \ {Pick(T)}]])[G]

LEMMA MeanWeightIs ==
    ASSUME NEW g, NEW cur, NEW ps, NEW v
    PROVE  MeanWeight(g, cur, ps, v)
             = (Parts * WeightSum(g, cur, Group(ps, v))) \div Cardinality(Group(ps, v))
BY Zenon DEF MeanWeight, Mean, MapThenSumSet, MapThenFoldSet, WeightSum, Pick

LEMMA CostIs ==
    ASSUME NEW g, NEW strategy, NEW ps, NEW v
    PROVE  Cost(g, strategy, ps, v)
             = IF strategy = "STABILITY_PRIORITY"
               THEN -((Parts * StabilitySum(Group(ps, v))) \div Cardinality(Group(ps, v)))
               ELSE CostSum(g, v, Groups(ps))
BY Zenon DEF Cost, MigrationCost, Mean, MapThenSumSet, MapThenFoldSet, StabilitySum, CostSum,
             CostOf, Pick

\* Each of the sums is an integer.
LEMMA WeightSumIsInt ==
    ASSUME NEW g, NEW cur, NEW G, IsFiniteSet(G), \A p \in G : Weight(g, cur, p) \in Int
    PROVE  WeightSum(g, cur, G) \in Int
<1> DEFINE f == [p \in G |-> Weight(g, cur, p)]
           Eq(it) == it = [T \in SUBSET G |-> IF T = {} THEN 0
                             ELSE Weight(g, cur, Pick(T)) + it[T \ {Pick(T)}]]
<1>1. f \in [G -> Int]
  OBVIOUS
<1>2. ASSUME NEW it PROVE Eq(it) <=> Sums(it, f, G)
  <2>1. ASSUME NEW T \in SUBSET G
        PROVE  (IF T = {} THEN 0 ELSE Weight(g, cur, Pick(T)) + it[T \ {Pick(T)}])
                 = (IF T = {} THEN 0 ELSE f[Pick(T)] + it[T \ {Pick(T)}])
    BY DEF Pick
  <2> HIDE DEF f
  <2> QED  BY <2>1 DEF Sums
<1> HIDE DEF f
<1>3. \E it : Eq(it)
  BY <1>1, <1>2, SumIsInt
<1>4. Eq(CHOOSE it : Eq(it))
  <2> HIDE DEF Eq
  <2> QED  BY <1>3, Zenon
<1>5. Sums(CHOOSE it : Eq(it), f, G)
  <2> HIDE DEF Eq
  <2> QED  BY <1>2, <1>4, Zenon
<1>6. (CHOOSE it : Eq(it))[G] \in Int
  <2> HIDE DEF Eq
  <2> QED  BY <1>1, <1>5, SumIsInt
<1> QED  BY <1>6 DEF WeightSum

LEMMA StabilitySumIsInt ==
    ASSUME NEW G, IsFiniteSet(G), \A p \in G : p.stability \in Int
    PROVE  StabilitySum(G) \in Int
<1> DEFINE f == [p \in G |-> p.stability]
           Eq(it) == it = [T \in SUBSET G |-> IF T = {} THEN 0
                             ELSE Pick(T).stability + it[T \ {Pick(T)}]]
<1>1. f \in [G -> Int]
  OBVIOUS
<1>2. ASSUME NEW it PROVE Eq(it) <=> Sums(it, f, G)
  <2>1. ASSUME NEW T \in SUBSET G
        PROVE  (IF T = {} THEN 0 ELSE Pick(T).stability + it[T \ {Pick(T)}])
                 = (IF T = {} THEN 0 ELSE f[Pick(T)] + it[T \ {Pick(T)}])
    BY DEF Pick
  <2> HIDE DEF f
  <2> QED  BY <2>1 DEF Sums
<1> HIDE DEF f
<1>3. \E it : Eq(it)
  BY <1>1, <1>2, SumIsInt
<1>4. Eq(CHOOSE it : Eq(it))
  <2> HIDE DEF Eq
  <2> QED  BY <1>3, Zenon
<1>5. Sums(CHOOSE it : Eq(it), f, G)
  <2> HIDE DEF Eq
  <2> QED  BY <1>2, <1>4, Zenon
<1>6. (CHOOSE it : Eq(it))[G] \in Int
  <2> HIDE DEF Eq
  <2> QED  BY <1>1, <1>5, SumIsInt
<1> QED  BY <1>6 DEF StabilitySum

LEMMA CostSumIsInt ==
    ASSUME NEW g, WellRanked(g), NEW v, NEW G, IsFiniteSet(G)
    PROVE  CostSum(g, v, G) \in Int
<1> DEFINE f == [u \in G |-> CostOf(g, u, v)]
           Eq(it) == it = [T \in SUBSET G |-> IF T = {} THEN 0
                             ELSE CostOf(g, Pick(T), v) + it[T \ {Pick(T)}]]
<1>1. f \in [G -> Int]
  <2>1. ASSUME NEW u \in G PROVE CostOf(g, u, v) \in Int
    <3>1. CASE u = v \/ IsBackwardCompatible(u, v)
      BY <3>1 DEF CostOf
    <3>2. CASE ~ (u = v \/ IsBackwardCompatible(u, v)) /\ IsSupported(g, u, v)
      <4>1. Len(Steps(g, u, v)) \in Nat
        BY <3>2, StepsAreCounted
      <4> QED  BY <3>2, <4>1 DEF CostOf
    <3>3. CASE ~ (u = v \/ IsBackwardCompatible(u, v)) /\ ~ IsSupported(g, u, v)
      BY <3>3 DEF CostOf
    <3> QED  BY <3>1, <3>2, <3>3
  <2> QED  BY <2>1
<1>2. ASSUME NEW it PROVE Eq(it) <=> Sums(it, f, G)
  <2>1. ASSUME NEW T \in SUBSET G
        PROVE  (IF T = {} THEN 0 ELSE CostOf(g, Pick(T), v) + it[T \ {Pick(T)}])
                 = (IF T = {} THEN 0 ELSE f[Pick(T)] + it[T \ {Pick(T)}])
    BY DEF Pick
  <2> HIDE DEF f
  <2> QED  BY <2>1 DEF Sums
<1> HIDE DEF f
<1>3. \E it : Eq(it)
  BY <1>1, <1>2, SumIsInt
<1>4. Eq(CHOOSE it : Eq(it))
  <2> HIDE DEF Eq
  <2> QED  BY <1>3, Zenon
<1>5. Sums(CHOOSE it : Eq(it), f, G)
  <2> HIDE DEF Eq
  <2> QED  BY <1>2, <1>4, Zenon
<1>6. (CHOOSE it : Eq(it))[G] \in Int
  <2> HIDE DEF Eq
  <2> QED  BY <1>1, <1>5, SumIsInt
<1> QED  BY <1>6 DEF CostSum

\* How near a version is to the current one is a number.
LEMMA FreshnessIsInt ==
    ASSUME NEW g, WellRanked(g), NEW cur, NEW v
    PROVE  GraphFreshness(g, cur, v) \in Int
<1> DEFINE up == GetAncestors(g, cur)
           i == IndexIn(up, v)
<1>1. CASE v \in ToSet(up)
  <2>1. cur \in DOMAIN g
    <3> SUFFICES ASSUME cur \notin DOMAIN g PROVE FALSE
      OBVIOUS
    <3>1. up = <<>>
      BY DEF GetAncestors, Lineage
    <3> QED  BY <3>1, <1>1 DEF ToSet
  <2>2. Lineage(g, cur) \in Seq(DOMAIN g) /\ Len(Lineage(g, cur)) \in Nat \ {0}
    BY <2>1, LineageIs DEF IsLine
  <2>3. up \in Seq(DOMAIN g)
    BY <2>2, HeadTailProperties, EmptySeq DEF GetAncestors
  <2>4. i \in DOMAIN up
    BY <1>1 DEF IndexIn, ToSet
  <2>5. i \in Nat
    <3> HIDE DEF up, i
    <3>1. DOMAIN up = 1..Len(up)
      BY <2>3
    <3> QED  BY <3>1, <2>4
  <2> DEFINE x == 100 - 30 * i
  <2>6. x \in Int
    <3> HIDE DEF i
    <3> QED  BY <2>5
  <2> HIDE DEF x
  <2>7. Max({10, x}) \in Int
    <3>1. \E y \in {10, x} : \A z \in {10, x} : y >= z
      BY <2>6
    <3>2. Max({10, x}) \in {10, x}
      BY <3>1 DEF Max
    <3> QED  BY <3>2, <2>6
  <2> HIDE DEF up, i
  <2> QED  BY <2>7 DEF GraphFreshness, x, i, up
<1>2. CASE v \notin ToSet(up)
  BY <1>2 DEF GraphFreshness
<1> QED  BY <1>1, <1>2

\* What is in a group of an electorate, for any list of it.
LEMMA GroupIs ==
    ASSUME NEW ps, Electorate(ToSet(ps)), NEW v \in Groups(ps)
    PROVE  /\ IsFiniteSet(Group(ps, v)) /\ Cardinality(Group(ps, v)) \in Nat \ {0}
           /\ Group(ps, v) # {}
           /\ \A p \in Group(ps, v) : /\ p \in ToSet(ps) /\ p.version = v
                                      /\ p.node \in Nat
                                      /\ p.stability \in Int /\ p.confidence \in Int
<1>1. Group(ps, v) \subseteq ToSet(ps) /\ Group(ps, v) # {}
  BY DEF Group, Groups
<1>2. IsFiniteSet(Group(ps, v))
  BY <1>1, FS_Subset DEF Electorate
<1>3. Cardinality(Group(ps, v)) \in Nat \ {0}
  BY <1>1, <1>2, FS_CardinalityType, FS_EmptySet
<1>4. ASSUME NEW p \in Group(ps, v)
      PROVE  /\ p \in ToSet(ps) /\ p.version = v /\ p.node \in Nat
             /\ p.stability \in Int /\ p.confidence \in Int
  <2>1. p \in Ballot /\ p \in ToSet(ps) /\ p.version = v
    BY <1>1 DEF Electorate, Group
  <2>2. p.node \in FedNodes /\ p.stability \in Nat /\ p.confidence \in Nat
    BY <2>1 DEF Ballot
  <2>3. p.node \in Nat
    BY <2>2, FederationAssumption
  <2> QED  BY <2>1, <2>2, <2>3
<1> QED  BY <1>1, <1>2, <1>3, <1>4

LEMMA MeanWeightIsInt ==
    ASSUME NEW g, WellRanked(g), NEW cur, NEW ps, Electorate(ToSet(ps)), NEW v \in Groups(ps)
    PROVE  MeanWeight(g, cur, ps, v) \in Int
<1> DEFINE G == Group(ps, v)
<1>1. ASSUME NEW p \in G PROVE Weight(g, cur, p) \in Int
  <2>1. p.stability \in Int /\ p.confidence \in Int
    BY GroupIs
  <2>2. GraphFreshness(g, cur, p.version) \in Int
    BY FreshnessIsInt
  <2> QED  BY <2>1, <2>2 DEF Weight
<1>2. WeightSum(g, cur, G) \in Int /\ Cardinality(G) \in Nat \ {0}
  BY <1>1, GroupIs, WeightSumIsInt
<1> DEFINE x == Parts * WeightSum(g, cur, G)
           c == Cardinality(G)
<1>3. x \in Int /\ c \in Nat \ {0}
  BY <1>2 DEF Parts
<1>4. MeanWeight(g, cur, ps, v) = x \div c
  BY MeanWeightIs
<1> HIDE DEF x, c
<1> QED  BY <1>3, <1>4

LEMMA GroupsAreFinite ==
    ASSUME NEW ps, Electorate(ToSet(ps))
    PROVE  IsFiniteSet(Groups(ps))
<1> DEFINE to == [p \in ToSet(ps) |-> p.version]
<1>1. to \in Surjection(ToSet(ps), Groups(ps))
  BY DEF Surjection, Groups
<1> QED  BY <1>1, FS_Surjection DEF Electorate

LEMMA CostIsInt ==
    ASSUME NEW g, WellRanked(g), NEW strategy, NEW ps, Electorate(ToSet(ps)), NEW v \in Groups(ps)
    PROVE  Cost(g, strategy, ps, v) \in Int
<1>1. CASE strategy = "STABILITY_PRIORITY"
  <2> DEFINE x == Parts * StabilitySum(Group(ps, v))
             c == Cardinality(Group(ps, v))
  <2>1. StabilitySum(Group(ps, v)) \in Int
    BY GroupIs, StabilitySumIsInt
  <2>2. x \in Int /\ c \in Nat \ {0}
    BY <2>1, GroupIs DEF Parts
  <2>3. Cost(g, strategy, ps, v) = -(x \div c)
    BY <1>1, CostIs
  <2> HIDE DEF x, c
  <2> QED  BY <2>2, <2>3
<1>2. CASE strategy # "STABILITY_PRIORITY"
  <2>1. Cost(g, strategy, ps, v) = CostSum(g, v, Groups(ps))
    BY <1>2, CostIs
  <2> QED  BY <2>1, GroupsAreFinite, CostSumIsInt
<1> QED  BY <1>1, <1>2

\* The first node of a group, which no other group has.
Low(ps, v) == Min(Nodes(Group(ps, v)))

LEMMA LowIsANode ==
    ASSUME NEW ps, Electorate(ToSet(ps)), NEW v \in Groups(ps)
    PROVE  Low(ps, v) \in Nat /\ \E p \in Group(ps, v) : p.node = Low(ps, v)
<1> DEFINE S == Nodes(Group(ps, v))
<1>1. S \subseteq Nat /\ S # {}
  BY GroupIs DEF Nodes
<1>2. Min(S) \in S
  <2> HIDE DEF S
  <2>1. \E x \in S : \A y \in S : x <= y
    BY <1>1, LeastNat
  <2> QED  BY <2>1 DEF Min
<1> QED  BY <1>1, <1>2 DEF Low, Nodes

LEMMA LowIsItsOwn ==
    ASSUME NEW ps, Electorate(ToSet(ps)), NEW v \in Groups(ps), NEW w \in Groups(ps),
           Low(ps, v) = Low(ps, w)
    PROVE  v = w
<1>1. PICK p \in Group(ps, v) : p.node = Low(ps, v)
  BY LowIsANode
<1>2. PICK q \in Group(ps, w) : q.node = Low(ps, w)
  BY LowIsANode
<1>3. p \in ToSet(ps) /\ q \in ToSet(ps) /\ p.version = v /\ q.version = w
  BY GroupIs
<1>4. p = q
  BY <1>1, <1>2, <1>3 DEF Electorate
<1> QED  BY <1>3, <1>4

\* To beat is an order of the groups, in which no two are equal.
LEMMA BeatsOrders ==
    ASSUME NEW g, WellRanked(g), NEW s, NEW ps, Electorate(ToSet(ps))
    PROVE  /\ \A v \in Groups(ps) : ~ Beats(g, s, ps, v, v)
           /\ \A v, w \in Groups(ps) : v # w => Beats(g, s, ps, v, w) \/ Beats(g, s, ps, w, v)
           /\ \A u, v, w \in Groups(ps) :
                 Beats(g, s, ps, u, v) /\ Beats(g, s, ps, v, w) => Beats(g, s, ps, u, w)
<1> DEFINE c(v) == Cost(g, s, ps, v)
           l(v) == Low(ps, v)
<1>1. ASSUME NEW v, NEW w
      PROVE  Beats(g, s, ps, v, w) <=> (c(v) < c(w) \/ (c(v) = c(w) /\ l(v) < l(w)))
  BY DEF Beats, Tiebreak, Low
<1>2. ASSUME NEW v \in Groups(ps) PROVE c(v) \in Int /\ l(v) \in Nat
  BY CostIsInt, LowIsANode
<1>3. ASSUME NEW v \in Groups(ps), NEW w \in Groups(ps), v # w PROVE l(v) # l(w)
  BY <1>3, LowIsItsOwn
<1> HIDE DEF c, l
<1>4. ASSUME NEW v \in Groups(ps) PROVE ~ Beats(g, s, ps, v, v)
  BY <1>1, <1>2
<1>5. ASSUME NEW v \in Groups(ps), NEW w \in Groups(ps), v # w
      PROVE  Beats(g, s, ps, v, w) \/ Beats(g, s, ps, w, v)
  <2>1. c(v) \in Int /\ c(w) \in Int /\ l(v) \in Nat /\ l(w) \in Nat /\ l(v) # l(w)
    BY <1>2, <1>3, <1>5
  <2>2. \/ c(v) < c(w) \/ (c(v) = c(w) /\ l(v) < l(w))
        \/ c(w) < c(v) \/ (c(w) = c(v) /\ l(w) < l(v))
    BY <2>1
  <2> QED  BY <2>2, <1>1
<1>6. ASSUME NEW u \in Groups(ps), NEW v \in Groups(ps), NEW w \in Groups(ps),
             Beats(g, s, ps, u, v), Beats(g, s, ps, v, w)
      PROVE  Beats(g, s, ps, u, w)
  <2>1. /\ c(u) \in Int /\ c(v) \in Int /\ c(w) \in Int
        /\ l(u) \in Nat /\ l(v) \in Nat /\ l(w) \in Nat
    BY <1>2
  <2>2. /\ c(u) < c(v) \/ (c(u) = c(v) /\ l(u) < l(v))
        /\ c(v) < c(w) \/ (c(v) = c(w) /\ l(v) < l(w))
    BY <1>1, <1>6
  <2>3. c(u) < c(w) \/ (c(u) = c(w) /\ l(u) < l(w))
    BY <2>1, <2>2
  <2> QED  BY <2>3, <1>1
<1> QED  BY <1>4, <1>5, <1>6

-----------------------------------------------------------------------------
(* The loop of a strategy finds the group that beats all others *)

\* The function by which Chosen is defined.
Walks(b, g, s, ps) ==
    b = [k \in 1..Len(ps) |->
            IF k = 1 \/ (Opens(ps, k) /\ Beats(g, s, ps, ps[k].version, b[k - 1]))
            THEN ps[k].version ELSE b[k - 1]]

LEMMA ChosenIs ==
    ASSUME NEW g, NEW s, NEW ps
    PROVE  Chosen(g, s, ps) = (CHOOSE b : Walks(b, g, s, ps))[Len(ps)]
BY Zenon DEF Chosen, Walks

LEMMA WalkExists ==
    ASSUME NEW g, NEW s, NEW ps, NEW n \in Nat \ {0}, Len(ps) = n, DOMAIN ps = 1..n
    PROVE  \E b : Walks(b, g, s, ps)
<1> DEFINE V == Groups(ps)
           first == ps[1].version
           step(i, w) == IF i = 1 \/ (Opens(ps, i) /\ Beats(g, s, ps, ps[i].version, w))
                         THEN ps[i].version ELSE w
           fs == [i \in 1..n |-> [w \in V |-> step(i, w)]]
<1>1. \A i \in 1..n : ps[i].version \in V
  BY DEF Groups, ToSet
<1>2. first \in V
  BY <1>1
<1>3. fs \in [1..n -> [V -> V]]
  <2>1. ASSUME NEW i \in 1..n, NEW w \in V PROVE step(i, w) \in V
    BY <1>1
  <2> HIDE DEF step
  <2> QED  BY <2>1
<1>4. ASSUME NEW i \in 1..n, NEW w \in V PROVE fs[i][w] = step(i, w)
  <2> HIDE DEF step
  <2> QED  OBVIOUS
<1> HIDE DEF V, fs, first
<1>5. PICK f \in [0..n -> V] : Recurses(f, first, fs, n)
  BY <1>2, <1>3, RecursionExists
<1> DEFINE b == [k \in 1..n |-> f[k]]
<1>6. ASSUME NEW k \in 1..n PROVE f[k] = step(k, b[k - 1])
  <2>1. k - 1 \in 0..n /\ (k # 1 => k - 1 \in 1..n)
    OBVIOUS
  <2>2. f[k] = fs[k][f[k - 1]] /\ f[k - 1] \in V
    BY <2>1, <1>5 DEF Recurses
  <2>3. f[k] = step(k, f[k - 1])
    BY <2>2, <1>4
  <2>4. CASE k = 1
    BY <2>3, <2>4
  <2>5. CASE k # 1
    <3>1. b[k - 1] = f[k - 1]
      BY <2>1, <2>5
    <3> HIDE DEF step, b
    <3> QED  BY <2>3, <3>1
  <2> QED  BY <2>4, <2>5
<1>7. b = [k \in 1..n |-> step(k, b[k - 1])]
  <2> HIDE DEF step
  <2>1. \A k \in 1..n : f[k] = step(k, b[k - 1])
    BY <1>6
  <2> QED  BY <2>1
<1> HIDE DEF b
<1>8. Walks(b, g, s, ps)
  BY <1>7 DEF Walks
<1> QED  BY <1>8

LEMMA ChosenBeatsAll ==
    ASSUME NEW g, WellRanked(g), NEW s, NEW ps, Electorate(ToSet(ps)),
           NEW n \in Nat \ {0}, Len(ps) = n, DOMAIN ps = 1..n
    PROVE  /\ Chosen(g, s, ps) \in Groups(ps)
           /\ \A w \in Groups(ps) : w = Chosen(g, s, ps) \/ Beats(g, s, ps, Chosen(g, s, ps), w)
<1> DEFINE b == CHOOSE f : Walks(f, g, s, ps)
           v(i) == ps[i].version
           B(x, y) == Beats(g, s, ps, x, y)
           Best(x, k) == /\ \E i \in 1..k : x = v(i)
                         /\ \A i \in 1..k : v(i) = x \/ B(x, v(i))
<1>1. Walks(b, g, s, ps)
  BY WalkExists, Zenon
<1>2. Chosen(g, s, ps) = b[n]
  BY ChosenIs
<1> HIDE DEF b
<1>3. ASSUME NEW k \in 1..n
      PROVE  b[k] = IF k = 1 \/ (Opens(ps, k) /\ B(v(k), b[k - 1])) THEN v(k) ELSE b[k - 1]
  <2>1. k \in 1..Len(ps)
    OBVIOUS
  <2> QED  BY <2>1, <1>1, Zenon DEF Walks
<1>4. Groups(ps) = {v(i) : i \in 1..n}
  BY DEF Groups, ToSet
<1>5. \A i \in 1..n : v(i) \in Groups(ps)
  BY <1>4
<1>6. ASSUME NEW i \in 1..n, ~ Opens(ps, i) PROVE \E j \in 1..i - 1 : v(j) = v(i)
  BY <1>6 DEF Opens
<1> HIDE DEF v, B
<1>7. ASSUME NEW x \in Groups(ps), NEW y \in Groups(ps)
      PROVE  x = y \/ B(x, y) \/ B(y, x)
  BY BeatsOrders DEF B
<1>8. ASSUME NEW x \in Groups(ps), NEW y \in Groups(ps), NEW z \in Groups(ps), B(x, y), B(y, z)
      PROVE  B(x, z)
  BY <1>8, BeatsOrders DEF B
<1> DEFINE Bad == {k \in 1..n : ~ Best(b[k], k)}
<1>9. Bad = {}
  <2> SUFFICES ASSUME Bad # {} PROVE FALSE
    OBVIOUS
  <2>1. Bad \subseteq Nat
    OBVIOUS
  <2>2. PICK m \in Bad : \A k \in Bad : m <= k
    <3> HIDE DEF Bad
    <3> QED  BY <2>1, LeastNat
  <2>3. m \in 1..n /\ ~ Best(b[m], m)
    OBVIOUS
  <2>4. m # 1
    <3> SUFFICES ASSUME m = 1 PROVE FALSE
      OBVIOUS
    <3>1. b[1] = v(1)
      BY <2>3, <1>3
    <3>2. 1 \in 1..1 /\ \A i \in 1..1 : i = 1
      OBVIOUS
    <3>3. Best(b[1], 1)
      BY <3>1, <3>2
    <3> QED  BY <3>3, <2>3
  <2>5. m - 1 \in 1..n /\ ~ (m <= m - 1)
    BY <2>3, <2>4
  <2>6. m - 1 \notin Bad
    <3> HIDE DEF Bad
    <3> QED  BY <2>2, <2>5
  <2> DEFINE u == b[m - 1]
  <2>7. Best(u, m - 1)
    BY <2>5, <2>6
  <2> HIDE DEF Bad
  <2>8. b[m] = IF Opens(ps, m) /\ B(v(m), u) THEN v(m) ELSE u
    BY <2>3, <2>4, <1>3
  <2> HIDE DEF u
  <2>9. \A i \in 1..m : i \in 1..n /\ (i \in 1..m - 1 \/ i = m)
    BY <2>3
  <2>10. (\A i \in 1..m - 1 : i \in 1..m) /\ m \in 1..m
    BY <2>3
  <2>11. v(m) \in Groups(ps) /\ u \in Groups(ps) /\ \A i \in 1..m : v(i) \in Groups(ps)
    BY <2>3, <2>7, <2>9, <2>10, <1>5
  <2>12. CASE Opens(ps, m) /\ B(v(m), u)
    <3>1. b[m] = v(m)
      BY <2>8, <2>12
    <3>2. ASSUME NEW i \in 1..m PROVE v(i) = v(m) \/ B(v(m), v(i))
      <4>1. CASE i = m
        BY <4>1
      <4>2. CASE i \in 1..m - 1
        <5>1. v(i) = u \/ B(u, v(i))
          BY <4>2, <2>7
        <5> QED  BY <5>1, <2>11, <2>12, <1>8
      <4> QED  BY <4>1, <4>2, <2>9
    <3>3. Best(b[m], m)
      BY <3>1, <3>2, <2>10
    <3> QED  BY <3>3, <2>3
  <2>13. CASE ~ (Opens(ps, m) /\ B(v(m), u))
    <3>1. b[m] = u
      BY <2>8, <2>13
    <3>2. v(m) = u \/ B(u, v(m))
      <4>1. CASE Opens(ps, m)
        BY <4>1, <2>11, <2>13, <1>7
      <4>2. CASE ~ Opens(ps, m)
        <5>1. PICK j \in 1..m - 1 : v(j) = v(m)
          BY <4>2, <2>3, <1>6
        <5> QED  BY <5>1, <2>7
      <4> QED  BY <4>1, <4>2
    <3>3. ASSUME NEW i \in 1..m PROVE v(i) = u \/ B(u, v(i))
      BY <3>2, <2>7, <2>9
    <3>4. \E i \in 1..m : u = v(i)
      BY <2>7, <2>10
    <3>5. Best(b[m], m)
      BY <3>1, <3>3, <3>4
    <3> QED  BY <3>5, <2>3
  <2> QED  BY <2>12, <2>13
<1>10. n \in 1..n
  OBVIOUS
<1>11. Best(b[n], n)
  BY <1>9, <1>10
<1>12. \A w \in Groups(ps) : \E i \in 1..n : w = v(i)
  BY <1>4
<1> QED  BY <1>2, <1>5, <1>11, <1>12 DEF B

-----------------------------------------------------------------------------
(* The order of arrival *)

\* What two lists of the same proposals agree on.
LEMMA SameProposals ==
    ASSUME NEW ps, NEW qs, ToSet(ps) = ToSet(qs), NEW g, NEW cur, NEW s, NEW v, NEW w
    PROVE  /\ Groups(ps) = Groups(qs) /\ Group(ps, v) = Group(qs, v)
           /\ MeanWeight(g, cur, ps, v) = MeanWeight(g, cur, qs, v)
           /\ Beats(g, s, ps, v, w) <=> Beats(g, s, qs, v, w)
<1>1. Groups(ps) = Groups(qs)
  BY DEF Groups
<1>2. ASSUME NEW u PROVE Group(ps, u) = Group(qs, u)
  BY DEF Group
<1>3. MeanWeight(g, cur, ps, v) = MeanWeight(g, cur, qs, v)
  BY <1>2, MeanWeightIs
<1>4. ASSUME NEW u PROVE Cost(g, s, ps, u) = Cost(g, s, qs, u)
  <2>1. Group(ps, u) = Group(qs, u)
    BY <1>2
  <2> QED  BY <1>1, <2>1, CostIs
<1>5. Tiebreak(ps, v, w) <=> Tiebreak(qs, v, w)
  <2>1. Group(ps, v) = Group(qs, v) /\ Group(ps, w) = Group(qs, w)
    BY <1>2
  <2> QED  BY <2>1 DEF Tiebreak
<1>6. Beats(g, s, ps, v, w) <=> Beats(g, s, qs, v, w)
  <2>1. Cost(g, s, ps, v) = Cost(g, s, qs, v) /\ Cost(g, s, ps, w) = Cost(g, s, qs, w)
    BY <1>4
  <2> QED  BY <1>5, <2>1 DEF Beats
<1> QED  BY <1>1, <1>2, <1>3, <1>6

\* A list of an electorate with a proposal at all.
Poll(ps) ==
    /\ Electorate(ToSet(ps))
    /\ \E n \in Nat \ {0} : Len(ps) = n /\ DOMAIN ps = 1..n

\* The group that leads is one of those with the greatest weight.
LEMMA DominantLeads ==
    ASSUME NEW g, WellRanked(g), NEW cur, NEW ps, Poll(ps)
    PROVE  /\ Dominant(g, cur, ps) \in Groups(ps)
           /\ \A v \in Groups(ps) :
                 MeanWeight(g, cur, ps, Dominant(g, cur, ps)) >= MeanWeight(g, cur, ps, v)
<1> DEFINE W(v) == MeanWeight(g, cur, ps, v)
           leading == {i \in DOMAIN ps : \A v \in Groups(ps) : W(ps[i].version) >= W(v)}
<1>1. PICK n \in Nat \ {0} : Len(ps) = n /\ DOMAIN ps = 1..n
  BY DEF Poll
<1>2. Groups(ps) = {ps[i].version : i \in 1..n}
  BY <1>1 DEF Groups, ToSet
<1> DEFINE f == [i \in 1..n |-> W(ps[i].version)]
<1>3. f \in [1..n -> Int]
  <2>1. ASSUME NEW i \in 1..n PROVE W(ps[i].version) \in Int
    <3>1. ps[i].version \in Groups(ps)
      BY <1>2
    <3> QED  BY <3>1, MeanWeightIsInt DEF Poll
  <2> HIDE DEF W
  <2> QED  BY <2>1
<1>4. PICK i \in 1..n : \A j \in 1..n : f[i] >= f[j]
  <2> HIDE DEF f
  <2> QED  BY <1>3, Greatest
<1>5. i \in leading
  <2>1. ASSUME NEW v \in Groups(ps) PROVE W(ps[i].version) >= W(v)
    <3>1. PICK j \in 1..n : v = ps[j].version
      BY <1>2
    <3>2. f[i] = W(ps[i].version) /\ f[j] = W(v)
      BY <3>1
    <3> HIDE DEF f, W
    <3> QED  BY <1>4, <3>2
  <2> HIDE DEF W
  <2> QED  BY <2>1, <1>1
<1>6. leading \subseteq Nat
  BY <1>1
<1>7. Min(leading) \in leading
  <2> HIDE DEF leading
  <2>1. \E x \in leading : \A y \in leading : x <= y
    BY <1>5, <1>6, LeastNat
  <2> QED  BY <2>1 DEF Min
<1>8. Dominant(g, cur, ps) = ps[Min(leading)].version
  BY DEF Dominant
<1> DEFINE m == Min(leading)
<1>9. m \in 1..n /\ \A v \in Groups(ps) : W(ps[m].version) >= W(v)
  <2> HIDE DEF W
  <2> QED  BY <1>1, <1>7
<1> HIDE DEF m, leading
<1> QED  BY <1>2, <1>8, <1>9 DEF m

\* An order of the proposals of a vote.
LEMMA OrderIsPoll ==
    ASSUME NEW P, Electorate(P), NEW o \in SetToSeqs(P)
    PROVE  /\ ToSet(o) = P
           /\ P = {} => o = <<>>
           /\ P # {} => Poll(o) /\ o # <<>>
<1> DEFINE n == Cardinality(P)
<1>1. n \in Nat /\ (n = 0 <=> P = {})
  BY FS_CardinalityType, FS_EmptySet DEF Electorate
<1>2. o \in [1..n -> P] /\ ToSet(o) = P
  BY <1>1, OrderLists DEF Electorate
<1> HIDE DEF n
<1>3. o \in Seq(P) /\ Len(o) = n /\ DOMAIN o = 1..n
  BY <1>1, <1>2
<1>4. CASE P = {}
  <2>1. Len(o) = 0
    BY <1>1, <1>3, <1>4
  <2> QED  BY <2>1, <1>2, <1>3, <1>4, EmptySeq
<1>5. CASE P # {}
  <2>1. n \in Nat \ {0}
    BY <1>1, <1>5
  <2>2. o # <<>>
    BY <2>1, <1>3, EmptySeq
  <2> QED  BY <2>1, <2>2, <1>2, <1>3, <1>5 DEF Poll
<1> QED  BY <1>4, <1>5

\* If two orders come to different versions, the first reports the second.
LEMMA DifferInConflict ==
    ASSUME NEW g, WellRanked(g), NEW cur, NEW P, Electorate(P),
           NEW o \in SetToSeqs(P), NEW q \in SetToSeqs(P),
           Propose(g, cur, o).agreed # Propose(g, cur, q).agreed
    PROVE  \E c \in Propose(g, cur, o).conflicts : c[1] = "close_margin"
<1>1. ToSet(o) = P /\ ToSet(q) = P
  BY OrderIsPoll
<1>2. P # {}
  <2> SUFFICES ASSUME P = {} PROVE FALSE
    OBVIOUS
  <2>1. o = <<>> /\ q = <<>>
    BY OrderIsPoll
  <2> QED  BY <2>1
<1>3. Poll(o) /\ Poll(q) /\ o # <<>> /\ q # <<>>
  BY <1>2, OrderIsPoll
<1> DEFINE d == Dominant(g, cur, o)
           e == Dominant(g, cur, q)
           W(v) == MeanWeight(g, cur, o, v)
<1>4. Groups(o) = Groups(q) /\ \A v : MeanWeight(g, cur, q, v) = W(v)
  BY <1>1, SameProposals
<1>5. d \in Groups(o) /\ e \in Groups(o) /\ W(d) >= W(e) /\ W(e) >= W(d)
  BY <1>3, <1>4, DominantLeads
<1>6. W(d) \in Int /\ W(e) \in Int
  BY <1>3, <1>5, MeanWeightIsInt DEF Poll
<1>7. W(d) = W(e)
  <2> HIDE DEF W, d, e
  <2> QED  BY <1>5, <1>6
<1>8. /\ Propose(g, cur, o).agreed = IF W(d) < CONSENSUS_THRESHOLD THEN cur ELSE d
      /\ Propose(g, cur, q).agreed = IF W(e) < CONSENSUS_THRESHOLD THEN cur ELSE e
      /\ ~ (W(d) < CONSENSUS_THRESHOLD)
            => Propose(g, cur, o).conflicts = Conflicts(g, cur, o, d)
  <2>1. MeanWeight(g, cur, q, e) = W(e)
    BY <1>4
  <2> QED  BY <1>3, <2>1 DEF Propose, Result
<1>9. ~ (W(d) < CONSENSUS_THRESHOLD) /\ d # e
  <2> HIDE DEF W, d, e
  <2> QED  BY <1>7, <1>8
<1>10. CloseMargin(W(d), W(e))
  <2> HIDE DEF W, d, e
  <2>1. W(d) - W(e) = 0
    BY <1>6, <1>7
  <2> QED  BY <2>1 DEF CloseMargin, CONFLICT_MARGIN, Parts
<1> HIDE DEF d, e
<1>11. <<"close_margin", e>> \in Conflicts(g, cur, o, d)
  BY <1>5, <1>9, <1>10 DEF Conflicts
<1> QED  BY <1>8, <1>9, <1>11

\* A resolution is the same for all orders.
LEMMA ResolveIgnoresOrder ==
    ASSUME NEW g, WellRanked(g), NEW cur, NEW s, NEW P, Electorate(P),
           NEW o \in SetToSeqs(P), NEW q \in SetToSeqs(P)
    PROVE  Resolve(g, cur, s, o) = Resolve(g, cur, s, q)
<1>1. ToSet(o) = P /\ ToSet(q) = P
  BY OrderIsPoll
<1>2. CASE P = {}
  BY <1>2, OrderIsPoll
<1>3. CASE P # {}
  <2>1. Poll(o) /\ Poll(q) /\ o # <<>> /\ q # <<>>
    BY <1>3, OrderIsPoll
  <2>2. Groups(o) = Groups(q) /\ \A v : Group(o, v) = Group(q, v)
    BY <1>1, SameProposals
  <2>3. \A v, w : Beats(g, s, o, v, w) <=> Beats(g, s, q, v, w)
    BY <1>1, SameProposals
  <2> DEFINE c == Chosen(g, s, o)
             d == Chosen(g, s, q)
  <2>4. c \in Groups(o) /\ \A w \in Groups(o) : w = c \/ Beats(g, s, o, c, w)
    BY <2>1, ChosenBeatsAll DEF Poll
  <2>5. d \in Groups(o) /\ \A w \in Groups(o) : w = d \/ Beats(g, s, o, d, w)
    <3>1. d \in Groups(q) /\ \A w \in Groups(q) : w = d \/ Beats(g, s, q, d, w)
      BY <2>1, ChosenBeatsAll DEF Poll
    <3> HIDE DEF d
    <3> QED  BY <3>1, <2>2, <2>3
  <2>6. c = d
    <3> SUFFICES ASSUME c # d PROVE FALSE
      OBVIOUS
    <3> HIDE DEF c, d
    <3>1. Beats(g, s, o, c, d) /\ Beats(g, s, o, d, c)
      BY <2>4, <2>5
    <3>2. Beats(g, s, o, c, c)
      BY <3>1, <2>1, <2>4, <2>5, BeatsOrders DEF Poll
    <3> QED  BY <3>2, <2>1, <2>4, BeatsOrders DEF Poll
  <2> DEFINE chosen(ps) == IF s = "VERSION_PRIORITY"
                           THEN CHOOSE v \in Groups(ps) : \A w \in Groups(ps) \ {v} : Newer(v, w)
                           ELSE Chosen(g, s, ps)
             nodes(ps) == Nodes(Group(ps, chosen(ps)))
  <2>7. chosen(o) = chosen(q)
    BY <2>2, <2>6
  <2>8. /\ Resolve(g, cur, s, o) = Result(chosen(o), nodes(o), Nodes(ToSet(o)) \ nodes(o), {})
        /\ Resolve(g, cur, s, q) = Result(chosen(q), nodes(q), Nodes(ToSet(q)) \ nodes(q), {})
    BY <2>1 DEF Resolve
  <2> HIDE DEF chosen
  <2>9. nodes(o) = nodes(q)
    BY <2>2, <2>7
  <2> QED  BY <1>1, <2>7, <2>8, <2>9
<1> QED  BY <1>2, <1>3

\* The proposals have an order.
LEMMA OrderExists == ASSUME NEW P, Electorate(P) PROVE SetToSeqs(P) # {}
<1> DEFINE n == Cardinality(P)
<1>1. ExistsBijection(1..n, P)
  BY FS_CardinalityType DEF Electorate
<1>2. PICK o : o \in Bijection(1..n, P)
  BY <1>1 DEF ExistsBijection
<1>3. o \in [1..n -> P] /\ \A i, j \in 1..n : i # j => o[i] # o[j]
  BY <1>2 DEF Bijection, Injection, IsInjective
<1>4. o \in SetToSeqs(P)
  BY <1>3 DEF SetToSeqs
<1> QED  BY <1>4

-----------------------------------------------------------------------------
(* The vote *)

\* The lineage is one, and each node has made one proposal at most.
VInv == WellRanked(graph) /\ Electorate(proposals)

LEMMA VoteInvariance == FSpec => []VInv
<1>1. FInit => VInv
  <2>1. Electorate({})
    BY FS_EmptySet DEF Electorate
  <2> QED  BY <2>1, EmptyRanked DEF FInit, VInv
<1>2. VInv /\ [FNext]_fvars => VInv'
  <2> SUFFICES ASSUME WellRanked(graph), Electorate(proposals), [FNext]_fvars
               PROVE  WellRanked(graph') /\ Electorate(proposals')
    BY DEF VInv, WellRanked, Ranks, Electorate
  <2>1. ASSUME NEW v \in Versions, NEW parents \in Parents, Register(v, parents)
        PROVE  WellRanked(graph') /\ Electorate(proposals')
    BY <2>1, RegisterRanked DEF Register
  <2>2. ASSUME NEW n \in FedNodes, NEW v \in Versions, NEW score \in Scores, BuildProposal(n, v, score)
        PROVE  WellRanked(graph') /\ Electorate(proposals')
    <3> DEFINE new == [node |-> n, version |-> v, stability |-> score[1], confidence |-> score[2]]
    <3>1. /\ proposals' = proposals \cup {new} /\ graph' = graph
          /\ \A p \in proposals : p.node # n
      BY <2>2 DEF BuildProposal
    <3>2. new \in Ballot
      BY FederationAssumption DEF Ballot
    <3>3. new.node = n
      OBVIOUS
    <3> HIDE DEF new
    <3>4. IsFiniteSet(proposals \cup {new})
      BY FS_AddElement DEF Electorate
    <3>5. \A p, q \in proposals \cup {new} : p.node = q.node => p = q
      BY <3>1, <3>3 DEF Electorate
    <3> QED  BY <3>1, <3>2, <3>4, <3>5 DEF Electorate
  <2>3. ASSUME NEW o, Vote(o) PROVE WellRanked(graph') /\ Electorate(proposals')
    BY <2>3, FS_EmptySet DEF Vote, Electorate
  <2>4. CASE UNCHANGED <<graph, proposals>>
    BY <2>4
  <2> QED  BY <2>1, <2>2, <2>3, <2>4 DEF FNext, RecordTrace, GovernanceTick, fvars
<1> QED  BY <1>1, <1>2, PTL DEF FSpec

\* Of any number of proposals, in whatever order they arrive: two orders that come
\* to different versions both report the close margin between them, and each
\* strategy resolves the conflict in the same way for every order.
THEOREM OrderIsReported == FSpec => []OrderMattersOnlyInConflict
<1>1. VInv => OrderMattersOnlyInConflict
  <2> SUFFICES ASSUME WellRanked(graph), Electorate(proposals) PROVE OrderMattersOnlyInConflict
    BY DEF VInv
  <2> DEFINE Close(r) == \E c \in r.conflicts : c[1] = "close_margin"
  <2>1. ASSUME NEW o \in Orders, NEW q \in Orders,
               Propose(graph, Current, o).agreed # Propose(graph, Current, q).agreed
        PROVE  Close(Propose(graph, Current, o)) /\ Close(Propose(graph, Current, q))
    BY <2>1, DifferInConflict DEF Orders
  <2>2. ASSUME NEW s \in ResolutionStrategy
        PROVE  Cardinality({Resolve(graph, Current, s, o) : o \in Orders}) = 1
    <3>1. PICK q \in Orders : TRUE
      BY OrderExists DEF Orders
    <3>2. \A o \in Orders : Resolve(graph, Current, s, o) = Resolve(graph, Current, s, q)
      BY ResolveIgnoresOrder DEF Orders
    <3>3. {Resolve(graph, Current, s, o) : o \in Orders} = {Resolve(graph, Current, s, q)}
      BY <3>1, <3>2
    <3> QED  BY <3>3, FS_Singleton
  <2> HIDE DEF Close
  <2>3. ASSUME NEW a \in {Propose(graph, Current, o) : o \in Orders},
               NEW b \in {Propose(graph, Current, o) : o \in Orders}, a.agreed # b.agreed
        PROVE  Close(a) /\ Close(b)
    <3>1. PICK o \in Orders : a = Propose(graph, Current, o)
      OBVIOUS
    <3>2. PICK q \in Orders : b = Propose(graph, Current, q)
      OBVIOUS
    <3> QED  BY <3>1, <3>2, <2>1, <2>3
  <2> QED  BY <2>2, <2>3 DEF OrderMattersOnlyInConflict, Close
<1> QED  BY <1>1, VoteInvariance, PTL

\* What the engine says of a version that lost.
LEMMA VerdictOfVote ==
    ASSUME NEW g, NEW cur, NEW P, Electorate(P), P # {}, NEW o \in SetToSeqs(P),
           <<"below_threshold", Dominant(g, cur, o)>> \notin Propose(g, cur, o).conflicts,
           NEW p \in P, p.node \in Propose(g, cur, o).rejected
    PROVE  EvaluateVersion(g, p.version, Propose(g, cur, o).agreed) = "REJECT"
             <=> <<"incompatible_path", p.version>> \in Propose(g, cur, o).conflicts
<1> DEFINE d == Dominant(g, cur, o)
           nodes == Nodes(Group(o, d))
<1>1. ToSet(o) = P /\ o # <<>>
  BY OrderIsPoll
<1>2. Propose(g, cur, o) = Result(d, nodes, Nodes(P) \ nodes, Conflicts(g, cur, o, d))
  <2> DEFINE lead == MeanWeight(g, cur, o, d)
  <2>1. Propose(g, cur, o)
          = IF lead < CONSENSUS_THRESHOLD
            THEN Result(cur, nodes, Nodes(P) \ nodes, {<<"below_threshold", d>>})
            ELSE Result(d, nodes, Nodes(P) \ nodes, Conflicts(g, cur, o, d))
    BY <1>1 DEF Propose
  <2> HIDE DEF lead, d, nodes
  <2>2. ~ (lead < CONSENSUS_THRESHOLD)
    <3> SUFFICES ASSUME lead < CONSENSUS_THRESHOLD PROVE FALSE
      OBVIOUS
    <3>1. Propose(g, cur, o).conflicts = {<<"below_threshold", d>>}
      BY <2>1 DEF Result
    <3> QED  BY <3>1 DEF d
  <2> QED  BY <2>1, <2>2
<1>3. p.version \in Groups(o)
  BY <1>1 DEF Groups
<1>4. p.node \notin nodes
  <2> HIDE DEF nodes
  <2> QED  BY <1>2 DEF Result
<1>5. p.version # d
  <2> SUFFICES ASSUME p.version = d PROVE FALSE
    OBVIOUS
  <2>1. p \in Group(o, d)
    BY <1>1 DEF Group
  <2> QED  BY <1>4, <2>1 DEF Nodes
<1>6. Propose(g, cur, o).agreed = d /\ Propose(g, cur, o).conflicts = Conflicts(g, cur, o, d)
  <2> HIDE DEF d, nodes
  <2> QED  BY <1>2 DEF Result
<1> HIDE DEF d
<1>7. <<"incompatible_path", p.version>> \in Conflicts(g, cur, o, d)
        <=> ~IsBackwardCompatible(p.version, d) /\ ~IsSupported(g, p.version, d)
  BY <1>3, <1>5 DEF Conflicts
<1>8. EvaluateVersion(g, p.version, d) = "REJECT"
        <=> ~IsBackwardCompatible(p.version, d) /\ ~IsSupported(g, p.version, d)
  BY <1>5 DEF EvaluateVersion
<1> QED  BY <1>6, <1>7, <1>8

\* What the guard of snapshots says of a version.
LEMMA VerdictOfGuard ==
    ASSUME NEW g, NEW v \in Versions, NEW cur \in Versions, NEW t
    PROVE  /\ ValidatedVersion(g, v, cur, <<>>) = <<>> <=> EvaluateVersion(g, v, cur) = "REJECT"
           /\ ValidatedVersion(g, v, cur, <<t>>) = <<>> <=> SynchronizedTrace(g, t, v, cur) = {}
<1>1. v # <<>> /\ cur # <<>>
  <2>1. v \in Nat \X Nat \X Nat /\ cur \in Nat \X Nat \X Nat
    BY FederationAssumption
  <2> QED  BY <2>1
<1>2. <<t>> # <<>>
  OBVIOUS
<1>3. ValidatedVersion(g, v, cur, <<>>) = <<>> <=> EvaluateVersion(g, v, cur) = "REJECT"
  BY <1>1 DEF ValidatedVersion, EvaluateVersion
<1>4. ValidatedVersion(g, v, cur, <<t>>) = <<>> <=> SynchronizedTrace(g, t, v, cur) = {}
  <2>1. SynchronizedTrace(g, t, v, cur) = {}
          <=> ~ (v = cur \/ IsBackwardCompatible(v, cur))
              /\ (~IsSupported(g, v, cur) \/ MigrationRaises(g, v, cur))
    BY DEF SynchronizedTrace, EvaluateVersion
  <2>2. ValidatedVersion(g, v, cur, <<t>>) = <<>>
          <=> ~ (v = cur \/ IsBackwardCompatible(v, cur))
              /\ (~IsSupported(g, v, cur) \/ MigrationRaises(g, v, cur))
    BY <1>1, <1>2 DEF ValidatedVersion
  <2> QED  BY <2>1, <2>2
<1> QED  BY <1>3, <1>4

\* For any versions, lineage and proposals: the vote, the synchronisation of nodes
\* and the guard of snapshots give one verdict on a version.
THEOREM VerdictsAgree == FSpec => []OneVerdictOnAVersion
<1>1. VInv => OneVerdictOnAVersion
  <2> SUFFICES ASSUME Electorate(proposals) PROVE OneVerdictOnAVersion
    BY DEF VInv
  <2> DEFINE t == [scale |-> "percent", confidence |-> FALSE]
  <2>1. ASSUME NEW v \in Versions, NEW traces \in {<<>>, <<t>>}
        PROVE  ValidatedVersion(graph, v, Current, traces) = <<>> <=>
                 IF traces = <<>> THEN EvaluateVersion(graph, v, Current) = "REJECT"
                 ELSE SynchronizedTrace(graph, traces[1], v, Current) = {}
    <3> HIDE DEF t
    <3>1. Current \in Versions
      BY FederationAssumption
    <3>2. <<t>> # <<>> /\ <<t>>[1] = t
      OBVIOUS
    <3>3. CASE traces = <<>>
      BY <3>1, <3>3, VerdictOfGuard
    <3>4. CASE traces = <<t>>
      BY <3>1, <3>2, <3>4, VerdictOfGuard
    <3> QED  BY <3>3, <3>4
  <2>2. ASSUME proposals # {}, NEW o \in Orders,
               <<"below_threshold", Dominant(graph, Current, o)>>
                   \notin Propose(graph, Current, o).conflicts,
               NEW p \in proposals, p.node \in Propose(graph, Current, o).rejected
        PROVE  EvaluateVersion(graph, p.version, Propose(graph, Current, o).agreed) = "REJECT"
                 <=> <<"incompatible_path", p.version>> \in Propose(graph, Current, o).conflicts
    BY <2>2, VerdictOfVote DEF Orders
  <2> QED  BY <2>1, <2>2 DEF OneVerdictOnAVersion
<1> QED  BY <1>1, VoteInvariance, PTL

=============================================================================
