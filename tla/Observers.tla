------------------------------ MODULE Observers ------------------------------
(***************************************************************************)
(* RuntimeLoop._finalize_cycle and everything it tells of a trace: the     *)
(* window, the coherence check, the causal graph, the feedback, the        *)
(* intelligence store, and the stability, confidence and governance        *)
(* assessments, each at its own interval, the status written into a        *)
(* checkpoint.  Nothing in it awaits: a cycle is one step.                 *)
(***************************************************************************)
EXTENDS Assessment

CONSTANTS
    Trace,              \* traces of the loop, a subset of LoopTraces
    MaxActive,          \* active traces of the window, 1000
    Recent,             \* traces that stability and confidence look at, 100
    MaxReports,         \* coherence reports kept, 1000
    EarlyGraphs,        \* the graph is rebuilt for the first traces, 5,
    GraphEvery,         \* and then every 10
    FeedbackEvery,      \* 20
    CompressEvery,      \* 10
    StabilityEvery,     \* 50
    ConfidenceEvery,    \* 75
    GovernEvery,        \* 100
    History,            \* scores kept, 10 for stability and 20 for the others
    MinDecay,           \* traces below which no decay is signalled, 10
    MaxPatterns, MaxFailures, MaxFingerprints,      \* of the store: 500, 200, 500
    MaxSeen,            \* signatures a miner remembers, 50000 or more
    Queue,              \* statistics of the queue and the cycle times
    Timing,             \* timing stabilities of a window
    Failing,            \* consecutive failures before a cycle
    MaxTraces           \* bound on the traces

ASSUME TraceAssumption ==
    Trace \subseteq UNION {LoopTraces({t.event}, {t.risk}, {t.rule}) : t \in Trace}
ASSUME IntervalAssumption ==
    /\ {GraphEvery, FeedbackEvery, CompressEvery, GovernEvery} \subseteq Nat \ {0}
    /\ \A k \in {FeedbackEvery, CompressEvery, GovernEvery} : k % GraphEvery = 0
ASSUME HistoryAssumption == MaxActive \in Nat /\ History \in Nat /\ History >= 4
ASSUME MeasureAssumption ==
    /\ \A t \in Trace : t.risk \in Nat
    /\ Queue \subseteq [depth : Nat, dead : Nat, failed : Nat, total : Nat, latency : Nat]
ASSUME SeenAssumption ==
    /\ MaxSeen \in Nat /\ MaxPatterns \in Nat \ {0}
    /\ \A m \in {MaxPatterns, MaxFailures, MaxFingerprints} : m < MaxSeen
    /\ IsFiniteSet({Signature(t) : t \in Trace})
    /\ Cardinality({Signature(t) : t \in Trace}) <= MaxSeen

VARIABLES
    window,         \* active traces
    count,          \* traces ever, the length of the TraceWindow
    drifts,         \* drift counts of the coherence reports
    drift_count,    \* RuntimeState.drift_count
    graph,          \* _causal_graph
    insights,       \* of the last feedback report
    patterns, failures, fingerprints,   \* IntelligenceStore with its miners
    policy,         \* of the store's eviction
    stability,      \* scores of StabilityAnalyzer, and the last anomalies
    confidence,     \* scores of RuntimeConfidenceEngine
    guard,          \* its GradientTransitionGuard
    governance,     \* scores of GovernanceEngine, and the last status
    checkpoint      \* health and governance status of the last checkpoint

assessments == <<stability, confidence, guard, governance, checkpoint>>
store == <<patterns, failures, fingerprints>>
seen_of_loop == <<window, count, drifts, drift_count, graph, insights>>
ovars == <<seen_of_loop, store, policy, assessments>>

-----------------------------------------------------------------------------
(* The intelligence store.  A kind of entry is what its miner has seen, the *)
(* keys in the order of insertion, the entries, and what the eviction       *)
(* strategy remembers: keys in order for FIFO, frequencies for FAA.         *)

EmptyKind == [seen |-> <<>>, order |-> <<>>, entry |-> <<>>, inserted |-> <<>>, weight |-> <<>>]

At(f, k, default) == IF k \in DOMAIN f THEN f[k] ELSE default

\* FIFOEviction keeps keys that have left the store, and rebuilds when it meets one.
Inserted(kind) == IF kind.inserted # <<>> /\ Head(kind.inserted) \in ToSet(kind.order)
                  THEN kind.inserted ELSE kind.order

\* FAAEviction: advance_cycle has no caller, so that the score is the frequency;
\* the first of the least frequent keys goes.
Select(kind) ==
    IF policy = "fifo" THEN Head(Inserted(kind))
    ELSE LET least == Min({At(kind.weight, kind.order[i], 0) : i \in DOMAIN kind.order})
         IN  kind.order[Min({i \in DOMAIN kind.order : At(kind.weight, kind.order[i], 0) = least})]

\* Mutant: FIFO counts from the last use.
RecordLastUse(kind, key) ==
    [kind EXCEPT !.inserted = Append(RemoveFirst(@, key), key),
                 !.weight = (key :> At(@, key, 0) + 1) @@ @]

RecordAccess(kind, key) ==
    [kind EXCEPT !.inserted = IF key \in ToSet(@) THEN @ ELSE Append(@, key),
                 !.weight = (key :> At(@, key, 0) + 1) @@ @]

\* upsert_*: another occurrence of an entry, or a new one in the place of another.
Again(kind, key, more) ==
    RecordAccess([kind EXCEPT !.entry[key] = [frequency |-> @.frequency + 1,
                                              severity |-> @.severity + more]], key)

Insert(kind, key, limit) ==
    LET full == Len(kind.order) >= limit
        evicted == IF full THEN {Select(kind)} ELSE {}
        kept == IF full THEN RemoveFirst(kind.order, Select(kind)) ELSE kind.order
    IN  RecordAccess([kind EXCEPT
            !.inserted = IF full /\ policy = "fifo" THEN Inserted(kind) ELSE @,
            !.order = Append(kept, key),
            !.entry = [k \in (DOMAIN @ \ evicted) \cup {key} |->
                          IF k = key THEN [frequency |-> 1, severity |-> 1] ELSE kind.entry[k]]], key)

\* One trace in a miner.  A key seen before and no longer stored stays out; the
\* existing entry is merged with itself, so that a failure's severity doubles.
Learn(kind, key, limit) ==
    LET pushed == [kind EXCEPT !.seen = LastOf(Append(RemoveFirst(@, key), key), MaxSeen)]
    IN  IF key \in ToSet(kind.seen)
        THEN IF key \in DOMAIN kind.entry THEN Again(pushed, key, kind.entry[key].severity)
             ELSE pushed
        ELSE IF key \in DOMAIN kind.entry THEN Again(pushed, key, 1)
        ELSE Insert(pushed, key, limit)

\* DecisionFingerprintBuilder leaves what it knows as it is.
LearnOnce(kind, key, limit) ==
    LET pushed == [kind EXCEPT !.seen = LastOf(Append(RemoveFirst(@, key), key), MaxSeen)]
    IN  IF key \in ToSet(kind.seen) \cup DOMAIN kind.entry THEN pushed
        ELSE Insert(pushed, key, limit)

\* PatternMiner stores the digest of a signature.
Md5(signature) == <<"md5", signature>>

MinePatterns(traces) ==
    FoldLeft(LAMBDA k, t : Learn(k, Md5(Signature(t)), MaxPatterns), patterns, traces)
MineFailures(traces) ==
    FoldLeft(LAMBDA k, t : IF IsFailure(t) THEN Learn(k, TriggerChain(t), MaxFailures) ELSE k,
             failures, traces)
MineFingerprints(traces) ==
    FoldLeft(LAMBDA k, t : LearnOnce(k, <<t.verdict, t.risk, t.valid, t.rule>>, MaxFingerprints),
             fingerprints, traces)

-----------------------------------------------------------------------------
(* _finalize_cycle; n is the number of traces with the new one *)

Due(n, every) == n % every = 0

Append1(t) ==
    /\ window' = LastOf(Append(window, t), MaxActive)
    /\ count' = count + 1
    /\ drifts' = LastOf(Append(drifts, DriftCount(t)), MaxReports)
    /\ drift_count' = drift_count + DriftCount(t)

\* Mutant: the graph is built before the trace is appended.
RebuildLate(n) == graph' = IF Due(n, GraphEvery) \/ n <= EarlyGraphs THEN Build(window) ELSE graph

Rebuild(n) == graph' = IF Due(n, GraphEvery) \/ n <= EarlyGraphs THEN Build(window') ELSE graph

Feedback(n) == insights' = IF Due(n, FeedbackEvery) THEN Insights(graph') ELSE insights

Compress(n) ==
    IF Due(n, CompressEvery)
    THEN LET traces == LastOf(window', CompressEvery)
         IN  /\ patterns' = MinePatterns(traces)
             /\ failures' = MineFailures(traces)
             /\ fingerprints' = MineFingerprints(traces)
    ELSE UNCHANGED store

Stabilize(n, failing) ==
    IF Due(n, StabilityEvery)
    THEN LET w == StabilityWindow(LastOf(window', Recent), DOMAIN patterns'.entry)
         IN  \E timing \in Timing :
                stability' = [scores |-> Remember(stability.scores,
                                                  StabilityScore(w, failing, timing), History),
                              repeats |-> w.repeat_rate,
                              anomalies |-> Anomalies(w, failing)]
    ELSE UNCHANGED stability

Assure(n) ==
    IF Due(n, ConfidenceEvery)
    THEN \E queue \in Queue :
            LET score == Confidence(LastOf(window', Recent), queue)
            IN  /\ confidence' = Remember(confidence, score, History)
                /\ guard' = Resolve(guard, score)
    ELSE UNCHANGED <<confidence, guard>>

Govern(n) ==
    IF Due(n, GovernEvery)
    THEN LET entropy == Entropy(window', graph', Cardinality(DOMAIN patterns'.entry))
             drift == DoctrineDrift(window', drifts')
             pressure == Pressure(window')
             decay == DecaySignals(window', entropy, stability'.scores, confidence', MinDecay)
         IN  governance' = [scores |-> Remember(governance.scores,
                                           GovernanceScore(entropy.overall, drift, pressure, decay), History),
                            status |-> GovernanceStatus(entropy.overall, drift, pressure, decay),
                            inflation |-> entropy.inflation]
    ELSE UNCHANGED governance

\* The stability analysis marks the health, which the checkpoint of the same
\* cycle records and record_cycle then overwrites.
Degraded(n) == Due(n, StabilityEvery) /\ Last(stability'.scores) < 3000

HealthOf(failing) == IF failing >= 5 THEN "critical"
                     ELSE IF failing >= 3 THEN "degraded" ELSE "healthy"

Checkpoint(n, failing) ==
    checkpoint' = IF Due(n, GovernEvery)
                  THEN [health |-> IF Degraded(n) THEN "degraded" ELSE HealthOf(failing),
                        status |-> Level(Last(governance'.scores))]
                  ELSE checkpoint

FinalizeCycle(t, failing) ==
    /\ count < MaxTraces
    /\ Append1(t)
    /\ Rebuild(count') /\ Feedback(count') /\ Compress(count')
    /\ Stabilize(count', failing) /\ Assure(count') /\ Govern(count')
    /\ Checkpoint(count', failing)
    /\ UNCHANGED policy

OInit ==
    /\ window = <<>> /\ count = 0 /\ drifts = <<>> /\ drift_count = 0
    /\ graph = Build(<<>>) /\ insights = {}
    /\ patterns = EmptyKind /\ failures = EmptyKind /\ fingerprints = EmptyKind
    /\ policy \in {"fifo", "faa"}
    /\ stability = [scores |-> <<>>, repeats |-> 0, anomalies |-> {}]
    /\ confidence = <<>>
    /\ guard = [gradient |-> "none", pending |-> NothingPending]
    /\ governance = [scores |-> <<>>, status |-> 0, inflation |-> 0]
    /\ checkpoint = [health |-> "healthy", status |-> 0]

ONext == \E t \in Trace, failing \in Failing : FinalizeCycle(t, failing)

OSpec == OInit /\ [][ONext]_ovars

-----------------------------------------------------------------------------
(* Properties *)

\* Whoever reads the causal graph in a cycle (feedback, compression, governance)
\* reads the graph of the window of that cycle, although it is rebuilt rarely.
GraphIsCurrentWhenUsed ==
    (\E k \in {FeedbackEvery, CompressEvery, GovernEvery} : count % k = 0) => graph = Build(window)

\* From every host event both walks come to the outcome, no node is an orphan,
\* no edge is missing and none leads back, also when an event was retried and
\* its nodes replaced by those of another path.  Impossible transitions are
\* reported of events that preflight rejected, and of them only.
GraphIsSound ==
    /\ \A n \in OfType(graph, "host_event") :
          /\ Last(Traverse(graph, n))[2] = "outcome"
          /\ FindsOutcome(graph, n)
    /\ Orphans(graph) = {} /\ MissingEdges(graph) = {} /\ Backward(graph) = {}
    /\ CriticalEvents(graph) =
          {n[1] : n \in {m \in OfType(graph, "host_event") :
                            <<m[1], "decision">> \in Outgoing(graph, m)}}

\* Under FIFO what leaves the store was in it longer than all that stays, also
\* with the keys the strategy keeps of entries that have left.
EvictsOldestFirst ==
    [][policy = "fifo" => \A i, j \in DOMAIN patterns.order :
          i < j /\ patterns.order[j] \notin DOMAIN patterns'.entry
              => patterns.order[i] \notin DOMAIN patterns'.entry]_ovars

\* Between levels that are not CRITICAL the gradient changes only when two of the
\* last four scores were of the new level, so that one reading never moves it to
\* another level and the next one back.
NoFlapping ==
    [][guard'.gradient # guard.gradient /\ "CRITICAL" \notin {guard.gradient, guard'.gradient}
            /\ guard.gradient # "none"
          => 2 <= Cardinality({i \in DOMAIN LastOf(confidence', 4) :
                      Classify(LastOf(confidence', 4)[i]) = guard'.gradient})]_ovars

\* A window in which an execution failed instead of succeeding scores no better,
\* in stability and in confidence.
FailureLowersScores ==
    \A i \in DOMAIN window :
        window[i].exec = "SUCCESS" =>
            LET t == window[i]
                worse == [window EXCEPT ![i] = Normalize(t.event, t.valid, t.verdict, t.rule,
                                                         "FAILED", t.risk)]
                Score(w) == StabilityScore(StabilityWindow(w, DOMAIN patterns.entry), 0, Scale)
            IN  /\ Score(worse) <= Score(window)
                /\ \A q \in Queue : Confidence(worse, q) <= Confidence(window, q)

\* The signature of a failure names the layer that the explanation of the same
\* trace blames, preflight, P4 or the sandbox, and calls every failure of an event
\* that came to a decision critical.
ExplainedAlike ==
    \A i \in DOMAIN window :
        LET t == window[i]
        IN  /\ IsFailure(t) <=> Explanation(t).chain # <<>>
            /\ IsFailure(t) /\ t.valid <=> Severity(t) = "critical"
            /\ Explanation(t).sandbox <=> "SANDBOX_FAILED" \in ToSet(TriggerChain(t))
            /\ Explanation(t).denial <=> \E v \in Refusals : P4Status[v] \in ToSet(TriggerChain(t))

\* No trace of the window can be exchanged for another outcome of its event
\* without the drift detector seeing it, an earlier attempt included.
DriftSeen ==
    \A i \in DOMAIN window : \A t \in Trace :
        t.event = window[i].event /\ Part(t) # Part(window[i])
            => HasDrift(window, [window EXCEPT ![i] = t])

=============================================================================
