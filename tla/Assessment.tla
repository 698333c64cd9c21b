----------------------------- MODULE Assessment -----------------------------
(***************************************************************************)
(* The scores that RuntimeLoop computes from a window of traces: stability *)
(* (stability/), confidence (confidence/) and governance (governance/).    *)
(* A score is a whole number of hundredths of a percent, 0 to Scale; the   *)
(* code rounds at the fourth decimal where \div cuts.  Clock readings      *)
(* reach these scores only as the timing stability and the latency health  *)
(* (queue.latency), which are parameters.                                  *)
(***************************************************************************)
EXTENDS CausalGraph

Scale == 10000
Ratio(a, b) == (Scale * a) \div b
AtMost1(x) == Min({Scale, x})
Positive(x) == Max({0, x})
Total(s) == FoldLeft(LAMBDA a, b : a + b, 0, s)

LastOf(s, n) == SubSeq(s, Positive(Len(s) - n) + 1, Len(s))

\* history.append(x), and the first one is dropped above the limit.
Remember(history, x, limit) == LastOf(Append(history, x), limit)

-----------------------------------------------------------------------------
(* StabilityAnalyzer *)

Signature(t) == <<t.valid, t.verdict, t.exec, t.final>>

\* The drift of _compute_window, in which the elif counts a trace once.
Drifts(t) == \/ t.valid /\ t.verdict \in {"BLOCK", "DEFER"}
             \/ t.verdict = "ALLOW" /\ t.exec = "FAILED"
             \/ t.risk > 90 /\ t.verdict = "ALLOW"

\* recovery_speed is the count of consecutive failures.
RegressionScore(failures) == IF failures >= 5 THEN 0 ELSE IF failures >= 3 THEN 3000
                             ELSE IF failures >= 1 THEN 7000 ELSE Scale

\* The signatures are looked up in the store as they are.
StabilityWindow(traces, known) ==
    LET signatures == {Signature(traces[i]) : i \in DOMAIN traces}
    IN  [failure_rate |-> Ratio(Cardinality({i \in DOMAIN traces : traces[i].exec = "FAILED"}), Len(traces)),
         drift_rate   |-> Ratio(Cardinality({i \in DOMAIN traces : Drifts(traces[i])}), Len(traces)),
         repeat_rate  |-> Ratio(Cardinality({i \in DOMAIN traces : Signature(traces[i]) \in known}), Len(traces)),
         new_ratio    |-> Ratio(Cardinality(signatures \ known), Cardinality(signatures))]

StabilityScore(window, failures, timing) ==
    (30 * (Scale - window.failure_rate) + 20 * (Scale - window.drift_rate)
        + 15 * window.repeat_rate + 10 * timing + 10 * (Scale - window.new_ratio)
        + 15 * RegressionScore(failures)) \div 100

\* _detect_anomalies, without the one about timing.
Anomalies(window, failures) ==
    {a \in {"high_failure_rate", "elevated_drift_rate", "high_pattern_novelty",
            "system_regression", "stuck_in_failure"} :
        \/ a = "high_failure_rate" /\ window.failure_rate > 3000
        \/ a = "elevated_drift_rate" /\ window.drift_rate > 2000
        \/ a = "high_pattern_novelty" /\ window.new_ratio > 5000
        \/ a = "system_regression" /\ RegressionScore(failures) < 5000
        \/ a = "stuck_in_failure" /\ failures >= 5}

-----------------------------------------------------------------------------
(* RuntimeConfidenceEngine *)

Distance(a, b) == IF a > b THEN a - b ELSE b - a

\* Risk is in percent: twice the distance to one half.
RiskCertainty(traces) ==
    AtMost1((200 * Total([i \in DOMAIN traces |-> Distance(traces[i].risk, 50)])) \div Len(traces))

VerdictClarity(traces) ==
    Max({Ratio(Cardinality({i \in DOMAIN traces : traces[i].verdict = v}), Len(traces)) : v \in Verdicts})

Triggered(traces) == {i \in DOMAIN traces : traces[i].rule # "none"}

DecisionConfidence(traces) ==
    (50 * RiskCertainty(traces) + 30 * VerdictClarity(traces)
        + 20 * (Scale - Ratio(Cardinality(Triggered(traces)), Len(traces)))) \div 100

\* OperationalReadinessAnalyzer, of what the queue's statistics say.
OperationalConfidence(queue) ==
    LET depth == Scale - AtMost1(Ratio(queue.depth, 100))
        processing == Scale - AtMost1(Ratio(queue.dead + queue.failed, Max({1, queue.total})))
    IN  (40 * depth + 30 * processing + 30 * queue.latency) \div 100

\* Mutant: the executions that failed are taken for those that succeeded.
ExecutionConfidenceOfFailed(traces) ==
    LET allowed == {i \in DOMAIN traces : traces[i].verdict = "ALLOW"}
    IN  IF allowed = {} THEN Scale \div 2
        ELSE Ratio(Cardinality({i \in allowed : traces[i].exec # "SUCCESS"}), Cardinality(allowed))

\* The success rate of what was allowed, times half of one plus the allow rate.
ExecutionConfidence(traces) ==
    LET allowed == {i \in DOMAIN traces : traces[i].verdict = "ALLOW"}
        succeeded == {i \in allowed : traces[i].exec = "SUCCESS"}
    IN  IF allowed = {} THEN Scale \div 2
        ELSE (Scale * Cardinality(succeeded) * (Len(traces) + Cardinality(allowed)))
                 \div (2 * Len(traces) * Cardinality(allowed))

Confidence(traces, queue) ==
    (40 * DecisionConfidence(traces) + 30 * OperationalConfidence(queue)
        + 30 * ExecutionConfidence(traces)) \div 100

\* GradientTransitionGuard
Gradients == {"HIGH", "MEDIUM", "LOW", "CRITICAL"}

Classify(score) == IF score >= 8000 THEN "HIGH" ELSE IF score >= 5000 THEN "MEDIUM"
                   ELSE IF score >= 2000 THEN "LOW" ELSE "CRITICAL"

\* Mutant: every change of gradient is believed at once.
ThresholdNone(from, to) == 1

Threshold(from, to) ==
    CASE to = "CRITICAL" \/ <<from, to>> = <<"CRITICAL", "LOW">> -> 1
      [] <<from, to>> \in {<<"HIGH", "LOW">>, <<"CRITICAL", "HIGH">>} -> 3
      [] OTHER -> 2

NothingPending == [g \in Gradients |-> 0]

\* resolve: the keys of _pending all start with the current gradient.
Resolve(guard, score) ==
    LET desired == Classify(score)
        counted == [guard.pending EXCEPT ![desired] = @ + 1]
    IN  IF \/ guard.gradient \in {"none", desired}
           \/ counted[desired] >= Threshold(guard.gradient, desired)
        THEN [gradient |-> desired, pending |-> NothingPending]
        ELSE [guard EXCEPT !.pending = counted]

-----------------------------------------------------------------------------
(* GovernanceEngine.assess *)

\* EntropyIndex; the ideal is five nodes for a trace.
CausalDensity(nodes, edges) ==
    IF nodes = 0 THEN 0 ELSE AtMost1(4 * Distance(Ratio(edges, nodes), 7500))

\* nodes / max(nodes / 5, traces) is compared with 5; both sides are multiplied
\* by the denominator, five times which is the maximum below.
TraceInflation(nodes, traces) ==
    LET denominator5 == IF nodes > 5 * traces THEN nodes ELSE 5 * traces
    IN  IF nodes <= denominator5 THEN 0
        ELSE AtMost1((Scale * (nodes - denominator5)) \div (2 * denominator5))

Branching(children, nodes) ==
    IF nodes = 0 \/ children <= nodes THEN 0
    ELSE AtMost1((Scale * (children - nodes)) \div (2 * nodes))

Entropy(traces, graph, patterns) ==
    LET nodes == Cardinality(DOMAIN graph.nodes)
        children == MapThenSumSet(LAMBDA n : Len(graph.nodes[n].children), DOMAIN graph.nodes)
        explosion == AtMost1(Ratio(patterns, Len(traces)))
        inflation == TraceInflation(nodes, Len(traces))
    IN  [explosion |-> explosion, inflation |-> inflation,
         overall |-> (30 * CausalDensity(nodes, Len(graph.edges)) + 25 * explosion
                        + 25 * inflation + 20 * Branching(children, nodes)) \div 100]

\* DoctrineDrift, with the drift counts of the last five coherence reports.
DoctrineDrift(traces, drifts) ==
    LET refused == {i \in DOMAIN traces : traces[i].verdict \in {"BLOCK", "DEFER"}}
        overreach == Ratio(Cardinality({i \in DOMAIN traces : ~traces[i].valid}), Len(traces))
        avoidance == Ratio(Cardinality({i \in DOMAIN traces : traces[i].verdict # "ALLOW"}), Len(traces))
        risk == IF refused = {} THEN 0
                ELSE Ratio(Cardinality({i \in refused : traces[i].risk > 50}), Cardinality(refused))
        coherence == IF Len(drifts) < 5 THEN 0 ELSE AtMost1(Ratio(Total(LastOf(drifts, 5)), 5))
    IN  (30 * overreach + 30 * avoidance + 20 * risk + 20 * coherence) \div 100

\* GovernancePressure
Pressure(traces) ==
    LET triggered == Triggered(traces)
        most == Max({0} \cup {Cardinality({i \in triggered : traces[i].rule = traces[j].rule}) :
                              j \in triggered})
        overload == IF triggered = {} THEN 0 ELSE Ratio(most - 1, Cardinality(triggered))
        ambiguous == {i \in DOMAIN traces : traces[i].verdict \in {"DEFER", "REVIEW"}}
        escalated == {i \in DOMAIN traces : traces[i].verdict \in Refusals}
    IN  (30 * Ratio(Cardinality(triggered), Len(traces)) + 30 * overload
            + 25 * Ratio(Cardinality(ambiguous), Len(traces))
            + 15 * Ratio(Cardinality(escalated), Len(traces))) \div 100

\* ArchitecturalDecay: how much less the last of the n scores is than the first,
\* weighed with the entropy, if that is above 0.3.
Declining(history, n, entropy) ==
    LET fall == LastOf(history, n)[1] - Last(history)
    IN  IF Len(history) >= n /\ fall > 500 /\ entropy > 3000 THEN (fall * entropy) \div Scale ELSE 0

\* The statuses that occur more than twice, of all statuses; a tenth is the severity.
Cyclic(traces) ==
    LET statuses == {traces[i].final : i \in DOMAIN traces}
        often == {s \in statuses : Cardinality({i \in DOMAIN traces : traces[i].final = s}) > 2}
    IN  Ratio(Cardinality(often), Cardinality(statuses)) \div 10

\* The severities of the signals that are given; none below MinTraces, 10.
DecaySignals(traces, entropy, stability, confidence, MinTraces) ==
    IF Len(traces) < MinTraces THEN <<>>
    ELSE SelectSeq(<<Cyclic(traces),
                     AtMost1(Declining(stability, 4, entropy.overall)),
                     AtMost1(Declining(confidence, 6, entropy.overall)),
                     IF entropy.explosion > 5000 /\ entropy.inflation > 2000
                     THEN (entropy.explosion * entropy.inflation) \div Scale ELSE 0>>,
                   LAMBDA s : s > 0)

GovernanceScore(entropy, drift, pressure, decay) ==
    AtMost1((35 * entropy + 30 * drift + 25 * pressure
                + 10 * AtMost1(Total(decay) \div Max({1, Len(decay)}))) \div 100)

\* NOMINAL, MONITORING, ELEVATED, CRITICAL.
Level(score) == IF score >= 7000 THEN 3 ELSE IF score >= 5000 THEN 2
                ELSE IF score >= 3000 THEN 1 ELSE 0

GovernanceStatus(entropy, drift, pressure, decay) ==
    Level(Max({entropy, drift, pressure} \cup ToSet(decay)))

=============================================================================
