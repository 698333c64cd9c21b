----------------------------- MODULE CausalGraph -----------------------------
(***************************************************************************)
(* Canonical traces, the causal graph built from a window of them, and     *)
(* what the tools of intelligence/ read from both.                         *)
(*                                                                         *)
(* A trace is what these tools tell apart in an ExecutionTrace: its event, *)
(* whether preflight passed, the verdict, the rule it came from, the       *)
(* execution status, the risk in percent, and the final status derived     *)
(* from them.  A node is an event and a stage; a graph is its nodes (to    *)
(* parent, children in order, and the trace it was made of) and edges.     *)
(***************************************************************************)
EXTENDS Integers, FiniteSets, Sequences, SequencesExt

Verdicts == {"ALLOW", "BLOCK", "DEFER", "REVIEW", "BLOCKED_BY_PREFLIGHT"}
Refusals == {"BLOCK", "DEFER", "REVIEW"}
P4Status == [ALLOW |-> "P4_ALLOW", BLOCK |-> "P4_BLOCK", DEFER |-> "P4_DEFER",
             REVIEW |-> "P4_REVIEW", BLOCKED_BY_PREFLIGHT |-> "P4_BLOCKED_BY_PREFLIGHT"]

\* _derive_final_status of what _build_trace passes to it: there always is a
\* verdict, so that BLOCKED_BY_PREFLIGHT and UNKNOWN are never reached.
FinalStatus(verdict, exec) ==
    IF exec = "FAILED" THEN "SANDBOX_FAILED" ELSE P4Status[verdict]

Normalize(event, valid, verdict, rule, exec, risk) ==
    [event |-> event, valid |-> valid, verdict |-> verdict, rule |-> rule,
     exec |-> exec, risk |-> risk, final |-> FinalStatus(verdict, exec)]

\* The traces of RuntimeLoop: an event the preflight rejected has no execution,
\* one that P4 refused has a result that says FAILED.
Rejected(e, r) == Normalize(e, FALSE, "BLOCKED_BY_PREFLIGHT", "none", "", r)
Refused(e, v, u, r) == Normalize(e, TRUE, v, u, "FAILED", r)
Executed(e, x, r) == Normalize(e, TRUE, "ALLOW", "none", x, r)

LoopTraces(Event, Risk, Rule) ==
    {Rejected(e, r) : e \in Event, r \in Risk}
    \cup {Refused(e, v, u, r) : e \in Event, v \in Refusals, u \in Rule, r \in Risk}
    \cup {Executed(e, x, r) : e \in Event, x \in {"SUCCESS", "FAILED"}, r \in Risk}

\* CoherenceMonitor.check_trace: the inconsistencies of a trace.
DriftCount(t) ==
    LET One(P) == IF P THEN 1 ELSE 0
    IN  One(t.valid /\ t.verdict \in {"BLOCK", "DEFER"})
        + One(t.verdict = "ALLOW" /\ t.exec = "FAILED")
        + One(t.valid /\ t.verdict = "ALLOW" /\ t.risk > 90)

-----------------------------------------------------------------------------
(* CausalGraphBuilder.build *)

TakesBlockedPath(t) ==
    \/ t.final = "BLOCKED_BY_PREFLIGHT"
    \/ t.verdict \in Refusals /\ t.final = P4Status[t.verdict]

\* Mutant: an event that was not executed has no outcome.
StagesWithoutOutcome(t) == IF t.exec = "SUCCESS"
                           THEN <<"host_event", "proposal", "decision", "execution", "outcome">>
                           ELSE <<"host_event", "decision", "execution">>

\* The chain of nodes a trace adds, from the host event to the outcome.
Stages(t) ==
    <<"host_event">>
    \o (IF t.valid THEN <<"proposal">> ELSE <<>>)
    \o (IF TakesBlockedPath(t) THEN <<"blocked">> ELSE <<"decision", "execution">>)
    \o <<"outcome">>

EdgesOf(t) == [i \in 1..Len(Stages(t)) - 1 |->
                  [source |-> <<t.event, Stages(t)[i]>>, target |-> <<t.event, Stages(t)[i + 1]>>]]

OutcomeStatus(t) == IF TakesBlockedPath(t) THEN "blocked"
                    ELSE IF t.exec = "SUCCESS" THEN "success" ELSE "failed"

NodesOf(t) == {<<t.event, s>> : s \in ToSet(Stages(t))}

\* A node of an event that was retried is replaced by the later trace's.
Writer(traces, n) == traces[Max({i \in DOMAIN traces : n \in NodesOf(traces[i])})]

Parent(t, n) == LET i == CHOOSE j \in DOMAIN Stages(t) : Stages(t)[j] = n[2]
                IN  IF i = 1 THEN <<>> ELSE <<t.event, Stages(t)[i - 1]>>

\* The children pointers are wired last, from the edges of all traces.
Wire(edges, n) == FoldLeft(LAMBDA kids, e : IF e.source = n /\ e.target \notin ToSet(kids)
                                            THEN Append(kids, e.target) ELSE kids, <<>>, edges)

Build(traces) ==
    LET edges == FlattenSeq([i \in DOMAIN traces |-> EdgesOf(traces[i])])
    IN  [nodes |-> [n \in UNION {NodesOf(traces[i]) : i \in DOMAIN traces} |->
                       LET t == Writer(traces, n)
                       IN  [parent |-> Parent(t, n), children |-> Wire(edges, n), data |-> t]],
         edges |-> edges]

Roots(graph) == {n \in DOMAIN graph.nodes : graph.nodes[n].parent = <<>>}
OfType(graph, type) == {n \in DOMAIN graph.nodes : n[2] = type}
FailurePoints(graph) == {n \in OfType(graph, "outcome") :
                            OutcomeStatus(graph.nodes[n].data) # "success"}

\* traverse: the nodes from n on, always to the first child.
Traverse(graph, n) ==
    LET walk[m \in DOMAIN graph.nodes] ==
            IF graph.nodes[m].children = <<>> THEN <<m>>
            ELSE <<m>> \o walk[Head(graph.nodes[m].children)]
    IN  walk[n]

\* path_to_outcome: the depth-first search finds an outcome if there is one.
FindsOutcome(graph, n) ==
    LET found[m \in DOMAIN graph.nodes] ==
            m[2] = "outcome" \/ \E c \in ToSet(graph.nodes[m].children) : found[c]
    IN  found[n]

\* FeedbackBridge.analyze.  The reasons of failed outcomes are not in the graph,
\* so that all failures make one cluster.
Insights(graph) ==
    {i \in {"layer_dominance", "failure_cluster", "sandbox_enforcement_active",
            "preflight_blocking"} :
        \/ /\ i = "layer_dominance"
           /\ \E n \in DOMAIN graph.nodes :
                  2 * Cardinality(OfType(graph, n[2])) > Cardinality(DOMAIN graph.nodes)
        \/ i = "failure_cluster" /\ FailurePoints(graph) # {}
        \/ /\ i = "sandbox_enforcement_active"
           /\ \E n \in OfType(graph, "execution") : graph.nodes[n].data.exec # "SUCCESS"
        \/ /\ i = "preflight_blocking"
           /\ \E n \in OfType(graph, "blocked") :
                  graph.nodes[n].data.verdict = "BLOCKED_BY_PREFLIGHT"}

-----------------------------------------------------------------------------
(* CausalIntegrityEngine.validate *)

ValidTransition == [host_event |-> {"proposal", "blocked"},
                    proposal |-> {"decision", "blocked"},
                    decision |-> {"execution", "blocked"},
                    execution |-> {"outcome"}, blocked |-> {"outcome"}, outcome |-> {}]

Connects(graph, n) == \E i \in DOMAIN graph.edges : n \in {graph.edges[i].source, graph.edges[i].target}

Orphans(graph) == {n \in DOMAIN graph.nodes \ Roots(graph) :
                      graph.nodes[n].children = <<>> /\ ~Connects(graph, n)}

Outgoing(graph, n) == {graph.edges[i].target : i \in {j \in DOMAIN graph.edges :
                                                         graph.edges[j].source = n}}

\* A parent without an edge, or a leaf that has edges in but is no outcome.
MissingEdges(graph) ==
    {n \in DOMAIN graph.nodes :
        \/ /\ graph.nodes[n].parent # <<>>
           /\ n \notin Outgoing(graph, graph.nodes[n].parent)
        \/ /\ n[2] # "outcome" /\ Outgoing(graph, n) = {}
           /\ \E m \in DOMAIN graph.nodes : n \in Outgoing(graph, m)}

\* Edges along which the stages do not go forward; a cycle needs one of them.
Backward(graph) ==
    LET rank == [host_event |-> 0, proposal |-> 1, decision |-> 2, blocked |-> 2,
                 execution |-> 3, outcome |-> 4]
    IN  {i \in DOMAIN graph.edges : rank[graph.edges[i].source[2]] >= rank[graph.edges[i].target[2]]}

Impossible(graph) == {i \in DOMAIN graph.edges :
                         graph.edges[i].target[2] \notin ValidTransition[graph.edges[i].source[2]]}

\* Only cycles and impossible transitions are critical.
CriticalEvents(graph) == {graph.edges[i].source[1] : i \in Impossible(graph)}
Events(graph) == {n[1] : n \in DOMAIN graph.nodes}

-----------------------------------------------------------------------------
(* CausalRuntimeFingerprint and CausalDriftDetector *)

Part(t) == <<t.final, t.verdict, t.exec>>

\* The parts of the traces of an event, in their order.
Attempts(traces, e) ==
    LET upto[n \in 0..Len(traces)] ==
            IF n = 0 THEN <<>>
            ELSE IF traces[n].event = e THEN Append(upto[n - 1], Part(traces[n]))
            ELSE upto[n - 1]
    IN  upto[Len(traces)]

\* The traces are sorted by event, the edges by event and target: what is left
\* is the order of the traces of one event and how often an edge occurs.
Fingerprint(traces) ==
    LET graph == Build(traces)
    IN  [traces |-> [e \in Events(graph) |-> Attempts(traces, e)],
         nodes |-> [n \in DOMAIN graph.nodes |->
                       <<graph.nodes[n].parent, ToSet(graph.nodes[n].children)>>],
         edges |-> [e \in ToSet(graph.edges) |->
                       Cardinality({i \in DOMAIN graph.edges : graph.edges[i] = e})]]

\* One trace for every event, the last.
Latest(traces, e) == Part(traces[Max({i \in DOMAIN traces : traces[i].event = e})])
EventsOf(traces) == {traces[i].event : i \in DOMAIN traces}

Mismatched(baseline, current) ==
    {e \in EventsOf(baseline) \cup EventsOf(current) :
        \/ e \notin EventsOf(baseline) \/ e \notin EventsOf(current)
        \/ <<Latest(baseline, e)[1], Latest(baseline, e)[2]>>
               # <<Latest(current, e)[1], Latest(current, e)[2]>>}

\* Mutant: only the last trace of every event is compared.
HasDriftOfLatest(baseline, current) == Mismatched(baseline, current) # {}

HasDrift(baseline, current) ==
    Mismatched(baseline, current) # {} \/ Fingerprint(baseline) # Fingerprint(current)

-----------------------------------------------------------------------------
(* RuntimeFailureExplainer and FailureSignatureDetector *)

Explanation(t) ==
    [denial  |-> t.verdict \in Refusals,
     sandbox |-> t.verdict \notin Refusals /\ t.exec = "FAILED",
     chain   |-> (IF t.verdict \in Refusals THEN <<"policy_denial">>
                  ELSE IF t.exec = "FAILED" THEN <<"execution_failure">> ELSE <<>>)
                 \o (IF t.final \in {"P4_BLOCK", "P4_BLOCKED_BY_PREFLIGHT"}
                     THEN <<"blocked">> ELSE <<>>)
                 \o (IF t.exec = "FAILED" THEN <<"failed">> ELSE <<>>)]

IsFailure(t) == t.final \in {"SANDBOX_FAILED", "P4_BLOCK", "P4_BLOCKED_BY_PREFLIGHT",
                             "P4_DEFER", "P4_REVIEW"}

\* Mutant: a trace that failed is a failure of the sandbox.
TriggerChainByStatus(t) == IF ~t.valid THEN <<"PREFLIGHT_BLOCK">>
                           ELSE <<"PREFLIGHT_PASS", P4Status[t.verdict], "SANDBOX_FAILED">>

\* _extract_trigger_chain, without the reasons.
TriggerChain(t) ==
    IF ~t.valid THEN <<"PREFLIGHT_BLOCK">>
    ELSE IF t.verdict \in Refusals THEN <<"PREFLIGHT_PASS", P4Status[t.verdict]>>
    ELSE <<"PREFLIGHT_PASS", P4Status[t.verdict]>>
         \o (IF t.exec = "FAILED" THEN <<"SANDBOX_FAILED">> ELSE <<>>)

\* _classify_severity: what P4 refused ends in SANDBOX_FAILED, and is critical.
Severity(t) == IF t.final = "SANDBOX_FAILED" THEN "critical"
               ELSE IF t.verdict = "BLOCK" THEN "high"
               ELSE IF t.verdict \in {"DEFER", "REVIEW"} THEN "medium"
               ELSE IF ~t.valid THEN "low" ELSE "unknown"

=============================================================================
