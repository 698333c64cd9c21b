----------------------------- MODULE Federation -----------------------------
(***************************************************************************)
(* The nodes of a federation: they register the schema versions they know, *)
(* propose the one they speak with their scores, and store the reality the *)
(* vote comes to; their traces make the history that can be rewound, and   *)
(* their scores move the thresholds of the governance.  Proposals arrive   *)
(* in any order: a vote reads them in one of the orders.                   *)
(***************************************************************************)
EXTENDS TimeRewind, GovernanceEvolution

CONSTANTS
    FedNodes,     \* the nodes, numbers in the order of their identifiers
    Versions,     \* the versions
    Current,      \* the version the engines are made with
    Scores,       \* <<stability, confidence>> of a proposal, in percent
    Metrics,      \* what the governance loop is told
    Starts,       \* the thresholds the governance may be made with
    Events,       \* the events of the history
    Numbers,      \* the sequence numbers of the history
    Statuses,     \* the final statuses of the history
    MaxVersions,  \* bound on the versions and proposals before the vote
    MaxHistory,   \* bound on the history
    MaxTicks      \* bound on the cycles of the governance

ASSUME FederationAssumption ==
    /\ FedNodes \subseteq Nat
    /\ Versions \subseteq Nat \X Nat \X Nat /\ Current \in Versions
    /\ Scores \subseteq Nat \X Nat
    /\ Starts \subseteq [Thresholds -> 0..Full] /\ Defaults \in Starts
    /\ Numbers \subseteq Nat

VARIABLES
    graph,       \* EvolutionGraph._nodes
    proposals,   \* the proposals of the next vote
    reality,     \* DistributedRealityStore._reality, {} or one
    history,     \* the traces, as they came
    governance,  \* AdaptiveGovernanceLoop._state
    ticks        \* AdaptiveGovernanceLoop._cycle_count
fvars == <<graph, proposals, reality, history, governance, ticks>>

\* The vote, the history and the governance share no state: the bounds let one
\* of them run, the first two beside a governance as it is made by default, and
\* the vote end it.
Voting == /\ reality = {} /\ history = <<>> /\ ticks = 0 /\ governance = Defaults
          /\ Cardinality(DOMAIN graph) + Cardinality(proposals) < MaxVersions
Recording == /\ graph = EmptyGraph /\ proposals = {} /\ reality = {} /\ ticks = 0
             /\ governance = Defaults /\ Len(history) < MaxHistory
Governing == /\ graph = EmptyGraph /\ proposals = {} /\ reality = {} /\ history = <<>>
             /\ ticks < MaxTicks

FInit ==
    /\ graph = EmptyGraph
    /\ proposals = {} /\ reality = {}
    /\ history = <<>>
    /\ governance \in Starts
    /\ ticks = 0

Register(v, parents) ==
    /\ Voting
    /\ graph' = RegisterNode(graph, v, parents)
    /\ UNCHANGED <<proposals, reality, history, governance, ticks>>

\* _build_proposal: the last scores of the node.
BuildProposal(n, v, score) ==
    /\ Voting /\ n \notin {p.node : p \in proposals}
    /\ proposals' = proposals \cup {[node |-> n, version |-> v,
                                     stability |-> score[1], confidence |-> score[2]]}
    /\ UNCHANGED <<graph, reality, history, governance, ticks>>

\* The consensus part of cycle, with the store of its reality.
Vote(order) ==
    /\ proposals # {}
    /\ reality' = {Reality(Propose(graph, Current, order))}
    /\ proposals' = {}
    /\ UNCHANGED <<graph, history, governance, ticks>>

\* The numbers need not tell traces apart: the runtime loop writes 1 in each,
\* the benchmark one number in all of a cycle, and an event that is run again
\* leaves a trace with the same number.
RecordTrace(s, e, n, status) ==
    /\ Recording
    /\ history' = Append(history, [event |-> e, session |-> s, sequence |-> n,
                                   status |-> status])
    /\ UNCHANGED <<graph, proposals, reality, governance, ticks>>

GovernanceTick(metrics) ==
    /\ Governing
    /\ ticks' = ticks + 1
    /\ governance' = Tick(governance, metrics)
    /\ UNCHANGED <<graph, proposals, reality, history>>

Parents == {<<>>} \cup {<<p>> : p \in Versions}
               \cup {pq \in Versions \X Versions : pq[1] # pq[2]}

FNext ==
    \/ \E v \in Versions, parents \in Parents : Register(v, parents)
    \/ \E n \in FedNodes, v \in Versions, score \in Scores : BuildProposal(n, v, score)
    \/ \E order \in SetToSeqs(proposals) : Vote(order)
    \/ \E s \in FedNodes, e \in Events, n \in Numbers, status \in Statuses :
           RecordTrace(s, e, n, status)
    \/ \E m \in Metrics : GovernanceTick(m)

FSpec == FInit /\ [][FNext]_fvars

-----------------------------------------------------------------------------
(* Properties *)

\* However the versions are registered, none is cut off from a root, a migration
\* is supported only if each of its steps is a transition the rules allow, and a
\* change is free of breaking reasons exactly if the rules allow it, which then
\* call it compatible in one direction at least.
PathsAreLegal ==
    /\ DetectOrphans(graph) = {}
    /\ \A from, to \in Versions :
        /\ IsSupported(graph, from, to) =>
               \A step \in ToSet(Steps(graph, from, to)) :
                   IsAllowedTransition(graph, step[1], step[2])
        /\ BreakingReasons(graph, from, to) = {} <=> IsAllowedTransition(graph, from, to)
        /\ IsAllowedTransition(graph, from, to) =>
               IsBackwardCompatible(from, to) \/ IsForwardCompatible(from, to)

Orders == SetToSeqs(proposals)

\* CONS-001, CONS-003, CONS-004: two orders of arrival agree on one version, or
\* both report that the groups are close; the resolution of the conflict does not
\* depend on the order at all.
OrderMattersOnlyInConflict ==
    LET results == {Propose(graph, Current, o) : o \in Orders}
        Close(r) == \E c \in r.conflicts : c[1] = "close_margin"
    IN  /\ \A a, b \in results : a.agreed # b.agreed => Close(a) /\ Close(b)
        /\ \A s \in ResolutionStrategy :
               Cardinality({Resolve(graph, Current, s, o) : o \in Orders}) = 1

\* The vote, the synchronisation of nodes and the guard of snapshots say the same
\* of a version: one that loses the vote is reported without a path exactly if
\* the synchronisation towards the winner isolates the nodes that speak it, and a
\* snapshot is refused exactly if a node of its version is, or if the migration
\* of a trace it holds would raise.
OneVerdictOnAVersion ==
    /\ proposals # {} => \A o \in Orders :
        LET r == Propose(graph, Current, o)
        IN  <<"below_threshold", Dominant(graph, Current, o)>> \notin r.conflicts =>
                \A p \in proposals :
                    p.node \in r.rejected =>
                        (EvaluateVersion(graph, p.version, r.agreed) = "REJECT"
                             <=> <<"incompatible_path", p.version>> \in r.conflicts)
    /\ \A v \in Versions, traces \in {<<>>, <<[scale |-> "percent", confidence |-> FALSE]>>} :
        ValidatedVersion(graph, v, Current, traces) = <<>> <=>
            IF traces = <<>> THEN EvaluateVersion(graph, v, Current) = "REJECT"
            ELSE SynchronizedTrace(graph, traces[1], v, Current) = {}

\* The ways to put a history in another order, and those that keep the order of
\* traces which the timeline does not tell apart.
Reorderings == {p \in [DOMAIN history -> DOMAIN history] : IsInjective(p)}
Reordered(p) == [i \in DOMAIN history |-> history[p[i]]]
Tie(t, u) == t.session = u.session /\ t.sequence = u.sequence
KeepsTies(p) == \A i, j \in DOMAIN history :
                    i < j /\ Tie(history[p[i]], history[p[j]]) => p[i] < p[j]

\* TIME-001, TIME-002: the timeline is in order, and to rewind gives its
\* beginning, each event as the trace of it given last has it.  Two orders of the
\* same traces replay to the same hash if they agree on the order of ties, and
\* so whatever the order when no two traces tie.
RewindIsPrefix ==
    \A p \in Reorderings :
        LET traces == Reordered(p)
            line == Timeline(traces)
        IN  /\ \A k \in 1..Len(history) - 1 : ~Earlier(line[k + 1], line[k])
            /\ \A time \in 0..Len(history) - 1 :
                LET back == Rewind(time, traces)
                IN  /\ Len(back) = time + 1
                    /\ \A k \in DOMAIN back : back[k].event = line[k].event
                    /\ IsInjective([i \in DOMAIN history |-> history[i].event]) =>
                           back = SubSeq(line, 1, time + 1)
            /\ KeepsTies(p) => /\ ReplayHash(traces) = ReplayHash(history)
                               /\ SameHistory(history, traces)

\* A loop made with no more stability asked than confidence keeps it so, and the
\* guard refuses what its engine proposes only where a threshold at the very top
\* of the scale falls by exactly the limit.  One made the other way round changes
\* only to ask both alike.
EvolutionApproved ==
    \A m \in Metrics :
        LET proposed == Evolve(governance, Evaluate(m))
        IN  IF Balanced(governance)
            THEN /\ Balanced(proposed)
                 /\ \/ Approve(governance, proposed)
                    \/ \E f \in Thresholds : /\ governance[f] >= Full - 5
                                             /\ proposed[f] = governance[f] - MAX_DELTA
            ELSE Approve(governance, proposed) =>
                     proposed.stability_threshold = proposed.confidence_threshold

=============================================================================
