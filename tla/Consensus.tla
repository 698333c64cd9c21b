------------------------------ MODULE Consensus ------------------------------
(***************************************************************************)
(* distributed_consensus/: the vote on a schema version, the resolution of *)
(* its conflicts, and the reality that is stored.  A proposal is a node, a *)
(* version and two scores in percent; proposals is the list of them in the *)
(* order of arrival, one of each node.  A weight is in hundredths of a     *)
(* percent, times Parts, so that the mean of a small group is whole.       *)
(***************************************************************************)
EXTENDS SchemaEvolution

Parts == 60
CONSENSUS_THRESHOLD == 7000 * Parts
CONFLICT_MARGIN == 500 * Parts

Nodes(group) == {p.node : p \in group}

\* groups.setdefault: what is in a group, and the positions of the proposals that
\* open one, which is the order of the groups.
Group(proposals, v) == {p \in ToSet(proposals) : p.version = v}
Groups(proposals) == {p.version : p \in ToSet(proposals)}
Opens(proposals, i) == \A j \in 1..i - 1 : proposals[j].version # proposals[i].version

Mean(Score(_), group) == (Parts * MapThenSumSet(Score, group)) \div Cardinality(group)

-----------------------------------------------------------------------------
(* ConsensusEngine *)

IndexIn(s, x) == CHOOSE i \in DOMAIN s : s[i] = x

\* _graph_freshness, in percent: how near a version is to the current one.
GraphFreshness(graph, current, v) ==
    IF v = current THEN 100
    ELSE IF current \in ToSet(GetAncestors(graph, v)) THEN 50
    ELSE IF v \in ToSet(GetAncestors(graph, current))
         THEN Max({10, 100 - 30 * IndexIn(GetAncestors(graph, current), v)})
    ELSE 0

Weight(graph, current, p) ==
    40 * p.stability + 40 * p.confidence + 20 * GraphFreshness(graph, current, p.version)

MeanWeight(graph, current, proposals, v) ==
    Mean(LAMBDA p : Weight(graph, current, p), Group(proposals, v))

\* The sort by weight is stable: of equal groups the first one to arrive leads.
Dominant(graph, current, proposals) ==
    LET W(v) == MeanWeight(graph, current, proposals, v)
        leading == {i \in DOMAIN proposals :
                       \A v \in Groups(proposals) : W(proposals[i].version) >= W(v)}
    IN  proposals[Min(leading)].version

\* Mutant: groups of equal weight are not taken for a conflict.
CloseMarginOfUnequal(lead, weight) == weight < lead /\ lead - weight < CONFLICT_MARGIN

CloseMargin(lead, weight) == lead - weight < CONFLICT_MARGIN

Conflicts(graph, current, proposals, dominant) ==
    LET W(v) == MeanWeight(graph, current, proposals, v)
        others == Groups(proposals) \ {dominant}
    IN  {<<"close_margin", v>> : v \in {u \in others : CloseMargin(W(dominant), W(u))}}
        \cup {<<"unknown_schema", v>> : v \in others \ DOMAIN graph}
        \cup {<<"orphan_schema", v>> : v \in others \cap DetectOrphans(graph)}
        \cup {<<"incompatible_path", v>> :
                 v \in {u \in others : /\ ~IsBackwardCompatible(u, dominant)
                                       /\ ~IsSupported(graph, u, dominant)}}

Result(agreed, participating, rejected, conflicts) ==
    [agreed |-> agreed, participating |-> participating, rejected |-> rejected,
     conflicts |-> conflicts]

\* propose: below the threshold the current version stays, and the nodes of the
\* leading group are still the ones that participate.
Propose(graph, current, proposals) ==
    IF proposals = <<>> THEN Result(current, {}, {}, {<<"no_proposals", current>>})
    ELSE LET dominant == Dominant(graph, current, proposals)
             lead == MeanWeight(graph, current, proposals, dominant)
             nodes == Nodes(Group(proposals, dominant))
         IN  IF lead < CONSENSUS_THRESHOLD
             THEN Result(current, nodes, Nodes(ToSet(proposals)) \ nodes, {<<"below_threshold", dominant>>})
             ELSE Result(dominant, nodes, Nodes(ToSet(proposals)) \ nodes,
                         Conflicts(graph, current, proposals, dominant))

-----------------------------------------------------------------------------
(* ConflictResolver; a node is a number, in the order of the identifiers *)

ResolutionStrategy == {"VERSION_PRIORITY", "STABILITY_PRIORITY", "MIGRATION_COST_MINIMIZATION"}

Newer(v, w) == \/ v[1] > w[1]
               \/ v[1] = w[1] /\ v[2] > w[2]
               \/ v[1] = w[1] /\ v[2] = w[2] /\ v[3] > w[3]

MigrationCost(graph, proposals, v) ==
    MapThenSumSet(LAMBDA u : IF u = v \/ IsBackwardCompatible(u, v) THEN 0
                             ELSE IF IsSupported(graph, u, v) THEN Len(Steps(graph, u, v))
                             ELSE 10,
                  Groups(proposals))

\* What a strategy makes as small as it can.
Cost(graph, strategy, proposals, v) ==
    IF strategy = "STABILITY_PRIORITY" THEN -Mean(LAMBDA p : p.stability, Group(proposals, v))
    ELSE MigrationCost(graph, proposals, v)

Tiebreak(proposals, v, w) ==
    Min(Nodes(Group(proposals, v))) < Min(Nodes(Group(proposals, w)))

Beats(graph, strategy, proposals, v, w) ==
    \/ Cost(graph, strategy, proposals, v) < Cost(graph, strategy, proposals, w)
    \/ /\ Cost(graph, strategy, proposals, v) = Cost(graph, strategy, proposals, w)
       /\ Tiebreak(proposals, v, w)

\* The loop over the groups in _resolve_by_stability and _resolve_by_migration_cost:
\* the best of the groups that the first k proposals open.
Chosen(graph, strategy, proposals) ==
    LET best[k \in 1..Len(proposals)] ==
            LET v == proposals[k].version
                so_far == best[k - 1]
            IN  IF k = 1 \/ (Opens(proposals, k) /\ Beats(graph, strategy, proposals, v, so_far))
                THEN v ELSE so_far
    IN  best[Len(proposals)]

\* Of different versions one is the newest: the tiebreak of
\* _resolve_by_version_priority has nothing to decide.
Resolve(graph, current, strategy, proposals) ==
    LET versions == Groups(proposals)
        chosen == IF proposals = <<>> THEN current
                  ELSE IF strategy = "VERSION_PRIORITY"
                  THEN CHOOSE v \in versions : \A w \in versions \ {v} : Newer(v, w)
                  ELSE Chosen(graph, strategy, proposals)
        nodes == Nodes(Group(proposals, chosen))
    IN  Result(chosen, nodes, Nodes(ToSet(proposals)) \ nodes, {})

\* DistributedRealityStore: the digest is over what it comes with.
Reality(result) == [version |-> result.agreed, active |-> result.participating,
                    rejected |-> result.rejected]

=============================================================================
