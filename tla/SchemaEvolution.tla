--------------------------- MODULE SchemaEvolution ---------------------------
(***************************************************************************)
(* schema_evolution/ and distributed_schema/: the lineage of schema        *)
(* versions, the rules on it, and what a node that speaks another version  *)
(* is told.  A version is <<major, minor, patch>>; a graph maps the        *)
(* registered versions to the sequence of their parents.  A trace is what  *)
(* the transformers tell apart: the scale of its risk score and whether it *)
(* has an execution confidence.                                            *)
(***************************************************************************)
EXTENDS Integers, FiniteSets, Sequences, SequencesExt

MAX_SUPPORTED_DELTA == 1

-----------------------------------------------------------------------------
(* EvolutionGraph *)

EmptyGraph == [v \in {} |-> <<>>]

MayRegister(graph, v, parents) ==
    v \notin DOMAIN graph /\ ToSet(parents) \subseteq DOMAIN graph

\* register_node raises on a version known already and on an unknown parent.
RegisterNode(graph, v, parents) ==
    IF MayRegister(graph, v, parents)
    THEN [u \in DOMAIN graph \cup {v} |-> IF u = v THEN parents ELSE graph[u]]
    ELSE graph

\* The lineage follows the first parent, as long as it is registered.
Lineage(graph, v) ==
    LET top == Cardinality(DOMAIN graph)
        up[n \in 0..top] ==
            [u \in DOMAIN graph |->
                IF n = 0 \/ graph[u] = <<>> \/ graph[u][1] \notin DOMAIN graph THEN <<u>>
                ELSE <<u>> \o up[n - 1][graph[u][1]]]
    IN  IF v \in DOMAIN graph THEN up[top][v] ELSE <<>>

GetAncestors(graph, v) == IF Lineage(graph, v) = <<>> THEN <<>> ELSE Tail(Lineage(graph, v))

HasLineageToRoot(graph, v) == v \in DOMAIN graph /\ graph[Last(Lineage(graph, v))] = <<>>
DetectOrphans(graph) == {v \in DOMAIN graph : ~HasLineageToRoot(graph, v)}

IsValidTransition(graph, from, to) ==
    {from, to} \subseteq DOMAIN graph /\ from \in ToSet(graph[to])

-----------------------------------------------------------------------------
(* CompatibilityRules; only the transition looks at the graph *)

Difference(a, b) == IF a > b THEN a - b ELSE b - a
NoJump(from, to) == from[1] = to[1] /\ Difference(from[2], to[2]) <= MAX_SUPPORTED_DELTA

IsBackwardCompatible(from, to) == NoJump(from, to) /\ to[2] >= from[2]
IsForwardCompatible(from, to) == NoJump(from, to) /\ to[2] <= from[2]
IsAllowedTransition(graph, from, to) == IsValidTransition(graph, from, to) /\ NoJump(from, to)

\* BreakingChangeDetector.detect
BreakingReasons(graph, from, to) ==
    {r \in {"orphan_version", "missing_lineage", "illegal_jump", "transition_violation"} :
        \/ r = "orphan_version" /\ to \notin DOMAIN graph
        \/ r = "missing_lineage" /\ ~HasLineageToRoot(graph, to)
        \/ r = "illegal_jump" /\ ~NoJump(from, to)
        \/ r = "transition_violation" /\ ~IsValidTransition(graph, from, to)}

-----------------------------------------------------------------------------
(* MigrationEngine *)

\* The versions from one to the other along the lineage, both included.
Path(graph, from, to) ==
    LET up == Lineage(graph, to)
    IN  Reverse(SubSeq(up, 1, CHOOSE i \in DOMAIN up : up[i] = from))

\* Mutant: only the two ends are compared.
IsSupportedByEnds(graph, from, to) ==
    from # to /\ from[1] = to[1] /\ from \in ToSet(GetAncestors(graph, to))

\* The plan of build_path is supported.
IsSupported(graph, from, to) ==
    /\ from # to /\ from[1] = to[1]
    /\ from \in ToSet(GetAncestors(graph, to))
    /\ LET path == Path(graph, from, to)
       IN  \A i \in 1..Len(path) - 1 : NoJump(path[i], path[i + 1])

Steps(graph, from, to) ==
    LET path == Path(graph, from, to)
    IN  [i \in 1..Len(path) - 1 |-> <<path[i], path[i + 1]>>]

\* TRANSFORMERS has one key.
HasTransformer(step) == step = << <<1, 0, 0>>, <<1, 1, 0>> >>
Transform(t) == [scale |-> "unit", confidence |-> TRUE]

\* migrate_trace raises before it changes anything.
MigrationRaises(graph, from, to) ==
    ~IsSupported(graph, from, to) \/ \E s \in ToSet(Steps(graph, from, to)) : ~HasTransformer(s)

MigrateTrace(graph, t, from, to) == FoldLeft(LAMBDA x, s : Transform(x), t, Steps(graph, from, to))

-----------------------------------------------------------------------------
(* SchemaEvolutionGuard, SchemaSyncEngine, DistributedMigrationOrchestrator *)

\* validate_snapshot, as the version it gives the snapshot, <<>> if it raises.
ValidatedVersion(graph, snapshot, current, traces) ==
    IF snapshot = current \/ IsBackwardCompatible(snapshot, current) THEN snapshot
    ELSE IF ~IsSupported(graph, snapshot, current) THEN <<>>
    ELSE IF traces # <<>> /\ MigrationRaises(graph, snapshot, current) THEN <<>>
    ELSE current

\* Mutant: what the rules refuse is accepted along any path.
EvaluateVersionByPath(graph, version, target) ==
    IF version = target \/ version \in ToSet(GetAncestors(graph, target)) THEN "ACCEPT" ELSE "REJECT"

\* evaluate_node and evaluate_version.
EvaluateVersion(graph, version, target) ==
    IF version = target \/ IsBackwardCompatible(version, target) THEN "ACCEPT"
    ELSE IF IsSupported(graph, version, target) THEN "MIGRATE"
    ELSE "REJECT"

\* synchronize_trace_to_node: the traces a call may give back, none if it raises.
SynchronizedTrace(graph, t, version, current) ==
    LET status == EvaluateVersion(graph, version, current)
    IN  IF status = "ACCEPT" THEN {t}
        ELSE IF status = "MIGRATE" /\ ~MigrationRaises(graph, version, current)
             THEN {MigrateTrace(graph, t, version, current)}
        ELSE {}

=============================================================================
