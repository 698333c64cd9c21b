--------------------------- MODULE ExecutionGraph ---------------------------
(***************************************************************************)
(* execution/execution_graph.py and execution/dependency_resolver.py: the  *)
(* graph of a plan and the algorithms that check and order it.             *)
(*                                                                         *)
(* A graph is [order, mutable, edges]: the node ids in the order in which  *)
(* the dict holds them, those whose action modifies something, and the     *)
(* edges as a list of pairs, in which a pair may occur twice.              *)
(***************************************************************************)
EXTENDS Integers, Sequences, FiniteSets, SequencesExt

EmptyGraph == [order |-> <<>>, mutable |-> {}, edges |-> <<>>]

Nodes(g) == ToSet(g.order)

\* add_node: a node under a known id takes the other one's place.
AddNode(g, n, mutable) ==
    [g EXCEPT !.order = IF n \in Nodes(g) THEN @ ELSE Append(@, n),
              !.mutable = IF mutable THEN @ \cup {n} ELSE @ \ {n}]

\* add_edge, which raises unless both ends are there.
AddEdge(g, a, b) == [g EXCEPT !.edges = Append(@, <<a, b>>)]

\* The edges that lead to n from a node of S.
EdgesInto(g, S, n) ==
    {i \in DOMAIN g.edges : g.edges[i][1] \in S /\ g.edges[i][2] = n}

InDegree(g) == [n \in Nodes(g) |-> Cardinality(EdgesInto(g, Nodes(g), n))]

-----------------------------------------------------------------------------
(* topological_sort *)

\* What has no incoming edge left is queued.
Enqueue(degree, queue, n) == IF degree[n] = 0 THEN Append(queue, n) ELSE queue

\* An edge, if it comes from n, is taken away.
Relaxed(s, edge, n) ==
    LET degree == [s.degree EXCEPT ![edge[2]] = @ - 1]
    IN  IF edge[1] # n THEN s
        ELSE [s EXCEPT !.degree = degree, !.queue = Enqueue(degree, @, edge[2])]

\* Mutant: an edge that is there twice is taken away once.
RelaxOnce(g, s, n) ==
    FoldLeft(LAMBDA t, edge : Relaxed(t, edge, n), s, SetToSeq(ToSet(g.edges)))

\* The dependents of n lose one incoming edge each.
Relax(g, s, n) == FoldLeft(LAMBDA t, edge : Relaxed(t, edge, n), s, g.edges)

\* A turn of the while loop.
SortNext(g, s) ==
    IF s.queue = <<>> THEN s
    ELSE Relax(g, [s EXCEPT !.queue = Tail(@), !.sorted = Append(@, Head(s.queue))],
               Head(s.queue))

\* No node has more than one turn.
TopologicalSort(g) ==
    LET degree == InDegree(g)
        first == FoldLeft(LAMBDA q, n : Enqueue(degree, q, n), <<>>, g.order)
        loop[k \in 0..Len(g.order)] ==
            IF k = 0 THEN [queue |-> first, degree |-> degree, sorted |-> <<>>]
            ELSE SortNext(g, loop[k - 1])
    IN  loop[Len(g.order)].sorted

\* It raises unless every node came out.
Sorts(g) == Len(TopologicalSort(g)) = Len(g.order)

-----------------------------------------------------------------------------
(* detect_cycles and validate *)

\* Colours 0, 1 and 2 are new, on the path, and done.
Search(g) ==
    {s \in [visited : [Nodes(g) -> 0..2], path : Seq(Nodes(g)), cycles : Seq(Seq(Nodes(g)))] :
        \A n \in Nodes(g) : s.visited[n] = 1 => n \in ToSet(s.path)}

\* From the node on the path to which an edge leads, to it again.
CycleTo(path, next) ==
    SubSeq(path, CHOOSE i \in DOMAIN path : path[i] = next, Len(path)) \o <<next>>

\* An edge, if it comes from n, is followed; dfs is the search from its end.
Visit(dfs, s, edge, n) ==
    LET next == edge[2]
    IN  IF edge[1] # n \/ s.visited[next] = 2 THEN s
        ELSE IF s.visited[next] = 1
             THEN [s EXCEPT !.cycles = Append(@, CycleTo(s.path, next))]
             ELSE dfs[next][s]

\* dfs, given the searches it starts.
SearchFrom(g, dfs) ==
    [n \in Nodes(g) |-> [s \in Search(g) |->
        LET entered == [s EXCEPT !.visited[n] = 1, !.path = Append(@, n)]
            left == FoldLeft(LAMBDA t, edge : Visit(dfs, t, edge, n), entered, g.edges)
        IN  [left EXCEPT !.visited[n] = 2, !.path = Front(@)]]]

\* No search is deeper than there are nodes.
DetectCycles(g) ==
    LET first == [visited |-> [n \in Nodes(g) |-> 0], path |-> <<>>, cycles |-> <<>>]
        dfs[k \in 0..Len(g.order)] ==
            IF k = 0 THEN [n \in Nodes(g) |-> [s \in Search(g) |-> s]]
            ELSE SearchFrom(g, dfs[k - 1])
        From(s, n) == IF s.visited[n] = 0 THEN dfs[Len(g.order)][n][s] ELSE s
    IN  FoldLeft(From, first, g.order).cycles

\* validate has no error.  The steps of a plan bring no rollback, so that a
\* node that modifies a file or runs a command is an error.
Validates(g) == DetectCycles(g) = <<>> /\ g.mutable = {}

-----------------------------------------------------------------------------
(* DependencyResolver *)

\* A batch: what has no incoming edge left; its dependents lose theirs.
NextBatch(g, s) ==
    LET batch == {n \in s.remaining : s.degree[n] = 0}
        rest == s.remaining \ batch
        Lost(n) == Cardinality(EdgesInto(g, batch, n))
    IN  IF batch = {} THEN s
        ELSE [remaining |-> rest,
              degree |-> [n \in Nodes(g) |-> IF n \in rest
                              THEN s.degree[n] - Lost(n) ELSE s.degree[n]],
              batches |-> Append(s.batches, batch)]

ParallelSafeBatches(g) ==
    LET loop[k \in 0..Len(g.order)] ==
            IF k = 0 THEN [remaining |-> Nodes(g), degree |-> InDegree(g),
                           batches |-> <<>>]
            ELSE NextBatch(g, loop[k - 1])
    IN  loop[Len(g.order)].batches

\* An edge that comes from n, if a longer path goes on with it.
Longer(longest, best, edge, n) ==
    LET len == longest[edge[2]].len + 1
    IN  IF edge[1] = n /\ len > best.len THEN [len |-> len, next |-> <<edge[2]>>]
        ELSE best

\* longest, given the answers for the dependents: the length of the longest
\* path from a node, and the first dependent that starts one.
LongestFrom(g, longest) ==
    [n \in Nodes(g) |->
        FoldLeft(LAMBDA best, edge : Longer(longest, best, edge, n),
                 [len |-> 1, next |-> <<>>], g.edges)]

\* A turn of the loop that follows the longest path.
Follow(longest, path) ==
    LET next == longest[Last(path)].next
    IN  IF next = <<>> THEN path ELSE Append(path, next[1])

\* Without a cycle no path is longer than there are nodes; on a cycle the
\* recursion of the code does not end.
CriticalPath(g) ==
    LET longest[k \in 0..Len(g.order)] ==
            IF k = 0 THEN [n \in Nodes(g) |-> [len |-> 1, next |-> <<>>]]
            ELSE LongestFrom(g, longest[k - 1])
        memo == longest[Len(g.order)]
        LaterStart(a, b) == IF memo[b].len > memo[a].len THEN b ELSE a
        start == FoldLeft(LaterStart, g.order[1], g.order)
        path[k \in 0..Len(g.order)] ==
            IF k = 0 THEN <<start>> ELSE Follow(memo, path[k - 1])
    IN  IF g.order = <<>> THEN <<>> ELSE path[Len(g.order)]

-----------------------------------------------------------------------------
(* What the algorithms should compute *)

Edge(g, a, b) == \E i \in DOMAIN g.edges : g.edges[i] = <<a, b>>

\* A walk leads from m to n: n is in every set that holds what the edges of m
\* and of its own members lead to.
Reaches(g, m, n) ==
    \A S \in SUBSET Nodes(g) :
        (\A a \in S \cup {m}, b \in Nodes(g) : Edge(g, a, b) => b \in S) => n \in S

IsAcyclic(g) == \A n \in Nodes(g) : ~ Reaches(g, n, n)

IsPath(g, p) == \A i \in 1..(Len(p) - 1) : Edge(g, p[i], p[i + 1])

\* On the same graph, with self-loops and with edges given twice:
\* detect_cycles reports a cycle exactly if there is one, and only closed
\* walks; topological_sort raises exactly then; the batches hold what no
\* cycle leads to, each node after what it depends on.
CyclesAgree(g) ==
    LET acyclic == IsAcyclic(g)
        cycles == DetectCycles(g)
        batches == ParallelSafeBatches(g)
        Stuck(n) == \E m \in Nodes(g) : Reaches(g, m, m) /\ Reaches(g, m, n)
    IN  /\ acyclic <=> cycles = <<>>
        /\ \A c \in ToSet(cycles) : c[1] = Last(c) /\ Len(c) > 1 /\ IsPath(g, c)
        /\ acyclic <=> Sorts(g)
        /\ UNION ToSet(batches) = {n \in Nodes(g) : ~Stuck(n)}
        /\ \A i, j \in DOMAIN batches, m, n \in Nodes(g) :
               /\ m \in batches[i]
               /\ n \in batches[j]
               /\ Edge(g, m, n)
               => i < j

\* On a graph that validates: the order of execution keeps every edge and
\* holds every node once, and the critical path is a path as long as the
\* number of batches, so no schedule by batches could be shorter.
OrdersAgree(g) ==
    LET sorted == TopologicalSort(g)
        critical == CriticalPath(g)
    IN  /\ ToSet(sorted) = Nodes(g)
        /\ \A i, j \in DOMAIN sorted : Edge(g, sorted[i], sorted[j]) => i < j
        /\ IsPath(g, critical)
        /\ Len(critical) = Len(ParallelSafeBatches(g))

=============================================================================
