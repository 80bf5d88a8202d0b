----------------------------- MODULE GraphWalk ------------------------------
(* The callers and callees of an item: rb-query walks the call graph breadth *)
(* first, one query per node and kind of edge, and cuts the edges it found   *)
(* into pages.                                                               *)
EXTENDS Naturals, Sequences, SequencesExt, FiniteSets

\* An edge: the call of an item by another, "calls" or "instantiates".
WalkItems == {"a", "b", "c", "d"}
CallCandidates == {<<"a", "b">>, <<"a", "c">>, <<"b", "c">>, <<"b", "d">>, <<"c", "b">>,
                   <<"c", "d">>, <<"d", "a">>, <<"c", "c">>}
InstCandidates == {<<"b", "d">>}
WalkInputs == [calls : SUBSET CallCandidates, inst : SUBSET InstCandidates,
               dir : {"callers", "callees"}, depth : 0..3, limit : 1..2]

----------------------------------------------------------------------------
\* The rows of a node, in the order the graph gives them (fixed here).
RowOrder == <<"a", "b", "c", "d">>
CallRows(edges, dir, n) ==
    SelectSeq(RowOrder, LAMBDA m : (IF dir = "callers" THEN <<m, n>> ELSE <<n, m>>) \in edges)
RawEdge(dir, n, m, depth, kind) ==
    [from |-> IF dir = "callers" THEN m ELSE n, to |-> IF dir = "callers" THEN n ELSE m,
     far |-> m, depth |-> depth, kind |-> kind]
NodeRows(g, n) == CallRows(g.calls, g.dir, n) \o CallRows(g.inst, g.dir, n)
\* The rows of a frontier: the two queries of its first node, then the next.
Found(g, frontier, depth) ==
    LET E(n, kind, edges) == LET rows == CallRows(edges, g.dir, n)
                             IN  [i \in DOMAIN rows |-> RawEdge(g.dir, n, rows[i], depth, kind)]
    IN  FlattenSeq([i \in DOMAIN frontier |-> E(frontier[i], "calls", g.calls) \o E(frontier[i], "inst", g.inst)])
\* Mutant: a node counts as visited as soon as one edge of the hop led to it.
FreshOnce(g, w, depth) ==
    LET all == Found(g, w.frontier, depth)
        Seen(i) == all[i].far \in w.visited \/ \E j \in 1..(i - 1) : all[j].far = all[i].far
    IN  SelectSeq([i \in DOMAIN all |-> [all[i] EXCEPT !.depth = IF Seen(i) THEN 0 ELSE @]], LAMBDA e : e.depth > 0)
\* one_hop_callers, one_hop_callees: the edges of the frontier to nodes that
\* were not visited before this hop.
OneHop(g, w, depth) == SelectSeq(Found(g, w.frontier, depth), LAMBDA e : e.far \notin w.visited)
\* Mutant: only a way back to the root counts as a cycle.
RootMetAgain(g, w) == \E i \in DOMAIN w.frontier : "a" \in ToSet(NodeRows(g, w.frontier[i]))
MetAgain(g, w) == \E i \in DOMAIN w.frontier : ToSet(NodeRows(g, w.frontier[i])) \cap w.visited # {}

FirstOf(s) == SelectSeq([i \in DOMAIN s |-> IF \E j \in 1..(i - 1) : s[j] = s[i] THEN "" ELSE s[i]],
                        LAMBDA x : x # "")
Hop(g, w, depth) ==
    LET found == OneHop(g, w, depth)
        new == FirstOf([i \in DOMAIN found |-> found[i].far])
    IN  [visited |-> w.visited \cup ToSet(new), frontier |-> new, edges |-> w.edges \o found,
         cycles |-> w.cycles \/ MetAgain(g, w)]
\* fetch_callers, fetch_callees: an empty frontier ends the walk.
Walk(g, root) ==
    FoldLeft(LAMBDA w, d : IF w.frontier = <<>> THEN w ELSE Hop(g, w, d),
             [visited |-> {root}, frontier |-> <<root>>, edges |-> <<>>, cycles |-> FALSE],
             [d \in 1..g.depth |-> d])

\* Mutant: the next page starts after one more edge.
PageAfterEnd(edges, offset, limit) ==
    LET end == IF offset + limit < Len(edges) THEN offset + limit ELSE Len(edges)
    IN  [edges |-> SubSeq(edges, offset + 1, end), next |-> IF end < Len(edges) THEN end + 1 ELSE 0]
\* paginate: next = 0 stands for no cursor.
Paginate(edges, offset, limit) ==
    LET start == IF offset < Len(edges) THEN offset ELSE Len(edges)
        end == IF start + limit < Len(edges) THEN start + limit ELSE Len(edges)
    IN  [edges |-> SubSeq(edges, start + 1, end), next |-> IF end < Len(edges) THEN end ELSE 0]
\* A client that follows the cursors, each page a walk of its own.
AllPages(edges, limit) ==
    FoldLeft(LAMBDA a, i : IF a.next = 0 /\ i > 1 THEN a
                           ELSE LET p == Paginate(edges, a.next, limit)
                                IN  [got |-> a.got \o p.edges, next |-> p.next],
             [got |-> <<>>, next |-> 0], [i \in 1..(Len(edges) + 1) |-> i])

----------------------------------------------------------------------------
(* The reference: distances in the graph.                                    *)
Steps(g, S) == S \cup {m \in WalkItems : \E n \in S : m \in ToSet(NodeRows(g, n))}
Ball(g, k) == FoldLeft(LAMBDA S, i : Steps(g, S), {"a"}, [i \in 1..k |-> i])
Distance(g, n) == CHOOSE k \in 0..4 : (k = 4 \/ n \in Ball(g, k)) /\ \A j \in 0..(k - 1) : n \notin Ball(g, j)
\* Every call that leads one step away from the root, and no other, once for
\* each of its kinds, with the depth of its far end.
EdgesAreLevels(g) ==
    LET w == Walk(g, "a")
        D == [n \in WalkItems |-> Distance(g, n)]
        Between(edges, kind) ==
            UNION {{RawEdge(g.dir, n, m, D[m], kind) :
                       m \in {m \in ToSet(CallRows(edges, g.dir, n)) : D[m] = D[n] + 1 /\ D[m] <= g.depth}} :
                   n \in {n \in WalkItems : D[n] < g.depth}}
    IN  ToSet(w.edges) = Between(g.calls, "calls") \cup Between(g.inst, "inst") /\ IsInjective(w.edges)
\* A cycle among the items the walk expands is flagged.
CyclesFlagged(g) ==
    LET core == IF g.depth = 0 THEN {} ELSE Ball(g, g.depth - 1)
        Next1(S) == {m \in core : \E n \in S : m \in ToSet(NodeRows(g, n))}
        After(n, k) == FoldLeft(LAMBDA S, i : S \cup Next1(S), Next1({n}), [i \in 1..k |-> i])
    IN  (\E n \in core : n \in After(n, 4)) => Walk(g, "a").cycles
\* The pages put together are the walk.
PagesAreTheWalk(g) == LET e == Walk(g, "a").edges IN AllPages(e, g.limit).got = e
=============================================================================
