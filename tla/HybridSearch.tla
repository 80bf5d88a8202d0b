---------------------------- MODULE HybridSearch ----------------------------
(* POST /v1/search: the query and its paraphrases are searched for by vector *)
(* (Qdrant) and by words (Postgres), the ranks are fused, the hits get their *)
(* source path, are cut to the cap of the reranker and reranked.  And the    *)
(* pages of the plain vector search.                                         *)
EXTENDS Naturals, Sequences, SequencesExt, FiniteSets, FiniteSetsExt

\* code_symbols: an fqn stands for one item.  "o" has a point in Qdrant and no
\* row; an item may come without a path.  The legs return distinct items, best
\* first.
Fqns == {"f", "g", "h"}
DistinctSeqs(S, n) == {s \in SeqOf(S, n) : IsInjective(s)}
SearchInputs ==
    [dense : DistinctSeqs(Fqns \cup {"o"}, 3), sparse : DistinctSeqs(Fqns, 2),
     second : {<<>>, <<"g", "h">>}, pathless : {{}, {"h"}},
     ties : {<<"f", "g", "h", "o">>, <<"o", "h", "g", "f">>}, limit : 1..2, cap : 0..1]

----------------------------------------------------------------------------
(* rb-query hybrid.                                                          *)

RRF_K == 60
\* 1 / (k + rank), scaled.
Contribution(rank) == 100000000 \div (RRF_K + rank)
LegScore(leg, x) == MapThenSumSet(LAMBDA i : Contribution(i), {i \in DOMAIN leg : leg[i] = x})
\* Mutant: the words do not count for an item the vectors found.
DenseFirst(dense, sparse, x) == IF x \in ToSet(dense) THEN LegScore(dense, x) ELSE LegScore(sparse, x)
RrfScore(dense, sparse, x) == LegScore(dense, x) + LegScore(sparse, x)
PosIn(s, x) == CHOOSE i \in DOMAIN s : s[i] = x
\* rrf_fuse: descending score, equal scores in the order of the hash map.
RrfFuse(dense, sparse, ties, limit) ==
    LET found == ToSet(dense) \cup ToSet(sparse)
        score == [x \in found |-> RrfScore(dense, sparse, x)]
        ranked == SetToSortSeq(found, LAMBDA x, y : \/ score[x] > score[y]
                                                    \/ score[x] = score[y] /\ PosIn(ties, x) < PosIn(ties, y))
    IN  SubSeq(ranked, 1, Min({limit, Len(ranked)}))

Path(in, x) == IF x \in Fqns \ in.pathless THEN x ELSE ""
\* Mutant: what the words did not find keeps an empty path.
NoBackfill(in, sparse, x) == IF x \in ToSet(sparse) THEN Path(in, x) ELSE ""
\* The row of the sparse leg, else the backfilled one, else nothing.
SourcePath(in, sparse, x) == IF x \in ToSet(sparse) \/ x \in Fqns THEN Path(in, x) ELSE ""
\* build_annotated_hits: what has no path is dropped.
AnnotatedHits(in, fused, sparse) ==
    SelectSeq([i \in DOMAIN fused |-> [fqn |-> fused[i], path |-> SourcePath(in, sparse, fused[i])]],
              LAMBDA hit : hit.path # "")
\* hybrid_search_multi: the ranks run on through the variants.
HybridSearchMulti(in) ==
    LET dense == in.dense \o in.second
        sparse == in.sparse \o in.second
    IN  AnnotatedHits(in, RrfFuse(dense, sparse, in.ties, in.limit), sparse)

----------------------------------------------------------------------------
(* expand_query: n, force_off and budget of the tenant; the answer of the    *)
(* model is none, or its tokens and paraphrases.                             *)
ExpandInputs == [n : 0..4, forceOff : BOOLEAN, budget : 0..2, ok : BOOLEAN, tokens : 0..3, lines : 0..3]
MAX_MULTI_QUERY_N == 3
ResolveN(n, forceOff) == IF forceOff THEN 1 ELSE Min({n, MAX_MULTI_QUERY_N})
\* Mutant: an answer over the budget is not charged.
ChargeUsed(e) == IF e.tokens > e.budget THEN 0 ELSE e.tokens
Charge(e) == e.tokens
\* How many queries are searched for, the original first, and what they cost.
ExpandQuery(e) ==
    LET n == ResolveN(e.n, e.forceOff)
    IN  IF n <= 1 \/ e.budget = 0 \/ ~e.ok THEN [variants |-> 1, tokens |-> 0]
        ELSE [variants |-> 1 + IF e.tokens > e.budget THEN 0 ELSE Min({e.lines, n - 1}), tokens |-> Charge(e)]

----------------------------------------------------------------------------
(* The reranker: its scores, for the hits that are left under the cap.       *)
Clamp(hits, cap) == IF cap = 0 THEN hits ELSE SubSeq(hits, 1, Min({cap, Len(hits)}))
RerankScore == [f |-> 1, g |-> 2, h |-> 2]
\* Mutant: the hits come back in the order they went in.
RerankInOrder(hits) == hits
Rerank(hits) ==
    LET idx == SetToSortSeq(DOMAIN hits, LAMBDA i, j : \/ RerankScore[hits[i].fqn] > RerankScore[hits[j].fqn]
                                                       \/ RerankScore[hits[i].fqn] = RerankScore[hits[j].fqn] /\ i < j)
    IN  [k \in DOMAIN hits |-> hits[idx[k]]]
Search(in) == Rerank(Clamp(HybridSearchMulti(in), in.cap))

----------------------------------------------------------------------------
(* search_by_vector: one more hit than asked for tells whether there is more. *)
PageInputs == [points : DistinctSeqs({"f", "g", "h", "o"}, 4), limit : 1..3]
\* Mutant: the page goes on where the request for it ended.
NextAfterRequest(offset, limit) == offset + limit + 1
NextOffset(offset, limit) == offset + limit
QdrantSearch(points, offset, limit) ==
    LET got == SubSeq(points, offset + 1, Min({Len(points), offset + limit + 1}))
        more == Len(got) > limit
    IN  [hits |-> SubSeq(got, 1, Min({Len(got), limit})), next |-> IF more THEN NextOffset(offset, limit) ELSE 0]
\* Without a kind filter: the hits that have a row.
SearchByVector(p, offset) ==
    LET page == QdrantSearch(p.points, offset, p.limit)
    IN  [hits |-> SelectSeq(page.hits, LAMBDA x : x \in Fqns), next |-> page.next]
VectorPages(p) ==
    FoldLeft(LAMBDA a, i : IF i > 1 /\ a.next = 0 THEN a
                           ELSE LET page == SearchByVector(p, a.next)
                                IN  [got |-> a.got \o page.hits, next |-> page.next],
             [got |-> <<>>, next |-> 0], [i \in 1..5 |-> i])

----------------------------------------------------------------------------
\* What both legs rank at least as high as another item, and one of them
\* higher, comes before it, and is not cut off in its favour.
FusionDominates(in) ==
    LET Rank(leg, x) == IF x \in ToSet(leg) THEN PosIn(leg, x) ELSE 99
        fused == RrfFuse(in.dense, in.sparse, in.ties, in.limit)
    IN  \A x, y \in ToSet(in.dense) \cup ToSet(in.sparse) :
            (/\ Rank(in.dense, x) <= Rank(in.dense, y) /\ Rank(in.sparse, x) <= Rank(in.sparse, y)
             /\ <<Rank(in.dense, x), Rank(in.sparse, x)>> # <<Rank(in.dense, y), Rank(in.sparse, y)>>
             /\ y \in ToSet(fused)) => x \in ToSet(fused) /\ PosIn(fused, x) < PosIn(fused, y)
\* Of the best items all that can be opened are cited, whichever leg found them,
\* and none that cannot.
CitationsOpen(in) ==
    LET best == RrfFuse(in.dense \o in.second, in.sparse \o in.second, in.ties, in.limit)
    IN  {h.fqn : h \in ToSet(HybridSearchMulti(in))} = {x \in ToSet(best) : x \in Fqns \ in.pathless}
\* Reranking loses and doubles nothing, and the best score comes first.
RerankedInOrder(in) ==
    LET r == Search(in)
    IN  /\ ToSet(r) = ToSet(Clamp(HybridSearchMulti(in), in.cap)) /\ IsInjective(r)
        /\ \A i, j \in DOMAIN r : i < j => RerankScore[r[i].fqn] >= RerankScore[r[j].fqn]
\* A tenant pays for every answer of the model, used or not, and never more
\* than n queries are searched for.
AnswersCharged(e) ==
    LET asked == e.ok /\ ~e.forceOff /\ e.n > 1 /\ e.budget > 0
    IN  /\ ExpandQuery(e).tokens = IF asked THEN e.tokens ELSE 0
        /\ ExpandQuery(e).variants \in 1..Max({1, e.n})
\* The pages of a vector search put together are the hits that have a row.
VectorPagesCover(p) == VectorPages(p).got = SelectSeq(p.points, LAMBDA x : x \in Fqns)
=============================================================================
