--------------------------- MODULE CypherRewrite ---------------------------
(* inject_tenant_label and has_write_operators of rb-storage-neo4j, on a     *)
(* query as a sequence of tokens; a string, a comment and the content of a   *)
(* bracket are one token each.                                               *)
EXTENDS Naturals, Sequences, FiniteSets, SequencesExt

PathStart == {"MATCH", "CREATE", "MERGE"}
PathEnd == {"WHERE", "WITH", "RETURN", "SET", "DELETE"}
Names == {"n", "m", "p", "exists", "shortestPath", "OPTIONAL"}
Words == PathStart \cup PathEnd \cup Names
TenantLabel == ":Tenant"

----------------------------------------------------------------------------
(* The scanner: where it goes on, what is out, whether a path clause is open *)
(* and which, whether the last token was a name, what MATCH has bound.       *)

ScanStart == [at |-> 1, out |-> <<>>, kind |-> "none", name |-> FALSE, bound |-> {}, error |-> "none"]

(* collect_node_pattern: up to the parenthesis that closes it outside braces.*)
NodeEnd(q, i) ==
    LET Depth(j) == Cardinality({k \in i..j : q[k] = "{"}) - Cardinality({k \in i..j : q[k] = "}"})
        ends == {j \in i..Len(q) : q[j] = ")" /\ Depth(j) = 0}
    IN  IF ends = {} THEN 0 ELSE CHOOSE j \in ends : \A k \in ends : j <= k
VarOf(inner) == LET t == SelectSeq(inner, LAMBDA x : x # " ")
                IN  IF t # <<>> /\ Head(t) \in Words THEN Head(t) ELSE "none"
RestOf(inner) == LET t == SelectSeq(inner, LAMBDA x : x # " ")
                 IN  IF VarOf(inner) = "none" THEN t ELSE Tail(t)
SpliceLabel(inner) ==
    LET lead == IF inner # <<>> /\ Head(inner) = " " THEN <<" ">> ELSE <<>>
        var  == IF VarOf(inner) = "none" THEN <<>> ELSE <<VarOf(inner)>>
    IN  lead \o var \o <<TenantLabel>> \o RestOf(inner)
\* Mutant: a variable that MATCH has bound is labelled again.
NoBoundRef(s, inner) == FALSE
BoundRef(s, inner) ==
    s.kind \in {"CREATE", "MERGE"} /\ VarOf(inner) \in s.bound /\ RestOf(inner) = <<>>

ScanWord(s, w) ==
    [s EXCEPT !.out = Append(@, w),
              !.kind = IF w \in PathStart THEN w ELSE IF w \in PathEnd THEN "none" ELSE @,
              !.name = w \notin PathStart]
ScanNode(s, inner) ==
    [s EXCEPT !.out = @ \o <<"(">> \o (IF BoundRef(s, inner) THEN inner ELSE SpliceLabel(inner)) \o <<")">>,
              !.bound = IF s.kind = "MATCH" /\ VarOf(inner) # "none" THEN @ \cup {VarOf(inner)} ELSE @,
              !.name = FALSE]
\* Mutant: the call of a function is taken for a node.
AnyParen(s) == s.kind # "none"
OpensNode(s) == s.kind # "none" /\ ~s.name

\* What the scanner makes of the token at i.
ScanToken(q, i, t) ==
    LET s == [t EXCEPT !.at = i + 1]
        e == NodeEnd(q, i + 1)
    IN  CASE q[i] = ";"      -> [s EXCEPT !.error = "MultiStatement"]
          [] q[i] \in Words  -> ScanWord(s, q[i])
          [] q[i] = "(" /\ OpensNode(s) ->
               IF e = 0 THEN [s EXCEPT !.error = "UnclosedNodePattern"]
               ELSE [ScanNode(s, SubSeq(q, i + 1, e - 1)) EXCEPT !.at = e + 1]
          [] OTHER -> [s EXCEPT !.out = Append(@, q[i]), !.name = IF q[i] \in {" ", "/*(*/"} THEN @ ELSE FALSE]
Scan(q) ==
    LET upTo[i \in 0..Len(q)] ==
            IF i = 0 THEN ScanStart
            ELSE LET s == upTo[i - 1]
                 IN  IF i < s.at \/ s.error # "none" THEN s ELSE ScanToken(q, i, s)
    IN  upTo[Len(q)]
InjectTenantLabel(q) == Scan(q)

\* Mutant: MERGE does not count.
FewWriteKeywords == {"CREATE", "SET", "DELETE"}
WriteKeywords == {"CREATE", "MERGE", "SET", "DELETE"}
HasWriteOperators(q) == \E i \in DOMAIN q : q[i] \in WriteKeywords

(* TenantGraph: every query goes out with the label of its tenant or not at  *)
(* all.                                                                      *)
RunQuery(q) == LET s == InjectTenantLabel(q) IN IF s.error = "none" THEN <<s.out>> ELSE <<>>

----------------------------------------------------------------------------
(* Queries made of clauses, of which it is known what each parenthesis is.   *)
Node(inner) == [node |-> TRUE, text |-> inner]
Text(ts) == [node |-> FALSE, text |-> ts]

CypherNodes == { <<>>, <<"n">>, <<"m">>, <<" ", "n">>, <<"n", ":Foo">>, <<":Foo">>,
                 <<"n", "{", "exists", "(", ")", "}">> }
CypherPaths ==
    {<<Node(a)>> : a \in CypherNodes} \cup {<<Node(a), Text(<<"-", "[(]", "->">>), Node(b)>> : a, b \in CypherNodes}
        \cup {<<Text(<<"p", "=", "shortestPath", "(">>), Node(a), Text(<<"-", "[]", "-">>), Node(<<"m">>), Text(<<")">>)>> : a \in CypherNodes}
CypherTails == { <<>>, <<"WHERE", "exists", "(", "n", ")">>, <<"RETURN", "'(;'">>, <<"SET", "n", "=", "(", "'a'", ")">>, <<"/*(*/">> }
CypherClauses == [start : {"MATCH", "CREATE", "MERGE"}, path : CypherPaths, tail : CypherTails]
FewClauses == {c \in CypherClauses : c.tail \in {<<>>, <<"RETURN", "'(;'">>} /\ Len(c.path) = 1}
CypherQueries == {<<c>> : c \in CypherClauses} \cup {<<c, d>> : c \in FewClauses, d \in CypherClauses}

ClauseTokens(c) ==
    <<c.start>> \o FlattenSeq([i \in DOMAIN c.path |->
        IF c.path[i].node THEN <<"(">> \o c.path[i].text \o <<")">> ELSE c.path[i].text]) \o c.tail
QueryTokens(q) == FlattenSeq([i \in DOMAIN q |-> ClauseTokens(q[i])])
MatchedBefore(q, k) ==
    LET NodesOf(c) == {VarOf(p.text) : p \in {p \in ToSet(c.path) : p.node}}
    IN  UNION {NodesOf(q[i]) : i \in {i \in 1..(k - 1) : q[i].start = "MATCH"}}
Labelled(q, k) ==
    LET c == q[k]
        Ref(t) == c.start # "MATCH" /\ t \in {<<v>> : v \in MatchedBefore(q, k)} \cup {<<" ", v>> : v \in MatchedBefore(q, k)}
    IN  [c EXCEPT !.path = [i \in DOMAIN c.path |->
            IF c.path[i].node /\ ~Ref(c.path[i].text) THEN Node(SpliceLabel(c.path[i].text)) ELSE c.path[i]]]

(* Every node of a pattern gets the label of the tenant, a reference to a    *)
(* node that is bound does not, and nothing else changes: no call, bracket,  *)
(* string or comment.                                                        *)
LabelsEveryNode(q) ==
    RunQuery(QueryTokens(q)) = <<QueryTokens([k \in DOMAIN q |-> Labelled(q, k)])>>

(* A query is denied as a write exactly if one of its clauses writes.        *)
DeniesWrites(q) ==
    HasWriteOperators(QueryTokens(q))
        <=> \E k \in DOMAIN q : q[k].start # "MATCH" \/ (q[k].tail # <<>> /\ Head(q[k].tail) = "SET")
=============================================================================
