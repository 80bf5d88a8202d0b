----------------------------- MODULE MCServices -----------------------------
(* Parts of the services that share no state with each other: the lifecycle  *)
(* of one agent session, chat, the audit trail, the Kafka client, the load   *)
(* harness, the admin, API and MCP front doors, and the algorithms.  A       *)
(* behaviour is one of one part, so the run explores the sum of their state  *)
(* spaces and not the product.                                               *)
EXTENDS ControlApiSessions, Chat, KafkaEnvelope, SoakHarness,
        AdminAccess, ApiAccess, McpServer

(* The pure algorithms over bounded inputs: one step takes an input, and the *)
(* invariants say what the algorithm must make of it.                        *)
SQL == INSTANCE SqlSplit
Cypher == INSTANCE CypherRewrite
Graph == INSTANCE GraphWalk
Hybrid == INSTANCE HybridSearch

VARIABLE sample    \* an input and the algorithm it is for

None == <<>>
Input(algorithm, x) == [of |-> algorithm, is |-> x]

AlgInit == sample = [of |-> "none", is |-> None]

TakeSql == \E f \in SQL!SqlFiles : sample' = Input("sql", f)
TakeCypher == \E q \in Cypher!CypherQueries : sample' = Input("cypher", q)
TakeWalk == \E g \in Graph!WalkInputs : sample' = Input("walk", g)
TakeSearch == \E s \in Hybrid!SearchInputs : sample' = Input("search", s)
TakeExpand == \E e \in Hybrid!ExpandInputs : sample' = Input("expand", e)
TakePages == \E p \in Hybrid!PageInputs : sample' = Input("pages", p)

AlgNext ==
    /\ sample.of = "none"
    /\ TakeSql \/ TakeCypher \/ TakeWalk \/ TakeSearch \/ TakeExpand \/ TakePages

----------------------------------------------------------------------------
(* The parts together.                                                       *)

VARIABLE part    \* the part a behaviour is of

Parts == {"session", "chat", "audit", "kafka", "soak", "admin", "api", "mcp", "algorithms"}

CONSTANTS s1, t1
MCSession == {s1}
MCSessionTenants == {t1}
MCTenantOf == [s \in MCSession |-> t1]

servVars == <<part, vars, chatVars, audVars, kafkaVars, soakVars, admVars, apiVars, mcpVars, sample>>

ServInit ==
    /\ part \in Parts
    /\ Init /\ ChatInit /\ AudInit /\ KafkaInit /\ SoakInit /\ AdminInit /\ AccessInit /\ McpInit /\ AlgInit
    /\ (part # "session") => producer

ServNext ==
    \/ part = "session" /\ Next
       /\ UNCHANGED <<part, chatVars, audVars, kafkaVars, soakVars, admVars, apiVars, mcpVars, sample>>
    \/ part = "chat" /\ ChatNext
       /\ UNCHANGED <<part, vars, audVars, kafkaVars, soakVars, admVars, apiVars, mcpVars, sample>>
    \/ part = "audit" /\ AudNext
       /\ UNCHANGED <<part, vars, chatVars, kafkaVars, soakVars, admVars, apiVars, mcpVars, sample>>
    \/ part = "kafka" /\ KafkaNext
       /\ UNCHANGED <<part, vars, chatVars, audVars, soakVars, admVars, apiVars, mcpVars, sample>>
    \/ part = "soak" /\ SoakNext
       /\ UNCHANGED <<part, vars, chatVars, audVars, kafkaVars, admVars, apiVars, mcpVars, sample>>
    \/ part = "admin" /\ AdminNext
       /\ UNCHANGED <<part, vars, chatVars, audVars, kafkaVars, soakVars, apiVars, mcpVars, sample>>
    \/ part = "api" /\ AccessNext
       /\ UNCHANGED <<part, vars, chatVars, audVars, kafkaVars, soakVars, admVars, mcpVars, sample>>
    \/ part = "mcp" /\ McpNext
       /\ UNCHANGED <<part, vars, chatVars, audVars, kafkaVars, soakVars, admVars, apiVars, sample>>
    \/ part = "algorithms" /\ AlgNext
       /\ UNCHANGED <<part, vars, chatVars, audVars, kafkaVars, soakVars, admVars, apiVars, mcpVars>>

ServSpec == ServInit /\ [][ServNext]_servVars

----------------------------------------------------------------------------
\* split_statements cuts a migration file at the semicolons that stand alone,
\* and at none within a string, a quoted name, a comment or a dollar quote.
SplitsAtSemicolons == sample.of = "sql" => SQL!SplitsAtSemicolons(sample.is)

\* inject_tenant_label gives the tenant's label to every node of a pattern, not
\* to a reference to a bound one, and changes nothing else.
LabelsEveryNode == sample.of = "cypher" => Cypher!LabelsEveryNode(sample.is)

\* has_write_operators denies a query exactly if one of its clauses writes.
DeniesWrites == sample.of = "cypher" => Cypher!DeniesWrites(sample.is)

\* The traversal answers every call that leads one step away from the root, each
\* once, with the depth of its far end.
EdgesAreLevels == sample.of = "walk" => Graph!EdgesAreLevels(sample.is)

\* The traversal flags a cycle among the items it expands.
CyclesFlagged == sample.of = "walk" => Graph!CyclesFlagged(sample.is)

\* The pages of a traversal, each a walk of its own, are the walk.
PagesAreTheWalk == sample.of = "walk" => Graph!PagesAreTheWalk(sample.is)

\* An item both legs rank as high as another, and one of them higher, comes
\* before it in the fused list.
FusionDominates == sample.of = "search" => Hybrid!FusionDominates(sample.is)

\* Of the best items exactly those that can be opened are cited, whichever leg
\* found them.
CitationsOpen == sample.of = "search" => Hybrid!CitationsOpen(sample.is)

\* Reranking loses and doubles no hit, and the best score comes first.
RerankedInOrder == sample.of = "search" => Hybrid!RerankedInOrder(sample.is)

\* A tenant pays for every answer of the model that expands a query, used or
\* not, and no more than n queries are searched for.
AnswersCharged == sample.of = "expand" => Hybrid!AnswersCharged(sample.is)

\* The pages of a vector search without a kind filter are its hits.
VectorPagesCover == sample.of = "pages" => Hybrid!VectorPagesCover(sample.is)

\* Splitting, rewriting, walking and ranking agree with their definitions.
AlgorithmsAgree ==
    /\ SplitsAtSemicolons /\ LabelsEveryNode /\ DeniesWrites
    /\ EdgesAreLevels /\ CyclesFlagged /\ PagesAreTheWalk
    /\ FusionDominates /\ CitationsOpen /\ RerankedInOrder /\ AnswersCharged /\ VectorPagesCover
=============================================================================
