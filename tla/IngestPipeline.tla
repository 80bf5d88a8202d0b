--------------------------- MODULE IngestPipeline ---------------------------
(* The ingestion pipeline: ten consumers in eight services, each reading one *)
(* topic, running the handler IngestWorkers describes and publishing to the  *)
(* next.  A topic is one partition, a sequence of messages; a consumer has a *)
(* position (the next message it fetches) and a committed offset (where it   *)
(* starts again after a restart).  A message whose handler fails is not      *)
(* committed, and the consumer goes on with the next one.                    *)
(*                                                                           *)
(* Bounds: MaxErrors effects fail, MaxCrashes tasks restart.  An instance    *)
(* starts some of the services (one of Deployments); what the others publish *)
(* is in the topics from the start.                                          *)
EXTENDS IngestWorkers, FiniteSets

CONSTANTS
    RunIds,       \* the ingestion runs, one clone command each
    Cap,          \* RB_MONOMORPH_NODE_CAP
    Deployments,  \* sets of consumers that run together
    MaxErrors,
    MaxCrashes

Topics == {"clone", "source", "expand", "expanded", "parse", "parsed", "typecheck",
           "typed", "relation", "embed"}
Consumers == {"clone", "expand", "parse", "typecheck", "graph", "embed",
              "pg_source", "pg_items", "pg_relations", "neo4j"}
Tables == {"code_files", "code_symbols", "code_relations", "nodes", "edges", "vectors"}

ASSUME PipelineAssumption ==
    /\ Cap \in Nat /\ MaxErrors \in Nat /\ MaxCrashes \in Nat /\ IsFiniteSet(RunIds)
    /\ Deployments \subseteq SUBSET Consumers

TopicOf == [c \in Consumers |->
    CASE c = "graph" -> "typed" [] c = "pg_source" -> "source" [] c = "pg_items" -> "parsed"
      [] c \in {"pg_relations", "neo4j"} -> "relation" [] OTHER -> c]

\* The three consumers of projector-pg are polled by one task.
Task(c) == IF c \in {"pg_source", "pg_items", "pg_relations"} THEN "pg" ELSE c

VARIABLES
    deployed,   \* the consumers that run
    topic,      \* [Topics -> Seq(message)]
    position,   \* [Consumers -> Nat] messages fetched
    committed,  \* [Consumers -> Nat] messages committed
    todo,       \* [Consumers -> Seq(effect)] what is left of the running handler
    inHand,    \* [Consumers -> offset of the message in hand, 0 when idle]
    reports,    \* the status events published to rb.projector.events
    blobs,      \* the blob store
    tables,       \* [Tables -> set of rows]
    dlq,        \* the dead letters
    errors, crashes

pipeVars == <<deployed, topic, position, committed, todo, inHand, reports, blobs, tables, dlq,
              errors, crashes>>

TypeInstances == {n \in tables["nodes"] : n[1] = "TypeInstance"}

\* The handler of c, when there are q type instances in the graph.
HandlerAt(c, m, q) ==
    CASE c = "clone" -> CloneRun(m)           [] c = "expand" -> ExpandRun(m)
      [] c = "parse" -> ParseRun(m)           [] c = "typecheck" -> TypecheckRun(m)
      [] c = "graph" -> ExtractRun(m)         [] c = "embed" -> EmbedRun(m)
      [] c = "pg_source" -> HandleSourceFile(m)
      [] c = "pg_items" -> HandleParsedItem(m)
      [] c = "pg_relations" -> HandleRelation(m)
      [] c = "neo4j" -> HandleEnvelope(m, q, Cap)
Handler(c, m) == HandlerAt(c, m, Cardinality(TypeInstances))

ErrorArm(c, m) ==
    CASE c = "clone" -> CloneFailed(m)  [] c = "expand" -> ExpandFailed(m)
      [] c = "parse" -> ParseFailed(m)  [] c = "typecheck" -> TypecheckFailed(m)
      [] c = "graph" -> ExtractFailed(m) [] c = "embed" -> EmbedFailed(m)
      [] c = "neo4j" -> Neo4jFailed(m)  [] OTHER -> PgFailed(m)

----------------------------------------------------------------------------
\* What the consumer c, which does not ask for type instances, does of the messages ms,
\* and what such effects publish on topic t.
Effects(c, ms) == FlattenSeq([k \in DOMAIN ms |-> HandlerAt(c, ms[k], 0)])
Published(t, es) ==
    FlattenSeq([j \in DOMAIN es |->
        IF es[j].do = "publish" /\ es[j].on = t THEN <<es[j].what>> ELSE <<>>])
Commands == LET runs == SetToSeq(RunIds)
            IN  [k \in 1..Len(runs) |-> Envelope(runs[k], NoItem, NoBlob)]
Cloning      == Effects("clone", Commands)
Expanding    == Effects("expand", Published("expand", Cloning))
Parsing      == Effects("parse", Published("parse", Expanding))
Typechecking == Effects("typecheck", Published("typecheck", Parsing))
Extracting   == Effects("graph", Published("typed", Typechecking))

Producer(t) == CASE t \in {"source", "expand"} -> "clone" [] t \in {"expanded", "parse"} -> "expand"
                 [] t \in {"parsed", "typecheck"} -> "parse" [] t = "typed" -> "typecheck"
                 [] t \in {"relation", "embed"} -> "graph" [] t = "clone" -> "api"
All(t) == CASE Producer(t) = "clone"     -> Published(t, Cloning)
            [] Producer(t) = "expand"    -> Published(t, Expanding)
            [] Producer(t) = "parse"     -> Published(t, Parsing)
            [] Producer(t) = "typecheck" -> Published(t, Typechecking)
            [] Producer(t) = "graph"     -> Published(t, Extracting)
            [] OTHER                     -> Commands

\* The topics that services outside this deployment have filled.
Given(D) == {t \in Topics : Producer(t) \notin D /\ \E c \in D : TopicOf[c] = t}

PipeInit ==
    /\ deployed \in Deployments
    /\ topic = [t \in Topics |-> IF t \in Given(deployed) THEN All(t) ELSE <<>>]
    /\ blobs = (UNION {{All(t)[k].blob : k \in DOMAIN All(t)} : t \in Given(deployed)}) \ {NoBlob}
    /\ position = [c \in Consumers |-> 0]
    /\ committed = [c \in Consumers |-> 0]
    /\ todo = [c \in Consumers |-> <<>>]
    /\ inHand = [c \in Consumers |-> 0]
    /\ reports = {} /\ dlq = {}
    /\ tables = [t \in Tables |-> {}]
    /\ errors = 0 /\ crashes = 0

Busy(c) == inHand[c] # 0
TaskBusy(c) == \E d \in Consumers : Task(d) = Task(c) /\ Busy(d)
Message(c) == topic[TopicOf[c]][inHand[c]]

\* next() yields the message after the last one fetched.
Fetch(c) ==
    /\ ~TaskBusy(c)
    /\ position[c] < Len(topic[TopicOf[c]])
    /\ position' = [position EXCEPT ![c] = @ + 1]
    /\ inHand' = [inHand EXCEPT ![c] = position[c] + 1]
    /\ todo' = [todo EXCEPT ![c] = Handler(c, topic[TopicOf[c]][position[c] + 1])]
    /\ UNCHANGED <<deployed, topic, committed, reports, blobs, tables, dlq, errors, crashes>>

\* What an effect does when it succeeds.
Perform(c, e) ==
    /\ topic' = IF e.do = "publish" THEN [topic EXCEPT ![e.on] = Append(@, e.what)] ELSE topic
    /\ reports' = IF e.do = "report" THEN reports \cup {e.what} ELSE reports
    /\ blobs' = IF e.do = "put" THEN blobs \cup {e.what} ELSE blobs
    /\ tables' = IF e.do = "write" THEN [tables EXCEPT ![e.on] = @ \cup {e.what}] ELSE tables
    /\ dlq' = IF e.do = "dlq" THEN dlq \cup {<<c, inHand[c]>>} ELSE dlq
    /\ committed' = IF e.do = "commit" THEN [committed EXCEPT ![c] = inHand[c]] ELSE committed

Finish(c, rest) ==
    /\ todo' = [todo EXCEPT ![c] = rest]
    /\ inHand' = [inHand EXCEPT ![c] = IF rest = <<>> THEN 0 ELSE @]

StepSucceeds(c) ==
    /\ Busy(c)
    /\ LET e == Head(todo[c])
       IN  /\ e.do = "get" => e.what \in blobs
           /\ Perform(c, e)
    /\ Finish(c, Tail(todo[c]))
    /\ UNCHANGED <<deployed, position, errors, crashes>>

\* The effect fails: the handler ends in its error arm, or goes on without it.
\* A publish that is reported failed may have reached the broker.
StepFails(c) ==
    /\ Busy(c)
    /\ errors < MaxErrors
    /\ LET e == Head(todo[c])
       IN  /\ Finish(c, IF e.must THEN ErrorArm(c, Message(c)) ELSE Tail(todo[c]))
           /\ \/ UNCHANGED <<topic, reports, blobs, tables, dlq, committed>>
              \/ e.do = "publish" /\ Perform(c, e)
    /\ errors' = errors + 1
    /\ UNCHANGED <<deployed, position, crashes>>

\* Mutant: a restarted consumer goes on after what it had fetched.
RestartAtPosition(c) ==
    /\ crashes < MaxCrashes
    /\ crashes' = crashes + 1
    /\ todo' = [todo EXCEPT ![c] = <<>>]
    /\ inHand' = [inHand EXCEPT ![c] = 0]
    /\ UNCHANGED <<deployed, topic, position, committed, reports, blobs, tables, dlq, errors>>
\* Mutant: what was in hand survives the restart.
RestartWithHand(c) ==
    /\ crashes < MaxCrashes
    /\ crashes' = crashes + 1
    /\ position' = [position EXCEPT ![c] = committed[c]]
    /\ UNCHANGED <<deployed, topic, committed, todo, inHand, reports, blobs, tables, dlq, errors>>

\* The service restarts: what is in hand is forgotten and every consumer of the
\* task starts again from its committed offset.
Restart(c) ==
    /\ crashes < MaxCrashes
    /\ crashes' = crashes + 1
    /\ LET same == {d \in Consumers : Task(d) = Task(c)}
       IN  /\ position' = [d \in Consumers |-> IF d \in same THEN committed[d] ELSE position[d]]
           /\ todo' = [d \in Consumers |-> IF d \in same THEN <<>> ELSE todo[d]]
           /\ inHand' = [d \in Consumers |-> IF d \in same THEN 0 ELSE inHand[d]]
    /\ UNCHANGED <<deployed, topic, committed, reports, blobs, tables, dlq, errors>>

\* Everything fetched and handled: the services wait for the next run.
Drained ==
    /\ \A c \in deployed : ~Busy(c) /\ position[c] = Len(topic[TopicOf[c]])
    /\ UNCHANGED pipeVars

Work(c) == Fetch(c) \/ StepSucceeds(c)

PipeNext ==
    \/ \E c \in deployed : Work(c) \/ StepFails(c) \/ Restart(c)
    \/ Drained

\* Each service polls its topics for ever.
PipeFairness == \A c \in Consumers : WF_pipeVars(c \in deployed /\ Work(c))

PipeSpec == PipeInit /\ [][PipeNext]_pipeVars /\ PipeFairness
----------------------------------------------------------------------------
(* Properties.                                                               *)

\* Types of the pipeline's state.
PipeTypeOK ==
    /\ \A c \in Consumers :
          /\ committed[c] \in 0..position[c]
          /\ position[c] \in 0..Len(topic[TopicOf[c]])
          /\ inHand[c] \in {0, position[c]}
          /\ (inHand[c] = 0) <=> (todo[c] = <<>>)
    /\ \A c, d \in Consumers : Task(c) = Task(d) /\ Busy(c) /\ Busy(d) => c = d
    /\ errors \in 0..MaxErrors /\ crashes \in 0..MaxCrashes

InTopic(t, m) == \E k \in 1..Len(topic[t]) : topic[t][k] = m
InEffect(e) ==
    CASE e.do = "publish" -> InTopic(e.on, e.what)
      [] e.do = "report"  -> e.what \in reports
      [] e.do = "put"     -> e.what \in blobs
      [] e.do = "write"   -> e.what \in tables[e.on]
      [] OTHER            -> TRUE
Produced(c, m) == LET h == Handler(c, m) IN \A k \in DOMAIN h : h[k].must => InEffect(h[k])
Finished(c) == {topic[TopicOf[c]][k] : k \in 1..committed[c]}

\* A message that refers to a blob is published after the blob is stored: no
\* consumer is ever sent to a blob that does not exist (package_and_store_blob
\* before emit_expand_command, put before the item's event).
BlobBeforeReference ==
    \A t \in Topics : \A k \in DOMAIN topic[t] : topic[t][k].blob \in blobs \cup {NoBlob}

\* A stage that is reported done has handed its work on: the next stage's
\* command or items are in its topic, a projection's row is in its table.
Handed(r, stage) ==
    CASE stage = "clone"     -> InTopic("source", Envelope(r, NoItem, FileBlob(r)))
                                /\ InTopic("expand", Envelope(r, NoItem, CloneBlob(r)))
      [] stage = "expand"    -> InTopic("parse", Envelope(r, NoItem, CloneBlob(r)))
      [] stage = "parse"     -> InTopic("typecheck", Envelope(r, NoItem, CloneBlob(r)))
                                /\ \A i \in Items : InTopic("parsed", Envelope(r, i, BodyBlob(i)))
      [] stage = "typecheck" -> \A i \in Items : InTopic("typed", Envelope(r, i, BodyBlob(i)))
      [] stage = "extract"   -> \E i \in Items : InTopic("embed", Envelope(r, i, BodyBlob(i)))
      [] stage \in {"embed", "project_qdrant"} -> tables["vectors"] # {}
      [] stage = "project_pg" -> tables["code_files"] # {}  \/ tables["code_symbols"] # {}
                                 \/ tables["code_relations"] # {}
      [] stage = "project_neo4j" -> tables["edges"] # {}
DoneAfterHandOver == \A e \in reports : e.st = "done" => Handed(e.run, e.stage)

\* However the services crash and restart, a message they have committed past
\* has had every effect of its handler: only an error can lose one.
CrashLosesNothing ==
    errors = 0 => \A c \in Consumers : \A m \in Finished(c) : Produced(c, m)

\* A message that an error made the workers commit past, its effects missing, is
\* reported as the failure of its stage.  (projector-neo4j does not report a
\* failed write.)
StageOf(c) == CASE c = "graph" -> "extract" [] c \in {"pg_source", "pg_items", "pg_relations"} -> "project_pg"
                [] OTHER -> c
LossIsReported ==
    errors <= 1 => \A c \in Consumers \ {"neo4j"} : \A m \in Finished(c) :
        Produced(c, m) \/ Report(m, StageOf(c), "failed") \in reports

\* An edge of the graph has both its ends, whichever step of write_relation failed.
EdgeHasEnds ==
    \A e \in tables["edges"] : \E a, b \in tables["nodes"] : a[2] = e[1] /\ b[2] = e[2]

\* What the workers have committed past is done or reported, in the order in
\* which one stage relies on another.
NothingLostSilently ==
    PipeTypeOK /\ BlobBeforeReference /\ DoneAfterHandOver /\ CrashLosesNothing /\ LossIsReported /\ EdgeHasEnds

\* Without errors all that a run makes the workers publish is published, and
\* handled, whatever the crashes.
Complete ==
    \A c \in deployed :
        /\ \A k \in DOMAIN All(TopicOf[c]) : InTopic(TopicOf[c], All(TopicOf[c])[k])
        /\ committed[c] = Len(topic[TopicOf[c]])
        /\ \A m \in Finished(c) : Produced(c, m)
RunsComplete == [](errors = 0) => <>Complete

\* The workers' header says of a failed item that the consumer sleeps and
\* redelivers it, and after max retries it goes to the dead letters.
Handled(c, k) == Produced(c, topic[TopicOf[c]][k]) \/ <<c, k>> \in dlq
FailedIsRetried ==
    \A k \in 1..Cardinality(Items) : (Len(topic["typed"]) >= k) ~> (Len(topic["typed"]) >= k /\ Handled("graph", k))
=============================================================================
