--------------------------- MODULE IngestWorkers ---------------------------
(* What each stage worker of the ingestion pipeline does with one message.   *)
(* A worker's handler is the sequence of the effects it has, in the order of *)
(* its code; IngestPipeline runs those sequences, interleaves them and makes *)
(* them fail.  An effect with must = TRUE ends the handler when it fails (the*)
(* code's `?`), one with must = FALSE is best effort (the code logs and goes *)
(* on).  Of the data only what tells messages apart is kept: the run and the *)
(* item.                                                                     *)
EXTENDS Naturals, Sequences, FiniteSets, SequencesExt

CONSTANTS
    Items,   \* the items (functions, types ...) the parsers find in a repository
    Big,     \* the items whose source exceeds INLINE_MAX_BYTES
    Mono,    \* the items whose relations are of kind MonomorphizedFrom
    Uses     \* [Items -> SUBSET Items]: what extract_relations derives of an item

ASSUME WorkersAssumption ==
    /\ IsFiniteSet(Items)
    /\ Big \subseteq Items /\ Mono \subseteq Items /\ Uses \in [Items -> SUBSET Items]

NoItem == "-"
NoBlob == <<>>
CloneBlob(run) == <<"clone", run>>
\* One file has all the items, so it is as big as the biggest.
FileBlob(run) == IF Big # {} THEN <<"file", run>> ELSE NoBlob
BodyBlob(item) == IF item \in Big THEN <<"body", item>> ELSE NoBlob

MAX_ATTEMPTS == 3
IsTerminal(attempt) == attempt >= MAX_ATTEMPTS

----------------------------------------------------------------------------
(* Effects.  An envelope starts with attempt 0, and nothing republishes it.  *)

Envelope(run, item, blob) == [run |-> run, item |-> item, blob |-> blob, attempt |-> 0]

Publish(topic, message) ==
    <<[do |-> "publish", on |-> topic, what |-> message, must |-> TRUE]>>
TryPublish(topic, message) ==
    <<[do |-> "publish", on |-> topic, what |-> message, must |-> FALSE]>>
Report(m, stage, st) == [run |-> m.run, stage |-> stage, st |-> st]
ReportStep(m, stage, st, must) ==
    <<[do |-> "report", on |-> "status", what |-> Report(m, stage, st), must |-> must]>>
\* A step that changes nothing and may fail: a query, a command, a request.
Need(what) == <<[do |-> "need", on |-> what, what |-> what, must |-> TRUE]>>
Put(blob) == IF blob = NoBlob THEN <<>>
             ELSE <<[do |-> "put", on |-> "blobs", what |-> blob, must |-> TRUE]>>
Get(blob) == IF blob = NoBlob THEN <<>>
             ELSE <<[do |-> "get", on |-> "blobs", what |-> blob, must |-> TRUE]>>
Write(table, row) == <<[do |-> "write", on |-> table, what |-> row, must |-> TRUE]>>
CommitOffset(m) == <<[do |-> "commit", on |-> "offsets", what |-> m, must |-> FALSE]>>
DeadLetter(m)   == <<[do |-> "dlq", on |-> "dlq", what |-> m, must |-> FALSE]>>

\* One effect after the other for each item, in some order.
ForEach(S, Effects(_)) == FlattenSeq([k \in 1..Cardinality(S) |-> Effects(SetToSeq(S)[k])])

\* The error arm of the workers with a RetryPolicy: past the last attempt the
\* message goes to the dead letters and its offset is committed; before it the
\* worker sleeps, and goes on with the next message.
RetryOrBury(m) == IF IsTerminal(m.attempt + 1) THEN DeadLetter(m) \o CommitOffset(m) ELSE <<>>

----------------------------------------------------------------------------
(* ingest-clone: packs the clone, then announces its files and forwards.     *)

\* Processing and failed are reported as well as can be; done must be reported.
CloneStatus(m, st)     == ReportStep(m, "clone", st, st = "done")
ResolveCloneUrl(m)     == Need("repository")
GitClone(m)            == Need("git")
PackageAndStoreBlob(m) == Put(CloneBlob(m.run))
EmitSourceFiles(m)     == Put(FileBlob(m.run)) \o Publish("source", Envelope(m.run, NoItem, FileBlob(m.run)))
EmitExpandCommand(m)   == Publish("expand", Envelope(m.run, NoItem, CloneBlob(m.run)))

ProcessClone(m) ==
    CloneStatus(m, "processing") \o ResolveCloneUrl(m) \o GitClone(m) \o PackageAndStoreBlob(m) \o EmitSourceFiles(m)
        \o EmitExpandCommand(m) \o CloneStatus(m, "done")
\* Mutant: the offset is committed when the message is received.
CommitFirst(m) == CommitOffset(m) \o ProcessClone(m)
CloneRun(m)     == ProcessClone(m) \o CommitOffset(m)
CloneFailed(m)  == CloneStatus(m, "failed")

(* expand-worker: a crate is skipped, and the run goes on, when it does not  *)
(* expand, its expansion is not stored or not published; nobody reads them.  *)

ExpandStatus(m, st) == ReportStep(m, "expand", st, st = "done")
ExpandCrate(m)      == TryPublish("expanded", Envelope(m.run, NoItem, NoBlob))
EmitParseCommand(m) == Publish("parse", Envelope(m.run, NoItem, m.blob))

\* Mutant: done is reported before the run is forwarded.
DoneBeforeForward(m) ==
    ExpandStatus(m, "processing") \o Get(m.blob) \o ExpandStatus(m, "done")
        \o EmitParseCommand(m)
ProcessExpand(m) ==
    ExpandStatus(m, "processing") \o Get(m.blob) \o ExpandCrate(m)
        \o EmitParseCommand(m) \o ExpandStatus(m, "done")
ExpandRun(m)    == ProcessExpand(m) \o CommitOffset(m)
ExpandFailed(m) == ExpandStatus(m, "failed") \o RetryOrBury(m)

(* parse-worker: one event per item, its source inline or in the blob store. *)

ParseStatus(m, st) == ReportStep(m, "parse", st, st = "done")
\* Mutant: the event before the blob it refers to.
ReferBeforeStore(m, i) == Publish("parsed", Envelope(m.run, i, BodyBlob(i))) \o Put(BodyBlob(i))
EmitParsedItem(m, i) == Put(BodyBlob(i)) \o Publish("parsed", Envelope(m.run, i, BodyBlob(i)))
EmitTypecheckCommand(m) == Publish("typecheck", Envelope(m.run, NoItem, m.blob))

ProcessParse(m) ==
    LET Emit(i) == EmitParsedItem(m, i)
    IN  ParseStatus(m, "processing") \o Get(m.blob) \o ForEach(Items, Emit)
            \o EmitTypecheckCommand(m) \o ParseStatus(m, "done")
ParseRun(m)    == ProcessParse(m) \o CommitOffset(m)
ParseFailed(m) == ParseStatus(m, "failed") \o RetryOrBury(m)

(* typecheck-worker: no command follows; its items are the next stage's.     *)

TypecheckStatus(m, st) == ReportStep(m, "typecheck", st, st = "done")
EmitTypecheckedItem(m, i) ==
    Put(BodyBlob(i)) \o Publish("typed", Envelope(m.run, i, BodyBlob(i)))

ProcessTypecheck(m) ==
    LET Emit(i) == EmitTypecheckedItem(m, i)
    IN  TypecheckStatus(m, "processing") \o Get(m.blob) \o ForEach(Items, Emit)
            \o TypecheckStatus(m, "done")
TypecheckRun(m)    == ProcessTypecheck(m) \o CommitOffset(m)
TypecheckFailed(m) == TypecheckStatus(m, "failed") \o RetryOrBury(m)

(* ingest-graph: per item, its relations and then the item itself to embed.  *)

ExtractStatus(m, st) == ReportStep(m, "extract", st, st = "done")
GraphResolveBody(m) == Get(m.blob)
EmitRelation(m, j)  == Publish("relation", [run |-> m.run, item |-> m.item, to |-> j,
                                            blob |-> NoBlob, attempt |-> 0])
EmitEmbedCommand(m) == Publish("embed", Envelope(m.run, m.item, m.blob))

ExtractItem(m) ==
    LET Emit(j) == EmitRelation(m, j)
    IN  ExtractStatus(m, "processing") \o GraphResolveBody(m)
            \o ForEach(Uses[m.item], Emit) \o EmitEmbedCommand(m)
            \o ExtractStatus(m, "done")
ExtractRun(m)    == ExtractItem(m) \o CommitOffset(m)
\* Mutant: a failed item is not reported.
SilentFailure(m) == RetryOrBury(m)
ExtractFailed(m) == ExtractStatus(m, "failed") \o RetryOrBury(m)

(* embed-worker: the vector is upserted under a point id made of the tenant, *)
(* the repository and the item.  It reports two stages.                      *)

EmbedStatus(m, st)  == ReportStep(m, "embed", st, st = "done")
QdrantStatus(m, st) == ReportStep(m, "project_qdrant", st, st = "done")
EmbedResolveBody(m) == Get(m.blob)
CallOllama(m)       == Need("ollama")
UpsertVector(m)     == Write("vectors", m.item)

EmbedItem(m) ==
    EmbedStatus(m, "processing") \o QdrantStatus(m, "processing")
        \o EmbedResolveBody(m) \o CallOllama(m) \o UpsertVector(m)
        \o QdrantStatus(m, "done") \o EmbedStatus(m, "done")
\* Mutant: the offset of an embedded item is never committed.
NeverCommit(m) == EmbedItem(m)
EmbedRun(m)    == EmbedItem(m) \o CommitOffset(m)
EmbedFailed(m) == EmbedStatus(m, "failed") \o RetryOrBury(m)

(* projector-pg: three consumers in one task.  The offset is committed       *)
(* before the stage is reported.                                             *)

PgStatus(m, st) == ReportStep(m, "project_pg", st, FALSE)
WriteSourceFile(m)    == Write("code_files", NoItem)
WriteParsedItem(m)    == Write("code_symbols", m.item)
WritePgRelation(m)    == Write("code_relations", <<m.item, m.to>>)

HandleSourceFile(m) ==
    PgStatus(m, "processing") \o WriteSourceFile(m) \o CommitOffset(m)
        \o PgStatus(m, "done")
HandleParsedItem(m) ==
    PgStatus(m, "processing") \o WriteParsedItem(m) \o CommitOffset(m)
        \o PgStatus(m, "done")
HandleRelation(m) ==
    PgStatus(m, "processing") \o WritePgRelation(m) \o CommitOffset(m)
        \o PgStatus(m, "done")
PgFailed(m) == PgStatus(m, "failed")

(* projector-neo4j: the two ends of a relation are merged before the edge,   *)
(* whatever their labels; a candidate of dynamic dispatch is one of the      *)
(* relations of items.  The queries are the code's own, so that none is      *)
(* refused as a second statement.  instances is the number of TypeInstance   *)
(* nodes.                                                                    *)

Neo4jStatus(m, st) == ReportStep(m, "project_neo4j", st, FALSE)
WriteTypeInstance(m) ==
    Write("nodes", <<"TypeInstance", m.item, m.to>>) \o Write("nodes", <<"TypeDef", m.to, NoItem>>)
        \o Write("edges", <<m.item, m.to>>)
\* Mutant: the edge before one of its ends.
EdgeFirst(m) == Write("edges", <<m.item, m.to>>) \o Write("nodes", <<"Item", m.item, NoItem>>)
                    \o Write("nodes", <<"Item", m.to, NoItem>>)
WriteItemRelation(m) ==
    Write("nodes", <<"Item", m.item, NoItem>>) \o Write("nodes", <<"Item", m.to, NoItem>>)
        \o Write("edges", <<m.item, m.to>>)
WriteNeo4jRelation(m) ==
    IF m.item \in Mono THEN WriteTypeInstance(m) ELSE WriteItemRelation(m)

Capped(m, instances, cap) == m.item \in Mono /\ instances >= cap

CountTypeInstances(m) == IF m.item \in Mono THEN Need("type instances") ELSE <<>>
HandleEnvelope(m, instances, cap) ==
    Neo4jStatus(m, "processing") \o CountTypeInstances(m)
        \o IF Capped(m, instances, cap)
           THEN Neo4jStatus(m, "failed") \o CommitOffset(m)
           ELSE WriteNeo4jRelation(m) \o Neo4jStatus(m, "done") \o CommitOffset(m)

\* A count or a write that fails is neither reported nor committed.
Neo4jFailed(m) == <<>>
============================================================================
