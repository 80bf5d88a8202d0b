----------------------------- MODULE AuditTrail -----------------------------
(* audit-worker: one consumer stores rb.audit.events, the other mirrors the  *)
(* status events of the ingestion into the same table.                       *)
(*                                                                           *)
(* Bounds: MaxEvents records a topic, MaxAuditFaults failures and restarts.  *)
EXTENDS Naturals, Sequences, FiniteSets, SequencesExt

CONSTANTS EventIds,     \* event_id of a producer; NoUuid is one that does not parse
          RunIds,       \* ingestion runs
          Stages,       \* the stages that report them
          MaxEvents, MaxAuditFaults

AuditTopics == {"audit", "status"}
NoUuid == "nouuid"
Statuses == {"unspecified", "pending", "processing", "done", "failed"}

VARIABLES
    audlog,    \* topic -> records
    audpos,    \* topic -> records the consumer has been given
    audoff,    \* topic -> committed offset
    trail,     \* rows of audit.audit_events: key, topic and record they stand for
    audfaults,
    skipped    \* records whose last insert failed

audVars == <<audlog, audpos, audoff, trail, audfaults, skipped>>

AudInit ==
    /\ audlog = [c \in AuditTopics |-> <<>>]
    /\ audpos = [c \in AuditTopics |-> 0] /\ audoff = [c \in AuditTopics |-> 0]
    /\ trail = {} /\ audfaults = 0 /\ skipped = {}

\* What a stage puts into ingest_request_id: the projectors nothing, graph and embed a
\* new UUID for every event (graph the item's name when it failed), the others the id
\* of the command they handle, which the stage before has drawn for it.
Projectors == {"project_pg", "project_neo4j"}
Renaming == {"graph", "embed"}
RequestId(stage, run, status, n) ==
    CASE stage \in Projectors -> [item |-> ""]
      [] stage = "graph" /\ status = "failed" -> [item |-> "fqn"]
      [] stage \in Renaming -> [event |-> n]
      [] OTHER -> [command |-> stage, of |-> run]
StatusEvent(run, stage, status, n) ==
    [run |-> run, stage |-> stage, status |-> status, request |-> RequestId(stage, run, status, n)]

AudProduce(c) ==
    /\ Len(audlog[c]) < MaxEvents
    /\ \/ c = "audit" /\ \E id \in EventIds \cup {NoUuid} : audlog' = [audlog EXCEPT ![c] = Append(@, [id |-> id])]
       \/ c = "status" /\ \E run \in RunIds, stage \in Stages, status \in Statuses :
             audlog' = [audlog EXCEPT ![c] = Append(@, StatusEvent(run, stage, status, Len(@) + 1))]
    /\ UNCHANGED <<audpos, audoff, trail, audfaults, skipped>>

StatusToAction(s) ==
    CASE s = "unspecified" -> "ingest.status.unspecified"
      [] s = "pending" -> "ingest.status.pending"
      [] s = "processing" -> "ingest.stage.started"
      [] s = "done" -> "ingest.stage.completed"
      [] s = "failed" -> "ingest.stage.failed"
(* The keys of the rows: an event_id that does not parse becomes a new UUID, *)
(* a status row is keyed by its action and the id its stage gave.            *)
EventKey(c, r) ==
    IF c = "status" THEN [topic |-> c, action |-> StatusToAction(r.status), request |-> r.request]
    ELSE [topic |-> c, id |-> r.id]
RowKey(c, r) ==
    IF c = "audit" /\ r.id = NoUuid THEN [topic |-> c, new |-> Cardinality(trail)] ELSE EventKey(c, r)

(* ON CONFLICT DO NOTHING.                                                   *)
AudInsert(c, i) ==
    LET k == RowKey(c, audlog[c][i])
    IN  trail' = IF \E x \in trail : x.key = k THEN trail ELSE trail \cup {[key |-> k, topic |-> c, at |-> i]}

\* Mutant: the offset is committed before the row is stored.
CommitFirst(c) ==
    /\ audpos[c] < Len(audlog[c])
    /\ audpos' = [audpos EXCEPT ![c] = @ + 1]
    /\ audoff' = [audoff EXCEPT ![c] = audpos[c] + 1]
    /\ \/ AudInsert(c, audpos[c] + 1) /\ UNCHANGED audfaults
       \/ audfaults < MaxAuditFaults /\ audfaults' = audfaults + 1 /\ UNCHANGED trail
    /\ UNCHANGED <<audlog, skipped>>
AudHandles(c) ==
    /\ audpos[c] < Len(audlog[c])
    /\ audpos' = [audpos EXCEPT ![c] = @ + 1]
    /\ AudInsert(c, audpos[c] + 1)
    /\ \/ audoff' = [audoff EXCEPT ![c] = audpos[c] + 1] /\ UNCHANGED audfaults
       \/ audfaults < MaxAuditFaults /\ audfaults' = audfaults + 1 /\ UNCHANGED audoff     \* commit failed
    /\ skipped' = skipped \ {<<c, audpos[c] + 1>>}
    /\ UNCHANGED audlog
AudInsertFails(c) ==
    /\ audpos[c] < Len(audlog[c]) /\ audfaults < MaxAuditFaults
    /\ audfaults' = audfaults + 1
    /\ audpos' = [audpos EXCEPT ![c] = @ + 1]
    /\ skipped' = skipped \cup {<<c, audpos[c] + 1>>}
    /\ UNCHANGED <<audlog, audoff, trail>>
AudRestart(c) ==
    /\ audfaults < MaxAuditFaults /\ audfaults' = audfaults + 1
    /\ audpos' = [audpos EXCEPT ![c] = audoff[c]]
    /\ UNCHANGED <<audlog, audoff, trail, skipped>>

AudNext == \E c \in AuditTopics : AudProduce(c) \/ AudHandles(c) \/ AudInsertFails(c) \/ AudRestart(c)
AudSpec == AudInit /\ [][AudNext]_audVars

----------------------------------------------------------------------------
(* However often an event is delivered, its key has one row, unless it came  *)
(* without a UUID.                                                           *)
OneRowPerEvent ==
    \A x, y \in trail :
        x.topic = y.topic /\ EventKey(x.topic, audlog[x.topic][x.at]) = EventKey(y.topic, audlog[y.topic][y.at])
            => x = y \/ (x.topic = "audit" /\ audlog["audit"][x.at].id = NoUuid)

(* A committed audit event has its row, unless storing it has failed; so has *)
(* a status event, but that row is the first event's with its action and     *)
(* request id, which may be the other projector's, or of another run         *)
(* (TransitionsRecorded says what that loses).                               *)
CommittedIsStored ==
    \A c \in AuditTopics : \A i \in 1..audoff[c] :
        \/ <<c, i>> \in skipped
        \/ \E x \in trail : x.topic = c /\ EventKey(c, audlog[c][x.at]) = EventKey(c, audlog[c][i])

(* "an immutable audit trail of ingest lifecycle transitions": a committed   *)
(* transition of a stage of a run has a row.  Does not hold of the code.     *)
TransitionsRecorded ==
    LET transition(i) == [run |-> audlog["status"][i].run, stage |-> audlog["status"][i].stage,
                          status |-> audlog["status"][i].status]
    IN  \A i \in 1..audoff["status"] :
            \/ <<"status", i>> \in skipped
            \/ \E x \in trail : x.topic = "status" /\ transition(x.at) = transition(i)
=============================================================================
