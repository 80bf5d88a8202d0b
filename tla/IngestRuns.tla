----------------------------- MODULE IngestRuns -----------------------------
(* The rows of an ingestion run in control-api: trigger_ingestion inserts    *)
(* them, ingest_consumer moves them as the workers report, and the           *)
(* reconciler of every pod dispatches again what stays queued.               *)
(*                                                                           *)
(* A trigger publishes the clone command inside its transaction, before the  *)
(* commit, so workers may report on a run whose rows are not there yet.  The *)
(* requests are all for one repository.                                      *)
(*                                                                           *)
(* Bounds: at most MaxPending status events wait, MaxFaults steps fail.       *)
EXTENDS Naturals, Sequences, FiniteSets

CONSTANTS
    Requests,         \* POST /v1/repos/{repo_id}/ingestions; its run has its name
    Pods,             \* control-api instances, each with a reconciler loop
    PIPELINE_STAGES,  \* the stages that have a row (nine in the code)
    NoRun,            \* an ingest_run_id that is no UUID
    MaxPending, MaxFaults

ASSUME RunsAssumption ==
    /\ IsFiniteSet(PIPELINE_STAGES) /\ PIPELINE_STAGES # {}
    /\ NoRun \notin Requests /\ "nobody" \notin Requests /\ MaxPending \in Nat /\ MaxFaults \in Nat

Nobody == "nobody"
Active == {"queued", "running"}
Terminal == {"succeeded", "failed"}
TOTAL_PIPELINE_STAGES == Cardinality(PIPELINE_STAGES)

VARIABLES
    request,    \* [Requests -> where its handler is]
    row,        \* [Requests -> the ingestion_runs row's status, "none" without a row]
    started,    \* the runs whose started_at is set
    stage,      \* [Requests -> [PIPELINE_STAGES -> the stage row's status]]
    commands,   \* the runs with a clone command in rb.ingest.clone.commands
    again,      \* [Requests -> times a reconciler published it]
    orphans,    \* [Pods -> runs its pass still has to handle]
    hand,       \* [Pods -> the run it has claimed]
    events,     \* rb.projector.events from the consumer's offset on
    reported,   \* history: the stages ever reported done, with their run
    step,       \* where the consumer is with the next event
    skipped,    \* an event was passed over after a database error
    faults

runVars == <<request, row, started, stage, commands, again, orphans, hand, events, reported,
             step, skipped, faults>>

RunsInit ==
    /\ request = [q \in Requests |-> "new"]
    /\ row = [q \in Requests |-> "none"]
    /\ started = {}
    /\ stage = [q \in Requests |-> [s \in PIPELINE_STAGES |-> "none"]]
    /\ commands = {}
    /\ again = [q \in Requests |-> 0]
    /\ orphans = [p \in Pods |-> {}]
    /\ hand = [p \in Pods |-> Nobody]
    /\ events = <<>> /\ reported = {} /\ step = "idle" /\ skipped = FALSE
    /\ faults = 0

Fault == faults < MaxFaults /\ faults' = faults + 1

----------------------------------------------------------------------------
(* trigger_ingestion                                                         *)

InFlight == \E q \in Requests : row[q] \in Active

\* The broker answers the probe, the repository exists, nothing is in flight.
CheckTrigger(q) ==
    /\ request[q] = "new"
    /\ request' = [request EXCEPT ![q] = IF InFlight THEN "refused" ELSE "checked"]
    /\ UNCHANGED <<row, started, stage, commands, again, orphans, hand, events, reported, step, skipped, faults>>

\* The transaction is open, its rows invisible.
PublishTrigger(q) ==
    /\ request[q] = "checked"
    /\ commands' = commands \cup {q}
    /\ request' = [request EXCEPT ![q] = "published"]
    /\ UNCHANGED <<row, started, stage, again, orphans, hand, events, reported, step, skipped, faults>>

\* Mutant: the rows are committed, then the command is published.
CommitBeforePublish(q) ==
    /\ request[q] = "checked"
    /\ row' = [row EXCEPT ![q] = "queued"]
    /\ stage' = [stage EXCEPT ![q] = [s \in PIPELINE_STAGES |-> "pending"]]
    /\ request' = [request EXCEPT ![q] = "accepted"]
    /\ UNCHANGED <<started, commands, again, orphans, hand, events, reported, step, skipped, faults>>
CommitTrigger(q) ==
    /\ request[q] = "published"
    /\ row' = [row EXCEPT ![q] = "queued"]
    /\ stage' = [stage EXCEPT ![q] = [s \in PIPELINE_STAGES |-> "pending"]]
    /\ request' = [request EXCEPT ![q] = "accepted"]
    /\ UNCHANGED <<started, commands, again, orphans, hand, events, reported, step, skipped, faults>>

\* The publish fails (it may yet have reached the broker), the commit fails or
\* the process dies: the transaction is rolled back.
RollBack(q) ==
    /\ request[q] \in {"checked", "published"}
    /\ Fault
    /\ request' = [request EXCEPT ![q] = "refused"]
    /\ \E reached \in BOOLEAN : commands' = IF reached THEN commands \cup {q} ELSE commands
    /\ UNCHANGED <<row, started, stage, again, orphans, hand, events, reported, step, skipped>>

----------------------------------------------------------------------------
(* reconcile_orphaned_ingest_runs.  Two minutes may pass at any time.        *)

Orphaned(q) == row[q] = "queued" /\ q \notin started

\* Mutant: a run whose command is in the topic is left alone.
FetchUncommanded(p) ==
    /\ orphans[p] = {} /\ hand[p] = Nobody
    /\ \E q \in Requests : Orphaned(q) /\ q \notin commands
    /\ orphans' = [orphans EXCEPT ![p] = {q \in Requests : Orphaned(q) /\ q \notin commands}]
    /\ UNCHANGED <<request, row, started, stage, commands, again, hand, events, reported, step, skipped, faults>>

FetchOrphans(p) ==
    /\ orphans[p] = {} /\ hand[p] = Nobody
    /\ \E q \in Requests : Orphaned(q)
    /\ orphans' = [orphans EXCEPT ![p] = {q \in Requests : Orphaned(q)}]
    /\ UNCHANGED <<request, row, started, stage, commands, again, hand, events, reported, step, skipped, faults>>

\* Mutant: the claim only looks at the status.
ClaimQueued(p, q) ==
    /\ q \in orphans[p] /\ hand[p] = Nobody
    /\ orphans' = [orphans EXCEPT ![p] = @ \ {q}]
    /\ IF row[q] = "queued"
       THEN started' = started \cup {q} /\ hand' = [hand EXCEPT ![p] = q]
       ELSE UNCHANGED <<started, hand>>
    /\ UNCHANGED <<request, row, stage, commands, again, events, reported, step, skipped, faults>>

TryClaimRun(p, q) ==
    /\ q \in orphans[p] /\ hand[p] = Nobody
    /\ orphans' = [orphans EXCEPT ![p] = @ \ {q}]
    /\ IF Orphaned(q)
       THEN started' = started \cup {q} /\ hand' = [hand EXCEPT ![p] = q]
       ELSE UNCHANGED <<started, hand>>
    /\ UNCHANGED <<request, row, stage, commands, again, events, reported, step, skipped, faults>>

HandleOrphanedRun(p) ==
    /\ hand[p] # Nobody
    /\ commands' = commands \cup {hand[p]}
    /\ again' = [again EXCEPT ![hand[p]] = @ + 1]
    /\ hand' = [hand EXCEPT ![p] = Nobody]
    /\ UNCHANGED <<request, row, started, stage, orphans, events, reported, step, skipped, faults>>

\* No producer, no broker, or the publish fails: the run is failed if still queued.
MarkFailed(p) ==
    /\ hand[p] # Nobody
    /\ Fault
    /\ row' = [row EXCEPT ![hand[p]] = IF @ = "queued" THEN "failed" ELSE @]
    /\ \E reached \in BOOLEAN :
          again' = [again EXCEPT ![hand[p]] = IF reached THEN @ + 1 ELSE @]
    /\ hand' = [hand EXCEPT ![p] = Nobody]
    /\ UNCHANGED <<request, started, stage, commands, orphans, events, reported, step, skipped>>

PodRestarts(p) ==
    /\ Fault
    /\ orphans' = [orphans EXCEPT ![p] = {}]
    /\ hand' = [hand EXCEPT ![p] = Nobody]
    /\ UNCHANGED <<request, row, started, stage, commands, again, events, reported, step, skipped>>

----------------------------------------------------------------------------
(* The workers: a run that was commanded reports on any stage, as often and  *)
(* in whatever order redeliveries and items make it.  IngestPipeline has the *)
(* workers themselves.                                                       *)

WorkerReports ==
    /\ Len(events) < MaxPending
    /\ \E q \in commands, s \in PIPELINE_STAGES, st \in {"Processing", "Done", "Failed"} :
          /\ events' = Append(events, [run |-> q, stage |-> s, status |-> st])
          /\ reported' = IF st = "Done" THEN reported \cup {<<q, s>>} ELSE reported
    /\ UNCHANGED <<request, row, started, stage, commands, again, orphans, hand, step, skipped, faults>>

LegacyReports ==
    /\ Len(events) < MaxPending
    /\ events' = Append(events, [run |-> NoRun, stage |-> CHOOSE s \in PIPELINE_STAGES : TRUE,
                                 status |-> "Done"])
    /\ UNCHANGED <<request, row, started, stage, commands, again, orphans, hand, reported, step, skipped, faults>>

----------------------------------------------------------------------------
(* ingest_consumer: the stage's row, then the run's, then the offset.        *)

Event == Head(events)
HasEvent == events # <<>>

SkipMalformed ==
    /\ step = "idle" /\ HasEvent /\ Event.run = NoRun
    /\ events' = Tail(events)
    /\ UNCHANGED <<request, row, started, stage, commands, again, orphans, hand, reported, step, skipped, faults>>

StageDbParams(status) ==
    CASE status = "Processing" -> "running" [] status = "Done" -> "succeeded"
      [] status = "Failed" -> "failed"

\* An UPDATE of rows that are not there changes nothing.
UpdateStageRun ==
    /\ step = "idle" /\ HasEvent /\ Event.run # NoRun
    /\ stage' = IF row[Event.run] = "none" THEN stage
                ELSE [stage EXCEPT ![Event.run][Event.stage] = StageDbParams(Event.status)]
    /\ step' = "run"
    /\ UNCHANGED <<request, row, started, commands, again, orphans, hand, events, reported, skipped, faults>>

\* Mutant: a run without a row starts as well.
StartAnyRun(q) ==
    /\ row' = [row EXCEPT ![q] = IF @ = "queued" THEN "running" ELSE @]
    /\ started' = started \cup {q}
\* Mutant: a run that has ended starts again.
StartEndedRun(q) ==
    IF row[q] # "none"
    THEN row' = [row EXCEPT ![q] = "running"] /\ started' = started \cup {q}
    ELSE UNCHANGED <<row, started>>
MaybeStartRun(q) ==
    IF row[q] = "queued"
    THEN row' = [row EXCEPT ![q] = "running"] /\ started' = started \cup {q}
    ELSE UNCHANGED <<row, started>>

\* Mutant: one stage too few.
AllButOneSucceeded(q) == Cardinality({s \in PIPELINE_STAGES : stage[q][s] = "succeeded"})
                       >= TOTAL_PIPELINE_STAGES - 1
AllSucceeded(q) == Cardinality({s \in PIPELINE_STAGES : stage[q][s] = "succeeded"})
                       >= TOTAL_PIPELINE_STAGES
\* Mutant: only a running run completes.
CompleteRunning(q) ==
    IF AllSucceeded(q) /\ row[q] = "running"
    THEN row' = [row EXCEPT ![q] = "succeeded"] /\ started' = started \cup {q}
    ELSE UNCHANGED <<row, started>>
MaybeCompleteRun(q) ==
    IF AllSucceeded(q) /\ row[q] \in Active
    THEN row' = [row EXCEPT ![q] = "succeeded"] /\ started' = started \cup {q}
    ELSE UNCHANGED <<row, started>>

FailRun(q) ==
    IF row[q] \in Active
    THEN row' = [row EXCEPT ![q] = "failed"] /\ started' = started \cup {q}
    ELSE UNCHANGED <<row, started>>

UpdateRun ==
    /\ step = "run"
    /\ \/ Event.status = "Processing" /\ MaybeStartRun(Event.run)
       \/ Event.status = "Done" /\ MaybeCompleteRun(Event.run)
       \/ Event.status = "Failed" /\ FailRun(Event.run)
    /\ step' = "commit"
    /\ UNCHANGED <<request, stage, commands, again, orphans, hand, events, reported, skipped, faults>>

CommitEvent ==
    /\ step = "commit"
    /\ events' = Tail(events)
    /\ step' = "idle"
    /\ UNCHANGED <<request, row, started, stage, commands, again, orphans, hand, reported, skipped, faults>>

\* handle_db_updates fails: the consumer sleeps and takes the next event.
SkipAfterError ==
    /\ step \in {"idle", "run"} /\ HasEvent /\ Event.run # NoRun
    /\ Fault
    /\ events' = Tail(events)
    /\ step' = "idle" /\ skipped' = TRUE
    /\ UNCHANGED <<request, row, started, stage, commands, again, orphans, hand, reported>>

\* The event in hand is delivered again.
ConsumerRestarts ==
    /\ step # "idle"
    /\ Fault
    /\ step' = "idle"
    /\ UNCHANGED <<request, row, started, stage, commands, again, orphans, hand, events, reported, skipped>>

----------------------------------------------------------------------------
Trigger(q) == CheckTrigger(q) \/ PublishTrigger(q) \/ CommitTrigger(q)
Reconcile(p) == FetchOrphans(p) \/ (\E q \in Requests : TryClaimRun(p, q)) \/ HandleOrphanedRun(p)
Consume == SkipMalformed \/ UpdateStageRun \/ UpdateRun \/ CommitEvent

RunsNext ==
    \/ \E q \in Requests : Trigger(q) \/ RollBack(q)
    \/ \E p \in Pods : Reconcile(p) \/ MarkFailed(p) \/ PodRestarts(p)
    \/ WorkerReports \/ LegacyReports
    \/ Consume \/ SkipAfterError \/ ConsumerRestarts

RunsFairness ==
    /\ \A p \in Pods : WF_runVars(Reconcile(p))
    /\ WF_runVars(Consume)

RunsSpec == RunsInit /\ [][RunsNext]_runVars /\ RunsFairness

----------------------------------------------------------------------------
(* Properties.                                                               *)

\* Types of the rows and of the actors.
RunsTypeOK ==
    /\ request \in [Requests -> {"new", "checked", "published", "accepted", "refused"}]
    /\ row \in [Requests -> {"none"} \cup Active \cup Terminal]
    /\ stage \in [Requests -> [PIPELINE_STAGES -> {"none", "pending", "running", "succeeded", "failed"}]]
    /\ started \subseteq {q \in Requests : row[q] # "none"}
    /\ commands \subseteq Requests
    /\ again \in [Requests -> Nat]
    /\ orphans \in [Pods -> SUBSET Requests] /\ hand \in [Pods -> Requests \cup {Nobody}]
    /\ Len(events) <= MaxPending /\ reported \subseteq Requests \X PIPELINE_STAGES /\ step \in {"idle", "run", "commit"}
    /\ faults \in 0..MaxFaults

\* A run that a client was given has its clone command in the topic, whatever
\* fails or dies between the insert, the publish and the commit.
EveryRunIsCommanded == \A q \in Requests : row[q] # "none" => q \in commands

\* However many pods find the same orphan, it is dispatched again at most once:
\* the claim stamps started_at, and nothing clears it.
DispatchedAgainOnce ==
    \A q \in Requests : again[q] + Cardinality({p \in Pods : hand[p] = q}) <= 1

\* A run is succeeded only when every stage has reported done, whatever was
\* reported before or after, and before the run's rows were there.
SucceededMeansAllDone ==
    \A q \in Requests : row[q] = "succeeded" => \A s \in PIPELINE_STAGES : <<q, s>> \in reported

\* When the consumer has caught up, having skipped nothing, a run whose stages
\* have all succeeded has ended, though the consumer restarted between the
\* stage's row and the run's.
CompletionNotMissed ==
    (~skipped /\ step = "idle" /\ ~HasEvent) => (\A q \in Requests : AllSucceeded(q) => row[q] \in Terminal)

\* The row of a run says what was commanded and what the stages reported.
RunsFollowStages ==
    RunsTypeOK /\ EveryRunIsCommanded /\ DispatchedAgainOnce /\ SucceededMeansAllDone /\ CompletionNotMissed

\* A run that has ended stays as it ended, whatever arrives late.
EndedStaysEnded ==
    [][\A q \in Requests : row[q] \in Terminal => row'[q] = row[q]]_runVars

\* No run waits for ever unclaimed: a pod's reconciler or a worker's report
\* starts it, or it is failed.
QueuedIsClaimed == \A q \in Requests : Orphaned(q) ~> ~Orphaned(q)

\* trigger.rs:6: "Returns 409 if a run is already queued or running".  What the
\* handler has checked may have changed when it commits.
OneRunInFlight == Cardinality({q \in Requests : row[q] \in Active}) <= 1
=============================================================================
