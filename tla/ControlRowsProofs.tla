------------------------- MODULE ControlRowsProofs -------------------------
(* The rows of control-api that several requests, pods and workers change at *)
(* once: a run follows its stages, and a tenant keeps its members and loses  *)
(* its data, for any requests, pods, stages, users and failures.             *)
EXTENDS IngestRuns, Tenants, SequenceTheorems, FiniteSetTheorems, TLAPS

----------------------------------------------------------------------------
(* Runs *)
StageEvents == [run : Requests \cup {NoRun}, stage : PIPELINE_STAGES, status : {"Processing", "Done", "Failed"}]

\* Types, of the events too.
RunsRowsOK ==
    /\ RunsTypeOK
    /\ events \in Seq(StageEvents) /\ skipped \in BOOLEAN

\* The consumer is past the first step only with a run's event in hand.
EventInHand == step # "idle" => HasEvent /\ Event.run # NoRun
\* The rows come with the command, and with each other.
RowsAreCommanded ==
    /\ \A q \in Requests : row[q] # "none" => q \in commands /\ request[q] = "accepted"
    /\ \A q \in Requests : request[q] \in {"published"} => q \in commands
    /\ \A q \in Requests, s \in PIPELINE_STAGES : stage[q][s] = "succeeded" => row[q] # "none"
\* A run is claimed by one pod, once; what the claim stamps stays.
ClaimedOnce ==
    /\ \A q \in Requests : again[q] \in {0, 1} /\ (again[q] = 1 => q \in started)
    /\ \A p \in Pods, q \in Requests : hand[p] = q => q \in started /\ again[q] = 0
    /\ \A p1, p2 \in Pods : hand[p1] = hand[p2] /\ hand[p1] # Nobody => p1 = p2
\* What is reported done: by the events that wait, and by the rows.
DoneIsReported ==
    /\ \A i \in 1..Len(events) :
          events[i].status = "Done" /\ events[i].run # NoRun => <<events[i].run, events[i].stage>> \in reported
    /\ \A q \in Requests, s \in PIPELINE_STAGES : stage[q][s] = "succeeded" => <<q, s>> \in reported
\* The last stage's event is still in hand, to be handled again if need be.
CompletionInHand(q) == HasEvent /\ Event.run = q /\ Event.status = "Done" /\ step \in {"idle", "run"}
CompletionComes ==
    ~skipped => \A q \in Requests :
        (\A s \in PIPELINE_STAGES : stage[q][s] = "succeeded") => row[q] \in Terminal \/ CompletionInHand(q)

RunsInv ==
    RunsRowsOK /\ EventInHand /\ RowsAreCommanded /\ ClaimedOnce /\ DoneIsReported
            /\ SucceededMeansAllDone /\ CompletionComes

LEMMA StageDbParamsAre ==
    /\ \A st \in {"Processing", "Done", "Failed"} : StageDbParams(st) \in {"running", "succeeded", "failed"}
    /\ \A st \in {"Processing", "Done", "Failed"} : StageDbParams(st) = "succeeded" => st = "Done"
<1>1. StageDbParams("Processing") = "running" /\ StageDbParams("Done") = "succeeded"
        /\ StageDbParams("Failed") = "failed"
  BY Zenon DEF StageDbParams
<1>. QED  BY <1>1

\* As many succeeded stages as there are stages means every one of them.
LEMMA AllSucceededMeans ==
    ASSUME NEW q \in Requests
    PROVE  AllSucceeded(q) <=> \A s \in PIPELINE_STAGES : stage[q][s] = "succeeded"
<1>. DEFINE S == {s \in PIPELINE_STAGES : stage[q][s] = "succeeded"}
<1>1. IsFiniteSet(PIPELINE_STAGES)
  BY RunsAssumption
<1>2. Cardinality(PIPELINE_STAGES) \in Nat /\ IsFiniteSet(S) /\ Cardinality(S) \in Nat
      /\ Cardinality(S) <= Cardinality(PIPELINE_STAGES)
      /\ (Cardinality(S) = Cardinality(PIPELINE_STAGES) => S = PIPELINE_STAGES)
  BY <1>1, FS_Subset, FS_CardinalityType
<1>3. Cardinality(S) >= Cardinality(PIPELINE_STAGES) <=> S = PIPELINE_STAGES
  BY <1>2
<1>4. S = PIPELINE_STAGES <=> \A s \in PIPELINE_STAGES : stage[q][s] = "succeeded"
  OBVIOUS
<1>. QED  BY <1>3 DEF AllSucceeded, TOTAL_PIPELINE_STAGES

\* What is in hand is one of the events.
LEMMA EventIs ==
    ASSUME RunsInv, HasEvent
    PROVE  /\ Event = events[1] /\ Event \in StageEvents /\ 1 \in 1..Len(events)
           /\ Len(events) \in Nat \ {0}
           /\ Tail(events) \in Seq(StageEvents) /\ Len(Tail(events)) = Len(events) - 1
           /\ \A i \in 1..Len(Tail(events)) : Tail(events)[i] = events[i + 1]
BY DEF RunsInv, RunsRowsOK, HasEvent, Event

LEMMA CheckTriggerKeeps ==
    ASSUME NEW q \in Requests, RunsInv, CheckTrigger(q)
    PROVE  RunsInv'
<1>1. RunsRowsOK'
  BY DEF CheckTrigger, RunsInv, RunsRowsOK, RunsTypeOK
<1>2. RowsAreCommanded'
  BY DEF CheckTrigger, RunsInv, RowsAreCommanded
<1>3. EventInHand' /\ ClaimedOnce' /\ DoneIsReported' /\ SucceededMeansAllDone' /\ CompletionComes'
  BY DEF CheckTrigger, RunsInv, EventInHand, ClaimedOnce, DoneIsReported, SucceededMeansAllDone, CompletionComes,
         HasEvent, Event, CompletionInHand
<1>. QED  BY <1>1, <1>2, <1>3 DEF RunsInv

LEMMA PublishTriggerKeeps ==
    ASSUME NEW q \in Requests, RunsInv, PublishTrigger(q)
    PROVE  RunsInv'
<1>1. RunsRowsOK'
  BY DEF PublishTrigger, RunsInv, RunsRowsOK, RunsTypeOK
<1>2. RowsAreCommanded'
  BY DEF PublishTrigger, RunsInv, RowsAreCommanded
<1>3. EventInHand' /\ ClaimedOnce' /\ DoneIsReported' /\ SucceededMeansAllDone' /\ CompletionComes'
  BY DEF PublishTrigger, RunsInv, EventInHand, ClaimedOnce, DoneIsReported, SucceededMeansAllDone, CompletionComes,
         HasEvent, Event, CompletionInHand
<1>. QED  BY <1>1, <1>2, <1>3 DEF RunsInv

LEMMA CommitTriggerKeeps ==
    ASSUME NEW q \in Requests, RunsInv, CommitTrigger(q)
    PROVE  RunsInv'
<1>1. RunsRowsOK'
  BY DEF CommitTrigger, RunsInv, RunsRowsOK, RunsTypeOK, Active
<1>2. RowsAreCommanded'
  BY DEF CommitTrigger, RunsInv, RunsRowsOK, RunsTypeOK, RowsAreCommanded
<1>3. DoneIsReported'
  BY DEF CommitTrigger, RunsInv, DoneIsReported
<1>4. SucceededMeansAllDone'
  BY DEF CommitTrigger, RunsInv, SucceededMeansAllDone
<1>5. CompletionComes'
  BY RunsAssumption
     DEF CommitTrigger, RunsInv, RunsRowsOK, RunsTypeOK, CompletionComes, CompletionInHand, HasEvent, Event
<1>6. EventInHand' /\ ClaimedOnce'
  BY DEF CommitTrigger, RunsInv, EventInHand, ClaimedOnce, HasEvent, Event
<1>. QED  BY <1>1, <1>2, <1>3, <1>4, <1>5, <1>6 DEF RunsInv

LEMMA RollBackKeeps ==
    ASSUME NEW q \in Requests, RunsInv, RollBack(q)
    PROVE  RunsInv'
<1>1. RunsRowsOK'
  BY RunsAssumption DEF RollBack, RunsInv, RunsRowsOK, RunsTypeOK, Fault
<1>2. RowsAreCommanded'
  BY DEF RollBack, RunsInv, RowsAreCommanded
<1>3. EventInHand' /\ ClaimedOnce' /\ DoneIsReported' /\ SucceededMeansAllDone' /\ CompletionComes'
  BY DEF RollBack, RunsInv, EventInHand, ClaimedOnce, DoneIsReported, SucceededMeansAllDone, CompletionComes,
         HasEvent, Event, CompletionInHand
<1>. QED  BY <1>1, <1>2, <1>3 DEF RunsInv

LEMMA FetchOrphansKeeps ==
    ASSUME NEW p \in Pods, RunsInv, FetchOrphans(p)
    PROVE  RunsInv'
<1>1. RunsRowsOK'
  BY DEF FetchOrphans, RunsInv, RunsRowsOK, RunsTypeOK
<1>2. EventInHand' /\ RowsAreCommanded' /\ ClaimedOnce' /\ DoneIsReported'
        /\ SucceededMeansAllDone' /\ CompletionComes'
  BY DEF FetchOrphans, RunsInv, EventInHand, RowsAreCommanded, ClaimedOnce, DoneIsReported, SucceededMeansAllDone,
         CompletionComes, HasEvent, Event, CompletionInHand
<1>. QED  BY <1>1, <1>2 DEF RunsInv

LEMMA TryClaimRunKeeps ==
    ASSUME NEW p \in Pods, NEW q \in Requests, RunsInv, TryClaimRun(p, q)
    PROVE  RunsInv'
<1>1. RunsRowsOK'
  BY DEF TryClaimRun, RunsInv, RunsRowsOK, RunsTypeOK, Active, Terminal, Orphaned
<1>2. ClaimedOnce'
  <2>1. CASE Orphaned(q)
    <3>1. q \notin started /\ started' = started \cup {q} /\ hand' = [hand EXCEPT ![p] = q] /\ UNCHANGED again
      BY <2>1 DEF TryClaimRun, Orphaned
    <3>2. again[q] = 0 /\ \A pp \in Pods : hand[pp] # q
      BY <3>1 DEF RunsInv, ClaimedOnce
    <3>3. hand \in [Pods -> Requests \cup {Nobody}]
      BY DEF RunsInv, RunsRowsOK, RunsTypeOK
    <3>. QED  BY <3>1 DEF RunsInv, ClaimedOnce
  <2>2. CASE ~Orphaned(q)
    BY <2>2 DEF TryClaimRun, RunsInv, ClaimedOnce
  <2>. QED  BY <2>1, <2>2
<1>3. EventInHand' /\ RowsAreCommanded' /\ DoneIsReported' /\ SucceededMeansAllDone' /\ CompletionComes'
  BY DEF TryClaimRun, RunsInv, EventInHand, RowsAreCommanded, DoneIsReported, SucceededMeansAllDone,
         CompletionComes, HasEvent, Event, CompletionInHand
<1>. QED  BY <1>1, <1>2, <1>3 DEF RunsInv

LEMMA HandleOrphanedRunKeeps ==
    ASSUME NEW p \in Pods, RunsInv, HandleOrphanedRun(p)
    PROVE  RunsInv'
<1>1. RunsRowsOK'
  BY DEF HandleOrphanedRun, RunsInv, RunsRowsOK, RunsTypeOK
<1>2. RowsAreCommanded'
  BY DEF HandleOrphanedRun, RunsInv, RowsAreCommanded
<1>3. ClaimedOnce'
  BY RunsAssumption DEF HandleOrphanedRun, RunsInv, RunsRowsOK, RunsTypeOK, ClaimedOnce, Nobody
<1>4. EventInHand' /\ DoneIsReported' /\ SucceededMeansAllDone' /\ CompletionComes'
  BY DEF HandleOrphanedRun, RunsInv, EventInHand, DoneIsReported, SucceededMeansAllDone, CompletionComes, HasEvent,
         Event, CompletionInHand
<1>. QED  BY <1>1, <1>2, <1>3, <1>4 DEF RunsInv

LEMMA MarkFailedKeeps ==
    ASSUME NEW p \in Pods, RunsInv, MarkFailed(p)
    PROVE  RunsInv'
<1>1. RunsRowsOK'
  BY RunsAssumption DEF MarkFailed, RunsInv, RunsRowsOK, RunsTypeOK, Terminal, Fault
<1>2. RowsAreCommanded'
  BY DEF MarkFailed, RunsInv, RowsAreCommanded
<1>3. ClaimedOnce'
  BY RunsAssumption DEF MarkFailed, RunsInv, RunsRowsOK, RunsTypeOK, ClaimedOnce, Nobody
<1>4. SucceededMeansAllDone'
  BY DEF MarkFailed, RunsInv, SucceededMeansAllDone
<1>5. CompletionComes'
  BY DEF MarkFailed, RunsInv, CompletionComes, CompletionInHand, HasEvent, Event, Terminal
<1>6. EventInHand' /\ DoneIsReported'
  BY DEF MarkFailed, RunsInv, EventInHand, DoneIsReported, HasEvent, Event
<1>. QED  BY <1>1, <1>2, <1>3, <1>4, <1>5, <1>6 DEF RunsInv

LEMMA PodRestartsKeeps ==
    ASSUME NEW p \in Pods, RunsInv, PodRestarts(p)
    PROVE  RunsInv'
<1>1. RunsRowsOK'
  BY RunsAssumption DEF PodRestarts, RunsInv, RunsRowsOK, RunsTypeOK, Fault
<1>2. ClaimedOnce'
  BY RunsAssumption DEF PodRestarts, RunsInv, ClaimedOnce, Nobody
<1>3. EventInHand' /\ RowsAreCommanded' /\ DoneIsReported' /\ SucceededMeansAllDone' /\ CompletionComes'
  BY DEF PodRestarts, RunsInv, EventInHand, RowsAreCommanded, DoneIsReported, SucceededMeansAllDone,
         CompletionComes, HasEvent, Event, CompletionInHand
<1>. QED  BY <1>1, <1>2, <1>3 DEF RunsInv

\* An event is appended: what waited before stays where it was, the one in hand too.
LEMMA EventAppended ==
    ASSUME RunsInv, NEW e \in StageEvents, events' = Append(events, e)
    PROVE  /\ events' \in Seq(StageEvents) /\ Len(events') = Len(events) + 1 /\ Len(events) \in Nat
           /\ \A i \in 1..Len(events') : (i \in 1..Len(events) /\ events'[i] = events[i]) \/ events'[i] = e
           /\ HasEvent => HasEvent' /\ Event' = Event
<1>1. events \in Seq(StageEvents)
  BY DEF RunsInv, RunsRowsOK
<1>2. /\ Append(events, e) \in Seq(StageEvents) /\ Len(Append(events, e)) = Len(events) + 1 /\ Len(events) \in Nat
      /\ \A i \in 1..Len(events) : Append(events, e)[i] = events[i]
      /\ Append(events, e)[Len(events) + 1] = e
  BY <1>1, AppendProperties
<1>3. \A i \in 1..Len(events') : (i \in 1..Len(events) /\ events'[i] = events[i]) \/ events'[i] = e
  BY <1>2
<1>4. HasEvent => HasEvent' /\ Event' = Event
  BY <1>1, <1>2 DEF HasEvent, Event
<1>. QED  BY <1>2, <1>3, <1>4

LEMMA WorkerReportsKeeps ==
    ASSUME RunsInv, WorkerReports
    PROVE  RunsInv'
<1>1. PICK q \in commands, s \in PIPELINE_STAGES, st \in {"Processing", "Done", "Failed"} :
        /\ events' = Append(events, [run |-> q, stage |-> s, status |-> st])
        /\ reported' = IF st = "Done" THEN reported \cup {<<q, s>>} ELSE reported
  BY DEF WorkerReports
<1>. DEFINE e == [run |-> q, stage |-> s, status |-> st]
<1>2. e \in StageEvents /\ e.run = q /\ e.stage = s /\ e.status = st
  BY DEF RunsInv, RunsRowsOK, RunsTypeOK, StageEvents
<1>3. events' = Append(events, e) /\ reported \subseteq reported' /\ (st = "Done" => <<q, s>> \in reported')
  BY <1>1
<1>. HIDE DEF e
<1>4. /\ events' \in Seq(StageEvents) /\ Len(events') = Len(events) + 1 /\ Len(events) \in Nat
      /\ \A i \in 1..Len(events') : (i \in 1..Len(events) /\ events'[i] = events[i]) \/ events'[i] = e
      /\ HasEvent => HasEvent' /\ Event' = Event
  BY <1>2, <1>3, EventAppended
<1>5. RunsRowsOK'
  BY <1>1, <1>4, RunsAssumption DEF WorkerReports, RunsInv, RunsRowsOK, RunsTypeOK
<1>6. EventInHand'
  BY <1>4 DEF WorkerReports, RunsInv, EventInHand
<1>7. DoneIsReported'
  BY <1>2, <1>3, <1>4 DEF WorkerReports, RunsInv, DoneIsReported
<1>8. SucceededMeansAllDone'
  BY <1>3 DEF WorkerReports, RunsInv, SucceededMeansAllDone
<1>9. CompletionComes'
  BY <1>4 DEF WorkerReports, RunsInv, CompletionComes, CompletionInHand
<1>10. RowsAreCommanded' /\ ClaimedOnce'
  BY DEF WorkerReports, RunsInv, RowsAreCommanded, ClaimedOnce
<1>. QED  BY <1>5, <1>6, <1>7, <1>8, <1>9, <1>10 DEF RunsInv

LEMMA LegacyReportsKeeps ==
    ASSUME RunsInv, LegacyReports
    PROVE  RunsInv'
<1>. DEFINE e == [run |-> NoRun, stage |-> CHOOSE s \in PIPELINE_STAGES : TRUE, status |-> "Done"]
<1>1. e \in StageEvents /\ e.run = NoRun
  BY RunsAssumption DEF StageEvents
<1>2. events' = Append(events, e)
  BY DEF LegacyReports
<1>. HIDE DEF e
<1>3. /\ events' \in Seq(StageEvents) /\ Len(events') = Len(events) + 1 /\ Len(events) \in Nat
      /\ \A i \in 1..Len(events') : (i \in 1..Len(events) /\ events'[i] = events[i]) \/ events'[i] = e
      /\ HasEvent => HasEvent' /\ Event' = Event
  BY <1>1, <1>2, EventAppended
<1>4. RunsRowsOK'
  BY <1>3, RunsAssumption DEF LegacyReports, RunsInv, RunsRowsOK, RunsTypeOK
<1>5. EventInHand'
  BY <1>3 DEF LegacyReports, RunsInv, EventInHand
<1>6. DoneIsReported'
  BY <1>1, <1>3 DEF LegacyReports, RunsInv, DoneIsReported
<1>7. CompletionComes'
  BY <1>3 DEF LegacyReports, RunsInv, CompletionComes, CompletionInHand
<1>8. RowsAreCommanded' /\ ClaimedOnce' /\ SucceededMeansAllDone'
  BY DEF LegacyReports, RunsInv, RowsAreCommanded, ClaimedOnce, SucceededMeansAllDone
<1>. QED  BY <1>4, <1>5, <1>6, <1>7, <1>8 DEF RunsInv

LEMMA SkipMalformedKeeps ==
    ASSUME RunsInv, SkipMalformed
    PROVE  RunsInv'
<1>0. HasEvent
  BY DEF SkipMalformed
<1>1. RunsRowsOK'
  BY EventIs, RunsAssumption DEF SkipMalformed, RunsInv, RunsRowsOK, RunsTypeOK
<1>2. EventInHand'
  BY DEF SkipMalformed, EventInHand
<1>3. DoneIsReported'
  BY DEF SkipMalformed, RunsInv, DoneIsReported
<1>4. CompletionComes'
  <2>. SUFFICES ASSUME ~skipped, NEW q \in Requests, \A s \in PIPELINE_STAGES : stage[q][s] = "succeeded"
                PROVE  row[q] \in Terminal
    BY DEF SkipMalformed, CompletionComes
  <2>1. row[q] \in Terminal \/ CompletionInHand(q)
    BY DEF RunsInv, CompletionComes
  <2>2. ~CompletionInHand(q)
    BY RunsAssumption DEF SkipMalformed, CompletionInHand
  <2>. QED  BY <2>1, <2>2
<1>5. RowsAreCommanded' /\ ClaimedOnce' /\ SucceededMeansAllDone'
  BY DEF SkipMalformed, RunsInv, RowsAreCommanded, ClaimedOnce, SucceededMeansAllDone
<1>. QED  BY <1>1, <1>2, <1>3, <1>4, <1>5 DEF RunsInv

LEMMA UpdateStageRunKeeps ==
    ASSUME RunsInv, UpdateStageRun
    PROVE  RunsInv'
<1>0. HasEvent
  BY DEF UpdateStageRun
<1>1. RunsRowsOK'
  BY EventIs, StageDbParamsAre DEF UpdateStageRun, RunsInv, RunsRowsOK, RunsTypeOK, StageEvents
<1>2. EventInHand'
  BY DEF UpdateStageRun, EventInHand, HasEvent, Event
<1>3. RowsAreCommanded'
  BY DEF UpdateStageRun, RunsInv, RowsAreCommanded
<1>4. DoneIsReported'
  BY EventIs, StageDbParamsAre DEF UpdateStageRun, RunsInv, RunsRowsOK, RunsTypeOK, DoneIsReported, StageEvents
<1>5. CompletionComes'
  BY EventIs, StageDbParamsAre
     DEF UpdateStageRun, RunsInv, CompletionComes, CompletionInHand, HasEvent, Event, StageEvents
<1>6. ClaimedOnce' /\ SucceededMeansAllDone'
  BY DEF UpdateStageRun, RunsInv, ClaimedOnce, SucceededMeansAllDone
<1>. QED  BY <1>1, <1>2, <1>3, <1>4, <1>5, <1>6 DEF RunsInv

\* What the run's row becomes.
LEMMA UpdateRunCases ==
    ASSUME RunsInv, UpdateRun
    PROVE  /\ HasEvent /\ Event.run \in Requests
           /\ \/ UNCHANGED <<row, started>>
              \/ /\ row[Event.run] \in Active
                 /\ started' = started \cup {Event.run}
                 /\ \/ row' = [row EXCEPT ![Event.run] = "running"] /\ Event.status = "Processing"
                         /\ row[Event.run] = "queued"
                    \/ row' = [row EXCEPT ![Event.run] = "failed"]
                    \/ /\ row' = [row EXCEPT ![Event.run] = "succeeded"]
                       /\ \A s \in PIPELINE_STAGES : stage[Event.run][s] = "succeeded"
           /\ (Event.status = "Done"
                   /\ (\A s \in PIPELINE_STAGES : stage[Event.run][s] = "succeeded")
                   /\ row[Event.run] # "none") =>
                row'[Event.run] \in Terminal
<1>1. HasEvent /\ Event.run # NoRun
  BY DEF RunsInv, EventInHand, UpdateRun
<1>2. Event \in StageEvents
  BY <1>1, EventIs
<1>3. Event.run \in Requests
  BY <1>1, <1>2 DEF StageEvents
<1>4. row \in [Requests -> {"none"} \cup Active \cup Terminal]
  BY DEF RunsInv, RunsRowsOK, RunsTypeOK
<1>5. AllSucceeded(Event.run) <=> \A s \in PIPELINE_STAGES : stage[Event.run][s] = "succeeded"
  BY <1>3, AllSucceededMeans
<1>6. CASE Event.status = "Processing" /\ MaybeStartRun(Event.run)
  BY <1>1, <1>3, <1>6 DEF MaybeStartRun, Active
<1>7. CASE Event.status = "Done" /\ MaybeCompleteRun(Event.run)
  BY <1>1, <1>3, <1>4, <1>5, <1>7 DEF MaybeCompleteRun, Terminal
<1>8. CASE Event.status = "Failed" /\ FailRun(Event.run)
  BY <1>1, <1>3, <1>8 DEF FailRun
<1>. QED  BY <1>6, <1>7, <1>8 DEF UpdateRun

LEMMA UpdateRunKeeps ==
    ASSUME RunsInv, UpdateRun
    PROVE  RunsInv'
<1>1. /\ HasEvent /\ Event.run \in Requests /\ step = "run" /\ step' = "commit"
      /\ UNCHANGED <<request, stage, commands, again, orphans, hand, events, reported, skipped, faults>>
  BY UpdateRunCases DEF UpdateRun
<1>2. /\ row' \in [Requests -> {"none"} \cup Active \cup Terminal]
      /\ started' \subseteq {q \in Requests : row'[q] # "none"} /\ started \subseteq started'
  <2>1. /\ row \in [Requests -> {"none"} \cup Active \cup Terminal]
        /\ started \subseteq {q \in Requests : row[q] # "none"}
    BY DEF RunsInv, RunsRowsOK, RunsTypeOK
  <2>2. CASE UNCHANGED <<row, started>>
    BY <2>1, <2>2
  <2>3. CASE ~UNCHANGED <<row, started>>
    <3>1. /\ Event.run \in Requests /\ started' = started \cup {Event.run}
          /\ \E st \in {"running", "failed", "succeeded"} : row' = [row EXCEPT ![Event.run] = st]
      BY <2>3, UpdateRunCases
    <3>. QED  BY <2>1, <3>1 DEF Active, Terminal
  <2>. QED  BY <2>2, <2>3
<1>3. \A q \in Requests :
         /\ row'[q] = "none" <=> row[q] = "none"
         /\ row'[q] = "succeeded" =>
               row[q] = "succeeded" \/ \A s \in PIPELINE_STAGES : stage[q][s] = "succeeded"
         /\ row[q] \in Terminal => row'[q] \in Terminal
  BY UpdateRunCases DEF RunsInv, RunsRowsOK, RunsTypeOK, Active, Terminal
<1>4. RunsRowsOK'
  BY <1>1, <1>2 DEF RunsInv, RunsRowsOK, RunsTypeOK
<1>5. EventInHand'
  BY <1>1 DEF RunsInv, EventInHand, HasEvent, Event
<1>6. RowsAreCommanded'
  BY <1>1, <1>3 DEF RunsInv, RowsAreCommanded
<1>7. ClaimedOnce'
  BY <1>1, <1>2 DEF RunsInv, ClaimedOnce
<1>8. DoneIsReported'
  BY <1>1 DEF RunsInv, DoneIsReported
<1>9. SucceededMeansAllDone'
  BY <1>1, <1>3 DEF RunsInv, SucceededMeansAllDone, DoneIsReported
<1>10. CompletionComes'
  <2>. SUFFICES ASSUME ~skipped, NEW q \in Requests, \A s \in PIPELINE_STAGES : stage[q][s] = "succeeded"
                PROVE  row'[q] \in Terminal
    BY <1>1 DEF CompletionComes
  <2>1. row[q] \in Terminal \/ CompletionInHand(q)
    BY DEF RunsInv, CompletionComes
  <2>2. CASE row[q] \in Terminal
    BY <1>3, <2>2
  <2>3. CASE CompletionInHand(q)
    <3>1. Event.run = q /\ Event.status = "Done"
      BY <2>3 DEF CompletionInHand
    <3>2. row[q] # "none"
      BY RunsAssumption DEF RunsInv, RowsAreCommanded
    <3>3. (Event.status = "Done" /\ (\A t \in PIPELINE_STAGES : stage[Event.run][t] = "succeeded")
            /\ row[Event.run] # "none") =>
             row'[Event.run] \in Terminal
      BY UpdateRunCases
    <3>. QED  BY <3>1, <3>2, <3>3
  <2>. QED  BY <2>1, <2>2, <2>3
<1>. QED  BY <1>4, <1>5, <1>6, <1>7, <1>8, <1>9, <1>10 DEF RunsInv

LEMMA CommitEventKeeps ==
    ASSUME RunsInv, CommitEvent
    PROVE  RunsInv'
<1>0. HasEvent
  BY DEF CommitEvent, RunsInv, EventInHand
<1>1. RunsRowsOK'
  BY EventIs, RunsAssumption DEF CommitEvent, RunsInv, RunsRowsOK, RunsTypeOK, EventInHand
<1>2. EventInHand'
  BY DEF CommitEvent, EventInHand
<1>3. DoneIsReported'
  BY DEF CommitEvent, RunsInv, DoneIsReported
<1>4. CompletionComes'
  BY DEF CommitEvent, RunsInv, CompletionComes, CompletionInHand
<1>5. RowsAreCommanded' /\ ClaimedOnce' /\ SucceededMeansAllDone'
  BY DEF CommitEvent, RunsInv, RowsAreCommanded, ClaimedOnce, SucceededMeansAllDone
<1>. QED  BY <1>1, <1>2, <1>3, <1>4, <1>5 DEF RunsInv

LEMMA SkipAfterErrorKeeps ==
    ASSUME RunsInv, SkipAfterError
    PROVE  RunsInv'
<1>0. HasEvent
  BY DEF SkipAfterError
<1>1. RunsRowsOK'
  BY EventIs, RunsAssumption DEF SkipAfterError, RunsInv, RunsRowsOK, RunsTypeOK, Fault
<1>2. EventInHand'
  BY DEF SkipAfterError, EventInHand
<1>3. DoneIsReported'
  BY DEF SkipAfterError, RunsInv, DoneIsReported
<1>4. CompletionComes'
  BY DEF SkipAfterError, CompletionComes
<1>5. RowsAreCommanded' /\ ClaimedOnce' /\ SucceededMeansAllDone'
  BY DEF SkipAfterError, RunsInv, RowsAreCommanded, ClaimedOnce, SucceededMeansAllDone
<1>. QED  BY <1>1, <1>2, <1>3, <1>4, <1>5 DEF RunsInv

LEMMA ConsumerRestartsKeeps ==
    ASSUME RunsInv, ConsumerRestarts
    PROVE  RunsInv'
<1>1. RunsRowsOK'
  BY RunsAssumption DEF ConsumerRestarts, RunsInv, RunsRowsOK, RunsTypeOK, Fault
<1>2. EventInHand'
  BY DEF ConsumerRestarts, EventInHand
<1>3. CompletionComes'
  BY DEF ConsumerRestarts, RunsInv, CompletionComes, CompletionInHand, HasEvent, Event
<1>4. RowsAreCommanded' /\ ClaimedOnce' /\ DoneIsReported' /\ SucceededMeansAllDone'
  BY DEF ConsumerRestarts, RunsInv, RowsAreCommanded, ClaimedOnce, DoneIsReported, SucceededMeansAllDone
<1>. QED  BY <1>1, <1>2, <1>3, <1>4 DEF RunsInv

LEMMA RunsInitially == RunsInit => RunsInv
<1>. SUFFICES ASSUME RunsInit PROVE RunsInv
  OBVIOUS
<1>1. EventInHand
  BY DEF RunsInit, EventInHand
<1>5. RunsTypeOK
  BY RunsAssumption DEF RunsInit, RunsTypeOK
<1>6. RunsRowsOK
  <2>1. <<>> \in Seq(StageEvents)
    OBVIOUS
  <2>. QED  BY <1>5, <2>1 DEF RunsInit, RunsRowsOK
<1>2. RowsAreCommanded /\ DoneIsReported /\ SucceededMeansAllDone
  BY DEF RunsInit, RowsAreCommanded, DoneIsReported, SucceededMeansAllDone
<1>3. ClaimedOnce
  BY RunsAssumption DEF RunsInit, ClaimedOnce, Nobody
<1>4. CompletionComes
  BY RunsAssumption DEF RunsInit, CompletionComes
<1>. QED  BY <1>1, <1>2, <1>3, <1>4, <1>6 DEF RunsInv

LEMMA RunsStep == RunsInv /\ [RunsNext]_runVars => RunsInv'
<1>. SUFFICES ASSUME RunsInv, [RunsNext]_runVars PROVE RunsInv'
  OBVIOUS
<1>1. CASE \E q \in Requests : Trigger(q) \/ RollBack(q)
  BY <1>1, CheckTriggerKeeps, PublishTriggerKeeps, CommitTriggerKeeps, RollBackKeeps DEF Trigger
<1>2. CASE \E p \in Pods : Reconcile(p) \/ MarkFailed(p) \/ PodRestarts(p)
  BY <1>2, FetchOrphansKeeps, TryClaimRunKeeps, HandleOrphanedRunKeeps, MarkFailedKeeps, PodRestartsKeeps
     DEF Reconcile
<1>3. CASE WorkerReports \/ LegacyReports
  BY <1>3, WorkerReportsKeeps, LegacyReportsKeeps
<1>4. CASE Consume \/ SkipAfterError \/ ConsumerRestarts
  BY <1>4, SkipMalformedKeeps, UpdateStageRunKeeps, UpdateRunKeeps, CommitEventKeeps, SkipAfterErrorKeeps,
     ConsumerRestartsKeeps
     DEF Consume
<1>5. CASE UNCHANGED runVars
  BY <1>5
     DEF runVars, RunsInv, RunsRowsOK, RunsTypeOK, EventInHand, RowsAreCommanded, ClaimedOnce, DoneIsReported,
         SucceededMeansAllDone, CompletionComes, CompletionInHand, HasEvent, Event
<1>. QED  BY <1>1, <1>2, <1>3, <1>4, <1>5 DEF RunsNext

LEMMA RunsFollow == RunsInv => RunsFollowStages
<1>. SUFFICES ASSUME RunsInv PROVE RunsFollowStages
  OBVIOUS
<1>1. DispatchedAgainOnce
  <2>. SUFFICES ASSUME NEW q \in Requests
                PROVE  again[q] + Cardinality({p \in Pods : hand[p] = q}) <= 1
    BY DEF DispatchedAgainOnce
  <2>1. q # Nobody
    BY RunsAssumption DEF Nobody
  <2>2. CASE \E p \in Pods : hand[p] = q
    <3>1. PICK p \in Pods : hand[p] = q
      BY <2>2
    <3>2. again[q] = 0 /\ {pp \in Pods : hand[pp] = q} = {p}
      BY <2>1, <3>1 DEF RunsInv, ClaimedOnce
    <3>3. Cardinality({p}) = 1
      BY FS_Singleton
    <3>. QED  BY <3>2, <3>3
  <2>3. CASE ~\E p \in Pods : hand[p] = q
    <3>1. {p \in Pods : hand[p] = q} = {}
      BY <2>3
    <3>2. again[q] \in {0, 1}
      BY DEF RunsInv, ClaimedOnce
    <3>. QED  BY <3>1, <3>2, FS_EmptySet
  <2>. QED  BY <2>2, <2>3
<1>2. EveryRunIsCommanded
  BY DEF RunsInv, RowsAreCommanded, EveryRunIsCommanded
<1>3. CompletionNotMissed
  BY AllSucceededMeans DEF RunsInv, CompletionComes, CompletionInHand, CompletionNotMissed
<1>. QED  BY <1>1, <1>2, <1>3 DEF RunsInv, RunsRowsOK, RunsFollowStages

\* RunsFollowStages: a run is commanded, dispatched again once at most, and ends as
\* its stages did, for any requests, pods and stages.
THEOREM RunsAreFollowed == RunsSpec => []RunsFollowStages
<1>1. RunsSpec => []RunsInv
  BY RunsInitially, RunsStep, PTL DEF RunsSpec
<1>. QED  BY <1>1, RunsFollow, PTL

\* EndedStaysEnded: whatever is reported, committed or reconciled late.
THEOREM EndedRunsStay == RunsSpec => EndedStaysEnded
<1>1. RunsSpec => []RunsInv
  BY RunsInitially, RunsStep, PTL DEF RunsSpec
<1>2. RunsInv /\ [RunsNext]_runVars => [\A q \in Requests : row[q] \in Terminal => row'[q] = row[q]]_runVars
  <2>. SUFFICES ASSUME RunsInv, RunsNext, NEW q \in Requests, row[q] \in Terminal
                PROVE  row'[q] = row[q]
    OBVIOUS
  <2>1. row \in [Requests -> {"none"} \cup Active \cup Terminal] /\ row[q] \notin Active /\ row[q] # "none"
    BY DEF RunsInv, RunsRowsOK, RunsTypeOK, Active, Terminal
  <2>2. CASE \E r \in Requests : Trigger(r) \/ RollBack(r)
    BY <2>1, <2>2 DEF Trigger, CheckTrigger, PublishTrigger, CommitTrigger, RollBack, RunsInv, RowsAreCommanded
  <2>3. CASE \E p \in Pods : Reconcile(p) \/ MarkFailed(p) \/ PodRestarts(p)
    BY <2>1, <2>3 DEF Reconcile, FetchOrphans, TryClaimRun, HandleOrphanedRun, MarkFailed, PodRestarts, Active
  <2>4. CASE UpdateRun
    BY <2>1, <2>4, UpdateRunCases
  <2>5. CASE UNCHANGED row
    BY <2>5
  <2>6. (WorkerReports \/ LegacyReports \/ SkipMalformed \/ UpdateStageRun \/ CommitEvent
          \/ SkipAfterError \/ ConsumerRestarts)
            => UNCHANGED row
    BY DEF WorkerReports, LegacyReports, SkipMalformed, UpdateStageRun, CommitEvent, SkipAfterError, ConsumerRestarts
  <2>. QED  BY <2>2, <2>3, <2>4, <2>6 DEF RunsNext, Consume
<1>. QED  BY <1>1, <1>2, PTL DEF RunsSpec, EndedStaysEnded

----------------------------------------------------------------------------
(* Tenants: members, sessions and roles *)

MemberCalls == [op : Ops \cup Removing \cup {"checked", "deleting", "deleted"}, target : Users, mine : Roles,
        theirs : Roles \cup {"?"}]
\* The rows and the requests.
MembersOK ==
    /\ role \in [Users -> Roles] /\ session \in [Users -> {"none", "home", "shared"}]
    /\ call \in [Users -> {Idle} \cup MemberCalls \cup [op : {"login"},
            to : {"home", "shared"}] \cup [op : {"switch"}]]
    /\ late \subseteq Users /\ stale \in BOOLEAN
\* A request has read what lets it go on: a transfer is the owner's, to somebody
\* else; an owner's role is not changed, nor is an owner removed.
ReadAsRequired == \A u \in Users :
    /\ call[u].op = "transfer" => /\ call[u].mine = "owner" /\ call[u].target # u
                                  /\ call[u].theirs # "none"
    /\ call[u].op \in {"update", "remove"} \cup Removing => call[u].theirs \notin {"none", "owner"}
\* A row that is deleted is not read for a switch, nor deleted twice; so the
\* membership a switch has read is still there.
RowsAreLocked ==
    /\ \A u, v \in Users : call[u].op \in Removing /\ call[u].target = v => call[v].op # "switch"
    /\ \A u, v \in Users :
          call[u].op \in Removing /\ call[v].op \in Removing /\ call[u].target = call[v].target => u = v
    /\ \A u \in Users : call[u].op = "switch" => role[u] # "none"
\* A row that is being deleted still says what its deletion was allowed for.
RemovedAsRead == \A u \in Users :
    (~stale /\ call[u].op \in Removing) => role[call[u].target] = call[u].theirs
\* Whoever is removed and had no session to be revoked has none since, but by a late login.
RevokedNone == \A u \in Users :
    call[u].op = "removed" => session[call[u].target] # "shared" \/ call[u].target \in late
SoleOwner == ~stale => \E o \in Users : Owners = {o}

MemberInv ==
    /\ MembersOK /\ ReadAsRequired /\ RowsAreLocked /\ RemovedAsRead /\ RevokedNone
    /\ SoleOwner /\ NoSessionOutlivesMembership

\* The tenant's row is held by the transaction that deletes it, and by no other.
DeletionsOK ==
    /\ tenant \in {"active", "deleting"} /\ runs \in 0..1 /\ producer \in BOOLEAN
    /\ deleter \in Users \cup {"admin", "-"}
    /\ \A u \in Users : /\ deleter = u => call[u].op \in {"deleting", "deleted"}
                        /\ call[u].op \in {"deleting", "deleted"} => deleter = u \/ tenant = "deleting"
    /\ deleter = "admin" => admin.op \in {"tx", "published"}
    /\ admin.op \in {"tx", "published"} => deleter = "admin" \/ tenant = "deleting"
    /\ deleter # "-" => tenant = "active"
Tombstoned == \E k \in DOMAIN tombstones : tombstones[k] = "shared"
\* The tombstone is in the topic before the deletion is committed.
TombstoneFirst ==
    /\ \A u \in Users : call[u].op = "deleted" => Tombstoned
    /\ (admin.op = "published" /\ producer) => Tombstoned

TopicOK ==
    /\ tombstones \in Seq({"shared", "other"})
    /\ done \in Nat /\ taken \in Nat /\ done <= taken /\ taken <= Len(tombstones)
    /\ doing \in Stores \cup {"-", "commit"} /\ (doing # "-" => done < taken)
    /\ erased \in [{"shared", "other"} -> SUBSET Configured]
    /\ failed \subseteq 1..taken /\ qdrant \in BOOLEAN
\* The stores a tombstone in hand has been carried out in.
ErasedSoFar(s) == IF s = "pg" THEN {} ELSE IF s = "neo4j" THEN {"pg"}
                  ELSE IF s = "qdrant" THEN {"pg", "neo4j"} ELSE Configured
ErasedInOrder ==
    /\ \A k \in 1..taken :
          k < taken \/ doing = "-" => k \in failed \/ erased[tombstones[k]] = Configured
    /\ doing # "-" => ErasedSoFar(doing) \subseteq erased[tombstones[taken]]

\* Of the roles only the owner's is as high as the owner's.
LEMMA RankIs == \A r \in Roles : Rank(r) >= Rank("owner") => r = "owner"
<1>1. Rank("none") = 0 /\ Rank("member") = 1 /\ Rank("admin") = 2 /\ Rank("owner") = 3
  BY Zenon DEF Rank
<1>. QED  BY <1>1 DEF Roles

\* What a request is with its operation.
LEMMA CallIs == ASSUME MembersOK, NEW u \in Users
    PROVE  /\ call[u].op \in Ops \cup Removing \cup {"checked", "deleting", "deleted"} => call[u] \in MemberCalls
           /\ call[u].op = "login" => call[u] \in [op : {"login"}, to : {"home", "shared"}]
BY DEF MembersOK, Ops, MemberCalls, Idle, Removing

LEMMA RequireRoleKeeps ==
    ASSUME NEW u \in Users, NEW op \in Ops, NEW v \in Users, MemberInv, RequireRole(u, op, v)
    PROVE  MemberInv'
<1>1. MembersOK'
  BY TenantsAssumption, CallIs, RankIs DEF RequireRole, MemberInv, MembersOK, MemberCalls, Removing, Idle, Ops, Roles, Minimum
<1>2. ReadAsRequired'
  <2>1. call' = [call EXCEPT ![u] = [op |-> op, target |-> v, mine |-> role[u], theirs |-> "?"]]
        /\ role[u] \in Roles /\ op \in Ops /\ (op = "transfer" => v # u)
    BY DEF RequireRole, MemberInv, MembersOK
  <2>2. op = "transfer" => role[u] = "owner"
    BY <2>1, RankIs DEF RequireRole, Minimum
  <2>. QED  BY <2>1, <2>2 DEF MemberInv, MembersOK, ReadAsRequired, Ops
<1>3. RowsAreLocked'
  BY TenantsAssumption, CallIs, RankIs DEF RequireRole, MemberInv, MembersOK, MemberCalls, Removing,
      RowsAreLocked, Idle, Minimum, Ops, ReadAsRequired
<1>4. RemovedAsRead'
  BY TenantsAssumption, CallIs, RankIs DEF RequireRole, MemberInv, MembersOK, MemberCalls, Removing,
      RemovedAsRead, Idle, Minimum, Ops, ReadAsRequired, RowsAreLocked
<1>5. SoleOwner' /\ NoSessionOutlivesMembership'
  BY DEF RequireRole, MemberInv, SoleOwner, NoSessionOutlivesMembership, Owners
<1>7. RevokedNone'
  BY CallIs DEF RequireRole, MemberInv, MembersOK, MemberCalls, RevokedNone, Removing, Idle, Ops
<1>. QED  BY <1>1, <1>2, <1>3, <1>4, <1>5, <1>7 DEF MemberInv

LEMMA ReadTargetKeeps ==
    ASSUME NEW u \in Users, MemberInv, ReadTarget(u)
    PROVE  MemberInv'
<1>1. MembersOK'
  BY TenantsAssumption, CallIs, RankIs DEF ReadTarget, MemberInv, MembersOK, MemberCalls, Removing, Idle, Ops, Roles
<1>2. ReadAsRequired'
  BY TenantsAssumption, CallIs, RankIs DEF ReadTarget, MemberInv, MembersOK, MemberCalls, Removing, ReadAsRequired, Idle
<1>3. RowsAreLocked'
  BY TenantsAssumption, CallIs, RankIs DEF ReadTarget, MemberInv, MembersOK, MemberCalls, Removing,
      RowsAreLocked, Idle, ReadAsRequired
<1>4. RemovedAsRead'
  BY TenantsAssumption, CallIs, RankIs DEF ReadTarget, MemberInv, MembersOK, MemberCalls, Removing,
      RemovedAsRead, Idle, ReadAsRequired, RowsAreLocked
<1>5. SoleOwner' /\ NoSessionOutlivesMembership'
  BY DEF ReadTarget, MemberInv, SoleOwner, NoSessionOutlivesMembership, Owners
<1>7. RevokedNone'
  BY CallIs DEF ReadTarget, MemberInv, MembersOK, MemberCalls, RevokedNone, Removing, Idle
<1>. QED  BY <1>1, <1>2, <1>3, <1>4, <1>5, <1>7 DEF MemberInv

LEMMA AddExistingUserKeeps ==
    ASSUME NEW u \in Users, MemberInv, AddExistingUser(u)
    PROVE  MemberInv'
<1>1. MembersOK'
  BY TenantsAssumption, CallIs, RankIs DEF AddExistingUser, MemberInv, MembersOK, MemberCalls, Removing,
      Idle, Ops, Roles, Ready, Changed
<1>2. ReadAsRequired'
  BY TenantsAssumption, CallIs, RankIs DEF AddExistingUser, MemberInv, MembersOK, MemberCalls, Removing,
      ReadAsRequired, Idle, Ready, Changed
<1>3. RowsAreLocked'
  BY TenantsAssumption, CallIs, RankIs DEF AddExistingUser, MemberInv, MembersOK, MemberCalls, Removing,
      RowsAreLocked, Idle, Ready, Changed, ReadAsRequired
<1>4. RemovedAsRead'
  BY TenantsAssumption, CallIs, RankIs DEF AddExistingUser, MemberInv, MembersOK, MemberCalls, Removing,
      RemovedAsRead, Idle, Ready, Changed, ReadAsRequired, RowsAreLocked
<1>5. SoleOwner'
  BY TenantsAssumption, CallIs, RankIs DEF AddExistingUser, MemberInv, MembersOK, MemberCalls, Removing,
      SoleOwner, Owners, Ready, Changed, RemovedAsRead, ReadAsRequired
<1>6. NoSessionOutlivesMembership'
  BY TenantsAssumption, CallIs, RankIs DEF AddExistingUser, MemberInv, MembersOK, MemberCalls, Removing,
      NoSessionOutlivesMembership, Ready, Changed, RowsAreLocked
<1>7. RevokedNone'
  BY CallIs DEF AddExistingUser, MemberInv, MembersOK, MemberCalls, RevokedNone, Removing, Idle, Ready
<1>. QED  BY <1>1, <1>2, <1>3, <1>4, <1>5, <1>6, <1>7 DEF MemberInv

LEMMA UpdateMemberRoleKeeps ==
    ASSUME NEW u \in Users, MemberInv, UpdateMemberRole(u)
    PROVE  MemberInv'
<1>1. MembersOK'
  BY TenantsAssumption, CallIs, RankIs DEF UpdateMemberRole, MemberInv, MembersOK, MemberCalls, Removing,
      Idle, Ops, Roles, Ready, Changed
<1>2. ReadAsRequired'
  BY TenantsAssumption, CallIs, RankIs DEF UpdateMemberRole, MemberInv, MembersOK, MemberCalls, Removing,
      ReadAsRequired, Idle, Ready, Changed
<1>3. RowsAreLocked'
  BY TenantsAssumption, CallIs, RankIs DEF UpdateMemberRole, MemberInv, MembersOK, MemberCalls, Removing,
      RowsAreLocked, Idle, Ready, Changed, ReadAsRequired
<1>4. RemovedAsRead'
  BY CallIs DEF UpdateMemberRole, MemberInv, MembersOK, MemberCalls, Removing, RemovedAsRead, Idle, Ready, Writable, DeletedRow
<1>5. SoleOwner'
  <2>. SUFFICES ASSUME ~stale' PROVE \E o \in Users : Owners' = {o}
    BY DEF SoleOwner
  <2>1. PICK r \in {"member", "admin"} :
          role' = [role EXCEPT ![call[u].target] = IF @ = "none" THEN "none" ELSE r]
    BY DEF UpdateMemberRole
  <2>2. /\ ~stale /\ role[call[u].target] = call[u].theirs /\ call[u].theirs # "owner"
        /\ role \in [Users -> Roles]
    BY DEF UpdateMemberRole, Changed, Ready, MemberInv, MembersOK, ReadAsRequired
  <2>3. Owners' = Owners
    BY <2>1, <2>2 DEF Owners
  <2>. QED  BY <2>2, <2>3 DEF MemberInv, SoleOwner
<1>6. NoSessionOutlivesMembership'
  BY TenantsAssumption, CallIs, RankIs DEF UpdateMemberRole, MemberInv, MembersOK, MemberCalls, Removing,
      NoSessionOutlivesMembership, Ready, Changed, RowsAreLocked
<1>7. RevokedNone'
  BY CallIs DEF UpdateMemberRole, MemberInv, MembersOK, MemberCalls, RevokedNone, Removing, Idle, Ready
<1>. QED  BY <1>1, <1>2, <1>3, <1>4, <1>5, <1>6, <1>7 DEF MemberInv

LEMMA RemoveMemberKeeps ==
    ASSUME NEW u \in Users, MemberInv, RemoveMember(u)
    PROVE  MemberInv'
<1>1. MembersOK'
  BY TenantsAssumption, CallIs, RankIs DEF RemoveMember, MemberInv, MembersOK, MemberCalls, Removing, Idle,
      Ops, Roles, Ready, Changed, Writable, SharedRow, DeletedRow
<1>2. ReadAsRequired'
  BY TenantsAssumption, CallIs, RankIs DEF RemoveMember, MemberInv, MembersOK, MemberCalls, Removing,
      ReadAsRequired, Idle, Ready, Changed, Writable, SharedRow, DeletedRow
<1>3. RowsAreLocked'
  BY TenantsAssumption, CallIs, RankIs DEF RemoveMember, MemberInv, MembersOK, MemberCalls, Removing,
      RowsAreLocked, Idle, Ready, Changed, Writable, SharedRow, DeletedRow, ReadAsRequired
<1>4. RemovedAsRead'
  <2>1. /\ call[u] \in MemberCalls /\ call' = [call EXCEPT ![u].op = "removing"] /\ UNCHANGED role
        /\ (~stale' => ~stale /\ role[call[u].target] = call[u].theirs)
    BY CallIs DEF RemoveMember, Ready, Changed, MemberInv, Ops
  <2>2. call'[u].target = call[u].target /\ call'[u].theirs = call[u].theirs
          /\ \A w \in Users \ {u} : call'[w] = call[w]
    BY <2>1 DEF MemberInv, MembersOK, MemberCalls
  <2>. QED  BY <2>1, <2>2 DEF MemberInv, RemovedAsRead
<1>5. SoleOwner'
  BY TenantsAssumption, CallIs, RankIs DEF RemoveMember, MemberInv, MembersOK, MemberCalls, Removing,
      SoleOwner, Owners, Ready, Changed, Writable, SharedRow, DeletedRow, RemovedAsRead,
      ReadAsRequired
<1>6. NoSessionOutlivesMembership'
  BY DEF RemoveMember, MemberInv, NoSessionOutlivesMembership
<1>7. RevokedNone'
  BY CallIs DEF RemoveMember, MemberInv, MembersOK, MemberCalls, RevokedNone, Removing, Idle, Ready, Ops
<1>. QED  BY <1>1, <1>2, <1>3, <1>4, <1>5, <1>6, <1>7 DEF MemberInv

LEMMA RemoveRevokesKeeps ==
    ASSUME NEW u \in Users, MemberInv, RemoveRevokes(u)
    PROVE  MemberInv'
<1>1. MembersOK'
  BY TenantsAssumption, CallIs, RankIs DEF RemoveRevokes, MemberInv, MembersOK, MemberCalls, Removing, Idle, Ops, Roles
<1>2. ReadAsRequired'
  BY TenantsAssumption, CallIs, RankIs DEF RemoveRevokes, MemberInv, MembersOK, MemberCalls, Removing, ReadAsRequired, Idle
<1>3. RowsAreLocked'
  BY TenantsAssumption, CallIs, RankIs DEF RemoveRevokes, MemberInv, MembersOK, MemberCalls, Removing,
      RowsAreLocked, Idle, ReadAsRequired
<1>4. RemovedAsRead'
  BY TenantsAssumption, CallIs, RankIs DEF RemoveRevokes, MemberInv, MembersOK, MemberCalls, Removing,
      RemovedAsRead, Idle, ReadAsRequired, RowsAreLocked
<1>5. SoleOwner' /\ NoSessionOutlivesMembership'
  BY DEF RemoveRevokes, MemberInv, SoleOwner, NoSessionOutlivesMembership, Owners
<1>7. RevokedNone'
  BY CallIs DEF RemoveRevokes, MemberInv, MembersOK, MemberCalls, RevokedNone, Removing, Idle
<1>. QED  BY <1>1, <1>2, <1>3, <1>4, <1>5, <1>7 DEF MemberInv

LEMMA RemoveCommitsKeeps ==
    ASSUME NEW u \in Users, MemberInv, RemoveCommits(u)
    PROVE  MemberInv'
<1>1. MembersOK'
  BY TenantsAssumption, CallIs, RankIs DEF RemoveCommits, MemberInv, MembersOK, MemberCalls, Removing, Idle, Ops, Roles
<1>2. ReadAsRequired'
  BY TenantsAssumption, CallIs, RankIs DEF RemoveCommits, MemberInv, MembersOK, MemberCalls, Removing, ReadAsRequired, Idle
<1>3. RowsAreLocked'
  BY TenantsAssumption, CallIs, RankIs DEF RemoveCommits, MemberInv, MembersOK, MemberCalls, Removing,
      RowsAreLocked, Idle, ReadAsRequired
<1>4. RemovedAsRead'
  BY TenantsAssumption, CallIs, RankIs DEF RemoveCommits, MemberInv, MembersOK, MemberCalls, Removing,
      RemovedAsRead, Idle, ReadAsRequired, RowsAreLocked
<1>5. SoleOwner'
  BY TenantsAssumption, CallIs, RankIs DEF RemoveCommits, MemberInv, MembersOK, MemberCalls, Removing,
      SoleOwner, Owners, RemovedAsRead, ReadAsRequired
<1>6. NoSessionOutlivesMembership'
  <2>. DEFINE v == call[u].target
  <2>1. v \in Users /\ UNCHANGED late /\ role' = [role EXCEPT ![v] = "none"]
    BY CallIs DEF RemoveCommits, MemberInv, MemberCalls, Removing
  <2>2. \A w \in Users \ {v} : session'[w] = session[w] /\ role'[w] = role[w]
    BY <2>1 DEF RemoveCommits, MemberInv, MembersOK
  <2>3. session'[v] # "shared" \/ v \in late
    BY <2>1 DEF RemoveCommits, MemberInv, MembersOK, RevokedNone
  <2>. QED  BY <2>1, <2>2, <2>3 DEF MemberInv, NoSessionOutlivesMembership
<1>7. RevokedNone'
  BY CallIs DEF RemoveCommits, MemberInv, MembersOK, MemberCalls, RevokedNone, Removing, Idle, RowsAreLocked
<1>. QED  BY <1>1, <1>2, <1>3, <1>4, <1>5, <1>6, <1>7 DEF MemberInv

LEMMA TransferOwnershipKeeps ==
    ASSUME NEW u \in Users, MemberInv, TransferOwnership(u)
    PROVE  MemberInv'
<1>1. MembersOK'
  BY TenantsAssumption, CallIs, RankIs DEF TransferOwnership, MemberInv, MembersOK, MemberCalls, Removing,
      Idle, Ops, Roles, Ready, Changed, Writable, SharedRow, DeletedRow
<1>2. ReadAsRequired'
  BY TenantsAssumption, CallIs, RankIs DEF TransferOwnership, MemberInv, MembersOK, MemberCalls, Removing,
      ReadAsRequired, Idle, Ready, Changed, Writable, SharedRow, DeletedRow
<1>3. RowsAreLocked'
  BY TenantsAssumption, CallIs, RankIs DEF TransferOwnership, MemberInv, MembersOK, MemberCalls, Removing,
      RowsAreLocked, Idle, Ready, Changed, Writable, SharedRow, DeletedRow, ReadAsRequired
<1>4. RemovedAsRead'
  BY TenantsAssumption, CallIs, RankIs DEF TransferOwnership, MemberInv, MembersOK, MemberCalls, Removing,
      RemovedAsRead, Idle, Ready, Changed, Writable, SharedRow, DeletedRow, ReadAsRequired,
      RowsAreLocked
<1>5. SoleOwner'
  <2>. SUFFICES ASSUME ~stale' PROVE \E o \in Users : Owners' = {o}
    BY DEF SoleOwner
  <2>. DEFINE v == call[u].target
  <2>1. v \in Users /\ v # u /\ call[u].mine = "owner" /\ call[u].theirs # "none"
    BY CallIs DEF TransferOwnership, Ready, MemberInv, ReadAsRequired, MemberCalls, Ops
  <2>2. ~stale /\ role[u] = "owner" /\ role[v] # "none"
    BY <2>1 DEF TransferOwnership, Changed
  <2>3. PICK o \in Users : Owners = {o}
    BY <2>2 DEF MemberInv, SoleOwner
  <2>4. \A w \in Users : role[w] = "owner" <=> w = u
    BY <2>2, <2>3 DEF Owners
  <2>5. \A w \in Users : role'[w] = "owner" <=> w = v
    BY <2>1, <2>2, <2>4 DEF TransferOwnership
  <2>6. Owners' = {v}
    BY <2>1, <2>5 DEF Owners
  <2>. QED  BY <2>1, <2>6
<1>6. NoSessionOutlivesMembership'
  BY TenantsAssumption, CallIs, RankIs DEF TransferOwnership, MemberInv, MembersOK, MemberCalls, Removing,
      NoSessionOutlivesMembership, Ready, Changed, Writable, SharedRow, DeletedRow, RowsAreLocked
<1>7. RevokedNone'
  BY CallIs DEF TransferOwnership, MemberInv, MembersOK, MemberCalls, RevokedNone, Removing, Idle, Ready
<1>. QED  BY <1>1, <1>2, <1>3, <1>4, <1>5, <1>6, <1>7 DEF MemberInv

LEMMA LoginReadsKeeps ==
    ASSUME NEW u \in Users, MemberInv, LoginReads(u)
    PROVE  MemberInv'
<1>1. MembersOK'
  BY TenantsAssumption, CallIs, RankIs DEF LoginReads, MemberInv, MembersOK, MemberCalls, Removing, Idle, Ops, Roles
<1>2. ReadAsRequired'
  BY TenantsAssumption, CallIs, RankIs DEF LoginReads, MemberInv, MembersOK, MemberCalls, Removing, ReadAsRequired, Idle
<1>3. RowsAreLocked'
  BY TenantsAssumption, CallIs, RankIs DEF LoginReads, MemberInv, MembersOK, MemberCalls, Removing,
      RowsAreLocked, Idle, ReadAsRequired
<1>4. RemovedAsRead'
  BY TenantsAssumption, CallIs, RankIs DEF LoginReads, MemberInv, MembersOK, MemberCalls, Removing,
      RemovedAsRead, Idle, ReadAsRequired, RowsAreLocked
<1>5. SoleOwner' /\ NoSessionOutlivesMembership'
  BY DEF LoginReads, MemberInv, SoleOwner, NoSessionOutlivesMembership, Owners
<1>7. RevokedNone'
  BY CallIs DEF LoginReads, MemberInv, MembersOK, MemberCalls, RevokedNone, Removing, Idle
<1>. QED  BY <1>1, <1>2, <1>3, <1>4, <1>5, <1>7 DEF MemberInv

LEMMA LoginInsertsKeeps ==
    ASSUME NEW u \in Users, MemberInv, LoginInserts(u)
    PROVE  MemberInv'
<1>1. MembersOK'
  BY TenantsAssumption, CallIs, RankIs DEF LoginInserts, MemberInv, MembersOK, MemberCalls, Removing, Idle, Ops, Roles
<1>2. ReadAsRequired'
  BY TenantsAssumption, CallIs, RankIs DEF LoginInserts, MemberInv, MembersOK, MemberCalls, Removing, ReadAsRequired, Idle
<1>3. RowsAreLocked'
  BY TenantsAssumption, CallIs, RankIs DEF LoginInserts, MemberInv, MembersOK, MemberCalls, Removing,
      RowsAreLocked, Idle, ReadAsRequired
<1>4. RemovedAsRead'
  BY TenantsAssumption, CallIs, RankIs DEF LoginInserts, MemberInv, MembersOK, MemberCalls, Removing,
      RemovedAsRead, Idle, ReadAsRequired, RowsAreLocked
<1>5. NoSessionOutlivesMembership'
  BY DEF LoginInserts, TooLate, MemberInv, MembersOK, NoSessionOutlivesMembership
<1>6. SoleOwner'
  BY DEF LoginInserts, MemberInv, SoleOwner, Owners
<1>7. RevokedNone'
  BY CallIs DEF LoginInserts, MemberInv, MembersOK, MemberCalls, RevokedNone, Removing, Idle, TooLate
<1>. QED  BY <1>1, <1>2, <1>3, <1>4, <1>5, <1>6, <1>7 DEF MemberInv

LEMMA LogoutKeeps ==
    ASSUME NEW u \in Users, MemberInv, Logout(u)
    PROVE  MemberInv'
<1>1. MembersOK'
  BY TenantsAssumption, CallIs, RankIs DEF Logout, MemberInv, MembersOK, MemberCalls, Removing, Idle, Ops, Roles
<1>2. NoSessionOutlivesMembership'
  BY TenantsAssumption, CallIs, RankIs DEF Logout, MemberInv, MembersOK, MemberCalls, Removing,
      NoSessionOutlivesMembership, RowsAreLocked
<1>3. ReadAsRequired' /\ RowsAreLocked' /\ RemovedAsRead' /\ SoleOwner'
  BY DEF Logout, MemberInv, ReadAsRequired, RowsAreLocked, RemovedAsRead, SoleOwner, Owners
<1>7. RevokedNone'
  BY CallIs DEF Logout, MemberInv, MembersOK, MemberCalls, RevokedNone, Removing, Idle
<1>. QED  BY <1>1, <1>2, <1>3, <1>7 DEF MemberInv

LEMMA SwitchTenantKeeps ==
    ASSUME NEW u \in Users, MemberInv, SwitchTenant(u)
    PROVE  MemberInv'
<1>1. MembersOK'
  BY TenantsAssumption, CallIs, RankIs DEF SwitchTenant, MemberInv, MembersOK, MemberCalls, Removing, Idle,
      Ops, Roles, DeletedRow
<1>2. ReadAsRequired'
  BY TenantsAssumption, CallIs, RankIs DEF SwitchTenant, MemberInv, MembersOK, MemberCalls, Removing,
      ReadAsRequired, Idle, DeletedRow
<1>3. RowsAreLocked'
  BY TenantsAssumption, CallIs, RankIs DEF SwitchTenant, MemberInv, MembersOK, MemberCalls, Removing,
      RowsAreLocked, Idle, DeletedRow, ReadAsRequired
<1>4. RemovedAsRead'
  BY TenantsAssumption, CallIs, RankIs DEF SwitchTenant, MemberInv, MembersOK, MemberCalls, Removing,
      RemovedAsRead, Idle, DeletedRow, ReadAsRequired, RowsAreLocked
<1>5. SoleOwner' /\ NoSessionOutlivesMembership'
  BY DEF SwitchTenant, MemberInv, SoleOwner, NoSessionOutlivesMembership, Owners
<1>7. RevokedNone'
  BY CallIs DEF SwitchTenant, MemberInv, MembersOK, MemberCalls, RevokedNone, Removing, Idle
<1>. QED  BY <1>1, <1>2, <1>3, <1>4, <1>5, <1>7 DEF MemberInv

LEMMA SwitchCommitsKeeps ==
    ASSUME NEW u \in Users, MemberInv, SwitchCommits(u)
    PROVE  MemberInv'
<1>1. MembersOK'
  BY TenantsAssumption, CallIs, RankIs DEF SwitchCommits, MemberInv, MembersOK, MemberCalls, Removing, Idle, Ops, Roles
<1>2. ReadAsRequired'
  BY TenantsAssumption, CallIs, RankIs DEF SwitchCommits, MemberInv, MembersOK, MemberCalls, Removing, ReadAsRequired, Idle
<1>3. RowsAreLocked'
  BY TenantsAssumption, CallIs, RankIs DEF SwitchCommits, MemberInv, MembersOK, MemberCalls, Removing,
      RowsAreLocked, Idle, ReadAsRequired
<1>4. RemovedAsRead'
  BY TenantsAssumption, CallIs, RankIs DEF SwitchCommits, MemberInv, MembersOK, MemberCalls, Removing,
      RemovedAsRead, Idle, ReadAsRequired, RowsAreLocked
<1>5. NoSessionOutlivesMembership'
  BY TenantsAssumption, CallIs, RankIs DEF SwitchCommits, MemberInv, MembersOK, MemberCalls, Removing,
      NoSessionOutlivesMembership, RowsAreLocked
<1>6. SoleOwner'
  BY DEF SwitchCommits, MemberInv, SoleOwner, Owners
<1>7. RevokedNone'
  BY CallIs DEF SwitchCommits, MemberInv, MembersOK, MemberCalls, RevokedNone, Removing, Idle, RowsAreLocked
<1>. QED  BY <1>1, <1>2, <1>3, <1>4, <1>5, <1>6, <1>7 DEF MemberInv

LEMMA DeleteChecksKeeps ==
    ASSUME NEW u \in Users, MemberInv, DeleteChecks(u)
    PROVE  MemberInv'
<1>1. MembersOK'
  BY TenantsAssumption, CallIs, RankIs DEF DeleteChecks, MemberInv, MembersOK, MemberCalls, Removing, Idle, Ops, Roles
<1>2. ReadAsRequired'
  BY TenantsAssumption, CallIs, RankIs DEF DeleteChecks, MemberInv, MembersOK, MemberCalls, Removing, ReadAsRequired, Idle
<1>3. RowsAreLocked'
  BY TenantsAssumption, CallIs, RankIs DEF DeleteChecks, MemberInv, MembersOK, MemberCalls, Removing,
      RowsAreLocked, Idle, ReadAsRequired
<1>4. RemovedAsRead'
  BY TenantsAssumption, CallIs, RankIs DEF DeleteChecks, MemberInv, MembersOK, MemberCalls, Removing,
      RemovedAsRead, Idle, ReadAsRequired, RowsAreLocked
<1>5. SoleOwner' /\ NoSessionOutlivesMembership'
  BY DEF DeleteChecks, MemberInv, SoleOwner, NoSessionOutlivesMembership, Owners
<1>7. RevokedNone'
  BY CallIs DEF DeleteChecks, MemberInv, MembersOK, MemberCalls, RevokedNone, Removing, Idle
<1>. QED  BY <1>1, <1>2, <1>3, <1>4, <1>5, <1>7 DEF MemberInv

LEMMA DeleteTenantKeeps ==
    ASSUME NEW u \in Users, MemberInv, DeleteTenant(u)
    PROVE  MemberInv'
<1>1. MembersOK'
  BY TenantsAssumption, CallIs, RankIs DEF DeleteTenant, MemberInv, MembersOK, MemberCalls, Removing, Idle, Ops, Roles
<1>2. ReadAsRequired'
  BY TenantsAssumption, CallIs, RankIs DEF DeleteTenant, MemberInv, MembersOK, MemberCalls, Removing, ReadAsRequired, Idle
<1>3. RowsAreLocked'
  BY TenantsAssumption, CallIs, RankIs DEF DeleteTenant, MemberInv, MembersOK, MemberCalls, Removing,
      RowsAreLocked, Idle, ReadAsRequired
<1>4. RemovedAsRead'
  BY TenantsAssumption, CallIs, RankIs DEF DeleteTenant, MemberInv, MembersOK, MemberCalls, Removing,
      RemovedAsRead, Idle, ReadAsRequired, RowsAreLocked
<1>5. SoleOwner' /\ NoSessionOutlivesMembership'
  BY DEF DeleteTenant, MemberInv, SoleOwner, NoSessionOutlivesMembership, Owners
<1>7. RevokedNone'
  BY CallIs DEF DeleteTenant, MemberInv, MembersOK, MemberCalls, RevokedNone, Removing, Idle
<1>. QED  BY <1>1, <1>2, <1>3, <1>4, <1>5, <1>7 DEF MemberInv

LEMMA DeletePublishesKeeps ==
    ASSUME NEW u \in Users, MemberInv, DeletePublishes(u)
    PROVE  MemberInv'
<1>1. MembersOK'
  BY TenantsAssumption, CallIs, RankIs DEF DeletePublishes, MemberInv, MembersOK, MemberCalls, Removing,
      Idle, Ops, Roles, PublishTombstone
<1>2. ReadAsRequired'
  BY TenantsAssumption, CallIs, RankIs DEF DeletePublishes, MemberInv, MembersOK, MemberCalls, Removing,
      ReadAsRequired, Idle, PublishTombstone
<1>3. RowsAreLocked'
  BY TenantsAssumption, CallIs, RankIs DEF DeletePublishes, MemberInv, MembersOK, MemberCalls, Removing,
      RowsAreLocked, Idle, PublishTombstone, ReadAsRequired
<1>4. RemovedAsRead'
  BY TenantsAssumption, CallIs, RankIs DEF DeletePublishes, MemberInv, MembersOK, MemberCalls, Removing,
      RemovedAsRead, Idle, PublishTombstone, ReadAsRequired, RowsAreLocked
<1>5. SoleOwner' /\ NoSessionOutlivesMembership'
  BY DEF DeletePublishes, MemberInv, SoleOwner, NoSessionOutlivesMembership, Owners
<1>7. RevokedNone'
  BY CallIs DEF DeletePublishes, MemberInv, MembersOK, MemberCalls, RevokedNone, Removing, Idle
<1>. QED  BY <1>1, <1>2, <1>3, <1>4, <1>5, <1>7 DEF MemberInv

LEMMA DeleteCommitsKeeps ==
    ASSUME NEW u \in Users, MemberInv, DeleteCommits(u)
    PROVE  MemberInv'
<1>1. MembersOK'
  BY TenantsAssumption, CallIs, RankIs DEF DeleteCommits, MemberInv, MembersOK, MemberCalls, Removing, Idle, Ops, Roles
<1>2. ReadAsRequired'
  BY TenantsAssumption, CallIs, RankIs DEF DeleteCommits, MemberInv, MembersOK, MemberCalls, Removing, ReadAsRequired, Idle
<1>3. RowsAreLocked'
  BY TenantsAssumption, CallIs, RankIs DEF DeleteCommits, MemberInv, MembersOK, MemberCalls, Removing,
      RowsAreLocked, Idle, ReadAsRequired
<1>4. RemovedAsRead'
  BY TenantsAssumption, CallIs, RankIs DEF DeleteCommits, MemberInv, MembersOK, MemberCalls, Removing,
      RemovedAsRead, Idle, ReadAsRequired, RowsAreLocked
<1>5. SoleOwner' /\ NoSessionOutlivesMembership'
  BY DEF DeleteCommits, MemberInv, SoleOwner, NoSessionOutlivesMembership, Owners
<1>7. RevokedNone'
  BY CallIs DEF DeleteCommits, MemberInv, MembersOK, MemberCalls, RevokedNone, Removing, Idle
<1>. QED  BY <1>1, <1>2, <1>3, <1>4, <1>5, <1>7 DEF MemberInv

LEMMA DeleteRollsBackKeeps ==
    ASSUME NEW u \in Users, MemberInv, DeleteRollsBack(u)
    PROVE  MemberInv'
<1>1. MembersOK'
  BY TenantsAssumption, CallIs, RankIs DEF DeleteRollsBack, MemberInv, MembersOK, MemberCalls, Removing, Idle, Ops, Roles
<1>2. ReadAsRequired'
  BY TenantsAssumption, CallIs, RankIs DEF DeleteRollsBack, MemberInv, MembersOK, MemberCalls, Removing, ReadAsRequired, Idle
<1>3. RowsAreLocked'
  BY TenantsAssumption, CallIs, RankIs DEF DeleteRollsBack, MemberInv, MembersOK, MemberCalls, Removing,
      RowsAreLocked, Idle, ReadAsRequired
<1>4. RemovedAsRead'
  BY TenantsAssumption, CallIs, RankIs DEF DeleteRollsBack, MemberInv, MembersOK, MemberCalls, Removing,
      RemovedAsRead, Idle, ReadAsRequired, RowsAreLocked
<1>5. SoleOwner' /\ NoSessionOutlivesMembership'
  BY DEF DeleteRollsBack, MemberInv, SoleOwner, NoSessionOutlivesMembership, Owners
<1>7. RevokedNone'
  BY CallIs DEF DeleteRollsBack, MemberInv, MembersOK, MemberCalls, RevokedNone, Removing, Idle
<1>. QED  BY <1>1, <1>2, <1>3, <1>4, <1>5, <1>7 DEF MemberInv

LEMMA MembersInitially == TenInit => MemberInv
<1>. SUFFICES ASSUME TenInit PROVE MemberInv
  OBVIOUS
<1>1. MembersOK
  BY DEF TenInit, MembersOK, Roles
<1>2. ReadAsRequired /\ RowsAreLocked /\ RemovedAsRead /\ RevokedNone /\ NoSessionOutlivesMembership
  BY DEF TenInit, Idle, Removing, RevokedNone, ReadAsRequired, RowsAreLocked, RemovedAsRead, NoSessionOutlivesMembership
<1>3. Owners = {Owner}
  BY TenantsAssumption DEF TenInit, Owners
<1>. QED  BY <1>1, <1>2, <1>3, TenantsAssumption DEF MemberInv, SoleOwner

LEMMA MembersStep == MemberInv /\ [TenNext]_tenVars => MemberInv'
<1>. SUFFICES ASSUME MemberInv, [TenNext]_tenVars PROVE MemberInv'
  OBVIOUS
<1>1. CASE Members
  BY <1>1, RequireRoleKeeps, ReadTargetKeeps, AddExistingUserKeeps, UpdateMemberRoleKeeps, TransferOwnershipKeeps,
     RemoveMemberKeeps, RemoveRevokesKeeps, RemoveCommitsKeeps DEF Members
<1>2. CASE Sessions
  BY <1>2, LoginReadsKeeps, LoginInsertsKeeps, LogoutKeeps, SwitchTenantKeeps, SwitchCommitsKeeps DEF Sessions
<1>3. CASE OwnerDeletes
  BY <1>3, DeleteChecksKeeps, DeleteTenantKeeps, DeletePublishesKeeps, DeleteCommitsKeeps, DeleteRollsBackKeeps DEF OwnerDeletes
<1>4. CASE UNCHANGED memberVars
  BY <1>4 DEF memberVars, MemberInv, MembersOK, ReadAsRequired, RowsAreLocked, RemovedAsRead, RevokedNone, SoleOwner,
              Owners, NoSessionOutlivesMembership
<1>5. (AdminDeletes \/ OtherDeleted \/ Erase \/ TombstoneFails \/ TombstonerRestarts \/ UNCHANGED tenVars)
          => UNCHANGED memberVars
  BY DEF AdminDeletes, ForceDeletePhase1, ConfirmExpires, ForceChecks, ForceDeletePhase2, ForcePublishes,
      ForceCommits, ForceRollsBack,
         OtherDeleted, Erase, TakeTombstone, HandleTombstone, CommitTombstone, TombstoneFails, TombstonerRestarts,
         memberVars, tenVars
<1>. QED  BY <1>1, <1>2, <1>3, <1>4, <1>5 DEF TenNext

----------------------------------------------------------------------------
(* The tombstoner. *)

LEMMA AfterIs == After("pg") = "neo4j" /\ After("neo4j") = "qdrant" /\ After("qdrant") = "commit"
BY Zenon DEF After

\* What depends on the topic and the tombstoner's state only.
LEMMA TopicStays == UNCHANGED <<tombstones, eraserVars>> /\ TopicOK /\ ErasedInOrder => TopicOK' /\ ErasedInOrder'
<1>. SUFFICES ASSUME UNCHANGED <<tombstones, eraserVars>>, TopicOK, ErasedInOrder PROVE TopicOK' /\ ErasedInOrder'
  OBVIOUS
<1>1. Configured' = Configured
  BY DEF Configured, eraserVars
<1>2. TopicOK'
  BY <1>1 DEF TopicOK, eraserVars
<1>3. ErasedInOrder'
  BY <1>1 DEF ErasedInOrder, ErasedSoFar, eraserVars
<1>. QED  BY <1>2, <1>3

\* A tombstone that is added disturbs nothing.
LEMMA TopicGrows ==
    ASSUME TopicOK, ErasedInOrder, NEW t \in {"shared", "other"}, PublishTombstone(t), UNCHANGED eraserVars
    PROVE  TopicOK' /\ ErasedInOrder'
<1>1. /\ tombstones' \in Seq({"shared", "other"}) /\ Len(tombstones') = Len(tombstones) + 1
      /\ Len(tombstones) \in Nat
      /\ \A k \in 1..Len(tombstones) : tombstones'[k] = tombstones[k]
  BY DEF TopicOK, PublishTombstone
<1>2. TopicOK' /\ Configured' = Configured
  BY <1>1 DEF TopicOK, Configured, eraserVars
<1>3. \A k \in 1..taken : tombstones'[k] = tombstones[k]
  BY <1>1 DEF TopicOK
<1>4. doing # "-" => taken \in 1..taken
  BY DEF TopicOK
<1>5. ErasedInOrder'
  BY <1>2, <1>3, <1>4 DEF ErasedInOrder, ErasedSoFar, eraserVars
<1>. QED  BY <1>2, <1>5

LEMMA TombstonerStep ==
    ASSUME TopicOK, ErasedInOrder, Erase \/ TombstoneFails \/ TombstonerRestarts
    PROVE  TopicOK' /\ ErasedInOrder'
<1>1. UNCHANGED tombstones
  BY DEF Erase, TakeTombstone, HandleTombstone, CommitTombstone, TombstoneFails, TombstonerRestarts, deleteVars
<1>2. CASE TakeTombstone
  <2>1. Configured' = Configured /\ UNCHANGED <<done, erased, failed, qdrant>> /\ doing = "-"
        /\ doing' = "pg" /\ taken' = taken + 1 /\ taken < Len(tombstones)
    BY <1>2 DEF TakeTombstone, Configured
  <2>2. TopicOK'
    BY <1>1, <2>1 DEF TopicOK, Stores
  <2>3. \A k \in 1..taken' : k < taken' => k \in 1..taken
    BY <2>1 DEF TopicOK
  <2>4. ErasedInOrder'
    BY <1>1, <2>1, <2>3 DEF ErasedInOrder, ErasedSoFar
  <2>. QED  BY <2>2, <2>4
<1>3. CASE HandleTombstone
  <2>1. /\ taken \in 1..Len(tombstones) /\ tombstones[taken] \in {"shared", "other"}
        /\ doing \in Stores /\ doing' = After(doing) /\ doing' # "-" /\ doing' \in Stores \cup {"commit"}
    BY <1>3, AfterIs DEF HandleTombstone, TopicOK, Stores
  <2>2. /\ erased' = [erased EXCEPT ![tombstones[taken]] = @ \cup ({doing} \cap Configured)]
        /\ UNCHANGED <<taken, done, failed, qdrant>>
    BY <1>3 DEF HandleTombstone
  <2>3. TopicOK'
    BY <1>1, <2>1, <2>2 DEF TopicOK, Stores, Configured
  <2>4. Configured' = Configured
    BY <2>2 DEF Configured
  <2>5. ErasedSoFar(doing)' \subseteq ErasedSoFar(doing) \cup ({doing} \cap Configured)
    BY <2>1, <2>4, AfterIs DEF ErasedSoFar, Configured, Stores
  <2>6. \A t \in {"shared", "other"} : erased[t] \subseteq erased'[t] /\ erased'[t] \subseteq Configured
    BY <2>2, <2>3, <2>4 DEF TopicOK
  <2>7. {doing} \cap Configured \subseteq erased'[tombstones[taken]]
    BY <2>1, <2>2 DEF TopicOK
  <2>8. ErasedSoFar(doing)' \subseteq erased'[tombstones[taken]]
    <3>1. ErasedSoFar(doing) \subseteq erased[tombstones[taken]]
      BY <2>1 DEF ErasedInOrder, Stores
    <3>. QED  BY <2>1, <2>5, <2>6, <2>7, <3>1
  <2>9. ASSUME NEW k \in 1..taken, k < taken PROVE k \in failed \/ erased'[tombstones[k]] = Configured
    <3>1. k \in failed \/ erased[tombstones[k]] = Configured
      BY <2>9 DEF ErasedInOrder
    <3>2. tombstones[k] \in {"shared", "other"}
      BY <2>1 DEF TopicOK
    <3>. QED  BY <2>6, <3>1, <3>2
  <2>10. ErasedInOrder'
    BY <1>1, <2>1, <2>2, <2>4, <2>8, <2>9 DEF ErasedInOrder
  <2>. QED  BY <2>3, <2>10
<1>4. CASE CommitTombstone
  <2>1. TopicOK'
    BY <1>1, <1>4 DEF CommitTombstone, TopicOK, Stores, Configured
  <2>2. erased[tombstones[taken]] = Configured
    <3>1. doing = "commit" /\ tombstones[taken] \in {"shared", "other"}
      BY <1>4 DEF CommitTombstone, TopicOK
    <3>2. Configured \subseteq erased[tombstones[taken]]
      BY <3>1 DEF ErasedInOrder, ErasedSoFar
    <3>. QED  BY <3>1, <3>2 DEF TopicOK
  <2>3. doing' = "-" /\ UNCHANGED <<taken, erased, failed>> /\ Configured' = Configured /\ taken \in Nat
    BY <1>4 DEF CommitTombstone, TopicOK, Configured
  <2>4. ErasedInOrder'
    BY <1>1, <2>2, <2>3 DEF ErasedInOrder
  <2>. QED  BY <2>1, <2>4
<1>5. CASE TombstoneFails
  <2>1. TopicOK'
    BY <1>1, <1>5 DEF TombstoneFails, TopicOK, Stores, Configured
  <2>2. taken \in failed' \/ erased[tombstones[taken]] = Configured
    <3>1. CASE doing = "commit"
      <4>1. tombstones[taken] \in {"shared", "other"}
        BY <3>1 DEF TopicOK
      <4>2. Configured \subseteq erased[tombstones[taken]]
        BY <3>1 DEF ErasedInOrder, ErasedSoFar
      <4>. QED  BY <4>1, <4>2 DEF TopicOK
    <3>2. CASE doing # "commit"
      BY <1>5, <3>2 DEF TombstoneFails
    <3>. QED  BY <3>1, <3>2
  <2>3. /\ failed \subseteq failed' /\ doing' = "-" /\ UNCHANGED <<taken, erased, qdrant>>
        /\ Configured' = Configured /\ taken \in Nat
    BY <1>5 DEF TombstoneFails, Configured, TopicOK
  <2>4. ErasedInOrder'
    BY <1>1, <2>2, <2>3 DEF ErasedInOrder
  <2>. QED  BY <2>1, <2>4
<1>6. CASE TombstonerRestarts
  <2>1. TopicOK'
    BY <1>1, <1>6 DEF TombstonerRestarts, TopicOK, Stores, Configured
  <2>2. \A k \in 1..done : k \in 1..taken /\ (k < taken \/ doing = "-")
    BY DEF TopicOK
  <2>3. ErasedInOrder'
    BY <1>1, <1>6, <2>2 DEF TombstonerRestarts, ErasedInOrder, Configured
  <2>. QED  BY <2>1, <2>3
<1>. QED  BY <1>2, <1>3, <1>4, <1>5, <1>6 DEF Erase

----------------------------------------------------------------------------
(* The deletions. *)

LEMMA TombstonedStays ==
    ASSUME TopicOK, NEW t \in {"shared", "other"}, PublishTombstone(t)
    PROVE  (Tombstoned \/ t = "shared") => Tombstoned'
<1>1. /\ DOMAIN tombstones = 1..Len(tombstones) /\ DOMAIN tombstones' = 1..Len(tombstones) + 1
        /\ Len(tombstones) \in Nat
      /\ tombstones'[Len(tombstones) + 1] = t /\ \A k \in 1..Len(tombstones) : tombstones'[k] = tombstones[k]
  BY DEF TopicOK, PublishTombstone
<1>. QED  BY <1>1 DEF Tombstoned

DeleteInv == DeletionsOK /\ TombstoneFirst /\ EveryDeletionTombstoned

\* A request that neither begins nor ends a deletion.
LEMMA NoDeletionKeeps ==
    ASSUME DeleteInv, UNCHANGED deleteVars,
           \A u \in Users : call'[u].op \in {"deleting", "deleted"} \/ call[u].op \in {"deleting", "deleted"} =>
                             call'[u].op = call[u].op
    PROVE  DeleteInv'
BY DEF DeleteInv, DeletionsOK, TombstoneFirst, EveryDeletionTombstoned, Tombstoned, deleteVars

LEMMA MembersDeleteNothing ==
    ASSUME MemberInv, Members \/ Sessions
    PROVE  /\ UNCHANGED deleteVars /\ UNCHANGED eraserVars
           /\ \A u \in Users : call'[u].op \in {"deleting", "deleted"} \/ call[u].op \in {"deleting", "deleted"} =>
                             call'[u].op = call[u].op
<1>. DEFINE Same(u) == call'[u].op \in {"deleting", "deleted"} \/ call[u].op \in {"deleting", "deleted"} =>
                             call'[u].op = call[u].op
<1>1. call \in [Users -> {Idle} \cup MemberCalls \cup [op : {"login"},
        to : {"home", "shared"}] \cup [op : {"switch"}]]
  BY DEF MemberInv, MembersOK
<1>2. CASE Members
  <2>1. PICK u \in Users :
          \/ \E op \in Ops, v \in Users : RequireRole(u, op, v)
          \/ ReadTarget(u)
          \/ AddExistingUser(u) \/ UpdateMemberRole(u) \/ TransferOwnership(u)
          \/ RemoveMember(u) \/ RemoveRevokes(u) \/ RemoveCommits(u)
    BY <1>2 DEF Members
  <2>2. UNCHANGED deleteVars /\ UNCHANGED eraserVars
    BY <2>1 DEF RequireRole, ReadTarget, AddExistingUser, UpdateMemberRole, TransferOwnership,
        RemoveMember, RemoveRevokes, RemoveCommits
  <2>3. \A w \in Users \ {u} : call'[w] = call[w]
    BY <2>1, <1>1 DEF RequireRole, ReadTarget, AddExistingUser, UpdateMemberRole,
        TransferOwnership, RemoveMember, RemoveRevokes, RemoveCommits
  <2>4. ASSUME \E op \in Ops, v \in Users : RequireRole(u, op, v) PROVE Same(u)
    BY <1>1, <2>4 DEF RequireRole, Ops, Idle
  <2>5. ASSUME ReadTarget(u) PROVE Same(u)
    <3>1. call[u] \in MemberCalls /\ call[u].op \in {"invite", "update", "remove", "transfer"}
      BY <1>1, <2>5 DEF ReadTarget, Idle
    <3>2. call'[u] = Idle \/ call'[u] = [call[u] EXCEPT !.theirs = role[call[u].target]]
      BY <1>1, <2>5, Zenon DEF ReadTarget
    <3>3. CASE call'[u] = Idle
      BY <3>1, <3>3 DEF Idle
    <3>4. CASE call'[u] = [call[u] EXCEPT !.theirs = role[call[u].target]]
      <4>1. call'[u].op = call[u].op
        BY <3>1, <3>4 DEF MemberCalls
      <4>. QED  BY <4>1
    <3>. QED  BY <3>2, <3>3, <3>4
  <2>6. ASSUME AddExistingUser(u) \/ UpdateMemberRole(u) \/ TransferOwnership(u) PROVE Same(u)
    BY <1>1, <2>6 DEF AddExistingUser, UpdateMemberRole, TransferOwnership, Ready, Idle
  <2>7. ASSUME RemoveMember(u) \/ RemoveRevokes(u) PROVE Same(u)
    BY <1>1, <2>7 DEF RemoveMember, RemoveRevokes, Ready, MemberCalls, Idle
  <2>8. ASSUME RemoveCommits(u) PROVE Same(u)
    BY <1>1, <2>8 DEF RemoveCommits, Idle
  <2>9. Same(u)
    BY <2>1, <2>4, <2>5, <2>6, <2>7, <2>8
  <2>. QED  BY <2>2, <2>3, <2>9
<1>3. CASE Sessions
  <2>1. PICK u \in Users : LoginReads(u) \/ LoginInserts(u) \/ Logout(u) \/ SwitchTenant(u) \/ SwitchCommits(u)
    BY <1>3 DEF Sessions
  <2>2. UNCHANGED deleteVars /\ UNCHANGED eraserVars
    BY <2>1 DEF LoginReads, LoginInserts, Logout, SwitchTenant, SwitchCommits
  <2>3. \A w \in Users \ {u} : call'[w] = call[w]
    BY <2>1, <1>1 DEF LoginReads, LoginInserts, Logout, SwitchTenant, SwitchCommits
  <2>4. Same(u)
    BY <2>1, <1>1 DEF LoginReads, LoginInserts, Logout, SwitchTenant, SwitchCommits, Idle
  <2>. QED  BY <2>2, <2>3, <2>4
<1>. QED  BY <1>2, <1>3

LEMMA OwnerDeletesKeeps ==
    ASSUME MemberInv, DeleteInv, TopicOK, ErasedInOrder, OwnerDeletes
    PROVE  DeleteInv' /\ TopicOK' /\ ErasedInOrder'
<1>1. PICK u \in Users :
        DeleteChecks(u) \/ DeleteTenant(u) \/ DeletePublishes(u) \/ DeleteCommits(u) \/ DeleteRollsBack(u)
  BY DEF OwnerDeletes
<1>2. /\ call \in [Users -> {Idle} \cup MemberCalls \cup [op : {"login"},
        to : {"home", "shared"}] \cup [op : {"switch"}]]
      /\ call[u].op \in {"delete", "checked", "deleting", "deleted"} => call[u] \in MemberCalls
  BY DEF MemberInv, MembersOK, Idle
<1>3. UNCHANGED eraserVars
  BY <1>1 DEF DeleteChecks, DeleteTenant, DeletePublishes, DeleteCommits, DeleteRollsBack
<1>4. UNCHANGED tombstones => TopicOK' /\ ErasedInOrder'
  BY <1>3, TopicStays
<1>5. CASE DeleteChecks(u) \/ DeleteTenant(u)
  <2>1. UNCHANGED <<tenant, runs, producer, admin, tombstones>>
    BY <1>5 DEF DeleteChecks, DeleteTenant, deleteVars
  <2>2. /\ call[u].op \notin {"deleting", "deleted"} /\ call'[u].op # "deleted"
        /\ \A w \in Users \ {u} : call'[w] = call[w]
    BY <1>2, <1>5 DEF DeleteChecks, DeleteTenant, MemberCalls, Idle
  <2>3. CASE DeleteChecks(u)
    <3>1. call'[u].op \notin {"deleting", "deleted"} /\ UNCHANGED deleter
      BY <1>2, <2>3 DEF DeleteChecks, MemberCalls, Idle, deleteVars
    <3>2. DeletionsOK'
      BY <2>1, <2>2, <3>1 DEF DeleteInv, DeletionsOK
    <3>. QED  BY <1>4, <2>1, <2>2, <3>2 DEF DeleteInv, TombstoneFirst, EveryDeletionTombstoned, Tombstoned
  <2>4. CASE DeleteTenant(u)
    <3>1. /\ deleter = "-" /\ deleter' = IF tenant = "active" THEN u ELSE deleter
          /\ call'[u].op = "deleting"
      BY <1>2, <2>4 DEF DeleteTenant, LockTenant, TenantRowFree, MemberCalls
    <3>2. DeletionsOK'
      BY <2>1, <2>2, <3>1, TenantsAssumption DEF DeleteInv, DeletionsOK
    <3>. QED  BY <1>4, <2>1, <2>2, <3>2 DEF DeleteInv, TombstoneFirst, EveryDeletionTombstoned, Tombstoned
  <2>. QED  BY <1>5, <2>3, <2>4
<1>6. CASE DeletePublishes(u)
  <2>1. TopicOK' /\ ErasedInOrder' /\ Tombstoned'
    BY <1>3, <1>6, TopicGrows, TombstonedStays DEF DeletePublishes
  <2>2. /\ call[u].op = "deleting" /\ call'[u].op = "deleted" /\ \A w \in Users \ {u} : call'[w] = call[w]
        /\ UNCHANGED <<tenant, runs, producer, admin, deleter>>
    BY <1>2, <1>6 DEF DeletePublishes, MemberCalls
  <2>3. DeletionsOK'
    BY <2>2 DEF DeleteInv, DeletionsOK
  <2>. QED  BY <2>1, <2>3 DEF DeleteInv, TombstoneFirst, EveryDeletionTombstoned, Tombstoned
<1>7. CASE DeleteCommits(u)
  <2>1. /\ call[u].op = "deleted" /\ call' = [call EXCEPT ![u] = Idle] /\ tenant' = "deleting"
          /\ runs' = 0 /\ deleter' = "-"
        /\ UNCHANGED <<producer, admin, tombstones>>
    BY <1>7 DEF DeleteCommits, CommitDeletion
  <2>2. Tombstoned
    BY <2>1 DEF DeleteInv, TombstoneFirst
  <2>3. \A w \in Users : w # u => call'[w] = call[w]
    BY <1>2, <2>1
  <2>4. call'[u].op \notin {"deleting", "deleted"}
    BY <1>2, <2>1 DEF Idle
  <2>5. DeletionsOK'
    BY <2>1, <2>3, <2>4, TenantsAssumption DEF DeleteInv, DeletionsOK
  <2>. QED  BY <1>4, <2>1, <2>2, <2>5 DEF DeleteInv, TombstoneFirst, EveryDeletionTombstoned, Tombstoned
<1>8. CASE DeleteRollsBack(u)
  <2>1. /\ call[u].op \in {"deleting", "deleted"} /\ call' = [call EXCEPT ![u] = Idle] /\ deleter' = "-"
        /\ UNCHANGED <<tenant, runs, producer, admin, tombstones>>
    BY <1>8 DEF DeleteRollsBack
  <2>2. \A w \in Users : w # u => call'[w] = call[w]
    BY <1>2, <2>1
  <2>3. call'[u].op \notin {"deleting", "deleted"}
    BY <1>2, <2>1 DEF Idle
  <2>4. DeletionsOK'
    BY <2>1, <2>2, <2>3, TenantsAssumption DEF DeleteInv, DeletionsOK
  <2>. QED  BY <1>4, <2>1, <2>2, <2>3, <2>4 DEF DeleteInv, TombstoneFirst, EveryDeletionTombstoned, Tombstoned
<1>. QED  BY <1>1, <1>5, <1>6, <1>7, <1>8

LEMMA AdminDeletesKeeps ==
    ASSUME DeleteInv, TopicOK, ErasedInOrder, AdminDeletes
    PROVE  DeleteInv' /\ TopicOK' /\ ErasedInOrder'
<1>1. UNCHANGED call /\ UNCHANGED eraserVars
  BY DEF AdminDeletes, ForceDeletePhase1, ConfirmExpires, ForceChecks, ForceDeletePhase2, ForcePublishes,
      ForceCommits, ForceRollsBack,
         memberVars
<1>2. UNCHANGED tombstones => TopicOK' /\ ErasedInOrder'
  BY <1>1, TopicStays
<1>3. CASE ForceDeletePhase1 \/ ConfirmExpires \/ ForceChecks
  BY <1>1, <1>2, <1>3 DEF ForceDeletePhase1, ConfirmExpires, ForceChecks, Idle, DeleteInv, DeletionsOK, TombstoneFirst,
                          EveryDeletionTombstoned, Tombstoned
<1>4. CASE ForceDeletePhase2
  BY <1>1, <1>2, <1>4, TenantsAssumption
     DEF ForceDeletePhase2, LockTenant, TenantRowFree, DeleteInv, DeletionsOK, TombstoneFirst, EveryDeletionTombstoned, Tombstoned
<1>5. CASE ForcePublishes
  <2>1. TopicOK' /\ ErasedInOrder' /\ (Tombstoned => Tombstoned') /\ (producer => Tombstoned')
    <3>1. CASE producer
      <4>1. PublishTombstone("shared")
        BY <1>5, <3>1 DEF ForcePublishes
      <4>. QED  BY <1>1, <4>1, TopicGrows, TombstonedStays
    <3>2. CASE ~producer
      BY <1>2, <1>5, <3>2 DEF ForcePublishes, Tombstoned
    <3>. QED  BY <3>1, <3>2
  <2>2. /\ admin.op = "tx" /\ admin'.op = "published" /\ UNCHANGED <<tenant, runs, producer, deleter>>
    BY <1>5 DEF ForcePublishes
  <2>3. DeletionsOK'
    BY <1>1, <2>2 DEF DeleteInv, DeletionsOK
  <2>. QED  BY <1>1, <2>1, <2>2, <2>3 DEF DeleteInv, TombstoneFirst, EveryDeletionTombstoned, Tombstoned
<1>6. CASE ForceCommits
  BY <1>1, <1>2, <1>6, TenantsAssumption
     DEF ForceCommits, CommitDeletion, DeleteInv, DeletionsOK, TombstoneFirst, EveryDeletionTombstoned, Tombstoned
<1>7. CASE ForceRollsBack
  BY <1>1, <1>2, <1>7, TenantsAssumption
     DEF ForceRollsBack, DeleteInv, DeletionsOK, TombstoneFirst, EveryDeletionTombstoned, Tombstoned
<1>. QED  BY <1>3, <1>4, <1>5, <1>6, <1>7 DEF AdminDeletes

TenInv == MemberInv /\ DeleteInv /\ TopicOK /\ ErasedInOrder

LEMMA TenantInitially == TenInit => TenInv
<1>. SUFFICES ASSUME TenInit PROVE DeleteInv /\ TopicOK /\ ErasedInOrder
  BY MembersInitially DEF TenInv
<1>1. DeleteInv
  BY TenantsAssumption DEF TenInit, Idle, DeleteInv, DeletionsOK, TombstoneFirst, EveryDeletionTombstoned
<1>2. TopicOK
  <2>1. <<>> \in Seq({"shared", "other"}) /\ Len(<<>>) = 0
    OBVIOUS
  <2>2. tombstones = <<>> /\ taken = 0 /\ done = 0 /\ doing = "-" /\ failed = {} /\ qdrant \in BOOLEAN
        /\ erased = [t \in {"shared", "other"} |-> {}]
    BY DEF TenInit
  <2>3. {} \in SUBSET Configured /\ 0 <= 0 /\ 0 \in Nat
    OBVIOUS
  <2>. QED  BY <2>1, <2>2, <2>3 DEF TopicOK
<1>3. ErasedInOrder
  BY DEF TenInit, ErasedInOrder
<1>. QED  BY <1>1, <1>2, <1>3

LEMMA TenantStep == TenInv /\ [TenNext]_tenVars => TenInv'
<1>. SUFFICES ASSUME TenInv, [TenNext]_tenVars PROVE DeleteInv' /\ TopicOK' /\ ErasedInOrder'
  BY MembersStep DEF TenInv
<1>1. UNCHANGED <<tombstones, eraserVars>> => TopicOK' /\ ErasedInOrder'
  BY TopicStays DEF TenInv
<1>2. CASE Members \/ Sessions
  <2>1. /\ UNCHANGED deleteVars /\ UNCHANGED eraserVars
        /\ \A u \in Users : call'[u].op \in {"deleting", "deleted"} \/ call[u].op \in {"deleting", "deleted"} =>
                             call'[u].op = call[u].op
    BY <1>2, MembersDeleteNothing DEF TenInv
  <2>2. DeleteInv'
    BY <2>1, NoDeletionKeeps DEF TenInv
  <2>. QED  BY <1>1, <2>1, <2>2 DEF deleteVars
<1>3. CASE OwnerDeletes \/ AdminDeletes
  BY <1>3, OwnerDeletesKeeps, AdminDeletesKeeps DEF TenInv
<1>4. CASE OtherDeleted
  <2>1. PublishTombstone("other") /\ UNCHANGED <<memberVars, tenant, runs, producer, admin, deleter, eraserVars>>
    BY <1>4 DEF OtherDeleted
  <2>2. TopicOK' /\ ErasedInOrder' /\ (Tombstoned => Tombstoned')
    BY <2>1, TopicGrows, TombstonedStays DEF TenInv
  <2>. QED  BY <2>1, <2>2 DEF TenInv, memberVars, DeleteInv, DeletionsOK, TombstoneFirst,
          EveryDeletionTombstoned, Tombstoned
<1>5. CASE Erase \/ TombstoneFails \/ TombstonerRestarts
  <2>1. UNCHANGED <<memberVars, deleteVars>>
    BY <1>5 DEF Erase, TakeTombstone, HandleTombstone, CommitTombstone, TombstoneFails, TombstonerRestarts
  <2>2. DeleteInv'
    BY <2>1, NoDeletionKeeps DEF TenInv, memberVars
  <2>. QED  BY <1>5, <2>2, TombstonerStep DEF TenInv
<1>6. CASE UNCHANGED tenVars
  BY <1>1, <1>6, NoDeletionKeeps DEF TenInv, tenVars, deleteVars, eraserVars
<1>. QED  BY <1>2, <1>3, <1>4, <1>5, <1>6 DEF TenNext

LEMMA TenantSpecInv == TenSpec => []TenInv
BY TenantInitially, TenantStep, PTL DEF TenSpec

\* MembershipHolds: while members are invited, changed, removed and made owners in
\* statements that others come between, for any users and any requests.
THEOREM MembersAreSafe == TenSpec => []MembershipHolds
<1>1. TenInv => MembershipHolds
  <2>. SUFFICES ASSUME TenInv PROVE MembershipHolds
    OBVIOUS
  <2>1. /\ role \in [Users -> Roles] /\ session \in [Users -> {"none", "home", "shared"}]
        /\ late \subseteq Users /\ stale \in BOOLEAN
    BY DEF TenInv, MemberInv, MembersOK
  <2>2. /\ done \in 0..taken /\ taken \in 0..Len(tombstones)
        /\ doing \in Stores \cup {"-", "commit"} /\ failed \subseteq 1..taken
        /\ erased \in [{"shared", "other"} -> SUBSET Configured]
    BY DEF TenInv, TopicOK
  <2>3. DeletionsOK
    BY DEF TenInv, DeleteInv
  <2>4. TenTypeOK
    <3>1. tenant \in {"active", "deleting"} /\ runs \in 0..1 /\ (deleter # "-" => tenant = "active")
      BY <2>3 DEF DeletionsOK
    <3>2. deleter \in Users \cup {"admin", "-"} /\ (deleter = "admin" => admin.op \in {"tx", "published"})
      BY <2>3 DEF DeletionsOK
    <3>3. \A u \in Users : deleter = u => call[u].op \in {"deleting", "deleted"}
      BY <2>3 DEF DeletionsOK
    <3>4. deleter \in Users => call[deleter].op \in {"deleting", "deleted"}
      BY <3>3
    <3>. QED  BY <2>1, <2>2, <3>1, <3>2, <3>4 DEF TenTypeOK
  <2>5. ~stale => Cardinality(Owners) = 1
    BY FS_Singleton DEF TenInv, MemberInv, SoleOwner
  <2>. QED  BY <2>4, <2>5 DEF TenInv, MemberInv, OneOwner, MembershipHolds
<1>. QED  BY <1>1, TenantSpecInv, PTL

\* DeletionIsCarriedOut: whoever deletes the tenant, wherever that fails, and however
\* often the tombstoner restarts, for any number of tombstones.
THEOREM DeletionsAreCarriedOut == TenSpec => []DeletionIsCarriedOut
<1>1. TenInv => DeletionIsCarriedOut
  <2>. SUFFICES ASSUME TenInv PROVE CommittedMeansErased
    BY DEF TenInv, DeleteInv, DeletionIsCarriedOut
  <2>1. \A k \in 1..done : k \in 1..taken /\ (k < taken \/ doing = "-")
    BY DEF TenInv, TopicOK
  <2>. QED  BY <2>1 DEF TenInv, ErasedInOrder, CommittedMeansErased
<1>. QED  BY <1>1, TenantSpecInv, PTL
============================================================================
