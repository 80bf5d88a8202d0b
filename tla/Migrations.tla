----------------------------- MODULE Migrations -----------------------------
(* The migrate command on one schema: runners of different releases, with or *)
(* without the advisory lock, one transaction a file; and its Kafka topics.  *)
(*                                                                           *)
(* Bounds: Runners, each of which runs once; MaxKills.                     *)
EXTENDS Naturals, FiniteSets, FiniteSetsExt

CONSTANTS Runners, MaxKills,
          Releases,     \* sets of migration files: [version, checksum]
          KafkaTopics        \* topics a release may define

ASSUME MigrationsAssumption == \A r \in Releases : r \subseteq [version : Nat, checksum : STRING]

VARIABLES
    migpc,      \* runner -> step
    files,      \* runner -> the files of its release
    applied,    \* runner -> the rows of schema_migrations it read
    schemaMig,  \* rows of schema_migrations: [version, checksum]
    effects,    \* files whose statements are committed, as often as they are
    advisory,   \* the runner with the lock, or nobody
    kills,
    topicConfig,     \* topic -> its configuration, or absent
    wanted      \* runner -> topics of its release, with their configuration or none

migVars == <<migpc, files, applied, schemaMig, effects, advisory, kills, topicConfig, wanted>>
topicVars == <<topicConfig, wanted>>

Nobody == "nobody"
Absent == "absent"
Configs == {"none", "old", "new"}    \* "none": the release names the topic, and no configuration for it

MigInit ==
    /\ migpc = [p \in Runners |-> "idle"]
    /\ files \in [Runners -> Releases]
    /\ applied = [p \in Runners |-> {}] /\ schemaMig = {} /\ effects = 0
    /\ advisory = Nobody /\ kills = 0
    /\ topicConfig = [t \in KafkaTopics |-> Absent]
    /\ wanted \in [Runners -> [KafkaTopics -> Configs]]
    /\ \A p, q \in Runners : files[p] = files[q] => wanted[p] = wanted[q]

Versions(rows) == {r.version : r \in rows}
Pending(p) == {f \in files[p] : f.version \notin Versions(applied[p])}
Edited(p) == {f \in files[p] : \E r \in applied[p] : r.version = f.version /\ r.checksum # f.checksum}

----------------------------------------------------------------------------
(* migrate_all_tenants takes the lock or skips the schema; migrate_tenant    *)
(* and the signup of control-api do without.                                 *)

BeginLocked(p) ==
    /\ migpc[p] = "idle"
    /\ IF advisory = Nobody
       THEN advisory' = p /\ migpc' = [migpc EXCEPT ![p] = "bootstrap"]
       ELSE migpc' = [migpc EXCEPT ![p] = "skipped"] /\ UNCHANGED advisory
    /\ UNCHANGED <<files, applied, schemaMig, effects, kills, topicVars>>
BeginUnlocked(p) ==
    /\ migpc[p] = "idle"
    /\ migpc' = [migpc EXCEPT ![p] = "bootstrap"]
    /\ UNCHANGED <<files, applied, schemaMig, effects, advisory, kills, topicVars>>
(* bootstrap, then apply_all reads the table once.                           *)
ReadApplied(p) ==
    /\ migpc[p] = "bootstrap"
    /\ applied' = [applied EXCEPT ![p] = schemaMig]
    /\ migpc' = [migpc EXCEPT ![p] = "applying"]
    /\ UNCHANGED <<files, schemaMig, effects, advisory, kills, topicVars>>

\* Mutant: the files are applied in the order of the directory.
AnyFile(p, f) == f \in Pending(p)
NextFile(p, f) ==
    /\ f \in Pending(p)
    /\ \A g \in files[p] : g.version < f.version => g.version \in Versions(applied[p])
\* Mutant: an edited file is taken for applied.
NoCheck(p) == {}
ChecksumMismatch(p) ==
    {f \in Edited(p) : \A g \in Pending(p) : g.version > f.version}

\* The error leaves migrate_tenant_locked before the lock is given back.
Refuse(p) == migpc' = [migpc EXCEPT ![p] = "failed"] /\ UNCHANGED advisory

\* Mutant: statements and row are committed one after the other.
ApplyUnrecorded(p, f) ==
    /\ migpc[p] = "applying" /\ ChecksumMismatch(p) = {} /\ NextFile(p, f)
    /\ effects' = effects + 1
    /\ schemaMig' = IF f.version \in Versions(schemaMig) THEN schemaMig ELSE schemaMig \cup {f}
    /\ applied' = [applied EXCEPT ![p] = @ \cup {f}]
    /\ UNCHANGED <<migpc, files, advisory, kills, topicVars>>
(* apply_migration: statements and row in one transaction; the primary key   *)
(* refuses a version another runner has recorded since.                      *)
ApplyMigration(p, f) ==
    /\ migpc[p] = "applying" /\ ChecksumMismatch(p) = {} /\ NextFile(p, f)
    /\ IF f.version \in Versions(schemaMig)
       THEN Refuse(p) /\ UNCHANGED <<applied, schemaMig, effects>>
       ELSE /\ schemaMig' = schemaMig \cup {f} /\ effects' = effects + 1
            /\ applied' = [applied EXCEPT ![p] = @ \cup {f}]
            /\ UNCHANGED <<migpc, advisory>>
    /\ UNCHANGED <<files, kills, topicVars>>
StopAtEdited(p) ==
    /\ migpc[p] = "applying" /\ ChecksumMismatch(p) # {}
    /\ Refuse(p)
    /\ UNCHANGED <<files, applied, schemaMig, effects, kills, topicVars>>
(* The lock is given back.                                                   *)
FinishSchema(p) ==
    /\ migpc[p] = "applying" /\ Pending(p) = {} /\ ChecksumMismatch(p) = {}
    /\ migpc' = [migpc EXCEPT ![p] = "ok"]
    /\ advisory' = IF advisory = p THEN Nobody ELSE advisory
    /\ UNCHANGED <<files, applied, schemaMig, effects, kills, topicVars>>
(* The command ends with the error: its connection, and the lock with it, go. *)
FailedEnds(p) ==
    /\ migpc[p] = "failed" /\ advisory = p
    /\ advisory' = Nobody
    /\ UNCHANGED <<migpc, files, applied, schemaMig, effects, kills, topicVars>>
(* The process dies; Postgres rolls back and frees its lock. It is started   *)
(* again.                                                                    *)
RunnerCrashes(p) ==
    /\ migpc[p] \in {"bootstrap", "applying"} /\ kills < MaxKills
    /\ kills' = kills + 1
    /\ migpc' = [migpc EXCEPT ![p] = "idle"]
    /\ advisory' = IF advisory = p THEN Nobody ELSE advisory
    /\ UNCHANGED <<files, applied, schemaMig, effects, topicVars>>

----------------------------------------------------------------------------
(* migrate kafka: topics that are missing are created, without their         *)
(* configuration, and one that exists by then is taken for granted; then     *)
(* every topic with a configuration gets it, in place of what it has.        *)

CreateTopics(p) ==
    /\ migpc[p] = "ok"
    /\ topicConfig' = [t \in KafkaTopics |-> IF topicConfig[t] = Absent THEN "none" ELSE topicConfig[t]]
    /\ migpc' = [migpc EXCEPT ![p] = "created"]
    /\ UNCHANGED <<files, applied, schemaMig, effects, advisory, kills, wanted>>
\* Mutant: only the topics that were just created get their configuration.
NoAlter(p) == {}
WithConfig(p) == {t \in KafkaTopics : wanted[p][t] # "none"}
AlterTopicConfigs(p) ==
    /\ migpc[p] = "created"
    /\ topicConfig' = [t \in KafkaTopics |-> IF t \in WithConfig(p) THEN wanted[p][t] ELSE topicConfig[t]]
    /\ migpc' = [migpc EXCEPT ![p] = "done"]
    /\ UNCHANGED <<files, applied, schemaMig, effects, advisory, kills, wanted>>

MigNext ==
    \E p \in Runners :
        \/ BeginLocked(p) \/ BeginUnlocked(p) \/ ReadApplied(p)
        \/ (\E f \in files[p] : ApplyMigration(p, f))
        \/ StopAtEdited(p) \/ FinishSchema(p) \/ FailedEnds(p) \/ RunnerCrashes(p)
        \/ CreateTopics(p) \/ AlterTopicConfigs(p)
MigSpec == MigInit /\ [][MigNext]_migVars

----------------------------------------------------------------------------
(* The statements of a version are committed once, whatever runners race or  *)
(* die: as many as the table has rows, and no version has two.               *)
AppliedOnce == effects = Cardinality(schemaMig) /\ Cardinality(Versions(schemaMig)) = effects

(* No version is applied to a schema that lacks one before it.               *)
AppliedInOrder ==
    \A r \in schemaMig : \E p \in Runners :
        r \in files[p] /\ \A g \in files[p] : g.version < r.version => g.version \in Versions(schemaMig)

(* A runner that ends without an error leaves every file of its release      *)
(* applied, in the text it has.                                              *)
OkMeansAll == \A p \in Runners : migpc[p] \in {"ok", "created", "done"} => files[p] \subseteq schemaMig

(* After the topics step every topic exists, and one a release configures    *)
(* has the configuration of a release that was carried out to the end: this  *)
(* one's, or that of a runner which replaced it.                             *)
Configured(t) == \E q \in Runners : migpc[q] = "done" /\ wanted[q][t] # "none" /\ topicConfig[t] = wanted[q][t]
TopicsConfigured ==
    \A p \in Runners : migpc[p] = "done" =>
        \A t \in KafkaTopics : topicConfig[t] # Absent /\ (wanted[p][t] # "none" => Configured(t))

(* A schema is brought forward once, in order and completely, and its topics *)
(* with it.                                                                  *)
SchemaIsComplete == AppliedOnce /\ AppliedInOrder /\ OkMeansAll /\ TopicsConfigured
=============================================================================
