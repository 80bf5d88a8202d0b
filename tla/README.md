# Verification of rustacean

TLA+ models of rust-brain v2 (this repository), model-checked with TLC and proved with
TLAPS. Paths below are relative to the repository root. Every definition is
translated from the code it is mapped to in `PROJECT.json`; names follow the source
where TLA+ allows it.

1. Inventory of the system
2. Modules
3. Runs
4. Proofs
5. What the models showed about the code
6. What is not modelled, and what is left

## 1. Inventory of the system

rust-brain ingests Rust repositories of several tenants into Postgres, Neo4j and
Qdrant, answers queries about them, and runs coding agents (claude-code, opencode)
against them.

| Component | State it keeps | Operations | Interacts with |
|---|---|---|---|
| control-api: agent sessions (`routes/agents`, `state.rs`) | rows of `agents.agent_sessions`, `control.api_keys`, `agents.agent_events`; in memory `TenantSessionCount`, `AgentRegistry`, limiter | create, delete, status PATCH, key revocation | agent-runner (Kafka commands out, HTTP callbacks in) |
| agent-runner: sessions (`consumer.rs`, `session/`) | map of `SessionHandle`s, tenant counts, node semaphore, child processes | handle Start / Input / Terminate, watch for natural exits | control-api, the processes |
| agent execution | the topic `rb.agent.commands`, its committed offset | the two services together, crashes, lost callbacks | Kafka |
| agent-runner: event relay (`event_relay/`) | one bounded buffer, retry state | buffer, evict, batch, retry | control-api events ingest |
| agent-runner: adapters, normalizer, workspace GC | processes, directories | spawn, parse output | file system |
| control-api: events (`events_ingest.rs`, `events/`, `events_history.rs`) | `agents.agent_events`, SSE bus | allocate sequences, replay, stream | event relay, browsers |
| control-api: chat (`routes/chat`) | `control.chat_sessions`, `chat_messages` | post message, store answers, page | agent-runner |
| control-api: ingestion runs (`routes/ingest`, `ingest_consumer`, `jobs`) | `ingestion_runs`, stage rows | trigger, consume status, reconcile stuck runs | workers |
| ingestion workers (`ingest-clone` ... `projector-neo4j`) | Kafka offsets, blobs, projections | consume a stage, publish the next | rb-kafka, stores |
| tombstoner | Kafka offset, what it has erased | erase a tenant from three stores | rb-kafka, stores |
| audit-worker | Kafka offsets, `audit.audit_events` | store events, mirror status events | rb-kafka |
| migrate | `schema_migrations`, topics | run migrations, create topics | Postgres, Kafka |
| rb-kafka | consumer positions, committed offsets | publish, next, retry, dead-letter, commit | brokers |
| rb-kafka-health | watcher state | wrap a consumer, recreate or kill it | services |
| rb-sse | broadcast channels, replay ring | publish, subscribe, lag | control-api |
| tenants, members, roles | `control.tenants`, `tenant_members`, sessions | invite, change role, remove, leave, switch, delete | tombstoner |
| authentication (`auth*.rs`, `middleware/`, rb-auth) | users, sessions, e-mail tokens, limiter | sign up, verify, log in, reset, log out | e-mail |
| api keys, me, repos | `control.api_keys`, `control.repos` | create and revoke keys, switch tenant, connect a repository | authentication, GitHub |
| GitHub (`routes/github`, `admin/github`, rb-github) | installations, App configuration, token cache, replay guard | install, webhook, register App, mint token | GitHub |
| MCP (`routes/mcp`, rb-mcp) | `McpSessionStore`, audit rows | initialize, call tools | queries |
| queries (`routes/query`, rb-query, rb-rerank) | cost counter | traversal, paging, hybrid search | stores |
| admin, health, traces, audit | admins, admin audit log | bootstrap, impersonate | all |
| storage crates (rb-blob, rb-storage-*, rb-tenant) | blobs with markers | put, get, delete; rewrite Cypher; page vectors | stores |
| parsing crates | none | parse | workers |
| support crates | none | mail, logs, metrics, secrets | all |
| synthetic-load | harness state file, tenant pool | provision, rotate, soak, resume | control-api |
| frontend, packaging, infrastructure | | | |

### What is hard

- Handlers of control-api are futures on one shared state: other handlers run at
  every await, and a client that disconnects drops its handler at an await.
- Counters that enforce caps live in memory; the rows they count live in Postgres.
  Restarts, failed transactions and failed publishes separate the two.
- Kafka delivers at least once: consumers commit, some asynchronously, after
  handling; most loops pass a failed item and let the next commit cover it.
- Callbacks are one-shot HTTP requests with a timeout; they can be lost, or arrive
  long after their sender went on.
- A process may exit by itself at any time, also between its spawn and the insert of
  its handle, or while a Terminate is ending it.
- Handlers check in one statement and write in another, so roles, installations,
  tokens and keys may have changed in between.
- A write goes to two stores in some order (blob and marker, row and topic, stage
  and run, audit row and answer) and either may fail.

`hazards` in `PROJECT.json` lists each of these at its line, with the properties that
would catch it going wrong.

## 2. Modules

State is in `VARIABLES` named after what the code keeps; there is one action per
stretch of code between two awaits or statements, with the early returns, failures
and dropped futures as actions or disjuncts of their own. Parameters are `CONSTANTS`
with an `ASSUME`. Several bounds appear in guards only to make TLC finish; each
module's header names them.

| Module | Models |
|---|---|
| `SessionLifecycle` | abstract: what a client may rely on about one session |
| `ControlApiSessions` | the handlers of agent sessions, the two counters, restarts; implements `SessionLifecycle` |
| `AgentRunner` | consumer, SessionManager, caps, watchers, processes, crashes |
| `AgentExecution` | `ControlApiSessions` and `AgentRunner` joined by the command log and the callbacks |
| `EventDelivery` | abstract: a lossy queue per session in front of a log |
| `EventRelay` | the runner's relay and the INSERT of control-api; implements `EventDelivery` |
| `EventStream` | the SSE bus and the two streams of a session's events |
| `Chat` | posts, the runner's answers in batches, the reader's pages |
| `IngestRuns` | run and stage rows: trigger, status consumer, reconcilers |
| `IngestWorkers` | what each worker does with one message, as a sequence of effects |
| `IngestPipeline` | ten consumers running those sequences over topics, commits, failures, restarts |
| `Tenants` | members, roles, sessions, deletion and the tombstoner |
| `Accounts` | one address: sign-up, tokens, logins, reset, sessions |
| `Limits` | the sliding windows of logins and creations, the session and token counters |
| `ApiAccess` | middleware, guards and who may read what, while keys come and go |
| `McpServer` | MCP sessions and tool calls as chains of awaits |
| `AdminAccess` | the admin token, bootstrap, impersonation and their audit rows |
| `AuditTrail` | both consumers of audit-worker |
| `GitHubInstallations` | install flow, webhooks, connected repositories, rebind |
| `GitHubApp` | registering the App, its active row and the loaders |
| `TokenCache` | the cache of an installation's token |
| `Migrations` | runners with lock, bootstrap, checksums and transactions; topics |
| `BlobStores` | put, get, delete with ownership markers, in a directory and in S3 |
| `KafkaEnvelope` | headers, decoding, retries, dead letters and commits of rb-kafka |
| `KafkaWatch` | rb-kafka-health around a consumer that breaks |
| `SoakHarness` | the saved state, catastrophes, the tenant pool |
| `SqlSplit`, `CypherRewrite`, `GraphWalk`, `HybridSearch` | pure algorithms, each beside a reference definition |
| `MC...` | values of the constants for TLC; five of them put several parts into one run |
| `...Proofs`, `SequenceLemmas` | theorems; section 4 |

The five composite models (`MCDelivery`, `MCStreams`, `MCControlPlane`, `MCPlatform`,
`MCServices`) have a variable `part`: a behaviour is one of one part, whose variables
change as its own specification says while the others keep their initial values. The
run then explores the sum of the parts' state spaces and checks each part's property.
The parts share no state in the code either. A property of such a run is a conjunction
of the named invariants of its part.

### ControlApiSessions

One action per stretch of code between two awaits. `create[s]`, `patch[s]` and
`delete[s]` say at which await the handlers of session `s` stand; `row`, `key` and
`events` are the database, `tenantCount`, `activeCount` and `registry` the memory.
A `?` that returns early is an action of its own (`RejectRuntime`, `TxFails`), as is
a handler dropped at an await (`CreateDropped`, `PatchDropped`, `DeleteDropped`).
Best-effort statements take a flag `ok`. A lost answer to COMMIT is `InsertRow(s,
FALSE)`; a publish that reports an error may have reached the broker
(`AgentExecution!PublishStart`). `Restart` forgets the memory and keeps the rows.

Abstractions: requests for unknown sessions and other tenants are rejected before any
state changes and are left out; the rate limiter only rejects; one DELETE at a time
per session; event rows are counted only for terminal statuses (`running` writes one
too, and nothing depends on it). The runner's callbacks are free: any status at any
time, so what holds here holds whatever the runner does.

Two history variables state the limits of the code precisely: `overdrawn` holds the
sessions whose slot `create_session` gave back although the row stayed or had already
ended, `unrevoked` those whose key a failed or dropped handler left behind.

### AgentRunner

`cmd` is the command the consumer handles and where it stands; `handle`, `count`,
`permits` are SessionManager's state; `proc`, `child` and `waiter` the processes, the
owner of each Child and the watcher tasks. `calls` are HTTP requests under way: the
code goes on whether they are answered or not, so they are served or lost at any later
time. Process ids are never reused in the model.

The code does not guard against a Start that comes again to the same runner (a
rebalance, a commit that was lost). `Redelivered` names the sessions to which this may
happen, `started` counts, and the two properties that the code then does not keep
(`TenantCapOnProcesses`, `SingleCleanup`) say so with `Once`; the others hold all the
same. A crash of the runner loses the memory, so it also resets `started`.

### AgentExecution

Every step is a step of one of the two modules, or of both and the log. A crash of the
runner reads the log again from the last commit; a commit may be lost, and a later one
covers it. `reread` is a history variable: sessions whose Start was read again.
SessionInput is left out: control-api publishes it for chat sessions only.

### EventRelay

`Send` is EventSender::send with its eviction; the flush task is at `pc`: waiting,
taking the next group of its batch, posting, waiting for the answer. `calls` are its
requests, at the stages control-api takes them through: `InsertReads` is the snapshot
in which MAX(sequence) is read, `InsertWrites` the rows. A request that the relay has
given up (`live = FALSE`) may still be executed. Counters are sets of events, so that
an event counted twice shows. `TurnEnds` are events of a type the table refuses.

### EventStream

A publisher pushes a frame into the ring under its lock (`Push`) and sends it on the
channel afterwards (`SendFrame`). The request of one client is at `phase`; `Receive`
is what the browser learns. The channel is a sequence with a read position: a receiver
lags when it is more than `ChannelCap` behind. Rows have the sequences 1, 2, ...; the
overlapping inserts that may repeat a sequence are in `EventRelay`. The frame of a
session's end has sequence -1, which stands for i64::MIN + 1 and + 2.

`missed` and `twice` record what the client can see to be wrong. The three other
histories name what the code does lose: `unpublished` (the handler was dropped after
its commit), `passed` (another publisher's frame overtook this one between ring and
channel, so the client's last id lies past it), `outOfReach` (rows sent before a subscription that
nothing brings any more: the ring no longer had the client's id and the code replays
nothing without saying so, or they lie above the LIMIT of the history query).

### Chat

`post[t]` is the step of `post_chat_message` for turn `t`; `commands` is
`rb.agent.commands`, `out` what the relay still has to deliver. The reader pages
through `chatRows`. `refused`, `dropped` and `overlapped` record that an insert met
`UNIQUE (session_id, seq)`, that an assistant's row was not stored, and that a post
began before another was answered; the properties say what holds without them.

### IngestRuns, IngestWorkers, IngestPipeline

`IngestRuns` has the two tables of control-api: the trigger inserts the rows and
publishes inside its transaction, the status consumer writes the stage's row, then the
run's, then its offset, and the reconcilers of all pods dispatch again what stays
queued. Its workers are free to report any stage at any time, in any order and twice.
`IngestPipeline` has the workers themselves: `Handler(c, m)` of `IngestWorkers` is the
sequence of effects of one message, which a consumer runs one effect at a time; an
error ends it when the code has a `?`, and the loop goes on with the next message as
the code does. The file blob of a large source file and the query that counts type
instances are effects like the others, each of which may fail.

### Tenants

A handler reads the caller's role, reads the target's role and writes, each in an
action of its own; row locks are those of PostgreSQL. A removal deletes the member,
revokes its sessions and commits in three; the two deletions read the tenant before
they lock it. The deletion runs through the tombstone topic into the tombstoner, which
erases in its order the stores it is configured with: `qdrant` says whether it has a
`QDRANT_URL`, without which it skips the points and commits all the same. `stale` and
`late` record the two windows of the code: a write on a role that had changed since it
was read, and a session inserted after its owner's removal; `failed` holds the
tombstones whose last handling failed, which a later commit may pass.

### Accounts, ApiAccess, AdminAccess, McpServer

`Accounts` has one e-mail address and interleaves the requests of several clients;
`holder` is the row lock of a transaction that reads a token FOR UPDATE. A reset is
three steps: it reads the token, it updates the user and the sessions it sees and keeps
their rows locked, and it commits; a session that a login inserts between the last two
is in `lateSessions`, as one inserted after it by a login that had checked before. `ApiAccess`
turns a credential into an `AuthContext` in one step and answers in a later one, with
keys made and revoked between. `AdminAccess` extends `AuditTrail`, the two parts of
the audit; its `bootstrap` is two statements. A call of `McpServer` stands at `step`;
archiving, restarts and a lost audit row come between any two.

### GitHubInstallations, GitHubApp, TokenCache

GitHub is external: it changes the installation, numbers a delivery for each change
and delivers in any order, what was handled too. The replay cache forgets any delivery
at any time, for its age, its capacity or a restart, and a delivery it has forgotten is
applied again. The reclaim of an orphan is one statement with two steps: what its
snapshot finds reclaimable, and the UPDATE of the row, which does not look again.
`excuses` names what makes the row differ from GitHub or from its repositories (a failed
delivery, one handled after a later one, a callback that clears flags, a forced rebind,
a connect on what was read before, a reclaim whose snapshot missed a repository).
`GitHubApp` runs `insert_replacing` as READ COMMITTED does, with a COMMIT that is carried
out and whose answer is lost; `TokenCache` counts time in ticks.

### Limits, Migrations, BlobStores

`Limits` keeps the entries of a sliding window by their ages, and the maps of two
counters with the entry removed in a second step. `Migrations` has runners of several
releases on one schema, with and without the advisory lock, which a failed runner keeps
until its process ends; topics are created bare and configured afterwards, and releases
may configure a topic differently. In `BlobStores` the file system's write is create,
write and rename of a shared `.tmp` name, S3's one PUT; its delete is one call, S3's a
HEAD and a DELETE.

### AuditTrail, KafkaEnvelope, KafkaWatch, SoakHarness

`AuditTrail` has the record of a status event with its run, stage and status, and with
the request id its stage gives it (each worker makes a new one, the two projectors leave
it empty); a row's key is made of the action and that id alone, as in
`mirror_consumer.rs`. `KafkaEnvelope` has one caller that settles and commits each
envelope. `KafkaWatch` has a librdkafka consumer that freezes, loses its group or
answers with errors, of which the watcher sees only what the code reads. It is created
anew whether or not the broker is up, which may fail, and joins its group later; its
caller may leave a message uncommitted. `SoakHarness` saves its state on a
timer, crashes and resumes; `alive` and `longest` are what really happened.

### The algorithms

`SqlSplit`, `CypherRewrite`, `GraphWalk` and `HybridSearch` are operators over
sequences of tokens, graphs and ranked lists, with recursive functions and folds, each
compared with a reference definition stated another way.

## 3. Runs

| Run | Question | Bounds |
|---|---|---|
| `session_slots` | counters and caps of agent sessions under competition | 2 sessions, 1 tenant, tenant cap 1, active cap 2, 2 starts of the process |
| `runner_sessions` | caps, permits, single cleanup; exits leave the map (liveness) | 2 sessions, 2 processes, caps 2, crashes unbounded, one Start may come again |
| `execution` | both services together; a deleted session ends (liveness) | 1 session, 1 process, log of 2, 1 fault, 2 starts of control-api |
| `delivery` | relay: accounting, order, refinement of `EventDelivery`, every event settles; pipeline: nothing lost silently, every run completes | relay: 2 sessions with 2 and 1 events, buffer and batch of 2, 2 attempts, 1 late request; pipeline: 2 items, 6 deployments of the services, 1 error, 1 crash |
| `streams` | client: joined stream gap-free and catching up, replay complete; watcher: nothing passed, stuck consumers recover | client: 3 rows, 4 settings of mode, channel, ring and the history query's LIMIT (joining with LIMIT 2 and 1, replaying with and without expiry); watcher: 3 messages, 3 breaks, error streak 2 |
| `control_plane` | runs follow their stages and go forward; members and owner, deletion carried out | runs: 1 request, 2 pods, 2 stages, 2 events waiting, 1 fault; tenants: owner and admin, 2 requests, 2 tombstones, 1 fault; and, as a part of its own, an admin's deletion alone with a tombstoner without `QDRANT_URL` |
| `platform` | logins, GitHub, token cache, counters, migrations, blobs | accounts: 2 clients, 2 tokens, 2 sessions, 1 reset; GitHub: 2 claimants, 2 requests in flight, 2 deliveries, 2 states; App: 2 pods, 2 admins, 3 states; cache: 3 callers, 3 mints, life 6, margin 1; limits: 4 attempts, 2 failures, window 4, lockout 6; counters: 2 threads, 3 sessions, 4 rewrites; migrations: 2 runners, 3 releases, 1 topic with 3 configurations, 1 kill; blobs: 2 owners, 3 calls |
| `services` | key and lifecycle of one session, chat, audit, Kafka client, soak, access, MCP, algorithms | 1 session over 3 starts; 2 turns; 2 records a topic, 2 faults, 4 stages (two of them the projectors); 1 event, 1 record, 1 crash, clock 4; slots 0..2, clock 4; 2 admin calls, 1 lost row; 1 key, 2 requests; 1 client, 2 sessions, 1 call, 1 restart; bounded inputs of the algorithms |

The properties of the composite runs, by the parts they are made of:

| Property | Conjuncts |
|---|---|
| `NothingLostSilently` | `PipeTypeOK BlobBeforeReference DoneAfterHandOver CrashLosesNothing LossIsReported EdgeHasEnds` |
| `WatchedConsumerRecovers` | `CommittedHandled StuckRecovers` |
| `RunsFollowStages` | `RunsTypeOK EveryRunIsCommanded DispatchedAgainOnce SucceededMeansAllDone CompletionNotMissed` |
| `RunsGoForward` | `EndedStaysEnded QueuedIsClaimed` |
| `MembershipHolds` | `TenTypeOK NoSessionOutlivesMembership OneOwner` |
| `DeletionIsCarriedOut` | `EveryDeletionTombstoned CommittedMeansErased` |
| `LoginsHold` | `AccTypeOK TokenUsedOnce ResetEndsSessions OneVerifyToken EndedOnce AttemptsBounded` of `Accounts`, `WaitingSuffices` of `Limits` |
| `GitHubAgrees` | `GhTypeOK InstallationAgrees RepoFollowsInstallation OneActiveApp LoaderIsActive` |
| `TokenCacheHolds` | `TokenAlive NoNeedlessMint` and types |
| `CountsHold` | `CountExact BudgetBounded` |
| `SchemaIsComplete` | `AppliedOnce AppliedInOrder OkMeansAll TopicsConfigured` |
| `BlobsAreOwned` | `VisibleIsWhole VisibleIsMarked MismatchHasOther` |
| `AuditIsTrue` | `OneRowPerEvent CommittedIsStored AuditTellsTruth` |
| `RecordsSurvive` | `CopiesKeepIdentity RetriesBackOff NoneVanish` |
| `SoakIsTrue` | `SoakUnbroken CatastropheIsLasting PoolIsProvisioned` |
| `OnlyOwnData` | `TenantsApart EventsToOwners RevokedKeysOut` |
| `McpCallsOwnData` | `McpTenantsApart McpCallsAudited` |
| `ChatIsComplete` | `NoSeqConflict StartComesFirst ContentKept ParentStored PagesComplete` |
| `AlgorithmsAgree` | one conjunct for each question asked of the four algorithms |

Why the bounds suffice. Sessions meet only in the counters, so two sessions and a cap
of one reach every contention; a third start of control-api adds nothing per session
that a second does not. In the runner a second process per session is spawned only
after a crash or a redelivery, and the run has one for each of two sessions, or two for
one. In the composition a second process is spawned only after a Start is read again,
which the invariants except; one fault is a lost callback, a lost commit, a crash or a
restart. In the relay a batch of two sessions, an eviction while a batch is posted, a
retry and a late request need exactly these sizes. In the streams a capacity of 1 or 2
with one or two frames more is what makes a receiver lag and the ring forget. Two
pods are what it takes to claim one orphan twice, two clients to use one token twice,
two deliveries to overtake, two callers and a third to queue behind a mint, three
calls for a put, a put and a delete of one blob; a second item makes a difference to
the pipeline only through what is shared, which two show. What the bounds leave out
beyond that is what the proofs of section 4 are for: most of these properties are
proved for any number of everything.

`platform` takes the two claimants of an installation as symmetric: they are model
values that only their rows tell apart, and the run checks no liveness.

Deadlock is checked in `runner_sessions`, `delivery` and `streams`. The other runs may
really stop: their requests, releases, attempts or starts are used up.

Fairness. `RunnerFairness` and the relay's `FairSpec` assume that tokio runs ready
tasks, that the timer of `flush_loop` ticks and that reqwest's timeout ends a request;
processes need not exit and commands, events and answers need not arrive. The streams'
fairness assumes that a handler that publishes goes on and that axum polls the stream.
`DeletedSessionEnds` assumes that the consumer and its tasks make progress, that a
callback under way is eventually answered, that the client asks again while the session
is live, and that a repeated cancel or publish does not fail each time; faults are
finitely many (`MaxFaults`). `PipeFairness`: a deployed consumer that has a message or
an effect left goes on. `RunsFairness`: a reconciler that runs goes on, and so does the
status consumer. The tombstoner goes on with a tombstone it has taken. `KwFair`: a
worker calls `next()` in a loop and handles what it is given, the clock runs (so the
stall timeout passes), a broker that is down comes back, and a consumer that was created
anew joins its group while the broker is up; all of it is weak fairness. `PlatSpec` and `ServSpec` check no liveness
and have no fairness.

Four runs find a violation: they state what a comment or a document says and the code
does not do (section 5). Each property of a passing run has a mutant: a plausible bug
in one definition with which TLC finds the property violated.

## 4. Proofs

TLAPS checks these for every value of the constants. The assumptions are the named
`ASSUME`s of the modules: sets of sessions, calls and the like are finite where
something counts them, bounds are natural numbers, a page has at least one row (the code
clamps its limit to 1..200), and a value that the code reserves
(`"nofile"`, `NoTenant`, `"signup"`) is not one of the constant's. TLC evaluates them on
every run. No theorem assumes anything about the state.

A proof module that covers several components extends them together, as the composite
models do (`PlatformProofs` extends `MCPlatform`, `ServicesProofs` the components of
`MCServices`), with their constants still free. The theorems are about each component's own
specification, which does not mention the other parts: for instance
`TokSpec => []TokenCacheHolds`. Every invariant below was checked by TLC before it was
proved; in each proof one lemma takes one conjunct, or a few that belong together,
through every action.

| Module | Inductive invariant | Theorems |
|---|---|---|
| `AgentRunnerProofs` | `RunnerIndInv` | `RunnerTypes PermitsAddUp TenantCapHolds CleanupIsSingle` |
| `AgentExecutionProofs` | `ExecutionInv` | `EndsWithItsProcess RunsWithItsKey` |
| `EventProofs` | `RelayInv`, `OrderInv`, `StreamInv` | `RelayAccounts PublishedInOrder RelayDelivers JoinIsGapFree ReplayIsComplete` |
| `IngestPipelineProofs` | `PipeInv` | `NothingIsLostSilently` |
| `ControlRowsProofs` | `RunsInv`, `TenInv` | `RunsAreFollowed EndedRunsStay MembersAreSafe DeletionsAreCarriedOut` |
| `ServicesProofs` | `IndInv`, `ChatInv`, `AudInv`, `AdminInv`, `KafkaInv`, `SoakInv`, `AccessInv`, `McpInv` | `TypeCorrect SlotSafety CapSafety EventSafety KeySafety TerminalAbsorbing ImplementsLifecycle ChatKeepsAll AuditIsTruthful RecordsAreKept SoakReportsTruth AccessIsOwn McpIsOwn` |
| `PlatformProofs` | `CountInv`, `BudgetInv`, `TokInv`, `MigInv`, `BlobInv`, `AccInv`, `LimInv`, `AppInv`, `GhInv` | `CountsAreExact TokenCacheIsSafe SchemaIsBroughtForward BlobsKeepTheirOwner LoginsAreSafe GitHubIsFollowed` |

### ServicesProofs: agent sessions

The invariants are not inductive by themselves. `IndInv` is:

- `TypeOK`;
- `Phases`: how far the handlers of a session can be, given its row (no handler before
  the INSERT, no callback finished for a live row, a registry entry only after the
  publish, a key exactly when there is or was a row);
- `SlotPerSession`, which counts registered and reserved sessions together: a slot
  moves from the reservation to the registry, and is given back only from the registry;
- `CapInv`: the sessions that still owe the tenant's counter a slot (`Charged`) are at
  most the counter, plus one cap for each earlier start of the process, plus the slots
  that failed publishes gave back too early (`Overdrawn`). The floor of `decrement` is
  why these sessions appear as a debt and not as a negative counter;
- `OneTerminalEvent` and `KeyDiesWithSession`.

`CapMoves`, `CapKeeps`, `CapTakes` and `CapGives` are the four ways an action can
change the two sides of `CapInv`. `ImplementsLifecycle` maps every write to the
database (`RowSteps`) to a step of `SessionLifecycle` or a stutter.

### ServicesProofs: chat

For every set of turns, every page size, and any numbers of retries and losses. The
proof has three layers, on `SequenceLemmas`:

- reading: what rows say and what events say is that of the first ones followed by
  that of the others (`ReadConcat`, `SaidConcat`, from `FlattenConcat`);
- a batch: `Collecting` says that the rows done, the blocks, and the text and thinking
  of the turn being collected, read in this order, say what the events so far said.
  Two facts make it hold at each step: text and thinking are never both open, so it
  does not matter which is committed first, and a turn that has something to say has
  its id. `TakeKeeps` takes it through an event, `FlushKeeps` through the end of a turn,
  and `AssistantRowsSay` through a batch of any length by its least counterexample;
- steps: `ChatInv`. `PostsInOrder` is what the row lock is for: one transaction inserts
  at a time and holds the next seq. Events in flight and commands are of stored turns
  (`ChatTypes`), so a flush always finds the user row. `StartIsFirst`: while posts do
  not overlap and no publish fails, a session that has rows has its Start sent, or its
  first post is still about to send it.

What `ChatIsComplete` leaves out by its hypotheses (a dropped row, overlapping first
posts, a failed publish) is in the hazards of `PROJECT.json`.

### AgentRunnerProofs

For every set of sessions and tenants, every finite set of processes, all caps, and
whichever Starts come again. `RunnerIndInv`, at the end of `AgentRunner`, is:

- `RunnerTypeOK`;
- `Shape`: where a process, its watcher and its handle can be at the same time; for
  instance, a terminate in progress holds a process whose watcher was aborted, has
  finished, or had already claimed the exit;
- `OneProcess`: a session started once has one process, which is being started, is in
  the map, or has been taken out of it; whoever is cleaning up found the handle, so
  nobody else can. This is what `abort` taking effect only at the next await, and the
  remove of the map under its lock, come to;
- `PermitInv`: the permits left and held make up the cap (`MapWithinPermits`), with the
  finiteness of the map that cardinalities need;
- `SlotInv`: the tenant's count against the sessions that hold a slot, which unlike
  the running processes are not reduced by an exit that nobody has noticed yet.

`Quiet` gathers the steps that move neither permits nor slots. `CapFromInv` maps the
running processes of a tenant injectively to its slots.

### AgentExecutionProofs

`ExecutionInv` joins the two services: `HandlerShape` and `RunnerShape` say how far
each side can be, `OneStart` that the topic holds one Start of a session, and
`SessionInv`, for the sessions whose Start was not read again, follows a session
through its life: before the runner has read its Start no process exists (`Fresh`);
while it is beginning there is a process and no handle (`Beginning`); while it is not
over nobody has taken its key or its process away (`Unharmed`). That the last part
survives a late or lost callback, a cancel under way and a restart on either side is
the content of the two theorems.

### EventProofs

`RelayInv` is about places: an event is in the buffer, in the batch, in a request or
under a counter (`OnePlace`), only one request is live (`LiveRequest`). `OrderInv` adds
what makes rows come in order although requests that the relay has given up may still
be executed: the queue is ordered (`QueueOrdered`), a group is posted whole
(`GroupWhole`), what a request holds and what the table has precede what is queued
(`RequestsBefore`, `RowsBefore`), and a handler's MAX(sequence) was read from the table
(`MaximumRead`). `RelayDelivers` maps publication, loss and arrival to the three
actions of `EventDelivery`, every other step to a stutter.

`StreamInv` follows a row from its commit to a client, for any number of rows, any
capacities and LIMIT, and however often the client reconnects:

- `RowsPublished`: a row is queued, on its way, sent, or was given up by its handler;
- `EventsInOrder`: ids and sequences of events rise together, and the channel carries
  them in that order;
- `OvertakenIsPassed`: an event that a frame pushed later has overtaken is in `passed`;
- `RingIsRun`: the ring holds the frames with the last ids, without a hole, whatever
  capacity and age have removed (`Run`). This is what makes the frames after a known id
  exactly those a client has missed;
- `JoinInv`: every row above a joined client's last one is in its history batch, in the
  channel ahead of it, with a publisher (`Ahead`), or is lost to it; nothing ahead of it
  is below its last row once it is past the batch, so the deduplication may stop there;
- `HasUpToLastId`, `ReplayIsRun`, `PlainInv`: a client with a last id has, or has lost,
  every event up to it; what it replays is what came between that id and its
  subscription; every later row is replayed or ahead.

`JoinGapFree` says `missed \subseteq unpublished`, up to `outOfReach`: the proof first
failed for a client whose history query hits its LIMIT, and TLC confirmed with a LIMIT
of 1 that the rows above it are skipped when live frames follow.

### IngestPipelineProofs

For every set of deployments, finite sets of items and runs, every cap on type
instances, and any numbers of errors and restarts. A handler is
a sequence of effects that `Handler` puts together from parts, some of them one per item
and flattened. The proof has three layers:

- sequences (`SequenceLemmas`, shared with the chat): `FlattenJoins` says what
  `FlattenSeq` makes of any list of sequences (all their elements, each after those
  before it in its own), `FlattenConcat` that it keeps concatenation. The library has no
  induction that can be instantiated here, so this and the few other facts about all
  lengths are shown by the least counterexample (`LeastNumber`);
- handlers: `May` says what a handler may do after what it has had (a blob before a
  message that refers to it, the hand-over before the report done, both nodes before
  the edge, everything required before the commit), `Legal` that a sequence keeps to it.
  The lemmas `Next...` append one part to a legal beginning, and with them each of the
  workers is shown `Proper`, up to `HandlersProper` for all of them;
- steps: `PipeInv` says that what a consumer has left to do is the rest of its handler,
  with everything required so far in effect, or its failure report (`HandsAreGood`), and
  that every message it has handled or committed past is produced or explained by an
  error (`PastIsSettled`). The effects only grow (`Grown`), which keeps the past
  settled. One case is not monotone: the Neo4j handler depends on how many type
  instances there are when it fetches, and it is required to do less when there are more
  (`MustsShrink`), so a message done once stays done although its handler changes.

A crash may then throw away anything a consumer has in hand: the commit is behind it.

### ControlRowsProofs

`RunsInv`: the message that the status consumer has in hand is at its offset
(`EventInHand`), a run's row and its command exist together (`RowsAreCommanded`), one
reconciler holds a claim (`ClaimedOnce`), a stage marked done was reported done
(`DoneIsReported`), and when all its stages have been written the run's row follows or
the consumer is about to write it (`CompletionComes`). `EndedRunsStay` is the safety
part of `RunsGoForward`.

`TenInv` has two halves. `MemberInv`: a handler past its check has read what its guard
requires (`ReadAsRequired`) and holds the row locks of its transaction
(`RowsAreLocked`); a target removed is the one that was read (`RemovedAsRead`), and a
removal past its second statement has left none of its sessions (`RevokedNone`); from
these `SoleOwner` and `NoSessionOutlivesMembership`. `DeleteInv`: the tombstone is
published before the status is written (`TombstoneFirst`), and the tombstoner erases
the stores it is configured with in its order (`ErasedInOrder`), so that a tombstone it
has gone past is carried out in all of them or is in `failed`.

### ServicesProofs: the other services

`AudInv`: rows have the keys of events (`RowsHaveKeys`) and keys are unique
(`KeysAreUnique`); an event that was given to the consumer has a row of its key before
its offset is committed, unless its insert failed (`GivenIsStored`,
`CommittedIsStored`). For status events that is less than a row of its own: two events
may have one key (section 5). `AdminInv`: a call's steps come in order and a
row of the log says what its call did. `KafkaInv`: the envelope in the caller's hand is
the last one read (`HeldIsLast`), and every record between the committed offset and the
position is kept, as itself, as a retry or as a dead letter (`GoneByIsKept`). `SoakInv`:
the harness's clocks agree with what really happened (`ClocksAgree`), the pool's slots
hold different tenants (`PoolsAreWhole`) and a provisioning job is for the next one
(`JobIsNext`).

`AccessInv`: a revoked key stays revoked (`DeadStayDead`), a context under way was
built from a credential that was good when the request came (`ContextIsLive`), and a
reply went to a request that was made (`RepliedToSomebody`). `McpInv`: session ids are
unique, a call is bound to the session it was checked against (`CallsBound`), and the
calls are numbered as they come (`CallNumbers`), which is what relates a row of the
trail to its call.

### PlatformProofs

- `CountInv` and `BudgetInv` (`Limits`): the count of a tenant and its live sessions
  agree at every point between the decrement and the removal of the map's entry; every
  rewrite above the ceiling was under way when the ceiling was reached.
- `LimInv` (`Limits`): the ages in a window are ordered and the wait a client was told
  covers the oldest entry, so that a client which waits is let in.
- `TokInv`: a token in the cache is one GitHub takes for at least the margin
  (`HeldWithinMargin`); who mints holds the mutex and found nothing after taking it.
- `MigInv`: a recorded migration was carried out, in order, and the schema of a release
  is complete when its runner says so; a topic that was configured has the configuration
  of a runner that is done, since only `AlterTopicConfigs` writes one.
- `BlobInv`: files are apart, one call writes into one file (`WritersAreAlone`), what a
  delete has removed is gone until a new put (`RemovedIsGone`), a marker has a put
  (`MarkerHasPut`).
- `AccInv`: where the requests that hold a token's row lock can be (`HoldersOK`,
  `UsesOK`), what a logout and a reset have removed (`LogoutsOK`, `ResetEndsSessions`),
  which mail is the last (`LastMail`), and how many guesses are left (`GuessesOK`).
- `AppInv` and `GhInv`: one row of the App is active whatever inserts wait for it, and
  a loader that has reloaded since serves it (`ReloadsInTurn`), unless the answer to the
  commit was lost; the installation's row is what GitHub last told (`RemoteAsTold`,
  `FlagsFollow`), where a delivery applied again after a later one is an excuse and the
  last one applied again is none, and the repositories follow the installation
  (`RepoFollowsInstallation`).

### Only model-checked

- All liveness (`ExitsLeaveMap`, `DeletedSessionEnds`, `EveryEventSettles`,
  `PipelineRunsComplete`, `JoinCatchesUp`, `StuckRecovers`, `QueuedIsClaimed`,
  `DeletedTenantIsErased`): the proof system does neither ENABLED nor fairness.
- `AlgorithmsAgree`: what a recursive function computes for every input needs induction
  over data.
## 5. What the models showed about the code

Four runs find a violation; `findings` quotes the text they contradict.

- `count_tracks_sessions`: an unknown runtime takes a slot of the tenant and does not
  give it back (`sessions.rs:122`).
- `runner_orphan`: a process that exits before its handle is inserted leaves a handle
  that nobody watches (`session/mod.rs:238`).
- `relay_turn_complete`: the table refuses TurnComplete, and the whole batch with it
  (`events_ingest.rs:65`).
- `stream_end`: the joined stream drops the frame that tells the client of the end
  (`events/stream.rs:69`).

Behaviour the models contain and the properties except: a cancel may overwrite a
terminal status (`sessions.rs:312`); after a restart a tenant may exceed its documented
cap (`state.rs:152`; `TenantCapBound` is what holds); two requests for one session may
write the same sequences (`events_ingest.rs:407`; `FirstSeenInOrder` is what holds); an
id the ring has lost replays nothing (`broadcaster.rs:153`); frames may overtake each
other between ring and channel (`broadcaster.rs:126`); the history query stops at
10 000 rows (`events/mod.rs:131`).

Further statements of comments that the code does not keep are definitions without a
run of their own. TLC finds each violated in the model of its module:

| Definition | Where the code says so | What happens |
|---|---|---|
| `CancelledHasNoProcess` of `AgentExecution` | `sessions.rs` | a session cancelled while pending is started all the same |
| `FailedIsRetried` of `IngestPipeline` | `ingest-graph/src/consumer.rs:12-13` | the next commit passes the failed item |
| `OneRunInFlight` of `IngestRuns` | `trigger.rs:6` | two triggers may both find no run |
| `NoOrphanBlob` of `BlobStores` | `s3.rs:192-194` | a failed second PUT leaves the object |
| `BootstrapsOnce` of `AdminAccess` | `bootstrap.rs:4` | two callers both find no admin |
| `OneRowPerTurn` of `Chat` | `events_ingest.rs:158` | a batch posted again stores the answer again |
| `LockoutLasts` of `Limits` | `rate_limiter.rs:13-15` | a lockout ends with the entries of the window |
| `IndexNeverFires` of `GitHubApp` | `app_config_store.rs:264` | two inserts meet the unique index |
| `TransitionsRecorded` of `AuditTrail` | `mirror_consumer.rs:1-4` | the projectors give no request id, so that the events of both, and of all their runs, share one row per action; the later ones are committed without a row |
| `EarlyRetryComesBack` of `KafkaEnvelope` | `producer.rs:337`, `consumer.rs:271-285` | a retry that is early is passed |
| `NextSlotIsFree` of `SoakHarness` | synthetic-load `main.rs:123-127` | the next slot may still hold a tenant |

The tombstoner does less than its comments say, in two ways that the properties state:

- without `QDRANT_URL` it logs, skips the points of the tenant and commits the tombstone
  (`delete.rs:79-85`, `main.rs:93`): they stay. `DeletionIsCarriedOut` and
  `DeletedTenantIsErased` speak of the stores it is configured with.
- "Kafka will redeliver for retry" (`consumer.rs:110`, `delete.rs:5-6`) holds only if the
  process restarts before the commit of a later tombstone passes the failed one. A
  tombstone whose last handling failed is excepted.

So do two comments of the GitHub part: the reclaim that is "atomically" one statement
(`install.rs:210`) may take an installation from a tenant that has connected a repository
since its snapshot; and when the answer to the COMMIT of a new App is lost
(`app_config_store.rs:310`), the row is active and the pod keeps serving the App before.

Facts met while reading, outside the properties: agent-runner's `consumer.rs:212`
reports `failed` whatever command it could not handle; `natural_exit.rs:47` owns the
Child, so that `wait_terminated` returns at once and the process dies by kill-on-drop;
a failed Start removes the workspace directory (`session/mod.rs:165`); lines of a turn
still in the pipe get the next turn's id; a write failure of projector-neo4j is neither
reported nor committed; a repository without items stays running; the topic of expanded
files has no consumer; a reconciler that dies after its claim leaves the run queued;
`delete_tenant` revokes no session, and nothing sets a tenant to `deleted`; the purge of
migration 011 does not know `terminated`; `inject_tenant_label` keeps a variable bound
that WITH drops; semantic search with a kind filter skips hits between pages; nothing
writes `ingestion_runs.commit_sha`; workers of a tenant rotated out by synthetic-load
are not stopped; MCP sessions are never evicted; the garbage collection of `seq.rs`
removes the counter of a live session that was idle for ten minutes.

## 6. What is not modelled, and what is left

Components marked `not_modelled` in `PROJECT.json`: adapters, normalizer and workspace
garbage collection of agent-runner (parsing of the runtimes' output and the file
system; what matters of it elsewhere, a line or a turn's end, is an action of
`EventRelay` and `Chat`); the parsing crates (pure functions over Rust's grammar, out of
reach of small instances); the support crates (mail, logs, metrics, secrets: no shared
state); frontend, packaging and infrastructure.

Most modelled components are marked `partly`: reads that change nothing, formatting,
HTTP clients and configuration are left out, and the note of each component says what
else.

Inside the modelled components, these paths are not in the models, or are excepted:

- PATCH takes any of the six statuses of a session; the runner sends `running`,
  `terminated` and `failed`, and the models have those.
- `flush_session` skips an event that cannot be serialized (`dispatch.rs:103-111`); the
  events are strings and numbers, which always can.
- the blob of an expanded crate whose store fails is a skipped crate, since nobody reads
  its topic; `MultiStatement` of projector-neo4j cannot come of its own queries; relations
  of dynamic dispatch are written like those of items.
- a `repo_id` of `search_items` that does not parse counts as none, and the tenant is
  searched (`McpServer`, `CheckRepo`).
- nothing in the repository suspends a user; `Accounts` lets a login with the right
  password be refused for it at any time.

Some properties hold only but for a window the code leaves open. Each window is a history
variable, so that the model contains what happens in it: `passed` (a frame overtaken
between ring and channel), `late` and `lateSessions` (a session inserted after the
revocation), `stale` (a write on a role that has changed), `failed` (a tombstone that was
not carried out), `excuses` (GitHub, above), `mixed` (a put that overlaps a put or a
delete of its owner), `overlapped`, `dropped` and `refused` (posts and rows of a chat),
`discarded` (a record the Kafka client passes by design), `skipped` (an audit event whose
insert failed), `reread` (a Start read again after a crash), `raced` (two resends at
once). None of these properties says anything about its window.

Every safety property of the runs but `AlgorithmsAgree` is proved; what is left is in
"Only model-checked" above.
