------------------------- MODULE ControlApiSessions -------------------------
(***************************************************************************)
(* The agent-session handlers of services/control-api:                     *)
(*                                                                         *)
(*   POST   /v1/agents/sessions               create_session               *)
(*   DELETE /v1/agents/sessions/{id}          delete_session               *)
(*   PATCH  /internal/agent/sessions/{id}/status  patch_session_status     *)
(*   DELETE /internal/agent/sessions/{id}/api-key delete_session_api_key   *)
(*                                                                         *)
(* The handlers are async functions on a shared AppState: other handlers   *)
(* run at every await (a database call or a Kafka publish), so each        *)
(* stretch of code between two awaits is one action.  What the process     *)
(* keeps in memory (the two counters, the registry, the handlers under     *)
(* way) is lost when it restarts; the rows of agents.agent_sessions and    *)
(* control.api_keys stay.  A handler whose client goes away is dropped at  *)
(* its current await.                                                      *)
(***************************************************************************)
EXTENDS Integers, FiniteSets

CONSTANTS
    Sessions,    \* the session ids that create_session may generate
    Tenants,
    TenantOf,    \* the tenant of the caller who creates the session
    TenantCap,   \* config.tenant_session_cap
    MaxActive,   \* MAX_ACTIVE_SESSIONS_PER_PROCESS
    MaxBoots     \* bound: times the process is started

ASSUME SessionsAssumption == IsFiniteSet(Sessions)
ASSUME TenantOfAssumption == TenantOf \in [Sessions -> Tenants]
ASSUME CapsAssumption == /\ TenantCap \in Nat
                         /\ MaxActive \in Nat
                         /\ MaxBoots \in Nat

VARIABLES
    row,          \* status of the session's row in agents.agent_sessions
    key,          \* the session's row in control.api_keys
    events,       \* terminal lifecycle rows of the session in agents.agent_events
    create,       \* where create_session stands for the session
    patch,        \* where a terminal patch_session_status stands
    delete,       \* where delete_session stands
    tenantCount,  \* TenantSessionCount.counts
    activeCount,  \* AgentRegistry.active_count_atomic
    registry,     \* keys of AgentRegistry.sessions
    producer,     \* is agent_commands_producer configured?
    boots,        \* times the process was started
    overdrawn,    \* history: sessions whose slot create_session gave back although
                  \* their row stayed or had already ended
    unrevoked     \* history: a revoke of the session's key failed or was cut off

rows == <<row, key, events>>
handlers == <<create, patch, delete>>
counters == <<tenantCount, activeCount, registry>>
vars == <<rows, handlers, counters, producer, boots, overdrawn, unrevoked>>

-----------------------------------------------------------------------------
(* Statuses. *)

LIVE_STATUSES == {"pending", "running", "terminating"}
TERMINAL_STATUSES == {"terminated", "cancelled", "failed"}
\* What the runner reports; PATCH would take any of the six, nobody sends others.
RunnerStatuses == {"running", "terminated", "failed"}

CreatePCs == {"idle", "admitted", "reserved", "inserted", "failed", "unrowed",
              "published", "done"}
PatchPCs  == {"idle", "updated", "released", "done"}
DeletePCs == {"idle", "cancel", "cancelled", "terminate"}

TypeOK ==
    /\ row \in [Sessions -> {"none", "deleted"} \cup LIVE_STATUSES \cup TERMINAL_STATUSES]
    /\ key \in [Sessions -> {"none", "live", "revoked", "deleted"}]
    /\ events \in [Sessions -> Nat]
    /\ create \in [Sessions -> CreatePCs]
    /\ patch \in [Sessions -> PatchPCs]
    /\ delete \in [Sessions -> DeletePCs]
    /\ tenantCount \in [Tenants -> Nat]
    /\ activeCount \in Int
    /\ registry \subseteq Sessions
    /\ producer \in BOOLEAN
    /\ boots \in Nat \ {0}
    /\ overdrawn \subseteq Sessions
    /\ unrevoked \subseteq Sessions

Init ==
    /\ row = [s \in Sessions |-> "none"]
    /\ key = [s \in Sessions |-> "none"]
    /\ events = [s \in Sessions |-> 0]
    /\ create = [s \in Sessions |-> "idle"]
    /\ patch = [s \in Sessions |-> "idle"]
    /\ delete = [s \in Sessions |-> "idle"]
    /\ tenantCount = [t \in Tenants |-> 0]
    /\ activeCount = 0
    /\ registry = {}
    /\ producer \in BOOLEAN
    /\ boots = 1
    /\ overdrawn = {}
    /\ unrevoked = {}

-----------------------------------------------------------------------------
(* The in-memory counters. *)

\* Mutant: fetch_sub without the floor.
DecrementUnfloored(t) == tenantCount' = [tenantCount EXCEPT ![t] = @ - 1]

\* TenantSessionCount::decrement floors at zero.
Decrement(t) == tenantCount' = [tenantCount EXCEPT ![t] = IF @ = 0 THEN 0 ELSE @ - 1]

\* Mutant: the slot is given back even when the session was not in the map.
RegistryRemoveAlways(s) ==
    /\ registry' = registry \ {s}
    /\ activeCount' = activeCount - 1

\* AgentRegistry::remove gives the slot back only if the session was in the map;
\* the fetch_sub itself is not guarded.
RegistryRemove(s) ==
    /\ registry' = registry \ {s}
    /\ activeCount' = IF s \in registry THEN activeCount - 1 ELSE activeCount

RowExists(s) == row[s] \notin {"none", "deleted"}

\* Steps that were to end these sessions' keys fail or are cut off.
KeysLeft(S) == unrevoked' = unrevoked \cup {s \in S : key[s] = "live"}

\* revoke_session_api_key: finds the key through the session's row, and only
\* logs a failure of the UPDATE.
RevokeKey(s, ok) ==
    /\ key' = IF ok /\ RowExists(s) /\ key[s] = "live"
              THEN [key EXCEPT ![s] = "revoked"] ELSE key
    /\ KeysLeft(IF ok THEN {} ELSE {s})

-----------------------------------------------------------------------------
(* POST /v1/agents/sessions *)

\* TenantSessionCount::try_increment.
Admit(s) ==
    /\ create[s] = "idle"
    /\ tenantCount[TenantOf[s]] < TenantCap
    /\ tenantCount' = [tenantCount EXCEPT ![TenantOf[s]] = @ + 1]
    /\ create' = [create EXCEPT ![s] = "admitted"]
    /\ UNCHANGED <<rows, patch, delete, activeCount, registry, producer, boots,
                   overdrawn, unrevoked>>

\* An unknown runtime: the `?` returns without giving the tenant's slot back.
RejectRuntime(s) ==
    /\ create[s] = "admitted"
    /\ create' = [create EXCEPT ![s] = "idle"]
    /\ UNCHANGED <<rows, patch, delete, counters, producer, boots, overdrawn, unrevoked>>

\* A prompt that is too long or a bad workspace path.
RejectInput(s) ==
    /\ create[s] = "admitted"
    /\ Decrement(TenantOf[s])
    /\ create' = [create EXCEPT ![s] = "idle"]
    /\ UNCHANGED <<rows, patch, delete, activeCount, registry, producer, boots,
                   overdrawn, unrevoked>>

\* AgentRegistry::try_increment fails.
RejectActive(s) ==
    /\ create[s] = "admitted"
    /\ activeCount >= MaxActive
    /\ Decrement(TenantOf[s])
    /\ create' = [create EXCEPT ![s] = "idle"]
    /\ UNCHANGED <<rows, patch, delete, activeCount, registry, producer, boots,
                   overdrawn, unrevoked>>

\* AgentRegistry::try_increment succeeds; the session id is generated.
Reserve(s) ==
    /\ create[s] = "admitted"
    /\ activeCount < MaxActive
    /\ activeCount' = activeCount + 1
    /\ create' = [create EXCEPT ![s] = "reserved"]
    /\ UNCHANGED <<rows, patch, delete, tenantCount, registry, producer, boots,
                   overdrawn, unrevoked>>

\* A statement of the transaction fails: the `?` keeps both slots.
TxFails(s) ==
    /\ create[s] = "reserved"
    /\ create' = [create EXCEPT ![s] = "idle"]
    /\ UNCHANGED <<rows, patch, delete, counters, producer, boots, overdrawn, unrevoked>>

\* The transaction commits: the key and the pending row appear together.  The
\* answer to COMMIT may be lost (ack = FALSE), and then the `?` returns.
InsertRow(s, ack) ==
    /\ create[s] = "reserved"
    /\ row' = [row EXCEPT ![s] = "pending"]
    /\ key' = [key EXCEPT ![s] = "live"]
    /\ create' = [create EXCEPT ![s] = IF ack THEN "inserted" ELSE "done"]
    /\ UNCHANGED <<events, patch, delete, counters, producer, boots, overdrawn, unrevoked>>

\* SessionStart is acknowledged by the broker.
PublishStart(s) ==
    /\ create[s] = "inserted"
    /\ producer
    /\ create' = [create EXCEPT ![s] = "published"]
    /\ UNCHANGED <<rows, patch, delete, counters, producer, boots, overdrawn, unrevoked>>

\* publish returns an error.  The broker may have the message all the same.
PublishFails(s) ==
    /\ create[s] = "inserted"
    /\ producer
    /\ create' = [create EXCEPT ![s] = "failed"]
    /\ UNCHANGED <<rows, patch, delete, counters, producer, boots, overdrawn, unrevoked>>

\* Kafka is not configured: the row and the key stay as they are.
NoProducer(s) ==
    /\ create[s] = "inserted"
    /\ ~producer
    /\ RegistryRemove(s)
    /\ Decrement(TenantOf[s])
    /\ create' = [create EXCEPT ![s] = "done"]
    /\ overdrawn' = overdrawn \cup {s}
    /\ UNCHANGED <<rows, patch, delete, producer, boots, unrevoked>>

\* Mutant: the key is deleted before the row.
RollbackKeyFirst(s, ok) ==
    /\ create[s] = "failed"
    /\ key' = IF ok THEN [key EXCEPT ![s] = "deleted"] ELSE key
    /\ create' = [create EXCEPT ![s] = "unrowed"]
    /\ UNCHANGED <<row, events, patch, delete, counters, producer, boots,
                   overdrawn, unrevoked>>

\* The best-effort DELETE of the row after a failed publish.
RollbackRow(s, ok) ==
    /\ create[s] = "failed"
    /\ row' = IF ok THEN [row EXCEPT ![s] = "deleted"] ELSE row
    /\ overdrawn' = IF ok /\ row[s] \in LIVE_STATUSES THEN overdrawn
                    ELSE overdrawn \cup {s}
    /\ create' = [create EXCEPT ![s] = "unrowed"]
    /\ UNCHANGED <<key, events, patch, delete, counters, producer, boots, unrevoked>>

\* The best-effort DELETE of the key; then the tenant's slot (and only that one)
\* is given back.
RollbackKey(s, ok) ==
    /\ create[s] = "unrowed"
    /\ key' = IF ok THEN [key EXCEPT ![s] = "deleted"] ELSE key
    /\ KeysLeft(IF ok THEN {} ELSE {s})
    /\ Decrement(TenantOf[s])
    /\ create' = [create EXCEPT ![s] = "done"]
    /\ UNCHANGED <<row, events, patch, delete, activeCount, registry, producer, boots,
                   overdrawn>>

\* AgentRegistry::insert, after the publish.
RegistryInsert(s) ==
    /\ create[s] = "published"
    /\ registry' = registry \cup {s}
    /\ create' = [create EXCEPT ![s] = "done"]
    /\ UNCHANGED <<rows, patch, delete, tenantCount, activeCount, producer, boots,
                   overdrawn, unrevoked>>

\* The client disconnects and the handler is dropped at an await.
CreateDropped(s) ==
    /\ create[s] \in {"reserved", "inserted", "failed", "unrowed"}
    /\ create' = [create EXCEPT ![s] = IF @ = "reserved" THEN "idle" ELSE "done"]
    /\ KeysLeft(IF create[s] = "unrowed" THEN {s} ELSE {})
    /\ UNCHANGED <<rows, patch, delete, counters, producer, boots, overdrawn>>

-----------------------------------------------------------------------------
(* PATCH /internal/agent/sessions/{id}/status *)

\* Mutant: UPDATE without "AND status NOT IN (...)".
PatchUpdateUnguarded(s, st) ==
    /\ RowExists(s)
    /\ row' = [row EXCEPT ![s] = st]
    /\ patch' = IF st \in TERMINAL_STATUSES THEN [patch EXCEPT ![s] = "updated"] ELSE patch
    /\ UNCHANGED <<key, events, create, delete, counters, producer, boots,
                   overdrawn, unrevoked>>

\* The guarded UPDATE.  A request that changes no row, or only to running, has
\* no further effect on this state; a terminal one goes on.
PatchUpdate(s, st) ==
    /\ RowExists(s)
    /\ row[s] \notin TERMINAL_STATUSES
    /\ row' = [row EXCEPT ![s] = st]
    /\ patch' = IF st \in TERMINAL_STATUSES THEN [patch EXCEPT ![s] = "updated"] ELSE patch
    /\ UNCHANGED <<key, events, create, delete, counters, producer, boots,
                   overdrawn, unrevoked>>

\* The in-memory slots, then the key.  Dropped at the await of the revoke, the
\* handler is one whose revoke failed and that takes no further step.
PatchRelease(s, ok) ==
    /\ patch[s] = "updated"
    /\ RegistryRemove(s)
    /\ Decrement(TenantOf[s])
    /\ RevokeKey(s, ok)
    /\ patch' = [patch EXCEPT ![s] = "released"]
    /\ UNCHANGED <<row, events, create, delete, producer, boots, overdrawn>>

\* Mutant: the handler repeats the INSERT.
PatchEventRepeats(s, ok) ==
    /\ patch[s] = "released"
    /\ events' = IF ok THEN [events EXCEPT ![s] = @ + 1] ELSE events
    /\ UNCHANGED <<row, key, handlers, counters, producer, boots, overdrawn, unrevoked>>

\* The lifecycle row of agents.agent_events; a failure is only logged.
PatchEvent(s, ok) ==
    /\ patch[s] = "released"
    /\ events' = IF ok THEN [events EXCEPT ![s] = @ + 1] ELSE events
    /\ patch' = [patch EXCEPT ![s] = "done"]
    /\ UNCHANGED <<row, key, create, delete, counters, producer, boots,
                   overdrawn, unrevoked>>

\* agent-runner times out after 30 s or dies, and the handler is dropped.
PatchDropped(s) ==
    /\ patch[s] \in {"updated", "released"}
    /\ patch' = [patch EXCEPT ![s] = "done"]
    /\ KeysLeft(IF patch[s] = "updated" THEN {s} ELSE {})
    /\ UNCHANGED <<rows, create, delete, counters, producer, boots, overdrawn>>

-----------------------------------------------------------------------------
(* DELETE /v1/agents/sessions/{id}; one request at a time per session. *)

\* The SELECT, and the decision taken on the status it returned.
DeleteRead(s) ==
    /\ delete[s] = "idle"
    /\ RowExists(s)
    /\ \/ /\ row[s] \in TERMINAL_STATUSES
          /\ RegistryRemove(s)
          /\ UNCHANGED delete
       \/ /\ row[s] \in LIVE_STATUSES
          /\ delete' = [delete EXCEPT ![s] = IF row[s] = "pending" THEN "cancel"
                                             ELSE "terminate"]
          /\ UNCHANGED <<activeCount, registry>>
    /\ UNCHANGED <<rows, create, patch, tenantCount, producer, boots, overdrawn, unrevoked>>

\* UPDATE ... SET status = 'cancelled' WHERE id = $1: no condition on the status.
DeleteCancel(s) ==
    /\ delete[s] = "cancel"
    /\ row' = IF RowExists(s) THEN [row EXCEPT ![s] = "cancelled"] ELSE row
    /\ delete' = [delete EXCEPT ![s] = "cancelled"]
    /\ UNCHANGED <<key, events, create, patch, counters, producer, boots,
                   overdrawn, unrevoked>>

\* Mutant: the key is left to agent-runner's callback.
DeleteReleaseKeepsKey(s, ok) ==
    /\ delete[s] = "cancelled"
    /\ RegistryRemove(s)
    /\ delete' = [delete EXCEPT ![s] = "idle"]
    /\ UNCHANGED <<rows, create, patch, tenantCount, producer, boots, overdrawn, unrevoked>>

\* The registry entry and the key go; the tenant's count is not touched.
DeleteRelease(s, ok) ==
    /\ delete[s] = "cancelled"
    /\ RegistryRemove(s)
    /\ RevokeKey(s, ok)
    /\ delete' = [delete EXCEPT ![s] = "idle"]
    /\ UNCHANGED <<row, events, create, patch, tenantCount, producer, boots, overdrawn>>

\* Mutant: the slot is given back when the Terminate is published.
DeleteTerminateReleases(s) ==
    /\ delete[s] = "terminate"
    /\ Decrement(TenantOf[s])
    /\ delete' = [delete EXCEPT ![s] = "idle"]
    /\ UNCHANGED <<rows, create, patch, activeCount, registry, producer, boots,
                   overdrawn, unrevoked>>

\* The Terminate command is published, or the request fails; no row changes.
DeleteTerminate(s) ==
    /\ delete[s] = "terminate"
    /\ delete' = [delete EXCEPT ![s] = "idle"]
    /\ UNCHANGED <<rows, create, patch, counters, producer, boots, overdrawn, unrevoked>>

\* The UPDATE fails, or the client disconnects.
DeleteDropped(s) ==
    /\ delete[s] \in {"cancel", "cancelled"}
    /\ delete' = [delete EXCEPT ![s] = "idle"]
    /\ KeysLeft(IF delete[s] = "cancel" THEN {} ELSE {s})
    /\ UNCHANGED <<rows, create, patch, counters, producer, boots, overdrawn>>

\* DELETE /internal/agent/sessions/{id}/api-key: agent-runner's own revocation.
DeleteApiKey(s) ==
    /\ RowExists(s)
    /\ RevokeKey(s, TRUE)
    /\ UNCHANGED <<row, events, handlers, counters, producer, boots, overdrawn>>

-----------------------------------------------------------------------------

\* The process is restarted, with or without Kafka configured.
Restart(configured) ==
    /\ boots < MaxBoots
    /\ boots' = boots + 1
    /\ producer' = configured
    /\ tenantCount' = [t \in Tenants |-> 0]
    /\ activeCount' = 0
    /\ registry' = {}
    /\ create' = [s \in Sessions |->
                    IF create[s] \in {"idle", "admitted", "reserved"} THEN "idle" ELSE "done"]
    /\ patch' = [s \in Sessions |-> IF patch[s] = "idle" THEN "idle" ELSE "done"]
    /\ delete' = [s \in Sessions |-> "idle"]
    /\ KeysLeft({s \in Sessions : \/ create[s] = "unrowed"
                                  \/ patch[s] = "updated"
                                  \/ delete[s] = "cancelled"})
    /\ UNCHANGED <<rows, overdrawn>>

CreateSession(s) ==
    \/ Admit(s) \/ RejectRuntime(s) \/ RejectInput(s) \/ RejectActive(s) \/ Reserve(s)
    \/ TxFails(s) \/ \E ack \in BOOLEAN : InsertRow(s, ack)
    \/ PublishStart(s) \/ PublishFails(s) \/ NoProducer(s)
    \/ \E ok \in BOOLEAN : RollbackRow(s, ok) \/ RollbackKey(s, ok)
    \/ RegistryInsert(s) \/ CreateDropped(s)

PatchSessionStatus(s) ==
    \/ \E st \in RunnerStatuses : PatchUpdate(s, st)
    \/ \E ok \in BOOLEAN : PatchRelease(s, ok) \/ PatchEvent(s, ok)
    \/ PatchDropped(s)

DeleteSession(s) ==
    \/ DeleteRead(s) \/ DeleteCancel(s) \/ \E ok \in BOOLEAN : DeleteRelease(s, ok)
    \/ DeleteTerminate(s) \/ DeleteDropped(s)

Next ==
    \/ \E s \in Sessions : \/ CreateSession(s) \/ PatchSessionStatus(s)
                           \/ DeleteSession(s) \/ DeleteApiKey(s)
    \/ \E configured \in BOOLEAN : Restart(configured)

Spec == Init /\ [][Next]_vars

-----------------------------------------------------------------------------
(* What the handlers promise. *)

SessionsOf(t) == {s \in Sessions : TenantOf[s] = t}
LiveOf(t) == {s \in SessionsOf(t) : row[s] \in LIVE_STATUSES}

\* The sessions a slot of the process-wide counter stands for: the registry's, and
\* those create_session has reserved a slot for and not yet registered.
SlotHolders == registry \cup {s \in Sessions : create[s] \in {"reserved", "inserted", "published"}}

\* AgentRegistry::remove decrements with an unguarded fetch_sub on a usize
\* (state.rs).  However creates, terminal callbacks, deletes and failures
\* interleave, every registered or reserved session holds a slot of its own, so
\* the counter never wraps below zero and never exceeds the cap.
SlotPerSession == /\ Cardinality(SlotHolders) <= activeCount
                  /\ activeCount <= MaxActive

\* The per-tenant cap of create_session counts in memory, and a restart forgets
\* it: a tenant's live rows are bounded by one cap per start of the process, plus
\* the sessions whose slot a failed publish gave back although the row stayed or
\* had already ended.  (tenantCount itself never exceeds the cap.)
TenantCapBound ==
    \A t \in Tenants :
        /\ tenantCount[t] <= TenantCap
        /\ Cardinality(LiveOf(t)) <= TenantCap * boots + Cardinality(overdrawn \cap SessionsOf(t))

\* The session's API key outlives the session only while a handler is about to
\* revoke or delete it, or when such a best-effort step failed or was cut off.
KeyDiesWithSession ==
    \A s \in Sessions :
        key[s] = "live" => \/ row[s] \in LIVE_STATUSES
                           \/ create[s] = "unrowed"
                           \/ patch[s] = "updated"
                           \/ delete[s] = "cancelled"
                           \/ s \in unrevoked

\* However often agent-runner repeats its callbacks, a session gets at most one
\* terminal lifecycle event, and only once its row is terminal (or rolled back).
OneTerminalEvent ==
    \A s \in Sessions : /\ events[s] <= 1
                        /\ events[s] = 1 => row[s] \notin LIVE_STATUSES

\* A session that has ended never becomes live again: no late callback, cancel or
\* retry revives its row.
TerminalStaysTerminal ==
    [][\A s \in Sessions : row[s] \in TERMINAL_STATUSES =>
                              row'[s] \in TERMINAL_STATUSES \cup {"deleted"}]_vars

\* The handlers implement the lifecycle a client may rely on: end after live, one
\* announcement, no key that becomes valid again, nothing after a withdrawal.
PhaseOf(status) == CASE status = "none" -> "absent"
                     [] status \in LIVE_STATUSES -> "live"
                     [] status \in TERMINAL_STATUSES -> "ended"
                     [] status = "deleted" -> "gone"
AccessOf(k) == CASE k = "none" -> "none"
                 [] k = "live" -> "valid"
                 [] k \in {"revoked", "deleted"} -> "void"

Lifecycle == INSTANCE SessionLifecycle WITH
    phase <- [s \in Sessions |-> PhaseOf(row[s])],
    access <- [s \in Sessions |-> AccessOf(key[s])],
    announced <- events

LifecycleImplemented == Lifecycle!Spec

\* "Tracks active session counts per tenant" (state.rs, of TenantSessionCount): in
\* one run of the process, with no handler under way, the count of a tenant is
\* the number of its live sessions.
CountTracksSessions ==
    \A t \in Tenants :
        /\ boots = 1
        /\ \A s \in SessionsOf(t) : /\ create[s] \in {"idle", "done"}
                                     /\ patch[s] \in {"idle", "done"}
                                     /\ delete[s] = "idle"
        => tenantCount[t] = Cardinality(LiveOf(t))

-----------------------------------------------------------------------------
(* The inductive invariant behind the properties above.                      *)

\* How far the handlers of one session can be, given its row.
Phases ==
    \A s \in Sessions :
        /\ create[s] \in {"idle", "admitted", "reserved"} => row[s] = "none"
        /\ row[s] = "none" => /\ create[s] \in {"idle", "admitted", "reserved"}
                              /\ s \notin registry
        /\ row[s] = "none" <=> key[s] = "none"
        /\ s \in overdrawn => create[s] \in {"unrowed", "done"}
        /\ s \in registry => create[s] = "done"
        /\ row[s] \in {"none"} \cup LIVE_STATUSES => patch[s] = "idle"
        /\ create[s] = "unrowed" /\ s \notin overdrawn =>
               row[s] = "deleted" /\ patch[s] = "idle"
        /\ patch[s] # "done" => events[s] = 0
        /\ row[s] = "deleted" /\ key[s] = "live" => create[s] = "unrowed" \/ s \in unrevoked

\* The sessions that still have to give back a slot of the tenant's counter.
Charged(t) ==
    {s \in SessionsOf(t) : \/ row[s] \in LIVE_STATUSES
                           \/ create[s] \in {"admitted", "reserved"}
                           \/ patch[s] = "updated"
                           \/ create[s] = "unrowed" /\ s \notin overdrawn}

\* Those that will have given it back twice, once create_session has returned.
Overdrawn(t) == {s \in overdrawn \cap SessionsOf(t) : create[s] # "unrowed"}

CapAt(t) ==
    /\ tenantCount[t] <= TenantCap
    /\ Cardinality(Charged(t)) <=
          tenantCount[t] + TenantCap * (boots - 1) + Cardinality(Overdrawn(t))

CapInv == \A t \in Tenants : CapAt(t)

IndInv == /\ TypeOK
          /\ Phases
          /\ SlotPerSession
          /\ CapInv
          /\ OneTerminalEvent
          /\ KeyDiesWithSession

=============================================================================
