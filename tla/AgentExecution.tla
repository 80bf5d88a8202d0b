--------------------------- MODULE AgentExecution ---------------------------
(***************************************************************************)
(* An agent session from end to end: control-api (ControlApiSessions) and  *)
(* agent-runner (AgentRunner), joined by                                   *)
(*                                                                         *)
(*   - the topic rb.agent.commands: control-api appends Start and          *)
(*     Terminate, keyed by session, and the runner consumes them in order, *)
(*     committing after each one and reading again from the last commit    *)
(*     after a crash;                                                      *)
(*   - the HTTP callbacks of the runner, each served by control-api as a   *)
(*     patch_session_status or a delete_session_api_key, or lost.          *)
(*                                                                         *)
(* Every step is a step of one of the two modules, of both together, or of *)
(* one of them and the log.  SessionInput is left out: control-api         *)
(* publishes it for chat sessions only (chat/messages.rs).                 *)
(***************************************************************************)
EXTENDS Integers, Sequences, FiniteSets

CONSTANTS
    Sessions, Tenants, TenantOf, TenantCap, MaxActive, MaxBoots,
    Procs, MaxPerTenant, MaxPerNode, Redelivered, None,
    MaxLog,      \* bound: uncommitted commands
    KeyOutcomes, \* bound: do the best-effort writes of keys and events succeed?
    MaxFaults    \* bound: restarts, runner crashes, lost callbacks and commits

ASSUME ExecutionAssumption ==
    /\ TenantOf \in [Sessions -> Tenants]
    /\ {TenantCap, MaxActive, MaxBoots, MaxPerTenant, MaxPerNode, MaxLog, MaxFaults} \subseteq Nat
    /\ None \notin Procs \cup Sessions
ASSUME KeyOutcomesAssumption == KeyOutcomes \subseteq BOOLEAN

VARIABLES
    row, key, events, create, patch, delete, tenantCount, activeCount, registry,
    producer, boots, overdrawn, unrevoked,
    cmd, handle, proc, sess, child, waiter, count, permits, calls, started,
    log,       \* commands of rb.agent.commands after the runner's last commit
    next,      \* how many of them the consumer has taken
    faults,    \* restarts, crashes and losses so far
    reread     \* history: sessions whose Start was read again after a crash

C == INSTANCE ControlApiSessions
R == INSTANCE AgentRunner

controlApi == <<row, key, events, create, patch, delete, tenantCount, activeCount,
                registry, producer, boots, overdrawn, unrevoked>>
runner == <<cmd, handle, proc, sess, child, waiter, count, permits, calls, started>>
topic == <<log, next>>
vars == <<controlApi, runner, topic, faults, reread>>

Command(op, s) == [op |-> op, session |-> s]
Commands == [op : {"start", "terminate"}, session : Sessions]

TypeOK ==
    /\ C!TypeOK
    /\ R!RunnerTypeOK
    /\ log \in Seq(Commands) /\ Len(log) <= MaxLog
    /\ next \in 0..Len(log)
    /\ faults \in 0..MaxFaults
    /\ reread \subseteq Sessions

Init ==
    /\ C!Init /\ producer = TRUE
    /\ R!RunnerInit
    /\ log = <<>>
    /\ next = 0
    /\ faults = 0
    /\ reread = {}

-----------------------------------------------------------------------------
(* control-api *)

Append1(op, s) ==
    /\ Len(log) < MaxLog
    /\ log' = Append(log, Command(op, s))
    /\ UNCHANGED next

\* Steps of control-api that neither publish nor serve a callback.
ControlApiAlone(s) ==
    /\ \/ C!Admit(s) \/ C!RejectRuntime(s) \/ C!RejectInput(s) \/ C!RejectActive(s)
       \/ C!Reserve(s) \/ C!TxFails(s) \/ C!RegistryInsert(s)
       \/ \E ok \in BOOLEAN : C!InsertRow(s, ok) \/ C!RollbackRow(s, ok)
       \/ \E ok \in KeyOutcomes : \/ C!RollbackKey(s, ok) \/ C!PatchRelease(s, ok)
                                  \/ C!PatchEvent(s, ok) \/ C!DeleteRelease(s, ok)
       \/ C!PatchDropped(s) \/ C!DeleteRead(s) \/ C!DeleteDropped(s)
    /\ UNCHANGED <<runner, topic, faults, reread>>

\* The status UPDATE of a cancelled pending session.
Cancel(s) ==
    /\ C!DeleteCancel(s)
    /\ UNCHANGED <<runner, topic, faults, reread>>

\* SessionStart reaches the log when it is acknowledged, and perhaps when the
\* publish fails or its handler is dropped.
PublishStart(s) ==
    /\ \/ C!PublishStart(s) /\ Append1("start", s)
       \/ /\ C!PublishFails(s) \/ C!CreateDropped(s)
          /\ UNCHANGED topic
       \/ /\ create[s] = "inserted"
          /\ C!PublishFails(s) \/ C!CreateDropped(s)
          /\ Append1("start", s)
    /\ UNCHANGED <<runner, faults, reread>>

\* delete_session's Terminate is published ...
PublishTerminate(s) ==
    /\ C!DeleteTerminate(s)
    /\ Append1("terminate", s)
    /\ UNCHANGED <<runner, faults, reread>>

\* ... or the request fails.
TerminateNotPublished(s) ==
    /\ C!DeleteTerminate(s)
    /\ UNCHANGED <<runner, topic, faults, reread>>

ControlApiRestart ==
    /\ faults < MaxFaults
    /\ C!Restart(TRUE)
    /\ faults' = faults + 1
    /\ UNCHANGED <<runner, topic, reread>>

-----------------------------------------------------------------------------
(* agent-runner *)

\* The consumer takes the next command.
Consume ==
    /\ next < Len(log)
    /\ R!Deliver(log[next + 1].op, log[next + 1].session)
    /\ next' = next + 1
    /\ UNCHANGED <<controlApi, log, faults, reread>>

\* Mutant: the commit drops what was taken but not the position.
CommitOffsetOnly ==
    /\ R!Commit
    /\ log' = SubSeq(log, next + 1, Len(log))
    /\ UNCHANGED <<controlApi, next, faults, reread>>

\* The commit acknowledges every command taken so far.
CommitOffset ==
    /\ R!Commit
    /\ log' = SubSeq(log, next + 1, Len(log))
    /\ next' = 0
    /\ UNCHANGED <<controlApi, faults, reread>>

\* The commit is asynchronous and may never reach the broker; a later one covers it.
CommitLost ==
    /\ faults < MaxFaults
    /\ R!Commit
    /\ faults' = faults + 1
    /\ UNCHANGED <<controlApi, topic, reread>>

RunnerAlone ==
    /\ \/ R!StartSession \/ R!TerminateSession \/ R!CommandFails
       \/ \E p \in Procs : R!Watch(p)
    /\ UNCHANGED <<controlApi, topic, faults, reread>>

ProcessExits(p) ==
    /\ R!ProcessExits(p)
    /\ UNCHANGED <<controlApi, topic, faults, reread>>

\* The runner dies and comes back: what it had taken and not committed is read again.
RunnerCrash ==
    /\ faults < MaxFaults
    /\ R!RunnerCrash
    /\ faults' = faults + 1
    /\ next' = 0
    /\ reread' = reread \cup {log[i].session : i \in {j \in 1..next : log[j].op = "start"}}
    /\ UNCHANGED <<controlApi, log>>

-----------------------------------------------------------------------------
(* Callbacks *)

\* control-api serves a callback; a PATCH that finds no row to change, and a
\* revoke without a row, change nothing.
Serve(c) ==
    /\ R!CallEnds(c)
    /\ IF c.request = "revoke"
       THEN IF C!RowExists(c.session) THEN C!DeleteApiKey(c.session) ELSE UNCHANGED controlApi
       ELSE IF C!RowExists(c.session) /\ row[c.session] \notin C!TERMINAL_STATUSES
            THEN C!PatchUpdate(c.session, c.request)
            ELSE UNCHANGED controlApi
    /\ UNCHANGED <<topic, faults, reread>>

\* A callback gets lost: the runner logs a warning and goes on.
Lose(c) ==
    /\ faults < MaxFaults
    /\ R!CallEnds(c)
    /\ faults' = faults + 1
    /\ UNCHANGED <<controlApi, topic, reread>>

Next ==
    \/ \E s \in Sessions : \/ ControlApiAlone(s) \/ Cancel(s) \/ PublishStart(s)
                           \/ PublishTerminate(s) \/ TerminateNotPublished(s)
    \/ ControlApiRestart
    \/ Consume \/ CommitOffset \/ CommitLost \/ RunnerAlone \/ RunnerCrash
    \/ \E p \in Procs : ProcessExits(p)
    \/ \E c \in calls : Serve(c) \/ Lose(c)

\* The client asks again until the session has ended.  (A request may fail each
\* time at the database or the broker, but not for ever.)
ClientDeletes(s) ==
    /\ row[s] \in C!LIVE_STATUSES
    /\ C!DeleteRead(s)
    /\ UNCHANGED <<runner, topic, faults, reread>>

Fairness ==
    /\ \A s \in Sessions : /\ WF_vars(ClientDeletes(s))
                           /\ SF_vars(Cancel(s))
                           /\ SF_vars(PublishTerminate(s))
    /\ WF_vars(Consume) /\ WF_vars(CommitOffset) /\ WF_vars(RunnerAlone)
    /\ WF_vars(\E c \in calls : Serve(c))

Spec == Init /\ [][Next]_vars /\ Fairness

-----------------------------------------------------------------------------
(* What the two services promise together. *)

\* Once control-api has recorded that a session terminated or failed, the runner
\* keeps no process for it, whatever was published, retried, lost or crashed in
\* between; except when a crash made the runner read the session's Start again.
EndedSessionHasNoProcess ==
    \A s \in Sessions :
        row[s] \in {"terminated", "failed"} => handle[s] = None \/ s \in reread

\* The key given to a session's process works as long as the session is live: no
\* revocation of an earlier or a failed attempt overtakes it.  (The states of
\* both services and of the topic between them are well typed.)
RunningSessionHasKey ==
    /\ TypeOK
    /\ \A s \in Sessions :
        row[s] \in C!LIVE_STATUSES /\ handle[s] # None =>
            key[s] = "live" \/ s \in reread \cup overdrawn

\* A session whose client keeps asking for its end does end, although a Terminate
\* may reach a runner that has lost the session (RUSAA-1876), a callback may be
\* lost and either service may be restarted.
DeletedSessionEnds ==
    \A s \in Sessions : row[s] \in C!LIVE_STATUSES ~> row[s] \notin C!LIVE_STATUSES

\* "Pending sessions with no PID/started_at can never receive a runner callback"
\* (sessions.rs): a session cancelled while pending never has a process.
CancelledHasNoProcess ==
    \A s \in Sessions : row[s] = "cancelled" => handle[s] = None

=============================================================================
