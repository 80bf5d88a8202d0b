---------------------------- MODULE AgentRunner ----------------------------
(***************************************************************************)
(* services/agent-runner: the consumer of rb.agent.commands, the           *)
(* SessionManager it drives, the natural-exit watcher of every process,    *)
(* and the processes themselves.                                           *)
(*                                                                         *)
(* The consumer handles one command at a time (consumer.rs); the watchers  *)
(* run as tasks of their own.  Both change the sessions map, the tenant    *)
(* counts and the node semaphore.  A callback to control-api is a one-shot *)
(* HTTP request with a timeout: the task that sends it goes on whether it  *)
(* was served or not, so a request stays in `calls` until it is served or  *)
(* lost.                                                                   *)
(*                                                                         *)
(* The map never holds MAX_TRACKED_SESSIONS (100 000) entries, because     *)
(* each holds one of the 200 node permits (MapWithinPermits): the branch   *)
(* of start_session behind that test is dead and is not modelled.          *)
(***************************************************************************)
EXTENDS Integers, FiniteSets

CONSTANTS
    Sessions,
    Tenants,
    TenantOf,       \* the tenant named in the session's commands
    Procs,          \* bound: the child processes that may ever be spawned
    MaxPerTenant,   \* MAX_SESSIONS_PER_TENANT
    MaxPerNode,     \* MAX_SESSIONS_PER_NODE
    Redelivered,    \* bound: sessions whose Start may come again to the same runner
    None

ASSUME RunnerSets == /\ IsFiniteSet(Procs)
                     /\ None \notin Procs \cup Sessions
                     /\ TenantOf \in [Sessions -> Tenants]
ASSUME RunnerCaps == /\ MaxPerTenant \in Nat /\ MaxPerNode \in Nat
                     /\ Redelivered \subseteq Sessions

VARIABLES
    cmd,       \* the command the consumer handles: session, where it stands, process
    handle,    \* SessionManager.sessions: session -> process of its SessionHandle
    proc,      \* the operating system's view of a process
    sess,      \* the session a process was spawned for
    child,     \* who owns the tokio Child: AgentProcess, the watcher, nobody
    waiter,    \* where the natural-exit watcher of a process stands
    count,     \* SessionCaps.tenant_counts
    permits,   \* permits left in SessionCaps.node_semaphore
    calls,     \* callbacks on their way to control-api
    started    \* history: how often this runner has taken a session's Start, up to 2

procs == <<proc, sess, child, waiter>>
caps == <<count, permits>>
runnerVars == <<cmd, handle, procs, caps, calls, started>>

-----------------------------------------------------------------------------

\* What a callback asks of control-api: a PATCH of the status, or the DELETE of
\* the session's key.
Requests == {"running", "terminated", "failed", "revoke"}
Call(s, r) == [session |-> s, request |-> r]

CommandPCs == {"idle", "start", "spawn", "running", "insert",
               "terminate", "kill", "revoke", "input", "fail", "commit"}
WaiterPCs == {"none", "spawned", "waiting", "revoking", "done", "aborted"}

RunnerTypeOK ==
    /\ cmd \in [pc : CommandPCs, session : Sessions \cup {None}, proc : Procs \cup {None}]
    /\ handle \in [Sessions -> Procs \cup {None}]
    /\ proc \in [Procs -> {"unused", "alive", "exited"}]
    /\ sess \in [Procs -> Sessions \cup {None}]
    /\ child \in [Procs -> {"held", "watched", "dropped"}]
    /\ waiter \in [Procs -> WaiterPCs]
    /\ count \in [Tenants -> Nat]
    /\ permits \in Nat
    /\ calls \subseteq [session : Sessions, request : Requests]
    /\ started \in [Sessions -> 0..2]

Idle == [pc |-> "idle", session |-> None, proc |-> None]

RunnerInit ==
    /\ cmd = Idle
    /\ handle = [s \in Sessions |-> None]
    /\ proc = [p \in Procs |-> "unused"]
    /\ sess = [p \in Procs |-> None]
    /\ child = [p \in Procs |-> "held"]
    /\ waiter = [p \in Procs |-> "none"]
    /\ count = [t \in Tenants |-> 0]
    /\ permits = MaxPerNode
    /\ calls = {}
    /\ started = [s \in Sessions |-> 0]

Goto(pc) == cmd' = [cmd EXCEPT !.pc = pc]

\* SessionCaps::release, the armed guard's Drop and natural_exit's own decrement
\* all use saturating_sub.
Release(t) == count' = [count EXCEPT ![t] = IF @ = 0 THEN 0 ELSE @ - 1]

-----------------------------------------------------------------------------
(* handle_command and SessionManager::start_session *)

\* consumer.next() yields a command for a session.
Deliver(op, s) ==
    /\ cmd.pc = "idle"
    /\ op \in {"start", "terminate", "input"}
    /\ op = "start" => s \in Redelivered \/ started[s] = 0
    /\ cmd' = [pc |-> op, session |-> s, proc |-> None]
    /\ started' = [started EXCEPT ![s] = IF op = "start" /\ @ < 2 THEN @ + 1 ELSE @]
    /\ UNCHANGED <<handle, procs, caps, calls>>

\* A prompt, a workspace path or a runtime that start_session refuses, or a cap
\* that SessionCaps::acquire finds reached: nothing is held afterwards.
StartRejected ==
    /\ cmd.pc = "start"
    /\ Goto("fail")
    /\ UNCHANGED <<handle, procs, caps, calls, started>>

\* Mutant: the tenant's cap is all that is tested.
AcquireWithoutPermit ==
    LET t == TenantOf[cmd.session] IN
    /\ cmd.pc = "start"
    /\ count[t] < MaxPerTenant
    /\ permits' = permits - 1
    /\ count' = [count EXCEPT ![t] = @ + 1]
    /\ Goto("spawn")
    /\ UNCHANGED <<handle, procs, calls, started>>

\* SessionCaps::acquire: the node permit, then the tenant's count.
Acquire ==
    LET t == TenantOf[cmd.session] IN
    /\ cmd.pc = "start"
    /\ permits > 0
    /\ count[t] < MaxPerTenant
    /\ permits' = permits - 1
    /\ count' = [count EXCEPT ![t] = @ + 1]
    /\ Goto("spawn")
    /\ UNCHANGED <<handle, procs, calls, started>>

\* Mutant: the permit is forgotten on the error path.
SpawnFailsKeepsPermit ==
    /\ cmd.pc = "spawn"
    /\ calls' = calls \cup {Call(cmd.session, "failed")}
    /\ Release(TenantOf[cmd.session])
    /\ Goto("fail")
    /\ UNCHANGED <<handle, procs, permits, started>>

\* adapter.spawn fails: the row is PATCHed, the guard and the permit are dropped.
SpawnFails ==
    /\ cmd.pc = "spawn"
    /\ calls' = calls \cup {Call(cmd.session, "failed")}
    /\ Release(TenantOf[cmd.session])
    /\ permits' = permits + 1
    /\ Goto("fail")
    /\ UNCHANGED <<handle, procs, started>>

\* adapter.spawn succeeds, and the running status is sent.
Spawn(p) ==
    /\ cmd.pc = "spawn"
    /\ proc[p] = "unused"
    /\ proc' = [proc EXCEPT ![p] = "alive"]
    /\ sess' = [sess EXCEPT ![p] = cmd.session]
    /\ calls' = calls \cup {Call(cmd.session, "running")}
    /\ cmd' = [cmd EXCEPT !.pc = "running", !.proc = p]
    /\ UNCHANGED <<handle, child, waiter, caps, started>>

\* spawn_natural_exit_handler: the watcher runs before the session is in the map.
SpawnWatcher ==
    /\ cmd.pc = "running"
    /\ waiter' = [waiter EXCEPT ![cmd.proc] = "spawned"]
    /\ Goto("insert")
    /\ UNCHANGED <<handle, proc, sess, child, caps, calls, started>>

\* sessions.insert.  A handle that was there is dropped: its permit is returned,
\* its tasks are detached, its tenant's count stays.
InsertHandle ==
    /\ cmd.pc = "insert"
    /\ handle' = [handle EXCEPT ![cmd.session] = cmd.proc]
    /\ permits' = IF handle[cmd.session] = None THEN permits ELSE permits + 1
    /\ Goto("commit")
    /\ UNCHANGED <<procs, count, calls, started>>

-----------------------------------------------------------------------------
(* terminate_session, send_input, and the end of handle_command *)

\* Mutant: the handle is looked up now and left in the map.
TerminateRemoveLater ==
    LET s == cmd.session
        p == handle[s]
    IN
    /\ cmd.pc = "terminate"
    /\ p # None
    /\ Release(TenantOf[s])
    /\ cmd' = [cmd EXCEPT !.pc = "kill", !.proc = p]
    /\ UNCHANGED <<handle, procs, permits, calls, started>>

\* sessions.remove, caps.release, and the abort of the session's tasks: a watcher
\* that is aborted drops the Child it owns.
TerminateRemove ==
    LET s == cmd.session
        p == handle[s]
    IN
    /\ cmd.pc = "terminate"
    /\ p # None
    /\ handle' = [handle EXCEPT ![s] = None]
    /\ Release(TenantOf[s])
    /\ waiter' = [waiter EXCEPT ![p] = IF @ \in {"spawned", "waiting"} THEN "aborted" ELSE @]
    /\ child' = [child EXCEPT ![p] = IF @ = "watched" THEN "dropped" ELSE @]
    /\ cmd' = [cmd EXCEPT !.pc = "kill", !.proc = p]
    /\ UNCHANGED <<proc, sess, permits, calls, started>>

\* "Session not found".
TerminateUnknown ==
    /\ cmd.pc = "terminate"
    /\ handle[cmd.session] = None
    /\ Goto("fail")
    /\ UNCHANGED <<handle, procs, caps, calls, started>>

\* The signal and wait_terminated: a Child still in AgentProcess is waited for and
\* killed after the grace period; one the watcher had taken is not waited for.
TerminateKill ==
    LET p == cmd.proc IN
    /\ cmd.pc = "kill"
    /\ IF child[p] = "held"
       THEN /\ proc' = [proc EXCEPT ![p] = "exited"]
            /\ child' = [child EXCEPT ![p] = "dropped"]
       ELSE UNCHANGED <<proc, child>>
    /\ calls' = calls \cup {Call(cmd.session, "terminated")}
    /\ Goto("revoke")
    /\ UNCHANGED <<handle, sess, waiter, caps, started>>

\* revoke_api_key and the Terminated event; the handle goes with its permit.
TerminateRevoke ==
    /\ cmd.pc = "revoke"
    /\ calls' = calls \cup {Call(cmd.session, "revoke")}
    /\ permits' = permits + 1
    /\ Goto("commit")
    /\ UNCHANGED <<handle, procs, count, started>>

\* send_input: the bytes reach the process's stdin.
InputSent ==
    /\ cmd.pc = "input"
    /\ handle[cmd.session] # None
    /\ Goto("commit")
    /\ UNCHANGED <<handle, procs, caps, calls, started>>

\* send_input: no such session, or the write fails.
InputFails ==
    /\ cmd.pc = "input"
    /\ Goto("fail")
    /\ UNCHANGED <<handle, procs, caps, calls, started>>

\* Mutant: a Terminate for a session the runner does not know is only logged.
CommandFailsSilently ==
    /\ cmd.pc = "fail"
    /\ Goto("commit")
    /\ UNCHANGED <<handle, procs, caps, calls, started>>

\* handle_command's error arm: whatever the command was, the row is PATCHed failed.
CommandFails ==
    /\ cmd.pc = "fail"
    /\ calls' = calls \cup {Call(cmd.session, "failed")}
    /\ Goto("commit")
    /\ UNCHANGED <<handle, procs, caps, started>>

\* consumer.commit, on success and on error.
Commit ==
    /\ cmd.pc = "commit"
    /\ cmd' = Idle
    /\ UNCHANGED <<handle, procs, caps, calls, started>>

-----------------------------------------------------------------------------
(* natural_exit.rs *)

TakeChild(p) ==
    /\ waiter[p] = "spawned"
    /\ waiter' = [waiter EXCEPT ![p] = "waiting"]
    /\ child' = [child EXCEPT ![p] = "watched"]
    /\ UNCHANGED <<cmd, handle, proc, sess, caps, calls, started>>

\* wait() returned and the map has a handle for the session: the watcher owns the
\* cleanup, and reports the exit code.
ClaimExit(p, status) ==
    /\ waiter[p] = "waiting"
    /\ proc[p] = "exited"
    /\ handle[sess[p]] # None
    /\ handle' = [handle EXCEPT ![sess[p]] = None]
    /\ Release(TenantOf[sess[p]])
    /\ calls' = calls \cup {Call(sess[p], status)}
    /\ waiter' = [waiter EXCEPT ![p] = "revoking"]
    /\ child' = [child EXCEPT ![p] = "dropped"]
    /\ UNCHANGED <<cmd, proc, sess, permits, started>>

\* Mutant: the watcher gives the tenant's slot back whoever removed the session.
IgnoreExitReleases(p) ==
    /\ waiter[p] = "waiting"
    /\ proc[p] = "exited"
    /\ handle[sess[p]] = None
    /\ Release(TenantOf[sess[p]])
    /\ waiter' = [waiter EXCEPT ![p] = "done"]
    /\ child' = [child EXCEPT ![p] = "dropped"]
    /\ UNCHANGED <<cmd, handle, proc, sess, permits, calls, started>>

\* Mutant: the watcher does not look into the map.
IgnoreExitAlways(p) ==
    /\ waiter[p] = "waiting"
    /\ proc[p] = "exited"
    /\ waiter' = [waiter EXCEPT ![p] = "done"]
    /\ child' = [child EXCEPT ![p] = "dropped"]
    /\ UNCHANGED <<cmd, handle, proc, sess, caps, calls, started>>

\* wait() returned and the session is not in the map: the watcher does nothing.
IgnoreExit(p) ==
    /\ waiter[p] = "waiting"
    /\ proc[p] = "exited"
    /\ handle[sess[p]] = None
    /\ waiter' = [waiter EXCEPT ![p] = "done"]
    /\ child' = [child EXCEPT ![p] = "dropped"]
    /\ UNCHANGED <<cmd, handle, proc, sess, caps, calls, started>>

\* The key's revocation and the Terminated event; the handle goes with its permit.
ReportRevoke(p) ==
    /\ waiter[p] = "revoking"
    /\ calls' = calls \cup {Call(sess[p], "revoke")}
    /\ permits' = permits + 1
    /\ waiter' = [waiter EXCEPT ![p] = "done"]
    /\ UNCHANGED <<cmd, handle, proc, sess, child, count, started>>

-----------------------------------------------------------------------------
(* The processes, the network, and the runner's own end. *)

\* A process exits by itself, on a signal, or because its Child was dropped
\* (kill_on_drop).
ProcessExits(p) ==
    /\ proc[p] = "alive"
    /\ proc' = [proc EXCEPT ![p] = "exited"]
    /\ UNCHANGED <<cmd, handle, sess, child, waiter, caps, calls, started>>

\* A request leaves the network: control-api has served it, or it is lost.
CallEnds(c) ==
    /\ c \in calls
    /\ calls' = calls \ {c}
    /\ UNCHANGED <<cmd, handle, procs, caps, started>>

\* The runner's container goes: its memory and its processes with it.  (On SIGTERM
\* terminate_all first signals the processes, which may then exit one by one.)
RunnerCrash ==
    /\ cmd' = Idle
    /\ handle' = [s \in Sessions |-> None]
    /\ proc' = [p \in Procs |-> IF proc[p] = "alive" THEN "exited" ELSE proc[p]]
    /\ waiter' = [p \in Procs |-> IF proc[p] = "unused" THEN "none" ELSE "aborted"]
    /\ child' = [p \in Procs |-> IF proc[p] = "unused" THEN "held" ELSE "dropped"]
    /\ count' = [t \in Tenants |-> 0]
    /\ permits' = MaxPerNode
    /\ started' = [s \in Sessions |-> 0]
    /\ UNCHANGED <<sess, calls>>

StartSession == StartRejected \/ Acquire \/ SpawnFails \/ (\E p \in Procs : Spawn(p))
                \/ SpawnWatcher \/ InsertHandle
TerminateSession == TerminateRemove \/ TerminateUnknown \/ TerminateKill \/ TerminateRevoke
SendInput == InputSent \/ InputFails
HandleCommand == StartSession \/ TerminateSession \/ SendInput \/ CommandFails \/ Commit
Watch(p) == \/ TakeChild(p) \/ IgnoreExit(p) \/ ReportRevoke(p)
            \/ \E status \in {"terminated", "failed"} : ClaimExit(p, status)

RunnerNext ==
    \/ \E op \in {"start", "terminate", "input"}, s \in Sessions : Deliver(op, s)
    \/ HandleCommand
    \/ \E p \in Procs : Watch(p) \/ ProcessExits(p)
    \/ \E c \in calls : CallEnds(c)
    \/ RunnerCrash

\* tokio runs every ready task; a session's process need not exit, nor a command
\* arrive.
RunnerFairness == /\ WF_runnerVars(HandleCommand)
                  /\ \A p \in Procs : WF_runnerVars(Watch(p))

RunnerSpec == RunnerInit /\ [][RunnerNext]_runnerVars /\ RunnerFairness

-----------------------------------------------------------------------------
(* What the runner promises. *)

\* The processes of a tenant that no terminate_session is ending.
Running(t) == {p \in Procs : /\ proc[p] = "alive" /\ waiter[p] # "aborted"
                             /\ TenantOf[sess[p]] = t}

\* The runner has not taken the session's Start twice.
Once(s) == started[s] < 2

\* ADR-013's per-tenant cap holds for the operating system's processes, not only
\* for the counter: whatever the order of spawns, failures, exits and terminates,
\* the counter never falls below the number of the tenant's running processes,
\* unless a Start of the tenant came again.
TenantCapOnProcesses ==
    \A t \in Tenants :
        /\ count[t] <= MaxPerTenant
        /\ (\A s \in Sessions : TenantOf[s] = t => Once(s)) =>
               Cardinality(Running(t)) <= count[t]

\* The tasks that hold a node permit: a start on its way, the map's handles, and
\* the handle that a terminate or a watcher is finishing with.
Starting == IF cmd.pc \in {"spawn", "running", "insert"} THEN {cmd.session} ELSE {}
Finishing == IF cmd.pc \in {"kill", "revoke"} THEN {cmd.session} ELSE {}
Mapped == {s \in Sessions : handle[s] # None}
Revoking == {p \in Procs : waiter[p] = "revoking"}

\* No node permit is lost or made up on any path, crash and redelivery included;
\* so the map stays far below MAX_TRACKED_SESSIONS.
MapWithinPermits ==
    permits + Cardinality(Starting) + Cardinality(Finishing)
            + Cardinality(Mapped) + Cardinality(Revoking) = MaxPerNode

\* "Whichever removes first owns the cleanup; the other returns without action"
\* (natural_exit.rs): a process is never cleaned up by both, unless its session's
\* Start came again.
SingleCleanup ==
    \A p \in Procs :
        cmd.proc = p /\ cmd.pc \in {"kill", "revoke"} /\ waiter[p] = "revoking" => ~Once(sess[p])

\* A process that exits while its watcher is at work leaves the map.
ExitsLeaveMap ==
    \A p \in Procs : (proc[p] = "exited" /\ waiter[p] = "waiting")
                        ~> (\A s \in Sessions : handle[s] # p)

\* "Watches for natural (unforced) process exit and transitions the session to
\* terminated or failed automatically" (session/mod.rs): no handle stays in the map
\* once its watcher has finished.
NoOrphanedHandle ==
    \A s \in Sessions : handle[s] # None => waiter[handle[s]] # "done"

-----------------------------------------------------------------------------
(* The inductive invariant behind the invariants above.                      *)

\* Processes that the runner still looks after: spawned, and not aborted.
Active(p) == proc[p] # "unused" /\ waiter[p] # "aborted"

\* Where a process, its watcher and its handle can be.
Shape ==
    /\ cmd.pc # "idle" => cmd.session \in Sessions
    /\ cmd.pc \in {"running", "insert", "kill", "revoke"} =>
           /\ cmd.proc \in Procs
           /\ proc[cmd.proc] # "unused"
           /\ sess[cmd.proc] = cmd.session
    /\ cmd.pc = "running" => waiter[cmd.proc] = "none"
    /\ cmd.pc = "insert" => waiter[cmd.proc] \notin {"none", "aborted"}
    /\ cmd.pc \in {"kill", "revoke"} => waiter[cmd.proc] \in {"revoking", "done", "aborted"}
    /\ \A p \in Procs :
           /\ proc[p] # "unused" => sess[p] \in Sessions
           /\ proc[p] = "unused" => waiter[p] = "none"
           /\ proc[p] # "unused" /\ waiter[p] = "none" => cmd.pc = "running" /\ cmd.proc = p
           /\ waiter[p] \in {"revoking", "done"} => proc[p] = "exited"
    /\ \A s \in Sessions : handle[s] # None =>
           /\ proc[handle[s]] # "unused"
           /\ sess[handle[s]] = s
           /\ waiter[handle[s]] \notin {"none", "aborted"}

\* A session whose Start was taken once has one process, which is starting, in the
\* map, or has been taken out of it for good.
OneProcess ==
    \A s \in Sessions : Once(s) =>
        /\ cmd.session = s /\ cmd.pc \in {"start", "spawn", "running", "insert"} => started[s] = 1
        /\ \A p \in Procs : Active(p) /\ sess[p] = s =>
               /\ started[s] = 1
               /\ ~(cmd.session = s /\ cmd.pc \in {"start", "spawn"})
               /\ proc[p] = "alive" => \/ handle[s] = p
                                       \/ cmd.proc = p /\ cmd.pc \in {"running", "insert"}
               /\ waiter[p] = "revoking" =>
                      /\ handle[s] = None
                      /\ ~(cmd.session = s /\ cmd.pc \in {"running", "insert", "kill", "revoke"})
               /\ \A q \in Procs : Active(q) /\ sess[q] = s => p = q
        /\ cmd.session = s /\ cmd.pc \in {"start", "spawn", "running", "insert", "kill", "revoke"} =>
               handle[s] = None

\* Sessions that hold a slot of their tenant.
Slots(t) == {s \in Mapped \cup Starting : TenantOf[s] = t}

SlotInv ==
    \A t \in Tenants :
        /\ count[t] <= MaxPerTenant
        /\ (\A s \in Sessions : TenantOf[s] = t => Once(s)) => Cardinality(Slots(t)) <= count[t]

\* The holders of node permits can be counted.
PermitInv == IsFiniteSet(Mapped) /\ MapWithinPermits

RunnerIndInv == /\ RunnerTypeOK
                /\ Shape
                /\ OneProcess
                /\ PermitInv
                /\ SlotInv

=============================================================================
