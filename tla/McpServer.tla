----------------------------- MODULE McpServer -----------------------------
(* The MCP endpoint of control-api: a client initializes a session, which a  *)
(* map in memory binds to the tenant of its credential, and calls tools      *)
(* under it.  A tool call is a chain of awaits on the database, the embedder *)
(* and the vector store, with an audit row at its end; other requests,       *)
(* archiving, ingestion and a restart come between its steps.                *)
(*                                                                           *)
(* Bounds: two tenants with one repository each, the credentials below, the  *)
(* clients in Clients with one call each at a time, MaxSessions sessions,    *)
(* MaxCalls calls, MaxRestarts restarts, MaxLostRows audit rows lost.        *)
EXTENDS Naturals, FiniteSets

CONSTANTS Clients, MaxSessions, MaxCalls, MaxRestarts, MaxLostRows

McpTenants == {"t1", "t2"}
Repos == {"r1", "r2"}
OwnerOf == [r1 |-> "t1", r2 |-> "t2"]
Tools == {"search_items", "get_item"}

\* What the middleware made of the Authorization header.
Cred(kind, tenant, ok) == [kind |-> kind, tenant |-> tenant, ok |-> ok]
\* ok: a verified email, a key with scope read or agent, a JWT with scope read.
Credentials ==
    {Cred("session", "t1", TRUE), Cred("session", "t1", FALSE), Cred("key", "t2", TRUE),
     Cred("key", "t2", FALSE), Cred("jwt", "t1", TRUE), Cred("jwt", "t2", FALSE)}

VARIABLES
    mcpSessions,  \* McpSessionStore: the sessions there are, and their tenants
    known,        \* the ids that were given out, with the tenant of each
    archived,     \* repositories with archived_at
    call,         \* client -> its request: credential, session, tool, repository, step, data
    mcpTrail,        \* audit.audit_events of the tool calls
    lostRows,         \* the calls whose row could not be written
    answers,      \* what the clients were told: number, outcome and data of the call
    used          \* bounds: calls and restarts so far

mcpVars == <<mcpSessions, known, archived, call, mcpTrail, lostRows, answers, used>>

NoCall == [step |-> "idle", nr |-> 0, cred |-> Cred("none", "-", FALSE), sid |-> 0, tenant |-> "-",
           tool |-> "-", repo |-> "-", gone |-> {}, data |-> {}, outcome |-> "-"]

McpInit ==
    /\ mcpSessions = {} /\ known = {} /\ archived = {}
    /\ call = [c \in Clients |-> NoCall]
    /\ mcpTrail = {} /\ lostRows = {} /\ answers = {}
    /\ used = [calls |-> 0, restarts |-> 0]

----------------------------------------------------------------------------
(* initialize and validate_session.                                          *)

\* initialize takes any JWT, tools/call asks for its scope.
RequireAuthTenant(cred) == cred.ok \/ cred.kind = "jwt"
HandleInitialize(cred) ==
    /\ RequireAuthTenant(cred) /\ Cardinality(known) < MaxSessions
    /\ LET s == [id |-> Cardinality(known) + 1, tenant |-> cred.tenant]
       IN  mcpSessions' = mcpSessions \cup {s} /\ known' = known \cup {s}
    /\ UNCHANGED <<archived, call, mcpTrail, lostRows, answers, used>>

SessionTenant(sid) == {s.tenant : s \in {s \in mcpSessions : s.id = sid}}
\* Mutant: the tenant of the session is not compared with the credential's.
AnyTenant(cred, sid) == IF ~cred.ok THEN "unauthorized" ELSE IF SessionTenant(sid) = {} THEN "session not found" ELSE "ok"
ValidateSession(cred, sid) ==
    CASE ~cred.ok                          -> "unauthorized"
      [] SessionTenant(sid) = {}           -> "session not found"
      [] cred.tenant \notin SessionTenant(sid) -> "tenant drift"
      [] OTHER                             -> "ok"

\* dispatch, as far as the tool: a call refused before it is not audited.  A
\* request without the header stands for session 0; "other" is an unknown tool.
HandleToolsCall(c, cred, sid, tool, repo) ==
    /\ call[c].step = "idle" /\ used.calls < MaxCalls
    /\ used' = [used EXCEPT !.calls = @ + 1]
    /\ IF ValidateSession(cred, sid) = "ok" /\ tool \in Tools
       THEN call' = [call EXCEPT ![c] = [NoCall EXCEPT !.step = "check", !.nr = used.calls + 1, !.cred = cred, !.sid = sid,
                                          !.tenant = CHOOSE t \in SessionTenant(sid) : TRUE, !.tool = tool, !.repo = repo,
                                          !.gone = archived]]
       ELSE call' = call
    /\ UNCHANGED <<mcpSessions, known, archived, mcpTrail, lostRows, answers>>

----------------------------------------------------------------------------
(* dispatch_get_item and dispatch_search_items, one await per step; each may *)
(* fail, and the error is the result of the call.                            *)

Step(c, from, to) == call[c].step = from /\ call' = [call EXCEPT ![c] = to]
Fail(c) ==
    /\ \E s \in {"check", "embed", "read", "cite"} : Step(c, s, [call[c] EXCEPT !.step = "audit", !.outcome = "error", !.data = {}])
    /\ UNCHANGED <<mcpSessions, known, archived, mcpTrail, lostRows, answers, used>>

Owned(tenant, repo) == OwnerOf[repo] = tenant /\ repo \notin archived
\* get_item needs a repository, search_items may name one; what does not parse
\* as an identifier counts as none ("-") there, and the tenant is searched.
CheckRepo(c) ==
    LET k == call[c]
        next == IF k.tool = "get_item" THEN "read" ELSE "embed"
    IN  /\ k.repo = "-" => k.tool = "search_items"
        /\ k.repo # "-" => Owned(k.tenant, k.repo)
        /\ Step(c, "check", [k EXCEPT !.step = next])
        /\ UNCHANGED <<mcpSessions, known, archived, mcpTrail, lostRows, answers, used>>
\* The embedding of the query, and of its paraphrases while the budget lasts.
EmbedQuery(c) ==
    /\ Step(c, "embed", [call[c] EXCEPT !.step = "read"])
    /\ UNCHANGED <<mcpSessions, known, archived, mcpTrail, lostRows, answers, used>>
\* The schema or the collections of the tenant of the session, where the rows
\* of an archived repository stay until the tombstoner has been there.
RowsOf(tenant, repo) == {r \in Repos : OwnerOf[r] = tenant /\ (repo = "-" \/ r = repo)}
ReadRows(c) ==
    LET k == call[c]
        found == [k EXCEPT !.data = RowsOf(k.tenant, k.repo)]
    IN  /\ Step(c, "read", IF k.tool = "get_item" THEN [found EXCEPT !.step = "audit", !.outcome = "success"]
                                                   ELSE [found EXCEPT !.step = "cite"])
        /\ UNCHANGED <<mcpSessions, known, archived, mcpTrail, lostRows, answers, used>>
\* A dense search has no citations, its step is only shorter.
FetchCommitShas(c) ==
    /\ Step(c, "cite", [call[c] EXCEPT !.step = "audit", !.outcome = "success"])
    /\ UNCHANGED <<mcpSessions, known, archived, mcpTrail, lostRows, answers, used>>

----------------------------------------------------------------------------
(* write_tool_call_audit, best effort, and the answer.                       *)

ActorKind(cred) == IF cred.kind = "jwt" THEN "chat" ELSE "agent"
AuditRow(k) == [nr |-> k.nr, tenant |-> k.tenant, actor |-> ActorKind(k.cred), tool |-> k.tool, outcome |-> k.outcome]
\* Mutant: an error leaves the handler before the row is written.
AuditSuccess(c) ==
    LET k == call[c]
    IN  /\ Step(c, "audit", [k EXCEPT !.step = "answer"])
        /\ mcpTrail' = mcpTrail \cup (IF k.outcome = "success" THEN {AuditRow(k)} ELSE {})
        /\ UNCHANGED <<mcpSessions, known, archived, lostRows, answers, used>>
WriteToolCallAudit(c) ==
    LET k == call[c]
    IN  /\ Step(c, "audit", [k EXCEPT !.step = "answer"])
        /\ \/ mcpTrail' = mcpTrail \cup {AuditRow(k)} /\ lostRows' = lostRows
           \/ Cardinality(lostRows) < MaxLostRows /\ lostRows' = lostRows \cup {k.nr} /\ mcpTrail' = mcpTrail
        /\ UNCHANGED <<mcpSessions, known, archived, answers, used>>
Answer(c) ==
    LET k == call[c]
    IN  /\ Step(c, "answer", NoCall)
        /\ answers' = answers \cup {[nr |-> k.nr, cred |-> k.cred, tenant |-> k.tenant, tool |-> k.tool, repo |-> k.repo, gone |-> k.gone,
                                     data |-> k.data, outcome |-> k.outcome]}
        /\ UNCHANGED <<mcpSessions, known, archived, mcpTrail, lostRows, used>>

ArchiveRepo(r) ==
    /\ r \notin archived /\ archived' = archived \cup {r}
    /\ UNCHANGED <<mcpSessions, known, call, mcpTrail, lostRows, answers, used>>
\* The map is not persisted, and the calls under way end.
McpRestart ==
    /\ used.restarts < MaxRestarts /\ used' = [used EXCEPT !.restarts = @ + 1]
    /\ mcpSessions' = {} /\ call' = [c \in Clients |-> NoCall]
    /\ UNCHANGED <<known, archived, mcpTrail, lostRows, answers>>

McpNext ==
    \/ \E cred \in Credentials : HandleInitialize(cred)
    \/ \E c \in Clients :
         \/ \E cred \in Credentials, sid \in 0..Cardinality(known), tool \in Tools \cup {"other"}, repo \in Repos \cup {"-"} :
                HandleToolsCall(c, cred, sid, tool, repo)
         \/ Fail(c) \/ CheckRepo(c) \/ EmbedQuery(c) \/ ReadRows(c) \/ FetchCommitShas(c)
         \/ WriteToolCallAudit(c) \/ Answer(c)
    \/ \E r \in Repos : ArchiveRepo(r)
    \/ McpRestart
McpSpec == McpInit /\ [][McpNext]_mcpVars

----------------------------------------------------------------------------
\* A client gets rows of the tenant its credential names, whatever session it
\* sent; if it named a repository, then rows of that one, and none of one that
\* had been archived when the call came.
McpTenantsApart ==
    \A a \in answers : \A r \in a.data :
        /\ OwnerOf[r] = a.cred.tenant
        /\ a.repo # "-" => r = a.repo /\ r \notin a.gone
\* Every call that was answered is in the trail of its tenant with the outcome
\* the client saw, and as "chat" exactly if a chat session's JWT made it, unless
\* its row was lost; no call has two rows.
McpCallsAudited ==
    /\ \A a \in answers : a.nr \in lostRows \/
          [nr |-> a.nr, tenant |-> a.tenant, actor |-> IF a.cred.kind = "jwt" THEN "chat" ELSE "agent",
           tool |-> a.tool, outcome |-> a.outcome] \in mcpTrail
    /\ \A x, y \in mcpTrail : x.nr = y.nr => x = y

\* A tool call answers from its own tenant, and leaves its trace there.
McpCallsOwnData == McpTenantsApart /\ McpCallsAudited
=============================================================================
