------------------------------ MODULE ApiAccess ------------------------------
(* Who may read what: a request carries a bearer token, a session cookie, or *)
(* both; the middleware turns them into an AuthContext with one lookup, and  *)
(* the handler decides on that and on rows it reads itself.  Keys are made   *)
(* and revoked meanwhile.                                                    *)
(*                                                                           *)
(* Bounds: three users of two tenants, the keys in ApiKeys, one request at a *)
(* time, MaxRequests requests.                                               *)
EXTENDS Naturals, FiniteSets

CONSTANTS ApiKeys, MaxRequests

ASSUME ApiAccessAssumption == ApiKeys \cap {"unknown key", "mcp jwt", "none"} = {}

Users == {"u1", "u2", "u3"}
UserTenant == [u1 |-> "t1", u2 |-> "t1", u3 |-> "t2"]
AgentSessions == {"u1", "u3"}       \* an agent session, named by its owner
ScopeSets == {{"read"}, {"agent"}, {"admin"}}
Bearers == ApiKeys \cup {"unknown key", "mcp jwt", "none"}
Nobody == [kind |-> "anonymous", user |-> "-", tenant |-> "-", scopes |-> {}, verified |-> FALSE]

VARIABLES
    apiKeys,    \* key -> owner, scopes, "absent", "unlogged", "live" or "revoked"
    logins,     \* user -> "none", "active" or "expired" session
    verifiedUsers,   \* users with a verified email
    admins,     \* users with role owner or admin in their tenant
    request,    \* the request: step, token, cookie, context, the keys revoked when it came
    reply,      \* what the last request was given
    requests    \* requests so far

apiVars == <<apiKeys, logins, verifiedUsers, admins, request, reply, requests>>
Refused == [ep |-> "refused", tenant |-> "-", owner |-> "-", raw |-> FALSE]
NoHttpRequest == [step |-> "idle", token |-> "none", cookie |-> "none", ctx |-> Nobody, dead |-> {}]

AccessInit ==
    /\ apiKeys = [k \in ApiKeys |-> [owner |-> "-", scopes |-> {}, state |-> "absent"]]
    /\ logins = [u \in Users |-> "active"] /\ verifiedUsers = {"u1", "u3"} /\ admins = {"u1"}
    /\ request = NoHttpRequest /\ reply = Refused /\ requests = 0

LiveKeys == {k \in ApiKeys : apiKeys[k].state \in {"unlogged", "live"}}
Arrive(token, cookie) ==
    /\ request.step = "idle" /\ requests < MaxRequests
    /\ request' = [step |-> "arrived", token |-> token, cookie |-> cookie, ctx |-> Nobody,
                   dead |-> {k \in ApiKeys : apiKeys[k].state = "revoked"}]
    /\ requests' = requests + 1
    /\ UNCHANGED <<apiKeys, logins, verifiedUsers, admins, reply>>

----------------------------------------------------------------------------
(* middleware::auth.                                                         *)

\* Mutant: the lookup does not ask whether the key was revoked.
AnyKeyRow(k) == apiKeys[k].state # "absent"
KeyRow(k) == k \in LiveKeys
LookupApiKey(k) ==
    IF KeyRow(k) THEN [kind |-> "key", user |-> apiKeys[k].owner, tenant |-> UserTenant[apiKeys[k].owner],
                       scopes |-> apiKeys[k].scopes, verified |-> FALSE]
    ELSE Nobody
LookupSession(u) ==
    CASE logins[u] = "active" -> [kind |-> "session", user |-> u, tenant |-> UserTenant[u], scopes |-> {}, verified |-> u \in verifiedUsers]
      [] logins[u] = "expired" -> [Nobody EXCEPT !.kind = "expired"]
      [] OTHER -> Nobody
\* A key or a JWT decides the context, the cookie is not looked at any more.
Authenticate(token, cookie) ==
    CASE token \in ApiKeys                   -> LookupApiKey(token)
      [] token = "mcp jwt"                   -> [Nobody EXCEPT !.kind = "mcp", !.user = "u1", !.tenant = "t1"]
      [] token = "none" /\ cookie # "none"   -> LookupSession(cookie)
      [] OTHER                               -> Nobody
FromRequestParts ==
    /\ request.step = "arrived"
    /\ request' = [request EXCEPT !.step = "authed", !.ctx = Authenticate(request.token, request.cookie)]
    /\ UNCHANGED <<apiKeys, logins, verifiedUsers, admins, reply, requests>>

VerifiedSession(ctx) == ctx.kind = "session" /\ ctx.verified
RequireScope(ctx, scope) == ctx.kind = "key" /\ scope \in ctx.scopes
RequireReadAuth(ctx) == VerifiedSession(ctx) \/ ctx.kind = "key"
RequireReadAccess(ctx) == VerifiedSession(ctx) \/ RequireScope(ctx, "read")
RequireSessionOrAgentKey(ctx) == VerifiedSession(ctx) \/ RequireScope(ctx, "agent")
RequireChatAuth(ctx) == VerifiedSession(ctx) \/ (ctx.kind = "key" /\ ctx.scopes # {})

----------------------------------------------------------------------------
(* The handlers: what they give, when their guard holds.                     *)

Give(ep, tenant, owner, raw) == [ep |-> ep, tenant |-> tenant, owner |-> owner, raw |-> raw]
\* Mutant: an admin key is not held to its tenant.
AdminAnywhere(ctx, owner) == RequireReadAuth(ctx) /\ (ctx.user = owner \/ RequireScope(ctx, "admin"))
\* session_events_history: the tenant of the session, then owner or admin key.
HistoryAllowed(ctx, owner) ==
    /\ RequireReadAuth(ctx) /\ UserTenant[owner] = ctx.tenant
    /\ ctx.user = owner \/ RequireScope(ctx, "admin")
\* Mutant: the owner may have the raw log.
RawToOwner(ctx, owner, raw) == HistoryAllowed(ctx, owner)
\* session_log_ndjson: the same, and the raw log for an admin key only.
NdjsonAllowed(ctx, owner, raw) == HistoryAllowed(ctx, owner) /\ (raw => RequireScope(ctx, "admin"))
\* list_audit_events: an admin key names any tenant, a session its own, if its
\* user is an admin there now.
AuditAllowed(ctx, tenant) ==
    \/ RequireScope(ctx, "admin")
    \/ (VerifiedSession(ctx) /\ tenant = ctx.tenant /\ ctx.user \in admins)
Replies(ctx) ==
    {Give("history", UserTenant[o], o, FALSE) : o \in {o \in AgentSessions : HistoryAllowed(ctx, o)}}
    \cup {Give("ndjson", UserTenant[p[1]], p[1], p[2]) :
              p \in {p \in AgentSessions \X BOOLEAN : NdjsonAllowed(ctx, p[1], p[2])}}
    \cup {Give("detail", UserTenant[o], o, FALSE) :
              o \in {o \in AgentSessions : VerifiedSession(ctx) /\ UserTenant[o] = ctx.tenant}}
    \cup {Give("audit", t, "-", FALSE) : t \in {t \in {"t1", "t2"} : AuditAllowed(ctx, t)}}
    \cup {Give("repo", t, "-", FALSE) : t \in {t \in {"t1", "t2"} : RequireReadAccess(ctx) /\ t = ctx.tenant}}
    \cup {Give("agent", t, "-", FALSE) : t \in {t \in {"t1", "t2"} : RequireSessionOrAgentKey(ctx) /\ t = ctx.tenant}}
    \cup {Give("chat", t, ctx.user, FALSE) : t \in {t \in {"t1", "t2"} : RequireChatAuth(ctx) /\ t = ctx.tenant}}
Serve ==
    /\ request.step = "authed"
    /\ reply' \in Replies(request.ctx) \cup {Refused}
    /\ request' = [request EXCEPT !.step = "answered"]
    /\ UNCHANGED <<apiKeys, logins, verifiedUsers, admins, requests>>
Done ==
    /\ request.step = "answered"
    /\ request' = NoHttpRequest /\ reply' = Refused
    /\ UNCHANGED <<apiKeys, logins, verifiedUsers, admins, requests>>

----------------------------------------------------------------------------
(* api_keys: the row and the auth event are two statements.                  *)

CreateApiKey(k, u, scopes) ==
    /\ apiKeys[k].state = "absent" /\ logins[u] = "active"
    /\ apiKeys' = [apiKeys EXCEPT ![k] = [owner |-> u, scopes |-> scopes, state |-> "unlogged"]]
    /\ UNCHANGED <<logins, verifiedUsers, admins, request, reply, requests>>
KeyLogged(k) ==
    /\ apiKeys[k].state = "unlogged"
    /\ apiKeys' = [apiKeys EXCEPT ![k].state = "live"]
    /\ UNCHANGED <<logins, verifiedUsers, admins, request, reply, requests>>
\* Any session of the tenant may revoke.
RevokeApiKey(k, u) ==
    /\ k \in LiveKeys /\ logins[u] = "active" /\ UserTenant[u] = UserTenant[apiKeys[k].owner]
    /\ apiKeys' = [apiKeys EXCEPT ![k].state = "revoked"]
    /\ UNCHANGED <<logins, verifiedUsers, admins, request, reply, requests>>
Expire(u) ==
    /\ logins[u] = "active"
    /\ logins' = [logins EXCEPT ![u] = "expired"]
    /\ UNCHANGED <<apiKeys, verifiedUsers, admins, request, reply, requests>>
Demote(u) ==
    /\ u \in admins
    /\ admins' = admins \ {u}
    /\ UNCHANGED <<apiKeys, logins, verifiedUsers, request, reply, requests>>

AccessNext ==
    \/ \E t \in Bearers, c \in Users \cup {"none"} : Arrive(t, c)
    \/ FromRequestParts \/ Serve \/ Done
    \/ \E k \in ApiKeys : \/ \E u \in Users : RevokeApiKey(k, u) \/ \E s \in ScopeSets : CreateApiKey(k, u, s)
                          \/ KeyLogged(k)
    \/ \E u \in Users : Expire(u) \/ Demote(u)
AccessSpec == AccessInit /\ [][AccessNext]_apiVars

----------------------------------------------------------------------------
Served == reply.ep # "refused"
\* Nobody is given another tenant's data; only the audit trail is open to a key
\* with the admin scope, whatever its tenant.
TenantsApart ==
    Served => \/ reply.tenant = request.ctx.tenant
              \/ reply.ep = "audit" /\ "admin" \in request.ctx.scopes
\* The events of a session go to its owner or an admin key, raw to the key only.
EventsToOwners ==
    (Served /\ reply.ep \in {"history", "ndjson"}) =>
        /\ reply.owner = request.ctx.user \/ "admin" \in request.ctx.scopes
        /\ reply.raw => "admin" \in request.ctx.scopes
\* A key that was revoked before the request came opens nothing.
RevokedKeysOut == (Served /\ request.token \in ApiKeys) => request.token \notin request.dead

\* A reply holds what the credential of its request is good for, and no more.
OnlyOwnData == TenantsApart /\ EventsToOwners /\ RevokedKeysOut
=============================================================================
