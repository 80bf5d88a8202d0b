------------------------------ MODULE Tenants ------------------------------
(* One tenant shared by several users: its members and their roles, the web  *)
(* sessions that are in it, and its deletion down to the data in the stores. *)
(*                                                                           *)
(* A handler checks the caller's role in one statement, reads the target's   *)
(* role in a second and writes in a transaction of its own, so every handler *)
(* is three actions.  Rows are locked as PostgreSQL does: a writer waits for *)
(* the readers FOR SHARE of its row and for its other writers.  Every user   *)
(* has a tenant of his own besides ("home"), joined first.                   *)
(*                                                                           *)
(* Bounds: MaxRequests member or delete requests, MaxTombstones of them      *)
(* published, MaxTenantFaults failures.                                             *)
EXTENDS Naturals, Sequences, FiniteSets

CONSTANTS
    Users,
    Owner,        \* who created the tenant
    Admin,        \* an admin of it from the start
    Homeless,     \* the users whose own tenant is deleted: login takes them here
    MaxRequests, MaxTombstones, MaxTenantFaults

ASSUME TenantsAssumption ==
    /\ Owner \in Users /\ Admin \in Users \ {Owner} /\ Homeless \subseteq Users
    /\ Users \cap {"admin", "-"} = {}
    /\ MaxRequests \in Nat /\ MaxTombstones \in Nat /\ MaxTenantFaults \in Nat

Roles == {"none", "member", "admin", "owner"}
Rank(r) == CASE r = "none" -> 0 [] r = "member" -> 1 [] r = "admin" -> 2 [] r = "owner" -> 3
Stores == {"pg", "neo4j", "qdrant"}
Idle == [op |-> "idle"]

VARIABLES
    role,       \* [Users -> Roles]: control.tenant_members
    session,    \* [Users -> the tenant of the user's live session, "none" without one]
    tenant,     \* "active" or "deleting"
    call,       \* [Users -> what the user's request has checked so far]
    late,       \* history: users whose login inserted a session after their removal's revocation
    stale,      \* history: a handler wrote although what it had read had changed
    runs,       \* queued or running ingestion runs of the tenant
    producer,   \* control-api has a Kafka producer
    admin,      \* the platform admin's force-delete request
    deleter,    \* who holds the tenant's row for deletion, "-" for none
    tombstones, \* rb.tombstones.v1: the tenants to erase
    taken,      \* tombstones the tombstoner has fetched
    done,       \* tombstones it has committed
    doing,      \* the store it erases next, "-" when idle
    erased,     \* [tenants -> stores erased]
    failed,     \* the tombstones whose last handling failed
    qdrant,     \* the tombstoner has a QDRANT_URL
    requests, tenFaults

tenVars == <<role, session, tenant, call, late, stale, runs, producer, admin, deleter,
             tombstones, taken, done, doing, erased, failed, qdrant, requests, tenFaults>>
memberVars == <<role, session, call, late, stale, requests>>
deleteVars == <<tenant, runs, producer, admin, deleter, tombstones>>
eraserVars == <<taken, done, doing, erased, failed, qdrant>>

TenInit ==
    /\ role = [u \in Users |-> IF u = Owner THEN "owner" ELSE IF u = Admin THEN "admin" ELSE "none"]
    /\ session = [u \in Users |-> "none"]
    /\ tenant = "active" /\ runs = 1 /\ producer \in BOOLEAN
    /\ call = [u \in Users |-> Idle]
    /\ late = {} /\ stale = FALSE
    /\ admin = Idle /\ deleter = "-"
    /\ tombstones = <<>> /\ taken = 0 /\ done = 0 /\ doing = "-"
    /\ erased = [t \in {"shared", "other"} |-> {}]
    /\ failed = {} /\ qdrant \in BOOLEAN
    /\ requests = 0 /\ tenFaults = 0

Owners == {u \in Users : role[u] = "owner"}
TenantFault == tenFaults < MaxTenantFaults /\ tenFaults' = tenFaults + 1

\* Mutant: the membership is read without FOR SHARE.
NoSharedRow(v) == FALSE
\* v's membership row: read FOR SHARE by its switch_tenant, deleted by an open transaction.
SharedRow(v) == call[v].op = "switch"
Removing == {"removing", "revoking", "removed"}
DeletedRow(v) == \E u \in Users : call[u].op \in Removing /\ call[u].target = v
\* v's session row, updated by an open transaction.
RevokedRow(v) == \E u \in Users : call[u].op = "revoking" /\ call[u].target = v
Writable(v) == ~SharedRow(v) /\ ~DeletedRow(v)

----------------------------------------------------------------------------
(* The checks every member handler starts with: require_session, require_role.*)

Ops == {"invite", "update", "remove", "transfer", "delete"}
Minimum(op) == IF op \in {"transfer", "delete"} THEN "owner" ELSE "admin"

RequireRole(u, op, v) ==
    /\ call[u] = Idle /\ session[u] # "none"
    /\ requests < MaxRequests
    /\ Rank(role[u]) >= Rank(Minimum(op))
    /\ op = "transfer" => v # u
    /\ call' = [call EXCEPT ![u] = [op |-> op, target |-> v, mine |-> role[u], theirs |-> "?"]]
    /\ requests' = requests + 1
    /\ UNCHANGED <<role, session, late, stale, deleteVars, eraserVars, tenFaults>>

\* Mutant: the owner is not protected.
ReadAnyTarget(u) ==
    /\ call[u].op \in {"invite", "update", "remove", "transfer"} /\ call[u].theirs = "?"
    /\ LET theirs == role[call[u].target]
           fits == (call[u].op = "invite") <=> (theirs = "none")
       IN  call' = [call EXCEPT ![u] = IF fits THEN [@ EXCEPT !.theirs = theirs] ELSE Idle]
    /\ UNCHANGED <<role, session, late, stale, requests, deleteVars, eraserVars, tenFaults>>
\* An invited user is no member yet; the owner's role is not changed, nor is the
\* owner removed; ownership goes to a member.
ReadTarget(u) ==
    /\ call[u].op \in {"invite", "update", "remove", "transfer"} /\ call[u].theirs = "?"
    /\ LET theirs == role[call[u].target]
           fits == CASE call[u].op = "invite" -> theirs = "none"
                     [] call[u].op = "transfer" -> theirs # "none"
                     [] OTHER -> theirs \notin {"none", "owner"}
       IN  call' = [call EXCEPT ![u] = IF fits THEN [@ EXCEPT !.theirs = theirs] ELSE Idle]
    /\ UNCHANGED <<role, session, late, stale, requests, deleteVars, eraserVars, tenFaults>>

Ready(u, op) == call[u].op = op /\ call[u].theirs # "?" /\ Writable(call[u].target)
Changed(u) == role[u] # call[u].mine \/ role[call[u].target] # call[u].theirs

\* The insert fails on the primary key when the user has become a member meanwhile.
AddExistingUser(u) ==
    /\ Ready(u, "invite")
    /\ role' = [role EXCEPT ![call[u].target] = IF @ = "none" THEN "member" ELSE @]
    /\ stale' = (stale \/ Changed(u))
    /\ call' = [call EXCEPT ![u] = Idle]
    /\ UNCHANGED <<session, late, requests, deleteVars, eraserVars, tenFaults>>

UpdateMemberRole(u) ==
    /\ Ready(u, "update")
    /\ \E r \in {"member", "admin"} :
          role' = [role EXCEPT ![call[u].target] = IF @ = "none" THEN "none" ELSE r]
    /\ stale' = (stale \/ Changed(u))
    /\ call' = [call EXCEPT ![u] = Idle]
    /\ UNCHANGED <<session, late, requests, deleteVars, eraserVars, tenFaults>>

\* The transaction deletes the row, and holds it until it commits.
RemoveMember(u) ==
    /\ Ready(u, "remove")
    /\ stale' = (stale \/ Changed(u))
    /\ call' = [call EXCEPT ![u].op = "removing"]
    /\ UNCHANGED <<role, session, late, requests, deleteVars, eraserVars, tenFaults>>
\* Then it revokes the target's session, if there is one yet.
RemoveRevokes(u) ==
    /\ call[u].op = "removing"
    /\ call' = [call EXCEPT ![u].op = IF session[call[u].target] = "shared" THEN "revoking" ELSE "removed"]
    /\ UNCHANGED <<role, session, late, stale, requests, deleteVars, eraserVars, tenFaults>>
RemoveCommits(u) ==
    /\ call[u].op \in {"revoking", "removed"}
    /\ LET v == call[u].target
       IN  /\ role' = [role EXCEPT ![v] = "none"]
           /\ session' = IF call[u].op = "revoking" THEN [session EXCEPT ![v] = "none"] ELSE session
    /\ call' = [call EXCEPT ![u] = Idle]
    /\ UNCHANGED <<late, stale, requests, deleteVars, eraserVars, tenFaults>>

TransferOwnership(u) ==
    /\ Ready(u, "transfer") /\ Writable(u)
    /\ role' = [v \in Users |-> IF role[v] = "none" THEN "none"
                                ELSE IF v = u THEN "admin"
                                ELSE IF v = call[u].target THEN "owner" ELSE role[v]]
    /\ stale' = (stale \/ Changed(u))
    /\ call' = [call EXCEPT ![u] = Idle]
    /\ UNCHANGED <<session, late, requests, deleteVars, eraserVars, tenFaults>>

----------------------------------------------------------------------------
(* Sessions.                                                                 *)

\* login reads the first active tenant of the user, then inserts the session.
LoginReads(u) ==
    /\ call[u] = Idle /\ session[u] = "none"
    /\ LET here == u \in Homeless
       IN  /\ here => role[u] # "none" /\ tenant = "active"
           /\ call' = [call EXCEPT ![u] = [op |-> "login", to |-> IF here THEN "shared" ELSE "home"]]
    /\ UNCHANGED <<role, session, late, stale, requests, deleteVars, eraserVars, tenFaults>>
TooLate(u) == role[u] = "none" \/ \E v \in Users : call[v].op = "removed" /\ call[v].target = u
LoginInserts(u) ==
    /\ call[u].op = "login"
    /\ session' = [session EXCEPT ![u] = call[u].to]
    /\ late' = IF call[u].to = "shared" /\ TooLate(u) THEN late \cup {u} ELSE late \ {u}
    /\ call' = [call EXCEPT ![u] = Idle]
    /\ UNCHANGED <<role, stale, requests, deleteVars, eraserVars, tenFaults>>

Logout(u) ==
    /\ call[u] = Idle /\ session[u] # "none" /\ ~RevokedRow(u)
    /\ session' = [session EXCEPT ![u] = "none"]
    /\ UNCHANGED <<role, call, late, stale, requests, deleteVars, eraserVars, tenFaults>>

\* switch_tenant reads the membership and the tenant FOR SHARE, then moves the session.
SwitchTenant(u) ==
    /\ call[u] = Idle /\ session[u] = "home"
    /\ ~DeletedRow(u) /\ role[u] # "none"
    /\ deleter = "-" /\ tenant = "active"
    /\ call' = [call EXCEPT ![u] = [op |-> "switch"]]
    /\ UNCHANGED <<role, session, late, stale, requests, deleteVars, eraserVars, tenFaults>>
SwitchCommits(u) ==
    /\ call[u].op = "switch"
    /\ session' = [session EXCEPT ![u] = "shared"]
    /\ late' = late \ {u}
    /\ call' = [call EXCEPT ![u] = Idle]
    /\ UNCHANGED <<role, stale, requests, deleteVars, eraserVars, tenFaults>>

----------------------------------------------------------------------------
(* Deletion by the owner.                                                    *)

\* The tenant's row is free for a writer.
TenantRowFree == deleter = "-" /\ \A u \in Users : ~SharedRow(u)

\* UPDATE ... WHERE deleted_at IS NULL: it waits for the row, and hits none that is deleted.
LockTenant(who) ==
    /\ TenantRowFree
    /\ deleter' = IF tenant = "active" THEN who ELSE deleter

\* Neither deleted, nor without a producer, nor without a broker.
DeleteChecks(u) ==
    /\ call[u].op = "delete"
    /\ call' = [call EXCEPT ![u] = IF tenant = "active" /\ producer THEN [@ EXCEPT !.op = "checked"] ELSE Idle]
    /\ UNCHANGED <<role, session, late, stale, requests, deleteVars, eraserVars, tenFaults>>
DeleteTenant(u) ==
    /\ call[u].op = "checked"
    /\ LockTenant(u)
    /\ call' = [call EXCEPT ![u].op = "deleting"]
    /\ UNCHANGED <<role, session, late, stale, requests, tenant, runs, producer, admin,
                   tombstones, eraserVars, tenFaults>>

PublishTombstone(t) ==
    /\ Len(tombstones) < MaxTombstones
    /\ tombstones' = Append(tombstones, t)

\* What the transaction has written becomes visible, its row free.
CommitDeletion ==
    /\ tenant' = "deleting" /\ runs' = 0
    /\ deleter' = "-"

\* Mutant: the tombstone is left to a later step that may not come.
DeleteWithoutTombstone(u) ==
    /\ call[u].op = "deleting"
    /\ call' = [call EXCEPT ![u].op = "deleted"]
    /\ UNCHANGED <<role, session, late, stale, requests, deleteVars, eraserVars, tenFaults>>
DeletePublishes(u) ==
    /\ call[u].op = "deleting"
    /\ PublishTombstone("shared")
    /\ call' = [call EXCEPT ![u].op = "deleted"]
    /\ UNCHANGED <<role, session, late, stale, requests, tenant, runs, producer, admin, deleter,
                   eraserVars, tenFaults>>
DeleteCommits(u) ==
    /\ call[u].op = "deleted"
    /\ CommitDeletion
    /\ call' = [call EXCEPT ![u] = Idle]
    /\ UNCHANGED <<role, session, late, stale, requests, producer, admin, tombstones, eraserVars, tenFaults>>
\* Mutant: the handler returns, its transaction stays open.
DeleteLeavesOpen(u) ==
    /\ call[u].op \in {"deleting", "deleted"}
    /\ TenantFault
    /\ call' = [call EXCEPT ![u] = Idle]
    /\ UNCHANGED <<role, session, late, stale, requests, deleteVars, eraserVars>>
\* The publish or the commit fails: the transaction is rolled back.
DeleteRollsBack(u) ==
    /\ call[u].op \in {"deleting", "deleted"}
    /\ TenantFault
    /\ deleter' = "-"
    /\ call' = [call EXCEPT ![u] = Idle]
    /\ UNCHANGED <<role, session, late, stale, requests, tenant, runs, producer, admin,
                   tombstones, eraserVars>>

----------------------------------------------------------------------------
(* Deletion by a platform admin: a dry run gives a token with the hash of a  *)
(* snapshot; the second call, with the token, must see the same snapshot.    *)

FetchSnapshot ==
    [members |-> Cardinality({u \in Users : role[u] # "none"}),
     sessions |-> Cardinality({u \in Users : session[u] = "shared"}),
     runs |-> runs]

ForceDeletePhase1 ==
    /\ admin = Idle
    /\ admin' = [op |-> "token", hash |-> FetchSnapshot]
    /\ UNCHANGED <<memberVars, tenant, runs, producer, deleter, tombstones, eraserVars, tenFaults>>
ConfirmExpires ==
    /\ admin.op = "token"
    /\ admin' = [op |-> "over"]
    /\ UNCHANGED <<memberVars, tenant, runs, producer, deleter, tombstones, eraserVars, tenFaults>>
ForceChecks ==
    /\ admin.op = "token"
    /\ admin' = [op |-> IF FetchSnapshot = admin.hash THEN "checked" ELSE "over"]
    /\ UNCHANGED <<memberVars, tenant, runs, producer, deleter, tombstones, eraserVars, tenFaults>>
ForceDeletePhase2 ==
    /\ admin.op = "checked"
    /\ LockTenant("admin")
    /\ admin' = [op |-> "tx"]
    /\ UNCHANGED <<memberVars, tenant, runs, producer, tombstones, eraserVars, tenFaults>>
\* Without a producer the deletion is committed without a tombstone.
ForcePublishes ==
    /\ admin.op = "tx"
    /\ IF producer THEN PublishTombstone("shared") ELSE UNCHANGED tombstones
    /\ admin' = [op |-> "published"]
    /\ UNCHANGED <<memberVars, tenant, runs, producer, deleter, eraserVars, tenFaults>>
ForceCommits ==
    /\ admin.op = "published"
    /\ CommitDeletion
    /\ admin' = [op |-> "over"]
    /\ UNCHANGED <<memberVars, producer, tombstones, eraserVars, tenFaults>>
ForceRollsBack ==
    /\ admin.op \in {"tx", "published"}
    /\ TenantFault
    /\ deleter' = "-" /\ admin' = [op |-> "over"]
    /\ UNCHANGED <<memberVars, tenant, runs, producer, tombstones, eraserVars>>

----------------------------------------------------------------------------
(* The tombstoner: PG schema, Neo4j nodes, Qdrant points, then the offset.   *)
(* Without a QDRANT_URL it leaves the points where they are, and goes on.    *)

Configured == IF qdrant THEN Stores ELSE Stores \ {"qdrant"}

\* Another tenant of the platform is deleted.
OtherDeleted ==
    /\ tombstones # <<>> /\ "other" \notin {tombstones[k] : k \in DOMAIN tombstones}
    /\ PublishTombstone("other")
    /\ UNCHANGED <<memberVars, tenant, runs, producer, admin, deleter, eraserVars, tenFaults>>

TakeTombstone ==
    /\ doing = "-" /\ taken < Len(tombstones)
    /\ taken' = taken + 1 /\ doing' = "pg"
    /\ UNCHANGED <<memberVars, deleteVars, done, erased, failed, qdrant, tenFaults>>

\* Mutant: the handler returns after Neo4j.
ReturnsEarly(store) == IF store = "pg" THEN "neo4j" ELSE "-"
After(store) == CASE store = "pg" -> "neo4j" [] store = "neo4j" -> "qdrant" [] store = "qdrant" -> "commit"
HandleTombstone ==
    /\ doing \in Stores
    /\ erased' = [erased EXCEPT ![tombstones[taken]] = @ \cup ({doing} \cap Configured)]
    /\ doing' = After(doing)
    /\ UNCHANGED <<memberVars, deleteVars, taken, done, failed, qdrant, tenFaults>>
\* Mutant: the tombstone is committed whatever came of it.
CommitTaken ==
    /\ doing \in Stores \cup {"commit"}
    /\ done' = taken /\ doing' = IF doing = "commit" THEN "-" ELSE doing
    /\ UNCHANGED <<memberVars, deleteVars, taken, erased, failed, qdrant, tenFaults>>
CommitTombstone ==
    /\ doing = "commit"
    /\ done' = taken /\ doing' = "-"
    /\ UNCHANGED <<memberVars, deleteVars, taken, erased, failed, qdrant, tenFaults>>
\* A store that fails ends the handler, which goes on to the next tombstone; so does
\* a commit that fails.
TombstoneFails ==
    /\ doing # "-"
    /\ TenantFault
    /\ doing' = "-" /\ failed' = IF doing = "commit" THEN failed ELSE failed \cup {taken}
    /\ UNCHANGED <<memberVars, deleteVars, taken, done, erased, qdrant>>
\* What is not committed comes again.
TombstonerRestarts ==
    /\ TenantFault
    /\ taken' = done /\ doing' = "-" /\ failed' = failed \cap (1..done)
    /\ UNCHANGED <<memberVars, deleteVars, done, erased, qdrant>>

----------------------------------------------------------------------------
Members == \E u \in Users :
    \/ \E op \in Ops, v \in Users : RequireRole(u, op, v)
    \/ ReadTarget(u)
    \/ AddExistingUser(u) \/ UpdateMemberRole(u) \/ TransferOwnership(u)
    \/ RemoveMember(u) \/ RemoveRevokes(u) \/ RemoveCommits(u)
Sessions == \E u \in Users :
    LoginReads(u) \/ LoginInserts(u) \/ Logout(u) \/ SwitchTenant(u) \/ SwitchCommits(u)
OwnerDeletes == \E u \in Users :
    DeleteChecks(u) \/ DeleteTenant(u) \/ DeletePublishes(u) \/ DeleteCommits(u) \/ DeleteRollsBack(u)
AdminDeletes ==
    \/ ForceDeletePhase1 \/ ConfirmExpires \/ ForceChecks \/ ForceDeletePhase2
    \/ ForcePublishes \/ ForceCommits \/ ForceRollsBack
Erase == TakeTombstone \/ HandleTombstone \/ CommitTombstone

TenNext ==
    \/ Members \/ Sessions \/ OwnerDeletes \/ AdminDeletes
    \/ OtherDeleted \/ Erase \/ TombstoneFails \/ TombstonerRestarts

\* The tombstoner polls for ever; nobody need send a request.
TenSpec == TenInit /\ [][TenNext]_tenVars /\ WF_tenVars(Erase)

----------------------------------------------------------------------------
(* Properties.                                                               *)

\* Types of the tenant's state, and whose transaction is open.
TenTypeOK ==
    /\ role \in [Users -> Roles]
    /\ session \in [Users -> {"none", "home", "shared"}]
    /\ tenant \in {"active", "deleting"} /\ runs \in 0..1
    /\ late \subseteq Users /\ stale \in BOOLEAN
    /\ done \in 0..taken /\ taken \in 0..Len(tombstones)
    /\ doing \in Stores \cup {"-", "commit"}
    /\ erased \in [{"shared", "other"} -> SUBSET Configured] /\ failed \subseteq 1..taken
    /\ deleter # "-" => tenant = "active"
    /\ deleter # "-" => IF deleter = "admin" THEN admin.op \in {"tx", "published"}
                        ELSE call[deleter].op \in {"deleting", "deleted"}

\* A user who is removed has no live session left in the tenant, though he is
\* switching to it at that moment: FOR SHARE makes one wait for the other.
\* (A login that had read the membership before is not held up, and may insert its
\* session once the removal has revoked those it saw.)
NoSessionOutlivesMembership ==
    \A u \in Users \ late : session[u] = "shared" => role[u] # "none"

\* As long as no handler wrote on a role that had changed since it was read, the
\* tenant has one owner, through invitations, role changes, removals and transfers.
OneOwner == ~stale => Cardinality(Owners) = 1

\* A deleted tenant has its tombstone in the topic, whichever handler deleted it
\* and wherever that failed, if there is a producer at all.
EveryDeletionTombstoned ==
    (tenant = "deleting" /\ producer) => \E k \in DOMAIN tombstones : tombstones[k] = "shared"

\* A tombstone that is committed, or passed by a later one's commit, has been carried
\* out in every store the tombstoner is configured with, or a store failed at its last
\* handling; restarts do not matter.  (That it "will redeliver for retry" is true of a
\* failed one only if the tombstoner restarts before it is passed; and without a
\* QDRANT_URL the points stay, though the tombstone is committed.)
CommittedMeansErased ==
    \A k \in 1..done : k \in failed \/ erased[tombstones[k]] = Configured

\* Who is a member, and who owns the tenant, holds in every row that says so.
MembershipHolds == TenTypeOK /\ NoSessionOutlivesMembership /\ OneOwner

\* A deletion is in the topic, and committed there only once it is carried out.
DeletionIsCarriedOut == EveryDeletionTombstoned /\ CommittedMeansErased

\* A tenant that is deleted loses its data in every store the tombstoner is configured
\* with, and for good, unless a store failed at the last handling of each of its
\* tombstones; whatever fails and restarts in between.
DeletedIsErased ==
    (tenant = "deleting" /\ producer) ~>
        [](\/ erased["shared"] = Configured
           \/ \A k \in DOMAIN tombstones : tombstones[k] = "shared" => k \in failed)
=============================================================================
