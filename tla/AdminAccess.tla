----------------------------- MODULE AdminAccess ----------------------------
(* The admin API of control-api: every call passes the token middleware,     *)
(* does its work in statements of its own, writes one audit row that may be  *)
(* lost, and is answered.  bootstrap creates the first platform admin,       *)
(* impersonate mints a token for a member of a tenant.                       *)
(*                                                                           *)
(* Bounds: the calls in Calls, one each; MaxLost audit rows lost.            *)
EXTENDS AuditTrail

CONSTANTS Calls, MaxLost
\* "signup" is who inserts a user outside the admin API.
ASSUME AdminAccessAssumption == "signup" \notin Calls

Emails == {"e1", "e2"}
VARIABLES
    users,      \* control.users: [email, by], by a call or a signup
    member,     \* TRUE: the user to impersonate is a member of the tenant
    adminCalls, \* call -> its step, operation, email and outcome
    auditLog,   \* auth.admin_audit_log: [call, action, outcome]
    lost        \* audit rows the database did not take

admVars == <<users, member, adminCalls, auditLog, lost>>

AdminInit ==
    /\ users = {} /\ member = TRUE /\ auditLog = {} /\ lost = 0
    /\ adminCalls = [c \in Calls |-> [step |-> "new", op |-> "none", email |-> "none", outcome |-> "none"]]

Move(c, step, outcome) == adminCalls' = [adminCalls EXCEPT ![c].step = step, ![c].outcome = outcome]
Ops == {"bootstrap", "impersonate"}

\* require_admin_token: a wrong token is refused without a row, a call without
\* an actor with one.
BadToken(c) ==
    /\ adminCalls[c].step = "new"
    /\ Move(c, "answered", "unauthorized")
    /\ UNCHANGED <<users, member, auditLog, lost>>
MissingActor(c) ==
    /\ adminCalls[c].step = "new"
    /\ Move(c, "audit", "denied")
    /\ UNCHANGED <<users, member, auditLog, lost>>
\* Email and password are looked at before anything else.
BadInput(c) ==
    /\ adminCalls[c].step = "new"
    /\ Move(c, "answered", "invalid")
    /\ UNCHANGED <<users, member, auditLog, lost>>
AdmitAdmin(c, op, email) ==
    /\ adminCalls[c].step = "new"
    /\ adminCalls' = [adminCalls EXCEPT ![c] = [step |-> "admitted", op |-> op, email |-> email, outcome |-> "none"]]
    /\ UNCHANGED <<users, member, auditLog, lost>>

\* bootstrap_admin: the count, the hash of the password, the insert.
CountUsers(c) ==
    /\ adminCalls[c].step = "admitted" /\ adminCalls[c].op = "bootstrap"
    /\ IF users # {} THEN Move(c, "audit", "denied") ELSE Move(c, "counted", "none")
    /\ UNCHANGED <<users, member, auditLog, lost>>
TakenEmail(c) == \E u \in users : u.email = adminCalls[c].email
\* Mutant: the row is written as soon as the count has let the call pass.
InsertUnderAudit(c) ==
    /\ adminCalls[c].step = "counted"
    /\ users' = IF TakenEmail(c) THEN users ELSE users \cup {[email |-> adminCalls[c].email, by |-> c]}
    /\ Move(c, "audit", "ok")
    /\ UNCHANGED <<member, auditLog, lost>>
\* The email is unique; an error of the insert leaves no audit row.
InsertAdmin(c) ==
    /\ adminCalls[c].step = "counted"
    /\ IF TakenEmail(c) THEN Move(c, "answered", "error") /\ UNCHANGED users
       ELSE Move(c, "audit", "ok") /\ users' = users \cup {[email |-> adminCalls[c].email, by |-> c]}
    /\ UNCHANGED <<member, auditLog, lost>>

\* impersonate: the member is looked up, the token minted.
CheckMember(c) ==
    /\ adminCalls[c].step = "admitted" /\ adminCalls[c].op = "impersonate"
    /\ IF member THEN Move(c, "audit", "ok") ELSE Move(c, "audit", "denied")
    /\ UNCHANGED <<users, member, auditLog, lost>>

\* write_audit_row, write_audit_denial: a failure is logged, the call goes on.
WriteAuditRow(c) ==
    /\ adminCalls[c].step = "audit"
    /\ \/ auditLog' = auditLog \cup {[call |-> c, op |-> adminCalls[c].op, outcome |-> adminCalls[c].outcome]} /\ UNCHANGED lost
       \/ lost < MaxLost /\ lost' = lost + 1 /\ UNCHANGED auditLog
    /\ Move(c, "answered", adminCalls[c].outcome)
    /\ UNCHANGED <<users, member>>

(* Outside the admin API: signups and changes of the membership.             *)
Signup(email) ==
    /\ \A u \in users : u.email # email
    /\ users' = users \cup {[email |-> email, by |-> "signup"]}
    /\ UNCHANGED <<member, adminCalls, auditLog, lost>>
LeaveTenant ==
    /\ member' = ~member
    /\ UNCHANGED <<users, adminCalls, auditLog, lost>>

AdminNext ==
    \/ \E c \in Calls : \/ BadToken(c) \/ MissingActor(c) \/ BadInput(c) \/ CountUsers(c) \/ InsertAdmin(c)
                        \/ CheckMember(c) \/ WriteAuditRow(c)
                        \/ \E op \in Ops, e \in Emails : AdmitAdmin(c, op, e)
    \/ \E e \in Emails : Signup(e)
    \/ LeaveTenant
AdminSpec == AdminInit /\ [][AdminNext]_admVars

----------------------------------------------------------------------------
\* What the log says happened: an "ok" of bootstrap has its user, a "denied"
\* none, and a call whose row was not lost has it before its answer.
AuditTellsTruth ==
    /\ \A r \in auditLog : r.op = "bootstrap" => ((r.outcome = "ok") <=> \E u \in users : u.by = r.call)
    /\ lost = 0 => \A u \in users : u.by \in Calls /\ adminCalls[u.by].step = "answered"
                                    => \E r \in auditLog : r.call = u.by /\ r.outcome = "ok"

\* Both trails tell the truth: in that of AuditTrail every event has its one row, and
\* what a row of the admins' log says of a call has happened.
AuditIsTrue == OneRowPerEvent /\ CommittedIsStored /\ AuditTellsTruth

\* bootstrap.rs:4, "Succeeds only once": two calls that count before either
\* inserts succeed both.
BootstrapsOnce == Cardinality({u \in users : u.by \in Calls}) <= 1
=============================================================================
