------------------------------ MODULE Accounts ------------------------------
(* One e-mail address: signing up, verifying it, logging in under the login  *)
(* rate limiter, resetting the password, and the sessions that come of it.   *)
(* Requests of several clients interleave; a transaction that reads a token  *)
(* FOR UPDATE holds its row until it commits.                                *)
(*                                                                           *)
(* Bounds: MaxTokens e-mail tokens, MaxSessions sessions, MaxResets changes  *)
(* of the password; what is in the ten-minute window of the limiter does not *)
(* leave it.                                                                 *)
EXTENDS Naturals, FiniteSets

CONSTANTS Clients, MaxTokens, MaxSessions, MaxResets,
          FailureLimit,   \* five in the code
          AutoVerify      \* email_transport is console or noop

ASSUME AccountsAssumption ==
    /\ IsFiniteSet(Clients) /\ "-" \notin Clients /\ AutoVerify \in BOOLEAN /\ FailureLimit \in Nat \ {0}
    /\ {MaxTokens, MaxSessions, MaxResets} \subseteq Nat

NoRequest == [op |-> "idle"]
Tokens == 1..MaxTokens
SessionIds == 1..MaxSessions

VARIABLES
    account,    \* "none", or "signed_up": a row of control.users
    schema,     \* the tenant's schema is migrated
    verified,   \* email_verified_at is set
    password,   \* how often it was reset; a client knows some version of it
    token,      \* [1..n -> [kind, is]]: control.email_tokens
    holder,     \* [Tokens -> the client whose transaction locks its row, or "-"]
    sessions,    \* [1..n -> [password, is]]: control.sessions
    failures,   \* failed attempts in the limiter's window
    pending,       \* [Clients -> the request in hand]
    refreshing, \* sessions whose sliding refresh (get_me's task) is still to run
    logouts,    \* [SessionIds -> the logout rows of auth_events]
    uses,       \* history: [Tokens -> times it took effect]
    lateSessions,       \* history: sessions inserted by a login that had checked an older password,
                        \* after the reset or between its UPDATE of the sessions and its commit
    raced       \* history: a verification mail was issued while another was

accVars == <<account, schema, verified, password, token, holder, sessions, failures, pending,
             refreshing, logouts, uses, lateSessions, raced>>
userVars == <<account, schema, verified, password>>
tokenVars == <<token, holder, uses, raced>>
sessionVars == <<sessions, refreshing, lateSessions>>

AccInit ==
    /\ account = "none" /\ schema = FALSE /\ verified = FALSE /\ password = 0
    /\ token = <<>> /\ holder = [t \in Tokens |-> "-"]
    /\ sessions = <<>> /\ refreshing = {} /\ lateSessions = {}
    /\ failures = 0
    /\ pending = [c \in Clients |-> NoRequest]
    /\ logouts = [s \in SessionIds |-> 0]
    /\ uses = [t \in Tokens |-> 0] /\ raced = FALSE

Size(s) == Cardinality(DOMAIN s)
Add(s, x) == [k \in 1..(Size(s) + 1) |-> IF k <= Size(s) THEN s[k] ELSE x]
End(c) == pending' = [pending EXCEPT ![c] = NoRequest]
Usable(t) == token[t].is = "valid"
Free(t) == holder[t] = "-"
\* lookup_session: of a cookie whose session is neither revoked nor expired.
LiveSession(s) == sessions[s].is = "live"

----------------------------------------------------------------------------
(* signup                                                                    *)

\* The transaction finds no such e-mail.
SignupChecks(c) ==
    /\ pending[c] = NoRequest /\ account = "none"
    /\ pending' = [pending EXCEPT ![c] = [op |-> "signup"]]
    /\ UNCHANGED <<userVars, tokenVars, sessionVars, failures, logouts>>
\* User, tenant, membership, token and session at once; the e-mail is UNIQUE.
SignupCommits(c) ==
    /\ pending[c].op = "signup"
    /\ IF account = "none" /\ Size(token) < MaxTokens /\ Size(sessions) < MaxSessions
       THEN /\ account' = "signed_up"
            /\ token' = Add(token, [kind |-> "verify", is |-> "valid"])
            /\ sessions' = Add(sessions, [password |-> password, is |-> "live"])
            /\ pending' = [pending EXCEPT ![c] = [op |-> "migrate"]]
       ELSE End(c) /\ UNCHANGED <<account, token, sessions>>
    /\ UNCHANGED <<schema, verified, password, holder, uses, raced, refreshing, lateSessions, failures, logouts>>
\* migrate_tenant_schema runs after the commit; its failure leaves the account.
SignupMigrates(c) ==
    /\ pending[c].op = "migrate"
    /\ \/ schema' = TRUE /\ verified' = (verified \/ AutoVerify)
       \/ UNCHANGED <<schema, verified>>
    /\ End(c)
    /\ UNCHANGED <<account, password, tokenVars, sessionVars, failures, logouts>>

----------------------------------------------------------------------------
(* verify_email and reset_password: one transaction around SELECT ... FOR    *)
(* UPDATE of the token.  resend_verification expires the tokens before it.   *)

\* Mutant: the token is read without FOR UPDATE.
UseUnlocked(c, t, kind) ==
    /\ pending[c] = NoRequest
    /\ token[t].kind = kind /\ Usable(t)
    /\ pending' = [pending EXCEPT ![c] = [op |-> kind, token |-> t]]
    /\ UNCHANGED <<userVars, tokenVars, sessionVars, failures, logouts>>
UseToken(c, t, kind) ==
    /\ pending[c] = NoRequest /\ Free(t)
    /\ token[t].kind = kind /\ Usable(t)
    /\ holder' = [holder EXCEPT ![t] = c]
    /\ pending' = [pending EXCEPT ![c] = [op |-> kind, token |-> t]]
    /\ UNCHANGED <<userVars, token, uses, raced, sessionVars, failures, logouts>>
\* The row of the user, which a reset holds from its first UPDATE on.
UserFree == \A d \in Clients : pending[d].op # "revoke"
\* So does it hold the rows of the sessions that its UPDATE saw unrevoked.
SessionFree(s) == \A d \in Clients : pending[d].op = "revoke" => s \notin pending[d].seen
TakeEffect(c) ==
    LET t == pending[c].token
    IN  /\ token' = [token EXCEPT ![t].is = "used"]
        /\ holder' = [holder EXCEPT ![t] = "-"]
        /\ uses' = [uses EXCEPT ![t] = @ + 1]
        /\ End(c)
VerifyEmail(c) ==
    /\ pending[c].op = "verify" /\ UserFree
    /\ TakeEffect(c)
    /\ verified' = TRUE
    /\ UNCHANGED <<account, schema, password, raced, sessionVars, failures, logouts>>
ResetRevokes(c) ==
    /\ pending[c].op = "reset" /\ password < MaxResets /\ UserFree
    /\ pending' = [pending EXCEPT ![c] = [op |-> "revoke", token |-> pending[c].token,
                                         seen |-> {s \in DOMAIN sessions : sessions[s].is # "revoked"}]]
    /\ UNCHANGED <<userVars, tokenVars, sessionVars, failures, logouts>>
\* Mutant: the password is changed, the sessions stay.
ResetKeepsSessions(c) ==
    /\ pending[c].op = "revoke"
    /\ TakeEffect(c)
    /\ password' = password + 1
    /\ UNCHANGED <<account, schema, verified, raced, sessionVars, failures, logouts>>
\* The commit; a session opened since the UPDATE is not revoked.
ResetPassword(c) ==
    /\ pending[c].op = "revoke"
    /\ TakeEffect(c)
    /\ password' = password + 1
    /\ sessions' = [s \in DOMAIN sessions |-> IF s \in pending[c].seen
                                             THEN [sessions[s] EXCEPT !.is = "revoked"] ELSE sessions[s]]
    /\ lateSessions' = lateSessions \cup {s \in DOMAIN sessions \ pending[c].seen : sessions[s].is # "revoked"}
    /\ UNCHANGED <<account, schema, verified, raced, refreshing, failures, logouts>>
\* Mutant: an aborted request keeps the row.
AbortKeepsRow(c) ==
    /\ pending[c].op \in {"verify", "reset", "revoke"}
    /\ End(c)
    /\ UNCHANGED <<userVars, tokenVars, sessionVars, failures, logouts>>
Abort(c) ==
    /\ pending[c].op \in {"verify", "reset", "revoke"}
    /\ holder' = [holder EXCEPT ![pending[c].token] = "-"]
    /\ End(c)
    /\ UNCHANGED <<userVars, token, uses, raced, sessionVars, failures, logouts>>

\* Mutant: the tokens before it stay valid.
ResendKeepsOthers(c) ==
    /\ pending[c] = NoRequest /\ account = "signed_up" /\ ~verified /\ failures < FailureLimit
    /\ raced' = (raced \/ \E d \in Clients : pending[d].op = "resend")
    /\ pending' = [pending EXCEPT ![c] = [op |-> "resend"]]
    /\ UNCHANGED <<userVars, token, holder, uses, sessionVars, failures, logouts>>
\* The transaction expires the unused verify tokens it sees, waiting for those
\* in use, and will add one.
ResendExpires(c) ==
    /\ pending[c] = NoRequest /\ account = "signed_up" /\ ~verified /\ failures < FailureLimit
    /\ \A t \in DOMAIN token : token[t].kind = "verify" => Free(t)
    /\ token' = [t \in DOMAIN token |-> IF token[t].kind = "verify" /\ Usable(t)
                                        THEN [token[t] EXCEPT !.is = "expired"] ELSE token[t]]
    /\ raced' = (raced \/ \E d \in Clients : pending[d].op = "resend")
    /\ pending' = [pending EXCEPT ![c] = [op |-> "resend"]]
    /\ UNCHANGED <<userVars, holder, uses, sessionVars, failures, logouts>>
IssueToken(kind) ==
    /\ Size(token) < MaxTokens
    /\ token' = Add(token, [kind |-> kind, is |-> "valid"])
ResendVerification(c) ==
    /\ pending[c].op = "resend"
    /\ IssueToken("verify")
    /\ End(c)
    /\ UNCHANGED <<userVars, holder, uses, raced, sessionVars, failures, logouts>>
ForgotPassword(c) ==
    /\ pending[c] = NoRequest /\ account = "signed_up"
    /\ IssueToken("reset")
    /\ UNCHANGED <<userVars, holder, uses, raced, sessionVars, failures, pending, logouts>>
TokenExpires(t) ==
    /\ Usable(t) /\ Free(t)
    /\ token' = [token EXCEPT ![t].is = "expired"]
    /\ UNCHANGED <<userVars, holder, uses, raced, sessionVars, failures, pending, logouts>>

----------------------------------------------------------------------------
(* login: the limiter's check, the row and the password, the session.        *)

\* Mutant: a locked address is let through.
CheckNothing(c, right) ==
    /\ pending[c] = NoRequest
    /\ pending' = [pending EXCEPT ![c] = [op |-> "login", right |-> right]]
    /\ UNCHANGED <<userVars, tokenVars, sessionVars, failures, logouts>>
LoginCheck(c, right) ==
    /\ pending[c] = NoRequest
    /\ failures < FailureLimit
    /\ pending' = [pending EXCEPT ![c] = [op |-> "login", right |-> right]]
    /\ UNCHANGED <<userVars, tokenVars, sessionVars, failures, logouts>>
\* An operator has suspended the account: no attempt is recorded.
LoginSuspended(c) ==
    /\ pending[c].op = "login" /\ account = "signed_up" /\ pending[c].right
    /\ End(c)
    /\ UNCHANGED <<userVars, tokenVars, sessionVars, failures, logouts>>
\* A wrong password, or no such account: the limiter records the failure.
LoginRefused(c) ==
    /\ pending[c].op = "login" /\ (account = "none" \/ ~pending[c].right)
    /\ failures' = failures + 1
    /\ End(c)
    /\ UNCHANGED <<userVars, tokenVars, sessionVars, logouts>>
LoginVerifies(c) ==
    /\ pending[c].op = "login" /\ account = "signed_up" /\ pending[c].right /\ Size(sessions) < MaxSessions
    /\ failures' = 0
    /\ pending' = [pending EXCEPT ![c] = [op |-> "insert", password |-> password]]
    /\ UNCHANGED <<userVars, tokenVars, sessionVars, logouts>>
LoginOpens(c) ==
    /\ pending[c].op = "insert" /\ Size(sessions) < MaxSessions
    /\ sessions' = Add(sessions, [password |-> pending[c].password, is |-> "live"])
    /\ lateSessions' = IF pending[c].password # password THEN lateSessions \cup {Size(sessions) + 1} ELSE lateSessions
    /\ End(c)
    /\ UNCHANGED <<userVars, tokenVars, refreshing, failures, logouts>>

----------------------------------------------------------------------------
(* With a session.                                                           *)

LogoutReads(c, s) ==
    /\ pending[c] = NoRequest /\ LiveSession(s)
    /\ pending' = [pending EXCEPT ![c] = [op |-> "logout", sessions |-> s]]
    /\ UNCHANGED <<userVars, tokenVars, sessionVars, failures, logouts>>
\* Mutant: the UPDATE does not ask for revoked_at IS NULL.
LogoutAgain(c) ==
    /\ pending[c].op = "logout"
    /\ sessions' = [sessions EXCEPT ![pending[c].sessions].is = "revoked"]
    /\ logouts' = [logouts EXCEPT ![pending[c].sessions] = @ + 1]
    /\ End(c)
    /\ UNCHANGED <<userVars, tokenVars, refreshing, lateSessions, failures>>
LogOut(c) ==
    /\ pending[c].op = "logout" /\ SessionFree(pending[c].sessions)
    /\ LET s == pending[c].sessions
       IN  /\ sessions' = [sessions EXCEPT ![s].is = "revoked"]
           /\ logouts' = IF sessions[s].is = "revoked" THEN logouts ELSE [logouts EXCEPT ![s] = @ + 1]
    /\ End(c)
    /\ UNCHANGED <<userVars, tokenVars, refreshing, lateSessions, failures>>

\* get_me answers and leaves the sliding refresh to a task.
GetMe(c, s) ==
    /\ pending[c] = NoRequest /\ LiveSession(s) /\ verified
    /\ refreshing' = refreshing \cup {s}
    /\ UNCHANGED <<userVars, tokenVars, sessions, lateSessions, failures, pending, logouts>>
\* Mutant: the refresh rewrites the whole row.
RefreshRevives(s) ==
    /\ s \in refreshing
    /\ refreshing' = refreshing \ {s}
    /\ sessions' = [sessions EXCEPT ![s].is = "live"]
    /\ UNCHANGED <<userVars, tokenVars, lateSessions, failures, pending, logouts>>
Refresh(s) ==
    /\ s \in refreshing /\ SessionFree(s)
    /\ refreshing' = refreshing \ {s}
    /\ sessions' = [sessions EXCEPT ![s].is = IF @ = "expired" THEN "live" ELSE @]
    /\ UNCHANGED <<userVars, tokenVars, lateSessions, failures, pending, logouts>>
SessionExpires(s) ==
    /\ LiveSession(s)
    /\ sessions' = [sessions EXCEPT ![s].is = "expired"]
    /\ UNCHANGED <<userVars, tokenVars, refreshing, lateSessions, failures, pending, logouts>>

----------------------------------------------------------------------------
AccNext ==
    \/ \E c \in Clients :
        \/ SignupChecks(c) \/ SignupCommits(c) \/ SignupMigrates(c)
        \/ \E t \in DOMAIN token, kind \in {"verify", "reset"} : UseToken(c, t, kind)
        \/ VerifyEmail(c) \/ ResetRevokes(c) \/ ResetPassword(c) \/ Abort(c)
        \/ ResendExpires(c) \/ ResendVerification(c) \/ ForgotPassword(c)
        \/ \E right \in BOOLEAN : LoginCheck(c, right)
        \/ LoginSuspended(c) \/ LoginRefused(c) \/ LoginVerifies(c) \/ LoginOpens(c)
        \/ \E s \in DOMAIN sessions :
              LogoutReads(c, s) \/ GetMe(c, s)
        \/ LogOut(c)
    \/ \E t \in DOMAIN token : TokenExpires(t)
    \/ \E s \in DOMAIN sessions : Refresh(s) \/ SessionExpires(s)

AccSpec == AccInit /\ [][AccNext]_accVars

----------------------------------------------------------------------------
(* Properties.                                                               *)

\* Types of the account's state, and who holds which token's row.
AccTypeOK ==
    /\ account \in {"none", "signed_up"} /\ schema \in BOOLEAN /\ verified \in BOOLEAN
    /\ Size(token) <= MaxTokens /\ Size(sessions) <= MaxSessions
    /\ \A t \in Tokens : holder[t] # "-" =>
          pending[holder[t]].op \in {"verify", "reset", "revoke"} /\ pending[holder[t]].token = t
    /\ lateSessions \subseteq DOMAIN sessions /\ refreshing \subseteq DOMAIN sessions

\* A token of an e-mail takes effect once, though several requests bring it at once.
TokenUsedOnce == \A t \in Tokens : uses[t] <= 1

\* After a reset no session of the old password is live, except one whose login
\* had checked the password before and inserted its session after the reset had
\* looked for sessions; and no late refresh brings a revoked session back.
ResetEndsSessions ==
    \A s \in DOMAIN sessions \ lateSessions : sessions[s].is # "revoked" => sessions[s].password = password

\* Of the verification mails only the last one works, unless two resends overlap.
OneVerifyToken ==
    ~raced => Cardinality({t \in DOMAIN token : token[t].kind = "verify" /\ Usable(t)}) <= 1

\* A session is logged out once in auth_events, though the user does it from two
\* windows at once.
EndedOnce == \A s \in SessionIds : logouts[s] <= 1

\* Failures exceed FailureLimit by no more than the attempts that had passed the
\* check already: check and record_attempt are two calls.
AttemptsBounded == failures <= FailureLimit - 1 + Cardinality(Clients)

\* Tokens work once, sessions end when they must, guesses are limited, whatever
\* the requests of one account interleave.
AccountHolds ==
    AccTypeOK /\ TokenUsedOnce /\ ResetEndsSessions /\ OneVerifyToken /\ EndedOnce /\ AttemptsBounded
=============================================================================
