------------------------------- MODULE Limits -------------------------------
(* What control-api counts in memory.  The sliding windows: the failed       *)
(* logins of an address and the session creations of a tenant; the entries   *)
(* of a window are kept by their age in ticks, and a request that is refused *)
(* is told how long to wait.  The counters of a tenant: its live agent       *)
(* sessions and the tokens its query rewrites have spent, by threads that    *)
(* share a map.                                                              *)
(*                                                                           *)
(* Bounds: MaxAttempts logins and creations, MaxLive sessions, MaxRewrites   *)
(* rewrites.                                                                 *)
EXTENDS Naturals, Sequences, FiniteSets

CONSTANTS MAX_FAILURES, WINDOW, LOCKOUT,   \* of the login limiter
          MAX_CREATES, CREATE_WINDOW,      \* of the creations
          MaxAttempts

CONSTANTS MAX_SESSIONS,       \* max_sessions of a tenant
          BUDGET, MAX_COST,   \* the ceiling, and the most one rewrite costs
          Threads,
          MaxLive, MaxRewrites

ASSUME LimitsAssumption ==
    /\ {MAX_FAILURES, WINDOW, MAX_CREATES, CREATE_WINDOW} \subseteq Nat \ {0} /\ LOCKOUT \in Nat
    /\ WINDOW <= LOCKOUT /\ CREATE_WINDOW <= LOCKOUT

ASSUME CountersAssumption ==
    /\ MAX_SESSIONS \in Nat /\ MaxLive \in Nat
    /\ BUDGET \in Nat \ {0} /\ MAX_COST \in Nat
    /\ IsFiniteSet(Threads)

VARIABLES
    failed,     \* ages of the failures in the window, oldest first
    checked,    \* logins past the check whose password is being hashed
    creates,    \* ages of the creations in theirs, oldest first
    told,       \* [kind -> ticks the last refused client still waits, or NoWait]
    exact,      \* the last refused login met MAX_FAILURES failures, not more
    lockedFor,  \* ticks since the failures last reached MAX_FAILURES, or NoWait
    broken,     \* history: a login was let through before LOCKOUT ticks had passed
    attempts

limVars == <<failed, checked, creates, told, exact, lockedFor, broken, attempts>>

NoWait == LOCKOUT + 1

LimInit ==
    /\ failed = <<>> /\ checked = 0 /\ creates = <<>>
    /\ told = [k \in {"login", "create"} |-> NoWait] /\ exact = TRUE
    /\ lockedFor = NoWait /\ broken = FALSE /\ attempts = 0

AtLeast1(n) == IF n < 1 THEN 1 ELSE n
Oldest(ages) == Head(ages)
Failures == Len(failed)

----------------------------------------------------------------------------
(* LoginRateLimiter.                                                         *)

\* Mutant: the client is told to wait for the window to pass.
RetryAfterWindow == AtLeast1(WINDOW - 1 - Oldest(failed))
RetryAfter == AtLeast1(LOCKOUT - Oldest(failed))
Check ==
    /\ attempts < MaxAttempts
    /\ IF Failures >= MAX_FAILURES
       THEN told' = [told EXCEPT !["login"] = RetryAfter] /\ exact' = (Failures = MAX_FAILURES)
            /\ UNCHANGED <<checked, attempts, broken>>
       ELSE /\ checked' = checked + 1 /\ attempts' = attempts + 1
            /\ broken' = (broken \/ lockedFor < LOCKOUT)
            /\ UNCHANGED <<told, exact>>
    /\ UNCHANGED <<failed, creates, lockedFor>>
RecordAttempt(success) ==
    /\ checked > 0
    /\ checked' = checked - 1
    /\ IF success
       THEN failed' = <<>> /\ lockedFor' = NoWait /\ UNCHANGED told
       ELSE /\ failed' = Append(failed, 0)
            /\ lockedFor' = IF Failures + 1 >= MAX_FAILURES THEN 0 ELSE lockedFor
            /\ told' = [told EXCEPT !["login"] = NoWait]
    /\ UNCHANGED <<creates, exact, broken, attempts>>

(* SessionCreateRateLimiter: check and record in one call.                   *)
CreateRetryAfter == AtLeast1(CREATE_WINDOW - Oldest(creates))
CheckAndRecord ==
    /\ attempts < MaxAttempts
    /\ IF Len(creates) >= MAX_CREATES
       THEN told' = [told EXCEPT !["create"] = CreateRetryAfter] /\ UNCHANGED <<creates, attempts>>
       ELSE /\ creates' = Append(creates, 0) /\ attempts' = attempts + 1
            /\ told' = [told EXCEPT !["create"] = NoWait]
    /\ UNCHANGED <<failed, checked, exact, lockedFor, broken>>

\* What has left the window is no longer seen.
Aged(ages, window) ==
    LET gone == Cardinality({i \in DOMAIN ages : ages[i] + 1 >= window})
    IN  [i \in 1..Len(ages) - gone |-> ages[i + gone] + 1]
Older(n) == IF n >= LOCKOUT THEN n ELSE n + 1
ClockTicks ==
    /\ failed' = Aged(failed, WINDOW) /\ creates' = Aged(creates, CREATE_WINDOW)
    /\ told' = [k \in DOMAIN told |-> IF told[k] \in {0, NoWait} THEN told[k] ELSE told[k] - 1]
    /\ lockedFor' = Older(lockedFor)
    /\ UNCHANGED <<checked, exact, broken, attempts>>

----------------------------------------------------------------------------
LimNext ==
    \/ Check \/ (\E success \in BOOLEAN : RecordAttempt(success)) \/ CheckAndRecord \/ ClockTicks
LimSpec == LimInit /\ [][LimNext]_limVars

----------------------------------------------------------------------------
\* Who waits as long as the refusal said is let through; of the logins unless
\* another password proves wrong in between, or attempts in flight had brought
\* more failures than MAX_FAILURES, of which only the oldest is asked for.
WaitingSuffices ==
    /\ told["login"] = 0 /\ exact => Failures < MAX_FAILURES
    /\ told["create"] = 0 => Len(creates) < MAX_CREATES

\* LoginRateLimiter's comment: after MAX_FAILURES failures in the window the
\* address is locked out for LOCKOUT.
LockoutLasts == ~broken

----------------------------------------------------------------------------
VARIABLES
    entry,      \* the tenant's entry in TenantSessionCount, or Gone
    cleaning,   \* threads that brought it to zero, before remove_if
    live,       \* sessions of the tenant
    ended,      \* sessions so far
    spent,      \* TenantLlmTokenCounter
    rewrites,   \* rewrites past the budget check
    rewritten

cntVars == <<entry, cleaning, live, ended, spent, rewrites, rewritten>>
countVars == <<entry, cleaning, live, ended>>
spendVars == <<spent, rewrites, rewritten>>
Gone == MaxLive + 1

CntInit ==
    /\ entry = Gone /\ cleaning = {} /\ live = 0 /\ ended = 0
    /\ spent = 0 /\ rewrites = 0 /\ rewritten = 0

----------------------------------------------------------------------------
(* TenantSessionCount: try_increment holds the map's entry; decrement works  *)
(* under a read lock, lets go, and then removes the entry if it is zero.     *)

TryIncrement ==
    /\ ended + live < MaxLive
    /\ LET n == IF entry = Gone THEN 0 ELSE entry
       IN  IF n >= MAX_SESSIONS THEN entry' = n /\ UNCHANGED live ELSE entry' = n + 1 /\ live' = live + 1
    /\ UNCHANGED <<cleaning, ended, spendVars>>
Decrement(t) ==
    /\ live > 0 /\ t \notin cleaning
    /\ live' = live - 1 /\ ended' = ended + 1
    /\ IF entry \in {0, Gone} THEN UNCHANGED <<entry, cleaning>>
       ELSE entry' = entry - 1 /\ cleaning' = IF entry = 1 THEN cleaning \cup {t} ELSE cleaning
    /\ UNCHANGED <<spendVars>>
\* Mutant: the entry is removed whatever it has become.
RemoveEntry(t) ==
    /\ t \in cleaning
    /\ cleaning' = cleaning \ {t}
    /\ entry' = Gone
    /\ UNCHANGED <<live, ended, spendVars>>
RemoveIfZero(t) ==
    /\ t \in cleaning
    /\ cleaning' = cleaning \ {t}
    /\ entry' = IF entry = 0 THEN Gone ELSE entry
    /\ UNCHANGED <<live, ended, spendVars>>

----------------------------------------------------------------------------
(* The budget of query rewrites: tokens_used, the call, add_tokens.          *)

\* Mutant: the ceiling is not asked for.
NoBudget == TRUE
LlmBudgetAllows == spent < BUDGET
BeginRewrite ==
    /\ rewritten < MaxRewrites /\ rewrites < Cardinality(Threads)
    /\ LlmBudgetAllows
    /\ rewrites' = rewrites + 1 /\ rewritten' = rewritten + 1
    /\ UNCHANGED <<spent, countVars>>
AddTokens ==
    /\ rewrites > 0
    /\ rewrites' = rewrites - 1
    /\ \E n \in 0..MAX_COST : spent' = spent + n
    /\ UNCHANGED <<rewritten, countVars>>

----------------------------------------------------------------------------
CntNext ==
    \/ TryIncrement \/ (\E t \in Threads : Decrement(t) \/ RemoveIfZero(t))
    \/ BeginRewrite \/ AddTokens
CntSpec == CntInit /\ [][CntNext]_cntVars

----------------------------------------------------------------------------
\* The count is the tenant's live sessions, though an entry is removed while
\* another session starts.
CountExact == live = IF entry = Gone THEN 0 ELSE entry

\* The rewrites overspend the ceiling by no more than those that had passed the
\* check before it was reached.
BudgetBounded ==
    spent + rewrites * MAX_COST <= BUDGET - 1 + Cardinality(Threads) * MAX_COST

\* What control-api counts per tenant holds under every interleaving.
CountsHold == CountExact /\ BudgetBounded
=============================================================================
