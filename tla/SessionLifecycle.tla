-------------------------- MODULE SessionLifecycle --------------------------
(***************************************************************************)
(* What control-api promises of an agent session, whatever happens to its  *)
(* handlers: it is live, then it has ended, then it may be gone; its end   *)
(* is announced at most once; and its API key, once revoked or deleted, is *)
(* never valid again.  ControlApiSessions implements this (see             *)
(* LifecycleImplemented there).                                            *)
(***************************************************************************)
EXTENDS Naturals

CONSTANT Sessions

VARIABLES
    phase,      \* absent, live, ended, gone
    access,     \* what the session's key is good for: none yet, valid, void
    announced   \* terminal lifecycle events that clients can read

lifecycleVars == <<phase, access, announced>>

Init ==
    /\ phase = [s \in Sessions |-> "absent"]
    /\ access = [s \in Sessions |-> "none"]
    /\ announced = [s \in Sessions |-> 0]

\* The session and its key appear together.
Open(s) ==
    /\ phase[s] = "absent"
    /\ access[s] = "none"
    /\ phase' = [phase EXCEPT ![s] = "live"]
    /\ access' = [access EXCEPT ![s] = "valid"]
    /\ UNCHANGED announced

End(s) ==
    /\ phase[s] = "live"
    /\ phase' = [phase EXCEPT ![s] = "ended"]
    /\ UNCHANGED <<access, announced>>

Announce(s) ==
    /\ phase[s] \in {"ended", "gone"}
    /\ announced[s] = 0
    /\ announced' = [announced EXCEPT ![s] = 1]
    /\ UNCHANGED <<phase, access>>

\* The session is withdrawn because it could not be started.
Withdraw(s) ==
    /\ phase[s] \in {"live", "ended"}
    /\ phase' = [phase EXCEPT ![s] = "gone"]
    /\ UNCHANGED <<access, announced>>

\* The key is made void together with whatever else happens.
Void(s) ==
    /\ access[s] = "valid"
    /\ access' = [access EXCEPT ![s] = "void"]
    /\ UNCHANGED <<phase, announced>>

Next == \E s \in Sessions : Open(s) \/ End(s) \/ Announce(s) \/ Withdraw(s) \/ Void(s)

Spec == Init /\ [][Next]_lifecycleVars
=============================================================================
