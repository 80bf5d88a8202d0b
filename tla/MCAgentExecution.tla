-------------------------- MODULE MCAgentExecution --------------------------
(* One session.  One process is enough: a second one is spawned only after the *)
(* session's Start is read again, which the invariants except.                 *)
EXTENDS AgentExecution

CONSTANTS s1, p1, t1

MCSessions == {s1}
MCProcs == {p1}
MCNone == {}
MCTenants == {t1}
MCSucceed == {TRUE}
MCEither == BOOLEAN
MCTenantOf == [s \in MCSessions |-> t1]
=============================================================================
