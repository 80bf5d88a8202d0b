--------------------------- MODULE MCAgentRunner ---------------------------
(* Two sessions of one tenant, and one process more than sessions, so that a *)
(* crash or a redelivered Start can spawn again.                             *)
EXTENDS AgentRunner, TLC

CONSTANTS s1, s2, p1, p2, p3, t1

MCSessions == {s1, s2}
MCProcs == {p1, p2, p3}
MCProcs2 == {p1, p2}
MCSession == {s1}
MCNone == {}
MCTenants == {t1}
MCTenantOf == [s \in MCSessions |-> t1]

\* Sessions and processes are interchangeable (used without liveness).
Symmetric == Permutations(MCSessions) \cup Permutations(MCProcs)
=============================================================================
