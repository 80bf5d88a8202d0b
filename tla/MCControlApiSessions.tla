------------------------ MODULE MCControlApiSessions ------------------------
(* Two sessions of one tenant compete for the tenant's cap and for the slots *)
(* of the process.                                                           *)
EXTENDS ControlApiSessions, TLC

CONSTANTS s1, s2, t1

MCSessions == {s1, s2}
MCSession == {s1}
MCTenants == {t1}
MCTenantOf == [s \in MCSessions |-> t1]
MCTenantOf1 == [s \in MCSession |-> t1]

\* The sessions are interchangeable.
Symmetric == Permutations(MCSessions)
=============================================================================
