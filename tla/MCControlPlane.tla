--------------------------- MODULE MCControlPlane ---------------------------
(* The rows of control-api that several requests and pods change at once:    *)
(* runs, and tenants with their members.  A behaviour is one of one part; in *)
(* "erasure" the tombstoner has no QDRANT_URL, and only the platform admin   *)
(* deletes.                                                                  *)
EXTENDS IngestRuns, Tenants

VARIABLE part    \* the part a behaviour is of

Parts == {"runs", "tenants", "erasure"}

cpVars == <<part, runVars, tenVars>>

CpInit ==
    /\ part \in Parts
    /\ RunsInit /\ TenInit
    /\ part # "tenants" => producer
    /\ qdrant <=> part # "erasure"

CpNext ==
    \/ part = "runs" /\ RunsNext
       /\ UNCHANGED <<part, tenVars>>
    \/ part = "tenants" /\ TenNext
       /\ UNCHANGED <<part, runVars>>
    \/ part = "erasure" /\ (AdminDeletes \/ OtherDeleted \/ Erase \/ TombstoneFails \/ TombstonerRestarts)
       /\ UNCHANGED <<part, runVars>>

\* RunsFairness and the fairness of TenSpec, each in its own part.
CpFairness ==
    /\ \A p \in Pods : WF_runVars(part = "runs" /\ Reconcile(p))
    /\ WF_runVars(part = "runs" /\ Consume)
    /\ WF_tenVars(part # "runs" /\ Erase)

CpSpec == CpInit /\ [][CpNext]_cpVars /\ CpFairness

----------------------------------------------------------------------------
\* A run goes forward only: one that is queued is claimed by the reconciler of
\* some pod, one that has ended stays as it is (QueuedIsClaimed and
\* EndedStaysEnded of IngestRuns).
RunsGoForward == EndedStaysEnded /\ (part = "runs" => QueuedIsClaimed)

\* The data of a deleted tenant is erased (DeletedIsErased of Tenants).
DeletedTenantIsErased == part # "runs" => DeletedIsErased
=============================================================================
