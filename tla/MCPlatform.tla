----------------------------- MODULE MCPlatform -----------------------------
(* Parts of the platform that share no state with each other: GitHub         *)
(* installations, the GitHub App, its token cache, rate limits, counters,    *)
(* migrations, blob stores and accounts.  A behaviour is one of one part.    *)
EXTENDS GitHubInstallations, GitHubApp, TokenCache, Limits,
        Migrations, BlobStores, Accounts, TLC

VARIABLE part    \* the part a behaviour is of

Parts == {"installations", "app", "token", "limits", "counters", "migrations", "blobs", "accounts"}

\* Releases of the migrations: the second adds two, the third is a branch that
\* edited the first.
MCReleases ==
    LET M(v, c) == [version |-> v, checksum |-> c]
    IN  {{M(1, "a")}, {M(1, "a"), M(2, "b"), M(3, "c")}, {M(1, "x"), M(2, "b")}}

platVars == <<part, ghVars, appVars, tokVars, limVars, cntVars, migVars, blobVars, accVars>>

PlatInit ==
    /\ part \in Parts
    /\ GhInit /\ AppInit /\ TokInit /\ LimInit /\ CntInit /\ MigInit /\ BlobInit /\ AccInit
    /\ (part # "migrations") => /\ files = [p \in Runners |-> CHOOSE r \in Releases : Cardinality(r) = 1]
                                /\ wanted = [p \in Runners |-> [t \in KafkaTopics |-> "none"]]
    /\ (part # "blobs") => backend = "fs"

PlatNext ==
    \/ part = "installations" /\ GhNext
       /\ UNCHANGED <<part, appVars, tokVars, limVars, cntVars, migVars, blobVars, accVars>>
    \/ part = "app" /\ AppNext
       /\ UNCHANGED <<part, ghVars, tokVars, limVars, cntVars, migVars, blobVars, accVars>>
    \/ part = "token" /\ TokNext
       /\ UNCHANGED <<part, ghVars, appVars, limVars, cntVars, migVars, blobVars, accVars>>
    \/ part = "limits" /\ LimNext
       /\ UNCHANGED <<part, ghVars, appVars, tokVars, cntVars, migVars, blobVars, accVars>>
    \/ part = "counters" /\ CntNext
       /\ UNCHANGED <<part, ghVars, appVars, tokVars, limVars, migVars, blobVars, accVars>>
    \/ part = "migrations" /\ MigNext
       /\ UNCHANGED <<part, ghVars, appVars, tokVars, limVars, cntVars, blobVars, accVars>>
    \/ part = "blobs" /\ BlobNext
       /\ UNCHANGED <<part, ghVars, appVars, tokVars, limVars, cntVars, migVars, accVars>>
    \/ part = "accounts" /\ AccNext
       /\ UNCHANGED <<part, ghVars, appVars, tokVars, limVars, cntVars, migVars, blobVars>>

PlatSpec == PlatInit /\ [][PlatNext]_platVars

\* GitHub's tenants are told apart by nothing but their rows.
ClaimantSymmetry == Permutations(Claimants)

----------------------------------------------------------------------------
\* What control-api stores of GitHub agrees with GitHub and with itself: the
\* installations, the repositories of their tenants, the App and its loaders.
GitHubAgrees ==
    GhTypeOK /\ InstallationAgrees /\ RepoFollowsInstallation /\ OneActiveApp /\ LoaderIsActive

\* An account is safe from whoever holds an old link, an old session or the
\* wrong password (AccountHolds of Accounts, WaitingSuffices of Limits).
LoginsHold == AccountHolds /\ WaitingSuffices
=============================================================================
