------------------------ MODULE GitHubInstallations ------------------------
(* One GitHub App installation and one repository of it, claimed by several  *)
(* tenants: the install flow and its callback, the webhook deliveries that   *)
(* tell what happened at GitHub, connecting the repository, and the platform *)
(* admin who moves the installation.  GitHub is external: it changes the     *)
(* installation, numbers a delivery per change, and delivers in any order.   *)
(*                                                                           *)
(* Bounds: MaxChanges deliveries of which one fails, MaxStates install       *)
(* tokens; one rebind is carried out and one tenant closes.                   *)
EXTENDS Naturals, FiniteSets

CONSTANTS Claimants,    \* tenants
          MaxInFlight,  \* requests between two statements
          MaxChanges, MaxStates

NoTenant == "-"
ASSUME GitHubAssumption == NoTenant \notin Claimants

VARIABLES
    remote,     \* at GitHub: "active", "suspended", "removed"; the repository is in its list
    listed,
    delivery,   \* [1..n -> [event, is]]: "sent", "handled", "failed", "suppressed",
                \* "resent" when it was handled and is delivered again
    replays,    \* deliveries in ReplayCache
    install,    \* the row of control.github_installations: [tenant, deleted, suspended]
    closing,    \* tenants that are deleting or deleted
    connected,  \* [Claimants -> "none", "connected" or "archived"]: control.repos
    statetok,   \* [1..n -> [tenant, is]]: control.github_install_states
    inflight,   \* requests between two statements: [op, tenant]
    excuses     \* history: what made the row differ from GitHub

ghVars == <<remote, listed, delivery, replays, install, closing, connected, statetok, inflight,
            excuses>>
atGitHub == <<remote, listed>>
webhookVars == <<delivery, replays>>
installVars == <<install, connected, statetok>>

GhInit ==
    /\ remote = "active" /\ listed = TRUE
    /\ delivery = <<[event |-> "created", is |-> "sent"]>> /\ replays = {}
    /\ install = [tenant |-> NoTenant, deleted |-> FALSE, suspended |-> FALSE]
    /\ closing = {}
    /\ connected = [t \in Claimants |-> "none"]
    /\ statetok = <<>>
    /\ inflight = {}
    /\ excuses = {}

Rows(s) == Cardinality(DOMAIN s)
AddRow(s, x) == [k \in 1..(Rows(s) + 1) |-> IF k <= Rows(s) THEN s[k] ELSE x]
Step(op, t) == [op |-> op, tenant |-> t]
InFlight(r) == Cardinality(inflight) < MaxInFlight /\ r \notin inflight /\ inflight' = inflight \cup {r}
Answered(r) == inflight' = inflight \ {r}
Known == install.tenant # NoTenant

----------------------------------------------------------------------------
(* GitHub.                                                                   *)

AtGitHub(event) ==
    /\ Rows(delivery) < MaxChanges
    /\ \/ event = "suspend" /\ remote = "active" /\ remote' = "suspended" /\ UNCHANGED listed
       \/ event = "unsuspend" /\ remote = "suspended" /\ remote' = "active" /\ UNCHANGED listed
       \/ event = "deleted" /\ remote # "removed" /\ remote' = "removed" /\ listed' = FALSE
       \/ event = "repos_removed" /\ remote = "active" /\ listed /\ listed' = FALSE /\ UNCHANGED remote
    /\ delivery' = AddRow(delivery, [event |-> event, is |-> "sent"])
    /\ UNCHANGED <<replays, installVars, closing, inflight, excuses>>
\* GitHub, or its user, delivers a delivery again, whatever came of it.
Redeliver(d) ==
    /\ delivery[d].is \in {"failed", "suppressed", "handled"}
    /\ delivery' = [delivery EXCEPT ![d].is = IF @ = "handled" THEN "resent" ELSE "sent"]
    /\ UNCHANGED <<atGitHub, replays, installVars, closing, inflight, excuses>>

----------------------------------------------------------------------------
(* github_webhook: the replay cache first, then the SQL of the event.        *)

\* Mutant: suspend writes an unclaimed installation's flag too.
FlaggedUnclaimed(event) ==
    CASE event = "created" -> [install EXCEPT !.deleted = FALSE, !.suspended = FALSE]
      [] event = "deleted" -> [install EXCEPT !.deleted = TRUE]
      [] OTHER -> install
\* Mutant: suspend and unsuspend are swapped.
FlaggedSwapped(event) ==
    CASE event = "deleted" -> [install EXCEPT !.deleted = Known]
      [] event \in {"suspend", "unsuspend"} /\ Known -> [install EXCEPT !.suspended = (event # "suspend")]
      [] OTHER -> install
\* Of the installation row, what an event writes: handle_installation_created
\* clears both flags; suspend and unsuspend leave a deleted row alone.
Flagged(event) ==
    CASE event = "created" -> [install EXCEPT !.deleted = FALSE, !.suspended = FALSE]
      [] event = "deleted" -> [install EXCEPT !.deleted = Known]
      [] event \in {"suspend", "unsuspend"} /\ Known /\ ~install.deleted ->
            [install EXCEPT !.suspended = (event = "suspend")]
      [] OTHER -> install
ArchiveRemoved ==
    [t \in Claimants |-> IF connected[t] = "connected" /\ install.tenant # NoTenant THEN "archived" ELSE connected[t]]

Handled(d) == delivery[d].is \in {"handled", "resent"}
\* No later delivery has been handled before.
Ordered(d) == \A e \in DOMAIN delivery : Handled(e) => e <= d
Webhook(d) ==
    /\ delivery[d].is \in {"sent", "resent"}
    /\ IF d \in replays
       THEN /\ delivery' = [delivery EXCEPT ![d].is = IF @ = "resent" THEN "handled" ELSE "suppressed"]
            /\ UNCHANGED <<replays, install, connected, excuses>>
       ELSE /\ replays' = replays \cup {d}
            /\ \/ /\ delivery' = [delivery EXCEPT ![d].is = "handled"]
                  /\ install' = Flagged(delivery[d].event)
                  /\ connected' = IF delivery[d].event = "repos_removed" THEN ArchiveRemoved ELSE connected
                  /\ excuses' = IF Ordered(d) THEN excuses ELSE excuses \cup {"reordered"}
               \* The SQL fails: 500, and the delivery stays in the cache.
               \/ /\ "failed" \notin excuses
                  /\ delivery' = [delivery EXCEPT ![d].is = IF @ = "resent" THEN "handled" ELSE "failed"]
                  /\ excuses' = excuses \cup {"failed"}
                  /\ UNCHANGED <<install, connected>>
    /\ UNCHANGED <<atGitHub, closing, statetok, inflight>>
\* Ten minutes, ten thousand deliveries, or a restart.
ReplayForgotten(d) ==
    /\ d \in replays
    /\ replays' = replays \ {d}
    /\ UNCHANGED <<atGitHub, delivery, installVars, closing, inflight, excuses>>

----------------------------------------------------------------------------
(* github_install_url and github_callback.                                   *)

GithubInstallUrl(t) ==
    /\ Rows(statetok) < MaxStates /\ t \notin closing
    /\ statetok' = AddRow(statetok, [tenant |-> t, is |-> "open"])
    /\ UNCHANGED <<atGitHub, webhookVars, install, connected, closing, inflight, excuses>>
StateExpires(k) ==
    /\ statetok[k].is = "open"
    /\ statetok' = [statetok EXCEPT ![k].is = "closed"]
    /\ UNCHANGED <<atGitHub, webhookVars, install, connected, closing, inflight, excuses>>
\* The UPDATE takes the token, then fetch_installation asks GitHub.
CallbackTakes(k) ==
    /\ statetok[k].is = "open"
    /\ statetok' = [statetok EXCEPT ![k].is = "closed"]
    /\ \/ /\ remote # "removed"
          /\ InFlight(Step("upsert", statetok[k].tenant))
       \/ UNCHANGED inflight
    /\ UNCHANGED <<atGitHub, webhookVars, install, connected, closing, excuses>>
Bound(t) == [tenant |-> t, deleted |-> FALSE, suspended |-> FALSE]
WritesOver == IF remote # "active" \/ \E d \in DOMAIN delivery : ~Handled(d)
              THEN excuses \cup {"callback"} ELSE excuses
\* INSERT ... ON CONFLICT DO UPDATE, when the row is this tenant's or there is none.
CallbackUpserts(r) ==
    /\ r.op = "upsert"
    /\ IF install.tenant \in {NoTenant, r.tenant}
       THEN install' = Bound(r.tenant) /\ excuses' = WritesOver /\ Answered(r)
       ELSE UNCHANGED <<install, excuses>> /\ inflight' = (inflight \ {r}) \cup {Step("reclaim", r.tenant)}
    /\ UNCHANGED <<atGitHub, webhookVars, connected, statetok, closing>>
\* Mutant: the reclaim does not look for repositories.
OrphanWithRepos == install.deleted \/ install.tenant \in closing
Orphan ==
    /\ install.deleted \/ install.tenant \in closing
    /\ \A t \in Claimants : connected[t] # "connected"
\* One statement under READ COMMITTED: what it finds reclaimable is what its snapshot
\* shows; the UPDATE asks only for the row's id.
AttemptOrphanReclaim(r) ==
    /\ r.op = "reclaim"
    /\ inflight' = (inflight \ {r}) \cup
          IF Known /\ install.tenant # r.tenant /\ Orphan THEN {Step("orphan", r.tenant)} ELSE {}
    /\ UNCHANGED <<atGitHub, webhookVars, installVars, closing, excuses>>
ReclaimUpdates(r) ==
    /\ r.op = "orphan"
    /\ install' = Bound(r.tenant)
    /\ excuses' = IF install.tenant = r.tenant \/ Orphan THEN WritesOver ELSE WritesOver \cup {"reclaim"}
    /\ Answered(r)
    /\ UNCHANGED <<atGitHub, webhookVars, connected, statetok, closing>>

----------------------------------------------------------------------------
(* list_available_repos and connect_repo.                                    *)

\* Mutant: the installation is looked up by its id alone.
UsableAnyTenant(t) == ~install.deleted /\ ~install.suspended /\ Known
UsableBy(t) == install.tenant = t /\ ~install.deleted /\ ~install.suspended
\* The row, then a token and the repository from GitHub.
ConnectReads(t) ==
    /\ t \notin closing
    /\ UsableBy(t) /\ remote = "active" /\ listed
    /\ InFlight(Step("connect", t))
    /\ UNCHANGED <<atGitHub, webhookVars, installVars, closing, excuses>>
\* UNIQUE (tenant_id, github_repo_id): an archived row is in the way as well.
ConnectRepo(r) ==
    /\ r.op = "connect"
    /\ LET t == r.tenant
       IN  /\ connected' = IF connected[t] = "none" THEN [connected EXCEPT ![t] = "connected"] ELSE connected
           /\ excuses' = IF UsableBy(t) /\ listed THEN excuses ELSE excuses \cup {"connect"}
    /\ Answered(r)
    /\ UNCHANGED <<atGitHub, webhookVars, install, statetok, closing>>

----------------------------------------------------------------------------
(* rebind_gh_install: the checks, then a plain UPDATE.                       *)

RebindReads(t) ==
    /\ "rebind" \notin excuses
    /\ t \notin closing /\ Known /\ ~install.deleted /\ install.tenant # t
    /\ InFlight(Step("rebind", t))
    /\ UNCHANGED <<atGitHub, webhookVars, installVars, closing, excuses>>
RebindGhInstall(r) ==
    /\ r.op = "rebind"
    /\ install' = [install EXCEPT !.tenant = r.tenant]
    /\ excuses' = excuses \cup {"rebind"}
    /\ Answered(r)
    /\ UNCHANGED <<atGitHub, webhookVars, connected, statetok, closing>>

TenantCloses(t) ==
    /\ closing = {}
    /\ closing' = closing \cup {t}
    /\ UNCHANGED <<atGitHub, webhookVars, installVars, inflight, excuses>>

----------------------------------------------------------------------------
GhNext ==
    \/ \E event \in {"suspend", "unsuspend", "deleted", "repos_removed"} : AtGitHub(event)
    \/ \E d \in DOMAIN delivery : Redeliver(d) \/ Webhook(d) \/ ReplayForgotten(d)
    \/ \E t \in Claimants : GithubInstallUrl(t) \/ TenantCloses(t)
    \/ \E k \in DOMAIN statetok : StateExpires(k)
    \/ \E k \in DOMAIN statetok : CallbackTakes(k)
    \/ \E t \in Claimants : ConnectReads(t) \/ RebindReads(t)
    \/ \E r \in inflight :
        \/ CallbackUpserts(r) \/ AttemptOrphanReclaim(r) \/ ReclaimUpdates(r)
        \/ ConnectRepo(r) \/ RebindGhInstall(r)

GhSpec == GhInit /\ [][GhNext]_ghVars

----------------------------------------------------------------------------
(* Properties.                                                               *)

\* The row of an unclaimed installation carries no flag, and only deliveries are cached.
GhTypeOK ==
    /\ remote \in {"active", "suspended", "removed"}
    /\ replays \subseteq DOMAIN delivery
    /\ ~Known => ~install.deleted /\ ~install.suspended

\* When every delivery has been handled, and however often the last one was handled
\* again, the row says what GitHub says; unless a delivery failed or was handled after a
\* later one (for the first time, or again once the replay cache had forgotten it), or a
\* callback cleared the flags of an installation that was not active or had deliveries
\* under way.
InstallationAgrees ==
    (/\ Known /\ \A d \in DOMAIN delivery : Handled(d)
     /\ excuses \cap {"failed", "reordered", "callback"} = {})
    => /\ install.deleted = (remote = "removed")
       /\ remote # "removed" => install.suspended = (remote = "suspended")

\* A connected repository belongs to the tenant of its installation, whatever
\* callbacks and reclaims interleave; a forced rebind leaves the repository with
\* the tenant before, and so may a connect that had read the row earlier and a reclaim
\* whose snapshot does not show the repository that is connected before it writes.
RepoFollowsInstallation ==
    excuses \cap {"rebind", "connect", "reclaim"} = {} =>
        \A t \in Claimants : connected[t] = "connected" => install.tenant = t
=============================================================================
