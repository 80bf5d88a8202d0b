---------------------------- MODULE SoakHarness ----------------------------
(* synthetic-load: a harness that keeps a pool of tenants under load for     *)
(* days.  Its state is saved on a timer; it is stopped, crashes, and resumes *)
(* from the file.  Tenants are provisioned and rotated by chains of requests,*)
(* each of which may fail, against accounts that outlive the harness.        *)
(*                                                                           *)
(* Bounds: the clock up to MaxSoakClock, the slots 0..MaxSlot, a pool of     *)
(* TenantCount; one hour of the resume limit and the five minutes of the     *)
(* catastrophe are ResumeGapLimit and CatastrophicFailure ticks.             *)
EXTENDS Naturals, Sequences, FiniteSets, SequencesExt

CONSTANTS TenantCount, MaxSlot, MaxSoakClock, ResumeGapLimit, CatastrophicFailure
ASSUME SoakAssumption == MaxSlot \in Nat /\ ResumeGapLimit \in Nat /\ CatastrophicFailure \in Nat

Slots == 0..MaxSlot
Idle == [slot |-> MaxSlot + 1, step |-> "idle", for |-> "-"]

VARIABLES
    accounts,  \* slot -> the account of its email: "none", "unverified", "verified", "deleted"
    mem,       \* HarnessState: pool, next slot, start of the soak, last checkpoint, run number
    disk,      \* harness-state.json, or {} before the first save
    phase,     \* "down", "filling", "running", "catastrophe"
    job,       \* the provisioning or rotation under way
    workers,   \* the tenants some worker is running for
    since,     \* db_unavailable_since, 0 when unset
    lastUp,    \* last time the harness was started or saw a service up
    alive,     \* last time the harness was running
    longest,   \* longest downtime since the start of the soak
    soakClock

soakVars == <<accounts, mem, disk, phase, job, workers, since, lastUp, alive, longest, soakClock>>
Fresh == [pool |-> <<>>, next |-> 0, start |-> soakClock, saved |-> soakClock, run |-> 1]

SoakInit ==
    /\ accounts = [s \in Slots |-> "none"]
    /\ mem = [pool |-> <<>>, next |-> 0, start |-> 1, saved |-> 1, run |-> 1]
    /\ disk = {} /\ phase = "down" /\ job = Idle /\ workers = {}
    /\ since = 0 /\ lastUp = 1 /\ alive = 1 /\ longest = 0 /\ soakClock = 1

----------------------------------------------------------------------------
(* load_or_new and save.                                                     *)

\* Mutant: the checkpoint is renewed before the gap is measured.
ResumeRenewed(s) == [s EXCEPT !.saved = soakClock]
Resume(s) ==
    IF soakClock - s.saved > ResumeGapLimit THEN [s EXCEPT !.start = soakClock, !.run = @ + 1, !.saved = soakClock]
    ELSE [s EXCEPT !.saved = soakClock]
LoadOrNew == IF disk = {} THEN Fresh ELSE Resume(CHOOSE s \in disk : TRUE)
Start ==
    /\ phase = "down" /\ phase' = "filling"
    /\ mem' = LoadOrNew
    /\ longest' = IF mem'.start = soakClock THEN 0 ELSE IF soakClock - alive > longest THEN soakClock - alive ELSE longest
    /\ lastUp' = soakClock /\ alive' = soakClock /\ since' = 0
    /\ UNCHANGED <<accounts, disk, job, workers, soakClock>>

\* Written to a temporary file and renamed; a failure is only logged.
Saved == mem' = [mem EXCEPT !.saved = soakClock] /\ (disk' = {mem'} \/ disk' = disk)
Checkpoint ==
    /\ phase = "running" /\ job = Idle /\ Saved
    /\ UNCHANGED <<accounts, phase, job, workers, since, lastUp, alive, longest, soakClock>>
\* Signal, end of the soak, an error of run or a catastrophe: save, and exit.
Stop ==
    /\ phase \in {"running", "catastrophe"} /\ job = Idle /\ Saved
    /\ phase' = "down" /\ workers' = {}
    /\ UNCHANGED <<accounts, job, since, lastUp, alive, longest, soakClock>>
SoakCrash ==
    /\ phase # "down" /\ phase' = "down" /\ job' = Idle /\ workers' = {}
    /\ UNCHANGED <<accounts, mem, disk, since, lastUp, alive, longest, soakClock>>

----------------------------------------------------------------------------
(* ensure_tenant_pool, provision and the workers.                            *)

Begin(for) == [slot |-> mem.next, step |-> "signup", for |-> for]
EnsureTenantPool ==
    /\ phase = "filling" /\ job = Idle
    /\ IF Len(mem.pool) >= TenantCount THEN phase' = "running" /\ job' = job
       ELSE mem.next <= MaxSlot /\ phase' = phase /\ job' = Begin("fill")
    /\ UNCHANGED <<accounts, mem, disk, workers, since, lastUp, alive, longest, soakClock>>
ProvisionOnly ==   \* the command ends after the pool is full and saves nothing
    /\ phase = "filling" /\ job = Idle /\ Len(mem.pool) >= TenantCount
    /\ phase' = "down"
    /\ UNCHANGED <<accounts, mem, disk, job, workers, since, lastUp, alive, longest, soakClock>>

\* The email of the slot is taken once the signup was stored.
SoakSignup ==
    /\ job.step = "signup" /\ accounts[job.slot] = "none"
    /\ accounts' = [accounts EXCEPT ![job.slot] = "unverified"]
    /\ job' = [job EXCEPT !.step = "verify"]
    /\ UNCHANGED <<mem, disk, phase, workers, since, lastUp, alive, longest, soakClock>>
VerifyEmail ==
    /\ job.step = "verify"
    /\ accounts' = [accounts EXCEPT ![job.slot] = "verified"]
    /\ job' = [job EXCEPT !.step = "login"]
    /\ UNCHANGED <<mem, disk, phase, workers, since, lastUp, alive, longest, soakClock>>
\* Mutant: the slot stays the next one.
ProvisionedSameSlot ==
    /\ job.step = "login"
    /\ mem' = [mem EXCEPT !.pool = Append(@, job.slot)]
    /\ job' = Idle
    /\ UNCHANGED <<accounts, disk, phase, workers, since, lastUp, alive, longest, soakClock>>
Provisioned ==
    /\ job.step = "login"
    /\ mem' = [mem EXCEPT !.pool = Append(@, job.slot), !.next = job.slot + 1]
    /\ job' = Idle
    /\ UNCHANGED <<accounts, disk, phase, workers, since, lastUp, alive, longest, soakClock>>
\* Any request may fail; while the pool is filled that ends the harness, which
\* saves, and in a rotation it is logged.  The slot stays the next one.
ProvisionFails ==
    /\ job.step \in {"signup", "verify", "login"} /\ job' = Idle
    /\ IF job.for = "fill" THEN phase' = "down" /\ Saved /\ workers' = {} ELSE UNCHANGED <<phase, mem, disk, workers>>
    /\ UNCHANGED <<accounts, since, lastUp, alive, longest, soakClock>>
\* A worker that cannot log in ends; nothing ends the workers of a tenant that
\* was rotated out.
SpawnWorkers(s) ==
    /\ phase = "running" /\ s \in ToSet(mem.pool) /\ s \notin workers /\ accounts[s] = "verified"
    /\ workers' = workers \cup {s}
    /\ UNCHANGED <<accounts, mem, disk, phase, job, since, lastUp, alive, longest, soakClock>>

ForceDelete ==
    /\ phase = "running" /\ job = Idle /\ mem.pool # <<>> /\ mem.next <= MaxSlot
    /\ accounts' = [accounts EXCEPT ![Head(mem.pool)] = "deleted"]
    /\ job' = [Idle EXCEPT !.step = "remove"]
    /\ UNCHANGED <<mem, disk, phase, workers, since, lastUp, alive, longest, soakClock>>
RotateOldestTenant ==
    /\ job.step = "remove"
    /\ mem' = [mem EXCEPT !.pool = Tail(@)] /\ job' = Begin("rotate")
    /\ UNCHANGED <<accounts, disk, phase, workers, since, lastUp, alive, longest, soakClock>>

----------------------------------------------------------------------------
(* The health gate.  up: all, some or none of the services answered.         *)

\* Mutant: only a check without failures ends the outage.
SinceAllUp(up) == CASE up = "none" /\ since = 0 -> soakClock [] up = "all" -> 0 [] OTHER -> since
Since(up) == CASE up = "none" /\ since = 0 -> soakClock [] up = "none" -> since [] OTHER -> 0
HealthCheck(up) ==
    /\ phase = "running" /\ job = Idle
    /\ since' = Since(up)
    /\ lastUp' = IF up = "none" THEN lastUp ELSE soakClock
    /\ phase' = IF since' # 0 /\ soakClock - since' > CatastrophicFailure THEN "catastrophe" ELSE phase
    /\ UNCHANGED <<accounts, mem, disk, job, workers, alive, longest, soakClock>>

SoakTick ==
    /\ soakClock < MaxSoakClock /\ soakClock' = soakClock + 1
    /\ alive' = IF phase = "down" THEN alive ELSE soakClock + 1
    /\ UNCHANGED <<accounts, mem, disk, phase, job, workers, since, lastUp, longest>>

SoakNext ==
    \/ Start \/ Checkpoint \/ Stop \/ SoakCrash \/ EnsureTenantPool \/ ProvisionOnly \/ SoakSignup \/ VerifyEmail
    \/ Provisioned \/ ProvisionFails \/ ForceDelete \/ RotateOldestTenant \/ SoakTick
    \/ \E s \in Slots : SpawnWorkers(s)
    \/ \E up \in {"all", "some", "none"} : HealthCheck(up)
SoakSpec == SoakInit /\ [][SoakNext]_soakVars

----------------------------------------------------------------------------
\* Since the soak began the harness was never down for longer than the limit,
\* through crashes, failed saves and restarts.
SoakUnbroken == longest <= ResumeGapLimit
\* The harness gives up only if it saw no service up for the whole window.
CatastropheIsLasting == phase = "catastrophe" => soakClock - lastUp > CatastrophicFailure
\* No slot is in the pool twice, every tenant of the pool was provisioned to the
\* end, and the next slot is above them all, also after a resume.
PoolIsProvisioned ==
    phase # "down" => /\ IsInjective(mem.pool)
                      /\ \A s \in ToSet(mem.pool) : s < mem.next /\ accounts[s] \in {"verified", "deleted"}
\* What the harness reports of a soak is what it saw, and with whole tenants.
SoakIsTrue == SoakUnbroken /\ CatastropheIsLasting /\ PoolIsProvisioned
\* A pool that is short can be filled: the next slot's account does not exist
\* (violated: a provisioning that failed halfway, a crash before the save, and
\* the provision command leave the account and not the slot).
NextSlotIsFree == (phase = "filling" /\ job = Idle /\ mem.next <= MaxSlot) => accounts[mem.next] = "none"
=============================================================================
