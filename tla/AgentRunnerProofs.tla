------------------------- MODULE AgentRunnerProofs -------------------------
(***************************************************************************)
(* Theorems of AgentRunner, for every set of sessions, tenants and         *)
(* processes, every cap, and whichever Starts come again.                  *)
(*                                                                         *)
(* Every property follows from RunnerIndInv.  Its parts are kept one by    *)
(* one: types; Shape, where a process, its watcher and its handle can be   *)
(* at the same time; OneProcess, which Shape's account of the handle and   *)
(* a session's single Start give; PermitInv, the balance of node permits;  *)
(* SlotInv, the tenant's count against the sessions that hold a slot.      *)
(***************************************************************************)
EXTENDS AgentRunner, FiniteSetTheorems, TLAPS

-----------------------------------------------------------------------------
(* One lemma for each part of the invariant. *)

\* Each step stores a value of the right type.  Shape is needed where a step indexes a
\* function with the command's session or process.
LEMMA TypeStep == RunnerTypeOK /\ Shape /\ [RunnerNext]_runnerVars => RunnerTypeOK'
<1> SUFFICES ASSUME RunnerTypeOK, Shape, [RunnerNext]_runnerVars PROVE RunnerTypeOK'
  OBVIOUS
<1> USE RunnerSets, RunnerCaps
    DEF RunnerTypeOK, CommandPCs, WaiterPCs, Shape, Goto, procs, caps
<1>1. ASSUME NEW op \in {"start", "terminate", "input"}, NEW s \in Sessions, Deliver(op, s)
      PROVE  RunnerTypeOK'
  BY <1>1 DEF Deliver
<1>2. CASE StartRejected
  BY <1>2 DEF StartRejected
<1>3. CASE Acquire
  BY <1>3 DEF Acquire
<1>4. CASE SpawnFails
  BY <1>4 DEF SpawnFails, Release, Call, Requests
<1>5. ASSUME NEW p \in Procs, Spawn(p) PROVE RunnerTypeOK'
  <2>1. /\ proc' \in [Procs -> {"unused", "alive", "exited"}]
        /\ sess' \in [Procs -> Sessions \cup {None}]
        /\ cmd' \in [pc : CommandPCs, session : Sessions \cup {None}, proc : Procs \cup {None}]
    BY <1>5 DEF Spawn
  <2>2. calls' \subseteq [session : Sessions, request : Requests]
    BY <1>5 DEF Spawn, Call, Requests
  <2> QED
    BY <1>5, <2>1, <2>2 DEF Spawn
<1>6. CASE SpawnWatcher
  BY <1>6 DEF SpawnWatcher
<1>7. CASE InsertHandle
  BY <1>7 DEF InsertHandle
<1>8. CASE TerminateRemove
  <2> DEFINE p == handle[cmd.session]
  <2>1. cmd.session \in Sessions /\ p \in Procs
    BY <1>8 DEF TerminateRemove
  <2>2. /\ handle' \in [Sessions -> Procs \cup {None}]
        /\ cmd' \in [pc : CommandPCs, session : Sessions \cup {None}, proc : Procs \cup {None}]
    BY <1>8, <2>1 DEF TerminateRemove
  <2>3. waiter' \in [Procs -> WaiterPCs] /\ child' \in [Procs -> {"held", "watched", "dropped"}]
    BY <1>8, <2>1 DEF TerminateRemove
  <2>4. count' \in [Tenants -> Nat]
    BY <1>8, <2>1 DEF TerminateRemove, Release
  <2> QED
    BY <1>8, <2>2, <2>3, <2>4 DEF TerminateRemove
<1>9. CASE TerminateUnknown
  BY <1>9 DEF TerminateUnknown
<1>10. CASE TerminateKill
  BY <1>10 DEF TerminateKill, Call, Requests
<1>11. CASE TerminateRevoke
  BY <1>11 DEF TerminateRevoke, Call, Requests
<1>12. CASE InputSent
  BY <1>12 DEF InputSent
<1>13. CASE InputFails
  BY <1>13 DEF InputFails
<1>14. CASE CommandFails
  BY <1>14 DEF CommandFails, Call, Requests
<1>15. CASE Commit
  BY <1>15 DEF Commit, Idle
<1>16. ASSUME NEW p \in Procs, TakeChild(p) PROVE RunnerTypeOK'
  BY <1>16 DEF TakeChild
<1>17. ASSUME NEW p \in Procs, NEW status \in {"terminated", "failed"}, ClaimExit(p, status)
       PROVE  RunnerTypeOK'
  BY <1>17 DEF ClaimExit, Release, Call, Requests
<1>18. ASSUME NEW p \in Procs, IgnoreExit(p) PROVE RunnerTypeOK'
  BY <1>18 DEF IgnoreExit
<1>19. ASSUME NEW p \in Procs, ReportRevoke(p) PROVE RunnerTypeOK'
  BY <1>19 DEF ReportRevoke, Call, Requests
<1>20. ASSUME NEW p \in Procs, ProcessExits(p) PROVE RunnerTypeOK'
  BY <1>20 DEF ProcessExits
<1>21. ASSUME NEW c \in calls, CallEnds(c) PROVE RunnerTypeOK'
  BY <1>21 DEF CallEnds
<1>22. CASE RunnerCrash
  BY <1>22 DEF RunnerCrash, Idle
<1>23. CASE UNCHANGED runnerVars
  BY <1>23 DEF runnerVars
<1> HIDE DEF RunnerTypeOK, CommandPCs, WaiterPCs, Shape, Goto, procs, caps
<1> QED
  BY <1>1, <1>2, <1>3, <1>4, <1>5, <1>6, <1>7, <1>8, <1>9, <1>10, <1>11, <1>12, <1>13,
     <1>14, <1>15, <1>16, <1>17, <1>18, <1>19, <1>20, <1>21, <1>22, <1>23
     DEF RunnerNext, HandleCommand, StartSession, TerminateSession, SendInput, Watch

\* A handle points to a process of its session, whose watcher was neither aborted nor
\* left unspawned; a terminate in progress holds a process whose watcher is out of its way.
LEMMA ShapeStep == RunnerTypeOK /\ Shape /\ [RunnerNext]_runnerVars => Shape'
<1> SUFFICES ASSUME RunnerTypeOK, Shape, [RunnerNext]_runnerVars PROVE Shape'
  OBVIOUS
<1> USE RunnerSets
    DEF Shape, RunnerTypeOK, CommandPCs, WaiterPCs, Goto, procs, caps
<1>1. ASSUME NEW op \in {"start", "terminate", "input"}, NEW s \in Sessions, Deliver(op, s)
      PROVE  Shape'
  BY <1>1 DEF Deliver
<1>2. CASE StartRejected
  BY <1>2 DEF StartRejected
<1>3. CASE Acquire
  BY <1>3 DEF Acquire
<1>4. CASE SpawnFails
  BY <1>4 DEF SpawnFails, Release, Call, Requests
<1>5. ASSUME NEW p \in Procs, Spawn(p) PROVE Shape'
  BY <1>5 DEF Spawn, Call, Requests
<1>6. CASE SpawnWatcher
  BY <1>6 DEF SpawnWatcher
<1>7. CASE InsertHandle
  BY <1>7 DEF InsertHandle
<1>8. CASE TerminateRemove
  BY <1>8 DEF TerminateRemove, Release
<1>9. CASE TerminateUnknown
  BY <1>9 DEF TerminateUnknown
<1>10. CASE TerminateKill
  BY <1>10 DEF TerminateKill, Call, Requests
<1>11. CASE TerminateRevoke
  BY <1>11 DEF TerminateRevoke, Call, Requests
<1>12. CASE InputSent
  BY <1>12 DEF InputSent
<1>13. CASE InputFails
  BY <1>13 DEF InputFails
<1>14. CASE CommandFails
  BY <1>14 DEF CommandFails, Call, Requests
<1>15. CASE Commit
  BY <1>15 DEF Commit, Idle
<1>16. ASSUME NEW p \in Procs, TakeChild(p) PROVE Shape'
  BY <1>16 DEF TakeChild
<1>17. ASSUME NEW p \in Procs, NEW status \in {"terminated", "failed"}, ClaimExit(p, status)
       PROVE  Shape'
  BY <1>17 DEF ClaimExit, Release, Call, Requests
<1>18. ASSUME NEW p \in Procs, IgnoreExit(p) PROVE Shape'
  BY <1>18 DEF IgnoreExit
<1>19. ASSUME NEW p \in Procs, ReportRevoke(p) PROVE Shape'
  BY <1>19 DEF ReportRevoke, Call, Requests
<1>20. ASSUME NEW p \in Procs, ProcessExits(p) PROVE Shape'
  BY <1>20 DEF ProcessExits
<1>21. ASSUME NEW c \in calls, CallEnds(c) PROVE Shape'
  BY <1>21 DEF CallEnds
<1>22. CASE RunnerCrash
  BY <1>22 DEF RunnerCrash, Idle
<1>23. CASE UNCHANGED runnerVars
  BY <1>23 DEF runnerVars
<1> HIDE DEF Shape, RunnerTypeOK, CommandPCs, WaiterPCs, Goto, procs, caps
<1> QED
  BY <1>1, <1>2, <1>3, <1>4, <1>5, <1>6, <1>7, <1>8, <1>9, <1>10, <1>11, <1>12, <1>13,
     <1>14, <1>15, <1>16, <1>17, <1>18, <1>19, <1>20, <1>21, <1>22, <1>23
     DEF RunnerNext, HandleCommand, StartSession, TerminateSession, SendInput, Watch

\* A session started once has one process, which leaves the map only once.
LEMMA OneStep ==
    RunnerTypeOK /\ Shape /\ OneProcess /\ [RunnerNext]_runnerVars => OneProcess'
<1> SUFFICES ASSUME RunnerTypeOK, Shape, OneProcess, [RunnerNext]_runnerVars
             PROVE OneProcess'
  OBVIOUS
<1> USE RunnerSets
    DEF OneProcess, Active, Once, Shape, RunnerTypeOK, CommandPCs, WaiterPCs, Goto, procs, caps
<1>1. ASSUME NEW op \in {"start", "terminate", "input"}, NEW s \in Sessions, Deliver(op, s)
      PROVE  OneProcess'
  BY <1>1 DEF Deliver
<1>2. CASE StartRejected
  BY <1>2 DEF StartRejected
<1>3. CASE Acquire
  BY <1>3 DEF Acquire
<1>4. CASE SpawnFails
  BY <1>4 DEF SpawnFails, Release, Call, Requests
<1>5. ASSUME NEW p \in Procs, Spawn(p) PROVE OneProcess'
  BY <1>5 DEF Spawn, Call, Requests
<1>6. CASE SpawnWatcher
  BY <1>6 DEF SpawnWatcher
<1>7. CASE InsertHandle
  BY <1>7 DEF InsertHandle
<1>8. CASE TerminateRemove
  BY <1>8 DEF TerminateRemove, Release
<1>9. CASE TerminateUnknown
  BY <1>9 DEF TerminateUnknown
<1>10. CASE TerminateKill
  BY <1>10 DEF TerminateKill, Call, Requests
<1>11. CASE TerminateRevoke
  BY <1>11 DEF TerminateRevoke, Call, Requests
<1>12. CASE InputSent
  BY <1>12 DEF InputSent
<1>13. CASE InputFails
  BY <1>13 DEF InputFails
<1>14. CASE CommandFails
  BY <1>14 DEF CommandFails, Call, Requests
<1>15. CASE Commit
  BY <1>15 DEF Commit, Idle
<1>16. ASSUME NEW p \in Procs, TakeChild(p) PROVE OneProcess'
  BY <1>16 DEF TakeChild
<1>17. ASSUME NEW p \in Procs, NEW status \in {"terminated", "failed"}, ClaimExit(p, status)
       PROVE  OneProcess'
  BY <1>17 DEF ClaimExit, Release, Call, Requests
<1>18. ASSUME NEW p \in Procs, IgnoreExit(p) PROVE OneProcess'
  BY <1>18 DEF IgnoreExit
<1>19. ASSUME NEW p \in Procs, ReportRevoke(p) PROVE OneProcess'
  BY <1>19 DEF ReportRevoke, Call, Requests
<1>20. ASSUME NEW p \in Procs, ProcessExits(p) PROVE OneProcess'
  BY <1>20 DEF ProcessExits
<1>21. ASSUME NEW c \in calls, CallEnds(c) PROVE OneProcess'
  BY <1>21 DEF CallEnds
<1>22. CASE RunnerCrash
  BY <1>22 DEF RunnerCrash, Idle
<1>23. CASE UNCHANGED runnerVars
  BY <1>23 DEF runnerVars
<1> HIDE DEF OneProcess, Active, Once, Shape, RunnerTypeOK, CommandPCs, WaiterPCs, Goto, procs, caps
<1> QED
  BY <1>1, <1>2, <1>3, <1>4, <1>5, <1>6, <1>7, <1>8, <1>9, <1>10, <1>11, <1>12, <1>13,
     <1>14, <1>15, <1>16, <1>17, <1>18, <1>19, <1>20, <1>21, <1>22, <1>23
     DEF RunnerNext, HandleCommand, StartSession, TerminateSession, SendInput, Watch

\* The steps that move no node permit and no slot of a tenant.
Quiet ==
    \/ \E op \in {"start", "terminate", "input"}, s \in Sessions : Deliver(op, s)
    \/ StartRejected \/ SpawnWatcher \/ TerminateUnknown \/ TerminateKill
    \/ InputSent \/ InputFails \/ CommandFails \/ Commit
    \/ \E p \in Procs : Spawn(p) \/ TakeChild(p) \/ IgnoreExit(p) \/ ProcessExits(p)
    \/ \E c \in calls : CallEnds(c)
    \/ UNCHANGED runnerVars

\* What such a step leaves alone.
Kept ==
    /\ Mapped' = Mapped /\ Starting' = Starting
    /\ Finishing' = Finishing /\ Revoking' = Revoking
    /\ permits' = permits /\ count' = count
    /\ \A s \in Sessions : Once(s)' => Once(s)

\* A quiet step leaves every holder, the semaphore and the counts as they are.
LEMMA QuietStep == ASSUME RunnerTypeOK, Shape, Quiet PROVE Kept
<1> USE DEF Kept, Mapped, Starting, Finishing, Revoking, Once, Shape, RunnerTypeOK, Goto, procs, caps
<1>1. ASSUME NEW op \in {"start", "terminate", "input"}, NEW s \in Sessions, Deliver(op, s)
      PROVE  Kept
  BY <1>1 DEF Deliver
<1>2. CASE StartRejected
  BY <1>2 DEF StartRejected
<1>3. ASSUME NEW p \in Procs, Spawn(p) PROVE Kept
  BY <1>3 DEF Spawn
<1>4. CASE SpawnWatcher
  BY <1>4 DEF SpawnWatcher
<1>5. CASE TerminateUnknown
  BY <1>5 DEF TerminateUnknown
<1>6. CASE TerminateKill
  BY <1>6 DEF TerminateKill
<1>7. CASE InputSent
  BY <1>7 DEF InputSent
<1>8. CASE InputFails
  BY <1>8 DEF InputFails
<1>9. CASE CommandFails
  BY <1>9 DEF CommandFails
<1>10. CASE Commit
  BY <1>10 DEF Commit, Idle
<1>11. ASSUME NEW p \in Procs, TakeChild(p) PROVE Kept
  BY <1>11 DEF TakeChild
<1>12. ASSUME NEW p \in Procs, IgnoreExit(p) PROVE Kept
  BY <1>12 DEF IgnoreExit
<1>13. ASSUME NEW p \in Procs, ProcessExits(p) PROVE Kept
  BY <1>13 DEF ProcessExits
<1>14. ASSUME NEW c \in calls, CallEnds(c) PROVE Kept
  BY <1>14 DEF CallEnds
<1>15. CASE UNCHANGED runnerVars
  BY <1>15 DEF runnerVars
<1> HIDE DEF Kept, Mapped, Starting, Finishing, Revoking, Once, Shape, RunnerTypeOK, Goto,
         procs, caps
<1> QED
  BY <1>1, <1>2, <1>3, <1>4, <1>5, <1>6, <1>7, <1>8, <1>9, <1>10, <1>11, <1>12, <1>13,
     <1>14, <1>15 DEF Quiet

\* Each step moves one node permit at most, between the semaphore and its holders.
LEMMA PermitStep ==
    RunnerTypeOK /\ Shape /\ PermitInv /\ [RunnerNext]_runnerVars => PermitInv'
<1> SUFFICES ASSUME RunnerTypeOK, Shape, PermitInv, [RunnerNext]_runnerVars
             PROVE PermitInv'
  OBVIOUS
<1> USE RunnerSets, RunnerCaps
<1>f. /\ IsFiniteSet(Mapped) /\ IsFiniteSet(Revoking)
      /\ Cardinality(Mapped) \in Nat /\ Cardinality(Revoking) \in Nat /\ permits \in Nat
  BY FS_Subset, FS_CardinalityType DEF PermitInv, Revoking, RunnerTypeOK
<1>c. /\ Cardinality(Starting) = IF cmd.pc \in {"spawn", "running", "insert"} THEN 1 ELSE 0
      /\ Cardinality(Finishing) = IF cmd.pc \in {"kill", "revoke"} THEN 1 ELSE 0
  BY FS_EmptySet, FS_Singleton DEF Starting, Finishing
<1>d. /\ Cardinality(Starting') = IF cmd'.pc \in {"spawn", "running", "insert"} THEN 1 ELSE 0
      /\ Cardinality(Finishing') = IF cmd'.pc \in {"kill", "revoke"} THEN 1 ELSE 0
  BY FS_EmptySet, FS_Singleton DEF Starting, Finishing
<1>1. CASE Quiet
  BY <1>1, QuietStep DEF Kept, PermitInv, MapWithinPermits
<1>2. CASE Acquire
  <2>1. Mapped' = Mapped /\ Revoking' = Revoking
    BY <1>2 DEF Acquire, Goto, procs, Mapped, Revoking, Shape, RunnerTypeOK
  <2> QED
    BY <1>2, <2>1, <1>f, <1>c, <1>d
       DEF PermitInv, MapWithinPermits, Acquire, Goto, procs, RunnerTypeOK
<1>3. CASE SpawnFails
  <2>1. Mapped' = Mapped /\ Revoking' = Revoking
    BY <1>3 DEF SpawnFails, Goto, Release, procs, Mapped, Revoking, Shape, RunnerTypeOK
  <2> QED
    BY <1>3, <2>1, <1>f, <1>c, <1>d
       DEF PermitInv, MapWithinPermits, SpawnFails, Goto, Release, procs, RunnerTypeOK
<1>4. CASE InsertHandle
  <2>1. /\ Mapped' = Mapped \cup {cmd.session} /\ Revoking' = Revoking
        /\ cmd.session \in Mapped <=> handle[cmd.session] # None
    BY <1>4 DEF InsertHandle, Goto, procs, Mapped, Revoking, Shape, RunnerTypeOK
  <2>2. /\ IsFiniteSet(Mapped')
        /\ Cardinality(Mapped') = IF cmd.session \in Mapped THEN Cardinality(Mapped)
                                                          ELSE Cardinality(Mapped) + 1
    BY <2>1, <1>f, FS_AddElement
  <2> QED
    BY <1>4, <2>1, <2>2, <1>f, <1>c, <1>d
       DEF PermitInv, MapWithinPermits, InsertHandle, Goto,
       RunnerTypeOK
<1>5. CASE TerminateRemove
  <2>1. /\ Mapped' = Mapped \ {cmd.session} /\ cmd.session \in Mapped
        /\ cmd'.pc = "kill" /\ permits' = permits
    BY <1>5 DEF TerminateRemove, Mapped, Shape, RunnerTypeOK
  <2>2. Revoking' = Revoking
    BY <1>5 DEF TerminateRemove, Revoking, Shape, RunnerTypeOK
  <2>3. IsFiniteSet(Mapped') /\ Cardinality(Mapped') = Cardinality(Mapped) - 1
    BY <2>1, <1>f, FS_RemoveElement
  <2> QED
    BY <1>5, <2>1, <2>2, <2>3, <1>f, <1>c, <1>d
       DEF PermitInv, MapWithinPermits, TerminateRemove
<1>6. CASE TerminateRevoke
  <2>1. Mapped' = Mapped /\ Revoking' = Revoking
    BY <1>6 DEF TerminateRevoke, Goto, procs, Mapped, Revoking, Shape, RunnerTypeOK
  <2> QED
    BY <1>6, <2>1, <1>f, <1>c, <1>d
       DEF PermitInv, MapWithinPermits, TerminateRevoke, Goto, procs, RunnerTypeOK
<1>7. ASSUME NEW p \in Procs, NEW status \in {"terminated", "failed"}, ClaimExit(p, status)
      PROVE  PermitInv'
  <2>1. /\ Mapped' = Mapped \ {sess[p]} /\ sess[p] \in Mapped
        /\ Revoking' = Revoking \cup {p} /\ p \notin Revoking
        /\ cmd' = cmd /\ permits' = permits
    BY <1>7 DEF ClaimExit, Mapped, Revoking, Shape, RunnerTypeOK
  <2>2. IsFiniteSet(Mapped') /\ Cardinality(Mapped') = Cardinality(Mapped) - 1
    BY <2>1, <1>f, FS_RemoveElement
  <2>3. Cardinality(Revoking') = Cardinality(Revoking) + 1
    BY <2>1, <1>f, FS_AddElement
  <2> QED
    BY <2>1, <2>2, <2>3, <1>f, <1>c, <1>d DEF PermitInv, MapWithinPermits
<1>8. ASSUME NEW p \in Procs, ReportRevoke(p) PROVE PermitInv'
  <2>1. /\ Mapped' = Mapped /\ Revoking' = Revoking \ {p} /\ p \in Revoking
        /\ cmd' = cmd /\ permits' = permits + 1
    BY <1>8 DEF ReportRevoke, Mapped, Revoking, RunnerTypeOK
  <2>2. Cardinality(Revoking') = Cardinality(Revoking) - 1
    BY <2>1, <1>f, FS_RemoveElement
  <2> QED
    BY <2>1, <2>2, <1>f, <1>c, <1>d DEF PermitInv, MapWithinPermits
<1>9. CASE RunnerCrash
  <2>1. Mapped' = {} /\ Revoking' = {} /\ cmd'.pc = "idle" /\ permits' = MaxPerNode
    BY <1>9 DEF RunnerCrash, Idle, Mapped, Revoking
  <2> QED
    BY <2>1, <1>d, FS_EmptySet, RunnerCaps DEF PermitInv, MapWithinPermits
<1> QED
  BY <1>1, <1>2, <1>3, <1>4, <1>5, <1>6, <1>7, <1>8, <1>9
     DEF Quiet, RunnerNext, HandleCommand, StartSession, TerminateSession, SendInput, Watch

\* The sessions that hold a slot are finitely many.
LEMMA SlotsFinite == IsFiniteSet(Mapped) => \A t : IsFiniteSet(Slots(t))
<1> SUFFICES ASSUME IsFiniteSet(Mapped), NEW t PROVE IsFiniteSet(Slots(t))
  OBVIOUS
<1>1. IsFiniteSet(Mapped \cup Starting)
  BY FS_Union, FS_EmptySet, FS_Singleton DEF Starting
<1> QED
  BY <1>1, FS_Subset DEF Slots

\* A step that gives a slot of a session's tenant back, and takes that session out
\* of the sessions that hold one.
LEMMA ReleaseSlot ==
    ASSUME RunnerTypeOK, SlotInv, IsFiniteSet(Mapped), started' = started,
           NEW s \in Sessions,
           TenantOf[s] \in Tenants,
           count' = [count EXCEPT ![TenantOf[s]] = IF @ = 0 THEN 0 ELSE @ - 1],
           Once(s) => /\ (Mapped \cup Starting)' = (Mapped \cup Starting) \ {s}
                      /\ s \in Mapped \cup Starting,
           (Mapped \cup Starting)' \subseteq Mapped \cup Starting,
           Mapped \cup Starting \subseteq (Mapped \cup Starting)' \cup {s}
    PROVE  SlotInv'
<1> USE RunnerCaps
<1> SUFFICES ASSUME NEW t \in Tenants
             PROVE /\ count'[t] <= MaxPerTenant
                   /\ (\A r \in Sessions : TenantOf[r] = t => Once(r)) =>
                          Cardinality(Slots(t)') <= count'[t]
  BY DEF SlotInv, Once
<1>1. count[t] \in Nat /\ count[t] <= MaxPerTenant
  BY DEF RunnerTypeOK, SlotInv
<1>2. CASE t # TenantOf[s]
  <2>1. Slots(t)' = Slots(t)
    BY <1>2 DEF Slots
  <2> QED
    BY <1>1, <1>2, <2>1 DEF SlotInv, RunnerTypeOK
<1>3. CASE t = TenantOf[s]
  <2>1. count'[t] <= MaxPerTenant
    BY <1>1, <1>3 DEF RunnerTypeOK
  <2>2. SUFFICES ASSUME \A r \in Sessions : TenantOf[r] = t => Once(r)
                 PROVE Cardinality(Slots(t)') <= count'[t]
    BY <2>1
  <2>3. Slots(t)' = Slots(t) \ {s} /\ s \in Slots(t)
    BY <1>3, <2>2 DEF Slots
  <2>4. IsFiniteSet(Slots(t)) /\ Cardinality(Slots(t)) \in Nat
    BY SlotsFinite, FS_CardinalityType
  <2>5. Cardinality(Slots(t)') = Cardinality(Slots(t)) - 1
    BY <2>3, <2>4, FS_RemoveElement
  <2>6. Cardinality(Slots(t)') \in Nat
    BY <2>3, <2>4, FS_RemoveElement, FS_CardinalityType
  <2> QED
    BY <1>1, <1>3, <2>2, <2>4, <2>5, <2>6 DEF SlotInv, RunnerTypeOK
<1> QED
  BY <1>2, <1>3

\* A tenant's count is at least the number of its sessions that hold a slot.
LEMMA SlotStep ==
    RunnerTypeOK /\ Shape /\ OneProcess /\ PermitInv /\ SlotInv /\ [RunnerNext]_runnerVars => SlotInv'
<1> SUFFICES ASSUME RunnerTypeOK, Shape, OneProcess, PermitInv, SlotInv, [RunnerNext]_runnerVars
             PROVE SlotInv'
  OBVIOUS
<1> USE RunnerCaps
<1>f. \A t \in Tenants : IsFiniteSet(Slots(t)) /\ Cardinality(Slots(t)) \in Nat
  BY SlotsFinite, FS_CardinalityType DEF PermitInv
<1>1. CASE Quiet
  BY <1>1, QuietStep DEF Kept, SlotInv, Slots
<1>2. CASE Acquire
  <2> DEFINE s == cmd.session
  <2>1. /\ s \in Sessions /\ Mapped' = Mapped /\ Starting = {} /\ Starting' = {s}
        /\ count[TenantOf[s]] < MaxPerTenant
        /\ count' = [count EXCEPT ![TenantOf[s]] = @ + 1] /\ started' = started
    BY <1>2 DEF Acquire, Goto, Mapped, Starting, Shape, RunnerTypeOK
  <2> SUFFICES ASSUME NEW t \in Tenants
               PROVE /\ count'[t] <= MaxPerTenant
                     /\ (\A r \in Sessions : TenantOf[r] = t => Once(r)) =>
                            Cardinality(Slots(t)') <= count'[t]
    BY <2>1 DEF SlotInv, Once
  <2>2. CASE t = TenantOf[s]
    <3>1. Slots(t)' = Slots(t) \cup {s}
      BY <2>1, <2>2 DEF Slots
    <3>2. IsFiniteSet(Slots(t)) /\ Cardinality(Slots(t)) \in Nat
      BY <1>f
    <3>3. Cardinality(Slots(t)') \in {Cardinality(Slots(t)), Cardinality(Slots(t)) + 1}
      BY <3>1, <3>2, FS_AddElement
    <3>4. count[t] \in Nat /\ count'[t] = count[t] + 1 /\ count'[t] <= MaxPerTenant
      BY <2>1, <2>2 DEF RunnerTypeOK
    <3>5. (\A r \in Sessions : TenantOf[r] = t => Once(r)) => Cardinality(Slots(t)) <= count[t]
      BY DEF SlotInv
    <3> QED
      BY <3>2, <3>3, <3>4, <3>5
  <2>3. CASE t # TenantOf[s]
    <3>1. Slots(t)' = Slots(t)
      BY <2>1, <2>3 DEF Slots
    <3> QED
      BY <2>1, <2>3, <3>1 DEF SlotInv, RunnerTypeOK
  <2> QED
    BY <2>2, <2>3
<1>3. CASE SpawnFails
  <2> DEFINE s == cmd.session
  <2>1. /\ s \in Sessions /\ TenantOf[s] \in Tenants
        /\ count' = [count EXCEPT ![TenantOf[s]] = IF @ = 0 THEN 0 ELSE @ - 1]
        /\ started' = started
    BY <1>3, RunnerSets DEF SpawnFails, Release, Shape, RunnerTypeOK
  <2>2. Once(s) => /\ (Mapped \cup Starting)' = (Mapped \cup Starting) \ {s}
                   /\ s \in Mapped \cup Starting
    BY <1>3 DEF SpawnFails, Goto, Mapped, Starting, Shape, OneProcess, RunnerTypeOK
  <2>3. (Mapped \cup Starting)' \subseteq Mapped \cup Starting
        /\ Mapped \cup Starting \subseteq (Mapped \cup Starting)' \cup {s}
    BY <1>3 DEF SpawnFails, Goto, Mapped, Starting, Shape, RunnerTypeOK
  <2> QED
    BY <2>1, <2>2, <2>3, ReleaseSlot DEF PermitInv
<1>4. CASE InsertHandle
  <2>1. (Mapped \cup Starting)' = Mapped \cup Starting /\ count' = count /\ started' = started
    BY <1>4, RunnerSets
       DEF InsertHandle, Goto, procs, Mapped, Starting, Shape, RunnerTypeOK
  <2>2. \A t \in Tenants : Slots(t)' = Slots(t)
    BY <2>1 DEF Slots
  <2> QED
    BY <2>1, <2>2 DEF SlotInv, Once
<1>5. CASE TerminateRemove
  <2> DEFINE s == cmd.session
  <2>1. /\ s \in Sessions /\ TenantOf[s] \in Tenants
        /\ count' = [count EXCEPT ![TenantOf[s]] = IF @ = 0 THEN 0 ELSE @ - 1]
        /\ started' = started
    BY <1>5, RunnerSets DEF TerminateRemove, Release, Shape, RunnerTypeOK
  <2>2. Once(s) => /\ (Mapped \cup Starting)' = (Mapped \cup Starting) \ {s}
                   /\ s \in Mapped \cup Starting
    BY <1>5 DEF TerminateRemove, Mapped, Starting, Shape, OneProcess, RunnerTypeOK
  <2>3. (Mapped \cup Starting)' \subseteq Mapped \cup Starting
        /\ Mapped \cup Starting \subseteq (Mapped \cup Starting)' \cup {s}
    BY <1>5 DEF TerminateRemove, Mapped, Starting, Shape, RunnerTypeOK
  <2> QED
    BY <2>1, <2>2, <2>3, ReleaseSlot DEF PermitInv
<1>6. CASE TerminateRevoke
  <2>1. Mapped' = Mapped /\ Starting' = Starting
    BY <1>6 DEF TerminateRevoke, Goto, procs, Mapped, Starting
  <2>2. count' = count /\ \A s \in Sessions : Once(s)' => Once(s)
    BY <1>6 DEF TerminateRevoke, Goto, procs, Once, RunnerTypeOK
  <2> QED
    BY <2>1, <2>2 DEF SlotInv, Slots
<1>7. ASSUME NEW p \in Procs, NEW status \in {"terminated", "failed"}, ClaimExit(p, status)
      PROVE  SlotInv'
  <2> DEFINE s == sess[p]
  <2>1. /\ s \in Sessions /\ TenantOf[s] \in Tenants
        /\ count' = [count EXCEPT ![TenantOf[s]] = IF @ = 0 THEN 0 ELSE @ - 1]
        /\ started' = started
    BY <1>7, RunnerSets DEF ClaimExit, Release, Shape, RunnerTypeOK
  <2>2. Once(s) => /\ (Mapped \cup Starting)' = (Mapped \cup Starting) \ {s}
                   /\ s \in Mapped \cup Starting
    BY <1>7 DEF ClaimExit, Mapped, Starting, Shape, OneProcess, RunnerTypeOK
  <2>3. (Mapped \cup Starting)' \subseteq Mapped \cup Starting
        /\ Mapped \cup Starting \subseteq (Mapped \cup Starting)' \cup {s}
    BY <1>7 DEF ClaimExit, Mapped, Starting, Shape, RunnerTypeOK
  <2> QED
    BY <2>1, <2>2, <2>3, ReleaseSlot DEF PermitInv
<1>8. ASSUME NEW p \in Procs, ReportRevoke(p) PROVE SlotInv'
  <2>1. Mapped' = Mapped /\ Starting' = Starting
    BY <1>8 DEF ReportRevoke, Mapped, Starting
  <2>2. count' = count /\ \A s \in Sessions : Once(s)' => Once(s)
    BY <1>8 DEF ReportRevoke, Once, RunnerTypeOK
  <2> QED
    BY <2>1, <2>2 DEF SlotInv, Slots
<1>9. CASE RunnerCrash
  <2>1. \A t \in Tenants : Slots(t)' = {} /\ count'[t] = 0
    BY <1>9 DEF RunnerCrash, Idle, Slots, Mapped, Starting
  <2>2. \A t \in Tenants : Cardinality(Slots(t)') = 0
    BY <2>1, FS_EmptySet
  <2> QED
    BY <2>1, <2>2 DEF SlotInv
<1> QED
  BY <1>1, <1>2, <1>3, <1>4, <1>5, <1>6, <1>7, <1>8, <1>9
     DEF Quiet, RunnerNext, HandleCommand, StartSession, TerminateSession, SendInput, Watch

-----------------------------------------------------------------------------
(* The invariant, and what follows from it. *)

\* The invariant holds before the first command.
LEMMA RunnerInitInv == RunnerInit => RunnerIndInv
<1> SUFFICES ASSUME RunnerInit PROVE RunnerIndInv
  OBVIOUS
<1> USE RunnerSets, RunnerCaps DEF RunnerInit, Idle
<1>1. RunnerTypeOK
  BY DEF RunnerTypeOK, CommandPCs, WaiterPCs
<1>2. Shape
  BY DEF Shape
<1>3. OneProcess
  BY DEF OneProcess, Active, Once
<1>4. Mapped = {} /\ Starting = {} /\ Finishing = {} /\ Revoking = {}
  BY DEF Mapped, Starting, Finishing, Revoking
<1>5. PermitInv
  BY <1>4, FS_EmptySet DEF PermitInv, MapWithinPermits
<1>6. SlotInv
  <2>1. \A t \in Tenants : Slots(t) = {}
    BY <1>4 DEF Slots
  <2> QED
    BY <2>1, FS_EmptySet DEF SlotInv
<1> QED
  BY <1>1, <1>2, <1>3, <1>5, <1>6 DEF RunnerIndInv

\* Every step of the runner keeps the invariant.
LEMMA RunnerStepInv == RunnerIndInv /\ [RunnerNext]_runnerVars => RunnerIndInv'
  BY TypeStep, ShapeStep, OneStep, PermitStep, SlotStep DEF RunnerIndInv

\* Each running process of a tenant whose sessions were started once holds a slot
\* of its own.
LEMMA CapFromInv == RunnerIndInv => TenantCapOnProcesses
<1> SUFFICES ASSUME RunnerIndInv, NEW t \in Tenants,
                    \A s \in Sessions : TenantOf[s] = t => Once(s)
             PROVE Cardinality(Running(t)) <= count[t]
  BY DEF RunnerIndInv, TenantCapOnProcesses, SlotInv
<1> DEFINE f == [p \in Running(t) |-> sess[p]]
<1>1. \A p \in Running(t) : /\ sess[p] \in Sessions /\ Once(sess[p])
                            /\ Active(p) /\ proc[p] = "alive"
  BY DEF Running, Active, RunnerIndInv, Shape
<1>2. \A p \in Running(t) : sess[p] \in Slots(t)
  <2> SUFFICES ASSUME NEW p \in Running(t) PROVE sess[p] \in Slots(t)
    OBVIOUS
  <2>1. \/ handle[sess[p]] = p
        \/ cmd.proc = p /\ cmd.pc \in {"running", "insert"}
    BY <1>1 DEF Running, RunnerIndInv, OneProcess
  <2>2. CASE handle[sess[p]] = p
    BY <1>1, <2>2, RunnerSets DEF Running, Slots, Mapped
  <2>3. CASE cmd.proc = p /\ cmd.pc \in {"running", "insert"}
    BY <1>1, <2>3 DEF Running, Slots, Starting, RunnerIndInv, Shape
  <2> QED
    BY <2>1, <2>2, <2>3
<1>3. \A p, q \in Running(t) : sess[p] = sess[q] => p = q
  BY <1>1 DEF Running, RunnerIndInv, OneProcess
<1>4. f \in Injection(Running(t), Slots(t))
  BY <1>2, <1>3 DEF Injection, IsInjective
<1>5. IsFiniteSet(Slots(t)) /\ Cardinality(Slots(t)) <= count[t] /\ Cardinality(Slots(t)) \in Nat
  BY SlotsFinite, FS_CardinalityType DEF RunnerIndInv, PermitInv, SlotInv
<1>6. Cardinality(Running(t)) <= Cardinality(Slots(t)) /\ Cardinality(Running(t)) \in Nat
  BY <1>4, <1>5, FS_Injection, FS_CardinalityType
<1> QED
  BY <1>5, <1>6 DEF RunnerIndInv, RunnerTypeOK

\* A watcher that is cleaning up took the handle, so no terminate has it.
LEMMA SingleFromInv == RunnerIndInv => SingleCleanup
<1> SUFFICES ASSUME RunnerIndInv, NEW p \in Procs, cmd.proc = p,
                    cmd.pc \in {"kill", "revoke"}, waiter[p] = "revoking", Once(sess[p])
             PROVE FALSE
  BY DEF SingleCleanup
<1>1. sess[p] = cmd.session /\ sess[p] \in Sessions /\ Active(p)
  BY DEF RunnerIndInv, Shape, Active
<1> QED
  BY <1>1 DEF RunnerIndInv, OneProcess

-----------------------------------------------------------------------------
(* The theorems. *)

\* Every reachable state of the runner has the declared types.
THEOREM RunnerTypes == RunnerSpec => []RunnerTypeOK
<1>1. RunnerInit => RunnerIndInv
  BY RunnerInitInv
<1>2. RunnerIndInv /\ [RunnerNext]_runnerVars => RunnerIndInv'
  BY RunnerStepInv
<1>3. RunnerIndInv => RunnerTypeOK
  BY DEF RunnerIndInv
<1> QED
  BY <1>1, <1>2, <1>3, PTL DEF RunnerSpec

\* MAX_SESSIONS_PER_NODE: the permits left and the permits held always make up the cap,
\* on every error path and in every race of a terminate with a natural exit.
THEOREM PermitsAddUp == RunnerSpec => []MapWithinPermits
<1>1. RunnerInit => RunnerIndInv
  BY RunnerInitInv
<1>2. RunnerIndInv /\ [RunnerNext]_runnerVars => RunnerIndInv'
  BY RunnerStepInv
<1>3. RunnerIndInv => MapWithinPermits
  BY DEF RunnerIndInv, PermitInv
<1> QED
  BY <1>1, <1>2, <1>3, PTL DEF RunnerSpec

\* MAX_SESSIONS_PER_TENANT (ADR-013): a tenant whose sessions were each started once has
\* no more running processes than its count says, and the count stays within the cap.
THEOREM TenantCapHolds == RunnerSpec => []TenantCapOnProcesses
<1>1. RunnerInit => RunnerIndInv
  BY RunnerInitInv
<1>2. RunnerIndInv /\ [RunnerNext]_runnerVars => RunnerIndInv'
  BY RunnerStepInv
<1>3. RunnerIndInv => TenantCapOnProcesses
  BY CapFromInv
<1> QED
  BY <1>1, <1>2, <1>3, PTL DEF RunnerSpec

\* Of terminate_session and the natural-exit watcher, only the one that took the handle
\* out of the map cleans the session up, unless the session's Start came again.
THEOREM CleanupIsSingle == RunnerSpec => []SingleCleanup
<1>1. RunnerInit => RunnerIndInv
  BY RunnerInitInv
<1>2. RunnerIndInv /\ [RunnerNext]_runnerVars => RunnerIndInv'
  BY RunnerStepInv
<1>3. RunnerIndInv => SingleCleanup
  BY SingleFromInv
<1> QED
  BY <1>1, <1>2, <1>3, PTL DEF RunnerSpec

=============================================================================
