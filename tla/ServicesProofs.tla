--------------------------- MODULE ServicesProofs ---------------------------
(* Agent sessions and chats of control-api, the audit trails, the Kafka       *)
(* client, the soak harness, the credentials and the MCP server: what they    *)
(* leave behind is true and complete, and a reply holds what its caller may   *)
(* see, for any numbers of sessions, records, calls, keys, failures and       *)
(* restarts.  They share no state; each has its own invariant.                *)
EXTENDS ControlApiSessions, Chat, AdminAccess, KafkaEnvelope, SoakHarness, ApiAccess, McpServer,
        SequenceLemmas

----------------------------------------------------------------------------
(* The agent sessions.  IndInv is inductive: Phases says how far the handlers *)
(* of a session can be given its row; SlotPerSession and CapInv count slots.  *)

\* Every step of every handler keeps the rows, the handlers' positions and the
\* counters within their types; the tenant counters stay natural numbers because
\* TenantSessionCount::decrement floors at zero.
LEMMA TypeStep == TypeOK /\ [Next]_vars => TypeOK'
<1> SUFFICES ASSUME TypeOK, [Next]_vars PROVE TypeOK'
  OBVIOUS
<1> USE TenantOfAssumption, CapsAssumption
<1>1. ASSUME NEW s \in Sessions, Admit(s) PROVE TypeOK'
  BY <1>1
     DEF Admit, TypeOK, CreatePCs, PatchPCs, DeletePCs, LIVE_STATUSES,
         TERMINAL_STATUSES, rows
<1>2. ASSUME NEW s \in Sessions, RejectRuntime(s) PROVE TypeOK'
  BY <1>2
     DEF RejectRuntime, TypeOK, CreatePCs, PatchPCs, DeletePCs, LIVE_STATUSES,
         TERMINAL_STATUSES, rows, counters
<1>3. ASSUME NEW s \in Sessions, RejectInput(s) PROVE TypeOK'
  BY <1>3
     DEF RejectInput, TypeOK, CreatePCs, PatchPCs, DeletePCs, LIVE_STATUSES,
         TERMINAL_STATUSES, Decrement, rows
<1>4. ASSUME NEW s \in Sessions, RejectActive(s) PROVE TypeOK'
  BY <1>4
     DEF RejectActive, TypeOK, CreatePCs, PatchPCs, DeletePCs, LIVE_STATUSES,
         TERMINAL_STATUSES, Decrement, rows
<1>5. ASSUME NEW s \in Sessions, Reserve(s) PROVE TypeOK'
  BY <1>5
     DEF Reserve, TypeOK, CreatePCs, PatchPCs, DeletePCs, LIVE_STATUSES,
         TERMINAL_STATUSES, rows
<1>6. ASSUME NEW s \in Sessions, TxFails(s) PROVE TypeOK'
  BY <1>6
     DEF TxFails, TypeOK, CreatePCs, PatchPCs, DeletePCs, LIVE_STATUSES,
         TERMINAL_STATUSES, rows, counters
<1>7. ASSUME NEW s \in Sessions, NEW ok \in BOOLEAN, InsertRow(s, ok) PROVE TypeOK'
  BY <1>7
     DEF InsertRow, TypeOK, CreatePCs, PatchPCs, DeletePCs, LIVE_STATUSES,
         TERMINAL_STATUSES, counters
<1>8. ASSUME NEW s \in Sessions, PublishStart(s) PROVE TypeOK'
  BY <1>8
     DEF PublishStart, TypeOK, CreatePCs, PatchPCs, DeletePCs, LIVE_STATUSES,
         TERMINAL_STATUSES, rows, counters
<1>9. ASSUME NEW s \in Sessions, PublishFails(s) PROVE TypeOK'
  BY <1>9
     DEF PublishFails, TypeOK, CreatePCs, PatchPCs, DeletePCs, LIVE_STATUSES,
         TERMINAL_STATUSES, rows, counters
<1>10. ASSUME NEW s \in Sessions, NoProducer(s) PROVE TypeOK'
  BY <1>10
     DEF NoProducer, TypeOK, CreatePCs, PatchPCs, DeletePCs, LIVE_STATUSES,
         TERMINAL_STATUSES, Decrement, RegistryRemove, rows
<1>11. ASSUME NEW s \in Sessions, NEW ok \in BOOLEAN, RollbackRow(s, ok) PROVE TypeOK'
  BY <1>11
     DEF RollbackRow, TypeOK, CreatePCs, PatchPCs, DeletePCs, LIVE_STATUSES,
         TERMINAL_STATUSES, counters
<1>12. ASSUME NEW s \in Sessions, NEW ok \in BOOLEAN, RollbackKey(s, ok) PROVE TypeOK'
  BY <1>12
     DEF RollbackKey, TypeOK, CreatePCs, PatchPCs, DeletePCs, LIVE_STATUSES,
         TERMINAL_STATUSES, Decrement, KeysLeft
<1>13. ASSUME NEW s \in Sessions, RegistryInsert(s) PROVE TypeOK'
  BY <1>13
     DEF RegistryInsert, TypeOK, CreatePCs, PatchPCs, DeletePCs, LIVE_STATUSES,
         TERMINAL_STATUSES, rows
<1>14. ASSUME NEW s \in Sessions, CreateDropped(s) PROVE TypeOK'
  BY <1>14
     DEF CreateDropped, TypeOK, CreatePCs, PatchPCs, DeletePCs, LIVE_STATUSES,
         TERMINAL_STATUSES, KeysLeft, rows, counters
<1>15. ASSUME NEW s \in Sessions, NEW st \in RunnerStatuses, PatchUpdate(s, st)
      PROVE  TypeOK'
  BY <1>15
     DEF PatchUpdate, TypeOK, CreatePCs, PatchPCs, DeletePCs, LIVE_STATUSES,
         TERMINAL_STATUSES, RunnerStatuses, counters
<1>16. ASSUME NEW s \in Sessions, NEW ok \in BOOLEAN, PatchRelease(s, ok) PROVE TypeOK'
  BY <1>16
     DEF PatchRelease, TypeOK, CreatePCs, PatchPCs, DeletePCs, LIVE_STATUSES,
         TERMINAL_STATUSES, Decrement, RegistryRemove, RevokeKey, KeysLeft
<1>17. ASSUME NEW s \in Sessions, NEW ok \in BOOLEAN, PatchEvent(s, ok) PROVE TypeOK'
  BY <1>17
     DEF PatchEvent, TypeOK, CreatePCs, PatchPCs, DeletePCs, LIVE_STATUSES,
         TERMINAL_STATUSES, counters
<1>18. ASSUME NEW s \in Sessions, PatchDropped(s) PROVE TypeOK'
  BY <1>18
     DEF PatchDropped, TypeOK, CreatePCs, PatchPCs, DeletePCs, LIVE_STATUSES,
         TERMINAL_STATUSES, KeysLeft, rows, counters
<1>19. ASSUME NEW s \in Sessions, DeleteRead(s) PROVE TypeOK'
  BY <1>19
     DEF DeleteRead, TypeOK, CreatePCs, PatchPCs, DeletePCs, LIVE_STATUSES,
         TERMINAL_STATUSES, RegistryRemove, rows
<1>20. ASSUME NEW s \in Sessions, DeleteCancel(s) PROVE TypeOK'
  BY <1>20
     DEF DeleteCancel, TypeOK, CreatePCs, PatchPCs, DeletePCs, LIVE_STATUSES,
         TERMINAL_STATUSES, counters
<1>21. ASSUME NEW s \in Sessions, NEW ok \in BOOLEAN, DeleteRelease(s, ok) PROVE TypeOK'
  BY <1>21
     DEF DeleteRelease, TypeOK, CreatePCs, PatchPCs, DeletePCs, LIVE_STATUSES,
         TERMINAL_STATUSES, RegistryRemove, RevokeKey, KeysLeft
<1>22. ASSUME NEW s \in Sessions, DeleteTerminate(s) PROVE TypeOK'
  BY <1>22
     DEF DeleteTerminate, TypeOK, CreatePCs, PatchPCs, DeletePCs, LIVE_STATUSES,
         TERMINAL_STATUSES, rows, counters
<1>23. ASSUME NEW s \in Sessions, DeleteDropped(s) PROVE TypeOK'
  BY <1>23
     DEF DeleteDropped, TypeOK, CreatePCs, PatchPCs, DeletePCs, LIVE_STATUSES,
         TERMINAL_STATUSES, KeysLeft, rows, counters
<1>24. ASSUME NEW s \in Sessions, DeleteApiKey(s) PROVE TypeOK'
  BY <1>24
     DEF DeleteApiKey, TypeOK, CreatePCs, PatchPCs, DeletePCs, LIVE_STATUSES,
         TERMINAL_STATUSES, RevokeKey, KeysLeft, handlers, counters
<1>25. ASSUME NEW ok \in BOOLEAN, Restart(ok) PROVE TypeOK'
  BY <1>25
     DEF Restart, TypeOK, CreatePCs, PatchPCs, DeletePCs, LIVE_STATUSES,
         TERMINAL_STATUSES, KeysLeft, rows
<1>26. CASE UNCHANGED vars
  BY <1>26
     DEF vars, TypeOK, CreatePCs, PatchPCs, DeletePCs, LIVE_STATUSES,
         TERMINAL_STATUSES, rows, handlers, counters
<1>27. QED
  BY <1>1, <1>2, <1>3, <1>4, <1>5, <1>6, <1>7, <1>8, <1>9, <1>10, <1>11, <1>12, <1>13,
     <1>14, <1>15, <1>16, <1>17, <1>18, <1>19, <1>20, <1>21, <1>22, <1>23, <1>24, <1>25,
     <1>26
     DEF Next, CreateSession, PatchSessionStatus, DeleteSession

\* The positions of a session's handlers stay tied to its row: no callback,
\* delete or registration precedes the INSERT, and a row that is live has no
\* terminal callback behind it.
LEMMA PhasesStep == TypeOK /\ Phases /\ [Next]_vars => Phases'
<1> SUFFICES ASSUME TypeOK, Phases, [Next]_vars PROVE Phases'
  OBVIOUS
<1>1. ASSUME NEW s \in Sessions, Admit(s) PROVE Phases'
  BY <1>1
     DEF Admit, Phases, TypeOK, CreatePCs, PatchPCs, DeletePCs, LIVE_STATUSES,
         TERMINAL_STATUSES, rows
<1>2. ASSUME NEW s \in Sessions, RejectRuntime(s) PROVE Phases'
  BY <1>2
     DEF RejectRuntime, Phases, TypeOK, CreatePCs, PatchPCs, DeletePCs, LIVE_STATUSES,
         TERMINAL_STATUSES, rows, counters
<1>3. ASSUME NEW s \in Sessions, RejectInput(s) PROVE Phases'
  BY <1>3
     DEF RejectInput, Phases, TypeOK, CreatePCs, PatchPCs, DeletePCs, LIVE_STATUSES,
         TERMINAL_STATUSES, rows
<1>4. ASSUME NEW s \in Sessions, RejectActive(s) PROVE Phases'
  BY <1>4
     DEF RejectActive, Phases, TypeOK, CreatePCs, PatchPCs, DeletePCs, LIVE_STATUSES,
         TERMINAL_STATUSES, rows
<1>5. ASSUME NEW s \in Sessions, Reserve(s) PROVE Phases'
  BY <1>5
     DEF Reserve, Phases, TypeOK, CreatePCs, PatchPCs, DeletePCs, LIVE_STATUSES,
         TERMINAL_STATUSES, rows
<1>6. ASSUME NEW s \in Sessions, TxFails(s) PROVE Phases'
  BY <1>6
     DEF TxFails, Phases, TypeOK, CreatePCs, PatchPCs, DeletePCs, LIVE_STATUSES,
         TERMINAL_STATUSES, rows, counters
<1>7. ASSUME NEW s \in Sessions, NEW ok \in BOOLEAN, InsertRow(s, ok) PROVE Phases'
  BY <1>7
     DEF InsertRow, Phases, TypeOK, CreatePCs, PatchPCs, DeletePCs, LIVE_STATUSES,
         TERMINAL_STATUSES, counters
<1>8. ASSUME NEW s \in Sessions, PublishStart(s) PROVE Phases'
  BY <1>8
     DEF PublishStart, Phases, TypeOK, CreatePCs, PatchPCs, DeletePCs, LIVE_STATUSES,
         TERMINAL_STATUSES, rows, counters
<1>9. ASSUME NEW s \in Sessions, PublishFails(s) PROVE Phases'
  BY <1>9
     DEF PublishFails, Phases, TypeOK, CreatePCs, PatchPCs, DeletePCs, LIVE_STATUSES,
         TERMINAL_STATUSES, rows, counters
<1>10. ASSUME NEW s \in Sessions, NoProducer(s) PROVE Phases'
  BY <1>10
     DEF NoProducer, Phases, TypeOK, CreatePCs, PatchPCs, DeletePCs, LIVE_STATUSES,
         TERMINAL_STATUSES, RegistryRemove, rows
<1>11. ASSUME NEW s \in Sessions, NEW ok \in BOOLEAN, RollbackRow(s, ok) PROVE Phases'
  BY <1>11
     DEF RollbackRow, Phases, TypeOK, CreatePCs, PatchPCs, DeletePCs, LIVE_STATUSES,
         TERMINAL_STATUSES, counters
<1>12. ASSUME NEW s \in Sessions, NEW ok \in BOOLEAN, RollbackKey(s, ok) PROVE Phases'
  BY <1>12
     DEF RollbackKey, Phases, TypeOK, CreatePCs, PatchPCs, DeletePCs, LIVE_STATUSES,
         TERMINAL_STATUSES, KeysLeft
<1>13. ASSUME NEW s \in Sessions, RegistryInsert(s) PROVE Phases'
  BY <1>13
     DEF RegistryInsert, Phases, TypeOK, CreatePCs, PatchPCs, DeletePCs, LIVE_STATUSES,
         TERMINAL_STATUSES, rows
<1>14. ASSUME NEW s \in Sessions, CreateDropped(s) PROVE Phases'
  BY <1>14
     DEF CreateDropped, Phases, TypeOK, CreatePCs, PatchPCs, DeletePCs, LIVE_STATUSES,
         TERMINAL_STATUSES, KeysLeft, rows, counters
<1>15. ASSUME NEW s \in Sessions, NEW st \in RunnerStatuses, PatchUpdate(s, st)
      PROVE  Phases'
  BY <1>15
     DEF PatchUpdate, Phases, TypeOK, CreatePCs, PatchPCs, DeletePCs, LIVE_STATUSES,
         TERMINAL_STATUSES, RunnerStatuses, RowExists, counters
<1>16. ASSUME NEW s \in Sessions, NEW ok \in BOOLEAN, PatchRelease(s, ok) PROVE Phases'
  BY <1>16
     DEF PatchRelease, Phases, TypeOK, CreatePCs, PatchPCs, DeletePCs, LIVE_STATUSES,
         TERMINAL_STATUSES, RowExists, RegistryRemove, RevokeKey, KeysLeft
<1>17. ASSUME NEW s \in Sessions, NEW ok \in BOOLEAN, PatchEvent(s, ok) PROVE Phases'
  BY <1>17
     DEF PatchEvent, Phases, TypeOK, CreatePCs, PatchPCs, DeletePCs, LIVE_STATUSES,
         TERMINAL_STATUSES, counters
<1>18. ASSUME NEW s \in Sessions, PatchDropped(s) PROVE Phases'
  BY <1>18
     DEF PatchDropped, Phases, TypeOK, CreatePCs, PatchPCs, DeletePCs, LIVE_STATUSES,
         TERMINAL_STATUSES, KeysLeft, rows, counters
<1>19. ASSUME NEW s \in Sessions, DeleteRead(s) PROVE Phases'
  BY <1>19
     DEF DeleteRead, Phases, TypeOK, CreatePCs, PatchPCs, DeletePCs, LIVE_STATUSES,
         TERMINAL_STATUSES, RowExists, RegistryRemove, rows
<1>20. ASSUME NEW s \in Sessions, DeleteCancel(s) PROVE Phases'
  BY <1>20
     DEF DeleteCancel, Phases, TypeOK, CreatePCs, PatchPCs, DeletePCs, LIVE_STATUSES,
         TERMINAL_STATUSES, RowExists, counters
<1>21. ASSUME NEW s \in Sessions, NEW ok \in BOOLEAN, DeleteRelease(s, ok) PROVE Phases'
  BY <1>21
     DEF DeleteRelease, Phases, TypeOK, CreatePCs, PatchPCs, DeletePCs, LIVE_STATUSES,
         TERMINAL_STATUSES, RowExists, RegistryRemove, RevokeKey, KeysLeft
<1>22. ASSUME NEW s \in Sessions, DeleteTerminate(s) PROVE Phases'
  BY <1>22
     DEF DeleteTerminate, Phases, TypeOK, CreatePCs, PatchPCs, DeletePCs,
         LIVE_STATUSES, TERMINAL_STATUSES, rows, counters
<1>23. ASSUME NEW s \in Sessions, DeleteDropped(s) PROVE Phases'
  BY <1>23
     DEF DeleteDropped, Phases, TypeOK, CreatePCs, PatchPCs, DeletePCs, LIVE_STATUSES,
         TERMINAL_STATUSES, KeysLeft, rows, counters
<1>24. ASSUME NEW s \in Sessions, DeleteApiKey(s) PROVE Phases'
  BY <1>24
     DEF DeleteApiKey, Phases, TypeOK, CreatePCs, PatchPCs, DeletePCs, LIVE_STATUSES,
         TERMINAL_STATUSES, RowExists, RevokeKey, KeysLeft, handlers, counters
<1>25. ASSUME NEW ok \in BOOLEAN, Restart(ok) PROVE Phases'
  BY <1>25
     DEF Restart, Phases, TypeOK, CreatePCs, PatchPCs, DeletePCs, LIVE_STATUSES,
         TERMINAL_STATUSES, KeysLeft, rows
<1>26. CASE UNCHANGED vars
  BY <1>26
     DEF vars, Phases, TypeOK, CreatePCs, PatchPCs, DeletePCs, LIVE_STATUSES,
         TERMINAL_STATUSES, rows, handlers, counters
<1>27. QED
  BY <1>1, <1>2, <1>3, <1>4, <1>5, <1>6, <1>7, <1>8, <1>9, <1>10, <1>11, <1>12, <1>13,
     <1>14, <1>15, <1>16, <1>17, <1>18, <1>19, <1>20, <1>21, <1>22, <1>23, <1>24, <1>25,
     <1>26
     DEF Next, CreateSession, PatchSessionStatus, DeleteSession

\* The steps that write to the database; all others leave the rows alone.
Writes(s) ==
    \/ \E ok \in BOOLEAN : \/ InsertRow(s, ok) \/ RollbackRow(s, ok) \/ RollbackKey(s, ok)
                           \/ PatchRelease(s, ok) \/ PatchEvent(s, ok)
                           \/ DeleteRelease(s, ok)
    \/ \E st \in RunnerStatuses : PatchUpdate(s, st)
    \/ DeleteCancel(s) \/ DeleteApiKey(s)

LEMMA RowSteps == [Next]_vars => UNCHANGED rows \/ \E s \in Sessions : Writes(s)
<1> SUFFICES ASSUME [Next]_vars PROVE UNCHANGED rows \/ \E s \in Sessions : Writes(s)
  OBVIOUS
<1>1. ASSUME NEW s \in Sessions, CreateSession(s) PROVE UNCHANGED rows \/ Writes(s)
  BY <1>1
     DEF CreateSession, Writes, Admit, RejectRuntime, RejectInput, RejectActive, Reserve,
         TxFails, PublishStart, PublishFails, NoProducer, RegistryInsert, CreateDropped
<1>2. ASSUME NEW s \in Sessions, PatchSessionStatus(s) PROVE UNCHANGED rows \/ Writes(s)
  BY <1>2 DEF PatchSessionStatus, Writes, PatchDropped
<1>3. ASSUME NEW s \in Sessions, DeleteSession(s) PROVE UNCHANGED rows \/ Writes(s)
  BY <1>3 DEF DeleteSession, Writes, DeleteRead, DeleteTerminate, DeleteDropped
<1>4. ASSUME NEW s \in Sessions, DeleteApiKey(s) PROVE Writes(s)
  BY <1>4 DEF Writes
<1>5. ASSUME NEW configured \in BOOLEAN, Restart(configured) PROVE UNCHANGED rows
  BY <1>5 DEF Restart
<1>6. CASE UNCHANGED vars
  BY <1>6 DEF vars
<1> QED
  BY <1>1, <1>2, <1>3, <1>4, <1>5, <1>6 DEF Next

\* A terminal lifecycle event is written at most once: the guarded UPDATE lets
\* one callback through, and patch never leaves "done".
LEMMA EventStep == TypeOK /\ Phases /\ OneTerminalEvent /\ [Next]_vars => OneTerminalEvent'
<1> SUFFICES ASSUME TypeOK, Phases, OneTerminalEvent, [Next]_vars PROVE OneTerminalEvent'
  OBVIOUS
<1>1. CASE UNCHANGED rows
  BY <1>1 DEF OneTerminalEvent, Phases, TypeOK, LIVE_STATUSES, TERMINAL_STATUSES, rows
<1>2. ASSUME NEW s \in Sessions, NEW ok \in BOOLEAN, InsertRow(s, ok)
      PROVE  OneTerminalEvent'
  BY <1>2 DEF InsertRow, OneTerminalEvent, Phases, TypeOK, LIVE_STATUSES, TERMINAL_STATUSES
<1>3. ASSUME NEW s \in Sessions, NEW ok \in BOOLEAN, RollbackRow(s, ok)
      PROVE  OneTerminalEvent'
  BY <1>3
     DEF RollbackRow, OneTerminalEvent, Phases, TypeOK, LIVE_STATUSES, TERMINAL_STATUSES
<1>4. ASSUME NEW s \in Sessions, NEW ok \in BOOLEAN, RollbackKey(s, ok)
      PROVE  OneTerminalEvent'
  BY <1>4
     DEF RollbackKey, OneTerminalEvent, Phases, TypeOK, LIVE_STATUSES, TERMINAL_STATUSES
<1>5. ASSUME NEW s \in Sessions, NEW ok \in BOOLEAN, PatchRelease(s, ok)
      PROVE  OneTerminalEvent'
  BY <1>5
     DEF PatchRelease, OneTerminalEvent, Phases, TypeOK, LIVE_STATUSES,
         TERMINAL_STATUSES, RevokeKey
<1>6. ASSUME NEW s \in Sessions, NEW ok \in BOOLEAN, PatchEvent(s, ok)
      PROVE  OneTerminalEvent'
  BY <1>6 DEF PatchEvent, OneTerminalEvent, Phases, TypeOK, LIVE_STATUSES, TERMINAL_STATUSES
<1>7. ASSUME NEW s \in Sessions, NEW ok \in BOOLEAN, DeleteRelease(s, ok)
      PROVE  OneTerminalEvent'
  BY <1>7
     DEF DeleteRelease, OneTerminalEvent, Phases, TypeOK, LIVE_STATUSES,
         TERMINAL_STATUSES, RevokeKey
<1>8. ASSUME NEW s \in Sessions, NEW st \in RunnerStatuses, PatchUpdate(s, st)
      PROVE  OneTerminalEvent'
  BY <1>8
     DEF PatchUpdate, RowExists, OneTerminalEvent, Phases, TypeOK, LIVE_STATUSES,
         TERMINAL_STATUSES, RunnerStatuses
<1>9. ASSUME NEW s \in Sessions, DeleteCancel(s)
      PROVE  OneTerminalEvent'
  BY <1>9
     DEF DeleteCancel, OneTerminalEvent, Phases, TypeOK, LIVE_STATUSES, TERMINAL_STATUSES
<1>10. ASSUME NEW s \in Sessions, DeleteApiKey(s)
      PROVE  OneTerminalEvent'
  BY <1>10
     DEF DeleteApiKey, OneTerminalEvent, Phases, TypeOK, LIVE_STATUSES,
         TERMINAL_STATUSES, RevokeKey
<1> QED
  BY <1>1, <1>2, <1>3, <1>4, <1>5, <1>6, <1>7, <1>8, <1>9, <1>10, RowSteps DEF Writes

LEMMA CardMonotone ==
  ASSUME NEW T, IsFiniteSet(T), NEW S, S \subseteq T
  PROVE  Cardinality(S) \in Nat /\ Cardinality(T) \in Nat /\ Cardinality(S) <= Cardinality(T)
BY FS_Subset, FS_CardinalityType

LEMMA CardLess ==
  ASSUME NEW T, IsFiniteSet(T), NEW x \in T, NEW S, S \subseteq T \ {x}
  PROVE  Cardinality(S) \in Nat /\ Cardinality(T) \in Nat
         /\ Cardinality(S) <= Cardinality(T) - 1
<1>1. /\ IsFiniteSet(T \ {x})
      /\ Cardinality(T \ {x}) = Cardinality(T) - 1
  BY FS_RemoveElement
<1>2. Cardinality(S) \in Nat /\ Cardinality(S) <= Cardinality(T \ {x})
  BY <1>1, CardMonotone
<1> QED
  BY <1>1, <1>2, FS_CardinalityType

LEMMA CardMore ==
  ASSUME NEW T, IsFiniteSet(T), NEW x, NEW S, S \subseteq T \cup {x}
  PROVE  Cardinality(S) \in Nat /\ Cardinality(T) \in Nat
         /\ Cardinality(S) <= Cardinality(T) + 1
<1>1. /\ IsFiniteSet(T \cup {x})
      /\ Cardinality(T \cup {x}) \in Nat
      /\ Cardinality(T \cup {x}) <= Cardinality(T) + 1
  <2>1. IsFiniteSet(T \cup {x}) /\ Cardinality(T \cup {x}) =
            IF x \in T THEN Cardinality(T) ELSE Cardinality(T) + 1
    BY FS_AddElement
  <2>2. Cardinality(T) \in Nat
    BY FS_CardinalityType
  <2> QED
    BY <2>1, <2>2
<1>2. Cardinality(S) \in Nat /\ Cardinality(S) <= Cardinality(T \cup {x})
  BY <1>1, CardMonotone
<1> QED
  BY <1>1, <1>2, FS_CardinalityType

LEMMA HoldersFinite ==
  TypeOK => /\ SlotHolders \subseteq Sessions
            /\ IsFiniteSet(SlotHolders)
            /\ Cardinality(SlotHolders) \in Nat
<1> SUFFICES ASSUME TypeOK PROVE SlotHolders \subseteq Sessions
  BY SessionsAssumption, FS_Subset, FS_CardinalityType
<1> QED
  BY DEF TypeOK, SlotHolders

-----------------------------------------------------------------------------
\* Every step keeps a slot for every registered or reserved session: a registry
\* entry is dropped together with its slot, and only create_session's own
\* reservation turns into an entry.
LEMMA SlotStep == TypeOK /\ Phases /\ SlotPerSession /\ [Next]_vars => SlotPerSession'
<1> SUFFICES ASSUME TypeOK, Phases, SlotPerSession, [Next]_vars PROVE SlotPerSession'
  OBVIOUS
<1> activeCount \in Int /\ MaxActive \in Nat
  BY CapsAssumption DEF TypeOK
<1>1. ASSUME NEW s \in Sessions, Admit(s) PROVE SlotPerSession'
  <2>1. SlotHolders' \subseteq SlotHolders /\ activeCount' = activeCount
    BY <1>1 DEF Admit, SlotHolders, TypeOK, rows
  <2> QED
    BY <2>1, HoldersFinite, CardMonotone DEF SlotPerSession
<1>2. ASSUME NEW s \in Sessions, RejectRuntime(s) PROVE SlotPerSession'
  <2>1. SlotHolders' \subseteq SlotHolders /\ activeCount' = activeCount
    BY <1>2 DEF RejectRuntime, SlotHolders, TypeOK, rows, counters
  <2> QED
    BY <2>1, HoldersFinite, CardMonotone DEF SlotPerSession
<1>3. ASSUME NEW s \in Sessions, RejectInput(s) PROVE SlotPerSession'
  <2>1. SlotHolders' \subseteq SlotHolders /\ activeCount' = activeCount
    BY <1>3 DEF RejectInput, SlotHolders, TypeOK, rows
  <2> QED
    BY <2>1, HoldersFinite, CardMonotone DEF SlotPerSession
<1>4. ASSUME NEW s \in Sessions, RejectActive(s) PROVE SlotPerSession'
  <2>1. SlotHolders' \subseteq SlotHolders /\ activeCount' = activeCount
    BY <1>4 DEF RejectActive, SlotHolders, TypeOK, rows
  <2> QED
    BY <2>1, HoldersFinite, CardMonotone DEF SlotPerSession
<1>5. ASSUME NEW s \in Sessions, Reserve(s) PROVE SlotPerSession'
  <2>1. /\ SlotHolders' \subseteq SlotHolders \cup {s}
        /\ activeCount' = activeCount + 1 /\ activeCount < MaxActive
    BY <1>5 DEF Reserve, SlotHolders, TypeOK
  <2>2. Cardinality(SlotHolders') \in Nat /\ Cardinality(SlotHolders') <= Cardinality(SlotHolders) + 1
    BY <2>1, HoldersFinite, CardMore
  <2> QED
    BY <2>1, <2>2, HoldersFinite DEF SlotPerSession
<1>6. ASSUME NEW s \in Sessions, TxFails(s) PROVE SlotPerSession'
  <2>1. SlotHolders' \subseteq SlotHolders /\ activeCount' = activeCount
    BY <1>6 DEF TxFails, SlotHolders, TypeOK, rows, counters
  <2> QED
    BY <2>1, HoldersFinite, CardMonotone DEF SlotPerSession
<1>7. ASSUME NEW s \in Sessions, NEW ok \in BOOLEAN, InsertRow(s, ok)
      PROVE  SlotPerSession'
  <2>1. SlotHolders' \subseteq SlotHolders /\ activeCount' = activeCount
    BY <1>7 DEF InsertRow, SlotHolders, TypeOK, counters
  <2> QED
    BY <2>1, HoldersFinite, CardMonotone DEF SlotPerSession
<1>8. ASSUME NEW s \in Sessions, PublishStart(s) PROVE SlotPerSession'
  <2>1. SlotHolders' \subseteq SlotHolders /\ activeCount' = activeCount
    BY <1>8 DEF PublishStart, SlotHolders, TypeOK, rows, counters
  <2> QED
    BY <2>1, HoldersFinite, CardMonotone DEF SlotPerSession
<1>9. ASSUME NEW s \in Sessions, PublishFails(s) PROVE SlotPerSession'
  <2>1. SlotHolders' \subseteq SlotHolders /\ activeCount' = activeCount
    BY <1>9 DEF PublishFails, SlotHolders, TypeOK, rows, counters
  <2> QED
    BY <2>1, HoldersFinite, CardMonotone DEF SlotPerSession
<1>10. ASSUME NEW s \in Sessions, NoProducer(s) PROVE SlotPerSession'
  <2>1. CASE s \in registry
    <3>1. /\ SlotHolders' \subseteq SlotHolders \ {s} /\ s \in SlotHolders
          /\ activeCount' = activeCount - 1
      BY <2>1, <1>10 DEF NoProducer, SlotHolders, Phases, RegistryRemove, TypeOK, rows
    <3> QED
      BY <3>1, HoldersFinite, CardLess DEF SlotPerSession
  <2>2. CASE s \notin registry
    <3>1. SlotHolders' \subseteq SlotHolders /\ activeCount' = activeCount
      BY <2>2, <1>10 DEF NoProducer, SlotHolders, RegistryRemove, TypeOK, rows
    <3> QED
      BY <3>1, HoldersFinite, CardMonotone DEF SlotPerSession
  <2> QED
    BY <2>1, <2>2
<1>11. ASSUME NEW s \in Sessions, NEW ok \in BOOLEAN, RollbackRow(s, ok)
      PROVE  SlotPerSession'
  <2>1. SlotHolders' \subseteq SlotHolders /\ activeCount' = activeCount
    BY <1>11 DEF RollbackRow, SlotHolders, TypeOK, counters
  <2> QED
    BY <2>1, HoldersFinite, CardMonotone DEF SlotPerSession
<1>12. ASSUME NEW s \in Sessions, NEW ok \in BOOLEAN, RollbackKey(s, ok)
      PROVE  SlotPerSession'
  <2>1. SlotHolders' \subseteq SlotHolders /\ activeCount' = activeCount
    BY <1>12 DEF RollbackKey, SlotHolders, TypeOK
  <2> QED
    BY <2>1, HoldersFinite, CardMonotone DEF SlotPerSession
<1>13. ASSUME NEW s \in Sessions, RegistryInsert(s) PROVE SlotPerSession'
  <2>1. SlotHolders' \subseteq SlotHolders /\ activeCount' = activeCount
    BY <1>13 DEF RegistryInsert, SlotHolders, TypeOK, rows
  <2> QED
    BY <2>1, HoldersFinite, CardMonotone DEF SlotPerSession
<1>14. ASSUME NEW s \in Sessions, CreateDropped(s) PROVE SlotPerSession'
  <2>1. SlotHolders' \subseteq SlotHolders /\ activeCount' = activeCount
    BY <1>14 DEF CreateDropped, SlotHolders, TypeOK, rows, counters
  <2> QED
    BY <2>1, HoldersFinite, CardMonotone DEF SlotPerSession
<1>15. ASSUME NEW s \in Sessions, NEW st \in RunnerStatuses, PatchUpdate(s, st)
      PROVE  SlotPerSession'
  <2>1. SlotHolders' \subseteq SlotHolders /\ activeCount' = activeCount
    BY <1>15 DEF PatchUpdate, SlotHolders, TypeOK, counters
  <2> QED
    BY <2>1, HoldersFinite, CardMonotone DEF SlotPerSession
<1>16. ASSUME NEW s \in Sessions, NEW ok \in BOOLEAN, PatchRelease(s, ok)
      PROVE  SlotPerSession'
  <2>1. CASE s \in registry
    <3>1. /\ SlotHolders' \subseteq SlotHolders \ {s} /\ s \in SlotHolders
          /\ activeCount' = activeCount - 1
      BY <2>1, <1>16 DEF PatchRelease, SlotHolders, Phases, RegistryRemove, TypeOK
    <3> QED
      BY <3>1, HoldersFinite, CardLess DEF SlotPerSession
  <2>2. CASE s \notin registry
    <3>1. SlotHolders' \subseteq SlotHolders /\ activeCount' = activeCount
      BY <2>2, <1>16 DEF PatchRelease, SlotHolders, RegistryRemove, TypeOK
    <3> QED
      BY <3>1, HoldersFinite, CardMonotone DEF SlotPerSession
  <2> QED
    BY <2>1, <2>2
<1>17. ASSUME NEW s \in Sessions, NEW ok \in BOOLEAN, PatchEvent(s, ok)
      PROVE  SlotPerSession'
  <2>1. SlotHolders' \subseteq SlotHolders /\ activeCount' = activeCount
    BY <1>17 DEF PatchEvent, SlotHolders, TypeOK, counters
  <2> QED
    BY <2>1, HoldersFinite, CardMonotone DEF SlotPerSession
<1>18. ASSUME NEW s \in Sessions, PatchDropped(s) PROVE SlotPerSession'
  <2>1. SlotHolders' \subseteq SlotHolders /\ activeCount' = activeCount
    BY <1>18 DEF PatchDropped, SlotHolders, TypeOK, rows, counters
  <2> QED
    BY <2>1, HoldersFinite, CardMonotone DEF SlotPerSession
<1>19. ASSUME NEW s \in Sessions, DeleteRead(s) PROVE SlotPerSession'
  <2>1. CASE row[s] \in TERMINAL_STATUSES /\ RegistryRemove(s)
    <3>1. CASE s \in registry
      <4>1. /\ SlotHolders' \subseteq SlotHolders \ {s} /\ s \in SlotHolders
            /\ activeCount' = activeCount - 1
        BY <3>1, <2>1, <1>19
           DEF DeleteRead, SlotHolders, Phases, RegistryRemove, TypeOK, rows
      <4> QED
        BY <4>1, HoldersFinite, CardLess DEF SlotPerSession
    <3>2. CASE s \notin registry
      <4>1. SlotHolders' \subseteq SlotHolders /\ activeCount' = activeCount
        BY <3>2, <2>1, <1>19 DEF DeleteRead, SlotHolders, RegistryRemove, TypeOK, rows
      <4> QED
        BY <4>1, HoldersFinite, CardMonotone DEF SlotPerSession
    <3> QED
      BY <3>1, <3>2
  <2>2. CASE UNCHANGED <<activeCount, registry>>
    <3>1. SlotHolders' \subseteq SlotHolders /\ activeCount' = activeCount
      BY <2>2, <1>19 DEF DeleteRead, SlotHolders
    <3> QED
      BY <3>1, HoldersFinite, CardMonotone DEF SlotPerSession
  <2> QED
    BY <2>1, <2>2, <1>19 DEF DeleteRead
<1>20. ASSUME NEW s \in Sessions, DeleteCancel(s) PROVE SlotPerSession'
  <2>1. SlotHolders' \subseteq SlotHolders /\ activeCount' = activeCount
    BY <1>20 DEF DeleteCancel, SlotHolders, TypeOK, counters
  <2> QED
    BY <2>1, HoldersFinite, CardMonotone DEF SlotPerSession
<1>21. ASSUME NEW s \in Sessions, NEW ok \in BOOLEAN, DeleteRelease(s, ok)
      PROVE  SlotPerSession'
  <2>1. CASE s \in registry
    <3>1. /\ SlotHolders' \subseteq SlotHolders \ {s} /\ s \in SlotHolders
          /\ activeCount' = activeCount - 1
      BY <2>1, <1>21 DEF DeleteRelease, SlotHolders, Phases, RegistryRemove, TypeOK
    <3> QED
      BY <3>1, HoldersFinite, CardLess DEF SlotPerSession
  <2>2. CASE s \notin registry
    <3>1. SlotHolders' \subseteq SlotHolders /\ activeCount' = activeCount
      BY <2>2, <1>21 DEF DeleteRelease, SlotHolders, RegistryRemove, TypeOK
    <3> QED
      BY <3>1, HoldersFinite, CardMonotone DEF SlotPerSession
  <2> QED
    BY <2>1, <2>2
<1>22. ASSUME NEW s \in Sessions, DeleteTerminate(s) PROVE SlotPerSession'
  <2>1. SlotHolders' \subseteq SlotHolders /\ activeCount' = activeCount
    BY <1>22 DEF DeleteTerminate, SlotHolders, TypeOK, rows, counters
  <2> QED
    BY <2>1, HoldersFinite, CardMonotone DEF SlotPerSession
<1>23. ASSUME NEW s \in Sessions, DeleteDropped(s) PROVE SlotPerSession'
  <2>1. SlotHolders' \subseteq SlotHolders /\ activeCount' = activeCount
    BY <1>23 DEF DeleteDropped, SlotHolders, TypeOK, rows, counters
  <2> QED
    BY <2>1, HoldersFinite, CardMonotone DEF SlotPerSession
<1>24. ASSUME NEW s \in Sessions, DeleteApiKey(s) PROVE SlotPerSession'
  <2>1. SlotHolders' \subseteq SlotHolders /\ activeCount' = activeCount
    BY <1>24 DEF DeleteApiKey, SlotHolders, TypeOK, handlers, counters
  <2> QED
    BY <2>1, HoldersFinite, CardMonotone DEF SlotPerSession
<1>25. ASSUME NEW ok \in BOOLEAN, Restart(ok) PROVE SlotPerSession'
  <2>1. SlotHolders' = {} /\ activeCount' = 0
    BY <1>25 DEF Restart, SlotHolders, TypeOK
  <2> QED
    BY <2>1, FS_EmptySet DEF SlotPerSession
<1>26. CASE UNCHANGED vars
  BY <1>26 DEF vars, SlotPerSession, SlotHolders, rows, handlers, counters
<1>27. QED
  BY <1>1, <1>2, <1>3, <1>4, <1>5, <1>6, <1>7, <1>8, <1>9, <1>10, <1>11, <1>12, <1>13,
     <1>14, <1>15, <1>16, <1>17, <1>18, <1>19, <1>20, <1>21, <1>22, <1>23, <1>24, <1>25,
     <1>26
     DEF Next, CreateSession, PatchSessionStatus, DeleteSession
-----------------------------------------------------------------------------
(* The tenant's cap. *)

LEMMA ChargedFinite ==
  ASSUME NEW t
  PROVE  /\ IsFiniteSet(Charged(t)) /\ Cardinality(Charged(t)) \in Nat
         /\ IsFiniteSet(Overdrawn(t)) /\ Cardinality(Overdrawn(t)) \in Nat
<1>1. Charged(t) \subseteq Sessions /\ Overdrawn(t) \subseteq Sessions
  BY DEF Charged, Overdrawn, SessionsOf
<1> QED
  BY <1>1, SessionsAssumption, FS_Subset, FS_CardinalityType

LEMMA ChargedFinitePrime ==
  ASSUME NEW t
  PROVE  /\ IsFiniteSet(Charged(t)') /\ Cardinality(Charged(t)') \in Nat
         /\ IsFiniteSet(Overdrawn(t)') /\ Cardinality(Overdrawn(t)') \in Nat
<1>1. Charged(t)' \subseteq Sessions /\ Overdrawn(t)' \subseteq Sessions
  BY DEF Charged, Overdrawn, SessionsOf
<1> QED
  BY <1>1, SessionsAssumption, FS_Subset, FS_CardinalityType

\* CapAt(t) survives a step that charges no more than it adds to the other side.
LEMMA CapMoves ==
  ASSUME TypeOK, TypeOK', NEW t \in Tenants, CapAt(t), boots' = boots,
         tenantCount'[t] <= TenantCap,
         Cardinality(Charged(t)') + tenantCount[t] + Cardinality(Overdrawn(t))
             <= Cardinality(Charged(t)) + tenantCount'[t] + Cardinality(Overdrawn(t)')
  PROVE  CapAt(t)'
<1> DEFINE K == TenantCap * (boots - 1)
<1>1. K \in Int /\ TenantCap * (boots' - 1) = K
  BY CapsAssumption DEF TypeOK
<1> HIDE DEF K
<1>2. /\ tenantCount[t] \in Nat /\ tenantCount'[t] \in Nat
      /\ Cardinality(Charged(t)) <= tenantCount[t] + K + Cardinality(Overdrawn(t))
  BY DEF TypeOK, CapAt, K
<1>3. Cardinality(Charged(t)') <= tenantCount'[t] + K + Cardinality(Overdrawn(t)')
  BY <1>1, <1>2, ChargedFinite, ChargedFinitePrime
<1> QED
  BY <1>1, <1>3 DEF CapAt

LEMMA CapKeeps ==
  ASSUME TypeOK, TypeOK', NEW t \in Tenants, CapAt(t), boots' = boots,
         Charged(t)' \subseteq Charged(t), Overdrawn(t) \subseteq Overdrawn(t)',
         tenantCount'[t] = tenantCount[t]
  PROVE  CapAt(t)'
<1>1. Cardinality(Charged(t)') <= Cardinality(Charged(t))
  BY ChargedFinite, CardMonotone
<1>2. Cardinality(Overdrawn(t)) <= Cardinality(Overdrawn(t)')
  BY ChargedFinitePrime, CardMonotone
<1>3. tenantCount[t] \in Nat /\ tenantCount[t] <= TenantCap
  BY DEF TypeOK, CapAt
<1>4. Cardinality(Charged(t)') + tenantCount[t] + Cardinality(Overdrawn(t))
        <= Cardinality(Charged(t)) + tenantCount'[t] + Cardinality(Overdrawn(t)')
  BY <1>1, <1>2, <1>3, ChargedFinite, ChargedFinitePrime
<1> QED
  BY <1>3, <1>4, CapMoves

\* try_increment takes a slot for one more session.
LEMMA CapTakes ==
  ASSUME TypeOK, TypeOK', NEW t \in Tenants, CapAt(t), boots' = boots, NEW s,
         Charged(t)' \subseteq Charged(t) \cup {s}, Overdrawn(t) \subseteq Overdrawn(t)',
         tenantCount[t] < TenantCap, tenantCount'[t] = tenantCount[t] + 1
  PROVE  CapAt(t)'
<1>1. Cardinality(Charged(t)') <= Cardinality(Charged(t)) + 1
  BY ChargedFinite, CardMore
<1>2. Cardinality(Overdrawn(t)) <= Cardinality(Overdrawn(t)')
  BY ChargedFinitePrime, CardMonotone
<1>3. tenantCount[t] \in Nat /\ tenantCount'[t] <= TenantCap
  BY CapsAssumption DEF TypeOK, CapAt
<1>4. Cardinality(Charged(t)') + tenantCount[t] + Cardinality(Overdrawn(t))
        <= Cardinality(Charged(t)) + tenantCount'[t] + Cardinality(Overdrawn(t)')
  BY <1>1, <1>2, <1>3, ChargedFinite, ChargedFinitePrime
<1> QED
  BY <1>3, <1>4, CapMoves

\* decrement gives back the slot of a charged session, or of one more overdrawn.
LEMMA CapGives ==
  ASSUME TypeOK, TypeOK', NEW t \in Tenants, CapAt(t), boots' = boots, NEW s,
         \/ /\ s \in Charged(t) /\ Charged(t)' \subseteq Charged(t) \ {s}
            /\ Overdrawn(t) \subseteq Overdrawn(t)'
         \/ /\ Charged(t)' \subseteq Charged(t)
            /\ s \in Overdrawn(t)' /\ Overdrawn(t) \subseteq Overdrawn(t)' \ {s},
         tenantCount'[t] = IF tenantCount[t] = 0 THEN 0 ELSE tenantCount[t] - 1
  PROVE  CapAt(t)'
<1>1. Cardinality(Charged(t)') + Cardinality(Overdrawn(t)) + 1
        <= Cardinality(Charged(t)) + Cardinality(Overdrawn(t)')
  <2>1. CASE /\ s \in Charged(t) /\ Charged(t)' \subseteq Charged(t) \ {s}
             /\ Overdrawn(t) \subseteq Overdrawn(t)'
    <3>1. Cardinality(Charged(t)') <= Cardinality(Charged(t)) - 1
      BY <2>1, ChargedFinite, CardLess
    <3>2. Cardinality(Overdrawn(t)) <= Cardinality(Overdrawn(t)')
      BY <2>1, ChargedFinitePrime, CardMonotone
    <3> QED
      BY <3>1, <3>2, ChargedFinite, ChargedFinitePrime
  <2>2. CASE /\ Charged(t)' \subseteq Charged(t)
             /\ s \in Overdrawn(t)' /\ Overdrawn(t) \subseteq Overdrawn(t)' \ {s}
    <3>1. Cardinality(Charged(t)') <= Cardinality(Charged(t))
      BY <2>2, ChargedFinite, CardMonotone
    <3>2. Cardinality(Overdrawn(t)) <= Cardinality(Overdrawn(t)') - 1
      BY <2>2, ChargedFinitePrime, CardLess
    <3> QED
      BY <3>1, <3>2, ChargedFinite, ChargedFinitePrime
  <2> QED
    BY <2>1, <2>2
<1>2. /\ tenantCount[t] \in Nat /\ tenantCount'[t] \in Nat /\ tenantCount[t] <= TenantCap
      /\ tenantCount'[t] <= tenantCount[t] /\ tenantCount[t] <= tenantCount'[t] + 1
  BY DEF TypeOK, CapAt
<1>3. Cardinality(Charged(t)') + tenantCount[t] + Cardinality(Overdrawn(t))
        <= Cardinality(Charged(t)) + tenantCount'[t] + Cardinality(Overdrawn(t)')
  BY <1>1, <1>2, ChargedFinite, ChargedFinitePrime
<1> QED
  BY <1>2, <1>3, CapMoves, CapsAssumption

\* Every step keeps each tenant's live rows within the slots that the counter,
\* the earlier starts of the process and the failed publishes account for.
LEMMA CapStep == TypeOK /\ TypeOK' /\ Phases /\ CapInv /\ [Next]_vars => CapInv'
<1> SUFFICES ASSUME TypeOK, TypeOK', Phases, CapInv, [Next]_vars PROVE CapInv'
  OBVIOUS
<1> SUFFICES ASSUME NEW t \in Tenants PROVE CapAt(t)'
  BY DEF CapInv
<1>0. CapAt(t)
  BY DEF CapInv
<1> USE <1>0
<1>1. ASSUME NEW s \in Sessions, Admit(s) PROVE CapAt(t)'
  <2>1. CASE t # TenantOf[s]
    <3>1. /\ Charged(t)' \subseteq Charged(t) /\ Overdrawn(t) \subseteq Overdrawn(t)'
          /\ tenantCount'[t] = tenantCount[t] /\ boots' = boots
      BY <2>1, <1>1 DEF Admit, Charged, Overdrawn, SessionsOf, TypeOK, rows
    <3> QED
      BY <3>1, CapKeeps
  <2>2. CASE t = TenantOf[s]
    <3>1. /\ Charged(t)' \subseteq Charged(t) \cup {s} /\ Overdrawn(t) \subseteq Overdrawn(t)'
          /\ tenantCount[t] < TenantCap /\ tenantCount'[t] = tenantCount[t] + 1
          /\ boots' = boots
      BY <2>2, <1>1 DEF Admit, Charged, Overdrawn, SessionsOf, TypeOK, rows
    <3> QED
      BY <3>1, CapTakes
  <2> QED
    BY <2>1, <2>2
<1>2. ASSUME NEW s \in Sessions, RejectRuntime(s) PROVE CapAt(t)'
  <2>1. /\ Charged(t)' \subseteq Charged(t) /\ Overdrawn(t) \subseteq Overdrawn(t)'
        /\ tenantCount'[t] = tenantCount[t] /\ boots' = boots
    BY <1>2
       DEF RejectRuntime, Charged, Overdrawn, SessionsOf, Phases, TypeOK,
           LIVE_STATUSES, TERMINAL_STATUSES, rows, counters
  <2> QED
    BY <2>1, CapKeeps
<1>3. ASSUME NEW s \in Sessions, RejectInput(s) PROVE CapAt(t)'
  <2>1. CASE t # TenantOf[s]
    <3>1. /\ Charged(t)' \subseteq Charged(t) /\ Overdrawn(t) \subseteq Overdrawn(t)'
          /\ tenantCount'[t] = tenantCount[t] /\ boots' = boots
      BY <2>1, <1>3
         DEF RejectInput, Charged, Overdrawn, SessionsOf, TypeOK, Decrement, rows
    <3> QED
      BY <3>1, CapKeeps
  <2>2. CASE t = TenantOf[s]
    <3>1. /\ s \in Charged(t) /\ Charged(t)' \subseteq Charged(t) \ {s}
          /\ Overdrawn(t) \subseteq Overdrawn(t)'
          /\ tenantCount'[t] = IF tenantCount[t] = 0 THEN 0 ELSE tenantCount[t] - 1
          /\ boots' = boots
      BY <2>2, <1>3
         DEF RejectInput, Charged, Overdrawn, SessionsOf, Phases, TypeOK, Decrement,
             LIVE_STATUSES, TERMINAL_STATUSES, rows
    <3> QED
      BY <3>1, CapGives
  <2> QED
    BY <2>1, <2>2
<1>4. ASSUME NEW s \in Sessions, RejectActive(s) PROVE CapAt(t)'
  <2>1. CASE t # TenantOf[s]
    <3>1. /\ Charged(t)' \subseteq Charged(t) /\ Overdrawn(t) \subseteq Overdrawn(t)'
          /\ tenantCount'[t] = tenantCount[t] /\ boots' = boots
      BY <2>1, <1>4
         DEF RejectActive, Charged, Overdrawn, SessionsOf, TypeOK, Decrement, rows
    <3> QED
      BY <3>1, CapKeeps
  <2>2. CASE t = TenantOf[s]
    <3>1. /\ s \in Charged(t) /\ Charged(t)' \subseteq Charged(t) \ {s}
          /\ Overdrawn(t) \subseteq Overdrawn(t)'
          /\ tenantCount'[t] = IF tenantCount[t] = 0 THEN 0 ELSE tenantCount[t] - 1
          /\ boots' = boots
      BY <2>2, <1>4
         DEF RejectActive, Charged, Overdrawn, SessionsOf, Phases, TypeOK, Decrement,
             LIVE_STATUSES, TERMINAL_STATUSES, rows
    <3> QED
      BY <3>1, CapGives
  <2> QED
    BY <2>1, <2>2
<1>5. ASSUME NEW s \in Sessions, Reserve(s) PROVE CapAt(t)'
  <2>1. /\ Charged(t)' \subseteq Charged(t) /\ Overdrawn(t) \subseteq Overdrawn(t)'
        /\ tenantCount'[t] = tenantCount[t] /\ boots' = boots
    BY <1>5
       DEF Reserve, Charged, Overdrawn, SessionsOf, Phases, TypeOK, LIVE_STATUSES,
           TERMINAL_STATUSES, rows
  <2> QED
    BY <2>1, CapKeeps
<1>6. ASSUME NEW s \in Sessions, TxFails(s) PROVE CapAt(t)'
  <2>1. /\ Charged(t)' \subseteq Charged(t) /\ Overdrawn(t) \subseteq Overdrawn(t)'
        /\ tenantCount'[t] = tenantCount[t] /\ boots' = boots
    BY <1>6
       DEF TxFails, Charged, Overdrawn, SessionsOf, Phases, TypeOK, LIVE_STATUSES,
           TERMINAL_STATUSES, rows, counters
  <2> QED
    BY <2>1, CapKeeps
<1>7. ASSUME NEW s \in Sessions, NEW ok \in BOOLEAN, InsertRow(s, ok) PROVE CapAt(t)'
  <2>1. /\ Charged(t)' \subseteq Charged(t) /\ Overdrawn(t) \subseteq Overdrawn(t)'
        /\ tenantCount'[t] = tenantCount[t] /\ boots' = boots
    BY <1>7
       DEF InsertRow, Charged, Overdrawn, SessionsOf, Phases, TypeOK, LIVE_STATUSES,
           TERMINAL_STATUSES, counters
  <2> QED
    BY <2>1, CapKeeps
<1>8. ASSUME NEW s \in Sessions, PublishStart(s) PROVE CapAt(t)'
  <2>1. /\ Charged(t)' \subseteq Charged(t) /\ Overdrawn(t) \subseteq Overdrawn(t)'
        /\ tenantCount'[t] = tenantCount[t] /\ boots' = boots
    BY <1>8
       DEF PublishStart, Charged, Overdrawn, SessionsOf, Phases, TypeOK, LIVE_STATUSES,
           TERMINAL_STATUSES, rows, counters
  <2> QED
    BY <2>1, CapKeeps
<1>9. ASSUME NEW s \in Sessions, PublishFails(s) PROVE CapAt(t)'
  <2>1. /\ Charged(t)' \subseteq Charged(t) /\ Overdrawn(t) \subseteq Overdrawn(t)'
        /\ tenantCount'[t] = tenantCount[t] /\ boots' = boots
    BY <1>9
       DEF PublishFails, Charged, Overdrawn, SessionsOf, Phases, TypeOK, LIVE_STATUSES,
           TERMINAL_STATUSES, rows, counters
  <2> QED
    BY <2>1, CapKeeps
<1>10. ASSUME NEW s \in Sessions, NoProducer(s) PROVE CapAt(t)'
  <2>1. CASE t # TenantOf[s]
    <3>1. /\ Charged(t)' \subseteq Charged(t) /\ Overdrawn(t) \subseteq Overdrawn(t)'
          /\ tenantCount'[t] = tenantCount[t] /\ boots' = boots
      BY <2>1, <1>10
         DEF NoProducer, Charged, Overdrawn, SessionsOf, TypeOK, Decrement, rows
    <3> QED
      BY <3>1, CapKeeps
  <2>2. CASE t = TenantOf[s]
    <3>1. /\ Charged(t)' \subseteq Charged(t)
          /\ s \in Overdrawn(t)' /\ Overdrawn(t) \subseteq Overdrawn(t)' \ {s}
          /\ tenantCount'[t] = IF tenantCount[t] = 0 THEN 0 ELSE tenantCount[t] - 1
          /\ boots' = boots
      BY <2>2, <1>10
         DEF NoProducer, Charged, Overdrawn, SessionsOf, Phases, TypeOK, Decrement,
             LIVE_STATUSES, TERMINAL_STATUSES, rows
    <3> QED
      BY <3>1, CapGives
  <2> QED
    BY <2>1, <2>2
<1>11. ASSUME NEW s \in Sessions, NEW ok \in BOOLEAN, RollbackRow(s, ok) PROVE CapAt(t)'
  <2>1. /\ Charged(t)' \subseteq Charged(t) /\ Overdrawn(t) \subseteq Overdrawn(t)'
        /\ tenantCount'[t] = tenantCount[t] /\ boots' = boots
    BY <1>11
       DEF RollbackRow, Charged, Overdrawn, SessionsOf, Phases, TypeOK, LIVE_STATUSES,
           TERMINAL_STATUSES, counters
  <2> QED
    BY <2>1, CapKeeps
<1>12. ASSUME NEW s \in Sessions, NEW ok \in BOOLEAN, RollbackKey(s, ok) PROVE CapAt(t)'
  <2>1. CASE t # TenantOf[s]
    <3>1. /\ Charged(t)' \subseteq Charged(t) /\ Overdrawn(t) \subseteq Overdrawn(t)'
          /\ tenantCount'[t] = tenantCount[t] /\ boots' = boots
      BY <2>1, <1>12 DEF RollbackKey, Charged, Overdrawn, SessionsOf, TypeOK, Decrement
    <3> QED
      BY <3>1, CapKeeps
  <2>2. CASE t = TenantOf[s]
    <3>1. /\ tenantCount'[t] = IF tenantCount[t] = 0 THEN 0 ELSE tenantCount[t] - 1
          /\ boots' = boots
      BY <2>2, <1>12 DEF RollbackKey, TypeOK, Decrement
    <3>2. CASE s \in overdrawn
      <4>1. /\ Charged(t)' \subseteq Charged(t)
            /\ s \in Overdrawn(t)' /\ Overdrawn(t) \subseteq Overdrawn(t)' \ {s}
        BY <2>2, <3>2, <1>12
           DEF RollbackKey, Charged, Overdrawn, SessionsOf, TypeOK, LIVE_STATUSES
      <4> QED
        BY <3>1, <4>1, CapGives
    <3>3. CASE s \notin overdrawn
      <4>1. /\ s \in Charged(t) /\ Charged(t)' \subseteq Charged(t) \ {s}
            /\ Overdrawn(t) \subseteq Overdrawn(t)'
        BY <2>2, <3>3, <1>12
           DEF RollbackKey, Charged, Overdrawn, SessionsOf, Phases, TypeOK,
               LIVE_STATUSES
      <4> QED
        BY <3>1, <4>1, CapGives
    <3> QED
      BY <3>2, <3>3
  <2> QED
    BY <2>1, <2>2
<1>13. ASSUME NEW s \in Sessions, RegistryInsert(s) PROVE CapAt(t)'
  <2>1. /\ Charged(t)' \subseteq Charged(t) /\ Overdrawn(t) \subseteq Overdrawn(t)'
        /\ tenantCount'[t] = tenantCount[t] /\ boots' = boots
    BY <1>13
       DEF RegistryInsert, Charged, Overdrawn, SessionsOf, Phases, TypeOK,
           LIVE_STATUSES, TERMINAL_STATUSES, rows
  <2> QED
    BY <2>1, CapKeeps
<1>14. ASSUME NEW s \in Sessions, CreateDropped(s) PROVE CapAt(t)'
  <2>1. /\ Charged(t)' \subseteq Charged(t) /\ Overdrawn(t) \subseteq Overdrawn(t)'
        /\ tenantCount'[t] = tenantCount[t] /\ boots' = boots
    BY <1>14
       DEF CreateDropped, Charged, Overdrawn, SessionsOf, Phases, TypeOK,
           LIVE_STATUSES, TERMINAL_STATUSES, rows, counters
  <2> QED
    BY <2>1, CapKeeps
<1>15. ASSUME NEW s \in Sessions, NEW st \in RunnerStatuses, PatchUpdate(s, st)
      PROVE  CapAt(t)'
  <2>1. /\ Charged(t)' \subseteq Charged(t) /\ Overdrawn(t) \subseteq Overdrawn(t)'
        /\ tenantCount'[t] = tenantCount[t] /\ boots' = boots
    BY <1>15
       DEF PatchUpdate, Charged, Overdrawn, SessionsOf, Phases, TypeOK, LIVE_STATUSES,
           TERMINAL_STATUSES, RunnerStatuses, RowExists, counters
  <2> QED
    BY <2>1, CapKeeps
<1>16. ASSUME NEW s \in Sessions, NEW ok \in BOOLEAN, PatchRelease(s, ok)
      PROVE  CapAt(t)'
  <2>1. CASE t # TenantOf[s]
    <3>1. /\ Charged(t)' \subseteq Charged(t) /\ Overdrawn(t) \subseteq Overdrawn(t)'
          /\ tenantCount'[t] = tenantCount[t] /\ boots' = boots
      BY <2>1, <1>16 DEF PatchRelease, Charged, Overdrawn, SessionsOf, TypeOK, Decrement
    <3> QED
      BY <3>1, CapKeeps
  <2>2. CASE t = TenantOf[s]
    <3>1. /\ s \in Charged(t) /\ Charged(t)' \subseteq Charged(t) \ {s}
          /\ Overdrawn(t) \subseteq Overdrawn(t)'
          /\ tenantCount'[t] = IF tenantCount[t] = 0 THEN 0 ELSE tenantCount[t] - 1
          /\ boots' = boots
      BY <2>2, <1>16
         DEF PatchRelease, Charged, Overdrawn, SessionsOf, Phases, TypeOK, Decrement,
             LIVE_STATUSES, TERMINAL_STATUSES, RowExists
    <3> QED
      BY <3>1, CapGives
  <2> QED
    BY <2>1, <2>2
<1>17. ASSUME NEW s \in Sessions, NEW ok \in BOOLEAN, PatchEvent(s, ok) PROVE CapAt(t)'
  <2>1. /\ Charged(t)' \subseteq Charged(t) /\ Overdrawn(t) \subseteq Overdrawn(t)'
        /\ tenantCount'[t] = tenantCount[t] /\ boots' = boots
    BY <1>17
       DEF PatchEvent, Charged, Overdrawn, SessionsOf, Phases, TypeOK, LIVE_STATUSES,
           TERMINAL_STATUSES, counters
  <2> QED
    BY <2>1, CapKeeps
<1>18. ASSUME NEW s \in Sessions, PatchDropped(s) PROVE CapAt(t)'
  <2>1. /\ Charged(t)' \subseteq Charged(t) /\ Overdrawn(t) \subseteq Overdrawn(t)'
        /\ tenantCount'[t] = tenantCount[t] /\ boots' = boots
    BY <1>18
       DEF PatchDropped, Charged, Overdrawn, SessionsOf, Phases, TypeOK, LIVE_STATUSES,
           TERMINAL_STATUSES, rows, counters
  <2> QED
    BY <2>1, CapKeeps
<1>19. ASSUME NEW s \in Sessions, DeleteRead(s) PROVE CapAt(t)'
  <2>1. /\ Charged(t)' \subseteq Charged(t) /\ Overdrawn(t) \subseteq Overdrawn(t)'
        /\ tenantCount'[t] = tenantCount[t] /\ boots' = boots
    BY <1>19
       DEF DeleteRead, Charged, Overdrawn, SessionsOf, Phases, TypeOK, LIVE_STATUSES,
           TERMINAL_STATUSES, RowExists, rows
  <2> QED
    BY <2>1, CapKeeps
<1>20. ASSUME NEW s \in Sessions, DeleteCancel(s) PROVE CapAt(t)'
  <2>1. /\ Charged(t)' \subseteq Charged(t) /\ Overdrawn(t) \subseteq Overdrawn(t)'
        /\ tenantCount'[t] = tenantCount[t] /\ boots' = boots
    BY <1>20
       DEF DeleteCancel, Charged, Overdrawn, SessionsOf, Phases, TypeOK, LIVE_STATUSES,
           TERMINAL_STATUSES, RowExists, counters
  <2> QED
    BY <2>1, CapKeeps
<1>21. ASSUME NEW s \in Sessions, NEW ok \in BOOLEAN, DeleteRelease(s, ok)
      PROVE  CapAt(t)'
  <2>1. /\ Charged(t)' \subseteq Charged(t) /\ Overdrawn(t) \subseteq Overdrawn(t)'
        /\ tenantCount'[t] = tenantCount[t] /\ boots' = boots
    BY <1>21
       DEF DeleteRelease, Charged, Overdrawn, SessionsOf, Phases, TypeOK,
           LIVE_STATUSES, TERMINAL_STATUSES, RowExists
  <2> QED
    BY <2>1, CapKeeps
<1>22. ASSUME NEW s \in Sessions, DeleteTerminate(s) PROVE CapAt(t)'
  <2>1. /\ Charged(t)' \subseteq Charged(t) /\ Overdrawn(t) \subseteq Overdrawn(t)'
        /\ tenantCount'[t] = tenantCount[t] /\ boots' = boots
    BY <1>22
       DEF DeleteTerminate, Charged, Overdrawn, SessionsOf, Phases, TypeOK,
           LIVE_STATUSES, TERMINAL_STATUSES, rows, counters
  <2> QED
    BY <2>1, CapKeeps
<1>23. ASSUME NEW s \in Sessions, DeleteDropped(s) PROVE CapAt(t)'
  <2>1. /\ Charged(t)' \subseteq Charged(t) /\ Overdrawn(t) \subseteq Overdrawn(t)'
        /\ tenantCount'[t] = tenantCount[t] /\ boots' = boots
    BY <1>23
       DEF DeleteDropped, Charged, Overdrawn, SessionsOf, Phases, TypeOK,
           LIVE_STATUSES, TERMINAL_STATUSES, rows, counters
  <2> QED
    BY <2>1, CapKeeps
<1>24. ASSUME NEW s \in Sessions, DeleteApiKey(s) PROVE CapAt(t)'
  <2>1. /\ Charged(t)' \subseteq Charged(t) /\ Overdrawn(t) \subseteq Overdrawn(t)'
        /\ tenantCount'[t] = tenantCount[t] /\ boots' = boots
    BY <1>24
       DEF DeleteApiKey, Charged, Overdrawn, SessionsOf, Phases, TypeOK, LIVE_STATUSES,
           TERMINAL_STATUSES, RowExists, handlers, counters
  <2> QED
    BY <2>1, CapKeeps
<1>25. ASSUME NEW ok \in BOOLEAN, Restart(ok) PROVE CapAt(t)'
  <2>1. /\ Charged(t)' \subseteq Charged(t) /\ Overdrawn(t) \subseteq Overdrawn(t)'
        /\ tenantCount'[t] = 0 /\ boots' = boots + 1
    BY <1>25
       DEF Restart, Charged, Overdrawn, SessionsOf, Phases, TypeOK, LIVE_STATUSES, rows
  <2>2. /\ Cardinality(Charged(t)') <= Cardinality(Charged(t))
        /\ Cardinality(Overdrawn(t)) <= Cardinality(Overdrawn(t)')
    BY <2>1, ChargedFinite, ChargedFinitePrime, CardMonotone
  <2> DEFINE K == TenantCap * (boots - 1)
  <2>3. K \in Int /\ TenantCap * (boots' - 1) = K + TenantCap
    BY <2>1, CapsAssumption DEF TypeOK
  <2> HIDE DEF K
  <2>4. /\ tenantCount[t] \in Nat /\ tenantCount[t] <= TenantCap
        /\ Cardinality(Charged(t)) <= tenantCount[t] + K + Cardinality(Overdrawn(t))
    BY DEF TypeOK, CapAt, K
  <2>5. Cardinality(Charged(t)') <= (K + TenantCap) + Cardinality(Overdrawn(t)')
    BY <2>2, <2>3, <2>4, ChargedFinite, ChargedFinitePrime, CapsAssumption
  <2> QED
    BY <2>1, <2>3, <2>5, CapsAssumption, ChargedFinitePrime DEF CapAt
<1>26. CASE UNCHANGED vars
  <2>1. /\ Charged(t)' \subseteq Charged(t) /\ Overdrawn(t) \subseteq Overdrawn(t)'
        /\ tenantCount'[t] = tenantCount[t] /\ boots' = boots
    BY <1>26
       DEF vars, Charged, Overdrawn, SessionsOf, Phases, TypeOK, rows, handlers,
           counters
  <2> QED
    BY <2>1, CapKeeps
<1> QED
  BY <1>1, <1>2, <1>3, <1>4, <1>5, <1>6, <1>7, <1>8, <1>9, <1>10, <1>11, <1>12, <1>13,
     <1>14, <1>15, <1>16, <1>17, <1>18, <1>19, <1>20, <1>21, <1>22, <1>23, <1>24, <1>25,
     <1>26
     DEF Next, CreateSession, PatchSessionStatus, DeleteSession

\* A live key keeps a live row, a handler about to end it, or a recorded failure.
LEMMA KeyStep == TypeOK /\ Phases /\ KeyDiesWithSession /\ [Next]_vars => KeyDiesWithSession'
<1> SUFFICES ASSUME TypeOK, Phases, KeyDiesWithSession, [Next]_vars PROVE KeyDiesWithSession'
  OBVIOUS
<1>1. ASSUME NEW s \in Sessions, Admit(s) PROVE KeyDiesWithSession'
  BY <1>1
     DEF Admit, KeyDiesWithSession, Phases, TypeOK, CreatePCs, PatchPCs, DeletePCs,
         LIVE_STATUSES, TERMINAL_STATUSES, rows
<1>2. ASSUME NEW s \in Sessions, RejectRuntime(s) PROVE KeyDiesWithSession'
  BY <1>2
     DEF RejectRuntime, KeyDiesWithSession, Phases, TypeOK, CreatePCs, PatchPCs,
         DeletePCs, LIVE_STATUSES, TERMINAL_STATUSES, rows, counters
<1>3. ASSUME NEW s \in Sessions, RejectInput(s) PROVE KeyDiesWithSession'
  BY <1>3
     DEF RejectInput, KeyDiesWithSession, Phases, TypeOK, CreatePCs, PatchPCs,
         DeletePCs, LIVE_STATUSES, TERMINAL_STATUSES, rows
<1>4. ASSUME NEW s \in Sessions, RejectActive(s) PROVE KeyDiesWithSession'
  BY <1>4
     DEF RejectActive, KeyDiesWithSession, Phases, TypeOK, CreatePCs, PatchPCs,
         DeletePCs, LIVE_STATUSES, TERMINAL_STATUSES, rows
<1>5. ASSUME NEW s \in Sessions, Reserve(s) PROVE KeyDiesWithSession'
  BY <1>5
     DEF Reserve, KeyDiesWithSession, Phases, TypeOK, CreatePCs, PatchPCs, DeletePCs,
         LIVE_STATUSES, TERMINAL_STATUSES, rows
<1>6. ASSUME NEW s \in Sessions, TxFails(s) PROVE KeyDiesWithSession'
  BY <1>6
     DEF TxFails, KeyDiesWithSession, Phases, TypeOK, CreatePCs, PatchPCs, DeletePCs,
         LIVE_STATUSES, TERMINAL_STATUSES, rows, counters
<1>7. ASSUME NEW s \in Sessions, NEW ok \in BOOLEAN, InsertRow(s, ok)
      PROVE  KeyDiesWithSession'
  BY <1>7
     DEF InsertRow, KeyDiesWithSession, Phases, TypeOK, CreatePCs, PatchPCs, DeletePCs,
         LIVE_STATUSES, TERMINAL_STATUSES, counters
<1>8. ASSUME NEW s \in Sessions, PublishStart(s) PROVE KeyDiesWithSession'
  BY <1>8
     DEF PublishStart, KeyDiesWithSession, Phases, TypeOK, CreatePCs, PatchPCs,
         DeletePCs, LIVE_STATUSES, TERMINAL_STATUSES, rows, counters
<1>9. ASSUME NEW s \in Sessions, PublishFails(s) PROVE KeyDiesWithSession'
  BY <1>9
     DEF PublishFails, KeyDiesWithSession, Phases, TypeOK, CreatePCs, PatchPCs,
         DeletePCs, LIVE_STATUSES, TERMINAL_STATUSES, rows, counters
<1>10. ASSUME NEW s \in Sessions, NoProducer(s) PROVE KeyDiesWithSession'
  BY <1>10
     DEF NoProducer, KeyDiesWithSession, Phases, TypeOK, CreatePCs, PatchPCs,
         DeletePCs, LIVE_STATUSES, TERMINAL_STATUSES, RegistryRemove, rows
<1>11. ASSUME NEW s \in Sessions, NEW ok \in BOOLEAN, RollbackRow(s, ok)
      PROVE  KeyDiesWithSession'
  BY <1>11
     DEF RollbackRow, KeyDiesWithSession, Phases, TypeOK, CreatePCs, PatchPCs,
         DeletePCs, LIVE_STATUSES, TERMINAL_STATUSES, counters
<1>12. ASSUME NEW s \in Sessions, NEW ok \in BOOLEAN, RollbackKey(s, ok)
      PROVE  KeyDiesWithSession'
  BY <1>12
     DEF RollbackKey, KeyDiesWithSession, Phases, TypeOK, CreatePCs, PatchPCs,
         DeletePCs, LIVE_STATUSES, TERMINAL_STATUSES, KeysLeft
<1>13. ASSUME NEW s \in Sessions, RegistryInsert(s) PROVE KeyDiesWithSession'
  BY <1>13
     DEF RegistryInsert, KeyDiesWithSession, Phases, TypeOK, CreatePCs, PatchPCs,
         DeletePCs, LIVE_STATUSES, TERMINAL_STATUSES, rows
<1>14. ASSUME NEW s \in Sessions, CreateDropped(s) PROVE KeyDiesWithSession'
  BY <1>14
     DEF CreateDropped, KeyDiesWithSession, Phases, TypeOK, CreatePCs, PatchPCs,
         DeletePCs, LIVE_STATUSES, TERMINAL_STATUSES, KeysLeft, rows, counters
<1>15. ASSUME NEW s \in Sessions, NEW st \in RunnerStatuses, PatchUpdate(s, st)
      PROVE  KeyDiesWithSession'
  BY <1>15
     DEF PatchUpdate, KeyDiesWithSession, Phases, TypeOK, CreatePCs, PatchPCs,
         DeletePCs, LIVE_STATUSES, TERMINAL_STATUSES, RunnerStatuses, RowExists,
         counters
<1>16. ASSUME NEW s \in Sessions, NEW ok \in BOOLEAN, PatchRelease(s, ok)
      PROVE  KeyDiesWithSession'
  BY <1>16
     DEF PatchRelease, KeyDiesWithSession, Phases, TypeOK, CreatePCs, PatchPCs,
         DeletePCs, LIVE_STATUSES, TERMINAL_STATUSES, RowExists, RegistryRemove,
         RevokeKey, KeysLeft
<1>17. ASSUME NEW s \in Sessions, NEW ok \in BOOLEAN, PatchEvent(s, ok)
      PROVE  KeyDiesWithSession'
  BY <1>17
     DEF PatchEvent, KeyDiesWithSession, Phases, TypeOK, CreatePCs, PatchPCs,
         DeletePCs, LIVE_STATUSES, TERMINAL_STATUSES, counters
<1>18. ASSUME NEW s \in Sessions, PatchDropped(s) PROVE KeyDiesWithSession'
  BY <1>18
     DEF PatchDropped, KeyDiesWithSession, Phases, TypeOK, CreatePCs, PatchPCs,
         DeletePCs, LIVE_STATUSES, TERMINAL_STATUSES, KeysLeft, rows, counters
<1>19. ASSUME NEW s \in Sessions, DeleteRead(s) PROVE KeyDiesWithSession'
  BY <1>19
     DEF DeleteRead, KeyDiesWithSession, Phases, TypeOK, CreatePCs, PatchPCs,
         DeletePCs, LIVE_STATUSES, TERMINAL_STATUSES, RowExists, RegistryRemove, rows
<1>20. ASSUME NEW s \in Sessions, DeleteCancel(s) PROVE KeyDiesWithSession'
  BY <1>20
     DEF DeleteCancel, KeyDiesWithSession, Phases, TypeOK, CreatePCs, PatchPCs,
         DeletePCs, LIVE_STATUSES, TERMINAL_STATUSES, RowExists, counters
<1>21. ASSUME NEW s \in Sessions, NEW ok \in BOOLEAN, DeleteRelease(s, ok)
      PROVE  KeyDiesWithSession'
  BY <1>21
     DEF DeleteRelease, KeyDiesWithSession, Phases, TypeOK, CreatePCs, PatchPCs,
         DeletePCs, LIVE_STATUSES, TERMINAL_STATUSES, RowExists, RegistryRemove,
         RevokeKey, KeysLeft
<1>22. ASSUME NEW s \in Sessions, DeleteTerminate(s) PROVE KeyDiesWithSession'
  BY <1>22
     DEF DeleteTerminate, KeyDiesWithSession, Phases, TypeOK, CreatePCs, PatchPCs,
         DeletePCs, LIVE_STATUSES, TERMINAL_STATUSES, rows, counters
<1>23. ASSUME NEW s \in Sessions, DeleteDropped(s) PROVE KeyDiesWithSession'
  BY <1>23
     DEF DeleteDropped, KeyDiesWithSession, Phases, TypeOK, CreatePCs, PatchPCs,
         DeletePCs, LIVE_STATUSES, TERMINAL_STATUSES, KeysLeft, rows, counters
<1>24. ASSUME NEW s \in Sessions, DeleteApiKey(s) PROVE KeyDiesWithSession'
  BY <1>24
     DEF DeleteApiKey, KeyDiesWithSession, Phases, TypeOK, CreatePCs, PatchPCs,
         DeletePCs, LIVE_STATUSES, TERMINAL_STATUSES, RowExists, RevokeKey, KeysLeft,
         handlers, counters
<1>25. ASSUME NEW ok \in BOOLEAN, Restart(ok) PROVE KeyDiesWithSession'
  BY <1>25
     DEF Restart, KeyDiesWithSession, Phases, TypeOK, CreatePCs, PatchPCs, DeletePCs,
         LIVE_STATUSES, TERMINAL_STATUSES, KeysLeft, rows
<1>26. CASE UNCHANGED vars
  BY <1>26
     DEF vars, KeyDiesWithSession, Phases, TypeOK, CreatePCs, PatchPCs, DeletePCs,
         LIVE_STATUSES, TERMINAL_STATUSES, rows, handlers, counters
<1>27. QED
  BY <1>1, <1>2, <1>3, <1>4, <1>5, <1>6, <1>7, <1>8, <1>9, <1>10, <1>11, <1>12, <1>13,
     <1>14, <1>15, <1>16, <1>17, <1>18, <1>19, <1>20, <1>21, <1>22, <1>23, <1>24, <1>25,
     <1>26
     DEF Next, CreateSession, PatchSessionStatus, DeleteSession

-----------------------------------------------------------------------------
(* The theorems. *)

LEMMA InitIndInv == Init => IndInv
<1> SUFFICES ASSUME Init PROVE IndInv
  OBVIOUS
<1>1. TypeOK /\ Phases /\ OneTerminalEvent /\ KeyDiesWithSession
  BY
     DEF Init, TypeOK, Phases, OneTerminalEvent, KeyDiesWithSession, CreatePCs,
         PatchPCs, DeletePCs, LIVE_STATUSES
<1>2. SlotPerSession
  <2>1. SlotHolders = {} /\ activeCount = 0
    BY DEF Init, SlotHolders
  <2> QED
    BY <2>1, FS_EmptySet, CapsAssumption DEF SlotPerSession
<1>3. ASSUME NEW t \in Tenants PROVE CapAt(t)
  <2>1. Charged(t) = {} /\ tenantCount[t] = 0 /\ boots = 1
    BY DEF Init, Charged, SessionsOf, LIVE_STATUSES
  <2>2. Cardinality(Charged(t)) = 0 /\ TenantCap * (boots - 1) = 0
    BY <2>1, FS_EmptySet, CapsAssumption
  <2> QED
    BY <2>1, <2>2, ChargedFinite, CapsAssumption DEF CapAt
<1> QED
  BY <1>1, <1>2, <1>3 DEF IndInv, CapInv

LEMMA NextIndInv == IndInv /\ [Next]_vars => IndInv'
BY TypeStep, PhasesStep, SlotStep, CapStep, EventStep, KeyStep DEF IndInv

LEMMA SpecIndInv == Spec => []IndInv
BY InitIndInv, NextIndInv, PTL DEF Spec

\* The rows, handlers and counters of control-api keep their types; in
\* particular no interleaving takes a tenant's counter below zero.
THEOREM TypeCorrect == Spec => []TypeOK
<1>1. IndInv => TypeOK
  BY DEF IndInv
<1> QED
  BY <1>1, SpecIndInv, PTL

\* The process-wide counter covers every registered or reserved session, so the
\* unguarded fetch_sub of AgentRegistry::remove never wraps, for any caps.
THEOREM SlotSafety == Spec => []SlotPerSession
<1>1. IndInv => SlotPerSession
  BY DEF IndInv
<1> QED
  BY <1>1, SpecIndInv, PTL

\* A tenant's live rows never exceed one cap per start of the process plus the
\* slots that failed publishes gave back too early.
THEOREM CapSafety == Spec => []TenantCapBound
<1>1. IndInv => TenantCapBound
  <2> SUFFICES ASSUME IndInv, NEW t \in Tenants
               PROVE  /\ tenantCount[t] <= TenantCap
                      /\ Cardinality(LiveOf(t)) <=
                            TenantCap * boots + Cardinality(overdrawn \cap SessionsOf(t))
    BY DEF TenantCapBound
  <2>1. CapAt(t) /\ tenantCount[t] \in Nat /\ boots \in Nat
    BY DEF IndInv, CapInv, TypeOK
  <2>2. Cardinality(LiveOf(t)) \in Nat /\ Cardinality(LiveOf(t)) <= Cardinality(Charged(t))
    BY ChargedFinite, CardMonotone DEF LiveOf, Charged
  <2>3. /\ Cardinality(Overdrawn(t)) <= Cardinality(overdrawn \cap SessionsOf(t))
        /\ Cardinality(overdrawn \cap SessionsOf(t)) \in Nat
    <3>1. IsFiniteSet(overdrawn \cap SessionsOf(t))
      BY SessionsAssumption, FS_Subset DEF SessionsOf
    <3> QED
      BY <3>1, CardMonotone DEF Overdrawn
  <2> DEFINE K == TenantCap * (boots - 1)
  <2>4. K \in Int /\ TenantCap * boots = K + TenantCap
    BY <2>1, CapsAssumption
  <2> HIDE DEF K
  <2>5. /\ tenantCount[t] <= TenantCap
        /\ Cardinality(Charged(t)) <= tenantCount[t] + K + Cardinality(Overdrawn(t))
    BY <2>1 DEF CapAt, K
  <2>6. Cardinality(LiveOf(t)) <= (K + TenantCap) + Cardinality(overdrawn \cap SessionsOf(t))
    BY <2>1, <2>2, <2>3, <2>4, <2>5, ChargedFinite, CapsAssumption
  <2> QED
    BY <2>4, <2>5, <2>6
<1> QED
  BY <1>1, SpecIndInv, PTL

\* However callbacks, cancels and retries interleave, a session gets at most one
\* terminal lifecycle event.
THEOREM EventSafety == Spec => []OneTerminalEvent
<1>1. IndInv => OneTerminalEvent
  BY DEF IndInv
<1> QED
  BY <1>1, SpecIndInv, PTL

\* A session's API key does not silently outlive the session.
THEOREM KeySafety == Spec => []KeyDiesWithSession
<1>1. IndInv => KeyDiesWithSession
  BY DEF IndInv
<1> QED
  BY <1>1, SpecIndInv, PTL

\* A row that has reached a terminal status never becomes live again.
THEOREM TerminalAbsorbing == Spec => TerminalStaysTerminal
<1> DEFINE Stays == \A s \in Sessions : row[s] \in TERMINAL_STATUSES =>
                                           row'[s] \in TERMINAL_STATUSES \cup {"deleted"}
<1>0. IndInv /\ [Next]_vars => [Stays]_vars
  <2> SUFFICES ASSUME TypeOK, Phases, [Next]_vars, NEW r \in Sessions, row[r] \in TERMINAL_STATUSES
               PROVE  row'[r] \in TERMINAL_STATUSES \cup {"deleted"}
    BY DEF IndInv
  <2>1. CASE UNCHANGED rows
    BY <2>1 DEF TypeOK, Phases, LIVE_STATUSES, TERMINAL_STATUSES, rows
  <2>2. ASSUME NEW s \in Sessions, NEW ok \in BOOLEAN, InsertRow(s, ok)
        PROVE  row'[r] \in TERMINAL_STATUSES \cup {"deleted"}
    BY <2>2 DEF InsertRow, TypeOK, Phases, LIVE_STATUSES, TERMINAL_STATUSES
  <2>3. ASSUME NEW s \in Sessions, NEW ok \in BOOLEAN, RollbackRow(s, ok)
        PROVE  row'[r] \in TERMINAL_STATUSES \cup {"deleted"}
    BY <2>3 DEF RollbackRow, TypeOK, Phases, LIVE_STATUSES, TERMINAL_STATUSES
  <2>4. ASSUME NEW s \in Sessions, NEW ok \in BOOLEAN, RollbackKey(s, ok)
        PROVE  row'[r] \in TERMINAL_STATUSES \cup {"deleted"}
    BY <2>4 DEF RollbackKey, TypeOK, Phases, LIVE_STATUSES, TERMINAL_STATUSES
  <2>5. ASSUME NEW s \in Sessions, NEW ok \in BOOLEAN, PatchRelease(s, ok)
        PROVE  row'[r] \in TERMINAL_STATUSES \cup {"deleted"}
    BY <2>5 DEF PatchRelease, TypeOK, Phases, LIVE_STATUSES, TERMINAL_STATUSES, RevokeKey
  <2>6. ASSUME NEW s \in Sessions, NEW ok \in BOOLEAN, PatchEvent(s, ok)
        PROVE  row'[r] \in TERMINAL_STATUSES \cup {"deleted"}
    BY <2>6 DEF PatchEvent, TypeOK, Phases, LIVE_STATUSES, TERMINAL_STATUSES
  <2>7. ASSUME NEW s \in Sessions, NEW ok \in BOOLEAN, DeleteRelease(s, ok)
        PROVE  row'[r] \in TERMINAL_STATUSES \cup {"deleted"}
    BY <2>7 DEF DeleteRelease, TypeOK, Phases, LIVE_STATUSES, TERMINAL_STATUSES, RevokeKey
  <2>8. ASSUME NEW s \in Sessions, NEW st \in RunnerStatuses, PatchUpdate(s, st)
        PROVE  row'[r] \in TERMINAL_STATUSES \cup {"deleted"}
    BY <2>8
       DEF PatchUpdate, RowExists, TypeOK, Phases, LIVE_STATUSES, TERMINAL_STATUSES,
           RunnerStatuses
  <2>9. ASSUME NEW s \in Sessions, DeleteCancel(s)
        PROVE  row'[r] \in TERMINAL_STATUSES \cup {"deleted"}
    BY <2>9 DEF DeleteCancel, TypeOK, Phases, LIVE_STATUSES, TERMINAL_STATUSES
  <2>10. ASSUME NEW s \in Sessions, DeleteApiKey(s)
        PROVE  row'[r] \in TERMINAL_STATUSES \cup {"deleted"}
    BY <2>10 DEF DeleteApiKey, TypeOK, Phases, LIVE_STATUSES, TERMINAL_STATUSES, RevokeKey
  <2> QED
    BY <2>1, <2>2, <2>3, <2>4, <2>5, <2>6, <2>7, <2>8, <2>9, <2>10, RowSteps DEF Writes
<1> QED
  BY <1>0, SpecIndInv, PTL DEF Spec, TerminalStaysTerminal

-----------------------------------------------------------------------------
(* The handlers implement SessionLifecycle. *)

LEMMA PhaseCases ==
    /\ PhaseOf("none") = "absent"
    /\ \A st \in LIVE_STATUSES : PhaseOf(st) = "live"
    /\ \A st \in TERMINAL_STATUSES : PhaseOf(st) = "ended"
    /\ PhaseOf("deleted") = "gone"
BY DEF PhaseOf, LIVE_STATUSES, TERMINAL_STATUSES

LEMMA AccessCases ==
    /\ AccessOf("none") = "none"
    /\ AccessOf("live") = "valid"
    /\ AccessOf("revoked") = "void"
    /\ AccessOf("deleted") = "void"
BY DEF AccessOf

phaseBar == [s \in Sessions |-> PhaseOf(row[s])]
accessBar == [s \in Sessions |-> AccessOf(key[s])]

\* What a write to one session's row or key does to its phase and access.
LEMMA PhaseWritten ==
    ASSUME TypeOK, NEW s \in Sessions, NEW st, row' = [row EXCEPT ![s] = st]
    PROVE  phaseBar' = [phaseBar EXCEPT ![s] = PhaseOf(st)]
BY DEF TypeOK, phaseBar

LEMMA AccessWritten ==
    ASSUME TypeOK, NEW s \in Sessions, NEW k, key' = [key EXCEPT ![s] = k]
    PROVE  accessBar' = [accessBar EXCEPT ![s] = AccessOf(k)]
BY DEF TypeOK, accessBar

\* Writing a value of the same phase or access is a stutter of the lifecycle.
LEMMA PhaseKept ==
    ASSUME TypeOK, NEW s \in Sessions, NEW st, row' = [row EXCEPT ![s] = st],
           PhaseOf(st) = PhaseOf(row[s])
    PROVE  UNCHANGED phaseBar
BY DEF TypeOK, phaseBar

LEMMA AccessKept ==
    ASSUME TypeOK, NEW s \in Sessions, NEW k, key' = [key EXCEPT ![s] = k],
           AccessOf(k) = AccessOf(key[s])
    PROVE  UNCHANGED accessBar
BY DEF TypeOK, accessBar

LEMMA StatusCases ==
    ASSUME TypeOK, NEW s \in Sessions
    PROVE  \/ row[s] = "none"
           \/ row[s] \in LIVE_STATUSES
           \/ row[s] \in TERMINAL_STATUSES
           \/ row[s] = "deleted"
BY DEF TypeOK

\* Every step of the handlers is a step of the lifecycle or leaves it alone.
LEMMA LifecycleStep == IndInv /\ [Next]_vars => [Lifecycle!Next]_Lifecycle!lifecycleVars
<1> SUFFICES ASSUME TypeOK, Phases, [Next]_vars
             PROVE  [Lifecycle!Next]_Lifecycle!lifecycleVars
  BY DEF IndInv
<1> DEFINE OneStep(s) == \/ Lifecycle!Open(s) \/ Lifecycle!End(s) \/ Lifecycle!Announce(s)
                      \/ Lifecycle!Withdraw(s) \/ Lifecycle!Void(s)
                      \/ UNCHANGED Lifecycle!lifecycleVars
<1>1. CASE UNCHANGED rows
  BY <1>1 DEF rows, Lifecycle!lifecycleVars
<1>2. ASSUME NEW s \in Sessions, NEW ok \in BOOLEAN, InsertRow(s, ok) PROVE OneStep(s)
  <2>1. row[s] = "none" /\ key[s] = "none"
    BY <1>2 DEF InsertRow, Phases
  <2>2. PhaseOf("pending") = "live"
    BY PhaseCases DEF LIVE_STATUSES
  <2>3. /\ row' = [row EXCEPT ![s] = "pending"]
        /\ key' = [key EXCEPT ![s] = "live"]
        /\ UNCHANGED events
    BY <1>2 DEF InsertRow
  <2>4. phaseBar' = [phaseBar EXCEPT ![s] = "live"]
    BY <2>2, <2>3, PhaseWritten
  <2>5. accessBar' = [accessBar EXCEPT ![s] = "valid"]
    BY <2>3, AccessCases, AccessWritten
  <2> QED
    BY <2>1, <2>3, <2>4, <2>5, PhaseCases, AccessCases DEF phaseBar, accessBar, Lifecycle!Open
<1>3. ASSUME NEW s \in Sessions, NEW ok \in BOOLEAN, RollbackRow(s, ok) PROVE OneStep(s)
  <2>1. CASE row' = row
    BY <1>3, <2>1 DEF RollbackRow, Lifecycle!lifecycleVars
  <2>2. CASE row' = [row EXCEPT ![s] = "deleted"]
    <3>1. row[s] # "none"
      BY <1>3 DEF RollbackRow, Phases
    <3>2. CASE row[s] = "deleted"
      BY <1>3, <2>2, <3>2, PhaseKept DEF RollbackRow, phaseBar, Lifecycle!lifecycleVars
    <3>3. CASE row[s] \in LIVE_STATUSES \cup TERMINAL_STATUSES
      <4>1. phaseBar' = [phaseBar EXCEPT ![s] = "gone"]
        BY <2>2, PhaseCases, PhaseWritten
      <4>2. PhaseOf(row[s]) \in {"live", "ended"}
        BY <3>3, PhaseCases
      <4> QED
        BY <1>3, <4>1, <4>2 DEF RollbackRow, phaseBar, Lifecycle!Withdraw
    <3> QED
      BY <3>1, <3>2, <3>3, StatusCases
  <2> QED
    BY <1>3, <2>1, <2>2 DEF RollbackRow
<1>4. ASSUME NEW s \in Sessions, UNCHANGED <<row, events>>,
             key' = key \/ \E k \in {"revoked", "deleted"} : key' = [key EXCEPT ![s] = k],
             key[s] # "none"
      PROVE  OneStep(s)
  <2>1. CASE key' = key
    BY <1>4, <2>1 DEF Lifecycle!lifecycleVars
  <2>2. ASSUME NEW k \in {"revoked", "deleted"}, key' = [key EXCEPT ![s] = k]
        PROVE  OneStep(s)
    <3>1. AccessOf(k) = "void"
      BY AccessCases
    <3>2. CASE key[s] = "live"
      <4>1. accessBar' = [accessBar EXCEPT ![s] = "void"]
        BY <2>2, <3>1, AccessWritten
      <4> QED
        BY <1>4, <3>2, <4>1, AccessCases DEF accessBar, Lifecycle!Void
    <3>3. CASE key[s] \in {"revoked", "deleted"}
      BY <1>4, <2>2, <3>1, <3>3, AccessCases, AccessKept DEF accessBar, Lifecycle!lifecycleVars
    <3> QED
      BY <1>4, <3>2, <3>3 DEF TypeOK
  <2> QED
    BY <1>4, <2>1, <2>2
<1>5. ASSUME NEW s \in Sessions, NEW ok \in BOOLEAN, RollbackKey(s, ok) PROVE OneStep(s)
  BY <1>4, <1>5 DEF RollbackKey, Phases
<1>6. ASSUME NEW s \in Sessions, NEW ok \in BOOLEAN, PatchRelease(s, ok) PROVE OneStep(s)
  BY <1>4, <1>6, StatusCases DEF PatchRelease, RevokeKey, RowExists, Phases
<1>7. ASSUME NEW s \in Sessions, NEW ok \in BOOLEAN, DeleteRelease(s, ok) PROVE OneStep(s)
  <2>1. CASE key' = key
    BY <1>7, <2>1 DEF DeleteRelease, Lifecycle!lifecycleVars
  <2>2. CASE key' # key
    BY <1>4, <1>7, <2>2 DEF DeleteRelease, RevokeKey
  <2> QED
    BY <2>1, <2>2
<1>8. ASSUME NEW s \in Sessions, DeleteApiKey(s) PROVE OneStep(s)
  BY <1>4, <1>8 DEF DeleteApiKey, RevokeKey, RowExists, Phases
<1>9. ASSUME NEW s \in Sessions, NEW ok \in BOOLEAN, PatchEvent(s, ok) PROVE OneStep(s)
  <2>1. CASE events' = events
    BY <1>9, <2>1 DEF PatchEvent, Lifecycle!lifecycleVars
  <2>2. CASE events' = [events EXCEPT ![s] = @ + 1]
    <3>1. events[s] = 0 /\ events' = [events EXCEPT ![s] = 1]
      <4>1. events[s] = 0
        BY <1>9 DEF PatchEvent, Phases
      <4> QED
        BY <2>2, <4>1
    <3>2. row[s] \in TERMINAL_STATUSES \cup {"deleted"}
      BY <1>9, StatusCases DEF PatchEvent, Phases
    <3>3. PhaseOf(row[s]) \in {"ended", "gone"}
      BY <3>2, PhaseCases
    <3> QED
      BY <1>9, <3>1, <3>3 DEF PatchEvent, Lifecycle!Announce
  <2> QED
    BY <1>9, <2>1, <2>2 DEF PatchEvent
<1>10. ASSUME NEW s \in Sessions, NEW st \in RunnerStatuses, PatchUpdate(s, st)
       PROVE  OneStep(s)
  <2>1. row[s] \in LIVE_STATUSES
    BY <1>10, StatusCases DEF PatchUpdate, RowExists
  <2>2. CASE st = "running"
    <3>1. PhaseOf(st) = PhaseOf(row[s])
      BY <2>1, <2>2, PhaseCases DEF LIVE_STATUSES
    <3> QED
      BY <1>10, <3>1, PhaseKept DEF PatchUpdate, phaseBar, Lifecycle!lifecycleVars
  <2>3. CASE st \in {"terminated", "failed"}
    <3>1. PhaseOf(st) = "ended" /\ PhaseOf(row[s]) = "live"
      BY <2>1, <2>3, PhaseCases DEF TERMINAL_STATUSES
    <3> QED
      BY <1>10, <3>1, PhaseWritten DEF PatchUpdate, phaseBar, Lifecycle!End
  <2> QED
    BY <2>2, <2>3 DEF RunnerStatuses
<1>11. ASSUME NEW s \in Sessions, DeleteCancel(s) PROVE OneStep(s)
  <2>1. CASE ~RowExists(s)
    BY <1>11, <2>1 DEF DeleteCancel, Lifecycle!lifecycleVars
  <2>2. CASE RowExists(s)
    <3>1. PhaseOf("cancelled") = "ended" /\ row' = [row EXCEPT ![s] = "cancelled"]
      BY <1>11, <2>2, PhaseCases DEF DeleteCancel, TERMINAL_STATUSES
    <3>2. CASE row[s] \in LIVE_STATUSES
      <4>1. phaseBar' = [phaseBar EXCEPT ![s] = "ended"]
        BY <3>1, PhaseWritten
      <4> QED
        BY <1>11, <3>2, <4>1, PhaseCases DEF DeleteCancel, phaseBar, Lifecycle!End
    <3>3. CASE row[s] \in TERMINAL_STATUSES
      BY <1>11, <3>1, <3>3, PhaseCases, PhaseKept DEF DeleteCancel, phaseBar, Lifecycle!lifecycleVars
    <3> QED
      BY <2>2, <3>2, <3>3, StatusCases DEF RowExists
  <2> QED
    BY <2>1, <2>2
<1> HIDE DEF OneStep
<1>12. UNCHANGED rows \/ \E s \in Sessions : OneStep(s)
  BY <1>2, <1>3, <1>5, <1>6, <1>7, <1>8, <1>9, <1>10, <1>11, RowSteps DEF Writes
<1> QED
  BY <1>1, <1>12 DEF OneStep, Lifecycle!Next

\* For any sessions and caps, the interleaved handlers give each session the
\* lifecycle a client relies on: live, ended, perhaps gone, announced once, and a
\* key that once void stays void.
THEOREM ImplementsLifecycle == Spec => LifecycleImplemented
<1>1. Init => Lifecycle!Init
  BY PhaseCases, AccessCases DEF Init, Lifecycle!Init
<1> QED
  BY <1>1, LifecycleStep, SpecIndInv, PTL DEF Spec, LifecycleImplemented, Lifecycle!Spec

----------------------------------------------------------------------------
(* The chat: the events of the turns K, the user rows, the assistant rows of *)
(* the turns K.                                                              *)

ChatEvents(K) == [kind : {"Text", "Thinking", "UserInput", "TurnComplete"}, turn : K]
UserRows      == {Row("user", t, NoPost, <<>>) : t \in Turns}
AnswerRows(K) == {r \in [role : {"assistant"}, turn : K, parent : K, blocks : Seq(Seq(ChatEvents(Turns)))] :
                     r.parent = r.turn}
ChatRows      == UserRows \cup AnswerRows(Turns)

\* What a row says is events.
LEMMA ReadRowIs ==
    ASSUME NEW r \in ChatRows
    PROVE  ReadRow(r) \in Seq(ChatEvents(Turns))
<1>1. CASE r \in UserRows
    BY <1>1 DEF UserRows, Row, ReadRow
<1>2. CASE r \in AnswerRows(Turns)
    <2>1. r.blocks \in Seq(Seq(ChatEvents(Turns)))
        BY <1>2 DEF AnswerRows
    <2> QED BY <2>1, FlattenJoins DEF ReadRow
<1> QED BY <1>1, <1>2 DEF ChatRows

\* More rows are read after those there are.
LEMMA ReadConcat ==
    ASSUME NEW r \in Seq(ChatRows), NEW s \in Seq(ChatRows)
    PROVE  /\ Read(r) \in Seq(ChatEvents(Turns))
           /\ Read(r \o s) = Read(r) \o Read(s)
<1> DEFINE E == ChatEvents(Turns)
           F(q) == [i \in DOMAIN q |-> ReadRow(q[i])]
<1>1. ASSUME NEW q \in Seq(ChatRows) PROVE F(q) \in Seq(Seq(E))
    <2>1. DOMAIN q = 1..Len(q) /\ Len(q) \in Nat /\ \A i \in 1..Len(q) : q[i] \in ChatRows
        OBVIOUS
    <2>2. \A i \in 1..Len(q) : ReadRow(q[i]) \in Seq(E)
        BY <2>1, ReadRowIs
    <2> HIDE DEF E
    <2> QED BY <2>1, <2>2
<1>2. r \o s \in Seq(ChatRows)
    OBVIOUS
<1>3. F(r \o s) = F(r) \o F(s)
    <2>1. /\ DOMAIN r = 1..Len(r) /\ DOMAIN s = 1..Len(s) /\ Len(r) \in Nat /\ Len(s) \in Nat
          /\ DOMAIN (r \o s) = 1..(Len(r) + Len(s))
          /\ \A i \in 1..Len(r) : (r \o s)[i] = r[i]
          /\ \A i \in 1..Len(s) : (r \o s)[Len(r) + i] = s[i]
        OBVIOUS
    <2>2. PICK x, y, z : x = F(r) /\ y = F(s) /\ z = F(r \o s)
        OBVIOUS
    <2>3. x \in Seq(Seq(E)) /\ y \in Seq(Seq(E)) /\ z \in Seq(Seq(E))
        BY <1>1, <1>2, <2>2
    <2>4. Len(x) = Len(r) /\ Len(y) = Len(s) /\ Len(z) = Len(r) + Len(s)
        BY <2>1, <2>2
    <2>5. \A i \in 1..Len(x) : z[i] = x[i]
        BY <2>1, <2>2, <2>4
    <2>6. \A i \in 1..Len(y) : z[Len(x) + i] = y[i]
        BY <2>1, <2>2, <2>4
    <2> HIDE DEF F
    <2>7. PICK T : T = Seq(E)
        OBVIOUS
    <2>8. x \in Seq(T) /\ y \in Seq(T) /\ z \in Seq(T)
        BY <2>3, <2>7
    <2>9. Len(z) = Len(x) + Len(y)
        BY <2>4
    <2>10. z = x \o y
        BY ONLY <2>5, <2>6, <2>8, <2>9, ConcatFrom
    <2> QED BY <2>2, <2>10
<1>4. F(r) \in Seq(Seq(E)) /\ F(s) \in Seq(Seq(E))
    BY <1>1
<1>5. Read(r) = FlattenSeq(F(r)) /\ Read(s) = FlattenSeq(F(s)) /\ Read(r \o s) = FlattenSeq(F(r \o s))
    BY DEF Read
<1> HIDE DEF F, E
<1>6. FlattenSeq(F(r)) \in Seq(E)
    BY <1>4, FlattenJoins
<1>7. FlattenSeq(F(r) \o F(s)) = FlattenSeq(F(r)) \o FlattenSeq(F(s))
    BY <1>4, FlattenConcat
<1> QED BY <1>3, <1>5, <1>6, <1>7 DEF E

\* One sequence flattened is that sequence.
LEMMA FlattenOne ==
    ASSUME NEW E, NEW x \in Seq(E)
    PROVE  FlattenSeq(<<x>>) = x
<1>1. <<>> \in Seq(Seq(E))
    OBVIOUS
<1>2. FlattenSeq(<<>> \o <<x>>) = FlattenSeq(<<>>) \o x
    BY <1>1, FlattenMore
<1>3. <<>> \o <<x>> = <<x>>
    OBVIOUS
<1>4. <<>> \o x = x
    BY ConcatEmptySeq
<1> QED BY <1>2, <1>3, <1>4, FlattenNone

\* Of no rows nothing is read, of one what that row says.
LEMMA ReadOne ==
    /\ Read(<<>>) = <<>>
    /\ \A r \in ChatRows : Read(<<r>>) = ReadRow(r)
<1>1. [i \in DOMAIN <<>> |-> ReadRow(<<>>[i])] = <<>>
    OBVIOUS
<1>2. Read(<<>>) = <<>>
    BY <1>1, FlattenNone DEF Read
<1>3. ASSUME NEW r \in ChatRows PROVE Read(<<r>>) = ReadRow(r)
    <2>1. PICK x : x = ReadRow(r)
        OBVIOUS
    <2>2. PICK E : E = ChatEvents(Turns)
        OBVIOUS
    <2>3. x \in Seq(E)
        BY <2>1, <2>2, ReadRowIs
    <2>4. [i \in DOMAIN <<r>> |-> ReadRow(<<r>>[i])] = <<x>>
        BY <2>1
    <2>5. FlattenSeq(<<x>>) = x
        BY <2>3, FlattenOne
    <2> QED BY <2>1, <2>4, <2>5 DEF Read
<1> QED BY <1>2, <1>3

\* What events say, those of one batch after those of another.
LEMMA SaidConcat ==
    ASSUME NEW r \in Seq(ChatEvents(Turns)), NEW s \in Seq(ChatEvents(Turns))
    PROVE  /\ Said(r) \in Seq(ChatEvents(Turns))
           /\ Said(r \o s) = Said(r) \o Said(s)
<1> DEFINE E == ChatEvents(Turns)
           F(q) == [i \in DOMAIN q |-> SaidBy(q[i])]
<1>0. \A e \in E : SaidBy(e) \in Seq(E)
    <2> HIDE DEF E
    <2> QED BY DEF SaidBy
<1>1. ASSUME NEW q \in Seq(ChatEvents(Turns)) PROVE F(q) \in Seq(Seq(E))
    <2>1. DOMAIN q = 1..Len(q) /\ Len(q) \in Nat /\ \A i \in 1..Len(q) : q[i] \in E
        OBVIOUS
    <2>2. \A i \in 1..Len(q) : SaidBy(q[i]) \in Seq(E)
        BY <1>0, <2>1
    <2> HIDE DEF E
    <2> QED BY <2>1, <2>2
<1>2. r \o s \in Seq(ChatEvents(Turns))
    OBVIOUS
<1>3. F(r \o s) = F(r) \o F(s)
    <2>1. /\ DOMAIN r = 1..Len(r) /\ DOMAIN s = 1..Len(s) /\ Len(r) \in Nat /\ Len(s) \in Nat
          /\ DOMAIN (r \o s) = 1..(Len(r) + Len(s))
          /\ \A i \in 1..Len(r) : (r \o s)[i] = r[i]
          /\ \A i \in 1..Len(s) : (r \o s)[Len(r) + i] = s[i]
        OBVIOUS
    <2>2. PICK x, y, z : x = F(r) /\ y = F(s) /\ z = F(r \o s)
        OBVIOUS
    <2>3. x \in Seq(Seq(E)) /\ y \in Seq(Seq(E)) /\ z \in Seq(Seq(E))
        BY <1>1, <1>2, <2>2
    <2>4. Len(x) = Len(r) /\ Len(y) = Len(s) /\ Len(z) = Len(r) + Len(s)
        BY <2>1, <2>2
    <2>5. \A i \in 1..Len(x) : z[i] = x[i]
        BY <2>1, <2>2, <2>4
    <2>6. \A i \in 1..Len(y) : z[Len(x) + i] = y[i]
        BY <2>1, <2>2, <2>4
    <2> HIDE DEF F
    <2>7. PICK T : T = Seq(E)
        OBVIOUS
    <2>8. x \in Seq(T) /\ y \in Seq(T) /\ z \in Seq(T)
        BY <2>3, <2>7
    <2>9. Len(z) = Len(x) + Len(y)
        BY <2>4
    <2>10. z = x \o y
        BY ONLY <2>5, <2>6, <2>8, <2>9, ConcatFrom
    <2> QED BY <2>2, <2>10
<1>4. F(r) \in Seq(Seq(E)) /\ F(s) \in Seq(Seq(E))
    BY <1>1
<1>5. Said(r) = FlattenSeq(F(r)) /\ Said(s) = FlattenSeq(F(s)) /\ Said(r \o s) = FlattenSeq(F(r \o s))
    BY DEF Said
<1> HIDE DEF F, E
<1>6. FlattenSeq(F(r)) \in Seq(E)
    BY <1>4, FlattenJoins
<1>7. FlattenSeq(F(r) \o F(s)) = FlattenSeq(F(r)) \o FlattenSeq(F(s))
    BY <1>4, FlattenConcat
<1> QED BY <1>3, <1>5, <1>6, <1>7 DEF E

\* No events say nothing, one what it says.
LEMMA SaidOne ==
    /\ Said(<<>>) = <<>>
    /\ \A e \in ChatEvents(Turns) : SaidBy(e) \in Seq(ChatEvents(Turns)) /\ Said(<<e>>) = SaidBy(e)
<1>1. [i \in DOMAIN <<>> |-> SaidBy(<<>>[i])] = <<>>
    OBVIOUS
<1>2. Said(<<>>) = <<>>
    BY <1>1, FlattenNone DEF Said
<1>3. ASSUME NEW e \in ChatEvents(Turns)
      PROVE  SaidBy(e) \in Seq(ChatEvents(Turns)) /\ Said(<<e>>) = SaidBy(e)
    <2>1. PICK x : x = SaidBy(e)
        OBVIOUS
    <2>2. PICK E : E = ChatEvents(Turns)
        OBVIOUS
    <2>3. x \in Seq(E)
        BY <2>1, <2>2 DEF SaidBy
    <2>4. [i \in DOMAIN <<e>> |-> SaidBy(<<e>>[i])] = <<x>>
        BY <2>1
    <2>5. FlattenSeq(<<x>>) = x
        BY <2>3, FlattenOne
    <2> QED BY <2>1, <2>2, <2>3, <2>4, <2>5 DEF Said
<1> QED BY <1>2, <1>3

(* A turn that is being collected: text a, thinking b, blocks c of the turn   *)
(* t, with the rows d done before it; w is what the events taken so far say.  *)
Speech == ChatEvents(Turns)
Pend(a, b, c, t, d) == [text |-> a, thinking |-> b, blocks |-> c, turn |-> t, done |-> d]
OneOpen(a, b, c, t) == (a = <<>> \/ b = <<>>) /\ (t = NoPost => a = <<>> /\ b = <<>> /\ c = <<>>)
Collecting(p, K, w) ==
    \E a \in Seq(Speech), b \in Seq(Speech), c \in SeqsOf(Speech), t \in K \cup {NoPost}, d \in Seq(AnswerRows(K)) :
        /\ p = Pend(a, b, c, t, d) /\ OneOpen(a, b, c, t)
        /\ Read(d) \o (FlattenSeq(c) \o (a \o b)) = w

\* Blocks with one more at the end.
LEMMA BlockMore ==
    ASSUME NEW E, NEW c \in SeqsOf(E), NEW a \in Seq(E)
    PROVE  /\ Append(c, a) \in SeqsOf(E) /\ Append(c, a) # <<>>
           /\ FlattenSeq(Append(c, a)) = FlattenSeq(c) \o a
           /\ FlattenSeq(c) \in Seq(E)
<1>1. PICK T : T = Seq(E)
    OBVIOUS
<1>2. c \in Seq(T) /\ a \in T
    BY <1>1 DEF SeqsOf
<1>3. Append(c, a) = c \o <<a>> /\ Append(c, a) \in Seq(T) /\ Append(c, a) # <<>>
    BY <1>2
<1>4. FlattenSeq(c \o <<a>>) = FlattenSeq(c) \o a
    BY FlattenMore DEF SeqsOf
<1>5. FlattenSeq(c) \in Seq(E)
    BY FlattenJoins DEF SeqsOf
<1> QED BY <1>1, <1>3, <1>4, <1>5 DEF SeqsOf

\* Committed, the text is a block and what is said stays.
TextKept(a, b, c, t, d) ==
    \E e \in SeqsOf(Speech) :
        /\ CommitText(Pend(a, b, c, t, d)) = Pend(<<>>, b, e, t, d) /\ OneOpen(<<>>, b, e, t)
        /\ FlattenSeq(e) \o (<<>> \o b) = FlattenSeq(c) \o (a \o b)

\* The text becomes a block: nothing is said anew or lost.
LEMMA CommitTextKeeps ==
    ASSUME NEW a \in Seq(Speech), NEW b \in Seq(Speech), NEW c \in SeqsOf(Speech), NEW t, NEW d, OneOpen(a, b, c, t)
    PROVE  TextKept(a, b, c, t, d)
<1>1. CASE a = <<>>
    <2>1. CommitText(Pend(a, b, c, t, d)) = Pend(<<>>, b, c, t, d)
        BY <1>1 DEF CommitText, Pend
    <2> QED BY <1>1, <2>1 DEF TextKept
<1>2. CASE a # <<>>
    <2> DEFINE e == Append(c, a)
    <2>1. b = <<>> /\ t # NoPost
        BY <1>2 DEF OneOpen
    <2>2. e \in SeqsOf(Speech) /\ FlattenSeq(e) = FlattenSeq(c) \o a /\ FlattenSeq(c) \in Seq(Speech)
        BY BlockMore
    <2>3. CommitText(Pend(a, b, c, t, d)) = Pend(<<>>, b, e, t, d)
        BY <1>2 DEF CommitText, Pend
    <2>4. /\ <<>> \o b = <<>> /\ a \o b = a
        BY <2>1, ConcatEmptySeq
    <2>5. FlattenSeq(c) \o a \in Seq(Speech)
        BY <2>2, ConcatProperties
    <2>6. FlattenSeq(e) \o <<>> = FlattenSeq(c) \o a
        BY <2>2, <2>5, ConcatEmptySeq
    <2>7. OneOpen(<<>>, b, e, t)
        BY <2>1 DEF OneOpen
    <2> HIDE DEF e
    <2> QED BY <2>2, <2>3, <2>4, <2>6, <2>7 DEF TextKept
<1> QED BY <1>1, <1>2

\* The same of the thinking.
ThinkingKept(a, b, c, t, d) ==
    \E e \in SeqsOf(Speech) :
        /\ CommitThinking(Pend(a, b, c, t, d)) = Pend(a, <<>>, e, t, d) /\ OneOpen(a, <<>>, e, t)
        /\ FlattenSeq(e) \o (a \o <<>>) = FlattenSeq(c) \o (a \o b)

\* So does the thinking.
LEMMA CommitThinkingKeeps ==
    ASSUME NEW a \in Seq(Speech), NEW b \in Seq(Speech), NEW c \in SeqsOf(Speech), NEW t, NEW d, OneOpen(a, b, c, t)
    PROVE  ThinkingKept(a, b, c, t, d)
<1>1. CASE b = <<>>
    <2>1. CommitThinking(Pend(a, b, c, t, d)) = Pend(a, <<>>, c, t, d)
        BY <1>1 DEF CommitThinking, Pend
    <2> QED BY <1>1, <2>1 DEF ThinkingKept
<1>2. CASE b # <<>>
    <2> DEFINE e == Append(c, b)
    <2>1. a = <<>> /\ t # NoPost
        BY <1>2 DEF OneOpen
    <2>2. e \in SeqsOf(Speech) /\ FlattenSeq(e) = FlattenSeq(c) \o b /\ FlattenSeq(c) \in Seq(Speech)
        BY BlockMore
    <2>3. CommitThinking(Pend(a, b, c, t, d)) = Pend(a, <<>>, e, t, d)
        BY <1>2 DEF CommitThinking, Pend
    <2>4. /\ a \o <<>> = <<>> /\ a \o b = b
        BY <2>1, ConcatEmptySeq
    <2>5. FlattenSeq(c) \o b \in Seq(Speech)
        BY <2>2, ConcatProperties
    <2>6. FlattenSeq(e) \o <<>> = FlattenSeq(c) \o b
        BY <2>2, <2>5, ConcatEmptySeq
    <2>7. OneOpen(a, <<>>, e, t)
        BY <2>1 DEF OneOpen
    <2> HIDE DEF e
    <2> QED BY <2>2, <2>3, <2>4, <2>6, <2>7 DEF ThinkingKept
<1> QED BY <1>1, <1>2

\* What turns a row with the blocks of one adds.
LEMMA RowDone ==
    ASSUME NEW K \in SUBSET Turns, NEW d \in Seq(AnswerRows(K)), NEW t \in K, NEW c \in SeqsOf(Speech)
    PROVE  /\ Seq(AnswerRows(K)) \subseteq Seq(ChatRows)
           /\ Append(d, Row("assistant", t, t, c)) \in Seq(AnswerRows(K))
           /\ Read(Append(d, Row("assistant", t, t, c))) = Read(d) \o FlattenSeq(c)
<1> DEFINE r == Row("assistant", t, t, c)
<1>1. AnswerRows(K) \subseteq ChatRows
    BY DEF AnswerRows, ChatRows
<1>2. r \in AnswerRows(K) /\ r.role = "assistant" /\ r.blocks = c
    BY DEF AnswerRows, Row, SeqsOf, Speech
<1>3. ReadRow(r) = FlattenSeq(c)
    BY <1>2 DEF ReadRow
<1> HIDE DEF r
<1>4. PICK A : A = AnswerRows(K)
    OBVIOUS
<1>5. PICK R : R = ChatRows
    OBVIOUS
<1>6. A \subseteq R /\ r \in A /\ d \in Seq(A)
    BY <1>1, <1>2, <1>4, <1>5
<1>7. Seq(A) \subseteq Seq(R)
    BY <1>6
<1>8. Append(d, r) = d \o <<r>> /\ Append(d, r) \in Seq(A) /\ d \in Seq(R) /\ <<r>> \in Seq(R)
    BY <1>6
<1>9. Read(d \o <<r>>) = Read(d) \o Read(<<r>>)
    BY <1>5, <1>8, ReadConcat
<1>10. Read(<<r>>) = ReadRow(r)
    BY <1>1, <1>2, ReadOne
<1> QED BY <1>3, <1>4, <1>5, <1>7, <1>8, <1>9, <1>10 DEF r

\* A flush ends the turn: what it said is read from the rows.
LEMMA FlushKeeps ==
    ASSUME NEW K \in SUBSET Turns, \A t \in K : ParentOf(t) = t, NEW p, NEW w, Collecting(p, K, w)
    PROVE  \E d \in Seq(AnswerRows(K)) :
              FlushPendingTurn(p) = Pend(<<>>, <<>>, <<>>, NoPost, d) /\ Read(d) = w
<1>1. PICK a \in Seq(Speech), b \in Seq(Speech), c \in SeqsOf(Speech), t \in K \cup {NoPost}, d \in Seq(AnswerRows(K)) :
        /\ p = Pend(a, b, c, t, d) /\ OneOpen(a, b, c, t)
        /\ Read(d) \o (FlattenSeq(c) \o (a \o b)) = w
    BY DEF Collecting
<1>2. PICK f \in SeqsOf(Speech) :
        /\ CommitThinking(p) = Pend(a, <<>>, f, t, d) /\ OneOpen(a, <<>>, f, t)
        /\ FlattenSeq(f) \o (a \o <<>>) = FlattenSeq(c) \o (a \o b)
    <2>1. ThinkingKept(a, b, c, t, d)
        BY <1>1, CommitThinkingKeeps
    <2> QED BY <1>1, <2>1 DEF ThinkingKept
<1>3. <<>> \in Seq(Speech)
    OBVIOUS
<1>4. PICK g \in SeqsOf(Speech) :
        /\ CommitText(CommitThinking(p)) = Pend(<<>>, <<>>, g, t, d) /\ OneOpen(<<>>, <<>>, g, t)
        /\ FlattenSeq(g) \o (<<>> \o <<>>) = FlattenSeq(f) \o (a \o <<>>)
    <2>1. PICK e : e = <<>>
        OBVIOUS
    <2>2. TextKept(a, e, f, t, d)
        BY <1>1, <1>2, <1>3, <2>1, CommitTextKeeps
    <2> QED BY <1>2, <2>1, <2>2 DEF TextKept
<1> DEFINE d2 == IF g = <<>> THEN d ELSE Append(d, Row("assistant", t, ParentOf(t), g))
<1>5. FlushPendingTurn(p) = Pend(<<>>, <<>>, <<>>, NoPost, d2)
    <2>1. PICK s : s = Pend(<<>>, <<>>, g, t, d)
        OBVIOUS
    <2>2. FlushPendingTurn(p) =
            [s EXCEPT !.blocks = <<>>, !.turn = NoPost,
                      !.done = IF s.blocks = <<>> THEN @
                               ELSE Append(@, Row("assistant", s.turn, ParentOf(s.turn), s.blocks))]
        BY <1>4, <2>1 DEF FlushPendingTurn
    <2>3. s.blocks = g /\ s.turn = t /\ s.done = d
        BY <2>1 DEF Pend
    <2>4. FlushPendingTurn(p) = [s EXCEPT !.blocks = <<>>, !.turn = NoPost, !.done = d2]
        BY <2>2, <2>3
    <2> HIDE DEF d2
    <2> QED BY <2>1, <2>4 DEF Pend
<1>6. FlattenSeq(g) \in Seq(Speech)
    BY FlattenJoins DEF SeqsOf
<1>7. FlattenSeq(g) \o (<<>> \o <<>>) = FlattenSeq(g)
    BY <1>6, ConcatEmptySeq
<1>8. Read(d) \o FlattenSeq(g) = w
    BY <1>1, <1>2, <1>4, <1>7
<1>9. CASE g = <<>>
    <2>1. d2 = d /\ FlattenSeq(g) = <<>>
        BY <1>9, FlattenNone
    <2>2. Seq(AnswerRows(K)) \subseteq Seq(ChatRows)
        <3>1. AnswerRows(K) \subseteq ChatRows
            BY DEF AnswerRows, ChatRows
        <3>2. PICK A, R : A = AnswerRows(K) /\ R = ChatRows
            OBVIOUS
        <3> QED BY <3>1, <3>2
    <2>3. Read(d) \in Seq(Speech)
        BY <2>2, ReadConcat DEF Speech
    <2>4. Read(d) \o <<>> = Read(d)
        BY <2>3, ConcatEmptySeq
    <2> HIDE DEF d2
    <2> QED BY <1>5, <1>8, <2>1, <2>4
<1>10. CASE g # <<>>
    <2>1. t \in K /\ ParentOf(t) = t
        BY <1>4, <1>10 DEF OneOpen
    <2>2. d2 = Append(d, Row("assistant", t, t, g))
        BY <1>10, <2>1
    <2>3. d2 \in Seq(AnswerRows(K)) /\ Read(d2) = Read(d) \o FlattenSeq(g)
        BY <2>1, <2>2, RowDone
    <2> HIDE DEF d2
    <2> QED BY <1>5, <1>8, <2>3
<1> QED BY <1>9, <1>10

\* What is added to the text or thinking is added to all that was said.
Adds(r, f, a, x) == r \o (f \o (a \o x)) = (r \o (f \o a)) \o x

\* It is, for any sequences.
LEMMA SaidAfter ==
    ASSUME NEW E, NEW r \in Seq(E), NEW f \in Seq(E), NEW a \in Seq(E), NEW x \in Seq(E)
    PROVE  Adds(r, f, a, x)
<1>1. PICK g \in Seq(E) : g = f \o a
    BY ConcatProperties
<1>2. Regroups(f, a, x) /\ Regroups(r, g, x)
    BY Regrouped
<1>3. f \o (a \o x) = g \o x
    BY <1>1, <1>2, Zenon DEF Regroups
<1>4. (r \o g) \o x = r \o (g \o x)
    BY <1>2, Zenon DEF Regroups
<1> QED BY <1>1, <1>3, <1>4, Zenon DEF Adds

\* An event is added to the turn, at the end of what the turn says.
LEMMA TakeKeeps ==
    ASSUME NEW K \in SUBSET Turns, \A t \in K : ParentOf(t) = t, NEW p, NEW w, Collecting(p, K, w), NEW e \in ChatEvents(K)
    PROVE  Collecting(TakeEvent(p, e), K, w \o SaidBy(e))
<1>1. PICK a \in Seq(Speech), b \in Seq(Speech), c \in SeqsOf(Speech), t \in K \cup {NoPost}, d \in Seq(AnswerRows(K)) :
        /\ p = Pend(a, b, c, t, d) /\ OneOpen(a, b, c, t)
        /\ Read(d) \o (FlattenSeq(c) \o (a \o b)) = w
    BY DEF Collecting
<1>2. /\ e \in Speech /\ e.turn \in K /\ e.turn # NoPost
      /\ e.kind \in {"Text", "Thinking", "UserInput", "TurnComplete"}
    BY ChatAssumption DEF ChatEvents, Speech
<1>3. /\ Read(d) \in Seq(Speech) /\ FlattenSeq(c) \in Seq(Speech) /\ <<>> \in Seq(Speech)
      /\ <<>> \in SeqsOf(Speech)
    <2>1. AnswerRows(K) \subseteq ChatRows
        BY DEF AnswerRows, ChatRows
    <2>2. PICK A, R : A = AnswerRows(K) /\ R = ChatRows
        OBVIOUS
    <2>3. d \in Seq(ChatRows)
        BY <2>1, <2>2
    <2>4. Read(d) \in Seq(Speech)
        BY <2>3, ReadConcat DEF Speech
    <2>5. FlattenSeq(c) \in Seq(Speech)
        BY FlattenJoins DEF SeqsOf
    <2> QED BY <2>4, <2>5 DEF SeqsOf
<1>4. w \in Seq(Speech)
    <2>1. a \o b \in Seq(Speech)
        BY ConcatProperties
    <2>2. FlattenSeq(c) \o (a \o b) \in Seq(Speech)
        BY <1>3, <2>1, ConcatProperties
    <2> QED BY <1>1, <1>3, <2>2, ConcatProperties
<1> DEFINE u == IF t = NoPost THEN e.turn ELSE t
           q == [p EXCEPT !.turn = IF @ = NoPost THEN e.turn ELSE @]
<1>5. q = Pend(a, b, c, u, d) /\ u \in K \cup {NoPost} /\ u # NoPost /\ OneOpen(a, b, c, u)
    BY <1>1, <1>2 DEF Pend, OneOpen
<1>6. CASE e.kind = "UserInput"
    <2>1. PICK g \in Seq(AnswerRows(K)) :
            FlushPendingTurn(p) = Pend(<<>>, <<>>, <<>>, NoPost, g) /\ Read(g) = w
        BY FlushKeeps
    <2>2. TakeEvent(p, e) = Pend(<<>>, <<>>, <<>>, e.turn, g)
        BY <1>6, <2>1 DEF TakeEvent, Pend
    <2>3. SaidBy(e) = <<>> /\ OneOpen(<<>>, <<>>, <<>>, e.turn)
        BY <1>2, <1>6 DEF SaidBy, OneOpen
    <2>4. w \o <<>> = w /\ FlattenSeq(<<>>) \o (<<>> \o <<>>) = <<>>
        BY <1>3, <1>4, ConcatEmptySeq, FlattenNone
    <2> QED BY <1>2, <1>3, <2>1, <2>2, <2>3, <2>4 DEF Collecting
<1>7. CASE e.kind = "Text"
    <2>1. PICK f \in SeqsOf(Speech) :
            /\ CommitThinking(q) = Pend(a, <<>>, f, u, d) /\ OneOpen(a, <<>>, f, u)
            /\ FlattenSeq(f) \o (a \o <<>>) = FlattenSeq(c) \o (a \o b)
        <3> HIDE DEF q, u
        <3>1. ThinkingKept(a, b, c, u, d)
            BY <1>5, CommitThinkingKeeps
        <3> QED BY <1>5, <3>1 DEF ThinkingKept
    <2>2. TakeEvent(p, e) = Pend(Append(a, e), <<>>, f, u, d)
        <3>1. TakeEvent(p, e) = [CommitThinking(q) EXCEPT !.text = Append(@, e)]
            BY <1>7 DEF TakeEvent
        <3> HIDE DEF q, u
        <3>2. TakeEvent(p, e) = [Pend(a, <<>>, f, u, d) EXCEPT !.text = Append(@, e)]
            BY <2>1, <3>1
        <3> QED BY <3>2 DEF Pend
    <2> HIDE DEF q, u
    <2>3. SaidBy(e) = <<e>> /\ OneOpen(Append(a, e), <<>>, f, u)
        BY <1>5, <1>7 DEF SaidBy, OneOpen
    <2>4. /\ Append(a, e) \in Seq(Speech) /\ Append(a, e) \o <<>> = a \o <<e>> /\ a \o <<>> = a
          /\ <<e>> \in Seq(Speech)
        BY <1>2
    <2>5. FlattenSeq(f) \in Seq(Speech)
        BY FlattenJoins DEF SeqsOf
    <2>6. Read(d) \o (FlattenSeq(f) \o (a \o <<e>>)) = (Read(d) \o (FlattenSeq(f) \o a)) \o <<e>>
        <3>1. PICK x \in Seq(Speech), r \in Seq(Speech), h \in Seq(Speech) :
                x = <<e>> /\ r = Read(d) /\ h = FlattenSeq(f)
            BY <1>3, <2>4, <2>5
        <3>2. Adds(r, h, a, x)
            BY SaidAfter
        <3> QED BY <3>1, <3>2 DEF Adds
    <2>7. Read(d) \o (FlattenSeq(f) \o (Append(a, e) \o <<>>)) = w \o SaidBy(e)
        BY <1>1, <2>1, <2>3, <2>4, <2>6
    <2> QED BY <1>3, <1>5, <2>2, <2>3, <2>4, <2>7 DEF Collecting
<1>8. CASE e.kind = "Thinking"
    <2>1. PICK f \in SeqsOf(Speech) :
            /\ CommitText(q) = Pend(<<>>, b, f, u, d) /\ OneOpen(<<>>, b, f, u)
            /\ FlattenSeq(f) \o (<<>> \o b) = FlattenSeq(c) \o (a \o b)
        <3> HIDE DEF q, u
        <3>1. TextKept(a, b, c, u, d)
            BY <1>5, CommitTextKeeps
        <3> QED BY <1>5, <3>1 DEF TextKept
    <2>2. TakeEvent(p, e) = Pend(<<>>, Append(b, e), f, u, d)
        <3>1. TakeEvent(p, e) = [CommitText(q) EXCEPT !.thinking = Append(@, e)]
            BY <1>8 DEF TakeEvent
        <3> HIDE DEF q, u
        <3>2. TakeEvent(p, e) = [Pend(<<>>, b, f, u, d) EXCEPT !.thinking = Append(@, e)]
            BY <2>1, <3>1
        <3> QED BY <3>2 DEF Pend
    <2> HIDE DEF q, u
    <2>3. SaidBy(e) = <<e>> /\ OneOpen(<<>>, Append(b, e), f, u)
        BY <1>5, <1>8 DEF SaidBy, OneOpen
    <2>4. /\ Append(b, e) \in Seq(Speech) /\ <<>> \o Append(b, e) = b \o <<e>> /\ <<>> \o b = b
          /\ <<e>> \in Seq(Speech)
        <3>1. Append(b, e) \in Seq(Speech) /\ <<e>> \in Seq(Speech) /\ Append(b, e) = b \o <<e>>
            <4>1. ASSUME NEW E, NEW s \in Seq(E), NEW x \in E
                  PROVE  Append(s, x) \in Seq(E) /\ <<x>> \in Seq(E) /\ Append(s, x) = s \o <<x>>
                OBVIOUS
            <4> QED BY <1>2, <4>1
        <3>2. <<>> \o Append(b, e) = Append(b, e) /\ <<>> \o b = b
            BY <3>1, ConcatEmptySeq
        <3> QED BY <3>1, <3>2
    <2>5. FlattenSeq(f) \in Seq(Speech)
        BY FlattenJoins DEF SeqsOf
    <2>6. Read(d) \o (FlattenSeq(f) \o (b \o <<e>>)) = (Read(d) \o (FlattenSeq(f) \o b)) \o <<e>>
        <3>1. PICK x \in Seq(Speech), r \in Seq(Speech), h \in Seq(Speech) :
                x = <<e>> /\ r = Read(d) /\ h = FlattenSeq(f)
            BY <1>3, <2>4, <2>5
        <3>2. Adds(r, h, b, x)
            BY SaidAfter
        <3> QED BY <3>1, <3>2 DEF Adds
    <2>7. Read(d) \o (FlattenSeq(f) \o (<<>> \o Append(b, e))) = w \o SaidBy(e)
        BY <1>1, <2>1, <2>3, <2>4, <2>6
    <2> QED BY <1>3, <1>5, <2>2, <2>3, <2>4, <2>7 DEF Collecting
<1>9. CASE e.kind = "TurnComplete"
    <2>1. TakeEvent(p, e) = p /\ SaidBy(e) = <<>>
        BY <1>9 DEF TakeEvent, SaidBy
    <2>2. w \o <<>> = w
        BY <1>4, ConcatEmptySeq
    <2> QED BY <2>1, <2>2
<1> QED BY <1>2, <1>6, <1>7, <1>8, <1>9

(* Collected by its function: what the first i events have made of Nothing. *)
CollectedFcn(batch) ==
    CHOOSE f : f = [i \in 0..Len(batch) |-> IF i = 0 THEN Nothing ELSE TakeEvent(f[i - 1], batch[i])]
CollectedTo(f, batch, n) == f = [i \in 0..n |-> IF i = 0 THEN Nothing ELSE TakeEvent(f[i - 1], batch[i])]

\* There is that function, and Collected is its last value.
LEMMA CollectedFcnIs ==
    ASSUME NEW batch, Len(batch) \in Nat
    PROVE  /\ Collected(batch) = CollectedFcn(batch)[Len(batch)]
           /\ CollectedTo(CollectedFcn(batch), batch, Len(batch))
<1>1. Collected(batch) = CollectedFcn(batch)[Len(batch)]
    BY DEF Collected, CollectedFcn
<1> DEFINE N == Len(batch)
           Bad == {n \in 0..N : ~ \E f : CollectedTo(f, batch, n)}
<1>2. ASSUME Bad # {} PROVE FALSE
    <2>0. Bad \in SUBSET Nat
        OBVIOUS
    <2>1. PICK n \in Bad : \A m \in Bad : n <= m
        <3> HIDE DEF Bad
        <3> QED BY <1>2, <2>0, LeastNumber
    <2>2. n \in 0..N /\ ~ \E f : CollectedTo(f, batch, n)
        BY <2>1
    <2>3. CASE n = 0
        <3> DEFINE f == [i \in 0..0 |-> Nothing]
        <3>1. CollectedTo(f, batch, 0)
            BY DEF CollectedTo
        <3> QED BY <2>2, <2>3, <3>1
    <2>4. CASE n # 0
        <3>1. n - 1 \in 0..N /\ ~(n <= n - 1)
            BY <2>2, <2>4
        <3>2. n - 1 \notin Bad
            BY <2>1, <3>1
        <3>3. PICK g : CollectedTo(g, batch, n - 1)
            BY <3>1, <3>2
        <3> DEFINE f == [i \in 0..n |-> IF i = n THEN TakeEvent(g[n - 1], batch[n]) ELSE g[i]]
        <3>4. \A i \in 0..(n - 1) : g[i] = IF i = 0 THEN Nothing ELSE TakeEvent(g[i - 1], batch[i])
            BY <3>3 DEF CollectedTo
        <3>5. ASSUME NEW i \in 0..n PROVE f[i] = IF i = 0 THEN Nothing ELSE TakeEvent(f[i - 1], batch[i])
            <4>1. CASE i = n
                <5>0. n - 1 \in 0..n /\ n - 1 # n
                    BY <2>2, <2>4
                <5>1. f[n] = TakeEvent(g[n - 1], batch[n])
                    BY <4>1
                <5>2. f[n - 1] = g[n - 1]
                    BY <5>0
                <5> QED BY <2>4, <4>1, <5>1, <5>2
            <4>2. CASE i # n
                <5>1. i \in 0..(n - 1) /\ f[i] = g[i]
                    BY <2>2, <4>2
                <5>2. CASE i = 0
                    BY <3>4, <5>1, <5>2
                <5>3. CASE i # 0
                    <6>1. i - 1 \in 0..n /\ i - 1 # n
                        BY <2>2, <5>1, <5>3
                    <6>2. f[i - 1] = g[i - 1]
                        BY <6>1
                    <6> QED BY <3>4, <5>1, <5>3, <6>2
                <5> QED BY <5>2, <5>3
            <4> QED BY <4>1, <4>2
        <3>6. f = [i \in 0..n |-> IF i = 0 THEN Nothing ELSE TakeEvent(f[i - 1], batch[i])]
            <4>1. f = [i \in 0..n |-> f[i]]
                OBVIOUS
            <4> HIDE DEF f
            <4> QED BY <3>5, <4>1
        <3>7. CollectedTo(f, batch, n)
            BY <3>6 DEF CollectedTo
        <3> QED BY <2>2, <3>7
    <2> QED BY <2>3, <2>4
<1>3. \E f : CollectedTo(f, batch, N)
    BY <1>2
<1>4. CollectedTo(CollectedFcn(batch), batch, N)
    BY <1>3 DEF CollectedFcn, CollectedTo
<1> QED BY <1>1, <1>4

\* The rows of a batch are of its turns, and what is read from them is what it says.
LEMMA AssistantRowsSay ==
    ASSUME NEW K \in SUBSET Turns, \A t \in K : ParentOf(t) = t, NEW batch \in Seq(ChatEvents(K))
    PROVE  AssistantRows(batch) \in Seq(AnswerRows(K)) /\ Read(AssistantRows(batch)) = Said(batch)
<1> DEFINE N == Len(batch)
           f == CollectedFcn(batch)
           To(n) == SubSeq(batch, 1, n)
           Good(n) == Collecting(f[n], K, Said(To(n)))
           Bad == {n \in 0..N : ~Good(n)}
<1>1. N \in Nat /\ \A k \in 1..N : batch[k] \in ChatEvents(K)
    OBVIOUS
<1>2. ChatEvents(K) \subseteq Speech
    BY DEF ChatEvents, Speech
<1>3. batch \in Seq(Speech)
    BY <1>2
<1>4. Collected(batch) = f[N] /\ CollectedTo(f, batch, N)
    BY <1>1, CollectedFcnIs
<1>5. \A i \in 0..N : f[i] = IF i = 0 THEN Nothing ELSE TakeEvent(f[i - 1], batch[i])
    BY <1>4 DEF CollectedTo
<1>6. Good(0)
    <2>1. f[0] = Nothing
        BY <1>1, <1>5
    <2>2. Nothing = Pend(<<>>, <<>>, <<>>, NoPost, <<>>) /\ OneOpen(<<>>, <<>>, <<>>, NoPost)
        BY DEF Nothing, Pend, OneOpen
    <2>3. To(0) = <<>> /\ Said(<<>>) = <<>> /\ Read(<<>>) = <<>>
        BY SubSeqEmpty, SaidOne, ReadOne
    <2>4. <<>> \o (FlattenSeq(<<>>) \o (<<>> \o <<>>)) = <<>>
        BY FlattenNone
    <2>5. <<>> \in Seq(Speech) /\ <<>> \in SeqsOf(Speech) /\ <<>> \in Seq(AnswerRows(K)) /\ NoPost \in K \cup {NoPost}
        BY DEF SeqsOf
    <2>6. Read(<<>>) \o (FlattenSeq(<<>>) \o (<<>> \o <<>>)) = Said(To(0))
        BY <2>3, <2>4
    <2> HIDE DEF f, To
    <2> QED BY <2>1, <2>2, <2>5, <2>6 DEF Collecting
<1>7. ASSUME Bad # {} PROVE FALSE
    <2>0. Bad \in SUBSET Nat
        BY <1>1
    <2>1. PICK n \in Bad : \A m \in Bad : n <= m
        <3> HIDE DEF Bad
        <3> QED BY <1>7, <2>0, LeastNumber
    <2>2. n \in 0..N /\ ~Good(n)
        BY <2>1
    <2>3. CASE n = 0
        BY <1>6, <2>2, <2>3
    <2>4. CASE n # 0
        <3>1. n \in 1..N /\ n - 1 \in 0..N /\ ~(n <= n - 1)
            BY <1>1, <2>2, <2>4
        <3>2. Good(n - 1)
            BY <2>1, <3>1
        <3> DEFINE p == To(n - 1)
                   e == batch[n]
        <3>3. To(n) = p \o <<e>>
            <4>1. 1 \in 1..N /\ n \in 1..N
                BY <1>1, <3>1
            <4> QED BY <4>1, SubSeqRecursiveSecond
        <3>4. p \in Seq(Speech) /\ e \in ChatEvents(K) /\ e \in Speech
            BY <1>1, <1>2, <1>3, <3>1
        <3> HIDE DEF p, e
        <3>5. f[n] = TakeEvent(f[n - 1], e)
            BY <1>5, <3>1 DEF e
        <3> HIDE DEF f
        <3>6. Collecting(f[n - 1], K, Said(p))
            BY <3>2 DEF p
        <3>7. Collecting(f[n], K, Said(p) \o SaidBy(e))
            BY <3>4, <3>5, <3>6, TakeKeeps
        <3>8. Said(p \o <<e>>) = Said(p) \o SaidBy(e)
            <4>1. <<e>> \in Seq(Speech)
                BY <3>4
            <4>2. Said(p \o <<e>>) = Said(p) \o Said(<<e>>)
                BY <3>4, <4>1, SaidConcat DEF Speech
            <4>3. Said(<<e>>) = SaidBy(e)
                BY <3>4, SaidOne DEF Speech
            <4> QED BY <4>2, <4>3
        <3>9. Good(n)
            BY <3>3, <3>7, <3>8
        <3> QED BY <2>2, <3>9
    <2> QED BY <2>3, <2>4
<1>8. Good(N)
    <2>1. N \in 0..N
        BY <1>1
    <2>2. ~Good(N) => N \in Bad
        BY <2>1
    <2> HIDE DEF Bad
    <2> QED BY <1>7, <2>2
<1>9. To(N) = batch
    BY SubSeqFull
<1>10. Collecting(Collected(batch), K, Said(batch))
    BY <1>4, <1>8, <1>9
<1>11. PICK d \in Seq(AnswerRows(K)) :
        FlushPendingTurn(Collected(batch)) = Pend(<<>>, <<>>, <<>>, NoPost, d) /\ Read(d) = Said(batch)
    BY <1>10, FlushKeeps
<1> QED BY <1>11 DEF AssistantRows, Pend

(* The turns whose user row is stored, and the conditions on the rows, of any *)
(* sequence rs of rows.                                                       *)
StoredIn(rs)  == {t \in Turns : \E i \in DOMAIN rs : rs[i].role = "user" /\ rs[i].turn = t}
ParentsIn(rs) ==
    \A i \in DOMAIN rs : rs[i].role = "assistant" =>
        \E j \in 1..(i - 1) : rs[j].role = "user" /\ rs[j].turn = rs[i].turn /\ rs[i].parent = rs[i].turn
Stored    == StoredIn(chatRows)
StartSent == \E i \in DOMAIN commands : commands[i].kind = "Start"
Active(t) == post[t] \notin {"idle", "answered"}

ChatTypes ==
    /\ chatRows \in Seq(ChatRows) /\ content \in Seq(Speech) /\ out \in Seq(ChatEvents(Stored))
    /\ commands \in Seq([kind : {"Start", "Input"}, turn : Stored]) /\ taken \in 0..Len(commands)
    /\ post \in [Turns -> {"idle", "checked", "inserting", "stored", "started", "answered"}]
    /\ seqOf \in [Turns -> Nat] /\ losses \in Nat
    /\ page \in [got : 0..Len(chatRows), more : BOOLEAN]
    /\ overlapped \in BOOLEAN /\ dropped \in BOOLEAN

\* One transaction inserts at a time and holds the next seq; what is published has its user row.
PostsInOrder ==
    /\ ~refused
    /\ \A t \in Turns : post[t] = "inserting" =>
          seqOf[t] = Len(chatRows) + 1 /\ \A u \in Turns : post[u] = "inserting" => u = t
    /\ \A t \in Turns : post[t] \in {"stored", "started"} => t \in Stored

\* Without overlap or loss, a session with rows has its Start sent, or its first post still has to send it.
InputsFollow(cmds) == \A j \in DOMAIN cmds : cmds[j].kind = "Input" => \E i \in 1..(j - 1) : cmds[i].kind = "Start"
OneActive   == \A t, u \in Turns : Active(t) /\ Active(u) => t = u
RowsStarted == chatRows # <<>> => (StartSent \/ \E t \in Turns : post[t] = "stored" /\ seqOf[t] = 1)
LaterPosts  == \A t \in Turns : (post[t] = "started" \/ (post[t] = "stored" /\ seqOf[t] # 1)) => StartSent
StartIsFirst ==
    (~overlapped /\ losses = 0) => InputsFollow(commands) /\ OneActive /\ RowsStarted /\ LaterPosts

ChatInv == ChatTypes /\ PostsInOrder /\ StartIsFirst /\ ContentKept /\ ParentStored

\* Rows of stored turns can be added: no user row goes and every parent is before its child.
LEMMA RowsAppended ==
    ASSUME NEW rs \in Seq(ChatRows), NEW x \in Seq(ChatRows), ParentsIn(rs),
           \A i \in DOMAIN x : x[i].role = "assistant" => x[i].turn \in StoredIn(rs) /\ x[i].parent = x[i].turn
    PROVE  /\ rs \o x \in Seq(ChatRows) /\ Len(rs \o x) = Len(rs) + Len(x) /\ Len(rs) <= Len(rs \o x)
           /\ StoredIn(rs) \subseteq StoredIn(rs \o x) /\ ParentsIn(rs \o x)
<1> DEFINE c == rs \o x
<1>1. /\ Len(rs) \in Nat /\ Len(x) \in Nat /\ c \in Seq(ChatRows) /\ Len(c) = Len(rs) + Len(x)
      /\ DOMAIN rs = 1..Len(rs) /\ DOMAIN x = 1..Len(x) /\ DOMAIN c = 1..(Len(rs) + Len(x))
      /\ \A i \in 1..Len(rs) : c[i] = rs[i]
      /\ \A i \in 1..Len(x) : c[Len(rs) + i] = x[i]
    <2>1. PICK T : T = ChatRows
        OBVIOUS
    <2>2. rs \in Seq(T) /\ x \in Seq(T)
        BY <2>1
    <2> QED BY <2>1, <2>2
<1> HIDE DEF c
<1>2. StoredIn(rs) \subseteq StoredIn(c)
    BY <1>1 DEF StoredIn
<1>3. ASSUME NEW i \in DOMAIN c, c[i].role = "assistant"
      PROVE  \E j \in 1..(i - 1) : c[j].role = "user" /\ c[j].turn = c[i].turn /\ c[i].parent = c[i].turn
    <2>1. CASE i <= Len(rs)
        <3>1. i \in DOMAIN rs /\ c[i] = rs[i]
            BY <1>1, <2>1
        <3>2. PICK j \in 1..(i - 1) :
                rs[j].role = "user" /\ rs[j].turn = rs[i].turn /\ rs[i].parent = rs[i].turn
            BY <1>3, <3>1 DEF ParentsIn
        <3>3. c[j] = rs[j]
            BY <1>1, <3>1
        <3> QED BY <3>1, <3>2, <3>3
    <2>2. CASE ~(i <= Len(rs))
        <3>1. i - Len(rs) \in 1..Len(x) /\ Len(rs) + (i - Len(rs)) = i
            BY <1>1, <2>2
        <3>2. c[i] = x[i - Len(rs)]
            BY <1>1, <3>1
        <3>3. c[i].turn \in StoredIn(rs) /\ c[i].parent = c[i].turn
            BY <1>1, <1>3, <3>1, <3>2
        <3>4. PICK j \in DOMAIN rs : rs[j].role = "user" /\ rs[j].turn = c[i].turn
            BY <3>3 DEF StoredIn
        <3>5. j \in 1..(i - 1) /\ c[j] = rs[j]
            BY <1>1, <2>2, <3>4
        <3> QED BY <3>3, <3>4, <3>5
    <2> QED BY <2>1, <2>2
<1>4. ParentsIn(c)
    BY <1>3 DEF ParentsIn
<1> QED BY <1>1, <1>2, <1>4 DEF c

\* A command added after a Start, or a Start added, is after a Start.
LEMMA CommandAdded ==
    ASSUME NEW K, NEW s \in Seq([kind : {"Start", "Input"}, turn : K]), NEW c \in [kind : {"Start", "Input"}, turn : K],
           InputsFollow(s), c.kind = "Start" \/ \E i \in DOMAIN s : s[i].kind = "Start"
    PROVE  InputsFollow(Append(s, c))
<1>1. PICK T : T = [kind : {"Start", "Input"}, turn : K]
    OBVIOUS
<1>2. s \in Seq(T) /\ c \in T
    BY <1>1
<1>3. /\ DOMAIN s = 1..Len(s) /\ Len(s) \in Nat /\ DOMAIN Append(s, c) = 1..(Len(s) + 1)
      /\ \A i \in 1..Len(s) : Append(s, c)[i] = s[i]
      /\ Append(s, c)[Len(s) + 1] = c
    BY <1>2
<1>4. ASSUME NEW j \in 1..(Len(s) + 1), Append(s, c)[j].kind = "Input"
      PROVE  \E i \in 1..(j - 1) : Append(s, c)[i].kind = "Start"
    <2>1. CASE j \in 1..Len(s)
        <3>1. PICK i \in 1..(j - 1) : s[i].kind = "Start"
            BY <1>3, <1>4, <2>1 DEF InputsFollow
        <3> QED BY <1>3, <2>1, <3>1
    <2>2. CASE j = Len(s) + 1
        <3>1. PICK i \in 1..Len(s) : s[i].kind = "Start"
            BY <1>3, <1>4, <2>2
        <3> QED BY <1>3, <2>2, <3>1
    <2> QED BY <1>3, <2>1, <2>2
<1> QED BY <1>3, <1>4 DEF InputsFollow

\* Nothing is stored or said at the start.
LEMMA ChatInvInit == ChatInit => ChatInv
<1> SUFFICES ASSUME ChatInit PROVE ChatInv
    OBVIOUS
<1>1. ChatTypes
    <2>1. \A S : <<>> \in Seq(S)
        OBVIOUS
    <2>2. Len(<<>>) = 0 /\ 0 \in 0..0 /\ 0 \in Nat
        OBVIOUS
    <2>3. page \in [got : 0..Len(chatRows), more : BOOLEAN] /\ taken \in 0..Len(commands)
        BY <2>2 DEF ChatInit
    <2>4. post \in [Turns -> {"idle", "checked", "inserting", "stored", "started", "answered"}] /\ seqOf \in [Turns -> Nat]
        BY DEF ChatInit
    <2> QED BY <2>1, <2>2, <2>3, <2>4 DEF ChatInit, ChatTypes
<1>2. PostsInOrder /\ StartIsFirst
    BY DEF ChatInit, PostsInOrder, StartIsFirst, InputsFollow, OneActive, RowsStarted, LaterPosts, Active
<1>3. ContentKept
    BY ReadOne, SaidOne DEF ChatInit, ContentKept
<1>4. ParentStored
    BY DEF ChatInit, ParentStored
<1> QED BY <1>1, <1>2, <1>3, <1>4 DEF ChatInv

\* A post begins: nobody else is active when it does not overlap.
LEMMA PostChecksKeeps ==
    ASSUME ChatInv, NEW t \in Turns, PostChecks(t)
    PROVE  ChatInv'
<1> USE DEF ChatInv
<1>1. ChatTypes'
    BY DEF ChatTypes, PostChecks, ingestVars, Stored
<1>2. PostsInOrder'
    BY DEF ChatTypes, PostsInOrder, PostChecks, ingestVars, Stored
<1>3. StartIsFirst'
    <2> SUFFICES ASSUME ~overlapped', losses' = 0
                 PROVE  InputsFollow(commands') /\ OneActive' /\ RowsStarted' /\ LaterPosts'
        BY DEF StartIsFirst
    <2>1. ~overlapped /\ losses = 0 /\ \A u \in Turns : post[u] \in {"idle", "answered"}
        BY DEF PostChecks, ingestVars
    <2>2. InputsFollow(commands) /\ RowsStarted /\ commands' = commands /\ chatRows' = chatRows /\ seqOf' = seqOf
        BY <2>1 DEF StartIsFirst, PostChecks, ingestVars
    <2>3. post' = [post EXCEPT ![t] = IF chatStatus = "active" THEN "checked" ELSE "answered"] /\ t \in DOMAIN post
        BY DEF PostChecks, ChatTypes
    <2>4. OneActive'
        BY <2>1, <2>3 DEF OneActive, Active, ChatTypes
    <2>5. RowsStarted'
        BY <2>1, <2>2 DEF RowsStarted, StartSent
    <2>6. LaterPosts'
        BY <2>1, <2>3 DEF LaterPosts, ChatTypes
    <2> QED BY <2>2, <2>4, <2>5, <2>6
<1>4. ContentKept' /\ ParentStored'
    BY DEF ContentKept, ParentStored, PostChecks, ingestVars
<1> QED BY <1>1, <1>2, <1>3, <1>4

\* Nobody inserts when a post reads its seq.
LEMMA InsertReadsKeeps ==
    ASSUME ChatInv, NEW t \in Turns, InsertReads(t)
    PROVE  ChatInv'
<1> USE DEF ChatInv
<1>0. Len(chatRows) \in Nat
    BY DEF ChatTypes
<1>1. ChatTypes'
    BY <1>0 DEF ChatTypes, InsertReads, ingestVars, Stored
<1>2. PostsInOrder'
    <2>1. /\ post' = [post EXCEPT ![t] = "inserting"] /\ seqOf' = [seqOf EXCEPT ![t] = Len(chatRows) + 1]
          /\ chatRows' = chatRows /\ refused' = refused /\ \A u \in Turns : post[u] # "inserting"
          /\ t \in DOMAIN post /\ t \in DOMAIN seqOf
        BY DEF InsertReads, ChatTypes, SessionUnlocked
    <2> QED BY <2>1 DEF ChatTypes, PostsInOrder, Stored
<1>3. StartIsFirst'
    <2> SUFFICES ASSUME ~overlapped', losses' = 0
                 PROVE  InputsFollow(commands') /\ OneActive' /\ RowsStarted' /\ LaterPosts'
        BY DEF StartIsFirst
    <2>1. /\ ~overlapped /\ losses = 0 /\ commands' = commands /\ chatRows' = chatRows /\ post[t] = "checked"
          /\ post' = [post EXCEPT ![t] = "inserting"] /\ seqOf' = [seqOf EXCEPT ![t] = Len(chatRows) + 1]
          /\ post \in [Turns -> {"idle", "checked", "inserting", "stored", "started", "answered"}] /\ seqOf \in [Turns -> Nat]
        BY DEF InsertReads, ingestVars, ChatTypes
    <2>2. InputsFollow(commands) /\ OneActive /\ RowsStarted /\ LaterPosts
        BY <2>1 DEF StartIsFirst
    <2>3. OneActive'
        BY <2>1, <2>2 DEF OneActive, Active
    <2>4. RowsStarted'
        BY <2>1, <2>2 DEF RowsStarted, StartSent
    <2>5. LaterPosts'
        BY <2>1, <2>2 DEF LaterPosts, StartSent
    <2> QED BY <2>1, <2>2, <2>3, <2>4, <2>5
<1>4. ContentKept' /\ ParentStored'
    BY DEF ContentKept, ParentStored, InsertReads, ingestVars
<1> QED BY <1>1, <1>2, <1>3, <1>4

\* The seq is free: the user row is the next one, and a later row has the Start before it.
LEMMA InsertCommitsKeeps ==
    ASSUME ChatInv, NEW t \in Turns, InsertCommits(t)
    PROVE  ChatInv'
<1> USE DEF ChatInv
<1> DEFINE r == Row("user", t, NoPost, <<>>)
<1>1. /\ chatRows \in Seq(ChatRows) /\ Len(chatRows) \in Nat /\ seqOf[t] = Len(chatRows) + 1
      /\ post[t] = "inserting" /\ t \in DOMAIN post /\ ~refused
    BY DEF InsertCommits, ChatTypes, PostsInOrder
<1>2. /\ chatRows' = Append(chatRows, r) /\ post' = [post EXCEPT ![t] = "stored"] /\ ~refused'
      /\ chatStatus' = chatStatus /\ seqOf' = seqOf /\ commands' = commands /\ taken' = taken /\ page' = page
      /\ losses' = losses /\ overlapped' = overlapped /\ out' = out /\ content' = content /\ dropped' = dropped
    <2>1. LET free == seqOf[t] = Len(chatRows) + 1 IN
            /\ chatRows' = IF free THEN Append(chatRows, r) ELSE chatRows
            /\ post' = [post EXCEPT ![t] = IF free THEN "stored" ELSE "answered"]
            /\ refused' = (refused \/ ~free)
        BY DEF InsertCommits
    <2>2. /\ chatStatus' = chatStatus /\ seqOf' = seqOf /\ commands' = commands /\ taken' = taken /\ page' = page
          /\ losses' = losses /\ overlapped' = overlapped /\ out' = out /\ content' = content /\ dropped' = dropped
        BY DEF InsertCommits, ingestVars
    <2>3. ~refused'
        <3>1. refused' = (refused \/ ~(seqOf[t] = Len(chatRows) + 1))
            BY <2>1
        <3> QED BY <1>1, <3>1
    <2> HIDE DEF r
    <2> QED BY <1>1, <2>1, <2>2, <2>3
<1>3. r \in ChatRows /\ r.role = "user" /\ r.turn = t /\ ReadRow(r) = <<>>
    BY DEF UserRows, ChatRows, Row, ReadRow
<1> HIDE DEF r
<1>4. /\ Append(chatRows, r) = chatRows \o <<r>> /\ <<r>> \in Seq(ChatRows) /\ DOMAIN <<r>> = 1..1 /\ <<r>>[1] = r
      /\ Len(Append(chatRows, r)) = Len(chatRows) + 1 /\ Append(chatRows, r)[Len(chatRows) + 1] = r
      /\ DOMAIN Append(chatRows, r) = 1..(Len(chatRows) + 1)
    <2>1. PICK T : T = ChatRows
        OBVIOUS
    <2>2. chatRows \in Seq(T) /\ r \in T
        BY <1>1, <1>3, <2>1
    <2> QED BY <2>1, <2>2
<1>5. ParentsIn(chatRows)
    BY DEF ParentStored, ParentsIn
<1>6. /\ chatRows' \in Seq(ChatRows) /\ Len(chatRows') = Len(chatRows) + 1
      /\ Stored \subseteq Stored' /\ ParentsIn(chatRows')
    <2>1. \A i \in DOMAIN <<r>> : <<r>>[i].role # "assistant"
        BY <1>3, <1>4
    <2>2. /\ chatRows \o <<r>> \in Seq(ChatRows)
          /\ StoredIn(chatRows) \subseteq StoredIn(chatRows \o <<r>>) /\ ParentsIn(chatRows \o <<r>>)
        BY <1>1, <1>4, <1>5, <2>1, RowsAppended
    <2> QED BY <1>2, <1>4, <2>2 DEF Stored
<1>7. t \in Stored'
    BY <1>1, <1>2, <1>3, <1>4 DEF Stored, StoredIn
<1>8. ChatTypes'
    <2>1. out' \in Seq(ChatEvents(Stored'))
        <3>1. PICK A, B : A = ChatEvents(Stored) /\ B = ChatEvents(Stored')
            OBVIOUS
        <3>2. A \subseteq B
            BY <1>6, <3>1 DEF ChatEvents
        <3>3. out \in Seq(A)
            BY <3>1 DEF ChatTypes
        <3>4. Seq(A) \subseteq Seq(B)
            BY <3>2
        <3> QED BY <1>2, <3>1, <3>3, <3>4
    <2>2. commands' \in Seq([kind : {"Start", "Input"}, turn : Stored'])
        <3>1. PICK A, B : A = [kind : {"Start", "Input"}, turn : Stored] /\ B = [kind : {"Start", "Input"}, turn : Stored']
            OBVIOUS
        <3>2. A \subseteq B
            BY <1>6, <3>1
        <3>3. commands \in Seq(A)
            BY <3>1 DEF ChatTypes
        <3>4. Seq(A) \subseteq Seq(B)
            BY <3>2
        <3> QED BY <1>2, <3>1, <3>3, <3>4
    <2>3. page' \in [got : 0..Len(chatRows'), more : BOOLEAN]
        BY <1>1, <1>2, <1>6 DEF ChatTypes
    <2>4. post' \in [Turns -> {"idle", "checked", "inserting", "stored", "started", "answered"}]
        BY <1>2 DEF ChatTypes
    <2>5. taken' \in 0..Len(commands') /\ content' \in Seq(Speech) /\ seqOf' \in [Turns -> Nat] /\ losses' \in Nat
          /\ overlapped' \in BOOLEAN /\ dropped' \in BOOLEAN
        BY <1>2 DEF ChatTypes
    <2> QED BY <1>6, <2>1, <2>2, <2>3, <2>4, <2>5 DEF ChatTypes
<1>9. PostsInOrder'
    <2>1. \A u \in Turns : post'[u] # "inserting"
        BY <1>1, <1>2 DEF ChatTypes, PostsInOrder
    <2>2. \A u \in Turns : post'[u] \in {"stored", "started"} => u \in Stored'
        BY <1>2, <1>6, <1>7 DEF ChatTypes, PostsInOrder
    <2> QED BY <1>1, <1>2, <2>1, <2>2 DEF PostsInOrder
<1>10. StartIsFirst'
    <2> SUFFICES ASSUME ~overlapped', losses' = 0
                 PROVE  InputsFollow(commands') /\ OneActive' /\ RowsStarted' /\ LaterPosts'
        BY DEF StartIsFirst
    <2>1. /\ InputsFollow(commands) /\ OneActive /\ RowsStarted /\ LaterPosts
          /\ post \in [Turns -> {"idle", "checked", "inserting", "stored", "started", "answered"}]
        BY <1>2 DEF StartIsFirst, ChatTypes
    <2>2. OneActive'
        BY <1>1, <1>2, <2>1 DEF OneActive, Active
    <2>3. seqOf[t] # 1 => StartSent
        <3> SUFFICES ASSUME seqOf[t] # 1 PROVE StartSent
            OBVIOUS
        <3>1. chatRows # <<>>
            BY <1>1
        <3>2. \A u \in Turns : post[u] = "stored" => u = t
            BY <1>1, <2>1 DEF OneActive, Active
        <3> QED BY <1>1, <2>1, <3>1, <3>2 DEF RowsStarted
    <2>4. StartSent' <=> StartSent
        BY <1>2 DEF StartSent
    <2>5. RowsStarted'
        BY <1>1, <1>2, <2>3, <2>4 DEF RowsStarted
    <2>6. LaterPosts'
        BY <1>1, <1>2, <2>1, <2>3, <2>4 DEF LaterPosts
    <2> QED BY <1>2, <2>1, <2>2, <2>5, <2>6
<1>11. ContentKept'
    <2> SUFFICES ASSUME ~dropped' PROVE Read(chatRows') = Said(content')
        BY DEF ContentKept
    <2>1. Read(chatRows) = Said(content)
        BY <1>2 DEF ContentKept
    <2>2. Read(chatRows \o <<r>>) = Read(chatRows) \o Read(<<r>>) /\ Read(chatRows) \in Seq(Speech)
        BY <1>1, <1>4, ReadConcat DEF Speech
    <2>3. Read(<<r>>) = <<>>
        BY <1>3, ReadOne
    <2>4. Read(chatRows) \o <<>> = Read(chatRows)
        BY <2>2, ConcatEmptySeq
    <2> QED BY <1>2, <1>4, <2>1, <2>2, <2>3, <2>4
<1>12. ParentStored'
    BY <1>6 DEF ParentStored, ParentsIn
<1> QED BY <1>8, <1>9, <1>10, <1>11, <1>12

\* What the state keeps when the rows, the content and the events to deliver stay.
LEMMA RowsKept ==
    ASSUME ChatInv, chatRows' = chatRows, content' = content, dropped' = dropped
    PROVE  ContentKept' /\ ParentStored' /\ Stored' = Stored /\ Len(chatRows) \in Nat
BY DEF ChatInv, ContentKept, ParentStored, Stored, ChatTypes

\* A first post sends the Start and then its Input, a later one finds the Start sent.
LEMMA PublishKeeps ==
    ASSUME ChatInv, NEW t \in Turns, Publish(t)
    PROVE  ChatInv'
<1> USE DEF ChatInv
<1>0. /\ chatStatus' = chatStatus /\ chatRows' = chatRows /\ seqOf' = seqOf /\ taken' = taken /\ page' = page
      /\ refused' = refused /\ overlapped' = overlapped /\ out' = out /\ content' = content /\ dropped' = dropped
      /\ post[t] \in {"stored", "started"} /\ t \in Stored
    BY DEF Publish, ingestVars, PostsInOrder
<1>1. ContentKept' /\ ParentStored' /\ Stored' = Stored /\ Len(chatRows) \in Nat
    BY <1>0, RowsKept
<1>2. /\ post \in [Turns -> {"idle", "checked", "inserting", "stored", "started", "answered"}] /\ taken \in 0..Len(commands)
      /\ losses \in Nat /\ seqOf \in [Turns -> Nat]
    BY DEF ChatTypes
<1> DEFINE C == [kind : {"Start", "Input"}, turn : Stored]
           c == Cmd(NextCommand(t), t)
<1>3. commands \in Seq(C) /\ c \in C /\ c.kind = NextCommand(t)
    BY <1>0 DEF ChatTypes, Cmd, NextCommand
<1> HIDE DEF c
<1>4. CASE /\ commands' = Append(commands, c)
           /\ post' = [post EXCEPT ![t] = IF seqOf[t] = 1 /\ post[t] = "stored" THEN "started" ELSE "answered"]
           /\ losses' = losses
    <2>1. /\ commands' \in Seq(C) /\ Len(commands') = Len(commands) + 1 /\ Len(commands) \in Nat
          /\ DOMAIN commands = 1..Len(commands) /\ DOMAIN commands' = 1..(Len(commands) + 1)
          /\ \A i \in 1..Len(commands) : commands'[i] = commands[i]
          /\ commands'[Len(commands) + 1] = c
        <3>1. PICK T : T = C
            OBVIOUS
        <3>2. commands \in Seq(T) /\ c \in T
            BY <1>3, <3>1
        <3> QED BY <1>4, <3>1, <3>2
    <2>2. ChatTypes'
        <3>1. post' \in [Turns -> {"idle", "checked", "inserting", "stored", "started", "answered"}]
            BY <1>2, <1>4
        <3>2. taken' \in 0..Len(commands')
            BY <1>0, <1>2, <2>1
        <3>3. commands' \in Seq([kind : {"Start", "Input"}, turn : Stored'])
            BY <1>1, <2>1
        <3>4. /\ chatRows' \in Seq(ChatRows) /\ content' \in Seq(Speech) /\ out' \in Seq(ChatEvents(Stored'))
              /\ seqOf' \in [Turns -> Nat] /\ losses' \in Nat /\ page' \in [got : 0..Len(chatRows'), more : BOOLEAN]
              /\ overlapped' \in BOOLEAN /\ dropped' \in BOOLEAN
            BY <1>0, <1>1, <1>4 DEF ChatTypes
        <3> QED BY <3>1, <3>2, <3>3, <3>4 DEF ChatTypes
    <2>3. PostsInOrder'
        <3>1. \A u \in Turns : post'[u] = "inserting" => post[u] = "inserting" /\ u # t
            BY <1>2, <1>4
        <3>2. \A u \in Turns : post'[u] \in {"stored", "started"} => u \in Stored
            BY <1>0, <1>2, <1>4 DEF PostsInOrder
        <3> QED BY <1>0, <1>1, <3>1, <3>2 DEF PostsInOrder
    <2>4. StartIsFirst'
        <3> SUFFICES ASSUME ~overlapped', losses' = 0
                     PROVE  InputsFollow(commands') /\ OneActive' /\ RowsStarted' /\ LaterPosts'
            BY DEF StartIsFirst
        <3>1. InputsFollow(commands) /\ OneActive /\ RowsStarted /\ LaterPosts
            BY <1>0, <1>4 DEF StartIsFirst
        <3>2. c.kind = "Start" \/ StartSent
            BY <1>0, <1>3, <3>1 DEF NextCommand, LaterPosts
        <3>3. InputsFollow(Append(commands, c))
            BY <1>3, <3>1, <3>2, CommandAdded DEF StartSent
        <3>4. StartSent'
            <4>1. CASE c.kind = "Start"
                <5>1. Len(commands) + 1 \in DOMAIN commands' /\ commands'[Len(commands) + 1].kind = "Start"
                    BY <2>1, <4>1
                <5> QED BY <5>1 DEF StartSent
            <4>2. CASE StartSent
                <5>1. PICK i \in DOMAIN commands : commands[i].kind = "Start"
                    BY <4>2 DEF StartSent
                <5>2. i \in DOMAIN commands' /\ commands'[i].kind = "Start"
                    BY <2>1, <5>1
                <5> QED BY <5>2 DEF StartSent
            <4> QED BY <3>2, <4>1, <4>2
        <3>5. OneActive'
            BY <1>0, <1>2, <1>4, <3>1 DEF OneActive, Active
        <3> QED BY <1>4, <3>3, <3>4, <3>5 DEF RowsStarted, LaterPosts
    <2> QED BY <1>1, <2>2, <2>3, <2>4
<1>5. CASE losses' = losses + 1 /\ post' = [post EXCEPT ![t] = "answered"] /\ commands' = commands
    <2>1. ChatTypes'
        <3>1. post' \in [Turns -> {"idle", "checked", "inserting", "stored", "started", "answered"}]
            BY <1>2, <1>5
        <3>2. losses' \in Nat
            BY <1>2, <1>5
        <3>3. /\ chatRows' \in Seq(ChatRows) /\ content' \in Seq(Speech) /\ out' \in Seq(ChatEvents(Stored'))
              /\ commands' \in Seq([kind : {"Start", "Input"}, turn : Stored']) /\ taken' \in 0..Len(commands')
              /\ seqOf' \in [Turns -> Nat] /\ page' \in [got : 0..Len(chatRows'), more : BOOLEAN]
              /\ overlapped' \in BOOLEAN /\ dropped' \in BOOLEAN
            BY <1>0, <1>1, <1>5 DEF ChatTypes
        <3> QED BY <3>1, <3>2, <3>3 DEF ChatTypes
    <2>2. PostsInOrder'
        <3>1. \A u \in Turns : post'[u] \in {"inserting", "stored", "started"} => post'[u] = post[u]
            BY <1>2, <1>5
        <3> QED BY <1>0, <1>1, <3>1 DEF PostsInOrder
    <2>3. StartIsFirst'
        <3>1. losses' # 0
            BY <1>2, <1>5
        <3> QED BY <3>1 DEF StartIsFirst
    <2> QED BY <1>1, <2>1, <2>2, <2>3
<1>6. \/ commands' = Append(commands, c)
         /\ post' = [post EXCEPT ![t] = IF seqOf[t] = 1 /\ post[t] = "stored" THEN "started" ELSE "answered"]
         /\ losses' = losses
      \/ losses' = losses + 1 /\ post' = [post EXCEPT ![t] = "answered"] /\ commands' = commands
    BY DEF Publish, c
<1> QED BY <1>4, <1>5, <1>6

\* More stored turns allow what fewer allowed.
LEMMA MoreStored ==
    ASSUME NEW K, NEW M, K \subseteq M
    PROVE  /\ Seq(ChatEvents(K)) \subseteq Seq(ChatEvents(M))
           /\ Seq([kind : {"Start", "Input"}, turn : K]) \subseteq Seq([kind : {"Start", "Input"}, turn : M])
<1>1. \A A, B : A \subseteq B => Seq(A) \subseteq Seq(B)
    OBVIOUS
<1>2. ChatEvents(K) \subseteq ChatEvents(M)
    BY DEF ChatEvents
<1>3. [kind : {"Start", "Input"}, turn : K] \subseteq [kind : {"Start", "Input"}, turn : M]
    OBVIOUS
<1> QED BY <1>1, <1>2, <1>3

\* The posts keep their order while only the runner, its events or the reader move.
LEMMA PostsKept ==
    ASSUME ChatInv, chatRows' = chatRows, commands' = commands, UNCHANGED postVars, losses' = losses
    PROVE  PostsInOrder' /\ StartIsFirst'
BY DEF ChatInv, PostsInOrder, StartIsFirst, OneActive, Active, RowsStarted, LaterPosts, StartSent, Stored, postVars

\* The runner answers with events of a turn that is stored.
LEMMA RunnerTakesKeeps ==
    ASSUME ChatInv, RunnerTakes
    PROVE  ChatInv'
<1> USE DEF ChatInv
<1>0. /\ chatRows' = chatRows /\ UNCHANGED postVars /\ commands' = commands /\ content' = content /\ dropped' = dropped
      /\ page' = page /\ losses' = losses /\ taken < Len(commands) /\ taken' = taken + 1
    BY DEF RunnerTakes
<1>1. ContentKept' /\ ParentStored' /\ Stored' = Stored /\ Len(chatRows) \in Nat
    BY <1>0, RowsKept
<1>2. PostsInOrder' /\ StartIsFirst'
    BY <1>0, PostsKept
<1> DEFINE c == commands[taken + 1]
<1>3. c.turn \in Stored /\ taken' \in 0..Len(commands) /\ Len(commands) \in Nat
    <2>1. PICK C : C = [kind : {"Start", "Input"}, turn : Stored]
        OBVIOUS
    <2>2. commands \in Seq(C) /\ taken \in 0..Len(commands)
        BY <2>1 DEF ChatTypes
    <2>3. taken + 1 \in 1..Len(commands) /\ Len(commands) \in Nat
        BY <1>0, <2>2
    <2>4. c \in C
        BY <2>2, <2>3
    <2> QED BY <1>0, <2>1, <2>3, <2>4
<1> HIDE DEF c
<1>4. out' = out \/ \E a \in Answers : out' = out \o [i \in DOMAIN a |-> [kind |-> a[i], turn |-> c.turn]]
    BY DEF RunnerTakes, c
<1>5. out' \in Seq(ChatEvents(Stored))
    <2>1. PICK E : E = ChatEvents(Stored)
        OBVIOUS
    <2>2. out \in Seq(E)
        BY <2>1 DEF ChatTypes
    <2>3. ASSUME NEW a \in Answers PROVE [i \in DOMAIN a |-> [kind |-> a[i], turn |-> c.turn]] \in Seq(E)
        <3>1. a \in Seq({"Text", "Thinking", "UserInput", "TurnComplete"})
            <4>1. /\ <<"Text", "TurnComplete">> \in Seq({"Text", "Thinking", "UserInput", "TurnComplete"})
                  /\ <<"Text", "Thinking", "UserInput">> \in Seq({"Text", "Thinking", "UserInput", "TurnComplete"})
                OBVIOUS
            <4>2. a = <<"Text", "TurnComplete">> \/ a = <<"Text", "Thinking", "UserInput">>
                BY DEF Answers
            <4> QED BY <4>1, <4>2
        <3>2. Len(a) \in Nat /\ DOMAIN a = 1..Len(a) /\ \A i \in 1..Len(a) : a[i] \in {"Text", "Thinking", "UserInput", "TurnComplete"}
            BY <3>1
        <3>3. \A i \in 1..Len(a) : [kind |-> a[i], turn |-> c.turn] \in E
            BY <1>3, <2>1, <3>2 DEF ChatEvents
        <3> QED BY <3>2, <3>3
    <2>4. \A x \in Seq(E) : out \o x \in Seq(E)
        BY <2>2
    <2> QED BY <1>4, <2>1, <2>2, <2>3, <2>4
<1>6. ChatTypes'
    BY <1>0, <1>1, <1>3, <1>5 DEF ChatTypes, postVars
<1> QED BY <1>1, <1>2, <1>6

\* A batch becomes rows of stored turns that say what the batch says.
LEMMA BatchRows ==
    ASSUME ChatInv, NEW n \in 1..6, n <= Len(out)
    PROVE  /\ SubSeq(out, 1, n) \in Seq(Speech) /\ SubSeq(out, n + 1, Len(out)) \in Seq(ChatEvents(Stored))
           /\ AssistantRows(SubSeq(out, 1, n)) \in Seq(AnswerRows(Stored))
           /\ Read(AssistantRows(SubSeq(out, 1, n))) = Said(SubSeq(out, 1, n))
<1>1. PICK E : E = ChatEvents(Stored)
    OBVIOUS
<1>2. out \in Seq(E)
    BY <1>1 DEF ChatInv, ChatTypes
<1>3. SubSeq(out, 1, n) \in Seq(E) /\ SubSeq(out, n + 1, Len(out)) \in Seq(E)
    BY <1>2
<1>4. Stored \in SUBSET Turns /\ \A t \in Stored : ParentOf(t) = t
    BY DEF Stored, StoredIn, ParentOf
<1>5. SubSeq(out, 1, n) \in Seq(Speech)
    BY <1>1, <1>3, <1>4, MoreStored DEF Speech
<1> QED BY <1>1, <1>3, <1>4, <1>5, AssistantRowsSay

\* The rows of a batch are stored after the user rows of their turns.
LEMMA IngestKeeps ==
    ASSUME ChatInv, NEW n \in 1..6, Ingest(n)
    PROVE  ChatInv'
<1> USE DEF ChatInv
<1> DEFINE b == SubSeq(out, 1, n)
           added == AssistantRows(b)
<1>0. /\ n <= Len(out) /\ \A u \in Turns : post[u] # "inserting"
      /\ content' = content \o b /\ (out' = SubSeq(out, n + 1, Len(out)) \/ out' = out)
      /\ UNCHANGED postVars /\ commands' = commands /\ taken' = taken /\ page' = page
    BY DEF Ingest, SessionUnlocked
<1>1. \/ chatRows' = chatRows \o added /\ losses' = losses /\ dropped' = dropped
      \/ added # <<>> /\ chatRows' = chatRows \o Tail(added) /\ losses' = losses + 1 /\ dropped' = TRUE
    BY DEF Ingest
<1>2. /\ b \in Seq(Speech) /\ SubSeq(out, n + 1, Len(out)) \in Seq(ChatEvents(Stored))
      /\ added \in Seq(AnswerRows(Stored)) /\ Read(added) = Said(b)
    BY <1>0, BatchRows
<1> HIDE DEF added, b
<1>3. PICK x \in Seq(AnswerRows(Stored)) : chatRows' = chatRows \o x /\ (losses' = losses => x = added)
    <2>1. PICK A : A = AnswerRows(Stored)
        OBVIOUS
    <2>2. added \in Seq(A) /\ (added # <<>> => Tail(added) \in Seq(A))
        BY <1>2, <2>1
    <2>3. losses \in Nat
        BY DEF ChatTypes
    <2>4. CASE chatRows' = chatRows \o added /\ losses' = losses
        BY <2>1, <2>2, <2>4
    <2>5. CASE added # <<>> /\ chatRows' = chatRows \o Tail(added) /\ losses' = losses + 1
        <3>1. losses' # losses
            BY <2>3, <2>5
        <3> QED BY <2>1, <2>2, <2>5, <3>1
    <2> QED BY <1>1, <2>4, <2>5
<1>4. x \in Seq(ChatRows) /\ Len(x) \in Nat /\ DOMAIN x = 1..Len(x) /\ \A i \in DOMAIN x : x[i] \in AnswerRows(Stored)
    <2>1. PICK A, R : A = AnswerRows(Stored) /\ R = ChatRows
        OBVIOUS
    <2>2. A \subseteq R
        BY <2>1 DEF AnswerRows, ChatRows, Stored, StoredIn
    <2>3. x \in Seq(A)
        BY <1>3, <2>1
    <2>4. Seq(A) \subseteq Seq(R)
        BY <2>2
    <2> QED BY <2>1, <2>3, <2>4
<1>5. \A i \in DOMAIN x : x[i].turn \in Stored /\ x[i].parent = x[i].turn
    BY <1>4 DEF AnswerRows
<1>6. chatRows \in Seq(ChatRows) /\ Len(chatRows) \in Nat /\ ParentsIn(chatRows)
    BY DEF ChatTypes, ParentStored, ParentsIn
<1>7. /\ chatRows' \in Seq(ChatRows) /\ Len(chatRows') = Len(chatRows) + Len(x)
      /\ Stored \subseteq Stored' /\ ParentsIn(chatRows')
    <2>1. /\ chatRows \o x \in Seq(ChatRows) /\ Len(chatRows \o x) = Len(chatRows) + Len(x)
          /\ StoredIn(chatRows) \subseteq StoredIn(chatRows \o x) /\ ParentsIn(chatRows \o x)
        BY <1>4, <1>5, <1>6, RowsAppended DEF Stored
    <2> QED BY <1>3, <2>1 DEF Stored
<1>8. ChatTypes'
    <2>1. out' \in Seq(ChatEvents(Stored'))
        <3>1. out' \in Seq(ChatEvents(Stored))
            BY <1>0, <1>2 DEF ChatTypes
        <3> QED BY <1>7, <3>1, MoreStored
    <2>2. commands' \in Seq([kind : {"Start", "Input"}, turn : Stored'])
        <3>1. commands' \in Seq([kind : {"Start", "Input"}, turn : Stored])
            BY <1>0 DEF ChatTypes
        <3> QED BY <1>7, <3>1, MoreStored
    <2>3. content' \in Seq(Speech)
        <3>1. PICK S : S = Speech
            OBVIOUS
        <3>2. content \in Seq(S) /\ b \in Seq(S)
            BY <1>2, <3>1 DEF ChatTypes
        <3>3. content \o b \in Seq(S)
            BY <3>2
        <3> QED BY <1>0, <3>1, <3>3
    <2>4. page' \in [got : 0..Len(chatRows'), more : BOOLEAN]
        BY <1>0, <1>4, <1>6, <1>7 DEF ChatTypes
    <2>5. losses' \in Nat /\ dropped' \in BOOLEAN
        <3>1. losses \in Nat /\ dropped \in BOOLEAN
            BY DEF ChatTypes
        <3>2. dropped' \in BOOLEAN
            BY <1>1, <3>1
        <3>3. losses' \in Nat
            BY <1>1, <3>1
        <3> QED BY <3>2, <3>3
    <2>6. /\ post' \in [Turns -> {"idle", "checked", "inserting", "stored", "started", "answered"}]
          /\ seqOf' \in [Turns -> Nat] /\ overlapped' \in BOOLEAN /\ taken' \in 0..Len(commands')
        BY <1>0 DEF ChatTypes, postVars
    <2> QED BY <1>7, <2>1, <2>2, <2>3, <2>4, <2>5, <2>6 DEF ChatTypes
<1>9. PostsInOrder'
    BY <1>0, <1>7 DEF PostsInOrder, postVars
<1>10. StartIsFirst'
    <2> SUFFICES ASSUME ~overlapped', losses' = 0
                 PROVE  InputsFollow(commands') /\ OneActive' /\ RowsStarted' /\ LaterPosts'
        BY DEF StartIsFirst
    <2>1. losses = 0 /\ ~overlapped
        BY <1>0, <1>1 DEF ChatTypes, postVars
    <2>2. InputsFollow(commands) /\ OneActive /\ RowsStarted /\ LaterPosts
        BY <2>1 DEF StartIsFirst
    <2>3. chatRows' # <<>> => chatRows # <<>>
        <3> SUFFICES ASSUME chatRows = <<>>, chatRows' # <<>> PROVE FALSE
            OBVIOUS
        <3>1. Stored = {}
            BY DEF Stored, StoredIn
        <3>2. x = <<>>
            BY <1>4, <1>5, <3>1
        <3> QED BY <1>3, <3>2
    <2> QED BY <1>0, <2>2, <2>3 DEF OneActive, Active, RowsStarted, LaterPosts, StartSent, postVars
<1>11. ContentKept'
    <2> SUFFICES ASSUME ~dropped' PROVE Read(chatRows') = Said(content')
        BY DEF ContentKept
    <2>1. chatRows' = chatRows \o added /\ ~dropped
        BY <1>1
    <2>2. Read(chatRows) = Said(content)
        BY <2>1 DEF ContentKept
    <2>3. added \in Seq(ChatRows)
        <3>1. PICK A, R : A = AnswerRows(Stored) /\ R = ChatRows
            OBVIOUS
        <3>2. A \subseteq R
            BY <3>1 DEF AnswerRows, ChatRows, Stored, StoredIn
        <3>3. Seq(A) \subseteq Seq(R)
            BY <3>2
        <3> QED BY <1>2, <3>1, <3>3
    <2>4. Read(chatRows \o added) = Read(chatRows) \o Read(added)
        BY <1>6, <2>3, ReadConcat
    <2>5. Said(content \o b) = Said(content) \o Said(b)
        BY <1>2, SaidConcat DEF ChatTypes, Speech
    <2> QED BY <1>0, <1>2, <2>1, <2>2, <2>4, <2>5
<1>12. ParentStored'
    BY <1>7 DEF ParentStored, ParentsIn
<1> QED BY <1>8, <1>9, <1>10, <1>11, <1>12

\* A reader gets no further than the rows there are, and stops only there.
LEMMA ListKeeps ==
    ASSUME ChatInv, ListChatMessages
    PROVE  /\ ChatInv' /\ ((page.more /\ ~page'.more) => page'.got = Len(chatRows))
<1> USE DEF ChatInv
<1>0. /\ chatRows' = chatRows /\ UNCHANGED postVars /\ commands' = commands /\ content' = content /\ dropped' = dropped
      /\ out' = out /\ taken' = taken /\ losses' = losses
    BY DEF ListChatMessages, ingestVars
<1>1. ContentKept' /\ ParentStored' /\ Stored' = Stored /\ Len(chatRows) \in Nat
    BY <1>0, RowsKept
<1>2. PostsInOrder' /\ StartIsFirst'
    BY <1>0, PostsKept
<1> DEFINE left == Len(chatRows) - page.got
           n == IF left < Fetch THEN left ELSE Fetch
<1>3. page' = [got |-> page.got + (IF n < Limit THEN n ELSE Limit), more |-> n > Limit]
    BY DEF ListChatMessages
<1>4. page.got \in 0..Len(chatRows) /\ Limit \in Nat /\ Limit >= 1 /\ Fetch = Limit + 1
    BY ChatAssumption DEF ChatTypes, Fetch
<1>5. left \in Nat /\ page.got + left = Len(chatRows)
    BY <1>1, <1>4
<1>6. page'.got \in 0..Len(chatRows) /\ page'.more \in BOOLEAN /\ page' = [got |-> page'.got, more |-> page'.more]
    BY <1>1, <1>3, <1>4, <1>5
<1>7. ~page'.more => page'.got = Len(chatRows)
    <2> SUFFICES ASSUME ~(page'.more) PROVE page'.got = Len(chatRows)
        OBVIOUS
    <2>1. page'.more = (n > Limit) /\ page'.got = page.got + (IF n < Limit THEN n ELSE Limit)
        BY <1>3
    <2>2. ~(n > Limit)
        BY <2>1
    <2>3. left <= Limit /\ n = left
        BY <1>4, <1>5, <2>2
    <2> HIDE DEF n, left
    <2> QED BY <1>1, <1>4, <1>5, <2>1, <2>3
<1>8. ChatTypes'
    BY <1>0, <1>1, <1>6 DEF ChatTypes, postVars
<1> QED BY <1>1, <1>2, <1>7, <1>8

\* Every step keeps the invariant, and no step but the reader's ends the reading.
LEMMA ChatStepKeeps ==
    ASSUME ChatInv, [ChatNext]_chatVars
    PROVE  ChatInv' /\ ((page.more /\ ~page'.more) => page'.got = Len(chatRows))
<1>1. ASSUME NEW t \in Turns, PostChecks(t) \/ InsertReads(t) \/ InsertCommits(t) \/ Publish(t)
      PROVE  ChatInv' /\ page' = page
    <2>1. ChatInv'
        BY <1>1, PostChecksKeeps, InsertReadsKeeps, InsertCommitsKeeps, PublishKeeps
    <2>2. page' = page
        BY <1>1 DEF PostChecks, InsertReads, InsertCommits, Publish
    <2> QED BY <2>1, <2>2
<1>2. CASE RunnerTakes
    BY <1>2, RunnerTakesKeeps DEF RunnerTakes
<1>3. CASE PatchChatStatus
    <2>1. /\ chatRows' = chatRows /\ UNCHANGED postVars /\ commands' = commands /\ content' = content /\ dropped' = dropped
          /\ out' = out /\ taken' = taken /\ losses' = losses /\ page' = page
        BY <1>3 DEF PatchChatStatus, ingestVars
    <2>2. ContentKept' /\ ParentStored' /\ Stored' = Stored /\ PostsInOrder' /\ StartIsFirst'
        BY <2>1, RowsKept, PostsKept
    <2>3. ChatTypes'
        BY <2>1, <2>2 DEF ChatInv, ChatTypes, postVars
    <2> QED BY <2>1, <2>2, <2>3 DEF ChatInv
<1>4. ASSUME NEW n \in 1..6, Ingest(n) PROVE ChatInv' /\ page' = page
    BY <1>4, IngestKeeps DEF Ingest
<1>5. CASE ListChatMessages
    BY <1>5, ListKeeps
<1>6. CASE UNCHANGED chatVars
    <2>1. /\ chatRows' = chatRows /\ UNCHANGED postVars /\ commands' = commands /\ content' = content /\ dropped' = dropped
          /\ out' = out /\ taken' = taken /\ losses' = losses /\ page' = page
        BY <1>6 DEF chatVars, postVars
    <2>2. ContentKept' /\ ParentStored' /\ Stored' = Stored /\ PostsInOrder' /\ StartIsFirst'
        BY <2>1, RowsKept, PostsKept
    <2>3. ChatTypes'
        BY <2>1, <2>2 DEF ChatInv, ChatTypes, postVars
    <2> QED BY <2>1, <2>2, <2>3 DEF ChatInv
<1> QED BY <1>1, <1>2, <1>3, <1>4, <1>5, <1>6 DEF ChatNext

(* Posts and the runner's answers are stored whole, in order and joined to    *)
(* their turns, and a reader gets them all.                                   *)
THEOREM ChatKeepsAll == ChatSpec => ChatIsComplete
<1>1. ChatInit => ChatInv
    BY ChatInvInit
<1>2. ChatInv /\ [ChatNext]_chatVars => ChatInv'
    BY ChatStepKeeps
<1>3. ChatInv => NoSeqConflict /\ StartComesFirst /\ ContentKept /\ ParentStored
    BY DEF ChatInv, PostsInOrder, NoSeqConflict, StartIsFirst, InputsFollow, StartComesFirst
<1>4. ChatInv /\ [ChatNext]_chatVars => [(page.more /\ ~page'.more) => page'.got = Len(chatRows)]_chatVars
    BY ChatStepKeeps
<1> QED BY <1>1, <1>2, <1>3, <1>4, PTL DEF ChatSpec, ChatIsComplete, PagesComplete

----------------------------------------------------------------------------
(* The audit trail.  The key of a row is that of the record it stands for, so *)
(* records of one key share a row; every record the consumer has gone past    *)
(* was stored then, was there before, or its insert failed.                   *)

AudRecords(c) ==
    IF c = "audit" THEN [id : EventIds \cup {NoUuid}]
    ELSE [run : RunIds, stage : Stages, status : Statuses,
          request : [item : {"", "fqn"}] \cup [event : Nat] \cup [command : Stages, of : RunIds]]
AudTypeOK ==
    /\ \A c \in AuditTopics : audlog[c] \in Seq(AudRecords(c))
    /\ audlog = [c \in AuditTopics |-> audlog[c]]
    /\ audpos \in [AuditTopics -> Nat] /\ audoff \in [AuditTopics -> Nat]
    /\ \A c \in AuditTopics : audpos[c] <= Len(audlog[c]) /\ audoff[c] <= Len(audlog[c])
\* A row stands for a record, under its key; a record that has no UUID got a new one.
OwnKey(x, r) ==
    \/ x.topic = "status" /\ x.key = EventKey("status", r)
    \/ x.topic = "audit" /\ r.id # NoUuid /\ x.key = EventKey("audit", r)
    \/ x.topic = "audit" /\ r.id = NoUuid /\ \E n : x.key = [topic |-> "audit", new |-> n]
RowsHaveKeys ==
    \A x \in trail : /\ x.topic \in AuditTopics /\ x.at \in 1..Len(audlog[x.topic])
                     /\ OwnKey(x, audlog[x.topic][x.at])
KeysAreUnique == \A x, y \in trail : x.key = y.key => x = y
InTrail(c, i) == \E x \in trail : x.topic = c /\ EventKey(c, audlog[c][x.at]) = EventKey(c, audlog[c][i])
GivenIsStored == \A c \in AuditTopics : \A i \in 1..audpos[c] : <<c, i>> \in skipped \/ InTrail(c, i)

AudInv == AudTypeOK /\ RowsHaveKeys /\ KeysAreUnique /\ GivenIsStored /\ CommittedIsStored

LEMMA OwnKeyTopic == ASSUME NEW x, NEW r, OwnKey(x, r) PROVE x.key.topic = x.topic
<1>1. CASE x.topic = "status" /\ x.key = EventKey("status", r)
  <2>1. EventKey("status", r).topic = "status"
    BY DEF EventKey
  <2> QED BY <1>1, <2>1
<1>2. CASE x.topic = "audit" /\ x.key = EventKey("audit", r)
  <2>1. EventKey("audit", r).topic = "audit"
    BY DEF EventKey
  <2> QED BY <1>2, <2>1
<1>3. CASE x.topic = "audit" /\ \E n : x.key = [topic |-> "audit", new |-> n]
    BY <1>3
<1> QED BY <1>1, <1>2, <1>3 DEF OwnKey

\* A row under the key of a record stands for a record with that key.
LEMMA KeyOfRecord ==
    ASSUME RowsHaveKeys, NEW c \in AuditTopics, NEW i \in 1..Len(audlog[c]),
           NEW x \in trail, x.key = RowKey(c, audlog[c][i])
    PROVE  x.topic = c /\ EventKey(c, audlog[c][x.at]) = EventKey(c, audlog[c][i])
<1> DEFINE r == audlog[c][i]
           q == audlog[x.topic][x.at]
<1>1. OwnKey(x, q) /\ x.key = RowKey(c, r)
    BY DEF RowsHaveKeys
<1> HIDE DEF r, q
<1>2. x.topic = c
  <2>1. x.key.topic = x.topic
    BY <1>1, OwnKeyTopic
  <2>2. RowKey(c, r).topic = c
    BY DEF RowKey, EventKey
  <2> QED BY <1>1, <2>1, <2>2
<1>3. EventKey(c, q) = EventKey(c, r)
  <2>1. CASE c = "status"
    BY <1>1, <1>2, <2>1 DEF OwnKey, RowKey
  <2>2. CASE c = "audit"
    <3>1. EventKey(c, r) = [topic |-> c, id |-> r.id] /\ EventKey(c, q) = [topic |-> c, id |-> q.id]
      BY <2>2 DEF EventKey
    <3>2. RowKey(c, r) = IF r.id = NoUuid THEN [topic |-> c, new |-> Cardinality(trail)] ELSE EventKey(c, r)
      BY <2>2 DEF RowKey
    <3>3. \/ q.id # NoUuid /\ x.key = EventKey(c, q)
          \/ q.id = NoUuid /\ \E n : x.key = [topic |-> "audit", new |-> n]
      BY <1>1, <1>2, <2>2 DEF OwnKey
    <3>4. \A n, m : [topic |-> "audit", id |-> n] # [topic |-> "audit", new |-> m]
      <4> SUFFICES ASSUME NEW n, NEW m, [topic |-> "audit", id |-> n] = [topic |-> "audit", new |-> m] PROVE FALSE
          OBVIOUS
      <4>1. DOMAIN [topic |-> "audit", id |-> n] = {"topic", "id"} /\ DOMAIN [topic |-> "audit", new |-> m] = {"topic", "new"}
        OBVIOUS
      <4> QED BY <4>1
    <3> QED BY <1>1, <2>2, <3>1, <3>2, <3>3, <3>4
  <2> QED BY <2>1, <2>2 DEF AuditTopics
<1> QED BY <1>2, <1>3 DEF r, q

LEMMA AudInitially == AudInit => AudInv
<1> SUFFICES ASSUME AudInit PROVE AudInv
    OBVIOUS
<1>1. AudTypeOK
    BY EmptySeq DEF AudInit, AudTypeOK
<1> QED BY <1>1 DEF AudInit, AudInv, RowsHaveKeys, KeysAreUnique, GivenIsStored, CommittedIsStored, InTrail

LEMMA ProduceStep == ASSUME AudInv, NEW c \in AuditTopics, AudProduce(c) PROVE AudInv'
<1>1. PICK r \in AudRecords(c) : audlog' = [audlog EXCEPT ![c] = Append(@, r)]
  <2>1. CASE c = "audit"
    BY <2>1 DEF AudProduce, AudRecords
  <2>2. CASE c = "status"
    <3>1. PICK run \in RunIds, stage \in Stages, status \in Statuses :
            audlog' = [audlog EXCEPT ![c] = Append(@, StatusEvent(run, stage, status, Len(@) + 1))]
      BY <2>2 DEF AudProduce
    <3>2. PICK n \in Nat : n = Len(audlog[c]) + 1
      BY LenProperties DEF AudInv, AudTypeOK
    <3>3. StatusEvent(run, stage, status, n) \in AudRecords(c)
      <4>1. CASE stage \in Projectors
        BY <2>2, <4>1 DEF StatusEvent, RequestId, AudRecords
      <4>2. CASE stage \notin Projectors /\ stage = "graph" /\ status = "failed"
        BY <2>2, <4>2 DEF StatusEvent, RequestId, AudRecords
      <4>3. CASE stage \notin Projectors /\ ~(stage = "graph" /\ status = "failed") /\ stage \in Renaming
        <5>1. RequestId(stage, run, status, n) = [event |-> n]
          BY <4>3, Zenon DEF RequestId
        <5>. QED  BY <2>2, <5>1 DEF StatusEvent, AudRecords
      <4>4. CASE ~(stage = "graph" /\ status = "failed") /\ stage \notin Projectors \cup Renaming
        <5>1. RequestId(stage, run, status, n) = [command |-> stage, of |-> run]
          BY <4>4, Zenon DEF RequestId
        <5>2. [command |-> stage, of |-> run] \in [command : Stages, of : RunIds]
          OBVIOUS
        <5>3. RequestId(stage, run, status, n)
                \in [item : {"", "fqn"}] \cup [event : Nat] \cup [command : Stages, of : RunIds]
          BY <5>1, <5>2
        <5>. QED  BY <2>2, <5>3 DEF StatusEvent, AudRecords
      <4>. QED  BY <4>1, <4>2, <4>3, <4>4
    <3> QED BY <3>1, <3>2, <3>3 DEF AudInv, AudTypeOK
  <2> QED BY <2>1, <2>2 DEF AuditTopics
<1>2. UNCHANGED <<audpos, audoff, trail, audfaults, skipped>>
    BY DEF AudProduce
<1>3. audlog[c] \in Seq(AudRecords(c)) /\ audlog'[c] = Append(audlog[c], r) /\ \A d \in AuditTopics : d # c => audlog'[d] = audlog[d]
    BY <1>1 DEF AudInv, AudTypeOK
<1>4. /\ audlog'[c] \in Seq(AudRecords(c)) /\ Len(audlog'[c]) = Len(audlog[c]) + 1 /\ Len(audlog[c]) \in Nat
      /\ \A i \in 1..Len(audlog[c]) : audlog'[c][i] = audlog[c][i]
    BY <1>3, AppendProperties, LenProperties
<1>5. \A d \in AuditTopics : /\ Len(audlog[d]) \in Nat /\ Len(audlog'[d]) \in Nat /\ Len(audlog[d]) <= Len(audlog'[d])
                             /\ \A i \in 1..Len(audlog[d]) : audlog'[d][i] = audlog[d][i]
  <2>1. \A d \in AuditTopics : Len(audlog[d]) \in Nat
    BY LenProperties DEF AudInv, AudTypeOK
  <2> QED BY <1>3, <1>4, <2>1
<1>6. AudTypeOK'
  <2>1. \A d \in AuditTopics : audlog'[d] \in Seq(AudRecords(d))
    BY <1>3, <1>4 DEF AudInv, AudTypeOK
  <2>2. \A d \in AuditTopics : audpos[d] <= Len(audlog'[d]) /\ audoff[d] <= Len(audlog'[d])
    BY <1>5 DEF AudInv, AudTypeOK
  <2>3. audlog' = [d \in AuditTopics |-> audlog'[d]]
    BY <1>1 DEF AudInv, AudTypeOK
  <2>4. \A d : AudRecords(d)' = AudRecords(d)
    BY DEF AudRecords
  <2> QED BY <1>2, <2>1, <2>2, <2>3, <2>4 DEF AudInv, AudTypeOK, AudRecords
<1>7. RowsHaveKeys'
  <2>1. \A x \in trail : x.topic \in AuditTopics /\ x.at \in 1..Len(audlog'[x.topic])
                         /\ audlog'[x.topic][x.at] = audlog[x.topic][x.at]
    BY <1>5 DEF AudInv, RowsHaveKeys
  <2> QED BY <1>2, <2>1 DEF AudInv, RowsHaveKeys
<1>8. KeysAreUnique'
    BY <1>2 DEF AudInv, KeysAreUnique
<1>9. ASSUME NEW d \in AuditTopics, NEW i \in 1..Len(audlog[d]), InTrail(d, i) PROVE InTrail(d, i)'
  <2>1. PICK x \in trail : x.topic = d /\ EventKey(d, audlog[d][x.at]) = EventKey(d, audlog[d][i])
    BY <1>9 DEF InTrail
  <2>2. x.at \in 1..Len(audlog[d])
    BY <2>1 DEF AudInv, RowsHaveKeys
  <2>3. audlog'[d][x.at] = audlog[d][x.at] /\ audlog'[d][i] = audlog[d][i] /\ x \in trail'
    BY <1>2, <1>5, <2>2
  <2> QED BY <2>1, <2>3 DEF InTrail, EventKey
<1>10. \A d \in AuditTopics : audpos[d] \in Nat /\ audoff[d] \in Nat /\ audpos[d] <= Len(audlog[d]) /\ audoff[d] <= Len(audlog[d])
    BY DEF AudInv, AudTypeOK
<1>11. GivenIsStored' /\ CommittedIsStored'
  <2>1. \A d \in AuditTopics : /\ \A i \in 1..audpos[d] : i \in 1..Len(audlog[d])
                               /\ \A i \in 1..audoff[d] : i \in 1..Len(audlog[d])
    BY <1>5, <1>10
  <2>2. \A d \in AuditTopics : \A i \in 1..audoff[d] : <<d, i>> \in skipped \/ InTrail(d, i)
    BY DEF AudInv, CommittedIsStored, InTrail
  <2>3. \A d \in AuditTopics : /\ \A i \in 1..audpos[d] : <<d, i>> \in skipped \/ InTrail(d, i)'
                               /\ \A i \in 1..audoff[d] : <<d, i>> \in skipped \/ InTrail(d, i)'
    BY <1>9, <2>1, <2>2 DEF AudInv, GivenIsStored
  <2> QED BY <1>2, <2>3 DEF GivenIsStored, CommittedIsStored, InTrail
<1> QED BY <1>6, <1>7, <1>8, <1>11 DEF AudInv

\* Storing a record gives it its row, unless the key has one.
LEMMA InsertKeeps ==
    ASSUME AudInv, NEW c \in AuditTopics, NEW i \in 1..Len(audlog[c]), AudInsert(c, i), UNCHANGED audlog
    PROVE  /\ RowsHaveKeys' /\ KeysAreUnique' /\ InTrail(c, i)'
           /\ trail \subseteq trail'
<1> DEFINE k == RowKey(c, audlog[c][i])
           new == [key |-> k, topic |-> c, at |-> i]
<1>1. CASE \E x \in trail : x.key = k
  <2>1. trail' = trail
    BY <1>1 DEF AudInsert
  <2>2. PICK x \in trail : x.key = k
    BY <1>1
  <2>3. x.topic = c /\ EventKey(c, audlog[c][x.at]) = EventKey(c, audlog[c][i])
    BY <2>2, KeyOfRecord DEF AudInv
  <2>4. InTrail(c, i)'
    BY <2>1, <2>2, <2>3 DEF InTrail, EventKey
  <2> QED BY <2>1, <2>4 DEF AudInv, RowsHaveKeys, KeysAreUnique, OwnKey, EventKey
<1>2. CASE \A x \in trail : x.key # k
  <2>1. trail' = trail \cup {new}
    BY <1>2 DEF AudInsert
  <2>2. /\ c = "status" => k = EventKey("status", audlog[c][i])
        /\ c = "audit" /\ audlog[c][i].id # NoUuid => k = EventKey("audit", audlog[c][i])
        /\ c = "audit" /\ audlog[c][i].id = NoUuid => k = [topic |-> "audit", new |-> Cardinality(trail)]
    BY DEF RowKey
  <2> HIDE DEF k
  <2>3. new.key = k /\ new.topic = c /\ new.at = i /\ new \in trail'
    BY <2>1
  <2>4. \A x \in trail' : x \in trail \/ x = new
    BY <2>1
  <2> HIDE DEF new
  <2>5. RowsHaveKeys'
    <3>1. \A x \in trail : x.topic \in AuditTopics /\ x.at \in 1..Len(audlog[x.topic]) /\ OwnKey(x, audlog[x.topic][x.at])
      BY DEF AudInv, RowsHaveKeys
    <3>2. new.topic \in AuditTopics /\ new.at \in 1..Len(audlog[new.topic]) /\ OwnKey(new, audlog[new.topic][new.at])
      BY <2>2, <2>3 DEF AuditTopics, OwnKey
    <3>3. \A x \in trail' : x.topic \in AuditTopics /\ x.at \in 1..Len(audlog[x.topic]) /\ OwnKey(x, audlog[x.topic][x.at])
      BY <2>4, <3>1, <3>2
    <3> QED BY <2>1, <3>3 DEF RowsHaveKeys, OwnKey, EventKey
  <2>6. KeysAreUnique'
    BY <1>2, <2>3, <2>4 DEF AudInv, KeysAreUnique
  <2>7. InTrail(c, i)'
    BY <2>3 DEF InTrail, EventKey
  <2> QED BY <2>1, <2>5, <2>6, <2>7
<1> QED BY <1>1, <1>2

\* What was in the trail stays there while the topics stay.
LEMMA StaysInTrail ==
    ASSUME trail \subseteq trail', UNCHANGED audlog, NEW d, NEW i, InTrail(d, i) PROVE InTrail(d, i)'
BY DEF InTrail, EventKey

LEMMA HandlesStep == ASSUME AudInv, NEW c \in AuditTopics, AudHandles(c) PROVE AudInv'
<1>0. PICK p \in Nat : p = audpos[c] + 1
    BY DEF AudInv, AudTypeOK
<1>1. /\ AudInsert(c, p) /\ UNCHANGED audlog /\ skipped' = skipped \ {<<c, p>>} /\ p \in 1..Len(audlog[c])
      /\ audpos' = [audpos EXCEPT ![c] = p] /\ audoff' \in {audoff, [audoff EXCEPT ![c] = p]}
    BY <1>0, LenProperties DEF AudHandles, AudInv, AudTypeOK
<1>2. RowsHaveKeys' /\ KeysAreUnique' /\ InTrail(c, p)' /\ trail \subseteq trail'
    BY <1>1, InsertKeeps
<1>3. AudTypeOK'
  <2>1. audpos' \in [AuditTopics -> Nat] /\ audoff' \in [AuditTopics -> Nat]
    BY <1>0, <1>1 DEF AudInv, AudTypeOK
  <2>2. \A d \in AuditTopics : audpos'[d] <= Len(audlog[d]) /\ audoff'[d] <= Len(audlog[d])
    BY <1>0, <1>1 DEF AudInv, AudTypeOK
  <2> QED BY <1>1, <2>1, <2>2 DEF AudInv, AudTypeOK, AudRecords
<1>4. \A d \in AuditTopics : \A i : InTrail(d, i) => InTrail(d, i)'
    BY <1>1, <1>2, StaysInTrail
<1>5. \A d \in AuditTopics : audpos[d] \in Nat /\ audoff[d] \in Nat
    BY DEF AudInv, AudTypeOK
<1>6. /\ audpos'[c] = p /\ (audoff'[c] = audoff[c] \/ audoff'[c] = p)
      /\ \A d \in AuditTopics : d # c => audpos'[d] = audpos[d] /\ audoff'[d] = audoff[d]
    BY <1>1 DEF AudInv, AudTypeOK
<1>7. \A i \in 1..p : i \in 1..audpos[c] \/ i = p
    BY <1>0, <1>5
<1>8. GivenIsStored'
  <2>1. \A d \in AuditTopics : \A i \in 1..audpos'[d] : i \in 1..audpos[d] \/ (d = c /\ i = p)
    BY <1>6, <1>7
  <2>2. \A d \in AuditTopics : \A i \in 1..audpos[d] : <<d, i>> \in skipped' \/ InTrail(d, i)'
    BY <1>1, <1>2, <1>4 DEF AudInv, GivenIsStored
  <2> QED BY <1>2, <2>1, <2>2 DEF GivenIsStored
<1>9. CommittedIsStored'
  <2>1. \A d \in AuditTopics : \A i \in 1..audoff'[d] : i \in 1..audoff[d] \/ i \in 1..audpos'[d]
    BY <1>6
  <2>2. \A d \in AuditTopics : \A i \in 1..audoff[d] : <<d, i>> \in skipped \/ InTrail(d, i)
    BY DEF AudInv, CommittedIsStored, InTrail
  <2>3. \A d \in AuditTopics : \A i \in 1..audoff'[d] : <<d, i>> \in skipped' \/ InTrail(d, i)'
    BY <1>1, <1>2, <1>4, <1>8, <2>1, <2>2 DEF GivenIsStored
  <2> QED BY <2>3 DEF CommittedIsStored, InTrail
<1> QED BY <1>2, <1>3, <1>8, <1>9 DEF AudInv

LEMMA InsertFailsStep == ASSUME AudInv, NEW c \in AuditTopics, AudInsertFails(c) PROVE AudInv'
<1> DEFINE p == audpos[c] + 1
<1>1. /\ UNCHANGED <<audlog, audoff, trail>> /\ audpos' = [audpos EXCEPT ![c] = p]
      /\ skipped' = skipped \cup {<<c, p>>} /\ p <= Len(audlog[c]) /\ p \in Nat /\ audpos[c] \in Nat
    BY LenProperties DEF AudInsertFails, AudInv, AudTypeOK
<1>2. AudTypeOK'
    BY <1>1 DEF AudInv, AudTypeOK, AudRecords
<1>3. RowsHaveKeys' /\ KeysAreUnique' /\ CommittedIsStored'
    BY <1>1 DEF AudInv, RowsHaveKeys, KeysAreUnique, CommittedIsStored
<1>4. \A d \in AuditTopics : \A i \in 1..audpos'[d] : i \in 1..audpos[d] \/ <<d, i>> \in skipped'
    BY <1>1 DEF AudInv, AudTypeOK
<1>5. GivenIsStored'
  <2>1. \A d \in AuditTopics : \A i : InTrail(d, i) => InTrail(d, i)'
    BY <1>1, StaysInTrail
  <2> QED BY <1>1, <1>4, <2>1 DEF AudInv, GivenIsStored
<1> QED BY <1>2, <1>3, <1>5 DEF AudInv

\* A restart goes back to the committed offset.
LEMMA AudRestartStep == ASSUME AudInv, NEW c \in AuditTopics, AudRestart(c) PROVE AudInv'
<1>1. UNCHANGED <<audlog, audoff, trail, skipped>> /\ audpos' = [audpos EXCEPT ![c] = audoff[c]]
    BY DEF AudRestart
<1>2. AudTypeOK'
    BY <1>1 DEF AudInv, AudTypeOK, AudRecords
<1>3. RowsHaveKeys' /\ KeysAreUnique' /\ CommittedIsStored'
    BY <1>1 DEF AudInv, RowsHaveKeys, KeysAreUnique, CommittedIsStored
<1>4. \A d \in AuditTopics : audpos'[d] = audpos[d] \/ audpos'[d] = audoff[d]
    BY <1>1 DEF AudInv, AudTypeOK
<1>5. GivenIsStored'
  <2>1. \A d \in AuditTopics : \A i : InTrail(d, i) => InTrail(d, i)'
    BY <1>1, StaysInTrail
  <2>2. \A d \in AuditTopics : \A i \in 1..audoff[d] : <<d, i>> \in skipped \/ InTrail(d, i)
    BY DEF AudInv, CommittedIsStored, InTrail
  <2> QED BY <1>1, <1>4, <2>1, <2>2 DEF AudInv, GivenIsStored
<1> QED BY <1>2, <1>3, <1>5 DEF AudInv

LEMMA AudStep == AudInv /\ [AudNext]_audVars => AudInv'
<1> SUFFICES ASSUME AudInv, [AudNext]_audVars PROVE AudInv'
    OBVIOUS
<1>1. CASE UNCHANGED audVars
  <2>1. AudTypeOK' /\ RowsHaveKeys'
    BY <1>1 DEF audVars, AudInv, AudTypeOK, AudRecords, RowsHaveKeys
  <2>2. KeysAreUnique' /\ GivenIsStored' /\ CommittedIsStored'
    BY <1>1 DEF audVars, AudInv, KeysAreUnique, GivenIsStored, CommittedIsStored, InTrail
  <2> QED BY <2>1, <2>2 DEF AudInv
<1> QED BY <1>1, ProduceStep, HandlesStep, InsertFailsStep, AudRestartStep DEF AudNext

LEMMA OneRow == AudInv => OneRowPerEvent
<1> SUFFICES ASSUME AudInv, NEW x \in trail, NEW y \in trail, x.topic = y.topic,
                    EventKey(x.topic, audlog[x.topic][x.at]) = EventKey(y.topic, audlog[y.topic][y.at]),
                    ~(x.topic = "audit" /\ audlog["audit"][x.at].id = NoUuid)
             PROVE  x = y
    BY DEF OneRowPerEvent
<1>1. OwnKey(x, audlog[x.topic][x.at]) /\ OwnKey(y, audlog[y.topic][y.at])
    BY DEF AudInv, RowsHaveKeys
<1>2. x.topic = "audit" => audlog[x.topic][x.at].id = audlog[y.topic][y.at].id
    BY DEF EventKey
<1>3. x.key = y.key
    BY <1>1, <1>2 DEF OwnKey
<1> QED BY <1>3 DEF AudInv, KeysAreUnique

----------------------------------------------------------------------------
(* The admin API.  A user is there by a bootstrap call exactly from the time  *)
(* its insert succeeded, and its row, if any, was written after that.         *)

AdminSteps == {"new", "admitted", "counted", "audit", "answered"}
AdminTypeOK ==
    /\ adminCalls \in [Calls -> [step : AdminSteps, op : Ops \cup {"none"}, email : Emails \cup {"none"},
                                 outcome : {"none", "unauthorized", "denied", "invalid", "error", "ok"}]]
    /\ lost \in Nat
StepsInOrder ==
    \A c \in Calls : /\ adminCalls[c].step \in {"admitted", "counted"} => adminCalls[c].outcome = "none"
                     /\ adminCalls[c].step = "new" => adminCalls[c].op = "none" /\ adminCalls[c].outcome = "none"
                     /\ adminCalls[c].step = "counted" => adminCalls[c].op = "bootstrap"
Bootstrapped ==
    \A c \in Calls : (\E u \in users : u.by = c) <=> (adminCalls[c].op = "bootstrap" /\ adminCalls[c].outcome = "ok")
RowsAreTrue ==
    \A r \in auditLog : /\ r.call \in Calls /\ adminCalls[r.call].step = "answered"
                        /\ r.op = adminCalls[r.call].op /\ r.outcome = adminCalls[r.call].outcome
OkHasRow ==
    lost = 0 => \A c \in Calls : adminCalls[c].step = "answered" /\ adminCalls[c].outcome = "ok"
                                 => \E r \in auditLog : r.call = c /\ r.outcome = "ok"
AdminInv == AdminTypeOK /\ StepsInOrder /\ Bootstrapped /\ RowsAreTrue /\ OkHasRow

LEMMA AdminInitially == AdminInit => AdminInv
BY DEF AdminInit, AdminInv, StepsInOrder, Bootstrapped, RowsAreTrue, OkHasRow, AdminTypeOK, AdminSteps

LEMMA AdminStep == AdminInv /\ [AdminNext]_admVars => AdminInv'
<1> SUFFICES ASSUME AdminInv, [AdminNext]_admVars PROVE AdminInv'
    OBVIOUS
<1> USE AdminAccessAssumption DEF Move
<1>1. ASSUME NEW c \in Calls, BadToken(c) \/ MissingActor(c) \/ BadInput(c) PROVE AdminInv'
    BY <1>1 DEF BadToken, MissingActor, BadInput, AdminInv, StepsInOrder, Bootstrapped, RowsAreTrue, OkHasRow, AdminTypeOK, AdminSteps
<1>2. ASSUME NEW c \in Calls, NEW op \in Ops, NEW e \in Emails, AdmitAdmin(c, op, e) PROVE AdminInv'
    BY <1>2 DEF AdmitAdmin, AdminInv, StepsInOrder, Bootstrapped, RowsAreTrue, OkHasRow, AdminTypeOK, AdminSteps
<1>3. ASSUME NEW c \in Calls, CountUsers(c) \/ CheckMember(c) PROVE AdminInv'
    BY <1>3 DEF CountUsers, CheckMember, AdminInv, StepsInOrder, Bootstrapped, RowsAreTrue, OkHasRow, AdminTypeOK, AdminSteps, Ops
<1>4. ASSUME NEW c \in Calls, InsertAdmin(c) PROVE AdminInv'
    BY <1>4 DEF InsertAdmin, TakenEmail, AdminInv, StepsInOrder, Bootstrapped, RowsAreTrue, OkHasRow, AdminTypeOK, AdminSteps
<1>5. ASSUME NEW c \in Calls, WriteAuditRow(c) PROVE AdminInv'
  <2> DEFINE k == adminCalls[c]
             m == [k EXCEPT !.step = "answered"]
             row0 == [call |-> c, op |-> k.op, outcome |-> k.outcome]
             S == [step : AdminSteps, op : Ops \cup {"none"}, email : Emails \cup {"none"},
                   outcome : {"none", "unauthorized", "denied", "invalid", "error", "ok"}]
  <2>0. adminCalls \in [Calls -> S] /\ k \in S /\ m \in S
    BY DEF AdminInv, StepsInOrder, Bootstrapped, RowsAreTrue, OkHasRow, AdminTypeOK, AdminSteps
  <2>1. /\ adminCalls' = [adminCalls EXCEPT ![c].step = "answered", ![c].outcome = k.outcome]
        /\ users' = users /\ k.step = "audit"
        /\ \/ auditLog' = auditLog \cup {row0} /\ lost' = lost
           \/ auditLog' = auditLog /\ lost' = lost + 1
    BY <1>5 DEF WriteAuditRow
  <2>2. adminCalls' = [adminCalls EXCEPT ![c] = m]
    <3>1. m = [[k EXCEPT !.step = "answered"] EXCEPT !.outcome = k.outcome]
      BY <2>0
    <3> QED BY <2>0, <2>1, <3>1
  <2>3. m.step = "answered" /\ m.op = k.op /\ m.outcome = k.outcome
    BY <2>0
  <2>8. row0.call = c /\ row0.outcome = k.outcome /\ row0.op = k.op
    OBVIOUS
  <2> HIDE DEF row0, m, S
  <2>9. adminCalls'[c] = m /\ \A d \in Calls : d # c => adminCalls'[d] = adminCalls[d]
    BY <2>0, <2>2
  <2>10. lost \in Nat /\ lost' \in Nat
    BY <2>1 DEF AdminInv, AdminTypeOK
  <2>4. AdminTypeOK'
    <3>1. adminCalls' \in [Calls -> S]
      BY <2>0, <2>2
    <3> QED BY <2>10, <3>1 DEF AdminTypeOK, S
  <2>5. RowsAreTrue'
    <3>1. \A r \in auditLog : r.call # c
      BY <2>1 DEF AdminInv, RowsAreTrue
    <3>2. \A r \in auditLog' : r \in auditLog \/ r = row0
      BY <2>1
    <3> QED BY <2>3, <2>8, <2>9, <3>1, <3>2 DEF AdminInv, RowsAreTrue
  <2>6. OkHasRow'
    <3>1. auditLog \subseteq auditLog' /\ (lost' = 0 => lost = 0 /\ row0 \in auditLog')
      BY <2>1, <2>10
    <3> QED BY <2>3, <2>8, <2>9, <3>1 DEF AdminInv, OkHasRow
  <2>7. StepsInOrder' /\ Bootstrapped'
    <3>1. users' = users /\ \A d \in Calls : /\ adminCalls'[d].op = adminCalls[d].op
                                             /\ adminCalls'[d].outcome = adminCalls[d].outcome
                                             /\ adminCalls'[d].step = adminCalls[d].step \/ adminCalls'[d].step = "answered"
      BY <2>1, <2>3, <2>9
    <3> QED BY <3>1 DEF AdminInv, StepsInOrder, Bootstrapped
  <2> QED BY <2>4, <2>5, <2>6, <2>7 DEF AdminInv
<1>6. ASSUME NEW e \in Emails, Signup(e) PROVE AdminInv'
    BY <1>6 DEF Signup, AdminInv, StepsInOrder, Bootstrapped, RowsAreTrue, OkHasRow, AdminTypeOK
<1>7. CASE LeaveTenant \/ UNCHANGED admVars
    BY <1>7 DEF LeaveTenant, admVars, AdminInv, StepsInOrder, Bootstrapped, RowsAreTrue, OkHasRow, AdminTypeOK
<1> QED BY <1>1, <1>2, <1>3, <1>4, <1>5, <1>6, <1>7 DEF AdminNext

\* For any events, failures and restarts the trail has one row for each event and
\* every committed one that could be stored, and for any admin calls the admins'
\* log says of each what it did, of every one that did something if no row was lost.
THEOREM AuditIsTruthful == AudSpec /\ AdminSpec => []AuditIsTrue
<1>1. AudInv /\ AdminInv => AuditIsTrue
    BY OneRow DEF AudInv, AdminInv, Bootstrapped, RowsAreTrue, OkHasRow, AuditIsTrue, AuditTellsTruth
<1> QED BY <1>1, AudInitially, AudStep, AdminInitially, AdminStep, PTL DEF AudSpec, AdminSpec

----------------------------------------------------------------------------
(* The Kafka client.  Every record the consumer has gone past is handled,     *)
(* copied or dropped, but for the one the caller has and has not settled; the *)
(* offset is committed no further than that.  A copy on the retry topic is due*)
(* a wait after the attempt before it was handed out.                         *)

KafkaRecords == [event : Events \cup {"foreign"}, version : {"v1", "-"}, attempt : 0..2,
                 trace : {"valid", "malformed", "none"}, due : Nat]
KafkaTypeOK ==
    /\ log \in [Topics -> Seq(KafkaRecords)]
    /\ committed \in [Consumed -> Nat \ {0}] /\ position \in [Consumed -> Nat \ {0}]
    /\ \A t \in Consumed : committed[t] <= Len(log[t]) + 1 /\ position[t] <= Len(log[t]) + 1
    /\ held \in [topic : Consumed \cup {"-"}, offset : Nat, settled : BOOLEAN]
    /\ handed \subseteq [event : Events \cup {"foreign"}, attempt : 0..2, at : Nat]
    /\ clock \in Nat \ {0}

Copied(topic, event, attempt) == \E c \in ToSet(log[topic]) : c.event = event /\ c.attempt = attempt
Kept(t, o) ==
    \/ At(t, o) \in done \cup discarded
    \/ Copied("retry", log[t][o].event, log[t][o].attempt + 1)
    \/ Copied("dlq", log[t][o].event, log[t][o].attempt)
\* The caller has the record before the position, and it was handed out to it.
HeldIsLast ==
    held # NothingHeld =>
        /\ held.topic \in Consumed /\ held.offset \in 1..Len(log[held.topic]) /\ position[held.topic] = held.offset + 1
        /\ held.settled => Kept(held.topic, held.offset)
        /\ \E g \in handed : g.event = HeldRecord.event /\ g.attempt = HeldRecord.attempt /\ g.at <= clock
GoneByIsKept ==
    \A t \in Consumed : \A o \in 1..(position[t] - 1) :
        Kept(t, o) \/ (held.topic = t /\ held.offset = o /\ ~held.settled)
\* What the record r on a topic owes to the records before it.
Waited(r) == \E g \in handed : g.event = r.event /\ g.attempt + 1 = r.attempt /\ g.at + BACKOFF_SCHEDULE[r.attempt] <= r.due
RetryOf(r) == \E t \in Consumed : \E o \in ToSet(log[t]) : o.event = r.event /\ o.attempt + 1 = r.attempt
DeadLetterOf(r) ==
    \E t \in Consumed : \E o \in ToSet(log[t]) :
        o.event = r.event /\ o.attempt = r.attempt /\ o.version = r.version /\ r.trace \in {o.trace, "none"}
RecordOk(topic, r) ==
    CASE topic = "main"  -> r.attempt = 0
      [] topic = "retry" -> r.attempt \in {1, 2} /\ r.due # NONE /\ Waited(r) /\ RetryOf(r)
      [] OTHER           -> DeadLetterOf(r)
RecordsOk == \A t \in Topics : \A r \in ToSet(log[t]) : RecordOk(t, r)

KafkaInv == KafkaTypeOK /\ HeldIsLast /\ GoneByIsKept /\ RecordsOk /\ NoneVanish /\ RetriesBackOff

LEMMA ScheduleIsNat == \A a \in 1..3 : BACKOFF_SCHEDULE[a] \in Nat
BY DEF BACKOFF_SCHEDULE

LEMMA ToSetOfSeq == ASSUME NEW S, NEW s \in Seq(S), NEW i \in 1..Len(s) PROVE s[i] \in ToSet(s) /\ s[i] \in S
BY ElementOfSeq, LenProperties DEF ToSet

LEMMA KafkaInitially == KafkaInit => KafkaInv
<1> SUFFICES ASSUME KafkaInit PROVE KafkaInv
    OBVIOUS
<1>1. KafkaTypeOK
    BY EmptySeq DEF KafkaInit, KafkaTypeOK, NothingHeld, Consumed, Topics
<1>2. \A t \in Topics : ToSet(log[t]) = {}
    BY EmptySeq DEF KafkaInit, ToSet
<1> QED BY <1>1, <1>2 DEF KafkaInit, KafkaInv, HeldIsLast, GoneByIsKept, RecordsOk, NoneVanish, RetriesBackOff

\* A record that is appended leaves the others where they are.
Grown(topic, r) ==
    /\ log' \in [Topics -> Seq(KafkaRecords)]
    /\ \A t \in Topics : /\ Len(log[t]) \in Nat /\ Len(log'[t]) \in Nat /\ Len(log[t]) <= Len(log'[t])
                         /\ \A i \in 1..Len(log[t]) : log'[t][i] = log[t][i]
                         /\ ToSet(log[t]) \subseteq ToSet(log'[t])
                         /\ \A x \in ToSet(log'[t]) : x \in ToSet(log[t]) \/ (t = topic /\ x = r)
    /\ r \in ToSet(log'[topic])
LEMMA AppendGrows ==
    ASSUME KafkaTypeOK, NEW topic \in Topics, NEW r \in KafkaRecords, Append1(topic, r)
    PROVE  Grown(topic, r)
<1>1. /\ log' = [log EXCEPT ![topic] = Append(log[topic], r)] /\ log[topic] \in Seq(KafkaRecords)
      /\ log \in [Topics -> Seq(KafkaRecords)]
    BY DEF Append1, KafkaTypeOK
<1>2. log'[topic] = Append(log[topic], r) /\ \A t \in Topics : t # topic => log'[t] = log[t]
    BY <1>1
<1>3. /\ Append(log[topic], r) \in Seq(KafkaRecords) /\ Len(log[topic]) \in Nat
      /\ Len(Append(log[topic], r)) = Len(log[topic]) + 1
      /\ \A i \in 1..Len(log[topic]) : Append(log[topic], r)[i] = log[topic][i]
      /\ Append(log[topic], r)[Len(log[topic]) + 1] = r
    BY <1>1, AppendProperties, LenProperties
<1>4. ToSet(log'[topic]) = ToSet(log[topic]) \cup {r}
  <2>1. /\ ToSet(log[topic]) = {log[topic][i] : i \in 1..Len(log[topic])}
        /\ ToSet(log'[topic]) = {log'[topic][i] : i \in 1..(Len(log[topic]) + 1)}
    BY <1>1, <1>2, <1>3, LenProperties DEF ToSet
  <2> QED BY <1>2, <1>3, <2>1
<1>5. \A t \in Topics : Len(log[t]) \in Nat
    BY <1>1, LenProperties
<1> QED BY <1>1, <1>2, <1>3, <1>4, <1>5 DEF Grown

\* What the records on the topics owe is owed while topics and hand-outs grow.
LEMMA RecordsStayOk ==
    ASSUME KafkaTypeOK, RecordsOk, NEW topic \in Topics, NEW r \in KafkaRecords, Append1(topic, r), handed' = handed,
           RecordOk(topic, r)
    PROVE  RecordsOk'
<1>1. Grown(topic, r)
    BY AppendGrows
<1>2. Consumed \subseteq Topics
    BY DEF Consumed, Topics
<1>3. ASSUME NEW t \in Topics, NEW x, RecordOk(t, x) PROVE RecordOk(t, x)'
  <2>1. RetryOf(x) => RetryOf(x)'
    BY <1>1, <1>2 DEF RetryOf, Grown
  <2>2. DeadLetterOf(x) => DeadLetterOf(x)'
    BY <1>1, <1>2 DEF DeadLetterOf, Grown
  <2>3. Waited(x) => Waited(x)'
    BY DEF Waited
  <2>4. CASE t = "main"
    BY <1>3, <2>4 DEF RecordOk
  <2>5. CASE t = "retry"
    BY <1>3, <2>1, <2>3, <2>5 DEF RecordOk
  <2>6. CASE t \notin {"main", "retry"}
    BY <1>3, <2>2, <2>6 DEF RecordOk
  <2> QED BY <2>4, <2>5, <2>6
<1>4. \A t \in Topics : \A x \in ToSet(log'[t]) : RecordOk(t, x)
    BY <1>1 DEF RecordsOk, Grown
<1> QED BY <1>3, <1>4 DEF RecordsOk

\* A record that is kept stays so.
LEMMA KeptStays ==
    ASSUME KafkaTypeOK, NEW topic, NEW r, Grown(topic, r) \/ UNCHANGED log,
           done \subseteq done', discarded \subseteq discarded',
           NEW t \in Consumed, NEW o \in 1..Len(log[t]), Kept(t, o)
    PROVE  Kept(t, o)'
<1>1. t \in Topics /\ "retry" \in Topics /\ "dlq" \in Topics
    BY DEF Consumed, Topics
<1>2. log'[t][o] = log[t][o]
    BY <1>1 DEF Grown
<1>3. ToSet(log["retry"]) \subseteq ToSet(log'["retry"]) /\ ToSet(log["dlq"]) \subseteq ToSet(log'["dlq"])
    BY <1>1 DEF Grown
<1> QED BY <1>2, <1>3 DEF Kept, Copied, At

\* All that was kept below the positions stays kept, in a step after which the
\* topics are as long at least and nothing is undone.
LEMMA AllKeptStays ==
    ASSUME KafkaTypeOK, NEW topic, NEW r, Grown(topic, r) \/ UNCHANGED log,
           done \subseteq done', discarded \subseteq discarded'
    PROVE  /\ \A t \in Consumed : \A o \in 1..(position[t] - 1) : Kept(t, o) => Kept(t, o)'
           /\ NoneVanish => \A t \in Consumed : \A o \in 1..(committed[t] - 1) : Kept(t, o)'
<1>1. Consumed \subseteq Topics
    BY DEF Consumed, Topics
<1>2. \A t \in Consumed : /\ Len(log[t]) \in Nat
                          /\ \A o \in 1..(position[t] - 1) : o \in 1..Len(log[t])
                          /\ \A o \in 1..(committed[t] - 1) : o \in 1..Len(log[t])
  <2>1. \A t \in Consumed : Len(log[t]) \in Nat /\ position[t] \in Nat /\ committed[t] \in Nat
    BY <1>1, LenProperties DEF KafkaTypeOK
  <2> QED BY <2>1 DEF KafkaTypeOK
<1>3. \A t \in Consumed : \A o \in 1..Len(log[t]) : Kept(t, o) => Kept(t, o)'
    BY KeptStays
<1>4. NoneVanish => \A t \in Consumed : \A o \in 1..(committed[t] - 1) : Kept(t, o)
    BY DEF NoneVanish, Kept, Copied
<1> QED BY <1>2, <1>3, <1>4

\* The types after a record was appended to a topic.
LEMMA GrownTypes ==
    ASSUME KafkaTypeOK, NEW topic, NEW r, Grown(topic, r), UNCHANGED <<committed, position, handed, clock>>,
           held' \in [topic : Consumed \cup {"-"}, offset : Nat, settled : BOOLEAN]
    PROVE  KafkaTypeOK'
<1>1. \A t \in Consumed : t \in Topics
    BY DEF Consumed, Topics
<1>2. \A t \in Consumed : committed[t] <= Len(log'[t]) + 1 /\ position[t] <= Len(log'[t]) + 1
  <2> SUFFICES ASSUME NEW t \in Consumed PROVE committed[t] <= Len(log'[t]) + 1 /\ position[t] <= Len(log'[t]) + 1
      OBVIOUS
  <2>1. Len(log[t]) \in Nat /\ Len(log'[t]) \in Nat /\ Len(log[t]) <= Len(log'[t])
    BY <1>1 DEF Grown
  <2>2. /\ committed[t] \in Nat /\ committed[t] <= Len(log[t]) + 1
        /\ position[t] \in Nat /\ position[t] <= Len(log[t]) + 1
    BY DEF KafkaTypeOK
  <2> QED BY <2>1, <2>2
<1> QED BY <1>2 DEF Grown, KafkaTypeOK

LEMMA KafkaProduceStep ==
    ASSUME KafkaInv, NEW e \in Events \cup {"foreign"}, NEW v \in {"v1", "-"}, NEW tr \in {"valid", "malformed", "none"},
           Append1("main", [event |-> e, version |-> v, attempt |-> 0, trace |-> tr, due |-> NONE]),
           UNCHANGED <<committed, position, held, done, discarded, handed, clock, crashes>>
    PROVE  KafkaInv'
<1> DEFINE r == [event |-> e, version |-> v, attempt |-> 0, trace |-> tr, due |-> NONE]
<1>1. r \in KafkaRecords /\ RecordOk("main", r) /\ "main" \in Topics /\ KafkaTypeOK
    BY DEF KafkaRecords, RecordOk, Topics, KafkaInv, NONE
<1> HIDE DEF r
<1>2. Grown("main", r)
    BY <1>1, AppendGrows DEF r
<1>3. RecordsOk'
    BY <1>1, RecordsStayOk DEF KafkaInv, r
<1>4. KafkaTypeOK'
    BY <1>1, <1>2, GrownTypes DEF KafkaTypeOK
<1>5. HeldIsLast'
  <2> SUFFICES ASSUME held # NothingHeld PROVE HeldIsLast'
      BY DEF HeldIsLast
  <2>1. /\ held.topic \in Consumed /\ held.topic \in Topics /\ held.offset \in 1..Len(log[held.topic])
        /\ position[held.topic] = held.offset + 1
        /\ held.settled => Kept(held.topic, held.offset)
        /\ \E g \in handed : g.event = HeldRecord.event /\ g.attempt = HeldRecord.attempt /\ g.at <= clock
    BY DEF KafkaInv, HeldIsLast, Consumed, Topics
  <2>2. HeldRecord' = HeldRecord /\ held.offset \in 1..Len(log'[held.topic])
    BY <1>2, <2>1 DEF Grown, HeldRecord
  <2>3. held.settled => Kept(held.topic, held.offset)'
    <3>1. ASSUME NEW t \in Consumed, NEW o \in 1..Len(log[t]), Kept(t, o) PROVE Kept(t, o)'
      BY <1>1, <1>2, <3>1, KeptStays
    <3> QED BY <2>1, <3>1 DEF Kept
  <2> QED BY <2>1, <2>2, <2>3 DEF HeldIsLast
<1>6. GoneByIsKept' /\ NoneVanish'
  <2>1. /\ \A t \in Consumed : \A o \in 1..(position[t] - 1) : Kept(t, o) => Kept(t, o)'
        /\ NoneVanish => \A t \in Consumed : \A o \in 1..(committed[t] - 1) : Kept(t, o)'
    BY <1>1, <1>2, AllKeptStays
  <2> QED BY <2>1 DEF KafkaInv, GoneByIsKept, NoneVanish, Kept, Copied
<1> QED BY <1>3, <1>4, <1>5, <1>6 DEF KafkaInv, RetriesBackOff

\* The caller settles its record with a copy of it.
LEMMA KafkaSettleStep ==
    ASSUME KafkaInv, held # NothingHeld, ~held.settled, NEW topic \in {"retry", "dlq"}, NEW r \in KafkaRecords,
           Append1(topic, r), RecordOk(topic, r), r.event = HeldRecord.event,
           r.attempt = IF topic = "retry" THEN HeldRecord.attempt + 1 ELSE HeldRecord.attempt,
           held' = [held EXCEPT !.settled = TRUE],
           UNCHANGED <<committed, position, done, discarded, handed, clock, crashes>>
    PROVE  KafkaInv'
<1>1. KafkaTypeOK /\ topic \in Topics
    BY DEF KafkaInv, Topics
<1>2. Grown(topic, r)
    BY <1>1, AppendGrows
<1>3. RecordsOk'
    BY <1>1, RecordsStayOk DEF KafkaInv
<1>4. /\ held'.topic = held.topic /\ held'.offset = held.offset /\ held'.settled = TRUE
      /\ held' \in [topic : Consumed \cup {"-"}, offset : Nat, settled : BOOLEAN]
    BY <1>1 DEF KafkaTypeOK
<1>5. KafkaTypeOK'
    BY <1>1, <1>2, <1>4, GrownTypes
<1>6. /\ held.topic \in Consumed /\ held.topic \in Topics /\ held.offset \in 1..Len(log[held.topic])
      /\ position[held.topic] = held.offset + 1
      /\ \E g \in handed : g.event = HeldRecord.event /\ g.attempt = HeldRecord.attempt /\ g.at <= clock
    BY DEF KafkaInv, HeldIsLast, Consumed, Topics
<1>7. HeldRecord' = HeldRecord /\ held.offset \in 1..Len(log'[held.topic])
    BY <1>2, <1>4, <1>6 DEF Grown, HeldRecord
<1>8. Kept(held.topic, held.offset)'
  <2>1. log'[held.topic][held.offset] = HeldRecord
    BY <1>4, <1>7 DEF HeldRecord
  <2>2. topic = "retry" => Copied("retry", HeldRecord.event, HeldRecord.attempt + 1)'
    BY <1>2, <1>7 DEF Grown, Copied
  <2>3. topic = "dlq" => Copied("dlq", HeldRecord.event, HeldRecord.attempt)'
    BY <1>2, <1>7 DEF Grown, Copied
  <2> QED BY <1>4, <2>1, <2>2, <2>3 DEF Kept, HeldRecord
<1>9. HeldIsLast'
    BY <1>4, <1>6, <1>7, <1>8 DEF HeldIsLast
<1>10. GoneByIsKept' /\ NoneVanish'
  <2>1. /\ \A t \in Consumed : \A o \in 1..(position[t] - 1) : Kept(t, o) => Kept(t, o)'
        /\ NoneVanish => \A t \in Consumed : \A o \in 1..(committed[t] - 1) : Kept(t, o)'
    BY <1>1, <1>2, AllKeptStays
  <2>2. NoneVanish'
    BY <2>1 DEF KafkaInv, NoneVanish, Kept, Copied
  <2>3. \A t \in Consumed : \A o \in 1..(position[t] - 1) : Kept(t, o)'
    BY <1>4, <1>8, <2>1 DEF KafkaInv, GoneByIsKept
  <2> QED BY <2>2, <2>3 DEF GoneByIsKept
<1> QED BY <1>3, <1>5, <1>9, <1>10 DEF KafkaInv, RetriesBackOff

\* The consumer goes past the record at its position: it has buried or dropped it,
\* which is true of all before it, so it may commit that far.
LEMMA KafkaPastStep ==
    ASSUME KafkaInv, NEW t \in Consumed, NEW p \in Nat \ {0}, p = position[t], held = NothingHeld, p <= Len(log[t]),
           position' = [position EXCEPT ![t] = position[t] + 1],
           committed' \in {committed, [committed EXCEPT ![t] = position[t] + 1]},
           UNCHANGED <<held, done, handed, clock, crashes>>,
           discarded \subseteq discarded',
           NEW topic \in Topics, NEW r \in KafkaRecords, (Append1(topic, r) /\ RecordOk(topic, r)) \/ UNCHANGED log,
           Kept(t, p)'
    PROVE  KafkaInv'
<1>1. KafkaTypeOK /\ t \in Topics /\ Consumed \subseteq Topics
    BY DEF KafkaInv, Consumed, Topics
<1>2. Grown(topic, r) \/ UNCHANGED log
    BY <1>1, AppendGrows
<1>3. \A u \in Topics : Len(log[u]) \in Nat /\ Len(log'[u]) \in Nat /\ Len(log[u]) <= Len(log'[u])
    BY <1>1, <1>2, LenProperties DEF Grown, KafkaTypeOK
<1>4. log' \in [Topics -> Seq(KafkaRecords)]
    BY <1>1, <1>2 DEF Grown, KafkaTypeOK
<1>5. /\ position'[t] = p + 1 /\ \A u \in Consumed : u # t => position'[u] = position[u]
      /\ committed'[t] \in {committed[t], p + 1} /\ \A u \in Consumed : u # t => committed'[u] = committed[u]
      /\ position' \in [Consumed -> Nat \ {0}] /\ committed' \in [Consumed -> Nat \ {0}]
    BY <1>1 DEF KafkaTypeOK
<1>6. KafkaTypeOK'
  <2>1. \A u \in Consumed : committed'[u] <= Len(log'[u]) + 1 /\ position'[u] <= Len(log'[u]) + 1
    <3> SUFFICES ASSUME NEW u \in Consumed PROVE committed'[u] <= Len(log'[u]) + 1 /\ position'[u] <= Len(log'[u]) + 1
        OBVIOUS
    <3>1. /\ committed[u] \in Nat /\ committed[u] <= Len(log[u]) + 1
          /\ position[u] \in Nat /\ position[u] <= Len(log[u]) + 1
      BY <1>1 DEF KafkaTypeOK
    <3>2. Len(log[u]) \in Nat /\ Len(log'[u]) \in Nat /\ Len(log[u]) <= Len(log'[u])
      BY <1>1, <1>3
    <3> QED BY <1>5, <3>1, <3>2
  <2> QED BY <1>1, <1>4, <1>5, <2>1 DEF KafkaTypeOK
<1>7. RecordsOk'
  <2>1. CASE UNCHANGED log
    BY <2>1 DEF KafkaInv, RecordsOk, RecordOk, Waited, RetryOf, DeadLetterOf
  <2> QED BY <1>1, <2>1, RecordsStayOk DEF KafkaInv
<1>8. /\ \A u \in Consumed : \A o \in 1..(position[u] - 1) : Kept(u, o) => Kept(u, o)'
      /\ NoneVanish => \A u \in Consumed : \A o \in 1..(committed[u] - 1) : Kept(u, o)'
    BY <1>1, <1>2, AllKeptStays
<1>9. \A u \in Consumed : \A o \in 1..(position[u] - 1) : Kept(u, o)'
    BY <1>8 DEF KafkaInv, GoneByIsKept, NothingHeld, Consumed
<1>11. \A o \in 1..p : o \in 1..(position[t] - 1) \/ o = p
    OBVIOUS
<1>12. \A u \in Consumed : \A o \in 1..(position'[u] - 1) : Kept(u, o)'
    BY <1>5, <1>9, <1>11
<1>13. \A u \in Consumed : \A o \in 1..(committed'[u] - 1) : Kept(u, o)'
    BY <1>5, <1>8, <1>9, <1>11 DEF KafkaInv
<1>14. GoneByIsKept' /\ NoneVanish' /\ HeldIsLast'
    BY <1>12, <1>13 DEF GoneByIsKept, NoneVanish, Kept, Copied, HeldIsLast
<1> QED BY <1>6, <1>7, <1>14 DEF KafkaInv, RetriesBackOff

LEMMA KafkaNextStep ==
    ASSUME KafkaInv, NEW t \in Consumed, NextError(t) \/ NextBadTrace(t) \/ NextOk(t)
    PROVE  KafkaInv'
<1>0. PICK p \in Nat \ {0} : p = position[t] /\ p \in 1..Len(log[t])
  <2>1. t \in Topics
    BY DEF Consumed, Topics
  <2> QED BY <2>1, LenProperties DEF KafkaInv, KafkaTypeOK, NextError, NextBadTrace, NextOk
<1>1. KafkaTypeOK /\ t \in Topics /\ held = NothingHeld /\ p <= Len(log[t])
    BY <1>0 DEF KafkaInv, Consumed, Topics, NextError, NextBadTrace, NextOk
<1> DEFINE r == log[t][p]
<1>2. r \in KafkaRecords /\ r \in ToSet(log[t])
    BY <1>0, <1>1, ToSetOfSeq DEF KafkaTypeOK
<1>3. CASE NextError(t)
  <2>1. /\ discarded' = discarded \cup {At(t, p)} /\ UNCHANGED <<log, held, done, handed, clock, crashes>>
        /\ position' = [position EXCEPT ![t] = position[t] + 1]
        /\ committed' \in {committed, [committed EXCEPT ![t] = position[t] + 1]}
    BY <1>0, <1>3 DEF NextError, Advance
  <2>2. Kept(t, p)'
    BY <2>1 DEF Kept
  <2> QED BY <1>0, <1>1, <1>2, <2>1, <2>2, KafkaPastStep
<1>4. CASE NextBadTrace(t)
  <2> DEFINE d == DlqRecord(r, "none")
  <2>1. /\ UNCHANGED <<held, done, handed, clock, crashes>>
        /\ position' = [position EXCEPT ![t] = position[t] + 1]
        /\ committed' = [committed EXCEPT ![t] = position[t] + 1]
        /\ \/ Append1("dlq", d) /\ discarded' = discarded
           \/ log' = log /\ discarded' = discarded \cup {At(t, p)}
    BY <1>0, <1>4 DEF NextBadTrace, Advance
  <2>2. d \in KafkaRecords /\ "dlq" \in Topics /\ RecordOk("dlq", d) /\ d.event = r.event /\ d.attempt = r.attempt
    <3>1. /\ d \in KafkaRecords /\ d.event = r.event /\ d.attempt = r.attempt /\ d.version = r.version /\ d.trace = "none"
      BY <1>2 DEF DlqRecord, KafkaRecords, NONE
    <3>2. DeadLetterOf(d)
      BY <1>2, <3>1 DEF DeadLetterOf
    <3> QED BY <3>1, <3>2 DEF RecordOk, Topics
  <2> HIDE DEF d
  <2>3. Kept(t, p)'
    <3>1. CASE Append1("dlq", d) /\ discarded' = discarded
      <4>1. Grown("dlq", d)
        BY <1>1, <2>2, <3>1, AppendGrows
      <4>2. log'[t][p] = r /\ d \in ToSet(log'["dlq"])
        BY <1>0, <1>1, <4>1 DEF Grown
      <4> QED BY <2>2, <4>2 DEF Kept, Copied
    <3>2. CASE discarded' = discarded \cup {At(t, p)}
      BY <3>2 DEF Kept
    <3> QED BY <2>1, <3>1, <3>2
  <2> QED BY <1>0, <1>1, <2>1, <2>2, <2>3, KafkaPastStep
<1>5. CASE NextOk(t)
  <2> DEFINE h == [event |-> r.event, attempt |-> r.attempt, at |-> clock]
  <2>1. /\ UNCHANGED <<log, committed, done, discarded, clock, crashes>>
        /\ position' = [position EXCEPT ![t] = p + 1]
        /\ held' = [topic |-> t, offset |-> p, settled |-> FALSE]
        /\ handed' = handed \cup {h}
        /\ r.due = NONE \/ clock >= r.due
    BY <1>0, <1>2, <1>5 DEF NextOk, Advance, Decode, KafkaRecords, KafkaInv, KafkaTypeOK, NONE
  <2>2. h \in [event : Events \cup {"foreign"}, attempt : 0..2, at : Nat] /\ h.event = r.event /\ h.attempt = r.attempt
        /\ h.at = clock
    BY <1>1, <1>2 DEF KafkaRecords, KafkaTypeOK
  <2> HIDE DEF r, h
  <2>3. KafkaTypeOK'
    <3>1. \A u \in Consumed : position'[u] <= Len(log[u]) + 1
      BY <1>0, <1>1, <2>1 DEF KafkaTypeOK
    <3>2. position' \in [Consumed -> Nat \ {0}]
      BY <1>0, <1>1, <2>1 DEF KafkaTypeOK
    <3> QED BY <1>0, <1>1, <2>1, <2>2, <3>1, <3>2 DEF KafkaTypeOK
  <2>4. RecordsOk'
    <3>1. \A x : Waited(x) => Waited(x)'
      BY <2>1 DEF Waited
    <3> QED BY <2>1, <3>1 DEF KafkaInv, RecordsOk, RecordOk, RetryOf, DeadLetterOf
  <2>5. \A u \in Consumed : \A o : Kept(u, o) => Kept(u, o)'
    BY <2>1 DEF Kept, Copied
  <2>6. HeldIsLast'
    <3>1. held'.topic = t /\ held'.offset = p /\ held'.settled = FALSE /\ HeldRecord' = r
      BY <2>1 DEF HeldRecord, r
    <3>2. position'[t] = p + 1
      BY <1>1, <2>1 DEF KafkaTypeOK
    <3>3. h \in handed' /\ h.at <= clock'
      BY <1>1, <2>1, <2>2 DEF KafkaTypeOK
    <3>4. held'.offset \in 1..Len(log'[held'.topic])
      BY <1>0, <2>1, <3>1
    <3> QED BY <2>2, <3>1, <3>2, <3>3, <3>4 DEF HeldIsLast
  <2>7. GoneByIsKept'
    <3>1. \A u \in Consumed : \A o \in 1..(position[u] - 1) : Kept(u, o)'
      BY <1>1, <2>5 DEF KafkaInv, GoneByIsKept, NothingHeld, Consumed
    <3>2. /\ \A u \in Consumed : u # t => position'[u] = position[u]
          /\ position'[t] = p + 1 /\ \A o \in 1..p : o \in 1..(position[t] - 1) \/ o = p
      BY <1>0, <1>1, <2>1 DEF KafkaTypeOK
    <3> QED BY <2>1, <3>1, <3>2 DEF GoneByIsKept
  <2>8. NoneVanish'
    BY <2>1 DEF KafkaInv, NoneVanish
  <2>9. RetriesBackOff'
    <3>1. ASSUME h.attempt > 0
          PROVE  \E g \in handed : g.event = h.event /\ g.attempt + 1 = h.attempt /\ g.at + BACKOFF_SCHEDULE[h.attempt] <= h.at
      <4>1. t = "retry"
        BY <1>1, <1>2, <2>2, <3>1 DEF KafkaInv, RecordsOk, RecordOk, Consumed
      <4>2. Waited(r) /\ r.due # NONE /\ r.attempt \in {1, 2}
        BY <1>1, <1>2, <4>1 DEF KafkaInv, RecordsOk, RecordOk
      <4>3. PICK g \in handed : /\ g.event = r.event /\ g.attempt + 1 = r.attempt
                                /\ g.at + BACKOFF_SCHEDULE[r.attempt] <= r.due
        BY <4>2 DEF Waited
      <4>4. r.due <= clock /\ r.due \in Nat /\ clock \in Nat /\ g.at \in Nat /\ BACKOFF_SCHEDULE[r.attempt] \in Nat
        <5>1. g.at \in Nat /\ clock \in Nat
          BY <1>1, <4>3 DEF KafkaTypeOK
        <5>2. r.due \in Nat /\ r.due <= clock
          BY <1>2, <2>1, <4>2, <5>1 DEF KafkaRecords
        <5> QED BY <4>2, <5>1, <5>2, ScheduleIsNat
      <4> QED BY <2>2, <4>3, <4>4
    <3> QED BY <2>1, <3>1 DEF KafkaInv, RetriesBackOff
  <2> QED BY <2>3, <2>4, <2>6, <2>7, <2>8, <2>9 DEF KafkaInv
<1> QED BY <1>3, <1>4, <1>5

\* The caller copies, handles or commits its record.
LEMMA KafkaCallerStep == ASSUME KafkaInv, PublishRetry \/ NackToDlq \/ Handle \/ Commit PROVE KafkaInv'
<1>1. KafkaTypeOK /\ held # NothingHeld
    BY DEF KafkaInv, PublishRetry, NackToDlq, Handle, Commit
<1>2. /\ held.topic \in Consumed /\ held.topic \in Topics /\ held.offset \in 1..Len(log[held.topic])
      /\ position[held.topic] = held.offset + 1 /\ (held.settled => Kept(held.topic, held.offset))
      /\ \E g \in handed : g.event = HeldRecord.event /\ g.attempt = HeldRecord.attempt /\ g.at <= clock
    BY <1>1 DEF KafkaInv, HeldIsLast, Consumed, Topics
<1> DEFINE m == HeldRecord
<1>3. m \in KafkaRecords /\ m \in ToSet(log[held.topic])
    BY <1>1, <1>2, ToSetOfSeq DEF KafkaTypeOK, HeldRecord
<1>4. CASE PublishRetry
  <2> DEFINE n == m.attempt + 1
             r == BuildHeadersWithRetry(Envelope(m.event, n, m.trace), clock + NextDelay(n))
  <2>1. n \in {1, 2} /\ NextDelay(n) \in Nat /\ NextDelay(n) = BACKOFF_SCHEDULE[n]
    BY <1>3, <1>4, ScheduleIsNat DEF PublishRetry, IsTerminal, MAX_ATTEMPTS, KafkaRecords, NextDelay
  <2>2. r = [event |-> m.event, version |-> "v1", attempt |-> n, trace |-> m.trace, due |-> clock + NextDelay(n)]
    BY DEF BuildHeadersWithRetry, BuildHeaders, Envelope
  <2>3. Append1("retry", r) /\ ~held.settled /\ held' = [held EXCEPT !.settled = TRUE]
        /\ UNCHANGED <<committed, position, done, discarded, handed, clock, crashes>>
    BY <1>4 DEF PublishRetry
  <2> HIDE DEF r, n
  <2>4. r \in KafkaRecords /\ r.event = m.event /\ r.attempt = n /\ r.due = clock + NextDelay(n) /\ r.due # NONE
    BY <1>1, <1>3, <2>1, <2>2 DEF KafkaRecords, KafkaTypeOK, NONE
  <2>5. RecordOk("retry", r)
    <3>1. RetryOf(r)
      BY <1>2, <1>3, <2>4 DEF RetryOf, n
    <3>2. Waited(r)
      <4>1. PICK g \in handed : g.event = m.event /\ g.attempt = m.attempt /\ g.at <= clock
        BY <1>2
      <4>2. g.at \in Nat /\ clock \in Nat
        BY <1>1, <4>1 DEF KafkaTypeOK
      <4>3. g.at + BACKOFF_SCHEDULE[r.attempt] <= r.due
        BY <2>1, <2>4, <4>1, <4>2
      <4> QED BY <2>4, <4>1, <4>3 DEF Waited, n
    <3> QED BY <2>1, <2>4, <3>1, <3>2 DEF RecordOk
  <2> QED BY <1>1, <2>3, <2>4, <2>5, KafkaSettleStep DEF n
<1>5. CASE NackToDlq
  <2> DEFINE r == DlqRecord(m, m.trace)
  <2>1. Append1("dlq", r) /\ ~held.settled /\ held' = [held EXCEPT !.settled = TRUE]
        /\ UNCHANGED <<committed, position, done, discarded, handed, clock, crashes>>
    BY <1>5 DEF NackToDlq
  <2>2. r \in KafkaRecords /\ r.event = m.event /\ r.attempt = m.attempt /\ r.version = m.version /\ r.trace = m.trace
    BY <1>3 DEF DlqRecord, KafkaRecords, NONE
  <2> HIDE DEF r
  <2>3. RecordOk("dlq", r)
    <3>1. DeadLetterOf(r)
      BY <1>2, <1>3, <2>2 DEF DeadLetterOf
    <3> QED BY <3>1 DEF RecordOk
  <2> QED BY <1>1, <2>1, <2>2, <2>3, KafkaSettleStep
<1>6. CASE Handle
  <2>1. /\ held' = [held EXCEPT !.settled = TRUE] /\ done' = done \cup {At(held.topic, held.offset)}
        /\ UNCHANGED <<log, committed, position, discarded, handed, clock, crashes>>
    BY <1>6 DEF Handle
  <2>2. held'.topic = held.topic /\ held'.offset = held.offset
        /\ held' \in [topic : Consumed \cup {"-"}, offset : Nat, settled : BOOLEAN]
    BY <1>1, <2>1 DEF KafkaTypeOK
  <2>3. \A u \in Consumed : \A o : Kept(u, o) => Kept(u, o)'
    BY <2>1 DEF Kept, Copied
  <2>4. Kept(held.topic, held.offset)'
    BY <2>1, <2>2 DEF Kept
  <2>5. KafkaTypeOK'
    BY <1>1, <2>1, <2>2 DEF KafkaTypeOK
  <2>6. HeldIsLast'
    <3>1. HeldRecord' = HeldRecord
      BY <2>1, <2>2 DEF HeldRecord
    <3> QED BY <1>2, <2>1, <2>2, <2>4, <3>1 DEF HeldIsLast
  <2>7. \A u \in Consumed : \A o \in 1..(position[u] - 1) : Kept(u, o)'
    <3>1. At(held.topic, held.offset) \in done'
      BY <2>1
    <3>2. ASSUME NEW u \in Consumed, NEW o, held.topic = u, held.offset = o PROVE Kept(u, o)'
      BY <3>1, <3>2 DEF Kept
    <3> QED BY <2>3, <3>2 DEF KafkaInv, GoneByIsKept
  <2>8. GoneByIsKept'
    BY <2>1, <2>7 DEF GoneByIsKept
  <2>9. NoneVanish'
    BY <2>1 DEF KafkaInv, NoneVanish
  <2>10. RecordsOk'
    BY <2>1 DEF KafkaInv, RecordsOk, RecordOk, Waited, RetryOf, DeadLetterOf
  <2> QED BY <2>1, <2>5, <2>6, <2>8, <2>9, <2>10 DEF KafkaInv, RetriesBackOff
<1>7. CASE Commit
  <2>1. /\ held.settled /\ held' = NothingHeld
        /\ committed' \in {committed, [committed EXCEPT ![held.topic] = held.offset + 1]}
        /\ UNCHANGED <<log, position, done, discarded, handed, clock, crashes>>
    BY <1>7 DEF Commit
  <2>2. KafkaTypeOK'
    <3>1. NothingHeld \in [topic : Consumed \cup {"-"}, offset : Nat, settled : BOOLEAN]
      BY DEF NothingHeld
    <3>2. held.offset + 1 \in Nat \ {0} /\ held.offset + 1 <= Len(log[held.topic]) + 1
      BY <1>1, <1>2, LenProperties DEF KafkaTypeOK
    <3>3. /\ committed' \in [Consumed -> Nat \ {0}]
          /\ \A u \in Consumed : committed'[u] = committed[u] \/ (u = held.topic /\ committed'[u] = held.offset + 1)
      <4>1. committed \in [Consumed -> Nat \ {0}]
        BY <1>1 DEF KafkaTypeOK
      <4> QED BY <2>1, <3>2, <4>1
    <3>4. \A u \in Consumed : committed'[u] =< Len(log[u]) + 1
      BY <1>1, <3>2, <3>3 DEF KafkaTypeOK
    <3>5. held' \in [topic : Consumed \cup {"-"}, offset : Nat, settled : BOOLEAN]
      BY <2>1, <3>1
    <3> QED BY <1>1, <2>1, <3>3, <3>4, <3>5 DEF KafkaTypeOK
  <2>3. \A u \in Consumed : \A o \in 1..(position[u] - 1) : Kept(u, o)
    BY <2>1 DEF KafkaInv, GoneByIsKept
  <2>4. \A u \in Consumed : committed'[u] = committed[u] \/ committed'[u] = position[u]
    BY <1>1, <1>2, <2>1 DEF KafkaTypeOK
  <2>5. \A u \in Consumed : \A o \in 1..(committed'[u] - 1) : Kept(u, o)
    BY <2>3, <2>4 DEF KafkaInv, NoneVanish, Kept, Copied
  <2>6. \A u \in Consumed : \A o : Kept(u, o) => Kept(u, o)'
    BY <2>1 DEF Kept, Copied
  <2>7. GoneByIsKept' /\ NoneVanish' /\ HeldIsLast'
    BY <2>1, <2>3, <2>5, <2>6 DEF GoneByIsKept, NoneVanish, Kept, Copied, HeldIsLast
  <2>8. RecordsOk'
    BY <2>1 DEF KafkaInv, RecordsOk, RecordOk, Waited, RetryOf, DeadLetterOf
  <2> QED BY <2>1, <2>2, <2>7, <2>8 DEF KafkaInv, RetriesBackOff
<1> QED BY <1>4, <1>5, <1>6, <1>7

\* A crash goes back to the committed offset; the clock only makes waits longer.
LEMMA KafkaCrashStep == ASSUME KafkaInv, Crash \/ Tick \/ UNCHANGED kafkaVars PROVE KafkaInv'
<1>1. CASE Crash
  <2>1. position' = committed /\ held' = NothingHeld /\ UNCHANGED <<log, committed, done, discarded, handed, clock>>
    BY <1>1 DEF Crash
  <2>2. KafkaTypeOK'
    <3>1. NothingHeld \in [topic : Consumed \cup {"-"}, offset : Nat, settled : BOOLEAN]
      BY DEF NothingHeld
    <3> QED BY <2>1, <3>1 DEF KafkaInv, KafkaTypeOK
  <2>3. GoneByIsKept' /\ NoneVanish' /\ HeldIsLast'
    BY <2>1 DEF KafkaInv, GoneByIsKept, NoneVanish, Kept, Copied, HeldIsLast
  <2>4. RecordsOk' /\ RetriesBackOff'
    BY <2>1 DEF KafkaInv, RecordsOk, RecordOk, Waited, RetryOf, DeadLetterOf, RetriesBackOff
  <2> QED BY <2>2, <2>3, <2>4 DEF KafkaInv
<1>2. CASE Tick \/ UNCHANGED kafkaVars
  <2>1. UNCHANGED <<log, committed, position, held, done, discarded, handed>> /\ (clock' = clock + 1 \/ clock' = clock)
    BY <1>2 DEF Tick, kafkaVars
  <2>2. clock \in Nat /\ clock' \in Nat \ {0} /\ clock <= clock' /\ \A g \in handed : g.at \in Nat
    BY <2>1 DEF KafkaInv, KafkaTypeOK
  <2>3. KafkaTypeOK'
    BY <2>1, <2>2 DEF KafkaInv, KafkaTypeOK
  <2>4. GoneByIsKept' /\ NoneVanish'
    BY <2>1 DEF KafkaInv, GoneByIsKept, NoneVanish, Kept, Copied
  <2>5. HeldIsLast'
    <3>1. HeldRecord' = HeldRecord /\ (Kept(held.topic, held.offset) => Kept(held.topic, held.offset)')
      BY <2>1 DEF HeldRecord, Kept, Copied
    <3>2. \A g \in handed : g.at <= clock => g.at <= clock'
      BY <2>2
    <3> QED BY <2>1, <3>1, <3>2 DEF KafkaInv, HeldIsLast
  <2>6. RecordsOk' /\ RetriesBackOff'
    BY <2>1 DEF KafkaInv, RecordsOk, RecordOk, Waited, RetryOf, DeadLetterOf, RetriesBackOff
  <2> QED BY <2>3, <2>4, <2>5, <2>6 DEF KafkaInv
<1> QED BY <1>1, <1>2

LEMMA KafkaStep == KafkaInv /\ [KafkaNext]_kafkaVars => KafkaInv'
<1> SUFFICES ASSUME KafkaInv, [KafkaNext]_kafkaVars PROVE KafkaInv'
    OBVIOUS
<1>1. ASSUME NEW e \in Events, NEW tr \in {"valid", "malformed"}, PublishEnvelope(e, tr) PROVE KafkaInv'
    BY <1>1, KafkaProduceStep DEF PublishEnvelope, BuildHeaders, Envelope
<1>2. CASE ForeignRecord
    BY <1>2, KafkaProduceStep DEF ForeignRecord
<1> QED BY <1>1, <1>2, KafkaNextStep, KafkaCallerStep, KafkaCrashStep DEF KafkaNext

\* For any events, records and crashes: a copy has the identity of its record and no
\* attempt beyond the last, no attempt is handed out before its wait is over, and below
\* the committed offset no record has vanished.
THEOREM RecordsAreKept == KafkaSpec => []RecordsSurvive
<1>1. KafkaInv => RecordsSurvive
  <2> SUFFICES ASSUME KafkaInv PROVE RecordsSurvive
      OBVIOUS
  <2>1. /\ \A r \in ToSet(log["retry"]) : r.attempt \in {1, 2} /\ RetryOf(r)
        /\ \A r \in ToSet(log["dlq"]) : DeadLetterOf(r)
    BY DEF KafkaInv, RecordsOk, RecordOk, Topics
  <2>2. \A t \in Consumed : \A o \in ToSet(log[t]) : o \in UNION {ToSet(log[u]) : u \in Consumed}
    OBVIOUS
  <2>3. CopiesKeepIdentity
    BY <2>1, <2>2 DEF CopiesKeepIdentity, RetryOf, DeadLetterOf, MAX_ATTEMPTS
  <2> QED BY <2>3 DEF KafkaInv, RecordsSurvive
<1> QED BY <1>1, KafkaInitially, KafkaStep, PTL DEF KafkaSpec

----------------------------------------------------------------------------
(* The soak harness.  A checkpoint is no younger than the last moment the     *)
(* harness ran, so the gap a resume measures is at least the downtime; no     *)
(* service was seen up since the outage began; and a pool, in memory or saved,*)
(* holds different slots below its next one, each provisioned to the end.     *)

PoolIsWhole(s) ==
    /\ s.pool \in Seq(Slots) /\ s.next \in Nat /\ IsInjective(s.pool)
    /\ \A i \in DOMAIN s.pool : s.pool[i] < s.next /\ accounts[s.pool[i]] \in {"verified", "deleted"}
SoakStates == [pool : Seq(Slots), next : Nat, start : Nat, saved : Nat, run : Nat]
SoakTypeOK ==
    /\ accounts \in [Slots -> {"none", "unverified", "verified", "deleted"}]
    /\ mem \in SoakStates /\ disk \subseteq SoakStates
    /\ phase \in {"down", "filling", "running", "catastrophe"}
    /\ job \in [slot : Nat, step : {"idle", "signup", "verify", "login", "remove"}, for : {"-", "fill", "rotate"}]
    /\ since \in Nat /\ lastUp \in Nat /\ alive \in Nat /\ longest \in Nat /\ soakClock \in Nat \ {0}
ClocksAgree ==
    /\ alive <= soakClock /\ (phase # "down" => alive = soakClock)
    /\ mem.saved <= alive /\ \A s \in disk : s.saved <= alive
    /\ lastUp <= soakClock /\ (since # 0 => lastUp <= since)
PoolsAreWhole == PoolIsWhole(mem) /\ \A s \in disk : PoolIsWhole(s)
Provisioning == job.step \in {"signup", "verify", "login"}
JobIsNext ==
    /\ phase = "down" => job = Idle
    /\ phase = "catastrophe" => job = Idle
    /\ Provisioning => job.slot = mem.next /\ job.slot \in Slots
    /\ job.step = "remove" => phase = "running" /\ mem.next <= MaxSlot /\ mem.pool # <<>>
    /\ job.step = "login" => accounts[job.slot] \in {"verified", "deleted"}

SoakInv == SoakTypeOK /\ ClocksAgree /\ PoolsAreWhole /\ JobIsNext /\ SoakUnbroken /\ CatastropheIsLasting

\* A slot added to the pool of the state s, or the first one taken out.
LEMMA PoolGrows ==
    ASSUME NEW p \in Seq(Slots), NEW n \in Nat, IsInjective(p), \A i \in DOMAIN p : p[i] < n, n \in Slots
    PROVE  /\ Append(p, n) \in Seq(Slots) /\ IsInjective(Append(p, n))
           /\ \A i \in DOMAIN Append(p, n) : Append(p, n)[i] = n \/ \E j \in DOMAIN p : Append(p, n)[i] = p[j]
<1> DEFINE q == Append(p, n)
<1>1. /\ q \in Seq(Slots) /\ Len(p) \in Nat /\ DOMAIN p = 1..Len(p) /\ DOMAIN q = 1..(Len(p) + 1)
      /\ q[Len(p) + 1] = n /\ \A i \in 1..Len(p) : q[i] = p[i]
    BY AppendProperties, LenProperties
<1>2. \A i \in DOMAIN q : i \in DOMAIN p \/ i = Len(p) + 1
    BY <1>1
<1>3. \A i \in DOMAIN p : p[i] # n /\ p[i] \in Nat
    BY <1>1, ElementOfSeq, SoakAssumption DEF Slots
<1> HIDE DEF q
<1>4. IsInjective(q)
    BY <1>1, <1>2, <1>3 DEF IsInjective
<1> QED BY <1>1, <1>2, <1>4 DEF q

LEMMA PoolShrinks ==
    ASSUME NEW p \in Seq(Slots), p # <<>>, IsInjective(p)
    PROVE  /\ Tail(p) \in Seq(Slots) /\ IsInjective(Tail(p))
           /\ \A i \in DOMAIN Tail(p) : \E j \in DOMAIN p : Tail(p)[i] = p[j]
<1> DEFINE q == Tail(p)
<1>1. /\ q \in Seq(Slots) /\ Len(p) \in Nat \ {0} /\ DOMAIN p = 1..Len(p) /\ DOMAIN q = 1..(Len(p) - 1)
      /\ \A i \in 1..(Len(p) - 1) : q[i] = p[i + 1]
    BY HeadTailProperties, LenProperties, EmptySeq
<1>2. \A i \in 1..(Len(p) - 1) : i \in Int /\ i + 1 \in 1..Len(p)
    BY <1>1
<1> HIDE DEF q
<1>3. IsInjective(q)
    BY <1>1, <1>2 DEF IsInjective
<1> QED BY <1>1, <1>2, <1>3 DEF q

\* Accounts are provisioned and deleted, but a pool's accounts stay one of both.
LEMMA AccountsMove ==
    ASSUME NEW s, PoolIsWhole(s),
           \A x \in Slots : accounts[x] \in {"verified", "deleted"} => accounts'[x] \in {"verified", "deleted"}
    PROVE  /\ s.pool \in Seq(Slots) /\ s.next \in Nat /\ IsInjective(s.pool)
           /\ \A i \in DOMAIN s.pool : s.pool[i] < s.next /\ accounts'[s.pool[i]] \in {"verified", "deleted"}
<1>1. \A i \in DOMAIN s.pool : s.pool[i] \in Slots
    BY ElementOfSeq, LenProperties DEF PoolIsWhole
<1> QED BY <1>1 DEF PoolIsWhole

LEMMA SoakInitially == SoakInit => SoakInv
<1> SUFFICES ASSUME SoakInit PROVE SoakInv
    OBVIOUS
<1> USE SoakAssumption
<1>1. /\ mem = [pool |-> <<>>, next |-> 0, start |-> 1, saved |-> 1, run |-> 1]
      /\ <<>> \in Seq(Slots) /\ DOMAIN <<>> = {}
    BY EmptySeq, LenProperties DEF SoakInit
<1>2. SoakTypeOK
    BY <1>1 DEF SoakInit, SoakTypeOK, SoakStates, Idle
<1>3. PoolsAreWhole
    BY <1>1 DEF SoakInit, PoolsAreWhole, PoolIsWhole, IsInjective
<1>4. ClocksAgree /\ JobIsNext
    BY <1>1 DEF SoakInit, ClocksAgree, JobIsNext, Provisioning, Idle
<1> QED BY <1>2, <1>3, <1>4 DEF SoakInit, SoakInv, SoakUnbroken, CatastropheIsLasting

\* A saved state is the one in memory with the moment it was saved.
LEMMA SavedIsWhole ==
    ASSUME SoakTypeOK, PoolsAreWhole, Saved, UNCHANGED accounts
    PROVE  /\ mem' \in SoakStates /\ mem'.next = mem.next /\ mem'.saved = soakClock /\ mem'.pool = mem.pool
           /\ disk' \subseteq SoakStates /\ \A s \in disk' : s \in disk \/ s.saved = soakClock
           /\ PoolsAreWhole'
<1>1. /\ mem' = [mem EXCEPT !.saved = soakClock] /\ (disk' = {mem'} \/ disk' = disk)
      /\ soakClock \in Nat /\ mem \in SoakStates /\ disk \subseteq SoakStates
    BY DEF Saved, SoakTypeOK
<1>2. mem' \in SoakStates /\ mem'.next = mem.next /\ mem'.saved = soakClock /\ mem'.pool = mem.pool
    BY <1>1 DEF SoakStates
<1>3. PoolsAreWhole'
    <2>1. /\ PoolIsWhole(mem)'
          /\ \A s : PoolIsWhole(s) => PoolIsWhole(s)'
      BY <1>2 DEF PoolsAreWhole, PoolIsWhole
    <2> QED BY <1>1, <2>1 DEF PoolsAreWhole, PoolIsWhole
<1> QED BY <1>1, <1>2, <1>3

\* A resumed state is the saved one, marked as of now; if its start is not now, the
\* gap was within the limit.
LEMMA StartStep == ASSUME SoakInv, Start PROVE SoakInv'
<1> USE SoakAssumption
<1>1. /\ phase = "down" /\ phase' = "filling" /\ mem' = LoadOrNew /\ job = Idle
      /\ longest' = IF mem'.start = soakClock THEN 0 ELSE IF soakClock - alive > longest THEN soakClock - alive ELSE longest
      /\ lastUp' = soakClock /\ alive' = soakClock /\ since' = 0
      /\ UNCHANGED <<accounts, disk, job, workers, soakClock>>
    BY DEF Start, SoakInv, JobIsNext
<1>2. /\ soakClock \in Nat \ {0} /\ alive \in Nat /\ longest \in Nat /\ alive <= soakClock /\ longest <= ResumeGapLimit
      /\ \A s \in disk : s \in SoakStates /\ s.saved <= alive /\ s.saved \in Nat /\ PoolIsWhole(s)
    BY DEF SoakInv, SoakTypeOK, SoakStates, ClocksAgree, PoolsAreWhole, SoakUnbroken
<1>3. /\ mem' \in SoakStates /\ mem'.saved = soakClock /\ PoolIsWhole(mem)'
      /\ mem'.start = soakClock \/ soakClock - alive <= ResumeGapLimit
  <2>1. CASE disk = {}
    <3>1. mem' = [pool |-> <<>>, next |-> 0, start |-> soakClock, saved |-> soakClock, run |-> 1]
      BY <1>1, <2>1 DEF LoadOrNew, Fresh
    <3>2. <<>> \in Seq(Slots) /\ DOMAIN <<>> = {}
      BY EmptySeq, LenProperties
    <3>3. mem' \in SoakStates /\ mem'.saved = soakClock /\ mem'.start = soakClock
      BY <1>2, <3>1, <3>2 DEF SoakStates
    <3>4. PoolIsWhole(mem)'
      BY <3>1, <3>2 DEF PoolIsWhole, IsInjective
    <3> QED BY <3>3, <3>4
  <2>2. CASE disk # {}
    <3>1. PICK s \in disk : mem' = Resume(s)
      BY <1>1, <2>2 DEF LoadOrNew
    <3>2. /\ s \in SoakStates /\ s.saved <= alive /\ s.saved \in Nat /\ PoolIsWhole(s)
      BY <1>2, <3>1
    <3>3. CASE soakClock - s.saved > ResumeGapLimit
      <4>1. mem' = [s EXCEPT !.start = soakClock, !.run = s.run + 1, !.saved = soakClock]
        BY <3>1, <3>3 DEF Resume
      <4>2. mem'.saved = soakClock /\ mem'.start = soakClock /\ mem'.pool = s.pool /\ mem'.next = s.next
        BY <3>2, <4>1 DEF SoakStates
      <4>3. s.run + 1 \in Nat
        BY <3>2 DEF SoakStates
      <4>4. mem' \in SoakStates
        BY <1>2, <3>2, <4>1, <4>3 DEF SoakStates
      <4> QED BY <1>1, <3>2, <4>2, <4>4 DEF PoolIsWhole
    <3>4. CASE ~(soakClock - s.saved > ResumeGapLimit)
      <4>1. mem' = [s EXCEPT !.saved = soakClock]
        BY <3>1, <3>4 DEF Resume
      <4>2. mem' \in SoakStates /\ mem'.saved = soakClock /\ mem'.pool = s.pool /\ mem'.next = s.next
        BY <1>2, <3>2, <4>1 DEF SoakStates
      <4>3. soakClock - alive <= ResumeGapLimit
        BY <1>2, <3>2, <3>4
      <4> QED BY <1>1, <3>2, <4>2, <4>3 DEF PoolIsWhole
    <3> QED BY <3>3, <3>4
  <2> QED BY <2>1, <2>2
<1>4. longest' \in Nat /\ longest' <= ResumeGapLimit
    BY <1>1, <1>2, <1>3
<1>5. SoakTypeOK'
    BY <1>1, <1>2, <1>3, <1>4 DEF SoakInv, SoakTypeOK
<1>6. ClocksAgree'
    BY <1>1, <1>2, <1>3 DEF ClocksAgree
<1>7. PoolsAreWhole'
  <2>1. \A s : PoolIsWhole(s) => PoolIsWhole(s)'
    BY <1>1 DEF PoolIsWhole
  <2> QED BY <1>1, <1>2, <1>3, <2>1 DEF PoolsAreWhole, PoolIsWhole
<1>8. JobIsNext' /\ CatastropheIsLasting'
    BY <1>1 DEF JobIsNext, Provisioning, Idle, CatastropheIsLasting
<1> QED BY <1>4, <1>5, <1>6, <1>7, <1>8 DEF SoakInv, SoakUnbroken

\* The harness saves its state: on the timer, when it stops, or when the pool
\* cannot be filled.
LEMMA SaveStep ==
    ASSUME SoakInv, Saved, UNCHANGED <<accounts, since, lastUp, alive, longest, soakClock>>, phase # "down",
           job' = Idle, phase' = "down" \/ (phase' = phase /\ phase = "running")
    PROVE  SoakInv'
<1> USE SoakAssumption
<1>1. /\ mem' \in SoakStates /\ mem'.next = mem.next /\ mem'.saved = soakClock /\ mem'.pool = mem.pool
      /\ disk' \subseteq SoakStates /\ \A s \in disk' : s \in disk \/ s.saved = soakClock
      /\ PoolsAreWhole'
    BY SavedIsWhole DEF SoakInv
<1>2. SoakTypeOK'
    BY <1>1 DEF SoakInv, SoakTypeOK, Idle
<1>3. ClocksAgree'
    BY <1>1 DEF SoakInv, ClocksAgree, SoakTypeOK
<1>4. JobIsNext'
    BY DEF JobIsNext, Provisioning, Idle
<1> QED BY <1>1, <1>2, <1>3, <1>4 DEF SoakInv, SoakUnbroken, CatastropheIsLasting

\* A step of the harness that touches neither its state nor the clocks.
LEMMA QuietStep ==
    ASSUME SoakInv, UNCHANGED <<mem, disk, since, lastUp, alive, longest, soakClock>>, SoakTypeOK',
           \A x \in Slots : accounts[x] \in {"verified", "deleted"} => accounts'[x] \in {"verified", "deleted"},
           phase' = "down" \/ (phase \in {"filling", "running"} /\ phase' \in {"filling", "running"}), JobIsNext'
    PROVE  SoakInv'
<1>1. PoolsAreWhole'
  <2>1. \A s : PoolIsWhole(s) => PoolIsWhole(s)'
    BY AccountsMove DEF PoolIsWhole
  <2>2. PoolIsWhole(mem) => PoolIsWhole(mem)'
    BY AccountsMove DEF PoolIsWhole
  <2> QED BY <2>1, <2>2 DEF SoakInv, PoolsAreWhole
<1>2. ClocksAgree'
    BY DEF SoakInv, ClocksAgree
<1> QED BY <1>1, <1>2 DEF SoakInv, SoakUnbroken, CatastropheIsLasting

LEMMA FillingStep == ASSUME SoakInv, SoakCrash \/ EnsureTenantPool \/ ProvisionOnly PROVE SoakInv'
<1> USE SoakAssumption
<1>1. UNCHANGED <<accounts, mem, disk, since, lastUp, alive, longest, soakClock>>
    BY DEF SoakCrash, EnsureTenantPool, ProvisionOnly
<1>2. CASE job' = Idle /\ (phase' = "down" \/ (phase = "filling" /\ phase' = "running"))
  <2>1. SoakTypeOK' /\ JobIsNext'
    BY <1>1, <1>2 DEF SoakInv, SoakTypeOK, JobIsNext, Provisioning, Idle
  <2> QED BY <1>1, <1>2, <2>1, QuietStep
<1>3. CASE job' = Begin("fill") /\ phase = "filling" /\ phase' = phase /\ mem.next <= MaxSlot
  <2>1. /\ mem.next \in Nat /\ mem.next \in Slots
        /\ job'.slot = mem.next /\ job'.step = "signup" /\ job'.for = "fill"
        /\ job' \in [slot : Nat, step : {"idle", "signup", "verify", "login", "remove"}, for : {"-", "fill", "rotate"}]
    BY <1>3 DEF SoakInv, SoakTypeOK, SoakStates, Begin, Slots
  <2>2. SoakTypeOK' /\ JobIsNext'
    BY <1>1, <1>3, <2>1 DEF SoakInv, SoakTypeOK, JobIsNext, Provisioning
  <2> QED BY <1>1, <1>3, <2>2, QuietStep
<1> QED BY <1>2, <1>3 DEF SoakCrash, EnsureTenantPool, ProvisionOnly

\* The account of the next slot is made, by requests each of which may fail.
LEMMA AccountStep == ASSUME SoakInv, SoakSignup \/ VerifyEmail PROVE SoakInv'
<1> USE SoakAssumption
<1>1. /\ UNCHANGED <<mem, disk, phase, workers, since, lastUp, alive, longest, soakClock>>
      /\ job.slot = mem.next /\ job.slot \in Slots /\ phase \in {"filling", "running"}
    BY DEF SoakSignup, VerifyEmail, SoakInv, SoakTypeOK, JobIsNext, Provisioning, Idle
<1>2. PICK st \in {"verify", "login"} : job' = [job EXCEPT !.step = st] /\ (st = "login" => VerifyEmail)
    BY DEF SoakSignup, VerifyEmail
<1>3. /\ accounts' \in [Slots -> {"none", "unverified", "verified", "deleted"}]
      /\ \A x \in Slots : accounts[x] \in {"verified", "deleted"} => accounts'[x] \in {"verified", "deleted"}
      /\ VerifyEmail => accounts'[job.slot] = "verified"
    BY <1>1 DEF SoakSignup, VerifyEmail, SoakInv, SoakTypeOK
<1>4. /\ job' \in [slot : Nat, step : {"idle", "signup", "verify", "login", "remove"}, for : {"-", "fill", "rotate"}]
      /\ job'.slot = job.slot /\ job'.step = st
    BY <1>2 DEF SoakInv, SoakTypeOK
<1>5. SoakTypeOK'
    BY <1>1, <1>3, <1>4 DEF SoakInv, SoakTypeOK
<1>6. JobIsNext'
    BY <1>1, <1>2, <1>3, <1>4 DEF JobIsNext, Provisioning
<1> QED BY <1>1, <1>3, <1>5, <1>6, QuietStep

LEMMA ProvisionedStep == ASSUME SoakInv, Provisioned PROVE SoakInv'
<1> USE SoakAssumption
<1>1. /\ mem' = [mem EXCEPT !.pool = Append(@, job.slot), !.next = job.slot + 1] /\ job' = Idle /\ job.step = "login"
      /\ UNCHANGED <<accounts, disk, phase, workers, since, lastUp, alive, longest, soakClock>>
    BY DEF Provisioned
<1>2. /\ job.slot = mem.next /\ job.slot \in Slots /\ accounts[job.slot] \in {"verified", "deleted"} /\ mem \in SoakStates
      /\ PoolIsWhole(mem)
    BY <1>1 DEF SoakInv, SoakTypeOK, JobIsNext, Provisioning, PoolsAreWhole
<1> DEFINE n == mem.next
           p == mem.pool
<1>3. n \in Nat /\ n \in Slots /\ p \in Seq(Slots) /\ IsInjective(p) /\ \A i \in DOMAIN p : p[i] < n
    BY <1>2 DEF PoolIsWhole
<1>4. /\ Append(p, n) \in Seq(Slots) /\ IsInjective(Append(p, n))
      /\ \A i \in DOMAIN Append(p, n) : Append(p, n)[i] = n \/ \E j \in DOMAIN p : Append(p, n)[i] = p[j]
    BY <1>3, PoolGrows
<1>5. mem' \in SoakStates /\ mem'.pool = Append(p, n) /\ mem'.next = n + 1 /\ mem'.saved = mem.saved
  <2> DEFINE q == Append(p, n)
             m == n + 1
  <2>1. mem' = [mem EXCEPT !.pool = q, !.next = m] /\ q \in Seq(Slots) /\ m \in Nat
    BY <1>1, <1>2, <1>3, <1>4
  <2> HIDE DEF q, m
  <2>2. mem' \in SoakStates /\ mem'.pool = q /\ mem'.next = m /\ mem'.saved = mem.saved
    BY <1>2, <2>1 DEF SoakStates
  <2> QED BY <2>2 DEF q, m
<1>6. PoolIsWhole(mem)'
  <2>1. \A i \in DOMAIN p : p[i] \in Nat /\ p[i] < n /\ accounts[p[i]] \in {"verified", "deleted"}
    BY <1>2, <1>3, ElementOfSeq, LenProperties DEF PoolIsWhole, Slots
  <2>2. \A i \in DOMAIN Append(p, n) : Append(p, n)[i] < n + 1 /\ accounts[Append(p, n)[i]] \in {"verified", "deleted"}
    BY <1>2, <1>3, <1>4, <2>1
  <2> QED BY <1>1, <1>3, <1>4, <1>5, <2>2 DEF PoolIsWhole
<1>7. PoolsAreWhole'
  <2>1. \A s : PoolIsWhole(s) => PoolIsWhole(s)'
    BY <1>1 DEF PoolIsWhole
  <2> QED BY <1>1, <1>6, <2>1 DEF SoakInv, PoolsAreWhole
<1>8. SoakTypeOK'
    BY <1>1, <1>5 DEF SoakInv, SoakTypeOK, Idle
<1>9. ClocksAgree' /\ JobIsNext'
    BY <1>1, <1>5 DEF SoakInv, ClocksAgree, JobIsNext, Provisioning, Idle
<1> QED BY <1>1, <1>7, <1>8, <1>9 DEF SoakInv, SoakUnbroken, CatastropheIsLasting

LEMMA ProvisionFailsStep == ASSUME SoakInv, ProvisionFails PROVE SoakInv'
<1>1. /\ Provisioning /\ job' = Idle /\ UNCHANGED <<accounts, since, lastUp, alive, longest, soakClock>>
      /\ phase \in {"filling", "running"}
    BY DEF ProvisionFails, SoakInv, SoakTypeOK, JobIsNext, Provisioning, Idle
<1>2. CASE job.for = "fill"
    BY <1>1, <1>2, SaveStep DEF ProvisionFails
<1>3. CASE job.for # "fill"
  <2>1. UNCHANGED <<phase, mem, disk>>
    BY <1>3 DEF ProvisionFails
  <2>2. SoakTypeOK' /\ JobIsNext'
    BY <1>1, <2>1, SoakAssumption DEF SoakInv, SoakTypeOK, JobIsNext, Provisioning, Idle
  <2> QED BY <1>1, <2>1, <2>2, QuietStep
<1> QED BY <1>2, <1>3

\* The oldest tenant is deleted and then taken out of the pool.
LEMMA RotateStep == ASSUME SoakInv, ForceDelete \/ RotateOldestTenant PROVE SoakInv'
<1> USE SoakAssumption
<1>1. CASE ForceDelete
  <2> DEFINE h == Head(mem.pool)
  <2>1. /\ UNCHANGED <<mem, disk, phase, workers, since, lastUp, alive, longest, soakClock>> /\ phase = "running"
        /\ accounts' = [accounts EXCEPT ![h] = "deleted"] /\ job' = [Idle EXCEPT !.step = "remove"]
        /\ mem.pool # <<>> /\ mem.next <= MaxSlot
    BY <1>1 DEF ForceDelete
  <2>2. /\ accounts' \in [Slots -> {"none", "unverified", "verified", "deleted"}]
        /\ \A x \in Slots : accounts[x] \in {"verified", "deleted"} => accounts'[x] \in {"verified", "deleted"}
    BY <2>1 DEF SoakInv, SoakTypeOK
  <2>3. SoakTypeOK' /\ JobIsNext'
    BY <2>1, <2>2 DEF SoakInv, SoakTypeOK, JobIsNext, Provisioning, Idle
  <2> QED BY <2>1, <2>2, <2>3, QuietStep
<1>2. CASE RotateOldestTenant
  <2> DEFINE p == mem.pool
  <2>1. /\ mem' = [mem EXCEPT !.pool = Tail(@)] /\ job' = Begin("rotate") /\ job.step = "remove"
        /\ UNCHANGED <<accounts, disk, phase, workers, since, lastUp, alive, longest, soakClock>>
    BY <1>2 DEF RotateOldestTenant
  <2>2. phase = "running" /\ mem.next <= MaxSlot /\ p # <<>> /\ mem \in SoakStates /\ PoolIsWhole(mem) /\ mem.next \in Nat
    BY <2>1 DEF SoakInv, SoakTypeOK, SoakStates, JobIsNext, PoolsAreWhole
  <2>3. /\ Tail(p) \in Seq(Slots) /\ IsInjective(Tail(p))
        /\ \A i \in DOMAIN Tail(p) : \E j \in DOMAIN p : Tail(p)[i] = p[j]
    BY <2>2, PoolShrinks DEF PoolIsWhole
  <2>4. mem' \in SoakStates /\ mem'.pool = Tail(p) /\ mem'.next = mem.next /\ mem'.saved = mem.saved
    BY <2>1, <2>2, <2>3 DEF SoakStates
  <2>5. PoolIsWhole(mem)'
    BY <2>1, <2>2, <2>3, <2>4 DEF PoolIsWhole
  <2>6. PoolsAreWhole'
    <3>1. \A s : PoolIsWhole(s) => PoolIsWhole(s)'
      BY <2>1 DEF PoolIsWhole
    <3> QED BY <2>1, <2>5, <3>1 DEF SoakInv, PoolsAreWhole
  <2>7. /\ job' \in [slot : Nat, step : {"idle", "signup", "verify", "login", "remove"}, for : {"-", "fill", "rotate"}]
        /\ job'.slot = mem'.next /\ job'.step = "signup" /\ job'.slot \in Slots
    BY <2>1, <2>2, <2>4 DEF Begin, Slots
  <2>8. SoakTypeOK'
    BY <2>1, <2>4, <2>7 DEF SoakInv, SoakTypeOK
  <2>9. ClocksAgree' /\ JobIsNext'
    BY <2>1, <2>2, <2>4, <2>7 DEF SoakInv, ClocksAgree, JobIsNext, Provisioning
  <2> QED BY <2>1, <2>6, <2>8, <2>9 DEF SoakInv, SoakUnbroken, CatastropheIsLasting
<1> QED BY <1>1, <1>2

\* No service was up since the outage began, so an outage that lasts is one.
LEMMA HealthStep == ASSUME SoakInv, NEW up \in {"all", "some", "none"}, HealthCheck(up) PROVE SoakInv'
<1> USE SoakAssumption
<1>1. /\ phase = "running" /\ job = Idle /\ since' = Since(up) /\ lastUp' = (IF up = "none" THEN lastUp ELSE soakClock)
      /\ phase' \in {"running", "catastrophe"}
      /\ phase' = "catastrophe" => since' # 0 /\ soakClock - since' > CatastrophicFailure
      /\ UNCHANGED <<accounts, mem, disk, job, workers, alive, longest, soakClock>>
    BY DEF HealthCheck
<1>2. since \in Nat /\ lastUp \in Nat /\ soakClock \in Nat \ {0} /\ lastUp <= soakClock /\ (since # 0 => lastUp <= since)
    BY DEF SoakInv, SoakTypeOK, ClocksAgree
<1>3. since' \in Nat /\ lastUp' \in Nat /\ lastUp' <= soakClock /\ (since' # 0 => lastUp' <= since')
    BY <1>1, <1>2 DEF Since
<1>4. SoakTypeOK'
    BY <1>1, <1>3 DEF SoakInv, SoakTypeOK
<1>5. ClocksAgree'
    BY <1>1, <1>3 DEF SoakInv, ClocksAgree
<1>6. CatastropheIsLasting'
    BY <1>1, <1>2, <1>3 DEF CatastropheIsLasting
<1>7. PoolsAreWhole' /\ JobIsNext'
    BY <1>1 DEF SoakInv, PoolsAreWhole, PoolIsWhole, JobIsNext, Provisioning, Idle
<1> QED BY <1>1, <1>4, <1>5, <1>6, <1>7 DEF SoakInv, SoakUnbroken

LEMMA SoakTickStep == ASSUME SoakInv, SoakTick PROVE SoakInv'
<1>1. /\ soakClock' = soakClock + 1 /\ alive' = (IF phase = "down" THEN alive ELSE soakClock + 1)
      /\ UNCHANGED <<accounts, mem, disk, phase, job, workers, since, lastUp, longest>>
    BY DEF SoakTick
<1>2. soakClock \in Nat /\ alive \in Nat /\ lastUp \in Nat /\ alive <= soakClock /\ lastUp <= soakClock
    BY DEF SoakInv, SoakTypeOK, ClocksAgree
<1>3. alive' \in Nat /\ alive <= alive' /\ alive' <= soakClock' /\ lastUp <= soakClock' /\ soakClock' \in Nat \ {0}
    BY <1>1, <1>2
<1>4. SoakTypeOK'
    BY <1>1, <1>3 DEF SoakInv, SoakTypeOK
<1>5. ClocksAgree'
  <2>1. mem.saved \in Nat /\ \A s \in disk : s.saved \in Nat
    BY DEF SoakInv, SoakTypeOK, SoakStates
  <2> QED BY <1>1, <1>2, <1>3, <2>1 DEF SoakInv, ClocksAgree
<1>6. CatastropheIsLasting'
    BY <1>1, <1>2, SoakAssumption DEF SoakInv, CatastropheIsLasting
<1>7. PoolsAreWhole' /\ JobIsNext'
    BY <1>1 DEF SoakInv, PoolsAreWhole, PoolIsWhole, JobIsNext, Provisioning, Idle
<1> QED BY <1>1, <1>4, <1>5, <1>6, <1>7 DEF SoakInv, SoakUnbroken

LEMMA SoakStep == SoakInv /\ [SoakNext]_soakVars => SoakInv'
<1> SUFFICES ASSUME SoakInv, [SoakNext]_soakVars PROVE SoakInv'
    OBVIOUS
<1>1. CASE Checkpoint \/ Stop
  <2>1. job = Idle /\ job' = job
    BY <1>1 DEF Checkpoint, Stop
  <2> QED BY <1>1, <2>1, SaveStep DEF Checkpoint, Stop
<1>2. CASE (\E s \in Slots : SpawnWorkers(s)) \/ UNCHANGED soakVars
  <2>1. UNCHANGED <<accounts, mem, disk, phase, job, since, lastUp, alive, longest, soakClock>>
    BY <1>2 DEF SpawnWorkers, soakVars
  <2> QED BY <2>1 DEF SoakInv, SoakTypeOK, ClocksAgree, PoolsAreWhole, PoolIsWhole, JobIsNext, Provisioning, Idle,
                      SoakUnbroken, CatastropheIsLasting
<1> QED BY <1>1, <1>2, StartStep, FillingStep, AccountStep, ProvisionedStep, ProvisionFailsStep, RotateStep, HealthStep,
           SoakTickStep DEF SoakNext

\* For any slots, clock and limits, through crashes, failed saves and restarts: the harness
\* was never down longer than the limit within a soak, gives up only after an outage of the
\* whole window, and its pool holds different tenants that were provisioned to the end.
THEOREM SoakReportsTruth == SoakSpec => []SoakIsTrue
<1>1. SoakInv => SoakIsTrue
  <2> SUFFICES ASSUME SoakInv PROVE PoolIsProvisioned
      BY DEF SoakInv, SoakIsTrue
  <2>1. \A s \in ToSet(mem.pool) : \E i \in DOMAIN mem.pool : s = mem.pool[i]
    BY DEF ToSet
  <2> QED BY <2>1 DEF SoakInv, PoolsAreWhole, PoolIsWhole, PoolIsProvisioned
<1> QED BY <1>1, SoakInitially, SoakStep, PTL DEF SoakSpec

----------------------------------------------------------------------------
(* The front doors of control-api: a reply holds what the credential of its   *)
(* request is good for.                                                       *)

KeyStates == {"absent", "unlogged", "live", "revoked"}
\* The keys are rows, and the request has its five fields.
AccessTypeOK ==
    /\ apiKeys \in [ApiKeys -> [owner : Users \cup {"-"}, scopes : ScopeSets \cup {{}}, state : KeyStates]]
    /\ request = [step |-> request.step, token |-> request.token, cookie |-> request.cookie,
                  ctx |-> request.ctx, dead |-> request.dead]
    /\ request.dead \subseteq ApiKeys

\* A key stays revoked, so one that was when the request came still is.
DeadStayDead == \A k \in request.dead : apiKeys[k].state = "revoked"
\* A context that names somebody is not that of a key revoked before.
ContextIsLive ==
    (request.step \in {"authed", "answered"} /\ request.token \in ApiKeys /\ request.ctx.kind # "anonymous") =>
        request.token \notin request.dead
\* A reply was given to somebody; between requests there is none.
RepliedToSomebody == Served => request.step = "answered" /\ request.ctx.kind # "anonymous"

AccessInv == AccessTypeOK /\ DeadStayDead /\ ContextIsLive /\ RepliedToSomebody /\ TenantsApart /\ EventsToOwners

----------------------------------------------------------------------------
LEMMA AccessInitially == AccessInit => AccessInv
BY DEF AccessInit, AccessInv, AccessTypeOK, DeadStayDead, ContextIsLive, RepliedToSomebody, TenantsApart, EventsToOwners,
       Served, Refused, NoHttpRequest,
       KeyStates, Users, ScopeSets

\* A key that is not live names nobody.
LEMMA LiveKeyOrNobody ==
    ASSUME NEW k \in ApiKeys, NEW c, Authenticate(k, c).kind # "anonymous" PROVE apiKeys[k].state # "revoked"
<1>1. Authenticate(k, c) = LookupApiKey(k)
    BY ApiAccessAssumption DEF Authenticate
<1> QED BY <1>1 DEF LookupApiKey, KeyRow, LiveKeys, Nobody

\* The keys change only from live to revoked, or from absent.
LEMMA KeysMove ==
    ASSUME AccessInv, UNCHANGED <<request, reply>>,
           apiKeys' \in [ApiKeys -> [owner : Users \cup {"-"}, scopes : ScopeSets \cup {{}}, state : KeyStates]],
           \A k \in ApiKeys : apiKeys[k].state = "revoked" => apiKeys'[k].state = "revoked"
    PROVE  AccessInv'
BY DEF AccessInv, AccessTypeOK, DeadStayDead, ContextIsLive, RepliedToSomebody, TenantsApart, EventsToOwners, Served

\* What the handlers give to a context: data of its tenant, or the audit trail
\* to an admin key; the events of a session to its owner or an admin key.
LEMMA RepliesAreAllowed ==
    ASSUME NEW ctx, NEW r \in Replies(ctx)
    PROVE  /\ ctx.kind # "anonymous"
           /\ r.tenant = ctx.tenant \/ (r.ep = "audit" /\ "admin" \in ctx.scopes)
           /\ r.ep \in {"history", "ndjson"} => /\ r.owner = ctx.user \/ "admin" \in ctx.scopes
                                                /\ r.raw => "admin" \in ctx.scopes
<1> USE DEF Give, RequireReadAuth, VerifiedSession, RequireScope
<1>1. CASE \E o \in AgentSessions : HistoryAllowed(ctx, o) /\ r = Give("history", UserTenant[o], o, FALSE)
    BY <1>1 DEF HistoryAllowed
<1>2. CASE \E p \in AgentSessions \X BOOLEAN : /\ NdjsonAllowed(ctx, p[1], p[2])
                                               /\ r = Give("ndjson", UserTenant[p[1]], p[1], p[2])
    BY <1>2 DEF NdjsonAllowed, HistoryAllowed
<1>3. CASE \E o \in AgentSessions : /\ VerifiedSession(ctx) /\ UserTenant[o] = ctx.tenant
                                    /\ r = Give("detail", UserTenant[o], o, FALSE)
    BY <1>3
<1>4. CASE \E t \in {"t1", "t2"} : AuditAllowed(ctx, t) /\ r = Give("audit", t, "-", FALSE)
    BY <1>4 DEF AuditAllowed
<1>5. CASE \E t \in {"t1", "t2"} : /\ t = ctx.tenant
                                   /\ \/ RequireReadAccess(ctx) /\ r = Give("repo", t, "-", FALSE)
                                      \/ RequireSessionOrAgentKey(ctx) /\ r = Give("agent", t, "-", FALSE)
    BY <1>5 DEF RequireReadAccess, RequireSessionOrAgentKey
<1>6. CASE \E t \in {"t1", "t2"} : /\ t = ctx.tenant /\ RequireChatAuth(ctx)
                                   /\ r = Give("chat", t, ctx.user, FALSE)
    BY <1>6 DEF RequireChatAuth
<1> HIDE DEF Give
<1>7. \/ r \in {Give("history", UserTenant[o], o, FALSE) : o \in {o \in AgentSessions : HistoryAllowed(ctx, o)}}
      \/ r \in {Give("ndjson", UserTenant[p[1]], p[1], p[2]) :
                   p \in {p \in AgentSessions \X BOOLEAN : NdjsonAllowed(ctx, p[1], p[2])}}
      \/ r \in {Give("detail", UserTenant[o], o, FALSE) :
                   o \in {o \in AgentSessions : VerifiedSession(ctx) /\ UserTenant[o] = ctx.tenant}}
      \/ r \in {Give("audit", t, "-", FALSE) : t \in {t \in {"t1", "t2"} : AuditAllowed(ctx, t)}}
      \/ r \in {Give("repo", t, "-", FALSE) : t \in {t \in {"t1", "t2"} : RequireReadAccess(ctx) /\ t = ctx.tenant}}
      \/ r \in {Give("agent", t, "-", FALSE) : t \in {t \in {"t1", "t2"} : RequireSessionOrAgentKey(ctx) /\ t = ctx.tenant}}
      \/ r \in {Give("chat", t, ctx.user, FALSE) : t \in {t \in {"t1", "t2"} : RequireChatAuth(ctx) /\ t = ctx.tenant}}
    BY DEF Replies
<1> QED BY <1>1, <1>2, <1>3, <1>4, <1>5, <1>6, <1>7

----------------------------------------------------------------------------
LEMMA AccessStep == AccessInv /\ [AccessNext]_apiVars => AccessInv'
<1> SUFFICES ASSUME AccessInv, [AccessNext]_apiVars PROVE AccessInv'
    OBVIOUS
<1> USE DEF AccessInv
<1>1. ASSUME NEW t \in Bearers, NEW c \in Users \cup {"none"}, Arrive(t, c) PROVE AccessInv'
    BY <1>1 DEF Arrive, AccessTypeOK, DeadStayDead, ContextIsLive, RepliedToSomebody, TenantsApart, EventsToOwners, Served
<1>2. CASE FromRequestParts
    <2>1. /\ request' = [request EXCEPT !.step = "authed", !.ctx = Authenticate(request.token, request.cookie)]
          /\ request.step = "arrived" /\ UNCHANGED <<apiKeys, reply>>
        BY <1>2 DEF FromRequestParts
    <2>2. request' = [step |-> "authed", token |-> request.token, cookie |-> request.cookie,
                      ctx |-> Authenticate(request.token, request.cookie), dead |-> request.dead]
        BY <2>1 DEF AccessTypeOK
    <2>3. AccessTypeOK' /\ DeadStayDead'
        BY <2>1, <2>2 DEF AccessTypeOK, DeadStayDead
    <2>4. ContextIsLive'
        BY <2>2, LiveKeyOrNobody DEF ContextIsLive, DeadStayDead, AccessTypeOK
    <2>5. RepliedToSomebody' /\ TenantsApart' /\ EventsToOwners'
        BY <2>1 DEF RepliedToSomebody, TenantsApart, EventsToOwners, Served
    <2> QED BY <2>3, <2>4, <2>5
<1>3. CASE Serve
    <2>1. /\ request.step = "authed" /\ UNCHANGED apiKeys
          /\ reply' \in Replies(request.ctx) \/ reply' = Refused
          /\ request' = [step |-> "answered", token |-> request.token, cookie |-> request.cookie,
                         ctx |-> request.ctx, dead |-> request.dead]
        BY <1>3 DEF Serve, AccessTypeOK
    <2>2. AccessTypeOK' /\ DeadStayDead' /\ ContextIsLive'
        BY <2>1 DEF AccessTypeOK, DeadStayDead, ContextIsLive
    <2>3. RepliedToSomebody' /\ TenantsApart' /\ EventsToOwners'
        BY <2>1, RepliesAreAllowed DEF RepliedToSomebody, TenantsApart, EventsToOwners, Served, Refused
    <2> QED BY <2>2, <2>3
<1>4. CASE Done
    BY <1>4 DEF Done, NoHttpRequest, Refused, AccessTypeOK, DeadStayDead, ContextIsLive, RepliedToSomebody,
                TenantsApart, EventsToOwners, Served
<1>5. ASSUME NEW k \in ApiKeys, NEW u \in Users,
             RevokeApiKey(k, u) \/ KeyLogged(k) \/ (\E s \in ScopeSets : CreateApiKey(k, u, s))
      PROVE  AccessInv'
    BY <1>5, KeysMove DEF RevokeApiKey, KeyLogged, CreateApiKey, AccessTypeOK, KeyStates
<1>6. ASSUME NEW u \in Users, Expire(u) \/ Demote(u) PROVE AccessInv'
    BY <1>6, KeysMove DEF Expire, Demote, AccessTypeOK
<1>7. CASE UNCHANGED apiVars
    BY <1>7, KeysMove DEF apiVars, AccessTypeOK
<1>8. \E u \in Users : TRUE
    BY DEF Users
<1> QED BY <1>1, <1>2, <1>3, <1>4, <1>5, <1>6, <1>7, <1>8 DEF AccessNext

\* Nobody reads another tenant's data or another user's session, and a key that
\* was revoked before the request came opens nothing.
THEOREM AccessIsOwn == AccessSpec => []OnlyOwnData
<1>1. AccessInit => AccessInv
    BY AccessInitially
<1>2. AccessInv /\ [AccessNext]_apiVars => AccessInv'
    BY AccessStep
<1>3. AccessInv => OnlyOwnData
    BY DEF AccessInv, OnlyOwnData, RevokedKeysOut, RepliedToSomebody, ContextIsLive
<1> QED BY <1>1, <1>2, <1>3, PTL DEF AccessSpec
----------------------------------------------------------------------------
(* The MCP endpoint.  A session's id stands for one tenant, as no id is given *)
(* out twice; so a call that passed validate_session runs for the tenant of   *)
(* its credential to its end, whatever is archived, lost or restarted.        *)

CallRecords ==
    [step : {"idle", "check", "embed", "read", "cite", "audit", "answer"}, nr : Nat,
     cred : Credentials \cup {NoCall.cred}, sid : Nat, tenant : McpTenants \cup {"-"}, tool : Tools \cup {"-"},
     repo : Repos \cup {"-"}, gone : SUBSET Repos, data : SUBSET Repos, outcome : {"-", "error", "success"}]
McpTypeOK ==
    /\ IsFiniteSet(known) /\ mcpSessions \subseteq known
    /\ archived \subseteq Repos
    /\ call \in [Clients -> CallRecords]
    /\ used \in [calls : Nat, restarts : Nat]

\* An id that was given out is that of one session.
IdsAreUnique ==
    /\ \A s \in known : s.id \in 1..Cardinality(known) /\ s.tenant \in McpTenants
    /\ \A s, t \in known : s.id = t.id => s = t
\* A call under way is one of its credential's tenant, with rows of that tenant
\* and of the repository it named, which was not archived when it came.
CallIsBound(k) ==
    /\ k.nr \in 1..used.calls
    /\ k.tenant = k.cred.tenant /\ k.gone \subseteq archived
    /\ k.step \in {"embed", "read", "cite"} => k.repo = "-" \/ k.repo \notin k.gone
    /\ \A r \in k.data : OwnerOf[r] = k.tenant /\ (k.repo # "-" => r = k.repo /\ r \notin k.gone)
CallsBound == \A c \in Clients : call[c].step # "idle" => CallIsBound(call[c])
\* Every call has a number of its own, and a row only at its end.
CallNumbers ==
    /\ \A c, d \in Clients : call[c].step # "idle" /\ call[d].step # "idle" /\ call[c].nr = call[d].nr => c = d
    /\ \A x \in mcpTrail : x.nr \in 1..used.calls
    /\ \A c \in Clients : call[c].step \notin {"idle", "answer"} => \A x \in mcpTrail : x.nr # call[c].nr
    /\ \A c \in Clients : call[c].step = "answer" => call[c].nr \in lostRows \/ AuditRow(call[c]) \in mcpTrail

McpInv ==
    /\ McpTypeOK /\ IdsAreUnique
    /\ CallsBound /\ CallNumbers /\ McpTenantsApart /\ McpCallsAudited

LEMMA McpInitially == McpInit => McpInv
<1> SUFFICES ASSUME McpInit PROVE McpInv
    OBVIOUS
<1>1. McpTypeOK
    BY FS_EmptySet DEF McpInit, McpTypeOK, CallRecords, NoCall, Cred
<1>2. \A c \in Clients : call[c].step = "idle"
    BY DEF McpInit, NoCall
<1> QED BY <1>1, <1>2 DEF McpInit, McpInv, CallsBound, IdsAreUnique, CallNumbers, McpTenantsApart, McpCallsAudited

\* validate_session lets a credential pass only into a session of its tenant.
LEMMA ValidatedSession ==
    ASSUME IdsAreUnique, mcpSessions \subseteq known, NEW cred, NEW sid, ValidateSession(cred, sid) = "ok"
    PROVE  cred.tenant \in McpTenants /\ (CHOOSE t \in SessionTenant(sid) : TRUE) = cred.tenant
<1>1. cred.tenant \in SessionTenant(sid)
    BY DEF ValidateSession
<1>2. \A t \in SessionTenant(sid) : t = cred.tenant /\ t \in McpTenants
    BY <1>1 DEF SessionTenant, IdsAreUnique
<1> QED BY <1>1, <1>2

\* A step of one client's call from a state in which it is under way: it stays a
\* record of its tenant, and the trail, the losses and the answers stay.
LEMMA CallGoesOn ==
    ASSUME McpInv, NEW c \in Clients, NEW k \in CallRecords,
           call' = [call EXCEPT ![c] = k],
           UNCHANGED <<mcpSessions, known, archived, mcpTrail, lostRows, answers, used>>,
           call[c].step \notin {"idle", "answer"}, k.step \notin {"idle", "answer"},
           k.nr = call[c].nr, CallIsBound(k)
    PROVE  McpInv'
<1>1. McpTypeOK' /\ IdsAreUnique'
    BY DEF McpInv, McpTypeOK, IdsAreUnique
<1>2. call'[c] = k /\ \A d \in Clients : d # c => call'[d] = call[d]
    BY DEF McpInv, McpTypeOK
<1>3. CallsBound'
    BY <1>2 DEF McpInv, CallsBound, CallIsBound
<1>4. CallNumbers'
    BY <1>2 DEF McpInv, CallNumbers, AuditRow
<1>5. McpTenantsApart' /\ McpCallsAudited'
    BY DEF McpInv, McpTenantsApart, McpCallsAudited
<1> QED BY <1>1, <1>3, <1>4, <1>5 DEF McpInv

\* A new session has an id that no other has.
LEMMA InitializeStep == ASSUME McpInv, NEW cred \in Credentials, HandleInitialize(cred) PROVE McpInv'
<1> DEFINE n == Cardinality(known)
           s == [id |-> n + 1, tenant |-> cred.tenant]
<1>1. /\ known' = known \cup {s} /\ mcpSessions' = mcpSessions \cup {s}
      /\ UNCHANGED <<archived, call, mcpTrail, lostRows, answers, used>>
    BY DEF HandleInitialize
<1>2. n \in Nat /\ s \notin known /\ cred.tenant \in McpTenants
    BY FS_CardinalityType DEF McpInv, McpTypeOK, IdsAreUnique, Credentials, Cred, McpTenants
<1>3. IsFiniteSet(known') /\ Cardinality(known') = n + 1
    BY <1>1, <1>2, FS_AddElement DEF McpInv, McpTypeOK
<1> HIDE DEF n
<1>4. IdsAreUnique'
    BY <1>1, <1>2, <1>3 DEF McpInv, IdsAreUnique, n
<1>5. McpTypeOK'
    BY <1>1, <1>3 DEF McpInv, McpTypeOK
<1>6. CallsBound'
    BY <1>1 DEF McpInv, CallsBound, CallIsBound
<1> QED BY <1>1, <1>4, <1>5, <1>6 DEF McpInv, CallNumbers, AuditRow, McpTenantsApart, McpCallsAudited

\* A call that comes gets a number of its own; refused, it leaves nothing behind.
LEMMA ToolsCallStep ==
    ASSUME McpInv, NEW c \in Clients, NEW cred \in Credentials, NEW sid \in Nat, NEW tool, NEW repo \in Repos \cup {"-"},
           HandleToolsCall(c, cred, sid, tool, repo)
    PROVE  McpInv'
<1> DEFINE n == used.calls + 1
<1>1. /\ used.calls \in Nat /\ used' = [used EXCEPT !.calls = n] /\ used'.calls = n
      /\ UNCHANGED <<mcpSessions, known, archived, mcpTrail, lostRows, answers>> /\ call[c].step = "idle"
    BY DEF HandleToolsCall, McpInv, McpTypeOK
<1>2. used' \in [calls : Nat, restarts : Nat] /\ IdsAreUnique' /\ \A i \in 1..used.calls : i \in 1..n /\ i # n
    BY <1>1 DEF McpInv, McpTypeOK, IdsAreUnique
<1>3. CASE call' = call
  <2>1. CallsBound'
    BY <1>1, <1>2, <1>3 DEF McpInv, CallsBound, CallIsBound
  <2> QED BY <1>1, <1>2, <1>3, <2>1 DEF McpInv, McpTypeOK, CallNumbers, AuditRow, McpTenantsApart, McpCallsAudited
<1>4. CASE ValidateSession(cred, sid) = "ok" /\ tool \in Tools
  <2> DEFINE t == CHOOSE t \in SessionTenant(sid) : TRUE
             k == [NoCall EXCEPT !.step = "check", !.nr = n, !.cred = cred, !.sid = sid, !.tenant = t,
                                 !.tool = tool, !.repo = repo, !.gone = archived]
  <2>1. call' = [call EXCEPT ![c] = k]
    BY <1>4 DEF HandleToolsCall
  <2>2. cred.tenant \in McpTenants /\ t = cred.tenant
    BY <1>4, ValidatedSession DEF McpInv, McpTypeOK
  <2> HIDE DEF t, n
  <2>a. /\ k.step = "check" /\ k.nr = n /\ k.tenant = cred.tenant /\ k.cred = cred /\ k.gone = archived /\ k.data = {}
        /\ k.outcome = "-" /\ k.sid = sid /\ k.tool = tool /\ k.repo = repo
    BY <2>2 DEF NoCall
  <2> USE DEF n
  <2>b. n \in Nat /\ archived \in SUBSET Repos /\ tool \in Tools \cup {"-"} /\ cred \in Credentials \cup {NoCall.cred}
    BY <1>1, <1>4 DEF McpInv, McpTypeOK
  <2> HIDE DEF k, n
  <2>c. k \in CallRecords
    BY <2>b, <2>2 DEF CallRecords, k, NoCall
  <2>3. /\ k \in CallRecords
        /\ k.step = "check" /\ k.nr = n /\ k.tenant = cred.tenant /\ k.cred = cred /\ k.gone = archived /\ k.data = {}
    BY <2>a, <2>c
  <2> USE DEF n
  <2> HIDE DEF k
  <2>4. call'[c] = k /\ \A d \in Clients : d # c => call'[d] = call[d]
    BY <2>1 DEF McpInv, McpTypeOK
  <2>5. McpTypeOK'
    BY <1>1, <1>2, <2>1, <2>3 DEF McpInv, McpTypeOK
  <2>6. CallsBound'
    <3>1. CallIsBound(call[c])'
      BY <1>1, <2>3, <2>4 DEF CallIsBound
    <3> QED BY <1>1, <1>2, <2>4, <3>1 DEF McpInv, CallsBound, CallIsBound
  <2>7. CallNumbers'
    <3>1. \A d \in Clients : d # c /\ call[d].step # "idle" => call[d].nr # n
      BY <1>2 DEF McpInv, CallsBound, CallIsBound
    <3> QED BY <1>1, <1>2, <2>3, <2>4, <3>1 DEF McpInv, CallNumbers, AuditRow
  <2> QED BY <1>1, <1>2, <2>5, <2>6, <2>7 DEF McpInv, McpTenantsApart, McpCallsAudited
<1> QED BY <1>3, <1>4 DEF HandleToolsCall

LEMMA ToolStep ==
    ASSUME McpInv, NEW c \in Clients, Fail(c) \/ CheckRepo(c) \/ EmbedQuery(c) \/ ReadRows(c) \/ FetchCommitShas(c)
    PROVE  McpInv'
<1> USE DEF Step
<1>0. call[c] \in CallRecords /\ (call[c].step # "idle" => CallIsBound(call[c]))
    BY DEF McpInv, CallsBound, McpTypeOK
<1>1. CASE Fail(c)
  <2> DEFINE k == [call[c] EXCEPT !.step = "audit", !.outcome = "error", !.data = {}]
  <2>1. k \in CallRecords /\ k.step = "audit" /\ k.nr = call[c].nr
    BY <1>0 DEF CallRecords
  <2>2. CallIsBound(k)
    BY <1>0, <1>1 DEF Fail, CallIsBound, CallRecords
  <2> QED BY <1>1, <2>1, <2>2, CallGoesOn DEF Fail
<1>2. CASE CheckRepo(c)
  <2>1. PICK next \in {"read", "embed"} : call' = [call EXCEPT ![c] = [call[c] EXCEPT !.step = next]]
    BY <1>2 DEF CheckRepo
  <2> DEFINE k == [call[c] EXCEPT !.step = next]
  <2>2. k \in CallRecords /\ k.step = next /\ k.nr = call[c].nr
    BY <1>0 DEF CallRecords
  <2>3. call[c].repo = "-" \/ call[c].repo \notin archived
    BY <1>2 DEF CheckRepo, Owned
  <2>4. CallIsBound(k)
    BY <1>0, <1>2, <2>3 DEF CheckRepo, CallIsBound, CallRecords
  <2> QED BY <1>2, <2>1, <2>2, <2>4, CallGoesOn DEF CheckRepo
<1>3. CASE EmbedQuery(c)
  <2> DEFINE k == [call[c] EXCEPT !.step = "read"]
  <2>1. k \in CallRecords /\ k.step = "read" /\ k.nr = call[c].nr
    BY <1>0 DEF CallRecords
  <2>2. CallIsBound(k)
    BY <1>0, <1>3 DEF EmbedQuery, CallIsBound, CallRecords
  <2> QED BY <1>3, <2>1, <2>2, CallGoesOn DEF EmbedQuery
<1>4. CASE ReadRows(c)
  <2> DEFINE rows0 == RowsOf(call[c].tenant, call[c].repo)
             g == [call[c] EXCEPT !.data = rows0, !.step = "audit", !.outcome = "success"]
             h == [call[c] EXCEPT !.data = rows0, !.step = "cite"]
  <2>1. /\ g \in CallRecords /\ g.step = "audit" /\ g.nr = call[c].nr
        /\ h \in CallRecords /\ h.step = "cite" /\ h.nr = call[c].nr
    BY <1>0 DEF CallRecords, RowsOf
  <2>2. CallIsBound(g) /\ CallIsBound(h)
    BY <1>0, <1>4 DEF ReadRows, CallIsBound, CallRecords, RowsOf
  <2>3. call' = [call EXCEPT ![c] = g] \/ call' = [call EXCEPT ![c] = h]
    BY <1>0, <1>4 DEF ReadRows, CallRecords
  <2> QED BY <1>4, <2>1, <2>2, <2>3, CallGoesOn DEF ReadRows
<1>5. CASE FetchCommitShas(c)
  <2> DEFINE k == [call[c] EXCEPT !.step = "audit", !.outcome = "success"]
  <2>1. k \in CallRecords /\ k.step = "audit" /\ k.nr = call[c].nr
    BY <1>0 DEF CallRecords
  <2>2. CallIsBound(k)
    BY <1>0, <1>5 DEF FetchCommitShas, CallIsBound, CallRecords
  <2> QED BY <1>5, <2>1, <2>2, CallGoesOn DEF FetchCommitShas
<1> QED BY <1>1, <1>2, <1>3, <1>4, <1>5

\* The one row of a call, or its loss.
LEMMA AuditStep == ASSUME McpInv, NEW c \in Clients, WriteToolCallAudit(c) PROVE McpInv'
<1> DEFINE k == [call[c] EXCEPT !.step = "answer"]
<1>0. call[c] \in CallRecords /\ call[c].step = "audit" /\ CallIsBound(call[c])
    BY DEF McpInv, CallsBound, McpTypeOK, WriteToolCallAudit, Step
<1>1. /\ k \in CallRecords /\ k.step = "answer" /\ k.nr = call[c].nr /\ AuditRow(k) = AuditRow(call[c])
      /\ AuditRow(k).nr = k.nr
    BY <1>0 DEF CallRecords, AuditRow
<1>2. CallIsBound(k)
    BY <1>0 DEF CallIsBound, CallRecords
<1>3. /\ call' = [call EXCEPT ![c] = k] /\ UNCHANGED <<mcpSessions, known, archived, answers, used>>
      /\ \/ mcpTrail' = mcpTrail \cup {AuditRow(k)} /\ lostRows' = lostRows
         \/ mcpTrail' = mcpTrail /\ lostRows' = lostRows \cup {k.nr}
    BY <1>1 DEF WriteToolCallAudit, Step
<1> HIDE DEF k
<1>4. call'[c] = k /\ \A d \in Clients : d # c => call'[d] = call[d]
    BY <1>3 DEF McpInv, McpTypeOK
<1>5. McpTypeOK' /\ IdsAreUnique'
    BY <1>1, <1>3 DEF McpInv, McpTypeOK, IdsAreUnique
<1>6. CallsBound'
    BY <1>2, <1>3, <1>4 DEF McpInv, CallsBound, CallIsBound
<1>7. CallNumbers'
  <2>1. \A x \in mcpTrail' : x \in mcpTrail \/ (x = AuditRow(k) /\ x.nr = k.nr)
    BY <1>1, <1>3
  <2>2. \A d \in Clients : d # c /\ call[d].step # "idle" => call[d].nr # k.nr
    BY <1>0, <1>1 DEF McpInv, CallNumbers
  <2>3. k.nr \in 1..used.calls
    BY <1>2 DEF CallIsBound
  <2>4. /\ \A a, b \in Clients : call'[a].step # "idle" /\ call'[b].step # "idle" /\ call'[a].nr = call'[b].nr => a = b
        /\ \A x \in mcpTrail' : x.nr \in 1..used'.calls
    BY <1>3, <1>4, <2>1, <2>2, <2>3 DEF McpInv, CallNumbers
  <2>5. \A d \in Clients : call'[d].step \notin {"idle", "answer"} => \A x \in mcpTrail' : x.nr # call'[d].nr
    BY <1>1, <1>4, <2>1, <2>2 DEF McpInv, CallNumbers
  <2>6. \A d \in Clients : call'[d].step = "answer" => call'[d].nr \in lostRows' \/ AuditRow(call'[d]) \in mcpTrail'
    BY <1>3, <1>4 DEF McpInv, CallNumbers
  <2>7. \A d \in Clients : AuditRow(call[d])' = AuditRow(call'[d])
    BY DEF AuditRow
  <2> QED BY <2>4, <2>5, <2>6, <2>7 DEF CallNumbers, AuditRow
<1>8. McpTenantsApart'
    BY <1>3 DEF McpInv, McpTenantsApart
<1>9. McpCallsAudited'
  <2>1. \A x \in mcpTrail : x.nr # k.nr
    BY <1>0, <1>1 DEF McpInv, CallNumbers
  <2> QED BY <1>1, <1>3, <2>1 DEF McpInv, McpCallsAudited
<1> QED BY <1>5, <1>6, <1>7, <1>8, <1>9 DEF McpInv

LEMMA AnswerStep == ASSUME McpInv, NEW c \in Clients, Answer(c) PROVE McpInv'
<1> DEFINE k == call[c]
           a == [nr |-> k.nr, cred |-> k.cred, tenant |-> k.tenant, tool |-> k.tool, repo |-> k.repo, gone |-> k.gone,
                 data |-> k.data, outcome |-> k.outcome]
<1>1. /\ call' = [call EXCEPT ![c] = NoCall] /\ answers' = answers \cup {a} /\ k.step = "answer"
      /\ UNCHANGED <<mcpSessions, known, archived, mcpTrail, lostRows, used>>
    BY DEF Answer, Step
<1>2. NoCall \in CallRecords /\ NoCall.step = "idle"
    BY DEF CallRecords, NoCall, Cred
<1>3. call'[c] = NoCall /\ \A d \in Clients : d # c => call'[d] = call[d]
    BY <1>1 DEF McpInv, McpTypeOK
<1>4. McpTypeOK' /\ IdsAreUnique'
    BY <1>1, <1>2 DEF McpInv, McpTypeOK, IdsAreUnique
<1>5. CallsBound'
    BY <1>1, <1>2, <1>3 DEF McpInv, CallsBound, CallIsBound
<1>6. CallNumbers'
    BY <1>1, <1>2, <1>3 DEF McpInv, CallNumbers, AuditRow
<1>7. McpTenantsApart'
    BY <1>1 DEF McpInv, McpTenantsApart, CallsBound, CallIsBound
<1>8. McpCallsAudited'
    BY <1>1 DEF McpInv, McpCallsAudited, CallNumbers, AuditRow, ActorKind
<1> QED BY <1>4, <1>5, <1>6, <1>7, <1>8 DEF McpInv

LEMMA ArchiveStep == ASSUME McpInv, NEW r \in Repos, ArchiveRepo(r) PROVE McpInv'
<1>1. archived \subseteq archived' /\ archived' \subseteq Repos
      /\ UNCHANGED <<mcpSessions, known, call, mcpTrail, lostRows, answers, used>>
    BY DEF ArchiveRepo, McpInv, McpTypeOK
<1>2. CallsBound'
    BY <1>1 DEF McpInv, CallsBound, CallIsBound
<1> QED BY <1>1, <1>2 DEF McpInv, McpTypeOK, IdsAreUnique, CallNumbers, AuditRow, McpTenantsApart, McpCallsAudited

\* A restart forgets the sessions and the calls; their ids and numbers are not
\* given out again.
LEMMA McpRestartStep == ASSUME McpInv, McpRestart PROVE McpInv'
<1>1. /\ mcpSessions' = {} /\ call' = [c \in Clients |-> NoCall]
      /\ UNCHANGED <<known, archived, mcpTrail, lostRows, answers>>
      /\ used'.calls = used.calls /\ used' \in [calls : Nat, restarts : Nat]
    BY DEF McpRestart, McpInv, McpTypeOK
<1>2. NoCall \in CallRecords /\ NoCall.step = "idle"
    BY DEF CallRecords, NoCall, Cred
<1>3. \A c \in Clients : call'[c].step = "idle"
    BY <1>1, <1>2
<1>4. McpTypeOK' /\ IdsAreUnique'
    BY <1>1, <1>2 DEF McpInv, McpTypeOK, IdsAreUnique
<1>5. CallsBound' /\ CallNumbers'
    BY <1>1, <1>3 DEF McpInv, CallsBound, CallNumbers
<1> QED BY <1>1, <1>4, <1>5 DEF McpInv, McpTenantsApart, McpCallsAudited

LEMMA McpStep == McpInv /\ [McpNext]_mcpVars => McpInv'
<1> SUFFICES ASSUME McpInv, [McpNext]_mcpVars PROVE McpInv'
    OBVIOUS
<1>1. ASSUME NEW c \in Clients, NEW cred \in Credentials, NEW sid \in 0..Cardinality(known),
             NEW tool \in Tools \cup {"other"}, NEW repo \in Repos \cup {"-"}, HandleToolsCall(c, cred, sid, tool, repo)
      PROVE  McpInv'
  <2>1. sid \in Nat
    BY FS_CardinalityType DEF McpInv, McpTypeOK
  <2> QED BY <1>1, <2>1, ToolsCallStep
<1>2. CASE UNCHANGED mcpVars
  <2>1. CallsBound'
    BY <1>2 DEF mcpVars, McpInv, CallsBound, CallIsBound
  <2> QED BY <1>2, <2>1 DEF mcpVars, McpInv, McpTypeOK, IdsAreUnique, CallNumbers, AuditRow, McpTenantsApart, McpCallsAudited
<1> QED BY <1>1, <1>2, InitializeStep, ToolStep, AuditStep, AnswerStep, ArchiveStep, McpRestartStep DEF McpNext

\* A tool call answers with rows of its credential's tenant only, for any clients, sessions
\* and calls, and its one row in the trail says what the client saw, unless it was lost.
THEOREM McpIsOwn == McpSpec => []McpCallsOwnData
<1>1. McpInv => McpCallsOwnData
    BY DEF McpInv, McpCallsOwnData
<1> QED BY <1>1, McpInitially, McpStep, PTL DEF McpSpec
=============================================================================
