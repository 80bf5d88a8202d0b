------------------------ MODULE AgentExecutionProofs ------------------------
(***************************************************************************)
(* control-api, the topic and agent-runner together, for any sessions,     *)
(* processes, caps and bounds: a session that has ended keeps no process,  *)
(* and the process of a live one has a valid key.                          *)
(*                                                                         *)
(* Both follow from where the session's one Start is.  While it is still   *)
(* ahead of the consumer (Fresh) nothing of the session exists outside     *)
(* control-api; once it has been taken (and is not read again after a      *)
(* crash) it never comes back, so that a session that has left the         *)
(* runner's hands (Over) stays out of them; and only such a session can    *)
(* have a callback under way that ends it or takes its key.                *)
(***************************************************************************)
EXTENDS AgentExecution, SequenceTheorems, TLAPS

Early == {"idle", "admitted", "reserved", "inserted"}

\* The session's Start is ahead of the consumer, in the topic or not yet there.
StartAhead(s) == \E i \in 1..Len(log) : i > next /\ log[i] = Command("start", s)
Fresh(s) == create[s] \in Early \/ StartAhead(s)

Beginning(s) == cmd.session = s /\ cmd.pc \in {"start", "spawn", "running", "insert"}

\* The runner has nothing of the session any more, and will have nothing again.
Over(s) == ~Fresh(s) /\ handle[s] = None /\ ~Beginning(s)

\* What control-api's handlers of one session can be doing, given its row.
HandlerShape ==
    \A s \in Sessions :
        /\ create[s] \in {"idle", "admitted", "reserved"} => row[s] = "none"
        /\ row[s] = "none" => delete[s] = "idle"
        /\ row[s] \in {"none"} \cup C!LIVE_STATUSES => patch[s] = "idle"
        /\ delete[s] = "cancelled" => row[s] \in {"cancelled", "deleted"}
        /\ create[s] = "unrowed" => s \in overdrawn \/ row[s] = "deleted"

\* Whose process the consumer and the watchers are at work on.
RunnerShape ==
    /\ cmd.pc = "idle" => cmd.session = None
    /\ cmd.pc # "idle" => cmd.session \in Sessions
    /\ cmd.pc \in {"running", "insert", "kill", "revoke"} => cmd.proc \in Procs
    /\ cmd.pc = "running" => proc[cmd.proc] # "unused" /\ sess[cmd.proc] = cmd.session
    /\ \A p \in Procs : /\ proc[p] = "unused" => waiter[p] = "none"
                        /\ waiter[p] \in {"spawned", "waiting", "revoking"} => sess[p] \in Sessions

\* create_session publishes a session's Start once, and only at its end.
OneStart ==
    /\ \A i, j \in 1..Len(log) : log[i] = log[j] /\ log[i].op = "start" => i = j
    /\ \A s \in Sessions : create[s] \in Early =>
           \A i \in 1..Len(log) : log[i] # Command("start", s)

\* The session is known to control-api alone.
Untouched(s) ==
    /\ handle[s] = None
    /\ cmd.session # s
    /\ \A c \in calls : c.session # s
    /\ \A p \in Procs : waiter[p] = "revoking" => sess[p] # s
    /\ row[s] \in {"none", "pending", "cancelled", "deleted"}
    /\ delete[s] # "terminate"
    /\ \A i \in 1..Len(log) : log[i] # Command("terminate", s)

\* Nothing is under way that ends the session or takes its key, nor has it ended.
Unharmed(s) ==
    /\ \A c \in calls : c.session = s => c.request = "running"
    /\ \A p \in Procs : waiter[p] = "revoking" => sess[p] # s
    /\ cmd.session = s => cmd.pc \notin {"kill", "revoke", "fail"}
    /\ row[s] \notin {"terminated", "failed"}
    /\ row[s] \in C!LIVE_STATUSES => key[s] = "live" \/ s \in overdrawn

SessionInv(s) ==
    /\ Fresh(s) => Untouched(s)
    /\ Beginning(s) => handle[s] = None
    /\ ~Over(s) => Unharmed(s)

ExecutionInv ==
    /\ TypeOK
    /\ HandlerShape
    /\ RunnerShape
    /\ OneStart
    /\ \A s \in Sessions \ reread : SessionInv(s)

-----------------------------------------------------------------------------
(* The topic. *)

LEMMA LogAppends ==
    ASSUME NEW S, log \in Seq(S), NEW c \in S, log' = Append(log, c)
    PROVE  /\ log' \in Seq(S)
           /\ Len(log) \in Nat /\ Len(log') = Len(log) + 1
           /\ \A i \in 1..Len(log) : log'[i] = log[i]
           /\ log'[Len(log) + 1] = c
BY AppendProperties

\* CommitOffset: what was taken leaves the topic, what was not is renumbered.
LEMMA LogCut ==
    ASSUME NEW S, log \in Seq(S), next \in 0..Len(log),
           log' = SubSeq(log, next + 1, Len(log))
    PROVE  /\ log' \in Seq(S)
           /\ Len(log) \in Nat /\ Len(log') = Len(log) - next
           /\ \A i \in 1..Len(log') : i + next \in 1..Len(log) /\ log'[i] = log[i + next]
<1>1. Len(log) \in Nat /\ \A i \in 1..Len(log) : log[i] \in S
  BY ElementOfSeq, LenProperties
<1>2. log' = [i \in 1..(Len(log) - next) |-> log[next + i]]
  BY <1>1
<1>3. log' \in Seq(S) /\ Len(log') = Len(log) - next
  BY <1>1, <1>2
<1> QED
  BY <1>1, <1>2, <1>3

-----------------------------------------------------------------------------
(* control-api.  What any of its steps does to the state of a session that   *)
(* the invariant speaks of.                                                  *)

ControlEffect ==
    /\ overdrawn \subseteq overdrawn'
    /\ \A s \in Sessions :
        /\ create'[s] \in Early => create[s] \in Early
        /\ row'[s] \in {row[s], "pending", "cancelled", "deleted"}
        /\ delete'[s] = "terminate" =>
               delete[s] = "terminate" \/ row[s] \in {"running", "terminating"}
        /\ row'[s] \in C!LIVE_STATUSES =>
               \/ key'[s] = "live" \/ s \in overdrawn'
               \/ row[s] \in C!LIVE_STATUSES /\ key'[s] = key[s]

\* A step of control-api with that effect, which may append to the topic: a Start
\* that was ahead of the consumer, a Terminate of a session whose Start is not.
LEMMA ControlKeeps ==
    ASSUME ExecutionInv, (C!TypeOK)', HandlerShape', ControlEffect, OneStart',
           log' \in Seq(Commands), Len(log') <= MaxLog, next' = next, Len(log) <= Len(log'),
           UNCHANGED <<runner, reread>>, faults' \in 0..MaxFaults,
           \A s \in Sessions \ reread : Fresh(s)' =>
               /\ Fresh(s)
               /\ \A i \in 1..Len(log') : log'[i] # Command("terminate", s)
    PROVE  ExecutionInv'
<1> USE DEF ExecutionInv, runner, ControlEffect
<1>1. TypeOK'
  <2>1. (R!RunnerTypeOK)'
    BY DEF TypeOK, R!RunnerTypeOK, R!CommandPCs, R!WaiterPCs, R!Requests
  <2>2. Len(log) \in Nat /\ Len(log') \in Nat
    BY LenProperties DEF TypeOK
  <2>3. next' \in 0..Len(log')
    BY <2>2 DEF TypeOK
  <2> QED
    BY <2>1, <2>3 DEF TypeOK, Commands
<1>2. RunnerShape'
  BY DEF RunnerShape
<1>3. ASSUME NEW s \in Sessions, s \notin reread' PROVE SessionInv(s)'
  <2>1. Fresh(s)' => /\ Fresh(s)
                     /\ \A i \in 1..Len(log') : log'[i] # Command("terminate", s)
    BY <1>3
  <2>2. Beginning(s)' <=> Beginning(s)
    BY DEF Beginning
  <2>3. ~Over(s)' => ~Over(s)
    BY <2>1, <2>2 DEF Over
  <2>4. SessionInv(s)
    BY <1>3
  <2>5. Untouched(s) /\ Fresh(s)' => Untouched(s)'
    BY <2>1 DEF Untouched
  <2>6. Unharmed(s) => Unharmed(s)'
    BY DEF Unharmed
  <2> QED
    BY <2>1, <2>2, <2>3, <2>4, <2>5, <2>6 DEF SessionInv
<1> QED
  BY <1>1, <1>2, <1>3

\* Without a message.
LEMMA ControlAlone ==
    ASSUME ExecutionInv, (C!TypeOK)', HandlerShape', ControlEffect,
           UNCHANGED <<runner, topic, reread>>, faults' \in 0..MaxFaults
    PROVE  ExecutionInv'
<1> USE DEF topic
<1>1. OneStart'
  BY DEF OneStart, ExecutionInv, ControlEffect
<1>2. \A s \in Sessions : Fresh(s)' => Fresh(s)
  BY DEF Fresh, StartAhead, ControlEffect
<1>3. \A s \in Sessions \ reread : Fresh(s) =>
          \A i \in 1..Len(log') : log'[i] # Command("terminate", s)
  BY DEF ExecutionInv, SessionInv, Untouched
<1>4. log' \in Seq(Commands) /\ Len(log') <= MaxLog /\ Len(log) <= Len(log')
  BY LenProperties DEF ExecutionInv, TypeOK
<1> QED
  BY <1>1, <1>2, <1>3, <1>4, ControlKeeps

\* The Start is published, or may have been: create_session will not do it again.
LEMMA ControlStarts ==
    ASSUME ExecutionInv, (C!TypeOK)', HandlerShape', ControlEffect,
           NEW s \in Sessions, create[s] \in Early, create'[s] \notin Early, Append1("start", s),
           UNCHANGED <<runner, faults, reread>>
    PROVE  ExecutionInv'
<1> DEFINE n == Len(log)
           e == Command("start", s)
<1>1. /\ log' \in Seq(Commands) /\ n \in Nat /\ Len(log') = n + 1
      /\ \A i \in 1..n : log'[i] = log[i]
      /\ log'[n + 1] = e
      /\ next' = next /\ next \in 0..n /\ n < MaxLog
  <2>1. e \in Commands
    BY DEF Commands, Command
  <2> QED
    BY <2>1, LogAppends DEF ExecutionInv, TypeOK, Append1
<1> HIDE DEF n
<1>2. \A i \in 1..Len(log') : i \in 1..n \/ i = n + 1
  BY <1>1
<1>3. \A i \in 1..n : log'[i] # e /\ log[i] # e
  BY <1>1 DEF ExecutionInv, OneStart, n
<1>4. OneStart'
  <2>1. \A i, j \in 1..Len(log') : log'[i] = log'[j] /\ log'[i].op = "start" => i = j
    BY <1>1, <1>2, <1>3 DEF ExecutionInv, OneStart, n
  <2>2. \A r \in Sessions : create'[r] \in Early =>
            \A i \in 1..Len(log') : log'[i] # Command("start", r)
    BY <1>1, <1>2 DEF ExecutionInv, OneStart, ControlEffect, Command, n
  <2> QED
    BY <2>1, <2>2 DEF OneStart
<1>5. ASSUME NEW r \in Sessions \ reread, Fresh(r)'
      PROVE  Fresh(r) /\ \A i \in 1..Len(log') : log'[i] # Command("terminate", r)
  <2>1. Fresh(r)
    BY <1>1, <1>2, <1>5 DEF Fresh, StartAhead, ControlEffect, Command, n
  <2>2. Untouched(r)
    BY <1>5, <2>1 DEF ExecutionInv, SessionInv
  <2> QED
    BY <1>1, <1>2, <2>1, <2>2 DEF Untouched, Command, n
<1>6. faults' \in 0..MaxFaults /\ Len(log') <= MaxLog /\ Len(log) <= Len(log')
  BY <1>1, ExecutionAssumption DEF ExecutionInv, TypeOK, n
<1> QED
  BY <1>1, <1>4, <1>5, <1>6, ControlKeeps

\* delete_session publishes a Terminate only of a session that has run.
LEMMA ControlTerminates ==
    ASSUME ExecutionInv, (C!TypeOK)', HandlerShape', ControlEffect,
           NEW s \in Sessions, delete[s] = "terminate", Append1("terminate", s),
           UNCHANGED <<runner, faults, reread>>
    PROVE  ExecutionInv'
<1> DEFINE n == Len(log)
           e == Command("terminate", s)
<1>1. /\ log' \in Seq(Commands) /\ n \in Nat /\ Len(log') = n + 1
      /\ \A i \in 1..n : log'[i] = log[i]
      /\ log'[n + 1] = e
      /\ next' = next /\ next \in 0..n /\ n < MaxLog
  <2>1. e \in Commands
    BY DEF Commands, Command
  <2> QED
    BY <2>1, LogAppends DEF ExecutionInv, TypeOK, Append1
<1> HIDE DEF n
<1>2. \A i \in 1..Len(log') : i \in 1..n \/ i = n + 1
  BY <1>1
<1>4. OneStart'
  <2>1. \A i, j \in 1..Len(log') : log'[i] = log'[j] /\ log'[i].op = "start" => i = j
    BY <1>1, <1>2 DEF ExecutionInv, OneStart, Command, n
  <2>2. \A r \in Sessions : create'[r] \in Early =>
            \A i \in 1..Len(log') : log'[i] # Command("start", r)
    BY <1>1, <1>2 DEF ExecutionInv, OneStart, ControlEffect, Command, n
  <2> QED
    BY <2>1, <2>2 DEF OneStart
<1>5. ASSUME NEW r \in Sessions \ reread, Fresh(r)'
      PROVE  Fresh(r) /\ \A i \in 1..Len(log') : log'[i] # Command("terminate", r)
  <2>1. Fresh(r)
    BY <1>1, <1>2, <1>5 DEF Fresh, StartAhead, ControlEffect, Command, n
  <2>2. Untouched(r)
    BY <1>5, <2>1 DEF ExecutionInv, SessionInv
  <2> QED
    BY <1>1, <1>2, <2>1, <2>2 DEF Untouched, Command, n
<1>6. faults' \in 0..MaxFaults /\ Len(log') <= MaxLog /\ Len(log) <= Len(log')
  BY <1>1, ExecutionAssumption DEF ExecutionInv, TypeOK, n
<1> QED
  BY <1>1, <1>4, <1>5, <1>6, ControlKeeps

ControlStep(s) ==
    \/ C!Admit(s) \/ C!RejectRuntime(s) \/ C!RejectInput(s) \/ C!RejectActive(s)
    \/ C!Reserve(s) \/ C!TxFails(s) \/ C!RegistryInsert(s)
    \/ C!PublishStart(s) \/ C!PublishFails(s) \/ C!CreateDropped(s)
    \/ \E ok \in BOOLEAN : \/ C!InsertRow(s, ok) \/ C!RollbackRow(s, ok) \/ C!RollbackKey(s, ok)
                          \/ C!PatchRelease(s, ok) \/ C!PatchEvent(s, ok) \/ C!DeleteRelease(s, ok)
    \/ C!PatchDropped(s) \/ C!DeleteRead(s) \/ C!DeleteDropped(s)
    \/ C!DeleteCancel(s) \/ C!DeleteTerminate(s)

\* Every step of control-api but the service of a callback has that effect.
LEMMA ControlSteps ==
    ASSUME C!TypeOK, HandlerShape, NEW s \in Sessions, ControlStep(s)
    PROVE  (C!TypeOK)' /\ HandlerShape' /\ ControlEffect
<1> DEFINE Good == (C!TypeOK)' /\ HandlerShape' /\ ControlEffect
<1> USE ExecutionAssumption DEF C!TypeOK, C!LIVE_STATUSES, C!TERMINAL_STATUSES, C!CreatePCs, C!PatchPCs, C!DeletePCs,
            C!rows, C!handlers, C!counters, C!RowExists, C!Decrement, C!RegistryRemove,
            C!KeysLeft, C!RevokeKey, HandlerShape, ControlEffect, Early
<1>1. CASE C!Admit(s)
  BY <1>1 DEF C!Admit
<1>2. CASE C!RejectRuntime(s)
  BY <1>2 DEF C!RejectRuntime
<1>3. CASE C!RejectInput(s)
  BY <1>3 DEF C!RejectInput
<1>4. CASE C!RejectActive(s)
  BY <1>4 DEF C!RejectActive
<1>5. CASE C!Reserve(s)
  BY <1>5 DEF C!Reserve
<1>6. CASE C!TxFails(s)
  BY <1>6 DEF C!TxFails
<1>7. CASE C!RegistryInsert(s)
  BY <1>7 DEF C!RegistryInsert
<1>8. CASE C!PublishStart(s)
  BY <1>8 DEF C!PublishStart
<1>9. CASE C!PublishFails(s)
  BY <1>9 DEF C!PublishFails
<1>10. CASE C!CreateDropped(s)
  BY <1>10 DEF C!CreateDropped
<1>11. ASSUME NEW ok \in BOOLEAN, C!InsertRow(s, ok) PROVE Good
  BY <1>11 DEF C!InsertRow
<1>12. ASSUME NEW ok \in BOOLEAN, C!RollbackRow(s, ok) PROVE Good
  BY <1>12 DEF C!RollbackRow
<1>13. ASSUME NEW ok \in BOOLEAN, C!RollbackKey(s, ok) PROVE Good
  BY <1>13 DEF C!RollbackKey
<1>14. ASSUME NEW ok \in BOOLEAN, C!PatchRelease(s, ok) PROVE Good
  BY <1>14 DEF C!PatchRelease
<1>15. ASSUME NEW ok \in BOOLEAN, C!PatchEvent(s, ok) PROVE Good
  BY <1>15 DEF C!PatchEvent
<1>16. ASSUME NEW ok \in BOOLEAN, C!DeleteRelease(s, ok) PROVE Good
  BY <1>16 DEF C!DeleteRelease
<1>17. CASE C!PatchDropped(s)
  BY <1>17 DEF C!PatchDropped
<1>18. CASE C!DeleteRead(s)
  BY <1>18 DEF C!DeleteRead
<1>19. CASE C!DeleteDropped(s)
  BY <1>19 DEF C!DeleteDropped
<1>20. CASE C!DeleteCancel(s)
  BY <1>20 DEF C!DeleteCancel
<1>21. CASE C!DeleteTerminate(s)
  BY <1>21 DEF C!DeleteTerminate
<1> HIDE DEF Good
<1> QED
  BY <1>1, <1>2, <1>3, <1>4, <1>5, <1>6, <1>7, <1>8, <1>9, <1>10, <1>11, <1>12,
     <1>13, <1>14, <1>15, <1>16, <1>17, <1>18, <1>19, <1>20, <1>21 DEF ControlStep, Good

\* After any of the three steps that may have put the Start in the topic, create_session
\* is past the publish.
LEMMA StartMoves ==
    ASSUME C!TypeOK, NEW s \in Sessions, create[s] = "inserted",
           C!PublishStart(s) \/ C!PublishFails(s) \/ C!CreateDropped(s)
    PROVE  create'[s] \in {"published", "failed", "done"}
BY DEF C!TypeOK, C!PublishStart, C!PublishFails, C!CreateDropped

LEMMA RestartStep ==
    ASSUME C!TypeOK, HandlerShape, C!Restart(TRUE)
    PROVE  (C!TypeOK)' /\ HandlerShape' /\ ControlEffect
BY ExecutionAssumption DEF C!TypeOK, C!LIVE_STATUSES, C!TERMINAL_STATUSES, C!CreatePCs, C!PatchPCs, C!DeletePCs,
            C!rows, C!handlers, C!counters, C!RowExists, C!Decrement, C!RegistryRemove,
            C!KeysLeft, C!RevokeKey, HandlerShape, ControlEffect, Early, C!Restart

-----------------------------------------------------------------------------
(* Callbacks. *)

\* A callback is served, or lost: whoever sent one that ends the session or takes
\* its key had left the session behind.
LEMMA CallLeaves ==
    ASSUME ExecutionInv, (C!TypeOK)', HandlerShape', NEW c \in calls, R!CallEnds(c),
           UNCHANGED <<topic, reread, create, delete, overdrawn>>, faults' \in 0..MaxFaults,
           \A r \in Sessions : r # c.session => row'[r] = row[r] /\ key'[r] = key[r],
           c.request = "running" =>
               /\ UNCHANGED key
               /\ row'[c.session] # row[c.session] =>
                      row[c.session] \in C!LIVE_STATUSES /\ row'[c.session] \in C!LIVE_STATUSES
    PROVE  ExecutionInv'
<1> USE DEF ExecutionInv, topic, R!CallEnds, R!procs, R!caps
<1>1. TypeOK'
  BY DEF TypeOK, R!RunnerTypeOK, R!CommandPCs, R!WaiterPCs, R!Requests, Commands
<1>2. RunnerShape'
  BY DEF RunnerShape
<1>3. OneStart'
  BY DEF OneStart
<1>4. ASSUME NEW r \in Sessions, r \notin reread' PROVE SessionInv(r)'
  <2>0. SessionInv(r)
    BY <1>4
  <2>1. Fresh(r)' <=> Fresh(r)
    BY DEF Fresh, StartAhead
  <2>2. Beginning(r)' <=> Beginning(r)
    BY DEF Beginning
  <2>3. Over(r)' <=> Over(r)
    BY <2>1, <2>2 DEF Over
  <2>4. ASSUME Fresh(r) PROVE Untouched(r)'
    <3>1. Untouched(r) /\ c.session # r
      BY <2>0, <2>4 DEF SessionInv, Untouched
    <3> QED
      BY <3>1 DEF Untouched
  <2>5. ASSUME ~Over(r) PROVE Unharmed(r)'
    <3>1. Unharmed(r)
      BY <2>0, <2>5 DEF SessionInv
    <3>2. CASE c.session # r
      BY <3>1, <3>2 DEF Unharmed
    <3>3. CASE c.session = r
      <4>1. c.request = "running"
        BY <3>1, <3>3 DEF Unharmed
      <4> QED
        BY <3>1, <3>3, <4>1 DEF Unharmed, C!LIVE_STATUSES
    <3> QED
      BY <3>2, <3>3
  <2> QED
    BY <2>0, <2>1, <2>2, <2>3, <2>4, <2>5 DEF SessionInv
<1> QED
  BY <1>1, <1>2, <1>3, <1>4

\* The status PATCH, served.
LEMMA PatchServed ==
    ASSUME C!TypeOK, HandlerShape, NEW s \in Sessions, NEW st \in {"running", "terminated", "failed"},
           C!PatchUpdate(s, st)
    PROVE  /\ (C!TypeOK)' /\ HandlerShape'
           /\ UNCHANGED <<create, delete, overdrawn, key>>
           /\ \A r \in Sessions : r # s => row'[r] = row[r]
           /\ row[s] \in C!LIVE_STATUSES /\ row'[s] = st
BY DEF C!TypeOK, C!LIVE_STATUSES, C!TERMINAL_STATUSES, C!CreatePCs, C!PatchPCs, C!DeletePCs,
       C!counters, C!RowExists, HandlerShape, C!PatchUpdate

\* The revocation of the key, served.
LEMMA RevokeServed ==
    ASSUME C!TypeOK, HandlerShape, NEW s \in Sessions, C!DeleteApiKey(s)
    PROVE  /\ (C!TypeOK)' /\ HandlerShape'
           /\ UNCHANGED <<create, delete, overdrawn, row>>
           /\ \A r \in Sessions : r # s => key'[r] = key[r]
BY DEF C!TypeOK, C!LIVE_STATUSES, C!TERMINAL_STATUSES, C!CreatePCs, C!PatchPCs, C!DeletePCs,
       C!handlers, C!counters, C!RowExists, C!RevokeKey, C!KeysLeft, HandlerShape, C!DeleteApiKey

LEMMA ServeStep == ASSUME ExecutionInv, NEW c \in calls, Serve(c) PROVE ExecutionInv'
<1>1. /\ c \in calls /\ c.session \in Sessions /\ c.request \in R!Requests
      /\ C!TypeOK /\ HandlerShape /\ R!CallEnds(c) /\ faults' \in 0..MaxFaults
      /\ UNCHANGED <<topic, reread>>
  BY DEF ExecutionInv, TypeOK, R!RunnerTypeOK, Serve
<1>2. CASE UNCHANGED controlApi
  <2>1. (C!TypeOK)' /\ HandlerShape'
    BY <1>1, <1>2 DEF controlApi, C!TypeOK, HandlerShape
  <2> QED
    BY <1>1, <1>2, <2>1, CallLeaves DEF controlApi
<1>3. CASE c.request = "revoke" /\ C!DeleteApiKey(c.session)
  BY <1>1, <1>3, RevokeServed, CallLeaves
<1>4. CASE c.request # "revoke" /\ C!PatchUpdate(c.session, c.request)
  <2>1. c.request \in {"running", "terminated", "failed"}
    BY <1>1, <1>4 DEF R!Requests
  <2>2. c.request = "running" => row'[c.session] \in C!LIVE_STATUSES
    BY <1>1, <1>4, <2>1, PatchServed DEF C!LIVE_STATUSES
  <2> QED
    BY <1>1, <1>4, <2>1, <2>2, PatchServed, CallLeaves
<1> QED
  BY <1>2, <1>3, <1>4 DEF Serve

LEMMA LoseStep == ASSUME ExecutionInv, NEW c \in calls, Lose(c) PROVE ExecutionInv'
<1>1. (C!TypeOK)' /\ HandlerShape'
  BY DEF ExecutionInv, TypeOK, Lose, controlApi, C!TypeOK, HandlerShape
<1>2. faults' \in 0..MaxFaults
  BY ExecutionAssumption DEF ExecutionInv, TypeOK, Lose
<1> QED
  BY <1>1, <1>2, CallLeaves DEF Lose, controlApi

-----------------------------------------------------------------------------
(* agent-runner. *)

\* The steps of the consumer, the watchers and the processes that leave the topic alone.
RunnerStep ==
    \/ R!StartSession \/ R!TerminateSession \/ R!CommandFails
    \/ \E p \in Procs : R!Watch(p) \/ R!ProcessExits(p)

\* They keep the types, and whose process each of them is at work on.
LEMMA RunnerShapes ==
    ASSUME R!RunnerTypeOK, RunnerShape, RunnerStep
    PROVE  (R!RunnerTypeOK)' /\ RunnerShape'
<1> DEFINE Good == (R!RunnerTypeOK)' /\ RunnerShape'
<1> USE ExecutionAssumption DEF R!RunnerTypeOK, R!CommandPCs, R!WaiterPCs, RunnerShape, R!Goto, R!procs, R!caps
<1>1. CASE R!StartRejected
  BY <1>1 DEF R!StartRejected
<1>2. CASE R!Acquire
  BY <1>2 DEF R!Acquire
<1>3. CASE R!SpawnFails
  BY <1>3 DEF R!SpawnFails, R!Release, R!Call, R!Requests
<1>4. CASE R!SpawnWatcher
  BY <1>4 DEF R!SpawnWatcher
<1>5. CASE R!InsertHandle
  BY <1>5 DEF R!InsertHandle
<1>6. CASE R!TerminateRemove
  <2> DEFINE p == handle[cmd.session]
  <2>1. cmd.session \in Sessions /\ p \in Procs
    BY <1>6 DEF R!TerminateRemove
  <2>2. /\ handle' \in [Sessions -> Procs \cup {None}]
        /\ cmd' = [pc |-> "kill", session |-> cmd.session, proc |-> p]
    BY <1>6, <2>1 DEF R!TerminateRemove
  <2>3. waiter' \in [Procs -> R!WaiterPCs] /\ child' \in [Procs -> {"held", "watched", "dropped"}]
    BY <1>6, <2>1 DEF R!TerminateRemove
  <2>4. count' \in [Tenants -> Nat]
    BY <1>6, <2>1 DEF R!TerminateRemove, R!Release
  <2>5. UNCHANGED <<proc, sess, permits, calls, started>>
    BY <1>6 DEF R!TerminateRemove
  <2>6. (R!RunnerTypeOK)'
    BY <2>1, <2>2, <2>3, <2>4, <2>5
  <2>7. \A q \in Procs : waiter'[q] \in {waiter[q], "aborted"} /\ (waiter[q] = "none" => waiter'[q] = "none")
    BY <1>6, <2>1 DEF R!TerminateRemove
  <2>8. RunnerShape'
    BY <2>1, <2>2, <2>5, <2>7
  <2> QED
    BY <2>6, <2>8
<1>7. CASE R!TerminateUnknown
  BY <1>7 DEF R!TerminateUnknown
<1>8. CASE R!TerminateKill
  BY <1>8 DEF R!TerminateKill, R!Call, R!Requests
<1>9. CASE R!TerminateRevoke
  BY <1>9 DEF R!TerminateRevoke, R!Call, R!Requests
<1>10. CASE R!CommandFails
  BY <1>10 DEF R!CommandFails, R!Call, R!Requests
<1>11. ASSUME NEW p \in Procs, R!Spawn(p) PROVE Good
  <2>1. cmd.session \in Sessions /\ waiter[p] = "none"
    BY <1>11 DEF R!Spawn
  <2>2. /\ proc' \in [Procs -> {"unused", "alive", "exited"}]
        /\ sess' \in [Procs -> Sessions \cup {None}]
        /\ cmd' = [pc |-> "running", session |-> cmd.session, proc |-> p]
        /\ \A q \in Procs : q # p => proc'[q] = proc[q] /\ sess'[q] = sess[q]
        /\ proc'[p] = "alive" /\ sess'[p] = cmd.session
    BY <1>11, <2>1 DEF R!Spawn
  <2>3. calls' \subseteq [session : Sessions, request : R!Requests]
    BY <1>11, <2>1 DEF R!Spawn, R!Call, R!Requests
  <2>4. UNCHANGED <<handle, child, waiter, count, permits, started>>
    BY <1>11 DEF R!Spawn
  <2>5. (R!RunnerTypeOK)'
    BY <2>1, <2>2, <2>3, <2>4
  <2>6. RunnerShape'
    BY <2>1, <2>2, <2>4
  <2> QED
    BY <2>5, <2>6
<1>12. ASSUME NEW p \in Procs, R!TakeChild(p) PROVE Good
  BY <1>12 DEF R!TakeChild
<1>13. ASSUME NEW p \in Procs, R!IgnoreExit(p) PROVE Good
  BY <1>13 DEF R!IgnoreExit
<1>14. ASSUME NEW p \in Procs, R!ReportRevoke(p) PROVE Good
  BY <1>14 DEF R!ReportRevoke, R!Call, R!Requests
<1>15. ASSUME NEW p \in Procs, R!ProcessExits(p) PROVE Good
  BY <1>15 DEF R!ProcessExits
<1>16. ASSUME NEW p \in Procs, NEW status \in {"terminated", "failed"}, R!ClaimExit(p, status)
       PROVE  Good
  BY <1>16 DEF R!ClaimExit, R!Release, R!Call, R!Requests
<1> HIDE DEF Good
<1> QED
  BY <1>1, <1>2, <1>3, <1>4, <1>5, <1>6, <1>7, <1>8, <1>9, <1>10, <1>11, <1>12, <1>13, <1>14, <1>15, <1>16
     DEF Good, RunnerStep, R!StartSession, R!TerminateSession, R!Watch

\* They keep the invariant of a session, wherever its Start is.
LEMMA RunnerSessions ==
    ASSUME R!RunnerTypeOK, RunnerShape, RunnerStep, UNCHANGED <<controlApi, topic>>,
           NEW r \in Sessions, SessionInv(r)
    PROVE  SessionInv(r)'
<1>0. Fresh(r)' <=> Fresh(r)
  BY DEF Fresh, StartAhead, controlApi, topic
<1> USE <1>0, ExecutionAssumption
    DEF R!RunnerTypeOK, RunnerShape, R!Goto, R!procs, R!caps, controlApi, topic,
        SessionInv, Over, Beginning, Untouched, Unharmed
<1>1. CASE R!StartRejected
  BY <1>1 DEF R!StartRejected
<1>2. CASE R!Acquire
  BY <1>2 DEF R!Acquire
<1>3. CASE R!SpawnFails
  BY <1>3 DEF R!SpawnFails, R!Release, R!Call, R!Requests
<1>4. CASE R!SpawnWatcher
  BY <1>4 DEF R!SpawnWatcher
<1>5. CASE R!InsertHandle
  BY <1>5 DEF R!InsertHandle
<1>6. CASE R!TerminateRemove
  BY <1>6 DEF R!TerminateRemove, R!Release
<1>7. CASE R!TerminateUnknown
  BY <1>7 DEF R!TerminateUnknown
<1>8. CASE R!TerminateKill
  BY <1>8 DEF R!TerminateKill, R!Call, R!Requests
<1>9. CASE R!TerminateRevoke
  BY <1>9 DEF R!TerminateRevoke, R!Call, R!Requests
<1>10. CASE R!CommandFails
  BY <1>10 DEF R!CommandFails, R!Call, R!Requests
<1>11. ASSUME NEW p \in Procs, R!Spawn(p) PROVE SessionInv(r)'
  BY <1>11 DEF R!Spawn, R!Call, R!Requests
<1>12. ASSUME NEW p \in Procs, R!TakeChild(p) PROVE SessionInv(r)'
  BY <1>12 DEF R!TakeChild
<1>13. ASSUME NEW p \in Procs, R!IgnoreExit(p) PROVE SessionInv(r)'
  BY <1>13 DEF R!IgnoreExit
<1>14. ASSUME NEW p \in Procs, R!ReportRevoke(p) PROVE SessionInv(r)'
  BY <1>14 DEF R!ReportRevoke, R!Call, R!Requests
<1>15. ASSUME NEW p \in Procs, R!ProcessExits(p) PROVE SessionInv(r)'
  BY <1>15 DEF R!ProcessExits
<1>16. ASSUME NEW p \in Procs, NEW status \in {"terminated", "failed"}, R!ClaimExit(p, status)
       PROVE  SessionInv(r)'
  BY <1>16 DEF R!ClaimExit, R!Release, R!Call, R!Requests
<1> HIDE DEF SessionInv
<1> QED
  BY <1>1, <1>2, <1>3, <1>4, <1>5, <1>6, <1>7, <1>8, <1>9, <1>10, <1>11, <1>12, <1>13, <1>14, <1>15, <1>16
     DEF RunnerStep, R!StartSession, R!TerminateSession, R!Watch

LEMMA RunnerKeeps ==
    ASSUME ExecutionInv, RunnerStep, UNCHANGED <<controlApi, topic, faults, reread>>
    PROVE  ExecutionInv'
<1>1. (R!RunnerTypeOK)' /\ RunnerShape'
  BY RunnerShapes DEF ExecutionInv, TypeOK
<1>2. (C!TypeOK)' /\ HandlerShape' /\ OneStart'
  BY DEF ExecutionInv, TypeOK, C!TypeOK, HandlerShape, OneStart, controlApi, topic
<1>3. TypeOK'
  BY <1>1, <1>2 DEF ExecutionInv, TypeOK, topic
<1>4. \A r \in Sessions \ reread' : SessionInv(r)'
  BY RunnerSessions DEF ExecutionInv, TypeOK
<1> QED
  BY <1>1, <1>2, <1>3, <1>4 DEF ExecutionInv

\* The consumer takes a command: a Start is nowhere else then, and will not come again.
LEMMA ConsumeStep == ASSUME ExecutionInv, Consume PROVE ExecutionInv'
<1> DEFINE n == next + 1
           s == log[n].session
           op == log[n].op
<1>1. /\ n \in 1..Len(log) /\ n = next + 1 /\ next \in Nat /\ Len(log) \in Nat
      /\ log[n] \in Commands /\ s \in Sessions /\ op \in {"start", "terminate"}
      /\ log[n] = Command(op, s)
  <2>1. Len(log) \in Nat /\ next \in 0..Len(log) /\ next < Len(log)
    BY LenProperties DEF ExecutionInv, TypeOK, Consume
  <2>2. n \in 1..Len(log)
    BY <2>1
  <2>3. log[n] \in Commands
    BY <2>2, ElementOfSeq DEF ExecutionInv, TypeOK
  <2> QED
    BY <2>1, <2>2, <2>3 DEF Commands, Command
<1>2. /\ cmd.pc = "idle" /\ cmd' = [pc |-> op, session |-> s, proc |-> None]
      /\ next' = n
      /\ UNCHANGED <<controlApi, log, faults, reread, handle, proc, sess, child, waiter,
                     count, permits, calls>>
      /\ started' \in [Sessions -> 0..2]
  BY <1>1 DEF Consume, R!Deliver, R!procs, R!caps, ExecutionInv, TypeOK, R!RunnerTypeOK
<1> HIDE DEF n, s, op
<1>3. TypeOK'
  <2>1. (R!RunnerTypeOK)'
    BY <1>1, <1>2 DEF ExecutionInv, TypeOK, R!RunnerTypeOK, R!CommandPCs
  <2>2. (C!TypeOK)'
    BY <1>2 DEF ExecutionInv, TypeOK, controlApi, C!TypeOK
  <2> QED
    BY <1>1, <1>2, <2>1, <2>2 DEF ExecutionInv, TypeOK
<1>4. HandlerShape' /\ OneStart'
  BY <1>2 DEF ExecutionInv, HandlerShape, OneStart, controlApi
<1>5. RunnerShape'
  BY <1>1, <1>2 DEF ExecutionInv, RunnerShape
<1>6. ASSUME NEW r \in Sessions, r \notin reread' PROVE SessionInv(r)'
  <2>0. SessionInv(r) /\ cmd.session = None /\ r # None
    BY <1>2, <1>6, ExecutionAssumption DEF ExecutionInv, RunnerShape
  <2>1. Fresh(r)' => Fresh(r)
    BY <1>1, <1>2 DEF Fresh, StartAhead, controlApi
  <2>2. CASE r # s
    <3>1. Fresh(r) => Fresh(r)'
      <4>1. ASSUME NEW i \in 1..Len(log), i > next, log[i] = Command("start", r)
            PROVE  i > next'
        BY <1>1, <1>2, <2>2, <4>1 DEF Command
      <4> QED
        BY <1>2, <4>1 DEF Fresh, StartAhead, controlApi
    <3> QED
      BY <1>1, <1>2, <2>0, <2>1, <2>2, <3>1
         DEF SessionInv, Over, Beginning, Untouched, Unharmed, controlApi
  <2>3. CASE r = s /\ op = "start"
    <3>1. Fresh(r)
      BY <1>1, <2>3 DEF Fresh, StartAhead
    <3>2. ~Fresh(r)'
      BY <1>1, <1>2, <2>3 DEF Fresh, StartAhead, ExecutionInv, OneStart, Command, controlApi
    <3>3. Untouched(r) /\ Unharmed(r)
      BY <2>0, <3>1 DEF SessionInv, Over
    <3> QED
      BY <1>2, <2>3, <3>2, <3>3
         DEF SessionInv, Over, Beginning, Untouched, Unharmed, controlApi
  <2>4. CASE r = s /\ op = "terminate"
    <3>1. ~Fresh(r)
      BY <1>1, <2>0, <2>4 DEF SessionInv, Untouched
    <3> QED
      BY <1>2, <2>0, <2>1, <2>4, <3>1
         DEF SessionInv, Over, Beginning, Unharmed, controlApi
  <2> QED
    BY <1>1, <2>2, <2>3, <2>4
<1> QED
  BY <1>3, <1>4, <1>5, <1>6 DEF ExecutionInv

\* The commit removes what was taken.
LEMMA CommitStep == ASSUME ExecutionInv, CommitOffset \/ CommitLost PROVE ExecutionInv'
<1>1. /\ cmd.pc = "commit" /\ cmd' = R!Idle
      /\ UNCHANGED <<controlApi, reread, handle, proc, sess, child, waiter, count, permits,
                     calls, started>>
      /\ faults' \in 0..MaxFaults
  BY ExecutionAssumption
     DEF CommitOffset, CommitLost, R!Commit, R!procs, R!caps, ExecutionInv, TypeOK
<1>2. /\ log' \in Seq(Commands) /\ Len(log') <= MaxLog /\ next' \in 0..Len(log')
      /\ next \in Nat /\ next' \in Nat /\ Len(log') \in Nat
      /\ \E d \in Nat : /\ next' = next - d
                        /\ Len(log) \in Nat /\ Len(log') = Len(log) - d
                        /\ \A i \in 1..Len(log') : i + d \in 1..Len(log) /\ log'[i] = log[i + d]
  <2>0. log \in Seq(Commands) /\ Len(log) <= MaxLog /\ next \in 0..Len(log) /\ Len(log) \in Nat
    BY LenProperties DEF ExecutionInv, TypeOK
  <2>1. CASE CommitOffset
    <3>1. /\ log' \in Seq(Commands) /\ Len(log') = Len(log) - next
          /\ \A i \in 1..Len(log') : i + next \in 1..Len(log) /\ log'[i] = log[i + next]
      BY <2>0, <2>1, LogCut DEF CommitOffset
    <3>2. next' = 0 /\ next \in Nat /\ next' = next - next
      BY <2>0, <2>1 DEF CommitOffset
    <3>3. Len(log') \in Nat /\ next' \in 0..Len(log') /\ Len(log') <= MaxLog
      BY <2>0, <3>1, <3>2, ExecutionAssumption
    <3>4. \E d \in Nat : /\ next' = next - d
                        /\ Len(log) \in Nat /\ Len(log') = Len(log) - d
                        /\ \A i \in 1..Len(log') : i + d \in 1..Len(log) /\ log'[i] = log[i + d]
      <4>. next \in Nat
        BY <3>2
      <4>. WITNESS next \in Nat
      <4>. QED  BY <2>0, <3>1, <3>2
    <3> QED
      BY <2>0, <3>1, <3>2, <3>3, <3>4
  <2>2. CASE CommitLost
    <3>1. log' = log /\ next' = next /\ next' = next - 0
      BY <2>0, <2>2 DEF CommitLost, topic
    <3>2. Len(log') = Len(log) - 0 /\ \A i \in 1..Len(log') : i + 0 \in 1..Len(log) /\ log'[i] = log[i + 0]
      BY <2>0, <3>1
    <3>3. \E d \in Nat : /\ next' = next - d
                        /\ Len(log) \in Nat /\ Len(log') = Len(log) - d
                        /\ \A i \in 1..Len(log') : i + d \in 1..Len(log) /\ log'[i] = log[i + d]
      <4>. 0 \in Nat
        OBVIOUS
      <4>. WITNESS 0 \in Nat
      <4>. QED  BY <2>0, <3>1, <3>2
    <3> QED
      BY <2>0, <3>1, <3>3
  <2> QED
    BY <2>1, <2>2
<1>3. PICK d \in Nat : /\ next' = next - d
                       /\ Len(log) \in Nat /\ Len(log') = Len(log) - d
                       /\ \A i \in 1..Len(log') : i + d \in 1..Len(log) /\ log'[i] = log[i + d]
  BY <1>2
<1>4. TypeOK'
  BY <1>1, <1>2, ExecutionAssumption
     DEF ExecutionInv, TypeOK, R!RunnerTypeOK, R!CommandPCs, R!Idle, controlApi, C!TypeOK
<1>5. HandlerShape' /\ RunnerShape'
  BY <1>1 DEF ExecutionInv, HandlerShape, RunnerShape, R!Idle, controlApi
<1>6. OneStart'
  <2>1. \A i, j \in 1..Len(log') : log'[i] = log'[j] /\ log'[i].op = "start" => i = j
    <3> SUFFICES ASSUME NEW i \in 1..Len(log'), NEW j \in 1..Len(log'),
                        log'[i] = log'[j], log'[i].op = "start"
                 PROVE  i = j
      OBVIOUS
    <3>1. i + d = j + d
      BY <1>3 DEF ExecutionInv, OneStart
    <3> QED
      BY <1>3, <3>1
  <2>2. \A r \in Sessions : create'[r] \in Early =>
            \A i \in 1..Len(log') : log'[i] # Command("start", r)
    BY <1>1, <1>3 DEF ExecutionInv, OneStart, controlApi
  <2> QED
    BY <2>1, <2>2 DEF OneStart
<1>7. ASSUME NEW r \in Sessions, r \notin reread' PROVE SessionInv(r)'
  <2>1. StartAhead(r)' => StartAhead(r)
    <3> SUFFICES ASSUME NEW i \in 1..Len(log'), i > next', log'[i] = Command("start", r)
                 PROVE  StartAhead(r)
      BY DEF StartAhead
    <3>1. i + d \in 1..Len(log) /\ log[i + d] = Command("start", r)
      BY <1>3
    <3>2. i + d > next
      BY <1>2, <1>3
    <3> QED
      BY <3>1, <3>2 DEF StartAhead
  <2>2. StartAhead(r) => StartAhead(r)'
    <3>1. ASSUME NEW i \in 1..Len(log), i > next, log[i] = Command("start", r)
          PROVE  StartAhead(r)'
      <4>1. i - d \in 1..Len(log') /\ i - d > next' /\ (i - d) + d = i
        BY <1>2, <1>3, <3>1
      <4>2. log'[i - d] = log[i]
        BY <1>3, <4>1
      <4> QED
        BY <3>1, <4>1, <4>2 DEF StartAhead
    <3> QED
      BY <3>1 DEF StartAhead
  <2>3. Fresh(r)' <=> Fresh(r)
    BY <1>1, <2>1, <2>2 DEF Fresh, controlApi
  <2>4. (\A i \in 1..Len(log) : log[i] # Command("terminate", r)) =>
            \A i \in 1..Len(log') : log'[i] # Command("terminate", r)
    BY <1>3
  <2>5. SessionInv(r) /\ cmd'.session = None /\ r # None /\ ~Beginning(r)
    BY <1>1, <1>7, ExecutionAssumption DEF ExecutionInv, R!Idle, Beginning
  <2> QED
    BY <1>1, <2>3, <2>4, <2>5
       DEF SessionInv, Over, Beginning, Untouched, Unharmed, controlApi
<1> QED
  BY <1>4, <1>5, <1>6, <1>7 DEF ExecutionInv

\* After a crash, a session whose Start was taken and not committed is one of `reread`;
\* of the others the runner kept nothing.
LEMMA CrashStep == ASSUME ExecutionInv, RunnerCrash PROVE ExecutionInv'
<1>1. /\ cmd' = R!Idle /\ handle' = [s \in Sessions |-> None] /\ next' = 0
      /\ reread' = reread \cup {log[i].session : i \in {j \in 1..next : log[j].op = "start"}}
      /\ UNCHANGED <<controlApi, log, sess, calls>>
      /\ faults' \in 0..MaxFaults
  BY ExecutionAssumption DEF RunnerCrash, R!RunnerCrash, ExecutionInv, TypeOK
<1>0. /\ Len(log) \in Nat /\ next \in 0..Len(log)
      /\ \A i \in 1..Len(log) : log[i] \in Commands
  BY LenProperties, ElementOfSeq DEF ExecutionInv, TypeOK
<1>2. TypeOK'
  <2>1. (R!RunnerTypeOK)'
    BY ExecutionAssumption
       DEF RunnerCrash, R!RunnerCrash, R!Idle, ExecutionInv, TypeOK, R!RunnerTypeOK,
           R!CommandPCs, R!WaiterPCs
  <2>2. (C!TypeOK)'
    BY <1>1 DEF ExecutionInv, TypeOK, controlApi, C!TypeOK
  <2>3. reread' \subseteq Sessions
    BY <1>0, <1>1 DEF ExecutionInv, TypeOK, Commands
  <2> QED
    BY <1>0, <1>1, <2>1, <2>2, <2>3 DEF ExecutionInv, TypeOK
<1>3. HandlerShape' /\ OneStart'
  BY <1>1 DEF ExecutionInv, HandlerShape, OneStart, controlApi
<1>4. RunnerShape'
  BY DEF ExecutionInv, TypeOK, R!RunnerTypeOK, RunnerShape, RunnerCrash, R!RunnerCrash, R!Idle
<1>5. ASSUME NEW r \in Sessions, r \notin reread' PROVE SessionInv(r)'
  <2>1. SessionInv(r) /\ r # None
    BY <1>1, <1>5, ExecutionAssumption DEF ExecutionInv
  <2>2. \A i \in 1..next : log[i] # Command("start", r)
    BY <1>1, <1>5 DEF Command
  <2>3. Fresh(r)' <=> Fresh(r)
    BY <1>0, <1>1, <2>2 DEF Fresh, StartAhead, controlApi
  <2>4. \A p \in Procs : waiter'[p] # "revoking"
    BY DEF RunnerCrash, R!RunnerCrash
  <2> QED
    BY <1>1, <2>1, <2>3, <2>4
       DEF SessionInv, Over, Beginning, Untouched, Unharmed, R!Idle, controlApi
<1> QED
  BY <1>2, <1>3, <1>4, <1>5 DEF ExecutionInv

-----------------------------------------------------------------------------
(* The two services together. *)

LEMMA ExecutionInit == Init => ExecutionInv
<1> SUFFICES ASSUME Init PROVE ExecutionInv
  OBVIOUS
<1> USE ExecutionAssumption DEF Init, C!Init, R!RunnerInit, R!Idle
<1>1. C!TypeOK
  BY DEF C!TypeOK, C!CreatePCs, C!PatchPCs, C!DeletePCs
<1>2. R!RunnerTypeOK
  BY DEF R!RunnerTypeOK, R!CommandPCs, R!WaiterPCs
<1>3. log \in Seq(Commands) /\ Len(log) = 0
  BY EmptySeq
<1>4. TypeOK
  BY <1>1, <1>2, <1>3 DEF TypeOK
<1>5. HandlerShape
  BY DEF HandlerShape, C!LIVE_STATUSES
<1>6. RunnerShape
  BY DEF RunnerShape
<1>7. OneStart
  BY <1>3 DEF OneStart
<1>8. ASSUME NEW s \in Sessions PROVE SessionInv(s)
  BY <1>3 DEF SessionInv, Fresh, Beginning, Early, Untouched, Unharmed, C!LIVE_STATUSES
<1> QED
  BY <1>4, <1>5, <1>6, <1>7, <1>8 DEF ExecutionInv

LEMMA ExecutionStep == ExecutionInv /\ [Next]_vars => ExecutionInv'
<1> SUFFICES ASSUME ExecutionInv, [Next]_vars PROVE ExecutionInv'
  OBVIOUS
<1>0. C!TypeOK /\ HandlerShape /\ faults \in 0..MaxFaults
  BY DEF ExecutionInv, TypeOK
<1>1. ASSUME NEW s \in Sessions, ControlApiAlone(s) \/ Cancel(s) \/ TerminateNotPublished(s)
      PROVE  ExecutionInv'
  <2>1. ControlStep(s) /\ UNCHANGED <<runner, topic, faults, reread>>
    BY <1>1, KeyOutcomesAssumption DEF ControlApiAlone, Cancel, TerminateNotPublished, ControlStep
  <2> QED
    BY <1>0, <2>1, ControlSteps, ControlAlone
<1>2. ASSUME NEW s \in Sessions, PublishStart(s) PROVE ExecutionInv'
  <2>1. ControlStep(s) /\ UNCHANGED <<runner, faults, reread>>
    BY <1>2 DEF PublishStart, ControlStep
  <2>2. (C!TypeOK)' /\ HandlerShape' /\ ControlEffect
    BY <1>0, <2>1, ControlSteps
  <2>3. \/ UNCHANGED topic
        \/ /\ create[s] = "inserted" /\ Append1("start", s)
           /\ C!PublishStart(s) \/ C!PublishFails(s) \/ C!CreateDropped(s)
    BY <1>2 DEF PublishStart, C!PublishStart
  <2>4. CASE UNCHANGED topic
    BY <1>0, <2>1, <2>2, <2>4, ControlAlone
  <2>5. CASE create[s] = "inserted" /\ Append1("start", s) /\ ~UNCHANGED topic
    <3>1. create'[s] \in {"published", "failed", "done"}
      BY <1>0, <2>3, <2>5, StartMoves
    <3> QED
      BY <2>1, <2>2, <2>5, <3>1, ControlStarts DEF Early
  <2> QED
    BY <2>3, <2>4, <2>5
<1>3. ASSUME NEW s \in Sessions, PublishTerminate(s) PROVE ExecutionInv'
  <2>1. ControlStep(s) /\ UNCHANGED <<runner, faults, reread>> /\ Append1("terminate", s)
    BY <1>3 DEF PublishTerminate, ControlStep
  <2>2. delete[s] = "terminate"
    BY <1>3 DEF PublishTerminate, C!DeleteTerminate
  <2> QED
    BY <1>0, <2>1, <2>2, ControlSteps, ControlTerminates
<1>4. CASE ControlApiRestart
  BY <1>0, <1>4, RestartStep, ControlAlone, ExecutionAssumption DEF ControlApiRestart
<1>5. CASE Consume
  BY <1>5, ConsumeStep
<1>6. CASE CommitOffset \/ CommitLost
  BY <1>6, CommitStep
<1>7. CASE RunnerAlone
  BY <1>7, RunnerKeeps DEF RunnerAlone, RunnerStep
<1>8. CASE RunnerCrash
  BY <1>8, CrashStep
<1>9. ASSUME NEW p \in Procs, ProcessExits(p) PROVE ExecutionInv'
  BY <1>9, RunnerKeeps DEF ProcessExits, RunnerStep
<1>10. ASSUME NEW c \in calls, Serve(c) \/ Lose(c) PROVE ExecutionInv'
  BY <1>10, ServeStep, LoseStep
<1>11. CASE UNCHANGED vars
  <2>1. UNCHANGED <<controlApi, runner, topic, faults, reread>>
    BY <1>11 DEF vars
  <2>2. (C!TypeOK)' /\ HandlerShape' /\ ControlEffect
    BY <1>0, <2>1 DEF controlApi, C!TypeOK, HandlerShape, ControlEffect
  <2> QED
    BY <1>0, <2>1, <2>2, ControlAlone
<1> QED
  BY <1>1, <1>2, <1>3, <1>4, <1>5, <1>6, <1>7, <1>8, <1>9, <1>10, <1>11 DEF Next

LEMMA ExecutionAlways == Spec => []ExecutionInv
  BY ExecutionInit, ExecutionStep, PTL DEF Spec

\* Once a session has terminated or failed, the runner keeps no process for it, whatever
\* was published, retried, lost or crashed in between, unless its Start was read again.
THEOREM EndsWithItsProcess == Spec => []EndedSessionHasNoProcess
<1>1. ExecutionInv => EndedSessionHasNoProcess
  BY DEF ExecutionInv, TypeOK, SessionInv, Over, Unharmed, EndedSessionHasNoProcess
<1> QED
  BY <1>1, ExecutionAlways, PTL

\* No revocation of an earlier or failed attempt overtakes a running session: its process
\* keeps a valid key as long as the session is live.
THEOREM RunsWithItsKey == Spec => []RunningSessionHasKey
<1>1. ExecutionInv => RunningSessionHasKey
  BY DEF ExecutionInv, SessionInv, Over, Unharmed, RunningSessionHasKey
<1> QED
  BY <1>1, ExecutionAlways, PTL
=============================================================================
