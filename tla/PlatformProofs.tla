--------------------------- MODULE PlatformProofs ---------------------------
(* Proofs about the parts of MCPlatform, each a specification of its own, for *)
(* any values of their constants: the counters, the token cache, the          *)
(* migrations, blob stores, accounts, rate limits, GitHub installations and   *)
(* the GitHub App.                                                            *)
EXTENDS MCPlatform, SequenceTheorems, FiniteSetTheorems, TLAPS

----------------------------------------------------------------------------
(* Counters *)
\* Types, the bound that keeps an entry apart from Gone, and no more rewrites
\* at once than threads.
CountInv ==
    /\ live \in Nat /\ ended \in Nat /\ live + ended <= MaxLive
    /\ entry \in Nat /\ cleaning \subseteq Threads
    /\ CountExact

BudgetInv ==
    /\ spent \in Nat /\ rewrites \in 0..Cardinality(Threads)
    /\ BudgetBounded

LEMMA ThreadsAreCounted == Cardinality(Threads) \in Nat
BY CountersAssumption, FS_CardinalityType

LEMMA CountInitially == CntInit => CountInv
BY CountersAssumption DEF CntInit, CountInv, CountExact, Gone

LEMMA CountStep == CountInv /\ [CntNext]_cntVars => CountInv'
<1> SUFFICES ASSUME CountInv, [CntNext]_cntVars PROVE CountInv'
    OBVIOUS
<1> USE CountersAssumption DEF CountInv, CountExact, Gone
<1>1. CASE TryIncrement
    BY <1>1 DEF TryIncrement
<1>2. ASSUME NEW t \in Threads, Decrement(t) PROVE CountInv'
    <2>1. entry \notin {0, Gone}
        BY <1>2 DEF Decrement
    <2>2. entry' = entry - 1 /\ live' = live - 1 /\ ended' = ended + 1
        BY <1>2, <2>1 DEF Decrement
    <2>3. cleaning' \subseteq Threads
        BY <1>2, <2>1 DEF Decrement
    <2> QED BY <2>1, <2>2, <2>3
<1>3. ASSUME NEW t \in Threads, RemoveIfZero(t) PROVE CountInv'
    BY <1>3 DEF RemoveIfZero
<1>4. CASE BeginRewrite \/ AddTokens \/ UNCHANGED cntVars
    BY <1>4 DEF BeginRewrite, AddTokens, countVars, cntVars
<1> QED BY <1>1, <1>2, <1>3, <1>4 DEF CntNext

LEMMA BudgetInitially == CntInit => BudgetInv
<1> SUFFICES ASSUME CntInit PROVE BudgetInv
    OBVIOUS
<1>1. spent = 0 /\ rewrites = 0
    BY DEF CntInit
<1>2. Cardinality(Threads) * MAX_COST \in Nat
    BY ThreadsAreCounted, CountersAssumption
<1> QED BY <1>1, <1>2, ThreadsAreCounted, CountersAssumption DEF BudgetInv, BudgetBounded

\* One rewrite more is paid for by one thread more.
LEMMA OneMore ==
    ASSUME NEW m \in Nat, NEW n \in Nat, m < n PROVE (m + 1) * MAX_COST <= n * MAX_COST
<1>1. PICK d \in Nat : n = (m + 1) + d
    <2>1. n - (m + 1) \in Nat
        OBVIOUS
    <2> QED BY <2>1
<1>2. n * MAX_COST = (m + 1) * MAX_COST + d * MAX_COST
    BY <1>1, CountersAssumption
<1>3. d * MAX_COST \in Nat /\ (m + 1) * MAX_COST \in Nat
    BY CountersAssumption
<1> QED BY <1>2, <1>3

LEMMA BudgetStep == BudgetInv /\ [CntNext]_cntVars => BudgetInv'
<1> SUFFICES ASSUME BudgetInv, [CntNext]_cntVars PROVE BudgetInv'
    OBVIOUS
<1> USE CountersAssumption, ThreadsAreCounted
<1>1. CASE BeginRewrite
    <2>1. spent' = spent /\ rewrites' = rewrites + 1 /\ rewrites < Cardinality(Threads) /\ spent < BUDGET
        BY <1>1 DEF BeginRewrite, LlmBudgetAllows
    <2>2. (rewrites + 1) * MAX_COST <= Cardinality(Threads) * MAX_COST
        BY <2>1, OneMore DEF BudgetInv
    <2>3. (rewrites + 1) * MAX_COST \in Nat /\ Cardinality(Threads) * MAX_COST \in Nat
        BY DEF BudgetInv
    <2> QED BY <2>1, <2>2, <2>3 DEF BudgetInv, BudgetBounded
<1>2. CASE AddTokens
    <2>1. rewrites > 0 /\ rewrites' = rewrites - 1
        BY <1>2 DEF AddTokens
    <2>2. PICK n \in 0..MAX_COST : spent' = spent + n
        BY <1>2 DEF AddTokens
    <2>3. rewrites * MAX_COST = (rewrites - 1) * MAX_COST + MAX_COST
        BY <2>1 DEF BudgetInv
    <2>4. (rewrites - 1) * MAX_COST \in Nat /\ Cardinality(Threads) * MAX_COST \in Nat
        BY <2>1 DEF BudgetInv
    <2> QED BY <2>1, <2>2, <2>3, <2>4 DEF BudgetInv, BudgetBounded
<1>3. CASE UNCHANGED spendVars
    BY <1>3 DEF spendVars, BudgetInv, BudgetBounded
<1>4. CASE UNCHANGED cntVars
    BY <1>4 DEF cntVars, BudgetInv, BudgetBounded
<1>5. TryIncrement => UNCHANGED spendVars
    BY DEF TryIncrement
<1>6. ASSUME NEW t \in Threads PROVE Decrement(t) \/ RemoveIfZero(t) => UNCHANGED spendVars
    BY DEF Decrement, RemoveIfZero, spendVars
<1> QED BY <1>1, <1>2, <1>3, <1>4, <1>5, <1>6 DEF CntNext

(* TenantSessionCount is the number of live sessions and the budget of the   *)
(* rewrites is overspent by no more than one rewrite per thread, for any      *)
(* ceilings, costs and threads (state.rs).                                   *)
THEOREM CountsAreExact == CntSpec => []CountsHold
<1>1. CountInv /\ BudgetInv => CountsHold
    BY DEF CountInv, BudgetInv, CountsHold
<1> QED BY <1>1, CountInitially, CountStep, BudgetInitially, BudgetStep, PTL DEF CntSpec

----------------------------------------------------------------------------
(* TokenCache *)
TokTypeOK ==
    /\ cached \in 0..NoToken
    /\ want \in [Callers -> {"idle", "queued", "minting", "using"}]
    /\ left \in [Callers -> 0..LIFE]
    /\ age \in [Callers -> Nat]

\* What is left of a token and the time it has been held outweigh the margin
\* together: a tick moves one to the other.
HeldWithinMargin ==
    \A c \in Callers : want[c] = "using" => left[c] + age[c] > SAFETY_MARGIN /\ age[c] <= SAFETY_MARGIN
\* Who mints holds the mutex, and found no fresh token when it took it.
MinterHoldsMutex == \A c \in Callers : want[c] = "minting" => mutex = c

TokInv == TokTypeOK /\ HeldWithinMargin /\ MinterHoldsMutex /\ ~needless

LEMMA TokInitially == TokInit => TokInv
BY TokenCacheAssumption DEF TokInit, TokInv, TokTypeOK, HeldWithinMargin, MinterHoldsMutex, NoToken

LEMMA TokStep == TokInv /\ [TokNext]_tokVars => TokInv'
<1> SUFFICES ASSUME TokInv, [TokNext]_tokVars PROVE TokInv'
    OBVIOUS
<1> USE TokenCacheAssumption DEF TokInv, TokTypeOK, HeldWithinMargin, MinterHoldsMutex, NoToken
<1>1. ASSUME NEW c \in Callers, GetOrMint(c) PROVE TokInv'
    <2>1. CASE ReadFresh
        BY <1>1, <2>1 DEF GetOrMint, ReadFresh, HandOut
    <2>2. CASE ~ReadFresh
        BY <1>1, <2>2 DEF GetOrMint
    <2> QED BY <2>1, <2>2
<1>2. ASSUME NEW c \in Callers, UnderMutex(c) PROVE TokInv'
    <2>1. CASE ReadFresh
        BY <1>2, <2>1 DEF UnderMutex, ReadFresh, HandOut
    <2>2. CASE ~ReadFresh
        <3>1. ~needless'
            BY <1>2, <2>2 DEF UnderMutex, ReadFresh
        <3>2. (MinterHoldsMutex)'
            <4>1. mutex = "-" /\ mutex' = c /\ want' = [want EXCEPT ![c] = "minting"]
                BY <1>2, <2>2 DEF UnderMutex
            <4> QED BY <4>1
        <3>3. (TokTypeOK /\ HeldWithinMargin)'
            BY <1>2, <2>2 DEF UnderMutex
        <3> QED BY <3>1, <3>2, <3>3
    <2> QED BY <2>1, <2>2
<1>3. ASSUME NEW c \in Callers, Mint(c) PROVE TokInv'
    <2>1. \A d \in Callers : d # c => want[d] # "minting"
        BY <1>3 DEF Mint
    <2>2. CASE cached' = LIFE /\ HandOut(c, LIFE)
        BY <1>3, <2>1, <2>2 DEF Mint, HandOut
    <2>3. CASE want' = [want EXCEPT ![c] = "idle"] /\ UNCHANGED <<cached, left, age>>
        BY <1>3, <2>1, <2>3 DEF Mint
    <2> QED BY <1>3, <2>2, <2>3 DEF Mint
<1>4. ASSUME NEW c \in Callers, CallerGone(c) PROVE TokInv'
    BY <1>4 DEF CallerGone
<1>5. ASSUME NEW c \in Callers, UseInstallationToken(c) PROVE TokInv'
    BY <1>5 DEF UseInstallationToken
<1>6. CASE EvictExpired
    BY <1>6 DEF EvictExpired
<1>7. CASE TenMinutes
    <2>1. TokTypeOK' /\ MinterHoldsMutex' /\ ~needless'
        BY <1>7 DEF TenMinutes
    <2>2. ASSUME NEW c \in Callers, want'[c] = "using"
          PROVE  left'[c] + age'[c] > SAFETY_MARGIN /\ age'[c] <= SAFETY_MARGIN
        <3>1. want[c] = "using" /\ age[c] < SAFETY_MARGIN /\ left[c] + age[c] > SAFETY_MARGIN
            BY <1>7, <2>2 DEF TenMinutes
        <3>2. left'[c] = left[c] - 1 /\ age'[c] = age[c] + 1
            BY <1>7, <3>1 DEF TenMinutes
        <3>3. left[c] \in 0..LIFE /\ age[c] \in Nat
            OBVIOUS
        <3> QED BY <3>1, <3>2, <3>3
    <2> QED BY <2>1, <2>2
<1>8. CASE UNCHANGED tokVars
    BY <1>8 DEF tokVars
<1> QED BY <1>1, <1>2, <1>3, <1>4, <1>5, <1>6, <1>7, <1>8 DEF TokNext

LEMMA TokInvSuffices == TokInv => TokenCacheHolds
<1> SUFFICES ASSUME TokInv PROVE TokenCacheHolds
    OBVIOUS
<1>1. TokenAlive
    BY TokenCacheAssumption DEF TokInv, TokTypeOK, HeldWithinMargin, TokenAlive
<1>2. Cardinality({c \in Callers : want[c] = "minting"}) <= 1
    <2> DEFINE minters == {c \in Callers : want[c] = "minting"}
    <2>1. minters \subseteq {mutex}
        BY DEF TokInv, MinterHoldsMutex
    <2>2. IsFiniteSet({mutex}) /\ Cardinality({mutex}) = 1
        BY FS_Singleton
    <2>3. Cardinality(minters) <= Cardinality({mutex})
        BY <2>1, <2>2, FS_Subset
    <2> QED BY <2>2, <2>3
<1> QED BY <1>1, <1>2 DEF TokInv, TokenCacheHolds, NoNeedlessMint

\* Nobody presents a token that has run out, and no mint is begun while a fresh
\* token lies in the cache or beside another mint.
THEOREM TokenCacheIsSafe == TokSpec => []TokenCacheHolds
<1>1. TokInit => TokInv
    BY TokInitially
<1>2. TokInv /\ [TokNext]_tokVars => TokInv'
    BY TokStep
<1>3. TokInv => TokenCacheHolds
    BY TokInvSuffices
<1> QED BY <1>1, <1>2, <1>3, PTL DEF TokSpec

----------------------------------------------------------------------------
(* Migrations *)
Steps == {"idle", "bootstrap", "applying", "skipped", "failed", "ok", "created", "done"}
Finished == {"ok", "created", "done"}

\* What a runner has read or written is in the table, and a release stays what
\* it is.
MigTypeOK ==
    /\ migpc \in [Runners -> Steps]
    /\ files \in [Runners -> Releases]
    /\ applied \in [Runners -> SUBSET schemaMig]
    /\ schemaMig \subseteq [version : Nat, checksum : STRING]
    /\ topicConfig \in [KafkaTopics -> Configs \cup {Absent}]
    /\ wanted \in [Runners -> [KafkaTopics -> Configs]]
    /\ IsFiniteSet(schemaMig) /\ IsFiniteSet(Versions(schemaMig)) /\ effects \in Nat

\* The topics exist from the first half of the topics step on.
TopicsExist ==
    \A p \in Runners : migpc[p] \in {"created", "done"} => \A t \in KafkaTopics : topicConfig[t] # Absent

MigInv == MigTypeOK /\ SchemaIsComplete /\ TopicsExist

----------------------------------------------------------------------------
LEMMA MigInitially == MigInit => MigInv
<1> SUFFICES ASSUME MigInit PROVE MigInv
    OBVIOUS
<1> USE DEF MigInit
<1>1. MigTypeOK
    <2>1. Versions(schemaMig) = {}
        BY DEF Versions
    <2> QED BY <2>1, FS_EmptySet DEF MigTypeOK, Steps, Configs, Absent
<1>2. AppliedOnce
    <2>1. Versions(schemaMig) = {}
        BY DEF Versions
    <2> QED BY <2>1, FS_EmptySet DEF AppliedOnce
<1>3. AppliedInOrder /\ OkMeansAll /\ TopicsConfigured /\ TopicsExist
    BY DEF AppliedInOrder, OkMeansAll, TopicsConfigured, TopicsExist
<1> QED BY <1>1, <1>2, <1>3 DEF MigInv, SchemaIsComplete

\* A row more adds its version, and a version that was not there counts.
LEMMA RowAdded ==
    ASSUME NEW rows, NEW f, IsFiniteSet(rows), IsFiniteSet(Versions(rows)), f.version \notin Versions(rows)
    PROVE  /\ Versions(rows \cup {f}) = Versions(rows) \cup {f.version}
           /\ IsFiniteSet(rows \cup {f})
           /\ Cardinality(rows \cup {f}) = Cardinality(rows) + 1
           /\ Cardinality(Versions(rows \cup {f})) = Cardinality(Versions(rows)) + 1
<1>1. Versions(rows \cup {f}) = Versions(rows) \cup {f.version}
    BY DEF Versions
<1>2. f \notin rows
    BY DEF Versions
<1>3. Cardinality(rows \cup {f}) = Cardinality(rows) + 1 /\ IsFiniteSet(rows \cup {f})
    BY <1>2, FS_AddElement
<1>4. Cardinality(Versions(rows) \cup {f.version}) = Cardinality(Versions(rows)) + 1
    BY FS_AddElement
<1> QED BY <1>1, <1>3, <1>4


\* A runner that moves on without touching the table or a topic.
LEMMA QuietStep ==
    ASSUME MigInv, NEW p \in Runners,
           UNCHANGED <<files, schemaMig, effects, topicVars>>,
           applied' \in [Runners -> SUBSET schemaMig], migpc' \in [Runners -> Steps],
           \A q \in Runners : migpc'[q] \in Finished => migpc'[q] = migpc[q] \/ files[q] \subseteq schemaMig,
           \A q \in Runners : migpc'[q] \in {"created", "done"} => migpc'[q] = migpc[q],
           \A q \in Runners : migpc[q] = "done" => migpc'[q] = "done"
    PROVE  MigInv'
<1> USE DEF MigInv, SchemaIsComplete, topicVars
<1>1. MigTypeOK'
    BY DEF MigTypeOK
<1>2. AppliedOnce'
    BY DEF AppliedOnce
<1>3. AppliedInOrder'
    BY DEF AppliedInOrder
<1>4. OkMeansAll'
    BY DEF OkMeansAll, Finished
<1>5. TopicsConfigured' /\ TopicsExist'
    <2>1. \A q \in Runners : (migpc'[q] = "done") <=> (migpc[q] = "done")
        OBVIOUS
    <2> QED BY <2>1 DEF TopicsConfigured, Configured, TopicsExist
<1> QED BY <1>1, <1>2, <1>3, <1>4, <1>5

\* A runner that has nothing pending and saw no edited file has its release in
\* the table, text for text.
LEMMA NothingPending ==
    ASSUME MigInv, NEW p \in Runners, Pending(p) = {}, ChecksumMismatch(p) = {}
    PROVE  files[p] \subseteq schemaMig
<1> SUFFICES ASSUME NEW f \in files[p] PROVE f \in schemaMig
    OBVIOUS
<1>1. PICK r \in applied[p] : r.version = f.version
    BY DEF Pending, Versions
<1>2. Edited(p) = {}
    BY DEF ChecksumMismatch
<1>3. r.checksum = f.checksum
    BY <1>1, <1>2 DEF Edited
<1>4. f \in [version : Nat, checksum : STRING]
    BY MigrationsAssumption DEF MigInv, MigTypeOK
<1>5. r \in schemaMig /\ r \in [version : Nat, checksum : STRING]
    BY <1>1 DEF MigInv, MigTypeOK
<1> QED BY <1>1, <1>3, <1>4, <1>5

LEMMA ApplyStep == ASSUME MigInv, NEW p \in Runners, NEW f \in files[p], ApplyMigration(p, f) PROVE MigInv'
<1>1. CASE f.version \in Versions(schemaMig)
    <2>1. UNCHANGED <<files, schemaMig, effects, topicVars, applied>> /\ migpc' = [migpc EXCEPT ![p] = "failed"]
        BY <1>1 DEF ApplyMigration, Refuse
    <2>2. applied' \in [Runners -> SUBSET schemaMig] /\ migpc' \in [Runners -> Steps]
        BY <2>1 DEF MigInv, MigTypeOK, Steps
    <2>3. \A q \in Runners : migpc'[q] = migpc[q] \/ (migpc'[q] = "failed" /\ migpc[q] # "done")
        BY <2>1 DEF MigInv, MigTypeOK, ApplyMigration
    <2> QED BY <2>1, <2>2, <2>3, QuietStep DEF Finished
<1>2. CASE f.version \notin Versions(schemaMig)
    <2>1. /\ schemaMig' = schemaMig \cup {f} /\ effects' = effects + 1
          /\ applied' = [applied EXCEPT ![p] = @ \cup {f}]
          /\ UNCHANGED <<migpc, files, topicConfig, wanted>>
        BY <1>2 DEF ApplyMigration, topicVars
    <2>2. f \in [version : Nat, checksum : STRING]
        BY MigrationsAssumption DEF MigInv, MigTypeOK
    <2>3. /\ Versions(schemaMig \cup {f}) = Versions(schemaMig) \cup {f.version}
          /\ IsFiniteSet(schemaMig \cup {f})
          /\ Cardinality(schemaMig \cup {f}) = Cardinality(schemaMig) + 1
          /\ Cardinality(Versions(schemaMig \cup {f})) = Cardinality(Versions(schemaMig)) + 1
        BY <1>2, RowAdded DEF MigInv, MigTypeOK
    <2>4. Versions(schemaMig') = Versions(schemaMig) \cup {f.version}
        BY <2>1, <2>3
    <2>5. MigTypeOK'
        <3>1. IsFiniteSet(schemaMig') /\ IsFiniteSet(Versions(schemaMig)')
            <4>1. Versions(schemaMig)' = Versions(schemaMig')
                BY DEF Versions
            <4>2. IsFiniteSet(Versions(schemaMig) \cup {f.version})
                BY FS_AddElement DEF MigInv, MigTypeOK
            <4> QED BY <2>1, <2>3, <2>4, <4>1, <4>2
        <3>2. applied' \in [Runners -> SUBSET schemaMig']
            BY <2>1 DEF MigInv, MigTypeOK
        <3> QED BY <2>1, <2>2, <3>1, <3>2 DEF MigInv, MigTypeOK
    <2>6. AppliedOnce'
        <3>1. Versions(schemaMig)' = Versions(schemaMig \cup {f})
            BY <2>1 DEF Versions
        <3> QED BY <2>1, <2>3, <3>1 DEF MigInv, SchemaIsComplete, AppliedOnce
    <2>7. AppliedInOrder'
        <3> SUFFICES ASSUME NEW r \in schemaMig'
                     PROVE  \E q \in Runners : /\ r \in files'[q]
                                               /\ \A g \in files'[q] : g.version < r.version => g.version \in Versions(schemaMig')
            BY DEF AppliedInOrder, Versions
        <3>1. CASE r \in schemaMig
            BY <2>1, <2>4, <3>1 DEF MigInv, SchemaIsComplete, AppliedInOrder
        <3>2. CASE r = f
            <4>1. \A g \in files[p] : g.version < f.version => g.version \in Versions(applied[p])
                BY DEF ApplyMigration, NextFile
            <4>2. Versions(applied[p]) \subseteq Versions(schemaMig)
                BY DEF MigInv, MigTypeOK, Versions
            <4> QED BY <2>1, <2>4, <3>2, <4>1, <4>2
        <3> QED BY <2>1, <3>1, <3>2
    <2>8. OkMeansAll'
        BY <2>1 DEF MigInv, SchemaIsComplete, OkMeansAll
    <2>9. TopicsConfigured' /\ TopicsExist'
        BY <2>1 DEF MigInv, SchemaIsComplete, TopicsConfigured, Configured, TopicsExist
    <2> QED BY <2>5, <2>6, <2>7, <2>8, <2>9 DEF MigInv, SchemaIsComplete
<1> QED BY <1>1, <1>2

----------------------------------------------------------------------------
\* The topics step leaves the table alone, and only the runner that takes it
\* moves.
LEMMA CreateStep == ASSUME MigInv, NEW p \in Runners, CreateTopics(p) PROVE MigInv'
<1> USE DEF MigInv, SchemaIsComplete
<1>1. /\ UNCHANGED <<files, applied, schemaMig, effects, wanted>>
      /\ migpc[p] = "ok" /\ migpc' = [migpc EXCEPT ![p] = "created"]
      /\ topicConfig' = [t \in KafkaTopics |-> IF topicConfig[t] = Absent THEN "none" ELSE topicConfig[t]]
    BY DEF CreateTopics
<1>2. \A t \in KafkaTopics : topicConfig'[t] \in Configs /\ (topicConfig[t] # Absent => topicConfig'[t] = topicConfig[t])
    BY <1>1 DEF MigTypeOK, Configs, Absent
<1>3. MigTypeOK'
    BY <1>1, <1>2 DEF MigTypeOK, Steps, Configs, Absent
<1>4. AppliedOnce' /\ AppliedInOrder'
    BY <1>1 DEF AppliedOnce, AppliedInOrder, Versions
<1>5. OkMeansAll'
    BY <1>1 DEF OkMeansAll, MigTypeOK
<1>6. TopicsExist'
    BY <1>2 DEF TopicsExist, Configs, Absent
<1>7. TopicsConfigured'
    <2>1. \A q \in Runners : (migpc'[q] = "done") <=> (migpc[q] = "done")
        BY <1>1 DEF MigTypeOK
    <2> SUFFICES ASSUME NEW q \in Runners, migpc[q] = "done", NEW t \in KafkaTopics
                 PROVE  topicConfig'[t] # Absent /\ (wanted[q][t] # "none" => Configured(t)')
        BY <1>1, <2>1 DEF TopicsConfigured
    <2>2. topicConfig'[t] = topicConfig[t] /\ topicConfig[t] # Absent
        BY <1>2 DEF TopicsExist
    <2> QED BY <1>1, <2>1, <2>2 DEF TopicsConfigured, Configured
<1> QED BY <1>3, <1>4, <1>5, <1>6, <1>7

LEMMA AlterStep == ASSUME MigInv, NEW p \in Runners, AlterTopicConfigs(p) PROVE MigInv'
<1> USE DEF MigInv, SchemaIsComplete
<1>1. /\ UNCHANGED <<files, applied, schemaMig, effects, wanted>>
      /\ migpc[p] = "created" /\ migpc' = [migpc EXCEPT ![p] = "done"]
      /\ topicConfig' = [t \in KafkaTopics |-> IF wanted[p][t] # "none" THEN wanted[p][t] ELSE topicConfig[t]]
    BY DEF AlterTopicConfigs, WithConfig
<1>2. \A t \in KafkaTopics : /\ topicConfig[t] \in Configs
                             /\ topicConfig'[t] \in Configs
                             /\ wanted[p][t] # "none" => topicConfig'[t] = wanted[p][t]
    BY <1>1 DEF MigTypeOK, TopicsExist, Configs, Absent
<1>3. MigTypeOK'
    BY <1>1, <1>2 DEF MigTypeOK, Steps, Configs, Absent
<1>4. AppliedOnce' /\ AppliedInOrder'
    BY <1>1 DEF AppliedOnce, AppliedInOrder, Versions
<1>5. OkMeansAll'
    BY <1>1 DEF OkMeansAll, MigTypeOK
<1>6. TopicsExist'
    BY <1>2 DEF TopicsExist, Configs, Absent
<1>7. TopicsConfigured'
    <2> SUFFICES ASSUME NEW q \in Runners, migpc'[q] = "done", NEW t \in KafkaTopics
                 PROVE  topicConfig'[t] # Absent /\ (wanted[q][t] # "none" => Configured(t)')
        BY <1>1 DEF TopicsConfigured
    <2>1. topicConfig'[t] # Absent
        BY <1>2 DEF Configs, Absent
    <2>2. migpc'[p] = "done" /\ wanted' = wanted /\ \A r \in Runners : migpc[r] = "done" => migpc'[r] = "done"
        BY <1>1 DEF MigTypeOK
    <2>3. CASE wanted[p][t] # "none"
        BY <1>2, <2>1, <2>2, <2>3 DEF Configured
    <2>4. CASE wanted[p][t] = "none"
        <3>1. topicConfig'[t] = topicConfig[t]
            BY <1>1, <2>4
        <3>2. CASE q = p
            BY <2>1, <2>4, <3>2
        <3>3. CASE q # p
            <4>1. migpc[q] = "done"
                BY <1>1, <3>3 DEF MigTypeOK
            <4>2. wanted[q][t] # "none" => Configured(t)
                BY <4>1 DEF TopicsConfigured
            <4> QED BY <2>1, <2>2, <3>1, <4>2 DEF Configured
        <3> QED BY <3>2, <3>3
    <2> QED BY <2>3, <2>4
<1> QED BY <1>3, <1>4, <1>5, <1>6, <1>7

----------------------------------------------------------------------------
LEMMA MigStep == MigInv /\ [MigNext]_migVars => MigInv'
<1> SUFFICES ASSUME MigInv, [MigNext]_migVars PROVE MigInv'
    OBVIOUS
<1>1. CASE UNCHANGED migVars
    BY <1>1 DEF migVars, MigInv, MigTypeOK, SchemaIsComplete, AppliedOnce, AppliedInOrder, OkMeansAll,
                TopicsConfigured, Configured, TopicsExist, Versions
<1>2. ASSUME NEW p \in Runners, NEW s \in Steps \ {"created", "done"}, migpc' = [migpc EXCEPT ![p] = s],
             migpc[p] # "done", s = "ok" => files[p] \subseteq schemaMig,
             applied' \in [Runners -> SUBSET schemaMig],
             UNCHANGED <<files, schemaMig, effects, topicVars>>
      PROVE  MigInv'
    <2>1. migpc' \in [Runners -> Steps]
        BY <1>2 DEF MigInv, MigTypeOK
    <2>2. \A q \in Runners : q # p => migpc'[q] = migpc[q]
        BY <1>2 DEF MigInv, MigTypeOK
    <2>3. migpc'[p] = s
        BY <1>2 DEF MigInv, MigTypeOK
    <2>4. \A q \in Runners : migpc'[q] \in {"created", "done"} => migpc'[q] = migpc[q]
        BY <1>2, <2>2, <2>3
    <2>5. \A q \in Runners : migpc'[q] \in Finished => migpc'[q] = migpc[q] \/ files[q] \subseteq schemaMig
        BY <1>2, <2>2, <2>3 DEF Finished
    <2>6. \A q \in Runners : migpc[q] = "done" => migpc'[q] = "done"
        BY <1>2, <2>2
    <2> QED BY <1>2, <2>1, <2>4, <2>5, <2>6, QuietStep
<1>3. applied \in [Runners -> SUBSET schemaMig]
    BY DEF MigInv, MigTypeOK
<1>4. ASSUME NEW p \in Runners, BeginLocked(p) \/ BeginUnlocked(p) PROVE MigInv'
    BY <1>2, <1>3, <1>4 DEF BeginLocked, BeginUnlocked, Steps
<1>5. ASSUME NEW p \in Runners, ReadApplied(p) PROVE MigInv'
    BY <1>2, <1>3, <1>5 DEF ReadApplied, Steps
<1>6. ASSUME NEW p \in Runners, StopAtEdited(p) \/ RunnerCrashes(p) PROVE MigInv'
    BY <1>2, <1>3, <1>6 DEF StopAtEdited, RunnerCrashes, Refuse, Steps
<1>7. ASSUME NEW p \in Runners, FinishSchema(p) PROVE MigInv'
    <2>1. files[p] \subseteq schemaMig
        BY <1>7, NothingPending DEF FinishSchema
    <2> QED BY <1>2, <1>3, <1>7, <2>1 DEF FinishSchema, Steps
<1>8. ASSUME NEW p \in Runners, FailedEnds(p) PROVE MigInv'
    BY <1>3, <1>8, QuietStep DEF FailedEnds, MigInv, MigTypeOK
<1> QED BY <1>1, <1>4, <1>5, <1>6, <1>7, <1>8, ApplyStep, CreateStep, AlterStep DEF MigNext

\* The statements of every version are committed once, after those before it;
\* a runner that succeeds has left its whole release and its topics in place.
THEOREM SchemaIsBroughtForward == MigSpec => []SchemaIsComplete
<1>1. MigInit => MigInv
    BY MigInitially
<1>2. MigInv /\ [MigNext]_migVars => MigInv'
    BY MigStep
<1>3. MigInv => SchemaIsComplete
    BY DEF MigInv
<1> QED BY <1>1, <1>2, <1>3, PTL DEF MigSpec

----------------------------------------------------------------------------
(* BlobStores *)
CallSteps == {"idle", "begin", "marked", "created", "written", "headed", "removed", "missed", "done"}
Answers == {"none", "ok", "error", "data", "partial", "mismatch", "notfound"}
CallsOK ==
    /\ op \in [Ops -> [kind : Kinds \cup {"none"}, of : Owners \cup {"none"}, at : CallSteps, answer : Answers]]
    /\ \A o \in Ops : op[o].at # "idle" => op[o].of \in Owners
    /\ \A o \in Ops : op[o].at = "idle" => op[o].kind = "none"
BlobTypeOK ==
    /\ CallsOK
    /\ path \in [Owners -> Ops \cup {NoFile}] /\ tmp \in [Owners -> Ops \cup {NoFile}]
    /\ whole \subseteq Ops /\ fd \in [Ops -> Ops \cup {NoFile}]
    /\ markers \subseteq Owners /\ mixed \subseteq Owners
    /\ \A o \in Ops : op[o].at \in {"created", "written"} => fd[o] # NoFile

\* A file is named by the put that created it; no two names are one file.
FilesAreApart ==
    /\ \A t \in Owners : path[t] # NoFile => op[path[t]].at \notin {"idle", "begin", "marked"}
    /\ \A t \in Owners : tmp[t] # NoFile => op[tmp[t]].at \notin {"idle", "begin", "marked"}
    /\ \A t, u \in Owners : tmp[t] # NoFile => tmp[t] # path[u] /\ (tmp[t] = tmp[u] => t = u)
Writing(o) == op[o].kind = "put" /\ op[o].at \in {"begin", "marked", "created", "written"}
Deleting(o) == op[o].kind = "delete" /\ op[o].at \in {"begin", "headed", "removed", "missed"}
\* Of a tenant that is not mixed, one writer at a time and no delete beside it.
WritersAreAlone ==
    \A o, p \in Ops : (Writing(o) /\ op[p].of = op[o].of /\ op[o].of \notin mixed) =>
        (Writing(p) => p = o) /\ ~Deleting(p)
\* What such a writer has done is there still.
WriterHasFile ==
    \A o \in Ops : (op[o].kind = "put" /\ op[o].of \notin mixed) =>
        /\ op[o].at \in {"marked", "created", "written"} => op[o].of \in markers
        /\ op[o].at \in {"created", "written"} => fd[o] = tmp[op[o].of] /\ fd[o] # NoFile
        /\ op[o].at = "written" => fd[o] \in whole
RemovedIsGone ==
    \A o \in Ops : (op[o].kind = "delete" /\ op[o].at = "removed" /\ op[o].of \notin mixed) =>
        path[op[o].of] = NoFile
MarkerHasPut == \A t \in markers : \E p \in Ops : op[p].kind = "put" /\ op[p].of = t

BlobInv ==
    /\ BlobTypeOK /\ FilesAreApart /\ WritersAreAlone /\ WriterHasFile /\ RemovedIsGone /\ MarkerHasPut
    /\ BlobsAreOwned

LEMMA BlobInitially == BlobInit => BlobInv
<1> SUFFICES ASSUME BlobInit PROVE BlobInv  OBVIOUS
<1>1. \A o \in Ops : op[o].kind = "none" /\ op[o].of = "none" /\ op[o].at = "idle" /\ op[o].answer = "none"
  BY DEF BlobInit, NoCall
<1>2. CallsOK
  BY <1>1 DEF BlobInit, NoCall, CallsOK, CallSteps, Answers
<1>3. BlobTypeOK
  BY <1>1, <1>2 DEF BlobInit, BlobTypeOK, NoFile
<1>4. FilesAreApart
  BY DEF BlobInit, FilesAreApart
<1>5. WritersAreAlone /\ WriterHasFile /\ RemovedIsGone
  BY <1>1 DEF WritersAreAlone, WriterHasFile, RemovedIsGone, Writing
<1>6. MarkerHasPut /\ BlobsAreOwned
  BY <1>1 DEF BlobInit, MarkerHasPut, BlobsAreOwned, VisibleIsWhole, VisibleIsMarked, MismatchHasOther
<1>. QED  BY <1>3, <1>4, <1>5, <1>6 DEF BlobInv

\* A step moves one call, and leaves what it was called for.
OthersStand(o) ==
    \A p \in Ops : op'[p].kind = op[p].kind /\ op'[p].of = op[p].of /\ (p # o => op'[p] = op[p])

LEMMA CallGoes ==
    ASSUME CallsOK, NEW o \in Ops, NEW s \in CallSteps \ {"idle"}, op[o].at # "idle", Goes(o, s)
    PROVE  CallsOK' /\ OthersStand(o) /\ op'[o].at = s /\ op'[o].answer = op[o].answer
<1>1. \A p \in Ops : op'[p] = IF p = o THEN [op[p] EXCEPT !.at = s] ELSE op[p]
  BY DEF Goes, CallsOK
<1>2. op'[o].kind = op[o].kind /\ op'[o].of = op[o].of /\ op'[o].at = s /\ op'[o].answer = op[o].answer
  BY <1>1 DEF CallsOK
<1>3. OthersStand(o)
  BY <1>1, <1>2 DEF OthersStand
<1>4. CallsOK'
  BY <1>1, <1>2 DEF CallsOK, Goes
<1>. QED  BY <1>2, <1>3, <1>4

LEMMA CallAnswers ==
    ASSUME CallsOK, NEW o \in Ops, NEW a \in Answers, op[o].at # "idle", Answer(o, a)
    PROVE  CallsOK' /\ OthersStand(o) /\ op'[o].at = "done" /\ op'[o].answer = a
<1>1. \A p \in Ops : op'[p] = IF p = o THEN [op[p] EXCEPT !.at = "done", !.answer = a] ELSE op[p]
  BY DEF Answer, CallsOK
<1>2. op'[o].kind = op[o].kind /\ op'[o].of = op[o].of /\ op'[o].at = "done" /\ op'[o].answer = a
  BY <1>1 DEF CallsOK
<1>3. OthersStand(o)
  BY <1>1, <1>2 DEF OthersStand
<1>4. CallsOK'
  BY <1>1, <1>2 DEF CallsOK, Answer, CallSteps
<1>. QED  BY <1>2, <1>3, <1>4

LEMMA PutMarkerKeeps ==
    ASSUME BlobInv, NEW o \in Ops, PutMarker(o)
    PROVE  BlobInv'
<1>1. CallsOK /\ op[o].at # "idle" /\ op[o].of \in Owners
  BY DEF PutMarker, BlobInv, BlobTypeOK, CallsOK
<1>2. CallsOK' /\ OthersStand(o) /\ op'[o].at = "marked" /\ op'[o].answer = op[o].answer
  BY <1>1, CallGoes DEF PutMarker, CallSteps
<1>3. BlobTypeOK'
  BY <1>1, <1>2, BlobAssumption DEF PutMarker, OthersStand, BlobInv, BlobTypeOK, CallsOK, BlobsAreOwned, NoFile
<1>4. FilesAreApart'
  BY <1>1, <1>2, BlobAssumption DEF PutMarker, OthersStand, BlobInv, FilesAreApart, BlobTypeOK, BlobsAreOwned, NoFile
<1>5. WritersAreAlone'
  BY <1>1, <1>2, BlobAssumption DEF PutMarker, OthersStand, BlobInv, WritersAreAlone, Writing,
      Deleting, BlobsAreOwned, NoFile
<1>6. WriterHasFile'
  BY <1>1, <1>2, BlobAssumption DEF PutMarker, OthersStand, BlobInv, WriterHasFile,
      WritersAreAlone, Writing, Deleting, FilesAreApart, BlobTypeOK, BlobsAreOwned, NoFile
<1>7. RemovedIsGone'
  BY <1>1, <1>2, BlobAssumption DEF PutMarker, OthersStand, BlobInv, RemovedIsGone,
      WritersAreAlone, Writing, Deleting, BlobTypeOK, BlobsAreOwned, NoFile
<1>8. MarkerHasPut'
  BY <1>1, <1>2, BlobAssumption DEF PutMarker, OthersStand, BlobInv, MarkerHasPut, BlobTypeOK, BlobsAreOwned, NoFile
<1>9. VisibleIsMarked'
  BY <1>1, <1>2, BlobAssumption DEF PutMarker, OthersStand, BlobInv, VisibleIsMarked,
      RemovedIsGone, WriterHasFile, BlobTypeOK, BlobsAreOwned, NoFile
<1>10. MismatchHasOther'
  BY <1>1, <1>2 DEF OthersStand, BlobInv, BlobsAreOwned, MismatchHasOther
<1>11. VisibleIsWhole'
  BY DEF PutMarker, BlobInv, BlobsAreOwned, VisibleIsWhole
<1>. QED  BY <1>3, <1>4, <1>5, <1>6, <1>7, <1>8, <1>9, <1>10, <1>11 DEF BlobInv, BlobsAreOwned

LEMMA PutObjectKeeps ==
    ASSUME BlobInv, NEW o \in Ops, PutObject(o)
    PROVE  BlobInv'
<1>1. CallsOK /\ op[o].at # "idle" /\ op[o].of \in Owners
  BY DEF PutObject, BlobInv, BlobTypeOK, CallsOK
<1>2. CallsOK' /\ OthersStand(o) /\ op'[o].at = "done" /\ op'[o].answer = "ok"
  BY <1>1, CallAnswers DEF PutObject, Answers
<1>3. BlobTypeOK'
  BY <1>1, <1>2, BlobAssumption DEF PutObject, OthersStand, BlobInv, BlobTypeOK, CallsOK, BlobsAreOwned, NoFile
<1>4. FilesAreApart'
  BY <1>1, <1>2, BlobAssumption DEF PutObject, OthersStand, BlobInv, FilesAreApart, BlobTypeOK, BlobsAreOwned, NoFile
<1>5. WritersAreAlone'
  BY <1>1, <1>2, BlobAssumption DEF PutObject, OthersStand, BlobInv, WritersAreAlone, Writing,
      Deleting, BlobsAreOwned, NoFile
<1>6. WriterHasFile'
  BY <1>1, <1>2, BlobAssumption DEF PutObject, OthersStand, BlobInv, WriterHasFile,
      WritersAreAlone, Writing, Deleting, FilesAreApart, BlobTypeOK, BlobsAreOwned, NoFile
<1>7. RemovedIsGone'
  BY <1>1, <1>2, BlobAssumption DEF PutObject, OthersStand, BlobInv, RemovedIsGone,
      WritersAreAlone, Writing, Deleting, BlobTypeOK, BlobsAreOwned, NoFile
<1>8. MarkerHasPut'
  BY <1>1, <1>2, BlobAssumption DEF PutObject, OthersStand, BlobInv, MarkerHasPut, BlobTypeOK, BlobsAreOwned, NoFile
<1>9. VisibleIsWhole'
  BY <1>1, <1>2, BlobAssumption DEF PutObject, OthersStand, BlobInv, VisibleIsWhole,
      WriterHasFile, FilesAreApart, BlobTypeOK, BlobsAreOwned, NoFile
<1>10. VisibleIsMarked'
  BY <1>1, <1>2, BlobAssumption DEF PutObject, OthersStand, BlobInv, VisibleIsMarked,
      RemovedIsGone, WriterHasFile, BlobTypeOK, BlobsAreOwned, NoFile
<1>11. MismatchHasOther'
  BY <1>1, <1>2 DEF OthersStand, BlobInv, BlobsAreOwned, MismatchHasOther
<1>. QED  BY <1>3, <1>4, <1>5, <1>6, <1>7, <1>8, <1>9, <1>10, <1>11 DEF BlobInv, BlobsAreOwned

LEMMA CreateTmpKeeps ==
    ASSUME BlobInv, NEW o \in Ops, CreateTmp(o)
    PROVE  BlobInv'
<1>1. CallsOK /\ op[o].at # "idle" /\ op[o].of \in Owners
  BY DEF CreateTmp, BlobInv, BlobTypeOK, CallsOK
<1>2. CallsOK' /\ OthersStand(o) /\ op'[o].at = "created" /\ op'[o].answer = op[o].answer
  BY <1>1, CallGoes DEF CreateTmp, CallSteps
<1>3. BlobTypeOK'
  BY <1>1, <1>2, BlobAssumption DEF CreateTmp, OthersStand, BlobInv, BlobTypeOK, CallsOK, BlobsAreOwned, NoFile
<1>4. FilesAreApart'
  BY <1>1, <1>2, BlobAssumption DEF CreateTmp, OthersStand, BlobInv, FilesAreApart, BlobTypeOK, BlobsAreOwned, NoFile
<1>5. WritersAreAlone'
  BY <1>1, <1>2, BlobAssumption DEF CreateTmp, OthersStand, BlobInv, WritersAreAlone, Writing,
      Deleting, BlobsAreOwned, NoFile
<1>6. WriterHasFile'
  BY <1>1, <1>2, BlobAssumption DEF CreateTmp, OthersStand, BlobInv, WriterHasFile,
      WritersAreAlone, Writing, Deleting, FilesAreApart, BlobTypeOK, BlobsAreOwned, NoFile
<1>7. RemovedIsGone'
  BY <1>1, <1>2, BlobAssumption DEF CreateTmp, OthersStand, BlobInv, RemovedIsGone,
      WritersAreAlone, Writing, Deleting, BlobTypeOK, BlobsAreOwned, NoFile
<1>8. MarkerHasPut'
  BY <1>1, <1>2, BlobAssumption DEF CreateTmp, OthersStand, BlobInv, MarkerHasPut, BlobTypeOK, BlobsAreOwned, NoFile
<1>9. VisibleIsWhole'
  BY <1>1, <1>2, BlobAssumption DEF CreateTmp, OthersStand, BlobInv, VisibleIsWhole,
      WriterHasFile, FilesAreApart, BlobTypeOK, BlobsAreOwned, NoFile
<1>10. MismatchHasOther'
  BY <1>1, <1>2 DEF OthersStand, BlobInv, BlobsAreOwned, MismatchHasOther
<1>11. VisibleIsMarked'
  BY DEF CreateTmp, BlobInv, BlobsAreOwned, VisibleIsMarked
<1>. QED  BY <1>3, <1>4, <1>5, <1>6, <1>7, <1>8, <1>9, <1>10, <1>11 DEF BlobInv, BlobsAreOwned

LEMMA WriteTmpKeeps ==
    ASSUME BlobInv, NEW o \in Ops, WriteTmp(o)
    PROVE  BlobInv'
<1>1. CallsOK /\ op[o].at # "idle" /\ op[o].of \in Owners
  BY DEF WriteTmp, BlobInv, BlobTypeOK, CallsOK
<1>2. CallsOK' /\ OthersStand(o) /\ op'[o].at = "written" /\ op'[o].answer = op[o].answer
  BY <1>1, CallGoes DEF WriteTmp, CallSteps
<1>3. BlobTypeOK'
  BY <1>1, <1>2, BlobAssumption DEF WriteTmp, OthersStand, BlobInv, BlobTypeOK, CallsOK, BlobsAreOwned, NoFile
<1>4. FilesAreApart'
  BY <1>1, <1>2, BlobAssumption DEF WriteTmp, OthersStand, BlobInv, FilesAreApart, BlobTypeOK, BlobsAreOwned, NoFile
<1>5. WritersAreAlone'
  BY <1>1, <1>2, BlobAssumption DEF WriteTmp, OthersStand, BlobInv, WritersAreAlone, Writing,
      Deleting, BlobsAreOwned, NoFile
<1>6. WriterHasFile'
  BY <1>1, <1>2, BlobAssumption DEF WriteTmp, OthersStand, BlobInv, WriterHasFile,
      WritersAreAlone, Writing, Deleting, FilesAreApart, BlobTypeOK, BlobsAreOwned, NoFile
<1>7. RemovedIsGone'
  BY <1>1, <1>2, BlobAssumption DEF WriteTmp, OthersStand, BlobInv, RemovedIsGone,
      WritersAreAlone, Writing, Deleting, BlobTypeOK, BlobsAreOwned, NoFile
<1>8. MarkerHasPut'
  BY <1>1, <1>2, BlobAssumption DEF WriteTmp, OthersStand, BlobInv, MarkerHasPut, BlobTypeOK, BlobsAreOwned, NoFile
<1>9. VisibleIsWhole'
  BY <1>1, <1>2, BlobAssumption DEF WriteTmp, OthersStand, BlobInv, VisibleIsWhole, WriterHasFile,
      FilesAreApart, BlobTypeOK, BlobsAreOwned, NoFile
<1>10. MismatchHasOther'
  BY <1>1, <1>2 DEF OthersStand, BlobInv, BlobsAreOwned, MismatchHasOther
<1>11. VisibleIsMarked'
  BY DEF WriteTmp, BlobInv, BlobsAreOwned, VisibleIsMarked
<1>. QED  BY <1>3, <1>4, <1>5, <1>6, <1>7, <1>8, <1>9, <1>10, <1>11 DEF BlobInv, BlobsAreOwned

LEMMA RenameTmpKeeps ==
    ASSUME BlobInv, NEW o \in Ops, RenameTmp(o)
    PROVE  BlobInv'
<1>1. CallsOK /\ op[o].at # "idle" /\ op[o].of \in Owners
  BY DEF RenameTmp, Synced, BlobInv, BlobTypeOK, CallsOK
<1>2. CallsOK' /\ OthersStand(o) /\ op'[o].at = "done" /\ op'[o].answer \in {"ok", "error"}
  BY <1>1, CallAnswers DEF RenameTmp, Answers
<1>a. path' \in [Owners -> Ops \cup {NoFile}] /\ tmp' \in [Owners -> Ops \cup {NoFile}]
  BY <1>1 DEF RenameTmp, BlobInv, BlobTypeOK
<1>3. BlobTypeOK'
  BY <1>1, <1>2, <1>a DEF RenameTmp, OthersStand, BlobInv, BlobTypeOK, Synced
<1>4. FilesAreApart'
  BY <1>1, <1>2, BlobAssumption DEF RenameTmp, OthersStand, BlobInv, FilesAreApart, BlobTypeOK,
      Synced, BlobsAreOwned, NoFile
<1>5. WritersAreAlone'
  BY <1>1, <1>2, BlobAssumption DEF RenameTmp, OthersStand, BlobInv, WritersAreAlone, Writing,
      Deleting, Synced, BlobsAreOwned, NoFile
<1>6. WriterHasFile'
  BY <1>1, <1>2, BlobAssumption DEF RenameTmp, OthersStand, BlobInv, WriterHasFile,
      WritersAreAlone, Writing, Deleting, FilesAreApart, BlobTypeOK, Synced, BlobsAreOwned, NoFile
<1>b. \A t \in Owners : path'[t] = path[t] \/ t = op[o].of
  BY <1>1 DEF RenameTmp, BlobInv, BlobTypeOK
<1>c. op[o].of \notin mixed => \A p \in Ops : op[p].of = op[o].of => ~Deleting(p)
  BY DEF RenameTmp, Synced, BlobInv, WritersAreAlone, Writing
<1>7. RemovedIsGone'
  BY <1>1, <1>2, <1>b, <1>c DEF RenameTmp, OthersStand, BlobInv, RemovedIsGone, Deleting, BlobTypeOK, CallsOK
<1>8. MarkerHasPut'
  BY <1>1, <1>2, BlobAssumption DEF RenameTmp, OthersStand, BlobInv, MarkerHasPut, BlobTypeOK,
      Synced, BlobsAreOwned, NoFile
<1>9. VisibleIsWhole'
  BY <1>1, <1>2, BlobAssumption DEF RenameTmp, OthersStand, BlobInv, VisibleIsWhole,
      WriterHasFile, FilesAreApart, BlobTypeOK, Synced, BlobsAreOwned, NoFile
<1>10. VisibleIsMarked'
  BY <1>1, <1>2, BlobAssumption DEF RenameTmp, OthersStand, BlobInv, VisibleIsMarked,
      RemovedIsGone, WriterHasFile, BlobTypeOK, Synced, BlobsAreOwned, NoFile
<1>11. MismatchHasOther'
  BY <1>1, <1>2 DEF OthersStand, BlobInv, BlobsAreOwned, MismatchHasOther
<1>. QED  BY <1>3, <1>4, <1>5, <1>6, <1>7, <1>8, <1>9, <1>10, <1>11 DEF BlobInv, BlobsAreOwned

LEMMA HeadObjectKeeps ==
    ASSUME BlobInv, NEW o \in Ops, HeadObject(o)
    PROVE  BlobInv'
<1>1. CallsOK /\ op[o].at # "idle" /\ op[o].of \in Owners
  BY DEF HeadObject, BlobInv, BlobTypeOK, CallsOK
<1>2. CallsOK' /\ OthersStand(o) /\ op'[o].at \in {"missed", "headed"} /\ op'[o].answer = op[o].answer
  BY <1>1, CallGoes DEF HeadObject, CallSteps
<1>3. BlobTypeOK'
  BY <1>1, <1>2, BlobAssumption DEF HeadObject, OthersStand, BlobInv, BlobTypeOK, CallsOK, BlobsAreOwned, NoFile
<1>4. FilesAreApart'
  BY <1>1, <1>2, BlobAssumption DEF HeadObject, OthersStand, BlobInv, FilesAreApart, BlobTypeOK, BlobsAreOwned, NoFile
<1>5. WritersAreAlone'
  BY <1>1, <1>2, BlobAssumption DEF HeadObject, OthersStand, BlobInv, WritersAreAlone, Writing,
      Deleting, BlobsAreOwned, NoFile
<1>6. WriterHasFile'
  BY <1>1, <1>2, BlobAssumption DEF HeadObject, OthersStand, BlobInv, WriterHasFile,
      WritersAreAlone, Writing, Deleting, FilesAreApart, BlobTypeOK, BlobsAreOwned, NoFile
<1>7. RemovedIsGone'
  BY <1>1, <1>2, BlobAssumption DEF HeadObject, OthersStand, BlobInv, RemovedIsGone,
      WritersAreAlone, Writing, Deleting, BlobTypeOK, BlobsAreOwned, NoFile
<1>8. MarkerHasPut'
  BY <1>1, <1>2, BlobAssumption DEF HeadObject, OthersStand, BlobInv, MarkerHasPut, BlobTypeOK, BlobsAreOwned, NoFile
<1>9. VisibleIsWhole'
  BY <1>1, <1>2, BlobAssumption DEF HeadObject, OthersStand, BlobInv, VisibleIsWhole,
      WriterHasFile, FilesAreApart, BlobTypeOK, BlobsAreOwned, NoFile
<1>10. VisibleIsMarked'
  BY <1>1, <1>2, BlobAssumption DEF HeadObject, OthersStand, BlobInv, VisibleIsMarked,
      RemovedIsGone, WriterHasFile, BlobTypeOK, BlobsAreOwned, NoFile
<1>11. MismatchHasOther'
  BY <1>1, <1>2 DEF OthersStand, BlobInv, BlobsAreOwned, MismatchHasOther
<1>. QED  BY <1>3, <1>4, <1>5, <1>6, <1>7, <1>8, <1>9, <1>10, <1>11 DEF BlobInv, BlobsAreOwned

LEMMA RemoveBlobKeeps ==
    ASSUME BlobInv, NEW o \in Ops, RemoveBlob(o)
    PROVE  BlobInv'
<1>1. CallsOK /\ op[o].at # "idle" /\ op[o].of \in Owners
  BY DEF RemoveBlob, BlobInv, BlobTypeOK, CallsOK
<1>2. CallsOK' /\ OthersStand(o) /\ op'[o].at \in {"missed", "removed"} /\ op'[o].answer = op[o].answer
  BY <1>1, CallGoes DEF RemoveBlob, CallSteps
<1>3. BlobTypeOK'
  BY <1>1, <1>2, BlobAssumption DEF RemoveBlob, OthersStand, BlobInv, BlobTypeOK, CallsOK, BlobsAreOwned, NoFile
<1>4. FilesAreApart'
  BY <1>1, <1>2, BlobAssumption DEF RemoveBlob, OthersStand, BlobInv, FilesAreApart, BlobTypeOK, BlobsAreOwned, NoFile
<1>5. WritersAreAlone'
  BY <1>1, <1>2, BlobAssumption DEF RemoveBlob, OthersStand, BlobInv, WritersAreAlone, Writing,
      Deleting, BlobsAreOwned, NoFile
<1>6. WriterHasFile'
  BY <1>1, <1>2, BlobAssumption DEF RemoveBlob, OthersStand, BlobInv, WriterHasFile,
      WritersAreAlone, Writing, Deleting, FilesAreApart, BlobTypeOK, BlobsAreOwned, NoFile
<1>7. RemovedIsGone'
  BY <1>1, <1>2, BlobAssumption DEF RemoveBlob, OthersStand, BlobInv, RemovedIsGone,
      WritersAreAlone, Writing, Deleting, BlobTypeOK, BlobsAreOwned, NoFile
<1>8. MarkerHasPut'
  BY <1>1, <1>2, BlobAssumption DEF RemoveBlob, OthersStand, BlobInv, MarkerHasPut, BlobTypeOK, BlobsAreOwned, NoFile
<1>9. VisibleIsWhole'
  BY <1>1, <1>2, BlobAssumption DEF RemoveBlob, OthersStand, BlobInv, VisibleIsWhole,
      WriterHasFile, FilesAreApart, BlobTypeOK, BlobsAreOwned, NoFile
<1>10. VisibleIsMarked'
  BY <1>1, <1>2, BlobAssumption DEF RemoveBlob, OthersStand, BlobInv, VisibleIsMarked,
      RemovedIsGone, WriterHasFile, BlobTypeOK, BlobsAreOwned, NoFile
<1>11. MismatchHasOther'
  BY <1>1, <1>2 DEF OthersStand, BlobInv, BlobsAreOwned, MismatchHasOther
<1>. QED  BY <1>3, <1>4, <1>5, <1>6, <1>7, <1>8, <1>9, <1>10, <1>11 DEF BlobInv, BlobsAreOwned

LEMMA RemoveMarkerKeeps ==
    ASSUME BlobInv, NEW o \in Ops, RemoveMarker(o)
    PROVE  BlobInv'
<1>1. CallsOK /\ op[o].at # "idle" /\ op[o].of \in Owners
  BY DEF RemoveMarker, BlobInv, BlobTypeOK, CallsOK
<1>2. CallsOK' /\ OthersStand(o) /\ op'[o].at = "done" /\ op'[o].answer = "ok"
  BY <1>1, CallAnswers DEF RemoveMarker, Answers
<1>3. BlobTypeOK'
  BY <1>1, <1>2, BlobAssumption DEF RemoveMarker, OthersStand, BlobInv, BlobTypeOK, CallsOK, BlobsAreOwned, NoFile
<1>4. FilesAreApart'
  BY <1>1, <1>2, BlobAssumption DEF RemoveMarker, OthersStand, BlobInv, FilesAreApart, BlobTypeOK,
      BlobsAreOwned, NoFile
<1>5. WritersAreAlone'
  BY <1>1, <1>2, BlobAssumption DEF RemoveMarker, OthersStand, BlobInv, WritersAreAlone, Writing,
      Deleting, BlobsAreOwned, NoFile
<1>6. WriterHasFile'
  BY <1>1, <1>2, BlobAssumption DEF RemoveMarker, OthersStand, BlobInv, WriterHasFile,
      WritersAreAlone, Writing, Deleting, FilesAreApart, BlobTypeOK, BlobsAreOwned, NoFile
<1>7. RemovedIsGone'
  BY <1>1, <1>2, BlobAssumption DEF RemoveMarker, OthersStand, BlobInv, RemovedIsGone,
      WritersAreAlone, Writing, Deleting, BlobTypeOK, BlobsAreOwned, NoFile
<1>8. MarkerHasPut'
  BY <1>1, <1>2, BlobAssumption DEF RemoveMarker, OthersStand, BlobInv, MarkerHasPut, BlobTypeOK,
      BlobsAreOwned, NoFile
<1>9. VisibleIsMarked'
  BY <1>1, <1>2, BlobAssumption DEF RemoveMarker, OthersStand, BlobInv, VisibleIsMarked,
      RemovedIsGone, WriterHasFile, BlobTypeOK, BlobsAreOwned, NoFile
<1>10. MismatchHasOther'
  BY <1>1, <1>2 DEF OthersStand, BlobInv, BlobsAreOwned, MismatchHasOther
<1>11. VisibleIsWhole'
  BY DEF RemoveMarker, BlobInv, BlobsAreOwned, VisibleIsWhole
<1>. QED  BY <1>3, <1>4, <1>5, <1>6, <1>7, <1>8, <1>9, <1>10, <1>11 DEF BlobInv, BlobsAreOwned

LEMMA ReadBlobKeeps ==
    ASSUME BlobInv, NEW o \in Ops, ReadBlob(o)
    PROVE  BlobInv'
<1>1. CallsOK /\ op[o].at # "idle" /\ op[o].of \in Owners
  BY DEF ReadBlob, BlobInv, BlobTypeOK, CallsOK
<1>2. CallsOK' /\ OthersStand(o) /\ op'[o].at \in {"missed", "done"}
        /\ op'[o].answer \in {op[o].answer, "data", "partial"}
  BY <1>1, CallGoes, CallAnswers DEF ReadBlob, CallSteps, Answers
<1>3. BlobTypeOK'
  BY <1>1, <1>2, BlobAssumption DEF ReadBlob, OthersStand, BlobInv, BlobTypeOK, CallsOK, BlobsAreOwned, NoFile
<1>4. FilesAreApart'
  BY <1>1, <1>2, BlobAssumption DEF ReadBlob, OthersStand, BlobInv, FilesAreApart, BlobTypeOK, BlobsAreOwned, NoFile
<1>5. WritersAreAlone'
  BY <1>1, <1>2, BlobAssumption DEF ReadBlob, OthersStand, BlobInv, WritersAreAlone, Writing,
      Deleting, BlobsAreOwned, NoFile
<1>6. WriterHasFile'
  BY <1>1, <1>2, BlobAssumption DEF ReadBlob, OthersStand, BlobInv, WriterHasFile,
      WritersAreAlone, Writing, Deleting, FilesAreApart, BlobTypeOK, BlobsAreOwned, NoFile
<1>7. RemovedIsGone'
  BY <1>1, <1>2, BlobAssumption DEF ReadBlob, OthersStand, BlobInv, RemovedIsGone,
      WritersAreAlone, Writing, Deleting, BlobTypeOK, BlobsAreOwned, NoFile
<1>8. MarkerHasPut'
  BY <1>1, <1>2, BlobAssumption DEF ReadBlob, OthersStand, BlobInv, MarkerHasPut, BlobTypeOK, BlobsAreOwned, NoFile
<1>9. MismatchHasOther'
  BY <1>1, <1>2 DEF OthersStand, BlobInv, BlobsAreOwned, MismatchHasOther, ReadBlob
<1>10. VisibleIsWhole' /\ VisibleIsMarked'
  BY DEF ReadBlob, BlobInv, BlobsAreOwned, VisibleIsWhole, VisibleIsMarked
<1>. QED  BY <1>3, <1>4, <1>5, <1>6, <1>7, <1>8, <1>9, <1>10 DEF BlobInv, BlobsAreOwned

LEMMA MissedKeeps ==
    ASSUME BlobInv, NEW o \in Ops, Missed(o)
    PROVE  BlobInv'
<1>1. CallsOK /\ op[o].at # "idle" /\ op[o].of \in Owners
  BY DEF Missed, BlobInv, BlobTypeOK, CallsOK
<1>2. CallsOK' /\ OthersStand(o) /\ op'[o].at = "done" /\ op'[o].answer \in {"mismatch", "notfound", "ok"}
  BY <1>1, CallAnswers DEF Missed, Answers
<1>3. BlobTypeOK'
  BY <1>1, <1>2, BlobAssumption DEF Missed, OthersStand, BlobInv, BlobTypeOK, CallsOK, BlobsAreOwned, NoFile
<1>4. FilesAreApart'
  BY <1>1, <1>2, BlobAssumption DEF Missed, OthersStand, BlobInv, FilesAreApart, BlobTypeOK, BlobsAreOwned, NoFile
<1>5. WritersAreAlone'
  BY <1>1, <1>2, BlobAssumption DEF Missed, OthersStand, BlobInv, WritersAreAlone, Writing,
      Deleting, BlobsAreOwned, NoFile
<1>6. WriterHasFile'
  BY <1>1, <1>2, BlobAssumption DEF Missed, OthersStand, BlobInv, WriterHasFile, WritersAreAlone,
      Writing, Deleting, FilesAreApart, BlobTypeOK, BlobsAreOwned, NoFile
<1>7. RemovedIsGone'
  BY <1>1, <1>2, BlobAssumption DEF Missed, OthersStand, BlobInv, RemovedIsGone, WritersAreAlone,
      Writing, Deleting, BlobTypeOK, BlobsAreOwned, NoFile
<1>8. MarkerHasPut'
  BY <1>1, <1>2, BlobAssumption DEF Missed, OthersStand, BlobInv, MarkerHasPut, BlobTypeOK, BlobsAreOwned, NoFile
<1>9. MismatchHasOther'
  <2>1. op'[o].answer = "mismatch" => \E u \in markers : u # op[o].of
    BY <1>2, CallAnswers, <1>1 DEF Missed, ExistsUnderOther, Answers
  <2>2. op'[o].answer = "mismatch" => \E p \in Ops : op[p].kind = "put" /\ op[p].of # op[o].of
    BY <2>1 DEF BlobInv, MarkerHasPut
  <2>. QED  BY <1>2, <2>2 DEF OthersStand, BlobInv, BlobsAreOwned, MismatchHasOther
<1>10. VisibleIsWhole' /\ VisibleIsMarked'
  BY DEF Missed, BlobInv, BlobsAreOwned, VisibleIsWhole, VisibleIsMarked
<1>. QED  BY <1>3, <1>4, <1>5, <1>6, <1>7, <1>8, <1>9, <1>10 DEF BlobInv, BlobsAreOwned

LEMMA AbandonKeeps ==
    ASSUME BlobInv, NEW o \in Ops, Abandon(o)
    PROVE  BlobInv'
<1>1. CallsOK /\ op[o].at # "idle" /\ op[o].of \in Owners
  BY DEF Abandon, BlobInv, BlobTypeOK, CallsOK
<1>2. CallsOK' /\ OthersStand(o) /\ op'[o].at = "done" /\ op'[o].answer = "error"
  BY <1>1, CallAnswers DEF Abandon, Answers
<1>3. BlobTypeOK'
  BY <1>1, <1>2, BlobAssumption DEF Abandon, OthersStand, BlobInv, BlobTypeOK, CallsOK, BlobsAreOwned, NoFile
<1>4. FilesAreApart'
  BY <1>1, <1>2, BlobAssumption DEF Abandon, OthersStand, BlobInv, FilesAreApart, BlobTypeOK, BlobsAreOwned, NoFile
<1>5. WritersAreAlone'
  BY <1>1, <1>2, BlobAssumption DEF Abandon, OthersStand, BlobInv, WritersAreAlone, Writing,
      Deleting, BlobsAreOwned, NoFile
<1>6. WriterHasFile'
  BY <1>1, <1>2, BlobAssumption DEF Abandon, OthersStand, BlobInv, WriterHasFile, WritersAreAlone,
      Writing, Deleting, FilesAreApart, BlobTypeOK, BlobsAreOwned, NoFile
<1>7. RemovedIsGone'
  BY <1>1, <1>2, BlobAssumption DEF Abandon, OthersStand, BlobInv, RemovedIsGone, WritersAreAlone,
      Writing, Deleting, BlobTypeOK, BlobsAreOwned, NoFile
<1>8. MarkerHasPut'
  BY <1>1, <1>2, BlobAssumption DEF Abandon, OthersStand, BlobInv, MarkerHasPut, BlobTypeOK, BlobsAreOwned, NoFile
<1>9. MismatchHasOther'
  BY <1>1, <1>2 DEF OthersStand, BlobInv, BlobsAreOwned, MismatchHasOther
<1>10. VisibleIsWhole' /\ VisibleIsMarked'
  BY DEF Abandon, BlobInv, BlobsAreOwned, VisibleIsWhole, VisibleIsMarked
<1>. QED  BY <1>3, <1>4, <1>5, <1>6, <1>7, <1>8, <1>9, <1>10 DEF BlobInv, BlobsAreOwned

LEMMA BlobBeginKeeps ==
    ASSUME BlobInv, NEW o \in Ops, NEW k \in Kinds, NEW t \in Owners, BlobBegin(o, k, t)
    PROVE  BlobInv'
<1>1. /\ op[o].at = "idle" /\ op[o].kind = "none"
      /\ op'[o].kind = k /\ op'[o].of = t /\ op'[o].at = "begin" /\ op'[o].answer = "none"
      /\ \A p \in Ops : p # o => op'[p] = op[p]
  BY DEF BlobBegin, BlobInv, BlobTypeOK, CallsOK
<1>2. CallsOK'
  BY <1>1 DEF BlobBegin, BlobInv, BlobTypeOK, CallsOK, CallSteps, Answers
<1>3. mixed \subseteq mixed' /\ mixed' \subseteq Owners
  BY DEF BlobBegin, BlobInv, BlobTypeOK
<1>4. BlobTypeOK'
  BY <1>2, <1>3 DEF BlobBegin, BlobInv, BlobTypeOK
<1>5. FilesAreApart'
  BY <1>1 DEF BlobBegin, BlobInv, BlobTypeOK, FilesAreApart
<1>6. \A p \in Ops : /\ p # o => (Writing(p)' <=> Writing(p)) /\ (Deleting(p)' <=> Deleting(p))
                     /\ Writing(o)' => k = "put"
                     /\ Deleting(o)' => k = "delete"
  BY <1>1 DEF Writing, Deleting
<1>7. \A p \in Ops : (op[p].of = t /\ t \notin mixed' /\ k # "get") => ~Writing(p)
  BY DEF BlobBegin, Ongoing, Writing
<1>8. \A p \in Ops : (op[p].of = t /\ t \notin mixed' /\ k = "put") => ~Deleting(p)
  BY DEF BlobBegin, Ongoing, Deleting
<1>9. ~Writing(o) /\ ~Deleting(o)
  BY <1>1 DEF Writing, Deleting
<1>10. WritersAreAlone'
  BY <1>1, <1>3, <1>6, <1>7, <1>8, <1>9 DEF BlobInv, WritersAreAlone
<1>11. WriterHasFile' /\ RemovedIsGone'
  BY <1>1, <1>3 DEF BlobBegin, BlobInv, WriterHasFile, RemovedIsGone
<1>12. MarkerHasPut' /\ MismatchHasOther'
  BY <1>1 DEF BlobBegin, BlobInv, MarkerHasPut, BlobsAreOwned, MismatchHasOther
<1>13. VisibleIsWhole' /\ VisibleIsMarked'
  BY <1>3 DEF BlobBegin, BlobInv, BlobsAreOwned, VisibleIsWhole, VisibleIsMarked
<1>. QED  BY <1>4, <1>5, <1>10, <1>11, <1>12, <1>13 DEF BlobInv, BlobsAreOwned

LEMMA BlobStep == BlobInv /\ [BlobNext]_blobVars => BlobInv'
<1> SUFFICES ASSUME BlobInv, [BlobNext]_blobVars PROVE BlobInv'  OBVIOUS
<1>1. ASSUME NEW o \in Ops, NEW k \in Kinds, NEW t \in Owners, BlobBegin(o, k, t) PROVE BlobInv'
  BY <1>1, BlobBeginKeeps
<1>2. ASSUME NEW o \in Ops, PutMarker(o) \/ PutObject(o) \/ CreateTmp(o) \/ WriteTmp(o) \/ RenameTmp(o)
      PROVE  BlobInv'
  BY <1>2, PutMarkerKeeps, PutObjectKeeps, CreateTmpKeeps, WriteTmpKeeps, RenameTmpKeeps
<1>3. ASSUME NEW o \in Ops, HeadObject(o) \/ RemoveBlob(o) \/ RemoveMarker(o) \/ ReadBlob(o) \/ Missed(o) \/ Abandon(o)
      PROVE  BlobInv'
  BY <1>3, HeadObjectKeeps, RemoveBlobKeeps, RemoveMarkerKeeps, ReadBlobKeeps, MissedKeeps, AbandonKeeps
<1>4. CASE UNCHANGED blobVars
  BY <1>4 DEF blobVars, BlobInv, BlobTypeOK, CallsOK, FilesAreApart, WritersAreAlone, WriterHasFile,
              RemovedIsGone, MarkerHasPut, BlobsAreOwned, VisibleIsWhole, VisibleIsMarked,
              MismatchHasOther, Writing, Deleting
<1>. QED  BY <1>1, <1>2, <1>3, <1>4 DEF BlobNext

\* A blob is whole under its name and has its marker, but where writers or a
\* delete of its tenant overlapped; and a mismatch has another owner as its reason.
THEOREM BlobsKeepTheirOwner == BlobSpec => []BlobsAreOwned
<1>1. BlobInv => BlobsAreOwned
  BY DEF BlobInv
<1>. QED  BY BlobInitially, BlobStep, <1>1, PTL DEF BlobSpec

----------------------------------------------------------------------------
(* Accounts *)
\* The rows of one account, and what the requests in hand hold of them.
AccTypes ==
    /\ account \in {"none", "signed_up"} /\ schema \in BOOLEAN /\ verified \in BOOLEAN
    /\ password \in Nat /\ failures \in Nat /\ raced \in BOOLEAN
MailTokens == [kind : {"verify", "reset"}, is : {"valid", "used", "expired"}]
TokensOK == \E n \in 0..MaxTokens : token \in [1..n -> MailTokens]
LoginSessions == [password : Nat, is : {"live", "revoked", "expired"}]
SessionsOK ==
    /\ \E n \in 0..MaxSessions : sessions \in [1..n -> LoginSessions]
    /\ refreshing \subseteq DOMAIN sessions /\ lateSessions \subseteq DOMAIN sessions
Transacting(c) == pending[c].op \in {"verify", "reset", "revoke"}
RequestsOK ==
    /\ DOMAIN pending = Clients
    /\ \A c \in Clients :
         /\ Transacting(c) =>
              /\ pending[c].token \in DOMAIN token /\ token[pending[c].token].is = "valid"
              /\ holder[pending[c].token] = c
         /\ pending[c].op = "logout" => pending[c].sessions \in DOMAIN sessions
         /\ pending[c].op = "insert" => pending[c].password \in Nat
HoldersOK ==
    /\ holder \in [Tokens -> Clients \cup {"-"}]
    /\ \A t \in Tokens : holder[t] # "-" => Transacting(holder[t]) /\ pending[holder[t]].token = t
\* What took effect stays used, what was ended stays revoked.
UsesOK ==
    /\ uses \in [Tokens -> 0..1]
    /\ \A t \in Tokens : uses[t] = 1 => t \in DOMAIN token /\ token[t].is = "used"
LogoutsOK ==
    /\ logouts \in [SessionIds -> 0..1]
    /\ \A s \in SessionIds : logouts[s] = 1 => s \in DOMAIN sessions /\ sessions[s].is = "revoked"
\* A resend that is under way has left no token valid, and is alone.
Open(t) == token[t].kind = "verify" /\ token[t].is = "valid"
LastMail ==
    /\ account = "none" => DOMAIN token = {} /\ \A c \in Clients : pending[c].op # "resend"
    /\ ~raced => /\ \A t, u \in DOMAIN token : Open(t) /\ Open(u) => t = u
                 /\ \A c, d \in Clients : pending[c].op = "resend" /\ pending[d].op = "resend" => c = d
                 /\ \A c \in Clients, t \in DOMAIN token : pending[c].op = "resend" => ~Open(t)
Guessing == {c \in Clients : pending[c].op = "login"}
GuessesOK == failures + Cardinality(Guessing) <= FailureLimit - 1 + Cardinality(Clients)

AccInv ==
    /\ AccTypes /\ TokensOK /\ SessionsOK /\ RequestsOK /\ HoldersOK /\ UsesOK /\ LogoutsOK
    /\ ResetEndsSessions /\ LastMail /\ GuessesOK

LEMMA SizeOf == ASSUME NEW s, NEW n \in Nat, DOMAIN s = 1..n PROVE Size(s) = n
<1>1. Cardinality(1..n) = n
  BY FS_Interval
<1>. QED  BY <1>1 DEF Size

LEMMA AddOne ==
    ASSUME NEW S, NEW n \in Nat, NEW s \in [1..n -> S], NEW x \in S
    PROVE  /\ Add(s, x) \in [1..(n + 1) -> S] /\ Add(s, x)[n + 1] = x
           /\ \A k \in 1..n : Add(s, x)[k] = s[k]
<1>1. Size(s) = n
  BY SizeOf
<1>. QED  BY <1>1 DEF Add

\* A set with no two elements.
LEMMA NoneOrOne ==
    ASSUME NEW S, \A x, y \in S : x = y
    PROVE  Cardinality(S) <= 1
<1>1. CASE S = {}
  BY <1>1, FS_EmptySet
<1>2. CASE S # {}
  <2>1. PICK x : x \in S
    BY <1>2
  <2>2. S = {x}
    BY <2>1
  <2>3. Cardinality({x}) = 1
    BY FS_Singleton
  <2>. QED  BY <2>2, <2>3
<1>. QED  BY <1>1, <1>2

LEMMA GuessersAreClients ==
    /\ IsFiniteSet(Guessing) /\ Cardinality(Guessing) \in Nat /\ Cardinality(Clients) \in Nat
    /\ Cardinality(Guessing) <= Cardinality(Clients)
<1>1. Guessing \subseteq Clients /\ IsFiniteSet(Clients)
  BY AccountsAssumption DEF Guessing
<1>2. IsFiniteSet(Guessing) /\ Cardinality(Guessing) <= Cardinality(Clients)
  BY <1>1, FS_Subset
<1>. QED  BY <1>1, <1>2, FS_CardinalityType

LEMMA GuessersAreClientsNext ==
    /\ IsFiniteSet(Guessing') /\ Cardinality(Guessing') \in Nat
    /\ Cardinality(Guessing') <= Cardinality(Clients)
<1>1. Guessing' \subseteq Clients /\ IsFiniteSet(Clients)
  BY AccountsAssumption DEF Guessing
<1>2. IsFiniteSet(Guessing') /\ Cardinality(Guessing') <= Cardinality(Clients)
  BY <1>1, FS_Subset
<1>. QED  BY <1>1, <1>2, FS_CardinalityType

\* A step that lets no further login past the check.
LEMMA NoMoreGuesses ==
    ASSUME AccInv, failures' = failures, Guessing' \subseteq Guessing
    PROVE  GuessesOK'
<1>1. Cardinality(Guessing') <= Cardinality(Guessing)
  BY GuessersAreClients, FS_Subset
<1>. QED  BY <1>1, GuessersAreClients, GuessersAreClientsNext, AccountsAssumption DEF AccInv, AccTypes, GuessesOK

LEMMA RowsAreNumbered ==
    ASSUME AccInv
    PROVE  DOMAIN token \subseteq Tokens /\ DOMAIN sessions \subseteq SessionIds
<1>1. PICK n \in 0..MaxTokens : token \in [1..n -> MailTokens]
  BY DEF AccInv, TokensOK
<1>2. PICK m \in 0..MaxSessions : sessions \in [1..m -> LoginSessions]
  BY DEF AccInv, SessionsOK
<1>3. 1..n \subseteq 1..MaxTokens /\ 1..m \subseteq 1..MaxSessions
  BY AccountsAssumption
<1>. QED  BY <1>1, <1>2, <1>3 DEF Tokens, SessionIds

\* A row has one holder, and who is in no transaction holds none.
LEMMA HoldersAreApart ==
    ASSUME AccInv, NEW c \in Clients
    PROVE  /\ Transacting(c) => \A d \in Clients \ {c} : Transacting(d) => pending[d].token # pending[c].token
           /\ \A u \in Tokens : holder[u] = c => Transacting(c) /\ pending[c].token = u
<1>1. c # "-"
  BY AccountsAssumption
<1>. QED  BY <1>1 DEF AccInv, RequestsOK, HoldersOK

LEMMA AccInitially == AccInit => AccInv
<1> SUFFICES ASSUME AccInit PROVE AccInv  OBVIOUS
<1>1. \A c \in Clients : pending[c].op = "idle"
  BY DEF AccInit, NoRequest
<1>2. DOMAIN token = {} /\ DOMAIN sessions = {}
  BY DEF AccInit
<1>3. AccTypes
  BY DEF AccInit, AccTypes
<1>4. TokensOK
  <2>1. token \in [1..0 -> MailTokens]
    BY DEF AccInit
  <2>. QED  BY <2>1, AccountsAssumption DEF TokensOK
<1>5. SessionsOK
  <2>1. sessions \in [1..0 -> LoginSessions]
    BY DEF AccInit
  <2>. QED  BY <2>1, AccountsAssumption DEF SessionsOK, AccInit
<1>6. RequestsOK /\ HoldersOK
  BY <1>1 DEF AccInit, RequestsOK, HoldersOK, Transacting
<1>7. UsesOK /\ LogoutsOK
  BY DEF AccInit, UsesOK, LogoutsOK
<1>8. ResetEndsSessions
  BY <1>2 DEF ResetEndsSessions
<1>9. LastMail
  BY <1>1, <1>2 DEF LastMail
<1>10. GuessesOK
  <2>1. Guessing = {}
    BY <1>1 DEF Guessing
  <2>2. Cardinality(Guessing) = 0
    BY <2>1, FS_EmptySet
  <2>. QED  BY <2>2, GuessersAreClients, AccountsAssumption DEF GuessesOK, AccInit
<1>. QED  BY <1>3, <1>4, <1>5, <1>6, <1>7, <1>8, <1>9, <1>10 DEF AccInv

LEMMA SignupChecksKeeps ==
    ASSUME AccInv, NEW c \in Clients, SignupChecks(c)
    PROVE  AccInv'
<1>s. UNCHANGED <<account, schema, verified, password, failures, raced, token, holder, uses,
                  sessions, refreshing, lateSessions, logouts>>
  BY DEF SignupChecks, userVars, tokenVars, sessionVars
<1>p. /\ pending[c].op = "idle" /\ pending'[c].op = "signup"
      /\ DOMAIN pending' = Clients /\ \A d \in Clients \ {c} : pending'[d] = pending[d]
  BY DEF SignupChecks, End, NoRequest, AccInv, RequestsOK
<1>1. RequestsOK'
  BY <1>s, <1>p DEF AccInv, RequestsOK, Transacting, AccTypes
<1>2. HoldersOK'
  BY <1>s, <1>p, AccountsAssumption DEF AccInv, HoldersOK, Transacting, RequestsOK
<1>3. LastMail'
  BY <1>s, <1>p DEF AccInv, LastMail, Open
<1>4. GuessesOK'
  BY <1>s, <1>p, NoMoreGuesses DEF Guessing
<1>5. AccTypes' /\ TokensOK' /\ SessionsOK' /\ UsesOK' /\ LogoutsOK' /\ ResetEndsSessions'
  BY <1>s DEF AccInv, AccTypes, TokensOK, SessionsOK, UsesOK, LogoutsOK, ResetEndsSessions
<1>. QED  BY <1>1, <1>2, <1>3, <1>4, <1>5 DEF AccInv

LEMMA SignupCommitsKeeps ==
    ASSUME AccInv, NEW c \in Clients, SignupCommits(c)
    PROVE  AccInv'
<1>s. UNCHANGED <<schema, verified, password, failures, raced, holder, uses, refreshing, lateSessions, logouts>>
  BY DEF SignupCommits, userVars, tokenVars, sessionVars
<1>p. /\ pending[c].op = "signup" /\ pending'[c].op \in {"migrate", "idle"}
      /\ DOMAIN pending' = Clients /\ \A d \in Clients \ {c} : pending'[d] = pending[d]
  BY DEF SignupCommits, End, NoRequest, AccInv, RequestsOK
<1>n. PICK n \in 0..MaxTokens : token \in [1..n -> MailTokens]
  BY DEF AccInv, TokensOK
<1>m. PICK m \in 0..MaxSessions : sessions \in [1..m -> LoginSessions]
  BY DEF AccInv, SessionsOK
<1>z. Size(token) = n /\ Size(sessions) = m
  BY <1>n, <1>m, SizeOf
<1>q. CASE UNCHANGED <<account, token, sessions>>
  <2>1. Guessing' \subseteq Guessing
    BY <1>p DEF Guessing
  <2>2. GuessesOK'
    BY <1>s, <2>1, NoMoreGuesses
  <2>3. RequestsOK' /\ HoldersOK' /\ LastMail'
    BY <1>s, <1>p, <1>q DEF AccInv, RequestsOK, HoldersOK, LastMail, Transacting, Open
  <2>4. AccTypes' /\ TokensOK' /\ SessionsOK' /\ UsesOK' /\ LogoutsOK' /\ ResetEndsSessions'
    BY <1>s, <1>q DEF AccInv, AccTypes, TokensOK, SessionsOK, UsesOK, LogoutsOK, ResetEndsSessions
  <2>. QED  BY <2>2, <2>3, <2>4 DEF AccInv
<1>r. CASE ~UNCHANGED <<account, token, sessions>>
  <2>1. /\ account = "none" /\ account' = "signed_up" /\ n < MaxTokens /\ m < MaxSessions
        /\ token' = Add(token, [kind |-> "verify", is |-> "valid"])
        /\ sessions' = Add(sessions, [password |-> password, is |-> "live"])
    BY <1>r, <1>z DEF SignupCommits
  <2>2. n = 0 /\ DOMAIN token = {}
    BY <2>1, <1>n DEF AccInv, LastMail
  <2>a. [kind |-> "verify", is |-> "valid"] \in MailTokens
    BY DEF MailTokens
  <2>b. [password |-> password, is |-> "live"] \in LoginSessions /\ m \in Nat
    BY AccountsAssumption DEF LoginSessions, AccInv, AccTypes
  <2>3. token' \in [1..(n + 1) -> MailTokens]
    BY <2>1, <2>2, <2>a, <1>n, AddOne
  <2>c. n + 1 = 1 /\ 1 \in 0..MaxTokens /\ m + 1 \in 0..MaxSessions
    BY <2>1, <2>2, AccountsAssumption
  <2>4. /\ sessions' \in [1..(m + 1) -> LoginSessions]
        /\ sessions'[m + 1] = [password |-> password, is |-> "live"]
        /\ \A k \in 1..m : sessions'[k] = sessions[k]
    <3>. DEFINE login == [password |-> password, is |-> "live"]
    <3>1. login \in LoginSessions /\ sessions' = Add(sessions, login)
      BY <2>1, <2>b
    <3>. HIDE DEF login
    <3>2. m \in Nat /\ sessions \in [1..m -> LoginSessions]
      BY <2>b, <1>m
    <3>3. /\ Add(sessions, login) \in [1..(m + 1) -> LoginSessions] /\ Add(sessions, login)[m + 1] = login
          /\ \A k \in 1..m : Add(sessions, login)[k] = sessions[k]
      BY <3>1, <3>2, <1>z DEF Add
    <3>4. /\ sessions' \in [1..(m + 1) -> LoginSessions] /\ sessions'[m + 1] = login
          /\ \A k \in 1..m : sessions'[k] = sessions[k]
      BY <3>1, <3>3
    <3>. QED  BY <3>4 DEF login
  <2>5. TokensOK' /\ SessionsOK'
    <3>1. TokensOK'
      BY <2>3, <2>c DEF TokensOK
    <3>2. DOMAIN sessions = 1..m /\ DOMAIN sessions' = 1..(m + 1) /\ 1..m \subseteq 1..(m + 1)
      BY <2>b, <2>4, <1>m
    <3>3. refreshing' \subseteq DOMAIN sessions' /\ lateSessions' \subseteq DOMAIN sessions'
      BY <1>s, <3>2 DEF AccInv, SessionsOK
    <3>. QED  BY <2>4, <2>c, <3>1, <3>3 DEF SessionsOK
  <2>6. AccTypes'
    BY <1>s, <2>1 DEF AccInv, AccTypes
  <2>7. \A d \in Clients : ~Transacting(d) /\ pending[d].op # "resend"
    BY <2>1, <2>2 DEF AccInv, RequestsOK, LastMail
  <2>8. RequestsOK'
    BY <1>p, <2>4, <2>7, <1>m DEF AccInv, RequestsOK, Transacting
  <2>9. HoldersOK'
    BY <1>s, <1>p, <2>7 DEF AccInv, HoldersOK, Transacting
  <2>10. UsesOK'
    BY <1>s, <2>2, <2>3, <2>c DEF AccInv, UsesOK
  <2>11. LogoutsOK'
    BY <1>s, <2>4, <1>m DEF AccInv, LogoutsOK
  <2>12. ResetEndsSessions'
    BY <1>s, <2>4, <1>m DEF AccInv, ResetEndsSessions
  <2>13. LastMail'
    BY <1>p, <2>1, <2>3, <2>7, <2>c DEF LastMail, Open
  <2>14. GuessesOK'
    BY <1>s, <1>p, NoMoreGuesses DEF Guessing
  <2>. QED  BY <2>5, <2>6, <2>8, <2>9, <2>10, <2>11, <2>12, <2>13, <2>14 DEF AccInv
<1>. QED  BY <1>q, <1>r

LEMMA SignupMigratesKeeps ==
    ASSUME AccInv, NEW c \in Clients, SignupMigrates(c)
    PROVE  AccInv'
<1>s. UNCHANGED <<account, password, failures, raced, token, holder, uses, sessions, refreshing,
                  lateSessions, logouts>>
  BY DEF SignupMigrates, userVars, tokenVars, sessionVars
<1>p. /\ pending[c].op = "migrate" /\ pending'[c].op = "idle"
      /\ DOMAIN pending' = Clients /\ \A d \in Clients \ {c} : pending'[d] = pending[d]
  BY DEF SignupMigrates, End, NoRequest, AccInv, RequestsOK
<1>1. AccTypes'
  BY <1>s, <1>p, AccountsAssumption DEF AccInv, AccTypes, SignupMigrates
<1>2. RequestsOK'
  BY <1>s, <1>p DEF AccInv, RequestsOK, Transacting, AccTypes
<1>3. HoldersOK'
  BY <1>s, <1>p, AccountsAssumption DEF AccInv, HoldersOK, Transacting, RequestsOK
<1>4. LastMail'
  BY <1>s, <1>p DEF AccInv, LastMail, Open
<1>5. GuessesOK'
  BY <1>s, <1>p, NoMoreGuesses DEF Guessing
<1>6. TokensOK' /\ SessionsOK' /\ UsesOK' /\ LogoutsOK' /\ ResetEndsSessions'
  BY <1>s DEF AccInv, TokensOK, SessionsOK, UsesOK, LogoutsOK, ResetEndsSessions
<1>. QED  BY <1>1, <1>2, <1>3, <1>4, <1>5, <1>6 DEF AccInv

LEMMA UseTokenKeeps ==
    ASSUME AccInv, NEW c \in Clients, NEW t \in DOMAIN token, NEW kind \in {"verify", "reset"}, UseToken(c, t, kind)
    PROVE  AccInv'
<1>s. UNCHANGED <<account, schema, verified, password, failures, raced, token, uses, sessions,
                  refreshing, lateSessions, logouts>>
  BY DEF UseToken, userVars, tokenVars, sessionVars
<1>p. /\ pending[c].op = "idle" /\ pending'[c].op = kind /\ pending'[c].token = t
      /\ DOMAIN pending' = Clients /\ \A d \in Clients \ {c} : pending'[d] = pending[d]
  BY DEF UseToken, End, NoRequest, AccInv, RequestsOK
<1>D. DOMAIN token \subseteq Tokens /\ DOMAIN sessions \subseteq SessionIds
  BY RowsAreNumbered
<1>h. /\ holder[t] = "-" /\ token[t].kind = kind /\ token[t].is = "valid"
      /\ holder' = [holder EXCEPT ![t] = c] /\ t \in Tokens
  BY <1>D DEF UseToken, Free, Usable
<1>v. /\ holder'[t] = c
      /\ \A u \in Tokens : u # t => holder'[u] = holder[u]
      /\ \A u \in Tokens : holder[u] # c
      /\ holder' \in [Tokens -> Clients \cup {"-"}]
      /\ \A d \in Clients \ {c} : Transacting(d) => pending[d].token # t
  BY <1>p, <1>h, HoldersAreApart, AccountsAssumption DEF Transacting, AccInv, HoldersOK, RequestsOK
<1>1. RequestsOK'
  BY <1>s, <1>p, <1>D, <1>h, <1>v DEF AccInv, RequestsOK, Transacting, AccTypes
<1>2. HoldersOK'
  BY <1>s, <1>p, <1>h, <1>v DEF AccInv, HoldersOK, Transacting, RequestsOK
<1>3. LastMail'
  BY <1>s, <1>p DEF AccInv, LastMail, Open
<1>4. GuessesOK'
  BY <1>s, <1>p, NoMoreGuesses DEF Guessing
<1>5. AccTypes' /\ TokensOK' /\ SessionsOK' /\ UsesOK' /\ LogoutsOK' /\ ResetEndsSessions'
  BY <1>s DEF AccInv, AccTypes, TokensOK, SessionsOK, UsesOK, LogoutsOK, ResetEndsSessions
<1>. QED  BY <1>1, <1>2, <1>3, <1>4, <1>5 DEF AccInv

LEMMA VerifyEmailKeeps ==
    ASSUME AccInv, NEW c \in Clients, VerifyEmail(c)
    PROVE  AccInv'
<1>s. UNCHANGED <<account, schema, password, failures, raced, sessions, refreshing, lateSessions, logouts>>
  BY DEF VerifyEmail, userVars, tokenVars, sessionVars
<1>p. /\ pending[c].op = "verify" /\ pending'[c].op = "idle"
      /\ DOMAIN pending' = Clients /\ \A d \in Clients \ {c} : pending'[d] = pending[d]
  BY DEF VerifyEmail, End, NoRequest, AccInv, RequestsOK, TakeEffect
<1>D. DOMAIN token \subseteq Tokens /\ DOMAIN sessions \subseteq SessionIds
  BY RowsAreNumbered
<1>h. pending[c].token \in DOMAIN token /\ token[pending[c].token].is = "valid" /\ holder[pending[c].token] = c
  BY <1>p DEF AccInv, RequestsOK, Transacting
<1>t. /\ DOMAIN token' = DOMAIN token /\ token'[pending[c].token].is = "used"
      /\ \A t \in DOMAIN token : t # pending[c].token => token'[t] = token[t]
  BY <1>h DEF VerifyEmail, TakeEffect, AccInv, TokensOK, MailTokens
<1>T. TokensOK'
  BY <1>h DEF VerifyEmail, TakeEffect, AccInv, TokensOK, MailTokens
<1>u. /\ holder' = [holder EXCEPT ![pending[c].token] = "-"]
      /\ uses' = [uses EXCEPT ![pending[c].token] = @ + 1]
  BY DEF VerifyEmail, TakeEffect
<1>v. /\ holder'[pending[c].token] = "-"
      /\ \A u \in Tokens : u # pending[c].token => holder'[u] = holder[u] /\ holder[u] # c
      /\ holder' \in [Tokens -> Clients \cup {"-"}]
      /\ \A d \in Clients \ {c} : Transacting(d) => pending[d].token # pending[c].token
  BY <1>p, <1>D, <1>h, <1>u, HoldersAreApart DEF Transacting, AccInv, HoldersOK
<1>w. /\ uses'[pending[c].token] = 1
      /\ \A u \in Tokens : u # pending[c].token => uses'[u] = uses[u]
      /\ uses' \in [Tokens -> 0..1]
  BY <1>D, <1>h, <1>u DEF AccInv, UsesOK
<1>1. AccTypes'
  BY <1>s, <1>p, <1>D, <1>h, <1>t, <1>T, <1>u, <1>v, <1>w, AccountsAssumption DEF AccInv, AccTypes, VerifyEmail
<1>2. RequestsOK'
  BY <1>s, <1>p, <1>D, <1>h, <1>t, <1>v DEF AccInv, RequestsOK, Transacting, AccTypes
<1>3. HoldersOK'
  BY <1>s, <1>p, <1>h, <1>v DEF AccInv, HoldersOK, Transacting, RequestsOK
<1>4. UsesOK'
  BY <1>s, <1>D, <1>h, <1>t, <1>T, <1>w DEF AccInv, UsesOK, TokensOK, Tokens, SessionIds
<1>5. LastMail'
  BY <1>s, <1>p, <1>t DEF AccInv, LastMail, Open
<1>6. GuessesOK'
  BY <1>s, <1>p, NoMoreGuesses DEF Guessing
<1>7. SessionsOK' /\ LogoutsOK' /\ ResetEndsSessions'
  BY <1>s DEF AccInv, SessionsOK, LogoutsOK, ResetEndsSessions
<1>. QED  BY <1>1, <1>2, <1>3, <1>4, <1>5, <1>6, <1>7, <1>T DEF AccInv

LEMMA ResetRevokesKeeps ==
    ASSUME AccInv, NEW c \in Clients, ResetRevokes(c)
    PROVE  AccInv'
<1>s. UNCHANGED <<account, schema, verified, password, failures, raced, token, holder, uses,
                  sessions, refreshing, lateSessions, logouts>>
  BY DEF ResetRevokes, userVars, tokenVars, sessionVars
<1>p. /\ pending[c].op = "reset" /\ pending'[c].op = "revoke" /\ pending'[c].token = pending[c].token
      /\ DOMAIN pending' = Clients /\ \A d \in Clients \ {c} : pending'[d] = pending[d]
  BY DEF ResetRevokes, AccInv, RequestsOK
<1>1. RequestsOK'
  BY <1>s, <1>p DEF AccInv, RequestsOK, Transacting, AccTypes
<1>2. HoldersOK'
  BY <1>s, <1>p, AccountsAssumption DEF AccInv, HoldersOK, Transacting, RequestsOK
<1>3. LastMail'
  BY <1>s, <1>p DEF AccInv, LastMail, Open
<1>4. GuessesOK'
  BY <1>s, <1>p, NoMoreGuesses DEF Guessing
<1>5. AccTypes' /\ TokensOK' /\ SessionsOK' /\ UsesOK' /\ LogoutsOK' /\ ResetEndsSessions'
  BY <1>s DEF AccInv, AccTypes, TokensOK, SessionsOK, UsesOK, LogoutsOK, ResetEndsSessions
<1>. QED  BY <1>1, <1>2, <1>3, <1>4, <1>5 DEF AccInv

LEMMA ResetPasswordKeeps ==
    ASSUME AccInv, NEW c \in Clients, ResetPassword(c)
    PROVE  AccInv'
<1>s. UNCHANGED <<account, schema, verified, failures, raced, refreshing, logouts>>
  BY DEF ResetPassword, userVars, tokenVars, sessionVars
<1>p. /\ pending[c].op = "revoke" /\ pending'[c].op = "idle"
      /\ DOMAIN pending' = Clients /\ \A d \in Clients \ {c} : pending'[d] = pending[d]
  BY DEF ResetPassword, End, NoRequest, AccInv, RequestsOK, TakeEffect
<1>D. DOMAIN token \subseteq Tokens /\ DOMAIN sessions \subseteq SessionIds
  BY RowsAreNumbered
<1>h. pending[c].token \in DOMAIN token /\ token[pending[c].token].is = "valid" /\ holder[pending[c].token] = c
  BY <1>p DEF AccInv, RequestsOK, Transacting
<1>t. /\ DOMAIN token' = DOMAIN token /\ token'[pending[c].token].is = "used"
      /\ \A t \in DOMAIN token : t # pending[c].token => token'[t] = token[t]
  BY <1>h DEF ResetPassword, TakeEffect, AccInv, TokensOK, MailTokens
<1>T. TokensOK'
  BY <1>h DEF ResetPassword, TakeEffect, AccInv, TokensOK, MailTokens
<1>u. /\ holder' = [holder EXCEPT ![pending[c].token] = "-"]
      /\ uses' = [uses EXCEPT ![pending[c].token] = @ + 1]
  BY DEF ResetPassword, TakeEffect
<1>v. /\ holder'[pending[c].token] = "-"
      /\ \A u \in Tokens : u # pending[c].token => holder'[u] = holder[u] /\ holder[u] # c
      /\ holder' \in [Tokens -> Clients \cup {"-"}]
      /\ \A d \in Clients \ {c} : Transacting(d) => pending[d].token # pending[c].token
  BY <1>p, <1>D, <1>h, <1>u, HoldersAreApart DEF Transacting, AccInv, HoldersOK
<1>w. /\ uses'[pending[c].token] = 1
      /\ \A u \in Tokens : u # pending[c].token => uses'[u] = uses[u]
      /\ uses' \in [Tokens -> 0..1]
  BY <1>D, <1>h, <1>u DEF AccInv, UsesOK
<1>x. /\ DOMAIN sessions' = DOMAIN sessions /\ password' = password + 1
      /\ \A s \in DOMAIN sessions : sessions'[s] \in LoginSessions
                                    /\ (sessions[s].is = "revoked" => sessions'[s].is = "revoked")
                                    /\ (s \notin lateSessions' => sessions'[s].is = "revoked")
      /\ lateSessions \subseteq lateSessions' /\ lateSessions' \subseteq DOMAIN sessions
  BY DEF ResetPassword, AccInv, SessionsOK, LoginSessions
<1>X. SessionsOK'
  BY <1>s, <1>x DEF ResetPassword, AccInv, SessionsOK
<1>1. AccTypes'
  BY <1>s, <1>p, <1>D, <1>h, <1>t, <1>T, <1>u, <1>v, <1>w, <1>x, <1>X, AccountsAssumption
      DEF AccInv, AccTypes, ResetPassword
<1>2. RequestsOK'
  BY <1>s, <1>p, <1>D, <1>h, <1>t, <1>v, <1>x DEF AccInv, RequestsOK, Transacting, AccTypes
<1>3. HoldersOK'
  BY <1>s, <1>p, <1>h, <1>v DEF AccInv, HoldersOK, Transacting, RequestsOK
<1>4. UsesOK'
  BY <1>s, <1>D, <1>h, <1>t, <1>T, <1>w DEF AccInv, UsesOK, TokensOK, Tokens, SessionIds
<1>5. LogoutsOK'
  BY <1>s, <1>D, <1>h, <1>u, <1>x DEF AccInv, LogoutsOK, SessionsOK, Tokens, SessionIds, TokensOK
<1>6. ResetEndsSessions'
  BY <1>s, <1>p, <1>x DEF AccInv, ResetEndsSessions, SessionsOK, LoginSessions, AccTypes
<1>7. LastMail'
  BY <1>s, <1>p, <1>t DEF AccInv, LastMail, Open
<1>8. GuessesOK'
  BY <1>s, <1>p, NoMoreGuesses DEF Guessing
<1>. QED  BY <1>1, <1>2, <1>3, <1>4, <1>5, <1>6, <1>7, <1>8, <1>T, <1>X DEF AccInv

LEMMA AbortKeeps ==
    ASSUME AccInv, NEW c \in Clients, Abort(c)
    PROVE  AccInv'
<1>s. UNCHANGED <<account, schema, verified, password, failures, raced, token, uses, sessions,
                  refreshing, lateSessions, logouts>>
  BY DEF Abort, userVars, tokenVars, sessionVars
<1>p. /\ pending[c].op \in {"verify", "reset", "revoke"} /\ pending'[c].op = "idle"
      /\ DOMAIN pending' = Clients /\ \A d \in Clients \ {c} : pending'[d] = pending[d]
  BY DEF Abort, End, NoRequest, AccInv, RequestsOK
<1>D. DOMAIN token \subseteq Tokens /\ DOMAIN sessions \subseteq SessionIds
  BY RowsAreNumbered
<1>h. pending[c].token \in DOMAIN token /\ holder[pending[c].token] = c
  BY <1>p DEF AccInv, RequestsOK, Transacting
<1>u. holder' = [holder EXCEPT ![pending[c].token] = "-"]
  BY DEF Abort
<1>v. /\ holder'[pending[c].token] = "-"
      /\ \A u \in Tokens : u # pending[c].token => holder'[u] = holder[u] /\ holder[u] # c
      /\ holder' \in [Tokens -> Clients \cup {"-"}]
      /\ \A d \in Clients \ {c} : Transacting(d) => pending[d].token # pending[c].token
  BY <1>p, <1>D, <1>h, <1>u, HoldersAreApart DEF Transacting, AccInv, HoldersOK
<1>1. RequestsOK'
  BY <1>s, <1>p, <1>D, <1>h, <1>v DEF AccInv, RequestsOK, Transacting, AccTypes
<1>2. HoldersOK'
  BY <1>s, <1>p, <1>h, <1>v DEF AccInv, HoldersOK, Transacting, RequestsOK
<1>3. LastMail'
  BY <1>s, <1>p DEF AccInv, LastMail, Open
<1>4. GuessesOK'
  BY <1>s, <1>p, NoMoreGuesses DEF Guessing
<1>5. AccTypes' /\ TokensOK' /\ SessionsOK' /\ UsesOK' /\ LogoutsOK' /\ ResetEndsSessions'
  BY <1>s DEF AccInv, AccTypes, TokensOK, SessionsOK, UsesOK, LogoutsOK, ResetEndsSessions
<1>. QED  BY <1>1, <1>2, <1>3, <1>4, <1>5 DEF AccInv

LEMMA ResendExpiresKeeps ==
    ASSUME AccInv, NEW c \in Clients, ResendExpires(c)
    PROVE  AccInv'
<1>s. UNCHANGED <<account, schema, verified, password, failures, holder, uses, sessions,
                  refreshing, lateSessions, logouts>>
  BY DEF ResendExpires, userVars, tokenVars, sessionVars
<1>p. /\ pending[c].op = "idle" /\ pending'[c].op = "resend"
      /\ DOMAIN pending' = Clients /\ \A d \in Clients \ {c} : pending'[d] = pending[d]
  BY DEF ResendExpires, End, NoRequest, AccInv, RequestsOK
<1>t. /\ DOMAIN token' = DOMAIN token
      /\ \A t \in DOMAIN token : /\ ~Open(t)' /\ token'[t] \in MailTokens
                                 /\ token[t].is # "valid" => token'[t] = token[t]
                                 /\ token[t].kind # "verify" => token'[t] = token[t]
                                 /\ token[t].kind = "verify" => holder[t] = "-"
  BY DEF ResendExpires, AccInv, TokensOK, MailTokens, Usable, Free, Open
<1>T. TokensOK'
  BY <1>t DEF ResendExpires, AccInv, TokensOK
<1>o. \A d \in Clients : Transacting(d) => token'[pending[d].token] = token[pending[d].token]
  BY <1>t, AccountsAssumption DEF AccInv, RequestsOK
<1>r. raced' \in BOOLEAN /\ (raced => raced') /\ (~raced' => \A d \in Clients : pending[d].op # "resend")
  BY DEF ResendExpires, AccInv, AccTypes
<1>a. account = "signed_up"
  BY DEF ResendExpires
<1>1. AccTypes'
  BY <1>s, <1>p, <1>t, <1>T, <1>o, <1>r, <1>a, AccountsAssumption DEF AccInv, AccTypes, ResendExpires
<1>2. RequestsOK'
  BY <1>s, <1>p, <1>t, <1>o, <1>a DEF AccInv, RequestsOK, Transacting, AccTypes
<1>3. HoldersOK'
  BY <1>s, <1>p, AccountsAssumption DEF AccInv, HoldersOK, Transacting, RequestsOK
<1>4. UsesOK'
  BY <1>s, <1>t, <1>T DEF AccInv, UsesOK, TokensOK, Tokens, SessionIds
<1>5. LastMail'
  BY <1>s, <1>p, <1>t, <1>r, <1>a DEF AccInv, LastMail, Open
<1>6. GuessesOK'
  BY <1>s, <1>p, NoMoreGuesses DEF Guessing
<1>7. SessionsOK' /\ LogoutsOK' /\ ResetEndsSessions'
  BY <1>s DEF AccInv, SessionsOK, LogoutsOK, ResetEndsSessions
<1>. QED  BY <1>1, <1>2, <1>3, <1>4, <1>5, <1>6, <1>7, <1>T DEF AccInv

LEMMA ResendVerificationKeeps ==
    ASSUME AccInv, NEW c \in Clients, ResendVerification(c)
    PROVE  AccInv'
<1>s. UNCHANGED <<account, schema, verified, password, failures, raced, holder, uses, sessions,
                  refreshing, lateSessions, logouts>>
  BY DEF ResendVerification, userVars, tokenVars, sessionVars
<1>p. /\ pending[c].op = "resend" /\ pending'[c].op = "idle"
      /\ DOMAIN pending' = Clients /\ \A d \in Clients \ {c} : pending'[d] = pending[d]
  BY DEF ResendVerification, End, NoRequest, AccInv, RequestsOK
<1>n. PICK n \in 0..MaxTokens : token \in [1..n -> MailTokens]
  BY DEF AccInv, TokensOK
<1>m. n + 1 \in 0..MaxTokens /\ token' = Add(token, [kind |-> "verify", is |-> "valid"])
  BY <1>n, SizeOf, AccountsAssumption DEF ResendVerification, IssueToken
<1>y. [kind |-> "verify", is |-> "valid"] \in MailTokens /\ n \in Nat
  BY AccountsAssumption DEF MailTokens
<1>t. /\ token' \in [1..(n + 1) -> MailTokens] /\ token'[n + 1] = [kind |-> "verify", is |-> "valid"]
      /\ \A k \in 1..n : token'[k] = token[k]
  <2>. DEFINE row == [kind |-> "verify", is |-> "valid"]
  <2>1. row \in MailTokens /\ n \in Nat
    BY <1>y
  <2>. HIDE DEF row
  <2>2. /\ Add(token, row) \in [1..(n + 1) -> MailTokens] /\ Add(token, row)[n + 1] = row
        /\ \A k \in 1..n : Add(token, row)[k] = token[k]
    <3>1. Size(token) = n
      BY <2>1, <1>n, SizeOf
    <3>. QED  BY <2>1, <3>1, <1>n DEF Add
  <2>3. token' = Add(token, row)
    BY <1>m DEF row
  <2>4. /\ token' \in [1..(n + 1) -> MailTokens] /\ token'[n + 1] = row
        /\ \A k \in 1..n : token'[k] = token[k]
    BY <2>2, <2>3
  <2>. QED  BY <2>4 DEF row
<1>T. TokensOK'
  BY <1>m, <1>t DEF TokensOK
<1>a. account # "none"
  BY <1>p DEF AccInv, LastMail
<1>1. RequestsOK'
  BY <1>s, <1>p, <1>n, <1>m, <1>t, <1>a DEF AccInv, RequestsOK, Transacting, AccTypes
<1>2. HoldersOK'
  BY <1>s, <1>p, AccountsAssumption DEF AccInv, HoldersOK, Transacting, RequestsOK
<1>3. UsesOK'
  BY <1>s, <1>n, <1>m, <1>t, <1>T DEF AccInv, UsesOK, TokensOK, Tokens, SessionIds
<1>4. LastMail'
  BY <1>s, <1>p, <1>n, <1>t, <1>a DEF AccInv, LastMail, Open
<1>5. GuessesOK'
  BY <1>s, <1>p, NoMoreGuesses DEF Guessing
<1>6. AccTypes' /\ SessionsOK' /\ LogoutsOK' /\ ResetEndsSessions'
  BY <1>s DEF AccInv, AccTypes, SessionsOK, LogoutsOK, ResetEndsSessions
<1>. QED  BY <1>1, <1>2, <1>3, <1>4, <1>5, <1>6, <1>T DEF AccInv

LEMMA ForgotPasswordKeeps ==
    ASSUME AccInv, NEW c \in Clients, ForgotPassword(c)
    PROVE  AccInv'
<1>s. UNCHANGED <<account, schema, verified, password, failures, raced, holder, uses, sessions,
                  refreshing, lateSessions, logouts, pending>>
  BY DEF ForgotPassword, userVars, tokenVars, sessionVars
<1>n. PICK n \in 0..MaxTokens : token \in [1..n -> MailTokens]
  BY DEF AccInv, TokensOK
<1>m. n + 1 \in 0..MaxTokens /\ token' = Add(token, [kind |-> "reset", is |-> "valid"])
  BY <1>n, SizeOf, AccountsAssumption DEF ForgotPassword, IssueToken
<1>y. [kind |-> "reset", is |-> "valid"] \in MailTokens /\ n \in Nat
  BY AccountsAssumption DEF MailTokens
<1>t. /\ token' \in [1..(n + 1) -> MailTokens] /\ token'[n + 1] = [kind |-> "reset", is |-> "valid"]
      /\ \A k \in 1..n : token'[k] = token[k]
  <2>. DEFINE row == [kind |-> "reset", is |-> "valid"]
  <2>1. row \in MailTokens /\ n \in Nat
    BY <1>y
  <2>. HIDE DEF row
  <2>2. /\ Add(token, row) \in [1..(n + 1) -> MailTokens] /\ Add(token, row)[n + 1] = row
        /\ \A k \in 1..n : Add(token, row)[k] = token[k]
    <3>1. Size(token) = n
      BY <2>1, <1>n, SizeOf
    <3>. QED  BY <2>1, <3>1, <1>n DEF Add
  <2>3. token' = Add(token, row)
    BY <1>m DEF row
  <2>4. /\ token' \in [1..(n + 1) -> MailTokens] /\ token'[n + 1] = row
        /\ \A k \in 1..n : token'[k] = token[k]
    BY <2>2, <2>3
  <2>. QED  BY <2>4 DEF row
<1>T. TokensOK'
  BY <1>m, <1>t DEF TokensOK
<1>a. account # "none"
  BY DEF ForgotPassword
<1>1. RequestsOK'
  BY <1>s, <1>n, <1>m, <1>t, <1>a DEF AccInv, RequestsOK, Transacting, AccTypes
<1>2. UsesOK'
  BY <1>s, <1>n, <1>m, <1>t, <1>T DEF AccInv, UsesOK, TokensOK, Tokens, SessionIds
<1>3. LastMail'
  BY <1>s, <1>n, <1>t, <1>a DEF AccInv, LastMail, Open
<1>4. AccTypes' /\ SessionsOK' /\ HoldersOK' /\ LogoutsOK' /\ ResetEndsSessions' /\ GuessesOK'
  BY <1>s DEF AccInv, AccTypes, SessionsOK, HoldersOK, LogoutsOK, ResetEndsSessions, GuessesOK, Transacting, Guessing
<1>. QED  BY <1>1, <1>2, <1>3, <1>4, <1>T DEF AccInv

LEMMA LoginCheckKeeps ==
    ASSUME AccInv, NEW c \in Clients, NEW right \in BOOLEAN, LoginCheck(c, right)
    PROVE  AccInv'
<1>s. UNCHANGED <<account, schema, verified, password, failures, raced, token, holder, uses,
                  sessions, refreshing, lateSessions, logouts>>
  BY DEF LoginCheck, userVars, tokenVars, sessionVars
<1>p. /\ pending[c].op = "idle" /\ pending'[c].op = "login"
      /\ DOMAIN pending' = Clients /\ \A d \in Clients \ {c} : pending'[d] = pending[d]
  BY DEF LoginCheck, End, NoRequest, AccInv, RequestsOK
<1>1. RequestsOK'
  BY <1>s, <1>p DEF AccInv, RequestsOK, Transacting, AccTypes
<1>2. HoldersOK'
  BY <1>s, <1>p, AccountsAssumption DEF AccInv, HoldersOK, Transacting, RequestsOK
<1>3. LastMail'
  BY <1>s, <1>p DEF AccInv, LastMail, Open
<1>4. GuessesOK'
  <2>1. failures' \in Nat /\ failures' < FailureLimit
    BY AccountsAssumption DEF LoginCheck, AccInv, AccTypes
  <2>. QED  BY <2>1, GuessersAreClientsNext, GuessersAreClients, AccountsAssumption DEF GuessesOK
<1>5. AccTypes' /\ TokensOK' /\ SessionsOK' /\ UsesOK' /\ LogoutsOK' /\ ResetEndsSessions'
  BY <1>s DEF AccInv, AccTypes, TokensOK, SessionsOK, UsesOK, LogoutsOK, ResetEndsSessions
<1>. QED  BY <1>1, <1>2, <1>3, <1>4, <1>5 DEF AccInv

LEMMA LoginSuspendedKeeps ==
    ASSUME AccInv, NEW c \in Clients, LoginSuspended(c)
    PROVE  AccInv'
<1>s. UNCHANGED <<account, schema, verified, password, failures, raced, token, holder, uses,
                  sessions, refreshing, lateSessions, logouts>>
  BY DEF LoginSuspended, userVars, tokenVars, sessionVars
<1>p. /\ pending[c].op = "login" /\ pending'[c].op = "idle"
      /\ DOMAIN pending' = Clients /\ \A d \in Clients \ {c} : pending'[d] = pending[d]
  BY DEF LoginSuspended, End, NoRequest, AccInv, RequestsOK
<1>1. RequestsOK'
  BY <1>s, <1>p DEF AccInv, RequestsOK, Transacting, AccTypes
<1>2. HoldersOK'
  BY <1>s, <1>p, AccountsAssumption DEF AccInv, HoldersOK, Transacting, RequestsOK
<1>3. LastMail'
  BY <1>s, <1>p DEF AccInv, LastMail, Open
<1>4. GuessesOK'
  BY <1>s, <1>p, NoMoreGuesses DEF Guessing
<1>5. AccTypes' /\ TokensOK' /\ SessionsOK' /\ UsesOK' /\ LogoutsOK' /\ ResetEndsSessions'
  BY <1>s DEF AccInv, AccTypes, TokensOK, SessionsOK, UsesOK, LogoutsOK, ResetEndsSessions
<1>. QED  BY <1>1, <1>2, <1>3, <1>4, <1>5 DEF AccInv

LEMMA LoginRefusedKeeps ==
    ASSUME AccInv, NEW c \in Clients, LoginRefused(c)
    PROVE  AccInv'
<1>s. UNCHANGED <<account, schema, verified, password, raced, token, holder, uses, sessions,
                  refreshing, lateSessions, logouts>>
  BY DEF LoginRefused, userVars, tokenVars, sessionVars
<1>p. /\ pending[c].op = "login" /\ pending'[c].op = "idle"
      /\ DOMAIN pending' = Clients /\ \A d \in Clients \ {c} : pending'[d] = pending[d]
  BY DEF LoginRefused, End, NoRequest, AccInv, RequestsOK
<1>1. AccTypes'
  BY <1>s, <1>p, AccountsAssumption DEF AccInv, AccTypes, LoginRefused
<1>2. RequestsOK'
  BY <1>s, <1>p DEF AccInv, RequestsOK, Transacting, AccTypes
<1>3. HoldersOK'
  BY <1>s, <1>p, AccountsAssumption DEF AccInv, HoldersOK, Transacting, RequestsOK
<1>4. LastMail'
  BY <1>s, <1>p DEF AccInv, LastMail, Open
<1>5. GuessesOK'
  <2>1. Guessing' = Guessing \ {c} /\ c \in Guessing
    BY <1>p DEF Guessing
  <2>2. Cardinality(Guessing') = Cardinality(Guessing) - 1
    BY <2>1, GuessersAreClients, FS_RemoveElement
  <2>3. failures' = failures + 1
    BY DEF LoginRefused
  <2>. QED  BY <2>2, <2>3, GuessersAreClients, AccountsAssumption DEF AccInv, AccTypes, GuessesOK
<1>6. TokensOK' /\ SessionsOK' /\ UsesOK' /\ LogoutsOK' /\ ResetEndsSessions'
  BY <1>s DEF AccInv, TokensOK, SessionsOK, UsesOK, LogoutsOK, ResetEndsSessions
<1>. QED  BY <1>1, <1>2, <1>3, <1>4, <1>5, <1>6 DEF AccInv

LEMMA LoginVerifiesKeeps ==
    ASSUME AccInv, NEW c \in Clients, LoginVerifies(c)
    PROVE  AccInv'
<1>s. UNCHANGED <<account, schema, verified, password, raced, token, holder, uses, sessions,
                  refreshing, lateSessions, logouts>>
  BY DEF LoginVerifies, userVars, tokenVars, sessionVars
<1>p. /\ pending[c].op = "login" /\ pending'[c].op = "insert" /\ pending'[c].password = password
      /\ DOMAIN pending' = Clients /\ \A d \in Clients \ {c} : pending'[d] = pending[d]
  BY DEF LoginVerifies, End, NoRequest, AccInv, RequestsOK
<1>1. AccTypes'
  BY <1>s, <1>p, AccountsAssumption DEF AccInv, AccTypes, LoginVerifies
<1>2. RequestsOK'
  BY <1>s, <1>p DEF AccInv, RequestsOK, Transacting, AccTypes
<1>3. HoldersOK'
  BY <1>s, <1>p, AccountsAssumption DEF AccInv, HoldersOK, Transacting, RequestsOK
<1>4. LastMail'
  BY <1>s, <1>p DEF AccInv, LastMail, Open
<1>5. GuessesOK'
  <2>1. failures' \in Nat /\ failures' < FailureLimit
    BY AccountsAssumption DEF LoginVerifies, AccInv, AccTypes
  <2>. QED  BY <2>1, GuessersAreClientsNext, GuessersAreClients, AccountsAssumption DEF GuessesOK
<1>6. TokensOK' /\ SessionsOK' /\ UsesOK' /\ LogoutsOK' /\ ResetEndsSessions'
  BY <1>s DEF AccInv, TokensOK, SessionsOK, UsesOK, LogoutsOK, ResetEndsSessions
<1>. QED  BY <1>1, <1>2, <1>3, <1>4, <1>5, <1>6 DEF AccInv

LEMMA LoginOpensKeeps ==
    ASSUME AccInv, NEW c \in Clients, LoginOpens(c)
    PROVE  AccInv'
<1>s. UNCHANGED <<account, schema, verified, password, failures, raced, token, holder, uses, refreshing, logouts>>
  BY DEF LoginOpens, userVars, tokenVars, sessionVars
<1>p. /\ pending[c].op = "insert" /\ pending'[c].op = "idle"
      /\ DOMAIN pending' = Clients /\ \A d \in Clients \ {c} : pending'[d] = pending[d]
  BY DEF LoginOpens, End, NoRequest, AccInv, RequestsOK
<1>n. PICK m \in 0..MaxSessions : sessions \in [1..m -> LoginSessions]
  BY DEF AccInv, SessionsOK
<1>v. pending[c].password \in Nat
  BY <1>p DEF AccInv, RequestsOK
<1>m. m + 1 \in 0..MaxSessions /\ Size(sessions) = m
  BY <1>n, SizeOf, AccountsAssumption DEF LoginOpens
<1>y. [password |-> pending[c].password, is |-> "live"] \in LoginSessions /\ m \in Nat
  BY <1>v, AccountsAssumption DEF LoginSessions
<1>z. sessions' = Add(sessions, [password |-> pending[c].password, is |-> "live"])
  BY DEF LoginOpens
<1>x. /\ sessions' \in [1..(m + 1) -> LoginSessions]
      /\ sessions'[m + 1] = [password |-> pending[c].password, is |-> "live"]
      /\ \A k \in 1..m : sessions'[k] = sessions[k]
  <2>. DEFINE row == [password |-> pending[c].password, is |-> "live"]
  <2>1. row \in LoginSessions /\ m \in Nat
    BY <1>y
  <2>. HIDE DEF row
  <2>2. /\ Add(sessions, row) \in [1..(m + 1) -> LoginSessions] /\ Add(sessions, row)[m + 1] = row
        /\ \A k \in 1..m : Add(sessions, row)[k] = sessions[k]
    <3>1. Size(sessions) = m
      BY <2>1, <1>n, SizeOf
    <3>. QED  BY <2>1, <3>1, <1>n DEF Add
  <2>3. sessions' = Add(sessions, row)
    BY <1>z DEF row
  <2>4. /\ sessions' \in [1..(m + 1) -> LoginSessions] /\ sessions'[m + 1] = row
        /\ \A k \in 1..m : sessions'[k] = sessions[k]
    BY <2>2, <2>3
  <2>. QED  BY <2>4 DEF row
<1>l. lateSessions' = IF pending[c].password # password THEN lateSessions \cup {m + 1} ELSE lateSessions
  BY <1>m DEF LoginOpens
<1>X. SessionsOK'
  BY <1>n, <1>m, <1>x, <1>l, <1>s DEF AccInv, SessionsOK
<1>1. RequestsOK'
  BY <1>s, <1>p, <1>n, <1>v, <1>m, <1>x DEF AccInv, RequestsOK, Transacting, AccTypes
<1>2. HoldersOK'
  BY <1>s, <1>p, <1>v DEF AccInv, HoldersOK, Transacting, RequestsOK
<1>3. LogoutsOK'
  BY <1>s, <1>n, <1>m, <1>x DEF AccInv, LogoutsOK
<1>4. ResetEndsSessions'
  <2>1. DOMAIN sessions' = 1..(m + 1) /\ sessions'[m + 1].password = pending[c].password
    BY <1>x
  <2>2. ASSUME NEW s \in DOMAIN sessions' \ lateSessions', sessions'[s].is # "revoked"
        PROVE  sessions'[s].password = password
    <3>1. CASE s = m + 1
      BY <2>1, <2>2, <3>1, <1>l
    <3>2. CASE s # m + 1
      <4>1. s \in 1..m
        BY <2>1, <3>2, <1>n
      <4>2. s \in DOMAIN sessions \ lateSessions /\ sessions'[s] = sessions[s]
        BY <4>1, <1>n, <1>x, <1>l
      <4>. QED  BY <2>2, <4>2 DEF AccInv, ResetEndsSessions
    <3>. QED  BY <3>1, <3>2
  <2>. QED  BY <2>2, <1>s DEF ResetEndsSessions
<1>5. LastMail'
  BY <1>s, <1>p, <1>n DEF AccInv, LastMail, Open
<1>6. GuessesOK'
  BY <1>s, <1>p, NoMoreGuesses DEF Guessing
<1>7. AccTypes' /\ TokensOK' /\ UsesOK'
  BY <1>s DEF AccInv, AccTypes, TokensOK, UsesOK
<1>. QED  BY <1>1, <1>2, <1>3, <1>4, <1>5, <1>6, <1>7, <1>X DEF AccInv

LEMMA LogoutReadsKeeps ==
    ASSUME AccInv, NEW c \in Clients, NEW s \in DOMAIN sessions, LogoutReads(c, s)
    PROVE  AccInv'
<1>s. UNCHANGED <<account, schema, verified, password, failures, raced, token, holder, uses,
                  sessions, refreshing, lateSessions, logouts>>
  BY DEF LogoutReads, userVars, tokenVars, sessionVars
<1>p. /\ pending[c].op = "idle" /\ pending'[c].op = "logout" /\ pending'[c].sessions = s
      /\ DOMAIN pending' = Clients /\ \A d \in Clients \ {c} : pending'[d] = pending[d]
  BY DEF LogoutReads, End, NoRequest, AccInv, RequestsOK
<1>1. RequestsOK'
  BY <1>s, <1>p DEF AccInv, RequestsOK, Transacting, AccTypes
<1>2. HoldersOK'
  BY <1>s, <1>p, AccountsAssumption DEF AccInv, HoldersOK, Transacting, RequestsOK
<1>3. LastMail'
  BY <1>s, <1>p DEF AccInv, LastMail, Open
<1>4. GuessesOK'
  BY <1>s, <1>p, NoMoreGuesses DEF Guessing
<1>5. AccTypes' /\ TokensOK' /\ SessionsOK' /\ UsesOK' /\ LogoutsOK' /\ ResetEndsSessions'
  BY <1>s DEF AccInv, AccTypes, TokensOK, SessionsOK, UsesOK, LogoutsOK, ResetEndsSessions
<1>. QED  BY <1>1, <1>2, <1>3, <1>4, <1>5 DEF AccInv

LEMMA GetMeKeeps ==
    ASSUME AccInv, NEW c \in Clients, NEW s \in DOMAIN sessions, GetMe(c, s)
    PROVE  AccInv'
<1>s. UNCHANGED <<account, schema, verified, password, failures, raced, token, holder, uses,
                  sessions, lateSessions, logouts, pending>>
  BY DEF GetMe, userVars, tokenVars, sessionVars
<1>1. SessionsOK'
  BY <1>s, AccountsAssumption DEF AccInv, SessionsOK, GetMe
<1>2. AccTypes' /\ TokensOK' /\ RequestsOK' /\ HoldersOK' /\ UsesOK' /\ LogoutsOK'
        /\ ResetEndsSessions' /\ LastMail' /\ GuessesOK'
  BY <1>s DEF AccInv, AccTypes, TokensOK, RequestsOK, HoldersOK, UsesOK, LogoutsOK,
      ResetEndsSessions, LastMail, GuessesOK, Transacting, Transacting, Open, Guessing
<1>. QED  BY <1>1, <1>2 DEF AccInv

LEMMA LogOutKeeps ==
    ASSUME AccInv, NEW c \in Clients, LogOut(c)
    PROVE  AccInv'
<1>s. UNCHANGED <<account, schema, verified, password, failures, raced, token, holder, uses,
                  refreshing, lateSessions>>
  BY DEF LogOut, userVars, tokenVars, sessionVars
<1>p. /\ pending[c].op = "logout" /\ pending'[c].op = "idle"
      /\ DOMAIN pending' = Clients /\ \A d \in Clients \ {c} : pending'[d] = pending[d]
  BY DEF LogOut, End, NoRequest, AccInv, RequestsOK
<1>D. DOMAIN token \subseteq Tokens /\ DOMAIN sessions \subseteq SessionIds
  BY RowsAreNumbered
<1>h. pending[c].sessions \in DOMAIN sessions
  BY <1>p DEF AccInv, RequestsOK
<1>x. /\ DOMAIN sessions' = DOMAIN sessions
      /\ \A s \in DOMAIN sessions : /\ sessions'[s].password = sessions[s].password
                                    /\ sessions'[s].is = IF s = pending[c].sessions THEN "revoked" ELSE sessions[s].is
  BY <1>h DEF LogOut, AccInv, SessionsOK, LoginSessions
<1>X. SessionsOK'
  BY <1>s, <1>h DEF LogOut, AccInv, SessionsOK, LoginSessions
<1>u. logouts' = IF sessions[pending[c].sessions].is = "revoked" THEN logouts
        ELSE [logouts EXCEPT ![pending[c].sessions] = @ + 1]
  BY DEF LogOut
<1>1. RequestsOK'
  BY <1>s, <1>p, <1>D, <1>h, <1>x DEF AccInv, RequestsOK, Transacting, AccTypes
<1>2. HoldersOK'
  BY <1>s, <1>p, <1>h, AccountsAssumption DEF AccInv, HoldersOK, Transacting, RequestsOK
<1>3. LogoutsOK'
  BY <1>s, <1>D, <1>h, <1>x, <1>u DEF AccInv, LogoutsOK
<1>4. ResetEndsSessions'
  BY <1>s, <1>p, <1>x DEF AccInv, ResetEndsSessions, SessionsOK, LoginSessions, AccTypes
<1>5. LastMail'
  BY <1>s, <1>p DEF AccInv, LastMail, Open
<1>6. GuessesOK'
  BY <1>s, <1>p, NoMoreGuesses DEF Guessing
<1>7. AccTypes' /\ TokensOK' /\ UsesOK'
  BY <1>s DEF AccInv, AccTypes, TokensOK, UsesOK
<1>. QED  BY <1>1, <1>2, <1>3, <1>4, <1>5, <1>6, <1>7, <1>X DEF AccInv

LEMMA TokenExpiresKeeps ==
    ASSUME AccInv, NEW t \in DOMAIN token, TokenExpires(t)
    PROVE  AccInv'
<1>s. UNCHANGED <<account, schema, verified, password, failures, raced, holder, uses, sessions,
                  refreshing, lateSessions, logouts, pending>>
  BY DEF TokenExpires, userVars, tokenVars, sessionVars
<1>t. /\ DOMAIN token' = DOMAIN token /\ token[t].is = "valid" /\ holder[t] = "-" /\ token'[t].is = "expired"
      /\ \A u \in DOMAIN token : u # t => token'[u] = token[u]
  BY DEF TokenExpires, Usable, Free, AccInv, TokensOK, MailTokens
<1>T. TokensOK'
  BY DEF TokenExpires, AccInv, TokensOK, MailTokens
<1>1. RequestsOK'
  BY <1>s, <1>t, AccountsAssumption DEF AccInv, RequestsOK, Transacting, AccTypes
<1>2. UsesOK'
  BY <1>s, <1>t, <1>T DEF AccInv, UsesOK, TokensOK, Tokens, SessionIds
<1>3. LastMail'
  BY <1>s, <1>t DEF AccInv, LastMail, Open
<1>4. AccTypes' /\ SessionsOK' /\ HoldersOK' /\ LogoutsOK' /\ ResetEndsSessions' /\ GuessesOK'
  BY <1>s DEF AccInv, AccTypes, SessionsOK, HoldersOK, LogoutsOK, ResetEndsSessions, GuessesOK, Transacting, Guessing
<1>. QED  BY <1>1, <1>2, <1>3, <1>4, <1>T DEF AccInv

LEMMA RefreshKeeps ==
    ASSUME AccInv, NEW s \in DOMAIN sessions, Refresh(s)
    PROVE  AccInv'
<1>s. UNCHANGED <<account, schema, verified, password, failures, raced, token, holder, uses,
                  lateSessions, logouts, pending>>
  BY DEF Refresh, userVars, tokenVars, sessionVars
<1>x. /\ DOMAIN sessions' = DOMAIN sessions
      /\ \A r \in DOMAIN sessions : /\ sessions'[r].password = sessions[r].password
                                    /\ (sessions'[r].is = "revoked") <=> (sessions[r].is = "revoked")
                                    /\ sessions'[r] \in LoginSessions
  BY DEF Refresh, AccInv, SessionsOK, LoginSessions
<1>X. SessionsOK'
  BY <1>s, <1>x DEF Refresh, AccInv, SessionsOK
<1>1. RequestsOK'
  BY <1>s, <1>x DEF AccInv, RequestsOK, Transacting, AccTypes
<1>2. LogoutsOK'
  BY <1>s, <1>x DEF AccInv, LogoutsOK, SessionsOK, Tokens, SessionIds, TokensOK
<1>3. ResetEndsSessions'
  BY <1>s, <1>x DEF AccInv, ResetEndsSessions, SessionsOK, LoginSessions, AccTypes
<1>4. AccTypes' /\ TokensOK' /\ HoldersOK' /\ UsesOK' /\ LastMail' /\ GuessesOK'
  BY <1>s DEF AccInv, AccTypes, TokensOK, HoldersOK, UsesOK, LastMail, GuessesOK, Transacting, Open, Guessing
<1>. QED  BY <1>1, <1>2, <1>3, <1>4, <1>X DEF AccInv

LEMMA SessionExpiresKeeps ==
    ASSUME AccInv, NEW s \in DOMAIN sessions, SessionExpires(s)
    PROVE  AccInv'
<1>s. UNCHANGED <<account, schema, verified, password, failures, raced, token, holder, uses,
                  refreshing, lateSessions, logouts, pending>>
  BY DEF SessionExpires, userVars, tokenVars, sessionVars
<1>x. /\ DOMAIN sessions' = DOMAIN sessions /\ sessions[s].is = "live"
      /\ \A r \in DOMAIN sessions : /\ sessions'[r].password = sessions[r].password
                                    /\ sessions'[r].is = IF r = s THEN "expired" ELSE sessions[r].is
  BY DEF SessionExpires, LiveSession, AccInv, SessionsOK, LoginSessions
<1>X. SessionsOK'
  BY <1>s DEF SessionExpires, AccInv, SessionsOK, LoginSessions
<1>1. RequestsOK'
  BY <1>s, <1>x DEF AccInv, RequestsOK, Transacting, AccTypes
<1>2. LogoutsOK'
  BY <1>s, <1>x DEF AccInv, LogoutsOK, SessionsOK, Tokens, SessionIds, TokensOK
<1>3. ResetEndsSessions'
  BY <1>s, <1>x DEF AccInv, ResetEndsSessions, SessionsOK, LoginSessions, AccTypes
<1>4. AccTypes' /\ TokensOK' /\ HoldersOK' /\ UsesOK' /\ LastMail' /\ GuessesOK'
  BY <1>s DEF AccInv, AccTypes, TokensOK, HoldersOK, UsesOK, LastMail, GuessesOK, Transacting, Open, Guessing
<1>. QED  BY <1>1, <1>2, <1>3, <1>4, <1>X DEF AccInv

LEMMA AccStep == AccInv /\ [AccNext]_accVars => AccInv'
<1> SUFFICES ASSUME AccInv, [AccNext]_accVars PROVE AccInv'  OBVIOUS
<1>1. ASSUME NEW c \in Clients, SignupChecks(c) \/ SignupCommits(c) \/ SignupMigrates(c) PROVE AccInv'
  BY <1>1, SignupChecksKeeps, SignupCommitsKeeps, SignupMigratesKeeps
<1>2. ASSUME NEW c \in Clients, NEW t \in DOMAIN token, NEW kind \in {"verify", "reset"}, UseToken(c, t, kind)
      PROVE  AccInv'
  BY <1>2, UseTokenKeeps
<1>3. ASSUME NEW c \in Clients, VerifyEmail(c) \/ ResetRevokes(c) \/ ResetPassword(c) \/ Abort(c) PROVE AccInv'
  BY <1>3, VerifyEmailKeeps, ResetRevokesKeeps, ResetPasswordKeeps, AbortKeeps
<1>4. ASSUME NEW c \in Clients, ResendExpires(c) \/ ResendVerification(c) \/ ForgotPassword(c) PROVE AccInv'
  BY <1>4, ResendExpiresKeeps, ResendVerificationKeeps, ForgotPasswordKeeps
<1>5. ASSUME NEW c \in Clients, NEW right \in BOOLEAN, LoginCheck(c, right) PROVE AccInv'
  BY <1>5, LoginCheckKeeps
<1>6. ASSUME NEW c \in Clients, LoginSuspended(c) \/ LoginRefused(c) \/ LoginVerifies(c) \/ LoginOpens(c) \/ LogOut(c) PROVE AccInv'
  BY <1>6, LoginSuspendedKeeps, LoginRefusedKeeps, LoginVerifiesKeeps, LoginOpensKeeps, LogOutKeeps
<1>7. ASSUME NEW c \in Clients, NEW s \in DOMAIN sessions, LogoutReads(c, s) \/ GetMe(c, s) PROVE AccInv'
  BY <1>7, LogoutReadsKeeps, GetMeKeeps
<1>8. ASSUME NEW t \in DOMAIN token, TokenExpires(t) PROVE AccInv'
  BY <1>8, TokenExpiresKeeps
<1>9. ASSUME NEW s \in DOMAIN sessions, Refresh(s) \/ SessionExpires(s) PROVE AccInv'
  BY <1>9, RefreshKeeps, SessionExpiresKeeps
<1>10. CASE UNCHANGED accVars
  <2>1. AccTypes' /\ TokensOK' /\ SessionsOK' /\ UsesOK' /\ LogoutsOK' /\ ResetEndsSessions'
    BY <1>10 DEF accVars, AccInv, AccTypes, TokensOK, SessionsOK, UsesOK, LogoutsOK, ResetEndsSessions
  <2>2. RequestsOK' /\ HoldersOK' /\ LastMail' /\ GuessesOK'
    BY <1>10 DEF accVars, AccInv, RequestsOK, HoldersOK, LastMail, GuessesOK, Transacting, Open, Guessing
  <2>. QED  BY <2>1, <2>2 DEF AccInv
<1>. QED  BY <1>1, <1>2, <1>3, <1>4, <1>5, <1>6, <1>7, <1>8, <1>9, <1>10 DEF AccNext

LEMMA AccSafe == AccInv => AccountHolds
<1> SUFFICES ASSUME AccInv PROVE AccountHolds  OBVIOUS
<1>1. PICK n \in 0..MaxTokens : token \in [1..n -> MailTokens]
  BY DEF AccInv, TokensOK
<1>2. PICK m \in 0..MaxSessions : sessions \in [1..m -> LoginSessions]
  BY DEF AccInv, SessionsOK
<1>3. Size(token) <= MaxTokens /\ Size(sessions) <= MaxSessions
  BY <1>1, <1>2, SizeOf, AccountsAssumption
<1>4. AccTypeOK
  BY <1>3 DEF AccTypeOK, AccInv, AccTypes, HoldersOK, SessionsOK, Transacting
<1>5. TokenUsedOnce /\ EndedOnce
  BY DEF AccInv, UsesOK, LogoutsOK, TokenUsedOnce, EndedOnce
<1>6. OneVerifyToken
  <2>. DEFINE S == {t \in DOMAIN token : token[t].kind = "verify" /\ Usable(t)}
  <2>1. ~raced => \A x, y \in S : x = y
    BY DEF AccInv, LastMail, Open, Usable
  <2>2. ~raced => Cardinality(S) <= 1
    BY <2>1, NoneOrOne
  <2>. QED  BY <2>2 DEF OneVerifyToken
<1>7. AttemptsBounded
  BY GuessersAreClients, AccountsAssumption DEF AccInv, AccTypes, GuessesOK, AttemptsBounded
<1>. QED  BY <1>4, <1>5, <1>6, <1>7 DEF AccountHolds, AccInv

----------------------------------------------------------------------------
(* Limits: the login limiter *)
\* The ages of a window: all within it, the oldest first.
WindowOK(ages, window) ==
    /\ ages \in Seq(Nat)
    /\ \A i \in 1..Len(ages) : ages[i] < window
    /\ \A i, j \in 1..Len(ages) : i < j => ages[j] <= ages[i]
\* Whoever still waits as told waits until the oldest entry is gone.
LimInv ==
    /\ WindowOK(failed, WINDOW) /\ WindowOK(creates, CREATE_WINDOW)
    /\ told \in [{"login", "create"} -> 0..NoWait] /\ exact \in BOOLEAN
    /\ Len(creates) <= MAX_CREATES
    /\ told["login"] # NoWait /\ exact =>
          Len(failed) < MAX_FAILURES \/ (Len(failed) = MAX_FAILURES /\ Head(failed) + told["login"] >= LOCKOUT)
    /\ told["create"] # NoWait =>
          Len(creates) < MAX_CREATES \/ Head(creates) + told["create"] >= CREATE_WINDOW

LEMMA UpTo == ASSUME NEW n \in Nat PROVE IsFiniteSet(1..n) /\ Cardinality(1..n) = n
<1>1. IsFiniteSet(1..n) /\ Cardinality(1..n) = IF 1 > n THEN 0 ELSE n - 1 + 1
  BY FS_Interval
<1>. QED  BY <1>1

\* The gone are the first: no entry behind as many as are gone is gone.
LEMMA GoneAreFirst ==
    ASSUME NEW ages, NEW window \in Nat, WindowOK(ages, window)
    PROVE  LET gone == Cardinality({i \in DOMAIN ages : ages[i] + 1 >= window})
           IN  gone \in 0..Len(ages) /\ \A i \in 1..Len(ages) : gone < i => ages[i] + 1 < window
<1>. DEFINE S == {i \in DOMAIN ages : ages[i] + 1 >= window}
<1>1. Len(ages) \in Nat /\ DOMAIN ages = 1..Len(ages) /\ \A i \in 1..Len(ages) : ages[i] \in Nat
  BY DEF WindowOK
<1>2. IsFiniteSet(1..Len(ages)) /\ Cardinality(1..Len(ages)) = Len(ages)
  BY <1>1, UpTo
<1>3. S \subseteq 1..Len(ages)
  BY <1>1
<1>4. IsFiniteSet(S) /\ Cardinality(S) \in Nat /\ Cardinality(S) <= Len(ages)
  BY <1>2, <1>3, FS_Subset, FS_CardinalityType
<1>5. ASSUME NEW i \in 1..Len(ages), Cardinality(S) < i, ages[i] + 1 >= window PROVE FALSE
  <2>1. 1..i \subseteq S
    <3>1. ASSUME NEW k \in 1..i PROVE k \in S
      <4>1. k \in 1..Len(ages) /\ ages[i] <= ages[k]
        BY <1>1 DEF WindowOK
      <4>. QED  BY <4>1, <1>1, <1>5
    <3>. QED  BY <3>1
  <2>2. Cardinality(1..i) = i
    BY <1>1, UpTo
  <2>3. Cardinality(1..i) <= Cardinality(S)
    BY <2>1, <1>4, FS_Subset
  <2>. QED  BY <2>2, <2>3, <1>4, <1>5
<1>6. \A i \in 1..Len(ages) : Cardinality(S) < i => ages[i] + 1 < window
  BY <1>1, <1>5
<1>. QED  BY <1>4, <1>6

LEMMA AgedStays ==
    ASSUME NEW ages, NEW window \in Nat, WindowOK(ages, window)
    PROVE  /\ WindowOK(Aged(ages, window), window) /\ Len(Aged(ages, window)) <= Len(ages)
           /\ Len(Aged(ages, window)) = Len(ages) /\ ages # <<>> => Head(Aged(ages, window)) = Head(ages) + 1
<1>. DEFINE gone == Cardinality({i \in DOMAIN ages : ages[i] + 1 >= window})
            rest == [i \in 1..Len(ages) - gone |-> ages[i + gone] + 1]
<1>1. gone \in 0..Len(ages) /\ \A i \in 1..Len(ages) : gone < i => ages[i] + 1 < window
  BY GoneAreFirst
<1>2. Aged(ages, window) = rest
  BY DEF Aged
<1>. HIDE DEF gone
<1>3. Len(ages) \in Nat /\ \A i \in 1..Len(ages) : ages[i] \in Nat
  BY DEF WindowOK
<1>4. \A i \in 1..Len(ages) - gone : i + gone \in 1..Len(ages) /\ rest[i] = ages[i + gone] + 1 /\ rest[i] \in Nat
  BY <1>1, <1>3
<1>5. rest \in Seq(Nat) /\ Len(rest) = Len(ages) - gone
  BY <1>1, <1>3, <1>4
<1>6. \A i \in 1..Len(rest) : rest[i] < window
  BY <1>1, <1>4, <1>5
<1>7. \A i, j \in 1..Len(rest) : i < j => rest[j] <= rest[i]
  BY <1>1, <1>3, <1>4, <1>5 DEF WindowOK
<1>8. Len(rest) = Len(ages) /\ ages # <<>> => Head(rest) = Head(ages) + 1
  <2>. SUFFICES ASSUME Len(rest) = Len(ages), ages # <<>> PROVE Head(rest) = Head(ages) + 1
    OBVIOUS
  <2>1. gone = 0 /\ Len(ages) >= 1
    BY <1>1, <1>3, <1>5 DEF WindowOK
  <2>2. rest[1] = ages[1] + 1
    BY <2>1, <1>4, <1>3
  <2>. QED  BY <2>1, <2>2, <1>5 DEF WindowOK
<1>9. WindowOK(rest, window) /\ Len(rest) <= Len(ages)
  BY <1>1, <1>3, <1>5, <1>6, <1>7 DEF WindowOK
<1>. HIDE DEF rest
<1>. QED  BY <1>2, <1>8, <1>9

LEMMA AppendStays ==
    ASSUME NEW ages, NEW window \in Nat \ {0}, WindowOK(ages, window)
    PROVE  WindowOK(Append(ages, 0), window) /\ Len(Append(ages, 0)) = Len(ages) + 1
<1>1. ages \in Seq(Nat) /\ Len(ages) \in Nat
  BY DEF WindowOK
<1>2. Append(ages, 0) \in Seq(Nat) /\ Len(Append(ages, 0)) = Len(ages) + 1
      /\ Append(ages, 0)[Len(ages) + 1] = 0 /\ \A i \in 1..Len(ages) : Append(ages, 0)[i] = ages[i]
  BY <1>1, AppendProperties
<1>3. \A i \in 1..Len(ages) + 1 : i \in 1..Len(ages) \/ i = Len(ages) + 1
  BY <1>1
<1>4. \A i \in 1..Len(ages) : ages[i] \in Nat
  BY <1>1
<1>5. \A i \in 1..Len(ages) + 1 : Append(ages, 0)[i] < window
  BY <1>2, <1>3 DEF WindowOK
<1>6. \A i, j \in 1..Len(ages) + 1 : i < j => Append(ages, 0)[j] <= Append(ages, 0)[i]
  BY <1>2, <1>3, <1>4 DEF WindowOK
<1>. QED  BY <1>2, <1>5, <1>6 DEF WindowOK

LEMMA LimitsAre ==
    /\ WINDOW \in Nat \ {0} /\ CREATE_WINDOW \in Nat \ {0} /\ LOCKOUT \in Nat
    /\ MAX_FAILURES \in Nat \ {0} /\ MAX_CREATES \in Nat \ {0} /\ NoWait = LOCKOUT + 1
    /\ WINDOW <= LOCKOUT /\ CREATE_WINDOW <= LOCKOUT
BY LimitsAssumption DEF NoWait

LEMMA LimInitially == LimInit => LimInv
<1> SUFFICES ASSUME LimInit PROVE LimInv  OBVIOUS
<1>1. WindowOK(<<>>, WINDOW) /\ WindowOK(<<>>, CREATE_WINDOW) /\ Len(<<>>) = 0
  BY DEF WindowOK
<1>2. told \in [{"login", "create"} -> 0..NoWait] /\ told["login"] = NoWait /\ told["create"] = NoWait
  BY LimitsAre DEF LimInit
<1>. QED  BY <1>1, <1>2, LimitsAre DEF LimInit, LimInv

\* The oldest entry of a window that is not empty.
LEMMA OldestIs ==
    ASSUME NEW ages, NEW window \in Nat, WindowOK(ages, window), Len(ages) >= 1
    PROVE  Head(ages) \in Nat /\ Head(ages) < window
<1>1. Head(ages) = ages[1] /\ 1 \in 1..Len(ages)
  BY DEF WindowOK
<1>. QED  BY <1>1 DEF WindowOK

LEMMA CheckKeeps == ASSUME LimInv, Check PROVE LimInv'
<1>1. CASE Failures >= MAX_FAILURES
  <2>1. told' = [told EXCEPT !["login"] = RetryAfter] /\ exact' = (Len(failed) = MAX_FAILURES)
        /\ UNCHANGED <<failed, creates>>
    BY <1>1 DEF Check, Failures
  <2>2. Head(failed) \in Nat /\ Head(failed) < WINDOW
    BY <1>1, OldestIs, LimitsAre DEF LimInv, Failures, WindowOK
  <2>3. RetryAfter \in 1..LOCKOUT /\ Head(failed) + RetryAfter >= LOCKOUT
    BY <2>2, LimitsAre DEF RetryAfter, AtLeast1, Oldest
  <2>4. told' \in [{"login", "create"} -> 0..NoWait] /\ told'["login"] = RetryAfter
          /\ told'["create"] = told["create"]
    BY <2>1, <2>3, LimitsAre DEF LimInv
  <2>. QED  BY <2>1, <2>3, <2>4 DEF LimInv, WindowOK
<1>2. CASE Failures < MAX_FAILURES
  <2>1. UNCHANGED <<failed, creates, told, exact>>
    BY <1>2, LimitsAre DEF Check, Failures, LimInv, WindowOK
  <2>. QED  BY <2>1 DEF LimInv, WindowOK
<1>3. Failures \in Nat
  BY DEF Failures, LimInv, WindowOK
<1>. QED  BY <1>1, <1>2, <1>3, LimitsAre

LEMMA RecordAttemptKeeps == ASSUME LimInv, NEW success \in BOOLEAN, RecordAttempt(success) PROVE LimInv'
<1>1. CASE success
  <2>1. failed' = <<>> /\ UNCHANGED <<creates, told, exact>>
    BY <1>1 DEF RecordAttempt
  <2>2. WindowOK(<<>>, WINDOW) /\ Len(<<>>) = 0
    BY DEF WindowOK
  <2>3. WindowOK(failed, WINDOW)' /\ Len(failed') = 0
    BY <2>1, <2>2
  <2>. QED  BY <2>1, <2>3, LimitsAre DEF LimInv, WindowOK
<1>2. CASE ~success
  <2>1. failed' = Append(failed, 0) /\ told' = [told EXCEPT !["login"] = NoWait] /\ UNCHANGED <<creates, exact>>
    BY <1>2 DEF RecordAttempt
  <2>2. WindowOK(failed, WINDOW)'
    BY <2>1, AppendStays, LimitsAre DEF LimInv
  <2>3. told' \in [{"login", "create"} -> 0..NoWait] /\ told'["login"] = NoWait /\ told'["create"] = told["create"]
    BY <2>1, LimitsAre DEF LimInv
  <2>. QED  BY <2>1, <2>2, <2>3 DEF LimInv, WindowOK
<1>. QED  BY <1>1, <1>2

LEMMA CheckAndRecordKeeps == ASSUME LimInv, CheckAndRecord PROVE LimInv'
<1>1. CASE Len(creates) >= MAX_CREATES
  <2>1. told' = [told EXCEPT !["create"] = CreateRetryAfter] /\ UNCHANGED <<failed, creates, exact>>
    BY <1>1 DEF CheckAndRecord
  <2>2. Head(creates) \in Nat /\ Head(creates) < CREATE_WINDOW
    BY <1>1, OldestIs, LimitsAre DEF LimInv, WindowOK
  <2>3. CreateRetryAfter \in 1..LOCKOUT /\ Head(creates) + CreateRetryAfter >= CREATE_WINDOW
    BY <2>2, LimitsAre DEF CreateRetryAfter, AtLeast1, Oldest
  <2>4. told' \in [{"login", "create"} -> 0..NoWait] /\ told'["create"] = CreateRetryAfter
          /\ told'["login"] = told["login"]
    BY <2>1, <2>3, LimitsAre DEF LimInv
  <2>. QED  BY <2>1, <2>3, <2>4 DEF LimInv, WindowOK
<1>2. CASE Len(creates) < MAX_CREATES
  <2>1. creates' = Append(creates, 0) /\ told' = [told EXCEPT !["create"] = NoWait] /\ UNCHANGED <<failed, exact>>
    BY <1>2, LimitsAre DEF CheckAndRecord, LimInv, WindowOK
  <2>2. WindowOK(creates, CREATE_WINDOW)' /\ Len(creates') = Len(creates) + 1
    BY <2>1, AppendStays, LimitsAre DEF LimInv
  <2>3. told' \in [{"login", "create"} -> 0..NoWait] /\ told'["create"] = NoWait /\ told'["login"] = told["login"]
    BY <2>1, LimitsAre DEF LimInv
  <2>4. Len(creates') <= MAX_CREATES
    BY <1>2, <2>2, LimitsAre DEF LimInv, WindowOK
  <2>. QED  BY <2>1, <2>2, <2>3, <2>4 DEF LimInv, WindowOK
<1>3. Len(creates) \in Nat
  BY DEF LimInv, WindowOK
<1>. QED  BY <1>1, <1>2, <1>3, LimitsAre

LEMMA ClockTicksKeeps == ASSUME LimInv, ClockTicks PROVE LimInv'
<1>1. /\ WindowOK(failed, WINDOW)' /\ Len(failed') <= Len(failed) /\ Len(failed') \in Nat
      /\ Len(failed') = Len(failed) /\ failed # <<>> => Head(failed') = Head(failed) + 1
  <2>1. failed' = Aged(failed, WINDOW) /\ WindowOK(failed, WINDOW)
    BY DEF ClockTicks, LimInv
  <2>2. /\ WindowOK(Aged(failed, WINDOW), WINDOW) /\ Len(Aged(failed, WINDOW)) <= Len(failed)
        /\ Len(Aged(failed, WINDOW)) = Len(failed) /\ failed # <<>> => Head(Aged(failed, WINDOW)) = Head(failed) + 1
    BY <2>1, AgedStays, LimitsAre
  <2>3. WindowOK(failed', WINDOW)
    BY <2>1, <2>2
  <2>. QED  BY <2>1, <2>2, <2>3 DEF WindowOK
<1>2. /\ WindowOK(creates, CREATE_WINDOW)' /\ Len(creates') <= Len(creates) /\ Len(creates') \in Nat
      /\ Len(creates') = Len(creates) /\ creates # <<>> => Head(creates') = Head(creates) + 1
  <2>1. creates' = Aged(creates, CREATE_WINDOW) /\ WindowOK(creates, CREATE_WINDOW)
    BY DEF ClockTicks, LimInv
  <2>2. /\ WindowOK(Aged(creates, CREATE_WINDOW), CREATE_WINDOW) /\ Len(Aged(creates, CREATE_WINDOW)) <= Len(creates)
        /\ Len(Aged(creates, CREATE_WINDOW)) = Len(creates) /\ creates # <<>>
                => Head(Aged(creates, CREATE_WINDOW)) = Head(creates) + 1
    BY <2>1, AgedStays, LimitsAre
  <2>3. WindowOK(creates', CREATE_WINDOW)
    BY <2>1, <2>2
  <2>. QED  BY <2>1, <2>2, <2>3 DEF WindowOK
<1>3. /\ told' \in [{"login", "create"} -> 0..NoWait] /\ exact' = exact
      /\ \A k \in {"login", "create"} : told'[k] = IF told[k] \in {0, NoWait} THEN told[k] ELSE told[k] - 1
  BY LimitsAre DEF ClockTicks, LimInv
<1>4. told'["login"] # NoWait /\ exact' =>
          Len(failed') < MAX_FAILURES \/ (Len(failed') = MAX_FAILURES /\ Head(failed') + told'["login"] >= LOCKOUT)
  <2>. SUFFICES ASSUME told'["login"] # NoWait, exact, Len(failed') >= MAX_FAILURES
                PROVE  Len(failed') = MAX_FAILURES /\ Head(failed') + told'["login"] >= LOCKOUT
    BY <1>1, <1>3, LimitsAre
  <2>1. told["login"] # NoWait /\ told["login"] \in 0..NoWait
    BY <1>3 DEF LimInv
  <2>2. Len(failed) = MAX_FAILURES /\ Head(failed) + told["login"] >= LOCKOUT /\ Len(failed') = Len(failed)
    BY <2>1, <1>1, LimitsAre DEF LimInv, WindowOK
  <2>3. Head(failed) \in Nat /\ Head(failed) < WINDOW /\ failed # <<>>
    BY <2>2, OldestIs, LimitsAre DEF LimInv, WindowOK
  <2>4. told["login"] # 0
    BY <2>2, <2>3, LimitsAre
  <2>. QED  BY <1>1, <1>3, <2>1, <2>2, <2>3, <2>4, LimitsAre
<1>5. told'["create"] # NoWait => Len(creates') < MAX_CREATES \/ Head(creates') + told'["create"] >= CREATE_WINDOW
  <2>. SUFFICES ASSUME told'["create"] # NoWait, Len(creates') >= MAX_CREATES
                PROVE  Head(creates') + told'["create"] >= CREATE_WINDOW
    BY <1>2, LimitsAre
  <2>1. told["create"] # NoWait /\ told["create"] \in 0..NoWait
    BY <1>3 DEF LimInv
  <2>2. Len(creates) >= MAX_CREATES /\ Head(creates) + told["create"] >= CREATE_WINDOW /\ Len(creates') = Len(creates)
    BY <2>1, <1>2, LimitsAre DEF LimInv, WindowOK
  <2>3. Head(creates) \in Nat /\ Head(creates) < CREATE_WINDOW /\ creates # <<>>
    BY <2>2, OldestIs, LimitsAre DEF LimInv, WindowOK
  <2>4. told["create"] # 0
    BY <2>2, <2>3, LimitsAre
  <2>. QED  BY <1>2, <1>3, <2>1, <2>2, <2>3, <2>4, LimitsAre
<1>6. Len(creates') <= MAX_CREATES /\ exact' \in BOOLEAN
  BY <1>2, <1>3, LimitsAre DEF LimInv, WindowOK
<1>. QED  BY <1>1, <1>2, <1>3, <1>4, <1>5, <1>6 DEF LimInv

LEMMA LimStep == LimInv /\ [LimNext]_limVars => LimInv'
<1> SUFFICES ASSUME LimInv, [LimNext]_limVars PROVE LimInv'  OBVIOUS
<1>1. CASE UNCHANGED limVars
  BY <1>1 DEF limVars, LimInv, WindowOK
<1>. QED  BY <1>1, CheckKeeps, RecordAttemptKeeps, CheckAndRecordKeeps, ClockTicksKeeps DEF LimNext

LEMMA LimSafe == LimInv => WaitingSuffices
<1> SUFFICES ASSUME LimInv PROVE WaitingSuffices  OBVIOUS
<1>1. told["login"] = 0 /\ exact => Failures < MAX_FAILURES
  <2>. SUFFICES ASSUME told["login"] = 0, exact, ~(Len(failed) < MAX_FAILURES) PROVE FALSE
    BY DEF Failures
  <2>1. Len(failed) = MAX_FAILURES /\ Head(failed) + 0 >= LOCKOUT
    BY LimitsAre DEF LimInv
  <2>. QED  BY <2>1, OldestIs, LimitsAre DEF LimInv, WindowOK
<1>2. told["create"] = 0 => Len(creates) < MAX_CREATES
  <2>. SUFFICES ASSUME told["create"] = 0, ~(Len(creates) < MAX_CREATES) PROVE FALSE
    OBVIOUS
  <2>1. Len(creates) >= MAX_CREATES /\ Head(creates) + 0 >= CREATE_WINDOW
    BY LimitsAre DEF LimInv, WindowOK
  <2>2. Head(creates) \in Nat /\ Head(creates) < CREATE_WINDOW
    BY <2>1, OldestIs, LimitsAre DEF LimInv
  <2>. QED  BY <2>1, <2>2, LimitsAre
<1>. QED  BY <1>1, <1>2 DEF WaitingSuffices

\* An account is safe from whoever holds an old link, an old session or the
\* wrong password: each mailed token works once, a reset ends the sessions, a
\* logout stays, guesses are bounded, and who waits as told is let in again.
THEOREM LoginsAreSafe == AccSpec /\ LimSpec => []LoginsHold
<1>1. AccSpec => []AccountHolds
  BY AccInitially, AccStep, AccSafe, PTL DEF AccSpec
<1>2. LimSpec => []WaitingSuffices
  BY LimInitially, LimStep, LimSafe, PTL DEF LimSpec
<1>. QED  BY <1>1, <1>2, PTL DEF LoginsHold

----------------------------------------------------------------------------
(* GitHubApp *)
\* What a running callback knows.
AppTypes ==
    /\ config \in [Tickets -> {"none", "active", "inactive"}]
    /\ DOMAIN loader = Pods /\ DOMAIN enrol = Tickets
    /\ lastPod \in Pods \cup {"-"} /\ excused \in BOOLEAN
    /\ \A k \in Tickets : Running(k) => enrol[k].pod \in Pods
\* A callback that waits for locks has read the rows.
WaitShape == \A k \in Tickets : enrol[k].step = "wait" => DOMAIN enrol[k] = {"step", "pod", "rows"}
ActiveIsOne ==
    /\ \A j, k \in ActiveRows : j = k
    /\ \A k \in Tickets : config[k] # "none" => ActiveRows # {}
    /\ lastPod # "-" => ActiveRows # {}
Reloading(k) == enrol[k].step \in {"reload", "swap"} /\ enrol[k].pod = lastPod
\* One callback at a time, and while it has not swapped the loader it is on its way.
ReloadsInTurn ==
    ~excused => /\ \A j, k \in Tickets : Running(j) /\ Running(k) => j = k
                /\ \A k \in Tickets : enrol[k].step = "swap" => enrol[k].row \in ActiveRows
                /\ lastPod # "-" => loader[lastPod] \in ActiveRows \/ \E k \in Tickets : Reloading(k)
AppInv == AppTypes /\ WaitShape /\ ActiveIsOne /\ ReloadsInTurn

LEMMA AppInitially == AppInit => AppInv
<1> SUFFICES ASSUME AppInit PROVE AppInv  OBVIOUS
<1>1. \A k \in Tickets : enrol[k].step = "none" /\ config[k] = "none"
  BY DEF AppInit, NotYet
<1>2. AppTypes
  BY <1>1 DEF AppInit, AppTypes, Running
<1>3. ActiveIsOne
  BY <1>1 DEF AppInit, ActiveIsOne, ActiveRows
<1>4. ReloadsInTurn /\ WaitShape
  BY <1>1 DEF AppInit, ReloadsInTurn, Running, WaitShape
<1>. QED  BY <1>2, <1>3, <1>4 DEF AppInv

\* A step of one callback that stores nothing.
OneCallback(k) ==
    /\ UNCHANGED <<config, lastPod>>
    /\ DOMAIN enrol' = Tickets /\ \A j \in Tickets : j # k => enrol'[j] = enrol[j]

LEMMA OthersRun ==
    ASSUME NEW k \in Tickets, OneCallback(k)
    PROVE  ActiveRows' = ActiveRows /\ \A j \in Tickets : j # k => (Running(j)' <=> Running(j))
            /\ (Reloading(j)' <=> Reloading(j))
BY DEF OneCallback, ActiveRows, Running, Reloading

LEMMA OthersWait ==
    ASSUME AppInv, NEW k \in Tickets, OneCallback(k), enrol'[k].step # "wait"
    PROVE  WaitShape'
BY DEF AppInv, WaitShape, OneCallback

LEMMA ConsumeTicketKeeps ==
    ASSUME AppInv, NEW k \in Tickets, NEW a \in Admins, NEW p \in Pods, ConsumeTicket(k, a, p)
    PROVE  AppInv'
<1>1. CASE UNCHANGED <<enrol, excused>>
  BY <1>1 DEF ConsumeTicket, AppInv, AppTypes, WaitShape, ActiveIsOne, ReloadsInTurn, ActiveRows, Running, Reloading
<1>2. CASE /\ enrol' = [enrol EXCEPT ![k] = [step |-> "replace", pod |-> p]]
           /\ excused' = (excused \/ \E j \in Tickets : Running(j))
  <2>1. OneCallback(k) /\ enrol'[k].step = "replace" /\ enrol'[k].pod = p /\ loader' = loader
    BY <1>2 DEF ConsumeTicket, AppInv, AppTypes, OneCallback
  <2>2. AppTypes'
    BY <2>1, <1>2 DEF AppInv, AppTypes, OneCallback, Running
  <2>3. ActiveIsOne'
    BY <2>1, OthersRun DEF AppInv, ActiveIsOne, OneCallback, ActiveRows
  <2>4. ReloadsInTurn'
    <3>. SUFFICES ASSUME ~excused' PROVE ReloadsInTurn'
      BY DEF ReloadsInTurn
    <3>1. ~excused /\ \A j \in Tickets : ~Running(j)
      BY <1>2 DEF AppInv, AppTypes
    <3>2. \A j \in Tickets : ~Reloading(j)
      BY <3>1 DEF Running, Reloading
    <3>3. lastPod # "-" => loader[lastPod] \in ActiveRows
      BY <3>1, <3>2 DEF AppInv, ReloadsInTurn
    <3>4. \A j \in Tickets : Running(j)' => j = k
      BY <3>1, <2>1, OthersRun
    <3>5. \A j \in Tickets : enrol'[j].step # "swap"
      BY <3>1, <2>1 DEF OneCallback, Running
    <3>. QED  BY <3>3, <3>4, <3>5, <2>1, OthersRun DEF ReloadsInTurn, OneCallback
  <2>. QED  BY <2>1, <2>2, <2>3, <2>4, OthersWait DEF AppInv
<1>. QED  BY <1>1, <1>2 DEF ConsumeTicket

\* The statements of insert_replacing before the INSERT.
LEMMA ReplacingKeeps ==
    ASSUME AppInv, NEW k \in Tickets, ReplaceSnapshot(k) \/ ReplaceLocks(k)
    PROVE  AppInv'
<1>1. /\ OneCallback(k) /\ UNCHANGED <<loader, excused>>
      /\ enrol[k].step \in {"replace", "wait"} /\ enrol'[k].step \in {"wait", "insert"}
              /\ enrol'[k].pod = enrol[k].pod
  <2>1. CASE ReplaceSnapshot(k)
    BY <2>1 DEF ReplaceSnapshot, AppInv, AppTypes, OneCallback
  <2>2. CASE ReplaceLocks(k)
    <3>1. enrol[k].step = "wait" /\ DOMAIN enrol[k] = {"step", "pod", "rows"}
      BY <2>2 DEF ReplaceLocks, AppInv, WaitShape
    <3>2. enrol'[k] = [enrol[k] EXCEPT !.step = "insert", !.rows = @ \cap ActiveRows]
      BY <2>2 DEF ReplaceLocks, AppInv, AppTypes
    <3>3. enrol'[k].step = "insert" /\ enrol'[k].pod = enrol[k].pod
      BY <3>1, <3>2
    <3>. QED  BY <2>2, <3>1, <3>3 DEF ReplaceLocks, AppInv, AppTypes, OneCallback
  <2>. QED  BY <2>1, <2>2
<1>b. ReplaceLocks(k) => enrol'[k].step = "insert"
  <2>. SUFFICES ASSUME ReplaceLocks(k) PROVE enrol'[k].step = "insert"
    OBVIOUS
  <2>1. DOMAIN enrol[k] = {"step", "pod", "rows"}
          /\ enrol'[k] = [enrol[k] EXCEPT !.step = "insert", !.rows = @ \cap ActiveRows]
    BY DEF ReplaceLocks, AppInv, WaitShape, AppTypes
  <2>. QED  BY <2>1
<1>2. Running(k) /\ ~Reloading(k)
  BY <1>1 DEF Running, Reloading
<1>3. AppTypes'
  BY <1>1, <1>2 DEF AppInv, AppTypes, OneCallback, Running
<1>4. ActiveIsOne'
  BY <1>1, OthersRun DEF AppInv, ActiveIsOne, OneCallback, ActiveRows
<1>5. ReloadsInTurn'
  <2>1. \A j \in Tickets : (Running(j)' => Running(j)) /\ (Reloading(j) => Reloading(j)')
    BY <1>1, <1>2, OthersRun
  <2>2. \A j \in Tickets : enrol'[j].step = "swap" => enrol[j].step = "swap" /\ enrol'[j].row = enrol[j].row
    BY <1>1 DEF OneCallback
  <2>. QED  BY <2>1, <2>2, <1>1, OthersRun DEF AppInv, ReloadsInTurn, OneCallback
<1>6. WaitShape'
  <2>1. CASE ReplaceSnapshot(k)
    <3>1. enrol'[k] = [step |-> "wait", pod |-> enrol[k].pod, rows |-> ActiveRows]
      BY <2>1 DEF ReplaceSnapshot, AppInv, AppTypes
    <3>2. DOMAIN enrol'[k] = {"step", "pod", "rows"}
      BY <3>1
    <3>. QED  BY <1>1, <3>2 DEF AppInv, WaitShape, OneCallback
  <2>2. CASE ReplaceLocks(k)
    BY <1>b, <2>2, OthersWait, <1>1
  <2>. QED  BY <2>1, <2>2
<1>. QED  BY <1>3, <1>4, <1>5, <1>6 DEF AppInv

\* A callback that stores nothing and ends: of a step before the reload.
LEMMA GivesUp ==
    ASSUME AppInv, NEW k \in Tickets, OneCallback(k), UNCHANGED <<loader, excused>>,
           enrol'[k].step = "over", enrol[k].step \notin {"reload", "swap"}
    PROVE  AppInv'
<1>1. ~Running(k)' /\ ~Reloading(k)
  BY DEF Running, Reloading
<1>2. AppTypes'
  BY <1>1 DEF AppInv, AppTypes, OneCallback, Running
<1>3. ActiveIsOne'
  BY OthersRun DEF AppInv, ActiveIsOne, OneCallback, ActiveRows
<1>4. ReloadsInTurn'
  <2>1. \A j \in Tickets : (Running(j)' => Running(j)) /\ (Reloading(j) => Reloading(j)')
    BY <1>1, OthersRun
  <2>2. \A j \in Tickets : enrol'[j].step = "swap" => enrol[j].step = "swap" /\ enrol'[j].row = enrol[j].row
    BY DEF OneCallback
  <2>. QED  BY <2>1, <2>2, OthersRun DEF AppInv, ReloadsInTurn, OneCallback
<1>. QED  BY <1>2, <1>3, <1>4, OthersWait DEF AppInv

LEMMA InsertReplacingKeeps ==
    ASSUME AppInv, NEW k \in Tickets, InsertReplacing(k)
    PROVE  AppInv'
<1>1. enrol[k].step = "insert" /\ UNCHANGED loader
  BY DEF InsertReplacing
<1>2. CASE Leave(k) /\ UNCHANGED <<config, lastPod, excused>>
  <2>1. OneCallback(k) /\ enrol'[k].step = "over"
    BY <1>2 DEF Leave, OneCallback, AppInv, AppTypes
  <2>. QED  BY <1>1, <1>2, <2>1, GivesUp
<1>a. ASSUME ActiveRows \ enrol[k].rows = {}, Replaced(k)
      PROVE  config' \in [Tickets -> {"none", "active", "inactive"}] /\ ActiveRows' = {k}
  <2>1. \A j \in Tickets : config'[j] = IF j = k THEN "active"
          ELSE IF j \in enrol[k].rows THEN "inactive" ELSE config[j]
    BY <1>a DEF Replaced
  <2>2. config' \in [Tickets -> {"none", "active", "inactive"}]
    BY <1>a DEF Replaced, AppInv, AppTypes
  <2>3. ActiveRows' = {k}
    BY <1>a, <2>1 DEF ActiveRows
  <2>. QED  BY <2>2, <2>3
<1>b. CASE /\ ActiveRows \ enrol[k].rows = {} /\ Replaced(k) /\ Leave(k)
           /\ lastPod' = enrol[k].pod /\ excused' = TRUE
  <2>1. config' \in [Tickets -> {"none", "active", "inactive"}] /\ ActiveRows' = {k}
    BY <1>a, <1>b
  <2>2. enrol[k].pod \in Pods /\ DOMAIN enrol = Tickets
    BY <1>1 DEF AppInv, AppTypes, Running
  <2>3. /\ DOMAIN enrol' = Tickets /\ enrol'[k].step = "over"
        /\ \A j \in Tickets : j # k => enrol'[j] = enrol[j]
    BY <1>b, <2>2 DEF Leave
  <2>4. AppTypes' /\ WaitShape'
    BY <1>1, <1>b, <2>1, <2>2, <2>3 DEF AppInv, AppTypes, WaitShape, Running
  <2>5. ActiveIsOne' /\ ReloadsInTurn'
    BY <1>b, <2>1 DEF ActiveIsOne, ReloadsInTurn
  <2>. QED  BY <2>4, <2>5 DEF AppInv
<1>3. CASE /\ ActiveRows \ enrol[k].rows = {} /\ Replaced(k)
           /\ enrol' = [enrol EXCEPT ![k] = [step |-> "reload", pod |-> enrol[k].pod]]
           /\ lastPod' = enrol[k].pod /\ UNCHANGED excused
  <2>2. config' \in [Tickets -> {"none", "active", "inactive"}]
    BY <1>a, <1>3
  <2>3. ActiveRows' = {k}
    BY <1>a, <1>3
  <2>4. /\ DOMAIN enrol' = Tickets /\ enrol'[k].step = "reload" /\ enrol'[k].pod = enrol[k].pod
          /\ enrol[k].pod \in Pods
        /\ \A j \in Tickets : j # k => enrol'[j] = enrol[j]
    <3>1. enrol[k].pod \in Pods /\ DOMAIN enrol = Tickets
      BY <1>1 DEF AppInv, AppTypes, Running
    <3>. QED  BY <3>1, <1>3
  <2>5. AppTypes'
    BY <1>1, <1>3, <2>2, <2>4 DEF AppInv, AppTypes, Running
  <2>6. ActiveIsOne'
    BY <2>3 DEF ActiveIsOne
  <2>7. ~excused => \A j \in Tickets : Running(j) => j = k
    BY <1>1 DEF AppInv, ReloadsInTurn, Running
  <2>8. Reloading(k)' /\ \A j \in Tickets : j # k => (Running(j)' <=> Running(j))
    BY <1>3, <2>4 DEF Reloading, Running
  <2>9. ~excused => \A j \in Tickets : enrol'[j].step # "swap"
    BY <2>4, <2>7 DEF Running
  <2>10. ReloadsInTurn'
    BY <1>1, <1>3, <2>7, <2>8, <2>9 DEF ReloadsInTurn
  <2>11. WaitShape'
    BY <2>4 DEF AppInv, WaitShape
  <2>. QED  BY <2>5, <2>6, <2>10, <2>11 DEF AppInv
<1>. QED  BY <1>b, <1>2, <1>3 DEF InsertReplacing

LEMMA LoadActiveKeeps ==
    ASSUME AppInv, NEW k \in Tickets, LoadActive(k)
    PROVE  AppInv'
<1>1. enrol[k].step = "reload" /\ UNCHANGED <<config, loader, lastPod>>
  BY DEF LoadActive
<1>2. CASE Leave(k) /\ excused' = TRUE
  <2>1. OneCallback(k) /\ enrol'[k].step = "over"
    BY <1>1, <1>2 DEF Leave, OneCallback, AppInv, AppTypes
  <2>2. ~Running(k)'
    BY <2>1 DEF Running
  <2>3. AppTypes'
    BY <1>1, <1>2, <2>1, <2>2 DEF AppInv, AppTypes, OneCallback, Running
  <2>4. ActiveIsOne' /\ ReloadsInTurn'
    BY <1>1, <1>2 DEF AppInv, ActiveIsOne, ActiveRows, ReloadsInTurn
  <2>. QED  BY <2>1, <2>3, <2>4, OthersWait DEF AppInv
<1>3. ASSUME NEW r \in ActiveRows, enrol' = [enrol EXCEPT ![k] = [step |-> "swap", pod |-> enrol[k].pod, row |-> r]],
             excused' = excused
      PROVE  AppInv'
  <2>1. OneCallback(k) /\ enrol'[k].step = "swap" /\ enrol'[k].pod = enrol[k].pod /\ enrol'[k].row = r
    BY <1>1, <1>3 DEF OneCallback, AppInv, AppTypes
  <2>2. Running(k) /\ (Reloading(k) <=> Reloading(k)')
    BY <1>1, <2>1 DEF Running, Reloading
  <2>3. AppTypes'
    BY <1>1, <1>3, <2>1, <2>2 DEF AppInv, AppTypes, OneCallback, Running
  <2>4. ActiveIsOne'
    BY <1>1 DEF AppInv, ActiveIsOne, ActiveRows
  <2>5. \A j \in Tickets : (Running(j)' => Running(j)) /\ (Reloading(j) => Reloading(j)')
    BY <2>1, <2>2, OthersRun
  <2>6. \A j \in Tickets : enrol'[j].step = "swap" => j = k
          \/ (enrol[j].step = "swap" /\ enrol'[j].row = enrol[j].row)
    BY <2>1 DEF OneCallback
  <2>7. ReloadsInTurn'
    BY <1>1, <1>3, <2>1, <2>5, <2>6, OthersRun DEF AppInv, ReloadsInTurn
  <2>. QED  BY <2>1, <2>3, <2>4, <2>7, OthersWait DEF AppInv
<1>. QED  BY <1>2, <1>3 DEF LoadActive

LEMMA SwapLoaderKeeps ==
    ASSUME AppInv, NEW k \in Tickets, SwapLoader(k)
    PROVE  AppInv'
<1>1. /\ enrol[k].step = "swap" /\ OneCallback(k) /\ enrol'[k].step = "over" /\ excused' = excused
      /\ loader' = [loader EXCEPT ![enrol[k].pod] = enrol[k].row]
  BY DEF SwapLoader, Leave, OneCallback, AppInv, AppTypes
<1>2. Running(k) /\ ~Running(k)' /\ enrol[k].pod \in Pods
  <2>1. Running(k) /\ ~Running(k)'
    BY <1>1 DEF Running
  <2>. QED  BY <2>1 DEF AppInv, AppTypes
<1>3. AppTypes'
  BY <1>1, <1>2 DEF AppInv, AppTypes, OneCallback, Running
<1>4. ActiveIsOne'
  BY <1>1, OthersRun DEF AppInv, ActiveIsOne, ActiveRows, OneCallback
<1>5. ReloadsInTurn'
  <2>. SUFFICES ASSUME ~excused PROVE ReloadsInTurn'
    BY <1>1 DEF ReloadsInTurn
  <2>1. enrol[k].row \in ActiveRows /\ \A j \in Tickets : Running(j) => j = k
    BY <1>1, <1>2 DEF AppInv, ReloadsInTurn
  <2>2. \A j \in Tickets : ~Running(j)'
    BY <1>1, <1>2, <2>1, OthersRun
  <2>3. \A j \in Tickets : enrol'[j].step # "swap"
    BY <2>2 DEF Running
  <2>4. lastPod # "-" => loader'[lastPod] \in ActiveRows
    <3>. SUFFICES ASSUME lastPod # "-" PROVE loader'[lastPod] \in ActiveRows
      OBVIOUS
    <3>1. lastPod \in Pods
      BY DEF AppInv, AppTypes
    <3>2. CASE enrol[k].pod = lastPod
      BY <1>1, <2>1, <3>1, <3>2 DEF AppInv, AppTypes
    <3>3. CASE enrol[k].pod # lastPod
      <4>1. \A j \in Tickets : ~Reloading(j)
        BY <2>1, <3>3 DEF Reloading, Running
      <4>2. loader[lastPod] \in ActiveRows
        BY <4>1 DEF AppInv, ReloadsInTurn
      <4>. QED  BY <1>1, <3>1, <3>3, <4>2 DEF AppInv, AppTypes
    <3>. QED  BY <3>2, <3>3
  <2>. QED  BY <1>1, <2>2, <2>3, <2>4, OthersRun DEF ReloadsInTurn, OneCallback
<1>. QED  BY <1>1, <1>3, <1>4, <1>5, OthersWait DEF AppInv

LEMMA PodStartsKeeps ==
    ASSUME AppInv, NEW p \in Pods, PodStarts(p)
    PROVE  AppInv'
<1>1. UNCHANGED <<config, lastPod, excused>> /\ ActiveRows' = ActiveRows
  BY DEF PodStarts, ActiveRows
<1>2. \A k \in Tickets : enrol'[k] = IF Running(k) /\ enrol[k].pod = p THEN [step |-> "over"] ELSE enrol[k]
  BY DEF PodStarts
<1>3. \A k \in Tickets : Running(k)' => enrol'[k] = enrol[k] /\ Running(k)
  <2>1. ASSUME NEW k \in Tickets, Running(k) /\ enrol[k].pod = p PROVE ~Running(k)'
    BY <1>2, <2>1 DEF Running
  <2>2. ASSUME NEW k \in Tickets, ~(Running(k) /\ enrol[k].pod = p) PROVE enrol'[k] = enrol[k]
    BY <1>2, <2>2
  <2>. QED  BY <2>1, <2>2 DEF Running
<1>4. AppTypes'
  <2>1. DOMAIN loader' = Pods /\ DOMAIN enrol' = Tickets
    BY DEF PodStarts, AppInv, AppTypes
  <2>. QED  BY <1>1, <1>3, <2>1 DEF AppInv, AppTypes
<1>5. ActiveIsOne'
  BY <1>1 DEF AppInv, ActiveIsOne
<1>6. ReloadsInTurn'
  <2>. SUFFICES ASSUME ~excused PROVE ReloadsInTurn'
    BY <1>1 DEF ReloadsInTurn
  <2>1. \A k \in Tickets : enrol'[k].step = "swap" => enrol'[k].row \in ActiveRows
    <3>1. \A k \in Tickets : enrol'[k].step = "swap" => Running(k)'
      BY DEF Running
    <3>. QED  BY <3>1, <1>3 DEF AppInv, ReloadsInTurn
  <2>2. lastPod # "-" => loader'[lastPod] \in ActiveRows \/ \E k \in Tickets : Reloading(k)'
    <3>. SUFFICES ASSUME lastPod # "-" PROVE loader'[lastPod] \in ActiveRows \/ \E k \in Tickets : Reloading(k)'
      OBVIOUS
    <3>1. lastPod \in Pods /\ ActiveRows # {}
      BY DEF AppInv, AppTypes, ActiveIsOne
    <3>2. CASE p = lastPod
      <4>1. loader'[p] = CHOOSE k \in ActiveRows : TRUE
        BY <3>1 DEF PodStarts, AppInv, AppTypes
      <4>2. (CHOOSE k \in ActiveRows : TRUE) \in ActiveRows
        BY <3>1
      <4>. QED  BY <3>2, <4>1, <4>2
    <3>3. CASE p # lastPod
      <4>1. loader'[lastPod] = loader[lastPod]
        BY <3>1, <3>3 DEF PodStarts, AppInv, AppTypes
      <4>2. ASSUME NEW k \in Tickets, Reloading(k) PROVE Reloading(k)'
        BY <1>1, <1>2, <3>3, <4>2 DEF Reloading
      <4>. QED  BY <4>1, <4>2 DEF AppInv, ReloadsInTurn
    <3>. QED  BY <3>2, <3>3
  <2>. QED  BY <1>1, <1>3, <2>1, <2>2 DEF AppInv, ReloadsInTurn
<1>7. WaitShape'
  <2>1. \A k \in Tickets : enrol'[k].step = "wait" => Running(k)'
    BY DEF Running
  <2>. QED  BY <2>1, <1>3 DEF AppInv, WaitShape
<1>. QED  BY <1>4, <1>5, <1>6, <1>7 DEF AppInv

LEMMA AppStep == AppInv /\ [AppNext]_appVars => AppInv'
<1> SUFFICES ASSUME AppInv, [AppNext]_appVars PROVE AppInv'  OBVIOUS
<1>1. ASSUME NEW k \in Tickets, NEW a \in Admins, PostAppManifest(k, a) PROVE AppInv'
  BY <1>1 DEF PostAppManifest, AppInv, AppTypes, WaitShape, ActiveIsOne, ReloadsInTurn, ActiveRows, Running, Reloading
<1>2. ASSUME NEW k \in Tickets, TicketExpires(k) PROVE AppInv'
  BY <1>2 DEF TicketExpires, AppInv, AppTypes, WaitShape, ActiveIsOne, ReloadsInTurn, ActiveRows, Running, Reloading
<1>3. CASE UNCHANGED appVars
  BY <1>3 DEF appVars, AppInv, AppTypes, WaitShape, ActiveIsOne, ReloadsInTurn, ActiveRows, Running, Reloading
<1>. QED  BY <1>1, <1>2, <1>3, ConsumeTicketKeeps, ReplacingKeeps, InsertReplacingKeeps, LoadActiveKeeps,
             SwapLoaderKeeps, PodStartsKeeps DEF AppNext

LEMMA AppSafe == AppInv => OneActiveApp /\ LoaderIsActive
<1> SUFFICES ASSUME AppInv PROVE OneActiveApp /\ LoaderIsActive  OBVIOUS
<1>1. ASSUME ActiveRows = {} PROVE OneActiveApp
  <2>1. Cardinality(ActiveRows) = 0 /\ ~ \E k \in Tickets : config[k] # "none"
    BY <1>1, FS_EmptySet DEF AppInv, ActiveIsOne
  <2>. QED  BY <2>1, Zenon DEF OneActiveApp
<1>2. ASSUME ActiveRows # {} PROVE OneActiveApp
  <2>1. PICK k : k \in ActiveRows
    BY <1>2
  <2>2. ActiveRows = {k} /\ k \in Tickets /\ config[k] = "active"
    BY <2>1 DEF AppInv, ActiveIsOne, ActiveRows
  <2>3. Cardinality({k}) = 1
    BY FS_Singleton
  <2>4. Cardinality(ActiveRows) = 1 /\ \E j \in Tickets : config[j] # "none"
    BY <2>2, <2>3
  <2>. QED  BY <2>4, Zenon DEF OneActiveApp
<1>3. LoaderIsActive
  BY DEF AppInv, ReloadsInTurn, LoaderIsActive, Reloading, Running
<1>4. OneActiveApp
  BY <1>1, <1>2
<1>. QED  BY <1>3, <1>4

----------------------------------------------------------------------------
(* GitHubInstallations *)
\* Rows of control.github_installations and what waits between two statements.
Deliveries ==
    [event : {"created", "suspend", "unsuspend", "deleted", "repos_removed"},
     is : {"sent", "handled", "failed", "suppressed", "resent"}]
DeliveryTypes ==
    /\ remote \in {"active", "suspended", "removed"}
    /\ 1 \in DOMAIN delivery /\ \E n \in Nat : delivery \in [1..n -> Deliveries]
StateTokens == [tenant : Claimants, is : {"open", "closed"}]
ClaimTypes ==
    /\ \E n \in Nat : statetok \in [1..n -> StateTokens]
    /\ connected \in [Claimants -> {"none", "connected", "archived"}]
InstallTypes == install \in [tenant : Claimants \cup {NoTenant}, deleted : BOOLEAN, suspended : BOOLEAN]
\* A rebind has found the installation claimed, and claimed it stays.
RequestTypes ==
    /\ inflight \subseteq [op : {"upsert", "reclaim", "orphan", "connect", "rebind"}, tenant : Claimants]
    /\ \A r \in inflight : r.op = "rebind" => Known

\* What the first m deliveries tell.
DeletedAt(m) == \E i \in DOMAIN delivery : i <= m /\ delivery[i].event = "deleted"
SuspendedAt(m) ==
    \E i \in DOMAIN delivery :
        /\ i <= m /\ delivery[i].event = "suspend"
        /\ \A j \in DOMAIN delivery : i < j /\ j <= m => delivery[j].event # "unsuspend"
\* GitHub's state is what all deliveries tell: one of "created", the first, and
\* nothing after "deleted".
RemoteAsTold ==
    /\ \A i \in DOMAIN delivery : (delivery[i].event = "created") <=> (i = 1)
    /\ \A i, j \in DOMAIN delivery : delivery[i].event = "deleted" => j <= i
    /\ (remote = "removed") <=> DeletedAt(Rows(delivery))
    /\ remote # "removed" => ((remote = "suspended") <=> SuspendedAt(Rows(delivery)))
HandledUpTo(m) == \A d \in DOMAIN delivery : Handled(d) <=> (d <= m)
Clean == excuses \cap {"failed", "reordered", "callback"} = {}
FlagsAre(m) == /\ install.deleted <=> DeletedAt(m)
               /\ ~DeletedAt(m) => (install.suspended <=> SuspendedAt(m))
\* The row's flags are what the deliveries handled so far tell, if they were
\* handled in order.
FlagsFollow == Clean /\ Known => \A m \in Nat : m <= Rows(delivery) /\ HandledUpTo(m) => FlagsAre(m)

GhInv ==
    /\ DeliveryTypes /\ ClaimTypes /\ InstallTypes /\ RequestTypes
    /\ GhTypeOK /\ RemoteAsTold /\ FlagsFollow /\ RepoFollowsInstallation

LEMMA RowsOf == ASSUME NEW s, NEW n \in Nat, DOMAIN s = 1..n PROVE Rows(s) = n
<1>1. IsFiniteSet(1..n) /\ Cardinality(1..n) = IF 1 > n THEN 0 ELSE n - 1 + 1
  BY FS_Interval
<1>2. Cardinality(1..n) = n
  BY <1>1
<1>. QED  BY <1>2 DEF Rows

LEMMA AddRowIs ==
    ASSUME NEW S, NEW n \in Nat, NEW s \in [1..n -> S], NEW x \in S
    PROVE  /\ AddRow(s, x) \in [1..(n + 1) -> S] /\ AddRow(s, x)[n + 1] = x
           /\ \A k \in 1..n : AddRow(s, x)[k] = s[k]
<1>1. Rows(s) = n
  BY RowsOf
<1>. QED  BY <1>1 DEF AddRow

LEMMA GhInitially == GhInit => GhInv
<1> SUFFICES ASSUME GhInit PROVE GhInv  OBVIOUS
<1>1. delivery = <<[event |-> "created", is |-> "sent"]>> /\ DOMAIN delivery = 1..1 /\ delivery[1].event = "created"
      /\ delivery[1].is = "sent" /\ delivery \in [1..1 -> Deliveries]
  BY DEF GhInit, Deliveries
<1>2. Rows(delivery) = 1
  BY <1>1, RowsOf
<1>3. install.tenant = NoTenant /\ install.deleted = FALSE /\ install.suspended = FALSE
  BY DEF GhInit
<1>4. DeliveryTypes
  <2>1. remote = "active"
    BY DEF GhInit
  <2>. QED  BY <1>1, <2>1 DEF DeliveryTypes
<1>5. ClaimTypes
  <2>1. statetok \in [1..0 -> StateTokens]
    BY DEF GhInit
  <2>2. connected \in [Claimants -> {"none", "connected", "archived"}]
    BY DEF GhInit
  <2>. QED  BY <2>1, <2>2 DEF ClaimTypes
<1>6. InstallTypes /\ RequestTypes /\ GhTypeOK
  BY <1>1, <1>3 DEF GhInit, InstallTypes, RequestTypes, GhTypeOK
<1>7. RemoteAsTold
  <2>1. remote = "active" /\ ~DeletedAt(1) /\ ~SuspendedAt(1)
    BY <1>1 DEF GhInit, DeletedAt, SuspendedAt
  <2>. QED  BY <1>1, <1>2, <2>1 DEF RemoteAsTold
<1>8. FlagsFollow
  BY <1>3 DEF FlagsFollow, Known
<1>9. RepoFollowsInstallation
  BY DEF GhInit, RepoFollowsInstallation
<1>. QED  BY <1>4, <1>5, <1>6, <1>7, <1>8, <1>9 DEF GhInv

\* A part of the invariant stands when nothing it reads is written.
LEMMA Unread ==
    ASSUME GhInv
    PROVE  /\ UNCHANGED <<remote, delivery>> => DeliveryTypes' /\ RemoteAsTold'
           /\ UNCHANGED <<statetok, connected>> => ClaimTypes'
           /\ UNCHANGED install => InstallTypes'
           /\ UNCHANGED <<inflight, install>> => RequestTypes'
           /\ UNCHANGED <<remote, delivery, replays, install>> => GhTypeOK'
           /\ UNCHANGED <<delivery, install, excuses>> => FlagsFollow'
           /\ UNCHANGED <<connected, install, excuses>> => RepoFollowsInstallation'
<1>1. UNCHANGED delivery => \A m : (DeletedAt(m)' <=> DeletedAt(m)) /\ (SuspendedAt(m)' <=> SuspendedAt(m))
  BY DEF DeletedAt, SuspendedAt
<1>2. UNCHANGED <<remote, delivery>> => DeliveryTypes' /\ RemoteAsTold'
  BY <1>1 DEF GhInv, DeliveryTypes, RemoteAsTold
<1>3. UNCHANGED <<statetok, connected>> => ClaimTypes'
  BY DEF GhInv, ClaimTypes
<1>4. UNCHANGED install => InstallTypes'
  BY DEF GhInv, InstallTypes
<1>5. UNCHANGED <<inflight, install>> => RequestTypes'
  BY DEF GhInv, RequestTypes, Known
<1>6. UNCHANGED <<remote, delivery, replays, install>> => GhTypeOK'
  BY DEF GhInv, GhTypeOK, Known
<1>7. UNCHANGED <<delivery, install, excuses>> => FlagsFollow'
  BY <1>1 DEF GhInv, FlagsFollow, Clean, Known, HandledUpTo, Handled, FlagsAre
<1>8. UNCHANGED <<connected, install, excuses>> => RepoFollowsInstallation'
  BY DEF GhInv, RepoFollowsInstallation
<1>. QED  BY <1>2, <1>3, <1>4, <1>5, <1>6, <1>7, <1>8

LEMMA AtGitHubKeeps ==
    ASSUME GhInv, NEW event \in {"suspend", "unsuspend", "deleted", "repos_removed"}, AtGitHub(event)
    PROVE  GhInv'
<1>s. UNCHANGED <<replays, install, closing, connected, statetok, inflight, excuses>>
  BY DEF AtGitHub, atGitHub, webhookVars, installVars
<1>1. PICK n \in Nat : delivery \in [1..n -> Deliveries]
  BY DEF GhInv, DeliveryTypes
<1>2. delivery' = AddRow(delivery, [event |-> event, is |-> "sent"]) /\ Rows(delivery) = n
  BY <1>1, RowsOf DEF AtGitHub
<1>3. /\ delivery' \in [1..(n + 1) -> Deliveries] /\ delivery'[n + 1] = [event |-> event, is |-> "sent"]
      /\ \A k \in 1..n : delivery'[k] = delivery[k]
  <2>. DEFINE row == [event |-> event, is |-> "sent"]
  <2>1. row \in Deliveries
    BY DEF Deliveries
  <2>. HIDE DEF row
  <2>2. /\ AddRow(delivery, row) \in [1..(n + 1) -> Deliveries] /\ AddRow(delivery, row)[n + 1] = row
        /\ \A k \in 1..n : AddRow(delivery, row)[k] = delivery[k]
    BY <1>1, <1>2, <2>1 DEF AddRow
  <2>3. delivery' = AddRow(delivery, row)
    BY <1>2 DEF row
  <2>4. /\ delivery' \in [1..(n + 1) -> Deliveries] /\ delivery'[n + 1] = row
        /\ \A k \in 1..n : delivery'[k] = delivery[k]
    BY <2>2, <2>3
  <2>. QED  BY <2>4 DEF row
<1>4. /\ DOMAIN delivery = 1..n /\ DOMAIN delivery' = 1..(n + 1) /\ n + 1 \in Nat
      /\ delivery'[n + 1].event = event /\ delivery'[n + 1].is = "sent"
      /\ \A k \in 1..(n + 1) : k \in 1..n \/ k = n + 1
  BY <1>1, <1>3
<1>5. Rows(delivery') = n + 1
  BY <1>4, RowsOf
<1>6. DeliveryTypes'
  <2>1. remote' \in {"active", "suspended", "removed"}
    BY DEF AtGitHub, GhInv, DeliveryTypes
  <2>. QED  BY <1>3, <1>4, <2>1 DEF DeliveryTypes
<1>7. GhTypeOK'
  BY <1>s, <1>3, <1>4, <1>6 DEF GhInv, GhTypeOK, Known, DeliveryTypes
<1>8. remote # "removed" /\ n >= 1
  BY <1>4 DEF AtGitHub, GhInv, DeliveryTypes
<1>9. \A m \in Nat : m <= n => (DeletedAt(m)' <=> DeletedAt(m)) /\ (SuspendedAt(m)' <=> SuspendedAt(m))
  <2>. SUFFICES ASSUME NEW m \in Nat, m <= n
                PROVE  (DeletedAt(m)' <=> DeletedAt(m)) /\ (SuspendedAt(m)' <=> SuspendedAt(m))
    OBVIOUS
  <2>1. \A i \in DOMAIN delivery' : i <= m => i \in DOMAIN delivery /\ delivery'[i] = delivery[i]
    BY <1>3, <1>4
  <2>2. \A i \in DOMAIN delivery : i \in DOMAIN delivery' /\ delivery'[i] = delivery[i]
    BY <1>3, <1>4
  <2>3. DeletedAt(m)' <=> DeletedAt(m)
    BY <2>1, <2>2 DEF DeletedAt
  <2>4. SuspendedAt(m)' <=> SuspendedAt(m)
    BY <2>1, <2>2 DEF SuspendedAt
  <2>. QED  BY <2>3, <2>4
<1>10. RemoteAsTold'
  <2>1. ~DeletedAt(n) /\ ((remote = "suspended") <=> SuspendedAt(n))
    BY <1>2, <1>8 DEF GhInv, RemoteAsTold
  <2>2. \A i \in 1..n : delivery[i].event # "deleted"
    BY <2>1, <1>4 DEF DeletedAt
  <2>3. \A i \in DOMAIN delivery' : (delivery'[i].event = "created") <=> (i = 1)
    BY <1>3, <1>4, <1>8 DEF GhInv, RemoteAsTold
  <2>4. \A i, j \in DOMAIN delivery' : delivery'[i].event = "deleted" => j <= i
    BY <1>3, <1>4, <2>2
  <2>5. DeletedAt(n + 1)' <=> event = "deleted"
    BY <1>3, <1>4, <2>2 DEF DeletedAt
  <2>6. (remote' = "removed") <=> DeletedAt(n + 1)'
    BY <2>5, <1>8 DEF AtGitHub
  <2>7. remote' # "removed" => ((remote' = "suspended") <=> SuspendedAt(n + 1)')
    <3>1. CASE event = "suspend"
      <4>1. SuspendedAt(n + 1)'
        BY <1>4, <3>1 DEF SuspendedAt
      <4>. QED  BY <3>1, <4>1 DEF AtGitHub
    <3>2. CASE event = "unsuspend"
      <4>1. ~SuspendedAt(n + 1)'
        BY <1>4, <3>2 DEF SuspendedAt
      <4>. QED  BY <3>2, <4>1 DEF AtGitHub
    <3>3. CASE event = "repos_removed"
      <4>1. ~SuspendedAt(n)
        BY <2>1, <3>3 DEF AtGitHub
      <4>2. ~SuspendedAt(n + 1)'
        <5>. SUFFICES ASSUME SuspendedAt(n + 1)' PROVE FALSE
          OBVIOUS
        <5>1. PICK i \in DOMAIN delivery' : /\ delivery'[i].event = "suspend"
                                            /\ \A j \in DOMAIN delivery' : i < j /\ j <= n + 1
                                                    => delivery'[j].event # "unsuspend"
          BY DEF SuspendedAt
        <5>2. i \in DOMAIN delivery /\ i <= n /\ delivery[i].event = "suspend"
          BY <1>3, <1>4, <3>3, <5>1
        <5>3. \A j \in DOMAIN delivery : i < j /\ j <= n => delivery[j].event # "unsuspend"
          BY <1>3, <1>4, <5>1
        <5>. QED  BY <4>1, <5>2, <5>3 DEF SuspendedAt
      <4>. QED  BY <3>3, <4>2, <2>1 DEF AtGitHub
    <3>4. CASE event = "deleted"
      BY <3>4 DEF AtGitHub
    <3>. QED  BY <3>1, <3>2, <3>3, <3>4
  <2>. QED  BY <1>5, <2>3, <2>4, <2>6, <2>7 DEF RemoteAsTold
<1>11. FlagsFollow'
  <2>. SUFFICES ASSUME Clean', Known', NEW m \in Nat, m <= n + 1, HandledUpTo(m)'
                PROVE  FlagsAre(m)'
    BY <1>5 DEF FlagsFollow
  <2>1. m <= n
    BY <1>4 DEF HandledUpTo, Handled
  <2>2. HandledUpTo(m)
    BY <1>3, <1>4 DEF HandledUpTo, Handled
  <2>3. Clean /\ Known
    BY <1>s DEF Clean, Known
  <2>4. FlagsAre(m)
    BY <1>2, <2>1, <2>2, <2>3 DEF GhInv, FlagsFollow
  <2>. QED  BY <1>s, <1>9, <2>1, <2>4 DEF FlagsAre
<1>z. ClaimTypes' /\ InstallTypes' /\ RequestTypes' /\ RepoFollowsInstallation'
  BY <1>s, Unread
<1>. QED  BY <1>6, <1>7, <1>10, <1>11, <1>z DEF GhInv

\* A step that changes the status of one delivery.
Restated(d, is) ==
    /\ d \in DOMAIN delivery
    /\ delivery' = [delivery EXCEPT ![d].is = is]

LEMMA RestatedTells ==
    ASSUME GhInv, NEW d, NEW is \in {"sent", "handled", "failed", "suppressed", "resent"}, Restated(d, is), remote' = remote
    PROVE  /\ DOMAIN delivery' = DOMAIN delivery /\ Rows(delivery') = Rows(delivery)
           /\ \A e \in DOMAIN delivery : delivery'[e].event = delivery[e].event
           /\ delivery'[d].is = is
           /\ \A e \in DOMAIN delivery : e # d => delivery'[e].is = delivery[e].is
           /\ \A m \in Nat : (DeletedAt(m)' <=> DeletedAt(m)) /\ (SuspendedAt(m)' <=> SuspendedAt(m))
           /\ DeliveryTypes' /\ RemoteAsTold'
<1>1. PICK n \in Nat : delivery \in [1..n -> Deliveries]
  BY DEF GhInv, DeliveryTypes
<1>2. /\ delivery' \in [1..n -> Deliveries]
      /\ \A e \in DOMAIN delivery : delivery'[e].event = delivery[e].event
      /\ delivery'[d].is = is
      /\ \A e \in DOMAIN delivery : e # d => delivery'[e].is = delivery[e].is
  BY <1>1 DEF Restated, Deliveries
<1>3. DOMAIN delivery' = DOMAIN delivery /\ Rows(delivery') = n /\ Rows(delivery) = n
  BY <1>1, <1>2, RowsOf
<1>4. \A m \in Nat : (DeletedAt(m)' <=> DeletedAt(m)) /\ (SuspendedAt(m)' <=> SuspendedAt(m))
  BY <1>2, <1>3 DEF DeletedAt, SuspendedAt
<1>5. DeliveryTypes'
  BY <1>2, <1>3 DEF DeliveryTypes, GhInv
<1>6. RemoteAsTold'
  BY <1>2, <1>3, <1>4 DEF RemoteAsTold, GhInv
<1>. QED  BY <1>2, <1>3, <1>4, <1>5, <1>6

\* A delivery's status changes, but not whether it has been handled.
LEMMA StatusKeeps ==
    ASSUME GhInv, NEW d \in DOMAIN delivery,
           NEW is \in {"sent", "handled", "failed", "suppressed", "resent"}, Restated(d, is),
           UNCHANGED <<remote, install, connected, statetok, inflight>>,
           replays' \subseteq DOMAIN delivery, excuses \subseteq excuses',
           \A e \in DOMAIN delivery : Handled(e)' <=> Handled(e)
    PROVE  GhInv'
<1>1. /\ DOMAIN delivery' = DOMAIN delivery /\ Rows(delivery') = Rows(delivery)
      /\ \A m \in Nat : (DeletedAt(m)' <=> DeletedAt(m)) /\ (SuspendedAt(m)' <=> SuspendedAt(m))
      /\ DeliveryTypes' /\ RemoteAsTold'
  BY RestatedTells
<1>2. GhTypeOK'
  BY <1>1 DEF GhInv, GhTypeOK, Known
<1>3. FlagsFollow'
  <2>1. \A m \in Nat : HandledUpTo(m)' => HandledUpTo(m)
    BY <1>1 DEF HandledUpTo
  <2>2. \A m \in Nat : FlagsAre(m) => FlagsAre(m)'
    BY <1>1 DEF FlagsAre
  <2>3. (Clean' => Clean) /\ Known' = Known
    BY DEF Clean, Known
  <2>. QED  BY <1>1, <2>1, <2>2, <2>3 DEF GhInv, FlagsFollow
<1>4. ClaimTypes' /\ InstallTypes' /\ RequestTypes'
  BY Unread
<1>5. RepoFollowsInstallation'
  BY DEF GhInv, RepoFollowsInstallation
<1>. QED  BY <1>1, <1>2, <1>3, <1>4, <1>5 DEF GhInv

LEMMA RedeliverKeeps ==
    ASSUME GhInv, NEW d \in DOMAIN delivery, Redeliver(d)
    PROVE  GhInv'
<1>s. UNCHANGED <<remote, listed, replays, install, closing, connected, statetok, inflight, excuses>>
  BY DEF Redeliver, atGitHub, webhookVars, installVars
<1>1. PICK is \in {"sent", "resent"} : Restated(d, is) /\ (is = "resent" <=> delivery[d].is = "handled")
        /\ delivery[d].is # "resent"
  BY DEF Redeliver, Restated
<1>3. \A e \in DOMAIN delivery : Handled(e)' <=> Handled(e)
  <2>1. /\ DOMAIN delivery' = DOMAIN delivery /\ delivery'[d].is = is
        /\ \A e \in DOMAIN delivery : e # d => delivery'[e].is = delivery[e].is
    BY <1>s, <1>1, RestatedTells
  <2>. QED  BY <1>1, <2>1 DEF Handled
<1>4. replays' \subseteq DOMAIN delivery /\ excuses \subseteq excuses'
  BY <1>s DEF GhInv, GhTypeOK
<1>. QED  BY <1>s, <1>1, <1>3, <1>4, StatusKeeps

\* What an event writes into the row.
LEMMA FlaggedIs ==
    ASSUME InstallTypes, NEW e
    PROVE  /\ Flagged(e).tenant = install.tenant
           /\ Flagged(e) \in [tenant : Claimants \cup {NoTenant}, deleted : BOOLEAN, suspended : BOOLEAN]
           /\ e = "created" => ~Flagged(e).deleted /\ ~Flagged(e).suspended
           /\ e = "deleted" => (Flagged(e).deleted <=> Known) /\ Flagged(e).suspended = install.suspended
           /\ e \in {"suspend", "unsuspend"} =>
                 /\ Flagged(e).deleted = install.deleted
                 /\ Known /\ ~install.deleted => (Flagged(e).suspended <=> e = "suspend")
                 /\ ~Known \/ install.deleted => Flagged(e).suspended = install.suspended
           /\ e = "repos_removed" => Flagged(e) = install
<1>1. e = "created" => Flagged(e) = [install EXCEPT !.deleted = FALSE, !.suspended = FALSE]
  BY Zenon DEF Flagged
<1>2. e = "deleted" => Flagged(e) = [install EXCEPT !.deleted = Known]
  BY Zenon DEF Flagged
<1>3. e \in {"suspend", "unsuspend"} /\ Known /\ ~install.deleted =>
        Flagged(e) = [install EXCEPT !.suspended = (e = "suspend")]
  BY Zenon DEF Flagged
<1>4. e \in {"suspend", "unsuspend"} /\ ~(Known /\ ~install.deleted) => Flagged(e) = install
  BY Zenon DEF Flagged
<1>5. e \notin {"created", "deleted", "suspend", "unsuspend"} => Flagged(e) = install
  BY Zenon DEF Flagged
<1>6. Known \in BOOLEAN
  BY DEF Known
<1>. QED  BY <1>1, <1>2, <1>3, <1>4, <1>5, <1>6 DEF InstallTypes

LEMMA EventsAre ==
    ASSUME GhInv, NEW d \in DOMAIN delivery
    PROVE  delivery[d].event \in {"created", "deleted", "suspend", "unsuspend", "repos_removed"}
<1>1. PICK n \in Nat : delivery \in [1..n -> Deliveries]
  BY DEF GhInv, DeliveryTypes
<1>. QED  BY <1>1 DEF Deliveries

LEMMA WebhookKeeps ==
    ASSUME GhInv, NEW d \in DOMAIN delivery, Webhook(d)
    PROVE  GhInv'
<1>s. UNCHANGED <<remote, listed, closing, statetok, inflight>>
  BY DEF Webhook, atGitHub, webhookVars, installVars
<1>1. d \in DOMAIN delivery /\ delivery[d].is \in {"sent", "resent"}
  BY DEF Webhook
<1>2. CASE /\ UNCHANGED <<install, connected>> /\ replays' \subseteq replays \cup {d} /\ excuses \subseteq excuses'
           /\ \E is \in {"failed", "suppressed", "handled"} :
                Restated(d, is) /\ (is = "handled" <=> delivery[d].is = "resent")
  <2>1. PICK is \in {"failed", "suppressed", "handled"} :
            Restated(d, is) /\ (is = "handled" <=> delivery[d].is = "resent")
    BY <1>2
  <2>2. /\ DOMAIN delivery' = DOMAIN delivery /\ delivery'[d].is = is
        /\ \A e \in DOMAIN delivery : e # d => delivery'[e].is = delivery[e].is
    BY <1>s, <2>1, RestatedTells
  <2>3. \A e \in DOMAIN delivery : Handled(e)' <=> Handled(e)
    BY <1>1, <2>1, <2>2 DEF Handled
  <2>4. replays' \subseteq DOMAIN delivery
    BY <1>2 DEF GhInv, GhTypeOK
  <2>. QED  BY <1>s, <1>2, <2>1, <2>3, <2>4, StatusKeeps
<1>3. CASE /\ replays' = replays \cup {d} /\ Restated(d, "handled")
           /\ install' = Flagged(delivery[d].event)
           /\ connected' = IF delivery[d].event = "repos_removed" THEN ArchiveRemoved ELSE connected
           /\ excuses' = IF Ordered(d) THEN excuses ELSE excuses \cup {"reordered"}
  <2>1. DeliveryTypes' /\ RemoteAsTold'
    BY <1>s, <1>3, RestatedTells
  <2>2. /\ DOMAIN delivery' = DOMAIN delivery /\ Rows(delivery') = Rows(delivery) /\ delivery'[d].is = "handled"
        /\ \A e \in DOMAIN delivery : e # d => delivery'[e].is = delivery[e].is
        /\ \A m \in Nat : (DeletedAt(m)' <=> DeletedAt(m)) /\ (SuspendedAt(m)' <=> SuspendedAt(m))
    BY <1>s, <1>3, RestatedTells
  <2>3. /\ install'.tenant = install.tenant /\ InstallTypes'
        /\ delivery[d].event = "created" => ~install'.deleted /\ ~install'.suspended
        /\ delivery[d].event = "deleted" => (install'.deleted <=> Known) /\ install'.suspended = install.suspended
        /\ delivery[d].event \in {"suspend", "unsuspend"} =>
              /\ install'.deleted = install.deleted
              /\ Known /\ ~install.deleted => (install'.suspended <=> delivery[d].event = "suspend")
              /\ ~Known \/ install.deleted => install'.suspended = install.suspended
        /\ delivery[d].event = "repos_removed" => install' = install
    <3>. DEFINE e == delivery[d].event
    <3>1. InstallTypes /\ install' = Flagged(e)
      BY <1>3 DEF GhInv
    <3>. HIDE DEF e
    <3>2. /\ Flagged(e).tenant = install.tenant
          /\ Flagged(e) \in [tenant : Claimants \cup {NoTenant}, deleted : BOOLEAN, suspended : BOOLEAN]
          /\ e = "created" => ~Flagged(e).deleted /\ ~Flagged(e).suspended
          /\ e = "deleted" => (Flagged(e).deleted <=> Known) /\ Flagged(e).suspended = install.suspended
          /\ e \in {"suspend", "unsuspend"} =>
                /\ Flagged(e).deleted = install.deleted
                /\ Known /\ ~install.deleted => (Flagged(e).suspended <=> e = "suspend")
                /\ ~Known \/ install.deleted => Flagged(e).suspended = install.suspended
          /\ e = "repos_removed" => Flagged(e) = install
      BY <3>1, FlaggedIs
    <3>3. /\ install'.tenant = install.tenant /\ InstallTypes'
          /\ e = "created" => ~install'.deleted /\ ~install'.suspended
          /\ e = "deleted" => (install'.deleted <=> Known) /\ install'.suspended = install.suspended
          /\ e \in {"suspend", "unsuspend"} =>
                /\ install'.deleted = install.deleted
                /\ Known /\ ~install.deleted => (install'.suspended <=> e = "suspend")
                /\ ~Known \/ install.deleted => install'.suspended = install.suspended
          /\ e = "repos_removed" => install' = install
      BY <3>1, <3>2 DEF InstallTypes
    <3>. QED  BY <3>3 DEF e
  <2>4. Known' = Known
    BY <2>3 DEF Known
  <2>5. GhTypeOK'
    <3>1. replays' \subseteq DOMAIN delivery'
      BY <1>3, <2>2 DEF GhInv, GhTypeOK
    <3>2. ~Known' => ~install'.deleted /\ ~install'.suspended
      BY <2>3, <2>4, EventsAre DEF GhInv, GhTypeOK
    <3>. QED  BY <1>s, <2>1, <3>1, <3>2 DEF GhTypeOK, DeliveryTypes
  <2>6. FlagsFollow'
    <3>. SUFFICES ASSUME Clean', Known, NEW m \in Nat, m <= Rows(delivery), HandledUpTo(m)'
                  PROVE  FlagsAre(m)'
      BY <2>2, <2>4 DEF FlagsFollow
    <3>1. Clean /\ Ordered(d)
      BY <1>3 DEF Clean
    <3>2. PICK n \in Nat : delivery \in [1..n -> Deliveries]
      BY DEF GhInv, DeliveryTypes
    <3>3. DOMAIN delivery = 1..n /\ Rows(delivery) = n
      BY <3>2, RowsOf
    <3>4. d <= m
      BY <2>2 DEF HandledUpTo, Handled
    <3>5. d = m
      <4>. SUFFICES ASSUME d < m PROVE FALSE
        BY <3>3, <3>4
      <4>1. m \in DOMAIN delivery /\ Handled(m)
        BY <2>2, <3>3, <3>4 DEF HandledUpTo, Handled
      <4>. QED  BY <3>1, <3>3, <4>1 DEF Ordered
    <3>6. \A e \in DOMAIN delivery : e # m => (Handled(e) <=> e <= m)
      BY <2>2, <3>5 DEF HandledUpTo, Handled
    <3>7. FlagsAre(m - 1) \/ FlagsAre(m)
      <4>1. CASE delivery[d].is = "sent"
        <5>1. HandledUpTo(m - 1)
          BY <1>1, <3>3, <3>5, <3>6, <4>1 DEF HandledUpTo, Handled
        <5>. QED  BY <3>1, <3>3, <3>5, <5>1 DEF GhInv, FlagsFollow
      <4>2. CASE delivery[d].is = "resent"
        <5>1. HandledUpTo(m)
          BY <3>5, <3>6, <4>2 DEF HandledUpTo, Handled
        <5>. QED  BY <3>1, <5>1 DEF GhInv, FlagsFollow
      <4>. QED  BY <1>1, <4>1, <4>2
    <3>8. /\ \A i \in DOMAIN delivery : i <= m <=> i <= m - 1 \/ i = m
          /\ \A i \in DOMAIN delivery : (delivery[i].event = "created") <=> (i = 1)
          /\ \A i, j \in DOMAIN delivery : delivery[i].event = "deleted" => j <= i
      BY <3>3 DEF GhInv, RemoteAsTold
    <3>9. ~DeletedAt(m - 1)
      BY <1>1, <3>3, <3>5, <3>8 DEF DeletedAt
    <3>10. DeletedAt(m) <=> delivery[m].event = "deleted"
      BY <1>1, <3>3, <3>5, <3>8, <3>9 DEF DeletedAt
    <3>11. CASE delivery[m].event = "created"
      <4>1. m = 1 /\ ~SuspendedAt(m)
        BY <1>1, <3>5, <3>8, <3>11, <3>3 DEF SuspendedAt
      <4>. QED  BY <2>2, <2>3, <3>5, <3>10, <3>11, <4>1 DEF FlagsAre
    <3>12. CASE delivery[m].event = "deleted"
      BY <2>2, <2>3, <3>5, <3>10, <3>12 DEF FlagsAre
    <3>13. CASE delivery[m].event = "suspend"
      <4>1. SuspendedAt(m)
        BY <1>1, <3>3, <3>5, <3>13 DEF SuspendedAt
      <4>. QED  BY <2>2, <2>3, <3>5, <3>7, <3>9, <3>10, <3>13, <4>1 DEF FlagsAre
    <3>14. CASE delivery[m].event = "unsuspend"
      <4>1. ~SuspendedAt(m)
        BY <1>1, <3>3, <3>5, <3>8, <3>14 DEF SuspendedAt
      <4>. QED  BY <2>2, <2>3, <3>5, <3>7, <3>9, <3>10, <3>14, <4>1 DEF FlagsAre
    <3>15. CASE delivery[m].event = "repos_removed"
      <4>1. SuspendedAt(m) <=> SuspendedAt(m - 1)
        BY <1>1, <3>3, <3>5, <3>8, <3>15 DEF SuspendedAt
      <4>. QED  BY <2>2, <2>3, <3>5, <3>7, <3>9, <3>10, <3>15, <4>1 DEF FlagsAre
    <3>16. delivery[m].event \in {"created", "deleted", "suspend", "unsuspend", "repos_removed"}
      BY <1>1, <3>2, <3>5 DEF Deliveries
    <3>. QED  BY <3>11, <3>12, <3>13, <3>14, <3>15, <3>16
  <2>7. /\ connected' \in [Claimants -> {"none", "connected", "archived"}]
        /\ \A t \in Claimants : connected'[t] = "connected" => connected[t] = "connected"
    BY <1>3 DEF ArchiveRemoved, GhInv, ClaimTypes
  <2>8. RepoFollowsInstallation'
    BY <1>3, <2>3, <2>7 DEF GhInv, RepoFollowsInstallation
  <2>9. ClaimTypes' /\ RequestTypes'
    BY <1>s, <2>4, <2>7 DEF GhInv, ClaimTypes, RequestTypes
  <2>. QED  BY <2>1, <2>3, <2>5, <2>6, <2>8, <2>9 DEF GhInv
<1>. QED  BY <1>1, <1>2, <1>3 DEF Webhook, Restated

LEMMA ReplayForgottenKeeps ==
    ASSUME GhInv, NEW d \in DOMAIN delivery, ReplayForgotten(d)
    PROVE  GhInv'
<1>s. UNCHANGED <<remote, listed, delivery, install, closing, connected, statetok, inflight, excuses>>
  BY DEF ReplayForgotten, atGitHub, webhookVars, installVars
<1>1. GhTypeOK'
  BY <1>s DEF ReplayForgotten, GhInv, GhTypeOK, Known
<1>z. DeliveryTypes' /\ ClaimTypes' /\ InstallTypes' /\ RequestTypes' /\ RemoteAsTold'
        /\ FlagsFollow' /\ RepoFollowsInstallation'
  BY <1>s, Unread
<1>. QED  BY <1>1, <1>z DEF GhInv

LEMMA GithubInstallUrlKeeps ==
    ASSUME GhInv, NEW t \in Claimants, GithubInstallUrl(t)
    PROVE  GhInv'
<1>s. UNCHANGED <<remote, listed, delivery, replays, install, closing, connected, inflight, excuses>>
  BY DEF GithubInstallUrl, atGitHub, webhookVars, installVars
<1>1. PICK n \in Nat : statetok \in [1..n -> StateTokens]
  BY DEF GhInv, ClaimTypes
<1>2. Rows(statetok) = n /\ [tenant |-> t, is |-> "open"] \in StateTokens
  BY <1>1, RowsOf DEF StateTokens
<1>3. statetok' \in [1..(n + 1) -> StateTokens]
  BY <1>1, <1>2 DEF GithubInstallUrl, AddRow
<1>4. ClaimTypes'
  BY <1>s, <1>1, <1>3 DEF GhInv, ClaimTypes
<1>z. DeliveryTypes' /\ InstallTypes' /\ RequestTypes' /\ GhTypeOK' /\ RemoteAsTold'
        /\ FlagsFollow' /\ RepoFollowsInstallation'
  BY <1>s, Unread
<1>. QED  BY <1>4, <1>z DEF GhInv

LEMMA StateExpiresKeeps ==
    ASSUME GhInv, NEW k \in DOMAIN statetok, StateExpires(k)
    PROVE  GhInv'
<1>s. UNCHANGED <<remote, listed, delivery, replays, install, closing, connected, inflight, excuses>>
  BY DEF StateExpires, atGitHub, webhookVars, installVars
<1>1. ClaimTypes'
  BY <1>s DEF StateExpires, GhInv, ClaimTypes, StateTokens
<1>z. DeliveryTypes' /\ InstallTypes' /\ RequestTypes' /\ GhTypeOK' /\ RemoteAsTold'
        /\ FlagsFollow' /\ RepoFollowsInstallation'
  BY <1>s, Unread
<1>. QED  BY <1>1, <1>z DEF GhInv

LEMMA CallbackTakesKeeps ==
    ASSUME GhInv, NEW k \in DOMAIN statetok, CallbackTakes(k)
    PROVE  GhInv'
<1>s. UNCHANGED <<remote, listed, delivery, replays, install, closing, connected, excuses>>
  BY DEF CallbackTakes, atGitHub, webhookVars, installVars
<1>1. ClaimTypes'
  BY <1>s DEF CallbackTakes, GhInv, ClaimTypes, StateTokens
<1>2. statetok[k].tenant \in Claimants
  BY DEF GhInv, ClaimTypes, StateTokens
<1>3. inflight' \subseteq inflight \cup {Step("upsert", statetok[k].tenant)}
  BY DEF CallbackTakes, InFlight
<1>4. RequestTypes'
  BY <1>s, <1>2, <1>3 DEF GhInv, RequestTypes, Step, Known
<1>z. DeliveryTypes' /\ InstallTypes' /\ GhTypeOK' /\ RemoteAsTold' /\ FlagsFollow' /\ RepoFollowsInstallation'
  BY <1>s, Unread
<1>. QED  BY <1>1, <1>4, <1>z DEF GhInv

LEMMA ConnectReadsKeeps ==
    ASSUME GhInv, NEW t \in Claimants, ConnectReads(t)
    PROVE  GhInv'
<1>s. UNCHANGED <<remote, listed, delivery, replays, install, closing, connected, statetok, excuses>>
  BY DEF ConnectReads, atGitHub, webhookVars, installVars
<1>1. inflight' = inflight \cup {Step("connect", t)}
  BY DEF ConnectReads, InFlight
<1>2. RequestTypes'
  BY <1>s, <1>1 DEF GhInv, RequestTypes, Step, Known
<1>z. DeliveryTypes' /\ ClaimTypes' /\ InstallTypes' /\ GhTypeOK' /\ RemoteAsTold' /\ FlagsFollow'
        /\ RepoFollowsInstallation'
  BY <1>s, Unread
<1>. QED  BY <1>2, <1>z DEF GhInv

LEMMA RebindReadsKeeps ==
    ASSUME GhInv, NEW t \in Claimants, RebindReads(t)
    PROVE  GhInv'
<1>s. UNCHANGED <<remote, listed, delivery, replays, install, closing, connected, statetok, excuses>>
  BY DEF RebindReads, atGitHub, webhookVars, installVars
<1>1. inflight' = inflight \cup {Step("rebind", t)} /\ Known
  BY DEF RebindReads, InFlight
<1>2. RequestTypes'
  BY <1>s, <1>1 DEF GhInv, RequestTypes, Step, Known
<1>z. DeliveryTypes' /\ ClaimTypes' /\ InstallTypes' /\ GhTypeOK' /\ RemoteAsTold' /\ FlagsFollow'
        /\ RepoFollowsInstallation'
  BY <1>s, Unread
<1>. QED  BY <1>2, <1>z DEF GhInv

LEMMA TenantClosesKeeps ==
    ASSUME GhInv, NEW t \in Claimants, TenantCloses(t)
    PROVE  GhInv'
<1>s. UNCHANGED <<remote, listed, delivery, replays, install, connected, statetok, inflight, excuses>>
  BY DEF TenantCloses, atGitHub, webhookVars, installVars
<1>z. DeliveryTypes' /\ ClaimTypes' /\ InstallTypes' /\ RequestTypes' /\ GhTypeOK'
        /\ RemoteAsTold' /\ FlagsFollow' /\ RepoFollowsInstallation'
  BY <1>s, Unread
<1>. QED  BY <1>z DEF GhInv

\* A callback writes the row of a tenant: with the flags cleared, and excused
\* unless GitHub's state is active and told to the end.
LEMMA BindingAgrees ==
    ASSUME GhInv, NEW t \in Claimants, install' = Bound(t), WritesOver \subseteq excuses',
           UNCHANGED <<remote, delivery, replays>>
    PROVE  InstallTypes' /\ GhTypeOK' /\ FlagsFollow' /\ Known'
<1>1. install'.tenant = t /\ ~install'.deleted /\ ~install'.suspended /\ InstallTypes'
  BY DEF Bound, InstallTypes
<1>2. Known'
  BY <1>1, GitHubAssumption DEF Known
<1>3. GhTypeOK'
  BY <1>1, <1>2 DEF GhInv, GhTypeOK, DeliveryTypes
<1>4. FlagsFollow'
  <2>. SUFFICES ASSUME Clean', NEW m \in Nat, m <= Rows(delivery), HandledUpTo(m)
                PROVE  FlagsAre(m)'
    BY DEF FlagsFollow, HandledUpTo, Handled
  <2>1. remote = "active" /\ \A d \in DOMAIN delivery : Handled(d)
    BY DEF WritesOver, Clean
  <2>2. PICK n \in Nat : delivery \in [1..n -> Deliveries]
    BY DEF GhInv, DeliveryTypes
  <2>3. DOMAIN delivery = 1..n /\ Rows(delivery) = n
    BY <2>2, RowsOf
  <2>4. m = n
    BY <2>1, <2>3 DEF HandledUpTo
  <2>5. ~DeletedAt(m) /\ ~SuspendedAt(m)
    BY <2>1, <2>3, <2>4 DEF GhInv, RemoteAsTold
  <2>6. ~DeletedAt(m)' /\ ~SuspendedAt(m)'
    BY <2>5 DEF DeletedAt, SuspendedAt
  <2>. QED  BY <1>1, <2>6 DEF FlagsAre
<1>. QED  BY <1>1, <1>2, <1>3, <1>4

LEMMA CallbackUpsertsKeeps ==
    ASSUME GhInv, NEW r \in inflight, CallbackUpserts(r)
    PROVE  GhInv'
<1>s. UNCHANGED <<remote, listed, delivery, replays, closing, connected, statetok>>
  BY DEF CallbackUpserts, atGitHub, webhookVars, installVars
<1>1. r.tenant \in Claimants /\ inflight' \subseteq inflight \cup {Step("reclaim", r.tenant)}
  BY DEF CallbackUpserts, Answered, GhInv, RequestTypes
<1>2. ClaimTypes' /\ DeliveryTypes' /\ RemoteAsTold'
  BY <1>s DEF GhInv, ClaimTypes, DeliveryTypes, RemoteAsTold, DeletedAt, SuspendedAt
<1>3. CASE install.tenant \in {NoTenant, r.tenant}
  <2>1. install' = Bound(r.tenant) /\ excuses' = WritesOver
    BY <1>3 DEF CallbackUpserts
  <2>2. excuses \cap {"rebind", "connect", "reclaim"} = {} =>
          \A t \in Claimants : connected[t] = "connected" => t = r.tenant
    BY <1>3, GitHubAssumption DEF GhInv, RepoFollowsInstallation
  <2>3. InstallTypes' /\ GhTypeOK' /\ FlagsFollow' /\ Known'
    BY <1>s, <1>1, <2>1, BindingAgrees
  <2>4. RequestTypes'
    BY <1>1, <2>3 DEF GhInv, RequestTypes, Step
  <2>5. RepoFollowsInstallation'
    BY <1>s, <2>1, <2>2 DEF RepoFollowsInstallation, Bound, WritesOver
  <2>. QED  BY <1>2, <2>3, <2>4, <2>5 DEF GhInv
<1>4. CASE ~(install.tenant \in {NoTenant, r.tenant})
  <2>1. UNCHANGED <<install, excuses>>
    BY <1>4 DEF CallbackUpserts
  <2>2. InstallTypes' /\ GhTypeOK' /\ FlagsFollow' /\ RepoFollowsInstallation'
    BY <1>s, <2>1 DEF GhInv, InstallTypes, GhTypeOK, FlagsFollow, RepoFollowsInstallation, Known, Clean, HandledUpTo, Handled,
                      FlagsAre, DeletedAt, SuspendedAt
  <2>3. RequestTypes'
    BY <1>1, <2>1 DEF GhInv, RequestTypes, Step, Known
  <2>. QED  BY <1>2, <2>2, <2>3 DEF GhInv
<1>. QED  BY <1>3, <1>4

LEMMA AttemptOrphanReclaimKeeps ==
    ASSUME GhInv, NEW r \in inflight, AttemptOrphanReclaim(r)
    PROVE  GhInv'
<1>s. UNCHANGED <<remote, listed, delivery, replays, install, closing, connected, statetok, excuses>>
  BY DEF AttemptOrphanReclaim, atGitHub, webhookVars, installVars
<1>1. r.tenant \in Claimants /\ inflight' \subseteq inflight \cup {Step("orphan", r.tenant)}
  BY DEF AttemptOrphanReclaim, GhInv, RequestTypes
<1>2. RequestTypes'
  BY <1>s, <1>1 DEF GhInv, RequestTypes, Step, Known
<1>z. DeliveryTypes' /\ ClaimTypes' /\ InstallTypes' /\ GhTypeOK' /\ RemoteAsTold' /\ FlagsFollow'
        /\ RepoFollowsInstallation'
  BY <1>s, Unread
<1>. QED  BY <1>2, <1>z DEF GhInv

LEMMA ReclaimUpdatesKeeps ==
    ASSUME GhInv, NEW r \in inflight, ReclaimUpdates(r)
    PROVE  GhInv'
<1>s. UNCHANGED <<remote, listed, delivery, replays, closing, connected, statetok>>
  BY DEF ReclaimUpdates, atGitHub, webhookVars, installVars
<1>1. r.tenant \in Claimants /\ inflight' \subseteq inflight /\ install' = Bound(r.tenant)
  BY DEF ReclaimUpdates, Answered, GhInv, RequestTypes
<1>2. ClaimTypes' /\ DeliveryTypes' /\ RemoteAsTold'
  BY <1>s DEF GhInv, ClaimTypes, DeliveryTypes, RemoteAsTold, DeletedAt, SuspendedAt
<1>3. WritesOver \subseteq excuses' /\ excuses \subseteq excuses'
      /\ (install.tenant = r.tenant \/ Orphan \/ "reclaim" \in excuses')
  BY DEF ReclaimUpdates, WritesOver
<1>4. InstallTypes' /\ GhTypeOK' /\ FlagsFollow' /\ Known'
  BY <1>s, <1>1, <1>3, BindingAgrees
<1>5. RequestTypes'
  BY <1>1, <1>4 DEF GhInv, RequestTypes
<1>6. RepoFollowsInstallation'
  <2>. SUFFICES ASSUME excuses' \cap {"rebind", "connect", "reclaim"} = {},
                       NEW t \in Claimants, connected[t] = "connected"
                PROVE  install'.tenant = t
    BY <1>s DEF RepoFollowsInstallation
  <2>1. ~Orphan
    BY DEF Orphan
  <2>2. install.tenant = r.tenant /\ install.tenant = t
    BY <1>3, <2>1 DEF GhInv, RepoFollowsInstallation
  <2>. QED  BY <1>1, <2>2 DEF Bound
<1>. QED  BY <1>2, <1>4, <1>5, <1>6 DEF GhInv

LEMMA ConnectRepoKeeps ==
    ASSUME GhInv, NEW r \in inflight, ConnectRepo(r)
    PROVE  GhInv'
<1>s. UNCHANGED <<remote, listed, delivery, replays, install, closing, statetok>>
  BY DEF ConnectRepo, atGitHub, webhookVars, installVars
<1>1. r.tenant \in Claimants /\ inflight' \subseteq inflight
  BY DEF ConnectRepo, Answered, GhInv, RequestTypes
<1>2. /\ connected' = IF connected[r.tenant] = "none" THEN [connected EXCEPT ![r.tenant] = "connected"] ELSE connected
      /\ excuses' = IF UsableBy(r.tenant) /\ listed THEN excuses ELSE excuses \cup {"connect"}
  BY DEF ConnectRepo
<1>3. ClaimTypes' /\ RequestTypes'
  BY <1>s, <1>1, <1>2 DEF GhInv, ClaimTypes, RequestTypes, Known
<1>4. FlagsFollow'
  <2>1. Clean' => Clean
    BY <1>2 DEF Clean
  <2>. QED  BY <1>s, <2>1 DEF GhInv, FlagsFollow, Known, HandledUpTo, Handled, FlagsAre, DeletedAt, SuspendedAt
<1>5. RepoFollowsInstallation'
  BY <1>s, <1>1, <1>2 DEF GhInv, ClaimTypes, RepoFollowsInstallation, UsableBy
<1>z. DeliveryTypes' /\ InstallTypes' /\ GhTypeOK' /\ RemoteAsTold'
  BY <1>s, Unread
<1>. QED  BY <1>3, <1>4, <1>5, <1>z DEF GhInv

LEMMA RebindGhInstallKeeps ==
    ASSUME GhInv, NEW r \in inflight, RebindGhInstall(r)
    PROVE  GhInv'
<1>s. UNCHANGED <<remote, listed, delivery, replays, closing, connected, statetok>>
  BY DEF RebindGhInstall, atGitHub, webhookVars, installVars
<1>1. /\ r.tenant \in Claimants /\ inflight' \subseteq inflight /\ Known
      /\ install' = [install EXCEPT !.tenant = r.tenant] /\ excuses' = excuses \cup {"rebind"}
  BY DEF RebindGhInstall, Answered, GhInv, RequestTypes
<1>2. install'.deleted = install.deleted /\ install'.suspended = install.suspended /\ InstallTypes' /\ Known'
  BY <1>1, GitHubAssumption DEF GhInv, InstallTypes, Known
<1>3. RequestTypes' /\ GhTypeOK'
  BY <1>s, <1>1, <1>2 DEF GhInv, RequestTypes, GhTypeOK
<1>4. FlagsFollow'
  <2>1. Clean' => Clean
    BY <1>1 DEF Clean
  <2>. QED  BY <1>s, <1>1, <1>2, <2>1 DEF GhInv, FlagsFollow, HandledUpTo, Handled, FlagsAre, DeletedAt, SuspendedAt
<1>5. RepoFollowsInstallation'
  BY <1>1 DEF RepoFollowsInstallation
<1>z. DeliveryTypes' /\ ClaimTypes' /\ RemoteAsTold'
  BY <1>s, Unread
<1>. QED  BY <1>2, <1>3, <1>4, <1>5, <1>z DEF GhInv

LEMMA GhStep == GhInv /\ [GhNext]_ghVars => GhInv'
<1> SUFFICES ASSUME GhInv, [GhNext]_ghVars PROVE GhInv'  OBVIOUS
<1>1. CASE \E event \in {"suspend", "unsuspend", "deleted", "repos_removed"} : AtGitHub(event)
  BY <1>1, AtGitHubKeeps
<1>2. CASE \E d \in DOMAIN delivery : Redeliver(d) \/ Webhook(d) \/ ReplayForgotten(d)
  BY <1>2, RedeliverKeeps, WebhookKeeps, ReplayForgottenKeeps
<1>3. CASE \E t \in Claimants : GithubInstallUrl(t) \/ TenantCloses(t) \/ ConnectReads(t) \/ RebindReads(t)
  BY <1>3, GithubInstallUrlKeeps, TenantClosesKeeps, ConnectReadsKeeps, RebindReadsKeeps
<1>4. CASE \E k \in DOMAIN statetok : StateExpires(k) \/ CallbackTakes(k)
  BY <1>4, StateExpiresKeeps, CallbackTakesKeeps
<1>5. CASE \E r \in inflight : \/ CallbackUpserts(r) \/ AttemptOrphanReclaim(r) \/ ReclaimUpdates(r)
                              \/ ConnectRepo(r) \/ RebindGhInstall(r)
  BY <1>5, CallbackUpsertsKeeps, AttemptOrphanReclaimKeeps, ReclaimUpdatesKeeps, ConnectRepoKeeps, RebindGhInstallKeeps
<1>6. CASE UNCHANGED ghVars
  BY <1>6, Unread DEF ghVars, GhInv
<1>. QED  BY <1>1, <1>2, <1>3, <1>4, <1>5, <1>6 DEF GhNext

LEMMA GhSafe == GhInv => GhTypeOK /\ InstallationAgrees /\ RepoFollowsInstallation
<1> SUFFICES ASSUME GhInv PROVE InstallationAgrees
  BY DEF GhInv
<1>1. PICK n \in Nat : delivery \in [1..n -> Deliveries]
  BY DEF GhInv, DeliveryTypes
<1>2. DOMAIN delivery = 1..n /\ Rows(delivery) = n
  BY <1>1, RowsOf
<1> SUFFICES ASSUME Known, Clean, \A d \in DOMAIN delivery : Handled(d)
             PROVE  /\ install.deleted = (remote = "removed")
                    /\ remote # "removed" => install.suspended = (remote = "suspended")
  BY DEF InstallationAgrees, Clean
<1>3. HandledUpTo(n)
  BY <1>2 DEF HandledUpTo
<1>4. FlagsAre(n)
  BY <1>2, <1>3 DEF GhInv, FlagsFollow
<1>5. install.deleted \in BOOLEAN /\ install.suspended \in BOOLEAN
  BY DEF GhInv, InstallTypes
<1>. QED  BY <1>2, <1>4, <1>5 DEF GhInv, RemoteAsTold, FlagsAre

\* What control-api stores of GitHub agrees with GitHub and with itself: the
\* installation's flags and tenant, its repository, the App and its loaders.
THEOREM GitHubIsFollowed == GhSpec /\ AppSpec => []GitHubAgrees
<1>1. GhSpec => [](GhTypeOK /\ InstallationAgrees /\ RepoFollowsInstallation)
  BY GhInitially, GhStep, GhSafe, PTL DEF GhSpec
<1>2. AppSpec => [](OneActiveApp /\ LoaderIsActive)
  BY AppInitially, AppStep, AppSafe, PTL DEF AppSpec
<1>. QED  BY <1>1, <1>2, PTL DEF GitHubAgrees
=============================================================================
