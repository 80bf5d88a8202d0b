----------------------------- MODULE KafkaWatch -----------------------------
(* rb-kafka-health: the watchdog around a consumer of one partition.  The    *)
(* consumer underneath is librdkafka, which may freeze, lose its group       *)
(* membership or answer with errors; the watchdog sees only what next()      *)
(* returned and how long ago, the lag, and the number of its partitions.     *)
(*                                                                           *)
(* Bounds: LogSize messages, MaxBreaks breaks of the consumer.               *)
EXTENDS Naturals

CONSTANTS LogSize, MaxBreaks,
          MAX_ERROR_STREAK   \* WatchdogConfig.max_error_streak, 0 = off

VARIABLES
    tail,       \* messages in the partition
    readTo,   \* delivered by the consumer in use
    committedTo,
    inner,      \* "new" (not in its group yet), "ok", "frozen" or "lost" (no partition any more)
    brokerUp,
    breaks,
    streak,     \* consecutive_errors; above MAX_ERROR_STREAK it makes no difference
    assigned,   \* had_assignment
    stall,      \* the stall timeout has passed since last_recv
    busy,       \* the caller is handling a message, not in next()
    handled     \* history: messages the caller was through with once at least

kwVars == <<tail, readTo, committedTo, inner, brokerUp, breaks, streak, assigned, stall, busy, handled>>

KwInit ==
    /\ tail = 0 /\ readTo = 0 /\ committedTo = 0 /\ handled = {}
    /\ inner = "new" /\ brokerUp = TRUE /\ breaks = 0
    /\ streak = 0 /\ assigned = FALSE /\ stall = FALSE /\ busy = FALSE

KwProduce ==
    /\ tail < LogSize
    /\ tail' = tail + 1
    /\ UNCHANGED <<readTo, committedTo, inner, brokerUp, breaks, streak, assigned, stall, busy, handled>>
Freeze ==
    /\ inner = "ok" /\ breaks < MaxBreaks
    /\ inner' = "frozen" /\ breaks' = breaks + 1
    /\ UNCHANGED <<tail, readTo, committedTo, brokerUp, streak, assigned, stall, busy, handled>>
LoseGroup ==
    /\ inner = "ok" /\ breaks < MaxBreaks
    /\ inner' = "lost" /\ breaks' = breaks + 1
    /\ UNCHANGED <<tail, readTo, committedTo, brokerUp, streak, assigned, stall, busy, handled>>
BrokerChanges ==
    /\ \/ brokerUp /\ breaks < MaxBreaks /\ breaks' = breaks + 1
       \/ ~brokerUp /\ UNCHANGED breaks
    /\ brokerUp' = ~brokerUp
    /\ UNCHANGED <<tail, readTo, committedTo, inner, streak, assigned, stall, busy, handled>>

\* A consumer is created and subscribed without the broker; it joins its group later.
Joins ==
    /\ inner = "new" /\ brokerUp
    /\ inner' = "ok"
    /\ UNCHANGED <<tail, readTo, committedTo, brokerUp, breaks, streak, assigned, stall, busy, handled>>

\* do_recreate: the new consumer starts at the committed offset.  When the factory
\* fails nothing is reset and the loop comes back.
DoRecreate ==
    /\ \/ /\ inner' = "new" /\ readTo' = committedTo
          /\ streak' = 0 /\ assigned' = FALSE /\ stall' = FALSE
          /\ UNCHANGED breaks
       \/ /\ breaks < MaxBreaks /\ breaks' = breaks + 1
          /\ UNCHANGED <<inner, readTo, streak, assigned, stall>>
    /\ UNCHANGED <<tail, committedTo, brokerUp, busy, handled>>

\* next() within the stall timeout: a message, or an error of the stream.
NextDelivers ==
    /\ ~busy /\ ~stall /\ inner = "ok" /\ readTo < tail
    /\ readTo' = readTo + 1
    /\ streak' = 0 /\ assigned' = TRUE /\ stall' = FALSE /\ busy' = TRUE
    /\ UNCHANGED <<tail, committedTo, inner, brokerUp, breaks, handled>>
Cascade == MAX_ERROR_STREAK > 0 /\ streak + 1 >= MAX_ERROR_STREAK
NextFails ==
    /\ ~busy /\ ~stall /\ breaks < MaxBreaks
    /\ ~Cascade
    /\ streak' = streak + 1 /\ breaks' = breaks + 1
    /\ UNCHANGED <<tail, readTo, committedTo, inner, brokerUp, assigned, stall, busy, handled>>
NextCascades ==
    /\ ~busy /\ ~stall /\ breaks < MaxBreaks
    /\ Cascade /\ breaks' = breaks + 1
    /\ \/ /\ inner' = "new" /\ readTo' = committedTo
          /\ streak' = 0 /\ assigned' = FALSE
       \/ /\ streak' = MAX_ERROR_STREAK
          /\ UNCHANGED <<readTo, inner, assigned>>
    /\ UNCHANGED <<tail, committedTo, brokerUp, stall, busy, handled>>
\* The clock runs while the caller handles its message, too.
StallTimeout ==
    /\ ~stall
    /\ stall' = TRUE
    /\ UNCHANGED <<tail, readTo, committedTo, inner, brokerUp, breaks, streak, assigned, busy, handled>>

\* assignment_lag_estimate: without an assignment, or a watermark, none.
LagEstimate == IF inner \in {"new", "lost"} \/ ~brokerUp THEN 0 ELSE tail - readTo
\* Mutant: a quiet partition is taken for a healthy one.
StallNoGroup ==
    /\ ~busy /\ stall
    /\ IF LagEstimate > 0 THEN DoRecreate
       ELSE stall' = FALSE /\ UNCHANGED <<tail, readTo, committedTo, inner, brokerUp, breaks, streak, assigned, busy, handled>>
StallPath ==
    /\ ~busy /\ stall
    /\ IF LagEstimate > 0 \/ (assigned /\ inner = "lost") THEN DoRecreate
       ELSE stall' = FALSE /\ UNCHANGED <<tail, readTo, committedTo, inner, brokerUp, breaks, streak, assigned, busy, handled>>

\* The caller is through with the message: it has committed it, or left it
\* uncommitted because its handler or the commit failed.
CallerHandles ==
    /\ busy
    /\ handled' = handled \cup {readTo}
    /\ committedTo' \in {committedTo, readTo} /\ busy' = FALSE
    /\ UNCHANGED <<tail, readTo, inner, brokerUp, breaks, streak, assigned, stall>>

KwNext ==
    \/ KwProduce \/ Joins \/ Freeze \/ LoseGroup \/ BrokerChanges
    \/ NextDelivers \/ NextFails \/ NextCascades \/ StallTimeout \/ StallPath \/ CallerHandles
\* A worker calls next() in a loop, the clock runs, brokers come back.
KwFair ==
    /\ WF_kwVars(NextDelivers) /\ WF_kwVars(CallerHandles) /\ WF_kwVars(StallTimeout)
    /\ WF_kwVars(Joins) /\ WF_kwVars(~brokerUp /\ BrokerChanges) /\ WF_kwVars(StallPath)
KwSpec == KwInit /\ [][KwNext]_kwVars /\ KwFair

----------------------------------------------------------------------------
\* What is committed the caller was through with: a consumer put in place of
\* another one passes over nothing.
CommittedHandled == 1..committedTo \subseteq handled

\* A consumer that freezes while messages wait is replaced in the end, and so is
\* one that has delivered and lost its group; a group lost before the first
\* message is not seen.
StuckRecovers ==
    /\ (inner = "frozen" /\ readTo < tail) ~> inner = "ok"
    /\ (inner = "lost" /\ assigned) ~> inner = "ok"
=============================================================================
