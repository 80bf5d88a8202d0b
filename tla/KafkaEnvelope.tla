--------------------------- MODULE KafkaEnvelope ---------------------------
(* What rb-kafka makes of one envelope: the headers a producer writes, what a*)
(* consumer decodes of them, and the copies that go to the retry topic and to*)
(* the dead letters.  The caller is the one the API is made for: it takes one*)
(* envelope at a time, settles it (done, retried or buried) and commits it.  *)
(*                                                                           *)
(* Bounds: the events in Events (one may be published twice), MaxRecords     *)
(* records on the topic, MaxCrashes crashes, the clock up to MaxClock; the   *)
(* waits of the schedule are scaled to 1, 2 and 3 ticks.                     *)
EXTENDS Naturals, FiniteSets, Sequences, SequencesExt

CONSTANTS Events, MaxRecords, MaxCrashes, MaxClock

Topics == {"main", "retry", "dlq"}
NONE == 0
NothingHeld == [topic |-> "-", offset |-> 0, settled |-> FALSE]

VARIABLES
    log,        \* topic -> its records
    committed,  \* topic -> offset the group has committed
    position,   \* topic -> offset the consumer reads next
    held,       \* the envelope the caller has, and whether it has settled it
    done,       \* records the caller handled
    discarded,    \* records the consumer answered with an error and committed
    handed,     \* when each event was handed out, by its attempt
    clock, crashes

kafkaVars == <<log, committed, position, held, done, discarded, handed, clock, crashes>>
Consumed == {"main", "retry"}

KafkaInit ==
    /\ log = [t \in Topics |-> <<>>]
    /\ committed = [t \in Consumed |-> 1] /\ position = [t \in Consumed |-> 1]
    /\ held = NothingHeld /\ done = {} /\ discarded = {} /\ handed = {}
    /\ clock = 1 /\ crashes = 0

----------------------------------------------------------------------------
(* The producer.  A record keeps the headers that anything reads; an envelope*)
(* without a due time has none, and "foreign" lacks a header it must have.   *)

SchemaVersions == {"v1"}
Envelope(event, attempt, trace) == [event |-> event, attempt |-> attempt, trace |-> trace]
BuildHeaders(env) == [event |-> env.event, version |-> "v1", attempt |-> env.attempt, trace |-> env.trace, due |-> NONE]
BuildHeadersWithRetry(env, due) == [BuildHeaders(env) EXCEPT !.due = due]
Append1(topic, record) == log' = [log EXCEPT ![topic] = Append(@, record)]

\* A send that times out may have been stored, and the caller publishes again.
PublishEnvelope(event, trace) ==
    /\ Len(log["main"]) < MaxRecords
    /\ Append1("main", BuildHeaders(Envelope(event, 0, trace)))
    /\ UNCHANGED <<committed, position, held, done, discarded, handed, clock, crashes>>
ForeignRecord ==
    /\ Len(log["main"]) < MaxRecords
    /\ Append1("main", [event |-> "foreign", version |-> "-", attempt |-> 0, trace |-> "none", due |-> NONE])
    /\ UNCHANGED <<committed, position, held, done, discarded, handed, clock, crashes>>

MAX_ATTEMPTS == 3
BACKOFF_SCHEDULE == <<1, 2, 3>>
\* Mutant: one attempt more.
TerminalLate(attempt) == attempt > MAX_ATTEMPTS
IsTerminal(attempt) == attempt >= MAX_ATTEMPTS
\* Mutant: the schedule is indexed by the attempts before this one.
LateDelay(attempt) == BACKOFF_SCHEDULE[IF attempt <= 1 THEN 1 ELSE attempt - 1]
NextDelay(attempt) == BACKOFF_SCHEDULE[attempt]
HeldRecord == log[held.topic][held.offset]
\* publish_retry; the caller buries what it refuses.
PublishRetry ==
    LET r == HeldRecord
        next == r.attempt + 1
    IN  /\ held # NothingHeld /\ ~held.settled /\ ~IsTerminal(next)
        /\ Append1("retry", BuildHeadersWithRetry(Envelope(r.event, next, r.trace), clock + NextDelay(next)))
        /\ held' = [held EXCEPT !.settled = TRUE]
        /\ UNCHANGED <<committed, position, done, discarded, handed, clock, crashes>>

----------------------------------------------------------------------------
(* The consumer.                                                             *)

IsValidTraceparent(trace) == trace # "malformed"
\* decode_envelope: the gate for early retries is one of its errors.
Decode(r) ==
    CASE r.version \notin SchemaVersions \/ r.event = "foreign" -> "error"
      [] r.due # NONE /\ clock < r.due -> "error"
      [] OTHER -> "ok"
\* nack_to_dlq: the due time is not copied.
DlqRecord(r, trace) == [r EXCEPT !.trace = trace, !.due = NONE]
At(topic, offset) == <<topic, offset>>
Advance(t) == position' = [position EXCEPT ![t] = @ + 1]

\* The commit of an error is as asynchronous as any other, and may be lost.
NextError(t) ==
    /\ held = NothingHeld /\ position[t] <= Len(log[t])
    /\ Decode(log[t][position[t]]) = "error"
    /\ Advance(t)
    /\ \/ committed' = [committed EXCEPT ![t] = position[t] + 1] \/ committed' = committed
    /\ discarded' = discarded \cup {At(t, position[t])}
    /\ UNCHANGED <<log, held, done, handed, clock, crashes>>
\* Mutant: the record is committed and not buried.
BadTraceCommitted(t) ==
    LET r == log[t][position[t]]
    IN  /\ held = NothingHeld /\ position[t] <= Len(log[t])
        /\ Decode(r) = "ok" /\ ~IsValidTraceparent(r.trace)
        /\ Advance(t) /\ committed' = [committed EXCEPT ![t] = position[t] + 1]
        /\ UNCHANGED <<log, held, done, discarded, handed, clock, crashes>>
\* A malformed traceparent: buried without it, which may fail, and committed.
NextBadTrace(t) ==
    LET r == log[t][position[t]]
    IN  /\ held = NothingHeld /\ position[t] <= Len(log[t])
        /\ Decode(r) = "ok" /\ ~IsValidTraceparent(r.trace)
        /\ Advance(t) /\ committed' = [committed EXCEPT ![t] = position[t] + 1]
        /\ \/ Append1("dlq", DlqRecord(r, "none")) /\ discarded' = discarded
           \/ log' = log /\ discarded' = discarded \cup {At(t, position[t])}
        /\ UNCHANGED <<held, done, handed, clock, crashes>>
NextOk(t) ==
    LET r == log[t][position[t]]
    IN  /\ held = NothingHeld /\ position[t] <= Len(log[t])
        /\ Decode(r) = "ok" /\ IsValidTraceparent(r.trace)
        /\ Advance(t) /\ held' = [topic |-> t, offset |-> position[t], settled |-> FALSE]
        /\ handed' = handed \cup {[event |-> r.event, attempt |-> r.attempt, at |-> clock]}
        /\ UNCHANGED <<log, committed, done, discarded, clock, crashes>>

NackToDlq ==
    /\ held # NothingHeld /\ ~held.settled
    /\ Append1("dlq", DlqRecord(HeldRecord, HeldRecord.trace))
    /\ held' = [held EXCEPT !.settled = TRUE]
    /\ UNCHANGED <<committed, position, done, discarded, handed, clock, crashes>>
Handle ==
    /\ held # NothingHeld /\ ~held.settled
    /\ held' = [held EXCEPT !.settled = TRUE] /\ done' = done \cup {At(held.topic, held.offset)}
    /\ UNCHANGED <<log, committed, position, discarded, handed, clock, crashes>>
Commit ==
    /\ held # NothingHeld /\ held.settled /\ held' = NothingHeld
    /\ \/ committed' = [committed EXCEPT ![held.topic] = held.offset + 1] \/ committed' = committed
    /\ UNCHANGED <<log, position, done, discarded, handed, clock, crashes>>

Crash ==
    /\ crashes < MaxCrashes /\ crashes' = crashes + 1
    /\ position' = committed /\ held' = NothingHeld
    /\ UNCHANGED <<log, committed, done, discarded, handed, clock>>
Tick == clock < MaxClock /\ clock' = clock + 1 /\ UNCHANGED <<log, committed, position, held, done, discarded, handed, crashes>>

KafkaNext ==
    \/ \E e \in Events, tr \in {"valid", "malformed"} : PublishEnvelope(e, tr)
    \/ ForeignRecord \/ PublishRetry \/ NackToDlq \/ Handle \/ Commit \/ Crash \/ Tick
    \/ \E t \in Consumed : NextError(t) \/ NextBadTrace(t) \/ NextOk(t)
KafkaSpec == KafkaInit /\ [][KafkaNext]_kafkaVars

----------------------------------------------------------------------------
\* A copy on the retry topic continues a record one attempt before it, a dead
\* letter has the event, version and attempt of a record that was consumed, and
\* no attempt reaches the maximum.
CopiesKeepIdentity ==
    LET Records(T) == UNION {ToSet(log[t]) : t \in T}
    IN  /\ \A r \in ToSet(log["retry"]) : /\ r.attempt < MAX_ATTEMPTS
                                          /\ \E o \in Records(Consumed) : o.event = r.event /\ o.attempt + 1 = r.attempt
        /\ \A r \in ToSet(log["dlq"]) : \E o \in Records(Consumed) :
              o.event = r.event /\ o.attempt = r.attempt /\ o.version = r.version /\ r.trace \in {o.trace, "none"}
\* Between the time an event is handed out and the time its next attempt is,
\* the wait of the schedule has passed.
RetriesBackOff ==
    \A h \in handed : h.attempt > 0 =>
        \E g \in handed : g.event = h.event /\ g.attempt + 1 = h.attempt /\ g.at + BACKOFF_SCHEDULE[h.attempt] <= h.at
\* No record that could be decoded vanishes: below the committed offset it was
\* handled, or has a copy on the retry topic or among the dead letters, unless
\* the consumer dropped it.
NoneVanish ==
    \A t \in Consumed : \A o \in 1..(committed[t] - 1) :
        LET r == log[t][o]
        IN  \/ At(t, o) \in done \cup discarded
            \/ \E c \in ToSet(log["retry"]) : c.event = r.event /\ c.attempt = r.attempt + 1
            \/ \E c \in ToSet(log["dlq"]) : c.event = r.event /\ c.attempt = r.attempt
\* A record survives its retries as itself, and neither early nor silently ends.
RecordsSurvive == CopiesKeepIdentity /\ RetriesBackOff /\ NoneVanish
\* A retry that comes too early comes back when it is due (violated: the error
\* is committed like that of a record that can never be decoded).
EarlyRetryComesBack == \A p \in discarded : p[1] # "retry" \/ p[2] >= committed["retry"]
=============================================================================
