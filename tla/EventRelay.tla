-------------------------------- MODULE EventRelay --------------------------------
(* agent-runner's event relay (services/agent-runner/src/event_relay) and the      *)
(* handler of control-api that stores what it sends (events_ingest.rs).            *)
(*                                                                                 *)
(* The stdout tasks of the agents push events into one bounded buffer; one flush   *)
(* task drains a batch, groups it by session and posts each group, again while     *)
(* the answer is a 5xx, a refused connection or a timeout.  A request given up by  *)
(* the relay may still be executed: control-api's INSERT runs in Postgres whether  *)
(* its handler is alive or not.  The INSERT reads MAX(sequence) and writes under   *)
(* one snapshot, so two of them may read the same maximum.                         *)
EXTENDS Integers, Sequences, FiniteSets

CONSTANTS
  Sessions,     \* agent sessions that produce events
  MaxEvents,    \* bound: events one session produces
  Produces,     \* bound: how many of them each session produces
  Capacity,     \* RelayConfig::capacity
  BatchSize,    \* RelayConfig::batch_size
  MaxAttempts,  \* MAX_RETRY_ATTEMPTS
  MaxLate,      \* bound: requests given up by the relay and still under way
  TurnEnds      \* which events are TurnComplete

ASSUME RelayAssumption ==
  /\ {MaxEvents, MaxLate} \subseteq Nat
  /\ Produces \in [Sessions -> 0 .. MaxEvents]
  /\ {Capacity, BatchSize, MaxAttempts} \subseteq Nat \ {0}
  /\ TurnEnds \subseteq [session : Sessions, n : 1 .. MaxEvents]

VARIABLES
  sent,       \* [Sessions -> Nat]: events given to EventSender::send so far
  buffer,     \* the shared VecDeque
  permit,     \* the permit Notify holds
  pc,         \* where flush_loop stands
  batch,      \* events drained and not yet settled
  current,    \* the events post_with_retry is sending
  attempt,    \* its loop counter
  calls,      \* requests control-api has not answered, or not for the relay to hear
  rows,       \* agents.agent_events: [event, seq]
  published,  \* counted by rb_agent_relay_published_total
  evicted,    \* counted by rb_agent_relay_dropped_total
  failed,     \* counted by rb_agent_relay_failed_total
  forgotten,  \* history: lost when the runner stopped
  faulty      \* history: some request failed

relay == <<buffer, permit, pc, batch, current, attempt>>
counted == <<published, evicted, failed, forgotten>>
vars == <<sent, relay, calls, rows, counted, faulty>>

Event == [session : Sessions, n : 1 .. MaxEvents]
Stages == {"sent", "read", "stored", "refused"}
Request == [events : SUBSET Event, attempt : 0 .. MaxAttempts - 1, live : BOOLEAN,
            stage : Stages, base : Nat]

Buffered == {buffer[i] : i \in DOMAIN buffer}
Sent == {e \in Event : e.n <= sent[e.session]}
Settled(e) == e \in published \cup evicted \cup failed \cup forgotten

RowsOf(s) == {r \in rows : r.event.session = s}

(* COALESCE(MAX(sequence), 0) over the non-negative sequences of a session *)
LastSeq(s) ==
  IF RowsOf(s) = {} THEN 0
  ELSE CHOOSE m \in {r.seq : r \in RowsOf(s)} : \A r \in RowsOf(s) : r.seq <= m

(* WITH ORDINALITY: the place of an event in the batch it is sent with *)
Ordinal(e, B) == Cardinality({b \in B : b.n <= e.n})

Least(a, b) == IF a <= b THEN a ELSE b

Init ==
  /\ sent = [s \in Sessions |-> 0]
  /\ buffer = <<>> /\ permit = FALSE
  /\ pc = "wait" /\ batch = {} /\ current = {} /\ attempt = 0
  /\ calls = {} /\ rows = {}
  /\ published = {} /\ evicted = {} /\ failed = {} /\ forgotten = {}
  /\ faulty = FALSE

-----------------------------------------------------------------------------------
(* EventSender::send: drop the oldest event when the buffer is full, wake the      *)
(* flush task when a whole batch is there.                                         *)
Full == Len(buffer) >= Capacity

\* Mutant: the eviction is forgotten.
SendUnbounded(s) ==
  /\ sent[s] < Produces[s]
  /\ sent' = [sent EXCEPT ![s] = @ + 1]
  /\ buffer' = Append(buffer, [session |-> s, n |-> sent[s] + 1])
  /\ permit' = (permit \/ Len(buffer') >= BatchSize)
  /\ UNCHANGED <<pc, batch, current, attempt, calls, rows, counted, faulty>>

Send(s) ==
  /\ sent[s] < Produces[s]
  /\ sent' = [sent EXCEPT ![s] = @ + 1]
  /\ buffer' = Append(IF Full THEN Tail(buffer) ELSE buffer,
                      [session |-> s, n |-> sent[s] + 1])
  /\ evicted' = evicted \cup (IF Full THEN {Head(buffer)} ELSE {})
  /\ permit' = (permit \/ Len(buffer') >= BatchSize)
  /\ UNCHANGED <<pc, batch, current, attempt, calls, rows, published, failed, forgotten,
                 faulty>>

(* flush_loop: the oldest events, at most a batch of them *)
Drain ==
  LET take == Least(Len(buffer), BatchSize)
  IN  /\ batch' = {buffer[i] : i \in 1 .. take}
      /\ buffer' = SubSeq(buffer, take + 1, Len(buffer))
      /\ pc' = "group"
      /\ UNCHANGED <<sent, current, attempt, calls, rows, counted, faulty>>

\* Mutant: only full batches are flushed.
TickFullOnly ==
  /\ pc = "wait"
  /\ Len(buffer) >= BatchSize
  /\ Drain
  /\ UNCHANGED permit

(* the timer ticks *)
Tick ==
  /\ pc = "wait"
  /\ buffer # <<>>
  /\ Drain
  /\ UNCHANGED permit

(* notify_one was called; the buffer may have been drained since: an empty batch *)
Notified ==
  /\ pc = "wait"
  /\ permit
  /\ permit' = FALSE
  /\ Drain

(* by_session, in the arbitrary order of the HashMap *)
NextGroup ==
  /\ pc = "group"
  /\ IF batch = {}
     THEN pc' = "wait" /\ UNCHANGED <<current, attempt>>
     ELSE \E s \in {e.session : e \in batch} :
            /\ current' = {e \in batch : e.session = s}
            /\ attempt' = 0
            /\ pc' = "post"
  /\ UNCHANGED <<sent, buffer, permit, batch, calls, rows, counted, faulty>>

(* post_with_retry: one pass of its loop, after the backoff *)
Post ==
  /\ pc = "post"
  /\ calls' = calls \cup {[events |-> current, attempt |-> attempt, live |-> TRUE,
                           stage |-> "sent", base |-> 0]}
  /\ pc' = "answer"
  /\ UNCHANGED <<sent, buffer, permit, batch, current, attempt, rows, counted, faulty>>

(* flush_session is done with the group, one way or the other *)
GroupDone ==
  /\ batch' = batch \ current
  /\ current' = {}
  /\ attempt' = 0
  /\ pc' = "group"

(* 2xx *)
Posted(c) ==
  /\ c.stage = "stored"
  /\ calls' = calls \ {c}
  /\ published' = published \cup current
  /\ GroupDone
  /\ UNCHANGED <<sent, buffer, permit, rows, evicted, failed, forgotten, faulty>>

\* Mutant: the batch is abandoned after the last attempt without being counted.
TryAgainUncounted ==
  IF attempt + 1 < MaxAttempts
  THEN attempt' = attempt + 1 /\ pc' = "post" /\ UNCHANGED <<batch, current, failed>>
  ELSE GroupDone /\ UNCHANGED failed

TryAgain ==
  IF attempt + 1 < MaxAttempts
  THEN attempt' = attempt + 1 /\ pc' = "post" /\ UNCHANGED <<batch, current, failed>>
  ELSE failed' = failed \cup current /\ GroupDone

\* Mutant: any answer counts as success.
ServerErrorIgnored(c) ==
  /\ c.stage = "refused"
  /\ calls' = calls \ {c}
  /\ published' = published \cup current
  /\ GroupDone
  /\ UNCHANGED <<sent, buffer, permit, rows, evicted, failed, forgotten, faulty>>

(* 5xx *)
ServerError(c) ==
  /\ c.stage = "refused"
  /\ calls' = calls \ {c}
  /\ TryAgain
  /\ UNCHANGED <<sent, buffer, permit, rows, published, evicted, forgotten, faulty>>

(* The relay stops listening; the request is over, or control-api executes it      *)
(* later, or never.                                                                *)
GiveUp(c) ==
  /\ \/ calls' = calls \ {c}
     \/ /\ c.stage \in {"sent", "read"}
        /\ Cardinality({d \in calls : ~d.live}) < MaxLate
        /\ calls' = (calls \ {c}) \cup {[c EXCEPT !.live = FALSE]}
  /\ faulty' = TRUE

(* is_connect, is_timeout, or a 5xx although the rows are there *)
PostFails(c) ==
  /\ GiveUp(c)
  /\ TryAgain
  /\ UNCHANGED <<sent, buffer, permit, rows, published, evicted, forgotten>>

(* 4xx, or an error of the connection after the request was sent: not retried *)
PostRejected(c) ==
  /\ GiveUp(c)
  /\ failed' = failed \cup current
  /\ GroupDone
  /\ UNCHANGED <<sent, buffer, permit, rows, published, evicted, forgotten>>

(* the buffer, the batch and the request in hand are memory of the runner *)
RunnerStops ==
  /\ buffer' = <<>> /\ permit' = FALSE
  /\ pc' = "wait" /\ batch' = {} /\ current' = {} /\ attempt' = 0
  /\ \E kept \in SUBSET {c \in calls : c.live /\ c.stage \in {"sent", "read"}} :
       LET late == {c \in calls : ~c.live} \cup {[c EXCEPT !.live = FALSE] : c \in kept}
       IN  Cardinality(late) <= MaxLate /\ calls' = late
  /\ forgotten' = forgotten \cup Buffered \cup batch
  /\ UNCHANGED <<sent, rows, published, evicted, failed, faulty>>

-----------------------------------------------------------------------------------
(* ingest_agent_session_events: the INSERT takes its snapshot, then writes.  The    *)
(* CHECK on event_type does not know session.turn_complete.                        *)
Acceptable(c) == \A e \in c.events : e \notin TurnEnds

InsertReads(c) ==
  /\ c.stage = "sent"
  /\ \E s \in {e.session : e \in c.events} :
       calls' = (calls \ {c}) \cup {[c EXCEPT !.stage = "read", !.base = LastSeq(s)]}
  /\ UNCHANGED <<sent, relay, rows, counted, faulty>>

\* Mutant: the numbers start with the maximum and not after it.
NewRowsFromMax(c) ==
  {[event |-> e, seq |-> c.base + Ordinal(e, c.events) - 1] : e \in c.events}

NewRows(c) ==
  {[event |-> e, seq |-> c.base + Ordinal(e, c.events)] : e \in c.events}

InsertWrites(c) ==
  /\ c.stage = "read"
  /\ Acceptable(c)
  /\ rows' = rows \cup NewRows(c)
  /\ calls' = (calls \ {c}) \cup (IF c.live THEN {[c EXCEPT !.stage = "stored"]} ELSE {})
  /\ UNCHANGED <<sent, relay, counted, faulty>>

InsertFails(c) ==
  /\ c.live
  /\ \/ c.stage = "read" /\ ~Acceptable(c) /\ UNCHANGED faulty
     \/ c.stage \in {"sent", "read"} /\ faulty' = TRUE
  /\ calls' = (calls \ {c}) \cup {[c EXCEPT !.stage = "refused"]}
  /\ UNCHANGED <<sent, relay, rows, counted>>

FlushLoop ==
  \/ Tick \/ Notified \/ NextGroup \/ Post
  \/ /\ pc = "answer"
     /\ \E c \in calls : c.live /\ (\/ Posted(c) \/ ServerError(c)
                                    \/ PostFails(c) \/ PostRejected(c))

IngestEvents == \E c \in calls : InsertReads(c) \/ InsertWrites(c) \/ InsertFails(c)

Next == (\E s \in Sessions : Send(s)) \/ FlushLoop \/ IngestEvents \/ RunnerStops

Spec == Init /\ [][Next]_vars

(* The flush task is scheduled, its timer ticks, and reqwest's timeout ends every  *)
(* request that is not answered.  Nothing is assumed of the agents, of control-api *)
(* or of requests given up.                                                        *)
FairSpec == Spec /\ WF_vars(FlushLoop)

-----------------------------------------------------------------------------------
(* PROPERTIES *)

(* The types of the variables; the buffer never holds more than its capacity.      *)
RelayTypeOK ==
  /\ sent \in [Sessions -> 0 .. MaxEvents]
  /\ buffer \in Seq(Event) /\ Len(buffer) <= Capacity
  /\ permit \in BOOLEAN
  /\ pc \in {"wait", "group", "post", "answer"}
  /\ batch \subseteq Event /\ current \subseteq batch
  /\ attempt \in 0 .. MaxAttempts - 1
  /\ calls \subseteq Request
  /\ rows \subseteq [event : Event, seq : Nat \ {0}]
  /\ {published, evicted, failed, forgotten} \subseteq SUBSET Event
  /\ faulty \in BOOLEAN

(* Every event the agents produced is in exactly one place: still in the buffer or *)
(* the batch, or under exactly one of the three counters the relay exports, unless *)
(* the runner stopped.  Whatever is counted published is in the table.             *)
EveryEventAccounted ==
  /\ RelayTypeOK
  /\ Sent = Buffered \cup batch \cup published \cup evicted \cup failed \cup forgotten
  /\ Cardinality(Sent) = Len(buffer) + Cardinality(batch) + Cardinality(published)
       + Cardinality(evicted) + Cardinality(failed) + Cardinality(forgotten)
  /\ published \subseteq {r.event : r \in rows}

(* Who replays a session by sequence has seen every published event before any      *)
(* later event of the session, in spite of retries and late requests.              *)
FirstSeenInOrder ==
  \A e \in published, r \in rows :
    r.event.session = e.session /\ e.n < r.event.n
      => \E q \in rows : q.event = e /\ q.seq < r.seq

(* An event never waits in the relay for ever: a partial batch is flushed by the    *)
(* timer, a failing batch is given up.                                             *)
EveryEventSettles == \A e \in Event : e \in Sent ~> Settled(e)

(* 018_agent_events_extra_types.sql adds event types "so that stream-json runtime   *)
(* events persisted by the new bulk-ingest endpoint are accepted": without a        *)
(* failure, no event is lost by the relay's requests.                              *)
HealthyPostsStored == failed # {} => faulty

(* The relay and the handler deliver what EventDelivery promises.                  *)
Delivery == INSTANCE EventDelivery WITH
  accepted <- sent, waiting <- Buffered \cup batch, delivered <- published,
  stored <- {r.event : r \in rows}

DeliveryImplemented == Delivery!DeliverySpec
===================================================================================
