------------------------------- MODULE EventStream -------------------------------
(* How a client follows one agent session: the SSE bus of control-api (crates/     *)
(* rb-sse), its publishers, and the two ways GET /v1/agents/sessions/{id}/events    *)
(* joins it (routes/agents/events).                                                *)
(*                                                                                 *)
(* "join": ?from_sequence=n; subscribe, read the rows, then the channel, skipping   *)
(* what the rows covered.  "plain": subscribe, replay the ring after Last-Event-Id, *)
(* then the channel.  Publishing pushes a frame into the ring under its lock and    *)
(* only then sends it: frames of two publishers may pass each other in between.     *)
(* One batch is ingested at a time, and no two have the same sequences (EventRelay    *)
(* has the requests that overlap).                                                   *)
EXTENDS Integers, Sequences

CONSTANTS
  Publishers,    \* which handlers publish: "ingest", "patch"
  MaxRows,       \* bound: rows of a session
  Settings       \* the requests and configurations a behaviour is of, see Setting

(* mode: "join" or "plain"; rows, others: bounds on the session's rows and on the     *)
(* frames of other sessions, sent by "patch"; channelCap, ringCap: of SseConfig;      *)
(* historyLimit: LIMIT of the history query; expiry: frames may outlive ring_ttl.     *)
Setting == [mode : {"join", "plain"}, rows : 0 .. MaxRows, others : Nat, channelCap : Nat \ {0},
            ringCap : Nat \ {0}, historyLimit : Nat \ {0}, expiry : BOOLEAN]

ASSUME StreamAssumption ==
  /\ Publishers \subseteq {"ingest", "patch"}
  /\ MaxRows \in Nat
  /\ Settings \subseteq Setting

VARIABLES
  setting,      \* the one of this behaviour
  maxSeq,       \* the session's rows have the sequences 1 .. maxSeq
  unpublished,  \* history: rows whose handler was dropped before it published them
  status,       \* of the session's row
  todo,         \* what the running handlers have still to publish
  held,         \* [Publishers -> frame pushed into the ring and not yet sent]
  ids,          \* number of frames made so far
  ring,         \* RingBuffer::buf
  chan,         \* every frame sent on the tenant's broadcast channel
  phase,        \* where the request of the client stands
  over,         \* the status it has read was a terminal one
  pos,          \* frames of chan the receiver is past
  replay,       \* frames from the ring still to be emitted
  hist,         \* rows fetched and still to be emitted
  covered,      \* max_history_seq
  lastId,       \* Last-Event-Id of the client; 0 when it has none
  last,         \* the last sequence it has received, or asked for
  synced,       \* FALSE before the first event and after a stream-reset
  missed,       \* history: sequences it never got between two it got
  twice,        \* history: it got a sequence again, or an earlier one
  skipped,      \* history: frames of the session the server did not pass on
  passed,       \* history: rows whose frame was sent after one pushed later
  outOfReach    \* history: rows sent before a subscription, which the ring had forgotten
                \* or the LIMIT of the history query left out

bus == <<held, ids, ring, chan>>
server == <<maxSeq, unpublished, status, todo>>
request == <<phase, over, pos, replay, hist, covered>>
view == <<lastId, last, synced, missed, twice>>
history == <<skipped, passed, outOfReach>>
streamVars == <<setting, server, bus, request, view, history>>

Mode == setting.mode
MaxOther == setting.others
ChannelCap == setting.channelCap
RingCap == setting.ringCap

NoFrame == [id |-> 0, kind |-> "none", seq |-> 0]
Content == [kind : {"event", "lifecycle", "other"}, seq : -1 .. MaxRows + MaxOther]
Frame == [id : Nat, kind : {"none", "event", "lifecycle", "other"}, seq : -1 .. MaxRows + MaxOther]

Fewer(a, b) == IF a <= b THEN a ELSE b

StreamInit ==
  /\ setting \in Settings
  /\ maxSeq = 0 /\ unpublished = {} /\ status = "pending"
  /\ todo = [p \in Publishers |->
               IF p = "patch" THEN [kind : {"other"}, seq : 1 .. MaxOther] ELSE {}]
  /\ held = [p \in Publishers |-> NoFrame]
  /\ ids = 0 /\ ring = <<>> /\ chan = <<>>
  /\ phase = "closed" /\ over = FALSE /\ pos = 0 /\ replay = <<>> /\ hist = {} /\ covered = 0
  /\ lastId = 0 /\ last = 0 /\ synced = FALSE /\ missed = {} /\ twice = FALSE
  /\ skipped = {} /\ passed = {} /\ outOfReach = {}

----------------------------------------------------------------------------------
(* The publishers.  ingest_agent_session_events has its rows back before it         *)
(* publishes them one by one; dropped while it waits, it publishes none of them.    *)
Idle(p) == todo[p] = {} /\ held[p] = NoFrame

CommitRows ==
  /\ "ingest" \in Publishers /\ Idle("ingest")
  /\ \E k \in 1 .. setting.rows - maxSeq :
       LET new == maxSeq + 1 .. maxSeq + k
       IN  /\ maxSeq' = maxSeq + k
           /\ \/ /\ todo' = [todo EXCEPT !["ingest"] = {[kind |-> "event", seq |-> q] : q \in new}]
                 /\ UNCHANGED unpublished
              \/ unpublished' = unpublished \cup new /\ UNCHANGED todo
  /\ UNCHANGED <<status, bus, request, view, history>>

(* patch_session_status: the row first, the frame later, or never when the handler    *)
(* is dropped at an await.  lifecycle_event_seq is 0 for "running", and for the end   *)
(* i64::MIN + 1 or + 2, here -1: rows that "from 1 on" does not fetch.                *)
PatchStatus(new, seq) ==
  /\ "patch" \in Publishers /\ Idle("patch")
  /\ status' = new
  /\ \/ todo' = [todo EXCEPT !["patch"] = {[kind |-> "lifecycle", seq |-> seq]}]
     \/ UNCHANGED todo
  /\ UNCHANGED <<maxSeq, unpublished, bus, request, view, history>>

RunningSession == status = "pending" /\ PatchStatus("running", 0)
EndSession == status # "ended" /\ PatchStatus("ended", -1)

(* RingBuffer::push, after evict_expired *)
Kept(r) == IF setting.expiry THEN {SubSeq(r, i, Len(r)) : i \in 1 .. Len(r) + 1} ELSE {r}

\* Mutant: the ring grows by one more.
PushedLate(r, f) == Append(IF Len(r) > RingCap THEN Tail(r) ELSE r, f)

Pushed(r, f) == Append(IF Len(r) >= RingCap THEN Tail(r) ELSE r, f)

PushFrame(p, c) ==
  /\ held[p] = NoFrame
  /\ ids' = ids + 1
  /\ LET f == [id |-> ids + 1, kind |-> c.kind, seq |-> c.seq]
     IN  /\ held' = [held EXCEPT ![p] = f]
         /\ \E r \in Kept(ring) : ring' = Pushed(r, f)
  /\ UNCHANGED chan

(* PerTenantBroadcaster::publish, first half *)
Push(p) ==
  /\ \E c \in todo[p] :
       /\ \A d \in todo[p] : c.seq <= d.seq
       /\ PushFrame(p, c)
       /\ todo' = [todo EXCEPT ![p] = @ \ {c}]
  /\ UNCHANGED <<maxSeq, unpublished, status, request, view, history>>

EarlierHeld(p) == {q \in Publishers : held[q].kind = "event" /\ held[q].id < held[p].id}

(* second half *)
SendFrame(p) ==
  /\ held[p] # NoFrame
  /\ chan' = Append(chan, held[p])
  /\ held' = [held EXCEPT ![p] = NoFrame]
  /\ passed' = passed \cup {held[q].seq : q \in EarlierHeld(p)}
  /\ UNCHANGED <<server, ids, ring, request, view, skipped, outOfReach>>

----------------------------------------------------------------------------------
(* session_events: the status is read before the subscription *)
Open ==
  /\ phase = "closed"
  /\ phase' = "opened"
  /\ over' = (status = "ended")
  /\ UNCHANGED <<server, bus, pos, replay, hist, covered, view, history>>

(* subscribe_raw: the receiver sees what is sent from now on.  A plain request for  *)
(* an ended session is answered by one error frame.                                 *)
Subscribe ==
  /\ phase = "opened"
  /\ phase' = IF Mode = "plain" /\ over THEN "closed" ELSE "subscribed"
  /\ pos' = Len(chan)
  /\ UNCHANGED <<server, bus, over, replay, hist, covered, view, history>>

(* the rows whose frames were sent before the receiver's place n *)
RowsSent(n) == {chan[i].seq : i \in {j \in 1 .. n : chan[j].kind = "event"}}

(* the history query: at most HistoryLimit rows from the sequence asked for; what     *)
(* is above them and was sent before the subscription comes from nowhere              *)
FetchHistory ==
  /\ Mode = "join" /\ phase = "subscribed"
  /\ covered' = Fewer(maxSeq, last + setting.historyLimit)
  /\ hist' = last + 1 .. covered'
  /\ outOfReach' = outOfReach \cup {q \in RowsSent(pos) : q > covered'}
  /\ synced' = TRUE
  /\ phase' = "streaming"
  /\ UNCHANGED <<server, bus, over, pos, replay, lastId, last, missed, twice, skipped, passed>>

Known(r) == \E i \in DOMAIN r : r[i].id = lastId

\* Mutant: the frame after the known one is left out.
AfterNext(r) ==
  LET at == CHOOSE i \in DOMAIN r : r[i].id = lastId IN SubSeq(r, at + 2, Len(r))

(* the frames after the last one the client knows *)
After(r) ==
  LET at == CHOOSE i \in DOMAIN r : r[i].id = lastId IN SubSeq(r, at + 1, Len(r))

(* RingBuffer::replay_after; nothing when the id is unknown *)
ReadRing ==
  /\ Mode = "plain" /\ phase = "subscribed"
  /\ IF lastId = 0
     THEN replay' = <<>> /\ UNCHANGED <<ring, outOfReach>>
     ELSE \E r \in Kept(ring) :
            /\ ring' = r
            /\ replay' = IF Known(r) THEN After(r) ELSE <<>>
            /\ outOfReach' = outOfReach \cup IF Known(r) THEN {} ELSE RowsSent(pos)
  /\ phase' = "streaming"
  /\ UNCHANGED <<server, held, ids, chan, over, pos, hist, covered, view, skipped, passed>>

----------------------------------------------------------------------------------
(* the client's side of one event *)
Receive(seq) ==
  /\ missed' = missed \cup (IF synced THEN last + 1 .. seq - 1 ELSE {})
  /\ twice' = (twice \/ (synced /\ seq <= last))
  /\ last' = IF synced /\ seq <= last THEN last ELSE seq
  /\ synced' = TRUE

(* history_join_stream, phase 1 *)
EmitRow ==
  /\ phase = "streaming"
  /\ \E seq \in hist :
       /\ \A s \in hist : seq <= s
       /\ Receive(seq)
       /\ hist' = hist \ {seq}
  /\ UNCHANGED <<server, bus, phase, over, pos, replay, covered, lastId, history>>

Emit(f) ==
  /\ lastId' = f.id
  /\ IF f.kind = "event" THEN Receive(f.seq) ELSE UNCHANGED <<last, synced, missed, twice>>

(* build_inner_stream, phase 1 *)
EmitReplay ==
  /\ phase = "streaming" /\ replay # <<>>
  /\ replay' = Tail(replay)
  /\ IF Head(replay).kind = "other" THEN UNCHANGED view ELSE Emit(Head(replay))
  /\ UNCHANGED <<server, bus, phase, over, pos, hist, covered, history>>

Lagging == Len(chan) - pos > ChannelCap
Live == phase = "streaming" /\ hist = {} /\ replay = <<>>

(* The stream of an ended session closes after its rows. *)
Finish ==
  /\ Live /\ over
  /\ phase' = "closed"
  /\ UNCHANGED <<server, bus, over, pos, replay, hist, covered, view, history>>

\* Mutant: the last row is not covered.
CoveredBelow(f) == f.seq < covered

\* Mutant: max_history_seq is the next sequence.
CoveredAbove(f) == f.seq <= covered + 1

(* the deduplication of history_join_stream *)
AlreadyCovered(f) == f.seq <= covered

(* phase 2 of both streams *)
EmitLive ==
  /\ Live /\ ~over /\ ~Lagging /\ pos < Len(chan)
  /\ pos' = pos + 1
  /\ LET f == chan[pos + 1]
         covers == Mode = "join" /\ AlreadyCovered(f)
     IN  \/ f.kind = "other" /\ UNCHANGED <<view, skipped>>
         \/ f.kind # "other" /\ covers /\ skipped' = skipped \cup {f} /\ UNCHANGED view
         \/ f.kind # "other" /\ ~covers /\ Emit(f) /\ UNCHANGED skipped
  /\ UNCHANGED <<server, bus, phase, over, replay, hist, covered, passed, outOfReach>>

(* RecvError::Lagged: the receiver moves to the oldest frame the channel holds, the  *)
(* client gets a stream-reset and forgets what it has.  Only the plain stream ends.  *)
EmitReset ==
  /\ Live /\ ~over /\ Lagging
  /\ pos' = Len(chan) - ChannelCap
  /\ synced' = FALSE /\ last' = 0 /\ lastId' = 0
  /\ phase' = IF Mode = "plain" THEN "closed" ELSE phase
  /\ UNCHANGED <<server, bus, over, replay, hist, covered, missed, twice, history>>

(* the connection breaks; the client asks again from where it is *)
Disconnect ==
  /\ phase # "closed"
  /\ phase' = "closed" /\ replay' = <<>> /\ hist' = {}
  /\ UNCHANGED <<server, bus, over, pos, covered, view, history>>

Publish == UNCHANGED setting /\ \E p \in Publishers : Push(p) \/ SendFrame(p)
Stream ==
  /\ UNCHANGED setting
  /\ \/ Subscribe \/ FetchHistory \/ ReadRing \/ EmitRow \/ EmitReplay \/ EmitLive
     \/ EmitReset \/ Finish
Outside ==
  /\ UNCHANGED setting
  /\ CommitRows \/ RunningSession \/ EndSession \/ Open \/ Disconnect

StreamNext == Publish \/ Stream \/ Outside

StreamSpec == StreamInit /\ [][StreamNext]_streamVars

(* Handlers that have started to publish go on, and the server polls the stream.     *)
StreamFairSpec == StreamSpec /\ WF_streamVars(Publish) /\ WF_streamVars(Stream)

----------------------------------------------------------------------------------
(* PROPERTIES *)

(* The types of the variables; the ring never holds more than its capacity.          *)
StreamTypeOK ==
  /\ setting \in Settings
  /\ maxSeq \in 0 .. setting.rows
  /\ {unpublished, missed, hist, passed, outOfReach} \subseteq SUBSET (1 .. MaxRows)
  /\ status \in {"pending", "running", "ended"} /\ over \in BOOLEAN /\ synced \in BOOLEAN /\ twice \in BOOLEAN
  /\ todo \in [Publishers -> SUBSET Content]
  /\ held \in [Publishers -> Frame]
  /\ ids \in Nat
  /\ ring \in Seq(Frame) /\ Len(ring) <= RingCap
  /\ chan \in Seq(Frame) /\ pos \in 0 .. Len(chan)
  /\ replay \in Seq(Frame) /\ skipped \subseteq Frame
  /\ phase \in {"closed", "opened", "subscribed", "streaming"}
  /\ covered \in 0 .. MaxRows /\ last \in 0 .. MaxRows /\ lastId \in Nat

(* events/mod.rs: with from_sequence "the endpoint delivers a gap-free history-join   *)
(* stream": rows committed around the switch from rows to frames are neither missed   *)
(* nor sent again, unless a stream-reset told the client to start over.  Rows whose   *)
(* handler never published them can only be seen by asking again, and so can rows    *)
(* that were sent before the subscription and lie above the history query's LIMIT.    *)
JoinGapFree ==
  StreamTypeOK /\ (Mode = "join" => missed \subseteq unpublished \cup outOfReach /\ ~twice)

(* rb-sse: with a Last-Event-Id "the stream first replays all events after that ID    *)
(* before switching to live".  A client that reconnects misses, without being told to  *)
(* start over, only what was never published, what another publisher's frame passed    *)
(* between ring and channel, and what was sent before the ring had lost its id.        *)
ReplayComplete == Mode = "plain" => missed \subseteq unpublished \cup passed \cup outOfReach

(* events/mod.rs: the live stream skips "any frames whose sequence number is already  *)
(* covered by the history batch": what is skipped was a row the client has.           *)
SkippedWereCovered == \A f \in skipped : f.seq >= 0

(* A joined client that stays gets every row that is published, or a stream-reset.    *)
JoinCatchesUp ==
  \A seq \in UNION {1 .. s.rows : s \in {s \in Settings : s.mode = "join"}} :
    (/\ Mode = "join" /\ phase = "streaming" /\ ~over
     /\ seq <= maxSeq /\ seq \notin unpublished \cup outOfReach)
      ~> (last >= seq \/ phase = "closed" \/ ~synced)
==================================================================================
