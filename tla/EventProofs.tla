------------------------------- MODULE EventProofs -------------------------------
(* The events of agent sessions.  From the agent to the table: every event is in     *)
(* exactly one place, a published one is read before any later one of its session,   *)
(* and the relay implements EventDelivery.  From the table to the client: a joined   *)
(* stream is gap-free and a replay is complete.  For any sessions, rows, capacities, *)
(* batch sizes, limits and number of attempts.                                       *)
EXTENDS EventRelay, EventStream, FiniteSetTheorems, WellFoundedInduction, FunctionTheorems,
        SequenceTheorems, TLAPS

-----------------------------------------------------------------------------------
(* From the agent to the table. *)

Stored == {r.event : r \in rows}
Places == Buffered \cup batch \cup published \cup evicted \cup failed \cup forgotten

(* Each place holds what no other place holds, and the places hold what was sent.  *)
OnePlace ==
  /\ IsInjective(buffer)
  /\ Buffered \cap batch = {}
  /\ published \cap (Buffered \cup batch) = {}
  /\ evicted \cap (Buffered \cup batch \cup published) = {}
  /\ failed \cap (Buffered \cup batch \cup published \cup evicted) = {}
  /\ forgotten \cap (Buffered \cup batch \cup published \cup evicted \cup failed) = {}
  /\ Sent = Places
  /\ pc = "wait" => batch = {}

AllFinite ==
  /\ IsFiniteSet(batch) /\ IsFiniteSet(published) /\ IsFiniteSet(evicted)
  /\ IsFiniteSet(failed) /\ IsFiniteSet(forgotten) /\ IsFiniteSet(rows)
  /\ \A c \in calls : IsFiniteSet(c.events)

(* The request the relay listens to carries the events in its hands, and once it   *)
(* is stored they are in the table.                                                *)
LiveRequest ==
  /\ \A c \in calls : c.live => /\ pc = "answer" /\ c.events = current
                                /\ c.stage = "stored" => c.events \subseteq Stored
  /\ \A c, d \in calls : c.live /\ d.live => c = d
  /\ published \subseteq Stored

RelayInv == RelayTypeOK /\ OnePlace /\ AllFinite /\ LiveRequest

-----------------------------------------------------------------------------------
(* Finite sets and sequences. *)

(* The image of a finite set under a function is finite. *)
LEMMA FiniteImage == ASSUME NEW S, IsFiniteSet(S), NEW f, S \subseteq DOMAIN f PROVE IsFiniteSet({f[x] : x \in S})
<1> DEFINE g == [x \in S |-> f[x]]
           T == {f[x] : x \in S}
<1>1. g \in Surjection(S, T)
    BY DEF Surjection
<1> QED BY <1>1, FS_Surjection

(* A finite set of rows has one with the highest sequence. *)
LEMMA HighestRow ==
  ASSUME NEW R, IsFiniteSet(R), R # {}, \A r \in R : r.seq \in Nat
  PROVE  \E m \in R : \A r \in R : r.seq <= m.seq
<1> DEFINE above == [m \in R |-> {r \in R : r.seq > m.seq}]
           T == {above[m] : m \in R}
<1>1. T \subseteq FiniteSubsetsOf(R) /\ T # {}
    <2>1. \A m \in R : above[m] \in SUBSET R /\ IsFiniteSet(above[m])
        BY FS_Subset
    <2> QED BY <2>1 DEF FiniteSubsetsOf
<1>2. PICK U \in T : \A V \in T : <<V, U>> \notin StrictSubsetOrdering(R)
    <2> HIDE DEF T
    <2> QED BY <1>1, FS_StrictSubsetOrderingWellFounded, WFMin
<1>3. PICK m \in R : U = above[m]
    OBVIOUS
<1>4. SUFFICES ASSUME NEW r \in R, r.seq > m.seq PROVE FALSE
    OBVIOUS
<1>5. above[r] \in T /\ above[r] \subseteq above[m] /\ above[r] # above[m]
    <2>1. r \in above[m] /\ r \notin above[r]
        BY <1>4
    <2>2. above[r] \subseteq above[m]
        BY <1>4
    <2> QED BY <2>1, <2>2
<1>6. above[r] \in SUBSET R /\ above[m] \in SUBSET R
    OBVIOUS
<1> QED BY <1>2, <1>3, <1>5, <1>6 DEF StrictSubsetOrdering

Held(b) == {b[i] : i \in DOMAIN b}

(* As many events as places: a buffer that holds none twice.                       *)
LEMMA HeldCount ==
  ASSUME NEW b \in Seq(Event), IsInjective(b)
  PROVE  IsFiniteSet(Held(b)) /\ Cardinality(Held(b)) = Len(b)
<1>1. b \in Bijection(1 .. Len(b), Held(b))
  <2>1. DOMAIN b = 1 .. Len(b) /\ b \in [1 .. Len(b) -> Held(b)]
    BY DEF Held
  <2>2. b \in Injection(1 .. Len(b), Held(b))
    BY <2>1 DEF Injection, IsInjective
  <2>3. b \in Surjection(1 .. Len(b), Held(b))
    BY <2>1 DEF Surjection, Held
  <2> QED BY <2>2, <2>3 DEF Bijection
<1>2. IsFiniteSet(1 .. Len(b)) /\ Cardinality(1 .. Len(b)) = Len(b)
  <2>1. Len(b) \in Nat
    OBVIOUS
  <2> QED BY <2>1, FS_Interval
<1> QED BY <1>1, <1>2, FS_Bijection DEF ExistsBijection

(* What is appended is held beside what was there.                                 *)
LEMMA AppendHeld ==
  ASSUME NEW b \in Seq(Event), NEW e \in Event, IsInjective(b), e \notin Held(b)
  PROVE  Append(b, e) \in Seq(Event) /\ IsInjective(Append(b, e)) /\ Held(Append(b, e)) = Held(b) \cup {e}
<1>1. /\ Append(b, e) \in Seq(Event) /\ Len(Append(b, e)) = Len(b) + 1
      /\ \A i \in 1 .. Len(b) : Append(b, e)[i] = b[i]
      /\ Append(b, e)[Len(b) + 1] = e
  OBVIOUS
<1>2. DOMAIN Append(b, e) = 1 .. Len(b) + 1 /\ DOMAIN b = 1 .. Len(b) /\ Len(b) \in Nat
  OBVIOUS
<1>3. IsInjective(Append(b, e))
  BY <1>1, <1>2 DEF IsInjective, Held
<1>4. Held(Append(b, e)) = Held(b) \cup {e}
  <2>1. Held(Append(b, e)) \subseteq Held(b) \cup {e}
    BY <1>1, <1>2 DEF Held
  <2>2. e \in Held(Append(b, e))
    BY <1>1, <1>2 DEF Held
  <2>3. Held(b) \subseteq Held(Append(b, e))
    BY <1>1, <1>2 DEF Held
  <2> QED BY <2>1, <2>2, <2>3
<1> QED BY <1>1, <1>3, <1>4

(* The first n leave the rest, and no event is in both.                            *)
LEMMA CutHeld ==
  ASSUME NEW b \in Seq(Event), IsInjective(b), NEW n \in 0 .. Len(b)
  PROVE  LET front == {b[i] : i \in 1 .. n}
             rest == SubSeq(b, n + 1, Len(b))
         IN  /\ rest \in Seq(Event) /\ IsInjective(rest) /\ Len(rest) = Len(b) - n
             /\ front \cup Held(rest) = Held(b) /\ front \cap Held(rest) = {}
             /\ IsFiniteSet(front) /\ front \subseteq Event
<1> DEFINE front == {b[i] : i \in 1 .. n}
           rest == SubSeq(b, n + 1, Len(b))
<1>1. /\ rest \in Seq(Event) /\ Len(rest) = Len(b) - n
      /\ \A i \in 1 .. Len(b) - n : rest[i] = b[n + i]
  OBVIOUS
<1>2. DOMAIN rest = 1 .. Len(b) - n /\ DOMAIN b = 1 .. Len(b) /\ Len(b) \in Nat /\ n \in Nat /\ n <= Len(b)
  BY <1>1
<1> HIDE DEF rest
<1>3. IsInjective(rest)
  <2> SUFFICES ASSUME NEW i \in 1 .. Len(b) - n, NEW j \in 1 .. Len(b) - n, rest[i] = rest[j] PROVE i = j
    BY <1>2 DEF IsInjective
  <2>1. n + i \in DOMAIN b /\ n + j \in DOMAIN b /\ b[n + i] = b[n + j]
    BY <1>1, <1>2
  <2>2. n + i = n + j
    BY <2>1 DEF IsInjective
  <2> QED BY <1>2, <2>2
<1>4. front \cup Held(rest) = Held(b)
  <2>1. \A i \in 1 .. Len(b) - n : rest[i] = b[n + i] /\ n + i \in DOMAIN b
    BY <1>1, <1>2
  <2>2. Held(rest) \subseteq Held(b)
    BY <1>2, <2>1 DEF Held
  <2>3. front \subseteq Held(b)
    BY <1>2 DEF Held
  <2>4. ASSUME NEW j \in 1 .. Len(b), j > n PROVE b[j] \in Held(rest)
    <3>1. j - n \in 1 .. Len(b) - n /\ n + (j - n) = j
      BY <1>2, <2>4
    <3>2. rest[j - n] = b[j]
      BY <1>1, <3>1
    <3> QED BY <1>2, <3>1, <3>2 DEF Held
  <2>5. \A j \in DOMAIN b : b[j] \in front \/ b[j] \in Held(rest)
    BY <1>2, <2>4
  <2> QED BY <2>2, <2>3, <2>5 DEF Held
<1>5. front \cap Held(rest) = {}
  <2> SUFFICES ASSUME NEW i \in 1 .. n, NEW j \in 1 .. Len(b) - n, b[i] = rest[j] PROVE FALSE
    BY <1>2 DEF Held
  <2>1. i \in DOMAIN b /\ n + j \in DOMAIN b /\ b[i] = b[n + j]
    BY <1>1, <1>2
  <2>2. i = n + j
    BY <2>1 DEF IsInjective
  <2> QED BY <1>2, <2>2
<1>6. IsFiniteSet(front)
  <2>1. 1 .. n \subseteq DOMAIN b /\ IsFiniteSet(1 .. n)
    BY <1>2, FS_Interval
  <2> QED BY <2>1, FiniteImage
<1>7. front \subseteq Event
  BY <1>2
<1> QED BY <1>1, <1>3, <1>4, <1>5, <1>6, <1>7 DEF rest

-----------------------------------------------------------------------------------
(* The invariant *)

LEMMA RelayInitially == Init => RelayInv
<1> SUFFICES ASSUME Init PROVE RelayInv
  OBVIOUS
<1> USE RelayAssumption DEF Init
<1>1. RelayTypeOK
  <2>1. MaxEvents \in Nat /\ MaxAttempts \in Nat \ {0} /\ Capacity \in Nat \ {0}
    OBVIOUS
  <2>2. sent \in [Sessions -> 0 .. MaxEvents] /\ attempt \in 0 .. MaxAttempts - 1
    BY <2>1
  <2>3. buffer \in Seq(Event) /\ Len(buffer) <= Capacity
    BY <2>1
  <2> QED BY <2>2, <2>3 DEF RelayTypeOK
<1>2. Buffered = {} /\ Sent = {}
  BY DEF Buffered, Sent, Event
<1>3. OnePlace
  BY <1>2 DEF OnePlace, Places, IsInjective
<1>4. AllFinite /\ LiveRequest
  BY FS_EmptySet DEF AllFinite, LiveRequest
<1> QED BY <1>1, <1>3, <1>4 DEF RelayInv

(* Sent grows by the event that is sent next.                                      *)
LEMMA SentGrows ==
  ASSUME RelayTypeOK, NEW s \in Sessions, sent[s] < Produces[s], sent' = [sent EXCEPT ![s] = @ + 1],
         NEW e, e = [session |-> s, n |-> sent[s] + 1]
  PROVE  e \in Event /\ e \notin Sent /\ Sent' = Sent \cup {e} /\ sent' \in [Sessions -> 0 .. MaxEvents]
<1> USE RelayAssumption
<1>1. sent[s] \in 0 .. MaxEvents /\ Produces[s] \in 0 .. MaxEvents /\ MaxEvents \in Nat
  BY DEF RelayTypeOK
<1>2. e \in Event /\ e.n = sent[s] + 1 /\ e.session = s
  BY <1>1 DEF Event
<1>3. e \notin Sent
  BY <1>1, <1>2 DEF Sent
<1>4. sent' \in [Sessions -> 0 .. MaxEvents]
  BY <1>1 DEF RelayTypeOK
<1>5. \A d \in Event : d \in Sent' <=> d \in Sent \/ d = e
  <2> SUFFICES ASSUME NEW d \in Event PROVE d.n <= sent'[d.session] <=> d.n <= sent[d.session] \/ d = e
    BY DEF Sent
  <2>1. d = [session |-> d.session, n |-> d.n] /\ d.session \in Sessions /\ d.n \in 1 .. MaxEvents
    BY DEF Event
  <2>2. CASE d.session = s
    BY <1>1, <1>2, <2>1, <2>2 DEF RelayTypeOK
  <2>3. CASE d.session # s
    BY <1>2, <2>1, <2>3 DEF RelayTypeOK
  <2> QED BY <2>2, <2>3
<1> QED BY <1>2, <1>3, <1>4, <1>5 DEF Sent

LEMMA SendStep == ASSUME RelayInv, NEW s \in Sessions, Send(s) PROVE RelayInv'
<1> DEFINE e == [session |-> s, n |-> sent[s] + 1]
           kept == IF Full THEN Tail(buffer) ELSE buffer
           out == IF Full THEN {Head(buffer)} ELSE {}
<1>1. e \in Event /\ e \notin Sent /\ Sent' = Sent \cup {e} /\ sent' \in [Sessions -> 0 .. MaxEvents]
  BY SentGrows DEF Send, RelayInv
<1>2. buffer \in Seq(Event) /\ IsInjective(buffer) /\ Held(buffer) = Buffered
        /\ Len(buffer) <= Capacity /\ Capacity \in Nat \ {0}
  BY RelayAssumption DEF RelayInv, RelayTypeOK, OnePlace, Held, Buffered
<1>3. /\ kept \in Seq(Event) /\ IsInjective(kept) /\ Len(kept) < Capacity
      /\ out \cup Held(kept) = Buffered /\ out \cap Held(kept) = {} /\ IsFiniteSet(out) /\ out \subseteq Event
  <2>1. CASE Full
    <3>1. Len(buffer) \in Nat /\ Len(buffer) >= 1
      BY <1>2, <2>1 DEF Full
    <3>2. Tail(buffer) = SubSeq(buffer, 1 + 1, Len(buffer)) /\ {Head(buffer)} = {buffer[i] : i \in 1 .. 1}
      BY <1>2, <3>1
    <3>3. 1 \in 0 .. Len(buffer)
      BY <3>1
    <3>4. kept = SubSeq(buffer, 1 + 1, Len(buffer)) /\ out = {buffer[i] : i \in 1 .. 1}
      BY <2>1, <3>2
    <3> HIDE DEF kept, out
    <3>5. /\ SubSeq(buffer, 1 + 1, Len(buffer)) \in Seq(Event) /\ IsInjective(SubSeq(buffer, 1 + 1, Len(buffer)))
          /\ Len(SubSeq(buffer, 1 + 1, Len(buffer))) = Len(buffer) - 1
          /\ {buffer[i] : i \in 1 .. 1} \cup Held(SubSeq(buffer, 1 + 1, Len(buffer))) = Held(buffer)
          /\ {buffer[i] : i \in 1 .. 1} \cap Held(SubSeq(buffer, 1 + 1, Len(buffer))) = {}
          /\ IsFiniteSet({buffer[i] : i \in 1 .. 1}) /\ {buffer[i] : i \in 1 .. 1} \subseteq Event
      BY <1>2, <3>3, CutHeld
    <3>6. Len(buffer) - 1 < Capacity
      BY <1>2, <3>1
    <3> QED BY <1>2, <3>4, <3>5, <3>6
  <2>2. CASE ~Full
    BY <1>2, <2>2, FS_EmptySet DEF Full
  <2> QED BY <2>1, <2>2
<1>4. /\ buffer' = Append(kept, e) /\ evicted' = evicted \cup out /\ permit' \in BOOLEAN
      /\ UNCHANGED <<pc, batch, current, attempt, calls, rows, published, failed, forgotten, faulty>>
  BY DEF Send, RelayInv, RelayTypeOK
<1> HIDE DEF e, kept, out
<1>5. Buffered \subseteq Sent /\ e \notin Held(kept)
  BY <1>1, <1>3 DEF RelayInv, OnePlace, Places
<1>6. buffer' \in Seq(Event) /\ IsInjective(buffer') /\ Held(buffer') = Held(kept) \cup {e}
        /\ Len(buffer') <= Capacity
  BY <1>1, <1>2, <1>3, <1>4, <1>5, AppendHeld
<1>7. Buffered' = Held(kept) \cup {e}
  BY <1>6 DEF Buffered, Held
<1>8. RelayTypeOK'
  BY <1>1, <1>3, <1>4, <1>6 DEF RelayInv, RelayTypeOK
<1>9. OnePlace'
  <2>1. e \notin Places
    BY <1>1 DEF RelayInv, OnePlace
  <2>2. IsInjective(buffer)'
    BY <1>6 DEF IsInjective
  <2>3. Sent' = Places'
    BY <1>1, <1>3, <1>4, <1>7 DEF RelayInv, OnePlace, Places
  <2> QED BY <1>3, <1>4, <1>7, <2>1, <2>2, <2>3 DEF RelayInv, OnePlace, Places
<1>10. AllFinite'
  BY <1>3, <1>4, FS_Union DEF RelayInv, AllFinite
<1>11. LiveRequest'
  BY <1>4 DEF RelayInv, LiveRequest, Stored
<1> QED BY <1>8, <1>9, <1>10, <1>11 DEF RelayInv

LEMMA DrainStep == ASSUME RelayInv, pc = "wait", Drain, permit' \in BOOLEAN PROVE RelayInv'
<1> DEFINE take == Least(Len(buffer), BatchSize)
           rest == SubSeq(buffer, take + 1, Len(buffer))
           front == {buffer[i] : i \in 1 .. take}
<1>1. buffer \in Seq(Event) /\ IsInjective(buffer) /\ Held(buffer) = Buffered
        /\ Len(buffer) <= Capacity /\ Len(buffer) \in Nat
  BY DEF RelayInv, RelayTypeOK, OnePlace, Held, Buffered
<1>2. take \in 0 .. Len(buffer)
  BY <1>1, RelayAssumption DEF Least
<1>3. /\ batch' = front /\ buffer' = rest /\ pc' = "group"
      /\ UNCHANGED <<sent, current, attempt, calls, rows, counted, faulty>>
  BY DEF Drain
<1> HIDE DEF take
<1>4. /\ rest \in Seq(Event) /\ IsInjective(rest) /\ Len(rest) = Len(buffer) - take
      /\ front \cup Held(rest) = Buffered /\ front \cap Held(rest) = {} /\ IsFiniteSet(front) /\ front \subseteq Event
  BY <1>1, <1>2, CutHeld
<1> HIDE DEF rest, front
<1>5. batch = {} /\ current = {}
  BY DEF RelayInv, OnePlace, RelayTypeOK
<1>6. Buffered' = Held(rest)
  BY <1>3 DEF Buffered, Held
<1>7. RelayTypeOK'
  <2>1. Len(rest) <= Capacity
    BY <1>1, <1>2, <1>4, RelayAssumption
  <2> QED BY <1>3, <1>4, <1>5, <2>1 DEF RelayInv, RelayTypeOK, counted
<1>8. OnePlace'
  <2>1. IsInjective(buffer)'
    BY <1>3, <1>4 DEF IsInjective
  <2>2. Sent' = Sent
    BY <1>3 DEF Sent
  <2>3. Sent' = Places'
    BY <1>3, <1>4, <1>5, <1>6, <2>2 DEF RelayInv, OnePlace, Places, counted
  <2> QED BY <1>3, <1>4, <1>5, <1>6, <2>1, <2>3 DEF RelayInv, OnePlace, Places, counted
<1>9. AllFinite'
  BY <1>3, <1>4 DEF RelayInv, AllFinite, counted
<1>10. LiveRequest'
  <2>1. \A c \in calls : ~c.live
    BY DEF RelayInv, LiveRequest
  <2> QED BY <1>3, <2>1 DEF RelayInv, LiveRequest, Stored, counted
<1> QED BY <1>7, <1>8, <1>9, <1>10 DEF RelayInv

(* Where no event moves, every place keeps what it has.                            *)
LEMMA PlacesKept ==
  ASSUME OnePlace, UNCHANGED <<sent, buffer, batch, counted>>, pc' = "wait" => batch = {}
  PROVE  OnePlace'
<1>1. Buffered' = Buffered /\ Sent' = Sent /\ IsInjective(buffer)'
  BY DEF Buffered, Sent, OnePlace, IsInjective
<1> QED BY <1>1 DEF OnePlace, Places, counted

LEMMA NextGroupStep == ASSUME RelayInv, NextGroup PROVE RelayInv'
<1>1. OnePlace'
  <2>1. pc' = "wait" => batch = {}
    BY DEF NextGroup
  <2> QED BY <2>1, PlacesKept DEF NextGroup, RelayInv
<1>2. RelayTypeOK'
  <2>1. 0 \in 0 .. MaxAttempts - 1
    BY RelayAssumption
  <2> QED BY <2>1 DEF NextGroup, RelayInv, RelayTypeOK, counted
<1>3. AllFinite'
  BY DEF NextGroup, RelayInv, AllFinite, counted
<1>4. LiveRequest'
  <2>1. \A c \in calls : ~c.live
    BY DEF NextGroup, RelayInv, LiveRequest
  <2> QED BY <2>1 DEF NextGroup, RelayInv, LiveRequest, Stored, counted
<1> QED BY <1>1, <1>2, <1>3, <1>4 DEF RelayInv

LEMMA PostStep == ASSUME RelayInv, Post PROVE RelayInv'
<1> DEFINE c == [events |-> current, attempt |-> attempt, live |-> TRUE, stage |-> "sent", base |-> 0]
<1>1. /\ pc = "post" /\ pc' = "answer" /\ calls' = calls \cup {c}
      /\ UNCHANGED <<sent, buffer, permit, batch, current, attempt, rows, counted, faulty>>
  BY DEF Post
<1>2. current \subseteq batch /\ batch \subseteq Event /\ attempt \in 0 .. MaxAttempts - 1
  BY DEF RelayInv, RelayTypeOK
<1>3. c \in Request
  BY <1>2 DEF Request, Stages
<1>4. c.live /\ c.events = current /\ c.stage = "sent"
  OBVIOUS
<1> HIDE DEF c
<1>5. OnePlace'
  BY <1>1, PlacesKept DEF RelayInv
<1>6. RelayTypeOK'
  BY <1>1, <1>3 DEF RelayInv, RelayTypeOK, counted
<1>7. AllFinite'
  <2>1. IsFiniteSet(current)
    BY <1>2, FS_Subset DEF RelayInv, AllFinite
  <2> QED BY <1>1, <1>4, <2>1 DEF RelayInv, AllFinite, counted
<1>8. LiveRequest'
  <2>1. \A d \in calls : ~d.live
    BY <1>1 DEF RelayInv, LiveRequest
  <2> QED BY <1>1, <1>4, <2>1 DEF RelayInv, LiveRequest, Stored, counted
<1> QED BY <1>5, <1>6, <1>7, <1>8 DEF RelayInv

(* The group in hand becomes published, which it is, or failed.                    *)
LEMMA GroupMoves ==
  ASSUME RelayInv, GroupDone, UNCHANGED <<sent, buffer, permit, rows, evicted, forgotten>>, faulty' \in BOOLEAN,
         calls' \subseteq Request, \A c \in calls' : ~c.live /\ IsFiniteSet(c.events),
         \/ published' = published \cup current /\ failed' = failed /\ current \subseteq Stored
         \/ published' = published /\ failed' = failed \cup current
  PROVE  RelayInv'
<1>1. current \subseteq batch /\ IsFiniteSet(current) /\ IsFiniteSet(batch \ current)
  BY FS_Subset, FS_Difference DEF RelayInv, RelayTypeOK, AllFinite
<1>2. batch' = batch \ current /\ current' = {} /\ attempt' = 0 /\ pc' = "group"
  BY DEF GroupDone
<1>3. RelayTypeOK'
  <2>1. 0 \in 0 .. MaxAttempts - 1
    BY RelayAssumption
  <2> QED BY <1>1, <1>2, <2>1 DEF RelayInv, RelayTypeOK
<1>4. OnePlace'
  <2>1. Buffered' = Buffered /\ Sent' = Sent /\ IsInjective(buffer)'
    BY DEF Buffered, Sent, RelayInv, OnePlace, IsInjective
  <2> QED BY <1>1, <1>2, <2>1 DEF RelayInv, OnePlace, Places
<1>5. AllFinite'
  BY <1>1, <1>2, FS_Union DEF RelayInv, AllFinite
<1>6. LiveRequest'
  BY DEF RelayInv, LiveRequest, Stored
<1> QED BY <1>3, <1>4, <1>5, <1>6 DEF RelayInv

(* What the relay does when a request is over: the group is settled, or the loop   *)
(* goes round again.                                                               *)
LEMMA TryAgainStep ==
  ASSUME RelayInv, TryAgain, UNCHANGED <<sent, buffer, permit, rows, published, evicted,
          forgotten>>, faulty' \in BOOLEAN,
         calls' \subseteq Request, \A c \in calls' : ~c.live /\ IsFiniteSet(c.events)
  PROVE  RelayInv'
<1>1. CASE attempt + 1 < MaxAttempts
  <2>1. attempt' = attempt + 1 /\ pc' = "post" /\ UNCHANGED <<batch, current, failed>>
    BY <1>1 DEF TryAgain
  <2>2. OnePlace'
    BY <2>1, PlacesKept DEF RelayInv, counted
  <2>3. attempt' \in 0 .. MaxAttempts - 1
    BY <1>1, <2>1, RelayAssumption DEF RelayInv, RelayTypeOK
  <2>4. RelayTypeOK'
    BY <2>1, <2>3 DEF RelayInv, RelayTypeOK
  <2>5. AllFinite' /\ LiveRequest'
    BY <2>1 DEF RelayInv, AllFinite, LiveRequest, Stored
  <2> QED BY <2>2, <2>4, <2>5 DEF RelayInv
<1>2. CASE ~(attempt + 1 < MaxAttempts)
  BY <1>2, GroupMoves DEF TryAgain
<1> QED BY <1>1, <1>2

LEMMA AnswerStep ==
  ASSUME RelayInv, pc = "answer", NEW c \in calls, c.live,
         Posted(c) \/ ServerError(c) \/ PostFails(c) \/ PostRejected(c)
  PROVE  RelayInv'
<1>1. \A d \in calls \ {c} : d \in Request /\ ~d.live /\ IsFiniteSet(d.events)
  BY DEF RelayInv, LiveRequest, AllFinite, RelayTypeOK
<1>2. ASSUME GiveUp(c) PROVE calls' \subseteq Request
        /\ (\A d \in calls' : ~d.live /\ IsFiniteSet(d.events)) /\ faulty' \in BOOLEAN
  <2>1. c \in Request /\ IsFiniteSet(c.events)
    BY DEF RelayInv, RelayTypeOK, AllFinite
  <2>2. [c EXCEPT !.live = FALSE] \in Request
    BY <2>1 DEF Request
  <2>3. ~[c EXCEPT !.live = FALSE].live /\ [c EXCEPT !.live = FALSE].events = c.events
    BY <2>1 DEF Request
  <2> QED BY <1>1, <1>2, <2>1, <2>2, <2>3 DEF GiveUp
<1>3. CASE Posted(c)
  <2>1. current \subseteq Stored
    BY <1>3 DEF Posted, RelayInv, LiveRequest
  <2>2. calls' = calls \ {c} /\ published' = published \cup current /\ GroupDone
        /\ UNCHANGED <<sent, buffer, permit, rows, evicted, failed, forgotten, faulty>>
    BY <1>3 DEF Posted
  <2>3. faulty' \in BOOLEAN /\ calls' \subseteq Request /\ \A d \in calls' : ~d.live /\ IsFiniteSet(d.events)
    BY <1>1, <2>2 DEF RelayInv, RelayTypeOK
  <2> QED BY <2>1, <2>2, <2>3, GroupMoves
<1>4. CASE ServerError(c)
  <2>1. calls' = calls \ {c} /\ TryAgain /\ UNCHANGED <<sent, buffer, permit, rows, published,
          evicted, forgotten, faulty>>
    BY <1>4 DEF ServerError
  <2>2. faulty' \in BOOLEAN /\ calls' \subseteq Request /\ \A d \in calls' : ~d.live /\ IsFiniteSet(d.events)
    BY <1>1, <2>1 DEF RelayInv, RelayTypeOK
  <2> QED BY <2>1, <2>2, TryAgainStep
<1>5. CASE PostFails(c)
  <2>1. GiveUp(c) /\ TryAgain /\ UNCHANGED <<sent, buffer, permit, rows, published, evicted, forgotten>>
    BY <1>5 DEF PostFails
  <2> QED BY <1>2, <2>1, TryAgainStep
<1>6. CASE PostRejected(c)
  <2>1. /\ GiveUp(c) /\ failed' = failed \cup current /\ GroupDone
        /\ UNCHANGED <<sent, buffer, permit, rows, published, evicted, forgotten>>
    BY <1>6 DEF PostRejected
  <2> QED BY <1>2, <2>1, GroupMoves
<1> QED BY <1>3, <1>4, <1>5, <1>6

LEMMA StopStep == ASSUME RelayInv, RunnerStops PROVE RelayInv'
<1>1. /\ buffer' = <<>> /\ permit' = FALSE /\ pc' = "wait" /\ batch' = {} /\ current' = {} /\ attempt' = 0
      /\ forgotten' = forgotten \cup Buffered \cup batch
      /\ UNCHANGED <<sent, rows, published, evicted, failed, faulty>>
  BY DEF RunnerStops
<1>2. buffer \in Seq(Event) /\ IsInjective(buffer) /\ Held(buffer) = Buffered
  BY DEF RelayInv, RelayTypeOK, OnePlace, Held, Buffered
<1>3. IsFiniteSet(Buffered) /\ Buffered \subseteq Event
  <2>1. Held(buffer) \subseteq Event
    BY <1>2 DEF Held
  <2> QED BY <1>2, <2>1, HeldCount
<1>4. calls' \subseteq Request /\ \A c \in calls' : ~c.live /\ IsFiniteSet(c.events)
  <2>1. PICK kept \in SUBSET {c \in calls : c.live /\ c.stage \in {"sent", "read"}} :
          calls' = {c \in calls : ~c.live} \cup {[c EXCEPT !.live = FALSE] : c \in kept}
    BY DEF RunnerStops
  <2>2. ASSUME NEW c \in kept
        PROVE  [c EXCEPT !.live = FALSE] \in Request /\ ~[c EXCEPT !.live = FALSE].live
               /\ [c EXCEPT !.live = FALSE].events = c.events /\ IsFiniteSet(c.events)
    <3>1. c \in Request /\ IsFiniteSet(c.events)
      BY DEF RelayInv, RelayTypeOK, AllFinite
    <3> QED BY <3>1 DEF Request
  <2>3. \A c \in calls : c \in Request /\ IsFiniteSet(c.events)
    BY DEF RelayInv, RelayTypeOK, AllFinite
  <2> QED BY <2>1, <2>2, <2>3
<1>5. RelayTypeOK'
  <2>1. 0 \in 0 .. MaxAttempts - 1 /\ <<>> \in Seq(Event) /\ Len(<<>>) <= Capacity
    BY RelayAssumption
  <2> QED BY <1>1, <1>3, <1>4, <2>1 DEF RelayInv, RelayTypeOK
<1>6. OnePlace'
  <2>1. Buffered' = {} /\ IsInjective(buffer)'
    BY <1>1 DEF Buffered, IsInjective
  <2>2. Sent' = Sent
    BY <1>1 DEF Sent
  <2> QED BY <1>1, <2>1, <2>2 DEF RelayInv, OnePlace, Places
<1>7. AllFinite'
  <2>1. IsFiniteSet(forgotten')
    BY <1>1, <1>3, FS_Union DEF RelayInv, AllFinite
  <2> QED BY <1>1, <1>4, <2>1, FS_EmptySet DEF RelayInv, AllFinite
<1>8. LiveRequest'
  BY <1>1, <1>4 DEF RelayInv, LiveRequest, Stored
<1> QED BY <1>5, <1>6, <1>7, <1>8 DEF RelayInv

-----------------------------------------------------------------------------------
(* The handler: only the table and its own request change.                         *)

LEMMA LastSeqType == ASSUME RelayInv, NEW s PROVE LastSeq(s) \in Nat
<1>1. CASE RowsOf(s) = {}
  BY <1>1 DEF LastSeq
<1>2. CASE RowsOf(s) # {}
  <2>1. IsFiniteSet(RowsOf(s)) /\ \A r \in RowsOf(s) : r.seq \in Nat
    <3>1. RowsOf(s) \in SUBSET rows
      BY DEF RowsOf
    <3> QED BY <3>1, FS_Subset DEF RelayInv, AllFinite, RelayTypeOK
  <2>2. PICK m \in RowsOf(s) : \A r \in RowsOf(s) : r.seq <= m.seq
    BY <1>2, <2>1, HighestRow
  <2>3. \E n \in {r.seq : r \in RowsOf(s)} : \A r \in RowsOf(s) : r.seq <= n
    BY <2>2
  <2>4. LastSeq(s) \in {r.seq : r \in RowsOf(s)}
    BY <1>2, <2>3 DEF LastSeq
  <2> QED BY <2>1, <2>4
<1> QED BY <1>1, <1>2

(* A request that changes stage, and keeps what else LiveRequest asks of it.       *)
LEMMA CallMoves ==
  ASSUME RelayInv, NEW c \in calls, NEW d \in Request, d.events = c.events, d.live = c.live,
         calls' = (calls \ {c}) \cup {d}, UNCHANGED <<sent, relay, counted>>, faulty' \in BOOLEAN,
         rows \subseteq rows', rows' \subseteq [event : Event, seq : Nat \ {0}], IsFiniteSet(rows'),
         d.stage = "stored" => d.events \subseteq {r.event : r \in rows'}
  PROVE  RelayInv'
<1>1. OnePlace'
  BY PlacesKept DEF relay, RelayInv, OnePlace
<1>2. RelayTypeOK'
  BY DEF RelayInv, RelayTypeOK, relay, counted
<1>3. AllFinite'
  BY DEF RelayInv, AllFinite, relay, counted
<1>4. LiveRequest'
  <2>1. Stored \subseteq Stored' /\ Stored' = {r.event : r \in rows'}
    BY DEF Stored
  <2>2. \A e \in calls' : e.live => /\ pc' = "answer" /\ e.events = current'
                                    /\ e.stage = "stored" => e.events \subseteq Stored'
    BY <2>1 DEF RelayInv, LiveRequest, relay
  <2>3. \A e, f \in calls' : e.live /\ f.live => e = f
    BY DEF RelayInv, LiveRequest
  <2>4. published' \subseteq Stored'
    BY <2>1 DEF RelayInv, LiveRequest, counted
  <2> QED BY <2>2, <2>3, <2>4 DEF LiveRequest
<1> QED BY <1>1, <1>2, <1>3, <1>4 DEF RelayInv

LEMMA ReadStep == ASSUME RelayInv, NEW c \in calls, InsertReads(c) PROVE RelayInv'
<1>1. PICK s \in {e.session : e \in c.events} :
        /\ calls' = (calls \ {c}) \cup {[c EXCEPT !.stage = "read", !.base = LastSeq(s)]}
        /\ UNCHANGED <<sent, relay, rows, counted, faulty>>
  BY DEF InsertReads
<1> DEFINE d == [c EXCEPT !.stage = "read", !.base = LastSeq(s)]
<1>2. c \in Request
  BY DEF RelayInv, RelayTypeOK
<1>3. d \in Request /\ d.events = c.events /\ d.live = c.live /\ d.stage = "read"
  BY <1>2, LastSeqType DEF Request, Stages
<1>4. rows' \subseteq [event : Event, seq : Nat \ {0}] /\ IsFiniteSet(rows')
        /\ rows \subseteq rows' /\ faulty' \in BOOLEAN
  BY <1>1 DEF RelayInv, RelayTypeOK, AllFinite
<1> HIDE DEF d
<1> QED BY <1>1, <1>3, <1>4, CallMoves DEF d

LEMMA FailStep == ASSUME RelayInv, NEW c \in calls, InsertFails(c) PROVE RelayInv'
<1> DEFINE d == [c EXCEPT !.stage = "refused"]
<1>1. /\ calls' = (calls \ {c}) \cup {d}
      /\ UNCHANGED <<sent, relay, rows, counted>> /\ faulty' \in BOOLEAN
  BY DEF InsertFails, RelayInv, RelayTypeOK
<1>2. d \in Request /\ d.events = c.events /\ d.live = c.live /\ d.stage = "refused"
  <2>1. c \in Request
    BY DEF RelayInv, RelayTypeOK
  <2> QED BY <2>1 DEF Request, Stages
<1>3. rows' \subseteq [event : Event, seq : Nat \ {0}] /\ IsFiniteSet(rows') /\ rows \subseteq rows'
  BY <1>1 DEF RelayInv, RelayTypeOK, AllFinite
<1> HIDE DEF d
<1> QED BY <1>1, <1>2, <1>3, CallMoves

(* The numbers of new rows follow the maximum that was read.                       *)
LEMMA NewRowsType ==
  ASSUME RelayInv, NEW c \in calls
  PROVE  /\ NewRows(c) \subseteq [event : Event, seq : Nat \ {0}]
         /\ IsFiniteSet(NewRows(c)) /\ {r.event : r \in NewRows(c)} = c.events
<1>1. c \in Request /\ IsFiniteSet(c.events) /\ c.events \subseteq Event /\ c.base \in Nat
  BY DEF RelayInv, RelayTypeOK, AllFinite, Request
<1>2. ASSUME NEW e \in c.events PROVE Ordinal(e, c.events) \in Nat \ {0}
  <2> DEFINE upto == {b \in c.events : b.n <= e.n}
  <2>1. IsFiniteSet(upto)
    BY <1>1, FS_Subset
  <2>2. e \in upto
    BY <1>1 DEF Event
  <2>3. Cardinality(upto) \in Nat /\ Cardinality(upto) # 0
    BY <2>1, <2>2, FS_CardinalityType, FS_EmptySet
  <2> QED BY <2>3 DEF Ordinal
<1> DEFINE row == [e \in c.events |-> [event |-> e, seq |-> c.base + Ordinal(e, c.events)]]
<1>3. NewRows(c) = {row[e] : e \in c.events}
  BY DEF NewRows
<1>4. IsFiniteSet({row[e] : e \in c.events})
  <2>1. c.events \subseteq DOMAIN row
    OBVIOUS
  <2> HIDE DEF row
  <2> QED BY <1>1, <2>1, FiniteImage
<1>5. \A e \in c.events : row[e] \in [event : Event, seq : Nat \ {0}] /\ row[e].event = e
  <2> SUFFICES ASSUME NEW e \in c.events PROVE row[e] \in [event : Event, seq : Nat \ {0}] /\ row[e].event = e
    OBVIOUS
  <2>1. e \in Event /\ c.base + Ordinal(e, c.events) \in Nat \ {0}
    BY <1>1, <1>2
  <2> QED BY <2>1
<1> HIDE DEF row
<1> QED BY <1>3, <1>4, <1>5

LEMMA WriteStep == ASSUME RelayInv, NEW c \in calls, InsertWrites(c) PROVE RelayInv'
<1>1. /\ NewRows(c) \subseteq [event : Event, seq : Nat \ {0}]
      /\ IsFiniteSet(NewRows(c)) /\ {r.event : r \in NewRows(c)} = c.events
  BY NewRowsType
<1>2. /\ rows' = rows \cup NewRows(c) /\ UNCHANGED <<sent, relay, counted, faulty>>
      /\ calls' = (calls \ {c}) \cup (IF c.live THEN {[c EXCEPT !.stage = "stored"]} ELSE {})
  BY DEF InsertWrites
<1>3. rows \subseteq rows' /\ rows' \subseteq [event : Event, seq : Nat \ {0}]
        /\ IsFiniteSet(rows') /\ faulty' \in BOOLEAN
  BY <1>1, <1>2, FS_Union DEF RelayInv, RelayTypeOK, AllFinite
<1>4. CASE c.live
  <2> DEFINE d == [c EXCEPT !.stage = "stored"]
  <2>1. d \in Request /\ d.events = c.events /\ d.live = c.live
    <3>1. c \in Request
      BY DEF RelayInv, RelayTypeOK
    <3> QED BY <3>1 DEF Request, Stages
  <2>2. calls' = (calls \ {c}) \cup {d}
    BY <1>2, <1>4
  <2>3. d.events \subseteq {r.event : r \in rows'}
    BY <1>1, <1>2, <2>1
  <2> HIDE DEF d
  <2> QED BY <1>2, <1>3, <2>1, <2>2, <2>3, CallMoves
<1>5. CASE ~c.live
  <2>1. calls' = calls \ {c}
    BY <1>2, <1>5
  <2>2. OnePlace'
    BY <1>2, PlacesKept DEF relay, RelayInv, OnePlace
  <2>3. RelayTypeOK' /\ AllFinite'
    BY <1>2, <1>3, <2>1 DEF RelayInv, RelayTypeOK, AllFinite, relay, counted
  <2>4. LiveRequest'
    BY <1>2, <1>3, <2>1 DEF RelayInv, LiveRequest, Stored, relay, counted
  <2> QED BY <2>2, <2>3, <2>4 DEF RelayInv
<1> QED BY <1>4, <1>5

-----------------------------------------------------------------------------------
LEMMA RelayStep == RelayInv /\ [Next]_vars => RelayInv'
<1> SUFFICES ASSUME RelayInv, [Next]_vars PROVE RelayInv'
  OBVIOUS
<1>1. CASE \E s \in Sessions : Send(s)
  BY <1>1, SendStep
<1>2. CASE Tick \/ Notified
  <2>1. permit' \in BOOLEAN /\ pc = "wait" /\ Drain
    BY <1>2 DEF Tick, Notified, RelayInv, RelayTypeOK
  <2> QED BY <2>1, DrainStep
<1>3. CASE pc = "answer" /\ \E c \in calls : c.live
        /\ (Posted(c) \/ ServerError(c) \/ PostFails(c) \/ PostRejected(c))
  BY <1>3, AnswerStep
<1>4. CASE IngestEvents
  BY <1>4, ReadStep, WriteStep, FailStep DEF IngestEvents
<1>5. CASE UNCHANGED vars
  <2>1. OnePlace'
    BY <1>5, PlacesKept DEF vars, relay, RelayInv, OnePlace
  <2> QED BY <1>5, <2>1 DEF vars, relay, counted, RelayInv, RelayTypeOK, AllFinite, LiveRequest, Stored
<1> QED BY <1>1, <1>2, <1>3, <1>4, <1>5, NextGroupStep, PostStep, StopStep DEF Next, FlushLoop

(* The places are disjoint: what was sent is as many as they hold together.        *)
LEMMA RelayInvSuffices == RelayInv => EveryEventAccounted
<1> SUFFICES ASSUME RelayInv PROVE EveryEventAccounted
  OBVIOUS
<1>1. IsFiniteSet(Buffered) /\ Cardinality(Buffered) = Len(buffer)
  <2>1. buffer \in Seq(Event) /\ IsInjective(buffer) /\ Held(buffer) = Buffered
    BY DEF RelayInv, RelayTypeOK, OnePlace, Held, Buffered
  <2> QED BY <2>1, HeldCount
<1>2. ASSUME NEW A, NEW B, IsFiniteSet(A), IsFiniteSet(B), A \cap B = {}
      PROVE  IsFiniteSet(A \cup B) /\ Cardinality(A \cup B) = Cardinality(A) + Cardinality(B)
             /\ Cardinality(A) \in Nat /\ Cardinality(B) \in Nat
  <2>1. Cardinality(A \cup B) = Cardinality(A) + Cardinality(B) - Cardinality(A \cap B)
    BY <1>2, FS_Union
  <2>2. Cardinality(A \cap B) = 0 /\ Cardinality(A) \in Nat /\ Cardinality(B) \in Nat
    BY <1>2, FS_EmptySet, FS_CardinalityType
  <2> QED BY <1>2, <2>1, <2>2, FS_Union
<1>3. IsFiniteSet(batch) /\ IsFiniteSet(published) /\ IsFiniteSet(evicted) /\ IsFiniteSet(failed)
        /\ IsFiniteSet(forgotten)
  BY DEF RelayInv, AllFinite
<1> DEFINE S1 == Buffered \cup batch
           S2 == S1 \cup published
           S3 == S2 \cup evicted
           S4 == S3 \cup failed
           S5 == S4 \cup forgotten
<1>4. IsFiniteSet(S1) /\ Cardinality(S1) = Len(buffer) + Cardinality(batch)
  BY <1>1, <1>2, <1>3 DEF RelayInv, OnePlace
<1>5. IsFiniteSet(S2) /\ Cardinality(S2) = Cardinality(S1) + Cardinality(published)
  BY <1>2, <1>3, <1>4 DEF RelayInv, OnePlace
<1>6. IsFiniteSet(S3) /\ Cardinality(S3) = Cardinality(S2) + Cardinality(evicted)
  BY <1>2, <1>3, <1>5 DEF RelayInv, OnePlace
<1>7. IsFiniteSet(S4) /\ Cardinality(S4) = Cardinality(S3) + Cardinality(failed)
  BY <1>2, <1>3, <1>6 DEF RelayInv, OnePlace
<1>8. Cardinality(S5) = Cardinality(S4) + Cardinality(forgotten)
  BY <1>2, <1>3, <1>7 DEF RelayInv, OnePlace
<1>9. Sent = S5
  BY DEF RelayInv, OnePlace, Places
<1>10. Cardinality(Sent) = Len(buffer) + Cardinality(batch) + Cardinality(published)
         + Cardinality(evicted) + Cardinality(failed) + Cardinality(forgotten)
  <2> HIDE DEF S1, S2, S3, S4, S5
  <2> QED BY <1>4, <1>5, <1>6, <1>7, <1>8, <1>9
<1>11. published \subseteq {r.event : r \in rows}
  BY DEF RelayInv, LiveRequest, Stored
<1> QED BY <1>9, <1>10, <1>11 DEF EveryEventAccounted, RelayInv

(* Every event the agents produced is in exactly one place or under exactly one    *)
(* counter of the relay, and what counts as published is in the table.             *)
THEOREM RelayAccounts == Spec => []EveryEventAccounted
<1>1. Init => RelayInv
  BY RelayInitially
<1>2. RelayInv /\ [Next]_vars => RelayInv'
  BY RelayStep
<1>3. RelayInv => EveryEventAccounted
  BY RelayInvSuffices
<1> QED BY <1>1, <1>2, <1>3, PTL DEF Spec

----------------------------------------------------------------------------
(* The order of the events: whoever reads a session by sequence sees a
   published event before any later one, and relay and handler together
   implement EventDelivery. *)
Waiting == Buffered \cup batch
Before(d, w) == d.session = w.session => d.n < w.n

(* The buffer is in the order of each session, and the batch comes before it.       *)
QueueOrdered ==
  /\ \A i, j \in DOMAIN buffer : i < j => Before(buffer[i], buffer[j])
  /\ \A b \in batch, e \in Buffered : Before(b, e)

(* What is posted is all that the batch holds of one session.                       *)
GroupWhole ==
  /\ pc \in {"wait", "group"} => current = {}
  /\ pc \in {"post", "answer"} => current # {} /\ \E s \in Sessions : current = {e \in batch : e.session = s}

(* A request carries what is being posted, or what comes before all that waits.     *)
RequestsBefore ==
  \A c \in calls :
    /\ c.events # {} /\ c.events \subseteq Sent
    /\ \A d, e \in c.events : d.session = e.session
    /\ c.events = current \/ \A d \in c.events, w \in Waiting : Before(d, w)

(* So does the table; beside a row of what is being posted there are lower ones of  *)
(* the events before it.                                                            *)
RowsBefore ==
  \A r \in rows :
    /\ r.event \in Sent
    /\ \/ \A w \in Waiting : Before(r.event, w)
       \/ /\ r.event \in current
          /\ \A e \in current : e.n < r.event.n => \E q \in rows : q.event = e /\ q.seq < r.seq

(* A request that has read its maximum, and carries an event later than a published *)
(* one, carries that one too or has read the number of its row.                     *)
MaximumRead ==
  \A c \in calls, e \in published : \A d \in c.events :
    (c.stage = "read" /\ d.session = e.session /\ e.n < d.n) =>
      e \in c.events \/ \E q \in rows : q.event = e /\ q.seq <= c.base

OrderInv ==
  RelayInv /\ QueueOrdered /\ GroupWhole /\ RequestsBefore /\ RowsBefore /\ MaximumRead /\ FirstSeenInOrder

-----------------------------------------------------------------------------------
LEMMA OrderInitially == Init => OrderInv
<1> SUFFICES ASSUME Init PROVE OrderInv
  OBVIOUS
<1>1. RelayInv
  BY RelayInitially
<1>2. QueueOrdered /\ GroupWhole /\ RequestsBefore /\ RowsBefore /\ MaximumRead /\ FirstSeenInOrder
  BY DEF Init, QueueOrdered, GroupWhole, RequestsBefore, RowsBefore, MaximumRead, FirstSeenInOrder, Buffered
<1> QED BY <1>1, <1>2 DEF OrderInv

(* What waits was sent.                                                             *)
LEMMA WaitingSent == ASSUME RelayInv PROVE Waiting \subseteq Sent /\ Sent \subseteq Event /\ current \subseteq batch
BY DEF RelayInv, RelayTypeOK, OnePlace, Places, Waiting, Sent

(* An event that is sent comes after those of its session that were sent before.    *)
LEMMA NextComesLast ==
  ASSUME RelayInv, NEW s \in Sessions, NEW e, e = [session |-> s, n |-> sent[s] + 1], NEW d \in Sent
  PROVE  Before(d, e)
<1>1. d \in Event /\ d.n <= sent[d.session]
  BY DEF Sent
<1>2. sent[s] \in Nat /\ d.n \in Nat
  BY <1>1, RelayAssumption DEF RelayInv, RelayTypeOK, Event
<1> QED BY <1>1, <1>2 DEF Before

LEMMA SendOrder == ASSUME OrderInv, NEW s \in Sessions, Send(s) PROVE OrderInv'
<1> DEFINE e == [session |-> s, n |-> sent[s] + 1]
           kept == IF Full THEN Tail(buffer) ELSE buffer
<1>1. RelayInv /\ RelayInv'
  BY SendStep DEF OrderInv
<1>2. e \in Event /\ e \notin Sent /\ Sent' = Sent \cup {e}
  BY <1>1, SentGrows DEF Send, RelayInv
<1>3. /\ buffer' = Append(kept, e)
      /\ UNCHANGED <<pc, batch, current, attempt, calls, rows, published, failed, forgotten, faulty>>
  BY DEF Send
<1>4. buffer \in Seq(Event) /\ Len(buffer) \in Nat /\ Capacity \in Nat \ {0}
  BY <1>1, RelayAssumption DEF RelayInv, RelayTypeOK
<1>5. /\ kept \in Seq(Event) /\ Len(kept) \in Nat
      /\ \A i \in 1 .. Len(kept) : IF Full THEN i + 1 \in DOMAIN buffer /\ kept[i] = buffer[i + 1]
                                          ELSE i \in DOMAIN buffer /\ kept[i] = buffer[i]
  <2>1. CASE Full
    BY <1>4, <2>1 DEF Full
  <2>2. CASE ~Full
    BY <1>4, <2>2
  <2> QED BY <2>1, <2>2
<1> HIDE DEF kept, e
<1>6. /\ DOMAIN buffer' = 1 .. Len(kept) + 1 /\ buffer'[Len(kept) + 1] = e
      /\ \A i \in 1 .. Len(kept) : buffer'[i] = kept[i]
  BY <1>2, <1>3, <1>5
<1>7. \A i \in 1 .. Len(kept) : kept[i] \in Buffered /\ kept[i] \in Sent
  <2>1. \A i \in 1 .. Len(kept) : kept[i] \in Buffered
    BY <1>5 DEF Buffered
  <2> QED BY <1>1, <2>1, WaitingSent DEF Waiting
<1>8. Buffered' \subseteq Buffered \cup {e}
  BY <1>6, <1>7 DEF Buffered
<1>9. \A d \in Sent : Before(d, e)
  BY <1>1, NextComesLast DEF e
<1>10. Waiting' \subseteq Waiting \cup {e}
  BY <1>3, <1>8 DEF Waiting
<1>11. QueueOrdered'
  <2>1. ASSUME NEW i \in DOMAIN buffer', NEW j \in DOMAIN buffer', i < j PROVE Before(buffer'[i], buffer'[j])
    <3>1. i \in 1 .. Len(kept) /\ (j \in 1 .. Len(kept) \/ j = Len(kept) + 1)
      BY <1>5, <1>6, <2>1
    <3>2. CASE j = Len(kept) + 1
      BY <1>6, <1>7, <1>9, <3>1, <3>2
    <3>3. CASE j \in 1 .. Len(kept)
      <4>1. \A k, l \in DOMAIN buffer : k < l => Before(buffer[k], buffer[l])
        BY DEF OrderInv, QueueOrdered
      <4>2. CASE Full
        <5>1. i + 1 \in DOMAIN buffer /\ j + 1 \in DOMAIN buffer /\ i + 1 < j + 1
          BY <1>5, <2>1, <3>1, <3>3, <4>2
        <5> QED BY <1>5, <1>6, <3>1, <3>3, <4>1, <4>2, <5>1
      <4>3. CASE ~Full
        BY <1>5, <1>6, <2>1, <3>1, <3>3, <4>1, <4>3
      <4> QED BY <4>2, <4>3
    <3> QED BY <3>1, <3>2, <3>3
  <2>2. ASSUME NEW b \in batch, NEW w \in Buffered' PROVE Before(b, w)
    <3>1. b \in Sent
      BY <1>1, WaitingSent DEF Waiting
    <3> QED BY <1>8, <1>9, <3>1 DEF OrderInv, QueueOrdered
  <2> QED BY <1>3, <2>1, <2>2 DEF QueueOrdered
<1>12. GroupWhole' /\ FirstSeenInOrder' /\ MaximumRead'
  BY <1>3 DEF OrderInv, GroupWhole, FirstSeenInOrder, MaximumRead
<1>13. RequestsBefore'
  BY <1>2, <1>3, <1>9, <1>10 DEF OrderInv, RequestsBefore
<1>14. RowsBefore'
  BY <1>2, <1>3, <1>9, <1>10 DEF OrderInv, RowsBefore
<1> QED BY <1>1, <1>11, <1>12, <1>13, <1>14 DEF OrderInv

(* Draining moves events from the buffer to the batch: what waits stays the same.   *)
LEMMA DrainOrder == ASSUME OrderInv, pc = "wait", Drain, permit' \in BOOLEAN PROVE OrderInv' /\ Waiting' = Waiting
<1> DEFINE take == Least(Len(buffer), BatchSize)
           rest == SubSeq(buffer, take + 1, Len(buffer))
           front == {buffer[i] : i \in 1 .. take}
<1>1. RelayInv /\ RelayInv'
  BY DrainStep DEF OrderInv
<1>2. /\ batch' = front /\ buffer' = rest /\ pc' = "group"
      /\ UNCHANGED <<sent, current, attempt, calls, rows, counted, faulty>>
  BY DEF Drain
<1>3. buffer \in Seq(Event) /\ IsInjective(buffer) /\ Len(buffer) \in Nat /\ Held(buffer) = Buffered
  BY <1>1 DEF RelayInv, RelayTypeOK, OnePlace, Held, Buffered
<1>4. take \in 0 .. Len(buffer)
  BY <1>3, RelayAssumption DEF Least
<1> HIDE DEF take
<1>5. front \cup Held(rest) = Buffered
  BY <1>3, <1>4, CutHeld
<1>6. /\ DOMAIN rest = 1 .. Len(buffer) - take /\ DOMAIN buffer = 1 .. Len(buffer)
      /\ \A i \in 1 .. Len(buffer) - take : take + i \in DOMAIN buffer /\ rest[i] = buffer[take + i]
  BY <1>3, <1>4
<1> HIDE DEF rest
<1>7. batch = {} /\ current = {}
  BY <1>1 DEF RelayInv, OnePlace, RelayTypeOK
<1>8. Waiting' = Waiting
  <2>1. Buffered' = Held(rest)
    BY <1>2 DEF Buffered, Held
  <2> QED BY <1>2, <1>5, <1>7, <2>1 DEF Waiting
<1>9. QueueOrdered'
  <2>1. \A k, l \in DOMAIN buffer : k < l => Before(buffer[k], buffer[l])
    BY DEF OrderInv, QueueOrdered
  <2>2. ASSUME NEW i \in DOMAIN buffer', NEW j \in DOMAIN buffer', i < j PROVE Before(buffer'[i], buffer'[j])
    <3>1. take + i \in DOMAIN buffer /\ take + j \in DOMAIN buffer /\ take + i < take + j
      BY <1>2, <1>3, <1>4, <1>6, <2>2
    <3> QED BY <1>2, <1>6, <2>1, <2>2, <3>1
  <2>3. ASSUME NEW b \in batch', NEW w \in Buffered' PROVE Before(b, w)
    <3>1. PICK i \in 1 .. take : b = buffer[i]
      BY <1>2, <2>3
    <3>2. PICK j \in 1 .. Len(buffer) - take : w = rest[j]
      BY <1>2, <1>6, <2>3 DEF Buffered
    <3>3. i \in DOMAIN buffer /\ take + j \in DOMAIN buffer /\ i < take + j
      BY <1>3, <1>4, <1>6
    <3> QED BY <1>6, <2>1, <3>1, <3>2, <3>3
  <2> QED BY <2>2, <2>3 DEF QueueOrdered
<1>10. GroupWhole'
  BY <1>2, <1>7 DEF GroupWhole
<1>11. Sent' = Sent
  BY <1>2 DEF Sent
<1>12. RequestsBefore' /\ RowsBefore' /\ MaximumRead' /\ FirstSeenInOrder'
  BY <1>2, <1>8, <1>11 DEF OrderInv, RequestsBefore, RowsBefore, MaximumRead, FirstSeenInOrder, counted
<1> QED BY <1>1, <1>8, <1>9, <1>10, <1>12 DEF OrderInv

(* The queue stays as it is.                                                        *)
LEMMA QueueKept ==
  ASSUME QueueOrdered, UNCHANGED <<sent, buffer>>, batch' \subseteq batch
  PROVE  QueueOrdered' /\ Sent' = Sent /\ Buffered' = Buffered /\ Waiting' \subseteq Waiting
BY DEF QueueOrdered, Sent, Buffered, Waiting

LEMMA NextGroupOrder == ASSUME OrderInv, NextGroup PROVE OrderInv'
<1>1. RelayInv /\ RelayInv'
  BY NextGroupStep DEF OrderInv
<1>2. pc = "group" /\ current = {} /\ UNCHANGED <<sent, buffer, batch, calls, rows, counted>>
  BY DEF NextGroup, OrderInv, GroupWhole
<1>3. QueueOrdered' /\ Sent' = Sent /\ Waiting' = Waiting
  BY <1>2, QueueKept DEF OrderInv, Waiting, Buffered
<1>4. GroupWhole'
  <2>1. CASE batch = {}
    BY <1>2, <2>1 DEF NextGroup, GroupWhole
  <2>2. CASE batch # {}
    <3>1. PICK s \in {e.session : e \in batch} :
            current' = {e \in batch : e.session = s} /\ attempt' = 0 /\ pc' = "post"
      BY <2>2 DEF NextGroup
    <3>2. s \in Sessions
      <4>1. batch \subseteq Event
        BY <1>1 DEF RelayInv, RelayTypeOK
      <4> QED BY <3>1, <4>1 DEF Event
    <3> QED BY <1>2, <3>1, <3>2 DEF GroupWhole
  <2> QED BY <2>1, <2>2
<1>5. RequestsBefore'
  <2>1. \A c \in calls : c.events # current
    BY <1>2 DEF OrderInv, RequestsBefore
  <2> QED BY <1>2, <1>3, <2>1 DEF OrderInv, RequestsBefore
<1>6. RowsBefore'
  BY <1>2, <1>3 DEF OrderInv, RowsBefore
<1>7. MaximumRead' /\ FirstSeenInOrder'
  BY <1>2 DEF OrderInv, MaximumRead, FirstSeenInOrder, counted
<1> QED BY <1>1, <1>3, <1>4, <1>5, <1>6, <1>7 DEF OrderInv

LEMMA PostOrder == ASSUME OrderInv, Post PROVE OrderInv'
<1> DEFINE c == [events |-> current, attempt |-> attempt, live |-> TRUE, stage |-> "sent", base |-> 0]
<1>1. RelayInv /\ RelayInv'
  BY PostStep DEF OrderInv
<1>2. /\ pc = "post" /\ pc' = "answer" /\ calls' = calls \cup {c}
      /\ UNCHANGED <<sent, buffer, batch, current, rows, counted>>
  BY DEF Post
<1>3. c.events = current /\ c.stage = "sent"
  OBVIOUS
<1> HIDE DEF c
<1>4. QueueOrdered' /\ Sent' = Sent /\ Waiting' = Waiting
  BY <1>2, QueueKept DEF OrderInv, Waiting, Buffered
<1>5. GroupWhole'
  BY <1>2 DEF OrderInv, GroupWhole
<1>6. RequestsBefore'
  <2>1. current # {} /\ current \subseteq Sent /\ \A d, e \in current : d.session = e.session
    BY <1>1, <1>2, WaitingSent DEF OrderInv, GroupWhole, Waiting
  <2> QED BY <1>2, <1>3, <1>4, <2>1 DEF OrderInv, RequestsBefore
<1>7. RowsBefore'
  BY <1>2, <1>4 DEF OrderInv, RowsBefore
<1>8. MaximumRead' /\ FirstSeenInOrder'
  BY <1>2, <1>3 DEF OrderInv, MaximumRead, FirstSeenInOrder, counted
<1> QED BY <1>1, <1>4, <1>5, <1>6, <1>7, <1>8 DEF OrderInv

-----------------------------------------------------------------------------------
(* The requests that are left were there before, with what they carry and have read. *)
FromCalls ==
  \A d \in calls' : \E c \in calls : d.events = c.events /\ d.stage = c.stage /\ d.base = c.base

(* What was posted comes before what still waits of its session.                    *)
LEMMA GroupBefore ==
  ASSUME OrderInv, pc = "answer", NEW d \in current, NEW w \in Buffered \cup (batch \ current)
  PROVE  Before(d, w)
<1>1. PICK s \in Sessions : current = {e \in batch : e.session = s}
  BY DEF OrderInv, GroupWhole
<1>2. CASE w \in Buffered
  BY <1>1, <1>2 DEF OrderInv, QueueOrdered
<1>3. CASE w \in batch \ current
  BY <1>1, <1>3 DEF Before
<1> QED BY <1>2, <1>3

LEMMA GroupOrder ==
  ASSUME OrderInv, RelayInv', pc = "answer", GroupDone, UNCHANGED <<sent, buffer, rows>>, FromCalls,
         published' = published \/ published' = published \cup current
  PROVE  OrderInv'
<1>1. batch' = batch \ current /\ current' = {} /\ pc' = "group"
  BY DEF GroupDone
<1>2. QueueOrdered' /\ Sent' = Sent /\ Waiting' \subseteq Waiting /\ Waiting' = Buffered \cup (batch \ current)
  <2>1. batch' \subseteq batch
    BY <1>1
  <2>2. QueueOrdered' /\ Sent' = Sent /\ Buffered' = Buffered /\ Waiting' \subseteq Waiting
    BY <2>1, QueueKept DEF OrderInv
  <2> QED BY <1>1, <2>2 DEF Waiting
<1>3. \A d \in current, w \in Waiting' : Before(d, w)
  BY <1>2, GroupBefore
<1>4. GroupWhole'
  BY <1>1 DEF GroupWhole
<1>5. RequestsBefore'
  <2> SUFFICES ASSUME NEW d \in calls'
               PROVE  /\ d.events # {} /\ d.events \subseteq Sent
                      /\ \A x, y \in d.events : x.session = y.session
                      /\ \A x \in d.events, w \in Waiting' : Before(x, w)
    BY <1>2 DEF RequestsBefore
  <2>1. PICK c \in calls : d.events = c.events
    BY DEF FromCalls
  <2>2. \A x \in c.events, w \in Waiting' : Before(x, w)
    BY <1>2, <1>3 DEF OrderInv, RequestsBefore
  <2> QED BY <2>1, <2>2 DEF OrderInv, RequestsBefore
<1>6. RowsBefore'
  BY <1>2, <1>3 DEF OrderInv, RowsBefore
<1>7. \A e \in current, r \in rows : r.event.session = e.session /\ e.n < r.event.n
                                      => r.event \in current /\ \E q \in rows : q.event = e /\ q.seq < r.seq
  <2> SUFFICES ASSUME NEW e \in current, NEW r \in rows, r.event.session = e.session, e.n < r.event.n
               PROVE  r.event \in current /\ \E q \in rows : q.event = e /\ q.seq < r.seq
    OBVIOUS
  <2>1. e \in Waiting /\ e \in Event /\ r.event \in Event
    BY WaitingSent DEF Waiting, OrderInv, RelayInv, RelayTypeOK
  <2>2. ~Before(r.event, e)
    BY <2>1 DEF Before, Event
  <2> QED BY <2>1, <2>2 DEF OrderInv, RowsBefore
<1>8. FirstSeenInOrder'
  BY <1>7 DEF OrderInv, FirstSeenInOrder
<1>9. MaximumRead'
  <2> SUFFICES ASSUME NEW d \in calls', NEW e \in published', NEW x \in d.events,
                      d.stage = "read", x.session = e.session, e.n < x.n
               PROVE  e \in d.events \/ \E q \in rows : q.event = e /\ q.seq <= d.base
    BY DEF MaximumRead
  <2>1. PICK c \in calls : d.events = c.events /\ d.stage = c.stage /\ d.base = c.base
    BY DEF FromCalls
  <2>2. CASE e \in published
    BY <2>1, <2>2 DEF OrderInv, MaximumRead
  <2>3. CASE e \in current
    <3>1. e \in Waiting /\ e \in Event /\ x \in Event
      BY <2>1, <2>3, WaitingSent DEF Waiting, OrderInv, RequestsBefore
    <3>2. ~Before(x, e)
      BY <3>1 DEF Before, Event
    <3>3. c.events = current
      BY <2>1, <3>1, <3>2 DEF OrderInv, RequestsBefore
    <3> QED BY <2>1, <2>3, <3>3
  <2> QED BY <2>2, <2>3
<1> QED BY <1>2, <1>4, <1>5, <1>6, <1>8, <1>9 DEF OrderInv

LEMMA TryAgainOrder ==
  ASSUME OrderInv, RelayInv', pc = "answer", TryAgain, UNCHANGED <<sent, buffer, rows, published>>, FromCalls
  PROVE  OrderInv'
<1>1. CASE attempt + 1 < MaxAttempts
  <2>1. pc' = "post" /\ UNCHANGED <<batch, current>>
    BY <1>1 DEF TryAgain
  <2>2. QueueOrdered' /\ Sent' = Sent /\ Waiting' = Waiting
    BY <2>1, QueueKept DEF OrderInv, Waiting, Buffered
  <2>3. GroupWhole'
    BY <2>1 DEF OrderInv, GroupWhole
  <2>4. RequestsBefore' /\ MaximumRead'
    BY <2>1, <2>2 DEF OrderInv, RequestsBefore, MaximumRead, FromCalls
  <2>5. RowsBefore' /\ FirstSeenInOrder'
    BY <2>1, <2>2 DEF OrderInv, RowsBefore, FirstSeenInOrder
  <2> QED BY <2>2, <2>3, <2>4, <2>5 DEF OrderInv
<1>2. CASE ~(attempt + 1 < MaxAttempts)
  BY <1>2, GroupOrder DEF TryAgain
<1> QED BY <1>1, <1>2

LEMMA AnswerOrder ==
  ASSUME OrderInv, pc = "answer", NEW c \in calls, c.live,
         Posted(c) \/ ServerError(c) \/ PostFails(c) \/ PostRejected(c)
  PROVE  OrderInv'
<1>1. RelayInv'
  BY AnswerStep DEF OrderInv
<1>2. FromCalls
  <2>1. CASE calls' = calls \ {c}
    BY <2>1 DEF FromCalls
  <2>2. CASE GiveUp(c)
    <3> DEFINE d == [c EXCEPT !.live = FALSE]
    <3>1. c \in Request
      BY DEF OrderInv, RelayInv, RelayTypeOK
    <3>2. d.events = c.events /\ d.stage = c.stage /\ d.base = c.base
      BY <3>1 DEF Request
    <3>3. calls' \subseteq calls \cup {d}
      BY <2>2 DEF GiveUp
    <3> HIDE DEF d
    <3> QED BY <3>2, <3>3 DEF FromCalls
  <2> QED BY <2>1, <2>2 DEF Posted, ServerError, PostFails, PostRejected
<1>3. CASE Posted(c)
  BY <1>1, <1>2, <1>3, GroupOrder DEF Posted
<1>4. CASE ServerError(c) \/ PostFails(c)
  BY <1>1, <1>2, <1>4, TryAgainOrder DEF ServerError, PostFails
<1>5. CASE PostRejected(c)
  BY <1>1, <1>2, <1>5, GroupOrder DEF PostRejected
<1> QED BY <1>3, <1>4, <1>5

LEMMA StopOrder == ASSUME OrderInv, RunnerStops PROVE OrderInv'
<1>1. RelayInv'
  BY StopStep DEF OrderInv
<1>2. buffer' = <<>> /\ pc' = "wait" /\ batch' = {} /\ current' = {} /\ UNCHANGED <<sent, rows, published>>
  BY DEF RunnerStops
<1>3. Waiting' = {} /\ Sent' = Sent
  BY <1>2 DEF Waiting, Buffered, Sent
<1>4. FromCalls
  <2>1. PICK kept \in SUBSET {c \in calls : c.live /\ c.stage \in {"sent", "read"}} :
          calls' = {c \in calls : ~c.live} \cup {[c EXCEPT !.live = FALSE] : c \in kept}
    BY DEF RunnerStops
  <2>2. ASSUME NEW c \in kept
        PROVE  /\ [c EXCEPT !.live = FALSE].events = c.events
               /\ [c EXCEPT !.live = FALSE].stage = c.stage /\ [c EXCEPT !.live = FALSE].base = c.base
    <3>1. c \in Request
      BY DEF OrderInv, RelayInv, RelayTypeOK
    <3> QED BY <3>1 DEF Request
  <2>3. ASSUME NEW d \in calls'
        PROVE  \E c \in calls : d.events = c.events /\ d.stage = c.stage /\ d.base = c.base
    <3>1. CASE d \in calls
      BY <3>1
    <3>2. CASE \E c \in kept : d = [c EXCEPT !.live = FALSE]
      <4>1. PICK c \in kept : d = [c EXCEPT !.live = FALSE]
        BY <3>2
      <4>2. c \in calls
        OBVIOUS
      <4> QED BY <2>2, <4>1, <4>2
    <3> QED BY <2>1, <3>1, <3>2
  <2> QED BY <2>3 DEF FromCalls
<1>5. QueueOrdered' /\ GroupWhole'
  BY <1>2 DEF QueueOrdered, GroupWhole, Buffered
<1>6. RequestsBefore'
  BY <1>3, <1>4 DEF OrderInv, RequestsBefore, FromCalls
<1>7. RowsBefore' /\ FirstSeenInOrder'
  BY <1>2, <1>3 DEF OrderInv, RowsBefore, FirstSeenInOrder
<1>8. MaximumRead'
  BY <1>2, <1>4 DEF OrderInv, MaximumRead, FromCalls
<1> QED BY <1>1, <1>5, <1>6, <1>7, <1>8 DEF OrderInv

-----------------------------------------------------------------------------------
(* The handler leaves the relay alone: one request changes, and rows are added.     *)
LEMMA RelayAlone ==
  ASSUME OrderInv, UNCHANGED <<sent, relay>>
  PROVE  QueueOrdered' /\ GroupWhole' /\ Sent' = Sent /\ Waiting' = Waiting
BY DEF OrderInv, QueueOrdered, GroupWhole, Sent, Waiting, Buffered, relay

LEMMA ReadOrder == ASSUME OrderInv, NEW c \in calls, InsertReads(c) PROVE OrderInv'
<1>1. RelayInv /\ RelayInv'
  BY ReadStep DEF OrderInv
<1>2. PICK s \in {e.session : e \in c.events} :
        /\ calls' = (calls \ {c}) \cup {[c EXCEPT !.stage = "read", !.base = LastSeq(s)]}
        /\ UNCHANGED <<sent, relay, rows, counted, faulty>>
  BY DEF InsertReads
<1> DEFINE d == [c EXCEPT !.stage = "read", !.base = LastSeq(s)]
<1>3. c \in Request /\ d.events = c.events /\ d.base = LastSeq(s)
  BY <1>1 DEF RelayInv, RelayTypeOK, Request
<1>4. calls' = (calls \ {c}) \cup {d}
  BY <1>2
<1> HIDE DEF d
<1>5. QueueOrdered' /\ GroupWhole' /\ Sent' = Sent /\ Waiting' = Waiting
  BY <1>2, RelayAlone
<1>6. RequestsBefore'
  <2>1. current' = current
    BY <1>2 DEF relay
  <2> QED BY <1>3, <1>4, <1>5, <2>1 DEF OrderInv, RequestsBefore
<1>7. RowsBefore' /\ FirstSeenInOrder'
  BY <1>2, <1>5 DEF OrderInv, RowsBefore, FirstSeenInOrder, relay, counted
<1>8. MaximumRead'
  <2>1. \A r \in rows : r.event.session = s => r.seq <= LastSeq(s)
    <3> SUFFICES ASSUME NEW r \in rows, r.event.session = s PROVE r.seq <= LastSeq(s)
      OBVIOUS
    <3>1. r \in RowsOf(s) /\ RowsOf(s) \in SUBSET rows
      BY DEF RowsOf
    <3>2. IsFiniteSet(RowsOf(s)) /\ \A q \in RowsOf(s) : q.seq \in Nat
      BY <1>1, <3>1, FS_Subset DEF RelayInv, AllFinite, RelayTypeOK
    <3>3. PICK m \in RowsOf(s) : \A q \in RowsOf(s) : q.seq <= m.seq
      BY <3>1, <3>2, HighestRow
    <3>4. \E n \in {q.seq : q \in RowsOf(s)} : \A q \in RowsOf(s) : q.seq <= n
      BY <3>3
    <3>5. \A q \in RowsOf(s) : q.seq <= LastSeq(s)
      BY <3>1, <3>4 DEF LastSeq
    <3> QED BY <3>1, <3>5
  <2>2. ASSUME NEW e \in published, NEW x \in c.events, x.session = e.session
        PROVE  \E q \in rows : q.event = e /\ q.seq <= d.base
    <3>1. x.session = s
      BY DEF OrderInv, RequestsBefore
    <3>2. PICK q \in rows : q.event = e
      BY <1>1 DEF RelayInv, LiveRequest, Stored
    <3> QED BY <1>3, <2>1, <2>2, <3>1, <3>2
  <2>3. published' = published /\ rows' = rows
    BY <1>2 DEF counted
  <2> QED BY <1>3, <1>4, <2>2, <2>3 DEF OrderInv, MaximumRead
<1> QED BY <1>1, <1>5, <1>6, <1>7, <1>8 DEF OrderInv

LEMMA FailOrder == ASSUME OrderInv, NEW c \in calls, InsertFails(c) PROVE OrderInv'
<1> DEFINE d == [c EXCEPT !.stage = "refused"]
<1>1. RelayInv /\ RelayInv'
  BY FailStep DEF OrderInv
<1>2. calls' = (calls \ {c}) \cup {d} /\ UNCHANGED <<sent, relay, rows, counted>>
  BY DEF InsertFails
<1>3. d.events = c.events /\ d.stage = "refused"
  <2>1. c \in Request
    BY <1>1 DEF RelayInv, RelayTypeOK
  <2> QED BY <2>1 DEF Request
<1> HIDE DEF d
<1>4. QueueOrdered' /\ GroupWhole' /\ Sent' = Sent /\ Waiting' = Waiting
  BY <1>2, RelayAlone
<1>5. RequestsBefore'
  <2>1. current' = current
    BY <1>2 DEF relay
  <2> QED BY <1>2, <1>3, <1>4, <2>1 DEF OrderInv, RequestsBefore
<1>6. RowsBefore' /\ FirstSeenInOrder' /\ MaximumRead'
  BY <1>2, <1>3, <1>4 DEF OrderInv, RowsBefore, FirstSeenInOrder, MaximumRead, relay, counted
<1> QED BY <1>1, <1>4, <1>5, <1>6 DEF OrderInv

(* In one batch a later event has a higher place.                                   *)
LEMMA OrdinalGrows ==
  ASSUME NEW B, IsFiniteSet(B), B \subseteq Event, NEW e \in B, NEW d \in B, e.n < d.n
  PROVE  Ordinal(e, B) \in Nat /\ Ordinal(d, B) \in Nat /\ Ordinal(e, B) < Ordinal(d, B)
<1> DEFINE upto(x) == {b \in B : b.n <= x.n}
<1>1. IsFiniteSet(upto(d)) /\ IsFiniteSet(upto(e))
  BY FS_Subset
<1>2. upto(e) \subseteq upto(d) /\ d \in upto(d) /\ d \notin upto(e)
  BY DEF Event
<1>3. Cardinality(upto(e)) <= Cardinality(upto(d)) /\ Cardinality(upto(d)) # Cardinality(upto(e))
  BY <1>1, <1>2, FS_Subset
<1>4. Cardinality(upto(e)) \in Nat /\ Cardinality(upto(d)) \in Nat
  BY <1>1, FS_CardinalityType
<1> QED BY <1>3, <1>4 DEF Ordinal

LEMMA WriteOrder == ASSUME OrderInv, NEW c \in calls, InsertWrites(c) PROVE OrderInv'
<1>1. RelayInv /\ RelayInv'
  BY WriteStep DEF OrderInv
<1>2. /\ c.stage = "read" /\ rows' = rows \cup NewRows(c) /\ UNCHANGED <<sent, relay, counted, faulty>>
      /\ calls' = (calls \ {c}) \cup (IF c.live THEN {[c EXCEPT !.stage = "stored"]} ELSE {})
  BY DEF InsertWrites
<1>3. QueueOrdered' /\ GroupWhole' /\ Sent' = Sent /\ Waiting' = Waiting /\ current' = current
        /\ published' = published
  BY <1>2, RelayAlone DEF relay, counted
<1>4. c \in Request /\ IsFiniteSet(c.events) /\ c.events \subseteq Event /\ c.base \in Nat
  BY <1>1 DEF RelayInv, RelayTypeOK, AllFinite, Request
<1>5. \A d \in calls' : d \in calls \/ (d.events = c.events /\ d.stage = "stored")
  BY <1>2, <1>4 DEF Request
<1>6. RequestsBefore'
  BY <1>3, <1>5 DEF OrderInv, RequestsBefore
<1>7. MaximumRead'
  <2> SUFFICES ASSUME NEW d \in calls', NEW e \in published, NEW x \in d.events,
                      d.stage = "read", x.session = e.session, e.n < x.n
               PROVE  e \in d.events \/ \E q \in rows' : q.event = e /\ q.seq <= d.base
    BY <1>3 DEF MaximumRead
  <2>1. d \in calls
    BY <1>5
  <2> QED BY <1>2, <2>1 DEF OrderInv, MaximumRead
<1>8. \A r \in NewRows(c) : r.event \in c.events /\ r.seq = c.base + Ordinal(r.event, c.events)
  BY DEF NewRows
<1>9. ASSUME NEW r \in NewRows(c), NEW e \in c.events, e.n < r.event.n
      PROVE  \E q \in rows' : q.event = e /\ q.seq < r.seq
  <2> DEFINE q == [event |-> e, seq |-> c.base + Ordinal(e, c.events)]
  <2>1. q \in rows'
    BY <1>2 DEF NewRows
  <2>2. /\ Ordinal(e, c.events) \in Nat /\ Ordinal(r.event, c.events) \in Nat
        /\ Ordinal(e, c.events) < Ordinal(r.event, c.events)
    BY <1>4, <1>8, <1>9, OrdinalGrows
  <2>3. q.event = e /\ q.seq < r.seq
    BY <1>4, <1>8, <2>2
  <2> QED BY <2>1, <2>3
<1>10. RowsBefore'
  <2> SUFFICES ASSUME NEW r \in rows'
               PROVE  /\ r.event \in Sent
                      /\ \/ \A w \in Waiting : Before(r.event, w)
                         \/ /\ r.event \in current
                            /\ \A e \in current : e.n < r.event.n => \E q \in rows' : q.event = e /\ q.seq < r.seq
    BY <1>3 DEF RowsBefore
  <2>1. CASE r \in rows
    BY <1>2, <2>1 DEF OrderInv, RowsBefore
  <2>2. CASE r \in NewRows(c)
    <3>1. r.event \in c.events /\ c.events \subseteq Sent
      BY <1>8, <2>2 DEF OrderInv, RequestsBefore
    <3>2. CASE c.events = current
      BY <1>9, <2>2, <3>1, <3>2
    <3>3. CASE \A d \in c.events, w \in Waiting : Before(d, w)
      BY <3>1, <3>3
    <3> QED BY <3>1, <3>2, <3>3 DEF OrderInv, RequestsBefore
  <2> QED BY <1>2, <2>1, <2>2
<1>11. FirstSeenInOrder'
  <2> SUFFICES ASSUME NEW e \in published, NEW r \in rows', r.event.session = e.session, e.n < r.event.n
               PROVE  \E q \in rows' : q.event = e /\ q.seq < r.seq
    BY <1>3 DEF FirstSeenInOrder
  <2>1. CASE r \in rows
    BY <1>2, <2>1 DEF OrderInv, FirstSeenInOrder
  <2>2. CASE r \in NewRows(c)
    <3>1. r.event \in c.events
      BY <1>8, <2>2
    <3>2. CASE e \in c.events
      BY <1>9, <2>2, <3>2
    <3>3. CASE \E q \in rows : q.event = e /\ q.seq <= c.base
      <4>1. PICK q \in rows : q.event = e /\ q.seq <= c.base
        BY <3>3
      <4>2. q.seq \in Nat /\ c.base \in Nat
        BY <1>1, <1>4 DEF RelayInv, RelayTypeOK
      <4>3. Ordinal(r.event, c.events) \in Nat \ {0}
        <5>1. r.event \in {b \in c.events : b.n <= r.event.n}
          BY <1>4, <3>1 DEF Event
        <5>2. IsFiniteSet({b \in c.events : b.n <= r.event.n})
          BY <1>4, FS_Subset
        <5> QED BY <5>1, <5>2, FS_CardinalityType, FS_EmptySet DEF Ordinal
      <4>4. q.seq < r.seq
        BY <1>8, <2>2, <4>1, <4>2, <4>3
      <4> QED BY <1>2, <4>1, <4>4
    <3> QED BY <1>2, <2>2, <3>1, <3>2, <3>3 DEF OrderInv, MaximumRead
  <2> QED BY <1>2, <2>1, <2>2
<1> QED BY <1>1, <1>3, <1>6, <1>7, <1>10, <1>11 DEF OrderInv

-----------------------------------------------------------------------------------
LEMMA OrderStep == OrderInv /\ [Next]_vars => OrderInv'
<1> SUFFICES ASSUME OrderInv, [Next]_vars PROVE OrderInv'
  OBVIOUS
<1>1. CASE \E s \in Sessions : Send(s)
  BY <1>1, SendOrder
<1>2. CASE Tick \/ Notified
  <2>1. permit' \in BOOLEAN /\ pc = "wait" /\ Drain
    BY <1>2 DEF Tick, Notified, OrderInv, RelayInv, RelayTypeOK
  <2> QED BY <2>1, DrainOrder
<1>3. CASE pc = "answer" /\ \E c \in calls : c.live
        /\ (Posted(c) \/ ServerError(c) \/ PostFails(c) \/ PostRejected(c))
  BY <1>3, AnswerOrder
<1>4. CASE IngestEvents
  BY <1>4, ReadOrder, WriteOrder, FailOrder DEF IngestEvents
<1>5. CASE UNCHANGED vars
  <2>1. RelayInv'
    BY <1>5, RelayStep DEF OrderInv
  <2>2. QueueOrdered' /\ GroupWhole' /\ Sent' = Sent /\ Waiting' = Waiting
    BY <1>5, RelayAlone DEF vars
  <2> QED BY <1>5, <2>1, <2>2 DEF vars, relay, counted, OrderInv, RequestsBefore, RowsBefore,
          MaximumRead, FirstSeenInOrder
<1> QED BY <1>1, <1>2, <1>3, <1>4, <1>5, NextGroupOrder, PostOrder, StopOrder DEF Next, FlushLoop

(* Who replays a session by sequence has seen every published event before any       *)
(* later one, in spite of retries and of requests that arrive late.                  *)
THEOREM PublishedInOrder == Spec => []FirstSeenInOrder
<1>1. Init => OrderInv
  BY OrderInitially
<1>2. OrderInv /\ [Next]_vars => OrderInv'
  BY OrderStep
<1>3. OrderInv => FirstSeenInOrder
  BY DEF OrderInv
<1> QED BY <1>1, <1>2, <1>3, PTL DEF Spec

-----------------------------------------------------------------------------------
(* What is posted is what the queue of one session holds up to some event.           *)
LEMMA GroupIsFront == ASSUME OrderInv, pc = "answer" PROVE Delivery!Front(current)
<1>1. current # {} /\ current \subseteq Buffered \cup batch
  BY WaitingSent DEF OrderInv, GroupWhole
<1>2. PICK s \in Sessions : current = {e \in batch : e.session = s}
  BY DEF OrderInv, GroupWhole
<1>3. ASSUME NEW b \in current, NEW e \in Buffered \cup batch
      PROVE  /\ b.session = e.session /\ e.n < b.n => e \in current
             /\ e \in current => e.session = b.session
  <2>1. CASE e \in batch
    BY <1>2, <2>1
  <2>2. CASE e \in Buffered
    <3>1. b \in batch /\ b \in Event /\ e \in Event
      BY <1>2, <2>2, WaitingSent DEF Waiting, OrderInv
    <3>2. b.session = e.session => b.n < e.n
      BY <2>2, <3>1 DEF OrderInv, QueueOrdered, Before
    <3>3. b.n \in Int /\ e.n \in Int
      BY <3>1 DEF Event
    <3> QED BY <1>2, <3>2, <3>3
  <2> QED BY <2>1, <2>2
<1> QED BY <1>1, <1>3 DEF Delivery!Front

(* The group leaves the queue.                                                      *)
LEMMA GroupLeaves ==
  ASSUME OrderInv, GroupDone, UNCHANGED buffer
  PROVE  (Buffered \cup batch)' = (Buffered \cup batch) \ current
<1>1. current \subseteq batch /\ Buffered \cap batch = {}
  BY DEF OrderInv, RelayInv, RelayTypeOK, OnePlace
<1> QED BY <1>1 DEF GroupDone, Buffered

LEMMA GroupLost ==
  ASSUME OrderInv, pc = "answer", GroupDone, UNCHANGED <<sent, buffer, rows, published>>
  PROVE  Delivery!Lose
<1>1. current \subseteq Buffered \cup batch
  BY WaitingSent DEF OrderInv, Waiting
<1> QED BY <1>1, GroupIsFront, GroupLeaves DEF Delivery!Lose

LEMMA GivenUpOrTriedAgain ==
  ASSUME OrderInv, pc = "answer", TryAgain, UNCHANGED <<sent, buffer, rows, published>>
  PROVE  Delivery!Lose \/ UNCHANGED Delivery!dvars
<1>1. CASE attempt + 1 < MaxAttempts
  BY <1>1 DEF TryAgain, Delivery!dvars, Buffered
<1>2. CASE ~(attempt + 1 < MaxAttempts)
  BY <1>2, GroupLost DEF TryAgain
<1> QED BY <1>1, <1>2

(* An answered request delivers what it carried, or loses it, or is sent again.      *)
LEMMA AnswerDelivers ==
  ASSUME OrderInv, pc = "answer", NEW c \in calls, c.live,
         Posted(c) \/ ServerError(c) \/ PostFails(c) \/ PostRejected(c)
  PROVE  Delivery!Deliver \/ Delivery!Lose \/ UNCHANGED Delivery!dvars
<1>1. CASE Posted(c)
  <2>1. current \subseteq {r.event : r \in rows}
    BY <1>1 DEF Posted, OrderInv, RelayInv, LiveRequest, Stored
  <2>2. (Buffered \cup batch)' = (Buffered \cup batch) \ current /\ published' = published \cup current
    BY <1>1, GroupLeaves DEF Posted
  <2>3. sent' = sent /\ rows' = rows
    BY <1>1 DEF Posted
  <2> QED BY <2>1, <2>2, <2>3, GroupIsFront DEF Delivery!Deliver
<1>2. CASE ServerError(c) \/ PostFails(c)
  BY <1>2, GivenUpOrTriedAgain DEF ServerError, PostFails
<1>3. CASE PostRejected(c)
  BY <1>3, GroupLost DEF PostRejected
<1> QED BY <1>1, <1>2, <1>3

(* A new event is accepted; the one that makes room for it is the oldest.            *)
LEMMA SendAccepts == ASSUME OrderInv, NEW s \in Sessions, Send(s) PROVE Delivery!Accept(s)
<1> DEFINE e == [session |-> s, n |-> sent[s] + 1]
           gone == IF Full THEN {Head(buffer)} ELSE {}
           kept == IF Full THEN Tail(buffer) ELSE buffer
<1>1. buffer \in Seq(Event) /\ IsInjective(buffer) /\ Held(buffer) = Buffered
        /\ Buffered \cap batch = {} /\ Capacity \in Nat \ {0}
  BY RelayAssumption DEF OrderInv, RelayInv, RelayTypeOK, OnePlace, Held, Buffered
<1>2. kept \in Seq(Event) /\ IsInjective(kept) /\ Held(kept) = Buffered \ gone /\ gone \subseteq Buffered
  <2>1. CASE Full
    <3>1. Len(buffer) \in Nat /\ Len(buffer) >= 1
      BY <1>1, <2>1 DEF Full
    <3>2. Tail(buffer) = SubSeq(buffer, 1 + 1, Len(buffer)) /\ {Head(buffer)} = {buffer[i] : i \in 1 .. 1}
      BY <1>1, <3>1
    <3>3. 1 \in 0 .. Len(buffer)
      BY <3>1
    <3>4. kept = SubSeq(buffer, 1 + 1, Len(buffer)) /\ gone = {buffer[i] : i \in 1 .. 1}
      BY <2>1, <3>2
    <3> HIDE DEF kept, gone
    <3>5. /\ SubSeq(buffer, 1 + 1, Len(buffer)) \in Seq(Event) /\ IsInjective(SubSeq(buffer, 1 + 1, Len(buffer)))
          /\ {buffer[i] : i \in 1 .. 1} \cup Held(SubSeq(buffer, 1 + 1, Len(buffer))) = Held(buffer)
          /\ {buffer[i] : i \in 1 .. 1} \cap Held(SubSeq(buffer, 1 + 1, Len(buffer))) = {}
      BY <1>1, <3>3, CutHeld
    <3> QED BY <1>1, <3>4, <3>5
  <2>2. CASE ~Full
    BY <1>1, <2>2
  <2> QED BY <2>1, <2>2
<1>3. \A a, b \in gone : a = b
  OBVIOUS
<1>4. e \in Event /\ e \notin Held(kept)
  <2>1. e \in Event /\ e \notin Sent
    BY SentGrows DEF Send, OrderInv, RelayInv
  <2> QED BY <1>2, <2>1, WaitingSent DEF OrderInv, Waiting
<1>5. buffer' = Append(kept, e) /\ sent' = [sent EXCEPT ![s] = @ + 1] /\ UNCHANGED <<batch, rows, published>>
  BY DEF Send
<1> HIDE DEF kept, gone
<1>6. Buffered' = (Buffered \ gone) \cup {e}
  <2>1. Held(Append(kept, e)) = Held(kept) \cup {e}
    BY <1>2, <1>4, AppendHeld
  <2> QED BY <1>2, <1>5, <2>1 DEF Buffered, Held
<1>7. (Buffered \cup batch)' = ((Buffered \cup batch) \ gone) \cup {e}
  BY <1>1, <1>2, <1>5, <1>6
<1> QED BY <1>2, <1>3, <1>5, <1>7 DEF Delivery!Accept

(* The INSERT adds to the log what was accepted.                                     *)
LEMMA WriteStores == ASSUME OrderInv, NEW c \in calls, InsertWrites(c) PROVE Delivery!Store
<1>1. rows \subseteq rows' /\ UNCHANGED <<sent, buffer, batch, published>>
  BY DEF InsertWrites, relay, counted
<1>2. \A r \in rows' : r.event \in Sent
  <2>1. OrderInv' /\ Sent' = Sent
    BY <1>1, WriteOrder DEF Sent
  <2> QED BY <2>1 DEF OrderInv, RowsBefore
<1>3. \A r \in rows' : r.event.n \in 1 .. sent[r.event.session]
  <2> SUFFICES ASSUME NEW r \in rows' PROVE r.event.n \in 1 .. sent[r.event.session]
    OBVIOUS
  <2>1. r.event \in Event /\ r.event.n <= sent[r.event.session]
    BY <1>2 DEF Sent
  <2>2. r.event.n \in 1 .. MaxEvents /\ sent[r.event.session] \in 0 .. MaxEvents /\ MaxEvents \in Nat
    BY <2>1, RelayAssumption DEF Event, OrderInv, RelayInv, RelayTypeOK
  <2> QED BY <2>1, <2>2
<1> QED BY <1>1, <1>3 DEF Delivery!Store, Buffered

LEMMA DeliveryStep == OrderInv /\ [Next]_vars => [Delivery!DeliveryNext]_Delivery!dvars
<1> SUFFICES ASSUME OrderInv, [Next]_vars PROVE Delivery!DeliveryNext \/ UNCHANGED Delivery!dvars
  OBVIOUS
<1>1. CASE \E s \in Sessions : Send(s)
  BY <1>1, SendAccepts DEF Delivery!DeliveryNext
<1>2. CASE Tick \/ Notified
  <2>1. permit' \in BOOLEAN /\ pc = "wait" /\ Drain
    BY <1>2 DEF Tick, Notified, OrderInv, RelayInv, RelayTypeOK
  <2>2. Waiting' = Waiting /\ UNCHANGED <<sent, rows, published>>
    BY <2>1, DrainOrder DEF Drain, counted
  <2> QED BY <2>2 DEF Delivery!dvars, Waiting
<1>3. CASE pc = "answer" /\ \E c \in calls : c.live
        /\ (Posted(c) \/ ServerError(c) \/ PostFails(c) \/ PostRejected(c))
  BY <1>3, AnswerDelivers DEF Delivery!DeliveryNext
<1>4. CASE NextGroup \/ Post \/ (\E c \in calls : InsertReads(c) \/ InsertFails(c)) \/ UNCHANGED vars
  <2>1. UNCHANGED <<sent, buffer, batch, rows, published>>
    BY <1>4 DEF NextGroup, Post, InsertReads, InsertFails, relay, counted, vars
  <2> QED BY <2>1 DEF Delivery!dvars, Buffered
<1>5. CASE \E c \in calls : InsertWrites(c)
  BY <1>5, WriteStores DEF Delivery!DeliveryNext
<1>6. CASE RunnerStops
  <2>1. (Buffered \cup batch)' = {} /\ UNCHANGED <<sent, rows, published>>
    BY <1>6 DEF RunnerStops, Buffered
  <2> QED BY <2>1 DEF Delivery!DeliveryNext, Delivery!Lose
<1> QED BY <1>1, <1>2, <1>3, <1>4, <1>5, <1>6 DEF Next, FlushLoop, IngestEvents

LEMMA DeliveryInitially == Init => Delivery!DeliveryInit
BY DEF Init, Delivery!DeliveryInit, Buffered

(* The relay and the handler implement EventDelivery: events wait, leave the queue of *)
(* their session from its front, and are delivered only once they are stored.         *)
THEOREM RelayDelivers == Spec => DeliveryImplemented
<1>1. OrderInv /\ [Next]_vars => OrderInv'
  BY OrderStep
<1>2. OrderInv /\ [Next]_vars => [Delivery!DeliveryNext]_Delivery!dvars
  BY DeliveryStep
<1> QED BY <1>1, <1>2, OrderInitially, DeliveryInitially, PTL DEF Spec, DeliveryImplemented, Delivery!DeliverySpec

-----------------------------------------------------------------------------------
(* The client: its inductive invariant. *)

Carried == {chan[i] : i \in DOMAIN chan} \cup {held[p] : p \in Publishers}
Published == {f \in Carried : f.kind = "event"}
Queued == {q \in 1 .. MaxRows : \E p \in Publishers : \E c \in todo[p] : c.kind = "event" /\ c.seq = q}
HeldBack == {held[p].seq : p \in {q \in Publishers : held[q].kind = "event"}}
Coming == {chan[i].seq : i \in {j \in pos + 1 .. Len(chan) : chan[j].kind = "event"}}
Ahead == Queued \cup HeldBack \cup Coming
Replayed == {replay[i].seq : i \in {j \in DOMAIN replay : replay[j].kind = "event"}}
Lost == unpublished \cup passed \cup outOfReach

(* Only the ingest publishes events; what it has published has rows and comes before *)
(* what it has still to publish; every row is one or the other, or was given up.      *)
RowsPublished ==
  /\ \A p \in Publishers : held[p].kind = "event" => p = "ingest"
  /\ \A p \in Publishers : \A c \in todo[p] : (c.kind = "event") <=> (p = "ingest")
  /\ \A f \in Carried : f.id <= ids
  /\ \A i \in DOMAIN chan : chan[i].id > 0
  /\ \A p \in Publishers : held[p] = NoFrame \/ held[p].id > 0
  /\ \A f \in Published : f.seq \in 1 .. maxSeq /\ f.id > 0
  /\ \A p \in Publishers : \A c \in todo[p] : c.kind = "event" =>
       c.seq \in 1 .. maxSeq /\ \A f \in Published : f.seq < c.seq
  /\ \A q \in 1 .. maxSeq : q \in unpublished \/ q \in Queued \/ \E f \in Published : f.seq = q

(* Events have different ids and sequences in the same order, in which the channel    *)
(* carries them.                                                                     *)
EventsInOrder ==
  /\ \A f, g \in Published : f = g \/ (f.id < g.id /\ f.seq < g.seq) \/ (g.id < f.id /\ g.seq < f.seq)
  /\ \A f \in Published, g \in Carried : f.id = g.id => f = g
  /\ \A i, j \in DOMAIN chan :
       (i < j /\ chan[i].kind = "event" /\ chan[j].kind = "event") => chan[i].seq < chan[j].seq
  /\ \A p \in Publishers : \A i \in DOMAIN chan :
       (held[p].kind = "event" /\ chan[i].kind = "event") => chan[i].seq < held[p].seq

(* An event that a frame pushed later has overtaken is in passed.                     *)
OvertakenIsPassed ==
  /\ \A p \in Publishers : \A i \in DOMAIN chan :
       (held[p].kind = "event" /\ held[p].id < chan[i].id) => held[p].seq \in passed
  /\ \A i, j \in DOMAIN chan :
       (i < j /\ chan[j].kind = "event" /\ chan[j].id < chan[i].id) => chan[j].seq \in passed

(* r holds the frames with the ids after from, up to the last id of r.                *)
Run(r, from) ==
  /\ \A i \in DOMAIN r : r[i].id = from + i
  /\ \A i \in DOMAIN r : r[i].kind = "event" => r[i] \in Published
  /\ \A f \in Published : (from < f.id /\ f.id <= from + Len(r)) => r[f.id - from] = f

RingIsRun == Len(ring) <= ids /\ Run(ring, ids - Len(ring))

(* A joined client has the rows below last, and those above come by history, channel *)
(* or a publisher.                                                                   *)
JoinInv ==
  Mode = "join" =>
    /\ missed \subseteq unpublished \cup outOfReach /\ ~twice /\ last <= maxSeq
    /\ phase # "streaming" => hist = {}
    /\ phase = "streaming" =>
         /\ covered <= maxSeq
         /\ hist = IF synced THEN last + 1 .. covered ELSE {}
         /\ synced => \A q \in last + 1 .. maxSeq : q \in hist \cup unpublished \cup outOfReach \cup Ahead
         /\ last > covered => \A q \in Ahead : last < q

(* A client with a last id has every event up to it, or that event is lost to it.    *)
HasUpToLastId ==
  Mode = "plain" =>
    /\ lastId <= ids /\ (synced => lastId > 0) /\ hist = {} /\ last <= maxSeq
    /\ synced => \A f \in Published : f.id <= lastId => f.seq <= last \/ f.seq \in Lost

First == replay[1].id - 1

(* What it replays is what came between its last id and the subscription.            *)
ReplayIsRun ==
  /\ (phase # "streaming" \/ Mode = "join") => replay = <<>>
  /\ replay # <<>> =>
       /\ First >= 0 /\ First + Len(replay) <= ids
       /\ Run(replay, First)
       /\ \A i \in 1 .. pos : chan[i].kind = "event" => chan[i].id <= First + Len(replay)
       /\ synced => \A f \in Published : f.id <= First => f.seq <= last \/ f.seq \in Lost

(* Every later row is lost to it, or comes by replay, channel or a publisher.        *)
PlainInv ==
  Mode = "plain" =>
    /\ missed \subseteq Lost
    /\ (phase = "streaming" /\ synced) =>
         \A q \in last + 1 .. maxSeq : q \in Lost \cup Ahead \cup Replayed

StreamInv ==
  /\ StreamTypeOK /\ RowsPublished /\ EventsInOrder /\ OvertakenIsPassed /\ RingIsRun
  /\ JoinInv /\ HasUpToLastId /\ ReplayIsRun /\ PlainInv

(* What the setting of a behaviour may be.                                       *)
LEMMA SettingTypes ==
  ASSUME StreamTypeOK
  PROVE  /\ MaxOther \in Nat /\ ChannelCap \in Nat \ {0} /\ RingCap \in Nat \ {0} /\ MaxRows \in Nat
         /\ setting.historyLimit \in Nat \ {0} /\ setting.rows \in 0 .. MaxRows
         /\ Mode \in {"join", "plain"} /\ setting.expiry \in BOOLEAN
BY StreamAssumption DEF StreamTypeOK, Setting, MaxOther, ChannelCap, RingCap, Mode

(* What may remain of the ring, and what a push makes of it.                         *)
LEMMA KeptIsSuffix ==
  ASSUME StreamTypeOK, NEW r \in Kept(ring)
  PROVE  /\ r \in Seq(Frame) /\ Len(r) \in Nat /\ Len(r) <= Len(ring)
         /\ \A i \in 1 .. Len(r) : r[i] = ring[i + Len(ring) - Len(r)]
<1>1. ring \in Seq(Frame) /\ Len(ring) \in Nat
  BY DEF StreamTypeOK
<1>2. r = ring \/ \E k \in 1 .. Len(ring) + 1 : r = SubSeq(ring, k, Len(ring))
  BY DEF Kept
<1>3. CASE r = ring
  BY <1>1, <1>3
<1>4. CASE \E k \in 1 .. Len(ring) + 1 : r = SubSeq(ring, k, Len(ring))
  <2>1. PICK k \in 1 .. Len(ring) + 1 : r = SubSeq(ring, k, Len(ring))
    BY <1>4
  <2>2. /\ r \in Seq(Frame) /\ Len(r) = Len(ring) - k + 1
        /\ \A i \in 1 .. Len(r) : r[i] = ring[k + i - 1]
    BY <1>1, <2>1
  <2> QED BY <1>1, <2>2
<1> QED BY <1>2, <1>3, <1>4

(* A push keeps the end of the ring and adds its frame, within the capacity.     *)
LEMMA PushedIsSuffix ==
  ASSUME StreamTypeOK, NEW r \in Seq(Frame), Len(r) <= RingCap, NEW f \in Frame
  PROVE  /\ Pushed(r, f) \in Seq(Frame)
         /\ Len(Pushed(r, f)) \in 1 .. Len(r) + 1 /\ Len(Pushed(r, f)) <= RingCap
         /\ Pushed(r, f)[Len(Pushed(r, f))] = f
         /\ \A i \in 1 .. Len(Pushed(r, f)) - 1 :
              Pushed(r, f)[i] = r[i + Len(r) + 1 - Len(Pushed(r, f))]
<1>1. RingCap \in Nat \ {0}
  BY SettingTypes
<1>2. CASE Len(r) >= RingCap
  <2>1. r # <<>> /\ Tail(r) \in Seq(Frame) /\ Len(Tail(r)) = Len(r) - 1
        /\ \A i \in 1 .. Len(r) - 1 : Tail(r)[i] = r[i + 1]
    BY <1>1, <1>2
  <2>2. Pushed(r, f) = Append(Tail(r), f)
    BY <1>2 DEF Pushed
  <2> QED BY <1>1, <1>2, <2>1, <2>2
<1>3. CASE ~(Len(r) >= RingCap)
  <2>2. Pushed(r, f) = Append(r, f)
    BY <1>3 DEF Pushed
  <2> QED BY <1>1, <1>3, <2>2
<1> QED BY <1>2, <1>3

(* Push makes one frame of the first of what a publisher has to publish, and the     *)
(* ring keeps its latest frames and that one.                                         *)
PushesFrame(p, c, f) ==
  /\ f = [id |-> ids + 1, kind |-> c.kind, seq |-> c.seq]
  /\ \A d \in todo[p] : c.seq <= d.seq
  /\ held[p] = NoFrame /\ held' = [held EXCEPT ![p] = f] /\ ids' = ids + 1
  /\ todo' = [todo EXCEPT ![p] = todo[p] \ {c}]
  /\ ring' \in Seq(Frame) /\ Len(ring') <= RingCap /\ Len(ring') \in 1 .. Len(ring) + 1
  /\ ring'[Len(ring')] = f
  /\ \A i \in 1 .. Len(ring') - 1 : ring'[i] = ring[i + Len(ring) + 1 - Len(ring')]

(* A push takes one thing to publish and makes one frame of it.                  *)
LEMMA PushResult ==
  ASSUME StreamTypeOK, NEW p \in Publishers, Push(p)
  PROVE  \E c \in todo[p], f \in Frame : PushesFrame(p, c, f)
<1>1. PICK c \in todo[p] : /\ \A d \in todo[p] : c.seq <= d.seq
                           /\ PushFrame(p, c)
                           /\ todo' = [todo EXCEPT ![p] = todo[p] \ {c}]
  BY DEF Push
<1> DEFINE f == [id |-> ids + 1, kind |-> c.kind, seq |-> c.seq]
<1>2. c \in Content
  BY DEF StreamTypeOK
<1>3. f \in Frame
  BY <1>2 DEF StreamTypeOK, Content, Frame
<1>4. PICK r \in Kept(ring) : ring' = Pushed(r, f)
  BY <1>1 DEF PushFrame
<1>5. held[p] = NoFrame /\ held' = [held EXCEPT ![p] = f] /\ ids' = ids + 1
  BY <1>1 DEF PushFrame
<1>6. /\ r \in Seq(Frame) /\ Len(r) \in Nat /\ Len(r) <= Len(ring)
      /\ \A i \in 1 .. Len(r) : r[i] = ring[i + Len(ring) - Len(r)]
  BY KeptIsSuffix
<1>7. Len(ring) \in Nat /\ Len(ring) <= RingCap /\ RingCap \in Nat
  BY SettingTypes DEF StreamTypeOK
<1> HIDE DEF f
<1>8. /\ ring' \in Seq(Frame)
      /\ Len(ring') \in 1 .. Len(r) + 1 /\ Len(ring') <= RingCap
      /\ ring'[Len(ring')] = f
      /\ \A i \in 1 .. Len(ring') - 1 : ring'[i] = r[i + Len(r) + 1 - Len(ring')]
  <2>1. Len(r) <= RingCap
    BY <1>6, <1>7
  <2> QED BY <1>3, <1>4, <1>6, <2>1, PushedIsSuffix
<1>9. \A i \in 1 .. Len(ring') - 1 : ring'[i] = ring[i + Len(ring) + 1 - Len(ring')]
  <2> TAKE i \in 1 .. Len(ring') - 1
  <2>1. i + Len(r) + 1 - Len(ring') \in 1 .. Len(r)
    BY <1>6, <1>8
  <2>2. ring'[i] = ring[(i + Len(r) + 1 - Len(ring')) + Len(ring) - Len(r)]
    BY <1>6, <1>8, <2>1
  <2>3. (i + Len(r) + 1 - Len(ring')) + Len(ring) - Len(r) = i + Len(ring) + 1 - Len(ring')
    BY <1>6, <1>7, <1>8
  <2> QED BY <2>2, <2>3
<1>10. Len(ring') \in 1 .. Len(ring) + 1
  BY <1>6, <1>7, <1>8
<1>11. f = [id |-> ids + 1, kind |-> c.kind, seq |-> c.seq]
  BY DEF f
<1> QED BY <1>1, <1>3, <1>5, <1>8, <1>9, <1>10, <1>11 DEF PushesFrame

(* What the fields of a frame may be.                                            *)
LEMMA FrameTypes ==
  ASSUME NEW f \in Frame
  PROVE  f.id \in Nat /\ f.seq \in Int /\ f.kind \in {"none", "event", "lifecycle", "other"}
BY StreamAssumption DEF Frame

(* A publisher between a push and the next holds a frame of no kind.             *)
LEMMA NoFrameType == StreamTypeOK => NoFrame \in Frame
BY SettingTypes DEF NoFrame, Frame

(* What channel and publishers hold are frames.                                  *)
LEMMA ChanTypes ==
  ASSUME StreamTypeOK
  PROVE  /\ Len(chan) \in Nat /\ DOMAIN chan = 1 .. Len(chan) /\ pos \in 0 .. Len(chan)
         /\ \A i \in 1 .. Len(chan) : chan[i] \in Frame
         /\ \A p \in Publishers : held[p] \in Frame
         /\ Carried \subseteq Frame
BY DEF StreamTypeOK, Carried

(* SendFrame puts one frame at the end of the channel.                                *)
LEMMA SendResult ==
  ASSUME StreamTypeOK, NEW p \in Publishers, SendFrame(p)
  PROVE  /\ held[p] # NoFrame /\ held' = [held EXCEPT ![p] = NoFrame]
         /\ chan' \in Seq(Frame) /\ Len(chan') = Len(chan) + 1 /\ DOMAIN chan' = 1 .. Len(chan) + 1
         /\ chan'[Len(chan) + 1] = held[p]
         /\ \A i \in 1 .. Len(chan) : chan'[i] = chan[i]
         /\ passed' = passed \cup {held[q].seq : q \in EarlierHeld(p)}
<1>1. chan \in Seq(Frame) /\ held[p] \in Frame /\ Len(chan) \in Nat
  BY DEF StreamTypeOK
<1>2. chan' = Append(chan, held[p])
  BY DEF SendFrame
<1>3. /\ chan' \in Seq(Frame) /\ Len(chan') = Len(chan) + 1
      /\ chan'[Len(chan) + 1] = held[p]
      /\ \A i \in 1 .. Len(chan) : chan'[i] = chan[i]
  BY <1>1, <1>2
<1> QED BY <1>1, <1>3 DEF SendFrame

(* A push adds its frame to those on their way.                                  *)
LEMMA PushCarries ==
  ASSUME StreamTypeOK, NEW p \in Publishers, NEW c \in todo[p], NEW f \in Frame,
         PushesFrame(p, c, f), UNCHANGED chan
  PROVE  /\ Carried \subseteq Carried' \cup {NoFrame} /\ Carried' \subseteq Carried \cup {f}
         /\ Published \subseteq Published' /\ Published' \subseteq Published \cup {f}
         /\ f \in Carried' /\ (f.kind = "event" => f \in Published')
<1>1. held \in [Publishers -> Frame] /\ held' = [held EXCEPT ![p] = f] /\ held[p] = NoFrame
  BY DEF StreamTypeOK, PushesFrame
<1>2. Carried \subseteq Carried' \cup {NoFrame} /\ Carried' \subseteq Carried \cup {f} /\ f \in Carried'
  BY <1>1 DEF Carried
<1>3. NoFrame.kind # "event"
  BY DEF NoFrame
<1> QED BY <1>2, <1>3 DEF Published

(* A send only moves a frame from its publisher to the channel.                  *)
LEMMA SendCarries ==
  ASSUME StreamTypeOK, NEW p \in Publishers, SendFrame(p)
  PROVE  /\ Carried' = Carried \cup {NoFrame} /\ Published' = Published
<1>1. /\ chan' \in Seq(Frame) /\ Len(chan') = Len(chan) + 1 /\ DOMAIN chan' = 1 .. Len(chan) + 1
      /\ chan'[Len(chan) + 1] = held[p]
      /\ \A i \in 1 .. Len(chan) : chan'[i] = chan[i]
      /\ held' = [held EXCEPT ![p] = NoFrame]
  BY SendResult
<1>2. /\ Len(chan) \in Nat /\ DOMAIN chan = 1 .. Len(chan)
      /\ held \in [Publishers -> Frame]
  BY ChanTypes DEF StreamTypeOK
<1> DEFINE old == {chan[i] : i \in 1 .. Len(chan)}
           new == {chan'[i] : i \in 1 .. Len(chan) + 1}
<1>3. new = old \cup {held[p]}
  <2>1. \A x \in new : x \in old \cup {held[p]}
    BY <1>1, <1>2
  <2>2. \A x \in old : x \in new
    BY <1>1, <1>2
  <2>3. held[p] \in new
    BY <1>1, <1>2
  <2> QED BY <2>1, <2>2, <2>3
<1>4. /\ \A q \in Publishers : q # p => held'[q] = held[q]
      /\ held'[p] = NoFrame
  BY <1>1, <1>2
<1>5. Carried = old \cup {held[q] : q \in Publishers} /\ Carried' = new \cup {held'[q] : q \in Publishers}
  BY <1>1, <1>2 DEF Carried
<1>6. Carried' = Carried \cup {NoFrame}
  BY <1>3, <1>4, <1>5
<1>7. NoFrame.kind # "event"
  BY DEF NoFrame
<1> QED BY <1>6, <1>7 DEF Published

(* What is ahead of the client does not change when an event goes on its way.        *)
LEMMA PushKeepsAhead ==
  ASSUME StreamTypeOK, RowsPublished, NEW p \in Publishers, NEW c \in todo[p], NEW f \in Frame,
         PushesFrame(p, c, f), UNCHANGED <<chan, pos>>
  PROVE  Ahead' = Ahead
<1>1. /\ held \in [Publishers -> Frame] /\ held' = [held EXCEPT ![p] = f] /\ held[p] = NoFrame
      /\ todo' = [todo EXCEPT ![p] = todo[p] \ {c}]
      /\ todo \in [Publishers -> SUBSET Content]
      /\ f.kind = c.kind /\ f.seq = c.seq
  BY DEF StreamTypeOK, PushesFrame
<1>2. NoFrame.kind # "event"
  BY DEF NoFrame
<1>3. Coming' = Coming
  BY DEF Coming
<1>4. \A q \in Publishers : todo'[q] \subseteq todo[q] /\ todo[q] \subseteq todo'[q] \cup {c}
  BY <1>1
<1>6. Queued \subseteq Queued' \cup (IF c.kind = "event" THEN {c.seq} ELSE {}) /\ Queued' \subseteq Queued
  BY <1>4 DEF Queued
<1>7. c.kind = "event" => c.seq \in Queued
  <2>0. c.kind = "event" => c.seq \in 1 .. maxSeq
    BY DEF RowsPublished
  <2>00. maxSeq \in Nat /\ maxSeq <= MaxRows /\ MaxRows \in Nat
    BY SettingTypes DEF StreamTypeOK
  <2>1. c.kind = "event" => c.seq \in 1 .. MaxRows
    BY <2>0, <2>00
  <2> QED BY <2>1 DEF Queued
<1>8. HeldBack' = HeldBack \cup (IF f.kind = "event" THEN {f.seq} ELSE {})
  <2>1. \A q \in Publishers : held'[q] = IF q = p THEN f ELSE held[q]
    BY <1>1
  <2> QED BY <1>1, <1>2, <2>1 DEF HeldBack
<1> QED BY <1>1, <1>3, <1>6, <1>7, <1>8 DEF Ahead

(* A send takes nothing from what is ahead of a client, and adds nothing.        *)
LEMMA SendKeepsAhead ==
  ASSUME StreamTypeOK, NEW p \in Publishers, SendFrame(p)
  PROVE  Ahead' = Ahead
<1>1. /\ chan' \in Seq(Frame) /\ Len(chan') = Len(chan) + 1 /\ DOMAIN chan' = 1 .. Len(chan) + 1
      /\ chan'[Len(chan) + 1] = held[p]
      /\ \A i \in 1 .. Len(chan) : chan'[i] = chan[i]
      /\ held' = [held EXCEPT ![p] = NoFrame]
  BY SendResult
<1>2. /\ Len(chan) \in Nat /\ DOMAIN chan = 1 .. Len(chan) /\ pos \in 0 .. Len(chan)
      /\ held \in [Publishers -> Frame]
  BY ChanTypes DEF StreamTypeOK
<1>3. Queued' = Queued /\ pos' = pos
  BY DEF SendFrame, Queued, server, request
<1> DEFINE mine == IF held[p].kind = "event" THEN {held[p].seq} ELSE {}
<1>4. Coming' = Coming \cup mine
  <2>1. \A q \in Coming' : q \in Coming \cup mine
    BY <1>1, <1>2, <1>3 DEF Coming
  <2>2. \A q \in Coming : q \in Coming'
    BY <1>1, <1>2, <1>3 DEF Coming
  <2>3. \A q \in mine : q \in Coming'
    BY <1>1, <1>2, <1>3 DEF Coming
  <2> QED BY <2>1, <2>2, <2>3
<1>5. HeldBack = HeldBack' \cup mine
  <2>1. /\ \A q \in Publishers : q # p => held'[q] = held[q]
        /\ held'[p].kind # "event"
    BY <1>1, <1>2 DEF NoFrame
  <2> QED BY <2>1 DEF HeldBack
<1> QED BY <1>3, <1>4, <1>5 DEF Ahead

(* What is ahead of a client depends on publishers, bus and the receiver's place. *)
LEMMA AheadStays ==
  ASSUME UNCHANGED <<todo, bus, pos>>
  PROVE  Ahead' = Ahead
BY DEF Ahead, Queued, HeldBack, Coming, bus

(* What is published depends on what publishers and channel hold.                *)
LEMMA CarriedStays ==
  ASSUME UNCHANGED <<held, chan>>
  PROVE  Carried' = Carried /\ Published' = Published
BY DEF Carried, Published

(* A committed batch is queued, or its rows stay unpublished.                         *)
LEMMA CommitMoves ==
  ASSUME StreamTypeOK, CommitRows
  PROVE  /\ maxSeq' \in Nat /\ maxSeq' > maxSeq /\ maxSeq' <= setting.rows
         /\ unpublished \subseteq unpublished'
         /\ Queued \subseteq Queued' /\ \A q \in Queued' : q \in Queued \/ q \in maxSeq + 1 .. maxSeq'
         /\ \A q \in maxSeq + 1 .. maxSeq' : q \in unpublished' \/ q \in Queued'
         /\ \A q \in unpublished' : q \in unpublished \/ q \in maxSeq + 1 .. maxSeq'
<1>1. PICK k \in 1 .. setting.rows - maxSeq :
        /\ maxSeq' = maxSeq + k
        /\ \/ /\ todo' = [todo EXCEPT !["ingest"] = {[kind |-> "event", seq |-> q] : q \in maxSeq + 1 .. maxSeq + k}]
              /\ unpublished' = unpublished
           \/ unpublished' = unpublished \cup (maxSeq + 1 .. maxSeq + k) /\ todo' = todo
  BY DEF CommitRows
<1>2. "ingest" \in Publishers /\ todo["ingest"] = {} /\ todo \in [Publishers -> SUBSET Content]
      /\ maxSeq \in Nat /\ setting.rows \in Nat
  BY SettingTypes DEF CommitRows, Idle, StreamTypeOK
<1>3. CASE unpublished' = unpublished \cup (maxSeq + 1 .. maxSeq + k) /\ todo' = todo
  <2>1. Queued' = Queued
    BY <1>3 DEF Queued
  <2> QED BY <1>1, <1>2, <1>3, <2>1
<1>4. CASE /\ todo' = [todo EXCEPT !["ingest"] = {[kind |-> "event", seq |-> q] : q \in maxSeq + 1 .. maxSeq + k}]
           /\ unpublished' = unpublished
  <2> DEFINE new == {[kind |-> "event", seq |-> q] : q \in maxSeq + 1 .. maxSeq + k}
  <2>1. /\ todo'["ingest"] = new
        /\ \A q \in Publishers : q # "ingest" => todo'[q] = todo[q]
    BY <1>2, <1>4
  <2>2. maxSeq + k <= MaxRows /\ MaxRows \in Nat
    BY <1>2, SettingTypes
  <2> HIDE DEF new
  <2>3. \A c \in new : c.kind = "event" /\ c.seq \in maxSeq + 1 .. maxSeq + k
    BY DEF new
  <2>4. \A q \in maxSeq + 1 .. maxSeq + k : \E c \in new : c.kind = "event" /\ c.seq = q
    <3> TAKE q \in maxSeq + 1 .. maxSeq + k
    <3>1. [kind |-> "event", seq |-> q] \in new
      BY DEF new
    <3> QED BY <3>1
  <2>5. Queued' = Queued \cup (maxSeq + 1 .. maxSeq + k)
    <3>1. \A q \in Queued' : q \in Queued \cup (maxSeq + 1 .. maxSeq + k)
      BY <2>1, <2>3 DEF Queued
    <3>2. \A q \in Queued : q \in Queued'
      BY <1>2, <2>1 DEF Queued
    <3>3. \A q \in maxSeq + 1 .. maxSeq + k : q \in Queued'
      BY <1>2, <2>1, <2>2, <2>4 DEF Queued
    <3> QED BY <3>1, <3>2, <3>3
  <2> QED BY <1>1, <1>2, <1>4, <2>5
<1> QED BY <1>1, <1>3, <1>4

(* The PATCH handler publishes no events.                                        *)
LEMMA PatchMoves ==
  ASSUME StreamTypeOK, RunningSession \/ EndSession
  PROVE  /\ UNCHANGED <<maxSeq, unpublished, held, ids, ring, chan, pos>>
         /\ "patch" \in Publishers /\ todo["patch"] = {}
         /\ \A p \in Publishers : todo'[p] = todo[p] \/ (p = "patch" /\ \A c \in todo'[p] : c.kind # "event")
         /\ todo' \in [Publishers -> SUBSET Content]
         /\ Queued' = Queued
<1>1. PICK seq \in {0, -1} :
        \/ todo' = [todo EXCEPT !["patch"] = {[kind |-> "lifecycle", seq |-> seq]}]
        \/ todo' = todo
  BY DEF RunningSession, EndSession, PatchStatus
<1>2. /\ UNCHANGED <<maxSeq, unpublished, held, ids, ring, chan, pos>>
      /\ "patch" \in Publishers /\ todo["patch"] = {} /\ todo \in [Publishers -> SUBSET Content]
  BY DEF RunningSession, EndSession, PatchStatus, Idle, bus, request, StreamTypeOK
<1>3. [kind |-> "lifecycle", seq |-> seq] \in Content
  BY SettingTypes DEF Content
<1>4. /\ \A p \in Publishers : todo'[p] = todo[p] \/ (p = "patch" /\ \A c \in todo'[p] : c.kind # "event")
      /\ todo' \in [Publishers -> SUBSET Content]
  BY <1>1, <1>2, <1>3
<1>5. Queued' = Queued
  BY <1>2, <1>4 DEF Queued
<1> QED BY <1>2, <1>4, <1>5

(* Which steps change what is published.                                             *)
LEMMA BusSteps ==
  ASSUME StreamTypeOK, [StreamNext]_streamVars
  PROVE  \/ \E p \in Publishers : Push(p)
         \/ \E p \in Publishers : SendFrame(p)
         \/ CommitRows
         \/ RunningSession \/ EndSession
         \/ UNCHANGED <<server, held, ids, chan, passed>>
<1>1. CASE UNCHANGED streamVars
  BY <1>1 DEF streamVars, server, bus, history
<1>2. CASE Publish
  BY <1>2 DEF Publish
<1>3. CASE Stream
  BY <1>3 DEF Stream, Subscribe, FetchHistory, ReadRing, EmitRow, EmitReplay, EmitLive, EmitReset, Finish,
              bus, history
<1>4. CASE Outside
  BY <1>4 DEF Outside, Open, Disconnect, bus, history
<1> QED BY <1>1, <1>2, <1>3, <1>4 DEF StreamNext

(* Every step keeps RowsPublished.                                               *)
LEMMA RowsStep ==
  ASSUME StreamTypeOK, RowsPublished, EventsInOrder, [StreamNext]_streamVars
  PROVE  RowsPublished'
<1>0. /\ held \in [Publishers -> Frame] /\ todo \in [Publishers -> SUBSET Content] /\ ids \in Nat
      /\ maxSeq \in Nat
  BY SettingTypes DEF StreamTypeOK
<1>1. ASSUME NEW p \in Publishers, Push(p) PROVE RowsPublished'
  <2>1. PICK c \in todo[p], f \in Frame : PushesFrame(p, c, f)
    BY <1>1, PushResult
  <2>2. UNCHANGED <<chan, maxSeq, unpublished, pos>>
    BY <1>1 DEF Push, PushFrame, request
  <2>3. /\ Carried' \subseteq Carried \cup {f} /\ f \in Carried'
        /\ Published \subseteq Published' /\ Published' \subseteq Published \cup {f}
        /\ f.kind = "event" => f \in Published'
    BY <2>1, <2>2, PushCarries
  <2>4. /\ f = [id |-> ids + 1, kind |-> c.kind, seq |-> c.seq]
        /\ held' = [held EXCEPT ![p] = f] /\ ids' = ids + 1
        /\ todo' = [todo EXCEPT ![p] = todo[p] \ {c}] /\ \A d \in todo[p] : c.seq <= d.seq
    BY <2>1 DEF PushesFrame
  <2>5. f.id = ids + 1 /\ f.kind = c.kind /\ f.seq = c.seq
    BY <2>4
  <2>6. c.kind = "event" => p = "ingest" /\ c.seq \in 1 .. maxSeq /\ \A g \in Published : g.seq < c.seq
    BY DEF RowsPublished
  <2>7. \A q \in Publishers : todo'[q] \subseteq todo[q]
    BY <1>0, <2>4
  <2>8. \A q \in Publishers : held'[q].kind = "event" => q = "ingest"
    BY <1>0, <2>4, <2>5, <2>6 DEF RowsPublished
  <2>9. \A q \in Publishers : \A d \in todo'[q] : (d.kind = "event") <=> (q = "ingest")
    BY <2>7 DEF RowsPublished
  <2>10. \A g \in Carried' : g.id <= ids'
    <3>1. \A g \in Carried : g.id <= ids /\ g.id \in Nat
      BY ChanTypes, FrameTypes DEF RowsPublished
    <3> QED BY <1>0, <2>3, <2>4, <2>5, <3>1
  <2>11. \A g \in Published' : g.seq \in 1 .. maxSeq' /\ g.id > 0
    <3> TAKE g \in Published'
    <3>1. CASE g \in Published
      BY <2>2, <3>1 DEF RowsPublished
    <3>2. CASE g = f
      <4>1. f.kind = "event"
        BY <3>2 DEF Published
      <4> QED BY <1>0, <2>2, <2>5, <2>6, <3>2, <4>1
    <3> QED BY <2>3, <3>1, <3>2
  <2>12. \A q \in Publishers : \A d \in todo'[q] : d.kind = "event" =>
           d.seq \in 1 .. maxSeq' /\ \A g \in Published' : g.seq < d.seq
    <3> TAKE q \in Publishers
    <3> TAKE d \in todo'[q]
    <3> HAVE d.kind = "event"
    <3>1. d \in todo[q] /\ d \in Content
      BY <1>0, <2>7
    <3>2. d.seq \in 1 .. maxSeq /\ \A g \in Published : g.seq < d.seq
      BY <3>1 DEF RowsPublished
    <3>3. f.kind = "event" => f.seq < d.seq
      <4> HAVE f.kind = "event"
      <4>1. p = "ingest" /\ q = "ingest"
        BY <2>5, <2>6, <3>1 DEF RowsPublished
      <4>2. d \in todo[p] /\ d # c /\ c \in Content
        BY <1>0, <2>4, <3>1, <4>1
      <4>3. c.seq <= d.seq /\ c.seq \in Int /\ d.seq \in Int
        BY <1>0, <2>4, <2>6, <3>2, <4>2, <2>5
      <4>4. c = [kind |-> "event", seq |-> c.seq] /\ d = [kind |-> "event", seq |-> d.seq]
        BY <2>5, <3>1, <4>2 DEF Content
      <4> QED BY <2>5, <4>2, <4>3, <4>4
    <3>4. \A g \in Published' : g.seq < d.seq
      BY <2>3, <3>2, <3>3 DEF Published
    <3> QED BY <2>2, <3>2, <3>4
  <2>13. \A q \in 1 .. maxSeq' : q \in unpublished' \/ q \in Queued' \/ \E g \in Published' : g.seq = q
    <3> TAKE q \in 1 .. maxSeq'
    <3>1. q \in unpublished \/ q \in Queued \/ \E g \in Published : g.seq = q
      BY <2>2 DEF RowsPublished
    <3>2. q \in Queued => q \in Queued' \/ (c.kind = "event" /\ q = c.seq)
      <4>1. \A r \in Publishers : todo[r] \subseteq todo'[r] \cup {c}
        BY <1>0, <2>4
      <4> QED BY <4>1 DEF Queued
    <3> QED BY <2>2, <2>3, <2>5, <3>1, <3>2
  <2>14. \A q \in Publishers : held'[q] = NoFrame \/ held'[q].id > 0
    <3>1. \A q \in Publishers : held'[q] = IF q = p THEN f ELSE held[q]
      BY <1>0, <2>4
    <3>2. f.id > 0
      BY <1>0, <2>5
    <3> QED BY <3>1, <3>2 DEF RowsPublished
  <2>15. \A i \in DOMAIN chan' : chan'[i].id > 0
    BY <2>2 DEF RowsPublished
  <2> QED BY <2>8, <2>9, <2>10, <2>11, <2>12, <2>13, <2>14, <2>15 DEF RowsPublished
<1>2. ASSUME NEW p \in Publishers, SendFrame(p) PROVE RowsPublished'
  <2>1. Carried' = Carried \cup {NoFrame} /\ Published' = Published
    BY <1>2, SendCarries
  <2>2. UNCHANGED <<maxSeq, unpublished, todo, ids>> /\ held' = [held EXCEPT ![p] = NoFrame]
    BY <1>2 DEF SendFrame, server
  <2>3. Queued' = Queued
    BY <2>2 DEF Queued
  <2>4. \A q \in Publishers : held'[q].kind = "event" => q = "ingest"
    BY <1>0, <2>2 DEF RowsPublished, NoFrame
  <2>5. \A g \in Carried' : g.id <= ids'
    BY <1>0, <2>1, <2>2 DEF RowsPublished, NoFrame
  <2>6. \A q \in Publishers : held'[q] = NoFrame \/ held'[q].id > 0
    BY <1>0, <2>2 DEF RowsPublished
  <2>7. \A i \in DOMAIN chan' : chan'[i].id > 0
    <3>1. /\ DOMAIN chan' = 1 .. Len(chan) + 1 /\ chan'[Len(chan) + 1] = held[p] /\ held[p] # NoFrame
          /\ \A i \in 1 .. Len(chan) : chan'[i] = chan[i]
      BY <1>2, SendResult
    <3>2. DOMAIN chan = 1 .. Len(chan) /\ Len(chan) \in Nat
      BY ChanTypes
    <3> QED BY <3>1, <3>2 DEF RowsPublished
  <2> QED BY <2>1, <2>2, <2>3, <2>4, <2>5, <2>6, <2>7 DEF RowsPublished
<1>3. CASE CommitRows
  <2>1. /\ maxSeq' \in Nat /\ maxSeq' > maxSeq
        /\ unpublished \subseteq unpublished' /\ Queued \subseteq Queued'
        /\ \A q \in maxSeq + 1 .. maxSeq' : q \in unpublished' \/ q \in Queued'
    BY <1>3, CommitMoves
  <2>2. UNCHANGED <<held, chan, ids>> /\ "ingest" \in Publishers /\ todo["ingest"] = {} /\ held["ingest"] = NoFrame
    BY <1>3 DEF CommitRows, bus, Idle
  <2>3. Carried' = Carried /\ Published' = Published
    BY <2>2, CarriedStays
  <2>4. \A q \in Publishers : todo'[q] = todo[q] \/ (q = "ingest" /\ todo'[q] =
          {[kind |-> "event", seq |-> s] : s \in maxSeq + 1 .. maxSeq'})
    BY <1>0, <1>3 DEF CommitRows
  <2>5. \A q \in Publishers : \A d \in todo'[q] : d \in todo[q]
          \/ (q = "ingest" /\ d.kind = "event" /\ d.seq \in maxSeq + 1 .. maxSeq')
    BY <2>4
  <2>6. \A q \in Publishers : \A d \in todo'[q] : (d.kind = "event") <=> (q = "ingest")
    BY <2>5 DEF RowsPublished
  <2>7. \A g \in Published : g.seq \in 1 .. maxSeq /\ g.seq \in 1 .. maxSeq' /\ g.id > 0
    BY <1>0, <2>1 DEF RowsPublished
  <2>8. \A q \in Publishers : \A d \in todo'[q] : d.kind = "event" =>
           d.seq \in 1 .. maxSeq' /\ \A g \in Published : g.seq < d.seq
    <3> TAKE q \in Publishers
    <3> TAKE d \in todo'[q]
    <3> HAVE d.kind = "event"
    <3>1. CASE d \in todo[q]
      <4>1. d.seq \in 1 .. maxSeq /\ \A g \in Published : g.seq < d.seq
        BY <3>1 DEF RowsPublished
      <4> QED BY <1>0, <2>1, <4>1
    <3>2. CASE d.seq \in maxSeq + 1 .. maxSeq'
      BY <1>0, <2>1, <2>7, <3>2
    <3> QED BY <2>5, <3>1, <3>2
  <2>9. \A q \in 1 .. maxSeq' : q \in unpublished' \/ q \in Queued' \/ \E g \in Published' : g.seq = q
    <3> TAKE q \in 1 .. maxSeq'
    <3>1. q \in 1 .. maxSeq \/ q \in maxSeq + 1 .. maxSeq'
      BY <1>0, <2>1
    <3> QED BY <2>1, <2>3, <3>1 DEF RowsPublished
  <2> QED BY <2>2, <2>3, <2>6, <2>7, <2>8, <2>9 DEF RowsPublished
<1>4. CASE RunningSession \/ EndSession
  <2>1. /\ UNCHANGED <<maxSeq, unpublished, held, ids, chan>>
        /\ \A p \in Publishers : todo'[p] = todo[p] \/ (p = "patch" /\ \A c \in todo'[p] : c.kind # "event")
        /\ Queued' = Queued
    BY <1>4, PatchMoves
  <2>2. Carried' = Carried /\ Published' = Published
    BY <2>1, CarriedStays
  <2>3. \A q \in Publishers : \A d \in todo'[q] : (d.kind = "event") <=> (q = "ingest")
    BY <2>1 DEF RowsPublished
  <2>4. \A q \in Publishers : \A d \in todo'[q] : d.kind = "event" =>
           d.seq \in 1 .. maxSeq /\ \A g \in Published : g.seq < d.seq
    BY <2>1 DEF RowsPublished
  <2> QED BY <2>1, <2>2, <2>3, <2>4 DEF RowsPublished
<1>5. CASE UNCHANGED <<server, held, ids, chan, passed>>
  <2>1. UNCHANGED <<maxSeq, unpublished, todo>>
    BY <1>5 DEF server
  <2>2. Carried' = Carried /\ Published' = Published /\ Queued' = Queued
    BY <1>5, <2>1, CarriedStays DEF Queued
  <2> QED BY <1>5, <2>1, <2>2 DEF RowsPublished
<1> QED BY <1>1, <1>2, <1>3, <1>4, <1>5, BusSteps

(* Every step keeps EventsInOrder.                                               *)
LEMMA EventsInOrderStep ==
  ASSUME StreamTypeOK, RowsPublished, EventsInOrder, [StreamNext]_streamVars
  PROVE  EventsInOrder'
<1>0. /\ held \in [Publishers -> Frame] /\ todo \in [Publishers -> SUBSET Content] /\ ids \in Nat
      /\ Len(chan) \in Nat /\ DOMAIN chan = 1 .. Len(chan)
  BY ChanTypes DEF StreamTypeOK
<1>1. ASSUME NEW p \in Publishers, Push(p) PROVE EventsInOrder'
  <2>1. PICK c \in todo[p], f \in Frame : PushesFrame(p, c, f)
    BY <1>1, PushResult
  <2>2. UNCHANGED chan
    BY <1>1 DEF Push, PushFrame
  <2>3. Carried' \subseteq Carried \cup {f} /\ Published' \subseteq Published \cup {f}
    BY <2>1, <2>2, PushCarries
  <2>4. held' = [held EXCEPT ![p] = f] /\ f.id = ids + 1 /\ f.kind = c.kind /\ f.seq = c.seq
    BY <2>1 DEF PushesFrame
  <2>5. f.kind = "event" => \A g \in Published : g.seq < f.seq
    BY <2>4 DEF RowsPublished
  <2>6. \A g \in Carried : g.id < f.id
    <3>1. \A g \in Carried : g.id <= ids /\ g.id \in Nat
      BY ChanTypes, FrameTypes DEF RowsPublished
    <3> QED BY <1>0, <2>4, <3>1
  <2>7. \A g \in Published' : g \in Published \/ (g = f /\ f.kind = "event")
    BY <2>3 DEF Published
  <2>8. \A g, h \in Published' : g = h \/ (g.id < h.id /\ g.seq < h.seq) \/ (h.id < g.id /\ h.seq < g.seq)
    <3>1. \A g \in Published : g.id < f.id
      BY <2>6 DEF Published
    <3> QED BY <2>5, <2>7, <3>1 DEF EventsInOrder
  <2>9. \A g \in Published', h \in Carried' : g.id = h.id => g = h
    <3> TAKE g \in Published', h \in Carried'
    <3> HAVE g.id = h.id
    <3>1. /\ g \in Carried \cup {f} /\ h \in Carried \cup {f}
      BY <2>3 DEF Published
    <3>2. \A x \in Carried : x.id \in Nat /\ x.id # f.id
      BY <2>6, ChanTypes, FrameTypes
    <3>3. CASE g = f
      BY <3>1, <3>2, <3>3
    <3>4. CASE g \in Published
      BY <3>1, <3>2, <3>4 DEF EventsInOrder, Published
    <3> QED BY <2>7, <3>3, <3>4
  <2>10. \A q \in Publishers : \A i \in DOMAIN chan :
           (held'[q].kind = "event" /\ chan[i].kind = "event") => chan[i].seq < held'[q].seq
    <3>1. \A i \in DOMAIN chan : chan[i].kind = "event" => chan[i] \in Published
      BY DEF Published, Carried
    <3>2. \A q \in Publishers : held'[q] = IF q = p THEN f ELSE held[q]
      BY <1>0, <2>4
    <3> QED BY <2>5, <3>1, <3>2 DEF EventsInOrder
  <2> QED BY <2>2, <2>8, <2>9, <2>10 DEF EventsInOrder
<1>2. ASSUME NEW p \in Publishers, SendFrame(p) PROVE EventsInOrder'
  <2>1. Carried' = Carried \cup {NoFrame} /\ Published' = Published
    BY <1>2, SendCarries
  <2>2. /\ held' = [held EXCEPT ![p] = NoFrame]
        /\ Len(chan') = Len(chan) + 1 /\ DOMAIN chan' = 1 .. Len(chan) + 1
        /\ chan'[Len(chan) + 1] = held[p]
        /\ \A i \in 1 .. Len(chan) : chan'[i] = chan[i]
    BY <1>2, SendResult
  <2>3. \A g \in Published, h \in Carried' : g.id = h.id => g = h
    <3>1. \A g \in Published : g.id # 0
      BY ChanTypes, FrameTypes DEF RowsPublished, Published
    <3> QED BY <2>1, <3>1 DEF EventsInOrder, NoFrame
  <2>4. ASSUME NEW i \in DOMAIN chan', NEW j \in DOMAIN chan', i < j,
               chan'[i].kind = "event", chan'[j].kind = "event"
        PROVE  chan'[i].seq < chan'[j].seq
    <3>1. i \in DOMAIN chan /\ chan'[i] = chan[i]
      BY <1>0, <2>2, <2>4
    <3>2. CASE j \in DOMAIN chan
      BY <1>0, <2>2, <2>4, <3>1, <3>2 DEF EventsInOrder
    <3>3. CASE j = Len(chan) + 1
      BY <1>0, <2>2, <2>4, <3>1, <3>3 DEF EventsInOrder
    <3> QED BY <1>0, <2>2, <3>2, <3>3
  <2>5. ASSUME NEW q \in Publishers, NEW i \in DOMAIN chan', held'[q].kind = "event", chan'[i].kind = "event"
        PROVE  chan'[i].seq < held'[q].seq
    <3>1. q # p /\ held'[q] = held[q]
      BY <1>0, <2>2, <2>5 DEF NoFrame
    <3>2. q = "ingest" /\ held[p].kind # "event"
      BY <2>5, <3>1 DEF RowsPublished
    <3>3. i \in DOMAIN chan /\ chan'[i] = chan[i]
      BY <1>0, <2>2, <2>5, <3>2
    <3> QED BY <2>5, <3>1, <3>3 DEF EventsInOrder
  <2> QED BY <2>1, <2>3, <2>4, <2>5 DEF EventsInOrder
<1>3. CASE UNCHANGED <<held, chan>>
  <2>1. Carried' = Carried /\ Published' = Published
    BY <1>3, CarriedStays
  <2> QED BY <1>3, <2>1 DEF EventsInOrder
<1>4. CASE CommitRows
  BY <1>3, <1>4 DEF CommitRows, bus
<1>5. CASE RunningSession \/ EndSession
  BY <1>3, <1>5, PatchMoves
<1> QED BY <1>1, <1>2, <1>3, <1>4, <1>5, BusSteps

(* Every step keeps OvertakenIsPassed: SendFrame records what it passes.         *)
LEMMA PassedStep ==
  ASSUME StreamTypeOK, RowsPublished, OvertakenIsPassed, [StreamNext]_streamVars
  PROVE  OvertakenIsPassed'
<1>0. /\ held \in [Publishers -> Frame] /\ ids \in Nat
      /\ Len(chan) \in Nat /\ DOMAIN chan = 1 .. Len(chan)
  BY ChanTypes DEF StreamTypeOK
<1>1. ASSUME NEW p \in Publishers, Push(p) PROVE OvertakenIsPassed'
  <2>1. PICK c \in todo[p], f \in Frame : PushesFrame(p, c, f)
    BY <1>1, PushResult
  <2>2. UNCHANGED <<chan, passed>>
    BY <1>1 DEF Push, PushFrame, history
  <2>3. held' = [held EXCEPT ![p] = f] /\ f.id = ids + 1
    BY <2>1 DEF PushesFrame
  <2>4. \A i \in DOMAIN chan : chan[i].id <= ids /\ chan[i].id \in Nat
    BY ChanTypes, FrameTypes DEF RowsPublished, Carried
  <2>5. \A q \in Publishers : \A i \in DOMAIN chan :
          (held'[q].kind = "event" /\ held'[q].id < chan[i].id) => held'[q].seq \in passed
    <3>1. \A q \in Publishers : held'[q] = IF q = p THEN f ELSE held[q]
      BY <1>0, <2>3
    <3>2. \A i \in DOMAIN chan : ~(f.id < chan[i].id)
      BY <1>0, <2>3, <2>4
    <3> QED BY <3>1, <3>2 DEF OvertakenIsPassed
  <2> QED BY <2>2, <2>5 DEF OvertakenIsPassed
<1>2. ASSUME NEW p \in Publishers, SendFrame(p) PROVE OvertakenIsPassed'
  <2>1. /\ held' = [held EXCEPT ![p] = NoFrame]
        /\ DOMAIN chan' = 1 .. Len(chan) + 1
        /\ chan'[Len(chan) + 1] = held[p]
        /\ \A i \in 1 .. Len(chan) : chan'[i] = chan[i]
        /\ passed' = passed \cup {held[q].seq : q \in EarlierHeld(p)}
    BY <1>2, SendResult
  <2>2. ASSUME NEW q \in Publishers, NEW i \in DOMAIN chan', held'[q].kind = "event", held'[q].id < chan'[i].id
        PROVE  held'[q].seq \in passed'
    <3>1. held'[q] = held[q]
      BY <1>0, <2>1, <2>2 DEF NoFrame
    <3>2. CASE i \in 1 .. Len(chan)
      BY <1>0, <2>1, <2>2, <3>1, <3>2 DEF OvertakenIsPassed
    <3>3. CASE i = Len(chan) + 1
      BY <2>1, <2>2, <3>1, <3>3 DEF EarlierHeld
    <3> QED BY <1>0, <2>1, <3>2, <3>3
  <2>3. ASSUME NEW i \in DOMAIN chan', NEW j \in DOMAIN chan', i < j, chan'[j].kind = "event",
               chan'[j].id < chan'[i].id
        PROVE  chan'[j].seq \in passed'
    <3>1. i \in DOMAIN chan /\ chan'[i] = chan[i]
      BY <1>0, <2>1, <2>3
    <3>2. CASE j \in DOMAIN chan
      BY <1>0, <2>1, <2>3, <3>1, <3>2 DEF OvertakenIsPassed
    <3>3. CASE j = Len(chan) + 1
      BY <1>0, <2>1, <2>3, <3>1, <3>3 DEF OvertakenIsPassed
    <3> QED BY <1>0, <2>1, <3>2, <3>3
  <2> QED BY <2>2, <2>3 DEF OvertakenIsPassed
<1>3. CASE UNCHANGED <<held, chan, passed>>
  BY <1>3 DEF OvertakenIsPassed
<1>4. CASE CommitRows \/ RunningSession \/ EndSession
  BY <1>3, <1>4 DEF CommitRows, RunningSession, EndSession, PatchStatus, bus, history
<1> QED BY <1>1, <1>2, <1>3, <1>4, BusSteps

(* The ring changes by a push, or by expiry when it is read.                         *)
LEMMA RingStep ==
  ASSUME StreamTypeOK, RowsPublished, EventsInOrder, RingIsRun, [StreamNext]_streamVars
  PROVE  RingIsRun'
<1>0. /\ ids \in Nat /\ ring \in Seq(Frame) /\ Len(ring) \in Nat /\ DOMAIN ring = 1 .. Len(ring)
      /\ Len(ring) <= ids
  BY DEF StreamTypeOK, RingIsRun
<1>00. \A f \in Published : f.id \in Nat /\ f.id <= ids
  BY ChanTypes, FrameTypes DEF RowsPublished, Published
<1>1. ASSUME NEW p \in Publishers, Push(p) PROVE RingIsRun'
  <2>1. PICK c \in todo[p], f \in Frame : PushesFrame(p, c, f)
    BY <1>1, PushResult
  <2>2. UNCHANGED chan
    BY <1>1 DEF Push, PushFrame
  <2>3. /\ Published \subseteq Published' /\ Published' \subseteq Published \cup {f}
        /\ f.kind = "event" => f \in Published'
    BY <2>1, <2>2, PushCarries
  <2>4. /\ f.id = ids + 1 /\ ids' = ids + 1
        /\ ring' \in Seq(Frame) /\ Len(ring') \in 1 .. Len(ring) + 1
        /\ ring'[Len(ring')] = f
        /\ \A i \in 1 .. Len(ring') - 1 : ring'[i] = ring[i + Len(ring) + 1 - Len(ring')]
    BY <2>1 DEF PushesFrame
  <2> DEFINE from == ids' - Len(ring')
  <2>5. DOMAIN ring' = 1 .. Len(ring') /\ Len(ring') \in Nat
    BY <2>4
  <2>6. ASSUME NEW i \in DOMAIN ring'
        PROVE  ring'[i].id = from + i /\ (ring'[i].kind = "event" => ring'[i] \in Published')
    <3>1. CASE i = Len(ring')
      BY <1>0, <2>3, <2>4, <3>1
    <3>2. CASE i # Len(ring')
      <4> DEFINE k == i + Len(ring) + 1 - Len(ring')
      <4>1. k \in 1 .. Len(ring) /\ i \in 1 .. Len(ring') - 1
        BY <1>0, <2>4, <2>5, <3>2
      <4>2. ring'[i] = ring[k]
        BY <2>4, <4>1
      <4>3. ring[k].id = ids - Len(ring) + k /\ (ring[k].kind = "event" => ring[k] \in Published)
        BY <1>0, <4>1 DEF RingIsRun, Run
      <4>4. ids - Len(ring) + k = from + i
        BY <1>0, <2>4, <2>5
      <4> QED BY <2>3, <4>2, <4>3, <4>4
    <3> QED BY <3>1, <3>2
  <2>7. ASSUME NEW g \in Published', from < g.id, g.id <= from + Len(ring') PROVE ring'[g.id - from] = g
    <3>1. CASE g = f
      BY <1>0, <2>4, <2>5, <3>1
    <3>2. CASE g \in Published
      <4>1. g.id \in Nat /\ g.id <= ids
        BY <1>00, <3>2
      <4> DEFINE i == g.id - from
      <4>2. i \in 1 .. Len(ring') - 1
        BY <1>0, <2>4, <2>5, <2>7, <4>1
      <4>3. ring'[i] = ring[i + Len(ring) + 1 - Len(ring')]
        BY <2>4, <4>2
      <4>4. i + Len(ring) + 1 - Len(ring') = g.id - (ids - Len(ring))
        BY <1>0, <2>4, <2>5, <4>1
      <4>5. ids - Len(ring) < g.id /\ g.id <= ids - Len(ring) + Len(ring)
        BY <1>0, <2>4, <2>5, <2>7, <4>1
      <4>6. ring[g.id - (ids - Len(ring))] = g
        BY <3>2, <4>5 DEF RingIsRun, Run
      <4> QED BY <4>3, <4>4, <4>6
    <3> QED BY <2>3, <3>1, <3>2
  <2>8. Len(ring') <= ids'
    BY <1>0, <2>4
  <2> QED BY <2>6, <2>7, <2>8 DEF RingIsRun, Run
<1>2. ASSUME ring' \in Kept(ring), UNCHANGED <<ids, held, chan>> PROVE RingIsRun'
  <2>1. Carried' = Carried /\ Published' = Published
    BY <1>2, CarriedStays
  <2>2. /\ ring' \in Seq(Frame) /\ Len(ring') \in Nat /\ Len(ring') <= Len(ring)
        /\ \A i \in 1 .. Len(ring') : ring'[i] = ring[i + Len(ring) - Len(ring')]
    BY <1>2, KeptIsSuffix
  <2> DEFINE from == ids - Len(ring')
  <2>3. DOMAIN ring' = 1 .. Len(ring')
    BY <2>2
  <2>4. ASSUME NEW i \in DOMAIN ring'
        PROVE  ring'[i].id = from + i /\ (ring'[i].kind = "event" => ring'[i] \in Published)
    <3> DEFINE k == i + Len(ring) - Len(ring')
    <3>1. k \in 1 .. Len(ring)
      BY <1>0, <2>2, <2>3
    <3>2. ring[k].id = ids - Len(ring) + k /\ (ring[k].kind = "event" => ring[k] \in Published)
      BY <1>0, <3>1 DEF RingIsRun, Run
    <3> QED BY <1>0, <2>2, <2>3, <3>2
  <2>5. ASSUME NEW g \in Published, from < g.id, g.id <= from + Len(ring') PROVE ring'[g.id - from] = g
    <3>1. g.id \in Nat /\ g.id <= ids
      BY <1>00
    <3>2. g.id - from \in 1 .. Len(ring')
      BY <1>0, <2>2, <2>5, <3>1
    <3>3. ring'[g.id - from] = ring[g.id - from + Len(ring) - Len(ring')]
      BY <2>2, <3>2
    <3>4. g.id - from + Len(ring) - Len(ring') = g.id - (ids - Len(ring))
      BY <1>0, <2>2, <3>1
    <3>5. ids - Len(ring) < g.id /\ g.id <= ids - Len(ring) + Len(ring)
      BY <1>0, <2>2, <2>5, <3>1
    <3>6. ring[g.id - (ids - Len(ring))] = g
      BY <3>5 DEF RingIsRun, Run
    <3> QED BY <3>3, <3>4, <3>6
  <2>6. Len(ring') <= ids
    BY <1>0, <2>2
  <2> QED BY <1>2, <2>1, <2>4, <2>5, <2>6 DEF RingIsRun, Run
<1>3. CASE ReadRing
  <2>1. UNCHANGED <<ids, held, chan>> /\ (ring' = ring \/ ring' \in Kept(ring))
    BY <1>3 DEF ReadRing
  <2>2. CASE ring' = ring
    <3>1. Published' = Published
      BY <2>1, CarriedStays
    <3> QED BY <2>1, <2>2, <3>1 DEF RingIsRun, Run
  <2> QED BY <1>2, <2>1, <2>2
<1>4. ASSUME NEW p \in Publishers, SendFrame(p) PROVE RingIsRun'
  <2>1. Published' = Published
    BY <1>4, SendCarries
  <2> QED BY <1>4, <2>1 DEF SendFrame, RingIsRun, Run
<1>5. CASE UNCHANGED bus
  <2>1. UNCHANGED <<ids, held, chan, ring>>
    BY <1>5 DEF bus
  <2>2. Published' = Published
    BY <2>1, CarriedStays
  <2> QED BY <2>1, <2>2 DEF RingIsRun, Run
<1>6. CASE UNCHANGED streamVars
  BY <1>5, <1>6 DEF streamVars
<1>7. CASE Publish
  BY <1>1, <1>4, <1>7 DEF Publish
<1>8. CASE Stream
  BY <1>3, <1>5, <1>8 DEF Stream, Subscribe, FetchHistory, EmitRow, EmitReplay, EmitLive, EmitReset, Finish
<1>9. CASE Outside
  BY <1>5, <1>9 DEF Outside, Open, Disconnect, CommitRows, RunningSession, EndSession, PatchStatus
<1> QED BY <1>6, <1>7, <1>8, <1>9 DEF StreamNext

(* A published event is ahead of the client, or its receiver is past it.         *)
LEMMA WhereEventsAre ==
  ASSUME StreamTypeOK, NEW f \in Published
  PROVE  f.seq \in Ahead \/ \E i \in 1 .. pos : chan[i] = f
<1>1. Len(chan) \in Nat /\ DOMAIN chan = 1 .. Len(chan) /\ pos \in 0 .. Len(chan)
  BY ChanTypes
<1>2. CASE \E p \in Publishers : f = held[p]
  BY <1>2 DEF Published, Ahead, HeldBack
<1>3. CASE \E i \in DOMAIN chan : f = chan[i]
  <2>1. PICK i \in 1 .. Len(chan) : f = chan[i]
    BY <1>1, <1>3
  <2>2. CASE i <= pos
    BY <1>1, <2>1, <2>2
  <2>3. CASE i > pos
    BY <1>1, <2>1, <2>3 DEF Published, Ahead, Coming
  <2> QED BY <1>1, <2>2, <2>3
<1> QED BY <1>2, <1>3 DEF Published, Carried

(* An event the receiver takes is the first of those ahead, and every later row is    *)
(* ahead of it or was given up.                                                      *)
LEMMA LiveMoves ==
  ASSUME StreamTypeOK, RowsPublished, EventsInOrder, pos < Len(chan), pos' = pos + 1, UNCHANGED <<todo, bus>>
  PROVE  /\ Ahead' \subseteq Ahead
         /\ chan[pos + 1].kind # "event" => Ahead' = Ahead
         /\ chan[pos + 1].kind = "event" =>
              /\ chan[pos + 1] \in Published /\ chan[pos + 1].seq \in 1 .. maxSeq
              /\ Ahead = Ahead' \cup {chan[pos + 1].seq}
              /\ \A q \in Ahead' : chan[pos + 1].seq < q
              /\ \A q \in chan[pos + 1].seq + 1 .. maxSeq : q \in unpublished \/ q \in Ahead'
<1>1. /\ Len(chan) \in Nat /\ DOMAIN chan = 1 .. Len(chan) /\ pos \in 0 .. Len(chan)
      /\ pos + 1 \in 1 .. Len(chan)
  BY ChanTypes
<1>2. UNCHANGED <<todo, held, chan>>
  BY DEF bus
<1>3. Queued' = Queued /\ HeldBack' = HeldBack
  BY <1>2 DEF Queued, HeldBack
<1> DEFINE f == chan[pos + 1]
<1>4. Coming = Coming' \cup (IF f.kind = "event" THEN {f.seq} ELSE {})
  <2>1. \A q \in Coming' : q \in Coming
    BY <1>1, <1>2 DEF Coming
  <2>2. f.kind = "event" => f.seq \in Coming
    BY <1>1 DEF Coming
  <2>3. \A q \in Coming : q \in Coming' \/ (f.kind = "event" /\ q = f.seq)
    <3> TAKE q \in Coming
    <3>1. PICK i \in pos + 1 .. Len(chan) : chan[i].kind = "event" /\ q = chan[i].seq
      BY DEF Coming
    <3>2. CASE i = pos + 1
      BY <3>1, <3>2
    <3>3. CASE i # pos + 1
      <4>1. i \in pos' + 1 .. Len(chan')
        BY <1>1, <1>2, <3>3
      <4> QED BY <1>2, <3>1, <4>1 DEF Coming
    <3> QED BY <3>2, <3>3
  <2> QED BY <2>1, <2>2, <2>3
<1>5. /\ Ahead' \subseteq Ahead
      /\ f.kind # "event" => Ahead' = Ahead
      /\ f.kind = "event" => Ahead = Ahead' \cup {f.seq}
  BY <1>3, <1>4 DEF Ahead
<1>6. ASSUME f.kind = "event"
      PROVE  /\ f \in Published /\ f.seq \in 1 .. maxSeq
             /\ \A q \in Ahead' : f.seq < q
             /\ \A q \in f.seq + 1 .. maxSeq : q \in unpublished \/ q \in Ahead'
  <2>1. f \in Published
    BY <1>1, <1>6 DEF Published, Carried
  <2>2. f.seq \in 1 .. maxSeq
    BY <2>1 DEF RowsPublished
  <2>3. \A q \in Queued : f.seq < q
    BY <2>1 DEF RowsPublished, Queued
  <2>4. \A q \in HeldBack : f.seq < q
    BY <1>1, <1>6 DEF EventsInOrder, HeldBack
  <2>5. \A q \in Coming' : f.seq < q
    <3> TAKE q \in Coming'
    <3>1. PICK i \in pos + 2 .. Len(chan) : chan[i].kind = "event" /\ q = chan[i].seq
      BY <1>1, <1>2 DEF Coming
    <3>2. i \in DOMAIN chan /\ pos + 1 \in DOMAIN chan /\ pos + 1 < i
      BY <1>1
    <3> QED BY <1>6, <3>1, <3>2 DEF EventsInOrder
  <2>6. ASSUME NEW q \in f.seq + 1 .. maxSeq PROVE q \in unpublished \/ q \in Ahead'
    <3>0. maxSeq \in Nat
      BY SettingTypes DEF StreamTypeOK
    <3>1. q \in 1 .. maxSeq /\ q # f.seq /\ ~(q < f.seq)
      BY <2>2, <3>0
    <3>2. q \in unpublished \/ q \in Queued \/ \E g \in Published : g.seq = q
      BY <3>1 DEF RowsPublished
    <3>3. ASSUME NEW g \in Published, g.seq = q PROVE q \in Ahead'
      <4>1. CASE g.seq \in Ahead
        BY <1>5, <1>6, <3>1, <3>3, <4>1
      <4>2. ASSUME NEW i \in 1 .. pos, chan[i] = g PROVE FALSE
        <5>1. i \in DOMAIN chan /\ pos + 1 \in DOMAIN chan /\ i < pos + 1
          BY <1>1
        <5>2. chan[i].seq < f.seq
          BY <1>6, <4>2, <5>1 DEF EventsInOrder, Published
        <5> QED BY <3>1, <3>3, <4>2, <5>2
      <4> QED BY <4>1, <4>2, WhereEventsAre
    <3>4. q \in Queued => q \in Ahead'
      BY <1>3 DEF Ahead
    <3> QED BY <3>2, <3>3, <3>4
  <2> QED BY <1>3, <2>1, <2>2, <2>3, <2>4, <2>5, <2>6 DEF Ahead
<1> QED BY <1>5, <1>6

(* Events are published in rows.                                                     *)
LEMMA AheadHasRows ==
  ASSUME StreamTypeOK, RowsPublished
  PROVE  Ahead \subseteq 1 .. maxSeq
<1>1. Queued \subseteq 1 .. maxSeq
  BY DEF RowsPublished, Queued
<1>2. \A f \in Published : f.seq \in 1 .. maxSeq
  BY DEF RowsPublished
<1>3. HeldBack \subseteq 1 .. maxSeq
  BY <1>2 DEF HeldBack, Published, Carried
<1>4. Coming \subseteq 1 .. maxSeq
  <2>1. \A i \in pos + 1 .. Len(chan) : i \in DOMAIN chan
    BY ChanTypes
  <2> QED BY <1>2, <2>1 DEF Coming, Published, Carried
<1> QED BY <1>1, <1>3, <1>4 DEF Ahead

(* What the server does while the client waits.                                      *)
LEMMA ServerMoves ==
  ASSUME StreamTypeOK, RowsPublished,
         (\E p \in Publishers : Push(p) \/ SendFrame(p)) \/ CommitRows \/ RunningSession \/ EndSession
  PROVE  /\ UNCHANGED <<request, view, skipped, outOfReach>>
         /\ maxSeq' \in Nat /\ maxSeq <= maxSeq'
         /\ unpublished \subseteq unpublished' /\ passed \subseteq passed' /\ outOfReach' = outOfReach
         /\ Ahead \subseteq Ahead' /\ \A q \in Ahead' : q \in Ahead \/ q \in maxSeq + 1 .. maxSeq'
         /\ \A q \in maxSeq + 1 .. maxSeq' : q \in unpublished' \/ q \in Ahead'
<1>0. maxSeq \in Nat
  BY SettingTypes DEF StreamTypeOK
<1>1. ASSUME NEW p \in Publishers, Push(p)
      PROVE  UNCHANGED <<request, view, history, maxSeq, unpublished>> /\ Ahead' = Ahead
  <2>1. PICK c \in todo[p], f \in Frame : PushesFrame(p, c, f)
    BY <1>1, PushResult
  <2>2. UNCHANGED <<request, view, history, maxSeq, unpublished, chan, pos>>
    BY <1>1 DEF Push, PushFrame, request
  <2> QED BY <2>1, <2>2, PushKeepsAhead
<1>2. ASSUME NEW p \in Publishers, SendFrame(p)
      PROVE  /\ UNCHANGED <<request, view, skipped, outOfReach, maxSeq, unpublished>>
             /\ Ahead' = Ahead /\ passed \subseteq passed'
  BY <1>2, SendKeepsAhead DEF SendFrame, server
<1>3. CASE CommitRows
  <2>1. UNCHANGED <<request, view, history, held, chan, pos>>
    BY <1>3 DEF CommitRows, bus, request
  <2>2. HeldBack' = HeldBack /\ Coming' = Coming
    BY <2>1 DEF HeldBack, Coming
  <2> QED BY <1>0, <1>3, <2>1, <2>2, CommitMoves DEF Ahead, history
<1>4. CASE RunningSession \/ EndSession
  <2>1. UNCHANGED <<request, view, history>>
    BY <1>4 DEF RunningSession, EndSession, PatchStatus
  <2>2. UNCHANGED <<maxSeq, unpublished, held, chan, pos>> /\ Queued' = Queued
    BY <1>4, PatchMoves
  <2>3. Ahead' = Ahead
    BY <2>2 DEF Ahead, HeldBack, Coming
  <2> QED BY <1>0, <2>1, <2>2, <2>3 DEF history
<1> QED BY <1>0, <1>1, <1>2, <1>3, <1>4 DEF history

ClientStep ==
  \/ Subscribe \/ FetchHistory \/ ReadRing \/ EmitRow \/ EmitReplay \/ EmitLive
  \/ EmitReset \/ Finish \/ Open \/ Disconnect

ServerStep == (\E p \in Publishers : Push(p) \/ SendFrame(p)) \/ CommitRows \/ RunningSession \/ EndSession

(* A step is one of the server, one of the client, or a stutter.                 *)
LEMMA StepKinds ==
  ASSUME [StreamNext]_streamVars
  PROVE  setting' = setting /\ (ServerStep \/ ClientStep \/ UNCHANGED streamVars)
BY DEF StreamNext, Publish, Stream, Outside, ServerStep, ClientStep, streamVars

(* Every step keeps JoinInv.                                                     *)
LEMMA JoinStep ==
  ASSUME StreamTypeOK, RowsPublished, EventsInOrder, JoinInv, ReplayIsRun, [StreamNext]_streamVars
  PROVE  JoinInv'
<1>0. /\ maxSeq \in Nat /\ last \in Nat /\ covered \in Nat /\ setting' = setting
      /\ missed \subseteq 1 .. MaxRows /\ synced \in BOOLEAN /\ twice \in BOOLEAN
      /\ Ahead \subseteq 1 .. maxSeq
  BY SettingTypes, StepKinds, AheadHasRows DEF StreamTypeOK
<1> SUFFICES ASSUME Mode = "join"
             PROVE  JoinInv'
  BY <1>0 DEF JoinInv, Mode
<1>01. Mode' = "join" /\ replay = <<>>
  BY <1>0 DEF Mode, ReplayIsRun
<1>1. CASE ServerStep
  <2>1. /\ UNCHANGED <<request, view>> /\ outOfReach' = outOfReach
        /\ maxSeq' \in Nat /\ maxSeq <= maxSeq' /\ unpublished \subseteq unpublished'
        /\ Ahead \subseteq Ahead' /\ \A q \in Ahead' : q \in Ahead \/ q \in maxSeq + 1 .. maxSeq'
        /\ \A q \in maxSeq + 1 .. maxSeq' : q \in unpublished' \/ q \in Ahead'
    BY <1>1, ServerMoves DEF ServerStep
  <2>2. UNCHANGED <<phase, hist, covered, last, synced, missed, twice>>
    BY <2>1 DEF request, view
  <2>3. ASSUME phase = "streaming", synced, NEW q \in last + 1 .. maxSeq'
        PROVE  q \in hist \cup unpublished' \cup outOfReach' \cup Ahead'
    <3>1. q \in last + 1 .. maxSeq \/ q \in maxSeq + 1 .. maxSeq'
      BY <1>0, <2>1
    <3> QED BY <2>1, <2>3, <3>1 DEF JoinInv
  <2>4. ASSUME phase = "streaming", last > covered, NEW q \in Ahead' PROVE last < q
    <3>1. last <= maxSeq
      BY DEF JoinInv
    <3>2. CASE q \in Ahead
      BY <2>4, <3>2 DEF JoinInv
    <3>3. CASE q \in maxSeq + 1 .. maxSeq'
      BY <1>0, <2>1, <3>1, <3>3
    <3> QED BY <2>1, <2>4, <3>2, <3>3
  <2> QED BY <1>0, <1>01, <2>1, <2>2, <2>3, <2>4 DEF JoinInv
<1>2. CASE FetchHistory
  <2>1. /\ phase = "subscribed" /\ phase' = "streaming" /\ synced' = TRUE
        /\ covered' = Fewer(maxSeq, last + setting.historyLimit)
        /\ hist' = last + 1 .. covered'
        /\ outOfReach' = outOfReach \cup {q \in RowsSent(pos) : q > covered'}
        /\ UNCHANGED <<server, bus, pos, last, missed, twice>>
    BY <1>2 DEF FetchHistory
  <2>2. UNCHANGED <<maxSeq, unpublished, todo>> /\ Ahead' = Ahead
    BY <2>1, AheadStays DEF server
  <2>3. covered' \in Nat /\ covered' <= maxSeq /\ last <= maxSeq /\ last <= covered'
    <3>1. last <= maxSeq
      BY DEF JoinInv
    <3> QED BY <1>0, <2>1, <3>1, SettingTypes DEF Fewer
  <2>4. ASSUME NEW q \in last + 1 .. maxSeq
        PROVE  q \in hist' \cup unpublished \cup outOfReach' \cup Ahead
    <3>1. q \in hist' \/ q > covered'
      BY <1>0, <2>1, <2>3
    <3>2. q \in unpublished \/ q \in Queued \/ \E f \in Published : f.seq = q
      BY <1>0 DEF RowsPublished
    <3>3. ASSUME NEW f \in Published, f.seq = q, q > covered' PROVE q \in outOfReach' \cup Ahead
      <4>1. ASSUME NEW i \in 1 .. pos, chan[i] = f PROVE q \in RowsSent(pos)
        BY <3>3, <4>1 DEF RowsSent, Published
      <4> QED BY <2>1, <3>3, <4>1, WhereEventsAre
    <3> QED BY <3>1, <3>2, <3>3 DEF Ahead
  <2> QED BY <1>0, <1>01, <2>1, <2>2, <2>3, <2>4 DEF JoinInv
<1>3. CASE EmitRow
  <2>1. PICK seq \in hist : (\A s \in hist : seq <= s) /\ Receive(seq) /\ hist' = hist \ {seq}
    BY <1>3 DEF EmitRow
  <2>2. phase = "streaming" /\ UNCHANGED <<server, bus, phase, covered, pos, outOfReach>>
    BY <1>3 DEF EmitRow, history
  <2>3. UNCHANGED <<maxSeq, unpublished, todo>> /\ Ahead' = Ahead
    BY <2>2, AheadStays DEF server
  <2>4. synced /\ hist = last + 1 .. covered /\ covered <= maxSeq
    BY <2>1, <2>2 DEF JoinInv
  <2>5. seq = last + 1 /\ seq <= covered
    BY <1>0, <2>1, <2>4
  <2>6. missed' = missed /\ twice' = twice /\ last' = last + 1 /\ synced' = TRUE
    BY <1>0, <2>1, <2>4, <2>5 DEF Receive
  <2>7. hist' = last' + 1 .. covered
    BY <1>0, <2>1, <2>4, <2>5, <2>6
  <2>8. \A q \in last' + 1 .. maxSeq : q \in hist' \cup unpublished \cup outOfReach \cup Ahead
    <3> TAKE q \in last' + 1 .. maxSeq
    <3>1. q \in last + 1 .. maxSeq /\ q # seq
      BY <1>0, <2>5, <2>6
    <3> QED BY <2>1, <2>2, <2>4, <3>1 DEF JoinInv
  <2> QED BY <1>0, <1>01, <2>2, <2>3, <2>4, <2>5, <2>6, <2>7, <2>8 DEF JoinInv
<1>4. CASE EmitLive
  <2> DEFINE f == chan[pos + 1]
  <2>1. /\ phase = "streaming" /\ hist = {} /\ pos < Len(chan) /\ pos' = pos + 1
        /\ UNCHANGED <<server, bus, phase, hist, covered, outOfReach>>
    BY <1>4 DEF EmitLive, Live
  <2>2. UNCHANGED <<maxSeq, unpublished, todo>>
    BY <2>1 DEF server
  <2>3. /\ Ahead' \subseteq Ahead
        /\ f.kind # "event" => Ahead' = Ahead
        /\ f.kind = "event" =>
             /\ f \in Published /\ f.seq \in 1 .. maxSeq
             /\ Ahead = Ahead' \cup {f.seq}
             /\ \A q \in Ahead' : f.seq < q
             /\ \A q \in f.seq + 1 .. maxSeq : q \in unpublished \/ q \in Ahead'
    BY <2>1, <2>2, LiveMoves
  <2>4. synced => covered <= last
    BY <1>0, <2>1 DEF JoinInv
  <2>5. CASE UNCHANGED <<last, synced, missed, twice>> /\ (f.kind = "event" => f.seq <= covered)
    <3>1. ASSUME synced, NEW q \in last + 1 .. maxSeq PROVE q \in unpublished \cup outOfReach \cup Ahead'
      <4>1. q \in unpublished \cup outOfReach \cup Ahead
        BY <2>1, <3>1 DEF JoinInv
      <4>2. ASSUME f.kind = "event" PROVE q # f.seq
        BY <1>0, <2>3, <2>4, <2>5, <3>1, <4>2
      <4> QED BY <2>3, <4>1, <4>2
    <3>2. last > covered => \A q \in Ahead' : last < q
      BY <2>1, <2>3 DEF JoinInv
    <3> QED BY <1>0, <1>01, <2>1, <2>2, <2>4, <2>5, <3>1, <3>2 DEF JoinInv
  <2>6. CASE f.kind = "event" /\ ~(f.seq <= covered) /\ Receive(f.seq)
    <3>1. f.seq \in 1 .. maxSeq /\ f.seq > covered
      BY <1>0, <2>3, <2>6
    <3>2. synced => last < f.seq
      <4>1. f.seq \in Ahead
        BY <2>3, <2>6
      <4>2. CASE last > covered
        BY <2>1, <4>1, <4>2 DEF JoinInv
      <4>3. CASE ~(last > covered)
        BY <1>0, <3>1, <4>3
      <4> QED BY <4>2, <4>3
    <3>3. last' = f.seq /\ synced' = TRUE /\ twice' = twice
      BY <1>0, <2>6, <3>1, <3>2 DEF Receive
    <3>4. missed' \subseteq unpublished \cup outOfReach
      <4>1. missed \subseteq unpublished \cup outOfReach
        BY DEF JoinInv
      <4>2. ASSUME synced, NEW q \in last + 1 .. f.seq - 1 PROVE q \in unpublished \cup outOfReach
        <5>1. q \in last + 1 .. maxSeq
          BY <1>0, <3>1
        <5>2. q \in unpublished \cup outOfReach \cup Ahead
          BY <2>1, <4>2, <5>1 DEF JoinInv
        <5>3. q \notin Ahead
          BY <1>0, <2>3, <2>6, <3>1
        <5> QED BY <5>2, <5>3
      <4> QED BY <2>6, <4>1, <4>2 DEF Receive
    <3>5. hist = last' + 1 .. covered
      BY <1>0, <2>1, <3>1, <3>3
    <3>6. \A q \in last' + 1 .. maxSeq : q \in unpublished \cup Ahead'
      BY <2>3, <2>6, <3>3
    <3>7. \A q \in Ahead' : last' < q
      BY <2>3, <2>6, <3>3
    <3>8. covered <= maxSeq /\ last' <= maxSeq /\ ~twice
      BY <1>0, <2>1, <3>1, <3>3 DEF JoinInv
    <3> QED BY <1>01, <2>1, <2>2, <3>3, <3>4, <3>5, <3>6, <3>7, <3>8 DEF JoinInv
  <2> QED BY <1>4, <2>5, <2>6 DEF EmitLive, Emit, AlreadyCovered, view
<1>5. CASE EmitReset
  <2>1. /\ phase = "streaming" /\ hist = {} /\ synced' = FALSE /\ last' = 0
        /\ phase' = phase
        /\ UNCHANGED <<server, bus, hist, covered, missed, twice, outOfReach>>
    BY <1>5 DEF EmitReset, Live, history
  <2>2. UNCHANGED <<maxSeq, unpublished>>
    BY <2>1 DEF server
  <2>3. covered <= maxSeq
    BY <2>1 DEF JoinInv
  <2> QED BY <1>0, <1>01, <2>1, <2>2, <2>3 DEF JoinInv
<1>6. CASE Disconnect \/ Finish \/ Open \/ Subscribe
  <2>1. /\ phase' # "streaming" /\ hist' = {}
        /\ UNCHANGED <<server, missed, twice, last, outOfReach>>
    BY <1>6 DEF Disconnect, Finish, Open, Subscribe, view, history, JoinInv, Live
  <2>2. UNCHANGED <<maxSeq, unpublished>>
    BY <2>1 DEF server
  <2> QED BY <1>01, <2>1, <2>2 DEF JoinInv
<1>7. CASE ReadRing \/ EmitReplay
  BY <1>7, <1>01 DEF ReadRing, EmitReplay
<1>8. CASE UNCHANGED streamVars
  <2>1. UNCHANGED <<phase, hist, covered, last, synced, missed, twice, maxSeq, unpublished,
          outOfReach, todo, bus, pos>>
    BY <1>8 DEF streamVars, request, view, history, server
  <2>2. Ahead' = Ahead
    BY <2>1, AheadStays
  <2> QED BY <1>01, <2>1, <2>2 DEF JoinInv
<1> QED BY <1>1, <1>2, <1>3, <1>4, <1>5, <1>6, <1>7, <1>8, StepKinds DEF ClientStep

(* A step of the server publishes events with new ids only.                      *)
LEMMA ServerPublishes ==
  ASSUME StreamTypeOK, RowsPublished, ServerStep
  PROVE  /\ Published \subseteq Published' /\ \A f \in Published' : f \in Published \/ f.id = ids + 1
         /\ ids' \in Nat /\ ids <= ids'
         /\ \A i \in 1 .. Len(chan) : chan'[i] = chan[i]
<1>0. ids \in Nat
  BY DEF StreamTypeOK
<1>1. ASSUME NEW p \in Publishers, Push(p)
      PROVE  /\ Published \subseteq Published' /\ \A f \in Published' : f \in Published \/ f.id = ids + 1
             /\ ids' \in Nat /\ ids <= ids' /\ chan' = chan
  <2>1. PICK c \in todo[p], f \in Frame : PushesFrame(p, c, f)
    BY <1>1, PushResult
  <2>2. chan' = chan
    BY <1>1 DEF Push, PushFrame
  <2>3. Published \subseteq Published' /\ Published' \subseteq Published \cup {f}
    BY <2>1, <2>2, PushCarries
  <2>4. f.id = ids + 1 /\ ids' = ids + 1
    BY <2>1 DEF PushesFrame
  <2> QED BY <1>0, <2>2, <2>3, <2>4
<1>2. ASSUME NEW p \in Publishers, SendFrame(p)
      PROVE  Published' = Published /\ ids' = ids /\ \A i \in 1 .. Len(chan) : chan'[i] = chan[i]
  BY <1>2, SendCarries, SendResult DEF SendFrame
<1>3. ASSUME CommitRows \/ RunningSession \/ EndSession
      PROVE  Published' = Published /\ ids' = ids /\ chan' = chan
  <2>1. UNCHANGED <<held, chan, ids>>
    BY <1>3, PatchMoves DEF CommitRows, bus
  <2> QED BY <2>1, CarriedStays
<1> QED BY <1>0, <1>1, <1>2, <1>3 DEF ServerStep

(* What a published event is.                                                    *)
LEMMA PublishedTypes ==
  ASSUME StreamTypeOK, RowsPublished
  PROVE  \A f \in Published : f \in Frame /\ f.kind = "event" /\ f.id \in Nat /\ f.id > 0
          /\ f.id <= ids /\ f.seq \in 1 .. maxSeq
BY ChanTypes, FrameTypes DEF RowsPublished, Published

(* A row whose frame the receiver is past does not come again.                   *)
LEMMA TakenIsNotAhead ==
  ASSUME StreamTypeOK, RowsPublished, EventsInOrder, NEW i \in 1 .. pos, chan[i].kind = "event"
  PROVE  chan[i].seq \notin Ahead
<1>1. Len(chan) \in Nat /\ DOMAIN chan = 1 .. Len(chan) /\ pos \in 0 .. Len(chan) /\ i \in 1 .. Len(chan)
  BY ChanTypes
<1>2. chan[i] \in Published /\ chan[i].seq \in Int
  <2>1. chan[i] \in Published
    BY <1>1 DEF Published, Carried
  <2> QED BY <2>1, PublishedTypes
<1>3. \A q \in Queued : chan[i].seq < q
  BY <1>2 DEF RowsPublished, Queued
<1>4. \A q \in HeldBack : chan[i].seq < q
  BY <1>1 DEF EventsInOrder, HeldBack
<1>5. \A q \in Coming : chan[i].seq < q
  <2> TAKE q \in Coming
  <2>1. PICK j \in pos + 1 .. Len(chan) : chan[j].kind = "event" /\ q = chan[j].seq
    BY DEF Coming
  <2>2. j \in DOMAIN chan /\ i \in DOMAIN chan /\ i < j
    BY <1>1
  <2> QED BY <2>1, <2>2 DEF EventsInOrder
<1> QED BY <1>2, <1>3, <1>4, <1>5 DEF Ahead

(* The first frame to replay.                                                        *)
LEMMA ReplayHead ==
  ASSUME StreamTypeOK, RowsPublished, ReplayIsRun, replay # <<>>
  PROVE  /\ Head(replay) = replay[1] /\ replay[1] \in Frame /\ replay[1].id = First + 1 /\ First \in Nat
         /\ First + 1 <= ids /\ First + Len(replay) <= ids /\ Len(replay) \in Nat \ {0}
         /\ DOMAIN replay = 1 .. Len(replay)
         /\ replay[1].kind = "event" => replay[1] \in Published
         /\ Tail(replay) \in Seq(Frame) /\ Len(Tail(replay)) = Len(replay) - 1
         /\ DOMAIN Tail(replay) = 1 .. Len(replay) - 1
         /\ \A i \in 1 .. Len(replay) - 1 : Tail(replay)[i] = replay[i + 1]
         /\ replay[1].kind # "event" => \A g \in Published : g.id <= First + 1 => g.id <= First
<1>1. replay \in Seq(Frame) /\ Len(replay) \in Nat /\ Len(replay) # 0 /\ DOMAIN replay = 1 .. Len(replay)
  BY DEF StreamTypeOK
<1>2. /\ Head(replay) = replay[1] /\ replay[1] \in Frame
      /\ Tail(replay) \in Seq(Frame) /\ Len(Tail(replay)) = Len(replay) - 1
      /\ DOMAIN Tail(replay) = 1 .. Len(replay) - 1
      /\ \A i \in 1 .. Len(replay) - 1 : Tail(replay)[i] = replay[i + 1]
  BY <1>1
<1>3. First \in Nat /\ replay[1].id = First + 1 /\ First + Len(replay) <= ids /\ ids \in Nat
  BY <1>2, FrameTypes DEF ReplayIsRun, First, StreamTypeOK
<1>4. replay[1].kind = "event" => replay[1] \in Published
  BY <1>1 DEF ReplayIsRun, Run
<1>5. ASSUME replay[1].kind # "event", NEW g \in Published, g.id <= First + 1 PROVE g.id <= First
  <2>1. g.id \in Nat /\ g.kind = "event"
    BY PublishedTypes
  <2>2. CASE g.id = First + 1
    <3>1. First < g.id /\ g.id <= First + Len(replay) /\ g.id - First = 1
      BY <1>1, <1>3, <2>2
    <3>2. replay[1] = g
      BY <3>1 DEF ReplayIsRun, Run
    <3> QED BY <1>5, <2>1, <3>2
  <2> QED BY <1>3, <1>5, <2>1, <2>2
<1> QED BY <1>1, <1>2, <1>3, <1>4, <1>5

(* What ReadRing takes from a ring that knows the client's last id.                  *)
LEMMA ReplayResult ==
  ASSUME StreamTypeOK, StreamTypeOK', RingIsRun', UNCHANGED <<setting, ids, held, chan>>, Known(ring')
  PROVE  /\ After(ring') \in Seq(Frame) /\ Len(After(ring')) = ids - lastId
         /\ DOMAIN After(ring') = 1 .. ids - lastId
         /\ lastId \in 0 .. ids
         /\ \A j \in 1 .. ids - lastId :
              /\ After(ring')[j].id = lastId + j
              /\ After(ring')[j].kind = "event" => After(ring')[j] \in Published
         /\ \A f \in Published : (f.id \in Nat /\ lastId < f.id /\ f.id <= ids) => After(ring')[f.id - lastId] = f
<1> DEFINE r == ring'
           from == ids - Len(r)
           at == CHOOSE i \in DOMAIN r : r[i].id = lastId
<1>1. r \in Seq(Frame) /\ Len(r) \in Nat /\ DOMAIN r = 1 .. Len(r) /\ ids \in Nat /\ lastId \in Nat
  <2>1. ring' \in Seq(Frame)
    BY DEF StreamTypeOK, Frame, MaxOther
  <2> QED BY <2>1 DEF StreamTypeOK
<1>2. Published' = Published
  BY CarriedStays
<1>3. /\ \A i \in 1 .. Len(r) : r[i].id = from + i
      /\ \A i \in 1 .. Len(r) : r[i].kind = "event" => r[i] \in Published
      /\ \A f \in Published : (from < f.id /\ f.id <= from + Len(r)) => r[f.id - from] = f
      /\ Len(r) <= ids
  BY <1>1, <1>2 DEF RingIsRun, Run
<1>4. at \in 1 .. Len(r) /\ r[at].id = lastId
  BY <1>1 DEF Known
<1>5. After(r) = SubSeq(r, at + 1, Len(r))
  BY DEF After
<1> HIDE DEF at, r
<1>6. at = lastId - from /\ lastId \in 0 .. ids
  <2>1. r[at].id = from + at
    BY <1>3, <1>4
  <2>2. lastId = ids - Len(r) + at /\ at \in Nat /\ 1 <= at /\ at <= Len(r) /\ Len(r) <= ids
    BY <1>1, <1>3, <1>4, <2>1
  <2> HIDE DEF from
  <2>3. from = ids - Len(r)
    BY DEF from
  <2> QED BY <1>1, <2>2, <2>3
<1>7. /\ After(r) \in Seq(Frame) /\ Len(After(r)) = Len(r) - at
      /\ \A j \in 1 .. Len(r) - at : After(r)[j] = r[at + j]
  <2> DEFINE k == at + 1
             s == SubSeq(r, k, Len(r))
  <2>1. k \in 1 .. Len(r) + 1 /\ k \in Nat /\ k = at + 1
    BY <1>1, <1>4
  <2> HIDE DEF k
  <2>2. s \in Seq(Frame) /\ Len(s) = Len(r) - k + 1 /\ \A j \in 1 .. Len(s) : s[j] = r[k + j - 1]
    BY <1>1, <2>1
  <2>3. Len(r) - k + 1 = Len(r) - at /\ \A j \in 1 .. Len(r) - at : k + j - 1 = at + j
    BY <1>1, <1>4, <2>1
  <2> HIDE DEF s
  <2>4. After(r) = s
    BY <1>5 DEF k, s
  <2> QED BY <2>2, <2>3, <2>4
<1>8. Len(r) - at = ids - lastId
  BY <1>1, <1>6
<1>9. ASSUME NEW j \in 1 .. ids - lastId
      PROVE  After(r)[j].id = lastId + j /\ (After(r)[j].kind = "event" => After(r)[j] \in Published)
  <2>1. at + j \in 1 .. Len(r)
    BY <1>1, <1>4, <1>8
  <2>2. After(r)[j] = r[at + j]
    BY <1>7, <1>8
  <2>3. r[at + j].id = from + (at + j)
    BY <1>3, <2>1
  <2>4. from + (at + j) = lastId + j
    BY <1>1, <1>6
  <2> QED BY <1>3, <2>1, <2>2, <2>3, <2>4
<1>10. ASSUME NEW f \in Published, f.id \in Nat, lastId < f.id, f.id <= ids PROVE After(r)[f.id - lastId] = f
  <2>1. f.id - lastId \in 1 .. Len(r) - at
    BY <1>1, <1>8, <1>10
  <2>2. After(r)[f.id - lastId] = r[at + (f.id - lastId)]
    BY <1>7, <2>1
  <2>3. at + (f.id - lastId) = f.id - from
    BY <1>1, <1>6, <1>10
  <2>4. from < f.id /\ f.id <= from + Len(r)
    BY <1>1, <1>4, <1>6, <1>10
  <2> QED BY <1>3, <2>2, <2>3, <2>4
<1> QED BY <1>6, <1>7, <1>8, <1>9, <1>10 DEF r

(* What is lost to a client stays lost.                                          *)
LEMMA LostGrows ==
  ASSUME StreamTypeOK, RowsPublished, [StreamNext]_streamVars
  PROVE  Lost \subseteq Lost'
<1>1. CASE ServerStep
  BY <1>1, ServerMoves DEF ServerStep, Lost
<1>2. CASE ClientStep
  <2>1. UNCHANGED <<unpublished, passed>> /\ outOfReach \subseteq outOfReach'
    BY <1>2 DEF ClientStep, Subscribe, FetchHistory, ReadRing, EmitRow, EmitReplay, EmitLive, EmitReset, Finish,
                Open, Disconnect, server, history
  <2> QED BY <2>1 DEF Lost
<1>3. CASE UNCHANGED streamVars
  BY <1>3 DEF streamVars, server, history, Lost
<1> QED BY <1>1, <1>2, <1>3, StepKinds

(* A step of the client leaves the publishers alone.                                 *)
LEMMA ClientKeeps ==
  ASSUME ClientStep \/ UNCHANGED streamVars
  PROVE  /\ UNCHANGED <<maxSeq, unpublished, todo, held, ids, chan>>
         /\ Carried' = Carried /\ Published' = Published /\ Queued' = Queued
<1>1. UNCHANGED <<maxSeq, unpublished, todo, held, ids, chan>>
  BY DEF ClientStep, Subscribe, FetchHistory, ReadRing, EmitRow, EmitReplay, EmitLive, EmitReset, Finish,
         Open, Disconnect, server, bus, streamVars
<1> QED BY <1>1, CarriedStays DEF Queued

(* An event of the client's stream: it has it then, and all before it.               *)
LEMMA Received ==
  ASSUME StreamTypeOK, RowsPublished, EventsInOrder, NEW f \in Published, Receive(f.seq), last <= maxSeq
  PROVE  /\ synced' = TRUE /\ last' \in Nat /\ last' <= maxSeq /\ f.seq <= last'
         /\ (synced => last <= last') /\ (~synced => last' = f.seq)
         /\ \A g \in Published : g.id <= f.id => g.seq <= last'
<1>1. f.seq \in 1 .. maxSeq /\ last \in Nat /\ maxSeq \in Nat /\ synced \in BOOLEAN /\ f.id \in Nat
  BY SettingTypes, PublishedTypes DEF StreamTypeOK
<1>2. /\ synced' = TRUE /\ last' \in Nat /\ last' <= maxSeq /\ f.seq <= last'
      /\ (synced => last <= last') /\ (~synced => last' = f.seq)
  BY <1>1 DEF Receive
<1>3. ASSUME NEW g \in Published, g.id <= f.id PROVE g.seq <= last'
  <2>1. g.id \in Nat /\ g.seq \in Nat
    BY <1>1, PublishedTypes
  <2>2. g = f \/ (g.id < f.id /\ g.seq < f.seq) \/ (f.id < g.id /\ f.seq < g.seq)
    BY DEF EventsInOrder
  <2> QED BY <1>1, <1>2, <1>3, <2>1, <2>2
<1> QED BY <1>2, <1>3

(* A frame that is not an event, in the channel next: the events before it have come, *)
(* or it has overtaken them.                                                         *)
LEMMA LiveFrameIsNext ==
  ASSUME StreamTypeOK, RowsPublished, EventsInOrder, OvertakenIsPassed, PlainInv,
         Mode = "plain", Live, synced, pos < Len(chan), chan[pos + 1].kind # "event",
         NEW g \in Published, g.id <= chan[pos + 1].id
  PROVE  g.seq <= last \/ g.seq \in Lost
<1> DEFINE f == chan[pos + 1]
<1>1. /\ Len(chan) \in Nat /\ DOMAIN chan = 1 .. Len(chan) /\ pos \in 0 .. Len(chan)
      /\ pos + 1 \in 1 .. Len(chan) /\ f \in Frame /\ f \in Carried
  BY ChanTypes DEF Carried
<1>2. g.kind = "event" /\ g.id \in Nat /\ g.seq \in 1 .. maxSeq /\ f.id \in Nat /\ maxSeq \in Nat /\ last \in Nat
  BY <1>1, PublishedTypes, FrameTypes, SettingTypes DEF StreamTypeOK
<1>3. g.id < f.id
  BY <1>1, <1>2 DEF EventsInOrder
<1>4. CASE \E p \in Publishers : g = held[p]
  BY <1>1, <1>2, <1>3, <1>4 DEF OvertakenIsPassed, Lost
<1>5. ASSUME NEW i \in 1 .. Len(chan), g = chan[i] PROVE g.seq <= last \/ g.seq \in Lost
  <2>1. CASE i > pos
    <3>1. pos + 1 < i
      <4>1. i # pos + 1
        BY <1>2, <1>5
      <4> QED BY <1>1, <2>1, <4>1
    <3> QED BY <1>1, <1>2, <1>3, <1>5, <3>1 DEF OvertakenIsPassed, Lost
  <2>2. CASE i <= pos
    <3>1. g.seq \notin Ahead
      <4>1. i \in 1 .. pos
        BY <1>1, <2>2
      <4> QED BY <1>2, <1>5, <4>1, TakenIsNotAhead
    <3>2. Replayed = {} /\ phase = "streaming"
      BY DEF Live, Replayed
    <3>3. g.seq \in last + 1 .. maxSeq => g.seq \in Lost \cup Ahead \cup Replayed
      BY <3>2 DEF PlainInv
    <3> QED BY <1>2, <3>1, <3>2, <3>3
  <2> QED BY <1>1, <2>1, <2>2
<1> QED BY <1>1, <1>4, <1>5 DEF Published, Carried

(* Every step keeps HasUpToLastId.                                               *)
LEMMA HasUpStep ==
  ASSUME StreamTypeOK, RowsPublished, EventsInOrder, OvertakenIsPassed, HasUpToLastId, ReplayIsRun, PlainInv,
         [StreamNext]_streamVars
  PROVE  HasUpToLastId'
<1>0. /\ setting' = setting /\ Lost \subseteq Lost' /\ maxSeq \in Nat /\ last \in Nat /\ ids \in Nat /\ lastId \in Nat
  <2>1. setting' = setting
    BY StepKinds
  <2>2. Lost \subseteq Lost'
    BY LostGrows
  <2> QED BY <2>1, <2>2, SettingTypes DEF StreamTypeOK
<1> SUFFICES ASSUME Mode = "plain"
             PROVE  HasUpToLastId'
  BY <1>0 DEF HasUpToLastId, Mode
<1>01. /\ Mode' = "plain" /\ lastId <= ids /\ (synced => lastId > 0) /\ hist = {} /\ last <= maxSeq
       /\ synced => \A f \in Published : f.id <= lastId => f.seq <= last \/ f.seq \in Lost
  BY <1>0 DEF Mode, HasUpToLastId
<1>1. CASE ServerStep
  <2>1. UNCHANGED <<hist, lastId, last, synced>> /\ maxSeq' \in Nat /\ maxSeq <= maxSeq'
    BY <1>1, ServerMoves DEF ServerStep, request, view
  <2>2. /\ \A f \in Published' : f \in Published \/ f.id = ids + 1
        /\ ids' \in Nat /\ ids <= ids'
    BY <1>1, ServerPublishes
  <2>3. ASSUME synced, NEW f \in Published', f.id <= lastId PROVE f.seq <= last \/ f.seq \in Lost'
    <3>1. CASE f \in Published
      BY <1>0, <1>01, <2>3, <3>1
    <3>2. CASE f.id = ids + 1
      <4>1. FALSE
        BY <1>0, <1>01, <2>3, <3>2
      <4> QED BY <4>1
    <3> QED BY <2>2, <3>1, <3>2
  <2> QED BY <1>0, <1>01, <2>1, <2>2, <2>3 DEF HasUpToLastId
<1>2. CASE ClientStep /\ UNCHANGED <<hist, view>>
  BY <1>0, <1>01, <1>2, ClientKeeps DEF HasUpToLastId, view
<1>3. CASE EmitReplay
  <2> DEFINE f == replay[1]
  <2>1. replay # <<>> /\ UNCHANGED hist /\ (IF f.kind = "other" THEN UNCHANGED view ELSE Emit(f))
    <3>1. Head(replay) = replay[1]
      BY <1>3 DEF EmitReplay, StreamTypeOK
    <3> QED BY <1>3, <3>1 DEF EmitReplay
  <2>2. /\ f.id = First + 1 /\ First \in Nat /\ First + 1 <= ids
        /\ f.kind = "event" => f \in Published
        /\ f.kind # "event" => \A g \in Published : g.id <= First + 1 => g.id <= First
    BY <2>1, ReplayHead
  <2>3. UNCHANGED <<maxSeq, ids>> /\ Published' = Published
    BY <1>3, ClientKeeps DEF ClientStep
  <2>4. CASE f.kind = "other"
    BY <1>2, <1>3, <2>1, <2>4 DEF ClientStep
  <2>5. CASE f.kind = "event"
    <3>1. lastId' = f.id /\ Receive(f.seq)
      BY <2>1, <2>5 DEF Emit
    <3>2. /\ last' <= maxSeq /\ \A g \in Published : g.id <= f.id => g.seq <= last'
      BY <1>01, <2>2, <2>5, <3>1, Received
    <3> QED BY <1>0, <1>01, <2>1, <2>2, <2>3, <3>1, <3>2 DEF HasUpToLastId
  <2>6. CASE f.kind # "event" /\ f.kind # "other"
    <3>1. lastId' = f.id /\ UNCHANGED <<last, synced>>
      BY <2>1, <2>6 DEF Emit
    <3>2. synced => \A g \in Published : g.id <= First => g.seq <= last \/ g.seq \in Lost
      BY <2>1 DEF ReplayIsRun
    <3> QED BY <1>0, <1>01, <2>1, <2>2, <2>3, <2>6, <3>1, <3>2 DEF HasUpToLastId
  <2> QED BY <2>4, <2>5, <2>6
<1>4. CASE EmitLive
  <2> DEFINE f == chan[pos + 1]
  <2>1. /\ Live /\ pos < Len(chan) /\ pos' = pos + 1 /\ UNCHANGED <<hist, todo, bus>>
        /\ UNCHANGED view \/ (f.kind # "other" /\ Emit(f))
    BY <1>4 DEF EmitLive, server
  <2>2. UNCHANGED <<maxSeq, ids>> /\ Published' = Published
    BY <1>4, ClientKeeps DEF ClientStep
  <2>3. f \in Frame /\ f.id \in Nat /\ f.id <= ids
    <3>1. pos + 1 \in 1 .. Len(chan) /\ pos + 1 \in DOMAIN chan
      BY <2>1, ChanTypes
    <3>2. f \in Frame /\ f \in Carried
      BY <3>1, ChanTypes DEF Carried
    <3> QED BY <3>2, FrameTypes DEF RowsPublished
  <2>4. CASE UNCHANGED view
    BY <1>2, <1>4, <2>1, <2>4 DEF ClientStep
  <2>5. CASE f.kind = "event" /\ Emit(f)
    <3>1. lastId' = f.id /\ Receive(f.seq)
      BY <2>5 DEF Emit
    <3>2. f \in Published
      BY <2>1, <2>5, LiveMoves
    <3>3. f.id > 0
      BY <3>2, PublishedTypes
    <3>4. /\ last' <= maxSeq /\ \A g \in Published : g.id <= f.id => g.seq <= last'
      BY <1>01, <3>1, <3>2, Received
    <3> QED BY <1>0, <1>01, <2>1, <2>2, <2>3, <3>1, <3>3, <3>4 DEF HasUpToLastId
  <2>6. CASE f.kind # "event" /\ Emit(f)
    <3>1. lastId' = f.id /\ UNCHANGED <<last, synced>>
      BY <2>6 DEF Emit
    <3>2. synced => \A g \in Published : g.id <= f.id => g.seq <= last \/ g.seq \in Lost
      BY <2>1, <2>6, LiveFrameIsNext
    <3>3. f.id > 0
      <4>1. pos + 1 \in DOMAIN chan
        BY <2>1, ChanTypes
      <4> QED BY <4>1 DEF RowsPublished
    <3> QED BY <1>0, <1>01, <2>1, <2>2, <2>3, <3>1, <3>2, <3>3 DEF HasUpToLastId
  <2> QED BY <2>1, <2>4, <2>5, <2>6
<1>5. CASE EmitReset
  <2>1. synced' = FALSE /\ last' = 0 /\ lastId' = 0 /\ UNCHANGED hist
    BY <1>5 DEF EmitReset
  <2>2. UNCHANGED <<maxSeq, ids>>
    BY <1>5, ClientKeeps DEF ClientStep
  <2> QED BY <1>0, <1>01, <2>1, <2>2 DEF HasUpToLastId
<1>6. CASE Disconnect \/ Finish \/ Open \/ Subscribe \/ ReadRing
  <2>1. UNCHANGED view /\ hist' = hist
    BY <1>01, <1>6 DEF Disconnect, Finish, Open, Subscribe, ReadRing
  <2> QED BY <1>2, <1>6, <2>1 DEF ClientStep
<1>7. CASE FetchHistory \/ EmitRow
  BY <1>01, <1>7 DEF FetchHistory, EmitRow
<1>8. CASE UNCHANGED streamVars
  BY <1>0, <1>01, <1>8, ClientKeeps DEF HasUpToLastId, streamVars, view, request
<1> QED BY <1>1, <1>3, <1>4, <1>5, <1>6, <1>7, <1>8, StepKinds DEF ClientStep

(* Every step keeps ReplayIsRun.                                                 *)
LEMMA ReplayStep ==
  ASSUME StreamTypeOK, StreamTypeOK', RowsPublished, EventsInOrder, RingIsRun', HasUpToLastId, ReplayIsRun,
         [StreamNext]_streamVars
  PROVE  ReplayIsRun'
<1>0. /\ setting' = setting /\ Lost \subseteq Lost' /\ maxSeq \in Nat /\ last \in Nat /\ ids \in Nat
      /\ lastId \in Nat /\ synced \in BOOLEAN
  <2>1. setting' = setting
    BY StepKinds
  <2>2. Lost \subseteq Lost'
    BY LostGrows
  <2> QED BY <2>1, <2>2, SettingTypes DEF StreamTypeOK
<1>01. /\ Mode' = Mode
       /\ (phase # "streaming" \/ Mode = "join") => replay = <<>>
       /\ Mode \in {"join", "plain"}
  BY <1>0, SettingTypes DEF ReplayIsRun, Mode
<1>1. CASE ServerStep
  <2>1. UNCHANGED <<phase, pos, replay, last, synced>>
    BY <1>1, ServerMoves DEF ServerStep, request, view
  <2>2. /\ Published \subseteq Published' /\ \A f \in Published' : f \in Published \/ f.id = ids + 1
        /\ ids' \in Nat /\ ids <= ids' /\ \A i \in 1 .. Len(chan) : chan'[i] = chan[i]
    BY <1>1, ServerPublishes
  <2>3. First' = First
    BY <2>1 DEF First
  <2>4. ASSUME replay # <<>>
        PROVE  /\ First >= 0 /\ First + Len(replay) <= ids'
               /\ Run(replay, First)'
               /\ \A i \in 1 .. pos : chan'[i].kind = "event" => chan'[i].id <= First + Len(replay)
               /\ synced => \A f \in Published' : f.id <= First => f.seq <= last \/ f.seq \in Lost'
    <3>1. First \in Nat /\ Len(replay) \in Nat /\ First + Len(replay) <= ids /\ First + 1 <= ids
      BY <2>4, ReplayHead
    <3>2. \A f \in Published' : f.id <= First + Len(replay) \/ f.id <= First => f \in Published
      BY <1>0, <2>2, <3>1
    <3>3. Run(replay, First)'
      <4>1. \A i \in DOMAIN replay : replay[i].id = First + i
        BY <2>4 DEF ReplayIsRun, Run
      <4>2. \A i \in DOMAIN replay : replay[i].kind = "event" => replay[i] \in Published'
        BY <2>2, <2>4 DEF ReplayIsRun, Run
      <4>3. \A f \in Published' : (First < f.id /\ f.id <= First + Len(replay)) => replay[f.id - First] = f
        BY <2>4, <3>2 DEF ReplayIsRun, Run
      <4> QED BY <2>1, <2>3, <4>1, <4>2, <4>3 DEF Run
    <3>4. \A i \in 1 .. pos : chan'[i].kind = "event" => chan'[i].id <= First + Len(replay)
      <4>1. \A i \in 1 .. pos : chan'[i] = chan[i]
        BY <2>2, ChanTypes
      <4> QED BY <2>4, <4>1 DEF ReplayIsRun
    <3>5. synced => \A f \in Published' : f.id <= First => f.seq <= last \/ f.seq \in Lost'
      BY <1>0, <2>4, <3>2 DEF ReplayIsRun
    <3> QED BY <1>0, <2>2, <3>1, <3>3, <3>4, <3>5
  <2> QED BY <1>01, <2>1, <2>3, <2>4 DEF ReplayIsRun
<1>2. CASE ClientStep /\ replay' = <<>>
  BY <1>2 DEF ReplayIsRun
<1>3. CASE ReadRing
  <2>1. /\ UNCHANGED <<setting, ids, held, chan, pos, last, lastId, synced>> /\ Mode = "plain" /\ phase' = "streaming"
        /\ \/ replay' = <<>>
           \/ lastId # 0 /\ Known(ring') /\ replay' = After(ring')
    BY <1>0, <1>3 DEF ReadRing, view
  <2>2. CASE replay' = <<>>
    BY <1>2, <1>3, <2>2 DEF ClientStep
  <2>3. CASE lastId # 0 /\ Known(ring') /\ replay' = After(ring') /\ replay' # <<>>
    <3>1. /\ replay' \in Seq(Frame) /\ Len(replay') = ids - lastId
          /\ DOMAIN replay' = 1 .. ids - lastId
          /\ lastId \in 0 .. ids
          /\ \A j \in 1 .. ids - lastId :
               /\ replay'[j].id = lastId + j
               /\ replay'[j].kind = "event" => replay'[j] \in Published
          /\ \A f \in Published : (f.id \in Nat /\ lastId < f.id /\ f.id <= ids) => replay'[f.id - lastId] = f
      BY <2>1, <2>3, ReplayResult
    <3>2. Published' = Published
      BY <1>3, ClientKeeps DEF ClientStep
    <3>3. First' = lastId
      <4>1. 1 \in 1 .. ids - lastId
        BY <1>0, <2>3, <3>1
      <4>2. replay'[1].id = lastId + 1
        BY <3>1, <4>1
      <4> QED BY <1>0, <4>2 DEF First
    <3>4. lastId + Len(replay') = ids
      BY <1>0, <3>1
    <3>5. Run(replay, First)'
      <4>1. \A f \in Published : (lastId < f.id /\ f.id <= ids) => replay'[f.id - lastId] = f
        BY <3>1, PublishedTypes
      <4> QED BY <3>1, <3>2, <3>3, <3>4, <4>1 DEF Run
    <3>6. \A i \in 1 .. pos : chan[i].id <= ids
      BY ChanTypes DEF RowsPublished, Carried
    <3>7. synced => \A f \in Published : f.id <= lastId => f.seq <= last \/ f.seq \in Lost'
      BY <1>0, <2>1 DEF HasUpToLastId
    <3> QED BY <1>0, <1>01, <2>1, <3>1, <3>2, <3>3, <3>4, <3>5, <3>6, <3>7 DEF ReplayIsRun
  <2> QED BY <2>1, <2>2, <2>3
<1>4. CASE EmitReplay
  <2> DEFINE f == replay[1]
             t == Tail(replay)
  <2>1. /\ replay # <<>> /\ replay' = t /\ phase = "streaming" /\ UNCHANGED <<phase, pos>>
        /\ IF Head(replay).kind = "other" THEN UNCHANGED view ELSE Emit(Head(replay))
    BY <1>4 DEF EmitReplay
  <2>2. /\ Head(replay) = replay[1]
        /\ f.id = First + 1 /\ First \in Nat /\ First + 1 <= ids /\ First + Len(replay) <= ids
        /\ Len(replay) \in Nat \ {0} /\ DOMAIN replay = 1 .. Len(replay)
        /\ f.kind = "event" => f \in Published
        /\ f.kind # "event" => \A g \in Published : g.id <= First + 1 => g.id <= First
        /\ Len(t) = Len(replay) - 1 /\ DOMAIN t = 1 .. Len(replay) - 1
        /\ \A i \in 1 .. Len(replay) - 1 : t[i] = replay[i + 1]
    BY <2>1, ReplayHead
  <2>3. UNCHANGED <<maxSeq, ids, chan>> /\ Published' = Published
    BY <1>4, ClientKeeps DEF ClientStep
  <2>4. Mode = "plain"
    BY <1>01, <2>1
  <2> HIDE DEF t
  <2>5. ASSUME t # <<>>
        PROVE  First' = First + 1 /\ First' + Len(t) = First + Len(replay)
    <3>1. 1 \in 1 .. Len(replay) - 1
      <4>1. t \in Seq(Frame)
        BY <2>1, ReplayHead DEF t
      <4> QED BY <2>2, <2>5, <4>1
    <3>2. t[1] = replay[2]
      BY <2>2, <3>1
    <3>3. replay[2].id = First + 2
      BY <2>1, <2>2, <3>1 DEF ReplayIsRun, Run
    <3>4. First' = First + 1
      BY <2>1, <2>2, <3>2, <3>3 DEF First
    <3> QED BY <2>2, <3>4
  <2>6. ASSUME NEW i \in 1 .. Len(replay) - 1
        PROVE  t[i].id = First + 1 + i /\ (t[i].kind = "event" => t[i] \in Published)
    <3>1. i + 1 \in DOMAIN replay /\ t[i] = replay[i + 1]
      BY <2>2
    <3>2. replay[i + 1].id = First + (i + 1) /\ (replay[i + 1].kind = "event" => replay[i + 1] \in Published)
      BY <2>1, <3>1 DEF ReplayIsRun, Run
    <3> QED BY <2>2, <3>1, <3>2
  <2>7. ASSUME NEW g \in Published, First + 1 < g.id, g.id <= First + Len(replay)
        PROVE  t[g.id - (First + 1)] = g
    <3>1. g.id \in Nat
      BY PublishedTypes
    <3>2. replay[g.id - First] = g
      <4>1. First < g.id
        BY <2>2, <2>7, <3>1
      <4> QED BY <2>1, <2>7, <4>1 DEF ReplayIsRun, Run
    <3>3. g.id - (First + 1) \in 1 .. Len(replay) - 1 /\ (g.id - (First + 1)) + 1 = g.id - First
      BY <2>2, <2>7, <3>1
    <3> QED BY <2>2, <3>2, <3>3
  <2>8. synced' => \A g \in Published : g.id <= First + 1 => g.seq <= last' \/ g.seq \in Lost'
    <3>1. CASE f.kind = "event"
      <4>1. Receive(f.seq)
        BY <2>1, <2>2, <3>1 DEF Emit
      <4>2. last <= maxSeq
        BY <2>4 DEF HasUpToLastId
      <4> QED BY <2>2, <3>1, <4>1, <4>2, Received
    <3>2. CASE f.kind # "event"
      <4>1. UNCHANGED <<last, synced>>
        BY <2>1, <2>2, <3>2 DEF Emit, view
      <4>2. synced => \A g \in Published : g.id <= First => g.seq <= last \/ g.seq \in Lost
        BY <2>1 DEF ReplayIsRun
      <4> QED BY <1>0, <2>2, <3>2, <4>1, <4>2
    <3> QED BY <3>1, <3>2
  <2>9. \A i \in 1 .. pos : chan[i].kind = "event" => chan[i].id <= First + Len(replay)
    BY <2>1 DEF ReplayIsRun
  <2>10. ASSUME t # <<>>
         PROVE  /\ First' >= 0 /\ First' + Len(replay') <= ids'
                /\ Run(replay, First)'
                /\ \A i \in 1 .. pos' : chan'[i].kind = "event" => chan'[i].id <= First' + Len(replay')
                /\ synced' => \A g \in Published' : g.id <= First' => g.seq <= last' \/ g.seq \in Lost'
    <3>1. First' = First + 1 /\ First' + Len(t) = First + Len(replay)
      BY <2>5, <2>10
    <3>2. Run(replay, First)'
      BY <2>1, <2>2, <2>3, <2>6, <2>7, <3>1 DEF Run
    <3> QED BY <2>1, <2>2, <2>3, <2>8, <2>9, <3>1, <3>2
  <2> QED BY <1>01, <2>1, <2>4, <2>10 DEF ReplayIsRun
<1>5. CASE Disconnect \/ Finish \/ EmitReset \/ EmitLive
  <2>1. replay' = <<>>
    BY <1>5 DEF Disconnect, Finish, EmitReset, EmitLive, Live
  <2> QED BY <1>2, <1>5, <2>1 DEF ClientStep
<1>6. CASE Open \/ Subscribe \/ FetchHistory
  <2>1. replay' = replay /\ (phase # "streaming" \/ Mode = "join")
    BY <1>6 DEF Open, Subscribe, FetchHistory
  <2> QED BY <1>01, <1>2, <1>6, <2>1 DEF ClientStep
<1>7. CASE EmitRow
  <2>1. hist # {} /\ replay' = replay
    BY <1>7 DEF EmitRow
  <2>2. Mode = "join"
    BY <1>01, <2>1 DEF HasUpToLastId
  <2> QED BY <1>01, <1>2, <1>7, <2>1, <2>2 DEF ClientStep
<1>8. CASE UNCHANGED streamVars
  <2>1. UNCHANGED <<phase, pos, replay, last, synced, chan, ids>> /\ Published' = Published
    BY <1>8, ClientKeeps DEF streamVars, request, view
  <2> QED BY <1>0, <1>01, <2>1 DEF ReplayIsRun, Run, First
<1> QED BY <1>1, <1>3, <1>4, <1>5, <1>6, <1>7, <1>8, StepKinds DEF ClientStep

(* Every step keeps PlainInv.                                                    *)
LEMMA PlainStep ==
  ASSUME StreamTypeOK, StreamTypeOK', RowsPublished, EventsInOrder, RingIsRun', HasUpToLastId, ReplayIsRun,
         PlainInv, [StreamNext]_streamVars
  PROVE  PlainInv'
<1>0. /\ setting' = setting /\ Lost \subseteq Lost' /\ maxSeq \in Nat /\ last \in Nat /\ ids \in Nat
      /\ lastId \in Nat /\ synced \in BOOLEAN
  <2>1. setting' = setting
    BY StepKinds
  <2>2. Lost \subseteq Lost'
    BY LostGrows
  <2> QED BY <2>1, <2>2, SettingTypes DEF StreamTypeOK
<1> SUFFICES ASSUME Mode = "plain"
             PROVE  PlainInv'
  BY <1>0 DEF PlainInv, Mode
<1>01. /\ Mode' = "plain" /\ missed \subseteq Lost /\ missed \subseteq Lost' /\ hist = {} /\ last <= maxSeq
       /\ (phase = "streaming" /\ synced) => \A q \in last + 1 .. maxSeq : q \in Lost \cup Ahead \cup Replayed
  BY <1>0 DEF Mode, HasUpToLastId, PlainInv
<1>1. CASE ServerStep
  <2>1. /\ UNCHANGED <<request, view>>
        /\ maxSeq' \in Nat /\ maxSeq <= maxSeq' /\ unpublished \subseteq unpublished'
        /\ Ahead \subseteq Ahead'
        /\ \A q \in maxSeq + 1 .. maxSeq' : q \in unpublished' \/ q \in Ahead'
    BY <1>1, ServerMoves DEF ServerStep
  <2>2. UNCHANGED <<phase, replay, last, synced, missed>> /\ Replayed' = Replayed
    BY <2>1 DEF request, view, Replayed
  <2>3. ASSUME phase = "streaming", synced, NEW q \in last + 1 .. maxSeq'
        PROVE  q \in Lost' \cup Ahead' \cup Replayed
    <3>1. q \in last + 1 .. maxSeq \/ q \in maxSeq + 1 .. maxSeq'
      BY <1>0, <2>1
    <3> QED BY <1>0, <1>01, <2>1, <2>3, <3>1 DEF Lost
  <2> QED BY <1>01, <2>2, <2>3 DEF PlainInv
<1>2. CASE ClientStep /\ UNCHANGED missed /\ phase' # "streaming"
  BY <1>01, <1>2 DEF PlainInv
<1>3. CASE ReadRing
  <2>1. /\ UNCHANGED <<setting, ids, held, chan, pos, last, lastId, synced, missed>> /\ phase' = "streaming"
        /\ \/ lastId = 0
           \/ lastId # 0 /\ Known(ring') /\ replay' = After(ring')
           \/ lastId # 0 /\ RowsSent(pos) \subseteq outOfReach'
    BY <1>0, <1>3 DEF ReadRing, view
  <2>2. UNCHANGED <<maxSeq, todo, unpublished>> /\ Ahead' = Ahead
    <3>1. UNCHANGED <<maxSeq, todo, unpublished>>
      BY <1>3, ClientKeeps DEF ClientStep
    <3> QED BY <2>1, <3>1 DEF Ahead, Queued, HeldBack, Coming
  <2>3. ASSUME synced, NEW q \in last + 1 .. maxSeq PROVE q \in Lost' \cup Ahead \cup Replayed'
    <3>1. lastId # 0
      BY <2>3 DEF HasUpToLastId
    <3>2. q \in unpublished \/ q \in Queued \/ \E g \in Published : g.seq = q
      BY <1>0 DEF RowsPublished
    <3>3. ASSUME NEW g \in Published, g.seq = q PROVE q \in Lost' \cup Ahead \cup Replayed'
      <4>1. g.kind = "event" /\ g.id \in Nat /\ g.id <= ids
        BY PublishedTypes
      <4>2. CASE g.id <= lastId
        BY <1>0, <2>3, <3>3, <4>2 DEF HasUpToLastId
      <4>3. CASE lastId < g.id /\ Known(ring') /\ replay' = After(ring')
        <5>1. /\ DOMAIN replay' = 1 .. ids - lastId
              /\ replay'[g.id - lastId] = g
          BY <2>1, <4>1, <4>3, ReplayResult
        <5>2. g.id - lastId \in DOMAIN replay'
          BY <1>0, <4>1, <4>3, <5>1
        <5> QED BY <3>3, <4>1, <5>1, <5>2 DEF Replayed
      <4>4. CASE RowsSent(pos) \subseteq outOfReach'
        <5>1. ASSUME NEW i \in 1 .. pos, chan[i] = g PROVE q \in RowsSent(pos)
          BY <3>3, <4>1, <5>1 DEF RowsSent
        <5> QED BY <3>3, <4>4, <5>1, WhereEventsAre DEF Lost
      <4> QED BY <1>0, <2>1, <3>1, <4>1, <4>2, <4>3, <4>4
    <3> QED BY <1>0, <3>2, <3>3 DEF Lost, Ahead
  <2> QED BY <1>01, <2>1, <2>2, <2>3 DEF PlainInv
<1>4. CASE EmitReplay
  <2> DEFINE f == replay[1]
             t == Tail(replay)
  <2>1. /\ replay # <<>> /\ replay' = t /\ phase = "streaming" /\ UNCHANGED <<phase, pos, todo, held, chan, maxSeq>>
        /\ IF Head(replay).kind = "other" THEN UNCHANGED view ELSE Emit(Head(replay))
    BY <1>4, ClientKeeps DEF EmitReplay, ClientStep
  <2>2. /\ Head(replay) = replay[1]
        /\ f.id = First + 1 /\ First \in Nat /\ First + 1 <= ids /\ First + Len(replay) <= ids
        /\ Len(replay) \in Nat \ {0} /\ DOMAIN replay = 1 .. Len(replay)
        /\ f.kind = "event" => f \in Published
        /\ DOMAIN t = 1 .. Len(replay) - 1
        /\ \A i \in 1 .. Len(replay) - 1 : t[i] = replay[i + 1]
    BY <2>1, ReplayHead
  <2>3. Ahead' = Ahead
    BY <2>1 DEF Ahead, Queued, HeldBack, Coming
  <2> HIDE DEF t
  <2>4. Replayed \subseteq Replayed' \cup (IF f.kind = "event" THEN {f.seq} ELSE {})
    <3> SUFFICES ASSUME NEW q \in Replayed
                 PROVE  q \in Replayed' \/ (f.kind = "event" /\ q = f.seq)
      OBVIOUS
    <3>1. PICK i \in DOMAIN replay : replay[i].kind = "event" /\ q = replay[i].seq
      BY DEF Replayed
    <3>2. CASE i = 1
      BY <3>1, <3>2
    <3>3. CASE i # 1
      <4>1. i - 1 \in 1 .. Len(replay) - 1 /\ (i - 1) + 1 = i
        BY <2>2, <3>3
      <4>2. t[i - 1] = replay[i]
        BY <2>2, <4>1
      <4> QED BY <2>1, <2>2, <3>1, <4>1, <4>2 DEF Replayed
    <3> QED BY <3>2, <3>3
  <2>5. CASE f.kind # "event"
    <3>1. UNCHANGED <<last, synced, missed>>
      BY <2>1, <2>2, <2>5 DEF Emit, view
    <3> QED BY <1>0, <1>01, <2>1, <2>3, <2>4, <2>5, <3>1 DEF PlainInv
  <2>6. CASE f.kind = "event"
    <3>1. Receive(f.seq) /\ f \in Published
      BY <2>1, <2>2, <2>6 DEF Emit
    <3>2. /\ synced' = TRUE /\ last' \in Nat /\ last' <= maxSeq /\ f.seq <= last'
          /\ (synced => last <= last') /\ (~synced => last' = f.seq)
      BY <1>01, <3>1, Received
    <3>3. f.seq \in 1 .. maxSeq /\ f.id \in Nat
      BY <3>1, PublishedTypes
    <3>4. ASSUME synced, NEW q \in last + 1 .. f.seq - 1 PROVE q \in Lost
      <4>1. q \in last + 1 .. maxSeq /\ q < f.seq /\ q \in 1 .. maxSeq
        BY <1>0, <3>3
      <4>2. CASE q \in Replayed
        <5>1. PICK i \in DOMAIN replay : replay[i].kind = "event" /\ q = replay[i].seq
          BY <4>2 DEF Replayed
        <5>2. replay[i] \in Published /\ replay[i].id = First + i
          BY <2>1, <5>1 DEF ReplayIsRun, Run
        <5>3. f.id <= replay[i].id
          BY <2>2, <5>2
        <5> QED BY <3>1, <3>3, <4>1, <5>1, <5>2, <5>3, PublishedTypes DEF EventsInOrder
      <4>3. CASE q \in Queued
        BY <3>1, <3>3, <4>1, <4>3 DEF RowsPublished, Queued
      <4>4. ASSUME NEW g \in Published, g.seq = q PROVE q \in Lost
        <5>1. g.id \in Nat /\ g.id < f.id
          BY <3>1, <3>3, <4>1, <4>4, PublishedTypes DEF EventsInOrder
        <5>2. g.id <= First
          BY <2>2, <5>1
        <5> QED BY <1>0, <2>1, <3>4, <4>1, <4>4, <5>2 DEF ReplayIsRun
      <4> QED BY <4>1, <4>3, <4>4 DEF RowsPublished, Lost
    <3>5. missed' \subseteq Lost
      BY <1>01, <3>1, <3>4 DEF Receive
    <3> DEFINE to == last'
    <3>60. to \in Nat /\ f.seq <= to /\ (synced => last <= to) /\ (~synced => to = f.seq)
      BY <3>2
    <3> HIDE DEF to
    <3>6. ASSUME NEW q \in to + 1 .. maxSeq PROVE q \in Lost \cup Ahead \cup Replayed'
      <4>1. q # f.seq /\ q \in 1 .. maxSeq
        BY <1>0, <3>60, <3>3
      <4>2. CASE synced
        <5>1. q \in last + 1 .. maxSeq
          BY <1>0, <3>60, <4>2
        <5> QED BY <1>01, <2>1, <2>4, <4>1, <4>2, <5>1
      <4>3. CASE ~synced
        <5>1. f.seq < q
          BY <1>0, <3>60, <3>3, <4>3
        <5>2. q \in unpublished \/ q \in Queued \/ \E g \in Published : g.seq = q
          BY <4>1 DEF RowsPublished
        <5>3. ASSUME NEW g \in Published, g.seq = q, NEW i \in 1 .. pos, chan[i] = g PROVE q \in Replayed'
          <6>1. g.kind = "event" /\ g.id \in Nat /\ f.id < g.id
            BY <3>1, <3>3, <5>1, <5>3, PublishedTypes DEF EventsInOrder
          <6>2. g.id <= First + Len(replay)
            BY <2>1, <5>3, <6>1 DEF ReplayIsRun
          <6>3. First < g.id
            BY <2>2, <6>1
          <6>4. replay[g.id - First] = g
            BY <2>1, <6>2, <6>3 DEF ReplayIsRun, Run
          <6>5. g.id - First \in DOMAIN replay
            BY <2>2, <6>1, <6>2
          <6>6. q \in Replayed
            BY <5>3, <6>1, <6>4, <6>5 DEF Replayed
          <6> QED BY <2>4, <4>1, <6>6
        <5> QED BY <5>2, <5>3, WhereEventsAre DEF Lost, Ahead
      <4> QED BY <1>0, <4>2, <4>3
    <3> QED BY <1>0, <1>01, <2>1, <2>3, <3>5, <3>6 DEF PlainInv, to
  <2> QED BY <2>5, <2>6
<1>5. CASE EmitLive
  <2> DEFINE f == chan[pos + 1]
  <2>1. /\ phase = "streaming" /\ replay = <<>> /\ pos < Len(chan) /\ pos' = pos + 1
        /\ UNCHANGED <<todo, bus, phase, replay, maxSeq>>
        /\ UNCHANGED view \/ (f.kind # "other" /\ Emit(f))
        /\ f.kind = "event" => Emit(f)
    BY <1>5 DEF EmitLive, Live, server
  <2>2. /\ f.kind # "event" => Ahead' = Ahead
        /\ f.kind = "event" =>
              /\ f \in Published /\ f.seq \in 1 .. maxSeq
              /\ Ahead = Ahead' \cup {f.seq}
              /\ \A q \in Ahead' : f.seq < q
              /\ \A q \in f.seq + 1 .. maxSeq : q \in unpublished \/ q \in Ahead'
    BY <2>1, LiveMoves
  <2>3. Replayed = {} /\ Replayed' = {}
    BY <2>1 DEF Replayed
  <2>4. CASE f.kind # "event"
    <3>1. UNCHANGED <<last, synced, missed>>
      BY <2>1, <2>4 DEF Emit, view
    <3> QED BY <1>0, <1>01, <2>1, <2>2, <2>4, <3>1, <2>3 DEF PlainInv
  <2>5. CASE f.kind = "event"
    <3>1. Receive(f.seq) /\ f \in Published
      BY <2>1, <2>2, <2>5 DEF Emit
    <3>2. /\ synced' = TRUE /\ last' \in Nat /\ last' <= maxSeq /\ f.seq <= last'
          /\ (synced => last <= last') /\ (~synced => last' = f.seq)
      BY <1>01, <3>1, Received
    <3>3. f.seq \in 1 .. maxSeq
      BY <2>2, <2>5
    <3>4. ASSUME synced, NEW q \in last + 1 .. f.seq - 1 PROVE q \in Lost
      <4>1. q \in last + 1 .. maxSeq /\ q < f.seq /\ q # f.seq
        BY <1>0, <3>3
      <4>2. q \notin Ahead
        BY <1>0, <2>2, <2>5, <3>3, <4>1
      <4> QED BY <1>01, <2>1, <2>3, <3>4, <4>1, <4>2
    <3>5. missed' \subseteq Lost
      BY <1>01, <3>1, <3>4 DEF Receive
    <3> DEFINE to == last'
    <3>60. to \in Nat /\ f.seq <= to /\ (synced => last <= to) /\ (~synced => to = f.seq)
      BY <3>2
    <3> HIDE DEF to
    <3>6. ASSUME NEW q \in to + 1 .. maxSeq PROVE q \in Lost \cup Ahead'
      <4>2. CASE synced
        <5>1. q \in last + 1 .. maxSeq /\ q # f.seq
          BY <1>0, <3>60, <3>3, <4>2
        <5> QED BY <1>01, <2>1, <2>2, <2>3, <2>5, <4>2, <5>1
      <4>3. CASE ~synced
        BY <2>2, <2>5, <3>60, <4>3 DEF Lost
      <4> QED BY <1>0, <4>2, <4>3
    <3> QED BY <1>0, <1>01, <2>1, <2>3, <3>5, <3>6 DEF PlainInv, to
  <2> QED BY <2>4, <2>5
<1>6. CASE EmitReset
  <2>1. synced' = FALSE /\ missed' = missed
    BY <1>6 DEF EmitReset
  <2> QED BY <1>01, <2>1 DEF PlainInv
<1>7. CASE Disconnect \/ Finish \/ Open \/ Subscribe
  <2>1. missed' = missed /\ phase' # "streaming"
    BY <1>7 DEF Disconnect, Finish, Open, Subscribe, view
  <2> QED BY <1>2, <1>7, <2>1 DEF ClientStep
<1>8. CASE FetchHistory \/ EmitRow
  BY <1>01, <1>8 DEF FetchHistory, EmitRow
<1>9. CASE UNCHANGED streamVars
  <2>1. UNCHANGED <<phase, pos, replay, last, synced, missed, maxSeq, todo, bus>>
    BY <1>9 DEF streamVars, request, view, server
  <2>2. Ahead' = Ahead /\ Replayed' = Replayed
    BY <2>1, AheadStays DEF Replayed
  <2> QED BY <1>0, <1>01, <2>1, <2>2 DEF PlainInv
<1> QED BY <1>1, <1>3, <1>4, <1>5, <1>6, <1>7, <1>8, <1>9, StepKinds DEF ClientStep

(* The types are kept as long as what is published has rows.                         *)
LEMMA StreamTypeStep ==
  ASSUME StreamTypeOK, RowsPublished, EventsInOrder, RingIsRun, JoinInv, HasUpToLastId, ReplayIsRun,
         [StreamNext]_streamVars
  PROVE  StreamTypeOK'
<1>0. /\ setting' = setting /\ maxSeq \in 0 .. setting.rows /\ setting.rows \in 0 .. MaxRows /\ MaxRows \in Nat
      /\ setting.historyLimit \in Nat \ {0} /\ RingCap' = RingCap /\ Frame' = Frame /\ Content' = Content
      /\ last \in 0 .. MaxRows /\ covered \in 0 .. MaxRows /\ synced \in BOOLEAN /\ twice \in BOOLEAN
      /\ lastId \in Nat /\ ids \in Nat
  BY StepKinds, SettingTypes DEF StreamTypeOK, RingCap, Frame, Content, MaxOther
<1>01. last <= maxSeq
  BY SettingTypes DEF JoinInv, HasUpToLastId
<1>02. Ahead \subseteq 1 .. MaxRows /\ \A f \in Published : f.seq \in 1 .. MaxRows /\ f.id \in Nat
  BY <1>0, AheadHasRows, PublishedTypes
<1>03. RowsSent(pos) \subseteq 1 .. MaxRows
  <2>1. \A i \in 1 .. pos : i \in DOMAIN chan
    BY ChanTypes
  <2> QED BY <1>02, <2>1 DEF RowsSent, Published, Carried
<1> DEFINE Part == /\ setting \in Settings
                   /\ maxSeq \in 0 .. setting.rows
                   /\ {unpublished, passed} \subseteq SUBSET (1 .. MaxRows)
                   /\ status \in {"pending", "running", "ended"}
                   /\ todo \in [Publishers -> SUBSET Content]
                   /\ held \in [Publishers -> Frame]
                   /\ ids \in Nat
                   /\ chan \in Seq(Frame)
           Ring == ring \in Seq(Frame) /\ Len(ring) <= RingCap
           Mine == /\ {missed, hist, outOfReach} \subseteq SUBSET (1 .. MaxRows)
                   /\ over \in BOOLEAN /\ synced \in BOOLEAN /\ twice \in BOOLEAN
                   /\ pos \in 0 .. Len(chan)
                   /\ replay \in Seq(Frame) /\ skipped \subseteq Frame
                   /\ phase \in {"closed", "opened", "subscribed", "streaming"}
                   /\ covered \in 0 .. MaxRows /\ last \in 0 .. MaxRows /\ lastId \in Nat
<1>04. Part /\ Ring /\ Mine
  BY DEF StreamTypeOK
<1>05. Part' /\ Ring' /\ Mine' => StreamTypeOK'
  BY DEF StreamTypeOK
<1>06. ASSUME ring' = ring PROVE Ring'
  <2>1. ring' \in Seq(Frame')
    BY <1>0, <1>04, <1>06
  <2>2. Len(ring') <= RingCap'
    BY <1>0, <1>04, <1>06
  <2> QED BY <2>1, <2>2
<1>07. ASSUME missed' \subseteq 1 .. MaxRows, hist' \subseteq 1 .. MaxRows, outOfReach' \subseteq 1 .. MaxRows,
              over' \in BOOLEAN, synced' \in BOOLEAN, twice' \in BOOLEAN, pos' \in 0 .. Len(chan'),
              replay' \in Seq(Frame), skipped' \subseteq Frame,
              phase' \in {"closed", "opened", "subscribed", "streaming"},
              covered' \in 0 .. MaxRows, last' \in 0 .. MaxRows, lastId' \in Nat
       PROVE  Mine'
  <2>1. missed' \in SUBSET (1 .. MaxRows) /\ hist' \in SUBSET (1 .. MaxRows) /\ outOfReach' \in SUBSET (1 .. MaxRows)
    BY <1>07
  <2>2. {missed', hist', outOfReach'} \subseteq SUBSET (1 .. MaxRows)
    BY <2>1
  <2>3. replay' \in Seq(Frame') /\ skipped' \subseteq Frame'
    BY <1>0, <1>07
  <2> QED BY <1>07, <2>2, <2>3
<1>08. ASSUME maxSeq' \in 0 .. setting.rows, unpublished' \subseteq 1 .. MaxRows, passed' \subseteq 1 .. MaxRows,
              status' \in {"pending", "running", "ended"}, todo' \in [Publishers -> SUBSET Content],
              held' \in [Publishers -> Frame], ids' \in Nat, chan' \in Seq(Frame)
       PROVE  Part'
  <2>1. unpublished' \in SUBSET (1 .. MaxRows) /\ passed' \in SUBSET (1 .. MaxRows)
    BY <1>08
  <2>2. {unpublished', passed'} \subseteq SUBSET (1 .. MaxRows)
    BY <2>1
  <2>3. todo' \in [Publishers -> SUBSET Content'] /\ held' \in [Publishers -> Frame'] /\ chan' \in Seq(Frame')
    BY <1>0, <1>08
  <2>4. setting' \in Settings /\ maxSeq' \in 0 .. setting'.rows
    BY <1>0, <1>04, <1>08
  <2> QED BY <1>08, <2>2, <2>3, <2>4
<1>09. /\ missed \subseteq 1 .. MaxRows /\ hist \subseteq 1 .. MaxRows /\ outOfReach \subseteq 1 .. MaxRows
       /\ unpublished \subseteq 1 .. MaxRows /\ passed \subseteq 1 .. MaxRows
       /\ over \in BOOLEAN /\ pos \in 0 .. Len(chan) /\ replay \in Seq(Frame) /\ skipped \subseteq Frame
       /\ phase \in {"closed", "opened", "subscribed", "streaming"}
       /\ status \in {"pending", "running", "ended"}
       /\ todo \in [Publishers -> SUBSET Content] /\ held \in [Publishers -> Frame]
       /\ chan \in Seq(Frame) /\ ring \in Seq(Frame) /\ Len(ring) <= RingCap
  BY <1>04
<1>010. ASSUME UNCHANGED <<request, view, skipped, outOfReach>>, pos \in 0 .. Len(chan')
        PROVE  Mine'
  <2>1. UNCHANGED <<missed, hist, outOfReach, over, synced, twice, pos, replay, skipped, phase,
          covered, last, lastId>>
    BY <1>010 DEF request, view
  <2> QED BY <1>0, <1>07, <1>09, <1>010, <2>1
<1>011. ASSUME UNCHANGED <<status, passed, maxSeq, unpublished, todo, held, ids, chan>> PROVE Part'
  BY <1>0, <1>08, <1>09, <1>011
<1>012. ASSUME UNCHANGED <<bus, request, view, history>> PROVE Ring' /\ Mine'
  <2>1. ring' = ring /\ chan' = chan
    BY <1>012 DEF bus
  <2>2. UNCHANGED <<request, view, skipped, outOfReach>> /\ pos \in 0 .. Len(chan')
    BY <1>09, <1>012, <2>1 DEF history
  <2> QED BY <1>06, <1>010, <2>1, <2>2
<1> HIDE DEF Part, Ring, Mine
<1>1. ASSUME NEW p \in Publishers, Push(p) PROVE Part' /\ Ring' /\ Mine'
  <2>1. PICK c \in todo[p], f \in Frame : PushesFrame(p, c, f)
    BY <1>1, PushResult
  <2>2. UNCHANGED <<maxSeq, unpublished, status, request, view, history, chan>>
    BY <1>1 DEF Push, PushFrame
  <2>3. /\ held' = [held EXCEPT ![p] = f] /\ ids' = ids + 1
        /\ todo' = [todo EXCEPT ![p] = todo[p] \ {c}]
        /\ ring' \in Seq(Frame) /\ Len(ring') <= RingCap
    BY <2>1 DEF PushesFrame
  <2>4. Part'
    <3>1. held' \in [Publishers -> Frame]
      BY <1>09, <2>3
    <3>2. todo' \in [Publishers -> SUBSET Content]
      BY <1>09, <2>3
    <3>3. UNCHANGED <<maxSeq, unpublished, status, passed, chan>> /\ ids' \in Nat
      BY <1>0, <2>2, <2>3 DEF history
    <3> QED BY <1>0, <1>08, <1>09, <3>1, <3>2, <3>3
  <2>5. Ring'
    <3>1. ring' \in Seq(Frame') /\ Len(ring') <= RingCap'
      BY <1>0, <2>3
    <3> QED BY <3>1 DEF Ring
  <2>6. Mine'
    <3>1. UNCHANGED <<request, view, skipped, outOfReach>> /\ pos \in 0 .. Len(chan')
      BY <1>09, <2>2 DEF history
    <3> QED BY <1>010, <3>1
  <2> QED BY <2>4, <2>5, <2>6
<1>2. ASSUME NEW p \in Publishers, SendFrame(p) PROVE Part' /\ Ring' /\ Mine'
  <2>1. /\ held' = [held EXCEPT ![p] = NoFrame]
        /\ chan' \in Seq(Frame) /\ Len(chan') = Len(chan) + 1
        /\ passed' = passed \cup {held[q].seq : q \in EarlierHeld(p)}
    BY <1>2, SendResult
  <2>2. UNCHANGED <<server, ids, ring, request, view, skipped, outOfReach>>
    BY <1>2 DEF SendFrame
  <2>3. held' \in [Publishers -> Frame]
    BY <1>09, <2>1, NoFrameType
  <2>4. {held[q].seq : q \in EarlierHeld(p)} \subseteq 1 .. MaxRows
    BY <1>02 DEF EarlierHeld, Published, Carried
  <2>5. Part'
    <3>1. passed' \subseteq 1 .. MaxRows
      BY <1>09, <2>1, <2>4
    <3>2. UNCHANGED <<maxSeq, unpublished, status, todo, ids>>
      BY <2>2 DEF server
    <3> QED BY <1>0, <1>08, <1>09, <2>1, <2>3, <3>1, <3>2
  <2>6. Mine'
    <3>1. pos \in 0 .. Len(chan')
      BY <1>09, <2>1, ChanTypes
    <3> QED BY <1>010, <2>2, <3>1
  <2>7. Ring'
    BY <1>06, <2>2
  <2> QED BY <2>5, <2>6, <2>7
<1>3. CASE CommitRows
  <2>1. /\ maxSeq' \in Nat /\ maxSeq' <= setting.rows
        /\ \A q \in unpublished' : q \in unpublished \/ q \in maxSeq + 1 .. maxSeq'
    BY <1>3, CommitMoves
  <2>2. UNCHANGED <<status, bus, request, view, history>>
    BY <1>3 DEF CommitRows
  <2>3. todo' \in [Publishers -> SUBSET Content]
    <3>1. PICK k \in 1 .. setting.rows - maxSeq :
            \/ todo' = [todo EXCEPT !["ingest"] = {[kind |-> "event", seq |-> q] : q \in maxSeq + 1 .. maxSeq + k}]
            \/ todo' = todo
      BY <1>3 DEF CommitRows
    <3>2. \A q \in maxSeq + 1 .. maxSeq + k : [kind |-> "event", seq |-> q] \in Content
      BY <1>0, SettingTypes DEF Content
    <3>3. {[kind |-> "event", seq |-> q] : q \in maxSeq + 1 .. maxSeq + k} \subseteq Content
      BY <3>2
    <3> QED BY <1>09, <3>1, <3>3
  <2>4. unpublished' \subseteq 1 .. MaxRows
    <3>1. ASSUME NEW q \in unpublished' PROVE q \in 1 .. MaxRows
      <4>1. q \in unpublished \/ q \in maxSeq + 1 .. maxSeq'
        BY <2>1, <3>1
      <4>2. ASSUME q \in maxSeq + 1 .. maxSeq' PROVE q \in 1 .. MaxRows
        BY <1>0, <2>1, <4>2
      <4> QED BY <1>09, <4>1, <4>2
    <3> QED BY <3>1
  <2>5. Part'
    <3>1. UNCHANGED <<status, passed, held, ids, chan>> /\ maxSeq' \in 0 .. setting.rows
      BY <1>0, <2>1, <2>2 DEF bus, history
    <3> QED BY <1>0, <1>08, <1>09, <2>3, <2>4, <3>1
  <2>6. UNCHANGED <<bus, request, view, history>>
    BY <2>2
  <2> QED BY <1>05, <1>012, <2>5, <2>6
<1>4. CASE RunningSession \/ EndSession
  <2>1. UNCHANGED <<maxSeq, unpublished, bus, request, view, history>> /\ status' \in {"running", "ended"}
    BY <1>4 DEF RunningSession, EndSession, PatchStatus
  <2>2. todo' \in [Publishers -> SUBSET Content]
    BY <1>4, PatchMoves
  <2>3. UNCHANGED <<maxSeq, unpublished, passed, held, ids, chan>>
    BY <2>1 DEF bus, history
  <2>4. Part'
    BY <1>0, <1>08, <1>09, <2>1, <2>2, <2>3
  <2>5. UNCHANGED <<bus, request, view, history>>
    BY <2>1
  <2> QED BY <1>05, <1>012, <2>4, <2>5
<1>5. CASE UNCHANGED streamVars
  <2>1. UNCHANGED <<status, passed, maxSeq, unpublished, todo, held, ids, chan>>
    BY <1>5 DEF streamVars, server, bus, history
  <2>2. UNCHANGED <<bus, request, view, history>>
    BY <1>5 DEF streamVars
  <2> QED BY <1>05, <1>011, <1>012, <2>1, <2>2
<1>6. CASE ClientStep
  <2>1. Part'
    <3>1. UNCHANGED <<status, passed, maxSeq, unpublished, todo, held, ids, chan>>
      BY <1>6, ClientKeeps DEF ClientStep, Subscribe, FetchHistory, ReadRing, EmitRow, EmitReplay,
          EmitLive, EmitReset,
                  Finish, Open, Disconnect, server, history
    <3> QED BY <1>011, <3>1
  <2>2. Ring'
    <3>1. CASE ReadRing
      <4>1. ring' = ring \/ ring' \in Kept(ring)
        BY <3>1 DEF ReadRing
      <4>2. CASE ring' \in Kept(ring)
        <5>1. ring' \in Seq(Frame) /\ Len(ring') \in Nat /\ Len(ring') <= Len(ring)
          BY <4>2, KeptIsSuffix
        <5>2. Len(ring) \in Nat /\ Len(ring) <= RingCap /\ RingCap \in Nat
          BY <1>0, <1>09, SettingTypes
        <5>3. Len(ring') <= RingCap
          BY <5>1, <5>2
        <5>4. ring' \in Seq(Frame') /\ Len(ring') <= RingCap'
          BY <1>0, <5>1, <5>3
        <5> QED BY <5>4 DEF Ring
      <4> QED BY <1>06, <4>1, <4>2
    <3>2. CASE ~ReadRing
      <4>1. UNCHANGED ring
        BY <1>6, <3>2 DEF ClientStep, Subscribe, FetchHistory, EmitRow, EmitReplay, EmitLive, EmitReset,
                  Finish, Open, Disconnect, bus
      <4> QED BY <1>06, <4>1
    <3> QED BY <3>1, <3>2
  <2>3. UNCHANGED <<maxSeq, chan, ids, held>>
    BY <1>6, ClientKeeps
  <2>4. CASE FetchHistory
    <3>1. /\ covered' = Fewer(maxSeq, last + setting.historyLimit) /\ hist' = last + 1 .. covered'
          /\ outOfReach' = outOfReach \cup {q \in RowsSent(pos) : q > covered'}
          /\ synced' = TRUE /\ phase' = "streaming"
          /\ UNCHANGED <<over, pos, replay, lastId, last, missed, twice, skipped>>
      BY <2>4 DEF FetchHistory
    <3>2. covered' \in 0 .. MaxRows
      BY <1>0, <3>1 DEF Fewer
    <3>3. hist' \subseteq 1 .. MaxRows
      BY <1>0, <3>1, <3>2
    <3>4. outOfReach' \subseteq 1 .. MaxRows
      BY <1>03, <1>09, <3>1
    <3>8. pos' \in 0 .. Len(chan')
      BY <1>09, <2>3, <3>1
    <3>9. Mine'
      BY <1>0, <1>07, <1>09, <3>1, <3>2, <3>3, <3>4, <3>8
    <3> QED BY <1>05, <2>1, <2>2, <3>9
  <2>5. CASE ReadRing
    <3>1. /\ phase' = "streaming" /\ outOfReach' \subseteq outOfReach \cup RowsSent(pos)
          /\ UNCHANGED <<over, pos, hist, covered, view, skipped>>
          /\ replay' = <<>> \/ (Known(ring') /\ replay' = After(ring'))
      BY <2>5 DEF ReadRing
    <3>2. outOfReach' \subseteq 1 .. MaxRows
      BY <1>03, <1>09, <3>1
    <3>3. replay' \in Seq(Frame)
      <4>1. CASE Known(ring') /\ replay' = After(ring')
        <5>1. ring' \in Seq(Frame) /\ Len(ring') \in Nat /\ DOMAIN ring' = 1 .. Len(ring')
          BY <1>0, <2>2 DEF Ring
        <5> DEFINE r == ring'
                   k == (CHOOSE i \in DOMAIN r : r[i].id = lastId) + 1
        <5>2. k \in 1 .. Len(r) + 1 /\ k \in Nat
          BY <4>1, <5>1 DEF Known
        <5>3. replay' = SubSeq(r, k, Len(r))
          BY <4>1 DEF After
        <5> HIDE DEF r, k
        <5>4. r \in Seq(Frame) /\ Len(r) \in Nat
          BY <5>1 DEF r
        <5> QED BY <5>2, <5>3, <5>4
      <4>2. CASE replay' = <<>>
        BY <4>2
      <4> QED BY <3>1, <4>1, <4>2
    <3>8. pos' \in 0 .. Len(chan')
      BY <1>09, <2>3, <3>1
    <3>9. Mine'
      BY <1>0, <1>07, <1>09, <3>1, <3>2, <3>3, <3>8 DEF view
    <3> QED BY <1>05, <2>1, <2>2, <3>9
  <2>6. ASSUME NEW seq \in 1 .. maxSeq, Receive(seq)
        PROVE  /\ missed' \subseteq 1 .. MaxRows /\ twice' \in BOOLEAN /\ last' \in 0 .. MaxRows
                /\ synced' \in BOOLEAN
    <3>1. last + 1 .. seq - 1 \subseteq 1 .. MaxRows
      BY <1>0
    <3>2. missed' \subseteq 1 .. MaxRows
      BY <1>09, <2>6, <3>1 DEF Receive
    <3>3. twice' \in BOOLEAN /\ synced' \in BOOLEAN
      <4>1. twice' = (twice \/ (synced /\ seq <= last)) /\ synced' = TRUE
        BY <2>6 DEF Receive
      <4> QED BY <4>1
    <3>4. last' \in 0 .. MaxRows
      BY <1>0, <2>6 DEF Receive
    <3> QED BY <3>2, <3>3, <3>4
  <2>7. CASE EmitRow
    <3>1. PICK seq \in hist : Receive(seq) /\ hist' = hist \ {seq}
      BY <2>7 DEF EmitRow
    <3>2. UNCHANGED <<phase, over, pos, replay, covered, lastId, skipped, outOfReach>>
      BY <2>7 DEF EmitRow, history
    <3>3. seq \in 1 .. maxSeq
      <4>1. phase = "streaming" /\ hist \subseteq last + 1 .. covered /\ covered <= maxSeq
        BY <1>0, <2>7, <3>1, SettingTypes DEF EmitRow, JoinInv, HasUpToLastId
      <4> QED BY <1>0, <3>1, <4>1
    <3>4. hist' \subseteq 1 .. MaxRows
      BY <1>09, <3>1
    <3>8. pos' \in 0 .. Len(chan')
      BY <1>09, <2>3, <3>2
    <3>9. Mine'
      BY <1>0, <1>07, <1>09, <2>6, <3>1, <3>2, <3>3, <3>4, <3>8
    <3> QED BY <1>05, <2>1, <2>2, <3>9
  <2>8. ASSUME NEW f \in Frame, Emit(f), f.kind = "event" => f \in Published
        PROVE  /\ missed' \subseteq 1 .. MaxRows /\ twice' \in BOOLEAN /\ last' \in 0 .. MaxRows
               /\ synced' \in BOOLEAN /\ lastId' \in Nat
    <3>1. lastId' \in Nat
      BY <2>8, FrameTypes DEF Emit
    <3>2. CASE f.kind = "event"
      <4>1. f.seq \in 1 .. maxSeq /\ Receive(f.seq)
        BY <2>8, <3>2, PublishedTypes DEF Emit
      <4> QED BY <2>6, <3>1, <4>1
    <3>3. CASE f.kind # "event"
      <4>1. UNCHANGED <<last, synced, missed, twice>>
        BY <2>8, <3>3 DEF Emit
      <4> QED BY <1>0, <1>09, <3>1, <4>1
    <3> QED BY <3>2, <3>3
  <2>9. CASE EmitReplay
    <3>1. /\ replay # <<>> /\ replay' = Tail(replay)
          /\ UNCHANGED view \/ Emit(Head(replay))
          /\ UNCHANGED <<phase, over, pos, hist, covered, skipped, outOfReach>>
      BY <2>9 DEF EmitReplay, history
    <3>2. /\ Head(replay) \in Frame /\ Tail(replay) \in Seq(Frame)
          /\ Head(replay).kind = "event" => Head(replay) \in Published
      BY <3>1, ReplayHead
    <3>3. /\ missed' \subseteq 1 .. MaxRows /\ twice' \in BOOLEAN /\ last' \in 0 .. MaxRows
          /\ synced' \in BOOLEAN /\ lastId' \in Nat
      <4>1. CASE UNCHANGED view
        BY <1>0, <1>09, <4>1 DEF view
      <4>2. CASE Emit(Head(replay))
        BY <2>8, <3>2, <4>2
      <4> QED BY <3>1, <4>1, <4>2
    <3>8. pos' \in 0 .. Len(chan')
      BY <1>09, <2>3, <3>1
    <3>9. Mine'
      BY <1>0, <1>07, <1>09, <3>1, <3>2, <3>3, <3>8
    <3> QED BY <1>05, <2>1, <2>2, <3>9
  <2>10. CASE EmitLive
    <3> DEFINE f == chan[pos + 1]
    <3>1. /\ pos < Len(chan) /\ pos' = pos + 1
          /\ UNCHANGED view \/ Emit(f)
          /\ skipped' \subseteq skipped \cup {f}
          /\ UNCHANGED <<phase, over, replay, hist, covered, outOfReach>>
      BY <2>10 DEF EmitLive
    <3>2. pos + 1 \in 1 .. Len(chan) /\ pos + 1 \in DOMAIN chan /\ f \in Frame
      BY <3>1, ChanTypes
    <3>3. f.kind = "event" => f \in Published
      BY <3>2 DEF Published, Carried
    <3>4. pos' \in 0 .. Len(chan)
      BY <1>09, <3>1, <3>2, ChanTypes
    <3>5. /\ missed' \subseteq 1 .. MaxRows /\ twice' \in BOOLEAN /\ last' \in 0 .. MaxRows
          /\ synced' \in BOOLEAN /\ lastId' \in Nat
      <4>1. CASE UNCHANGED view
        BY <1>0, <1>09, <4>1 DEF view
      <4>2. CASE Emit(f)
        BY <2>8, <3>2, <3>3, <4>2
      <4> QED BY <3>1, <4>1, <4>2
    <3>6. skipped' \subseteq Frame
      BY <1>09, <3>1, <3>2
    <3>9. Mine'
      <4> HIDE DEF f
      <4>1. UNCHANGED <<phase, over, replay, hist, covered, outOfReach>>
        BY <3>1
      <4>2. over' \in BOOLEAN /\ phase' \in {"closed", "opened", "subscribed", "streaming"}
        BY <1>09, <4>1
      <4>3. /\ replay' \in Seq(Frame) /\ hist' \subseteq 1 .. MaxRows /\ covered' \in 0 .. MaxRows
            /\ outOfReach' \subseteq 1 .. MaxRows
        BY <1>0, <1>09, <4>1
      <4> QED BY <1>0, <1>07, <2>3, <3>4, <3>5, <3>6, <4>2, <4>3
    <3> QED BY <1>05, <2>1, <2>2, <3>9
  <2>11. CASE EmitReset
    <3>1. /\ pos' = Len(chan) - ChannelCap /\ synced' = FALSE /\ last' = 0 /\ lastId' = 0
          /\ phase' \in {"closed", phase}
          /\ UNCHANGED <<over, replay, hist, covered, missed, twice, skipped, outOfReach>>
          /\ Len(chan) - pos > ChannelCap
      BY <2>11 DEF EmitReset, history, Lagging
    <3>2. pos' \in 0 .. Len(chan)
      BY <3>1, ChanTypes, SettingTypes
    <3>9. Mine'
      <4>1. last' \in 0 .. MaxRows /\ lastId' \in Nat
        BY <1>0, <3>1
      <4>6. synced' \in BOOLEAN
        BY <3>1
      <4>2. phase' \in {"closed", "opened", "subscribed", "streaming"}
        BY <1>09, <3>1
      <4>3. UNCHANGED <<over, replay, hist, covered, missed, twice, skipped, outOfReach>>
        BY <3>1
      <4>4. over' \in BOOLEAN /\ twice' \in BOOLEAN
        BY <1>0, <1>09, <4>3
      <4>5. /\ replay' \in Seq(Frame) /\ hist' \subseteq 1 .. MaxRows /\ covered' \in 0 .. MaxRows
            /\ outOfReach' \subseteq 1 .. MaxRows /\ missed' \subseteq 1 .. MaxRows /\ skipped' \subseteq Frame
        BY <1>0, <1>09, <4>3
      <4> QED BY <1>0, <1>07, <2>3, <3>2, <4>1, <4>6, <4>2, <4>4, <4>5
    <3> QED BY <1>05, <2>1, <2>2, <3>9
  <2>12. CASE Open \/ Subscribe \/ Finish \/ Disconnect
    <3>1. /\ phase' \in {"closed", "opened", "subscribed"} /\ over' \in {over, status = "ended"}
          /\ pos' \in {pos, Len(chan)} /\ hist' \in {{}, hist} /\ replay' \in {<<>>, replay}
          /\ UNCHANGED <<covered, view, history>>
      BY <2>12 DEF Open, Subscribe, Finish, Disconnect
    <3>2. over' \in BOOLEAN
      BY <1>09, <3>1
    <3>3. pos' \in 0 .. Len(chan)
      BY <3>1, ChanTypes
    <3>9. Mine'
      <4>1. hist' \subseteq 1 .. MaxRows
        BY <1>09, <3>1
      <4>6. replay' \in Seq(Frame)
        <5>1. CASE replay' = <<>>
          BY <5>1
        <5>2. CASE replay' = replay
          BY <1>09, <5>2
        <5> QED BY <3>1, <5>1, <5>2
      <4>2. phase' \in {"closed", "opened", "subscribed", "streaming"}
        BY <3>1
      <4>3. UNCHANGED <<covered, lastId, last, synced, missed, twice, skipped, outOfReach>>
        BY <3>1 DEF view, history
      <4>4. synced' \in BOOLEAN /\ twice' \in BOOLEAN
        BY <1>0, <4>3
      <4>5. /\ covered' \in 0 .. MaxRows /\ last' \in 0 .. MaxRows /\ lastId' \in Nat
            /\ outOfReach' \subseteq 1 .. MaxRows /\ missed' \subseteq 1 .. MaxRows /\ skipped' \subseteq Frame
        BY <1>0, <1>09, <4>3
      <4> QED BY <1>0, <1>07, <2>3, <3>2, <3>3, <4>1, <4>6, <4>2, <4>4, <4>5
    <3> QED BY <1>05, <2>1, <2>2, <3>9
  <2> QED BY <1>6, <2>4, <2>5, <2>7, <2>9, <2>10, <2>11, <2>12 DEF ClientStep
<1> QED BY <1>05, <1>1, <1>2, <1>3, <1>4, <1>5, <1>6, StepKinds DEF ServerStep

(* The initial states satisfy the invariant.                                     *)
LEMMA StreamStarts == StreamInit => StreamInv
<1> SUFFICES ASSUME StreamInit
             PROVE  StreamInv
  OBVIOUS
<1>1. setting \in Settings /\ setting \in Setting /\ MaxRows \in Nat
  BY StreamAssumption DEF StreamInit
<1>2. MaxOther \in Nat /\ RingCap \in Nat \ {0} /\ setting.rows \in 0 .. MaxRows
  BY <1>1 DEF Setting, MaxOther, RingCap
<1>3. todo \in [Publishers -> SUBSET Content]
  <2>1. [kind : {"other"}, seq : 1 .. MaxOther] \subseteq Content
    BY <1>1, <1>2 DEF Content
  <2> QED BY <2>1 DEF StreamInit
<1>4. NoFrame \in Frame /\ NoFrame.kind = "none" /\ NoFrame.id = 0
  BY <1>1, <1>2 DEF NoFrame, Frame
<1>5. StreamTypeOK
  <2>1. setting \in Settings /\ maxSeq \in 0 .. setting.rows /\ ids \in Nat
    BY <1>1, <1>2 DEF StreamInit
  <2>2. {unpublished, missed, hist, passed, outOfReach} \subseteq SUBSET (1 .. MaxRows)
    BY DEF StreamInit
  <2>3. /\ status \in {"pending", "running", "ended"} /\ over \in BOOLEAN /\ synced \in BOOLEAN /\ twice \in BOOLEAN
        /\ phase \in {"closed", "opened", "subscribed", "streaming"}
    BY DEF StreamInit
  <2>4. held \in [Publishers -> Frame]
    BY <1>4 DEF StreamInit
  <2>5. ring = <<>> /\ chan = <<>> /\ replay = <<>> /\ <<>> \in Seq(Frame) /\ Len(<<>>) = 0
    BY DEF StreamInit
  <2>6. ring \in Seq(Frame) /\ Len(ring) <= RingCap /\ chan \in Seq(Frame) /\ replay \in Seq(Frame)
    BY <1>2, <2>5
  <2>7. pos \in 0 .. Len(chan) /\ skipped \subseteq Frame
    BY <2>5 DEF StreamInit
  <2>8. covered \in 0 .. MaxRows /\ last \in 0 .. MaxRows /\ lastId \in Nat
    BY <1>1 DEF StreamInit
  <2> QED BY <1>3, <2>1, <2>2, <2>3, <2>4, <2>6, <2>7, <2>8 DEF StreamTypeOK
<1>6. Published = {} /\ \A f \in Carried : f = NoFrame
  BY <1>4 DEF StreamInit, Published, Carried
<1>7. RowsPublished
  <2>1. \A p \in Publishers : held[p].kind # "event" /\ held[p] = NoFrame
    BY <1>4 DEF StreamInit
  <2>2. \A p \in Publishers : \A c \in todo[p] : p = "patch" /\ c.kind = "other"
    BY DEF StreamInit
  <2> QED BY <1>4, <1>6, <2>1, <2>2 DEF StreamInit, RowsPublished
<1>8. EventsInOrder /\ OvertakenIsPassed /\ RingIsRun
  BY <1>4, <1>6 DEF StreamInit, EventsInOrder, OvertakenIsPassed, RingIsRun, Run
<1>9. JoinInv /\ HasUpToLastId /\ ReplayIsRun /\ PlainInv
  BY <1>6 DEF StreamInit, JoinInv, HasUpToLastId, ReplayIsRun, PlainInv
<1> QED BY <1>5, <1>7, <1>8, <1>9 DEF StreamInv

(* Every step keeps the invariant.                                               *)
LEMMA StreamInvStep == StreamInv /\ [StreamNext]_streamVars => StreamInv'
<1> SUFFICES ASSUME StreamInv, [StreamNext]_streamVars
             PROVE  StreamInv'
  OBVIOUS
<1>0. /\ StreamTypeOK /\ RowsPublished /\ EventsInOrder /\ OvertakenIsPassed /\ RingIsRun
      /\ JoinInv /\ HasUpToLastId /\ ReplayIsRun /\ PlainInv
  BY DEF StreamInv
<1>1. StreamTypeOK'
  BY <1>0, StreamTypeStep
<1>2. RowsPublished'
  BY <1>0, RowsStep
<1>3. EventsInOrder'
  BY <1>0, EventsInOrderStep
<1>4. OvertakenIsPassed'
  BY <1>0, PassedStep
<1>5. RingIsRun'
  BY <1>0, RingStep
<1>6. JoinInv'
  BY <1>0, JoinStep
<1>7. HasUpToLastId'
  BY <1>0, HasUpStep
<1>8. ReplayIsRun'
  BY <1>0, <1>1, <1>5, ReplayStep
<1>9. PlainInv'
  BY <1>0, <1>1, <1>5, PlainStep
<1> QED BY <1>1, <1>2, <1>3, <1>4, <1>5, <1>6, <1>7, <1>8, <1>9 DEF StreamInv

(* GET /v1/agents/sessions/{id}/events?from_sequence=n, for any batches of the        *)
(* ingest, capacities, limits and disconnects: a joined client misses only rows that  *)
(* were never published or lie above the limit of the query, and gets none twice.     *)
THEOREM JoinIsGapFree == StreamSpec => []JoinGapFree
<1>1. StreamInv => JoinGapFree
  BY DEF StreamInv, JoinInv, JoinGapFree
<1> QED BY <1>1, StreamStarts, StreamInvStep, PTL DEF StreamSpec

(* GET /v1/agents/sessions/{id}/events with Last-Event-Id: a client that reconnects   *)
(* misses only what was never published, was passed by another publisher's frame, or  *)
(* was sent before the ring had lost its id.                                          *)
THEOREM ReplayIsComplete == StreamSpec => []ReplayComplete
<1>1. StreamInv => ReplayComplete
  BY DEF StreamInv, PlainInv, Lost, ReplayComplete
<1> QED BY <1>1, StreamStarts, StreamInvStep, PTL DEF StreamSpec
===================================================================================
