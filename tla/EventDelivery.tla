------------------------------ MODULE EventDelivery ------------------------------
(* What a reader of a session's event log may rely on, whatever happens between   *)
(* the agent's stdout and the table agents.agent_events.  Events wait, and leave  *)
(* the queue of their session from its front: as delivered, which means stored,   *)
(* or as lost.  Only eviction and crashes lose events from elsewhere.  A stored   *)
(* event need not be a delivered one: the sender may never hear of it.            *)
EXTENDS Naturals

CONSTANT Sessions

VARIABLES
  accepted,   \* [Sessions -> Nat]: how many events each session has produced
  waiting,    \* events accepted and not yet settled
  delivered,  \* events whose storing was acknowledged
  stored      \* events the log holds at least once

dvars == <<accepted, waiting, delivered, stored>>

Event == [session : Sessions, n : Nat]

(* B is what the queue of one session holds up to some event *)
Front(B) ==
  /\ B # {}
  /\ B \subseteq waiting
  /\ \A b \in B, e \in waiting :
       /\ b.session = e.session /\ e.n < b.n => e \in B
       /\ e \in B => e.session = b.session

DeliveryInit ==
  /\ accepted = [s \in Sessions |-> 0]
  /\ waiting = {}
  /\ delivered = {}
  /\ stored = {}

(* a new event; the buffer may evict another one to make room *)
Accept(s) ==
  /\ accepted' = [accepted EXCEPT ![s] = @ + 1]
  /\ \E gone \in SUBSET waiting :
       /\ \A a, b \in gone : a = b
       /\ waiting' = (waiting \ gone) \cup {[session |-> s, n |-> accepted[s] + 1]}
  /\ UNCHANGED <<delivered, stored>>

Store ==
  /\ stored \subseteq stored'
  /\ \A e \in stored' : e.n \in 1 .. accepted[e.session]
  /\ UNCHANGED <<accepted, waiting, delivered>>

Deliver ==
  /\ \E B \in SUBSET stored :
       /\ Front(B)
       /\ waiting' = waiting \ B
       /\ delivered' = delivered \cup B
  /\ UNCHANGED <<accepted, stored>>

Lose ==
  /\ \/ \E B \in SUBSET waiting : Front(B) /\ waiting' = waiting \ B
     \/ waiting' = {}
  /\ UNCHANGED <<accepted, delivered, stored>>

DeliveryNext == (\E s \in Sessions : Accept(s)) \/ Store \/ Deliver \/ Lose

DeliverySpec == DeliveryInit /\ [][DeliveryNext]_dvars
==================================================================================
