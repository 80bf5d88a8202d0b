------------------------------ MODULE MCStreams -----------------------------
(* What follows a log: a client of the event streams of control-api, and the *)
(* watchdog of a Kafka consumer.  A behaviour is one of one part.            *)
EXTENDS EventStream, KafkaWatch

\* One session with both its publishers: a client that joins, over a channel of
\* one frame, and one that reconnects with its last id, to a ring that forgets.
MCPublishers == {"ingest", "patch"}

Joining == [mode |-> "join", rows |-> 2, others |-> 0, channelCap |-> 1, ringCap |-> 1,
            historyLimit |-> 2, expiry |-> FALSE]
Replaying == [mode |-> "plain", rows |-> 3, others |-> 0, channelCap |-> 1, ringCap |-> 2,
              historyLimit |-> 2, expiry |-> FALSE]
Forgetting == [Replaying EXCEPT !.rows = 2, !.others = 1, !.ringCap = 1, !.expiry = TRUE]
Limited == [Joining EXCEPT !.channelCap = 2, !.historyLimit = 1]
MCSettings == {Joining, Limited, Replaying, Forgetting}
MCEnding == {[Joining EXCEPT !.channelCap = 2, !.ringCap = 2]}

----------------------------------------------------------------------------

VARIABLE part    \* the part a behaviour is of

Parts == {"client", "watch"}

strVars == <<part, streamVars, kwVars>>

StrInit ==
    /\ part \in Parts
    /\ StreamInit /\ KwInit
    /\ (part = "watch") => setting = CHOOSE s \in Settings : TRUE

StrNext ==
    \/ part = "client" /\ StreamNext
       /\ UNCHANGED <<part, kwVars>>
    \/ part = "watch" /\ KwNext
       /\ UNCHANGED <<part, streamVars>>

\* The fairness of StreamFairSpec and KwSpec, each in its own part.
StrFairness ==
    /\ WF_streamVars(part = "client" /\ Publish) /\ WF_streamVars(part = "client" /\ Stream)
    /\ WF_kwVars(part = "watch" /\ NextDelivers) /\ WF_kwVars(part = "watch" /\ CallerHandles)
    /\ WF_kwVars(part = "watch" /\ StallTimeout)
    /\ WF_kwVars(part = "watch" /\ ~brokerUp /\ BrokerChanges)
    /\ WF_kwVars(part = "watch" /\ Joins) /\ WF_kwVars(part = "watch" /\ StallPath)

StrSpec == StrInit /\ [][StrNext]_strVars /\ StrFairness

----------------------------------------------------------------------------
\* A consumer that is stuck while the broker works is replaced and goes on, and
\* the one that takes over passes no record its caller has not handled
\* (StuckRecovers and CommittedHandled of KafkaWatch).
WatchedConsumerRecovers == []CommittedHandled /\ (part = "watch" => StuckRecovers)
=============================================================================
