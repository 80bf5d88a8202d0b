----------------------------- MODULE MCDelivery -----------------------------
(* What must get through: the events of the agents through the relay, a run  *)
(* through the workers of the ingestion.  A behaviour is one of one part.    *)
EXTENDS EventRelay, IngestPipeline

CONSTANTS s1, s2

\* Two sessions that share a small buffer; the event of the second is one the
\* table refuses.
MCSessions == {s1, s2}
MCProduces == [s \in MCSessions |-> IF s = s1 THEN 2 ELSE 1]
MCTurnEnds == {[session |-> s2, n |-> 1]}

\* One run of a repository of two items, one of them too big to travel inline
\* and of a generic type; the first uses the second.
MCItems == {"f", "g"}
MCBig   == {"g"}
MCMono  == {"g"}
MCUses  == [i \in MCItems |-> IF i = "f" THEN {"g"} ELSE {"f"}]
MCDeployments == {{"clone", "expand", "pg_source"}, {"parse", "pg_items"}, {"typecheck", "graph"},
                  {"graph", "embed"}, {"pg_items", "pg_relations"}, {"graph", "neo4j"}}

----------------------------------------------------------------------------
VARIABLE part    \* the part a behaviour is of

Parts == {"relay", "pipeline"}

delVars == <<part, vars, pipeVars>>

DelInit ==
    /\ part \in Parts
    /\ Init /\ PipeInit
    /\ (part # "pipeline") => deployed = CHOOSE d \in Deployments : TRUE

DelNext ==
    \/ part = "relay" /\ Next
       /\ UNCHANGED <<part, pipeVars>>
    \/ part = "pipeline" /\ PipeNext
       /\ UNCHANGED <<part, vars>>

\* The fairness of FairSpec and PipeSpec, each in its own part.
DelFairness ==
    /\ WF_vars(part = "relay" /\ FlushLoop)
    /\ \A c \in Consumers : WF_pipeVars(part = "pipeline" /\ c \in deployed /\ Work(c))

DelSpec == DelInit /\ [][DelNext]_delVars /\ DelFairness

----------------------------------------------------------------------------
\* Every run whose consumers keep working gets through the pipeline, or its loss
\* is reported (RunsComplete of IngestPipeline).
PipelineRunsComplete == part = "pipeline" => RunsComplete
=============================================================================
