----------------------------- MODULE GitHubApp -----------------------------
(* Registering the GitHub App by its manifest: the state tokens of the       *)
(* platform admins, the callback that stores the credentials in place of     *)
(* those before and swaps the loader of its own control-api process, and the *)
(* processes that start from the stored row.  insert_replacing runs as READ  *)
(* COMMITTED: its UPDATE sees the rows of its snapshot, waits for their      *)
(* locks and leaves alone what is no longer active; the partial unique index *)
(* refuses a second active row.                                              *)
(*                                                                           *)
(* Bounds: MaxTickets manifest states; a callback per state.                 *)
EXTENDS Naturals, FiniteSets

CONSTANTS Pods, Admins, MaxTickets

Unset == 0
Tickets == 1..MaxTickets

VARIABLES
    ticket,     \* [Tickets -> [by, is]]: control.github_manifest_states
    config,     \* [Tickets -> "none", "active" or "inactive"]: control.github_app_config
    loader,     \* [Pods -> Unset or a config]: GhAppLoader
    enrol,      \* [Tickets -> the callback that consumed it]
    lastPod,    \* the process whose callback committed last
    excused,    \* history: two callbacks ran at once, or one could not reload what is stored
    clashed     \* history: the unique index refused a row

appVars == <<ticket, config, loader, enrol, lastPod, excused, clashed>>
NotYet == [step |-> "none"]

AppInit ==
    /\ ticket = [k \in Tickets |-> [by |-> "-", is |-> "none"]]
    /\ config = [k \in Tickets |-> "none"]
    /\ loader = [p \in Pods |-> Unset]
    /\ enrol = [k \in Tickets |-> NotYet]
    /\ lastPod = "-" /\ excused = FALSE /\ clashed = FALSE

ActiveRows == {k \in Tickets : config[k] = "active"}
Running(k) == enrol[k].step \in {"replace", "wait", "insert", "reload", "swap"}
Locked == UNION {enrol[k].rows : k \in {j \in Tickets : enrol[j].step = "insert"}}
Leave(k) == enrol' = [enrol EXCEPT ![k] = [step |-> "over"]]

PostAppManifest(k, a) ==
    /\ ticket[k].is = "none" /\ \A j \in 1..(k - 1) : ticket[j].is # "none"
    /\ ticket' = [ticket EXCEPT ![k] = [by |-> a, is |-> "open"]]
    /\ UNCHANGED <<config, loader, enrol, lastPod, excused, clashed>>
TicketExpires(k) ==
    /\ ticket[k].is = "open"
    /\ ticket' = [ticket EXCEPT ![k].is = "closed"]
    /\ UNCHANGED <<config, loader, enrol, lastPod, excused, clashed>>
\* get_app_callback consumes the state before it looks at whose it is, at the
\* encryption key and at GitHub's answer to the code: whatever fails, it is gone.
ConsumeTicket(k, a, p) ==
    /\ ticket[k].is = "open"
    /\ ticket' = [ticket EXCEPT ![k].is = "closed"]
    /\ \/ /\ ticket[k].by = a
          /\ enrol' = [enrol EXCEPT ![k] = [step |-> "replace", pod |-> p]]
          /\ excused' = (excused \/ \E j \in Tickets : Running(j))
       \/ UNCHANGED <<enrol, excused>>
    /\ UNCHANGED <<config, loader, lastPod, clashed>>

\* insert_replacing: the UPDATE's snapshot, its row locks, the INSERT.
ReplaceSnapshot(k) ==
    /\ enrol[k].step = "replace"
    /\ enrol' = [enrol EXCEPT ![k] = [step |-> "wait", pod |-> enrol[k].pod, rows |-> ActiveRows]]
    /\ UNCHANGED <<ticket, config, loader, lastPod, excused, clashed>>
ReplaceLocks(k) ==
    /\ enrol[k].step = "wait" /\ enrol[k].rows \cap Locked = {}
    /\ enrol' = [enrol EXCEPT ![k].step = "insert", ![k].rows = @ \cap ActiveRows]
    /\ UNCHANGED <<ticket, config, loader, lastPod, excused, clashed>>
\* Mutant: the row before is not deactivated by the same transaction.
InsertFirst(k) ==
    /\ enrol[k].step = "insert"
    /\ config' = [config EXCEPT ![k] = "active"]
    /\ enrol' = [enrol EXCEPT ![k] = [step |-> "reload", pod |-> enrol[k].pod]]
    /\ lastPod' = enrol[k].pod
    /\ UNCHANGED <<ticket, loader, excused, clashed>>
Replaced(k) ==
    config' = [j \in Tickets |-> IF j = k THEN "active" ELSE IF j \in enrol[k].rows THEN "inactive" ELSE config[j]]
InsertReplacing(k) ==
    /\ enrol[k].step = "insert"
    /\ LET rows == enrol[k].rows
       IN  \/ /\ ActiveRows \ rows = {}
              /\ Replaced(k)
              /\ enrol' = [enrol EXCEPT ![k] = [step |-> "reload", pod |-> enrol[k].pod]]
              /\ lastPod' = enrol[k].pod /\ UNCHANGED <<excused, clashed>>
           \* Committed, but the answer is lost or nobody waits for it any more.
           \/ /\ ActiveRows \ rows = {}
              /\ Replaced(k)
              /\ Leave(k)
              /\ lastPod' = enrol[k].pod /\ excused' = TRUE /\ UNCHANGED clashed
           \/ /\ ActiveRows \ rows # {}
              /\ clashed' = TRUE
              /\ Leave(k)
              /\ UNCHANGED <<config, lastPod, excused>>
           \* Any other failure of the transaction.
           \/ Leave(k) /\ UNCHANGED <<config, lastPod, excused, clashed>>
    /\ UNCHANGED <<ticket, loader>>
\* load_active reads the row that is active by then, which may be another's.
LoadActive(k) ==
    /\ enrol[k].step = "reload"
    /\ \/ /\ \E j \in ActiveRows : enrol' = [enrol EXCEPT ![k] = [step |-> "swap", pod |-> enrol[k].pod, row |-> j]]
          /\ UNCHANGED excused
       \* The read or building the App fails: the row stays, the loader too.
       \/ Leave(k) /\ excused' = TRUE
    /\ UNCHANGED <<ticket, config, loader, lastPod, clashed>>
\* Mutant: the callback leaves the loader to the next start.
SwapLater(k) ==
    /\ enrol[k].step = "swap"
    /\ Leave(k)
    /\ UNCHANGED <<ticket, config, loader, lastPod, excused, clashed>>
SwapLoader(k) ==
    /\ enrol[k].step = "swap"
    /\ loader' = [loader EXCEPT ![enrol[k].pod] = enrol[k].row]
    /\ Leave(k)
    /\ UNCHANGED <<ticket, config, lastPod, excused, clashed>>

\* A process starts: resolve_gh_app, and the callbacks it was serving are gone.
PodStarts(p) ==
    /\ loader' = [loader EXCEPT ![p] = IF ActiveRows = {} THEN Unset ELSE CHOOSE k \in ActiveRows : TRUE]
    /\ enrol' = [k \in Tickets |-> IF Running(k) /\ enrol[k].pod = p THEN [step |-> "over"] ELSE enrol[k]]
    /\ UNCHANGED <<ticket, config, lastPod, excused, clashed>>

AppNext ==
    \/ \E k \in Tickets :
        \/ \E a \in Admins : PostAppManifest(k, a) \/ \E p \in Pods : ConsumeTicket(k, a, p)
        \/ TicketExpires(k) \/ ReplaceSnapshot(k) \/ ReplaceLocks(k) \/ InsertReplacing(k)
        \/ LoadActive(k) \/ SwapLoader(k)
    \/ \E p \in Pods : PodStarts(p)

AppSpec == AppInit /\ [][AppNext]_appVars

----------------------------------------------------------------------------
(* Properties.                                                               *)

\* Once an App is stored one row is active at every moment: no reader of
\* load_active finds none or two, however callbacks and restarts interleave.
OneActiveApp ==
    Cardinality(ActiveRows) = (IF \E k \in Tickets : config[k] # "none" THEN 1 ELSE 0)

\* The process whose callback committed last serves the stored App as soon as no
\* callback runs, unless two ran at once or one could not reload what it had stored: the
\* read failed, or the answer to its COMMIT was lost.  Then it keeps the App before, as
\* the other processes do, until it starts again.
LoaderIsActive ==
    (lastPod # "-" /\ ~excused /\ \A k \in Tickets : ~Running(k)) => loader[lastPod] \in ActiveRows

\* insert_replacing's comment: the index never refuses a row, because the
\* deactivation runs in the same transaction.
IndexNeverFires == ~clashed
=============================================================================
